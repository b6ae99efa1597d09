CONSTANTS
  KeyLen = 2
  Class <- MCClass
  Listable <- MCListable
  Probes <- MCProbes
  Moduli <- MCModuli
  MaxEntries = 1
  MaxSyllables = 1
  MaxLetters = 5
  Forms <- MCForms
  Crases <- MCCrases
  InitialCapacity = 1
  MaxFound = 1
  Languages = {greek}
  StemTypes = {s1}
  Tables = {preverbs}
  CacheSize = 1
  Nothing = Nothing
SPECIFICATION MCSpec
CHECK_DEADLOCK FALSE
INVARIANT PassiveKeepsAspirate
