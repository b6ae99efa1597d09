CONSTANTS
  KeyLen = 2
  Class <- MCClass
  Listable <- MCListable
  Probes <- MCProbes
  Moduli <- MCModuli
  MaxEntries = 4
  MaxSyllables = 4
  MaxLetters = 5
  Forms <- MCForms
  Crases <- MCCrases
  InitialCapacity = 1
  MaxFound = 4
  Languages = {greek, latin}
  StemTypes = {s1, s2, s3, s4}
  Tables = {preverbs}
  CacheSize = 3
  Nothing = Nothing
SPECIFICATION MCSpec
CHECK_DEADLOCK FALSE
INVARIANTS
  FoundAsWritten
  Recessive
  Persistent
  OneEach
  DialectsContained
  AnswersCurrent
  MissReported
  RingIsFifo
  AugmentUndone
  DerivedFound
