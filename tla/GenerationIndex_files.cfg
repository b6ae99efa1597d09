CONSTANTS
  MaxKey = 7
  MaxEntries = 2
  MaxRecords = 3
  Files <- AllFiles
  Lemmas <- MCLemmas
  Ranks = {1, 2}
  MaxFormsPerRecord = 2
  Limits = {1, 5}
  HardLimit = 5
  InitialCapacity = 2
  Lines <- MCLines
  LemmaKeys <- MCLemmaKeys
  Default = "pr"
  Nothing = Nothing
  MaxLines = 6
SPECIFICATION MCSpec
CHECK_DEADLOCK FALSE
INVARIANTS
  AnswerRight
  RecordsPartitioned
  CompleteAndOrdered
  StatusExplained
  PreparedRight
  BuiltRight
PROPERTY Answered
