CONSTANTS
  Spellings <- MCSpellings
  Respelled <- MCRespelled
  Requests <- MCRequests
  Libraries <- MCLibraries
SPECIFICATION Spec
INVARIANTS
  NothingInvented
  NothingMissed
  LicenceScoped
PROPERTIES
  HandedBack
  SearchEnds
