CONSTANTS
  Spellings <- MCSpellings
  Respelled <- MCRespelled
  Requests <- MCRequests
  Libraries <- MCLibraries
SPECIFICATION Spec
INVARIANT ExRespelled
