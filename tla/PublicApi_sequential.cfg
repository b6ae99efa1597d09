CONSTANTS
  t1 = t1
  c1 = c1
  Threads = {t1}
  Contexts = {c1}
  Languages = {"GREEK", "LATIN"}
  NoContext = NoContext
  Requests <- BothRequests
  Deployments <- AllDeployments
  Faults = {"NO_MEMORY", "INTERNAL"}
SPECIFICATION Spec
INVARIANTS
  StatusFaithful
  DictionaryMatchesRequest
