CONSTANTS
  t1 = t1
  t2 = t2
  c1 = c1
  c2 = c2
  Threads = {t1, t2}
  Contexts = {c1, c2}
  Languages = {"GREEK"}
  NoContext = NoContext
  Requests <- OneRequest
  Deployments <- FullDeployment
  Faults = {"INTERNAL"}
SPECIFICATION Spec
SYMMETRY MCSymmetry
INVARIANTS
  EngineIsolated
  OptionsScoped
  HostContextKept
  NothingDangles
