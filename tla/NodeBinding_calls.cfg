CONSTANTS
  c1 = c1
  c2 = c2
  o1 = o1
  o2 = o2
  o3 = o3
  Contexts = {c1, c2}
  Calls = {o1, o2, o3}
  NoCall = NoCall
  NoContext = NoContext
  Workers = 2
SPECIFICATION Spec
CHECK_DEADLOCK FALSE
INVARIANTS
  InRequestOrder
  CountsExact
PROPERTIES
  UsesNativeRightly
  RequestsComplete
