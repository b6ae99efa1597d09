CONSTANTS
  t1 = t1
  t2 = t2
  c1 = c1
  c2 = c2
  o1 = o1
  o2 = o2
  o3 = o3
  o4 = o4
  Threads = {t1, t2}
  Contexts = {c1, c2}
  Ops = {o1, o2, o3, o4}
  NoThread = NoThread
  NoContext = NoContext
SPECIFICATION Spec
PROPERTIES
  UsesNativeRightly
  OperationsReturn
