SPECIFICATION Spec
CONSTANTS
  Core = {c0, c1}
  FirstCore = c0
  StartAll = FALSE
  AppMsg = {m1}
  Store = {s1, s2}
  None = None
PROPERTIES AcceptedIsDelivered StoresComeHome
