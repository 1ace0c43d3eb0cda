CONSTANTS
  Requests = {r1, r2}
  Menu <- BindingMenu
  Bindings = {b1}
  Offers = {o1, o2}
  Workers = {w1}
  MaxReceive = 2
  MaxBatch = 2
  Faults = {}
  NoRequest = NoRequest
  Missing = Missing
  b1 = b1
  o1 = o1
  o2 = o2
  r1 = r1
  r2 = r2
  r3 = r3
  r4 = r4
  w1 = w1
  w2 = w2
SPECIFICATION Spec
PROPERTY OnlyBindCreates
CHECK_DEADLOCK FALSE
