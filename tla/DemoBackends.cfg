CONSTANTS
  Requests = {r1, r2, r3, r4, r5, r6}
  Names = {main, dev}
  NoRef = NoRef
  NoName = NoName
  Menu <- SomeMenu
  MaxRestarts = 1
  r1 = r1
  r2 = r2
  r3 = r3
  r4 = r4
  r5 = r5
  r6 = r6
  main = main
  dev = dev
SPECIFICATION Spec
INVARIANTS TypeOK ReferencesExist
PROPERTIES KeepsStore
SYMMETRY Symmetry
CHECK_DEADLOCK FALSE
