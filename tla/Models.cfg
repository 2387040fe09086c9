SPECIFICATION ClientsSpec
CONSTANTS
  Loops = {l1, l2, NoLoop}
  l1 = l1
  l2 = l2
  NoLoop = NoLoop
  Calls = {c1, c2}
  c1 = c1
  c2 = c2
  Contexts = {x1, x2}
  x1 = x1
  x2 = x2
  Real = Real
INVARIANTS ClientsAreCurrent CallsAccounted
CHECK_DEADLOCK FALSE
