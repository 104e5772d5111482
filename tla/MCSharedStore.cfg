SPECIFICATION Spec
CONSTANTS
  w = w
  f = f
  g = g
  control = control
  orders = orders
  Tasks = {w, f, g}
  Watchers = {w}
  Paths = {control, orders}
  PathOf <- MCPathOf
  Now = Now
  From <- MCFrom
  MaxLen = 2
  MaxStarts = 2
INVARIANTS
  IInv
  NothingSkipped
PROPERTIES
  AloneAtLeastOnce
CHECK_DEADLOCK FALSE
