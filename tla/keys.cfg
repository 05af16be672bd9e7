CONSTANTS
  a = a
  b = b
  f1 = f1
  f2 = f2
  Keys = {a, b}
  Focuses = {f1, f2}
  Root = root
  NoFocus = none
  Owners = {o1}
  NoOwner = noowner
  Keymaps <- MCKeymaps
  MoreBindings <- MCMoreBindings
  Trees <- MCTrees
  Timeout = 2
  MaxKeys = 3
  MaxCalls = 2
SPECIFICATION LiveSpec
INVARIANTS
  OneTimeout
  KeysAccounted
  ObserversTold
PROPERTIES
  KeysInOrder
  FlushNotEarly
  PendingResolves
CHECK_DEADLOCK FALSE
