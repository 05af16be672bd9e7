SPECIFICATION Spec
CONSTANTS
  e1 = e1
  e2 = e2
  EmitterKeys <- TwoKeys
  MaxSubscribers = 3
  MaxDepth = 2
  RemoveInPass = TRUE
SYMMETRY KeySymmetry
INVARIANTS
  NoStuckEmitter
  NoLostSubscriber
PROPERTY
  CleanDropIsFinal
CHECK_DEADLOCK FALSE
