SPECIFICATION FairSpec
CONSTANTS
  Notifiers = {n1, n2}
  FLAG = 8
  MaxTodo = 2
INVARIANTS
  TypeOK
  EmptyMeansDone
  NoLostWakeup
  NoStaleWorkToken
  OneEmptyPost
PROPERTIES
  ImplementsSignal
  WorkIsServed
  WaitForEmptyReturns
