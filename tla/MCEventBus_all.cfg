SPECIFICATION FairSpec
CONSTANTS
  t1 = t1
  t2 = t2
  h1 = h1
  Capture = capture
  Threads <- TwoThreads
  Handlers <- OneHandler
  Picky <- OneHandler
  Priorities <- TwoPriorities
  ThreadCalls <- MixedCalls
  HandlerCalls <- Reactions
  MaxEvents = 3
  MaxStack = 6
CHECK_DEADLOCK FALSE
INVARIANTS
  TypeOK
  NoneLost
  DeliveryOrder
PROPERTIES
  EventuallyDelivered
