SPECIFICATION MCSpec
CONSTANTS
  Sends = 2
  Requirements = {"a", "b"}
  MaxPaused = 1
  MaxEscalations = 2
  MaxLeaks = 1
INVARIANTS TypeOK ExactlyOnceInOrder DequeuedIsInjected EndsAnswered YieldDrains CallsArePaired RequirementHolds OneChoicePerReply
PROPERTIES AbortLeavesQueues AbortEnds QuietModelEnds StubbornModelEnds
CHECK_DEADLOCK FALSE
