CONSTANTS
  MaxQueries = 3
  MaxRequests = 1
  MaxEvents = 2
SPECIFICATION Spec
CHECK_DEADLOCK FALSE
INVARIANTS SleeperIsServed AnswerIsWhole
PROPERTIES QueryEnds CableIsSeen
