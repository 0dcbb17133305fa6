SPECIFICATION Spec
CONSTANTS
  Requests <- MCRequests
  Elements <- MCElements
  Qos <- MCQos
  Headers <- MCHeaders
  Snaplens <- MCSnaplens
  MaxElements = 2
INVARIANT
  StandardReadsBack
CHECK_DEADLOCK FALSE
