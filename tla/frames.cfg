SPECIFICATION Spec
CONSTANTS
  Requests <- MCRequests
  Elements <- MCElements
  Qos <- MCQos
  Headers <- MCHeaders
  Snaplens <- MCSnaplens
  MaxElements = 2
INVARIANTS
  HeaderReadsBack
  BodyReadsBack
  DecodeFindsFrame
CHECK_DEADLOCK FALSE
