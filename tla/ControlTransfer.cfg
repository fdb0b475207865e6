SPECIFICATION Spec
CONSTANTS
  Requests <- MCRequests
  DevicePkt = 4
  NakLimit = 2
  RetryLimit = 3
  MaxRequests = 3
  MaxFaults = 4
INVARIANT
  FailsForAReason
PROPERTIES
  KeepsPromise
  RequestsEnd
CHECK_DEADLOCK FALSE
