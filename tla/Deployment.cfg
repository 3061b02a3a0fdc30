SPECIFICATION Spec
CONSTANTS
  None = None
  Removed = Removed
  MalformedIds <- MCMalformedIds
  Addresses = {a1, a2, a3, a4}
  Capacity = 2
  RequestsPerMinute = 1
  Minute = 2
  Sites <- MCSites
  MaxTime = 6
  AllowedOrigins = {"allowed"}
INVARIANTS
  ServedAsDeclared
  AcknowledgedRowsLast
  RunnersAgree
  GatewayLimits
CHECK_DEADLOCK FALSE
