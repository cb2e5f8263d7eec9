\* A call of the gateway's client and one of a client with two retries, against
\* a backend that fails up to four times in every way.
CONSTANTS
  gateway = gateway
  direct = direct
  Undefined = Undefined
  Calls = {gateway, direct}
  Config <- MCConfig
  MaxFailures = 4
SPECIFICATION FairSpec
INVARIANTS
  AtMostOnce
PROPERTIES
  CallsEnd
CHECK_DEADLOCK FALSE
