SPECIFICATION Spec
CONSTANTS
  u1 = u1  u2 = u2  s1 = s1
  URIs <- OneURI
  UUIDs = {s1}
  UuidOf <- OneStream
  Payloads <- Lists
  BufferCap = 2
  MaxMsgs = 2
  MaxFailures = 0
  MaxRestarts = 0
INVARIANT ValueHasItsTime
CHECK_DEADLOCK FALSE
