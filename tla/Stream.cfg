SPECIFICATION FairSpec
CONSTANTS
  u1 = u1  u2 = u2  s1 = s1
  URIs <- TwoURIs
  UUIDs = {s1}
  UuidOf <- Shared
  Payloads <- Mixed
  BufferCap = 2
  MaxMsgs = 3
  MaxFailures = 1
  MaxRestarts = 1
INVARIANTS TypeOK CommitterHasStream TrimOnlyWritten
PROPERTIES LostOnlyByTrim ImplementsArchive EventuallyDrained
CHECK_DEADLOCK FALSE
