SPECIFICATION FairSpec
CONSTANTS
  u1 = u1  u2 = u2  n1 = n1  n2 = n2
  URIs = {u1}
  Namespaces = {n1}
  NamespaceOf <- OnlyU1
  Posts <- Simple
  BufferCap = 1
  IncomingCap = 1
  MaxStreams = 2
  MaxData = 2
  MaxPosts = 2
  MaxRefusals = 1
PROPERTY EveryPostHandled
CHECK_DEADLOCK FALSE
