SPECIFICATION FairSpec
CONSTANTS
  u1 = u1  u2 = u2  n1 = n1  n2 = n2
  URIs = {u1, u2}
  Namespaces = {n1, n2}
  NamespaceOf <- BothIn1
  Posts <- Various
  BufferCap = 1
  IncomingCap = 1
  MaxStreams = 4
  MaxData = 2
  MaxPosts = 2
  MaxRefusals = 1
INVARIANTS TypeOK FedInOrder OneSubscription RequestsAccounted
PROPERTIES AllConsumed HandledUnlessRefused
CHECK_DEADLOCK FALSE
