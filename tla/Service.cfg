SPECIFICATION FairSpec
CONSTANTS
  c1 = c1  c2 = c2  w1 = w1  w2 = w2
  Clients = {c1, c2}
  VKOf <- OneVK
  Calls = {1, 2}
  ClientOf <- TwoCalls
  QueryOf <- TwoQueries
  Timed = {1}
  Workers = {w1, w2}
  Queries = {"select uuid", "select data", "empty"}
  KindOf <- KindsOfTwo
  NoQuery = "empty"
  MaxStops = 1
  Others <- Garbage
  MaxLosses = 1
INVARIANTS ServiceTypeOK WaitingAccounted
PROPERTIES ImplementsRpc Returns EntryGoes
CHECK_DEADLOCK FALSE
