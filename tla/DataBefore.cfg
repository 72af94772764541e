SPECIFICATION Spec
CONSTANTS
  u1 = u1  u2 = u2  w1 = w1  w2 = w2  AnyTime = AnyTime
  UUIDs = {u1, u2}
  Streams = {u1, u2}
  Workers = {w1, w2}
  Loads <- Before
  TagsOf <- TagsOfTwo
  VK = "vk"
  NamespaceOf <- OneNamespace
  DOTs <- AllDOTs
  Granted <- AllDOTs
  Expiry = 1
  Base = 3
  S_HIGH = 70
  MaxInt = 2047
  SecondsOf <- LengthsOfUnits
  Now = 1200
  ZeroTime <- Year1
INVARIANT SelectDataBefore
CHECK_DEADLOCK FALSE
