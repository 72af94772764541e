SPECIFICATION FairSpec
CONSTANTS
  site = site  u1 = u1  u2 = u2
  Sites = {site}
  URIs = {u1, u2}
  PathOf <- PathsOfTwo
  Marks <- MarksOfTwo
  Workers = {1,2}
  MaxVersion = 1
  MaxFaults = 1
INVARIANTS TypeOK KnownHasDocument InheritsFromPath
PROPERTIES  MarkIsHonoured
CHECK_DEADLOCK FALSE
