SPECIFICATION FairSpec
CONSTANTS
  site = site  u1 = u1  u2 = u2
  Sites = {site}
  URIs = {u1}
  PathOf <- PathOfOne
  Marks <- MarksOfOne
  Workers = {1}
  MaxVersion = 2
  MaxFaults = 0
PROPERTY Consistent
CHECK_DEADLOCK FALSE
