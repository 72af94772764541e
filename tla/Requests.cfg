SPECIFICATION Spec
CONSTANTS
  p = p  q = q  t1 = t1  t2 = t2
  URIs = {p, q}
  Tools = {t1, t2}
  Window = 3
  MinInterval = 1
  Grace = 4
  Requests <- AllRequests
  Watched = "w"
  Loads <- BothLoads
INVARIANTS RequestsTypeOK NoTwins  NoFalseAlarm SilenceIsNoticed
 
CHECK_DEADLOCK FALSE
