SPECIFICATION PatientSpec
CONSTANTS
  r1 = r1  r2 = r2  a = a  b = b  k1 = k1  k2 = k2  b1 = b1  b2 = b2
  NoKey = NoKey  NoScan = NoScan  NoBody = NoBody
  Requests = {r1, r2}
  Scans = {a, b}
  Keys = {k1, k2, NoKey}
  Bodies = {b1, b2}
  MaxActive = 1
  MaxDepth = 1
  Stores = {TRUE, FALSE}
  RewriteRaces = FALSE
  MaxFaults = 2
INVARIANT AdmissionTypeOK
INVARIANT OneScanPerKey
INVARIANT BodyHonoured
INVARIANT QuotaKept
PROPERTY Served
CHECK_DEADLOCK FALSE
