SPECIFICATION Spec
CONSTANTS
  p1 = p1
  p2 = p2
  t1 = t1
  t2 = t2
  t3 = t3
  h1 = h1
  h2 = h2
  None = None
  Proc = {p1, p2}
  Turn = {t1, t2}
  Home <- MCHomeTwo
  Branch = {b1, b2}
  Hash = {h1, h2}
  Fingerprint <- MCFingerprint
  Calls = {"commit"}
  Policy = "fail_closed"
  MaxFaults = 1
PROPERTIES CorruptBranchRefused
CHECK_DEADLOCK FALSE
