SPECIFICATION Spec
CONSTANTS
  p1 = p1
  p2 = p2
  t1 = t1
  t2 = t2
  t3 = t3
  h1 = h1
  h2 = h2
  None = None
  Proc = {p1, p2}
  Turn = {t1, t2, t3}
  Home <- MCHome
  Branch = {b1, b2, b3}
  Hash = {h1, h2}
  Fingerprint <- MCFingerprintOne
  Calls = {"commit"}
  Policy = "quarantine_and_reset"
  MaxFaults = 1
SYMMETRY MCSymmetry
PROPERTY QuarantineOnlyCorrupt
CHECK_DEADLOCK FALSE
