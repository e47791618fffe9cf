SPECIFICATION Spec
CONSTANTS
  Uc = {u1}
  Mc = {m1, m2, m3}
  NMac = 2
  NVlan = 3
  VidBits = {b0, b1}
  NONE = NONE
  Faults = {}
INVARIANTS VlanAccepted
