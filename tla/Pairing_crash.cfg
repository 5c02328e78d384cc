\* Host approval, restarts and process deaths.
CONSTANTS
  None = None
  Windows = {w1, w2, w3}
  Tokens = {t1, t2, t3}
  Requests = {r1, r2}
  Modes = {"any", "qr", "code"}
  HostHook = TRUE
  Crashes = TRUE
SPECIFICATION Spec
SYMMETRY PairingSymmetry
INVARIANTS ClosedSlotVoid TokenPerDevice
\* every id of the pools may have been used
CHECK_DEADLOCK FALSE
