\* A consumer that retries, disconnects at any moment and connects again.
CONSTANTS
  None = None
  Calls = {c1, c2}
  Links = {k1, k2, k3}
  Loops = {l1, l2}
  Attempts = {0, 2}
  MaxConnects = 2
  Consumer = {"retry", "abrupt", "abandon", "reuse"}
SPECIFICATION Spec
SYMMETRY SessionSymmetry
INVARIANTS TwiceAtMost NoOrphan OneLoop DisconnectSticks
\* every call and every connect() may have been made
CHECK_DEADLOCK FALSE
