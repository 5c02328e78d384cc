\* A consumer that waits for each lifecycle call, and for a handshake before it disconnects.
CONSTANTS
  None = None
  Calls = {c1, c2}
  Links = {k1, k2}
  Loops = {l1, l2}
  Attempts = {2}
  MaxConnects = 2
  Consumer = {"reuse"}
SPECIFICATION FairSpec
PROPERTIES Settles
\* every call and every connect() may have been made
CHECK_DEADLOCK FALSE
