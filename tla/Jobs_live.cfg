\* Without a restart every job is announced: a cancel call, a lost socket, events that
\* overtake, and whatever may fail does.
CONSTANTS
  None = None
  Jobs = {j1, j2}
  Calls = {x1}
  Overtaking = TRUE
  LateSocket = FALSE
  Failing = {"post", "prompt", "fetch", "cancel", "status"}
  MaxDrops = 1
  MaxRestarts = 0
SPECIFICATION FairSpec
PROPERTIES Announced
\* every job of the pool may have been submitted and ended
CHECK_DEADLOCK FALSE
