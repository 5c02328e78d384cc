\* Everything at once: two cancel calls, a lost socket, a restart, and whatever may fail does.
CONSTANTS
  None = None
  Jobs = {j1, j2}
  Calls = {x1, x2}
  Overtaking = TRUE
  LateSocket = TRUE
  Failing = {"post", "prompt", "fetch", "cancel", "poll", "status"}
  MaxDrops = 1
  MaxRestarts = 1
SPECIFICATION Spec
SYMMETRY JobSymmetry
INVARIANTS EndAnnounced NoStuckRow
PROPERTIES ReconcileSparesHeld
\* every job of the pool may have been submitted and ended
CHECK_DEADLOCK FALSE
