\* No approval handler: requests are answered at once.  Time passes and timers fire;
\* the process is only stopped in order.
CONSTANTS
  None = None
  Windows = {w1, w2}
  Tokens = {t1, t2, t3}
  Requests = {r1, r2}
  Modes = {"any", "manual"}
  HostHook = FALSE
  Crashes = FALSE
SPECIFICATION FairSpec
INVARIANTS OneDevicePerWindow FlagFollowsWindows
PROPERTIES GrantsInWindow WindowsClose
\* every id of the pools may have been used
CHECK_DEADLOCK FALSE
