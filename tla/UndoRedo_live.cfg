\* Requests overlap freely, every apply() may fail, the stdio peer mixes enrolled and
\* executed commands on one stack, an HTTP token comes and goes, memory is short and the
\* server is restarted once.
CONSTANTS
  MaxDepth = 2
  SnapshotEvery = 2
  d1 = d1
  raster = raster  transform = transform  selection = selection  mask = mask
  Docs = {d1}
  Tokens = {t1, t2}
  Tracked = {t2}
  Stdio = {t1}
  Cmds = {c1, c2}
  Targets = {raster, mask}
  DocOf <- MCDocOf
  KindOf <- MCKindOf
  Affects <- MCAffects
  Floor = 2
  Budget = 1
  SnapshotCost = 2
  MaxRequests = 3
  MaxRestarts = 1
  MaxTicks = 1
  Failing = {"execute", "redo"}
SPECIFICATION FairSpec
PROPERTIES LinearHistorySpec GraceDiscards SweepEnds
\* requests, restarts and ticks are bounded, so a behaviour may end
CHECK_DEADLOCK FALSE
