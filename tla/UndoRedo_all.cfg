\* Two tokens edit one layer and a selection, requests overlap freely, any apply() may
\* fail, and the memory budget is below what the stacks may take.
CONSTANTS
  MaxDepth = 2
  SnapshotEvery = 1
  d1 = d1
  raster = raster  transform = transform  selection = selection  mask = mask
  Docs = {d1}
  Tokens = {t1, t2}
  Tracked = {}
  Stdio = {}
  Cmds = {c1, c2, c3}
  Targets = {raster, transform, selection}
  DocOf <- MCDocOf
  KindOf <- MCKindOf
  Affects <- MCAffects
  Floor = 1
  Budget = 2
  SnapshotCost = 2
  MaxRequests = 4
  MaxRestarts = 0
  MaxTicks = 1
  Failing = {"execute", "redo"}
SPECIFICATION Spec
SYMMETRY CmdSymmetry
INVARIANTS CanvasAgrees
PROPERTIES ConflictFlagged EvictionOrder
\* requests, restarts and ticks are bounded, so a behaviour may end
CHECK_DEADLOCK FALSE
