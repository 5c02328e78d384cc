\* Requests and both collectors interleave; no restart.
CONSTANTS
  None = None
  Blobs = {b1, b2}
  Items = {i1}
  Base = base
  Fresh = {l1, l2}
  Slow = FALSE
  MaxItemBlobs = 0
  Restarts = FALSE
SPECIFICATION FairSpec
INVARIANTS FilesMatch ItemsKeepImage
PROPERTIES Collected
\* every id of the pools may have been used
CHECK_DEADLOCK FALSE
