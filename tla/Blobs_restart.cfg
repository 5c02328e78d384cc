\* Requests and both collectors interleave, the server restarts, and a handler may
\* outlast the minimal age of an orphan.
CONSTANTS
  None = None
  Blobs = {b1, b2}
  Items = {i1, i2}
  Base = base
  Fresh = {l1, l2}
  Slow = TRUE
  MaxItemBlobs = 0
  Restarts = TRUE
SPECIFICATION Spec
SYMMETRY BlobSymmetry
PROPERTIES ContentKept
\* every id of the pools may have been used
CHECK_DEADLOCK FALSE
