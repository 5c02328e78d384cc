\* Three layers.  A host that calls anything, one that leaves no reference behind; the
\* layers panel and the brush at once, on a prompt and on a slow JS thread; the server's
\* rows under calls that follow each other and under two that overlap.
CONSTANTS
  Layers = {l1, l2, l3}
  Groups = {g1, g2, g3, g4}
  None = None
  Opacities = {"full", "half"}
  Full = "full"
  MaxDepth = 3
  Callers = {"free", "careful"}
  Places <- AllPlaces
  FreeGroups = {g1}
  FreeLayers = 2
  CarefulLayers = 2
  CarefulSize = 5
  Paces = {"prompt", "hurried"}
  MaxRows = 2
  MaxTouches = 2
  Rows = {p, m, n}
  NoRow = NoRow
  Source = p
  Mask = m
  Calls = {c1, c2}
  MaxSteps = 2
  MaxMixed = 1
  CallPaces = {"serial", "overlap"}
SPECIFICATION LayersSpec
SYMMETRY LayerSymmetry
INVARIANTS PositionsStacked RelationsAgree EditorAgrees DrawnOnce CanvasAtRest StepsExact
PROPERTIES PaintedStays
\* ids, touches and commands are bounded
CHECK_DEADLOCK FALSE
