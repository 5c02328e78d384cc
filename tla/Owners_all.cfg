\* ComfyUI: two starts and stops, two restarts, two reconnect attempts and two overlapping
\* probes, enough for a timer, an exit event and a probe of an earlier turn to meet the next
\* one.  The server: two stops and a rollback at once, two requests to wait for, every set
\* of transports.  The tablet: two backends and three clients.
CONSTANTS
  MaxRestarts = 2
  Threshold = 3
  WsAttempts = 2
  MaxStarts = 2
  MaxProbes = 2
  Owners = {"once", "anytime"}
  Stops = {s1, s2}
  Requests = {r1, r2}
  Backends = {b1, b2}
  NoBackend = NoBackend
  MaxClients = 3
SPECIFICATION OwnersSpec
INVARIANTS OneProcess ServesReady AtRest LinkTells
PROPERTIES StopSticks StatusTells Hears StopEnds
\* starts and clients are bounded, and a server stays stopped
CHECK_DEADLOCK FALSE
