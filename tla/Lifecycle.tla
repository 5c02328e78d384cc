------------------------------ MODULE Lifecycle ------------------------------
(* The server's start(), stop() and rollback(), with the transports they   *)
(* mount and unmount and the two owners a server has: the command line     *)
(* program, which stops on a signal and exits, and a host that embeds it.  *)
(*                                                                         *)
(* bootstrap() is cut at its awaits; between two awaits nothing else runs. *)
(* stop() and rollback() wait for the transports, and a second time for    *)
(* comfy.stop(), which takes no trip through the event loop: while a call  *)
(* is there no request, signal or timer gets in between.                   *)

CONSTANTS
  Stops,      \* calls of stop(); for the program, signals
  Requests    \* requests the HTTP server waits for when it closes

VARIABLES
  runner,     \* who runs the server: the "program" or a "host"
  mount,      \* the transports configured, besides the one in memory
  phase,      \* status.phase
  boot,       \* what bootstrap() waits for, or how it ended
  up,         \* what has been started or opened and not stopped since
  door,       \* is the HTTP server shut, open or closing?
  held,       \* is `internals` set?
  stop,       \* where each call of stop() stands
  undone,     \* where rollback() stands
  busy,       \* requests the HTTP server has accepted and not answered
  ended       \* has the program called process.exit()?

config == <<runner, mount>>
calls  == <<stop, undone>>
server == <<runner, mount, phase, boot, up, door, held, stop, undone, busy, ended>>

Places == {"no", "unmount", "comfy", "done"}
Parts == {"db", "blobGc", "comfy", "historyGc", "health", "undo", "revocations",
          "mdns", "stdio", "windows"}

ServerTypeOK ==
  /\ runner \in {"program", "host"} /\ mount \subseteq {"stdio", "http"}
  /\ phase \in {"constructed", "starting", "running", "stopping", "stopped", "error"}
  /\ boot \in {"idle", "assets", "comfy", "queue", "mdns", "http", "returned", "failed"}
  /\ up \subseteq Parts
  /\ door \in {"shut", "open", "closing"}
  /\ held \in BOOLEAN /\ ended \in BOOLEAN
  /\ stop \in [Stops -> Places] /\ undone \in Places
  /\ busy \subseteq Requests

ServerInit ==
  /\ runner \in {"program", "host"} /\ mount \in SUBSET {"stdio", "http"}
  /\ phase = "constructed" /\ boot = "idle"
  /\ up = {} /\ door = "shut" /\ held = FALSE
  /\ stop = [s \in Stops |-> "no"] /\ undone = "no"
  /\ busy = {} /\ ended = FALSE

\* No call is between two microtasks: what comes from outside may come now.
Quiet == ~ended /\ undone # "comfy" /\ \A s \in Stops : stop[s] # "comfy"

\* The program exits when its start() or one of its stop() calls settles.
ProgramExits == ended' = (runner = "program")
Moves(s, place) == stop' = [stop EXCEPT ![s] = place] /\ UNCHANGED undone

-----------------------------------------------------------------------------
(* start() and bootstrap().                                                *)

(* A bootstrap that throws leaves `internals` null: rollback() returns at  *)
(* once and what was started stays.                                        *)
BootFails ==
  /\ boot' = "failed" /\ phase' = "error" /\ ProgramExits
  /\ UNCHANGED <<config, up, door, held, calls, busy>>

BootGoesOn(next, started) ==
  /\ boot' = next /\ up' = up \cup started
  /\ UNCHANGED <<config, door, held, calls, busy, ended>>

ServerStart ==
  /\ Quiet /\ phase = "constructed"
  /\ \/ BootGoesOn("assets", {"db"}) /\ phase' = "starting"
     \/ BootFails

AssetsReady ==
  /\ Quiet /\ boot = "assets"
  /\ \/ BootGoesOn("comfy", {"blobGc", "comfy"}) /\ UNCHANGED phase
     \/ BootFails

ComfyAttached ==
  /\ Quiet /\ boot = "comfy"
  /\ \/ BootGoesOn("queue", {"historyGc"}) /\ UNCHANGED phase
     \/ BootFails

\* unmountTransports(): both transports stop accepting at once.
Unmounting(d) == IF d = "open" THEN "closing" ELSE d

(* bootstrap() has returned and the rest of start() runs.  On a first run  *)
(* a pairing window opens; the subcommand `pair` opens two.  A failure     *)
(* here, or a listener that throws, goes to rollback() with internals set. *)
Returned(started, opened) ==
  /\ boot' = "returned" /\ held' = TRUE /\ phase' = "running"
  /\ \E windows \in SUBSET {"windows"} :
       \/ /\ up' = up \cup started \cup windows
          /\ door' = opened
          /\ UNCHANGED undone
       \/ /\ up' = (up \cup started \cup windows) \ {"stdio"}
          /\ door' = Unmounting(opened)
          /\ undone' = "unmount"
  /\ UNCHANGED <<config, stop, busy, ended>>

MountStdio == mount \cap {"stdio"}

(* reconcileOnStartup() cannot fail start().  Without HTTP there is no     *)
(* advertiser to wait for and no server to open.                           *)
QueueRead ==
  /\ Quiet /\ boot = "queue"
  /\ LET started == {"health", "undo", "revocations"} IN
     IF "http" \in mount
     THEN BootGoesOn("mdns", started) /\ UNCHANGED phase
     ELSE Returned(started \cup MountStdio, "shut")

MdnsStarted ==
  /\ Quiet /\ boot = "mdns"
  /\ \/ BootGoesOn("http", {"mdns"} \cup MountStdio) /\ UNCHANGED phase
     \/ BootFails

HttpListens ==
  /\ Quiet /\ boot = "http"
  /\ Returned({}, "open") \/ BootFails

-----------------------------------------------------------------------------
(* stop() and rollback().                                                  *)

(* Mutant of StopAtOnce: a stop() under way counts as done.                *)
StopAtOnceTwice(s) ==
  /\ Quiet /\ stop[s] = "no"
  /\ phase \in {"constructed", "starting", "stopping", "stopped"} \/ ~held
  /\ runner = "program" => boot # "idle"
  /\ phase' = IF phase \in {"constructed", "stopping"} THEN phase ELSE "stopped"
  /\ Moves(s, "done") /\ ProgramExits
  /\ UNCHANGED <<config, boot, up, door, held, busy>>

(* stop() finds nothing to do, a start() under way, or internals that are  *)
(* gone.                                                                   *)
StopAtOnce(s) ==
  /\ Quiet /\ stop[s] = "no"
  /\ phase \in {"constructed", "starting", "stopped"} \/ ~held
  /\ runner = "program" => boot # "idle"
  /\ phase' = IF phase = "constructed" THEN phase ELSE "stopped"
  /\ Moves(s, "done") /\ ProgramExits
  /\ UNCHANGED <<config, boot, up, door, held, busy>>

StopBegins(s) ==
  /\ Quiet /\ stop[s] = "no"
  /\ phase \in {"running", "stopping", "error"} /\ held
  /\ phase' = "stopping"
  /\ up' = up \ {"stdio"} /\ door' = Unmounting(door)
  /\ Moves(s, "unmount")
  /\ UNCHANGED <<config, boot, held, busy, ended>>

HttpCloses ==
  /\ Quiet /\ door = "closing" /\ busy = {}
  /\ door' = "shut"
  /\ UNCHANGED <<config, phase, boot, up, held, calls, busy, ended>>

(* Mutant of Unmounted: the transports are asked to go and not awaited.    *)
UnmountedAtOnce(s) ==
  /\ ~ended /\ stop[s] = "unmount"
  /\ up' = up \ {"mdns", "health", "comfy"}
  /\ Moves(s, "comfy")
  /\ UNCHANGED <<config, phase, boot, door, held, busy, ended>>

(* Reading the orphan jobs fails once another call has closed the database *)
(* and rejects this one.                                                   *)
Unmounted(s) ==
  /\ ~ended /\ stop[s] = "unmount" /\ door = "shut"
  /\ \/ /\ "db" \in up
        /\ up' = up \ {"mdns", "health", "comfy"}
        /\ Moves(s, "comfy") /\ UNCHANGED ended
     \/ /\ "db" \notin up
        /\ up' = up \ {"mdns"}
        /\ Moves(s, "done") /\ ProgramExits
  /\ UNCHANGED <<config, phase, boot, door, held, busy>>

(* Mutant of ComfyStopped: the database is closed first, and so the windows *)
(* cannot be.                                                              *)
DatabaseFirst(s) ==
  /\ ~ended /\ stop[s] = "comfy"
  /\ up' = up \ {"blobGc", "historyGc", "db"}
  /\ Moves(s, "done") /\ ProgramExits
  /\ UNCHANGED <<config, phase, boot, door, held, busy>>

(* Without a database the windows cannot be closed, and the call rejects.  *)
ComfyStopped(s) ==
  /\ ~ended /\ stop[s] = "comfy"
  /\ \/ /\ "db" \in up
        /\ up' = up \ {"blobGc", "historyGc", "windows", "revocations", "undo", "db"}
        /\ held' = FALSE /\ phase' = "stopped"
     \/ /\ "db" \notin up
        /\ up' = up \ {"blobGc", "historyGc"}
        /\ UNCHANGED <<held, phase>>
  /\ Moves(s, "done") /\ ProgramExits
  /\ UNCHANGED <<config, boot, door, busy>>

(* rollback() goes on when one of its steps throws.                        *)
RolledBack ==
  /\ ~ended /\ undone = "unmount" /\ door = "shut"
  /\ up' = up \ ({"mdns", "blobGc", "historyGc", "revocations", "undo", "health", "comfy"}
                   \cup (IF "db" \in up THEN {"windows"} ELSE {}))
  /\ undone' = "comfy" /\ UNCHANGED stop
  /\ UNCHANGED <<config, phase, boot, door, held, busy, ended>>

RollbackEnds ==
  /\ ~ended /\ undone = "comfy"
  /\ up' = up \ {"db"} /\ held' = FALSE /\ phase' = "error"
  /\ undone' = "done" /\ UNCHANGED stop /\ ProgramExits
  /\ UNCHANGED <<config, boot, door, busy>>

-----------------------------------------------------------------------------
(* What runs meanwhile.                                                    *)

\* POST /pair (which may wait for the host's approval), import and export.
RequestComes(r) ==
  /\ Quiet /\ door = "open" /\ r \notin busy
  /\ busy' = busy \cup {r}
  /\ UNCHANGED <<config, phase, boot, up, door, held, calls, ended>>

RequestEnds(r) ==
  /\ Quiet /\ r \in busy
  /\ busy' = busy \ {r}
  /\ UNCHANGED <<config, phase, boot, up, door, held, calls, ended>>

\* server.pairing.openWindow(), which needs internals and nothing else.
OpenWindow ==
  /\ Quiet /\ held /\ runner = "host"
  /\ up' = up \cup {"windows"}
  /\ UNCHANGED <<config, phase, boot, door, held, calls, busy, ended>>

WindowsExpire ==
  /\ Quiet /\ "windows" \in up
  /\ up' = up \ {"windows"}
  /\ UNCHANGED <<config, phase, boot, door, held, calls, busy, ended>>

ServerNext ==
  \/ ServerStart \/ AssetsReady \/ ComfyAttached \/ QueueRead \/ MdnsStarted \/ HttpListens
  \/ \E s \in Stops : StopAtOnce(s) \/ StopBegins(s) \/ Unmounted(s) \/ ComfyStopped(s)
  \/ HttpCloses \/ RolledBack \/ RollbackEnds
  \/ \E r \in Requests : RequestComes(r) \/ RequestEnds(r)
  \/ OpenWindow \/ WindowsExpire

ServerSpec == ServerInit /\ [][ServerNext]_server

(* Requests end (the approval hook has a time-out, the others are finite), *)
(* the HTTP server then closes, and promises that resolved go on.          *)
ServerFairness ==
  /\ \A r \in Requests : WF_server(RequestEnds(r))
  /\ \A s \in Stops : WF_server(Unmounted(s)) /\ WF_server(ComfyStopped(s))
  /\ WF_server(HttpCloses) /\ WF_server(RolledBack) /\ WF_server(RollbackEnds)

ServerFairSpec == ServerSpec /\ ServerFairness

-----------------------------------------------------------------------------
(* Properties.                                                             *)

Needs == {"db", "undo", "revocations"}
Serves == door # "shut" \/ busy # {} \/ "stdio" \in up

(* Whoever can reach the server, over a transport or through the host's    *)
(* interface, finds the database open, the undo manager there and          *)
(* revocations heard: the parts come before the transports and go after    *)
(* the last request, however stop(), rollback() and signals overlap.       *)
ServesReady == ~ended /\ Quiet /\ (Serves \/ held) => Needs \subseteq up

(* FR-10: a server that came up and is stopped, failed after that or has   *)
(* left its process has nothing running: no timer, socket, advertisement,  *)
(* window or database handle, whoever opened it while stop() waited.       *)
AtRest ==
  boot = "returned" /\ (ended \/ phase \in {"stopped", "error"}) =>
    up = {} /\ door = "shut"

(* A stop() that found a running server gets to an end.                    *)
StopEnds == (phase = "stopping") ~> (phase # "stopping" \/ ended)
=============================================================================
