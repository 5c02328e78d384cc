------------------------------- MODULE ComfyHost -------------------------------
(***************************************************************************)
(* A managed ComfyUI and what the server knows of it: the supervisor that  *)
(* spawns and restarts the process, the WebSocket that follows it, and the *)
(* health monitor that reports it.  They share nothing but the process:    *)
(* an exit reaches the supervisor as an event, the socket as a close, and  *)
(* the monitor as failing probes.                                          *)
(*                                                                         *)
(* Processes are numbered in the order they are spawned; 0 stands for no   *)
(* process.  Back-off delays, the grace period and the interval of the     *)
(* monitor may end at any time.                                            *)
(***************************************************************************)
EXTENDS Naturals, Sequences

CONSTANTS
  MaxRestarts,  \* max_restarts of the supervisor
  Threshold,    \* failure_threshold of the monitor
  WsAttempts,   \* max_reconnect_attempts of the socket
  MaxStarts,    \* bound: calls of start() that spawn
  MaxProbes,    \* bound: probes in flight
  Owners        \* how the supervisor may be used

ASSUME HostParameters ==
  /\ {MaxRestarts, WsAttempts, MaxStarts} \subseteq Nat
  /\ {Threshold, MaxProbes} \subseteq Nat \ {0}
  /\ Owners \subseteq {"once", "anytime"}

VARIABLES
  owner,   \* "once": a server that starts and stops once; "anytime": a host that
           \* has the supervisor alone and calls start() and stop() at any moment
  starts,  \* calls of start() that spawned
  proc,    \* what became of each process, and the signal it was sent
  child,   \* the process the supervisor holds
  sup,     \* shouldRun, permanentFailure, restartAttempts
  delays,  \* back-off timers that have not fired
  stops,   \* processes whose stop() has not resolved
  mon,     \* is the interval of the monitor set?
  probes,  \* probes in flight: unanswered, answered well, answered badly
  status,  \* what the monitor published last
  fails,   \* consecutiveFailures, as far as the threshold
  ws       \* shouldRun, reconnectAttempt, reconnectTimer and socket of the transport

supervisor == <<owner, starts, child, sup, delays, stops>>
monitor    == <<mon, probes, status, fails>>
vars == <<owner, starts, proc, child, sup, delays, stops, mon, probes, status, fails, ws>>

Ids == 1..Len(proc)

(* Each variable has the type the code gives it.                           *)
TypeOK ==
  /\ owner \in {"once", "anytime"}
  /\ starts \in Nat
  /\ proc \in Seq([is : {"booting", "ready", "hung", "exited", "gone"},
                   sent : {"no", "term", "kill"}])
  /\ child \in 0..Len(proc)
  /\ sup \in [run : BOOLEAN, failed : BOOLEAN, attempts : 0..MaxRestarts]
  /\ delays \in Nat
  /\ stops \in SUBSET Ids
  /\ mon \in {"unset", "set", "cleared"}
  /\ probes \in [sent : Nat, good : Nat, bad : Nat]
  /\ status \in {"unknown", "healthy", "degraded"}
  /\ fails \in 0..Threshold
  /\ ws \in [run : BOOLEAN, attempts : 0..WsAttempts, timer : BOOLEAN,
             sock : {"none", "connecting", "open", "closing"}, peer : 0..Len(proc),
             stopped : BOOLEAN]

Alive(p)   == proc[p].is \in {"booting", "ready", "hung"}
Listens(p) == proc[p].is \in {"ready", "hung"}
Live       == {p \in Ids : Alive(p)}
Ready      == \E p \in Ids : proc[p].is = "ready"

Init ==
  /\ owner \in Owners
  /\ starts = 0
  /\ proc = <<>> /\ child = 0
  /\ sup = [run |-> FALSE, failed |-> FALSE, attempts |-> 0]
  /\ delays = 0 /\ stops = {}
  /\ mon = IF owner = "once" THEN "unset" ELSE "cleared"
  /\ probes = [sent |-> 0, good |-> 0, bad |-> 0]
  /\ status = "unknown" /\ fails = 0
  /\ ws = [run |-> FALSE, attempts |-> 0, timer |-> FALSE, sock |-> "none", peer |-> 0,
           stopped |-> owner # "once"]

-----------------------------------------------------------------------------
(* The supervisor.                                                         *)

Spawn ==
  /\ proc' = Append(proc, [is |-> "booting", sent |-> "no"])
  /\ child' = Len(proc) + 1

(* A call that finds a child returns, one after a permanent failure        *)
(* throws: neither changes anything.                                       *)
Start ==
  /\ starts < MaxStarts
  /\ owner = "once" => starts = 0
  /\ ~sup.failed
  /\ child = 0
  /\ sup' = [sup EXCEPT !.run = TRUE, !.attempts = 0]
  /\ Spawn
  /\ starts' = starts + 1
  /\ UNCHANGED <<owner, delays, stops, monitor, ws>>

(* A process is sent what it was not sent before.                          *)
Signal(p, s) == proc' = [proc EXCEPT ![p].sent = IF @ = "kill" THEN @ ELSE s]

(* Mutant of Stop: the child is forgotten when it is asked to end.         *)
StopForgets ==
  /\ sup.run \/ child # 0
  /\ sup' = [sup EXCEPT !.run = FALSE]
  /\ child' = 0
  /\ IF child = 0
     THEN UNCHANGED <<proc, stops>>
     ELSE Signal(child, "term") /\ stops' = stops \cup {child}
  /\ UNCHANGED <<owner, starts, delays, monitor, ws>>

Stop ==
  /\ sup.run \/ child # 0
  /\ sup' = [sup EXCEPT !.run = FALSE]
  /\ IF child = 0
     THEN UNCHANGED <<proc, stops>>
     ELSE Signal(child, "term") /\ stops' = stops \cup {child}
  /\ UNCHANGED <<owner, starts, child, delays, monitor, ws>>

(* SIGKILL once the grace period is over; stop() resolves before the       *)
(* process is gone.                                                        *)
GraceOver(p) ==
  /\ p \in stops
  /\ Signal(p, "kill")
  /\ stops' = stops \ {p}
  /\ child' = 0
  /\ UNCHANGED <<owner, starts, sup, delays, monitor, ws>>

MaybeRestart ==
  IF sup.attempts >= MaxRestarts
  THEN sup' = [sup EXCEPT !.failed = TRUE, !.run = FALSE] /\ UNCHANGED delays
  ELSE sup' = [sup EXCEPT !.attempts = @ + 1] /\ delays' = delays + 1

(* The exit event of any process, the present child or an earlier one.     *)
ExitHandled(p) ==
  /\ p \in Ids /\ proc[p].is = "exited"
  /\ proc' = [proc EXCEPT ![p].is = "gone"]
  /\ child' = 0
  /\ stops' = stops \ {p}
  /\ IF sup.run THEN MaybeRestart ELSE UNCHANGED <<sup, delays>>
  /\ UNCHANGED <<owner, starts, monitor, ws>>

(* Mutant of DelayOver: the timer spawns whatever happened meanwhile.      *)
DelayOverAlways ==
  /\ delays > 0
  /\ delays' = delays - 1
  /\ Spawn
  /\ UNCHANGED <<owner, starts, sup, stops, monitor, ws>>

(* stop() does not clear the back-off timer: it fires and looks.           *)
DelayOver ==
  /\ delays > 0
  /\ delays' = delays - 1
  /\ IF sup.run THEN Spawn ELSE UNCHANGED <<proc, child>>
  /\ UNCHANGED <<owner, starts, sup, stops, monitor, ws>>

-----------------------------------------------------------------------------
(* ComfyUI: one process at a time has the port.                            *)

Becomes(p, s) == proc' = [proc EXCEPT ![p].is = s] /\ UNCHANGED <<supervisor, monitor, ws>>

Boots(p) ==
  /\ p \in Ids /\ proc[p].is = "booting"
  /\ \A q \in Ids : ~Listens(q)
  /\ Becomes(p, "ready")

Hangs(p)    == p \in Ids /\ proc[p].is = "ready" /\ Becomes(p, "hung")
Recovers(p) == p \in Ids /\ proc[p].is = "hung" /\ Becomes(p, "ready")
Exits(p)    == p \in Live /\ Becomes(p, "exited")

(* A process may ignore SIGTERM, not SIGKILL.                              *)
Dies(p) == p \in Live /\ proc[p].sent = "kill" /\ Becomes(p, "exited")

-----------------------------------------------------------------------------
(* The health monitor.  A probe is a request: it is answered as ComfyUI is *)
(* then, and the answer is handled later, not always in order.             *)

InFlight == probes.sent + probes.good + probes.bad

(* The first probe is sent at once.                                        *)
MonitorStart ==
  /\ mon = "unset" /\ ws.run
  /\ mon' = "set"
  /\ probes' = [probes EXCEPT !.sent = 1]
  /\ UNCHANGED <<proc, supervisor, status, fails, ws>>

MonitorTick ==
  /\ mon = "set"
  /\ InFlight < MaxProbes
  /\ probes' = [probes EXCEPT !.sent = @ + 1]
  /\ UNCHANGED <<proc, supervisor, mon, status, fails, ws>>

(* What is in flight is left to end.                                       *)
MonitorStop ==
  /\ mon = "set"
  /\ mon' = "cleared"
  /\ UNCHANGED <<proc, supervisor, probes, status, fails, ws>>

(* Refused, or timed out.                                                  *)
Answer ==
  /\ probes.sent > 0
  /\ probes' = IF Ready THEN [probes EXCEPT !.sent = @ - 1, !.good = @ + 1]
               ELSE [probes EXCEPT !.sent = @ - 1, !.bad = @ + 1]
  /\ UNCHANGED <<proc, supervisor, mon, status, fails, ws>>

(* Mutant of ProbeGood: only the first answer makes the status healthy.    *)
ProbeGoodFirst ==
  /\ probes.good > 0
  /\ probes' = [probes EXCEPT !.good = @ - 1]
  /\ fails' = 0
  /\ status' = IF status = "unknown" THEN "healthy" ELSE status
  /\ UNCHANGED <<proc, supervisor, mon, ws>>

ProbeGood ==
  /\ probes.good > 0
  /\ probes' = [probes EXCEPT !.good = @ - 1]
  /\ fails' = 0
  /\ status' = "healthy"
  /\ UNCHANGED <<proc, supervisor, mon, ws>>

ProbeBad ==
  /\ probes.bad > 0
  /\ probes' = [probes EXCEPT !.bad = @ - 1]
  /\ fails' = IF fails = Threshold THEN fails ELSE fails + 1
  /\ status' = IF fails' = Threshold THEN "degraded" ELSE status
  /\ UNCHANGED <<proc, supervisor, mon, ws>>

-----------------------------------------------------------------------------
(* The WebSocket.                                                          *)

(* ComfyClient.start(), awaited by the server before it goes on.           *)
WsStart ==
  /\ ~ws.run /\ ~ws.stopped /\ mon = "unset"
  /\ ws' = [ws EXCEPT !.run = TRUE, !.attempts = 0, !.sock = "connecting"]
  /\ UNCHANGED <<proc, supervisor, monitor>>

WsOpens(p) ==
  /\ p \in Ids /\ proc[p].is = "ready"
  /\ ws.sock = "connecting"
  /\ ws' = [ws EXCEPT !.sock = "open", !.peer = p, !.attempts = 0]
  /\ UNCHANGED <<proc, supervisor, monitor>>

(* Mutant of Reconnect: the last attempt is made and not followed up.      *)
ReconnectQuits(w) ==
  IF ~w.run THEN w
  ELSE IF w.attempts >= WsAttempts THEN w
  ELSE [w EXCEPT !.attempts = @ + 1, !.timer = TRUE]

Reconnect(w) ==
  IF ~w.run THEN w
  ELSE IF w.attempts >= WsAttempts THEN [w EXCEPT !.run = FALSE]
  ELSE [w EXCEPT !.attempts = @ + 1, !.timer = TRUE]

(* The close event: nobody accepts, the peer is gone, or we closed.        *)
Closed ==
  \/ ws.sock = "connecting" /\ \A p \in Ids : ~Listens(p)
  \/ ws.sock = "open" /\ ~Listens(ws.peer)
  \/ ws.sock = "closing"

WsCloses ==
  /\ Closed
  /\ ws' = Reconnect([ws EXCEPT !.sock = "none", !.peer = 0])
  /\ UNCHANGED <<proc, supervisor, monitor>>

(* connect(), which may throw before there is a socket.                    *)
WsRetry ==
  /\ ws.timer
  /\ \/ ws' = [ws EXCEPT !.timer = FALSE, !.sock = IF ws.run THEN "connecting" ELSE @]
     \/ ws.run /\ ws' = Reconnect([ws EXCEPT !.timer = FALSE])
  /\ UNCHANGED <<proc, supervisor, monitor>>

(* The server stops the monitor first.                                     *)
WsStop ==
  /\ mon = "cleared" /\ ~ws.stopped
  /\ ws' = [ws EXCEPT !.run = FALSE, !.timer = FALSE, !.stopped = TRUE,
                      !.sock = IF @ = "none" THEN @ ELSE "closing"]
  /\ UNCHANGED <<proc, supervisor, monitor>>

-----------------------------------------------------------------------------
Supervise == Start \/ Stop \/ DelayOver \/ \E p \in Ids : GraceOver(p) \/ ExitHandled(p)
Comfy == \E p \in Ids : Boots(p) \/ Hangs(p) \/ Recovers(p) \/ Exits(p) \/ Dies(p)
Monitor == MonitorStart \/ MonitorTick \/ MonitorStop \/ Answer \/ ProbeGood \/ ProbeBad
Follow == WsStart \/ WsCloses \/ WsRetry \/ WsStop \/ \E p \in Ids : WsOpens(p)

Next == Supervise \/ Comfy \/ Monitor \/ Follow

(* Timers fire, events are delivered, requests end and a killed process    *)
(* dies.  Whether ComfyUI starts, hangs or exits is up to ComfyUI.         *)
Fairness ==
  /\ WF_vars(DelayOver)
  /\ WF_vars(\E p \in Ids : GraceOver(p))
  /\ WF_vars(\E p \in Ids : ExitHandled(p))
  /\ WF_vars(\E p \in Ids : Dies(p))
  /\ WF_vars(MonitorTick) /\ WF_vars(Answer) /\ WF_vars(ProbeGood) /\ WF_vars(ProbeBad)
  /\ WF_vars(WsCloses) /\ WF_vars(WsRetry) /\ WF_vars(\E p \in Ids : WsOpens(p))

Spec == Init /\ [][Next]_vars
FairSpec == Spec /\ Fairness

-----------------------------------------------------------------------------
(* An owner that starts and stops the supervisor once never has two        *)
(* processes that compete for the port, and what lives is in the           *)
(* supervisor's hands or was sent SIGKILL: restarts, timers left behind by *)
(* stop() and late exit events notwithstanding.                            *)
OneProcess ==
  owner = "once" =>
    /\ \A p, q \in Live : p = q
    /\ \A p \in Live : child = p \/ proc[p].sent = "kill"

(* After comfyui.crashed-permanently no process is spawned again, by       *)
(* start() or by a timer of an earlier crash, however the supervisor is    *)
(* used.                                                                   *)
GivesUpForGood ==
  [][sup.failed => sup'.failed /\ ~sup'.run /\ Len(proc') = Len(proc)]_vars

(* An owner that starts and stops once is rid of ComfyUI after stop():     *)
(* processes that ignore SIGTERM, crashes and timers notwithstanding.      *)
StopSticks ==
  (owner = "once" /\ starts > 0 /\ ~sup.run) ~> [](Live = {})

(* If ComfyUI answers for good the published status is healthy in the end, *)
(* and if it does not for good it is degraded, whatever late answers are   *)
(* still to come.                                                          *)
StatusTells ==
  /\ <>[](mon = "set" /\ Ready) => <>[](status = "healthy")
  /\ <>[](mon = "set" /\ ~Ready) => <>[](status = "degraded")

(* While the transport means to run, ComfyUI does not answer unheard: the  *)
(* socket opens, unless ComfyUI goes away again, the attempts are used up  *)
(* or the server stops.                                                    *)
Hears ==
  (ws.run /\ Ready) ~> (ws.sock = "open" \/ ~Ready \/ ~ws.run)
=============================================================================
