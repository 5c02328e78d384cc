----------------------------- MODULE Owners_proofs -----------------------------
(* Proofs about the three owners of something that has to be stopped.      *)
(*                                                                         *)
(* ComfyHost: types, that a supervisor gives up for good, and that an      *)
(* owner who starts and stops it once never has two processes.             *)
(*                                                                         *)
(* Lifecycle, for any number of calls of stop() and any requests: types,   *)
(* and that no interleaving of start(), rollback(), stop() and requests    *)
(* leaves the server reachable without its parts or something running when *)
(* it is over.                                                             *)
(*                                                                         *)
(* AppLink, for any backends and any number of clients: types, and that    *)
(* "connected" means the client of the selected backend.                   *)
EXTENDS ComfyHost, Lifecycle, AppLink, SequenceTheorems, TLAPS

ProcRecord == [is : {"booting", "ready", "hung", "exited", "gone"},
               sent : {"no", "term", "kill"}]

LEMMA Parameters ==
  /\ MaxRestarts \in Nat /\ WsAttempts \in Nat /\ MaxStarts \in Nat
  /\ Threshold \in Nat \ {0} /\ MaxProbes \in Nat \ {0}
  /\ Owners \subseteq {"once", "anytime"}
BY HostParameters

USE Parameters

(* What an action may do to the processes: spawn one, or change one.       *)
LEMMA SpawnFacts ==
  ASSUME proc \in Seq(ProcRecord), Spawn
  PROVE  /\ proc' \in Seq(ProcRecord)
         /\ Len(proc') = Len(proc) + 1
         /\ \A p \in 1..Len(proc) : proc'[p] = proc[p]
         /\ proc'[Len(proc) + 1] = [is |-> "booting", sent |-> "no"]
         /\ child' = Len(proc) + 1
<1> DEFINE new == [is |-> "booting", sent |-> "no"]
<1>1. new \in ProcRecord
  BY DEF ProcRecord
<1>2. proc' = Append(proc, new) /\ child' = Len(proc) + 1
  BY DEF Spawn
<1> HIDE DEF new
<1>3. /\ proc' \in Seq(ProcRecord) /\ Len(proc') = Len(proc) + 1
      /\ proc'[Len(proc) + 1] = new
      /\ \A p \in 1..Len(proc) : proc'[p] = proc[p]
  BY <1>1, <1>2, AppendProperties
<1> QED
  BY <1>2, <1>3 DEF new

LEMMA ChangeFacts ==
  ASSUME proc \in Seq(ProcRecord), NEW p \in Ids, NEW r \in ProcRecord,
         proc' = [proc EXCEPT ![p] = r]
  PROVE  /\ proc' \in Seq(ProcRecord)
         /\ Len(proc') = Len(proc)
         /\ proc'[p] = r
         /\ \A q \in Ids : q # p => proc'[q] = proc[q]
BY DEF Ids

LEMMA SignalFacts ==
  ASSUME proc \in Seq(ProcRecord), NEW p \in Ids, NEW s \in {"term", "kill"}, Signal(p, s)
  PROVE  /\ proc' \in Seq(ProcRecord)
         /\ Len(proc') = Len(proc)
         /\ \A q \in Ids : q # p => proc'[q] = proc[q]
         /\ proc'[p].is = proc[p].is
         /\ s = "kill" => proc'[p].sent = "kill"
         /\ proc[p].sent = "kill" => proc'[p].sent = "kill"
<1> DEFINE r == [proc[p] EXCEPT !.sent = IF @ = "kill" THEN @ ELSE s]
<1>1. proc[p] \in ProcRecord
  BY DEF Ids
<1>2. r \in ProcRecord /\ r.is = proc[p].is /\ r.sent = IF proc[p].sent = "kill" THEN "kill" ELSE s
  BY <1>1 DEF ProcRecord
<1>3. proc' = [proc EXCEPT ![p] = r]
  BY DEF Signal
<1> HIDE DEF r
<1> QED
  BY <1>2, <1>3, ChangeFacts

LEMMA BecomesFacts ==
  ASSUME proc \in Seq(ProcRecord), NEW p \in Ids,
         NEW s \in {"booting", "ready", "hung", "exited", "gone"},
         proc' = [proc EXCEPT ![p].is = s]
  PROVE  /\ proc' \in Seq(ProcRecord)
         /\ Len(proc') = Len(proc)
         /\ \A q \in Ids : q # p => proc'[q] = proc[q]
         /\ proc'[p].is = s
         /\ proc'[p].sent = proc[p].sent
<1> DEFINE r == [proc[p] EXCEPT !.is = s]
<1>1. proc[p] \in ProcRecord
  BY DEF Ids
<1>2. r \in ProcRecord /\ r.is = s /\ r.sent = proc[p].sent
  BY <1>1 DEF ProcRecord
<1>3. proc' = [proc EXCEPT ![p] = r]
  OBVIOUS
<1> HIDE DEF r
<1> QED
  BY <1>2, <1>3, ChangeFacts

-----------------------------------------------------------------------------
(* Types.                                                                  *)

SupRecord == [run : BOOLEAN, failed : BOOLEAN, attempts : 0..MaxRestarts]
ProbeRecord == [sent : Nat, good : Nat, bad : Nat]
WsRecord(n) == [run : BOOLEAN, attempts : 0..WsAttempts, timer : BOOLEAN,
                sock : {"none", "connecting", "open", "closing"}, peer : 0..n,
                stopped : BOOLEAN]

SupervisorType ==
  /\ owner \in {"once", "anytime"} /\ starts \in Nat
  /\ proc \in Seq(ProcRecord)
  /\ child \in 0..Len(proc) /\ sup \in SupRecord
  /\ delays \in Nat /\ stops \in SUBSET Ids

MonitorType ==
  /\ mon \in {"unset", "set", "cleared"} /\ probes \in ProbeRecord
  /\ status \in {"unknown", "healthy", "degraded"} /\ fails \in 0..Threshold

Typed == SupervisorType /\ MonitorType /\ ws \in WsRecord(Len(proc))

LEMMA TypeParts == TypeOK <=> Typed
BY DEF TypeOK, Typed, SupervisorType, MonitorType, ProcRecord, SupRecord, ProbeRecord, WsRecord

LEMMA TypePartsNext == TypeOK' <=> Typed'
BY DEF TypeOK, Typed, SupervisorType, MonitorType, ProcRecord, SupRecord, ProbeRecord, WsRecord

LEMMA InitTyped == Init => Typed
BY DEF Init, Typed, SupervisorType, MonitorType, SupRecord, ProbeRecord, WsRecord, Ids

LEMMA RestartTyped ==
  ASSUME sup \in SupRecord, delays \in Nat, MaybeRestart
  PROVE  sup' \in SupRecord /\ delays' \in Nat
<1>1. CASE sup.attempts >= MaxRestarts
  BY <1>1 DEF MaybeRestart, SupRecord
<1>2. CASE ~(sup.attempts >= MaxRestarts)
  <2>1. sup.attempts + 1 \in 0..MaxRestarts
    BY <1>2 DEF SupRecord
  <2> QED
    BY <1>2, <2>1 DEF MaybeRestart, SupRecord
<1> QED
  BY <1>1, <1>2

LEMMA ReconnectTyped ==
  ASSUME NEW n \in Nat, NEW w \in WsRecord(n)
  PROVE  Reconnect(w) \in WsRecord(n)
<1>1. CASE ~w.run
  BY <1>1 DEF Reconnect
<1>2. CASE w.run /\ w.attempts >= WsAttempts
  BY <1>2 DEF Reconnect, WsRecord
<1>3. CASE w.run /\ ~(w.attempts >= WsAttempts)
  <2>1. w.attempts + 1 \in 0..WsAttempts
    BY <1>3 DEF WsRecord
  <2> QED
    BY <1>3, <2>1 DEF Reconnect, WsRecord
<1> QED
  BY <1>1, <1>2, <1>3

LEMMA SuperviseTyped ==
  ASSUME Typed, Supervise
  PROVE  Typed'
<1> USE DEF Typed
<1>n. Len(proc) \in Nat /\ proc \in Seq(ProcRecord)
  BY DEF SupervisorType
<1>1. CASE Start
  <2>1. Spawn /\ UNCHANGED <<owner, delays, stops, mon, probes, status, fails, ws>>
        /\ starts' = starts + 1 /\ sup' = [sup EXCEPT !.run = TRUE, !.attempts = 0]
    BY <1>1 DEF Start, monitor
  <2>2. proc' \in Seq(ProcRecord) /\ Len(proc') = Len(proc) + 1 /\ child' = Len(proc) + 1
    BY <2>1, <1>n, SpawnFacts
  <2>3. sup' \in SupRecord
    <3>1. 0 \in 0..MaxRestarts
      OBVIOUS
    <3> QED
      BY <2>1, <3>1 DEF SupervisorType, SupRecord
  <2>4. SupervisorType'
    BY <2>1, <2>2, <2>3, <1>n DEF SupervisorType, Ids
  <2>5. MonitorType' /\ ws' \in WsRecord(Len(proc'))
    BY <2>1, <2>2, <1>n DEF MonitorType, WsRecord
  <2> QED
    BY <2>4, <2>5
<1>2. CASE Stop
  <2>1. UNCHANGED <<owner, starts, child, delays, mon, probes, status, fails, ws>>
        /\ sup' = [sup EXCEPT !.run = FALSE]
    BY <1>2 DEF Stop, monitor
  <2>2. proc' \in Seq(ProcRecord) /\ Len(proc') = Len(proc) /\ stops' \in SUBSET Ids
    <3>1. CASE child = 0
      BY <3>1, <1>2, <1>n DEF Stop, SupervisorType
    <3>2. CASE child # 0
      <4>1. child \in Ids
        BY <3>2, <1>n DEF SupervisorType, Ids
      <4>2. Signal(child, "term") /\ stops' = stops \cup {child}
        BY <3>2, <1>2 DEF Stop
      <4>3. proc' \in Seq(ProcRecord) /\ Len(proc') = Len(proc)
        BY <4>1, <4>2, <1>n, SignalFacts
      <4> QED
        BY <4>1, <4>2, <4>3 DEF SupervisorType
    <3> QED
      BY <3>1, <3>2
  <2>3. sup' \in SupRecord
    BY <2>1 DEF SupervisorType, SupRecord
  <2> QED
    BY <2>1, <2>2, <2>3 DEF SupervisorType, MonitorType, Ids
<1>3. CASE DelayOver
  <2>1. UNCHANGED <<owner, starts, sup, stops, mon, probes, status, fails, ws>>
        /\ delays > 0 /\ delays' = delays - 1
    BY <1>3 DEF DelayOver, monitor
  <2>2. CASE sup.run
    <3>1. Spawn
      BY <1>3, <2>2 DEF DelayOver
    <3>2. proc' \in Seq(ProcRecord) /\ Len(proc') = Len(proc) + 1 /\ child' = Len(proc) + 1
      BY <3>1, <1>n, SpawnFacts
    <3>3. SupervisorType'
      BY <2>1, <3>2, <1>n DEF SupervisorType, Ids
    <3>4. MonitorType' /\ ws' \in WsRecord(Len(proc'))
      BY <2>1, <3>2, <1>n DEF MonitorType, WsRecord
    <3> QED
      BY <3>3, <3>4
  <2>3. CASE ~sup.run
    BY <1>3, <2>1, <2>3 DEF DelayOver, SupervisorType, MonitorType, Ids
  <2> QED
    BY <2>2, <2>3
<1>4. ASSUME NEW p \in Ids, GraceOver(p)
      PROVE  Typed'
  <2>1. UNCHANGED <<owner, starts, sup, delays, mon, probes, status, fails, ws>>
        /\ Signal(p, "kill") /\ stops' = stops \ {p} /\ child' = 0
    BY <1>4 DEF GraceOver, monitor
  <2>2. proc' \in Seq(ProcRecord) /\ Len(proc') = Len(proc)
    BY <2>1, <1>n, SignalFacts
  <2> QED
    BY <2>1, <2>2, <1>n DEF SupervisorType, MonitorType, Ids
<1>5. ASSUME NEW p \in Ids, ExitHandled(p)
      PROVE  Typed'
  <2>1. UNCHANGED <<owner, starts, mon, probes, status, fails, ws>>
        /\ proc' = [proc EXCEPT ![p].is = "gone"] /\ stops' = stops \ {p} /\ child' = 0
    BY <1>5 DEF ExitHandled, monitor
  <2>2. proc' \in Seq(ProcRecord) /\ Len(proc') = Len(proc)
    BY <2>1, <1>n, BecomesFacts
  <2>3. sup' \in SupRecord /\ delays' \in Nat
    BY <1>5, RestartTyped DEF ExitHandled, SupervisorType
  <2> QED
    BY <2>1, <2>2, <2>3, <1>n DEF SupervisorType, MonitorType, Ids
<1> QED
  BY <1>1, <1>2, <1>3, <1>4, <1>5 DEF Supervise

LEMMA ComfyTyped ==
  ASSUME Typed, Comfy
  PROVE  Typed'
<1>1. PICK p \in Ids, s \in {"ready", "hung", "exited"} : Becomes(p, s)
  BY DEF Comfy, Boots, Hangs, Recovers, Exits, Dies, Live
<1>2. UNCHANGED <<owner, starts, child, sup, delays, stops, mon, probes, status, fails, ws>>
      /\ proc' = [proc EXCEPT ![p].is = s]
  BY <1>1 DEF Becomes, supervisor, monitor
<1>3. proc' \in Seq(ProcRecord) /\ Len(proc') = Len(proc)
  BY <1>2, BecomesFacts DEF Typed, SupervisorType
<1> QED
  BY <1>2, <1>3 DEF Typed, SupervisorType, MonitorType, Ids

LEMMA MonitorTyped ==
  ASSUME Typed, Monitor
  PROVE  Typed'
<1>1. UNCHANGED <<owner, starts, proc, child, sup, delays, stops, ws>>
  BY DEF Monitor, MonitorStart, MonitorTick, MonitorStop, Answer, ProbeGood, ProbeBad, supervisor
<1>2. SupervisorType' /\ ws' \in WsRecord(Len(proc'))
  BY <1>1 DEF Typed, SupervisorType, Ids
<1>3. probes' \in ProbeRecord
  <2>1. probes \in ProbeRecord
    BY DEF Typed, MonitorType
  <2>2. CASE MonitorStart \/ MonitorTick
    <3>1. PICK n \in Nat : probes' = [probes EXCEPT !.sent = n]
      BY <2>1, <2>2 DEF MonitorStart, MonitorTick, ProbeRecord
    <3> QED
      BY <2>1, <3>1 DEF ProbeRecord
  <2>3. CASE MonitorStop
    BY <2>1, <2>3 DEF MonitorStop
  <2>4. CASE Answer
    <3>1. probes.sent - 1 \in Nat /\ probes.good + 1 \in Nat /\ probes.bad + 1 \in Nat
      BY <2>1, <2>4 DEF Answer, ProbeRecord
    <3> QED
      BY <2>1, <2>4, <3>1 DEF Answer, ProbeRecord
  <2>5. CASE ProbeGood
    <3>1. probes.good - 1 \in Nat
      BY <2>1, <2>5 DEF ProbeGood, ProbeRecord
    <3> QED
      BY <2>1, <2>5, <3>1 DEF ProbeGood, ProbeRecord
  <2>6. CASE ProbeBad
    <3>1. probes.bad - 1 \in Nat
      BY <2>1, <2>6 DEF ProbeBad, ProbeRecord
    <3> QED
      BY <2>1, <2>6, <3>1 DEF ProbeBad, ProbeRecord
  <2> QED
    BY <2>2, <2>3, <2>4, <2>5, <2>6 DEF Monitor
<1>4. fails' \in 0..Threshold
  BY DEF Monitor, MonitorStart, MonitorTick, MonitorStop, Answer, ProbeGood, ProbeBad,
         Typed, MonitorType
<1>5. mon' \in {"unset", "set", "cleared"} /\ status' \in {"unknown", "healthy", "degraded"}
  BY DEF Monitor, MonitorStart, MonitorTick, MonitorStop, Answer, ProbeGood, ProbeBad,
         Typed, MonitorType
<1> QED
  BY <1>2, <1>3, <1>4, <1>5 DEF Typed, MonitorType

LEMMA FollowTyped ==
  ASSUME Typed, Follow
  PROVE  Typed'
<1>1. UNCHANGED <<owner, starts, proc, child, sup, delays, stops, mon, probes, status, fails>>
  BY DEF Follow, WsStart, WsOpens, WsCloses, WsRetry, WsStop, supervisor, monitor
<1>2. Len(proc) \in Nat /\ ws \in WsRecord(Len(proc))
  BY DEF Typed, SupervisorType
<1>3. ws' \in WsRecord(Len(proc))
  <2>0. 0 \in 0..WsAttempts /\ 0 \in 0..Len(proc)
    BY <1>2
  <2>1. CASE WsStart \/ WsRetry \/ WsStop
    <3>1. CASE WsStart
      BY <1>2, <2>0, <3>1 DEF WsStart, WsRecord
    <3>2. CASE WsRetry
      <4>1. [ws EXCEPT !.timer = FALSE] \in WsRecord(Len(proc))
        BY <1>2 DEF WsRecord
      <4>2. Reconnect([ws EXCEPT !.timer = FALSE]) \in WsRecord(Len(proc))
        BY <4>1, <1>2, ReconnectTyped
      <4>3. [ws EXCEPT !.timer = FALSE, !.sock = IF ws.run THEN "connecting" ELSE @]
              \in WsRecord(Len(proc))
        BY <1>2 DEF WsRecord
      <4> QED
        BY <4>2, <4>3, <3>2 DEF WsRetry
    <3>3. CASE WsStop
      BY <1>2, <3>3 DEF WsStop, WsRecord
    <3> QED
      BY <2>1, <3>1, <3>2, <3>3
  <2>2. ASSUME NEW p \in Ids, WsOpens(p)
        PROVE  ws' \in WsRecord(Len(proc))
    <3>1. p \in 0..Len(proc)
      BY <1>2 DEF Ids
    <3> QED
      BY <1>2, <2>0, <2>2, <3>1 DEF WsOpens, WsRecord
  <2>3. CASE WsCloses
    <3>1. [ws EXCEPT !.sock = "none", !.peer = 0] \in WsRecord(Len(proc))
      BY <1>2, <2>0 DEF WsRecord
    <3> QED
      BY <3>1, <1>2, <2>3, ReconnectTyped DEF WsCloses
  <2> QED
    BY <2>1, <2>2, <2>3 DEF Follow
<1> QED
  BY <1>1, <1>3 DEF Typed, SupervisorType, MonitorType, Ids

LEMMA NextTyped == Typed /\ [Next]_vars => Typed'
<1> SUFFICES ASSUME Typed, [Next]_vars PROVE Typed'
  OBVIOUS
<1>1. CASE UNCHANGED vars
  BY <1>1 DEF vars, Typed, SupervisorType, MonitorType, Ids
<1> QED
  BY <1>1, SuperviseTyped, ComfyTyped, MonitorTyped, FollowTyped DEF Next

(* Every variable keeps its type, for any budget and any number of starts. *)
THEOREM TypeCorrect == Spec => []TypeOK
<1>1. Init => TypeOK
  BY InitTyped, TypeParts
<1>2. TypeOK /\ [Next]_vars => TypeOK'
  BY NextTyped, TypeParts, TypePartsNext
<1> QED
  BY <1>1, <1>2, PTL DEF Spec

-----------------------------------------------------------------------------
(* The supervisor gives up once: what failed does not run, and only what   *)
(* runs fails.                                                             *)
Gone == sup.failed => ~sup.run

LEMMA NextGone ==
  ASSUME Typed, Gone, [Next]_vars
  PROVE  Gone' /\ (sup.failed => sup'.failed /\ ~sup'.run /\ Len(proc') = Len(proc))
<1>s. sup \in SupRecord /\ proc \in Seq(ProcRecord)
  BY DEF Typed, SupervisorType
<1>1. CASE Start
  BY <1>1, <1>s DEF Start, Gone, SupRecord
<1>2. CASE Stop
  <2>1. sup' = [sup EXCEPT !.run = FALSE]
    BY <1>2 DEF Stop
  <2>2. Len(proc') = Len(proc)
    BY <1>2, <1>s DEF Stop, Signal
  <2> QED
    BY <2>1, <2>2, <1>s DEF Gone, SupRecord
<1>3. CASE DelayOver
  BY <1>3, <1>s DEF DelayOver, Gone
<1>4. ASSUME NEW p \in Ids, GraceOver(p)
      PROVE  Gone' /\ (sup.failed => sup'.failed /\ ~sup'.run /\ Len(proc') = Len(proc))
  BY <1>4, <1>s DEF GraceOver, Signal, Gone
<1>5. ASSUME NEW p \in Ids, ExitHandled(p)
      PROVE  Gone' /\ (sup.failed => sup'.failed /\ ~sup'.run /\ Len(proc') = Len(proc))
  <2>1. Len(proc') = Len(proc)
    BY <1>5, <1>s DEF ExitHandled
  <2>2. Gone' /\ (sup.failed => sup'.failed /\ ~sup'.run)
    BY <1>5, <1>s DEF ExitHandled, MaybeRestart, Gone, SupRecord
  <2> QED
    BY <2>1, <2>2
<1>6. CASE Comfy \/ Monitor \/ Follow \/ UNCHANGED vars
  <2>1. sup' = sup
    BY <1>6 DEF Comfy, Boots, Hangs, Recovers, Exits, Dies, Becomes, Monitor, MonitorStart,
                MonitorTick, MonitorStop, Answer, ProbeGood, ProbeBad, Follow, WsStart, WsOpens,
                WsCloses, WsRetry, WsStop, supervisor, vars
  <2>2. Len(proc') = Len(proc)
    <3>1. CASE Comfy
      <4>1. PICK p \in Ids, s \in {"ready", "hung", "exited"} : proc' = [proc EXCEPT ![p].is = s]
        BY <3>1 DEF Comfy, Boots, Hangs, Recovers, Exits, Dies, Live, Becomes
      <4> QED
        BY <4>1, <1>s
    <3>2. CASE Monitor \/ Follow \/ UNCHANGED vars
      BY <3>2 DEF Monitor, MonitorStart, MonitorTick, MonitorStop, Answer, ProbeGood, ProbeBad,
                  Follow, WsStart, WsOpens, WsCloses, WsRetry, WsStop, vars
    <3> QED
      BY <1>6, <3>1, <3>2
  <2> QED
    BY <2>1, <2>2 DEF Gone
<1> QED
  BY <1>1, <1>2, <1>3, <1>4, <1>5, <1>6 DEF Next, Supervise

(* After a permanent failure nothing is spawned and the failure stays, for *)
(* any restart budget and however start() and stop() are called.           *)
THEOREM FailureFinal == Spec => GivesUpForGood
<1>1. Init => Typed /\ Gone
  BY InitTyped DEF Init, Gone
<1>2. Typed /\ Gone /\ [Next]_vars => Typed' /\ Gone'
  BY NextTyped, NextGone
<1>3. Typed /\ Gone /\ [Next]_vars =>
        [sup.failed => sup'.failed /\ ~sup'.run /\ Len(proc') = Len(proc)]_vars
  BY NextGone
<1> QED
  BY <1>1, <1>2, <1>3, PTL DEF Spec, GivesUpForGood

-----------------------------------------------------------------------------
(* An owner that starts once.  At most one process has an exit still to be *)
(* handled, the last one spawned; a back-off runs only when none has, and  *)
(* the supervisor holds that process or has sent it SIGKILL.               *)
Fresh == starts = 0 => proc = <<>> /\ ~sup.run /\ delays = 0
OneLeft == \A p \in Ids : proc[p].is # "gone" => p = Len(proc)
BackOff == delays \in {0, 1} /\ (delays = 1 => \A p \in Ids : proc[p].is = "gone")
Held == /\ child # 0 => child \in Ids /\ proc[child].is # "gone"
        /\ \A p \in stops : p \in Ids /\ proc[p].is # "gone"
        /\ \A p \in Live : child = p \/ proc[p].sent = "kill"
Sole == owner = "once" => Fresh /\ OneLeft /\ BackOff /\ Held

LEMMA InitSole == Init => Sole
BY DEF Init, Sole, Fresh, OneLeft, BackOff, Held, Live, Ids

(* A process is spawned where none has an exit to come.                    *)
LEMMA SpawnSole ==
  ASSUME Typed, Spawn, \A p \in Ids : proc[p].is = "gone",
         delays' = 0, stops' = stops, \A p \in stops : p \in Ids /\ proc[p].is # "gone"
  PROVE  OneLeft' /\ BackOff' /\ Held'
<1>n. Len(proc) \in Nat /\ proc \in Seq(ProcRecord)
  BY DEF Typed, SupervisorType
<1>1. /\ Len(proc') = Len(proc) + 1 /\ child' = Len(proc) + 1
      /\ \A p \in 1..Len(proc) : proc'[p] = proc[p]
      /\ proc'[Len(proc) + 1] = [is |-> "booting", sent |-> "no"]
  BY <1>n, SpawnFacts
<1>2. proc'[Len(proc) + 1].is = "booting" /\ Len(proc) + 1 \in Ids'
  BY <1>n, <1>1 DEF Ids
<1>3. \A p \in Ids' : proc'[p].is # "gone" => p = Len(proc) + 1
  BY <1>n, <1>1 DEF Ids
<1>4. stops = {}
  OBVIOUS
<1> QED
  BY <1>1, <1>2, <1>3, <1>4, <1>n DEF OneLeft, BackOff, Held, Live, Alive

(* A process that is changed but not spawned leaves the rest as it was.    *)
LEMMA NextSole ==
  ASSUME Typed, Sole, [Next]_vars
  PROVE  Sole'
<1> SUFFICES ASSUME owner' = "once" PROVE Fresh' /\ OneLeft' /\ BackOff' /\ Held'
  BY DEF Sole
<1>o. owner' = owner
  BY DEF Next, Supervise, Start, Stop, DelayOver, GraceOver, ExitHandled, Comfy, Boots, Hangs,
         Recovers, Exits, Dies, Becomes, Monitor, MonitorStart, MonitorTick, MonitorStop, Answer,
         ProbeGood, ProbeBad, Follow, WsStart, WsOpens, WsCloses, WsRetry, WsStop, supervisor, vars
<1>n. /\ owner = "once" /\ Len(proc) \in Nat /\ proc \in Seq(ProcRecord)
      /\ sup \in SupRecord /\ starts \in Nat
      /\ Fresh /\ OneLeft /\ BackOff /\ Held
  BY <1>o DEF Typed, SupervisorType, Sole
<1>1. CASE Start
  <2>1. Spawn /\ stops' = stops /\ starts' = starts + 1 /\ proc = <<>> /\ delays' = 0
    BY <1>1, <1>n DEF Start, Fresh
  <2>2. \A p \in Ids : proc[p].is = "gone"
    BY <2>1 DEF Ids
  <2>3. \A p \in stops : p \in Ids /\ proc[p].is # "gone"
    BY <1>n DEF Held
  <2>4. OneLeft' /\ BackOff' /\ Held'
    BY <2>1, <2>2, <2>3, SpawnSole
  <2> QED
    BY <2>1, <2>4, <1>n DEF Fresh
<1>2. CASE DelayOver
  <2>1. delays = 1 /\ delays' = 0 /\ stops' = stops /\ starts' = starts /\ sup' = sup
    BY <1>2, <1>n DEF DelayOver, BackOff
  <2>2. \A p \in Ids : proc[p].is = "gone"
    BY <2>1, <1>n DEF BackOff
  <2>3. \A p \in stops : p \in Ids /\ proc[p].is # "gone"
    BY <1>n DEF Held
  <2>4. Fresh'
    BY <2>1, <1>n DEF Fresh
  <2>5. CASE sup.run
    <3>1. Spawn
      BY <1>2, <2>5 DEF DelayOver
    <3> QED
      BY <2>1, <2>2, <2>3, <2>4, <3>1, SpawnSole
  <2>6. CASE ~sup.run
    <3>1. proc' = proc /\ child' = child
      BY <1>2, <2>6 DEF DelayOver
    <3> QED
      BY <2>1, <2>4, <3>1, <1>n DEF OneLeft, BackOff, Held, Live, Alive, Ids
  <2> QED
    BY <2>5, <2>6
<1>3. CASE Stop
  <2>1. delays' = delays /\ starts' = starts /\ child' = child
        /\ sup' = [sup EXCEPT !.run = FALSE]
    BY <1>3 DEF Stop
  <2>2. sup'.run = FALSE
    BY <2>1, <1>n DEF SupRecord
  <2>3. CASE child = 0
    <3>1. proc' = proc /\ stops' = stops
      BY <1>3, <2>3 DEF Stop
    <3> QED
      BY <2>1, <2>2, <3>1, <1>n DEF Fresh, OneLeft, BackOff, Held, Live, Alive, Ids
  <2>4. CASE child # 0
    <3>1. child \in Ids /\ proc[child].is # "gone"
      BY <2>4, <1>n DEF Held
    <3>2. Signal(child, "term") /\ stops' = stops \cup {child}
      BY <1>3, <2>4 DEF Stop
    <3>3. /\ Len(proc') = Len(proc) /\ \A q \in Ids : proc'[q].is = proc[q].is
          /\ \A q \in Ids : proc[q].sent = "kill" => proc'[q].sent = "kill"
      <4>1. /\ Len(proc') = Len(proc) /\ \A q \in Ids : q # child => proc'[q] = proc[q]
            /\ proc'[child].is = proc[child].is
            /\ proc[child].sent = "kill" => proc'[child].sent = "kill"
        BY <3>1, <3>2, <1>n, SignalFacts
      <4> QED
        BY <4>1
    <3>4. Ids' = Ids /\ Live' = Live
      BY <3>3 DEF Ids, Live, Alive
    <3>5. Fresh'
      BY <2>1, <3>1, <1>n DEF Fresh, Ids
    <3>6. OneLeft' /\ BackOff'
      BY <2>1, <3>3, <3>4, <1>n DEF OneLeft, BackOff
    <3>7. Held'
      BY <2>1, <3>1, <3>2, <3>3, <3>4, <1>n DEF Held, Live
    <3> QED
      BY <3>5, <3>6, <3>7
  <2> QED
    BY <2>3, <2>4
<1>4. ASSUME NEW p \in Ids, GraceOver(p)
      PROVE  Fresh' /\ OneLeft' /\ BackOff' /\ Held'
  <2>1. p \in stops /\ Signal(p, "kill") /\ stops' = stops \ {p} /\ child' = 0
        /\ starts' = starts /\ sup' = sup /\ delays' = delays
    BY <1>4 DEF GraceOver
  <2>2. /\ Len(proc') = Len(proc) /\ \A q \in Ids : q # p => proc'[q] = proc[q]
        /\ proc'[p].is = proc[p].is /\ proc'[p].sent = "kill"
    BY <2>1, <1>n, SignalFacts
  <2>3. Ids' = Ids /\ \A q \in Ids : proc'[q].is = proc[q].is
    BY <2>2 DEF Ids
  <2>4. Live' = Live
    BY <2>3 DEF Live, Alive
  <2>5. proc[p].is # "gone" /\ p = Len(proc)
    BY <2>1, <1>n DEF Held, OneLeft
  <2>6. \A q \in Live : q = p
    BY <2>5, <1>n DEF Live, Alive, OneLeft
  <2>7. Fresh'
    BY <2>1, <1>n DEF Fresh, Ids
  <2>8. OneLeft' /\ BackOff'
    BY <2>1, <2>2, <2>3, <1>n DEF OneLeft, BackOff
  <2>9. Held'
    BY <2>1, <2>2, <2>3, <2>4, <2>6, <1>n DEF Held
  <2> QED
    BY <2>7, <2>8, <2>9
<1>5. ASSUME NEW p \in Ids, ExitHandled(p)
      PROVE  Fresh' /\ OneLeft' /\ BackOff' /\ Held'
  <2>1. proc[p].is = "exited" /\ proc' = [proc EXCEPT ![p].is = "gone"] /\ stops' = stops \ {p}
        /\ child' = 0 /\ starts' = starts
    BY <1>5 DEF ExitHandled
  <2>2. p = Len(proc) /\ delays = 0
    BY <2>1, <1>n DEF OneLeft, BackOff
  <2>3. /\ Len(proc') = Len(proc) /\ proc'[p].is = "gone"
        /\ \A q \in Ids : q # p => proc'[q] = proc[q]
    BY <2>1, <1>n, BecomesFacts
  <2>4. Ids' = Ids /\ \A q \in Ids : proc'[q].is = "gone"
    BY <2>2, <2>3, <1>n DEF OneLeft, Ids
  <2>5. delays' \in {0, 1}
    BY <1>5, <2>2, <1>n DEF ExitHandled, MaybeRestart
  <2>6. stops' = {}
    BY <2>1, <2>2, <1>n DEF Held, OneLeft
  <2>7. Fresh'
    BY <2>1, <1>n DEF Fresh, Ids
  <2>8. OneLeft' /\ BackOff'
    BY <2>4, <2>5 DEF OneLeft, BackOff
  <2>9. Held'
    BY <2>1, <2>4, <2>6 DEF Held, Live, Alive
  <2> QED
    BY <2>7, <2>8, <2>9
<1>6. CASE Comfy
  <2>1. PICK p \in Ids, s \in {"ready", "hung", "exited"} :
          Becomes(p, s) /\ proc[p].is \in {"booting", "ready", "hung"}
    BY <1>6 DEF Comfy, Boots, Hangs, Recovers, Exits, Dies, Live, Alive
  <2>2. /\ proc' = [proc EXCEPT ![p].is = s]
        /\ starts' = starts /\ child' = child /\ sup' = sup /\ delays' = delays /\ stops' = stops
    BY <2>1 DEF Becomes, supervisor
  <2>3. /\ Len(proc') = Len(proc) /\ proc'[p].is = s /\ proc'[p].sent = proc[p].sent
        /\ \A q \in Ids : q # p => proc'[q] = proc[q]
    BY <2>2, <1>n, BecomesFacts
  <2>4. /\ Ids' = Ids /\ \A q \in Ids : (proc'[q].is = "gone") = (proc[q].is = "gone")
        /\ \A q \in Ids : proc'[q].sent = proc[q].sent
    BY <2>1, <2>3 DEF Ids
  <2>5. Live' \subseteq Live
    BY <2>1, <2>3, <2>4 DEF Live, Alive
  <2>6. Fresh'
    BY <2>1, <2>2, <1>n DEF Fresh, Ids
  <2>7. OneLeft' /\ BackOff'
    BY <2>2, <2>3, <2>4, <1>n DEF OneLeft, BackOff
  <2>8. Held'
    BY <2>2, <2>4, <2>5, <1>n DEF Held, Live
  <2> QED
    BY <2>6, <2>7, <2>8
<1>7. CASE Monitor \/ Follow \/ UNCHANGED vars
  <2>1. UNCHANGED <<starts, proc, child, sup, delays, stops>>
    BY <1>7 DEF Monitor, MonitorStart, MonitorTick, MonitorStop, Answer, ProbeGood, ProbeBad,
                Follow, WsStart, WsOpens, WsCloses, WsRetry, WsStop, supervisor, vars
  <2> QED
    BY <2>1, <1>n DEF Fresh, OneLeft, BackOff, Held, Live, Alive, Ids
<1> QED
  BY <1>1, <1>2, <1>3, <1>4, <1>5, <1>6, <1>7 DEF Next, Supervise

(* An owner that starts and stops the supervisor once never has two living *)
(* processes, and one the supervisor lost sight of has been sent SIGKILL,  *)
(* for any restart budget and any order of crashes, timers and signals.    *)
THEOREM ProcessSole == Spec => []OneProcess
<1>1. Init => Typed /\ Sole
  BY InitTyped, InitSole
<1>2. Typed /\ Sole /\ [Next]_vars => Typed' /\ Sole'
  BY NextTyped, NextSole
<1>3. Typed /\ Sole => OneProcess
  <2> SUFFICES ASSUME OneLeft, Held
               PROVE  /\ \A p, q \in Live : p = q
                      /\ \A p \in Live : child = p \/ proc[p].sent = "kill"
    BY DEF Sole, OneProcess
  <2> QED
    BY DEF OneLeft, Held, Live, Alive
<1> QED
  BY <1>1, <1>2, <1>3, PTL DEF Spec
-----------------------------------------------------------------------------
(* The server: Lifecycle.                                                  *)

(* Until bootstrap() has returned there is nothing to tear down, and stdio *)
(* speaks only after undo manager and revocations are there.               *)
Before ==
  /\ phase = "constructed" => boot = "idle"
  /\ boot # "returned" =>
       /\ held = FALSE /\ door = "shut" /\ undone = "no" /\ busy = {}
       /\ \A s \in Stops : stop[s] \notin {"unmount", "comfy"}
       /\ "stdio" \in up => boot \in {"http", "failed"} /\ Needs \subseteq up
  /\ boot \in {"assets", "comfy", "queue", "mdns", "http"} => "db" \in up
  /\ boot \in {"mdns", "http"} => Needs \subseteq up

(* A call that waits for the transports has shut the way in.               *)
DoorsClosing ==
  undone \in {"unmount", "comfy"} \/ (\E s \in Stops : stop[s] \in {"unmount", "comfy"}) =>
    door # "open" /\ "stdio" \notin up

(* A call that waits for comfy.stop() has found the transports gone.       *)
DoorsClosed ==
  /\ \A s \in Stops : stop[s] = "comfy" =>
       door = "shut" /\ {"mdns", "health", "comfy"} \cap up = {}
  /\ undone = "comfy" => door = "shut" /\ up \subseteq {"db"}

(* While internals are set the database is open, and everything needed to  *)
(* serve is there until rollback() has torn it down; once they are gone    *)
(* nothing is left.                                                        *)
Holding ==
  /\ held => "db" \in up /\ (undone # "comfy" => Needs \subseteq up)
  /\ boot = "returned" /\ ~held => up = {} /\ door = "shut"
  /\ busy # {} => door # "shut"

(* A phase that says it is over, or an exit, comes after internals are gone. *)
Over ==
  boot = "returned" =>
    /\ phase \notin {"constructed", "starting"}
    /\ ended \/ phase \in {"stopped", "error"} => ~held

ServerIInv == ServerTypeOK /\ Before /\ DoorsClosing /\ DoorsClosed /\ Holding /\ Over

-----------------------------------------------------------------------------
(* Types.                                                                  *)

LEMMA ServerInitTyped == ServerInit => ServerTypeOK
  BY DEF ServerInit, ServerTypeOK, Places

LEMMA ServerStepTyped == ASSUME ServerTypeOK, [ServerNext]_server PROVE ServerTypeOK'
<1>1. CASE ServerStart
  BY <1>1 DEF ServerStart, BootGoesOn, BootFails, ProgramExits, ServerTypeOK, Parts, config, calls
<1>2. CASE AssetsReady
  BY <1>2 DEF AssetsReady, BootGoesOn, BootFails, ProgramExits, ServerTypeOK, Parts, config, calls
<1>3. CASE ComfyAttached
  BY <1>3 DEF ComfyAttached, BootGoesOn, BootFails, ProgramExits, ServerTypeOK, Parts, config, calls
<1>4. CASE QueueRead
  BY <1>4 DEF QueueRead, BootGoesOn, Returned, MountStdio, Unmounting, ServerTypeOK, Parts, Places, config, calls
<1>5. CASE MdnsStarted
  BY <1>5 DEF MdnsStarted, BootGoesOn, BootFails, MountStdio, ProgramExits, ServerTypeOK, Parts, config, calls
<1>6. CASE HttpListens
  BY <1>6 DEF HttpListens, Returned, BootFails, ProgramExits, Unmounting, ServerTypeOK, Parts, Places, config, calls
<1>7. ASSUME NEW s \in Stops, StopAtOnce(s) PROVE ServerTypeOK'
  BY <1>7 DEF StopAtOnce, Moves, ProgramExits, ServerTypeOK, Places, config
<1>8. ASSUME NEW s \in Stops, StopBegins(s) PROVE ServerTypeOK'
  BY <1>8 DEF StopBegins, Moves, Unmounting, ServerTypeOK, Places, config
<1>9. ASSUME NEW s \in Stops, Unmounted(s) PROVE ServerTypeOK'
  BY <1>9 DEF Unmounted, Moves, ProgramExits, ServerTypeOK, Places, config
<1>10. ASSUME NEW s \in Stops, ComfyStopped(s) PROVE ServerTypeOK'
  BY <1>10 DEF ComfyStopped, Moves, ProgramExits, ServerTypeOK, Places, config
<1>11. CASE HttpCloses
  BY <1>11 DEF HttpCloses, ServerTypeOK, config, calls
<1>12. CASE RolledBack
  BY <1>12 DEF RolledBack, ServerTypeOK, Places, config
<1>13. CASE RollbackEnds
  BY <1>13 DEF RollbackEnds, ProgramExits, ServerTypeOK, Places, config
<1>14. ASSUME NEW r \in Requests, RequestComes(r) PROVE ServerTypeOK'
  BY <1>14 DEF RequestComes, ServerTypeOK, config, calls
<1>15. ASSUME NEW r \in Requests, RequestEnds(r) PROVE ServerTypeOK'
  BY <1>15 DEF RequestEnds, ServerTypeOK, config, calls
<1>16. CASE OpenWindow
  BY <1>16 DEF OpenWindow, ServerTypeOK, Parts, config, calls
<1>17. CASE WindowsExpire
  BY <1>17 DEF WindowsExpire, ServerTypeOK, config, calls
<1>18. CASE UNCHANGED server
  BY <1>18 DEF ServerTypeOK, server
<1> QED
  BY <1>1, <1>2, <1>3, <1>4, <1>5, <1>6, <1>7, <1>8, <1>9, <1>10, <1>11, <1>12, <1>13, <1>14, <1>15, <1>16, <1>17, <1>18 DEF ServerNext

-----------------------------------------------------------------------------
(* What each step leaves of the invariant.                                 *)

LEMMA ServerInitHolds == ServerInit => ServerIInv
  BY ServerInitTyped DEF ServerInit, ServerIInv, Before, DoorsClosing, DoorsClosed, Holding, Over

LEMMA ServerStartKeeps ==
  ASSUME ServerIInv, ServerStart PROVE Before' /\ DoorsClosing' /\ DoorsClosed' /\ Holding' /\ Over'
<1>1. Before'
  BY DEF ServerIInv, Before, ServerStart, BootGoesOn, BootFails, calls
<1>2. DoorsClosing'
  BY DEF ServerIInv, DoorsClosing, ServerStart, BootGoesOn, BootFails, calls
<1>3. DoorsClosed'
  BY DEF DoorsClosed, ServerStart, BootGoesOn, BootFails, Quiet, calls
<1>4. Holding'
  BY DEF ServerIInv, Holding, ServerStart, BootGoesOn, BootFails, calls
<1>5. Over'
  BY DEF Over, ServerStart, BootGoesOn, BootFails
<1> QED
  BY <1>1, <1>2, <1>3, <1>4, <1>5

LEMMA AssetsReadyKeeps ==
  ASSUME ServerIInv, AssetsReady PROVE Before' /\ DoorsClosing' /\ DoorsClosed' /\ Holding' /\ Over'
<1>1. Before'
  BY DEF ServerIInv, Before, AssetsReady, BootGoesOn, BootFails, calls
<1>2. DoorsClosing'
  BY DEF ServerIInv, DoorsClosing, AssetsReady, BootGoesOn, BootFails, calls
<1>3. DoorsClosed'
  BY DEF DoorsClosed, AssetsReady, BootGoesOn, BootFails, Quiet, calls
<1>4. Holding'
  BY DEF ServerIInv, Holding, AssetsReady, BootGoesOn, BootFails, calls
<1>5. Over'
  BY DEF Over, AssetsReady, BootGoesOn, BootFails
<1> QED
  BY <1>1, <1>2, <1>3, <1>4, <1>5

LEMMA ComfyAttachedKeeps ==
  ASSUME ServerIInv, ComfyAttached PROVE Before' /\ DoorsClosing' /\ DoorsClosed' /\ Holding' /\ Over'
<1>1. Before'
  BY DEF ServerIInv, Before, ComfyAttached, BootGoesOn, BootFails, calls
<1>2. DoorsClosing'
  BY DEF ServerIInv, DoorsClosing, ComfyAttached, BootGoesOn, BootFails, calls
<1>3. DoorsClosed'
  BY DEF DoorsClosed, ComfyAttached, BootGoesOn, BootFails, Quiet, calls
<1>4. Holding'
  BY DEF ServerIInv, Holding, ComfyAttached, BootGoesOn, BootFails, calls
<1>5. Over'
  BY DEF Over, ComfyAttached, BootGoesOn, BootFails
<1> QED
  BY <1>1, <1>2, <1>3, <1>4, <1>5

LEMMA QueueReadKeeps ==
  ASSUME ServerIInv, QueueRead PROVE Before' /\ DoorsClosing' /\ DoorsClosed' /\ Holding' /\ Over'
<1>1. Before'
  BY DEF ServerIInv, Before, QueueRead, BootGoesOn, Returned, Needs, calls
<1>2. DoorsClosing'
  BY DEF ServerIInv, Before, DoorsClosing, QueueRead, BootGoesOn, Returned, Unmounting
<1>3. DoorsClosed'
  BY DEF DoorsClosed, QueueRead, BootGoesOn, Returned, Quiet, calls
<1>4. Holding'
  BY DEF ServerIInv, Before, Holding, QueueRead, BootGoesOn, Returned, Needs
<1>5. Over'
  BY DEF Over, QueueRead, BootGoesOn, Returned, Quiet
<1> QED
  BY <1>1, <1>2, <1>3, <1>4, <1>5

LEMMA MdnsStartedKeeps ==
  ASSUME ServerIInv, MdnsStarted PROVE Before' /\ DoorsClosing' /\ DoorsClosed' /\ Holding' /\ Over'
<1>1. Before'
  BY DEF ServerIInv, Before, MdnsStarted, BootGoesOn, BootFails, calls
<1>2. DoorsClosing'
  BY DEF ServerIInv, Before, DoorsClosing, MdnsStarted, BootGoesOn, BootFails, calls
<1>3. DoorsClosed'
  BY DEF DoorsClosed, MdnsStarted, BootGoesOn, BootFails, Quiet, calls
<1>4. Holding'
  BY DEF ServerIInv, Holding, MdnsStarted, BootGoesOn, BootFails, calls
<1>5. Over'
  BY DEF Over, MdnsStarted, BootGoesOn, BootFails
<1> QED
  BY <1>1, <1>2, <1>3, <1>4, <1>5

LEMMA HttpListensKeeps ==
  ASSUME ServerIInv, HttpListens PROVE Before' /\ DoorsClosing' /\ DoorsClosed' /\ Holding' /\ Over'
<1>1. Before'
  BY DEF ServerIInv, Before, HttpListens, Returned, BootFails, calls
<1>2. DoorsClosing'
  BY DEF ServerIInv, Before, DoorsClosing, HttpListens, Returned, BootFails, Unmounting, calls
<1>3. DoorsClosed'
  BY DEF DoorsClosed, HttpListens, Returned, BootFails, Quiet, calls
<1>4. Holding'
  BY DEF ServerIInv, Before, Holding, HttpListens, Returned, BootFails, Needs
<1>5. Over'
  BY DEF Over, HttpListens, Returned, BootFails, Quiet
<1> QED
  BY <1>1, <1>2, <1>3, <1>4, <1>5

LEMMA StopAtOnceKeeps ==
  ASSUME ServerIInv, NEW s \in Stops, StopAtOnce(s) PROVE Before' /\ DoorsClosing' /\ DoorsClosed' /\ Holding' /\ Over'
<1>1. Before'
  BY DEF ServerIInv, Before, StopAtOnce, Moves
<1>2. DoorsClosing'
  BY DEF ServerIInv, DoorsClosing, StopAtOnce, Moves
<1>3. DoorsClosed'
  BY DEF DoorsClosed, StopAtOnce, Moves, Quiet
<1>4. Holding'
  BY DEF ServerIInv, Holding, StopAtOnce, Quiet
<1>5. Over'
  BY DEF ServerIInv, Over, StopAtOnce
<1> QED
  BY <1>1, <1>2, <1>3, <1>4, <1>5

LEMMA StopBeginsKeeps ==
  ASSUME ServerIInv, NEW s \in Stops, StopBegins(s) PROVE Before' /\ DoorsClosing' /\ DoorsClosed' /\ Holding' /\ Over'
<1>1. Before'
  BY DEF ServerIInv, Before, StopBegins
<1>2. DoorsClosing'
  BY DEF DoorsClosing, StopBegins, Unmounting
<1>3. DoorsClosed'
  BY DEF DoorsClosed, StopBegins, Moves, Quiet
<1>4. Holding'
  BY DEF ServerIInv, Holding, StopBegins, Unmounting, Needs, Quiet
<1>5. Over'
  BY DEF Over, StopBegins, Quiet
<1> QED
  BY <1>1, <1>2, <1>3, <1>4, <1>5

LEMMA UnmountedKeeps ==
  ASSUME ServerIInv, NEW s \in Stops, Unmounted(s) PROVE Before' /\ DoorsClosing' /\ DoorsClosed' /\ Holding' /\ Over'
<1>1. Before'
  BY DEF ServerIInv, Before, Unmounted
<1>2. DoorsClosing'
  BY DEF ServerIInv, DoorsClosing, Unmounted
<1>3. DoorsClosed'
  BY DEF ServerIInv, Before, DoorsClosed, Holding, Unmounted, Moves
<1>4. Holding'
  BY DEF ServerIInv, Holding, Unmounted, Moves, Needs
<1>5. Over'
  BY DEF ServerIInv, Holding, Over, Unmounted
<1> QED
  BY <1>1, <1>2, <1>3, <1>4, <1>5

LEMMA ComfyStoppedKeeps ==
  ASSUME ServerIInv, NEW s \in Stops, ComfyStopped(s) PROVE Before' /\ DoorsClosing' /\ DoorsClosed' /\ Holding' /\ Over'
<1>1. Before'
  BY DEF ServerIInv, Before, ComfyStopped
<1>2. DoorsClosing'
  BY DEF ServerIInv, DoorsClosing, ComfyStopped
<1>3. DoorsClosed'
  BY DEF ServerIInv, DoorsClosed, ComfyStopped, Moves
<1>4. Holding'
  <2>1. CASE "db" \in up
    <3>1. stop[s] = "comfy" /\ door = "shut" /\ "stdio" \notin up
      BY DEF ServerIInv, DoorsClosing, DoorsClosed, ComfyStopped
    <3>2. up \cap {"mdns", "health", "comfy"} = {} /\ busy = {}
      BY <3>1 DEF ServerIInv, DoorsClosed, Holding
    <3>3. up' = up \ {"blobGc", "historyGc", "windows", "revocations", "undo", "db"}
      BY <2>1 DEF ComfyStopped
    <3>4. up' = {}
      BY <3>1, <3>2, <3>3 DEF ServerIInv, ServerTypeOK, Parts
    <3> QED
      BY <2>1, <3>1, <3>2, <3>4 DEF ComfyStopped, Holding
  <2>2. CASE "db" \notin up
    BY <2>2 DEF ServerIInv, Holding, ComfyStopped
  <2> QED
    BY <2>1, <2>2
<1>5. Over'
  BY DEF ServerIInv, Holding, Over, ComfyStopped
<1> QED
  BY <1>1, <1>2, <1>3, <1>4, <1>5

LEMMA HttpClosesKeeps ==
  ASSUME ServerIInv, HttpCloses PROVE Before' /\ DoorsClosing' /\ DoorsClosed' /\ Holding' /\ Over'
<1>1. Before'
  BY DEF ServerIInv, Before, HttpCloses
<1>2. DoorsClosing'
  BY DEF ServerIInv, DoorsClosing, HttpCloses, calls
<1>3. DoorsClosed'
  BY DEF DoorsClosed, HttpCloses, Quiet, calls
<1>4. Holding'
  BY DEF ServerIInv, Holding, HttpCloses, calls
<1>5. Over'
  BY DEF ServerIInv, Over, HttpCloses
<1> QED
  BY <1>1, <1>2, <1>3, <1>4, <1>5

LEMMA RolledBackKeeps ==
  ASSUME ServerIInv, RolledBack PROVE Before' /\ DoorsClosing' /\ DoorsClosed' /\ Holding' /\ Over'
<1>1. Before'
  BY DEF ServerIInv, Before, RolledBack
<1>2. DoorsClosing'
  BY DEF ServerIInv, DoorsClosing, RolledBack
<1>3. DoorsClosed'
  BY DEF ServerIInv, ServerTypeOK, Before, DoorsClosing, DoorsClosed, Holding, RolledBack, Parts
<1>4. Holding'
  BY DEF ServerIInv, Holding, RolledBack
<1>5. Over'
  BY DEF ServerIInv, Over, RolledBack
<1> QED
  BY <1>1, <1>2, <1>3, <1>4, <1>5

LEMMA RollbackEndsKeeps ==
  ASSUME ServerIInv, RollbackEnds PROVE Before' /\ DoorsClosing' /\ DoorsClosed' /\ Holding' /\ Over'
<1>1. Before'
  BY DEF ServerIInv, Before, RollbackEnds
<1>2. DoorsClosing'
  BY DEF ServerIInv, DoorsClosing, RollbackEnds
<1>3. DoorsClosed'
  BY DEF ServerIInv, DoorsClosed, RollbackEnds
<1>4. Holding'
  BY DEF ServerIInv, DoorsClosed, Holding, RollbackEnds
<1>5. Over'
  BY DEF Over, RollbackEnds
<1> QED
  BY <1>1, <1>2, <1>3, <1>4, <1>5

LEMMA RequestComesKeeps ==
  ASSUME ServerIInv, NEW r \in Requests, RequestComes(r) PROVE Before' /\ DoorsClosing' /\ DoorsClosed' /\ Holding' /\ Over'
<1>1. Before'
  BY DEF ServerIInv, Before, RequestComes
<1>2. DoorsClosing'
  BY DEF ServerIInv, DoorsClosing, RequestComes, calls
<1>3. DoorsClosed'
  BY DEF DoorsClosed, RequestComes, Quiet, calls
<1>4. Holding'
  BY DEF ServerIInv, Holding, RequestComes, calls
<1>5. Over'
  BY DEF ServerIInv, Over, RequestComes
<1> QED
  BY <1>1, <1>2, <1>3, <1>4, <1>5

LEMMA RequestEndsKeeps ==
  ASSUME ServerIInv, NEW r \in Requests, RequestEnds(r) PROVE Before' /\ DoorsClosing' /\ DoorsClosed' /\ Holding' /\ Over'
<1>1. Before'
  BY DEF ServerIInv, Before, RequestEnds
<1>2. DoorsClosing'
  BY DEF ServerIInv, DoorsClosing, RequestEnds, calls
<1>3. DoorsClosed'
  BY DEF DoorsClosed, RequestEnds, Quiet, calls
<1>4. Holding'
  BY DEF ServerIInv, Holding, RequestEnds, calls
<1>5. Over'
  BY DEF ServerIInv, Over, RequestEnds
<1> QED
  BY <1>1, <1>2, <1>3, <1>4, <1>5

LEMMA OpenWindowKeeps ==
  ASSUME ServerIInv, OpenWindow PROVE Before' /\ DoorsClosing' /\ DoorsClosed' /\ Holding' /\ Over'
<1>1. Before'
  BY DEF ServerIInv, Before, OpenWindow
<1>2. DoorsClosing'
  BY DEF ServerIInv, DoorsClosing, OpenWindow, calls
<1>3. DoorsClosed'
  BY DEF DoorsClosed, OpenWindow, Quiet, calls
<1>4. Holding'
  BY DEF ServerIInv, Holding, OpenWindow, calls
<1>5. Over'
  BY DEF ServerIInv, Over, OpenWindow
<1> QED
  BY <1>1, <1>2, <1>3, <1>4, <1>5

LEMMA WindowsExpireKeeps ==
  ASSUME ServerIInv, WindowsExpire PROVE Before' /\ DoorsClosing' /\ DoorsClosed' /\ Holding' /\ Over'
<1>1. Before'
  BY DEF ServerIInv, Before, WindowsExpire, Needs, calls
<1>2. DoorsClosing'
  BY DEF ServerIInv, DoorsClosing, WindowsExpire, calls
<1>3. DoorsClosed'
  BY DEF DoorsClosed, WindowsExpire, Quiet, calls
<1>4. Holding'
  BY DEF ServerIInv, Holding, WindowsExpire, Needs, calls
<1>5. Over'
  BY DEF ServerIInv, Over, WindowsExpire
<1> QED
  BY <1>1, <1>2, <1>3, <1>4, <1>5

-----------------------------------------------------------------------------
(* The theorems.                                                           *)

LEMMA ServerStepKeeps == ASSUME ServerIInv, [ServerNext]_server PROVE ServerIInv'
<1>1. ServerTypeOK'
  BY ServerStepTyped DEF ServerIInv
<1>2. CASE UNCHANGED server
  BY <1>1, <1>2 DEF ServerIInv, server, Before, DoorsClosing, DoorsClosed, Holding, Over
<1>3. CASE AssetsReady \/ ComfyAttached \/ ServerStart
  BY <1>1, <1>3, AssetsReadyKeeps, ComfyAttachedKeeps, ServerStartKeeps DEF ServerIInv
<1>4. CASE QueueRead \/ MdnsStarted \/ HttpListens
  BY <1>1, <1>4, QueueReadKeeps, MdnsStartedKeeps, HttpListensKeeps DEF ServerIInv
<1>5. CASE HttpCloses \/ RolledBack \/ RollbackEnds
  BY <1>1, <1>5, HttpClosesKeeps, RolledBackKeeps, RollbackEndsKeeps DEF ServerIInv
<1>6. CASE OpenWindow \/ WindowsExpire
  BY <1>1, <1>6, OpenWindowKeeps, WindowsExpireKeeps DEF ServerIInv
<1>7. CASE \E s \in Stops : StopAtOnce(s) \/ StopBegins(s) \/ Unmounted(s) \/ ComfyStopped(s)
  BY <1>1, <1>7, StopAtOnceKeeps, StopBeginsKeeps, UnmountedKeeps, ComfyStoppedKeeps DEF ServerIInv
<1>8. CASE \E r \in Requests : RequestComes(r) \/ RequestEnds(r)
  BY <1>1, <1>8, RequestComesKeeps, RequestEndsKeeps DEF ServerIInv
<1> QED
  BY <1>2, <1>3, <1>4, <1>5, <1>6, <1>7, <1>8 DEF ServerNext

LEMMA ServerInvariance == ServerSpec => []ServerIInv
  BY ServerInitHolds, ServerStepKeeps, PTL DEF ServerSpec

(* Every variable keeps its type: ServerTypeOK.                                  *)
THEOREM ServerTypeCorrect == ServerSpec => []ServerTypeOK
<1>1. ServerIInv => ServerTypeOK
  BY DEF ServerIInv
<1> QED
  BY <1>1, ServerInvariance, PTL

(* Whoever reaches the server finds database, undo manager and revocations *)
(* there, before, between and during any calls of stop(): ServesReady.     *)
THEOREM ReadyToServe == ServerSpec => []ServesReady
<1>1. ASSUME ServerIInv PROVE ServesReady
  <2>1. ASSUME boot # "returned", ~ended, Serves \/ held PROVE Needs \subseteq up
    BY <1>1, <2>1 DEF ServerIInv, Before, Serves
  <2>2. ASSUME boot = "returned", ~ended, Quiet, Serves \/ held PROVE Needs \subseteq up
    <3>1. held
      BY <1>1, <2>2 DEF ServerIInv, Holding, Serves
    <3> QED
      BY <1>1, <2>2, <3>1 DEF ServerIInv, Holding, Quiet
  <2> QED
    BY <2>1, <2>2 DEF ServesReady
<1> QED
  BY <1>1, ServerInvariance, PTL

(* A server that came up and is over, or whose program has exited, has     *)
(* nothing running: AtRest.                                                *)
THEOREM NothingLeft == ServerSpec => []AtRest
<1>1. ASSUME ServerIInv PROVE AtRest
  BY <1>1 DEF ServerIInv, Holding, Over, AtRest
<1> QED
  BY <1>1, ServerInvariance, PTL

-----------------------------------------------------------------------------
(* The tablet: AppLink.                                                    *)

ClientRecord == [of : Backends, is : {"connecting", "open", "failed", "disposed", "stray"}]

LEMMA DeviceInitTyped == DeviceInit => DeviceTypeOK
BY DEF DeviceInit, DeviceTypeOK

LEMMA WantedTyped == DeviceTypeOK => Wanted \in Backends \cup {NoBackend}
BY DEF DeviceTypeOK, Wanted

LEMMA CleanedUpFacts ==
  ASSUME DeviceTypeOK
  PROVE  /\ CleanedUp \in Seq(ClientRecord) /\ Len(CleanedUp) = Len(client)
<1>1. client \in Seq(ClientRecord)
  BY DEF DeviceTypeOK, ClientRecord
<1>2. ASSUME NEW c \in 1..Len(client)
      PROVE  CleanedUp[c] \in ClientRecord
  <2>1. client[c] \in ClientRecord
    BY <1>1
  <2>2. [client[c] EXCEPT !.is = "disposed"] \in ClientRecord
    BY <2>1 DEF ClientRecord
  <2>3. CleanedUp[c] \in {client[c], [client[c] EXCEPT !.is = "disposed"]}
    BY DEF CleanedUp, Clients
  <2> QED
    BY <2>1, <2>2, <2>3
<1> QED
  BY <1>1, <1>2 DEF CleanedUp, Clients

LEMMA TurnsFacts ==
  ASSUME DeviceTypeOK, NEW c \in Clients,
         NEW what \in {"connecting", "open", "failed", "disposed", "stray"}, Turns(c, what)
  PROVE  /\ client' \in Seq(ClientRecord) /\ Len(client') = Len(client)
         /\ client'[c] = [of |-> client[c].of, is |-> what]
         /\ \A d \in Clients : d # c => client'[d] = client[d]
<1> DEFINE turned == [client[c] EXCEPT !.is = what]
<1>1. client \in Seq(ClientRecord)
  BY DEF DeviceTypeOK, ClientRecord
<1>0. client[c] \in ClientRecord
  BY <1>1 DEF Clients
<1>2. turned \in ClientRecord /\ turned = [of |-> client[c].of, is |-> what]
  BY <1>0 DEF ClientRecord
<1>3. client' = [client EXCEPT ![c] = turned]
  BY DEF Turns
<1> HIDE DEF turned
<1> QED
  BY <1>1, <1>2, <1>3 DEF Clients

LEMMA ScreensTyped ==
  ASSUME DeviceTypeOK, NEW b \in Backends,
         CompletePairing(b) \/ RevokeAction(b) \/ RemoveBackend(b) \/ RemoveFails(b)
  PROVE  DeviceTypeOK'
BY DEF DeviceTypeOK, CompletePairing, RevokeAction, RemoveBackend, RemoveFails, hook

LEMMA EffectTyped ==
  ASSUME DeviceTypeOK, EffectRuns
  PROVE  DeviceTypeOK'
<1> DEFINE made == [of |-> Wanted, is |-> "connecting"]
<1>0. /\ CleanedUp \in Seq(ClientRecord) /\ Len(CleanedUp) = Len(client)
      /\ Wanted \in Backends \cup {NoBackend} /\ Len(client) \in Nat
  BY CleanedUpFacts, WantedTyped, LenProperties DEF DeviceTypeOK
<1>1. CASE Wanted = NoBackend
  BY <1>0, <1>1 DEF DeviceTypeOK, EffectRuns, store, ClientRecord
<1>2. CASE Wanted # NoBackend
  <2>1. made \in ClientRecord
    BY <1>0, <1>2 DEF ClientRecord
  <2> HIDE DEF made
  <2>2. client' = Append(CleanedUp, made)
    BY <1>2 DEF EffectRuns, made
  <2>3. client' \in Seq(ClientRecord) /\ Len(client') = Len(client) + 1
    BY <1>0, <2>1, <2>2, AppendProperties
  <2> QED
    BY <1>0, <1>2, <2>3 DEF DeviceTypeOK, EffectRuns, store, ClientRecord
<1> QED
  BY <1>1, <1>2

LEMMA HandshakeTyped ==
  ASSUME DeviceTypeOK, NEW c \in Clients, Connects(c) \/ ConnectFails(c)
  PROVE  DeviceTypeOK'
<1>1. CASE Connects(c)
  <2>1. Turns(c, "open") \/ Turns(c, "stray")
    BY <1>1 DEF Connects
  <2>2. client' \in Seq(ClientRecord) /\ Len(client') = Len(client)
    BY <2>1, TurnsFacts
  <2> QED
    BY <1>1, <2>2 DEF DeviceTypeOK, Connects, store, ClientRecord, Clients
<1>2. CASE ConnectFails(c)
  <2>1. client' \in Seq(ClientRecord) /\ Len(client') = Len(client)
    BY <1>2, TurnsFacts DEF ConnectFails
  <2> QED
    BY <1>2, <2>1 DEF DeviceTypeOK, ConnectFails, store, ClientRecord, Clients
<1> QED
  BY <1>1, <1>2

LEMMA DeviceStepTyped ==
  ASSUME DeviceTypeOK, [DeviceNext]_device
  PROVE  DeviceTypeOK'
<1>1. CASE UNCHANGED device
  BY <1>1 DEF DeviceTypeOK, device
<1>2. CASE DeviceNext
  BY <1>2, ScreensTyped, EffectTyped, HandshakeTyped DEF DeviceNext
<1> QED
  BY <1>1, <1>2

(* List, selection and clients keep their types, for any backends and any  *)
(* number of clients.                                                      *)
THEOREM DeviceTypeCorrect == DeviceSpec => []DeviceTypeOK
<1> QED
  BY DeviceInitTyped, DeviceStepTyped, PTL DEF DeviceSpec

(* What LinkTells needs: a selected backend is a listed one; the client of *)
(* the last effect is of the backend that effect was for, wherever the     *)
(* selection went since; and while the link is up for a backend, that      *)
(* client is the one shown, and open.                                      *)
Selected == current \in listed \cup {NoBackend}
Made     == eff # 0 => client[eff].of = deps
UpFor    == link = "connected" /\ deps # NoBackend =>
              eff # 0 /\ shown = eff /\ client[eff] = [of |-> deps, is |-> "open"]

Linked == DeviceTypeOK /\ Selected /\ Made /\ UpFor

LEMMA DeviceInitLinked == DeviceInit => Linked
BY DeviceInitTyped DEF DeviceInit, Linked, Selected, Made, UpFor

LEMMA ScreensLinked ==
  ASSUME Linked, NEW b \in Backends,
         CompletePairing(b) \/ RevokeAction(b) \/ RemoveBackend(b) \/ RemoveFails(b)
  PROVE  (Selected /\ Made /\ UpFor)'
<1>1. UNCHANGED <<deps, eff, client, shown, link>>
  BY DEF CompletePairing, RevokeAction, RemoveBackend, RemoveFails, hook
<1>2. Selected'
  BY DEF Linked, Selected, CompletePairing, RevokeAction, RemoveBackend, RemoveFails
<1> QED
  BY <1>1, <1>2 DEF Linked, Made, UpFor

LEMMA EffectLinked ==
  ASSUME Linked, EffectRuns
  PROVE  (Selected /\ Made /\ UpFor)'
<1>1. Selected'
  BY DEF Linked, Selected, EffectRuns, store
<1>2. CASE Wanted = NoBackend
  BY <1>1, <1>2 DEF EffectRuns, Made, UpFor
<1>3. CASE Wanted # NoBackend
  <2> DEFINE made == [of |-> Wanted, is |-> "connecting"]
  <2>0. CleanedUp \in Seq(ClientRecord) /\ Len(CleanedUp) = Len(client)
    BY CleanedUpFacts DEF Linked
  <2>1. made \in ClientRecord /\ made.of = Wanted
    BY <1>3, WantedTyped DEF Linked, ClientRecord
  <2> HIDE DEF made
  <2>2. client' = Append(CleanedUp, made) /\ eff' = Len(client) + 1 /\ deps' = Wanted
        /\ link' = "connecting"
    BY <1>3 DEF EffectRuns, made
  <2>3. client'[eff'] = made
    BY <2>0, <2>1, <2>2, AppendProperties
  <2> QED
    BY <1>1, <2>1, <2>2, <2>3 DEF Made, UpFor
<1> QED
  BY <1>2, <1>3

LEMMA HandshakeLinked ==
  ASSUME Linked, NEW c \in Clients, Connects(c) \/ ConnectFails(c)
  PROVE  (Selected /\ Made /\ UpFor)'
<1>0. UNCHANGED <<listed, current, deps, eff>> /\ DeviceTypeOK /\ eff \in 0..Len(client)
  BY DEF Connects, ConnectFails, store, Linked, DeviceTypeOK
<1>1. Selected'
  BY <1>0 DEF Linked, Selected
<1>2. CASE c = eff
  <2>1. eff # 0 /\ client[eff].of = deps
    BY <1>2, <1>0 DEF Linked, Made, Clients
  <2>2. CASE Connects(c)
    <3>1. client'[eff] = [of |-> deps, is |-> "open"] /\ shown' = eff
      BY <1>2, <2>1, <2>2, <1>0, TurnsFacts DEF Connects
    <3> QED
      BY <1>0, <1>1, <2>1, <3>1 DEF Made, UpFor
  <2>3. CASE ConnectFails(c)
    <3>1. client'[eff].of = deps /\ link' = "error"
      <4>1. Turns(c, "failed") /\ link' = "error"
        BY <1>2, <2>3 DEF ConnectFails
      <4>2. client'[c] = [of |-> client[c].of, is |-> "failed"]
        BY <4>1, <1>0, TurnsFacts
      <4> QED
        BY <1>2, <2>1, <4>1, <4>2
    <3> QED
      BY <1>0, <1>1, <3>1 DEF Made, UpFor
  <2> QED
    BY <2>2, <2>3
<1>3. CASE c # eff
  <2>1. UNCHANGED <<link, shown>>
    BY <1>3 DEF Connects, ConnectFails
  <2>2. eff # 0 => client'[eff] = client[eff]
    <3>1. Turns(c, "stray") \/ Turns(c, "failed")
      BY <1>3 DEF Connects, ConnectFails
    <3>2. \A d \in Clients : d # c => client'[d] = client[d]
      BY <1>0, <3>1, TurnsFacts
    <3> QED
      BY <1>0, <1>3, <3>2 DEF Clients
  <2> QED
    BY <1>0, <1>1, <2>1, <2>2 DEF Linked, Made, UpFor
<1> QED
  BY <1>2, <1>3

LEMMA DeviceStepLinked ==
  ASSUME Linked, [DeviceNext]_device
  PROVE  Linked'
<1>0. DeviceTypeOK'
  BY DeviceStepTyped DEF Linked
<1>1. CASE UNCHANGED device
  BY <1>0, <1>1 DEF Linked, Selected, Made, UpFor, device
<1>2. CASE DeviceNext
  BY <1>0, <1>2, ScreensLinked, EffectLinked, HandshakeLinked DEF DeviceNext, Linked
<1> QED
  BY <1>1, <1>2

(* The store's status can be trusted: when the effect has caught up with   *)
(* the selection, "connected" means the open client of the selected        *)
(* backend, however many handshakes of it and of others end in between.    *)
THEOREM StatusOfSelected == DeviceSpec => []LinkTells
<1>1. DeviceInit => Linked
  BY DeviceInitLinked
<1>2. Linked /\ [DeviceNext]_device => Linked'
  BY DeviceStepLinked
<1>3. Linked => LinkTells
  BY NoneIsNoBackend DEF Linked, Selected, UpFor, Wanted, LinkTells
<1> QED
  BY <1>1, <1>2, <1>3, PTL DEF DeviceSpec
================================================================================
