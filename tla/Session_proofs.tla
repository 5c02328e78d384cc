--------------------------- MODULE Session_proofs ---------------------------
(***************************************************************************)
(* Proofs about Session for any number of calls, links and loops, any      *)
(* max_attempts and any consumer, unless a theorem says otherwise.         *)
(***************************************************************************)
EXTENDS Session, TLAPS

-----------------------------------------------------------------------------
(* The inductive invariant, first part: loops and calls by themselves.     *)

(* A loop that sleeps has an attempt left.                                 *)
GoodLoops ==
    {r \in LoopType : r.tries <= max /\ (r.at = "sleeping" => r.tries < max)}

(* Only a pending call is in flight, and no call is made again.            *)
GoodCalls ==
    {r \in CallType : /\ r.tries <= 2
                      /\ r.at = "no" => r.tries = 0
                      /\ r.at # "open" => r.via = None}

IInv ==
    /\ TypeOK
    /\ run \in [Loops -> GoodLoops]
    /\ call \in [Calls -> GoodCalls]
    /\ api.at = "opening" => api.via \in Links

-----------------------------------------------------------------------------
(* What becomes of one call.                                               *)

LEMMA RejectFacts ==
  ASSUME NEW c \in Calls, call \in [Calls -> GoodCalls]
  PROVE  /\ Reject(c) \in GoodCalls
         /\ Reject(c).via = None /\ Reject(c).at = "error"
  BY DEF Reject, GoodCalls, CallType

LEMMA QueueFacts ==
  ASSUME NEW c \in Calls, call \in [Calls -> GoodCalls]
  PROVE  /\ [call[c] EXCEPT !.via = None] \in GoodCalls
         /\ [call[c] EXCEPT !.via = None].via = None
         /\ [call[c] EXCEPT !.via = None].at = call[c].at
  BY DEF GoodCalls, CallType

LEMMA DispatchFacts ==
  ASSUME TypeOK, NEW c \in Calls, call \in [Calls -> GoodCalls], call[c].tries < 2
  PROVE  /\ Dispatch(c) \in GoodCalls
         /\ Dispatch(c).at = "open" => Dispatch(c).via = client /\ connected /\ client # None
         /\ Dispatch(c).at # "open" => Dispatch(c).via = None
<1>1. CASE failed \/ client = None \/ ~connected
  BY <1>1, RejectFacts DEF Dispatch
<1>2. CASE ~(failed \/ client = None \/ ~connected)
  <2>1. Dispatch(c) = [at |-> "open", tries |-> call[c].tries + 1, via |-> client]
    BY <1>2 DEF Dispatch
  <2>2. call[c].tries \in Nat /\ client \in Links \cup {None}
    BY DEF GoodCalls, CallType, TypeOK
  <2>3. Dispatch(c) \in CallType
    BY <2>1, <2>2 DEF CallType
  <2> QED
    BY <1>2, <2>1, <2>2, <2>3 DEF GoodCalls
<1> QED
  BY <1>1, <1>2

LEMMA RejectPendingFacts ==
  ASSUME call \in [Calls -> GoodCalls]
  PROVE  /\ RejectPending \in [Calls -> GoodCalls]
         /\ \A c \in Calls : RejectPending[c].at # "open" /\ RejectPending[c].via = None
<1>1. \A c \in Calls : RejectPending[c] \in GoodCalls /\ RejectPending[c].at # "open"
  BY RejectFacts DEF RejectPending, Pending
<1>2. \A c \in Calls : RejectPending[c].via = None
  BY <1>1 DEF GoodCalls
<1> QED
  BY <1>1, <1>2 DEF RejectPending

(* Losing link k: what was in flight on it is not any more; the rest is    *)
(* as it was, unless all that is pending is rejected.                      *)
LEMMA CutFacts ==
  ASSUME NEW k \in Links, NEW l \in Loops \cup {None}, call \in [Calls -> GoodCalls]
  PROVE  /\ Cut(k, l) \in [Calls -> GoodCalls]
         /\ \A c \in Calls :
              \/ Cut(k, l)[c].at # "open" /\ Cut(k, l)[c].via = None
              \/ Cut(k, l)[c] = call[c] /\ call[c].via # k
              \/ Cut(k, l)[c].via = None /\ call[c].via = k /\ NowActive(l) # None
<1>1. ASSUME NEW c \in Calls
      PROVE  /\ Cut(k, l)[c] \in GoodCalls
             /\ \/ Cut(k, l)[c].at # "open" /\ Cut(k, l)[c].via = None
                \/ Cut(k, l)[c] = call[c] /\ call[c].via # k
                \/ Cut(k, l)[c].via = None /\ call[c].via = k /\ NowActive(l) # None
  <2>1. CASE GivesUp /\ c \in Pending
    BY <2>1, RejectFacts DEF Cut
  <2>2. CASE ~(GivesUp /\ c \in Pending) /\ call[c].via # k
    BY <2>2 DEF Cut
  <2>3. CASE ~(GivesUp /\ c \in Pending) /\ call[c].via = k /\ NowActive(l) # None
    BY <2>3, QueueFacts DEF Cut
  <2>4. CASE ~(GivesUp /\ c \in Pending) /\ call[c].via = k /\ NowActive(l) = None
    BY <2>4, RejectFacts DEF Cut
  <2> QED
    BY <2>1, <2>2, <2>3, <2>4
<1> QED
  BY <1>1 DEF Cut

LEMMA ReplayFacts ==
  ASSUME TypeOK, NEW c \in Pending, call \in [Calls -> GoodCalls]
  PROVE  (IF Spent(c) THEN Reject(c) ELSE Dispatch(c)) \in GoodCalls
<1>1. c \in Calls /\ call[c].tries \in Nat
  BY DEF Pending, GoodCalls, CallType
<1>2. CASE Spent(c)
  BY <1>1, <1>2, RejectFacts
<1>3. CASE ~Spent(c)
  BY <1>1, <1>3, DispatchFacts DEF Spent
<1> QED
  BY <1>2, <1>3

(* Every step keeps the calls good.                                        *)
LEMMA CallsStayGood ==
  ASSUME IInv, [Next]_vars
  PROVE  call' \in [Calls -> GoodCalls]
<1> USE DEF IInv
<1>1. ASSUME NEW c \in Calls, Send(c)
      PROVE  call' \in [Calls -> GoodCalls]
  <2>1. call[c].tries = 0 /\ call[c] \in GoodCalls
    BY <1>1 DEF Send, GoodCalls
  <2>2. Dispatch(c) \in GoodCalls
    BY <2>1, DispatchFacts
  <2>3. [NoCall EXCEPT !.at = "open"] \in GoodCalls
    BY DEF NoCall, GoodCalls, CallType
  <2> QED
    BY <1>1, <2>2, <2>3 DEF Send
<1>2. ASSUME NEW c \in Calls, Answer(c)
      PROVE  call' \in [Calls -> GoodCalls]
  <2>1. PICK result \in {"ok", "error"} : call' = [call EXCEPT ![c].at = result, ![c].via = None]
    BY <1>2 DEF Answer
  <2>2. [call[c] EXCEPT !.at = result, !.via = None] \in GoodCalls
    BY DEF GoodCalls, CallType
  <2>3. call' = [call EXCEPT ![c] = [call[c] EXCEPT !.at = result, !.via = None]]
    BY <2>1
  <2> QED
    BY <2>2, <2>3
<1>3. ASSUME NEW c \in Calls, RequestFails(c)
      PROVE  call' \in [Calls -> GoodCalls]
  <2>1. Unanswered(c) \in GoodCalls
    BY RejectFacts, QueueFacts DEF Unanswered
  <2> QED
    BY <1>3, <2>1 DEF RequestFails
<1>4. ASSUME NEW k \in Links, Drop(k)
      PROVE  call' \in [Calls -> GoodCalls]
  BY <1>4, CutFacts DEF Drop, Closed
<1>5. ASSUME NEW l \in Loops, NEW early \in BOOLEAN, AttemptFails(l, early)
      PROVE  call' \in [Calls -> GoodCalls]
  BY <1>5, RejectPendingFacts DEF AttemptFails, GiveUp
<1>6. ASSUME NEW l \in Loops, Replay(l)
      PROVE  call' \in [Calls -> GoodCalls]
  <2>1. \A c \in Calls : (IF c \notin Pending THEN call[c]
                          ELSE IF Spent(c) THEN Reject(c) ELSE Dispatch(c)) \in GoodCalls
    BY ReplayFacts
  <2> QED
    BY <1>6, <2>1 DEF Replay
<1>7. ASSUME NEW early \in BOOLEAN, ConnectFails(early)
      PROVE  call' \in [Calls -> GoodCalls]
  <2>1. CASE UNCHANGED call
    BY <2>1
  <2>2. CASE ~early
    <3>1. PICK l \in Loops \cup {None} : Closed(api.via, l)
      BY <1>7, <2>2 DEF ConnectFails
    <3>2. api.via \in Links
      BY <1>7 DEF ConnectFails
    <3> QED
      BY <3>1, <3>2, CutFacts DEF Closed
  <2> QED
    BY <1>7, <2>1, <2>2 DEF ConnectFails
<1>8. ASSUME NEW dispose \in BOOLEAN, Disconnect(dispose)
      PROVE  call' \in [Calls -> GoodCalls]
  BY <1>8, RejectPendingFacts DEF Disconnect
<1>9. CASE CloseDone
  BY <1>9, CutFacts DEF CloseDone, TypeOK
<1>10. CASE UNCHANGED call
  BY <1>10
<1> QED
  BY <1>1, <1>2, <1>3, <1>4, <1>5, <1>6, <1>7, <1>8, <1>9, <1>10
     DEF Next, LoopStep, Attempt, AttemptSucceeds, Finish, Connect, ConnectAgain, ConnectOpens,
         ReadResumes, ConnectEnds, vars

-----------------------------------------------------------------------------
(* What becomes of one loop.                                               *)

LEMMA IdleFacts == TypeOK => Idle \in GoodLoops
<1> SUFFICES ASSUME TypeOK
             PROVE  Idle \in GoodLoops
  OBVIOUS
<1>1. max \in Nat
  BY BoundsAssumption DEF TypeOK
<1>2. Idle \in LoopType
  BY DEF Idle, LoopType
<1> QED
  BY <1>1, <1>2 DEF GoodLoops, Idle

LEMMA StartedFacts ==
  ASSUME TypeOK, run \in [Loops -> GoodLoops], NEW l \in Loops \cup {None}, StartsLoop(l)
  PROVE  /\ Started(l) \in [Loops -> GoodLoops]
         /\ NowActive(l) \in Loops \cup {None}
<1>1. CASE l = None
  BY <1>1 DEF Started, NowActive, TypeOK
<1>2. CASE l # None
  <2>1. l \in Loops /\ run[l] = Idle /\ max > 0
    BY <1>2 DEF StartsLoop
  <2>2. max \in Nat
    BY BoundsAssumption DEF TypeOK
  <2>3. [Idle EXCEPT !.at = "sleeping"] \in LoopType
    BY DEF Idle, LoopType
  <2>4. [Idle EXCEPT !.at = "sleeping"] \in GoodLoops
    BY <2>1, <2>2, <2>3 DEF GoodLoops, Idle
  <2>5. Started(l) = [run EXCEPT ![l] = [run[l] EXCEPT !.at = "sleeping"]]
    BY <1>2 DEF Started
  <2> QED
    BY <1>2, <2>1, <2>4, <2>5 DEF NowActive
<1> QED
  BY <1>1, <1>2

(* Every step keeps the loops good.                                        *)
LEMMA LoopsStayGood ==
  ASSUME IInv, [Next]_vars
  PROVE  run' \in [Loops -> GoodLoops]
<1> USE DEF IInv
<1>1. ASSUME NEW k \in Links, Drop(k)
      PROVE  run' \in [Loops -> GoodLoops]
  BY <1>1, StartedFacts DEF Drop
<1>2. ASSUME NEW early \in BOOLEAN, ConnectFails(early)
      PROVE  run' \in [Loops -> GoodLoops]
  BY <1>2, StartedFacts DEF ConnectFails
<1>3. ASSUME NEW l \in Loops, NEW k \in Links, Attempt(l, k)
      PROVE  run' \in [Loops -> GoodLoops]
  <2> DEFINE t == run[l].tries + 1
             r == [run[l] EXCEPT !.at = "opening", !.via = k, !.tries = t]
  <2>1. run[l].tries \in Nat /\ max \in Nat /\ run[l].tries < max
    BY <1>3, BoundsAssumption DEF Attempt, GoodLoops, LoopType, TypeOK
  <2>2. t \in Nat /\ t <= max
    BY <2>1
  <2>3. run' = [run EXCEPT ![l] = r]
    BY <1>3 DEF Attempt
  <2> HIDE DEF t
  <2>4. run[l] \in LoopType
    BY DEF GoodLoops
  <2>5. r \in LoopType /\ r.tries = t /\ r.at = "opening"
    BY <2>2, <2>4 DEF LoopType
  <2>6. r \in GoodLoops
    BY <2>2, <2>5 DEF GoodLoops
  <2> QED
    BY <2>3, <2>6
<1>4. ASSUME NEW l \in Loops, NEW early \in BOOLEAN, AttemptFails(l, early)
      PROVE  run' \in [Loops -> GoodLoops]
  <2> DEFINE ends == Exhausted(l) \/ run[l].cancelled
             r == [run[l] EXCEPT !.at = "sleeping", !.via = None]
  <2>1. PICK n \in Loops \cup {None} :
          /\ IF early THEN n = None ELSE StartsLoop(n)
          /\ run' = [Started(n) EXCEPT ![l] = IF ends THEN Idle ELSE r]
    BY <1>4 DEF AttemptFails
  <2>2. Started(n) \in [Loops -> GoodLoops]
    BY <2>1, StartedFacts DEF Started
  <2>3. ASSUME ~ends
        PROVE  r \in GoodLoops
    <3>1. run[l].tries \in Nat /\ max \in Nat /\ run[l].tries < max
      BY <2>3, BoundsAssumption DEF Exhausted, GoodLoops, LoopType, TypeOK
    <3>2. r \in LoopType /\ r.tries = run[l].tries
      BY DEF GoodLoops, LoopType
    <3> QED
      BY <3>1, <3>2 DEF GoodLoops
  <2>4. (IF ends THEN Idle ELSE r) \in GoodLoops
    BY <2>3, IdleFacts
  <2> QED
    BY <2>1, <2>2, <2>4
<1>5. ASSUME NEW l \in Loops, AttemptSucceeds(l)
      PROVE  run' \in [Loops -> GoodLoops]
  <2>1. [run[l] EXCEPT !.at = "rebuilt", !.via = None] \in GoodLoops
    BY DEF GoodLoops, LoopType
  <2>2. run' = [run EXCEPT ![l] = [run[l] EXCEPT !.at = "rebuilt", !.via = None]]
        \/ run' = [run EXCEPT ![l] = Idle]
    BY <1>5 DEF AttemptSucceeds
  <2> QED
    BY <2>1, <2>2, IdleFacts
<1>6. ASSUME NEW l \in Loops, Replay(l)
      PROVE  run' \in [Loops -> GoodLoops]
  <2>1. [run[l] EXCEPT !.at = "replayed"] \in GoodLoops
    BY DEF GoodLoops, LoopType
  <2> QED
    BY <1>6, <2>1 DEF Replay
<1>7. ASSUME NEW l \in Loops, Finish(l)
      PROVE  run' \in [Loops -> GoodLoops]
  BY <1>7, IdleFacts DEF Finish
<1>8. ASSUME NEW dispose \in BOOLEAN, Disconnect(dispose)
      PROVE  run' \in [Loops -> GoodLoops]
  <2>1. ASSUME NEW l \in Loops
        PROVE  Stopped(l) \in GoodLoops
    BY IdleFacts DEF Stopped, GoodLoops, LoopType
  <2> QED
    BY <1>8, <2>1 DEF Disconnect
<1>9. CASE UNCHANGED run
  BY <1>9
<1> QED
  BY <1>1, <1>2, <1>3, <1>4, <1>5, <1>6, <1>7, <1>8, <1>9
     DEF Next, LoopStep, Send, Answer, RequestFails, Connect, ConnectAgain, ConnectOpens,
         ReadResumes, ConnectEnds, CloseDone, vars

-----------------------------------------------------------------------------
(* The other variables.                                                    *)

Statuses == {"disconnected", "connecting", "connected", "reconnecting", "error"}

RestOK ==
    /\ max \in Attempts
    /\ api \in ConnectType
    /\ api.at = "opening" => api.via \in Links
    /\ last \in {"none", "connect", "disconnect"}
    /\ status \in Statuses
    /\ disposed \in BOOLEAN /\ bridged \in BOOLEAN /\ connected \in BOOLEAN /\ failed \in BOOLEAN
    /\ connects \in 0..MaxConnects
    /\ link \in [Links -> {"none", "opening", "open"}]
    /\ client \in Links \cup {None} /\ closing \in Links \cup {None}
    /\ active \in Loops \cup {None}

HistoryOK == rash \in BOOLEAN /\ stray \subseteq Links \cup Loops

LEMMA Parts == IInv <=> RestOK /\ HistoryOK /\ run \in [Loops -> GoodLoops] /\ call \in [Calls -> GoodCalls]
<1>1. run \in [Loops -> GoodLoops] => run \in [Loops -> LoopType] /\ \A l \in Loops : run[l].tries <= max
  BY DEF GoodLoops
<1>2. call \in [Calls -> GoodCalls] => call \in [Calls -> CallType]
  BY DEF GoodCalls
<1> QED
  BY <1>1, <1>2 DEF IInv, TypeOK, RestOK, HistoryOK, Statuses

(* Only a stray has a stray heir.                                          *)
LEMMA HeirFacts ==
  ASSUME NEW x, NEW y
  PROVE  /\ stray \subseteq Heir(x, y) /\ Heir(x, y) \subseteq stray \cup ({y} \ {None})
         /\ x \in stray /\ y # None => y \in Heir(x, y)
         /\ stray = {} => Heir(x, y) = {}
  BY DEF Heir

LEMMA HistoryStays ==
  ASSUME IInv, [Next]_vars
  PROVE  HistoryOK'
<1> HistoryOK
  BY Parts
<1>1. ASSUME NEW x, NEW y \in Links \cup Loops \cup {None}
      PROVE  Heir(x, y) \subseteq Links \cup Loops
  BY HeirFacts DEF HistoryOK
<1>2. ASSUME NEW k \in Links, Drop(k)
      PROVE  HistoryOK'
  BY <1>1, <1>2 DEF Drop, HistoryOK
<1>3. ASSUME NEW l \in Loops, NEW k \in Links, Attempt(l, k)
      PROVE  HistoryOK'
  BY <1>1, <1>3 DEF Attempt, HistoryOK
<1>4. ASSUME NEW l \in Loops, NEW early \in BOOLEAN, AttemptFails(l, early)
      PROVE  HistoryOK'
  BY <1>1, <1>4 DEF AttemptFails, HistoryOK
<1>5. ASSUME NEW early \in BOOLEAN, ConnectFails(early)
      PROVE  HistoryOK'
  BY <1>1, <1>5 DEF ConnectFails, HistoryOK
<1>6. ASSUME NEW k \in Links, Connect(k)
      PROVE  HistoryOK'
  BY <1>6 DEF Connect, HistoryOK
<1>7. ASSUME NEW dispose \in BOOLEAN, Disconnect(dispose)
      PROVE  HistoryOK'
  BY <1>7 DEF Disconnect, Unreached, Running, HistoryOK
<1>8. CASE UNCHANGED history
  BY <1>8 DEF history, HistoryOK
<1> QED
  BY <1>2, <1>3, <1>4, <1>5, <1>6, <1>7, <1>8
     DEF Next, LoopStep, Send, Answer, RequestFails, AttemptSucceeds, Replay, Finish, ConnectAgain,
         ConnectOpens, ReadResumes, ConnectEnds, CloseDone, vars

LEMMA StatusFacts ==
  ASSUME status \in Statuses, NEW s \in Statuses
  PROVE  /\ Bridged(s) \in Statuses /\ Marked(s) \in Statuses
         /\ \A l : Noticed(l) \in Statuses
  BY DEF Bridged, Marked, Noticed, Statuses

LEMMA NoConnectFacts == NoConnect \in ConnectType /\ NoConnect.at # "opening"
  BY DEF NoConnect, ConnectType

LEMMA ClosedFacts ==
  ASSUME RestOK, NEW k \in Links, NEW l \in Loops \cup {None}, Closed(k, l)
  PROVE  /\ link' \in [Links -> {"none", "opening", "open"}]
         /\ connected' \in BOOLEAN /\ failed' \in BOOLEAN
  BY DEF RestOK, Closed

LEMMA RestStays ==
  ASSUME IInv, [Next]_vars
  PROVE  RestOK'
<1> RestOK /\ IInv
  BY Parts
<1>1. ASSUME NEW c \in Calls, Send(c) \/ Answer(c) \/ RequestFails(c)
      PROVE  RestOK'
  BY <1>1 DEF Send, Answer, RequestFails, RestOK, apiVars, busVars
<1>2. ASSUME NEW k \in Links, Drop(k)
      PROVE  RestOK'
  <2>1. PICK l \in Loops \cup {None} :
          /\ StartsLoop(l) /\ Closed(k, l) /\ active' = NowActive(l)
          /\ status' = IF api.via = k THEN Marked("connected") ELSE Noticed(l)
    BY <1>2 DEF Drop
  <2>2. status' \in Statuses
    BY <2>1, StatusFacts DEF RestOK, Statuses
  <2>3. active' \in Loops \cup {None}
    BY <2>1 DEF NowActive, RestOK
  <2>4. api' \in ConnectType /\ (api'.at = "opening" => api'.via \in Links)
    BY <1>2, NoConnectFacts DEF Drop, RestOK
  <2>5. UNCHANGED <<max, last, disposed, connects, bridged, client, closing>>
    BY <1>2 DEF Drop
  <2> QED
    BY <2>1, <2>2, <2>3, <2>4, <2>5, ClosedFacts DEF RestOK
<1>3. ASSUME NEW k \in Links, Connect(k)
      PROVE  RestOK'
  <2>1. [at |-> "opening", via |-> k] \in ConnectType
    BY DEF ConnectType
  <2>2. connects + 1 \in 0..MaxConnects
    BY <1>3, BoundsAssumption DEF Connect, MayConnect, RestOK
  <2>3. link' \in [Links -> {"none", "opening", "open"}]
    BY <1>3 DEF Connect, RestOK
  <2> QED
    BY <1>3, <2>1, <2>2, <2>3 DEF Connect, RestOK, Statuses
<1>4. CASE ConnectAgain
  <2>1. connects + 1 \in 0..MaxConnects
    BY <1>4, BoundsAssumption DEF ConnectAgain, MayConnect, RestOK
  <2> QED
    BY <1>4, <2>1 DEF ConnectAgain, RestOK, Statuses
<1>5. ASSUME NEW l \in Loops, NEW k \in Links, Attempt(l, k)
      PROVE  RestOK'
  BY <1>5 DEF Attempt, RestOK, apiVars, busVars
<1>6. ASSUME NEW l \in Loops, NEW early \in BOOLEAN, AttemptFails(l, early)
      PROVE  RestOK'
  <2>1. PICK n \in Loops \cup {None} :
          /\ \/ active' = None
             \/ active' = NowActive(n)
          /\ \/ GiveUp
             \/ status' = Noticed(n) /\ UNCHANGED failed
    BY <1>6 DEF AttemptFails
  <2>2. status' \in Statuses /\ failed' \in BOOLEAN
    BY <2>1, StatusFacts DEF RestOK, GiveUp, Statuses
  <2>3. active' \in Loops \cup {None}
    BY <2>1 DEF NowActive, RestOK
  <2>4. link' \in [Links -> {"none", "opening", "open"}] /\ connected' \in BOOLEAN
    BY <1>6 DEF AttemptFails, RestOK
  <2>5. UNCHANGED <<apiVars, bridged, client, closing>>
    BY <1>6 DEF AttemptFails
  <2> QED
    BY <2>2, <2>3, <2>4, <2>5 DEF RestOK, apiVars
<1>8. ASSUME NEW l \in Loops, Replay(l) \/ Finish(l)
      PROVE  RestOK'
  BY <1>8 DEF Replay, Finish, RestOK, apiVars, busVars
<1>9. ASSUME NEW early \in BOOLEAN, ConnectFails(early)
      PROVE  RestOK'
  <2>1. api.via \in Links
    BY <1>9 DEF ConnectFails, RestOK
  <2>2. /\ link' \in [Links -> {"none", "opening", "open"}]
        /\ connected' \in BOOLEAN /\ failed' \in BOOLEAN
        /\ active' \in Loops \cup {None}
    <3>1. CASE early
      BY <1>9, <3>1 DEF ConnectFails, RestOK
    <3>2. CASE ~early
      <4>1. PICK l \in Loops \cup {None} : Closed(api.via, l) /\ active' = NowActive(l)
        BY <1>9, <3>2 DEF ConnectFails
      <4> QED
        BY <2>1, <4>1, ClosedFacts DEF NowActive, RestOK
    <3> QED
      BY <3>1, <3>2
  <2>3. status' \in Statuses
    BY <1>9, StatusFacts DEF ConnectFails, RestOK, Statuses
  <2>4. api' = NoConnect /\ UNCHANGED <<max, last, disposed, connects, bridged, client, closing>>
    BY <1>9 DEF ConnectFails
  <2> QED
    BY <2>2, <2>3, <2>4, NoConnectFacts DEF RestOK
<1>11. ASSUME NEW dispose \in BOOLEAN, Disconnect(dispose)
      PROVE  RestOK'
  BY <1>11 DEF Disconnect, RestOK, Statuses
<1>12. CASE CloseDone
  <2>1. status' \in Statuses
    BY <1>12, StatusFacts DEF CloseDone, RestOK, Statuses
  <2>2. api' \in ConnectType /\ (api'.at = "opening" => api'.via \in Links)
    BY <1>12, NoConnectFacts DEF CloseDone, RestOK
  <2>3. link' \in [Links -> {"none", "opening", "open"}]
    BY <1>12 DEF CloseDone, RestOK
  <2> QED
    BY <1>12, <2>1, <2>2, <2>3 DEF CloseDone, RestOK
<1>13. CASE UNCHANGED vars
  BY <1>13 DEF vars, apiVars, busVars, RestOK
<1>7. ASSUME NEW l \in Loops, AttemptSucceeds(l)
      PROVE  RestOK'
  <2>1. client' \in Links \cup {None}
    BY <1>7 DEF AttemptSucceeds, IInv, GoodLoops, LoopType
  <2>2. active' \in Loops \cup {None} /\ connected' \in BOOLEAN
    BY <1>7 DEF AttemptSucceeds, RestOK
  <2>3. status' \in Statuses
    BY <1>7, StatusFacts DEF AttemptSucceeds, RestOK, Statuses
  <2>4. link' \in [Links -> {"none", "opening", "open"}]
    BY <1>7 DEF AttemptSucceeds, RestOK
  <2>5. UNCHANGED <<apiVars, bridged, closing, failed>>
    BY <1>7 DEF AttemptSucceeds
  <2> QED
    BY <2>1, <2>2, <2>3, <2>4, <2>5 DEF RestOK, apiVars
<1>14. CASE ConnectOpens
  <2>1. api.via \in Links
    BY <1>14 DEF ConnectOpens, RestOK
  <2>2. [at |-> "reading", via |-> IF active # None THEN active ELSE api.via] \in ConnectType
    BY <2>1 DEF ConnectType, RestOK
  <2>3. api' \in ConnectType /\ api'.at # "opening"
    BY <1>14, <2>2, NoConnectFacts DEF ConnectOpens
  <2>4. status' \in Statuses
    BY <1>14, StatusFacts DEF ConnectOpens, RestOK, Statuses
  <2>5. link' \in [Links -> {"none", "opening", "open"}] /\ client' \in Links \cup {None}
    BY <1>14, <2>1 DEF ConnectOpens, RestOK
  <2> QED
    BY <1>14, <2>3, <2>4, <2>5 DEF ConnectOpens, RestOK
<1>15. CASE ReadResumes
  <2>1. api' \in ConnectType /\ api'.at # "opening"
    BY <1>15 DEF ReadResumes, RestOK, ConnectType
  <2> QED
    BY <1>15, <2>1 DEF ReadResumes, RestOK, busVars
<1>16. CASE ConnectEnds
  <2>1. status' \in Statuses
    BY <1>16, StatusFacts DEF ConnectEnds, RestOK, Statuses
  <2> QED
    BY <1>16, <2>1, NoConnectFacts DEF ConnectEnds, RestOK
<1> QED
  BY <1>1, <1>2, <1>3, <1>4, <1>5, <1>6, <1>7, <1>8, <1>9, <1>11, <1>12, <1>13,
     <1>14, <1>15, <1>16
     DEF Next, LoopStep

LEMMA InitIInv == Init => IInv
<1> SUFFICES ASSUME Init
             PROVE  IInv
  OBVIOUS
<1>1. RestOK
  <2>1. connects \in 0..MaxConnects
    BY BoundsAssumption DEF Init
  <2>2. link \in [Links -> {"none", "opening", "open"}]
    BY DEF Init
  <2>3. api \in ConnectType /\ api.at # "opening"
    BY NoConnectFacts DEF Init
  <2> QED
    BY <2>1, <2>2, <2>3 DEF Init, RestOK, Statuses
<1>2. max \in Nat
  BY BoundsAssumption DEF Init
<1>3. Idle \in LoopType
  BY DEF Idle, LoopType
<1>4. Idle \in GoodLoops
  BY <1>2, <1>3 DEF GoodLoops, Idle
<1>5. NoCall \in GoodCalls
  BY DEF NoCall, GoodCalls, CallType
<1>6. HistoryOK
  BY DEF Init, HistoryOK
<1> QED
  BY <1>1, <1>4, <1>5, <1>6, Parts DEF Init

LEMMA StepIInv == IInv /\ [Next]_vars => IInv'
<1> SUFFICES ASSUME IInv, [Next]_vars
             PROVE  IInv'
  OBVIOUS
<1>1. max' = max
  BY DEF Next, LoopStep, Send, Answer, RequestFails, Drop, Connect, Attempt, AttemptFails,
         AttemptSucceeds, Replay, Finish, ConnectFails, ConnectAgain, ConnectOpens, ReadResumes,
         ConnectEnds, Disconnect, CloseDone, vars, apiVars
<1>2. GoodLoops' = GoodLoops /\ GoodCalls' = GoodCalls
  BY <1>1 DEF GoodLoops, GoodCalls
<1>3. (RestOK /\ HistoryOK /\ run \in [Loops -> GoodLoops] /\ call \in [Calls -> GoodCalls])' <=> IInv'
  BY Parts, PTL
<1> QED
  BY <1>2, <1>3, RestStays, HistoryStays, LoopsStayGood, CallsStayGood

LEMMA Invariant == Spec => []IInv
  BY InitIInv, StepIInv, PTL DEF Spec

(* Every variable keeps its type, and no loop makes more attempts than it  *)
(* is configured for.                                                      *)
THEOREM TypeCorrect == Spec => []TypeOK
<1>1. IInv => TypeOK
  BY DEF IInv
<1> QED
  BY <1>1, Invariant, PTL

(* No call reaches the wire a third time.                                  *)
THEOREM NoThirdAttempt == Spec => []TwiceAtMost
<1>1. IInv => TwiceAtMost
  BY DEF IInv, GoodCalls, TwiceAtMost
<1> QED
  BY <1>1, Invariant, PTL

-----------------------------------------------------------------------------
(* The inductive invariant, second part: links.  A handshake has its link  *)
(* to itself, and what counts as open is.                                  *)

OwnLink ==
    /\ \A l \in Loops : IF run[l].at = "opening"
                        THEN run[l].via \in Links /\ link[run[l].via] = "opening"
                        ELSE run[l].via = None
    /\ \A l, m \in Loops : run[l].at = "opening" /\ run[m].at = "opening" /\ l # m
                              => run[l].via # run[m].via
    /\ api.at = "opening" => /\ link[api.via] = "opening"
                             /\ \A l \in Loops : run[l].via # api.via

ClientOpen == connected /\ client # None => link[client] = "open"

ClosingOpen == closing # None => link[closing] # "opening"

CallsOnOpen == \A c \in Calls : call[c].via # None => link[call[c].via] = "open"

LInv == IInv /\ OwnLink /\ ClientOpen /\ ClosingOpen /\ CallsOnOpen

(* A step that begins no handshake keeps OwnLink if it leaves the links of *)
(* those that go on.                                                       *)
LEMMA OwnLinkKept ==
  ASSUME IInv, OwnLink,
         \A l \in Loops : run'[l].at = "opening" =>
             run[l].at = "opening" /\ run'[l].via = run[l].via /\ link'[run[l].via] = "opening",
         \A l \in Loops : run'[l].at # "opening" => run'[l].via = None,
         api'.at = "opening" => api.at = "opening" /\ api'.via = api.via /\ link'[api.via] = "opening"
  PROVE  OwnLink'
<1>1. \A l \in Loops : IF run'[l].at = "opening"
                       THEN run'[l].via \in Links /\ link'[run'[l].via] = "opening"
                       ELSE run'[l].via = None
  BY DEF OwnLink
<1>2. \A l, m \in Loops : run'[l].at = "opening" /\ run'[m].at = "opening" /\ l # m
                             => run'[l].via # run'[m].via
  BY DEF OwnLink
<1>3. ASSUME api'.at = "opening"
      PROVE  link'[api'.via] = "opening" /\ \A l \in Loops : run'[l].via # api'.via
  <2>1. api.via \in Links /\ None \notin Links
    BY <1>3, NoneAssumption DEF IInv
  <2>2. ASSUME NEW l \in Loops
        PROVE  run'[l].via # api'.via
    <3>1. CASE run'[l].at = "opening"
      BY <1>3, <3>1 DEF OwnLink
    <3>2. CASE run'[l].at # "opening"
      BY <1>3, <2>1, <3>2
    <3> QED
      BY <3>1, <3>2
  <2> QED
    BY <1>3, <2>2
<1> QED
  BY <1>1, <1>2, <1>3 DEF OwnLink

(* A loop that will end with a replay, if its attempts do not all fail.    *)
Working(r) == r.at \in {"sleeping", "opening", "rebuilt"} /\ ~r.cancelled

LEMMA StartedLinks ==
  ASSUME IInv, NEW l \in Loops \cup {None}, StartsLoop(l)
  PROVE  /\ \A m \in Loops : /\ Started(l)[m].via = run[m].via
                             /\ Started(l)[m].cancelled = run[m].cancelled
                             /\ Started(l)[m].at = "opening" <=> run[m].at = "opening"
                             /\ m # l => Started(l)[m] = run[m]
                             /\ Working(run[m]) => Working(Started(l)[m])
         /\ l # None => Working(Started(l)[l])
<1>1. CASE l = None
  BY <1>1 DEF Started
<1>2. CASE l # None
  <2>1. l \in Loops /\ run[l] = Idle
    BY <1>2 DEF StartsLoop
  <2>2. Started(l) = [run EXCEPT ![l] = [Idle EXCEPT !.at = "sleeping"]]
    BY <1>2, <2>1 DEF Started
  <2>3. run \in [Loops -> GoodLoops]
    BY DEF IInv
  <2>4. \A m \in Loops : m # l => Started(l)[m] = run[m]
    BY <2>2, <2>3
  <2>5. Started(l)[l] = [Idle EXCEPT !.at = "sleeping"]
    BY <2>1, <2>2, <2>3
  <2>6. /\ Started(l)[l].via = run[l].via /\ Started(l)[l].cancelled = run[l].cancelled
        /\ Started(l)[l].at = "sleeping" /\ run[l].at = "idle" /\ ~run[l].cancelled
    BY <2>1, <2>5 DEF Idle
  <2> QED
    BY <2>1, <2>4, <2>6 DEF Working
<1> QED
  BY <1>1, <1>2

LEMMA LoopRecords ==
  ASSUME IInv, NEW l \in Loops
  PROVE  /\ Idle.at = "idle" /\ Idle.via = None /\ ~Idle.cancelled
         /\ [run[l] EXCEPT !.at = "sleeping", !.via = None].at = "sleeping"
         /\ [run[l] EXCEPT !.at = "sleeping", !.via = None].via = None
         /\ [run[l] EXCEPT !.at = "sleeping", !.via = None].cancelled = run[l].cancelled
         /\ [run[l] EXCEPT !.at = "rebuilt", !.via = None].at = "rebuilt"
         /\ [run[l] EXCEPT !.at = "rebuilt", !.via = None].via = None
         /\ [run[l] EXCEPT !.at = "rebuilt", !.via = None].cancelled = run[l].cancelled
<1>1. run[l] \in LoopType
  BY DEF IInv, GoodLoops
<1> QED
  BY <1>1 DEF Idle, LoopType

LEMMA OwnLinkStays ==
  ASSUME LInv, [Next]_vars
  PROVE  OwnLink'
<1> USE DEF LInv
<1> run \in [Loops -> GoodLoops] /\ link \in [Links -> {"none", "opening", "open"}]
  BY DEF IInv, TypeOK
<1>1. ASSUME NEW k \in Links, Drop(k)
      PROVE  OwnLink'
  <2>1. PICK l \in Loops \cup {None} : StartsLoop(l) /\ run' = Started(l) /\ Closed(k, l)
    BY <1>1 DEF Drop
  <2>2. \A j \in Links : link[j] = "opening" => link'[j] = "opening"
    BY <1>1, <2>1 DEF Drop, Closed
  <2>3. \A m \in Loops : /\ run'[m].via = run[m].via
                         /\ run'[m].at = "opening" <=> run[m].at = "opening"
    BY <2>1, StartedLinks
  <2>4. api'.at = "opening" => api' = api /\ api.via \in Links
    BY <1>1 DEF Drop, NoConnect, IInv
  <2> QED
    BY <2>2, <2>3, <2>4, OwnLinkKept DEF OwnLink
<1>2. ASSUME NEW early \in BOOLEAN, ConnectFails(early)
      PROVE  OwnLink'
  <2>1. PICK l \in Loops \cup {None} : run' = run \/ (StartsLoop(l) /\ run' = Started(l))
    <3>1. CASE early
      BY <1>2, <3>1 DEF ConnectFails
    <3>2. CASE ~early
      BY <1>2, <3>2 DEF ConnectFails
    <3> QED
      BY <3>1, <3>2
  <2>2. \A m \in Loops : /\ run'[m].via = run[m].via
                         /\ run'[m].at = "opening" <=> run[m].at = "opening"
    BY <2>1, StartedLinks
  <2>3. api.at = "opening" /\ api.via \in Links /\ link' = [link EXCEPT ![api.via] = "none"]
    BY <1>2 DEF ConnectFails, Closed, IInv
  <2>4. \A m \in Loops : run[m].at = "opening" => link'[run[m].via] = link[run[m].via]
    BY <2>3 DEF OwnLink
  <2>5. api'.at # "opening"
    BY <1>2, NoConnectFacts DEF ConnectFails
  <2> QED
    BY <2>2, <2>4, <2>5, OwnLinkKept DEF OwnLink
<1>3. ASSUME NEW l \in Loops, NEW k \in Links, Attempt(l, k)
      PROVE  OwnLink'
  <2>1. /\ link' = [link EXCEPT ![k] = "opening"] /\ api' = api /\ link[k] = "none"
        /\ \A m \in Loops : run[m].via # k
        /\ api.via # k
    BY <1>3 DEF Attempt, FreeLink, apiVars
  <2>2. run'[l].at = "opening" /\ run'[l].via = k /\ \A m \in Loops \ {l} : run'[m] = run[m]
    BY <1>3 DEF Attempt, GoodLoops, LoopType
  <2>3. \A m \in Loops \ {l} : run'[m].at = "opening" => link'[run'[m].via] = "opening" /\ run'[m].via \in Links
    BY <2>1, <2>2 DEF OwnLink
  <2>4. \A m \in Loops : IF run'[m].at = "opening"
                         THEN run'[m].via \in Links /\ link'[run'[m].via] = "opening"
                         ELSE run'[m].via = None
    BY <2>1, <2>2, <2>3 DEF OwnLink
  <2>5. \A m, n \in Loops : run'[m].at = "opening" /\ run'[n].at = "opening" /\ m # n
                               => run'[m].via # run'[n].via
    BY <2>1, <2>2 DEF OwnLink
  <2>6. api'.at = "opening" => link'[api'.via] = "opening" /\ \A m \in Loops : run'[m].via # api'.via
    BY <2>1, <2>2 DEF OwnLink, IInv
  <2> QED
    BY <2>4, <2>5, <2>6 DEF OwnLink
<1>4. ASSUME NEW l \in Loops, NEW early \in BOOLEAN, AttemptFails(l, early)
      PROVE  OwnLink'
  <2>1. PICK n \in Loops \cup {None} :
          /\ IF early THEN n = None ELSE StartsLoop(n)
          /\ \/ run' = [Started(n) EXCEPT ![l] = Idle]
             \/ run' = [Started(n) EXCEPT ![l] = [run[l] EXCEPT !.at = "sleeping", !.via = None]]
    BY <1>4 DEF AttemptFails
  <2>2. Started(n) \in [Loops -> GoodLoops]
    BY <2>1, StartedFacts DEF IInv, Started
  <2>3. \A m \in Loops : /\ Started(n)[m].via = run[m].via
                         /\ Started(n)[m].at = "opening" <=> run[m].at = "opening"
    BY <2>1, StartedLinks DEF Started
  <2>4. run'[l].at # "opening" /\ run'[l].via = None
    BY <2>1, <2>2, LoopRecords
  <2>5. \A m \in Loops \ {l} : run'[m] = Started(n)[m]
    BY <2>1, <2>2
  <2>6. /\ run[l].at = "opening" /\ run[l].via \in Links /\ api' = api
        /\ link' = [link EXCEPT ![run[l].via] = "none"]
    BY <1>4 DEF AttemptFails, OwnLink, apiVars
  <2>7. \A m \in Loops \ {l} : run[m].at = "opening" => link'[run[m].via] = "opening"
    BY <2>6 DEF OwnLink
  <2>8. api.at = "opening" => link'[api.via] = "opening"
    BY <2>6 DEF OwnLink, IInv
  <2> QED
    BY <2>3, <2>4, <2>5, <2>6, <2>7, <2>8, OwnLinkKept DEF OwnLink
<1>5. ASSUME NEW l \in Loops, AttemptSucceeds(l)
      PROVE  OwnLink'
  <2>1. /\ run[l].at = "opening" /\ run[l].via \in Links /\ api' = api
        /\ link' = [link EXCEPT ![run[l].via] = "open"]
    BY <1>5 DEF AttemptSucceeds, OwnLink, apiVars
  <2>2. \/ run' = [run EXCEPT ![l] = Idle]
        \/ run' = [run EXCEPT ![l] = [run[l] EXCEPT !.at = "rebuilt", !.via = None]]
    BY <1>5 DEF AttemptSucceeds
  <2>3. run'[l].at # "opening" /\ run'[l].via = None
    BY <2>2, LoopRecords
  <2>4. \A m \in Loops \ {l} : run'[m] = run[m]
    BY <2>2
  <2>5. \A m \in Loops \ {l} : run[m].at = "opening" => link'[run[m].via] = "opening"
    BY <2>1 DEF OwnLink
  <2>6. api.at = "opening" => link'[api.via] = "opening"
    BY <2>1 DEF OwnLink, IInv
  <2> QED
    BY <2>1, <2>3, <2>4, <2>5, <2>6, OwnLinkKept DEF OwnLink
<1>6. ASSUME NEW l \in Loops, Replay(l) \/ Finish(l)
      PROVE  OwnLink'
  <2>1. UNCHANGED <<link, api>>
    BY <1>6 DEF Replay, Finish, apiVars
  <2>2. run[l].via = None /\ run[l].at # "opening"
    BY <1>6 DEF Replay, Finish, OwnLink
  <2>3. \/ run' = [run EXCEPT ![l] = Idle]
        \/ run' = [run EXCEPT ![l] = [run[l] EXCEPT !.at = "replayed"]]
    BY <1>6 DEF Replay, Finish
  <2>4. run'[l].at # "opening" /\ run'[l].via = None
    BY <2>2, <2>3 DEF Idle, GoodLoops, LoopType
  <2>5. \A m \in Loops \ {l} : run'[m] = run[m]
    BY <2>3
  <2> QED
    BY <2>1, <2>4, <2>5, OwnLinkKept DEF OwnLink
<1>7. ASSUME NEW k \in Links, Connect(k)
      PROVE  OwnLink'
  <2>1. /\ link' = [link EXCEPT ![k] = "opening"] /\ run' = run /\ link[k] = "none"
        /\ \A m \in Loops : run[m].via # k
        /\ api' = [at |-> "opening", via |-> k]
    BY <1>7 DEF Connect, FreeLink
  <2> QED
    BY <2>1 DEF OwnLink
<1>8. CASE ConnectOpens
  <2>1. api.at = "opening" /\ api.via \in Links /\ run' = run /\ link' = [link EXCEPT ![api.via] = "open"]
    BY <1>8 DEF ConnectOpens, IInv
  <2>2. \A m \in Loops : run[m].at = "opening" => link'[run[m].via] = link[run[m].via]
    BY <2>1 DEF OwnLink
  <2>3. api'.at # "opening"
    BY <1>8, NoConnectFacts DEF ConnectOpens
  <2> QED
    BY <2>1, <2>2, <2>3, OwnLinkKept DEF OwnLink
<1>9. ASSUME NEW dispose \in BOOLEAN, Disconnect(dispose)
      PROVE  OwnLink'
  <2>1. UNCHANGED <<link, api>>
    BY <1>9 DEF Disconnect
  <2>2. \A m \in Loops : run'[m] = run[m] \/ run'[m] = Stopped(m)
    BY <1>9 DEF Disconnect
  <2>3. \A m \in Loops : /\ run[m].at = "opening" => Stopped(m).at = "opening" /\ Stopped(m).via = run[m].via
                         /\ run[m].at # "opening" => Stopped(m).at # "opening" /\ Stopped(m).via = None
    BY DEF Stopped, Idle, GoodLoops, LoopType, OwnLink
  <2> QED
    BY <2>1, <2>2, <2>3, OwnLinkKept DEF OwnLink
<1>10. CASE CloseDone
  <2>1. run' = run /\ link' = [link EXCEPT ![closing] = "none"] /\ link[closing] # "opening"
    BY <1>10 DEF CloseDone, ClosingOpen
  <2>2. \A j \in Links : link[j] = "opening" => link'[j] = "opening"
    BY <2>1
  <2>3. api'.at = "opening" => api' = api /\ api.via \in Links
    BY <1>10, NoConnectFacts DEF CloseDone, IInv
  <2> QED
    BY <2>1, <2>2, <2>3, OwnLinkKept DEF OwnLink
<1>11. CASE ReadResumes \/ ConnectEnds
  <2>1. UNCHANGED <<run, link>> /\ api'.at # "opening"
    BY <1>11, NoConnectFacts DEF ReadResumes, ConnectEnds, IInv, TypeOK, ConnectType
  <2> QED
    BY <2>1, OwnLinkKept DEF OwnLink
<1>12. CASE UNCHANGED <<run, link, api>>
  BY <1>12 DEF OwnLink
<1> QED
  BY <1>1, <1>2, <1>3, <1>4, <1>5, <1>6, <1>7, <1>8, <1>9, <1>10, <1>11, <1>12
     DEF Next, LoopStep, Send, Answer, RequestFails, ConnectAgain, vars, apiVars

(* The current client and the link being closed.                           *)
LEMMA ClientStays ==
  ASSUME LInv, [Next]_vars
  PROVE  ClientOpen' /\ ClosingOpen'
<1> USE DEF LInv
<1> link \in [Links -> {"none", "opening", "open"}] /\ None \notin Links
  BY NoneAssumption DEF IInv, TypeOK
<1> client \in Links \cup {None} /\ closing \in Links \cup {None}
  BY DEF IInv, TypeOK
<1>1. ASSUME NEW k \in Links, Drop(k)
      PROVE  ClientOpen' /\ ClosingOpen'
  <2>1. connected' = FALSE /\ link' = [link EXCEPT ![k] = "none"] /\ closing' = closing
    BY <1>1 DEF Drop, Closed
  <2> QED
    BY <2>1 DEF ClientOpen, ClosingOpen
<1>2. ASSUME NEW early \in BOOLEAN, ConnectFails(early)
      PROVE  ClientOpen' /\ ClosingOpen'
  <2>1. /\ connected' = FALSE \/ connected' = connected
        /\ link' = [link EXCEPT ![api.via] = "none"]
        /\ UNCHANGED <<client, closing>>
    BY <1>2 DEF ConnectFails, Closed
  <2>2. link[api.via] = "opening" /\ api.via \in Links
    BY <1>2 DEF ConnectFails, OwnLink, IInv
  <2> QED
    BY <2>1, <2>2 DEF ClientOpen, ClosingOpen
<1>3. ASSUME NEW l \in Loops, NEW k \in Links, Attempt(l, k)
      PROVE  ClientOpen' /\ ClosingOpen'
  <2>1. /\ link' = [link EXCEPT ![k] = "opening"] /\ link[k] = "none" /\ k # closing
        /\ UNCHANGED <<client, connected, closing>>
    BY <1>3 DEF Attempt, FreeLink
  <2> QED
    BY <2>1 DEF ClientOpen, ClosingOpen
<1>4. ASSUME NEW l \in Loops, NEW early \in BOOLEAN, AttemptFails(l, early)
      PROVE  ClientOpen' /\ ClosingOpen'
  <2>1. /\ connected' => connected
        /\ link' = [link EXCEPT ![run[l].via] = "none"]
        /\ UNCHANGED <<client, closing>>
    BY <1>4 DEF AttemptFails
  <2>2. link[run[l].via] = "opening" /\ run[l].via \in Links
    BY <1>4 DEF AttemptFails, OwnLink
  <2> QED
    BY <2>1, <2>2 DEF ClientOpen, ClosingOpen
<1>5. ASSUME NEW l \in Loops, AttemptSucceeds(l)
      PROVE  ClientOpen' /\ ClosingOpen'
  <2>1. /\ link' = [link EXCEPT ![run[l].via] = "open"] /\ client' = run[l].via
        /\ closing' = closing /\ run[l].via \in Links
    BY <1>5 DEF AttemptSucceeds, OwnLink
  <2> QED
    BY <2>1 DEF ClientOpen, ClosingOpen
<1>6. ASSUME NEW k \in Links, Connect(k)
      PROVE  ClientOpen' /\ ClosingOpen'
  BY <1>6 DEF Connect, MayConnect, ClientOpen, ClosingOpen
<1>7. CASE ConnectOpens
  <2>1. /\ link' = [link EXCEPT ![api.via] = "open"] /\ client' = api.via
        /\ closing' = closing /\ api.via \in Links
    BY <1>7 DEF ConnectOpens, IInv
  <2> QED
    BY <2>1 DEF ClientOpen, ClosingOpen
<1>8. ASSUME NEW dispose \in BOOLEAN, Disconnect(dispose)
      PROVE  ClientOpen' /\ ClosingOpen'
  <2>1. connected' = FALSE /\ link' = link
    BY <1>8 DEF Disconnect
  <2>2. closing' = closing \/ (closing' = client /\ connected /\ client # None)
    BY <1>8 DEF Disconnect
  <2> QED
    BY <2>1, <2>2 DEF ClientOpen, ClosingOpen
<1>9. CASE CloseDone
  BY <1>9 DEF CloseDone, ClientOpen, ClosingOpen
<1>10. CASE UNCHANGED <<link, client, connected, closing>>
  BY <1>10 DEF ClientOpen, ClosingOpen
<1> QED
  BY <1>1, <1>2, <1>3, <1>4, <1>5, <1>6, <1>7, <1>8, <1>9, <1>10
     DEF Next, LoopStep, Send, Answer, RequestFails, Replay, Finish, ConnectAgain, ReadResumes,
         ConnectEnds, vars

(* A call whose fate a step leaves alone, or that is cut off, is not in    *)
(* flight on a link that is gone.                                          *)
LEMMA CallsOnOpenStays ==
  ASSUME LInv, [Next]_vars
  PROVE  CallsOnOpen'
<1> USE DEF LInv
<1> /\ link \in [Links -> {"none", "opening", "open"}]
    /\ call \in [Calls -> GoodCalls]
    /\ TypeOK
  BY DEF IInv, TypeOK
<1>0. \A c \in Calls : call[c].via \in Links \cup {None}
  BY DEF GoodCalls, CallType
<1>1. ASSUME NEW c \in Calls, Send(c)
      PROVE  CallsOnOpen'
  <2>1. call[c].tries = 0
    BY <1>1 DEF Send, GoodCalls
  <2>2. Dispatch(c).via # None => link[Dispatch(c).via] = "open"
    BY <2>1, DispatchFacts DEF ClientOpen, GoodCalls, CallType
  <2>3. [NoCall EXCEPT !.at = "open"].via = None
    BY DEF NoCall
  <2>4. link' = link /\ call' = [call EXCEPT ![c] = IF ~failed /\ active # None
                                                    THEN [NoCall EXCEPT !.at = "open"] ELSE Dispatch(c)]
    BY <1>1 DEF Send
  <2> QED
    BY <2>2, <2>3, <2>4 DEF CallsOnOpen
<1>2. ASSUME NEW c \in Calls, Answer(c) \/ RequestFails(c)
      PROVE  CallsOnOpen'
  <2>1. /\ link' = link
        /\ \A d \in Calls \ {c} : call'[d] = call[d]
    BY <1>2 DEF Answer, RequestFails
  <2>2. call'[c].via = None
    <3>1. CASE Answer(c)
      BY <3>1 DEF Answer, GoodCalls, CallType
    <3>2. CASE RequestFails(c)
      BY <3>2, RejectFacts, QueueFacts DEF RequestFails, Unanswered
    <3> QED
      BY <1>2, <3>1, <3>2
  <2> QED
    BY <2>1, <2>2 DEF CallsOnOpen
<1>3. ASSUME NEW k \in Links, NEW l \in Loops \cup {None},
             link' = [link EXCEPT ![k] = "none"], call' = Cut(k, l)
      PROVE  CallsOnOpen'
  <2>1. \A c \in Calls : call'[c].via = None \/ (call'[c] = call[c] /\ call[c].via # k)
    BY <1>3, CutFacts
  <2> QED
    BY <1>0, <1>3, <2>1 DEF CallsOnOpen
<1>4. ASSUME NEW k \in Links, link' = [link EXCEPT ![k] = "none"], link[k] = "opening", call' = call
      PROVE  CallsOnOpen'
  BY <1>0, <1>4 DEF CallsOnOpen
<1>5. ASSUME NEW k \in Links, Drop(k)
      PROVE  CallsOnOpen'
  BY <1>3, <1>5 DEF Drop, Closed
<1>6. ASSUME NEW early \in BOOLEAN, ConnectFails(early)
      PROVE  CallsOnOpen'
  <2>1. api.via \in Links /\ link[api.via] = "opening"
    BY <1>6 DEF ConnectFails, IInv, OwnLink
  <2>2. CASE early
    <3>1. link' = [link EXCEPT ![api.via] = "none"] /\ call' = call
      BY <1>6, <2>2 DEF ConnectFails
    <3> QED
      BY <1>4, <2>1, <3>1
  <2>3. CASE ~early
    <3>1. PICK l \in Loops \cup {None} : Closed(api.via, l)
      BY <1>6, <2>3 DEF ConnectFails
    <3> QED
      BY <1>3, <2>1, <3>1 DEF Closed
  <2> QED
    BY <2>2, <2>3
<1>7. ASSUME NEW l \in Loops, NEW early \in BOOLEAN, AttemptFails(l, early)
      PROVE  CallsOnOpen'
  <2>1. run[l].via \in Links /\ link[run[l].via] = "opening" /\ link' = [link EXCEPT ![run[l].via] = "none"]
    BY <1>7 DEF AttemptFails, OwnLink
  <2>2. call' = call \/ call' = RejectPending
    BY <1>7 DEF AttemptFails, GiveUp
  <2>3. CASE call' = RejectPending
    BY <2>3, RejectPendingFacts DEF CallsOnOpen
  <2> QED
    BY <1>4, <2>1, <2>2, <2>3
<1>8. ASSUME NEW l \in Loops, Replay(l)
      PROVE  CallsOnOpen'
  <2>1. ASSUME NEW c \in Pending
        PROVE  LET r == IF Spent(c) THEN Reject(c) ELSE Dispatch(c)
               IN  r.via # None => link[r.via] = "open"
    <3>1. c \in Calls /\ call[c].tries \in Nat
      BY DEF Pending, GoodCalls, CallType
    <3>2. CASE Spent(c)
      BY <3>1, <3>2, RejectFacts
    <3>3. CASE ~Spent(c)
      <4>1. Dispatch(c).via # None => Dispatch(c).via = client /\ connected /\ client # None
        BY <3>1, <3>3, DispatchFacts DEF Spent
      <4> QED
        BY <3>3, <4>1 DEF ClientOpen
    <3> QED
      BY <3>2, <3>3
  <2>2. link' = link /\ call' = [c \in Calls |-> IF c \notin Pending THEN call[c]
                                 ELSE IF Spent(c) THEN Reject(c) ELSE Dispatch(c)]
    BY <1>8 DEF Replay
  <2> QED
    BY <2>1, <2>2 DEF CallsOnOpen
<1>9. ASSUME NEW dispose \in BOOLEAN, Disconnect(dispose)
      PROVE  CallsOnOpen'
  BY <1>9, RejectPendingFacts DEF Disconnect, CallsOnOpen
<1>10. CASE CloseDone
  <2>1. closing \in Links /\ link' = [link EXCEPT ![closing] = "none"] /\ call' = Cut(closing, None)
    BY <1>10 DEF CloseDone, TypeOK
  <2> QED
    BY <1>3, <2>1
<1>11. ASSUME NEW k \in Links, \/ link' = [link EXCEPT ![k] = "opening"] /\ link[k] = "none"
                               \/ link' = [link EXCEPT ![k] = "open"],
              call' = call
       PROVE  CallsOnOpen'
  BY <1>0, <1>11 DEF CallsOnOpen
<1>12. ASSUME NEW l \in Loops, NEW k \in Links, Attempt(l, k)
       PROVE  CallsOnOpen'
  BY <1>11, <1>12 DEF Attempt, FreeLink
<1>13. ASSUME NEW l \in Loops, AttemptSucceeds(l)
       PROVE  CallsOnOpen'
  <2>1. run[l].via \in Links /\ link' = [link EXCEPT ![run[l].via] = "open"] /\ call' = call
    BY <1>13 DEF AttemptSucceeds, OwnLink
  <2> QED
    BY <1>11, <2>1
<1>14. ASSUME NEW k \in Links, Connect(k)
       PROVE  CallsOnOpen'
  BY <1>11, <1>14 DEF Connect, FreeLink
<1>15. CASE ConnectOpens
  <2>1. api.via \in Links /\ link' = [link EXCEPT ![api.via] = "open"] /\ call' = call
    BY <1>15 DEF ConnectOpens, IInv
  <2> QED
    BY <1>11, <2>1
<1>16. CASE UNCHANGED <<link, call>>
  BY <1>16 DEF CallsOnOpen
<1> QED
  BY <1>1, <1>2, <1>5, <1>6, <1>7, <1>8, <1>9, <1>10, <1>12, <1>13, <1>14, <1>15, <1>16
     DEF Next, LoopStep, Finish, ConnectAgain, ReadResumes, ConnectEnds, vars

LEMMA InitLInv == Init => LInv
<1> SUFFICES ASSUME Init
             PROVE  LInv
  OBVIOUS
<1>1. IInv
  BY InitIInv
<1>2. \A l \in Loops : run[l].at # "opening" /\ run[l].via = None
  BY DEF Init, Idle
<1>3. api.at # "opening"
  BY DEF Init, NoConnect
<1>4. \A c \in Calls : call[c].via = None
  BY DEF Init, NoCall
<1> QED
  BY <1>1, <1>2, <1>3, <1>4 DEF Init, LInv, OwnLink, ClientOpen, ClosingOpen, CallsOnOpen

LEMMA StepLInv == LInv /\ [Next]_vars => LInv'
  BY StepIInv, OwnLinkStays, ClientStays, CallsOnOpenStays DEF LInv

-----------------------------------------------------------------------------
(* The inductive invariant, third part: who waits for whom.                *)

ActiveWorks == active # None => run[active].at # "idle" /\ ~run[active].cancelled

Awaited == \A c \in Pending : call[c].via = None => \E l \in Loops : Working(run[l])

WInv == LInv /\ ActiveWorks /\ Awaited

(* Outside the microtasks the loop that is active has yet to replay.       *)
LEMMA ActiveIsWorking ==
  ASSUME WInv, ~Micro, active # None
  PROVE  active \in Loops /\ Working(run[active])
<1>1. active \in Loops
  BY DEF WInv, LInv, IInv, TypeOK
<1>2. run[active] \in LoopType
  BY <1>1 DEF WInv, LInv, IInv, GoodLoops
<1> QED
  BY <1>1, <1>2 DEF WInv, ActiveWorks, Micro, Working, LoopType

LEMMA ActiveStays ==
  ASSUME WInv, [Next]_vars
  PROVE  ActiveWorks'
<1> USE DEF WInv, LInv
<1> run \in [Loops -> GoodLoops] /\ active \in Loops \cup {None} /\ None \notin Loops
  BY NoneAssumption DEF IInv, TypeOK
<1>1. ASSUME NEW l \in Loops \cup {None}, StartsLoop(l), run' = Started(l), active' = NowActive(l)
      PROVE  ActiveWorks'
  <2>1. CASE l = None
    BY <1>1, <2>1 DEF Started, NowActive, ActiveWorks
  <2>2. CASE l # None
    BY <1>1, <2>2, StartedLinks DEF NowActive, ActiveWorks, Working
  <2> QED
    BY <2>1, <2>2
<1>2. ASSUME NEW k \in Links, Drop(k)
      PROVE  ActiveWorks'
  BY <1>1, <1>2 DEF Drop
<1>3. ASSUME NEW early \in BOOLEAN, ConnectFails(early)
      PROVE  ActiveWorks'
  <2>1. CASE early
    BY <1>3, <2>1 DEF ConnectFails, ActiveWorks
  <2>2. CASE ~early
    BY <1>1, <1>3, <2>2 DEF ConnectFails
  <2> QED
    BY <2>1, <2>2
<1>4. ASSUME NEW l \in Loops, NEW k \in Links, Attempt(l, k)
      PROVE  ActiveWorks'
  <2>1. active' = active /\ run'[l].at = "opening" /\ run'[l].cancelled = run[l].cancelled
        /\ \A m \in Loops \ {l} : run'[m] = run[m]
    BY <1>4 DEF Attempt, GoodLoops, LoopType
  <2> QED
    BY <2>1 DEF ActiveWorks
<1>5. ASSUME NEW l \in Loops, NEW early \in BOOLEAN, AttemptFails(l, early)
      PROVE  ActiveWorks'
  <2> DEFINE ends == Exhausted(l) \/ run[l].cancelled
             r == [run[l] EXCEPT !.at = "sleeping", !.via = None]
  <2>1. PICK n \in Loops \cup {None} :
          /\ IF early THEN n = None ELSE StartsLoop(n)
          /\ run' = [Started(n) EXCEPT ![l] = IF ends THEN Idle ELSE r]
          /\ active' = IF ends THEN None ELSE NowActive(n)
    BY <1>5 DEF AttemptFails
  <2>2. CASE ends
    BY <2>1, <2>2 DEF ActiveWorks
  <2>3. CASE ~ends
    <3>1. Started(n) \in [Loops -> GoodLoops]
      BY <2>1, StartedFacts DEF Started, IInv
    <3>2. run'[l].at = "sleeping" /\ ~run'[l].cancelled
      BY <2>1, <2>3, <3>1, LoopRecords
    <3>3. \A m \in Loops \ {l} : run'[m] = Started(n)[m]
      BY <2>1, <3>1
    <3>4. \A m \in Loops : m # n => Started(n)[m] = run[m]
      BY <2>1, StartedLinks DEF Started
    <3>5. n # None => Working(Started(n)[n])
      BY <2>1, StartedLinks
    <3> QED
      BY <2>1, <2>3, <3>2, <3>3, <3>4, <3>5 DEF ActiveWorks, NowActive, Working
  <2> QED
    BY <2>2, <2>3
<1>6. ASSUME NEW l \in Loops, AttemptSucceeds(l)
      PROVE  ActiveWorks'
  <2>1. CASE run[l].cancelled
    BY <1>6, <2>1 DEF AttemptSucceeds, ActiveWorks
  <2>2. CASE ~run[l].cancelled
    <3>1. active' = active /\ run' = [run EXCEPT ![l] = [run[l] EXCEPT !.at = "rebuilt", !.via = None]]
      BY <1>6, <2>2 DEF AttemptSucceeds
    <3> QED
      BY <2>2, <3>1, LoopRecords DEF ActiveWorks
  <2> QED
    BY <2>1, <2>2
<1>7. ASSUME NEW l \in Loops, Replay(l)
      PROVE  ActiveWorks'
  <2>1. active' = active /\ run'[l].at = "replayed" /\ run'[l].cancelled = run[l].cancelled
        /\ \A m \in Loops \ {l} : run'[m] = run[m]
    BY <1>7 DEF Replay, GoodLoops, LoopType
  <2> QED
    BY <2>1 DEF ActiveWorks
<1>8. CASE active' = None
  BY <1>8 DEF ActiveWorks
<1>9. CASE UNCHANGED <<run, active>>
  BY <1>9 DEF ActiveWorks
<1> QED
  BY <1>2, <1>3, <1>4, <1>5, <1>6, <1>7, <1>8, <1>9
     DEF Next, LoopStep, Send, Answer, RequestFails, Finish, Connect, ConnectAgain, ConnectOpens,
         ReadResumes, ConnectEnds, Disconnect, CloseDone, vars

(* A step that takes no call off the wire and ends no working loop leaves  *)
(* nobody waiting for nothing.                                             *)
LEMMA AwaitedKept ==
  ASSUME WInv,
         \A c \in Calls : call'[c].at = "open" /\ call'[c].via = None => c \in Pending /\ call[c].via = None,
         \A l \in Loops : Working(run[l]) => Working(run'[l])
  PROVE  Awaited'
  BY DEF WInv, Awaited, Pending

LEMMA AwaitedStays ==
  ASSUME WInv, [Next]_vars, ~Does("eager")
  PROVE  Awaited'
<1> USE DEF WInv, LInv
<1> /\ run \in [Loops -> GoodLoops] /\ active \in Loops \cup {None} /\ None \notin Loops
    /\ call \in [Calls -> GoodCalls] /\ TypeOK /\ None \notin Links
  BY NoneAssumption DEF IInv, TypeOK
<1>1. ASSUME ~Micro, UNCHANGED run, NEW c \in Calls, \A d \in Calls \ {c} : call'[d] = call[d],
             call'[c].at = "open" /\ call'[c].via = None => active # None
      PROVE  Awaited'
  <2>1. CASE active # None
    BY <1>1, <2>1, ActiveIsWorking DEF Awaited, Pending
  <2>2. CASE active = None
    BY <1>1, <2>2 DEF Awaited, Pending
  <2> QED
    BY <2>1, <2>2
<1>2. ASSUME NEW c \in Calls, Send(c)
      PROVE  Awaited'
  <2>1. call[c].tries = 0
    BY <1>2 DEF Send, GoodCalls
  <2>2. Dispatch(c).at = "open" => Dispatch(c).via # None
    BY <2>1, DispatchFacts
  <2>3. ~Micro /\ run' = run /\ call' = [call EXCEPT ![c] = IF ~failed /\ active # None
                                                  THEN [NoCall EXCEPT !.at = "open"] ELSE Dispatch(c)]
    BY <1>2 DEF Send, Turn
  <2> QED
    BY <1>1, <2>2, <2>3
<1>3. ASSUME NEW c \in Calls, Answer(c)
      PROVE  Awaited'
  <2>1. call'[c].at # "open"
    BY <1>3 DEF Answer, GoodCalls, CallType
  <2> QED
    BY <1>1, <1>3, <2>1 DEF Answer
<1>4. ASSUME NEW c \in Calls, RequestFails(c)
      PROVE  Awaited'
  <2>1. call'[c].at = "open" => active # None
    BY <1>4, RejectFacts DEF RequestFails, Unanswered
  <2> QED
    BY <1>1, <1>4, <2>1 DEF RequestFails
<1>5. ASSUME ~Micro, NEW k \in Links, NEW l \in Loops \cup {None}, StartsLoop(l) \/ l = None,
             run' = Started(l), call' = Cut(k, l)
      PROVE  Awaited'
  <2>1. \A m \in Loops : Working(run[m]) => Working(run'[m])
    BY <1>5, StartedLinks DEF Started
  <2>2. CASE NowActive(l) # None
    <3>1. \E m \in Loops : Working(run'[m])
      <4>1. CASE l = None
        BY <1>5, <2>1, <2>2, <4>1, ActiveIsWorking DEF NowActive
      <4>2. CASE l # None
        BY <1>5, <4>2, StartedLinks
      <4> QED
        BY <4>1, <4>2
    <3> QED
      BY <3>1 DEF Awaited
  <2>3. CASE NowActive(l) = None
    <3>1. \A c \in Calls : call'[c].at = "open" => call'[c] = call[c]
      BY <1>5, <2>3, CutFacts
    <3> QED
      BY <2>1, <3>1, AwaitedKept DEF Pending
  <2> QED
    BY <2>2, <2>3
<1>6. ASSUME NEW k \in Links, Drop(k)
      PROVE  Awaited'
  BY <1>5, <1>6 DEF Drop, Closed
<1>7. ASSUME NEW early \in BOOLEAN, ConnectFails(early)
      PROVE  Awaited'
  <2>1. CASE early
    BY <1>7, <2>1, AwaitedKept DEF ConnectFails, Pending
  <2>2. CASE ~early
    <3>1. api.via \in Links /\ ~Micro
      BY <1>7 DEF ConnectFails, IInv
    <3>2. PICK l \in Loops \cup {None} : StartsLoop(l) /\ Closed(api.via, l) /\ run' = Started(l)
      BY <1>7, <2>2 DEF ConnectFails
    <3> QED
      BY <1>5, <3>1, <3>2 DEF Closed
  <2> QED
    BY <2>1, <2>2
<1>8. CASE CloseDone
  <2>1. ~Micro /\ closing \in Links /\ run' = Started(None) /\ call' = Cut(closing, None)
    BY <1>8 DEF CloseDone, TypeOK, Started
  <2> QED
    BY <1>5, <2>1
<1>9. ASSUME \A c \in Calls : call'[c].at # "open" \/ call'[c].via # None
      PROVE  Awaited'
  BY <1>9 DEF Awaited, Pending
<1>10. ASSUME NEW dispose \in BOOLEAN, Disconnect(dispose)
       PROVE  Awaited'
  BY <1>9, <1>10, RejectPendingFacts DEF Disconnect
<1>11. ASSUME NEW l \in Loops, Replay(l)
       PROVE  Awaited'
  <2>1. ASSUME NEW c \in Pending
        PROVE  LET r == IF Spent(c) THEN Reject(c) ELSE Dispatch(c)
               IN  r.at # "open" \/ r.via # None
    <3>1. c \in Calls /\ call[c].tries \in Nat
      BY DEF Pending, GoodCalls, CallType
    <3>2. CASE Spent(c)
      BY <3>1, <3>2, RejectFacts
    <3>3. CASE ~Spent(c)
      BY <3>1, <3>3, DispatchFacts DEF Spent
    <3> QED
      BY <3>2, <3>3
  <2>2. call' = [c \in Calls |-> IF c \notin Pending THEN call[c]
                                 ELSE IF Spent(c) THEN Reject(c) ELSE Dispatch(c)]
    BY <1>11 DEF Replay
  <2> QED
    BY <1>9, <2>1, <2>2 DEF Pending
<1>12. ASSUME NEW l \in Loops, NEW k \in Links, Attempt(l, k)
       PROVE  Awaited'
  <2>1. call' = call /\ run'[l].at = "opening" /\ run'[l].cancelled = run[l].cancelled
        /\ \A m \in Loops \ {l} : run'[m] = run[m]
    BY <1>12 DEF Attempt, GoodLoops, LoopType
  <2> QED
    BY <2>1, AwaitedKept DEF Working, Pending
<1>13. ASSUME NEW l \in Loops, AttemptSucceeds(l)
       PROVE  Awaited'
  <2>1. call' = call
    BY <1>13 DEF AttemptSucceeds
  <2>2. CASE run[l].cancelled
    <3>1. run' = [run EXCEPT ![l] = Idle]
      BY <1>13, <2>2 DEF AttemptSucceeds
    <3> QED
      BY <2>1, <2>2, <3>1, AwaitedKept DEF Working, Pending
  <2>3. CASE ~run[l].cancelled
    <3>1. run' = [run EXCEPT ![l] = [run[l] EXCEPT !.at = "rebuilt", !.via = None]]
      BY <1>13, <2>3 DEF AttemptSucceeds
    <3>2. Working(run'[l]) /\ \A m \in Loops \ {l} : run'[m] = run[m]
      BY <2>3, <3>1, LoopRecords DEF Working
    <3> QED
      BY <2>1, <3>2, AwaitedKept DEF Pending
  <2> QED
    BY <2>2, <2>3
<1>14. ASSUME NEW l \in Loops, NEW early \in BOOLEAN, AttemptFails(l, early)
       PROVE  Awaited'
  <2>1. CASE Exhausted(l)
    BY <1>9, <1>14, <2>1, RejectPendingFacts DEF AttemptFails, GiveUp
  <2>2. CASE ~Exhausted(l)
    <3> DEFINE r == [run[l] EXCEPT !.at = "sleeping", !.via = None]
    <3>1. PICK n \in Loops \cup {None} :
            /\ IF early THEN n = None ELSE StartsLoop(n)
            /\ run' = [Started(n) EXCEPT ![l] = IF run[l].cancelled THEN Idle ELSE r]
      BY <1>14, <2>2 DEF AttemptFails
    <3>2. call' = call
      BY <1>14, <2>2 DEF AttemptFails
    <3>3. Started(n) \in [Loops -> GoodLoops]
      BY <3>1, StartedFacts DEF Started
    <3>4. \A m \in Loops : Working(run[m]) => Working(Started(n)[m])
      BY <3>1, StartedLinks DEF Started
    <3>5. \A m \in Loops \ {l} : run'[m] = Started(n)[m]
      BY <3>1, <3>3
    <3>6. ~run[l].cancelled => Working(run'[l])
      BY <3>1, <3>3, LoopRecords DEF Working
    <3>7. \A m \in Loops : Working(run[m]) => Working(run'[m])
      BY <3>4, <3>5, <3>6 DEF Working
    <3> QED
      BY <3>2, <3>7, AwaitedKept DEF Pending
  <2> QED
    BY <2>1, <2>2
<1>15. ASSUME NEW l \in Loops, Finish(l)
       PROVE  Awaited'
  <2>1. call' = call /\ run' = [run EXCEPT ![l] = Idle] /\ run[l].at = "replayed"
    BY <1>15 DEF Finish
  <2> QED
    BY <2>1, AwaitedKept DEF Working, Pending
<1>16. CASE UNCHANGED <<run, call>>
  BY <1>16, AwaitedKept DEF Pending
<1> QED
  BY <1>2, <1>3, <1>4, <1>6, <1>7, <1>8, <1>10, <1>11, <1>12, <1>13, <1>14, <1>15, <1>16
     DEF Next, LoopStep, Connect, ConnectAgain, ConnectOpens, ReadResumes, ConnectEnds, vars

LEMMA InitWInv == Init => WInv
<1> SUFFICES ASSUME Init
             PROVE  WInv
  OBVIOUS
<1>1. LInv
  BY InitLInv
<1>2. ActiveWorks
  BY DEF Init, ActiveWorks
<1>3. Pending = {}
  BY DEF Init, Pending, NoCall
<1> QED
  BY <1>1, <1>2, <1>3 DEF WInv, Awaited

(* As long as no consumer calls in the microtasks that end a reconnect,    *)
(* every pending call is in flight on an open link or waits for a loop     *)
(* that has yet to replay: whatever links drop, attempts fail and          *)
(* lifecycle calls cross, none is forgotten.                               *)
THEOREM NobodyForgotten == ASSUME ~Does("eager") PROVE Spec => []NoOrphan
<1>1. WInv /\ [Next]_vars => WInv'
  BY StepLInv, ActiveStays, AwaitedStays DEF WInv
<1>2. WInv => NoOrphan
  <2> SUFFICES ASSUME WInv, NEW c \in Pending
               PROVE  \/ call[c].via # None /\ link[call[c].via] = "open"
                      \/ \E l \in Loops : run[l].at \in {"sleeping", "opening", "rebuilt"} /\ ~run[l].cancelled
    BY DEF NoOrphan
  <2>1. c \in Calls
    BY DEF Pending
  <2>2. CASE call[c].via = None
    BY <2>2 DEF WInv, Awaited, Working
  <2>3. CASE call[c].via # None
    BY <2>1, <2>3 DEF WInv, LInv, CallsOnOpen
  <2> QED
    BY <2>2, <2>3
<1> QED
  BY <1>1, <1>2, InitWInv, PTL DEF Spec

-----------------------------------------------------------------------------
(* As long as no lifecycle call was rash: who runs, who opens, who is open. *)

AllIdle == \A l \in Loops : run[l].at = "idle"

(* The loop that runs is the active one and was not stopped.               *)
SoleLoop == \A l \in Loops : run[l].at # "idle" => active = l /\ ~run[l].cancelled

(* Only the client's link is open, and who opens another is known.         *)
SoleLink ==
    \A k \in Links :
        /\ link[k] = "open" => k = client /\ (connected \/ closing = k)
        /\ link[k] = "opening" => \/ api.at = "opening" /\ api.via = k
                                  \/ \E l \in Loops : run[l].at = "opening" /\ run[l].via = k

Phases ==
    /\ connected => /\ client # None /\ closing = None
                    /\ \A l \in Loops : run[l].at \notin {"sleeping", "opening"}
    /\ api.at = "opening" => ~connected /\ closing = None /\ AllIdle
    /\ last = "disconnect" => ~connected /\ AllIdle /\ api.at # "opening"
    /\ closing # None => last = "disconnect" /\ closing = client

PInv == LInv /\ SoleLoop /\ SoleLink /\ Phases

LEMMA CalmFacts ==
  ASSUME ~rash', PInv
  PROVE  /\ \A k \in Links : Connect(k) => ~connected /\ closing = None /\ api.at = "no" /\ AllIdle
         /\ \A dispose : Disconnect(dispose) => /\ closing = None /\ api.at # "opening"
                                                /\ \A l \in Loops : run[l].at \in {"idle", "sleeping"}
  BY DEF Connect, MayConnect, Running, AllIdle, Disconnect

(* Once no loop is active, none runs; and who sleeps or opens is active.   *)
LEMMA LoopFacts ==
  ASSUME PInv
  PROVE  /\ active = None => AllIdle
         /\ AllIdle => \A l \in Loops : run[l].at # "opening" /\ run[l].at # "sleeping"
         /\ \A l \in Loops : run[l].at \in {"sleeping", "opening"} =>
              /\ ~connected /\ closing = None /\ api.at # "opening" /\ last # "disconnect"
              /\ active = l /\ ~run[l].cancelled
              /\ \A m \in Loops \ {l} : run[m].at = "idle"
  BY NoneAssumption DEF PInv, SoleLoop, Phases, AllIdle

(* An attempt in flight is the only thing going on.                        *)
LEMMA AttemptAlone ==
  ASSUME PInv, NEW l \in Loops, run[l].at = "opening"
  PROVE  /\ run[l].via \in Links
         /\ \A k \in Links : k # run[l].via => link[k] \notin {"open", "opening"}
         /\ \A n \in Loops \cup {None} : StartsLoop(n) => n = None
<1>1. /\ ~connected /\ closing = None /\ api.at # "opening" /\ active = l
      /\ \A m \in Loops \ {l} : run[m].at = "idle"
  BY LoopFacts
<1>2. run[l].via \in Links
  BY DEF PInv, LInv, OwnLink
<1>3. \A k \in Links : k # run[l].via => link[k] \notin {"open", "opening"}
  BY <1>1, NoneAssumption DEF PInv, SoleLink
<1>4. l # None
  BY NoneAssumption
<1> QED
  BY <1>1, <1>2, <1>3, <1>4 DEF StartsLoop, Unsolicited

(* So is connect() while it opens its link.                                *)
LEMMA ConnectAlone ==
  ASSUME PInv, api.at = "opening"
  PROVE  /\ api.via \in Links /\ ~connected /\ closing = None /\ AllIdle /\ last # "disconnect"
         /\ \A k \in Links : k # api.via => link[k] \notin {"open", "opening"}
<1>1. ~connected /\ closing = None /\ AllIdle /\ api.via \in Links /\ last # "disconnect"
  BY DEF PInv, LInv, IInv, Phases
<1> QED
  BY <1>1, NoneAssumption DEF PInv, SoleLink, AllIdle

(* Where disconnect() leaves the loops.                                    *)
LEMMA DisconnectIdles ==
  ASSUME ~rash', PInv, NEW dispose \in BOOLEAN, Disconnect(dispose)
  PROVE  /\ \A l \in Loops : run'[l].at = "idle"
         /\ active' = None
<1>1. \A l \in Loops : run[l].at \in {"idle", "sleeping"}
  BY CalmFacts
<1>2. run' = [l \in Loops |-> IF l = active THEN Stopped(l) ELSE run[l]] /\ active' = None
  BY DEF Disconnect
<1>3. ASSUME NEW l \in Loops
      PROVE  run'[l].at = "idle"
  <2>1. CASE l # active
    BY <1>2, <2>1 DEF PInv, SoleLoop
  <2>2. CASE l = active
    <3>1. Stopped(l).at = "idle"
      BY <1>1 DEF Stopped, Idle
    <3> QED
      BY <1>2, <2>2, <3>1
  <2> QED
    BY <2>1, <2>2
<1> QED
  BY <1>2, <1>3

LEMMA SoleLoopStays ==
  ASSUME ~rash', PInv, [Next]_vars
  PROVE  SoleLoop'
<1> USE DEF PInv, LInv
<1> run \in [Loops -> GoodLoops] /\ None \notin Loops
  BY NoneAssumption DEF IInv, TypeOK
<1>1. ASSUME NEW l \in Loops \cup {None}, StartsLoop(l), run' = Started(l), active' = NowActive(l)
      PROVE  SoleLoop'
  <2>1. CASE l = None
    BY <1>1, <2>1 DEF Started, NowActive, SoleLoop
  <2>2. CASE l # None
    <3>1. AllIdle
      BY <1>1, <2>2, LoopFacts DEF StartsLoop, Unsolicited
    <3>2. active' = l /\ ~run'[l].cancelled /\ \A m \in Loops \ {l} : run'[m] = run[m]
      BY <1>1, <2>2, StartedLinks DEF NowActive, Working
    <3> QED
      BY <3>1, <3>2 DEF SoleLoop, AllIdle
  <2> QED
    BY <2>1, <2>2
<1>2. ASSUME NEW k \in Links, Drop(k)
      PROVE  SoleLoop'
  BY <1>1, <1>2 DEF Drop
<1>3. ASSUME NEW early \in BOOLEAN, ConnectFails(early)
      PROVE  SoleLoop'
  <2>1. CASE early
    BY <1>3, <2>1 DEF ConnectFails, SoleLoop
  <2>2. CASE ~early
    BY <1>1, <1>3, <2>2 DEF ConnectFails
  <2> QED
    BY <2>1, <2>2
<1>4. ASSUME NEW l \in Loops, active' = active, run'[l].at = "idle" \/ run'[l].cancelled = run[l].cancelled,
             run[l].at # "idle", \A m \in Loops \ {l} : run'[m] = run[m]
      PROVE  SoleLoop'
  BY <1>4 DEF SoleLoop
<1>5. ASSUME NEW l \in Loops, NEW k \in Links, Attempt(l, k)
      PROVE  SoleLoop'
  <2>1. active' = active /\ run'[l].cancelled = run[l].cancelled /\ run[l].at # "idle"
        /\ \A m \in Loops \ {l} : run'[m] = run[m]
    BY <1>5 DEF Attempt, GoodLoops, LoopType
  <2> QED
    BY <1>4, <2>1
<1>6. ASSUME NEW l \in Loops, NEW early \in BOOLEAN, AttemptFails(l, early)
      PROVE  SoleLoop'
  <2> DEFINE ends == Exhausted(l) \/ run[l].cancelled
             r == [run[l] EXCEPT !.at = "sleeping", !.via = None]
  <2>1. PICK n \in Loops \cup {None} :
          /\ IF early THEN n = None ELSE StartsLoop(n)
          /\ run' = [Started(n) EXCEPT ![l] = IF ends THEN Idle ELSE r]
          /\ active' = IF ends THEN None ELSE NowActive(n)
    BY <1>6 DEF AttemptFails
  <2>2. n = None /\ active = l /\ \A m \in Loops \ {l} : run[m].at = "idle"
    BY <1>6, <2>1, AttemptAlone, LoopFacts DEF AttemptFails
  <2>3. run' = [run EXCEPT ![l] = IF ends THEN Idle ELSE r]
    BY <2>1, <2>2 DEF Started
  <2>4. CASE ends
    <3>1. run'[l] = Idle /\ \A m \in Loops \ {l} : run'[m] = run[m]
      BY <2>3, <2>4
    <3> QED
      BY <2>2, <3>1, LoopRecords DEF SoleLoop
  <2>5. CASE ~ends
    <3>1. run'[l] = r /\ active' = active
      BY <2>1, <2>2, <2>3, <2>5 DEF NowActive
    <3>2. ~run'[l].cancelled
      BY <2>5, <3>1, LoopRecords
    <3> QED
      BY <2>2, <2>3, <3>1, <3>2 DEF SoleLoop
  <2> QED
    BY <2>4, <2>5
<1>7. ASSUME NEW l \in Loops, AttemptSucceeds(l)
      PROVE  SoleLoop'
  <2>1. ~run[l].cancelled /\ run[l].at # "idle"
    BY <1>7 DEF AttemptSucceeds, SoleLoop
  <2>2. active' = active /\ run' = [run EXCEPT ![l] = [run[l] EXCEPT !.at = "rebuilt", !.via = None]]
    BY <1>7, <2>1 DEF AttemptSucceeds
  <2> QED
    BY <1>4, <2>1, <2>2, LoopRecords
<1>8. ASSUME NEW l \in Loops, Replay(l)
      PROVE  SoleLoop'
  <2>1. active' = active /\ run'[l].cancelled = run[l].cancelled /\ run[l].at # "idle"
        /\ \A m \in Loops \ {l} : run'[m] = run[m]
    BY <1>8 DEF Replay, GoodLoops, LoopType
  <2> QED
    BY <1>4, <2>1
<1>9. ASSUME NEW l \in Loops, Finish(l)
      PROVE  SoleLoop'
  <2>1. run' = [run EXCEPT ![l] = Idle] /\ run[l].at # "idle"
    BY <1>9 DEF Finish
  <2>2. \A m \in Loops : run'[m].at = "idle"
    BY <2>1, LoopRecords DEF SoleLoop
  <2> QED
    BY <2>2 DEF SoleLoop
<1>10. ASSUME NEW dispose \in BOOLEAN, Disconnect(dispose)
       PROVE  SoleLoop'
  BY <1>10, DisconnectIdles DEF SoleLoop
<1>11. CASE UNCHANGED <<run, active>>
  BY <1>11 DEF SoleLoop
<1> QED
  BY <1>2, <1>3, <1>5, <1>6, <1>7, <1>8, <1>9, <1>10, <1>11
     DEF Next, LoopStep, Send, Answer, RequestFails, Connect, ConnectAgain, ConnectOpens,
         ReadResumes, ConnectEnds, CloseDone, vars

(* A step that opens nothing and moves none of those that are opening.     *)
LEMMA SoleLinkKept ==
  ASSUME PInv,
         \A k \in Links : link'[k] = "open" =>
             link[k] = "open" /\ client' = client /\ (connected' \/ closing' = k),
         \A k \in Links : link'[k] = "opening" => link[k] = "opening",
         \A k \in Links : link'[k] = "opening" /\ api.at = "opening" /\ api.via = k =>
             api'.at = "opening" /\ api'.via = k,
         \A k \in Links, l \in Loops : link'[k] = "opening" /\ run[l].at = "opening" /\ run[l].via = k =>
             run'[l].at = "opening" /\ run'[l].via = k
  PROVE  SoleLink'
<1>1. \A k \in Links : link'[k] = "open" => k = client' /\ (connected' \/ closing' = k)
  BY DEF PInv, SoleLink
<1>2. \A k \in Links : link'[k] = "opening" => \/ api'.at = "opening" /\ api'.via = k
                                               \/ \E l \in Loops : run'[l].at = "opening" /\ run'[l].via = k
  BY DEF PInv, SoleLink
<1> QED
  BY <1>1, <1>2 DEF SoleLink

LEMMA SoleLinkStays ==
  ASSUME ~rash', PInv, [Next]_vars
  PROVE  SoleLink'
<1> USE DEF LInv
<1> /\ IInv /\ SoleLoop /\ SoleLink /\ Phases /\ run \in [Loops -> GoodLoops]
    /\ link \in [Links -> {"none", "opening", "open"}] /\ None \notin Links
    /\ closing \in Links \cup {None} /\ client \in Links \cup {None}
  BY NoneAssumption DEF PInv, IInv, TypeOK
<1>1. ASSUME NEW k \in Links, Drop(k)
      PROVE  SoleLink'
  <2>1. PICK l \in Loops \cup {None} : StartsLoop(l) /\ run' = Started(l) /\ Closed(k, l)
    BY <1>1 DEF Drop
  <2>2. link' = [link EXCEPT ![k] = "none"] /\ link[k] = "open"
    BY <1>1, <2>1 DEF Closed, Drop
  <2>3. \A j \in Links : link'[j] # "open"
    BY <2>2 DEF SoleLink
  <2>4. \A m \in Loops : run'[m].via = run[m].via /\ (run'[m].at = "opening" <=> run[m].at = "opening")
    BY <2>1, StartedLinks
  <2>5. api' = api \/ api.via = k
    BY <1>1 DEF Drop
  <2> QED
    BY <2>2, <2>3, <2>4, <2>5, SoleLinkKept
<1>2. ASSUME NEW early \in BOOLEAN, ConnectFails(early)
      PROVE  SoleLink'
  <2>1. api.at = "opening" /\ link' = [link EXCEPT ![api.via] = "none"]
    BY <1>2 DEF ConnectFails, Closed
  <2>2. \A k \in Links : link'[k] \notin {"open", "opening"}
    BY <2>1, ConnectAlone
  <2> QED
    BY <2>2 DEF SoleLink
<1>3. ASSUME NEW l \in Loops, NEW k \in Links, Attempt(l, k)
      PROVE  SoleLink'
  <2>1. /\ link' = [link EXCEPT ![k] = "opening"] /\ run[l].at = "sleeping"
        /\ UNCHANGED <<api, client, connected, closing>>
    BY <1>3 DEF Attempt, apiVars
  <2>2. run'[l].at = "opening" /\ run'[l].via = k /\ \A m \in Loops \ {l} : run'[m] = run[m]
    BY <1>3 DEF Attempt, GoodLoops, LoopType
  <2>3. link'[k] = "opening" /\ \A j \in Links \ {k} : link'[j] = link[j]
    BY <2>1
  <2> QED
    BY <2>1, <2>2, <2>3 DEF SoleLink
<1>4. ASSUME NEW l \in Loops, NEW early \in BOOLEAN, AttemptFails(l, early)
      PROVE  SoleLink'
  <2>1. run[l].at = "opening" /\ link' = [link EXCEPT ![run[l].via] = "none"]
    BY <1>4 DEF AttemptFails
  <2>2. \A k \in Links : link'[k] \notin {"open", "opening"}
    BY <2>1, AttemptAlone
  <2> QED
    BY <2>2 DEF SoleLink
<1>5. ASSUME NEW l \in Loops, AttemptSucceeds(l)
      PROVE  SoleLink'
  <2>1. run[l].at = "opening" /\ link' = [link EXCEPT ![run[l].via] = "open"]
        /\ client' = run[l].via /\ connected' = TRUE
    BY <1>5 DEF AttemptSucceeds
  <2>2. link'[run[l].via] = "open" /\ \A k \in Links : k # run[l].via => link'[k] \notin {"open", "opening"}
    BY <2>1, AttemptAlone
  <2> QED
    BY <2>1, <2>2 DEF SoleLink
<1>6. ASSUME NEW k \in Links, Connect(k)
      PROVE  SoleLink'
  <2>1. api.at = "no" /\ AllIdle
    BY <1>6, CalmFacts
  <2>2. /\ link' = [link EXCEPT ![k] = "opening"] /\ api'.at = "opening" /\ api'.via = k
        /\ UNCHANGED <<client, connected, closing>>
    BY <1>6 DEF Connect
  <2>3. link'[k] = "opening" /\ \A j \in Links \ {k} : link'[j] = link[j] /\ link[j] # "opening"
    BY <2>1, <2>2 DEF SoleLink, AllIdle
  <2> QED
    BY <2>2, <2>3 DEF SoleLink
<1>7. CASE ConnectOpens
  <2>1. /\ api.at = "opening" /\ link' = [link EXCEPT ![api.via] = "open"]
        /\ client' = api.via /\ connected' = TRUE
    BY <1>7 DEF ConnectOpens
  <2>2. api.via \in Links /\ \A k \in Links : k # api.via => link'[k] \notin {"open", "opening"}
    BY <2>1, ConnectAlone
  <2>3. link'[api.via] = "open"
    BY <2>1, <2>2
  <2> QED
    BY <2>1, <2>2, <2>3 DEF SoleLink
<1>8. ASSUME NEW dispose \in BOOLEAN, Disconnect(dispose)
      PROVE  SoleLink'
  <2>1. link' = link /\ client' = client
    BY <1>8 DEF Disconnect
  <2>2. \A k \in Links : link[k] # "opening"
    BY <1>8, CalmFacts DEF SoleLink
  <2>3. ASSUME NEW k \in Links, link[k] = "open"
        PROVE  k = client /\ closing' = k
    <3>1. k = client /\ connected /\ client # None
      BY <1>8, <2>3, CalmFacts DEF SoleLink
    <3> QED
      BY <1>8, <3>1 DEF Disconnect
  <2> QED
    BY <2>1, <2>2, <2>3 DEF SoleLink
<1>9. CASE CloseDone
  <2>1. closing \in Links /\ closing = client /\ AllIdle /\ api.at # "opening" /\ link' = [link EXCEPT ![closing] = "none"]
    BY <1>9 DEF CloseDone, Phases
  <2>2. \A k \in Links : link'[k] \notin {"open", "opening"}
    BY <2>1 DEF SoleLink, AllIdle
  <2> QED
    BY <2>2 DEF SoleLink
<1>10. ASSUME UNCHANGED <<link, client, connected, closing>>,
              api' = api \/ api.at # "opening",
              \A l \in Loops : run[l].at = "opening" => run'[l] = run[l]
       PROVE  SoleLink'
  BY <1>10, SoleLinkKept DEF SoleLink
<1>11. ASSUME NEW l \in Loops, Replay(l) \/ Finish(l)
       PROVE  SoleLink'
  <2>1. UNCHANGED <<link, client, connected, closing, api>> /\ run[l].at # "opening"
        /\ \A m \in Loops \ {l} : run'[m] = run[m]
    BY <1>11 DEF Replay, Finish, apiVars
  <2> QED
    BY <1>10, <2>1
<1>12. CASE ReadResumes \/ ConnectEnds
  BY <1>10, <1>12 DEF ReadResumes, ConnectEnds
<1>13. CASE ConnectAgain
  BY <1>10, <1>13 DEF ConnectAgain
<1>14. CASE UNCHANGED <<link, client, connected, closing, api, run>>
  BY <1>10, <1>14
<1> QED
  BY <1>1, <1>2, <1>3, <1>4, <1>5, <1>6, <1>7, <1>8, <1>9, <1>11, <1>12, <1>13, <1>14
     DEF Next, LoopStep, Send, Answer, RequestFails, vars, apiVars

LEMMA PhasesStay ==
  ASSUME ~rash', PInv, [Next]_vars
  PROVE  Phases'
<1> USE DEF LInv
<1> /\ IInv /\ SoleLoop /\ SoleLink /\ Phases /\ run \in [Loops -> GoodLoops]
    /\ None \notin Links /\ None \notin Loops
    /\ closing \in Links \cup {None} /\ client \in Links \cup {None} /\ active \in Loops \cup {None}
  BY NoneAssumption DEF PInv, IInv, TypeOK
<1> NoConnect.at = "no"
  BY DEF NoConnect
<1>1. ASSUME NEW k \in Links, Drop(k)
      PROVE  Phases'
  <2>1. PICK l \in Loops \cup {None} : StartsLoop(l) /\ run' = Started(l) /\ Closed(k, l)
    BY <1>1 DEF Drop
  <2>2. ~connected' /\ UNCHANGED <<last, client, closing>> /\ (api' = api \/ api' = NoConnect)
    BY <1>1, <2>1 DEF Drop, Closed
  <2>3. CASE closing = None
    <3>1. connected
      BY <1>1, <2>3 DEF Drop, SoleLink
    <3> QED
      BY <2>2, <2>3, <3>1 DEF Phases
  <2>4. CASE closing # None
    <3>1. run' = run
      BY <2>1, <2>4 DEF StartsLoop, Unsolicited, Started
    <3> QED
      BY <2>2, <2>4, <3>1 DEF Phases, AllIdle
  <2> QED
    BY <2>3, <2>4
<1>2. ASSUME NEW early \in BOOLEAN, ConnectFails(early)
      PROVE  Phases'
  <2>1. api.at = "opening" /\ api' = NoConnect /\ UNCHANGED <<last, client, closing>>
        /\ (connected' = connected \/ connected' = FALSE)
    BY <1>2 DEF ConnectFails, Closed
  <2> QED
    BY <2>1, ConnectAlone DEF Phases
<1>3. ASSUME NEW l \in Loops, run[l].at \in {"sleeping", "opening"},
             UNCHANGED <<last, client, closing, api>>, ~connected'
      PROVE  Phases'
  <2>1. ~connected /\ closing = None /\ api.at # "opening" /\ last # "disconnect"
    BY <1>3, LoopFacts
  <2> QED
    BY <1>3, <2>1 DEF Phases
<1>4. ASSUME NEW l \in Loops, NEW k \in Links, Attempt(l, k)
      PROVE  Phases'
  <2>1. run[l].at = "sleeping" /\ UNCHANGED <<last, client, closing, api, connected>>
    BY <1>4 DEF Attempt, apiVars
  <2>2. ~connected
    BY <2>1, LoopFacts
  <2> QED
    BY <1>3, <2>1, <2>2
<1>5. ASSUME NEW l \in Loops, NEW early \in BOOLEAN, AttemptFails(l, early)
      PROVE  Phases'
  <2>1. run[l].at = "opening" /\ UNCHANGED <<last, client, closing, api>>
    BY <1>5 DEF AttemptFails, apiVars
  <2>2. connected' = FALSE
    BY <1>5, <2>1, LoopFacts DEF AttemptFails
  <2> QED
    BY <1>3, <2>1, <2>2
<1>6. ASSUME NEW l \in Loops, AttemptSucceeds(l)
      PROVE  Phases'
  <2>1. run[l].at = "opening" /\ client' = run[l].via /\ UNCHANGED <<last, closing, api>>
    BY <1>6 DEF AttemptSucceeds, apiVars
  <2>2. run[l].via \in Links /\ closing = None /\ api.at # "opening" /\ last # "disconnect"
        /\ ~run[l].cancelled /\ \A m \in Loops \ {l} : run[m].at = "idle"
    BY <2>1, LoopFacts, AttemptAlone
  <2>3. run' = [run EXCEPT ![l] = [run[l] EXCEPT !.at = "rebuilt", !.via = None]]
    BY <1>6, <2>2 DEF AttemptSucceeds
  <2>4. run'[l].at = "rebuilt" /\ \A m \in Loops \ {l} : run'[m].at = "idle"
    BY <2>2, <2>3, LoopRecords
  <2> QED
    BY <2>1, <2>2, <2>4 DEF Phases
<1>7. ASSUME UNCHANGED <<last, client, closing, connected>>, api' = api \/ api'.at # "opening",
             \A l \in Loops : run'[l].at = run[l].at \/ (run[l].at # "idle" /\ run'[l].at \notin {"sleeping", "opening"})
      PROVE  Phases'
  <2>1. AllIdle => AllIdle'
    BY <1>7 DEF AllIdle
  <2>2. connected => \A l \in Loops : run'[l].at \notin {"sleeping", "opening"}
    BY <1>7 DEF Phases
  <2> QED
    BY <1>7, <2>1, <2>2 DEF Phases
<1>8. ASSUME NEW l \in Loops, Replay(l)
      PROVE  Phases'
  <2>1. UNCHANGED <<last, client, closing, connected, api>> /\ run[l].at = "rebuilt"
        /\ run'[l].at = "replayed" /\ \A m \in Loops \ {l} : run'[m] = run[m]
    BY <1>8 DEF Replay, apiVars, GoodLoops, LoopType
  <2> QED
    BY <1>7, <2>1
<1>9. ASSUME NEW l \in Loops, Finish(l)
      PROVE  Phases'
  <2>1. UNCHANGED <<last, client, closing, connected, api>> /\ run[l].at = "replayed"
        /\ run' = [run EXCEPT ![l] = Idle]
    BY <1>9 DEF Finish, apiVars
  <2>2. run'[l].at = "idle" /\ \A m \in Loops \ {l} : run'[m] = run[m]
    BY <2>1, LoopRecords
  <2> QED
    BY <1>7, <2>1, <2>2
<1>10. ASSUME NEW k \in Links, Connect(k)
       PROVE  Phases'
  <2>1. ~connected /\ closing = None /\ AllIdle
    BY <1>10, CalmFacts
  <2>2. last' = "connect" /\ UNCHANGED <<client, closing, connected, run>>
    BY <1>10 DEF Connect
  <2> QED
    BY <2>1, <2>2 DEF Phases, AllIdle
<1>11. CASE ConnectAgain
  BY <1>7, <1>11 DEF ConnectAgain
<1>12. CASE ConnectOpens
  <2>1. api.at = "opening" /\ client' = api.via /\ api'.at # "opening" /\ UNCHANGED <<last, closing, run>>
    BY <1>12 DEF ConnectOpens
  <2>2. api.via \in Links /\ closing = None /\ AllIdle /\ last # "disconnect"
    BY <2>1, ConnectAlone
  <2> QED
    BY <2>1, <2>2 DEF Phases, AllIdle
<1>13. CASE ReadResumes \/ ConnectEnds
  <2>1. api.at = "reading" /\ UNCHANGED <<last, client, closing, connected, run>>
    BY <1>13 DEF ReadResumes, ConnectEnds, busVars
  <2>2. api'.at # "opening"
    <3>1. CASE ReadResumes
      BY <3>1 DEF ReadResumes, IInv, TypeOK, ConnectType
    <3>2. CASE ConnectEnds
      BY <3>2 DEF ConnectEnds
    <3> QED
      BY <1>13, <3>1, <3>2
  <2> QED
    BY <1>7, <2>1, <2>2
<1>14. ASSUME NEW dispose \in BOOLEAN, Disconnect(dispose)
       PROVE  Phases'
  <2>1. AllIdle'
    BY <1>14, DisconnectIdles DEF AllIdle
  <2>2. api.at # "opening" /\ closing = None
    BY <1>14, CalmFacts
  <2>3. last' = "disconnect" /\ ~connected' /\ api' = api /\ client' = client /\ (closing' = client \/ closing' = closing)
    BY <1>14 DEF Disconnect
  <2> QED
    BY <2>1, <2>2, <2>3 DEF Phases
<1>15. CASE CloseDone
  <2>1. ~connected' /\ closing' = None /\ UNCHANGED <<last, run>> /\ (api' = api \/ api' = NoConnect)
    BY <1>15 DEF CloseDone
  <2>2. AllIdle /\ api.at # "opening"
    BY <1>15 DEF CloseDone, Phases
  <2> QED
    BY <2>1, <2>2 DEF Phases, AllIdle
<1>16. CASE UNCHANGED <<last, client, closing, connected, api, run>>
  BY <1>7, <1>16
<1> QED
  BY <1>1, <1>2, <1>4, <1>5, <1>6, <1>8, <1>9, <1>10, <1>11, <1>12, <1>13, <1>14, <1>15, <1>16
     DEF Next, LoopStep, Send, Answer, RequestFails, vars, apiVars

LEMMA InitPInv == Init => PInv
<1> SUFFICES ASSUME Init
             PROVE  PInv
  OBVIOUS
<1>1. LInv
  BY InitLInv
<1>2. AllIdle /\ ~connected /\ api.at = "no" /\ last = "none" /\ closing = None
  BY DEF Init, AllIdle, Idle, NoConnect
<1>3. \A k \in Links : link[k] = "none"
  BY DEF Init
<1> QED
  BY <1>1, <1>2, <1>3 DEF PInv, SoleLoop, SoleLink, Phases, AllIdle

QInv == LInv /\ (~rash => PInv)

LEMMA StepQInv == QInv /\ [Next]_vars => QInv'
<1> SUFFICES ASSUME QInv, [Next]_vars
             PROVE  QInv'
  OBVIOUS
<1>1. LInv'
  BY StepLInv DEF QInv
<1>2. rash => rash'
  BY DEF Next, LoopStep, Send, Answer, RequestFails, Drop, Connect, Attempt, AttemptFails,
         AttemptSucceeds, Replay, Finish, ConnectFails, ConnectAgain, ConnectOpens, ReadResumes,
         ConnectEnds, Disconnect, CloseDone, vars, history
<1>3. ~rash' => PInv'
  <2> SUFFICES ASSUME ~rash'
               PROVE  PInv'
    OBVIOUS
  <2>1. PInv
    BY <1>2 DEF QInv
  <2> QED
    BY <1>1, <2>1, SoleLoopStays, SoleLinkStays, PhasesStay DEF PInv
<1> QED
  BY <1>1, <1>3 DEF QInv

LEMMA CalmInvariant == Spec => []QInv
<1>1. Init => QInv
  BY InitPInv, InitLInv DEF QInv
<1> QED
  BY <1>1, StepQInv, PTL DEF Spec

(* One reconnect loop runs at a time, it is the one disconnect() stops,    *)
(* and isHealthy() is true exactly while the current client's link is open *)
(* and not being closed: for any consumer that has not yet called          *)
(* disconnect() in mid-handshake or connect() beside a loop.               *)
THEOREM SingleLoop == Spec => []OneLoop
<1>1. PInv => HealthTells
  <2> SUFFICES ASSUME PInv
               PROVE  connected <=> client # None /\ link[client] = "open" /\ closing = None
    BY DEF HealthTells
  <2>1. client \in Links \cup {None} /\ None \notin Links /\ connected \in BOOLEAN
    BY NoneAssumption DEF PInv, LInv, IInv, TypeOK
  <2>2. connected => client # None /\ link[client] = "open" /\ closing = None
    BY <2>1 DEF PInv, LInv, ClientOpen, Phases
  <2>3. client # None /\ link[client] = "open" /\ closing = None => connected
    BY <2>1 DEF PInv, SoleLink
  <2> QED
    BY <2>1, <2>2, <2>3
<1>2. QInv => OneLoop
  BY <1>1 DEF QInv, PInv, SoleLoop, OneLoop
<1> QED
  BY <1>2, CalmInvariant, PTL

-----------------------------------------------------------------------------
(* Whoever disconnects, and when: what is left is stray.                   *)

InMicro(l) == run[l].at \in {"rebuilt", "replayed"}

(* A loop in its microtasks has just connected, or is being disconnected.  *)
MicroUp == \A l \in Loops : InMicro(l) => connected \/ closing # None

Left ==
    last = "disconnect" =>
       /\ \A l \in Loops : run[l].at # "idle" => l \in stray \/ (closing # None /\ InMicro(l))
       /\ \A k \in Links : link[k] # "none" => k \in stray \/ k = closing
       /\ connected => client \in stray

ConnectedClient == connected => client # None

SInv == QInv /\ MicroUp /\ Left /\ ConnectedClient /\ (~rash => stray = {})

LEMMA MicroStays ==
  ASSUME SInv, [Next]_vars
  PROVE  MicroUp' /\ ConnectedClient'
<1> /\ IInv /\ run \in [Loops -> GoodLoops] /\ None \notin Links /\ None \notin Loops
    /\ MicroUp /\ ConnectedClient /\ OwnLink
  BY NoneAssumption DEF SInv, QInv, LInv, IInv
<1>1. ASSUME NEW l \in Loops \cup {None}, StartsLoop(l), run' = Started(l), ~Micro
      PROVE  MicroUp'
  <2>1. ASSUME NEW m \in Loops
        PROVE  ~InMicro(m)'
    <3>1. CASE m = l
      <4>1. run[l] = Idle /\ Started(l) = [run EXCEPT ![l].at = "sleeping"]
        BY <1>1, <2>1, <3>1 DEF StartsLoop, Started
      <4>2. Started(l)[l].at = "sleeping"
        BY <2>1, <3>1, <4>1 DEF Idle
      <4> QED
        BY <1>1, <3>1, <4>2 DEF InMicro
    <3>2. CASE m # l
      BY <1>1, <2>1, <3>2, StartedLinks DEF InMicro, Micro
    <3> QED
      BY <3>1, <3>2
  <2> QED
    BY <2>1 DEF MicroUp
<1>2. ASSUME NEW k \in Links, Drop(k)
      PROVE  MicroUp' /\ ConnectedClient'
  BY <1>1, <1>2 DEF Drop, Closed, ConnectedClient
<1>3. ASSUME NEW early \in BOOLEAN, ConnectFails(early)
      PROVE  MicroUp' /\ ConnectedClient'
  <2>1. CASE early
    BY <1>3, <2>1 DEF ConnectFails, MicroUp, InMicro, ConnectedClient
  <2>2. CASE ~early
    BY <1>1, <1>3, <2>2 DEF ConnectFails, Closed, ConnectedClient
  <2> QED
    BY <2>1, <2>2
<1>4. ASSUME NEW l \in Loops, NEW k \in Links, Attempt(l, k)
      PROVE  MicroUp' /\ ConnectedClient'
  <2>1. run'[l].at = "opening" /\ \A m \in Loops \ {l} : run'[m] = run[m]
    BY <1>4 DEF Attempt, GoodLoops, LoopType
  <2> QED
    BY <1>4, <2>1 DEF Attempt, MicroUp, InMicro, ConnectedClient
<1>5. ASSUME NEW l \in Loops, NEW early \in BOOLEAN, AttemptFails(l, early)
      PROVE  MicroUp' /\ ConnectedClient'
  <2>1. PICK n \in Loops \cup {None} :
          /\ StartsLoop(n) \/ n = None
          /\ \/ run' = [Started(n) EXCEPT ![l] = Idle]
             \/ run' = [Started(n) EXCEPT ![l] = [run[l] EXCEPT !.at = "sleeping", !.via = None]]
    BY <1>5 DEF AttemptFails
  <2>2. ~Micro /\ (connected' => connected) /\ client' = client
    BY <1>5 DEF AttemptFails
  <2>3. ASSUME NEW m \in Loops
        PROVE  ~InMicro(m)'
    <3>1. Started(n) \in [Loops -> GoodLoops]
      BY <2>1, StartedFacts DEF IInv, Started
    <3>2. CASE m = l
      BY <2>1, <2>3, <3>1, <3>2, LoopRecords DEF InMicro
    <3>3. CASE m # l
      <4>1. run'[m] = Started(n)[m]
        BY <2>1, <3>1, <3>3
      <4>2. Started(n)[m].at \notin {"rebuilt", "replayed"}
        <5>1. CASE n = None
          BY <2>2, <5>1 DEF Started, Micro
        <5>2. CASE n # None
          <6>1. StartsLoop(n)
            BY <2>1, <5>2
          <6>2. CASE m = n
            BY <6>1, <6>2, <5>2, StartedLinks DEF Started, IInv
          <6>3. CASE m # n
            BY <2>2, <6>1, <6>3, StartedLinks DEF Micro
          <6> QED
            BY <6>2, <6>3
        <5> QED
          BY <5>1, <5>2
      <4> QED
        BY <4>1, <4>2 DEF InMicro
    <3> QED
      BY <3>2, <3>3
  <2> QED
    BY <2>2, <2>3 DEF MicroUp, ConnectedClient
<1>6. ASSUME NEW l \in Loops, AttemptSucceeds(l)
      PROVE  MicroUp' /\ ConnectedClient'
  <2>1. run[l].via \in Links /\ client' = run[l].via /\ connected' = TRUE
    BY <1>6 DEF AttemptSucceeds, OwnLink
  <2> QED
    BY <2>1 DEF MicroUp, ConnectedClient
<1>7. ASSUME NEW l \in Loops, Replay(l) \/ Finish(l)
      PROVE  MicroUp' /\ ConnectedClient'
  <2>1. InMicro(l) /\ UNCHANGED <<connected, closing, client>> /\ \A m \in Loops \ {l} : run'[m] = run[m]
    BY <1>7 DEF Replay, Finish, InMicro
  <2> QED
    BY <2>1 DEF MicroUp, InMicro, ConnectedClient
<1>8. ASSUME NEW k \in Links, Connect(k)
      PROVE  MicroUp' /\ ConnectedClient'
  BY <1>8 DEF Connect, MicroUp, InMicro, ConnectedClient
<1>9. CASE ConnectOpens
  <2>1. api.via \in Links /\ client' = api.via /\ connected' = TRUE
    BY <1>9 DEF ConnectOpens, IInv
  <2> QED
    BY <2>1 DEF MicroUp, ConnectedClient
<1>10. ASSUME NEW dispose \in BOOLEAN, Disconnect(dispose)
       PROVE  MicroUp' /\ ConnectedClient'
  <2>1. closing = None /\ ~connected' /\ client' = client
    BY <1>10 DEF Disconnect
  <2>2. CASE connected
    BY <1>10, <2>1, <2>2 DEF Disconnect, MicroUp, ConnectedClient
  <2>3. CASE ~connected
    <3>1. \A m \in Loops : ~InMicro(m)
      BY <2>1, <2>3 DEF MicroUp
    <3>2. \A m \in Loops : run'[m] = Stopped(m) \/ run'[m] = run[m]
      BY <1>10 DEF Disconnect
    <3>3. ASSUME NEW m \in Loops
          PROVE  ~InMicro(m)'
      <4>1. run[m] \in LoopType /\ ~InMicro(m)
        BY <3>1 DEF GoodLoops
      <4>2. [run[m] EXCEPT !.cancelled = TRUE].at = run[m].at
        BY <4>1 DEF LoopType
      <4>3. Stopped(m).at \notin {"rebuilt", "replayed"}
        BY <4>1, <4>2 DEF Stopped, Idle, InMicro
      <4> QED
        BY <3>2, <4>1, <4>3 DEF InMicro
    <3> QED
      BY <2>1, <3>3 DEF MicroUp, ConnectedClient
  <2> QED
    BY <2>2, <2>3
<1>11. CASE CloseDone
  BY <1>11 DEF CloseDone, Micro, MicroUp, InMicro, ConnectedClient
<1>12. CASE UNCHANGED <<run, connected, closing, client>>
  BY <1>12 DEF MicroUp, InMicro, ConnectedClient
<1> QED
  BY <1>2, <1>3, <1>4, <1>5, <1>6, <1>7, <1>8, <1>9, <1>10, <1>11, <1>12
     DEF Next, LoopStep, Send, Answer, RequestFails, ConnectAgain, ReadResumes, ConnectEnds, vars

(* A loop that a stray's end starts is stray.                              *)
LEMMA StrayStarts ==
  ASSUME SInv, ~Micro, last = "disconnect", NEW x, NEW n \in Loops \cup {None},
         StartsLoop(n), n # None => x \in stray
  PROVE  \A m \in Loops : Started(n)[m].at # "idle" => m \in Heir(x, n)
<1>1. IInv
  BY DEF SInv, QInv, LInv
<1>2. \A m \in Loops : run[m].at # "idle" => m \in stray
  BY DEF SInv, Left, InMicro, Micro
<1> QED
  BY <1>1, <1>2, StartedLinks, HeirFacts DEF Started

LEMMA LeftStays ==
  ASSUME SInv, [Next]_vars
  PROVE  Left'
<1> /\ IInv /\ run \in [Loops -> GoodLoops] /\ None \notin Links /\ None \notin Loops
    /\ link \in [Links -> {"none", "opening", "open"}]
    /\ MicroUp /\ Left /\ ConnectedClient /\ OwnLink
  BY NoneAssumption DEF SInv, QInv, LInv, IInv, TypeOK
<1> SUFFICES ASSUME last' = "disconnect"
             PROVE  Left'
  BY DEF Left
<1>1. ASSUME NEW k \in Links, Drop(k)
      PROVE  Left'
  <2>1. PICK l \in Loops \cup {None} : /\ StartsLoop(l) /\ Closed(k, l) /\ run' = Started(l)
                                       /\ stray' = Heir(k, l)
    BY <1>1 DEF Drop
  <2>2. ~Micro /\ link[k] = "open" /\ last = "disconnect" /\ closing' = closing /\ ~connected'
    BY <1>1, <2>1 DEF Drop, Closed
  <2>3. l # None => k \in stray
    BY <2>1, <2>2 DEF StartsLoop, Unsolicited, Left
  <2>4. \A m \in Loops : run'[m].at # "idle" => m \in stray'
    BY <2>1, <2>2, <2>3, StrayStarts
  <2>5. \A j \in Links : link'[j] # "none" => link[j] # "none"
    BY <2>1 DEF Closed
  <2> QED
    BY <2>1, <2>2, <2>4, <2>5, HeirFacts DEF Left
<1>2. ASSUME NEW early \in BOOLEAN, ConnectFails(early)
      PROVE  Left'
  <2>1. /\ ~Micro /\ api.at = "opening" /\ last = "disconnect" /\ UNCHANGED <<client, closing>>
        /\ connected' => connected
    BY <1>2 DEF ConnectFails, Closed
  <2>2. api.via \in Links /\ link[api.via] = "opening"
    BY <2>1 DEF IInv, OwnLink
  <2>3. link' = [link EXCEPT ![api.via] = "none"]
    BY <1>2 DEF ConnectFails, Closed
  <2>4. \A j \in Links : link'[j] # "none" => link[j] # "none"
    BY <2>2, <2>3
  <2>5. CASE early
    <3>1. UNCHANGED <<run, stray>>
      BY <1>2, <2>5 DEF ConnectFails
    <3> QED
      BY <2>1, <2>4, <3>1 DEF Left, InMicro
  <2>6. CASE ~early
    <3>1. PICK l \in Loops \cup {None} : StartsLoop(l) /\ run' = Started(l) /\ stray' = Heir(api.via, l)
      BY <1>2, <2>6 DEF ConnectFails
    <3>2. l # None => api.via \in stray
      BY <2>1, <2>2, <3>1 DEF StartsLoop, Unsolicited, Left
    <3>3. \A m \in Loops : run'[m].at # "idle" => m \in stray'
      BY <2>1, <3>1, <3>2, StrayStarts
    <3> QED
      BY <2>1, <2>4, <3>1, <3>3, HeirFacts DEF Left
  <2> QED
    BY <2>5, <2>6
<1>3. ASSUME NEW l \in Loops, NEW k \in Links, Attempt(l, k)
      PROVE  Left'
  <2>1. /\ ~Micro /\ run[l].at = "sleeping" /\ last = "disconnect" /\ UNCHANGED <<client, closing, connected>>
        /\ link' = [link EXCEPT ![k] = "opening"] /\ stray' = Heir(l, k)
    BY <1>3 DEF Attempt, apiVars
  <2>2. l \in stray
    BY <2>1 DEF Left, InMicro
  <2>3. k \in stray' /\ stray \subseteq stray'
    BY <2>1, <2>2, HeirFacts
  <2>4. \A m \in Loops \ {l} : run'[m] = run[m]
    BY <1>3 DEF Attempt
  <2> QED
    BY <2>1, <2>2, <2>3, <2>4 DEF Left, InMicro
<1>4. ASSUME NEW l \in Loops, NEW early \in BOOLEAN, AttemptFails(l, early)
      PROVE  Left'
  <2> DEFINE r == [run[l] EXCEPT !.at = "sleeping", !.via = None]
  <2>1. PICK n \in Loops \cup {None} :
          /\ IF early THEN n = None ELSE StartsLoop(n)
          /\ run' = [Started(n) EXCEPT ![l] = Idle] \/ run' = [Started(n) EXCEPT ![l] = r]
          /\ stray' = Heir(l, n)
    BY <1>4 DEF AttemptFails
  <2>2. /\ ~Micro /\ run[l].at = "opening" /\ last = "disconnect" /\ UNCHANGED <<client, closing>>
        /\ (connected' => connected) /\ link' = [link EXCEPT ![run[l].via] = "none"]
    BY <1>4 DEF AttemptFails, apiVars
  <2>3. l \in stray
    BY <2>2 DEF Left, InMicro
  <2>4. \A m \in Loops : Started(n)[m].at # "idle" => m \in stray'
    <3>1. CASE n = None
      <4>1. Started(n) = run
        BY <3>1 DEF Started
      <4> QED
        BY <2>1, <2>2, <4>1, HeirFacts DEF Left, InMicro, Micro
    <3>2. CASE n # None
      BY <2>1, <2>2, <2>3, <3>2, StrayStarts
    <3> QED
      BY <3>1, <3>2
  <2>5. \A m \in Loops : run'[m].at # "idle" => m \in stray'
    <3>0. Started(n) \in [Loops -> GoodLoops]
      BY <1>4, <2>1, StartedFacts DEF IInv, Started
    <3>1. \A m \in Loops \ {l} : run'[m] = Started(n)[m]
      BY <2>1, <3>0
    <3>2. l \in stray'
      BY <2>1, <2>3, HeirFacts
    <3> QED
      BY <2>4, <3>1, <3>2
  <2>6. \A j \in Links : link'[j] # "none" => link[j] # "none"
    BY <2>2
  <2> QED
    BY <2>1, <2>2, <2>5, <2>6, HeirFacts DEF Left
<1>5. ASSUME NEW l \in Loops, AttemptSucceeds(l)
      PROVE  Left'
  <2>1. /\ ~Micro /\ run[l].at = "opening" /\ last = "disconnect" /\ UNCHANGED <<closing, stray>>
        /\ client' = run[l].via /\ link' = [link EXCEPT ![run[l].via] = "open"]
        /\ \A m \in Loops \ {l} : run'[m] = run[m]
    BY <1>5 DEF AttemptSucceeds, apiVars, history
  <2>2. run[l].via \in Links /\ link[run[l].via] = "opening" /\ l \in stray
    BY <2>1 DEF OwnLink, Left, InMicro
  <2>3. run[l].via \in stray
    BY <2>1, <2>2 DEF Left, SInv, QInv, LInv, ClosingOpen
  <2> QED
    BY <2>1, <2>2, <2>3 DEF Left, InMicro
<1>6. ASSUME NEW l \in Loops, Replay(l) \/ Finish(l)
      PROVE  Left'
  <2>1. /\ InMicro(l) /\ UNCHANGED <<connected, closing, client, link, stray, last>>
        /\ (InMicro(l)' \/ run'[l].at = "idle") /\ \A m \in Loops \ {l} : run'[m] = run[m]
    BY <1>6, LoopRecords DEF Replay, Finish, InMicro, apiVars, history, GoodLoops, LoopType
  <2> QED
    BY <2>1 DEF Left, InMicro
<1>7. CASE ConnectOpens
  <2>1. /\ api.at = "opening" /\ last = "disconnect" /\ UNCHANGED <<closing, run, stray>>
        /\ client' = api.via /\ link' = [link EXCEPT ![api.via] = "open"]
    BY <1>7 DEF ConnectOpens, history
  <2>2. api.via \in Links /\ link[api.via] = "opening"
    BY <2>1 DEF IInv, OwnLink
  <2>3. api.via \in stray
    BY <2>1, <2>2 DEF Left, SInv, QInv, LInv, ClosingOpen
  <2> QED
    BY <2>1, <2>2, <2>3 DEF Left, InMicro
<1>8. ASSUME NEW dispose \in BOOLEAN, Disconnect(dispose)
      PROVE  Left'
  <2>1. /\ closing = None /\ ~connected' /\ UNCHANGED <<client, link>> /\ stray' = Unreached
        /\ run' = [l \in Loops |-> IF l = active THEN Stopped(l) ELSE run[l]]
    BY <1>8 DEF Disconnect
  <2>2. \A k \in Links : link[k] # "none" => k \in stray' \/ k = closing'
    BY <1>8, <2>1 DEF Disconnect, Unreached, ConnectedClient
  <2>3. ASSUME NEW l \in Loops, run'[l].at # "idle"
        PROVE  l \in stray' \/ (closing' # None /\ InMicro(l)')
    <3>1. CASE l # active
      BY <2>1, <2>3, <3>1 DEF Unreached, Running
    <3>2. CASE l = active
      <4>1. run'[l] = Stopped(l) /\ run[l] \in LoopType
        BY <2>1, <3>2 DEF GoodLoops
      <4>2. CASE run[l].at = "opening"
        BY <2>1, <4>2 DEF Unreached, Running
      <4>3. CASE run[l].at \in {"idle", "sleeping"}
        BY <2>3, <4>1, <4>3, LoopRecords DEF Stopped
      <4>4. CASE InMicro(l)
        <5>1. connected
          BY <2>1, <4>4 DEF MicroUp
        <5>2. closing' # None
          BY <1>8, <5>1 DEF Disconnect, ConnectedClient
        <5>3. run'[l] = run[l]
          BY <4>1, <4>4 DEF Stopped, InMicro
        <5> QED
          BY <4>4, <5>2, <5>3 DEF InMicro
      <4> QED
        BY <4>1, <4>2, <4>3, <4>4 DEF InMicro, LoopType
    <3> QED
      BY <3>1, <3>2
  <2> QED
    BY <2>1, <2>2, <2>3 DEF Left
<1>9. CASE CloseDone
  <2>1. /\ ~Micro /\ ~connected' /\ last = "disconnect" /\ UNCHANGED <<run, stray>>
        /\ link' = [link EXCEPT ![closing] = "none"] /\ closing \in Links
    BY <1>9 DEF CloseDone, history, IInv, TypeOK
  <2>2. \A k \in Links : link'[k] # "none" => k \in stray
    BY <2>1 DEF Left
  <2>3. \A l \in Loops : run[l].at # "idle" => l \in stray
    BY <2>1 DEF Left, Micro, InMicro
  <2> QED
    BY <2>1, <2>2, <2>3 DEF Left
<1>10. ASSUME NEW k \in Links, Connect(k)
       PROVE  Left'
  BY <1>10 DEF Connect
<1>11. CASE UNCHANGED <<run, link, connected, closing, client, stray, last>>
  BY <1>11 DEF Left, InMicro
<1> QED
  BY <1>1, <1>2, <1>3, <1>4, <1>5, <1>6, <1>7, <1>8, <1>9, <1>10, <1>11
     DEF Next, LoopStep, Send, Answer, RequestFails, ConnectAgain, ReadResumes, ConnectEnds,
         vars, apiVars, history

(* Who is calm leaves nothing that cannot be reached.                      *)
LEMMA CalmLeavesNone ==
  ASSUME SInv, [Next]_vars, ~rash'
  PROVE  stray' = {}
<1>1. rash => rash'
  BY DEF Next, LoopStep, Send, Answer, RequestFails, Drop, Connect, Attempt, AttemptFails,
         AttemptSucceeds, Replay, Finish, ConnectFails, ConnectAgain, ConnectOpens, ReadResumes,
         ConnectEnds, Disconnect, CloseDone, vars, history
<1>2. stray = {} /\ PInv
  BY <1>1 DEF SInv, QInv
<1>3. ASSUME NEW dispose \in BOOLEAN, Disconnect(dispose)
      PROVE  stray' = {}
  <2>1. closing = None /\ api.at # "opening" /\ \A l \in Loops : run[l].at \in {"idle", "sleeping"}
    BY <1>2, <1>3, CalmFacts
  <2>2. \A l \in Running : run[l].at # "opening" /\ l = active
    BY <1>2, <2>1 DEF Running, PInv, SoleLoop
  <2>3. \A k \in Links : link[k] # "none" => connected /\ k = client
    <3>1. \A k \in Links : k # None /\ link[k] \in {"none", "opening", "open"}
      BY <1>2, NoneAssumption DEF PInv, LInv, IInv, TypeOK
    <3> QED
      BY <1>2, <2>1, <3>1 DEF PInv, SoleLink
  <2>4. stray' = Unreached
    BY <1>3 DEF Disconnect
  <2> QED
    BY <2>2, <2>3, <2>4 DEF Unreached
<1>4. CASE \E x, y : stray' = Heir(x, y)
  BY <1>2, <1>4, HeirFacts
<1>5. CASE stray' = stray
  BY <1>2, <1>5
<1>6. ASSUME NEW k \in Links, Connect(k)
      PROVE  stray' = {}
  BY <1>6 DEF Connect
<1>7. ASSUME NEW early \in BOOLEAN, ConnectFails(early)
      PROVE  stray' = {}
  BY <1>4, <1>5, <1>7 DEF ConnectFails
<1>8. ASSUME NEW l \in Loops, NEW early \in BOOLEAN, AttemptFails(l, early)
      PROVE  stray' = {}
  BY <1>4, <1>8 DEF AttemptFails
<1>9. ASSUME NEW k \in Links, Drop(k) \/ \E l \in Loops : Attempt(l, k)
      PROVE  stray' = {}
  BY <1>4, <1>9 DEF Drop, Attempt
<1> QED
  BY <1>3, <1>5, <1>6, <1>7, <1>8, <1>9
     DEF Next, LoopStep, Send, Answer, RequestFails, AttemptSucceeds, Replay, Finish, ConnectAgain,
         ConnectOpens, ReadResumes, ConnectEnds, CloseDone, vars, history

LEMMA InitSInv == Init => SInv
<1> SUFFICES ASSUME Init
             PROVE  SInv
  OBVIOUS
<1>1. QInv
  BY InitPInv, InitLInv DEF QInv
<1> QED
  BY <1>1 DEF SInv, Init, MicroUp, InMicro, Idle, Left, ConnectedClient

(* Whoever calls disconnect() or dispose(), and when: once it resolved,    *)
(* what still runs or is open was out of its reach, a handshake under way  *)
(* above all, or came of that; and of a consumer who has not been rash     *)
(* nothing is left at all.                                                 *)
THEOREM NothingLeft == Spec => []DisconnectSticks
<1>1. SInv /\ [Next]_vars => SInv'
  BY StepQInv, MicroStays, LeftStays, CalmLeavesNone DEF SInv
<1>2. SInv => DisconnectSticks
  <2> SUFFICES ASSUME SInv
               PROVE  DisconnectSticks
    OBVIOUS
  <2>1. Left /\ (~rash => stray = {}) /\ \A k \in Links : k # None
    BY NoneAssumption DEF SInv
  <2>2. ASSUME last = "disconnect", closing = None
        PROVE  Running \subseteq stray /\ \A k \in Links : link[k] # "none" => k \in stray
    BY <2>1, <2>2 DEF Left, Running
  <2> QED
    BY <2>1, <2>2 DEF Left, DisconnectSticks
<1> QED
  BY <1>1, <1>2, InitSInv, PTL DEF Spec
=============================================================================
