------------------------------ MODULE Jobs_proofs ------------------------------
(***************************************************************************)
(* Theorems of module Jobs, for every number of jobs and cancel calls and  *)
(* every setting of the environment.  The inductive invariant says that    *)
(* only a recorded submission has a row, that a prompt runs at most once,  *)
(* that no submission is in flight while the server starts, and hence that *)
(* what ComfyUI holds when the queue answer is applied is in that answer.  *)
(* On it rest that ended jobs stay ended, that each end is announced and   *)
(* that no row waits for an end the server has not missed.                 *)
(***************************************************************************)
EXTENDS Jobs, TLAPS

InFlightReqs == {"posted", "first", "behind"}

RowsRecorded == \A j \in Jobs : row[j] # "none" => req[j] = "recorded"

QuietStart == phase # "up" => \A j \in Jobs : req[j] \notin InFlightReqs

AnswerCovers == phase = "polled" => \A j \in Jobs : Held(j) => j \in polled

CallsRecorded == \A x \in Calls :
  call[x].at \in {"sent", "applied"} => call[x].job \in Jobs /\ req[call[x].job] = "recorded"

PromptsOnce ==
  /\ active \notin waiting
  /\ \A j \in Jobs : req[j] \in {"no", "posted"} => ~Held(j) /\ fate[j] = "none"
  /\ \A j \in Jobs : Held(j) => fate[j] = "none"
  /\ \A e \in wire : fate[e[1]] # "none"

IInv == /\ TypeOK /\ RowsRecorded /\ QuietStart /\ AnswerCovers /\ CallsRecorded
        /\ PromptsOnce

LEMMA InitIInv == Init => IInv
  BY JobParameters
     DEF Init, IInv, TypeOK, RowsRecorded, QuietStart, AnswerCovers, CallsRecorded, PromptsOnce, Held, NoCall,
         Live, Ended

(* Appending one outcome keeps the published events a sequence.            *)
LEMMA PublishType ==
  ASSUME TypeOK, NEW j \in Jobs, NEW o \in {"success", "failure", "cancelled"},
         Publish(j, o)
  PROVE  outcomes' \in [Jobs -> Seq({"success", "failure", "cancelled"})]
<1> DEFINE Outcome == {"success", "failure", "cancelled"}
<1>1. outcomes[j] \in Seq(Outcome)
  BY DEF TypeOK
<1>2. Append(outcomes[j], o) \in Seq(Outcome)
  BY <1>1
<1> QED
  BY <1>2 DEF TypeOK, Publish

LEMMA UsedType ==
  ASSUME NEW u \in [drops : Nat, restarts : Nat]
  PROVE  /\ [u EXCEPT !.drops = @ + 1] \in [drops : Nat, restarts : Nat]
         /\ [u EXCEPT !.restarts = @ + 1] \in [drops : Nat, restarts : Nat]
<1>1. u.drops + 1 \in Nat /\ u.restarts + 1 \in Nat
  OBVIOUS
<1> QED
  BY <1>1

Core == TypeOK /\ RowsRecorded /\ QuietStart /\ AnswerCovers /\ CallsRecorded

(* submit and its answer.                                                  *)
LEMMA SubmitStep ==
  ASSUME IInv, NEW j \in Jobs, Submit(j) \/ Accept(j) \/ Reject(j) \/ Record(j)
  PROVE  Core'
<1> USE DEF IInv, Core, comfy, link, boot
<1>1. CASE Submit(j)
  BY <1>1 DEF Submit, TypeOK, RowsRecorded, QuietStart, AnswerCovers, CallsRecorded, Held, InFlightReqs
<1>2. CASE Accept(j)
  <2>1. phase = "up"
    BY <1>2 DEF Accept, QuietStart, InFlightReqs
  <2> QED
    BY <1>2, <2>1 DEF Accept, TypeOK, RowsRecorded, QuietStart, AnswerCovers, CallsRecorded
<1>3. CASE Reject(j)
  BY <1>3 DEF Reject, TypeOK, RowsRecorded, QuietStart, AnswerCovers, CallsRecorded, Held, InFlightReqs
<1>4. CASE Record(j)
  BY <1>4 DEF Record, TypeOK, RowsRecorded, QuietStart, AnswerCovers, CallsRecorded, Held, Live, InFlightReqs
<1> QED
  BY <1>1, <1>2, <1>3, <1>4

(* ComfyUI starts and ends prompts.                                        *)
LEMMA ComfyStep ==
  ASSUME IInv, NEW j \in Jobs,
         Run(j) \/ PromptDone(j) \/ PromptError(j)
  PROVE  Core'
<1> USE DEF IInv, Core, comfy, link, boot
<1>1. CASE Run(j)
  BY <1>1 DEF Run, TypeOK, RowsRecorded, QuietStart, AnswerCovers, CallsRecorded, Held
<1>2. CASE PromptDone(j) \/ PromptError(j)
  <2>1. PICK how \in {"done", "error"}, kind \in {"executed", "execution_error"} :
          PromptEnds(j, how, kind)
    BY <1>2 DEF PromptDone, PromptError
  <2>2. /\ wire' \in SUBSET (Jobs \X {"executed", "execution_error"})
        /\ unheard' \in SUBSET Jobs
    BY <2>1 DEF PromptEnds, Emit, TypeOK
  <2>3. TypeOK'
    BY <2>1, <2>2 DEF PromptEnds, TypeOK
  <2>4. AnswerCovers'
    BY <2>1, JobParameters DEF PromptEnds, AnswerCovers, CallsRecorded, Held
  <2> QED
    BY <2>1, <2>3, <2>4 DEF PromptEnds, RowsRecorded, QuietStart, CallsRecorded
<1> QED
  BY <1>1, <1>2

LEMMA SocketStep ==
  ASSUME IInv, Drop \/ Attach
  PROVE  Core'
<1> USE DEF IInv, Core, comfy, link, boot
<1>3. CASE Drop
  <2>1. used' \in [drops : Nat, restarts : Nat]
    BY <1>3, UsedType DEF Drop, TypeOK
  <2>2. unheard' \in SUBSET Jobs
    BY <1>3 DEF Drop, OnWire, TypeOK
  <2> QED
    BY <1>3, <2>1, <2>2 DEF Drop, TypeOK, RowsRecorded, QuietStart, AnswerCovers, CallsRecorded, Held
<1>4. CASE Attach
  BY <1>4 DEF Attach, TypeOK, RowsRecorded, QuietStart, AnswerCovers, CallsRecorded, Held
<1> QED
  BY <1>3, <1>4

(* The event handlers.                                                     *)
LEMMA EventStep ==
  ASSUME IInv, NEW j \in Jobs,
         OnExecuted(j) \/ OnError(j) \/ FetchDone(j) \/ FetchFails(j)
  PROVE  Core'
<1> USE DEF IInv, Core, comfy, link, boot
<1>1. CASE OnExecuted(j)
  <2>1. /\ row' \in [Jobs -> {"none"} \cup Live \cup Ended] /\ RowsRecorded'
        /\ fetching' \in SUBSET Jobs
    <3>1. CASE row[j] = "none"
      BY <1>1, <3>1 DEF OnExecuted, TypeOK, RowsRecorded
    <3>2. CASE row[j] # "none"
      <4>1. row' = [row EXCEPT ![j] = "completed"] /\ req' = req
        BY <1>1, <3>2 DEF OnExecuted
      <4>2. fetching' = fetching \cup {j}
        BY <1>1, <3>2 DEF OnExecuted
      <4>3. fetching' \in SUBSET Jobs
        BY <4>2 DEF TypeOK
      <4> QED
        BY <4>1, <4>3, <3>2 DEF TypeOK, RowsRecorded, Ended
    <3> QED
      BY <3>1, <3>2
  <2>2. wire' \in SUBSET (Jobs \X {"executed", "execution_error"})
    BY <1>1 DEF OnExecuted, Receive, TypeOK
  <2>3. unheard' \in SUBSET Jobs
    BY <1>1 DEF OnExecuted, TypeOK
  <2>4. TypeOK'
    BY <1>1, <2>1, <2>2, <2>3 DEF OnExecuted, TypeOK
  <2> QED
    BY <1>1, <2>1, <2>4 DEF OnExecuted, QuietStart, AnswerCovers, Held, CallsRecorded
<1>2. CASE OnError(j)
  <2>1. outcomes' \in [Jobs -> Seq({"success", "failure", "cancelled"})]
    BY <1>2, PublishType DEF OnError, TypeOK
  <2>2. row' \in [Jobs -> {"none"} \cup Live \cup Ended] /\ RowsRecorded'
    BY <1>2 DEF OnError, TypeOK, RowsRecorded, Ended
  <2>3. wire' \in SUBSET (Jobs \X {"executed", "execution_error"})
    BY <1>2 DEF OnError, Receive, TypeOK
  <2>4. unheard' \in SUBSET Jobs
    BY <1>2 DEF OnError, TypeOK
  <2>5. TypeOK'
    BY <1>2, <2>1, <2>2, <2>3, <2>4 DEF OnError, TypeOK
  <2> QED
    BY <1>2, <2>2, <2>5 DEF OnError, QuietStart, AnswerCovers, CallsRecorded, Held, CallsRecorded
<1>3. CASE FetchDone(j) \/ FetchFails(j)
  <2>1. outcomes' \in [Jobs -> Seq({"success", "failure", "cancelled"})]
    BY <1>3, PublishType DEF FetchDone, FetchFails
  <2> QED
    BY <1>3, <2>1 DEF FetchDone, FetchFails, TypeOK, RowsRecorded, QuietStart,
                      AnswerCovers, CallsRecorded, Held
<1> QED
  BY <1>1, <1>2, <1>3

CallType == [job : Jobs \cup {None}, mode : {"none", "interrupt", "dequeue"},
             at : {"no", "sent", "applied", "done"}, answer : BOOLEAN]

(* cancel.  A call that waits for ComfyUI is about a recorded job.         *)
LEMMA CancelStepKeeps ==
  ASSUME IInv, NEW x \in Calls,
         CancelStep(x) \/ \E j \in Jobs : Cancel(x, j)
  PROVE  Core'
<1> USE DEF IInv, Core, comfy, link, boot
<1>0. call \in [Calls -> CallType] /\ call[x] \in CallType
  BY DEF TypeOK, CallType
<1>1. ASSUME NEW j \in Jobs, Cancel(x, j)
      PROVE  Core'
  <2>1. call' \in [Calls -> CallType]
    BY <1>0, <1>1 DEF Cancel, CallType
  <2> QED
    BY <1>1, <2>1 DEF Cancel, TypeOK, CallType, RowsRecorded, QuietStart, AnswerCovers, CallsRecorded, Held
<1>2. CASE Interrupt(x)
  <2>1. call' \in [Calls -> CallType]
    BY <1>0, <1>2 DEF Interrupt, CallType
  <2>2. fate' \in [Jobs -> {"none", "done", "error", "stopped"}]
    BY <1>2 DEF Interrupt, TypeOK
  <2>3. AnswerCovers'
    BY <1>2, JobParameters DEF Interrupt, AnswerCovers, CallsRecorded, Held
  <2>4. unheard' \in SUBSET Jobs
    BY <1>2 DEF Interrupt, TypeOK
  <2> QED
    BY <1>2, <2>1, <2>2, <2>3, <2>4 DEF Interrupt, TypeOK, CallType, RowsRecorded, QuietStart, CallsRecorded
<1>3. CASE Dequeue(x)
  <2>1. call' \in [Calls -> CallType]
    BY <1>0, <1>3 DEF Dequeue, CallType
  <2>2. fate' \in [Jobs -> {"none", "done", "error", "stopped"}]
    BY <1>3 DEF Dequeue, TypeOK
  <2>3. AnswerCovers'
    BY <1>3 DEF Dequeue, AnswerCovers, CallsRecorded, Held
  <2> QED
    BY <1>3, <2>1, <2>2, <2>3 DEF Dequeue, TypeOK, CallType, RowsRecorded, QuietStart, CallsRecorded
<1>4. CASE CancelDone(x)
  <2>1. call[x].job \in Jobs /\ req[call[x].job] = "recorded"
    BY <1>4 DEF CancelDone, CallsRecorded
  <2>2. call' \in [Calls -> CallType]
    BY <1>0, <1>4 DEF CancelDone, CallType
  <2>3. outcomes' \in [Jobs -> Seq({"success", "failure", "cancelled"})]
    BY <1>4, <2>1, PublishType DEF CancelDone
  <2>4. row' \in [Jobs -> {"none"} \cup Live \cup Ended] /\ RowsRecorded'
    BY <1>4, <2>1 DEF CancelDone, TypeOK, RowsRecorded, Ended
  <2>5. CallsRecorded'
    BY <1>0, <1>4 DEF CancelDone, CallsRecorded, CallType
  <2>6. TypeOK'
    BY <1>4, <2>2, <2>3, <2>4 DEF CancelDone, TypeOK, CallType
  <2> QED
    BY <1>4, <2>4, <2>5, <2>6 DEF CancelDone, QuietStart, AnswerCovers, Held
<1>5. CASE CancelFails(x)
  <2>1. call' \in [Calls -> CallType]
    BY <1>0, <1>5 DEF CancelFails, CallType
  <2>2. unheard' \in SUBSET Jobs
    BY <1>5 DEF CancelFails, Stopped, TypeOK
  <2>3. TypeOK'
    BY <1>5, <2>1, <2>2 DEF CancelFails, TypeOK, CallType
  <2>4. CallsRecorded'
    BY <1>0, <1>5 DEF CancelFails, CallsRecorded, CallType
  <2> QED
    BY <1>5, <2>3, <2>4 DEF CancelFails, RowsRecorded, QuietStart, AnswerCovers, Held
<1>6. CASE CancelMisread(x)
  <2>1. call' \in [Calls -> CallType]
    BY <1>0, <1>6 DEF CancelMisread, CallType
  <2> QED
    BY <1>0, <1>6, <2>1 DEF CancelMisread, TypeOK, CallType, RowsRecorded, QuietStart, AnswerCovers,
                            CallsRecorded, Held
<1> QED
  BY <1>1, <1>2, <1>3, <1>4, <1>5, <1>6 DEF CancelStep

(* Restart, the poll of the queue and what is done with its answer.        *)
LEMMA BootStep ==
  ASSUME IInv, Restart \/ Poll \/ PollMisread \/ PollFails \/ Reconcile
  PROVE  Core'
<1> USE DEF IInv, Core, comfy, link, boot
<1>1. CASE Restart
  <2>1. used' \in [drops : Nat, restarts : Nat]
    BY <1>1, UsedType DEF Restart, TypeOK
  <2>2. call' \in [Calls -> CallType] /\ CallsRecorded'
    <3>1. call \in [Calls -> CallType]
      BY DEF TypeOK, CallType
    <3> QED
      BY <1>1, <3>1 DEF Restart, CallType, NoCall, CallsRecorded
  <2>3. req' \in [Jobs -> {"no", "posted", "first", "behind", "recorded", "gone"}]
    BY <1>1 DEF Restart, TypeOK
  <2>4. RowsRecorded' /\ QuietStart'
    BY <1>1 DEF Restart, RowsRecorded, QuietStart, InFlightReqs
  <2>5. unheard' \in SUBSET Jobs
    BY <1>1 DEF Restart, OnWire, Stopped, TypeOK
  <2> QED
    BY <1>1, <2>1, <2>2, <2>3, <2>4, <2>5 DEF Restart, TypeOK, CallType, AnswerCovers
<1>2. CASE Poll \/ PollMisread \/ PollFails
  BY <1>2 DEF Poll, PollMisread, PollFails, TypeOK, RowsRecorded, QuietStart, AnswerCovers, CallsRecorded, Held
<1>3. CASE Reconcile
  BY <1>3 DEF Reconcile, TypeOK, RowsRecorded, QuietStart, AnswerCovers, CallsRecorded, Live, Ended
<1> QED
  BY <1>1, <1>2, <1>3

(* A prompt is queued once, runs once and is reported once.                *)
LEMMA PromptsOnceStep ==
  ASSUME IInv, Next
  PROVE  PromptsOnce'
<1> USE DEF IInv, PromptsOnce, comfy, link, boot
<1>0. None \notin Jobs
  BY JobParameters
<1>1. ASSUME NEW j \in Jobs, Submit(j) \/ Reject(j) \/ Record(j)
      PROVE  PromptsOnce'
  BY <1>1 DEF Submit, Reject, Record, Held, TypeOK
<1>2. ASSUME NEW j \in Jobs, Accept(j)
      PROVE  PromptsOnce'
  BY <1>0, <1>2 DEF Accept, Held, TypeOK
<1>3. ASSUME NEW j \in Jobs, Run(j)
      PROVE  PromptsOnce'
  BY <1>3 DEF Run, Held, TypeOK
<1>4. ASSUME NEW j \in Jobs, PromptDone(j) \/ PromptError(j)
      PROVE  PromptsOnce'
  <2>1. PICK how \in {"done", "error"}, kind \in {"executed", "execution_error"} :
          PromptEnds(j, how, kind)
    BY <1>4 DEF PromptDone, PromptError
  <2>2. /\ active = j /\ active' = None /\ waiting' = waiting /\ req' = req
        /\ fate' = [fate EXCEPT ![j] = how] /\ fate'[j] # "none"
    BY <2>1 DEF PromptEnds, TypeOK
  <2>3. \A e \in wire' : fate'[e[1]] # "none"
    <3>1. wire' \subseteq wire \cup {<<j, kind>>}
      BY <2>1 DEF PromptEnds, Emit
    <3>2. \A e \in wire : e[1] \in Jobs
      BY DEF TypeOK
    <3> QED
      BY <2>2, <3>1, <3>2 DEF TypeOK
  <2> QED
    BY <1>0, <2>2, <2>3 DEF Held, TypeOK
<1>5. ASSUME NEW j \in Jobs, OnExecuted(j) \/ OnError(j) \/ FetchDone(j) \/ FetchFails(j)
      PROVE  PromptsOnce'
  BY <1>5 DEF OnExecuted, OnError, FetchDone, FetchFails, Receive, Held
<1>6. ASSUME NEW x \in Calls, NEW j \in Jobs, Cancel(x, j)
      PROVE  PromptsOnce'
  BY <1>6 DEF Cancel, Held
<1>7. ASSUME NEW x \in Calls, Interrupt(x)
      PROVE  PromptsOnce'
  <2>1. /\ active' = None /\ waiting' = waiting /\ req' = req /\ wire' = wire
        /\ fate' = [j \in Jobs |-> IF active = j THEN "stopped" ELSE fate[j]]
    BY <1>7 DEF Interrupt
  <2>2. \A e \in wire : e[1] \in Jobs
    BY DEF TypeOK
  <2>3. waiting \subseteq Jobs
    BY DEF TypeOK
  <2> QED
    BY <1>0, <2>1, <2>2, <2>3 DEF Held
<1>8. ASSUME NEW x \in Calls, Dequeue(x)
      PROVE  PromptsOnce'
  <2> DEFINE k == call[x].job
  <2>1. /\ active' = active /\ waiting' = waiting \ {k} /\ req' = req /\ wire' = wire
        /\ fate' = IF k \in waiting THEN [fate EXCEPT ![k] = "stopped"] ELSE fate
    BY <1>8 DEF Dequeue
  <2>2. \A e \in wire : e[1] \in Jobs
    BY DEF TypeOK
  <2> HIDE DEF k
  <2>3. CASE k \in waiting
    BY <2>1, <2>2, <2>3 DEF Held, TypeOK
  <2>4. CASE k \notin waiting
    BY <2>1, <2>2, <2>4 DEF Held
  <2> QED
    BY <2>3, <2>4
<1>9. ASSUME NEW x \in Calls, CancelMisread(x) \/ CancelDone(x) \/ CancelFails(x)
      PROVE  PromptsOnce'
  BY <1>9 DEF CancelMisread, CancelDone, CancelFails, Held
<1>10. CASE Drop \/ Attach \/ Poll \/ PollMisread \/ PollFails \/ Reconcile
  BY <1>10 DEF Drop, Attach, Poll, PollMisread, PollFails, Reconcile, Held
<1>11. CASE Restart
  <2>1. \A j \in Jobs : req'[j] \in {"no", "posted"} => req[j] \in {"no", "posted"}
    BY <1>11 DEF Restart
  <2> QED
    BY <1>11, <2>1 DEF Restart, Held
<1> QED
  BY <1>1, <1>2, <1>3, <1>4, <1>5, <1>6, <1>7, <1>8, <1>9, <1>10, <1>11
     DEF Next, ComfyUI, Server, CancelStep

LEMMA StepIInv == IInv /\ [Next]_vars => IInv'
<1> SUFFICES ASSUME IInv, [Next]_vars PROVE IInv'
  OBVIOUS
<1>1. CASE Next
  <2>1. Core'
    <3>1. CASE \E j \in Jobs : Submit(j) \/ Reject(j) \/ ComfyUI(j) \/ Server(j)
      BY <3>1, SubmitStep, ComfyStep, EventStep DEF ComfyUI, Server
    <3>2. CASE \E x \in Calls : CancelStep(x) \/ \E j \in Jobs : Cancel(x, j)
      BY <3>2, CancelStepKeeps
    <3>3. CASE Drop \/ Attach
      BY <3>3, SocketStep
    <3>4. CASE Restart \/ Poll \/ PollMisread \/ PollFails \/ Reconcile
      BY <3>4, BootStep
    <3> QED
      BY <1>1, <3>1, <3>2, <3>3, <3>4 DEF Next
  <2> QED
    BY <1>1, <2>1, PromptsOnceStep DEF IInv, Core
<1>2. CASE UNCHANGED vars
  BY <1>2 DEF vars, IInv, TypeOK, RowsRecorded, QuietStart, AnswerCovers, CallsRecorded,
              PromptsOnce, Held
<1> QED
  BY <1>1, <1>2

LEMMA Invariance == Spec => []IInv
  BY InitIInv, StepIInv, PTL DEF Spec

-----------------------------------------------------------------------------
(* Every variable keeps its type in every reachable state.                 *)
THEOREM TypeCorrect == Spec => []TypeOK
<1>1. IInv => TypeOK
  BY DEF IInv
<1> QED
  BY <1>1, Invariance, PTL

(* reconcileOnStartup never gives up a job ComfyUI still holds: nothing is *)
(* submitted between the queue answer and the update it decides.           *)
THEOREM ReconcileSpares == Spec => ReconcileSparesHeld
<1> DEFINE Spares == \A j \in Jobs :
      phase = "polled" /\ row[j] \in Live /\ Held(j) => row'[j] # "failed"
<1>1. IInv /\ [Next]_vars => [Spares]_vars
  <2> SUFFICES ASSUME IInv, Next, NEW j \in Jobs,
                      phase = "polled", row[j] \in Live, Held(j)
               PROVE  row'[j] # "failed"
    BY DEF Live
  <2>1. j \in polled /\ req[j] = "recorded"
    BY DEF IInv, AnswerCovers, RowsRecorded, Live
  <2>2. <<j, "execution_error">> \notin wire
    BY DEF IInv, PromptsOnce
  <2>3. row[j] # "failed" /\ row \in [Jobs -> {"none"} \cup Live \cup Ended]
    BY DEF IInv, TypeOK, Live
  <2>4. ASSUME NEW k \in Jobs, Server(k)
        PROVE  row'[j] # "failed"
    BY <2>1, <2>2, <2>3, <2>4
       DEF Server, Record, OnExecuted, OnError, Receive, FetchDone, FetchFails
  <2>5. ASSUME NEW k \in Jobs, Submit(k) \/ Reject(k) \/ ComfyUI(k)
        PROVE  row'[j] # "failed"
    BY <2>3, <2>5 DEF Submit, Reject, ComfyUI, Accept, Run, PromptDone, PromptError, PromptEnds
  <2>6. ASSUME NEW x \in Calls, CancelStep(x) \/ \E k \in Jobs : Cancel(x, k)
        PROVE  row'[j] # "failed"
    BY <2>3, <2>6 DEF CancelStep, Cancel, Interrupt, Dequeue, CancelMisread, CancelDone, CancelFails
  <2>7. CASE Drop \/ Attach \/ Restart \/ Poll \/ PollMisread \/ PollFails \/ Reconcile
    BY <2>1, <2>3, <2>7 DEF Drop, Attach, Restart, Poll, PollMisread, PollFails, Reconcile
  <2> QED
    BY <2>4, <2>5, <2>6, <2>7 DEF Next
<1> QED
  BY <1>1, Invariance, PTL DEF Spec, ReconcileSparesHeld

(* No event, late answer or cancellation ever makes a job that has ended   *)
(* queued or running again.                                                *)
THEOREM EndedFinal == Spec => EndedStaysEnded
<1> DEFINE Final == \A j \in Jobs : row[j] \in Ended => row'[j] \in Ended
<1>1. IInv /\ [Next]_vars => [Final]_vars
  <2> SUFFICES ASSUME IInv, Next, NEW j \in Jobs, row[j] \in Ended
               PROVE  row'[j] \in Ended
    OBVIOUS
  <2>1. req[j] = "recorded" /\ row \in [Jobs -> {"none"} \cup Live \cup Ended]
    BY DEF IInv, RowsRecorded, TypeOK, Ended
  <2>2. ASSUME NEW k \in Jobs, Server(k)
        PROVE  row'[j] \in Ended
    BY <2>1, <2>2 DEF Server, Record, OnExecuted, OnError, FetchDone, FetchFails, Ended
  <2>3. ASSUME NEW k \in Jobs, Submit(k) \/ Reject(k) \/ ComfyUI(k)
        PROVE  row'[j] \in Ended
    BY <2>3 DEF Submit, Reject, ComfyUI, Accept, Run, PromptDone, PromptError, PromptEnds
  <2>4. ASSUME NEW x \in Calls, CancelStep(x) \/ \E k \in Jobs : Cancel(x, k)
        PROVE  row'[j] \in Ended
    BY <2>1, <2>4 DEF CancelStep, Cancel, Interrupt, Dequeue, CancelMisread, CancelDone, CancelFails, Ended
  <2>5. CASE Drop \/ Attach \/ Restart \/ Poll \/ PollMisread \/ PollFails \/ Reconcile
    BY <2>5 DEF Drop, Attach, Restart, Poll, PollMisread, PollFails, Reconcile, Ended, Live
  <2> QED
    BY <2>2, <2>3, <2>4, <2>5 DEF Next
<1> QED
  BY <1>1, Invariance, PTL DEF Spec, EndedStaysEnded

-----------------------------------------------------------------------------
(* That every end is announced.                                            *)

(* Before the first restart nothing starts, so no row is given up.         *)
FirstRun == used.restarts = 0 => phase = "up"

LEMMA OnlyTwoCount == ASSUME [Next]_vars PROVE used' = used \/ Drop \/ Restart
<1>1. ASSUME NEW j \in Jobs, Submit(j) \/ Reject(j) \/ ComfyUI(j) \/ Server(j)
      PROVE  used' = used
  BY <1>1 DEF Submit, Reject, ComfyUI, Accept, Run, PromptDone, PromptError, PromptEnds, Server,
              Record, OnExecuted, OnError, FetchDone, FetchFails
<1>2. ASSUME NEW x \in Calls, CancelStep(x) \/ \E j \in Jobs : Cancel(x, j)
      PROVE  used' = used
  BY <1>2 DEF CancelStep, Interrupt, Dequeue, CancelMisread, CancelDone, CancelFails, Cancel
<1>3. CASE Attach \/ Poll \/ PollMisread \/ PollFails \/ Reconcile \/ UNCHANGED vars
  BY <1>3 DEF Attach, Poll, PollMisread, PollFails, Reconcile, vars
<1> QED
  BY <1>1, <1>2, <1>3 DEF Next

LEMMA FirstRunStep == IInv /\ FirstRun /\ [Next]_vars => FirstRun'
<1> SUFFICES ASSUME IInv, FirstRun, [Next]_vars PROVE FirstRun'
  OBVIOUS
<1>1. used \in [drops : Nat, restarts : Nat]
  BY DEF IInv, TypeOK
<1>2. CASE Restart
  BY <1>1, <1>2 DEF Restart, FirstRun
<1>3. CASE Drop
  BY <1>1, <1>3 DEF Drop, FirstRun, boot
<1>4. ASSUME NEW j \in Jobs, Submit(j) \/ Reject(j) \/ ComfyUI(j) \/ Server(j)
      PROVE  FirstRun'
  BY <1>4 DEF Submit, Reject, ComfyUI, Accept, Run, PromptDone, PromptError, PromptEnds, Server,
              Record, OnExecuted, OnError, FetchDone, FetchFails, FirstRun, boot
<1>5. ASSUME NEW x \in Calls, CancelStep(x) \/ \E j \in Jobs : Cancel(x, j)
      PROVE  FirstRun'
  BY <1>5 DEF CancelStep, Interrupt, Dequeue, CancelMisread, CancelDone, CancelFails, Cancel, FirstRun, boot
<1>6. CASE Attach \/ Poll \/ PollMisread \/ PollFails \/ Reconcile
  BY <1>6 DEF Attach, Poll, PollMisread, PollFails, Reconcile, FirstRun, boot
<1>7. CASE UNCHANGED vars
  BY <1>7 DEF vars, FirstRun
<1> QED
  BY <1>2, <1>3, <1>4, <1>5, <1>6, <1>7 DEF Next

(* An announcement stands and the one that was made is there.              *)
LEMMA PublishAdds ==
  ASSUME TypeOK, NEW j \in Jobs, NEW o \in {"success", "failure", "cancelled"}, Publish(j, o)
  PROVE  /\ Published(j, o)'
         /\ \A k \in Jobs, p \in {"success", "failure", "cancelled"} :
              Published(k, p) => Published(k, p)'
<1> DEFINE Outcome == {"success", "failure", "cancelled"}
<1>1. outcomes \in [Jobs -> Seq(Outcome)]
  BY DEF TypeOK
<1>2. outcomes' = [outcomes EXCEPT ![j] = Append(outcomes[j], o)]
  BY DEF Publish
<1>3. /\ outcomes'[j] = Append(outcomes[j], o)
      /\ \A k \in Jobs : k # j => outcomes'[k] = outcomes[k]
  BY <1>1, <1>2
<1>4. outcomes[j] \in Seq(Outcome)
  BY <1>1
<1> DEFINE q == outcomes[j]
<1> HIDE DEF q
<1>5. q \in Seq(Outcome) /\ outcomes'[j] = Append(q, o)
  BY <1>3, <1>4 DEF q
<1>6. /\ DOMAIN q \subseteq DOMAIN Append(q, o) /\ Len(q) + 1 \in DOMAIN Append(q, o)
      /\ \A i \in DOMAIN q : Append(q, o)[i] = q[i]
      /\ Append(q, o)[Len(q) + 1] = o
  BY <1>5
<1>7. Published(j, o)'
  BY <1>5, <1>6 DEF Published
<1>8. ASSUME NEW k \in Jobs, NEW p \in Outcome, Published(k, p)
      PROVE  Published(k, p)'
  <2>1. CASE k = j
    BY <1>5, <1>6, <1>8, <2>1 DEF Published, q
  <2>2. CASE k # j
    BY <1>3, <1>8, <2>2 DEF Published
  <2> QED
    BY <2>1, <2>2
<1> QED
  BY <1>7, <1>8

(* What was published before a step is published after it.                 *)
LEMMA PublishedStays ==
  ASSUME IInv, [Next]_vars, NEW k \in Jobs, NEW p \in {"success", "failure", "cancelled"},
         Published(k, p)
  PROVE  Published(k, p)'
<1>0. TypeOK
  BY DEF IInv
<1>1. CASE outcomes' = outcomes
  BY <1>1 DEF Published
<1>2. ASSUME NEW j \in Jobs, NEW o \in {"success", "failure", "cancelled"}, Publish(j, o)
      PROVE  Published(k, p)'
  BY <1>0, <1>2, PublishAdds
<1>3. ASSUME NEW j \in Jobs, Server(j)
      PROVE  Published(k, p)'
  BY <1>1, <1>2, <1>3 DEF Server, Record, OnExecuted, OnError, FetchDone, FetchFails
<1>4. ASSUME NEW j \in Jobs, Submit(j) \/ Reject(j) \/ ComfyUI(j)
      PROVE  Published(k, p)'
  BY <1>1, <1>4 DEF Submit, Reject, ComfyUI, Accept, Run, PromptDone, PromptError, PromptEnds
<1>5. ASSUME NEW x \in Calls, CancelStep(x) \/ \E j \in Jobs : Cancel(x, j)
      PROVE  Published(k, p)'
  <2>1. CASE CancelDone(x)
    <3>1. call[x].job \in Jobs
      BY <2>1 DEF CancelDone, IInv, CallsRecorded
    <3> QED
      BY <1>2, <2>1, <3>1 DEF CancelDone
  <2> QED
    BY <1>1, <1>5, <2>1 DEF CancelStep, Interrupt, Dequeue, CancelMisread, CancelFails, Cancel
<1>6. CASE Drop \/ Attach \/ Restart \/ Poll \/ PollMisread \/ PollFails \/ Reconcile \/ UNCHANGED vars
  BY <1>1, <1>6 DEF Drop, Attach, Restart, Poll, PollMisread, PollFails, Reconcile, vars
<1> QED
  BY <1>3, <1>4, <1>5, <1>6 DEF Next

(* A job whose row a step leaves alone, and that is not taken off the      *)
(* fetcher without an announcement, is as well announced as before.        *)
Told(j) == /\ row[j] = "completed" => j \in fetching \/ Published(j, "success")
           /\ row[j] = "failed"    => Published(j, "failure")
           /\ row[j] = "cancelled" => Published(j, "cancelled")

LEMMA ToldStays ==
  ASSUME IInv, [Next]_vars, NEW j \in Jobs, Told(j), row'[j] = row[j],
         j \in fetching => j \in fetching' \/ Published(j, "success")'
  PROVE  Told(j)'
BY PublishedStays DEF Told

LEMMA ToldStep ==
  ASSUME IInv, FirstRun, EndAnnounced, [Next]_vars, used'.restarts = 0
  PROVE  \A j \in Jobs : Told(j)'
<1>1. used.restarts = 0 /\ phase = "up" /\ ~Restart /\ \A j \in Jobs : Told(j)
  <2>1. used \in [drops : Nat, restarts : Nat]
    BY DEF IInv, TypeOK
  <2>2. ~Restart
    BY <2>1 DEF Restart
  <2>3. used' = used \/ Drop
    BY <2>2, OnlyTwoCount
  <2>4. used.restarts = 0
    BY <2>1, <2>3 DEF Drop
  <2> QED
    BY <2>2, <2>4 DEF FirstRun, EndAnnounced, Told
<1> SUFFICES ASSUME NEW j \in Jobs PROVE Told(j)'
  OBVIOUS
<1>2. TypeOK /\ row \in [Jobs -> {"none"} \cup Live \cup Ended]
  BY DEF IInv, TypeOK
<1>3. ASSUME row' = row, fetching' = fetching
      PROVE  Told(j)'
  BY <1>1, <1>3, ToldStays
<1>4. ASSUME NEW k \in Jobs, OnExecuted(k)
      PROVE  Told(j)'
  <2>1. CASE row[k] = "none"
    BY <1>3, <1>4, <2>1 DEF OnExecuted
  <2>2. CASE row[k] # "none" /\ k = j
    <3>1. row'[j] = "completed" /\ j \in fetching'
      BY <1>2, <1>4, <2>2 DEF OnExecuted
    <3> QED
      BY <3>1 DEF Told
  <2>3. CASE row[k] # "none" /\ k # j
    <3>1. row'[j] = row[j] /\ fetching \subseteq fetching'
      BY <1>2, <1>4, <2>3 DEF OnExecuted
    <3> QED
      BY <1>1, <3>1, ToldStays
  <2> QED
    BY <2>1, <2>2, <2>3
<1>5. ASSUME NEW k \in Jobs, OnError(k)
      PROVE  Told(j)'
  <2>1. CASE row[k] = "none"
    BY <1>3, <1>5, <2>1 DEF OnError
  <2>2. CASE row[k] # "none" /\ k = j
    <3>1. row'[j] = "failed" /\ Publish(j, "failure")
      BY <1>2, <1>5, <2>2 DEF OnError
    <3> QED
      BY <1>2, <3>1, PublishAdds DEF Told
  <2>3. CASE row[k] # "none" /\ k # j
    <3>1. row'[j] = row[j] /\ fetching' = fetching
      BY <1>2, <1>5, <2>3 DEF OnError
    <3> QED
      BY <1>1, <3>1, ToldStays
  <2> QED
    BY <2>1, <2>2, <2>3
<1>6. ASSUME NEW k \in Jobs, FetchDone(k) \/ FetchFails(k)
      PROVE  Told(j)'
  <2>1. /\ row' = row /\ fetching' = fetching \ {k} /\ Publish(k, "success")
    BY <1>6 DEF FetchDone, FetchFails
  <2>2. Published(k, "success")'
    BY <1>2, <2>1, PublishAdds
  <2> QED
    BY <1>1, <2>1, <2>2, ToldStays
<1>7. ASSUME NEW k \in Jobs, Record(k)
      PROVE  Told(j)'
  <2>1. CASE k = j
    <3>1. row'[j] \in {"running", "queued"}
      BY <1>2, <1>7, <2>1 DEF Record
    <3> QED
      BY <3>1 DEF Told
  <2>2. CASE k # j
    <3>1. row'[j] = row[j] /\ fetching' = fetching
      BY <1>2, <1>7, <2>2 DEF Record
    <3> QED
      BY <1>1, <3>1, ToldStays
  <2> QED
    BY <2>1, <2>2
<1>8. ASSUME NEW x \in Calls, CancelDone(x)
      PROVE  Told(j)'
  <2>1. call[x].job \in Jobs
    BY <1>8 DEF CancelDone, IInv, CallsRecorded
  <2>2. CASE call[x].job = j
    <3>1. row'[j] = "cancelled" /\ Publish(j, "cancelled")
      BY <1>2, <1>8, <2>2 DEF CancelDone
    <3> QED
      BY <1>2, <3>1, PublishAdds DEF Told
  <2>3. CASE call[x].job # j
    <3>1. row'[j] = row[j] /\ fetching' = fetching
      BY <1>2, <1>8, <2>1, <2>3 DEF CancelDone
    <3> QED
      BY <1>1, <3>1, ToldStays
  <2> QED
    BY <2>2, <2>3
<1>9. ASSUME NEW k \in Jobs, Submit(k) \/ Reject(k) \/ ComfyUI(k)
      PROVE  Told(j)'
  BY <1>3, <1>9 DEF Submit, Reject, ComfyUI, Accept, Run, PromptDone, PromptError, PromptEnds
<1>10. ASSUME NEW x \in Calls,
              Interrupt(x) \/ Dequeue(x) \/ CancelMisread(x) \/ CancelFails(x) \/ \E k \in Jobs : Cancel(x, k)
       PROVE  Told(j)'
  BY <1>3, <1>10 DEF Interrupt, Dequeue, CancelMisread, CancelFails, Cancel
<1>11. CASE Drop \/ Attach \/ Poll \/ PollMisread \/ PollFails \/ UNCHANGED vars
  BY <1>3, <1>11 DEF Drop, Attach, Poll, PollMisread, PollFails, vars
<1>12. CASE Reconcile
  BY <1>1, <1>12 DEF Reconcile
<1> QED
  BY <1>1, <1>4, <1>5, <1>6, <1>7, <1>8, <1>9, <1>10, <1>11, <1>12 DEF Next, Server, CancelStep

(* Every end a row tells of has been announced, or its outputs are still   *)
(* being fetched, in whatever order cancel, error and executed handlers    *)
(* run, as long as no restart has cut one off.                             *)
THEOREM EndsTold == Spec => []EndAnnounced
<1>1. Init => FirstRun /\ EndAnnounced
  BY DEF Init, FirstRun, EndAnnounced
<1>2. IInv /\ FirstRun /\ EndAnnounced /\ [Next]_vars => EndAnnounced'
  BY ToldStep DEF EndAnnounced, Told
<1> QED
  BY <1>1, <1>2, FirstRunStep, Invariance, PTL DEF Spec

-----------------------------------------------------------------------------
(* That no row waits in vain.                                              *)

(* ComfyUI holds the prompt, its last event is under way, its own          *)
(* cancellation has stopped it, or its end has passed the server by.       *)
Followed(j) == \/ Held(j)
               \/ j \in OnWire
               \/ \E x \in Calls : call[x].job = j /\ call[x].at = "applied" /\ fate[j] = "stopped"
               \/ j \in unheard

(* Jobs whose row is queued or running or will be.                         *)
Expected(j) == \/ phase = "up" /\ (row[j] \in Live \/ req[j] \in {"first", "behind"})
               \/ phase = "starting" /\ row[j] \in Live
               \/ phase \in {"polled", "misread"} /\ row[j] \in Live /\ j \in polled

NoneMissed == \A j \in Jobs : Expected(j) => Followed(j)

LEMMA MissedStep == ASSUME IInv, NoneMissed, [Next]_vars PROVE NoneMissed'
<1>t. /\ row \in [Jobs -> {"none"} \cup Live \cup Ended]
      /\ req \in [Jobs -> {"no", "posted", "first", "behind", "recorded", "gone"}]
      /\ fate \in [Jobs -> {"none", "done", "error", "stopped"}]
      /\ waiting \subseteq Jobs /\ unheard \subseteq Jobs /\ OnWire \subseteq Jobs
      /\ call \in [Calls -> CallType]
      /\ None \notin Jobs
  BY JobParameters DEF IInv, TypeOK, OnWire, CallType
<1> SUFFICES ASSUME NEW j \in Jobs, Expected(j)' PROVE Followed(j)'
  BY DEF NoneMissed
<1>s. ASSUME Expected(j), active' = active, waiting' = waiting, fate' = fate,
             call' = call, OnWire \subseteq OnWire', unheard \subseteq unheard'
      PROVE  Followed(j)'
  BY <1>s DEF NoneMissed, Followed, Held
<1>1. ASSUME NEW k \in Jobs, Submit(k) \/ Reject(k) \/ Record(k)
      PROVE  Followed(j)'
  <2>1. Expected(j)
    BY <1>1, <1>t DEF Submit, Reject, Record, Expected, boot, QuietStart, IInv, InFlightReqs
  <2> QED
    BY <1>1, <1>s, <2>1 DEF Submit, Reject, Record, comfy, link, OnWire
<1>2. ASSUME NEW k \in Jobs, Accept(k)
      PROVE  Followed(j)'
  <2>1. CASE k = j
    BY <1>2, <2>1 DEF Accept, Followed, Held
  <2>2. CASE k # j
    <3>1. Expected(j)
      BY <1>2, <1>t, <2>2 DEF Accept, Expected, boot
    <3> QED
      BY <1>2, <3>1 DEF Accept, link, NoneMissed, Followed, Held, OnWire
  <2> QED
    BY <2>1, <2>2
<1>3. ASSUME NEW k \in Jobs, Run(k)
      PROVE  Followed(j)'
  <2>1. Expected(j)
    BY <1>3 DEF Run, Expected, boot
  <2> QED
    BY <1>3, <1>t, <2>1 DEF Run, link, NoneMissed, Followed, Held, OnWire
<1>4. ASSUME NEW k \in Jobs, PromptDone(k) \/ PromptError(k)
      PROVE  Followed(j)'
  <2>1. PICK how \in {"done", "error"}, kind \in {"executed", "execution_error"} :
          PromptEnds(k, how, kind)
    BY <1>4 DEF PromptDone, PromptError
  <2>2. Expected(j)
    BY <2>1 DEF PromptEnds, Expected, boot
  <2>3. /\ active = k /\ active' = None /\ waiting' = waiting /\ call' = call
        /\ fate' = [fate EXCEPT ![k] = how]
    BY <2>1 DEF PromptEnds
  <2>4. k \in OnWire' \/ k \in unheard'
    <3>1. CASE attached
      <4>1. <<k, kind>> \in wire'
        BY <2>1, <3>1 DEF PromptEnds, Emit
      <4> QED
        BY <4>1 DEF OnWire
    <3>2. CASE ~attached
      BY <2>1, <3>2 DEF PromptEnds
    <3> QED
      BY <3>1, <3>2
  <2>5. OnWire \subseteq OnWire' /\ unheard \subseteq unheard'
    BY <2>1 DEF PromptEnds, Emit, OnWire
  <2>6. CASE k = j
    BY <2>4, <2>6 DEF Followed
  <2>7. CASE k # j
    <3>1. fate'[j] = fate[j]
      BY <1>t, <2>3, <2>7
    <3> QED
      BY <2>2, <2>3, <2>5, <2>7, <3>1 DEF Followed, Held, NoneMissed
  <2> QED
    BY <2>6, <2>7
<1>5. ASSUME NEW k \in Jobs, OnExecuted(k) \/ OnError(k)
      PROVE  Followed(j)'
  <2>1. PICK kind \in {"executed", "execution_error"} : Receive(k, kind)
    BY <1>5 DEF OnExecuted, OnError
  <2>2. wire' = wire \ {<<k, kind>>}
    BY <2>1 DEF Receive
  <2>3. /\ req' = req /\ phase' = phase /\ polled' = polled
        /\ waiting' = waiting /\ active' = active /\ fate' = fate /\ call' = call
        /\ unheard \subseteq unheard'
    BY <1>5 DEF OnExecuted, OnError, boot, comfy
  <2>4. CASE row[k] = "none"
    <3>1. row' = row /\ k \in unheard'
      BY <1>5, <2>4 DEF OnExecuted, OnError
    <3>2. Expected(j)
      BY <2>3, <3>1 DEF Expected
    <3>3. OnWire \ {k} \subseteq OnWire'
      BY <2>2 DEF OnWire
    <3> QED
      BY <2>3, <3>1, <3>2, <3>3 DEF NoneMissed, Followed, Held
  <2>5. CASE row[k] # "none"
    <3>1. row' = [row EXCEPT ![k] = "completed"] \/ row' = [row EXCEPT ![k] = "failed"]
      BY <1>5, <2>5 DEF OnExecuted, OnError
    <3>2. req[k] = "recorded"
      BY <2>5 DEF IInv, RowsRecorded
    <3>3. k # j
      BY <1>t, <2>3, <3>1, <3>2 DEF Expected, Live
    <3>4. Expected(j)
      BY <1>t, <2>3, <3>1, <3>3 DEF Expected
    <3>5. OnWire \ {k} \subseteq OnWire'
      BY <2>2 DEF OnWire
    <3> QED
      BY <2>3, <3>3, <3>4, <3>5 DEF NoneMissed, Followed, Held
  <2> QED
    BY <2>4, <2>5
<1>6. ASSUME NEW k \in Jobs, FetchDone(k) \/ FetchFails(k)
      PROVE  Followed(j)'
  <2>1. Expected(j)
    BY <1>6 DEF FetchDone, FetchFails, boot, Expected
  <2> QED
    BY <1>6, <1>s, <2>1 DEF FetchDone, FetchFails, comfy, link, OnWire
<1>7. CASE Attach \/ Drop \/ UNCHANGED vars
  <2>1. Expected(j)
    BY <1>7 DEF Attach, Drop, vars, boot, Expected
  <2>2. Followed(j)
    BY <2>1 DEF NoneMissed
  <2> QED
    BY <1>7, <2>2 DEF Attach, Drop, vars, comfy, Followed, Held, OnWire
<1>8. CASE Restart
  <2>1. Expected(j) /\ Followed(j)
    BY <1>8 DEF Restart, Expected, NoneMissed
  <2>2. /\ waiting' = waiting /\ active' = active /\ OnWire \subseteq unheard'
        /\ unheard \subseteq unheard'
    BY <1>8 DEF Restart, comfy
  <2>3. ASSUME NEW x \in Calls, call[x].job = j, call[x].at = "applied", fate[j] = "stopped"
        PROVE  j \in unheard'
    BY <1>8, <2>3 DEF Restart, Stopped
  <2> QED
    BY <2>1, <2>2, <2>3 DEF Followed, Held
<1>9. CASE Poll \/ PollMisread \/ PollFails
  <2>1. CASE Poll
    BY <2>1 DEF Poll, Expected, Followed, Held, comfy
  <2>2. CASE PollMisread
    BY <2>2 DEF PollMisread, Expected
  <2>3. CASE PollFails
    <3>1. req[j] \notin {"first", "behind"}
      BY <2>3 DEF PollFails, IInv, QuietStart, InFlightReqs
    <3>2. Expected(j)
      BY <2>3, <3>1 DEF PollFails, Expected
    <3> QED
      BY <1>s, <2>3, <3>2 DEF PollFails, comfy, link, OnWire
  <2> QED
    BY <1>9, <2>1, <2>2, <2>3
<1>10. CASE Reconcile
  <2>1. req[j] \notin {"first", "behind"}
    BY <1>10 DEF Reconcile, IInv, QuietStart, InFlightReqs
  <2>2. row[j] \in Live /\ j \in polled
    BY <1>10, <2>1 DEF Reconcile, Expected, Live
  <2>3. Expected(j)
    BY <1>10, <2>2 DEF Reconcile, Expected
  <2> QED
    BY <1>10, <1>s, <2>3 DEF Reconcile, comfy, link, OnWire
<1>11. ASSUME NEW x \in Calls, \E k \in Jobs : Cancel(x, k)
       PROVE  Followed(j)'
  <2>1. Expected(j)
    BY <1>11 DEF Cancel, boot, Expected
  <2>2. \A y \in Calls : call[y].at = "applied" => call'[y] = call[y]
    BY <1>11, <1>t DEF Cancel
  <2> QED
    BY <1>11, <2>1, <2>2 DEF Cancel, comfy, link, OnWire, NoneMissed, Followed, Held
<1>12. ASSUME NEW x \in Calls, Interrupt(x) \/ Dequeue(x) \/ CancelMisread(x)
       PROVE  Followed(j)'
  <2>1. Expected(j) /\ Followed(j)
    BY <1>12 DEF Interrupt, Dequeue, CancelMisread, boot, Expected, NoneMissed
  <2>2. /\ call' = [call EXCEPT ![x].at = "applied"]
        /\ OnWire' = OnWire /\ unheard \subseteq unheard'
    BY <1>12 DEF Interrupt, Dequeue, CancelMisread, link, OnWire
  <2>3. /\ call'[x].job = call[x].job /\ call'[x].at = "applied"
        /\ \A y \in Calls : y # x => call'[y] = call[y]
    BY <1>t, <2>2 DEF CallType
  <2>4. fate[j] = "stopped" => fate'[j] = "stopped"
    BY <1>12, <1>t DEF Interrupt, Dequeue, CancelMisread, comfy
  <2>5. CASE Held(j) /\ ~Held(j)'
    <3>1. fate'[j] = "stopped" /\ (call[x].job = j \/ j \in unheard')
      BY <1>12, <1>t, <2>5 DEF Interrupt, Dequeue, CancelMisread, comfy, Held
    <3> QED
      BY <2>3, <3>1 DEF Followed
  <2> QED
    BY <2>1, <2>2, <2>3, <2>4, <2>5 DEF Followed
<1>13. ASSUME NEW x \in Calls, CancelDone(x) \/ CancelFails(x)
       PROVE  Followed(j)'
  <2>1. /\ phase' = phase /\ polled' = polled /\ req' = req
        /\ waiting' = waiting /\ active' = active /\ fate' = fate
        /\ OnWire' = OnWire /\ unheard \subseteq unheard'
        /\ \A y \in Calls : y # x => call'[y] = call[y]
    BY <1>13, <1>t DEF CancelDone, CancelFails, comfy, link, boot, OnWire
  <2>2. CASE CancelDone(x)
    <3>1. call[x].job \in Jobs /\ req[call[x].job] = "recorded"
      BY <2>2 DEF CancelDone, IInv, CallsRecorded
    <3>2. row' = [row EXCEPT ![call[x].job] = "cancelled"]
      BY <2>2 DEF CancelDone
    <3>3. call[x].job # j
      BY <1>t, <2>1, <3>1, <3>2 DEF Expected, Live
    <3>4. Expected(j)
      BY <1>t, <2>1, <3>1, <3>2, <3>3 DEF Expected
    <3> QED
      BY <2>1, <3>3, <3>4 DEF NoneMissed, Followed, Held
  <2>3. CASE CancelFails(x)
    <3>1. Expected(j)
      BY <2>1, <2>3 DEF CancelFails, Expected
    <3>2. fate[j] = "stopped" /\ call[x].job = j => j \in unheard'
      BY <2>3 DEF CancelFails, Stopped
    <3> QED
      BY <2>1, <3>1, <3>2 DEF NoneMissed, Followed, Held
  <2> QED
    BY <1>13, <2>2, <2>3
<1> QED
  BY <1>1, <1>2, <1>3, <1>4, <1>5, <1>6, <1>7, <1>8, <1>9, <1>10, <1>11, <1>12, <1>13
     DEF Next, ComfyUI, Server, CancelStep

(* While the server is up, through restarts, lost sockets, failed and      *)
(* misread answers and cancellations, a row is queued or running only for  *)
(* a prompt ComfyUI holds, an end under way, a cancellation that has       *)
(* reached ComfyUI, or an end that passed the server by.                   *)
THEOREM RowsMove == Spec => []NoStuckRow
<1>1. Init => NoneMissed
  BY DEF Init, NoneMissed, Expected, Live
<1>2. IInv /\ NoneMissed /\ [Next]_vars => NoneMissed'
  BY MissedStep
<1>3. NoneMissed => NoStuckRow
  BY DEF NoneMissed, NoStuckRow, Expected, Followed
<1> QED
  BY <1>1, <1>2, <1>3, Invariance, PTL DEF Spec
=============================================================================
