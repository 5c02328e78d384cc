--------------------------------- MODULE Jobs ---------------------------------
(***************************************************************************)
(* JobTracker (jobs/tracker.ts) with the calls it makes on ComfyClient and *)
(* OutputFetcher, and the ComfyUI process behind them.  ComfyUI owns the   *)
(* queue; the jobs table mirrors it from the answers to HTTP requests and  *)
(* from the events of one WebSocket, which is lost and reopened.           *)
(*                                                                         *)
(* A job stands for its row, its ComfyUI prompt and the request that       *)
(* submitted it.  Requests and events travel separately, so their order of *)
(* arrival is open.  Progress percentages are left out.                    *)
(***************************************************************************)
EXTENDS Naturals, Sequences, FiniteSets

CONSTANTS
  Jobs,
  Calls,         \* pool of cancel_job calls, each used once
  None,          \* no prompt
  Overtaking,    \* may an event overtake the answer to the POST of its prompt?
  LateSocket,    \* may the startup poll be answered before the socket is open?
  Failing,       \* what may fail: "post", "prompt", "fetch", "cancel", "poll", and "status":
                 \* a request may be answered with an error whose body parses
  MaxDrops,      \* bound: losses of the socket
  MaxRestarts    \* bound: restarts of the server

ASSUME JobParameters ==
  /\ None \notin Jobs
  /\ Overtaking \in BOOLEAN /\ LateSocket \in BOOLEAN
  /\ Failing \subseteq {"post", "prompt", "fetch", "cancel", "poll", "status"}
  /\ MaxDrops \in Nat /\ MaxRestarts \in Nat

VARIABLES
  waiting,     \* ComfyUI: queue_pending
  active,      \* ComfyUI: queue_running
  fate,        \* [Jobs -> how ComfyUI ended the prompt]
  attached,    \* is the WebSocket open?
  wire,        \* events sent and not yet handled
  phase,       \* of the server: "starting", "polled" (queue answer in hand),
               \* "misread" (an error taken for one), "up"
  polled,      \* that answer: the prompts ComfyUI still holds
  req,         \* [Jobs -> progress of tracker.submit]
  row,         \* [Jobs -> status column of the jobs table, "none" without a row]
  fetching,    \* jobs whose executed handler awaits the output fetcher
  items,       \* jobs with rows in history_items
  outcomes,    \* [Jobs -> job.completed events published]
  call,        \* [Calls -> [job, mode, at, answer]]: progress of tracker.cancel
  used,        \* [drops, restarts]
  unheard      \* history: jobs whose end passed the server by since it read the queue

comfy == <<waiting, active, fate>>
link  == <<attached, wire>>
boot  == <<phase, polled>>
vars  == <<waiting, active, fate, attached, wire, phase, polled, req, row, fetching,
           items, outcomes, call, used, unheard>>

Live  == {"queued", "running"}
Ended == {"completed", "failed", "cancelled"}

Held(j) == j \in waiting \/ active = j

(* Each variable has the type the code gives it.                           *)
TypeOK ==
  /\ waiting \in SUBSET Jobs
  /\ active \in Jobs \cup {None}
  /\ fate \in [Jobs -> {"none", "done", "error", "stopped"}]
  /\ attached \in BOOLEAN
  /\ wire \in SUBSET (Jobs \X {"executed", "execution_error"})
  /\ phase \in {"starting", "polled", "misread", "up"}
  /\ polled \in SUBSET Jobs
  /\ req \in [Jobs -> {"no", "posted", "first", "behind", "recorded", "gone"}]
  /\ row \in [Jobs -> {"none"} \cup Live \cup Ended]
  /\ fetching \in SUBSET Jobs
  /\ items \in SUBSET Jobs
  /\ outcomes \in [Jobs -> Seq({"success", "failure", "cancelled"})]
  /\ call \in [Calls -> [job : Jobs \cup {None}, mode : {"none", "interrupt", "dequeue"},
                         at : {"no", "sent", "applied", "done"}, answer : BOOLEAN]]
  /\ used \in [drops : Nat, restarts : Nat]
  /\ unheard \in SUBSET Jobs

NoCall == [job |-> None, mode |-> "none", at |-> "no", answer |-> FALSE]

Init ==
  /\ waiting = {} /\ active = None
  /\ fate = [j \in Jobs |-> "none"]
  /\ attached = TRUE /\ wire = {}
  /\ phase = "up" /\ polled = {}
  /\ req = [j \in Jobs |-> "no"]
  /\ row = [j \in Jobs |-> "none"]
  /\ fetching = {} /\ items = {}
  /\ outcomes = [j \in Jobs |-> <<>>]
  /\ call = [x \in Calls |-> NoCall]
  /\ used = [drops |-> 0, restarts |-> 0]
  /\ unheard = {}

Publish(j, outcome) == outcomes' = [outcomes EXCEPT ![j] = Append(@, outcome)]

-----------------------------------------------------------------------------
(* submit: POST /prompt, then the row.                                     *)

Submit(j) ==
  /\ phase = "up"
  /\ req[j] = "no"
  /\ req' = [req EXCEPT ![j] = "posted"]
  /\ UNCHANGED <<row, fetching, items, outcomes, call, used, comfy, link, boot, unheard>>

(* ComfyUI queues the prompt and answers with its position.                *)
Accept(j) ==
  /\ req[j] = "posted"
  /\ waiting' = waiting \cup {j}
  /\ req' = [req EXCEPT ![j] = IF waiting = {} /\ active = None THEN "first" ELSE "behind"]
  /\ UNCHANGED <<active, fate, row, fetching, items, outcomes, call, used, link, boot, unheard>>

(* A rejected graph or an unreachable ComfyUI: submit throws, no row.      *)
Reject(j) ==
  /\ "post" \in Failing
  /\ req[j] = "posted"
  /\ req' = [req EXCEPT ![j] = "gone"]
  /\ UNCHANGED <<row, fetching, items, outcomes, call, used, comfy, link, boot, unheard>>

Record(j) ==
  /\ req[j] \in {"first", "behind"}
  /\ row' = [row EXCEPT ![j] = IF req[j] = "first" THEN "running" ELSE "queued"]
  /\ req' = [req EXCEPT ![j] = "recorded"]
  /\ UNCHANGED <<fetching, items, outcomes, call, used, comfy, link, boot, unheard>>

-----------------------------------------------------------------------------
(* ComfyUI and the socket.  An event sent while no socket is open is lost. *)

Emit(j, kind) == wire' = IF attached THEN wire \cup {<<j, kind>>} ELSE wire

Run(j) ==
  /\ active = None
  /\ j \in waiting
  /\ active' = j
  /\ waiting' = waiting \ {j}
  /\ UNCHANGED <<fate, req, row, fetching, items, outcomes, call, used, link, boot, unheard>>

PromptEnds(j, how, kind) ==
  /\ active = j
  /\ active' = None
  /\ fate' = [fate EXCEPT ![j] = how]
  /\ Emit(j, kind)
  /\ unheard' = IF attached THEN unheard ELSE unheard \cup {j}
  /\ UNCHANGED <<waiting, attached, req, row, fetching, items, outcomes, call, used, boot>>

PromptDone(j)  == PromptEnds(j, "done", "executed")
PromptError(j) == "prompt" \in Failing /\ PromptEnds(j, "error", "execution_error")

(* Jobs whose last event is under way.                                     *)
OnWire == {e[1] : e \in wire}

(* The socket closes with what was in it; scheduleReconnect opens another  *)
(* one.  Nothing listens to the open event.                                *)
Drop ==
  /\ attached
  /\ used.drops < MaxDrops
  /\ used' = [used EXCEPT !.drops = @ + 1]
  /\ attached' = FALSE
  /\ wire' = {}
  /\ unheard' = unheard \cup OnWire
  /\ UNCHANGED <<req, row, fetching, items, outcomes, call, comfy, boot>>

Attach ==
  /\ ~attached
  /\ attached' = TRUE
  /\ UNCHANGED <<wire, req, row, fetching, items, outcomes, call, used, comfy, boot, unheard>>

-----------------------------------------------------------------------------
(* The event handlers.                                                     *)

Receive(j, kind) ==
  /\ <<j, kind>> \in wire
  /\ Overtaking \/ req[j] \notin {"first", "behind"}
  /\ wire' = wire \ {<<j, kind>>}

(* onComfyExecuted up to the await of the output fetcher.  A prompt with   *)
(* no row is ignored; the status the row has is not looked at.             *)
OnExecuted(j) ==
  /\ Receive(j, "executed")
  /\ IF row[j] = "none"
     THEN unheard' = unheard \cup {j} /\ UNCHANGED <<row, fetching>>
     ELSE /\ row' = [row EXCEPT ![j] = "completed"]
          /\ fetching' = fetching \cup {j}
          /\ unheard' = unheard
  /\ UNCHANGED <<attached, req, items, outcomes, call, used, comfy, boot>>

OnError(j) ==
  /\ Receive(j, "execution_error")
  /\ IF row[j] = "none"
     THEN unheard' = unheard \cup {j} /\ UNCHANGED <<row, outcomes>>
     ELSE /\ row' = [row EXCEPT ![j] = "failed"]
          /\ Publish(j, "failure")
          /\ unheard' = unheard
  /\ UNCHANGED <<attached, req, fetching, items, call, used, comfy, boot>>

(* The outputs are downloaded and the history items inserted ...           *)
FetchDone(j) ==
  /\ j \in fetching
  /\ fetching' = fetching \ {j}
  /\ items' = items \cup {j}
  /\ Publish(j, "success")
  /\ UNCHANGED <<req, row, call, used, comfy, link, boot, unheard>>

(* Mutant of FetchFails: the rejection ends the handler.                   *)
FetchFailsSilently(j) ==
  /\ "fetch" \in Failing
  /\ j \in fetching
  /\ fetching' = fetching \ {j}
  /\ UNCHANGED <<req, row, items, outcomes, call, used, comfy, link, boot, unheard>>

(* ... or not; the job counts as a success all the same.                   *)
FetchFails(j) ==
  /\ "fetch" \in Failing
  /\ j \in fetching
  /\ fetching' = fetching \ {j}
  /\ Publish(j, "success")
  /\ UNCHANGED <<req, row, items, call, used, comfy, link, boot, unheard>>

-----------------------------------------------------------------------------
(* cancel: the row is read, ComfyUI is asked, the row is written.          *)

Cancel(x, j) ==
  /\ phase = "up"
  /\ call[x].at = "no"
  /\ req[j] = "recorded"
  /\ call' = [call EXCEPT ![x] =
       IF row[j] \notin Live
       THEN [job |-> j, mode |-> "none", at |-> "done", answer |-> FALSE]
       ELSE [job |-> j, at |-> "sent", answer |-> FALSE,
             mode |-> IF row[j] = "running" THEN "interrupt" ELSE "dequeue"]]
  /\ UNCHANGED <<req, row, fetching, items, outcomes, used, comfy, link, boot, unheard>>

(* ComfyUI stops whatever it runs, without an event the client knows ...   *)
Interrupt(x) ==
  /\ call[x].at = "sent" /\ call[x].mode = "interrupt"
  /\ active' = None
  /\ fate' = [j \in Jobs |-> IF active = j THEN "stopped" ELSE fate[j]]
  /\ call' = [call EXCEPT ![x].at = "applied"]
  /\ unheard' = unheard \cup ({active} \ {None, call[x].job})
  /\ UNCHANGED <<waiting, req, row, fetching, items, outcomes, used, link, boot>>

(* ... or takes the prompt off its queue, if it is still there.            *)
Dequeue(x) ==
  LET j == call[x].job
  IN  /\ call[x].at = "sent" /\ call[x].mode = "dequeue"
      /\ waiting' = waiting \ {j}
      /\ fate' = IF j \in waiting THEN [fate EXCEPT ![j] = "stopped"] ELSE fate
      /\ call' = [call EXCEPT ![x].at = "applied"]
      /\ UNCHANGED <<active, req, row, fetching, items, outcomes, used, link, boot, unheard>>

(* An error answer passes for success: ComfyUI has done nothing.           *)
CancelMisread(x) ==
  /\ "status" \in Failing
  /\ call[x].at = "sent"
  /\ call' = [call EXCEPT ![x].at = "applied"]
  /\ UNCHANGED <<req, row, fetching, items, outcomes, used, comfy, link, boot, unheard>>

(* Mutant of CancelDone: the event is forgotten.                           *)
CancelDoneSilently(x) ==
  /\ call[x].at = "applied"
  /\ row' = [row EXCEPT ![call[x].job] = "cancelled"]
  /\ call' = [call EXCEPT ![x].at = "done", ![x].answer = TRUE]
  /\ UNCHANGED <<req, fetching, items, outcomes, used, comfy, link, boot, unheard>>

(* The update is unconditional.                                            *)
CancelDone(x) ==
  /\ call[x].at = "applied"
  /\ row' = [row EXCEPT ![call[x].job] = "cancelled"]
  /\ Publish(call[x].job, "cancelled")
  /\ call' = [call EXCEPT ![x].at = "done", ![x].answer = TRUE]
  /\ UNCHANGED <<req, fetching, items, used, comfy, link, boot, unheard>>

(* Jobs that calls of X are about and ComfyUI has stopped.                 *)
Stopped(X) == {j \in Jobs : fate[j] = "stopped" /\ \E x \in X : call[x].job = j}

(* The request fails or times out, before or after ComfyUI handled it.     *)
CancelFails(x) ==
  /\ "cancel" \in Failing
  /\ call[x].at \in {"sent", "applied"}
  /\ call' = [call EXCEPT ![x].at = "done"]
  /\ unheard' = unheard \cup Stopped({x})
  /\ UNCHANGED <<req, row, fetching, items, outcomes, used, comfy, link, boot>>

-----------------------------------------------------------------------------
(* Restart and reconcileOnStartup.                                         *)

(* The process ends with every handler in it; the table and ComfyUI stay.  *)
Restart ==
  /\ phase = "up"
  /\ used.restarts < MaxRestarts
  /\ used' = [used EXCEPT !.restarts = @ + 1]
  /\ phase' = "starting"
  /\ attached' = FALSE
  /\ wire' = {}
  /\ req' = [j \in Jobs |-> IF req[j] \in {"posted", "first", "behind"} THEN "gone" ELSE req[j]]
  /\ fetching' = {}
  /\ call' = [x \in Calls |-> IF call[x].at = "no" THEN NoCall
                              ELSE [call[x] EXCEPT !.at = "done"]]
  /\ unheard' = unheard \cup OnWire \cup Stopped({x \in Calls : call[x].at = "applied"})
  /\ UNCHANGED <<polled, row, items, outcomes, comfy>>

(* Mutant of Poll: queue_running is left out of the answer.                *)
PollPendingOnly ==
  /\ phase = "starting"
  /\ attached \/ LateSocket
  /\ polled' = waiting
  /\ phase' = "polled"
  /\ unheard' = {}
  /\ UNCHANGED <<req, row, fetching, items, outcomes, call, used, comfy, link>>

(* GET /queue: what ComfyUI runs and what waits.                           *)
Poll ==
  /\ phase = "starting"
  /\ attached \/ LateSocket
  /\ polled' = {j \in Jobs : Held(j)}
  /\ phase' = "polled"
  /\ unheard' = {}
  /\ UNCHANGED <<req, row, fetching, items, outcomes, call, used, comfy, link>>

(* The status of the answer is not looked at: an error that parses as JSON *)
(* reads as an empty queue.                                                *)
PollMisread ==
  /\ "status" \in Failing
  /\ phase = "starting"
  /\ attached \/ LateSocket
  /\ polled' = {}
  /\ phase' = "misread"
  /\ UNCHANGED <<req, row, fetching, items, outcomes, call, used, comfy, link, unheard>>

(* The bootstrap logs a failed poll and continues.                         *)
PollFails ==
  /\ "poll" \in Failing
  /\ phase = "starting"
  /\ phase' = "up"
  /\ UNCHANGED <<polled, req, row, fetching, items, outcomes, call, used, comfy, link, unheard>>

(* Mutant of Reconcile: rows that never ran are taken for waiting ones.    *)
ReconcileRunningOnly ==
  /\ phase \in {"polled", "misread"}
  /\ row' = [j \in Jobs |-> IF row[j] = "running" /\ j \notin polled THEN "failed" ELSE row[j]]
  /\ phase' = "up"
  /\ UNCHANGED <<polled, req, fetching, items, outcomes, call, used, comfy, link, unheard>>

Reconcile ==
  /\ phase \in {"polled", "misread"}
  /\ row' = [j \in Jobs |-> IF row[j] \in Live /\ j \notin polled THEN "failed" ELSE row[j]]
  /\ phase' = "up"
  /\ UNCHANGED <<polled, req, fetching, items, outcomes, call, used, comfy, link, unheard>>

-----------------------------------------------------------------------------
ComfyUI(j) == Accept(j) \/ Run(j) \/ PromptDone(j) \/ PromptError(j)

Server(j) ==
  \/ Record(j) \/ OnExecuted(j) \/ OnError(j) \/ FetchDone(j) \/ FetchFails(j)

CancelStep(x) ==
  \/ Interrupt(x) \/ Dequeue(x) \/ CancelMisread(x) \/ CancelDone(x) \/ CancelFails(x)

Next ==
  \/ \E j \in Jobs : Submit(j) \/ Reject(j) \/ ComfyUI(j) \/ Server(j)
  \/ \E x \in Calls : CancelStep(x) \/ \E j \in Jobs : Cancel(x, j)
  \/ Drop \/ Attach \/ Restart \/ Poll \/ PollMisread \/ PollFails \/ Reconcile

Spec == Init /\ [][Next]_vars

(* ComfyUI works through its queue and answers, the event loop runs what   *)
(* is ready.  Submissions, cancellations and failures are not promised.    *)
Fairness ==
  /\ \A j \in Jobs : WF_vars(ComfyUI(j)) /\ WF_vars(Server(j))
  /\ \A x \in Calls : WF_vars(CancelStep(x))
  /\ WF_vars(Attach) /\ WF_vars(Poll) /\ WF_vars(Reconcile)

FairSpec == Spec /\ Fairness

-----------------------------------------------------------------------------
(* Properties.                                                             *)

Published(j, outcome) == \E i \in DOMAIN outcomes[j] : outcomes[j][i] = outcome

(* FR-12 of the catalog: however cancel, error and executed handlers       *)
(* interleave, a row that says how the job ended has been announced that   *)
(* way, unless its outputs are still being fetched.  A restart may cut the *)
(* announcement off.                                                       *)
EndAnnounced == used.restarts = 0 => \A j \in Jobs :
  /\ row[j] = "completed" => j \in fetching \/ Published(j, "success")
  /\ row[j] = "failed"    => Published(j, "failure")
  /\ row[j] = "cancelled" => Published(j, "cancelled")

(* A job that has ended is never queued or running again, whatever event   *)
(* or late answer comes.                                                   *)
EndedStaysEnded == [][\A j \in Jobs : row[j] \in Ended => row'[j] \in Ended]_vars

(* FR-37: reconciliation never gives up a job ComfyUI still holds, however *)
(* old the answer it goes by, if that was ComfyUI's and not an error read  *)
(* as an empty queue (client.ts:208).                                      *)
ReconcileSparesHeld ==
  [][\A j \in Jobs : phase = "polled" /\ row[j] \in Live /\ Held(j) => row'[j] # "failed"]_vars

(* While the server is up, a row is queued or running only for a prompt    *)
(* ComfyUI still holds, or whose last event is under way, or whose own     *)
(* cancellation has reached ComfyUI, unless its end passed the server by   *)
(* since it last read the queue: on a closed socket, ahead of its row, or  *)
(* by another's interrupt or a cancellation that failed.  So whatever was  *)
(* missed before a restart is made up for by its reconciliation, and a row *)
(* waits in vain for these reasons only.                                   *)
NoStuckRow == \A j \in Jobs :
  phase = "up" /\ row[j] \in Live =>
    \/ Held(j)
    \/ j \in OnWire
    \/ \E x \in Calls : call[x].job = j /\ call[x].at = "applied"
    \/ j \in unheard

(* FR-12 of the catalog: a job that got its row is announced in the end,   *)
(* if the server is not restarted and does not miss its end.               *)
Announced ==
  [](used.restarts = 0) =>
    \A j \in Jobs : (row[j] \in Live) ~> (outcomes[j] # <<>> \/ j \in unheard)

(* FR-1 of the history: every successful generation has its history items, *)
(* once the handler that inserts them is over.                             *)
OutputsKept == \A j \in Jobs : row[j] = "completed" => j \in fetching \cup items

(* FR-35: ComfyUI stops a prompt only if its own job was cancelled.        *)
StopsOwn == \A j \in Jobs :
  fate[j] = "stopped" => \E x \in Calls : call[x].job = j

(* FR-35: the row of a job whose cancellation was confirmed stays so.      *)
CancelSticks == [][\A j \in Jobs : row[j] = "cancelled" => row'[j] = "cancelled"]_vars

(* tracker.cancel: only the first transition away from queued or running   *)
(* is answered with cancelled: true.                                       *)
CancelOnce == \A x, y \in Calls :
  call[x].answer /\ call[y].answer /\ call[x].job = call[y].job => x = y
=============================================================================
