------------------------------- MODULE Session -------------------------------
(***************************************************************************)
(* The client's session over HTTP: DiffuseCraftClient.connect, disconnect  *)
(* and dispose (libs/diffusion-client/src/client.ts), the event bus's      *)
(* connection status, HttpTransport with its queue of sends, and the       *)
(* Reconnector.  The MCP SDK (a client and its transport, here a link) is  *)
(* external: a link opens or fails to, may drop at any time, calls onclose *)
(* when it goes and then rejects what was in flight on it.                 *)
(*                                                                         *)
(* JavaScript runs one task at a time: a step is what runs up to the next  *)
(* await that leaves the microtask queue, except that the tail of a        *)
(* successful reconnect is three steps, since a consumer's continuation    *)
(* can run between them.                                                   *)
(***************************************************************************)
EXTENDS Naturals

CONSTANTS
    Calls,          \* send() calls
    Links,          \* SDK client and transport pairs, reused once forgotten
    Loops,          \* Reconnectors, reused once done
    None,
    Attempts,       \* values of reconnect.max_attempts; 0 switches it off
    MaxConnects,    \* bound on the calls of connect()
    Consumer        \* habits of the consumer, see Habits

(* eager: calls in the microtasks that end a reconnect; retry: connect()   *)
(* while a loop is at work or the transport is connected; abrupt and       *)
(* abandon: disconnect() or dispose() while a loop's attempt, or connect(),*)
(* is in flight; reuse: connect() after disconnect().                      *)
Habits == {"eager", "retry", "abrupt", "abandon", "reuse"}

ASSUME ConsumerAssumption == Consumer \subseteq Habits
ASSUME BoundsAssumption == Attempts \subseteq Nat /\ MaxConnects \in Nat
ASSUME NoneAssumption == None \notin Links /\ None \notin Loops /\ Links \cap Loops = {}

VARIABLES
    max,        \* this transport's max_attempts
    api,        \* the connect() in progress: at, and the link or loop it awaits
    last,       \* the consumer's last lifecycle call
    disposed,   \* dispose() was called
    status,     \* the bus's connection status
    bridged,    \* the bus listens to the transport's reconnect status
    connects,   \* calls of connect() so far, at most MaxConnects
    link,       \* state of each SDK pair
    client,     \* HttpTransport.client
    connected,  \* HttpTransport.connected
    closing,    \* the link disconnect() waits for
    failed,     \* HttpTransport.failed
    active,     \* activeReconnector and reconnectingPromise
    run,        \* the reconnect loops
    call,       \* the sends: pendingSends are those that are open
    rash,       \* history: did a lifecycle call come in mid-handshake, or connect() beside a loop?
    stray       \* history: what the last disconnect() could not reach, and what came of it

apiVars == <<max, api, last, disposed, connects>>
busVars == <<status, bridged>>
history == <<rash, stray>>
vars == <<apiVars, busVars, link, client, connected, closing, failed, active, run, call, history>>

NoCall == [at |-> "no", tries |-> 0, via |-> None]
NoConnect == [at |-> "no", via |-> None]
Idle == [at |-> "idle", tries |-> 0, cancelled |-> FALSE, via |-> None]

Init ==
    /\ max \in Attempts
    /\ api = NoConnect /\ last = "none" /\ disposed = FALSE /\ connects = 0
    /\ status = "disconnected" /\ bridged = TRUE
    /\ link = [k \in Links |-> "none"]
    /\ client = None /\ connected = FALSE /\ closing = None
    /\ failed = FALSE /\ active = None
    /\ run = [l \in Loops |-> Idle]
    /\ call = [c \in Calls |-> NoCall]
    /\ rash = FALSE /\ stray = {}

Pending == {c \in Calls : call[c].at = "open"}
Running == {l \in Loops : run[l].at # "idle"}
Opening == {l \in Loops : run[l].at = "opening"}
Micro == \E l \in Loops : run[l].at \in {"rebuilt", "replayed"}

Does(habit) == habit \in Consumer
Turn == Micro => Does("eager")

FreeLink(k) ==
    /\ link[k] = "none" /\ k \notin {client, closing, api.via}
    /\ \A l \in Loops : run[l].via # k

(* The status the bus shows after the transport, or the client, reports s. *)
Bridged(s) == IF bridged THEN s ELSE status
Marked(s) == IF disposed THEN status ELSE s

(* A stray's doing is a stray's.                                           *)
Heir(x, y) == IF x \in stray /\ y # None THEN stray \cup {y} ELSE stray

-----------------------------------------------------------------------------
(* Sends.                                                                  *)

Reject(c) == [call[c] EXCEPT !.at = "error", !.via = None]

(* Mutant of RejectPending: the queued ones are forgotten.                 *)
RejectInFlightOnly == [c \in Calls |-> IF c \in Pending /\ call[c].via # None THEN Reject(c) ELSE call[c]]

RejectPending == [c \in Calls |-> IF c \in Pending THEN Reject(c) ELSE call[c]]

(* dispatchSend on the current client.                                     *)
Dispatch(c) ==
    IF failed \/ client = None \/ ~connected
    THEN Reject(c)
    ELSE [at |-> "open", tries |-> call[c].tries + 1, via |-> client]

Send(c) ==
    /\ Turn /\ call[c].at = "no"
    /\ call' = [call EXCEPT ![c] = IF ~failed /\ active # None
                                   THEN [NoCall EXCEPT !.at = "open"]
                                   ELSE Dispatch(c)]
    /\ UNCHANGED <<apiVars, busVars, link, client, connected, closing, failed, active, run, history>>

(* A result, or a tool error, arrives on the link.                         *)
Answer(c) ==
    /\ ~Micro /\ c \in Pending /\ call[c].via # None
    /\ \E result \in {"ok", "error"} : call' = [call EXCEPT ![c].at = result, ![c].via = None]
    /\ UNCHANGED <<apiVars, busVars, link, client, connected, closing, failed, active, run, history>>

(* Mutant of Unanswered: kept for a replay whether or not a loop runs.     *)
UnansweredKept(c) == [call[c] EXCEPT !.via = None]

(* The SDK gives a request up: kept for the replay while a loop runs.      *)
Unanswered(c) == IF active # None THEN [call[c] EXCEPT !.via = None] ELSE Reject(c)

RequestFails(c) ==
    /\ ~Micro /\ c \in Pending /\ call[c].via # None
    /\ call' = [call EXCEPT ![c] = Unanswered(c)]
    /\ UNCHANGED <<apiVars, busVars, link, client, connected, closing, failed, active, run, history>>

-----------------------------------------------------------------------------
(* onclose of a link.                                                      *)

Unsolicited == closing = None /\ active = None /\ ~failed

(* Mutant of StartsLoop: the loop at work is not noticed.                  *)
StartsLoopAgain(l) ==
    IF closing = None /\ ~failed /\ max > 0
    THEN l \in Loops /\ run[l] = Idle /\ api.via # l
    ELSE l = None

(* triggerReconnect starts loop l, or none.                                *)
StartsLoop(l) ==
    IF Unsolicited /\ max > 0
    THEN l \in Loops /\ run[l] = Idle /\ api.via # l
    ELSE l = None

GivesUp == Unsolicited /\ max = 0

NowActive(l) == IF l = None THEN active ELSE l
Started(l) == IF l = None THEN run ELSE [run EXCEPT ![l].at = "sleeping"]
Noticed(l) == IF l # None THEN Bridged("reconnecting") ELSE IF GivesUp THEN Bridged("error") ELSE status

(* What was in flight on k stays pending if a loop will replay it.         *)
Cut(k, l) ==
    [c \in Calls |->
        IF GivesUp /\ c \in Pending THEN Reject(c)
        ELSE IF call[c].via # k THEN call[c]
        ELSE IF NowActive(l) # None THEN [call[c] EXCEPT !.via = None]
        ELSE Reject(c)]

Closed(k, l) ==
    /\ link' = [link EXCEPT ![k] = "none"]
    /\ connected' = FALSE
    /\ failed' = (failed \/ GivesUp)
    /\ call' = Cut(k, l)

(* The connection of k is lost.  A read of server/info under way on it     *)
(* rejects; connect() swallows that and reports "connected".               *)
Drop(k) ==
    /\ ~Micro /\ link[k] = "open"
    /\ \E l \in Loops \cup {None} :
        /\ StartsLoop(l)
        /\ Closed(k, l)
        /\ run' = Started(l)
        /\ active' = NowActive(l)
        /\ status' = IF api.via = k THEN Marked("connected") ELSE Noticed(l)
        /\ stray' = Heir(k, l)
    /\ api' = IF api.via = k THEN NoConnect ELSE api
    /\ UNCHANGED <<max, last, disposed, connects, bridged, client, closing, rash>>

-----------------------------------------------------------------------------
(* The reconnect loop.                                                     *)

(* The back-off ends; the token is resolved and the handshake begins.      *)
Attempt(l, k) ==
    /\ ~Micro /\ run[l].at = "sleeping" /\ FreeLink(k)
    /\ run' = [run EXCEPT ![l].at = "opening", ![l].via = k, ![l].tries = @ + 1]
    /\ link' = [link EXCEPT ![k] = "opening"]
    /\ stray' = Heir(l, k)
    /\ UNCHANGED <<apiVars, busVars, client, connected, closing, failed, active, call, rash>>

Exhausted(l) == run[l].tries >= max

(* onStatusChange("failed") and onFatal.                                   *)
GiveUp ==
    /\ failed' = TRUE
    /\ call' = RejectPending
    /\ status' = Bridged("error")

(* The attempt fails, in the handshake, whose link then calls onclose, or  *)
(* before it, when no token was had.  A cancelled loop ends at the top of  *)
(* its next turn, if it has one; whichever loop ends clears active.        *)
AttemptFails(l, early) ==
    /\ ~Micro /\ run[l].at = "opening"
    /\ LET ends == Exhausted(l) \/ run[l].cancelled
       IN \E n \in Loops \cup {None} :
           /\ IF early THEN n = None ELSE StartsLoop(n)
           /\ run' = [Started(n) EXCEPT ![l] = IF ends THEN Idle
                                               ELSE [run[l] EXCEPT !.at = "sleeping", !.via = None]]
           /\ active' = IF ends THEN None ELSE NowActive(n)
           /\ stray' = Heir(l, n)
           /\ \/ Exhausted(l) /\ GiveUp
              \/ ~Exhausted(l) /\ status' = Noticed(n) /\ UNCHANGED <<failed, call>>
    /\ link' = [link EXCEPT ![run[l].via] = "none"]
    /\ connected' = (connected /\ early)
    /\ UNCHANGED <<apiVars, bridged, client, closing, rash>>

AttemptSucceeds(l) ==
    /\ ~Micro /\ run[l].at = "opening"
    /\ link' = [link EXCEPT ![run[l].via] = "open"]
    /\ client' = run[l].via
    /\ connected' = TRUE
    /\ \/ /\ run[l].cancelled
          /\ run' = [run EXCEPT ![l] = Idle]
          /\ active' = None
          /\ UNCHANGED status
       \/ /\ ~run[l].cancelled
          /\ run' = [run EXCEPT ![l].at = "rebuilt", ![l].via = None]
          /\ status' = Bridged("connected")
          /\ UNCHANGED active
    /\ UNCHANGED <<apiVars, bridged, closing, failed, call, history>>

(* Mutant of Spent: a second replay.                                       *)
SpentLate(c) == call[c].tries > 2

Spent(c) == call[c].tries >= 2

(* replayPending.                                                          *)
Replay(l) ==
    /\ run[l].at = "rebuilt"
    /\ run' = [run EXCEPT ![l].at = "replayed"]
    /\ call' = [c \in Calls |-> IF c \notin Pending THEN call[c]
                                ELSE IF Spent(c) THEN Reject(c) ELSE Dispatch(c)]
    /\ UNCHANGED <<apiVars, busVars, link, client, connected, closing, failed, active, history>>

(* The finally clause of triggerReconnect.                                 *)
Finish(l) ==
    /\ run[l].at = "replayed"
    /\ run' = [run EXCEPT ![l] = Idle]
    /\ active' = None
    /\ UNCHANGED <<apiVars, busVars, link, client, connected, closing, failed, call, history>>

-----------------------------------------------------------------------------
(* connect().                                                              *)

MayConnect ==
    /\ Turn /\ ~disposed /\ api.at = "no" /\ closing = None /\ connects < MaxConnects
    /\ last = "disconnect" => Does("reuse")
    /\ Running # {} \/ connected => Does("retry")

Connect(k) ==
    /\ MayConnect /\ ~connected /\ FreeLink(k)
    /\ connects' = connects + 1
    /\ failed' = FALSE
    /\ status' = "connecting"
    /\ api' = [at |-> "opening", via |-> k]
    /\ last' = "connect"
    /\ link' = [link EXCEPT ![k] = "opening"]
    /\ rash' = (rash \/ Running # {}) /\ stray' = {}
    /\ UNCHANGED <<max, disposed, bridged, client, connected, closing, active, run, call>>

ConnectAgain ==
    /\ MayConnect /\ connected
    /\ connects' = connects + 1
    /\ status' = "error"
    /\ UNCHANGED <<max, api, last, disposed, bridged, link, client, connected, closing, failed, active, run, call, history>>

ConnectFails(early) ==
    /\ ~Micro /\ api.at = "opening"
    /\ \/ /\ early
          /\ link' = [link EXCEPT ![api.via] = "none"]
          /\ UNCHANGED <<connected, failed, active, run, call, stray>>
       \/ /\ ~early
          /\ \E l \in Loops \cup {None} :
                /\ StartsLoop(l)
                /\ Closed(api.via, l)
                /\ run' = Started(l)
                /\ active' = NowActive(l)
                /\ stray' = Heir(api.via, l)
    /\ status' = Marked("error")
    /\ api' = NoConnect
    /\ UNCHANGED <<max, last, disposed, connects, bridged, client, closing, rash>>

(* The handshake ends and server/info is read: on the link, or once the    *)
(* loop at work is done.                                                   *)
ConnectOpens ==
    /\ ~Micro /\ api.at = "opening"
    /\ link' = [link EXCEPT ![api.via] = "open"]
    /\ client' = api.via
    /\ connected' = TRUE
    /\ api' = IF failed THEN NoConnect
              ELSE [at |-> "reading", via |-> IF active # None THEN active ELSE api.via]
    /\ status' = IF failed THEN Marked("connected") ELSE status
    /\ UNCHANGED <<max, last, disposed, connects, bridged, closing, failed, active, run, call, history>>

(* The read waited for a loop that is done.                                *)
ReadResumes ==
    /\ ~Micro /\ api.at = "reading" /\ api.via \in Loops /\ run[api.via].at = "idle"
    /\ ~failed /\ connected /\ client # None
    /\ api' = [api EXCEPT !.via = client]
    /\ UNCHANGED <<max, last, disposed, connects, busVars, link, client, connected, closing, failed, active, run, call, history>>

(* The read returns or is refused; either way connect() resolves.          *)
ConnectEnds ==
    /\ ~Micro /\ api.at = "reading"
    /\ \/ api.via \in Links
       \/ api.via \in Loops /\ run[api.via].at = "idle" /\ (failed \/ ~connected \/ client = None)
    /\ api' = NoConnect
    /\ status' = Marked("connected")
    /\ UNCHANGED <<max, last, disposed, connects, bridged, link, client, connected, closing, failed, active, run, call, history>>

-----------------------------------------------------------------------------
(* disconnect() and dispose().                                             *)

(* Mutant of Stopped: the loop is forgotten but goes on.                   *)
StoppedNot(l) == run[l]

(* Reconnector.stop(): a sleeping loop wakes and ends.                     *)
Stopped(l) ==
    IF run[l].at = "sleeping" THEN Idle
    ELSE IF run[l].at = "opening" THEN [run[l] EXCEPT !.cancelled = TRUE]
    ELSE run[l]

(* A handshake under way, a loop that is not the active one, a link that   *)
(* is not that of a connected client.                                      *)
Unreached ==
    {l \in Running : run[l].at = "opening" \/ l # active}
    \cup {k \in Links : link[k] # "none" /\ ~(connected /\ k = client)}

Disconnect(dispose) ==
    /\ Turn /\ ~disposed /\ closing = None
    /\ Opening # {} => Does("abrupt")
    /\ api.at # "no" => Does("abandon")
    /\ last' = "disconnect"
    /\ disposed' = dispose
    /\ run' = [l \in Loops |-> IF l = active THEN Stopped(l) ELSE run[l]]
    /\ active' = None
    /\ call' = RejectPending
    /\ connected' = FALSE
    /\ \/ /\ client # None /\ connected
          /\ closing' = client
          /\ bridged' = (bridged /\ ~dispose)
          /\ UNCHANGED status
       \/ /\ client = None \/ ~connected
          /\ bridged' = FALSE
          /\ status' = IF dispose THEN status ELSE "disconnected"
          /\ UNCHANGED closing
    /\ rash' = (rash \/ api.at = "opening" \/ \E l \in Running : run[l].at # "sleeping")
    /\ stray' = Unreached
    /\ UNCHANGED <<max, api, connects, link, client, failed>>

(* client.close() is done.                                                 *)
CloseDone ==
    /\ ~Micro /\ closing # None
    /\ link' = [link EXCEPT ![closing] = "none"]
    /\ call' = Cut(closing, None)
    /\ closing' = None
    /\ client' = None
    /\ connected' = FALSE
    /\ bridged' = FALSE
    /\ status' = Marked("disconnected")
    /\ api' = IF api.via = closing THEN NoConnect ELSE api
    /\ UNCHANGED <<max, last, disposed, connects, failed, active, run, history>>

-----------------------------------------------------------------------------
LoopStep(l) ==
    \/ \E k \in Links : Attempt(l, k)
    \/ \E early \in BOOLEAN : AttemptFails(l, early)
    \/ AttemptSucceeds(l)
    \/ Replay(l)
    \/ Finish(l)

Next ==
    \/ \E c \in Calls : Send(c) \/ Answer(c) \/ RequestFails(c)
    \/ \E k \in Links : Drop(k) \/ Connect(k)
    \/ \E l \in Loops : LoopStep(l)
    \/ \E early \in BOOLEAN : ConnectFails(early)
    \/ ConnectAgain \/ ConnectOpens \/ ReadResumes \/ ConnectEnds
    \/ \E dispose \in BOOLEAN : Disconnect(dispose)
    \/ CloseDone

Spec == Init /\ [][Next]_vars

(* Timers fire, handshakes and requests time out, microtasks run.          *)
Fairness ==
    /\ \A l \in Loops : WF_vars(LoopStep(l))
    /\ \A c \in Calls : WF_vars(Answer(c) \/ RequestFails(c))

FairSpec == Spec /\ Fairness

-----------------------------------------------------------------------------
ConnectType == [at : {"no", "opening", "reading"}, via : Links \cup Loops \cup {None}]
LoopType == [at : {"idle", "sleeping", "opening", "rebuilt", "replayed"},
             tries : Nat, cancelled : BOOLEAN, via : Links \cup {None}]
CallType == [at : {"no", "open", "ok", "error"}, tries : Nat, via : Links \cup {None}]

TypeOK ==
    /\ max \in Attempts
    /\ api \in ConnectType
    /\ last \in {"none", "connect", "disconnect"}
    /\ status \in {"disconnected", "connecting", "connected", "reconnecting", "error"}
    /\ disposed \in BOOLEAN /\ bridged \in BOOLEAN /\ connected \in BOOLEAN /\ failed \in BOOLEAN
    /\ connects \in 0..MaxConnects
    /\ link \in [Links -> {"none", "opening", "open"}]
    /\ client \in Links \cup {None} /\ closing \in Links \cup {None}
    /\ active \in Loops \cup {None}
    /\ run \in [Loops -> LoopType]
    /\ call \in [Calls -> CallType]
    /\ \A l \in Loops : run[l].tries <= max
    /\ rash \in BOOLEAN /\ stray \subseteq Links \cup Loops

(* A call reaches the wire at most twice, whatever links come and go       *)
(* (pendingSends' attempts, "so job-shaped tools never see a third         *)
(* execution").                                                            *)
TwiceAtMost == \A c \in Calls : call[c].tries <= 2

(* A pending call is in flight on an open link, or a loop that has not yet *)
(* replayed is at work: nobody waits for a call no one will settle.        *)
NoOrphan ==
    \A c \in Pending :
        \/ call[c].via # None /\ link[call[c].via] = "open"
        \/ \E l \in Loops : run[l].at \in {"sleeping", "opening", "rebuilt"} /\ ~run[l].cancelled

(* isHealthy() tells the truth about the current client's link.            *)
HealthTells == connected <=> client # None /\ link[client] = "open" /\ closing = None

(* One reconnect loop at a time, the one disconnect() can stop             *)
(* (triggerReconnect is idempotent), and isHealthy() tells the truth, as   *)
(* long as no disconnect() or dispose() came while a handshake was under   *)
(* way and no connect() while a loop was at work.                          *)
OneLoop ==
    ~rash => /\ \A l \in Loops : run[l].at # "idle" => active = l
             /\ HealthTells

(* After disconnect() or dispose(), at any moment, the transport stays     *)
(* down and, once that resolved, no loop runs and no link is left: but for *)
(* the handshakes that were under way, links that had lost their client,   *)
(* and what comes of these.  Where no lifecycle call came in mid-handshake *)
(* there are none.                                                         *)
DisconnectSticks ==
    /\ last = "disconnect" =>
          /\ connected => client \in stray
          /\ closing = None => /\ Running \subseteq stray
                               /\ \A k \in Links : link[k] # "none" => k \in stray
    /\ ~rash => stray = {}

(* Every send() settles: answered, rejected, replayed or given up.         *)
Settles == \A c \in Calls : c \in Pending ~> c \notin Pending
=============================================================================
