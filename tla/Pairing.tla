------------------------------ MODULE Pairing ------------------------------
(***************************************************************************)
(* The pairing manager (libs/server/src/lib/pairing): windows with their   *)
(* expiry timers, tokens issued ahead for QR / code / manual slots and     *)
(* tokens minted on claim, POST /pair with the host's approval hook        *)
(* awaited between the look-up of the window and the grant, the mDNS TXT   *)
(* record, and the server's start, stop and death around them.  Windows    *)
(* and tokens are rows of the database and outlive the process; timers,    *)
(* the cleartext of pending slots and the TXT record do not.  A call runs  *)
(* to its end or next await undisturbed, so it is one step; each of its    *)
(* writes commits by itself, so a death may fall between two of them.      *)
(***************************************************************************)
EXTENDS Naturals, FiniteSets

CONSTANTS
    Windows,    \* ids of pairing windows
    Tokens,     \* ids of tokens
    Requests,   \* POST /pair calls
    Modes,      \* modes a host opens windows in
    HostHook,   \* an onPairingRequest handler is registered
    Crashes,    \* the process may die
    None

AllModes == {"any", "mdns", "qr", "code", "manual"}
Slotted == {"qr", "code", "manual"}

ASSUME ModesAssumption == Modes \subseteq AllModes
ASSUME FlagsAssumption == HostHook \in BOOLEAN /\ Crashes \in BOOLEAN
ASSUME NoneAssumption == None \notin Windows /\ None \notin Tokens

VARIABLES
    up,         \* the server runs
    win,        \* pairing_windows rows
    token,      \* tokens.status, "none" before the row exists
    clock,      \* orders the opened_at of the windows
    timers,     \* windows with an armed expiry timer
    secret,     \* windows whose slot's cleartext is held in memory
    txt,        \* TXT keys of the advertised service; "po" and "pairing_open"
    req,        \* POST /pair calls
    torn        \* history: windows closed by a call that died before it came to the slot

vars == <<up, win, token, clock, timers, secret, txt, req, torn>>

NoWindow == [state |-> "none", mode |-> "any", late |-> FALSE, slot |-> None, at |-> 0]
NoRequest == [state |-> "none", method |-> "mdns", aim |-> None, window |-> None, token |-> None]
FreshTxt == [po |-> FALSE, pairing_open |-> FALSE]

Init ==
    /\ up = FALSE
    /\ win = [w \in Windows |-> NoWindow]
    /\ token = [t \in Tokens |-> "none"]
    /\ clock = 0
    /\ timers = {}
    /\ secret = {}
    /\ txt = FreshTxt
    /\ req = [r \in Requests |-> NoRequest]
    /\ torn = {}

Open(w) == win[w].state = "open"
Usable(w) == Open(w) /\ ~win[w].late       \* closed_at IS NULL AND expires_at > now
Fresh(t) == token[t] = "none"

-----------------------------------------------------------------------------
(* Opening.                                                                *)

InsertWindow(w, mode, slot) ==
    /\ win[w].state = "none"
    /\ win' = [win EXCEPT ![w] = [state |-> "open", mode |-> mode, late |-> FALSE,
                                  slot |-> slot, at |-> clock + 1]]
    /\ clock' = clock + 1

OpenRow(w, mode, slot) ==
    /\ InsertWindow(w, mode, slot)
    /\ timers' = timers \union {w}
    /\ txt' = [txt EXCEPT !.pairing_open = TRUE]

\* Modes "any" and "mdns": the token is minted on claim.
OpenBare(w, mode) ==
    /\ up
    /\ mode \in Modes \ Slotted
    /\ OpenRow(w, mode, None)
    /\ UNCHANGED <<up, token, secret, req, torn>>

\* The other modes: a pending token is issued with the window.
OpenSlot(w, mode, t) ==
    /\ up
    /\ mode \in Modes \intersect Slotted
    /\ Fresh(t)
    /\ OpenRow(w, mode, t)
    /\ token' = [token EXCEPT ![t] = "pending"]
    /\ secret' = secret \union {w}
    /\ UNCHANGED <<up, req, torn>>

-----------------------------------------------------------------------------
(* Closing, and the passing of time.                                       *)

\* Mutant of RevokeSlot: closing leaves the slot alone.
RevokeSlotNever(w, tk) == tk

\* Closing w revokes its slot if that is still pending.
RevokeSlot(w, tk) ==
    IF win[w].slot # None /\ tk[win[w].slot] = "pending"
    THEN [tk EXCEPT ![win[w].slot] = "revoked"] ELSE tk

\* Mutant of TxtAfterClose: closing always clears the flag.
TxtAfterCloseAlways(w) == [txt EXCEPT !.pairing_open = FALSE]

\* The TXT record once w is closed.
TxtAfterClose(w) ==
    IF \E v \in Windows \ {w} : Usable(v) THEN txt ELSE [txt EXCEPT !.pairing_open = FALSE]

\* Closes w, the tokens being tk by then; a closed window only loses what
\* memory still holds of it.
Close(w, tk) ==
    /\ timers' = timers \ {w}
    /\ secret' = secret \ {w}
    /\ IF Open(w)
       THEN /\ win' = [win EXCEPT ![w].state = "closed"]
            /\ token' = RevokeSlot(w, tk)
            /\ txt' = TxtAfterClose(w)
       ELSE /\ token' = tk
            /\ UNCHANGED <<win, txt>>

\* expires_at passes.
Lapse(w) ==
    /\ Usable(w)
    /\ win' = [win EXCEPT ![w].late = TRUE]
    /\ UNCHANGED <<up, token, clock, timers, secret, txt, req, torn>>

\* Mutant of Expire: expiry forgets the row.
ExpireTimerOnly(w) ==
    /\ w \in timers
    /\ win[w].late
    /\ timers' = timers \ {w}
    /\ UNCHANGED <<up, win, token, clock, secret, txt, req, torn>>

Expire(w) ==
    /\ w \in timers
    /\ win[w].late
    /\ Close(w, token)
    /\ UNCHANGED <<up, clock, req, torn>>

-----------------------------------------------------------------------------
(* POST /pair.                                                             *)

\* Mutant of Eligible: the expiry of the row is not looked at.
EligibleIgnoresExpiry(method, aim) ==
    IF method = "code"
    THEN {w \in Windows : Open(w) /\ win[w].mode = "code" /\ w = aim}
    ELSE {w \in Windows : Open(w) /\ win[w].mode \in {"any", method}}

\* Windows the request may be answered from, and the one it is.
Eligible(method, aim) ==
    IF method = "code"
    THEN {w \in Windows : Usable(w) /\ win[w].mode = "code" /\ w = aim}
    ELSE {w \in Windows : Usable(w) /\ win[w].mode \in {"any", method}}

Newest(S) == CHOOSE w \in S : \A v \in S : win[v].at <= win[w].at

\* Mutant of Claimable: the claim only refuses a revoked row.
ClaimableNotRevoked(w) == token[win[w].slot] # "revoked"

\* The pending token of w can be claimed.
Claimable(w) == w \in secret /\ token[win[w].slot] = "pending"

\* Mutant of Answer: a window that mints its token is not closed.
AnswerKeepsOpen(r, method, aim, w, t) ==
    LET granted == [state |-> "granted", method |-> method, aim |-> aim, window |-> w,
                    token |-> IF win[w].slot = None THEN t ELSE win[w].slot]
        refused == [NoRequest EXCEPT !.state = "refused"]
    IN  IF win[w].slot = None
        THEN /\ Fresh(t)
             /\ token' = [token EXCEPT ![t] = "active"]
             /\ req' = [req EXCEPT ![r] = granted]
             /\ UNCHANGED <<win, timers, secret, txt>>
        ELSE IF Claimable(w)
        THEN /\ Close(w, [token EXCEPT ![win[w].slot] = "active"])
             /\ req' = [req EXCEPT ![r] = granted]
        ELSE /\ req' = [req EXCEPT ![r] = refused]
             /\ UNCHANGED <<win, token, timers, secret, txt>>

\* What follows an approval: a slot is claimed or refused, a bare window
\* mints t; the window closes once a token is out.
Answer(r, method, aim, w, t) ==
    LET granted == [state |-> "granted", method |-> method, aim |-> aim, window |-> w,
                    token |-> IF win[w].slot = None THEN t ELSE win[w].slot]
        refused == [NoRequest EXCEPT !.state = "refused"]
    IN  IF win[w].slot = None
        THEN /\ Fresh(t)
             /\ Close(w, [token EXCEPT ![t] = "active"])
             /\ req' = [req EXCEPT ![r] = granted]
        ELSE IF Claimable(w)
        THEN /\ Close(w, [token EXCEPT ![win[w].slot] = "active"])
             /\ req' = [req EXCEPT ![r] = granted]
        ELSE /\ req' = [req EXCEPT ![r] = refused]
             /\ UNCHANGED <<win, token, timers, secret, txt>>

\* A request for the slot of window aim, by one of the methods.
Post(r, method, aim) ==
    /\ up
    /\ req[r].state = "none"
    /\ method \in (Modes \union {"mdns"}) \ {"any"}
    /\ IF method \in Slotted
       THEN aim \in Windows /\ win[aim].state # "none" /\ win[aim].mode = method
       ELSE aim = None

PostRefused(r, method, aim) ==
    /\ Post(r, method, aim)
    /\ Eligible(method, aim) = {}
    /\ req' = [req EXCEPT ![r] = [NoRequest EXCEPT !.state = "refused"]]
    /\ UNCHANGED <<up, win, token, clock, timers, secret, txt, torn>>

\* Without a handler the hook approves at once.
PostAnswered(r, method, aim, t) ==
    /\ ~HostHook
    /\ Post(r, method, aim)
    /\ Eligible(method, aim) # {}
    /\ Answer(r, method, aim, Newest(Eligible(method, aim)), t)
    /\ UNCHANGED <<up, clock, torn>>

\* With one, the window found is kept across the wait.
PostAsks(r, method, aim) ==
    /\ HostHook
    /\ Post(r, method, aim)
    /\ Eligible(method, aim) # {}
    /\ req' = [req EXCEPT ![r] = [state |-> "asking", method |-> method, aim |-> aim,
                                  window |-> Newest(Eligible(method, aim)), token |-> None]]
    /\ UNCHANGED <<up, win, token, clock, timers, secret, txt, torn>>

Approve(r, t) ==
    /\ up
    /\ req[r].state = "asking"
    /\ Answer(r, req[r].method, req[r].aim, req[r].window, t)
    /\ UNCHANGED <<up, clock, torn>>

\* The handler rejects, or its 60 s are over.
Reject(r) ==
    /\ up
    /\ req[r].state = "asking"
    /\ req' = [req EXCEPT ![r] = [NoRequest EXCEPT !.state = "refused"]]
    /\ UNCHANGED <<up, win, token, clock, timers, secret, txt, torn>>

Revocable(t) == token[t] \in {"pending", "active"}

\* revoke_token, and the host's revokeToken.
Revoke(t) ==
    /\ up
    /\ Revocable(t)
    /\ token' = [token EXCEPT ![t] = "revoked"]
    /\ UNCHANGED <<up, win, clock, timers, secret, txt, req, torn>>

-----------------------------------------------------------------------------
(* The server around it.                                                   *)

ActiveTokens == {t \in Tokens : token[t] = "active"}

Start ==
    /\ ~up
    /\ ActiveTokens # {}
    /\ up' = TRUE
    /\ txt' = FreshTxt
    /\ UNCHANGED <<win, token, clock, timers, secret, req, torn>>

\* No active token: a window opens by itself and the bootstrap token is out.
FirstRun(w, t) ==
    /\ ~up
    /\ ActiveTokens = {}
    /\ Fresh(t)
    /\ OpenRow(w, "any", None)
    /\ token' = [token EXCEPT ![t] = "active"]
    /\ up' = TRUE
    /\ UNCHANGED <<secret, req, torn>>

\* The transports drain first, so no request is left asking.
Stop ==
    /\ up
    /\ \A r \in Requests : req[r].state # "asking"
    /\ up' = FALSE
    /\ win' = [w \in Windows |-> IF Open(w) THEN [win[w] EXCEPT !.state = "closed"] ELSE win[w]]
    /\ token' = [t \in Tokens |->
                    IF token[t] = "pending" /\ \E w \in Windows : Open(w) /\ win[w].slot = t
                    THEN "revoked" ELSE token[t]]
    /\ timers' = {}
    /\ secret' = {}
    /\ txt' = FreshTxt
    /\ UNCHANGED <<clock, req, torn>>

(* Deaths of the process, by what the database keeps of the call they fall *)
(* into.                                                                   *)

Dies ==
    /\ Crashes
    /\ up' = FALSE
    /\ timers' = {}
    /\ secret' = {}
    /\ txt' = FreshTxt
    /\ req' = [r \in Requests |->
                  IF req[r].state = "asking" THEN [NoRequest EXCEPT !.state = "refused"] ELSE req[r]]

\* Between two calls, or at an await.
Crash ==
    /\ up
    /\ Dies
    /\ UNCHANGED <<win, token, clock, torn>>

\* In openWindow: the slot's token is inserted, its window is not.
CrashInOpen(t) ==
    /\ up
    /\ Modes \intersect Slotted # {}
    /\ Fresh(t)
    /\ Dies
    /\ token' = [token EXCEPT ![t] = "pending"]
    /\ UNCHANGED <<win, clock, torn>>

\* In closeWindow on expiry: the window is closed, its slot not revoked.
CrashInExpire(w) ==
    /\ up
    /\ w \in timers
    /\ win[w].late /\ Open(w)
    /\ Dies
    /\ win' = [win EXCEPT ![w].state = "closed"]
    /\ torn' = torn \union {w}
    /\ UNCHANGED <<token, clock>>

\* In closeAllWindows: the windows of S are closed, half came without its slot.
CrashInStop(S, half) ==
    /\ up
    /\ \A r \in Requests : req[r].state # "asking"
    /\ \A w \in S : Open(w)
    /\ half \subseteq S /\ \A v, w \in half : v = w
    /\ Dies
    /\ win' = [w \in Windows |-> IF w \in S THEN [win[w] EXCEPT !.state = "closed"] ELSE win[w]]
    /\ token' = [t \in Tokens |->
                    IF token[t] = "pending" /\ \E w \in S \ half : win[w].slot = t
                    THEN "revoked" ELSE token[t]]
    /\ torn' = torn \union half
    /\ UNCHANGED clock

\* Windows the answer to r may be at work on.
Answering(r) ==
    IF HostHook THEN {w \in Windows : req[r].state = "asking" /\ req[r].window = w}
    ELSE {w \in Windows : \E method \in AllModes, aim \in Windows \union {None} :
             /\ Post(r, method, aim)
             /\ Eligible(method, aim) # {}
             /\ w = Newest(Eligible(method, aim))}

\* In an answer: the token is out, the window still open, the device has nothing.
CrashInAnswer(r, w, t) ==
    /\ up
    /\ w \in Answering(r)
    /\ IF win[w].slot = None THEN Fresh(t) ELSE Claimable(w) /\ win[w].slot = t
    /\ Dies
    /\ token' = [token EXCEPT ![t] = "active"]
    /\ UNCHANGED <<win, clock, torn>>

\* At the first start: the window is open, the bootstrap token not issued.
CrashInFirstRun(w) ==
    /\ ~up
    /\ ActiveTokens = {}
    /\ InsertWindow(w, "any", None)
    /\ Dies
    /\ UNCHANGED <<token, torn>>

Death ==
    \/ Crash
    \/ \E t \in Tokens : CrashInOpen(t)
    \/ \E w \in Windows : CrashInExpire(w)
    \/ \E S \in SUBSET Windows : \E half \in SUBSET S : CrashInStop(S, half)
    \/ \E r \in Requests, w \in Windows, t \in Tokens : CrashInAnswer(r, w, t)
    \/ \E w \in Windows : CrashInFirstRun(w)

-----------------------------------------------------------------------------
Next ==
    \/ \E w \in Windows, mode \in AllModes : OpenBare(w, mode)
    \/ \E w \in Windows, mode \in AllModes, t \in Tokens : OpenSlot(w, mode, t)
    \/ \E w \in Windows : Lapse(w)
    \/ \E w \in Windows : Expire(w)
    \/ \E r \in Requests, method \in AllModes, aim \in Windows \union {None} : PostRefused(r, method, aim)
    \/ \E r \in Requests, method \in AllModes, aim \in Windows \union {None},
         t \in Tokens : PostAnswered(r, method, aim, t)
    \/ \E r \in Requests, method \in AllModes, aim \in Windows \union {None} : PostAsks(r, method, aim)
    \/ \E r \in Requests, t \in Tokens : Approve(r, t)
    \/ \E r \in Requests : Reject(r)
    \/ \E t \in Tokens : Revoke(t)
    \/ Start
    \/ \E w \in Windows, t \in Tokens : FirstRun(w, t)
    \/ Stop
    \/ Death

Spec == Init /\ [][Next]_vars

\* Time passes, timers fire, and a server that is down is started again.
Fairness ==
    /\ \A w \in Windows : WF_vars(Lapse(w)) /\ WF_vars(Expire(w))
    /\ WF_vars(Start)

FairSpec == Spec /\ Fairness

-----------------------------------------------------------------------------
WindowType == [state: {"none", "open", "closed"}, mode: AllModes, late: BOOLEAN,
               slot: Tokens \union {None}, at: Nat]
RequestType == [state: {"none", "asking", "granted", "refused"}, method: AllModes,
                aim: Windows \union {None}, window: Windows \union {None},
                token: Tokens \union {None}]

\* Type correctness: rows, timers and requests keep their shape, and an asking
\* request holds a window that exists (manager.ts:401-413).
TypeOK ==
    /\ up \in BOOLEAN
    /\ win \in [Windows -> WindowType]
    /\ token \in [Tokens -> {"none", "pending", "active", "revoked"}]
    /\ clock \in Nat
    /\ timers \subseteq Windows
    /\ secret \subseteq Windows
    /\ txt \in [po: BOOLEAN, pairing_open: BOOLEAN]
    /\ req \in [Requests -> RequestType]
    /\ torn \subseteq Windows
    /\ \A r \in Requests : req[r].state = "asking" => req[r].window \in Windows

\* The QR or manual URL of a closed window is void, whatever closed it (claim,
\* expiry, stop) and in whatever order the hook answers (manager.ts:269-283):
\* its slot is not pending, or a death fell between the two writes of the
\* closing, and then the row stays pending but nobody can claim it.
ClosedSlotVoid ==
    \A w \in Windows :
        win[w].state = "closed" /\ win[w].slot # None /\ token[win[w].slot] = "pending" =>
            w \in torn /\ ~Claimable(w)

\* A revoked token never becomes active or pending again, even when it was
\* revoked while a request for its slot waited for the host (FR-28).
RevokedStaysRevoked ==
    [][\A t \in Tokens : token[t] = "revoked" => token'[t] = "revoked"]_vars

\* Two devices are never handed the same token, however their requests
\* overlap: a slot is claimed once (manager.ts:649-671).
TokenPerDevice ==
    \A r, s \in Requests :
        r # s /\ req[r].state = "granted" /\ req[s].state = "granted" =>
            req[r].token # req[s].token

\* The flag the manager publishes: while a window can be used it is set, and
\* it is not left set once every window is closed (manager.ts:298).
FlagFollowsWindows ==
    up => /\ (\E w \in Windows : Usable(w)) => txt.pairing_open
          /\ txt.pairing_open => \E w \in Windows : Open(w)

\* Once the server stays up every window is closed in the end (FR-4: a
\* time-bounded interval whose close is announced).
WindowsClose == \A w \in Windows : <>[]up => (Open(w) ~> ~Open(w))

\* A token is handed out only while its window is open and not expired (FR-7).
GrantsInWindow ==
    [][\A r \in Requests : req'[r].state = "granted" /\ req[r].state # "granted" =>
          Usable(req'[r].window)]_vars

\* One-shot: at most one device is paired through a window (manager.ts:472).
OneDevicePerWindow ==
    \A r, s \in Requests :
        r # s /\ req[r].state = "granted" /\ req[s].state = "granted" =>
            req[r].window # req[s].window

\* A claim uses up the slot it was made for (FR-19).
ClaimsOwnSlot ==
    \A r \in Requests : req[r].state = "granted" /\ req[r].method \in Slotted =>
        req[r].window = req[r].aim

\* The advertised "po" key tells whether a window is open (mdns.ts:35).
PoFollowsWindows == up /\ (\E w \in Windows : Usable(w)) => txt.po

\* A window that can be used is advertised by the flag, restarts included
\* (FR-3, requirements.md:54).
UsableIsFlagged == up /\ (\E w \in Windows : Usable(w)) => txt.pairing_open

=============================================================================
