--------------------------- MODULE Pairing_proofs ---------------------------
(***************************************************************************)
(* Proofs about Pairing for any number of windows, tokens and requests,    *)
(* with and without a host hook, and with deaths of the process unless the *)
(* theorem says otherwise.                                                 *)
(***************************************************************************)
EXTENDS Pairing, WellFoundedInduction, TLAPS

Status == {"none", "pending", "active", "revoked"}

-----------------------------------------------------------------------------
(* The steps that move rows.                                               *)

LEMMA NewRowType ==
  ASSUME NEW mode \in AllModes, NEW slot \in Tokens \union {None}, clock \in Nat
  PROVE  [state |-> "open", mode |-> mode, late |-> FALSE, slot |-> slot, at |-> clock + 1]
            \in WindowType
  BY DEF WindowType

(* A new window touches one row, which was none before.                    *)
LEMMA InsertFacts ==
  ASSUME TypeOK, NEW w \in Windows, NEW mode \in AllModes, NEW slot \in Tokens \union {None},
         InsertWindow(w, mode, slot)
  PROVE  /\ win' \in [Windows -> WindowType]
         /\ clock' \in Nat
         /\ win[w].state = "none" /\ win'[w].state = "open" /\ win'[w].slot = slot
         /\ \A v \in Windows \ {w} : win'[v] = win[v]
<1> DEFINE row == [state |-> "open", mode |-> mode, late |-> FALSE, slot |-> slot, at |-> clock + 1]
<1>1. row \in WindowType
  BY NewRowType DEF TypeOK
<1>2. row.state = "open" /\ row.slot = slot
  OBVIOUS
<1>3. win' = [win EXCEPT ![w] = row] /\ win \in [Windows -> WindowType]
  BY DEF InsertWindow, TypeOK
<1> HIDE DEF row
<1>4. win' \in [Windows -> WindowType] /\ win'[w] = row /\ \A v \in Windows \ {w} : win'[v] = win[v]
  BY <1>1, <1>3
<1>5. clock' \in Nat /\ win[w].state = "none"
  BY DEF InsertWindow, TypeOK
<1> QED
  BY <1>2, <1>4, <1>5

(* Opening touches one row, which was none before. *)
LEMMA OpenRowFacts ==
  ASSUME TypeOK, NEW w \in Windows, NEW mode \in AllModes, NEW slot \in Tokens \union {None},
         OpenRow(w, mode, slot)
  PROVE  /\ win' \in [Windows -> WindowType]
         /\ clock' \in Nat
         /\ timers' \subseteq Windows
         /\ txt' \in [po: BOOLEAN, pairing_open: BOOLEAN]
         /\ txt'.pairing_open
         /\ win[w].state = "none" /\ win'[w].state = "open" /\ win'[w].slot = slot
         /\ \A v \in Windows \ {w} : win'[v] = win[v]
<1>1. InsertWindow(w, mode, slot)
  BY DEF OpenRow
<1>2. timers' \subseteq Windows
  BY DEF OpenRow, TypeOK
<1>3. txt' \in [po: BOOLEAN, pairing_open: BOOLEAN] /\ txt'.pairing_open
  BY DEF OpenRow, TypeOK
<1> QED
  BY <1>1, <1>2, <1>3, InsertFacts

(* What closing does to the tokens: at most the slot goes from pending to  *)
(* revoked.                                                                *)
LEMMA RevokeSlotFacts ==
  ASSUME NEW w \in Windows, NEW tk \in [Tokens -> Status], win[w].slot \in Tokens \union {None}
  PROVE  /\ RevokeSlot(w, tk) \in [Tokens -> Status]
         /\ win[w].slot # None => RevokeSlot(w, tk)[win[w].slot] # "pending"
         /\ \A t \in Tokens : \/ RevokeSlot(w, tk)[t] = tk[t]
                              \/ tk[t] = "pending" /\ RevokeSlot(w, tk)[t] = "revoked"
<1>1. CASE win[w].slot # None /\ tk[win[w].slot] = "pending"
  <2>1. win[w].slot \in Tokens
    BY <1>1
  <2>2. RevokeSlot(w, tk) = [tk EXCEPT ![win[w].slot] = "revoked"]
    BY <1>1 DEF RevokeSlot
  <2> QED
    BY <1>1, <2>1, <2>2 DEF Status
<1>2. CASE ~(win[w].slot # None /\ tk[win[w].slot] = "pending")
  <2>1. RevokeSlot(w, tk) = tk
    BY <1>2 DEF RevokeSlot
  <2> QED
    BY <1>2, <2>1
<1> QED
  BY <1>1, <1>2

LEMMA TxtAfterCloseType ==
  ASSUME TypeOK, NEW w \in Windows
  PROVE  TxtAfterClose(w) \in [po: BOOLEAN, pairing_open: BOOLEAN]
  BY DEF TypeOK, TxtAfterClose

(* Closing leaves the slots of all windows and the state of all others.    *)
LEMMA CloseFacts ==
  ASSUME TypeOK, NEW w \in Windows, NEW tk \in [Tokens -> Status], Close(w, tk)
  PROVE  /\ win' \in [Windows -> WindowType]
         /\ token' \in [Tokens -> Status]
         /\ timers' \subseteq Windows /\ secret' \subseteq Windows
         /\ txt' \in [po: BOOLEAN, pairing_open: BOOLEAN]
         /\ \A v \in Windows : win'[v].slot = win[v].slot /\ win'[v].late = win[v].late
         /\ \A v \in Windows \ {w} : win'[v].state = win[v].state
         /\ \A t \in Tokens : \/ token'[t] = tk[t]
                              \/ tk[t] = "pending" /\ token'[t] = "revoked"
<1>1. timers' \subseteq Windows /\ secret' \subseteq Windows
  BY DEF TypeOK, Close
<1>2. win[w].slot \in Tokens \union {None}
  BY DEF TypeOK, WindowType
<1>3. CASE Open(w)
  <2>1. win' = [win EXCEPT ![w].state = "closed"]
    BY <1>3 DEF Close
  <2>2. win \in [Windows -> WindowType]
    BY DEF TypeOK
  <2>3. win' \in [Windows -> WindowType]
    BY <2>1, <2>2 DEF WindowType
  <2>4. /\ \A v \in Windows : win'[v].slot = win[v].slot /\ win'[v].late = win[v].late
        /\ \A v \in Windows \ {w} : win'[v].state = win[v].state
    BY <2>1, <2>2 DEF WindowType
  <2>5. token' = RevokeSlot(w, tk) /\ txt' = TxtAfterClose(w)
    BY <1>3 DEF Close
  <2> QED
    BY <1>1, <1>2, <2>3, <2>4, <2>5, RevokeSlotFacts, TxtAfterCloseType
<1>4. CASE ~Open(w)
  <2>1. win' = win /\ token' = tk /\ txt' = txt
    BY <1>4 DEF Close
  <2>2. win \in [Windows -> WindowType] /\ txt \in [po: BOOLEAN, pairing_open: BOOLEAN]
    BY DEF TypeOK
  <2> QED
    BY <1>1, <2>1, <2>2
<1> QED
  BY <1>3, <1>4

(* The window closed is the only one that closes, and its slot is void.    *)
LEMMA CloseVoids ==
  ASSUME TypeOK, NEW w \in Windows, NEW tk \in [Tokens -> Status], Close(w, tk)
  PROVE  /\ Open(w) => win'[w].state = "closed"
                       /\ (win[w].slot # None => token'[win[w].slot] # "pending")
         /\ ~Open(w) => win' = win /\ token' = tk
<1>1. win[w].slot \in Tokens \union {None} /\ win \in [Windows -> WindowType]
  BY DEF TypeOK, WindowType
<1>2. ASSUME Open(w)
      PROVE  win'[w].state = "closed" /\ (win[w].slot # None => token'[win[w].slot] # "pending")
  <2>1. win' = [win EXCEPT ![w].state = "closed"] /\ token' = RevokeSlot(w, tk)
    BY <1>2 DEF Close
  <2>2. win'[w].state = "closed"
    BY <1>1, <2>1 DEF WindowType
  <2> QED
    BY <1>1, <2>1, <2>2, RevokeSlotFacts
<1> QED
  BY <1>2 DEF Close

-----------------------------------------------------------------------------
(* Answers.                                                                *)

Refused == [NoRequest EXCEPT !.state = "refused"]
Granted(method, aim, w, g) ==
    [state |-> "granted", method |-> method, aim |-> aim, window |-> w, token |-> g]

LEMMA RefusedType == Refused \in RequestType /\ Refused.state = "refused"
  BY DEF Refused, NoRequest, RequestType, AllModes

LEMMA GrantedType ==
  ASSUME NEW method \in AllModes, NEW aim \in Windows \union {None}, NEW w \in Windows,
         NEW g \in Tokens
  PROVE  /\ Granted(method, aim, w, g) \in RequestType
         /\ Granted(method, aim, w, g).state = "granted"
         /\ Granted(method, aim, w, g).token = g
  BY DEF Granted, RequestType

Refuses(r) ==
    /\ req' = [req EXCEPT ![r] = Refused]
    /\ UNCHANGED <<win, token, timers, secret, txt>>

Gives(r, method, aim, w, g) ==
    /\ token[g] \in {"none", "pending"}
    /\ Close(w, [token EXCEPT ![g] = "active"])
    /\ req' = [req EXCEPT ![r] = Granted(method, aim, w, g)]

(* An answer refuses, or gives out a token that was not out before.        *)
LEMMA AnswerCases ==
  ASSUME TypeOK, NEW r \in Requests, NEW method \in AllModes, NEW aim \in Windows \union {None},
         NEW w \in Windows, NEW t \in Tokens, Answer(r, method, aim, w, t)
  PROVE  \/ Refuses(r)
         \/ \E g \in Tokens : Gives(r, method, aim, w, g)
<1>0. win[w].slot \in Tokens \union {None}
  BY DEF TypeOK, WindowType
<1>1. CASE win[w].slot = None
  <2>1. Gives(r, method, aim, w, t)
    BY <1>1 DEF Answer, Gives, Granted, Fresh
  <2> QED
    BY <2>1
<1>2. CASE win[w].slot # None /\ Claimable(w)
  <2> DEFINE g == win[w].slot
  <2>1. g \in Tokens
    BY <1>0, <1>2
  <2>2. Gives(r, method, aim, w, g)
    BY <1>2 DEF Answer, Gives, Granted, Claimable
  <2> QED
    BY <2>1, <2>2
<1>3. CASE win[w].slot # None /\ ~Claimable(w)
  BY <1>3 DEF Answer, Refuses, Refused
<1> QED
  BY <1>1, <1>2, <1>3

(* No window was opened after now.                                         *)
AtBounded == \A w \in Windows : win[w].at <= clock

(* There is a newest window among any, even infinitely many.               *)
LEMMA NewestExists ==
  ASSUME TypeOK, AtBounded, NEW S \in SUBSET Windows, S # {}
  PROVE  \E w \in S : \A v \in S : win[v].at <= win[w].at
<1> DEFINE Age(w) == clock - win[w].at
           T == {Age(w) : w \in S}
           R == OpToRel(<, Nat)
<1>1. \A w \in S : win[w].at \in Nat /\ clock \in Nat /\ win[w].at <= clock
  BY DEF TypeOK, WindowType, AtBounded
<1>2. T \subseteq Nat /\ T # {}
  BY <1>1
<1>3. PICK x \in T : \A y \in T : ~(<<y, x>> \in R)
  <2>1. IsWellFoundedOn(R, Nat)
    BY NatLessThanWellFounded
  <2> HIDE DEF R, T
  <2> QED
    BY <1>2, <2>1, WFMin
<1>4. \A y \in T : ~(y < x)
  <2>1. \A y \in T : y \in Nat /\ x \in Nat
    BY <1>2
  <2> QED
    BY <1>3, <2>1 DEF OpToRel
<1>5. PICK w \in S : x = Age(w)
  OBVIOUS
<1>6. \A v \in S : ~(Age(v) < Age(w))
  BY <1>4, <1>5
<1>7. \A v \in S : win[v].at <= win[w].at
  BY <1>1, <1>6
<1> QED
  BY <1>7

(* The window a request without a handler is answered from.                *)
LEMMA EligibleWindow ==
  ASSUME TypeOK, AtBounded, NEW method, NEW aim, Eligible(method, aim) # {}
  PROVE  Newest(Eligible(method, aim)) \in Windows
<1> DEFINE S == Eligible(method, aim)
<1>1. S \in SUBSET Windows
  BY DEF Eligible
<1>2. \E w \in S : \A v \in S : win[v].at <= win[w].at
  BY <1>1, NewestExists
<1> QED
  BY <1>1, <1>2 DEF Newest

-----------------------------------------------------------------------------
(* Type correctness.                                                       *)

TypedRows ==
    /\ win \in [Windows -> WindowType]
    /\ token \in [Tokens -> Status]
    /\ timers \subseteq Windows
    /\ secret \subseteq Windows
    /\ txt \in [po: BOOLEAN, pairing_open: BOOLEAN]

TypedRequests ==
    /\ req \in [Requests -> RequestType]
    /\ \A r \in Requests : req[r].state = "asking" => req[r].window \in Windows

Typed == TypedRows /\ TypedRequests /\ up \in BOOLEAN /\ clock \in Nat /\ torn \subseteq Windows

LEMMA TypeParts == (TypeOK <=> Typed) /\ (TypeOK' <=> Typed')
  BY DEF TypeOK, Typed, TypedRows, TypedRequests, Status

LEMMA FreshTxtType == FreshTxt \in [po: BOOLEAN, pairing_open: BOOLEAN]
  BY DEF FreshTxt

LEMMA RequestUpdate ==
  ASSUME TypedRequests, NEW r \in Requests, NEW q \in RequestType,
         q.state = "asking" => q.window \in Windows, req' = [req EXCEPT ![r] = q]
  PROVE  TypedRequests'
<1>1. req \in [Requests -> RequestType]
  BY DEF TypedRequests
<1>2. req'[r] = q /\ \A s \in Requests \ {r} : req'[s] = req[s]
  BY <1>1
<1>3. req' \in [Requests -> RequestType]
  BY <1>1
<1>4. \A s \in Requests : req'[s].state = "asking" => req'[s].window \in Windows
  BY <1>2 DEF TypedRequests
<1> QED
  BY <1>3, <1>4 DEF TypedRequests

LEMMA AnswerTyped ==
  ASSUME TypeOK, NEW r \in Requests, NEW method \in AllModes, NEW aim \in Windows \union {None},
         NEW w \in Windows, NEW t \in Tokens, Answer(r, method, aim, w, t)
  PROVE  TypedRows' /\ TypedRequests'
<1>0. TypedRows /\ TypedRequests
  BY TypeParts DEF Typed
<1>1. CASE Refuses(r)
  <2>1. TypedRows'
    BY <1>0, <1>1 DEF TypedRows, Refuses
  <2>2. TypedRequests'
    BY <1>0, <1>1, RefusedType, RequestUpdate DEF Refuses
  <2> QED
    BY <2>1, <2>2
<1>2. CASE \E g \in Tokens : Gives(r, method, aim, w, g)
  <2>0. PICK g \in Tokens : Gives(r, method, aim, w, g)
    BY <1>2
  <2>1. [token EXCEPT ![g] = "active"] \in [Tokens -> Status]
    BY <1>0 DEF TypedRows, Status
  <2>2. TypedRows'
    BY <2>0, <2>1, CloseFacts DEF TypedRows, Gives
  <2>3. TypedRequests'
    BY <1>0, <2>0, GrantedType, RequestUpdate DEF Gives
  <2> QED
    BY <2>2, <2>3
<1> QED
  BY <1>1, <1>2, AnswerCases

(* What the parts of a request are.                                        *)
LEMMA AskingParts ==
  ASSUME TypeOK, NEW r \in Requests, req[r].state = "asking"
  PROVE  /\ req[r].method \in AllModes /\ req[r].aim \in Windows \union {None}
         /\ req[r].window \in Windows
  BY DEF TypeOK, RequestType

LEMMA StopTyped ==
  ASSUME TypeOK, Stop
  PROVE  TypedRows' /\ TypedRequests'
<1>1. win \in [Windows -> WindowType] /\ token \in [Tokens -> Status] /\ TypedRequests
  BY TypeParts DEF Typed, TypedRows
<1>2. \A w \in Windows : win[w] \in WindowType /\ [win[w] EXCEPT !.state = "closed"] \in WindowType
  BY <1>1 DEF WindowType
<1>3. win' \in [Windows -> WindowType]
  BY <1>2 DEF Stop
<1>4. token' \in [Tokens -> Status]
  BY <1>1 DEF Stop, Status
<1>5. TypedRequests'
  BY <1>1 DEF Stop, TypedRequests
<1> QED
  BY <1>3, <1>4, <1>5, FreshTxtType DEF Stop, TypedRows

(* A death leaves nothing in memory and refuses who was waiting.           *)
LEMMA DiesTyped ==
  ASSUME TypeOK, Dies
  PROVE  /\ TypedRequests'
         /\ timers' \subseteq Windows /\ secret' = {}
         /\ txt' \in [po: BOOLEAN, pairing_open: BOOLEAN]
         /\ up' = FALSE
         /\ \A r \in Requests : req'[r] = req[r] \/ req'[r] = Refused
<1>1. TypedRows /\ TypedRequests
  BY TypeParts DEF Typed
<1>2. \A r \in Requests : req'[r] = req[r] \/ req'[r] = Refused
  BY DEF Dies, Refused
<1>3. \A r \in Requests : req'[r] \in RequestType
  BY <1>1, <1>2, RefusedType DEF TypedRequests
<1>4. req' \in [Requests -> RequestType]
  BY <1>3 DEF Dies
<1>5. \A r \in Requests : req'[r].state # "asking"
  BY RefusedType DEF Dies, Refused
<1> QED
  BY <1>2, <1>4, <1>5, FreshTxtType DEF Dies, TypedRequests

LEMMA DeathTyped ==
  ASSUME TypeOK, Death
  PROVE  Typed'
<1>0. /\ win \in [Windows -> WindowType] /\ token \in [Tokens -> Status]
      /\ clock \in Nat /\ torn \subseteq Windows
  BY TypeParts DEF Typed, TypedRows
<1>1. SUFFICES /\ Dies /\ torn' \subseteq Windows /\ clock' \in Nat
               /\ win' \in [Windows -> WindowType] /\ token' \in [Tokens -> Status]
  BY DiesTyped DEF Typed, TypedRows
<1>2. CASE Crash
  BY <1>0, <1>2 DEF Crash
<1>3. ASSUME NEW t \in Tokens, CrashInOpen(t)
      PROVE  /\ Dies /\ torn' \subseteq Windows /\ clock' \in Nat
             /\ win' \in [Windows -> WindowType] /\ token' \in [Tokens -> Status]
  BY <1>0, <1>3 DEF CrashInOpen, Status
<1>4. ASSUME NEW w \in Windows, CrashInExpire(w)
      PROVE  /\ Dies /\ torn' \subseteq Windows /\ clock' \in Nat
             /\ win' \in [Windows -> WindowType] /\ token' \in [Tokens -> Status]
  <2>1. win' \in [Windows -> WindowType]
    BY <1>0, <1>4 DEF CrashInExpire, WindowType
  <2> QED
    BY <1>0, <1>4, <2>1 DEF CrashInExpire
<1>5. ASSUME NEW S \in SUBSET Windows, NEW half \in SUBSET S, CrashInStop(S, half)
      PROVE  /\ Dies /\ torn' \subseteq Windows /\ clock' \in Nat
             /\ win' \in [Windows -> WindowType] /\ token' \in [Tokens -> Status]
  <2>1. \A w \in Windows : win[w] \in WindowType /\ [win[w] EXCEPT !.state = "closed"] \in WindowType
    BY <1>0 DEF WindowType
  <2>2. win' \in [Windows -> WindowType]
    BY <1>5, <2>1 DEF CrashInStop
  <2>3. token' \in [Tokens -> Status]
    BY <1>0, <1>5 DEF CrashInStop, Status
  <2> QED
    BY <1>0, <1>5, <2>2, <2>3 DEF CrashInStop
<1>6. ASSUME NEW r \in Requests, NEW w \in Windows, NEW t \in Tokens, CrashInAnswer(r, w, t)
      PROVE  /\ Dies /\ torn' \subseteq Windows /\ clock' \in Nat
             /\ win' \in [Windows -> WindowType] /\ token' \in [Tokens -> Status]
  BY <1>0, <1>6 DEF CrashInAnswer, Status
<1>7. ASSUME NEW w \in Windows, CrashInFirstRun(w)
      PROVE  /\ Dies /\ torn' \subseteq Windows /\ clock' \in Nat
             /\ win' \in [Windows -> WindowType] /\ token' \in [Tokens -> Status]
  BY <1>0, <1>7, InsertFacts DEF CrashInFirstRun, AllModes
<1> QED
  BY <1>2, <1>3, <1>4, <1>5, <1>6, <1>7 DEF Death

LEMMA InitType == Init => TypeOK
<1>1. NoWindow \in WindowType
  BY DEF NoWindow, WindowType, AllModes
<1>2. NoRequest \in RequestType /\ NoRequest.state = "none"
  BY DEF NoRequest, RequestType, AllModes
<1>3. ASSUME Init PROVE TypedRows /\ TypedRequests
  BY <1>1, <1>2, <1>3, FreshTxtType DEF Init, TypedRows, TypedRequests, Status
<1>4. Init => up \in BOOLEAN
  BY Zenon DEF Init
<1>5. Init => clock \in Nat
  BY SMT DEF Init
<1>6. Init => torn \subseteq Windows
  BY Zenon DEF Init
<1> QED
  BY <1>3, <1>4, <1>5, <1>6, TypeParts DEF Typed

LEMMA SlotIssueTyped ==
  ASSUME TypeOK, NEW w \in Windows, NEW mode \in AllModes, NEW t \in Tokens, NEW s \in Status,
         NEW slot \in Tokens \union {None}, OpenRow(w, mode, slot),
         token' = [token EXCEPT ![t] = s], secret' \subseteq Windows
  PROVE  TypedRows' /\ clock' \in Nat
  BY OpenRowFacts, TypeParts DEF Typed, TypedRows

LEMMA NextType == TypeOK /\ AtBounded /\ [Next]_vars => TypeOK'
<1> SUFFICES ASSUME TypeOK, AtBounded, [Next]_vars PROVE Typed'
  BY TypeParts
<1>0. TypedRows /\ TypedRequests /\ up \in BOOLEAN /\ clock \in Nat /\ torn \subseteq Windows
  BY TypeParts DEF Typed
<1>1. ASSUME NEW w \in Windows, NEW mode \in AllModes, OpenBare(w, mode) PROVE Typed'
  <2>1. TypedRows' /\ clock' \in Nat
    BY <1>0, <1>1, OpenRowFacts DEF OpenBare, TypedRows
  <2> QED
    BY <1>0, <1>1, <2>1 DEF Typed, OpenBare, TypedRequests
<1>2. ASSUME NEW w \in Windows, NEW mode \in AllModes, NEW t \in Tokens, OpenSlot(w, mode, t)
      PROVE Typed'
  <2>1. TypedRows' /\ clock' \in Nat
    BY <1>0, <1>2, SlotIssueTyped DEF OpenSlot, TypedRows, Status
  <2> QED
    BY <1>0, <1>2, <2>1 DEF Typed, OpenSlot, TypedRequests
<1>3. ASSUME NEW w \in Windows, Lapse(w) PROVE Typed'
  <2>1. win' \in [Windows -> WindowType]
    BY <1>0, <1>3 DEF Lapse, TypedRows, WindowType
  <2> QED
    BY <1>0, <1>3, <2>1 DEF Typed, Lapse, TypedRows, TypedRequests
<1>4. ASSUME NEW w \in Windows, Expire(w) PROVE Typed'
  <2>1. TypedRows'
    BY <1>0, <1>4, CloseFacts DEF Expire, TypedRows
  <2> QED
    BY <1>0, <1>4, <2>1 DEF Typed, Expire, TypedRequests
<1>5. ASSUME NEW r \in Requests, NEW method \in AllModes, NEW aim \in Windows \union {None},
             PostRefused(r, method, aim)
      PROVE Typed'
  <2>1. TypedRequests'
    BY <1>0, <1>5, RefusedType, RequestUpdate DEF PostRefused, Refused
  <2> QED
    BY <1>0, <1>5, <2>1 DEF Typed, PostRefused, TypedRows
<1>6. ASSUME NEW r \in Requests, NEW method \in AllModes, NEW aim \in Windows \union {None},
             NEW t \in Tokens, PostAnswered(r, method, aim, t)
      PROVE Typed'
  <2>1. Newest(Eligible(method, aim)) \in Windows
    BY <1>6, EligibleWindow DEF PostAnswered
  <2>2. TypedRows' /\ TypedRequests'
    BY <1>6, <2>1, AnswerTyped DEF PostAnswered
  <2> QED
    BY <1>0, <1>6, <2>2 DEF Typed, PostAnswered
<1>7. ASSUME NEW r \in Requests, NEW method \in AllModes, NEW aim \in Windows \union {None},
             PostAsks(r, method, aim)
      PROVE Typed'
  <2> DEFINE w == Newest(Eligible(method, aim))
             q == [state |-> "asking", method |-> method, aim |-> aim, window |-> w,
                   token |-> None]
  <2>1. w \in Windows
    BY <1>7, EligibleWindow DEF PostAsks
  <2>2. q \in RequestType /\ q.window \in Windows
    <3> HIDE DEF w
    <3> QED
      BY <2>1 DEF RequestType
  <2>3. req' = [req EXCEPT ![r] = q]
    BY <1>7 DEF PostAsks
  <2>4. TypedRequests'
    <3> HIDE DEF q
    <3> QED
      BY <1>0, <2>2, <2>3, RequestUpdate
  <2> QED
    BY <1>0, <1>7, <2>4 DEF Typed, PostAsks, TypedRows
<1>8. ASSUME NEW r \in Requests, NEW t \in Tokens, Approve(r, t) PROVE Typed'
  <2>1. TypedRows' /\ TypedRequests'
    BY <1>8, AskingParts, AnswerTyped DEF Approve
  <2> QED
    BY <1>0, <1>8, <2>1 DEF Typed, Approve
<1>9. ASSUME NEW r \in Requests, Reject(r) PROVE Typed'
  <2>1. TypedRequests'
    BY <1>0, <1>9, RefusedType, RequestUpdate DEF Reject, Refused
  <2> QED
    BY <1>0, <1>9, <2>1 DEF Typed, Reject, TypedRows
<1>10. ASSUME NEW t \in Tokens, Revoke(t) PROVE Typed'
  BY <1>0, <1>10 DEF Typed, Revoke, TypedRows, TypedRequests, Status
<1>11. CASE Start
  BY <1>0, <1>11, FreshTxtType DEF Typed, Start, TypedRows, TypedRequests
<1>12. ASSUME NEW w \in Windows, NEW t \in Tokens, FirstRun(w, t) PROVE Typed'
  <2>1. TypedRows' /\ clock' \in Nat
    BY <1>0, <1>12, SlotIssueTyped DEF FirstRun, TypedRows, Status, AllModes
  <2> QED
    BY <1>0, <1>12, <2>1 DEF Typed, FirstRun, TypedRequests
<1>13. CASE Stop
  BY <1>0, <1>13, StopTyped DEF Typed, Stop
<1>14. CASE Death
  BY <1>14, DeathTyped
<1>15. CASE UNCHANGED vars
  BY <1>0, <1>15 DEF Typed, vars, TypedRows, TypedRequests
<1> QED
  BY <1>1, <1>2, <1>3, <1>4, <1>5, <1>6, <1>7, <1>8, <1>9, <1>10, <1>11, <1>12, <1>13, <1>14,
     <1>15 DEF Next

LEMMA InitAt == Init => AtBounded
  BY DEF Init, AtBounded, NoWindow

LEMMA InsertAt ==
  ASSUME TypeOK, AtBounded, NEW w \in Windows, NEW mode, NEW slot, InsertWindow(w, mode, slot)
  PROVE  AtBounded'
<1> DEFINE row == [state |-> "open", mode |-> mode, late |-> FALSE, slot |-> slot, at |-> clock + 1]
<1>1. win' = [win EXCEPT ![w] = row] /\ win \in [Windows -> WindowType]
  BY DEF InsertWindow, TypeOK
<1>2. row.at = clock + 1 /\ clock' = clock + 1 /\ clock \in Nat
  BY DEF InsertWindow, TypeOK
<1> HIDE DEF row
<1>3. \A v \in Windows : win[v].at \in Nat /\ win[v].at <= clock
  BY <1>1 DEF AtBounded, WindowType
<1>4. \A v \in Windows : win'[v] = IF v = w THEN row ELSE win[v]
  BY <1>1
<1>5. \A v \in Windows : win'[v].at <= clock'
  BY <1>2, <1>3, <1>4
<1> QED
  BY <1>5 DEF AtBounded

LEMMA CloseAt ==
  ASSUME TypeOK, AtBounded, NEW w \in Windows, NEW tk, Close(w, tk), clock' = clock
  PROVE  AtBounded'
<1>1. win' = [win EXCEPT ![w].state = "closed"] \/ win' = win
  BY DEF Close
<1>2. \A v \in Windows : win'[v].at = win[v].at
  BY <1>1 DEF TypeOK, WindowType
<1> QED
  BY <1>2 DEF AtBounded

LEMMA AnswerAt ==
  ASSUME TypeOK, AtBounded, NEW r \in Requests, NEW method \in AllModes,
         NEW aim \in Windows \union {None}, NEW w \in Windows, NEW t \in Tokens,
         Answer(r, method, aim, w, t), clock' = clock
  PROVE  AtBounded'
<1>1. CASE Refuses(r)
  BY <1>1 DEF Refuses, AtBounded
<1>2. CASE \E g \in Tokens : Gives(r, method, aim, w, g)
  <2>1. PICK g \in Tokens : Gives(r, method, aim, w, g)
    BY <1>2
  <2> QED
    BY <2>1, CloseAt DEF Gives
<1> QED
  BY <1>1, <1>2, AnswerCases

LEMMA DeathAt ==
  ASSUME TypeOK, AtBounded, Death
  PROVE  AtBounded'
<1>1. ASSUME NEW w \in Windows, CrashInFirstRun(w) PROVE AtBounded'
  BY <1>1, InsertAt DEF CrashInFirstRun
<1>2. ASSUME ~\E w \in Windows : CrashInFirstRun(w) PROVE AtBounded'
  <2>1. clock' = clock /\ \A v \in Windows : win'[v].at = win[v].at
    BY <1>2 DEF Death, Crash, CrashInOpen, CrashInExpire, CrashInStop, CrashInAnswer, TypeOK,
       WindowType
  <2> QED
    BY <2>1 DEF AtBounded
<1> QED
  BY <1>1, <1>2

LEMMA NextAt == TypeOK /\ AtBounded /\ [Next]_vars => AtBounded'
<1> SUFFICES ASSUME TypeOK, AtBounded, [Next]_vars PROVE AtBounded'
  OBVIOUS
<1>1. ASSUME NEW w \in Windows, NEW mode \in AllModes, OpenBare(w, mode) PROVE AtBounded'
  BY <1>1, InsertAt DEF OpenBare, OpenRow
<1>2. ASSUME NEW w \in Windows, NEW mode \in AllModes, NEW t \in Tokens, OpenSlot(w, mode, t)
      PROVE AtBounded'
  BY <1>2, InsertAt DEF OpenSlot, OpenRow
<1>3. ASSUME NEW w \in Windows, Lapse(w) PROVE AtBounded'
  <2>1. \A v \in Windows : win'[v].at = win[v].at
    BY <1>3 DEF Lapse, TypeOK, WindowType
  <2> QED
    BY <1>3, <2>1 DEF Lapse, AtBounded
<1>4. ASSUME NEW w \in Windows, Expire(w) PROVE AtBounded'
  BY <1>4, CloseAt DEF Expire
<1>5. ASSUME NEW r \in Requests, NEW method \in AllModes, NEW aim \in Windows \union {None},
             PostRefused(r, method, aim)
      PROVE AtBounded'
  BY <1>5 DEF PostRefused, AtBounded
<1>6. ASSUME NEW r \in Requests, NEW method \in AllModes, NEW aim \in Windows \union {None},
             NEW t \in Tokens, PostAnswered(r, method, aim, t)
      PROVE AtBounded'
  <2>1. Newest(Eligible(method, aim)) \in Windows
    BY <1>6, EligibleWindow DEF PostAnswered
  <2> QED
    BY <1>6, <2>1, AnswerAt DEF PostAnswered
<1>7. ASSUME NEW r \in Requests, NEW method \in AllModes, NEW aim \in Windows \union {None},
             PostAsks(r, method, aim)
      PROVE AtBounded'
  BY <1>7 DEF PostAsks, AtBounded
<1>8. ASSUME NEW r \in Requests, NEW t \in Tokens, Approve(r, t) PROVE AtBounded'
  BY <1>8, AskingParts, AnswerAt DEF Approve
<1>9. ASSUME NEW r \in Requests, Reject(r) PROVE AtBounded'
  BY <1>9 DEF Reject, AtBounded
<1>10. ASSUME NEW t \in Tokens, Revoke(t) PROVE AtBounded'
  BY <1>10 DEF Revoke, AtBounded
<1>11. CASE Start
  BY <1>11 DEF Start, AtBounded
<1>12. ASSUME NEW w \in Windows, NEW t \in Tokens, FirstRun(w, t) PROVE AtBounded'
  BY <1>12, InsertAt DEF FirstRun, OpenRow
<1>13. CASE Stop
  <2>1. \A v \in Windows : win'[v].at = win[v].at
    BY <1>13 DEF Stop, TypeOK, WindowType
  <2> QED
    BY <1>13, <2>1 DEF Stop, AtBounded
<1>14. CASE Death
  BY <1>14, DeathAt
<1>15. CASE UNCHANGED vars
  BY <1>15 DEF vars, AtBounded
<1> QED
  BY <1>1, <1>2, <1>3, <1>4, <1>5, <1>6, <1>7, <1>8, <1>9, <1>10, <1>11, <1>12, <1>13, <1>14,
     <1>15 DEF Next

(* Every variable keeps its type in every behaviour.                       *)
THEOREM TypeCorrect == Spec => []TypeOK
<1>1. Init => TypeOK /\ AtBounded
  BY InitType, InitAt
<1>2. TypeOK /\ AtBounded /\ [Next]_vars => TypeOK' /\ AtBounded'
  BY NextType, NextAt
<1> QED
  BY <1>1, <1>2, PTL DEF Spec

-----------------------------------------------------------------------------
(* How a step may move a token: never back, and to "pending" only from     *)
(* "none".                                                                 *)

Moves(t) ==
    /\ token[t] = "revoked" => token'[t] = "revoked"
    /\ token[t] = "active" => token'[t] \in {"active", "revoked"}
    /\ token[t] # "none" => token'[t] # "none"
    /\ token'[t] = "pending" => token[t] \in {"none", "pending"}

LEMMA UpdateMoves ==
  ASSUME TypeOK, NEW t \in Tokens, NEW s \in {"pending", "active"}, token[t] = "none",
         token' = [token EXCEPT ![t] = s]
  PROVE  \A u \in Tokens : Moves(u)
<1>1. \A u \in Tokens : token'[u] = IF u = t THEN s ELSE token[u]
  BY DEF TypeOK
<1> QED
  BY <1>1 DEF Moves

LEMMA GivesMoves ==
  ASSUME TypeOK, NEW r, NEW method, NEW aim, NEW w \in Windows,
         NEW g \in Tokens, Gives(r, method, aim, w, g)
  PROVE  /\ \A u \in Tokens : Moves(u)
         /\ token'[g] = "active"
<1> DEFINE tk == [token EXCEPT ![g] = "active"]
<1>1. token \in [Tokens -> Status]
  BY TypeParts DEF Typed, TypedRows
<1>2. tk \in [Tokens -> Status] /\ \A u \in Tokens : tk[u] = IF u = g THEN "active" ELSE token[u]
  BY <1>1 DEF Status
<1>3. Close(w, tk) /\ token[g] \in {"none", "pending"}
  BY DEF Gives
<1> HIDE DEF tk
<1>4. \A u \in Tokens : token'[u] = tk[u] \/ (tk[u] = "pending" /\ token'[u] = "revoked")
  BY <1>2, <1>3, CloseFacts
<1>5. \A u \in Tokens : Moves(u)
  BY <1>2, <1>3, <1>4 DEF Moves
<1> QED
  BY <1>2, <1>4, <1>5

LEMMA AnswerMoves ==
  ASSUME TypeOK, NEW r \in Requests, NEW method \in AllModes,
         NEW aim \in Windows \union {None}, NEW w \in Windows, NEW t \in Tokens,
         Answer(r, method, aim, w, t)
  PROVE  \A u \in Tokens : Moves(u)
<1>1. CASE Refuses(r)
  BY <1>1 DEF Refuses, Moves
<1>2. CASE \E g \in Tokens : Gives(r, method, aim, w, g)
  BY <1>2, GivesMoves
<1> QED
  BY <1>1, <1>2, AnswerCases

LEMMA DeathMoves ==
  ASSUME TypeOK, Death
  PROVE  \A u \in Tokens : Moves(u)
<1>0. token \in [Tokens -> Status]
  BY TypeParts DEF Typed, TypedRows
<1>1. ASSUME UNCHANGED token PROVE \A u \in Tokens : Moves(u)
  BY <1>1 DEF Moves
<1>2. ASSUME NEW t \in Tokens, CrashInOpen(t) PROVE \A u \in Tokens : Moves(u)
  BY <1>2, UpdateMoves DEF CrashInOpen, Fresh
<1>3. ASSUME NEW S \in SUBSET Windows, NEW half \in SUBSET S, CrashInStop(S, half)
      PROVE \A u \in Tokens : Moves(u)
  <2>1. \A u \in Tokens : token'[u] = token[u] \/ (token[u] = "pending" /\ token'[u] = "revoked")
    BY <1>3 DEF CrashInStop
  <2> QED
    BY <2>1 DEF Moves
<1>4. ASSUME NEW r \in Requests, NEW w \in Windows, NEW t \in Tokens, CrashInAnswer(r, w, t)
      PROVE \A u \in Tokens : Moves(u)
  <2>1. token[t] \in {"none", "pending"}
    BY <1>4 DEF CrashInAnswer, Fresh, Claimable
  <2>2. \A u \in Tokens : token'[u] = IF u = t THEN "active" ELSE token[u]
    BY <1>0, <1>4 DEF CrashInAnswer
  <2> QED
    BY <2>1, <2>2 DEF Moves
<1> QED
  BY <1>1, <1>2, <1>3, <1>4 DEF Death, Crash, CrashInExpire, CrashInFirstRun

LEMMA NextMoves == TypeOK /\ AtBounded /\ [Next]_vars => \A u \in Tokens : Moves(u)
<1> SUFFICES ASSUME TypeOK, AtBounded, [Next]_vars PROVE \A u \in Tokens : Moves(u)
  OBVIOUS
<1>1. ASSUME UNCHANGED token PROVE \A u \in Tokens : Moves(u)
  BY <1>1 DEF Moves
<1>2. ASSUME NEW w \in Windows, NEW mode \in AllModes, NEW t \in Tokens, OpenSlot(w, mode, t)
      PROVE \A u \in Tokens : Moves(u)
  BY <1>2, UpdateMoves DEF OpenSlot, Fresh
<1>3. ASSUME NEW w \in Windows, Expire(w) PROVE \A u \in Tokens : Moves(u)
  <2>1. token \in [Tokens -> Status]
    BY TypeParts DEF Typed, TypedRows
  <2>2. \A u \in Tokens : token'[u] = token[u] \/ (token[u] = "pending" /\ token'[u] = "revoked")
    BY <1>3, <2>1, CloseFacts DEF Expire
  <2> QED
    BY <2>2 DEF Moves
<1>4. ASSUME NEW r \in Requests, NEW method \in AllModes, NEW aim \in Windows \union {None},
             NEW t \in Tokens, PostAnswered(r, method, aim, t)
      PROVE \A u \in Tokens : Moves(u)
  <2>1. Newest(Eligible(method, aim)) \in Windows
    BY <1>4, EligibleWindow DEF PostAnswered
  <2> QED
    BY <1>4, <2>1, AnswerMoves DEF PostAnswered
<1>5. ASSUME NEW r \in Requests, NEW t \in Tokens, Approve(r, t)
      PROVE \A u \in Tokens : Moves(u)
  BY <1>5, AskingParts, AnswerMoves DEF Approve
<1>6. ASSUME NEW t \in Tokens, Revoke(t) PROVE \A u \in Tokens : Moves(u)
  <2>1. \A u \in Tokens : token'[u] = IF u = t THEN "revoked" ELSE token[u]
    BY <1>6 DEF Revoke, TypeOK
  <2>2. token[t] \in {"pending", "active"}
    BY <1>6 DEF Revoke, Revocable
  <2> QED
    BY <2>1, <2>2 DEF Moves
<1>7. ASSUME NEW w \in Windows, NEW t \in Tokens, FirstRun(w, t)
      PROVE \A u \in Tokens : Moves(u)
  BY <1>7, UpdateMoves DEF FirstRun, Fresh
<1>8. CASE Stop
  <2>1. \A u \in Tokens : token'[u] = token[u] \/ (token[u] = "pending" /\ token'[u] = "revoked")
    BY <1>8 DEF Stop
  <2> QED
    BY <2>1 DEF Moves
<1>9. CASE Death
  BY <1>9, DeathMoves
<1> QED
  BY <1>1, <1>2, <1>3, <1>4, <1>5, <1>6, <1>7, <1>8, <1>9 DEF Next, OpenBare, Lapse, PostRefused,
     PostAsks, Reject, Start, vars

(* No step makes a revoked token anything else: RevokedStaysRevoked.       *)
THEOREM RevocationFinal == Spec => RevokedStaysRevoked
<1>1. Init => TypeOK /\ AtBounded
  BY InitType, InitAt
<1>2. TypeOK /\ AtBounded /\ [Next]_vars => TypeOK' /\ AtBounded'
  BY NextType, NextAt
<1>3. TypeOK /\ AtBounded /\ [Next]_vars =>
        [\A t \in Tokens : token[t] = "revoked" => token'[t] = "revoked"]_vars
  BY NextMoves DEF Moves
<1> QED
  BY <1>1, <1>2, <1>3, PTL DEF Spec, RevokedStaysRevoked

-----------------------------------------------------------------------------
(* Slots: the token of a window is issued, a closed window's is no longer  *)
(* pending unless its closing was cut short, and memory holds the          *)
(* cleartext of open windows only.                                         *)

SlotOK(w) ==
    /\ w \in secret => win[w].state = "open"
    /\ win[w].slot # None =>
         /\ win[w].state # "none"
         /\ token[win[w].slot] # "none"
         /\ win[w].state = "closed" => token[win[w].slot] # "pending" \/ w \in torn

SlotsOK == \A w \in Windows : SlotOK(w)

\* The row of w keeps its slot and stays, or it closes as it should.
Steady(w) ==
    /\ win'[w].slot = win[w].slot
    /\ \/ win'[w].state = win[w].state /\ (w \in secret' => w \in secret)
       \/ /\ win[w].state = "open" /\ win'[w].state = "closed" /\ w \notin secret'
          /\ win[w].slot # None => token'[win[w].slot] # "pending" \/ w \in torn'

(* Such a row stays in order as tokens only move forward.                  *)
LEMMA SlotKept ==
  ASSUME TypeOK, NEW w \in Windows, SlotOK(w), \A u \in Tokens : Moves(u), Steady(w),
         torn \subseteq torn'
  PROVE  SlotOK(w)'
<1>0. w \in secret' => win'[w].state = "open"
  BY DEF SlotOK, Steady
<1>1. win[w].slot \in Tokens \union {None}
  BY DEF TypeOK, WindowType
<1>2. CASE win[w].slot = None
  BY <1>0, <1>2 DEF SlotOK, Steady
<1>3. CASE win[w].slot \in Tokens /\ win[w].slot # None
  <2>1. Moves(win[w].slot)
    BY <1>3
  <2>2. win'[w].state # "none" /\ token'[win[w].slot] # "none"
    BY <1>3, <2>1 DEF SlotOK, Steady, Moves
  <2>3. win'[w].state = "closed" => token'[win[w].slot] # "pending" \/ w \in torn'
    BY <1>3, <2>1 DEF SlotOK, Steady, Moves
  <2> QED
    BY <1>0, <2>2, <2>3 DEF SlotOK, Steady
<1> QED
  BY <1>1, <1>2, <1>3

LEMMA SlotsUntouched ==
  ASSUME TypeOK, SlotsOK, \A u \in Tokens : Moves(u), win' = win, secret' \subseteq secret,
         torn \subseteq torn'
  PROVE  SlotsOK'
  BY SlotKept DEF SlotsOK, Steady

LEMMA InsertSlots ==
  ASSUME TypeOK, SlotsOK, \A u \in Tokens : Moves(u), NEW w \in Windows, NEW mode \in AllModes,
         NEW slot \in Tokens \union {None}, InsertWindow(w, mode, slot),
         slot # None => token'[slot] # "none", secret' \subseteq secret \union {w}, torn' = torn
  PROVE  SlotsOK'
<1>1. SlotOK(w)'
  BY InsertFacts DEF SlotOK
<1>2. \A v \in Windows \ {w} : SlotOK(v)'
  BY InsertFacts, SlotKept DEF SlotsOK, Steady
<1> QED
  BY <1>1, <1>2 DEF SlotsOK

LEMMA CloseSlots ==
  ASSUME TypeOK, SlotsOK, \A u \in Tokens : Moves(u), NEW w \in Windows,
         NEW tk \in [Tokens -> Status], Close(w, tk), torn' = torn
  PROVE  SlotsOK'
<1>0. secret' = secret \ {w}
  BY DEF Close
<1>1. CASE Open(w)
  <2>1. SlotOK(w)'
    BY <1>0, <1>1, CloseFacts, CloseVoids, SlotKept DEF SlotsOK, Open, Steady
  <2>2. \A v \in Windows \ {w} : SlotOK(v)'
    BY <1>0, CloseFacts, SlotKept DEF SlotsOK, Steady
  <2> QED
    BY <2>1, <2>2 DEF SlotsOK
<1>2. CASE ~Open(w)
  BY <1>0, <1>2, CloseVoids, SlotsUntouched
<1> QED
  BY <1>1, <1>2

LEMMA AnswerSlots ==
  ASSUME TypeOK, SlotsOK, \A u \in Tokens : Moves(u), NEW r \in Requests, NEW method \in AllModes,
         NEW aim \in Windows \union {None}, NEW w \in Windows, NEW t \in Tokens,
         Answer(r, method, aim, w, t), torn' = torn
  PROVE  SlotsOK'
<1>1. CASE Refuses(r)
  BY <1>1, SlotsUntouched DEF Refuses
<1>2. CASE \E g \in Tokens : Gives(r, method, aim, w, g)
  <2>1. PICK g \in Tokens : Gives(r, method, aim, w, g)
    BY <1>2
  <2>2. [token EXCEPT ![g] = "active"] \in [Tokens -> Status]
    BY TypeParts DEF Typed, TypedRows, Status
  <2> QED
    BY <2>1, <2>2, CloseSlots DEF Gives
<1> QED
  BY <1>1, <1>2, AnswerCases

(* What a death does to a window's row: nothing, or it closes or opens it. *)
LEMMA DeathSlots ==
  ASSUME TypeOK, SlotsOK, Death
  PROVE  SlotsOK'
<1>0. (\A u \in Tokens : Moves(u)) /\ win \in [Windows -> WindowType]
  BY DeathMoves DEF TypeOK
<1>1. CASE Crash
  BY <1>0, <1>1, SlotsUntouched DEF Crash, Dies
<1>2. ASSUME NEW t \in Tokens, CrashInOpen(t) PROVE SlotsOK'
  BY <1>0, <1>2, SlotsUntouched DEF CrashInOpen, Dies
<1>3. ASSUME NEW w \in Windows, CrashInExpire(w) PROVE SlotsOK'
  <2>1. ASSUME NEW v \in Windows PROVE Steady(v)
    BY <1>0, <1>3 DEF CrashInExpire, Dies, Steady, Open, WindowType
  <2>2. torn \subseteq torn'
    BY <1>3 DEF CrashInExpire
  <2> QED
    BY <1>0, <2>1, <2>2, SlotKept DEF SlotsOK
<1>4. ASSUME NEW S \in SUBSET Windows, NEW half \in SUBSET S, CrashInStop(S, half)
      PROVE SlotsOK'
  <2>1. secret' = {} /\ torn' = torn \union half
    BY <1>4 DEF CrashInStop, Dies
  <2>2. ASSUME NEW v \in Windows PROVE Steady(v)
    <3>1. CASE v \notin S
      <4>1. win'[v] = win[v]
        BY <1>4, <3>1 DEF CrashInStop
      <4> QED
        BY <2>1, <4>1 DEF Steady
    <3>2. CASE v \in S
      <4>1. win'[v] = [win[v] EXCEPT !.state = "closed"] /\ win[v].state = "open"
        BY <1>4, <3>2 DEF CrashInStop, Open
      <4>2. win'[v].slot = win[v].slot /\ win'[v].state = "closed"
        BY <1>0, <4>1 DEF WindowType
      <4>3. ASSUME win[v].slot # None, v \notin half PROVE token'[win[v].slot] # "pending"
        <5>1. win[v].slot \in Tokens
          BY <1>0, <4>3 DEF WindowType
        <5> QED
          BY <1>4, <3>2, <4>3, <5>1 DEF CrashInStop
      <4> QED
        BY <2>1, <4>1, <4>2, <4>3 DEF Steady
    <3> QED
      BY <3>1, <3>2
  <2> QED
    BY <1>0, <2>1, <2>2, SlotKept DEF SlotsOK
<1>5. ASSUME NEW r \in Requests, NEW w \in Windows, NEW t \in Tokens, CrashInAnswer(r, w, t)
      PROVE SlotsOK'
  BY <1>0, <1>5, SlotsUntouched DEF CrashInAnswer, Dies
<1>6. ASSUME NEW w \in Windows, CrashInFirstRun(w) PROVE SlotsOK'
  BY <1>0, <1>6, InsertSlots DEF CrashInFirstRun, Dies, AllModes
<1> QED
  BY <1>1, <1>2, <1>3, <1>4, <1>5, <1>6 DEF Death

LEMMA NextSlots == TypeOK /\ AtBounded /\ SlotsOK /\ [Next]_vars => SlotsOK'
<1> SUFFICES ASSUME TypeOK, AtBounded, SlotsOK, [Next]_vars PROVE SlotsOK'
  OBVIOUS
<1>0. \A u \in Tokens : Moves(u)
  BY NextMoves
<1>1. ASSUME UNCHANGED <<win, secret, torn>> PROVE SlotsOK'
  BY <1>0, <1>1, SlotsUntouched
<1>2. ASSUME NEW w \in Windows, NEW mode \in AllModes, OpenBare(w, mode) PROVE SlotsOK'
  BY <1>0, <1>2, InsertSlots DEF OpenBare, OpenRow
<1>3. ASSUME NEW w \in Windows, NEW mode \in AllModes, NEW t \in Tokens, OpenSlot(w, mode, t)
      PROVE SlotsOK'
  <2>1. token'[t] # "none"
    BY <1>3 DEF OpenSlot, TypeOK
  <2> QED
    BY <1>0, <1>3, <2>1, InsertSlots DEF OpenSlot, OpenRow
<1>4. ASSUME NEW w \in Windows, Lapse(w) PROVE SlotsOK'
  <2>1. \A v \in Windows : win'[v].slot = win[v].slot /\ win'[v].state = win[v].state
    BY <1>4 DEF Lapse, TypeOK, WindowType
  <2> QED
    BY <1>0, <1>4, <2>1, SlotKept DEF SlotsOK, Steady, Lapse
<1>5. ASSUME NEW w \in Windows, Expire(w) PROVE SlotsOK'
  BY <1>0, <1>5, CloseSlots, TypeParts DEF Expire, Typed, TypedRows
<1>6. ASSUME NEW r \in Requests, NEW method \in AllModes, NEW aim \in Windows \union {None},
             NEW t \in Tokens, PostAnswered(r, method, aim, t)
      PROVE SlotsOK'
  <2>1. Newest(Eligible(method, aim)) \in Windows
    BY <1>6, EligibleWindow DEF PostAnswered
  <2> QED
    BY <1>0, <1>6, <2>1, AnswerSlots DEF PostAnswered
<1>7. ASSUME NEW r \in Requests, NEW t \in Tokens, Approve(r, t) PROVE SlotsOK'
  BY <1>0, <1>7, AskingParts, AnswerSlots DEF Approve
<1>8. ASSUME NEW w \in Windows, NEW t \in Tokens, FirstRun(w, t) PROVE SlotsOK'
  BY <1>0, <1>8, InsertSlots DEF FirstRun, OpenRow, AllModes
<1>9. CASE Stop
  <2>0. secret' = {} /\ torn' = torn
    BY <1>9 DEF Stop
  <2>1. ASSUME NEW v \in Windows PROVE SlotOK(v)'
    <3>1. win'[v].slot = win[v].slot
      BY <1>9 DEF Stop, TypeOK, WindowType
    <3>2. CASE Open(v)
      <4>1. win[v].state = "open" /\ win'[v].state = "closed"
        BY <1>9, <3>2 DEF Stop, Open, TypeOK, WindowType
      <4>2. ASSUME win[v].slot # None PROVE token'[win[v].slot] # "pending"
        <5>1. win[v].slot \in Tokens
          BY <4>2 DEF TypeOK, WindowType
        <5> QED
          BY <1>9, <3>2, <5>1 DEF Stop
      <4> QED
        BY <1>0, <2>0, <3>1, <4>1, <4>2, SlotKept DEF SlotsOK, Steady
    <3>3. CASE ~Open(v)
      <4>1. win'[v] = win[v]
        BY <1>9, <3>3 DEF Stop
      <4> QED
        BY <1>0, <2>0, <4>1, SlotKept DEF SlotsOK, Steady
    <3> QED
      BY <3>2, <3>3
  <2> QED
    BY <2>1 DEF SlotsOK
<1>10. CASE Death
  BY <1>10, DeathSlots
<1> QED
  BY <1>1, <1>2, <1>3, <1>4, <1>5, <1>6, <1>7, <1>8, <1>9, <1>10 DEF Next, PostRefused, PostAsks,
     Reject, Revoke, Start, vars

(* ClosedSlotVoid, with deaths between the two writes of a closing: the    *)
(* slot of a closed window is never pending unless such a death left it    *)
(* so, and then nobody can claim it.                                       *)
THEOREM SlotsVoid == Spec => []ClosedSlotVoid
<1>1. Init => TypeOK /\ AtBounded /\ SlotsOK
  BY InitType, InitAt DEF Init, NoWindow, SlotsOK, SlotOK
<1>2. TypeOK /\ AtBounded /\ SlotsOK /\ [Next]_vars => TypeOK' /\ AtBounded' /\ SlotsOK'
  BY NextType, NextAt, NextSlots
<1>3. SlotsOK => ClosedSlotVoid
  BY DEF SlotsOK, SlotOK, ClosedSlotVoid, Claimable
<1> QED
  BY <1>1, <1>2, <1>3, PTL DEF Spec

-----------------------------------------------------------------------------
(* Grants: a token handed out is active or revoked, so that the next one   *)
(* is another.                                                             *)

Out(r) ==
    req[r].state = "granted" =>
        req[r].token \in Tokens /\ token[req[r].token] \in {"active", "revoked"}

GrantsOK == TokenPerDevice /\ \A r \in Requests : Out(r)

(* Requests that were not granted by the step keep the invariant.          *)
LEMMA GrantsKept ==
  ASSUME TypeOK, GrantsOK, \A u \in Tokens : Moves(u),
         \A r \in Requests : req'[r] = req[r] \/ req'[r].state # "granted"
  PROVE  GrantsOK'
<1>1. ASSUME NEW r \in Requests PROVE Out(r)'
  <2>1. CASE req'[r].state # "granted"
    BY <2>1 DEF Out
  <2>2. CASE req'[r] = req[r] /\ req[r].state = "granted"
    <3>1. Out(r) /\ \A u \in Tokens : Moves(u)
      BY DEF GrantsOK
    <3>2. req[r].token \in Tokens /\ token[req[r].token] \in {"active", "revoked"}
      BY <2>2, <3>1 DEF Out
    <3>3. token'[req[r].token] \in {"active", "revoked"}
      BY <3>1, <3>2 DEF Moves
    <3> QED
      BY <2>2, <3>2, <3>3 DEF Out
  <2> QED
    BY <2>1, <2>2
<1>2. TokenPerDevice'
  BY DEF GrantsOK, TokenPerDevice
<1> QED
  BY <1>1, <1>2 DEF GrantsOK

LEMMA AnswerGrants ==
  ASSUME TypeOK, GrantsOK, NEW r \in Requests, NEW method \in AllModes,
         NEW aim \in Windows \union {None}, NEW w \in Windows, NEW t \in Tokens,
         Answer(r, method, aim, w, t)
  PROVE  GrantsOK'
<1>0. /\ req \in [Requests -> RequestType]
      /\ \A u \in Tokens : Moves(u)
  BY AnswerMoves DEF TypeOK
<1>1. CASE Refuses(r)
  <2>1. \A s \in Requests : req'[s] = req[s] \/ req'[s].state # "granted"
    BY <1>0, <1>1, RefusedType DEF Refuses
  <2> QED
    BY <1>0, <2>1, GrantsKept
<1>2. CASE \E g \in Tokens : Gives(r, method, aim, w, g)
  <2>1. PICK g \in Tokens : Gives(r, method, aim, w, g)
    BY <1>2
  <2>2. token[g] \in {"none", "pending"} /\ token'[g] = "active"
    BY <2>1, GivesMoves DEF Gives
  <2>3. req'[r].token = g /\ \A s \in Requests \ {r} : req'[s] = req[s]
    BY <1>0, <2>1, GrantedType DEF Gives
  <2>4. \A s \in Requests \ {r} : req[s].state = "granted" => req[s].token # g
    BY <2>2 DEF GrantsOK, Out
  <2>5. TokenPerDevice'
    BY <2>3, <2>4 DEF GrantsOK, TokenPerDevice
  <2>6. Out(r)'
    BY <2>2, <2>3 DEF Out
  <2>7. ASSUME NEW s \in Requests \ {r} PROVE Out(s)'
    <3>1. CASE req[s].state # "granted"
      BY <2>3, <3>1 DEF Out
    <3>2. CASE req[s].state = "granted"
      <4>1. req[s].token \in Tokens /\ token[req[s].token] \in {"active", "revoked"}
        BY <3>2 DEF GrantsOK, Out
      <4>2. token'[req[s].token] \in {"active", "revoked"}
        BY <1>0, <4>1 DEF Moves
      <4> QED
        BY <2>3, <4>1, <4>2 DEF Out
    <3> QED
      BY <3>1, <3>2
  <2> QED
    BY <2>5, <2>6, <2>7 DEF GrantsOK
<1> QED
  BY <1>1, <1>2, AnswerCases

LEMMA DeathDies == Death => Dies
  BY DEF Death, Crash, CrashInOpen, CrashInExpire, CrashInStop, CrashInAnswer, CrashInFirstRun

LEMMA NextGrants == TypeOK /\ AtBounded /\ GrantsOK /\ [Next]_vars => GrantsOK'
<1> SUFFICES ASSUME TypeOK, AtBounded, GrantsOK, [Next]_vars PROVE GrantsOK'
  OBVIOUS
<1>0. (\A u \in Tokens : Moves(u)) /\ req \in [Requests -> RequestType]
  BY NextMoves DEF TypeOK
<1>1. ASSUME UNCHANGED req PROVE GrantsOK'
  BY <1>0, <1>1, GrantsKept
<1>2. ASSUME NEW r \in Requests, NEW method \in AllModes, NEW aim \in Windows \union {None},
             PostRefused(r, method, aim)
      PROVE GrantsOK'
  <2>1. req' = [req EXCEPT ![r] = Refused]
    BY <1>2 DEF PostRefused, Refused
  <2> QED
    BY <1>0, <2>1, RefusedType, GrantsKept
<1>3. ASSUME NEW r \in Requests, NEW method \in AllModes, NEW aim \in Windows \union {None},
             NEW t \in Tokens, PostAnswered(r, method, aim, t)
      PROVE GrantsOK'
  <2>1. Newest(Eligible(method, aim)) \in Windows
    BY <1>3, EligibleWindow DEF PostAnswered
  <2> QED
    BY <1>3, <2>1, AnswerGrants DEF PostAnswered
<1>4. ASSUME NEW r \in Requests, NEW method \in AllModes, NEW aim \in Windows \union {None},
             PostAsks(r, method, aim)
      PROVE GrantsOK'
  <2>1. \A s \in Requests : req'[s] = req[s] \/ req'[s].state # "granted"
    BY <1>0, <1>4 DEF PostAsks
  <2> QED
    BY <1>0, <2>1, GrantsKept
<1>5. ASSUME NEW r \in Requests, NEW t \in Tokens, Approve(r, t) PROVE GrantsOK'
  BY <1>5, AskingParts, AnswerGrants DEF Approve
<1>6. ASSUME NEW r \in Requests, Reject(r) PROVE GrantsOK'
  <2>1. req' = [req EXCEPT ![r] = Refused]
    BY <1>6 DEF Reject, Refused
  <2> QED
    BY <1>0, <2>1, RefusedType, GrantsKept
<1>7. CASE Death
  <2>1. \A r \in Requests : req'[r] = req[r] \/ req'[r] = Refused
    BY <1>7, DeathDies, DiesTyped
  <2> QED
    BY <1>0, <2>1, RefusedType, GrantsKept
<1> QED
  BY <1>1, <1>2, <1>3, <1>4, <1>5, <1>6, <1>7 DEF Next, OpenBare, OpenSlot, Lapse, Expire,
     Revoke, Start, FirstRun, Stop, vars

(* No two requests are ever given the same token: TokenPerDevice.          *)
THEOREM TokensDistinct == Spec => []TokenPerDevice
<1>1. Init => TypeOK /\ AtBounded /\ GrantsOK
  BY InitType, InitAt DEF Init, NoRequest, GrantsOK, Out, TokenPerDevice
<1>2. TypeOK /\ AtBounded /\ GrantsOK /\ [Next]_vars => TypeOK' /\ AtBounded' /\ GrantsOK'
  BY NextType, NextAt, NextGrants
<1>3. GrantsOK => TokenPerDevice
  BY DEF GrantsOK
<1> QED
  BY <1>1, <1>2, <1>3, PTL DEF Spec

-----------------------------------------------------------------------------
(* The published flag, as long as the process does not die: a stop in      *)
(* order closes every window, so a server that is down has none.           *)

FlagInv == FlagFollowsWindows /\ (~up => \A w \in Windows : ~Open(w))

LEMMA CloseFlag ==
  ASSUME TypeOK, FlagInv, NEW w \in Windows, NEW tk \in [Tokens -> Status], Close(w, tk), up' = up
  PROVE  FlagInv'
<1>1. CASE ~Open(w)
  <2>1. win' = win /\ txt' = txt
    BY <1>1 DEF Close
  <2> QED
    BY <2>1 DEF FlagInv, FlagFollowsWindows, Usable, Open
<1>2. CASE Open(w)
  <2>1. up /\ txt' = TxtAfterClose(w)
    BY <1>2 DEF FlagInv, Close
  <2>2. ~Usable(w)' /\ \A v \in Windows \ {w} : (Usable(v)' <=> Usable(v)) /\ (Open(v)' <=> Open(v))
    BY <1>2, CloseFacts, CloseVoids DEF Usable, Open
  <2>3. CASE \E v \in Windows \ {w} : Usable(v)
    <3>1. PICK v \in Windows \ {w} : Usable(v)
      BY <2>3
    <3>2. Open(v)' /\ txt'.pairing_open
      BY <2>1, <2>2, <2>3, <3>1 DEF TxtAfterClose, FlagInv, FlagFollowsWindows, Usable
    <3> QED
      BY <2>1, <3>2 DEF FlagInv, FlagFollowsWindows
  <2>4. CASE ~\E v \in Windows \ {w} : Usable(v)
    <3>1. ~txt'.pairing_open
      BY <2>1, <2>4 DEF TxtAfterClose, TypeOK
    <3>2. \A v \in Windows : ~Usable(v)'
      BY <2>2, <2>4
    <3> QED
      BY <2>1, <3>1, <3>2 DEF FlagInv, FlagFollowsWindows
  <2> QED
    BY <2>3, <2>4
<1> QED
  BY <1>1, <1>2

LEMMA OpenRowFlag ==
  ASSUME TypeOK, NEW w \in Windows, NEW mode \in AllModes, NEW slot \in Tokens \union {None},
         OpenRow(w, mode, slot), up'
  PROVE  FlagInv'
<1>1. Open(w)' /\ txt'.pairing_open
  BY OpenRowFacts DEF Open
<1> QED
  BY <1>1 DEF FlagInv, FlagFollowsWindows

LEMMA AnswerFlag ==
  ASSUME TypeOK, FlagInv, NEW r \in Requests, NEW method \in AllModes,
         NEW aim \in Windows \union {None}, NEW w \in Windows, NEW t \in Tokens,
         Answer(r, method, aim, w, t), up' = up
  PROVE  FlagInv'
<1>1. CASE Refuses(r)
  BY <1>1 DEF Refuses, FlagInv, FlagFollowsWindows, Usable, Open
<1>2. CASE \E g \in Tokens : Gives(r, method, aim, w, g)
  <2>1. PICK g \in Tokens : Gives(r, method, aim, w, g)
    BY <1>2
  <2>2. [token EXCEPT ![g] = "active"] \in [Tokens -> Status]
    BY TypeParts DEF Typed, TypedRows, Status
  <2> QED
    BY <2>1, <2>2, CloseFlag DEF Gives
<1> QED
  BY <1>1, <1>2, AnswerCases

LEMMA NextFlag ==
  ASSUME ~Crashes
  PROVE  TypeOK /\ AtBounded /\ FlagInv /\ [Next]_vars => FlagInv'
<1> SUFFICES ASSUME TypeOK, AtBounded, FlagInv, [Next]_vars PROVE FlagInv'
  OBVIOUS
<1>1. ASSUME UNCHANGED <<up, win, txt>> PROVE FlagInv'
  BY <1>1 DEF FlagInv, FlagFollowsWindows, Usable, Open
<1>2. ASSUME NEW w \in Windows, NEW mode \in AllModes, OpenBare(w, mode) PROVE FlagInv'
  BY <1>2, OpenRowFlag DEF OpenBare
<1>3. ASSUME NEW w \in Windows, NEW mode \in AllModes, NEW t \in Tokens, OpenSlot(w, mode, t)
      PROVE FlagInv'
  BY <1>3, OpenRowFlag DEF OpenSlot
<1>4. ASSUME NEW w \in Windows, Lapse(w) PROVE FlagInv'
  <2>1. \A v \in Windows : win'[v].state = win[v].state /\ (win[v].late => win'[v].late)
    BY <1>4 DEF Lapse, TypeOK, WindowType
  <2>2. \A v \in Windows : (Open(v)' <=> Open(v)) /\ (Usable(v)' => Usable(v))
    BY <2>1 DEF Usable, Open
  <2> QED
    BY <1>4, <2>2 DEF Lapse, FlagInv, FlagFollowsWindows
<1>5. ASSUME NEW w \in Windows, Expire(w) PROVE FlagInv'
  BY <1>5, CloseFlag, TypeParts DEF Expire, Typed, TypedRows
<1>6. ASSUME NEW r \in Requests, NEW method \in AllModes, NEW aim \in Windows \union {None},
             NEW t \in Tokens, PostAnswered(r, method, aim, t)
      PROVE FlagInv'
  <2>1. Newest(Eligible(method, aim)) \in Windows
    BY <1>6, EligibleWindow DEF PostAnswered
  <2> QED
    BY <1>6, <2>1, AnswerFlag DEF PostAnswered
<1>7. ASSUME NEW r \in Requests, NEW t \in Tokens, Approve(r, t) PROVE FlagInv'
  BY <1>7, AskingParts, AnswerFlag DEF Approve
<1>8. CASE Start
  <2>1. \A w \in Windows : ~Open(w)'
    BY <1>8 DEF Start, FlagInv, Open
  <2>2. ~txt'.pairing_open /\ up'
    BY <1>8 DEF Start, FreshTxt
  <2> QED
    BY <2>1, <2>2 DEF FlagInv, FlagFollowsWindows, Usable
<1>9. ASSUME NEW w \in Windows, NEW t \in Tokens, FirstRun(w, t) PROVE FlagInv'
  BY <1>9, OpenRowFlag DEF FirstRun, AllModes
<1>10. CASE Stop
  <2>1. \A w \in Windows : ~Open(w)'
    BY <1>10 DEF Stop, Open, TypeOK, WindowType
  <2> QED
    BY <1>10, <2>1 DEF Stop, FlagInv, FlagFollowsWindows
<1>11. ~Death
  BY DeathDies DEF Dies
<1> QED
  BY <1>1, <1>2, <1>3, <1>4, <1>5, <1>6, <1>7, <1>8, <1>9, <1>10, <1>11 DEF Next, PostRefused,
     PostAsks, Reject, Revoke, vars

(* Unless the process dies, the flag is set while a window can be used and *)
(* not left set once all are closed: FlagFollowsWindows.                   *)
THEOREM FlagTrue ==
  ASSUME ~Crashes
  PROVE  Spec => []FlagFollowsWindows
<1>1. Init => TypeOK /\ AtBounded /\ FlagInv
  BY InitType, InitAt DEF Init, NoWindow, Open, FlagInv, FlagFollowsWindows
<1>2. TypeOK /\ AtBounded /\ FlagInv /\ [Next]_vars => TypeOK' /\ AtBounded' /\ FlagInv'
  BY NextType, NextAt, NextFlag
<1>3. FlagInv => FlagFollowsWindows
  BY DEF FlagInv
<1> QED
  BY <1>1, <1>2, <1>3, PTL DEF Spec

-----------------------------------------------------------------------------
(* One device per window, without a handler the host has to be asked by:   *)
(* no request waits, and a window from which a token went out is closed in *)
(* the same step and stays closed.                                         *)

LEMMA NewestEligible ==
  ASSUME TypeOK, AtBounded, NEW method, NEW aim, Eligible(method, aim) # {}
  PROVE  /\ Newest(Eligible(method, aim)) \in Windows
         /\ Usable(Newest(Eligible(method, aim)))
<1> DEFINE S == Eligible(method, aim)
<1>1. S \in SUBSET Windows /\ \A w \in S : Usable(w)
  BY DEF Eligible
<1>2. \E w \in S : \A v \in S : win[v].at <= win[w].at
  BY <1>1, NewestExists
<1>3. Newest(S) \in S
  BY <1>2 DEF Newest
<1> QED
  BY <1>1, <1>3

Spent(r) ==
    /\ req[r].state # "asking"
    /\ req[r].state = "granted" =>
         req[r].window \in Windows /\ win[req[r].window].state = "closed"

SpentOK == OneDevicePerWindow /\ \A r \in Requests : Spent(r)

\* What any step may do to a window's row, as far as this goes.
ClosedStay == \A w \in Windows : win[w].state = "closed" => win'[w].state = "closed"

LEMMA NextClosed == TypeOK /\ AtBounded /\ [Next]_vars => ClosedStay
<1> SUFFICES ASSUME TypeOK, AtBounded, [Next]_vars PROVE ClosedStay
  OBVIOUS
<1>1. ASSUME NEW w \in Windows, NEW mode \in AllModes, NEW slot \in Tokens \union {None},
             OpenRow(w, mode, slot)
      PROVE  ClosedStay
  BY <1>1, OpenRowFacts DEF ClosedStay
<1>2. ASSUME NEW w \in Windows, NEW tk \in [Tokens -> Status], Close(w, tk)
      PROVE  ClosedStay
  <2>1. CASE Open(w)
    BY <1>2, <2>1, CloseFacts, CloseVoids DEF ClosedStay
  <2>2. CASE ~Open(w)
    BY <1>2, <2>2, CloseVoids DEF ClosedStay
  <2> QED
    BY <2>1, <2>2
<1>3. ASSUME NEW r \in Requests, NEW method \in AllModes, NEW aim \in Windows \union {None},
             NEW w \in Windows, NEW t \in Tokens, Answer(r, method, aim, w, t)
      PROVE  ClosedStay
  <2>1. CASE Refuses(r)
    BY <2>1 DEF Refuses, ClosedStay
  <2>2. ASSUME NEW g \in Tokens, Gives(r, method, aim, w, g)
        PROVE  ClosedStay
    <3>1. [token EXCEPT ![g] = "active"] \in [Tokens -> Status]
      BY TypeParts DEF Typed, TypedRows, Status
    <3> QED
      BY <1>2, <2>2, <3>1 DEF Gives
  <2> QED
    BY <1>3, <2>1, <2>2, AnswerCases
<1>4. ASSUME NEW w \in Windows, NEW mode \in AllModes, OpenBare(w, mode) PROVE ClosedStay
  BY <1>1, <1>4 DEF OpenBare
<1>5. ASSUME NEW w \in Windows, NEW mode \in AllModes, NEW t \in Tokens, OpenSlot(w, mode, t)
      PROVE ClosedStay
  BY <1>1, <1>5 DEF OpenSlot
<1>6. ASSUME NEW w \in Windows, Lapse(w) PROVE ClosedStay
  BY <1>6 DEF Lapse, TypeOK, WindowType, ClosedStay
<1>7. ASSUME NEW w \in Windows, Expire(w) PROVE ClosedStay
  BY <1>2, <1>7, TypeParts DEF Expire, Typed, TypedRows
<1>8. ASSUME NEW r \in Requests, NEW method \in AllModes, NEW aim \in Windows \union {None},
             NEW t \in Tokens, PostAnswered(r, method, aim, t)
      PROVE ClosedStay
  BY <1>3, <1>8, NewestEligible DEF PostAnswered
<1>9. ASSUME NEW r \in Requests, NEW t \in Tokens, Approve(r, t) PROVE ClosedStay
  BY <1>3, <1>9, AskingParts DEF Approve
<1>10. ASSUME NEW w \in Windows, NEW t \in Tokens, FirstRun(w, t) PROVE ClosedStay
  BY <1>1, <1>10 DEF FirstRun, AllModes
<1>11. CASE Stop
  BY <1>11 DEF Stop, Open, ClosedStay
<1>12. CASE UNCHANGED win
  BY <1>12 DEF ClosedStay
<1>13. CASE Death
  <2>1. ASSUME NEW w \in Windows, CrashInFirstRun(w) PROVE ClosedStay
    BY <2>1, InsertFacts DEF CrashInFirstRun, AllModes, ClosedStay
  <2>2. ASSUME NEW w \in Windows, CrashInExpire(w) PROVE ClosedStay
    BY <2>2 DEF CrashInExpire, TypeOK, WindowType, ClosedStay
  <2>3. ASSUME NEW S \in SUBSET Windows, NEW half \in SUBSET S, CrashInStop(S, half)
        PROVE ClosedStay
    BY <2>3 DEF CrashInStop, Open, ClosedStay
  <2> QED
    BY <1>13, <1>12, <2>1, <2>2, <2>3 DEF Death, Crash, CrashInOpen, CrashInAnswer
<1> QED
  BY <1>4, <1>5, <1>6, <1>7, <1>8, <1>9, <1>10, <1>11, <1>12, <1>13 DEF Next, PostRefused, PostAsks,
     Reject, Revoke, Start, vars

\* What a step may do to requests: leave or refuse them, or grant one from
\* a window that could be used and is closed now.
Served(r) ==
    /\ req'[r].state = "granted"
    /\ Usable(req'[r].window) /\ req'[r].window \in Windows
    /\ win'[req'[r].window].state = "closed"
    /\ \A s \in Requests \ {r} : req'[s] = req[s]

Unserved == \A r \in Requests : req'[r] = req[r] \/ req'[r].state = "refused"

LEMMA NextServes ==
  ASSUME HostHook = FALSE, TypeOK, AtBounded, \A r \in Requests : Spent(r), [Next]_vars
  PROVE  Unserved \/ \E r \in Requests : Served(r)
<1>0. req \in [Requests -> RequestType] /\ \A r \in Requests : req[r].state # "asking"
  BY DEF TypeOK, Spent
<1>1. ASSUME NEW r \in Requests, NEW method \in AllModes, NEW aim \in Windows \union {None},
             NEW t \in Tokens, PostAnswered(r, method, aim, t)
      PROVE  Unserved \/ Served(r)
  <2> DEFINE w == Newest(Eligible(method, aim))
  <2>1. w \in Windows /\ Usable(w) /\ Answer(r, method, aim, w, t)
    BY <1>1, NewestEligible DEF PostAnswered
  <2> HIDE DEF w
  <2>2. CASE Refuses(r)
    BY <1>0, <2>2, RefusedType DEF Refuses, Unserved
  <2>3. ASSUME NEW g \in Tokens, Gives(r, method, aim, w, g)
        PROVE  Served(r)
    <3>1. [token EXCEPT ![g] = "active"] \in [Tokens -> Status] /\ Open(w)
      BY <2>1, TypeParts DEF Typed, TypedRows, Status, Usable
    <3>2. win'[w].state = "closed"
      BY <2>1, <2>3, <3>1, CloseVoids DEF Gives
    <3>3. req'[r] = Granted(method, aim, w, g) /\ \A s \in Requests \ {r} : req'[s] = req[s]
      BY <1>0, <2>3 DEF Gives
    <3>4. req'[r].window = w /\ req'[r].state = "granted"
      BY <3>3 DEF Granted
    <3> QED
      BY <2>1, <3>2, <3>3, <3>4 DEF Served
  <2> QED
    BY <2>1, <2>2, <2>3, AnswerCases
<1>2. ASSUME NEW r \in Requests, NEW method \in AllModes, NEW aim \in Windows \union {None},
             PostRefused(r, method, aim)
      PROVE  Unserved
  <2>1. req' = [req EXCEPT ![r] = Refused]
    BY <1>2 DEF PostRefused, Refused
  <2> QED
    BY <1>0, <2>1, RefusedType DEF Unserved
<1>3. CASE Death
  BY <1>3, DeathDies, DiesTyped, RefusedType DEF Unserved
<1>4. CASE UNCHANGED req
  BY <1>4 DEF Unserved
<1> QED
  BY <1>0, <1>1, <1>2, <1>3, <1>4 DEF Next, OpenBare, OpenSlot, Lapse, Expire, PostAsks, Approve,
     Reject, Revoke, Start, FirstRun, Stop, vars

LEMMA NextSpent ==
  ASSUME HostHook = FALSE, TypeOK, AtBounded, SpentOK, [Next]_vars
  PROVE  SpentOK'
<1>0. ClosedStay /\ (Unserved \/ \E r \in Requests : Served(r)) /\ \A r \in Requests : Spent(r)
  BY NextClosed, NextServes DEF SpentOK
<1>1. ASSUME NEW s \in Requests, req'[s] = req[s]
      PROVE  Spent(s)'
  BY <1>0, <1>1 DEF Spent, ClosedStay
<1>2. CASE Unserved
  <2>1. \A s \in Requests : Spent(s)'
    BY <1>1, <1>2 DEF Unserved, Spent
  <2>2. OneDevicePerWindow'
    BY <1>2 DEF Unserved, SpentOK, OneDevicePerWindow
  <2> QED
    BY <2>1, <2>2 DEF SpentOK
<1>3. ASSUME NEW r \in Requests, Served(r)
      PROVE  SpentOK'
  <2>1. \A s \in Requests : Spent(s)'
    BY <1>1, <1>3 DEF Served, Spent
  <2>2. \A s \in Requests \ {r} : req[s].state = "granted" => req[s].window # req'[r].window
    BY <1>0, <1>3 DEF Served, Spent, Usable, Open
  <2>3. OneDevicePerWindow'
    BY <1>3, <2>2 DEF Served, SpentOK, OneDevicePerWindow
  <2> QED
    BY <2>1, <2>3 DEF SpentOK
<1> QED
  BY <1>0, <1>2, <1>3

LEMMA SpentInvariant ==
  ASSUME HostHook = FALSE
  PROVE  Spec => [](TypeOK /\ AtBounded /\ SpentOK)
<1>1. Init => TypeOK /\ AtBounded /\ SpentOK
  BY InitType, InitAt DEF Init, NoRequest, SpentOK, Spent, OneDevicePerWindow
<1>2. TypeOK /\ AtBounded /\ SpentOK /\ [Next]_vars => TypeOK' /\ AtBounded' /\ SpentOK'
  BY NextType, NextAt, NextSpent
<1> QED
  BY <1>1, <1>2, PTL DEF Spec

(* Pairing is one-shot when requests are answered at once: two devices are *)
(* never paired through one window, even if the process dies in between.   *)
THEOREM WindowOneShot ==
  ASSUME HostHook = FALSE
  PROVE  Spec => []OneDevicePerWindow
<1>1. SpentOK => OneDevicePerWindow
  BY DEF SpentOK
<1> QED
  BY <1>1, SpentInvariant, PTL

(* ... and a token goes out only from a window that is open and not        *)
(* expired at that moment.                                                 *)
THEOREM GrantsTimely ==
  ASSUME HostHook = FALSE
  PROVE  Spec => GrantsInWindow
<1> DEFINE Timely == \A r \in Requests :
             req'[r].state = "granted" /\ req[r].state # "granted" => Usable(req'[r].window)
<1>1. TypeOK /\ AtBounded /\ SpentOK /\ [Next]_vars => [Timely]_vars
  BY NextServes DEF SpentOK, Unserved, Served
<1> QED
  BY <1>1, SpentInvariant, PTL DEF Spec, GrantsInWindow
=============================================================================
