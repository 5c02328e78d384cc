---------------------------- MODULE UndoRedo_proofs ----------------------------
(***************************************************************************)
(* Proofs about UndoRedo, for every number of tokens, documents, targets   *)
(* and commands, every depth cap and cadence.  Whatever overlaps and fails *)
(* types and the depth bound hold, eviction keeps its order, each key has  *)
(* a linear history, a conflict goes unflagged only if it arose after the  *)
(* search for conflicts, and the canvas is what the stacks say wherever no *)
(* requests overlapped and no redo failed.                                 *)
(***************************************************************************)
EXTENDS UndoRedo, SequenceTheorems, TLAPS

-----------------------------------------------------------------------------
(* Lemmas about one stack.                                                 *)

LEMMA Config == MaxDepth \in Nat /\ SnapshotEvery \in Nat \ {0}
  BY StackConfig

(* What membership in StackOf says of the parts, and how to build a stack. *)
LEMMA StackParts ==
  ASSUME NEW s \in StackOf(Cmds)
  PROVE  /\ s.undo \in Seq(Cmds) /\ s.redo \in Seq(Cmds)
         /\ s.anchors \in [Slots -> Nat]
         /\ Len(s.undo) \in Nat /\ Len(s.redo) \in Nat
  BY DEF StackOf

LEMMA StackBuilt ==
  ASSUME NEW u \in Seq(Cmds), NEW r \in Seq(Cmds), NEW a \in [Slots -> Nat]
  PROVE  /\ [undo |-> u, redo |-> r, anchors |-> a] \in StackOf(Cmds)
         /\ Depth([undo |-> u, redo |-> r, anchors |-> a]) = Len(u) + Len(r)
  BY DEF StackOf, Depth

LEMMA EmptyStackFacts == EmptyStack \in StackOf(Cmds) /\ Depth(EmptyStack) = 0
  BY DEF EmptyStack, StackOf, NoSnapshots, Depth

LEMMA SlideType ==
  ASSUME NEW a \in [Slots -> Nat]
  PROVE  Slide(a) \in [Slots -> Nat]
  BY DEF Slide

LEMMA AnchorType ==
  ASSUME NEW a \in [Slots -> Nat], NEW n \in 0 .. MaxDepth, NEW snap \in BOOLEAN
  PROVE  Anchor(a, n, snap) \in [Slots -> Nat]
  BY Config DEF Anchor, Slots

LEMMA FrontFacts ==
  ASSUME NEW q \in Seq(Cmds), q # <<>>
  PROVE  /\ Front1(q) \in Seq(Cmds)
         /\ Len(Front1(q)) = Len(q) - 1
         /\ q[Len(q)] \in Cmds
<1>1. Len(q) \in Nat /\ Len(q) >= 1
  BY EmptySeq
<1>2. PICK n \in Nat : n = Len(q) - 1
  BY <1>1
<1>3. \A i \in 1 .. n : q[i] \in Cmds
  BY <1>1, <1>2, ElementOfSeq
<1>4. /\ SubSeq(q, 1, n) \in Seq(Cmds)
      /\ Len(SubSeq(q, 1, n)) = IF 1 <= n THEN n - 1 + 1 ELSE 0
  BY <1>3, SubSeqProperties
<1>5. Front1(q) = SubSeq(q, 1, n)
  BY <1>2 DEF Front1
<1>6. Len(SubSeq(q, 1, n)) = n
  BY <1>4
<1>7. q[Len(q)] \in Cmds
  BY <1>1, ElementOfSeq
<1> QED
  BY <1>4, <1>5, <1>6, <1>2, <1>7

(* push leaves at most the cap on the undo side and nothing on the other.  *)
LEMMA PushFacts ==
  ASSUME NEW s \in StackOf(Cmds), NEW c \in Cmds, NEW snap \in BOOLEAN,
         Depth(s) <= MaxDepth
  PROVE  Push(s, c, snap) \in StackOf(Cmds) /\ Depth(Push(s, c, snap)) <= MaxDepth
<1> DEFINE q     == s.undo
           grown == Append(q, c)
           undo  == IF Len(grown) > MaxDepth THEN Tail(grown) ELSE grown
           kept  == IF Len(grown) > MaxDepth THEN Slide(s.anchors) ELSE s.anchors
           anch  == Anchor(kept, Len(undo), snap)
<1>1. q \in Seq(Cmds) /\ Len(q) \in Nat /\ Len(q) <= MaxDepth
  <2>1. MaxDepth \in Nat
    BY Config
  <2> QED
    BY <2>1 DEF Depth, StackOf
<1>2. s.anchors \in [Slots -> Nat]
  BY StackParts
<1>3. Push(s, c, snap) = [undo |-> undo, redo |-> <<>>, anchors |-> anch]
  BY DEF Push
<1> HIDE DEF q
<1>4. grown \in Seq(Cmds) /\ grown # <<>> /\ Len(grown) = Len(q) + 1
  BY <1>1, AppendProperties
<1>5. kept \in [Slots -> Nat]
  BY <1>2, SlideType
<1> HIDE DEF grown, kept
<1>6. undo \in Seq(Cmds)
  BY <1>4, HeadTailProperties
<1>7. Len(undo) \in 0 .. MaxDepth
  BY <1>1, <1>4, Config, HeadTailProperties
<1> HIDE DEF undo
<1>8. anch \in [Slots -> Nat]
  BY <1>5, <1>7, AnchorType
<1> HIDE DEF anch
<1>9. <<>> \in Seq(Cmds) /\ Len(<<>>) = 0
  OBVIOUS
<1>10. /\ Push(s, c, snap) \in StackOf(Cmds)
       /\ Depth(Push(s, c, snap)) = Len(undo) + Len(<<>>)
  BY <1>3, <1>6, <1>8, <1>9, StackBuilt
<1>11. Len(undo) + Len(<<>>) <= MaxDepth
  BY <1>7, <1>9, Config
<1> QED
  BY <1>10, <1>11

(* Moving the newest command across keeps the sum of the two lengths,      *)
(* which is why redo needs no cap of its own.                              *)
LEMMA PopUndoFacts ==
  ASSUME NEW s \in StackOf(Cmds), s.undo # <<>>
  PROVE  PopUndo(s) \in StackOf(Cmds) /\ Depth(PopUndo(s)) = Depth(s)
<1> DEFINE a == s.undo
           b == s.redo
           u == Front1(a)
           r == Append(b, a[Len(a)])
<1>1. /\ a \in Seq(Cmds) /\ b \in Seq(Cmds) /\ s.anchors \in [Slots -> Nat]
      /\ Len(a) \in Nat /\ Len(b) \in Nat
  BY StackParts
<1>2. PopUndo(s) = [undo |-> u, redo |-> r, anchors |-> s.anchors]
  BY DEF PopUndo
<1>3. Depth(s) = Len(a) + Len(b)
  BY DEF Depth
<1>4. u \in Seq(Cmds) /\ Len(u) = Len(a) - 1
  BY <1>1, FrontFacts
<1>5. r \in Seq(Cmds) /\ Len(r) = Len(b) + 1
  BY <1>1, FrontFacts, AppendProperties
<1> HIDE DEF a, b, u, r
<1>6. PopUndo(s) \in StackOf(Cmds) /\ Depth(PopUndo(s)) = Len(u) + Len(r)
  BY <1>1, <1>2, <1>4, <1>5, StackBuilt
<1>7. Len(u) + Len(r) = Len(a) + Len(b)
  BY <1>1, <1>4, <1>5
<1> QED
  BY <1>3, <1>6, <1>7

LEMMA PopRedoFacts ==
  ASSUME NEW s \in StackOf(Cmds), s.redo # <<>>
  PROVE  PopRedo(s) \in StackOf(Cmds) /\ Depth(PopRedo(s)) = Depth(s)
<1> DEFINE a == s.undo
           b == s.redo
           u == Append(a, b[Len(b)])
           r == Front1(b)
<1>1. /\ a \in Seq(Cmds) /\ b \in Seq(Cmds) /\ s.anchors \in [Slots -> Nat]
      /\ Len(a) \in Nat /\ Len(b) \in Nat
  BY StackParts
<1>2. PopRedo(s) = [undo |-> u, redo |-> r, anchors |-> s.anchors]
  BY DEF PopRedo
<1>3. Depth(s) = Len(a) + Len(b)
  BY DEF Depth
<1>4. r \in Seq(Cmds) /\ Len(r) = Len(b) - 1
  BY <1>1, FrontFacts
<1>5. u \in Seq(Cmds) /\ Len(u) = Len(a) + 1
  BY <1>1, FrontFacts, AppendProperties
<1> HIDE DEF a, b, u, r
<1>6. PopRedo(s) \in StackOf(Cmds) /\ Depth(PopRedo(s)) = Len(u) + Len(r)
  BY <1>1, <1>2, <1>4, <1>5, StackBuilt
<1>7. Len(u) + Len(r) = Len(a) + Len(b)
  BY <1>1, <1>4, <1>5
<1> QED
  BY <1>3, <1>6, <1>7

LEMMA ShiftFacts ==
  ASSUME NEW s \in StackOf(Cmds), s.undo # <<>>, Depth(s) <= MaxDepth
  PROVE  /\ ShiftOldestUndo(s) \in StackOf(Cmds)
         /\ Depth(ShiftOldestUndo(s)) <= MaxDepth
<1> DEFINE a == s.undo
           b == s.redo
           u == Tail(a)
<1>1. /\ a \in Seq(Cmds) /\ b \in Seq(Cmds) /\ Slide(s.anchors) \in [Slots -> Nat]
      /\ Len(a) \in Nat /\ Len(b) \in Nat
  BY StackParts, SlideType
<1>2. ShiftOldestUndo(s) = [undo |-> u, redo |-> b, anchors |-> Slide(s.anchors)]
  BY DEF ShiftOldestUndo
<1>3. Len(a) + Len(b) <= MaxDepth
  BY DEF Depth
<1>4. u \in Seq(Cmds) /\ Len(u) = Len(a) - 1
  BY <1>1, HeadTailProperties
<1> HIDE DEF a, b, u
<1>5. /\ ShiftOldestUndo(s) \in StackOf(Cmds)
      /\ Depth(ShiftOldestUndo(s)) = Len(u) + Len(b)
  BY <1>1, <1>2, <1>4, StackBuilt
<1>6. Len(u) + Len(b) <= MaxDepth
  BY <1>1, <1>3, <1>4, Config
<1> QED
  BY <1>5, <1>6

LEMMA EvictSnapshotFacts ==
  ASSUME NEW s \in StackOf(Cmds), NEW i \in Slots, s.anchors[i] > 0
  PROVE  /\ EvictSnapshotAt(s, i) \in StackOf(Cmds)
         /\ Depth(EvictSnapshotAt(s, i)) = Depth(s)
<1> DEFINE b == [s.anchors EXCEPT ![i] = @ - 1]
<1>1. s.anchors \in [Slots -> Nat] /\ s.undo \in Seq(Cmds) /\ s.redo \in Seq(Cmds)
  BY StackParts
<1>2. b \in [Slots -> Nat]
  BY <1>1
<1>3. EvictSnapshotAt(s, i) = [undo |-> s.undo, redo |-> s.redo, anchors |-> b]
  BY DEF EvictSnapshotAt
<1> HIDE DEF b
<1>4. Depth(s) = Len(s.undo) + Len(s.redo)
  BY DEF Depth
<1> QED
  BY <1>1, <1>2, <1>3, <1>4, StackBuilt

-----------------------------------------------------------------------------
(* The inductive invariant.  The type invariant and the depth bound need   *)
(* each other: push keeps the type of the anchors only while the undo side *)
(* fits the cap, and the cap says nothing of a stack that is no stack.     *)

StacksOK == stacks \in [Keys -> StackOf(Cmds)] /\ DepthBounded

(* The part of the type invariant that is not about the stacks.            *)
RestOK ==
  /\ mapped \in SUBSET Keys
  /\ stage \in [Cmds -> Stages]
  /\ cmd \in [Cmds -> [tok : Tokens, target : Targets, prior : SUBSET Cmds]]
  /\ flight \in [Cmds -> [live : BOOLEAN, clash : BOOLEAN, snap : BOOLEAN]]
  /\ redoing \in [Cmds -> Nat]
  /\ content \in [Targets -> SUBSET Cmds]
  /\ recent \in Seq([tok : Tokens, target : Targets])
  /\ announced \in [Cmds -> {"no", "clean", "conflict"}]
  /\ admitted \in [Tokens -> Nat]
  /\ sessions \in [Tokens -> Nat]
  /\ timers \in SUBSET Tokens
  /\ revoked \in SUBSET Tokens
  /\ sweep \in {"idle", "snapshots", "commands"}
  /\ used \in [requests : Nat, restarts : Nat, ticks : Nat]
  /\ mixed \in SUBSET Targets
  /\ missed \in SUBSET Cmds

IInv == RestOK /\ StacksOK

LEMMA IInvSplit == IInv <=> TypeOK /\ DepthBounded
  BY DEF IInv, RestOK, StacksOK, TypeOK

LEMMA KeysOfTokens ==
  ASSUME NEW t \in Tokens, NEW d \in Docs
  PROVE  IdKey(t, d) \in Keys /\ NameKey(t, d) \in Keys
  BY DEF IdKey, NameKey, Keys

LEMMA KeyOfCommand ==
  ASSUME RestOK, NEW c \in Cmds
  PROVE  /\ KeyOf(c) \in Keys
         /\ NameKey(cmd[c].tok, DocOf[cmd[c].target]) \in Keys
         /\ cmd[c].tok \in Tokens /\ cmd[c].target \in Targets
  BY Parameters, KeysOfTokens DEF RestOK, KeyOf

(* A target a request takes up is mixed, or nothing is in flight on it.    *)
LEMMA MixingFacts ==
  ASSUME NEW x
  PROVE  /\ mixed \subseteq Mixing(x)
         /\ mixed \in SUBSET Targets /\ x \in Targets => Mixing(x) \in SUBSET Targets
         /\ x \notin Mixing(x) => \A e \in Cmds : InFlight(e) => cmd[e].target # x
  BY DEF Mixing

(* One stack changes into another legal one.                               *)
LEMMA StackReplaced ==
  ASSUME StacksOK, NEW k \in Keys, NEW v \in StackOf(Cmds), Depth(v) <= MaxDepth,
         stacks' = [stacks EXCEPT ![k] = v]
  PROVE  StacksOK'
  BY DEF StacksOK, DepthBounded

LEMMA StacksKept ==
  ASSUME StacksOK, stacks' = stacks
  PROVE  StacksOK'
  BY DEF StacksOK, DepthBounded

LEMMA StacksDiscarded ==
  ASSUME StacksOK, NEW K, stacks' = [k \in Keys |-> IF k \in K THEN EmptyStack ELSE stacks[k]]
  PROVE  StacksOK'
  BY EmptyStackFacts, Config DEF StacksOK, DepthBounded

LEMMA StackOfKey ==
  ASSUME StacksOK, NEW k \in Keys
  PROVE  stacks[k] \in StackOf(Cmds) /\ Depth(stacks[k]) <= MaxDepth
  BY DEF StacksOK, DepthBounded

(* A consumed unit of a bound.                                             *)
LEMMA UsedType ==
  ASSUME NEW u \in [requests : Nat, restarts : Nat, ticks : Nat]
  PROVE  /\ [u EXCEPT !.requests = @ + 1] \in [requests : Nat, restarts : Nat, ticks : Nat]
         /\ [u EXCEPT !.restarts = @ + 1] \in [requests : Nat, restarts : Nat, ticks : Nat]
         /\ [u EXCEPT !.ticks = @ + 1] \in [requests : Nat, restarts : Nat, ticks : Nat]
<1> DEFINE U == [requests : Nat, restarts : Nat, ticks : Nat]
<1>1. [u EXCEPT !.requests = u.requests + 1] \in U
  <2>1. u.requests + 1 \in Nat
    OBVIOUS
  <2> QED
    BY <2>1
<1>2. [u EXCEPT !.restarts = u.restarts + 1] \in U
  <2>1. u.restarts + 1 \in Nat
    OBVIOUS
  <2> QED
    BY <2>1
<1>3. [u EXCEPT !.ticks = u.ticks + 1] \in U
  <2>1. u.ticks + 1 \in Nat
    OBVIOUS
  <2> QED
    BY <2>1
<1> QED
  BY <1>1, <1>2, <1>3

LEMMA InitIInv == Init => IInv
<1> SUFFICES ASSUME Init PROVE IInv
  OBVIOUS
<1>1. RestOK
  BY Parameters DEF Init, RestOK, Stages, NoLocals
<1>2. StacksOK
  BY EmptyStackFacts, Config DEF Init, StacksOK, DepthBounded
<1> QED
  BY <1>1, <1>2 DEF IInv

(* Sessions, timers, revocation and restart.                               *)
LEMMA ConnectionStep ==
  ASSUME IInv, NEW t \in Tokens, Connection(t)
  PROVE  IInv'
<1> USE DEF IInv
<1>1. CASE Admit(t)
  <2>1. /\ used' \in [requests : Nat, restarts : Nat, ticks : Nat]
        /\ admitted' \in [Tokens -> Nat]
    <3>1. admitted' \in [Tokens -> Nat]
      BY <1>1 DEF Admit, RestOK
    <3>2. used' = [used EXCEPT !.requests = @ + 1]
      BY <1>1 DEF Admit
    <3>3. used' \in [requests : Nat, restarts : Nat, ticks : Nat]
      BY <3>2, UsedType DEF RestOK
    <3> QED
      BY <3>1, <3>3
  <2>2. sessions' \in [Tokens -> Nat] /\ timers' \in SUBSET Tokens
    <3>1. sessions \in [Tokens -> Nat] /\ timers \in SUBSET Tokens
      BY DEF RestOK
    <3>2. CASE t \in Tracked
      <4>1. /\ sessions' = [sessions EXCEPT ![t] = @ + 1]
            /\ timers' \in SUBSET timers
        BY <1>1, <3>2 DEF Admit
      <4> QED
        BY <3>1, <4>1
    <3>3. CASE t \notin Tracked
      BY <1>1, <3>1, <3>3 DEF Admit
    <3> QED
      BY <3>2, <3>3
  <2>3. RestOK'
    BY <1>1, <2>1, <2>2 DEF Admit, RestOK, canvas, marks
  <2> QED
    BY <1>1, <2>3, StacksKept DEF Admit
<1>2. CASE Release(t)
  <2>1. RestOK'
    BY <1>2 DEF Release, RestOK, canvas, marks
  <2> QED
    BY <1>2, <2>1, StacksKept DEF Release
<1>3. CASE GraceExpires(t)
  <2>1. RestOK'
    BY <1>3 DEF GraceExpires, Discard, RestOK, canvas, marks
  <2> QED
    BY <1>3, <2>1, StacksDiscarded DEF GraceExpires, Discard
<1>4. CASE Revoke(t)
  <2>1. RestOK'
    BY <1>4 DEF Revoke, Discard, RestOK, canvas, marks
  <2> QED
    BY <1>4, <2>1, StacksDiscarded DEF Revoke, Discard
<1> QED
  BY <1>1, <1>2, <1>3, <1>4 DEF Connection

LEMMA RestartStep ==
  ASSUME IInv, Restart
  PROVE  IInv'
<1>1. RestOK'
  <2>1. /\ used' \in [requests : Nat, restarts : Nat, ticks : Nat]
        /\ stage' \in [Cmds -> Stages]
    <3>1. used' = [used EXCEPT !.restarts = @ + 1]
      BY DEF Restart
    <3>2. used' \in [requests : Nat, restarts : Nat, ticks : Nat]
      BY <3>1, UsedType DEF IInv, RestOK
    <3>3. stage' \in [Cmds -> Stages]
      BY DEF Restart, Stages
    <3> QED
      BY <3>2, <3>3
  <2>2. flight' \in [Cmds -> [live : BOOLEAN, clash : BOOLEAN, snap : BOOLEAN]]
    BY DEF Restart, NoLocals
  <2>3. recent' \in Seq([tok : Tokens, target : Targets])
    BY DEF Restart
  <2>4. /\ redoing' \in [Cmds -> Nat] /\ admitted' \in [Tokens -> Nat]
        /\ sessions' \in [Tokens -> Nat]
    BY DEF Restart
  <2> QED
    BY <2>1, <2>2, <2>3, <2>4 DEF IInv, Restart, RestOK, canvas, marks
<1>2. StacksOK'
  BY EmptyStackFacts, Config DEF IInv, Restart, StacksOK, DepthBounded
<1> QED
  BY <1>1, <1>2 DEF IInv

(* The segments of execute after the first, enrolment, and redo's tail.    *)
LEMMA HandlerStep ==
  ASSUME IInv, NEW c \in Cmds, Handler(c)
  PROVE  IInv'
<1> USE DEF IInv
<1>0. /\ KeyOf(c) \in Keys /\ NameKey(cmd[c].tok, DocOf[cmd[c].target]) \in Keys
      /\ cmd[c].tok \in Tokens /\ cmd[c].target \in Targets
  BY KeyOfCommand
<1>1. CASE ExecuteWand(c)
  <2>1. IdKey(cmd[c].tok, DocOf[cmd[c].target]) \in Keys
    BY <1>0 DEF KeyOf
  <2>2. RestOK'
    BY <1>0, <1>1, <2>1 DEF ExecuteWand, EnterExecute, Apply, Overlaps, RestOK, Stages, conn, marks
  <2> QED
    BY <1>1, <2>2, StacksKept DEF ExecuteWand
<1>2. CASE PaintWrites(c)
  <2>1. RestOK'
    BY <1>0, <1>2 DEF PaintWrites, Apply, RestOK, Stages, conn, marks
  <2> QED
    BY <1>2, <2>1, StacksKept DEF PaintWrites
<1>3. CASE PaintFails(c)
  <2>1. RestOK'
    BY <1>3 DEF PaintFails, RestOK, Stages, conn, canvas, marks, NoLocals
  <2> QED
    BY <1>3, <2>1, StacksKept DEF PaintFails
<1>4. CASE Snapshot(c)
  <2>1. (flight[c].live /\ DueForSnapshot(stacks[KeyOf(c)])) \in BOOLEAN
    BY DEF RestOK, DueForSnapshot
  <2>2. RestOK'
    BY <1>4, <2>1 DEF Snapshot, RestOK, Stages, conn, canvas, marks
  <2> QED
    BY <1>4, <2>2, StacksKept DEF Snapshot
<1>5. CASE Finish(c)
  <2>1. RestOK'
    BY <1>0, <1>5 DEF Finish, Overtaken, RestOK, Stages, conn, canvas, NoLocals
  <2>2. StacksOK'
    <3>1. flight[c].snap \in BOOLEAN
      BY DEF RestOK
    <3>2. /\ Push(stacks[KeyOf(c)], c, flight[c].snap) \in StackOf(Cmds)
          /\ Depth(Push(stacks[KeyOf(c)], c, flight[c].snap)) <= MaxDepth
      BY <1>0, <3>1, StackOfKey, PushFacts
    <3>3. CASE flight[c].live
      BY <1>0, <1>5, <3>2, <3>3, StackReplaced DEF Finish
    <3>4. CASE ~flight[c].live
      BY <1>5, <3>4, StacksKept DEF Finish
    <3> QED
      BY <3>3, <3>4
  <2> QED
    BY <2>1, <2>2
<1>6. CASE Enrol(c)
  <2> DEFINE k == NameKey(cmd[c].tok, DocOf[cmd[c].target])
  <2>1. RestOK'
    BY <1>0, <1>6 DEF Enrol, RestOK, Stages, conn, canvas, marks
  <2>2. /\ Push(stacks[k], c, FALSE) \in StackOf(Cmds)
        /\ Depth(Push(stacks[k], c, FALSE)) <= MaxDepth
    BY <1>0, StackOfKey, PushFacts
  <2>3. StacksOK'
    BY <1>0, <1>6, <2>2, StackReplaced DEF Enrol
  <2> QED
    BY <2>1, <2>3
<1>7. CASE RedoWrites(c)
  <2>1. RestOK'
    BY <1>0, <1>7 DEF RedoWrites, Apply, RestOK, conn, marks
  <2> QED
    BY <1>7, <2>1, StacksKept DEF RedoWrites
<1>8. CASE RedoFails(c)
  <2>1. RestOK'
    BY <1>0, <1>8 DEF RedoFails, RestOK, conn, canvas
  <2> QED
    BY <1>8, <2>1, StacksKept DEF RedoFails
<1> QED
  BY <1>1, <1>2, <1>3, <1>4, <1>5, <1>6, <1>7, <1>8 DEF Handler

(* The first segment of a handler, and the undo and redo tools.            *)
LEMMA ArrivalStep ==
  ASSUME IInv, NEW t \in Tokens, Arrival(t)
  PROVE  IInv'
<1> USE DEF IInv
<1>1. ASSUME NEW c \in Cmds, NEW x \in Targets,
             \/ BeginSync(c, t, x) \/ BeginPaint(c, t, x)
             \/ BeginWand(c, t, x) \/ BeginLegacy(c, t, x)
      PROVE  IInv'
  <2>1. /\ IdKey(t, DocOf[x]) \in Keys /\ Begin(c, t, x)
        /\ content[x] \in SUBSET Cmds
    BY <1>1, Parameters, KeysOfTokens
       DEF BeginSync, BeginPaint, BeginWand, BeginLegacy, RestOK
  <2>2. /\ cmd' \in [Cmds -> [tok : Tokens, target : Targets, prior : SUBSET Cmds]]
        /\ cmd'[c] = [tok |-> t, target |-> x, prior |-> content[x]]
        /\ admitted' \in [Tokens -> Nat]
    BY <2>1 DEF Begin, RestOK
  <2>3. stage' \in [Cmds -> Stages]
    BY <1>1 DEF BeginSync, BeginPaint, BeginWand, BeginLegacy, RestOK, Stages
  <2>4. mapped' \in SUBSET Keys
    BY <1>1, <2>1 DEF BeginSync, BeginPaint, BeginWand, BeginLegacy, EnterExecute, RestOK
  <2>5. flight' \in [Cmds -> [live : BOOLEAN, clash : BOOLEAN, snap : BOOLEAN]]
    <3>1. \/ flight' = flight
          \/ flight' = [flight EXCEPT ![c] = [live |-> TRUE, clash |-> Overlaps(t, x),
                                              snap |-> FALSE]]
      BY <1>1 DEF BeginSync, BeginPaint, BeginWand, BeginLegacy, EnterExecute
    <3>2. [live |-> TRUE, clash |-> Overlaps(t, x), snap |-> FALSE]
            \in [live : BOOLEAN, clash : BOOLEAN, snap : BOOLEAN]
      BY DEF Overlaps
    <3>3. flight \in [Cmds -> [live : BOOLEAN, clash : BOOLEAN, snap : BOOLEAN]]
      BY DEF RestOK
    <3> QED
      BY <3>1, <3>2, <3>3
  <2>6. content' \in [Targets -> SUBSET Cmds]
    <3>1. content' = content \/ Apply(c)
      BY <1>1 DEF BeginSync, BeginPaint, BeginWand, BeginLegacy
    <3>2. Apply(c) => content' = [content EXCEPT ![x] = content[x] \cup {c}]
      BY <2>2 DEF Apply
    <3>3. content \in [Targets -> SUBSET Cmds] /\ content[x] \cup {c} \in SUBSET Cmds
      BY <2>1 DEF RestOK
    <3> QED
      BY <3>1, <3>2, <3>3
  <2>7. RestOK'
    <3>1. mixed' \in SUBSET Targets /\ missed' = missed
      BY <2>1, MixingFacts DEF Begin, RestOK
    <3> QED
      BY <2>1, <2>2, <2>3, <2>4, <2>5, <2>6, <3>1 DEF Begin, RestOK
  <2> QED
    BY <2>1, <2>7, StacksKept DEF Begin
<1>2. ASSUME NEW d \in Docs, Undo(t, d)
      PROVE  IInv'
  <2> DEFINE k == IdKey(t, d)
             c == stacks[k].undo[Len(stacks[k].undo)]
  <2>1. k \in Keys /\ stacks[k].undo # <<>>
    BY <1>2, KeysOfTokens DEF Undo
  <2>2. stacks[k] \in StackOf(Cmds) /\ Depth(stacks[k]) <= MaxDepth
    BY <2>1, StackOfKey
  <2>3. c \in Cmds
    BY <2>1, <2>2, StackParts, FrontFacts
  <2>4. StacksOK'
    <3>1. stacks' = [stacks EXCEPT ![k] = PopUndo(stacks[k])]
      BY <1>2 DEF Undo
    <3>2. PopUndo(stacks[k]) \in StackOf(Cmds) /\ Depth(PopUndo(stacks[k])) <= MaxDepth
      BY <2>1, <2>2, PopUndoFacts
    <3> QED
      BY <2>1, <3>1, <3>2, StackReplaced
  <2>5. /\ content' = [content EXCEPT ![cmd[c].target] = cmd[c].prior] /\ redoing' = redoing
        /\ mixed' = Mixing(cmd[c].target)
    BY <1>2 DEF Undo
  <2> HIDE DEF c
  <2>6. content' \in [Targets -> SUBSET Cmds]
    BY <2>3, <2>5 DEF RestOK
  <2>7. Consume(t)
    BY <1>2 DEF Undo
  <2>8. RestOK'
    <3>1. mixed' \in SUBSET Targets
      BY <2>3, <2>5, MixingFacts DEF RestOK
    <3> QED
      BY <2>5, <2>6, <2>7, <3>1 DEF Consume, RestOK
  <2> QED
    BY <2>4, <2>8
<1>3. ASSUME NEW d \in Docs, Redo(t, d)
      PROVE  IInv'
  <2> DEFINE k == IdKey(t, d)
             c == stacks[k].redo[Len(stacks[k].redo)]
  <2>1. k \in Keys /\ stacks[k].redo # <<>>
    BY <1>3, KeysOfTokens DEF Redo
  <2>2. stacks[k] \in StackOf(Cmds) /\ Depth(stacks[k]) <= MaxDepth
    BY <2>1, StackOfKey
  <2>3. c \in Cmds
    BY <2>1, <2>2, StackParts, FrontFacts
  <2>4. StacksOK'
    <3>1. stacks' = [stacks EXCEPT ![k] = PopRedo(stacks[k])]
      BY <1>3 DEF Redo
    <3>2. PopRedo(stacks[k]) \in StackOf(Cmds) /\ Depth(PopRedo(stacks[k])) <= MaxDepth
      BY <2>1, <2>2, PopRedoFacts
    <3> QED
      BY <2>1, <3>1, <3>2, StackReplaced
  <2>5. \/ redoing' = [redoing EXCEPT ![c] = @ + 1] /\ content' = content
        \/ /\ content' = [content EXCEPT ![cmd[c].target] = cmd[c].prior \cup {c}]
           /\ redoing' = redoing
    BY <1>3 DEF Redo
  <2>9. mixed' = Mixing(cmd[c].target)
    BY <1>3 DEF Redo
  <2> HIDE DEF c
  <2>6. content' \in [Targets -> SUBSET Cmds] /\ redoing' \in [Cmds -> Nat]
    <3>1. CASE redoing' = [redoing EXCEPT ![c] = @ + 1] /\ content' = content
      BY <2>3, <3>1 DEF RestOK
    <3>2. CASE /\ content' = [content EXCEPT ![cmd[c].target] = cmd[c].prior \cup {c}]
               /\ redoing' = redoing
      <4>1. cmd[c].prior \cup {c} \in SUBSET Cmds
        BY <2>3 DEF RestOK
      <4> QED
        BY <3>2, <4>1 DEF RestOK
    <3> QED
      BY <2>5, <3>1, <3>2
  <2>7. Consume(t)
    BY <1>3 DEF Redo
  <2>8. RestOK'
    <3>1. mixed' \in SUBSET Targets
      BY <2>3, <2>9, MixingFacts DEF RestOK
    <3> QED
      BY <2>6, <2>7, <3>1 DEF Consume, RestOK
  <2> QED
    BY <2>4, <2>8
<1>4. ASSUME NEW d \in Docs, NoOp(t, d)
      PROVE  IInv'
  <2>1. RestOK'
    BY <1>4 DEF NoOp, Consume, RestOK
  <2> QED
    BY <1>4, <2>1, StacksKept DEF NoOp
<1> QED
  BY <1>1, <1>2, <1>3, <1>4 DEF Arrival

LEMMA WindowStep ==
  ASSUME IInv, WindowPasses
  PROVE  IInv'
<1>1. recent' \in Seq([tok : Tokens, target : Targets])
  BY HeadTailProperties DEF IInv, RestOK, WindowPasses
<1>2. RestOK'
  BY <1>1 DEF IInv, RestOK, WindowPasses, conn, canvas, marks
<1> QED
  BY <1>2, StacksKept DEF IInv, WindowPasses

(* Every iteration of an eviction pass.                                    *)
LEMMA EvictStep ==
  ASSUME IInv, Evict
  PROVE  IInv'
<1> USE DEF IInv
<1>1. RestOK'
  <2>1. /\ UNCHANGED <<mapped, stage, cmd, flight, redoing, content, recent, announced,
                        admitted, sessions, timers, revoked, mixed, missed>>
        /\ sweep' \in {"idle", "snapshots", "commands"}
        /\ used' = used \/ used' = [used EXCEPT !.ticks = @ + 1]
    BY DEF Evict, EvictionTick, EvictSnapshot, SnapshotPassEnds, EvictCommand,
       CommandPassEnds, SweepFrame, conn, canvas, marks, RestOK
  <2>2. used' \in [requests : Nat, restarts : Nat, ticks : Nat]
    BY <2>1 DEF RestOK
  <2> QED
    BY <2>1, <2>2 DEF RestOK
<1>2. CASE EvictSnapshot
  <2>1. PICK k \in mapped, i \in Slots :
          /\ stacks[k].anchors[i] > 0
          /\ stacks' = [stacks EXCEPT ![k] = EvictSnapshotAt(stacks[k], i)]
    BY <1>2 DEF EvictSnapshot
  <2>2. k \in Keys
    BY DEF RestOK
  <2>3. stacks[k] \in StackOf(Cmds) /\ Depth(stacks[k]) <= MaxDepth
    BY <2>2, StackOfKey
  <2>4. /\ EvictSnapshotAt(stacks[k], i) \in StackOf(Cmds)
        /\ Depth(EvictSnapshotAt(stacks[k], i)) <= MaxDepth
    BY <2>1, <2>3, EvictSnapshotFacts
  <2> QED
    BY <1>1, <2>1, <2>2, <2>4, StackReplaced
<1>3. CASE EvictCommand
  <2>1. PICK k \in mapped :
          /\ Len(stacks[k].undo) > Floor
          /\ stacks' = [stacks EXCEPT ![k] = ShiftOldestUndo(stacks[k])]
    BY <1>3 DEF EvictCommand
  <2>2. k \in Keys
    BY DEF RestOK
  <2>3. stacks[k] \in StackOf(Cmds) /\ Depth(stacks[k]) <= MaxDepth
    BY <2>2, StackOfKey
  <2>4. stacks[k].undo # <<>>
    <3>1. Floor \in Nat
      BY Parameters
    <3> SUFFICES ASSUME stacks[k].undo = <<>> PROVE FALSE
      OBVIOUS
    <3>2. Len(stacks[k].undo) = 0
      OBVIOUS
    <3> QED
      BY <2>1, <3>1, <3>2
  <2>5. /\ ShiftOldestUndo(stacks[k]) \in StackOf(Cmds)
        /\ Depth(ShiftOldestUndo(stacks[k])) <= MaxDepth
    BY <2>3, <2>4, ShiftFacts
  <2> QED
    BY <1>1, <2>1, <2>2, <2>5, StackReplaced
<1>4. CASE EvictionTick \/ SnapshotPassEnds \/ CommandPassEnds
  <2>1. stacks' = stacks
    BY <1>4 DEF EvictionTick, SnapshotPassEnds, CommandPassEnds
  <2> QED
    BY <1>1, <2>1, StacksKept
<1> QED
  BY <1>2, <1>3, <1>4 DEF Evict

LEMMA StutterStep ==
  ASSUME IInv, UNCHANGED vars
  PROVE  IInv'
  BY DEF IInv, RestOK, StacksOK, DepthBounded, vars, canvas, conn, marks

LEMMA StepIInv == IInv /\ [Next]_vars => IInv'
<1> SUFFICES ASSUME IInv, [Next]_vars PROVE IInv'
  OBVIOUS
<1>1. CASE Next
  BY <1>1, HandlerStep, ArrivalStep, ConnectionStep, WindowStep, RestartStep, EvictStep
     DEF Next
<1>2. CASE UNCHANGED vars
  BY <1>2, StutterStep
<1> QED
  BY <1>1, <1>2

-----------------------------------------------------------------------------
(* Every variable keeps its type in every reachable state.                 *)
THEOREM TypeCorrect == Spec => []TypeOK
<1>1. IInv => TypeOK
  BY IInvSplit
<1> QED
  BY <1>1, InitIInv, StepIInv, PTL DEF Spec

(* manager.undo, redo, execute, enrol and the eviction pass, in whatever   *)
(* order requests interleave, never leave a (token, document) pair with    *)
(* more than max_depth_per_client commands on its two stacks together.     *)
THEOREM DepthBound == Spec => []DepthBounded
<1>1. IInv => DepthBounded
  BY IInvSplit
<1> QED
  BY <1>1, InitIInv, StepIInv, PTL DEF Spec

-----------------------------------------------------------------------------
(* The floor and the order of eviction.  Nothing but the pass itself moves *)
(* while a pass runs, so what let its second loop begin still holds there: *)
(* the budget is met, or no stack holds a snapshot.                        *)

SnapsGone == sweep = "commands" => ~OverBudget \/ \A k \in mapped : ~HasSnapshot(k)

LEMMA SlideEmpties ==
  ASSUME NEW a \in [Slots -> Nat], \A i \in Slots : ~(a[i] > 0)
  PROVE  \A i \in Slots : ~(Slide(a)[i] > 0)
  BY DEF Slide

(* One command leaves the oldest end of the stack of k.                    *)
LEMMA CommandDropped ==
  ASSUME IInv, EvictCommand
  PROVE  \E k \in mapped :
           /\ k \in Keys /\ stacks[k] \in StackOf(Cmds)
           /\ Len(stacks[k].undo) > Floor
           /\ stacks' = [stacks EXCEPT ![k] = ShiftOldestUndo(stacks[k])]
           /\ OverBudget /\ sweep = "commands" /\ sweep' = sweep /\ mapped' = mapped
<1>1. PICK k \in mapped :
        /\ Len(stacks[k].undo) > Floor
        /\ stacks' = [stacks EXCEPT ![k] = ShiftOldestUndo(stacks[k])]
  BY DEF EvictCommand
<1>2. k \in Keys
  BY DEF IInv, RestOK
<1>3. stacks[k] \in StackOf(Cmds)
  BY <1>2, StackOfKey DEF IInv
<1>4. OverBudget /\ sweep = "commands" /\ sweep' = sweep /\ mapped' = mapped
  BY DEF EvictCommand, SweepFrame
<1> QED
  BY <1>1, <1>2, <1>3, <1>4

LEMMA SnapsGoneStep ==
  ASSUME IInv, SnapsGone, [Next]_vars
  PROVE  SnapsGone'
<1>1. CASE sweep' # "commands"
  BY <1>1 DEF SnapsGone
<1>2. CASE SnapshotPassEnds
  <2>1. stacks' = stacks /\ mapped' = mapped
    BY <1>2 DEF SnapshotPassEnds, SweepFrame
  <2>2. OverBudget' <=> OverBudget
    BY <2>1 DEF OverBudget
  <2> QED
    BY <1>2, <2>1, <2>2 DEF SnapshotPassEnds, SnapsGone, HasSnapshot
<1>3. CASE EvictCommand
  <2>1. PICK k \in mapped :
           /\ k \in Keys /\ stacks[k] \in StackOf(Cmds)
           /\ stacks' = [stacks EXCEPT ![k] = ShiftOldestUndo(stacks[k])]
           /\ OverBudget /\ sweep = "commands" /\ mapped' = mapped
    BY <1>3, CommandDropped
  <2>2. \A j \in mapped : ~HasSnapshot(j)
    BY <2>1 DEF SnapsGone
  <2>3. stacks[k].anchors \in [Slots -> Nat]
    BY <2>1, StackParts
  <2>4. \A i \in Slots : ~(ShiftOldestUndo(stacks[k]).anchors[i] > 0)
    <3>1. \A i \in Slots : ~(stacks[k].anchors[i] > 0)
      BY <2>2 DEF HasSnapshot
    <3>2. \A i \in Slots : ~(Slide(stacks[k].anchors)[i] > 0)
      BY <2>3, <3>1, SlideEmpties
    <3> QED
      BY <3>2 DEF ShiftOldestUndo
  <2>5. ASSUME NEW j \in mapped' PROVE ~HasSnapshot(j)'
    <3>1. j \in mapped /\ j \in Keys /\ stacks \in [Keys -> StackOf(Cmds)]
      BY <2>1 DEF IInv, RestOK, StacksOK
    <3>2. stacks'[j] = IF j = k THEN ShiftOldestUndo(stacks[k]) ELSE stacks[j]
      BY <2>1, <3>1
    <3>3. CASE j = k
      BY <2>4, <3>2, <3>3 DEF HasSnapshot
    <3>4. CASE j # k
      BY <2>2, <3>1, <3>2, <3>4 DEF HasSnapshot
    <3> QED
      BY <3>3, <3>4
  <2> QED
    BY <2>5 DEF SnapsGone
<1>4. CASE /\ sweep' = "commands" /\ ~SnapshotPassEnds /\ ~EvictCommand
  <2>1. UNCHANGED vars
    <3>1. ASSUME Next PROVE FALSE
      <4>1. ASSUME NEW c \in Cmds, Handler(c) PROVE FALSE
        BY <1>4, <4>1 DEF Handler, ExecuteWand, PaintWrites, PaintFails, Snapshot, Finish,
           Enrol, RedoWrites, RedoFails, Running
      <4>2. ASSUME NEW t \in Tokens, Arrival(t) PROVE FALSE
        BY <1>4, <4>2 DEF Arrival, BeginSync, BeginPaint, BeginWand, BeginLegacy, Begin,
           Undo, Redo, NoOp, Consume, Running
      <4>3. ASSUME NEW t \in Tokens, Connection(t) PROVE FALSE
        BY <1>4, <4>3 DEF Connection, Admit, Release, GraceExpires, Revoke, Running
      <4>4. ~WindowPasses /\ ~Restart
        BY <1>4 DEF WindowPasses, Restart, Running
      <4>5. ~Evict
        BY <1>4 DEF Evict, EvictionTick, EvictSnapshot, CommandPassEnds
      <4> QED
        BY <3>1, <4>1, <4>2, <4>3, <4>4, <4>5 DEF Next
    <3> QED
      BY <3>1
  <2>2. OverBudget' <=> OverBudget
    BY <2>1 DEF vars, OverBudget
  <2> QED
    BY <2>1, <2>2 DEF vars, SnapsGone, HasSnapshot
<1> QED
  BY <1>1, <1>2, <1>3, <1>4

LEMMA EvictionStep ==
  ASSUME IInv, SnapsGone, [Next]_vars
  PROVE  \A k \in mapped : sweep = "commands" /\ stacks'[k].undo # stacks[k].undo
           => /\ Len(stacks'[k].undo) >= Floor
              /\ \A j \in mapped : ~HasSnapshot(j)
<1> SUFFICES ASSUME NEW k \in mapped, sweep = "commands", stacks'[k].undo # stacks[k].undo
             PROVE  /\ Len(stacks'[k].undo) >= Floor
                    /\ \A j \in mapped : ~HasSnapshot(j)
  OBVIOUS
<1>1. EvictCommand
  <2>1. stacks' # stacks
    OBVIOUS
  <2>2. ASSUME NEW c \in Cmds, Handler(c) PROVE FALSE
    BY <2>2 DEF Handler, ExecuteWand, PaintWrites, PaintFails, Snapshot, Finish,
       Enrol, RedoWrites, RedoFails, Running
  <2>3. ASSUME NEW t \in Tokens, Arrival(t) PROVE FALSE
    BY <2>3 DEF Arrival, BeginSync, BeginPaint, BeginWand, BeginLegacy, Begin,
       Undo, Redo, NoOp, Consume, Running
  <2>4. ASSUME NEW t \in Tokens, Connection(t) PROVE FALSE
    BY <2>4 DEF Connection, Admit, Release, GraceExpires, Revoke, Running
  <2>5. ~WindowPasses /\ ~Restart
    BY DEF WindowPasses, Restart, Running
  <2>6. Evict
    BY <2>1, <2>2, <2>3, <2>4, <2>5 DEF Next, vars
  <2> QED
    BY <2>1, <2>6 DEF Evict, EvictionTick, EvictSnapshot, SnapshotPassEnds, CommandPassEnds
<1>2. PICK d \in mapped :
           /\ d \in Keys /\ stacks[d] \in StackOf(Cmds)
           /\ Len(stacks[d].undo) > Floor
           /\ stacks' = [stacks EXCEPT ![d] = ShiftOldestUndo(stacks[d])]
           /\ OverBudget
  BY <1>1, CommandDropped
<1>3. d = k /\ stacks'[k] = ShiftOldestUndo(stacks[k])
  BY <1>2 DEF IInv, RestOK, StacksOK
<1>4. stacks[k].undo \in Seq(Cmds) /\ stacks'[k].undo = Tail(stacks[k].undo)
  BY <1>2, <1>3, StackParts DEF ShiftOldestUndo
<1>5. Floor \in Nat
  BY Parameters
<1>6. Len(stacks'[k].undo) = Len(stacks[k].undo) - 1
  <2>1. stacks[k].undo # <<>>
    <3> SUFFICES ASSUME stacks[k].undo = <<>> PROVE FALSE
      OBVIOUS
    <3>1. Len(stacks[k].undo) = 0
      OBVIOUS
    <3> QED
      BY <1>2, <1>3, <1>5, <3>1
  <2> QED
    BY <1>4, <2>1, HeadTailProperties
<1>7. Len(stacks'[k].undo) >= Floor
  <2>1. Len(stacks[k].undo) \in Nat
    BY <1>4
  <2> QED
    BY <1>2, <1>3, <1>5, <1>6, <2>1
<1> QED
  BY <1>2, <1>7 DEF SnapsGone

(* EvictionPolicy.run never takes a command while a snapshot is left       *)
(* anywhere, and never takes a stack below floor_ops_per_stack.            *)
THEOREM EvictionOrdered == Spec => EvictionOrder
<1>1. Init => SnapsGone
  BY DEF Init, SnapsGone
<1> QED
  BY <1>1, InitIInv, StepIInv, SnapsGoneStep, EvictionStep, PTL DEF Spec, EvictionOrder

-----------------------------------------------------------------------------
(* Who is in flight together.  Two commands in flight on one target are    *)
(* there only if the target is mixed.                                      *)

Apart ==
  \A c, e \in Cmds : InFlight(c) /\ InFlight(e) /\ c # e /\ cmd[c].target = cmd[e].target
                       => cmd[c].target \in mixed

(* Some event of q is another token's edit of a layer x affects.           *)
Meets(q, t, x) ==
  \E i \in DOMAIN q : q[i].tok # t /\ Affects[q[i].target] \cap Affects[x] # {}

(* An edit that met no conflict in its search, and was not overtaken after *)
(* it, meets none later.                                                   *)
FlagKept ==
  \A c \in Cmds : stage[c] \in {"applying", "applied", "snapped"} /\ ~flight[c].clash
                    /\ c \notin missed => ~Meets(recent, cmd[c].tok, cmd[c].target)

(* What a step may do to the commands in flight: end some, or let one      *)
(* begin.                                                                  *)
NoneEnters ==
  cmd' = cmd /\ mixed \subseteq mixed' /\ \A e \in Cmds : InFlight(e)' => InFlight(e)

Enters(c) ==
  /\ mixed' = Mixing(cmd'[c].target)
  /\ \A e \in Cmds \ {c} : cmd'[e] = cmd[e] /\ (InFlight(e)' => InFlight(e))

LEMMA OnStack ==
  ASSUME IInv, NEW t \in Tokens, NEW d \in Docs
  PROVE  LET s == stacks[IdKey(t, d)]
         IN  /\ s.undo # <<>> => s.undo[Len(s.undo)] \in Cmds
             /\ s.redo # <<>> => s.redo[Len(s.redo)] \in Cmds
  BY KeysOfTokens, StackOfKey, StackParts, FrontFacts DEF IInv

(* The first segment of a request, whatever handler it is for.             *)
Begins(c, t, x) == \/ BeginSync(c, t, x) \/ BeginPaint(c, t, x)
                   \/ BeginWand(c, t, x) \/ BeginLegacy(c, t, x)

LEMMA BeginFacts ==
  ASSUME IInv, NEW t \in Tokens, NEW c \in Cmds, NEW x \in Targets,
         Begins(c, t, x)
  PROVE  /\ Begin(c, t, x) /\ stage[c] = "idle" /\ mixed' = Mixing(x) /\ missed' = missed
         /\ cmd' = [cmd EXCEPT ![c] = [tok |-> t, target |-> x, prior |-> content[x]]]
         /\ cmd'[c].tok = t /\ cmd'[c].target = x /\ cmd'[c].prior = content[x]
         /\ \A e \in Cmds \ {c} : cmd'[e] = cmd[e] /\ stage'[e] = stage[e]
         /\ stage' = [stage EXCEPT ![c] = stage'[c]]
         /\ redoing' = redoing /\ stacks' = stacks /\ recent' = recent
         /\ announced' = announced
<1>1. Begin(c, t, x)
  BY DEF Begins, BeginSync, BeginPaint, BeginWand, BeginLegacy
<1>2. stage' = [stage EXCEPT ![c] = stage'[c]]
  BY DEF Begins, BeginSync, BeginPaint, BeginWand, BeginLegacy, IInv, RestOK
<1> QED
  BY <1>1, <1>2 DEF Begin, IInv, RestOK

LEMMA FlightStep ==
  ASSUME IInv, [Next]_vars
  PROVE  NoneEnters \/ Restart \/ \E c \in Cmds : Enters(c)
<1> USE DEF InFlight
<1>0. redoing \in [Cmds -> Nat] /\ stage \in [Cmds -> Stages]
  BY DEF IInv, RestOK
<1>1. ASSUME NEW c \in Cmds, Handler(c) PROVE NoneEnters
  <2>1. CASE ExecuteWand(c)
    BY <1>0, <2>1 DEF ExecuteWand, marks, NoneEnters
  <2>2. CASE PaintWrites(c)
    BY <1>0, <2>2 DEF PaintWrites, marks, NoneEnters
  <2>3. CASE PaintFails(c)
    BY <1>0, <2>3 DEF PaintFails, canvas, marks, NoneEnters
  <2>4. CASE Snapshot(c)
    BY <1>0, <2>4 DEF Snapshot, canvas, marks, NoneEnters
  <2>5. CASE Finish(c)
    BY <1>0, <2>5 DEF Finish, canvas, marks, NoneEnters
  <2>6. CASE Enrol(c)
    BY <1>0, <2>6 DEF Enrol, canvas, marks, NoneEnters
  <2>7. CASE RedoWrites(c)
    BY <1>0, <2>7 DEF RedoWrites, marks, NoneEnters
  <2>8. CASE RedoFails(c)
    BY <1>0, <2>8 DEF RedoFails, canvas, marks, NoneEnters
  <2> QED
    BY <1>1, <2>1, <2>2, <2>3, <2>4, <2>5, <2>6, <2>7, <2>8 DEF Handler
<1>2. ASSUME NEW t \in Tokens, NEW c \in Cmds, NEW x \in Targets,
             Begins(c, t, x)
      PROVE  Enters(c)
  <2>1. /\ mixed' = Mixing(x) /\ cmd'[c].target = x /\ redoing' = redoing
        /\ \A e \in Cmds \ {c} : cmd'[e] = cmd[e] /\ stage'[e] = stage[e]
    BY <1>2, BeginFacts
  <2> QED
    BY <2>1 DEF Enters
<1>3. ASSUME NEW t \in Tokens, NEW d \in Docs, Undo(t, d) \/ NoOp(t, d)
      PROVE  NoneEnters
  BY <1>3, MixingFacts DEF Undo, NoOp, Consume, NoneEnters
<1>4. ASSUME NEW t \in Tokens, NEW d \in Docs, Redo(t, d)
      PROVE  NoneEnters \/ \E c \in Cmds : Enters(c)
  <2> DEFINE s == stacks[IdKey(t, d)]
             c == s.redo[Len(s.redo)]
  <2>1. c \in Cmds /\ mixed' = Mixing(cmd[c].target) /\ cmd' = cmd /\ stage' = stage
    BY <1>4, OnStack DEF Redo, Consume
  <2>2. redoing' = redoing \/ redoing' = [redoing EXCEPT ![c] = @ + 1]
    BY <1>4 DEF Redo
  <2> HIDE DEF c
  <2>3. CASE redoing' = redoing
    BY <2>1, <2>3, MixingFacts DEF NoneEnters
  <2>4. CASE redoing' = [redoing EXCEPT ![c] = @ + 1]
    BY <1>0, <2>1, <2>4 DEF Enters
  <2> QED
    BY <2>2, <2>3, <2>4
<1>5. ASSUME NEW t \in Tokens, Connection(t) PROVE NoneEnters
  BY <1>5 DEF Connection, Admit, Release, GraceExpires, Revoke, canvas, marks, NoneEnters
<1>6. ASSUME WindowPasses \/ Evict PROVE NoneEnters
  BY <1>6 DEF WindowPasses, Evict, EvictionTick, EvictSnapshot, SnapshotPassEnds,
     EvictCommand, CommandPassEnds, SweepFrame, canvas, marks, NoneEnters
<1>7. ASSUME UNCHANGED vars PROVE NoneEnters
  BY <1>7 DEF vars, canvas, marks, NoneEnters
<1> QED
  BY <1>1, <1>2, <1>3, <1>4, <1>5, <1>6, <1>7 DEF Next, Arrival, Begins

LEMMA ApartStep ==
  ASSUME IInv, Apart, [Next]_vars
  PROVE  Apart'
<1>1. CASE NoneEnters
  BY <1>1 DEF NoneEnters, Apart
<1>2. ASSUME NEW c \in Cmds, Enters(c) PROVE Apart'
  <2>1. /\ mixed \subseteq mixed'
        /\ \A e \in Cmds \ {c} : InFlight(e)' =>
             /\ cmd'[e] = cmd[e] /\ InFlight(e)
             /\ cmd'[c].target \notin mixed' => cmd[e].target # cmd'[c].target
    BY <1>2, MixingFacts DEF Enters
  <2> QED
    BY <2>1 DEF Apart
<1>3. CASE Restart
  <2>1. \A e \in Cmds : stage'[e] \in {"idle", "done"} /\ redoing'[e] = 0
    BY <1>3 DEF Restart
  <2> QED
    BY <2>1 DEF Apart, InFlight
<1> QED
  BY <1>1, <1>2, <1>3, FlightStep

(* How the recent events a command is compared with may change.            *)
LEMMA MeetsAppend ==
  ASSUME NEW E, NEW q \in Seq(E), NEW e \in E, NEW t, NEW x, Meets(Append(q, e), t, x)
  PROVE  Meets(q, t, x) \/ (e.tok # t /\ Affects[e.target] \cap Affects[x] # {})
<1> DEFINE p == Append(q, e)
<1>1. /\ p \in Seq(E) /\ Len(p) = Len(q) + 1 /\ Len(q) \in Nat
      /\ \A i \in 1 .. Len(q) : p[i] = q[i]
      /\ p[Len(q) + 1] = e
  BY AppendProperties
<1>2. DOMAIN q = 1 .. Len(q) /\ DOMAIN p = 1 .. Len(q) + 1
  BY <1>1, LenProperties
<1>3. PICK i \in DOMAIN p : p[i].tok # t /\ Affects[p[i].target] \cap Affects[x] # {}
  BY DEF Meets
<1> HIDE DEF p
<1>4. CASE i \in 1 .. Len(q)
  BY <1>1, <1>2, <1>3, <1>4 DEF Meets
<1>5. CASE i = Len(q) + 1
  BY <1>1, <1>3, <1>5
<1> QED
  BY <1>1, <1>2, <1>4, <1>5

LEMMA MeetsTail ==
  ASSUME NEW E, NEW q \in Seq(E), q # <<>>, NEW t, NEW x, Meets(Tail(q), t, x)
  PROVE  Meets(q, t, x)
<1> DEFINE p == Tail(q)
<1>1. /\ p \in Seq(E) /\ Len(p) = Len(q) - 1
      /\ \A i \in 1 .. Len(p) : p[i] = q[i + 1]
  BY HeadTailProperties
<1>2. Len(q) \in Nat /\ DOMAIN q = 1 .. Len(q) /\ DOMAIN p = 1 .. Len(p)
  BY <1>1, LenProperties
<1>3. PICK i \in DOMAIN p : p[i].tok # t /\ Affects[p[i].target] \cap Affects[x] # {}
  BY DEF Meets
<1> HIDE DEF p
<1>4. i + 1 \in DOMAIN q /\ p[i] = q[i + 1]
  BY <1>1, <1>2, <1>3
<1> QED
  BY <1>3, <1>4 DEF Meets

LEMMA FlagKeptStep ==
  ASSUME IInv, FlagKept, [Next]_vars
  PROVE  FlagKept'
<1> USE DEF FlagKept
<1> DEFINE E == [tok : Tokens, target : Targets]
<1>0. /\ recent \in Seq(E) /\ stage \in [Cmds -> Stages]
      /\ flight \in [Cmds -> [live : BOOLEAN, clash : BOOLEAN, snap : BOOLEAN]]
      /\ \A c \in Cmds : cmd[c].tok \in Tokens /\ cmd[c].target \in Targets
  BY KeyOfCommand DEF IInv, RestOK
<1> HIDE DEF E
<1>1. ASSUME NEW c \in Cmds, Handler(c) PROVE FlagKept'
  <2>1. CASE ExecuteWand(c)
    <3> DEFINE locals == [live |-> TRUE, clash |-> Overlaps(cmd[c].tok, cmd[c].target),
                          snap |-> FALSE]
    <3>1. /\ UNCHANGED <<recent, cmd, missed>> /\ flight' = [flight EXCEPT ![c] = locals]
          /\ \A e \in Cmds \ {c} : stage'[e] = stage[e]
      BY <1>0, <2>1 DEF ExecuteWand, EnterExecute, marks
    <3>2. locals.clash <=> Meets(recent, cmd[c].tok, cmd[c].target)
      BY DEF Overlaps, Meets
    <3> HIDE DEF locals
    <3>3. flight'[c] = locals /\ \A e \in Cmds \ {c} : flight'[e] = flight[e]
      BY <1>0, <3>1
    <3> QED
      BY <3>1, <3>2, <3>3
  <2>2. CASE PaintWrites(c)
    BY <1>0, <2>2 DEF PaintWrites, marks
  <2>3. CASE PaintFails(c)
    BY <1>0, <2>3 DEF PaintFails, canvas, marks
  <2>4. CASE Snapshot(c)
    BY <1>0, <2>4 DEF Snapshot, canvas, marks
  <2>5. CASE Finish(c)
    <3>1. /\ recent' = Append(recent, [tok |-> cmd[c].tok, target |-> cmd[c].target])
          /\ [tok |-> cmd[c].tok, target |-> cmd[c].target] \in E
      BY <1>0, <2>5 DEF Finish, E
    <3>2. stage[c] = "snapped" /\ stage'[c] = "done" /\ cmd' = cmd /\ missed' = missed \cup Overtaken(c)
          /\ \A e \in Cmds \ {c} : stage'[e] = stage[e] /\ flight'[e] = flight[e]
      BY <1>0, <2>5 DEF Finish, canvas, marks
    <3>3. ASSUME NEW e \in Cmds, stage'[e] \in {"applying", "applied", "snapped"},
                 ~flight'[e].clash, e \notin missed', Meets(recent', cmd'[e].tok, cmd'[e].target)
          PROVE  FALSE
      <4>1. /\ e # c /\ stage[e] \in {"applying", "applied", "snapped"} /\ e \notin missed \cup Overtaken(c)
            /\ ~Meets(recent, cmd[e].tok, cmd[e].target) /\ cmd'[e] = cmd[e]
        BY <3>2, <3>3
      <4>2. Meets(recent', cmd[e].tok, cmd[e].target)
        BY <3>3, <4>1
      <4>3. Affects[cmd[c].target] \cap Affects[cmd[e].target] # {} /\ cmd[c].tok # cmd[e].tok
        BY <1>0, <3>1, <4>1, <4>2, MeetsAppend
      <4> QED
        BY <4>1, <4>3 DEF Overtaken
    <3> QED
      BY <3>3
  <2>6. CASE Enrol(c)
    BY <1>0, <2>6 DEF Enrol, canvas, marks
  <2>7. CASE RedoWrites(c)
    BY <1>0, <2>7 DEF RedoWrites, marks
  <2>8. CASE RedoFails(c)
    BY <1>0, <2>8 DEF RedoFails, canvas, marks
  <2> QED
    BY <1>1, <2>1, <2>2, <2>3, <2>4, <2>5, <2>6, <2>7, <2>8 DEF Handler
<1>2. ASSUME NEW t \in Tokens, NEW c \in Cmds, NEW x \in Targets,
             Begins(c, t, x)
      PROVE  FlagKept'
  <2>1. /\ recent' = recent /\ missed' = missed
        /\ cmd'[c].tok = t /\ cmd'[c].target = x /\ stage[c] = "idle"
        /\ \A e \in Cmds \ {c} : cmd'[e] = cmd[e] /\ stage'[e] = stage[e]
    BY <1>2, BeginFacts
  <2>2. \/ /\ flight' = [flight EXCEPT ![c] = [live |-> TRUE, clash |-> Overlaps(t, x),
                                               snap |-> FALSE]]
        \/ flight' = flight /\ stage'[c] \in {"captured", "enrolling"}
    BY <1>0, <1>2 DEF Begins, BeginSync, BeginPaint, BeginWand, BeginLegacy, EnterExecute
  <2>3. ASSUME NEW e \in Cmds, e # c, stage'[e] \in {"applying", "applied", "snapped"},
               ~flight'[e].clash, e \notin missed'
        PROVE  ~Meets(recent', cmd'[e].tok, cmd'[e].target)
    <3>1. flight'[e] = flight[e] /\ stage'[e] = stage[e] /\ cmd'[e] = cmd[e]
      BY <1>0, <2>1, <2>2, <2>3
    <3> QED
      BY <2>1, <2>3, <3>1
  <2>4. stage'[c] \in {"applying", "applied", "snapped"} /\ ~flight'[c].clash
          => ~Meets(recent', cmd'[c].tok, cmd'[c].target)
    <3>1. CASE flight' = [flight EXCEPT ![c] = [live |-> TRUE, clash |-> Overlaps(t, x),
                                               snap |-> FALSE]]
      <4>1. flight'[c].clash <=> Meets(recent, t, x)
        BY <1>0, <3>1 DEF Overlaps, Meets
      <4> QED
        BY <2>1, <4>1
    <3>2. CASE stage'[c] \in {"captured", "enrolling"}
      BY <3>2
    <3> QED
      BY <2>2, <3>1, <3>2
  <2> QED
    BY <2>3, <2>4
<1>3. ASSUME NEW t \in Tokens, NEW d \in Docs, Undo(t, d) \/ Redo(t, d) \/ NoOp(t, d)
      PROVE  FlagKept'
  <2>1. UNCHANGED <<recent, cmd, stage, flight, missed>>
    BY <1>3 DEF Undo, Redo, NoOp, Consume
  <2> QED
    BY <2>1
<1>4. ASSUME NEW t \in Tokens, Connection(t) PROVE FlagKept'
  <2>1. /\ UNCHANGED <<recent, cmd, stage, missed>>
        /\ \A c \in Cmds : flight'[c].clash = flight[c].clash
    BY <1>0, <1>4 DEF Connection, Admit, Release, GraceExpires, Revoke, Discard, canvas, marks
  <2> QED
    BY <2>1
<1>5. ASSUME WindowPasses PROVE FlagKept'
  <2>1. /\ recent # <<>> /\ recent' = Tail(recent) /\ UNCHANGED <<cmd, stage, flight, missed>>
    BY <1>5 DEF WindowPasses, canvas, marks
  <2>2. \A t, x : Meets(recent', t, x) => Meets(recent, t, x)
    BY <1>0, <2>1, MeetsTail
  <2> QED
    BY <2>1, <2>2
<1>6. ASSUME Evict PROVE FlagKept'
  <2>1. UNCHANGED <<recent, cmd, stage, flight, missed>>
    BY <1>6 DEF Evict, EvictionTick, EvictSnapshot, SnapshotPassEnds, EvictCommand,
       CommandPassEnds, SweepFrame, canvas, marks
  <2> QED
    BY <2>1
<1>7. ASSUME Restart PROVE FlagKept'
  BY <1>0, <1>7 DEF Restart
<1>8. ASSUME UNCHANGED vars PROVE FlagKept'
  BY <1>8 DEF vars, canvas, marks
<1> QED
  BY <1>1, <1>2, <1>3, <1>4, <1>5, <1>6, <1>7, <1>8 DEF Next, Arrival, Begins

Flagged == \A c \in Cmds \ missed : Flags(c)

LEMMA FlaggedStep ==
  ASSUME IInv, FlagKept, [Next]_vars
  PROVE  Flagged
<1> SUFFICES ASSUME NEW c \in Cmds, announced[c] = "no", announced'[c] = "clean", c \notin missed
             PROVE  ~Overlaps(cmd[c].tok, cmd[c].target)
  BY DEF Flagged, Flags
<1>1. Finish(c)
  <2>1. announced' # announced
    OBVIOUS
  <2>2. ASSUME NEW e \in Cmds, Handler(e) PROVE Finish(c)
    <3>1. Finish(e)
      BY <2>1, <2>2 DEF Handler, ExecuteWand, PaintWrites, PaintFails, Snapshot, Enrol,
         RedoWrites, RedoFails
    <3>2. e = c
      BY <3>1 DEF Finish, IInv, RestOK
    <3> QED
      BY <3>1, <3>2
  <2>3. ASSUME NEW t \in Tokens, Arrival(t) PROVE FALSE
    BY <2>1, <2>3 DEF Arrival, BeginSync, BeginPaint, BeginWand, BeginLegacy, Begin,
       Undo, Redo, NoOp, Consume
  <2>4. ASSUME NEW t \in Tokens, Connection(t) PROVE FALSE
    BY <2>1, <2>4 DEF Connection, Admit, Release, GraceExpires, Revoke
  <2>5. ~WindowPasses /\ ~Restart /\ ~Evict
    BY <2>1 DEF WindowPasses, Restart, Evict, EvictionTick, EvictSnapshot, SnapshotPassEnds,
       EvictCommand, CommandPassEnds, SweepFrame
  <2> QED
    BY <2>1, <2>2, <2>3, <2>4, <2>5 DEF Next, vars
<1>2. announced' = [announced EXCEPT ![c] = IF flight[c].clash THEN "conflict" ELSE "clean"]
      /\ stage[c] = "snapped"
  BY <1>1 DEF Finish
<1>3. ~flight[c].clash
  BY <1>2 DEF IInv, RestOK
<1> QED
  BY <1>2, <1>3 DEF FlagKept, Overlaps, Meets

(* FR-13, for requests that overlap in any way: an edit published as clean *)
(* while another token's edit of its layer is inside conflict_window_ms    *)
(* was overtaken by one between its search for conflicts and its end.      *)
THEOREM ConflictsFlagged == Spec => ConflictFlagged
<1>1. Init => FlagKept
  BY DEF Init, FlagKept
<1> QED
  BY <1>1, InitIInv, StepIInv, FlagKeptStep, FlaggedStep, PTL
     DEF Spec, ConflictFlagged, Flagged

-----------------------------------------------------------------------------
(* A stack as a history: which commands it offers to undo and to redo, and *)
(* which of two came first.                                                *)

Undoable(s) == {s.undo[i] : i \in DOMAIN s.undo}
Redoable(s) == {s.redo[i] : i \in DOMAIN s.redo}
Held(s)     == Undoable(s) \cup Redoable(s)

Earlier(s, c, d) ==
  \/ \E i, j \in DOMAIN s.undo : i < j /\ s.undo[i] = c /\ s.undo[j] = d
  \/ c \in Undoable(s) /\ d \in Redoable(s)
  \/ \E i, j \in DOMAIN s.redo : i < j /\ s.redo[j] = c /\ s.redo[i] = d

(* Nothing is on the stack of s1 that was not on s, nor in another order.  *)
Within(s1, s) ==
  /\ Undoable(s1) \subseteq Undoable(s)
  /\ Redoable(s1) \subseteq Redoable(s)
  /\ \A c, d \in Cmds : Earlier(s1, c, d) => Earlier(s, c, d)

LEMMA HeldCommands ==
  ASSUME NEW s \in StackOf(Cmds)
  PROVE  Undoable(s) \subseteq Cmds /\ Redoable(s) \subseteq Cmds
<1>1. s.undo \in Seq(Cmds) /\ s.redo \in Seq(Cmds)
  BY StackParts
<1> QED
  BY <1>1, ElementOfSeq, LenProperties DEF Undoable, Redoable

LEMMA WithinItself ==
  ASSUME NEW s
  PROVE  Within(s, s)
  BY DEF Within

LEMMA EmptyWithin ==
  ASSUME NEW s
  PROVE  /\ Within(EmptyStack, s)
         /\ Undoable(EmptyStack) = {} /\ Redoable(EmptyStack) = {}
  BY DEF Within, EmptyStack, Undoable, Redoable, Earlier

(* The newest end of an array, and the oldest.                             *)
LEMMA FrontIndex ==
  ASSUME NEW q \in Seq(Cmds), q # <<>>
  PROVE  /\ Len(q) \in Nat /\ Len(q) >= 1
         /\ DOMAIN q = 1 .. Len(q) /\ DOMAIN Front1(q) = 1 .. Len(q) - 1
         /\ \A i \in 1 .. Len(q) - 1 : Front1(q)[i] = q[i]
<1>1. Len(q) \in Nat /\ Len(q) >= 1
  BY EmptySeq
<1>2. PICK n \in Nat : n = Len(q) - 1
  BY <1>1
<1>3. \A i \in 1 .. n : q[i] \in Cmds
  BY <1>1, <1>2, ElementOfSeq
<1>4. /\ \A i \in 1 .. n : SubSeq(q, 1, n)[i] = q[1 + i - 1]
      /\ SubSeq(q, 1, n) \in Seq(Cmds) /\ Len(SubSeq(q, 1, n)) = n
  BY <1>1, <1>2, <1>3, SubSeqProperties
<1>5. Front1(q) = SubSeq(q, 1, n)
  BY <1>2 DEF Front1
<1>6. DOMAIN q = 1 .. Len(q) /\ DOMAIN Front1(q) = 1 .. n
  BY <1>4, <1>5, LenProperties
<1>7. \A i \in 1 .. n : 1 + i - 1 = i
  BY <1>2
<1> QED
  BY <1>1, <1>2, <1>4, <1>5, <1>6, <1>7

LEMMA AppendIndex ==
  ASSUME NEW q \in Seq(Cmds), NEW c \in Cmds
  PROVE  /\ Len(q) \in Nat /\ DOMAIN q = 1 .. Len(q)
         /\ DOMAIN Append(q, c) = 1 .. Len(q) + 1
         /\ \A i \in 1 .. Len(q) : Append(q, c)[i] = q[i]
         /\ Append(q, c)[Len(q) + 1] = c
<1>1. Append(q, c) \in Seq(Cmds) /\ Len(Append(q, c)) = Len(q) + 1
  BY AppendProperties
<1> QED
  BY <1>1, AppendProperties, LenProperties

LEMMA TailIndex ==
  ASSUME NEW q \in Seq(Cmds), q # <<>>
  PROVE  /\ Len(q) \in Nat /\ DOMAIN q = 1 .. Len(q)
         /\ DOMAIN Tail(q) = 1 .. Len(q) - 1
         /\ \A i \in 1 .. Len(q) - 1 : Tail(q)[i] = q[i + 1] /\ i + 1 \in 1 .. Len(q)
<1>1. /\ Tail(q) \in Seq(Cmds) /\ Len(Tail(q)) = Len(q) - 1
      /\ \A i \in 1 .. Len(Tail(q)) : Tail(q)[i] = q[i + 1]
  BY HeadTailProperties
<1>2. Len(q) \in Nat /\ DOMAIN q = 1 .. Len(q) /\ DOMAIN Tail(q) = 1 .. Len(Tail(q))
  BY <1>1, LenProperties
<1> QED
  BY <1>1, <1>2

(* An array as the undo array of a stack: only its order matters.          *)
LEMMA TailWithin ==
  ASSUME NEW q \in Seq(Cmds), q # <<>>, NEW r, NEW a, NEW b
  PROVE  Within([undo |-> Tail(q), redo |-> r, anchors |-> a],
                [undo |-> q, redo |-> r, anchors |-> b])
<1> DEFINE s  == [undo |-> q, redo |-> r, anchors |-> b]
           s1 == [undo |-> Tail(q), redo |-> r, anchors |-> a]
           p  == Tail(q)
<1>1. /\ Len(q) \in Nat /\ DOMAIN q = 1 .. Len(q) /\ DOMAIN p = 1 .. Len(q) - 1
      /\ \A i \in 1 .. Len(q) - 1 : p[i] = q[i + 1] /\ i + 1 \in 1 .. Len(q)
  BY TailIndex
<1>2. s.undo = q /\ s1.undo = p /\ s.redo = r /\ s1.redo = r
  OBVIOUS
<1> HIDE DEF s, s1, p
<1>3. Undoable(s1) \subseteq Undoable(s) /\ Redoable(s1) = Redoable(s)
  BY <1>1, <1>2 DEF Undoable, Redoable
<1>4. ASSUME NEW c \in Cmds, NEW d \in Cmds, Earlier(s1, c, d)
      PROVE  Earlier(s, c, d)
  <2>1. CASE \E i, j \in DOMAIN s1.undo : i < j /\ s1.undo[i] = c /\ s1.undo[j] = d
    <3>1. PICK i, j \in DOMAIN p : i < j /\ p[i] = c /\ p[j] = d
      BY <1>2, <2>1
    <3>2. /\ i + 1 \in DOMAIN q /\ j + 1 \in DOMAIN q /\ i + 1 < j + 1
          /\ q[i + 1] = c /\ q[j + 1] = d
      BY <1>1, <3>1
    <3> QED
      BY <1>2, <3>2 DEF Earlier
  <2>2. CASE c \in Undoable(s1) /\ d \in Redoable(s1)
    BY <1>3, <2>2 DEF Earlier
  <2>3. CASE \E i, j \in DOMAIN s1.redo : i < j /\ s1.redo[j] = c /\ s1.redo[i] = d
    BY <1>2, <2>3 DEF Earlier
  <2> QED
    BY <1>4, <2>1, <2>2, <2>3 DEF Earlier
<1> QED
  BY <1>3, <1>4 DEF Within, s, s1

LEMMA ShiftWithin ==
  ASSUME NEW s \in StackOf(Cmds), s.undo # <<>>
  PROVE  Within(ShiftOldestUndo(s), s)
<1>1. s.undo \in Seq(Cmds) /\ s = [undo |-> s.undo, redo |-> s.redo, anchors |-> s.anchors]
  BY StackParts DEF StackOf
<1> QED
  BY <1>1, TailWithin DEF ShiftOldestUndo

LEMMA EvictSnapshotWithin ==
  ASSUME NEW s, NEW i
  PROVE  Within(EvictSnapshotAt(s, i), s)
<1>1. EvictSnapshotAt(s, i).undo = s.undo /\ EvictSnapshotAt(s, i).redo = s.redo
  BY DEF EvictSnapshotAt
<1> QED
  BY <1>1 DEF Within, Undoable, Redoable, Earlier

(* undo takes the newest command of the undo array, which comes after all  *)
(* others there and before all on the redo array.                          *)
LEMMA PopUndoOrder ==
  ASSUME NEW s \in StackOf(Cmds), s.undo # <<>>, NEW c, c = s.undo[Len(s.undo)]
  PROVE  /\ c \in Cmds /\ c \in Undoable(s)
         /\ \A d \in Undoable(PopUndo(s)) : d \in Undoable(s) /\ Earlier(s, d, c)
         /\ \A d \in Redoable(PopUndo(s)) : d = c \/ (d \in Redoable(s) /\ Earlier(s, c, d))
         /\ \A d, e \in Cmds : Earlier(PopUndo(s), d, e) => Earlier(s, d, e)
<1> DEFINE q == s.undo
           r == s.redo
           u == Front1(q)
           v == Append(r, c)
           s1 == PopUndo(s)
<1>1. q \in Seq(Cmds) /\ r \in Seq(Cmds) /\ q # <<>>
  BY StackParts
<1>2. c \in Cmds
  BY <1>1, FrontFacts
<1>3. /\ Len(q) \in Nat /\ Len(q) >= 1
      /\ DOMAIN q = 1 .. Len(q) /\ DOMAIN u = 1 .. Len(q) - 1
      /\ \A i \in 1 .. Len(q) - 1 : u[i] = q[i]
  BY <1>1, FrontIndex
<1>4. /\ Len(r) \in Nat /\ DOMAIN r = 1 .. Len(r) /\ DOMAIN v = 1 .. Len(r) + 1
      /\ \A i \in 1 .. Len(r) : v[i] = r[i]
      /\ v[Len(r) + 1] = c
  BY <1>1, <1>2, AppendIndex
<1>5. s1.undo = u /\ s1.redo = v /\ c = q[Len(q)]
  BY DEF PopUndo
<1>6. Len(q) \in DOMAIN q
  BY <1>3
<1>7. c \in Undoable(s)
  BY <1>5, <1>6 DEF Undoable
<1> HIDE DEF s1, u, v
<1>8. ASSUME NEW d \in Undoable(s1) PROVE d \in Undoable(s) /\ Earlier(s, d, c)
  <2>1. PICK i \in 1 .. Len(q) - 1 : d = u[i]
    BY <1>3, <1>5 DEF Undoable
  <2>2. i \in DOMAIN q /\ q[i] = d /\ i < Len(q)
    BY <1>3, <2>1
  <2> QED
    BY <1>5, <1>6, <2>2 DEF Undoable, Earlier
<1>9. ASSUME NEW d \in Redoable(s1) PROVE d = c \/ (d \in Redoable(s) /\ Earlier(s, c, d))
  <2>1. PICK i \in 1 .. Len(r) + 1 : d = v[i]
    BY <1>4, <1>5 DEF Redoable
  <2>2. CASE i = Len(r) + 1
    BY <1>4, <2>1, <2>2
  <2>3. CASE i \in 1 .. Len(r)
    <3>1. d \in Redoable(s)
      BY <1>4, <2>1, <2>3 DEF Redoable
    <3> QED
      BY <1>7, <3>1 DEF Earlier
  <2> QED
    BY <1>4, <2>1, <2>2, <2>3
<1>10. ASSUME NEW d \in Cmds, NEW e \in Cmds, Earlier(s1, d, e) PROVE Earlier(s, d, e)
  <2>1. CASE \E i, j \in DOMAIN s1.undo : i < j /\ s1.undo[i] = d /\ s1.undo[j] = e
    <3>1. PICK i, j \in DOMAIN u : i < j /\ u[i] = d /\ u[j] = e
      BY <1>5, <2>1
    <3>2. i \in DOMAIN q /\ j \in DOMAIN q /\ q[i] = d /\ q[j] = e
      BY <1>3, <3>1
    <3> QED
      BY <3>1, <3>2 DEF Earlier
  <2>2. CASE d \in Undoable(s1) /\ e \in Redoable(s1)
    <3>1. d \in Undoable(s) /\ Earlier(s, d, c) /\ (e = c \/ e \in Redoable(s))
      BY <1>8, <1>9, <2>2
    <3> QED
      BY <3>1 DEF Earlier
  <2>3. CASE \E i, j \in DOMAIN s1.redo : i < j /\ s1.redo[j] = d /\ s1.redo[i] = e
    <3>1. PICK i, j \in DOMAIN v : i < j /\ v[j] = d /\ v[i] = e
      BY <1>5, <2>3
    <3>2. i \in DOMAIN r /\ r[i] = e
      BY <1>4, <3>1
    <3>3. CASE j = Len(r) + 1
      BY <1>4, <1>7, <3>1, <3>2, <3>3 DEF Earlier, Redoable
    <3>4. CASE j \in DOMAIN r
      BY <1>4, <3>1, <3>2, <3>4 DEF Earlier
    <3> QED
      BY <1>4, <3>1, <3>3, <3>4
  <2> QED
    BY <1>10, <2>1, <2>2, <2>3 DEF Earlier
<1> QED
  BY <1>2, <1>7, <1>8, <1>9, <1>10 DEF s1

LEMMA PopRedoOrder ==
  ASSUME NEW s \in StackOf(Cmds), s.redo # <<>>, NEW c, c = s.redo[Len(s.redo)]
  PROVE  /\ c \in Cmds /\ c \in Redoable(s)
         /\ \A d \in Undoable(PopRedo(s)) : d = c \/ (d \in Undoable(s) /\ Earlier(s, d, c))
         /\ \A d \in Redoable(PopRedo(s)) : d \in Redoable(s) /\ Earlier(s, c, d)
         /\ \A d, e \in Cmds : Earlier(PopRedo(s), d, e) => Earlier(s, d, e)
<1> DEFINE q == s.undo
           r == s.redo
           u == Append(q, c)
           v == Front1(r)
           s1 == PopRedo(s)
<1>1. q \in Seq(Cmds) /\ r \in Seq(Cmds) /\ r # <<>>
  BY StackParts
<1>2. c \in Cmds
  BY <1>1, FrontFacts
<1>3. /\ Len(r) \in Nat /\ Len(r) >= 1
      /\ DOMAIN r = 1 .. Len(r) /\ DOMAIN v = 1 .. Len(r) - 1
      /\ \A i \in 1 .. Len(r) - 1 : v[i] = r[i]
  BY <1>1, FrontIndex
<1>4. /\ Len(q) \in Nat /\ DOMAIN q = 1 .. Len(q) /\ DOMAIN u = 1 .. Len(q) + 1
      /\ \A i \in 1 .. Len(q) : u[i] = q[i]
      /\ u[Len(q) + 1] = c
  BY <1>1, <1>2, AppendIndex
<1>5. s1.undo = u /\ s1.redo = v /\ c = r[Len(r)]
  BY DEF PopRedo
<1>6. Len(r) \in DOMAIN r
  BY <1>3
<1>7. c \in Redoable(s)
  BY <1>5, <1>6 DEF Redoable
<1> HIDE DEF s1, u, v
<1>8. ASSUME NEW d \in Redoable(s1) PROVE d \in Redoable(s) /\ Earlier(s, c, d)
  <2>1. PICK i \in 1 .. Len(r) - 1 : d = v[i]
    BY <1>3, <1>5 DEF Redoable
  <2>2. i \in DOMAIN r /\ r[i] = d /\ i < Len(r)
    BY <1>3, <2>1
  <2> QED
    BY <1>5, <1>6, <2>2 DEF Redoable, Earlier
<1>9. ASSUME NEW d \in Undoable(s1) PROVE d = c \/ (d \in Undoable(s) /\ Earlier(s, d, c))
  <2>1. PICK i \in 1 .. Len(q) + 1 : d = u[i]
    BY <1>4, <1>5 DEF Undoable
  <2>2. CASE i = Len(q) + 1
    BY <1>4, <2>1, <2>2
  <2>3. CASE i \in 1 .. Len(q)
    <3>1. d \in Undoable(s)
      BY <1>4, <2>1, <2>3 DEF Undoable
    <3> QED
      BY <1>7, <3>1 DEF Earlier
  <2> QED
    BY <1>4, <2>1, <2>2, <2>3
<1>10. ASSUME NEW d \in Cmds, NEW e \in Cmds, Earlier(s1, d, e) PROVE Earlier(s, d, e)
  <2>1. CASE \E i, j \in DOMAIN s1.redo : i < j /\ s1.redo[j] = d /\ s1.redo[i] = e
    <3>1. PICK i, j \in DOMAIN v : i < j /\ v[j] = d /\ v[i] = e
      BY <1>5, <2>1
    <3>2. i \in DOMAIN r /\ j \in DOMAIN r /\ r[j] = d /\ r[i] = e
      BY <1>3, <3>1
    <3> QED
      BY <3>1, <3>2 DEF Earlier
  <2>2. CASE d \in Undoable(s1) /\ e \in Redoable(s1)
    <3>1. e \in Redoable(s) /\ Earlier(s, c, e) /\ (d = c \/ d \in Undoable(s))
      BY <1>8, <1>9, <2>2
    <3> QED
      BY <3>1 DEF Earlier
  <2>3. CASE \E i, j \in DOMAIN s1.undo : i < j /\ s1.undo[i] = d /\ s1.undo[j] = e
    <3>1. PICK i, j \in DOMAIN u : i < j /\ u[i] = d /\ u[j] = e
      BY <1>5, <2>3
    <3>2. i \in DOMAIN q /\ q[i] = d
      BY <1>4, <3>1
    <3>3. CASE j = Len(q) + 1
      BY <1>4, <1>7, <3>1, <3>2, <3>3 DEF Earlier, Undoable
    <3>4. CASE j \in DOMAIN q
      BY <1>4, <3>1, <3>2, <3>4 DEF Earlier
    <3> QED
      BY <1>4, <3>1, <3>3, <3>4
  <2> QED
    BY <1>10, <2>1, <2>2, <2>3 DEF Earlier
<1> QED
  BY <1>2, <1>7, <1>8, <1>9, <1>10 DEF s1

(* A pushed command comes after everything the stack still offers to undo. *)
LEMMA PushOrder ==
  ASSUME NEW s \in StackOf(Cmds), NEW c \in Cmds, NEW snap
  PROVE  /\ Undoable(Push(s, c, snap)) \subseteq Undoable(s) \cup {c}
         /\ Redoable(Push(s, c, snap)) = {}
         /\ \A d, e \in Cmds : Earlier(Push(s, c, snap), d, e)
              => Earlier(s, d, e) \/ (d \in Undoable(s) /\ e = c)
<1> DEFINE q  == s.undo
           g  == Append(q, c)
           s0 == [undo |-> g, redo |-> <<>>, anchors |-> s.anchors]
           s1 == Push(s, c, snap)
<1>1. q \in Seq(Cmds) /\ g \in Seq(Cmds)
  BY StackParts, AppendProperties
<1>2. /\ Len(q) \in Nat /\ DOMAIN q = 1 .. Len(q) /\ DOMAIN g = 1 .. Len(q) + 1
      /\ \A i \in 1 .. Len(q) : g[i] = q[i]
      /\ g[Len(q) + 1] = c
  BY <1>1, AppendIndex
<1>3. g # <<>>
  <2>1. 1 \in DOMAIN g
    BY <1>2
  <2> QED
    BY <2>1
<1>4. s0.undo = g /\ s0.redo = <<>>
  OBVIOUS
<1>5. Within(s1, s0)
  <2>1. PICK a : s1 = [undo |-> IF Len(g) > MaxDepth THEN Tail(g) ELSE g,
                       redo |-> <<>>, anchors |-> a]
    BY DEF Push
  <2>2. CASE Len(g) > MaxDepth
    BY <1>1, <1>3, <2>1, <2>2, TailWithin
  <2>3. CASE ~(Len(g) > MaxDepth)
    <3>1. s1.undo = s0.undo /\ s1.redo = s0.redo
      BY <2>1, <2>3
    <3> QED
      BY <3>1 DEF Within, Undoable, Redoable, Earlier
  <2> QED
    BY <2>2, <2>3
<1> HIDE DEF g, s0, s1
<1>6. Undoable(s0) \subseteq Undoable(s) \cup {c}
  <2> SUFFICES ASSUME NEW i \in 1 .. Len(q) + 1 PROVE g[i] \in Undoable(s) \cup {c}
    BY <1>2, <1>4 DEF Undoable
  <2>1. CASE i = Len(q) + 1
    BY <1>2, <2>1
  <2>2. CASE i \in 1 .. Len(q)
    BY <1>2, <2>2 DEF Undoable
  <2> QED
    BY <1>2, <2>1, <2>2
<1>7. Redoable(s0) = {}
  BY <1>4 DEF Redoable
<1>8. ASSUME NEW d \in Cmds, NEW e \in Cmds, Earlier(s0, d, e)
      PROVE  Earlier(s, d, e) \/ (d \in Undoable(s) /\ e = c)
  <2>1. PICK i, j \in DOMAIN g : i < j /\ g[i] = d /\ g[j] = e
    BY <1>4, <1>7, <1>8 DEF Earlier
  <2>2. i \in DOMAIN q /\ q[i] = d
    BY <1>2, <2>1
  <2>3. CASE j = Len(q) + 1
    BY <1>2, <2>1, <2>2, <2>3 DEF Undoable
  <2>4. CASE j \in DOMAIN q
    BY <1>2, <2>1, <2>2, <2>4 DEF Earlier
  <2> QED
    BY <1>2, <2>1, <2>3, <2>4
<1> QED
  BY <1>5, <1>6, <1>7, <1>8 DEF Within, s1

-----------------------------------------------------------------------------
(* Where commands are.  A stack holds only commands whose request is over, *)
(* all of the token, document and surface the stack is for; what is baked  *)
(* into a target, or was when a command captured it, are commands that     *)
(* have begun on that target.                                              *)

HomeOf(r) == IF KindOf[r.target] = "legacy" THEN NameKey(r.tok, DocOf[r.target])
                                            ELSE IdKey(r.tok, DocOf[r.target])

AtHome == \A k \in Keys : \A c \in Held(stacks[k]) :
            stage[c] = "done" /\ k = HomeOf(cmd[c])

ByKind == \A c \in Cmds :
  /\ stage[c] \in {"captured", "applying", "applied", "snapped"}
       => KindOf[cmd[c].target] # "legacy"
  /\ stage[c] = "enrolling" => KindOf[cmd[c].target] = "legacy"

RedoDone == \A c \in Cmds : redoing[c] > 0 => stage[c] = "done"

Baked == \A x \in Targets : \A c \in content[x] : stage[c] # "idle" /\ cmd[c].target = x

PriorOK == \A d \in Cmds : stage[d] # "idle" =>
  /\ d \notin cmd[d].prior
  /\ \A c \in cmd[d].prior : stage[c] # "idle" /\ cmd[c].target = cmd[d].target

Base == AtHome /\ ByKind /\ RedoDone /\ Baked /\ PriorOK

(* What the steps do, as far as these facts and the canvas go.             *)
Still ==
  /\ UNCHANGED <<stage, cmd, redoing, content, mixed>>
  /\ \A k \in Keys : Within(stacks'[k], stacks[k])

Advances(c, from, to) ==
  /\ stage[c] = from /\ stage' = [stage EXCEPT ![c] = to]
  /\ UNCHANGED <<stacks, cmd, redoing, mixed>>

Writes(c) == content' = [content EXCEPT ![cmd[c].target] = cmd[c].prior \cup {c}]

Lands(c) ==
  /\ stage[c] \in {"snapped", "enrolling"} /\ stage' = [stage EXCEPT ![c] = "done"]
  /\ UNCHANGED <<cmd, redoing, content, mixed>>
  /\ HomeOf(cmd[c]) \in Keys
  /\ \A k \in Keys \ {HomeOf(cmd[c])} : stacks'[k] = stacks[k]
  /\ LET k == HomeOf(cmd[c])
     IN  \/ stacks'[k] = stacks[k]
         \/ \E snap : stacks'[k] = Push(stacks[k], c, snap)

(* A redone command's apply() writes, or fails and leaves the target mixed. *)
Returns(c) ==
  /\ redoing[c] > 0 /\ redoing' = [redoing EXCEPT ![c] = @ - 1]
  /\ UNCHANGED <<stacks, stage, cmd>>
  /\ \/ Writes(c) /\ mixed' = mixed
     \/ content' = content /\ mixed' = mixed \cup {cmd[c].target}

Moves(k, c) ==
  /\ k \in Keys /\ c \in Cmds /\ UNCHANGED <<stage, cmd>>
  /\ mixed' = Mixing(cmd[c].target)
  /\ \A j \in Keys \ {k} : stacks'[j] = stacks[j]

MovesBack(k, c) ==
  /\ stacks[k].undo # <<>> /\ c = stacks[k].undo[Len(stacks[k].undo)]
  /\ Moves(k, c)
  /\ stacks'[k] = PopUndo(stacks[k])
  /\ content' = [content EXCEPT ![cmd[c].target] = cmd[c].prior]
  /\ UNCHANGED redoing

MovesOn(k, c) ==
  /\ stacks[k].redo # <<>> /\ c = stacks[k].redo[Len(stacks[k].redo)]
  /\ Moves(k, c)
  /\ stacks'[k] = PopRedo(stacks[k])
  /\ \/ UNCHANGED content /\ redoing' = [redoing EXCEPT ![c] = @ + 1]
     \/ Writes(c) /\ UNCHANGED redoing

LEMMA KeyTyped ==
  ASSUME IInv, NEW k \in Keys
  PROVE  stacks[k] \in StackOf(Cmds) /\ Held(stacks[k]) \subseteq Cmds
  BY StackOfKey, HeldCommands DEF IInv, Held

LEMMA ReplacedWithin ==
  ASSUME IInv, NEW k \in Keys, NEW v, Within(v, stacks[k]),
         stacks' = [stacks EXCEPT ![k] = v]
  PROVE  \A j \in Keys : Within(stacks'[j], stacks[j])
<1>1. stacks \in [Keys -> StackOf(Cmds)]
  BY DEF IInv, StacksOK
<1>2. \A j \in Keys : stacks'[j] = IF j = k THEN v ELSE stacks[j]
  BY <1>1
<1> QED
  BY <1>2, WithinItself

LEMMA StillConnection ==
  ASSUME IInv, NEW t \in Tokens, Connection(t)
  PROVE  Still
<1>1. UNCHANGED <<stage, cmd, redoing, content, mixed>>
  BY DEF Connection, Admit, Release, GraceExpires, Revoke, canvas, marks
<1>2. stacks' = stacks \/ \E K : Discard(K)
  BY DEF Connection, Admit, Release, GraceExpires, Revoke
<1>3. ASSUME NEW k \in Keys PROVE Within(stacks'[k], stacks[k])
  BY <1>2, WithinItself, EmptyWithin DEF Discard
<1> QED
  BY <1>1, <1>3 DEF Still

LEMMA StillEvict ==
  ASSUME IInv, Evict
  PROVE  Still
<1>1. UNCHANGED <<stage, cmd, redoing, content, mixed>>
  BY DEF Evict, EvictionTick, EvictSnapshot, SnapshotPassEnds, EvictCommand,
     CommandPassEnds, SweepFrame, canvas, marks
<1>2. CASE EvictSnapshot
  <2>1. PICK k \in mapped, i \in Slots :
          stacks' = [stacks EXCEPT ![k] = EvictSnapshotAt(stacks[k], i)]
    BY <1>2 DEF EvictSnapshot
  <2>2. k \in Keys /\ Within(EvictSnapshotAt(stacks[k], i), stacks[k])
    BY EvictSnapshotWithin DEF IInv, RestOK
  <2> QED
    BY <1>1, <2>1, <2>2, ReplacedWithin DEF Still
<1>3. CASE EvictCommand
  <2>1. PICK k \in mapped :
           /\ k \in Keys /\ stacks[k] \in StackOf(Cmds)
           /\ Len(stacks[k].undo) > Floor
           /\ stacks' = [stacks EXCEPT ![k] = ShiftOldestUndo(stacks[k])]
    BY <1>3, CommandDropped
  <2>2. stacks[k].undo # <<>>
    <3> SUFFICES ASSUME stacks[k].undo = <<>> PROVE FALSE
      OBVIOUS
    <3>1. Len(stacks[k].undo) = 0 /\ Floor \in Nat
      BY Parameters
    <3> QED
      BY <2>1, <3>1
  <2>3. Within(ShiftOldestUndo(stacks[k]), stacks[k])
    BY <2>1, <2>2, ShiftWithin
  <2> QED
    BY <1>1, <2>1, <2>3, ReplacedWithin DEF Still
<1>4. CASE EvictionTick \/ SnapshotPassEnds \/ CommandPassEnds
  <2>1. stacks' = stacks
    BY <1>4 DEF EvictionTick, SnapshotPassEnds, CommandPassEnds
  <2> QED
    BY <1>1, <2>1, WithinItself DEF Still
<1> QED
  BY <1>2, <1>3, <1>4 DEF Evict

LEMMA StillOthers ==
  ASSUME WindowPasses \/ (\E t \in Tokens, d \in Docs : NoOp(t, d)) \/ UNCHANGED vars
  PROVE  Still
<1>1. UNCHANGED <<stacks, stage, cmd, redoing, content, mixed>>
  BY DEF WindowPasses, NoOp, Consume, vars, canvas, marks
<1> QED
  BY <1>1, WithinItself DEF Still

LEMMA HandlerMoves ==
  ASSUME IInv, ByKind, NEW c \in Cmds, Handler(c)
  PROVE  \/ Advances(c, "captured", "applied") /\ Writes(c)
         \/ Advances(c, "applying", "applied") /\ Writes(c)
         \/ Advances(c, "applying", "done") /\ content' = content
         \/ Advances(c, "applied", "snapped") /\ content' = content
         \/ Lands(c) \/ Returns(c)
<1>1. CASE ExecuteWand(c)
  BY <1>1 DEF ExecuteWand, Advances, Writes, Apply, marks
<1>2. CASE PaintWrites(c)
  BY <1>2 DEF PaintWrites, Advances, Writes, Apply, marks
<1>3. CASE PaintFails(c)
  BY <1>3 DEF PaintFails, Advances, canvas, marks
<1>4. CASE Snapshot(c)
  BY <1>4 DEF Snapshot, Advances, canvas, marks
<1>5. CASE Finish(c)
  <2> DEFINE k == KeyOf(c)
             v == Push(stacks[k], c, flight[c].snap)
  <2>1. k \in Keys /\ stacks \in [Keys -> StackOf(Cmds)]
    BY KeyOfCommand DEF IInv, StacksOK
  <2>2. k = HomeOf(cmd[c])
    BY <1>5 DEF Finish, ByKind, HomeOf, KeyOf
  <2>3. \/ stacks' = stacks
        \/ stacks' = [stacks EXCEPT ![k] = v]
    BY <1>5 DEF Finish
  <2>4. /\ \A j \in Keys \ {k} : stacks'[j] = stacks[j]
        /\ stacks'[k] = stacks[k] \/ \E snap : stacks'[k] = Push(stacks[k], c, snap)
    BY <2>1, <2>3
  <2>5. /\ stage[c] = "snapped" /\ stage' = [stage EXCEPT ![c] = "done"]
        /\ UNCHANGED <<cmd, redoing, content, mixed>>
    BY <1>5 DEF Finish, canvas, marks
  <2> HIDE DEF k
  <2> QED
    BY <2>1, <2>2, <2>4, <2>5 DEF Lands
<1>6. CASE Enrol(c)
  <2> DEFINE k == NameKey(cmd[c].tok, DocOf[cmd[c].target])
             v == Push(stacks[k], c, FALSE)
  <2>1. k \in Keys /\ stacks \in [Keys -> StackOf(Cmds)]
    BY KeyOfCommand DEF IInv, StacksOK
  <2>2. k = HomeOf(cmd[c])
    BY <1>6 DEF Enrol, ByKind, HomeOf
  <2>3. stacks' = [stacks EXCEPT ![k] = v]
    BY <1>6 DEF Enrol
  <2>4. /\ \A j \in Keys \ {k} : stacks'[j] = stacks[j]
        /\ stacks'[k] = stacks[k] \/ \E snap : stacks'[k] = Push(stacks[k], c, snap)
    BY <2>1, <2>3
  <2>5. /\ stage[c] = "enrolling" /\ stage' = [stage EXCEPT ![c] = "done"]
        /\ UNCHANGED <<cmd, redoing, content, mixed>>
    BY <1>6 DEF Enrol, canvas, marks
  <2> HIDE DEF k
  <2> QED
    BY <2>1, <2>2, <2>4, <2>5 DEF Lands
<1>7. CASE RedoWrites(c)
  BY <1>7 DEF RedoWrites, Returns, Writes, Apply, marks
<1>8. CASE RedoFails(c)
  BY <1>8 DEF RedoFails, Returns, canvas
<1> QED
  BY <1>1, <1>2, <1>3, <1>4, <1>5, <1>6, <1>7, <1>8 DEF Handler

LEMMA UndoMoves ==
  ASSUME IInv, NEW t \in Tokens, NEW d \in Docs
  PROVE  /\ Undo(t, d) => \E k \in Keys, c \in Cmds : MovesBack(k, c)
         /\ Redo(t, d) => \E k \in Keys, c \in Cmds : MovesOn(k, c)
<1> DEFINE k == IdKey(t, d)
<1>1. k \in Keys /\ stacks \in [Keys -> StackOf(Cmds)]
  BY KeysOfTokens DEF IInv, StacksOK
<1>2. ASSUME Undo(t, d) PROVE \E c \in Cmds : MovesBack(k, c)
  <2> DEFINE c == stacks[k].undo[Len(stacks[k].undo)]
  <2>1. /\ stacks[k].undo # <<>> /\ mixed' = Mixing(cmd[c].target) /\ UNCHANGED <<stage, cmd, redoing>>
        /\ stacks' = [stacks EXCEPT ![k] = PopUndo(stacks[k])]
        /\ content' = [content EXCEPT ![cmd[c].target] = cmd[c].prior]
    BY <1>2 DEF Undo, Consume
  <2>2. c \in Cmds
    BY <2>1, OnStack
  <2> HIDE DEF k
  <2>3. MovesBack(k, c)
    BY <1>1, <2>1, <2>2 DEF MovesBack, Moves
  <2> QED
    BY <2>2, <2>3
<1>3. ASSUME Redo(t, d) PROVE \E c \in Cmds : MovesOn(k, c)
  <2> DEFINE c == stacks[k].redo[Len(stacks[k].redo)]
  <2>1. /\ stacks[k].redo # <<>> /\ mixed' = Mixing(cmd[c].target) /\ UNCHANGED <<stage, cmd>>
        /\ stacks' = [stacks EXCEPT ![k] = PopRedo(stacks[k])]
        /\ \/ content' = content /\ redoing' = [redoing EXCEPT ![c] = @ + 1]
           \/ Writes(c) /\ redoing' = redoing
    BY <1>3 DEF Redo, Consume, Writes
  <2>2. c \in Cmds
    BY <2>1, OnStack
  <2> HIDE DEF k
  <2>3. MovesOn(k, c)
    BY <1>1, <2>1, <2>2 DEF MovesOn, Moves
  <2> QED
    BY <2>2, <2>3
<1> QED
  BY <1>1, <1>2, <1>3

LEMMA BeginTarget ==
  ASSUME IInv, NEW t \in Tokens, NEW c \in Cmds, NEW x \in Targets, Begins(c, t, x)
  PROVE  /\ content' = content
              \/ content' = [content EXCEPT ![x] = content[x] \cup {c}]
         /\ \/ stage'[c] \in {"captured", "applying"} /\ content' = content
            \/ /\ stage'[c] \in {"applied", "enrolling"}
               /\ content' = [content EXCEPT ![x] = content[x] \cup {c}]
         /\ stage'[c] \in {"captured", "applying", "applied"} => KindOf[x] # "legacy"
         /\ stage'[c] = "enrolling" => KindOf[x] = "legacy"
<1>1. cmd'[c].target = x /\ cmd'[c].prior = content[x]
  BY BeginFacts
<1>2. Apply(c) => content' = [content EXCEPT ![x] = content[x] \cup {c}]
  BY <1>1 DEF Apply
<1>3. c \in Cmds /\ stage \in [Cmds -> Stages]
  BY DEF IInv, RestOK
<1>4. CASE BeginSync(c, t, x)
  BY <1>2, <1>3, <1>4 DEF BeginSync
<1>5. CASE BeginPaint(c, t, x)
  BY <1>2, <1>3, <1>5 DEF BeginPaint
<1>6. CASE BeginWand(c, t, x)
  BY <1>2, <1>3, <1>6 DEF BeginWand
<1>7. CASE BeginLegacy(c, t, x)
  BY <1>2, <1>3, <1>7 DEF BeginLegacy
<1> QED
  BY <1>4, <1>5, <1>6, <1>7 DEF Begins

LEMMA Typed ==
  ASSUME IInv
  PROVE  /\ stage \in [Cmds -> Stages] /\ redoing \in [Cmds -> Nat]
         /\ content \in [Targets -> SUBSET Cmds]
         /\ \A c \in Cmds : cmd[c].target \in Targets /\ cmd[c].prior \subseteq Cmds
  BY DEF IInv, RestOK

LEMMA BaseBegin ==
  ASSUME IInv, Base, NEW t \in Tokens, NEW c \in Cmds, NEW x \in Targets, Begins(c, t, x)
  PROVE  Base'
<1>1. /\ stage[c] = "idle" /\ UNCHANGED <<stacks, redoing>>
      /\ cmd'[c].target = x /\ cmd'[c].prior = content[x]
      /\ \A e \in Cmds \ {c} : cmd'[e] = cmd[e] /\ stage'[e] = stage[e]
  BY BeginFacts
<1>2. /\ content' = content
           \/ content' = [content EXCEPT ![x] = content[x] \cup {c}]
      /\ \/ stage'[c] \in {"captured", "applying"}
         \/ stage'[c] \in {"applied", "enrolling"}
      /\ stage'[c] \in {"captured", "applying", "applied"} => KindOf[x] # "legacy"
      /\ stage'[c] = "enrolling" => KindOf[x] = "legacy"
  BY BeginTarget
<1>3. AtHome'
  <2> SUFFICES ASSUME NEW k \in Keys, NEW e \in Held(stacks[k])
               PROVE  stage'[e] = "done" /\ k = HomeOf(cmd'[e])
    BY <1>1 DEF AtHome
  <2>1. e \in Cmds /\ stage[e] = "done" /\ k = HomeOf(cmd[e])
    BY KeyTyped DEF Base, AtHome
  <2> QED
    BY <1>1, <2>1
<1>4. ByKind'
  <2>1. stage'[c] # "snapped"
    BY <1>2
  <2> QED
    BY <1>1, <1>2, <2>1 DEF Base, ByKind
<1>5. RedoDone'
  BY <1>1 DEF Base, RedoDone
<1>6. Baked'
  <2>1. ASSUME NEW y \in Targets, NEW e \in content[y]
        PROVE  e \in Cmds /\ stage'[e] # "idle" /\ cmd'[e].target = y
    <3>1. e \in Cmds /\ stage[e] # "idle" /\ cmd[e].target = y
      BY Typed DEF Base, Baked
    <3> QED
      BY <1>1, <3>1
  <2>2. stage'[c] # "idle"
    BY <1>2
  <2>3. ASSUME NEW y \in Targets, NEW e \in content'[y]
        PROVE  e \in content[y] \/ (e = c /\ y = x)
    BY <1>2, <2>3, Typed
  <2> QED
    BY <1>1, <2>1, <2>2, <2>3 DEF Baked
<1>7. PriorOK'
  <2>1. ASSUME NEW e \in content[x] PROVE e # c /\ stage'[e] # "idle" /\ cmd'[e].target = x
    <3>1. e \in Cmds /\ stage[e] # "idle" /\ cmd[e].target = x
      BY Typed DEF Base, Baked
    <3> QED
      BY <1>1, <3>1
  <2>2. ASSUME NEW d \in Cmds, d # c, stage'[d] # "idle"
        PROVE  /\ d \notin cmd'[d].prior
               /\ \A e \in cmd'[d].prior : stage'[e] # "idle" /\ cmd'[e].target = cmd'[d].target
    <3>1. /\ cmd'[d] = cmd[d] /\ d \notin cmd[d].prior /\ cmd[d].prior \subseteq Cmds
          /\ \A e \in cmd[d].prior : stage[e] # "idle" /\ cmd[e].target = cmd[d].target
      BY <1>1, <2>2, Typed DEF Base, PriorOK
    <3> QED
      BY <1>1, <3>1
  <2> QED
    BY <1>1, <2>1, <2>2 DEF PriorOK
<1> QED
  BY <1>3, <1>4, <1>5, <1>6, <1>7 DEF Base

LEMMA BaseStill ==
  ASSUME IInv, Base, Still
  PROVE  Base'
<1>1. AtHome'
  BY DEF Still, Base, AtHome, Within, Held
<1> QED
  BY <1>1 DEF Still, Base, ByKind, RedoDone, Baked, PriorOK

LEMMA BaseHandler ==
  ASSUME IInv, Base, NEW c \in Cmds, Handler(c)
  PROVE  Base'
<1> USE Typed
<1>1. ASSUME NEW from, NEW to, to # "idle", from # "idle", from # "done",
             \/ from \in {"captured", "applying", "applied"} /\ to \in {"applied", "snapped"}
             \/ to = "done",
             Advances(c, from, to), Writes(c) \/ content' = content
      PROVE  Base'
  <2>1. /\ stage[c] = from /\ stage'[c] = to /\ \A e \in Cmds \ {c} : stage'[e] = stage[e]
        /\ UNCHANGED <<stacks, cmd, redoing>>
    BY <1>1 DEF Advances
  <2>2. AtHome'
    <3> SUFFICES ASSUME NEW k \in Keys, NEW e \in Held(stacks[k])
                 PROVE  stage'[e] = "done" /\ k = HomeOf(cmd[e])
      BY <2>1 DEF AtHome
    <3>1. e \in Cmds /\ stage[e] = "done" /\ k = HomeOf(cmd[e])
      BY KeyTyped DEF Base, AtHome
    <3> QED
      BY <1>1, <2>1, <3>1
  <2>3. ByKind' /\ RedoDone'
    BY <1>1, <2>1 DEF Base, ByKind, RedoDone
  <2>4. Baked'
    <3>1. ASSUME NEW y \in Targets, NEW e \in content'[y]
          PROVE  \/ e \in content[y]
                 \/ y = cmd[c].target /\ (e = c \/ e \in cmd[c].prior)
      BY <1>1, <3>1 DEF Writes
    <3>2. /\ \A e \in cmd[c].prior : stage[e] # "idle" /\ cmd[e].target = cmd[c].target
          /\ \A y \in Targets : \A e \in content[y] : stage[e] # "idle" /\ cmd[e].target = y
      BY <1>1, <2>1 DEF Base, PriorOK, Baked
    <3>3. \A e \in Cmds : stage[e] # "idle" => stage'[e] # "idle"
      BY <1>1, <2>1
    <3>4. \A y \in Targets : content[y] \subseteq Cmds
      OBVIOUS
    <3> QED
      BY <1>1, <2>1, <3>1, <3>2, <3>3, <3>4 DEF Baked
  <2>5. PriorOK'
    BY <1>1, <2>1 DEF Base, PriorOK
  <2> QED
    BY <2>2, <2>3, <2>4, <2>5 DEF Base
<1>2. CASE Lands(c)
  <2>1. /\ stage[c] \in {"snapped", "enrolling"} /\ stage'[c] = "done"
        /\ \A e \in Cmds \ {c} : stage'[e] = stage[e]
        /\ UNCHANGED <<cmd, redoing, content>>
    BY <1>2 DEF Lands
  <2>2. AtHome'
    <3> SUFFICES ASSUME NEW k \in Keys, NEW e \in Held(stacks'[k])
                 PROVE  stage'[e] = "done" /\ k = HomeOf(cmd[e])
      BY <2>1 DEF AtHome
    <3>1. e \in Held(stacks[k]) \/ (e = c /\ k = HomeOf(cmd[c]))
      BY <1>2, KeyTyped, PushOrder DEF Lands, Held
    <3>2. CASE e \in Held(stacks[k])
      <4>1. e \in Cmds /\ stage[e] = "done" /\ k = HomeOf(cmd[e])
        BY <3>2, KeyTyped DEF Base, AtHome
      <4> QED
        BY <2>1, <4>1
    <3> QED
      BY <2>1, <3>1, <3>2
  <2>3. \A e \in Cmds : stage[e] # "idle" <=> stage'[e] # "idle"
    BY <2>1
  <2> QED
    BY <2>1, <2>2, <2>3 DEF Base, ByKind, RedoDone, Baked, PriorOK
<1>3. CASE Returns(c)
  <2>0. /\ redoing[c] > 0 /\ redoing' = [redoing EXCEPT ![c] = @ - 1]
        /\ UNCHANGED <<stacks, stage, cmd>>
        /\ Writes(c) \/ content' = content
    BY <1>3 DEF Returns
  <2>1. stage[c] = "done" /\ \A e \in Cmds : redoing'[e] > 0 => redoing[e] > 0
    BY <2>0 DEF Base, RedoDone
  <2>2. Baked'
    <3>1. ASSUME NEW y \in Targets, NEW e \in content'[y]
          PROVE  \/ e \in content[y]
                 \/ y = cmd[c].target /\ (e = c \/ e \in cmd[c].prior)
      BY <2>0, <3>1 DEF Writes
    <3> QED
      BY <2>0, <2>1, <3>1 DEF Base, PriorOK, Baked
  <2> QED
    BY <2>0, <2>1, <2>2 DEF Base, AtHome, ByKind, RedoDone, PriorOK
<1> QED
  <2>1. \/ Advances(c, "captured", "applied") /\ Writes(c)
        \/ Advances(c, "applying", "applied") /\ Writes(c)
        \/ Advances(c, "applying", "done") /\ content' = content
        \/ Advances(c, "applied", "snapped") /\ content' = content
        \/ Lands(c) \/ Returns(c)
    BY HandlerMoves DEF Base
  <2> QED
    BY <1>1, <1>2, <1>3, <2>1

LEMMA BaseUndo ==
  ASSUME IInv, Base, NEW k \in Keys, NEW c \in Cmds, MovesBack(k, c)
  PROVE  Base'
<1>1. /\ UNCHANGED <<stage, cmd, redoing>>
      /\ content' = [content EXCEPT ![cmd[c].target] = cmd[c].prior]
      /\ \A j \in Keys \ {k} : stacks'[j] = stacks[j]
      /\ stacks'[k] = PopUndo(stacks[k])
      /\ stacks[k].undo # <<>> /\ c = stacks[k].undo[Len(stacks[k].undo)]
  BY DEF MovesBack, Moves
<1>2. /\ c \in Undoable(stacks[k])
      /\ Undoable(stacks'[k]) \subseteq Undoable(stacks[k])
      /\ Redoable(stacks'[k]) \subseteq Redoable(stacks[k]) \cup {c}
  BY <1>1, KeyTyped, PopUndoOrder
<1>3. AtHome'
  BY <1>1, <1>2 DEF Base, AtHome, Held
<1>4. stage[c] = "done"
  BY <1>2 DEF Base, AtHome, Held
<1>5. Baked'
  <2>1. ASSUME NEW y \in Targets, NEW e \in content'[y]
        PROVE  e \in content[y] \/ (y = cmd[c].target /\ e \in cmd[c].prior)
    BY <1>1, <2>1, Typed
  <2> QED
    BY <1>1, <1>4, <2>1 DEF Base, PriorOK, Baked
<1> QED
  BY <1>1, <1>3, <1>5 DEF Base, ByKind, RedoDone, PriorOK

LEMMA BaseRedo ==
  ASSUME IInv, Base, NEW k \in Keys, NEW c \in Cmds, MovesOn(k, c)
  PROVE  Base'
<1>1. /\ UNCHANGED <<stage, cmd>>
      /\ \/ content' = content /\ redoing' = [redoing EXCEPT ![c] = @ + 1]
         \/ Writes(c) /\ redoing' = redoing
      /\ \A j \in Keys \ {k} : stacks'[j] = stacks[j]
      /\ stacks'[k] = PopRedo(stacks[k])
      /\ stacks[k].redo # <<>> /\ c = stacks[k].redo[Len(stacks[k].redo)]
  BY DEF MovesOn, Moves
<1>2. /\ c \in Redoable(stacks[k])
      /\ Redoable(stacks'[k]) \subseteq Redoable(stacks[k])
      /\ Undoable(stacks'[k]) \subseteq Undoable(stacks[k]) \cup {c}
  BY <1>1, KeyTyped, PopRedoOrder
<1>3. AtHome'
  BY <1>1, <1>2 DEF Base, AtHome, Held
<1>4. stage[c] = "done"
  BY <1>2 DEF Base, AtHome, Held
<1>5. Baked'
  <2>1. ASSUME NEW y \in Targets, NEW e \in content'[y]
        PROVE  \/ e \in content[y]
               \/ y = cmd[c].target /\ (e = c \/ e \in cmd[c].prior)
    BY <1>1, <2>1, Typed DEF Writes
  <2> QED
    BY <1>1, <1>4, <2>1 DEF Base, PriorOK, Baked
<1>6. RedoDone'
  <2>1. \A e \in Cmds \ {c} : redoing'[e] = redoing[e]
    BY <1>1, Typed
  <2> QED
    BY <1>1, <1>4, <2>1 DEF Base, RedoDone
<1> QED
  BY <1>1, <1>3, <1>5, <1>6 DEF Base, ByKind, PriorOK

LEMMA BaseRestart ==
  ASSUME IInv, Base, Restart
  PROVE  Base'
<1>1. /\ UNCHANGED <<cmd, content>>
      /\ \A k \in Keys : stacks'[k] = EmptyStack
      /\ \A c \in Cmds : redoing'[c] = 0
      /\ \A c \in Cmds : stage'[c] = IF stage[c] = "idle" THEN "idle" ELSE "done"
  BY DEF Restart, canvas, marks
<1>2. AtHome'
  BY <1>1, EmptyWithin DEF AtHome, Held
<1>3. ByKind' /\ RedoDone'
  BY <1>1 DEF ByKind, RedoDone
<1>4. Baked' /\ PriorOK'
  <2>1. /\ \A y \in Targets : content[y] \subseteq Cmds
        /\ \A c \in Cmds : cmd[c].prior \subseteq Cmds
    BY Typed
  <2>2. \A c \in Cmds : stage'[c] # "idle" <=> stage[c] # "idle"
    BY <1>1
  <2>3. Baked'
    BY <1>1, <2>1, <2>2 DEF Base, Baked
  <2>4. PriorOK'
    BY <1>1, <2>1, <2>2 DEF Base, PriorOK
  <2> QED
    BY <2>3, <2>4
<1> QED
  BY <1>2, <1>3, <1>4 DEF Base

LEMMA BaseStep ==
  ASSUME IInv, Base, [Next]_vars
  PROVE  Base'
<1>1. ASSUME NEW t \in Tokens, Arrival(t) PROVE Base'
  <2>1. \/ \E c \in Cmds, x \in Targets : Begins(c, t, x)
        \/ \E d \in Docs : Undo(t, d) \/ Redo(t, d) \/ NoOp(t, d)
    BY <1>1 DEF Arrival, Begins
  <2> QED
    BY <2>1, BaseBegin, UndoMoves, BaseUndo, BaseRedo, StillOthers, BaseStill
<1> QED
  BY <1>1, BaseHandler, StillConnection, StillEvict, StillOthers, BaseStill, BaseRestart DEF Next

LEMMA BaseInit == Init => Base
<1> SUFFICES ASSUME Init PROVE Base
  OBVIOUS
<1>1. \A k \in Keys : Held(stacks[k]) = {}
  BY EmptyWithin DEF Init, Held
<1> QED
  BY <1>1 DEF Init, Base, AtHome, ByKind, RedoDone, Baked, PriorOK

-----------------------------------------------------------------------------
(* The canvas.  Of the commands one token alone made on a target that is   *)
(* not mixed, each captured what those before it had baked in; so undoing  *)
(* or redoing one puts the target where the stacks say it is.              *)

Soles == {x \in Targets \ mixed : \A c, e \in Cmds :
            stage[c] # "idle" /\ stage[e] # "idle" /\ cmd[c].target = x /\ cmd[e].target = x
              => cmd[c].tok = cmd[e].tok}

(* Content S of target x is what stack s says, m being the commands.       *)
AgreeOn(s, m, x, S) ==
  /\ \A c \in Undoable(s) : m[c].target = x => c \in S
  /\ \A c \in Redoable(s) : m[c].target = x => c \notin S

RedoOnce == \A c \in Cmds : redoing[c] \in {0, 1} \/ cmd[c].target \in mixed

PriorDone == \A d \in Cmds : stage[d] # "idle" /\ cmd[d].target \notin mixed
               => \A c \in cmd[d].prior : stage[c] = "done"

Holds == \A c \in Cmds : cmd[c].target \notin mixed =>
  /\ stage[c] \in {"captured", "applying"} => content[cmd[c].target] = cmd[c].prior
  /\ stage[c] \in {"applied", "snapped", "enrolling"}
       => content[cmd[c].target] = cmd[c].prior \cup {c}

Ordered == \A k \in Keys : \A c, d \in Cmds :
  Earlier(stacks[k], c, d) /\ cmd[c].target = cmd[d].target /\ cmd[c].target \in Soles
    => c \in cmd[d].prior /\ d \notin cmd[c].prior

Settled == \A x \in Soles : (\A c \in Cmds : redoing[c] > 0 => cmd[c].target # x)
             => \A k \in Keys : AgreeOn(stacks[k], cmd, x, content[x])

Returning == \A c \in Cmds : redoing[c] > 0 /\ cmd[c].target \in Soles
  => \A k \in Keys : AgreeOn(stacks[k], cmd, cmd[c].target, cmd[c].prior \cup {c})

CanvasInv == RedoOnce /\ PriorDone /\ Holds /\ Ordered /\ Settled /\ Returning

(* A command that has begun stays what it is, a mixed target mixed.        *)
Begun ==
  /\ mixed \subseteq mixed'
  /\ \A c \in Cmds : stage[c] # "idle" => stage'[c] # "idle" /\ cmd'[c] = cmd[c]

LEMMA SolesShrink ==
  ASSUME Begun
  PROVE  Soles' \subseteq Soles
  BY DEF Begun, Soles

LEMMA HeldDone ==
  ASSUME IInv, Base, NEW k \in Keys, NEW c \in Held(stacks[k])
  PROVE  c \in Cmds /\ stage[c] = "done" /\ k = HomeOf(cmd[c])
  BY KeyTyped DEF Base, AtHome

LEMMA EarlierHeld ==
  ASSUME NEW s, NEW c, NEW d, Earlier(s, c, d)
  PROVE  c \in Held(s) /\ d \in Held(s)
  BY DEF Earlier, Held, Undoable, Redoable

(* A step that takes from the stacks, if anything, and lets no redo begin. *)
LEMMA Quieter ==
  ASSUME IInv, Base, Begun,
         \A k \in Keys : Within(stacks'[k], stacks[k]),
         \A c \in Cmds : redoing'[c] > 0 => redoing[c] > 0
  PROVE  /\ Ordered => Ordered'
         /\ Returning => Returning'
         /\ \A x, S : (\A k \in Keys : AgreeOn(stacks[k], cmd, x, S))
                        => \A k \in Keys : AgreeOn(stacks'[k], cmd', x, S)
<1>0. Soles' \subseteq Soles
  BY SolesShrink
<1>1. \A k \in Keys : \A c \in Held(stacks[k]) : c \in Cmds /\ cmd'[c] = cmd[c]
  BY HeldDone DEF Begun
<1>2. \A x, S : (\A k \in Keys : AgreeOn(stacks[k], cmd, x, S))
                   => \A k \in Keys : AgreeOn(stacks'[k], cmd', x, S)
  BY <1>1 DEF AgreeOn, Within, Held
<1>3. ASSUME Ordered PROVE Ordered'
  <2> SUFFICES ASSUME NEW k \in Keys, NEW c \in Cmds, NEW d \in Cmds,
                      Earlier(stacks'[k], c, d), cmd'[c].target = cmd'[d].target,
                      cmd'[c].target \in Soles'
               PROVE  c \in cmd'[d].prior /\ d \notin cmd'[c].prior
    BY DEF Ordered
  <2>1. Earlier(stacks[k], c, d)
    BY DEF Within
  <2>2. cmd'[c] = cmd[c] /\ cmd'[d] = cmd[d]
    BY <1>1, <2>1, EarlierHeld
  <2> QED
    BY <1>0, <1>3, <2>1, <2>2 DEF Ordered
<1>4. ASSUME Returning PROVE Returning'
  <2> SUFFICES ASSUME NEW c \in Cmds, redoing'[c] > 0, cmd'[c].target \in Soles', NEW k \in Keys
               PROVE  AgreeOn(stacks'[k], cmd', cmd'[c].target, cmd'[c].prior \cup {c})
    BY DEF Returning
  <2>1. redoing[c] > 0 /\ cmd'[c] = cmd[c]
    BY DEF Base, RedoDone, Begun
  <2>2. \A j \in Keys : AgreeOn(stacks[j], cmd, cmd[c].target, cmd[c].prior \cup {c})
    BY <1>0, <1>4, <2>1 DEF Returning
  <2> QED
    BY <1>2, <2>1, <2>2
<1> QED
  BY <1>2, <1>3, <1>4

LEMMA CanvasStill ==
  ASSUME IInv, Base, CanvasInv, Still
  PROVE  CanvasInv'
<1>1. Begun
  BY DEF Still, Begun
<1>2. Ordered' /\ Returning'
  BY <1>1, Quieter DEF Still, CanvasInv
<1>3. Settled'
  BY <1>1, Quieter, SolesShrink DEF Still, CanvasInv, Settled
<1> QED
  BY <1>2, <1>3 DEF Still, CanvasInv, RedoOnce, PriorDone, Holds

LEMMA CanvasRestart ==
  ASSUME IInv, Base, CanvasInv, Restart
  PROVE  CanvasInv'
<1>1. /\ \A k \in Keys : stacks'[k] = EmptyStack
      /\ \A c \in Cmds : redoing'[c] = 0
      /\ \A c \in Cmds : stage'[c] = IF stage[c] = "idle" THEN "idle" ELSE "done"
      /\ UNCHANGED <<cmd, content>>
  BY DEF Restart, canvas
<1>2. Settled' /\ Returning'
  BY <1>1, EmptyWithin DEF Settled, Returning, AgreeOn
<1>3. Ordered'
  <2>1. \A k \in Keys : Undoable(stacks'[k]) = {} /\ Redoable(stacks'[k]) = {}
    BY <1>1, EmptyWithin
  <2>2. \A k \in Keys : \A c, d : ~Earlier(stacks'[k], c, d)
    BY <2>1, EarlierHeld DEF Held
  <2> QED
    BY <2>2 DEF Ordered
<1>4. PriorDone'
  <2>1. \A d \in Cmds : stage[d] # "idle" => \A c \in cmd[d].prior : c \in Cmds /\ stage[c] # "idle"
    BY Typed DEF Base, PriorOK
  <2> QED
    BY <1>1, <2>1 DEF PriorDone
<1> QED
  BY <1>1, <1>2, <1>3, <1>4 DEF CanvasInv, RedoOnce, Holds

LEMMA CanvasBegin ==
  ASSUME IInv, Base, CanvasInv,
         NEW t \in Tokens, NEW c \in Cmds, NEW x \in Targets, Begins(c, t, x)
  PROVE  CanvasInv'
<1>1. /\ stage[c] = "idle" /\ UNCHANGED <<stacks, redoing>> /\ mixed' = Mixing(x)
      /\ cmd'[c].target = x /\ cmd'[c].prior = content[x]
      /\ \A e \in Cmds \ {c} : cmd'[e] = cmd[e] /\ stage'[e] = stage[e]
  BY BeginFacts
<1>2. \/ stage'[c] \in {"captured", "applying"} /\ content' = content
      \/ /\ stage'[c] \in {"applied", "enrolling"}
         /\ content' = [content EXCEPT ![x] = content[x] \cup {c}]
  BY BeginTarget
<1>3. /\ \A y \in Targets \ {x} : content'[y] = content[y]
      /\ content'[x] = content[x] \/ content'[x] = content[x] \cup {c}
  BY <1>2, Typed
<1>4. Begun
  BY <1>1, MixingFacts DEF Begun
<1>5. Ordered' /\ Returning'
  BY <1>1, <1>4, Quieter, WithinItself DEF CanvasInv
<1>6. RedoOnce'
  <2>1. redoing[c] = 0 /\ redoing' = redoing /\ mixed \subseteq mixed'
    BY <1>1, <1>4, Typed DEF Base, RedoDone, Begun
  <2> QED
    BY <1>1, <2>1 DEF CanvasInv, RedoOnce
<1>7. x \notin mixed' => \A e \in Cmds : InFlight(e) => e # c /\ cmd[e].target # x
  BY <1>1, MixingFacts DEF InFlight, Base, RedoDone
<1>8. PriorDone'
  <2>1. ASSUME x \notin mixed', NEW e \in content[x] PROVE e # c /\ stage'[e] = "done"
    <3>1. e \in Cmds /\ stage[e] # "idle" /\ cmd[e].target = x
      BY <2>1, Typed DEF Base, Baked
    <3>2. stage[e] = "done"
      BY <1>7, <2>1, <3>1 DEF InFlight
    <3> QED
      BY <1>1, <3>1, <3>2
  <2>2. ASSUME NEW d \in Cmds, d # c, stage'[d] # "idle", cmd'[d].target \notin mixed',
               NEW e \in cmd'[d].prior
        PROVE  stage'[e] = "done"
    <3>1. cmd'[d] = cmd[d] /\ stage[d] # "idle" /\ e \in Cmds /\ cmd[d].target \notin mixed
      BY <1>1, <1>4, <2>2, Typed DEF Begun
    <3> QED
      BY <1>1, <2>2, <3>1 DEF CanvasInv, PriorDone
  <2> QED
    BY <1>1, <2>1, <2>2 DEF PriorDone
<1>9. Holds'
  <2>1. ASSUME NEW e \in Cmds, e # c, cmd'[e].target \notin mixed',
               stage'[e] \in {"captured", "applying", "applied", "snapped", "enrolling"}
        PROVE  /\ content'[cmd'[e].target] = content[cmd[e].target] /\ cmd'[e] = cmd[e]
               /\ cmd[e].target \notin mixed
    <3>1. /\ cmd'[e] = cmd[e] /\ cmd[e].target # x /\ cmd[e].target \in Targets
          /\ cmd[e].target \notin mixed
      BY <1>1, <1>4, <1>7, <2>1, Typed DEF InFlight, Begun
    <3> QED
      BY <1>3, <3>1
  <2>2. /\ stage'[c] \in {"captured", "applying"} => content'[x] = cmd'[c].prior
        /\ stage'[c] \in {"applied", "snapped", "enrolling"} => content'[x] = cmd'[c].prior \cup {c}
    BY <1>1, <1>2, Typed
  <2> QED
    BY <1>1, <2>1, <2>2 DEF CanvasInv, Holds
<1>10. Settled'
  <2> SUFFICES ASSUME NEW y \in Soles', \A e \in Cmds : redoing'[e] > 0 => cmd'[e].target # y,
                      NEW k \in Keys
               PROVE  AgreeOn(stacks'[k], cmd', y, content'[y])
    BY DEF Settled
  <2>1. y \in Soles /\ y \in Targets
    BY <1>4, SolesShrink DEF Soles
  <2>2. \A e \in Cmds : redoing[e] > 0 => cmd[e].target # y
    BY <1>1 DEF Base, RedoDone
  <2>3. \A j \in Keys : AgreeOn(stacks[j], cmd, y, content[y])
    BY <2>1, <2>2 DEF CanvasInv, Settled
  <2>4. AgreeOn(stacks'[k], cmd', y, content[y])
    BY <1>1, <1>4, <2>3, Quieter, WithinItself
  <2>5. c \notin Held(stacks'[k])
    BY <1>1, HeldDone
  <2>6. content'[y] = content[y] \/ content'[y] = content[y] \cup {c}
    BY <1>3, <2>1
  <2> QED
    BY <2>4, <2>5, <2>6 DEF AgreeOn, Held
<1> QED
  BY <1>5, <1>6, <1>8, <1>9, <1>10 DEF CanvasInv

(* The segments between the first and the last: apply() writes, or fails.  *)
LEMMA CanvasAdvance ==
  ASSUME IInv, Base, Apart, CanvasInv, NEW c \in Cmds,
         \/ Advances(c, "captured", "applied") /\ Writes(c)
         \/ Advances(c, "applying", "applied") /\ Writes(c)
         \/ Advances(c, "applying", "done") /\ content' = content
         \/ Advances(c, "applied", "snapped") /\ content' = content
  PROVE  CanvasInv'
<1> DEFINE x == cmd[c].target
<1>1. /\ stage[c] \in {"captured", "applying", "applied"}
      /\ stage'[c] \in {"applied", "done", "snapped"}
      /\ stage[c] = "applied" => stage'[c] = "snapped"
      /\ stage'[c] = "snapped" => stage[c] = "applied"
      /\ \A e \in Cmds \ {c} : stage'[e] = stage[e]
      /\ UNCHANGED <<stacks, cmd, redoing, mixed>> /\ x \in Targets
  BY Typed DEF Advances
<1>2. x \notin mixed => content[x] = cmd[c].prior \/ content[x] = cmd[c].prior \cup {c}
  BY <1>1 DEF CanvasInv, Holds
<1>3. /\ \A y \in Targets \ {x} : content'[y] = content[y]
      /\ x \notin mixed => content'[x] = content[x] \/ content'[x] = content[x] \cup {c}
      /\ x \notin mixed /\ stage'[c] \in {"applied", "snapped"} => content'[x] = cmd[c].prior \cup {c}
  <2>1. CASE Writes(c)
    <3>1. /\ content'[x] = cmd[c].prior \cup {c}
          /\ \A y \in Targets \ {x} : content'[y] = content[y]
      BY <1>1, <2>1, Typed DEF Writes
    <3> QED
      BY <1>2, <3>1
  <2>2. CASE content' = content /\ stage'[c] = "done"
    BY <2>2
  <2>3. CASE content' = content /\ stage'[c] = "snapped"
    BY <1>1, <2>3 DEF CanvasInv, Holds
  <2> QED
    BY <2>1, <2>2, <2>3, Typed DEF Advances
<1> HIDE DEF x
<1>4. Begun
  BY <1>1 DEF Begun
<1>5. Ordered' /\ Returning'
  BY <1>1, <1>4, Quieter, WithinItself DEF CanvasInv
<1>6. RedoOnce' /\ PriorDone'
  <2>1. \A e \in Cmds : stage[e] = "done" => stage'[e] = "done"
    BY <1>1
  <2>2. \A e \in Cmds : stage'[e] # "idle" => stage[e] # "idle"
    BY <1>1
  <2> QED
    BY <1>1, <2>1, <2>2, Typed DEF CanvasInv, RedoOnce, PriorDone
<1>7. Holds'
  <2>1. ASSUME NEW e \in Cmds, e # c, cmd[e].target \notin mixed,
               stage'[e] \in {"captured", "applying", "applied", "snapped", "enrolling"}
        PROVE  content'[cmd'[e].target] = content[cmd[e].target] /\ cmd'[e] = cmd[e]
    <3>1. cmd[e].target # x /\ cmd[e].target \in Targets
      BY <1>1, <2>1, Typed DEF Apart, InFlight, x
    <3> QED
      BY <1>1, <1>3, <3>1
  <2> QED
    BY <1>1, <1>3, <2>1 DEF CanvasInv, Holds, x
<1>8. Settled'
  <2> SUFFICES ASSUME NEW y \in Soles', \A e \in Cmds : redoing'[e] > 0 => cmd'[e].target # y,
                      NEW k \in Keys
               PROVE  AgreeOn(stacks'[k], cmd', y, content'[y])
    BY DEF Settled
  <2>1. y \in Soles /\ y \in Targets /\ y \notin mixed
    BY <1>4, SolesShrink DEF Soles
  <2>2. \A j \in Keys : AgreeOn(stacks[j], cmd, y, content[y])
    BY <1>1, <2>1 DEF CanvasInv, Settled
  <2>3. AgreeOn(stacks'[k], cmd', y, content[y])
    BY <1>1, <2>2
  <2>4. c \notin Held(stacks'[k])
    BY <1>1, HeldDone
  <2>5. content'[y] = content[y] \/ content'[y] = content[y] \cup {c}
    BY <1>3, <2>1
  <2> QED
    BY <2>3, <2>4, <2>5 DEF AgreeOn, Held
<1> QED
  BY <1>5, <1>6, <1>7, <1>8 DEF CanvasInv

(* The push of a command whose effect is on the canvas.                    *)
LEMMA CanvasLands ==
  ASSUME IInv, Base, Apart, CanvasInv, NEW c \in Cmds, Lands(c)
  PROVE  CanvasInv'
<1> DEFINE x == cmd[c].target
           h == HomeOf(cmd[c])
<1>1. /\ stage[c] \in {"snapped", "enrolling"} /\ stage'[c] = "done"
      /\ \A e \in Cmds \ {c} : stage'[e] = stage[e]
      /\ UNCHANGED <<cmd, redoing, content, mixed>> /\ h \in Keys /\ x \in Targets
      /\ \A k \in Keys \ {h} : stacks'[k] = stacks[k]
      /\ stacks'[h] = stacks[h] \/ \E snap : stacks'[h] = Push(stacks[h], c, snap)
  BY Typed DEF Lands
<1> HIDE DEF h
<1>2. /\ x \notin mixed => content[x] = cmd[c].prior \cup {c}
      /\ \A k \in Keys : c \notin Held(stacks[k])
  BY <1>1, HeldDone DEF CanvasInv, Holds
<1>3. \A k \in Keys :
        /\ Undoable(stacks'[k]) \subseteq Undoable(stacks[k]) \cup {c}
        /\ Redoable(stacks'[k]) \subseteq Redoable(stacks[k])
        /\ \A d, e \in Cmds : Earlier(stacks'[k], d, e)
             => Earlier(stacks[k], d, e) \/ (d \in Undoable(stacks[k]) /\ e = c)
  BY <1>1, PushOrder, KeyTyped
<1>4. Begun
  BY <1>1 DEF Begun
<1>5. Soles' \subseteq Soles /\ Soles \cap mixed = {}
  BY <1>4, SolesShrink DEF Soles
<1>6. x \notin mixed => \A e \in Cmds : redoing[e] > 0 => e # c /\ cmd[e].target # x
  <2>1. InFlight(c)
    BY <1>1 DEF InFlight
  <2>2. ASSUME x \notin mixed, NEW e \in Cmds, redoing[e] > 0 PROVE e # c /\ cmd[e].target # x
    <3>1. e # c /\ InFlight(e)
      BY <1>1, <2>2 DEF Base, RedoDone, InFlight
    <3> QED
      BY <2>1, <2>2, <3>1 DEF Apart
  <2> QED
    BY <2>2
<1>7. x \in Soles => \A k \in Keys : AgreeOn(stacks[k], cmd, x, content[x])
  BY <1>5, <1>6 DEF CanvasInv, Settled
<1>8. Ordered'
  <2> SUFFICES ASSUME NEW k \in Keys, NEW d \in Cmds, NEW e \in Cmds,
                      Earlier(stacks'[k], d, e), cmd[d].target = cmd[e].target,
                      cmd[d].target \in Soles
               PROVE  d \in cmd[e].prior /\ e \notin cmd[d].prior
    BY <1>1, <1>5 DEF Ordered
  <2>1. CASE Earlier(stacks[k], d, e)
    BY <2>1 DEF CanvasInv, Ordered
  <2>2. CASE d \in Undoable(stacks[k]) /\ e = c
    <3>1. d \in content[x] /\ d # c
      BY <1>2, <1>5, <1>7, <2>2 DEF AgreeOn, Held
    <3>2. d \in cmd[c].prior
      BY <1>2, <1>5, <2>2, <3>1
    <3>3. c \notin cmd[d].prior
      <4>1. stage[d] = "done"
        BY <2>2, HeldDone DEF Held
      <4> QED
        BY <1>1, <1>5, <4>1 DEF CanvasInv, PriorDone
    <3> QED
      BY <2>2, <3>2, <3>3
  <2> QED
    BY <1>3, <2>1, <2>2
<1>9. Returning'
  <2> SUFFICES ASSUME NEW e \in Cmds, redoing[e] > 0, cmd[e].target \in Soles, NEW k \in Keys
               PROVE  AgreeOn(stacks'[k], cmd, cmd[e].target, cmd[e].prior \cup {e})
    BY <1>1, <1>5 DEF Returning
  <2>1. AgreeOn(stacks[k], cmd, cmd[e].target, cmd[e].prior \cup {e})
    BY DEF CanvasInv, Returning
  <2>2. cmd[e].target # cmd[c].target
    BY <1>5, <1>6
  <2> QED
    BY <1>3, <2>1, <2>2 DEF AgreeOn
<1>10. Settled'
  <2> SUFFICES ASSUME NEW y \in Soles, \A e \in Cmds : redoing[e] > 0 => cmd[e].target # y,
                      NEW k \in Keys
               PROVE  AgreeOn(stacks'[k], cmd, y, content[y])
    BY <1>1, <1>5 DEF Settled
  <2>1. AgreeOn(stacks[k], cmd, y, content[y])
    BY DEF CanvasInv, Settled
  <2>2. cmd[c].target = y => c \in content[y]
    BY <1>2, <1>5
  <2> QED
    BY <1>3, <2>1, <2>2 DEF AgreeOn
<1>11. RedoOnce' /\ PriorDone' /\ Holds'
  <2>1. \A e \in Cmds : stage[e] = "done" => stage'[e] = "done"
    BY <1>1
  <2>2. \A e \in Cmds : stage'[e] # "idle" => stage[e] # "idle"
    BY <1>1
  <2>3. RedoOnce' /\ PriorDone'
    BY <1>1, <2>1, <2>2, Typed DEF CanvasInv, RedoOnce, PriorDone
  <2>4. Holds'
    BY <1>1 DEF CanvasInv, Holds
  <2> QED
    BY <2>3, <2>4
<1> QED
  BY <1>8, <1>9, <1>10, <1>11 DEF CanvasInv

(* The apply() of a redone command ends.                                   *)
LEMMA CanvasReturns ==
  ASSUME IInv, Base, Apart, CanvasInv, NEW c \in Cmds, Returns(c)
  PROVE  CanvasInv'
<1> DEFINE x == cmd[c].target
<1>1. /\ UNCHANGED <<stacks, stage, cmd>> /\ x \in Targets /\ mixed \subseteq mixed'
      /\ redoing[c] > 0 /\ \A e \in Cmds \ {c} : redoing'[e] = redoing[e]
      /\ \A y \in Targets \ {x} : content'[y] = content[y]
  BY Typed DEF Returns, Writes
<1>2. x \notin mixed' => redoing'[c] = 0 /\ content'[x] = cmd[c].prior \cup {c}
  BY Typed DEF Returns, Writes, CanvasInv, RedoOnce
<1>3. Begun
  BY <1>1 DEF Begun
<1>4. Ordered' /\ Returning'
  <2>1. \A e \in Cmds : redoing'[e] > 0 => redoing[e] > 0
    BY <1>1
  <2> QED
    BY <1>1, <1>3, <2>1, Quieter, WithinItself DEF CanvasInv
<1> HIDE DEF x
<1>5. RedoOnce' /\ PriorDone'
  <2>1. RedoOnce'
    BY <1>1, <1>2 DEF CanvasInv, RedoOnce, x
  <2> QED
    BY <1>1, <2>1 DEF CanvasInv, PriorDone
<1>6. Holds'
  <2>1. ASSUME NEW e \in Cmds, cmd[e].target \notin mixed',
               stage[e] \in {"captured", "applying", "applied", "snapped", "enrolling"}
        PROVE  content'[cmd[e].target] = content[cmd[e].target]
    <3>1. cmd[e].target # x /\ cmd[e].target \in Targets
      <4>1. e # c /\ InFlight(e) /\ InFlight(c)
        BY <1>1, <2>1 DEF Base, RedoDone, InFlight
      <4> QED
        BY <1>1, <2>1, <4>1, Typed DEF Apart, x
    <3> QED
      BY <1>1, <3>1
  <2> QED
    BY <1>1, <2>1 DEF CanvasInv, Holds
<1>7. Settled'
  <2> SUFFICES ASSUME NEW y \in Soles', \A e \in Cmds : redoing'[e] > 0 => cmd[e].target # y,
                      NEW k \in Keys
               PROVE  AgreeOn(stacks[k], cmd, y, content'[y])
    BY <1>1 DEF Settled
  <2>1. y \in Soles /\ y \notin mixed'
    BY <1>3, SolesShrink DEF Soles
  <2>2. CASE y = x
    <3>1. AgreeOn(stacks[k], cmd, x, cmd[c].prior \cup {c})
      BY <1>1, <2>1, <2>2 DEF CanvasInv, Returning, x
    <3> QED
      BY <1>2, <2>1, <2>2, <3>1
  <2>3. CASE y # x
    <3>1. \A e \in Cmds : redoing[e] > 0 => cmd[e].target # y
      BY <1>1, <2>3 DEF x
    <3>2. AgreeOn(stacks[k], cmd, y, content[y]) /\ y \in Targets
      BY <2>1, <3>1 DEF CanvasInv, Settled, Soles
    <3> QED
      BY <1>1, <2>3, <3>2
  <2> QED
    BY <2>2, <2>3
<1> QED
  BY <1>4, <1>5, <1>6, <1>7 DEF CanvasInv

(* On a target one token edited, every held command is on one stack.       *)
LEMMA OneStack ==
  ASSUME IInv, Base, NEW k \in Keys, NEW j \in Keys,
         NEW c \in Held(stacks[k]), NEW d \in Held(stacks[j]),
         cmd[c].target \in Soles, cmd[d].target = cmd[c].target
  PROVE  j = k
<1>1. /\ c \in Cmds /\ stage[c] = "done" /\ k = HomeOf(cmd[c])
      /\ d \in Cmds /\ stage[d] = "done" /\ j = HomeOf(cmd[d])
  BY HeldDone
<1>2. cmd[c].tok = cmd[d].tok
  BY <1>1 DEF Soles
<1> QED
  BY <1>1, <1>2 DEF HomeOf

(* What undo and redo leave alone: the commands in flight are elsewhere.   *)
LEMMA CanvasMoves ==
  ASSUME IInv, Base, CanvasInv, NEW k \in Keys, NEW c \in Cmds, Moves(k, c),
         \A e, d \in Cmds : Earlier(stacks'[k], e, d) => Earlier(stacks[k], e, d),
         Undoable(stacks'[k]) \subseteq Undoable(stacks[k]) \cup {c},
         Redoable(stacks'[k]) \subseteq Redoable(stacks[k]) \cup {c},
         \A y \in Targets \ {cmd[c].target} : content'[y] = content[y],
         \A e \in Cmds \ {c} : redoing'[e] = redoing[e]
  PROVE  /\ PriorDone' /\ Holds' /\ Ordered' /\ Soles' \subseteq Soles /\ mixed \subseteq mixed'
         /\ \A e \in Cmds \ {c} : redoing'[e] > 0 /\ cmd[e].target \in Soles' =>
              \A j \in Keys : AgreeOn(stacks'[j], cmd, cmd[e].target, cmd[e].prior \cup {e})
         /\ \A y \in Soles' \ {cmd[c].target} :
              (\A e \in Cmds : redoing'[e] > 0 => cmd[e].target # y)
                => \A j \in Keys : AgreeOn(stacks'[j], cmd, y, content'[y])
<1>1. /\ UNCHANGED <<stage, cmd>> /\ mixed' = Mixing(cmd[c].target)
      /\ \A j \in Keys \ {k} : stacks'[j] = stacks[j]
  BY DEF Moves
<1>2. /\ mixed \subseteq mixed'
      /\ cmd[c].target \notin mixed' => \A e \in Cmds : InFlight(e) => cmd[e].target # cmd[c].target
  BY <1>1, MixingFacts
<1>3. Soles' \subseteq Soles /\ Soles' \cap mixed' = {}
  BY <1>1, <1>2 DEF Soles
<1>4. PriorDone'
  BY <1>1, <1>2 DEF CanvasInv, PriorDone
<1>5. Holds'
  <2>1. ASSUME NEW e \in Cmds, cmd[e].target \notin mixed',
               stage[e] \in {"captured", "applying", "applied", "snapped", "enrolling"}
        PROVE  content'[cmd[e].target] = content[cmd[e].target]
    <3>1. cmd[e].target # cmd[c].target /\ cmd[e].target \in Targets
      BY <1>2, <2>1, Typed DEF InFlight
    <3> QED
      BY <3>1
  <2> QED
    BY <1>1, <1>2, <2>1 DEF CanvasInv, Holds
<1>6. Ordered'
  BY <1>1, <1>3 DEF CanvasInv, Ordered
<1>7. \A j \in Keys : /\ Undoable(stacks'[j]) \subseteq Undoable(stacks[j]) \cup {c}
                      /\ Redoable(stacks'[j]) \subseteq Redoable(stacks[j]) \cup {c}
  BY <1>1
<1>8. ASSUME NEW e \in Cmds, e # c, redoing'[e] > 0, cmd[e].target \in Soles', NEW j \in Keys
      PROVE  AgreeOn(stacks'[j], cmd, cmd[e].target, cmd[e].prior \cup {e})
  <2>1. redoing[e] > 0
    BY <1>8
  <2>2. cmd[e].target # cmd[c].target
    BY <1>2, <1>3, <1>8, <2>1 DEF InFlight
  <2>3. AgreeOn(stacks[j], cmd, cmd[e].target, cmd[e].prior \cup {e})
    BY <1>3, <1>8, <2>1 DEF CanvasInv, Returning
  <2> QED
    BY <1>7, <2>2, <2>3 DEF AgreeOn
<1>9. ASSUME NEW y \in Soles', y # cmd[c].target,
             \A e \in Cmds : redoing'[e] > 0 => cmd[e].target # y, NEW j \in Keys
      PROVE  AgreeOn(stacks'[j], cmd, y, content'[y])
  <2>1. \A e \in Cmds : redoing[e] > 0 => cmd[e].target # y
    BY <1>9
  <2>2. AgreeOn(stacks[j], cmd, y, content[y]) /\ content'[y] = content[y]
    BY <1>3, <1>9, <2>1 DEF CanvasInv, Settled, Soles
  <2> QED
    BY <1>7, <1>9, <2>2 DEF AgreeOn
<1> QED
  BY <1>2, <1>3, <1>4, <1>5, <1>6, <1>8, <1>9

LEMMA CanvasUndo ==
  ASSUME IInv, Base, CanvasInv, NEW k \in Keys, NEW c \in Cmds, MovesBack(k, c)
  PROVE  CanvasInv'
<1> DEFINE x == cmd[c].target
           s == stacks[k]
<1>1. /\ Moves(k, c) /\ UNCHANGED <<stage, cmd, redoing>> /\ x \in Targets
      /\ content'[x] = cmd[c].prior
      /\ \A y \in Targets \ {x} : content'[y] = content[y]
      /\ \A j \in Keys \ {k} : stacks'[j] = stacks[j]
      /\ stacks'[k] = PopUndo(s)
      /\ s.undo # <<>> /\ c = s.undo[Len(s.undo)]
  BY Typed DEF MovesBack, Moves
<1>2. /\ c \in Undoable(s)
      /\ \A d \in Undoable(stacks'[k]) : d \in Undoable(s) /\ Earlier(s, d, c)
      /\ \A d \in Redoable(stacks'[k]) : d = c \/ (d \in Redoable(s) /\ Earlier(s, c, d))
      /\ \A d, e \in Cmds : Earlier(stacks'[k], d, e) => Earlier(s, d, e)
  BY <1>1, KeyTyped, PopUndoOrder
<1> HIDE DEF x, s
<1>3. /\ PriorDone' /\ Holds' /\ Ordered' /\ Soles' \subseteq Soles /\ mixed \subseteq mixed'
      /\ \A e \in Cmds \ {c} : redoing'[e] > 0 /\ cmd[e].target \in Soles' =>
           \A j \in Keys : AgreeOn(stacks'[j], cmd, cmd[e].target, cmd[e].prior \cup {e})
      /\ \A y \in Soles' \ {x} : (\A e \in Cmds : redoing'[e] > 0 => cmd[e].target # y)
             => \A j \in Keys : AgreeOn(stacks'[j], cmd, y, content'[y])
  <2>1. /\ \A e, d \in Cmds : Earlier(stacks'[k], e, d) => Earlier(stacks[k], e, d)
        /\ Undoable(stacks'[k]) \subseteq Undoable(stacks[k]) \cup {c}
        /\ Redoable(stacks'[k]) \subseteq Redoable(stacks[k]) \cup {c}
    BY <1>2 DEF s
  <2>2. \A e \in Cmds \ {c} : redoing'[e] = redoing[e]
    BY <1>1
  <2> QED
    BY <1>1, <2>1, <2>2, CanvasMoves DEF x
<1>4. RedoOnce' /\ (x \in Soles' => ~(redoing'[c] > 0))
  <2>1. x \in Soles' => ~InFlight(c)
    BY <1>1, MixingFacts DEF Moves, Soles, x
  <2> QED
    BY <1>1, <1>3, <2>1 DEF CanvasInv, RedoOnce, InFlight
<1>5. c \in Held(s) /\ c \notin cmd[c].prior
  <2>1. c \in Held(s)
    BY <1>2 DEF Held
  <2>2. stage[c] = "done"
    BY <2>1, HeldDone DEF s
  <2> QED
    BY <2>1, <2>2 DEF Base, PriorOK
<1>6. ASSUME x \in Soles', NEW j \in Keys
      PROVE  AgreeOn(stacks'[j], cmd, x, content'[x])
  <2>1. CASE j # k
    <3>1. \A d \in Held(stacks'[j]) : cmd[d].target # x
      BY <1>1, <1>3, <1>5, <1>6, <2>1, OneStack DEF s, x
    <3> QED
      BY <3>1 DEF AgreeOn, Held
  <2>2. CASE j = k
    <3>1. ASSUME NEW d \in Undoable(stacks'[k]), cmd[d].target = x PROVE d \in cmd[c].prior
      <4>1. Earlier(s, d, c) /\ d \in Cmds
        BY <1>2, <3>1, KeyTyped DEF Held, s
      <4> QED
        BY <1>3, <1>6, <3>1, <4>1 DEF CanvasInv, Ordered, s, x
    <3>2. ASSUME NEW d \in Redoable(stacks'[k]), cmd[d].target = x PROVE d \notin cmd[c].prior
      <4>1. CASE d = c
        BY <1>5, <4>1
      <4>2. CASE d \in Redoable(s) /\ Earlier(s, c, d)
        <5>1. d \in Cmds
          BY <4>2, KeyTyped DEF Held, s
        <5> QED
          BY <1>3, <1>6, <3>2, <4>2, <5>1 DEF CanvasInv, Ordered, s, x
      <4> QED
        BY <1>2, <4>1, <4>2
    <3> QED
      BY <1>1, <2>2, <3>1, <3>2 DEF AgreeOn
  <2> QED
    BY <2>1, <2>2
<1>7. Returning'
  BY <1>1, <1>3, <1>4 DEF Returning, x
<1>8. Settled'
  BY <1>1, <1>3, <1>6 DEF Settled
<1> QED
  BY <1>3, <1>4, <1>7, <1>8 DEF CanvasInv

LEMMA CanvasRedo ==
  ASSUME IInv, Base, CanvasInv, NEW k \in Keys, NEW c \in Cmds, MovesOn(k, c)
  PROVE  CanvasInv'
<1> DEFINE x == cmd[c].target
           s == stacks[k]
<1>1. /\ Moves(k, c) /\ UNCHANGED <<stage, cmd>> /\ x \in Targets
      /\ \/ content' = content /\ redoing' = [redoing EXCEPT ![c] = @ + 1]
         \/ content'[x] = cmd[c].prior \cup {c} /\ redoing' = redoing
      /\ \A y \in Targets \ {x} : content'[y] = content[y]
      /\ \A j \in Keys \ {k} : stacks'[j] = stacks[j]
      /\ stacks'[k] = PopRedo(s)
      /\ s.redo # <<>> /\ c = s.redo[Len(s.redo)]
  BY Typed DEF MovesOn, Moves, Writes
<1>2. /\ c \in Redoable(s)
      /\ \A d \in Undoable(stacks'[k]) : d = c \/ (d \in Undoable(s) /\ Earlier(s, d, c))
      /\ \A d \in Redoable(stacks'[k]) : d \in Redoable(s) /\ Earlier(s, c, d)
      /\ \A d, e \in Cmds : Earlier(stacks'[k], d, e) => Earlier(s, d, e)
  BY <1>1, KeyTyped, PopRedoOrder
<1> HIDE DEF x, s
<1>3. /\ PriorDone' /\ Holds' /\ Ordered' /\ Soles' \subseteq Soles /\ mixed \subseteq mixed'
      /\ \A e \in Cmds \ {c} : redoing'[e] > 0 /\ cmd[e].target \in Soles' =>
           \A j \in Keys : AgreeOn(stacks'[j], cmd, cmd[e].target, cmd[e].prior \cup {e})
      /\ \A y \in Soles' \ {x} : (\A e \in Cmds : redoing'[e] > 0 => cmd[e].target # y)
             => \A j \in Keys : AgreeOn(stacks'[j], cmd, y, content'[y])
  <2>1. /\ \A e, d \in Cmds : Earlier(stacks'[k], e, d) => Earlier(stacks[k], e, d)
        /\ Undoable(stacks'[k]) \subseteq Undoable(stacks[k]) \cup {c}
        /\ Redoable(stacks'[k]) \subseteq Redoable(stacks[k]) \cup {c}
    BY <1>2 DEF s
  <2>2. \A e \in Cmds \ {c} : redoing'[e] = redoing[e]
    BY <1>1, Typed
  <2> QED
    BY <1>1, <2>1, <2>2, CanvasMoves DEF x
<1>4. x \notin mixed' => redoing[c] = 0
  <2>1. x \notin mixed' => ~InFlight(c)
    BY <1>1, MixingFacts DEF Moves, x
  <2> QED
    BY <1>3, <2>1 DEF CanvasInv, RedoOnce, InFlight, x
<1>5. RedoOnce'
  <2>1. redoing'[c] = 0 \/ redoing'[c] = 1 \/ x \in mixed'
    BY <1>1, <1>4, Typed
  <2>2. \A e \in Cmds \ {c} : redoing'[e] = redoing[e]
    BY <1>1, Typed
  <2> QED
    BY <1>1, <1>3, <2>1, <2>2 DEF CanvasInv, RedoOnce, x
<1>6. c \in Held(s)
  BY <1>2 DEF Held
<1>7. ASSUME x \in Soles', NEW j \in Keys
      PROVE  AgreeOn(stacks'[j], cmd, x, cmd[c].prior \cup {c})
  <2>1. CASE j # k
    <3>1. \A d \in Held(stacks'[j]) : cmd[d].target # x
      BY <1>1, <1>3, <1>6, <1>7, <2>1, OneStack DEF s, x
    <3> QED
      BY <3>1 DEF AgreeOn, Held
  <2>2. CASE j = k
    <3>1. ASSUME NEW d \in Undoable(stacks'[k]), cmd[d].target = x
          PROVE  d \in cmd[c].prior \cup {c}
      <4>1. CASE d = c
        BY <4>1
      <4>2. CASE d \in Undoable(s) /\ Earlier(s, d, c)
        <5>1. d \in Cmds
          BY <4>2, KeyTyped DEF Held, s
        <5> QED
          BY <1>3, <1>7, <3>1, <4>2, <5>1 DEF CanvasInv, Ordered, s, x
      <4> QED
        BY <1>2, <4>1, <4>2
    <3>2. ASSUME NEW d \in Redoable(stacks'[k]), cmd[d].target = x
          PROVE  d \notin cmd[c].prior \cup {c}
      <4>1. d \in Held(s) /\ Earlier(s, c, d)
        BY <1>2 DEF Held
      <4>2. d \in Cmds /\ stage[d] = "done"
        BY <4>1, HeldDone DEF s
      <4>3. c \in cmd[d].prior /\ d \notin cmd[c].prior
        BY <1>3, <1>7, <3>2, <4>1, <4>2 DEF CanvasInv, Ordered, s, x
      <4>4. d \notin cmd[d].prior
        BY <4>2 DEF Base, PriorOK
      <4> QED
        BY <4>3, <4>4
    <3> QED
      BY <2>2, <3>1, <3>2 DEF AgreeOn
  <2> QED
    BY <2>1, <2>2
<1>8. Returning'
  BY <1>1, <1>3, <1>7 DEF Returning, x
<1>9. Settled'
  <2> SUFFICES ASSUME NEW y \in Soles', \A e \in Cmds : redoing'[e] > 0 => cmd[e].target # y,
                      NEW j \in Keys
               PROVE  AgreeOn(stacks'[j], cmd, y, content'[y])
    BY <1>1, <1>3 DEF Settled
  <2>1. CASE y = x
    <3>1. ~(redoing'[c] > 0)
      BY <2>1 DEF x
    <3>2. content'[x] = cmd[c].prior \cup {c}
      BY <1>1, <1>4, <2>1, <3>1, Typed DEF Soles
    <3> QED
      BY <1>7, <2>1, <3>2
  <2>2. CASE y # x
    BY <1>3, <2>2
  <2> QED
    BY <2>1, <2>2
<1> QED
  BY <1>3, <1>5, <1>8, <1>9 DEF CanvasInv

LEMMA CanvasStep ==
  ASSUME IInv, Base, Apart, CanvasInv, [Next]_vars
  PROVE  CanvasInv'
<1>1. ASSUME NEW t \in Tokens, Arrival(t) PROVE CanvasInv'
  <2>1. \/ \E c \in Cmds, x \in Targets : Begins(c, t, x)
        \/ \E d \in Docs : Undo(t, d) \/ Redo(t, d) \/ NoOp(t, d)
    BY <1>1 DEF Arrival, Begins
  <2> QED
    BY <2>1, CanvasBegin, UndoMoves, CanvasUndo, CanvasRedo, StillOthers, CanvasStill
<1>2. ASSUME NEW c \in Cmds, Handler(c) PROVE CanvasInv'
  <2>1. \/ Advances(c, "captured", "applied") /\ Writes(c)
        \/ Advances(c, "applying", "applied") /\ Writes(c)
        \/ Advances(c, "applying", "done") /\ content' = content
        \/ Advances(c, "applied", "snapped") /\ content' = content
        \/ Lands(c) \/ Returns(c)
    BY <1>2, HandlerMoves DEF Base
  <2> QED
    BY <2>1, CanvasAdvance, CanvasLands, CanvasReturns
<1> QED
  BY <1>1, <1>2, StillConnection, StillEvict, StillOthers, CanvasStill, CanvasRestart DEF Next

LEMMA CanvasInit == Init => CanvasInv
<1> SUFFICES ASSUME Init PROVE CanvasInv
  OBVIOUS
<1>1. \A k \in Keys : Undoable(stacks[k]) = {} /\ Redoable(stacks[k]) = {}
  BY EmptyWithin DEF Init
<1>2. \A k \in Keys : \A c, d : ~Earlier(stacks[k], c, d)
  BY <1>1, EarlierHeld DEF Held
<1>3. Ordered
  BY <1>2 DEF Ordered
<1>4. Settled /\ Returning
  BY <1>1 DEF Settled, Returning, AgreeOn
<1> QED
  BY <1>3, <1>4 DEF Init, CanvasInv, RedoOnce, PriorDone, Holds

LEMMA CanvasConclusion ==
  ASSUME IInv, Base, CanvasInv
  PROVE  CanvasAgrees
<1> SUFFICES ASSUME NEW x \in Targets \ mixed, OnlyWriter(x), Quiet(x), NEW k \in Keys
             PROVE  /\ \A i \in DOMAIN stacks[k].undo :
                         cmd[stacks[k].undo[i]].target = x => stacks[k].undo[i] \in content[x]
                    /\ \A i \in DOMAIN stacks[k].redo :
                         cmd[stacks[k].redo[i]].target = x => stacks[k].redo[i] \notin content[x]
  BY DEF CanvasAgrees, Agrees
<1>1. \A c \in Cmds : stage[c] # "idle" /\ cmd[c].target = x => stage[c] = "done"
  BY DEF Quiet, InFlight
<1>2. x \in Soles
  BY <1>1 DEF OnlyWriter, Soles
<1>3. \A c \in Cmds : redoing[c] > 0 => cmd[c].target # x
  BY DEF Quiet, InFlight
<1>4. AgreeOn(stacks[k], cmd, x, content[x])
  BY <1>2, <1>3 DEF CanvasInv, Settled
<1> QED
  BY <1>4 DEF AgreeOn, Undoable, Redoable

(* Undo and redo tell the truth: on a target only one token edited and     *)
(* that is not mixed, every command its undo array offers to revert is on  *)
(* the canvas and no command its redo array offers to apply again is,      *)
(* through any order of edits, failed edits, undos, redos, evictions,      *)
(* discards and restarts, and whatever overlaps or fails on other targets. *)
THEOREM StacksTellCanvas == Spec => []CanvasAgrees
<1>1. Init => Apart
  BY DEF Init, Apart, InFlight
<1> QED
  BY <1>1, InitIInv, StepIInv, ApartStep, BaseInit, BaseStep, CanvasInit, CanvasStep,
     CanvasConclusion, PTL DEF Spec

-----------------------------------------------------------------------------
(* UndoRedo implements LinearHistory.  Read from the bottom of the undo    *)
(* array to the bottom of the redo array, the two arrays of a key are one  *)
(* history, and the length of the undo array is the cursor in it.          *)

LEMMA ReverseIndex ==
  ASSUME NEW r \in Seq(Cmds)
  PROVE  /\ Reverse(r) \in Seq(Cmds) /\ Len(Reverse(r)) = Len(r)
         /\ \A i \in 1 .. Len(r) : Reverse(r)[i] = r[Len(r) - i + 1]
<1>1. Len(r) \in Nat /\ \A i \in 1 .. Len(r) : r[i] \in Cmds
  BY LenProperties, ElementOfSeq
<1>2. \A i \in 1 .. Len(r) : (Len(r) - i) + 1 \in 1 .. Len(r)
  BY <1>1
<1>3. Reverse(r) = [i \in 1 .. Len(r) |-> r[(Len(r) - i) + 1]]
  BY DEF Reverse
<1>4. Reverse(r) \in [1 .. Len(r) -> Cmds]
  BY <1>1, <1>2, <1>3
<1>5. Reverse(r) \in Seq(Cmds)
  BY <1>1, <1>4, IsASeq
<1>6. DOMAIN Reverse(r) = 1 .. Len(r) /\ DOMAIN Reverse(r) = 1 .. Len(Reverse(r))
      /\ Len(Reverse(r)) \in Nat
  BY <1>4, <1>5, LenProperties
<1>7. Len(Reverse(r)) = Len(r)
  BY <1>1, <1>6
<1> QED
  BY <1>3, <1>5, <1>7

LEMMA ConcatIndex ==
  ASSUME NEW a \in Seq(Cmds), NEW b \in Seq(Cmds)
  PROVE  /\ a \o b \in Seq(Cmds)
         /\ Len(a \o b) = Len(a) + Len(b)
         /\ \A i \in 1 .. Len(a) + Len(b) :
              (a \o b)[i] = IF i <= Len(a) THEN a[i] ELSE b[i - Len(a)]
<1>1. a \o b \in Seq(Cmds)
  BY ConcatProperties
<1>2. Len(a \o b) = Len(a) + Len(b)
  BY ConcatProperties
<1>3. \A i \in 1 .. Len(a) + Len(b) :
        (a \o b)[i] = IF i <= Len(a) THEN a[i] ELSE b[i - Len(a)]
  BY ConcatProperties
<1> QED
  BY <1>1, <1>2, <1>3

LEMMA LogIndex ==
  ASSUME NEW s \in StackOf(Cmds)
  PROVE  /\ LogOf(s) \in Seq(Cmds)
         /\ Len(LogOf(s)) = Len(s.undo) + Len(s.redo)
         /\ \A i \in 1 .. Len(s.undo) : LogOf(s)[i] = s.undo[i]
         /\ \A i \in 1 .. Len(s.redo) :
              LogOf(s)[Len(s.undo) + i] = s.redo[Len(s.redo) - i + 1]
<1> DEFINE u == s.undo
           r == s.redo
           v == Reverse(r)
           l == LogOf(s)
<1>1. u \in Seq(Cmds) /\ r \in Seq(Cmds) /\ Len(u) \in Nat /\ Len(r) \in Nat
  BY StackParts
<1>2. /\ v \in Seq(Cmds) /\ Len(v) = Len(r)
      /\ \A i \in 1 .. Len(r) : v[i] = r[Len(r) - i + 1]
  BY <1>1, ReverseIndex
<1>3. l = u \o v
  BY DEF LogOf
<1> HIDE DEF u, r, v, l
<1>4. /\ u \o v \in Seq(Cmds) /\ Len(u \o v) = Len(u) + Len(v)
      /\ \A i \in 1 .. Len(u) + Len(v) :
           (u \o v)[i] = IF i <= Len(u) THEN u[i] ELSE v[i - Len(u)]
  BY <1>1, <1>2, ConcatIndex
<1>5. ASSUME NEW i \in 1 .. Len(u) PROVE l[i] = u[i]
  <2>1. i \in 1 .. Len(u) + Len(v) /\ i <= Len(u)
    BY <1>1, <1>2
  <2> QED
    BY <1>3, <1>4, <2>1
<1>6. ASSUME NEW i \in 1 .. Len(r) PROVE l[Len(u) + i] = r[Len(r) - i + 1]
  <2>1. /\ Len(u) + i \in 1 .. Len(u) + Len(v) /\ ~(Len(u) + i <= Len(u))
        /\ (Len(u) + i) - Len(u) = i
    BY <1>1, <1>2
  <2>2. l[Len(u) + i] = v[i]
    BY <1>3, <1>4, <2>1
  <2> QED
    BY <1>2, <2>2
<1> QED
  BY <1>2, <1>3, <1>4, <1>5, <1>6 DEF u, r, l

(* The commands of the history are the commands of the stack.              *)
LEMMA LogHeld ==
  ASSUME NEW s \in StackOf(Cmds), NEW i \in DOMAIN LogOf(s)
  PROVE  LogOf(s)[i] \in Held(s)
<1> DEFINE n == Len(s.undo)
           m == Len(s.redo)
<1>1. /\ n \in Nat /\ m \in Nat /\ i \in 1 .. n + m
      /\ DOMAIN s.undo = 1 .. n /\ DOMAIN s.redo = 1 .. m
  BY LogIndex, StackParts, LenProperties
<1> HIDE DEF n, m
<1>2. CASE i \in 1 .. n
  BY <1>1, <1>2, LogIndex DEF Held, Undoable, n
<1>3. CASE i > n
  <2>1. i - n \in 1 .. m /\ i = n + (i - n) /\ m - (i - n) + 1 \in 1 .. m
    BY <1>1, <1>3
  <2>2. LogOf(s)[n + (i - n)] = s.redo[m - (i - n) + 1]
    BY <2>1, LogIndex DEF n, m
  <2>3. LogOf(s)[i] = s.redo[m - (i - n) + 1]
    BY <2>1, <2>2
  <2> QED
    BY <1>1, <2>1, <2>3 DEF Held, Redoable
<1> QED
  BY <1>1, <1>2, <1>3

(* Two stacks whose arrays join at different places, over the same log.    *)
LEMMA LogPopUndo ==
  ASSUME NEW s \in StackOf(Cmds), s.undo # <<>>
  PROVE  LogOf(PopUndo(s)) = LogOf(s) /\ Len(PopUndo(s).undo) = Len(s.undo) - 1
<1> DEFINE u == s.undo
           r == s.redo
           c == u[Len(u)]
           t == PopUndo(s)
           n == Len(u) - 1
           m == Len(r)
<1>1. u \in Seq(Cmds) /\ r \in Seq(Cmds) /\ c \in Cmds /\ t \in StackOf(Cmds)
  BY StackParts, FrontFacts, PopUndoFacts
<1>2. t.undo = Front1(u) /\ t.redo = Append(r, c)
  BY DEF PopUndo
<1>3. /\ Len(u) \in Nat /\ Len(u) >= 1 /\ Len(Front1(u)) = n
      /\ \A i \in 1 .. n : Front1(u)[i] = u[i]
  BY <1>1, FrontIndex, FrontFacts
<1>4. /\ m \in Nat /\ Len(Append(r, c)) = m + 1
      /\ \A i \in 1 .. m : Append(r, c)[i] = r[i]
      /\ Append(r, c)[m + 1] = c
  BY <1>1, AppendIndex, AppendProperties
<1>5. /\ LogOf(s) \in Seq(Cmds) /\ Len(LogOf(s)) = Len(u) + m
      /\ \A i \in 1 .. Len(u) : LogOf(s)[i] = u[i]
      /\ \A i \in 1 .. m : LogOf(s)[Len(u) + i] = r[m - i + 1]
  BY LogIndex
<1>6. /\ LogOf(t) \in Seq(Cmds) /\ Len(LogOf(t)) = Len(t.undo) + Len(t.redo)
      /\ \A i \in 1 .. Len(t.undo) : LogOf(t)[i] = t.undo[i]
      /\ \A i \in 1 .. Len(t.redo) : LogOf(t)[Len(t.undo) + i] = t.redo[Len(t.redo) - i + 1]
  BY <1>1, LogIndex
<1> HIDE DEF t, c, u, r
<1>7. /\ Len(LogOf(t)) = n + (m + 1)
      /\ \A i \in 1 .. n : LogOf(t)[i] = Front1(u)[i]
      /\ \A i \in 1 .. m + 1 : LogOf(t)[n + i] = Append(r, c)[(m + 1) - i + 1]
  BY <1>2, <1>3, <1>4, <1>6
<1>8. Len(LogOf(t)) = Len(LogOf(s))
  BY <1>3, <1>4, <1>5, <1>7
<1>9. ASSUME NEW i \in 1 .. Len(LogOf(t)) PROVE LogOf(t)[i] = LogOf(s)[i]
  <2>1. i \in 1 .. n + (m + 1)
    BY <1>7
  <2>2. CASE i \in 1 .. n
    BY <1>3, <1>5, <1>7, <2>2
  <2>3. CASE i = n + 1
    <3>1. LogOf(t)[n + 1] = c
      <4>1. 1 \in 1 .. m + 1 /\ (m + 1) - 1 + 1 = m + 1
        BY <1>4
      <4> QED
        BY <1>4, <1>7, <4>1
    <3>2. LogOf(s)[n + 1] = c
      <4>1. n + 1 = Len(u) /\ Len(u) \in 1 .. Len(u)
        BY <1>3
      <4> QED
        BY <1>5, <4>1 DEF c
    <3> QED
      BY <2>3, <3>1, <3>2
  <2>4. CASE i > n + 1
    <3> DEFINE j == i - n
    <3>1. /\ j \in 1 .. m + 1 /\ i = n + j /\ (m + 1) - j + 1 \in 1 .. m
          /\ j - 1 \in 1 .. m /\ i = Len(u) + (j - 1)
          /\ m - (j - 1) + 1 = (m + 1) - j + 1
      BY <1>3, <1>4, <2>1, <2>4
    <3> HIDE DEF j
    <3>2. LogOf(t)[n + j] = Append(r, c)[(m + 1) - j + 1]
      BY <1>7, <3>1
    <3>3. Append(r, c)[(m + 1) - j + 1] = r[(m + 1) - j + 1]
      BY <1>4, <3>1
    <3>4. LogOf(s)[Len(u) + (j - 1)] = r[m - (j - 1) + 1]
      BY <1>5, <3>1
    <3> QED
      BY <3>1, <3>2, <3>3, <3>4
  <2> QED
    BY <1>3, <1>4, <2>1, <2>2, <2>3, <2>4
<1>10. LogOf(t) = LogOf(s)
  BY <1>5, <1>6, <1>8, <1>9, SeqEqual
<1> QED
  BY <1>2, <1>3, <1>10 DEF t, u

(* redo is undo backwards.                                                 *)
LEMMA LogPopRedo ==
  ASSUME NEW s \in StackOf(Cmds), s.redo # <<>>
  PROVE  LogOf(PopRedo(s)) = LogOf(s) /\ Len(PopRedo(s).undo) = Len(s.undo) + 1
<1> DEFINE u == s.undo
           r == s.redo
           c == r[Len(r)]
           t == PopRedo(s)
           p == PopUndo(t)
<1>1. /\ u \in Seq(Cmds) /\ r \in Seq(Cmds) /\ c \in Cmds /\ t \in StackOf(Cmds)
      /\ Len(r) \in Nat /\ Len(r) >= 1
  BY StackParts, FrontFacts, FrontIndex, PopRedoFacts
<1>2. t.undo = Append(u, c) /\ t.redo = Front1(r)
  BY DEF PopRedo
<1>3. /\ Append(u, c) \in Seq(Cmds) /\ Len(Append(u, c)) = Len(u) + 1 /\ Len(u) \in Nat
      /\ \A i \in 1 .. Len(u) : Append(u, c)[i] = u[i]
      /\ Append(u, c)[Len(u) + 1] = c
  BY <1>1, AppendIndex, AppendProperties
<1>4. t.undo # <<>>
  <2>1. Len(t.undo) = Len(u) + 1
    BY <1>2, <1>3
  <2> SUFFICES ASSUME t.undo = <<>> PROVE FALSE
    OBVIOUS
  <2>2. Len(t.undo) = 0
    OBVIOUS
  <2> QED
    BY <1>3, <2>1, <2>2
<1>5. p.undo = Front1(t.undo) /\ p.redo = Append(t.redo, t.undo[Len(t.undo)])
  BY DEF PopUndo
<1>6. p.undo = u
  <2>1. /\ Len(Front1(t.undo)) = Len(u) /\ Front1(t.undo) \in Seq(Cmds)
        /\ \A i \in 1 .. Len(u) : Front1(t.undo)[i] = Append(u, c)[i]
    <3>1. t.undo \in Seq(Cmds) /\ t.undo = Append(u, c)
      BY <1>2, <1>3
    <3>2. /\ Front1(t.undo) \in Seq(Cmds) /\ Len(Front1(t.undo)) = Len(t.undo) - 1
          /\ \A i \in 1 .. Len(t.undo) - 1 : Front1(t.undo)[i] = t.undo[i]
      BY <1>4, <3>1, FrontFacts, FrontIndex
    <3>3. Len(t.undo) - 1 = Len(u)
      BY <1>3, <3>1
    <3> HIDE DEF t
    <3> QED
      BY <3>1, <3>2, <3>3
  <2> QED
    BY <1>1, <1>3, <1>5, <2>1, SeqEqual
<1>7. p.redo = r
  <2>1. p.redo = Append(Front1(r), c)
    BY <1>2, <1>3, <1>5
  <2>2. /\ Front1(r) \in Seq(Cmds) /\ Len(Front1(r)) = Len(r) - 1
        /\ \A i \in 1 .. Len(r) - 1 : Front1(r)[i] = r[i]
    BY <1>1, FrontFacts, FrontIndex
  <2>3. /\ Append(Front1(r), c) \in Seq(Cmds) /\ Len(Append(Front1(r), c)) = Len(r)
        /\ \A i \in 1 .. Len(r) - 1 : Append(Front1(r), c)[i] = r[i]
        /\ Append(Front1(r), c)[Len(r)] = c
    BY <1>1, <2>2, AppendProperties
  <2>4. \A i \in 1 .. Len(r) : Append(Front1(r), c)[i] = r[i]
    BY <1>1, <2>3
  <2> QED
    BY <1>1, <2>1, <2>3, <2>4, SeqEqual
<1>8. LogOf(p) = LogOf(t)
  BY <1>1, <1>4, LogPopUndo
<1>9. LogOf(p) = LogOf(s)
  BY <1>6, <1>7 DEF LogOf
<1> QED
  BY <1>2, <1>3, <1>8, <1>9 DEF t, u

(* What the history is when nothing is ahead of the cursor, what lies      *)
(* behind the cursor in it, and what a loss at its old end leaves.         *)
LEMMA LogNoRedo ==
  ASSUME NEW u \in Seq(Cmds), NEW a
  PROVE  LogOf([undo |-> u, redo |-> <<>>, anchors |-> a]) = u
<1>1. Reverse(<<>>) \in Seq(Cmds) /\ Len(Reverse(<<>>)) = 0
  BY ReverseIndex, EmptySeq
<1>2. Reverse(<<>>) = <<>>
  BY <1>1, EmptySeq
<1>3. u \o <<>> = u
  BY ConcatEmptySeq
<1> QED
  BY <1>2, <1>3 DEF LogOf

LEMMA LogPast ==
  ASSUME NEW s \in StackOf(Cmds)
  PROVE  SubSeq(LogOf(s), 1, Len(s.undo)) = s.undo
<1> DEFINE u == s.undo
           l == LogOf(s)
           n == Len(u)
<1>1. u \in Seq(Cmds) /\ n \in Nat /\ \A i \in 1 .. n : u[i] \in Cmds
  BY StackParts, ElementOfSeq
<1>2. \A i \in 1 .. n : l[i] = u[i]
  BY LogIndex
<1> HIDE DEF u, l
<1>3. /\ SubSeq(l, 1, n) \in Seq(Cmds)
      /\ Len(SubSeq(l, 1, n)) = IF 1 <= n THEN n - 1 + 1 ELSE 0
      /\ \A i \in 1 .. n - 1 + 1 : SubSeq(l, 1, n)[i] = l[1 + i - 1]
  BY <1>1, <1>2, SubSeqProperties
<1>4. Len(SubSeq(l, 1, n)) = Len(u)
  BY <1>1, <1>3
<1>5. \A i \in 1 .. n : SubSeq(l, 1, n)[i] = u[i]
  <2>1. \A i \in 1 .. n : i \in 1 .. n - 1 + 1 /\ 1 + i - 1 = i
    BY <1>1
  <2> QED
    BY <1>2, <1>3, <2>1
<1>6. SubSeq(l, 1, n) = u
  BY <1>1, <1>3, <1>4, <1>5, SeqEqual
<1> QED
  BY <1>6 DEF u, l

LEMMA LogShift ==
  ASSUME NEW s \in StackOf(Cmds), s.undo # <<>>, Depth(s) <= MaxDepth
  PROVE  /\ LogOf(ShiftOldestUndo(s)) = Tail(LogOf(s))
         /\ Len(ShiftOldestUndo(s).undo) = Len(s.undo) - 1
<1> DEFINE u == s.undo
           r == s.redo
           t == ShiftOldestUndo(s)
           l == LogOf(s)
           n == Len(u)
           m == Len(r)
<1>1. /\ u \in Seq(Cmds) /\ u # <<>> /\ n \in Nat /\ n >= 1 /\ m \in Nat
      /\ t \in StackOf(Cmds) /\ t.undo = Tail(u) /\ t.redo = r
  <2>1. u \in Seq(Cmds) /\ r \in Seq(Cmds) /\ n \in Nat /\ m \in Nat
    BY StackParts
  <2>2. n >= 1
    BY <2>1, FrontIndex
  <2>3. t \in StackOf(Cmds)
    BY ShiftFacts
  <2> QED
    BY <2>1, <2>2, <2>3 DEF ShiftOldestUndo
<1>2. Len(Tail(u)) = n - 1 /\ \A i \in 1 .. n - 1 : Tail(u)[i] = u[i + 1]
  BY <1>1, HeadTailProperties
<1>3. /\ l \in Seq(Cmds) /\ Len(l) = n + m
      /\ \A i \in 1 .. n : l[i] = u[i]
      /\ \A i \in 1 .. m : l[n + i] = r[m - i + 1]
  BY LogIndex
<1>4. /\ LogOf(t) \in Seq(Cmds) /\ Len(LogOf(t)) = Len(t.undo) + Len(t.redo)
      /\ \A i \in 1 .. Len(t.undo) : LogOf(t)[i] = t.undo[i]
      /\ \A i \in 1 .. Len(t.redo) : LogOf(t)[Len(t.undo) + i] = t.redo[Len(t.redo) - i + 1]
  BY <1>1, LogIndex
<1> HIDE DEF u, r, t, l, n, m
<1>5. /\ Len(LogOf(t)) = (n - 1) + m
      /\ \A i \in 1 .. n - 1 : LogOf(t)[i] = u[i + 1]
      /\ \A i \in 1 .. m : LogOf(t)[(n - 1) + i] = r[m - i + 1]
  <2>1. Len(t.undo) = n - 1 /\ Len(t.redo) = m /\ t.redo = r
    BY <1>1, <1>2 DEF m
  <2>2. \A i \in 1 .. n - 1 : t.undo[i] = u[i + 1]
    BY <1>1, <1>2
  <2> QED
    BY <1>4, <2>1, <2>2
<1>6. l # <<>>
  <2> SUFFICES ASSUME l = <<>> PROVE FALSE
    OBVIOUS
  <2>1. Len(l) = 0
    OBVIOUS
  <2> QED
    BY <1>1, <1>3, <2>1
<1>7. /\ Tail(l) \in Seq(Cmds) /\ Len(Tail(l)) = n + m - 1
      /\ \A i \in 1 .. n + m - 1 : Tail(l)[i] = l[i + 1]
  BY <1>1, <1>3, <1>6, HeadTailProperties
<1>8. ASSUME NEW i \in 1 .. (n - 1) + m PROVE LogOf(t)[i] = Tail(l)[i]
  <2>1. i \in 1 .. n + m - 1
    BY <1>1
  <2>2. CASE i \in 1 .. n - 1
    <3>1. i + 1 \in 1 .. n
      BY <1>1, <2>2
    <3> QED
      BY <1>3, <1>5, <1>7, <2>1, <2>2, <3>1
  <2>3. CASE i > n - 1
    <3>1. PICK j \in 1 .. m : i = (n - 1) + j /\ i + 1 = n + j
      <4>1. i - (n - 1) \in 1 .. m /\ i = (n - 1) + (i - (n - 1))
            /\ i + 1 = n + (i - (n - 1))
        BY <1>1, <2>3
      <4> QED
        BY <4>1
    <3>2. LogOf(t)[i] = r[m - j + 1]
      BY <1>5, <3>1
    <3>3. Tail(l)[i] = r[m - j + 1]
      BY <1>3, <1>7, <2>1, <3>1
    <3> QED
      BY <3>2, <3>3
  <2>4. i \in 1 .. n - 1 \/ i > n - 1
    BY <1>1
  <2> QED
    BY <2>2, <2>3, <2>4
<1>9. Len(LogOf(t)) = Len(Tail(l))
  BY <1>1, <1>5, <1>7
<1>10. LogOf(t) = Tail(l)
  BY <1>4, <1>5, <1>7, <1>8, <1>9, SeqEqual
<1> QED
  BY <1>1, <1>2, <1>10 DEF t, l, u, n

LEMMA LogPush ==
  ASSUME NEW s \in StackOf(Cmds), NEW c \in Cmds, NEW snap
  PROVE  LET past == SubSeq(LogOf(s), 1, Len(s.undo))
             next == IF Len(s.undo) + 1 > MaxDepth THEN Tail(Append(past, c))
                                                   ELSE Append(past, c)
         IN  LogOf(Push(s, c, snap)) = next /\ Len(Push(s, c, snap).undo) = Len(next)
<1> DEFINE u == s.undo
           g == Append(u, c)
           v == IF Len(u) + 1 > MaxDepth THEN Tail(g) ELSE g
<1>1. SubSeq(LogOf(s), 1, Len(u)) = u
  BY LogPast
<1>2. u \in Seq(Cmds) /\ g \in Seq(Cmds) /\ Len(g) = Len(u) + 1 /\ Len(u) \in Nat
  BY StackParts, AppendProperties
<1>3. g # <<>>
  <2> SUFFICES ASSUME g = <<>> PROVE FALSE
    OBVIOUS
  <2>1. Len(g) = 0
    OBVIOUS
  <2> QED
    BY <1>2, <2>1
<1>4. v \in Seq(Cmds)
  BY <1>2, <1>3, HeadTailProperties
<1>5. PICK a : Push(s, c, snap) = [undo |-> v, redo |-> <<>>, anchors |-> a]
  BY <1>2 DEF Push
<1> HIDE DEF v
<1>6. LogOf(Push(s, c, snap)) = v
  BY <1>4, <1>5, LogNoRedo
<1>7. Push(s, c, snap).undo = v
  BY <1>5
<1> QED
  BY <1>1, <1>6, <1>7 DEF v

LEMMA LogEmpty == LogOf(EmptyStack) = <<>> /\ Len(EmptyStack.undo) = 0
<1>1. <<>> \in Seq(Cmds) /\ Len(<<>>) = 0
  BY EmptySeq
<1> QED
  BY <1>1, LogNoRedo DEF EmptyStack

LEMMA LogSnapshot ==
  ASSUME NEW s, NEW i
  PROVE  /\ LogOf(EvictSnapshotAt(s, i)) = LogOf(s)
         /\ Len(EvictSnapshotAt(s, i).undo) = Len(s.undo)
  BY DEF LogOf, EvictSnapshotAt

LEMMA LogTyped ==
  ASSUME IInv, NEW k \in Keys
  PROVE  /\ Log[k] = LogOf(stacks[k]) /\ Cursor[k] = Len(stacks[k].undo)
         /\ stacks[k] \in StackOf(Cmds) /\ Depth(stacks[k]) <= MaxDepth
         /\ Cursor[k] \in Nat
         /\ Len(Log[k]) = Cursor[k] + Len(stacks[k].redo)
  BY StackOfKey, LogIndex, StackParts DEF Log, Cursor, IInv

(* One stack changes, and with it one history.                             *)
LEMMA LogReplaced ==
  ASSUME IInv, NEW k \in Keys, \A j \in Keys \ {k} : stacks'[j] = stacks[j]
  PROVE  /\ Log' = [Log EXCEPT ![k] = LogOf(stacks'[k])]
         /\ Cursor' = [Cursor EXCEPT ![k] = Len(stacks'[k].undo)]
  BY DEF Log, Cursor

LEMMA LogKept ==
  ASSUME stacks' = stacks
  PROVE  Log' = Log /\ Cursor' = Cursor
  BY DEF Log, Cursor

LEMMA HistoryRecord ==
  ASSUME IInv, Base, NEW c \in Cmds, Lands(c)
  PROVE  [History!Next]_<<Log, Cursor>>
<1> DEFINE k == HomeOf(cmd[c])
<1>1. /\ k \in Keys /\ stage[c] # "done"
      /\ \A j \in Keys \ {k} : stacks'[j] = stacks[j]
      /\ stacks'[k] = stacks[k] \/ \E snap : stacks'[k] = Push(stacks[k], c, snap)
  BY DEF Lands
<1> HIDE DEF k
<1>2. CASE stacks'[k] = stacks[k]
  <2>1. Log' = Log /\ Cursor' = Cursor
    BY <1>1, <1>2 DEF Log, Cursor
  <2> QED
    BY <2>1
<1>3. ASSUME NEW snap, stacks'[k] = Push(stacks[k], c, snap)
      PROVE  History!Record(k, c)
  <2> DEFINE past == SubSeq(Log[k], 1, Cursor[k])
             next == IF Cursor[k] + 1 > MaxDepth THEN Tail(Append(past, c))
                                                 ELSE Append(past, c)
  <2>1. LogOf(stacks'[k]) = next /\ Len(stacks'[k].undo) = Len(next)
    <3>1. /\ stacks[k] \in StackOf(Cmds)
          /\ Log[k] = LogOf(stacks[k]) /\ Cursor[k] = Len(stacks[k].undo)
      BY <1>1, LogTyped
    <3>2. LET p == SubSeq(LogOf(stacks[k]), 1, Len(stacks[k].undo))
              n == IF Len(stacks[k].undo) + 1 > MaxDepth THEN Tail(Append(p, c))
                                                         ELSE Append(p, c)
          IN  LogOf(Push(stacks[k], c, snap)) = n /\ Len(Push(stacks[k], c, snap).undo) = Len(n)
      BY <3>1, LogPush
    <3> QED
      BY <1>3, <3>1, <3>2
  <2>2. Log' = [Log EXCEPT ![k] = next] /\ Cursor' = [Cursor EXCEPT ![k] = Len(next)]
    BY <1>1, <2>1, LogReplaced
  <2>3. ASSUME NEW j \in Keys, NEW i \in DOMAIN Log[j] PROVE Log[j][i] # c
    <3>1. Log[j][i] \in Held(stacks[j])
      BY LogTyped, LogHeld
    <3> QED
      BY <1>1, <3>1, HeldDone
  <2> QED
    BY <2>2, <2>3 DEF History!Record
<1> QED
  BY <1>1, <1>2, <1>3 DEF History!Next

LEMMA HistoryBack ==
  ASSUME IInv, NEW k \in Keys, NEW c \in Cmds, MovesBack(k, c)
  PROVE  History!StepBack(k)
<1>1. /\ stacks[k].undo # <<>> /\ stacks'[k] = PopUndo(stacks[k])
      /\ \A j \in Keys \ {k} : stacks'[j] = stacks[j]
  BY DEF MovesBack, Moves
<1>2. LogOf(stacks'[k]) = Log[k] /\ Len(stacks'[k].undo) = Cursor[k] - 1
  BY <1>1, LogTyped, LogPopUndo
<1>3. Log' = [Log EXCEPT ![k] = Log[k]] /\ Cursor' = [Cursor EXCEPT ![k] = Cursor[k] - 1]
  BY <1>1, <1>2, LogReplaced
<1>4. Log' = Log
  BY <1>3 DEF Log
<1>5. Cursor[k] > 0
  BY <1>1, LogTyped, FrontIndex, StackParts
<1> QED
  BY <1>3, <1>4, <1>5 DEF History!StepBack

LEMMA HistoryForward ==
  ASSUME IInv, NEW k \in Keys, NEW c \in Cmds, MovesOn(k, c)
  PROVE  History!StepForward(k)
<1>1. /\ stacks[k].redo # <<>> /\ stacks'[k] = PopRedo(stacks[k])
      /\ \A j \in Keys \ {k} : stacks'[j] = stacks[j]
  BY DEF MovesOn, Moves
<1>2. LogOf(stacks'[k]) = Log[k] /\ Len(stacks'[k].undo) = Cursor[k] + 1
  BY <1>1, LogTyped, LogPopRedo
<1>3. Log' = [Log EXCEPT ![k] = Log[k]] /\ Cursor' = [Cursor EXCEPT ![k] = Cursor[k] + 1]
  BY <1>1, <1>2, LogReplaced
<1>4. Log' = Log
  BY <1>3 DEF Log
<1>5. Cursor[k] < Len(Log[k])
  <2>1. Len(stacks[k].redo) \in Nat /\ Len(stacks[k].redo) >= 1
    BY <1>1, LogTyped, FrontIndex, StackParts
  <2> QED
    BY <2>1, LogTyped
<1> QED
  BY <1>3, <1>4, <1>5 DEF History!StepForward

LEMMA HistoryForget ==
  ASSUME IInv, NEW K \in SUBSET Keys,
         \A k \in Keys : stacks'[k] = IF k \in K THEN EmptyStack ELSE stacks[k]
  PROVE  History!Forget
<1>1. /\ Log' = [k \in Keys |-> IF k \in K THEN <<>> ELSE Log[k]]
      /\ Cursor' = [k \in Keys |-> IF k \in K THEN 0 ELSE Cursor[k]]
  BY LogEmpty DEF Log, Cursor
<1> QED
  BY <1>1 DEF History!Forget

LEMMA HistoryEvict ==
  ASSUME IInv, Evict
  PROVE  [History!Next]_<<Log, Cursor>>
<1>1. stacks \in [Keys -> StackOf(Cmds)]
  BY DEF IInv, StacksOK
<1>2. CASE EvictSnapshot
  <2>1. PICK k \in mapped, i \in Slots :
          stacks' = [stacks EXCEPT ![k] = EvictSnapshotAt(stacks[k], i)]
    BY <1>2 DEF EvictSnapshot
  <2>2. /\ k \in Keys /\ stacks'[k] = EvictSnapshotAt(stacks[k], i)
        /\ \A j \in Keys \ {k} : stacks'[j] = stacks[j]
    BY <1>1, <2>1 DEF IInv, RestOK
  <2>3. LogOf(stacks'[k]) = LogOf(stacks[k]) /\ Len(stacks'[k].undo) = Len(stacks[k].undo)
    BY <2>2, LogSnapshot
  <2>4. \A j \in Keys : LogOf(stacks'[j]) = LogOf(stacks[j])
                        /\ Len(stacks'[j].undo) = Len(stacks[j].undo)
    BY <2>2, <2>3
  <2> QED
    BY <2>4 DEF Log, Cursor
<1>3. CASE EvictCommand
  <2>1. PICK k \in mapped :
           /\ k \in Keys /\ Len(stacks[k].undo) > Floor
           /\ stacks' = [stacks EXCEPT ![k] = ShiftOldestUndo(stacks[k])]
    BY <1>3, CommandDropped
  <2>2. /\ stacks'[k] = ShiftOldestUndo(stacks[k])
        /\ \A j \in Keys \ {k} : stacks'[j] = stacks[j]
    BY <1>1, <2>1
  <2>3. Cursor[k] > 0 /\ stacks[k].undo # <<>>
    <3>1. Floor \in Nat /\ Cursor[k] \in Nat /\ Cursor[k] > Floor
      BY <2>1, LogTyped, Parameters
    <3>2. Cursor[k] > 0 /\ Cursor[k] = Len(stacks[k].undo)
      BY <2>1, <3>1, LogTyped
    <3>3. stacks[k].undo # <<>>
      <4> SUFFICES ASSUME stacks[k].undo = <<>> PROVE FALSE
        OBVIOUS
      <4>1. Len(stacks[k].undo) = 0
        OBVIOUS
      <4> QED
        BY <3>2, <4>1
    <3> QED
      BY <3>2, <3>3
  <2>4. LogOf(stacks'[k]) = Tail(Log[k]) /\ Len(stacks'[k].undo) = Cursor[k] - 1
    BY <2>1, <2>2, <2>3, LogTyped, LogShift
  <2>5. Log' = [Log EXCEPT ![k] = Tail(Log[k])] /\ Cursor' = [Cursor EXCEPT ![k] = Cursor[k] - 1]
    BY <2>1, <2>2, <2>4, LogReplaced
  <2>6. History!DropOldest(k)
    BY <2>3, <2>5 DEF History!DropOldest
  <2> QED
    BY <2>1, <2>6 DEF History!Next
<1>4. CASE EvictionTick \/ SnapshotPassEnds \/ CommandPassEnds
  <2>1. stacks' = stacks
    BY <1>4 DEF EvictionTick, SnapshotPassEnds, CommandPassEnds
  <2> QED
    BY <2>1, LogKept
<1> QED
  BY <1>2, <1>3, <1>4 DEF Evict

LEMMA HistoryStep ==
  ASSUME IInv, Base, [Next]_vars
  PROVE  [History!Next]_<<Log, Cursor>>
<1>1. ASSUME NEW c \in Cmds, Handler(c) PROVE [History!Next]_<<Log, Cursor>>
  <2>1. stacks' = stacks \/ Lands(c)
    BY <1>1, HandlerMoves DEF Base, Advances, Returns
  <2> QED
    BY <2>1, LogKept, HistoryRecord
<1>2. ASSUME NEW t \in Tokens, Arrival(t) PROVE [History!Next]_<<Log, Cursor>>
  <2>1. ASSUME NEW c \in Cmds, NEW x \in Targets, Begins(c, t, x) PROVE stacks' = stacks
    BY <2>1, BeginFacts
  <2>2. ASSUME NEW d \in Docs, Undo(t, d) PROVE History!Next
    <3>1. PICK k \in Keys, c \in Cmds : MovesBack(k, c)
      BY <2>2, UndoMoves
    <3> QED
      BY <3>1, HistoryBack DEF History!Next
  <2>3. ASSUME NEW d \in Docs, Redo(t, d) PROVE History!Next
    <3>1. PICK k \in Keys, c \in Cmds : MovesOn(k, c)
      BY <2>3, UndoMoves
    <3> QED
      BY <3>1, HistoryForward DEF History!Next
  <2>4. ASSUME NEW d \in Docs, NoOp(t, d) PROVE stacks' = stacks
    BY <2>4 DEF NoOp
  <2>5. \/ \E c \in Cmds, x \in Targets : Begins(c, t, x)
        \/ \E d \in Docs : Undo(t, d) \/ Redo(t, d) \/ NoOp(t, d)
    BY <1>2 DEF Arrival, Begins
  <2> QED
    BY <2>1, <2>2, <2>3, <2>4, <2>5, LogKept
<1>3. ASSUME NEW t \in Tokens, Connection(t) PROVE [History!Next]_<<Log, Cursor>>
  <2>1. stacks' = stacks \/ \E K : Discard(K)
    BY <1>3 DEF Connection, Admit, Release, GraceExpires, Revoke
  <2>2. ASSUME NEW K, Discard(K) PROVE History!Forget
    <3>1. \A k \in Keys : stacks'[k] = IF k \in K \cap Keys THEN EmptyStack ELSE stacks[k]
      BY <2>2 DEF Discard
    <3> QED
      BY <3>1, HistoryForget
  <2> QED
    BY <2>1, <2>2, LogKept DEF History!Next
<1>4. CASE WindowPasses \/ UNCHANGED vars
  <2>1. stacks' = stacks
    BY <1>4 DEF WindowPasses, vars
  <2> QED
    BY <2>1, LogKept
<1>5. CASE Restart
  <2>1. \A k \in Keys : stacks'[k] = IF k \in Keys THEN EmptyStack ELSE stacks[k]
    BY <1>5 DEF Restart
  <2> QED
    BY <2>1, HistoryForget DEF History!Next
<1> QED
  BY <1>1, <1>2, <1>3, <1>4, <1>5, HistoryEvict DEF Next

(* Every execution of the undo system is an execution of one linear        *)
(* history per key: undo and redo only move the cursor, a new command cuts *)
(* what lies ahead of it and is nobody's already, bounds cost the oldest   *)
(* end alone, and the only other loss is that of whole histories.          *)
THEOREM HistoryImplemented == Spec => LinearHistorySpec
<1>1. Init => History!Init
  <2> SUFFICES ASSUME Init PROVE History!Init
    OBVIOUS
  <2>1. /\ Log = [k \in Keys |-> <<>>]
        /\ Cursor = [k \in Keys |-> 0]
    BY LogEmpty DEF Init, Log, Cursor
  <2> QED
    BY <2>1 DEF History!Init
<1>2. IInv /\ Base /\ [Next]_vars => [History!Next]_<<Log, Cursor>>
  BY HistoryStep
<1> QED
  BY <1>1, <1>2, InitIInv, StepIInv, BaseInit, BaseStep, PTL
     DEF Spec, LinearHistorySpec, History!Spec, History!hvars
=============================================================================
