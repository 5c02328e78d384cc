------------------------------ MODULE UndoStack ------------------------------
(***************************************************************************)
(* ClientDocumentStack (undo-redo/stack.ts): the undo and redo stacks of   *)
(* one (token, document) pair, with the snapshots anchored to positions of *)
(* the undo stack.  Everything here is a pure function on one stack; the   *)
(* manager that calls it is module UndoRedo.                               *)
(*                                                                         *)
(* A snapshot payload is opaque, so the snapshot list is kept as the       *)
(* number of snapshots anchored at each index of the undo array            *)
(* (anchor_undo_index, counted from 0 as in the code).                     *)
(***************************************************************************)
EXTENDS Integers, Sequences, FiniteSetsExt

CONSTANTS
  MaxDepth,        \* config.max_depth_per_client
  SnapshotEvery    \* config.snapshot_every_n

ASSUME StackConfig == /\ MaxDepth \in Nat
                      /\ SnapshotEvery \in Nat \ {0}

Slots == 0 .. MaxDepth - 1

NoSnapshots == [i \in Slots |-> 0]

EmptyStack == [undo |-> <<>>, redo |-> <<>>, anchors |-> NoSnapshots]

StackOf(C) == [undo : Seq(C), redo : Seq(C), anchors : [Slots -> Nat]]

(* The undo array lost its oldest command: every anchor moves down by one, *)
(* and the one that would leave the array is dropped.                      *)
Slide(anchors) ==
  [i \in Slots |-> IF i + 1 \in Slots THEN anchors[i + 1] ELSE 0]

(* The snapshot taken for a push is kept only on a cadence boundary.       *)
Anchor(anchors, len, snap) ==
  IF snap /\ len > 0 /\ len % SnapshotEvery = 0
  THEN [anchors EXCEPT ![len - 1] = @ + 1]
  ELSE anchors

(* Mutant of Push: the redo branch survives a new command.                 *)
PushKeepsRedo(s, c, snap) ==
  LET grown == Append(s.undo, c)
      full  == Len(grown) > MaxDepth
      undo  == IF full THEN Tail(grown) ELSE grown
      kept  == IF full THEN Slide(s.anchors) ELSE s.anchors
  IN  [undo |-> undo, redo |-> s.redo, anchors |-> Anchor(kept, Len(undo), snap)]

(* push: append, forget the redo branch, evict beyond the depth cap,       *)
(* anchor the snapshot the manager brought, if any.                        *)
Push(s, c, snap) ==
  LET grown == Append(s.undo, c)
      full  == Len(grown) > MaxDepth
      undo  == IF full THEN Tail(grown) ELSE grown
      kept  == IF full THEN Slide(s.anchors) ELSE s.anchors
  IN  [undo |-> undo, redo |-> <<>>, anchors |-> Anchor(kept, Len(undo), snap)]

Front1(q) == SubSeq(q, 1, Len(q) - 1)

(* popUndo and popRedo move the newest command across; neither looks at    *)
(* the anchors, and neither compares a length with the cap.                *)
PopUndo(s) == [undo    |-> Front1(s.undo),
               redo    |-> Append(s.redo, s.undo[Len(s.undo)]),
               anchors |-> s.anchors]

PopRedo(s) == [undo    |-> Append(s.undo, s.redo[Len(s.redo)]),
               redo    |-> Front1(s.redo),
               anchors |-> s.anchors]

ShiftOldestUndo(s) ==
  [undo |-> Tail(s.undo), redo |-> s.redo, anchors |-> Slide(s.anchors)]

EvictSnapshotAt(s, i) ==
  [undo |-> s.undo, redo |-> s.redo, anchors |-> [s.anchors EXCEPT ![i] = @ - 1]]

SnapshotCount(s) == MapThenSumSet(LAMBDA i : s.anchors[i], Slots)

(* maybeSnapshot's cadence test, made before the push it is for.           *)
DueForSnapshot(s) == (Len(s.undo) + 1) % SnapshotEvery = 0

Depth(s) == Len(s.undo) + Len(s.redo)

=============================================================================
