------------------------------ MODULE Blobs_proofs ------------------------------
(***************************************************************************)
(* Theorems of module Blobs, for every pool of blobs, items and layers.    *)
(* Types and the finality of a discard hold as they are.  That files match *)
(* rows and items keep their image rests on who may write a blob, and on   *)
(* a collector's selection staying clear of it until it is worked off;     *)
(* that layers keep their content, on items pointing at the layers that    *)
(* show their image.                                                       *)
(***************************************************************************)
EXTENDS Blobs, SequenceTheorems, TLAPS

(* A handler ends before its blob may count as an orphan, and the process  *)
(* does not end: FilesMatch and ItemsKeepImage do not survive either.      *)
Calm == ~Slow /\ ~Restarts

(* A paint under way has a command; its new blob exists from the write of  *)
(* the file on.                                                            *)
PenHolds ==
  /\ pen.at # "idle" => pen.cmd \in Commands
  /\ pen.new # None <=> pen.at = "file"

(* An item's image is the blob its fetch wrote.                            *)
ImagesFetched == \A i \in Items :
  /\ fetch[i].at = "no" <=> fetch[i].blob = None
  /\ Kept(i) => fetch[i].at = "done" /\ item[i].image = fetch[i].blob

(* A blob id is given out once.                                            *)
DrawnOnce ==
  /\ files \subseteq drawn
  /\ \A b \in Blobs : rows[b] # "none" => b \in drawn
  /\ \A i \in Items : fetch[i].blob \in drawn \cup {None}
  /\ pen.new \in drawn \cup {None}
  /\ bgc.pend \cup {bgc.cur} \subseteq drawn \cup {None}

(* A blob has one writer.                                                  *)
OneWriter ==
  /\ \A i, j \in Items : fetch[i].blob # None /\ fetch[i].blob = fetch[j].blob => i = j
  /\ \A i \in Items : pen.new # None => fetch[i].blob # pen.new

(* What a handler has in hand is on disk and too young for the collector.  *)
InHandYoung ==
  /\ \A i \in Items : /\ fetch[i].at = "file" => fetch[i].blob \in files /\ rows[fetch[i].blob] = "none"
                      /\ fetch[i].at = "row" => fetch[i].blob \in files /\ rows[fetch[i].blob] = "young"
  /\ pen.new # None => pen.new \in files /\ rows[pen.new] = "none"

(* The selection of BlobGc stays clear of the images and of the handlers.  *)
SelectionApart == \A b \in Blobs : b \in bgc.pend \/ b = bgc.cur =>
  ~InHand(b) /\ \A i \in Items : Kept(i) => item[i].image # b

(* HistoryGc works on items whose fetch is over.                           *)
SelectionDone == \A i \in Items : i \in hgc.pend \/ i = hgc.cur => fetch[i].at = "done"

(* The file of the blob a collector is about to delete is gone.            *)
FileFirst ==
  /\ bgc.cur \notin files
  /\ \A i \in Items : i = hgc.cur => fetch[i].blob \notin files

(* A collector that is off holds nothing.                                  *)
OffIdle ==
  /\ ~bgc.on => bgc.cur = None /\ bgc.pend = {}
  /\ hgc.phase = 0 => hgc.cur = None /\ hgc.pend = {}

Store == ImagesFetched /\ DrawnOnce /\ OneWriter /\ InHandYoung /\ SelectionApart
         /\ SelectionDone /\ FileFirst /\ OffIdle /\ FilesMatch /\ ItemsKeepImage

IInv == TypeOK /\ PenHolds /\ Store

-----------------------------------------------------------------------------
(* Types.                                                                  *)

ItemRow == [is : {"none", "kept", "gone"}, image : Blobs \cup {None},
            layer : Layers \cup {None}, thrown : {"no", "recent", "long"}, old : BOOLEAN]

(* The pointer is set or cleared in one item only.                         *)
LEMMA PointerType ==
  ASSUME NEW its \in [Items -> ItemRow], NEW i, NEW l \in Layers
  PROVE  /\ MarkApplied(its, i, l) \in [Items -> ItemRow]
         /\ UnmarkApplied(its, i, l) \in [Items -> ItemRow]
<1>1. ASSUME NEW r \in ItemRow
      PROVE  [r EXCEPT !.layer = l] \in ItemRow /\ [r EXCEPT !.layer = None] \in ItemRow
  BY DEF ItemRow
<1>2. [its EXCEPT ![i].layer = l] \in [Items -> ItemRow]
  BY <1>1
<1>3. [its EXCEPT ![i].layer = None] \in [Items -> ItemRow]
  BY <1>1
<1> QED
  BY <1>2, <1>3 DEF MarkApplied, UnmarkApplied

LEMMA UnsetType ==
  ASSUME NEW its \in [Items -> ItemRow], NEW b
  PROVE  Unset(its, b) \in [Items -> ItemRow]
<1>1. ASSUME NEW r \in ItemRow
      PROVE  [r EXCEPT !.image = None] \in ItemRow
  BY DEF ItemRow
<1> QED
  BY <1>1 DEF Unset

(* The stacks stay sequences of commands.                                  *)
LEMMA StackType ==
  ASSUME NEW s \in Seq(Commands), s # <<>>
  PROVE  Last(s) \in Commands /\ Pop(s) \in Seq(Commands)
<1>1. Len(s) \in Nat /\ Len(s) > 0
  OBVIOUS
<1>2. Pop(s) \in Seq(Commands)
  BY <1>1 DEF Pop
<1> QED
  BY <1>1, <1>2 DEF Last

FetchRun == [at : {"no", "file", "row", "done", "lost", "cut"}, blob : Blobs \cup {None}]

LEMMA FetchEdits ==
  ASSUME NEW f \in [Items -> FetchRun], NEW i \in Items
  PROVE  /\ f[i].blob \in Blobs \cup {None}
         /\ \A b \in Blobs : [f EXCEPT ![i] = [at |-> "file", blob |-> b]] \in [Items -> FetchRun]
         /\ [f EXCEPT ![i].at = "row"] \in [Items -> FetchRun]
         /\ [f EXCEPT ![i].at = "done"] \in [Items -> FetchRun]
         /\ [f EXCEPT ![i].at = "lost"] \in [Items -> FetchRun]
  BY DEF FetchRun

Typed == TypeOK /\ PenHolds

(* The output fetcher.                                                     *)
LEMMA FetcherTyped ==
  ASSUME Typed, NEW i \in Items, Fetcher(i)
  PROVE  Typed'
<1> USE DEF Typed, canvas, stacks, store
<1>0. fetch \in [Items -> FetchRun] /\ item \in [Items -> ItemRow]
  BY DEF TypeOK, FetchRun, ItemRow
<1>1. CASE \E b \in Blobs : FetchFile(i, b)
  <2>1. PICK b \in Blobs : FetchFile(i, b)
    BY <1>1
  <2>2. fetch' \in [Items -> FetchRun]
    BY <1>0, <2>1, FetchEdits DEF FetchFile
  <2> QED
    BY <2>1, <2>2 DEF FetchFile, WriteFile, TypeOK, PenHolds, FetchRun
<1>2. CASE FetchRow(i)
  <2>1. fetch' \in [Items -> FetchRun]
    BY <1>0, <1>2, FetchEdits DEF FetchRow
  <2>2. rows' \in [Blobs -> {"none", "young", "old"}]
    BY <1>2 DEF FetchRow, WriteRow, TypeOK
  <2> QED
    BY <1>2, <2>1, <2>2 DEF FetchRow, WriteRow, TypeOK, PenHolds, FetchRun
<1>3. CASE FetchItem(i)
  <2>1. fetch[i].blob \in Blobs \cup {None}
    BY <1>0, FetchEdits
  <2>2. [NoItem EXCEPT !.is = "kept", !.image = fetch[i].blob] \in ItemRow
    BY <2>1 DEF NoItem, ItemRow
  <2>3. item' \in [Items -> ItemRow]
    BY <1>0, <1>3, <2>2 DEF FetchItem
  <2>4. fetch' \in [Items -> FetchRun]
    <3>1. fetch' = [fetch EXCEPT ![i].at = "lost"] \/ fetch' = [fetch EXCEPT ![i].at = "done"]
      BY <1>3 DEF FetchItem
    <3>2. CASE fetch' = [fetch EXCEPT ![i].at = "lost"]
      BY <1>0, <3>2, FetchEdits
    <3>3. CASE fetch' = [fetch EXCEPT ![i].at = "done"]
      BY <1>0, <3>3, FetchEdits
    <3> QED
      BY <3>1, <3>2, <3>3
  <2> QED
    BY <1>3, <2>3, <2>4 DEF FetchItem, TypeOK, PenHolds, ItemRow, FetchRun
<1> QED
  BY <1>1, <1>2, <1>3 DEF Fetcher

(* The history tools.                                                      *)
LEMMA ToolsTyped ==
  ASSUME Typed, NEW i \in Items, Discard(i) \/ ItemAges(i) \/ \E l \in Fresh : Apply(i, l)
  PROVE  Typed'
<1> USE DEF Typed, canvas, stacks, store
<1>1. item \in [Items -> ItemRow]
  BY DEF TypeOK, ItemRow
<1>2. CASE Discard(i) \/ ItemAges(i)
  <2>0. /\ [item[i] EXCEPT !.thrown = "recent"] \in ItemRow
        /\ [item[i] EXCEPT !.thrown = "long"] \in ItemRow
        /\ [item[i] EXCEPT !.old = TRUE] \in ItemRow
    BY <1>1 DEF ItemRow
  <2>1. item' \in [Items -> ItemRow]
    BY <1>1, <1>2, <2>0 DEF Discard, ItemAges
  <2> QED
    BY <1>2, <2>1 DEF Discard, ItemAges, TypeOK, PenHolds, ItemRow
<1>3. CASE \E l \in Fresh : Apply(i, l)
  <2>1. PICK l \in Fresh : Apply(i, l)
    BY <1>3
  <2>2. l \in Layers
    BY DEF Layers
  <2>3. item' \in [Items -> ItemRow]
    BY <1>1, <2>1, <2>2, PointerType DEF Apply
  <2>4. item[i].image \in Blobs \cup {None}
    BY <1>1 DEF ItemRow
  <2> DEFINE c == [kind |-> "apply", layer |-> l, blob |-> item[i].image, item |-> i]
  <2>7. c \in Commands
    BY <2>2, <2>4 DEF Commands
  <2>8. undo' = Append(undo, c) /\ redo' = <<>>
    BY <2>1 DEF Apply
  <2> HIDE DEF c
  <2>5. undo' \in Seq(Commands) /\ redo' \in Seq(Commands)
    BY <2>7, <2>8, AppendProperties, EmptySeq DEF TypeOK
  <2>6. born' \in SUBSET Layers /\ live' \in SUBSET Layers /\ content' \in [Layers -> Blobs \cup {None}]
    BY <2>1, <2>2, <2>4 DEF Apply, Insert, TypeOK
  <2> QED
    BY <2>1, <2>3, <2>5, <2>6 DEF Apply, TypeOK, PenHolds, ItemRow
<1> QED
  BY <1>2, <1>3

LEMMA PaintTyped ==
  ASSUME Typed, (\E l \in Layers : Paint(l)) \/ Painting
  PROVE  Typed'
<1> USE DEF Typed, canvas, stacks, store
<1>1. CASE \E l \in Layers : Paint(l)
  <2>1. PICK l \in Layers : Paint(l)
    BY <1>1
  <2>2. content[l] \in Blobs \cup {None}
    BY DEF TypeOK
  <2> DEFINE c == [kind |-> "paint", layer |-> l, blob |-> content[l], item |-> None]
  <2>3. c \in Commands
    BY <2>2 DEF Commands
  <2>4. pen' = [at |-> "read", cmd |-> c, new |-> None, again |-> FALSE]
    BY <2>1 DEF Paint
  <2> HIDE DEF c
  <2> QED
    BY <2>1, <2>3, <2>4 DEF Paint, TypeOK, PenHolds
<1>2. CASE PaintFails
  BY <1>2 DEF PaintFails, Resting, TypeOK, PenHolds
<1>3. CASE \E b \in Blobs : PaintFile(b)
  <2>1. PICK b \in Blobs : PaintFile(b)
    BY <1>3
  <2> QED
    BY <2>1, BlobParameters DEF PaintFile, WriteFile, TypeOK, PenHolds
<1>4. CASE PaintDone
  <2>1. pen.cmd \in Commands
    BY <1>4 DEF PaintDone, PenHolds
  <2>2. undo' \in Seq(Commands) /\ redo' \in Seq(Commands)
    <3>1. undo \in Seq(Commands) /\ redo \in Seq(Commands)
      BY DEF TypeOK
    <3>2. CASE pen.again
      BY <1>4, <3>1, <3>2 DEF PaintDone
    <3>3. CASE ~pen.again
      <4>1. undo' = Append(undo, pen.cmd) /\ redo' = <<>>
        BY <1>4, <3>3 DEF PaintDone
      <4> QED
        BY <2>1, <3>1, <4>1, AppendProperties, EmptySeq
    <3> QED
      BY <3>2, <3>3
  <2>3. content' \in [Layers -> Blobs \cup {None}]
    BY <1>4 DEF PaintDone, TypeOK
  <2> QED
    BY <1>4, <2>2, <2>3 DEF PaintDone, WriteRow, Resting, TypeOK, PenHolds
<1> QED
  BY <1>1, <1>2, <1>3, <1>4 DEF Painting
(* Undo and redo.                                                          *)
LEMMA StepTyped ==
  ASSUME Typed, NEW c, Step(c)
  PROVE  Typed'
<1> USE DEF Typed, canvas, stacks, store
<1>0. item \in [Items -> ItemRow] /\ undo \in Seq(Commands) /\ redo \in Seq(Commands)
  BY DEF TypeOK, ItemRow
<1>1. c \in Commands
  <2>1. UndoPaint(c) \/ UndoApply(c) => undo # <<>> /\ c = Last(undo)
    BY DEF UndoPaint, UndoApply, Undoing
  <2>2. RedoPaint(c) \/ RedoApplyFails(c) => redo # <<>> /\ c = Last(redo)
    BY DEF RedoPaint, RedoApplyFails, Redoing
  <2>3. ASSUME NEW l \in Fresh, RedoApply(c, l) PROVE redo # <<>> /\ c = Last(redo)
    BY <2>3 DEF RedoApply, Redoing
  <2> QED
    BY <1>0, <2>1, <2>2, <2>3, StackType DEF Step
<1>2. c.layer \in Layers /\ c.blob \in Blobs \cup {None}
  BY <1>1 DEF Commands
<1>3. Append(undo, c) \in Seq(Commands) /\ Append(redo, c) \in Seq(Commands)
  BY <1>0, <1>1, AppendProperties
<1>4. CASE UndoPaint(c)
  <2>1. undo' \in Seq(Commands) /\ redo' \in Seq(Commands)
    BY <1>0, <1>3, <1>4, StackType DEF UndoPaint, Undoing
  <2>2. content' \in [Layers -> Blobs \cup {None}]
    BY <1>2, <1>4 DEF UndoPaint, TypeOK
  <2>3. exposed' \in SUBSET (Blobs \cup {None})
    BY <1>2, <1>4 DEF UndoPaint, TypeOK
  <2> QED
    BY <1>4, <2>1, <2>2, <2>3 DEF UndoPaint, Undoing, TypeOK, PenHolds
<1>5. CASE UndoApply(c)
  <2>1. undo' \in Seq(Commands) /\ redo' \in Seq(Commands)
    BY <1>0, <1>3, <1>5, StackType DEF UndoApply, Undoing
  <2>2. content' \in [Layers -> Blobs \cup {None}]
    BY <1>2, <1>5 DEF UndoApply, TypeOK
  <2>3. item' \in [Items -> ItemRow]
    BY <1>0, <1>2, <1>5, PointerType DEF UndoApply
  <2> QED
    BY <1>5, <2>1, <2>2, <2>3 DEF UndoApply, Undoing, TypeOK, PenHolds, ItemRow
<1>6. CASE RedoPaint(c)
  <2>1. undo' \in Seq(Commands) /\ redo' \in Seq(Commands)
    BY <1>0, <1>3, <1>6, StackType DEF RedoPaint, Redoing
  <2> QED
    BY <1>1, <1>6, <2>1 DEF RedoPaint, Redoing, TypeOK, PenHolds
<1>7. CASE RedoApplyFails(c)
  <2>1. undo' \in Seq(Commands) /\ redo' \in Seq(Commands)
    BY <1>0, <1>3, <1>7, StackType DEF RedoApplyFails, Redoing
  <2> QED
    BY <1>7, <2>1 DEF RedoApplyFails, Redoing, TypeOK, PenHolds
<1>8. CASE \E l \in Fresh : RedoApply(c, l)
  <2>1. PICK l \in Fresh : RedoApply(c, l)
    BY <1>8
  <2>2. l \in Layers
    BY DEF Layers
  <2> DEFINE d == [c EXCEPT !.layer = l]
  <2>3. d \in Commands
    BY <1>1, <2>2 DEF Commands
  <2>4. undo' = Append(undo, d) /\ redo' = Pop(redo)
    BY <2>1 DEF RedoApply, Redoing
  <2> HIDE DEF d
  <2>5. undo' \in Seq(Commands) /\ redo' \in Seq(Commands)
    BY <1>0, <2>1, <2>3, <2>4, StackType, AppendProperties DEF RedoApply, Redoing
  <2>6. item' \in [Items -> ItemRow]
    BY <1>0, <2>1, <2>2, PointerType DEF RedoApply
  <2>7. born' \in SUBSET Layers /\ live' \in SUBSET Layers /\ content' \in [Layers -> Blobs \cup {None}]
    BY <1>2, <2>1, <2>2 DEF RedoApply, Insert, TypeOK
  <2>8. exposed' \in SUBSET (Blobs \cup {None})
    BY <1>2, <2>1 DEF RedoApply, TypeOK
  <2> QED
    BY <2>1, <2>5, <2>6, <2>7, <2>8 DEF RedoApply, TypeOK, PenHolds, ItemRow
<1> QED
  BY <1>4, <1>5, <1>6, <1>7, <1>8 DEF Step

(* The collectors.                                                         *)
LEMMA DeleteTyped ==
  ASSUME TypeOK, NEW b, DeleteRow(b)
  PROVE  /\ rows' \in [Blobs -> {"none", "young", "old"}]
         /\ content' \in [Layers -> Blobs \cup {None}]
  BY DEF DeleteRow, TypeOK

LEMMA BlobGcTyped ==
  ASSUME Typed, BlobGcStart \/ BlobGcStep
  PROVE  Typed'
<1> USE DEF Typed, canvas, stacks, store
<1>1. CASE BlobGcStart
  <2>1. Orphans \in SUBSET Blobs
    BY DEF Orphans
  <2> QED
    BY <1>1, <2>1 DEF BlobGcStart, TypeOK, PenHolds
<1>2. CASE \E b \in Blobs : BlobGcUnlink(b)
  <2>1. PICK b \in Blobs : BlobGcUnlink(b)
    BY <1>2
  <2> QED
    BY <2>1 DEF BlobGcUnlink, TypeOK, PenHolds
<1>3. CASE BlobGcDelete
  <2>1. item' \in [Items -> ItemRow]
    BY <1>3, UnsetType DEF BlobGcDelete, TypeOK, ItemRow
  <2>2. bgc' \in [on : BOOLEAN, pend : SUBSET Blobs, cur : Blobs \cup {None}]
    BY <1>3 DEF BlobGcDelete, TypeOK
  <2>3. /\ rows' \in [Blobs -> {"none", "young", "old"}]
        /\ content' \in [Layers -> Blobs \cup {None}]
    BY <1>3, DeleteTyped DEF BlobGcDelete
  <2> QED
    BY <1>3, <2>1, <2>2, <2>3 DEF BlobGcDelete, DeleteRow, TypeOK, PenHolds, ItemRow
<1> QED
  BY <1>1, <1>2, <1>3 DEF BlobGcStep

HistoryRun == [phase : 0..3, pend : SUBSET Items, cur : Items \cup {None}]

LEMMA HistoryRunEdits ==
  ASSUME NEW h \in HistoryRun, NEW s \in SUBSET Items
  PROVE  /\ [phase |-> 1, pend |-> s, cur |-> None] \in HistoryRun
         /\ [h EXCEPT !.phase = 2, !.pend = s] \in HistoryRun
         /\ [h EXCEPT !.phase = 3, !.pend = s] \in HistoryRun
         /\ \A i \in Items : [h EXCEPT !.pend = s, !.cur = i] \in HistoryRun
         /\ [h EXCEPT !.cur = None] \in HistoryRun
         /\ HistoryGcOff \in HistoryRun
<1> USE DEF HistoryRun
<1>1. [phase |-> 1, pend |-> s, cur |-> None] \in HistoryRun /\ HistoryGcOff \in HistoryRun
  BY DEF HistoryGcOff
<1>2. \A p \in 0..3 : [h EXCEPT !.phase = p, !.pend = s] \in HistoryRun
  OBVIOUS
<1>3. 2 \in 0..3 /\ 3 \in 0..3
  OBVIOUS
<1>4. \A i \in Items : [h EXCEPT !.pend = s, !.cur = i] \in HistoryRun
  OBVIOUS
<1>5. [h EXCEPT !.cur = None] \in HistoryRun
  OBVIOUS
<1> QED
  BY <1>1, <1>2, <1>3, <1>4, <1>5

LEMMA HistoryGcTyped ==
  ASSUME Typed, HistoryGcStart \/ HistoryGcStep
  PROVE  Typed'
<1> USE DEF Typed, canvas, stacks, store
<1>0. hgc \in HistoryRun /\ item \in [Items -> ItemRow]
  BY DEF TypeOK, HistoryRun, ItemRow
<1>1. LongGone \in SUBSET Items /\ Expired \in SUBSET Items /\ Unreferenced \in SUBSET Items
  BY DEF LongGone, Expired, Unreferenced
<1>2. CASE HistoryGcStart
  <2>1. hgc' \in HistoryRun
    BY <1>0, <1>1, <1>2, HistoryRunEdits DEF HistoryGcStart
  <2> QED
    BY <1>2, <2>1 DEF HistoryGcStart, TypeOK, PenHolds, HistoryRun
<1>3. CASE HistoryGcNext
  <2>1. \/ hgc' = [hgc EXCEPT !.phase = 2, !.pend = Expired]
        \/ hgc' = [hgc EXCEPT !.phase = 3, !.pend = Unreferenced]
        \/ hgc' = HistoryGcOff
    BY <1>3 DEF HistoryGcNext
  <2>2. hgc' \in HistoryRun
    BY <1>0, <1>1, <2>1, HistoryRunEdits
  <2> QED
    BY <1>3, <2>2 DEF HistoryGcNext, TypeOK, PenHolds, HistoryRun
<1>4. CASE \E i \in Items : HistoryGcUnlink(i)
  <2>1. PICK i \in Items : HistoryGcUnlink(i)
    BY <1>4
  <2>2. hgc.pend \ {i} \in SUBSET Items
    BY <1>0 DEF HistoryRun
  <2>3. hgc' \in HistoryRun
    BY <1>0, <2>1, <2>2, HistoryRunEdits DEF HistoryGcUnlink
  <2> QED
    BY <2>1, <2>3 DEF HistoryGcUnlink, TypeOK, PenHolds, HistoryRun
<1>5. CASE HistoryGcDelete
  <2>1. hgc' = HistoryGcOff \/ hgc' = [hgc EXCEPT !.cur = None]
    BY <1>5 DEF HistoryGcDelete
  <2>2. hgc' \in HistoryRun
    BY <1>0, <2>1, HistoryRunEdits
  <2>3. [NoItem EXCEPT !.is = "gone"] \in ItemRow
    BY DEF NoItem, ItemRow
  <2>4. item' \in [Items -> ItemRow]
    BY <1>0, <1>5, <2>3 DEF HistoryGcDelete
  <2>5. /\ rows' \in [Blobs -> {"none", "young", "old"}]
        /\ content' \in [Layers -> Blobs \cup {None}]
    BY <1>5, DeleteTyped DEF HistoryGcDelete
  <2> QED
    BY <1>5, <2>2, <2>4, <2>5 DEF HistoryGcDelete, DeleteRow, TypeOK, PenHolds, HistoryRun, ItemRow
<1> QED
  BY <1>2, <1>3, <1>4, <1>5 DEF HistoryGcStep

LEMMA RestartTyped ==
  ASSUME Typed, Restart
  PROVE  Typed'
<1> USE DEF Typed, canvas, stacks, store
<1>0. fetch \in [Items -> FetchRun] /\ item \in [Items -> ItemRow]
  BY DEF TypeOK, FetchRun, ItemRow
<1>1. fetch' \in [Items -> FetchRun]
  <2>1. \A i \in Items : fetch[i] \in FetchRun /\ [fetch[i] EXCEPT !.at = "cut"] \in FetchRun
    BY <1>0 DEF FetchRun
  <2> QED
    BY <2>1 DEF Restart
<1>2. item' \in [Items -> ItemRow]
  <2>1. \A i \in Items : item[i] \in ItemRow /\ [item[i] EXCEPT !.thrown = "recent"] \in ItemRow
    BY <1>0 DEF ItemRow
  <2> QED
    BY <2>1 DEF Restart
<1>3. undo' \in Seq(Commands) /\ redo' \in Seq(Commands)
  BY EmptySeq DEF Restart
<1>4. BlobGcOff \in [on : BOOLEAN, pend : SUBSET Blobs, cur : Blobs \cup {None}]
  BY DEF BlobGcOff
<1>5. HistoryGcOff \in HistoryRun
  BY DEF HistoryGcOff, HistoryRun
<1> QED
  BY <1>1, <1>2, <1>3, <1>4, <1>5 DEF Restart, Resting, TypeOK, PenHolds, FetchRun, ItemRow, HistoryRun

LEMMA NextTyped ==
  ASSUME Typed, [Next]_vars
  PROVE  Typed'
<1>1. ASSUME NEW b \in Blobs, BlobAges(b)
      PROVE  Typed'
  BY <1>1 DEF BlobAges, Typed, TypeOK, PenHolds, canvas, stacks
<1>2. CASE UNCHANGED vars
  BY <1>2 DEF vars, Typed, TypeOK, PenHolds
<1>3. ASSUME NEW i \in Items, Fetcher(i) \/ Discard(i) \/ ItemAges(i) \/ \E l \in Fresh : Apply(i, l)
      PROVE  Typed'
  BY <1>3, FetcherTyped, ToolsTyped
<1>4. CASE (\E l \in Layers : Paint(l)) \/ Painting
  BY <1>4, PaintTyped
<1>5. CASE undo # <<>> /\ Step(Last(undo))
  BY <1>5, StepTyped
<1>6. CASE redo # <<>> /\ Step(Last(redo))
  BY <1>6, StepTyped
<1>7. CASE BlobGcStart \/ BlobGcStep \/ HistoryGcStart \/ HistoryGcStep
  BY <1>7, BlobGcTyped, HistoryGcTyped
<1>8. CASE Restart
  BY <1>8, RestartTyped
<1> QED
  BY <1>1, <1>2, <1>3, <1>4, <1>5, <1>6, <1>7, <1>8 DEF Next

LEMMA InitTyped == Init => Typed
<1>1. <<>> \in Seq(Commands)
  BY EmptySeq
<1> QED
  BY <1>1 DEF Init, Typed, TypeOK, PenHolds, NoItem, Resting, BlobGcOff, HistoryGcOff, Layers

(* Each variable keeps the type the code gives it.                         *)
THEOREM TypeCorrect == Spec => []TypeOK
<1>1. Init => Typed
  BY InitTyped
<1>2. Typed /\ [Next]_vars => Typed'
  BY NextTyped
<1>3. Typed => TypeOK
  BY DEF Typed
<1> QED
  BY <1>1, <1>2, <1>3, PTL DEF Spec

-----------------------------------------------------------------------------
(* A discarded item.                                                       *)

LayerKept(i) == Kept(i) /\ item[i].thrown # "no" => item'[i].layer \in {item[i].layer, None}

LEMMA PointerKept ==
  ASSUME TypeOK, NEW i \in Items, NEW j, NEW l,
         item' = MarkApplied(item, j, l) \/ item' = UnmarkApplied(item, j, l)
  PROVE  LayerKept(i)
<1>1. item[i] \in ItemRow /\ item \in [Items -> ItemRow]
  BY DEF TypeOK, ItemRow
<1>2. CASE i = j
  BY <1>1, <1>2 DEF MarkApplied, UnmarkApplied, LayerKept, ItemRow
<1>3. CASE i # j
  BY <1>1, <1>3 DEF MarkApplied, UnmarkApplied, LayerKept
<1> QED
  BY <1>2, <1>3

LEMMA DiscardStep ==
  ASSUME TypeOK, Next, NEW i \in Items
  PROVE  LayerKept(i)
<1> USE DEF canvas, stacks, store
<1>0. item \in [Items -> ItemRow]
  BY DEF TypeOK, ItemRow
<1>1. ASSUME item' = item
      PROVE  LayerKept(i)
  BY <1>1 DEF LayerKept
<1>2. ASSUME NEW j \in Items, Fetcher(j)
      PROVE  LayerKept(i)
  <2>1. CASE FetchItem(j)
    BY <1>0, <2>1 DEF FetchItem, NoItem, LayerKept, ItemRow
  <2> QED
    BY <1>1, <1>2, <2>1 DEF Fetcher, FetchFile, FetchRow
<1>3. ASSUME NEW j \in Items, Discard(j) \/ ItemAges(j)
      PROVE  LayerKept(i)
  BY <1>0, <1>3 DEF Discard, ItemAges, LayerKept, ItemRow
<1>4. ASSUME NEW j \in Items, NEW l \in Fresh, Apply(j, l)
      PROVE  LayerKept(i)
  BY <1>4, PointerKept DEF Apply
<1>5. CASE (\E l \in Layers : Paint(l)) \/ Painting
  BY <1>1, <1>5 DEF Paint, Painting, PaintFails, PaintFile, PaintDone
<1>6. ASSUME NEW c, Step(c)
      PROVE  LayerKept(i)
  <2>1. CASE UndoApply(c)
    BY <2>1, PointerKept DEF UndoApply
  <2>2. CASE \E l \in Fresh : RedoApply(c, l)
    BY <2>2, PointerKept DEF RedoApply
  <2> QED
    BY <1>1, <1>6, <2>1, <2>2 DEF Step, UndoPaint, RedoPaint, RedoApplyFails
<1>7. CASE BlobGcStart \/ BlobGcStep
  <2>1. CASE BlobGcDelete
    BY <1>0, <2>1 DEF BlobGcDelete, Unset, LayerKept, ItemRow
  <2> QED
    BY <1>1, <1>7, <2>1 DEF BlobGcStep, BlobGcStart, BlobGcUnlink
<1>8. CASE HistoryGcStart \/ HistoryGcStep
  <2>1. CASE HistoryGcDelete
    BY <1>0, <2>1 DEF HistoryGcDelete, NoItem, LayerKept, ItemRow
  <2> QED
    BY <1>1, <1>8, <2>1 DEF HistoryGcStep, HistoryGcStart, HistoryGcNext, HistoryGcUnlink
<1>9. CASE Restart
  BY <1>0, <1>9 DEF Restart, LayerKept, ItemRow
<1>10. CASE \E b \in Blobs : BlobAges(b)
  BY <1>1, <1>10 DEF BlobAges
<1> QED
  BY <1>2, <1>3, <1>4, <1>5, <1>6, <1>7, <1>8, <1>9, <1>10 DEF Next

(* A discarded item is attached to no other layer, whatever is undone,     *)
(* redone or collected meanwhile.                                          *)
THEOREM DiscardsStick == Spec => DiscardFinal
<1>1. TypeOK /\ [Next]_vars =>
        [\A i \in Items : Kept(i) /\ item[i].thrown # "no" => item'[i].layer \in {item[i].layer, None}]_vars
  BY DiscardStep DEF LayerKept
<1> QED
  BY <1>1, TypeCorrect, PTL DEF Spec, DiscardFinal

-----------------------------------------------------------------------------
(* Files, rows and images.                                                 *)

LEMMA InitStore == Init => Store
  BY BlobParameters DEF Init, Store, ImagesFetched, DrawnOnce, OneWriter, InHandYoung, SelectionApart, SelectionDone,
     FileFirst, OffIdle, FilesMatch, ItemsKeepImage, Kept, InHand, NoItem, Resting, BlobGcOff, HistoryGcOff

(* What a step may change without touching the store.                      *)
LEMMA StoreUntouched ==
  ASSUME Store, UNCHANGED <<files, rows, drawn, fetch, bgc, hgc>>, pen'.new = pen.new,
         \A i \in Items : item'[i].is = item[i].is /\ item'[i].image = item[i].image
  PROVE  Store'
  BY DEF Store, ImagesFetched, DrawnOnce, OneWriter, InHandYoung, SelectionApart, SelectionDone,
     FileFirst, OffIdle, FilesMatch, ItemsKeepImage, Kept, InHand

LEMMA PointerOnly ==
  ASSUME TypeOK, NEW j, NEW l, NEW i \in Items,
         item' = MarkApplied(item, j, l) \/ item' = UnmarkApplied(item, j, l)
  PROVE  item'[i].is = item[i].is /\ item'[i].image = item[i].image
<1>1. item[i] \in ItemRow /\ item \in [Items -> ItemRow]
  BY DEF TypeOK, ItemRow
<1>2. CASE i = j
  BY <1>1, <1>2 DEF MarkApplied, UnmarkApplied, ItemRow
<1>3. CASE i # j
  BY <1>1, <1>3 DEF MarkApplied, UnmarkApplied
<1> QED
  BY <1>2, <1>3

(* Applying, discarding, ageing, reading, undo and redo.                   *)
LEMMA EditsKeepStore ==
  ASSUME IInv,
         \/ \E i \in Items : Discard(i) \/ ItemAges(i) \/ \E l \in Fresh : Apply(i, l)
         \/ (\E l \in Layers : Paint(l)) \/ PaintFails
         \/ \E c : Step(c)
  PROVE  Store'
<1> USE DEF IInv, canvas, stacks, store
<1>0. item \in [Items -> ItemRow]
  BY DEF TypeOK, ItemRow
<1>1. ASSUME NEW i \in Items, Discard(i) \/ ItemAges(i)
      PROVE  Store'
  <2>1. \A j \in Items : item'[j].is = item[j].is /\ item'[j].image = item[j].image
    BY <1>0, <1>1 DEF Discard, ItemAges, ItemRow
  <2> QED
    BY <1>1, <2>1, StoreUntouched DEF Discard, ItemAges
<1>2. ASSUME NEW i \in Items, NEW l \in Fresh, Apply(i, l)
      PROVE  Store'
  <2>1. \A j \in Items : item'[j].is = item[j].is /\ item'[j].image = item[j].image
    BY <1>2, PointerOnly DEF Apply
  <2> QED
    BY <1>2, <2>1, StoreUntouched DEF Apply
<1>3. CASE (\E l \in Layers : Paint(l)) \/ PaintFails
  <2>1. pen.new = None
    BY <1>3 DEF Paint, PaintFails, PenHolds
  <2>2. pen'.new = None
    BY <1>3 DEF Paint, PaintFails, Resting
  <2> QED
    BY <1>3, <2>1, <2>2, StoreUntouched DEF Paint, PaintFails
<1>4. ASSUME NEW c, UndoPaint(c) \/ RedoApplyFails(c)
      PROVE  Store'
  BY <1>4, StoreUntouched DEF UndoPaint, RedoApplyFails, Undoing
<1>5. ASSUME NEW c, UndoApply(c)
      PROVE  Store'
  <2>1. \A j \in Items : item'[j].is = item[j].is /\ item'[j].image = item[j].image
    BY <1>5, PointerOnly DEF UndoApply
  <2> QED
    BY <1>5, <2>1, StoreUntouched DEF UndoApply, Undoing
<1>6. ASSUME NEW c, RedoPaint(c)
      PROVE  Store'
  <2>1. pen.new = None
    BY <1>6 DEF RedoPaint, PenHolds
  <2>2. pen'.new = None
    BY <1>6 DEF RedoPaint
  <2> QED
    BY <1>6, <2>1, <2>2, StoreUntouched DEF RedoPaint
<1>7. ASSUME NEW c, NEW l \in Fresh, RedoApply(c, l)
      PROVE  Store'
  <2>1. \A j \in Items : item'[j].is = item[j].is /\ item'[j].image = item[j].image
    BY <1>7, PointerOnly DEF RedoApply
  <2> QED
    BY <1>7, <2>1, StoreUntouched DEF RedoApply
<1> QED
  BY <1>1, <1>2, <1>3, <1>4, <1>5, <1>6, <1>7 DEF Step

(* A new file.                                                             *)
LEMMA FetchFileStore ==
  ASSUME IInv, NEW i \in Items, NEW b \in Blobs, FetchFile(i, b)
  PROVE  Store'
<1> USE DEF IInv, Store, canvas, stacks
<1>1. /\ fetch'[i].at = "file" /\ fetch'[i].blob = b
      /\ \A j \in Items : j # i => fetch'[j] = fetch[j]
  BY DEF FetchFile, TypeOK
<1>2. /\ files' = files \cup {b} /\ drawn' = drawn \cup {b} /\ b \notin drawn /\ rows' = rows
      /\ pen' = pen /\ bgc' = bgc /\ hgc' = hgc /\ item' = item /\ fetch[i].at = "no" /\ b # None
  BY BlobParameters DEF FetchFile, WriteFile
<1>3. rows[b] = "none" /\ b # pen.new /\ b \notin bgc.pend /\ b # bgc.cur
  BY <1>2 DEF DrawnOnce
<1>4. \A j \in Items : fetch[j].blob # b
  BY <1>2 DEF DrawnOnce
<1>5. ImagesFetched' /\ DrawnOnce' /\ OneWriter'
  BY <1>1, <1>2, <1>3, <1>4 DEF ImagesFetched, DrawnOnce, OneWriter, Kept
<1>6. InHandYoung' /\ FileFirst' /\ SelectionDone' /\ OffIdle'
  BY <1>1, <1>2, <1>3, <1>4 DEF InHandYoung, FileFirst, SelectionDone, OffIdle
<1>7. SelectionApart'
  BY <1>1, <1>2, <1>3, <1>4 DEF SelectionApart, InHand, Kept
<1>8. FilesMatch'
  <2>1. \A j \in Items : fetch'[j].blob = fetch[j].blob \/ j = i
    BY <1>1
  <2>2. hgc.cur # i
    BY <1>2 DEF SelectionDone
  <2>3. ASSUME NEW c \in Blobs, rows'[c] # "none", c \notin files'
        PROVE  bgc'.cur = c \/ (hgc'.cur # None /\ fetch'[hgc'.cur].blob = c)
    <3>1. bgc.cur = c \/ (hgc.cur # None /\ fetch[hgc.cur].blob = c)
      BY <1>2, <2>3 DEF FilesMatch
    <3>2. hgc.cur \in Items \cup {None}
      BY DEF TypeOK
    <3>3. hgc.cur # None => fetch'[hgc.cur] = fetch[hgc.cur]
      BY <1>1, <2>2, <3>2
    <3> QED
      BY <1>2, <3>1, <3>3
  <2>4. ASSUME NEW c \in files', rows'[c] = "none"
        PROVE  pen'.new = c \/ \E j \in Items : fetch'[j].blob = c /\ fetch'[j].at = "file"
    <3>1. CASE c = b
      BY <1>1, <3>1
    <3>2. CASE c # b
      <4>1. pen.new = c \/ \E j \in Items : fetch[j].blob = c /\ fetch[j].at = "file"
        BY <1>2, <2>4, <3>2 DEF FilesMatch
      <4> QED
        BY <1>1, <1>2, <4>1
    <3> QED
      BY <3>1, <3>2
  <2> QED
    BY <2>3, <2>4 DEF FilesMatch
<1>9. ItemsKeepImage'
  BY <1>2 DEF ItemsKeepImage, Kept
<1> QED
  BY <1>5, <1>6, <1>7, <1>8, <1>9

LEMMA PaintFileStore ==
  ASSUME IInv, NEW b \in Blobs, PaintFile(b)
  PROVE  Store'
<1> USE DEF IInv, Store, canvas, stacks
<1>1. pen'.new = b /\ pen.new = None
  BY DEF PaintFile, TypeOK, PenHolds
<1>2. /\ files' = files \cup {b} /\ drawn' = drawn \cup {b} /\ b \notin drawn /\ rows' = rows
      /\ fetch' = fetch /\ bgc' = bgc /\ hgc' = hgc /\ item' = item /\ b # None
  BY BlobParameters DEF PaintFile, WriteFile
<1>3. rows[b] = "none" /\ b \notin bgc.pend /\ b # bgc.cur
  BY <1>2 DEF DrawnOnce
<1>4. \A j \in Items : fetch[j].blob # b
  BY <1>2 DEF DrawnOnce
<1>5. ImagesFetched' /\ DrawnOnce' /\ OneWriter'
  BY <1>1, <1>2, <1>3, <1>4 DEF ImagesFetched, DrawnOnce, OneWriter, Kept
<1>6. InHandYoung' /\ FileFirst' /\ SelectionDone' /\ OffIdle'
  BY <1>1, <1>2, <1>3, <1>4 DEF InHandYoung, FileFirst, SelectionDone, OffIdle
<1>7. SelectionApart'
  BY <1>1, <1>2, <1>3, <1>4 DEF SelectionApart, InHand, Kept
<1>8. \A c \in files : c # None
  BY BlobParameters DEF TypeOK
<1>9. FilesMatch' /\ ItemsKeepImage'
  BY <1>1, <1>2, <1>3, <1>8 DEF FilesMatch, ItemsKeepImage, Kept
<1> QED
  BY <1>5, <1>6, <1>7, <1>9

(* No blob is called None, and every image has a blob.                     *)
LEMMA RealBlobs ==
  ASSUME IInv
  PROVE  /\ None \notin files
         /\ \A i \in Items : /\ fetch[i].at # "no" => fetch[i].blob \in Blobs
                             /\ i = hgc.cur \/ i \in hgc.pend => fetch[i].blob \in Blobs
                             /\ Kept(i) => item[i].image \in Blobs
<1>1. None \notin Blobs /\ files \subseteq Blobs
  BY BlobParameters DEF IInv, TypeOK
<1>2. \A i \in Items : fetch[i].blob \in Blobs \cup {None}
  BY DEF IInv, TypeOK
<1> QED
  BY <1>1, <1>2 DEF IInv, Store, ImagesFetched, SelectionDone

(* The row of a file, the item of a row.                                   *)
LEMMA FetchRowStore ==
  ASSUME IInv, NEW i \in Items, FetchRow(i)
  PROVE  Store'
<1> USE DEF IInv, Store, canvas, stacks
<1> DEFINE b == fetch[i].blob
<1>1. /\ fetch'[i].at = "row" /\ fetch'[i].blob = b /\ fetch[i].at = "file"
      /\ \A j \in Items : j # i => fetch'[j] = fetch[j]
  BY DEF FetchRow, TypeOK
<1>2. /\ files' = files /\ drawn' = drawn /\ pen' = pen /\ bgc' = bgc /\ hgc' = hgc /\ item' = item
  BY DEF FetchRow, WriteRow
<1>3. b \in files /\ b \in Blobs /\ b \in drawn
  BY <1>1 DEF InHandYoung, TypeOK, DrawnOnce
<1>4. rows'[b] = "young" /\ \A c \in Blobs : c # b => rows'[c] = rows[c]
  BY <1>3 DEF FetchRow, WriteRow, TypeOK
<1>5. \A j \in Items : j # i => fetch[j].blob # b
  BY <1>3, BlobParameters DEF OneWriter
<1>6. pen.new # b
  BY <1>3, BlobParameters DEF OneWriter
<1>7. \A j \in Items : fetch[j].blob \in Blobs \cup {None} /\ fetch'[j].blob = fetch[j].blob
  BY <1>1 DEF TypeOK
<1> HIDE DEF b
<1>8. ImagesFetched' /\ DrawnOnce' /\ OneWriter'
  BY <1>1, <1>2, <1>3, <1>4, <1>7 DEF ImagesFetched, DrawnOnce, OneWriter, Kept
<1>9. FileFirst' /\ SelectionDone' /\ OffIdle'
  BY <1>1, <1>2, <1>7 DEF FileFirst, SelectionDone, OffIdle
<1>10. InHandYoung'
  <2>1. \A j \in Items : fetch[j].at \in {"file", "row"} => fetch[j].blob \in Blobs
    BY RealBlobs
  <2>2. pen.new \in Blobs \cup {None}
    BY DEF TypeOK
  <2> QED
    BY <1>1, <1>2, <1>3, <1>4, <1>5, <1>6, <1>7, <2>1, <2>2 DEF InHandYoung
<1>11. SelectionApart'
  BY <1>1, <1>2, <1>7 DEF SelectionApart, InHand, Kept
<1>12. FilesMatch'
  <2>1. ASSUME NEW c \in Blobs, rows'[c] # "none", c \notin files'
        PROVE  bgc'.cur = c \/ (hgc'.cur # None /\ fetch'[hgc'.cur].blob = c)
    <3>1. rows[c] # "none"
      BY <1>2, <1>3, <1>4, <2>1
    <3>2. hgc.cur \in Items \cup {None}
      BY DEF TypeOK
    <3> QED
      BY <1>2, <1>7, <2>1, <3>1, <3>2 DEF FilesMatch
  <2>2. ASSUME NEW c \in files', rows'[c] = "none"
        PROVE  pen'.new = c \/ \E j \in Items : fetch'[j].blob = c /\ fetch'[j].at = "file"
    <3>1. c \in Blobs /\ c # b /\ rows[c] = "none"
      BY <1>2, <1>4, <2>2 DEF TypeOK
    <3>2. pen.new = c \/ \E j \in Items : fetch[j].blob = c /\ fetch[j].at = "file"
      BY <1>2, <2>2, <3>1 DEF FilesMatch
    <3> QED
      BY <1>1, <1>2, <3>1, <3>2 DEF b
  <2> QED
    BY <2>1, <2>2 DEF FilesMatch
<1>13. ItemsKeepImage'
  <2>1. \A c \in Blobs : rows[c] # "none" => rows'[c] # "none"
    BY <1>4
  <2> QED
    BY <1>2, <2>1, RealBlobs DEF ItemsKeepImage, Kept
<1> QED
  BY <1>8, <1>9, <1>10, <1>11, <1>12, <1>13

LEMMA FetchItemStore ==
  ASSUME IInv, NEW i \in Items, FetchItem(i)
  PROVE  Store'
<1> USE DEF IInv, Store, canvas, stacks, store
<1> DEFINE b == fetch[i].blob
<1>1. fetch[i].at = "row" /\ b \in files /\ rows[b] = "young" /\ b \in Blobs
  BY DEF FetchItem, InHandYoung, TypeOK
<1>2. /\ files' = files /\ rows' = rows /\ drawn' = drawn /\ pen' = pen /\ bgc' = bgc /\ hgc' = hgc
  BY DEF FetchItem
<1>3. /\ fetch'[i].at = "done" /\ fetch'[i].blob = b
      /\ \A j \in Items : j # i => fetch'[j] = fetch[j]
  BY <1>1 DEF FetchItem, TypeOK
<1>4. /\ item'[i].is = "kept" /\ item'[i].image = b
      /\ \A j \in Items : j # i => item'[j] = item[j]
  <2> DEFINE r == [NoItem EXCEPT !.is = "kept", !.image = b]
  <2>1. r.is = "kept" /\ r.image = b
    BY DEF NoItem
  <2>2. item' = [item EXCEPT ![i] = r]
    BY <1>1 DEF FetchItem
  <2> HIDE DEF r
  <2> QED
    BY <2>1, <2>2 DEF TypeOK
<1>5. \A j \in Items : fetch'[j].blob = fetch[j].blob
  BY <1>3
<1>6. InHand(b) /\ b # None
  BY <1>1, BlobParameters DEF InHand
<1> HIDE DEF b
<1>7. ImagesFetched' /\ DrawnOnce' /\ OneWriter'
  BY <1>1, <1>2, <1>3, <1>4, <1>5, <1>6 DEF ImagesFetched, DrawnOnce, OneWriter, Kept
<1>8. FileFirst' /\ SelectionDone' /\ OffIdle' /\ InHandYoung'
  BY <1>1, <1>2, <1>3, <1>5 DEF FileFirst, SelectionDone, OffIdle, InHandYoung
<1>9. SelectionApart'
  <2>1. \A c \in Blobs : InHand(c)' => InHand(c)
    BY <1>2, <1>3 DEF InHand
  <2>2. b \notin bgc.pend /\ b # bgc.cur
    BY <1>1, <1>6 DEF SelectionApart, TypeOK
  <2>3. ASSUME NEW c \in Blobs, c \in bgc.pend \/ c = bgc.cur, NEW j \in Items, Kept(j)'
        PROVE  item'[j].image # c
    BY <1>4, <2>2, <2>3 DEF SelectionApart, Kept
  <2> QED
    BY <1>2, <2>1, <2>3 DEF SelectionApart
<1>10. FilesMatch'
  <2>1. ASSUME NEW c \in Blobs, rows'[c] # "none", c \notin files'
        PROVE  bgc'.cur = c \/ (hgc'.cur # None /\ fetch'[hgc'.cur].blob = c)
    <3>1. hgc.cur \in Items \cup {None}
      BY DEF TypeOK
    <3> QED
      BY <1>2, <1>5, <2>1, <3>1 DEF FilesMatch
  <2>2. ASSUME NEW c \in files', rows'[c] = "none"
        PROVE  pen'.new = c \/ \E j \in Items : fetch'[j].blob = c /\ fetch'[j].at = "file"
    <3>1. pen.new = c \/ \E j \in Items : fetch[j].blob = c /\ fetch[j].at = "file"
      BY <1>2, <2>2 DEF FilesMatch
    <3> QED
      BY <1>1, <1>2, <1>3, <3>1
  <2> QED
    BY <2>1, <2>2 DEF FilesMatch
<1>11. ItemsKeepImage'
  BY <1>1, <1>2, <1>4 DEF ItemsKeepImage, Kept
<1> QED
  BY <1>7, <1>8, <1>9, <1>10, <1>11

LEMMA PaintDoneStore ==
  ASSUME IInv, PaintDone
  PROVE  Store'
<1> USE DEF IInv, Store
<1> DEFINE b == pen.new
<1>1. b # None /\ b \in files /\ b \in Blobs /\ b \in drawn
  BY DEF PaintDone, PenHolds, InHandYoung, DrawnOnce, TypeOK
<1>2. /\ files' = files /\ drawn' = drawn /\ bgc' = bgc /\ hgc' = hgc /\ item' = item /\ fetch' = fetch
      /\ pen'.new = None
  BY DEF PaintDone, WriteRow, Resting
<1>3. rows'[b] = "young" /\ \A c \in Blobs : c # b => rows'[c] = rows[c]
  BY <1>1 DEF PaintDone, WriteRow, TypeOK
<1>4. \A j \in Items : fetch[j].blob # b
  BY <1>1 DEF OneWriter
<1>5. \A c \in Blobs : rows[c] # "none" => rows'[c] # "none"
  BY <1>3
<1> HIDE DEF b
<1>6. ImagesFetched' /\ DrawnOnce' /\ OneWriter'
  BY <1>1, <1>2, <1>3, <1>4 DEF ImagesFetched, DrawnOnce, OneWriter, Kept
<1>7. FileFirst' /\ SelectionDone' /\ OffIdle'
  BY <1>2 DEF FileFirst, SelectionDone, OffIdle
<1>8. InHandYoung'
  BY <1>2, <1>3, <1>4, RealBlobs DEF InHandYoung
<1>9. SelectionApart'
  <2>1. \A c \in Blobs : InHand(c)' => InHand(c)
    BY <1>2, BlobParameters DEF InHand
  <2> QED
    BY <1>2, <2>1 DEF SelectionApart, Kept
<1>10. FilesMatch'
  BY <1>1, <1>2, <1>3, <1>4 DEF FilesMatch, TypeOK, b
<1>11. ItemsKeepImage'
  BY <1>2, <1>5, RealBlobs DEF ItemsKeepImage, Kept
<1> QED
  BY <1>6, <1>7, <1>8, <1>9, <1>10, <1>11

(* The blob collector.                                                     *)
LEMMA BlobGcStartStore ==
  ASSUME IInv, BlobGcStart
  PROVE  Store'
<1> USE DEF IInv, Store, canvas, stacks, store
<1>1. /\ files' = files /\ rows' = rows /\ drawn' = drawn /\ pen' = pen /\ hgc' = hgc /\ item' = item
      /\ fetch' = fetch /\ bgc.cur = None /\ bgc'.cur = None /\ bgc'.pend = Orphans /\ bgc'.on
  BY DEF BlobGcStart, OffIdle
<1>2. \A b \in Orphans : b \in Blobs /\ rows[b] = "old" /\ \A i \in Items : Kept(i) => item[i].image # b
  BY DEF Orphans, Referenced
<1>3. \A b \in Orphans : ~InHand(b) /\ b \in drawn
  BY <1>2, BlobParameters DEF InHand, InHandYoung, DrawnOnce
<1>4. ImagesFetched' /\ DrawnOnce' /\ OneWriter'
  BY <1>1, <1>3 DEF ImagesFetched, DrawnOnce, OneWriter, Kept
<1>5. FileFirst' /\ SelectionDone' /\ OffIdle' /\ InHandYoung'
  BY <1>1 DEF FileFirst, SelectionDone, OffIdle, InHandYoung
<1>6. SelectionApart'
  BY <1>1, <1>2, <1>3, BlobParameters DEF SelectionApart, InHand, Kept
<1>7. FilesMatch' /\ ItemsKeepImage'
  BY <1>1 DEF FilesMatch, ItemsKeepImage, Kept
<1> QED
  BY <1>4, <1>5, <1>6, <1>7

LEMMA BlobGcUnlinkStore ==
  ASSUME IInv, NEW b \in Blobs, BlobGcUnlink(b)
  PROVE  Store'
<1> USE DEF IInv, Store, canvas, stacks
<1>1. /\ rows' = rows /\ drawn' = drawn /\ pen' = pen /\ hgc' = hgc /\ item' = item /\ fetch' = fetch
      /\ files' = files \ {b} /\ b \in bgc.pend /\ bgc.cur = None
      /\ bgc'.cur = b /\ bgc'.pend = bgc.pend \ {b} /\ bgc'.on = bgc.on
  BY DEF BlobGcUnlink, TypeOK
<1>2. ~InHand(b) /\ \A i \in Items : Kept(i) => item[i].image # b
  BY <1>1 DEF SelectionApart
<1>3. ImagesFetched' /\ DrawnOnce' /\ OneWriter'
  BY <1>1 DEF ImagesFetched, DrawnOnce, OneWriter, Kept
<1>4. FileFirst' /\ SelectionDone' /\ OffIdle'
  BY <1>1 DEF FileFirst, SelectionDone, OffIdle
<1>5. InHandYoung'
  BY <1>1, <1>2 DEF InHandYoung, InHand
<1>6. SelectionApart'
  BY <1>1 DEF SelectionApart, InHand, Kept
<1>7. FilesMatch' /\ ItemsKeepImage'
  BY <1>1, <1>2, BlobParameters DEF FilesMatch, ItemsKeepImage, Kept
<1> QED
  BY <1>3, <1>4, <1>5, <1>6, <1>7

LEMMA BlobGcDeleteStore ==
  ASSUME IInv, BlobGcDelete
  PROVE  Store'
<1> USE DEF IInv, Store, canvas, stacks
<1> DEFINE b == bgc.cur
<1>1. /\ drawn' = drawn /\ pen' = pen /\ hgc' = hgc /\ fetch' = fetch /\ files' = files
      /\ bgc'.cur = None /\ bgc'.pend = bgc.pend /\ (bgc'.on <=> bgc.pend # {})
  BY DEF BlobGcDelete, DeleteRow, TypeOK
<1>2. b # None /\ b \in Blobs
  BY DEF BlobGcDelete, TypeOK
<1>3. ~InHand(b) /\ b \notin files /\ \A i \in Items : Kept(i) => item[i].image # b
  BY <1>2 DEF SelectionApart, FileFirst
<1>4. rows'[b] = "none" /\ \A c \in Blobs : c # b => rows'[c] = rows[c]
  BY <1>2 DEF BlobGcDelete, DeleteRow, TypeOK
<1>5. \A i \in Items : /\ item'[i].is = item[i].is
                       /\ Kept(i) => item'[i].image = item[i].image
  <2>1. item \in [Items -> ItemRow] /\ item' = [i \in Items |-> IF item[i].image = b
          THEN [item[i] EXCEPT !.image = None] ELSE item[i]]
    BY DEF BlobGcDelete, Unset, TypeOK, ItemRow
  <2> QED
    BY <1>3, <2>1 DEF ItemRow
<1> HIDE DEF b
<1>6. ImagesFetched' /\ DrawnOnce' /\ OneWriter'
  BY <1>1, <1>4, <1>5 DEF ImagesFetched, DrawnOnce, OneWriter, Kept
<1>7. FileFirst' /\ SelectionDone' /\ OffIdle'
  BY <1>1, RealBlobs DEF FileFirst, SelectionDone, OffIdle
<1>8. InHandYoung'
  <2>1. \A j \in Items : fetch[j].at \in {"file", "row"} => fetch[j].blob \in Blobs /\ fetch[j].blob # b
    BY <1>3, RealBlobs DEF InHand
  <2>2. pen.new # None => pen.new \in Blobs /\ pen.new # b
    BY <1>3 DEF InHand, TypeOK
  <2> QED
    BY <1>1, <1>4, <2>1, <2>2 DEF InHandYoung
<1>9. SelectionApart'
  <2>1. \A c \in Blobs : InHand(c)' <=> InHand(c)
    BY <1>1 DEF InHand
  <2> QED
    BY <1>1, <1>5, <2>1, BlobParameters DEF SelectionApart, Kept
<1>10. FilesMatch'
  <2>1. files \subseteq Blobs
    BY DEF TypeOK
  <2>2. ASSUME NEW c \in Blobs, rows'[c] # "none", c \notin files'
        PROVE  hgc'.cur # None /\ fetch'[hgc'.cur].blob = c
    <3>1. c # b /\ rows[c] # "none" /\ c \notin files
      BY <1>1, <1>4, <2>2
    <3> QED
      BY <1>1, <3>1 DEF FilesMatch, b
  <2>3. ASSUME NEW c \in files', rows'[c] = "none"
        PROVE  pen'.new = c \/ \E j \in Items : fetch'[j].blob = c /\ fetch'[j].at = "file"
    <3>1. c \in files /\ rows[c] = "none"
      BY <1>1, <1>3, <1>4, <2>1, <2>3
    <3> QED
      BY <1>1, <3>1 DEF FilesMatch
  <2> QED
    BY <2>2, <2>3 DEF FilesMatch
<1>11. ItemsKeepImage'
  BY <1>1, <1>3, <1>4, <1>5, RealBlobs DEF ItemsKeepImage, Kept
<1> QED
  BY <1>6, <1>7, <1>8, <1>9, <1>10, <1>11

(* The history collector.                                                  *)
LEMMA HistoryGcSelectStore ==
  ASSUME IInv, HistoryGcStart \/ HistoryGcNext
  PROVE  Store'
<1> USE DEF IInv, Store, canvas, stacks, store
<1>1. /\ files' = files /\ rows' = rows /\ drawn' = drawn /\ pen' = pen /\ bgc' = bgc /\ item' = item
      /\ fetch' = fetch
  BY DEF HistoryGcStart, HistoryGcNext
<1>2. hgc.cur = None /\ hgc'.cur = None
  <2>1. CASE HistoryGcStart
    BY <2>1 DEF HistoryGcStart, OffIdle
  <2>2. CASE HistoryGcNext
    <3>1. \/ hgc' = [hgc EXCEPT !.phase = 2, !.pend = Expired]
          \/ hgc' = [hgc EXCEPT !.phase = 3, !.pend = Unreferenced]
          \/ hgc' = HistoryGcOff
      BY <2>2 DEF HistoryGcNext
    <3>2. hgc.cur = None /\ hgc \in [phase : 0..3, pend : SUBSET Items, cur : Items \cup {None}]
      BY <2>2 DEF HistoryGcNext, TypeOK
    <3>3. \A h \in HistoryRun : \A p, q : [h EXCEPT !.phase = p, !.pend = q].cur = h.cur
      BY DEF HistoryRun
    <3>4. HistoryGcOff.cur = None
      BY DEF HistoryGcOff
    <3> QED
      BY <3>1, <3>2, <3>3, <3>4 DEF HistoryRun
  <2> QED
    BY <2>1, <2>2
<1>3. \A i \in LongGone \cup Expired \cup Unreferenced : i \in Items /\ fetch[i].at = "done"
  BY DEF LongGone, Expired, Unreferenced, ImagesFetched
<1>4. CASE HistoryGcStart
  <2>1. hgc'.pend = LongGone /\ hgc'.phase = 1
    BY <1>4 DEF HistoryGcStart
  <2> QED
    BY <1>1, <1>2, <1>3, <2>1 DEF ImagesFetched, DrawnOnce, OneWriter, InHandYoung, SelectionApart, SelectionDone,
       FileFirst, OffIdle, FilesMatch, ItemsKeepImage, Kept, InHand
<1>5. CASE HistoryGcNext
  <2>1. \/ hgc'.pend \subseteq Expired \cup Unreferenced /\ hgc'.phase \in {2, 3}
        \/ hgc'.pend = {}
    BY <1>5 DEF HistoryGcNext, HistoryGcOff, TypeOK
  <2>2. SelectionDone' /\ OffIdle'
    BY <1>1, <1>2, <1>3, <2>1 DEF SelectionDone, OffIdle
  <2> QED
    BY <1>1, <1>2, <2>2 DEF ImagesFetched, DrawnOnce, OneWriter, InHandYoung, SelectionApart,
       FileFirst, FilesMatch, ItemsKeepImage, Kept, InHand
<1> QED
  BY <1>4, <1>5

LEMMA HistoryGcUnlinkStore ==
  ASSUME IInv, NEW i \in Items, HistoryGcUnlink(i)
  PROVE  Store'
<1> USE DEF IInv, Store, canvas, stacks
<1> DEFINE b == fetch[i].blob
<1>1. /\ rows' = rows /\ drawn' = drawn /\ pen' = pen /\ bgc' = bgc /\ item' = item /\ fetch' = fetch
      /\ files' \subseteq files /\ \A c \in files : c # b => c \in files'
      /\ i \in hgc.pend /\ hgc.cur = None
      /\ hgc'.cur = i /\ hgc'.pend = hgc.pend \ {i} /\ hgc'.phase = hgc.phase
  BY DEF HistoryGcUnlink, TypeOK
<1>2. fetch[i].at = "done" /\ b \in Blobs
  BY <1>1, RealBlobs DEF SelectionDone
<1>3. (\A j \in Items : j # i => fetch[j].blob # b) /\ pen.new # b
  BY <1>2, BlobParameters DEF OneWriter
<1>4. b \notin files'
  <2>1. CASE rows[b] = "none"
    BY <1>1, <1>2, <1>3, <2>1 DEF FilesMatch
  <2>2. CASE rows[b] # "none"
    BY <2>2 DEF HistoryGcUnlink
  <2> QED
    BY <2>1, <2>2
<1>5. fetch[i].blob = b /\ i # None
  BY BlobParameters
<1> HIDE DEF b
<1>6. ImagesFetched' /\ DrawnOnce' /\ OneWriter'
  BY <1>1 DEF ImagesFetched, DrawnOnce, OneWriter, Kept
<1>7. FileFirst' /\ SelectionDone' /\ OffIdle'
  BY <1>1, <1>2, <1>4, <1>5 DEF FileFirst, SelectionDone, OffIdle
<1>8. InHandYoung'
  BY <1>1, <1>2, <1>3, <1>5 DEF InHandYoung
<1>9. SelectionApart'
  BY <1>1 DEF SelectionApart, InHand, Kept
<1>10. FilesMatch'
  BY <1>1, <1>5 DEF FilesMatch
<1>11. ItemsKeepImage'
  <2>1. \A j \in Items : Kept(j) /\ j # i => item[j].image # b
    BY <1>3 DEF ImagesFetched
  <2> QED
    BY <1>1, <2>1, BlobParameters DEF ItemsKeepImage, Kept
<1> QED
  BY <1>6, <1>7, <1>8, <1>9, <1>10, <1>11

LEMMA HistoryGcDeleteStore ==
  ASSUME IInv, HistoryGcDelete
  PROVE  Store'
<1> USE DEF IInv, Store, canvas, stacks
<1> DEFINE i == hgc.cur
           b == fetch[i].blob
<1>1. i \in Items /\ i # None /\ hgc.phase # 0
  BY DEF HistoryGcDelete, TypeOK, OffIdle
<1>2. fetch[i].at = "done" /\ b \in Blobs /\ b \notin files
  BY <1>1, RealBlobs DEF SelectionDone, FileFirst
<1>3. (\A j \in Items : j # i => fetch[j].blob # b) /\ pen.new # b
  BY <1>1, <1>2, BlobParameters DEF OneWriter
<1>4. /\ drawn' = drawn /\ pen' = pen /\ bgc' = bgc /\ fetch' = fetch /\ files' = files
  BY DEF HistoryGcDelete, DeleteRow
<1>5. rows'[b] = "none" /\ \A c \in Blobs : c # b => rows'[c] = rows[c]
  BY <1>2 DEF HistoryGcDelete, DeleteRow, TypeOK
<1>6. /\ item'[i].is = "gone"
      /\ \A j \in Items : j # i => item'[j] = item[j]
  <2> DEFINE r == [NoItem EXCEPT !.is = "gone"]
  <2>1. r.is = "gone"
    BY DEF NoItem
  <2>2. item' = [item EXCEPT ![i] = r]
    BY DEF HistoryGcDelete
  <2> HIDE DEF r
  <2> QED
    BY <1>1, <2>1, <2>2 DEF TypeOK
<1>7. hgc'.cur = None /\ hgc'.pend \subseteq hgc.pend /\ (hgc'.phase = 0 => hgc'.pend = {})
  <2>1. hgc' = HistoryGcOff \/ hgc' = [hgc EXCEPT !.cur = None]
    BY DEF HistoryGcDelete
  <2>2. hgc \in [phase : 0..3, pend : SUBSET Items, cur : Items \cup {None}]
    BY DEF TypeOK
  <2>3. CASE hgc' = HistoryGcOff
    BY <2>3 DEF HistoryGcOff
  <2>4. CASE hgc' = [hgc EXCEPT !.cur = None]
    BY <1>1, <2>2, <2>4
  <2> QED
    BY <2>1, <2>3, <2>4
<1>8. fetch[i].blob = b
  OBVIOUS
<1> HIDE DEF b
<1>9. ImagesFetched' /\ DrawnOnce' /\ OneWriter'
  BY <1>4, <1>5, <1>6 DEF ImagesFetched, DrawnOnce, OneWriter, Kept
<1>10. FileFirst' /\ SelectionDone' /\ OffIdle'
  BY <1>4, <1>7, BlobParameters DEF FileFirst, SelectionDone, OffIdle
<1>11. InHandYoung'
  <2>1. \A j \in Items : fetch[j].at \in {"file", "row"} => fetch[j].blob \in Blobs /\ fetch[j].blob # b
    BY <1>2, <1>3, RealBlobs
  <2>2. pen.new # None => pen.new \in Blobs
    BY DEF TypeOK
  <2> QED
    BY <1>3, <1>4, <1>5, <2>1, <2>2 DEF InHandYoung
<1>12. SelectionApart'
  <2>1. \A c \in Blobs : InHand(c)' <=> InHand(c)
    BY <1>4 DEF InHand
  <2> QED
    BY <1>4, <1>6, <2>1 DEF SelectionApart, Kept
<1>13. FilesMatch'
  <2>1. files \subseteq Blobs
    BY DEF TypeOK
  <2>2. ASSUME NEW c \in Blobs, rows'[c] # "none", c \notin files'
        PROVE  bgc'.cur = c
    <3>1. c # b /\ rows[c] # "none" /\ c \notin files
      BY <1>4, <1>5, <2>2
    <3> QED
      BY <1>4, <1>8, <3>1 DEF FilesMatch
  <2>3. ASSUME NEW c \in files', rows'[c] = "none"
        PROVE  pen'.new = c \/ \E j \in Items : fetch'[j].blob = c /\ fetch'[j].at = "file"
    <3>1. c \in files /\ rows[c] = "none"
      BY <1>2, <1>4, <1>5, <2>1, <2>3
    <3> QED
      BY <1>4, <3>1 DEF FilesMatch
  <2> QED
    BY <2>2, <2>3 DEF FilesMatch
<1>14. ItemsKeepImage'
  <2>1. \A j \in Items : Kept(j) /\ j # i => item[j].image # b
    BY <1>3 DEF ImagesFetched
  <2> QED
    BY <1>4, <1>5, <1>6, <2>1, RealBlobs DEF ItemsKeepImage, Kept
<1> QED
  BY <1>9, <1>10, <1>11, <1>12, <1>13, <1>14

LEMMA BlobAgesStore ==
  ASSUME IInv, ~Slow, NEW b \in Blobs, BlobAges(b)
  PROVE  Store'
<1> USE DEF IInv, Store, canvas, stacks
<1>1. /\ drawn' = drawn /\ pen' = pen /\ hgc' = hgc /\ fetch' = fetch /\ files' = files
      /\ bgc' = bgc /\ item' = item /\ ~InHand(b) /\ rows[b] = "young"
  BY DEF BlobAges
<1>2. rows'[b] = "old" /\ \A c \in Blobs : c # b => rows'[c] = rows[c]
  BY DEF BlobAges, TypeOK
<1>3. \A c \in Blobs : rows'[c] = "none" <=> rows[c] = "none"
  BY <1>1, <1>2
<1>4. ImagesFetched' /\ DrawnOnce' /\ OneWriter'
  BY <1>1, <1>3 DEF ImagesFetched, DrawnOnce, OneWriter, Kept
<1>5. FileFirst' /\ SelectionDone' /\ OffIdle'
  BY <1>1 DEF FileFirst, SelectionDone, OffIdle
<1>6. InHandYoung'
  <2>1. \A j \in Items : fetch[j].at \in {"file", "row"} => fetch[j].blob \in Blobs /\ fetch[j].blob # b
    BY <1>1, RealBlobs DEF InHand
  <2>2. pen.new # None => pen.new \in Blobs
    BY DEF TypeOK
  <2> QED
    BY <1>1, <1>2, <1>3, <2>1, <2>2 DEF InHandYoung
<1>7. SelectionApart'
  BY <1>1 DEF SelectionApart, InHand, Kept
<1>8. FilesMatch' /\ ItemsKeepImage'
  BY <1>1, <1>3, RealBlobs DEF FilesMatch, ItemsKeepImage, Kept, TypeOK
<1> QED
  BY <1>4, <1>5, <1>6, <1>7, <1>8

LEMMA StepKeepsIInv ==
  ASSUME Calm, IInv, [Next]_vars
  PROVE  IInv'
<1>1. Typed'
  BY NextTyped DEF IInv, Typed
<1>2. Store'
  <2>1. ASSUME NEW i \in Items, Fetcher(i)
        PROVE  Store'
    BY <2>1, FetchFileStore, FetchRowStore, FetchItemStore DEF Fetcher
  <2>2. ASSUME NEW i \in Items, Discard(i) \/ ItemAges(i) \/ \E l \in Fresh : Apply(i, l)
        PROVE  Store'
    BY <2>2, EditsKeepStore
  <2>3. CASE (\E l \in Layers : Paint(l)) \/ PaintFails
    BY <2>3, EditsKeepStore
  <2>4. CASE (\E b \in Blobs : PaintFile(b)) \/ PaintDone
    BY <2>4, PaintFileStore, PaintDoneStore
  <2>5. ASSUME NEW c, Step(c)
        PROVE  Store'
    BY <2>5, EditsKeepStore
  <2>6. CASE BlobGcStart \/ BlobGcStep
    BY <2>6, BlobGcStartStore, BlobGcUnlinkStore, BlobGcDeleteStore DEF BlobGcStep
  <2>7. CASE HistoryGcStart \/ HistoryGcStep
    BY <2>7, HistoryGcSelectStore, HistoryGcUnlinkStore, HistoryGcDeleteStore DEF HistoryGcStep
  <2>8. ASSUME NEW b \in Blobs, BlobAges(b)
        PROVE  Store'
    BY <2>8, BlobAgesStore DEF Calm
  <2>9. CASE UNCHANGED vars
    BY <2>9, StoreUntouched DEF vars, IInv
  <2>10. ~Restart
    BY DEF Restart, Calm
  <2> QED
    BY <2>1, <2>2, <2>3, <2>4, <2>5, <2>6, <2>7, <2>8, <2>9, <2>10 DEF Next, Painting
<1> QED
  BY <1>1, <1>2 DEF IInv, Typed

LEMMA StoreInvariant ==
  ASSUME Calm
  PROVE  Spec => []IInv
<1>1. Init => IInv
  BY InitTyped, InitStore DEF IInv, Typed
<1>2. IInv /\ [Next]_vars => IInv'
  BY StepKeepsIInv
<1> QED
  BY <1>1, <1>2, PTL DEF Spec

(* File and row of a blob part only under the hand of a collector or of    *)
(* the handler that writes it.                                             *)
THEOREM HalvesMatch == ASSUME Calm PROVE Spec => []FilesMatch
<1>1. IInv => FilesMatch
  BY DEF IInv, Store
<1> QED
  BY <1>1, StoreInvariant, PTL

(* No collector takes the image of a kept item.                            *)
THEOREM ImagesStay == ASSUME Calm PROVE Spec => []ItemsKeepImage
<1>1. IInv => ItemsKeepImage
  BY DEF IInv, Store
<1> QED
  BY <1>1, StoreInvariant, PTL

-----------------------------------------------------------------------------
(* What a layer shows is spared, however requests and collectors           *)
(* interleave, however slow the handlers are and whenever the process      *)
(* ends: unless the blob is exposed.                                       *)

Elems(s) == {s[k] : k \in 1..Len(s)}
Steps == Elems(undo) \cup Elems(redo) \cup (IF pen.at = "idle" THEN {} ELSE {pen.cmd})

(* Ids are given out once, and what refers to one refers to a given one;   *)
(* a row is of a blob given out, and a paint's new blob has none yet.      *)
Given ==
  /\ \A i \in Items : fetch[i].at = "no" <=> fetch[i].blob = None
  /\ \A i \in Items : fetch[i].blob \in drawn \cup {None}
  /\ \A l \in Layers : content[l] \in drawn \cup {None}
  /\ pen.new \in drawn \cup {None}
  /\ live \subseteq born
  /\ \A c \in Steps : c.blob \in drawn \cup {None} /\ c.layer \in born
  /\ OneWriter
  /\ \A b \in Blobs : rows[b] # "none" => b \in drawn
  /\ pen.new # None => rows[pen.new] = "none"

(* A collector's selection is of blobs no layer shows and of items no      *)
(* layer shows, but for what was exposed since.                            *)
BlobsSelected == \A b \in bgc.pend \cup {bgc.cur} : b # None =>
  /\ b \in drawn /\ b # pen.new
  /\ b \notin exposed => \A l \in live : content[l] # b
ItemsSelected == \A i \in hgc.pend \cup {hgc.cur} : i # None =>
  item[i].layer = None \/ fetch[i].blob \in exposed
Selected == BlobsSelected /\ ItemsSelected

(* An item keeps its image as long as the blob has a row, and is there as  *)
(* long as that; the image of a discarded one is exposed.                  *)
ItemHolds(i) ==
  /\ item[i].thrown # "no" => fetch[i].blob \in exposed
  /\ Kept(i) => /\ fetch[i].at = "done"
                /\ item[i].image = IF rows[fetch[i].blob] = "none" THEN None ELSE fetch[i].blob
  /\ ~Kept(i) => item[i].layer = None /\ item[i].thrown = "no"
  /\ fetch[i].at = "done" /\ ~Kept(i) => rows[fetch[i].blob] = "none"
Images == \A i \in Items : ItemHolds(i)

(* An item knows the layer that shows its image, or that a paint command   *)
(* would let show it again.                                                *)
Of(i, b) == b # None /\ b = fetch[i].blob /\ b \notin exposed
LayersPointed == \A i \in Items, l \in live : Of(i, content[l]) => item[i].layer = l
StepsPointed == \A i \in Items, c \in Steps :
  c.kind = "paint" /\ c.layer \in live /\ Of(i, c.blob) => item[i].layer = c.layer

(* Of the commands that apply a sound item one at most can be undone, and  *)
(* its layer is the item's; when one can be redone, the item is unapplied. *)
Sound == {i \in Items : Kept(i) /\ fetch[i].blob \notin exposed /\ rows[fetch[i].blob] # "none"}
AppliesKnown == \A c \in Steps : c.kind = "apply" =>
  c.item \in Items /\ fetch[c.item].at = "done" /\ c.blob = fetch[c.item].blob
UndoPointed == \A c \in Elems(undo) :
  c.kind = "apply" /\ c.item \in Sound => item[c.item].layer = c.layer
RedoFree == \A c \in Elems(redo) : c.kind = "apply" /\ c.item \in Sound => item[c.item].layer = None
OnceIn(s, its) == \A j, k \in 1..Len(s) :
  s[j].kind = "apply" /\ s[k].kind = "apply" /\ s[j].item = s[k].item /\ s[j].item \in its => j = k
Once == OnceIn(undo, Sound) /\ OnceIn(redo, Sound)
PenPaints == pen.at # "idle" => pen.cmd.kind = "paint"

Pointed == LayersPointed /\ StepsPointed /\ AppliesKnown /\ UndoPointed /\ RedoFree /\ Once /\ PenPaints

Held == Typed /\ Given /\ Selected /\ Images /\ Pointed

LEMMA PopFacts ==
  ASSUME NEW s \in Seq(Commands), s # <<>>
  PROVE  /\ Len(s) \in 1..Len(s) /\ Len(Pop(s)) = Len(s) - 1
         /\ \A k \in 1..(Len(s) - 1) : Pop(s)[k] = s[k]
<1>1. Len(s) \in Nat /\ Len(s) # 0
  BY EmptySeq
<1>2. PICK n \in Nat : n = Len(s) - 1
  BY <1>1
<1>3. n \in (1 - 1)..Len(s) /\ 1 \in 1..(Len(s) + 1) /\ n - 1 + 1 = n
  BY <1>1, <1>2
<1>4. Pop(s) = SubSeq(s, 1, n)
  BY <1>2 DEF Pop
<1>5. Len(SubSeq(s, 1, n)) = n /\ \A k \in 1..n : SubSeq(s, 1, n)[k] = s[1 + k - 1]
  BY <1>2, <1>3, SubSeqProperties
<1>6. \A k \in 1..n : 1 + k - 1 = k
  BY <1>2
<1> QED
  BY <1>1, <1>2, <1>4, <1>5, <1>6

LEMMA ElemsFacts ==
  ASSUME NEW s \in Seq(Commands)
  PROVE  /\ Elems(s) \subseteq Commands
         /\ \A c \in Commands : Elems(Append(s, c)) = Elems(s) \cup {c}
         /\ s # <<>> => Last(s) \in Elems(s) /\ Elems(Pop(s)) \subseteq Elems(s)
<1>1. Elems(s) \subseteq Commands
  BY DEF Elems
<1>2. ASSUME NEW c \in Commands PROVE Elems(Append(s, c)) = Elems(s) \cup {c}
  BY AppendProperties DEF Elems
<1>3. ASSUME s # <<>> PROVE Last(s) \in Elems(s) /\ Elems(Pop(s)) \subseteq Elems(s)
  <2>1. /\ Len(s) \in 1..Len(s) /\ Len(Pop(s)) = Len(s) - 1
        /\ \A k \in 1..(Len(s) - 1) : Pop(s)[k] = s[k]
    BY <1>3, PopFacts
  <2> QED
    BY <2>1 DEF Elems, Last
<1> QED
  BY <1>1, <1>2, <1>3

LEMMA OnceAppend ==
  ASSUME NEW s \in Seq(Commands), NEW its, OnceIn(s, its), NEW c \in Commands,
         c.kind = "apply" /\ c.item \in its =>
           \A d \in Elems(s) : d.kind = "apply" => d.item # c.item
  PROVE  OnceIn(Append(s, c), its)
<1> DEFINE t == Append(s, c)
<1>1. Len(t) = Len(s) + 1 /\ t[Len(s) + 1] = c /\ \A k \in 1..Len(s) : t[k] = s[k] /\ s[k] \in Elems(s)
  BY AppendProperties DEF Elems
<1>2. Len(s) \in Nat
  OBVIOUS
<1> HIDE DEF t
<1>3. ASSUME NEW j \in 1..Len(t), NEW k \in 1..Len(t),
             t[j].kind = "apply", t[k].kind = "apply", t[j].item = t[k].item, t[j].item \in its
      PROVE  j = k
  <2>1. CASE j \in 1..Len(s) /\ k \in 1..Len(s)
    BY <1>1, <1>3, <2>1 DEF OnceIn
  <2>2. CASE j = Len(s) + 1 /\ k \in 1..Len(s)
    BY <1>1, <1>3, <2>2
  <2>3. CASE k = Len(s) + 1 /\ j \in 1..Len(s)
    BY <1>1, <1>3, <2>3
  <2> QED
    BY <1>1, <1>2, <2>1, <2>2, <2>3
<1>4. OnceIn(t, its)
  BY <1>3 DEF OnceIn
<1> QED
  BY <1>4 DEF t

(* When the last of them is taken, no other applies its item.              *)
LEMMA OncePop ==
  ASSUME NEW s \in Seq(Commands), s # <<>>, NEW its, OnceIn(s, its)
  PROVE  /\ OnceIn(Pop(s), its)
         /\ Last(s).kind = "apply" /\ Last(s).item \in its =>
              \A d \in Elems(Pop(s)) : d.kind = "apply" => d.item # Last(s).item
<1>1. Len(s) \in 1..Len(s) /\ Len(s) \in Nat
  BY PopFacts
<1>2. Len(Pop(s)) = Len(s) - 1 /\ \A k \in 1..(Len(s) - 1) : Pop(s)[k] = s[k]
  BY PopFacts
<1>3. OnceIn(Pop(s), its)
  BY <1>1, <1>2 DEF OnceIn
<1>4. ASSUME Last(s).kind = "apply", Last(s).item \in its, NEW k \in 1..(Len(s) - 1),
             s[k].kind = "apply"
      PROVE  s[k].item # Last(s).item
  BY <1>1, <1>4 DEF OnceIn, Last
<1> QED
  BY <1>2, <1>3, <1>4 DEF Elems

(* An item of its is one of more, as far as a stack is concerned.          *)
LEMMA OnceFewer ==
  ASSUME NEW s, NEW its, NEW more, OnceIn(s, more),
         \A c \in Elems(s) : c.kind = "apply" /\ c.item \in its => c.item \in more
  PROVE  OnceIn(s, its)
BY DEF OnceIn, Elems

LEMMA Blobbed ==
  ASSUME Typed, Given
  PROVE  /\ \A j \in Items : fetch[j].at # "no" => fetch[j].blob \in Blobs /\ fetch[j].blob # None
         /\ item \in [Items -> ItemRow]
         /\ \A j \in Items : j # None
         /\ \A l \in Layers : l # None
         /\ \A b \in Blobs : b # None
         /\ live \subseteq Layers /\ \A l \in live : l \in born /\ l # None
         /\ Steps \subseteq Commands
         /\ undo \in Seq(Commands) /\ redo \in Seq(Commands)
         /\ \A j \in hgc.pend \cup {hgc.cur} : j # None => j \in Items
         /\ \A b \in bgc.pend \cup {bgc.cur} : b # None => b \in Blobs
<1>1. \A j \in Items : fetch[j].blob \in Blobs \cup {None}
  BY FetchEdits DEF Typed, TypeOK, FetchRun
<1>2. undo \in Seq(Commands) /\ redo \in Seq(Commands) /\ (pen.at # "idle" => pen.cmd \in Commands)
  BY DEF Typed, TypeOK, PenHolds
<1>3. Steps \subseteq Commands
  BY <1>2, ElemsFacts DEF Steps
<1>4. live \subseteq Layers /\ item \in [Items -> ItemRow]
  BY DEF Typed, TypeOK, ItemRow
<1>5. /\ \A j \in hgc.pend \cup {hgc.cur} : j # None => j \in Items
      /\ \A b \in bgc.pend \cup {bgc.cur} : b # None => b \in Blobs
  BY DEF Typed, TypeOK
<1> QED
  BY <1>1, <1>2, <1>3, <1>4, <1>5, BlobParameters DEF Given

(* What a step may do without giving an id out.                            *)
LEMMA GivenSame ==
  ASSUME Given, drawn' = drawn, live' \subseteq born', born \subseteq born', Steps' \subseteq Steps,
         \A l \in Layers : content'[l] \in drawn' \cup {None},
         \A j \in Items : fetch'[j].blob = fetch[j].blob /\ (fetch'[j].at = "no" <=> fetch[j].at = "no"),
         pen'.new \in {pen.new, None},
         \A b \in Blobs : rows'[b] # "none" => b \in drawn,
         pen.new # None => (rows[pen.new] = "none" => rows'[pen.new] = "none")
  PROVE  Given'
BY DEF Given, OneWriter

(* What a step may do under a collector's selection.                       *)
LEMMA SelectedSame ==
  ASSUME Typed, Given, Selected, bgc' = bgc, hgc' = hgc, drawn \subseteq drawn', exposed \subseteq exposed',
         pen'.new \notin drawn \/ pen'.new \in {pen.new, None},
         \A b \in bgc.pend \cup {bgc.cur}, l \in live' :
           b # None /\ content'[l] = b /\ b \notin exposed' => l \in live /\ content[l] = b,
         \A i \in hgc.pend \cup {hgc.cur} : i # None =>
           \/ fetch[i].blob \in exposed' /\ fetch'[i].blob = fetch[i].blob
           \/ item'[i].layer = None
           \/ item'[i].layer = item[i].layer /\ fetch'[i].blob = fetch[i].blob
  PROVE  Selected'
<1>1. BlobsSelected'
  <2> SUFFICES ASSUME NEW b \in bgc.pend \cup {bgc.cur}, b # None
               PROVE  /\ b \in drawn' /\ b # pen'.new
                      /\ b \notin exposed' => \A l \in live' : content'[l] # b
    BY DEF BlobsSelected
  <2>1. /\ b \in drawn /\ b # pen.new
        /\ b \notin exposed => \A l \in live : content[l] # b
    BY DEF Selected, BlobsSelected
  <2> QED
    BY <2>1
<1>2. ItemsSelected'
  BY DEF Selected, ItemsSelected
<1> QED
  BY <1>1, <1>2 DEF Selected

(* What a step may do without moving a pointer.                            *)
LEMMA PointedSame ==
  ASSUME Typed, Pointed, Given, UNCHANGED <<live, content, undo, redo>>, exposed \subseteq exposed',
         \A j \in Items : /\ item'[j].layer = item[j].layer /\ fetch'[j].blob = fetch[j].blob
                          /\ fetch[j].at = "done" => fetch'[j].at = "done",
         Sound' \subseteq Sound,
         pen'.at # "idle" => pen.at # "idle" /\ pen'.cmd = pen.cmd
  PROVE  Pointed' /\ Steps' \subseteq Steps
<1>1. Steps' \subseteq Steps
  BY DEF Steps
<1>2. \A c \in Steps : c.kind = "apply" => c.item \in Items
  BY DEF Pointed, AppliesKnown
<1>3. Elems(undo) \subseteq Steps /\ Elems(redo) \subseteq Steps
  BY DEF Steps
<1>4. LayersPointed' /\ StepsPointed'
  BY <1>1 DEF Pointed, LayersPointed, StepsPointed, Of
<1>5. AppliesKnown' /\ PenPaints'
  BY <1>1, <1>2 DEF Pointed, AppliesKnown, PenPaints
<1>6. UndoPointed' /\ RedoFree'
  BY <1>2, <1>3 DEF Pointed, UndoPointed, RedoFree
<1>7. Once'
  BY OnceFewer DEF Pointed, Once
<1> QED
  BY <1>1, <1>4, <1>5, <1>6, <1>7 DEF Pointed

(* No item becomes sound, and none but those in exposed stops being so.    *)
LEMMA SoundSame ==
  ASSUME Typed, Given, Images, exposed \subseteq exposed',
         \A j \in Items : (item'[j].is = "kept" => Kept(j)) /\ fetch'[j].blob = fetch[j].blob,
         \A b \in Blobs : rows[b] = "none" => rows'[b] = "none"
  PROVE  Sound' \subseteq Sound
<1>1. \A j \in Items : Kept(j) => fetch[j].blob \in Blobs
  BY Blobbed DEF Images, ItemHolds
<1> QED
  BY <1>1 DEF Sound, Kept

LEMMA ImagesSame ==
  ASSUME Images, Typed, Given, exposed \subseteq exposed',
         \A j \in Items : /\ item'[j].is = item[j].is /\ item'[j].layer = item[j].layer
                          /\ item'[j].image = item[j].image
                          /\ item'[j].thrown # "no" => item[j].thrown # "no" \/ fetch[j].blob \in exposed'
                          /\ ~Kept(j) => item'[j].thrown = item[j].thrown
                          /\ fetch'[j].blob = fetch[j].blob
                          /\ fetch'[j].at = "done" <=> fetch[j].at = "done",
         \A b \in Blobs : rows'[b] = "none" <=> rows[b] = "none"
  PROVE  Images'
<1>1. \A j \in Items : fetch[j].at = "done" => fetch[j].blob \in Blobs
  BY Blobbed
<1> QED
  BY <1>1 DEF Images, ItemHolds, Kept

-----------------------------------------------------------------------------
(* The output fetcher.                                                     *)
LEMMA FetchFileHeld ==
  ASSUME Held, NEW i \in Items, NEW b \in Blobs, FetchFile(i, b)
  PROVE  Given' /\ Selected' /\ Images' /\ Pointed'
<1> USE DEF Held
<1>1. /\ b \notin drawn /\ drawn' = drawn \cup {b} /\ rows' = rows /\ b # None
      /\ fetch[i].at = "no" /\ fetch[i].blob = None
      /\ UNCHANGED <<born, live, content, item, undo, redo, pen, bgc, hgc, exposed>>
  BY Blobbed DEF FetchFile, WriteFile, canvas, stacks, Given
<1>2. /\ fetch'[i].at = "file" /\ fetch'[i].blob = b
      /\ \A j \in Items : j # i => fetch'[j] = fetch[j]
  BY DEF FetchFile, Typed, TypeOK
<1>3. Steps' = Steps
  BY <1>1 DEF Steps
<1>4. Given'
  BY <1>1, <1>2, <1>3 DEF Given, OneWriter
<1>5. ~Kept(i) /\ item[i].layer = None /\ item[i].thrown = "no"
  BY <1>1 DEF Images, ItemHolds
<1>6. Selected'
  BY <1>1, <1>2, <1>5, SelectedSame, Blobbed
<1>7. Images'
  BY <1>1, <1>2, <1>5 DEF Images, ItemHolds, Kept
<1>8. \A c \in Steps : c.kind = "apply" => c.item # i
  BY <1>1 DEF Pointed, AppliesKnown
<1>9. LayersPointed' /\ StepsPointed'
  <2>1. \A l \in live : content[l] # b
    BY <1>1, Blobbed DEF Given
  <2>2. \A c \in Steps : c.blob # b
    BY <1>1 DEF Given
  <2> QED
    BY <1>1, <1>2, <1>3, <2>1, <2>2 DEF Pointed, LayersPointed, StepsPointed, Of
<1>10. AppliesKnown' /\ PenPaints'
  BY <1>1, <1>2, <1>3, <1>8 DEF Pointed, AppliesKnown, PenPaints
<1>11. Sound' = Sound
  BY <1>1, <1>2, <1>5 DEF Sound, Kept
<1>12. UndoPointed' /\ RedoFree' /\ Once'
  BY <1>1, <1>11 DEF Pointed, UndoPointed, RedoFree, Once
<1> QED
  BY <1>4, <1>6, <1>7, <1>9, <1>10, <1>12 DEF Pointed

LEMMA FetchRowHeld ==
  ASSUME Held, NEW i \in Items, FetchRow(i)
  PROVE  Given' /\ Selected' /\ Images' /\ Pointed'
<1> USE DEF Held
<1> DEFINE b == fetch[i].blob
<1>1. /\ drawn' = drawn /\ rows' = [rows EXCEPT ![b] = "young"] /\ fetch[i].at = "file" /\ b \in Blobs /\ b # None
      /\ UNCHANGED <<born, live, content, item, undo, redo, pen, bgc, hgc, exposed>>
  BY Blobbed DEF FetchRow, WriteRow, canvas, stacks
<1>2. /\ fetch'[i].at = "row" /\ fetch'[i].blob = b
      /\ \A j \in Items : j # i => fetch'[j] = fetch[j]
  BY DEF FetchRow, Typed, TypeOK
<1>3. ~Kept(i) /\ b \in drawn /\ b # pen.new
  BY <1>1 DEF Images, ItemHolds, Given, OneWriter
<1>4. \A j \in Items : /\ fetch'[j].blob = fetch[j].blob /\ (fetch'[j].at = "no" <=> fetch[j].at = "no")
                       /\ fetch'[j].at = "done" <=> fetch[j].at = "done"
  BY <1>1, <1>2
<1>5. \A j \in Items : fetch[j].at = "done" => fetch[j].blob \in Blobs /\ fetch[j].blob # b
  BY <1>1, Blobbed DEF Given, OneWriter
<1>6. \A c \in Blobs : c # b => rows'[c] = rows[c]
  BY <1>1 DEF Typed, TypeOK
<1>7. Images'
  BY <1>1, <1>4, <1>5, <1>6 DEF Images, ItemHolds, Kept
<1>8. Sound' \subseteq Sound
  BY <1>1, <1>4, <1>5, <1>6 DEF Sound, Kept, Images, ItemHolds
<1>9. Pointed' /\ Steps' \subseteq Steps
  BY <1>1, <1>4, <1>8, PointedSame
<1>10. pen.new # None => pen.new \in Blobs
  BY DEF Typed, TypeOK
<1>11. Given'
  <2> HIDE DEF b
  <2>1. \A c \in Blobs : rows'[c] # "none" => c \in drawn
    BY <1>3, <1>6 DEF Given
  <2>2. pen.new # None => (rows[pen.new] = "none" => rows'[pen.new] = "none")
    BY <1>3, <1>6, <1>10
  <2>3. \A l \in Layers : content[l] \in drawn \cup {None}
    BY DEF Given
  <2>4. live \subseteq born
    BY DEF Given
  <2> QED
    BY <1>1, <1>4, <1>9, <2>1, <2>2, <2>3, <2>4, GivenSame
<1>12. Selected'
  BY <1>1, <1>4, SelectedSame, Blobbed
<1> QED
  BY <1>7, <1>9, <1>11, <1>12

LEMMA FetchItemHeld ==
  ASSUME Held, NEW i \in Items, FetchItem(i)
  PROVE  Given' /\ Selected' /\ Images' /\ Pointed'
<1> USE DEF Held
<1> DEFINE b == fetch[i].blob
<1>1. /\ drawn' = drawn /\ rows' = rows /\ fetch[i].at = "row" /\ b \in Blobs /\ b # None
      /\ UNCHANGED <<born, live, content, undo, redo, pen, bgc, hgc, exposed>>
  BY Blobbed DEF FetchItem, canvas, stacks, store
<1>2. /\ fetch'[i].at = IF rows[b] = "none" THEN "lost" ELSE "done"
      /\ fetch'[i].blob = b
      /\ \A j \in Items : j # i => fetch'[j] = fetch[j]
  BY DEF FetchItem, Typed, TypeOK
<1>3. ~Kept(i) /\ item[i].layer = None
  BY <1>1 DEF Images, ItemHolds
<1>4. /\ \A j \in Items : j # i => item'[j] = item[j]
      /\ rows[b] = "none" => item'[i] = item[i]
      /\ rows[b] # "none" => item'[i] = [NoItem EXCEPT !.is = "kept", !.image = b]
  BY Blobbed DEF FetchItem
<1>5. /\ item'[i].layer = None
      /\ rows[b] = "none" => item'[i] = item[i]
      /\ rows[b] # "none" => item'[i].is = "kept" /\ item'[i].image = b /\ item'[i].thrown = "no"
  BY <1>3, <1>4 DEF NoItem
<1>6. Steps' = Steps
  BY <1>1 DEF Steps
<1>7. Given'
  BY <1>1, <1>2, <1>6, GivenSame DEF Given
<1>8. Selected'
  BY <1>1, <1>2, <1>4, <1>5, SelectedSame, Blobbed
<1>9. Images'
  BY <1>1, <1>2, <1>3, <1>4, <1>5 DEF Images, ItemHolds, Kept
<1>10. \A c \in Steps : c.kind = "apply" => c.item # i /\ c.item \in Items
  BY <1>1 DEF Pointed, AppliesKnown
<1>11. LayersPointed' /\ StepsPointed'
  BY <1>1, <1>2, <1>3, <1>4, <1>5, <1>6 DEF Pointed, LayersPointed, StepsPointed, Of
<1>12. AppliesKnown' /\ PenPaints'
  BY <1>1, <1>2, <1>6, <1>10 DEF Pointed, AppliesKnown, PenPaints
<1>13. Elems(undo) \subseteq Steps /\ Elems(redo) \subseteq Steps
  BY DEF Steps
<1>14. \A j \in Items : j # i => (j \in Sound' <=> j \in Sound)
  BY <1>1, <1>2, <1>4 DEF Sound, Kept
<1>15. UndoPointed' /\ RedoFree'
  BY <1>1, <1>4, <1>10, <1>13, <1>14 DEF Pointed, UndoPointed, RedoFree
<1>16. Once'
  BY <1>1, <1>10, <1>13, <1>14, OnceFewer DEF Pointed, Once
<1> QED
  BY <1>7, <1>8, <1>9, <1>11, <1>12, <1>15, <1>16 DEF Pointed

(* An item ages or is discarded.                                           *)
LEMMA ItemThrownHeld ==
  ASSUME Held, NEW i \in Items, ItemAges(i) \/ Discard(i)
  PROVE  Given' /\ Selected' /\ Images' /\ Pointed'
<1> USE DEF Held
<1>1. UNCHANGED <<files, rows, drawn, born, live, content, fetch, undo, redo, pen, bgc, hgc>>
      /\ exposed \subseteq exposed'
  BY DEF ItemAges, Discard, store, canvas, stacks
<1>2. \/ item' = [item EXCEPT ![i].old = TRUE]
      \/ item' = [item EXCEPT ![i].thrown = "long"] /\ item[i].thrown # "no"
      \/ item' = [item EXCEPT ![i].thrown = "recent"] /\ fetch[i].blob \in exposed'
  BY DEF ItemAges, Discard
<1>0. Kept(i)
  BY DEF ItemAges, Discard
<1>3. \A j \in Items : /\ item'[j].is = item[j].is /\ item'[j].layer = item[j].layer
                       /\ item'[j].image = item[j].image
                       /\ item'[j].thrown # "no" => item[j].thrown # "no" \/ fetch[j].blob \in exposed'
                       /\ ~Kept(j) => item'[j].thrown = item[j].thrown
  BY <1>0, <1>2, Blobbed DEF ItemRow
<1>4. Sound' \subseteq Sound
  BY <1>1, <1>3, SoundSame DEF Kept
<1>5. Pointed' /\ Steps' \subseteq Steps
  BY <1>1, <1>3, <1>4, PointedSame
<1>6. Given'
  BY <1>1, <1>5, GivenSame DEF Given
<1>7. Images'
  BY <1>1, <1>3, ImagesSame
<1>8. Selected'
  BY <1>1, <1>3, SelectedSame, Blobbed
<1> QED
  BY <1>5, <1>6, <1>7, <1>8

-----------------------------------------------------------------------------
(* paint_strokes.                                                          *)
LEMMA PaintHeld ==
  ASSUME Held, NEW l \in Layers, Paint(l)
  PROVE  Given' /\ Selected' /\ Images' /\ Pointed'
<1> USE DEF Held
<1> DEFINE c == [kind |-> "paint", layer |-> l, blob |-> content[l], item |-> None]
<1>1. /\ l \in live /\ pen.at = "idle" /\ pen.new = None
      /\ UNCHANGED <<files, rows, drawn, born, live, content, item, fetch, undo, redo, bgc, hgc, exposed>>
      /\ pen'.at = "read" /\ pen'.new = None /\ pen'.cmd = c
  BY DEF Paint, store, canvas, stacks, Typed, PenHolds
<1>2. c.kind = "paint" /\ c.layer = l /\ c.blob = content[l]
  OBVIOUS
<1> HIDE DEF c
<1>3. Steps' = Steps \cup {c}
  BY <1>1 DEF Steps
<1>4. Given'
  BY <1>1, <1>2, <1>3 DEF Given, OneWriter
<1>5. Selected'
  BY <1>1, SelectedSame, Blobbed
<1>6. Images'
  BY <1>1, ImagesSame
<1>7. LayersPointed' /\ StepsPointed'
  BY <1>1, <1>2, <1>3 DEF Pointed, LayersPointed, StepsPointed, Of
<1>8. AppliesKnown' /\ PenPaints'
  BY <1>1, <1>2, <1>3 DEF Pointed, AppliesKnown, PenPaints
<1>9. Sound' = Sound
  BY <1>1 DEF Sound, Kept
<1>10. UndoPointed' /\ RedoFree' /\ Once'
  BY <1>1, <1>9 DEF Pointed, UndoPointed, RedoFree, Once
<1> QED
  BY <1>4, <1>5, <1>6, <1>7, <1>8, <1>10 DEF Pointed

LEMMA PaintFailsHeld ==
  ASSUME Held, PaintFails
  PROVE  Given' /\ Selected' /\ Images' /\ Pointed'
<1> USE DEF Held
<1>1. /\ UNCHANGED <<files, rows, drawn, born, live, content, item, fetch, undo, redo, bgc, hgc, exposed>>
      /\ pen'.at = "idle" /\ pen'.new = None /\ pen.at = "read"
  BY DEF PaintFails, Resting, store, canvas, stacks
<1>2. Sound' = Sound
  BY <1>1 DEF Sound, Kept
<1>3. Pointed' /\ Steps' \subseteq Steps
  BY <1>1, <1>2, PointedSame
<1>4. Given'
  BY <1>1, <1>3, GivenSame DEF Given
<1> QED
  BY <1>1, <1>3, <1>4, ImagesSame, SelectedSame, Blobbed

LEMMA PaintFileHeld ==
  ASSUME Held, NEW b \in Blobs, PaintFile(b)
  PROVE  Given' /\ Selected' /\ Images' /\ Pointed'
<1> USE DEF Held
<1>1. /\ UNCHANGED <<rows, born, live, content, item, fetch, undo, redo, bgc, hgc, exposed>>
      /\ b \notin drawn /\ drawn' = drawn \cup {b} /\ b # None
      /\ pen'.at = "file" /\ pen'.new = b /\ pen'.cmd = pen.cmd /\ pen.at = "read"
  BY Blobbed DEF PaintFile, WriteFile, canvas, stacks, Typed, TypeOK
<1>2. Sound' = Sound
  BY <1>1 DEF Sound, Kept
<1>3. Pointed' /\ Steps' \subseteq Steps
  BY <1>1, <1>2, PointedSame
<1>4. Given'
  BY <1>1, <1>3 DEF Given, OneWriter
<1>5. Selected'
  BY <1>1, SelectedSame, Blobbed
<1> QED
  BY <1>1, <1>3, <1>4, <1>5, ImagesSame

LEMMA PaintDoneHeld ==
  ASSUME Held, PaintDone
  PROVE  Given' /\ Selected' /\ Images' /\ Pointed'
<1> USE DEF Held
<1> DEFINE c == pen.cmd
           b == pen.new
<1>1. /\ UNCHANGED <<drawn, born, live, item, fetch, bgc, hgc, exposed>>
      /\ rows' = [rows EXCEPT ![b] = "young"] /\ b # None /\ b \in Blobs
      /\ pen.at = "file" /\ pen'.at = "idle" /\ pen'.new = None
      /\ c \in Steps /\ c.kind = "paint" /\ c \in Commands
  BY DEF PaintDone, WriteRow, Resting, Typed, TypeOK, PenHolds, Steps, Pointed, PenPaints
<1>2. \A l \in Layers : content'[l] = content[l] \/ content'[l] = b
  BY DEF PaintDone, Typed, TypeOK
<1>3. \/ undo' = undo /\ redo' = redo
      \/ undo' = Append(undo, c) /\ redo' = <<>>
  BY DEF PaintDone, stacks
<1>4. \A d \in bgc.pend \cup {bgc.cur} : d # None => d # b
  BY DEF Selected, BlobsSelected
<1> HIDE DEF c
<1>5. b \in drawn /\ \A i \in Items : fetch[i].blob # b
  BY <1>1 DEF Given, OneWriter
<1>6. \A d \in Blobs : d # b => rows'[d] = rows[d]
  BY <1>1 DEF Typed, TypeOK
<1>7. \A j \in Items : fetch[j].at = "done" => fetch[j].blob \in Blobs /\ fetch[j].blob # b
  BY <1>5, Blobbed
<1> HIDE DEF b
<1>8. Images'
  BY <1>1, <1>6, <1>7 DEF Images, ItemHolds, Kept
<1>9. Sound' \subseteq Sound
  BY <1>1, <1>6, <1>7 DEF Sound, Kept, Images, ItemHolds
<1>10. /\ Elems(undo') \subseteq Elems(undo) \cup {c} /\ Elems(redo') \subseteq Elems(redo)
       /\ OnceIn(undo', Sound) /\ OnceIn(redo', Sound)
  <2>1. Elems(<<>>) = {} /\ OnceIn(<<>>, Sound)
    BY DEF Elems, OnceIn
  <2>2. Elems(Append(undo, c)) = Elems(undo) \cup {c} /\ OnceIn(Append(undo, c), Sound)
    BY <1>1, Blobbed, ElemsFacts, OnceAppend DEF Pointed, Once
  <2> QED
    BY <1>3, <2>1, <2>2 DEF Pointed, Once
<1>11. Steps' \subseteq Steps
  BY <1>1, <1>10 DEF Steps
<1>12. Given'
  <2>1. \A l \in Layers : content'[l] \in drawn \cup {None}
    BY <1>2, <1>5 DEF Given
  <2>2. \A d \in Blobs : rows'[d] # "none" => d \in drawn
    BY <1>5, <1>6 DEF Given
  <2> QED
    BY <1>1, <1>11, <2>1, <2>2 DEF Given, OneWriter
<1>13. Selected'
  BY <1>1, <1>2, <1>4, SelectedSame, Blobbed
<1>14. LayersPointed'
  BY <1>1, <1>2, <1>5, Blobbed DEF Pointed, LayersPointed, Of
<1>15. StepsPointed' /\ AppliesKnown' /\ PenPaints'
  BY <1>1, <1>11 DEF Pointed, StepsPointed, AppliesKnown, PenPaints, Of
<1>16. UndoPointed' /\ RedoFree'
  BY <1>1, <1>9, <1>10 DEF Pointed, UndoPointed, RedoFree
<1>17. Once'
  BY <1>9, <1>10, OnceFewer DEF Once
<1> QED
  BY <1>8, <1>12, <1>13, <1>14, <1>15, <1>16, <1>17 DEF Pointed

-----------------------------------------------------------------------------
(* Undo and redo.                                                          *)
LEMMA Undoes ==
  ASSUME Held, NEW c, Undoing(c)
  PROVE  /\ c \in Elems(undo) /\ c \in Steps /\ c \in Commands
         /\ Elems(undo') \subseteq Elems(undo) /\ Elems(redo') = Elems(redo) \cup {c}
         /\ UNCHANGED <<files, rows, drawn, fetch, pen, bgc, hgc>>
         /\ Steps' \subseteq Steps
         /\ OnceIn(undo', Sound)
         /\ c.kind = "apply" /\ c.item \in Sound =>
              \A d \in Elems(undo') : d.kind = "apply" => d.item # c.item
<1> USE DEF Held
<1>1. /\ undo # <<>> /\ c = Last(undo) /\ undo' = Pop(undo) /\ redo' = Append(redo, c)
      /\ UNCHANGED <<files, rows, drawn, fetch, pen, bgc, hgc>>
  BY DEF Undoing, store
<1>2. undo \in Seq(Commands) /\ redo \in Seq(Commands)
  BY Blobbed
<1>3. c \in Elems(undo) /\ c \in Commands /\ Elems(undo') \subseteq Elems(undo)
      /\ Elems(redo') = Elems(redo) \cup {c}
  BY <1>1, <1>2, ElemsFacts
<1>4. c \in Steps /\ Steps' \subseteq Steps
  BY <1>1, <1>3 DEF Steps
<1>5. /\ OnceIn(undo', Sound)
      /\ c.kind = "apply" /\ c.item \in Sound =>
           \A d \in Elems(undo') : d.kind = "apply" => d.item # c.item
  BY <1>1, <1>2, OncePop DEF Pointed, Once
<1> QED
  BY <1>1, <1>3, <1>4, <1>5

LEMMA UndoPaintHeld ==
  ASSUME Held, NEW c, UndoPaint(c)
  PROVE  Given' /\ Selected' /\ Images' /\ Pointed'
<1> USE DEF Held
<1>1. /\ c \in Elems(undo) /\ c \in Steps /\ c \in Commands /\ c.kind = "paint"
      /\ Elems(undo') \subseteq Elems(undo) /\ Elems(redo') = Elems(redo) \cup {c}
      /\ UNCHANGED <<files, rows, drawn, fetch, pen, bgc, hgc, born, live, item>>
      /\ Steps' \subseteq Steps /\ OnceIn(undo', Sound) /\ redo' = Append(redo, c)
  BY Undoes DEF UndoPaint, Undoing
<1>2. \A l \in Layers : \/ content'[l] = content[l]
                        \/ l = c.layer /\ l \in live /\ content'[l] = c.blob
  BY <1>1 DEF UndoPaint, Typed, TypeOK
<1>3. /\ exposed \subseteq exposed'
      /\ c.layer \in live /\ Picked(c.blob) => c.blob \in exposed'
  BY DEF UndoPaint
<1>4. Sound' \subseteq Sound
  BY <1>1, <1>3, SoundSame DEF Kept
<1>5. Given'
  <2>1. \A l \in Layers : content'[l] \in drawn \cup {None}
    BY <1>1, <1>2 DEF Given
  <2> QED
    BY <1>1, <2>1, GivenSame DEF Given
<1>6. Images'
  BY <1>1, <1>3, ImagesSame
<1>7. Selected'
  <2>1. ASSUME NEW b \in bgc.pend \cup {bgc.cur}, NEW l \in live', content'[l] = b, b \notin exposed'
        PROVE  l \in live /\ content[l] = b
    BY <1>1, <1>2, <1>3, <2>1, Blobbed DEF Picked
  <2> QED
    BY <1>1, <1>3, <2>1, SelectedSame, Blobbed
<1>8. LayersPointed'
  BY <1>1, <1>2, <1>3, Blobbed DEF Pointed, LayersPointed, StepsPointed, Of
<1>9. StepsPointed' /\ AppliesKnown' /\ PenPaints'
  BY <1>1, <1>3 DEF Pointed, StepsPointed, AppliesKnown, PenPaints, Of
<1>10. UndoPointed' /\ RedoFree'
  BY <1>1, <1>4 DEF Pointed, UndoPointed, RedoFree
<1>11. Once'
  <2>1. OnceIn(redo', Sound)
    BY <1>1, Blobbed, OnceAppend DEF Pointed, Once
  <2> QED
    BY <1>1, <1>4, <2>1, OnceFewer DEF Once
<1> QED
  BY <1>5, <1>6, <1>7, <1>8, <1>9, <1>10, <1>11 DEF Pointed

LEMMA UndoApplyHeld ==
  ASSUME Held, NEW c, UndoApply(c)
  PROVE  Given' /\ Selected' /\ Images' /\ Pointed'
<1> USE DEF Held
<1> DEFINE i == c.item
<1>1. /\ c \in Elems(undo) /\ c \in Steps /\ c \in Commands /\ c.kind = "apply"
      /\ Elems(undo') \subseteq Elems(undo) /\ Elems(redo') = Elems(redo) \cup {c}
      /\ UNCHANGED <<files, rows, drawn, fetch, pen, bgc, hgc, born, exposed>>
      /\ Steps' \subseteq Steps /\ OnceIn(undo', Sound) /\ redo' = Append(redo, c)
      /\ i \in Sound => \A d \in Elems(undo') : d.kind = "apply" => d.item # i
  BY Undoes DEF UndoApply, Undoing
<1>2. live' = live \ {c.layer} /\ \A l \in Layers : content'[l] = IF l = c.layer THEN None ELSE content[l]
  BY DEF UndoApply, Typed, TypeOK
<1>3. i \in Items /\ c.layer \in Layers /\ c.layer # None
  BY <1>1, Blobbed DEF Pointed, AppliesKnown, Commands
<1>4. i \in Sound => item[i].layer = c.layer
  BY <1>1 DEF Pointed, UndoPointed
<1>5. /\ \A j \in Items : j # i => item'[j] = item[j]
      /\ item'[i].is = item[i].is /\ item'[i].image = item[i].image /\ item'[i].thrown = item[i].thrown
      /\ item'[i].layer = IF item[i].layer = c.layer THEN None ELSE item[i].layer
  <2>1. item' = UnmarkApplied(item, i, c.layer)
    BY DEF UndoApply
  <2>2. item[i] \in ItemRow
    BY <1>3, Blobbed
  <2>3. CASE item[i].layer = c.layer
    <3>1. item' = [item EXCEPT ![i].layer = None]
      BY <2>1, <2>3 DEF UnmarkApplied
    <3> QED
      BY <1>3, <2>2, <2>3, <3>1, Blobbed DEF ItemRow
  <2>4. CASE item[i].layer # c.layer
    BY <2>1, <2>4 DEF UnmarkApplied
  <2> QED
    BY <2>3, <2>4
<1> HIDE DEF i
<1>6. Given'
  <2>1. \A l \in Layers : content'[l] \in drawn \cup {None}
    BY <1>2 DEF Given
  <2>2. live' \subseteq born
    BY <1>2 DEF Given
  <2> QED
    BY <1>1, <2>1, <2>2, GivenSame DEF Given
<1>7. Images'
  BY <1>1, <1>5 DEF Images, ItemHolds, Kept
<1>8. Sound' = Sound
  BY <1>1, <1>5 DEF Sound, Kept
<1>9. \A l \in live' : l \in live /\ content'[l] = content[l]
  BY <1>2, Blobbed
<1>10. Selected'
  <2>1. \A j \in Items : item'[j].layer = item[j].layer \/ item'[j].layer = None
    BY <1>5
  <2> QED
    BY <1>1, <1>9, <2>1, SelectedSame, Blobbed
<1>11. LayersPointed' /\ StepsPointed'
  <2>1. ASSUME NEW j \in Items, NEW l \in live', item[j].layer = l
        PROVE  item'[j].layer = l
    BY <1>2, <1>5, <2>1, Blobbed
  <2>2. LayersPointed'
    BY <1>1, <1>9, <2>1 DEF Pointed, LayersPointed, Of
  <2>3. StepsPointed'
    BY <1>1, <1>9, <2>1 DEF Pointed, StepsPointed, Of
  <2> QED
    BY <2>2, <2>3
<1>12. AppliesKnown' /\ PenPaints'
  BY <1>1 DEF Pointed, AppliesKnown, PenPaints
<1>13. Elems(undo) \subseteq Steps /\ Elems(redo) \subseteq Steps
       /\ \A d \in Steps : d.kind = "apply" => d.item \in Items
  BY DEF Steps, Pointed, AppliesKnown
<1>14. UndoPointed'
  BY <1>1, <1>5, <1>8, <1>13 DEF Pointed, UndoPointed
<1>15. RedoFree'
  BY <1>1, <1>4, <1>5, <1>8, <1>13 DEF Pointed, RedoFree, i
<1>16. Once'
  <2>1. i \in Sound => \A d \in Elems(redo) : d.kind = "apply" => d.item # i
    BY <1>3, <1>4 DEF Pointed, RedoFree
  <2>2. OnceIn(redo', Sound)
    BY <1>1, <2>1, Blobbed, OnceAppend DEF Pointed, Once, i
  <2> QED
    BY <1>1, <1>8, <2>2 DEF Once
<1> QED
  BY <1>6, <1>7, <1>10, <1>11, <1>12, <1>14, <1>15, <1>16 DEF Pointed

LEMMA Redoes ==
  ASSUME Held, NEW c, Redoing(c)
  PROVE  /\ c \in Elems(redo) /\ c \in Steps /\ c \in Commands
         /\ redo' = Pop(redo) /\ Elems(redo') \subseteq Elems(redo)
         /\ OnceIn(redo', Sound)
         /\ c.kind = "apply" /\ c.item \in Sound =>
              \A d \in Elems(redo') : d.kind = "apply" => d.item # c.item
<1> USE DEF Held
<1>1. redo # <<>> /\ c = Last(redo) /\ redo' = Pop(redo)
  BY DEF Redoing
<1>2. redo \in Seq(Commands)
  BY Blobbed
<1>3. c \in Elems(redo) /\ c \in Commands /\ Elems(redo') \subseteq Elems(redo)
  BY <1>1, <1>2, ElemsFacts
<1>4. c \in Steps
  BY <1>3 DEF Steps
<1>5. /\ OnceIn(redo', Sound)
      /\ c.kind = "apply" /\ c.item \in Sound =>
           \A d \in Elems(redo') : d.kind = "apply" => d.item # c.item
  BY <1>1, <1>2, OncePop DEF Pointed, Once
<1> QED
  BY <1>1, <1>3, <1>4, <1>5

(* A command that is redone without a new layer.                           *)
LEMMA MovedHeld ==
  ASSUME Held, NEW c, RedoPaint(c) \/ RedoApplyFails(c)
  PROVE  Given' /\ Selected' /\ Images' /\ Pointed'
<1> USE DEF Held
<1>1. /\ c \in Elems(redo) /\ c \in Steps /\ c \in Commands
      /\ Elems(redo') \subseteq Elems(redo) /\ OnceIn(redo', Sound)
      /\ UNCHANGED <<files, rows, drawn, born, live, content, item, fetch, bgc, hgc, exposed>>
      /\ undo' = Append(undo, c)
  BY Redoes DEF RedoPaint, RedoApplyFails, store, canvas
<1>2. Elems(undo') = Elems(undo) \cup {c}
  BY <1>1, Blobbed, ElemsFacts
<1>3. /\ pen'.new \in {pen.new, None}
      /\ pen'.at # "idle" => (pen'.cmd = c /\ c.kind = "paint") \/ pen' = pen
  BY DEF RedoPaint, RedoApplyFails
<1>4. Steps' \subseteq Steps
  BY <1>1, <1>2, <1>3 DEF Steps
<1>5. c.kind = "apply" => c.item \notin Sound
  BY <1>1 DEF RedoPaint, RedoApplyFails, Pointed, AppliesKnown, Sound
<1>6. Given'
  BY <1>1, <1>3, <1>4, GivenSame DEF Given
<1>7. Images'
  BY <1>1, ImagesSame
<1>8. Sound' = Sound
  BY <1>1 DEF Sound, Kept
<1>9. LayersPointed' /\ StepsPointed' /\ AppliesKnown'
  BY <1>1, <1>4 DEF Pointed, LayersPointed, StepsPointed, AppliesKnown, Of
<1>10. PenPaints'
  BY <1>3 DEF Pointed, PenPaints
<1>11. UndoPointed' /\ RedoFree'
  BY <1>1, <1>2, <1>5, <1>8 DEF Pointed, UndoPointed, RedoFree
<1>12. Once'
  BY <1>1, <1>5, <1>8, Blobbed, OnceAppend DEF Pointed, Once
<1> QED
  BY <1>1, <1>3, <1>6, <1>7, <1>9, <1>10, <1>11, <1>12, SelectedSame, Blobbed DEF Pointed


(* An item that is applied, or applied again, gets one more layer: its own *)
(* or, if it has one, or is discarded, or is in a selection, its blob is   *)
(* exposed.                                                                *)
LEMMA AppliedHeld ==
  ASSUME Held, NEW i \in Items, NEW l \in Layers, NEW c \in Commands,
         c.kind = "apply", c.layer = l, c.item = i, c.blob = fetch[i].blob, Kept(i),
         Insert(l, fetch[i].blob), item' = MarkApplied(item, i, l), undo' = Append(undo, c),
         exposed \subseteq exposed',
         item[i].layer # None \/ item[i].thrown # "no" \/ Picked(fetch[i].blob) =>
           fetch[i].blob \in exposed',
         Elems(redo') \subseteq Elems(redo), OnceIn(redo', Sound),
         i \in Sound => \A d \in Elems(redo') : d.kind = "apply" => d.item # i,
         UNCHANGED <<rows, drawn, fetch, pen, bgc, hgc>>
  PROVE  Given' /\ Selected' /\ Images' /\ Pointed'
<1> USE DEF Held
<1> DEFINE b == fetch[i].blob
<1>1. /\ l \notin born /\ born' = born \cup {l} /\ live' = live \cup {l} /\ l \notin live
      /\ content'[l] = b /\ \A k \in Layers : k # l => content'[k] = content[k]
  BY DEF Insert, Typed, TypeOK, Given
<1>2. /\ fetch[i].at = "done" /\ b \in Blobs /\ b # None /\ b \in drawn /\ l # None
      /\ \A j \in Items : fetch[j].blob = b => j = i
  BY Blobbed DEF Images, ItemHolds, Given, OneWriter
<1>3. /\ \A j \in Items : j # i => item'[j] = item[j]
      /\ item'[i].is = item[i].is /\ item'[i].image = item[i].image /\ item'[i].thrown = item[i].thrown
      /\ item'[i].layer = IF item[i].thrown = "no" THEN l ELSE item[i].layer
  <2>1. item' = IF item[i].thrown = "no" THEN [item EXCEPT ![i].layer = l] ELSE item
    BY DEF MarkApplied, Kept
  <2>2. item[i] \in ItemRow /\ item \in [Items -> ItemRow]
    BY Blobbed
  <2> QED
    BY <2>1, <2>2 DEF ItemRow
<1>4. b \notin exposed' => item[i].layer = None /\ item'[i].layer = l
  BY <1>3
<1>5. Elems(undo') = Elems(undo) \cup {c}
  BY Blobbed, ElemsFacts
<1>6. Steps' \subseteq Steps \cup {c}
  BY <1>5 DEF Steps
<1> HIDE DEF b
<1>7. Given'
  BY <1>1, <1>2, <1>6 DEF Given, OneWriter, b
<1>8. Images'
  BY <1>3 DEF Images, ItemHolds, Kept
<1>9. Selected'
  <2>1. ASSUME NEW d \in bgc.pend \cup {bgc.cur}, NEW k \in live', d # None,
               content'[k] = d, d \notin exposed'
        PROVE  k \in live /\ content[k] = d
    <3>1. k # l
      BY <1>1, <2>1 DEF Picked, b
    <3> QED
      BY <1>1, <2>1, <3>1, Blobbed
  <2>2. ASSUME NEW j \in hgc.pend \cup {hgc.cur}, j # None
        PROVE  fetch[j].blob \in exposed' \/ item'[j].layer = item[j].layer
    <3>1. j = i => Picked(b)
      BY <2>2 DEF Picked, b
    <3> QED
      BY <1>3, <2>2, <3>1, Blobbed DEF b
  <2> QED
    BY <2>1, <2>2, SelectedSame
<1>10. ASSUME NEW j \in Items, NEW k \in live, item[j].layer = k, fetch[j].blob \notin exposed'
       PROVE  item'[j].layer = k
  BY <1>3, <1>4, <1>10, Blobbed DEF b
<1>11. LayersPointed'
  <2> SUFFICES ASSUME NEW j \in Items, NEW k \in live', content'[k] # None,
                      content'[k] = fetch[j].blob, fetch[j].blob \notin exposed'
               PROVE  item'[j].layer = k
    BY DEF LayersPointed, Of
  <2>1. CASE k = l
    BY <1>1, <1>2, <1>4, <2>1 DEF b
  <2>2. CASE k # l
    <3>1. k \in live /\ content'[k] = content[k]
      BY <1>1, <2>2, Blobbed
    <3>2. item[j].layer = k
      BY <3>1 DEF Pointed, LayersPointed, Of
    <3> QED
      BY <1>10, <3>1, <3>2
  <2> QED
    BY <2>1, <2>2
<1>12. StepsPointed'
  <2> SUFFICES ASSUME NEW j \in Items, NEW d \in Steps', d.kind = "paint", d.layer \in live',
                      d.blob # None, d.blob = fetch[j].blob, fetch[j].blob \notin exposed'
               PROVE  item'[j].layer = d.layer
    BY DEF StepsPointed, Of
  <2>1. d \in Steps
    BY <1>6
  <2>2. d.layer \in live
    BY <1>1, <2>1 DEF Given
  <2>3. item[j].layer = d.layer
    BY <2>1, <2>2 DEF Pointed, StepsPointed, Of
  <2> QED
    BY <1>10, <2>2, <2>3
<1>13. AppliesKnown' /\ PenPaints'
  BY <1>2, <1>6 DEF Pointed, AppliesKnown, PenPaints
<1>14. /\ Elems(undo) \subseteq Steps /\ Elems(redo) \subseteq Steps
       /\ \A d \in Steps : d.kind = "apply" => d.item \in Items
       /\ \A d \in Steps : d.layer \in Layers /\ d.layer # None
  BY Blobbed DEF Steps, Pointed, AppliesKnown, Commands
<1>15. Sound' \subseteq Sound
  BY <1>3, SoundSame DEF Kept
<1>16. i \in Sound' => b \notin exposed' /\ item[i].layer = None /\ item'[i].layer = l
  BY <1>4 DEF Sound, b
<1>17. \A d \in Elems(undo) : d.kind = "apply" /\ i \in Sound' => d.item # i
  BY <1>14, <1>15, <1>16 DEF Pointed, UndoPointed
<1>18. UndoPointed'
  <2> SUFFICES ASSUME NEW d \in Elems(undo'), d.kind = "apply", d.item \in Sound'
               PROVE  item'[d.item].layer = d.layer
    BY DEF UndoPointed
  <2>1. CASE d = c
    BY <1>16, <2>1
  <2>2. CASE d \in Elems(undo)
    BY <1>3, <1>14, <1>15, <1>17, <2>2 DEF Pointed, UndoPointed
  <2> QED
    BY <1>5, <2>1, <2>2
<1>19. RedoFree'
  BY <1>3, <1>14, <1>15 DEF Pointed, RedoFree
<1>20. Once'
  <2>1. OnceIn(undo, Sound') /\ OnceIn(redo', Sound')
    BY <1>15, OnceFewer DEF Pointed, Once
  <2>2. OnceIn(undo', Sound')
    BY <1>17, <2>1, Blobbed, OnceAppend
  <2> QED
    BY <2>1, <2>2 DEF Once
<1> QED
  BY <1>7, <1>8, <1>9, <1>11, <1>12, <1>13, <1>18, <1>19, <1>20 DEF Pointed

LEMMA ApplyHeld ==
  ASSUME Held, NEW i \in Items, NEW l \in Fresh, Apply(i, l)
  PROVE  Given' /\ Selected' /\ Images' /\ Pointed'
<1> DEFINE c == [kind |-> "apply", layer |-> l, blob |-> item[i].image, item |-> i]
<1>1. /\ Kept(i) /\ item[i].thrown = "no" /\ item[i].image # None /\ l \in Layers
      /\ UNCHANGED <<rows, drawn, fetch, pen, bgc, hgc>>
      /\ Insert(l, item[i].image) /\ item' = MarkApplied(item, i, l)
      /\ undo' = Append(undo, c) /\ redo' = <<>>
      /\ exposed \subseteq exposed'
      /\ Picked(item[i].image) \/ item[i].layer # None => item[i].image \in exposed'
  BY DEF Apply, store, Layers
<1>2. item[i].image = fetch[i].blob /\ fetch[i].at = "done"
  BY <1>1 DEF Held, Images, ItemHolds
<1>3. /\ c.kind = "apply" /\ c.layer = l /\ c.item = i /\ c.blob = fetch[i].blob
      /\ c \in Commands
  BY <1>1, <1>2, Blobbed DEF Commands, Held
<1> HIDE DEF c
<1>4. Elems(<<>>) = {} /\ OnceIn(<<>>, Sound)
  BY DEF Elems, OnceIn
<1>5. Elems(redo') \subseteq Elems(redo) /\ OnceIn(redo', Sound)
      /\ \A d \in Elems(redo') : d.kind = "apply" => d.item # i
  BY <1>1, <1>4
<1>6. /\ Insert(l, fetch[i].blob)
      /\ Picked(fetch[i].blob) \/ item[i].layer # None => fetch[i].blob \in exposed'
  BY <1>1, <1>2
<1> QED
  BY <1>1, <1>3, <1>5, <1>6, AppliedHeld

LEMMA RedoApplyHeld ==
  ASSUME Held, NEW d, NEW l \in Fresh, RedoApply(d, l)
  PROVE  Given' /\ Selected' /\ Images' /\ Pointed'
<1> DEFINE c == [d EXCEPT !.layer = l]
           i == d.item
<1>1. /\ d \in Elems(redo) /\ d \in Steps /\ d \in Commands /\ d.kind = "apply"
      /\ Elems(redo') \subseteq Elems(redo) /\ OnceIn(redo', Sound)
      /\ d.item \in Sound => \A e \in Elems(redo') : e.kind = "apply" => e.item # d.item
  BY Redoes DEF RedoApply
<1>2. /\ rows[d.blob] # "none" /\ l \in Layers
      /\ UNCHANGED <<rows, drawn, fetch, pen, bgc, hgc>>
      /\ Insert(l, d.blob) /\ item' = MarkApplied(item, i, l)
      /\ undo' = Append(undo, c)
      /\ exposed \subseteq exposed' /\ (Picked(d.blob) => d.blob \in exposed')
  BY DEF RedoApply, store, Layers
<1>3. i \in Items /\ fetch[i].at = "done" /\ d.blob = fetch[i].blob
  BY <1>1 DEF Held, Pointed, AppliesKnown
<1>4. Kept(i)
  BY <1>2, <1>3 DEF Held, Images, ItemHolds
<1>5. item[i].layer # None \/ item[i].thrown # "no" => fetch[i].blob \in exposed
  BY <1>1, <1>2, <1>3, <1>4 DEF Held, Images, ItemHolds, Pointed, RedoFree, Sound
<1>6. c.kind = "apply" /\ c.layer = l /\ c.item = i /\ c.blob = fetch[i].blob /\ c \in Commands
  BY <1>1, <1>2, <1>3 DEF Commands
<1> HIDE DEF c
<1>7. /\ Insert(l, fetch[i].blob) /\ (Picked(fetch[i].blob) => fetch[i].blob \in exposed')
      /\ i \in Sound => \A e \in Elems(redo') : e.kind = "apply" => e.item # i
  BY <1>1, <1>2, <1>3
<1> HIDE DEF i
<1> QED
  BY <1>1, <1>2, <1>3, <1>4, <1>5, <1>6, <1>7, AppliedHeld

-----------------------------------------------------------------------------
(* The collectors.                                                         *)
LEMMA BlobGcStartHeld ==
  ASSUME Held, BlobGcStart
  PROVE  Given' /\ Selected' /\ Images' /\ Pointed'
<1> USE DEF Held
<1>1. /\ UNCHANGED <<files, rows, drawn, born, live, content, item, fetch, undo, redo, pen, hgc, exposed>>
      /\ bgc'.pend = Orphans /\ bgc'.cur = None
  BY DEF BlobGcStart, store, canvas, stacks
<1>2. Sound' = Sound
  BY <1>1 DEF Sound, Kept
<1>3. Pointed' /\ Given' /\ Images'
  BY <1>1, <1>2, PointedSame, GivenSame, ImagesSame DEF Given
<1>4. \A b \in Orphans : b \in drawn /\ b # pen.new /\ \A l \in live : content[l] # b
  BY Blobbed DEF Orphans, Referenced, Given
<1>5. Selected'
  BY <1>1, <1>4 DEF Selected, BlobsSelected, ItemsSelected
<1> QED
  BY <1>3, <1>5

(* What a collector does without deleting, its selection only worked off.  *)
LEMMA UnlinkHeld ==
  ASSUME Held, UNCHANGED <<rows, drawn, born, live, content, item, fetch, undo, redo, pen, exposed>>,
         bgc'.pend \cup {bgc'.cur} \subseteq bgc.pend \cup {bgc.cur, None},
         hgc'.pend \cup {hgc'.cur} \subseteq hgc.pend \cup {hgc.cur, None}
  PROVE  Given' /\ Selected' /\ Images' /\ Pointed'
<1> USE DEF Held
<1>1. Sound' = Sound
  BY DEF Sound, Kept
<1>2. Pointed' /\ Given' /\ Images'
  BY <1>1, PointedSame, GivenSame, ImagesSame DEF Given
<1>3. Selected'
  BY DEF Selected, BlobsSelected, ItemsSelected
<1> QED
  BY <1>2, <1>3

LEMMA BlobGcUnlinkHeld ==
  ASSUME Held, NEW b \in Blobs, BlobGcUnlink(b)
  PROVE  Given' /\ Selected' /\ Images' /\ Pointed'
<1>1. /\ UNCHANGED <<rows, drawn, born, live, content, item, fetch, undo, redo, pen, hgc, exposed>>
      /\ b \in bgc.pend /\ bgc'.pend = bgc.pend \ {b} /\ bgc'.cur = b
  BY DEF BlobGcUnlink, canvas, stacks, Held, Typed, TypeOK
<1> QED
  BY <1>1, UnlinkHeld

LEMMA HistoryGcUnlinkHeld ==
  ASSUME Held, NEW i \in Items, HistoryGcUnlink(i)
  PROVE  Given' /\ Selected' /\ Images' /\ Pointed'
<1>1. /\ UNCHANGED <<rows, drawn, born, live, content, item, fetch, undo, redo, pen, bgc, exposed>>
      /\ i \in hgc.pend /\ hgc'.pend = hgc.pend \ {i} /\ hgc'.cur = i
  BY DEF HistoryGcUnlink, canvas, stacks, Held, Typed, TypeOK
<1> QED
  BY <1>1, UnlinkHeld

LEMMA HistoryGcSelectHeld ==
  ASSUME Held, HistoryGcStart \/ HistoryGcNext
  PROVE  Given' /\ Selected' /\ Images' /\ Pointed'
<1> USE DEF Held
<1>1. UNCHANGED <<files, rows, drawn, born, live, content, item, fetch, undo, redo, pen, bgc, exposed>>
  BY DEF HistoryGcStart, HistoryGcNext, store, canvas, stacks
<1>2. Sound' = Sound
  BY <1>1 DEF Sound, Kept
<1>3. Pointed' /\ Given' /\ Images'
  BY <1>1, <1>2, PointedSame, GivenSame, ImagesSame DEF Given
<1>4. \A i \in LongGone \cup Expired \cup Unreferenced :
        i \in Items /\ (item[i].layer = None \/ fetch[i].blob \in exposed)
  BY DEF LongGone, Expired, Unreferenced, Images, ItemHolds
<1>5. hgc'.cur = None /\ hgc'.pend \subseteq LongGone \cup Expired \cup Unreferenced
  <2>1. CASE HistoryGcStart
    BY <2>1 DEF HistoryGcStart
  <2>2. CASE HistoryGcNext
    <3>1. \/ hgc' = [hgc EXCEPT !.phase = 2, !.pend = Expired]
          \/ hgc' = [hgc EXCEPT !.phase = 3, !.pend = Unreferenced]
          \/ hgc' = HistoryGcOff
      BY <2>2 DEF HistoryGcNext
    <3>2. hgc \in HistoryRun /\ hgc.cur = None
      BY <2>2 DEF HistoryGcNext, Typed, TypeOK, HistoryRun
    <3>3. ASSUME NEW p \in {2, 3}, NEW q, hgc' = [hgc EXCEPT !.phase = p, !.pend = q]
          PROVE  hgc'.pend = q /\ hgc'.cur = None
      BY <3>2, <3>3 DEF HistoryRun
    <3>4. hgc' = HistoryGcOff => hgc'.pend = {} /\ hgc'.cur = None
      BY DEF HistoryGcOff
    <3>5. CASE hgc' = [hgc EXCEPT !.phase = 2, !.pend = Expired]
      BY <3>3, <3>5
    <3>6. CASE hgc' = [hgc EXCEPT !.phase = 3, !.pend = Unreferenced]
      BY <3>3, <3>6
    <3> QED
      BY <3>1, <3>4, <3>5, <3>6
  <2> QED
    BY <2>1, <2>2
<1>6. Selected'
  BY <1>1, <1>4, <1>5 DEF Selected, BlobsSelected, ItemsSelected
<1> QED
  BY <1>3, <1>6

(* What the deletion of a row leaves alone.                                *)
LEMMA DeletedRow ==
  ASSUME Held, NEW b \in Blobs \cup {None}, DeleteRow(b)
  PROVE  /\ \A l \in Layers : content'[l] = IF content[l] = b THEN None ELSE content[l]
         /\ \A c \in Blobs : rows'[c] = IF c = b THEN "none" ELSE rows[c]
         /\ UNCHANGED <<files, drawn, born, live, exposed>>
BY Blobbed DEF DeleteRow, Held, Typed, TypeOK

LEMMA BlobGcDeleteHeld ==
  ASSUME Held, BlobGcDelete
  PROVE  /\ Given' /\ Selected' /\ Images' /\ Pointed'
         /\ \A l \in live : content[l] \notin exposed => content'[l] = content[l]
<1> USE DEF Held
<1> DEFINE b == bgc.cur
<1>1. /\ UNCHANGED <<fetch, undo, redo, pen, hgc>> /\ DeleteRow(b) /\ item' = Unset(item, b)
      /\ b \in Blobs /\ b # None
      /\ bgc'.cur = None /\ bgc'.pend = bgc.pend
  BY DEF BlobGcDelete, stacks, Typed, TypeOK
<1>2. \A l \in live : content[l] = b => b \in exposed
  BY <1>1 DEF Selected, BlobsSelected
<1> HIDE DEF b
<1>3. /\ \A l \in Layers : content'[l] = IF content[l] = b THEN None ELSE content[l]
      /\ \A c \in Blobs : rows'[c] = IF c = b THEN "none" ELSE rows[c]
      /\ UNCHANGED <<files, drawn, born, live, exposed>>
  BY <1>1, DeletedRow
<1>4. \A j \in Items : /\ item'[j].is = item[j].is /\ item'[j].layer = item[j].layer
                       /\ item'[j].thrown = item[j].thrown
                       /\ item'[j].image = IF item[j].image = b THEN None ELSE item[j].image
  <2> SUFFICES ASSUME NEW j \in Items
               PROVE  /\ item'[j].is = item[j].is /\ item'[j].layer = item[j].layer
                      /\ item'[j].thrown = item[j].thrown
                      /\ item'[j].image = IF item[j].image = b THEN None ELSE item[j].image
    OBVIOUS
  <2>1. item'[j] = IF item[j].image = b THEN [item[j] EXCEPT !.image = None] ELSE item[j]
    BY <1>1 DEF Unset
  <2>2. item[j] \in ItemRow
    BY Blobbed
  <2> QED
    BY <2>1, <2>2 DEF ItemRow
<1>5. Steps' = Steps
  BY <1>1 DEF Steps
<1>6. Given'
  <2>1. \A l \in Layers : content'[l] \in drawn \cup {None}
    BY <1>3 DEF Given
  <2>2. \A c \in Blobs : rows'[c] # "none" => c \in drawn
    BY <1>3 DEF Given
  <2>3. pen.new # None => (rows[pen.new] = "none" => rows'[pen.new] = "none")
    BY <1>3 DEF Typed, TypeOK
  <2>4. live \subseteq born
    BY DEF Given
  <2> QED
    BY <1>1, <1>3, <1>5, <2>1, <2>2, <2>3, <2>4, GivenSame
<1>7. Images'
  <2>1. \A j \in Items : fetch[j].at = "done" => fetch[j].blob \in Blobs
    BY Blobbed
  <2> QED
    BY <1>1, <1>3, <1>4, <2>1 DEF Images, ItemHolds, Kept
<1>8. Sound' \subseteq Sound
  BY <1>1, <1>3, <1>4, SoundSame DEF Kept
<1>9. /\ \A c \in Steps : c.kind = "apply" => c.item \in Items
      /\ Elems(undo) \subseteq Steps /\ Elems(redo) \subseteq Steps
  BY DEF Pointed, AppliesKnown, Steps
<1>10. \A l \in live : content'[l] \in {content[l], None}
  BY <1>3, Blobbed
<1>11. Pointed'
  <2>1. LayersPointed' /\ StepsPointed'
    BY <1>1, <1>3, <1>4, <1>5, <1>10 DEF Pointed, LayersPointed, StepsPointed, Of
  <2>2. AppliesKnown' /\ PenPaints'
    BY <1>1, <1>5 DEF Pointed, AppliesKnown, PenPaints
  <2>3. UndoPointed' /\ RedoFree'
    BY <1>1, <1>4, <1>8, <1>9 DEF Pointed, UndoPointed, RedoFree
  <2>4. Once'
    BY <1>1, <1>8, OnceFewer DEF Pointed, Once
  <2> QED
    BY <2>1, <2>2, <2>3, <2>4 DEF Pointed
<1>12. Selected'
  <2>1. BlobsSelected'
    BY <1>1, <1>3, <1>10 DEF Selected, BlobsSelected
  <2>2. ItemsSelected'
    BY <1>1, <1>3, <1>4, Blobbed DEF Selected, ItemsSelected
  <2> QED
    BY <2>1, <2>2 DEF Selected
<1>13. \A l \in live : content[l] \notin exposed => content'[l] = content[l]
  BY <1>2, <1>3, Blobbed
<1> QED
  BY <1>6, <1>7, <1>11, <1>12, <1>13

LEMMA HistoryGcDeleteHeld ==
  ASSUME Held, HistoryGcDelete
  PROVE  /\ Given' /\ Selected' /\ Images' /\ Pointed'
         /\ \A l \in live : content[l] \notin exposed => content'[l] = content[l]
<1> USE DEF Held
<1> DEFINE i == hgc.cur
           b == fetch[i].blob
<1>1. /\ UNCHANGED <<fetch, undo, redo, pen, bgc>> /\ DeleteRow(b)
      /\ i \in Items /\ i # None
  BY DEF HistoryGcDelete, stacks, Typed, TypeOK
<1>2. /\ item[i].layer = None \/ b \in exposed
      /\ b \in Blobs \cup {None} /\ (fetch[i].at = "done" => b \in Blobs)
  BY <1>1, Blobbed DEF Selected, ItemsSelected, Given
<1>3. hgc'.cur = None /\ hgc'.pend \subseteq hgc.pend
  <2>1. hgc' = HistoryGcOff \/ hgc' = [hgc EXCEPT !.cur = None]
    BY DEF HistoryGcDelete
  <2>2. hgc \in HistoryRun
    BY DEF Typed, TypeOK, HistoryRun
  <2>3. CASE hgc' = HistoryGcOff
    BY <2>3 DEF HistoryGcOff
  <2>4. CASE hgc' = [hgc EXCEPT !.cur = None]
    BY <2>2, <2>4 DEF HistoryRun
  <2> QED
    BY <2>1, <2>3, <2>4
<1>4. /\ \A j \in Items : j # i => item'[j] = item[j]
      /\ item'[i].is = "gone" /\ item'[i].layer = None /\ item'[i].thrown = "no"
  <2> DEFINE r == [NoItem EXCEPT !.is = "gone"]
  <2>1. r.is = "gone" /\ r.layer = None /\ r.thrown = "no"
    BY DEF NoItem
  <2>2. item' = [item EXCEPT ![i] = r]
    BY DEF HistoryGcDelete
  <2> HIDE DEF r
  <2> QED
    BY <1>1, <2>1, <2>2, Blobbed
<1>5. \A j \in Items : fetch[j].at = "done" => fetch[j].blob \in Blobs /\ (j # i => fetch[j].blob # b)
  BY <1>1, Blobbed DEF Given, OneWriter
<1>6. /\ \A l \in Layers : content'[l] = IF content[l] = b THEN None ELSE content[l]
      /\ \A c \in Blobs : rows'[c] = IF c = b THEN "none" ELSE rows[c]
      /\ UNCHANGED <<files, drawn, born, live, exposed>>
  BY <1>1, <1>2, DeletedRow
<1>7. ASSUME NEW l \in live, content[l] \notin exposed PROVE content'[l] = content[l]
  <2>1. l \in Layers /\ l # None
    BY Blobbed
  <2>2. CASE content[l] = b /\ b # None
    BY <1>1, <1>2, <1>7, <2>1, <2>2 DEF Pointed, LayersPointed, Of
  <2> QED
    BY <1>6, <2>1, <2>2
<1>8. \A l \in live : content'[l] \in {content[l], None} /\ (b # None => content'[l] # b)
  BY <1>6, Blobbed
<1> HIDE DEF b, i
<1>9. Steps' = Steps
  BY <1>1 DEF Steps
<1>10. Given'
  <2>1. \A l \in Layers : content'[l] \in drawn \cup {None}
    BY <1>6 DEF Given
  <2>2. \A c \in Blobs : rows'[c] # "none" => c \in drawn
    BY <1>6 DEF Given
  <2>3. pen.new # None => (rows[pen.new] = "none" => rows'[pen.new] = "none")
    BY <1>6 DEF Typed, TypeOK
  <2>4. live \subseteq born
    BY DEF Given
  <2> QED
    BY <1>1, <1>6, <1>9, <2>1, <2>2, <2>3, <2>4, GivenSame
<1>11. Images'
  BY <1>1, <1>2, <1>4, <1>5, <1>6 DEF Images, ItemHolds, Kept, b
<1>12. /\ \A c \in Steps : c.kind = "apply" => c.item \in Items
       /\ Elems(undo) \subseteq Steps /\ Elems(redo) \subseteq Steps
  BY DEF Pointed, AppliesKnown, Steps
<1>13. Sound' \subseteq Sound /\ i \notin Sound'
  <2>1. \A j \in Items : item'[j].is = "kept" => Kept(j)
    BY <1>4 DEF Kept
  <2>2. Sound' \subseteq Sound
    BY <1>1, <1>6, <2>1, SoundSame
  <2> QED
    BY <1>4, <2>2 DEF Sound, Kept
<1>14. LayersPointed'
  <2> SUFFICES ASSUME NEW j \in Items, NEW l \in live, content'[l] # None,
                      content'[l] = fetch[j].blob, fetch[j].blob \notin exposed
               PROVE  item'[j].layer = l
    BY <1>1, <1>6 DEF LayersPointed, Of
  <2>1. j # i
    BY <1>8 DEF b
  <2> QED
    BY <1>4, <1>8, <2>1 DEF Pointed, LayersPointed, Of
<1>15. StepsPointed'
  <2> SUFFICES ASSUME NEW j \in Items, NEW c \in Steps, c.kind = "paint", c.layer \in live,
                      c.blob # None, c.blob = fetch[j].blob, fetch[j].blob \notin exposed
               PROVE  item'[j].layer = c.layer
    BY <1>1, <1>6, <1>9 DEF StepsPointed, Of
  <2>1. item[j].layer = c.layer /\ c.layer # None
    BY Blobbed DEF Pointed, StepsPointed, Of
  <2> QED
    BY <1>2, <1>4, <2>1 DEF b
<1>16. AppliesKnown' /\ PenPaints'
  BY <1>1, <1>9 DEF Pointed, AppliesKnown, PenPaints
<1>17. UndoPointed' /\ RedoFree'
  BY <1>1, <1>4, <1>12, <1>13 DEF Pointed, UndoPointed, RedoFree
<1>18. Once'
  BY <1>1, <1>13, OnceFewer DEF Pointed, Once
<1>19. Selected'
  <2>1. BlobsSelected'
    BY <1>1, <1>6, <1>8 DEF Selected, BlobsSelected
  <2>2. ItemsSelected'
    BY <1>1, <1>3, <1>4, <1>6, Blobbed DEF Selected, ItemsSelected
  <2> QED
    BY <2>1, <2>2 DEF Selected
<1> QED
  BY <1>7, <1>10, <1>11, <1>14, <1>15, <1>16, <1>17, <1>18, <1>19 DEF Pointed

-----------------------------------------------------------------------------
(* Time, and the end of the process.                                       *)
LEMMA BlobAgesHeld ==
  ASSUME Held, NEW b \in Blobs, BlobAges(b)
  PROVE  Given' /\ Selected' /\ Images' /\ Pointed'
<1> USE DEF Held
<1>1. /\ UNCHANGED <<files, drawn, born, live, content, item, fetch, undo, redo, pen, bgc, hgc, exposed>>
      /\ \A c \in Blobs : rows'[c] = "none" <=> rows[c] = "none"
  BY DEF BlobAges, canvas, stacks, Typed, TypeOK
<1>2. Sound' \subseteq Sound
  BY <1>1, SoundSame DEF Kept
<1>3. pen.new # None => pen.new \in Blobs
  BY DEF Typed, TypeOK
<1>4. Pointed' /\ Steps' \subseteq Steps
  BY <1>1, <1>2, PointedSame
<1>5. Given' /\ Images'
  BY <1>1, <1>3, <1>4, GivenSame, ImagesSame DEF Given
<1>6. Selected'
  BY <1>1, SelectedSame
<1> QED
  BY <1>4, <1>5, <1>6

LEMMA RestartHeld ==
  ASSUME Held, Restart
  PROVE  Given' /\ Selected' /\ Images' /\ Pointed'
<1> USE DEF Held
<1>1. /\ UNCHANGED <<files, rows, drawn, born, live, content, exposed>> /\ undo' = <<>> /\ redo' = <<>>
      /\ pen'.at = "idle" /\ pen'.new = None
      /\ bgc'.pend = {} /\ bgc'.cur = None /\ hgc'.pend = {} /\ hgc'.cur = None
  BY DEF Restart, Resting, BlobGcOff, HistoryGcOff, store, canvas
<1>2. \A j \in Items : item'[j] = item[j]
  BY DEF Restart, Degraded, Images, ItemHolds
<1>3. \A j \in Items : /\ fetch'[j].blob = fetch[j].blob /\ (fetch'[j].at = "no" <=> fetch[j].at = "no")
                       /\ fetch'[j].at = "done" <=> fetch[j].at = "done"
  <2>1. \A f \in FetchRun : [f EXCEPT !.at = "cut"].at = "cut" /\ [f EXCEPT !.at = "cut"].blob = f.blob
    BY DEF FetchRun
  <2>2. fetch \in [Items -> FetchRun]
    BY DEF Typed, TypeOK, FetchRun
  <2> QED
    BY <2>1, <2>2 DEF Restart
<1>4. Steps' = {}
  BY <1>1 DEF Steps, Elems
<1>5. Given'
  BY <1>1, <1>3, <1>4, GivenSame DEF Given
<1>6. Images'
  BY <1>1, <1>2, <1>3, ImagesSame
<1>7. LayersPointed' /\ StepsPointed' /\ AppliesKnown' /\ PenPaints'
  BY <1>1, <1>2, <1>3, <1>4 DEF Pointed, LayersPointed, StepsPointed, AppliesKnown, PenPaints, Of
<1>8. UndoPointed' /\ RedoFree' /\ Once'
  BY <1>1 DEF UndoPointed, RedoFree, Once, OnceIn, Elems
<1>9. Selected'
  BY <1>1 DEF Selected, BlobsSelected, ItemsSelected
<1> QED
  BY <1>5, <1>6, <1>7, <1>8, <1>9 DEF Pointed

LEMMA InitHeld == Init => Held
<1> SUFFICES ASSUME Init PROVE Held
  OBVIOUS
<1>1. Steps = {} /\ Elems(undo) = {} /\ Elems(redo) = {}
  BY DEF Init, Steps, Elems, Resting
<1>2. Given
  BY <1>1, BlobParameters DEF Init, Given, OneWriter, Resting
<1>3. Selected
  BY DEF Init, Selected, BlobsSelected, ItemsSelected, BlobGcOff, HistoryGcOff
<1>4. Images
  BY DEF Init, Images, ItemHolds, Kept, NoItem
<1>5. Pointed
  BY <1>1 DEF Init, Pointed, LayersPointed, StepsPointed, AppliesKnown, UndoPointed, RedoFree, Once,
         OnceIn, PenPaints, Of, Resting
<1> QED
  BY <1>2, <1>3, <1>4, <1>5, InitTyped DEF Held

LEMMA StepHeld ==
  ASSUME Held, [Next]_vars
  PROVE  Held'
<1>1. Typed'
  BY NextTyped DEF Held
<1>2. CASE UNCHANGED vars
  <2>1. Given' /\ Selected' /\ Images' /\ Pointed'
    BY <1>2, UnlinkHeld DEF vars
  <2> QED
    BY <1>1, <2>1 DEF Held
<1>3. CASE Next
  <2>1. ASSUME NEW i \in Items, Fetcher(i)
        PROVE  Given' /\ Selected' /\ Images' /\ Pointed'
    BY <2>1, FetchFileHeld, FetchRowHeld, FetchItemHeld DEF Fetcher
  <2>2. ASSUME NEW i \in Items, Discard(i) \/ ItemAges(i) \/ \E l \in Fresh : Apply(i, l)
        PROVE  Given' /\ Selected' /\ Images' /\ Pointed'
    BY <2>2, ItemThrownHeld, ApplyHeld
  <2>3. ASSUME (\E l \in Layers : Paint(l)) \/ Painting
        PROVE  Given' /\ Selected' /\ Images' /\ Pointed'
    BY <2>3, PaintHeld, PaintFailsHeld, PaintFileHeld, PaintDoneHeld DEF Painting
  <2>4. ASSUME NEW c, Step(c)
        PROVE  Given' /\ Selected' /\ Images' /\ Pointed'
    BY <2>4, UndoPaintHeld, UndoApplyHeld, MovedHeld, RedoApplyHeld DEF Step
  <2>5. ASSUME BlobGcStart \/ BlobGcStep
        PROVE  Given' /\ Selected' /\ Images' /\ Pointed'
    BY <2>5, BlobGcStartHeld, BlobGcUnlinkHeld, BlobGcDeleteHeld DEF BlobGcStep
  <2>6. ASSUME HistoryGcStart \/ HistoryGcStep
        PROVE  Given' /\ Selected' /\ Images' /\ Pointed'
    BY <2>6, HistoryGcSelectHeld, HistoryGcUnlinkHeld, HistoryGcDeleteHeld DEF HistoryGcStep
  <2>7. ASSUME (\E b \in Blobs : BlobAges(b)) \/ Restart
        PROVE  Given' /\ Selected' /\ Images' /\ Pointed'
    BY <2>7, BlobAgesHeld, RestartHeld
  <2>8. Given' /\ Selected' /\ Images' /\ Pointed'
    BY <1>3, <2>1, <2>2, <2>3, <2>4, <2>5, <2>6, <2>7 DEF Next
  <2> QED
    BY <1>1, <2>8 DEF Held
<1> QED
  BY <1>2, <1>3

(* No step but an undo takes the content of a layer, unless it is exposed. *)
Spares == \A l \in live : content[l] \notin exposed => ~Loses(l)

LEMMA StepSpares ==
  ASSUME Held, Next
  PROVE  Spares
<1> USE DEF store, canvas, stacks, Loses
<1>1. ASSUME \A l \in live : content[l] \notin exposed => content'[l] = content[l] \/ content'[l] # None
      PROVE  Spares
  BY <1>1 DEF Spares
<1>2. ASSUME content' = content PROVE Spares
  BY <1>2 DEF Spares
<1>3. ASSUME NEW i \in Items, NEW l \in Fresh, Apply(i, l) PROVE Spares
  BY <1>1, <1>3 DEF Apply, Insert, Held, Given, Typed, TypeOK
<1>4. CASE PaintDone
  BY <1>1, <1>4 DEF PaintDone, Held, Typed, TypeOK, PenHolds
<1>5. ASSUME NEW c, Undoing(c) PROVE Spares
  <2>1. undo # <<>> /\ undo' = Pop(undo) /\ undo \in Seq(Commands)
    BY <1>5 DEF Undoing, Held, Typed, TypeOK
  <2>2. Len(undo') # Len(undo)
    BY <2>1, PopFacts
  <2> QED
    BY <2>2 DEF Spares
<1>6. ASSUME NEW c, NEW l \in Fresh, RedoApply(c, l) PROVE Spares
  BY <1>1, <1>6 DEF RedoApply, Insert, Held, Given, Typed, TypeOK
<1>7. CASE BlobGcDelete \/ HistoryGcDelete
  BY <1>1, <1>7, BlobGcDeleteHeld, HistoryGcDeleteHeld
<1>8. ASSUME NEW i \in Items, Fetcher(i) \/ Discard(i) \/ ItemAges(i) PROVE Spares
  BY <1>2, <1>8 DEF Fetcher, FetchFile, FetchRow, FetchItem, Discard, ItemAges
<1>9. CASE (\E l \in Layers : Paint(l)) \/ Painting
  BY <1>2, <1>4, <1>9 DEF Paint, Painting, PaintFails, PaintFile
<1>10. ASSUME NEW c, Step(c) PROVE Spares
  BY <1>2, <1>5, <1>6, <1>10 DEF Step, UndoPaint, UndoApply, RedoPaint, RedoApplyFails
<1>11. CASE BlobGcStart \/ BlobGcStep
  BY <1>2, <1>7, <1>11 DEF BlobGcStart, BlobGcStep, BlobGcUnlink
<1>12. CASE HistoryGcStart \/ HistoryGcStep
  BY <1>2, <1>7, <1>12 DEF HistoryGcStart, HistoryGcStep, HistoryGcNext, HistoryGcUnlink
<1>13. CASE (\E b \in Blobs : BlobAges(b)) \/ Restart
  BY <1>2, <1>13 DEF BlobAges, Restart
<1> QED
  BY <1>3, <1>8, <1>9, <1>10, <1>11, <1>12, <1>13 DEF Next

(* However requests and collectors interleave, however slow the handlers   *)
(* are and whenever the process ends: what a layer shows is taken from it  *)
(* by an undo only, unless the blob is exposed (see ContentKept).          *)
THEOREM ContentSpared == Spec => ContentKept
<1>1. Init => Held
  BY InitHeld
<1>2. Held /\ [Next]_vars => Held'
  BY StepHeld
<1>3. Held /\ [Next]_vars => [Spares]_vars
  BY StepSpares
<1>4. Spec => [][Spares]_vars
  BY <1>1, <1>2, <1>3, PTL DEF Spec
<1> QED
  BY <1>4 DEF ContentKept, Spares
=============================================================================
