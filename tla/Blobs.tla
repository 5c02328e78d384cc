--------------------------------- MODULE Blobs ---------------------------------
(***************************************************************************)
(* The blob store and everything that refers to a blob: the layers of a    *)
(* document, the history items, and - unknown to the database - the        *)
(* commands of an undo stack.  Two collectors remove blobs: BlobGc the     *)
(* unreferenced ones, HistoryGc those of the items it deletes.             *)
(*                                                                         *)
(* A blob is a file and a row, written and removed one after the other.    *)
(* An item has one image.  Time is what the cutoffs see of it: a blob is   *)
(* young or old, a discard recent or long ago, an item old or not.  There  *)
(* is one undo stack; module UndoRedo has the stacks of several tokens.    *)
(***************************************************************************)
EXTENDS Naturals, Sequences, FiniteSets

CONSTANTS
  Blobs,      \* pool of blob ids, each used once
  Items,      \* pool of history items
  Base,       \* a layer the document starts with, empty
  Fresh,      \* pool of ids for the layers apply_history_item creates
  None,
  Slow,       \* may a handler outlast the minimal age of an orphan?
  MaxItemBlobs,  \* history.max_size_bytes, in images
  Restarts    \* may the server restart?

Layers == Fresh \cup {Base}

ASSUME BlobParameters ==
  /\ Base \notin Fresh
  /\ None \notin Blobs \cup Items \cup Layers
  /\ {Slow, Restarts} \subseteq BOOLEAN
  /\ MaxItemBlobs \in Nat

VARIABLES
  files,    \* blobs on disk
  rows,     \* [Blobs -> "none" or the age of the row of table blobs]
  drawn,    \* blob ids given out
  born,     \* layer ids given out
  live,     \* rows of table layers
  content,  \* [Layers -> content_blob_id]
  item,     \* [Items -> row of history_items]
  fetch,    \* [Items -> progress of the output fetcher]
  undo, redo,
  pen,      \* the paint_strokes apply() that is under way
  bgc,      \* the run of BlobGc
  hgc,      \* the run of HistoryGc
  exposed   \* history: blobs put where the program loses track of them

store == <<files, rows, drawn>>
canvas == <<born, live, content, exposed>>
stacks == <<undo, redo>>
vars == <<files, rows, drawn, born, live, content, item, fetch, undo, redo, pen, bgc, hgc, exposed>>

Commands == [kind : {"paint", "apply"}, layer : Layers, blob : Blobs \cup {None},
             item : Items \cup {None}]

(* Each variable has the type the code gives it.                           *)
TypeOK ==
  /\ files \in SUBSET Blobs
  /\ rows \in [Blobs -> {"none", "young", "old"}]
  /\ drawn \in SUBSET Blobs
  /\ born \in SUBSET Layers
  /\ live \in SUBSET Layers
  /\ content \in [Layers -> Blobs \cup {None}]
  /\ item \in [Items -> [is : {"none", "kept", "gone"}, image : Blobs \cup {None},
                         layer : Layers \cup {None}, thrown : {"no", "recent", "long"},
                         old : BOOLEAN]]
  /\ fetch \in [Items -> [at : {"no", "file", "row", "done", "lost", "cut"},
                          blob : Blobs \cup {None}]]
  /\ undo \in Seq(Commands)
  /\ redo \in Seq(Commands)
  /\ pen \in [at : {"idle", "read", "file"}, cmd : Commands \cup {None},
              new : Blobs \cup {None}, again : BOOLEAN]
  /\ bgc \in [on : BOOLEAN, pend : SUBSET Blobs, cur : Blobs \cup {None}]
  /\ hgc \in [phase : 0..3, pend : SUBSET Items, cur : Items \cup {None}]
  /\ exposed \in SUBSET (Blobs \cup {None})

NoItem == [is |-> "none", image |-> None, layer |-> None, thrown |-> "no", old |-> FALSE]
Resting == [at |-> "idle", cmd |-> None, new |-> None, again |-> FALSE]
BlobGcOff == [on |-> FALSE, pend |-> {}, cur |-> None]
HistoryGcOff == [phase |-> 0, pend |-> {}, cur |-> None]

Init ==
  /\ files = {} /\ rows = [b \in Blobs |-> "none"] /\ drawn = {}
  /\ born = {Base} /\ live = {Base}
  /\ content = [l \in Layers |-> None]
  /\ item = [i \in Items |-> NoItem]
  /\ fetch = [i \in Items |-> [at |-> "no", blob |-> None]]
  /\ undo = <<>> /\ redo = <<>>
  /\ pen = Resting /\ bgc = BlobGcOff /\ hgc = HistoryGcOff
  /\ exposed = {}

Kept(i) == item[i].is = "kept"

(* What the foreign keys and ORPHAN_QUERY see.                             *)
Referenced(b) ==
  \/ \E l \in live : content[l] = b
  \/ \E i \in Items : Kept(i) /\ item[i].image = b

-----------------------------------------------------------------------------
(* AssetStore.write: the file, then the row.                               *)

WriteFile(b) ==
  /\ b \notin drawn
  /\ drawn' = drawn \cup {b}
  /\ files' = files \cup {b}
  /\ UNCHANGED rows

WriteRow(b) == rows' = [rows EXCEPT ![b] = "young"] /\ UNCHANGED <<files, drawn>>

(* DELETE FROM blobs: the references to the row become NULL.               *)
DeleteRow(b) ==
  /\ rows' = [rows EXCEPT ![b] = "none"]
  /\ content' = [l \in Layers |-> IF content[l] = b THEN None ELSE content[l]]
  /\ UNCHANGED <<files, drawn, born, live, exposed>>

Unset(its, b) == [i \in Items |-> IF its[i].image = b THEN [its[i] EXCEPT !.image = None]
                                  ELSE its[i]]

-----------------------------------------------------------------------------
(* The output fetcher.  Other images are downloaded between the rows of    *)
(* one image and the insert of the items.                                  *)

FetchFile(i, b) ==
  /\ fetch[i].at = "no"
  /\ WriteFile(b)
  /\ fetch' = [fetch EXCEPT ![i] = [at |-> "file", blob |-> b]]
  /\ UNCHANGED <<canvas, item, stacks, pen, bgc, hgc>>

FetchRow(i) ==
  /\ fetch[i].at = "file"
  /\ WriteRow(fetch[i].blob)
  /\ fetch' = [fetch EXCEPT ![i].at = "row"]
  /\ UNCHANGED <<canvas, item, stacks, pen, bgc, hgc>>

(* The insert fails if the blob is not there any more.                     *)
FetchItem(i) ==
  /\ fetch[i].at = "row"
  /\ IF rows[fetch[i].blob] = "none"
     THEN /\ fetch' = [fetch EXCEPT ![i].at = "lost"]
          /\ UNCHANGED item
     ELSE /\ fetch' = [fetch EXCEPT ![i].at = "done"]
          /\ item' = [item EXCEPT ![i] = [NoItem EXCEPT !.is = "kept", !.image = fetch[i].blob]]
  /\ UNCHANGED <<store, canvas, stacks, pen, bgc, hgc>>

-----------------------------------------------------------------------------
(* apply_history_item, discard_history_item.                               *)

MarkApplied(its, i, l) ==
  IF its[i].is = "kept" /\ its[i].thrown = "no" THEN [its EXCEPT ![i].layer = l] ELSE its

UnmarkApplied(its, i, l) ==
  IF its[i].layer = l THEN [its EXCEPT ![i].layer = None] ELSE its

(* A collector has b, or the item of b, in the selection it works off.     *)
Picked(b) == \/ b \in bgc.pend \/ b = bgc.cur
             \/ \E i \in Items : (i \in hgc.pend \/ i = hgc.cur) /\ fetch[i].blob = b

(* The layer row is inserted; a missing blob violates its foreign key.     *)
Insert(l, b) ==
  /\ l \notin born
  /\ born' = born \cup {l}
  /\ live' = live \cup {l}
  /\ content' = [content EXCEPT ![l] = b]

Apply(i, l) ==
  /\ Kept(i) /\ item[i].thrown = "no" /\ item[i].image # None
  /\ Insert(l, item[i].image)
  /\ exposed' = IF Picked(item[i].image) \/ item[i].layer # None
                THEN exposed \cup {item[i].image} ELSE exposed
  /\ item' = MarkApplied(item, i, l)
  /\ undo' = Append(undo, [kind |-> "apply", layer |-> l, blob |-> item[i].image, item |-> i])
  /\ redo' = <<>>
  /\ UNCHANGED <<store, fetch, pen, bgc, hgc>>

Discard(i) ==
  /\ Kept(i) /\ item[i].thrown = "no"
  /\ item' = [item EXCEPT ![i].thrown = "recent"]
  /\ exposed' = exposed \cup {fetch[i].blob}
  /\ UNCHANGED <<store, born, live, content, fetch, stacks, pen, bgc, hgc>>

-----------------------------------------------------------------------------
(* paint_strokes: apply() reads the prior raster, writes the new one.      *)

Paint(l) ==
  /\ l \in live
  /\ pen.at = "idle"
  /\ pen' = [at |-> "read", new |-> None, again |-> FALSE,
             cmd |-> [kind |-> "paint", layer |-> l, blob |-> content[l], item |-> None]]
  /\ UNCHANGED <<store, canvas, item, fetch, stacks, bgc, hgc>>

(* A row whose file is being removed: the read rejects.                    *)
Unreadable(b) == b # None /\ rows[b] # "none" /\ b \notin files

PaintFails ==
  /\ pen.at = "read"
  /\ Unreadable(pen.cmd.blob)
  /\ pen' = Resting
  /\ UNCHANGED <<store, canvas, item, fetch, stacks, bgc, hgc>>

PaintFile(b) ==
  /\ pen.at = "read"
  /\ ~Unreadable(pen.cmd.blob)
  /\ WriteFile(b)
  /\ pen' = [pen EXCEPT !.at = "file", !.new = b]
  /\ UNCHANGED <<canvas, item, fetch, stacks, bgc, hgc>>

PaintDone ==
  /\ pen.at = "file"
  /\ WriteRow(pen.new)
  /\ content' = IF pen.cmd.layer \in live THEN [content EXCEPT ![pen.cmd.layer] = pen.new]
                ELSE content
  /\ IF pen.again
     THEN UNCHANGED stacks
     ELSE undo' = Append(undo, pen.cmd) /\ redo' = <<>>
  /\ pen' = Resting
  /\ UNCHANGED <<born, live, item, fetch, bgc, hgc, exposed>>

-----------------------------------------------------------------------------
(* undo and redo: the command changes stacks first.                        *)

Last(s) == s[Len(s)]
Pop(s)  == SubSeq(s, 1, Len(s) - 1)

Undoing(c) ==
  /\ undo # <<>>
  /\ c = Last(undo)
  /\ undo' = Pop(undo)
  /\ redo' = Append(redo, c)
  /\ UNCHANGED <<store, fetch, pen, bgc, hgc>>

(* The foreign key refuses to restore a blob that is gone.                 *)
Refused(c) == c.layer \in live /\ c.blob # None /\ rows[c.blob] = "none"

UndoPaint(c) ==
  /\ c.kind = "paint"
  /\ Undoing(c)
  /\ content' = IF c.layer \in live /\ ~Refused(c) THEN [content EXCEPT ![c.layer] = c.blob]
                ELSE content
  /\ exposed' = IF c.layer \in live /\ Picked(c.blob) THEN exposed \cup {c.blob} ELSE exposed
  /\ UNCHANGED <<born, live, item>>

UndoApply(c) ==
  /\ c.kind = "apply"
  /\ Undoing(c)
  /\ live' = live \ {c.layer}
  /\ content' = [content EXCEPT ![c.layer] = None]
  /\ item' = UnmarkApplied(item, c.item, c.layer)
  /\ UNCHANGED <<born, exposed>>

Redoing(c) ==
  /\ redo # <<>>
  /\ c = Last(redo)
  /\ redo' = Pop(redo)

RedoPaint(c) ==
  /\ c.kind = "paint"
  /\ pen.at = "idle"
  /\ Redoing(c)
  /\ undo' = Append(undo, c)
  /\ pen' = [at |-> "read", cmd |-> c, new |-> None, again |-> TRUE]
  /\ UNCHANGED <<store, canvas, item, fetch, bgc, hgc>>

(* A new layer each time, of the blob the first call captured.             *)
RedoApply(c, l) ==
  /\ c.kind = "apply"
  /\ Redoing(c)
  /\ rows[c.blob] # "none"
  /\ Insert(l, c.blob)
  /\ exposed' = IF Picked(c.blob) THEN exposed \cup {c.blob} ELSE exposed
  /\ item' = MarkApplied(item, c.item, l)
  /\ undo' = Append(undo, [c EXCEPT !.layer = l])
  /\ UNCHANGED <<store, fetch, pen, bgc, hgc>>

RedoApplyFails(c) ==
  /\ c.kind = "apply"
  /\ Redoing(c)
  /\ rows[c.blob] = "none"
  /\ undo' = Append(undo, c)
  /\ UNCHANGED <<store, canvas, item, fetch, pen, bgc, hgc>>

-----------------------------------------------------------------------------
(* BlobGc.runOnce: one query, then one blob after the other.               *)

(* Mutant of Orphans: the images of history items do not count.            *)
OrphansOfLayers == {b \in Blobs : rows[b] = "old" /\ \A l \in live : content[l] # b}

(* Mutant of Orphans: an inner join finds no row without a reference.      *)
OrphansInnerJoin == {b \in Blobs : rows[b] = "old" /\ ~Referenced(b) /\ Referenced(b)}

Orphans == {b \in Blobs : rows[b] = "old" /\ ~Referenced(b)}

BlobGcStart ==
  /\ ~bgc.on
  /\ Orphans # {}
  /\ bgc' = [on |-> TRUE, pend |-> Orphans, cur |-> None]
  /\ UNCHANGED <<store, canvas, item, fetch, stacks, pen, hgc>>

BlobGcUnlink(b) ==
  /\ bgc.cur = None
  /\ b \in bgc.pend
  /\ files' = files \ {b}
  /\ bgc' = [bgc EXCEPT !.pend = @ \ {b}, !.cur = b]
  /\ UNCHANGED <<rows, drawn, canvas, item, fetch, stacks, pen, hgc>>

(* Mutant of BlobGcDelete: the row is left to the next run.                *)
BlobGcDeleteFileOnly ==
  /\ bgc.cur # None
  /\ bgc' = [bgc EXCEPT !.cur = None, !.on = bgc.pend # {}]
  /\ UNCHANGED <<store, canvas, item, fetch, stacks, pen, hgc>>

BlobGcDelete ==
  /\ bgc.cur # None
  /\ DeleteRow(bgc.cur)
  /\ item' = Unset(item, bgc.cur)
  /\ bgc' = [bgc EXCEPT !.cur = None, !.on = bgc.pend # {}]
  /\ UNCHANGED <<fetch, stacks, pen, hgc>>

-----------------------------------------------------------------------------
(* HistoryGc.run: discarded items, old items, items over the budget.       *)

Unreferenced == {i \in Items : Kept(i) /\ item[i].layer = None}
LongGone     == {i \in Items : Kept(i) /\ item[i].thrown = "long"}
Expired      == {i \in Unreferenced : item[i].old}
OverBudget   == Cardinality({i \in Items : Kept(i) /\ item[i].image # None}) > MaxItemBlobs

HistoryGcStart ==
  /\ hgc.phase = 0
  /\ LongGone \cup Expired # {} \/ OverBudget
  /\ hgc' = [phase |-> 1, pend |-> LongGone, cur |-> None]
  /\ UNCHANGED <<store, canvas, item, fetch, stacks, pen, bgc>>

(* Mutant of HistoryGcNext: the budget loop selects applied items too.     *)
HistoryGcNextAny ==
  /\ hgc.phase # 0 /\ hgc.pend = {} /\ hgc.cur = None
  /\ hgc' = IF hgc.phase = 1 THEN [hgc EXCEPT !.phase = 2, !.pend = Expired]
            ELSE IF OverBudget THEN [hgc EXCEPT !.phase = 3, !.pend = {i \in Items : Kept(i)}]
            ELSE HistoryGcOff
  /\ UNCHANGED <<store, canvas, item, fetch, stacks, pen, bgc>>

(* The next selection, once the previous one is worked off.                *)
HistoryGcNext ==
  /\ hgc.phase # 0 /\ hgc.pend = {} /\ hgc.cur = None
  /\ hgc' = IF hgc.phase = 1 THEN [hgc EXCEPT !.phase = 2, !.pend = Expired]
            ELSE IF OverBudget /\ Unreferenced # {}
                 THEN [hgc EXCEPT !.phase = 3, !.pend = Unreferenced]
            ELSE HistoryGcOff
  /\ UNCHANGED <<store, canvas, item, fetch, stacks, pen, bgc>>

(* The image's file first; the row the selection returned is used as it    *)
(* was.                                                                    *)
HistoryGcUnlink(i) ==
  /\ hgc.cur = None
  /\ i \in hgc.pend
  /\ files' = IF rows[fetch[i].blob] = "none" THEN files ELSE files \ {fetch[i].blob}
  /\ hgc' = [hgc EXCEPT !.pend = @ \ {i}, !.cur = i]
  /\ UNCHANGED <<rows, drawn, canvas, item, fetch, stacks, pen, bgc>>

(* The budget is looked at after each item, and met may spare the rest.    *)
HistoryGcDelete ==
  /\ hgc.cur # None
  /\ DeleteRow(fetch[hgc.cur].blob)
  /\ item' = [item EXCEPT ![hgc.cur] = [NoItem EXCEPT !.is = "gone"]]
  /\ hgc' = IF hgc.phase = 3 /\ ~OverBudget' THEN HistoryGcOff ELSE [hgc EXCEPT !.cur = None]
  /\ UNCHANGED <<fetch, stacks, pen, bgc>>

-----------------------------------------------------------------------------
(* Time, and the end of the process.                                       *)

InHand(b) ==
  \/ pen.new = b
  \/ \E i \in Items : fetch[i].blob = b /\ fetch[i].at \in {"file", "row"}

BlobAges(b) ==
  /\ rows[b] = "young"
  /\ Slow \/ ~InHand(b)
  /\ rows' = [rows EXCEPT ![b] = "old"]
  /\ UNCHANGED <<files, drawn, canvas, item, fetch, stacks, pen, bgc, hgc>>

(* Days are longer than the age of an orphan.                              *)
ItemAges(i) ==
  /\ Kept(i) /\ rows[fetch[i].blob] # "young"
  /\ \/ ~item[i].old /\ item' = [item EXCEPT ![i].old = TRUE]
     \/ item[i].thrown = "recent" /\ item' = [item EXCEPT ![i].thrown = "long"]
  /\ UNCHANGED <<store, canvas, fetch, stacks, pen, bgc, hgc>>

(* The new process runs HistoryGc.runStartupCheck before it serves.        *)
Degraded(i) ==
  Kept(i) /\ item[i].thrown = "no" /\ item[i].image # None /\ rows[item[i].image] = "none"

Restart ==
  /\ Restarts
  /\ undo' = <<>> /\ redo' = <<>>
  /\ pen' = Resting /\ bgc' = BlobGcOff /\ hgc' = HistoryGcOff
  /\ fetch' = [i \in Items |-> IF fetch[i].at \in {"file", "row"} THEN [fetch[i] EXCEPT !.at = "cut"]
                               ELSE fetch[i]]
  /\ item' = [i \in Items |-> IF Degraded(i) THEN [item[i] EXCEPT !.thrown = "recent"] ELSE item[i]]
  /\ UNCHANGED <<store, canvas>>

-----------------------------------------------------------------------------
Fetcher(i) == (\E b \in Blobs : FetchFile(i, b)) \/ FetchRow(i) \/ FetchItem(i)
Painting   == PaintFails \/ (\E b \in Blobs : PaintFile(b)) \/ PaintDone
Step(c)    == \/ UndoPaint(c) \/ UndoApply(c) \/ RedoPaint(c) \/ RedoApplyFails(c)
              \/ \E l \in Fresh : RedoApply(c, l)
BlobGcStep == (\E b \in Blobs : BlobGcUnlink(b)) \/ BlobGcDelete
HistoryGcStep == HistoryGcNext \/ (\E i \in Items : HistoryGcUnlink(i)) \/ HistoryGcDelete

Next ==
  \/ \E i \in Items : Fetcher(i) \/ Discard(i) \/ ItemAges(i) \/ \E l \in Fresh : Apply(i, l)
  \/ \E l \in Layers : Paint(l)
  \/ Painting
  \/ undo # <<>> /\ Step(Last(undo))
  \/ redo # <<>> /\ Step(Last(redo))
  \/ BlobGcStart \/ BlobGcStep \/ HistoryGcStart \/ HistoryGcStep
  \/ \E b \in Blobs : BlobAges(b)
  \/ Restart

Spec == Init /\ [][Next]_vars

(* The orphan timer fires again and again, what was begun goes on, time    *)
(* passes.                                                                 *)
Fairness ==
  /\ WF_vars(Painting)
  /\ \A i \in Items : WF_vars(FetchRow(i) \/ FetchItem(i))
  /\ \A b \in Blobs : WF_vars(BlobAges(b))
  /\ WF_vars(BlobGcStart) /\ WF_vars(BlobGcStep)

FairSpec == Spec /\ Fairness

-----------------------------------------------------------------------------
(* Properties.                                                             *)

(* FR-5 §3.2 of generation-history: once discarded, an item is not applied *)
(* to another layer, not even by a redo of an earlier application.         *)
DiscardFinal == [][\A i \in Items :
  Kept(i) /\ item[i].thrown # "no" => item'[i].layer \in {item[i].layer, None}]_vars

(* The two halves of a blob part only under the hand of a collector or of  *)
(* the handler that writes it, however these interleave.                   *)
FilesMatch ==
  /\ \A b \in Blobs : rows[b] # "none" /\ b \notin files =>
       bgc.cur = b \/ (hgc.cur # None /\ fetch[hgc.cur].blob = b)
  /\ \A b \in files : rows[b] = "none" =>
       pen.new = b \/ \E i \in Items : fetch[i].blob = b /\ fetch[i].at = "file"

(* FR-1, FR-31: the image of a kept item is there, until the item itself   *)
(* is being deleted.  BlobGc never takes it.                               *)
ItemsKeepImage == \A i \in Items :
  Kept(i) => \/ hgc.cur = i
             \/ item[i].image \in files /\ rows[item[i].image] # "none"

(* FR-5, FR-13 of generation-history: however requests and collectors      *)
(* interleave, a layer loses its content by undo only, never to a          *)
(* collector, unless the image is of an item that was discarded, or        *)
(* applied while it had a layer, or was given to the layer when a          *)
(* collector already had it in its selection.                              *)
Loses(l) == content[l] # None /\ l \in live' /\ content'[l] = None /\ undo' = undo

ContentKept == [][\A l \in live : content[l] \notin exposed => ~Loses(l)]_vars

(* FR-13 with no such exception. The code fails it.                        *)
ContentNeverLost == [][\A l \in live : ~Loses(l)]_vars

(* FR-6 of undo-redo: what an undo would put back is still there.          *)
StepsRevertible == \A k \in DOMAIN undo :
  undo[k].kind = "paint" => ~Refused(undo[k])

(* BlobGc: an in-flight write does not race with its row insert.           *)
OutputsLand == \A i \in Items : fetch[i].at # "lost"

(* FR-31: a blob nothing refers to and no handler writes has no file that  *)
(* no collector will ever see.                                             *)
FilesCollectable == \A b \in files : rows[b] = "none" => InHand(b)

(* Q6 of generation-history: after startup a kept item whose image is gone *)
(* is a discarded one.                                                     *)
LostAreDiscarded == \A i \in Items :
  Kept(i) /\ item[i].thrown = "no" /\ hgc.cur # i =>
    item[i].image \in files /\ rows[item[i].image] # "none"

(* FR-31: a blob that stays unreferenced is removed in the end.            *)
Collected == \A b \in Blobs :
  (rows[b] # "none" /\ ~Referenced(b)) ~> (rows[b] = "none" \/ Referenced(b))
=============================================================================
