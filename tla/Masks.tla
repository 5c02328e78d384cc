--------------------------------- MODULE Masks ---------------------------------
(***************************************************************************)
(* The server's mask and selection tools on the rows of one document.  A   *)
(* handler reads its row, awaits the asset store, and writes single        *)
(* columns; the command it leaves behind for undo writes back the columns  *)
(* as they were when the handler read them.                                *)
(*                                                                         *)
(* A mask is painted, with bytes of its own, or from_layer, derived from a *)
(* source layer.  Bytes are all clear or all solid.  A blob never changes, *)
(* so its bytes stand for it.  The caller is a local one: commands that    *)
(* are enrolled and commands that are executed go to one stack.            *)
(***************************************************************************)
EXTENDS Integers, Sequences, FiniteSets

CONSTANTS
  Rows,       \* pool of layer ids
  NoRow,
  Source,     \* a paint layer there at first
  Mask,       \* a mask derived from it
  Calls,      \* concurrent calls
  MaxSteps,   \* bound: commands of a serial caller
  MaxMixed,   \* bound: commands left behind when an overlapping call starts
  CallPaces   \* {"serial"}, {"overlap"} or both

VARIABLES
  callers,  \* "serial": a caller awaits each answer; "overlap": calls overlap
  rows,     \* the rows of the layers table
  sel,      \* the row of the selections table
  call,     \* what each call under way has read and is about to write
  done, at  \* the commands left behind, and how many of them are not undone

tables == <<callers, rows, sel, call, done, at>>

Bytes == {"clear", "solid"}
Blobs == Bytes \cup {"none"}
Flip(b) == CHOOSE c \in Bytes : c # b

RowRecords == [kind : {"paint", "mask"}, at : Nat, blob : Blobs, moved : BOOLEAN,
               sub : {"painted", "from_layer"}, source : Rows \cup {NoRow}, invert : BOOLEAN]
Select(k, b) == [kind |-> k, bytes |-> b]
NoSelection == Select("none", "clear")
Selections == {NoSelection} \cup {Select(k, b) : k \in {"shape", "mask"}, b \in Bytes}

Painted(b, p) == [kind |-> "mask", at |-> p, blob |-> b, moved |-> FALSE,
                  sub |-> "painted", source |-> NoRow, invert |-> FALSE]

(* What a mask shows: its own bytes, or those of its source, inverted if   *)
(* it says so.  What has no blob is clear, inverted or not.                *)
LoadedBytes(r) == IF r.blob = "none" THEN "clear" ELSE r.blob
Derived(r) == LET b == rows[r.source].blob
              IN  IF b = "none" THEN "clear" ELSE IF r.invert THEN Flip(b) ELSE b

Idle == [op |-> "idle"]
Quiet == \A c \in Calls : call[c] = Idle
Now == IF callers = "serial" THEN <<rows, sel>> ELSE <<>>  \* kept for the property

RowsInit ==
  /\ callers \in CallPaces
  /\ \E b \in Blobs, i \in BOOLEAN :
       rows = [l \in {Source, Mask} |->
                 IF l = Source THEN [Painted(b, 0) EXCEPT !.kind = "paint"]
                 ELSE [Painted("none", 1) EXCEPT !.sub = "from_layer", !.source = Source,
                                                 !.invert = i]]
  /\ sel = NoSelection
  /\ call = [c \in Calls |-> Idle]
  /\ done = <<>> /\ at = 0

Masks      == {l \in DOMAIN rows : rows[l].kind = "mask"}
PaintedIds == {l \in Masks : rows[l].sub = "painted"}

-----------------------------------------------------------------------------
(* Commands.  A command has the rows it writes, with the columns as they   *)
(* were and as they are after it.                                          *)

Columns(what, r, s) ==
  CASE what = "blob"      -> [r EXCEPT !.blob = s.blob]
    [] what = "meta"      -> [r EXCEPT !.sub = s.sub, !.source = s.source, !.invert = s.invert]
    [] what = "baked"     -> [r EXCEPT !.blob = s.blob, !.sub = s.sub, !.source = s.source,
                                       !.invert = s.invert]
    [] what = "transform" -> [r EXCEPT !.moved = s.moved]

Only(what, r) == Columns(what, Painted("none", 0), r)

Write(what, values) ==
  [l \in DOMAIN rows |-> IF l \in DOMAIN values THEN Columns(what, rows[l], values[l]) ELSE rows[l]]

WithoutRow(l) == [k \in DOMAIN rows \ {l} |-> rows[k]]
WithRow(l, r) ==
  [k \in DOMAIN rows \cup {l} |-> IF k = l /\ l \notin DOMAIN rows THEN r ELSE rows[k]]

(* A command for rows, one for a new row and one for the selection.        *)
ForRows(what, from, to) ==
  [what |-> what, from |-> [l \in DOMAIN from |-> Only(what, from[l])],
   to |-> [l \in DOMAIN to |-> Only(what, to[l])], sel |-> <<NoSelection, NoSelection>>]
ForNewRow(l, r) ==
  [what |-> "row", from |-> [k \in {} |-> r], to |-> [k \in {l} |-> r],
   sel |-> <<NoSelection, NoSelection>>]
ForSelection(prior, next) ==
  [what |-> "selection", from |-> [l \in {} |-> NoRow], to |-> [l \in {} |-> NoRow],
   sel |-> <<prior, next>>]

RoomLeft == Len(done) < IF callers = "serial" THEN MaxSteps ELSE MaxMixed

(* The command goes on top of what is not undone.  The tables before and   *)
(* after it are kept for the property.                                     *)
Leave(command, before) ==
  /\ done' = Append(SubSeq(done, 1, at),
                    [command |-> command, before |-> before,
                     after |-> IF callers = "serial" THEN <<rows', sel'>> ELSE <<>>])
  /\ at' = at + 1

UndoOf(k) ==
  /\ rows' = IF k.what = "row" THEN WithoutRow(CHOOSE l \in DOMAIN k.to : TRUE)
             ELSE Write(k.what, k.from)
  /\ sel' = IF k.what = "selection" THEN k.sel[1] ELSE sel

RedoOf(k) ==
  /\ rows' = IF k.what = "row" THEN LET l == CHOOSE l \in DOMAIN k.to : TRUE IN WithRow(l, k.to[l])
             ELSE Write(k.what, k.to)
  /\ sel' = IF k.what = "selection" THEN k.sel[2] ELSE sel

MayStart == RoomLeft /\ (callers = "overlap" \/ Quiet)

Undo ==
  /\ at > 0 /\ (callers = "overlap" \/ Quiet)
  /\ UndoOf(done[at].command)
  /\ at' = at - 1
  /\ UNCHANGED <<callers, call, done>>

Redo ==
  /\ at < Len(done) /\ (callers = "overlap" \/ Quiet)
  /\ RedoOf(done[at + 1].command)
  /\ at' = at + 1
  /\ UNCHANGED <<callers, call, done>>

-----------------------------------------------------------------------------
(* clear_mask, fill_mask, invert_mask and refine_mask of a painted mask,   *)
(* selection_to_mask over one: the row is read, the bytes are worked out   *)
(* from what was read and go to the asset store, and only then the blob of *)
(* the row is replaced.                                                    *)

Rewrite(c, l, b) ==
  /\ MayStart /\ call[c] = Idle
  /\ l \in PaintedIds
  /\ call' = [call EXCEPT ![c] = [op |-> "bytes", l |-> l, row |-> Only("baked", rows[l]), bytes |-> b,
                                  before |-> Now]]
  /\ UNCHANGED <<callers, rows, sel, done, at>>

ClearMask(c, l)   == Rewrite(c, l, "clear")
FillMask(c, l)    == \E b \in Bytes : Rewrite(c, l, b)
InvertBytes(c, l) == l \in PaintedIds /\ Rewrite(c, l, Flip(LoadedBytes(rows[l])))
RefineMask(c, l)  == \E b \in Bytes : Rewrite(c, l, b)

(* A selection by mask cannot be rasterized: no resolver is passed.        *)
SelectionOverMask(c, l) == sel.kind # "mask" /\ Rewrite(c, l, sel.bytes)

RewriteEnds(c) ==
  LET k == call[c] IN
    /\ k.op = "bytes"
    /\ rows' = Write("blob", [l \in {k.l} |-> [k.row EXCEPT !.blob = k.bytes]])
    /\ call' = [call EXCEPT ![c] = Idle]
    /\ sel' = sel
    /\ Leave(ForRows("blob", [l \in {k.l} |-> k.row],
                     [l \in {k.l} |-> [k.row EXCEPT !.blob = k.bytes]]), k.before)
    /\ UNCHANGED callers

(* The asset store rejects, or a read does: nothing is written.            *)
Fails(c) ==
  /\ call[c].op \in {"bytes", "bake", "new", "selection"}
  /\ call' = [call EXCEPT ![c] = Idle]
  /\ UNCHANGED <<callers, rows, sel, done, at>>

(* Mutant of InvertFlag: the flag read when the call came is written after *)
(* a wait, as the bytes of a painted mask are.                             *)
InvertFlagLate(c, l) ==
  \/ /\ MayStart /\ call[c] = Idle
     /\ l \in Masks \ PaintedIds
     /\ call' = [call EXCEPT ![c] = [op |-> "flag", l |-> l, row |-> Only("baked", rows[l]), before |-> Now]]
     /\ UNCHANGED <<callers, rows, sel, done, at>>
  \/ /\ call[c].op = "flag" /\ call[c].l = l
     /\ LET to == [k \in {l} |-> [call[c].row EXCEPT !.invert = ~@]] IN
          /\ rows' = Write("meta", to)
          /\ call' = [call EXCEPT ![c] = Idle]
          /\ sel' = sel
          /\ Leave(ForRows("meta", [k \in {l} |-> call[c].row], to), call[c].before)
          /\ UNCHANGED callers

(* invert_mask of a derived mask toggles its flag in one go.               *)
InvertFlag(c, l) ==
  /\ MayStart /\ call[c] = Idle
  /\ l \in Masks \ PaintedIds
  /\ LET to == [k \in {l} |-> [rows[l] EXCEPT !.invert = ~@]] IN
       /\ rows' = Write("meta", to)
       /\ sel' = sel
       /\ Leave(ForRows("meta", [k \in {l} |-> rows[l]], to), Now)
  /\ UNCHANGED <<callers, call>>

(* bake_mask: the blob is replaced, and the kind of mask a moment later.   *)
BakeMask(c, l) ==
  /\ MayStart /\ call[c] = Idle
  /\ l \in Masks \ PaintedIds
  /\ rows[l].source \in DOMAIN rows
  /\ call' = [call EXCEPT ![c] = [op |-> "bake", l |-> l, row |-> Only("baked", rows[l]),
                                  bytes |-> Derived(rows[l]), before |-> Now]]
  /\ UNCHANGED <<callers, rows, sel, done, at>>

BakeBytes(c) ==
  LET k == call[c] IN
    /\ k.op = "bake"
    /\ rows' = Write("blob", [l \in {k.l} |-> [k.row EXCEPT !.blob = k.bytes]])
    /\ call' = [call EXCEPT ![c].op = "baked"]
    /\ UNCHANGED <<callers, sel, done, at>>

(* Mutant of BakeEnds: undo restores the kind of mask and not the blob.    *)
BakeEndsMeta(c) ==
  LET k  == call[c]
      to == [l \in {k.l} |-> Painted(k.bytes, 0)]
  IN  /\ k.op = "baked"
      /\ rows' = Write("meta", to)
      /\ call' = [call EXCEPT ![c] = Idle]
      /\ sel' = sel
      /\ Leave(ForRows("meta", [l \in {k.l} |-> k.row], to), k.before)
      /\ UNCHANGED callers

BakeEnds(c) ==
  LET k  == call[c]
      to == [l \in {k.l} |-> Painted(k.bytes, 0)]
  IN  /\ k.op = "baked"
      /\ rows' = Write("meta", to)
      /\ call' = [call EXCEPT ![c] = Idle]
      /\ sel' = sel
      /\ Leave(ForRows("baked", [l \in {k.l} |-> k.row], to), k.before)
      /\ UNCHANGED callers

(* selection_to_mask without a layer: the position is the number of rows   *)
(* when the call came.                                                     *)
SelectionToMask(c) ==
  /\ MayStart /\ call[c] = Idle
  /\ sel.kind # "mask"
  /\ call' = [call EXCEPT ![c] = [op |-> "new", bytes |-> sel.bytes,
                                  at |-> Cardinality(DOMAIN rows), before |-> Now]]
  /\ UNCHANGED <<callers, rows, sel, done, at>>

(* An id no row has, and no command would bring back.                      *)
Fresh(l) == l \notin DOMAIN rows /\ \A i \in 1..Len(done) : l \notin DOMAIN done[i].command.to

InsertMask(c, l) ==
  LET k == call[c] IN
    /\ k.op = "new" /\ Fresh(l)
    /\ rows' = WithRow(l, Painted(k.bytes, k.at))
    /\ call' = [call EXCEPT ![c] = Idle]
    /\ sel' = sel
    /\ Leave(ForNewRow(l, Painted(k.bytes, k.at)), k.before)
    /\ UNCHANGED callers

-----------------------------------------------------------------------------
(* The selection.                                                          *)

(* mask_to_selection: the prior selection is read when the bytes are in    *)
(* the store.  Thresholding leaves clear and solid bytes alone, unless the *)
(* threshold is 0.                                                         *)
MaskToSelection(c, l) ==
  /\ MayStart /\ call[c] = Idle
  /\ l \in Masks
  /\ rows[l].sub = "from_layer" => rows[l].source \in DOMAIN rows
  /\ LET b == IF l \in PaintedIds THEN LoadedBytes(rows[l]) ELSE Derived(rows[l]) IN
       \E t \in {b, "solid"} :
         call' = [call EXCEPT ![c] = [op |-> "selection", bytes |-> t, before |-> Now]]
  /\ UNCHANGED <<callers, rows, sel, done, at>>

SelectMask(c) ==
  LET k == call[c] IN
    /\ k.op = "selection"
    /\ sel' = Select("mask", k.bytes)
    /\ call' = [call EXCEPT ![c] = Idle]
    /\ rows' = rows
    /\ Leave(ForSelection(sel, Select("mask", k.bytes)), k.before)
    /\ UNCHANGED callers

(* set_selection: the prior selection is read first.  A shape on its own   *)
(* may become any selection; a composition or a modification needs the     *)
(* prior one as bytes, and throws if that is a mask; the wand awaits the   *)
(* bytes of a layer.                                                       *)
SetSelection(c) ==
  /\ MayStart /\ call[c] = Idle
  /\ \E next \in Selections :
       call' = [call EXCEPT ![c] = [op |-> "set", prior |-> sel, next |-> next, before |-> Now]]
  /\ UNCHANGED <<callers, rows, sel, done, at>>

ApplySelection(c) ==
  LET k == call[c] IN
    /\ k.op = "set"
    /\ sel' = k.next
    /\ call' = [call EXCEPT ![c] = Idle]
    /\ rows' = rows
    /\ Leave(ForSelection(k.prior, k.next), k.before)
    /\ UNCHANGED callers

(* invert_selection, refine_selection and select_all read and write in one *)
(* go.                                                                     *)
SelectNow(next) ==
  /\ MayStart
  /\ sel' = next
  /\ rows' = rows
  /\ Leave(ForSelection(sel, next), Now)
  /\ UNCHANGED <<callers, call>>

SelectAll == SelectNow(Select("shape", "solid"))
InvertSelection ==
  /\ sel.kind # "mask"
  /\ \/ sel.kind = "none" /\ SelectNow(Select("shape", "solid"))
     \/ sel.kind # "none" /\ \E next \in {NoSelection, Select("shape", "solid")} : SelectNow(next)
RefineSelection ==
  /\ sel.kind = "shape"
  /\ \E next \in {NoSelection, Select("shape", "solid")} : SelectNow(next)

-----------------------------------------------------------------------------
(* transform_layer: the rows of a layer or of a group are read, and their  *)
(* transforms written when the command is executed.                        *)
TransformLayer(c, ls) ==
  /\ MayStart /\ call[c] = Idle
  /\ ls # {} /\ ls \subseteq DOMAIN rows
  /\ \E t \in BOOLEAN :
       call' = [call EXCEPT ![c] = [op |-> "transform", before |-> Now,
                                    from |-> [l \in ls |-> Only("transform", rows[l])],
                                    to |-> [l \in ls |-> [Painted("none", 0) EXCEPT !.moved = t]]]]
  /\ UNCHANGED <<callers, rows, sel, done, at>>

TransformEnds(c) ==
  LET k == call[c] IN
    /\ k.op = "transform"
    /\ rows' = Write("transform", k.to)
    /\ call' = [call EXCEPT ![c] = Idle]
    /\ sel' = sel
    /\ Leave(ForRows("transform", k.from, k.to), k.before)
    /\ UNCHANGED callers

-----------------------------------------------------------------------------
MaskTool ==
  \E c \in Calls :
    \/ RewriteEnds(c) \/ Fails(c) \/ BakeBytes(c) \/ BakeEnds(c) \/ SelectionToMask(c)
    \/ \E l \in Rows : \/ ClearMask(c, l) \/ FillMask(c, l) \/ InvertBytes(c, l)
                       \/ RefineMask(c, l) \/ SelectionOverMask(c, l)
                       \/ InvertFlag(c, l) \/ BakeMask(c, l) \/ InsertMask(c, l)

SelectionTool ==
  \/ SelectAll \/ InvertSelection \/ RefineSelection
  \/ \E c \in Calls : \/ SelectMask(c) \/ SetSelection(c) \/ ApplySelection(c)
                      \/ \E l \in Rows : MaskToSelection(c, l)

TransformTool ==
  \E c \in Calls : TransformEnds(c) \/ \E ls \in SUBSET Rows : TransformLayer(c, ls)

RowsNext == MaskTool \/ SelectionTool \/ TransformTool \/ Undo \/ Redo

RowsSpec == RowsInit /\ [][RowsNext]_tables

(* Each variable has the type the code gives it.                           *)
RowsTypeOK ==
  /\ callers \in {"serial", "overlap"}
  /\ DOMAIN rows \subseteq Rows /\ rows \in [DOMAIN rows -> RowRecords]
  /\ sel \in Selections
  /\ at \in 0..Len(done)

(* For a caller that awaits each answer, undo and redo are exact: however  *)
(* mask, selection and transform tools follow each other, the tables are   *)
(* those of before the next command to redo, and of after the last one     *)
(* that is not undone - every column, not only those the command wrote.    *)
StepsExact ==
  (callers = "serial" /\ Quiet) =>
    /\ at > 0 => Now = done[at].after
    /\ at < Len(done) => Now = done[at + 1].before

(* A baked mask is not turned back into a derived one by a call that read  *)
(* it before: only undo and redo do that.                                  *)
PaintedStays ==
  [][\/ Len(done') = Len(done) /\ at' # at
     \/ \A l \in PaintedIds : l \in DOMAIN rows' => rows'[l].sub = "painted"]_tables
=============================================================================
