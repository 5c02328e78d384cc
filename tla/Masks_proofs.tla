----------------------------- MODULE Masks_proofs -----------------------------
(* Proofs about Masks, for any rows, calls and bounds: types, that no call *)
(* turns a painted mask back into a derived one, and that undo and redo    *)
(* are exact for a caller that awaits each answer.                         *)
EXTENDS Masks, SequenceTheorems, FiniteSetTheorems, TLAPS

(* Ids are finitely many, the layers the document starts with among them.  *)
Parameters ==
  IsFiniteSet(Rows) /\ {Source, Mask} \subseteq Rows /\ CallPaces \subseteq {"serial", "overlap"}

-----------------------------------------------------------------------------
(* Rows and columns.                                                       *)

Tables == UNION {[S -> RowRecords] : S \in SUBSET Rows}
Column == {"blob", "meta", "baked", "transform"}

LEMMA TableFacts ==
  ASSUME NEW t
  PROVE  t \in Tables <=> DOMAIN t \subseteq Rows /\ t \in [DOMAIN t -> RowRecords]
BY DEF Tables

LEMMA ColumnsAre ==
  ASSUME NEW r, NEW s
  PROVE  /\ Columns("blob", r, s) = [r EXCEPT !.blob = s.blob]
         /\ Columns("meta", r, s) = [r EXCEPT !.sub = s.sub, !.source = s.source, !.invert = s.invert]
         /\ Columns("baked", r, s) = [r EXCEPT !.blob = s.blob, !.sub = s.sub, !.source = s.source,
                                               !.invert = s.invert]
         /\ Columns("transform", r, s) = [r EXCEPT !.moved = s.moved]
BY DEF Columns

LEMMA ColumnsTyped ==
  ASSUME NEW what \in Column, NEW r \in RowRecords, NEW s \in RowRecords
  PROVE  Columns(what, r, s) \in RowRecords
<1>0. /\ s.blob \in Blobs /\ s.moved \in BOOLEAN /\ s.invert \in BOOLEAN
      /\ s.sub \in {"painted", "from_layer"} /\ s.source \in Rows \cup {NoRow}
  BY DEF RowRecords
<1>1. CASE what = "blob"
  <2>1. Columns(what, r, s) = [r EXCEPT !.blob = s.blob]
    BY <1>1, ColumnsAre
  <2> QED
    BY <1>0, <2>1 DEF RowRecords
<1>2. CASE what = "meta"
  <2>1. Columns(what, r, s) = [r EXCEPT !.sub = s.sub, !.source = s.source, !.invert = s.invert]
    BY <1>2, ColumnsAre
  <2> QED
    BY <1>0, <2>1 DEF RowRecords
<1>3. CASE what = "baked"
  <2>1. Columns(what, r, s) = [r EXCEPT !.blob = s.blob, !.sub = s.sub, !.source = s.source, !.invert = s.invert]
    BY <1>3, ColumnsAre
  <2> QED
    BY <1>0, <2>1 DEF RowRecords
<1>4. CASE what = "transform"
  <2>1. Columns(what, r, s) = [r EXCEPT !.moved = s.moved]
    BY <1>4, ColumnsAre
  <2> QED
    BY <1>0, <2>1 DEF RowRecords
<1> QED
  BY <1>1, <1>2, <1>3, <1>4 DEF Column

LEMMA PaintedTyped ==
  ASSUME NEW b \in Blobs, NEW p \in Nat
  PROVE  Painted(b, p) \in RowRecords
BY DEF Painted, RowRecords

LEMMA OnlyTyped ==
  ASSUME NEW what \in Column, NEW r \in RowRecords
  PROVE  Only(what, r) \in RowRecords
<1>1. Painted("none", 0) \in RowRecords
  BY PaintedTyped DEF Blobs
<1> QED
  BY <1>1, ColumnsTyped DEF Only

LEMMA EmptyTable ==
  ASSUME NEW t, DOMAIN t = {}, t = [l \in {} |-> t[l]]
  PROVE  t \in Tables
BY DEF Tables

LEMMA OneRow ==
  ASSUME NEW l \in Rows, NEW r \in RowRecords
  PROVE  [k \in {l} |-> r] \in Tables
<1> DEFINE t == [k \in {l} |-> r]
<1>1. DOMAIN t \subseteq Rows /\ t \in [DOMAIN t -> RowRecords]
  OBVIOUS
<1> QED
  BY <1>1, TableFacts

-----------------------------------------------------------------------------
(* Commands and calls.                                                     *)

Commands == {k \in [what : Column \cup {"row", "selection"}, from : Tables, to : Tables,
                    sel : Selections \X Selections] :
               /\ k.what = "row" => DOMAIN k.to # {}
               /\ k.what = "selection" => DOMAIN k.from = {} /\ DOMAIN k.to = {}}
Views == {<<>>} \cup (Tables \X Selections)
Entries == [command : Commands, before : Views, after : Views]

CallTypes ==
  {Idle}
    \cup [op : {"bytes", "bake", "baked"}, l : Rows, row : RowRecords, bytes : Bytes, before : Views]
    \cup [op : {"new"}, bytes : Bytes, at : Nat, before : Views]
    \cup [op : {"selection"}, bytes : Bytes, before : Views]
    \cup [op : {"set"}, prior : Selections, next : Selections, before : Views]
    \cup [op : {"transform"}, before : Views, from : Tables, to : Tables]

Typed ==
  /\ callers \in {"serial", "overlap"}
  /\ rows \in Tables
  /\ sel \in Selections
  /\ call \in [Calls -> CallTypes]
  /\ done \in Seq(Entries)
  /\ at \in 0..Len(done)

LEMMA TypedTypes == Typed => RowsTypeOK
BY TableFacts DEF Typed, RowsTypeOK

LEMMA SelectionsAre ==
  /\ NoSelection \in Selections
  /\ \A k \in {"shape", "mask"}, b \in Bytes : Select(k, b) \in Selections
  /\ \A s \in Selections : s.bytes \in Bytes
BY DEF Selections, NoSelection, Select, Bytes

LEMMA FlipTyped == ASSUME NEW b \in Bytes PROVE Flip(b) \in Bytes
<1>1. \E c \in Bytes : c # b
  BY DEF Bytes
<1> QED
  BY <1>1 DEF Flip

LEMMA NowTyped == Typed => Now \in Views
BY DEF Typed, Now, Views

(* What a call under way is, by what it does.                              *)
LEMMA CallIs ==
  ASSUME NEW k \in CallTypes
  PROVE  /\ k.op \in {"idle", "bytes", "bake", "baked", "new", "selection", "set", "transform"}
         /\ k.op = "idle" <=> k = Idle
         /\ k.op \in {"bytes", "bake", "baked"} =>
              k \in [op : {"bytes", "bake", "baked"}, l : Rows, row : RowRecords, bytes : Bytes,
                     before : Views]
         /\ k.op = "new" => k \in [op : {"new"}, bytes : Bytes, at : Nat, before : Views]
         /\ k.op = "selection" => k \in [op : {"selection"}, bytes : Bytes, before : Views]
         /\ k.op = "set" => k \in [op : {"set"}, prior : Selections, next : Selections, before : Views]
         /\ k.op = "transform" => k \in [op : {"transform"}, before : Views, from : Tables, to : Tables]
         /\ k.op # "idle" => k.before \in Views
BY DEF CallTypes, Idle

LEMMA ForRowsTyped ==
  ASSUME NEW what \in Column, NEW from \in Tables, NEW to \in Tables
  PROVE  ForRows(what, from, to) \in Commands
<1> DEFINE f == [l \in DOMAIN from |-> Only(what, from[l])]
           t == [l \in DOMAIN to |-> Only(what, to[l])]
<1>1. f \in Tables /\ t \in Tables
  BY TableFacts, OnlyTyped
<1>2. ForRows(what, from, to) = [what |-> what, from |-> f, to |-> t, sel |-> <<NoSelection, NoSelection>>]
  BY DEF ForRows
<1> HIDE DEF f, t
<1> QED
  BY <1>1, <1>2, SelectionsAre DEF Commands, Column

LEMMA ForNewRowTyped ==
  ASSUME NEW l \in Rows, NEW r \in RowRecords
  PROVE  ForNewRow(l, r) \in Commands
<1> DEFINE f == [k \in {} |-> r]
           t == [k \in {l} |-> r]
<1>1. f \in Tables
  BY DEF Tables
<1>3. t \in Tables /\ DOMAIN t # {}
  BY OneRow
<1>2. ForNewRow(l, r) = [what |-> "row", from |-> f, to |-> t, sel |-> <<NoSelection, NoSelection>>]
  BY DEF ForNewRow
<1> HIDE DEF f, t
<1> QED
  BY <1>1, <1>2, <1>3, SelectionsAre DEF Commands, Column

LEMMA ForSelectionTyped ==
  ASSUME NEW prior \in Selections, NEW next \in Selections
  PROVE  ForSelection(prior, next) \in Commands
<1> DEFINE f == [l \in {} |-> NoRow]
<1>1. f \in Tables /\ DOMAIN f = {}
  BY DEF Tables
<1>2. ForSelection(prior, next) = [what |-> "selection", from |-> f, to |-> f, sel |-> <<prior, next>>]
  BY DEF ForSelection
<1> HIDE DEF f
<1> QED
  BY <1>1, <1>2 DEF Commands, Column

-----------------------------------------------------------------------------
(* What a step writes.                                                     *)

LEMMA WriteFacts ==
  ASSUME Typed, NEW what, NEW values \in Tables, what \in Column \/ DOMAIN values = {}
  PROVE  /\ Write(what, values) \in Tables /\ DOMAIN Write(what, values) = DOMAIN rows
         /\ \A l \in DOMAIN rows : Write(what, values)[l] =
              IF l \in DOMAIN values THEN Columns(what, rows[l], values[l]) ELSE rows[l]
<1> DEFINE w == Write(what, values)
<1>1. /\ DOMAIN rows \subseteq Rows /\ \A l \in DOMAIN rows : rows[l] \in RowRecords
      /\ \A l \in DOMAIN values : values[l] \in RowRecords
  BY TableFacts DEF Typed
<1>2. w = [l \in DOMAIN rows |-> IF l \in DOMAIN values THEN Columns(what, rows[l], values[l]) ELSE rows[l]]
  BY DEF Write
<1>3. \A l \in DOMAIN rows :
        (IF l \in DOMAIN values THEN Columns(what, rows[l], values[l]) ELSE rows[l]) \in RowRecords
  BY <1>1, ColumnsTyped
<1>4. DOMAIN w \subseteq Rows /\ w \in [DOMAIN w -> RowRecords]
  BY <1>1, <1>2, <1>3
<1> QED
  BY <1>2, <1>4, TableFacts

LEMMA LeaveFacts ==
  ASSUME Typed, NEW command \in Commands, NEW before \in Views, Leave(command, before),
         rows' \in Tables, sel' \in Selections
  PROVE  /\ done' \in Seq(Entries) /\ at' \in 0..Len(done') /\ Len(done') = at' /\ at' = at + 1
         /\ \A i \in 1..at : done'[i] = done[i]
         /\ done'[at'] = [command |-> command, before |-> before,
                         after |-> IF callers = "serial" THEN <<rows', sel'>> ELSE <<>>]
<1> DEFINE e == [command |-> command, before |-> before,
                 after |-> IF callers = "serial" THEN <<rows', sel'>> ELSE <<>>]
           s == SubSeq(done, 1, at)
<1>1. e \in Entries
  BY DEF Entries, Views
<1>2. done \in Seq(Entries) /\ at \in 0..Len(done) /\ at \in Int
  BY DEF Typed
<1>3. \A i \in 1..at : done[i] \in Entries
  BY <1>2
<1>4. s \in Seq(Entries) /\ Len(s) = at /\ \A i \in 1..at : s[i] = done[i]
  BY <1>2, <1>3, SubSeqProperties
<1>5. done' = Append(s, e) /\ at' = at + 1
  BY DEF Leave
<1> HIDE DEF e, s
<1>6. /\ done' \in Seq(Entries) /\ Len(done') = at + 1 /\ done'[at + 1] = e
      /\ \A i \in 1..at : done'[i] = s[i]
  BY <1>1, <1>4, <1>5, AppendProperties
<1> QED
  BY <1>2, <1>4, <1>5, <1>6 DEF e

PaintedLeft == \A l \in PaintedIds : l \in DOMAIN rows' => rows'[l].sub = "painted"

(* Blobs and transforms say nothing of what kind of mask a row is.         *)
LEMMA WritePaints ==
  ASSUME Typed, NEW what \in {"blob", "transform"}, NEW values \in Tables, rows' = Write(what, values)
  PROVE  PaintedLeft
<1>1. \A l \in DOMAIN rows : rows[l] \in RowRecords
  BY TableFacts DEF Typed
<1>2. ASSUME NEW l \in DOMAIN rows
      PROVE  Columns(what, rows[l], values[l]).sub = rows[l].sub
  <2>1. CASE what = "blob"
    <3>1. Columns(what, rows[l], values[l]) = [rows[l] EXCEPT !.blob = values[l].blob]
      BY <2>1, ColumnsAre
    <3> QED
      BY <1>1, <3>1 DEF RowRecords
  <2>2. CASE what = "transform"
    <3>1. Columns(what, rows[l], values[l]) = [rows[l] EXCEPT !.moved = values[l].moved]
      BY <2>2, ColumnsAre
    <3> QED
      BY <1>1, <3>1 DEF RowRecords
  <2> QED
    BY <2>1, <2>2
<1>3. \A l \in DOMAIN rows : rows'[l].sub = rows[l].sub
  BY <1>2, WriteFacts DEF Column
<1> QED
  BY <1>3 DEF PaintedLeft, PaintedIds, Masks

LEMMA SameRows ==
  ASSUME rows' = rows
  PROVE  PaintedLeft
BY DEF PaintedLeft, PaintedIds

(* A call begins.                                                          *)
LEMMA Begins ==
  ASSUME Typed, NEW c \in Calls, NEW k \in CallTypes, call' = [call EXCEPT ![c] = k],
         UNCHANGED <<callers, rows, sel, done, at>>
  PROVE  Typed'
BY DEF Typed

LEMMA IdleTyped == Idle \in CallTypes
BY DEF CallTypes

(* A call ends and leaves a command.                                       *)
LEMMA Finishes ==
  ASSUME Typed, NEW c \in Calls, call' = [call EXCEPT ![c] = Idle] \/ call' = call, callers' = callers,
         rows' \in Tables, sel' \in Selections, NEW command \in Commands, NEW before \in Views,
         Leave(command, before)
  PROVE  Typed'
<1>1. call' \in [Calls -> CallTypes]
  BY IdleTyped DEF Typed
<1>2. done' \in Seq(Entries) /\ at' \in 0..Len(done')
  BY LeaveFacts
<1> QED
  BY <1>1, <1>2 DEF Typed

-----------------------------------------------------------------------------
(* Types, and painted masks, step by step.                                 *)

LEMMA RowsTyped ==
  ASSUME Typed
  PROVE  /\ DOMAIN rows \subseteq Rows
         /\ \A l \in DOMAIN rows : rows[l] \in RowRecords /\ Only("baked", rows[l]) \in RowRecords
                                  /\ rows[l].blob \in Blobs /\ LoadedBytes(rows[l]) \in Bytes
         /\ \A l \in DOMAIN rows : rows[l].source \in DOMAIN rows => Derived(rows[l]) \in Bytes
<1>1. DOMAIN rows \subseteq Rows /\ \A l \in DOMAIN rows : rows[l] \in RowRecords
  BY TableFacts DEF Typed
<1>2. \A l \in DOMAIN rows : rows[l].blob \in Blobs
  BY <1>1 DEF RowRecords
<1>3. \A l \in DOMAIN rows : rows[l].source \in DOMAIN rows => Derived(rows[l]) \in Bytes
  BY <1>2, FlipTyped DEF Derived, Blobs, Bytes
<1>4. \A l \in DOMAIN rows : LoadedBytes(rows[l]) \in Bytes
  BY <1>2 DEF LoadedBytes, Blobs, Bytes
<1> QED
  BY <1>1, <1>2, <1>3, <1>4, OnlyTyped DEF Column

LEMMA RewriteSafe ==
  ASSUME Typed, NEW c \in Calls, NEW l \in Rows, NEW b \in Bytes, Rewrite(c, l, b)
  PROVE  Typed' /\ PaintedLeft
<1> DEFINE k == [op |-> "bytes", l |-> l, row |-> Only("baked", rows[l]), bytes |-> b, before |-> Now]
<1>1. Only("baked", rows[l]) \in RowRecords
  BY RowsTyped DEF Rewrite, PaintedIds, Masks
<1>2. k \in CallTypes
  BY <1>1, NowTyped DEF CallTypes
<1>3. call' = [call EXCEPT ![c] = k] /\ UNCHANGED <<callers, rows, sel, done, at>>
  BY DEF Rewrite
<1> HIDE DEF k
<1> QED
  BY <1>2, <1>3, Begins, SameRows

LEMMA RewritesSafe ==
  ASSUME Typed, NEW c \in Calls, NEW l \in Rows,
         \/ ClearMask(c, l) \/ FillMask(c, l) \/ InvertBytes(c, l)
         \/ RefineMask(c, l) \/ SelectionOverMask(c, l)
  PROVE  Typed' /\ PaintedLeft
<1>1. "clear" \in Bytes /\ sel.bytes \in Bytes
  BY SelectionsAre DEF Bytes, Typed
<1>2. l \in PaintedIds => Flip(LoadedBytes(rows[l])) \in Bytes
  BY RowsTyped, FlipTyped DEF PaintedIds, Masks
<1>3. \E b \in Bytes : Rewrite(c, l, b)
  BY <1>1, <1>2 DEF ClearMask, FillMask, InvertBytes, RefineMask, SelectionOverMask
<1> QED
  BY <1>3, RewriteSafe

(* The row a call over bytes works on.                                     *)
LEMMA BytesCall ==
  ASSUME Typed, NEW c \in Calls, call[c].op \in {"bytes", "bake", "baked"}
  PROVE  LET k == call[c] IN
         /\ k.l \in Rows /\ k.row \in RowRecords /\ k.bytes \in Bytes /\ k.before \in Views
         /\ [k.row EXCEPT !.blob = k.bytes] \in RowRecords /\ Painted(k.bytes, 0) \in RowRecords
<1>1. call[c] \in [op : {"bytes", "bake", "baked"}, l : Rows, row : RowRecords, bytes : Bytes,
                   before : Views]
  BY CallIs DEF Typed
<1>2. call[c].row \in RowRecords /\ call[c].bytes \in Bytes /\ Bytes \subseteq Blobs
  BY <1>1 DEF Blobs
<1>3. [call[c].row EXCEPT !.blob = call[c].bytes] \in RowRecords
  BY <1>2 DEF RowRecords
<1> QED
  BY <1>1, <1>2, <1>3, PaintedTyped

LEMMA RewriteEndsSafe ==
  ASSUME Typed, NEW c \in Calls, RewriteEnds(c)
  PROVE  Typed' /\ PaintedLeft
<1> DEFINE k == call[c]
           r == [k.row EXCEPT !.blob = k.bytes]
           from == [l \in {k.l} |-> k.row]
           to == [l \in {k.l} |-> r]
<1>1. k.l \in Rows /\ k.row \in RowRecords /\ k.before \in Views /\ r \in RowRecords
  BY BytesCall DEF RewriteEnds
<1>2. /\ rows' = Write("blob", to) /\ call' = [call EXCEPT ![c] = Idle] /\ sel' = sel /\ callers' = callers
      /\ Leave(ForRows("blob", from, to), k.before)
  BY DEF RewriteEnds
<1> HIDE DEF k, r
<1>3. from \in Tables /\ to \in Tables
  BY <1>1, OneRow
<1> HIDE DEF from, to
<1>4. ForRows("blob", from, to) \in Commands /\ rows' \in Tables /\ PaintedLeft
  BY <1>2, <1>3, ForRowsTyped, WriteFacts, WritePaints DEF Column
<1> QED
  BY <1>1, <1>2, <1>4, Finishes DEF Typed

LEMMA FailsSafe ==
  ASSUME Typed, NEW c \in Calls, Fails(c)
  PROVE  Typed' /\ PaintedLeft
BY IdleTyped, Begins, SameRows DEF Fails

LEMMA InvertFlagSafe ==
  ASSUME Typed, NEW c \in Calls, NEW l \in Rows, InvertFlag(c, l)
  PROVE  Typed' /\ PaintedLeft
<1> DEFINE r == [rows[l] EXCEPT !.invert = ~@]
           from == [k \in {l} |-> rows[l]]
           to == [k \in {l} |-> r]
<1>0. l \in DOMAIN rows /\ l \notin PaintedIds
  BY DEF InvertFlag, Masks
<1>1. rows[l] \in RowRecords /\ r \in RowRecords
  BY <1>0, RowsTyped DEF RowRecords
<1>2. /\ rows' = Write("meta", to) /\ sel' = sel /\ callers' = callers /\ call' = call
      /\ Leave(ForRows("meta", from, to), Now)
  BY DEF InvertFlag
<1> HIDE DEF r
<1>3. from \in Tables /\ to \in Tables /\ DOMAIN to = {l}
  BY <1>1, OneRow
<1> HIDE DEF from, to
<1>4. ForRows("meta", from, to) \in Commands /\ rows' \in Tables
      /\ \A k \in DOMAIN rows : k # l => rows'[k] = rows[k]
  BY <1>2, <1>3, ForRowsTyped, WriteFacts DEF Column
<1>5. PaintedLeft
  BY <1>0, <1>4 DEF PaintedLeft, PaintedIds, Masks
<1> QED
  BY <1>2, <1>4, <1>5, NowTyped, Finishes DEF Typed

LEMMA BakeMaskSafe ==
  ASSUME Typed, NEW c \in Calls, NEW l \in Rows, BakeMask(c, l)
  PROVE  Typed' /\ PaintedLeft
<1> DEFINE k == [op |-> "bake", l |-> l, row |-> Only("baked", rows[l]), bytes |-> Derived(rows[l]),
                 before |-> Now]
<1>1. Only("baked", rows[l]) \in RowRecords /\ Derived(rows[l]) \in Bytes
  BY RowsTyped DEF BakeMask, Masks
<1>2. k \in CallTypes
  BY <1>1, NowTyped DEF CallTypes
<1>3. call' = [call EXCEPT ![c] = k] /\ UNCHANGED <<callers, rows, sel, done, at>>
  BY DEF BakeMask
<1> HIDE DEF k
<1> QED
  BY <1>2, <1>3, Begins, SameRows

LEMMA BakeBytesSafe ==
  ASSUME Typed, NEW c \in Calls, BakeBytes(c)
  PROVE  Typed' /\ PaintedLeft
<1> DEFINE k == call[c]
           r == [k.row EXCEPT !.blob = k.bytes]
           to == [l \in {k.l} |-> r]
<1>1. k.l \in Rows /\ r \in RowRecords
  BY BytesCall DEF BakeBytes
<1>2. rows' = Write("blob", to) /\ call' = [call EXCEPT ![c].op = "baked"]
      /\ UNCHANGED <<callers, sel, done, at>>
  BY DEF BakeBytes
<1>3. [k EXCEPT !.op = "baked"] \in CallTypes
  <2>1. k \in [op : {"bytes", "bake", "baked"}, l : Rows, row : RowRecords, bytes : Bytes, before : Views]
    BY CallIs DEF Typed, BakeBytes
  <2> QED
    BY <2>1 DEF CallTypes
<1>4. call' \in [Calls -> CallTypes]
  BY <1>2, <1>3 DEF Typed
<1> HIDE DEF k, r
<1>5. to \in Tables
  BY <1>1, OneRow
<1> HIDE DEF to
<1>6. rows' \in Tables /\ PaintedLeft
  BY <1>2, <1>5, WriteFacts, WritePaints DEF Column
<1> QED
  BY <1>2, <1>4, <1>6 DEF Typed

LEMMA BakeEndsSafe ==
  ASSUME Typed, NEW c \in Calls, BakeEnds(c)
  PROVE  Typed' /\ PaintedLeft
<1> DEFINE k == call[c]
           p == Painted(k.bytes, 0)
           from == [l \in {k.l} |-> k.row]
           to == [l \in {k.l} |-> p]
<1>1. k.l \in Rows /\ k.row \in RowRecords /\ k.before \in Views /\ p \in RowRecords
  BY BytesCall DEF BakeEnds
<1>2. /\ rows' = Write("meta", to) /\ call' = [call EXCEPT ![c] = Idle] /\ sel' = sel /\ callers' = callers
      /\ Leave(ForRows("baked", from, to), k.before)
  BY DEF BakeEnds
<1>3. p.sub = "painted"
  BY DEF Painted
<1> HIDE DEF k, p
<1>4. from \in Tables /\ to \in Tables /\ \A l \in DOMAIN to : to[l] = p
  BY <1>1, OneRow
<1> HIDE DEF from, to
<1>5. /\ ForRows("baked", from, to) \in Commands /\ rows' \in Tables
      /\ \A l \in DOMAIN rows : rows'[l] = IF l \in DOMAIN to THEN Columns("meta", rows[l], to[l]) ELSE rows[l]
  BY <1>2, <1>4, ForRowsTyped, WriteFacts DEF Column
<1>6. ASSUME NEW l \in DOMAIN rows
      PROVE  Columns("meta", rows[l], p).sub = "painted"
  <2>1. Columns("meta", rows[l], p) =
          [rows[l] EXCEPT !.sub = p.sub, !.source = p.source, !.invert = p.invert]
    BY ColumnsAre
  <2>2. rows[l] \in RowRecords
    BY RowsTyped
  <2> QED
    BY <1>3, <2>1, <2>2 DEF RowRecords
<1>7. PaintedLeft
  BY <1>4, <1>5, <1>6 DEF PaintedLeft, PaintedIds, Masks
<1> QED
  BY <1>1, <1>2, <1>5, <1>7, Finishes DEF Typed

LEMMA SelectionToMaskSafe ==
  ASSUME Typed, NEW c \in Calls, IsFiniteSet(Rows), SelectionToMask(c)
  PROVE  Typed' /\ PaintedLeft
<1> DEFINE k == [op |-> "new", bytes |-> sel.bytes, at |-> Cardinality(DOMAIN rows), before |-> Now]
<1>1. sel.bytes \in Bytes /\ Cardinality(DOMAIN rows) \in Nat
  BY SelectionsAre, RowsTyped, FS_Subset, FS_CardinalityType DEF Typed
<1>2. k \in CallTypes
  BY <1>1, NowTyped DEF CallTypes
<1>3. call' = [call EXCEPT ![c] = k] /\ UNCHANGED <<callers, rows, sel, done, at>>
  BY DEF SelectionToMask
<1> HIDE DEF k
<1> QED
  BY <1>2, <1>3, Begins, SameRows

LEMMA WithFacts ==
  ASSUME Typed, NEW l \in Rows, NEW r \in RowRecords
  PROVE  /\ WithRow(l, r) \in Tables /\ DOMAIN WithRow(l, r) = DOMAIN rows \cup {l}
         /\ \A k \in DOMAIN rows : WithRow(l, r)[k] = rows[k]
         /\ l \notin DOMAIN rows => WithRow(l, r)[l] = r
<1> DEFINE w == WithRow(l, r)
<1>1. w = [k \in DOMAIN rows \cup {l} |-> IF k = l /\ l \notin DOMAIN rows THEN r ELSE rows[k]]
  BY DEF WithRow
<1>2. DOMAIN w \subseteq Rows /\ w \in [DOMAIN w -> RowRecords]
  BY <1>1, RowsTyped
<1> QED
  BY <1>1, <1>2, TableFacts

LEMMA WithoutFacts ==
  ASSUME Typed, NEW l
  PROVE  /\ WithoutRow(l) \in Tables /\ DOMAIN WithoutRow(l) = DOMAIN rows \ {l}
         /\ \A k \in DOMAIN rows \ {l} : WithoutRow(l)[k] = rows[k]
<1> DEFINE w == WithoutRow(l)
<1>1. w = [k \in DOMAIN rows \ {l} |-> rows[k]]
  BY DEF WithoutRow
<1>2. DOMAIN w \subseteq Rows /\ w \in [DOMAIN w -> RowRecords]
  BY <1>1, RowsTyped
<1> QED
  BY <1>1, <1>2, TableFacts

LEMMA InsertMaskSafe ==
  ASSUME Typed, NEW c \in Calls, NEW l \in Rows, InsertMask(c, l)
  PROVE  Typed' /\ PaintedLeft
<1> DEFINE k == call[c]
           p == Painted(k.bytes, k.at)
<1>1. p \in RowRecords /\ k.before \in Views
  <2>1. k \in [op : {"new"}, bytes : Bytes, at : Nat, before : Views]
    BY CallIs DEF Typed, InsertMask
  <2> QED
    BY <2>1, PaintedTyped DEF Blobs
<1>2. /\ rows' = WithRow(l, p) /\ call' = [call EXCEPT ![c] = Idle] /\ sel' = sel /\ callers' = callers
      /\ Leave(ForNewRow(l, p), k.before)
  BY DEF InsertMask
<1> HIDE DEF k, p
<1>3. rows' \in Tables /\ \A m \in DOMAIN rows : rows'[m] = rows[m]
  BY <1>1, <1>2, WithFacts
<1>4. PaintedLeft
  BY <1>3 DEF PaintedLeft, PaintedIds, Masks
<1> QED
  BY <1>1, <1>2, <1>3, <1>4, ForNewRowTyped, Finishes DEF Typed

LEMMA MaskToSelectionSafe ==
  ASSUME Typed, NEW c \in Calls, NEW l \in Rows, MaskToSelection(c, l)
  PROVE  Typed' /\ PaintedLeft
<1>1. /\ l \in DOMAIN rows
      /\ l \notin PaintedIds => rows[l].source \in DOMAIN rows
  <2>1. rows[l].sub \in {"painted", "from_layer"}
    BY RowsTyped DEF MaskToSelection, Masks, RowRecords
  <2> QED
    BY <2>1 DEF MaskToSelection, Masks, PaintedIds
<1>2. (IF l \in PaintedIds THEN LoadedBytes(rows[l]) ELSE Derived(rows[l])) \in Bytes
  BY <1>1, RowsTyped
<1>3. PICK t \in Bytes : call' = [call EXCEPT ![c] = [op |-> "selection", bytes |-> t, before |-> Now]]
  BY <1>2 DEF MaskToSelection, Bytes
<1> DEFINE k == [op |-> "selection", bytes |-> t, before |-> Now]
<1>4. k \in CallTypes
  BY NowTyped DEF CallTypes
<1>5. call' = [call EXCEPT ![c] = k] /\ UNCHANGED <<callers, rows, sel, done, at>>
  BY <1>3 DEF MaskToSelection
<1> HIDE DEF k
<1> QED
  BY <1>4, <1>5, Begins, SameRows

LEMMA SelectMaskSafe ==
  ASSUME Typed, NEW c \in Calls, SelectMask(c)
  PROVE  Typed' /\ PaintedLeft
<1> DEFINE k == call[c]
           s == Select("mask", k.bytes)
<1>1. s \in Selections /\ k.before \in Views
  <2>1. k \in [op : {"selection"}, bytes : Bytes, before : Views]
    BY CallIs DEF Typed, SelectMask
  <2> QED
    BY <2>1, SelectionsAre
<1>2. /\ rows' = rows /\ call' = [call EXCEPT ![c] = Idle] /\ sel' = s /\ callers' = callers
      /\ Leave(ForSelection(sel, s), k.before)
  BY DEF SelectMask
<1> HIDE DEF k, s
<1> QED
  BY <1>1, <1>2, ForSelectionTyped, Finishes, SameRows DEF Typed

LEMMA SetSelectionSafe ==
  ASSUME Typed, NEW c \in Calls, SetSelection(c)
  PROVE  Typed' /\ PaintedLeft
<1>1. PICK n \in Selections :
        call' = [call EXCEPT ![c] = [op |-> "set", prior |-> sel, next |-> n, before |-> Now]]
  BY DEF SetSelection
<1> DEFINE k == [op |-> "set", prior |-> sel, next |-> n, before |-> Now]
<1>2. k \in CallTypes
  BY NowTyped DEF CallTypes, Typed
<1>3. call' = [call EXCEPT ![c] = k] /\ UNCHANGED <<callers, rows, sel, done, at>>
  BY <1>1 DEF SetSelection
<1> HIDE DEF k
<1> QED
  BY <1>2, <1>3, Begins, SameRows

LEMMA ApplySelectionSafe ==
  ASSUME Typed, NEW c \in Calls, ApplySelection(c)
  PROVE  Typed' /\ PaintedLeft
<1> DEFINE k == call[c]
<1>1. k.prior \in Selections /\ k.next \in Selections /\ k.before \in Views
  <2>1. k \in [op : {"set"}, prior : Selections, next : Selections, before : Views]
    BY CallIs DEF Typed, ApplySelection
  <2> QED
    BY <2>1
<1>2. /\ rows' = rows /\ call' = [call EXCEPT ![c] = Idle] /\ sel' = k.next /\ callers' = callers
      /\ Leave(ForSelection(k.prior, k.next), k.before)
  BY DEF ApplySelection
<1> HIDE DEF k
<1> QED
  BY <1>1, <1>2, ForSelectionTyped, Finishes, SameRows DEF Typed

LEMMA SelectNowSafe ==
  ASSUME Typed, NEW s \in Selections, SelectNow(s)
  PROVE  Typed' /\ PaintedLeft
<1>1. /\ rows' = rows /\ call' = call /\ sel' = s /\ callers' = callers
      /\ Leave(ForSelection(sel, s), Now)
  BY DEF SelectNow
<1>2. ForSelection(sel, s) \in Commands /\ Now \in Views
  BY ForSelectionTyped, NowTyped DEF Typed
<1>3. done' \in Seq(Entries) /\ at' \in 0..Len(done')
  BY <1>1, <1>2, LeaveFacts DEF Typed
<1> QED
  BY <1>1, <1>3, SameRows DEF Typed

LEMMA SelectsNow ==
  ASSUME SelectAll \/ InvertSelection \/ RefineSelection
  PROVE  \E s \in Selections : SelectNow(s)
<1>1. Select("shape", "solid") \in Selections /\ NoSelection \in Selections
  BY SelectionsAre DEF Bytes
<1> QED
  BY <1>1 DEF SelectAll, InvertSelection, RefineSelection

LEMMA TransformLayerSafe ==
  ASSUME Typed, NEW c \in Calls, NEW ls \in SUBSET Rows, TransformLayer(c, ls)
  PROVE  Typed' /\ PaintedLeft
<1>1. PICK t \in BOOLEAN :
        call' = [call EXCEPT ![c] = [op |-> "transform", before |-> Now,
                                     from |-> [l \in ls |-> Only("transform", rows[l])],
                                     to |-> [l \in ls |-> [Painted("none", 0) EXCEPT !.moved = t]]]]
  BY DEF TransformLayer
<1> DEFINE from == [l \in ls |-> Only("transform", rows[l])]
           r == [Painted("none", 0) EXCEPT !.moved = t]
           to == [l \in ls |-> r]
           k == [op |-> "transform", before |-> Now, from |-> from, to |-> to]
<1>2. r \in RowRecords
  BY PaintedTyped DEF RowRecords, Blobs
<1>3. ls \subseteq DOMAIN rows /\ \A l \in ls : Only("transform", rows[l]) \in RowRecords
  BY OnlyTyped, RowsTyped DEF TransformLayer, Column
<1>4. call' = [call EXCEPT ![c] = k] /\ UNCHANGED <<callers, rows, sel, done, at>>
  BY <1>1 DEF TransformLayer
<1> HIDE DEF r
<1>5. from \in Tables /\ to \in Tables
  <2>1. DOMAIN from \subseteq Rows /\ from \in [DOMAIN from -> RowRecords]
    BY <1>3
  <2>2. DOMAIN to \subseteq Rows /\ to \in [DOMAIN to -> RowRecords]
    BY <1>2
  <2> QED
    BY <2>1, <2>2, TableFacts
<1> HIDE DEF from, to
<1>6. k \in CallTypes
  BY <1>5, NowTyped DEF CallTypes
<1> HIDE DEF k
<1> QED
  BY <1>4, <1>6, Begins, SameRows

LEMMA TransformEndsSafe ==
  ASSUME Typed, NEW c \in Calls, TransformEnds(c)
  PROVE  Typed' /\ PaintedLeft
<1> DEFINE k == call[c]
<1>1. k.from \in Tables /\ k.to \in Tables /\ k.before \in Views
  <2>1. k \in [op : {"transform"}, before : Views, from : Tables, to : Tables]
    BY CallIs DEF Typed, TransformEnds
  <2> QED
    BY <2>1
<1>2. /\ rows' = Write("transform", k.to) /\ call' = [call EXCEPT ![c] = Idle] /\ sel' = sel
      /\ callers' = callers /\ Leave(ForRows("transform", k.from, k.to), k.before)
  BY DEF TransformEnds
<1> HIDE DEF k
<1>3. ForRows("transform", k.from, k.to) \in Commands /\ rows' \in Tables /\ PaintedLeft
  BY <1>1, <1>2, ForRowsTyped, WriteFacts, WritePaints DEF Column
<1> QED
  BY <1>1, <1>2, <1>3, Finishes DEF Typed

(* Undo and redo write what a command holds.                               *)
LEMMA EntryFacts ==
  ASSUME Typed, NEW i \in 1..Len(done)
  PROVE  LET k == done[i].command IN
         /\ k.what \in Column \cup {"row", "selection"} /\ k.from \in Tables /\ k.to \in Tables
         /\ k.sel[1] \in Selections /\ k.sel[2] \in Selections
         /\ k.what = "row" => DOMAIN k.to # {}
         /\ k.what = "selection" => DOMAIN k.from = {} /\ DOMAIN k.to = {}
<1>1. done[i] \in Entries
  BY DEF Typed
<1>2. done[i].command \in Commands
  BY <1>1 DEF Entries
<1> QED
  BY <1>2 DEF Commands

LEMMA UndoSafe ==
  ASSUME Typed, Undo
  PROVE  Typed'
<1> DEFINE k == done[at].command
<1>1. at \in 1..Len(done) /\ at - 1 \in 0..Len(done)
  BY DEF Typed, Undo
<1>2. /\ k.what \in Column \cup {"row", "selection"} /\ k.from \in Tables /\ k.sel[1] \in Selections
      /\ k.what = "selection" => DOMAIN k.from = {}
  BY <1>1, EntryFacts
<1>3. UndoOf(k) /\ at' = at - 1 /\ UNCHANGED <<callers, call, done>>
  BY DEF Undo
<1> HIDE DEF k
<1>4. rows' \in Tables
  BY <1>2, <1>3, WriteFacts, WithoutFacts DEF UndoOf
<1>5. sel' \in Selections
  BY <1>2, <1>3 DEF UndoOf, Typed
<1> QED
  BY <1>1, <1>3, <1>4, <1>5 DEF Typed

LEMMA RedoSafe ==
  ASSUME Typed, Redo
  PROVE  Typed'
<1> DEFINE k == done[at + 1].command
           l == CHOOSE x \in DOMAIN k.to : TRUE
<1>1. at + 1 \in 1..Len(done)
  BY DEF Typed, Redo
<1>2. /\ k.what \in Column \cup {"row", "selection"} /\ k.to \in Tables /\ k.sel[2] \in Selections
      /\ k.what = "selection" => DOMAIN k.to = {}
      /\ k.what = "row" => DOMAIN k.to # {}
  BY <1>1, EntryFacts
<1>3. k.what = "row" => l \in Rows /\ k.to[l] \in RowRecords
  BY <1>2, TableFacts
<1>4. RedoOf(k) /\ at' = at + 1 /\ UNCHANGED <<callers, call, done>>
  BY DEF Redo
<1>5. k.what = "row" => rows' = WithRow(l, k.to[l])
  BY <1>4 DEF RedoOf
<1> HIDE DEF k, l
<1>6. rows' \in Tables
  <2>1. CASE k.what = "row"
    BY <1>3, <1>5, <2>1, WithFacts
  <2>2. CASE k.what # "row"
    BY <1>2, <1>4, <2>2, WriteFacts DEF RedoOf
  <2> QED
    BY <2>1, <2>2
<1>7. sel' \in Selections
  BY <1>2, <1>4 DEF RedoOf, Typed
<1> QED
  BY <1>1, <1>4, <1>6, <1>7 DEF Typed

(* Every step but undo and redo leaves painted masks painted.              *)
LEMMA StepSafe ==
  ASSUME Typed, RowsNext, Parameters
  PROVE  Typed' /\ (PaintedLeft \/ Undo \/ Redo)
<1>1. CASE MaskTool
  BY <1>1, RewriteEndsSafe, FailsSafe, BakeBytesSafe, BakeEndsSafe, SelectionToMaskSafe, RewritesSafe,
     InvertFlagSafe, BakeMaskSafe, InsertMaskSafe DEF MaskTool, Parameters
<1>2. CASE SelectionTool
  BY <1>2, SelectsNow, SelectNowSafe, SelectMaskSafe, SetSelectionSafe, ApplySelectionSafe,
     MaskToSelectionSafe DEF SelectionTool
<1>3. CASE TransformTool
  BY <1>3, TransformEndsSafe, TransformLayerSafe DEF TransformTool
<1> QED
  BY <1>1, <1>2, <1>3, UndoSafe, RedoSafe DEF RowsNext

LEMMA StepTyped ==
  ASSUME Typed, [RowsNext]_tables, Parameters
  PROVE  Typed'
<1>1. CASE UNCHANGED tables
  BY <1>1 DEF Typed, tables
<1> QED
  BY <1>1, StepSafe

LEMMA InitTyped ==
  ASSUME Parameters, RowsInit
  PROVE  Typed
<1>1. PICK b \in Blobs, i \in BOOLEAN :
        rows = [l \in {Source, Mask} |->
                  IF l = Source THEN [Painted(b, 0) EXCEPT !.kind = "paint"]
                  ELSE [Painted("none", 1) EXCEPT !.sub = "from_layer", !.source = Source, !.invert = i]]
  BY DEF RowsInit
<1>2. /\ [Painted(b, 0) EXCEPT !.kind = "paint"] \in RowRecords
      /\ [Painted("none", 1) EXCEPT !.sub = "from_layer", !.source = Source, !.invert = i] \in RowRecords
  <2>1. Painted(b, 0) \in RowRecords /\ Painted("none", 1) \in RowRecords /\ Source \in Rows
    BY PaintedTyped DEF Blobs, Parameters
  <2>2. [Painted(b, 0) EXCEPT !.kind = "paint"] \in RowRecords
    BY <2>1 DEF RowRecords
  <2>3. [Painted("none", 1) EXCEPT !.sub = "from_layer", !.source = Source, !.invert = i] \in RowRecords
    BY <2>1 DEF RowRecords
  <2> QED
    BY <2>2, <2>3
<1>3. DOMAIN rows \subseteq Rows /\ rows \in [DOMAIN rows -> RowRecords]
  BY <1>1, <1>2 DEF Parameters
<1>4. rows \in Tables
  BY <1>3, TableFacts
<1>5. done \in Seq(Entries) /\ at \in 0..Len(done)
  BY EmptySeq DEF RowsInit
<1> QED
  BY <1>4, <1>5, IdleTyped, SelectionsAre DEF RowsInit, Typed, Parameters

(* The tables keep their shape, whatever calls overlap and whatever is     *)
(* undone and redone between them.                                         *)
THEOREM TypeCorrect == ASSUME Parameters PROVE RowsSpec => []RowsTypeOK
<1>1. RowsInit => Typed
  BY InitTyped
<1>2. Typed /\ [RowsNext]_tables => Typed'
  BY StepTyped
<1>3. Typed => RowsTypeOK
  BY TypedTypes
<1> QED
  BY <1>1, <1>2, <1>3, PTL DEF RowsSpec

(* A call that read a mask as derived, and ends when it has been baked,    *)
(* does not make it derived again.                                         *)
THEOREM PaintedKept == ASSUME Parameters PROVE RowsSpec => PaintedStays
<1> DEFINE Stays == \/ Len(done') = Len(done) /\ at' # at
                    \/ PaintedLeft
<1>1. RowsInit => Typed
  BY InitTyped
<1>2. Typed /\ [RowsNext]_tables => Typed'
  BY StepTyped
<1>3. Typed /\ [RowsNext]_tables => [Stays]_tables
  <2> SUFFICES ASSUME Typed, RowsNext PROVE Stays
    OBVIOUS
  <2>1. ASSUME Undo \/ Redo
        PROVE  Len(done') = Len(done) /\ at' # at
    BY <2>1 DEF Undo, Redo, Typed
  <2> QED
    BY <2>1, StepSafe
<1>4. RowsSpec => [][Stays]_tables
  BY <1>1, <1>2, <1>3, PTL DEF RowsSpec
<1> QED
  BY <1>4 DEF PaintedStays, PaintedLeft

-----------------------------------------------------------------------------
(* What a command does to given tables.                                    *)

Row(k) == CHOOSE l \in DOMAIN k.to : TRUE
Put(what, values, r) ==
  [l \in DOMAIN r |-> IF l \in DOMAIN values THEN Columns(what, r[l], values[l]) ELSE r[l]]
Drop(l, r) == [k \in DOMAIN r \ {l} |-> r[k]]
Add(l, new, r) == [k \in DOMAIN r \cup {l} |-> IF k = l /\ l \notin DOMAIN r THEN new ELSE r[k]]

Undone(k, r, s) ==
  <<IF k.what = "row" THEN Drop(Row(k), r) ELSE Put(k.what, k.from, r),
    IF k.what = "selection" THEN k.sel[1] ELSE s>>
Redone(k, r, s) ==
  <<IF k.what = "row" THEN Add(Row(k), k.to[Row(k)], r) ELSE Put(k.what, k.to, r),
    IF k.what = "selection" THEN k.sel[2] ELSE s>>

(* The command leads from r and s to r2 and s2, and back.                  *)
Leads(k, r, s, r2, s2) == Redone(k, r, s) = <<r2, s2>> /\ Undone(k, r2, s2) = <<r, s>>

LEMMA UndoesOf == ASSUME NEW k, UndoOf(k) PROVE <<rows', sel'>> = Undone(k, rows, sel)
BY DEF UndoOf, Undone, Row, Write, Put, WithoutRow, Drop

LEMMA RedoesOf == ASSUME NEW k, RedoOf(k) PROVE <<rows', sel'>> = Redone(k, rows, sel)
BY DEF RedoOf, Redone, Row, Write, Put, WithRow, Add

LEMMA SameTables ==
  ASSUME NEW r \in Tables, NEW q, DOMAIN q = DOMAIN r, q = [l \in DOMAIN r |-> q[l]],
         \A l \in DOMAIN r : q[l] = r[l]
  PROVE  q = r
<1>1. r \in [DOMAIN r -> RowRecords]
  BY TableFacts
<1> QED
  BY <1>1

LEMMA RowsLead ==
  ASSUME NEW what \in Column, NEW from \in Tables, NEW to \in Tables, DOMAIN from = DOMAIN to,
         NEW r \in Tables, NEW r2 \in Tables, DOMAIN r2 = DOMAIN r, DOMAIN to \subseteq DOMAIN r,
         \A l \in DOMAIN r : l \notin DOMAIN to => r2[l] = r[l],
         \A l \in DOMAIN to : /\ Columns(what, r[l], Only(what, to[l])) = r2[l]
                              /\ Columns(what, r2[l], Only(what, from[l])) = r[l],
         NEW s
  PROVE  Leads(ForRows(what, from, to), r, s, r2, s)
<1> DEFINE k == ForRows(what, from, to)
<1>1. /\ k.what = what /\ k.what # "row" /\ k.what # "selection"
      /\ DOMAIN k.from = DOMAIN to /\ DOMAIN k.to = DOMAIN to
      /\ \A l \in DOMAIN to : k.from[l] = Only(what, from[l]) /\ k.to[l] = Only(what, to[l])
  BY DEF ForRows, Column
<1> HIDE DEF k
<1>2. Put(what, k.to, r) = r2
  <2> DEFINE q == Put(what, k.to, r)
  <2>1. DOMAIN q = DOMAIN r2 /\ q = [l \in DOMAIN r2 |-> q[l]]
    BY DEF Put
  <2>2. \A l \in DOMAIN r2 : q[l] = r2[l]
    BY <1>1 DEF Put
  <2> HIDE DEF q
  <2>3. q = r2
    BY <2>1, <2>2, SameTables
  <2> QED
    BY <2>3 DEF q
<1>3. Put(what, k.from, r2) = r
  <2> DEFINE q == Put(what, k.from, r2)
  <2>1. DOMAIN q = DOMAIN r /\ q = [l \in DOMAIN r |-> q[l]]
    BY DEF Put
  <2>2. \A l \in DOMAIN r : q[l] = r[l]
    BY <1>1 DEF Put
  <2> HIDE DEF q
  <2>3. q = r
    BY <2>1, <2>2, SameTables
  <2> QED
    BY <2>3 DEF q
<1>4. Redone(k, r, s) = <<r2, s>> /\ Undone(k, r2, s) = <<r, s>>
  BY <1>1, <1>2, <1>3 DEF Redone, Undone
<1> QED
  BY <1>4 DEF Leads, k

LEMMA NewRowLeads ==
  ASSUME NEW r \in Tables, NEW l \in Rows, l \notin DOMAIN r, NEW new \in RowRecords, NEW s
  PROVE  Leads(ForNewRow(l, new), r, s, Add(l, new, r), s)
<1> DEFINE k == ForNewRow(l, new)
           a == Add(l, new, r)
<1>1. k.what = "row" /\ DOMAIN k.to = {l} /\ k.to[l] = new
  BY DEF ForNewRow
<1> HIDE DEF k
<1>2. Row(k) = l
  BY <1>1 DEF Row
<1>3. Drop(l, a) = r
  <2> DEFINE q == Drop(l, a)
  <2>1. DOMAIN q = DOMAIN r /\ q = [m \in DOMAIN r |-> q[m]]
    BY DEF Drop, Add
  <2>2. \A m \in DOMAIN r : q[m] = r[m]
    BY DEF Drop, Add
  <2> HIDE DEF q
  <2>3. q = r
    BY <2>1, <2>2, SameTables
  <2> QED
    BY <2>3 DEF q
<1>4. Redone(k, r, s) = <<a, s>> /\ Undone(k, a, s) = <<r, s>>
  BY <1>1, <1>2, <1>3 DEF Redone, Undone
<1> QED
  BY <1>4 DEF Leads, k

LEMMA SelectionLeads ==
  ASSUME NEW r \in Tables, NEW prior, NEW next
  PROVE  Leads(ForSelection(prior, next), r, prior, r, next)
<1> DEFINE k == ForSelection(prior, next)
<1>1. /\ k.what = "selection" /\ DOMAIN k.from = {} /\ DOMAIN k.to = {}
      /\ k.sel[1] = prior /\ k.sel[2] = next
  BY DEF ForSelection
<1> HIDE DEF k
<1>2. \A v : DOMAIN v = {} => Put("selection", v, r) = r
  <2> SUFFICES ASSUME NEW v, DOMAIN v = {} PROVE Put("selection", v, r) = r
    OBVIOUS
  <2> DEFINE q == Put("selection", v, r)
  <2>1. q = [l \in DOMAIN r |-> IF l \in DOMAIN v THEN Columns("selection", r[l], v[l]) ELSE r[l]]
    BY DEF Put
  <2>2. DOMAIN q = DOMAIN r /\ q = [l \in DOMAIN r |-> q[l]] /\ \A l \in DOMAIN r : q[l] = r[l]
    BY <2>1
  <2> HIDE DEF q
  <2>3. q = r
    BY <2>2, SameTables
  <2> QED
    BY <2>3 DEF q
<1>3. Redone(k, r, prior) = <<r, next>> /\ Undone(k, r, next) = <<r, prior>>
  BY <1>1, <1>2 DEF Redone, Undone
<1> QED
  BY <1>3 DEF Leads, k

(* One row there and back, for each way of writing it.                     *)
LEMMA OnlyFields ==
  ASSUME NEW r \in RowRecords
  PROVE  /\ Only("blob", r).blob = r.blob
         /\ Only("meta", r).sub = r.sub /\ Only("meta", r).source = r.source
         /\ Only("meta", r).invert = r.invert
         /\ Only("baked", r).blob = r.blob /\ Only("baked", r).sub = r.sub
         /\ Only("baked", r).source = r.source /\ Only("baked", r).invert = r.invert
         /\ Only("transform", r).moved = r.moved
<1> DEFINE p == Painted("none", 0)
<1>1. p \in RowRecords
  BY PaintedTyped DEF Blobs
<1> HIDE DEF p
<1>2. /\ Only("blob", r) = [p EXCEPT !.blob = r.blob]
      /\ Only("meta", r) = [p EXCEPT !.sub = r.sub, !.source = r.source, !.invert = r.invert]
      /\ Only("baked", r) = [p EXCEPT !.blob = r.blob, !.sub = r.sub, !.source = r.source,
                                      !.invert = r.invert]
      /\ Only("transform", r) = [p EXCEPT !.moved = r.moved]
  BY ColumnsAre DEF Only, p
<1> QED
  BY <1>1, <1>2 DEF RowRecords

(* A command keeps the columns it writes, and so writes the same.          *)
LEMMA OnlyWrites ==
  ASSUME NEW what \in Column, NEW r, NEW v \in RowRecords
  PROVE  Columns(what, r, Only(what, v)) = Columns(what, r, v)
<1>1. CASE what = "blob"
  <2> DEFINE o == Only("blob", v)
  <2>1. o.blob = v.blob
    BY OnlyFields
  <2> HIDE DEF o
  <2>2. Columns("blob", r, o) = [r EXCEPT !.blob = o.blob] /\ Columns("blob", r, v) = [r EXCEPT !.blob = v.blob]
    BY ColumnsAre
  <2>3. Columns("blob", r, o) = Columns("blob", r, v)
    BY <2>1, <2>2
  <2> QED
    BY <1>1, <2>3 DEF o
<1>2. CASE what = "meta"
  <2> DEFINE o == Only("meta", v)
  <2>1. o.sub = v.sub /\ o.source = v.source /\ o.invert = v.invert
    BY OnlyFields
  <2> HIDE DEF o
  <2>2. /\ Columns("meta", r, o) = [r EXCEPT !.sub = o.sub, !.source = o.source, !.invert = o.invert]
        /\ Columns("meta", r, v) = [r EXCEPT !.sub = v.sub, !.source = v.source, !.invert = v.invert]
    BY ColumnsAre
  <2>3. Columns("meta", r, o) = Columns("meta", r, v)
    BY <2>1, <2>2
  <2> QED
    BY <1>2, <2>3 DEF o
<1>3. CASE what = "baked"
  <2> DEFINE o == Only("baked", v)
  <2>1. o.blob = v.blob /\ o.sub = v.sub /\ o.source = v.source /\ o.invert = v.invert
    BY OnlyFields
  <2> HIDE DEF o
  <2>2. /\ Columns("baked", r, o) =
             [r EXCEPT !.blob = o.blob, !.sub = o.sub, !.source = o.source, !.invert = o.invert]
        /\ Columns("baked", r, v) =
             [r EXCEPT !.blob = v.blob, !.sub = v.sub, !.source = v.source, !.invert = v.invert]
    BY ColumnsAre
  <2>3. Columns("baked", r, o) = Columns("baked", r, v)
    BY <2>1, <2>2
  <2> QED
    BY <1>3, <2>3 DEF o
<1>4. CASE what = "transform"
  <2> DEFINE o == Only("transform", v)
  <2>1. o.moved = v.moved
    BY OnlyFields
  <2> HIDE DEF o
  <2>2. Columns("transform", r, o) = [r EXCEPT !.moved = o.moved] /\ Columns("transform", r, v) = [r EXCEPT !.moved = v.moved]
    BY ColumnsAre
  <2>3. Columns("transform", r, o) = Columns("transform", r, v)
    BY <2>1, <2>2
  <2> QED
    BY <1>4, <2>3 DEF o
<1> QED
  BY <1>1, <1>2, <1>3, <1>4 DEF Column

LEMMA OnlyTwice ==
  ASSUME NEW what \in Column, NEW r, NEW v \in RowRecords
  PROVE  Columns(what, r, Only(what, Only(what, v))) = Columns(what, r, v)
<1> DEFINE o == Only(what, v)
<1>1. o \in RowRecords /\ Columns(what, r, o) = Columns(what, r, v)
  BY OnlyTyped, OnlyWrites
<1> HIDE DEF o
<1>2. Columns(what, r, Only(what, o)) = Columns(what, r, v)
  BY <1>1, OnlyWrites
<1> QED
  BY <1>2 DEF o

LEMMA BlobBack ==
  ASSUME NEW r \in RowRecords, NEW v, NEW w, w.blob = r.blob
  PROVE  Columns("blob", Columns("blob", r, v), w) = r
<1> DEFINE r2 == Columns("blob", r, v)
<1>1. r2 = [r EXCEPT !.blob = v.blob]
  BY ColumnsAre
<1> HIDE DEF r2
<1>2. Columns("blob", r2, w) = [r2 EXCEPT !.blob = w.blob]
  BY ColumnsAre
<1>3. [r2 EXCEPT !.blob = w.blob] = r
  BY <1>1 DEF RowRecords
<1> QED
  BY <1>2, <1>3 DEF r2

LEMMA MetaBack ==
  ASSUME NEW r \in RowRecords, NEW v
  PROVE  Columns("meta", Columns("meta", r, v), r) = r
<1> DEFINE r2 == Columns("meta", r, v)
<1>1. r2 = [r EXCEPT !.sub = v.sub, !.source = v.source, !.invert = v.invert]
  BY ColumnsAre
<1> HIDE DEF r2
<1>2. Columns("meta", r2, r) = [r2 EXCEPT !.sub = r.sub, !.source = r.source, !.invert = r.invert]
  BY ColumnsAre
<1>3. [r2 EXCEPT !.sub = r.sub, !.source = r.source, !.invert = r.invert] = r
  BY <1>1 DEF RowRecords
<1> QED
  BY <1>2, <1>3 DEF r2

LEMMA TransformBack ==
  ASSUME NEW r \in RowRecords, NEW v
  PROVE  Columns("transform", Columns("transform", r, v), r) = r
<1> DEFINE r2 == Columns("transform", r, v)
<1>1. r2 = [r EXCEPT !.moved = v.moved]
  BY ColumnsAre
<1> HIDE DEF r2
<1>2. Columns("transform", r2, r) = [r2 EXCEPT !.moved = r.moved]
  BY ColumnsAre
<1>3. [r2 EXCEPT !.moved = r.moved] = r
  BY <1>1 DEF RowRecords
<1> QED
  BY <1>2, <1>3 DEF r2

(* The two writes of bake_mask are those of one command.                   *)
LEMMA BakedIsBoth ==
  ASSUME NEW r \in RowRecords, NEW v, NEW p, v.blob = p.blob
  PROVE  LET r2 == Columns("meta", Columns("blob", r, v), p) IN
         /\ Columns("baked", r, p) = r2
         /\ Columns("baked", r2, r) = r
<1> DEFINE r1 == Columns("blob", r, v)
           r2 == Columns("meta", r1, p)
<1>1. r1 = [r EXCEPT !.blob = v.blob]
  BY ColumnsAre
<1> HIDE DEF r1
<1>2. r2 = [r1 EXCEPT !.sub = p.sub, !.source = p.source, !.invert = p.invert]
  BY ColumnsAre
<1> HIDE DEF r2
<1>3. Columns("baked", r, p) = [r EXCEPT !.blob = p.blob, !.sub = p.sub, !.source = p.source,
                                         !.invert = p.invert]
  BY ColumnsAre
<1>4. Columns("baked", r2, r) = [r2 EXCEPT !.blob = r.blob, !.sub = r.sub, !.source = r.source,
                                           !.invert = r.invert]
  BY ColumnsAre
<1>5. [r EXCEPT !.blob = p.blob, !.sub = p.sub, !.source = p.source, !.invert = p.invert] = r2
  BY <1>1, <1>2 DEF RowRecords
<1>6. [r2 EXCEPT !.blob = r.blob, !.sub = r.sub, !.source = r.source, !.invert = r.invert] = r
  BY <1>1, <1>2 DEF RowRecords
<1> QED
  BY <1>3, <1>4, <1>5, <1>6 DEF r2, r1

-----------------------------------------------------------------------------
(* A caller that awaits each answer: one call at a time, each command      *)
(* leads from the tables before it to those after it and back, and the     *)
(* next starts where it ends.                                              *)

States == Tables \X Selections
Link(e) == /\ e.before \in States /\ e.after \in States
           /\ Leads(e.command, e.before[1], e.before[2], e.after[1], e.after[2])
Chained(d) == \A i \in 1..Len(d) : Link(d[i]) /\ (i < Len(d) => d[i + 1].before = d[i].after)
Current(d, a, t) == (a > 0 => t = d[a].after) /\ (a < Len(d) => t = d[a + 1].before)

(* What a call has read is still so.  Between its two writes a bake has    *)
(* written the blob and nothing else.                                      *)
Reads(k, r, s) ==
  /\ k.before \in States
  /\ k.op # "baked" => k.before = <<r, s>>
  /\ k.op \in {"bytes", "bake"} => k.l \in DOMAIN r /\ k.row = Only("baked", r[k.l])
  /\ k.op = "set" => k.prior = s
  /\ k.op = "transform" =>
       /\ DOMAIN k.from = DOMAIN k.to /\ DOMAIN k.from \subseteq DOMAIN r
       /\ \A l \in DOMAIN k.from : k.from[l] = Only("transform", r[l])
  /\ k.op = "baked" =>
       /\ k.before[2] = s
       /\ k.l \in DOMAIN k.before[1] /\ k.row = Only("baked", k.before[1][k.l])
       /\ r = Put("blob", [l \in {k.l} |-> [k.row EXCEPT !.blob = k.bytes]], k.before[1])

Serial ==
  callers = "serial" =>
    /\ \A c, d \in Calls : call[c] # Idle /\ call[d] # Idle => c = d
    /\ Chained(done)
    /\ Quiet => Current(done, at, <<rows, sel>>)
    /\ \A c \in Calls : call[c] # Idle => Current(done, at, call[c].before) /\ Reads(call[c], rows, sel)

LEMMA SerialBegins ==
  ASSUME Typed, Serial, Quiet, NEW c \in Calls, NEW k, k.before = Now, Reads(k, rows, sel),
         call' = [call EXCEPT ![c] = k], UNCHANGED <<callers, rows, sel, done, at>>
  PROVE  Serial'
<1> SUFFICES ASSUME callers = "serial" PROVE Serial'
  BY DEF Serial
<1>1. Chained(done) /\ Current(done, at, <<rows, sel>>) /\ k.before = <<rows, sel>>
  BY DEF Serial, Now
<1>2. /\ \A d \in Calls : call'[d] = IF d = c THEN k ELSE Idle
      /\ call' \in [Calls -> {k, Idle}]
  BY DEF Typed, Quiet
<1>3. \A d, e \in Calls : call'[d] # Idle /\ call'[e] # Idle => d = e
  BY <1>2
<1>4. \A d \in Calls : call'[d] # Idle => Current(done, at, call'[d].before) /\ Reads(call'[d], rows, sel)
  BY <1>1, <1>2
<1> QED
  BY <1>1, <1>3, <1>4 DEF Serial, Quiet

LEMMA Leaves ==
  ASSUME Typed, callers = "serial", Chained(done), NEW command \in Commands, NEW before \in States,
         Current(done, at, before), Leave(command, before), rows' \in Tables, sel' \in Selections,
         Leads(command, before[1], before[2], rows', sel')
  PROVE  Chained(done') /\ Current(done', at', <<rows', sel'>>)
<1> DEFINE e == [command |-> command, before |-> before, after |-> <<rows', sel'>>]
<1>1. /\ Len(done') = at' /\ at' = at + 1 /\ at \in 0..Len(done) /\ done \in Seq(Entries)
      /\ \A i \in 1..at : done'[i] = done[i]
      /\ done'[at'] = e
  BY LeaveFacts DEF Typed, States, Views
<1>2. Link(e)
  BY DEF Link, States
<1>3. e.before = before /\ e.after = <<rows', sel'>>
  OBVIOUS
<1> HIDE DEF e
<1>4. ASSUME NEW i \in 1..Len(done')
      PROVE  Link(done'[i]) /\ (i < Len(done') => done'[i + 1].before = done'[i].after)
  <2>1. CASE i = at'
    BY <1>1, <1>2, <2>1
  <2>2. CASE i < at
    <3>1. i \in 1..Len(done) /\ i < Len(done) /\ i \in 1..at /\ i + 1 \in 1..at
      BY <1>1, <2>2
    <3>2. done'[i] = done[i] /\ done'[i + 1] = done[i + 1]
      BY <1>1, <3>1
    <3> QED
      BY <3>1, <3>2 DEF Chained
  <2>3. CASE i = at
    <3>1. i \in 1..Len(done) /\ i \in 1..at /\ i > 0 /\ i + 1 = at'
      BY <1>1, <2>3
    <3>2. done'[i] = done[i] /\ done'[i + 1] = e /\ before = done[i].after
      BY <1>1, <2>3, <3>1 DEF Current
    <3> QED
      BY <1>3, <3>1, <3>2 DEF Chained
  <2> QED
    BY <1>1, <2>1, <2>2, <2>3
<1> QED
  BY <1>1, <1>3, <1>4 DEF Chained, Current

(* The call under way is the only one, and leaves its command; a call that *)
(* reads and writes in one go finds none under way.                        *)
LEMMA SerialEnds ==
  ASSUME Typed, Serial, callers = "serial", NEW c \in Calls,
         \/ Quiet /\ call' = call
         \/ call[c] # Idle /\ call' = [call EXCEPT ![c] = Idle],
         callers' = callers, NEW command \in Commands, NEW before \in States,
         Current(done, at, before), Leave(command, before), rows' \in Tables, sel' \in Selections,
         Leads(command, before[1], before[2], rows', sel')
  PROVE  Serial'
<1>1. Chained(done') /\ Current(done', at', <<rows', sel'>>)
  BY Leaves DEF Serial
<1>2. \A d \in Calls : call'[d] = Idle
  BY DEF Serial, Typed, Quiet
<1> QED
  BY <1>1, <1>2 DEF Serial

LEMMA SelectsNowSerial ==
  ASSUME Typed, Serial, callers = "serial", NEW s \in Selections, SelectNow(s)
  PROVE  Serial'
<1>1. /\ rows' = rows /\ call' = call /\ sel' = s /\ callers' = callers
      /\ Leave(ForSelection(sel, s), <<rows, sel>>) /\ Quiet
  BY DEF SelectNow, MayStart, Now
<1>2. ForSelection(sel, s) \in Commands /\ rows \in Tables /\ sel \in Selections
  BY ForSelectionTyped DEF Typed
<1>3. Leads(ForSelection(sel, s), rows, sel, rows, s)
  BY <1>2, SelectionLeads
<1>4. Chained(done) /\ Current(done, at, <<rows, sel>>)
  BY <1>1 DEF Serial
<1>5. Chained(done') /\ Current(done', at', <<rows', sel'>>)
  <2> DEFINE k == ForSelection(sel, s)
  <2> HIDE DEF k
  <2>1. <<rows, sel>> \in States /\ Leads(k, <<rows, sel>>[1], <<rows, sel>>[2], rows', sel')
    BY <1>1, <1>2, <1>3 DEF States, k
  <2>2. Leave(k, <<rows, sel>>) /\ k \in Commands /\ rows' \in Tables /\ sel' \in Selections
    BY <1>1, <1>2 DEF k
  <2> QED
    BY <1>4, <2>1, <2>2, Leaves
<1> QED
  BY <1>1, <1>5 DEF Serial, Quiet

(* Steps that only begin a call, or give it up.                            *)
LEMMA BeginsSerial ==
  ASSUME Typed, Serial, callers = "serial", NEW c \in Calls,
         \/ \E l \in Rows : \/ ClearMask(c, l) \/ FillMask(c, l) \/ InvertBytes(c, l)
                            \/ RefineMask(c, l) \/ SelectionOverMask(c, l)
                            \/ BakeMask(c, l) \/ MaskToSelection(c, l)
         \/ SelectionToMask(c) \/ SetSelection(c)
         \/ \E ls \in SUBSET Rows : TransformLayer(c, ls)
  PROVE  Serial'
<1>0. Now = <<rows, sel>> /\ <<rows, sel>> \in States
  BY DEF Now, States, Typed
<1>1. ASSUME NEW l \in Rows, NEW b, Rewrite(c, l, b)
      PROVE  Serial'
  <2> DEFINE k == [op |-> "bytes", l |-> l, row |-> Only("baked", rows[l]), bytes |-> b, before |-> Now]
  <2>1. call' = [call EXCEPT ![c] = k] /\ UNCHANGED <<callers, rows, sel, done, at>> /\ Quiet
    BY <1>1 DEF Rewrite, MayStart
  <2>2. l \in DOMAIN rows
    BY <1>1 DEF Rewrite, PaintedIds, Masks
  <2>3. Reads(k, rows, sel) /\ k.before = Now
    BY <1>0, <2>2 DEF Reads
  <2> HIDE DEF k
  <2> QED
    BY <2>1, <2>3, SerialBegins
<1>2. ASSUME NEW l \in Rows, BakeMask(c, l)
      PROVE  Serial'
  <2> DEFINE k == [op |-> "bake", l |-> l, row |-> Only("baked", rows[l]),
                   bytes |-> Derived(rows[l]), before |-> Now]
  <2>1. call' = [call EXCEPT ![c] = k] /\ UNCHANGED <<callers, rows, sel, done, at>> /\ Quiet
    BY <1>2 DEF BakeMask, MayStart
  <2>2. l \in DOMAIN rows
    BY <1>2 DEF BakeMask, Masks
  <2>3. Reads(k, rows, sel) /\ k.before = Now
    BY <1>0, <2>2 DEF Reads
  <2> HIDE DEF k
  <2> QED
    BY <2>1, <2>3, SerialBegins
<1>3. ASSUME NEW l \in Rows, MaskToSelection(c, l)
      PROVE  Serial'
  <2>1. PICK t : /\ call' = [call EXCEPT ![c] = [op |-> "selection", bytes |-> t, before |-> Now]]
                 /\ UNCHANGED <<callers, rows, sel, done, at>> /\ Quiet
    BY <1>3 DEF MaskToSelection, MayStart
  <2> DEFINE k == [op |-> "selection", bytes |-> t, before |-> Now]
  <2>3. Reads(k, rows, sel) /\ k.before = Now
    BY <1>0 DEF Reads
  <2>4. call' = [call EXCEPT ![c] = k]
    BY <2>1
  <2> HIDE DEF k
  <2> QED
    BY <2>1, <2>3, <2>4, SerialBegins
<1>4. ASSUME SelectionToMask(c)
      PROVE  Serial'
  <2> DEFINE k == [op |-> "new", bytes |-> sel.bytes, at |-> Cardinality(DOMAIN rows), before |-> Now]
  <2>1. call' = [call EXCEPT ![c] = k] /\ UNCHANGED <<callers, rows, sel, done, at>> /\ Quiet
    BY <1>4 DEF SelectionToMask, MayStart
  <2>3. Reads(k, rows, sel) /\ k.before = Now
    BY <1>0 DEF Reads
  <2> HIDE DEF k
  <2> QED
    BY <2>1, <2>3, SerialBegins
<1>5. ASSUME SetSelection(c)
      PROVE  Serial'
  <2>1. PICK n : /\ call' = [call EXCEPT ![c] = [op |-> "set", prior |-> sel, next |-> n, before |-> Now]]
                 /\ UNCHANGED <<callers, rows, sel, done, at>> /\ Quiet
    BY <1>5 DEF SetSelection, MayStart
  <2> DEFINE k == [op |-> "set", prior |-> sel, next |-> n, before |-> Now]
  <2>3. Reads(k, rows, sel) /\ k.before = Now
    BY <1>0 DEF Reads
  <2>4. call' = [call EXCEPT ![c] = k]
    BY <2>1
  <2> HIDE DEF k
  <2> QED
    BY <2>1, <2>3, <2>4, SerialBegins
<1>6. ASSUME NEW ls \in SUBSET Rows, TransformLayer(c, ls)
      PROVE  Serial'
  <2>1. PICK t \in BOOLEAN :
          call' = [call EXCEPT ![c] = [op |-> "transform", before |-> Now,
                                       from |-> [l \in ls |-> Only("transform", rows[l])],
                                       to |-> [l \in ls |-> [Painted("none", 0) EXCEPT !.moved = t]]]]
    BY <1>6 DEF TransformLayer
  <2> DEFINE k == [op |-> "transform", before |-> Now,
                   from |-> [l \in ls |-> Only("transform", rows[l])],
                   to |-> [l \in ls |-> [Painted("none", 0) EXCEPT !.moved = t]]]
  <2>2. ls \subseteq DOMAIN rows /\ UNCHANGED <<callers, rows, sel, done, at>> /\ Quiet
    BY <1>6 DEF TransformLayer, MayStart
  <2>3. Reads(k, rows, sel) /\ k.before = Now
    BY <1>0, <2>2 DEF Reads
  <2>4. call' = [call EXCEPT ![c] = k]
    BY <2>1
  <2> HIDE DEF k
  <2> QED
    BY <2>2, <2>3, <2>4, SerialBegins
<1> QED
  BY <1>1, <1>2, <1>3, <1>4, <1>5, <1>6
     DEF ClearMask, FillMask, InvertBytes, RefineMask, SelectionOverMask

LEMMA FailsSerial ==
  ASSUME Typed, Serial, callers = "serial", NEW c \in Calls, Fails(c)
  PROVE  Serial'
<1>1. call[c].op # "idle" /\ call[c].op # "baked" /\ call' = [call EXCEPT ![c] = Idle]
      /\ UNCHANGED <<callers, rows, sel, done, at>>
  BY DEF Fails
<1>2. call[c] # Idle
  BY <1>1 DEF Idle
<1>3. Current(done, at, <<rows, sel>>) /\ Chained(done)
  BY <1>1, <1>2 DEF Serial, Reads
<1>4. \A d \in Calls : call'[d] = Idle
  BY <1>1, <1>2 DEF Serial, Typed
<1> QED
  BY <1>1, <1>3, <1>4 DEF Serial

LEMMA RewriteEndsSerial ==
  ASSUME Typed, Serial, callers = "serial", NEW c \in Calls, RewriteEnds(c)
  PROVE  Serial'
<1> DEFINE k == call[c]
           r == [k.row EXCEPT !.blob = k.bytes]
           from == [l \in {k.l} |-> k.row]
           to == [l \in {k.l} |-> r]
<1>1. k.l \in Rows /\ k.row \in RowRecords /\ r \in RowRecords
  BY BytesCall DEF RewriteEnds
<1>2. /\ rows' = Write("blob", to) /\ call' = [call EXCEPT ![c] = Idle] /\ sel' = sel /\ callers' = callers
      /\ Leave(ForRows("blob", from, to), k.before) /\ k # Idle
  BY DEF RewriteEnds, Idle
<1>3. /\ Current(done, at, k.before) /\ k.before = <<rows, sel>> /\ k.before \in States
      /\ k.l \in DOMAIN rows /\ k.row = Only("baked", rows[k.l])
  BY <1>2 DEF Serial, Reads, RewriteEnds
<1>4. rows[k.l] \in RowRecords /\ k.row.blob = rows[k.l].blob
  BY <1>3, RowsTyped, OnlyFields
<1> HIDE DEF k, r
<1>5. /\ from \in Tables /\ to \in Tables /\ DOMAIN from = {k.l} /\ DOMAIN to = {k.l}
      /\ from[k.l] = k.row /\ to[k.l] = r
  BY <1>1, OneRow
<1> HIDE DEF from, to
<1>6. /\ ForRows("blob", from, to) \in Commands /\ rows' \in Tables /\ DOMAIN rows' = DOMAIN rows
      /\ rows'[k.l] = Columns("blob", rows[k.l], r)
      /\ \A l \in DOMAIN rows : l # k.l => rows'[l] = rows[l]
  BY <1>2, <1>3, <1>5, ForRowsTyped, WriteFacts DEF Column
<1>7. /\ Columns("blob", rows[k.l], Only("blob", r)) = rows'[k.l]
      /\ Columns("blob", rows'[k.l], Only("blob", k.row)) = rows[k.l]
  <2>1. Columns("blob", rows[k.l], Only("blob", r)) = rows'[k.l]
    BY <1>1, <1>6, OnlyWrites DEF Column
  <2>2. Columns("blob", rows'[k.l], Only("blob", k.row)) = Columns("blob", rows'[k.l], k.row)
    BY <1>1, OnlyWrites DEF Column
  <2>3. Columns("blob", rows'[k.l], k.row) = rows[k.l]
    BY <1>4, <1>6, BlobBack
  <2> QED
    BY <2>1, <2>2, <2>3
<1>8. Leads(ForRows("blob", from, to), rows, sel, rows', sel)
  <2>1. rows \in Tables /\ "blob" \in Column
    BY DEF Typed, Column
  <2> QED
    BY <1>3, <1>5, <1>6, <1>7, <2>1, RowsLead
<1>9. sel' \in Selections /\ k.before[1] = rows /\ k.before[2] = sel
  BY <1>2, <1>3 DEF Typed
<1> DEFINE m == ForRows("blob", from, to)
<1> HIDE DEF m
<1>10. m \in Commands /\ Leave(m, k.before) /\ Leads(m, k.before[1], k.before[2], rows', sel')
  BY <1>2, <1>6, <1>8, <1>9 DEF m
<1>11. call[c] # Idle
  BY <1>2 DEF k
<1> QED
  BY <1>2, <1>3, <1>6, <1>9, <1>10, <1>11, SerialEnds

LEMMA InvertFlagSerial ==
  ASSUME Typed, Serial, callers = "serial", NEW c \in Calls, NEW l \in Rows, InvertFlag(c, l)
  PROVE  Serial'
<1> DEFINE r == [rows[l] EXCEPT !.invert = ~@]
           from == [k \in {l} |-> rows[l]]
           to == [k \in {l} |-> r]
<1>0. l \in DOMAIN rows
  BY DEF InvertFlag, Masks
<1>1. rows[l] \in RowRecords /\ r \in RowRecords
  BY <1>0, RowsTyped DEF RowRecords
<1>2. /\ rows' = Write("meta", to) /\ sel' = sel /\ callers' = callers /\ call' = call /\ Quiet
      /\ Leave(ForRows("meta", from, to), <<rows, sel>>)
  BY DEF InvertFlag, MayStart, Now
<1>3. Current(done, at, <<rows, sel>>) /\ <<rows, sel>> \in States
  BY <1>2 DEF Serial, States, Typed
<1> HIDE DEF r
<1>5. /\ from \in Tables /\ to \in Tables /\ DOMAIN from = {l} /\ DOMAIN to = {l}
      /\ from[l] = rows[l] /\ to[l] = r
  BY <1>1, OneRow
<1> HIDE DEF from, to
<1>6. /\ ForRows("meta", from, to) \in Commands /\ rows' \in Tables /\ DOMAIN rows' = DOMAIN rows
      /\ rows'[l] = Columns("meta", rows[l], r)
      /\ \A k \in DOMAIN rows : k # l => rows'[k] = rows[k]
  BY <1>0, <1>2, <1>5, ForRowsTyped, WriteFacts DEF Column
<1>7. /\ Columns("meta", rows[l], Only("meta", r)) = rows'[l]
      /\ Columns("meta", rows'[l], Only("meta", rows[l])) = rows[l]
  <2>1. Columns("meta", rows[l], Only("meta", r)) = rows'[l]
    BY <1>1, <1>6, OnlyWrites DEF Column
  <2>2. Columns("meta", rows'[l], Only("meta", rows[l])) = Columns("meta", rows'[l], rows[l])
    BY <1>1, OnlyWrites DEF Column
  <2>3. Columns("meta", rows'[l], rows[l]) = rows[l]
    BY <1>1, <1>6, MetaBack
  <2> QED
    BY <2>1, <2>2, <2>3
<1>8. Leads(ForRows("meta", from, to), rows, sel, rows', sel)
  <2>1. rows \in Tables /\ "meta" \in Column
    BY DEF Typed, Column
  <2> QED
    BY <1>0, <1>5, <1>6, <1>7, <2>1, RowsLead
<1> DEFINE m == ForRows("meta", from, to)
           b == <<rows, sel>>
<1>9. sel' \in Selections /\ b[1] = rows /\ b[2] = sel
  BY <1>2 DEF Typed
<1> HIDE DEF m, b
<1>10. m \in Commands /\ Leave(m, b) /\ Leads(m, b[1], b[2], rows', sel')
  BY <1>2, <1>6, <1>8, <1>9 DEF m, b
<1>11. Current(done, at, b) /\ b \in States
  BY <1>3 DEF b
<1> QED
  BY <1>2, <1>6, <1>9, <1>10, <1>11, SerialEnds

LEMMA BakeBytesSerial ==
  ASSUME Typed, Serial, callers = "serial", NEW c \in Calls, BakeBytes(c)
  PROVE  Serial'
<1> DEFINE k == call[c]
           m == [k EXCEPT !.op = "baked"]
           to == [l \in {k.l} |-> [k.row EXCEPT !.blob = k.bytes]]
<1>1. /\ rows' = Write("blob", to) /\ call' = [call EXCEPT ![c] = m]
      /\ UNCHANGED <<callers, sel, done, at>> /\ k # Idle /\ k.op = "bake"
  BY DEF BakeBytes, Idle
<1>2. /\ Current(done, at, k.before) /\ k.before = <<rows, sel>> /\ k.before \in States
      /\ k.l \in DOMAIN rows /\ k.row = Only("baked", rows[k.l])
      /\ Chained(done) /\ \A d \in Calls : d # c => call[d] = Idle
  BY <1>1 DEF Serial, Reads
<1>3. k \in [op : {"bytes", "bake", "baked"}, l : Rows, row : RowRecords, bytes : Bytes, before : Views]
  BY <1>1, CallIs DEF Typed
<1>4. m.op = "baked" /\ m.l = k.l /\ m.row = k.row /\ m.bytes = k.bytes /\ m.before = k.before
  BY <1>3
<1>5. rows' = Put("blob", to, rows) /\ k.before[1] = rows /\ k.before[2] = sel
  BY <1>1, <1>2 DEF Write, Put
<1> HIDE DEF m
<1>6. Reads(m, rows', sel)
  BY <1>2, <1>4, <1>5 DEF Reads
<1>7. m # Idle /\ \A d \in Calls : call'[d] = IF d = c THEN m ELSE Idle
  BY <1>1, <1>2, <1>4 DEF Typed, Idle
<1> HIDE DEF k
<1> QED
  BY <1>1, <1>2, <1>4, <1>6, <1>7 DEF Serial, Quiet

LEMMA BakeEndsSerial ==
  ASSUME Typed, Serial, callers = "serial", NEW c \in Calls, BakeEnds(c)
  PROVE  Serial'
<1> DEFINE k == call[c]
           v == [k.row EXCEPT !.blob = k.bytes]
           p == Painted(k.bytes, 0)
           b == k.before[1]
           from == [l \in {k.l} |-> k.row]
           to == [l \in {k.l} |-> p]
<1>1. k.l \in Rows /\ k.row \in RowRecords /\ v \in RowRecords /\ p \in RowRecords
  BY BytesCall DEF BakeEnds
<1>2. /\ rows' = Write("meta", to) /\ call' = [call EXCEPT ![c] = Idle] /\ sel' = sel /\ callers' = callers
      /\ Leave(ForRows("baked", from, to), k.before) /\ k # Idle /\ k.op = "baked"
  BY DEF BakeEnds, Idle
<1>3. /\ Current(done, at, k.before) /\ k.before \in States /\ k.before[2] = sel
      /\ k.l \in DOMAIN b /\ k.row = Only("baked", b[k.l])
      /\ rows = Put("blob", [l \in {k.l} |-> v], b)
  BY <1>2 DEF Serial, Reads
<1>4. b \in Tables /\ b[k.l] \in RowRecords /\ v.blob = p.blob
  <2>1. b \in Tables
    BY <1>3 DEF States
  <2>2. v.blob = k.bytes
    BY <1>1 DEF RowRecords
  <2>3. p.blob = k.bytes
    BY DEF Painted
  <2> QED
    BY <1>3, <2>1, <2>2, <2>3, TableFacts
<1>5. /\ DOMAIN rows = DOMAIN b /\ rows[k.l] = Columns("blob", b[k.l], v)
      /\ \A l \in DOMAIN b : l # k.l => rows[l] = b[l]
  BY <1>3 DEF Put
<1> HIDE DEF k, v, p, b
<1>6. /\ from \in Tables /\ to \in Tables /\ DOMAIN from = {k.l} /\ DOMAIN to = {k.l}
      /\ from[k.l] = k.row /\ to[k.l] = p
  BY <1>1, OneRow
<1> HIDE DEF from, to
<1>7. /\ ForRows("baked", from, to) \in Commands /\ rows' \in Tables /\ DOMAIN rows' = DOMAIN b
      /\ rows'[k.l] = Columns("meta", rows[k.l], p)
      /\ \A l \in DOMAIN b : l # k.l => rows'[l] = b[l]
  BY <1>2, <1>3, <1>5, <1>6, ForRowsTyped, WriteFacts DEF Column
<1>8. /\ Columns("baked", b[k.l], Only("baked", p)) = rows'[k.l]
      /\ Columns("baked", rows'[k.l], Only("baked", k.row)) = b[k.l]
  <2>1. Columns("baked", b[k.l], Only("baked", p)) = Columns("baked", b[k.l], p)
    BY <1>1, OnlyWrites DEF Column
  <2>2. Columns("baked", rows'[k.l], Only("baked", k.row)) = Columns("baked", rows'[k.l], b[k.l])
    BY <1>3, <1>4, OnlyTwice DEF Column
  <2>3. /\ Columns("baked", b[k.l], p) = rows'[k.l]
        /\ Columns("baked", rows'[k.l], b[k.l]) = b[k.l]
    BY <1>4, <1>5, <1>7, BakedIsBoth
  <2> QED
    BY <2>1, <2>2, <2>3
<1>9. Leads(ForRows("baked", from, to), b, sel, rows', sel)
  <2>1. "baked" \in Column
    BY DEF Column
  <2> QED
    BY <1>3, <1>4, <1>6, <1>7, <1>8, <2>1, RowsLead
<1> DEFINE m == ForRows("baked", from, to)
<1> HIDE DEF m
<1>10. /\ m \in Commands /\ Leave(m, k.before) /\ Leads(m, k.before[1], k.before[2], rows', sel')
       /\ sel' \in Selections /\ call[c] # Idle
  BY <1>2, <1>3, <1>7, <1>9 DEF m, b, k, Typed
<1> QED
  BY <1>2, <1>3, <1>7, <1>10, SerialEnds

LEMMA InsertMaskSerial ==
  ASSUME Typed, Serial, callers = "serial", NEW c \in Calls, NEW l \in Rows, InsertMask(c, l)
  PROVE  Serial'
<1> DEFINE k == call[c]
           p == Painted(k.bytes, k.at)
<1>1. p \in RowRecords
  <2>1. k \in [op : {"new"}, bytes : Bytes, at : Nat, before : Views]
    BY CallIs DEF Typed, InsertMask
  <2> QED
    BY <2>1, PaintedTyped DEF Blobs
<1>2. /\ rows' = WithRow(l, p) /\ call' = [call EXCEPT ![c] = Idle] /\ sel' = sel /\ callers' = callers
      /\ Leave(ForNewRow(l, p), k.before) /\ k # Idle /\ k.op = "new" /\ l \notin DOMAIN rows
  BY DEF InsertMask, Idle, Fresh
<1>3. Current(done, at, k.before) /\ k.before = <<rows, sel>> /\ k.before \in States
  BY <1>2 DEF Serial, Reads
<1> HIDE DEF p
<1>4. rows' = Add(l, p, rows) /\ rows' \in Tables
  BY <1>1, <1>2, WithFacts DEF WithRow, Add
<1>5. Leads(ForNewRow(l, p), rows, sel, rows', sel)
  BY <1>1, <1>2, <1>4, NewRowLeads DEF Typed
<1> DEFINE m == ForNewRow(l, p)
<1>6. m \in Commands
  BY <1>1, ForNewRowTyped
<1> HIDE DEF m
<1>7. /\ Leave(m, k.before) /\ Leads(m, k.before[1], k.before[2], rows', sel') /\ sel' \in Selections
      /\ call[c] # Idle
  BY <1>2, <1>3, <1>5 DEF m, Typed
<1> HIDE DEF k
<1> QED
  BY <1>2, <1>3, <1>4, <1>6, <1>7, SerialEnds

LEMMA SelectsSerial ==
  ASSUME Typed, Serial, callers = "serial", NEW c \in Calls, SelectMask(c) \/ ApplySelection(c)
  PROVE  Serial'
<1> DEFINE k == call[c]
<1>1. PICK s \in Selections :
        /\ rows' = rows /\ call' = [call EXCEPT ![c] = Idle] /\ sel' = s /\ callers' = callers
        /\ Leave(ForSelection(sel, s), k.before) /\ k # Idle /\ k.op \in {"selection", "set"}
  <2>1. CASE SelectMask(c)
    <3>1. k \in [op : {"selection"}, bytes : Bytes, before : Views]
      BY <2>1, CallIs DEF Typed, SelectMask
    <3>2. Select("mask", k.bytes) \in Selections
      BY <3>1, SelectionsAre
    <3> QED
      BY <2>1, <3>2 DEF SelectMask, Idle
  <2>2. CASE ApplySelection(c)
    <3>1. k \in [op : {"set"}, prior : Selections, next : Selections, before : Views] /\ k # Idle
      BY <2>2, CallIs DEF Typed, ApplySelection, Idle
    <3>2. k.prior = sel
      BY <2>2, <3>1 DEF Serial, Reads, ApplySelection
    <3> QED
      BY <2>2, <3>1, <3>2 DEF ApplySelection
  <2> QED
    BY <2>1, <2>2
<1>2. Current(done, at, k.before) /\ k.before = <<rows, sel>> /\ k.before \in States
  BY <1>1 DEF Serial, Reads
<1>3. Leads(ForSelection(sel, s), rows, sel, rows, s)
  BY SelectionLeads DEF Typed
<1> DEFINE m == ForSelection(sel, s)
<1>4. m \in Commands
  BY ForSelectionTyped DEF Typed
<1> HIDE DEF m
<1>5. /\ Leave(m, k.before) /\ Leads(m, k.before[1], k.before[2], rows', sel')
      /\ rows' \in Tables /\ sel' \in Selections /\ call[c] # Idle
  BY <1>1, <1>2, <1>3 DEF m, Typed
<1> HIDE DEF k
<1> QED
  BY <1>1, <1>2, <1>4, <1>5, SerialEnds

LEMMA TransformEndsSerial ==
  ASSUME Typed, Serial, callers = "serial", NEW c \in Calls, TransformEnds(c)
  PROVE  Serial'
<1> DEFINE k == call[c]
<1>1. k.from \in Tables /\ k.to \in Tables
  <2>1. k \in [op : {"transform"}, before : Views, from : Tables, to : Tables]
    BY CallIs DEF Typed, TransformEnds
  <2> QED
    BY <2>1
<1>2. /\ rows' = Write("transform", k.to) /\ call' = [call EXCEPT ![c] = Idle] /\ sel' = sel
      /\ callers' = callers /\ Leave(ForRows("transform", k.from, k.to), k.before)
      /\ k # Idle /\ k.op = "transform"
  BY DEF TransformEnds, Idle
<1>3. /\ Current(done, at, k.before) /\ k.before = <<rows, sel>> /\ k.before \in States
      /\ DOMAIN k.from = DOMAIN k.to /\ DOMAIN k.from \subseteq DOMAIN rows
      /\ \A l \in DOMAIN k.from : k.from[l] = Only("transform", rows[l])
  BY <1>2 DEF Serial, Reads
<1>4. call[c] # Idle
  BY <1>2
<1> HIDE DEF k
<1>5. /\ ForRows("transform", k.from, k.to) \in Commands /\ rows' \in Tables /\ DOMAIN rows' = DOMAIN rows
      /\ \A l \in DOMAIN rows : rows'[l] = IF l \in DOMAIN k.to THEN Columns("transform", rows[l], k.to[l])
                                                              ELSE rows[l]
  BY <1>1, <1>2, ForRowsTyped, WriteFacts DEF Column
<1>6. ASSUME NEW l \in DOMAIN k.to
      PROVE  /\ Columns("transform", rows[l], Only("transform", k.to[l])) = rows'[l]
             /\ Columns("transform", rows'[l], Only("transform", k.from[l])) = rows[l]
  <2>1. rows[l] \in RowRecords /\ k.to[l] \in RowRecords
        /\ rows'[l] = Columns("transform", rows[l], k.to[l])
    BY <1>1, <1>3, <1>5, RowsTyped, TableFacts
  <2>2. Columns("transform", rows[l], Only("transform", k.to[l])) = rows'[l]
    BY <2>1, OnlyWrites DEF Column
  <2>3. Columns("transform", rows'[l], Only("transform", k.from[l])) = Columns("transform", rows'[l], rows[l])
    BY <1>3, <2>1, OnlyTwice DEF Column
  <2>4. Columns("transform", rows'[l], rows[l]) = rows[l]
    BY <2>1, TransformBack
  <2> QED
    BY <2>2, <2>3, <2>4
<1>7. Leads(ForRows("transform", k.from, k.to), rows, sel, rows', sel)
  <2>1. rows \in Tables /\ "transform" \in Column
    BY DEF Typed, Column
  <2>2. \A l \in DOMAIN rows : l \notin DOMAIN k.to => rows'[l] = rows[l]
    BY <1>5
  <2> QED
    BY <1>1, <1>3, <1>5, <1>6, <2>1, <2>2, RowsLead
<1> DEFINE m == ForRows("transform", k.from, k.to)
<1> HIDE DEF m
<1>8. /\ m \in Commands /\ Leave(m, k.before) /\ Leads(m, k.before[1], k.before[2], rows', sel')
      /\ sel' \in Selections
  BY <1>2, <1>3, <1>5, <1>7 DEF m, Typed
<1> QED
  BY <1>2, <1>3, <1>4, <1>5, <1>8, SerialEnds

LEMMA UndoSerial ==
  ASSUME Typed, Serial, callers = "serial", Undo
  PROVE  Serial'
<1> DEFINE e == done[at]
<1>1. /\ at > 0 /\ Quiet /\ UndoOf(e.command) /\ at' = at - 1 /\ UNCHANGED <<callers, call, done>>
      /\ at \in 1..Len(done) /\ Len(done) \in Nat
  BY DEF Undo, Typed
<1>2. Link(e) /\ Chained(done) /\ <<rows, sel>> = e.after
  BY <1>1 DEF Serial, Chained, Current
<1>3. <<rows', sel'>> = Undone(e.command, rows, sel)
  BY <1>1, UndoesOf
<1> HIDE DEF e
<1>4. e.after[1] = rows /\ e.after[2] = sel /\ e.before = <<e.before[1], e.before[2]>>
  BY <1>2 DEF Link, States
<1>5. <<rows', sel'>> = e.before
  BY <1>2, <1>3, <1>4 DEF Link, Leads
<1>6. at' > 0 => done[at'].after = e.before
  <2> SUFFICES ASSUME at' > 0 PROVE done[at'].after = e.before
    OBVIOUS
  <2>1. at' \in 1..Len(done) /\ at' < Len(done) /\ at' + 1 = at
    BY <1>1
  <2> QED
    BY <1>2, <2>1 DEF Chained, e
<1>7. at' + 1 = at
  BY <1>1
<1>8. Current(done, at', <<rows', sel'>>)
  BY <1>5, <1>6, <1>7 DEF Current, e
<1> QED
  BY <1>1, <1>2, <1>8 DEF Serial, Quiet

LEMMA RedoSerial ==
  ASSUME Typed, Serial, callers = "serial", Redo
  PROVE  Serial'
<1> DEFINE e == done[at + 1]
<1>1. /\ at < Len(done) /\ Quiet /\ RedoOf(e.command) /\ at' = at + 1 /\ UNCHANGED <<callers, call, done>>
      /\ at + 1 \in 1..Len(done) /\ Len(done) \in Nat
  BY DEF Redo, Typed
<1>2. Link(e) /\ Chained(done) /\ <<rows, sel>> = e.before
  BY <1>1 DEF Serial, Chained, Current
<1>3. <<rows', sel'>> = Redone(e.command, rows, sel)
  BY <1>1, RedoesOf
<1> HIDE DEF e
<1>4. e.before[1] = rows /\ e.before[2] = sel /\ e.after = <<e.after[1], e.after[2]>>
  BY <1>2 DEF Link, States
<1>5. <<rows', sel'>> = e.after
  BY <1>2, <1>3, <1>4 DEF Link, Leads
<1>6. at' < Len(done) => done[at' + 1].before = e.after
  BY <1>1, <1>2 DEF Chained, e
<1>8. Current(done, at', <<rows', sel'>>)
  BY <1>1, <1>5, <1>6 DEF Current, e
<1> QED
  BY <1>1, <1>2, <1>8 DEF Serial, Quiet

LEMMA PaceStays == RowsNext => callers' = callers
<1>1. MaskTool => callers' = callers
  BY DEF MaskTool, RewriteEnds, Fails, BakeBytes, BakeEnds, SelectionToMask, ClearMask, FillMask,
         InvertBytes, RefineMask, SelectionOverMask, Rewrite, InvertFlag, BakeMask, InsertMask
<1>2. SelectionTool => callers' = callers
  BY DEF SelectionTool, SelectAll, InvertSelection, RefineSelection, SelectNow, SelectMask,
         SetSelection, ApplySelection, MaskToSelection
<1>3. TransformTool => callers' = callers
  BY DEF TransformTool, TransformEnds, TransformLayer
<1> QED
  BY <1>1, <1>2, <1>3 DEF RowsNext, Undo, Redo

LEMMA StepSerial ==
  ASSUME Typed, Serial, [RowsNext]_tables
  PROVE  Serial'
<1>1. CASE UNCHANGED tables
  BY <1>1 DEF tables, Serial, Quiet
<1>2. CASE RowsNext /\ callers # "serial"
  BY <1>2, PaceStays DEF Serial
<1>3. ASSUME RowsNext, callers = "serial"
      PROVE  Serial'
  <2>1. CASE MaskTool
    BY <1>3, <2>1, RewriteEndsSerial, FailsSerial, BakeBytesSerial, BakeEndsSerial, BeginsSerial,
       InvertFlagSerial, InsertMaskSerial DEF MaskTool
  <2>2. CASE SelectionTool
    BY <1>3, <2>2, SelectsNow, SelectsNowSerial, SelectsSerial, BeginsSerial DEF SelectionTool
  <2>3. CASE TransformTool
    BY <1>3, <2>3, TransformEndsSerial, BeginsSerial DEF TransformTool
  <2> QED
    BY <1>3, <2>1, <2>2, <2>3, UndoSerial, RedoSerial DEF RowsNext
<1> QED
  BY <1>1, <1>2, <1>3

(* For a caller that awaits each answer, undo and redo bring back every    *)
(* column of every row and the selection as they were.                     *)
THEOREM UndoRedoExact == ASSUME Parameters PROVE RowsSpec => []StepsExact
<1>1. RowsInit => Typed /\ Serial
  <2>1. RowsInit => Serial
    BY DEF RowsInit, Serial, Chained, Current
  <2> QED
    BY <2>1, InitTyped
<1>2. Typed /\ Serial /\ [RowsNext]_tables => (Typed /\ Serial)'
  BY StepTyped, StepSerial
<1>3. Typed /\ Serial => StepsExact
  BY DEF Serial, StepsExact, Current, Now
<1> QED
  BY <1>1, <1>2, <1>3, PTL DEF RowsSpec
===============================================================================
