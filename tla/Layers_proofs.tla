----------------------------- MODULE Layers_proofs -----------------------------
(***************************************************************************)
(* Documents and their two keepers on the device.  No two layers share a   *)
(* position, for any host and any positions, and the editor's positions    *)
(* have no gap; its open document never goes empty; layers, groups and     *)
(* parents agree for a careful host; a stroke is drawn once, and only a    *)
(* begin that came too late leaves one behind.                             *)
(***************************************************************************)
EXTENDS DocumentHost, Strokes, FiniteSetTheorems, SequenceTheorems, TLAPS

(* The layers of a document by themselves.                                 *)
Rows == UNION {[S -> LayerRecords] : S \in SUBSET Layers}
Distinct(f) == \A j, k \in DOMAIN f : f[j].at = f[k].at => j = k
InRow(f) == Distinct(f) /\ \A k \in DOMAIN f : f[k].at \in 0..(Cardinality(DOMAIN f) - 1)

(* In a row, or loose: then with any positions, but no two the same.       *)
Placed(f, b) == Distinct(f) /\ (b \/ InRow(f))

LEMMA RowsFacts ==
  ASSUME NEW f
  PROVE  f \in Rows <=> DOMAIN f \subseteq Layers /\ f \in [DOMAIN f -> LayerRecords]
BY DEF Rows

LEMMA RowsFinite ==
  ASSUME NEW S \in SUBSET Layers
  PROVE  IsFiniteSet(S) /\ Cardinality(S) \in Nat
BY DocumentParameters, FS_Subset, FS_CardinalityType

(* A field of a record that is replaced, and the ones that are not.        *)
LEMMA MovedTo ==
  ASSUME NEW r \in LayerRecords, NEW n \in Int
  PROVE  LET s == [r EXCEPT !.at = n] IN
         /\ s \in LayerRecords /\ s.at = n
         /\ s.kind = r.kind /\ s.visible = r.visible /\ s.opacity = r.opacity /\ s.group = r.group
BY DEF LayerRecords

(* Numbering anew gives a stack, whatever gaps there were.                 *)
LEMMA CompactStacks ==
  ASSUME NEW f \in Rows, Distinct(f)
  PROVE  /\ Compact(f) \in Rows /\ DOMAIN Compact(f) = DOMAIN f
         /\ InRow(Compact(f))
<1> DEFINE below(k) == {j \in DOMAIN f : f[j].at < f[k].at}
           g == Compact(f)
<1>1. /\ DOMAIN f \subseteq Layers /\ f \in [DOMAIN f -> LayerRecords]
      /\ IsFiniteSet(DOMAIN f) /\ Cardinality(DOMAIN f) \in Nat
  BY RowsFacts, RowsFinite
<1>2. \A k \in DOMAIN f : f[k].at \in Int
  BY <1>1 DEF LayerRecords
<1>3. \A k \in DOMAIN f : IsFiniteSet(below(k)) /\ Cardinality(below(k)) \in Nat
  BY <1>1, FS_Subset, FS_CardinalityType
<1>4. \A k \in DOMAIN f : g[k] = [f[k] EXCEPT !.at = Cardinality(below(k))]
  BY DEF Compact
<1>5. DOMAIN g = DOMAIN f /\ g = [k \in DOMAIN f |-> g[k]]
  BY DEF Compact
<1> HIDE DEF g
<1>6. \A k \in DOMAIN f : g[k] \in LayerRecords /\ g[k].at = Cardinality(below(k))
  <2> TAKE k \in DOMAIN f
  <2> DEFINE n == Cardinality(below(k))
  <2>1. f[k] \in LayerRecords
    BY <1>1
  <2>2. n \in Nat /\ g[k] = [f[k] EXCEPT !.at = n]
    BY <1>3, <1>4
  <2>3. g[k] \in LayerRecords /\ g[k].at = n
    <3> HIDE DEF n
    <3> QED
      BY <2>1, <2>2, MovedTo
  <2> QED
    BY <2>3
<1>7. g \in Rows
  BY <1>1, <1>5, <1>6, RowsFacts
<1>8. \A k \in DOMAIN f : g[k].at \in 0..(Cardinality(DOMAIN f) - 1)
  <2> TAKE k \in DOMAIN f
  <2>1. below(k) \subseteq DOMAIN f \ {k}
    BY <1>2
  <2>2. IsFiniteSet(DOMAIN f \ {k}) /\ Cardinality(DOMAIN f \ {k}) = Cardinality(DOMAIN f) - 1
    BY <1>1, FS_RemoveElement
  <2>3. Cardinality(below(k)) <= Cardinality(DOMAIN f \ {k})
    BY <2>1, <2>2, FS_Subset
  <2>4. g[k].at = Cardinality(below(k)) /\ Cardinality(below(k)) \in Nat
    BY <1>3, <1>6
  <2> HIDE DEF below
  <2> QED
    BY <2>2, <2>3, <2>4, <1>1
<1>9. \A j, k \in DOMAIN f : f[j].at < f[k].at => g[j].at < g[k].at
  <2> SUFFICES ASSUME NEW j \in DOMAIN f, NEW k \in DOMAIN f, f[j].at < f[k].at
               PROVE  g[j].at < g[k].at
    OBVIOUS
  <2>1. below(j) \cup {j} \subseteq below(k)
    BY <1>2
  <2>2. j \notin below(j)
    BY <1>2
  <2>3. Cardinality(below(j) \cup {j}) = Cardinality(below(j)) + 1
    BY <2>2, <1>3, FS_AddElement
  <2>4. Cardinality(below(j)) + 1 <= Cardinality(below(k))
    BY <2>1, <2>3, <1>3, FS_Subset
  <2>5. /\ g[j].at = Cardinality(below(j)) /\ Cardinality(below(j)) \in Nat
        /\ g[k].at = Cardinality(below(k)) /\ Cardinality(below(k)) \in Nat
    BY <1>3, <1>6
  <2> HIDE DEF below
  <2> QED
    BY <2>4, <2>5
<1>10. \A j, k \in DOMAIN f : g[j].at = g[k].at => j = k
  <2> SUFFICES ASSUME NEW j \in DOMAIN f, NEW k \in DOMAIN f, g[j].at = g[k].at, j # k
               PROVE  FALSE
    OBVIOUS
  <2>1. f[j].at # f[k].at
    BY DEF Distinct
  <2>2. f[j].at < f[k].at \/ f[k].at < f[j].at
    BY <2>1, <1>2
  <2>3. g[j].at \in Nat /\ g[k].at \in Nat
    BY <1>3, <1>6
  <2> QED
    BY <2>2, <2>3, <1>9
<1> QED
  BY <1>5, <1>7, <1>8, <1>10 DEF InRow, Distinct, g

LEMMA InsertStacks ==
  ASSUME NEW b \in BOOLEAN, NEW f \in Rows, Placed(f, b), NEW l \in Layers \ DOMAIN f,
         NEW r \in LayerRecords, b \/ r.at \in 0..Cardinality(DOMAIN f)
  PROVE  /\ Insert(f, l, r) \in Rows /\ DOMAIN Insert(f, l, r) = DOMAIN f \cup {l}
         /\ Placed(Insert(f, l, r), b)
<1> DEFINE g == Insert(f, l, r)
           n == Cardinality(DOMAIN f)
<1>1. /\ DOMAIN f \subseteq Layers /\ f \in [DOMAIN f -> LayerRecords]
      /\ IsFiniteSet(DOMAIN f) /\ n \in Nat /\ l \notin DOMAIN f /\ l \in Layers
  BY RowsFacts, RowsFinite
<1>2. r.at \in Int /\ \A k \in DOMAIN f : f[k] \in LayerRecords /\ f[k].at \in Int
  BY <1>1 DEF LayerRecords
<1>3. DOMAIN g = DOMAIN f \cup {l} /\ g = [k \in DOMAIN f \cup {l} |-> g[k]]
  BY DEF Insert
<1>4. /\ g[l] = r
      /\ \A k \in DOMAIN f : g[k] = IF f[k].at >= r.at THEN [f[k] EXCEPT !.at = f[k].at + 1] ELSE f[k]
  BY <1>1 DEF Insert
<1> HIDE DEF g
<1>5. \A k \in DOMAIN f : /\ g[k] \in LayerRecords
                          /\ g[k].at = IF f[k].at >= r.at THEN f[k].at + 1 ELSE f[k].at
  <2> TAKE k \in DOMAIN f
  <2>1. f[k].at + 1 \in Int
    BY <1>2
  <2>2. [f[k] EXCEPT !.at = f[k].at + 1] \in LayerRecords
        /\ [f[k] EXCEPT !.at = f[k].at + 1].at = f[k].at + 1
    BY <1>2, <2>1, MovedTo
  <2> QED
    BY <1>2, <1>4, <2>2
<1>6. g \in Rows
  <2>1. \A k \in DOMAIN g : g[k] \in LayerRecords
    BY <1>3, <1>4, <1>5
  <2> QED
    BY <2>1, <1>1, <1>3, RowsFacts
<1>7. Cardinality(DOMAIN g) = n + 1
  BY <1>1, <1>3, FS_AddElement
<1>8. \A k \in DOMAIN f : g[k].at # g[l].at
  BY <1>2, <1>4, <1>5
<1>9. \A j, k \in DOMAIN f : g[j].at = g[k].at => f[j].at = f[k].at
  BY <1>2, <1>5
<1>10. Distinct(g)
  BY <1>3, <1>8, <1>9 DEF Placed, Distinct
<1>11. ASSUME ~b PROVE \A k \in DOMAIN g : g[k].at \in 0..n
  <2>1. \A k \in DOMAIN f : f[k].at \in 0..(n - 1)
    BY <1>11 DEF Placed, InRow
  <2>2. g[l].at \in 0..n
    BY <1>4, <1>11
  <2>3. \A k \in DOMAIN f : g[k].at \in 0..n
    BY <2>1, <1>1, <1>2, <1>5
  <2> QED
    BY <2>2, <2>3, <1>3
<1>12. n + 1 - 1 = n
  BY <1>1
<1>13. Placed(g, b)
  <2>1. CASE b
    BY <1>10, <2>1 DEF Placed
  <2>2. CASE ~b
    <3>1. Cardinality(DOMAIN g) - 1 = n
      BY <1>1, <1>7
    <3>2. \A k \in DOMAIN g : g[k].at \in 0..(Cardinality(DOMAIN g) - 1)
      BY <1>11, <2>2, <3>1
    <3> QED
      BY <1>10, <3>2 DEF InRow, Placed
  <2> QED
    BY <2>1, <2>2
<1> QED
  BY <1>3, <1>6, <1>13 DEF g

LEMMA WithoutFacts ==
  ASSUME NEW f \in Rows, Distinct(f), NEW S
  PROVE  /\ Without(f, S) \in Rows /\ DOMAIN Without(f, S) = DOMAIN f \ S
         /\ Distinct(Without(f, S))
         /\ \A k \in DOMAIN f \ S : Without(f, S)[k] = f[k]
<1>1. DOMAIN f \subseteq Layers /\ f \in [DOMAIN f -> LayerRecords]
  BY RowsFacts
<1> DEFINE g == Without(f, S)
<1>2. DOMAIN g = DOMAIN f \ S /\ g = [k \in DOMAIN f \ S |-> f[k]]
  BY DEF Without
<1> HIDE DEF g
<1>3. g \in Rows
  BY <1>1, <1>2, RowsFacts
<1> QED
  BY <1>2, <1>3 DEF Distinct, g

LEMMA SamePlaces ==
  ASSUME NEW b \in BOOLEAN, NEW f \in Rows, Placed(f, b), NEW g,
         DOMAIN g = DOMAIN f, g \in [DOMAIN f -> LayerRecords],
         \A k \in DOMAIN f : g[k].at = f[k].at
  PROVE  g \in Rows /\ Placed(g, b)
<1>1. g \in Rows
  BY RowsFacts
<1>2. Placed(g, b)
  BY DEF Placed, InRow, Distinct
<1> QED
  BY <1>1, <1>2

LEMMA RowPlaced == ASSUME NEW f, InRow(f), NEW b \in BOOLEAN PROVE Placed(f, b)
BY DEF InRow, Placed

LEMMA RowDistinct == ASSUME NEW f, InRow(f) PROVE Distinct(f)
BY DEF InRow

-----------------------------------------------------------------------------
(* Documents.                                                              *)

Trees == UNION {[S -> GroupRecords] : S \in SUBSET Groups}
Sound(d, b) == IsDocument(d) /\ Apart(d) /\ (b \/ Stacked(d))
Good(d) == IsDocument(d) /\ Stacked(d)

LEMMA GoodSound == ASSUME NEW d PROVE Good(d) <=> Sound(d, FALSE)
BY DEF Good, Sound, Stacked

LEMMA GoodIsSound == ASSUME NEW d, Good(d), NEW b \in BOOLEAN PROVE Sound(d, b)
BY DEF Good, Sound, Stacked

LEMMA SoundParts ==
  ASSUME NEW b \in BOOLEAN, NEW d
  PROVE  Sound(d, b) <=> /\ d = [layer |-> d.layer, group |-> d.group, active |-> d.active]
                         /\ d.layer \in Rows /\ Placed(d.layer, b)
                         /\ d.group \in Trees /\ d.active \in Layers \cup {None}
<1>1. d.group \in Trees <=> DOMAIN d.group \subseteq Groups /\ d.group \in [DOMAIN d.group -> GroupRecords]
  BY DEF Trees
<1>2. d.layer \in Rows <=> DOMAIN d.layer \subseteq Layers /\ d.layer \in [DOMAIN d.layer -> LayerRecords]
  BY RowsFacts
<1>3. (Apart(d) <=> Distinct(d.layer)) /\ (Stacked(d) <=> InRow(d.layer))
  BY DEF Apart, Distinct, Stacked, InRow, Ids, Size
<1> QED
  BY <1>1, <1>2, <1>3 DEF Sound, Placed, IsDocument

LEMMA GoodParts ==
  ASSUME NEW d
  PROVE  Good(d) <=> /\ d = [layer |-> d.layer, group |-> d.group, active |-> d.active]
                     /\ d.layer \in Rows /\ InRow(d.layer)
                     /\ d.group \in Trees /\ d.active \in Layers \cup {None}
BY GoodSound, SoundParts DEF Placed, InRow

LEMMA MadeSound ==
  ASSUME NEW b \in BOOLEAN, NEW f \in Rows, Placed(f, b), NEW t \in Trees, NEW a \in Layers \cup {None}
  PROVE  Sound([layer |-> f, group |-> t, active |-> a], b)
BY SoundParts

LEMMA LayersReplaced ==
  ASSUME NEW b \in BOOLEAN, NEW d, Sound(d, b), NEW c \in BOOLEAN, NEW f \in Rows, Placed(f, c)
  PROVE  /\ Sound([d EXCEPT !.layer = f], c)
         /\ [d EXCEPT !.layer = f].layer = f
         /\ [d EXCEPT !.layer = f].group = d.group /\ [d EXCEPT !.layer = f].active = d.active
<1>1. d = [layer |-> d.layer, group |-> d.group, active |-> d.active]
      /\ d.group \in Trees /\ d.active \in Layers \cup {None}
  BY SoundParts
<1>2. [d EXCEPT !.layer = f] = [layer |-> f, group |-> d.group, active |-> d.active]
  BY <1>1
<1> QED
  BY <1>1, <1>2, MadeSound

LEMMA GroupsReplaced ==
  ASSUME NEW b \in BOOLEAN, NEW d, Sound(d, b), NEW t \in Trees
  PROVE  Sound([d EXCEPT !.group = t], b)
<1>1. d = [layer |-> d.layer, group |-> d.group, active |-> d.active]
      /\ d.layer \in Rows /\ Placed(d.layer, b) /\ d.active \in Layers \cup {None}
  BY SoundParts
<1>2. [d EXCEPT !.group = t] = [layer |-> d.layer, group |-> t, active |-> d.active]
  BY <1>1
<1> QED
  BY <1>1, <1>2, MadeSound

LEMMA EmptyGood == Good(Empty)
<1> DEFINE f == [l \in {} |-> None]
           t == [g \in {} |-> None]
<1>1. f \in [{} -> LayerRecords] /\ DOMAIN f = {} /\ t \in [{} -> GroupRecords]
  OBVIOUS
<1>2. f \in Rows /\ t \in Trees
  BY <1>1 DEF Rows, Trees
<1>3. Placed(f, FALSE)
  BY <1>1 DEF InRow, Placed, Distinct
<1> HIDE DEF f, t
<1> QED
  BY <1>2, <1>3, MadeSound, GoodSound DEF Empty, f, t

LEMMA AddSound ==
  ASSUME NEW b \in BOOLEAN, NEW d, Sound(d, b), NEW l \in Layers \ Ids(d),
         NEW r \in LayerRecords, b \/ r.at \in 0..Size(d)
  PROVE  /\ Sound(AddLayer(d, l, r), b) /\ Ids(AddLayer(d, l, r)) = Ids(d) \cup {l}
<1>1. d.layer \in Rows /\ Placed(d.layer, b)
  BY SoundParts
<1>2. /\ Insert(d.layer, l, r) \in Rows /\ Placed(Insert(d.layer, l, r), b)
      /\ DOMAIN Insert(d.layer, l, r) = DOMAIN d.layer \cup {l}
  BY <1>1, InsertStacks DEF Ids, Size
<1> QED
  BY <1>2, LayersReplaced DEF AddLayer, Ids

LEMMA AddGood ==
  ASSUME NEW d, Good(d), NEW l \in Layers \ Ids(d), NEW r \in LayerRecords, r.at \in 0..Size(d)
  PROVE  /\ Good(AddLayer(d, l, r)) /\ Ids(AddLayer(d, l, r)) = Ids(d) \cup {l}
BY GoodSound, AddSound

(* What is numbered is in a row, whatever it was before.                   *)
LEMMA RemoveSound ==
  ASSUME NEW b \in BOOLEAN, NEW d, Sound(d, b), NEW l \in Ids(d)
  PROVE  /\ Good(RemoveLayer(d, l)) /\ Ids(RemoveLayer(d, l)) = Ids(d) \ {l}
<1> DEFINE f == Compact(Without(d.layer, {l}))
           t == [g \in DOMAIN d.group |-> [d.group[g] EXCEPT !.layers = @ \ {l}]]
           a == IF d.active = l THEN None ELSE d.active
<1>1. d.layer \in Rows /\ Distinct(d.layer) /\ d.group \in Trees /\ d.active \in Layers \cup {None}
  BY SoundParts DEF Placed
<1>2. f \in Rows /\ DOMAIN f = DOMAIN d.layer \ {l} /\ InRow(f)
  BY <1>1, WithoutFacts, CompactStacks
<1>3. t \in Trees
  BY <1>1 DEF Trees, GroupRecords
<1>4. RemoveLayer(d, l) = [layer |-> f, group |-> t, active |-> a]
  BY DEF RemoveLayer
<1>5. a \in Layers \cup {None}
  BY <1>1
<1> HIDE DEF f, t, a
<1>6. Placed(f, FALSE)
  BY <1>2, RowPlaced
<1>7. Sound([layer |-> f, group |-> t, active |-> a], FALSE)
  BY <1>2, <1>3, <1>5, <1>6, MadeSound
<1> DEFINE e == [layer |-> f, group |-> t, active |-> a]
<1>8. e.layer = f
  OBVIOUS
<1>9. Sound(e, FALSE) /\ RemoveLayer(d, l) = e
  BY <1>4, <1>7
<1> HIDE DEF e
<1> QED
  BY <1>2, <1>8, <1>9, GoodSound DEF Ids

LEMMA RemoveGood ==
  ASSUME NEW d, Good(d), NEW l
  PROVE  /\ Good(RemoveLayer(d, l)) /\ Ids(RemoveLayer(d, l)) = Ids(d) \ {l}
<1>1. CASE l \notin Ids(d)
  BY <1>1 DEF RemoveLayer
<1>2. CASE l \in Ids(d)
  BY <1>2, GoodSound, RemoveSound
<1> QED
  BY <1>1, <1>2

LEMMA ReorderSound ==
  ASSUME NEW b \in BOOLEAN, NEW d, Sound(d, b), NEW l, NEW p \in Int, Moves(d, l, p)
  PROVE  /\ Good(ReorderLayer(d, l, p)) /\ Ids(ReorderLayer(d, l, p)) = Ids(d)
         /\ ReorderLayer(d, l, p).group = d.group /\ ReorderLayer(d, l, p).active = d.active
<1> DEFINE to == Clamped(d, p)
           f == Compact(Without(d.layer, {l}))
           r == [d.layer[l] EXCEPT !.at = to]
<1>1. /\ d.layer \in Rows /\ Distinct(d.layer) /\ l \in Ids(d)
      /\ DOMAIN d.layer \subseteq Layers /\ d.layer \in [DOMAIN d.layer -> LayerRecords]
  BY SoundParts, RowsFacts DEF Placed, Moves
<1>2. f \in Rows /\ DOMAIN f = DOMAIN d.layer \ {l} /\ InRow(f)
  BY <1>1, WithoutFacts, CompactStacks
<1>3. IsFiniteSet(Ids(d)) /\ Size(d) \in Nat
  BY <1>1, RowsFinite DEF Ids, Size
<1>4. Cardinality(DOMAIN f) = Size(d) - 1 /\ Cardinality(DOMAIN f) \in Nat
  <2>1. Cardinality(Ids(d) \ {l}) = Size(d) - 1
    BY <1>1, <1>3, FS_RemoveElement DEF Size
  <2>2. Cardinality(DOMAIN f) \in Nat
    BY <1>1, <1>2, RowsFinite
  <2> QED
    BY <1>2, <2>1, <2>2 DEF Ids
<1>5. to \in 0..Cardinality(DOMAIN f)
  BY <1>3, <1>4 DEF Clamped
<1>6. r \in LayerRecords /\ r.at = to
  <2>1. d.layer[l] \in LayerRecords
    BY <1>1 DEF Ids
  <2> QED
    BY <1>4, <1>5, <2>1, MovedTo
<1>7. l \in Layers \ DOMAIN f
  BY <1>1, <1>2 DEF Ids
<1>8. ReorderLayer(d, l, p) = [d EXCEPT !.layer = Insert(f, l, r)]
  BY DEF ReorderLayer
<1> HIDE DEF f, r, to
<1>9. /\ Insert(f, l, r) \in Rows /\ Placed(Insert(f, l, r), FALSE)
      /\ DOMAIN Insert(f, l, r) = DOMAIN d.layer
  <2>1. Placed(f, FALSE)
    BY <1>2, RowPlaced
  <2>2. /\ Insert(f, l, r) \in Rows /\ Placed(Insert(f, l, r), FALSE)
        /\ DOMAIN Insert(f, l, r) = DOMAIN f \cup {l}
    BY <1>2, <1>5, <1>6, <1>7, <2>1, InsertStacks
  <2> QED
    BY <2>2, <1>1, <1>2 DEF Ids
<1> DEFINE i == Insert(f, l, r)
<1>10. i \in Rows /\ Placed(i, FALSE) /\ DOMAIN i = DOMAIN d.layer
  BY <1>9
<1>11. ReorderLayer(d, l, p) = [d EXCEPT !.layer = i]
  BY <1>8
<1> HIDE DEF i
<1>12. /\ Sound([d EXCEPT !.layer = i], FALSE) /\ [d EXCEPT !.layer = i].layer = i
       /\ [d EXCEPT !.layer = i].group = d.group /\ [d EXCEPT !.layer = i].active = d.active
  BY <1>10, LayersReplaced
<1> QED
  BY <1>10, <1>11, <1>12, GoodSound DEF Ids

LEMMA ReorderGood ==
  ASSUME NEW d, Good(d), NEW l, NEW p \in Int
  PROVE  /\ Good(ReorderLayer(d, l, p)) /\ Ids(ReorderLayer(d, l, p)) = Ids(d)
         /\ ReorderLayer(d, l, p).group = d.group /\ ReorderLayer(d, l, p).active = d.active
<1>1. CASE Moves(d, l, p)
  BY <1>1, GoodSound, ReorderSound
<1>2. CASE ~Moves(d, l, p)
  BY <1>2 DEF ReorderLayer
<1> QED
  BY <1>1, <1>2

(* The layer a patch is merged into, where it came to lie.                 *)
PatchBase(d, l, r) == IF r.at = d.layer[l].at THEN d ELSE ReorderLayer(d, l, r.at)

LEMMA PatchSound ==
  ASSUME NEW b \in BOOLEAN, NEW d, Sound(d, b), NEW l \in Ids(d), NEW r \in LayerRecords,
         NEW c \in BOOLEAN, Sound(PatchBase(d, l, r), c), Ids(PatchBase(d, l, r)) = Ids(d)
  PROVE  /\ Sound(UpdateLayer(d, l, r), c) /\ Ids(UpdateLayer(d, l, r)) = Ids(d)
<1> DEFINE e == PatchBase(d, l, r)
           f == [k \in Ids(d) |-> IF k = l THEN [r EXCEPT !.at = e.layer[l].at] ELSE e.layer[k]]
<1>2. /\ e.layer \in Rows /\ Placed(e.layer, c) /\ DOMAIN e.layer = Ids(d)
      /\ e.layer \in [Ids(d) -> LayerRecords]
  BY SoundParts, RowsFacts DEF Ids
<1>3. UpdateLayer(d, l, r) = [e EXCEPT !.layer = f]
  BY DEF UpdateLayer, PatchBase
<1> HIDE DEF e
<1>4. e.layer[l].at \in Int
  BY <1>2 DEF LayerRecords
<1>5. /\ [r EXCEPT !.at = e.layer[l].at] \in LayerRecords
      /\ [r EXCEPT !.at = e.layer[l].at].at = e.layer[l].at
  BY <1>4, MovedTo
<1>6. f \in [Ids(d) -> LayerRecords] /\ \A k \in Ids(d) : f[k].at = e.layer[k].at
  BY <1>2, <1>5
<1>7. DOMAIN f = Ids(d)
  OBVIOUS
<1> HIDE DEF f
<1>8. f \in Rows /\ Placed(f, c)
  BY <1>2, <1>6, <1>7, SamePlaces
<1>9. Sound(e, c)
  BY DEF e
<1> QED
  BY <1>3, <1>7, <1>8, <1>9, LayersReplaced DEF Ids

LEMMA UpdateSound ==
  ASSUME NEW b \in BOOLEAN, NEW d, Sound(d, b), NEW l \in Ids(d), NEW r \in LayerRecords
  PROVE  /\ Sound(UpdateLayer(d, l, r), b)
         /\ (r.at # d.layer[l].at /\ Moves(d, l, r.at) => Sound(UpdateLayer(d, l, r), FALSE))
         /\ Ids(UpdateLayer(d, l, r)) = Ids(d)
<1>1. r.at \in Int
  BY DEF LayerRecords
<1>2. CASE r.at # d.layer[l].at /\ Moves(d, l, r.at)
  <2>1. PatchBase(d, l, r) = ReorderLayer(d, l, r.at)
    BY <1>2 DEF PatchBase
  <2>2. Good(PatchBase(d, l, r)) /\ Ids(PatchBase(d, l, r)) = Ids(d)
    BY <1>1, <1>2, <2>1, ReorderSound
  <2>3. Sound(PatchBase(d, l, r), FALSE) /\ Sound(PatchBase(d, l, r), b)
    BY <2>2, GoodIsSound
  <2> QED
    BY <2>2, <2>3, PatchSound
<1>3. CASE ~(r.at # d.layer[l].at /\ Moves(d, l, r.at))
  <2>1. PatchBase(d, l, r) = d
    BY <1>3 DEF PatchBase, ReorderLayer
  <2> QED
    BY <1>3, <2>1, PatchSound
<1> QED
  BY <1>2, <1>3

LEMMA UpdateGood ==
  ASSUME NEW d, Good(d), NEW l, NEW r \in LayerRecords
  PROVE  /\ Good(UpdateLayer(d, l, r)) /\ Ids(UpdateLayer(d, l, r)) = Ids(d)
<1>1. CASE l \notin Ids(d)
  BY <1>1 DEF UpdateLayer
<1>2. CASE l \in Ids(d)
  BY <1>2, GoodSound, UpdateSound
<1> QED
  BY <1>1, <1>2

LEMMA DuplicateSound ==
  ASSUME NEW b \in BOOLEAN, NEW d, Sound(d, b), NEW l \in Ids(d), NEW new \in Layers \ Ids(d)
  PROVE  Sound(DuplicateLayer(d, l, new), b)
<1> DEFINE n == d.layer[l].at + 1
           r == [d.layer[l] EXCEPT !.at = n]
<1>1. d.layer \in [DOMAIN d.layer -> LayerRecords] /\ Size(d) \in Nat
  <2>1. d.layer \in Rows
    BY SoundParts
  <2> QED
    BY <2>1, RowsFacts, RowsFinite DEF Size, Ids
<1>2. d.layer[l] \in LayerRecords /\ d.layer[l].at \in Int
  BY <1>1 DEF Ids, LayerRecords
<1>3. n \in Int /\ (b \/ n \in 0..Size(d))
  <2>1. b \/ d.layer[l].at \in 0..(Size(d) - 1)
    BY DEF Sound, Stacked
  <2> QED
    BY <1>1, <1>2, <2>1
<1>4. r \in LayerRecords /\ r.at = n
  <2> HIDE DEF n
  <2> QED
    BY <1>2, <1>3, MovedTo
<1>5. DuplicateLayer(d, l, new) = AddLayer(d, new, r)
  BY DEF DuplicateLayer
<1> HIDE DEF n, r
<1> QED
  BY <1>3, <1>4, <1>5, AddSound

LEMMA RasterRow ==
  ASSUME NEW p \in Int, NEW v \in BOOLEAN
  PROVE  Raster(p, v) \in LayerRecords /\ Raster(p, v).at = p
BY DocumentParameters DEF Raster, LayerRecords

LEMMA MergeSound ==
  ASSUME NEW c \in BOOLEAN, NEW d, Sound(d, c), NEW l \in Ids(d), NEW b \in Ids(d),
         NEW new \in Layers \ Ids(d)
  PROVE  Good(MergeDown(d, l, b, new))
<1> DEFINE S == (Ids(d) \ {l, b}) \cup {new}
           r == Raster(d.layer[b].at, d.layer[b].visible)
           f == [k \in S |-> IF k = new THEN r ELSE d.layer[k]]
<1>1. /\ d.layer \in Rows /\ d.layer \in [Ids(d) -> LayerRecords] /\ Ids(d) \subseteq Layers
      /\ Distinct(d.layer)
  BY SoundParts, RowsFacts DEF Ids, Placed
<1>2. d.layer[b].at \in Int /\ d.layer[b].visible \in BOOLEAN
  BY <1>1 DEF LayerRecords
<1>3. r \in LayerRecords /\ r.at = d.layer[b].at
  BY <1>2, RasterRow
<1>4. MergeDown(d, l, b, new) = [d EXCEPT !.layer = Compact(f)]
  BY DEF MergeDown
<1> HIDE DEF r
<1>5. DOMAIN f = S /\ f \in [S -> LayerRecords] /\ S \subseteq Layers
  BY <1>1, <1>3
<1>6. f \in Rows
  BY <1>5, RowsFacts
<1>7. Distinct(f)
  <2>1. f[new].at = d.layer[b].at /\ \A k \in Ids(d) \ {l, b} : f[k].at = d.layer[k].at
    BY <1>3
  <2>2. \A j, k \in Ids(d) : d.layer[j].at = d.layer[k].at => j = k
    BY <1>1 DEF Distinct, Ids
  <2>3. DOMAIN f = (Ids(d) \ {l, b}) \cup {new}
    OBVIOUS
  <2> HIDE DEF f, S
  <2> QED
    BY <2>1, <2>2, <2>3 DEF Distinct
<1> HIDE DEF f
<1>8. Compact(f) \in Rows /\ Placed(Compact(f), FALSE)
  BY <1>6, <1>7, CompactStacks, RowPlaced
<1>9. Sound([d EXCEPT !.layer = Compact(f)], FALSE)
  BY <1>8, LayersReplaced
<1> QED
  BY <1>4, <1>9, GoodSound

LEMMA FlattenSound ==
  ASSUME NEW b \in BOOLEAN, NEW d, Sound(d, b), NEW new \in Layers \ Ids(d)
  PROVE  Good(FlattenVisible(d, new))
<1> DEFINE f == Compact(Without(d.layer, VisiblePaint(d)))
           r == Raster(0, TRUE)
<1>1. d.layer \in Rows /\ Distinct(d.layer)
  BY SoundParts DEF Placed
<1>2. f \in Rows /\ DOMAIN f = DOMAIN d.layer \ VisiblePaint(d) /\ Placed(f, FALSE)
  BY <1>1, WithoutFacts, CompactStacks, RowPlaced
<1>3. r \in LayerRecords /\ r.at = 0
  <2>1. 0 \in Int /\ TRUE \in BOOLEAN
    OBVIOUS
  <2> QED
    BY <2>1, RasterRow
<1>4. r.at \in 0..Cardinality(DOMAIN f)
  <2>1. Cardinality(DOMAIN f) \in Nat
    BY <1>2, RowsFacts, RowsFinite
  <2> HIDE DEF f, r
  <2> QED
    BY <1>3, <2>1
<1>5. new \in Layers \ DOMAIN f
  BY <1>2 DEF Ids
<1>6. FlattenVisible(d, new) = [d EXCEPT !.layer = Insert(f, new, r)]
  BY DEF FlattenVisible
<1> HIDE DEF f, r
<1>7. Insert(f, new, r) \in Rows /\ Placed(Insert(f, new, r), FALSE)
  BY <1>2, <1>3, <1>4, <1>5, InsertStacks
<1>8. Sound([d EXCEPT !.layer = Insert(f, new, r)], FALSE)
  BY <1>7, LayersReplaced
<1> QED
  BY <1>6, <1>8, GoodSound

LEMMA ActivateSound ==
  ASSUME NEW b \in BOOLEAN, NEW d, Sound(d, b), NEW l \in Layers \cup {None}
  PROVE  Sound(SetActiveLayer(d, l), b)
<1>1. d = [layer |-> d.layer, group |-> d.group, active |-> d.active]
      /\ d.layer \in Rows /\ Placed(d.layer, b) /\ d.group \in Trees
  BY SoundParts
<1>2. [d EXCEPT !.active = l] = [layer |-> d.layer, group |-> d.group, active |-> l]
  BY <1>1
<1>3. Sound([d EXCEPT !.active = l], b)
  BY <1>1, <1>2, MadeSound
<1> QED
  BY <1>3 DEF SetActiveLayer

(* Layers enter and leave groups where they lie.                           *)
LEMMA InGroupStacks ==
  ASSUME NEW b \in BOOLEAN, NEW f \in Rows, Placed(f, b), NEW ls, NEW g \in Groups \cup {None}
  PROVE  InGroup(f, ls, g) \in Rows /\ Placed(InGroup(f, ls, g), b)
<1> DEFINE h == InGroup(f, ls, g)
<1>1. f \in [DOMAIN f -> LayerRecords]
  BY RowsFacts
<1>2. \A k \in DOMAIN f : [f[k] EXCEPT !.group = g] \in LayerRecords
                          /\ [f[k] EXCEPT !.group = g].at = f[k].at
  BY <1>1 DEF LayerRecords
<1>3. DOMAIN h = DOMAIN f /\ h \in [DOMAIN f -> LayerRecords]
      /\ \A k \in DOMAIN f : h[k].at = f[k].at
  BY <1>1, <1>2 DEF InGroup
<1> HIDE DEF h
<1>4. h \in Rows /\ Placed(h, b)
  BY <1>3, SamePlaces
<1> QED
  BY <1>4 DEF h

(* Both halves of a document replaced.                                     *)
LEMMA RegroupedSound ==
  ASSUME NEW b \in BOOLEAN, NEW d, Sound(d, b), NEW f \in Rows, Placed(f, b), NEW t \in Trees
  PROVE  Sound([layer |-> f, group |-> t, active |-> d.active], b)
BY SoundParts, MadeSound

LEMMA TreeFacts ==
  ASSUME NEW t
  PROVE  t \in Trees <=> DOMAIN t \subseteq Groups /\ t \in [DOMAIN t -> GroupRecords]
BY DEF Trees

LEMMA CreateGroupSound ==
  ASSUME NEW b \in BOOLEAN, NEW d, Sound(d, b), NEW g \in Groups, NEW ls \in SUBSET Layers, NEW p \in Groups \cup {None}
  PROVE  Sound(CreateGroup(d, g, ls, p), b)
<1> DEFINE t == [h \in DOMAIN d.group \cup {g} |->
                   IF h = g THEN [parent |-> p, layers |-> ls, groups |-> {}]
                   ELSE IF h = p THEN [d.group[h] EXCEPT !.groups = @ \cup {g}]
                   ELSE d.group[h]]
           f == InGroup(d.layer, ls, g)
<1>1. d.layer \in Rows /\ Placed(d.layer, b) /\ d.group \in Trees
  BY SoundParts
<1>2. DOMAIN d.group \subseteq Groups /\ d.group \in [DOMAIN d.group -> GroupRecords]
  BY <1>1, TreeFacts
<1>3. /\ [parent |-> p, layers |-> ls, groups |-> {}] \in GroupRecords
      /\ \A h \in DOMAIN d.group : [d.group[h] EXCEPT !.groups = @ \cup {g}] \in GroupRecords
  BY <1>2 DEF GroupRecords
<1>4. t \in [DOMAIN t -> GroupRecords] /\ DOMAIN t \subseteq Groups
  BY <1>2, <1>3
<1>5. f \in Rows /\ Placed(f, b)
  BY <1>1, InGroupStacks
<1>6. CreateGroup(d, g, ls, p) = [layer |-> f, group |-> t, active |-> d.active]
  BY DEF CreateGroup
<1> HIDE DEF t, f
<1>7. t \in Trees
  BY <1>4, TreeFacts
<1> QED
  BY <1>5, <1>6, <1>7, RegroupedSound

LEMMA UpdateGroupSound ==
  ASSUME NEW b \in BOOLEAN, NEW d, Sound(d, b), NEW g, NEW p \in Groups \cup {None}
  PROVE  Sound(UpdateGroup(d, g, p), b)
<1> DEFINE t == [d.group EXCEPT ![g].parent = p]
<1>1. DOMAIN d.group \subseteq Groups /\ d.group \in [DOMAIN d.group -> GroupRecords]
  BY SoundParts, TreeFacts
<1>2. \A h \in DOMAIN d.group : [d.group[h] EXCEPT !.parent = p] \in GroupRecords
  BY <1>1 DEF GroupRecords
<1>3. DOMAIN t = DOMAIN d.group /\ t \in [DOMAIN d.group -> GroupRecords]
  BY <1>1, <1>2
<1>4. UpdateGroup(d, g, p) = [d EXCEPT !.group = t]
  BY DEF UpdateGroup
<1> HIDE DEF t
<1> QED
  BY <1>1, <1>3, <1>4, TreeFacts, GroupsReplaced

LEMMA UngroupSound ==
  ASSUME NEW b \in BOOLEAN, NEW d, Sound(d, b), NEW g \in DOMAIN d.group
  PROVE  Sound(Ungroup(d, g), b)
<1> DEFINE old == d.group[g]
           t == [h \in DOMAIN d.group \ {g} |->
                   IF h \in old.groups THEN [d.group[h] EXCEPT !.parent = old.parent]
                   ELSE IF h = old.parent THEN [d.group[h] EXCEPT !.groups = (@ \ {g}) \cup old.groups]
                   ELSE d.group[h]]
           f == InGroup(d.layer, old.layers, None)
<1>1. d.layer \in Rows /\ Placed(d.layer, b) /\ d.group \in Trees
  BY SoundParts
<1>2. DOMAIN d.group \subseteq Groups /\ d.group \in [DOMAIN d.group -> GroupRecords]
  BY <1>1, TreeFacts
<1>3. old \in GroupRecords
  BY <1>2
<1>4. Ungroup(d, g) = [layer |-> f, group |-> t, active |-> d.active]
  BY DEF Ungroup
<1> HIDE DEF old
<1>5. \A h \in DOMAIN d.group :
        /\ [d.group[h] EXCEPT !.parent = old.parent] \in GroupRecords
        /\ [d.group[h] EXCEPT !.groups = (@ \ {g}) \cup old.groups] \in GroupRecords
  BY <1>2, <1>3 DEF GroupRecords
<1>6. t \in [DOMAIN t -> GroupRecords] /\ DOMAIN t \subseteq Groups
  BY <1>2, <1>5
<1>7. f \in Rows /\ Placed(f, b)
  BY <1>1, InGroupStacks
<1> HIDE DEF t, f
<1>8. t \in Trees
  BY <1>6, TreeFacts
<1> QED
  BY <1>4, <1>7, <1>8, RegroupedSound

LEMMA MoveSound ==
  ASSUME NEW b \in BOOLEAN, NEW d, Sound(d, b), NEW g \in DOMAIN d.group, NEW ls \in SUBSET Layers
  PROVE  Sound(MoveLayersIntoGroup(d, g, ls), b)
<1> DEFINE t == [h \in DOMAIN d.group |->
                   [d.group[h] EXCEPT !.layers = IF h = g THEN @ \cup ls ELSE @ \ ls]]
           f == InGroup(d.layer, ls, g)
<1>1. d.layer \in Rows /\ Placed(d.layer, b) /\ d.group \in Trees
  BY SoundParts
<1>2. DOMAIN d.group \subseteq Groups /\ d.group \in [DOMAIN d.group -> GroupRecords]
  BY <1>1, TreeFacts
<1>3. \A h \in DOMAIN d.group :
        [d.group[h] EXCEPT !.layers = IF h = g THEN @ \cup ls ELSE @ \ ls] \in GroupRecords
  BY <1>2 DEF GroupRecords
<1>4. t \in [DOMAIN t -> GroupRecords] /\ DOMAIN t \subseteq Groups
  BY <1>2, <1>3
<1>5. f \in Rows /\ Placed(f, b)
  BY <1>1, <1>2, InGroupStacks
<1>6. MoveLayersIntoGroup(d, g, ls) = [layer |-> f, group |-> t, active |-> d.active]
  BY DEF MoveLayersIntoGroup
<1> HIDE DEF t, f
<1>7. t \in Trees
  BY <1>4, TreeFacts
<1> QED
  BY <1>5, <1>6, <1>7, RegroupedSound

LEMMA TakeOutSound ==
  ASSUME NEW b \in BOOLEAN, NEW d, Sound(d, b), NEW l
  PROVE  Sound(RemoveLayerFromGroup(d, l), b)
<1> DEFINE t == [h \in DOMAIN d.group |->
                   IF h = d.layer[l].group THEN [d.group[h] EXCEPT !.layers = @ \ {l}]
                   ELSE d.group[h]]
           f == InGroup(d.layer, {l}, None)
<1>1. d.layer \in Rows /\ Placed(d.layer, b) /\ d.group \in Trees
  BY SoundParts
<1>2. DOMAIN d.group \subseteq Groups /\ d.group \in [DOMAIN d.group -> GroupRecords]
  BY <1>1, TreeFacts
<1>3. \A h \in DOMAIN d.group : [d.group[h] EXCEPT !.layers = @ \ {l}] \in GroupRecords
  BY <1>2 DEF GroupRecords
<1>4. t \in [DOMAIN t -> GroupRecords] /\ DOMAIN t \subseteq Groups
  BY <1>2, <1>3
<1>5. f \in Rows /\ Placed(f, b)
  BY <1>1, InGroupStacks
<1>6. RemoveLayerFromGroup(d, l) = [layer |-> f, group |-> t, active |-> d.active]
  BY DEF RemoveLayerFromGroup
<1> HIDE DEF t, f
<1>7. t \in Trees
  BY <1>4, TreeFacts
<1> QED
  BY <1>5, <1>6, <1>7, RegroupedSound

-----------------------------------------------------------------------------
(* A host.                                                                 *)

LEMMA HostKeepsSound ==
  ASSUME loose \in BOOLEAN, Sound(doc, loose), [HostNext]_host
  PROVE  loose' \in BOOLEAN /\ Sound(doc', loose')
<1>1. /\ doc.layer \in Rows /\ doc.layer \in [Ids(doc) -> LayerRecords]
      /\ Ids(doc) \subseteq Layers
  BY SoundParts, RowsFacts DEF Ids
<1>0. Places \subseteq Int
  BY HostParameters
<1>2. ASSUME NEW l \in Layers, NEW p \in Places, NEW k \in {"paint", "mask"}, HostAdd(l, k, p)
      PROVE  loose' \in BOOLEAN /\ Sound(doc', loose')
  <2> DEFINE r == [Raster(p, TRUE) EXCEPT !.kind = k]
  <2>1. /\ l \in Layers \ Ids(doc) /\ doc' = AddLayer(doc, l, r)
        /\ loose' = (loose \/ p \notin 0..Size(doc))
    BY <1>2 DEF HostAdd, FreshLayer
  <2>2. r \in LayerRecords /\ r.at = p
    BY <1>0, DocumentParameters DEF Raster, LayerRecords
  <2>3. Sound(doc, loose') /\ loose' \in BOOLEAN
    BY <2>1 DEF Sound
  <2>4. loose' \/ r.at \in 0..Size(doc)
    BY <2>1, <2>2
  <2> HIDE DEF r
  <2> QED
    BY <2>1, <2>2, <2>3, <2>4, AddSound
<1>3. ASSUME NEW l \in Layers, NEW p \in Places, HostReorder(l, p)
      PROVE  loose' \in BOOLEAN /\ Sound(doc', loose')
  BY <1>0, <1>3, ReorderSound, GoodSound DEF HostReorder, Renumbered
<1>4. ASSUME NEW l \in Layers, NEW p \in Places, NEW v \in BOOLEAN, HostUpdate(l, p, v)
      PROVE  loose' \in BOOLEAN /\ Sound(doc', loose')
  <2> DEFINE r == [doc.layer[l] EXCEPT !.at = p, !.visible = v]
  <2>1. /\ l \in Ids(doc) /\ doc.layer[l] \in LayerRecords /\ doc' = UpdateLayer(doc, l, r)
        /\ IF p # doc.layer[l].at /\ Moves(doc, l, p) THEN loose' = FALSE ELSE loose' = loose
    BY <1>1, <1>4 DEF HostUpdate, Becomes, Renumbered
  <2>2. r \in LayerRecords /\ r.at = p
    BY <1>0, <2>1 DEF LayerRecords
  <2> HIDE DEF r
  <2> QED
    BY <2>1, <2>2, UpdateSound
<1>5. ASSUME NEW l \in Layers, HostRemove(l)
      PROVE  loose' \in BOOLEAN /\ Sound(doc', loose')
  BY <1>5, RemoveSound, GoodSound DEF HostRemove, Renumbered
<1>6. ASSUME NEW l \in Layers, HostFlatten(l)
      PROVE  loose' \in BOOLEAN /\ Sound(doc', loose')
  BY <1>6, FlattenSound, GoodSound DEF HostFlatten, Renumbered, FreshLayer
<1>7. ASSUME NEW l \in Layers, HostTakeOut(l)
      PROVE  loose' \in BOOLEAN /\ Sound(doc', loose')
  BY <1>7, TakeOutSound DEF HostTakeOut, Becomes
<1>8. ASSUME NEW l \in Layers \cup {None}, HostActivate(l)
      PROVE  loose' \in BOOLEAN /\ Sound(doc', loose')
  BY <1>8, ActivateSound DEF HostActivate, Becomes
<1>9. ASSUME NEW l \in Layers, NEW new \in Layers, HostDuplicate(l, new)
      PROVE  loose' \in BOOLEAN /\ Sound(doc', loose')
  BY <1>9, DuplicateSound DEF HostDuplicate, Becomes, FreshLayer
<1>10. ASSUME NEW l \in Layers, NEW new \in Layers, NEW b \in Layers, HostMerge(l, b, new)
       PROVE  loose' \in BOOLEAN /\ Sound(doc', loose')
  BY <1>10, MergeSound, GoodSound DEF HostMerge, Renumbered, FreshLayer, Beneath
<1>11. ASSUME NEW l \in Layers, NEW g \in Groups, HostRegroup(l, g)
       PROVE  loose' \in BOOLEAN /\ Sound(doc', loose')
  <2> DEFINE r == [doc.layer[l] EXCEPT !.group = g]
  <2>1. l \in Ids(doc) /\ doc.layer[l] \in LayerRecords /\ doc' = UpdateLayer(doc, l, r) /\ loose' = loose
    BY <1>1, <1>11 DEF HostRegroup, Becomes
  <2>2. r \in LayerRecords
    BY <2>1 DEF LayerRecords
  <2> HIDE DEF r
  <2> QED
    BY <2>1, <2>2, UpdateSound
<1>12. ASSUME NEW g \in Groups, NEW p \in Groups \cup {None}, HostReparent(g, p)
       PROVE  loose' \in BOOLEAN /\ Sound(doc', loose')
  BY <1>12, UpdateGroupSound DEF HostReparent, Becomes
<1>13. ASSUME NEW g \in Groups, NEW p \in Groups \cup {None}, HostGroup(g, p)
       PROVE  loose' \in BOOLEAN /\ Sound(doc', loose')
  <2>1. PICK ls \in SUBSET Ids(doc) : doc' = CreateGroup(doc, g, ls, p) /\ loose' = loose
    BY <1>13 DEF HostGroup, Becomes
  <2> QED
    BY <1>1, <2>1, CreateGroupSound
<1>14. ASSUME NEW g \in Groups, HostUngroup(g)
       PROVE  loose' \in BOOLEAN /\ Sound(doc', loose')
  BY <1>14, UngroupSound DEF HostUngroup, Becomes
<1>15. ASSUME NEW g \in Groups, HostMove(g)
       PROVE  loose' \in BOOLEAN /\ Sound(doc', loose')
  <2>1. PICK ls \in SUBSET Ids(doc) :
          g \in DOMAIN doc.group /\ doc' = MoveLayersIntoGroup(doc, g, ls) /\ loose' = loose
    BY <1>15 DEF HostMove, Becomes
  <2> QED
    BY <1>1, <2>1, MoveSound
<1>16. CASE UNCHANGED host
  BY <1>16 DEF host
<1> QED
  BY <1>2, <1>3, <1>4, <1>5, <1>6, <1>7, <1>8, <1>9, <1>10, <1>11, <1>12, <1>13, <1>14, <1>15,
     <1>16 DEF HostNext

LEMMA HostSound == HostSpec => [](loose \in BOOLEAN /\ Sound(doc, loose))
<1> DEFINE Holds == loose \in BOOLEAN /\ Sound(doc, loose)
<1>1. HostInit => Holds
  BY EmptyGood, GoodIsSound DEF HostInit
<1>2. Holds /\ [HostNext]_host => Holds'
  BY HostKeepsSound DEF Sound, IsDocument, Apart, Stacked, Ids, Size
<1> QED
  BY <1>1, <1>2, PTL DEF HostSpec

(* Whatever a host calls, in any order, with any positions and for any     *)
(* number of layers and groups, no two layers share a position, and        *)
(* positions are 0, 1, ... without a gap from the next operation on that   *)
(* numbers the layers.                                                     *)
THEOREM HostStacked == HostSpec => []PositionsStacked
<1>1. Sound(doc, loose) => PositionsStacked
  BY DEF Sound, PositionsStacked
<1> QED
  BY <1>1, HostSound, PTL

-----------------------------------------------------------------------------
(* The editor's document.                                                  *)

(* Every place of a stack is taken.                                        *)
LEMMA Filled ==
  ASSUME NEW d, Good(d), NEW p \in Nat, p < Size(d)
  PROVE  \E l \in Ids(d) : d.layer[l].at = p
<1> DEFINE n == Size(d)
           f == [k \in Ids(d) |-> d.layer[k].at]
           T == (0..(n - 1)) \ {p}
<1>1. /\ d.layer \in Rows /\ InRow(d.layer) /\ d.layer \in [Ids(d) -> LayerRecords]
      /\ Ids(d) \subseteq Layers
  BY GoodParts, RowsFacts DEF Ids
<1>2. IsFiniteSet(Ids(d)) /\ n \in Nat
  BY <1>1, RowsFinite DEF Size
<1>3. \A k \in Ids(d) : d.layer[k].at \in 0..(n - 1)
  BY <1>1 DEF InRow, Size, Ids
<1>5. \A j, k \in Ids(d) : f[j] = f[k] => j = k
  BY <1>1 DEF InRow, Distinct, Ids
<1>6. SUFFICES ASSUME \A l \in Ids(d) : d.layer[l].at # p
               PROVE  FALSE
  OBVIOUS
<1>7. IsFiniteSet(0..(n - 1)) /\ Cardinality(0..(n - 1)) = n
  <2>1. IsFiniteSet(0..(n - 1)) /\ Cardinality(0..(n - 1)) = IF 0 > n - 1 THEN 0 ELSE (n - 1) - 0 + 1
    <3> HIDE DEF n
    <3> QED
      BY <1>2, FS_Interval
  <2> HIDE DEF n
  <2> QED
    BY <2>1, <1>2
<1>8. IsFiniteSet(T) /\ Cardinality(T) = n - 1
  <2>1. p \in 0..(n - 1)
    BY <1>2
  <2> HIDE DEF n
  <2> QED
    BY <2>1, <1>7, FS_RemoveElement
<1>9. f \in [Ids(d) -> T]
  BY <1>2, <1>3, <1>6
<1>10. Cardinality(T) < Cardinality(Ids(d))
  BY <1>2, <1>8 DEF Size
<1> HIDE DEF f, T
<1> QED
  BY <1>2, <1>5, <1>8, <1>9, <1>10, FS_PigeonHole

LEMMA Sized ==
  ASSUME NEW d, Good(d)
  PROVE  Size(d) \in Nat /\ IsFiniteSet(Ids(d)) /\ Ids(d) \subseteq Layers
         /\ (Ids(d) # {} => Size(d) > 0)
         /\ d.layer \in [Ids(d) -> LayerRecords]
<1>1. Ids(d) \subseteq Layers /\ d.layer \in [Ids(d) -> LayerRecords]
  BY GoodParts, RowsFacts DEF Ids
<1>2. IsFiniteSet(Ids(d)) /\ Size(d) \in Nat
  BY <1>1, RowsFinite DEF Size
<1>3. Size(d) = 0 => Ids(d) = {}
  BY <1>2, FS_EmptySet DEF Size
<1> QED
  BY <1>1, <1>2, <1>3

LEMMA Ends ==
  ASSUME NEW d, Good(d), Ids(d) # {}
  PROVE  Bottom(d) \in Ids(d) /\ Top(d) \in Ids(d)
<1>1. Size(d) \in Nat /\ Size(d) > 0
  BY Sized
<1>2. 0 \in Nat /\ 0 < Size(d) /\ Size(d) - 1 \in Nat /\ Size(d) - 1 < Size(d)
  BY <1>1
<1>3. \E l \in Ids(d) : d.layer[l].at = 0
  BY <1>2, Filled
<1>4. \E l \in Ids(d) : d.layer[l].at = Size(d) - 1
  BY <1>2, Filled
<1> QED
  BY <1>3, <1>4 DEF Bottom, Top

(* No operation that moves layers touches what they carry.                 *)
Carry(f, g, S) == \A k \in S : g[k].opacity = f[k].opacity /\ g[k].group = f[k].group

LEMMA CompactCarries == ASSUME NEW f \in Rows PROVE Carry(f, Compact(f), DOMAIN f)
<1>1. \A k \in DOMAIN f : f[k] \in LayerRecords
  BY RowsFacts
<1>2. \A k \in DOMAIN f : Compact(f)[k] =
         [f[k] EXCEPT !.at = Cardinality({j \in DOMAIN f : f[j].at < f[k].at})]
  BY DEF Compact
<1>3. ASSUME NEW k \in DOMAIN f
      PROVE  Compact(f)[k].opacity = f[k].opacity /\ Compact(f)[k].group = f[k].group
  <2> DEFINE n == Cardinality({j \in DOMAIN f : f[j].at < f[k].at})
  <2>1. Compact(f)[k] = [f[k] EXCEPT !.at = n] /\ f[k] \in LayerRecords
    BY <1>1, <1>2
  <2> HIDE DEF n
  <2> QED
    BY <2>1 DEF LayerRecords
<1> QED
  BY <1>3 DEF Carry

LEMMA InsertCarries ==
  ASSUME NEW f \in Rows, NEW l, l \notin DOMAIN f, NEW r
  PROVE  Carry(f, Insert(f, l, r), DOMAIN f) /\ Insert(f, l, r)[l] = r
<1>1. \A k \in DOMAIN f : f[k] \in LayerRecords /\ k # l
  BY RowsFacts
<1>2. \A k \in DOMAIN f : Insert(f, l, r)[k] = IF f[k].at >= r.at THEN [f[k] EXCEPT !.at = f[k].at + 1] ELSE f[k]
  BY <1>1 DEF Insert
<1>3. \A k \in DOMAIN f : /\ [f[k] EXCEPT !.at = f[k].at + 1].opacity = f[k].opacity
                           /\ [f[k] EXCEPT !.at = f[k].at + 1].group = f[k].group
  BY <1>1 DEF LayerRecords
<1>4. Insert(f, l, r)[l] = r
  BY DEF Insert
<1> QED
  BY <1>2, <1>3, <1>4 DEF Carry

LEMMA AddCarries ==
  ASSUME NEW d, Good(d), NEW l, l \notin Ids(d), NEW r
  PROVE  Carry(d.layer, AddLayer(d, l, r).layer, Ids(d)) /\ AddLayer(d, l, r).layer[l] = r
<1>1. d = [layer |-> d.layer, group |-> d.group, active |-> d.active] /\ d.layer \in Rows
  BY GoodParts
<1>2. AddLayer(d, l, r).layer = Insert(d.layer, l, r)
  BY <1>1 DEF AddLayer
<1> QED
  BY <1>1, <1>2, InsertCarries DEF Ids

LEMMA WithoutCompactCarries ==
  ASSUME NEW d, Good(d), NEW l
  PROVE  /\ Compact(Without(d.layer, {l})) \in Rows
         /\ DOMAIN Compact(Without(d.layer, {l})) = Ids(d) \ {l}
         /\ Carry(d.layer, Compact(Without(d.layer, {l})), Ids(d) \ {l})
<1> DEFINE w == Without(d.layer, {l})
<1>1. d.layer \in Rows /\ Distinct(d.layer)
  BY GoodParts, RowDistinct
<1>2. /\ w \in Rows /\ DOMAIN w = Ids(d) \ {l} /\ Distinct(w)
      /\ \A k \in Ids(d) \ {l} : w[k] = d.layer[k]
  BY <1>1, WithoutFacts DEF Ids
<1> HIDE DEF w
<1>3. Compact(w) \in Rows /\ DOMAIN Compact(w) = DOMAIN w /\ Carry(w, Compact(w), DOMAIN w)
  BY <1>2, CompactStacks, CompactCarries
<1>4. Carry(d.layer, Compact(w), Ids(d) \ {l})
  BY <1>2, <1>3 DEF Carry
<1> QED
  BY <1>2, <1>3, <1>4 DEF w

LEMMA RemoveCarries ==
  ASSUME NEW d, Good(d), NEW l
  PROVE  Carry(d.layer, RemoveLayer(d, l).layer, Ids(d) \ {l})
<1>1. CASE l \notin Ids(d)
  BY <1>1 DEF RemoveLayer, Carry
<1>2. CASE l \in Ids(d)
  <2>1. RemoveLayer(d, l).layer = Compact(Without(d.layer, {l}))
    BY <1>2 DEF RemoveLayer
  <2> QED
    BY <2>1, WithoutCompactCarries
<1> QED
  BY <1>1, <1>2

LEMMA ReorderCarries ==
  ASSUME NEW d, Good(d), NEW l, NEW p
  PROVE  Carry(d.layer, ReorderLayer(d, l, p).layer, Ids(d))
<1> DEFINE to == Clamped(d, p)
           f == Compact(Without(d.layer, {l}))
           r == [d.layer[l] EXCEPT !.at = to]
<1>1. CASE ~Moves(d, l, p)
  BY <1>1 DEF ReorderLayer, Carry
<1>2. CASE Moves(d, l, p)
  <2>1. d = [layer |-> d.layer, group |-> d.group, active |-> d.active]
        /\ l \in Ids(d) /\ d.layer[l] \in LayerRecords
    BY <1>2, GoodParts, Sized DEF Moves
  <2>2. f \in Rows /\ DOMAIN f = Ids(d) \ {l} /\ Carry(d.layer, f, Ids(d) \ {l})
    BY WithoutCompactCarries
  <2>3. ReorderLayer(d, l, p) = [d EXCEPT !.layer = Insert(f, l, r)]
    BY <1>2 DEF ReorderLayer
  <2> HIDE DEF f, to
  <2>4. r.opacity = d.layer[l].opacity /\ r.group = d.layer[l].group
    BY <2>1 DEF LayerRecords
  <2> HIDE DEF r
  <2>5. Carry(f, Insert(f, l, r), DOMAIN f) /\ Insert(f, l, r)[l] = r
    BY <2>2, InsertCarries
  <2>6. ReorderLayer(d, l, p).layer = Insert(f, l, r)
    BY <2>1, <2>3
  <2> QED
    BY <2>1, <2>2, <2>4, <2>5, <2>6 DEF Carry
<1> QED
  BY <1>1, <1>2

LEMMA UpdateCarries ==
  ASSUME NEW d, Good(d), NEW l \in Ids(d), NEW r \in LayerRecords
  PROVE  /\ Carry(d.layer, UpdateLayer(d, l, r).layer, Ids(d) \ {l})
         /\ UpdateLayer(d, l, r).layer[l].opacity = r.opacity
         /\ UpdateLayer(d, l, r).layer[l].group = r.group
<1> DEFINE e == PatchBase(d, l, r)
           f == [k \in Ids(d) |-> IF k = l THEN [r EXCEPT !.at = e.layer[l].at] ELSE e.layer[k]]
<1>1. Good(e) /\ Ids(e) = Ids(d) /\ Carry(d.layer, e.layer, Ids(d))
  <2>1. CASE r.at = d.layer[l].at
    BY <2>1 DEF PatchBase, Carry
  <2>2. CASE r.at # d.layer[l].at
    BY <2>2, ReorderGood, ReorderCarries DEF LayerRecords, PatchBase
  <2> QED
    BY <2>1, <2>2
<1>2. UpdateLayer(d, l, r) = [e EXCEPT !.layer = f]
  BY DEF UpdateLayer, PatchBase
<1> HIDE DEF e
<1>3. e = [layer |-> e.layer, group |-> e.group, active |-> e.active]
  BY <1>1, GoodParts
<1>4. LET s == [r EXCEPT !.at = e.layer[l].at] IN s.opacity = r.opacity /\ s.group = r.group
  BY DEF LayerRecords
<1>5. f[l].opacity = r.opacity /\ f[l].group = r.group /\ \A k \in Ids(d) \ {l} : f[k] = e.layer[k]
  BY <1>4
<1> HIDE DEF f
<1>6. UpdateLayer(d, l, r).layer = f
  BY <1>2, <1>3
<1> QED
  BY <1>1, <1>5, <1>6 DEF Carry

-----------------------------------------------------------------------------
(* The relations of a careful host's document.                             *)

(* The chain of a group is the least set that holds it and its parents.    *)
LEMMA ChainHolds ==
  ASSUME NEW d, d.group \in Trees, NEW g \in Groups
  PROVE  Chain(d, g) \subseteq Groups /\ g \in Chain(d, g) /\ Upward(d, Chain(d, g))
<1>1. Chain(d, g) \subseteq Groups /\ g \in Chain(d, g)
  BY DEF Chain
<1>2. ASSUME NEW h \in Chain(d, g) \cap DOMAIN d.group, d.group[h].parent # None
      PROVE  d.group[h].parent \in Chain(d, g)
  <2>1. d.group[h].parent \in Groups
    BY <1>2, TreeFacts DEF GroupRecords
  <2>2. ASSUME NEW S \in SUBSET Groups, g \in S, Upward(d, S)
        PROVE  d.group[h].parent \in S
    BY <1>2, <2>2 DEF Chain, Upward
  <2> QED
    BY <2>1, <2>2 DEF Chain
<1> QED
  BY <1>1, <1>2 DEF Upward

LEMMA ChainLeast ==
  ASSUME NEW d, NEW g, NEW S \in SUBSET Groups, g \in S, Upward(d, S)
  PROVE  Chain(d, g) \subseteq S
BY DEF Chain

LEMMA ChainFinite ==
  ASSUME NEW d, NEW g
  PROVE  IsFiniteSet(Chain(d, g)) /\ Cardinality(Chain(d, g)) \in Nat
<1>1. Chain(d, g) \subseteq Groups
  BY DEF Chain
<1> QED
  BY <1>1, DocumentParameters, FS_Subset, FS_CardinalityType

(* Lists, parents and roots.                                               *)
Members(d) ==
  /\ \A l \in Ids(d) : d.layer[l].group \in DOMAIN d.group \cup {None}
  /\ \A g \in DOMAIN d.group : d.group[g].layers = {l \in Ids(d) : d.layer[l].group = g}
Nested(d) ==
  \A g \in DOMAIN d.group :
    /\ d.group[g].groups = {h \in DOMAIN d.group : d.group[h].parent = g}
    /\ d.group[g].parent \in DOMAIN d.group \cup {None}
Rooted(d) == \A g \in DOMAIN d.group : ~Cyclic(d, g) /\ GroupDepth(d, g) < MaxDepth
Pointed(d) == d.active \in Ids(d) \cup {None}

Related(d) == Members(d) /\ Nested(d) /\ Rooted(d) /\ Pointed(d)

LEMMA RelatedSays == RelationsAgree <=> (caller = "careful" => Related(doc))
BY DEF RelationsAgree, Related, Members, Nested, Rooted, Pointed

(* Operations that leave the tree alone.                                   *)
SameTree(d, e) ==
  /\ DOMAIN e.group = DOMAIN d.group
  /\ \A g \in DOMAIN d.group :
       e.group[g].parent = d.group[g].parent /\ e.group[g].groups = d.group[g].groups

LEMMA TreeStands ==
  ASSUME NEW d, NEW e, SameTree(d, e), Nested(d), Rooted(d)
  PROVE  Nested(e) /\ Rooted(e)
<1>1. \A S : Upward(e, S) <=> Upward(d, S)
  BY DEF SameTree, Upward
<1>2. \A g : Chain(e, g) = Chain(d, g)
  BY <1>1 DEF Chain
<1>3. Nested(e)
  BY DEF SameTree, Nested
<1>4. \A g \in DOMAIN d.group : GroupDepth(e, g) = GroupDepth(d, g)
  BY <1>2 DEF GroupDepth
<1>5. \A g \in DOMAIN d.group : Cyclic(e, g) => Cyclic(d, g)
  BY <1>2 DEF Cyclic, SameTree
<1> QED
  BY <1>3, <1>4, <1>5 DEF Rooted, SameTree

(* Operations on layers: what is in a group stays, what is new is in none. *)
LEMMA LayersRelated ==
  ASSUME NEW d, Good(d), Related(d), NEW e, e.group = d.group,
         \A l \in Ids(d) : d.layer[l].group # None =>
           l \in Ids(e) /\ e.layer[l].group = d.layer[l].group,
         \A l \in Ids(e) : e.layer[l].group # None =>
           l \in Ids(d) /\ e.layer[l].group = d.layer[l].group,
         Pointed(e)
  PROVE  Related(e)
<1>1. Nested(e) /\ Rooted(e)
  BY TreeStands DEF SameTree, Related
<1>2. None \notin DOMAIN d.group
  BY DocumentParameters, GoodParts, TreeFacts
<1>3. Members(e)
  BY <1>2 DEF Related, Members
<1> QED
  BY <1>1, <1>3 DEF Related

LEMMA AddRelated ==
  ASSUME NEW d, Good(d), Related(d), NEW l, l \notin Ids(d), NEW r, r.group = None
  PROVE  Related(AddLayer(d, l, r))
<1> DEFINE e == AddLayer(d, l, r)
<1>1. d = [layer |-> d.layer, group |-> d.group, active |-> d.active]
  BY GoodParts
<1>2. e = [layer |-> Insert(d.layer, l, r), group |-> d.group, active |-> d.active]
  BY <1>1 DEF AddLayer
<1>3. Ids(e) = Ids(d) \cup {l}
  BY <1>2 DEF Ids, Insert
<1>4. Carry(d.layer, e.layer, Ids(d)) /\ e.layer[l] = r
  BY AddCarries
<1>5. e.group = d.group /\ e.active = d.active
  BY <1>2
<1> HIDE DEF e
<1>6. Pointed(e)
  BY <1>3, <1>5 DEF Related, Pointed
<1>7. Related(e)
  BY <1>3, <1>4, <1>5, <1>6, LayersRelated DEF Carry
<1> QED
  BY <1>7 DEF e

LEMMA ReorderRelated ==
  ASSUME NEW d, Good(d), Related(d), NEW l, NEW p \in Int
  PROVE  Related(ReorderLayer(d, l, p))
<1> DEFINE e == ReorderLayer(d, l, p)
<1>1. Ids(e) = Ids(d) /\ Carry(d.layer, e.layer, Ids(d))
  BY ReorderGood, ReorderCarries
<1>2. e.group = d.group /\ e.active = d.active
  <2>1. d = [layer |-> d.layer, group |-> d.group, active |-> d.active]
    BY GoodParts
  <2> QED
    BY <2>1 DEF ReorderLayer
<1> HIDE DEF e
<1>3. Related(e)
  BY <1>1, <1>2, LayersRelated DEF Carry, Related, Pointed
<1> QED
  BY <1>3 DEF e

LEMMA UpdateRelated ==
  ASSUME NEW d, Good(d), Related(d), NEW l \in Ids(d), NEW r \in LayerRecords,
         r.group = d.layer[l].group
  PROVE  Related(UpdateLayer(d, l, r))
<1> DEFINE e == UpdateLayer(d, l, r)
           o == PatchBase(d, l, r)
<1>1. Carry(d.layer, e.layer, Ids(d) \ {l}) /\ e.layer[l].group = r.group
  BY UpdateCarries
<1>2. Good(o) /\ o.group = d.group /\ o.active = d.active
  <2>1. CASE r.at = d.layer[l].at
    BY <2>1 DEF PatchBase
  <2>2. CASE r.at # d.layer[l].at
    BY <2>2, ReorderGood DEF LayerRecords, PatchBase
  <2> QED
    BY <2>1, <2>2
<1>3. Ids(e) = Ids(d) /\ e.group = d.group /\ e.active = d.active
  <2> HIDE DEF o
  <2>1. o = [layer |-> o.layer, group |-> o.group, active |-> o.active]
    BY <1>2, GoodParts
  <2>2. e = [o EXCEPT !.layer = [k \in Ids(d) |-> IF k = l THEN [r EXCEPT !.at = o.layer[l].at]
                                                  ELSE o.layer[k]]]
    BY DEF UpdateLayer, PatchBase, o
  <2> QED
    BY <1>2, <2>1, <2>2 DEF Ids
<1> HIDE DEF e
<1>4. Related(e)
  BY <1>1, <1>3, LayersRelated DEF Carry, Related, Pointed
<1> QED
  BY <1>4 DEF e

(* Layers outside every group give way to one.                             *)
LEMMA MergeRelated ==
  ASSUME NEW d, Good(d), Related(d), NEW l \in Ids(d), NEW b \in Ids(d), l # b,
         d.layer[l].group = None, d.layer[b].group = None, d.active \notin {l, b},
         NEW new \in Layers \ Ids(d)
  PROVE  Related(MergeDown(d, l, b, new))
<1> DEFINE s == Raster(d.layer[b].at, d.layer[b].visible)
           f == [k \in (Ids(d) \ {l, b}) \cup {new} |-> IF k = new THEN s ELSE d.layer[k]]
           e == MergeDown(d, l, b, new)
<1>1. d = [layer |-> d.layer, group |-> d.group, active |-> d.active]
      /\ Ids(d) \subseteq Layers /\ \A k \in Ids(d) : d.layer[k] \in LayerRecords
  BY GoodParts, RowsFacts DEF Ids
<1>2. s \in LayerRecords /\ s.group = None
  BY <1>1, RasterRow DEF Raster, LayerRecords
<1>3. e.layer = Compact(f) /\ e.group = d.group /\ e.active = d.active
  BY <1>1 DEF MergeDown
<1> HIDE DEF s
<1>4. f \in Rows /\ DOMAIN f = (Ids(d) \ {l, b}) \cup {new}
  BY <1>1, <1>2, RowsFacts
<1>5. f[new].group = None /\ \A k \in Ids(d) \ {l, b} : f[k].group = d.layer[k].group
  BY <1>2
<1> HIDE DEF f
<1>6. DOMAIN Compact(f) = DOMAIN f /\ Carry(f, Compact(f), DOMAIN f)
  BY <1>4, CompactCarries DEF Compact
<1>7. Ids(e) = (Ids(d) \ {l, b}) \cup {new}
  BY <1>3, <1>4, <1>6 DEF Ids
<1> HIDE DEF e
<1>8. Pointed(e)
  BY <1>3, <1>7 DEF Related, Pointed
<1>9. Related(e)
  BY <1>3, <1>4, <1>5, <1>6, <1>7, <1>8, LayersRelated DEF Carry
<1> QED
  BY <1>9 DEF e

LEMMA FlattenRelated ==
  ASSUME NEW d, Good(d), Related(d), NEW new \in Layers \ Ids(d),
         \A l \in VisiblePaint(d) : d.layer[l].group = None /\ d.active # l
  PROVE  Related(FlattenVisible(d, new))
<1> DEFINE v == VisiblePaint(d)
           w == Without(d.layer, v)
           f == Compact(w)
           e == FlattenVisible(d, new)
<1>1. d = [layer |-> d.layer, group |-> d.group, active |-> d.active]
      /\ d.layer \in Rows /\ Distinct(d.layer)
  BY GoodParts, RowDistinct
<1>2. e.layer = Insert(f, new, Raster(0, TRUE)) /\ e.group = d.group /\ e.active = d.active
  BY <1>1 DEF FlattenVisible
<1>3. /\ w \in Rows /\ DOMAIN w = Ids(d) \ v /\ Distinct(w)
      /\ \A k \in Ids(d) \ v : w[k] = d.layer[k]
  BY <1>1, WithoutFacts DEF Ids
<1> HIDE DEF w
<1>4. f \in Rows /\ DOMAIN f = DOMAIN w /\ Carry(w, f, DOMAIN w)
  BY <1>3, CompactStacks, CompactCarries
<1> HIDE DEF e, f
<1>5. new \notin DOMAIN f
  BY <1>3, <1>4
<1>6. /\ Carry(f, e.layer, DOMAIN w) /\ e.layer[new].group = None
      /\ Ids(e) = (Ids(d) \ v) \cup {new}
  <2> DEFINE r == Raster(0, TRUE)
             i == Insert(f, new, r)
  <2>0. r.group = None
    BY DEF Raster
  <2> HIDE DEF r
  <2>1. DOMAIN i = DOMAIN f \cup {new}
    BY DEF Insert
  <2>3. Carry(f, i, DOMAIN f) /\ i[new] = r
    BY <1>4, <1>5, InsertCarries
  <2>2. e.layer = i
    BY <1>2 DEF r
  <2> HIDE DEF i
  <2> QED
    BY <1>3, <1>4, <2>0, <2>1, <2>2, <2>3 DEF Ids
<1> HIDE DEF v
<1>7. \A l \in v : d.layer[l].group = None /\ d.active # l
  BY DEF v
<1>8. Pointed(e)
  BY <1>2, <1>6, <1>7 DEF Related, Pointed
<1>9. \A k \in Ids(d) \ v : e.layer[k].group = d.layer[k].group
  BY <1>3, <1>4, <1>6 DEF Carry
<1>10. \A k \in Ids(d) : d.layer[k].group # None => k \in Ids(d) \ v
  BY <1>7
<1>11. \A k \in Ids(e) : e.layer[k].group # None => k \in Ids(d) \ v
  BY <1>6
<1>12. /\ \A k \in Ids(d) : d.layer[k].group # None =>
             k \in Ids(e) /\ e.layer[k].group = d.layer[k].group
       /\ \A k \in Ids(e) : e.layer[k].group # None =>
             k \in Ids(d) /\ e.layer[k].group = d.layer[k].group
  BY <1>6, <1>9, <1>10, <1>11
<1>13. Related(e)
  BY <1>2, <1>8, <1>12, LayersRelated
<1> QED
  BY <1>13 DEF e

LEMMA RemoveRelated ==
  ASSUME NEW d, Good(d), Related(d), NEW l \in Ids(d)
  PROVE  Related(RemoveLayer(d, l))
<1> DEFINE e == RemoveLayer(d, l)
           f == Compact(Without(d.layer, {l}))
<1>1. d.group \in [DOMAIN d.group -> GroupRecords]
  BY GoodParts, TreeFacts
<1>2. e = [layer |-> f, active |-> IF d.active = l THEN None ELSE d.active,
           group |-> [g \in DOMAIN d.group |-> [d.group[g] EXCEPT !.layers = @ \ {l}]]]
  BY DEF RemoveLayer
<1>3. DOMAIN f = Ids(d) \ {l} /\ Carry(d.layer, f, Ids(d) \ {l})
  BY WithoutCompactCarries
<1> HIDE DEF f
<1>4. Ids(e) = Ids(d) \ {l} /\ e.layer = f /\ e.active = (IF d.active = l THEN None ELSE d.active)
  BY <1>2, <1>3 DEF Ids
<1>5. DOMAIN e.group = DOMAIN d.group
      /\ \A g \in DOMAIN d.group : e.group[g] = [d.group[g] EXCEPT !.layers = @ \ {l}]
  BY <1>2
<1> HIDE DEF e
<1>6. \A g \in DOMAIN d.group :
        /\ e.group[g].layers = d.group[g].layers \ {l}
        /\ e.group[g].parent = d.group[g].parent /\ e.group[g].groups = d.group[g].groups
  BY <1>1, <1>5 DEF GroupRecords
<1>7. Nested(e) /\ Rooted(e)
  BY <1>5, <1>6, TreeStands DEF SameTree, Related
<1>8. Members(e)
  BY <1>3, <1>4, <1>5, <1>6 DEF Related, Members, Carry
<1>9. Pointed(e)
  BY <1>4 DEF Related, Pointed
<1>10. Related(e)
  BY <1>7, <1>8, <1>9 DEF Related
<1> QED
  BY <1>10 DEF e

(* One field of a group replaced.                                          *)
LEMMA GroupFields ==
  ASSUME NEW r \in GroupRecords, NEW v
  PROVE  LET a == [r EXCEPT !.layers = v]
             b == [r EXCEPT !.groups = v]
             c == [r EXCEPT !.parent = v]
         IN  /\ a.layers = v /\ a.groups = r.groups /\ a.parent = r.parent
             /\ b.layers = r.layers /\ b.groups = v /\ b.parent = r.parent
             /\ c.layers = r.layers /\ c.groups = r.groups /\ c.parent = v
BY DEF GroupRecords

LEMMA MoveRelated ==
  ASSUME NEW d, Good(d), Related(d), NEW g \in DOMAIN d.group, NEW ls \in SUBSET Ids(d)
  PROVE  Related(MoveLayersIntoGroup(d, g, ls))
<1> DEFINE e == MoveLayersIntoGroup(d, g, ls)
<1>1. /\ d.group \in [DOMAIN d.group -> GroupRecords]
      /\ \A k \in Ids(d) : d.layer[k] \in LayerRecords
  BY GoodParts, TreeFacts, RowsFacts DEF Ids
<1>2. e = [layer  |-> InGroup(d.layer, ls, g),
           group  |-> [h \in DOMAIN d.group |->
                         [d.group[h] EXCEPT !.layers = IF h = g THEN @ \cup ls ELSE @ \ ls]],
           active |-> d.active]
  BY DEF MoveLayersIntoGroup
<1>3. Ids(e) = Ids(d)
      /\ \A k \in Ids(d) : e.layer[k] = IF k \in ls THEN [d.layer[k] EXCEPT !.group = g] ELSE d.layer[k]
  BY <1>2 DEF Ids, InGroup
<1>4. DOMAIN e.group = DOMAIN d.group /\ e.active = d.active
      /\ \A h \in DOMAIN d.group :
           e.group[h] = [d.group[h] EXCEPT !.layers = IF h = g THEN @ \cup ls ELSE @ \ ls]
  BY <1>2
<1> HIDE DEF e
<1>5. \A k \in Ids(d) : e.layer[k].group = IF k \in ls THEN g ELSE d.layer[k].group
  BY <1>1, <1>3 DEF LayerRecords
<1>6. \A h \in DOMAIN d.group :
        /\ e.group[h].layers = IF h = g THEN d.group[h].layers \cup ls ELSE d.group[h].layers \ ls
        /\ e.group[h].parent = d.group[h].parent /\ e.group[h].groups = d.group[h].groups
  BY <1>1, <1>4 DEF GroupRecords
<1>7. Nested(e) /\ Rooted(e)
  BY <1>4, <1>6, TreeStands DEF SameTree, Related
<1>8. Members(e) /\ Pointed(e)
  <2>1. \A k \in Ids(d) : d.layer[k].group \in DOMAIN d.group \cup {None}
    BY DEF Related, Members
  <2>2. ASSUME NEW h \in DOMAIN d.group
        PROVE  e.group[h].layers = {k \in Ids(d) : e.layer[k].group = h}
    <3>1. d.group[h].layers = {k \in Ids(d) : d.layer[k].group = h}
      BY DEF Related, Members
    <3>2. CASE h = g
      BY <1>5, <1>6, <3>1, <3>2
    <3>3. CASE h # g
      BY <1>5, <1>6, <3>1, <3>3
    <3> QED
      BY <3>2, <3>3
  <2> QED
    BY <1>3, <1>4, <1>5, <2>1, <2>2 DEF Related, Members, Pointed
<1>9. Related(e)
  BY <1>7, <1>8 DEF Related
<1> QED
  BY <1>9 DEF e

LEMMA TakeOutRelated ==
  ASSUME NEW d, Good(d), Related(d), NEW l \in Ids(d)
  PROVE  Related(RemoveLayerFromGroup(d, l))
<1> DEFINE e == RemoveLayerFromGroup(d, l)
<1>1. /\ d.group \in [DOMAIN d.group -> GroupRecords] /\ DOMAIN d.group \subseteq Groups
      /\ \A k \in Ids(d) : d.layer[k] \in LayerRecords
  BY GoodParts, TreeFacts, RowsFacts DEF Ids
<1>2. e = [layer  |-> InGroup(d.layer, {l}, None),
           group  |-> [h \in DOMAIN d.group |->
                         IF h = d.layer[l].group THEN [d.group[h] EXCEPT !.layers = @ \ {l}]
                         ELSE d.group[h]],
           active |-> d.active]
  BY DEF RemoveLayerFromGroup
<1>3. Ids(e) = Ids(d)
      /\ \A k \in Ids(d) : e.layer[k] = IF k = l THEN [d.layer[k] EXCEPT !.group = None] ELSE d.layer[k]
  BY <1>2 DEF Ids, InGroup
<1>4. DOMAIN e.group = DOMAIN d.group /\ e.active = d.active
      /\ \A h \in DOMAIN d.group :
           e.group[h] = IF h = d.layer[l].group THEN [d.group[h] EXCEPT !.layers = @ \ {l}]
                        ELSE d.group[h]
  BY <1>2
<1> HIDE DEF e
<1>5. \A k \in Ids(d) : e.layer[k].group = IF k = l THEN None ELSE d.layer[k].group
  BY <1>1, <1>3 DEF LayerRecords
<1>6. \A h \in DOMAIN d.group :
        /\ e.group[h].layers = IF h = d.layer[l].group THEN d.group[h].layers \ {l} ELSE d.group[h].layers
        /\ e.group[h].parent = d.group[h].parent /\ e.group[h].groups = d.group[h].groups
  BY <1>1, <1>4 DEF GroupRecords
<1>7. Nested(e) /\ Rooted(e)
  BY <1>4, <1>6, TreeStands DEF SameTree, Related
<1>8. Members(e) /\ Pointed(e)
  <2>1. None \notin DOMAIN d.group
    BY <1>1, DocumentParameters
  <2>2. \A k \in Ids(d) : d.layer[k].group \in DOMAIN d.group \cup {None}
    BY DEF Related, Members
  <2>3. ASSUME NEW h \in DOMAIN d.group
        PROVE  e.group[h].layers = {k \in Ids(d) : e.layer[k].group = h}
    <3>1. d.group[h].layers = {k \in Ids(d) : d.layer[k].group = h} /\ h # None
      BY <2>1 DEF Related, Members
    <3>2. CASE h = d.layer[l].group
      BY <1>5, <1>6, <3>1, <3>2
    <3>3. CASE h # d.layer[l].group
      BY <1>5, <1>6, <3>1, <3>3
    <3> QED
      BY <3>2, <3>3
  <2> QED
    BY <1>3, <1>4, <1>5, <2>2, <2>3 DEF Related, Members, Pointed
<1>9. Related(e)
  BY <1>7, <1>8 DEF Related
<1> QED
  BY <1>9 DEF e

(* A chain goes on with that of the parent.                                *)
LEMMA ChainStep ==
  ASSUME NEW d, d.group \in Trees, NEW g \in DOMAIN d.group
  PROVE  Chain(d, g) = {g} \cup (IF d.group[g].parent = None THEN {} ELSE Chain(d, d.group[g].parent))
<1> DEFINE p == d.group[g].parent
           up == IF p = None THEN {} ELSE Chain(d, p)
<1>1. g \in Groups /\ p \in Groups \cup {None}
  BY TreeFacts DEF GroupRecords
<1>2. Chain(d, g) \subseteq {g} \cup up
  <2>1. CASE p = None
    <3>1. Upward(d, {g})
      BY <2>1 DEF Upward
    <3> QED
      BY <1>1, <2>1, <3>1, ChainLeast
  <2>2. CASE p # None
    <3>1. up \subseteq Groups /\ p \in up /\ Upward(d, up)
      BY <1>1, <2>2, ChainHolds
    <3> HIDE DEF up
    <3>2. Upward(d, {g} \cup up)
      BY <3>1 DEF Upward
    <3> QED
      BY <1>1, <3>1, <3>2, ChainLeast
  <2> QED
    BY <2>1, <2>2
<1>3. {g} \cup up \subseteq Chain(d, g)
  <2>1. Chain(d, g) \subseteq Groups /\ g \in Chain(d, g) /\ Upward(d, Chain(d, g))
    BY <1>1, ChainHolds
  <2>2. ASSUME p # None PROVE Chain(d, p) \subseteq Chain(d, g)
    <3>1. p \in Chain(d, g)
      BY <2>1, <2>2 DEF Upward
    <3> QED
      BY <2>1, <3>1, ChainLeast
  <2> QED
    BY <2>1, <2>2
<1> QED
  BY <1>2, <1>3

(* The whole chain is in the document.                                     *)
LEMMA ChainThere ==
  ASSUME NEW d, d.group \in Trees, Nested(d), NEW g \in DOMAIN d.group
  PROVE  Chain(d, g) \subseteq DOMAIN d.group
<1>1. Upward(d, DOMAIN d.group) /\ DOMAIN d.group \subseteq Groups
  BY TreeFacts DEF Nested, Upward
<1> QED
  BY <1>1, ChainLeast

(* A root ends a chain.                                                    *)
LEMMA Ended ==
  ASSUME NEW d, NEW g, NEW r \in Chain(d, g), r \in DOMAIN d.group => d.group[r].parent = None
  PROVE  ~Cyclic(d, g)
BY DEF Cyclic

LEMMA CreateGroupRelated ==
  ASSUME NEW d, Good(d), Related(d), NEW g \in Groups \ DOMAIN d.group,
         NEW ls \in SUBSET Ids(d), \A l \in ls : d.layer[l].group = None,
         NEW p \in Groups \cup {None}, MayHold(d, p)
  PROVE  Related(CreateGroup(d, g, ls, p))
<1> DEFINE e == CreateGroup(d, g, ls, p)
<1>1. /\ d.group \in [DOMAIN d.group -> GroupRecords] /\ DOMAIN d.group \subseteq Groups
      /\ \A k \in Ids(d) : d.layer[k] \in LayerRecords
      /\ d.group \in Trees /\ None \notin Groups
  BY GoodParts, TreeFacts, RowsFacts, DocumentParameters DEF Ids
<1>2. e = [layer  |-> InGroup(d.layer, ls, g),
           group  |-> [h \in DOMAIN d.group \cup {g} |->
                         IF h = g THEN [parent |-> p, layers |-> ls, groups |-> {}]
                         ELSE IF h = p THEN [d.group[h] EXCEPT !.groups = @ \cup {g}]
                         ELSE d.group[h]],
           active |-> d.active]
  BY DEF CreateGroup
<1>3. Ids(e) = Ids(d)
      /\ \A k \in Ids(d) : e.layer[k] = IF k \in ls THEN [d.layer[k] EXCEPT !.group = g] ELSE d.layer[k]
  BY <1>2 DEF Ids, InGroup
<1>4. /\ DOMAIN e.group = DOMAIN d.group \cup {g} /\ e.active = d.active
      /\ e.group[g] = [parent |-> p, layers |-> ls, groups |-> {}]
      /\ \A h \in DOMAIN d.group :
           e.group[h] = IF h = p THEN [d.group[h] EXCEPT !.groups = @ \cup {g}] ELSE d.group[h]
  BY <1>2
<1>0. e.group \in Trees
  <2>1. Good(e)
    <3>1. ls \subseteq Layers
      BY GoodParts, RowsFacts DEF Ids
    <3> QED
      BY <3>1, CreateGroupSound, GoodSound
  <2> QED
    BY <2>1, GoodParts
<1> HIDE DEF e
<1>5. \A k \in Ids(d) : e.layer[k].group = IF k \in ls THEN g ELSE d.layer[k].group
  BY <1>1, <1>3 DEF LayerRecords
<1>16. ASSUME NEW h \in DOMAIN d.group
       PROVE  /\ e.group[h].layers = d.group[h].layers
              /\ e.group[h].parent = d.group[h].parent
              /\ e.group[h].groups = d.group[h].groups \cup (IF h = p THEN {g} ELSE {})
  <2>1. CASE h = p
    <3>1. e.group[h] = [d.group[h] EXCEPT !.groups = d.group[h].groups \cup {g}]
      BY <1>4, <2>1
    <3> QED
      BY <1>1, <2>1, <3>1, GroupFields
  <2>2. CASE h # p
    BY <1>4, <2>2
  <2> QED
    BY <2>1, <2>2
<1>6. /\ e.group[g].parent = p /\ e.group[g].layers = ls /\ e.group[g].groups = {}
      /\ \A h \in DOMAIN d.group :
           /\ e.group[h].layers = d.group[h].layers
           /\ e.group[h].parent = d.group[h].parent
           /\ e.group[h].groups = d.group[h].groups \cup (IF h = p THEN {g} ELSE {})
  BY <1>4, <1>16
<1>7. p \in DOMAIN d.group \cup {None}
  BY DEF MayHold
<1>8. /\ \A h \in DOMAIN d.group : d.group[h].parent # g /\ d.group[h].parent \in DOMAIN d.group \cup {None}
      /\ \A l \in Ids(d) : d.layer[l].group # g
  BY <1>1 DEF Related, Nested, Members
<1>9. Members(e) /\ Pointed(e)
  BY <1>1, <1>3, <1>4, <1>5, <1>6, <1>8 DEF Related, Members, Pointed
<1>10. Nested(e)
  <2>1. ASSUME NEW h \in DOMAIN d.group
        PROVE  e.group[h].groups = {k \in DOMAIN e.group : e.group[k].parent = h}
    BY <1>1, <1>4, <1>6 DEF Related, Nested
  <2>2. {k \in DOMAIN e.group : e.group[k].parent = g} = {}
    BY <1>1, <1>4, <1>6, <1>7, <1>8
  <2>3. \A h \in DOMAIN e.group : e.group[h].parent \in DOMAIN e.group \cup {None}
    BY <1>4, <1>6, <1>7, <1>8
  <2> QED
    BY <1>4, <1>6, <2>1, <2>2, <2>3 DEF Nested
<1>11. ASSUME NEW h \in DOMAIN d.group
       PROVE  Chain(e, h) = Chain(d, h)
  <2>1. /\ Chain(d, h) \subseteq DOMAIN d.group /\ h \in Chain(d, h) /\ Upward(d, Chain(d, h))
    BY <1>1, ChainHolds, ChainThere DEF Related
  <2>2. Upward(e, Chain(d, h))
    BY <1>1, <1>4, <1>6, <2>1 DEF Upward
  <2>3. Chain(e, h) \subseteq Chain(d, h)
    BY <1>1, <2>1, <2>2, ChainLeast
  <2>4. Chain(e, h) \subseteq Groups /\ h \in Chain(e, h) /\ Upward(e, Chain(e, h))
    BY <1>0, <1>1, ChainHolds
  <2>5. Upward(d, Chain(e, h))
    BY <1>4, <1>6, <2>4 DEF Upward
  <2> QED
    BY <2>3, <2>4, <2>5, ChainLeast
<1>12. ASSUME NEW h \in DOMAIN d.group
       PROVE  ~Cyclic(e, h) /\ GroupDepth(e, h) < MaxDepth
  <2>1. ~Cyclic(d, h) /\ GroupDepth(d, h) < MaxDepth
    BY DEF Related, Rooted
  <2>2. PICK r \in Chain(d, h) : ~(r \in DOMAIN d.group /\ d.group[r].parent # None)
    BY <2>1 DEF Cyclic
  <2>3. r \in DOMAIN d.group
    BY <1>1, ChainThere DEF Related
  <2> QED
    BY <1>6, <1>11, <2>1, <2>2, <2>3, Ended DEF GroupDepth
<1>13. ~Cyclic(e, g) /\ GroupDepth(e, g) < MaxDepth
  <2>1. Chain(e, g) = {g} \cup (IF p = None THEN {} ELSE Chain(d, p))
    BY <1>0, <1>4, <1>6, <1>7, <1>11, ChainStep
  <2>2. CASE p = None
    <3>1. Chain(e, g) = {g} /\ Cardinality({g}) = 1
      BY <2>1, <2>2, FS_Singleton
    <3> QED
      BY <1>6, <2>2, <3>1, DocumentParameters, Ended DEF GroupDepth
  <2>3. CASE p # None
    <3>1. p \in DOMAIN d.group /\ ~Cyclic(d, p) /\ GroupDepth(d, p) + 1 < MaxDepth
      BY <2>3 DEF MayHold
    <3>2. Chain(d, p) \subseteq DOMAIN d.group /\ IsFiniteSet(Chain(d, p))
          /\ Cardinality(Chain(d, p)) \in Nat
      BY <1>1, <3>1, ChainThere, ChainFinite DEF Related
    <3>3. Chain(e, g) = Chain(d, p) \cup {g}
      BY <2>1, <2>3
    <3>4. Cardinality(Chain(e, g)) = Cardinality(Chain(d, p)) + 1
      BY <3>2, <3>3, FS_AddElement
    <3>5. PICK r \in Chain(d, p) : d.group[r].parent = None
      BY <3>1, <3>2 DEF Cyclic
    <3>6. ~Cyclic(e, g)
      BY <1>6, <3>2, <3>3, <3>5, Ended
    <3> QED
      BY <3>1, <3>2, <3>4, <3>6, DocumentParameters DEF GroupDepth
  <2> QED
    BY <2>2, <2>3
<1>14. Rooted(e)
  BY <1>4, <1>12, <1>13 DEF Rooted
<1>15. Related(e)
  BY <1>9, <1>10, <1>14 DEF Related
<1> QED
  BY <1>15 DEF e

(* In a tree a group is neither its own parent nor its grandparent.        *)
LEMMA NoLoops ==
  ASSUME NEW d, d.group \in Trees, Nested(d), Rooted(d), NEW g \in DOMAIN d.group,
         NEW h \in DOMAIN d.group, d.group[h].parent = g
  PROVE  d.group[g].parent # g /\ d.group[g].parent # h
<1>1. g \in Groups /\ h \in Groups /\ DOMAIN d.group \subseteq Groups /\ None \notin Groups
  BY TreeFacts, DocumentParameters
<1>2. ASSUME d.group[g].parent \in {g, h}
      PROVE  FALSE
  <2>1. Upward(d, {g, h})
    BY <1>2 DEF Upward
  <2>2. Chain(d, g) \subseteq {g, h}
    BY <1>1, <2>1, ChainLeast
  <2>3. Cyclic(d, g)
    BY <1>1, <1>2, <2>2 DEF Cyclic
  <2> QED
    BY <2>3 DEF Rooted
<1> QED
  BY <1>2

LEMMA UngroupRelated ==
  ASSUME NEW d, Good(d), Related(d), NEW g \in DOMAIN d.group
  PROVE  Related(Ungroup(d, g))
<1> DEFINE e == Ungroup(d, g)
           p == d.group[g].parent
           sub == d.group[g].groups
<1>1. /\ d.group \in [DOMAIN d.group -> GroupRecords] /\ DOMAIN d.group \subseteq Groups
      /\ \A k \in Ids(d) : d.layer[k] \in LayerRecords
      /\ d.group \in Trees /\ None \notin Groups
  BY GoodParts, TreeFacts, RowsFacts, DocumentParameters DEF Ids
<1>2. e = [layer  |-> InGroup(d.layer, d.group[g].layers, None),
           group  |-> [h \in DOMAIN d.group \ {g} |->
                         IF h \in sub THEN [d.group[h] EXCEPT !.parent = p]
                         ELSE IF h = p THEN [d.group[h] EXCEPT !.groups = (@ \ {g}) \cup sub]
                         ELSE d.group[h]],
           active |-> d.active]
  BY DEF Ungroup
<1>3. Ids(e) = Ids(d)
      /\ \A k \in Ids(d) : e.layer[k] = IF k \in d.group[g].layers THEN [d.layer[k] EXCEPT !.group = None]
                                        ELSE d.layer[k]
  BY <1>2 DEF Ids, InGroup
<1>4. /\ DOMAIN e.group = DOMAIN d.group \ {g} /\ e.active = d.active
      /\ \A h \in DOMAIN d.group \ {g} :
           e.group[h] = IF h \in sub THEN [d.group[h] EXCEPT !.parent = p]
                        ELSE IF h = p THEN [d.group[h] EXCEPT !.groups = (@ \ {g}) \cup sub]
                        ELSE d.group[h]
  BY <1>2
<1>5. e.group \in Trees
  BY UngroupSound, GoodSound, GoodParts
<1>6. /\ sub = {h \in DOMAIN d.group : d.group[h].parent = g}
      /\ d.group[g].layers = {l \in Ids(d) : d.layer[l].group = g}
      /\ p \in DOMAIN d.group \cup {None}
  BY DEF Related, Nested, Members
<1>7. g \notin sub /\ p \notin sub /\ p # g
  <2>1. \A h \in DOMAIN d.group : d.group[h].parent = g => d.group[g].parent # g /\ d.group[g].parent # h
    BY <1>1, NoLoops DEF Related
  <2> QED
    BY <1>6, <2>1
<1> HIDE DEF e, p, sub
<1>8. \A k \in Ids(d) : e.layer[k].group = IF d.layer[k].group = g THEN None ELSE d.layer[k].group
  BY <1>1, <1>3, <1>6 DEF LayerRecords
<1>9. ASSUME NEW h \in DOMAIN d.group \ {g}
      PROVE  /\ e.group[h].layers = d.group[h].layers
             /\ e.group[h].parent = IF h \in sub THEN p ELSE d.group[h].parent
             /\ e.group[h].groups = IF h = p THEN (d.group[h].groups \ {g}) \cup sub ELSE d.group[h].groups
  <2>1. CASE h \in sub
    <3>1. e.group[h] = [d.group[h] EXCEPT !.parent = p]
      BY <1>4, <2>1
    <3> QED
      BY <1>1, <1>7, <2>1, <3>1, GroupFields
  <2>2. CASE h \notin sub /\ h = p
    <3>1. e.group[h] = [d.group[h] EXCEPT !.groups = (d.group[h].groups \ {g}) \cup sub]
      BY <1>4, <2>2
    <3> QED
      BY <1>1, <2>2, <3>1, GroupFields
  <2>3. CASE h \notin sub /\ h # p
    BY <1>4, <2>3
  <2> QED
    BY <2>1, <2>2, <2>3
<1>10. Members(e) /\ Pointed(e)
  <2>1. \A k \in Ids(d) : d.layer[k].group \in DOMAIN d.group \cup {None}
    BY DEF Related, Members
  <2>2. ASSUME NEW h \in DOMAIN d.group \ {g}
        PROVE  e.group[h].layers = {k \in Ids(d) : e.layer[k].group = h}
    <3>1. d.group[h].layers = {k \in Ids(d) : d.layer[k].group = h} /\ h # None
      BY <1>1 DEF Related, Members
    <3> QED
      BY <1>8, <1>9, <3>1
  <2> QED
    BY <1>3, <1>4, <1>8, <2>1, <2>2 DEF Related, Members, Pointed
<1>11. d.group[g].parent = p /\ \A h \in DOMAIN d.group :
         /\ d.group[h].groups = {k \in DOMAIN d.group : d.group[k].parent = h}
         /\ d.group[h].parent \in DOMAIN d.group \cup {None}
  BY DEF Related, Nested, p
<1>12. Nested(e)
  <2>1. ASSUME NEW h \in DOMAIN e.group
        PROVE  e.group[h].groups = {k \in DOMAIN e.group : e.group[k].parent = h}
    <3>1. h \in DOMAIN d.group /\ h # g /\ d.group[h].groups = {k \in DOMAIN d.group : d.group[k].parent = h}
      BY <1>4, <1>11
    <3>2. \A k \in DOMAIN e.group : k \in DOMAIN d.group \ {g}
             /\ e.group[k].parent = IF k \in sub THEN p ELSE d.group[k].parent
      BY <1>4, <1>9
    <3>3. \A k \in sub : k \in DOMAIN e.group /\ d.group[k].parent = g
      BY <1>4, <1>6, <1>7
    <3>4. CASE h = p
      <4>1. e.group[h].groups = (d.group[h].groups \ {g}) \cup sub
        BY <1>9, <3>1, <3>4
      <4> QED
        BY <1>4, <3>1, <3>2, <3>3, <3>4, <4>1
    <3>5. CASE h # p
      <4>1. e.group[h].groups = d.group[h].groups
        BY <1>9, <3>1, <3>5
      <4>2. g \notin d.group[h].groups
        BY <1>11, <3>1, <3>5
      <4> QED
        BY <1>4, <3>1, <3>2, <3>3, <3>5, <4>1, <4>2
    <3> QED
      BY <3>4, <3>5
  <2>2. ASSUME NEW h \in DOMAIN e.group
        PROVE  e.group[h].parent \in DOMAIN e.group \cup {None}
    <3>1. h \in DOMAIN d.group \ {g} /\ e.group[h].parent = IF h \in sub THEN p ELSE d.group[h].parent
      BY <1>4, <1>9
    <3>2. h \notin sub => d.group[h].parent # g
      BY <1>6, <3>1
    <3> QED
      BY <1>4, <1>6, <1>7, <1>11, <3>1, <3>2
  <2> QED
    BY <2>1, <2>2 DEF Nested
<1>13. ASSUME NEW h \in DOMAIN e.group
       PROVE  ~Cyclic(e, h) /\ GroupDepth(e, h) < MaxDepth
  <2> DEFINE c == Chain(d, h)
             ce == Chain(e, h)
  <2>1. /\ h \in DOMAIN d.group \ {g} /\ ~Cyclic(d, h) /\ GroupDepth(d, h) < MaxDepth
        /\ c \subseteq DOMAIN d.group /\ h \in c /\ Upward(d, c)
        /\ ce \subseteq DOMAIN e.group /\ h \in ce /\ Upward(e, ce)
    BY <1>1, <1>4, <1>5, <1>12, ChainThere, ChainHolds DEF Related, Rooted
  <2>2. ce \subseteq c
    <3>1. Upward(e, c \ {g})
      <4>1. ASSUME NEW x \in c \ {g}, x \in DOMAIN e.group
            PROVE  e.group[x].parent \in (c \ {g}) \cup {None}
        <5>1. x \in DOMAIN d.group \ {g} /\ d.group[x].parent \in c \cup {None}
              /\ e.group[x].parent = IF x \in sub THEN p ELSE d.group[x].parent
          BY <1>4, <1>9, <2>1, <4>1 DEF Upward
        <5>2. CASE x \in sub
          <6>1. g \in c
            BY <1>1, <1>6, <5>1, <5>2
          <6>2. p \in c \cup {None}
            BY <1>11, <2>1, <6>1 DEF Upward
          <6> QED
            BY <1>7, <5>1, <5>2, <6>2
        <5>3. CASE x \notin sub
          BY <1>6, <5>1, <5>3
        <5> QED
          BY <5>2, <5>3
      <4> QED
        BY <4>1 DEF Upward
    <3> HIDE DEF c
    <3>2. c \ {g} \in SUBSET Groups /\ h \in c \ {g}
      BY <1>1, <2>1
    <3> QED
      BY <3>1, <3>2, ChainLeast
  <2>3. GroupDepth(e, h) < MaxDepth
    <3>1. Cardinality(ce) <= Cardinality(c) /\ Cardinality(ce) \in Nat /\ Cardinality(c) \in Nat
      BY <2>2, ChainFinite, FS_Subset
    <3> QED
      BY <2>1, <3>1, DocumentParameters DEF GroupDepth
  <2>4. ASSUME Cyclic(e, h)
        PROVE  FALSE
    <3>1. \A x \in ce : x \in DOMAIN d.group \ {g} /\ e.group[x].parent # None
                        /\ e.group[x].parent \in ce
      BY <1>4, <2>1, <2>4 DEF Cyclic, Upward
    <3> DEFINE s == ce \cup {x \in {g} : \E y \in ce : y \in sub}
    <3>2. Upward(d, s)
      <4>1. ASSUME NEW x \in s \cap DOMAIN d.group
            PROVE  d.group[x].parent \in s \cup {None}
        <5>1. CASE x \in ce
          <6>1. x \in DOMAIN d.group \ {g} /\ e.group[x].parent \in ce
                /\ e.group[x].parent = IF x \in sub THEN p ELSE d.group[x].parent
            BY <1>9, <3>1, <5>1
          <6> QED
            BY <1>6, <5>1, <6>1
        <5>2. CASE x = g /\ x \notin ce
          <6>1. PICK y \in ce : y \in sub
            BY <4>1, <5>2
          <6>2. y \in DOMAIN d.group \ {g} /\ e.group[y].parent \in ce /\ e.group[y].parent = p
            BY <1>9, <3>1, <6>1
          <6> QED
            BY <1>11, <5>2, <6>2
        <5> QED
          BY <4>1, <5>1, <5>2
      <4> QED
        BY <4>1 DEF Upward
    <3>3. c \subseteq s
      <4>1. s \in SUBSET Groups /\ h \in s
        BY <1>1, <2>1, <3>1
      <4> HIDE DEF s, ce
      <4> QED
        BY <3>2, <4>1, ChainLeast
    <3>4. \A x \in s : d.group[x].parent # None
      <4>1. ASSUME NEW x \in ce PROVE d.group[x].parent # None
        <5>1. x \in DOMAIN d.group \ {g} /\ e.group[x].parent # None
              /\ e.group[x].parent = IF x \in sub THEN p ELSE d.group[x].parent
          BY <1>9, <3>1
        <5> QED
          BY <1>1, <1>6, <5>1
      <4>2. ASSUME NEW y \in ce, y \in sub PROVE d.group[g].parent # None
        <5>1. e.group[y].parent # None /\ e.group[y].parent = p
          BY <1>9, <3>1, <4>2
        <5> QED
          BY <1>11, <5>1
      <4> QED
        BY <4>1, <4>2
    <3> HIDE DEF s
    <3>5. Cyclic(d, h)
      BY <2>1, <3>3, <3>4 DEF Cyclic
    <3> QED
      BY <2>1, <3>5
  <2> QED
    BY <2>3, <2>4
<1>14. Rooted(e)
  BY <1>13 DEF Rooted
<1>15. Related(e)
  BY <1>10, <1>12, <1>14 DEF Related
<1> QED
  BY <1>15 DEF e

LEMMA EmptyRelated == Related(Empty)
<1> DEFINE e == Empty
<1>1. Ids(e) = {} /\ DOMAIN e.group = {} /\ e.active = None
  BY DEF Empty, Ids
<1> HIDE DEF e
<1>2. Related(e)
  BY <1>1 DEF Related, Members, Nested, Rooted, Pointed
<1> QED
  BY <1>2 DEF e

LEMMA CarefulKeepsRelated ==
  ASSUME Good(doc), Related(doc), caller = "careful", HostNext
  PROVE  Related(doc')
<1>0. ~Free /\ Places \subseteq Int
  BY HostParameters DEF Free
<1>1. /\ doc.layer \in [Ids(doc) -> LayerRecords] /\ Ids(doc) \subseteq Layers
      /\ DOMAIN doc.group \subseteq Groups
  BY GoodParts, RowsFacts, TreeFacts DEF Ids
<1>2. ASSUME NEW l \in Layers, NEW p \in Places, NEW k \in {"paint", "mask"},
             HostAdd(l, k, p)
      PROVE  Related(doc')
  <2> DEFINE r == [Raster(p, TRUE) EXCEPT !.kind = k]
  <2>1. l \notin Ids(doc) /\ doc' = AddLayer(doc, l, r)
    BY <1>2 DEF HostAdd, FreshLayer, Becomes, Renumbered
  <2>2. r.group = None
    BY DEF Raster
  <2> HIDE DEF r
  <2> QED
    BY <2>1, <2>2, AddRelated
<1>3. ASSUME NEW l \in Layers, NEW p \in Places, HostReorder(l, p)
      PROVE  Related(doc')
  BY <1>0, <1>3, ReorderRelated DEF HostReorder, Becomes, Renumbered
<1>4. ASSUME NEW l \in Layers, NEW p \in Places, NEW v \in BOOLEAN,
             HostUpdate(l, p, v)
      PROVE  Related(doc')
  <2> DEFINE r == [doc.layer[l] EXCEPT !.at = p, !.visible = v]
  <2>1. l \in Ids(doc) /\ doc.layer[l] \in LayerRecords /\ p \in Int /\ doc' = UpdateLayer(doc, l, r)
    BY <1>0, <1>1, <1>4 DEF HostUpdate, Becomes, Renumbered
  <2>2. r \in LayerRecords /\ r.group = doc.layer[l].group
    BY <2>1 DEF LayerRecords
  <2> HIDE DEF r
  <2> QED
    BY <2>1, <2>2, UpdateRelated
<1>5. ASSUME NEW l \in Layers, HostRemove(l)
      PROVE  Related(doc')
  BY <1>5, RemoveRelated DEF HostRemove, Becomes, Renumbered
<1>6. ASSUME NEW l \in Layers, HostFlatten(l)
      PROVE  Related(doc')
  <2>1. l \in Layers \ Ids(doc) /\ doc' = FlattenVisible(doc, l)
    BY <1>6 DEF HostFlatten, Becomes, Renumbered, FreshLayer
  <2>2. \A k \in VisiblePaint(doc) : doc.layer[k].group = None /\ doc.active # k
    BY <1>0, <1>6 DEF HostFlatten, Grouped, VisiblePaint
  <2> QED
    BY <2>1, <2>2, FlattenRelated
<1>7. ASSUME NEW l \in Layers, HostTakeOut(l)
      PROVE  Related(doc')
  BY <1>7, TakeOutRelated DEF HostTakeOut, Becomes, Renumbered, Grouped
<1>8. ASSUME NEW l \in Layers \cup {None}, HostActivate(l)
      PROVE  Related(doc')
  <2> DEFINE e == SetActiveLayer(doc, l)
  <2>1. /\ doc = [layer |-> doc.layer, group |-> doc.group, active |-> doc.active]
        /\ doc' = e
    BY <1>8, GoodParts DEF HostActivate, Becomes, Renumbered
  <2>2. e.layer = doc.layer /\ e.group = doc.group /\ e.active \in Ids(doc) \cup {None}
    BY <2>1 DEF SetActiveLayer, Related, Pointed
  <2> HIDE DEF e
  <2>3. Related(e)
    BY <2>2, LayersRelated DEF Pointed, Ids
  <2> QED
    BY <2>1, <2>3
<1>9. ASSUME NEW l \in Layers, NEW new \in Layers, HostDuplicate(l, new)
      PROVE  Related(doc')
  <2> DEFINE r == [doc.layer[l] EXCEPT !.at = @ + 1]
  <2>1. /\ l \in Ids(doc) /\ new \notin Ids(doc) /\ doc.layer[l].group = None
        /\ doc.layer[l] \in LayerRecords /\ doc' = AddLayer(doc, new, r)
    BY <1>0, <1>1, <1>9 DEF HostDuplicate, Becomes, Renumbered, FreshLayer, Grouped, DuplicateLayer
  <2>2. r.group = None
    BY <2>1 DEF LayerRecords
  <2> HIDE DEF r
  <2> QED
    BY <2>1, <2>2, AddRelated
<1>10. ASSUME NEW l \in Layers, NEW new \in Layers, NEW b \in Layers, HostMerge(l, b, new)
       PROVE  Related(doc')
  <2>1. /\ l \in Ids(doc) /\ b \in Ids(doc) /\ new \in Layers \ Ids(doc)
        /\ doc.layer[l].group = None /\ doc.layer[b].group = None /\ doc.active \notin {l, b}
        /\ doc' = MergeDown(doc, l, b, new)
    BY <1>0, <1>10 DEF HostMerge, Becomes, Renumbered, FreshLayer, Beneath, Grouped
  <2>2. l # b
    <3>1. doc.layer[b].at < doc.layer[l].at /\ doc.layer[l].at \in Int
      BY <1>1, <1>10, <2>1 DEF HostMerge, Beneath, LayerRecords
    <3> QED
      BY <3>1
  <2> QED
    BY <2>1, <2>2, MergeRelated
<1>11. \A l \in Layers, g \in Groups : ~HostRegroup(l, g)
  BY <1>0 DEF HostRegroup
<1>12. \A g \in Groups, p \in Groups \cup {None} : ~HostReparent(g, p)
  BY <1>0 DEF HostReparent
<1>13. ASSUME NEW g \in Groups, NEW p \in Groups \cup {None}, HostGroup(g, p)
       PROVE  Related(doc')
  <2>1. PICK ls \in SUBSET Ids(doc) : ls \cap Grouped = {} /\ doc' = CreateGroup(doc, g, ls, p)
    BY <1>0, <1>13 DEF HostGroup, Becomes, Renumbered
  <2>2. g \in Groups \ DOMAIN doc.group /\ MayHold(doc, p)
    BY <1>13 DEF HostGroup, FreshGroup
  <2>3. \A l \in ls : doc.layer[l].group = None
    BY <2>1 DEF Grouped
  <2> QED
    BY <2>1, <2>2, <2>3, CreateGroupRelated
<1>14. ASSUME NEW g \in Groups, HostUngroup(g)
       PROVE  Related(doc')
  BY <1>14, UngroupRelated DEF HostUngroup, Becomes, Renumbered
<1>15. ASSUME NEW g \in Groups, HostMove(g)
       PROVE  Related(doc')
  <2>1. PICK ls \in SUBSET Ids(doc) : g \in DOMAIN doc.group /\ doc' = MoveLayersIntoGroup(doc, g, ls)
    BY <1>15 DEF HostMove, Becomes, Renumbered
  <2> QED
    BY <2>1, MoveRelated
<1> QED
  BY <1>2, <1>3, <1>4, <1>5, <1>6, <1>7, <1>8, <1>9, <1>10, <1>11, <1>12, <1>13, <1>14, <1>15
     DEF HostNext

(* Membership lists, parents, depth and the active layer agree after any   *)
(* calls of a host that leaves no reference behind, for any layers, groups *)
(* and depth: no operation of canvas-core breaks a relation by itself.     *)
THEOREM HostRelated == HostSpec => []RelationsAgree
<1> DEFINE Kept == /\ loose \in BOOLEAN /\ Sound(doc, loose)
                   /\ caller = "careful" => ~loose /\ Related(doc)
<1>1. HostInit => Kept
  BY EmptyGood, EmptyRelated, GoodIsSound DEF HostInit
<1>2. Kept /\ [HostNext]_host => Kept'
  <2> SUFFICES ASSUME Kept, [HostNext]_host PROVE Kept'
    OBVIOUS
  <2>1. loose' \in BOOLEAN /\ Sound(doc', loose')
    BY HostKeepsSound
  <2>2. caller' = caller
    BY DEF HostNext, HostAdd, HostReorder, HostUpdate, HostRemove, HostFlatten, HostTakeOut,
       HostActivate, HostDuplicate, HostMerge, HostRegroup, HostReparent, HostGroup, HostUngroup,
       HostMove, Becomes, Renumbered, host
  <2>3. ASSUME caller = "careful"
        PROVE  ~loose' /\ Related(doc')
    <3>1. Good(doc) /\ Related(doc) /\ ~loose
      BY <2>3, GoodSound
    <3>2. ~loose'
      BY <2>3, <3>1 DEF HostNext, HostAdd, HostReorder, HostUpdate, HostRemove, HostFlatten,
         HostTakeOut, HostActivate, HostDuplicate, HostMerge, HostRegroup, HostReparent, HostGroup,
         HostUngroup, HostMove, Becomes, Renumbered, host, Free
    <3>3. CASE HostNext
      BY <2>3, <3>1, <3>2, <3>3, CarefulKeepsRelated
    <3>4. CASE UNCHANGED host
      BY <3>1, <3>2, <3>4 DEF host
    <3> QED
      BY <3>3, <3>4
  <2> QED
    BY <2>1, <2>2, <2>3 DEF Sound, IsDocument, Apart, Stacked, Ids, Size, Related, Members, Nested,
       Rooted, Pointed, Cyclic, GroupDepth, Chain, Upward
<1>3. Kept => RelationsAgree
  BY RelatedSays
<1> QED
  BY <1>1, <1>2, <1>3, PTL DEF HostSpec

-----------------------------------------------------------------------------
(* The editor's screen.                                                    *)

(* An open document has a layer, on the screen and as last given to React; *)
(* a prompt screen shows the document it was given.                        *)
Shown(d, a, v) == /\ a \in Ids(d) /\ DOMAIN v \subseteq Ids(d)
                  /\ \A l \in DOMAIN v : v[l] = d.layer[l].opacity
Opened(d) == d = Empty \/ Ids(d) # {}
ScreenInv ==
  /\ pace \in {"prompt", "hurried"} /\ act \in Layers \cup {None}
  /\ DOMAIN live \subseteq Layers /\ live \in [DOMAIN live -> Opacities]
  /\ Good(doc) /\ Good(ref) /\ Opened(doc) /\ Opened(ref)
  /\ ref # Empty => doc # Empty
  /\ (pace = "prompt" /\ doc # Empty) => Shown(doc, act, live)

LEMMA EmptyIds == Ids(Empty) = {}
BY DEF Ids, Empty

LEMMA ScreenStarts == InitEditor => ScreenInv
<1> SUFFICES ASSUME InitEditor PROVE ScreenInv
  OBVIOUS
<1> DEFINE v == [l \in {} |-> Full]
<1>1. DOMAIN v = {} /\ v \in [{} -> Opacities]
  OBVIOUS
<1>2. live = v /\ doc = Empty /\ ref = Empty /\ act = None /\ pace \in {"prompt", "hurried"}
  BY PaceParameters DEF InitEditor
<1> HIDE DEF v
<1> QED
  BY <1>1, <1>2, EmptyGood DEF ScreenInv, Opened

LEMMA PutFacts ==
  ASSUME NEW v, NEW l, NEW o
  PROVE  /\ DOMAIN Put(v, l, o) = DOMAIN v \cup {l} /\ Put(v, l, o)[l] = o
         /\ \A k \in DOMAIN v \ {l} : Put(v, l, o)[k] = v[k]
         /\ (v \in [DOMAIN v -> Opacities] /\ o \in Opacities
               => Put(v, l, o) \in [DOMAIN v \cup {l} -> Opacities])
BY DEF Put

LEMMA OpenKeeps == ASSUME ScreenInv, NEW l \in Layers, Open(l) PROVE ScreenInv'
<1> DEFINE r == Raster(0, TRUE)
           v == [k \in {l} |-> Full]
<1>1. r \in LayerRecords /\ r.at = 0 /\ r.opacity = Full
  BY DocumentParameters DEF Raster, LayerRecords
<1>2. /\ doc' = AddLayer(Empty, l, r) /\ live' = v /\ act' = l /\ ref' = ref /\ pace' = pace
  BY DEF Open
<1>3. DOMAIN v = {l} /\ v \in [{l} -> Opacities] /\ v[l] = Full
  BY DocumentParameters
<1> HIDE DEF r, v
<1>4. r.at \in 0..Size(Empty) /\ l \in Layers \ Ids(Empty)
  BY <1>1, EmptyGood, Sized, EmptyIds
<1>5. Good(doc') /\ Ids(doc') = {l} /\ doc'.layer[l] = r
  <2>1. Good(doc') /\ Ids(doc') = Ids(Empty) \cup {l}
    BY <1>1, <1>2, <1>4, EmptyGood, AddGood
  <2>2. doc'.layer[l] = r
    BY <1>2, <1>4, EmptyGood, AddCarries
  <2> QED
    BY <2>1, <2>2, EmptyIds
<1>6. doc' # Empty
  BY <1>5, EmptyIds
<1>7. Shown(doc', act', live')
  BY <1>1, <1>2, <1>3, <1>5 DEF Shown
<1>8. /\ pace' \in {"prompt", "hurried"} /\ act' \in Layers \cup {None}
      /\ DOMAIN live' \subseteq Layers /\ live' \in [DOMAIN live' -> Opacities]
      /\ Good(ref') /\ Opened(doc') /\ Opened(ref')
  BY <1>2, <1>3, <1>5 DEF ScreenInv, Opened
<1> QED
  BY <1>5, <1>6, <1>7, <1>8 DEF ScreenInv, Good, Opened, Shown, IsDocument, Apart, Stacked, Ids, Size

LEMMA RenderKeeps == ASSUME ScreenInv, Render PROVE ScreenInv'
<1> DEFINE v == [k \in DOMAIN live \cup Ids(doc) |->
                   IF k \in DOMAIN live THEN live[k] ELSE doc.layer[k].opacity]
<1>1. /\ ref' = doc /\ live' = v /\ pace' = pace /\ doc' = doc /\ act' = act
  BY DEF Render
<1>2. /\ Good(doc) /\ Opened(doc) /\ DOMAIN live \subseteq Layers /\ live \in [DOMAIN live -> Opacities]
  BY DEF ScreenInv
<1>3. Ids(doc) \subseteq Layers /\ \A k \in Ids(doc) : doc.layer[k].opacity \in Opacities
  BY <1>2, Sized DEF LayerRecords
<1>4. DOMAIN v = DOMAIN live \cup Ids(doc) /\ v \in [DOMAIN v -> Opacities]
  BY <1>2, <1>3
<1>5. Shown(doc, act, live) => Shown(doc, act, v)
  BY DEF Shown
<1> HIDE DEF v
<1> QED
  BY <1>1, <1>2, <1>3, <1>4, <1>5 DEF ScreenInv

LEMMA AddKeeps == ASSUME ScreenInv, NEW l \in Layers, AddPaintLayer(l) PROVE ScreenInv'
<1> DEFINE r == Raster(Size(ref), TRUE)
           v == Put(live, l, Full)
<1>1. /\ doc' = AddLayer(ref, l, r) /\ live' = v /\ act' = l /\ ref' = ref /\ pace' = pace
      /\ l \notin Ids(ref) /\ (pace = "hurried" \/ ref = doc) /\ ref # Empty
  BY DEF AddPaintLayer, Loaded, Editor
<1>2. /\ Good(ref) /\ Opened(ref) /\ DOMAIN live \subseteq Layers
      /\ live \in [DOMAIN live -> Opacities] /\ pace \in {"prompt", "hurried"}
  BY DEF ScreenInv
<1>3. r \in LayerRecords /\ r.at = Size(ref) /\ r.opacity = Full /\ r.at \in 0..Size(ref)
  <2>1. Size(ref) \in Nat
    BY <1>2, Sized
  <2>2. r \in LayerRecords /\ r.at = Size(ref)
    BY <2>1, DocumentParameters DEF Raster, LayerRecords
  <2>3. r.opacity = Full
    BY DEF Raster
  <2> HIDE DEF r
  <2> QED
    BY <2>1, <2>2, <2>3
<1>4. /\ DOMAIN v = DOMAIN live \cup {l} /\ v[l] = Full /\ v \in [DOMAIN v -> Opacities]
      /\ \A k \in DOMAIN live \ {l} : v[k] = live[k]
  <2>1. DOMAIN v = DOMAIN live \cup {l} /\ v[l] = Full /\ \A k \in DOMAIN live \ {l} : v[k] = live[k]
    BY DEF Put
  <2>2. v \in [DOMAIN live \cup {l} -> Opacities]
    BY <1>2, DocumentParameters, PutFacts
  <2> QED
    BY <2>1, <2>2
<1> HIDE DEF r, v
<1>5. Good(doc') /\ Ids(doc') = Ids(ref) \cup {l}
  BY <1>1, <1>2, <1>3, AddGood
<1>6. Carry(ref.layer, doc'.layer, Ids(ref)) /\ doc'.layer[l] = r
  BY <1>1, <1>2, AddCarries
<1>7. doc' # Empty /\ Opened(doc')
  BY <1>5, EmptyIds DEF Opened
<1>8. pace = "prompt" => Shown(doc', act', live')
  <2> SUFFICES ASSUME pace = "prompt" PROVE Shown(doc', act', live')
    OBVIOUS
  <2>1. Shown(ref, act, live)
    BY <1>1 DEF ScreenInv
  <2>2. DOMAIN v \subseteq Ids(doc')
    BY <2>1, <1>4, <1>5 DEF Shown
  <2>3. ASSUME NEW k \in DOMAIN v PROVE v[k] = doc'.layer[k].opacity
    <3>1. CASE k = l
      BY <3>1, <1>3, <1>4, <1>6
    <3>2. CASE k # l
      BY <3>2, <2>1, <1>4, <1>6 DEF Shown, Carry
    <3> QED
      BY <3>1, <3>2
  <2> QED
    BY <2>2, <2>3, <1>1, <1>5 DEF Shown
<1>9. DOMAIN live' \subseteq Layers /\ live' \in [DOMAIN live' -> Opacities] /\ act' \in Layers \cup {None}
  BY <1>1, <1>2, <1>4
<1> QED
  BY <1>1, <1>2, <1>5, <1>7, <1>8, <1>9 DEF ScreenInv, Good, Opened, Shown, IsDocument, Apart, Stacked, Ids, Size

LEMMA RemoveKeeps == ASSUME ScreenInv, NEW l \in Layers, RemoveLayerById(l) PROVE ScreenInv'
<1> DEFINE next == RemoveLayer(ref, l)
           v == Without(live, {l})
<1>1. /\ doc' = next /\ live' = v /\ act' = (IF act = l THEN Top(next) ELSE act)
      /\ ref' = ref /\ pace' = pace
      /\ l \in Ids(ref) /\ l # Bottom(ref) /\ (pace = "hurried" \/ ref = doc) /\ ref # Empty
  BY DEF RemoveLayerById, Loaded, Editor
<1>2. /\ Good(ref) /\ Opened(ref) /\ DOMAIN live \subseteq Layers /\ act \in Layers \cup {None}
      /\ live \in [DOMAIN live -> Opacities] /\ pace \in {"prompt", "hurried"}
  BY DEF ScreenInv
<1>3. /\ DOMAIN v = DOMAIN live \ {l} /\ v \in [DOMAIN v -> Opacities]
      /\ \A k \in DOMAIN v : v[k] = live[k]
  BY <1>2 DEF Without
<1>4. Good(next) /\ Ids(next) = Ids(ref) \ {l} /\ Carry(ref.layer, next.layer, Ids(ref) \ {l})
  BY <1>2, RemoveGood, RemoveCarries
<1> HIDE DEF next, v
<1>5. Ids(next) # {}
  BY <1>1, <1>2, <1>4, Ends
<1>6. next # Empty /\ Opened(next) /\ Top(next) \in Ids(next) /\ Ids(next) \subseteq Layers
  BY <1>4, <1>5, EmptyIds, Ends, Sized DEF Opened
<1>7. pace = "prompt" => Shown(next, act', v)
  <2> SUFFICES ASSUME pace = "prompt" PROVE Shown(next, act', v)
    OBVIOUS
  <2>1. Shown(ref, act, live)
    BY <1>1 DEF ScreenInv
  <2>2. act' \in Ids(next)
    BY <2>1, <1>1, <1>4, <1>6 DEF Shown
  <2>3. DOMAIN v \subseteq Ids(next)
    BY <2>1, <1>3, <1>4 DEF Shown
  <2>4. ASSUME NEW k \in DOMAIN v PROVE v[k] = next.layer[k].opacity
    <3>1. k \in DOMAIN live /\ k \in Ids(ref) \ {l} /\ v[k] = live[k]
      BY <2>1, <1>3 DEF Shown
    <3> QED
      BY <3>1, <2>1, <1>4 DEF Shown, Carry
  <2> QED
    BY <2>2, <2>3, <2>4 DEF Shown
<1>8. DOMAIN live' \subseteq Layers /\ live' \in [DOMAIN live' -> Opacities] /\ act' \in Layers \cup {None}
  BY <1>1, <1>2, <1>3, <1>6
<1> QED
  BY <1>1, <1>2, <1>4, <1>6, <1>7, <1>8
     DEF ScreenInv, Good, Opened, Shown, IsDocument, Apart, Stacked, Ids, Size

LEMMA ReorderKeeps ==
  ASSUME ScreenInv, NEW l \in Layers, NEW p \in 0..Cardinality(Layers), ReorderRow(l, p)
  PROVE  ScreenInv'
<1> DEFINE next == ReorderLayer(ref, l, p)
<1>1. /\ doc' = next /\ UNCHANGED <<pace, ref, act, live>> /\ (pace = "hurried" \/ ref = doc) /\ ref # Empty
  BY DEF ReorderRow, Loaded, Editor, screen
<1>2. Good(ref) /\ Opened(ref) /\ p \in Nat /\ pace \in {"prompt", "hurried"}
  BY DEF ScreenInv
<1>3. Good(next) /\ Ids(next) = Ids(ref) /\ Carry(ref.layer, next.layer, Ids(ref))
  BY <1>2, ReorderGood, ReorderCarries
<1> HIDE DEF next
<1>4. next # Empty /\ Opened(next)
  BY <1>1, <1>2, <1>3, EmptyIds DEF Opened
<1>5. pace = "prompt" => Shown(next, act, live)
  <2> SUFFICES ASSUME pace = "prompt" PROVE Shown(next, act, live)
    OBVIOUS
  <2>1. Shown(ref, act, live)
    BY <1>1 DEF ScreenInv
  <2> QED
    BY <2>1, <1>3 DEF Shown, Carry
<1> QED
  BY <1>1, <1>2, <1>3, <1>4, <1>5
     DEF ScreenInv, Good, Opened, Shown, IsDocument, Apart, Stacked, Ids, Size

LEMMA PatchKeeps ==
  ASSUME ScreenInv, NEW l \in Layers, NEW o \in Opacities, PatchOpacity(l, o)
  PROVE  ScreenInv'
<1> DEFINE r == [ref.layer[l] EXCEPT !.opacity = o]
           next == UpdateLayer(ref, l, r)
           v == Put(live, l, o)
<1>1. /\ doc' = next /\ live' = v /\ UNCHANGED <<pace, ref, act>>
      /\ l \in Ids(ref) /\ (pace = "hurried" \/ ref = doc) /\ ref # Empty
  BY DEF PatchOpacity, Loaded, Editor
<1>2. /\ Good(ref) /\ Opened(ref) /\ DOMAIN live \subseteq Layers
      /\ live \in [DOMAIN live -> Opacities] /\ pace \in {"prompt", "hurried"}
  BY DEF ScreenInv
<1>3. r \in LayerRecords /\ r.opacity = o
  <2>1. ref.layer[l] \in LayerRecords
    BY <1>1, <1>2, Sized
  <2> QED
    BY <2>1 DEF LayerRecords
<1> HIDE DEF r
<1>4. /\ DOMAIN v = DOMAIN live \cup {l} /\ v[l] = o /\ v \in [DOMAIN v -> Opacities]
      /\ \A k \in DOMAIN live \ {l} : v[k] = live[k]
  <2>1. DOMAIN v = DOMAIN live \cup {l} /\ v[l] = o /\ \A k \in DOMAIN live \ {l} : v[k] = live[k]
    BY DEF Put
  <2>2. v \in [DOMAIN live \cup {l} -> Opacities]
    BY <1>2, PutFacts
  <2> QED
    BY <2>1, <2>2
<1>5. Good(next) /\ Ids(next) = Ids(ref)
  BY <1>2, <1>3, UpdateGood
<1>6. Carry(ref.layer, next.layer, Ids(ref) \ {l}) /\ next.layer[l].opacity = o
  BY <1>1, <1>2, <1>3, UpdateCarries
<1> HIDE DEF next, v
<1>7. next # Empty /\ Opened(next)
  BY <1>1, <1>5, EmptyIds DEF Opened
<1>8. pace = "prompt" => Shown(next, act, v)
  <2> SUFFICES ASSUME pace = "prompt" PROVE Shown(next, act, v)
    OBVIOUS
  <2>1. Shown(ref, act, live)
    BY <1>1 DEF ScreenInv
  <2>2. DOMAIN v \subseteq Ids(next) /\ act \in Ids(next)
    BY <2>1, <1>1, <1>4, <1>5 DEF Shown
  <2>3. ASSUME NEW k \in DOMAIN v PROVE v[k] = next.layer[k].opacity
    <3>1. CASE k = l
      BY <3>1, <1>4, <1>6
    <3>2. CASE k # l
      BY <3>2, <2>1, <1>4, <1>6 DEF Shown, Carry
    <3> QED
      BY <3>1, <3>2
  <2> QED
    BY <2>2, <2>3 DEF Shown
<1>9. DOMAIN live' \subseteq Layers /\ live' \in [DOMAIN live' -> Opacities]
  BY <1>1, <1>2, <1>4
<1> QED
  BY <1>1, <1>2, <1>5, <1>7, <1>8, <1>9
     DEF ScreenInv, Good, Opened, Shown, IsDocument, Apart, Stacked, Ids, Size

LEMMA SelectKeeps == ASSUME ScreenInv, NEW l \in Layers, SelectRow(l) PROVE ScreenInv'
<1>1. UNCHANGED <<doc, pace, ref, live>> /\ act' = l /\ l \in Ids(ref) /\ (pace = "hurried" \/ ref = doc)
  BY DEF SelectRow, Loaded, Editor
<1> QED
  BY <1>1 DEF ScreenInv, Shown

LEMMA ScreenKept == ASSUME ScreenInv, EditorStep PROVE ScreenInv'
BY RenderKeeps, OpenKeeps, AddKeeps, RemoveKeeps, SelectKeeps, ReorderKeeps, PatchKeeps
   DEF EditorStep

LEMMA ScreenStands == ASSUME ScreenInv, UNCHANGED <<doc, pace, screen>> PROVE ScreenInv'
BY DEF ScreenInv, screen

LEMMA ScreenHolds == Spec => []ScreenInv
<1>1. Init => ScreenInv
  BY ScreenStarts DEF Init
<1>2. ScreenInv /\ [Next]_vars => ScreenInv'
  <2> SUFFICES ASSUME ScreenInv, [Next]_vars PROVE ScreenInv'
    OBVIOUS
  <2>1. CASE EditorStep
    BY <2>1, ScreenKept
  <2>2. CASE UNCHANGED vars
    BY <2>2, ScreenStands DEF vars, screen
  <2>3. CASE Draw
    <3>1. UNCHANGED <<doc, pace, screen>>
      BY <2>3 DEF Draw, TouchMoves, TouchEnds, TouchBreaks, BeginBrushStroke, WorkletBegin, TouchBegins
    <3> QED
      BY <3>1, ScreenStands
  <2> QED
    BY <2>1, <2>2, <2>3 DEF Next
<1> QED
  BY <1>1, <1>2, PTL DEF Spec

(* The layers panel keeps the positions, too, even where a slow JS thread  *)
(* loses edits.                                                            *)
THEOREM EditorStacked == Spec => []Stacked(doc)
<1>1. ScreenInv => Stacked(doc)
  BY DEF ScreenInv, Good
<1> QED
  BY <1>1, ScreenHolds, PTL

(* An open document never loses its last layer; a screen that renders      *)
(* before the next call shows the layers at the opacity that is saved and  *)
(* has one of them active.                                                 *)
THEOREM EditorShows == Spec => []EditorAgrees
<1>1. ScreenInv => EditorAgrees
  BY DEF ScreenInv, Shown, EditorAgrees
<1> QED
  BY <1>1, ScreenHolds, PTL

-----------------------------------------------------------------------------
(* Strokes.                                                                *)

Begins == [is : Nat, layer : Layers \cup {None}]

(* A begin under way is of a touch that was, and of no stroke begun.       *)
Waiting(n) == \/ \E i \in 1..Len(js) : js[i] = n
              \/ \E i \in 1..Len(ui) : ui[i].is = n
Drawn(n)   == \E i \in 1..Len(ink) : ink[i].is = n
Spent(n)   == n = stroke.is \/ n \in renderers \/ Drawn(n)

CanvasTypes ==
  /\ touch \in [n : Nat, down : BOOLEAN]
  /\ armed \in BOOLEAN /\ skip \in BOOLEAN
  /\ js \in Seq(Nat) /\ ui \in Seq(Begins)
  /\ stroke \in Strokes /\ shown \in Nat /\ renderers \in SUBSET Nat
  /\ ink \in Seq(Strokes)

Numbered ==
  /\ \A n : Waiting(n) => n \in 1..touch.n /\ ~Spent(n)
  /\ \A n : Spent(n) => n \in 0..touch.n
  /\ 0 \notin renderers /\ ~Drawn(0)
  /\ \A i, j \in 1..Len(js) : js[i] = js[j] => i = j
  /\ \A i, j \in 1..Len(ui) : ui[i].is = ui[j].is => i = j
  /\ \A i \in 1..Len(js), j \in 1..Len(ui) : js[i] # ui[j].is
  /\ DrawnOnce

CanvasInv == CanvasTypes /\ Numbered

LEMMA StrokeTypes ==
  /\ NoStroke \in Strokes /\ NoStroke.is = 0
  /\ \A n \in Nat, l \in Layers \cup {None} :
       /\ [is |-> n, layer |-> l, points |-> {n}] \in Strokes
       /\ [is |-> n, layer |-> l, points |-> {n}].is = n
       /\ [is |-> n, layer |-> l] \in Begins /\ [is |-> n, layer |-> l].is = n
BY DEF NoStroke, Strokes, Begins

LEMMA CanvasStarts == Init => CanvasInv
<1> SUFFICES ASSUME Init PROVE CanvasInv
  OBVIOUS
<1>1. /\ touch = [n |-> 0, down |-> FALSE] /\ armed = FALSE /\ skip = FALSE
      /\ js = <<>> /\ ui = <<>> /\ ink = <<>>
      /\ stroke = NoStroke /\ shown = 0 /\ renderers = {}
  BY DEF Init
<1>2. CanvasTypes
  <2>1. js \in Seq(Nat) /\ ui \in Seq(Begins) /\ ink \in Seq(Strokes)
    BY <1>1, EmptySeq
  <2>2. touch \in [n : Nat, down : BOOLEAN] /\ armed \in BOOLEAN /\ skip \in BOOLEAN
        /\ shown \in Nat /\ renderers \in SUBSET Nat
    BY <1>1
  <2> QED
    BY <2>1, <2>2, <1>1, StrokeTypes DEF CanvasTypes
<1>3. Len(js) = 0 /\ Len(ui) = 0 /\ Len(ink) = 0 /\ touch.n = 0 /\ stroke.is = 0
  BY <1>1, StrokeTypes
<1>4. 1..Len(js) = {} /\ 1..Len(ui) = {} /\ 1..Len(ink) = {}
  BY <1>3
<1>5. \A n : ~Waiting(n) /\ ~Drawn(n)
  BY <1>4 DEF Waiting, Drawn
<1>6. \A n : Spent(n) => n = 0
  BY <1>1, <1>3, <1>5 DEF Spent
<1>7. 0 \in 0..touch.n
  BY <1>3
<1>8. Numbered
  BY <1>1, <1>4, <1>5, <1>6, <1>7 DEF Numbered, DrawnOnce
<1> QED
  BY <1>2, <1>8 DEF CanvasInv

(* What is done away with, of strokes and of begins, spoils no number.     *)
LEMMA FewerNumbers ==
  ASSUME Numbered, touch'.n = touch.n,
         UNCHANGED <<js, ui, ink>>,
         \A n : Spent(n)' => Spent(n) \/ n = 0,
         stroke.is' = stroke.is \/ stroke.is' = 0, renderers' \subseteq renderers,
         touch.n \in Nat
  PROVE  Numbered'
<1>1. \A n : Waiting(n)' <=> Waiting(n)
  BY DEF Waiting
<1>2. \A n : Drawn(n)' <=> Drawn(n)
  BY DEF Drawn
<1>3. \A n : Waiting(n) => n # 0
  BY DEF Numbered
<1>4. \A n : Waiting(n)' => n \in 1..touch'.n /\ ~Spent(n)'
  BY <1>1, <1>3 DEF Numbered
<1>5. \A n : Spent(n)' => n \in 0..touch'.n
  <2>1. 0 \in 0..touch.n
    OBVIOUS
  <2> QED
    BY <2>1 DEF Numbered
<1>6. 0 \notin renderers' /\ ~Drawn(0)'
  BY <1>2 DEF Numbered
<1>7. DrawnOnce'
  <2>1. \A i \in 1..Len(ink) : ink[i].is # 0
    BY DEF Numbered, Drawn
  <2> QED
    BY <2>1 DEF Numbered, DrawnOnce
<1> QED
  BY <1>4, <1>5, <1>6, <1>7 DEF Numbered

LEMMA CanvasFacts ==
  ASSUME CanvasInv
  PROVE  /\ touch.n \in Nat /\ touch.down \in BOOLEAN
         /\ touch = [n |-> touch.n, down |-> touch.down]
         /\ Len(js) \in Nat /\ Len(ui) \in Nat /\ Len(ink) \in Nat
         /\ stroke.is \in Nat
BY LenProperties DEF CanvasInv, CanvasTypes, Strokes

(* A stroke in progress that ends.                                         *)
LEMMA EndKeeps ==
  ASSUME CanvasInv, StrokeEnds, UNCHANGED <<js, ui, ink>>, touch'.n = touch.n
  PROVE  Numbered' /\ stroke' \in Strokes /\ shown' \in Nat /\ renderers' \in SUBSET Nat
<1>1. stroke' = NoStroke /\ stroke'.is = 0 /\ shown' = 0 /\ renderers' \subseteq renderers
  BY StrokeTypes DEF StrokeEnds
<1>2. stroke' \in Strokes /\ shown' \in Nat /\ renderers' \in SUBSET Nat
  BY <1>1, StrokeTypes DEF CanvasInv, CanvasTypes
<1>3. \A n : Spent(n)' => Spent(n) \/ n = 0
  BY <1>1 DEF Spent, Drawn
<1>4. Numbered'
  BY <1>1, <1>3, CanvasFacts, FewerNumbers DEF CanvasInv
<1> QED
  BY <1>2, <1>4

LEMMA CommitKeeps ==
  ASSUME CanvasInv, Commit, UNCHANGED <<js, ui>>, touch'.n = touch.n
  PROVE  /\ Numbered' /\ stroke' \in Strokes /\ shown' \in Nat /\ renderers' \in SUBSET Nat
         /\ ink' \in Seq(Strokes)
<1>1. CASE UNCHANGED <<stroke, shown, renderers, ink>>
  <2>1. \A n : Spent(n)' => Spent(n)
    BY <1>1 DEF Spent, Drawn
  <2>2. Numbered'
    BY <1>1, <2>1, CanvasFacts, FewerNumbers DEF CanvasInv
  <2> QED
    BY <1>1, <2>2 DEF CanvasInv, CanvasTypes
<1>2. CASE StrokeEnds /\ UNCHANGED ink
  BY <1>2, EndKeeps DEF CanvasInv, CanvasTypes
<1>3. CASE stroke.is # 0 /\ StrokeEnds /\ ink' = Append(ink, stroke)
  <2>1. /\ ink' \in Seq(Strokes) /\ Len(ink') = Len(ink) + 1 /\ ink'[Len(ink) + 1] = stroke
        /\ \A i \in 1..Len(ink) : ink'[i] = ink[i]
    BY <1>3, AppendProperties DEF CanvasInv, CanvasTypes
  <2>2. stroke' \in Strokes /\ stroke'.is = 0 /\ shown' = 0 /\ renderers' = renderers \ {stroke.is}
    BY <1>3, StrokeTypes DEF StrokeEnds
  <2>3. 1..Len(ink') = 1..Len(ink) \cup {Len(ink) + 1} /\ Len(ink) + 1 \notin 1..Len(ink)
    BY <2>1, CanvasFacts
  <2>4. \A n : Drawn(n)' <=> Drawn(n) \/ n = stroke.is
    BY <2>1, <2>3 DEF Drawn
  <2>5. \A n : Spent(n)' => Spent(n) \/ n = 0
    BY <2>2, <2>4 DEF Spent
  <2>6. \A n : Waiting(n)' <=> Waiting(n)
    BY DEF Waiting
  <2>7. \A i \in 1..Len(ink) : ink[i].is # stroke.is
    BY DEF CanvasInv, Numbered, DrawnOnce
  <2>8. \A i, j \in 1..Len(ink') : ink'[i].is = ink'[j].is => i = j
    <3>1. \A i, j \in 1..Len(ink) : ink[i].is = ink[j].is => i = j
      BY DEF CanvasInv, Numbered, DrawnOnce
    <3> QED
      BY <2>1, <2>3, <2>7, <3>1
  <2>9. \A i \in 1..Len(ink') : stroke'.is # ink'[i].is /\ ink'[i].is \notin renderers'
    <3>1. \A i \in 1..Len(ink) : ink[i].is \notin renderers /\ ink[i].is # 0
      BY DEF CanvasInv, Numbered, DrawnOnce, Drawn
    <3> QED
      BY <1>3, <2>1, <2>2, <2>3, <3>1
  <2>10. DrawnOnce'
    BY <2>8, <2>9 DEF DrawnOnce
  <2>11. \A n : Waiting(n)' => n \in 1..touch'.n /\ ~Spent(n)'
    <3>1. \A n : Waiting(n) => n # 0
      BY DEF CanvasInv, Numbered
    <3> QED
      BY <2>5, <2>6, <3>1 DEF CanvasInv, Numbered
  <2>12. \A n : Spent(n)' => n \in 0..touch'.n
    <3>1. 0 \in 0..touch.n
      BY CanvasFacts
    <3> QED
      BY <2>5, <3>1 DEF CanvasInv, Numbered
  <2>13. 0 \notin renderers' /\ ~Drawn(0)'
    BY <1>3, <2>2, <2>4 DEF CanvasInv, Numbered
  <2>14. Numbered'
    BY <2>10, <2>11, <2>12, <2>13 DEF CanvasInv, Numbered
  <2> QED
    BY <2>1, <2>2, <2>14 DEF CanvasInv, CanvasTypes
<1> QED
  BY <1>1, <1>2, <1>3 DEF Commit

LEMMA CancelKeeps ==
  ASSUME CanvasInv, Cancel, UNCHANGED <<js, ui>>, touch'.n = touch.n
  PROVE  /\ Numbered' /\ stroke' \in Strokes /\ shown' \in Nat /\ renderers' \in SUBSET Nat
         /\ ink' \in Seq(Strokes)
<1>1. CASE StrokeEnds /\ UNCHANGED ink
  BY <1>1, EndKeeps DEF CanvasInv, CanvasTypes
<1>2. CASE shown' = 0 /\ UNCHANGED <<stroke, renderers, ink>>
  <2>1. \A n : Spent(n)' => Spent(n)
    BY <1>2 DEF Spent, Drawn
  <2>2. Numbered'
    BY <1>2, <2>1, CanvasFacts, FewerNumbers DEF CanvasInv
  <2> QED
    BY <1>2, <2>2 DEF CanvasInv, CanvasTypes
<1> QED
  BY <1>1, <1>2 DEF Cancel

LEMMA NothingDrawn ==
  ASSUME CanvasInv, UNCHANGED <<js, ui, stroke, shown, renderers, ink>>, touch'.n = touch.n
  PROVE  /\ Numbered' /\ stroke' \in Strokes /\ shown' \in Nat /\ renderers' \in SUBSET Nat
         /\ ink' \in Seq(Strokes)
<1>1. \A n : Spent(n)' => Spent(n)
  BY DEF Spent, Drawn
<1>2. Numbered'
  BY <1>1, CanvasFacts, FewerNumbers DEF CanvasInv
<1> QED
  BY <1>2 DEF CanvasInv, CanvasTypes

LEMMA MovesKeeps == ASSUME CanvasInv, TouchMoves PROVE CanvasInv'
<1>1. UNCHANGED <<touch, armed, skip, js, ui, ink>>
  BY DEF TouchMoves
<1>2. CASE StrokeEnds
  BY <1>1, <1>2, EndKeeps DEF CanvasInv, CanvasTypes
<1>3. CASE /\ stroke' = [stroke EXCEPT !.points = @ \cup {touch.n}]
           /\ shown' = stroke.is /\ UNCHANGED renderers
  <2>1. stroke \in Strokes /\ touch.n \in Nat
    BY CanvasFacts DEF CanvasInv, CanvasTypes
  <2>2. stroke' \in Strokes /\ stroke'.is = stroke.is /\ shown' \in Nat
    BY <1>3, <2>1 DEF Strokes
  <2>3. \A n : Spent(n)' => Spent(n)
    BY <1>1, <1>3, <2>2 DEF Spent, Drawn
  <2>4. Numbered'
    BY <1>1, <1>3, <2>2, <2>3, CanvasFacts, FewerNumbers DEF CanvasInv
  <2> QED
    BY <1>1, <1>3, <2>2, <2>4 DEF CanvasInv, CanvasTypes
<1> QED
  BY <1>2, <1>3 DEF TouchMoves

LEMMA EndsKeeps == ASSUME CanvasInv, TouchEnds \/ TouchBreaks PROVE CanvasInv'
<1>1. /\ touch' = [touch EXCEPT !.down = FALSE] /\ armed' = FALSE /\ skip' = FALSE
      /\ UNCHANGED <<js, ui>>
      /\ Commit \/ Cancel \/ UNCHANGED <<stroke, shown, renderers, ink>>
  BY DEF TouchEnds, TouchBreaks
<1>2. touch' \in [n : Nat, down : BOOLEAN] /\ touch'.n = touch.n
  BY <1>1 DEF CanvasInv, CanvasTypes
<1>3. /\ Numbered' /\ stroke' \in Strokes /\ shown' \in Nat /\ renderers' \in SUBSET Nat
      /\ ink' \in Seq(Strokes)
  <2>1. CASE Commit
    BY <1>1, <1>2, <2>1, CommitKeeps
  <2>2. CASE Cancel
    BY <1>1, <1>2, <2>2, CancelKeeps
  <2>3. CASE UNCHANGED <<stroke, shown, renderers, ink>>
    BY <1>1, <1>2, <2>3, NothingDrawn
  <2> QED
    BY <1>1, <2>1, <2>2, <2>3
<1> QED
  BY <1>1, <1>2, <1>3 DEF CanvasInv, CanvasTypes

LEMMA TouchBeginsKeeps ==
  ASSUME CanvasInv, NEW light \in BOOLEAN, TouchBegins(light)
  PROVE  CanvasInv'
<1>1. /\ touch' = [n |-> touch.n + 1, down |-> TRUE] /\ armed' = FALSE /\ skip' = light
      /\ js' = (IF light THEN js ELSE Append(js, touch.n + 1))
      /\ UNCHANGED <<ui, stroke, shown, renderers, ink>>
  BY DEF TouchBegins
<1>2. touch' \in [n : Nat, down : BOOLEAN] /\ touch'.n = touch.n + 1 /\ touch.n \in Nat
  BY <1>1, CanvasFacts
<1>3. /\ \A n : n \in 1..touch.n => n \in 1..touch'.n
      /\ \A n : n \in 0..touch.n => n \in 0..touch'.n /\ n # touch'.n
      /\ touch'.n \in 1..touch'.n /\ \A n : n \in 1..touch.n => n # touch'.n
  BY <1>2
<1>4. \A n : (Spent(n)' <=> Spent(n)) /\ (Drawn(n)' <=> Drawn(n))
  BY <1>1 DEF Spent, Drawn
<1>5. DrawnOnce'
  BY <1>1 DEF DrawnOnce, CanvasInv, Numbered
<1>6. CASE light
  <2>1. js' = js
    BY <1>1, <1>6
  <2>2. \A n : Waiting(n)' <=> Waiting(n)
    BY <1>1, <2>1 DEF Waiting
  <2>3. Numbered'
    BY <1>1, <1>3, <1>4, <1>5, <2>1, <2>2 DEF CanvasInv, Numbered
  <2> QED
    BY <1>1, <1>2, <2>1, <2>3 DEF CanvasInv, CanvasTypes
<1>7. CASE ~light
  <2> DEFINE m == touch.n + 1
  <2>1. /\ js' \in Seq(Nat) /\ Len(js') = Len(js) + 1 /\ js'[Len(js) + 1] = m
        /\ \A i \in 1..Len(js) : js'[i] = js[i]
    BY <1>1, <1>2, <1>7, AppendProperties DEF CanvasInv, CanvasTypes
  <2>2. 1..Len(js') = 1..Len(js) \cup {Len(js) + 1}
    BY <2>1, CanvasFacts
  <2>3. \A n : Waiting(n)' <=> Waiting(n) \/ n = m
    BY <1>1, <2>1, <2>2 DEF Waiting
  <2>4. m = touch'.n
    BY <1>2
  <2> HIDE DEF m
  <2>5. ~Spent(m) /\ ~Waiting(m)
    BY <1>3, <2>4 DEF CanvasInv, Numbered
  <2>6. \A n : Waiting(n)' => n \in 1..touch'.n /\ ~Spent(n)'
    BY <1>3, <1>4, <2>3, <2>4, <2>5 DEF CanvasInv, Numbered
  <2>7. \A n : Spent(n)' => n \in 0..touch'.n
    BY <1>3, <1>4 DEF CanvasInv, Numbered
  <2>8. \A i \in 1..Len(js) : js[i] # m
    BY <2>5 DEF Waiting
  <2>9. \A j \in 1..Len(ui) : ui[j].is # m
    BY <2>5 DEF Waiting
  <2>10. \A i, j \in 1..Len(js') : js'[i] = js'[j] => i = j
    BY <2>1, <2>2, <2>8 DEF CanvasInv, Numbered
  <2>11. \A i \in 1..Len(js'), j \in 1..Len(ui) : js'[i] # ui[j].is
    BY <2>1, <2>2, <2>9 DEF CanvasInv, Numbered
  <2>12. Numbered'
    BY <1>1, <1>4, <1>5, <2>6, <2>7, <2>10, <2>11 DEF CanvasInv, Numbered
  <2> QED
    BY <1>1, <1>2, <2>1, <2>12 DEF CanvasInv, CanvasTypes
<1> QED
  BY <1>6, <1>7

LEMMA BrushKeeps ==
  ASSUME CanvasInv, act \in Layers \cup {None}, BeginBrushStroke
  PROVE  CanvasInv'
<1>1. /\ js # <<>> /\ js' = Tail(js)
      /\ UNCHANGED <<touch, armed, skip, stroke, shown, renderers, ink>>
  BY DEF BeginBrushStroke
<1>2. /\ js' \in Seq(Nat) /\ Len(js') = Len(js) - 1 /\ Len(js) \in Nat /\ Len(js) # 0
      /\ \A i \in 1..Len(js') : js'[i] = js[i + 1]
      /\ Head(js) = js[1]
  BY <1>1, HeadTailProperties, EmptySeq, CanvasFacts DEF CanvasInv, CanvasTypes
<1>3. /\ 1 \in 1..Len(js)
      /\ \A i \in 1..Len(js') : i + 1 \in 1..Len(js) /\ i + 1 # 1
      /\ \A i, j \in 1..Len(js') : i + 1 = j + 1 => i = j
  BY <1>2
<1>4. /\ \A i, j \in 1..Len(js') : js'[i] = js'[j] => i = j
      /\ \A i \in 1..Len(js') : js'[i] # js[1]
  <2>1. \A i, j \in 1..Len(js) : js[i] = js[j] => i = j
    BY DEF CanvasInv, Numbered
  <2>2. ASSUME NEW i \in 1..Len(js'), NEW j \in 1..Len(js'), js'[i] = js'[j]
        PROVE  i = j
    <3>1. js[i + 1] = js[j + 1] /\ i + 1 \in 1..Len(js) /\ j + 1 \in 1..Len(js)
      BY <1>2, <1>3, <2>2
    <3>2. i + 1 = j + 1
      BY <2>1, <3>1
    <3> QED
      BY <1>3, <3>2
  <2>3. ASSUME NEW i \in 1..Len(js')
        PROVE  js'[i] # js[1]
    BY <1>2, <1>3, <2>1, <2>3
  <2> QED
    BY <2>2, <2>3
<1>5. \A n : (Spent(n)' <=> Spent(n)) /\ (Drawn(n)' <=> Drawn(n))
  BY <1>1 DEF Spent, Drawn
<1>6. DrawnOnce'
  BY <1>1 DEF DrawnOnce, CanvasInv, Numbered
<1>7. CASE ui' = ui
  <2>1. \A n : Waiting(n)' => Waiting(n)
    BY <1>2, <1>3, <1>7 DEF Waiting
  <2>2. \A i \in 1..Len(js'), j \in 1..Len(ui) : js'[i] # ui[j].is
    BY <1>2, <1>3 DEF CanvasInv, Numbered
  <2>3. Numbered'
    BY <1>1, <1>4, <1>5, <1>6, <1>7, <2>1, <2>2 DEF CanvasInv, Numbered
  <2> QED
    BY <1>1, <1>2, <1>7, <2>3 DEF CanvasInv, CanvasTypes
<1>8. ASSUME NEW l \in {act, None}, ui' = Append(ui, [is |-> Head(js), layer |-> l])
      PROVE  CanvasInv'
  <2> DEFINE job == [is |-> Head(js), layer |-> l]
  <2>1. js[1] \in Nat
    BY <1>1, <1>2, HeadTailProperties DEF CanvasInv, CanvasTypes
  <2>2. job \in Begins /\ job.is = js[1]
    BY <1>2, <2>1, StrokeTypes
  <2>3. ui' = Append(ui, job)
    BY <1>8
  <2> HIDE DEF job
  <2>4. /\ ui' \in Seq(Begins) /\ Len(ui') = Len(ui) + 1 /\ ui'[Len(ui) + 1] = job
        /\ \A i \in 1..Len(ui) : ui'[i] = ui[i]
    BY <2>2, <2>3, AppendProperties DEF CanvasInv, CanvasTypes
  <2>5. 1..Len(ui') = 1..Len(ui) \cup {Len(ui) + 1}
    BY <2>4, CanvasFacts
  <2>6. \A n : Waiting(n)' => Waiting(n)
    <3>1. \A i \in 1..Len(js') : Waiting(js'[i])
      BY <1>2, <1>3 DEF Waiting
    <3>2. Waiting(js[1])
      BY <1>3 DEF Waiting
    <3>3. \A i \in 1..Len(ui) : Waiting(ui[i].is)
      BY DEF Waiting
    <3>4. \A i \in 1..Len(ui') : Waiting(ui'[i].is)
      BY <2>2, <2>4, <2>5, <3>2, <3>3
    <3> HIDE DEF Waiting
    <3>5. ASSUME NEW n, Waiting(n)' PROVE \/ \E i \in 1..Len(js') : js'[i] = n
                                         \/ \E i \in 1..Len(ui') : ui'[i].is = n
      BY <3>5 DEF Waiting
    <3> QED
      BY <3>1, <3>4, <3>5
  <2>7. \A i \in 1..Len(ui) : ui[i].is # js[1]
    BY <1>3 DEF CanvasInv, Numbered
  <2>8. \A i, j \in 1..Len(ui') : ui'[i].is = ui'[j].is => i = j
    BY <2>2, <2>4, <2>5, <2>7 DEF CanvasInv, Numbered
  <2>9. \A i \in 1..Len(js'), j \in 1..Len(ui) : js'[i] # ui[j].is
    <3>1. \A i \in 1..Len(js), j \in 1..Len(ui) : js[i] # ui[j].is
      BY DEF CanvasInv, Numbered
    <3> QED
      BY <1>2, <1>3, <3>1
  <2>10. \A i \in 1..Len(js'), j \in 1..Len(ui') : js'[i] # ui'[j].is
    BY <1>4, <2>2, <2>4, <2>5, <2>9
  <2>11. Numbered'
    BY <1>1, <1>4, <1>5, <1>6, <2>6, <2>8, <2>10 DEF CanvasInv, Numbered
  <2> QED
    BY <1>1, <1>2, <2>4, <2>11 DEF CanvasInv, CanvasTypes
<1> QED
  BY <1>7, <1>8 DEF BeginBrushStroke

LEMMA WorkletKeeps == ASSUME CanvasInv, WorkletBegin PROVE CanvasInv'
<1> DEFINE job == Head(ui)
<1>1. /\ ui # <<>> /\ ui' = Tail(ui) /\ armed' = TRUE
      /\ UNCHANGED <<touch, skip, js, ink>>
  BY DEF WorkletBegin
<1>2. /\ ui' \in Seq(Begins) /\ Len(ui') = Len(ui) - 1 /\ Len(ui) \in Nat /\ Len(ui) # 0
      /\ \A i \in 1..Len(ui') : ui'[i] = ui[i + 1]
      /\ job = ui[1] /\ job \in Begins
  BY <1>1, HeadTailProperties, EmptySeq, CanvasFacts DEF CanvasInv, CanvasTypes
<1>3. /\ 1 \in 1..Len(ui)
      /\ \A i \in 1..Len(ui') : i + 1 \in 1..Len(ui) /\ i + 1 # 1
      /\ \A i, j \in 1..Len(ui') : i + 1 = j + 1 => i = j
  BY <1>2
<1> HIDE DEF job
<1>4. /\ \A i, j \in 1..Len(ui') : ui'[i].is = ui'[j].is => i = j
      /\ \A i \in 1..Len(ui') : ui'[i].is # job.is
  <2>1. \A i, j \in 1..Len(ui) : ui[i].is = ui[j].is => i = j
    BY DEF CanvasInv, Numbered
  <2> QED
    BY <1>2, <1>3, <2>1
<1>5. \A i \in 1..Len(js), j \in 1..Len(ui') : js[i] # ui'[j].is
  BY <1>2, <1>3 DEF CanvasInv, Numbered
<1>6. \A i \in 1..Len(js) : js[i] # job.is
  BY <1>2, <1>3 DEF CanvasInv, Numbered
<1>7. job.is \in 1..touch.n /\ ~Spent(job.is)
  <2>1. Waiting(job.is)
    BY <1>2, <1>3 DEF Waiting
  <2> QED
    BY <2>1 DEF CanvasInv, Numbered
<1>8. \A n : Waiting(n)' => Waiting(n) /\ n # job.is
  <2>1. \A i \in 1..Len(js) : Waiting(js[i])
    BY DEF Waiting
  <2>2. \A i \in 1..Len(ui') : Waiting(ui'[i].is)
    BY <1>2, <1>3 DEF Waiting
  <2>3. ASSUME NEW n, Waiting(n)' PROVE \/ \E i \in 1..Len(js) : js[i] = n
                                       \/ \E i \in 1..Len(ui') : ui'[i].is = n
    BY <1>1, <2>3 DEF Waiting
  <2> QED
    BY <1>4, <1>6, <2>1, <2>2, <2>3
<1>9. \A n : Drawn(n)' <=> Drawn(n)
  BY <1>1 DEF Drawn
<1>10. /\ stroke' \in Strokes /\ shown' \in Nat /\ renderers' \subseteq renderers \cup {job.is}
       /\ stroke'.is \in {0, stroke.is, job.is}
  <2>1. job.is \in Nat /\ job.layer \in Layers \cup {None}
    BY <1>2 DEF Begins
  <2>2. CASE /\ stroke' = [is |-> job.is, layer |-> job.layer, points |-> {job.is}]
             /\ shown' = job.is /\ renderers' = renderers \cup {job.is}
    BY <2>1, <2>2, StrokeTypes
  <2>3. CASE stroke' = NoStroke /\ shown' = 0 /\ UNCHANGED renderers
    BY <2>3, StrokeTypes
  <2>4. CASE UNCHANGED <<stroke, shown, renderers>>
    BY <2>4 DEF CanvasInv, CanvasTypes
  <2> QED
    BY <2>2, <2>3, <2>4 DEF WorkletBegin, job
<1>11. \A n : Spent(n)' => Spent(n) \/ n = 0 \/ n = job.is
  BY <1>9, <1>10 DEF Spent
<1>12. job.is # 0 /\ job.is \in Nat /\ job.is \in 0..touch.n /\ 0 \in 0..touch.n /\ 0 \notin 1..touch.n
  BY <1>7, CanvasFacts
<1>13. renderers' \in SUBSET Nat
  BY <1>10, <1>12 DEF CanvasInv, CanvasTypes
<1>14. \A n : Waiting(n)' => n \in 1..touch'.n /\ ~Spent(n)'
  BY <1>1, <1>8, <1>11, <1>12 DEF CanvasInv, Numbered
<1>15. \A n : Spent(n)' => n \in 0..touch'.n
  BY <1>1, <1>11, <1>12 DEF CanvasInv, Numbered
<1>16. 0 \notin renderers' /\ ~Drawn(0)'
  BY <1>9, <1>10, <1>12 DEF CanvasInv, Numbered
<1>17. DrawnOnce'
  <2>1. \A i \in 1..Len(ink) : Drawn(ink[i].is)
    BY DEF Drawn
  <2>2. ~Drawn(job.is) /\ ~Drawn(0)
    BY <1>7 DEF CanvasInv, Numbered, Spent
  <2>3. \A i \in 1..Len(ink) : ink[i].is # job.is /\ ink[i].is # 0
    BY <2>1, <2>2
  <2> QED
    BY <1>1, <1>10, <2>3 DEF CanvasInv, Numbered, DrawnOnce
<1>18. Numbered'
  BY <1>1, <1>4, <1>5, <1>14, <1>15, <1>16, <1>17 DEF CanvasInv, Numbered
<1> QED
  BY <1>1, <1>2, <1>10, <1>13, <1>18 DEF CanvasInv, CanvasTypes

LEMMA CanvasHolds == Spec => []CanvasInv
<1>1. Init => CanvasInv
  BY CanvasStarts
<1>2. ScreenInv /\ CanvasInv /\ [Next]_vars => CanvasInv'
  <2> SUFFICES ASSUME ScreenInv, CanvasInv, [Next]_vars PROVE CanvasInv'
    OBVIOUS
  <2>1. CASE UNCHANGED canvas
    BY <2>1 DEF canvas, CanvasInv, CanvasTypes, Numbered, Waiting, Spent, Drawn, DrawnOnce
  <2>2. CASE Draw
    BY <2>2, MovesKeeps, EndsKeeps, TouchBeginsKeeps, BrushKeeps, WorkletKeeps DEF Draw, ScreenInv
  <2> QED
    BY <2>1, <2>2 DEF Next, vars, canvas
<1> QED
  BY <1>1, <1>2, ScreenHolds, PTL DEF Spec

(* However late the begins arrive and however many touches there are, no   *)
(* stroke is drawn twice, and a drawn one is over.                         *)
THEOREM StrokesDrawnOnce == Spec => []DrawnOnce
<1>1. CanvasInv => DrawnOnce
  BY DEF CanvasInv, Numbered
<1> QED
  BY <1>1, CanvasHolds, PTL

(* A stroke in progress whose begin was in time is of the touch that is    *)
(* down, and no begin is under way then: the touch that is down waits last.*)
OnTime == stroke.is # 0 /\ stroke.is \notin late
OwnStroke == OnTime => /\ stroke.points = {stroke.is}
                       /\ touch.down /\ touch.n = stroke.is
                       /\ armed /\ ~skip
                       /\ js = <<>> /\ ui = <<>>
LastWaits == /\ \A n : Waiting(n) /\ n = touch.n => ~skip
             /\ \A i \in 1..Len(js) : js[i] = touch.n => i = Len(js)
             /\ \A i \in 1..Len(ui) : ui[i].is = touch.n => i = Len(ui) /\ js = <<>>
LeftOver == /\ renderers \subseteq late \cup {stroke.is} /\ shown \in {0, stroke.is}
            /\ stroke.is # 0 => stroke.layer # None
            /\ armed => touch.down \/ late # {}
OwnInk == \A i \in 1..Len(ink) : /\ ink[i].layer # None
                                 /\ ink[i].is \in late \/ ink[i].points = {ink[i].is}
InTime == pace = "prompt" => /\ late = {}
                             /\ \A n : Waiting(n) => touch.down /\ n = touch.n

RestInv == OwnStroke /\ LastWaits /\ LeftOver /\ OwnInk /\ InTime

(* What a stroke's end, drawn or not, leaves of it.                        *)
LEMMA EndLeaves ==
  ASSUME StrokeEnds, LeftOver, UNCHANGED late, armed' => touch'.down \/ late # {}
  PROVE  OwnStroke' /\ LeftOver'
<1>1. stroke' = NoStroke /\ stroke'.is = 0 /\ shown' = 0 /\ renderers' = renderers \ {stroke.is}
  BY StrokeTypes DEF StrokeEnds
<1> QED
  BY <1>1 DEF OwnStroke, OnTime, LeftOver

LEMMA InkStays == ASSUME OwnInk, late \subseteq late', ink' = ink PROVE OwnInk'
BY DEF OwnInk

(* Nothing waits but what waited.                                          *)
LEMMA QueuesStand ==
  ASSUME UNCHANGED <<js, ui, late, pace>>, touch'.n = touch.n, LastWaits, skip' \in {skip, FALSE},
         InTime, touch'.down = touch.down \/ (pace = "prompt" => js = <<>> /\ ui = <<>>)
  PROVE  LastWaits' /\ InTime'
<1>1. \A n : Waiting(n)' <=> Waiting(n)
  BY DEF Waiting
<1>2. LastWaits'
  <2>1. \A n : Waiting(n)' /\ n = touch'.n => ~skip'
    <3>1. CASE skip' = skip
      BY <1>1, <3>1 DEF LastWaits
    <3>2. CASE skip' = FALSE
      BY <3>2
    <3> QED
      BY <3>1, <3>2
  <2> QED
    BY <2>1 DEF LastWaits
<1>3. js = <<>> /\ ui = <<>> => \A n : ~Waiting(n)
  BY DEF Waiting
<1>4. InTime'
  BY <1>1, <1>3 DEF InTime
<1> QED
  BY <1>2, <1>4

LEMMA RestStarts == Init => RestInv
<1> SUFFICES ASSUME Init PROVE RestInv
  OBVIOUS
<1>1. /\ stroke = NoStroke /\ stroke.is = 0 /\ shown = 0 /\ renderers = {} /\ ~armed
      /\ js = <<>> /\ ui = <<>> /\ ink = <<>> /\ late = {}
  BY StrokeTypes DEF Init
<1>2. 1..Len(ink) = {} /\ 1..Len(js) = {} /\ 1..Len(ui) = {}
  BY <1>1
<1>3. \A n : ~Waiting(n)
  BY <1>2 DEF Waiting
<1> QED
  BY <1>1, <1>2, <1>3 DEF RestInv, OwnStroke, OnTime, LastWaits, LeftOver, OwnInk, InTime

LEMMA RestMoves == ASSUME CanvasInv, RestInv, TouchMoves PROVE RestInv'
<1>1. /\ touch.down /\ armed /\ ~skip /\ stroke.is # 0
      /\ UNCHANGED <<pace, touch, armed, skip, js, ui, ink, late>>
  BY DEF TouchMoves
<1>2. LastWaits' /\ InTime' /\ OwnInk'
  BY <1>1, QueuesStand, InkStays DEF RestInv
<1>3. CASE StrokeEnds
  BY <1>1, <1>2, <1>3, EndLeaves DEF RestInv, LeftOver
<1>4. CASE /\ stroke' = [stroke EXCEPT !.points = @ \cup {touch.n}]
           /\ shown' = stroke.is /\ UNCHANGED renderers
  <2>1. stroke \in Strokes
    BY DEF CanvasInv, CanvasTypes
  <2>2. stroke'.is = stroke.is /\ stroke'.layer = stroke.layer
        /\ stroke'.points = stroke.points \cup {touch.n}
    BY <1>4, <2>1 DEF Strokes
  <2>3. OwnStroke'
    BY <1>1, <2>2 DEF RestInv, OwnStroke, OnTime
  <2>4. LeftOver'
    BY <1>1, <1>4, <2>2 DEF RestInv, LeftOver
  <2> QED
    BY <1>2, <2>3, <2>4 DEF RestInv
<1> QED
  BY <1>3, <1>4 DEF TouchMoves

LEMMA CommitRests ==
  ASSUME CanvasInv, RestInv, Commit, armed, UNCHANGED late, ~armed'
  PROVE  OwnStroke' /\ LeftOver' /\ OwnInk'
<1>1. CASE stroke.is = 0
  <2>1. UNCHANGED <<stroke, shown, renderers, ink>>
    BY <1>1 DEF Commit
  <2> QED
    BY <1>1, <2>1, InkStays DEF RestInv, OwnStroke, OnTime, LeftOver
<1>2. CASE stroke.is # 0
  <2>1. StrokeEnds /\ (ink' = Append(ink, stroke) \/ ink' = ink)
    BY <1>2 DEF Commit
  <2>2. OwnStroke' /\ LeftOver'
    BY <2>1, EndLeaves DEF RestInv
  <2>3. CASE ink' = Append(ink, stroke)
    <3>1. /\ Len(ink') = Len(ink) + 1 /\ ink'[Len(ink) + 1] = stroke
          /\ \A i \in 1..Len(ink) : ink'[i] = ink[i]
      BY <2>3, AppendProperties DEF CanvasInv, CanvasTypes
    <3>2. 1..Len(ink') = 1..Len(ink) \cup {Len(ink) + 1}
      BY <3>1, CanvasFacts
    <3>3. /\ stroke.is \in late \/ stroke.points = {stroke.is}
          /\ stroke.layer # None
      BY <1>2 DEF RestInv, OwnStroke, OnTime, LeftOver
    <3>4. OwnInk'
      BY <3>1, <3>2, <3>3 DEF RestInv, OwnInk
    <3> QED
      BY <2>2, <3>4
  <2>4. CASE ink' = ink
    BY <2>2, <2>4, InkStays DEF RestInv
  <2> QED
    BY <2>1, <2>3, <2>4
<1> QED
  BY <1>1, <1>2

LEMMA CancelRests ==
  ASSUME RestInv, Cancel, UNCHANGED late, ~armed'
  PROVE  OwnStroke' /\ LeftOver' /\ OwnInk'
<1>1. CASE stroke.is = 0
  <2>1. shown' = 0 /\ UNCHANGED <<stroke, renderers, ink>>
    BY <1>1 DEF Cancel
  <2> QED
    BY <1>1, <2>1, InkStays DEF RestInv, OwnStroke, OnTime, LeftOver
<1>2. CASE stroke.is # 0
  <2>1. StrokeEnds /\ ink' = ink
    BY <1>2 DEF Cancel
  <2> QED
    BY <2>1, EndLeaves, InkStays DEF RestInv
<1> QED
  BY <1>1, <1>2

LEMMA RestEnds == ASSUME CanvasInv, RestInv, TouchEnds \/ TouchBreaks PROVE RestInv'
<1>1. /\ touch' = [touch EXCEPT !.down = FALSE] /\ armed' = FALSE /\ skip' = FALSE
      /\ UNCHANGED <<pace, js, ui, late>> /\ (pace = "prompt" => js = <<>> /\ ui = <<>>)
  BY DEF TouchEnds, TouchBreaks, Answered
<1>2. touch'.n = touch.n
  BY <1>1, CanvasFacts
<1>3. LastWaits' /\ InTime'
  BY <1>1, <1>2, QueuesStand DEF RestInv
<1>4. OwnStroke' /\ LeftOver' /\ OwnInk'
  <2>1. CASE armed /\ Commit
    BY <1>1, <2>1, CommitRests
  <2>2. CASE Cancel
    BY <1>1, <2>2, CancelRests
  <2>3. CASE UNCHANGED <<stroke, shown, renderers, ink>> /\ ~armed
    <3>1. ~OnTime
      BY <2>3 DEF RestInv, OwnStroke
    <3> QED
      BY <1>1, <2>3, <3>1, InkStays DEF RestInv, OwnStroke, OnTime, LeftOver
  <2>4. TouchEnds => (armed /\ Commit) \/ Cancel
                     \/ (UNCHANGED <<stroke, shown, renderers, ink>> /\ ~armed)
    BY DEF TouchEnds
  <2>5. TouchBreaks => Cancel \/ (UNCHANGED <<stroke, shown, renderers, ink>> /\ ~armed)
    BY DEF TouchBreaks
  <2> QED
    BY <2>1, <2>2, <2>3, <2>4, <2>5
<1> QED
  BY <1>3, <1>4 DEF RestInv

LEMMA RestBegins ==
  ASSUME CanvasInv, RestInv, NEW light \in BOOLEAN, TouchBegins(light)
  PROVE  RestInv'
<1>1. /\ ~touch.down /\ (pace = "prompt" => js = <<>> /\ ui = <<>>)
      /\ touch' = [n |-> touch.n + 1, down |-> TRUE] /\ armed' = FALSE /\ skip' = light
      /\ js' = (IF light THEN js ELSE Append(js, touch.n + 1))
      /\ UNCHANGED <<pace, ui, stroke, shown, renderers, ink, late>>
  BY DEF TouchBegins, Answered
<1>2. touch'.down /\ touch'.n = touch.n + 1 /\ touch.n \in Nat
  BY <1>1, CanvasFacts
<1>3. OwnStroke' /\ LeftOver' /\ OwnInk'
  <2>1. ~OnTime
    BY <1>1 DEF RestInv, OwnStroke
  <2> QED
    BY <1>1, <2>1, InkStays DEF RestInv, OwnStroke, OnTime, LeftOver
<1>4. /\ \A i \in 1..Len(js) : js[i] # touch'.n
      /\ \A i \in 1..Len(ui) : ui[i].is # touch'.n
  <2>1. \A n : Waiting(n) => n # touch'.n
    <3>1. \A n : n \in 1..touch.n => n # touch'.n
      BY <1>2
    <3> QED
      BY <3>1 DEF CanvasInv, Numbered
  <2> QED
    BY <2>1 DEF Waiting
<1>5. pace = "prompt" => \A n : ~Waiting(n)
  BY <1>1 DEF Waiting
<1>6. CASE light
  <2>1. js' = js
    BY <1>1, <1>6
  <2>2. \A n : Waiting(n)' <=> Waiting(n)
    BY <1>1, <2>1 DEF Waiting
  <2>3. \A n : n = touch'.n => ~Waiting(n)
    BY <1>4 DEF Waiting
  <2>4. LastWaits'
    BY <1>1, <1>4, <2>1, <2>2, <2>3 DEF LastWaits
  <2>5. InTime'
    BY <1>1, <1>5, <2>2 DEF RestInv, InTime
  <2> QED
    BY <1>3, <2>4, <2>5 DEF RestInv
<1>7. CASE ~light
  <2>1. /\ Len(js') = Len(js) + 1 /\ js'[Len(js) + 1] = touch'.n /\ skip' = FALSE
        /\ \A i \in 1..Len(js) : js'[i] = js[i]
    BY <1>1, <1>2, <1>7, AppendProperties DEF CanvasInv, CanvasTypes
  <2>2. 1..Len(js') = 1..Len(js) \cup {Len(js) + 1}
    BY <2>1, CanvasFacts
  <2>3. \A n : Waiting(n)' <=> Waiting(n) \/ n = touch'.n
    BY <1>1, <2>1, <2>2 DEF Waiting
  <2>4. LastWaits'
    BY <1>1, <1>4, <2>1, <2>2 DEF LastWaits
  <2>5. InTime'
    BY <1>1, <1>2, <1>5, <2>3 DEF RestInv, InTime
  <2> QED
    BY <1>3, <2>4, <2>5 DEF RestInv
<1> QED
  BY <1>6, <1>7

LEMMA RestBrush ==
  ASSUME CanvasInv, act \in Layers \cup {None}, RestInv, BeginBrushStroke
  PROVE  RestInv'
<1>1. /\ js # <<>> /\ js' = Tail(js)
      /\ UNCHANGED <<pace, touch, armed, skip, stroke, shown, renderers, ink, late>>
  BY DEF BeginBrushStroke
<1>2. /\ Len(js') = Len(js) - 1 /\ Len(js) \in Nat /\ Len(js) # 0
      /\ \A i \in 1..Len(js') : js'[i] = js[i + 1]
      /\ Head(js) = js[1] /\ js' \in Seq(Nat)
  BY <1>1, HeadTailProperties, EmptySeq, CanvasFacts DEF CanvasInv, CanvasTypes
<1>3. 1 \in 1..Len(js) /\ \A i \in 1..Len(js') : i + 1 \in 1..Len(js) /\ i \in Nat
  BY <1>2
<1>4. OwnStroke' /\ LeftOver' /\ OwnInk'
  <2>1. ~OnTime
    BY <1>1 DEF RestInv, OwnStroke
  <2> QED
    BY <1>1, <2>1, InkStays DEF RestInv, OwnStroke, OnTime, LeftOver
<1>5. \A i \in 1..Len(js') : js'[i] = touch.n => i = Len(js')
  <2> SUFFICES ASSUME NEW i \in 1..Len(js'), js'[i] = touch.n
               PROVE  i = Len(js')
    OBVIOUS
  <2>1. i + 1 = Len(js)
    BY <1>2, <1>3 DEF RestInv, LastWaits
  <2> QED
    BY <1>2, <1>3, <2>1
<1>6. js[1] = touch.n => js' = <<>>
  <2>1. js[1] = touch.n => Len(js') = 0
    BY <1>2, <1>3 DEF RestInv, LastWaits
  <2> QED
    BY <1>2, <2>1, EmptySeq
<1>7. \A i \in 1..Len(ui) : ui[i].is # touch.n
  BY <1>1 DEF RestInv, LastWaits
<1>8. ASSUME \A n : Waiting(n)' => Waiting(n)
      PROVE  InTime' /\ \A n : Waiting(n)' /\ n = touch'.n => ~skip'
  BY <1>1, <1>8 DEF RestInv, InTime, LastWaits
<1>9. CASE ui' = ui
  <2>1. \A n : Waiting(n)' => Waiting(n)
    BY <1>2, <1>3, <1>9 DEF Waiting
  <2>2. LastWaits'
    BY <1>1, <1>5, <1>7, <1>8, <1>9, <2>1 DEF LastWaits
  <2> QED
    BY <1>4, <1>8, <2>1, <2>2 DEF RestInv
<1>10. ASSUME NEW l \in {act, None}, ui' = Append(ui, [is |-> Head(js), layer |-> l])
       PROVE  RestInv'
  <2> DEFINE job == [is |-> Head(js), layer |-> l]
  <2>1. js[1] \in Nat
    BY <1>1, <1>2, HeadTailProperties DEF CanvasInv, CanvasTypes
  <2>2. job \in Begins /\ job.is = js[1]
    BY <1>2, <2>1, StrokeTypes
  <2>3. ui' = Append(ui, job)
    BY <1>10
  <2> HIDE DEF job
  <2>4. /\ Len(ui') = Len(ui) + 1 /\ ui'[Len(ui) + 1] = job
        /\ \A i \in 1..Len(ui) : ui'[i] = ui[i]
    BY <2>2, <2>3, AppendProperties DEF CanvasInv, CanvasTypes
  <2>5. 1..Len(ui') = 1..Len(ui) \cup {Len(ui) + 1}
    BY <2>4, CanvasFacts
  <2>6. \A n : Waiting(n)' => Waiting(n)
    <3>1. \A i \in 1..Len(js') : Waiting(js'[i])
      BY <1>2, <1>3 DEF Waiting
    <3>2. Waiting(js[1])
      BY <1>3 DEF Waiting
    <3>3. \A i \in 1..Len(ui) : Waiting(ui[i].is)
      BY DEF Waiting
    <3>4. \A i \in 1..Len(ui') : Waiting(ui'[i].is)
      BY <2>2, <2>4, <2>5, <3>2, <3>3
    <3>5. ASSUME NEW n, Waiting(n)' PROVE \/ \E i \in 1..Len(js') : js'[i] = n
                                         \/ \E i \in 1..Len(ui') : ui'[i].is = n
      BY <3>5 DEF Waiting
    <3> QED
      BY <3>1, <3>4, <3>5
  <2>7. \A i \in 1..Len(ui') : ui'[i].is = touch.n => i = Len(ui') /\ js' = <<>>
    BY <1>6, <1>7, <2>2, <2>4, <2>5
  <2>8. LastWaits'
    BY <1>1, <1>5, <1>8, <2>6, <2>7 DEF LastWaits
  <2> QED
    BY <1>4, <1>8, <2>6, <2>8 DEF RestInv
<1> QED
  BY <1>9, <1>10 DEF BeginBrushStroke

LEMMA RestWorklet == ASSUME CanvasInv, RestInv, WorkletBegin PROVE RestInv'
<1> DEFINE job == Head(ui)
<1>1. /\ ui # <<>> /\ ui' = Tail(ui) /\ armed' = TRUE
      /\ UNCHANGED <<pace, touch, skip, js, ink>>
      /\ late' = IF touch.down /\ touch.n = job.is THEN late ELSE late \cup {job.is}
  BY DEF WorkletBegin
<1>2. /\ ui' \in Seq(Begins) /\ Len(ui') = Len(ui) - 1 /\ Len(ui) \in Nat /\ Len(ui) # 0
      /\ \A i \in 1..Len(ui') : ui'[i] = ui[i + 1]
      /\ job = ui[1] /\ job \in Begins
  BY <1>1, HeadTailProperties, EmptySeq, CanvasFacts DEF CanvasInv, CanvasTypes
<1>3. 1 \in 1..Len(ui) /\ \A i \in 1..Len(ui') : i + 1 \in 1..Len(ui) /\ i \in Nat
  BY <1>2
<1>4. \/ /\ stroke' = [is |-> job.is, layer |-> job.layer, points |-> {job.is}]
         /\ job.layer # None /\ shown' = job.is /\ renderers' = renderers \cup {job.is}
      \/ stroke' = NoStroke /\ shown' = 0 /\ UNCHANGED renderers
      \/ UNCHANGED <<stroke, shown, renderers>>
  BY DEF WorkletBegin
<1> HIDE DEF job
<1>5. Waiting(job.is) /\ job.is # 0
  <2>1. Waiting(job.is)
    BY <1>2, <1>3 DEF Waiting
  <2>2. 0 \notin 1..touch.n
    BY CanvasFacts
  <2> QED
    BY <2>1, <2>2 DEF CanvasInv, Numbered
<1>6. \A n : Waiting(n)' => Waiting(n)
  <2>1. \A i \in 1..Len(js) : Waiting(js[i])
    BY DEF Waiting
  <2>2. \A i \in 1..Len(ui') : Waiting(ui'[i].is)
    BY <1>2, <1>3 DEF Waiting
  <2>3. ASSUME NEW n, Waiting(n)' PROVE \/ \E i \in 1..Len(js) : js[i] = n
                                       \/ \E i \in 1..Len(ui') : ui'[i].is = n
    BY <1>1, <2>3 DEF Waiting
  <2> QED
    BY <2>1, <2>2, <2>3
<1>7. LastWaits'
  <2>1. \A i \in 1..Len(ui') : ui'[i].is = touch.n => i = Len(ui') /\ js = <<>>
    <3> SUFFICES ASSUME NEW i \in 1..Len(ui'), ui'[i].is = touch.n
                 PROVE  i = Len(ui') /\ js = <<>>
      OBVIOUS
    <3>1. i + 1 = Len(ui) /\ js = <<>>
      BY <1>2, <1>3 DEF RestInv, LastWaits
    <3> QED
      BY <1>2, <1>3, <3>1
  <2> QED
    BY <1>1, <1>6, <2>1 DEF RestInv, LastWaits
<1>8. late \subseteq late' /\ (pace = "prompt" => late' = late) /\ late' \subseteq late \cup {job.is}
  BY <1>1, <1>5 DEF RestInv, InTime
<1>9. InTime' /\ OwnInk'
  BY <1>1, <1>6, <1>8, InkStays DEF RestInv, InTime
<1>10. ~OnTime
  BY <1>1 DEF RestInv, OwnStroke
<1>11. armed' => touch'.down \/ late' # {}
  BY <1>1
<1>12. renderers \subseteq late' /\ 0 \notin renderers
  <2>1. stroke.is \in late \/ stroke.is = 0
    BY <1>10 DEF OnTime
  <2> QED
    BY <1>8, <2>1 DEF RestInv, LeftOver, CanvasInv, Numbered
<1>13. CASE /\ stroke' = [is |-> job.is, layer |-> job.layer, points |-> {job.is}]
            /\ job.layer # None /\ shown' = job.is /\ renderers' = renderers \cup {job.is}
  <2> DEFINE m == job.is
             layer == job.layer
  <2>1. stroke' = [is |-> m, layer |-> layer, points |-> {m}]
    BY <1>13
  <2> HIDE DEF m, layer
  <2>2. stroke'.is = m /\ stroke'.layer = layer /\ stroke'.points = {m}
    BY <2>1
  <2>3. LeftOver'
    BY <1>11, <1>12, <1>13, <2>2 DEF LeftOver, m, layer
  <2>4. ASSUME m \notin late'
        PROVE  /\ touch.down /\ touch.n = m /\ ~skip /\ js = <<>> /\ ui' = <<>>
    <3>1. touch.down /\ touch.n = m
      BY <1>1, <2>4 DEF m
    <3>2. ~skip
      BY <1>5, <3>1 DEF RestInv, LastWaits, m
    <3>3. Len(ui) = 1 /\ js = <<>>
      BY <1>2, <1>3, <3>1 DEF RestInv, LastWaits, m
    <3>4. ui' = <<>>
      BY <1>2, <3>3, EmptySeq
    <3> QED
      BY <3>1, <3>2, <3>3, <3>4
  <2>5. OwnStroke'
    BY <1>1, <2>2, <2>4 DEF OwnStroke, OnTime
  <2> QED
    BY <1>7, <1>9, <2>3, <2>5 DEF RestInv
<1>14. CASE stroke' = NoStroke /\ shown' = 0 /\ UNCHANGED renderers
  <2>1. stroke'.is = 0
    BY <1>14, StrokeTypes
  <2> QED
    BY <1>7, <1>9, <1>11, <1>12, <1>14, <2>1 DEF RestInv, OwnStroke, OnTime, LeftOver
<1>15. CASE UNCHANGED <<stroke, shown, renderers>>
  <2>1. ~OnTime'
    BY <1>8, <1>10, <1>15 DEF OnTime
  <2> QED
    BY <1>7, <1>8, <1>9, <1>11, <1>12, <1>15, <2>1 DEF RestInv, OwnStroke, LeftOver
<1> QED
  BY <1>4, <1>13, <1>14, <1>15

(* However slow the JS thread, what the canvas holds at rest is left of a  *)
(* begin that came too late, and a stroke whose begin did not has the      *)
(* points of its own touch.                                                *)
THEOREM CanvasRests == Spec => []CanvasAtRest
<1>1. Init => RestInv
  BY RestStarts
<1>2. ScreenInv /\ CanvasInv /\ RestInv /\ [Next]_vars => RestInv'
  <2> SUFFICES ASSUME ScreenInv, CanvasInv, RestInv, [Next]_vars PROVE RestInv'
    OBVIOUS
  <2>1. CASE UNCHANGED canvas
    <3>1. pace' = pace
      BY DEF Next, Draw, vars, EditorStep, Render, Open, AddPaintLayer, RemoveLayerById, SelectRow,
             ReorderRow, PatchOpacity, TouchMoves, TouchEnds, TouchBreaks, BeginBrushStroke,
             WorkletBegin, TouchBegins
    <3> QED
      BY <2>1, <3>1 DEF canvas, RestInv, OwnStroke, OnTime, LastWaits, LeftOver, OwnInk, InTime, Waiting
  <2>2. CASE Draw
    BY <2>2, RestMoves, RestEnds, RestBegins, RestBrush, RestWorklet DEF Draw, ScreenInv
  <2> QED
    BY <2>1, <2>2 DEF Next, vars, canvas
<1>3. RestInv => CanvasAtRest
  BY DEF RestInv, OwnStroke, OnTime, LeftOver, OwnInk, InTime, CanvasAtRest
<1> QED
  BY <1>1, <1>2, <1>3, ScreenHolds, CanvasHolds, PTL DEF Spec
=============================================================================
