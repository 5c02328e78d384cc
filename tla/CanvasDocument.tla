---------------------------- MODULE CanvasDocument ----------------------------
(***************************************************************************)
(* canvas-core's document: a stack of layers and a tree of groups, and the *)
(* pure operations on them.  A layer names its group and a group lists its *)
(* layers; a group names its parent and lists its sub-groups; every        *)
(* operation has to keep positions, lists and references in step.          *)
(*                                                                         *)
(* An operation is an operator from documents to documents.  A call that   *)
(* throws changes nothing and is no step here.  Of a layer's fields the    *)
(* model keeps those an operation looks at, and opacity, which stands for  *)
(* the ones that are only carried along.                                   *)
(***************************************************************************)
EXTENDS Integers, FiniteSets

CONSTANTS
  Layers,     \* pool of layer ids
  Groups,     \* pool of group ids
  None,
  Opacities,  \* values of a field that is only carried along
  Full,       \* the one a new layer has
  MaxDepth    \* MAX_GROUP_DEPTH

ASSUME DocumentParameters ==
  /\ None \notin Layers \cup Groups
  /\ IsFiniteSet(Layers) /\ IsFiniteSet(Groups)
  /\ Full \in Opacities
  /\ MaxDepth \in Nat \ {0}

VARIABLE doc  \* the document

LayerRecords == [at : Int, kind : {"paint", "mask"}, visible : BOOLEAN, opacity : Opacities,
                 group : Groups \cup {None}]
GroupRecords == [parent : Groups \cup {None}, layers : SUBSET Layers, groups : SUBSET Groups]

Empty == [layer |-> [l \in {} |-> None], group |-> [g \in {} |-> None], active |-> None]

Ids(d)  == DOMAIN d.layer
Size(d) == Cardinality(Ids(d))

-----------------------------------------------------------------------------
(* Positions.                                                              *)

Without(f, S) == [k \in DOMAIN f \ S |-> f[k]]

(* Sorted by position and numbered from 0.                                 *)
Compact(f) ==
  [k \in DOMAIN f |-> [f[k] EXCEPT !.at = Cardinality({j \in DOMAIN f : f[j].at < f[k].at})]]

(* Mutant of Insert: layers strictly above the index are shifted.          *)
InsertAbove(f, l, r) ==
  [k \in DOMAIN f \cup {l} |->
     IF k = l THEN r ELSE IF f[k].at > r.at THEN [f[k] EXCEPT !.at = @ + 1] ELSE f[k]]

(* Layers at or above the index are shifted up.  The index may be any:     *)
(* addLayer neither checks nor clamps it.                                  *)
Insert(f, l, r) ==
  [k \in DOMAIN f \cup {l} |->
     IF k = l THEN r ELSE IF f[k].at >= r.at THEN [f[k] EXCEPT !.at = @ + 1] ELSE f[k]]

-----------------------------------------------------------------------------
(* operations.ts                                                           *)

AddLayer(d, l, r) == [d EXCEPT !.layer = Insert(d.layer, l, r)]

RemoveLayer(d, l) ==
  IF l \notin Ids(d) THEN d
  ELSE [layer  |-> Compact(Without(d.layer, {l})),
        group  |-> [g \in DOMAIN d.group |-> [d.group[g] EXCEPT !.layers = @ \ {l}]],
        active |-> IF d.active = l THEN None ELSE d.active]

Clamped(d, p) == IF p < 0 THEN 0 ELSE IF p < Size(d) THEN p ELSE Size(d) - 1

Moves(d, l, p) == l \in Ids(d) /\ Clamped(d, p) # d.layer[l].at

(* Removed, and inserted at the clamped index, unless it is there already. *)
ReorderLayer(d, l, p) ==
  IF Moves(d, l, p)
  THEN [d EXCEPT !.layer = Insert(Compact(Without(d.layer, {l})), l,
                                  [d.layer[l] EXCEPT !.at = Clamped(d, p)])]
  ELSE d

(* r is the layer with the patch on it; a new position moves the layer     *)
(* first and the rest is merged where it came to lie.                      *)
UpdateLayer(d, l, r) ==
  LET e == IF r.at = d.layer[l].at THEN d ELSE ReorderLayer(d, l, r.at)
  IN  IF l \notin Ids(d) THEN d
      ELSE [e EXCEPT !.layer = [k \in Ids(d) |-> IF k = l THEN [r EXCEPT !.at = e.layer[l].at]
                                                 ELSE e.layer[k]]]

DuplicateLayer(d, l, new) == AddLayer(d, new, [d.layer[l] EXCEPT !.at = @ + 1])

Raster(p, v) == [at |-> p, kind |-> "paint", visible |-> v, opacity |-> Full, group |-> None]

(* The layer next below in the order of positions.                         *)
Beneath(d, l) ==
  {b \in Ids(d) : /\ d.layer[b].at < d.layer[l].at
                  /\ \A k \in Ids(d) : d.layer[k].at <= d.layer[b].at
                                       \/ d.layer[k].at >= d.layer[l].at}

(* The merged layer takes the lower one's place; groups and the active     *)
(* layer are as before.                                                    *)
MergeDown(d, l, b, new) ==
  [d EXCEPT !.layer =
     Compact([k \in (Ids(d) \ {l, b}) \cup {new} |->
                IF k = new THEN Raster(d.layer[b].at, d.layer[b].visible) ELSE d.layer[k]])]

VisiblePaint(d) == {l \in Ids(d) : d.layer[l].visible /\ d.layer[l].kind = "paint"}

FlattenVisible(d, new) ==
  [d EXCEPT !.layer = Insert(Compact(Without(d.layer, VisiblePaint(d))), new, Raster(0, TRUE))]

SetActiveLayer(d, l) == IF l \in Ids(d) \cup {None} THEN [d EXCEPT !.active = l] ELSE d

-----------------------------------------------------------------------------
(* groups.ts                                                               *)

(* Sets that hold the parent of each group they hold.                      *)
Upward(d, S) == \A h \in S \cap DOMAIN d.group : d.group[h].parent \in S \cup {None}

(* The group and what is above it, as far as parents are recorded.         *)
Chain(d, g) == {h \in Groups : \A S \in SUBSET Groups : g \in S /\ Upward(d, S) => h \in S}

Cyclic(d, g) == \A h \in Chain(d, g) : h \in DOMAIN d.group /\ d.group[h].parent # None
GroupDepth(d, g) == Cardinality(Chain(d, g)) - 1

MayHold(d, p) ==
  p # None => /\ p \in DOMAIN d.group
              /\ ~Cyclic(d, p)
              /\ GroupDepth(d, p) + 1 < MaxDepth

InGroup(f, ls, g) == [l \in DOMAIN f |-> IF l \in ls THEN [f[l] EXCEPT !.group = g] ELSE f[l]]

(* The members' former groups keep them in their lists.                    *)
CreateGroup(d, g, ls, p) ==
  [layer  |-> InGroup(d.layer, ls, g),
   group  |-> [h \in DOMAIN d.group \cup {g} |->
                 IF h = g THEN [parent |-> p, layers |-> ls, groups |-> {}]
                 ELSE IF h = p THEN [d.group[h] EXCEPT !.groups = @ \cup {g}]
                 ELSE d.group[h]],
   active |-> d.active]

(* Neither parent's list of sub-groups is touched.                         *)
UpdateGroup(d, g, p) == [d EXCEPT !.group[g].parent = p]

(* Mutant of Ungroup: sub-groups move up, the parent's list stays.         *)
UngroupParentStays(d, g) ==
  LET old == d.group[g]
  IN  [layer  |-> InGroup(d.layer, old.layers, None),
       group  |-> [h \in DOMAIN d.group \ {g} |->
                     IF h \in old.groups THEN [d.group[h] EXCEPT !.parent = old.parent]
                     ELSE d.group[h]],
       active |-> d.active]

Ungroup(d, g) ==
  LET old == d.group[g]
  IN  [layer  |-> InGroup(d.layer, old.layers, None),
       group  |-> [h \in DOMAIN d.group \ {g} |->
                     IF h \in old.groups THEN [d.group[h] EXCEPT !.parent = old.parent]
                     ELSE IF h = old.parent
                     THEN [d.group[h] EXCEPT !.groups = (@ \ {g}) \cup old.groups]
                     ELSE d.group[h]],
       active |-> d.active]

MoveLayersIntoGroup(d, g, ls) ==
  [layer  |-> InGroup(d.layer, ls, g),
   group  |-> [h \in DOMAIN d.group |->
                 [d.group[h] EXCEPT !.layers = IF h = g THEN @ \cup ls ELSE @ \ ls]],
   active |-> d.active]

RemoveLayerFromGroup(d, l) ==
  [layer  |-> InGroup(d.layer, {l}, None),
   group  |-> [h \in DOMAIN d.group |->
                 IF h = d.layer[l].group THEN [d.group[h] EXCEPT !.layers = @ \ {l}]
                 ELSE d.group[h]],
   active |-> d.active]

-----------------------------------------------------------------------------
(* An id nothing refers to.                                                *)
FreshLayer(l) == /\ l \in Layers \ (Ids(doc) \cup {doc.active})
                 /\ \A g \in DOMAIN doc.group : l \notin doc.group[g].layers
FreshGroup(g) == /\ g \in Groups \ DOMAIN doc.group
                 /\ \A l \in Ids(doc) : doc.layer[l].group # g
                 /\ \A h \in DOMAIN doc.group : doc.group[h].parent # g
                                                /\ g \notin doc.group[h].groups

IsDocument(d) ==
  /\ d = [layer |-> d.layer, group |-> d.group, active |-> d.active]
  /\ DOMAIN d.layer \subseteq Layers /\ DOMAIN d.group \subseteq Groups
  /\ d.layer \in [DOMAIN d.layer -> LayerRecords]
  /\ d.group \in [DOMAIN d.group -> GroupRecords]
  /\ d.active \in Layers \cup {None}

-----------------------------------------------------------------------------
(* No two layers share a position; positions are 0, 1, ... without a gap.  *)
Apart(d)   == \A j, k \in Ids(d) : d.layer[j].at = d.layer[k].at => j = k
Stacked(d) == Apart(d) /\ \A k \in Ids(d) : d.layer[k].at \in 0..(Size(d) - 1)
=============================================================================
