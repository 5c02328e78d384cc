----------------------------- MODULE DocumentHost -----------------------------
(***************************************************************************)
(* A host that keeps a canvas document and calls canvas-core's operations  *)
(* in any order, with any position.  A careful host does without the calls *)
(* that leave a reference behind, and adds inside the stack.               *)
(***************************************************************************)
EXTENDS CanvasDocument

CONSTANTS
  Callers,       \* kinds of host: "free", "careful"
  Places,        \* positions a host passes, in the stack or not
  FreeGroups,    \* bound: ids of the groups of a free host
  FreeLayers,    \* bound: layers of a free host that has groups
  CarefulLayers, \* bound: layers of a careful one
  CarefulSize    \* bound: layers and groups of a careful one

ASSUME HostParameters == Places \subseteq Int

VARIABLES
  caller,  \* "free" or "careful"
  loose    \* history: was a layer put outside the stack since it was last numbered?

Free    == caller = "free"
Grouped == {l \in Ids(doc) : doc.layer[l].group # None}

Small == Size(doc) + Cardinality(DOMAIN doc.group) < CarefulSize
Room  == IF Free THEN DOMAIN doc.group = {} \/ Size(doc) < FreeLayers
         ELSE Size(doc) < CarefulLayers /\ Small

HostInit == caller \in Callers /\ doc = Empty /\ loose = FALSE

Becomes(d)  == doc' = d /\ UNCHANGED <<caller, loose>>
Renumbered(d) == doc' = d /\ loose' = FALSE /\ UNCHANGED caller

(* The last place is the default.                                          *)
HostAdd(l, k, p) ==
  /\ Room /\ FreshLayer(l)
  /\ Free \/ p \in 0..Size(doc)
  /\ doc' = AddLayer(doc, l, [Raster(p, TRUE) EXCEPT !.kind = k])
  /\ loose' = (loose \/ p \notin 0..Size(doc))
  /\ UNCHANGED caller

HostRemove(l) == l \in Ids(doc) /\ Renumbered(RemoveLayer(doc, l))

HostReorder(l, p) == Moves(doc, l, p) /\ Renumbered(ReorderLayer(doc, l, p))

(* A patch with the position the layer has, or with none, moves nothing;   *)
(* nor does one that is clamped to it.                                     *)
HostUpdate(l, p, v) ==
  LET d == UpdateLayer(doc, l, [doc.layer[l] EXCEPT !.at = p, !.visible = v])
  IN  /\ l \in Ids(doc)
      /\ IF p # doc.layer[l].at /\ Moves(doc, l, p) THEN Renumbered(d) ELSE Becomes(d)

(* The patch of a layer may name another group.                            *)
HostRegroup(l, g) ==
  /\ Free /\ l \in Ids(doc) /\ g \in DOMAIN doc.group
  /\ Becomes(UpdateLayer(doc, l, [doc.layer[l] EXCEPT !.group = g]))

HostDuplicate(l, new) ==
  /\ Room /\ l \in Ids(doc) /\ FreshLayer(new)
  /\ Free \/ l \notin Grouped
  /\ Becomes(DuplicateLayer(doc, l, new))

HostMerge(l, b, new) ==
  /\ l \in Ids(doc) /\ b \in Beneath(doc, l) /\ FreshLayer(new)
  /\ doc.layer[l].kind = "paint" /\ doc.layer[b].kind = "paint"
  /\ Free \/ {l, b} \cap (Grouped \cup {doc.active}) = {}
  /\ Renumbered(MergeDown(doc, l, b, new))

HostFlatten(new) ==
  /\ VisiblePaint(doc) # {} /\ FreshLayer(new)
  /\ Free \/ VisiblePaint(doc) \cap (Grouped \cup {doc.active}) = {}
  /\ Renumbered(FlattenVisible(doc, new))

HostActivate(l) == Becomes(SetActiveLayer(doc, l))

\* One fresh id is as good as another.
NewGroup == CHOOSE g \in (IF Free THEN FreeGroups ELSE Groups) : FreshGroup(g)

HostGroup(g, p) ==
  /\ FreshGroup(g)
  /\ IF Free THEN g \in FreeGroups /\ Size(doc) <= FreeLayers ELSE Small
  /\ g = NewGroup
  /\ MayHold(doc, p)
  /\ \E ls \in SUBSET Ids(doc) : /\ Free \/ ls \cap Grouped = {}
                               /\ Becomes(CreateGroup(doc, g, ls, p))

HostReparent(g, p) ==
  /\ Free /\ g \in DOMAIN doc.group
  /\ p # g /\ MayHold(doc, p)
  /\ Becomes(UpdateGroup(doc, g, p))

HostUngroup(g) == g \in DOMAIN doc.group /\ Becomes(Ungroup(doc, g))

HostMove(g) ==
  /\ g \in DOMAIN doc.group
  /\ \E ls \in SUBSET Ids(doc) : Becomes(MoveLayersIntoGroup(doc, g, ls))

HostTakeOut(l) ==
  /\ l \in Grouped
  /\ Becomes(RemoveLayerFromGroup(doc, l))

HostNext ==
  \/ \E l \in Layers, p \in Places :
       \/ \E k \in {"paint", "mask"} : HostAdd(l, k, p)
       \/ HostReorder(l, p)
       \/ \E v \in BOOLEAN : HostUpdate(l, p, v)
  \/ \E l \in Layers : HostRemove(l) \/ HostFlatten(l) \/ HostTakeOut(l)
  \/ \E l \in Layers \cup {None} : HostActivate(l)
  \/ \E l, new \in Layers : HostDuplicate(l, new) \/ \E b \in Layers : HostMerge(l, b, new)
  \/ \E l \in Layers, g \in Groups : HostRegroup(l, g)
  \/ \E g \in Groups, p \in Groups \cup {None} :
       HostReparent(g, p) \/ HostGroup(g, p)
  \/ \E g \in Groups : HostUngroup(g) \/ HostMove(g)

host == <<caller, loose, doc>>

HostSpec == HostInit /\ [][HostNext]_host

-----------------------------------------------------------------------------
(* Each variable has the type the code gives it.                           *)
HostTypeOK == caller \in {"free", "careful"} /\ loose \in BOOLEAN /\ IsDocument(doc)

(* After every sequence of operations, whatever positions they are given,  *)
(* no two layers share a position; and positions are 0, 1, ... without a   *)
(* gap unless a layer was added at a position outside the stack            *)
(* (operations.ts:73) and nothing has numbered the layers since.           *)
PositionsStacked == Apart(doc) /\ (loose \/ Stacked(doc))

(* Both sides of every relation agree: a layer is in the list of the group *)
(* it names and in no other, a group likewise in its parent's, no group is *)
(* too deep and the active layer is there - for a host that does not use   *)
(* the operations that leave a reference behind.                           *)
RelationsAgree ==
  caller = "careful" =>
    /\ \A l \in Ids(doc) : doc.layer[l].group \in DOMAIN doc.group \cup {None}
    /\ \A g \in DOMAIN doc.group :
         /\ doc.group[g].layers = {l \in Ids(doc) : doc.layer[l].group = g}
         /\ doc.group[g].groups = {h \in DOMAIN doc.group : doc.group[h].parent = g}
         /\ doc.group[g].parent \in DOMAIN doc.group \cup {None}
         /\ ~Cyclic(doc, g) /\ GroupDepth(doc, g) < MaxDepth
    /\ doc.active \in Ids(doc) \cup {None}
=============================================================================
