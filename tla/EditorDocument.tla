---------------------------- MODULE EditorDocument ----------------------------
(***************************************************************************)
(* The editor screen's document.  React holds the document, the provider's *)
(* callbacks compute the next one from a ref that is refreshed when the    *)
(* screen renders, the store has the active layer and a snapshot of the    *)
(* layers, and a shared value per layer has the opacity the canvas shows.  *)
(*                                                                         *)
(* `doc` is the document last given to React.  The snapshot is derived     *)
(* from it in the same call, so it is no variable.  A null document is the *)
(* empty one: an open document has a layer.                                *)
(***************************************************************************)
EXTENDS CanvasDocument

CONSTANTS
  Paces,   \* how quick the JS thread may be
  MaxRows  \* bound: layers to which a hurried editor adds

ASSUME PaceParameters == Paces \subseteq {"prompt", "hurried"} /\ MaxRows \in Nat

VARIABLES
  pace,  \* "prompt": the JS thread renders before the next call; "hurried": it may not
  ref,   \* docRef: the document of the last render, whose rows the user sees
  act,   \* activeLayerId of the store
  live   \* the opacity values, by layer

screen == <<ref, act, live>>

InitEditor ==
  /\ pace \in Paces /\ doc = Empty
  /\ ref = Empty /\ act = None /\ live = [l \in {} |-> Full]

Editor == pace = "hurried" \/ ref = doc
Loaded == Editor /\ ref # Empty

Put(f, l, v) == [k \in DOMAIN f \cup {l} |-> IF k = l THEN v ELSE f[k]]

(* The bootstrap: load the sentinel, create a document with one layer,     *)
(* replace the opacity values, activate the layer.                         *)
Open(l) ==
  /\ Editor /\ FreshLayer(l)
  /\ l \notin Ids(ref)
  /\ doc' = AddLayer(Empty, l, Raster(0, TRUE))
  /\ live' = [k \in {l} |-> Full]
  /\ act' = l
  /\ UNCHANGED <<pace, ref>>

(* The canvas asks for the value of each layer it shows.                   *)
Render ==
  /\ ref # doc
  /\ ref' = doc
  /\ live' = [k \in DOMAIN live \cup Ids(doc) |->
                IF k \in DOMAIN live THEN live[k] ELSE doc.layer[k].opacity]
  /\ UNCHANGED <<pace, doc, act>>

AddPaintLayer(l) ==
  /\ Loaded /\ FreshLayer(l)
  /\ l \notin Ids(ref) \cup DOMAIN live \cup {act}
  /\ pace = "hurried" => Size(ref) < MaxRows
  /\ doc' = AddLayer(ref, l, Raster(Size(ref), TRUE))
  /\ live' = Put(live, l, Full)
  /\ act' = l
  /\ UNCHANGED <<pace, ref>>

Bottom(d) == CHOOSE l \in Ids(d) : d.layer[l].at = 0
Top(d)    == CHOOSE l \in Ids(d) : d.layer[l].at = Size(d) - 1

(* Mutant of RemoveLayerById: the fallback is the top of the old stack.    *)
RemoveLayerByIdOldTop(l) ==
  /\ Loaded /\ l \in Ids(ref) /\ l # Bottom(ref)
  /\ doc' = RemoveLayer(ref, l)
  /\ live' = Without(live, {l})
  /\ act' = IF act = l THEN Top(ref) ELSE act
  /\ UNCHANGED <<pace, ref>>

(* The active layer falls back to the top of what is left.                 *)
RemoveLayerById(l) ==
  LET next == RemoveLayer(ref, l)
  IN  /\ Loaded /\ l \in Ids(ref) /\ l # Bottom(ref)
      /\ doc' = next
      /\ live' = Without(live, {l})
      /\ act' = IF act = l THEN Top(next) ELSE act
      /\ UNCHANGED <<pace, ref>>

ReorderRow(l, p) ==
  /\ Loaded /\ l \in Ids(ref)
  /\ p \in 0..Size(ref)
  /\ doc' = ReorderLayer(ref, l, p)
  /\ UNCHANGED <<pace, screen>>

(* The opacity value is written first.                                     *)
PatchOpacity(l, o) ==
  /\ Loaded /\ l \in Ids(ref)
  /\ live' = Put(live, l, o)
  /\ doc' = UpdateLayer(ref, l, [ref.layer[l] EXCEPT !.opacity = o])
  /\ UNCHANGED <<pace, ref, act>>

SelectRow(l) ==
  /\ Loaded /\ l \in Ids(ref)
  /\ act' = l
  /\ UNCHANGED <<pace, doc, ref, live>>

EditorStep ==
  \/ Render
  \/ \E l \in Layers : \/ Open(l) \/ AddPaintLayer(l) \/ RemoveLayerById(l) \/ SelectRow(l)
                       \/ \E p \in 0..Cardinality(Layers) : ReorderRow(l, p)
                       \/ \E o \in Opacities : PatchOpacity(l, o)

-----------------------------------------------------------------------------
(* An open document never loses its last layer, even if rows are removed   *)
(* and moved between two renders.  When every call is followed by a render *)
(* the active layer is one of the document's, and the canvas shows each    *)
(* layer at the opacity that would be saved.                               *)
EditorAgrees ==
  ref # Empty =>
    /\ doc # Empty
    /\ pace = "prompt" =>
         /\ act \in Ids(doc)
         /\ DOMAIN live \subseteq Ids(doc)
         /\ \A l \in DOMAIN live : live[l] = doc.layer[l].opacity
=============================================================================
