------------------------------ MODULE MC_UndoRedo ------------------------------
(* Instances of UndoRedo for TLC: which document, handler and layers each   *)
(* target of the small model stands for.                                    *)
EXTENDS UndoRedo, TLC

CONSTANTS d1, raster, transform, selection, mask

(* One document.  The raster and the transform belong to the same layer;    *)
(* the selection and the mask helpers declare no affected layers.           *)
MCDocOf == [x \in Targets |-> d1]

MCKindOf == [x \in Targets |-> CASE x = raster    -> "paint"
                                 [] x = transform -> "sync"
                                 [] x = selection -> "wand"
                                 [] x = mask      -> "legacy"]

MCAffects == [x \in Targets |-> IF x \in {raster, transform} THEN {"layer"} ELSE {}]

CmdSymmetry == Permutations(Cmds)
=============================================================================
