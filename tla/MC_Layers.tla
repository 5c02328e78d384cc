------------------------------ MODULE MC_Layers ------------------------------
(* Instance for TLC of the three keepers of layers.  A behaviour has the   *)
(* editor and its brush (Strokes), a host of canvas-core's document        *)
(* (DocumentHost), or the server's rows (Masks).  Layer ids are            *)
(* interchangeable.                                                        *)
EXTENDS Strokes, DocumentHost, Masks, TLC

VARIABLE side

AllPlaces == (0-1)..2

editing == <<pace, ref, act, live, touch, armed, skip, js, ui, stroke, shown, renderers, ink, late>>

NoServer == /\ callers = "serial" /\ rows = <<>> /\ sel = NoSelection
            /\ call = [c \in Calls |-> Idle] /\ done = <<>> /\ at = 0
NoEditor == Init /\ pace = "prompt"
NoHost   == caller = "editor" /\ loose = FALSE

LayersInit ==
  \/ side = "editor" /\ Init     /\ NoHost   /\ NoServer
  \/ side = "host"   /\ HostInit /\ NoEditor /\ NoServer
  \/ side = "server" /\ RowsInit /\ NoEditor /\ NoHost

LayersNext ==
  \/ side = "editor" /\ Next     /\ UNCHANGED <<side, caller, loose, tables>>
  \/ side = "host"   /\ HostNext /\ UNCHANGED <<side, editing, tables>>
  \/ side = "server" /\ RowsNext /\ UNCHANGED <<side, host, editing>>

LayersSpec == LayersInit /\ [][LayersNext]_<<side, host, editing, tables>>

LayerSymmetry == Permutations(Layers)
=============================================================================
