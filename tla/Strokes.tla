-------------------------------- MODULE Strokes --------------------------------
(***************************************************************************)
(* A brush stroke from touch to layer, beside the layers panel.  Touch     *)
(* events, the stroke and its surfaces live on the UI thread; when a touch *)
(* begins, one call goes to the JS thread, which reads the store, finds or *)
(* makes the layer's surface, and sends the begin of the stroke back.      *)
(* `js` and `ui` are the calls under way.  Touches are numbered; the       *)
(* stroke of a touch has its number.                                       *)
(***************************************************************************)
EXTENDS EditorDocument, Sequences

CONSTANT MaxTouches  \* bound: touches

ASSUME TouchParameters == MaxTouches \in Nat

VARIABLES
  touch,      \* the last touch, and whether it is down
  armed,      \* strokeActiveSV
  skip,       \* skipStrokeSV
  js,         \* touches whose begin is on its way to the JS thread
  ui,         \* begins on their way back: the touch, and the layer unless it failed
  stroke,     \* strokeState: the stroke in progress, its layer, whose points it has
  shown,      \* the stroke activeStrokeImage shows, or 0
  renderers,  \* strokes whose renderer holds a surface
  ink,        \* the strokes drawn onto layer surfaces, in order
  late        \* history: the begins that came when their touch was no longer down

canvas == <<touch, armed, skip, js, ui, stroke, shown, renderers, ink, late>>
vars == <<doc, pace, ref, act, live, touch, armed, skip, js, ui, stroke, shown,
          renderers, ink, late>>

NoStroke == [is |-> 0, layer |-> None, points |-> {}]

Init ==
  /\ InitEditor
  /\ touch = [n |-> 0, down |-> FALSE]
  /\ armed = FALSE /\ skip = FALSE
  /\ js = <<>> /\ ui = <<>>
  /\ stroke = NoStroke /\ shown = 0 /\ renderers = {} /\ ink = <<>>
  /\ late = {}

(* A prompt JS thread has answered a touch before the finger moves again.  *)
Answered == pace = "hurried" \/ (js = <<>> /\ ui = <<>>)

-----------------------------------------------------------------------------
(* The pipeline's worklets.                                                *)

(* Renderer and expander are disposed of, the overlay is taken down.       *)
StrokeEnds ==
  /\ renderers' = renderers \ {stroke.is}
  /\ shown' = 0
  /\ stroke' = NoStroke

(* Mutant of Commit: the stroke is drawn and goes on.                      *)
CommitGoesOn ==
  /\ shown' = 0
  /\ UNCHANGED <<stroke, renderers>>
  /\ ink' = IF stroke.is = 0 THEN ink ELSE Append(ink, stroke)

(* The stroke's image is drawn onto the surface the begin captured; if     *)
(* that fails the stroke ends all the same.                                *)
Commit ==
  IF stroke.is = 0 THEN UNCHANGED <<stroke, shown, renderers, ink>>
  ELSE /\ StrokeEnds
       /\ \/ ink' = Append(ink, stroke)
          \/ UNCHANGED ink

(* Mutant of Cancel: the stroke's state is reset, its renderer is not.     *)
CancelForgets == /\ shown' = 0 /\ stroke' = NoStroke
                 /\ UNCHANGED <<renderers, ink>>

Cancel ==
  IF stroke.is = 0 THEN shown' = 0 /\ UNCHANGED <<stroke, renderers, ink>>
  ELSE StrokeEnds /\ UNCHANGED ink

-----------------------------------------------------------------------------
(* The gesture's callbacks.                                                *)

(* The first event of a pencil may have no pressure: the touch is skipped. *)
TouchBegins(light) ==
  /\ ~touch.down /\ touch.n < MaxTouches
  /\ Answered
  /\ doc # Empty
  /\ touch' = [n |-> touch.n + 1, down |-> TRUE]
  /\ armed' = FALSE
  /\ skip' = light
  /\ js' = IF light THEN js ELSE Append(js, touch.n + 1)
  /\ UNCHANGED <<doc, pace, screen, ui, stroke, shown, renderers, ink, late>>

(* A point is pushed to the stroke in progress, or the renderer fails.     *)
TouchMoves ==
  /\ touch.down /\ Answered
  /\ ~skip /\ armed /\ stroke.is # 0
  /\ \/ /\ stroke' = [stroke EXCEPT !.points = @ \cup {touch.n}]
        /\ shown' = stroke.is
        /\ UNCHANGED renderers
     \/ StrokeEnds
  /\ UNCHANGED <<doc, pace, screen, touch, armed, skip, js, ui, ink, late>>

(* onEnd commits, and onFinalize right after it finds nothing armed; in a  *)
(* skipped touch onEnd returns, and onFinalize cancels what a late begin   *)
(* armed.                                                                  *)
TouchEnds ==
  /\ touch.down /\ Answered
  /\ touch' = [touch EXCEPT !.down = FALSE]
  /\ IF ~armed THEN UNCHANGED <<stroke, shown, renderers, ink>>
     ELSE IF skip THEN Cancel ELSE Commit
  /\ armed' = FALSE /\ skip' = FALSE
  /\ UNCHANGED <<doc, pace, screen, js, ui, late>>

(* A second finger or the system takes over: onFinalize alone.             *)
TouchBreaks ==
  /\ touch.down /\ Answered
  /\ touch' = [touch EXCEPT !.down = FALSE]
  /\ IF armed THEN Cancel ELSE UNCHANGED <<stroke, shown, renderers, ink>>
  /\ armed' = FALSE /\ skip' = FALSE
  /\ UNCHANGED <<doc, pace, screen, js, ui, late>>

-----------------------------------------------------------------------------
(* The way to the JS thread and back.                                      *)

(* beginBrushStroke: without an active layer there is no stroke.  The      *)
(* surface may not be had; the touch is armed nevertheless.                *)
BeginBrushStroke ==
  /\ js # <<>>
  /\ js' = Tail(js)
  /\ IF act = None THEN UNCHANGED ui
     ELSE \E l \in {act, None} : ui' = Append(ui, [is |-> Head(js), layer |-> l])
  /\ UNCHANGED <<doc, pace, screen, touch, armed, skip, stroke, shown, renderers, ink, late>>

(* The write of strokeActiveSV and the begin are one batch.  A stroke      *)
(* still in progress is replaced without being ended.                      *)
WorkletBegin ==
  /\ ui # <<>>
  /\ ui' = Tail(ui)
  /\ armed' = TRUE
  /\ LET job == Head(ui) IN
       /\ late' = IF touch.down /\ touch.n = job.is THEN late ELSE late \cup {job.is}
       /\ \/ /\ job.layer # None
             /\ stroke' = [is |-> job.is, layer |-> job.layer, points |-> {job.is}]
             /\ shown' = job.is
             /\ renderers' = renderers \cup {job.is}
          \/ /\ job.layer # None  \* the renderer fails
             /\ stroke' = NoStroke /\ shown' = 0
             /\ UNCHANGED renderers
          \/ /\ job.layer = None
             /\ UNCHANGED <<stroke, shown, renderers>>
  /\ UNCHANGED <<doc, pace, screen, touch, skip, js, ink>>

-----------------------------------------------------------------------------
Draw == \/ TouchMoves \/ TouchEnds \/ TouchBreaks \/ BeginBrushStroke \/ WorkletBegin
        \/ \E light \in BOOLEAN : TouchBegins(light)

Next == Draw \/ (EditorStep /\ UNCHANGED canvas)

Spec == Init /\ [][Next]_vars

Strokes == [is : Nat, layer : Layers \cup {None}, points : SUBSET Nat]

(* Each variable has the type the code gives it.                           *)
TypeOK ==
  /\ IsDocument(doc)
  /\ pace \in {"prompt", "hurried"}
  /\ IsDocument(ref) /\ act \in Layers \cup {None}
  /\ DOMAIN live \subseteq Layers /\ live \in [DOMAIN live -> Opacities]
  /\ touch \in [n : Nat, down : BOOLEAN]
  /\ armed \in BOOLEAN /\ skip \in BOOLEAN
  /\ js \in Seq(Nat) /\ ui \in Seq([is : Nat, layer : Layers \cup {None}])
  /\ stroke \in Strokes /\ shown \in Nat /\ renderers \in SUBSET Nat
  /\ ink \in Seq(Strokes) /\ late \in SUBSET Nat

(* However late begins arrive, no stroke is drawn twice, and one that is   *)
(* drawn is over: it is not in progress and its renderer holds no surface. *)
DrawnOnce ==
  /\ \A i, j \in 1..Len(ink) : ink[i].is = ink[j].is => i = j
  /\ \A i \in 1..Len(ink) : stroke.is # ink[i].is /\ ink[i].is \notin renderers

(* When no touch is down and no begin is under way, a stroke in progress   *)
(* or shown, a surface held and a raised strokeActiveSV are left over from *)
(* a begin that came too late for its touch; every other stroke that is    *)
(* drawn has the points of its own touch.  A JS thread that answers before *)
(* the finger moves again has no such begin.                               *)
CanvasAtRest ==
  /\ pace = "prompt" => late = {}
  /\ (~touch.down /\ js = <<>> /\ ui = <<>>) =>
       /\ {stroke.is, shown} \cup renderers \subseteq late \cup {0}
       /\ armed => late # {}
  /\ \A i \in 1..Len(ink) : /\ ink[i].layer # None
                            /\ ink[i].is \in late \/ ink[i].points = {ink[i].is}
=============================================================================
