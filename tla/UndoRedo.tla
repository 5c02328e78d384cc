------------------------------- MODULE UndoRedo -------------------------------
(***************************************************************************)
(* UndoRedoManager (undo-redo/manager.ts) with the handlers that call      *)
(* execute, the undo and redo tools, the legacy enrolment middleware, the  *)
(* per-token ConnectionTracker, token revocation and the EvictionPolicy.   *)
(*                                                                         *)
(* The server is one Node process: code between two awaits is one step.    *)
(* An action below is such a segment, named for what it does; everything   *)
(* another request can do between two segments is an interleaving here.    *)
(*                                                                         *)
(* The canvas is the content of a few targets: the raster of a layer, its  *)
(* transform, a document's selection.  Content is abstracted to the set of *)
(* commands baked into it.  A command captures the content it starts from  *)
(* (prior), apply() writes prior plus itself, revert() writes prior back.  *)
(***************************************************************************)
EXTENDS UndoStack, FiniteSets, SequencesExt

CONSTANTS
  Tokens,          \* callers
  Tracked,         \* those on HTTP: sessions are counted, tokens can be revoked
  Stdio,           \* those on stdio: token_id is null (the rest is in-memory)
  Docs,
  Cmds,            \* pool of command identities, each used once
  Targets,         \* rasters, transforms, selections
  DocOf,           \* [Targets -> Docs]
  KindOf,          \* [Targets -> Kinds]: which handler edits the target
  Affects,         \* [Targets -> SUBSET layers]: affected_layer_ids
  Floor,           \* floor_ops_per_stack
  Budget,          \* max_total_memory_bytes, in units of one command
  SnapshotCost,    \* size of a snapshot, in the same unit
  MaxRequests,     \* bound: requests admitted in a behaviour
  MaxRestarts,     \* bound: server stops
  MaxTicks,        \* bound: eviction timer ticks
  Failing          \* which apply() calls may reject: "execute", "redo"

(* How a handler reaches execute:                                          *)
(*   sync   transform_layer, set_selection of a primitive shape: apply()   *)
(*          writes before its first await                                  *)
(*   paint  paint_strokes: apply() reads and writes blobs, then the row    *)
(*   wand   set_selection of a magic wand: reads a blob before execute     *)
(*   legacy the mask and selection helpers that are enrolled afterwards    *)
Kinds == {"sync", "paint", "wand", "legacy"}

ASSUME Parameters ==
  /\ Tokens # {} /\ Targets # {}
  /\ Tracked \subseteq Tokens /\ Stdio \subseteq Tokens \ Tracked
  /\ DocOf \in [Targets -> Docs]
  /\ KindOf \in [Targets -> Kinds]
  /\ {Floor, Budget, SnapshotCost, MaxRequests, MaxRestarts, MaxTicks} \subseteq Nat
  /\ Failing \subseteq {"execute", "redo"}

VARIABLES
  mapped,      \* keys present in manager.stacks
  stacks,      \* [Keys -> stack]; EmptyStack where the key is absent
  stage,       \* [Cmds -> Stages]: where the request of a command stands
  cmd,         \* [Cmds -> [tok, target, prior]]: the command's closure
  flight,      \* [Cmds -> [live, clash, snap]]: execute's local variables
  redoing,     \* [Cmds -> Nat]: redo calls awaiting this command's apply()
  content,     \* [Targets -> SUBSET Cmds]: the canvas
  recent,      \* document.changed events inside conflict_window_ms
  announced,   \* [Cmds -> how its document.changed event was published]
  admitted,    \* [Tokens -> Nat]: requests past authMw, handler not begun
  sessions,    \* ConnectionTracker.counts
  timers,      \* keys of manager.disconnectTimers
  revoked,     \* tokens with revoked_at set
  sweep,       \* EvictionPolicy.run: "idle" or the pass it is in
  used,        \* [requests, restarts, ticks]: consumption of the bounds
  mixed,       \* history: targets on which requests overlapped or a redo failed
  missed       \* history: commands overtaken after their search for conflicts

canvas == <<content, cmd>>
conn   == <<admitted, sessions, timers, revoked>>
marks  == <<mixed, missed>>
vars   == <<mapped, stacks, stage, cmd, flight, redoing, content, recent,
            announced, admitted, sessions, timers, revoked, sweep, used, marks>>

Stages == {"idle", "captured", "applying", "applied", "snapped", "enrolling", "done"}

(* Stack keys.  The legacy surface keys by token name; the stdio peer has  *)
(* no id, so its commands fall back to the name and share that stack.      *)
Keys == Tokens \X Docs \X {"id", "name"}


IdKey(t, d)   == <<t, d, IF t \in Stdio THEN "name" ELSE "id">>
NameKey(t, d) == <<t, d, "name">>

KeyOf(c) == IdKey(cmd[c].tok, DocOf[cmd[c].target])

TokenKeys(t) == {k \in Keys : k[1] = t /\ k[3] = "id"}

(* Each variable has the type the code gives it.                           *)
TypeOK ==
  /\ mapped \in SUBSET Keys
  /\ stacks \in [Keys -> StackOf(Cmds)]
  /\ stage \in [Cmds -> Stages]
  /\ cmd \in [Cmds -> [tok : Tokens, target : Targets, prior : SUBSET Cmds]]
  /\ flight \in [Cmds -> [live : BOOLEAN, clash : BOOLEAN, snap : BOOLEAN]]
  /\ redoing \in [Cmds -> Nat]
  /\ content \in [Targets -> SUBSET Cmds]
  /\ recent \in Seq([tok : Tokens, target : Targets])
  /\ announced \in [Cmds -> {"no", "clean", "conflict"}]
  /\ admitted \in [Tokens -> Nat]
  /\ sessions \in [Tokens -> Nat]
  /\ timers \in SUBSET Tokens
  /\ revoked \in SUBSET Tokens
  /\ sweep \in {"idle", "snapshots", "commands"}
  /\ used \in [requests : Nat, restarts : Nat, ticks : Nat]
  /\ mixed \in SUBSET Targets
  /\ missed \in SUBSET Cmds

NoLocals == [live |-> FALSE, clash |-> FALSE, snap |-> FALSE]

Init ==
  /\ mapped = {}
  /\ stacks = [k \in Keys |-> EmptyStack]
  /\ stage = [c \in Cmds |-> "idle"]
  /\ cmd = [c \in Cmds |-> [tok |-> CHOOSE t \in Tokens : TRUE,
                             target |-> CHOOSE x \in Targets : TRUE, prior |-> {}]]
  /\ flight = [c \in Cmds |-> NoLocals]
  /\ redoing = [c \in Cmds |-> 0]
  /\ content = [x \in Targets |-> {}]
  /\ recent = <<>>
  /\ announced = [c \in Cmds |-> "no"]
  /\ admitted = [t \in Tokens |-> 0]
  /\ sessions = [t \in Tokens |-> 0]
  /\ timers = {}
  /\ revoked = {}
  /\ sweep = "idle"
  /\ used = [requests |-> 0, restarts |-> 0, ticks |-> 0]
  /\ mixed = {} /\ missed = {}

(* The eviction pass is synchronous: nothing else moves while it runs.     *)
Running == sweep = "idle"

-----------------------------------------------------------------------------
(* Requests and sessions.                                                  *)

(* A request of t passes authentication; on HTTP the transport acquires,   *)
(* and the first live session of a token cancels its pending discard.      *)
Admit(t) ==
  /\ Running
  /\ t \notin revoked
  /\ used.requests < MaxRequests
  /\ admitted' = [admitted EXCEPT ![t] = @ + 1]
  /\ IF t \in Tracked
     THEN /\ sessions' = [sessions EXCEPT ![t] = @ + 1]
          /\ timers' = IF sessions[t] = 0 THEN timers \ {t} ELSE timers
     ELSE UNCHANGED <<sessions, timers>>
  /\ used' = [used EXCEPT !.requests = @ + 1]
  /\ UNCHANGED <<mapped, stacks, stage, flight, redoing, recent, announced,
                 revoked, sweep, canvas, marks>>

(* Mutant of Release: a grace timer is armed only for a token with stacks. *)
ReleaseStackedOnly(t) ==
  /\ Running
  /\ sessions[t] > 0
  /\ sessions' = [sessions EXCEPT ![t] = @ - 1]
  /\ timers' = IF sessions[t] = 1 /\ \E k \in mapped : k \in TokenKeys(t)
               THEN timers \cup {t} ELSE timers
  /\ UNCHANGED <<mapped, stacks, stage, flight, redoing, recent, announced,
                 admitted, revoked, sweep, used, canvas, marks>>

(* handleRequest hands the message to the SDK and returns, whether or not  *)
(* the handler it started is still running: release is not tied to it.     *)
Release(t) ==
  /\ Running
  /\ sessions[t] > 0
  /\ sessions' = [sessions EXCEPT ![t] = @ - 1]
  /\ timers' = IF sessions[t] = 1 THEN timers \cup {t} ELSE timers
  /\ UNCHANGED <<mapped, stacks, stage, flight, redoing, recent, announced,
                 admitted, revoked, sweep, used, canvas, marks>>

(* The stacks that keys K name leave the map; an execute that still holds  *)
(* one of them goes on with an orphan nobody else can reach.               *)
Discard(K) ==
  /\ mapped' = mapped \ K
  /\ stacks' = [k \in Keys |-> IF k \in K THEN EmptyStack ELSE stacks[k]]
  /\ flight' = [c \in Cmds |->
                 [flight[c] EXCEPT !.live = flight[c].live /\ KeyOf(c) \notin K]]

(* The grace period (retain_after_disconnect_seconds) runs out.  It is     *)
(* assumed longer than what a handler does before it calls execute.        *)
BeforeExecute(t) ==
  admitted[t] > 0 \/ \E c \in Cmds : stage[c] = "captured" /\ cmd[c].tok = t

GraceExpires(t) ==
  /\ Running
  /\ t \in timers
  /\ ~BeforeExecute(t)
  /\ Discard(TokenKeys(t))
  /\ timers' = timers \ {t}
  /\ UNCHANGED <<stage, redoing, recent, announced, admitted, sessions,
                 revoked, sweep, used, canvas, marks>>

(* revokeToken publishes auth.token-revoked; the server's subscription     *)
(* calls discardForToken.                                                  *)
Revoke(t) ==
  /\ Running
  /\ t \in Tracked \ revoked
  /\ revoked' = revoked \cup {t}
  /\ Discard(TokenKeys(t))
  /\ timers' = timers \ {t}
  /\ UNCHANGED <<stage, redoing, recent, announced, admitted, sessions,
                 sweep, used, canvas, marks>>

(* discardAll in server.stop(), and the next start: every request in       *)
(* flight is lost, the canvas and the revocations are in SQLite.           *)
Restart ==
  /\ Running
  /\ used.restarts < MaxRestarts
  /\ used' = [used EXCEPT !.restarts = @ + 1]
  /\ mapped' = {}
  /\ stacks' = [k \in Keys |-> EmptyStack]
  /\ flight' = [c \in Cmds |-> NoLocals]
  /\ stage' = [c \in Cmds |-> IF stage[c] = "idle" THEN "idle" ELSE "done"]
  /\ redoing' = [c \in Cmds |-> 0]
  /\ recent' = <<>>
  /\ admitted' = [t \in Tokens |-> 0]
  /\ sessions' = [t \in Tokens |-> 0]
  /\ timers' = {}
  /\ sweep' = "idle"
  /\ mixed' = {} /\ missed' = {}
  /\ UNCHANGED <<announced, revoked, canvas>>

-----------------------------------------------------------------------------
(* execute: from the handler to the push.                                  *)

InFlight(c) == stage[c] \notin {"idle", "done"} \/ redoing[c] > 0

(* A request takes up x; whether it finds another one in flight there.     *)
Mixing(x) ==
  IF \E c \in Cmds : InFlight(c) /\ cmd[c].target = x THEN mixed \cup {x} ELSE mixed

Apply(c) == content' = [content EXCEPT ![cmd'[c].target] = cmd'[c].prior \cup {c}]

Overlaps(t, x) ==
  \E i \in DOMAIN recent : /\ recent[i].tok # t
                           /\ Affects[recent[i].target] \cap Affects[x] # {}

(* Mutant of EnterExecute: only the latest event is looked at.             *)
EnterExecuteLatestOnly(c, t, x) ==
  /\ mapped' = mapped \cup {IdKey(t, DocOf[x])}
  /\ flight' = [flight EXCEPT ![c] =
       [live |-> TRUE, snap |-> FALSE,
        clash |-> /\ recent # <<>>
                  /\ recent[Len(recent)].tok # t
                  /\ Affects[recent[Len(recent)].target] \cap Affects[x] # {}]]

(* The head of execute: the stack is looked up or created and the recent   *)
(* events are searched before apply() is called.                           *)
EnterExecute(c, t, x) ==
  /\ mapped' = mapped \cup {IdKey(t, DocOf[x])}
  /\ flight' = [flight EXCEPT ![c] = [live |-> TRUE, clash |-> Overlaps(t, x),
                                      snap |-> FALSE]]

(* The handler of an admitted request begins: it reads the content it      *)
(* will compute from and restore, and goes on to its first await.          *)
Begin(c, t, x) ==
  /\ Running
  /\ stage[c] = "idle"
  /\ admitted[t] > 0
  /\ admitted' = [admitted EXCEPT ![t] = @ - 1]
  /\ mixed' = Mixing(x)
  /\ cmd' = [cmd EXCEPT ![c] = [tok |-> t, target |-> x, prior |-> content[x]]]
  /\ UNCHANGED <<stacks, redoing, recent, announced, sessions, timers,
                 revoked, sweep, used, missed>>

BeginSync(c, t, x) ==
  /\ KindOf[x] = "sync"
  /\ Begin(c, t, x)
  /\ EnterExecute(c, t, x)
  /\ Apply(c)
  /\ stage' = [stage EXCEPT ![c] = "applied"]

BeginPaint(c, t, x) ==
  /\ KindOf[x] = "paint"
  /\ Begin(c, t, x)
  /\ EnterExecute(c, t, x)
  /\ stage' = [stage EXCEPT ![c] = "applying"]
  /\ UNCHANGED content

BeginWand(c, t, x) ==
  /\ KindOf[x] = "wand"
  /\ Begin(c, t, x)
  /\ stage' = [stage EXCEPT ![c] = "captured"]
  /\ UNCHANGED <<mapped, flight, content>>

(* The legacy handlers mutate by themselves and leave a command behind.    *)
BeginLegacy(c, t, x) ==
  /\ KindOf[x] = "legacy"
  /\ Begin(c, t, x)
  /\ Apply(c)
  /\ stage' = [stage EXCEPT ![c] = "enrolling"]
  /\ UNCHANGED <<mapped, flight>>

ExecuteWand(c) ==
  /\ Running
  /\ stage[c] = "captured"
  /\ UNCHANGED cmd
  /\ EnterExecute(c, cmd[c].tok, cmd[c].target)
  /\ Apply(c)
  /\ stage' = [stage EXCEPT ![c] = "applied"]
  /\ UNCHANGED <<stacks, redoing, recent, announced, sweep, used, conn, marks>>

PaintWrites(c) ==
  /\ Running
  /\ stage[c] = "applying"
  /\ UNCHANGED cmd
  /\ Apply(c)
  /\ stage' = [stage EXCEPT ![c] = "applied"]
  /\ UNCHANGED <<mapped, stacks, flight, redoing, recent, announced, sweep, used, conn, marks>>

(* Mutant of PaintFails: the rejection is swallowed and execute goes on.   *)
PaintFailsSwallowed(c) ==
  /\ Running
  /\ "execute" \in Failing
  /\ stage[c] = "applying"
  /\ stage' = [stage EXCEPT ![c] = "applied"]
  /\ UNCHANGED <<mapped, stacks, flight, redoing, recent, announced, sweep, used, conn, canvas, marks>>

PaintFails(c) ==
  /\ Running
  /\ "execute" \in Failing
  /\ stage[c] = "applying"
  /\ stage' = [stage EXCEPT ![c] = "done"]
  /\ flight' = [flight EXCEPT ![c] = NoLocals]
  /\ UNCHANGED <<mapped, stacks, redoing, recent, announced, sweep, used, conn, canvas, marks>>

(* maybeSnapshot: whether the coming push lands on the cadence.  An orphan *)
(* stack is not tracked, and what it would answer is never read.           *)
Snapshot(c) ==
  /\ Running
  /\ stage[c] = "applied"
  /\ flight' = [flight EXCEPT ![c].snap = flight[c].live /\ DueForSnapshot(stacks[KeyOf(c)])]
  /\ stage' = [stage EXCEPT ![c] = "snapped"]
  /\ UNCHANGED <<mapped, stacks, redoing, recent, announced, sweep, used, conn, canvas, marks>>

(* Commands of other tokens on a layer c touches that are past their       *)
(* search and will not see c's event.                                      *)
Overtaken(c) ==
  {e \in Cmds : /\ stage[e] \in {"applying", "applied", "snapped"} /\ cmd[e].tok # cmd[c].tok
               /\ Affects[cmd[e].target] \cap Affects[cmd[c].target] # {}}

(* The tail of execute: push and publish document.changed.                 *)
Finish(c) ==
  /\ Running
  /\ stage[c] = "snapped"
  /\ stacks' = IF flight[c].live
               THEN [stacks EXCEPT ![KeyOf(c)] = Push(@, c, flight[c].snap)]
               ELSE stacks
  /\ announced' = [announced EXCEPT ![c] = IF flight[c].clash THEN "conflict" ELSE "clean"]
  /\ recent' = Append(recent, [tok |-> cmd[c].tok, target |-> cmd[c].target])
  /\ stage' = [stage EXCEPT ![c] = "done"]
  /\ flight' = [flight EXCEPT ![c] = NoLocals]
  /\ missed' = missed \cup Overtaken(c)
  /\ UNCHANGED <<mapped, redoing, sweep, used, conn, canvas, mixed>>

(* reversibleCommandMw -> enrol: pushed under the token's name, no         *)
(* snapshot, no event.                                                     *)
Enrol(c) ==
  LET k == NameKey(cmd[c].tok, DocOf[cmd[c].target])
  IN  /\ Running
      /\ stage[c] = "enrolling"
      /\ mapped' = mapped \cup {k}
      /\ stacks' = [stacks EXCEPT ![k] = Push(@, c, FALSE)]
      /\ stage' = [stage EXCEPT ![c] = "done"]
      /\ UNCHANGED <<flight, redoing, recent, announced, sweep, used, conn, canvas, marks>>

(* Time passes: the oldest event leaves the conflict window.               *)
WindowPasses ==
  /\ Running
  /\ recent # <<>>
  /\ recent' = Tail(recent)
  /\ UNCHANGED <<mapped, stacks, stage, flight, redoing, announced, sweep, used,
                 conn, canvas, marks>>

-----------------------------------------------------------------------------
(* The undo and redo tools.                                                *)

Consume(t) ==
  /\ Running
  /\ admitted[t] > 0
  /\ admitted' = [admitted EXCEPT ![t] = @ - 1]
  /\ UNCHANGED <<mapped, stage, flight, recent, announced, sessions, timers,
                 revoked, sweep, used, cmd, missed>>

(* popUndo, then revert(), which writes before its first await.            *)
Undo(t, d) ==
  LET k == IdKey(t, d)
      s == stacks[k]
      c == s.undo[Len(s.undo)]
  IN  /\ s.undo # <<>>
      /\ Consume(t)
      /\ mixed' = Mixing(cmd[c].target)
      /\ stacks' = [stacks EXCEPT ![k] = PopUndo(@)]
      /\ content' = [content EXCEPT ![cmd[c].target] = cmd[c].prior]
      /\ UNCHANGED redoing

(* popRedo, then apply(), which for paint writes only after its awaits.    *)
Redo(t, d) ==
  LET k == IdKey(t, d)
      s == stacks[k]
      c == s.redo[Len(s.redo)]
  IN  /\ s.redo # <<>>
      /\ Consume(t)
      /\ mixed' = Mixing(cmd[c].target)
      /\ stacks' = [stacks EXCEPT ![k] = PopRedo(@)]
      /\ IF KindOf[cmd[c].target] = "paint"
         THEN /\ redoing' = [redoing EXCEPT ![c] = @ + 1]
              /\ UNCHANGED content
         ELSE /\ content' = [content EXCEPT ![cmd[c].target] = cmd[c].prior \cup {c}]
              /\ UNCHANGED redoing

(* Both answer no_op when there is no stack or the stack is empty.         *)
NoOp(t, d) ==
  /\ \/ stacks[IdKey(t, d)].undo = <<>>
     \/ stacks[IdKey(t, d)].redo = <<>>
  /\ Consume(t)
  /\ UNCHANGED <<stacks, redoing, content, mixed>>

RedoWrites(c) ==
  /\ Running
  /\ redoing[c] > 0
  /\ redoing' = [redoing EXCEPT ![c] = @ - 1]
  /\ UNCHANGED cmd
  /\ Apply(c)
  /\ UNCHANGED <<mapped, stacks, stage, flight, recent, announced, sweep, used, conn, marks>>

RedoFails(c) ==
  /\ Running
  /\ "redo" \in Failing
  /\ redoing[c] > 0
  /\ redoing' = [redoing EXCEPT ![c] = @ - 1]
  /\ mixed' = mixed \cup {cmd[c].target}
  /\ UNCHANGED <<mapped, stacks, stage, flight, recent, announced, sweep, used,
                 conn, canvas, missed>>

-----------------------------------------------------------------------------
(* EvictionPolicy.run.  The pass is synchronous; one iteration of a loop   *)
(* is one step here and nothing else moves until the pass is over.  Which  *)
(* of several candidate stacks or snapshots goes first follows insertion   *)
(* order in the code and is left open here.                                *)

StackCost(s) == Depth(s) + SnapshotCost * SnapshotCount(s)

Total(st, K) == MapThenSumSet(LAMBDA k : StackCost(st[k]), K)

OverBudget == Total(stacks, mapped) > Budget

HasSnapshot(k) == \E i \in Slots : stacks[k].anchors[i] > 0

Deepest(k) == /\ k \in mapped
              /\ \A j \in mapped : Len(stacks[j].undo) <= Len(stacks[k].undo)

SweepFrame == UNCHANGED <<mapped, stage, flight, redoing, recent, announced, conn, canvas, marks>>

EvictionTick ==
  /\ sweep = "idle"
  /\ used.ticks < MaxTicks
  /\ Budget > 0
  /\ OverBudget
  /\ used' = [used EXCEPT !.ticks = @ + 1]
  /\ sweep' = "snapshots"
  /\ UNCHANGED stacks
  /\ SweepFrame

EvictSnapshot ==
  /\ sweep = "snapshots"
  /\ OverBudget
  /\ \E k \in mapped, i \in Slots :
       /\ stacks[k].anchors[i] > 0
       /\ stacks' = [stacks EXCEPT ![k] = EvictSnapshotAt(@, i)]
  /\ UNCHANGED <<sweep, used>>
  /\ SweepFrame

SnapshotPassEnds ==
  /\ sweep = "snapshots"
  /\ ~OverBudget \/ ~\E k \in mapped : HasSnapshot(k)
  /\ sweep' = "commands"
  /\ UNCHANGED <<stacks, used>>
  /\ SweepFrame

(* Mutant of EvictCommand: a stack at the floor still loses a command.     *)
EvictCommandAtFloor ==
  /\ sweep = "commands"
  /\ OverBudget
  /\ \E k \in mapped :
       /\ Deepest(k)
       /\ Len(stacks[k].undo) >= Floor
       /\ stacks' = [stacks EXCEPT ![k] = ShiftOldestUndo(@)]
  /\ UNCHANGED <<sweep, used>>
  /\ SweepFrame

EvictCommand ==
  /\ sweep = "commands"
  /\ OverBudget
  /\ \E k \in mapped :
       /\ Deepest(k)
       /\ Len(stacks[k].undo) > Floor
       /\ stacks' = [stacks EXCEPT ![k] = ShiftOldestUndo(@)]
  /\ UNCHANGED <<sweep, used>>
  /\ SweepFrame

(* Mutant of CommandPassEnds: the loop only ends when the budget is met.   *)
CommandPassEndsOnBudget ==
  /\ sweep = "commands"
  /\ ~OverBudget
  /\ sweep' = "idle"
  /\ UNCHANGED <<stacks, used>>
  /\ SweepFrame

CommandPassEnds ==
  /\ sweep = "commands"
  /\ ~OverBudget \/ \A k \in mapped : Len(stacks[k].undo) <= Floor
  /\ sweep' = "idle"
  /\ UNCHANGED <<stacks, used>>
  /\ SweepFrame

Evict == EvictionTick \/ EvictSnapshot \/ SnapshotPassEnds \/ EvictCommand \/ CommandPassEnds

-----------------------------------------------------------------------------
Handler(c) ==
  \/ ExecuteWand(c) \/ PaintWrites(c) \/ PaintFails(c) \/ Snapshot(c)
  \/ Finish(c) \/ Enrol(c) \/ RedoWrites(c) \/ RedoFails(c)

Arrival(t) ==
  \/ \E c \in Cmds, x \in Targets :
       \/ BeginSync(c, t, x) \/ BeginPaint(c, t, x)
       \/ BeginWand(c, t, x) \/ BeginLegacy(c, t, x)
  \/ \E d \in Docs : Undo(t, d) \/ Redo(t, d) \/ NoOp(t, d)

Connection(t) == Admit(t) \/ Release(t) \/ GraceExpires(t) \/ Revoke(t)

Next ==
  \/ \E c \in Cmds : Handler(c)
  \/ \E t \in Tokens : Arrival(t) \/ Connection(t)
  \/ WindowPasses
  \/ Restart
  \/ Evict

Spec == Init /\ [][Next]_vars

(* The event loop runs what is ready: every started request goes on, every *)
(* session is released, every timer that stays armed fires.                *)
Fairness ==
  /\ \A c \in Cmds : WF_vars(Handler(c))
  /\ \A t \in Tokens :
       WF_vars(Arrival(t)) /\ WF_vars(Release(t)) /\ WF_vars(GraceExpires(t))
  /\ WF_vars(Evict)

FairSpec == Spec /\ Fairness

-----------------------------------------------------------------------------
(* Properties.                                                             *)

(* The two stacks of a key together never hold more than the cap.  Only    *)
(* push compares a length with it: redo grows the undo array without a     *)
(* look at the cap, so the bound must survive every order of calls.        *)
DepthBounded == \A k \in Keys : Depth(stacks[k]) <= MaxDepth

OnlyWriter(x) ==
  \A c, e \in Cmds : /\ stage[c] = "done" /\ stage[e] = "done"
                     /\ cmd[c].target = x /\ cmd[e].target = x
                     => cmd[c].tok = cmd[e].tok

Quiet(x) == \A c \in Cmds : InFlight(c) => cmd[c].target # x

(* While nothing is in flight on a target one token edited, what the undo  *)
(* stacks offer to revert is on the canvas and what the redo stacks offer  *)
(* to apply again is not.                                                  *)
Agrees(x) ==
  OnlyWriter(x) /\ Quiet(x) =>
    \A k \in Keys :
      /\ \A i \in DOMAIN stacks[k].undo : LET c == stacks[k].undo[i] IN
           cmd[c].target = x => c \in content[x]
      /\ \A i \in DOMAIN stacks[k].redo : LET c == stacks[k].redo[i] IN
           cmd[c].target = x => c \notin content[x]

(* The stacks and the canvas agree on each target on which, since the      *)
(* server started, no two requests overlapped and no redo failed, whatever *)
(* overlaps and fails on the other targets of the same stacks.             *)
CanvasAgrees == \A x \in Targets \ mixed : Agrees(x)

(* FR-15, FR-7: on every target. The code fails it.                        *)
CanvasAlwaysAgrees == \A x \in Targets : Agrees(x)

(* An edit that becomes public as clean is not within the window of        *)
(* another token's edit of the same layer.                                 *)
Flags(c) == announced[c] = "no" /\ announced'[c] = "clean"
              => ~Overlaps(cmd[c].tok, cmd[c].target)

(* FR-13: an edit published while another token's edit of the same layer   *)
(* is still inside the window is published as a conflict, unless that one  *)
(* was published between execute's search for conflicts and its end, with  *)
(* apply() in between: any number of overlapping requests, and every event *)
(* before the search counts, also one during a wand's await.               *)
ConflictFlagged == [][\A c \in Cmds \ missed : Flags(c)]_vars

(* FR-13 with no such exception. The code fails it.                        *)
ConflictAlwaysFlagged == [][\A c \in Cmds : Flags(c)]_vars

(* FR-27 and the floor: eviction drops a command only from a stack above   *)
(* the floor, and only when no snapshot is left anywhere to drop instead.  *)
EvictionOrder ==
  [][\A k \in mapped : sweep = "commands" /\ stacks'[k].undo # stacks[k].undo
       => /\ Len(stacks'[k].undo) >= Floor
          /\ \A j \in mapped : ~HasSnapshot(j)]_vars

(* A pass always ends: the loops of run() have a way out in every state.   *)
SweepEnds == (sweep # "idle") ~> (sweep = "idle")

Stacked(t) == \E k \in mapped : k[1] = t /\ k[3] = "id"

Active(t) == \/ admitted[t] > 0 \/ sessions[t] > 0
             \/ \E c \in Cmds : cmd[c].tok = t /\ InFlight(c)

(* FR-25: a token that is not revoked and goes away for good has its       *)
(* stacks discarded in the end; none is left without a timer to drop it.   *)
GraceDiscards ==
  \A t \in Tracked :
    (<>[](~Active(t) /\ t \notin revoked)) => <>[]~Stacked(t)

(* FR-25: once a revoked token has nothing in flight it has no stacks.     *)
RevokedDiscarded == \A t \in revoked : ~Active(t) => ~Stacked(t)

(* FR-12: a snapshot is anchored to a command that is on the undo stack.   *)
AnchorsOnStack == \A k \in Keys, i \in Slots :
  stacks[k].anchors[i] > 0 => i < Len(stacks[k].undo)

(* FR-10: a stack that holds a full interval of commands holds a snapshot. *)
ChainBounded == \A k \in Keys :
  k[3] = "id" /\ Len(stacks[k].undo) >= SnapshotEvery => SnapshotCount(stacks[k]) > 0

(* Each stack pair is one history with a cursor (module LinearHistory).    *)
LogOf(s) == s.undo \o Reverse(s.redo)

Log    == [k \in Keys |-> LogOf(stacks[k])]
Cursor == [k \in Keys |-> Len(stacks[k].undo)]

History == INSTANCE LinearHistory WITH log <- Log, cursor <- Cursor

LinearHistorySpec == History!Spec
=============================================================================
