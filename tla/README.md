# TLA+ models of DiffuseCraft

DiffuseCraft is a drawing application that drives ComfyUI. A server (`src/libs/server`, Node, SQLite) keeps documents,
an asset store and a generation history, submits jobs to ComfyUI and offers its tools over MCP. Clients
(`src/libs/diffusion-client`, used by `src/apps/mobile`) pair with it and hold a session that survives lost connections; the
tablet draws on a document of its own (`src/libs/canvas-core`) while the finger is down.
This directory models the parts of that system whose correctness depends on order: what happens between two awaits, across
a restart, after a lost connection, between two renders, in a long sequence of edits. TLC checks the models on small
instances; TLAPS proves every safety property they check, and the refinement, for every value of the constants.

All programs are JavaScript, so one rule fixes the grain of every model here: **the code between two awaits is one
step**, and everything another request, timer, socket event, collector or touch can do at an await is an interleaving. On the
tablet there are two threads, and a call from one to the other is a message.

`PROJECT.json` lists the components, the runs, the source lines each definition models, the hazards and the theorems.

## 1. Inventory

### Modelled

| Part | Code | State | Operations | What makes it hard |
|---|---|---|---|---|
| Undo/redo manager, stacks, eviction | `server/src/lib/undo-redo/*`, `transports/connection-tracker.ts`, the handlers that call `execute` | a stack of commands, redo branch and snapshots per token and document; discard timers; session counts | execute, undo, redo, enrol, discard on revocation, on absence and on stop, eviction | apply() is awaited in the middle of execute; redo moves the command before it applies it; a revocation meets a request in flight |
| Job tracker | `jobs/tracker.ts`, `comfy/client.ts`, `comfy/ws.ts`, `comfy/output-fetcher.ts` | rows of `jobs`, ComfyUI's queue, events on a socket | submit, cancel, executed, execution_error, startup reconciliation | HTTP answers and socket events are unordered; the socket drops; the server restarts |
| Blob store and history | `assets/*`, `history/*`, `handlers/apply-history-item.ts`, `discard-history-item.ts`, `paint-strokes.ts` | files, rows of `blobs`, layers, history items, commands that name blobs | write, fetch outputs, apply, discard, paint, undo, two collectors | file and row are two steps; collectors work off a selection made before they await |
| Pairing | `pairing/manager.ts`, `pairing/tokens.ts`, `pairing/mdns.ts`, `hooks/registry.ts` | windows and tokens in the database; timers, slot secrets and the TXT record in memory | open, close, expire, POST /pair with approval, revoke, first run, start, stop, death | the host is asked between look-up and grant; a restart loses timers but not windows |
| Client session over HTTP | `diffusion-client/src/client.ts`, `transports/http.ts`, `transports/reconnect.ts`, `events/bus.ts` | the SDK client in use, connected and failed flags, the reconnect loop, pending sends, the status shown | connect, disconnect, dispose, send, loss of the link, reconnect, replay | handshakes outlive the call that started them; two loops could run; a send can be forgotten or run a third time |
| Managed ComfyUI, its socket and its health | `comfy/managed/supervisor.ts`, `comfy/ws.ts`, `comfy/health.ts` | the child process, restart budget, back-off and grace timers; the socket and its attempts; probes in flight and the status published | start, stop, spawn, exit, restart, kill; connect, close, retry; interval, probe, answer | exit events, timers and answers of an earlier process meet the next one |
| Server lifecycle | `server.ts`, `transports/mount.ts`, `transports/http.ts`, `apps/server/src/index.ts` | the phase, internals, what has been started, the doors, the requests inside | start, each await of bootstrap(), rollback, stop, signals, exit | stops overlap each other, a start, a rollback and requests still being answered |
| The tablet's link to its backend | `apps/mobile/src/sdk/useDiffuseCraftClient.ts`, `pairing-flow.ts`, `core/src/stores/connection` | paired backends, the selection, the clients made and the one shown, the status | pair, unpair, switch, effect, cleanup, end of a handshake | an effect is cleaned up while its handshake runs |
| Canvas documents | `canvas-core/src/document/*`, `layers/*` | layers with positions, groups with lists and parents | all operations of `operations.ts` and `groups.ts` | each relation is kept on two sides, positions are renumbered by every operation |
| The editor's document and the brush | `apps/mobile/src/screens/Editor/*`, `canvas-skia/src/brush/*` | the document, the ref of the last render, opacity values, the store's active layer; the touch, the stroke, its surfaces | layers panel, bootstrap, render; touch begin, move, end, break; begin, commit, cancel of a stroke | callbacks work on stale documents; a stroke's begin crosses threads and may arrive after its touch |
| Mask and selection tools of the server | `handlers/mask/*`, `handlers/set-selection.ts` and its like, `selection/store.ts`, `handlers/transform-layer.ts` | rows of layers, the selection, commands for undo | every tool, undo, redo | rows are read before an await and written after it; a command restores the columns it remembers |

What has to be true of each:

- **Undo**: a client's undo and redo walk one linear history of its own commands; the canvas is what the history says; depth
  and memory are bounded, the oldest going first; a stack goes when its token does.
- **Jobs**: every submitted job ends exactly once and is announced; an ended job stays ended; a restart gives up only what
  ComfyUI no longer holds.
- **Blobs**: a row has its file; nothing that a layer or an item shows is collected; what nobody references is.
- **Pairing**: one slot, one device; a closed or expired slot is void; a revoked token stays revoked; the advertised flag
  tells the truth; every window closes.
- **Session**: one loop at a time; disconnected means disconnected; no call runs a third time; no caller waits for ever;
  the status tells the truth.
- **ComfyUI's owner**: one process at a time, none after stop(); the status comes true; the socket follows a restart.
- **Lifecycle**: reachable only while database, undo manager and revocations are there; over means that nothing runs; a
  stop ends.
- **App link**: "connected" means that the client shown is the selected backend's and open.
- **Documents**: positions are 0, 1, 2, ... in stack order (no two the same, where a host put a layer outside the stack); layer and group, group and parent agree.
- **Editor and brush**: screen, snapshot and store agree with the document last rendered; a stroke is drawn once; at rest
  nothing is left of a stroke, unless its begin came after its touch.
- **Masks**: undo and redo restore the rows exactly; a painted mask never loses its bytes.

### Not modelled, or only where it touches the above

`PROJECT.json` lists each with its files. In short:

- *Server*: rate limiter, validation and audit in the middleware chain, event bus topics, MCP framing (the SDK's), installer and
  downloader (child processes and I/O), graph builders and presets (pure construction), audit log, catalog and resources
  (read-only), chat, prompt enhancement and sampling (one request to a language model each), document archive (one request,
  serialisation), migrator (runs before anything else; only its foreign keys matter, in Blobs).
- *Libraries*: pixels, curves and matrices of `canvas-core` (floating point), the drawing in `canvas-skia`, the other stores of `core`
  (reducers over events the HTTP client never delivers: its `subscribe` throws), `mcp-tools` (schemas), `ui`, and the client's
  stdio and in-memory transports, pairing client, token cache, image and sampling helpers.
- *Mobile application*: the screens that are layout.

These parts are most of the repository by lines: schemas, generated resource tables, React components, tests kept as backups,
pure construction of JSON. They have no steps of two actors to get wrong.

### How the parts interact

A tool call arrives over a transport, which acquires the token's session in the connection tracker, passes the middleware
and reaches a handler. A reversible handler calls `UndoRedoManager.execute`, whose command writes blobs and layer rows; the
manager publishes `document.changed`. A generation handler calls `JobTracker.submit`; ComfyUI's socket events come back to
the tracker, which has the output fetcher write blobs and history items and publishes `job.completed`. Collectors run on
timers over the same tables. Pairing decides which tokens exist; a revocation discards the token's stacks. On the other
side the client session sends the calls, replays the ones a lost link cut off and shows a status; the app keeps one such client for
the backend selected. The server's start() brings the parts up in the order Lifecycle has, stop() takes them down. On the
tablet the layers panel and the brush work on one document, on two threads. The blobs a command
holds are the one place where two modelled components share state without a database constraint: Blobs has an undo stack
of its own for that reason.

## 2. Modules

| Module | Models | Extends |
|---|---|---|
| `UndoStack` | `undo-redo/stack.ts`: one stack as a record, its operations as operators | |
| `UndoRedo` | the manager, its callers, tracker, revocation, eviction, restart | `UndoStack` |
| `LinearHistory` | abstract: per stack key a log and a cursor | |
| `Jobs` | tracker, the calls to ComfyUI and ComfyUI's queue | |
| `Blobs` | asset store, history store, collectors, the handlers that write blobs | |
| `Pairing` | pairing manager, tokens, TXT record, server start, stop and death | |
| `Session` | the client's session | |
| `ComfyHost` | supervisor, processes, socket, health monitor | |
| `Lifecycle` | start, stop, rollback, transports, program and host | |
| `AppLink` | connection store, the hook that keeps the SDK client | |
| `CanvasDocument` | canvas-core's document and its operations, as operators | |
| `DocumentHost` | any host, and a careful one, that calls them | `CanvasDocument` |
| `EditorDocument` | the editor screen's document, layers panel, store | `CanvasDocument` |
| `Strokes` | touches, the brush pipeline, both threads | `EditorDocument` |
| `Masks` | mask, selection and transform tools, undo and redo of their commands | |
| `MC_UndoRedo`, `MC_Jobs`, `MC_Blobs`, `MC_Pairing`, `MC_Session` | instances for TLC: symmetry, and for UndoRedo what each target stands for | the module |
| `MC_Owners` | instance of ComfyHost, Lifecycle and AppLink: `side` says which one a behaviour is of | `ComfyHost`, `Lifecycle`, `AppLink` |
| `MC_Layers` | instance of Strokes, DocumentHost and Masks, likewise | `Strokes`, `DocumentHost`, `Masks` |
| `*_proofs` | theorems; `Layers_proofs` has those of the documents and strokes, `Owners_proofs` those of `ComfyHost`, `Lifecycle` and `AppLink` | the module |

A definition named *Mutant of X* is X as a plausible bug would have it. It is not part of a specification; every property of a
passing run has one that the run refutes, which shows that the property depends on the code.

### UndoStack and UndoRedo

A stack is `[undo, redo, snaps]`, as in `ClientDocumentStack`: `Push` slides the oldest command out at the depth cap and
lets snapshots slide with it, `PopUndo` and `PopRedo` move a command. `UndoRedo` keeps one per key (`newKey`: token and
document; `legacyKey`: token name and document, where the stdio peer without an id ends up too).

The life of a request is `stage`: admitted, then per handler kind captured, applying, applied, snapped, done. The kinds are
the ways the handlers reach `execute`: `sync` (transform_layer, a primitive selection: apply() writes before its first
await), `paint` (paint_strokes: reads and writes a blob first), `wand` (reads a blob before execute), `legacy` (enrolled by
the middleware after the fact). The canvas is a few targets; content is the set of commands baked in, so that a lost
update shows as a missing command. Two histories the program does not keep, and no guard reads, say where the code loses track: `mixed`
collects the targets on which requests overlapped or a redo failed, `missed` the commands another token's edit overtook between the
search for conflicts and the end of `execute`. Eviction is synchronous in the code; its passes are steps here, and nothing else moves
while `sweep` is not idle.

`LinearHistory` is refined through `LinearHistorySpec`: a key's log is its undo array followed by the reversed redo array,
the cursor the length of the undo array. The abstract `Record` demands that the command be in no history yet and cuts off
what was ahead of the cursor.

Left open or out: which of several equal candidates an eviction takes (open); snapshot payloads; a provider that throws; a
paint that touches no pixel (`applied: false`). The MCP SDK is external: its `handleRequest` returns before the handler ends, so a
session may be released while its request runs on. The grace timer fires only if no session came back, which clearing
the timer guarantees.

### Jobs

A job is its row, its prompt in ComfyUI and the request that submitted it. ComfyUI (external) keeps `waiting` and `active`,
runs prompts in any order of its queue and sends an event when one ends; events travel as a set, so their order is open.
`req` follows `submit` (POST, answer, row), `call` follows `cancel` (row read, request sent, applied, row
written), `phase` and `polled` the startup reconciliation with the answer of GET /queue in hand. A restart loses requests,
calls and the socket, and the rows stay. `Failing` names what may fail. Only `submitGraph` looks at the status of an answer:
with "status" in `Failing`, an error read as an empty queue (`PollMisread`) makes `Reconcile` fail every live row, and a cancel whose request
was refused goes on as if it had been carried out (`CancelMisread`). `unheard` is a history variable: the jobs whose end passed the server
by, because it came on a closed socket, ahead of the row, or as the work of another's interrupt or of a cancellation that failed.

Assumed: one executed event per prompt; routing of events by client id is out of scope; progress is left out.

### Blobs

A blob is a file and a row, written and removed one after the other. `content` and `item[i].image` are foreign keys with
ON DELETE SET NULL, which `DeleteRow` does. `fetch`, `pen`, `bgc` and `hgc` hold the progress of the output fetcher, of a
paint, and of the two collectors, each with the selection it made before its first await. Time is what a cutoff sees
of it: young or old, recent or long ago.

Assumed: one image per item, one undo stack, one run of a collector at a time. No caller gives a blob a time to live, so
the expiry query never selects. `Slow` and `Restarts` say whether a handler may outlast the minimal age of an orphan and whether
the server may restart. `exposed` is a history variable: the images put where the program loses track of them, because the item was discarded, or applied
while it had a layer, or because a layer was given the image while a collector already had it, or its item, in the selection it
works off (`Picked`). `ContentKept` is about all others; section 5 says what becomes of those.

### Pairing

Windows and tokens are database rows and survive `Die` and `Stop`; `timers`, `secret` and `txt` do not. A request finds its
window (`aim` by code, else the newest that allows the method), waits for the host when a handler is registered, then
claims the window's slot or mints a token. `clock` orders the windows by `opened_at`. A code is its window:
codes are drawn unique among open windows. The LAN check, input validation, payload formats and the bootstrap token's time to
live are left out; `rotateToken` has no caller. `Stop` closes the windows once the requests have drained, as the server does. The TXT record
keeps both keys the code uses, `po` and `pairing_open`.

Every call is synchronous up to the approval hook, so nothing interleaves with it, but each of its writes commits by itself: a
death may fall between two of them. `Death` has a disjunct for each such place: a slot's token issued and its window not
written (`CrashInOpen`), a window closed and its slot not revoked, on expiry (`CrashInExpire`) or among the windows a stop closes
(`CrashInStop`), a token out and its window still open (`CrashInAnswer`), the first window open and no bootstrap token
(`CrashInFirstRun`), or between calls (`Crash`). The history variable `torn` names the windows whose closing was cut short.

### Session

An SDK client with its transport is a *link*: opening, open, gone. When it goes it calls `onclose` and then rejects what was in
flight on it; a failing handshake closes as well. `run[l]` is a reconnect loop: sleeping, opening an attempt, then *rebuilt*
and *replayed*, the two points in the microtasks after a successful attempt where a consumer's continuation could run. `call`
holds the sends; the pending ones are `pendingSends`. `api` is the connect() in progress, `closing` the link that
disconnect() waits for (it stands for `userInitiatedClose`, since the consumer awaits disconnect()).

`Consumer` lists what the code that uses the client does, since most guarantees depend on it: *eager* (calls in the
microtasks that end a reconnect), *retry* (connect() while a loop works or the transport is connected), *abrupt* and
*abandon* (disconnect() or dispose() while an attempt, or connect(), is in flight), *reuse* (connect() after disconnect()). Links
and loops are reused once forgotten, so their number bounds how many exist at a time, not how many ever exist;
`MaxConnects` bounds the calls of connect(). `readResource` outside connect(), abort signals and event listeners are left out.
Two history variables say what the properties make allowance for: `rash`, a lifecycle call came in mid-handshake or beside a loop, and
`stray`, what the last disconnect() could not reach (`Unreached`) and what came of it (`Heir`).

### ComfyHost

Processes are numbered; `proc` is what the operating system knows of each (external: ComfyUI boots, hangs, recovers and exits as it
likes, and dies when killed). `child` is the process the supervisor holds, `delays` the back-off timers that have not fired and that nothing
clears, `stops` the processes whose stop() waits for an exit event or the grace timer. The socket opens while a process is ready
and counts its attempts; the monitor has an interval and probes that overlap and are answered in any order. `owner`
says how the supervisor is used: "once" (start, then stop) or "anytime".

### Lifecycle

`boot` is the await bootstrap() stands at, `up` what has been started since and not stopped, `held` whether `internals` is set, `stop[s]` and
`undone` where each call of stop() and rollback() stands. A step is the code between two trips through the event loop:
comfy.stop() awaits only settled promises, so while a call is there (`Quiet` is false) no request, timer or signal gets in.
`runner` is the command line program, which stops on a signal and exits when start() fails or a stop() settles, or a host.

Assumed: persistence in a file (`assets.init()` is awaited); listeners of the stop events do not throw. The second pairing
window of the subcommand `pair` is left out. Requests are what closing the HTTP server waits for (POST /pair, import,
export); tool calls over /mcp and stdio are hijacked by the SDK and outlive the close (section 5).

### AppLink

`client` is every SDK client made, `eff` the one of the last run of the effect, `shown` the one the hook returns, `link` the status in the
store. The effect runs after a render, so the store may change several times before it does. A client whose
cleanup came while it connected ends as `stray`: it connects and nobody can dispose of it any more (section 5).

Assumed: one operation per backend at a time; a token that cannot be read is a handshake that fails. The debug bridge is left out; a link lost
after connect() is the session's business and never reaches the store.

### CanvasDocument and DocumentHost

Operations are operators from documents to documents; a call that throws is no step. `AddLayer`, `RemoveLayer`, `ReorderLayer` and their
like renumber positions as the code does (`Compact`, `Insert`); groups nest up to `MaxDepth`. `DocumentHost` calls them in any order and
with any position of `Places`, which reaches below 0 and beyond the stack: addLayer takes it as it is, reorderLayer and updateLayer clamp it.
`loose` records that a layer was added outside the stack and that nothing has numbered the layers since. The
careful host avoids the calls that leave a reference behind (section 5), and only for it is `RelationsAgree` claimed.

### EditorDocument and Strokes

`doc` is the document last given to React, `ref` the one of the last render, which the callbacks compute from. `pace` says whether the JS thread
renders before the next call (*prompt*) or may lag (*hurried*). A touch lives on the UI thread; its begin travels to the JS thread
(`js`) and back (`ui`) and finds the stroke state of whichever touch is then on. `ink` is the list of strokes drawn onto layer
surfaces. `late` records the begins that came when their touch was no longer down; the program has no such variable, and no guard reads it.

### Masks

A row has the columns the tools write one by one. `call` is a handler that has read its row and awaits the asset store; `done` and `at` are
the commands left behind and how far they are undone. Callers are *serial* or *overlap*. Bytes are clear or solid, since
what a selection covers is data. The caller is a local one: over HTTP, enrolled commands go to a stack undo never reads (section 5).

## 3. Runs

Every passing run ends within about two minutes on two workers; distinct states in brackets.

| Run | Question | Result |
|---|---|---|
| `UndoRedo_all` (1 729 000) | two tokens, a layer and a selection, requests overlap, apply() fails anywhere, memory is short | `CanvasAgrees`: canvas and stacks agree where no overlap or failed redo has been; `ConflictFlagged`: edits of two tokens are flagged unless one overtakes the other's search; `EvictionOrder`: snapshots go first, then the oldest |
| `UndoRedo_live` (146 000) | requests overlap, apply() fails anywhere, stdio and HTTP, sweep, restart | `LinearHistorySpec`: refinement of LinearHistory; `GraceDiscards`: an absent token's stacks go; `SweepEnds` |
| `Jobs_all` (343 000) | two cancels, lost socket, restart, all failures, misread errors | `EndAnnounced`: an ended row was announced; `NoStuckRow`: no live row waits in vain but for an end the server missed since it read the queue; `ReconcileSparesHeld`: reconciliation by a true answer spares what ComfyUI holds |
| `Jobs_live` (15 000) | a cancel, lost socket, overtaking events, failures, no restart | `Announced`: each recorded job is announced, or its end passed the server by |
| `Blobs_all` (431 000) | requests and both collectors interleave | `FilesMatch`: file and row agree; `ItemsKeepImage`: a kept item keeps its image; `Collected`: garbage goes |
| `Blobs_restart` (2 012 000) | requests and both collectors interleave, slow handlers, restarts | `ContentKept`: a layer loses its content to no collector, unless it is `exposed` |
| `Pairing_crash` (659 000) | host approval, restarts, deaths between any two writes | `ClosedSlotVoid`: the slot of a closed window is void; `TokenPerDevice`: one device per token |
| `Pairing_auto` (14 000) | no approval handler, orderly stop | `OneDevicePerWindow`, `GrantsInWindow`: one device per window and only while it is open; `FlagFollowsWindows`: the flag is right; `WindowsClose` |
| `Session_all` (1 104 000) | a consumer with all habits but eager, with and without reconnection | `TwiceAtMost`: no third attempt; `NoOrphan`: nobody forgotten; `OneLoop`: while not rash, one loop, and isHealthy() is true; `DisconnectSticks`: disconnect() leaves the strays only, and none if not rash |
| `Session_steady` (23 000) | a consumer that waits for its calls | `Settles`: every send settles |
| `Owners_all` (108 000) | ComfyUI under its supervisor; the server under overlapping stops; the tablet switching backends | `OneProcess`, `StopSticks`, `StatusTells`, `Hears`; `ServesReady`, `AtRest`, `StopEnds`; `LinkTells` |
| `Layers_all` (379 000) | documents under any host, the editor with the brush, the server's rows | `PositionsStacked`, `RelationsAgree`; `EditorAgrees`, `DrawnOnce`, `CanvasAtRest`; `StepsExact`, `PaintedStays` |

The last two runs hold several components at once; they share nothing, so a behaviour takes one `side` and the others
stay at their first state.

**Bounds.** Two or three of everything that can compete: two tokens and three commands make overlapping edits, a redo branch
and an eviction with a choice; depth 2 is reached and overrun; two jobs make "mine" and "the other one" for interrupts and the
queue; two or three blobs cover prior, new and shared content; two requests can find one window, three windows make the
newest differ from the only one; `Pairing_auto` has three tokens because the first run takes one; two loops are one more
than may run, and links one more than can be live. `Attempts` is {0, 2}: reconnection off, and a loop with a retry and a
last attempt. Sequences need two of the same event (two restarts, two connects, two cancels), which the bounds allow.
Two starts, two restarts and two attempts let a timer, an exit event and a probe of an earlier turn meet the next process;
`Threshold` is 3, the default of `health.ts`. Two stops and a rollback can overlap pairwise and all three. Two backends and three clients
make an old handshake, a stray one and a new one. Three layers are the fewest where a middle one exists
(a free host keeps two while it has a group, which no property of it is about); `MaxDepth` is 3 (5 in the code) and a careful host has
four groups, enough for a chain that is too deep and for a group in the middle of one. Two touches make a begin that arrives when the next touch is down. Two overlapping calls on a row
are what an await can separate.
Deadlock checking is off since the pools may be used up.

**Fairness.** Liveness is stated under weak fairness of what runs by itself: timers (grace, expiry, back-off), steps of a
request, sweep or run of the blob collector already begun, answers and time-outs of requests, ComfyUI working off its queue. Nothing a user decides is fair. In ComfyHost timers, exit events and answers are fair, a killed process dies and
a socket to a ready process opens; whether ComfyUI boots, hangs or exits is its own choice. In Lifecycle requests end (the approval
hook has a time-out, the others are finite), the HTTP server then closes and resolved promises go on; nobody has to call stop().
`Jobs_live` and `Session_steady` have no symmetry, since TLC's symmetry reduction is unsound for liveness; the safety runs use it.

## 4. Proofs

Checked by TLAPS for all values of the constants, from the named assumptions of the modules (bounds are naturals, None is
no element of the pools, parameters have their types). A theorem with a further hypothesis names it; each is a setting of
the environment the constants describe, and the run of the property has it too. Section 5 says what fails without it.

**UndoRedo.** `TypeCorrect` and `DepthBound` rest on `RestOK /\ StacksOK`: every stack fits its cap, counting undo and redo together.
Push is the interesting case: it drops the redo branch before it grows the undo array, and a redo moves one from the other.
- `EvictionOrdered`: the sweep's second pass begins only with the budget met or no snapshot left (`SnapsGone`).
- `ConflictsFlagged`: the comparison is made before apply(), the event published after, so what matters is that an edit that met no
  conflict in its search meets none later either, unless it was overtaken (`FlagKept`): there is no other way past the flag.
- `StacksTellCanvas`, whatever overlaps and fails: on a target that is not `mixed` two commands are never in flight together (`Apart`), and what
  happens to others on the same stacks does not reach it. `CanvasAgrees` says nothing while a command is under way, so the
  invariant says what the content is at each stage (`Holds`, `Returning`) and, at rest, what every stack says of it (`Settled`). An undo writes back
  what the command captured, so of two commands on a stack and a target the earlier must be in what the later captured, and not the other way
  round (`Ordered`). `Base` says which stack a command can be on, and that only a request that has ended is on one.
- `HistoryImplemented`: under `Log` and `Cursor` each action is a step of `LinearHistory` or a stutter, with no hypothesis on overlaps or failures. One lemma per
  action; the abstract `Record` asks that a command be new to all histories, which is a consequence of where commands can be (`Base`) and of no stack holding one twice.

**Jobs.** `TypeCorrect`, `ReconcileSpares`, `EndedFinal`. That reconciliation spares a held job is not inductive: the poll's answer
is used later. It needs `QuietStart` (no submission before the server is up), `AnswerCovers` (the answer covers every held job
with a live row) and `RowsRecorded`. `EndedFinal` needs `CallsRecorded` and `PromptsOnce`: a cancel is of a recorded job and a prompt is in one place.
- `EndsTold`: before the first restart no row is given up unseen (`FirstRun`), and each handler leaves a job told of, or being fetched.
- `RowsMove`, for every environment. Invariant `NoneMissed`: a job whose row is live, or about to be inserted, is held by ComfyUI, has its last event
  on the wire, was stopped by its own cancellation, or is `unheard`; it holds also between a restart and the answer of the poll, which empties `unheard`.

**Blobs.** `TypeCorrect`, `DiscardsStick`; `HalvesMatch` and `ImagesStay` if the process does not end and a handler ends before its
blob may count as an orphan (`Calm`). The invariant says that a blob has one writer (`DrawnOnce`,
`OneWriter`), that what a handler has in hand is on disk and too young for the collector (`InHandYoung`), that the collector's selection,
used long after it was made, stays clear of images and handlers (`SelectionApart`), and that a file goes before its row (`FileFirst`).
- `ContentSpared`, with no hypothesis: requests and collectors interleave as they like, handlers may be slow, the process may end, and what may lose its content is
  what `exposed` names. Each collector has a side to itself. The history collector decides by the item's pointer to its layer, the layer by the blob it shows, so the
  invariant ties the two together for images that are not exposed: an item points at the layer that shows its image, or at which undoing a paint
  would show it again (`LayersPointed`, `StepsPointed`); undo and redo of an application move pointer and layer together (`UndoPointed`,
  `RedoFree`, `Once`); an item is there as long as its image has a row, and a discarded one is exposed (`Images`). And a selection, used long
  after it was made, holds blobs that no layer shows and items that no layer shows, but for the exposed (`Selected`).

**Pairing.** `TypeCorrect` (via the clock that bounds each `opened_at`), `RevocationFinal`, `SlotsVoid`, `TokensDistinct` and, for a process that
does not die, `FlagTrue`. `SlotsVoid` rests on `SlotsOK`: memory holds the cleartext of open windows only, so a slot that a death left pending
(`torn`) is out of reach of every later request. A token is pending for one window only and no two requests hold the same one, whatever was found before the host answered.
- `WindowOneShot`, `GrantsTimely`, without an approval handler (`HostHook = FALSE`), deaths of the process included: no request waits with a window found
  earlier in hand, and a window that was granted from is closed, which no restart takes back (`SpentOK`).

**Session.** `TypeCorrect`, `NoThirdAttempt` (a loop that sleeps has an attempt left; only pending calls are in flight); then
`NobodyForgotten` for consumers that are not eager. That one rests on who owns a link (`OwnLink`, `ClientOpen`,
`ClosingOpen`), on calls being in flight on open links only (`CallsOnOpen`), on the active loop being one that works
(`ActiveWorks`) and on every queued call having a loop (`Awaited`). The other two are about every consumer.
- `SingleLoop`, as long as it was not `rash`: the loop that runs is the active one and was not stopped (`SoleLoop`), only
  the client's link is open and who opens another is known (`SoleLink`), and `Phases` says what excludes what: connected,
  connecting, an attempt, disconnected and closing.
- `NothingLeft`, at any moment: `Left` says of each loop and link that it is stray or about to end, which needs that a loop in its
  microtasks has a connected client (`MicroUp`) or one being closed. A stray's end may start a loop, hence `Heir`. `CalmLeavesNone` joins both arguments.

**ComfyHost** (`Owners_proofs`, like the next two). `TypeCorrect`; `FailureFinal`: once the restart budget is used up nothing spawns ComfyUI again (from `Gone`: a failed supervisor
does not mean to run); `ProcessSole`: for an owner that starts and stops once, one process at a time. That rests on `OneLeft` (only the last
process can be alive), `BackOff` (a timer runs only while nothing lives, and one at a time) and `Held` (what lives is held or was sent SIGKILL).

**Lifecycle.** `ServerTypeCorrect`, `ReadyToServe`, `NothingLeft`. Neither property is inductive: one has to know what each waiting call has already
shut (`DoorsClosing`, `DoorsClosed`), that internals and database go together (`Holding`), that before bootstrap() returns
there is nothing to tear down (`Before`), and that a phase that says it is over, or an exit, comes after internals are gone (`Over`). No bound on
the number of stops and requests enters.

**AppLink.** `DeviceTypeCorrect`, `StatusOfSelected`. The status is written when a handshake ends, possibly after the selection changed and before the effect noticed. So the
invariant is about the effect, not the selection: its client is of the backend it ran for (`Made`), and a link that is up for
a backend is that client's, shown and open (`UpFor`); a selected backend is a listed one (`Selected`). No bound on clients enters.

**Documents** (`Layers_proofs`). `HostStacked`: after any sequence of operations of any host, with any positions, no two layers share one, and they are
a permutation of the stack as long as no layer was added outside it or once an operation has numbered them again. `EditorStacked`: a permutation, always, for the
editor, whose callbacks may work on a document that is not the last one. The core is a lemma on `Compact`
(numbering the layers in order of position yields 0, 1, ... without gap or repetition) and one on inserting and on swapping ranges.
- `HostRelated`, for a careful host. `RelationsAgree` is inductive, but each operation has its own reason to keep it. The depth of a group is the size of
  the least set that holds it and is closed under parents (`Chain`), so that no induction over the nesting is needed: to ungroup or to make a group moves
  such sets along, and the check of `MayHold` bounds them.
- `EditorShows`: the invariant `ScreenInv` also says that an open document has a layer and that a prompt screen shows the one it was given.

**Strokes.** `StrokesDrawnOnce`: a touch's number is in at most one of the queues, the stroke in progress, the renderers and the ink
(`Numbered`), for a slow JS thread too. `CanvasRests`, for a slow one too: what is left at rest is of a late begin. `RestInv` says that the stroke in
progress is late or of the touch that is down (`OwnStroke`), that a begin of that touch is the last one under way (`LastWaits`), where what is held came
from (`LeftOver`), whose points the ink has (`OwnInk`) and that a prompt thread is in time (`InTime`).

**Masks** (rows are finitely many, the two of the start among them). `TypeCorrect`; `PaintedKept`, an action property that follows from types and from each
ending's look at the row; `UndoRedoExact`. `StepsExact` compares one step with the tables before it; the invariant `Serial` is that every command of the
stack *leads* from the tables before it to those after it and back, column by column (`Leads`), that the tables a command ends with are those the next
begins with (`Chained`) and those of the present are the ones at the cursor (`Current`), and that what a call has read is still so
(`Reads`); a bake between its two writes has written the blob and nothing else.

Five proved properties are in no run, to leave the runs to what a theorem does not settle by itself: `EndedStaysEnded` (Jobs), `DiscardFinal` (Blobs),
`RevokedStaysRevoked` (Pairing), `GivesUpForGood` (ComfyHost), `DepthBounded` (UndoRedo). The type invariants of all components are proved; no run lists them,
but TLC checked each before its proof.

Only model-checked: the liveness properties `Announced`, `Collected`, `WindowsClose`, `Settles`, `StopSticks`, `StatusTells`, `Hears`, `StopEnds`, `GraceDiscards`
and `SweepEnds`, since fairness and ENABLED are beyond the prover. Neither checked nor proved: that every run of HistoryGc ends.

## 5. Where documents, comments and code disagree

No run expects a violation; all twelve pass. Each of the following can be shown by a run of the same module
with the constants given, checking the property named (the modules define it) or the obvious statement of the sentence quoted.

*Undo* (`.kiro/specs/undo-redo-system/requirements.md`)
- FR-7, `manager.ts:412`: redo pushes the command to the undo array and then awaits apply(); if that rejects, the command stays there
  though it is not on the canvas. (`CanvasAlwaysAgrees`, one token, `Failing = {"redo"}`.)
- FR-15, `paint-strokes.ts:231`: apply() reads the layer's blob, awaits and writes; a paint in between is lost though it stays on the
  stack. Nothing serialises operations. (`CanvasAlwaysAgrees`, one token, `Failing = {}`.)
- FR-13, `manager.ts:327`: recent events are searched before apply() and the own event published after; two overlapping edits both go out with
  `conflict: false`. (`ConflictAlwaysFlagged`, two tokens.)
- FR-12, `stack.ts:225`: popUndo leaves snapshots alone, which then point past the end of the array. (`AnchorsOnStack`.)
- FR-10, `manager.ts:669`: maybeSnapshot tests the length before the push plus one, push tests the length after eviction; at the cap no push both
  captures and keeps a snapshot. (`ChainBounded`.)
- FR-25, `manager.ts:317`: execute does not ask whether its token still exists; a request past authentication when the token was revoked
  creates a stack that nothing discards before the server stops. (`RevokedDiscarded`.)
- `reversible-command.ts:51`: the middleware enrols under the token's name, the undo tool of an HTTP caller reads the stack of its id; what
  was enrolled over HTTP cannot be undone. (Masks takes a local caller, whose two keys are one.)

*Jobs*
- `client.ts:208`: getQueue does not look at the status; an error whose body is JSON reads as an empty queue and reconciliation fails every live row, also of jobs
  ComfyUI holds (server-architecture FR-37; `PollMisread`, which `ReconcileSparesHeld` excepts). interrupt and dequeue take it for success likewise.
- Three ways to miss an end for good, where no restart follows (`NoStuckRow` and `Announced` except them, through `unheard`): `tracker.ts:83`, an event handled between the answer to
  POST /prompt and the insert of the row is dropped (mcp-tool-catalog FR-12); `ws.ts:126`, nobody listens to the reopening of the socket, the queue is polled
  at startup only (comfyui-management FR-23); `server.ts:463`, the queue is polled without waiting for the socket, so an end in between is lost (server-architecture FR-37).
- `client.ts:194`: POST /interrupt stops whatever runs when it arrives, which may be another job. (FR-35; `StopsOwn`.)
- `tracker.ts:136`: no code moves a row from queued to running, so a running job is dequeued, which does nothing; its row becomes cancelled, then completed. (FR-35; `CancelSticks`.)
- `tracker.ts:130`: two cancels in flight both answer `cancelled: true` and both publish. (Comment at `tracker.ts:122`; `CancelOnce`.)
- `tracker.ts:186`: a restart between the completion of the row and the fetch of its outputs leaves a completed job without items.
  (generation-history FR-1; `OutputsKept`.)

*Blobs* (`.kiro/specs/generation-history/requirements.md`)
- FR-5, `history/store.ts:258`: discarded items are collected whether applied or not, and their image is the layer's. (`ContentNeverLost`.)
- FR-13, `history/store.ts:218`: an item has one pointer for all its layers; undoing the latest application makes it look unreferenced.
  (`ContentNeverLost`, no `Discard`.)
- Q6, `history/gc.ts:157`: the selection is not looked at again before each deletion; an image applied in between is taken from its new layer. (`ContentNeverLost`, neither
  discard nor second application.)
- `assets/gc.ts:8` against `output-fetcher.ts:110`: a batch that downloads for longer than the minimal age loses its first blobs. (`OutputsLand`, `Slow = TRUE`.)
- FR-31 of server-architecture, `assets/store.ts:45`: a file whose row was never inserted stays for ever. (`FilesCollectable`, `Restarts = TRUE`.)
- design Q6, `history/store.ts:312`: the startup check looks for image ids without a row, which the foreign key rules out. (`LostAreDiscarded`, `Restarts = TRUE`.)
- `assets/gc.ts:19`: the collector does not know of undo commands; it takes the raster a command needs for its undo. (`StepsRevertible`, a
  paint, a collection, an undo.)

*Pairing* (`.kiro/specs/pairing-protocol/requirements.md`)
- `manager.ts:232`: the manager updates `pairing_open`, the advertiser publishes the flag as `po`, which stays false. (`PoFollowsWindows`.)
- FR-1, `server.ts:564`: a window that survived the death of the process answers requests and is not advertised. (`UsableIsFlagged`, `Crashes = TRUE`.)
- `manager.ts:269` says the URL is invalid the moment the window closes: a death between the two writes of `closeWindow` leaves the token pending for
  ever, since `closeAllWindows` looks at open windows only. Nobody can claim it (`ClosedSlotVoid`). A death between the mint
  and the close (`manager.ts:448`, 472) leaves an active token that no device got, in a window that is still open.
- FR-4, `manager.ts:236`: its timer is not armed again, so it expires without being closed. (`WindowsClose`, `Crashes = TRUE`.)
- FR-7, `manager.ts:413`: a request approved after its window expired or closed still gets a token. (`GrantsInWindow`, `HostHook = TRUE`.)
- FR-19, `manager.ts:448`: two requests that wait for the host both get one. (`OneDevicePerWindow`, `HostHook = TRUE`.)
- FR-19, `manager.ts:642`: a qr request claims the newest window, not the one whose code was scanned. (`ClaimsOwnSlot`.)

*Session* (paths under `src/libs/diffusion-client/src`)
- `transports/reconnect.ts:205` says that disconnect() tears down what a cancelled attempt built; nothing does. (`DisconnectSticks` without `stray`, `Consumer = {"abrupt"}`; with
  "abandon", dispose() during connect() ends connected too, as it does in `useDiffuseCraftClient`.)
- `transports/http.ts:1138`: a send made between the replay and the end of the loop is queued and nobody replays it. (`NoOrphan`, `Consumer = {"eager"}`.)
- A cancelled loop whose last attempt fails still marks the transport failed; a handshake that fails after disconnect() starts a
  new loop; connect() that fails leaves a loop at work behind it. (`OneLoop` without `rash`.)
- `client.ts:280` calls the client reusable across cycles; the bus bridge is lost with the first disconnect().
- connect() sets the status to connected once the read of server/info ended either way, over a "reconnecting" or "error" set meanwhile.

*Managed ComfyUI* (`comfy/managed/supervisor.ts`, `comfy/ws.ts`)
- A host that starts and stops twice: the grace timer resolves stop() after SIGKILL and before the exit event; start() spawns, the late event of the
  old process sets `child` to null and spawns a third. start() during a back-off leaves the old timer, which spawns a second one.
  (`OneProcess` without its premise.)
- `ws.ts:8` and comfyui-management FR-23: the socket's attempts last about 15 s, less than a restart of ComfyUI may take; once used up the socket is never
  opened again, and nothing in the server subscribes to that. (`Hears` without its `ws.run`.)
- Nobody subscribes to `comfyui.crashed-permanently`; the supervisor is not wired in `server.ts`; a spawn that fails emits `error`, which has no listener.

*Server lifecycle* (`.kiro/specs/server-architecture/requirements.md`)
- FR-9 (line 75), `server.ts:256`: when bootstrap() throws, `internals` is still null, rollback() returns at once and what was started (database, timers, mDNS, stdio) stays.
  The program exits; a host keeps it. (`AtRest` without `boot = "returned"`.)
- FR-11, comment at `server.ts:268`: stop() during start() is said to abort it; start() goes on and the status returns from stopped to running.
- FR-10: stop() does not wait for jobs (`gracefulMs` is unused, `server.ts:282`); in-memory calls are accepted until internals are gone.
- The HTTP close waits neither for tool calls over /mcp nor for stdio's: a handler, a collector's run or an event handler in flight may reach a closed database
  (`void runOnce()` has nobody to catch that).
- FR-8: stdio serves before the resources are registered, mDNS advertises before HTTP listens and until unmounting is done.

*App link* (`apps/mobile/src/sdk`)
- `useDiffuseCraftClient.ts:125` says that a client whose handshake ended after the cleanup is disposed; the cleanup has called dispose() on it already, so the second call
  returns at once and the transport stays connected. (No client `stray`.)
- A client whose connect() fails is not disposed; the status stays connected when nothing is selected any more; while the next backend connects the hook still returns the
  disposed client of the last one.
- `Connection.tsx:94` clears the selection by what the screen had rendered; a backend paired meanwhile is deselected.
- `core/src/stores/provider.tsx:9` says that the mirrors are cleared when the connection drops; the status is never set to disconnected, so they
  survive a deselection, a lost link and a switch to another backend.
- `Pairing/Code.tsx`: the effect depends on `submitting`, which it sets, so its own update cancels it and pairing by code never completes.

*Canvas documents* (`canvas-core/src/document`)
- `groups.ts:6`: "Operations keep both sides in sync". createGroup leaves a member in the list of its old group; duplicateLayer, mergeDown and flattenVisible leave
  references to layers that are gone, or an active layer that is; updateLayer writes `group_id` and updateGroup `parent_id` without the lists, and may close a cycle.
  (`RelationsAgree` for a free host.)
- `operations.ts:73`: addLayer neither checks nor clamps the position; -1, or one beyond the top, leaves a gap until the next removal, reorder, merge or flatten.
  (`Stacked` without `loose`.)
- `operations.ts:232`: mergeDown and flattenVisible await the blender and return a document computed from the one they were given.

*Editor and strokes* (`apps/mobile/src/screens/Editor`)
- `EditorDocumentContext.tsx:111`: of two calls between renders the second loses the first's edit (the properties hold: what is shown is consistent, an edit short).
- `useBrushPipeline.ts:232`: on a slow JS thread the begin of a quick tap arrives after its end; the stroke stays shown and is drawn later with the next touch's points.
  (`CanvasAtRest` without `late`.)
- `EditorDocumentContext.tsx:206`: "the bottom-most layer ... can never" be deleted, but a reorder makes another one the bottom-most.
- The commit draws on the surface and updates neither the record's latest image nor its sequence, so that the export, which reads them, has no strokes
  (`LayerSurfaceRegistry.ts:156`, `composer.ts:297`); nothing calls `disposeLayer`.

*Masks and selections* (`server/src/lib/handlers`)
- Overlapping calls on a row: the later write restores what it had read of the other's columns; a bake is two updates with an await between them; a tool whose layer
  was deleted meanwhile still answers `applied: true`. (`StepsExact` with `CallPaces = {"overlap"}` and no premise.)
- `selection-to-mask.ts:143`: the position is counted before an await, so two calls make two layers at one position.
- A selection of kind mask makes selection_to_mask, invert_selection, refine_selection and the combining modes of set_selection fail.

## 6. Plan

1. Done: undo, jobs, blobs, pairing, session; ComfyUI's owner, lifecycle, app link, documents, editor and strokes, masks; proofs of every safety
   and action property of the runs and of the refinement (section 4).
2. To prove next: `HalvesMatch` and `ImagesStay` for handlers that outlast the age of an orphan, with a history of the blobs that met it, as `ContentSpared` has one;
   `GrantsInWindow` with an approval handler, for the requests that do not wait; abstract specifications of Jobs and Pairing.
3. To model next, if it is worth a run of its own: the middleware's rate limiter, the token cache of the client (a provider in flight overwrites prime() and invalidate()),
   the archive's materializer, the downloader's resume.
