# A verification project for darktableAgent

darktableAgent lets a chat panel in darktable's darkroom drive edits through a
local Python server that talks to a Codex app-server child process. This
directory holds TLA+ models of the parts where threads, processes and queues
meet, on both sides, the TLC runs that check them on small instances, and TLAPS
proofs of their safety properties for every instance. Paths are relative to the
repository.

## The system

| part | where | state | operations |
|---|---|---|---|
| Bridge: requests and turns | `server/codex_bridge/{bridge,request_state,turns,transport,models}.py` | `_lock`, `_state_lock`, active and cancelled requests, conversation threads, histories, turn counts, turn contexts, the child process and its pipes | `plan`, `cancel_request`, `get_request_progress`, `provide_render_callback` |
| Live tool loop | `operations.py`, `apply_batch.py`, `tool_routing.py`, `prompting.py` | `TurnContext`: shadow settings, applied operations, tool counters, render event and bytes | `get_preview_image`, `get_image_state`, `get_playbook`, `apply_operations`; the final plan |
| HTTP server | `server/app.py` | none of its own; one thread of the pool per `plan`, a poll loop per stream | `/v1/chat`, `/v1/chat/stream`, `/v1/chat/cancel`, `/v1/chat/render`, capabilities |
| Protocol | `shared/*.py`, `agent_protocol.c` | none | validation, serialisation |
| Canonical actions, verifier, prompts | `canonical_binder.py`, `verifier.py`, `image_signals.py`, `intent_router.py` | none | pure functions |
| Agent client | `darktable/src/common/agent_client.c` | a job and a cancellable per request | stream, cancel, callbacks on the main loop |
| Chat panel | agent part of `darktable/src/views/darkroom.c` | one session per image, the panel's copy, the slot of the active request | send, cancel, new chat, image change, enter and leave, progress, final |
| Execution | `agent_execute.c`, `agent_catalog.c`, `agent_actions.c` | the controls of darktable | order, validate and execute a batch |
| State collection | `agent_state.c`, `agent_capabilities.c` | none | snapshot of the image |
| Mock planner, evaluation harness, scripts | `server/mock_planner.py`, `server/evals`, `scripts` | none | test support |
| Job control | `darktable/src/control/{jobs,control}.c` | five queues, a slot per reserved worker, the threads | add, schedule, run, cancel, dispose, shut down |
| Pixel pipes | `darktable/src/develop/{develop,pixelpipe_hb}.c`, requests in `views/darkroom.c` | flags and time stamps of two pipes, their nodes and pictures | edit, invalidate, draw, request, run, abort, restart |
| Thumbnail cache | `darktable/src/common/{cache,mipmap_cache}.c` | entries with a read-write lock each, LRU list, cost, files | get, test, generate, demote, release, collect, remove |
| History stack | `darktable/src/develop/develop.c`, `libs/history.c`, `common/history.c` | the stack and its end, the parameters of the modules, snapshots | edit, switch, select, compress, truncate, discard, undo, redo |
| Undo | `darktable/src/common/undo.c` | two lists, the open group | record, group, undo, redo, clear |
| darktable | the rest of `darktable/` | upstream code | modules, database, import, export, widgets |

How they interact: the panel starts a job thread that POSTs a request and reads
a stream of progress events and one final event; each event becomes a callback
that the main loop runs later. The server runs `plan()` in a thread, under one
lock for all conversations, and a poll loop reads the turn context every quarter
of a second. Inside a turn the model calls tools; `apply_operations` appends an
operation, waits up to 15 s for a render, and goes on. darktable applies what a
poll brought, arms a render, and when its pipes have run a thread POSTs the
preview. A cancel goes two ways: it aborts the transfer in darktable, and a POST
reaches the server. Below the agent are five parts of darktable that its work
runs on: a request is a job of the `USER_BG` queue, an edit a change of the
history stack that raises flags in the two pixel pipes and is recorded for undo, each
pipe runs on a reserved worker and the preview pipe yields the agent's renders,
and the thumbnails of an edited image are removed so that they are made anew.

What is hard here: a cancel against every step of `plan()`; one child process
shared by all conversations and killed by any of them; lines of old turns; two
unlocked threads on the render event; growing lists that are streamed as
snapshots, partly lost, and repeated at the end; callbacks that outlive their
request, image and view; two sides that keep the same values and order the same
operations by different rules; flags and states of jobs, pipes and cache entries
that are assigned without a lock; locks that are given up and taken again in the
middle of a demotion. `hazards` in `PROJECT.json` lists them by line.

What makes each part correct:
- Bridge: a call sees exactly its own cancel, its own lines, its own context and
  threads of the process that runs; it returns and gives the lock back, as long as
  a write or a read of the child's pipes that blocks comes to an end.
- Live run: each edit of the server reaches the image once and in order, none is
  left out, the model sees the render of the step it is told about, a run ends.
- Panel: an agent edits an image only while the chat that is open for it waits for
  a result, the slot is freed by its own request, and loading ends.
- Values: the shadow the model reads is the replay of what was issued, and the
  controls stay within the roundings of their sliders of it.
- Guardrails: a turn gives no more answers than its limits allow.
- Jobs: an object has one owner, none starves, a cancel is kept, threads end.
- Pipes: once the edits stop, both pictures show the history as it is.
- Thumbnails: nobody uses a freed or blank one, the quota is met, an edit leaves
  no old one behind.
- Undo: the two lists are one timeline, and a group is never split.
- History stack: undo and redo lead back to every picture that was recorded.

## Modules

| module | models | read with |
|---|---|---|
| `BridgeRequests` | `plan`, cancel, the lock, tables, threads, transport and exits of the child | `MCBridgeRequests`, proofs in `BridgeRequests_proofs` |
| `LiveEdits` | the promise of a live run, abstract | refined by `LiveRun` |
| `LiveRun` | one live run from tool call to image and back to the preview | `MCLiveRun`, proofs in `LiveRun_proofs` |
| `ChatPanel` | sessions, slot, job threads and main loop of the panel | `MCChatPanel`, proofs in `ChatPanel_proofs` |
| `EditValues` | the values on both sides and the white-balance order | `MCEditValues`, proofs in `EditValues_proofs` |
| `ToolBudget` | the guardrails of tool calls | proof in `EditValues_proofs` |
| `JobQueue` | job control | `MCJobQueue`, proofs in `JobQueue_proofs` |
| `ThumbCache` | the thumbnails of one image | `MCThumbCache`, proofs in `ThumbCache_proofs` |
| `PixelPipes` | the centre and the preview of the darkroom | proof in `Darkroom_proofs` |
| `UndoTimeline` | the promise of undo, abstract | refined by `UndoList` |
| `UndoList` | the undo and redo lists | proof in `Darkroom_proofs` |
| `HistoryStack` | the history stack of the darkroom and its snapshots | proof in `Darkroom_proofs` |
| `Places` | lists from which links are taken out, for `ThumbCache` and `HistoryStack` | |
| `Lemmas` | facts about numbers and lists that several proofs cite | |
| `MCParts` | instances of `EditValues`, `ToolBudget`, `UndoList`, `PixelPipes`, `HistoryStack`, of which a behaviour exercises one | |

### BridgeRequests
One process per `plan()` call with a program counter `pc`: registered and waiting
for `_lock` (`queued`), `initialize` (`init`, `initWait`), `thread/start`
(`thread`, `threadWait`), `turn/start` (`start`, `turnWait`), the turn loop
(`run`), and the three exits (`clear` drops the context, `release` the lock,
`unregister` the table entry). `CancelRequest` may fire at any time, before
registration too. `ReadLine` is one pass of `_read_message_locked`: `MayRead`
carries its cancel check, and it hands the line to the answer, the turn, a tool
reply that fails because the pipe is gone, or nobody. `Timeout` is the deadline of a wait and
`Stall` the idle limit. The child is external: it answers, emits lines of any of
its running turns, and exits, with its pipes closed (`eof`) or still held open by
a descendant (`open`). `pipe` is what the kernel holds, `buf` what `readline()`
has already fetched: select() does not see `buf`.

The calls on the pipes block, with `_lock` held and nobody looking at the clock or
at a cancel. `io` says what the holder of the lock is blocked in. `Send` (a request)
and `ReadLine` (the answer to a tool call) return at once or block until
`CodexReads`, the child makes room in its stdin; if its pipes close meanwhile,
`TransportError` follows. `half` is a line that Codex has only begun: it makes
select() ready, and `readline()` waits for its end (`ReadBlocks`), or returns the
piece when the pipe is closed (`ReadPiece`, which is no JSON). `CodexBeginsStderr`
is the same on the other pipe.

Abstractions: live mode; whole lines of Codex are valid JSON; progress messages are
left out; ids of requests are distinct; all error codes are the one outcome
`codex_error`.

### LiveRun, LiveEdits
The threads are `Plan` (the worker in `apply_operations`, with one action for
each unlocked write of `_apply_live_operation_step`), `Poll` (the two reads of
`get_request_progress`), `Render` (the two writes of `provide_render_callback`),
`Job` (the reader of the stream), `MainLoop`, and the pipes. An operation is its
place in the list. `LiveEdits` says only that the server issues operations one
after the other, the image is a prefix of them, and a run that is applied has all
of them; `ImplementsLiveEdits` is the refinement, with the final plan as the
issued list once it exists. An operation that darktable cannot apply ends the
promise (`failed`), since the code promises nothing then.

The pixel pipes are there only as far as the render needs them (`PixelPipes` has
the rest): the preview may be aborted by an edit that comes while it runs, and is
then called valid with the older picture.

Abstractions: one run; tool calls other than `apply_operations` change nothing
here; the operations are not white-balance ones (see `EditValues` for those).

### ChatPanel
The variables are the fields of `dt_develop_t.agent_chat` and of the sessions;
`submission` is what the job thread carries. `CancelSlot` is
`_agent_chat_cancel_active_request`, `SwitchSession` the session switch,
`Submit` the common tail of sending and of the next refinement pass.
`HandleProgress`, `DropResult` and `ApplyFinal` are the callbacks; `IsStale` and
`RevisionAccepted` the checks of `_agent_chat_request_finished`. The loading flag is
kept twice, in the panel and in the session: setting the panel's does not touch the
session's, but the status line that follows writes it back (`darkroom.c:3448`, 2535,
2036), so that both are set by one action.

Abstractions: multi-turn mode is on; applying succeeds (`LiveRun` has failures);
a revision id is a number, which an edit of the top module of the history leaves
alone; a result that arrives when the darkroom is not shown is dropped.

### EditValues
`ApplyOperations` is the tool call: `ServerOrder`, the simulation on a copy
(`BeforeRefusal` ends it at the first refused operation), then one `ApplyStep` for
each operation. `Progress(n)` and `FinalPlan` are darktable's two ways to
`dt_agent_execute_response`: `ExecutionOrder`, validation of the whole batch
(`Executed`), execution. The two sides write differently. `ServerWrite` notes the
clamped number. `ClientWrite` keeps what the slider makes of it (`Kept`: it rounds
to its digits, `bauhaus.c:3425`); if that is a change, the module is switched on
(`Switch`; the switch is a setting that the model may edit, too), and the controls
that follow move (`Follow`: a preset sets the coefficients, a coefficient makes the
preset "user defined"). `ToggleAdaptation` is the user, or a pipe, switching color
calibration.

Abstractions: settings are integers; the snapshot is the state of the controls
when the run starts, and the user edits nothing else meanwhile; a write that was
validated succeeds; the ends of a range are numbers that its slider can show, so
that rounding stays in it; `Error`, the distance of a rounded number from the
number, covers the rounding to a 32-bit float as well; what follows a write depends
on the value written and not on the coefficients the user had before; handles that
a neighbour limits (`rgblevels`, `colorzones`) are left out. A slider whose numbers
wrap, an angle, has nothing to wrap: the number is clamped to the same range before
(`agent_catalog.c:1071`).

### ToolBudget
The counters of `_register_tool_call_progress_locked`, one action for each of its
outcomes. The order of the checks matters: a call over budget, or one that looked
too long, does not enter the streak, one that read too often does.

### JobQueue
One action per critical section. A worker goes through `loop` (look at the
queues), `idle` (nothing found, not yet waiting), `waiting`, `taken` (looks at the
state of its job), `start` (about to assign RUNNING), `executing`, `leave` (the
critical section after the job) and `dispose`; the gap between the last two
states before `executing` is where a cancel gets lost. A caller of
`dt_control_add_job` has up to three steps: under the lock it puts the job into its
queue, on top of the thumbnails, or throws away a copy, then it discards the job
pushed out of a full stack, and wakes the workers. `Schedule` is the choice by
priority with its ageing. A job object is freed and used again, so callers may add
jobs for ever, to a reserved worker even after the quit, since
`dt_control_add_job_res` does not look. `Kick` is the kicker's broadcast, which may
come at any time and wakes whoever waits then; `KickerLoops` is its loop condition.
A thread that is `idle` at a broadcast misses it: `missed` holds those that were
there at the last one after the quit.

Abstractions: what a job does is a step that returns in the end; two jobs are equal
by `Work` and their queue; synchronous jobs touch nothing shared.

### ThumbCache
One image, and of the cache its thumbnails. A reader asks (`Ask` is
`dt_cache_get` with its collection of garbage), fills what it made from the
file, a larger size or the history, demotes its write lock in four steps, since
the lock is released and asked for again, uses and releases. The editor writes the
history and then goes through the sizes, as `dt_mipmap_cache_remove` does. The data
of an entry is the version of the history it shows, or one of the three things
it may hold instead.

Abstractions: failed try-locks are steps that are not enabled; the walk over the
larger sizes in search of a picture to scale down is one step (with the two sizes of
the run there is one to look at); the cost of a size is a constant; the disk has room.

### PixelPipes
The main loop edits in three steps (history and flags; both pipes dirty; time
stamp), invalidates the centre in two, and draws in three (paint, ask for the full
pipe, ask for the preview). Each pipe's worker is a loop with one action for each
unlocked access to the flags: take the job, `Begin` (time stamp and RUNNING),
`Restart`, `Synch` under `history_mutex`, `Fit`, then abort or complete, settle, and
`CallValid`. A picture is the pair of the history and the viewport it shows.

Abstractions: one image, loaded; no second window; the caches of the pipes are not
there, a run computes what its nodes say.

### UndoList, UndoTimeline
The two lists with the newest item first, and every operation on them. Marks at
both ends of a group are items. `UndoTimeline` says that there is one line of
changes and a place on it, that only a record changes the line, and that an undo
or a redo stops at places where no group is open. The refinement maps the redo list
after the reversed undo list. It holds for callers that filter by all types
(`Filters`) and with no group open while the user undoes (`Concurrent = FALSE`).

### HistoryStack
`UndoList` moves items and knows nothing of what they hold; here an item is a
snapshot of the stack, and undo swaps it with the stack (`_pop_undo`). `EditControl`
is an edit of a widget, by the user or by the agent's batch, as
`_dev_add_history_item` makes it: a snapshot, unless the same widget was edited just
before (`RecordTarget`; the clock decides, so both may happen), then `AddItem`, which
drops the entries above the end (`WithoutObsolete`) and changes the top entry or
pushes a new one (`InPlace`). Everything that replaces the stack ends in `Reloaded`.
`Replay` is the picture of a stack.

Abstractions: a module is one instance with one control; no masks, no order of
modules; two changes that are undone together are two undos; at the entry
"original" compress and truncate delete the history of the image, as in the lighttable,
and are left out.

## Runs

| run | question | bounds |
|---|---|---|
| `BridgeSafety` | do tables, context, turn state and cancel stay those of the right call; is `IInv` an invariant | two calls of one conversation, a pipe of 2, calls interchangeable |
| `BridgePrompt` | does a reset leave nothing stale behind in other conversations; does `plan()` return if blocked writes and reads end; does a cancelled call return without the clock; is an early cancel final | two calls, two conversations, a pipe of 1; liveness of `r1`, which is either call |
| `BridgeExit` | is the exit of the child noticed (it is not) | two calls, one conversation, a pipe of 1 |
| `LiveEditing` | once, in order, nothing left out, fresh previews, refinement of `LiveEdits`; is `IInv` an invariant; do turns and requests end | two operations, in one call or two, that may fail in darktable; the end for runs of one edit (`ShortRun`) |
| `LiveFresh` | is every preview that is shown to the model the one of its step (it is not) | two operations, nothing fails |
| `ChatSafety` | slot, edits of an agent only where a request is waited for, is `IInv` an invariant, does the panel stop loading | two images, two requests, one edit or new chat of the user |
| `ChatForeign` | do edits reach only the image of their request (they do not) | two images, two requests |
| `Parts` | values: the shadow as a replay, the controls near it in spite of roundings and switches, order, all or nothing, `IInv`; guardrails: the limits of a turn; undo: refinement of `UndoTimeline`; pipes: do the pictures follow; stack: is every recorded picture still there | up to three operations in calls of up to two; streak of 2, 3 calls before an edit, 17 calls; six items, groups in groups, two moments; two edits, one pan; two modules, one always on, three changes |
| `Jobs` | one owner, exact counts, no second copy, `IInv`, nothing starves, threads end unless they miss the last broadcast | four jobs in five populations, two workers (one where they do not compete) and a reserved one, a stack of 2, priorities of 0 to 5 |
| `JobCancel` | is a cancel kept (it is not) | the same |
| `Thumbs` | locks, blank thumbnails, the quota, `IInv` | two readers, two sizes, a quota for one of them, one edit, generation may fail |
| `ThumbStale` | does a removal leave no old thumbnail (it does) | the same, nothing fails |

Why these bounds are enough for what they ask: a second call is what makes a
lock, a reset and an old line matter, and a third brings no new pair. A pipe of
two holds a line of the old turn and one of the new, or an answer and a line. Two
operations make a step that has a predecessor, which is what stale renders,
skipped polls and ranges need. Two images and two requests make "the other one".
In `Parts` the ranges of the values are so short that deltas hit both ends, one
delta is half a step of a slider whose module is off, two floats share a rank, and
one operation is refused; six undo items hold a group
between two single changes, or a group in a group; with two edits one comes
before and one during a run of a pipe; a change, an undo and a change of the same
widget are what a merge needs to do harm, and a third change comes before them. In
`Jobs` the five populations are the questions: equal thumbnails over a full stack,
two exports, a background job against an endless foreground, redraws of one slot,
the chat request that is cancelled. In `Thumbs` each get of a missing size may
collect the other. For safety the proofs remove the bounds of all parts but the
pixel pipes.

`Parts`, `Jobs` and `JobCancel` do not check deadlock: the pipes come to rest, the
last thread of darktable ends. The parts of `Parts` share no state; the run starts
with a choice of one, and the other four stand still.

### Fairness
`PromptFairness` is a thread of `plan()` that goes on when it can: a Python thread
with no lock of its own to wait for but `_lock`, which its holder gives back.
`ClockFairness` adds that the deadline comes: it is compared with
`time.monotonic()` before every select(), and once it has passed it stays so. This is
strong fairness of `Timeout`, since a call that finds one blocking read after
another is between them only now and then. Nothing is assumed of Codex but in one
place: `PlanReturns` has the hypothesis that what blocks on the pipes ends
(`Unblock`: the child reads its stdin, finishes a line it has begun, or its pipes
are closed), which the code does not see to. `CancelReturns` holds of calls that are
not blocked. In
`LiveRun` the poll loop runs every 0.25 s and the main loop and the job thread
are scheduled; `Plan` and `CloseStream` need strong fairness, because a poll holds
`_state_lock` now and then and the stream looks for the end between two polls.
Renders may be lost for ever. In `ChatPanel` the main loop runs and every stream
ends, by its end or by the timeout of curl. In `JobQueue` threads are scheduled, the
callbacks of jobs return, the kicker broadcasts and loops, and a main thread that
quits shuts down; nobody has to add, cancel or quit. In `PixelPipes` the main loop finishes its
edits and redraws and the workers go on: both are threads of darktable, and a run
of a pipe ends. No other action is fair, edits and pans above all.

## Findings
Each is a run with expected violation; `PROJECT.json` quotes the lines.
- `BridgeExit`: an exited child makes select() ready for ever and is never polled;
  `plan()` spins to its deadline.
- `LiveFresh`: a render that comes after its wait timed out is taken for the render
  of the next step.
- `ChatForeign`: a progress event of an old request is applied to the image that is
  open when another request holds the slot.
- `JobCancel`: a cancel between a worker's look at the state and its assignment of
  RUNNING is overwritten.
- `ThumbStale`: a thumbnail that is being generated from the old history survives
  `dt_mipmap_cache_remove`, and a small one may be made anew from a larger old one.

### Known deviations
Found while modelling, with the property that TLC refutes left in the module (put
it in a `.cfg` to see the trace), but without a run of their own:
- `StallMeansNoOutput` (`BridgeRequests`): of two lines that one read fetched, the
  second stays in the buffer of `readline()`, where select() does not see it
  (`transport.py:166`); the turn can be called stalled although its end was read.
- `PlanReturns` (`BridgeRequests`) fails without its hypothesis `WF_vars(Unblock)`. A
  child that does not read its stdin holds the call in `stdin.write` or `flush`
  (`transport.py:138`), one that writes the beginning of a line in `readline()`
  (`transport.py:188`); neither the deadline nor a cancel is looked at there, and
  `_lock` stays held, so that every other conversation waits behind it.
- `ArmedIsPosted` (`LiveRun`): only the full pipe's signal posts a render, and only
  if the preview pipe is valid just then (`darkroom.c:1551`).
- `CancelledIsNotApplied` (`ChatPanel`): a final response that waits in the main
  loop is applied although its request was cancelled (`darkroom.c:3399`; the
  tooltip at 4577 promises otherwise).
- `StalePlanIsRejected` (`ChatPanel`): the revision id does not change with an edit of
  the top module, and is not compared after a live edit (`darkroom.c:3301`;
  `docs/protocol-v1.md:273`).
- `AppliedInOrder` (`EditValues`): when one event brings the operations of two calls,
  darktable sorts their white-balance operations as one batch
  (`agent_execute.c:203`); the image then depends on when the events came, and
  differs from the "ordered operations" of `docs/protocol-v1.md:257`.
- `ShadowIsImage` (`EditValues`): the bridge keeps the number it computed
  (`operations.py:515`), the slider rounds it (`bauhaus.c:3425`), and each side adds
  the next delta to its own number, so that the difference grows with the deltas;
  an edit switches a module on (`develop.c:894`), which the bridge does not note.
  `ShadowNearImage` is what is left: one rounding for each operation. With one
  rounding for all of them TLC refutes it.
- `JoinsReturn` (`JobQueue`): a worker that has looked for a job and does not wait yet
  (`jobs.c:571-575`) misses a broadcast. After the quit there may be two: that of
  `dt_control_shutdown`, and that of the kicker if its sleep ends later, and none
  after them (`jobs.c:543-549`). A worker that is in the gap at the last one waits for
  ever, and so does the join of `dt_control_shutdown`.
- Without their `leftBusy`, `LoadingIsBacked` and `PanelGetsReady` fail: send on
  image 1, leave, enter on image 2 (the session of image 1 stays loading), cancel
  there, send again, go back to image 1: the panel loads, and the only result still
  to come belongs to another session.
- `ShownIsGenerated` excludes two readers that demote one entry at once: they share
  the flag, the first one clears it, and the gap of the second is open to the
  garbage collection ("oops, we are currently demoting", `common/cache.c`). The
  second may then get a new, blank entry, which goes to disk.
- `LocksAreOwned` allows `Lost` locks: `DT_MIPMAP_BEST_EFFORT` does not release the read
  lock of an entry without pixels (`mipmap_cache.c:1119`), which is never freed.
- `dt_undo_clear` drops both lists whole (`undo.c:337`), `undo.h:93` promises the
  items that match. `Clear` has what the code does.
- With `Concurrent = TRUE` `ImplementsTimeline` fails: an undo while a job has its
  group open runs past the start mark, and the groups of two threads merge. A style
  that fails to apply leaves `disable_next` set, and the next record is swallowed.
  With a `Filters` of single types, an undo skips items, and the order changes.
- `PicturesFollow` excludes a pipe that called its result valid over a pending
  change (`develop.c:520`) while the other pipe has no later time stamp. The preview
  stays old if the full pipe took its time stamp before `dev->timestamp` moved (its
  restart waits for `history_mutex` right there) or if `dt_dev_invalidate` brought
  the preview's up to date; the full pipe, if the edit falls between its last look at
  its flags (`develop.c:512`) and 520. `pixelpipe_hb.h:79-82` calls that status
  "valid result". An aborted preview is valid with its older picture, too, and the
  agent's render may be taken from it. The next edit or pan mends all of these.
- `OneTimeline` reads modules that are always on from the stack, not from the controls:
  after a selection of "original" and an edit of another module, their entries above
  the end are kept (`develop.c:874`) and are part of the picture again, while the
  controls, and so the agent's snapshot, show the defaults. The text of the history
  panel says that later changes are lost (`libs/history.c:106`).
- Not modelled, but seen: at "original", compress deletes the history and applies the
  auto presets anew (`common/history.c:1216`); its tooltip promises "a minimal history
  stack which produces the same image" (`libs/history.c:141`).
- Not modelled, but seen: while the picture does not fit the viewport, redraws that
  never stop (`view.c:1817`) would starve the full pipe.

## Proofs
Each theorem holds for every value of the constants that the `ASSUME` of its module
allows; the bounds of the runs are among them. None of the properties is inductive
alone, so that each module has a stronger invariant, called `IInv`, which a run
checks too; those of the undo lists and of the history stack are in the proofs, and
that of the pixel pipes is `PipesInv`.
The proof modules have one lemma per action, or per conjunct with one step per
action that can disturb it, then the step of the invariant, then the theorems by
temporal logic.

`BridgeRequests_proofs`: `TypeOK`, `CancelIsSeen`, `ContextOfRunningTurn`,
`ThreadsOfThisProcess`, `HistoryOfThisThread`, `TurnStateIsOwn`, `CancelStopsCodex`,
and the temporal property `CancelDooms`. `CallsInOrder` ties the program counters to
the lock and the table, so that at most one call is in the turn loop;
`ProcessWhileInUse` says that such a call has a process, so that a thread it starts
is one of the process that runs; `TurnsAreOfPastCalls`, that a call that has not
sent its turn has none running, so that a cancel before that point leaves Codex
nothing to do; `BlockedWhileWaiting`, that only a call that waits for Codex is blocked
on the pipes, so that a blocked write that completes belongs to the call that made
it; `OpenTurnIsCounted` keeps histories no longer than counts when a turn
completes. For `CancelDooms` a cancelled call is shown to stay doomed (`Doomed`): it
is on its way out without a plan, or its event is set and its next look will find
it. Assumed: `None` is no request and no thread, and every request has a
conversation.

`LiveRun_proofs`: `TypeOK`, `EditsOnceInOrder`, `NothingLeftOut`,
`FreshIfNoneMissed`, and the refinement of `LiveEdits`. What darktable has is
followed backwards to what was issued: every list in the stream or on the main loop
is a beginning of the issued operations (`EventsAreIssued`), and so is the image
while no write failed (`EditsAreIssued`); `ImageIsBounded` says how long it may get
when one did. `TurnOrder` ties the plan and the rest of a tool call to the worker.
`OneRenderPerStep` and `PipeIsOfStep` say that, while no wait missed its render, the
one render of a step is in one place at a time. A step of the run then issues,
applies, ends or breaks the abstract run, or leaves it alone.

`ChatPanel_proofs`: `TypeOK`, `SlotIsPending`, `LoadingIsBacked`, and the action
property `EditsAreWanted`. Only submitted requests have threads and callbacks
(`OnlySubmitted`), the panel of a visible darkroom shows the session of the open
image (`ShowsOpenImage`), and as long as the user has not left a loading panel, a
panel that loads shows the chat of the request in the slot, and no session but its
own is marked as loading (`LoadingIsOfSlot`). `EditsAreWanted` needs all of it: the
progress handler edits the open image while the panel loads and a request is active, not asking
which image that is. The invariant says that the slot then belongs to the chat shown,
that its request is pending, and that the chat shown is that of the open image.

`EditValues_proofs`: `TypeOK`, `ShadowIsReplay`, `ShadowNearImage`,
`OrderKeptPerCall`, `AllOrNothing`, and for `ToolBudget` `AnswersBounded`. A left
fold is shown to be the trace of the writes, one after the other, by an induction
over the set of the lengths for which that holds; a sort to be a renumbering of the
places, so that sorting what the bridge has sorted is the identity. `TakenAccepted`
says that what was applied had been accepted, write by write, from which it follows
that darktable refuses nothing. `ImageFollows` compares the two sides setting by
setting: clamping brings two numbers no further apart, and a write adds at most one
rounding. Assumed: base values, rounded numbers and those that follow a write lie
in their ranges, as darktable's sliders clamp them, a rounded number is within
`Error` of the number, and a switch is a bool. The guardrails need that the streak is at least the
row of answered looks, and that the used calls are at least the answered ones.

`JobQueue_proofs`: `TypeOK`, `OneOwner`, `PendingIsExact`, `NoSecondCopy`. The
strengthening says what a thread holds at each program counter (`ThreadsHoldJobs`),
that no two owners hold one object (`OwnersDiffer`) and that what exists has one
(`LiveIsOwned`); the count is restated over the objects that exist
(`PendingIsLive`), where each step adds or takes one; of two equal thumbnails one is
with a worker that has left it (`CopiesLeave`), and the flag of the export queue is
up exactly while a worker has one (`OneExport`). Assumed: finitely many jobs and
callers, and reserved workers that are named apart from the queues.

`ThumbCache_proofs`: `TypeOK`, `LocksAreOwned`, `ShownIsGenerated`, `QuotaMet`. What
is not in the table has no entry (`GoneIsAbsent`), a thumbnail is copied from
another one (`SourceIsLarger`); unless two readers have demoted on one entry
(`overlap`), each demotion has its flag to itself (`DemotionsApart`), a blank entry
is locked by the reader that fills it (`BlankIsWritten`), and files have pixels
(`FilesHavePixels`). The cost is the sum over the table (`CostIsSum`): that a sum
over a set exists, is unique and changes by the cost of the element is shown by
induction on the number of elements. A collection that leaves a free entry stopped
before the first such one, where its ratio was met.

`Darkroom_proofs`: the refinement of `UndoTimeline` by `UndoList`, under
`AllTypes` (callers filter by all types and nobody undoes while a group is open: the
known deviations are counterexamples without it). The marks of groups before the
place and on the whole line are even in number, so that an undo, which stops at the
next mark of a group it has entered, stops where no group is open; a redo is an undo
of the line turned round. And `OneTimeline` of `HistoryStack`: a picture depends on
the last entry of each module alone (`SameReplay`), so that dropping, compressing,
reloading and putting default modules below do not show; the invariant `HInv` says
that the stack shows what the controls do, outside of modules on by default, and
that nothing can be redone while an edit may still be merged with the one before. And
`RestIsSettled` of `PixelPipes`, the safety half of `PicturesFollow`: where neither
the main loop nor a worker has a step left, each picture is current or was called
valid over a change that had just come, and the time stamps of the two pipes are
equal. `PipesInv` follows a change from the flag to the picture: a pending one has a
dirty pipe, a run that may still see it, or a run that missed it (`PendingIsKnown`);
a pipe that is dirty or behind the other is asked, at work, or still to be looked at
by a redraw (`DirtyIsAsked`, `BehindIsAsked`). TLC finds it to hold for three edits
and two pans (28 million states, more than a run here has time for).

Only model-checked: all liveness, which the prover does not reach (`CancelReturns`,
`PlanReturns`, `RunEnds`, `PanelGetsReady`, `JobsAreServed`, `ThreadsEnd`, and
`PicturesFollow`, which says what the pipes come to under fairness).

## Not modelled
Message validation and serialisation (`shared/protocol.py`, `agent_protocol.c`): single
messages, no state. Canonical binder, verifier, signals, prompts: pure
functions of text or pixels. State collection and the introspection in the
catalog: they depend on darktable's widgets. Mock planner, evaluation harness,
scripts. Of darktable: the pixelpipe cache (one thread; what it may wrongly return
depends on hashes of parameters, which are abstract here), the second darkroom
window, image cache and database, import and export, the widgets, and the
arithmetic of the image operations, which is most of its lines and has no state
that outlives a run of a pipe.

## Plan
1. (done) the bridge with its proofs, the live run with its abstract
   specification, the panel, the values, the guardrails.
2. (done) the parts of darktable below the agent: job control, thumbnails, undo
   with its abstract specification, the pixel pipes, the history stack.
3. (done) Proofs of the safety properties of the bridge, the live run, the panel,
   the values, the guardrails, job control, the thumbnails, and of both timelines
   of undo.
4. (done) `PixelPipes`: the safety half of `PicturesFollow` as an invariant with its
   proof.
5. If there is room for more runs: two live runs of one panel (renders armed by one
   and posted in the next, the deferred responses of a
   hidden darkroom).
