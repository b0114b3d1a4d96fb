--------------------------- MODULE BridgeRequests ---------------------------
(***************************************************************************)
(* The Codex bridge of the server: concurrent CodexAppServerBridge.plan()  *)
(* calls that share one `codex app-server` child process.  One lock        *)
(* (_lock) serialises the calls; a second one (_state_lock) guards the     *)
(* tables that the cancel endpoint uses while a turn runs, so each of its  *)
(* critical sections is one atomic step here.                              *)
(*                                                                         *)
(* A plan() call is named by its request id, which the client draws from   *)
(* a uuid.  Things that a call creates once are named after it: the child  *)
(* process it launched, the Codex thread it started, its Codex turn, and   *)
(* the JSON-RPC requests it sent (the counter _next_request_id is unique   *)
(* within a process, and a process gets new pipes).                        *)
(*                                                                         *)
(* The calls on the pipes of the child block: a write until the child      *)
(* makes room in its full stdin, readline() until a line that select() saw *)
(* the beginning of has an end.  Meanwhile no deadline and no cancel is    *)
(* looked at, and _lock is held.                                           *)
(***************************************************************************)
EXTENDS Naturals, Sequences, FiniteSets

CONSTANTS
  Requests,       \* request ids
  Conversations,  \* conversation ids
  ConvOf,         \* the conversation of each request
  Watched,        \* the requests that liveness is stated for
  MaxPipe,        \* bound: lines of Codex that are not yet handled
  None            \* the absent value

ASSUME RequestsAssumption ==
  /\ ConvOf \in [Requests -> Conversations]
  /\ None \notin Requests
  /\ None \notin [by : Requests, proc : Requests]
  /\ MaxPipe \in Nat \ {0}

ASSUME WatchedAssumption == Watched \subseteq Requests

VARIABLES
  pc,           \* where each plan() call is
  lock,         \* the holder of _lock, or None
  active,       \* keys of _active_requests
  status,       \* ActiveRequestState.status
  cancelEvent,  \* ActiveRequestState.cancel_event
  cancelled,    \* keys of _cancelled_requests
  thread,       \* ActiveRequestState.thread_id
  outcome,      \* how the call ends: the plan, or its error
  proc,         \* _process: the call that launched it, or None
  exit,         \* "up"; or the child exited: "eof" when its pipes closed,
                \* "open" when a descendant still holds them
  initialized,  \* _initialized
  threads,      \* _conversation_threads
  turnCount,    \* _conversation_turn_counts
  history,      \* length of each _conversation_histories entry
  contexts,     \* keys of _turn_contexts
  turn,         \* TurnRunState of the turn loop
  pipe,         \* lines in the kernel's pipe of the child's stdout
  buf,          \* lines readline() has already taken out of that pipe
  half,         \* a line that Codex has written only the beginning of: "none",
                \* in the "pipe", or taken out of it by readline(), "buf"
  io,           \* what the holder of _lock is blocked in: "free" (nothing),
                \* the write of a request, "send", or of an answer, "reply",
                \* the readline() of stdout, "read", or of stderr, "stderr"
  inbox,        \* requests Codex has received and not answered
  running       \* turns Codex is executing

callVars  == <<pc, status, cancelEvent, thread, outcome>>
tableVars == <<active, cancelled>>
convVars  == <<threads, turnCount, history, contexts>>
codexVars == <<proc, exit, initialized, pipe, buf, half, io, inbox, running>>
vars == <<callVars, tableVars, lock, convVars, codexVars, turn>>

-----------------------------------------------------------------------------
Methods == {"initialize", "thread/start", "turn/start"}
TurnKinds == {"delta", "tool", "error", "final", "completed"}

\* A line of the child's stdout: an answer to a request (ok: it has a result),
\* or a notification or server request of a turn (ok: turn/completed without
\* an error).
Line == [kind : Methods \cup TurnKinds, req : Requests, ok : BOOLEAN]
Rpc == [kind : Methods, req : Requests]
Thread == [by : Requests, proc : Requests]

InLock == {"init", "initWait", "thread", "threadWait", "start", "turnWait",
           "run", "clear", "release"}
\* Where a call reads the lines of Codex.
Waits == {"initWait", "threadWait", "turnWait", "run"}
PC == {"idle", "queued", "unregister", "done"} \cup InLock
Status == {"queued", "initializing", "starting-thread", "starting-turn",
           "running", "cancel-requested", "cancelled", "completed", "failed"}
\* The error codes of Codex (codex_timeout, codex_stalled, ...) are one value.
Outcome == {"none", "plan", "request_cancelled", "codex_error"}

\* slow: the last message was a tool call that took longer than the idle limit.
NewTurn == [from |-> {}, text |-> FALSE, error |-> FALSE, completed |-> FALSE,
            slow |-> FALSE]

Init ==
  /\ pc = [r \in Requests |-> "idle"]
  /\ lock = None
  /\ active = {} /\ cancelled = {}
  /\ status = [r \in Requests |-> "queued"]
  /\ cancelEvent = [r \in Requests |-> FALSE]
  /\ thread = [r \in Requests |-> None]
  /\ outcome = [r \in Requests |-> "none"]
  /\ proc = None /\ exit = "up" /\ initialized = FALSE
  /\ threads = [c \in Conversations |-> None]
  /\ turnCount = [c \in Conversations |-> 0]
  /\ history = [c \in Conversations |-> 0]
  /\ contexts = {}
  /\ turn = NewTurn
  /\ pipe = <<>> /\ buf = <<>> /\ half = "none" /\ io = "free"
  /\ inbox = {} /\ running = {}

-----------------------------------------------------------------------------
\* _set_active_request_status_locked: only a registered request has a status.
SetStatus(r, s) ==
  status' = IF r \in active THEN [status EXCEPT ![r] = s] ELSE status

Goto(r, l) == pc' = [pc EXCEPT ![r] = l]

\* An exception leaves the turn loop through its finally clause.
Raise(r, code) ==
  /\ outcome' = [outcome EXCEPT ![r] = code]
  /\ Goto(r, IF pc[r] = "run" THEN "clear" ELSE "release")

\* Mutant: a new process, but the threads of the old one.
ClearAllButThreads ==
  /\ turnCount' = [c \in Conversations |-> 0]
  /\ history' = [c \in Conversations |-> 0]
  /\ contexts' = {}
  /\ UNCHANGED threads

\* Mutant: the histories and counts survive the threads they describe.
ClearThreadsOnly ==
  /\ threads' = [c \in Conversations |-> None]
  /\ contexts' = {}
  /\ UNCHANGED <<turnCount, history>>

ClearConversations ==
  /\ threads' = [c \in Conversations |-> None]
  /\ turnCount' = [c \in Conversations |-> 0]
  /\ history' = [c \in Conversations |-> 0]
  /\ contexts' = {}

NewPipes ==
  /\ pipe' = <<>> /\ buf' = <<>> /\ half' = "none" /\ io' = "free"
  /\ running' = {}

\* Mutant: the handle is dropped, the child is not killed.
ResetWithoutKill ==
  /\ proc' = None /\ exit' = "up" /\ initialized' = FALSE
  /\ pipe' = <<>> /\ buf' = <<>> /\ half' = "none" /\ io' = "free"
  /\ ClearConversations
  /\ UNCHANGED <<inbox, running>>

\* _reset_process_locked
ResetProcess ==
  /\ proc' = None /\ exit' = "up" /\ initialized' = FALSE
  /\ NewPipes /\ inbox' = {}
  /\ ClearConversations

\* A line written to a child whose pipes are closed raises BrokenPipeError.
SendFails == exit = "eof"

\* The write of a request returns at once, or blocks with a part of the
\* request in the full pipe.
Send(r, method) ==
  \/ /\ io' = "free"
     /\ inbox' = IF exit = "up" THEN inbox \cup {[kind |-> method, req |-> r]}
                                ELSE inbox
  \/ io' = "send" /\ UNCHANGED inbox

-----------------------------------------------------------------------------
(* The request tables: register, cancel, unregister.                       *)

\* Mutant: registering does not look at earlier cancels.
IgnoreEarlierCancel(r) == FALSE

CancelledEarlier(r) == r \in cancelled

\* plan() computes the deadline, then registers; a cancel that came first is
\* found in _cancelled_requests.
Register(r) ==
  /\ pc[r] = "idle"
  /\ Goto(r, "queued")
  /\ active' = active \cup {r}
  /\ cancelEvent' = [cancelEvent EXCEPT ![r] = CancelledEarlier(r)]
  /\ UNCHANGED <<status, thread, outcome, cancelled, lock,
                 convVars, codexVars, turn>>

\* POST /v1/chat/cancel: before, during or after the call it names.  A client
\* sends it at most once for a request.
CancelRequest(r) ==
  /\ r \notin cancelled
  /\ cancelled' = cancelled \cup {r}
  /\ IF r \in active
     THEN /\ cancelEvent' = [cancelEvent EXCEPT ![r] = TRUE]
          /\ status' = [status EXCEPT ![r] = "cancel-requested"]
     ELSE UNCHANGED <<cancelEvent, status>>
  /\ UNCHANGED <<pc, thread, outcome, active, lock, convVars,
                 codexVars, turn>>

\* Leaving `with self._lock`, then the except clause of plan().
ReleaseLock(r) ==
  /\ pc[r] = "release"
  /\ lock' = None
  /\ IF outcome[r] = "plan" THEN UNCHANGED status ELSE SetStatus(r, "failed")
  /\ Goto(r, "unregister")
  /\ UNCHANGED <<cancelEvent, thread, outcome, tableVars, convVars,
                 codexVars, turn>>

\* The ActiveRequestState of the call is dropped.
Unregister(r) ==
  /\ pc[r] = "unregister"
  /\ active' = active \ {r}
  /\ cancelled' = IF r \in active THEN cancelled \ {r} ELSE cancelled
  /\ Goto(r, "done")
  /\ status' = [status EXCEPT ![r] = "queued"]
  /\ cancelEvent' = [cancelEvent EXCEPT ![r] = FALSE]
  /\ thread' = [thread EXCEPT ![r] = None]
  /\ UNCHANGED <<outcome, lock, convVars, codexVars, turn>>

-----------------------------------------------------------------------------
(* The steps of plan() under _lock.                                        *)

\* Mutant: plan() does not wait for _lock.
NoWaitForLock == TRUE

LockIsFree == lock = None

AcquireLock(r) ==
  /\ pc[r] = "queued" /\ LockIsFree
  /\ lock' = r
  /\ SetStatus(r, "initializing")
  /\ Goto(r, "init")
  /\ UNCHANGED <<cancelEvent, thread, outcome, tableVars, convVars,
                 codexVars, turn>>

\* Mutant: cancellation is only looked at before the turn.
ChecksCancelBeforeTurn(r) == pc[r] \in {"init", "thread"}

\* Where _raise_if_cancelled_locked(active_request) runs.  The waits for
\* initialize and thread/start pass None and never look at the event.
ChecksCancel(r) ==
  \/ pc[r] \in {"init", "thread", "turnWait"}
  \/ pc[r] = "run" /\ ~turn.completed

RaiseIfCancelled(r) ==
  /\ ChecksCancel(r) /\ cancelEvent[r] /\ io = "free"
  /\ SetStatus(r, "cancelled")
  /\ ResetProcess
  /\ Raise(r, "request_cancelled")
  /\ UNCHANGED <<cancelEvent, thread, tableVars, lock, turn>>

NotCancelled(r) == ChecksCancel(r) => ~cancelEvent[r]

\* _ensure_initialized_locked: replace a child found dead, launch one when
\* there is none (which may fail), and initialize it once.  The first write to
\* a new child finds its pipe empty.
EnsureInitialized(r) ==
  LET launch == proc = None \/ exit # "up" IN
  /\ pc[r] = "init" /\ NotCancelled(r)
  /\ \/ /\ launch
        /\ proc' = r /\ exit' = "up" /\ initialized' = FALSE
        /\ NewPipes /\ ClearConversations
        /\ inbox' = {[kind |-> "initialize", req |-> r]}
        /\ Goto(r, "initWait")
        /\ UNCHANGED outcome
     \/ /\ launch
        /\ ResetProcess
        /\ Raise(r, "codex_error")
     \/ /\ ~launch
        /\ IF initialized
           THEN Goto(r, "thread") /\ UNCHANGED <<inbox, io>>
           ELSE Goto(r, "initWait") /\ Send(r, "initialize")
        /\ UNCHANGED <<proc, exit, initialized, pipe, buf, half, running,
                       convVars, outcome>>
  /\ UNCHANGED <<status, cancelEvent, thread, tableVars, lock,
                 turn>>

\* _get_or_create_thread_locked: the conversation's thread is reused.
ReuseThread(r) ==
  /\ pc[r] = "thread" /\ NotCancelled(r)
  /\ threads[ConvOf[r]] # None
  /\ thread' = [thread EXCEPT ![r] = threads[ConvOf[r]]]
  /\ SetStatus(r, "starting-turn")
  /\ Goto(r, "start")
  /\ UNCHANGED <<cancelEvent, outcome, tableVars, lock, convVars,
                 codexVars, turn>>

RequestThread(r) ==
  /\ pc[r] = "thread" /\ NotCancelled(r) /\ ~SendFails
  /\ threads[ConvOf[r]] = None
  /\ SetStatus(r, "starting-thread")
  /\ Send(r, "thread/start")
  /\ Goto(r, "threadWait")
  /\ UNCHANGED <<cancelEvent, thread, outcome, tableVars, lock,
                 convVars, proc, exit, initialized, pipe, buf, half, running,
                 turn>>

NextTurnIndex(r) == turnCount[ConvOf[r]] + 1

\* _run_turn_locked up to the wait for the answer to turn/start.
RequestTurn(r) ==
  /\ pc[r] = "start" /\ ~SendFails
  /\ turnCount' = [turnCount EXCEPT ![ConvOf[r]] = NextTurnIndex(r)]
  /\ Send(r, "turn/start")
  /\ Goto(r, "turnWait")
  /\ UNCHANGED <<status, cancelEvent, thread, outcome, tableVars,
                 lock, threads, history, contexts, proc, exit, initialized,
                 pipe, buf, half, running, turn>>

\* _send_json_locked finds the child gone when it sends a request, or when
\* the pipes close while it is blocked in a write.
TransportError(r) ==
  /\ SendFails
  /\ \/ pc[r] = "start"
     \/ pc[r] = "thread" /\ NotCancelled(r) /\ threads[ConvOf[r]] = None
     \/ pc[r] \in Waits /\ io \in {"send", "reply"}
  /\ ResetProcess
  /\ Raise(r, "codex_error")
  /\ UNCHANGED <<status, cancelEvent, thread, tableVars, lock,
                 turn>>

-----------------------------------------------------------------------------
(* _read_message_locked.  select() looks at the kernel's pipe, readline()  *)
(* at the lines it buffered before; a line that is only buffered does not  *)
(* make select() ready.  After EOF the pipe is ready for ever.             *)

Awaited(r) == CASE pc[r] = "initWait" -> "initialize"
                [] pc[r] = "threadWait" -> "thread/start"
                [] pc[r] = "turnWait" -> "turn/start"
                [] OTHER -> "none"

\* The checks before each select(): cancellation, the idle limit.
MayRead(r) ==
  /\ pc[r] \in Waits /\ io = "free" /\ NotCancelled(r)
  /\ pc[r] = "run" => ~turn.completed /\ ~turn.slow

\* In readline(): just called, or blocked in it since an earlier step.
Reading(r) == MayRead(r) \/ (pc[r] \in Waits /\ io = "read")

\* select() is ready, and the line that the next readline() returns.
Ready == pipe # <<>> \/ half = "pipe" \/ exit = "eof"
HasLine == Ready /\ (pipe # <<>> \/ buf # <<>>)
NextLine == IF buf # <<>> THEN Head(buf) ELSE Head(pipe)

\* An empty buffer is refilled with some of the lines in the pipe; when these
\* are all of them, perhaps also with the beginning of the next.
Refill ==
  \E k \in 1 .. Len(pipe) :
    /\ buf' = SubSeq(pipe, 2, k)
    /\ pipe' = SubSeq(pipe, k + 1, Len(pipe))
    /\ \/ UNCHANGED half
       \/ k = Len(pipe) /\ half = "pipe" /\ half' = "buf"

\* A tool call is answered before the next read, which may block.
ReadLine(r) ==
  /\ Reading(r) /\ HasLine
  /\ IF buf # <<>> THEN buf' = Tail(buf) /\ UNCHANGED <<pipe, half>>
                   ELSE Refill
  /\ \/ io' = "free"
     \/ NextLine.kind = "tool" /\ io' = "reply"

\* select() was made ready by the beginning of a line, and readline() waits
\* for the end of that line, whatever the deadline.
ReadBlocks(r) ==
  /\ MayRead(r)
  /\ half = "pipe" /\ pipe = <<>> /\ buf = <<>> /\ exit # "eof"
  /\ io' = "read" /\ half' = "buf"
  /\ UNCHANGED <<callVars, tableVars, lock, convVars, proc, exit,
                 initialized, pipe, buf, inbox, running, turn>>

\* At the end of the file readline() returns the beginning of a line, which
\* is no JSON.  The child is kept.
ReadPiece(r) ==
  /\ Reading(r) /\ exit = "eof"
  /\ half # "none" /\ pipe = <<>> /\ buf = <<>>
  /\ half' = "none" /\ io' = "free"
  /\ Raise(r, "codex_error")
  /\ UNCHANGED <<status, cancelEvent, thread, tableVars, lock, convVars, proc,
                 exit, initialized, pipe, buf, inbox, running, turn>>

IsAnswer(r) == NextLine.kind = Awaited(r) /\ NextLine.req = r

\* The answer that _send_request_locked waits for, with a result.  (A child
\* that answered initialize has read its stdin: "initialized" is written
\* without blocking.)
ReadAnswer(r) ==
  /\ ReadLine(r) /\ IsAnswer(r) /\ NextLine.ok
  /\ pc[r] = "initWait" => ~SendFails
  /\ \/ /\ pc[r] = "initWait"
        /\ initialized' = TRUE
        /\ Goto(r, "thread")
        /\ UNCHANGED <<status, thread, threads, contexts, turn>>
     \/ /\ pc[r] = "threadWait"
        /\ LET t == [by |-> r, proc |-> proc] IN
             /\ threads' = [threads EXCEPT ![ConvOf[r]] = t]
             /\ thread' = [thread EXCEPT ![r] = t]
        /\ SetStatus(r, "starting-turn")
        /\ Goto(r, "start")
        /\ UNCHANGED <<initialized, contexts, turn>>
     \/ /\ pc[r] = "turnWait"
        /\ contexts' = contexts \cup {r}
        /\ turn' = NewTurn
        /\ SetStatus(r, "running")
        /\ Goto(r, "run")
        /\ UNCHANGED <<initialized, thread, threads>>
  /\ UNCHANGED <<cancelEvent, outcome, tableVars, lock, turnCount,
                 history, proc, exit, inbox, running>>

\* The answer carries an error (or initialize no result, thread/start and
\* turn/start no id).  The child is kept.
ReadErrorAnswer(r) ==
  /\ ReadLine(r) /\ IsAnswer(r) /\ ~NextLine.ok
  /\ Raise(r, "codex_error")
  /\ UNCHANGED <<status, cancelEvent, thread, tableVars, lock,
                 convVars, proc, exit, initialized, inbox, running, turn>>

\* _handle_message_locked without a turn state: notifications are dropped
\* and a tool call is answered with an error, as its turn has no context.
DropLine(r) ==
  /\ ReadLine(r) /\ pc[r] # "run" /\ ~IsAnswer(r)
  /\ NextLine.kind = "tool" => ~SendFails
  /\ UNCHANGED <<callVars, tableVars, lock, convVars, proc, exit,
                 initialized, inbox, running, turn>>

\* The answer to a tool call, or "initialized", cannot be written.
ReplyFails(r) ==
  /\ Reading(r) /\ HasLine /\ SendFails
  /\ \/ NextLine.kind = "tool"
     \/ pc[r] = "initWait" /\ IsAnswer(r) /\ NextLine.ok
  /\ ResetProcess
  /\ Raise(r, "codex_error")
  /\ UNCHANGED <<status, cancelEvent, thread, tableVars, lock,
                 turn>>

\* Mutant: the lines are matched by their thread alone.
LineOfThread(r, m) ==
  m.kind \notin Methods /\ thread[m.req] \in {thread[r], None}

\* The filter on params.threadId and params.turnId.
LineOfTurn(r, m) == m.kind \notin Methods /\ m.req = r

\* _handle_message_locked in the turn loop: only lines of this call's turn
\* count.  last_activity_at is taken before a tool call is handled, so a long
\* one (renders that time out one after the other) uses up the idle limit.
ReadTurnLine(r) ==
  /\ ReadLine(r) /\ pc[r] = "run"
  /\ NextLine.kind = "tool" => ~SendFails
  /\ LET m == NextLine IN
       IF ~LineOfTurn(r, m)
       THEN turn' = [turn EXCEPT !.slow = FALSE] /\ UNCHANGED status
       ELSE IF m.kind = "tool"
       THEN /\ \E b \in BOOLEAN : turn' = [turn EXCEPT !.slow = b]
            /\ SetStatus(r, "running")
       ELSE /\ turn' = [from |-> turn.from \cup {m.req},
                        text |-> turn.text \/ m.kind \in {"delta", "final"},
                        error |-> \/ turn.error \/ m.kind = "error"
                                  \/ m.kind = "completed" /\ ~m.ok,
                        completed |-> m.kind \in {"final", "completed"},
                        slow |-> FALSE]
            /\ UNCHANGED status
  /\ UNCHANGED <<pc, cancelEvent, thread, outcome, tableVars, lock, convVars,
                 proc, exit, initialized, inbox, running>>

\* Mutant: a read that passes its deadline goes on reading.
ReadOn(r) == MayRead(r) /\ UNCHANGED vars

\* The deadline of the call has passed: the read gives up; the child is kept.
Timeout(r) ==
  /\ MayRead(r)
  /\ Raise(r, "codex_error")
  /\ UNCHANGED <<status, cancelEvent, thread, tableVars, lock,
                 convVars, codexVars, turn>>

\* The turn loop gives up when the last message is older than the idle limit:
\* select() found nothing in the meantime, or a tool call took that long.
Stall(r) ==
  /\ pc[r] = "run" /\ ~turn.completed /\ NotCancelled(r)
  /\ io = "free" /\ (turn.slow \/ ~Ready)
  /\ Raise(r, "codex_error")
  /\ UNCHANGED <<status, cancelEvent, thread, tableVars, lock,
                 convVars, codexVars, turn>>

\* Only a select() that times out looks whether the child is alive.
DetectExit(r) ==
  /\ MayRead(r) /\ exit = "open" /\ ~Ready
  /\ ResetProcess
  /\ Raise(r, "codex_error")
  /\ UNCHANGED <<status, cancelEvent, thread, tableVars, lock,
                 turn>>

\* The end of _run_turn_locked: the collected text is a plan, or it is not.
FinishTurn(r) ==
  /\ pc[r] = "run" /\ turn.completed
  /\ \/ /\ ~turn.error /\ turn.text
        /\ outcome' = [outcome EXCEPT ![r] = "plan"]
        /\ SetStatus(r, "completed")
        /\ history' = [history EXCEPT ![ConvOf[r]] = IF @ < 10 THEN @ + 1
                                                               ELSE @]
     \/ /\ outcome' = [outcome EXCEPT ![r] = "codex_error"]
        /\ UNCHANGED <<status, history>>
  /\ Goto(r, "clear")
  /\ UNCHANGED <<cancelEvent, thread, tableVars, lock, threads,
                 turnCount, contexts, codexVars, turn>>

\* Mutant: no finally clause.
WithContext(r) == contexts

WithoutContext(r) == contexts \ {r}

\* The finally clause of _run_turn_locked; the turn state is dropped.
ClearContext(r) ==
  /\ pc[r] = "clear"
  /\ contexts' = WithoutContext(r)
  /\ turn' = NewTurn
  /\ Goto(r, "release")
  /\ UNCHANGED <<status, cancelEvent, thread, outcome, tableVars, lock,
                 threads, turnCount, history, codexVars>>

-----------------------------------------------------------------------------
(* The child process.                                                       *)

CodexUp == proc # None /\ exit = "up" /\ Len(pipe) + Len(buf) < MaxPipe

\* Codex answers a request; a turn/start answered with success is running.
CodexAnswer(q, ok) ==
  /\ CodexUp
  /\ q \in inbox
  /\ inbox' = inbox \ {q}
  /\ pipe' = Append(pipe, [kind |-> q.kind, req |-> q.req, ok |-> ok])
  /\ half' = "none"
  /\ running' = IF ok /\ q.kind = "turn/start" THEN running \cup {q.req}
                                               ELSE running
  /\ UNCHANGED <<callVars, tableVars, lock, convVars, proc, exit,
                 initialized, buf, io, turn>>

\* A turn writes a line, perhaps before turn/start is answered; after
\* turn/completed it writes no more.
CodexEmit(r, k, ok) ==
  /\ CodexUp
  /\ \/ r \in running
     \/ [kind |-> "turn/start", req |-> r] \in inbox /\ k # "completed"
  /\ ~ok => k = "completed"
  /\ pipe' = Append(pipe, [kind |-> k, req |-> r, ok |-> ok])
  /\ half' = "none"
  /\ running' = IF k = "completed" THEN running \ {r} ELSE running
  /\ UNCHANGED <<callVars, tableVars, lock, convVars, proc, exit,
                 initialized, buf, io, inbox, turn>>

\* Codex begins to write one of these lines.
CodexBegins ==
  /\ CodexUp /\ inbox \cup running # {}
  /\ half # "pipe" /\ io # "read"
  /\ half' = "pipe"
  /\ UNCHANGED <<callVars, tableVars, lock, convVars, proc, exit, initialized,
                 pipe, buf, io, inbox, running, turn>>

\* The child reads its stdin, and the write that waited for it completes.
CodexReads ==
  /\ exit = "up" /\ io \in {"send", "reply"}
  /\ io' = "free"
  /\ inbox' = IF io = "send"
              THEN inbox \cup {[kind |-> Awaited(lock), req |-> lock]}
              ELSE inbox
  /\ UNCHANGED <<callVars, tableVars, lock, convVars, proc, exit, initialized,
                 pipe, buf, half, running, turn>>

\* Codex begins a line on stderr, which select() shows to a call that finds
\* nothing on stdout; when the line ends, or that pipe is closed, it is logged.
CodexBeginsStderr(r) ==
  /\ exit = "up" /\ MayRead(r) /\ ~Ready
  /\ io' = "stderr"
  /\ UNCHANGED <<callVars, tableVars, lock, convVars, proc, exit, initialized,
                 pipe, buf, half, inbox, running, turn>>

CodexEndsStderr ==
  /\ io = "stderr" /\ exit # "open"
  /\ io' = "free"
  /\ UNCHANGED <<callVars, tableVars, lock, convVars, proc, exit, initialized,
                 pipe, buf, half, inbox, running, turn>>

\* The child dies by itself.
CodexExit(e) ==
  /\ proc # None /\ exit = "up"
  /\ exit' = e
  /\ inbox' = {} /\ running' = {}
  /\ UNCHANGED <<callVars, tableVars, lock, convVars, proc, initialized, pipe,
                 buf, half, io, turn>>

\* The descendants that hold the pipes of a dead child exit too.
CodexCloses ==
  /\ exit = "open"
  /\ exit' = "eof"
  /\ UNCHANGED <<callVars, tableVars, lock, convVars, proc, initialized, pipe,
                 buf, half, io, inbox, running, turn>>

-----------------------------------------------------------------------------
\* The steps of the thread that runs plan(r) once it is registered: those
\* that need only the processor (a slow tool call has used up the idle limit
\* already), and those that need the clock.
PlanStep(r) ==
  \/ AcquireLock(r) \/ RaiseIfCancelled(r) \/ EnsureInitialized(r)
  \/ ReuseThread(r) \/ RequestThread(r) \/ RequestTurn(r)
  \/ TransportError(r) \/ ReadAnswer(r) \/ ReadErrorAnswer(r) \/ DropLine(r)
  \/ ReplyFails(r) \/ ReadTurnLine(r) \/ ReadBlocks(r) \/ ReadPiece(r)
  \/ (turn.slow /\ Stall(r))
  \/ DetectExit(r) \/ FinishTurn(r) \/ ClearContext(r)
  \/ ReleaseLock(r) \/ Unregister(r)

ClockStep(r) == Timeout(r) \/ Stall(r)

CodexLine ==
  \/ \E q \in inbox, ok \in BOOLEAN : CodexAnswer(q, ok)
  \/ \E r \in Requests, k \in TurnKinds, ok \in BOOLEAN : CodexEmit(r, k, ok)

Codex ==
  \/ CodexLine \/ CodexBegins \/ CodexReads \/ CodexCloses
  \/ CodexEndsStderr \/ \E r \in Requests : CodexBeginsStderr(r)
  \/ \E e \in {"eof", "open"} : CodexExit(e)

\* Every call has returned.
AllDone == (\A r \in Requests : pc[r] = "done") /\ UNCHANGED vars

Next ==
  \/ \E r \in Requests : \/ Register(r) \/ CancelRequest(r) \/ PlanStep(r)
                         \/ ClockStep(r)
  \/ Codex \/ AllDone

Spec == Init /\ [][Next]_vars

\* The threads of the server run.
PromptFairness == \A r \in Requests : WF_vars(PlanStep(r))
PromptSpec == Spec /\ PromptFairness

\* The clock advances past every deadline.  One that has passed stays passed,
\* and the next check of it before a select() raises.
ClockFairness == \A r \in Requests : SF_vars(Timeout(r))

\* What ends a call on the pipes that blocks.  Nothing in the bridge sees to it.
Unblock ==
  \/ CodexReads \/ CodexEndsStderr
  \/ io = "read" /\ CodexLine
  \/ io # "free" /\ CodexCloses

-----------------------------------------------------------------------------
CallsTypeOK ==
  /\ pc \in [Requests -> PC]
  /\ status \in [Requests -> Status]
  /\ cancelEvent \in [Requests -> BOOLEAN]
  /\ thread \in [Requests -> Thread \cup {None}]
  /\ outcome \in [Requests -> Outcome]

BridgeTypeOK ==
  /\ lock \in Requests \cup {None}
  /\ active \subseteq Requests /\ cancelled \subseteq Requests
  /\ threads \in [Conversations -> Thread \cup {None}]
  /\ turnCount \in [Conversations -> Nat]
  /\ history \in [Conversations -> Nat]
  /\ contexts \subseteq Requests
  /\ turn \in [from : SUBSET Requests, text : BOOLEAN, error : BOOLEAN,
              completed : BOOLEAN, slow : BOOLEAN]

CodexTypeOK ==
  /\ proc \in Requests \cup {None}
  /\ exit \in {"up", "eof", "open"}
  /\ initialized \in BOOLEAN
  /\ pipe \in Seq(Line) /\ buf \in Seq(Line)
  /\ half \in {"none", "pipe", "buf"}
  /\ io \in {"free", "send", "reply", "read", "stderr"}
  /\ inbox \subseteq Rpc /\ running \subseteq Requests

TypeOK == CallsTypeOK /\ BridgeTypeOK /\ CodexTypeOK

\* Exactly the calls between register and unregister are in the table, _lock
\* is held exactly by the one call that is inside its critical section, and a
\* call has an outcome once it leaves the turn loop.
CallsInOrder ==
  /\ active = {r \in Requests : pc[r] \notin {"idle", "done"}}
  /\ \A r \in Requests : pc[r] \in InLock <=> lock = r
  /\ \A r \in Requests :
       pc[r] \in {"clear", "release", "unregister", "done"} <=>
         outcome[r] # "none"

\* A call sees that it is cancelled exactly when the cancel endpoint was
\* called for it, whichever of plan() and POST /v1/chat/cancel came first
\* (_register_request, cancel_request).
CancelIsSeen == {r \in Requests : cancelEvent[r]} = active \cap cancelled

\* The turn context that tool calls, progress and render callbacks look up
\* exists while its turn is being read, belongs to the call that holds _lock,
\* and is gone when that call leaves _run_turn_locked.
ContextOfRunningTurn ==
  /\ \A r \in Requests : pc[r] = "run" => r \in contexts
  /\ \A r \in contexts : pc[r] \in {"run", "clear"} /\ lock = r

\* Every Codex thread that the bridge knows is a thread of the child process
\* it talks to, and a call uses the thread that its conversation is mapped to
\* (_get_or_create_thread_locked, _reset_process_locked).
ThreadsOfThisProcess ==
  /\ \A c \in Conversations : threads[c] # None => threads[c].proc = proc
  /\ \A r \in Requests : pc[r] \in {"start", "turnWait"} =>
       thread[r] # None /\ thread[r] = threads[ConvOf[r]]

\* The history and the turn count that go into a prompt describe the Codex
\* thread in use: they never outlive it (_run_turn_locked).
HistoryOfThisThread ==
  \A c \in Conversations : /\ history[c] <= turnCount[c]
                           /\ turnCount[c] > 0 => threads[c] # None

\* What a turn collects comes from its own lines, although the lines of turns
\* that stalled or timed out keep arriving (_handle_message_locked).
TurnStateIsOwn ==
  /\ turn.from \subseteq {lock}
  /\ turn # NewTurn => \E r \in Requests : pc[r] \in {"run", "clear"}

\* Codex does not go on with a turn that was reported as cancelled.
CancelStopsCodex ==
  \A r \in Requests : outcome[r] = "request_cancelled" =>
    r \notin running /\ [kind |-> "turn/start", req |-> r] \notin inbox

\* Only a call that got as far as sending its turn can have one.
TurnsAreOfPastCalls ==
  \A r \in Requests :
    \/ r \in running
    \/ [kind |-> "turn/start", req |-> r] \in inbox
    => pc[r] \notin {"idle", "queued", "init", "initWait", "thread",
                     "threadWait", "start"}

\* There is a child process from the moment a call has made sure of it until
\* the call leaves the turn loop or resets it.
ProcessWhileInUse ==
  \A r \in Requests :
    pc[r] \in {"initWait", "thread", "threadWait", "start", "turnWait", "run"}
      => proc # None

\* Only a call that waits for Codex is blocked on the pipes: it has not yet
\* found the end of its turn, whose request it has written.
BlockedWhileWaiting ==
  io # "free" => \E r \in Requests :
    /\ lock = r /\ pc[r] \in Waits
    /\ pc[r] = "run" => ~turn.completed /\ io # "send"

\* A turn that is not finished is counted, and not yet in the history.
OpenTurnIsCounted ==
  \A r \in Requests : pc[r] \in {"turnWait", "run"} =>
    history[ConvOf[r]] < turnCount[ConvOf[r]]

\* The inductive invariant.
IInv ==
  /\ TypeOK /\ CallsInOrder /\ CancelIsSeen /\ ContextOfRunningTurn
  /\ ThreadsOfThisProcess /\ HistoryOfThisThread /\ TurnStateIsOwn
  /\ CancelStopsCodex /\ TurnsAreOfPastCalls
  /\ ProcessWhileInUse /\ OpenTurnIsCounted /\ BlockedWhileWaiting

-----------------------------------------------------------------------------
\* A cancel that comes before the turn is being read is never lost: the call
\* does not return a plan.
CancelDooms ==
  \A r \in Watched :
    [](/\ cancelEvent[r]
       /\ pc[r] \in {"queued", "init", "initWait", "thread", "threadWait",
                     "start", "turnWait"}
       => [](outcome[r] # "plan"))

\* Every plan() call returns and frees _lock, although Codex is silent, gone or
\* talks of other turns: the clock reaches the deadline.  It takes that no call
\* on the pipes blocks for ever, which the bridge cannot enforce: Codex reads
\* its stdin and ends the lines it begins, or its pipes are closed.
PlanReturns ==
  ClockFairness /\ WF_vars(Unblock) =>
    \A r \in Watched : pc[r] = "queued" ~> pc[r] = "done"

\* A cancelled call that waits for its turn, or reads it, returns without the
\* help of the clock and of Codex, which may be silent or gone, when the cancel
\* does not find it blocked in a write or a readline().
CancelReturns ==
  \A r \in Watched :
    cancelEvent[r] /\ pc[r] \in {"turnWait", "run"} /\ io = "free"
      ~> pc[r] = "done"

\* transport.py:176-182: when the child has exited, the call that reads it
\* raises codex_process_exited, without waiting for the deadline.
ExitIsNoticed ==
  \A r \in Watched : pc[r] = "run" /\ exit # "up" ~> pc[r] # "run"

\* turns.py:185: "Codex turn stalled without output."
StallMeansNoOutput ==
  [][\A r \in Requests : Stall(r) => \A i \in DOMAIN buf : buf[i].req # r]_vars

=============================================================================
