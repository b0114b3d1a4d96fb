------------------------------- MODULE LiveRun -------------------------------
(***************************************************************************)
(* One live run.  The model of the server calls apply_operations; the      *)
(* bridge appends each operation to applied_operations and waits for a     *)
(* render; chat_stream polls the list and streams it; darktable applies    *)
(* the part of the list it has not applied, arms a render, and posts the   *)
(* preview back when its pixel pipes have run.  The final response brings  *)
(* the list once more.                                                     *)
(*                                                                         *)
(* Three threads of the server share the TurnContext of the turn: the one  *)
(* that runs plan() and takes no lock while it applies a step, the one     *)
(* that answers a poll and holds _state_lock, and the one that handles     *)
(* POST /v1/chat/render.  darktable has the job thread that reads the      *)
(* stream, the main loop that runs the callbacks, the thread that posts a  *)
(* render, and the workers of the full and the preview pipe.               *)
(*                                                                         *)
(* The i-th operation of the run is the number i; a preview is named by    *)
(* the number of edits in the history that it shows.                       *)
(***************************************************************************)
EXTENDS Naturals, Sequences

CONSTANTS
  MaxOps,        \* bound: operations of one run
  ApplyCanFail,  \* whether darktable may fail to apply an operation
  None           \* the absent value

ASSUME LiveRunAssumption ==
  /\ MaxOps \in Nat
  /\ ApplyCanFail \in BOOLEAN
  /\ None \notin Nat

VARIABLES
  worker,     \* where the thread of plan() is
  batch,      \* operations of the tool call that are still to be applied
  applied,    \* Len(TurnContext.applied_operations)
  requires,   \* TurnContext.requires_render_callback
  event,      \* TurnContext.render_event
  bytes,      \* TurnContext.rendered_preview_bytes
  preview,    \* the preview the model sees: what it shows, and the number of
              \* edits it is labelled with (revision_token)
  missed,     \* some wait for a render ended without one
  plan,       \* operations of the final plan, or None
  cancelSeen, \* cancel_event of the request

  poll,       \* the list that the current poll has read, or None
  sent,       \* the last progress payload that was streamed, or None
  stream,     \* the events between chat_stream and the job thread
  queue,      \* the callbacks between the job thread and the main loop
  listening,  \* the job thread reads the stream

  image,      \* the edits in the history of the image
  count,      \* active_request_live_applied_count
  request,    \* "active", "canceling"; then "applied" or "ended"
  failed,     \* an operation could not be applied
  armed,      \* pending_mid_turn_render
  cancel,     \* POST /v1/chat/cancel: "no", "sent" or "done"
  posts,      \* the POST /v1/chat/render requests under way
  full,       \* the full pipe has to run
  status,     \* of the preview pipe: "dirty", "running" or "valid"
  rendering,  \* the edits in the run of the preview pipe, or None
  shown       \* the edits in the backbuf of the preview pipe

contextVars == <<applied, requires, event, bytes>>
serverVars == <<worker, batch, contextVars, preview, missed, plan, cancelSeen>>
streamVars == <<poll, sent, stream>>
panelVars == <<image, count, request, failed, cancel>>
pipeVars == <<full, status, rendering, shown>>
vars == <<serverVars, streamVars, queue, listening, panelVars, armed, posts,
          pipeVars>>

-----------------------------------------------------------------------------
Worker == {"model", "read", "apply", "require", "clear", "wipe", "wait", "arrived",
           "late", "done", "failed"}

Progress(n, r) == [kind |-> "progress", n |-> n, requires |-> r]
Result(k, n) == [kind |-> k, n |-> n, requires |-> FALSE]

Init ==
  /\ worker = "model" /\ batch = 0 /\ applied = 0
  /\ requires = FALSE /\ event = FALSE /\ bytes = None
  /\ preview = [shows |-> 0, label |-> 0] /\ missed = FALSE
  /\ plan = None /\ cancelSeen = FALSE
  /\ poll = None /\ sent = None /\ stream = <<>>
  /\ queue = <<>> /\ listening = TRUE
  /\ image = <<>> /\ count = 0 /\ request = "active" /\ failed = FALSE
  /\ armed = FALSE /\ cancel = "no" /\ posts = {}
  /\ full = FALSE /\ status = "valid" /\ rendering = None /\ shown = 0

-----------------------------------------------------------------------------
(* plan(): the turn loop and the apply_operations tool call.               *)

\* Mutant: a cancel is not looked at once the turn is being read.
IgnoreCancel ==
  /\ worker = "model"
  /\ worker' = "read"
  /\ UNCHANGED <<batch, contextVars, preview, missed, plan, cancelSeen,
                 streamVars, queue, listening, panelVars, armed, posts,
                 pipeVars>>

\* The head of the turn loop: _raise_if_cancelled_locked.
CheckCancel ==
  /\ worker = "model" /\ poll = None
  /\ worker' = IF cancelSeen THEN "failed" ELSE "read"
  /\ UNCHANGED <<batch, contextVars, preview, missed, plan, cancelSeen,
                 streamVars, queue, listening, panelVars, armed, posts,
                 pipeVars>>

\* No line within half a second, or one without an effect here.
ReadNothing ==
  /\ worker = "read"
  /\ worker' = "model"
  /\ UNCHANGED <<batch, contextVars, preview, missed, plan, cancelSeen,
                 streamVars, queue, listening, panelVars, armed, posts,
                 pipeVars>>

\* A call whose batch passed prepare_apply_batch and the simulation; any other
\* call changes nothing here.
StartBatch ==
  /\ worker = "read"
  /\ batch' \in 1 .. MaxOps - applied
  /\ worker' = "apply"
  /\ UNCHANGED <<contextVars, preview, missed, plan, cancelSeen, streamVars,
                 queue, listening, panelVars, armed, posts, pipeVars>>

AppendOperation ==
  /\ worker = "apply"
  /\ applied' = applied + 1 /\ batch' = batch - 1
  /\ worker' = "require"
  /\ UNCHANGED <<requires, event, bytes, preview, missed, plan, cancelSeen,
                 streamVars, queue, listening, panelVars, armed, posts,
                 pipeVars>>

RequireRender ==
  /\ worker = "require"
  /\ requires' = TRUE
  /\ worker' = "clear"
  /\ UNCHANGED <<batch, applied, event, bytes, preview, missed, plan,
                 cancelSeen, streamVars, queue, listening, panelVars, armed,
                 posts, pipeVars>>

ClearEvent ==
  /\ worker = "clear"
  /\ event' = FALSE
  /\ worker' = "wipe"
  /\ UNCHANGED <<batch, applied, requires, bytes, preview, missed, plan,
                 cancelSeen, streamVars, queue, listening, panelVars, armed,
                 posts, pipeVars>>

\* The old render is dropped; the status update then waits for _state_lock.
WipeRender ==
  /\ worker = "wipe" /\ poll = None
  /\ bytes' = None
  /\ worker' = "wait"
  /\ UNCHANGED <<batch, applied, requires, event, preview, missed, plan,
                 cancelSeen, streamVars, queue, listening, panelVars, armed,
                 posts, pipeVars>>

\* render_event.wait(timeout=15.0) returns, and requires_render_callback is
\* lowered.
EndWait ==
  /\ worker = "wait"
  /\ worker' = IF event THEN "arrived" ELSE "late"
  /\ requires' = FALSE
  /\ UNCHANGED <<batch, applied, event, bytes, preview, missed, plan,
                 cancelSeen, streamVars, queue, listening, panelVars, armed,
                 posts, pipeVars>>

\* The render that arrived in time becomes the preview of the step.
TakeRender ==
  /\ worker \in {"arrived", "late"}
  /\ bytes' = None
  /\ IF worker = "arrived" /\ bytes # None
     THEN /\ preview' = [shows |-> bytes, label |-> applied]
          /\ UNCHANGED missed
     ELSE missed' = TRUE /\ UNCHANGED preview
  /\ worker' = IF batch > 0 THEN "apply" ELSE "model"
  /\ UNCHANGED <<batch, applied, requires, event, plan, cancelSeen,
                 streamVars, queue, listening, panelVars, armed, posts,
                 pipeVars>>

\* Mutant: the plan of the model is taken as it is.
PlanOfModel == 0 .. MaxOps

\* _finalize_plan_with_live_context: the applied operations are the plan; only
\* a run without any takes the operations of the model's answer.
FinalPlan == IF applied > 0 THEN {applied} ELSE 0 .. MaxOps

FinishTurn ==
  /\ worker = "read" /\ poll = None
  /\ plan' \in FinalPlan
  /\ worker' = "done"
  /\ UNCHANGED <<batch, contextVars, preview, missed, cancelSeen, streamVars,
                 queue, listening, panelVars, armed, posts, pipeVars>>

\* Codex fails, stalls or times out.
FailTurn ==
  /\ worker = "read" /\ poll = None
  /\ worker' = "failed"
  /\ UNCHANGED <<batch, contextVars, preview, missed, plan, cancelSeen,
                 streamVars, queue, listening, panelVars, armed, posts,
                 pipeVars>>

-----------------------------------------------------------------------------
(* The endpoints: POST /v1/chat/cancel and /v1/chat/render, and the event  *)
(* generator of POST /v1/chat/stream.                                      *)

TurnRuns == worker \notin {"done", "failed"}

CancelArrives ==
  /\ cancel = "sent" /\ poll = None
  /\ cancel' = "done"
  /\ cancelSeen' = TurnRuns
  /\ UNCHANGED <<worker, batch, contextVars, preview, missed, plan, streamVars,
                 queue, listening, image, count, request, failed, armed, posts,
                 pipeVars>>

\* provide_render_callback stores the bytes under _state_lock ...
StoreRender(p) ==
  /\ p \in posts /\ ~p.stored /\ poll = None
  /\ IF TurnRuns
     THEN /\ bytes' = p.shows
          /\ posts' = (posts \ {p}) \cup {[p EXCEPT !.stored = TRUE]}
     ELSE posts' = posts \ {p} /\ UNCHANGED bytes
  /\ UNCHANGED <<worker, batch, applied, requires, event, preview, missed, plan,
                 cancelSeen, streamVars, queue, listening, panelVars, armed,
                 pipeVars>>

\* ... and sets the event after it has given the lock back.
SetEvent(p) ==
  /\ p \in posts /\ p.stored
  /\ event' = TRUE
  /\ posts' = posts \ {p}
  /\ UNCHANGED <<worker, batch, applied, requires, bytes, preview, missed, plan,
                 cancelSeen, streamVars, queue, listening, panelVars, armed,
                 pipeVars>>

\* get_request_progress copies the list and reads the flag afterwards; between
\* the end of the turn and that of plan() there is no context and no list.
PollOperations ==
  /\ poll = None /\ sent # Result("closed", 0)
  /\ poll' = IF TurnRuns THEN applied ELSE 0
  /\ UNCHANGED <<serverVars, sent, stream, queue, listening, panelVars, armed,
                 posts, pipeVars>>

\* A payload that differs from the last one is streamed.
PollFlag ==
  /\ poll # None
  /\ poll' = None
  /\ LET p == Progress(poll, requires) IN
       /\ sent' = p
       /\ stream' = IF p = sent THEN stream ELSE Append(stream, p)
  /\ UNCHANGED <<serverVars, queue, listening, panelVars, armed, posts,
                 pipeVars>>

\* The completion progress repeats the last payload; the result follows.
CloseStream ==
  /\ ~TurnRuns /\ poll = None /\ sent # Result("closed", 0)
  /\ stream' = stream \o
       IF worker = "failed" THEN <<Result("error", 0)>>
       ELSE <<Progress(IF sent = None THEN 0 ELSE sent.n, FALSE),
              Result("final", plan)>>
  /\ sent' = Result("closed", 0)
  /\ UNCHANGED <<serverVars, poll, queue, listening, panelVars, armed, posts,
                 pipeVars>>

-----------------------------------------------------------------------------
(* darktable: the job thread of the request.                               *)

\* Each event becomes a callback of the main loop, in order.
Receive ==
  /\ listening /\ stream # <<>> /\ request # "canceling"
  /\ queue' = Append(queue, Head(stream))
  /\ stream' = Tail(stream)
  /\ listening' = (Head(stream).kind = "progress")
  /\ UNCHANGED <<serverVars, poll, sent, panelVars, armed, posts, pipeVars>>

\* Mutant: an aborted transfer reports nothing.
StopSilently ==
  /\ listening
  /\ listening' = FALSE
  /\ UNCHANGED <<serverVars, streamVars, queue, panelVars, armed, posts,
                 pipeVars>>

\* curl is aborted after a cancel, or the connection is lost.
StopListening ==
  /\ listening
  /\ listening' = FALSE
  /\ queue' = Append(queue, Result(IF request = "canceling" THEN "cancelled"
                                                            ELSE "lost", 0))
  /\ UNCHANGED <<serverVars, streamVars, panelVars, armed, posts, pipeVars>>

-----------------------------------------------------------------------------
(* darktable: the main loop.                                               *)

\* Every edit of the history invalidates both pipes.
Edited(new) ==
  /\ image' = new
  /\ IF new = image THEN UNCHANGED <<full, status>>
                    ELSE full' = TRUE /\ status' = "dirty"
  /\ UNCHANGED <<rendering, shown>>

\* Mutant: the last applied operation is sent to the image again.
RangeFromLast(n) == [i \in 1 .. n - count + 1 |-> count + i - 1]

\* Mutant: the start index is not passed on.
WholeRange(n) == [i \in 1 .. n |-> i]

\* _agent_chat_apply_operation_range: the operations from the count on.
NewRange(n) == [i \in 1 .. n - count |-> count + i]

\* dt_agent_execute_response stops at the first operation that fails.
Executed(range) ==
  {[edits |-> range, ok |-> TRUE]} \cup
  IF ApplyCanFail
  THEN {[edits |-> SubSeq(range, 1, k), ok |-> FALSE] : k \in 0 .. Len(range) - 1}
  ELSE {}

RequestIsOver == request \in {"applied", "ended"}

HeadIs(k) == queue # <<>> /\ Head(queue).kind = k

\* _agent_chat_progress_finished with a list that is longer than the count.
ApplyProgress ==
  /\ HeadIs("progress") /\ request = "active" /\ Head(queue).n > count
  /\ queue' = Tail(queue)
  /\ \E x \in Executed(NewRange(Head(queue).n)) :
       /\ Edited(image \o x.edits)
       /\ IF x.ok
          THEN /\ count' = Head(queue).n
               /\ armed' = (armed \/ Head(queue).requires)
               /\ UNCHANGED <<request, failed, cancel>>
          ELSE /\ failed' = TRUE
               /\ request' = "canceling" /\ cancel' = "sent"
               /\ UNCHANGED <<count, armed>>
  /\ UNCHANGED <<serverVars, streamVars, listening, posts>>

\* Any other progress changes neither the image nor the render flag.
SkipProgress ==
  /\ HeadIs("progress") /\ ~(request = "active" /\ Head(queue).n > count)
  /\ queue' = Tail(queue)
  /\ UNCHANGED <<serverVars, streamVars, listening, panelVars, armed, posts,
                 pipeVars>>

\* The image is at the revision the request was made for, or the run itself
\* has changed it (allow_live_revision_mismatch).  An edit of the module on
\* top of the history leaves the revision as it is: of the edits of a step that
\* failed, before the count was advanced, the revision may show nothing.
RevisionVerdicts ==
  IF image = <<>> \/ count > 0 THEN {TRUE} ELSE BOOLEAN

\* Mutant: the final response is taken for what the progress already brought.
NoFinalRange(n) == IF count > 0 THEN <<>> ELSE NewRange(n)

FinalRange(n) == NewRange(n)

\* _agent_chat_request_finished with the final plan: its tail is applied.  The
\* canceling flag is not looked at.
ApplyFinal ==
  /\ HeadIs("final")
  /\ queue' = Tail(queue)
  /\ count' = 0
  /\ \E accepted \in RevisionVerdicts :
       \/ /\ accepted /\ request' = "applied"
          /\ \E x \in Executed(FinalRange(Head(queue).n)) :
               /\ Edited(image \o x.edits)
               /\ failed' = (failed \/ ~x.ok)
       \/ /\ ~accepted /\ request' = "ended"
          /\ UNCHANGED <<image, failed, pipeVars>>
  /\ UNCHANGED <<serverVars, streamVars, listening, cancel, armed, posts>>

\* The run ends without a plan.
EndWithoutPlan ==
  /\ \E k \in {"error", "lost", "cancelled"} : HeadIs(k)
  /\ queue' = Tail(queue)
  /\ request' = "ended" /\ count' = 0
  /\ UNCHANGED <<serverVars, streamVars, listening, image, failed, cancel,
                 armed, posts, pipeVars>>

\* The cancel button.
CancelRun ==
  /\ request = "active"
  /\ request' = "canceling" /\ cancel' = "sent"
  /\ UNCHANGED <<serverVars, streamVars, queue, listening, image, count, failed,
                 armed, posts, pipeVars>>

-----------------------------------------------------------------------------
(* darktable: the pixel pipes.                                             *)

\* The preview pipe runs on the history it finds; an edit during the run makes
\* it dirty and may abort it, and its end makes it valid again, whatever it
\* shows then (PixelPipes).
PreviewStart ==
  /\ rendering = None
  /\ status = "dirty" \/ (~full /\ shown # Len(image))
  /\ rendering' = Len(image) /\ status' = "running"
  /\ UNCHANGED <<serverVars, streamVars, queue, listening, panelVars, armed,
                 posts, full, shown>>

PreviewFinish ==
  /\ rendering # None
  /\ shown' \in IF rendering = Len(image) THEN {rendering} ELSE {rendering, shown}
  /\ rendering' = None /\ status' = "valid"
  /\ UNCHANGED <<serverVars, streamVars, queue, listening, panelVars, armed,
                 posts, full>>

\* Mutant: the render is posted whatever the preview pipe shows.
AnyPreview == TRUE

PreviewIsValid == status = "valid"

\* _darkroom_ui_pipe_finish_signal_callback: the full pipe has run, after an
\* edit or because the user pans or zooms.
FullFinish ==
  /\ full' = FALSE
  /\ IF armed /\ PreviewIsValid
     THEN /\ armed' = FALSE
          /\ posts' = IF RequestIsOver THEN posts
                      ELSE posts \cup {[for |-> count, shows |-> shown,
                                        stored |-> FALSE]}
     ELSE UNCHANGED <<armed, posts>>
  /\ UNCHANGED <<serverVars, streamVars, queue, listening, panelVars, status,
                 rendering, shown>>

\* A POST of a render fails.
LoseRender(p) ==
  /\ p \in posts /\ ~p.stored
  /\ posts' = posts \ {p}
  /\ UNCHANGED <<serverVars, streamVars, queue, listening, panelVars, armed,
                 pipeVars>>

-----------------------------------------------------------------------------
Plan ==
  \/ CheckCancel \/ ReadNothing
  \/ AppendOperation \/ RequireRender \/ ClearEvent \/ WipeRender
  \/ EndWait \/ TakeRender
Codex == StartBatch \/ FinishTurn \/ FailTurn
Poll == PollOperations \/ PollFlag
Job == Receive \/ StopListening
MainLoop == ApplyProgress \/ SkipProgress \/ ApplyFinal \/ EndWithoutPlan
Render(p) == StoreRender(p) \/ SetEvent(p)

\* Nothing is left to do.
RunOver == /\ RequestIsOver /\ ~TurnRuns /\ posts = {}
           /\ UNCHANGED vars

Next ==
  \/ Codex \/ Plan \/ Poll \/ CloseStream \/ CancelArrives
  \/ \E p \in posts : Render(p) \/ LoseRender(p)
  \/ Job \/ MainLoop \/ CancelRun
  \/ PreviewStart \/ PreviewFinish \/ FullFinish
  \/ RunOver

Spec == Init /\ [][Next]_vars

\* The threads run.  The one of plan() gets _state_lock between two polls,
\* which are a quarter of a second apart, and a poll finds it finished.  Nothing
\* depends on the pixel pipes: they may never finish.
Fairness ==
  /\ SF_vars(Plan) /\ WF_vars(PollFlag) /\ SF_vars(CloseStream)
  /\ WF_vars(Job) /\ WF_vars(MainLoop)

FairSpec == Spec /\ Fairness

-----------------------------------------------------------------------------
Payload == [kind : {"progress", "final", "error", "cancelled", "lost", "closed"},
            n : 0 .. MaxOps, requires : BOOLEAN]
Length == 0 .. 2 * MaxOps

TurnTypeOK ==
  /\ worker \in Worker /\ batch \in 0 .. MaxOps /\ applied \in 0 .. MaxOps
  /\ requires \in BOOLEAN /\ event \in BOOLEAN
  /\ bytes \in Length \cup {None}
  /\ preview \in [shows : Length, label : 0 .. MaxOps]
  /\ missed \in BOOLEAN /\ plan \in 0 .. MaxOps \cup {None}
  /\ cancelSeen \in BOOLEAN

StreamTypeOK ==
  /\ poll \in 0 .. MaxOps \cup {None} /\ sent \in Payload \cup {None}
  /\ stream \in Seq(Payload) /\ queue \in Seq(Payload)
  /\ listening \in BOOLEAN

PanelTypeOK ==
  /\ image \in Seq(1 .. MaxOps) /\ count \in 0 .. MaxOps
  /\ request \in {"active", "canceling", "applied", "ended"}
  /\ failed \in BOOLEAN /\ armed \in BOOLEAN
  /\ cancel \in {"no", "sent", "done"}

PipeTypeOK ==
  /\ posts \subseteq [for : 0 .. MaxOps, shows : Length, stored : BOOLEAN]
  /\ full \in BOOLEAN /\ status \in {"dirty", "running", "valid"}
  /\ rendering \in Length \cup {None} /\ shown \in Length

TypeOK == TurnTypeOK /\ StreamTypeOK /\ PanelTypeOK /\ PipeTypeOK

\* Unless darktable failed to apply one, the edits of the server reach the
\* image once each and in the server's order, whether a progress event or the
\* final response brings them; the count is what the image has while the
\* request lasts (_agent_chat_progress_finished, _agent_chat_handle_response).
EditsOnceInOrder ==
  ~failed => /\ image = [i \in 1 .. Len(image) |-> i]
             /\ Len(image) <= IF plan = None THEN applied ELSE plan
             /\ ~RequestIsOver => count = Len(image)

\* A run that ends with its plan leaves out no edit, although polls are
\* skipped and several edits may come in one progress event.
NothingLeftOut == request = "applied" /\ ~failed => Len(image) = plan

\* As long as every step got a render in time, the preview that the model sees
\* is the one of the step it is labelled with (_wait_for_live_render,
\* _darkroom_ui_pipe_finish_signal_callback).
FreshIfNoneMissed == ~missed => preview.shows = preview.label

-----------------------------------------------------------------------------
(* The inductive invariant of the proofs.                                  *)

InStep == worker \in {"require", "clear", "wipe", "wait", "arrived", "late"}

\* A tool call leaves room for its operations, only a turn that is done has a
\* plan, and what is no longer waited for has arrived.
TurnOrder ==
  /\ applied + batch <= MaxOps
  /\ worker = "apply" => batch > 0
  /\ worker = "done" <=> plan # None
  /\ plan # None => applied <= plan /\ (applied > 0 => plan = applied)
  /\ worker = "arrived" => event

Carries(p, ops, final) ==
  /\ p.kind = "progress" => p.n <= ops
  /\ p.kind = "final" => p.n = final

\* What is on its way to darktable was issued by the server.
PollIsIssued ==
  /\ poll # None => poll <= applied
  /\ sent # None => \/ sent = Result("closed", 0)
                    \/ sent.kind = "progress" /\ sent.n <= applied

StreamIsIssued ==
  \A i \in 1 .. Len(stream) :
    /\ stream[i].kind \in {"progress", "final", "error"}
    /\ Carries(stream[i], applied, plan)

\* The event that ends the run is the last one, and nothing is left once it is
\* handled.
QueueIsIssued ==
  /\ \A i \in 1 .. Len(queue) :
       /\ Carries(queue[i], applied, plan)
       /\ queue[i].kind # "closed"
       /\ queue[i].kind # "progress" => i = Len(queue) /\ ~listening
  /\ RequestIsOver => queue = <<>> /\ ~listening

EventsAreIssued == PollIsIssued /\ StreamIsIssued /\ QueueIsIssued

\* The image after a failed operation holds at most what one event brought, and
\* what the final response brings once more.
ImageIsBounded ==
  /\ Len(image) <= 2 * MaxOps
  /\ ~RequestIsOver => Len(image) <= MaxOps
  /\ failed => request # "active"

\* The edits of EditsOnceInOrder and NothingLeftOut, on the way there.
EditsAreIssued ==
  ~failed => /\ image = [i \in 1 .. Len(image) |-> i]
             /\ ~RequestIsOver => count = Len(image) /\ count <= applied
             /\ request = "ended" => Len(image) <= applied
             /\ request = "applied" => Len(image) = plan

\* The wait of the current step has been answered.
Answered == event /\ worker \in {"wipe", "wait", "arrived", "late"}

\* darktable has what the server has applied.
CaughtUp == RequestIsOver \/ (count = applied /\ Len(image) = applied)

\* While no wait missed its render, the one render of a step is in one place:
\* due in a pipe, armed, in a post, stored, or answered.
OneRenderPerStep ==
  ~missed =>
    /\ preview.shows = preview.label
    /\ armed => /\ InStep /\ CaughtUp /\ ~Answered
                /\ posts = {} /\ bytes = None
    /\ \A p, q \in posts : p = q
    /\ \A p \in posts : /\ InStep /\ CaughtUp /\ ~Answered
                        /\ p.shows = applied
                        /\ p.stored \/ bytes = None
    /\ bytes # None => InStep /\ CaughtUp /\ bytes = applied
    /\ Answered => CaughtUp

\* Meanwhile the preview pipe is busy only with the edit of the current step.
PipeIsOfStep ==
  ~missed /\ ~RequestIsOver =>
    /\ CaughtUp \/ (InStep /\ count + 1 = applied)
    /\ rendering # None => rendering = Len(image)
    /\ status = "valid" => rendering = None /\ shown = Len(image)
    /\ status # "valid" => /\ InStep /\ CaughtUp /\ ~Answered
                           /\ posts = {} /\ bytes = None

IInv ==
  /\ TypeOK /\ TurnOrder /\ EventsAreIssued
  /\ ImageIsBounded /\ EditsAreIssued
  /\ OneRenderPerStep /\ PipeIsOfStep

-----------------------------------------------------------------------------
\* The live run implements the promise of LiveEdits.
Edits == INSTANCE LiveEdits WITH
  issued <- IF plan = None THEN applied ELSE plan,
  phase <- IF failed THEN "broken"
           ELSE IF RequestIsOver THEN request ELSE "running"

ImplementsLiveEdits == Edits!Spec

\* Bound: liveness is checked for runs of at most one live edit.
ShortRun == applied <= 1

\* A cancel that has reached the server ends the turn (the tool call under way
\* is finished, then the turn loop sees it), and a run whose turn is over ends in
\* darktable too, also when it was cancelled or the connection was lost.
RunEnds ==
  []ShortRun =>
    (cancelSeen \/ ~TurnRuns ~> RequestIsOver /\ ~TurnRuns)

\* prompting.py:356: "operations are auto-applied one at a time with a fresh
\* render after each step".
FreshRender ==
  [][preview' # preview => preview'.shows = preview'.label]_vars

\* darkroom.c:1549: "Handle mid-turn renders for the agent".
ArmedIsPosted == armed ~> ~armed
=============================================================================
