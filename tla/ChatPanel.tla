------------------------------ MODULE ChatPanel ------------------------------
(***************************************************************************)
(* The chat panel of the darkroom: one session per image, one panel that   *)
(* shows the session of an image, and one slot for the active request.     *)
(* Requests outlive the slot: leaving the darkroom, changing the image and *)
(* cancelling leave the job thread of a request running until its stream   *)
(* ends, and its callbacks reach the main loop later, one after the other. *)
(*                                                                         *)
(* Multi-turn (live) mode is on.  An edit is named by its request and its  *)
(* place in the list of that request, an edit of the user by None.         *)
(***************************************************************************)
EXTENDS Naturals, Sequences, FiniteSets, Functions

CONSTANTS
  Images,     \* image ids
  Requests,   \* request ids; the client draws each of them once
  MaxOps,     \* bound: operations of one request
  First,      \* the image that is open first
  MaxUser,    \* bound: edits of the user and presses of "new chat"
  None        \* the absent value

Edit == [req : Requests \cup {None}, n : 0 .. MaxOps]
Submission == [image : Images, conversation : Nat, base : Nat, seen : Nat]
Callback == [kind : {"progress", "final", "error", "cancelled"},
             req : Requests, n : 0 .. MaxOps]

ASSUME ChatPanelAssumption ==
  /\ None \notin Requests /\ None \notin Submission
  /\ First \in Images
  /\ {MaxOps, MaxUser} \subseteq Nat

VARIABLES
  visible,      \* the darkroom is the current view
  current,      \* darktable.develop->image_storage.id
  edits,        \* the edits of each image, in order
  revision,     \* the length of each image's history: the revision id
  panel,        \* current_image_id: the image whose session is shown
  loading,      \* is_loading of the panel
  sessionLoading, \* is_loading of each session
  conversation, \* conversation_id of each session: the n-th of its image
  active,       \* the request whose handle is active_request, or None
  activeId,     \* active_request_id, or None
  canceling,    \* active_request_canceling
  count,        \* active_request_live_applied_count
  submission,   \* what each request was submitted with, or None
  abandoned,    \* requests whose handle was cancelled
  job,          \* the job thread of each request: "none", "open", "closed"
  streamed,     \* length of the last list of each request
  queue,        \* callbacks that wait for the main loop
  leftBusy      \* history: the user left the darkroom while the panel loaded

imageVars == <<edits, revision>>
slotVars == <<active, activeId, canceling, count>>
requestVars == <<submission, abandoned, job, streamed>>
vars == <<visible, current, imageVars, panel, loading, sessionLoading,
          conversation, slotVars, requestVars, queue, leftBusy>>

-----------------------------------------------------------------------------
UserEdit == [req |-> None, n |-> 0]
UserEdits(i) == Cardinality({k \in DOMAIN edits[i] : edits[i][k] = UserEdit})
UserActs == SumFunction([i \in Images |-> UserEdits(i) + conversation[i]])

\* Ids are drawn at random, and only compared: any one of those that are left.
NewId(r) == r = CHOOSE q \in Requests : submission[q] = None

Init ==
  /\ visible = TRUE
  /\ current = First /\ panel = First
  /\ edits = [i \in Images |-> <<>>] /\ revision = [i \in Images |-> 0]
  /\ loading = FALSE /\ sessionLoading = [i \in Images |-> FALSE]
  /\ conversation = [i \in Images |-> 0]
  /\ active = None /\ activeId = None /\ canceling = FALSE /\ count = 0
  /\ submission = [r \in Requests |-> None] /\ abandoned = {}
  /\ job = [r \in Requests |-> "none"]
  /\ streamed = [r \in Requests |-> 0]
  /\ queue = <<>>
  /\ leftBusy = FALSE

-----------------------------------------------------------------------------
(* The sessions.                                                           *)

\* _agent_chat_switch_to_image_session: the panel's state is written back to
\* its session, then the session of the image is shown.
SwitchSession(i, isLoading) ==
  LET synced == [sessionLoading EXCEPT ![panel] = isLoading] IN
  /\ sessionLoading' = synced
  /\ panel' = i
  /\ loading' = synced[i]

\* Mutant: a request is cancelled whether there is a handle or not.
CancelAnyHandle ==
  /\ abandoned' = abandoned \cup {active}
  /\ active' = None /\ canceling' = TRUE
  /\ UNCHANGED <<activeId, count>>

\* _agent_chat_cancel_active_request, without its writes to is_loading: both
\* the panel's and the session's become FALSE.
CancelSlot ==
  /\ abandoned' = abandoned \cup ({active} \ {None})
  /\ active' = None
  /\ canceling' = (canceling \/ active # None)
  /\ UNCHANGED <<activeId, count>>

\* The cancel button, sensitive while there is a handle.
CancelClicked ==
  /\ visible /\ active # None
  /\ CancelSlot
  /\ loading' = FALSE
  /\ sessionLoading' = [sessionLoading EXCEPT ![panel] = FALSE]
  /\ UNCHANGED <<visible, current, imageVars, panel, conversation, submission,
                 job, streamed, queue, leftBusy>>

\* The "new chat" button, sensitive while the panel does not load.
NewChat ==
  /\ visible /\ ~loading
  /\ UserActs < MaxUser
  /\ CancelSlot
  /\ SwitchSession(current, FALSE)
  /\ conversation' = [conversation EXCEPT ![current] = @ + 1]
  /\ UNCHANGED <<visible, current, imageVars, submission, job, streamed, queue,
                 leftBusy>>

\* Another image is opened within the darkroom.
ChangeImage(i) ==
  /\ visible /\ i # current
  /\ current' = i
  /\ IF i = panel THEN UNCHANGED <<slotVars, abandoned, panel, loading,
                                   sessionLoading>>
                  ELSE CancelSlot /\ SwitchSession(i, FALSE)
  /\ UNCHANGED <<visible, imageVars, conversation, submission, job, streamed,
                 queue, leftBusy>>

\* Leaving the darkroom writes the panel's state back to its session.  It
\* cancels nothing, nor does entering it.
LeaveDarkroom ==
  /\ visible
  /\ visible' = FALSE
  /\ sessionLoading' = [sessionLoading EXCEPT ![panel] = loading]
  /\ leftBusy' = (leftBusy \/ loading)
  /\ UNCHANGED <<current, imageVars, panel, loading, conversation, slotVars,
                 requestVars, queue>>

EnterDarkroom(i) ==
  /\ ~visible /\ visible' = TRUE
  /\ current' = i
  /\ SwitchSession(i, loading)
  /\ UNCHANGED <<imageVars, conversation, slotVars, requestVars, queue, leftBusy>>

-----------------------------------------------------------------------------
(* The requests.                                                           *)

\* _agent_chat_submit_internal from the moment the panel is not loading: the
\* new request takes the slot, whoever holds it.  Setting the status writes
\* the loading back to the session.
Submit(r, rev, history) ==
  /\ submission' = [submission EXCEPT ![r] =
       [image |-> current, conversation |-> conversation[current],
        base |-> rev, seen |-> Len(history)]]
  /\ job' = [job EXCEPT ![r] = "open"]
  /\ active' = r /\ activeId' = r /\ canceling' = FALSE /\ count' = 0
  /\ loading' = TRUE

Send(r) ==
  /\ visible /\ ~loading /\ submission[r] = None /\ NewId(r)
  /\ Submit(r, revision[current], edits[current])
  /\ sessionLoading' = [sessionLoading EXCEPT ![panel] = TRUE]
  /\ UNCHANGED <<visible, current, imageVars, panel, conversation, abandoned,
                 streamed, queue, leftBusy>>

\* The job thread passes on a progress event: the list of the request.
StreamProgress(r, n) ==
  /\ job[r] = "open" /\ n > streamed[r]
  /\ streamed' = [streamed EXCEPT ![r] = n]
  /\ queue' = Append(queue, [kind |-> "progress", req |-> r, n |-> n])
  /\ UNCHANGED <<visible, current, imageVars, panel, loading, sessionLoading,
                 conversation, slotVars, submission, abandoned, job, leftBusy>>

\* The stream ends, with the plan or without.  curl notices a cancel only if
\* the stream has not ended before.
StreamResult(r, k, n) ==
  /\ job[r] = "open"
  /\ k = "final" => n >= streamed[r]
  /\ k = "cancelled" => r \in abandoned
  /\ k # "final" => n = 0
  /\ job' = [job EXCEPT ![r] = "closed"]
  /\ queue' = Append(queue, [kind |-> k, req |-> r, n |-> n])
  /\ UNCHANGED <<visible, current, imageVars, panel, loading, sessionLoading,
                 conversation, slotVars, submission, abandoned, streamed, leftBusy>>

-----------------------------------------------------------------------------
(* The main loop.                                                          *)

\* The operations from the count on go to the image that is open, whichever it
\* is.  An edit of the module on top of the history makes no new entry.
ApplyRange(r, from, n) ==
  LET range == [k \in 1 .. n - from |-> [req |-> r, n |-> from + k]] IN
  /\ edits' = [edits EXCEPT ![current] = @ \o range]
  /\ \E more \in (IF range = <<>> THEN {0} ELSE {0, Len(range)}) :
       revision' = [revision EXCEPT ![current] = @ + more]

\* The guards of _agent_chat_progress_finished.
ProgressCounts == loading /\ active # None /\ ~canceling

\* _agent_chat_progress_finished.  It knows the list but not its request.  The
\* status that it sets at the end writes the loading back to the session.
HandleProgress ==
  /\ queue # <<>> /\ Head(queue).kind = "progress"
  /\ queue' = Tail(queue)
  /\ IF ProgressCounts /\ visible /\ Head(queue).n > count
     THEN /\ ApplyRange(Head(queue).req, count, Head(queue).n)
          /\ count' = Head(queue).n
     ELSE UNCHANGED <<imageVars, count>>
  /\ sessionLoading' = [sessionLoading EXCEPT ![panel] = ProgressCounts \/ @]
  /\ UNCHANGED <<visible, current, panel, loading, conversation, active,
                 activeId, canceling, requestVars, leftBusy>>

\* Mutant: a response for the image is taken, whichever chat it belongs to.
MatchesImage(r) == submission[r].image = panel

\* _agent_chat_submission_matches_current_session
MatchesPanel(r) ==
  /\ submission[r].image = panel
  /\ submission[r].conversation = conversation[panel]

\* _agent_chat_is_stale_response, once the request has left the slot.
IsStale(r) ==
  \/ activeId \notin {None, r}
  \/ ~MatchesPanel(r)
  \/ submission[r].image # current

\* The revision of the open image is the one the plan was made for, or the run
\* has edited the image itself (allow_live_revision_mismatch).
RevisionAccepted(r, live) ==
  \/ live > 0
  \/ submission[r].image = current /\ submission[r].base = revision[current]

\* Mutant: the slot stays taken when the result has come.
KeepSlot(r) == UNCHANGED slotVars

\* _agent_chat_clear_active_request, if the result is the active request's.
FreeSlot(r) ==
  IF activeId = r
  THEN active' = None /\ activeId' = None /\ canceling' = FALSE /\ count' = 0
  ELSE UNCHANGED slotVars

\* Mutant: only a plan ends the loading.
LoadingUntilPlan(r) ==
  loading' = IF MatchesPanel(r) /\ Head(queue).kind = "final" THEN FALSE
                                                               ELSE loading

\* The panel stops loading when it shows the session of the result.  The
\* result of a cancelled request needs the slot as well.
StopLoading(r) ==
  loading' = IF /\ MatchesPanel(r)
                /\ Head(queue).kind = "cancelled" => activeId = r
             THEN FALSE ELSE loading

\* _agent_chat_request_finished, except for a plan that is applied.
DropResult ==
  LET m == Head(queue) IN
  /\ queue # <<>> /\ m.kind # "progress"
  /\ m.kind = "final" => \/ ~visible \/ IsStale(m.req)
                         \/ ~RevisionAccepted(m.req,
                               IF activeId = m.req THEN count ELSE 0)
  /\ queue' = Tail(queue)
  /\ FreeSlot(m.req) /\ StopLoading(m.req)
  /\ sessionLoading' = [sessionLoading EXCEPT ![submission[m.req].image] = FALSE]
  /\ UNCHANGED <<visible, current, imageVars, panel, conversation, requestVars,
                 leftBusy>>

\* The tail of the plan is applied, whether the request was cancelled or not;
\* then the run may ask for the next refinement pass.
ApplyFinal(next) ==
  LET m == Head(queue)
      live == IF activeId = m.req THEN count ELSE 0 IN
  /\ queue # <<>> /\ m.kind = "final"
  /\ visible /\ ~IsStale(m.req) /\ RevisionAccepted(m.req, live)
  /\ queue' = Tail(queue)
  /\ ApplyRange(m.req, live, m.n)
  /\ sessionLoading' =
       [sessionLoading EXCEPT ![submission[m.req].image] = next # None]
  /\ IF next = None
     THEN FreeSlot(m.req) /\ StopLoading(m.req) /\ UNCHANGED <<submission, job>>
     ELSE /\ submission[next] = None /\ NewId(next)
          /\ Submit(next, revision'[current], edits'[current])
  /\ UNCHANGED <<visible, current, panel, conversation, abandoned, streamed,
                 leftBusy>>

\* The user edits the open image.
EditImage ==
  /\ visible /\ UserActs < MaxUser
  /\ edits' = [edits EXCEPT ![current] = Append(@, UserEdit)]
  /\ \E more \in {0, 1} : revision' = [revision EXCEPT ![current] = @ + more]
  /\ UNCHANGED <<visible, current, panel, loading, sessionLoading,
                 conversation, slotVars, requestVars, queue, leftBusy>>

-----------------------------------------------------------------------------
User ==
  \/ CancelClicked \/ NewChat \/ LeaveDarkroom \/ EditImage
  \/ \E i \in Images : ChangeImage(i) \/ EnterDarkroom(i)
  \/ \E r \in Requests : Send(r)
Stream(r) ==
  \/ \E n \in 1 .. MaxOps : StreamProgress(r, n)
  \/ \E k \in {"final", "error", "cancelled"}, n \in 0 .. MaxOps :
       StreamResult(r, k, n)
MainLoop ==
  \/ HandleProgress \/ DropResult
  \/ \E next \in Requests \cup {None} : ApplyFinal(next)

Next == User \/ MainLoop \/ \E r \in Requests : Stream(r)

Spec == Init /\ [][Next]_vars

\* The main loop runs, and every stream ends: the server closes it, or the
\* timeout of the client does.
FairSpec ==
  /\ Spec /\ WF_vars(MainLoop)
  /\ \A r \in Requests : WF_vars(\E k \in {"final", "error", "cancelled"},
                                    n \in 0 .. MaxOps : StreamResult(r, k, n))

-----------------------------------------------------------------------------
TypeOK ==
  /\ visible \in BOOLEAN /\ current \in Images /\ panel \in Images
  /\ edits \in [Images -> Seq(Edit)] /\ revision \in [Images -> Nat]
  /\ loading \in BOOLEAN /\ sessionLoading \in [Images -> BOOLEAN]
  /\ conversation \in [Images -> Nat]
  /\ active \in Requests \cup {None} /\ activeId \in Requests \cup {None}
  /\ canceling \in BOOLEAN /\ count \in 0 .. MaxOps
  /\ submission \in [Requests -> Submission \cup {None}]
  /\ abandoned \subseteq Requests
  /\ job \in [Requests -> {"none", "open", "closed"}]
  /\ streamed \in [Requests -> 0 .. MaxOps]
  /\ queue \in Seq(Callback)
  /\ leftBusy \in BOOLEAN

\* The result of a request is still to come.
Pending(r) ==
  \/ job[r] = "open"
  \/ \E k \in DOMAIN queue : queue[k].req = r /\ queue[k].kind # "progress"

\* The slot holds a request whose result is still to come, so that it will be
\* freed; a handle can be cancelled exactly while it is not cancelled already
\* (_agent_chat_set_active_request, _agent_chat_clear_active_request).
SlotIsPending ==
  /\ activeId # None => Pending(activeId)
  /\ active # None => active = activeId /\ ~canceling /\ active \notin abandoned
  /\ canceling => activeId # None

\* As long as the user has not left the darkroom while the panel was loading, a
\* panel that loads waits for the result of a request of the chat that it
\* shows, whatever the order of image changes, new chats, cancels and late
\* results.  (Afterwards it fails: see the README.)
LoadingIsBacked ==
  loading /\ ~leftBusy =>
    \E r \in Requests : submission[r] # None /\ Pending(r) /\ MatchesPanel(r)

\* A request has a job thread, a handle that may be cancelled, and callbacks
\* only after it was submitted.
OnlySubmitted ==
  /\ \A r \in Requests : submission[r] = None <=> job[r] = "none"
  /\ \A r \in abandoned : submission[r] # None
  /\ \A k \in 1 .. Len(queue) : submission[queue[k].req] # None

\* The panel shows the session of the open image.
ShowsOpenImage == visible => panel = current

\* The slot names the request that a loading panel waits for; only the session
\* that is shown may be marked as loading, and only while the panel loads; the
\* panel does not load in another view.
LoadingIsOfSlot ==
  ~leftBusy => /\ \A i \in Images : sessionLoading[i] => i = panel /\ loading
               /\ loading => visible /\ activeId # None /\ MatchesPanel(activeId)

\* The inductive invariant of the proofs.
IInv == TypeOK /\ OnlySubmitted /\ SlotIsPending /\ ShowsOpenImage /\ LoadingIsOfSlot

\* A request of the chat that is open for an image is still to end.
Wanted(i) ==
  \E r \in Requests : /\ submission[r] # None /\ Pending(r)
                      /\ submission[r].image = i
                      /\ submission[r].conversation = conversation[i]

\* Nothing of an agent reaches an image for which nobody waits: as long as the
\* user has not left the darkroom while the panel was loading, an image gets an
\* edit of an agent only while a request of the chat that is open for it is
\* still to end, whatever was cancelled, replaced or left before
\* (_agent_chat_progress_finished, _agent_chat_request_finished).  Whose edit
\* it is, the progress handler does not know: see EditsOfThisImage.
EditsAreWanted ==
  [][\A i \in Images :
       /\ ~leftBusy /\ Len(edits'[i]) > Len(edits[i])
       /\ edits'[i][Len(edits'[i])].req # None
       => Wanted(i)]_vars

\* Loading ends: unless the user leaves while the panel loads, every result that
\* the panel may wait for takes the spinner away, however the request ended
\* (_agent_chat_request_finished).
PanelGetsReady == []~leftBusy => (loading ~> ~loading)

\* docs/protocol-v1.md:11: "every request is tied to an app session, image
\* session, conversation, and turn".
EditsOfThisImage ==
  \A i \in Images : \A k \in DOMAIN edits[i] :
    edits[i][k].req # None => submission[edits[i][k].req].image = i

\* darkroom.c:4577: "cancel the active chat request and stop further live tool
\* calls".
CancelledIsNotApplied ==
  [][\A r \in abandoned : \A i \in Images :
       Len(edits'[i]) > Len(edits[i]) => edits'[i][Len(edits'[i])].req # r]_vars

\* docs/protocol-v1.md:273: "`constraints.onRevisionMismatch: "fail"` means
\* darktable should reject stale plans".
StalePlanIsRejected ==
  [][\A next \in Requests \cup {None} :
       ApplyFinal(next) /\ edits' # edits =>
         \A k \in DOMAIN edits[current] :
           edits[current][k].req = Head(queue).req
           \/ k <= submission[Head(queue).req].seen]_vars
=============================================================================
