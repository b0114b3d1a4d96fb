-------------------------- MODULE ChatPanel_proofs --------------------------
(***************************************************************************)
(* The slot and the loading flag of the chat panel for all sets of images  *)
(* and requests and all lengths of their lists: IInv of ChatPanel is       *)
(* inductive, the slot is held by a request whose result is still to come, *)
(* and a panel that loads waits for a result of the chat that it shows.    *)
(***************************************************************************)
EXTENDS ChatPanel, SequenceTheorems, TLAPS

-----------------------------------------------------------------------------
(* Callbacks.                                                              *)

\* The result of r is among the callbacks q.
Result(q, r) == \E k \in 1 .. Len(q) : q[k].req = r /\ q[k].kind # "progress"

\* A request whose result is still to come (Pending), for a list of callbacks.
LEMMA PendingIs ==
  ASSUME TypeOK, NEW r
  PROVE  Pending(r) <=> job[r] = "open" \/ Result(queue, r)
  <1>1. DOMAIN queue = 1 .. Len(queue)
    BY DEF TypeOK
  <1> QED
    BY <1>1 DEF Pending, Result

LEMMA PendingIsNext ==
  ASSUME TypeOK', NEW r
  PROVE  Pending(r)' <=> job'[r] = "open" \/ Result(queue', r)
  <1>1. DOMAIN queue' = 1 .. Len(queue')
    BY DEF TypeOK
  <1> QED
    BY <1>1 DEF Pending, Result

\* The first callback is taken from the queue of the main loop.
LEMMA HeadType ==
  ASSUME NEW q \in Seq(Callback), q # <<>>
  PROVE  /\ Head(q) \in Callback /\ Tail(q) \in Seq(Callback)
         /\ Len(Tail(q)) = Len(q) - 1
         /\ 1 \in 1 .. Len(q) /\ Head(q) = q[1]
         /\ \A k \in 1 .. Len(q) - 1 : k + 1 \in 1 .. Len(q) /\ Tail(q)[k] = q[k + 1]
  <1>1. Len(q) \in Nat /\ Len(q) > 0
    BY EmptySeq
  <1> QED
    BY <1>1

\* A callback that is taken from the queue leaves the results of the others.
LEMMA ResultStays ==
  ASSUME NEW q \in Seq(Callback), q # <<>>, NEW r, Result(q, r),
         Head(q).req # r \/ Head(q).kind = "progress"
  PROVE  Result(Tail(q), r)
  <1>1. PICK k \in 1 .. Len(q) : q[k].req = r /\ q[k].kind # "progress"
    BY DEF Result
  <1>2. k # 1 /\ Len(q) \in Nat
    BY <1>1, HeadType
  <1>3. k - 1 \in 1 .. Len(Tail(q)) /\ Tail(q)[k - 1] = q[k]
    BY <1>2, HeadType
  <1> QED
    BY <1>1, <1>3 DEF Result

\* A callback that is added to the queue leaves those that are there.
LEMMA ResultAdded ==
  ASSUME NEW q \in Seq(Callback), NEW m \in Callback, NEW r,
         Result(q, r) \/ (m.req = r /\ m.kind # "progress")
  PROVE  Result(Append(q, m), r)
  <1>1. /\ Len(q) \in Nat /\ Len(Append(q, m)) = Len(q) + 1
        /\ Append(q, m)[Len(q) + 1] = m
        /\ \A k \in 1 .. Len(q) : Append(q, m)[k] = q[k]
    OBVIOUS
  <1>2. CASE Result(q, r)
    <2>1. PICK k \in 1 .. Len(q) : q[k].req = r /\ q[k].kind # "progress"
      BY <1>2 DEF Result
    <2>2. k \in 1 .. Len(Append(q, m))
      BY <1>1
    <2> QED
      BY <1>1, <2>1, <2>2 DEF Result
  <1>3. CASE m.req = r /\ m.kind # "progress"
    <2>1. Len(q) + 1 \in 1 .. Len(Append(q, m))
      BY <1>1
    <2> QED
      BY <1>1, <1>3, <2>1 DEF Result
  <1> QED
    BY <1>2, <1>3

-----------------------------------------------------------------------------
(* Types.                                                                  *)

\* The initial state satisfies the inductive invariant.
LEMMA InitIInv == Init => IInv
  <1> SUFFICES ASSUME Init PROVE IInv
    OBVIOUS
  <1>1. <<>> \in Seq(Edit) /\ <<>> \in Seq(Callback) /\ Len(<<>>) = 0
        /\ 0 \in 0 .. MaxOps
    BY ChatPanelAssumption
  <1>2. TypeOK
    BY <1>1, ChatPanelAssumption DEF Init, TypeOK
  <1>3. OnlySubmitted
    BY <1>1 DEF Init, OnlySubmitted
  <1>4. SlotIsPending /\ ShowsOpenImage /\ LoadingIsOfSlot
    BY DEF Init, SlotIsPending, ShowsOpenImage, LoadingIsOfSlot
  <1> QED
    BY <1>2, <1>3, <1>4 DEF IInv

\* The operations of a range are edits of the request, and the revision of the
\* open image only grows (_agent_chat_apply_operation_range).
LEMMA RangeType ==
  ASSUME TypeOK, NEW r \in Requests, NEW from \in 0 .. MaxOps,
         NEW n \in 0 .. MaxOps, ApplyRange(r, from, n)
  PROVE  edits' \in [Images -> Seq(Edit)] /\ revision' \in [Images -> Nat]
  <1> DEFINE range == [k \in 1 .. n - from |-> [req |-> r, n |-> from + k]]
  <1>1. /\ edits' = [edits EXCEPT ![current] = @ \o range]
        /\ \E more \in (IF range = <<>> THEN {0} ELSE {0, Len(range)}) :
             revision' = [revision EXCEPT ![current] = @ + more]
    BY DEF ApplyRange
  <1>2. range \in Seq(Edit)
    <2>1. \A k \in 1 .. n - from : [req |-> r, n |-> from + k] \in Edit
      BY ChatPanelAssumption DEF Edit
    <2>2. CASE n > from
      <3>1. n - from \in Nat
        BY <2>2, ChatPanelAssumption
      <3> QED
        BY <2>1, <3>1
    <2>3. CASE ~(n > from)
      <3>1. 1 .. n - from = {}
        BY <2>3, ChatPanelAssumption
      <3>2. range = <<>>
        BY <3>1
      <3> QED
        BY <3>2
    <2> QED
      BY <2>2, <2>3
  <1> HIDE DEF range
  <1>3. Len(range) \in Nat
    BY <1>2
  <1>4. current \in Images /\ edits \in [Images -> Seq(Edit)]
        /\ revision \in [Images -> Nat]
    BY DEF TypeOK
  <1>5. edits' \in [Images -> Seq(Edit)]
    BY <1>1, <1>2, <1>4
  <1>6. PICK more \in (IF range = <<>> THEN {0} ELSE {0, Len(range)}) :
          revision' = [revision EXCEPT ![current] = @ + more]
    BY <1>1
  <1>7. more \in Nat
    BY <1>3, <1>6
  <1> QED
    BY <1>4, <1>5, <1>6, <1>7

\* Cancelling the slot (_agent_chat_cancel_active_request).
LEMMA CancelType ==
  ASSUME TypeOK, CancelSlot
  PROVE  /\ active' = None /\ activeId' = activeId /\ count' = count
         /\ canceling' \in BOOLEAN /\ abandoned' \subseteq Requests
  BY DEF TypeOK, CancelSlot

\* Showing the session of an image (_agent_chat_switch_to_image_session).
LEMMA SwitchType ==
  ASSUME TypeOK, NEW i \in Images, NEW l \in BOOLEAN, SwitchSession(i, l)
  PROVE  /\ sessionLoading' = [sessionLoading EXCEPT ![panel] = l]
         /\ sessionLoading' \in [Images -> BOOLEAN]
         /\ panel' = i /\ loading' = sessionLoading'[i] /\ loading' \in BOOLEAN
  BY DEF TypeOK, SwitchSession

\* Taking the slot (_agent_chat_submit_internal).
LEMMA SubmitType ==
  ASSUME TypeOK, NEW r \in Requests, NEW rev \in Nat, NEW h \in Seq(Edit),
         Submit(r, rev, h)
  PROVE  /\ submission' \in [Requests -> Submission \cup {None}]
         /\ submission'[r] \in Submission
         /\ submission'[r].image = current
         /\ submission'[r].conversation = conversation[current]
         /\ \A q \in Requests \ {r} : submission'[q] = submission[q]
         /\ job' = [job EXCEPT ![r] = "open"]
         /\ active' = r /\ activeId' = r /\ canceling' = FALSE /\ count' = 0
         /\ loading' = TRUE
  <1> DEFINE s == [image |-> current, conversation |-> conversation[current],
                   base |-> rev, seen |-> Len(h)]
  <1>1. s \in Submission
    BY DEF TypeOK, Submission
  <1>2. submission' = [submission EXCEPT ![r] = s]
    BY DEF Submit
  <1>3. s.image = current /\ s.conversation = conversation[current]
    OBVIOUS
  <1> HIDE DEF s
  <1>4. submission \in [Requests -> Submission \cup {None}]
    BY DEF TypeOK
  <1>5. submission' \in [Requests -> Submission \cup {None}] /\ submission'[r] = s
        /\ \A q \in Requests \ {r} : submission'[q] = submission[q]
    BY <1>1, <1>2, <1>4
  <1>6. /\ job' = [job EXCEPT ![r] = "open"]
        /\ active' = r /\ activeId' = r /\ canceling' = FALSE /\ count' = 0
        /\ loading' = TRUE
    BY DEF Submit
  <1> QED
    BY <1>1, <1>3, <1>5, <1>6

\* The end of a request frees the slot if it is its own, and may end the
\* loading (_agent_chat_clear_active_request, _agent_chat_request_finished).
LEMMA FreeType ==
  ASSUME TypeOK, NEW r \in Requests, FreeSlot(r), StopLoading(r)
  PROVE  /\ active' \in Requests \cup {None} /\ activeId' \in Requests \cup {None}
         /\ canceling' \in BOOLEAN /\ count' \in 0 .. MaxOps
         /\ loading' \in BOOLEAN
  <1>1. 0 \in 0 .. MaxOps
    BY ChatPanelAssumption
  <1>2. \/ active' = None /\ activeId' = None /\ canceling' = FALSE /\ count' = 0
        \/ UNCHANGED <<active, activeId, canceling, count>>
    BY DEF FreeSlot, slotVars
  <1>3. loading' = FALSE \/ loading' = loading
    BY DEF StopLoading
  <1> QED
    BY <1>1, <1>2, <1>3 DEF TypeOK

\* Every action keeps the types.
LEMMA TypeStep ==
  ASSUME TypeOK, Next
  PROVE  TypeOK'
  <1>1. CASE CancelClicked
    <2>1. CancelSlot /\ loading' = FALSE
          /\ sessionLoading' = [sessionLoading EXCEPT ![panel] = FALSE]
          /\ UNCHANGED <<visible, current, edits, revision, panel, conversation,
                         submission, job, streamed, queue, leftBusy>>
      BY <1>1 DEF CancelClicked, imageVars
    <2> QED
      BY <2>1, CancelType DEF TypeOK
  <1>2. CASE NewChat
    <2>1. CancelSlot /\ SwitchSession(current, FALSE)
          /\ conversation' = [conversation EXCEPT ![current] = @ + 1]
          /\ UNCHANGED <<visible, current, edits, revision, submission, job,
                         streamed, queue, leftBusy>>
      BY <1>2 DEF NewChat, imageVars
    <2>2. current \in Images
      BY DEF TypeOK
    <2>3. conversation' \in [Images -> Nat]
      BY <2>1, <2>2 DEF TypeOK
    <2>4. sessionLoading' \in [Images -> BOOLEAN] /\ panel' = current
          /\ loading' \in BOOLEAN
      BY <2>1, <2>2, SwitchType
    <2> QED
      BY <2>1, <2>3, <2>4, CancelType DEF TypeOK
  <1>3. CASE LeaveDarkroom
    <2>1. visible' = FALSE
          /\ sessionLoading' = [sessionLoading EXCEPT ![panel] = loading]
          /\ leftBusy' = (leftBusy \/ loading)
          /\ UNCHANGED <<current, edits, revision, panel, loading, conversation,
               active, activeId, canceling, count, submission, abandoned, job,
               streamed, queue>>
      BY <1>3 DEF LeaveDarkroom, imageVars, slotVars, requestVars
    <2>2. sessionLoading' \in [Images -> BOOLEAN] /\ leftBusy' \in BOOLEAN
      BY <2>1 DEF TypeOK
    <2> QED
      BY <2>1, <2>2 DEF TypeOK
  <1>4. CASE EditImage
    <2>1. edits' = [edits EXCEPT ![current] = Append(@, UserEdit)]
          /\ (\E more \in {0, 1} : revision' = [revision EXCEPT ![current] = @ + more])
          /\ UNCHANGED <<visible, current, panel, loading, sessionLoading,
               conversation, active, activeId, canceling, count, submission,
               abandoned, job, streamed, queue, leftBusy>>
      BY <1>4 DEF EditImage, slotVars, requestVars
    <2>2. UserEdit \in Edit
      BY ChatPanelAssumption DEF UserEdit, Edit
    <2>3. edits' \in [Images -> Seq(Edit)] /\ revision' \in [Images -> Nat]
      BY <2>1, <2>2 DEF TypeOK
    <2> QED
      BY <2>1, <2>3 DEF TypeOK
  <1>5. ASSUME NEW i \in Images, ChangeImage(i) PROVE TypeOK'
    <2>1. current' = i
          /\ UNCHANGED <<visible, edits, revision, conversation, submission, job,
                         streamed, queue, leftBusy>>
      BY <1>5 DEF ChangeImage, imageVars
    <2>2. CASE UNCHANGED <<active, activeId, canceling, count, abandoned, panel,
                           loading, sessionLoading>>
      BY <2>1, <2>2 DEF TypeOK
    <2>3. CASE CancelSlot /\ SwitchSession(i, FALSE)
      BY <2>1, <2>3, CancelType, SwitchType DEF TypeOK
    <2> QED
      BY <1>5, <2>2, <2>3 DEF ChangeImage, slotVars
  <1>6. ASSUME NEW i \in Images, EnterDarkroom(i) PROVE TypeOK'
    <2>1. visible' = TRUE /\ current' = i /\ SwitchSession(i, loading)
          /\ UNCHANGED <<edits, revision, conversation, active, activeId, canceling,
               count, submission, abandoned, job, streamed, queue, leftBusy>>
      BY <1>6 DEF EnterDarkroom, imageVars, slotVars, requestVars
    <2>2. sessionLoading' \in [Images -> BOOLEAN] /\ panel' = i /\ loading' \in BOOLEAN
      BY <2>1, SwitchType DEF TypeOK
    <2> QED
      BY <2>1, <2>2 DEF TypeOK
  <1>7. ASSUME NEW r \in Requests, Send(r) PROVE TypeOK'
    <2>1. Submit(r, revision[current], edits[current])
          /\ sessionLoading' = [sessionLoading EXCEPT ![panel] = TRUE]
          /\ UNCHANGED <<visible, current, edits, revision, panel, conversation,
                         abandoned, streamed, queue, leftBusy>>
      BY <1>7 DEF Send, imageVars
    <2>2. revision[current] \in Nat /\ edits[current] \in Seq(Edit)
      BY DEF TypeOK
    <2>3. /\ submission' \in [Requests -> Submission \cup {None}]
          /\ job' = [job EXCEPT ![r] = "open"]
          /\ active' = r /\ activeId' = r /\ canceling' = FALSE /\ count' = 0
          /\ loading' = TRUE
      BY <2>1, <2>2, SubmitType
    <2>4. 0 \in 0 .. MaxOps /\ sessionLoading' \in [Images -> BOOLEAN]
          /\ job' \in [Requests -> {"none", "open", "closed"}]
      BY <2>1, <2>3, ChatPanelAssumption DEF TypeOK
    <2> QED
      BY <2>1, <2>3, <2>4 DEF TypeOK
  <1>8. ASSUME NEW r \in Requests, NEW n \in 1 .. MaxOps, StreamProgress(r, n)
        PROVE  TypeOK'
    <2>1. streamed' = [streamed EXCEPT ![r] = n]
          /\ queue' = Append(queue, [kind |-> "progress", req |-> r, n |-> n])
          /\ UNCHANGED <<visible, current, edits, revision, panel, loading,
               sessionLoading, conversation, active, activeId, canceling, count,
               submission, abandoned, job, leftBusy>>
      BY <1>8 DEF StreamProgress, imageVars, slotVars
    <2>2. [kind |-> "progress", req |-> r, n |-> n] \in Callback
          /\ n \in 0 .. MaxOps
      BY ChatPanelAssumption DEF Callback
    <2>3. queue' \in Seq(Callback)
      BY <2>1, <2>2 DEF TypeOK
    <2> QED
      BY <2>1, <2>2, <2>3 DEF TypeOK
  <1>9. ASSUME NEW r \in Requests, NEW k \in {"final", "error", "cancelled"},
               NEW n \in 0 .. MaxOps, StreamResult(r, k, n)
        PROVE  TypeOK'
    <2>1. job' = [job EXCEPT ![r] = "closed"]
          /\ queue' = Append(queue, [kind |-> k, req |-> r, n |-> n])
          /\ UNCHANGED <<visible, current, edits, revision, panel, loading,
               sessionLoading, conversation, active, activeId, canceling, count,
               submission, abandoned, streamed, leftBusy>>
      BY <1>9 DEF StreamResult, imageVars, slotVars
    <2>2. [kind |-> k, req |-> r, n |-> n] \in Callback
      BY DEF Callback
    <2>3. queue' \in Seq(Callback)
      BY <2>1, <2>2 DEF TypeOK
    <2> QED
      BY <2>1, <2>3 DEF TypeOK
  <1>10. CASE HandleProgress
    <2>1. queue # <<>> /\ queue \in Seq(Callback)
      BY <1>10 DEF HandleProgress, TypeOK
    <2>2. Head(queue).req \in Requests /\ Head(queue).n \in 0 .. MaxOps
          /\ Tail(queue) \in Seq(Callback)
      BY <2>1, HeadType DEF Callback
    <2>3. queue' = Tail(queue)
          /\ sessionLoading' = [sessionLoading EXCEPT ![panel] = ProgressCounts \/ @]
          /\ UNCHANGED <<visible, current, panel, loading, conversation, active,
               activeId, canceling, submission, abandoned, job, streamed, leftBusy>>
      BY <1>10 DEF HandleProgress, requestVars
    <2>4. edits' \in [Images -> Seq(Edit)] /\ revision' \in [Images -> Nat]
          /\ count' \in 0 .. MaxOps
      <3>1. CASE UNCHANGED <<edits, revision, count>>
        BY <3>1 DEF TypeOK
      <3>2. CASE /\ ApplyRange(Head(queue).req, count, Head(queue).n)
                 /\ count' = Head(queue).n
        <4>1. count \in 0 .. MaxOps
          BY DEF TypeOK
        <4> QED
          BY <2>2, <3>2, <4>1, RangeType
      <3> QED
        BY <1>10, <3>1, <3>2 DEF HandleProgress, imageVars
    <2>5. sessionLoading' \in [Images -> BOOLEAN]
      BY <2>3 DEF TypeOK
    <2> QED
      BY <2>2, <2>3, <2>4, <2>5 DEF TypeOK
  <1>11. CASE DropResult
    <2>1. queue # <<>> /\ queue \in Seq(Callback)
      BY <1>11 DEF DropResult, TypeOK
    <2>2. Head(queue).req \in Requests /\ Tail(queue) \in Seq(Callback)
      BY <2>1, HeadType DEF Callback
    <2>3. queue' = Tail(queue) /\ FreeSlot(Head(queue).req)
          /\ StopLoading(Head(queue).req)
          /\ sessionLoading' =
               [sessionLoading EXCEPT ![submission[Head(queue).req].image] = FALSE]
          /\ UNCHANGED <<visible, current, edits, revision, panel, conversation,
               submission, abandoned, job, streamed, leftBusy>>
      BY <1>11 DEF DropResult, requestVars, imageVars
    <2>4. sessionLoading' \in [Images -> BOOLEAN]
      BY <2>3 DEF TypeOK
    <2> QED
      BY <2>2, <2>3, <2>4, FreeType DEF TypeOK
  <1>12. ASSUME NEW next \in Requests \cup {None}, ApplyFinal(next)
         PROVE  TypeOK'
    <2> DEFINE m == Head(queue)
               live == IF activeId = m.req THEN count ELSE 0
    <2>1. queue # <<>> /\ queue \in Seq(Callback) /\ count \in 0 .. MaxOps
          /\ 0 \in 0 .. MaxOps
      BY <1>12, ChatPanelAssumption DEF ApplyFinal, TypeOK
    <2>2. m.req \in Requests /\ m.n \in 0 .. MaxOps /\ Tail(queue) \in Seq(Callback)
          /\ live \in 0 .. MaxOps
      BY <2>1, HeadType DEF Callback
    <2>3. queue' = Tail(queue) /\ ApplyRange(m.req, live, m.n)
          /\ sessionLoading' =
               [sessionLoading EXCEPT ![submission[m.req].image] = next # None]
          /\ UNCHANGED <<visible, current, panel, conversation, abandoned, streamed,
                         leftBusy>>
      BY <1>12 DEF ApplyFinal
    <2>4. \/ FreeSlot(m.req) /\ StopLoading(m.req) /\ UNCHANGED <<submission, job>>
          \/ next \in Requests /\ Submit(next, revision'[current], edits'[current])
      BY <1>12 DEF ApplyFinal
    <2> HIDE DEF m, live
    <2>5. edits' \in [Images -> Seq(Edit)] /\ revision' \in [Images -> Nat]
      BY <2>2, <2>3, RangeType
    <2>6. sessionLoading' \in [Images -> BOOLEAN]
      BY <2>3 DEF TypeOK
    <2>7. CASE FreeSlot(m.req) /\ StopLoading(m.req) /\ UNCHANGED <<submission, job>>
      BY <2>2, <2>3, <2>5, <2>6, <2>7, FreeType DEF TypeOK
    <2>8. CASE next \in Requests /\ Submit(next, revision'[current], edits'[current])
      <3>1. revision'[current] \in Nat /\ edits'[current] \in Seq(Edit)
        BY <2>5 DEF TypeOK
      <3>2. /\ submission' \in [Requests -> Submission \cup {None}]
            /\ job' = [job EXCEPT ![next] = "open"]
            /\ active' = next /\ activeId' = next /\ canceling' = FALSE /\ count' = 0
            /\ loading' = TRUE
        BY <2>8, <3>1, SubmitType
      <3> QED
        BY <2>1, <2>2, <2>3, <2>5, <2>6, <2>8, <3>2 DEF TypeOK
    <2> QED
      BY <2>4, <2>7, <2>8
  <1> QED
    BY <1>1, <1>2, <1>3, <1>4, <1>5, <1>6, <1>7, <1>8, <1>9, <1>10, <1>11, <1>12
    DEF Next, User, MainLoop, Stream

-----------------------------------------------------------------------------
(* What a step may do to the requests and to the slot.                     *)

\* A new request takes the slot.
Takes(r) ==
  /\ submission[r] = None /\ submission'[r] \in Submission
  /\ submission'[r].image = current
  /\ submission'[r].conversation = conversation[current]
  /\ \A q \in Requests \ {r} : submission'[q] = submission[q]
  /\ job' = [job EXCEPT ![r] = "open"]
  /\ active' = r /\ activeId' = r /\ canceling' = FALSE
  /\ loading' = TRUE

NothingDone ==
  UNCHANGED <<active, activeId, canceling, submission, abandoned, job, queue>>
Cancelled == CancelSlot /\ UNCHANGED <<submission, job, queue>>
Sent(r) == Takes(r) /\ UNCHANGED <<abandoned, queue>>
ProgressQueued(m) ==
  /\ m.kind = "progress" /\ job[m.req] = "open" /\ queue' = Append(queue, m)
  /\ UNCHANGED <<active, activeId, canceling, submission, abandoned, job>>
ResultQueued(m) ==
  /\ m.kind # "progress" /\ job[m.req] = "open"
  /\ job' = [job EXCEPT ![m.req] = "closed"] /\ queue' = Append(queue, m)
  /\ UNCHANGED <<active, activeId, canceling, submission, abandoned>>
ProgressTaken ==
  /\ queue # <<>> /\ Head(queue).kind = "progress" /\ queue' = Tail(queue)
  /\ UNCHANGED <<active, activeId, canceling, submission, abandoned, job>>
ResultTaken ==
  /\ queue # <<>> /\ Head(queue).kind # "progress" /\ queue' = Tail(queue)
  /\ FreeSlot(Head(queue).req)
  /\ UNCHANGED <<submission, abandoned, job>>
NextPass(r) ==
  /\ queue # <<>> /\ queue' = Tail(queue)
  /\ Takes(r) /\ UNCHANGED abandoned

\* The plan is applied and the next pass submitted: the request is new, and is
\* made for the image that the panel shows (_agent_chat_request_finished).
LEMMA NextPassIs ==
  ASSUME TypeOK, NEW next \in Requests, ApplyFinal(next)
  PROVE  /\ NextPass(next) /\ Head(queue).kind = "final" /\ panel = current /\ visible
         /\ sessionLoading' = [sessionLoading EXCEPT ![panel] = TRUE]
         /\ UNCHANGED <<visible, current, panel, conversation, leftBusy>>
  <1> DEFINE m == Head(queue)
             live == IF activeId = m.req THEN count ELSE 0
  <1>1. next # None
    BY ChatPanelAssumption
  <1>2. /\ queue # <<>> /\ m.kind = "final" /\ visible /\ ~IsStale(m.req)
        /\ queue' = Tail(queue) /\ ApplyRange(m.req, live, m.n)
        /\ sessionLoading' =
             [sessionLoading EXCEPT ![submission[m.req].image] = next # None]
        /\ submission[next] = None
        /\ Submit(next, revision'[current], edits'[current])
        /\ UNCHANGED <<visible, current, panel, conversation, abandoned, leftBusy>>
    BY <1>1 DEF ApplyFinal
  <1>3. panel = current /\ sessionLoading' = [sessionLoading EXCEPT ![panel] = TRUE]
    BY <1>1, <1>2 DEF IsStale, MatchesPanel
  <1>4. queue \in Seq(Callback) /\ count \in 0 .. MaxOps /\ 0 \in 0 .. MaxOps
    BY ChatPanelAssumption DEF TypeOK
  <1>5. m.req \in Requests /\ m.n \in 0 .. MaxOps /\ live \in 0 .. MaxOps
    BY <1>2, <1>4, HeadType DEF Callback
  <1> HIDE DEF live
  <1>6. edits' \in [Images -> Seq(Edit)] /\ revision' \in [Images -> Nat]
    BY <1>2, <1>5, RangeType
  <1>7. revision'[current] \in Nat /\ edits'[current] \in Seq(Edit)
    BY <1>6 DEF TypeOK
  <1>8. Takes(next)
    BY <1>2, <1>7, SubmitType DEF Takes
  <1> QED
    BY <1>2, <1>3, <1>8 DEF NextPass

\* A message is sent for the image that is open
\* (_agent_chat_send_clicked).
LEMMA SendIs ==
  ASSUME TypeOK, NEW r \in Requests, Send(r)
  PROVE  /\ Sent(r) /\ visible
         /\ sessionLoading' = [sessionLoading EXCEPT ![panel] = TRUE]
         /\ UNCHANGED <<visible, current, panel, conversation, leftBusy>>
  <1>1. revision[current] \in Nat /\ edits[current] \in Seq(Edit)
    BY DEF TypeOK
  <1>2. submission[r] = None /\ Submit(r, revision[current], edits[current])
        /\ UNCHANGED <<abandoned, queue>>
    BY DEF Send
  <1>3. Takes(r)
    BY <1>1, <1>2, SubmitType DEF Takes
  <1>4. /\ visible
        /\ sessionLoading' = [sessionLoading EXCEPT ![panel] = TRUE]
        /\ UNCHANGED <<visible, current, panel, conversation, leftBusy>>
    BY DEF Send
  <1> QED
    BY <1>2, <1>3, <1>4 DEF Sent

\* Every step does one of these things.
LEMMA StepKinds ==
  ASSUME TypeOK, Next
  PROVE  \/ NothingDone \/ Cancelled
         \/ \E r \in Requests : Sent(r) \/ NextPass(r)
         \/ \E m \in Callback : ProgressQueued(m) \/ ResultQueued(m)
         \/ ProgressTaken \/ ResultTaken
  <1>1. CASE CancelClicked \/ NewChat
    BY <1>1 DEF CancelClicked, NewChat, Cancelled
  <1>2. CASE LeaveDarkroom \/ EditImage \/ \E i \in Images : EnterDarkroom(i)
    BY <1>2 DEF LeaveDarkroom, EditImage, EnterDarkroom, NothingDone, slotVars,
       requestVars
  <1>3. CASE \E i \in Images : ChangeImage(i)
    BY <1>3 DEF ChangeImage, NothingDone, Cancelled, slotVars
  <1>4. CASE \E r \in Requests : Send(r)
    BY <1>4, SendIs
  <1>5. ASSUME NEW r \in Requests, NEW n \in 1 .. MaxOps, StreamProgress(r, n)
        PROVE  \E m \in Callback : ProgressQueued(m)
    <2> DEFINE m == [kind |-> "progress", req |-> r, n |-> n]
    <2>1. m \in Callback /\ m.kind = "progress" /\ m.req = r
      BY ChatPanelAssumption DEF Callback
    <2>2. job[r] = "open" /\ queue' = Append(queue, m)
          /\ UNCHANGED <<active, activeId, canceling, submission, abandoned, job>>
      BY <1>5 DEF StreamProgress, slotVars
    <2> HIDE DEF m
    <2> QED
      BY <2>1, <2>2 DEF ProgressQueued
  <1>6. ASSUME NEW r \in Requests, NEW k \in {"final", "error", "cancelled"},
               NEW n \in 0 .. MaxOps, StreamResult(r, k, n)
        PROVE  \E m \in Callback : ResultQueued(m)
    <2> DEFINE m == [kind |-> k, req |-> r, n |-> n]
    <2>1. m \in Callback /\ m.kind # "progress" /\ m.req = r
      BY DEF Callback
    <2>2. job[r] = "open" /\ queue' = Append(queue, m)
          /\ job' = [job EXCEPT ![r] = "closed"]
          /\ UNCHANGED <<active, activeId, canceling, submission, abandoned>>
      BY <1>6 DEF StreamResult, slotVars
    <2> HIDE DEF m
    <2> QED
      BY <2>1, <2>2 DEF ResultQueued
  <1>7. CASE HandleProgress
    BY <1>7 DEF HandleProgress, ProgressTaken, requestVars
  <1>8. CASE DropResult
    BY <1>8 DEF DropResult, ResultTaken, requestVars
  <1>9. CASE \E next \in Requests : ApplyFinal(next)
    BY <1>9, NextPassIs
  <1>10. CASE ApplyFinal(None)
    BY <1>10 DEF ApplyFinal, ResultTaken
  <1> QED
    BY <1>1, <1>2, <1>3, <1>4, <1>5, <1>6, <1>7, <1>8, <1>9, <1>10
    DEF Next, User, MainLoop, Stream

-----------------------------------------------------------------------------
(* Requests start when they are submitted.                                 *)

\* The slot names a request that was submitted.
LEMMA SlotSubmitted ==
  ASSUME TypeOK, OnlySubmitted, SlotIsPending, activeId # None
  PROVE  activeId \in Requests /\ submission[activeId] # None
  <1>1. activeId \in Requests
    BY DEF TypeOK
  <1>2. job[activeId] = "open" \/ Result(queue, activeId)
    BY PendingIs DEF SlotIsPending
  <1> QED
    BY <1>1, <1>2 DEF OnlySubmitted, Result

\* What OnlySubmitted says of given requests and callbacks.
Submitted(sub, jb, ab, q) ==
  /\ \A r \in Requests : sub[r] = None <=> jb[r] = "none"
  /\ \A r \in ab : sub[r] # None
  /\ \A k \in 1 .. Len(q) : sub[q[k].req] # None

LEMMA OnlySubmittedStep ==
  ASSUME TypeOK, OnlySubmitted, SlotIsPending, TypeOK', Next
  PROVE  OnlySubmitted'
  <1>1. /\ queue \in Seq(Callback) /\ abandoned \subseteq Requests
        /\ submission \in [Requests -> Submission \cup {None}]
        /\ job \in [Requests -> {"none", "open", "closed"}]
        /\ active \in Requests \cup {None}
    BY DEF TypeOK
  <1>2. Submitted(submission, job, abandoned, queue)
    BY DEF Submitted, OnlySubmitted
  <1>3. Submitted(submission', job', abandoned', queue') => OnlySubmitted'
    BY DEF Submitted, OnlySubmitted
  <1>4. CASE NothingDone
    BY <1>2, <1>3, <1>4 DEF NothingDone
  <1>5. CASE Cancelled
    <2>1. abandoned' = abandoned \cup ({active} \ {None})
          /\ UNCHANGED <<submission, job, queue>>
      BY <1>5 DEF Cancelled, CancelSlot
    <2>2. active # None => submission[active] # None
      BY SlotSubmitted DEF SlotIsPending
    <2> QED
      BY <1>2, <1>3, <2>1, <2>2 DEF Submitted
  <1>6. ASSUME NEW r \in Requests, Takes(r), UNCHANGED abandoned,
               NEW q \in Seq(Callback), queue' = q,
               \A k \in 1 .. Len(q) : submission[q[k].req] # None
        PROVE  OnlySubmitted'
    <2>1. /\ submission[r] = None /\ submission'[r] # None
          /\ \A p \in Requests \ {r} : submission'[p] = submission[p]
          /\ job' = [job EXCEPT ![r] = "open"]
      BY <1>6, ChatPanelAssumption DEF Takes
    <2>2. \A p \in Requests : submission[p] # None => submission'[p] # None
      BY <2>1
    <2>3. \A k \in 1 .. Len(q) : q[k].req \in Requests
      <3>1. \A k \in 1 .. Len(q) : q[k] \in Callback
        OBVIOUS
      <3> QED
        BY <3>1 DEF Callback
    <2>4. \A p \in Requests : submission'[p] = None <=> job'[p] = "none"
      BY <1>1, <1>2, <2>1 DEF Submitted
    <2> QED
      BY <1>1, <1>2, <1>3, <1>6, <2>2, <2>3, <2>4 DEF Submitted
  <1>7. ASSUME NEW r \in Requests, Sent(r) PROVE OnlySubmitted'
    BY <1>1, <1>2, <1>6, <1>7 DEF Sent, Submitted
  <1>8. ASSUME NEW r \in Requests, NextPass(r) PROVE OnlySubmitted'
    <2>1. queue # <<>> /\ queue' = Tail(queue) /\ Takes(r) /\ UNCHANGED abandoned
      BY <1>8 DEF NextPass
    <2>2. Tail(queue) \in Seq(Callback)
          /\ \A k \in 1 .. Len(Tail(queue)) : submission[Tail(queue)[k].req] # None
      BY <1>1, <1>2, <2>1, HeadType DEF Submitted
    <2> QED
      BY <1>6, <2>1, <2>2
  <1>9. ASSUME NEW m \in Callback, ProgressQueued(m) \/ ResultQueued(m)
        PROVE  OnlySubmitted'
    <2>1. /\ job[m.req] = "open" /\ queue' = Append(queue, m)
          /\ UNCHANGED <<submission, abandoned>>
          /\ job' = job \/ job' = [job EXCEPT ![m.req] = "closed"]
      BY <1>9 DEF ProgressQueued, ResultQueued
    <2>2. m.req \in Requests
      BY DEF Callback
    <2>3. submission[m.req] # None
      BY <1>2, <2>1, <2>2 DEF Submitted
    <2>4. \A k \in 1 .. Len(queue') : submission[queue'[k].req] # None
      <3>1. Len(queue') = Len(queue) + 1 /\ queue'[Len(queue) + 1] = m
            /\ Len(queue) \in Nat
            /\ \A k \in 1 .. Len(queue) : queue'[k] = queue[k]
        BY <1>1, <2>1
      <3> QED
        BY <1>2, <2>3, <3>1 DEF Submitted
    <2>5. \A p \in Requests : submission[p] = None <=> job'[p] = "none"
      BY <1>1, <1>2, <2>1, <2>2 DEF Submitted
    <2> QED
      BY <1>2, <1>3, <2>1, <2>4, <2>5 DEF Submitted
  <1>10. CASE ProgressTaken \/ ResultTaken
    <2>1. queue # <<>> /\ queue' = Tail(queue)
          /\ UNCHANGED <<submission, abandoned, job>>
      BY <1>10 DEF ProgressTaken, ResultTaken
    <2>2. \A k \in 1 .. Len(Tail(queue)) : submission[Tail(queue)[k].req] # None
      BY <1>1, <1>2, <2>1, HeadType DEF Submitted
    <2> QED
      BY <1>2, <1>3, <2>1, <2>2 DEF Submitted
  <1> QED
    BY StepKinds, <1>4, <1>5, <1>7, <1>8, <1>9, <1>10

-----------------------------------------------------------------------------
(* The slot is held by a request that is still to end.                     *)

\* The result of the request in the slot is among the callbacks, or its job
\* thread runs, for given values of the variables.
StillToCome(jb, q, r) == jb[r] = "open" \/ Result(q, r)

LEMMA SlotStep ==
  ASSUME TypeOK, OnlySubmitted, SlotIsPending, TypeOK', Next
  PROVE  SlotIsPending'
  <1>1. /\ queue \in Seq(Callback) /\ abandoned \subseteq Requests
        /\ job \in [Requests -> {"none", "open", "closed"}]
        /\ active \in Requests \cup {None} /\ activeId \in Requests \cup {None}
    BY DEF TypeOK
  <1>2. /\ activeId # None => StillToCome(job, queue, activeId)
        /\ active # None => active = activeId /\ ~canceling /\ active \notin abandoned
        /\ canceling => activeId # None
    BY PendingIs DEF SlotIsPending, StillToCome
  <1>3. ASSUME activeId' # None => StillToCome(job', queue', activeId'),
               active' # None => active' = activeId' /\ ~canceling'
                                   /\ active' \notin abandoned',
               canceling' => activeId' # None
        PROVE  SlotIsPending'
    <2>1. activeId' # None => Pending(activeId)'
      BY <1>3, PendingIsNext DEF StillToCome
    <2> QED
      BY <1>3, <2>1 DEF SlotIsPending
  <1>4. CASE NothingDone
    BY <1>2, <1>3, <1>4 DEF NothingDone
  <1>5. CASE Cancelled
    <2>1. active' = None /\ activeId' = activeId
          /\ canceling' = (canceling \/ active # None)
          /\ UNCHANGED <<job, queue>>
      BY <1>5 DEF Cancelled, CancelSlot
    <2> QED
      BY <1>2, <1>3, <2>1
  <1>6. ASSUME NEW r \in Requests, Takes(r), UNCHANGED abandoned
        PROVE  SlotIsPending'
    <2>1. /\ submission[r] = None
          /\ job' = [job EXCEPT ![r] = "open"]
          /\ active' = r /\ activeId' = r /\ canceling' = FALSE
      BY <1>6 DEF Takes
    <2>2. r \notin abandoned
      BY <2>1 DEF OnlySubmitted
    <2>3. StillToCome(job', queue', r)
      BY <1>1, <2>1 DEF StillToCome
    <2> QED
      BY <1>3, <1>6, <2>1, <2>2, <2>3
  <1>7. ASSUME NEW m \in Callback, ProgressQueued(m) PROVE SlotIsPending'
    <2>1. queue' = Append(queue, m)
          /\ UNCHANGED <<active, activeId, canceling, abandoned, job>>
      BY <1>7 DEF ProgressQueued
    <2>2. activeId # None => StillToCome(job, queue', activeId)
      BY <1>1, <1>2, <2>1, ResultAdded DEF StillToCome
    <2> QED
      BY <1>2, <1>3, <2>1, <2>2
  <1>8. ASSUME NEW m \in Callback, ResultQueued(m) PROVE SlotIsPending'
    <2>1. /\ m.kind # "progress" /\ queue' = Append(queue, m)
          /\ job' = [job EXCEPT ![m.req] = "closed"]
          /\ UNCHANGED <<active, activeId, canceling, abandoned>>
      BY <1>8 DEF ResultQueued
    <2>2. activeId # None => StillToCome(job', queue', activeId)
      <3>1. CASE activeId = m.req
        BY <1>1, <2>1, <3>1, ResultAdded DEF StillToCome
      <3>2. CASE activeId # m.req /\ activeId # None
        <4>1. activeId \in Requests /\ job'[activeId] = job[activeId]
          BY <1>1, <2>1, <3>2
        <4> QED
          BY <1>1, <1>2, <2>1, <3>2, <4>1, ResultAdded DEF StillToCome
      <3> QED
        BY <3>1, <3>2
    <2> QED
      BY <1>2, <1>3, <2>1, <2>2
  <1>9. CASE ProgressTaken
    <2>1. queue # <<>> /\ Head(queue).kind = "progress" /\ queue' = Tail(queue)
          /\ UNCHANGED <<active, activeId, canceling, abandoned, job>>
      BY <1>9 DEF ProgressTaken
    <2>2. activeId # None => StillToCome(job, queue', activeId)
      BY <1>1, <1>2, <2>1, ResultStays DEF StillToCome
    <2> QED
      BY <1>2, <1>3, <2>1, <2>2
  <1>10. CASE ResultTaken
    <2>1. queue # <<>> /\ queue' = Tail(queue) /\ FreeSlot(Head(queue).req)
          /\ UNCHANGED <<abandoned, job>>
      BY <1>10 DEF ResultTaken
    <2>2. CASE activeId = Head(queue).req
      <3>1. active' = None /\ activeId' = None /\ canceling' = FALSE
        BY <2>1, <2>2 DEF FreeSlot
      <3> QED
        BY <1>3, <3>1
    <2>3. CASE activeId # Head(queue).req
      <3>1. UNCHANGED <<active, activeId, canceling>>
        BY <2>1, <2>3 DEF FreeSlot, slotVars
      <3>2. activeId # None => StillToCome(job, queue', activeId)
        BY <1>1, <1>2, <2>1, <2>3, ResultStays DEF StillToCome
      <3> QED
        BY <1>2, <1>3, <2>1, <3>1, <3>2
    <2> QED
      BY <2>2, <2>3
  <1> QED
    BY StepKinds, <1>4, <1>5, <1>6, <1>7, <1>8, <1>9, <1>10 DEF Sent, NextPass

-----------------------------------------------------------------------------
(* The loading flag.                                                       *)

\* The panel shows the open image (_agent_chat_switch_to_image_session in
\* every handler that changes the image).
LEMMA ShowsStep ==
  ASSUME TypeOK, ShowsOpenImage, Next
  PROVE  ShowsOpenImage'
  <1>1. ASSUME UNCHANGED <<visible, current, panel>> PROVE ShowsOpenImage'
    BY <1>1 DEF ShowsOpenImage
  <1>2. CASE CancelClicked \/ EditImage \/ \E r \in Requests : Send(r)
    BY <1>1, <1>2 DEF CancelClicked, EditImage, Send
  <1>3. CASE NewChat \/ \E i \in Images : EnterDarkroom(i)
    <2>1. CASE NewChat
      BY <2>1 DEF NewChat, SwitchSession, ShowsOpenImage
    <2>2. ASSUME NEW i \in Images, EnterDarkroom(i) PROVE panel' = current'
      BY <2>2 DEF EnterDarkroom, SwitchSession
    <2> QED
      BY <1>3, <2>1, <2>2 DEF ShowsOpenImage
  <1>4. CASE LeaveDarkroom
    BY <1>4 DEF LeaveDarkroom, ShowsOpenImage
  <1>5. CASE \E i \in Images : ChangeImage(i)
    BY <1>5 DEF ChangeImage, SwitchSession, ShowsOpenImage
  <1>6. CASE MainLoop
    BY <1>1, <1>6 DEF MainLoop, HandleProgress, DropResult, ApplyFinal
  <1>7. CASE \E r \in Requests : Stream(r)
    BY <1>1, <1>7 DEF Stream, StreamProgress, StreamResult
  <1> QED
    BY <1>2, <1>3, <1>4, <1>5, <1>6, <1>7 DEF Next, User

LEMMA LoadingStep ==
  ASSUME TypeOK, OnlySubmitted, SlotIsPending, ShowsOpenImage, LoadingIsOfSlot,
         TypeOK', Next
  PROVE  LoadingIsOfSlot'
  <1>1. /\ current \in Images /\ panel \in Images
        /\ sessionLoading \in [Images -> BOOLEAN] /\ loading \in BOOLEAN
        /\ leftBusy \in BOOLEAN /\ leftBusy' \in BOOLEAN
    BY DEF TypeOK
  <1> DEFINE Goal == /\ \A j \in Images : sessionLoading'[j] => j = panel' /\ loading'
                     /\ loading' => visible' /\ activeId' # None /\ MatchesPanel(activeId)'
  <1>2. SUFFICES ASSUME ~leftBusy' PROVE Goal
    BY DEF LoadingIsOfSlot
  <1>3. ~leftBusy
    BY <1>1, <1>2 DEF Next, User, MainLoop, Stream, CancelClicked, NewChat, LeaveDarkroom,
       EditImage, ChangeImage, EnterDarkroom, Send, HandleProgress, DropResult,
       ApplyFinal, StreamProgress, StreamResult
  <1>4. /\ \A i \in Images : sessionLoading[i] => i = panel /\ loading
        /\ loading => visible /\ activeId # None /\ MatchesPanel(activeId)
    BY <1>3 DEF LoadingIsOfSlot
  <1>5. \A i \in Images : ~[sessionLoading EXCEPT ![panel] = FALSE][i]
    BY <1>1, <1>4
  <1>6. CASE CancelClicked
    <2>1. ~loading' /\ sessionLoading' = [sessionLoading EXCEPT ![panel] = FALSE]
      BY <1>6 DEF CancelClicked
    <2> QED
      BY <1>5, <2>1
  <1>7. ASSUME NEW i \in Images, SwitchSession(i, FALSE)
        PROVE  (\A j \in Images : ~sessionLoading'[j]) /\ ~loading'
    BY <1>5, <1>7, SwitchType
  <1>8. CASE NewChat
    BY <1>1, <1>7, <1>8 DEF NewChat
  <1>9. CASE LeaveDarkroom
    <2>1. ~loading /\ sessionLoading' = [sessionLoading EXCEPT ![panel] = loading]
          /\ UNCHANGED loading
      BY <1>1, <1>2, <1>9 DEF LeaveDarkroom
    <2>2. \A j \in Images : ~sessionLoading'[j]
      BY <1>1, <1>5, <2>1
    <2> QED
      BY <2>1, <2>2
  <1>10. ASSUME UNCHANGED <<visible, panel, loading, sessionLoading, conversation,
                            activeId, submission>>
         PROVE  Goal
    BY <1>4, <1>10 DEF MatchesPanel
  <1>11. CASE EditImage
    BY <1>10, <1>11 DEF EditImage, slotVars, requestVars
  <1>12. ASSUME NEW i \in Images, ChangeImage(i)
         PROVE  Goal
    BY <1>7, <1>10, <1>12 DEF ChangeImage, slotVars
  <1>13. ASSUME NEW i \in Images, EnterDarkroom(i)
         PROVE  (\A j \in Images : ~sessionLoading'[j]) /\ ~loading'
    <2>1. ~visible /\ SwitchSession(i, loading)
      BY <1>13 DEF EnterDarkroom
    <2>2. loading = FALSE
      BY <1>1, <1>4, <2>1
    <2> QED
      BY <1>7, <2>1, <2>2
  <1>14. ASSUME NEW r \in Requests, Takes(r), panel = current, visible,
                sessionLoading' = [sessionLoading EXCEPT ![panel] = TRUE],
                UNCHANGED <<visible, current, panel, conversation>>
         PROVE  Goal
    <2>1. loading' /\ visible' /\ activeId' # None /\ MatchesPanel(activeId)'
      BY <1>14, ChatPanelAssumption DEF Takes, MatchesPanel
    <2>2. \A j \in Images : sessionLoading'[j] => j = panel'
      BY <1>1, <1>4, <1>14
    <2> QED
      BY <2>1, <2>2
  <1>15. ASSUME NEW r \in Requests, Send(r)
         PROVE  Goal
    BY <1>14, <1>15, SendIs DEF Sent, ShowsOpenImage
  <1>16. ASSUME NEW r \in Requests, NEW n, StreamProgress(r, n)
         PROVE  Goal
    BY <1>10, <1>16 DEF StreamProgress, slotVars
  <1>17. ASSUME NEW r \in Requests, NEW k, NEW n, StreamResult(r, k, n)
         PROVE  Goal
    BY <1>10, <1>17 DEF StreamResult, slotVars
  <1>18. CASE HandleProgress
    <2>1. /\ sessionLoading' = [sessionLoading EXCEPT ![panel] = ProgressCounts \/ @]
          /\ UNCHANGED <<visible, panel, loading, conversation, activeId, submission>>
      BY <1>18 DEF HandleProgress, requestVars
    <2>2. loading' => visible' /\ activeId' # None /\ MatchesPanel(activeId)'
      BY <1>4, <2>1 DEF MatchesPanel
    <2>3. \A j \in Images : sessionLoading'[j] => j = panel' /\ loading'
      BY <1>1, <1>4, <2>1 DEF ProgressCounts
    <2> QED
      BY <2>2, <2>3
  <1>19. ASSUME NEW r \in Requests, submission[r] # None, FreeSlot(r), StopLoading(r),
                sessionLoading' = [sessionLoading EXCEPT ![submission[r].image] = FALSE],
                UNCHANGED <<visible, panel, conversation, submission>>
         PROVE  Goal
    <2>1. loading' => visible' /\ activeId' # None /\ MatchesPanel(activeId)'
      <3>1. CASE activeId = r
        <4>1. MatchesPanel(r) => loading' = FALSE
          BY <1>19, <3>1 DEF StopLoading
        <4>2. ~MatchesPanel(r) => loading' = loading
          BY <1>19 DEF StopLoading
        <4> QED
          BY <1>4, <3>1, <4>1, <4>2
      <3>2. CASE activeId # r
        <4>1. activeId' = activeId
          BY <1>19, <3>2 DEF FreeSlot, slotVars
        <4>2. loading' => loading
          BY <1>19 DEF StopLoading
        <4> QED
          BY <1>4, <1>19, <4>1, <4>2 DEF MatchesPanel
      <3> QED
        BY <3>1, <3>2
    <2>2. \A j \in Images : sessionLoading'[j] => sessionLoading[j]
                                                /\ j # submission[r].image
      BY <1>1, <1>19
    <2>3. ASSUME NEW j \in Images, sessionLoading'[j] PROVE j = panel' /\ loading'
      <3>1. j = panel /\ loading /\ panel # submission[r].image
        BY <1>4, <2>2, <2>3
      <3>2. ~MatchesPanel(r)
        BY <3>1 DEF MatchesPanel
      <3> QED
        BY <1>19, <3>1, <3>2 DEF StopLoading
    <2> QED
      BY <2>1, <2>3
  <1>20. queue # <<>> => Head(queue).req \in Requests /\ submission[Head(queue).req] # None
    <2>1. SUFFICES ASSUME queue # <<>>
                   PROVE  Head(queue).req \in Requests /\ submission[Head(queue).req] # None
      OBVIOUS
    <2>2. Head(queue) \in Callback /\ 1 \in 1 .. Len(queue) /\ Head(queue) = queue[1]
      BY <2>1, HeadType DEF TypeOK
    <2> QED
      BY <2>2 DEF Callback, OnlySubmitted
  <1>21. CASE DropResult
    BY <1>19, <1>20, <1>21 DEF DropResult, requestVars
  <1>22. CASE ApplyFinal(None)
    BY <1>19, <1>20, <1>22 DEF ApplyFinal
  <1>23. ASSUME NEW next \in Requests, ApplyFinal(next)
         PROVE  Goal
    BY <1>14, <1>23, NextPassIs DEF NextPass
  <1> QED
    BY <1>6, <1>8, <1>9, <1>11, <1>12, <1>13, <1>15, <1>16, <1>17, <1>18, <1>21,
       <1>22, <1>23
    DEF Next, User, MainLoop, Stream

-----------------------------------------------------------------------------
(* The edits.                                                              *)

\* A request that is pending and belongs to the chat that the panel shows makes
\* edits of the open image wanted.
LEMMA WantedByPanel ==
  ASSUME NEW r \in Requests, submission[r] # None, Pending(r), MatchesPanel(r),
         panel = current
  PROVE  Wanted(current)
  BY DEF Wanted, MatchesPanel

\* A step that adds an edit of an agent to an image is taken by the main loop,
\* while the image waits for it.
LEMMA EditStep ==
  ASSUME TypeOK, OnlySubmitted, SlotIsPending, ShowsOpenImage, LoadingIsOfSlot, Next,
         ~leftBusy, NEW i \in Images, Len(edits'[i]) > Len(edits[i]),
         edits'[i][Len(edits'[i])].req # None
  PROVE  Wanted(i)
  <1>1. /\ edits \in [Images -> Seq(Edit)] /\ current \in Images
        /\ Len(edits[i]) \in Nat /\ queue \in Seq(Callback)
    BY DEF TypeOK
  <1>2. ASSUME edits'[i] = edits[i] PROVE FALSE
    BY <1>1, <1>2
  <1>3. CASE UNCHANGED edits
    BY <1>2, <1>3
  <1>4. CASE EditImage
    <2>1. edits' = [edits EXCEPT ![current] = Append(@, UserEdit)]
      BY <1>4 DEF EditImage
    <2>2. i = current /\ edits'[i] = Append(edits[i], UserEdit)
      BY <1>1, <1>2, <2>1
    <2>3. edits'[i][Len(edits'[i])] = UserEdit
      BY <1>1, <2>2
    <2> QED
      BY <2>3 DEF UserEdit
  <1>5. ASSUME NEW r, NEW from, NEW n, ApplyRange(r, from, n), Wanted(current)
        PROVE  Wanted(i)
    <2>1. i # current => edits'[i] = edits[i]
      BY <1>1, <1>5 DEF ApplyRange
    <2> QED
      BY <1>2, <1>5, <2>1
  <1>6. CASE HandleProgress
    <2>1. /\ ProgressCounts /\ visible
          /\ ApplyRange(Head(queue).req, count, Head(queue).n)
      BY <1>2, <1>6 DEF HandleProgress, imageVars
    <2>2. activeId # None /\ MatchesPanel(activeId) /\ Pending(activeId)
          /\ panel = current
      BY <2>1 DEF ProgressCounts, LoadingIsOfSlot, SlotIsPending, ShowsOpenImage
    <2>3. activeId \in Requests /\ submission[activeId] # None
      BY <2>2, SlotSubmitted
    <2> QED
      BY <1>5, <2>1, <2>2, <2>3, WantedByPanel
  <1>7. ASSUME NEW next \in Requests \cup {None}, ApplyFinal(next)
        PROVE  Wanted(i)
    <2> DEFINE m == Head(queue)
               live == IF activeId = m.req THEN count ELSE 0
    <2>1. queue # <<>> /\ m.kind = "final" /\ ~IsStale(m.req)
          /\ ApplyRange(m.req, live, m.n)
      BY <1>7 DEF ApplyFinal
    <2>2. m \in Callback /\ 1 \in 1 .. Len(queue) /\ m = queue[1]
      BY <1>1, <2>1, HeadType
    <2>3. m.req \in Requests /\ submission[m.req] # None
      BY <2>2 DEF Callback, OnlySubmitted
    <2>4. Result(queue, m.req)
      BY <2>1, <2>2 DEF Result
    <2>5. Pending(m.req)
      BY <2>4, PendingIs
    <2>6. MatchesPanel(m.req) /\ panel = current
      BY <2>1 DEF IsStale, MatchesPanel
    <2> QED
      BY <1>5, <2>1, <2>3, <2>5, <2>6, WantedByPanel
  <1> QED
    BY <1>3, <1>4, <1>6, <1>7
    DEF Next, User, MainLoop, Stream, CancelClicked, NewChat, LeaveDarkroom,
        ChangeImage, EnterDarkroom, Send, DropResult, StreamProgress, StreamResult,
        imageVars

-----------------------------------------------------------------------------
(* The theorems.                                                           *)

LEMMA InvariantStep ==
  ASSUME IInv, [Next]_vars
  PROVE  IInv'
  <1>1. CASE Next
    <2>1. TypeOK /\ OnlySubmitted /\ SlotIsPending /\ ShowsOpenImage /\ LoadingIsOfSlot
      BY DEF IInv
    <2>2. TypeOK'
      BY <1>1, <2>1, TypeStep
    <2> QED
      BY <1>1, <2>1, <2>2, OnlySubmittedStep, SlotStep, ShowsStep, LoadingStep DEF IInv
  <1>2. CASE UNCHANGED vars
    BY <1>2 DEF vars, imageVars, slotVars, requestVars, IInv, TypeOK, OnlySubmitted,
       SlotIsPending, Pending, ShowsOpenImage, LoadingIsOfSlot, MatchesPanel
  <1> QED
    BY <1>1, <1>2

\* The inductive invariant of the chat panel: its sessions, slot, requests and
\* callbacks (the handlers of _agent_chat_* in darkroom.c).
THEOREM InductiveInvariant == Spec => []IInv
  <1> QED
    BY InitIInv, InvariantStep, PTL DEF Spec

\* All variables of the panel keep their types.
THEOREM TypeCorrect == Spec => []TypeOK
  <1>1. IInv => TypeOK
    BY DEF IInv
  <1> QED
    BY <1>1, InductiveInvariant, PTL

\* The slot is held by a request whose result is still to come: whatever is
\* cancelled, left behind or replaced, the slot is freed again
\* (_agent_chat_set_active_request, _agent_chat_clear_active_request).
THEOREM SlotPending == Spec => []SlotIsPending
  <1>1. IInv => SlotIsPending
    BY DEF IInv
  <1> QED
    BY <1>1, InductiveInvariant, PTL

\* A panel that loads waits for the result of a request of the chat that it
\* shows, unless the user left the darkroom while it loaded
\* (_agent_chat_request_finished).
THEOREM LoadingBacked == Spec => []LoadingIsBacked
  <1>1. ASSUME IInv PROVE LoadingIsBacked
    <2>1. TypeOK /\ OnlySubmitted /\ SlotIsPending /\ LoadingIsOfSlot
      BY <1>1 DEF IInv
    <2>2. SUFFICES ASSUME loading, ~leftBusy
                   PROVE  \E r \in Requests : /\ submission[r] # None /\ Pending(r)
                                              /\ MatchesPanel(r)
      BY DEF LoadingIsBacked
    <2>3. activeId # None /\ MatchesPanel(activeId) /\ Pending(activeId)
      BY <2>1, <2>2 DEF LoadingIsOfSlot, SlotIsPending
    <2>4. activeId \in Requests /\ submission[activeId] # None
      BY <2>1, <2>3, SlotSubmitted
    <2> QED
      BY <2>3, <2>4
  <1> QED
    BY <1>1, InductiveInvariant, PTL

\* Nothing of an agent reaches an image for which nobody waits: an image gets an
\* edit of an agent only while a request of the chat that is open for it is still
\* to end, unless the user left the darkroom while the panel loaded
\* (_agent_chat_progress_finished, _agent_chat_request_finished).
THEOREM AgentEditsAreWanted == Spec => EditsAreWanted
  <1> DEFINE Step ==
        \A i \in Images :
          /\ ~leftBusy /\ Len(edits'[i]) > Len(edits[i])
          /\ edits'[i][Len(edits'[i])].req # None
          => Wanted(i)
  <1>1. ASSUME IInv, Next PROVE Step
    BY <1>1, EditStep DEF IInv
  <1>2. IInv /\ [Next]_vars => [Step]_vars
    BY <1>1
  <1> HIDE DEF Step
  <1>3. Spec => [][Step]_vars
    BY <1>2, InductiveInvariant, PTL DEF Spec
  <1> QED
    BY <1>3 DEF EditsAreWanted, Step

=============================================================================
