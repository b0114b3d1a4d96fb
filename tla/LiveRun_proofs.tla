--------------------------- MODULE LiveRun_proofs ---------------------------
(***************************************************************************)
(* The safety of a live run for every number of operations: IInv of        *)
(* LiveRun is inductive, and implies the properties that the runs check;   *)
(* with it every step of LiveRun is one of LiveEdits or changes nothing    *)
(* there.  Each conjunct of IInv has a lemma with one step for each action *)
(* that may disturb it and one for those that leave its variables alone.   *)
(***************************************************************************)
EXTENDS LiveRun, SequenceTheorems, TLAPS

\* A payload that the server or the job thread makes (Progress, Result).
LEMMA PayloadType ==
  ASSUME NEW n \in 0 .. MaxOps, NEW r \in BOOLEAN,
         NEW k \in {"progress", "final", "error", "cancelled", "lost", "closed"}
  PROVE  Progress(n, r) \in Payload /\ Result(k, n) \in Payload
  BY DEF Progress, Result, Payload

\* Zero is a length (the counts start there, the results carry it).
LEMMA ZeroType == 0 \in 0 .. MaxOps /\ 0 \in Length
  BY LiveRunAssumption DEF Length

\* The first callback is taken from the queue (_agent_chat_progress_finished,
\* _agent_chat_request_finished).
LEMMA HeadType ==
  ASSUME TypeOK, queue # <<>>
  PROVE  /\ Head(queue) \in Payload /\ Head(queue).n \in 0 .. MaxOps
         /\ Tail(queue) \in Seq(Payload)
  <1>1. queue \in Seq(Payload)
    BY DEF TypeOK, StreamTypeOK
  <1>2. Head(queue) \in Payload /\ Tail(queue) \in Seq(Payload)
    BY <1>1
  <1> QED
    BY <1>2 DEF Payload

\* The edits of a range, all or up to the one that fails, are edits of the run
\* (_agent_chat_apply_operation_range, dt_agent_execute_response).
LEMMA ExecutedType ==
  ASSUME TypeOK, NEW n \in 0 .. MaxOps, NEW x \in Executed(NewRange(n))
  PROVE  /\ x.edits \in Seq(1 .. MaxOps) /\ x.ok \in BOOLEAN
         /\ Len(x.edits) <= IF n > count THEN n - count ELSE 0
         /\ x.ok => x.edits = NewRange(n)
         /\ ~x.ok => Len(x.edits) < IF n > count THEN n - count ELSE 0
  <1> DEFINE m == IF n > count THEN n - count ELSE 0
  <1>1. count \in 0 .. MaxOps /\ m \in Nat
    BY LiveRunAssumption DEF TypeOK, PanelTypeOK
  <1>2. NewRange(n) = [i \in 1 .. m |-> count + i]
    BY <1>1, LiveRunAssumption DEF NewRange
  <1>3. \A i \in 1 .. m : count + i \in 1 .. MaxOps
    BY <1>1, LiveRunAssumption
  <1>4. NewRange(n) \in Seq(1 .. MaxOps) /\ Len(NewRange(n)) = m
    BY <1>1, <1>2, <1>3
  <1>5. CASE x = [edits |-> NewRange(n), ok |-> TRUE]
    BY <1>1, <1>4, <1>5
  <1>6. CASE \E k \in 0 .. m - 1 :
               x = [edits |-> SubSeq(NewRange(n), 1, k), ok |-> FALSE]
    <2>1. PICK k \in 0 .. m - 1 :
            x = [edits |-> SubSeq(NewRange(n), 1, k), ok |-> FALSE]
      BY <1>6
    <2>2. k \in Nat /\ k < m
      BY <1>1, <2>1
    <2>3. \A i \in 1 .. k : NewRange(n)[i] \in 1 .. MaxOps
      BY <1>1, <1>2, <1>3, <2>2
    <2>4. SubSeq(NewRange(n), 1, k) \in Seq(1 .. MaxOps)
          /\ Len(SubSeq(NewRange(n), 1, k)) = k
      BY <2>2, <2>3, SubSeqProperties
    <2> QED
      BY <1>1, <2>1, <2>2, <2>4
  <1> QED
    BY <1>4, <1>5, <1>6 DEF Executed

\* The initial state satisfies the inductive invariant.
LEMMA InitIInv == Init => IInv
  <1> SUFFICES ASSUME Init PROVE IInv
    OBVIOUS
  <1> USE LiveRunAssumption, ZeroType DEF Init
  <1>1. <<>> \in Seq(Payload) /\ <<>> \in Seq(1 .. MaxOps) /\ Len(<<>>) = 0
    OBVIOUS
  <1>2. TypeOK
    BY <1>1 DEF TypeOK, TurnTypeOK, StreamTypeOK, PanelTypeOK, PipeTypeOK,
       Worker, contextVars
  <1>3. TurnOrder /\ EventsAreIssued /\ ImageIsBounded
    BY <1>1 DEF TurnOrder, EventsAreIssued, PollIsIssued, StreamIsIssued,
       QueueIsIssued, ImageIsBounded, RequestIsOver
  <1>4. EditsAreIssued
    BY <1>1 DEF EditsAreIssued, RequestIsOver
  <1>5. OneRenderPerStep /\ PipeIsOfStep
    BY <1>1 DEF OneRenderPerStep, PipeIsOfStep, CaughtUp, Answered
  <1> QED
    BY <1>2, <1>3, <1>4, <1>5 DEF IInv

\* The steps by the part of the system that takes them: the turn with the
\* endpoints that reach its context, the event generator, the job thread (Job),
\* the main loop of darktable, and its pipes with the renders they post.
TurnStep == Codex \/ Plan \/ CancelArrives \/ \E p \in posts : Render(p)
StreamStep == Poll \/ CloseStream
LoopStep == MainLoop \/ CancelRun
PipeStep == \/ PreviewStart \/ PreviewFinish \/ FullFinish
            \/ \E p \in posts : LoseRender(p)

LEMMA StepKinds ==
  [Next]_vars => TurnStep \/ StreamStep \/ Job \/ LoopStep \/ PipeStep
                 \/ UNCHANGED vars
  BY DEF Next, TurnStep, StreamStep, LoopStep, PipeStep, RunOver

\* What the turn leaves alone.
LEMMA TurnFrame ==
  ASSUME TurnStep
  PROVE  UNCHANGED <<streamVars, queue, listening, image, count, request,
                     failed, armed, pipeVars>>
  <1> USE DEF panelVars
  <1>1. CASE Codex \/ CancelArrives
    BY <1>1 DEF Codex, StartBatch, FinishTurn, FailTurn, CancelArrives
  <1>2. CASE Plan
    BY <1>2 DEF Plan, CheckCancel, ReadNothing, AppendOperation,
       RequireRender, ClearEvent, WipeRender, EndWait, TakeRender
  <1>3. CASE \E p \in posts : Render(p)
    BY <1>3 DEF Render, StoreRender, SetEvent
  <1> QED
    BY <1>1, <1>2, <1>3 DEF TurnStep

\* What the event generator leaves alone.
LEMMA StreamFrame ==
  ASSUME StreamStep
  PROVE  UNCHANGED <<serverVars, queue, listening, panelVars, armed, posts,
                     pipeVars>>
  BY DEF StreamStep, Poll, PollOperations, PollFlag, CloseStream

\* What the job thread leaves alone.
LEMMA JobFrame ==
  ASSUME Job
  PROVE  UNCHANGED <<serverVars, poll, sent, panelVars, armed, posts, pipeVars>>
  BY DEF Job, Receive, StopListening, streamVars

\* What the main loop leaves alone.
LEMMA LoopFrame ==
  ASSUME LoopStep
  PROVE  UNCHANGED <<serverVars, streamVars, listening, posts, rendering, shown>>
  <1>1. CASE ApplyProgress \/ ApplyFinal
    BY <1>1 DEF ApplyProgress, ApplyFinal, Edited, pipeVars
  <1>2. CASE SkipProgress \/ EndWithoutPlan \/ CancelRun
    BY <1>2 DEF SkipProgress, EndWithoutPlan, CancelRun, pipeVars
  <1> QED
    BY <1>1, <1>2 DEF LoopStep, MainLoop

\* What the pipes leave alone.
LEMMA PipeFrame ==
  ASSUME PipeStep
  PROVE  UNCHANGED <<serverVars, streamVars, queue, listening, panelVars>>
  BY DEF PipeStep, PreviewStart, PreviewFinish, FullFinish, LoseRender

\* Every step keeps the types of the turn.
LEMMA TurnTypeStep ==
  ASSUME TypeOK, TurnOrder, [Next]_vars
  PROVE  TurnTypeOK'
  <1> USE DEF TypeOK, TurnTypeOK
  <1>1. CASE CheckCancel
    BY <1>1 DEF CheckCancel, contextVars, Worker
  <1>2. CASE ReadNothing \/ FailTurn
    BY <1>2 DEF ReadNothing, FailTurn, contextVars, Worker
  <1>3. CASE RequireRender \/ ClearEvent
    BY <1>3 DEF RequireRender, ClearEvent, Worker
  <1>4. CASE WipeRender \/ EndWait
    BY <1>4 DEF WipeRender, EndWait, Worker
  <1>5. CASE StartBatch
    BY <1>5, LiveRunAssumption DEF StartBatch, contextVars, Worker
  <1>6. CASE AppendOperation
    BY <1>6, LiveRunAssumption DEF AppendOperation, TurnOrder, Worker
  <1>7. CASE TakeRender
    <2>1. preview' \in [shows : Length, label : 0 .. MaxOps]
      BY <1>7 DEF TakeRender
    <2>2. missed' \in BOOLEAN
      BY <1>7 DEF TakeRender
    <2>3. UNCHANGED <<batch, applied, requires, event, plan, cancelSeen>>
          /\ bytes' = None /\ worker' \in {"apply", "model"}
      BY <1>7 DEF TakeRender
    <2> QED
      BY <2>1, <2>2, <2>3 DEF Worker
  <1>8. CASE FinishTurn
    BY <1>8 DEF FinishTurn, FinalPlan, contextVars, Worker
  <1>9. CASE CancelArrives
    BY <1>9 DEF CancelArrives, TurnRuns, contextVars
  <1>10. ASSUME NEW p \in posts, StoreRender(p) PROVE TurnTypeOK'
    BY <1>10 DEF StoreRender, PipeTypeOK
  <1>11. ASSUME NEW p \in posts, SetEvent(p) PROVE TurnTypeOK'
    BY <1>11 DEF SetEvent
  <1>12. CASE UNCHANGED serverVars
    BY <1>12 DEF serverVars, contextVars
  <1> QED
    BY <1>1, <1>2, <1>3, <1>4, <1>5, <1>6, <1>7, <1>8, <1>9, <1>10, <1>11,
       <1>12, StepKinds, StreamFrame, JobFrame, LoopFrame, PipeFrame
    DEF TurnStep, Plan, Codex, Render, vars

\* Every step keeps the types of the stream and the queue.
LEMMA StreamTypeStep ==
  ASSUME TypeOK, TurnOrder, [Next]_vars
  PROVE  StreamTypeOK'
  <1> USE DEF TypeOK, StreamTypeOK
  <1>1. CASE PollOperations
    BY <1>1, LiveRunAssumption DEF PollOperations, TurnTypeOK
  <1>2. CASE PollFlag
    <2>1. Progress(poll, requires) \in Payload
      BY <1>2, PayloadType DEF PollFlag, TurnTypeOK
    <2>2. stream' \in Seq(Payload) /\ sent' \in Payload
      BY <1>2, <2>1 DEF PollFlag
    <2> QED
      BY <1>2, <2>2 DEF PollFlag
  <1>3. CASE CloseStream
    <2>1. Result("error", 0) \in Payload /\ Result("closed", 0) \in Payload
      BY PayloadType, ZeroType
    <2>2. Progress(IF sent = None THEN 0 ELSE sent.n, FALSE) \in Payload
      <3>1. sent # None => sent.n \in 0 .. MaxOps
        BY DEF Payload
      <3> QED
        BY <3>1, PayloadType, ZeroType
    <2>3. worker # "failed" => Result("final", plan) \in Payload
      BY <1>3, PayloadType DEF CloseStream, TurnRuns, TurnOrder, TurnTypeOK
    <2>4. stream' \in Seq(Payload)
      <3>1. CASE worker = "failed"
        <4>1. stream' = stream \o <<Result("error", 0)>>
          BY <1>3, <3>1 DEF CloseStream
        <4> QED
          BY <2>1, <4>1
      <3>2. CASE worker # "failed"
        <4> DEFINE p == Progress(IF sent = None THEN 0 ELSE sent.n, FALSE)
                   q == Result("final", plan)
        <4>1. stream' = stream \o <<p, q>>
          BY <1>3, <3>2 DEF CloseStream
        <4>2. p \in Payload /\ q \in Payload
          BY <2>2, <2>3, <3>2
        <4> HIDE DEF p, q
        <4> QED
          BY <4>1, <4>2
      <3> QED
        BY <3>1, <3>2
    <2> QED
      BY <1>3, <2>1, <2>4 DEF CloseStream
  <1>4. CASE Receive
    <2>1. Head(stream) \in Payload /\ Tail(stream) \in Seq(Payload)
      BY <1>4 DEF Receive
    <2> QED
      BY <1>4, <2>1 DEF Receive
  <1>5. CASE StopListening
    <2>1. Result(IF request = "canceling" THEN "cancelled" ELSE "lost", 0)
            \in Payload
      BY PayloadType, ZeroType
    <2>2. queue' \in Seq(Payload) /\ listening' = FALSE
      BY <1>5, <2>1 DEF StopListening
    <2> QED
      BY <1>5, <2>2 DEF StopListening, streamVars
  <1>6. CASE LoopStep
    <2>1. queue' = queue \/ (queue # <<>> /\ queue' = Tail(queue))
      BY <1>6 DEF LoopStep, MainLoop, ApplyProgress, SkipProgress, ApplyFinal,
         EndWithoutPlan, CancelRun, HeadIs
    <2>2. queue' \in Seq(Payload)
      BY <2>1, HeadType
    <2> QED
      BY <1>6, <2>2, LoopFrame DEF streamVars
  <1>7. CASE UNCHANGED <<streamVars, queue, listening>>
    BY <1>7 DEF streamVars
  <1> QED
    BY <1>1, <1>2, <1>3, <1>4, <1>5, <1>6, <1>7, StepKinds, TurnFrame, PipeFrame
    DEF StreamStep, Poll, Job, vars

\* An execution of a part of the list, whether one of the edits fails or not.
LEMMA EditedType ==
  ASSUME TypeOK, NEW n \in 0 .. MaxOps, NEW x \in Executed(NewRange(n)),
         Edited(image \o x.edits)
  PROVE  /\ image' \in Seq(1 .. MaxOps)
         /\ full' \in BOOLEAN /\ status' \in {"dirty", "running", "valid"}
  <1>1. image \o x.edits \in Seq(1 .. MaxOps)
    BY ExecutedType DEF TypeOK, PanelTypeOK
  <1> QED
    BY <1>1 DEF Edited, TypeOK, PipeTypeOK

\* Every step keeps the types of the panel's state.
LEMMA PanelTypeStep ==
  ASSUME TypeOK, [Next]_vars
  PROVE  PanelTypeOK'
  <1> USE DEF TypeOK, PanelTypeOK
  <1>1. CASE ApplyProgress
    <2>1. /\ Head(queue) \in Payload /\ Head(queue).n \in 0 .. MaxOps
      BY <1>1, HeadType DEF ApplyProgress, HeadIs
    <2>2. PICK x \in Executed(NewRange(Head(queue).n)) :
            /\ Edited(image \o x.edits)
            /\ IF x.ok
               THEN /\ count' = Head(queue).n
                    /\ armed' = (armed \/ Head(queue).requires)
                    /\ UNCHANGED <<request, failed, cancel>>
               ELSE /\ failed' = TRUE
                    /\ request' = "canceling" /\ cancel' = "sent"
                    /\ UNCHANGED <<count, armed>>
      BY <1>1 DEF ApplyProgress
    <2>3. image' \in Seq(1 .. MaxOps)
      BY <2>1, <2>2, EditedType
    <2>4. CASE x.ok
      BY <2>1, <2>2, <2>3, <2>4
    <2>5. CASE ~x.ok
      BY <2>2, <2>3, <2>5
    <2> QED
      BY <2>4, <2>5
  <1>2. CASE ApplyFinal
    <2>1. Head(queue).n \in 0 .. MaxOps
      BY <1>2, HeadType DEF ApplyFinal, HeadIs
    <2>2. /\ image' \in Seq(1 .. MaxOps) /\ failed' \in BOOLEAN
          /\ request' \in {"applied", "ended"}
      BY <1>2, <2>1, EditedType DEF ApplyFinal, FinalRange
    <2> QED
      BY <1>2, <2>2, ZeroType DEF ApplyFinal
  <1>3. CASE EndWithoutPlan
    BY <1>3, ZeroType DEF EndWithoutPlan
  <1>4. CASE CancelRun
    BY <1>4 DEF CancelRun
  <1>5. CASE FullFinish
    BY <1>5 DEF FullFinish, panelVars
  <1>6. CASE TurnStep
    <2>1. cancel' \in {cancel, "done"}
      <3>1. CASE Codex \/ CancelArrives
        BY <3>1 DEF Codex, StartBatch, FinishTurn, FailTurn, CancelArrives,
           panelVars
      <3>2. CASE Plan
        BY <3>2 DEF Plan, CheckCancel, ReadNothing, AppendOperation,
           RequireRender, ClearEvent, WipeRender, EndWait, TakeRender, panelVars
      <3>3. CASE \E p \in posts : Render(p)
        BY <3>3 DEF Render, StoreRender, SetEvent, panelVars
      <3> QED
        BY <1>6, <3>1, <3>2, <3>3 DEF TurnStep
    <2> QED
      BY <1>6, <2>1, TurnFrame
  <1>7. CASE UNCHANGED <<panelVars, armed>>
    BY <1>7 DEF panelVars
  <1>8. CASE SkipProgress
    BY <1>8 DEF SkipProgress, panelVars
  <1>9. PipeStep /\ ~FullFinish => UNCHANGED <<panelVars, armed>>
    BY DEF PipeStep, PreviewStart, PreviewFinish, LoseRender
  <1> QED
    BY <1>1, <1>2, <1>3, <1>4, <1>5, <1>6, <1>7, <1>8, <1>9, StepKinds,
       StreamFrame, JobFrame
    DEF LoopStep, MainLoop, vars

\* Every step keeps the types of the pipes and the posts.
LEMMA PipeTypeStep ==
  ASSUME TypeOK, ImageIsBounded, [Next]_vars
  PROVE  PipeTypeOK'
  <1> USE DEF TypeOK, PipeTypeOK
  <1>1. ASSUME NEW p \in posts, StoreRender(p) \/ SetEvent(p) \/ LoseRender(p)
        PROVE  PipeTypeOK'
    <2>1. [p EXCEPT !.stored = TRUE]
            \in [for : 0 .. MaxOps, shows : Length, stored : BOOLEAN]
      OBVIOUS
    <2>2. posts' \subseteq posts \cup {[p EXCEPT !.stored = TRUE]}
      BY <1>1 DEF StoreRender, SetEvent, LoseRender
    <2>3. UNCHANGED pipeVars
      BY <1>1 DEF StoreRender, SetEvent, LoseRender
    <2> QED
      BY <2>1, <2>2, <2>3 DEF pipeVars
  <1>2. CASE ApplyProgress
    <2>1. Head(queue).n \in 0 .. MaxOps
      BY <1>2, HeadType DEF ApplyProgress, HeadIs
    <2>2. full' \in BOOLEAN /\ status' \in {"dirty", "running", "valid"}
      BY <1>2, <2>1, EditedType DEF ApplyProgress
    <2> QED
      BY <1>2, <2>2, LoopFrame DEF LoopStep, MainLoop
  <1>3. CASE ApplyFinal
    <2>1. Head(queue).n \in 0 .. MaxOps
      BY <1>3, HeadType DEF ApplyFinal, HeadIs
    <2>2. full' \in BOOLEAN /\ status' \in {"dirty", "running", "valid"}
      BY <1>3, <2>1, EditedType DEF ApplyFinal, FinalRange, pipeVars
    <2> QED
      BY <1>3, <2>2, LoopFrame DEF LoopStep, MainLoop
  <1>4. CASE PreviewStart
    <2>1. Len(image) \in Length
      BY LiveRunAssumption DEF ImageIsBounded, Length, PanelTypeOK
    <2> QED
      BY <1>4, <2>1 DEF PreviewStart
  <1>5. CASE PreviewFinish
    BY <1>5 DEF PreviewFinish
  <1>6. CASE FullFinish
    <2>1. posts' \subseteq posts
                           \cup {[for |-> count, shows |-> shown, stored |-> FALSE]}
      BY <1>6 DEF FullFinish
    <2>2. [for |-> count, shows |-> shown, stored |-> FALSE]
            \in [for : 0 .. MaxOps, shows : Length, stored : BOOLEAN]
      BY DEF PanelTypeOK
    <2>3. full' = FALSE /\ UNCHANGED <<status, rendering, shown>>
      BY <1>6 DEF FullFinish
    <2> QED
      BY <2>1, <2>2, <2>3
  <1>7. CASE UNCHANGED <<posts, pipeVars>>
    BY <1>7 DEF pipeVars
  <1>8. Codex \/ Plan \/ CancelArrives => UNCHANGED <<posts, pipeVars>>
    <2>1. Codex \/ CancelArrives => UNCHANGED <<posts, pipeVars>>
      BY DEF Codex, StartBatch, FinishTurn, FailTurn, CancelArrives
    <2>2. Plan => UNCHANGED <<posts, pipeVars>>
      BY DEF Plan, CheckCancel, ReadNothing, AppendOperation, RequireRender,
         ClearEvent, WipeRender, EndWait, TakeRender
    <2> QED
      BY <2>1, <2>2
  <1>9. SkipProgress \/ EndWithoutPlan \/ CancelRun
        => UNCHANGED <<posts, pipeVars>>
    BY DEF SkipProgress, EndWithoutPlan, CancelRun
  <1> QED
    BY <1>1, <1>2, <1>3, <1>4, <1>5, <1>6, <1>7, <1>8, <1>9, StepKinds,
       StreamFrame, JobFrame
    DEF TurnStep, Render, LoopStep, MainLoop, PipeStep, vars

LEMMA TypeStep ==
  ASSUME TypeOK, TurnOrder, ImageIsBounded, [Next]_vars
  PROVE  TypeOK'
  BY TurnTypeStep, StreamTypeStep, PanelTypeStep, PipeTypeStep DEF TypeOK

\* A batch of the operations that are left (StartBatch).
LEMMA BatchFits ==
  ASSUME NEW max \in Nat, NEW n \in 0 .. max, NEW b \in 1 .. max - n
  PROVE  b > 0 /\ n + b <= max
  OBVIOUS

\* A tool call stays within its bound, and the plan is that of the turn.
LEMMA TurnOrderStep ==
  ASSUME TypeOK, TurnOrder, [Next]_vars
  PROVE  TurnOrder'
  <1> USE DEF TypeOK, TurnTypeOK, TurnOrder
  <1>1. CASE CheckCancel \/ ReadNothing \/ FailTurn
    BY <1>1 DEF CheckCancel, ReadNothing, FailTurn, contextVars
  <1>2. CASE RequireRender \/ ClearEvent \/ WipeRender \/ EndWait
    BY <1>2 DEF RequireRender, ClearEvent, WipeRender, EndWait
  <1>3. CASE StartBatch
    <2>1. batch' \in 1 .. MaxOps - applied
      BY <1>3 DEF StartBatch
    <2>2. applied + batch' <= MaxOps /\ batch' > 0
      BY <2>1, BatchFits, LiveRunAssumption
    <2> QED
      BY <1>3, <2>2 DEF StartBatch, contextVars
  <1>4. CASE AppendOperation
    BY <1>4, LiveRunAssumption DEF AppendOperation
  <1>5. CASE TakeRender
    BY <1>5, LiveRunAssumption DEF TakeRender
  <1>6. CASE FinishTurn
    BY <1>6, LiveRunAssumption DEF FinishTurn, FinalPlan, contextVars
  <1>7. CASE CancelArrives
    BY <1>7 DEF CancelArrives, contextVars
  <1>8. ASSUME NEW p \in posts, Render(p) PROVE TurnOrder'
    BY <1>8 DEF Render, StoreRender, SetEvent
  <1>9. CASE UNCHANGED serverVars
    BY <1>9 DEF serverVars, contextVars
  <1> QED
    BY <1>1, <1>2, <1>3, <1>4, <1>5, <1>6, <1>7, <1>8, <1>9, StepKinds,
       StreamFrame, JobFrame, LoopFrame, PipeFrame
    DEF TurnStep, Plan, Codex, vars

\* The list only grows, and the plan is made once.
LEMMA TurnGrows ==
  ASSUME TypeOK, TurnOrder, TurnStep
  PROVE  /\ applied' \in Nat /\ applied <= applied'
         /\ plan' = plan \/ plan = None
  <1> USE DEF TypeOK, TurnTypeOK
  <1>1. CASE AppendOperation
    BY <1>1 DEF AppendOperation
  <1>2. CASE FinishTurn
    BY <1>2 DEF FinishTurn, TurnOrder, contextVars
  <1>3. CASE ~(AppendOperation \/ FinishTurn)
    BY <1>3 DEF TurnStep, Codex, StartBatch, FailTurn, Plan, CheckCancel,
       ReadNothing, RequireRender, ClearEvent, WipeRender, EndWait, TakeRender,
       CancelArrives, Render, StoreRender, SetEvent, contextVars
  <1> QED
    BY <1>1, <1>2, <1>3

\* Whatever an event brings stays issued when the list grows or the plan comes.
LEMMA CarriesMore ==
  ASSUME NEW p \in Payload, NEW ops \in Nat, NEW more \in Nat, ops <= more,
         NEW old \in Nat \cup {None}, NEW new, new = old \/ old = None,
         Carries(p, ops, old)
  PROVE  Carries(p, more, new)
  BY LiveRunAssumption DEF Carries, Payload

\* A sequence with one more event, and one without its head.
LEMMA AppendAll ==
  ASSUME NEW s \in Seq(Payload), NEW p \in Payload
  PROVE  /\ Len(Append(s, p)) = Len(s) + 1
         /\ \A i \in 1 .. Len(s) : Append(s, p)[i] = s[i]
         /\ Append(s, p)[Len(s) + 1] = p
  OBVIOUS

LEMMA TailAll ==
  ASSUME NEW s \in Seq(Payload), s # <<>>
  PROVE  /\ Len(s) > 0 /\ Head(s) = s[1]
         /\ Len(Tail(s)) = Len(s) - 1
         /\ \A i \in 1 .. Len(s) - 1 : Tail(s)[i] = s[i + 1]
  BY HeadTailProperties

\* A poll reads what was applied, and what it sends was read by a poll.
LEMMA PollIssuedStep ==
  ASSUME TypeOK, TurnOrder, PollIsIssued, [Next]_vars
  PROVE  PollIsIssued'
  <1>0. /\ applied \in Nat /\ poll \in Nat \cup {None}
        /\ sent # None => sent.n \in Nat
    BY DEF TypeOK, TurnTypeOK, StreamTypeOK, Payload
  <1>1. CASE TurnStep
    <2>1. UNCHANGED <<poll, sent>> /\ applied' \in Nat /\ applied <= applied'
      BY <1>1, TurnFrame, TurnGrows DEF streamVars
    <2> QED
      BY <1>0, <2>1, LiveRunAssumption DEF PollIsIssued
  <1>2. CASE PollOperations
    <2>1. UNCHANGED <<sent, applied>> /\ poll' \in {0, applied}
      BY <1>2 DEF PollOperations, serverVars, contextVars
    <2> QED
      BY <1>0, <2>1 DEF PollIsIssued
  <1>3. CASE PollFlag
    <2>1. /\ poll # None /\ poll' = None /\ applied' = applied
          /\ sent' = Progress(poll, requires)
      BY <1>3 DEF PollFlag, serverVars, contextVars
    <2> QED
      BY <2>1 DEF PollIsIssued, Progress
  <1>4. CASE CloseStream
    BY <1>4 DEF CloseStream, PollIsIssued, serverVars, contextVars
  <1>5. CASE UNCHANGED <<serverVars, poll, sent>>
    BY <1>5 DEF PollIsIssued, serverVars, contextVars
  <1> QED
    BY <1>1, <1>2, <1>3, <1>4, <1>5, StepKinds, JobFrame, LoopFrame, PipeFrame
    DEF StreamStep, Poll, vars, streamVars

\* The event generator streams what its polls read, and the plan at the end.
LEMMA StreamIssuedStep ==
  ASSUME TypeOK, TurnOrder, PollIsIssued, StreamIsIssued, [Next]_vars
  PROVE  StreamIsIssued'
  <1>0. /\ applied \in Nat /\ plan \in Nat \cup {None}
        /\ stream \in Seq(Payload) /\ Len(stream) \in Nat
        /\ \A i \in 1 .. Len(stream) : stream[i] \in Payload
    BY DEF TypeOK, TurnTypeOK, StreamTypeOK
  <1> DEFINE Issued(p) == /\ p.kind \in {"progress", "final", "error"}
                          /\ Carries(p, applied, plan)
  <1>1. CASE TurnStep
    <2>1. stream' = stream
      BY <1>1, TurnFrame DEF streamVars
    <2>2. /\ applied' \in Nat /\ applied <= applied'
          /\ plan' = plan \/ plan = None
      BY <1>1, TurnGrows
    <2>3. \A i \in 1 .. Len(stream) : Carries(stream[i], applied', plan')
      BY <1>0, <2>2, CarriesMore DEF StreamIsIssued
    <2> QED
      BY <2>1, <2>3 DEF StreamIsIssued
  <1>2. SUFFICES ASSUME ~TurnStep, UNCHANGED <<applied, plan>>
                 PROVE  \A i \in 1 .. Len(stream') : Issued(stream'[i])
    BY <1>1, StepKinds, StreamFrame, JobFrame, LoopFrame, PipeFrame
    DEF StreamIsIssued, vars, serverVars, contextVars
  <1>3. \A i \in 1 .. Len(stream) : Issued(stream[i])
    BY DEF StreamIsIssued
  <1>4. ASSUME NEW s \in Seq(Payload), NEW p \in Payload,
               \A i \in 1 .. Len(s) : Issued(s[i]), Issued(p)
        PROVE  \A i \in 1 .. Len(Append(s, p)) : Issued(Append(s, p)[i])
    <2> HIDE DEF Issued
    <2>1. Len(s) \in Nat
      OBVIOUS
    <2> QED
      BY <1>4, <2>1, AppendAll
  <1>5. CASE PollFlag
    <2> DEFINE p == Progress(poll, requires)
    <2>1. p \in Payload /\ Issued(p)
      BY <1>5, PayloadType DEF PollFlag, Progress, Carries, TypeOK, TurnTypeOK,
         StreamTypeOK, PollIsIssued
    <2>2. stream' = stream \/ stream' = Append(stream, p)
      BY <1>5 DEF PollFlag
    <2> HIDE DEF p, Issued
    <2> QED
      BY <1>0, <1>3, <1>4, <2>1, <2>2
  <1>6. CASE CloseStream
    <2> DEFINE p == Progress(IF sent = None THEN 0 ELSE sent.n, FALSE)
               q == Result("final", plan)
               e == Result("error", 0)
    <2>1. CASE worker = "failed"
      <3>1. e \in Payload /\ Issued(e)
        BY PayloadType, ZeroType DEF Result, Carries
      <3>2. stream' = stream \o <<e>>
        BY <1>6, <2>1 DEF CloseStream
      <3> HIDE DEF e, Issued
      <3>3. stream' = Append(stream, e)
        BY <1>0, <3>1, <3>2
      <3> QED
        BY <1>0, <1>3, <1>4, <3>1, <3>3
    <2>2. CASE worker # "failed"
      <3>1. plan \in 0 .. MaxOps
        BY <1>6, <2>2 DEF CloseStream, TurnRuns, TurnOrder, TypeOK, TurnTypeOK
      <3>2. q \in Payload /\ Issued(q)
        BY <3>1, PayloadType DEF Result, Carries
      <3>3. (IF sent = None THEN 0 ELSE sent.n) \in 0 .. MaxOps
        BY ZeroType DEF TypeOK, StreamTypeOK, Payload
      <3>4. (IF sent = None THEN 0 ELSE sent.n) <= applied
        BY <1>0, <1>6 DEF CloseStream, PollIsIssued
      <3>5. p \in Payload /\ Issued(p)
        BY <3>3, <3>4, PayloadType DEF Progress, Carries
      <3>6. stream' = stream \o <<p, q>>
        BY <1>6, <2>2 DEF CloseStream
      <3> HIDE DEF p, q, Issued
      <3>7. /\ stream' = Append(Append(stream, p), q)
            /\ Append(stream, p) \in Seq(Payload)
        BY <1>0, <3>2, <3>5, <3>6
      <3>8. \A i \in 1 .. Len(Append(stream, p)) : Issued(Append(stream, p)[i])
        BY <1>0, <1>3, <1>4, <3>5
      <3> QED
        BY <1>4, <3>2, <3>7, <3>8
    <2> QED
      BY <2>1, <2>2
  <1>7. CASE Receive
    <2>1. stream # <<>> /\ stream' = Tail(stream)
      BY <1>7 DEF Receive
    <2> HIDE DEF Issued
    <2> QED
      BY <1>0, <1>3, <2>1, TailAll
  <1>8. CASE UNCHANGED stream
    BY <1>3, <1>8
  <1> QED
    BY <1>2, <1>5, <1>6, <1>7, <1>8, StepKinds, LoopFrame, PipeFrame
    DEF StreamStep, Poll, PollOperations, Job, StopListening, vars, streamVars

\* Callbacks are queued in the order of the stream; the event that ends the run
\* is queued last, and the main loop empties the queue with it.
LEMMA QueueIssuedStep ==
  ASSUME TypeOK, TurnOrder, StreamIsIssued, QueueIsIssued, [Next]_vars
  PROVE  QueueIsIssued'
  <1>0. /\ applied \in Nat /\ plan \in Nat \cup {None}
        /\ stream \in Seq(Payload)
        /\ queue \in Seq(Payload) /\ Len(queue) \in Nat
        /\ \A i \in 1 .. Len(queue) : queue[i] \in Payload
    BY DEF TypeOK, TurnTypeOK, StreamTypeOK
  <1> DEFINE Issued(p) == Carries(p, applied, plan) /\ p.kind # "closed"
  <1>1. /\ \A i \in 1 .. Len(queue) : Issued(queue[i])
        /\ \A i \in 1 .. Len(queue) :
             queue[i].kind # "progress" => i = Len(queue) /\ ~listening
        /\ RequestIsOver => queue = <<>> /\ ~listening
    BY DEF QueueIsIssued
  <1>2. CASE TurnStep
    <2>1. UNCHANGED <<queue, listening, request>>
      BY <1>2, TurnFrame
    <2>2. /\ applied' \in Nat /\ applied <= applied'
          /\ plan' = plan \/ plan = None
      BY <1>2, TurnGrows
    <2>3. \A i \in 1 .. Len(queue) : Carries(queue[i], applied', plan')
      BY <1>0, <1>1, <2>2, CarriesMore
    <2> QED
      BY <1>1, <2>1, <2>3 DEF QueueIsIssued, RequestIsOver
  <1>3. SUFFICES
          ASSUME ~TurnStep, UNCHANGED <<applied, plan>>
          PROVE  /\ \A i \in 1 .. Len(queue') : Issued(queue'[i])
                 /\ \A i \in 1 .. Len(queue') :
                      queue'[i].kind # "progress"
                      => i = Len(queue') /\ ~listening'
                 /\ RequestIsOver' => queue' = <<>> /\ ~listening'
    BY <1>2, StepKinds, StreamFrame, JobFrame, LoopFrame, PipeFrame
    DEF QueueIsIssued, vars, serverVars, contextVars
  <1> HIDE DEF Issued
  <1>4. CASE Job
    <2>1. PICK p \in Payload : /\ queue' = Append(queue, p) /\ Issued(p)
                               /\ listening
                               /\ p.kind # "progress" => ~listening'
      <3>1. CASE Receive
        <4>1. Head(stream) \in Payload /\ Issued(Head(stream))
          BY <1>0, <3>1, TailAll DEF Receive, StreamIsIssued, Issued
        <4> QED
          BY <3>1, <4>1 DEF Receive
      <3>2. CASE StopListening
        <4> DEFINE p == Result(IF request = "canceling" THEN "cancelled"
                                                        ELSE "lost", 0)
        <4>1. p \in Payload /\ Issued(p)
          BY PayloadType, ZeroType DEF Result, Issued, Carries
        <4>2. listening /\ ~listening' /\ queue' = Append(queue, p)
          BY <3>2 DEF StopListening
        <4> QED
          BY <4>1, <4>2
      <3> QED
        BY <1>4, <3>1, <3>2 DEF Job
    <2>2. ~RequestIsOver'
      BY <1>1, <1>4, <2>1, JobFrame DEF RequestIsOver, panelVars
    <2>3. \A i \in 1 .. Len(queue) : queue[i].kind = "progress"
      BY <1>1, <2>1
    <2> QED
      BY <1>0, <1>1, <2>1, <2>2, <2>3, AppendAll
  <1>5. CASE MainLoop
    <2>1. queue # <<>> /\ queue' = Tail(queue) /\ UNCHANGED listening
      BY <1>5, LoopFrame DEF LoopStep, MainLoop, ApplyProgress, SkipProgress,
         ApplyFinal, EndWithoutPlan, HeadIs
    <2>2. \A i \in 1 .. Len(queue') : Issued(queue'[i])
      BY <1>0, <1>1, <2>1, TailAll
    <2>3. \A i \in 1 .. Len(queue') :
            queue'[i].kind # "progress" => i = Len(queue') /\ ~listening'
      BY <1>0, <1>1, <2>1, TailAll
    <2>4. CASE Head(queue).kind = "progress"
      <3>1. ApplyProgress \/ SkipProgress
        BY <1>5, <2>4 DEF MainLoop, ApplyFinal, EndWithoutPlan, HeadIs
      <3>2. ~RequestIsOver'
        BY <1>1, <2>1, <3>1 DEF ApplyProgress, SkipProgress, RequestIsOver,
           panelVars
      <3> QED
        BY <2>2, <2>3, <3>2
    <2>5. CASE Head(queue).kind # "progress"
      <3>0. 1 \in 1 .. Len(queue) /\ queue[1].kind # "progress"
        BY <1>0, <2>1, <2>5, TailAll
      <3>1. Len(queue) = 1 /\ ~listening
        BY <1>1, <3>0
      <3>2. Tail(queue) \in Seq(Payload) /\ Len(Tail(queue)) = 0
        BY <1>0, <2>1, <3>1, TailAll
      <3>3. queue' = <<>>
        BY <2>1, <3>2, EmptySeq
      <3> QED
        BY <2>1, <2>2, <2>3, <3>1, <3>3
    <2> QED
      BY <2>4, <2>5
  <1>6. CASE UNCHANGED <<queue, listening, request>>
    BY <1>1, <1>6 DEF RequestIsOver
  <1>7. CASE CancelRun
    BY <1>1, <1>7 DEF CancelRun, RequestIsOver
  <1> QED
    BY <1>3, <1>4, <1>5, <1>6, <1>7, StepKinds, StreamFrame, PipeFrame
    DEF LoopStep, vars, panelVars

\* What is on its way was issued.
LEMMA EventsStep ==
  ASSUME TypeOK, TurnOrder, EventsAreIssued, [Next]_vars
  PROVE  EventsAreIssued'
  BY PollIssuedStep, StreamIssuedStep, QueueIssuedStep DEF EventsAreIssued

\* The list is a prefix of the run, and so is the list with the edits that
\* follow (_agent_chat_apply_operation_range).
LEMMA NextEdits ==
  ASSUME TypeOK, NEW n \in 0 .. MaxOps, count <= n, count = Len(image),
         image = [i \in 1 .. Len(image) |-> i]
  PROVE  /\ image \o NewRange(n) = [i \in 1 .. n |-> i]
         /\ Len(image \o NewRange(n)) = n
  <1>1. image \in Seq(1 .. MaxOps) /\ count \in Nat /\ n \in Nat
    BY DEF TypeOK, PanelTypeOK
  <1>2. n - count \in Nat
    BY <1>1
  <1>3. /\ NewRange(n) \in Seq(Nat) /\ Len(NewRange(n)) = n - count
        /\ \A i \in 1 .. n - count : NewRange(n)[i] = count + i
    BY <1>1, <1>2 DEF NewRange
  <1>4. image \in Seq(Nat)
    BY <1>1
  <1> DEFINE s == image \o NewRange(n)
             t == [i \in 1 .. n |-> i]
  <1>5. s \in Seq(Nat) /\ Len(s) = n
    BY <1>1, <1>3, <1>4, ConcatProperties
  <1>6. t \in Seq(Nat) /\ Len(t) = n
    BY <1>1
  <1>7. \A i \in 1 .. n : s[i] = IF i <= Len(image) THEN image[i]
                                 ELSE NewRange(n)[i - Len(image)]
    BY <1>1, <1>3, <1>4, <1>5, ConcatProperties
  <1>8. ASSUME NEW i \in 1 .. n PROVE s[i] = t[i]
    <2>1. CASE i <= Len(image)
      BY <1>1, <1>7, <2>1
    <2>2. CASE i > Len(image)
      BY <1>1, <1>3, <1>7, <2>2
    <2>3. i <= count \/ i > count
      BY <1>1
    <2> QED
      BY <2>1, <2>2, <2>3
  <1> QED
    BY <1>5, <1>6, <1>8, SeqEqual

\* The operations up to the n-th, of which x are executed.
ApplyRange(n, x) ==
  /\ count < n /\ n <= applied
  /\ request = "active" /\ UNCHANGED <<applied, plan>>
  /\ Edited(image \o x.edits)
  /\ \/ /\ x.ok /\ count' = n
        /\ armed' = (armed \/ Head(queue).requires)
        /\ UNCHANGED <<request, failed>>
     \/ /\ ~x.ok /\ failed' /\ request' = "canceling"
        /\ UNCHANGED <<count, armed>>

\* A progress event is applied to the image: all of its new edits, or those
\* before the one that fails (_agent_chat_progress_finished).
LEMMA Progressed ==
  ASSUME TypeOK, QueueIsIssued, ApplyProgress
  PROVE  \E n \in 0 .. MaxOps : \E x \in Executed(NewRange(n)) :
           ApplyRange(n, x)
  <1> DEFINE n == Head(queue).n
  <1>1. queue # <<>> /\ Head(queue).kind = "progress"
    BY DEF ApplyProgress, HeadIs
  <1>2. n \in 0 .. MaxOps
    BY <1>1, HeadType
  <1>3. 1 \in 1 .. Len(queue) /\ Head(queue) = queue[1]
    BY <1>1, TailAll DEF TypeOK, StreamTypeOK
  <1>4. n <= applied
    BY <1>1, <1>3 DEF QueueIsIssued, Carries
  <1>5. PICK x \in Executed(NewRange(n)) :
          /\ Edited(image \o x.edits)
          /\ IF x.ok
             THEN /\ count' = Head(queue).n
                  /\ armed' = (armed \/ Head(queue).requires)
                  /\ UNCHANGED <<request, failed, cancel>>
             ELSE /\ failed' = TRUE
                  /\ request' = "canceling" /\ cancel' = "sent"
                  /\ UNCHANGED <<count, armed>>
    BY DEF ApplyProgress
  <1>6. count < n /\ request = "active" /\ UNCHANGED <<applied, plan>>
    BY <1>2 DEF ApplyProgress, serverVars, contextVars, TypeOK, PanelTypeOK
  <1>7. x.ok \/ ~x.ok
    OBVIOUS
  <1>8. ApplyRange(n, x)
    BY <1>4, <1>5, <1>6, <1>7 DEF ApplyRange
  <1> QED
    BY <1>2, <1>8

\* The final response is applied to the image, or refused because the image
\* is not at the revision of the request (_agent_chat_request_finished).
LEMMA Finalized ==
  ASSUME TypeOK, TurnOrder, QueueIsIssued, ApplyFinal
  PROVE  /\ plan \in 0 .. MaxOps /\ applied <= plan
         /\ ~RequestIsOver /\ UNCHANGED <<applied, plan>>
         /\ \/ \E x \in Executed(NewRange(plan)) :
                 /\ Edited(image \o x.edits)
                 /\ request' = "applied" /\ failed' = (failed \/ ~x.ok)
            \/ request' = "ended" /\ UNCHANGED <<image, failed, pipeVars>>
  <1>1. queue # <<>> /\ Head(queue).kind = "final"
    BY DEF ApplyFinal, HeadIs
  <1>2. 1 \in 1 .. Len(queue) /\ Head(queue) = queue[1]
    BY <1>1, TailAll DEF TypeOK, StreamTypeOK
  <1>3. Head(queue).n = plan
    BY <1>1, <1>2 DEF QueueIsIssued, Carries
  <1>4. plan \in 0 .. MaxOps /\ plan # None
    BY <1>1, <1>3, HeadType, LiveRunAssumption
  <1>5. applied <= plan
    BY <1>4 DEF TurnOrder
  <1>6. ~RequestIsOver /\ UNCHANGED <<applied, plan>>
    BY <1>1 DEF QueueIsIssued, ApplyFinal, serverVars, contextVars
  <1> QED
    BY <1>3, <1>4, <1>5, <1>6 DEF ApplyFinal, FinalRange

\* The final response and the events without a plan are the end of the run.
LEMMA Ended ==
  ASSUME QueueIsIssued, EndWithoutPlan
  PROVE  /\ ~RequestIsOver /\ request' = "ended"
         /\ UNCHANGED <<applied, plan, image, failed, armed, posts, pipeVars>>
  BY DEF QueueIsIssued, EndWithoutPlan, HeadIs, serverVars, contextVars

\* A failed operation leaves less than its event brought, and only the final
\* response can follow it.
LEMMA ImageStep ==
  ASSUME TypeOK, TurnOrder, QueueIsIssued, ImageIsBounded, EditsAreIssued,
         [Next]_vars
  PROVE  ImageIsBounded'
  <1>0. /\ MaxOps \in Nat /\ count \in 0 .. MaxOps
        /\ image \in Seq(1 .. MaxOps) /\ Len(image) \in Nat
    BY LiveRunAssumption DEF TypeOK, PanelTypeOK
  <1>1. CASE ApplyProgress
    <2>0. PICK n \in 0 .. MaxOps :
            \E x \in Executed(NewRange(n)) : ApplyRange(n, x)
      BY <1>1, Progressed
    <2>1. PICK x \in Executed(NewRange(n)) : ApplyRange(n, x)
      BY <2>0
    <2> USE DEF ApplyRange
    <2>2. ~failed /\ count = Len(image)
      BY <2>1 DEF ImageIsBounded, EditsAreIssued, RequestIsOver
    <2>3. Len(x.edits) <= n - count /\ x.edits \in Seq(1 .. MaxOps)
      BY <2>1, ExecutedType
    <2>4. image' = image \o x.edits /\ Len(image') = Len(image) + Len(x.edits)
      BY <1>0, <2>1, <2>3 DEF Edited
    <2>5. Len(x.edits) \in Nat /\ n \in Nat
      BY <2>3
    <2>6. Len(image') <= MaxOps
      BY <1>0, <2>2, <2>3, <2>4, <2>5
    <2>7. Len(image') <= 2 * MaxOps
      BY <1>0, <2>4, <2>5, <2>6
    <2>8. failed' => request' # "active"
      BY <2>1, <2>2
    <2> QED
      BY <2>6, <2>7, <2>8 DEF ImageIsBounded
  <1>2. CASE ApplyFinal
    <2>1. plan \in 0 .. MaxOps /\ ~RequestIsOver
      BY <1>2, Finalized
    <2>2. Len(image) <= MaxOps
      BY <2>1 DEF ImageIsBounded
    <2>3. CASE request' = "ended" /\ UNCHANGED image
      BY <2>2, <2>3 DEF ImageIsBounded, RequestIsOver
    <2>4. ASSUME NEW x \in Executed(NewRange(plan)),
                 Edited(image \o x.edits), request' = "applied"
          PROVE  ImageIsBounded'
      <3>0. /\ x.edits \in Seq(1 .. MaxOps)
            /\ Len(x.edits) <= IF plan > count THEN plan - count ELSE 0
        BY <2>1, ExecutedType
      <3>1. x.edits \in Seq(1 .. MaxOps) /\ Len(x.edits) <= MaxOps
        BY <1>0, <2>1, <3>0
      <3>2. image' = image \o x.edits /\ Len(image') = Len(image) + Len(x.edits)
        BY <1>0, <2>4, <3>1 DEF Edited
      <3>3. Len(image') <= 2 * MaxOps
        BY <1>0, <2>2, <3>1, <3>2
      <3> QED
        BY <2>4, <3>3 DEF ImageIsBounded, RequestIsOver
    <2> QED
      BY <1>2, <2>3, <2>4, Finalized
  <1>3. CASE EndWithoutPlan
    BY <1>3, Ended DEF ImageIsBounded, RequestIsOver
  <1>4. CASE CancelRun
    BY <1>4 DEF CancelRun, ImageIsBounded, RequestIsOver
  <1>5. CASE UNCHANGED <<image, request, failed>>
    BY <1>5 DEF ImageIsBounded, RequestIsOver
  <1> QED
    BY <1>1, <1>2, <1>3, <1>4, <1>5, StepKinds, TurnFrame, StreamFrame,
       JobFrame, PipeFrame
    DEF LoopStep, MainLoop, SkipProgress, panelVars, vars

\* Edits reach the image once and in order, and the final response brings the
\* rest of them.
LEMMA EditsStep ==
  ASSUME TypeOK, TurnOrder, QueueIsIssued, ImageIsBounded, EditsAreIssued,
         [Next]_vars
  PROVE  EditsAreIssued'
  <1>0. /\ count \in Nat /\ applied \in Nat /\ Len(image) \in Nat
        /\ plan \in Nat \cup {None}
    BY DEF TypeOK, PanelTypeOK, TurnTypeOK
  <1>1. CASE TurnStep
    <2>1. UNCHANGED <<image, count, request, failed>>
      BY <1>1, TurnFrame
    <2>2. /\ applied' \in Nat /\ applied <= applied'
          /\ plan' = plan \/ plan = None
      BY <1>1, TurnGrows
    <2> SUFFICES ASSUME ~failed PROVE EditsAreIssued'
      BY <2>1 DEF EditsAreIssued
    <2>3. /\ image = [i \in 1 .. Len(image) |-> i]
          /\ ~RequestIsOver => count = Len(image) /\ count <= applied
          /\ request = "ended" => Len(image) <= applied
          /\ request = "applied" => Len(image) = plan
      BY DEF EditsAreIssued
    <2> HIDE DEF EditsAreIssued
    <2>4. \A k \in Nat : k <= applied => k <= applied'
      BY <1>0, <2>2
    <2>5. ~RequestIsOver => count = Len(image) /\ count <= applied'
      BY <1>0, <2>3, <2>4
    <2>6. /\ request = "ended" => Len(image) <= applied'
          /\ request = "applied" => Len(image) = plan'
      BY <1>0, <2>2, <2>3, <2>4, LiveRunAssumption
    <2> QED
      BY <2>1, <2>3, <2>4, <2>5, <2>6 DEF EditsAreIssued, RequestIsOver
  <1>2. CASE ApplyProgress
    <2>0. PICK n \in 0 .. MaxOps :
            \E x \in Executed(NewRange(n)) : ApplyRange(n, x)
      BY <1>2, Progressed
    <2>1. PICK x \in Executed(NewRange(n)) : ApplyRange(n, x)
      BY <2>0
    <2> USE DEF ApplyRange
    <2>2. /\ ~failed /\ count = Len(image) /\ count <= n
          /\ image = [i \in 1 .. Len(image) |-> i]
      BY <1>0, <2>1 DEF ImageIsBounded, EditsAreIssued, RequestIsOver
    <2>3. CASE x.ok
      <3>1. x.edits = NewRange(n)
        BY <2>3, ExecutedType
      <3>2. image' = [i \in 1 .. n |-> i] /\ Len(image') = n
        BY <2>1, <2>2, <3>1, NextEdits DEF Edited
      <3> QED
        BY <2>1, <2>3, <3>2 DEF EditsAreIssued, RequestIsOver
    <2>4. CASE ~x.ok
      BY <2>1, <2>4 DEF EditsAreIssued
    <2> QED
      BY <2>3, <2>4
  <1>3. CASE ApplyFinal
    <2>1. /\ plan \in 0 .. MaxOps /\ applied <= plan
          /\ ~RequestIsOver /\ UNCHANGED <<applied, plan>>
      BY <1>3, Finalized
    <2>2. ~failed => /\ count = Len(image) /\ count <= applied
                     /\ image = [i \in 1 .. Len(image) |-> i]
      BY <2>1 DEF EditsAreIssued
    <2>3. CASE request' = "ended" /\ UNCHANGED <<image, failed>>
      BY <2>1, <2>2, <2>3 DEF EditsAreIssued, RequestIsOver
    <2>4. ASSUME NEW x \in Executed(NewRange(plan)),
                 Edited(image \o x.edits), request' = "applied",
                 failed' = (failed \/ ~x.ok), ~failed'
          PROVE  EditsAreIssued'
      <3>1. x.edits = NewRange(plan) /\ ~failed
        BY <2>1, <2>4, ExecutedType
      <3>2. image' = [i \in 1 .. plan |-> i] /\ Len(image') = plan
        BY <1>0, <2>1, <2>2, <2>4, <3>1, NextEdits DEF Edited
      <3> QED
        BY <2>1, <2>4, <3>2 DEF EditsAreIssued, RequestIsOver
    <2> QED
      BY <1>3, <2>3, <2>4, Finalized DEF EditsAreIssued
  <1>4. CASE EndWithoutPlan
    BY <1>4, Ended DEF EditsAreIssued, RequestIsOver
  <1>5. CASE CancelRun
    BY <1>5 DEF CancelRun, EditsAreIssued, RequestIsOver, serverVars, contextVars
  <1>6. CASE UNCHANGED <<applied, plan, image, count, request, failed>>
    BY <1>6 DEF EditsAreIssued, RequestIsOver
  <1> QED
    BY <1>1, <1>2, <1>3, <1>4, <1>5, <1>6, StepKinds, StreamFrame, JobFrame,
       PipeFrame
    DEF LoopStep, MainLoop, SkipProgress, serverVars, contextVars, panelVars,
        vars

\* While every wait gets its render, the one render of a step passes from the
\* pipe to the post, the context and the preview of the model.
LEMMA RenderStep ==
  ASSUME TypeOK, TurnOrder, QueueIsIssued, ImageIsBounded, EditsAreIssued,
         OneRenderPerStep, PipeIsOfStep, [Next]_vars
  PROVE  OneRenderPerStep' /\ PipeIsOfStep'
  <1>0. /\ applied \in Nat /\ count \in Nat /\ Len(image) \in Nat
        /\ shown \in Nat /\ None \notin Nat
    BY LiveRunAssumption DEF TypeOK, PanelTypeOK, TurnTypeOK, PipeTypeOK, Length
  <1> DEFINE Sync == OneRenderPerStep /\ PipeIsOfStep
  <1> USE DEF OneRenderPerStep, PipeIsOfStep, CaughtUp, Answered, InStep,
              RequestIsOver
  <1>1. CASE \/ CheckCancel \/ ReadNothing \/ StartBatch \/ FinishTurn
             \/ FailTurn \/ CancelArrives
    <2>1. /\ UNCHANGED <<applied, event, bytes, preview, missed, image, count,
                         request, armed, posts, status, rendering, shown>>
          /\ \/ worker' = worker
             \/ /\ worker \in {"model", "read"}
                /\ worker' \in {"read", "failed", "model", "apply", "done"}
      BY <1>1 DEF CheckCancel, ReadNothing, StartBatch, FinishTurn, FailTurn,
         CancelArrives, contextVars, panelVars, pipeVars
    <2> QED
      BY <2>1
  <1>2. CASE AppendOperation
    <2>1. /\ UNCHANGED <<event, bytes, preview, missed, image, count,
                         request, armed, posts, status, rendering, shown>>
          /\ worker = "apply" /\ worker' = "require" /\ applied' = applied + 1
      BY <1>2 DEF AppendOperation, panelVars, pipeVars
    <2> QED
      BY <1>0, <2>1
  <1>3. CASE RequireRender \/ ClearEvent \/ WipeRender \/ EndWait
    <2>1. /\ UNCHANGED <<applied, preview, missed, image, count, request,
                         armed, posts, status, rendering, shown>>
          /\ \/ /\ worker = "require" /\ worker' = "clear"
                /\ UNCHANGED <<event, bytes>>
             \/ /\ worker = "clear" /\ worker' = "wipe"
                /\ event' = FALSE /\ bytes' = bytes
             \/ /\ worker = "wipe" /\ worker' = "wait"
                /\ bytes' = None /\ event' = event
             \/ /\ worker = "wait" /\ worker' \in {"arrived", "late"}
                /\ UNCHANGED <<event, bytes>>
      BY <1>3 DEF RequireRender, ClearEvent, WipeRender, EndWait, panelVars,
         pipeVars
    <2> QED
      BY <2>1
  <1>4. CASE TakeRender
    <2>1. /\ UNCHANGED <<applied, event, image, count, request, armed, posts,
                         status, rendering, shown>>
          /\ bytes' = None /\ worker' \in {"apply", "model"}
      BY <1>4 DEF TakeRender, panelVars, pipeVars
    <2>2. ~missed' => /\ ~missed /\ worker = "arrived" /\ bytes # None
                      /\ preview' = [shows |-> bytes, label |-> applied]
      BY <1>4 DEF TakeRender
    <2>3. ~missed' => Answered /\ bytes = applied
      BY <2>2 DEF TurnOrder
    <2> QED
      BY <2>1, <2>2, <2>3
  <1>5. ASSUME NEW p \in posts, Render(p) PROVE Sync'
    <2>1. UNCHANGED <<worker, applied, preview, missed, image, count, request,
                      armed, status, rendering, shown>>
      BY <1>5 DEF Render, StoreRender, SetEvent, panelVars, pipeVars
    <2>2. CASE StoreRender(p)
      <3> DEFINE q == [p EXCEPT !.stored = TRUE]
      <3>1. q.stored /\ q.shows = p.shows
        BY DEF TypeOK, PipeTypeOK
      <3>2. CASE TurnRuns
        <4>1. bytes' = p.shows /\ posts' = (posts \ {p}) \cup {q} /\ event' = event
          BY <2>2, <3>2 DEF StoreRender
        <4> HIDE DEF q
        <4> QED
          BY <2>1, <3>1, <4>1
      <3>3. CASE ~TurnRuns
        <4>1. bytes' = bytes /\ posts' = posts \ {p} /\ event' = event
          BY <2>2, <3>3 DEF StoreRender
        <4> QED
          BY <2>1, <4>1
      <3> QED
        BY <3>2, <3>3
    <2>3. CASE SetEvent(p)
      <3>1. bytes' = bytes /\ posts' = posts \ {p} /\ event' = TRUE
        BY <2>3 DEF SetEvent
      <3> QED
        BY <2>1, <3>1
    <2>4. StoreRender(p) \/ SetEvent(p)
      BY <1>5 DEF Render
    <2> HIDE DEF Sync
    <2> QED
      BY <2>2, <2>3, <2>4
  <1>6. CASE ApplyProgress
    <2>0. PICK n \in 0 .. MaxOps :
            \E x \in Executed(NewRange(n)) : ApplyRange(n, x)
      BY <1>6, Progressed
    <2>1. PICK x \in Executed(NewRange(n)) : ApplyRange(n, x)
      BY <2>0
    <2>2. /\ UNCHANGED <<worker, applied, event, bytes, preview, missed, posts,
                         rendering, shown>>
          /\ request = "active"
      BY <1>6, <2>1, LoopFrame
      DEF ApplyRange, LoopStep, MainLoop, serverVars, contextVars
    <2> SUFFICES ASSUME ~missed PROVE Sync'
      BY <2>2
    <2>3. /\ count = Len(image) /\ ~failed
          /\ image = [i \in 1 .. Len(image) |-> i]
      BY <2>2 DEF ImageIsBounded, EditsAreIssued
    <2>4. /\ InStep /\ n = applied /\ n = count + 1
          /\ ~armed /\ posts = {} /\ bytes = None /\ ~Answered
          /\ status = "valid" /\ rendering = None
      BY <1>0, <2>1, <2>2 DEF ApplyRange
    <2>5. CASE x.ok
      <3>1. x.edits = NewRange(n)
        BY <2>5, ExecutedType
      <3>2. Len(image') = n /\ image' = image \o NewRange(n)
        BY <2>1, <2>3, <2>4, <3>1, NextEdits DEF ApplyRange, Edited
      <3>3. image' # image /\ status' = "dirty"
        BY <1>0, <2>1, <2>3, <2>4, <3>1, <3>2 DEF ApplyRange, Edited
      <3>4. count' = n /\ request' = request
        BY <2>1, <2>5 DEF ApplyRange
      <3> QED
        BY <1>0, <2>2, <2>4, <3>2, <3>3, <3>4
    <2>6. CASE ~x.ok
      <3>1. Len(x.edits) = 0 /\ x.edits \in Seq(1 .. MaxOps)
        BY <1>0, <2>4, <2>6, ExecutedType
      <3>2. image \o x.edits = image
        BY <3>1, EmptySeq, ConcatEmptySeq DEF TypeOK, PanelTypeOK
      <3>3. UNCHANGED <<image, status, count, armed>> /\ request' = "canceling"
        BY <2>1, <2>6, <3>2 DEF ApplyRange, Edited
      <3> QED
        BY <1>0, <2>2, <2>4, <3>3
    <2> QED
      BY <2>5, <2>6
  <1>7. CASE ApplyFinal
    <2>1. /\ ~RequestIsOver /\ request' \in {"applied", "ended"}
      BY <1>7, Finalized
    <2>2. UNCHANGED <<worker, applied, event, bytes, preview, missed, posts,
                      armed, rendering, shown>>
      BY <1>7, LoopFrame
      DEF LoopStep, MainLoop, ApplyFinal, serverVars, contextVars
    <2> QED
      BY <2>1, <2>2
  <1>8. CASE EndWithoutPlan
    <2>1. /\ UNCHANGED <<worker, applied, event, bytes, preview, missed, image,
                         posts, armed, status, rendering, shown>>
          /\ request' = "ended"
      BY <1>8 DEF EndWithoutPlan, serverVars, contextVars, pipeVars
    <2> QED
      BY <2>1
  <1>9. CASE CancelRun
    <2>1. /\ UNCHANGED <<worker, applied, event, bytes, preview, missed, image,
                         count, posts, armed, status, rendering, shown>>
          /\ request = "active" /\ request' = "canceling"
      BY <1>9 DEF CancelRun, serverVars, contextVars, pipeVars
    <2> QED
      BY <2>1
  <1>10. CASE PreviewStart \/ PreviewFinish
    <2>1. UNCHANGED <<worker, applied, event, bytes, preview, missed, image,
                      count, request, posts, armed>>
      BY <1>10 DEF PreviewStart, PreviewFinish, serverVars, contextVars,
         panelVars
    <2>2. CASE PreviewStart
      BY <2>1, <2>2 DEF PreviewStart
    <2>3. CASE PreviewFinish
      BY <1>0, <2>1, <2>3 DEF PreviewFinish
    <2> QED
      BY <1>10, <2>2, <2>3
  <1>11. CASE FullFinish
    <2>1. UNCHANGED <<worker, applied, event, bytes, preview, missed, image,
                      count, request, status, rendering, shown>>
      BY <1>11 DEF FullFinish, serverVars, contextVars, panelVars
    <2>2. CASE armed /\ PreviewIsValid
      <3> DEFINE q == [for |-> count, shows |-> shown, stored |-> FALSE]
      <3>1. /\ ~armed'
            /\ posts' = IF RequestIsOver THEN posts ELSE posts \cup {q}
        BY <1>11, <2>2 DEF FullFinish
      <3>2. q.shows = shown /\ status = "valid"
        BY <2>2 DEF PreviewIsValid
      <3> HIDE DEF q
      <3> QED
        BY <2>1, <2>2, <3>1, <3>2
    <2>3. CASE ~(armed /\ PreviewIsValid)
      <3>1. UNCHANGED <<armed, posts>>
        BY <1>11, <2>3 DEF FullFinish
      <3> QED
        BY <2>1, <3>1
    <2> QED
      BY <2>2, <2>3
  <1>12. ASSUME NEW p \in posts, LoseRender(p) PROVE Sync'
    <2>1. /\ UNCHANGED <<worker, applied, event, bytes, preview, missed, image,
                         count, request, armed, status, rendering, shown>>
          /\ posts' = posts \ {p}
      BY <1>12 DEF LoseRender, serverVars, contextVars, panelVars, pipeVars
    <2> QED
      BY <2>1
  <1>13. CASE UNCHANGED <<serverVars, panelVars, armed, posts, pipeVars>>
    <2>1. UNCHANGED <<worker, applied, event, bytes, preview, missed, image,
                      count, request, armed, posts, status, rendering, shown>>
      BY <1>13 DEF serverVars, contextVars, panelVars, pipeVars
    <2> QED
      BY <2>1
  <1> HIDE DEF OneRenderPerStep, PipeIsOfStep, CaughtUp, Answered, InStep,
               RequestIsOver
  <1> QED
    BY <1>1, <1>2, <1>3, <1>4, <1>5, <1>6, <1>7, <1>8, <1>9, <1>10, <1>11,
       <1>12, <1>13, StepKinds, StreamFrame, JobFrame
    DEF TurnStep, Codex, Plan, LoopStep, MainLoop, SkipProgress, PipeStep, vars

-----------------------------------------------------------------------------
\* IInv is an invariant of the live run (the conjuncts are named in LiveRun).
LEMMA InvariantStep == IInv /\ [Next]_vars => IInv'
  BY TypeStep, TurnOrderStep, EventsStep, ImageStep, EditsStep, RenderStep
  DEF IInv, EventsAreIssued

THEOREM InductiveInvariant == Spec => []IInv
  BY InitIInv, InvariantStep, PTL DEF Spec

\* Every variable keeps its type: a run of MaxOps operations stays within
\* MaxOps, and a failed one within twice as many edits (TypeOK).
THEOREM TypeCorrect == Spec => []TypeOK
  <1>1. IInv => TypeOK
    BY DEF IInv
  <1> QED
    BY <1>1, InductiveInvariant, PTL

\* The number of operations the server has issued, whatever brings them.
LEMMA IssuedType ==
  ASSUME TypeOK, TurnOrder
  PROVE  /\ applied \in Nat
         /\ (IF plan = None THEN applied ELSE plan) \in 0 .. MaxOps
         /\ applied <= IF plan = None THEN applied ELSE plan
  BY LiveRunAssumption DEF TypeOK, TurnTypeOK, TurnOrder

\* The edits of the server reach the image once each and in order, for every
\* number of operations and every way of polling (_agent_chat_progress_finished,
\* _agent_chat_handle_response).
THEOREM EditsInOrder == Spec => []EditsOnceInOrder
  <1>1. ASSUME IInv PROVE EditsOnceInOrder
    <2>1. SUFFICES ASSUME ~failed PROVE EditsOnceInOrder
      BY DEF EditsOnceInOrder
    <2>2. /\ image = [i \in 1 .. Len(image) |-> i]
          /\ ~RequestIsOver => count = Len(image) /\ count <= applied
          /\ request = "ended" => Len(image) <= applied
          /\ request = "applied" => Len(image) = plan
      BY <1>1, <2>1 DEF IInv, EditsAreIssued
    <2>3. Len(image) \in Nat /\ TypeOK /\ TurnOrder
      BY <1>1 DEF IInv, TypeOK, PanelTypeOK
    <2>4. request = "applied" => plan # None
      BY <2>2, <2>3, LiveRunAssumption
    <2>5. Len(image) <= IF plan = None THEN applied ELSE plan
      BY <2>2, <2>3, <2>4, IssuedType DEF RequestIsOver
    <2> QED
      BY <2>2, <2>5 DEF EditsOnceInOrder
  <1> QED
    BY <1>1, InductiveInvariant, PTL

\* A run that ends with its plan has all of its edits in the image.
THEOREM NoEditLeftOut == Spec => []NothingLeftOut
  <1>1. IInv => NothingLeftOut
    BY DEF IInv, EditsAreIssued, NothingLeftOut
  <1> QED
    BY <1>1, InductiveInvariant, PTL

\* While no wait ends without its render, the preview the model sees is the one
\* of the step it is labelled with (_wait_for_live_render,
\* _darkroom_ui_pipe_finish_signal_callback).
THEOREM PreviewIsFresh == Spec => []FreshIfNoneMissed
  <1>1. IInv => FreshIfNoneMissed
    BY DEF IInv, OneRenderPerStep, FreshIfNoneMissed
  <1> QED
    BY <1>1, InductiveInvariant, PTL

-----------------------------------------------------------------------------
(* LiveRun implements LiveEdits.                                           *)

\* The initial state is one of the promise.
LEMMA RefinesInit == Init => Edits!Init
  BY DEF Init, Edits!Init, RequestIsOver

\* Once an operation has failed, the promise holds for nothing more.
LEMMA BrokenStep ==
  ASSUME failed' = TRUE
  PROVE  Edits!Next
  BY DEF Edits!Next, Edits!Break

\* A failure is not taken back.
LEMMA FailedStays ==
  ASSUME TypeOK, TurnOrder, QueueIsIssued, failed, [Next]_vars
  PROVE  failed' = TRUE
  <1>1. CASE ApplyProgress
    BY <1>1 DEF ApplyProgress, TypeOK, PanelTypeOK
  <1>2. CASE ApplyFinal
    BY <1>2 DEF ApplyFinal, TypeOK, PanelTypeOK
  <1>3. CASE UNCHANGED failed
    BY <1>3 DEF TypeOK, PanelTypeOK
  <1> QED
    BY <1>1, <1>2, <1>3, StepKinds, TurnFrame, StreamFrame, JobFrame, PipeFrame
    DEF LoopStep, MainLoop, SkipProgress, EndWithoutPlan, CancelRun, panelVars,
        vars

\* Every step of the run is a step of the promise or leaves it alone.
LEMMA RefinesStep ==
  ASSUME IInv, [Next]_vars
  PROVE  [Edits!Next]_(Edits!vars)
  <1> DEFINE issued == IF plan = None THEN applied ELSE plan
             phase == IF failed THEN "broken"
                      ELSE IF RequestIsOver THEN request ELSE "running"
  <1>0. TypeOK /\ TurnOrder /\ QueueIsIssued /\ ImageIsBounded /\ EditsAreIssued
    BY DEF IInv, EventsAreIssued
  <1>1. CASE failed
    BY <1>0, <1>1, FailedStays, BrokenStep
  <1>2. SUFFICES ASSUME ~failed PROVE [Edits!Next]_(Edits!vars)
    BY <1>1
  <1>3. CASE TurnStep
    <2>1. UNCHANGED <<image, request, failed>>
      BY <1>3, TurnFrame
    <2>2. issued' = issued \/ issued' \in issued + 1 .. MaxOps
      <3>1. issued \in Nat /\ issued' \in 0 .. MaxOps
        <4>1. TypeOK' /\ issued \in Nat
          BY <1>0, IssuedType, TypeStep, LiveRunAssumption
        <4> QED
          BY <4>1, LiveRunAssumption DEF TypeOK, TurnTypeOK
      <3>2. issued <= issued'
        <4>1. CASE plan = None /\ plan' = None
          BY <1>0, <1>3, <4>1, TurnGrows
        <4>2. CASE plan = None /\ plan' # None
          <5>1. applied <= applied' /\ applied' <= plan'
            BY <1>0, <1>3, <4>2, TurnGrows, TurnOrderStep DEF TurnOrder
          <5>2. applied \in Nat /\ applied' \in Nat /\ plan' \in Nat
            BY <1>0, <4>2, TypeStep, LiveRunAssumption DEF TypeOK, TurnTypeOK
          <5> QED
            BY <4>2, <5>1, <5>2
        <4>3. CASE plan # None
          BY <1>0, <1>3, <3>1, <4>3, TurnGrows
        <4> QED
          BY <4>1, <4>2, <4>3
      <3> QED
        BY <3>1, <3>2, LiveRunAssumption
    <2>3. phase' = phase
      BY <2>1 DEF RequestIsOver
    <2>4. CASE issued' = issued
      BY <2>1, <2>3, <2>4 DEF Edits!vars
    <2>5. CASE issued' \in issued + 1 .. MaxOps
      <3>1. Edits!Issue
        BY <2>1, <2>3, <2>5 DEF Edits!Issue
      <3> QED
        BY <3>1 DEF Edits!Next
    <2> QED
      BY <2>2, <2>4, <2>5
  <1>4. CASE ApplyProgress
    <2>0. PICK n \in 0 .. MaxOps :
            \E x \in Executed(NewRange(n)) : ApplyRange(n, x)
      BY <1>0, <1>4, Progressed
    <2>1. PICK x \in Executed(NewRange(n)) : ApplyRange(n, x)
      BY <2>0
    <2>2. CASE ~x.ok
      BY <2>1, <2>2, BrokenStep, <1>0, PanelTypeStep
      DEF ApplyRange, PanelTypeOK
    <2>3. CASE x.ok
      <3>1. /\ count = Len(image) /\ image = [i \in 1 .. Len(image) |-> i]
            /\ count < n /\ n <= applied /\ request = "active"
        BY <1>0, <1>2, <2>1 DEF ApplyRange, EditsAreIssued, RequestIsOver
      <3>2. x.edits = NewRange(n)
        BY <1>0, <2>3, ExecutedType
      <3>3. image' = [i \in 1 .. n |-> i]
        BY <1>0, <2>1, <3>1, <3>2, NextEdits DEF ApplyRange, Edited
      <3>4. UNCHANGED <<applied, plan, request, failed>>
        BY <2>1, <2>3 DEF ApplyRange
      <3>5. n \in Len(image) + 1 .. issued
        BY <1>0, <3>1, IssuedType DEF TypeOK, PanelTypeOK
      <3>6. phase = "running" /\ phase' = phase /\ issued' = issued
        BY <1>2, <3>1, <3>4 DEF RequestIsOver
      <3>7. Edits!Apply
        BY <3>3, <3>5, <3>6 DEF Edits!Apply, Edits!FirstEdits
      <3> QED
        BY <3>7 DEF Edits!Next
    <2> QED
      BY <2>2, <2>3
  <1>5. CASE ApplyFinal
    <2>1. /\ plan \in 0 .. MaxOps /\ applied <= plan
          /\ ~RequestIsOver /\ UNCHANGED <<applied, plan>>
      BY <1>0, <1>5, Finalized
    <2>2. phase = "running" /\ issued = plan /\ issued' = issued
      BY <1>2, <2>1, LiveRunAssumption
    <2>3. /\ count = Len(image) /\ count <= applied
          /\ image = [i \in 1 .. Len(image) |-> i]
      BY <1>0, <1>2, <2>1 DEF EditsAreIssued
    <2>4. CASE request' = "ended" /\ UNCHANGED <<image, failed, pipeVars>>
      <3>1. Edits!Stop
        BY <1>2, <2>2, <2>4 DEF Edits!Stop, RequestIsOver
      <3> QED
        BY <3>1 DEF Edits!Next
    <2>5. ASSUME NEW x \in Executed(NewRange(plan)),
                 Edited(image \o x.edits), request' = "applied",
                 failed' = (failed \/ ~x.ok)
          PROVE  Edits!Next
      <3>1. CASE ~x.ok
        BY <2>5, <3>1, BrokenStep, <1>0, PanelTypeStep DEF PanelTypeOK
      <3>2. CASE x.ok
        <4>1. x.edits = NewRange(plan) /\ ~failed'
          BY <1>0, <1>2, <2>1, <2>5, <3>2, ExecutedType
        <4>2. count <= plan
          BY <1>0, <2>1, <2>3 DEF TypeOK, PanelTypeOK, TurnTypeOK
        <4>3. image' = [i \in 1 .. plan |-> i]
          BY <1>0, <2>1, <2>3, <2>5, <4>1, <4>2, NextEdits DEF Edited
        <4>4. Edits!Finish
          BY <2>2, <2>5, <4>1, <4>3
          DEF Edits!Finish, Edits!FirstEdits, RequestIsOver
        <4> QED
          BY <4>4 DEF Edits!Next
      <3> QED
        BY <3>1, <3>2
    <2> QED
      BY <1>0, <1>5, <2>4, <2>5, Finalized
  <1>6. CASE EndWithoutPlan
    <2>1. /\ ~RequestIsOver /\ request' = "ended"
          /\ UNCHANGED <<applied, plan, image, failed>>
      BY <1>0, <1>6, Ended
    <2>2. Edits!Stop
      BY <1>2, <2>1 DEF Edits!Stop, RequestIsOver
    <2> QED
      BY <2>2 DEF Edits!Next
  <1>7. CASE UNCHANGED <<serverVars, image, request, failed>>
    BY <1>7 DEF Edits!vars, serverVars, contextVars, RequestIsOver
  <1>8. CASE CancelRun
    BY <1>8 DEF CancelRun, Edits!vars, serverVars, contextVars, RequestIsOver
  <1> QED
    BY <1>3, <1>4, <1>5, <1>6, <1>7, <1>8, StepKinds, StreamFrame, JobFrame,
       PipeFrame
    DEF LoopStep, MainLoop, SkipProgress, panelVars, vars

\* However the operations are polled, streamed and applied, the image of
\* darktable goes through the states of LiveEdits: portions of the list in its
\* order, and all of it if the run ends well.
THEOREM Refinement == Spec => ImplementsLiveEdits
  <1>1. Init => Edits!Init
    BY RefinesInit
  <1>2. IInv /\ [Next]_vars => [Edits!Next]_(Edits!vars)
    BY RefinesStep
  <1> QED
    BY <1>1, <1>2, InductiveInvariant, PTL DEF Spec, ImplementsLiveEdits, Edits!Spec
=============================================================================
