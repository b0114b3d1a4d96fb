------------------------ MODULE BridgeRequests_proofs ------------------------
(***************************************************************************)
(* The safety of the bridge for every set of requests and conversations:   *)
(* IInv of BridgeRequests is inductive, and implies the properties that    *)
(* the runs check.  The type invariant comes first, in three parts; then   *)
(* each conjunct of IInv has a lemma with one step for each action that    *)
(* may disturb it and one for those that leave its variables alone.        *)
(***************************************************************************)
EXTENDS BridgeRequests, TLAPS

\* The initial states satisfy the inductive invariant.
LEMMA InitIInv == Init => IInv
  <1> SUFFICES ASSUME Init PROVE IInv
    OBVIOUS
  <1> USE RequestsAssumption DEF Init, NewTurn
  <1>1. TypeOK
    <2>1. pipe \in Seq(Line) /\ buf \in Seq(Line)
      OBVIOUS
    <2>2. pc \in [Requests -> PC] /\ outcome \in [Requests -> Outcome]
      BY DEF PC, Outcome
    <2>3. status \in [Requests -> Status]
      BY DEF Status
    <2> QED
      BY <2>1, <2>2, <2>3 DEF TypeOK, CallsTypeOK, BridgeTypeOK, CodexTypeOK
  <1>2. CallsInOrder /\ CancelIsSeen /\ ContextOfRunningTurn
    BY DEF CallsInOrder, CancelIsSeen, ContextOfRunningTurn, InLock
  <1>3. ThreadsOfThisProcess /\ HistoryOfThisThread /\ TurnStateIsOwn
    BY DEF ThreadsOfThisProcess, HistoryOfThisThread, TurnStateIsOwn
  <1>4. CancelStopsCodex /\ TurnsAreOfPastCalls
    BY DEF CancelStopsCodex, TurnsAreOfPastCalls
  <1>5. ProcessWhileInUse /\ OpenTurnIsCounted /\ BlockedWhileWaiting
    BY DEF ProcessWhileInUse, OpenTurnIsCounted, BlockedWhileWaiting
  <1> QED
    BY <1>1, <1>2, <1>3, <1>4, <1>5 DEF IInv

\* readline() returns a line (_read_message_locked).
LEMMA LineType ==
  ASSUME TypeOK, HasLine
  PROVE  NextLine \in Line
  BY DEF TypeOK, CodexTypeOK, HasLine, NextLine

\* Taking a line leaves sequences of lines (_read_message_locked).
LEMMA ReadLineType ==
  ASSUME TypeOK, NEW r \in Requests, ReadLine(r)
  PROVE  /\ pipe' \in Seq(Line) /\ buf' \in Seq(Line)
         /\ half' \in {"none", "pipe", "buf"}
         /\ io' \in {"free", "send", "reply", "read", "stderr"}
  <1>0. pipe \in Seq(Line) /\ buf \in Seq(Line) /\ half \in {"none", "pipe", "buf"}
    BY DEF TypeOK, CodexTypeOK
  <1>3. io' \in {"free", "reply"}
    BY DEF ReadLine
  <1>1. CASE buf # <<>>
    <2>1. buf' = Tail(buf) /\ pipe' = pipe /\ half' = half
      BY <1>1 DEF ReadLine
    <2> QED
      BY <1>0, <1>1, <1>3, <2>1
  <1>2. CASE buf = <<>>
    <2>1. PICK k \in 1 .. Len(pipe) : /\ buf' = SubSeq(pipe, 2, k)
                                      /\ pipe' = SubSeq(pipe, k + 1, Len(pipe))
                                      /\ half' = half \/ half' = "buf"
      BY <1>2 DEF ReadLine, Refill
    <2>2. Len(pipe) \in Nat
      BY <1>0
    <2> QED
      BY <1>0, <1>3, <2>1, <2>2
  <1> QED
    BY <1>1, <1>2

\* A call that moves to a place of plan() stays typed.
LEMMA GotoType ==
  ASSUME TypeOK, NEW r \in Requests, NEW l \in PC, Goto(r, l)
  PROVE  pc' \in [Requests -> PC]
  BY DEF TypeOK, CallsTypeOK, Goto

\* _set_active_request_status_locked writes a status.
LEMMA SetStatusType ==
  ASSUME TypeOK, NEW r \in Requests, NEW s \in Status, SetStatus(r, s)
  PROVE  status' \in [Requests -> Status]
  BY DEF TypeOK, CallsTypeOK, SetStatus

\* An error path leaves a place and an outcome.
LEMMA RaiseType ==
  ASSUME TypeOK, NEW r \in Requests, NEW code \in Outcome, Raise(r, code)
  PROVE  /\ pc' \in [Requests -> PC]
         /\ outcome' \in [Requests -> Outcome]
  <1>1. IF pc[r] = "run" THEN "clear" \in PC ELSE "release" \in PC
    BY DEF PC, InLock
  <1> QED
    BY <1>1 DEF TypeOK, CallsTypeOK, Raise, Goto

\* _reset_process_locked leaves a bridge without a child.
LEMMA ResetType ==
  ASSUME ResetProcess, TypeOK
  PROVE  /\ CodexTypeOK'
         /\ UNCHANGED <<lock, active, cancelled, turn>> => BridgeTypeOK'
  <1>1. <<>> \in Seq(Line)
    OBVIOUS
  <1> QED
    BY <1>1 DEF TypeOK, BridgeTypeOK, CodexTypeOK, ResetProcess, NewPipes,
                ClearConversations

\* _send_request_locked sends a request.
LEMMA SendType ==
  ASSUME TypeOK, NEW r \in Requests, NEW method \in Methods, Send(r, method)
  PROVE  inbox' \subseteq Rpc /\ io' \in {"free", "send"}
  BY DEF TypeOK, CodexTypeOK, Send, Rpc

\* Every step keeps the types.
LEMMA TypeStep ==
  ASSUME TypeOK, ProcessWhileInUse, BlockedWhileWaiting, [Next]_vars
  PROVE  TypeOK'
  <1> USE DEF TypeOK
  <1>1. ASSUME NEW r \in Requests, Register(r) PROVE TypeOK'
    <2>1. CallsTypeOK'
      BY <1>1, GotoType DEF Register, CallsTypeOK, BridgeTypeOK,
         CancelledEarlier, PC
    <2>2. BridgeTypeOK'
      BY <1>1 DEF Register, BridgeTypeOK, convVars
    <2>3. CodexTypeOK'
      BY <1>1 DEF Register, CodexTypeOK, codexVars
    <2> QED
      BY <2>1, <2>2, <2>3
  <1>2. ASSUME NEW r \in Requests, CancelRequest(r) PROVE TypeOK'
    <2>1. CallsTypeOK'
      BY <1>2 DEF CancelRequest, CallsTypeOK, Status
    <2>2. BridgeTypeOK'
      BY <1>2 DEF CancelRequest, BridgeTypeOK, convVars
    <2>3. CodexTypeOK'
      BY <1>2 DEF CancelRequest, CodexTypeOK, codexVars
    <2> QED
      BY <2>1, <2>2, <2>3
  <1>3. ASSUME NEW r \in Requests, AcquireLock(r) PROVE TypeOK'
    <2>1. CallsTypeOK'
      BY <1>3, GotoType, SetStatusType DEF AcquireLock, CallsTypeOK, PC,
         InLock, Status
    <2>2. BridgeTypeOK'
      BY <1>3 DEF AcquireLock, BridgeTypeOK, tableVars, convVars
    <2>3. CodexTypeOK'
      BY <1>3 DEF AcquireLock, CodexTypeOK, codexVars
    <2> QED
      BY <2>1, <2>2, <2>3
  <1>4. ASSUME NEW r \in Requests, RaiseIfCancelled(r) PROVE TypeOK'
    <2>1. CallsTypeOK'
      BY <1>4, RaiseType, SetStatusType DEF RaiseIfCancelled, CallsTypeOK,
         Outcome, Status
    <2>2. BridgeTypeOK'
      BY <1>4, ResetType DEF RaiseIfCancelled, tableVars
    <2>3. CodexTypeOK'
      BY <1>4, ResetType DEF RaiseIfCancelled
    <2> QED
      BY <2>1, <2>2, <2>3
  <1>5. ASSUME NEW r \in Requests, EnsureInitialized(r) PROVE TypeOK'
    <2>1. CallsTypeOK'
      BY <1>5, GotoType, RaiseType DEF EnsureInitialized, CallsTypeOK, PC,
         InLock, Outcome
    <2>2. BridgeTypeOK'
      BY <1>5, ResetType DEF EnsureInitialized, BridgeTypeOK, tableVars,
         convVars, ClearConversations
    <2>3. CodexTypeOK'
      <3>1. ASSUME NewPipes, proc' = r, exit' = "up", initialized' = FALSE,
                   inbox' = {[kind |-> "initialize", req |-> r]}
            PROVE  CodexTypeOK'
        <4>1. <<>> \in Seq(Line)
          OBVIOUS
        <4>2. [kind |-> "initialize", req |-> r] \in Rpc
          BY DEF Rpc, Methods
        <4> QED
          BY <3>1, <4>1, <4>2 DEF CodexTypeOK, NewPipes
      <3>2. ASSUME UNCHANGED <<proc, exit, initialized, pipe, buf, half, running>>,
                   UNCHANGED <<inbox, io>> \/ Send(r, "initialize")
            PROVE  CodexTypeOK'
        BY <3>2, SendType DEF CodexTypeOK, Methods
      <3> QED
        BY <1>5, <3>1, <3>2, ResetType DEF EnsureInitialized
    <2> QED
      BY <2>1, <2>2, <2>3
  <1>6. ASSUME NEW r \in Requests, ReuseThread(r) PROVE TypeOK'
    <2>1. CallsTypeOK'
      BY <1>6, RequestsAssumption, GotoType, SetStatusType DEF ReuseThread,
         CallsTypeOK, BridgeTypeOK, PC, InLock, Status
    <2>2. BridgeTypeOK'
      BY <1>6 DEF ReuseThread, BridgeTypeOK, tableVars, convVars
    <2>3. CodexTypeOK'
      BY <1>6 DEF ReuseThread, CodexTypeOK, codexVars
    <2> QED
      BY <2>1, <2>2, <2>3
  <1>7. ASSUME NEW r \in Requests, RequestThread(r) PROVE TypeOK'
    <2>1. CallsTypeOK'
      BY <1>7, GotoType, SetStatusType DEF RequestThread, CallsTypeOK, PC,
         InLock, Status
    <2>2. BridgeTypeOK'
      BY <1>7 DEF RequestThread, BridgeTypeOK, tableVars, convVars
    <2>3. CodexTypeOK'
      BY <1>7, SendType DEF RequestThread, CodexTypeOK, Methods
    <2> QED
      BY <2>1, <2>2, <2>3
  <1>8. ASSUME NEW r \in Requests, RequestTurn(r) PROVE TypeOK'
    <2>1. CallsTypeOK'
      BY <1>8, GotoType DEF RequestTurn, CallsTypeOK, PC, InLock
    <2>2. BridgeTypeOK'
      BY <1>8, RequestsAssumption DEF RequestTurn, BridgeTypeOK, tableVars,
         NextTurnIndex
    <2>3. CodexTypeOK'
      BY <1>8, SendType DEF RequestTurn, CodexTypeOK, Methods
    <2> QED
      BY <2>1, <2>2, <2>3
  <1>9. ASSUME NEW r \in Requests, TransportError(r) PROVE TypeOK'
    <2>1. CallsTypeOK'
      BY <1>9, RaiseType DEF TransportError, CallsTypeOK, Outcome
    <2>2. BridgeTypeOK'
      BY <1>9, ResetType DEF TransportError, tableVars
    <2>3. CodexTypeOK'
      BY <1>9, ResetType DEF TransportError
    <2> QED
      BY <2>1, <2>2, <2>3
  <1>10. ASSUME NEW r \in Requests, ReadAnswer(r) PROVE TypeOK'
    <2>1. CallsTypeOK'
      <3>1. CASE pc[r] = "initWait"
        BY <1>10, <3>1, GotoType DEF ReadAnswer, CallsTypeOK, PC, InLock
      <3>2. CASE pc[r] = "threadWait"
        <4>1. [by |-> r, proc |-> proc] \in Thread
          BY <3>2 DEF ProcessWhileInUse, CodexTypeOK, Thread
        <4> QED
          BY <1>10, <3>2, <4>1, GotoType, SetStatusType
          DEF ReadAnswer, CallsTypeOK, PC, InLock, Status
      <3>3. CASE pc[r] = "turnWait"
        BY <1>10, <3>3, GotoType, SetStatusType
        DEF ReadAnswer, CallsTypeOK, PC, InLock, Status
      <3> QED
        BY <1>10, <3>1, <3>2, <3>3 DEF ReadAnswer
    <2>2. BridgeTypeOK'
      <3>1. CASE pc[r] = "initWait"
        BY <1>10, <3>1 DEF ReadAnswer, BridgeTypeOK, tableVars
      <3>2. CASE pc[r] = "threadWait"
        <4>1. [by |-> r, proc |-> proc] \in Thread
          BY <3>2 DEF ProcessWhileInUse, CodexTypeOK, Thread
        <4> QED
          BY <1>10, <3>2, <4>1 DEF ReadAnswer, BridgeTypeOK, tableVars
      <3>3. CASE pc[r] = "turnWait"
        <4>1. contexts' \subseteq Requests /\ turn' = NewTurn /\ threads' = threads
          BY <1>10, <3>3 DEF ReadAnswer, BridgeTypeOK
        <4> QED
          BY <1>10, <4>1 DEF ReadAnswer, BridgeTypeOK, tableVars, NewTurn
      <3> QED
        BY <1>10, <3>1, <3>2, <3>3 DEF ReadAnswer
    <2>3. CodexTypeOK'
      BY <1>10, ReadLineType DEF ReadAnswer, CodexTypeOK
    <2> QED
      BY <2>1, <2>2, <2>3
  <1>11. ASSUME NEW r \in Requests, ReadErrorAnswer(r) \/ ReadPiece(r) PROVE TypeOK'
    <2>1. CallsTypeOK'
      BY <1>11, RaiseType DEF ReadErrorAnswer, ReadPiece, CallsTypeOK, Outcome
    <2>2. BridgeTypeOK'
      BY <1>11 DEF ReadErrorAnswer, ReadPiece, BridgeTypeOK, tableVars, convVars
    <2>3. CodexTypeOK'
      BY <1>11, ReadLineType DEF ReadErrorAnswer, ReadPiece, CodexTypeOK
    <2> QED
      BY <2>1, <2>2, <2>3
  <1>12. ASSUME NEW r \in Requests, DropLine(r) PROVE TypeOK'
    <2>1. CallsTypeOK'
      BY <1>12 DEF DropLine, CallsTypeOK, callVars
    <2>2. BridgeTypeOK'
      BY <1>12 DEF DropLine, BridgeTypeOK, tableVars, convVars
    <2>3. CodexTypeOK'
      BY <1>12, ReadLineType DEF DropLine, CodexTypeOK
    <2> QED
      BY <2>1, <2>2, <2>3
  <1>13. ASSUME NEW r \in Requests, ReplyFails(r) PROVE TypeOK'
    <2>1. CallsTypeOK'
      BY <1>13, RaiseType DEF ReplyFails, CallsTypeOK, Outcome
    <2>2. BridgeTypeOK'
      BY <1>13, ResetType DEF ReplyFails, tableVars
    <2>3. CodexTypeOK'
      BY <1>13, ResetType DEF ReplyFails
    <2> QED
      BY <2>1, <2>2, <2>3
  <1>14. ASSUME NEW r \in Requests, ReadTurnLine(r) PROVE TypeOK'
    <2>1. CallsTypeOK'
      BY <1>14, SetStatusType DEF ReadTurnLine, CallsTypeOK, Status
    <2>2. BridgeTypeOK'
      <3>1. NextLine \in Line
        BY <1>14, LineType DEF ReadTurnLine, ReadLine
      <3>2. NextLine.req \in Requests /\ NextLine.ok \in BOOLEAN
        BY <3>1 DEF Line
      <3>3. turn' \in [from : SUBSET Requests, text : BOOLEAN, error : BOOLEAN,
                      completed : BOOLEAN, slow : BOOLEAN]
        <4> DEFINE m == NextLine
        <4>1. CASE ~LineOfTurn(r, m) \/ m.kind = "tool"
          BY <1>14, <4>1 DEF ReadTurnLine, BridgeTypeOK
        <4>2. CASE LineOfTurn(r, m) /\ m.kind # "tool"
          <5>1. turn' = [from |-> turn.from \cup {m.req},
                         text |-> turn.text \/ m.kind \in {"delta", "final"},
                         error |-> \/ turn.error \/ m.kind = "error"
                                   \/ m.kind = "completed" /\ ~m.ok,
                         completed |-> m.kind \in {"final", "completed"},
                         slow |-> FALSE]
            BY <1>14, <4>2 DEF ReadTurnLine
          <5>2. m.req \in Requests /\ m.ok \in BOOLEAN
            BY <3>2
          <5>3. turn.from \cup {m.req} \in SUBSET Requests
            BY <5>2 DEF BridgeTypeOK
          <5> HIDE DEF m
          <5> QED
            BY <5>1, <5>2, <5>3 DEF BridgeTypeOK
        <4> QED
          BY <4>1, <4>2
      <3> QED
        BY <1>14, <3>3 DEF ReadTurnLine, BridgeTypeOK, tableVars, convVars
    <2>3. CodexTypeOK'
      BY <1>14, ReadLineType DEF ReadTurnLine, CodexTypeOK
    <2> QED
      BY <2>1, <2>2, <2>3
  <1>15. ASSUME NEW r \in Requests, DetectExit(r) PROVE TypeOK'
    <2>1. CallsTypeOK'
      BY <1>15, RaiseType DEF DetectExit, CallsTypeOK, Outcome
    <2>2. BridgeTypeOK'
      BY <1>15, ResetType DEF DetectExit, tableVars
    <2>3. CodexTypeOK'
      BY <1>15, ResetType DEF DetectExit
    <2> QED
      BY <2>1, <2>2, <2>3
  <1>16. ASSUME NEW r \in Requests, FinishTurn(r) PROVE TypeOK'
    <2>1. CallsTypeOK'
      <3>1. outcome' \in [Requests -> Outcome]
        BY <1>16 DEF FinishTurn, CallsTypeOK, Outcome
      <3>2. status' \in [Requests -> Status]
        BY <1>16, SetStatusType DEF FinishTurn, CallsTypeOK, Status
      <3> QED
        BY <1>16, <3>1, <3>2, GotoType DEF FinishTurn, CallsTypeOK, PC, InLock
    <2>2. BridgeTypeOK'
      BY <1>16 DEF FinishTurn, BridgeTypeOK, tableVars
    <2>3. CodexTypeOK'
      BY <1>16 DEF FinishTurn, CodexTypeOK, codexVars
    <2> QED
      BY <2>1, <2>2, <2>3
  <1>17. ASSUME NEW r \in Requests, ClearContext(r) PROVE TypeOK'
    <2>1. CallsTypeOK'
      BY <1>17, GotoType DEF ClearContext, CallsTypeOK, PC, InLock
    <2>2. BridgeTypeOK'
      BY <1>17 DEF ClearContext, BridgeTypeOK, tableVars, NewTurn,
         WithoutContext
    <2>3. CodexTypeOK'
      BY <1>17 DEF ClearContext, CodexTypeOK, codexVars
    <2> QED
      BY <2>1, <2>2, <2>3
  <1>18. ASSUME NEW r \in Requests, ReleaseLock(r) PROVE TypeOK'
    <2>1. CallsTypeOK'
      BY <1>18, GotoType, SetStatusType DEF ReleaseLock, CallsTypeOK, PC,
         Status
    <2>2. BridgeTypeOK'
      BY <1>18 DEF ReleaseLock, BridgeTypeOK, tableVars, convVars
    <2>3. CodexTypeOK'
      BY <1>18 DEF ReleaseLock, CodexTypeOK, codexVars
    <2> QED
      BY <2>1, <2>2, <2>3
  <1>19. ASSUME NEW r \in Requests, Unregister(r) PROVE TypeOK'
    <2>1. CallsTypeOK'
      BY <1>19, GotoType DEF Unregister, CallsTypeOK, PC, Status
    <2>2. BridgeTypeOK'
      BY <1>19 DEF Unregister, BridgeTypeOK, convVars
    <2>3. CodexTypeOK'
      BY <1>19 DEF Unregister, CodexTypeOK, codexVars
    <2> QED
      BY <2>1, <2>2, <2>3
  <1>20. ASSUME NEW r \in Requests, Timeout(r) PROVE TypeOK'
    <2>1. CallsTypeOK'
      BY <1>20, RaiseType DEF Timeout, CallsTypeOK, Outcome
    <2>2. BridgeTypeOK'
      BY <1>20 DEF Timeout, BridgeTypeOK, tableVars, convVars
    <2>3. CodexTypeOK'
      BY <1>20 DEF Timeout, CodexTypeOK, codexVars
    <2> QED
      BY <2>1, <2>2, <2>3
  <1>21. ASSUME NEW r \in Requests, Stall(r) PROVE TypeOK'
    <2>1. CallsTypeOK'
      BY <1>21, RaiseType DEF Stall, CallsTypeOK, Outcome
    <2>2. BridgeTypeOK'
      BY <1>21 DEF Stall, BridgeTypeOK, tableVars, convVars
    <2>3. CodexTypeOK'
      BY <1>21 DEF Stall, CodexTypeOK, codexVars
    <2> QED
      BY <2>1, <2>2, <2>3
  <1>22. ASSUME NEW q \in inbox, NEW ok \in BOOLEAN, CodexAnswer(q, ok)
        PROVE  TypeOK'
    <2>1. q \in Rpc /\ [kind |-> q.kind, req |-> q.req, ok |-> ok] \in Line
      BY DEF CodexTypeOK, Rpc, Line
    <2>2. q.req \in Requests
      BY <2>1 DEF Rpc
    <2>3. pipe' \in Seq(Line)
      BY <1>22, <2>1 DEF CodexAnswer, CodexTypeOK
    <2>4. CallsTypeOK' /\ BridgeTypeOK'
      BY <1>22 DEF CodexAnswer, CallsTypeOK, BridgeTypeOK, callVars, tableVars,
                   convVars
    <2>5. CodexTypeOK'
      BY <1>22, <2>2, <2>3 DEF CodexAnswer, CodexTypeOK
    <2> QED
      BY <2>4, <2>5
  <1>23. ASSUME NEW r \in Requests, NEW k \in TurnKinds, NEW ok \in BOOLEAN,
               CodexEmit(r, k, ok)
        PROVE  TypeOK'
    <2>1. [kind |-> k, req |-> r, ok |-> ok] \in Line
      BY DEF Line
    <2>2. CallsTypeOK' /\ BridgeTypeOK'
      BY <1>23 DEF CodexEmit, CallsTypeOK, BridgeTypeOK, callVars, tableVars,
                   convVars
    <2>3. CodexTypeOK'
      BY <1>23, <2>1 DEF CodexEmit, CodexTypeOK
    <2> QED
      BY <2>2, <2>3
  <1>24. ASSUME NEW e \in {"eof", "open"}, CodexExit(e) PROVE TypeOK'
    BY <1>24 DEF CodexExit, CallsTypeOK, BridgeTypeOK, CodexTypeOK, callVars,
                 tableVars, convVars
  <1>25. CASE UNCHANGED vars
    BY <1>25 DEF vars, callVars, tableVars, convVars, codexVars, CallsTypeOK,
                 BridgeTypeOK, CodexTypeOK
  <1>26. ASSUME NEW r \in Requests, ReadBlocks(r) \/ CodexBeginsStderr(r)
         PROVE  TypeOK'
    BY <1>26 DEF ReadBlocks, CodexBeginsStderr, CallsTypeOK, BridgeTypeOK,
                 CodexTypeOK, callVars, tableVars, convVars
  <1>27. CASE CodexBegins \/ CodexEndsStderr \/ CodexCloses
    BY <1>27 DEF CodexBegins, CodexEndsStderr, CodexCloses, CallsTypeOK,
                 BridgeTypeOK, CodexTypeOK, callVars, tableVars, convVars
  <1>28. CASE CodexReads
    <2>1. io = "send" => [kind |-> Awaited(lock), req |-> lock] \in Rpc
      BY DEF BlockedWhileWaiting, Awaited, Waits, Rpc, Methods
    <2> QED
      BY <1>28, <2>1 DEF CodexReads, CallsTypeOK, BridgeTypeOK, CodexTypeOK,
                         callVars, tableVars, convVars
  <1> QED
    BY <1>1, <1>2, <1>3, <1>4, <1>5, <1>6, <1>7, <1>8, <1>9, <1>10, <1>11,
    <1>12, <1>13, <1>14, <1>15, <1>16, <1>17, <1>18, <1>19, <1>20, <1>21,
    <1>22, <1>23, <1>24, <1>25, <1>26, <1>27, <1>28
    DEF Next, PlanStep, ClockStep, Codex, CodexLine, AllDone

\* Every step keeps the table, _lock and the outcomes in line with where the
\* calls are (CodexAppServerBridge.plan).
LEMMA CallsInOrderStep ==
  ASSUME IInv, [Next]_vars
  PROVE  CallsInOrder'
  <1> USE DEF IInv, CallsInOrder, TypeOK, CallsTypeOK, InLock, Goto, Raise
  <1>1. ASSUME NEW r \in Requests,
               CancelRequest(r) \/ DropLine(r) \/ ReadTurnLine(r)
               \/ ReadBlocks(r)
        PROVE  CallsInOrder'
    <2>1. UNCHANGED <<pc, lock, active, outcome>>
      BY <1>1 DEF CancelRequest, DropLine, ReadTurnLine, ReadBlocks, callVars, codexVars,
         convVars, tableVars
    <2> QED
      BY <2>1
  <1>2. CASE Codex
    <2>1. UNCHANGED <<pc, lock, active, outcome>>
      BY <1>2 DEF Codex, CodexLine, CodexAnswer, CodexEmit, CodexBegins, CodexReads,
         CodexBeginsStderr, CodexEndsStderr, CodexCloses, CodexExit, callVars,
         convVars, tableVars
    <2> QED
      BY <2>1
  <1>3. ASSUME NEW r \in Requests, Register(r) PROVE CallsInOrder'
    BY <1>3 DEF Register, codexVars, convVars
  <1>4. ASSUME NEW r \in Requests, AcquireLock(r) PROVE CallsInOrder'
    BY <1>4, RequestsAssumption DEF AcquireLock, LockIsFree, codexVars,
       convVars, tableVars
  <1>5. ASSUME NEW r \in Requests, RaiseIfCancelled(r) PROVE CallsInOrder'
    BY <1>5 DEF RaiseIfCancelled, ChecksCancel, tableVars
  <1>6. ASSUME NEW r \in Requests, EnsureInitialized(r) PROVE CallsInOrder'
    BY <1>6 DEF EnsureInitialized, convVars, tableVars
  <1>7. ASSUME NEW r \in Requests, ReuseThread(r) PROVE CallsInOrder'
    BY <1>7 DEF ReuseThread, codexVars, convVars, tableVars
  <1>8. ASSUME NEW r \in Requests, RequestThread(r) PROVE CallsInOrder'
    BY <1>8 DEF RequestThread, convVars, tableVars
  <1>9. ASSUME NEW r \in Requests, RequestTurn(r) PROVE CallsInOrder'
    BY <1>9 DEF RequestTurn, tableVars
  <1>10. ASSUME NEW r \in Requests, TransportError(r) PROVE CallsInOrder'
    BY <1>10 DEF TransportError, Waits, tableVars
  <1>11. ASSUME NEW r \in Requests, ReadAnswer(r) PROVE CallsInOrder'
    BY <1>11 DEF ReadAnswer, tableVars
  <1>12. ASSUME NEW r \in Requests, ReadErrorAnswer(r) \/ ReadPiece(r) PROVE CallsInOrder'
    BY <1>12 DEF ReadErrorAnswer, ReadPiece, ReadLine, Reading, MayRead, Waits, convVars,
       tableVars
  <1>13. ASSUME NEW r \in Requests, ReplyFails(r) PROVE CallsInOrder'
    BY <1>13 DEF ReplyFails, Reading, MayRead, Waits, tableVars
  <1>14. ASSUME NEW r \in Requests, DetectExit(r) PROVE CallsInOrder'
    BY <1>14 DEF DetectExit, MayRead, Waits, tableVars
  <1>15. ASSUME NEW r \in Requests, FinishTurn(r) PROVE CallsInOrder'
    BY <1>15 DEF FinishTurn, codexVars, tableVars
  <1>16. ASSUME NEW r \in Requests, ClearContext(r) PROVE CallsInOrder'
    BY <1>16 DEF ClearContext, codexVars, tableVars
  <1>17. ASSUME NEW r \in Requests, ReleaseLock(r) PROVE CallsInOrder'
    BY <1>17, RequestsAssumption DEF ReleaseLock, codexVars, convVars,
       tableVars
  <1>18. ASSUME NEW r \in Requests, Unregister(r) PROVE CallsInOrder'
    BY <1>18 DEF Unregister, codexVars, convVars
  <1>19. ASSUME NEW r \in Requests, Timeout(r) PROVE CallsInOrder'
    BY <1>19 DEF Timeout, MayRead, Waits, codexVars, convVars, tableVars
  <1>20. ASSUME NEW r \in Requests, Stall(r) PROVE CallsInOrder'
    BY <1>20 DEF Stall, codexVars, convVars, tableVars
  <1>21. CASE UNCHANGED vars
    BY <1>21 DEF vars, callVars, tableVars, convVars, codexVars
  <1> QED
    BY <1>1, <1>2, <1>3, <1>4, <1>5, <1>6, <1>7, <1>8, <1>9, <1>10, <1>11,
       <1>12, <1>13, <1>14, <1>15, <1>16, <1>17, <1>18, <1>19, <1>20, <1>21
    DEF Next, PlanStep, ClockStep, Codex, AllDone

\* Every step keeps the cancel events in line with the cancels (only
\* _register_request, cancel_request and _unregister_request touch them).
LEMMA CancelIsSeenStep ==
  ASSUME IInv, [Next]_vars
  PROVE  CancelIsSeen'
  <1> USE DEF IInv, CancelIsSeen, TypeOK, CallsTypeOK
  <1>1. ASSUME NEW r \in Requests,
               AcquireLock(r) \/ RaiseIfCancelled(r) \/
               EnsureInitialized(r) \/ ReuseThread(r) \/ RequestThread(r)
               \/ RequestTurn(r) \/ TransportError(r) \/ ReadAnswer(r) \/
               ReadErrorAnswer(r) \/ DropLine(r) \/ ReplyFails(r) \/
               ReadTurnLine(r) \/ DetectExit(r) \/ FinishTurn(r) \/
               ClearContext(r) \/ ReleaseLock(r) \/ Timeout(r) \/
               Stall(r) \/ ReadBlocks(r) \/ ReadPiece(r)
        PROVE  CancelIsSeen'
    <2>1. UNCHANGED <<active, cancelled, cancelEvent>>
      BY <1>1 DEF AcquireLock, RaiseIfCancelled, EnsureInitialized,
         ReuseThread, RequestThread, RequestTurn, TransportError, ReadAnswer,
         ReadErrorAnswer, DropLine, ReplyFails, ReadTurnLine, DetectExit,
         FinishTurn, ClearContext, ReleaseLock, Timeout, Stall, ReadBlocks,
         ReadPiece, callVars,
         codexVars, convVars, tableVars
    <2> QED
      BY <2>1
  <1>2. CASE Codex
    <2>1. UNCHANGED <<active, cancelled, cancelEvent>>
      BY <1>2 DEF Codex, CodexLine, CodexAnswer, CodexEmit, CodexBegins, CodexReads,
         CodexBeginsStderr, CodexEndsStderr, CodexCloses, CodexExit, callVars,
         convVars, tableVars
    <2> QED
      BY <2>1
  <1>3. ASSUME NEW r \in Requests, Register(r) PROVE CancelIsSeen'
    <2>1. /\ active' = active \cup {r} /\ cancelled' = cancelled
          /\ cancelEvent' = [cancelEvent EXCEPT ![r] = (r \in cancelled)]
      BY <1>3 DEF Register, CancelledEarlier
    <2>2. cancelEvent'[r] = (r \in cancelled)
      BY <2>1
    <2>3. \A q \in Requests \ {r} : cancelEvent'[q] = cancelEvent[q]
      BY <2>1
    <2>4. \A q \in Requests : cancelEvent[q] <=> q \in active \cap cancelled
      OBVIOUS
    <2>5. \A q \in Requests : cancelEvent'[q] <=> q \in active' \cap cancelled'
      BY <2>1, <2>2, <2>3, <2>4
    <2>6. active' \subseteq Requests
      BY <2>1 DEF BridgeTypeOK
    <2> QED
      BY <2>5, <2>6
  <1>4. ASSUME NEW r \in Requests, CancelRequest(r) PROVE CancelIsSeen'
    BY <1>4 DEF CancelRequest, codexVars, convVars
  <1>5. ASSUME NEW r \in Requests, Unregister(r) PROVE CancelIsSeen'
    BY <1>5 DEF Unregister, CallsInOrder, codexVars, convVars
  <1>6. CASE UNCHANGED vars
    BY <1>6 DEF vars, callVars, tableVars, convVars, codexVars
  <1> QED
    BY <1>1, <1>2, <1>3, <1>4, <1>5, <1>6
    DEF Next, PlanStep, ClockStep, Codex, AllDone

\* Every step keeps one context, that of the turn being read.
LEMMA ContextStep ==
  ASSUME IInv, [Next]_vars
  PROVE  ContextOfRunningTurn'
  <1> USE DEF IInv, ContextOfRunningTurn, CallsInOrder, TypeOK, CallsTypeOK,
          InLock, Goto, Raise, ResetProcess, ClearConversations
  <1>1. ASSUME NEW r \in Requests,
               CancelRequest(r) \/ DropLine(r) \/ ReadTurnLine(r)
               \/ ReadBlocks(r)
        PROVE  ContextOfRunningTurn'
    <2>1. UNCHANGED <<pc, contexts, lock>>
      BY <1>1 DEF CancelRequest, DropLine, ReadTurnLine, ReadBlocks, callVars, codexVars,
         convVars, tableVars
    <2> QED
      BY <2>1
  <1>2. CASE Codex
    <2>1. UNCHANGED <<pc, contexts, lock>>
      BY <1>2 DEF Codex, CodexLine, CodexAnswer, CodexEmit, CodexBegins, CodexReads,
         CodexBeginsStderr, CodexEndsStderr, CodexCloses, CodexExit, callVars,
         convVars, tableVars
    <2> QED
      BY <2>1
  <1>3. ASSUME NEW r \in Requests, Register(r) PROVE ContextOfRunningTurn'
    BY <1>3 DEF Register, codexVars, convVars
  <1>4. ASSUME NEW r \in Requests, AcquireLock(r) PROVE ContextOfRunningTurn'
    BY <1>4, RequestsAssumption DEF AcquireLock, LockIsFree, BridgeTypeOK,
       codexVars, convVars, tableVars
  <1>5. ASSUME NEW r \in Requests, RaiseIfCancelled(r) PROVE ContextOfRunningTurn'
    BY <1>5 DEF RaiseIfCancelled, ChecksCancel, tableVars
  <1>6. ASSUME NEW r \in Requests, EnsureInitialized(r) PROVE ContextOfRunningTurn'
    BY <1>6 DEF EnsureInitialized, convVars, tableVars
  <1>7. ASSUME NEW r \in Requests, ReuseThread(r) PROVE ContextOfRunningTurn'
    BY <1>7 DEF ReuseThread, codexVars, convVars, tableVars
  <1>8. ASSUME NEW r \in Requests, RequestThread(r) PROVE ContextOfRunningTurn'
    BY <1>8 DEF RequestThread, convVars, tableVars
  <1>9. ASSUME NEW r \in Requests, RequestTurn(r) PROVE ContextOfRunningTurn'
    BY <1>9 DEF RequestTurn, tableVars
  <1>10. ASSUME NEW r \in Requests, TransportError(r) PROVE ContextOfRunningTurn'
    BY <1>10 DEF TransportError, Waits, tableVars
  <1>11. ASSUME NEW r \in Requests, ReadAnswer(r) PROVE ContextOfRunningTurn'
    BY <1>11 DEF ReadAnswer, tableVars
  <1>12. ASSUME NEW r \in Requests, ReadErrorAnswer(r) \/ ReadPiece(r) PROVE ContextOfRunningTurn'
    BY <1>12 DEF ReadErrorAnswer, ReadPiece, ReadLine, Reading, MayRead, Waits, convVars,
       tableVars
  <1>13. ASSUME NEW r \in Requests, ReplyFails(r) PROVE ContextOfRunningTurn'
    BY <1>13 DEF ReplyFails, Reading, MayRead, Waits, tableVars
  <1>14. ASSUME NEW r \in Requests, DetectExit(r) PROVE ContextOfRunningTurn'
    BY <1>14 DEF DetectExit, MayRead, Waits, tableVars
  <1>15. ASSUME NEW r \in Requests, FinishTurn(r) PROVE ContextOfRunningTurn'
    BY <1>15 DEF FinishTurn, codexVars, tableVars
  <1>16. ASSUME NEW r \in Requests, ClearContext(r) PROVE ContextOfRunningTurn'
    BY <1>16 DEF ClearContext, WithoutContext, codexVars, tableVars
  <1>17. ASSUME NEW r \in Requests, ReleaseLock(r) PROVE ContextOfRunningTurn'
    BY <1>17, RequestsAssumption DEF ReleaseLock, codexVars, convVars,
       tableVars
  <1>18. ASSUME NEW r \in Requests, Unregister(r) PROVE ContextOfRunningTurn'
    BY <1>18 DEF Unregister, codexVars, convVars
  <1>19. ASSUME NEW r \in Requests, Timeout(r) PROVE ContextOfRunningTurn'
    BY <1>19 DEF Timeout, MayRead, Waits, codexVars, convVars, tableVars
  <1>20. ASSUME NEW r \in Requests, Stall(r) PROVE ContextOfRunningTurn'
    BY <1>20 DEF Stall, codexVars, convVars, tableVars
  <1>21. CASE UNCHANGED vars
    BY <1>21 DEF vars, callVars, tableVars, convVars, codexVars
  <1> QED
    BY <1>1, <1>2, <1>3, <1>4, <1>5, <1>6, <1>7, <1>8, <1>9, <1>10, <1>11,
       <1>12, <1>13, <1>14, <1>15, <1>16, <1>17, <1>18, <1>19, <1>20, <1>21
    DEF Next, PlanStep, ClockStep, Codex, AllDone

\* Every step keeps the child while a call uses it.
LEMMA ProcessStep ==
  ASSUME IInv, [Next]_vars
  PROVE  ProcessWhileInUse'
  <1> USE DEF IInv, CallsInOrder, TypeOK, CallsTypeOK, InLock, Goto, Raise,
          ProcessWhileInUse, ResetProcess
  <1>1. ASSUME NEW r \in Requests,
               CancelRequest(r) \/ DropLine(r) \/ ReadTurnLine(r)
               \/ ReadBlocks(r)
        PROVE  ProcessWhileInUse'
    <2>1. UNCHANGED <<pc, proc>>
      BY <1>1 DEF CancelRequest, DropLine, ReadTurnLine, ReadBlocks, callVars, codexVars,
         convVars, tableVars
    <2> QED
      BY <2>1
  <1>2. CASE Codex
    <2>1. UNCHANGED <<pc, proc>>
      BY <1>2 DEF Codex, CodexLine, CodexAnswer, CodexEmit, CodexBegins, CodexReads,
         CodexBeginsStderr, CodexEndsStderr, CodexCloses, CodexExit, callVars,
         convVars, tableVars
    <2> QED
      BY <2>1
  <1>3. ASSUME NEW r \in Requests, Register(r) PROVE ProcessWhileInUse'
    BY <1>3 DEF Register, codexVars, convVars
  <1>4. ASSUME NEW r \in Requests, AcquireLock(r) PROVE ProcessWhileInUse'
    BY <1>4 DEF AcquireLock, codexVars, convVars, tableVars
  <1>5. ASSUME NEW r \in Requests, RaiseIfCancelled(r) PROVE ProcessWhileInUse'
    BY <1>5 DEF RaiseIfCancelled, ChecksCancel, tableVars
  <1>6. ASSUME NEW r \in Requests, EnsureInitialized(r) PROVE ProcessWhileInUse'
    BY <1>6, RequestsAssumption DEF EnsureInitialized, convVars, tableVars
  <1>7. ASSUME NEW r \in Requests, ReuseThread(r) PROVE ProcessWhileInUse'
    BY <1>7 DEF ReuseThread, codexVars, convVars, tableVars
  <1>8. ASSUME NEW r \in Requests, RequestThread(r) PROVE ProcessWhileInUse'
    BY <1>8 DEF RequestThread, convVars, tableVars
  <1>9. ASSUME NEW r \in Requests, RequestTurn(r) PROVE ProcessWhileInUse'
    BY <1>9 DEF RequestTurn, tableVars
  <1>10. ASSUME NEW r \in Requests, TransportError(r) PROVE ProcessWhileInUse'
    BY <1>10 DEF TransportError, Waits, tableVars
  <1>11. ASSUME NEW r \in Requests, ReadAnswer(r) PROVE ProcessWhileInUse'
    BY <1>11 DEF ReadAnswer, tableVars
  <1>12. ASSUME NEW r \in Requests, ReadErrorAnswer(r) \/ ReadPiece(r) PROVE ProcessWhileInUse'
    BY <1>12 DEF ReadErrorAnswer, ReadPiece, ReadLine, Reading, MayRead, Waits, convVars,
       tableVars
  <1>13. ASSUME NEW r \in Requests, ReplyFails(r) PROVE ProcessWhileInUse'
    BY <1>13 DEF ReplyFails, Reading, MayRead, Waits, tableVars
  <1>14. ASSUME NEW r \in Requests, DetectExit(r) PROVE ProcessWhileInUse'
    BY <1>14 DEF DetectExit, MayRead, Waits, tableVars
  <1>15. ASSUME NEW r \in Requests, FinishTurn(r) PROVE ProcessWhileInUse'
    BY <1>15 DEF FinishTurn, codexVars, tableVars
  <1>16. ASSUME NEW r \in Requests, ClearContext(r) PROVE ProcessWhileInUse'
    BY <1>16 DEF ClearContext, codexVars, tableVars
  <1>17. ASSUME NEW r \in Requests, ReleaseLock(r) PROVE ProcessWhileInUse'
    BY <1>17 DEF ReleaseLock, codexVars, convVars, tableVars
  <1>18. ASSUME NEW r \in Requests, Unregister(r) PROVE ProcessWhileInUse'
    BY <1>18 DEF Unregister, codexVars, convVars
  <1>19. ASSUME NEW r \in Requests, Timeout(r) PROVE ProcessWhileInUse'
    BY <1>19 DEF Timeout, MayRead, Waits, codexVars, convVars, tableVars
  <1>20. ASSUME NEW r \in Requests, Stall(r) PROVE ProcessWhileInUse'
    BY <1>20 DEF Stall, codexVars, convVars, tableVars
  <1>21. CASE UNCHANGED vars
    BY <1>21 DEF vars, callVars, tableVars, convVars, codexVars
  <1> QED
    BY <1>1, <1>2, <1>3, <1>4, <1>5, <1>6, <1>7, <1>8, <1>9, <1>10, <1>11,
       <1>12, <1>13, <1>14, <1>15, <1>16, <1>17, <1>18, <1>19, <1>20, <1>21
    DEF Next, PlanStep, ClockStep, Codex, AllDone

\* Every step keeps the threads those of the child (_get_or_create_thread_locked).
LEMMA ThreadsStep ==
  ASSUME IInv, [Next]_vars
  PROVE  ThreadsOfThisProcess'
  <1> USE RequestsAssumption DEF IInv, CallsInOrder, TypeOK, CallsTypeOK,
          InLock, Goto, Raise, BridgeTypeOK, CodexTypeOK,
          ThreadsOfThisProcess, ResetProcess, ClearConversations
  <1>1. ASSUME NEW r \in Requests,
               CancelRequest(r) \/ DropLine(r) \/ ReadTurnLine(r)
               \/ ReadBlocks(r)
        PROVE  ThreadsOfThisProcess'
    <2>1. UNCHANGED <<pc, threads, thread, proc>>
      BY <1>1 DEF CancelRequest, DropLine, ReadTurnLine, ReadBlocks, callVars, codexVars,
         convVars, tableVars
    <2> QED
      BY <2>1
  <1>2. CASE Codex
    <2>1. UNCHANGED <<pc, threads, thread, proc>>
      BY <1>2 DEF Codex, CodexLine, CodexAnswer, CodexEmit, CodexBegins, CodexReads,
         CodexBeginsStderr, CodexEndsStderr, CodexCloses, CodexExit, callVars,
         convVars, tableVars
    <2> QED
      BY <2>1
  <1>3. ASSUME NEW r \in Requests, Register(r) PROVE ThreadsOfThisProcess'
    BY <1>3 DEF Register, codexVars, convVars
  <1>4. ASSUME NEW r \in Requests, AcquireLock(r) PROVE ThreadsOfThisProcess'
    BY <1>4 DEF AcquireLock, codexVars, convVars, tableVars
  <1>5. ASSUME NEW r \in Requests, RaiseIfCancelled(r) PROVE ThreadsOfThisProcess'
    BY <1>5 DEF RaiseIfCancelled, ChecksCancel, tableVars
  <1>6. ASSUME NEW r \in Requests, EnsureInitialized(r) PROVE ThreadsOfThisProcess'
    BY <1>6 DEF EnsureInitialized, convVars, tableVars
  <1>7. ASSUME NEW r \in Requests, ReuseThread(r) PROVE ThreadsOfThisProcess'
    BY <1>7 DEF ReuseThread, codexVars, convVars, tableVars
  <1>8. ASSUME NEW r \in Requests, RequestThread(r) PROVE ThreadsOfThisProcess'
    BY <1>8 DEF RequestThread, convVars, tableVars
  <1>9. ASSUME NEW r \in Requests, RequestTurn(r) PROVE ThreadsOfThisProcess'
    BY <1>9 DEF RequestTurn, tableVars
  <1>10. ASSUME NEW r \in Requests, TransportError(r) PROVE ThreadsOfThisProcess'
    BY <1>10 DEF TransportError, Waits, tableVars
  <1>11. ASSUME NEW r \in Requests, ReadAnswer(r) PROVE ThreadsOfThisProcess'
    <2>1. CASE pc[r] = "initWait"
      BY <1>11, <2>1 DEF ReadAnswer
    <2>2. CASE pc[r] = "threadWait"
      <3> DEFINE t == [by |-> r, proc |-> proc]
      <3>1. proc \in Requests
        BY <2>2 DEF ProcessWhileInUse
      <3>2. t # None /\ t.proc = proc
        BY <3>1
      <3>3. /\ threads' = [threads EXCEPT ![ConvOf[r]] = t]
            /\ thread' = [thread EXCEPT ![r] = t]
            /\ pc' = [pc EXCEPT ![r] = "start"]
            /\ proc' = proc
        BY <1>11, <2>2 DEF ReadAnswer
      <3> HIDE DEF t
      <3> QED
        BY <2>2, <3>2, <3>3
    <2>3. CASE pc[r] = "turnWait"
      BY <1>11, <2>3 DEF ReadAnswer
    <2> QED
      BY <1>11, <2>1, <2>2, <2>3 DEF ReadAnswer
  <1>12. ASSUME NEW r \in Requests, ReadErrorAnswer(r) \/ ReadPiece(r) PROVE ThreadsOfThisProcess'
    BY <1>12 DEF ReadErrorAnswer, ReadPiece, ReadLine, Reading, MayRead, Waits, convVars,
       tableVars
  <1>13. ASSUME NEW r \in Requests, ReplyFails(r) PROVE ThreadsOfThisProcess'
    BY <1>13 DEF ReplyFails, Reading, MayRead, Waits, tableVars
  <1>14. ASSUME NEW r \in Requests, DetectExit(r) PROVE ThreadsOfThisProcess'
    BY <1>14 DEF DetectExit, MayRead, Waits, tableVars
  <1>15. ASSUME NEW r \in Requests, FinishTurn(r) PROVE ThreadsOfThisProcess'
    BY <1>15 DEF FinishTurn, codexVars, tableVars
  <1>16. ASSUME NEW r \in Requests, ClearContext(r) PROVE ThreadsOfThisProcess'
    BY <1>16 DEF ClearContext, codexVars, tableVars
  <1>17. ASSUME NEW r \in Requests, ReleaseLock(r) PROVE ThreadsOfThisProcess'
    BY <1>17 DEF ReleaseLock, codexVars, convVars, tableVars
  <1>18. ASSUME NEW r \in Requests, Unregister(r) PROVE ThreadsOfThisProcess'
    BY <1>18 DEF Unregister, codexVars, convVars
  <1>19. ASSUME NEW r \in Requests, Timeout(r) PROVE ThreadsOfThisProcess'
    BY <1>19 DEF Timeout, MayRead, Waits, codexVars, convVars, tableVars
  <1>20. ASSUME NEW r \in Requests, Stall(r) PROVE ThreadsOfThisProcess'
    BY <1>20 DEF Stall, codexVars, convVars, tableVars
  <1>21. CASE UNCHANGED vars
    BY <1>21 DEF vars, callVars, tableVars, convVars, codexVars
  <1> QED
    BY <1>1, <1>2, <1>3, <1>4, <1>5, <1>6, <1>7, <1>8, <1>9, <1>10, <1>11,
       <1>12, <1>13, <1>14, <1>15, <1>16, <1>17, <1>18, <1>19, <1>20, <1>21
    DEF Next, PlanStep, ClockStep, Codex, AllDone

\* Every step keeps an open turn counted and out of the history.
LEMMA OpenTurnStep ==
  ASSUME IInv, [Next]_vars
  PROVE  OpenTurnIsCounted'
  <1> USE RequestsAssumption DEF IInv, CallsInOrder, TypeOK, CallsTypeOK,
          InLock, Goto, Raise, BridgeTypeOK, HistoryOfThisThread,
          OpenTurnIsCounted, ResetProcess, ClearConversations
  <1>1. ASSUME NEW r \in Requests,
               CancelRequest(r) \/ DropLine(r) \/ ReadTurnLine(r)
               \/ ReadBlocks(r)
        PROVE  OpenTurnIsCounted'
    <2>1. UNCHANGED <<pc, history, turnCount>>
      BY <1>1 DEF CancelRequest, DropLine, ReadTurnLine, ReadBlocks, callVars, codexVars,
         convVars, tableVars
    <2> QED
      BY <2>1
  <1>2. CASE Codex
    <2>1. UNCHANGED <<pc, history, turnCount>>
      BY <1>2 DEF Codex, CodexLine, CodexAnswer, CodexEmit, CodexBegins, CodexReads,
         CodexBeginsStderr, CodexEndsStderr, CodexCloses, CodexExit, callVars,
         convVars, tableVars
    <2> QED
      BY <2>1
  <1>3. ASSUME NEW r \in Requests, Register(r) PROVE OpenTurnIsCounted'
    BY <1>3 DEF Register, codexVars, convVars
  <1>4. ASSUME NEW r \in Requests, AcquireLock(r) PROVE OpenTurnIsCounted'
    BY <1>4 DEF AcquireLock, codexVars, convVars, tableVars
  <1>5. ASSUME NEW r \in Requests, RaiseIfCancelled(r) PROVE OpenTurnIsCounted'
    BY <1>5 DEF RaiseIfCancelled, ChecksCancel, tableVars
  <1>6. ASSUME NEW r \in Requests, EnsureInitialized(r) PROVE OpenTurnIsCounted'
    BY <1>6 DEF EnsureInitialized, convVars, tableVars
  <1>7. ASSUME NEW r \in Requests, ReuseThread(r) PROVE OpenTurnIsCounted'
    BY <1>7 DEF ReuseThread, codexVars, convVars, tableVars
  <1>8. ASSUME NEW r \in Requests, RequestThread(r) PROVE OpenTurnIsCounted'
    BY <1>8 DEF RequestThread, convVars, tableVars
  <1>9. ASSUME NEW r \in Requests, RequestTurn(r) PROVE OpenTurnIsCounted'
    BY <1>9 DEF RequestTurn, NextTurnIndex, tableVars
  <1>10. ASSUME NEW r \in Requests, TransportError(r) PROVE OpenTurnIsCounted'
    BY <1>10 DEF TransportError, Waits, tableVars
  <1>11. ASSUME NEW r \in Requests, ReadAnswer(r) PROVE OpenTurnIsCounted'
    BY <1>11 DEF ReadAnswer, tableVars
  <1>12. ASSUME NEW r \in Requests, ReadErrorAnswer(r) \/ ReadPiece(r) PROVE OpenTurnIsCounted'
    BY <1>12 DEF ReadErrorAnswer, ReadPiece, ReadLine, Reading, MayRead, Waits, convVars,
       tableVars
  <1>13. ASSUME NEW r \in Requests, ReplyFails(r) PROVE OpenTurnIsCounted'
    BY <1>13 DEF ReplyFails, Reading, MayRead, Waits, tableVars
  <1>14. ASSUME NEW r \in Requests, DetectExit(r) PROVE OpenTurnIsCounted'
    BY <1>14 DEF DetectExit, MayRead, Waits, tableVars
  <1>15. ASSUME NEW r \in Requests, FinishTurn(r) PROVE OpenTurnIsCounted'
    BY <1>15 DEF FinishTurn, codexVars, tableVars
  <1>16. ASSUME NEW r \in Requests, ClearContext(r) PROVE OpenTurnIsCounted'
    BY <1>16 DEF ClearContext, codexVars, tableVars
  <1>17. ASSUME NEW r \in Requests, ReleaseLock(r) PROVE OpenTurnIsCounted'
    BY <1>17 DEF ReleaseLock, codexVars, convVars, tableVars
  <1>18. ASSUME NEW r \in Requests, Unregister(r) PROVE OpenTurnIsCounted'
    BY <1>18 DEF Unregister, codexVars, convVars
  <1>19. ASSUME NEW r \in Requests, Timeout(r) PROVE OpenTurnIsCounted'
    BY <1>19 DEF Timeout, MayRead, Waits, codexVars, convVars, tableVars
  <1>20. ASSUME NEW r \in Requests, Stall(r) PROVE OpenTurnIsCounted'
    BY <1>20 DEF Stall, codexVars, convVars, tableVars
  <1>21. CASE UNCHANGED vars
    BY <1>21 DEF vars, callVars, tableVars, convVars, codexVars
  <1> QED
    BY <1>1, <1>2, <1>3, <1>4, <1>5, <1>6, <1>7, <1>8, <1>9, <1>10, <1>11,
       <1>12, <1>13, <1>14, <1>15, <1>16, <1>17, <1>18, <1>19, <1>20, <1>21
    DEF Next, PlanStep, ClockStep, Codex, AllDone

\* Every step keeps the histories within the turns of the thread.
LEMMA HistoryStep ==
  ASSUME IInv, [Next]_vars
  PROVE  HistoryOfThisThread'
  <1> USE RequestsAssumption DEF IInv, CallsInOrder, TypeOK, CallsTypeOK,
          InLock, Goto, Raise, BridgeTypeOK, HistoryOfThisThread,
          ResetProcess, ClearConversations
  <1>1. ASSUME NEW r \in Requests,
               Register(r) \/ CancelRequest(r) \/ AcquireLock(r) \/
               ReuseThread(r) \/ RequestThread(r) \/ ReadErrorAnswer(r)
               \/ DropLine(r) \/ ReadTurnLine(r) \/ ClearContext(r) \/
               ReleaseLock(r) \/ Unregister(r) \/ Timeout(r) \/ Stall(r)
               \/ ReadBlocks(r) \/ ReadPiece(r)
        PROVE  HistoryOfThisThread'
    <2>1. UNCHANGED <<threads, history, turnCount>>
      BY <1>1 DEF Register, CancelRequest, AcquireLock, ReuseThread,
         RequestThread, ReadErrorAnswer, DropLine, ReadTurnLine, ClearContext,
         ReleaseLock, Unregister, Timeout, Stall, ReadBlocks, ReadPiece,
         callVars, codexVars,
         convVars, tableVars
    <2> QED
      BY <2>1
  <1>2. CASE Codex
    <2>1. UNCHANGED <<threads, history, turnCount>>
      BY <1>2 DEF Codex, CodexLine, CodexAnswer, CodexEmit, CodexBegins, CodexReads,
         CodexBeginsStderr, CodexEndsStderr, CodexCloses, CodexExit, callVars,
         convVars, tableVars
    <2> QED
      BY <2>1
  <1>3. ASSUME NEW r \in Requests, RaiseIfCancelled(r) PROVE HistoryOfThisThread'
    BY <1>3 DEF RaiseIfCancelled, ChecksCancel, tableVars
  <1>4. ASSUME NEW r \in Requests, EnsureInitialized(r) PROVE HistoryOfThisThread'
    BY <1>4 DEF EnsureInitialized, convVars, tableVars
  <1>5. ASSUME NEW r \in Requests, RequestTurn(r) PROVE HistoryOfThisThread'
    BY <1>5 DEF RequestTurn, NextTurnIndex, ThreadsOfThisProcess, tableVars
  <1>6. ASSUME NEW r \in Requests, TransportError(r) PROVE HistoryOfThisThread'
    BY <1>6 DEF TransportError, Waits, tableVars
  <1>7. ASSUME NEW r \in Requests, ReadAnswer(r) PROVE HistoryOfThisThread'
    <2>1. CASE pc[r] = "threadWait"
      <3> DEFINE t == [by |-> r, proc |-> proc]
      <3>1. t # None
        BY <2>1 DEF ProcessWhileInUse, CodexTypeOK
      <3>2. /\ threads' = [threads EXCEPT ![ConvOf[r]] = t]
            /\ UNCHANGED <<history, turnCount>>
        BY <1>7, <2>1 DEF ReadAnswer
      <3> HIDE DEF t
      <3> QED
        BY <3>1, <3>2
    <2>2. CASE pc[r] # "threadWait"
      BY <1>7, <2>2 DEF ReadAnswer
    <2> QED
      BY <2>1, <2>2
  <1>8. ASSUME NEW r \in Requests, ReplyFails(r) PROVE HistoryOfThisThread'
    BY <1>8 DEF ReplyFails, Reading, MayRead, Waits, tableVars
  <1>9. ASSUME NEW r \in Requests, DetectExit(r) PROVE HistoryOfThisThread'
    BY <1>9 DEF DetectExit, MayRead, Waits, tableVars
  <1>10. ASSUME NEW r \in Requests, FinishTurn(r) PROVE HistoryOfThisThread'
    BY <1>10 DEF FinishTurn, OpenTurnIsCounted, codexVars, tableVars
  <1>11. CASE UNCHANGED vars
    BY <1>11 DEF vars, callVars, tableVars, convVars, codexVars
  <1> QED
    BY <1>1, <1>2, <1>3, <1>4, <1>5, <1>6, <1>7, <1>8, <1>9, <1>10, <1>11
    DEF Next, PlanStep, ClockStep, Codex, AllDone

\* Every step keeps foreign lines out of the turn state.
LEMMA TurnStateStep ==
  ASSUME IInv, [Next]_vars
  PROVE  TurnStateIsOwn'
  <1> USE DEF IInv, CallsInOrder, TypeOK, CallsTypeOK, InLock, Goto, Raise,
          BridgeTypeOK, TurnStateIsOwn
  <1>1. ASSUME NEW r \in Requests,
               CancelRequest(r) \/ DropLine(r) \/ ReadBlocks(r)
        PROVE  TurnStateIsOwn'
    <2>1. UNCHANGED <<pc, lock, turn>>
      BY <1>1 DEF CancelRequest, DropLine, ReadBlocks, callVars, codexVars, convVars,
         tableVars
    <2> QED
      BY <2>1
  <1>2. CASE Codex
    <2>1. UNCHANGED <<pc, lock, turn>>
      BY <1>2 DEF Codex, CodexLine, CodexAnswer, CodexEmit, CodexBegins, CodexReads,
         CodexBeginsStderr, CodexEndsStderr, CodexCloses, CodexExit, callVars,
         convVars, tableVars
    <2> QED
      BY <2>1
  <1>3. ASSUME NEW r \in Requests, Register(r) PROVE TurnStateIsOwn'
    BY <1>3 DEF Register, codexVars, convVars
  <1>4. ASSUME NEW r \in Requests, AcquireLock(r) PROVE TurnStateIsOwn'
    BY <1>4, RequestsAssumption DEF AcquireLock, LockIsFree, NewTurn,
       codexVars, convVars, tableVars
  <1>5. ASSUME NEW r \in Requests, RaiseIfCancelled(r) PROVE TurnStateIsOwn'
    BY <1>5 DEF RaiseIfCancelled, ChecksCancel, tableVars
  <1>6. ASSUME NEW r \in Requests, EnsureInitialized(r) PROVE TurnStateIsOwn'
    BY <1>6 DEF EnsureInitialized, convVars, tableVars
  <1>7. ASSUME NEW r \in Requests, ReuseThread(r) PROVE TurnStateIsOwn'
    BY <1>7 DEF ReuseThread, codexVars, convVars, tableVars
  <1>8. ASSUME NEW r \in Requests, RequestThread(r) PROVE TurnStateIsOwn'
    BY <1>8 DEF RequestThread, convVars, tableVars
  <1>9. ASSUME NEW r \in Requests, RequestTurn(r) PROVE TurnStateIsOwn'
    BY <1>9 DEF RequestTurn, tableVars
  <1>10. ASSUME NEW r \in Requests, TransportError(r) PROVE TurnStateIsOwn'
    BY <1>10 DEF TransportError, Waits, tableVars
  <1>11. ASSUME NEW r \in Requests, ReadAnswer(r) PROVE TurnStateIsOwn'
    BY <1>11 DEF ReadAnswer, NewTurn, tableVars
  <1>12. ASSUME NEW r \in Requests, ReadErrorAnswer(r) \/ ReadPiece(r) PROVE TurnStateIsOwn'
    BY <1>12 DEF ReadErrorAnswer, ReadPiece, ReadLine, Reading, MayRead, Waits, convVars,
       tableVars
  <1>13. ASSUME NEW r \in Requests, ReplyFails(r) PROVE TurnStateIsOwn'
    BY <1>13 DEF ReplyFails, Reading, MayRead, Waits, tableVars
  <1>14. ASSUME NEW r \in Requests, ReadTurnLine(r) PROVE TurnStateIsOwn'
    BY <1>14 DEF ReadTurnLine, LineOfTurn, convVars, tableVars
  <1>15. ASSUME NEW r \in Requests, DetectExit(r) PROVE TurnStateIsOwn'
    BY <1>15 DEF DetectExit, MayRead, Waits, tableVars
  <1>16. ASSUME NEW r \in Requests, FinishTurn(r) PROVE TurnStateIsOwn'
    BY <1>16 DEF FinishTurn, codexVars, tableVars
  <1>17. ASSUME NEW r \in Requests, ClearContext(r) PROVE TurnStateIsOwn'
    BY <1>17 DEF ClearContext, NewTurn, codexVars, tableVars
  <1>18. ASSUME NEW r \in Requests, ReleaseLock(r) PROVE TurnStateIsOwn'
    BY <1>18 DEF ReleaseLock, NewTurn, codexVars, convVars, tableVars
  <1>19. ASSUME NEW r \in Requests, Unregister(r) PROVE TurnStateIsOwn'
    BY <1>19 DEF Unregister, codexVars, convVars
  <1>20. ASSUME NEW r \in Requests, Timeout(r) PROVE TurnStateIsOwn'
    BY <1>20 DEF Timeout, MayRead, Waits, codexVars, convVars, tableVars
  <1>21. ASSUME NEW r \in Requests, Stall(r) PROVE TurnStateIsOwn'
    BY <1>21 DEF Stall, codexVars, convVars, tableVars
  <1>22. CASE UNCHANGED vars
    BY <1>22 DEF vars, callVars, tableVars, convVars, codexVars
  <1> QED
    BY <1>1, <1>2, <1>3, <1>4, <1>5, <1>6, <1>7, <1>8, <1>9, <1>10, <1>11,
       <1>12, <1>13, <1>14, <1>15, <1>16, <1>17, <1>18, <1>19, <1>20, <1>21,
       <1>22
    DEF Next, PlanStep, ClockStep, Codex, AllDone

\* Every step keeps cancelled turns away from Codex.
LEMMA CancelStopsStep ==
  ASSUME IInv, [Next]_vars
  PROVE  CancelStopsCodex'
  <1> USE DEF IInv, CallsInOrder, TypeOK, CallsTypeOK, InLock, Goto, Raise,
          CancelStopsCodex, ResetProcess, NewPipes, Send
  <1>1. ASSUME NEW r \in Requests,
               Register(r) \/ CancelRequest(r) \/ AcquireLock(r) \/
               ReuseThread(r) \/ ReadAnswer(r) \/ DropLine(r) \/
               ReadTurnLine(r) \/ ClearContext(r) \/ ReleaseLock(r) \/
               Unregister(r) \/ ReadBlocks(r)
        PROVE  CancelStopsCodex'
    <2>1. UNCHANGED <<outcome, running, inbox>>
      BY <1>1 DEF Register, CancelRequest, AcquireLock, ReuseThread,
         ReadAnswer, DropLine, ReadTurnLine, ClearContext, ReleaseLock,
         Unregister, ReadBlocks, callVars, codexVars, convVars, tableVars
    <2> QED
      BY <2>1
  <1>2. ASSUME NEW r \in Requests, RaiseIfCancelled(r) PROVE CancelStopsCodex'
    BY <1>2 DEF RaiseIfCancelled, ChecksCancel, tableVars
  <1>3. ASSUME NEW r \in Requests, EnsureInitialized(r) PROVE CancelStopsCodex'
    BY <1>3 DEF EnsureInitialized, convVars, tableVars
  <1>4. ASSUME NEW r \in Requests, RequestThread(r) PROVE CancelStopsCodex'
    BY <1>4 DEF RequestThread, convVars, tableVars
  <1>5. ASSUME NEW r \in Requests, RequestTurn(r) PROVE CancelStopsCodex'
    BY <1>5 DEF RequestTurn, tableVars
  <1>6. ASSUME NEW r \in Requests, TransportError(r) PROVE CancelStopsCodex'
    BY <1>6 DEF TransportError, Waits, tableVars
  <1>7. ASSUME NEW r \in Requests, ReadErrorAnswer(r) \/ ReadPiece(r) PROVE CancelStopsCodex'
    BY <1>7 DEF ReadErrorAnswer, ReadPiece, ReadLine, Reading, MayRead, Waits, convVars, tableVars
  <1>8. ASSUME NEW r \in Requests, ReplyFails(r) PROVE CancelStopsCodex'
    BY <1>8 DEF ReplyFails, Reading, MayRead, Waits, tableVars
  <1>9. ASSUME NEW r \in Requests, DetectExit(r) PROVE CancelStopsCodex'
    BY <1>9 DEF DetectExit, MayRead, Waits, tableVars
  <1>10. ASSUME NEW r \in Requests, FinishTurn(r) PROVE CancelStopsCodex'
    BY <1>10 DEF FinishTurn, codexVars, tableVars
  <1>11. ASSUME NEW r \in Requests, Timeout(r) PROVE CancelStopsCodex'
    BY <1>11 DEF Timeout, MayRead, Waits, codexVars, convVars, tableVars
  <1>12. ASSUME NEW r \in Requests, Stall(r) PROVE CancelStopsCodex'
    BY <1>12 DEF Stall, codexVars, convVars, tableVars
  <1>13. ASSUME NEW q \in inbox, NEW ok \in BOOLEAN, CodexAnswer(q, ok)
        PROVE  CancelStopsCodex'
    <2>1. q \in Rpc
      BY DEF CodexTypeOK
    <2>2. q.kind = "turn/start" => q = [kind |-> "turn/start", req |-> q.req]
      BY <2>1 DEF Rpc
    <2> QED
      BY <1>13, <2>2 DEF CodexAnswer, callVars
  <1>14. ASSUME NEW r \in Requests, NEW k \in TurnKinds, NEW ok \in BOOLEAN,
               CodexEmit(r, k, ok)
        PROVE  CancelStopsCodex'
    BY <1>14 DEF CodexEmit, callVars, convVars, tableVars
  <1>15. ASSUME NEW e \in {"eof", "open"}, CodexExit(e)
        PROVE  CancelStopsCodex'
    BY <1>15 DEF CodexExit, callVars, convVars, tableVars
  <1>16. CASE UNCHANGED vars
    BY <1>16 DEF vars, callVars, tableVars, convVars, codexVars
  <1>17. ASSUME NEW r \in Requests, CodexBeginsStderr(r) PROVE CancelStopsCodex'
    BY <1>17 DEF CodexBeginsStderr, callVars
  <1>18. CASE CodexBegins \/ CodexEndsStderr \/ CodexCloses
    BY <1>18 DEF CodexBegins, CodexEndsStderr, CodexCloses, callVars
  <1>19. CASE CodexReads
    <2>1. io # "free" => outcome[lock] = "none"
      BY DEF BlockedWhileWaiting, Waits
    <2> QED
      BY <1>19, <2>1 DEF CodexReads, callVars
  <1> QED
    BY <1>1, <1>2, <1>3, <1>4, <1>5, <1>6, <1>7, <1>8, <1>9, <1>10, <1>11,
       <1>12, <1>13, <1>14, <1>15, <1>16, <1>17, <1>18, <1>19
    DEF Next, PlanStep, ClockStep, Codex, CodexLine, AllDone

\* Every step keeps turns to the calls that sent them.
LEMMA PastCallsStep ==
  ASSUME IInv, [Next]_vars
  PROVE  TurnsAreOfPastCalls'
  <1> USE DEF IInv, CallsInOrder, TypeOK, CallsTypeOK, InLock, Goto, Raise,
          TurnsAreOfPastCalls, ResetProcess, NewPipes, Send
  <1>1. ASSUME NEW r \in Requests,
               CancelRequest(r) \/ DropLine(r) \/ ReadTurnLine(r)
               \/ ReadBlocks(r)
        PROVE  TurnsAreOfPastCalls'
    <2>1. UNCHANGED <<pc, running, inbox>>
      BY <1>1 DEF CancelRequest, DropLine, ReadTurnLine, ReadBlocks, callVars, codexVars,
         convVars, tableVars
    <2> QED
      BY <2>1
  <1>2. ASSUME NEW r \in Requests, Register(r) PROVE TurnsAreOfPastCalls'
    BY <1>2 DEF Register, codexVars, convVars
  <1>3. ASSUME NEW r \in Requests, AcquireLock(r) PROVE TurnsAreOfPastCalls'
    BY <1>3 DEF AcquireLock, codexVars, convVars, tableVars
  <1>4. ASSUME NEW r \in Requests, RaiseIfCancelled(r) PROVE TurnsAreOfPastCalls'
    BY <1>4 DEF RaiseIfCancelled, ChecksCancel, tableVars
  <1>5. ASSUME NEW r \in Requests, EnsureInitialized(r) PROVE TurnsAreOfPastCalls'
    BY <1>5 DEF EnsureInitialized, convVars, tableVars
  <1>6. ASSUME NEW r \in Requests, ReuseThread(r) PROVE TurnsAreOfPastCalls'
    BY <1>6 DEF ReuseThread, codexVars, convVars, tableVars
  <1>7. ASSUME NEW r \in Requests, RequestThread(r) PROVE TurnsAreOfPastCalls'
    BY <1>7 DEF RequestThread, convVars, tableVars
  <1>8. ASSUME NEW r \in Requests, RequestTurn(r) PROVE TurnsAreOfPastCalls'
    BY <1>8 DEF RequestTurn, tableVars
  <1>9. ASSUME NEW r \in Requests, TransportError(r) PROVE TurnsAreOfPastCalls'
    BY <1>9 DEF TransportError, Waits, tableVars
  <1>10. ASSUME NEW r \in Requests, ReadAnswer(r) PROVE TurnsAreOfPastCalls'
    BY <1>10 DEF ReadAnswer, tableVars
  <1>11. ASSUME NEW r \in Requests, ReadErrorAnswer(r) \/ ReadPiece(r) PROVE TurnsAreOfPastCalls'
    BY <1>11 DEF ReadErrorAnswer, ReadPiece, ReadLine, Reading, MayRead, Waits, convVars,
       tableVars
  <1>12. ASSUME NEW r \in Requests, ReplyFails(r) PROVE TurnsAreOfPastCalls'
    BY <1>12 DEF ReplyFails, Reading, MayRead, Waits, tableVars
  <1>13. ASSUME NEW r \in Requests, DetectExit(r) PROVE TurnsAreOfPastCalls'
    BY <1>13 DEF DetectExit, MayRead, Waits, tableVars
  <1>14. ASSUME NEW r \in Requests, FinishTurn(r) PROVE TurnsAreOfPastCalls'
    BY <1>14 DEF FinishTurn, codexVars, tableVars
  <1>15. ASSUME NEW r \in Requests, ClearContext(r) PROVE TurnsAreOfPastCalls'
    BY <1>15 DEF ClearContext, codexVars, tableVars
  <1>16. ASSUME NEW r \in Requests, ReleaseLock(r) PROVE TurnsAreOfPastCalls'
    BY <1>16 DEF ReleaseLock, codexVars, convVars, tableVars
  <1>17. ASSUME NEW r \in Requests, Unregister(r) PROVE TurnsAreOfPastCalls'
    BY <1>17 DEF Unregister, codexVars, convVars
  <1>18. ASSUME NEW r \in Requests, Timeout(r) PROVE TurnsAreOfPastCalls'
    BY <1>18 DEF Timeout, MayRead, Waits, codexVars, convVars, tableVars
  <1>19. ASSUME NEW r \in Requests, Stall(r) PROVE TurnsAreOfPastCalls'
    BY <1>19 DEF Stall, codexVars, convVars, tableVars
  <1>20. ASSUME NEW q \in inbox, NEW ok \in BOOLEAN, CodexAnswer(q, ok)
        PROVE  TurnsAreOfPastCalls'
    <2>1. q \in Rpc
      BY DEF CodexTypeOK
    <2>2. q.kind = "turn/start" => q = [kind |-> "turn/start", req |-> q.req]
      BY <2>1 DEF Rpc
    <2> QED
      BY <1>20, <2>2 DEF CodexAnswer, callVars
  <1>21. ASSUME NEW r \in Requests, NEW k \in TurnKinds, NEW ok \in BOOLEAN,
               CodexEmit(r, k, ok)
        PROVE  TurnsAreOfPastCalls'
    BY <1>21 DEF CodexEmit, callVars, convVars, tableVars
  <1>22. ASSUME NEW e \in {"eof", "open"}, CodexExit(e)
        PROVE  TurnsAreOfPastCalls'
    BY <1>22 DEF CodexExit, callVars, convVars, tableVars
  <1>23. CASE UNCHANGED vars
    BY <1>23 DEF vars, callVars, tableVars, convVars, codexVars
  <1>24. ASSUME NEW r \in Requests, CodexBeginsStderr(r)
         PROVE  TurnsAreOfPastCalls'
    BY <1>24 DEF CodexBeginsStderr, callVars
  <1>25. CASE CodexBegins \/ CodexEndsStderr \/ CodexCloses
    BY <1>25 DEF CodexBegins, CodexEndsStderr, CodexCloses, callVars
  <1>26. CASE CodexReads
    <2>1. io # "free" => lock \in Requests /\ pc[lock] \in Waits
      BY DEF BlockedWhileWaiting
    <2>2. io = "send" /\ Awaited(lock) = "turn/start" => pc[lock] = "turnWait"
      BY <2>1 DEF Awaited, Waits
    <2> QED
      BY <1>26, <2>1, <2>2 DEF CodexReads, callVars
  <1> QED
    BY <1>1, <1>2, <1>3, <1>4, <1>5, <1>6, <1>7, <1>8, <1>9, <1>10, <1>11,
       <1>12, <1>13, <1>14, <1>15, <1>16, <1>17, <1>18, <1>19, <1>20, <1>21,
       <1>22, <1>23, <1>24, <1>25, <1>26
    DEF Next, PlanStep, ClockStep, Codex, CodexLine, AllDone

\* Every step keeps a blocked call at a place where it waits for Codex
\* (_send_json_locked, _read_message_locked).
LEMMA BlockedStep ==
  ASSUME IInv, [Next]_vars
  PROVE  BlockedWhileWaiting'
  <1> USE DEF IInv, CallsInOrder, TypeOK, CallsTypeOK, InLock, Goto,
          BlockedWhileWaiting, Waits
  <1>1. ASSUME NEW r \in Requests, Register(r) \/ CancelRequest(r)
        PROVE  BlockedWhileWaiting'
    BY <1>1 DEF Register, CancelRequest, codexVars
  <1>2. ASSUME NEW r \in Requests, AcquireLock(r)
        PROVE  BlockedWhileWaiting'
    BY <1>2, RequestsAssumption DEF AcquireLock, LockIsFree, codexVars
  <1>3. ASSUME NEW r \in Requests,
               \/ RaiseIfCancelled(r) \/ TransportError(r) \/ ReplyFails(r)
               \/ DetectExit(r) \/ ReadPiece(r) \/ ReadErrorAnswer(r)
               \/ ReadAnswer(r) \/ Timeout(r) \/ Stall(r)
        PROVE  io' = "free"
    <2>1. IsAnswer(r) => NextLine.kind # "tool"
      BY DEF IsAnswer, Awaited
    <2> QED
      BY <1>3, <2>1 DEF RaiseIfCancelled, TransportError, ReplyFails, DetectExit,
         ReadPiece, ReadErrorAnswer, ReadAnswer, Timeout, Stall, ResetProcess,
         NewPipes, ReadLine, MayRead, codexVars
  <1>4. ASSUME NEW r \in Requests, EnsureInitialized(r)
        PROVE  BlockedWhileWaiting'
    <2>1. pc[r] = "init" /\ lock = r /\ lock' = lock /\ io = "free"
      BY <1>4 DEF EnsureInitialized
    <2>2. io' # "free" => pc' = [pc EXCEPT ![r] = "initWait"]
      BY <1>4, <2>1 DEF EnsureInitialized, NewPipes, ResetProcess, Send
    <2> QED
      BY <2>1, <2>2
  <1>5. ASSUME NEW r \in Requests, ReuseThread(r)
        PROVE  BlockedWhileWaiting'
    BY <1>5 DEF ReuseThread, codexVars
  <1>6. ASSUME NEW r \in Requests, RequestThread(r) \/ RequestTurn(r)
        PROVE  BlockedWhileWaiting'
    BY <1>6 DEF RequestThread, RequestTurn
  <1>7. ASSUME NEW r \in Requests, DropLine(r) \/ ReadTurnLine(r)
        PROVE  BlockedWhileWaiting'
    <2>1. pc[r] \in Waits /\ lock = r /\ lock' = lock /\ pc' = pc
      BY <1>7 DEF DropLine, ReadTurnLine, ReadLine, Reading, MayRead, callVars
    <2>2. pc[r] = "run" => ~turn.completed
      BY <1>7, <2>1 DEF DropLine, ReadTurnLine, ReadLine, Reading, MayRead
    <2>3. io' = "reply" \/ io' = "free"
      BY <1>7 DEF DropLine, ReadTurnLine, ReadLine
    <2>4. CASE ReadTurnLine(r)
      <3>1. io' = "reply" => NextLine.kind = "tool"
        BY <2>4 DEF ReadTurnLine, ReadLine
      <3>2. NextLine.kind = "tool" => turn'.completed = turn.completed
        BY <2>4 DEF ReadTurnLine, BridgeTypeOK
      <3> QED
        BY <2>1, <2>2, <2>3, <3>1, <3>2
    <2>5. CASE DropLine(r)
      BY <2>1, <2>2, <2>3, <2>5 DEF DropLine
    <2> QED
      BY <1>7, <2>4, <2>5
  <1>8. ASSUME NEW r \in Requests, ReadBlocks(r) \/ CodexBeginsStderr(r)
        PROVE  BlockedWhileWaiting'
    BY <1>8 DEF ReadBlocks, CodexBeginsStderr, MayRead, callVars
  <1>9. ASSUME NEW r \in Requests,
               FinishTurn(r) \/ ClearContext(r) \/ ReleaseLock(r)
        PROVE  BlockedWhileWaiting'
    <2>1. lock = r /\ io = "free" /\ io' = io
      BY <1>9 DEF FinishTurn, ClearContext, ReleaseLock, codexVars
    <2> QED
      BY <2>1
  <1>10. ASSUME NEW r \in Requests, Unregister(r)
         PROVE  BlockedWhileWaiting'
    BY <1>10 DEF Unregister, codexVars
  <1>11. CASE Codex /\ ~\E r \in Requests : CodexBeginsStderr(r)
    BY <1>11 DEF Codex, CodexLine, CodexAnswer, CodexEmit, CodexBegins,
       CodexReads, CodexEndsStderr, CodexCloses, CodexExit, callVars
  <1>12. CASE UNCHANGED vars
    BY <1>12 DEF vars, callVars, codexVars
  <1> QED
    BY <1>1, <1>2, <1>3, <1>4, <1>5, <1>6, <1>7, <1>8, <1>9, <1>10, <1>11, <1>12
    DEF Next, PlanStep, ClockStep, AllDone

\* The inductive invariant is preserved by every step.
LEMMA InvariantStep == IInv /\ [Next]_vars => IInv'
  <1> SUFFICES ASSUME IInv, [Next]_vars PROVE IInv'
    OBVIOUS
  <1>1. TypeOK'
    BY TypeStep DEF IInv
  <1>2. CallsInOrder' /\ CancelIsSeen' /\ ContextOfRunningTurn'
    BY CallsInOrderStep, CancelIsSeenStep, ContextStep
  <1>3. ThreadsOfThisProcess' /\ HistoryOfThisThread' /\ TurnStateIsOwn'
    BY ThreadsStep, HistoryStep, TurnStateStep
  <1>4. CancelStopsCodex' /\ TurnsAreOfPastCalls'
    BY CancelStopsStep, PastCallsStep
  <1>5. ProcessWhileInUse' /\ OpenTurnIsCounted' /\ BlockedWhileWaiting'
    BY ProcessStep, OpenTurnStep, BlockedStep
  <1> QED
    BY <1>1, <1>2, <1>3, <1>4, <1>5 DEF IInv

\* The inductive invariant holds in every state of the bridge, for every set
\* of requests and conversations (BridgeRequests).
THEOREM InductiveInvariant == Spec => []IInv
  <1>1. Init => IInv
    BY InitIInv
  <1>2. IInv /\ [Next]_vars => IInv'
    BY InvariantStep
  <1> QED
    BY <1>1, <1>2, PTL DEF Spec

\* Every variable of the bridge keeps its type.
THEOREM TypeCorrect == Spec => []TypeOK
  <1>1. IInv => TypeOK
    BY DEF IInv
  <1> QED
    BY <1>1, InductiveInvariant, PTL

\* However many calls run and whenever the cancel endpoint is called, a call
\* that is registered has its cancel event set exactly when it was cancelled
\* (_register_request, cancel_request).
THEOREM CancelSeen == Spec => []CancelIsSeen
  <1>1. IInv => CancelIsSeen
    BY DEF IInv
  <1> QED
    BY <1>1, InductiveInvariant, PTL

\* The turn context exists while its turn is read, belongs to the holder of
\* _lock, and no call leaves one behind (_run_turn_locked).
THEOREM ContextExact == Spec => []ContextOfRunningTurn
  <1>1. IInv => ContextOfRunningTurn
    BY DEF IInv
  <1> QED
    BY <1>1, InductiveInvariant, PTL

\* No conversation is mapped to a thread of a child process that is gone, and
\* a call uses the thread its conversation is mapped to (_reset_process_locked).
THEOREM ThreadsFresh == Spec => []ThreadsOfThisProcess
  <1>1. IInv => ThreadsOfThisProcess
    BY DEF IInv
  <1> QED
    BY <1>1, InductiveInvariant, PTL

\* The history and turn count of a conversation never outlive its thread
\* (_run_turn_locked, _reset_process_locked).
THEOREM HistoryFresh == Spec => []HistoryOfThisThread
  <1>1. IInv => HistoryOfThisThread
    BY DEF IInv
  <1> QED
    BY <1>1, InductiveInvariant, PTL

\* A turn never collects a line of another turn (_handle_message_locked).
THEOREM TurnOwn == Spec => []TurnStateIsOwn
  <1>1. IInv => TurnStateIsOwn
    BY DEF IInv
  <1> QED
    BY <1>1, InductiveInvariant, PTL

\* Codex does not go on with a turn that was reported as cancelled
\* (_raise_if_cancelled_locked).
THEOREM CancelledTurnStops == Spec => []CancelStopsCodex
  <1>1. IInv => CancelStopsCodex
    BY DEF IInv
  <1> QED
    BY <1>1, InductiveInvariant, PTL

\* A call that was cancelled before its turn is read is on its way out without
\* a plan, or will be at its next look at the event.  When the cancel finds it
\* blocked in the read of the answer to turn/start, that look is the first of
\* the turn loop.
Doomed(r) ==
  /\ outcome[r] # "plan"
  /\ \/ /\ cancelEvent[r]
        /\ pc[r] \in {"queued", "init", "initWait", "thread", "threadWait",
                      "start", "turnWait"}
     \/ pc[r] = "run" /\ cancelEvent[r] /\ ~turn.completed /\ io = "free"
     \/ pc[r] \in {"clear", "release", "unregister", "done"}

\* The turn loop of such a call looks at the event before anything else.
LEMMA DoomedLooks ==
  ASSUME IInv, NEW r \in Requests, Doomed(r), pc[r] = "run", [Next]_vars
  PROVE  Doomed(r)'
  <1>1. cancelEvent[r] /\ ~turn.completed /\ io = "free" /\ outcome[r] # "plan"
    BY DEF Doomed
  <1>2. /\ lock = r /\ \A s \in Requests : pc[s] \in InLock <=> s = r
        /\ pc \in [Requests -> PC] /\ cancelEvent \in [Requests -> BOOLEAN]
        /\ outcome \in [Requests -> Outcome]
    BY RequestsAssumption DEF IInv, CallsInOrder, InLock, TypeOK, CallsTypeOK
  <1>3. /\ pc'[r] = "run" /\ cancelEvent'[r] /\ turn' = turn /\ io' = "free"
        /\ outcome'[r] = outcome[r]
        => Doomed(r)'
    BY <1>1 DEF Doomed
  <1>4. \A s \in Requests : ~Reading(s)
    BY <1>1, <1>2 DEF Reading, MayRead, NotCancelled, ChecksCancel, Waits, InLock
  <1>5. ASSUME NEW s \in Requests, RaiseIfCancelled(s) PROVE Doomed(r)'
    <2>1. s = r
      BY <1>2, <1>5 DEF RaiseIfCancelled, ChecksCancel, InLock
    <2>2. pc'[r] = "clear" /\ outcome'[r] = "request_cancelled"
      BY <1>2, <1>5, <2>1 DEF RaiseIfCancelled, Raise, Goto
    <2> QED
      BY <2>2 DEF Doomed
  <1>6. ASSUME NEW s \in Requests, Register(s) \/ CancelRequest(s) \/ Unregister(s)
        PROVE  Doomed(r)'
    <2>1. pc[r] \notin {"idle", "unregister"}
      OBVIOUS
    <2>2. pc'[r] = "run" /\ outcome'[r] = outcome[r] /\ cancelEvent'[r]
      BY <1>1, <1>2, <1>6, <2>1 DEF Register, CancelRequest, Unregister, Goto
    <2>3. turn' = turn /\ io' = io
      BY <1>6 DEF Register, CancelRequest, Unregister, codexVars
    <2> QED
      BY <1>1, <1>3, <2>2, <2>3
  <1>7. ~\E s \in Requests : \/ AcquireLock(s) \/ EnsureInitialized(s)
                             \/ ReuseThread(s) \/ RequestThread(s)
                             \/ RequestTurn(s) \/ FinishTurn(s)
                             \/ ClearContext(s) \/ ReleaseLock(s)
    BY <1>1, <1>2, RequestsAssumption DEF AcquireLock, LockIsFree, EnsureInitialized,
       ReuseThread, RequestThread, RequestTurn, FinishTurn, ClearContext,
       ReleaseLock, InLock
  <1>8. ~\E s \in Requests : \/ TransportError(s) \/ Stall(s)
    BY <1>1, <1>2 DEF TransportError, Stall, NotCancelled, ChecksCancel, InLock
  <1>9. ~\E s \in Requests : \/ ReadAnswer(s) \/ ReadErrorAnswer(s) \/ DropLine(s)
                             \/ ReplyFails(s) \/ ReadTurnLine(s)
                             \/ ReadBlocks(s) \/ ReadPiece(s)
                             \/ DetectExit(s) \/ Timeout(s)
                             \/ CodexBeginsStderr(s)
    BY <1>4 DEF ReadAnswer, ReadErrorAnswer, DropLine, ReplyFails, ReadTurnLine,
       ReadBlocks, ReadPiece, DetectExit, Timeout, CodexBeginsStderr, ReadLine,
       Reading
  <1>10. CASE Codex
    <2>1. UNCHANGED <<pc, cancelEvent, outcome, turn, io>>
      BY <1>1, <1>9, <1>10 DEF Codex, CodexLine, CodexAnswer, CodexEmit,
         CodexBegins, CodexReads, CodexEndsStderr, CodexCloses, CodexExit,
         callVars
    <2> QED
      BY <1>1, <1>3, <2>1
  <1>11. CASE UNCHANGED vars
    BY <1>1, <1>3, <1>11 DEF vars, callVars, codexVars
  <1> QED
    BY <1>5, <1>6, <1>7, <1>8, <1>9, <1>10, <1>11
    DEF Next, PlanStep, ClockStep, AllDone

LEMMA DoomedStep ==
  ASSUME IInv, NEW r \in Requests, Doomed(r), [Next]_vars
  PROVE  Doomed(r)'
  <1> SUFFICES ASSUME pc[r] # "run" PROVE Doomed(r)'
    BY DoomedLooks
  <1> DEFINE Early == {"queued", "init", "initWait", "thread", "threadWait",
                       "start", "turnWait"}
             Out == {"clear", "release", "unregister", "done"}
             \* What a step of another call, or of the child, leaves alone.
             Same == pc'[r] = pc[r] /\ cancelEvent'[r] = cancelEvent[r]
                     /\ outcome'[r] = outcome[r]
             Raised == pc'[r] = "release" /\ outcome'[r] # "plan"
             Onward == pc'[r] \in Early /\ cancelEvent'[r] = cancelEvent[r]
                       /\ outcome'[r] = outcome[r]
  <1>1. /\ pc \in [Requests -> PC] /\ cancelEvent \in [Requests -> BOOLEAN]
        /\ outcome \in [Requests -> Outcome]
    BY DEF IInv, TypeOK, CallsTypeOK
  <1>2. Same => Doomed(r)'
    BY DEF Doomed
  <1>3. Raised => Doomed(r)'
    BY DEF Doomed
  <1>4. pc[r] \in Early /\ Onward => Doomed(r)'
    BY DEF Doomed
  <1>5. pc[r] \in Early \/ pc[r] \in Out
    BY DEF Doomed
  <1>6. ASSUME NEW s \in Requests, NEW code \in Outcome \ {"plan"}, Raise(s, code),
               cancelEvent' = cancelEvent, pc[s] # "run" \/ s # r
        PROVE  Doomed(r)'
    <2>1. outcome' = [outcome EXCEPT ![s] = code]
          /\ pc' = [pc EXCEPT ![s] = IF pc[s] = "run" THEN "clear" ELSE "release"]
      BY <1>6 DEF Raise, Goto
    <2>2. CASE s = r
      BY <1>1, <1>3, <1>6, <2>1, <2>2
    <2>3. CASE s # r
      BY <1>1, <1>2, <1>6, <2>1, <2>3
    <2> QED
      BY <2>2, <2>3
  <1>7. ASSUME NEW s \in Requests, s # r, NEW l, pc' = [pc EXCEPT ![s] = l],
               cancelEvent' = cancelEvent,
               outcome' = outcome \/ \E o \in Outcome : outcome' = [outcome EXCEPT ![s] = o]
        PROVE  Doomed(r)'
    BY <1>1, <1>2, <1>7
  <1>8. ASSUME NEW l \in Early, pc[r] \in Early, pc' = [pc EXCEPT ![r] = l],
               cancelEvent' = cancelEvent, outcome' = outcome
        PROVE  Doomed(r)'
    BY <1>1, <1>4, <1>8
  <1>9. ASSUME NEW s \in Requests, Register(s) PROVE Doomed(r)'
    <2>1. s # r
      BY <1>5, <1>9 DEF Register
    <2> QED
      BY <1>1, <1>2, <1>9, <2>1 DEF Register, Goto
  <1>10. ASSUME NEW s \in Requests, CancelRequest(s) PROVE Doomed(r)'
    <2>1. pc' = pc /\ outcome' = outcome
          /\ (cancelEvent' = cancelEvent \/ cancelEvent' = [cancelEvent EXCEPT ![s] = TRUE])
      BY <1>10 DEF CancelRequest
    <2>2. cancelEvent[r] => cancelEvent'[r]
      BY <1>1, <2>1
    <2> QED
      BY <1>5, <2>1, <2>2 DEF Doomed
  <1>11. ASSUME NEW s \in Requests, AcquireLock(s) PROVE Doomed(r)'
    <2>1. /\ pc' = [pc EXCEPT ![s] = "init"] /\ pc[s] = "queued"
          /\ cancelEvent' = cancelEvent /\ outcome' = outcome
      BY <1>11 DEF AcquireLock, Goto
    <2> QED
      BY <1>7, <1>8, <2>1
  <1>12. ASSUME NEW s \in Requests, RaiseIfCancelled(s) PROVE Doomed(r)'
    <2>1. Raise(s, "request_cancelled") /\ cancelEvent' = cancelEvent
      BY <1>12 DEF RaiseIfCancelled
    <2>2. "request_cancelled" \in Outcome \ {"plan"} /\ (pc[s] # "run" \/ s # r)
      BY <1>5 DEF Outcome
    <2> QED
      BY <1>6, <2>1, <2>2
  <1>13. ASSUME NEW s \in Requests, EnsureInitialized(s) PROVE Doomed(r)'
    <2>1. pc[s] = "init" /\ cancelEvent' = cancelEvent
      BY <1>13 DEF EnsureInitialized
    <2>2. CASE Raise(s, "codex_error")
      <3>1. "codex_error" \in Outcome \ {"plan"}
        BY DEF Outcome
      <3> QED
        BY <1>6, <2>1, <2>2, <3>1
    <2>3. CASE outcome' = outcome /\ \E l \in {"initWait", "thread"} : pc' = [pc EXCEPT ![s] = l]
      BY <1>7, <1>8, <2>1, <2>3
    <2> QED
      BY <1>13, <2>2, <2>3 DEF EnsureInitialized, Goto
  <1>14. ASSUME NEW s \in Requests, ReuseThread(s) PROVE Doomed(r)'
    <2>1. /\ pc' = [pc EXCEPT ![s] = "start"] /\ pc[s] = "thread"
          /\ cancelEvent' = cancelEvent /\ outcome' = outcome
      BY <1>14 DEF ReuseThread, Goto
    <2> QED
      BY <1>7, <1>8, <2>1
  <1>15. ASSUME NEW s \in Requests, RequestThread(s) PROVE Doomed(r)'
    <2>1. /\ pc' = [pc EXCEPT ![s] = "threadWait"] /\ pc[s] = "thread"
          /\ cancelEvent' = cancelEvent /\ outcome' = outcome
      BY <1>15 DEF RequestThread, Goto
    <2> QED
      BY <1>7, <1>8, <2>1
  <1>16. ASSUME NEW s \in Requests, RequestTurn(s) PROVE Doomed(r)'
    <2>1. /\ pc' = [pc EXCEPT ![s] = "turnWait"] /\ pc[s] = "start"
          /\ cancelEvent' = cancelEvent /\ outcome' = outcome
      BY <1>16 DEF RequestTurn, Goto
    <2> QED
      BY <1>7, <1>8, <2>1
  <1>17. ASSUME NEW s \in Requests, TransportError(s) PROVE Doomed(r)'
    <2>1. Raise(s, "codex_error") /\ cancelEvent' = cancelEvent
      BY <1>17 DEF TransportError
    <2>2. "codex_error" \in Outcome \ {"plan"} /\ (pc[s] # "run" \/ s # r)
      BY <1>5 DEF Outcome
    <2> QED
      BY <1>6, <2>1, <2>2
  <1>18. ASSUME NEW s \in Requests, ReadAnswer(s) PROVE Doomed(r)'
    <2>1. cancelEvent' = cancelEvent /\ outcome' = outcome
      BY <1>18 DEF ReadAnswer
    <2>2. CASE pc[s] = "turnWait"
      <3>1. pc' = [pc EXCEPT ![s] = "run"] /\ turn' = NewTurn
        BY <1>18, <2>2 DEF ReadAnswer, Goto
      <3>2. io' = "free"
        BY <1>18, <2>2 DEF ReadAnswer, ReadLine, IsAnswer, Awaited
      <3>3. CASE s = r
        <4>1. cancelEvent[r] /\ outcome[r] # "plan"
          BY <2>2, <3>3 DEF Doomed
        <4> QED
          BY <1>1, <2>1, <3>1, <3>2, <3>3, <4>1 DEF Doomed, NewTurn
      <3> QED
        BY <1>7, <2>1, <3>1, <3>3
    <2>3. CASE pc[s] \in {"initWait", "threadWait"}
      <3>1. \E l \in {"thread", "start"} : pc' = [pc EXCEPT ![s] = l]
        BY <1>18, <2>3 DEF ReadAnswer, Goto
      <3> QED
        BY <1>7, <1>8, <2>1, <2>3, <3>1
    <2> QED
      BY <1>18, <2>2, <2>3 DEF ReadAnswer
  <1>19. ASSUME NEW s \in Requests, ReadErrorAnswer(s) \/ ReadPiece(s)
         PROVE  Doomed(r)'
    <2>1. Raise(s, "codex_error") /\ cancelEvent' = cancelEvent
      BY <1>19 DEF ReadErrorAnswer, ReadPiece
    <2>2. "codex_error" \in Outcome \ {"plan"} /\ (pc[s] # "run" \/ s # r)
      BY <1>5 DEF Outcome
    <2> QED
      BY <1>6, <2>1, <2>2
  <1>20. ASSUME NEW s \in Requests, DropLine(s) \/ ReadTurnLine(s) \/ ReadBlocks(s)
         PROVE  Doomed(r)'
    BY <1>2, <1>20 DEF DropLine, ReadTurnLine, ReadBlocks, callVars
  <1>21. ASSUME NEW s \in Requests, ReplyFails(s) PROVE Doomed(r)'
    <2>1. Raise(s, "codex_error") /\ cancelEvent' = cancelEvent
      BY <1>21 DEF ReplyFails
    <2>2. "codex_error" \in Outcome \ {"plan"} /\ (pc[s] # "run" \/ s # r)
      BY <1>5 DEF Outcome
    <2> QED
      BY <1>6, <2>1, <2>2
  <1>22. ASSUME NEW s \in Requests, DetectExit(s) PROVE Doomed(r)'
    <2>1. Raise(s, "codex_error") /\ cancelEvent' = cancelEvent
      BY <1>22 DEF DetectExit
    <2>2. "codex_error" \in Outcome \ {"plan"} /\ (pc[s] # "run" \/ s # r)
      BY <1>5 DEF Outcome
    <2> QED
      BY <1>6, <2>1, <2>2
  <1>23. ASSUME NEW s \in Requests, FinishTurn(s) \/ ClearContext(s) PROVE Doomed(r)'
    <2>1. /\ cancelEvent' = cancelEvent
          /\ \E l \in {"clear", "release"} : pc' = [pc EXCEPT ![s] = l]
          /\ outcome' = outcome \/ \E o \in Outcome : outcome' = [outcome EXCEPT ![s] = o]
      BY <1>23 DEF FinishTurn, ClearContext, Goto, Outcome
    <2>2. CASE s = r
      <3>1. pc' = [pc EXCEPT ![r] = "release"] /\ outcome' = outcome
        BY <1>23, <2>2 DEF FinishTurn, ClearContext, Goto
      <3> QED
        BY <1>1, <1>3, <3>1 DEF Doomed
    <2> QED
      BY <1>7, <2>1, <2>2
  <1>24. ASSUME NEW s \in Requests, ReleaseLock(s) PROVE Doomed(r)'
    <2>1. pc' = [pc EXCEPT ![s] = "unregister"] /\ outcome' = outcome
          /\ cancelEvent' = cancelEvent /\ pc[s] = "release"
      BY <1>24 DEF ReleaseLock, Goto
    <2>2. s = r => pc'[r] = "unregister"
      BY <1>1, <2>1
    <2>3. s # r => Same
      BY <1>1, <2>1
    <2> QED
      BY <1>2, <2>1, <2>2, <2>3 DEF Doomed
  <1>25. ASSUME NEW s \in Requests, Unregister(s) PROVE Doomed(r)'
    <2>1. pc' = [pc EXCEPT ![s] = "done"] /\ outcome' = outcome
          /\ cancelEvent' = [cancelEvent EXCEPT ![s] = FALSE]
      BY <1>25 DEF Unregister, Goto
    <2>2. s = r => pc'[r] = "done"
      BY <1>1, <2>1
    <2>3. s # r => Same
      BY <1>1, <2>1
    <2> QED
      BY <1>2, <2>1, <2>2, <2>3 DEF Doomed
  <1>26. ASSUME NEW s \in Requests, Timeout(s) PROVE Doomed(r)'
    <2>1. Raise(s, "codex_error") /\ cancelEvent' = cancelEvent
      BY <1>26 DEF Timeout
    <2>2. "codex_error" \in Outcome \ {"plan"} /\ (pc[s] # "run" \/ s # r)
      BY <1>5 DEF Outcome
    <2> QED
      BY <1>6, <2>1, <2>2
  <1>27. ASSUME NEW s \in Requests, Stall(s) PROVE Doomed(r)'
    <2>1. Raise(s, "codex_error") /\ cancelEvent' = cancelEvent
      BY <1>27 DEF Stall
    <2>2. "codex_error" \in Outcome \ {"plan"} /\ (pc[s] # "run" \/ s # r)
      BY <1>5 DEF Outcome
    <2> QED
      BY <1>6, <2>1, <2>2
  <1>28. CASE Codex
    BY <1>2, <1>28 DEF Codex, CodexLine, CodexAnswer, CodexEmit, CodexBegins, CodexReads,
         CodexBeginsStderr, CodexEndsStderr, CodexCloses, CodexExit, callVars
  <1>29. CASE UNCHANGED vars
    BY <1>2, <1>29 DEF vars, callVars
  <1> HIDE DEF Early, Out, Same, Raised, Onward
  <1> QED
    BY <1>9, <1>10, <1>11, <1>12, <1>13, <1>14, <1>15, <1>16, <1>17, <1>18, <1>19,
       <1>20, <1>21, <1>22, <1>23, <1>24, <1>25, <1>26, <1>27, <1>28, <1>29
       DEF Next, PlanStep, ClockStep, AllDone

\* A cancel that comes before the turn is read is never lost, however the
\* steps of the calls, of the child and of the cancel endpoint follow one
\* another: the call does not return a plan (_register_request, cancel_request,
\* _raise_if_cancelled_locked).
THEOREM CancelIsFinal == Spec => CancelDooms
  <1> SUFFICES ASSUME NEW r \in Watched
               PROVE  Spec => [](/\ cancelEvent[r]
                                 /\ pc[r] \in {"queued", "init", "initWait", "thread",
                                               "threadWait", "start", "turnWait"}
                                 => [](outcome[r] # "plan"))
    BY DEF CancelDooms
  <1>1. r \in Requests
    BY WatchedAssumption
  <1>2. IInv /\ cancelEvent[r]
        /\ pc[r] \in {"queued", "init", "initWait", "thread",
                      "threadWait", "start", "turnWait"}
        => Doomed(r)
    <2> SUFFICES ASSUME IInv, pc[r] \in {"queued", "init", "initWait", "thread",
                                         "threadWait", "start", "turnWait"}
                 PROVE  outcome[r] # "plan"
      BY DEF Doomed
    <2>1. CallsInOrder
      BY DEF IInv
    <2>2. ~(outcome[r] # "none")
      BY <1>1, <2>1 DEF CallsInOrder
    <2> QED
      BY <2>2
  <1>3. IInv /\ Doomed(r) /\ [Next]_vars => Doomed(r)'
    BY <1>1, DoomedStep
  <1>4. Doomed(r) => outcome[r] # "plan"
    BY DEF Doomed
  <1>5. Spec => []IInv
    BY InductiveInvariant
  <1> QED
    BY <1>2, <1>3, <1>4, <1>5, PTL DEF Spec

=============================================================================
