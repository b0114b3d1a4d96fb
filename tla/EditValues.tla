------------------------------ MODULE EditValues ------------------------------
(***************************************************************************)
(* The values of one live run.  The bridge keeps a shadow of the controls  *)
(* (TurnContext.setting_by_id), applies every operation of the run to it,  *)
(* and tells the model what it reads there.  darktable applies the same    *)
(* operations to the controls themselves, in batches: a batch is what it   *)
(* has not applied of the list that a progress event, or the final plan,   *)
(* brings.  Both sides put the white-balance operations of a batch into an *)
(* order of their own before they apply it, but their batches differ.      *)
(* The bridge notes the number it computes; a control keeps what its       *)
(* slider can show of it, and an edit of a control switches its module on. *)
(*                                                                         *)
(* How renders, polls and cancels interleave with the steps is in LiveRun. *)
(***************************************************************************)
EXTENDS Integers, FiniteSets, SequencesExt

CONSTANTS
  Settings,      \* the editable settings of the snapshot
  Kind,          \* their kinds: "float", "choice" or "bool"
  Modes,         \* the modes each supports
  Lowest,        \* minNumber of a float, the first value of another
  Highest,       \* maxNumber of a float, the last value of another
  WhiteBalance,  \* the settings of iop/temperature
  Leaf,          \* the place of a path's last segment in the alphabet
  FloatRank,     \* the rank that both sides give to a float of WhiteBalance
  Stored,        \* Stored[s][v]: what the slider of float s keeps of v
  Error,         \* how far that may be from v
  Switch,        \* the switch of the module, of the controls that have one
  Always,        \* controls whose write counts although the value stays
  Follow,        \* Follow[s][v]: the values of the controls a write of v to s sets
  Preset,        \* the preset of iop/temperature
  UserDefined,   \* the preset that a float of WhiteBalance leaves
  References,    \* presets that go with chromatic adaptation
  Base,          \* the values of the snapshot
  Operations,    \* the operations the model may ask for
  MaxBatch,      \* bound: operations of one apply_operations call
  MaxOps         \* bound: operations of the run

ASSUME EditValuesAssumption ==
  /\ WhiteBalance \subseteq Settings
  /\ Kind \in [Settings -> {"float", "choice", "bool"}]
  /\ Preset \in WhiteBalance /\ Kind[Preset] = "choice"
  /\ Lowest \in [Settings -> Int] /\ Highest \in [Settings -> Int]
  /\ Base \in [Settings -> Int]
  /\ \A s \in Settings : Base[s] \in Lowest[s] .. Highest[s]
  /\ \A o \in Operations : o.setting \in Settings /\ o.value \in Int
  /\ UserDefined \in Lowest[Preset] .. Highest[Preset]
  /\ \A s \in WhiteBalance :
       Leaf[s] \in Int /\ (Kind[s] = "float" => FloatRank[s] \in Int)
  /\ Error \in [Settings -> Nat]
  /\ \A s \in Settings : Kind[s] = "float" =>
       \A v \in Lowest[s] .. Highest[s] :
         /\ Stored[s][v] \in Lowest[s] .. Highest[s]
         /\ Stored[s][v] - v \in -Error[s] .. Error[s]
  /\ \A s \in DOMAIN Switch :
       /\ Switch[s] \in Settings /\ Kind[Switch[s]] = "bool"
       /\ Lowest[Switch[s]] = 0 /\ Highest[Switch[s]] = 1
  /\ \A s \in DOMAIN Follow : \A v \in Lowest[s] .. Highest[s] :
       \A t \in DOMAIN Follow[s][v] : Follow[s][v][t] \in Lowest[t] .. Highest[t]
  /\ MaxOps \in Nat

VARIABLES
  shadow,      \* currentNumber, currentChoiceValue, currentBool by setting
  applied,     \* TurnContext.applied_operations
  pending,     \* the operations of the call that are still to be stepped
  callStarts,  \* history: Len(applied) at the start of each call
  plan,        \* the run is over and its plan issued
  image,       \* the controls of darktable
  adaptation,  \* chromatic adaptation is active
  count,       \* active_request_live_applied_count
  request,     \* "active", "canceling", "ended"
  merged       \* history: a batch of darktable held operations of two calls

serverVars == <<shadow, applied, pending, callStarts, plan>>
clientVars == <<image, adaptation, count, request, merged>>
vars == <<serverVars, clientVars>>

Clamp(s, v) == IF v < Lowest[s] THEN Lowest[s]
               ELSE IF v > Highest[s] THEN Highest[s] ELSE v

Init ==
  /\ shadow = Base /\ image = Base
  /\ applied = <<>> /\ pending = <<>> /\ callStarts = {} /\ plan = FALSE
  /\ adaptation \in BOOLEAN
  /\ count = 0 /\ request = "active" /\ merged = FALSE

-----------------------------------------------------------------------------
(* The order of the white-balance operations.                              *)

IsWhiteBalance(o) == o.setting \in WhiteBalance

Rank(o) == CASE Kind[o.setting] = "bool" -> 0
             [] Kind[o.setting] = "choice" -> 1
             [] OTHER -> FloatRank[o.setting]

WhiteBalanceIn(ops) == {i \in DOMAIN ops : IsWhiteBalance(ops[i])}

\* The place that goes to place p of P when P is sorted: it has as many places
\* before it, in the order `before` that the sort key stands for, as p has.
FromPlace(P, before, p) ==
  CHOOSE i \in P :
    Cardinality({j \in P : <<j, i>> \in before}) = Cardinality({q \in P : q < p})

\* ops with the operations at the places P sorted, on those places.
SortOn(ops, P, before) ==
  [p \in DOMAIN ops |-> IF p \in P THEN ops[FromPlace(P, before, p)] ELSE ops[p]]

\* Mutant: a call is applied in the order of its arguments.
GivenOrder(ops) == ops

\* The sort key is (rank, leaf) and the sort is stable.
ServerOrder(ops) ==
  LET P == WhiteBalanceIn(ops)
      rank(i) == Rank(ops[i])
      leaf(i) == Leaf[ops[i].setting]
  IN  SortOn(ops, P, {e \in P \X P :
                        \/ rank(e[1]) < rank(e[2])
                        \/ rank(e[1]) = rank(e[2]) /\ leaf(e[1]) < leaf(e[2])
                        \/ /\ rank(e[1]) = rank(e[2]) /\ leaf(e[1]) = leaf(e[2])
                           /\ e[1] < e[2]})

\* The original index decides between equal ranks.
ExecutionOrder(ops) ==
  LET P == WhiteBalanceIn(ops)
      rank(i) == Rank(ops[i])
  IN  SortOn(ops, P, {e \in P \X P :
                        \/ rank(e[1]) < rank(e[2])
                        \/ rank(e[1]) = rank(e[2]) /\ e[1] < e[2]})

-----------------------------------------------------------------------------
(* The bridge.                                                             *)

\* Whether _apply_operation_to_settings returns no error.
ServerAccepts(o) == /\ o.mode \in Modes[o.setting]
                    /\ Kind[o.setting] # "float"
                         => o.value \in Lowest[o.setting] .. Highest[o.setting]

Resolved(vals, o) ==
  IF o.mode = "delta" THEN vals[o.setting] + o.value ELSE o.value

\* Mutant: the bridge does not clamp what it notes.
WriteUnclamped(vals, o) == [vals EXCEPT ![o.setting] = Resolved(vals, o)]

ServerWrite(vals, o) ==
  [vals EXCEPT ![o.setting] = IF Kind[o.setting] = "float"
                              THEN Clamp(o.setting, Resolved(vals, o))
                              ELSE o.value]

\* The operations before the first one that is not in `accepted`.
BeforeRefusal(ops, accepted) ==
  LET refused == SelectInSeq(ops, LAMBDA o : o \notin accepted)
  IN  IF refused = 0 THEN ops ELSE SubSeq(ops, 1, refused - 1)

\* The simulation of a batch ends at the first operation that is refused; it
\* works on a copy, and the run goes on with the settings as they were.
Accepted(ops) == BeforeRefusal(ops, {o \in Operations : ServerAccepts(o)})
Simulated(ops) == FoldLeft(ServerWrite, shadow, Accepted(ops))

\* Mutant: the simulation works on the settings of the context, no copy.
SimulationKept(ops) == Simulated(ops)
AfterSimulation(ops) == shadow

\* apply_operations: order, simulate on a copy, then take the steps.
ApplyOperations(ops) ==
  LET ordered == ServerOrder(ops)
  IN  /\ pending = <<>> /\ ~plan
      /\ Len(applied) + Len(ops) <= MaxOps
      /\ shadow' = AfterSimulation(ordered)
      /\ IF Len(Accepted(ordered)) = Len(ordered)
         THEN /\ pending' = ordered
              /\ callStarts' = callStarts \cup {Len(applied)}
         ELSE UNCHANGED <<pending, callStarts>>
      /\ UNCHANGED <<applied, plan, clientVars>>

\* _apply_live_operation_step
ApplyStep ==
  /\ pending # <<>>
  /\ shadow' = ServerWrite(shadow, Head(pending))
  /\ applied' = Append(applied, Head(pending))
  /\ pending' = Tail(pending)
  /\ UNCHANGED <<callStarts, plan, clientVars>>

\* The turn completes and the plan of the run is what was applied.
Finish ==
  /\ pending = <<>> /\ ~plan
  /\ plan' = TRUE
  /\ UNCHANGED <<shadow, applied, pending, callStarts, clientVars>>

-----------------------------------------------------------------------------
(* darktable.                                                              *)

\* _validate_operation, with _validate_white_balance_operation.
GoesWithAdaptation(o) ==
  CASE Kind[o.setting] = "float" -> FALSE
    [] Kind[o.setting] = "bool" -> o.value # 0
    [] OTHER -> o.value \in References

ClientAccepts(o) ==
  /\ ServerAccepts(o)
  /\ IsWhiteBalance(o) /\ adaptation => GoesWithAdaptation(o)

\* What the control of o keeps: a slider rounds to the digits it shows.
Kept(vals, o) ==
  IF Kind[o.setting] = "float"
  THEN Stored[o.setting][Clamp(o.setting, Resolved(vals, o))] ELSE o.value

\* A write that changes the control, or that its callback takes as a change,
\* sets the controls that follow, leaves the preset of iop/temperature at "user
\* defined" if it was one of its floats (temperature.c:1713-1747), and switches
\* the module on (imageop.c:3970-3980, develop.c:894-905).
ClientWrite(vals, o) ==
  LET s == o.setting
      new == Kept(vals, o)
      counts == new # vals[s] \/ s \in Always
  IN  [t \in Settings |->
         IF t = s THEN new
         ELSE IF ~counts THEN vals[t]
         ELSE IF s \in DOMAIN Follow /\ t \in DOMAIN Follow[s][new]
         THEN Follow[s][new][t]
         ELSE IF t = Preset /\ IsWhiteBalance(o) /\ Kind[s] = "float"
         THEN UserDefined
         ELSE IF s \in DOMAIN Switch /\ t = Switch[s] THEN 1
         ELSE vals[t]]

\* Mutant: each operation is validated when its turn comes.
ExecutedUntilRefused(ops) ==
  BeforeRefusal(ops, {o \in Operations : ClientAccepts(o)})

\* The whole batch is validated before its first operation is executed.
Executed(ops) == IF \A i \in DOMAIN ops : ClientAccepts(ops[i]) THEN ops ELSE <<>>

\* Mutant: the range starts at the first operation of the list.
WholeList(n) == SubSeq(applied, 1, n)

\* dt_agent_execute_response on the operations after the first `count` of n.
Unapplied(n) == SubSeq(applied, count + 1, n)

Execute(n) ==
  LET ordered == ExecutionOrder(Unapplied(n))
  IN  /\ image' = FoldLeft(ClientWrite, image, Executed(ordered))
      /\ merged' = (merged \/ \E b \in callStarts : count < b /\ b < n)

Succeeds(n) == \A i \in count + 1 .. n : ClientAccepts(applied[i])

\* A progress event with the first n operations of the run.
Progress(n) ==
  /\ request = "active" /\ count < n
  /\ Execute(n)
  /\ IF Succeeds(n) THEN count' = n /\ UNCHANGED request
                    ELSE request' = "canceling" /\ UNCHANGED count
  /\ UNCHANGED <<adaptation, serverVars>>

\* The final response, which may have been on its way when a live apply failed.
FinalPlan ==
  /\ plan /\ request # "ended"
  /\ Execute(Len(applied))
  /\ count' = IF Succeeds(Len(applied)) THEN Len(applied) ELSE count
  /\ request' = "ended"
  /\ UNCHANGED <<adaptation, serverVars>>

\* The response says that the request was canceled.
CanceledResult ==
  /\ request = "canceling"
  /\ request' = "ended"
  /\ UNCHANGED <<image, adaptation, count, merged, serverVars>>

\* The user, or the pipe, turns color calibration on or off.
ToggleAdaptation ==
  /\ request # "ended"
  /\ adaptation' = ~adaptation
  /\ UNCHANGED <<image, count, request, merged, serverVars>>

Next == \/ \E ops \in SeqOf(Operations, MaxBatch) \ {<<>>} : ApplyOperations(ops)
        \/ ApplyStep
        \/ Finish
        \/ \E n \in DOMAIN applied : Progress(n)
        \/ FinalPlan
        \/ CanceledResult
        \/ ToggleAdaptation
        \/ request = "ended" /\ plan /\ UNCHANGED vars

Spec == Init /\ [][Next]_vars

-----------------------------------------------------------------------------
Values == [Settings -> Int]
InRange(vals) == \A s \in Settings : vals[s] \in Lowest[s] .. Highest[s]

\* Types; the numbers of both sides stay within the range of the snapshot.
TypeOK ==
  /\ shadow \in Values /\ InRange(shadow)
  /\ image \in Values /\ InRange(image)
  /\ applied \in Seq(Operations) /\ pending \in Seq(Operations)
  /\ callStarts \subseteq 0 .. MaxOps
  /\ plan \in BOOLEAN /\ adaptation \in BOOLEAN /\ merged \in BOOLEAN
  /\ count \in 0 .. Len(applied)
  /\ request \in {"active", "canceling", "ended"}

\* What get_image_state tells the model is the snapshot with the applied
\* operations on top, also after calls that were refused halfway through their
\* simulation (operations.py:58-72).
ShadowIsReplay == shadow = FoldLeft(ServerWrite, Base, applied)

\* The settings that an operation on another one may set.
Switches == {Switch[s] : s \in DOMAIN Switch}
Followers == UNION {UNION {DOMAIN Follow[s][v] : v \in Lowest[s] .. Highest[s]} :
                      s \in DOMAIN Follow}

\* After n operations: a slider is at most n roundings away from what was
\* noted, another control is where it was noted, and a module that was noted
\* as switched on is on.
NearBy(noted, shown, n) ==
  \A s \in Settings \ (WhiteBalance \cup Followers) :
    IF s \in Switches THEN noted[s] <= shown[s]
    ELSE shown[s] - noted[s] \in -(n * Error[s]) .. n * Error[s]

\* When darktable has applied all operations, whatever its batches were, no
\* control is further from what get_image_state told the model than the
\* roundings of its slider add up to, although every delta starts from the
\* number noted on one side and from the rounded one on the other
\* (operations.py:503-521, agent_execute.c:522-549, bauhaus.c:3419-3437).
ShadowNearImage == count = Len(applied) => NearBy(shadow, image, count)

InOrder(n) == FoldLeft(ClientWrite, Base, SubSeq(applied, 1, n))

\* As long as no batch of darktable holds operations of two calls, its own
\* sort changes nothing: the image is what the operations give in the order in
\* which the bridge applied them.
OrderKeptPerCall == ~merged => image = InOrder(count)

\* The parts of the inductive invariant.  Every operation that the bridge has
\* taken, stepped or not, passed its simulation, and those on white balance are
\* in the order of their ranks within a call: between two places of one call,
\* no call starts.
Taken == applied \o pending
OneCall(i, j) == ~ \E b \in callStarts : i <= b /\ b < j
TakenAccepted == \A i \in DOMAIN Taken : ServerAccepts(Taken[i])
CallsSorted ==
  \A i, j \in WhiteBalanceIn(Taken) :
    i < j /\ OneCall(i, j) => Rank(Taken[i]) <= Rank(Taken[j])

\* The controls are near to where the shadow was when it had the operations
\* that darktable has applied.
AfterFirst(n) == FoldLeft(ServerWrite, Base, SubSeq(applied, 1, n))
ImageFollows == NearBy(AfterFirst(count), image, count)

\* The values of both sides are what the operations give, whatever the batches.
IInv == /\ TypeOK
        /\ callStarts \subseteq 0 .. Len(applied)
        /\ TakenAccepted /\ CallsSorted
        /\ ShadowIsReplay /\ ImageFollows /\ OrderKeptPerCall

\* A batch that is not applied as a whole leaves the image as it was.
AllOrNothing == [][count' = count => image' = image]_vars

\* docs/protocol-v1.md:257: the plan holds "ordered operations to apply".
AppliedInOrder == image = InOrder(count)

\* What the model is told is what the image has.
ShadowIsImage == count = Len(applied) => image = shadow
=============================================================================
