------------------------------ MODULE ToolBudget ------------------------------
(***************************************************************************)
(* The guardrails of a turn.  Every tool call of the model is counted, and *)
(* _register_tool_call_progress_locked refuses it when the budget of the   *)
(* turn is used up, when a live run has looked long enough without an      *)
(* edit, or when too many calls in a row only looked.  A refused call is   *)
(* answered with an error and the turn goes on.                            *)
(***************************************************************************)
EXTENDS Integers

CONSTANTS
  LiveRun,               \* refinement.enabled of the request
  MaxPasses,             \* refinement.maxPasses
  MaxReadOnlyStreak,     \* _DEFAULT_MAX_CONSECUTIVE_READ_ONLY_TOOL_CALLS
  MaxCallsWithoutApply,  \* _DEFAULT_MAX_TOOL_CALLS_WITHOUT_APPLY
  MaxSteps,              \* bound: operations of one apply_operations call
  MaxUsed                \* bound: tool calls of the turn

ASSUME ToolBudgetAssumption ==
  /\ LiveRun \in BOOLEAN
  /\ MaxPasses \in Nat /\ MaxReadOnlyStreak \in Nat
  /\ MaxCallsWithoutApply \in Nat /\ MaxSteps \in Nat /\ MaxUsed \in Nat

VARIABLES
  used,      \* tool_calls_used
  streak,    \* consecutive_read_only_tool_calls
  edits,     \* Len(applied_operations)
  answered,  \* history: calls that no guardrail refused
  looks,     \* history: those of them that were not apply_operations
  row        \* history: read-only ones since the last call of another kind
             \* that was not refused

budgetVars == <<used, streak, edits, answered, looks, row>>

\* _effective_tool_budget
MaxToolCalls == IF ~LiveRun THEN 1
                ELSE IF MaxPasses * 3 > 15 THEN MaxPasses * 3 ELSE 15

BudgetInit ==
  /\ used = 0 /\ streak = 0 /\ edits = 0
  /\ answered = 0 /\ looks = 0 /\ row = 0

OverBudget == used + 1 > MaxToolCalls

\* Mutant: the limit looks at the streak.
RowTooLong == LiveRun /\ edits = 0 /\ streak + 1 > MaxCallsWithoutApply
LooksTooLong == LiveRun /\ edits = 0 /\ used + 1 > MaxCallsWithoutApply

ReadsTooOften == LiveRun /\ streak + 1 > MaxReadOnlyStreak

RefuseOverBudget ==
  /\ OverBudget
  /\ used' = used + 1
  /\ UNCHANGED <<streak, edits, answered, looks, row>>

\* Any tool but apply_operations.
RefuseLook ==
  /\ ~OverBudget /\ LooksTooLong
  /\ used' = used + 1
  /\ UNCHANGED <<streak, edits, answered, looks, row>>

\* The call has been added to the streak when it is refused.
RefuseRead ==
  /\ ~OverBudget /\ ~LooksTooLong /\ ReadsTooOften
  /\ used' = used + 1 /\ streak' = streak + 1
  /\ UNCHANGED <<edits, answered, looks, row>>

\* get_preview_image, get_image_state, get_playbook
Read ==
  /\ ~OverBudget /\ ~LooksTooLong /\ ~ReadsTooOften
  /\ used' = used + 1 /\ streak' = streak + 1
  /\ answered' = answered + 1 /\ looks' = looks + 1 /\ row' = row + 1
  /\ UNCHANGED edits

\* A tool that does not exist: an error, but none of a guardrail.
OtherTool ==
  /\ ~OverBudget /\ ~LooksTooLong
  /\ used' = used + 1 /\ streak' = 0
  /\ answered' = answered + 1 /\ looks' = looks + 1 /\ row' = 0
  /\ UNCHANGED edits

\* Outside of a live run, or with a batch that is refused, nothing is applied.
Apply ==
  /\ ~OverBudget
  /\ used' = used + 1 /\ streak' = 0
  /\ \E n \in 0 .. MaxSteps : edits' = edits + n /\ (n > 0 => LiveRun)
  /\ answered' = answered + 1 /\ row' = 0
  /\ UNCHANGED looks

ToolCall == \/ RefuseOverBudget \/ RefuseLook \/ RefuseRead
            \/ Read \/ OtherTool \/ Apply

TurnOver == used = MaxUsed /\ UNCHANGED budgetVars

BudgetNext == (used < MaxUsed /\ ToolCall) \/ TurnOver

BudgetSpec == BudgetInit /\ [][BudgetNext]_budgetVars

-----------------------------------------------------------------------------
\* Types.
BudgetTypeOK ==
  /\ used \in Nat /\ streak \in Nat /\ edits \in Nat
  /\ answered \in Nat /\ looks \in Nat /\ row \in Nat

\* What a turn can get out of the bridge: no more answers than its budget; in a
\* live run no more looks in a row than the streak allows, however refused
\* calls come in between (they count in used, and some of them in the streak);
\* and, as long as nothing was edited, no more looks than the limit.
AnswersBounded ==
  /\ answered <= MaxToolCalls
  /\ LiveRun => row <= MaxReadOnlyStreak
  /\ LiveRun /\ edits = 0 => looks <= MaxCallsWithoutApply

\* The inductive invariant: the streak counts at least the row of looks, and
\* used counts all answers.
BudgetInv ==
  /\ BudgetTypeOK
  /\ AnswersBounded
  /\ answered <= used /\ looks <= answered
  /\ row <= streak
=============================================================================
