------------------------------ MODULE MCParts ------------------------------
(***************************************************************************)
(* Instances of the five parts that share no state: the values of the      *)
(* edits (MCEditValues), the guardrails of a turn, the undo lists, the     *)
(* pixel pipes, and the history stack.  A behaviour exercises one of them. *)
(***************************************************************************)
EXTENDS MCEditValues, ToolBudget, UndoList, PixelPipes, HistoryStack

\* White balance is always on; the workflow presets exposure.
MCFreshStack ==
  <<[module |-> "temperature", value |-> 0, on |-> TRUE, focus |-> FALSE],
    [module |-> "exposure", value |-> 1, on |-> TRUE, focus |-> FALSE]>>

VARIABLE part   \* the part that this behaviour exercises

partVars == <<vars, budgetVars, undoVars, pixelVars, stackVars, part>>

PartsInit ==
  /\ Init /\ BudgetInit /\ UndoInit /\ PipesInit /\ StackInit
  /\ part \in {"values", "budget", "undo", "pipes", "stack"}
  /\ part = "values" \/ ~adaptation

PartsNext ==
  /\ \/ part = "values" /\ Next /\ UNCHANGED <<budgetVars, undoVars, pixelVars, stackVars>>
     \/ part = "budget" /\ BudgetNext /\ UNCHANGED <<vars, undoVars, pixelVars, stackVars>>
     \/ part = "undo" /\ UndoNext /\ UNCHANGED <<vars, budgetVars, pixelVars, stackVars>>
     \/ part = "pipes" /\ PipesNext /\ UNCHANGED <<vars, budgetVars, undoVars, stackVars>>
     \/ part = "stack" /\ StackNext /\ UNCHANGED <<vars, budgetVars, undoVars, pixelVars>>
  /\ UNCHANGED part

PartsSpec == PartsInit /\ [][PartsNext]_partVars /\ PipesFairness
=============================================================================
