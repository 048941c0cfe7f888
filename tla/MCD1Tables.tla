----------------------------- MODULE MCD1Tables -----------------------------
(***************************************************************************)
(* The two services whose state is tables of D1, which runs one statement  *)
(* at a time: a behaviour is one of financial commits or one of the LLM    *)
(* budget.                                                                 *)
(***************************************************************************)
EXTENDS MCFdcLedger, LlmBudget

VARIABLE service

MCInit ==
  /\ service \in {"fdc", "budget"}
  /\ Init
  /\ BudgetInit

MCNext ==
  /\ UNCHANGED service
  /\ \/ service = "fdc" /\ Next /\ UNCHANGED budgetVars
     \/ service = "budget" /\ BudgetNext /\ UNCHANGED vars

MCSpec == MCInit /\ [][MCNext]_<<service, vars, budgetVars>>

MCSymmetry == CallerSymmetry \union Permutations(BudgetRequests)
=============================================================================
