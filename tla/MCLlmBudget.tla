---------------------------- MODULE MCLlmBudget ----------------------------
(***************************************************************************)
(* A small instance of LlmBudget by itself: two requests, one BASIC and    *)
(* one paying company, and a rollover of the month.                        *)
(***************************************************************************)
EXTENDS LlmBudget, TLC

RequestSymmetry == Permutations(BudgetRequests)
=============================================================================
