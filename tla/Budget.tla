------------------------------- MODULE Budget -------------------------------
(***************************************************************************)
(* The bounds of a composed model.  Each kind of call takes one from its   *)
(* budget; a behaviour starts with one of several budgets, so a run looks  *)
(* at one mixture of calls after the other and not at all of them at once. *)
(* A kind that a budget does not name does not happen.                     *)
(***************************************************************************)
EXTENDS Naturals

CONSTANT Budgets  \* the bounds: a set of functions from kinds of calls to Nat

VARIABLE budget

BudgetInit == budget \in Budgets

Left(kind) == IF kind \in DOMAIN budget THEN budget[kind] ELSE 0

Spend(kind) ==
  /\ Left(kind) > 0
  /\ budget' = [budget EXCEPT ![kind] = @ - 1]
=============================================================================
