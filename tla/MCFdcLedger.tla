---------------------------- MODULE MCFdcLedger ----------------------------
(***************************************************************************)
(* A small instance of FdcLedger.  The commits are chosen so that every    *)
(* constraint of the table and both causes of a fork can meet: two keys    *)
(* with increasing timestamps, a third commit that ties with the first, a  *)
(* retry of a key with other content, a commit of another company with the *)
(* key of one commit and the id of another, and two that the gate refuses. *)
(***************************************************************************)
EXTENDS FdcLedger, TLC

CONSTANTS acme, beta, alice, bob

Commit(id, company, key, at) ==
  [ fdcId |-> id, companyId |-> company, idempotencyKey |-> key, generatedAt |-> at,
    amount |-> 1, limit |-> 1, layer |-> "JUNIOR", ordStatus |-> "PARTIAL",
    human |-> alice, wellFormed |-> TRUE ]

First     == Commit(1, acme, 1, 1)
Second    == [Commit(2, acme, 2, 2) EXCEPT !.layer = "SENIOR", !.ordStatus = "OPERATIONAL"]
Tied      == Commit(3, acme, 3, 1)
Rewritten == [Commit(4, acme, 1, 2) EXCEPT !.amount = 0]
Elsewhere == Commit(2, beta, 1, 1)
OverLimit == [Commit(5, acme, 4, 2) EXCEPT !.amount = 2]
NotReady  == [Commit(5, acme, 4, 2) EXCEPT !.layer = "SENIOR"]

MCInputs ==
  {First, Second, Tied, Rewritten, Elsewhere, OverLimit, NotReady}

CallerSymmetry == Permutations(Callers)
=============================================================================
