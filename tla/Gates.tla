------------------------------- MODULE Gates -------------------------------
(***************************************************************************)
(* The shape every stage of the provider, key and governance code has: a   *)
(* row of conditions tried in order, each returning at once with a reason  *)
(* of its own.  A gate is a pair <<open, reason>>; what a stage says is    *)
(* the reason of the first gate that is not open.                          *)
(***************************************************************************)
EXTENDS Naturals, Sequences

CONSTANT None  \* an absent field, an empty one, or no reason

Closed(gates) == {n \in DOMAIN gates : ~gates[n][1]}

AllOpen(gates) == Closed(gates) = {}

FirstClosed(gates) ==
  gates[CHOOSE n \in Closed(gates) : \A k \in Closed(gates) : n <= k][2]

(* The reason, or otherwise when every gate is open.                       *)
ReasonOr(gates, otherwise) == IF AllOpen(gates) THEN otherwise ELSE FirstClosed(gates)

(* A result that repeats the one before it and adds, or replaces, its own. *)
Extended(before, own) ==
  [f \in DOMAIN before \union DOMAIN own |-> IF f \in DOMAIN own THEN own[f] ELSE before[f]]
=============================================================================
