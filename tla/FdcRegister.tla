---------------------------- MODULE FdcRegister ----------------------------
(***************************************************************************)
(* What the ledger of financial decision commits promises its callers,     *)
(* with no table, chain or concurrency in it: each idempotency key of a    *)
(* company is decided at most once, for an acceptable commit, the decision *)
(* is never taken back, and a caller hears of a decision only once it has  *)
(* been made.                                                              *)
(***************************************************************************)
CONSTANTS
  Callers,
  Inputs,      \* commits that may be submitted
  Acceptable   \* those of them the gate lets through

VARIABLES
  committed,   \* the decisions made
  answer       \* per caller: the answer in its hands, as a set of at most one

SameKey(a, b) ==
  /\ a.companyId = b.companyId
  /\ a.idempotencyKey = b.idempotencyKey

Init ==
  /\ committed = {}
  /\ answer = [c \in Callers |-> {}]

Decide(input) ==
  /\ input \in Acceptable
  /\ \A other \in committed : ~SameKey(input, other) /\ input.fdcId # other.fdcId
  /\ committed' = committed \union {input}
  /\ UNCHANGED answer

(* The caller is told that this very commit has been decided.              *)
Confirm(c, input) ==
  /\ input \in committed
  /\ answer' = [answer EXCEPT ![c] = {[input |-> input, reused |-> FALSE]}]
  /\ UNCHANGED committed

(* The caller is told that its key has been decided before.                *)
Repeat(c, input) ==
  /\ \E other \in committed : SameKey(input, other)
  /\ answer' = [answer EXCEPT ![c] = {[input |-> input, reused |-> TRUE]}]
  /\ UNCHANGED committed

(* The caller takes its answer away and asks for something else.           *)
Ask(c) ==
  /\ answer' = [answer EXCEPT ![c] = {}]
  /\ UNCHANGED committed

Next ==
  \/ \E input \in Inputs : Decide(input)
  \/ \E c \in Callers :
       \/ \E input \in Inputs : Confirm(c, input) \/ Repeat(c, input)
       \/ Ask(c)

Spec == Init /\ [][Next]_<<committed, answer>>
=============================================================================
