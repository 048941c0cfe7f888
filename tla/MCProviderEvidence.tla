------------------------- MODULE MCProviderEvidence -------------------------
(***************************************************************************)
(* A small instance of ProviderEvidence.                                   *)
(***************************************************************************)
EXTENDS ProviderEvidence, TLC

FactSymmetry == Permutations(Contexts) \union Permutations(Diagnoses)

(* The executor is called again only after it threw, or said that a failure*)
(* was contained: of an earlier run it matters that its summary can differ *)
(* from the last one's, not how.                                           *)
EarlierContained ==
  \A run \in DOMAIN performed :
    run < Len(performed) => performed[run].note \in {None, "CONTAINED"}

(* It is not called again after an alteration: a new result of P9O drops   *)
(* every other, the altered one among them.                                *)
AlteredLast == altered # None => performed' = performed

(* The definitions treat the interventions alike: one is decided, and the  *)
(* other is what it may be mistaken for.                                   *)
MCInit == Init /\ decision.response # "STOP"

MCSpec == MCInit /\ [][Next /\ EarlierContained' /\ AlteredLast]_vars
=============================================================================
