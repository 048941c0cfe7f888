----------------------------- MODULE MCChainLog -----------------------------
(***************************************************************************)
(* Small instances of ChainLog, told apart by a variable: overlapping      *)
(* appends to a chain nobody alters, and appends one at a time to a        *)
(* shorter chain that is altered between them.                             *)
(***************************************************************************)
EXTENDS ChainLog, TLC

CONSTANTS
  payloadA, payloadB, textA, textB, acme, beta,
  MaxAltered   \* records issued to a chain that is altered

VARIABLE custody

MCText == payloadA :> textA @@ payloadB :> textB

(* The texts may be exchanged together with their payloads only.           *)
TextSymmetry ==
  {payloadA :> p @@ payloadB :> q @@ textA :> MCText[p] @@ textB :> MCText[q] :
     <<p, q>> \in {<<payloadA, payloadB>>, <<payloadB, payloadA>>}}

MCSymmetry ==
  {c @@ s @@ t : c \in Permutations(Callers), s \in Permutations(Scopes), t \in TextSymmetry}

OneAtATime ==
  \A c, d \in Callers : call[c].pc # "idle" /\ call[d].pc # "idle" => c = d

MCInit == Init /\ custody \in {"kept", "altered"}

MCNext ==
  /\ Next
  /\ custody = "kept" => edits' = 0
  /\ custody = "altered" => Len(issued') <= MaxAltered /\ OneAtATime'
  /\ UNCHANGED custody

MCSpec == MCInit /\ [][MCNext]_<<vars, custody>>
=============================================================================
