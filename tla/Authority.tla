----------------------------- MODULE Authority -----------------------------
(***************************************************************************)
(* The authority graph (core/src/governance/oag and                        *)
(* governance/authority.graph.ts).                                         *)
(*                                                                         *)
(* One graph at a time is held by an isolate; others set, replace and      *)
(* clear it while the clock runs and proofs are asked for.  A proof is a   *)
(* plain object and outlives the graph it was issued on.  Whoever asks may *)
(* say what instant it is: the texts of instants compare as the instants.  *)
(***************************************************************************)
EXTENDS Integers, Sequences, FiniteSets, FiniteSetsExt

CONSTANTS
  OagGraphs,       \* graphs that may be set
  Asks,            \* requests for a proof
  SaidInstants,    \* instants an asker may say it is
  MaxNow           \* last instant of the clock

VARIABLES
  oagStore,        \* the graph held, or NoGraph
  oagNow,          \* the clock
  oagProofs        \* proofs issued, each with the graph it was issued on

authorityVars == <<oagStore, oagNow, oagProofs>>

NoGraph == [company_id |-> "none"]

Never == MaxNow + 1

(* Actors of a graph are named, and its delegations expire at an instant.  *)
ASSUME GraphsAssumption ==
  /\ MaxNow \in Nat /\ SaidInstants \subseteq Nat
  /\ \A graph \in OagGraphs :
       /\ graph # NoGraph
       /\ \A i \in DOMAIN graph.actors : graph.actors[i].actor_id # "none"
       /\ DOMAIN graph.delegations \subseteq Nat
       /\ \A i \in DOMAIN graph.delegations : graph.delegations[i].expires_at \in Nat

PLAN_INTENT_MATRIX ==
  [VISION |-> {"INFORM"}, GRADUATE |-> {"INFORM"}, JUNIOR |-> {"ADVISE", "EXECUTE"},
   SENIOR |-> {"ADVISE", "EXECUTE"}, PRINCIPAL |-> {"ADVISE", "EXECUTE", "IMPROVE"},
   CHARTER |-> {"INFORM"}]

----------------------------------------------------------------------------
(* The graph.  Delegations are a sequence: the first that matches gives    *)
(* the sponsor.                                                            *)
ActorIds(graph) == {graph.actors[i].actor_id : i \in DOMAIN graph.actors}

Expired(d, now) == d.expires_at <= now

validateOagGraph(graph, now) ==
  /\ graph # NoGraph
  /\ Cardinality(ActorIds(graph)) = Len(graph.actors)
  /\ \A i \in DOMAIN graph.delegations :
       LET d == graph.delegations[i]
       IN  /\ d.company_id = graph.company_id
           /\ {d.from_actor_id, d.to_actor_id} \subseteq ActorIds(graph)
           /\ d.from_actor_id # d.to_actor_id
           /\ d.intents # {}
           /\ ~Expired(d, now)

(* A delegation to the actor for the very plan, domain and intent.         *)
Delegates(d, ask, now) ==
  /\ d.company_id = ask.company_id
  /\ d.to_actor_id = ask.actor_id
  /\ d.plan = ask.plan
  /\ d.domain = ask.domain
  /\ ask.intent \in d.intents
  /\ ~Expired(d, now)

buildOagProof(ask, sponsor, authority, now) ==
  [ask |-> ask, sponsor_id |-> sponsor, authority |-> authority, issued_at |-> now]

IsBoard(graph, actor) ==
  \E i \in DOMAIN graph.actors :
    graph.actors[i].actor_id = actor /\ graph.actors[i].type = "board"

(* The proofs an ask may be answered with: one, or none.                   *)
resolveAuthorityFromGraph(graph, ask, now) ==
  LET matching == {i \in DOMAIN graph.delegations : Delegates(graph.delegations[i], ask, now)}
      del == graph.delegations[Min(matching)]
  IN  IF \/ ~validateOagGraph(graph, now)
         \/ ask.intent \notin PLAN_INTENT_MATRIX[ask.plan]
         \/ ask.actor_id \notin ActorIds(graph) THEN {}
      ELSE IF IsBoard(graph, ask.actor_id)
      THEN {buildOagProof(ask, "none", "board", now)}
      ELSE IF matching = {} THEN {}
      ELSE {buildOagProof(ask,
              IF del.sponsor_id # "none" THEN del.sponsor_id ELSE del.from_actor_id,
              "human", now)}

(* Mutant of validateOagAndBuildProof: the graph that happens to be held   *)
(* is taken for the company's own.                                         *)
ProofOnAnyGraph(ask, now) ==
  IF oagStore = NoGraph THEN {} ELSE resolveAuthorityFromGraph(oagStore, ask, now)

validateOagAndBuildProof(ask, now) ==
  IF oagStore = NoGraph \/ oagStore.company_id # ask.company_id THEN {}
  ELSE resolveAuthorityFromGraph(oagStore, ask, now)

----------------------------------------------------------------------------
AuthorityTypeOK ==
  /\ oagStore \in OagGraphs \union {NoGraph}
  /\ oagNow \in 0..MaxNow
  /\ \A p \in oagProofs : p.basis \in OagGraphs /\ p.proof.ask \in Asks

AuthorityInit ==
  /\ oagStore = NoGraph
  /\ oagNow = 0
  /\ oagProofs = {}

SetGraph(graph) ==
  /\ oagStore' = graph
  /\ UNCHANGED <<oagNow, oagProofs>>

ClearGraph ==
  /\ oagStore' = NoGraph
  /\ UNCHANGED <<oagNow, oagProofs>>

TimePasses ==
  /\ oagNow < MaxNow
  /\ oagNow' = oagNow + 1
  /\ UNCHANGED <<oagStore, oagProofs>>

(* At the instant the asker says it is, or at the clock's.                 *)
AskProof(ask, now) ==
  /\ oagProofs' = oagProofs \union
       {[proof |-> p, basis |-> oagStore] : p \in validateOagAndBuildProof(ask, now)}
  /\ UNCHANGED <<oagStore, oagNow>>

OagNext ==
  \/ \E graph \in OagGraphs : SetGraph(graph)
  \/ ClearGraph
  \/ TimePasses
  \/ \E ask \in Asks, now \in SaidInstants \union {oagNow} : AskProof(ask, now)

----------------------------------------------------------------------------
(* Whatever graph is held when a proof is asked for, the proof names one   *)
(* whose authority reached the actor at the instant of issue it bears: the *)
(* graph is of its company, nothing in it had expired then, and either the *)
(* actor sits on the board or a delegation from another actor of the       *)
(* graph, or its sponsor, is the one named.                                *)
ProofsBacked ==
  \A p \in oagProofs :
    LET ask == p.proof.ask
        backed(i) ==
          LET d == p.basis.delegations[i]
          IN  /\ d.to_actor_id = ask.actor_id
              /\ d.from_actor_id \in ActorIds(p.basis) \ {ask.actor_id}
              /\ <<d.plan, d.domain>> = <<ask.plan, ask.domain>>
              /\ ask.intent \in d.intents
              /\ p.proof.sponsor_id \in {d.sponsor_id, d.from_actor_id} \ {"none"}
    IN  /\ p.basis.company_id = ask.company_id
        /\ \A i \in DOMAIN p.basis.delegations :
             p.basis.delegations[i].expires_at > p.proof.issued_at
        /\ \/ p.proof.authority = "board" /\ IsBoard(p.basis, ask.actor_id)
           \/ p.proof.authority = "human" /\ \E i \in DOMAIN p.basis.delegations : backed(i)
=============================================================================
