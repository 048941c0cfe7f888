---------------------------- MODULE MCGovernance ----------------------------
(***************************************************************************)
(* Small instances of four parts of governance that share no state: a      *)
(* behaviour is one of the emergence of governance, one of governed data,  *)
(* one of the trail of decisions, or one of the authority graph.           *)
(*                                                                         *)
(* Emergence: workflows that do everything; cycles of one pressure each,   *)
(* and one of two; enough observations for every signal of the bridge, and *)
(* enough cycles for every review.                                         *)
(***************************************************************************)
EXTENDS Governance, TLC

VARIABLE service

Heavy ==
  [promptPatterns |-> 10, prompts |-> 20, artifacts |-> 20, instructions |-> 20,
   recoveries |-> 10, reconciliations |-> 10, dependencyRate |-> 900, slowdown |-> TRUE,
   shadow |-> TRUE, tools |-> 5]

MCWorkflows == {Heavy}

Of(ai, delegation, improvement, flags, confidence) ==
  [shadow |-> FALSE, ai |-> ai, advisory |-> 0, execution |-> 0,
   delegation |-> delegation, improvement |-> improvement, flags |-> flags,
   confidence |-> confidence, workflow |-> NoWorkflow]

Advised == [Of(0, 0, 0, 0, 400) EXCEPT !.advisory = 700]

Alarming == Of(0, 0, 750, 1, 400)

Bridged == [Of(0, 0, 0, 0, 950) EXCEPT !.workflow = Heavy]

MCEvidence ==
  {Of(500, 0, 0, 0, 400), Advised, Of(0, 800, 0, 0, 400), Of(0, 800, 0, 0, 700),
   Alarming, Bridged}

(* Every evidence is tried with the timeline; without it, and with its     *)
(* caller's review, one that alarms and one that does not.                 *)
Handed ==
  (Evidence \X {TRUE} \X {Undefined})
    \union ({Advised, Alarming} \X BOOLEAN \X (Overrides \union {Undefined}))

(* After all workflows were observed it matters whether a cycle is bridged *)
(* with one: two others are enough.                                        *)
MCEmergenceStep ==
  /\ \/ \E e \in Workflows : Observe(e)
     \/ \E c \in Cycles, h \in Handed :
          /\ cognitive.entries > 0 => h[1] \in {Bridged, Advised, Of(0, 800, 0, 0, 400)}
          /\ Begin(c, h[1], h[2], h[3])
     \/ \E c \in Cycles : Record(c)
  /\ UNCHANGED <<dataVars, trailVars, authorityVars>>

MCInit ==
  /\ service \in {"emergence", "data", "trail", "oag"}
  /\ GovernanceInit
  /\ service # "emergence" => authority = "VISION"

MCNext ==
  /\ UNCHANGED service
  /\ \/ service = "emergence" /\ MCEmergenceStep
     \/ service = "data" /\ DataStep
     \/ service = "trail" /\ TrailStep
     \/ service = "oag" /\ OagStep

MCSpec == MCInit /\ [][MCNext]_<<service, governanceVars>>

(* Histories of at most two kinds of cycle, and cycles either before any   *)
(* workflow was observed or after all were.  A cycle without the timeline, *)
(* or with its caller's review, is looked at but not followed: but for     *)
(* what was stated, it leaves what a cycle with the timeline leaves.       *)
Issued == Recorded \union {cycle[c] : c \in {d \in Cycles : cycle[d] # Nothing}}

FewKinds ==
  /\ Cardinality({<<r.pressures, r.confidence>> : r \in Issued}) <= 2
  /\ clock > 0 => cognitive.entries \in {0, MaxEntries}
  /\ latest # Nothing => latest.timed /\ latest.override = Undefined

(* Requests about two domains of data, one that may not leave its region   *)
(* and one that may be exported: true ones, one that says the wrong        *)
(* region, one that names none.                                            *)
Boundary(domain, source, target, internal) ==
  [policy |-> "TENANT_BOUNDARY", domain |-> domain, source |-> source,
   target |-> target, systemInternal |-> internal]

Sovereignty(domain, operation, source, target) ==
  [policy |-> "SOVEREIGNTY_POLICY", domain |-> domain, operation |-> operation,
   source |-> source, target |-> target, involves_authority |-> FALSE,
   involves_cognition |-> FALSE, locality |-> "REGION_LOCAL"]

Encryption(domain, operation) ==
  [policy |-> "ENCRYPTION_POLICY", domain |-> domain, operation |-> operation]

Recovery(domain, approver) ==
  [policy |-> "RECOVERY", domain |-> domain, approverId |-> approver]

MCOperations ==
  {Boundary("CHARTER", "t1", "t2", FALSE), Boundary("CHARTER", "t1", "t2", TRUE),
   Boundary("CHARTER", "t2", "t3", FALSE), Boundary("NARRATIVE", "t1", "t2", TRUE),
   Sovereignty("CHARTER", "STORE", "eu", "us"), Sovereignty("CHARTER", "STORE", "us", "us"),
   Sovereignty("CHARTER", "TRANSFER", "us", "eu"), Sovereignty("CHARTER", "TRANSFER", "eu", None),
   Encryption("CHARTER", "EXPORT"), Encryption("NARRATIVE", "EXPORT"),
   Recovery("CHARTER", "h1"), Recovery("OAG", "h1"), Recovery("DECISION_MEMORY", None)}

MCDecided ==
  {Boundary("CHARTER", "t1", "t2", FALSE), Boundary("CHARTER", "t1", "t2", TRUE),
   Sovereignty("CHARTER", "STORE", "eu", "us"), Encryption("NARRATIVE", "EXPORT")}

(* Graphs of two companies: a delegation that expires, one with a sponsor, *)
(* and a graph that is not valid.                                          *)
Actor(id, type) == [actor_id |-> id, type |-> type]

Delegation(company, from, to, intents, sponsor, expiry) ==
  [company_id |-> company, from_actor_id |-> from, to_actor_id |-> to, plan |-> "SENIOR",
   domain |-> "finance", intents |-> intents, sponsor_id |-> sponsor, expires_at |-> expiry]

Graph(company, delegations) ==
  [company_id |-> company, actors |-> <<Actor("chair", "board"), Actor("ann", "human"),
   Actor("bot", "service")>>, delegations |-> delegations]

MCOagGraphs ==
  {Graph("acme", <<Delegation("acme", "chair", "ann", {"EXECUTE"}, "none", 1)>>),
   Graph("acme", <<Delegation("acme", "ann", "bot", {"ADVISE"}, "none", Never),
                   Delegation("acme", "chair", "ann", {"EXECUTE", "INFORM"}, "bot", 2)>>),
   Graph("beta", <<Delegation("beta", "chair", "ann", {"EXECUTE"}, "none", Never)>>),
   Graph("acme", <<Delegation("acme", "ann", "ann", {"EXECUTE"}, "none", Never)>>)}

Ask(company, actor, intent) ==
  [company_id |-> company, actor_id |-> actor, plan |-> "SENIOR", domain |-> "finance",
   intent |-> intent]

MCAsks ==
  {Ask("acme", "ann", "EXECUTE"), Ask("beta", "ann", "EXECUTE"), Ask("acme", "ann", "INFORM"),
   Ask("acme", "chair", "EXECUTE")}

MCSymmetry == Permutations(Cycles) \union Permutations(Recorders)
=============================================================================
