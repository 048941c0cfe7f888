----------------------------- MODULE MCPlatform -----------------------------
(***************************************************************************)
(* Small instances of the services of the platform that share no state:    *)
(* a behaviour is one of attention evaluations, one of the noise policy,   *)
(* one of LLM requests, or one of policy bootstraps.                       *)
(***************************************************************************)
EXTENDS Platform, TLC

VARIABLE service

MCVars == <<service, platformVars>>

AllBasic == [r \in Requests |->
  [pc |-> "idle", plan |-> "BASIC", budget |-> 0, providers |-> {},
   ledger |-> TRUE, usedFallback |-> FALSE, answers |-> 0, ledgerFailed |-> FALSE]]

MCInit ==
  /\ service \in {"attention", "policy", "llm", "bootstrap"}
  /\ PlatformInit
  /\ service # "llm" => llm_request = AllBasic

MCNext ==
  /\ UNCHANGED service
  /\ \/ service = "attention" /\ AttentionStep
     \/ service = "policy" /\ PolicyStep
     \/ service = "llm" /\ LlmStep
     \/ service = "bootstrap" /\ BootstrapStep

MCSpec == MCInit /\ [][MCNext]_MCVars

Wish(context, trigger, priority, noise) ==
  [context_id |-> context, trigger |-> trigger, priority |-> priority, noise_policy |-> noise,
   condition |-> [operator |-> "GREATER_THAN", value |-> 1]]

MCWishes ==
  {Wish("supply", "REALITY_DRIFTING", "CRITICAL", "CRITICAL_ONLY"),
   Wish("supply", "QUANTITY_CHANGED", "MEDIUM", "CRITICAL_ONLY"),
   Wish("finance", "CUSTOM_CONDITION", "MEDIUM", "IMMEDIATE_ON_TRIGGER")}

Observation(context, reality, previous, current) ==
  [context_id |-> context, reality |-> reality, plan_state |-> "STABLE",
   decision_pressure |-> "LOW", blocked |-> FALSE, review_required |-> FALSE,
   watched |-> [previous |-> previous, current |-> current]]

MCObservations ==
  {Observation("supply", "DRIFTING", 1, 2),
   Observation("finance", "ALIGNED", Missing, 2)}

MCNews ==
  [group : {"DELIVERY"}, priority : {"MEDIUM", "HIGH"}, target_ref : {"PO1"},
   reason : {"changed"}, evidence : {"e1", "e2"}]
    \union {[group |-> "SKU", priority |-> "LOW", target_ref |-> "S1", reason |-> "changed",
             evidence |-> "e1"]}

MCSymmetry ==
  Permutations(Evaluations) \union Permutations(Requests) \union Permutations(Bootstraps)
=============================================================================
