------------------------------ MODULE Platform ------------------------------
(***************************************************************************)
(* The services of the platform that keep state of their own: attention    *)
(* and its noise policy, the execution of LLM requests, and the bootstrap  *)
(* of the policy registry.  They share no state: nothing in the code hands *)
(* what one of them keeps to another.                                      *)
(***************************************************************************)
EXTENDS Attention, LlmProviders, GovernanceBootstrap

PlatformInit == AttentionInit /\ LlmInit /\ BootstrapInit

AttentionStep == AttentionNext /\ UNCHANGED <<llmVars, bootstrapVars>>

PolicyStep == PolicyNext /\ UNCHANGED <<llmVars, bootstrapVars>>

LlmStep == LlmNext /\ UNCHANGED <<attentionVars, bootstrapVars>>

BootstrapStep == BootstrapNext /\ UNCHANGED <<attentionVars, llmVars>>

PlatformNext == AttentionStep \/ PolicyStep \/ LlmStep \/ BootstrapStep

platformVars == <<attentionVars, llmVars, bootstrapVars>>

PlatformSpec == PlatformInit /\ [][PlatformNext]_platformVars

(* Every table, call in progress and registry keeps its shape.             *)
PlatformTypeOK == AttentionTypeOK /\ LlmTypeOK /\ BootstrapTypeOK
=============================================================================
