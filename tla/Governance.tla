----------------------------- MODULE Governance -----------------------------
(***************************************************************************)
(* The parts of governance that keep state of their own: the emergence of  *)
(* governance, the data its policies govern, the trail of their decisions, *)
(* and the authority graph.  They share no state: the code hands nothing   *)
(* that one of them keeps to another.                                      *)
(***************************************************************************)
EXTENDS Emergence, GovernanceTrail, Authority

GovernanceInit == EmergenceInit /\ DataInit /\ TrailInit /\ AuthorityInit

EmergenceStep == EmergenceNext /\ UNCHANGED <<dataVars, trailVars, authorityVars>>

DataStep == DataNext /\ UNCHANGED <<emergenceVars, trailVars, authorityVars>>

TrailStep == TrailNext /\ UNCHANGED <<emergenceVars, dataVars, authorityVars>>

OagStep == OagNext /\ UNCHANGED <<emergenceVars, dataVars, trailVars>>

GovernanceNext == EmergenceStep \/ DataStep \/ TrailStep \/ OagStep

governanceVars == <<emergenceVars, dataVars, trailVars, authorityVars>>

GovernanceSpec == GovernanceInit /\ [][GovernanceNext]_governanceVars

(* Every memory, table and graph keeps its shape.                          *)
GovernanceTypeOK == EmergenceTypeOK /\ TrailTypeOK /\ AuthorityTypeOK
=============================================================================
