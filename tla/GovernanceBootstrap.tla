------------------------ MODULE GovernanceBootstrap ------------------------
(***************************************************************************)
(* The bootstrap of the policies: bootstrapGovernance                      *)
(* (core/src/governance/policy/bootstrap.ts) checks its flag, awaits the   *)
(* datasets of governance/registry.ts, and freezes them into the registry  *)
(* of governance/runtime.ts, which throws when it is frozen already.       *)
(* Between the check of the flag and the freeze other calls may load, too. *)
(***************************************************************************)
EXTENDS Naturals

CONSTANT Bootstraps  \* callers of bootstrapGovernance, each of which may call again

VARIABLES
  activeBundle,   \* governance/runtime.ts; its frozen is set with it
  bootstrapped,   \* policy/bootstrap.ts
  bootstrap,      \* per caller: its call, and the bundle it loaded or was told of
  loads           \* history: the loads so far, which loaded_at tells apart

bootstrapVars == <<activeBundle, bootstrapped, bootstrap, loads>>

----------------------------------------------------------------------------
Policies ==
  {"delegation.policy.v1", "budget.policy.v1", "authority.policy.v1", "execution.policy.v1"}

(* The hash is computed from the policies, which stand for it.             *)
loadPolicyDatasets(n) == [policies |-> Policies, hash |-> Policies, loaded_at |-> n]

validatePolicyBundle(bundle) == bundle.policies # {} /\ bundle.hash # {}

NoBundle == [policies |-> {}, hash |-> {}, loaded_at |-> 0]

PolicyBundle == [policies : {Policies, {}}, hash : {Policies, {}}, loaded_at : Nat]

Call == [pc : {"idle", "loading", "returned", "threw"}, bundle : PolicyBundle]

BootstrapTypeOK ==
  /\ activeBundle \in PolicyBundle
  /\ bootstrapped \in BOOLEAN
  /\ bootstrap \in [Bootstraps -> Call]
  /\ loads \in Nat

BootstrapInit ==
  /\ activeBundle = NoBundle
  /\ bootstrapped = FALSE
  /\ bootstrap = [c \in Bootstraps |-> [pc |-> "idle", bundle |-> NoBundle]]
  /\ loads = 0

frozen == activeBundle # NoBundle

(* Mutant of freezePolicyRegistry: a later bundle replaces the first.      *)
FreezeLatest(bundle) == activeBundle' = bundle

freezePolicyRegistry(bundle) == ~frozen /\ activeBundle' = bundle

Settle(c, pc, bundle) == bootstrap' = [bootstrap EXCEPT ![c] = [pc |-> pc, bundle |-> bundle]]

(* A call that finds the flag set is given the snapshot at once.           *)
BootstrapAgain(c) ==
  /\ bootstrap[c].pc # "loading"
  /\ bootstrapped
  /\ Settle(c, "returned", activeBundle)
  /\ UNCHANGED <<activeBundle, bootstrapped, loads>>

BootstrapStart(c) ==
  /\ bootstrap[c].pc # "loading"
  /\ ~bootstrapped
  /\ loads' = loads + 1
  /\ Settle(c, "loading", loadPolicyDatasets(loads'))
  /\ UNCHANGED <<activeBundle, bootstrapped>>

(* After the await: the bundle is validated, frozen and told of.           *)
BootstrapFreezes(c) ==
  /\ bootstrap[c].pc = "loading"
  /\ validatePolicyBundle(bootstrap[c].bundle)
  /\ freezePolicyRegistry(bootstrap[c].bundle)
  /\ bootstrapped' = TRUE
  /\ Settle(c, "returned", activeBundle')
  /\ UNCHANGED loads

BootstrapThrows(c) ==
  /\ bootstrap[c].pc = "loading"
  /\ frozen \/ ~validatePolicyBundle(bootstrap[c].bundle)
  /\ Settle(c, "threw", bootstrap[c].bundle)
  /\ UNCHANGED <<activeBundle, bootstrapped, loads>>

BootstrapNext ==
  \E c \in Bootstraps :
    \/ BootstrapAgain(c)
    \/ BootstrapStart(c)
    \/ BootstrapFreezes(c)
    \/ BootstrapThrows(c)

----------------------------------------------------------------------------
(* However many calls load before one of them has frozen its bundle, there *)
(* is one registry: the flag of the bootstrap and the registry of the      *)
(* runtime say the same, every caller that was told of a bundle was told   *)
(* of the one that is frozen, and a call throws only when another's bundle *)
(* was frozen while it was loading its own, which nobody is told of.       *)
OneRegistry ==
  /\ bootstrapped <=> frozen
  /\ \A c \in Bootstraps :
       /\ bootstrap[c].pc = "returned" => frozen /\ bootstrap[c].bundle = activeBundle
       /\ bootstrap[c].pc = "threw" => frozen /\ bootstrap[c].bundle # activeBundle
=============================================================================
