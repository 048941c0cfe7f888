---------------------- MODULE MCProviderLedgerBinding ----------------------
(***************************************************************************)
(* A small instance of ProviderLedgerBinding: two durable facts of acme,   *)
(* one that names no tenant, and two that P9R did not write completely.    *)
(***************************************************************************)
EXTENDS ProviderLedgerBinding, TLC

CONSTANTS payloadA, payloadB, textA, textB, acmeExecution, betaExecution, nobodys, betaAtLarge,
  acme, beta, p9u

MCText == payloadA :> textA @@ payloadB :> textB
MCTenantOf == acmeExecution :> acme @@ betaExecution :> beta @@ nobodys :> NoTenant @@ betaAtLarge :> beta

Durable(tenant, payload) ==
  [written |-> TRUE, durable |-> TRUE, tenant |-> tenant, payload |-> payload]

MCFacts ==
  { Durable(acme, payloadA),
    Durable(NoTenant, payloadB),
    [Durable(acme, payloadA) EXCEPT !.written = FALSE],
    [Durable(acme, payloadA) EXCEPT !.durable = FALSE] }

BinderSymmetry == Permutations(Binders)
=============================================================================
