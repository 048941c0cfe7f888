------------------------- MODULE MCProviderDecision -------------------------
(***************************************************************************)
(* A small instance of ProviderDecision: two calls, of one context or of   *)
(* two, with integration results that reach every class of response.       *)
(***************************************************************************)
EXTENDS ProviderDecision, TLC

CONSTANTS sign, wrap

Surface(code, raw, retryable) ==
  [failureCode |-> code, providerRawStatus |-> FALSE, providerRawErrorCode |-> raw,
   retryable |-> retryable]

Completed(ctx) ==
  [ready |-> TRUE, ctx |-> ctx, facts |-> TRUE, attempted |-> TRUE, completed |-> TRUE,
   failureRequired |-> FALSE, surface |-> None, recoveryRequired |-> FALSE, recovery |-> None]

Failed(ctx, surface) ==
  [Completed(ctx) EXCEPT !.failureRequired = TRUE, !.surface = surface]

Recoverable(i, recovery) ==
  [i EXCEPT !.recoveryRequired = TRUE, !.recovery = recovery]

Of(ctx) ==
  { Completed(ctx),
    Failed(ctx, Surface("THROTTLED", OtherCode, TRUE)),
    Recoverable([Failed(ctx, Surface(OtherCode, "ThrottlingException", TRUE))
                   EXCEPT !.completed = FALSE], "NOT_READY") }

MCIntegrations ==
  Of(sign) \union Of(wrap) \union
  { Recoverable(Failed(sign, Surface(OtherCode, "ServiceUnavailable", FALSE)), "READY"),
    Failed(sign, Surface("THROTTLED", "ValidationException", TRUE)),
    Recoverable(Failed(sign, Surface(OtherCode, "DependencyFailure", FALSE)), "READY"),
    Recoverable([Failed(sign, Surface(OtherCode, None, FALSE))
                   EXCEPT !.completed = FALSE], "READY"),
    [Failed(sign, Surface("UNAUTHORIZED", None, FALSE))
       EXCEPT !.attempted = FALSE, !.completed = FALSE],
    Failed(sign, Surface(None, None, FALSE)),
    [Failed(sign, Surface("TIMEOUT", None, TRUE)) EXCEPT !.failureRequired = FALSE],
    [Completed(sign) EXCEPT !.facts = FALSE],
    [Completed(sign) EXCEPT !.ready = FALSE] }

CallSymmetry == Permutations(Calls)

(* A decision reads one classification, and no other changes what it says. *)
OneClassified ==
  \A c, d \in Calls : classification[c] # None /\ classification[d] # None => c = d

(* One of the calls at least is an ordinary one: completed, throttled, or  *)
(* known to be incomplete.                                                 *)
MCInit == Init /\ \E c \in Calls : integration[c] \in Of(sign) \union Of(wrap)

MCSpec == MCInit /\ [][Next /\ OneClassified']_vars
=============================================================================
