---------------------------- MODULE LlmProviders ----------------------------
(***************************************************************************)
(* executeWithLlmProviders (core/src/sandbox/llm): the providers a plan    *)
(* may use are tried in order of priority until one answers, and each try  *)
(* leaves a row in the usage ledger, written before the answer is given,   *)
(* when the caller hands over the database.                                *)
(*                                                                         *)
(* A request awaits the provider and the ledger; each await may throw, and *)
(* a write of the ledger may throw after the row was stored.               *)
(* Costs are in euro cents.  What a provider does beyond answering or      *)
(* throwing is external.                                                   *)
(***************************************************************************)
EXTENDS Integers, Sequences

CONSTANTS
  Requests,     \* concurrent calls of executeWithLlmProviders
  Budgets,      \* what may remain of the pool of BASIC, in cents
  LedgerFails   \* whether a write of the usage ledger may throw

ASSUME LlmProvidersAssumption == Budgets \subseteq Nat /\ LedgerFails \in BOOLEAN

VARIABLES
  llm_request,  \* per request: the execution in progress, or its outcome
  llm_usage     \* per request: the rows of the usage ledger

llmVars == <<llm_request, llm_usage>>

PlanTier == {"BASIC", "JUNIOR", "SENIOR"}

----------------------------------------------------------------------------
(* registry.ts, sovereignty.ts: the candidates of a plan.                  *)

LlmProviderCandidates ==
  {[id |-> "openai", priority |-> 1, allowedFor |-> {"JUNIOR", "SENIOR"},
    costType |-> "paid", cost |-> 4],
   [id |-> "openrouter", priority |-> 2, allowedFor |-> PlanTier,
    costType |-> "openrouter", cost |-> 2],
   [id |-> "oss", priority |-> 99, allowedFor |-> PlanTier,
    costType |-> "oss", cost |-> 0]}

resolveSovereigntyPolicy(plan, budget) ==
  IF plan = "BASIC" /\ budget = 0 THEN {"free", "oss"} ELSE {"paid", "free", "oss"}

candidateEconomicClass(costType, budget) ==
  CASE costType = "paid" -> "paid"
    [] costType = "oss" -> "oss"
    [] costType = "openrouter" -> IF budget > 0 THEN "paid" ELSE "free"

Affordable(p, plan, budget) ==
  plan = "BASIC" /\ p.costType # "oss" => budget >= p.cost

resolveLlmProviders(plan, budget) ==
  {p \in LlmProviderCandidates :
     /\ plan \in p.allowedFor
     /\ candidateEconomicClass(p.costType, budget) \in resolveSovereigntyPolicy(plan, budget)
     /\ Affordable(p, plan, budget)}

----------------------------------------------------------------------------
(* providerMap.ts and the providers.                                       *)

(* Mutant of ProviderMap: the registry's first candidate is there, too.    *)
ProviderMapOfRegistry == {"openai", "openrouter", "oss", "mock"}

ProviderMap == {"openrouter", "oss", "mock"}

MayThrow == {"openrouter"}

----------------------------------------------------------------------------
LlmRequest ==
  [pc : {"idle", "try", "logAnswer", "logFailure", "answered", "failed", "aborted"},
   plan : PlanTier, budget : Budgets, providers : SUBSET LlmProviderCandidates,
   ledger : BOOLEAN, usedFallback : BOOLEAN, answers : 0..3, ledgerFailed : BOOLEAN]

LlmUsageLog ==
  [provider_id : {"openrouter", "oss"}, cost_eur : Nat, success : BOOLEAN, fallback : BOOLEAN]

LlmTypeOK ==
  /\ llm_request \in [Requests -> LlmRequest]
  /\ llm_usage \in [Requests -> Seq(LlmUsageLog)]

LlmInit ==
  /\ llm_usage = [r \in Requests |-> <<>>]
  /\ \E plan \in [Requests -> PlanTier], budget \in [Requests -> Budgets],
        ledger \in [Requests -> BOOLEAN] :
       llm_request = [r \in Requests |->
         [pc |-> "idle", plan |-> plan[r], budget |-> budget[r], providers |-> {},
          ledger |-> ledger[r], usedFallback |-> FALSE, answers |-> 0, ledgerFailed |-> FALSE]]

Update(r, next) == llm_request' = [llm_request EXCEPT ![r] = next]

Start(r) ==
  LET k == llm_request[r]
  IN  /\ k.pc = "idle"
      /\ Update(r, [k EXCEPT !.pc = "try",
                             !.providers = resolveLlmProviders(k.plan, k.budget)])
      /\ UNCHANGED llm_usage

Trying(r) == llm_request[r].pc = "try" /\ llm_request[r].providers # {}

(* The one in turn; the others stand behind it in order of priority.       *)
Candidate(r) ==
  CHOOSE p \in llm_request[r].providers :
    \A q \in llm_request[r].providers : p.priority <= q.priority

OthersOf(r) == llm_request[r].providers \ {Candidate(r)}

(* The candidate has no implementation.                                    *)
SkipMissing(r) ==
  /\ Trying(r)
  /\ Candidate(r).id \notin ProviderMap
  /\ Update(r, [llm_request[r] EXCEPT !.usedFallback = TRUE, !.providers = OthersOf(r)])
  /\ UNCHANGED llm_usage

Answer(r) ==
  /\ Trying(r)
  /\ Candidate(r).id \in ProviderMap
  /\ Update(r, [llm_request[r] EXCEPT !.pc = "logAnswer", !.answers = @ + 1])
  /\ UNCHANGED llm_usage

Throw(r) ==
  /\ Trying(r)
  /\ Candidate(r).id \in ProviderMap \intersect MayThrow
  /\ Update(r, [llm_request[r] EXCEPT !.pc = "logFailure", !.usedFallback = TRUE])
  /\ UNCHANGED llm_usage

(* logLlmUsage.                                                            *)
Log(r, success, fallback) ==
  llm_usage' = [llm_usage EXCEPT ![r] = Append(@,
    [provider_id |-> Candidate(r).id, cost_eur |-> Candidate(r).cost,
     success |-> success, fallback |-> fallback])]

(* A write that throws, with the row in the table or without it.           *)
LogThrows(r, success, fallback, stored) ==
  /\ LedgerFails
  /\ IF stored THEN Log(r, success, fallback) ELSE UNCHANGED llm_usage

Logging(r, pc, ledger) == llm_request[r].pc = pc /\ llm_request[r].ledger = ledger

AnswerLogged(r) ==
  /\ Logging(r, "logAnswer", TRUE)
  /\ Log(r, TRUE, llm_request[r].usedFallback)
  /\ Update(r, [llm_request[r] EXCEPT !.pc = "answered"])

AnswerUnrecorded(r) ==
  /\ Logging(r, "logAnswer", FALSE)
  /\ Update(r, [llm_request[r] EXCEPT !.pc = "answered"])
  /\ UNCHANGED llm_usage

(* Mutant of AnswerNotLogged: the answer is given all the same.            *)
AnswerGivenUnlogged(r, stored) ==
  /\ Logging(r, "logAnswer", TRUE)
  /\ LogThrows(r, TRUE, llm_request[r].usedFallback, stored)
  /\ Update(r, [llm_request[r] EXCEPT !.pc = "answered", !.ledgerFailed = TRUE])

(* The write is inside the try: its failure counts as the provider's.      *)
AnswerNotLogged(r, stored) ==
  /\ Logging(r, "logAnswer", TRUE)
  /\ LogThrows(r, TRUE, llm_request[r].usedFallback, stored)
  /\ Update(r, [llm_request[r] EXCEPT !.pc = "logFailure", !.usedFallback = TRUE,
                                      !.ledgerFailed = TRUE])

FailureLogged(r) ==
  /\ Logging(r, "logFailure", TRUE)
  /\ Log(r, FALSE, TRUE)
  /\ Update(r, [llm_request[r] EXCEPT !.pc = "try", !.providers = OthersOf(r)])

FailureUnrecorded(r) ==
  /\ Logging(r, "logFailure", FALSE)
  /\ Update(r, [llm_request[r] EXCEPT !.pc = "try", !.providers = OthersOf(r)])
  /\ UNCHANGED llm_usage

(* Thrown inside the catch: the request ends.                              *)
FailureNotLogged(r, stored) ==
  /\ Logging(r, "logFailure", TRUE)
  /\ LogThrows(r, FALSE, TRUE, stored)
  /\ Update(r, [llm_request[r] EXCEPT !.pc = "aborted", !.ledgerFailed = TRUE])

AllProvidersFailed(r) ==
  /\ llm_request[r].pc = "try"
  /\ llm_request[r].providers = {}
  /\ Update(r, [llm_request[r] EXCEPT !.pc = "failed"])
  /\ UNCHANGED llm_usage

LlmNext ==
  \E r \in Requests :
    \/ Start(r)
    \/ SkipMissing(r)
    \/ Answer(r)
    \/ Throw(r)
    \/ AnswerLogged(r)
    \/ AnswerUnrecorded(r)
    \/ \E stored \in BOOLEAN : AnswerNotLogged(r, stored)
    \/ FailureLogged(r)
    \/ FailureUnrecorded(r)
    \/ \E stored \in BOOLEAN : FailureNotLogged(r, stored)
    \/ AllProvidersFailed(r)

----------------------------------------------------------------------------
(* Properties.                                                             *)

Successes(rows) == {n \in DOMAIN rows : rows[n].success}

(* A success stands unless the next row is a failure of that provider: a   *)
(* write that throws after storing is followed by one.                     *)
Undenied(rows) ==
  {n \in Successes(rows) :
     n < Len(rows) => rows[n + 1].success \/ rows[n + 1].provider_id # rows[n].provider_id}

Charged(rows) == {rows[n].cost_eur : n \in DOMAIN rows}

(* The usage ledger tells what a request cost its company.  The row of the *)
(* answer given is the last of its request and the only success that the   *)
(* next row does not deny; a request that gave no answer has one only      *)
(* between a write that threw after storing and the row of that failure,   *)
(* or for good where that row failed as well; and without a failure of the *)
(* ledger no success is ever denied.  Only a failing ledger can make a     *)
(* second provider answer or leave the request without an answer, for the  *)
(* open-source provider, last in every list, does not fail; and no row of  *)
(* a BASIC request is dearer than what remained of the pool.               *)
UsageTellsAnswers ==
  \A r \in Requests :
    LET k == llm_request[r]
        rows == llm_usage[r]
    IN  /\ k.pc = "answered" => Undenied(rows) = IF k.ledger THEN {Len(rows)} ELSE {}
        /\ k.pc # "answered" /\ Undenied(rows) # {} =>
             /\ Undenied(rows) = {Len(rows)}
             /\ k.pc \in {"logFailure", "aborted"}
        /\ ~k.ledgerFailed => Successes(rows) = Undenied(rows)
        /\ k.answers > 1 \/ k.pc \in {"failed", "aborted"} => k.ledgerFailed
        /\ k.plan = "BASIC" => \A cost \in Charged(rows) : cost <= k.budget
=============================================================================
