# Verification of PlannerAgent

TLA+ specifications of the parts of PlannerAgent that decide, keep records and
act on them. TLC checks them on small instances; TLAPS proves every safety
property TLC finds to hold, for every instance. Paths below are relative to
`src/planneragent/core/src` unless they start with `src/`.

1. Inventory: the system, its state, what is hard
2. What is modelled, module by module
3. Runs, bounds and what they show
4. Proofs
5. Only model-checked, and not modelled
6. Plan

## 1. Inventory

PlannerAgent is a TypeScript library and a Cloudflare worker. A request is
planned by an orchestrator, paid for out of an LLM budget, gated by authority
and cryptography checks, executed through providers, and recorded: financial
commits in a D1 table, governance facts in an in-memory hash chain and in D1,
provider facts through the pipeline P9H to P9W. There are no threads.
Concurrency comes from requests whose `await`s interleave in D1 or in WebCrypto,
from requests of several companies that share the memory of one isolate, and
from callers that hold several results at once; failure comes from an evicted
worker, a throwing statement and injected executors, writers and auditors.

| Component | State | Operations | Hard behaviour | What makes it correct | Modules |
|---|---|---|---|---|---|
| Financial decision ledger `finance/` | D1 table `fdc_commits` | `fdcAppendV1`: validate, look up key, read last, insert | three statements with awaits between them; retries after an eviction; last row by the caller's clock | one commit a key, links intact, acknowledgements true, one chain a company | `FdcLedger`, `FdcRegister` |
| Immutable chain `ledger/immutable.chain.ts` | none: the caller holds the records | `appendImmutableRecord`, `verifyImmutableChain` | updates lost between two appends; altered, cut or reordered chains | what verifies was issued; no false alarm | `ImmutableChain`, `ChainLog` |
| P9U | none: the caller holds chain and payloads | `bindAndVerifyProviderRuntimeLedger` | predecessor handed over before two awaits | bound only on a genuine predecessor; continuation works | `ProviderLedgerBinding` |
| P9V, P9W | none: the caller holds bindings and attestations | bind an operation, admit an attestation | results altered or handed over crosswise | one attestation speaks of one bound operation | `ProviderAttestation` |
| P9K to P9N | none: the caller holds the results | translate, verify, classify, decide | results of several calls mixed up; rejected intakes | the response fits the call; an incomplete call is not repeated | `ProviderDecision` |
| P9O to P9T | none inside; writer and auditor keep rows | execute, certify, admit, write, admit to audit, audit | executors and writers that throw after acting; retries; altered results | what is recorded as done was done; stages agree on evidence | `ProviderEvidence` |
| P9H to P9J | none | admit, map, call, normalise, report | a denied stage whose result is used all the same; an answer that is lost | a failure stays a failure up to the hook | `ProviderCall` |
| Keys P9C to P9G | lifecycle records of the caller | decide, evidence, audit, rotate, encrypt | a decision applied later than the status it was taken on | decisions, evidence and audits are about the same thing | `KeyGovernance`, `KeyRotation`, `PayloadEncryption` |
| LLM budget `sandbox/budget.ts` | four D1 tables | ensure month, check, record use, redistribute | check and charge are separate; month rolls over; duplicate rows | bounded overdraft; a trail for all that was charged | `LlmBudget` |
| LLM providers `sandbox/llm` | usage ledger | try providers in order | the ledger throws after a paid answer, its row stored or not | the ledger tells what was answered | `LlmProviders` |
| Orchestrator `sandbox/orchestrator.v2.ts` | policy history and capability memory of the isolate | one evaluation | requests that learn from one another between their awaits | no execution without authority | `Sandbox` |
| Capabilities, executor | capability memory | choose, execute, fall back, batch | a throw in the middle of a batch | attempts stay within the decision | `Capabilities` |
| Attention | subscriptions in D1 | create, disable, evaluate, expire | overlapping evaluations, a failure between two marks | reports are justified; no news is suppressed | `Attention` |
| Policy bootstrap | flag and frozen registry of the isolate | load, validate, freeze | several bootstraps over one await | one registry, the one callers are told of | `GovernanceBootstrap` |
| Emergence | cognitive and emergence memory of the isolate | observe, begin a cycle, record it | overlapping cycles recorded out of order | a boundary question is not forgotten by whoever is handed the timeline | `Emergence` |
| Governance evidence and ledger | D1 tables; the previous record, in memory | create evidence, preserve, chain, verify | inserts that fail, isolates that restart | a ledger that verifies is one account | `GovernanceTrail` |
| Data policies, recovery | none: the caller holds the data | ask a policy, recover | operations that are each allowed, in sequence | data stays where it is governed | `SovereigntyPolicies` |
| Authority graph, OAG | one graph an isolate | set, clear, ask for a proof | a graph replaced under proofs; the clock | a proof names authority that reached the actor | `Authority` |
| Scheduler, billing, memory, cognition, connectors, market, rate shield | little or none | see section 5 | | | |

`PROJECT.json` lists every component with its sources and status, and under
`hazards` each thing that is hard to test, at its line, with the property that
covers it.

## 2. What is modelled

One shape runs through the provider, key and governance code: a row of
conditions, tried in order, each returning at once with its own reason. `Gates`
has it once: a gate is a pair `<<open, reason>>`, `AllOpen` says whether a stage
goes on and `ReasonOr` which reason it gives.

Three modules put parts together that share no state: `Cryptography`
(`ProviderLedgerBinding`, `ProviderAttestation`, `ProviderCall`, `KeyGovernance`,
`PayloadEncryption`), `Platform` (`Attention`, `LlmProviders`,
`GovernanceBootstrap`) and `Governance` (`Emergence`, `SovereigntyPolicies`,
`GovernanceTrail`, `Authority`). A step of the whole is a step of one part that leaves the others
as they are, because nothing in the code hands the result of one to another. The
theorems are about these compositions, and so are the type invariants of their
runs.

### `FdcLedger` (with `FdcRegister`): the ledger of financial commits

`fdc_commits` is the table in insertion order; `call` is, per caller, where an
execution of `fdcAppendV1` stands. Each SQL statement is one action
(`LookupFound`/`LookupMissed`, `ReadFirst`/`ReadLast`, `Insert`/`InsertRefused`),
because D1 makes a statement atomic and nothing more. `Begin` is the synchronous
FDV gate; `Die` is an eviction or a throw at any await, before or after the
insert; a retry is a `Begin` of the same or of another commit under the same key.
`LastRows` is a set: `ORDER BY generated_at DESC LIMIT 1` picks any of the tied
rows. A digest is the sequence of what was hashed (SHA-256 is taken as free of
collisions), and `StableText` keeps what the array replacer of `stableJson` keeps.

`FdcRegister` is the abstract promise: a key is decided at most once, for an
acceptable commit, for good, and a caller hears of it only afterwards.
`RefinesRegister` is `FdcRegister!Spec` with `committed` the set of stored
commits and `answer` the answers callers hold.

### `ImmutableChain`, `ChainLog`: the governance chain

`ImmutableChain` has the pure part: append, the input coherence checks, and the
verification loop as one quantified condition per check. `ChainLog` puts it to
use: callers append across the two digest awaits (`Begin`, `Issue`, `Store`,
`Lose`) and a holder's copy is edited, cut or reordered (`EditRecord`,
`EditPayload`, `Remove`, `Exchange`). No module of the repository persists a
chain, so holder and alterations are marked external. Alterations use digests
that were issued: the chain is no defence against someone who recomputes it.
`Text` is the canonical text of a payload, which need not be injective: the
writer drops objects it has met before. `metadata`, `record_id` and
`created_at` are in no digest, and no property says that they are protected,
although the module's comment at `ledger/immutable.chain.ts:20` reads more
broadly.

### `ProviderLedgerBinding`: P9U

A binder passes its gates (`Deny`), awaits the append (`StartAppend`,
`RefuseAppend`), checks the counts (`CountMismatch`), awaits the verification
(`StartVerify`) and ends `Bind` or `FailVerify`. It composes `ImmutableChain`:
`Appended` and `ChainVerified` are its operators applied to the one predecessor
and the payloads P9U was given. `Take` and `Alter` are the external holder.

### `ProviderDecision`: P9K intakes, P9L, P9M, P9N

The stages are synchronous and stateless, so each is an operator with the
source's name and an action that applies it to results the caller holds.
Several calls are in hand, and an action may take what is of *another* call:
`Verify(c, v, f, ..)` puts the integration of `c`, the verification intake of `v`
and the failure intake of `f` before P9L, `Classify(c, v, f, ..)` the
verification of `v` and the failure intake of `f` before P9M, `Decide(c, k, ..)`
the classification of `k` before P9N. What tells two calls apart is `ctx`, the
six fields `runtimeContextsMatch` compares; P9N compares it, P9L and P9M do not.
`factsOf`, `surfaceOf` and `verificationOf` remember what a result was made of,
so that the properties can say of which call they speak: an incomplete call is
not repeated whatever is mixed in, as long as P9L was told that it is incomplete
(`IncompleteNeverRetried`); the response fits its call where P9L and P9M were
given what is of it (`OwnMaterial` in `ResponseFits`).
`Gates` are the stages' own `REJECT_` inputs. Left out: severity, wording, and
fields that are copied and looked at by no stage. `Integrations` are inputs of
the contract's type: no function in the repository builds one.

### `ProviderEvidence`: P9O to P9T

One decided response goes down six stages. `held` is what the caller has of
each; `performed` is what executors really did and reported; `ledger` is what
the writer stored. An executor may reply for another response, fail, be
missing, or throw (P9O has no try: the caller holds nothing). The writer may
fail or throw with the row stored or not; the caller may call again any stage
whose result does not stand, and a new result drops what was derived from the
old one. Once (`Alterable`), any one field of one held result is altered: results
are plain objects, they show each fact twice (on top, and in the material
inside), and the coherence checks of P9Q to P9T exist to compare the two. Some
fields they do not compare (`Uncompared`): the execution metadata, and the
summary of the executor. The row a fact was stored in is shown once by the write
result, where P9S only wants it to be there, and twice by the audit admission,
which P9T compares (`AlterRow`). `AuditFaithful` says what the comparisons are
worth: such a field may be wrong itself in an audit, and then nothing else is.
`Agree(a, b, fields)` is such a comparison, with the fields each stage really
compares. `diag` stands for the verification, classification and failure
fields, `ctx` for the provider context, `run` (history) for the executor run a
result is about, `meta` for what its metadata says of that, `note` for the executor's summary as
far as a stage looks at it: absent, empty, or with or without the token
`executor_failure_contained`. The five responses that have an executor are
treated alike by every stage; `Interventions` is the subset that is checked.

### `ProviderAttestation`: P9V, P9W

`BindOperation` puts an observed provider operation and a P9U result before P9V;
`Attest` is the provider (external), `Admit` puts a binding and an attestation
before P9W. The caller may pair any with any, and once alters one field of what
it holds. `BindingFields` are the facts the two sides of a binding have to say;
`AttestedFields` those P9W compares. P9W never recomputes the digest of the
binding: comparing field by field is all that stands for it, and
`AdmittedAsBound` says that it is enough.

### `ProviderCall`: P9H, P9I, P9J

One operation from the resolution of its provider (`Decide`) through the mapping
and the adapter (`Prepare`), the implementation (`Send`), the provider
(`Perform`, external), its answer or the loss of it (`Answer`, `Lose`), the
translation and sanitization (`Translate`) to the verification hook (`Expose`).
Each stage has the decision input of its own the code gives it, and none throws:
the next stage has to look at what it got. Three facts of the code shape the
properties. Every field of an answer is
optional, and P9J.3 reports completion when there is no answer, or one without
code, message and diagnostic
(`cryptography/provider/implementations/P9J.provider.api.call.execution.ts:530`):
it never looks at the status, so a bare `FAILED` counts as completed. Hence
`CompletedCallWasPerformed` says "performed, or the answer was lost or `Silent`",
and `FailureNotMasked` is about answers that name an error (`TellsOfError`),
whatever their status. Of the provider only this is assumed: it says `OK` without
an error of what it carried out. And the keys P9I.5 looks
for do not include `providerRawDiagnostic`
(`cryptography/provider/adapters/P9I.provider.adapter.failure.surface.ts:185`);
`FailureNotMasked` shows that the earlier sanitization leaves nothing for it.

### `KeyGovernance`, `KeyRotation`, `PayloadEncryption`: P9C to P9G

`evaluateKeyGovernanceRequest` decides on the status its caller brings
(`Ask`); the key changes when the caller acts on the decision (`Apply`,
external), with other cases in between; `Audit` puts an evidence and a ledger
record before the audit, of which one may have been altered or belong to another
case. A revocation is "irreversible_operation", yet nothing asks again when a
decision is applied: `RevivedOnlyByStale` says exactly when a revoked key comes
back. `CREATE_KEY` is allowed in any status (its `allowedStatuses` is empty and
then not looked at), and `independentApprovalRequired` and
`KEY_AUTHORITY_SEPARATION_RULES` are read by no code; the model has neither.
`KeyRotation` has the three families of P9F and the orchestration of P9G, which
stops at the first that says no; the audit of P9F looks at the ledger record
alone. `PayloadEncryption` has the governance of an encryption, its
infrastructure and its mechanism. `CompletedWhenAllAgree` and
`EncryptedAsGoverned`, checked over all inputs as `OnlyAsGoverned`, say that the
chains of stages come to the conjunction of what the policies ask for.

### `LlmBudget`: the shared pool

Four tables, `month` (the clock) and per request the call in progress with the
month it was made in. Every SQL statement is an action; `Rollover` may come
between any two; `Die` may too. `FirstRow` is the row an unordered
`SELECT ... LIMIT 1` returns, the first inserted: `month` has no unique index,
so bootstraps may insert two. Euro amounts are integers.

### `LlmProviders`: providers in order

`Start` builds the list of candidates of a plan and a budget; the providers
answer or throw, the usage ledger is written in the same `try` and may throw
too (`AnswerNotLogged`: the paid answer is dropped and the next provider is
asked), and the ledger of failures is written in the `catch`, where a throw
ends the request (`FailureNotLogged`). A write that throws may have stored its
row (`stored`), so an answer that was dropped may have a row of success; the row
of failure after it denies it (`Undenied`). A caller may pass no database at all:
then nothing is written (`AnswerUnrecorded`, `FailureUnrecorded`). The candidate `openai` has no
implementation and is skipped; a BASIC request with nothing left only gets the
open-source provider. Costs are in euro cents.

### `Sandbox` on `Capabilities`: an evaluation

An action is the code of `evaluateSandboxV2` between two awaits: the gates of
the routes and of the snapshot (`Receive`), the analysis (`Analyse`), policy and
governance (`Govern`), then for each action the choice of a capability
(`Resolve`) and its execution (`Perform`), the batch of what is left to the
runtime (`ExecuteBatch`) and the answer (`Conclude`, which fails after the
actions when the last snapshot cannot be read). What requests share, whatever
their company, is the decision history a policy is inferred from and the memory
of capabilities. What the pure analysis finds is the *situation* of a request:
scores and findings, from a set of cases chosen to reach each branch. `Governance`
is, case by case and policy by policy, what may be decided.

What the code does, and the model with it:

* Neither the payload of a capability (`sandbox/orchestrator.v2.ts:2312`) nor the
  environment of the batch (2396) names a region, and the executor asks for one:
  no action is ever EXECUTED. `ActedWithinAuthority` is therefore about what is
  *attempted*. A decision is recorded as a success before, and without, execution
  (2017).
* `correctionEffect` is always FULL, so three of the hard blocks (1013) are out
  of reach; one unsupported kind fails the whole batch (2387); anomaly reasons
  become actions; all actions of the optimizer share one key when duplicates are
  dropped (461); PENDING and SKIPPED are learned as failures.
* The voice route passes no behaviour override on (`routes.voice.ts:98`), so it
  never asks for a policy itself; it can only inherit one.
* The snapshot route never gets past its first gate. The sealed record is never
  stored (3227), and the chain of decision memory is never linked.

### `Attention`

Subscriptions are rows; `expirePastDue`, `Select` and `Mark` are statements of
an evaluation, `Return` or `Reject` its end; other evaluations, `disable` and the
clock run between them. `ReportsJustified` also compares the two definitions of
an active row, the SQL and `evaluateAttentionLifecycle`. `Arrive` adds an event
to an inbox to which `applyAttentionPolicy` is applied whole. In the code, and
left as it is: `last_checked_at` may go backwards (`attention/attention.subscription.ts:386`),
`ORDER BY priority DESC` is alphabetical (326), RESOLVED and OBSOLETE are read
back as ACTIVE (56), `windowMinutes` is read by nothing, and an escalated group
tells the user of its first subscription only.

### `GovernanceBootstrap`

`governance/policy/bootstrap.ts` over the three modules it imports:
`governance/registry.ts` loads, `governance/validator.ts` validates,
`governance/runtime.ts` holds the registry. The load is an await between the
check of the flag and the freeze, so several bootstraps may load at once, each a
bundle of its own (`loaded_at`); loads resume in any order. The first freezes
(`BootstrapFreezes`), and the freeze of each other throws
(`BootstrapThrows`, `governance/runtime.ts:16`); a caller may call again.
The module of the same name in `governance/policy` (`runtime.ts`, with
`validator.ts` and `types.ts`) is another registry: `boundary.ts:17` and
`hod.ts` read it, and no code of the repository freezes it. It is not modelled.

### `Emergence`

`Observe` is a workflow observed, `Begin` a cycle computed from the evidence and,
if it is handed it, the memory, `Record` its recording, possibly after another cycle's. The
timeline of that memory is the caller's to hand over, and so is a review in place
of the cycle's own: `Begin(c, e, timed, override)`. Without a timeline there is no
review (`governance/emergence/governance.emergence.engine.ts:264`), and what was
recorded says nothing; `ConstitutionalNotForgotten` says so. The
cognitive memory never decays and belongs to the isolate, so a restart loses it;
the model is of one isolate. Numeric scores are thousandths.

### `SovereigntyPolicies`

The tenant boundary, the sovereignty and the encryption policies and the governed
recovery judge one request each, by what the request says. Nothing in the code
holds the data, so who does is external: `copies` are the copies of each domain
of data, and `AssertPolicy` lets whoever holds a copy ask about it, truly or not,
and do what is allowed (`CopiesMade`), from wherever earlier operations brought
the copy. A request that names no target region passes the checks on regions
(`security/sovereignty.policy.ts:147`), and the data may end in any; a request
may give another source than where the copy is; `systemInternal` is what the
caller claims. A copy remembers whether all requests on its way `told` the truth
and named a target: `DataStaysGoverned` is about those. It covers the domains
that may not be exported; `GOVERNANCE` and `AUDIT_LEDGER` are `BOARD_GOVERNED`,
which no check on regions looks at, so they may be transferred. `allow` always
reports `crossRegionAllowed` (297), which nothing reads.

### `GovernanceTrail` on `SovereigntyPolicies`

The assertions of the policies create evidence and let it go
(`security/tenant.boundary.ts:328`, `security/sovereignty.policy.ts:407`). The
modules of `governance/evidence` and `governance/ledger` supply the steps of a
recorder (an isolate, external) that keeps it: it evaluates a policy and creates
evidence (`EvaluatePolicy`), preserves that (`preserveGovernanceEvidence`), and
chains and preserves the ledger record (`preserveGovernanceLedgerRecord`). An
insert may fail, and may have stored its row when it does; a `Restart` forgets
the record to chain to, which no adapter reads back. The verifier of the ledger
looks neither at the first record nor at contents. `VerifiedIsOneAccount` says
what its check is worth all the same. Identifiers stand for the hashes callers
supply, taken to be unique.

### `Authority`

`SetGraph`, `ClearGraph`, `TimePasses` and `AskProof` are the one graph an
isolate holds; a proof is a plain object with no expiry and outlives its graph.
One expired delegation invalidates the whole graph
(`governance/authority.graph.ts:107`), and a board actor needs no delegation.
The asker may say what instant it is (`now_iso`): `ProofsBacked` speaks of the
instant of issue a proof bears, which need not be the clock's, and of no later
one. The worker's gate has a matrix of its
own (`validateOag.ts`), which differs from this one and is part of `Sandbox`.

## 3. Runs

Every run is checked with two workers in less than five minutes. Components that
share no state, and whose questions are of one kind, are checked in one run: a
variable `service` is chosen in the initial state, and a behaviour is one of that
component alone, so nothing is lost or added by putting them together. The MC
modules restrict `Cryptography`, `Platform` and `Governance` to such behaviours;
the proofs are about their free interleaving.

| Run | Instance | States | What it shows |
|---|---|---|---|
| `d1_tables` | 2 callers and 7 commits of 2 companies; 2 LLM requests, 2 months, 4 writes | 1,119,050 | link integrity, the two causes of a fork are the only ones, refinement of `FdcRegister`; bounded overdraft and a complete trail |
| `fdc_hash` (violation) | the commits alone | | `HashBindsTerms`: signatures, layer and readiness are not in the digest |
| `llm_budget_pool` (violation) | the requests alone, no deaths | | `ContributionsReachPool`: a contribution before the bootstrap funds nothing |
| `chain` | 2 callers append 3 records nobody alters; or one append at a time and 2 alterations | 1,336,518 | what verifies is issued facts in digest order; an unaltered chain verifies exactly if no update was lost |
| `cryptography` | 2 binders, 3 bindings, 1 alteration; 2 slots, 1 attestation, 1 alteration; one call; one key, 2 cases, 3 applied operations | 442,724 | bound only on a genuine predecessor; admitted as bound; a failure is not masked; audits tell the decision; rotation and encryption as governed; how a revoked key comes back |
| `provider_third_fact` (violation) | 1 binder, nothing altered | | `ContinuationBinds`: the third fact of an intact chain never binds |
| `provider_decision` | 2 calls, 2 contexts, 15 integration results, any intake, verification or classification handed over crosswise | 1,188,024 | the response fits the call's own facts where the stages were given them, never repeats a call known to be incomplete, and is silent only for the stated reasons |
| `provider_evidence` | 2 interventions, 2 contexts, 2 diagnoses, 2 executor runs, 2 rows, 1 altered field | 405,756 | what is recorded as done was done; audits are true; the stages agree on what is evidence |
| `sandbox` | 2 requests, 25 cases | 29,956 | attempts stay within plan, intent and data quality; an inferred policy has an explicit and clean origin; every request is answered |
| `sandbox_observation` (violation) | same | | `ObservationOnly`: a VISION plan on poor data is answered with execution allowed |
| `platform` | 2 subscriptions, 2 evaluations, 2 instants; an inbox of 4; 2 LLM requests; 3 bootstraps | 783,388 | reports are justified, disabled stays disabled, no news is suppressed; the usage ledger tells what was answered; one registry |
| `governance` | 2 cycles at a time, 6 in all; 13 requests about data; 2 recorders, 3 decisions, 1 restart; 2 instants | 209,626 | a constitutional pressure is not forgotten, trends follow the order of issue; data stays governed; a verified ledger is one account; proofs are backed |

Why the bounds are enough:

* The commits include each way to meet a constraint (same key with other
  content, same id in another company, tied timestamps, two the gate refuses).
  The table is bounded by the unique indexes themselves, not by a guard. Forks
  and races need two callers and are reached with two. Two LLM requests overlap
  on one remainder and on one bootstrap; four writes pay, fund and log in two
  months.
* Chains: three records have a first, a middle and a last; two alterations can
  hide one another; with two callers three records let an update be lost before
  and after another. `NoFalseAlarm` and `TamperingShows` remove these bounds.
* `cryptography`: three bindings are the least that reach the boundary at the
  third fact; two slots and one attestation the least that can be crossed; two
  cases the least that apply a stale decision; inputs differ from the good ones
  in at most one thing, and each gate is closed by one of them.
* `provider_decision`: two calls are the least that can be confused; the fifteen
  results reach every response and every class of outcome P9N tells apart. The
  instance's `MCSpec` has one classification at a time: there is one decision, it
  reads one classification, and none reads another. One of the two calls is of an
  ordinary result (completed, throttled, or incomplete), the other of any.
* `provider_evidence`: two runs (a failure and its retry) and two rows (a stored
  row whose confirmation was lost, and its repetition); two values for every
  altered field. One alteration, because the comparisons promise no more: two
  equal alterations of the two copies pass, as they must. `MCSpec` keeps the
  notes of earlier runs to two values, and calls the executor no more once a
  field is altered: a new execution drops all that was made before it, the
  altered field too. The definitions treat the interventions alike, so only one of
  the two is decided; the other is what it may be mistaken for.
* `sandbox`: two requests are the least that learn from one another; the cases
  reach each gate, each reason of a decision and each lane of an action.
* `platform`: two evaluations overlap between select and mark; four events fill
  one group beyond the escalation threshold of the instance; three bootstraps let two
  fail to freeze, and calls are repeated without bound.
* `governance`: six cycles are enough for each review and for every signal of the bridge; the
  constraint `FewKinds` keeps histories to two kinds of cycle, and cycles to
  before any workflow was observed, with every evidence, or after all were, with a
  bridged evidence and two others; a cycle without the timeline
  or with its caller's review, tried on an evidence that alarms and on one that
  does not, is checked and not followed further, for it leaves behind what one with
  the timeline leaves. Three decisions are the
  least with one missing in between. The requests about data are of a domain that
  may not leave its region and of one that may be exported: true ones, one with
  the wrong region, one that names none, and one that starts where another ends.

Symmetry is used only for sets of model values whose members no definition
names, and in no run with a liveness property. `CHECK_DEADLOCK FALSE` is set
where work is used up and the system stops: calls decided, evidence audited,
requests answered, clocks and bounds spent. In `d1_tables` and `chain` deadlock
is checked.

**Fairness.** Only `Sandbox` states any: `WF_vars(Advance(r))`, for each request
taken in: the runtime resumes a settled `await`, and every await of
`evaluateSandboxV2` settles, with a result or a throw. `Receive` has none: no
request need come. `EveryRequestAnswered` is the liveness property under it. It
is not trivial: each throw on the way has to be caught where the next action is
still reached. No other specification has fairness: a caller of the ledger may be
evicted at each await and no code resumes its call, and nothing in the repository
obliges a caller to retry or to take the next stage.

**What the reader should know of the violations.** Each quotes the line it
contradicts in `PROJECT.json` under `findings`. Where the code departs from a
stated promise, a passing run says what remains true.

* Forks: `contracts/finance/fdc.v1.json:171` speaks of a link to the previous
  entry; two overlapping calls may link to one. `ForkExplained` says when.
* `provider_third_fact`: P9U verifies one predecessor and the new record, and
  asks that the first be a genesis; `BoundOnGenuine` says what is bound.
* P9N's header speaks of the "same coherent runtime outcome", yet the execution
  metadata of the results is not compared, and two calls of one context can be
  confused; `ResponseFits` is for calls of distinct contexts.
* `StagesAgree` records a rule easily missed: P9P, P9Q and P9R certify, admit and
  store a contained failure whose summary is any non-empty text, and P9S then
  refuses it unless it holds the token `executor_failure_contained`, which no
  code outside the tests writes.

**Mutants.** Each checked property comes with a mutated definition (in the same
module, named in `PROJECT.json`) that breaks it: a dropped gate, a missing
comparison, `INSERT OR IGNORE`, the oldest row instead of the newest, a memory
that forgets.

## 4. Proofs

Checked by TLAPS for every value of the constants that satisfies the named
assumptions, which TLC evaluates on each run. The assumptions say what shape
inputs and tables have (`InputsAssumption`, `IntegrationsAssumption`,
`RequestsAssumption`, `OperationsAssumption`, `GraphsAssumption`,
`DecidedAssumption`, `EvidenceAssumption`, `NewsAssumption`, ...), that bounds and
amounts are natural numbers (`...BoundsAssumption`, `AttentionBounds`,
`EmergenceBounds`, `LlmProvidersAssumption`), and that the value that stands for
the absence of something is none of the things (`...NoneAssumption`,
`AbsentAssumption`). None speaks of behaviour.

Every invariant below is a conjunction of named parts. One lemma says that the
initial state has it; one for each action (or each shape of step) says that the
step keeps it; the theorem puts them together with `PTL`.

**`D1TablesProofs`**, of the ledger of commits (any number of callers and commits,
any interleaving):
`TypeCorrect`, `IdempotencyHolds`, `LinksHold`, `AnswersHold`, `ForksExplained`,
`Refinement`. Assumptions: `InputsAssumption` (commits have the record's shape)
and `NoFdcAssumption` (NULL is no id). None of the properties is inductive: the
insert uses what an earlier action read. `LedgerStands` adds

* `UniqueIds`: no id is stored twice, so the id that was read names one row;
* `RowsRead`, `CallsRead`: a stored row, and a call about to insert, carries
  what one `SELECT` returned from the first `seen` rows of the table; rows are
  only appended, so it is still there at the insert;
* `CallsGated`, `InsertedIsStored`: a call in progress passed the gate, and one
  past its insert has its row.

`NextLedgerStands` has a step for each action; all that leave the table alone go
through `MoveKeepsLedger`. `LinksHold` and `ForksExplained` then follow from `RowsRead`
alone. `Refinement` maps `Insert` to `Decide`, `Return` to `Confirm`,
`LookupFound` to `Repeat`, what empties the hands of a caller to `Ask`, and the
rest to stutters.

**`ChainLogProofs`** (any chain length, callers and number of alterations):
`TypeCorrect`, `TamperingShows` and `NoFalseAlarm`. `IInv` adds `IssuedSealed` (the digest of an
issued record is that of its fields), `HeldKnown` and `CallsKnown` (each digest
held was issued). A digest is the list of links from the genesis on, so a record
that verifies recomputes to a digest that was issued, and `DigestBinds` gives
back the fields. The assumption behind it: digests are free of collisions and
whoever alters the chain computes none.
`NoFalseAlarm` needs a second invariant, `Honest`, of the log before its first
alteration: each call that has read or issued a record was built on the record at
the place it read (`CallsBuilt`), numbers are places, and the log verifies
exactly when no record was stored on top of another than the one it was built on.
`AppendBuilds` says what an appended record verifies against, `VerifiedAppend`
what one more record changes in the verification of a log of any length.

**`ProviderDecisionProofs`** (any number of calls, contexts and integration
results, each stage given the intakes and results of any call): `IncompleteNotRepeated` and
`SilenceHasReason`. One lemma for each stage says what its operator makes of an
incomplete call or of a surface; `IInv` says that a call's intakes are its own
(`IntakesOwn`), that P9L sees it when the facts it is handed are incomplete
(`IncompleteSeen`), that P9M
gives it its own class (`IncompleteClassed`), and that what was verified, or
needed no classification, was shown no surface (`SilentStages`). The step that
matters is `Decide`: the verification of one call meets the classification of
another, and only because P9N compares the two reasons does the class follow.
`NoneAssumption` keeps the absent value apart from the responses and codes.
`ResponseFitsCall` needs more than that. `Accounted` says that every result is what
its stage makes of the results it remembers, which still stand; what P9N makes of a
verification, a classification and a recovery is then a case analysis of its
gates.

**`D1TablesProofs`**, of the budget (any number of concurrent requests, months,
amounts, deaths; the invariant is `BudgetStands`): `OverdraftHolds`, of
`BudgetSpec`. One would count what every granted
request still owes, a sum over requests and an induction. The invariant does
without: `Fits(used, total, owing, cost)` says that for *some* owing request, its
own cost and `MaxCost` for each other owing one still fit under
`total + (N - 1) * MaxCost`. A grant is a witness (its check has just passed), a
charge of another request leaves the witness, and the charge of the witness
itself leaves room for any other. `PoolsFit` asks it of the first row of each
month, which is the row every request charges; `InTime` (nothing is of a month to
come) and `BasicOnly` carry it over a rollover between check and charge.
Assumptions: the requests are a finite set, amounts are natural numbers, no
company is on both kinds of plan.
`TrailHolds` is the other theorem: what the four tables say of one another. They
agree only once what the calls in progress are about to write is added to what is
written. `Charges(m)`, `Funds(m)`, `CallsOf(c, m)` and `CostsOf(c, m)` are those
amounts, for each request; `ChargedAt`, `FundedAt` and `LoggedAt` say that the
tables and the amounts sum up; `EarlierLeads` that a row of the pool inserted
before another has seen all that the other did. A statement moves an amount from a call
to a table, and a call that dies takes its amount away, which is why `TrailCovers`
is an inequality. The sums are over requests and companies (`Basic` is finite),
one element added at a time.

**`ProviderEvidenceProofs`** (any number of executions, executors, rows, contexts,
one field altered or none): `EvidenceTypesHold`, `CompletionsPerformed`,
`AuditsFaithful`, `StagesInAgreement`. A result shows each fact twice, on top and
inside, so the invariant speaks of parts of results. `ExecutionTraced` and
`ExecutionHonest` say what P9O's result and the executor's report have to do with
one another, `PartTraced`, `PairTraced` and `RowTraced` that every part of every
later result is the fact P9O reported, unless it is *the* altered one,
`Kept` that a field no stage compares is right unless it is the altered one;
`LedgerSound` that rows say completed only of what was performed, `AuditsTrue`
what an audit that was executed tells, `Derived` that a result is dropped with
the one it was made from. A stage compares the two parts of what it is given: one
of them is untouched, so both are true.

**`CryptographyProofs`** (any number of cases, bindings, calls, attestations). The
rows of gates come first: `ReasonOr` gives the reason of the first closed gate.

* Keys. `RevocationStands`: `FreshAllowed` says that as long as the key has the
  version a case was decided on, its status still allows what was decided. `ContinuityTells`: `EvidenceAsMade`, `RecordsAsMade` and
  `OneSideAsMade` say that at most one of evidence and record is not what was
  made, `AuditsTell` what an audit that passes then tells. Hypothesis:
  `MaxKeyEdits <= 1`; with two equal alterations the statement is false, as it
  must be. `RotationAsGoverned` and `EncryptionAsGoverned` (listed together as
  `CryptographyGoverned`) are about the operators, for all inputs.
* P9U. `BindingsStandOnIssued`: `HeldIssued`, `PresentedIssued`, `MadeIssued` (each
  digest held, presented or made was issued, because nobody computes any) and
  `BoundVerified` (what is bound was verified).
* P9V and P9W. `AdmissionsAsBound`: `DigestsSound`, `BindingsAsDigested` and
  `OneSideAsAttested`; hypothesis `MaxAttestationEdits <= 1`.
* P9H to P9J. `FailuresReachTheHook` and `CompletionsArePerformed`, from
  `CallStaged` (what a call holds fits the stage it is at) and `CallTold` (what is
  told of an answer that names an error is a failure, and of one that says `OK`
  what the provider did). Nothing is assumed of the fields of an answer beyond
  that.

`CryptographyTyped` and `CryptographyGoverned` are theorems of the composition.

**`PlatformProofs`** (any number of subscriptions, evaluations, requests,
bootstraps):

* `ReportsAreJustified` and the action property `DisabledStays`:
  `EvaluationStands` says that the rows an evaluation read are still there (rows
  are never deleted), that its events are `Justified` by what the row asked for,
  and `Marked` once it has gone past them.
* `NewsIsDelivered`, about the noise policy of an inbox: an event that is hidden is
  `Alike` an earlier one, `Alike` is transitive, and of the events a hidden one is
  alike the earliest is delivered.
* `UsageTells`: `AnswersCounted` (no more answers than candidates, and a second one
  only after the ledger failed), `CandidatesStand` (what is tried has an
  implementation, the open-source provider is the last left until the ledger
  fails, and a BASIC request can pay its candidates) and `RowsTell` (a success
  that no failure denies is the last row; beside a failure being recorded it is
  there only where its own write threw, and is of the provider in turn).
* `RegistryIsOne`: the flag is set with the registry, what a caller was told of is
  what is frozen (`CallStands`), and what it loads is its own, because no two
  calls hold the same load (`Apart`).

**`SandboxProofs`** (any number of requests, any cases, any history and memory they
leave one another): `TypeCorrect`, `AuthorityKept`, `OriginOfPolicy`. Assumptions:
`CasesAssumption` (a case is a call and a situation of their types) and
`NoValueAssumption`. `SandboxInvariant` is made of

* `Stands`, for each request: what it has fits the await it is at, what was decided
  with execution allowed is `Authorised` by the plan, the intent and the data of
  the request (`GovernanceIs` shows it of every decision governance may take, from
  the gates of `AuthorityIs` and `BlocksAre`), and its trace is of the first actions
  of that decision, in order (`TraceStands`). `AuthorityKept` follows: an attempt is
  in a trace, hence of an action the decision allows;
* `HistoryStands`: the history is of requests that were governed, and what was
  decided of a governed request stays, with what it was decided of;
* `Origins`: whatever profile a trusted row of the history has, some trusted row has
  it from a request that asked for it. `PolicyHasOrigin` is not inductive without
  it: a request that inherits a profile passes it on, and `dominantKey` may find it
  on a row of a request that inherited it too.

The lists of actions are made by filters. `Entries(rows, positions)` is the list of
the rows at some positions, and `EntriesTyped` that each entry is one of the rows:
a filter is a set of positions, which needs no induction over the list.

**`GovernanceProofs`** (any number of recorders, operations, copies, cycles, graphs):

* `VerifiedIsAccount`: `RecorderStands` and `Chained` say that a record follows only
  a record of the same recorder, `Owned` and `Unused` that an id is issued once, so
  a chain that verifies cannot pass from one recorder or life to another.
* `DataGoverned`, of `DataSpec`: `AllowedIsGoverned` says of each policy that what it
  allows makes of a `Governed` copy only `Governed` copies, whatever the request
  claims; a case analysis of the policies, and of the sources a request may name.
* `ProofsAreBacked`: a proof keeps the graph it was taken from (`Backed`).
* `ConstitutionalRemembered`: `CycleStands` says that the pressures a cycle reports
  are among those known of; a constitutional one dominates, and the cognitive
  counts it is made from never fall. Whether the cycle was handed the timeline, and
  its caller's review, are cases of `Begin`. `TrendOfIssue`: the memory is `Sorted`
  by number of issue whatever the order of recording, and numbers are apart
  (`IssuedApart`).

`GovernanceTyped` is the theorem of the composition. The properties of one part
are theorems of the specification of that part alone (`TrailSpec`,
`EmergenceSpec`, ...), which is stronger: the composition only adds steps that
leave the part as it is.

**Induction.** The library's induction theorems take an operator as a parameter,
and the provers here cannot instantiate those. An induction over numbers or over
the subsets of a finite set can still be made, by the least counterexample: a
set of natural numbers that is not empty has a least element (`Least`, from
`WFMin` of the library). `Induction` and `SubsetInduction` of `D1TablesProofs`
state it for sets; the sums of `TrailHolds` go by them. `NthThere` of
`SandboxProofs` uses it to find the n-th of some positions of a list.

## 5. Only model-checked, and not modelled

Checked by TLC and not proved:

* `EveryRequestAnswered`: liveness under fairness is out of the provers' reach,
  like `ENABLED`;
* what the runs that expect a violation show: a counterexample needs no proof.

No module here declares a `RECURSIVE` operator.

Not modelled, with the reason also in `PROJECT.json`:

* Scheduler, in-memory ledger, billing, commercial. The scheduled job passes an
  input that `evaluateSrlDecision` rejects, so it throws before it appends.
  `ledger/responsibility.events.ts` exports one factory, and
  `billing/billing.webhooks.ts:8` and `billing/routes.billing.ts:9` import
  others: their behaviour is not defined by the source.
* The rate shield has no caller; which requests it sees is not defined.
* Connectors, normalisation, market, industrial: I/O and data shaping.
* Cognition, semantics, reality, simulation: heuristics over scores, whose
  outcome is an input of `Sandbox`; the part with a memory is in `Emergence`.
* `governance/evolution`: a report over histories nothing records. Identity
  sessions and drift. Organizational authority links, the reconstruction of
  authority from them and from signals, and their confidence
  (`governance/oag/organizational.authority.*.ts`, `authority.reconstruction.ts`,
  `authority.confidence.ts`): pure functions of a list or of booleans that the
  caller gives afresh on each call, and nothing keeps a link. The fail-closed
  verifier (`governance/failclosed`): a table over booleans of its caller, among
  them whether evidence was generated; no code derives them from what was done.
  The second policy registry of `governance/policy/{runtime,validator,types}.ts`,
  with `boundary.ts` and `hod.ts` that read it: nothing freezes it, so
  `assertGovernanceBoundary` always throws. `security/recovery.policy.ts`, which no code calls beside
  the governed recovery.
* `executor/executor.guard.v1`, routing and signing of the worker, connectors
  behind a provider; the static assessments of P9C to P9K.
* In the live orchestrator, neither a timeline nor a bridge is handed to the
  emergence of governance (`sandbox/orchestrator.v2.ts:2890`). `Emergence` has
  cycles with and without a timeline, and the bridge as the modules have it; what
  `ConstitutionalNotForgotten` says of a cycle with a timeline, no request of that
  orchestrator gets today.

Wording, summaries and logs are left out everywhere, except the one token P9S and
P9T look for.

## 6. Plan

Done: the ledgers with their proofs, the provider runtime from the admission to
the attestation, keys and encryption, the budget and the providers it pays, the
orchestrator with its capabilities, attention, governance and authority.

Proofs to add: every safety property the runs check is a theorem. What can still
be stated for every value of the constants is more of the same kind: an abstract
specification for the budget and for the governance ledger, refined as
`FdcRegister` is; that no request is governed or answered twice.

The composition of `Sandbox` with the budget and the immutable chain is left for
when the code persists what it seals: today the sealed record is dropped with
the answer, and a composition would add no reachable interaction.
