-------------------------- MODULE ProviderEvidence --------------------------
(***************************************************************************)
(* P9O to P9T: from a decided runtime response to the audit record.        *)
(*                                                                         *)
(* P9O has an executor perform the response, P9P certifies the outcome,    *)
(* P9Q admits the evidence to the ledger, P9R has a writer persist it, P9S *)
(* admits the ledger fact to audit and P9T has an auditor audit it.  The   *)
(* stages are synchronous and keep nothing: a caller holds each result and *)
(* hands it on, may die in between, may call again a stage that did not    *)
(* succeed, and what it holds may have been altered.  A result carries its *)
(* facts twice, at the top and in the material inside it, and the next     *)
(* stage compares the two.                                                 *)
(***************************************************************************)
EXTENDS Naturals, Sequences, Functions

CONSTANTS
  Interventions, \* bound: the responses an executor performs, which P9O to P9T treat alike
  Contexts,    \* contract, implementation, operation, resource, configuration, credential
  Diagnoses,   \* verification, classification and failure facts
  None,
  MaxRuns,     \* bound: executor invocations
  MaxRows,     \* bound: rows the writer stores
  Alterable    \* whether a result that is held may be altered, once

ASSUME BoundsAssumption == MaxRuns \in Nat /\ MaxRows \in Nat /\ Alterable \in BOOLEAN

ASSUME InterventionsAssumption ==
  Interventions \subseteq {"RETRY", "RECOVER", "FAILOVER", "STOP", "ESCALATE"}

Responses == {"NO_ACTION"} \union Interventions
ASSUME NoneAssumption == None \notin Responses \union Contexts \union Diagnoses

(* No summary and no reason are none of those there are.                   *)
ASSUME AbsentAssumption ==
  None \notin {"EMPTY", "PLAIN", "CONTAINED", "EXECUTOR_NOT_AVAILABLE", "RESULT_INCOHERENT",
               "EXECUTION_FAILED", "DENIED", "NOT_ADMITTED", "MATERIAL_INCOHERENT"}

Gates == BOOLEAN   \* FALSE: the stage's own decision input is its REJECT_ value

(* X_COMPLETED and X_FAILED; NO_ACTION cannot fail.                        *)
Outcomes ==
  [of : Responses, completed : BOOLEAN] \ {[of |-> "NO_ACTION", completed |-> FALSE]}

(* The executor's summary: absent, empty, or with or without the token     *)
(* executor_failure_contained.                                             *)
Notes == {None, "EMPTY", "PLAIN", "CONTAINED"}
Substantial(note) == note \in {"PLAIN", "CONTAINED"}

(* The facts of a result.  run is history, the executor run it is about;   *)
(* meta is what its executionMetadata says of that.                        *)
ExecutionFields == {"run", "meta", "ctx", "diag", "response", "status", "executed", "idle"}
CertifiedFields == ExecutionFields \union {"outcome"}
RecordedFields  == CertifiedFields \union {"contained"}
MaterialFields  == RecordedFields \union {"note"}

(* What no stage compares: the metadata, and the executor's summary, which *)
(* only the material inside a result carries.                              *)
Uncompared     == {"meta", "note"}
ComparedFields == RecordedFields \ {"run", "meta"}

Agree(a, b, fields) == \A f \in fields : a[f] = b[f]

VARIABLES
  decision,  \* the P9N result
  performed, \* what executors did and reported, by run
  held,      \* the result of each stage the caller holds, or None
  ledger,    \* the rows the writer stored
  audits,    \* the audit records P9T returned
  altered    \* history: the field of a held result that was altered, or None

vars == <<decision, performed, held, ledger, audits, altered>>

Stages == {"execution", "certification", "admission", "write", "auditAdmission"}

(* Which results stand: the caller keeps such a result and moves on.       *)
Standing == [execution |-> "EXECUTED", certification |-> "CERTIFIED",
             admission |-> "ADMITTED", write |-> "WRITTEN", auditAdmission |-> "ADMITTED"]

----------------------------------------------------------------------------
(* P9O: the execution result.  flag is the response whose ...Executed flag *)
(* is set.                                                                 *)

FlagOf(response) == IF response = "NO_ACTION" THEN None ELSE response

Result(d, status, reason, note, run) ==
  [status |-> status, ctx |-> d.ctx, diag |-> d.diag, response |-> d.response,
   executed |-> status = "EXECUTED", idle |-> d.response = "NO_ACTION",
   flag |-> IF status = "EXECUTED" THEN FlagOf(d.response) ELSE None,
   reason |-> reason, note |-> note, run |-> run, meta |-> run]

DeniedExecution(d) == Result(d, "DENIED", None, None, 0)

NotExecuted(d, reason, note, run) == Result(d, "NOT_EXECUTED", reason, note, run)

Executed(d, note, run) == Result(d, "EXECUTED", None, note, run)

Reasons == {None, "EXECUTOR_NOT_AVAILABLE", "RESULT_INCOHERENT", "EXECUTION_FAILED"}

(* What P9O makes of an executor's reply.                                  *)
Reported(d, reply, run) ==
  IF reply.response # d.response
    THEN NotExecuted(d, "RESULT_INCOHERENT", reply.note, run)
  ELSE IF ~reply.ok THEN NotExecuted(d, "EXECUTION_FAILED", reply.note, run)
  ELSE Executed(d, reply.note, run)

ExecutionDenied(d, allowed) == ~allowed \/ d.status # "DECIDED"

----------------------------------------------------------------------------
(* P9P: certification.                                                     *)

(* Mutant of executionStateCoherent: the status is believed.               *)
StatusBelieved(x) == x.status \in {"EXECUTED", "NOT_EXECUTED"}

executionFlagCount(x) == IF x.flag = None THEN 0 ELSE 1

executionStateCoherent(x) ==
  \/ /\ x.status = "EXECUTED" /\ x.executed
     /\ x.idle = (x.response = "NO_ACTION")
     /\ x.flag = FlagOf(x.response)
  \/ x.status = "NOT_EXECUTED" /\ ~x.executed /\ executionFlagCount(x) = 0

(* Mutant of failedOutcomeCertifiable: any failure is certified.           *)
FailedAtAll(x) == x.status = "NOT_EXECUTED" /\ ~x.executed /\ x.note # None

failedOutcomeCertifiable(x) ==
  /\ x.status = "NOT_EXECUTED" /\ ~x.executed
  /\ x.reason = "EXECUTION_FAILED"
  /\ x.response # "NO_ACTION"
  /\ x.note # None

Certifiable(x) ==
  executionStateCoherent(x) /\ (x.status = "EXECUTED" \/ failedOutcomeCertifiable(x))

certifiedOutcomeForExecution(x) ==
  [of |-> x.response, completed |-> x.status = "EXECUTED" /\ x.executed]

executionContext(x) ==
  [f \in CertifiedFields |-> IF f = "outcome" THEN certifiedOutcomeForExecution(x) ELSE x[f]]

buildExecutionEvidence(x) ==
  [f \in MaterialFields |-> CASE f = "contained" -> failedOutcomeCertifiable(x)
                              [] f = "note" -> x.note
                              [] OTHER -> executionContext(x)[f]]

(* A result that stands nowhere carries nothing the next stage reads.      *)
Refusal(status) == [status |-> status]

buildCertifiedResult(x) ==
  [status |-> "CERTIFIED", top |-> executionContext(x), inner |-> buildExecutionEvidence(x)]

certifyProviderRuntimeExecutionOutcome(x, allowed) ==
  IF ~allowed \/ x.status = "DENIED" THEN Refusal("DENIED")
  ELSE IF ~Certifiable(x) THEN Refusal("NOT_CERTIFIED")
  ELSE buildCertifiedResult(x)

----------------------------------------------------------------------------
(* P9Q: admission to the ledger.                                           *)

(* Mutant of EvidenceCoherent: the provider context is not compared.       *)
ContextTaken(c) ==
  /\ Agree(c.top, c.inner, {"response", "outcome"})
  /\ Agree(c.top, c.inner, {"status", "executed", "idle"})
  /\ c.inner.contained => Substantial(c.inner.note)

canonicalEvidenceShapeIsValid(c) == Agree(c.top, c.inner, {"outcome"})

evidenceContextIsCoherent(c) == Agree(c.top, c.inner, {"ctx"})

evidenceResponseIsCoherent(c) == Agree(c.top, c.inner, {"response", "outcome"})

evidenceExecutionStateIsCoherent(c) == Agree(c.top, c.inner, {"status", "executed", "idle"})

evidenceSummariesAreValid(c) == c.inner.contained => Substantial(c.inner.note)

EvidenceCoherent(c) ==
  /\ canonicalEvidenceShapeIsValid(c)
  /\ evidenceContextIsCoherent(c)
  /\ evidenceResponseIsCoherent(c)
  /\ evidenceExecutionStateIsCoherent(c)
  /\ evidenceSummariesAreValid(c)

(* What the result shows comes first, the rest from the evidence.          *)
buildLedgerAdmissionMaterial(c) ==
  [f \in MaterialFields |-> IF f \in CertifiedFields THEN c.top[f] ELSE c.inner[f]]

AdmissionContext(c) == Restrict(buildLedgerAdmissionMaterial(c), RecordedFields)

EvidenceRefused(denied) == Refusal(IF denied THEN "DENIED" ELSE "NOT_ADMITTED")

admitProviderRuntimeEvidenceToLedger(c, allowed) ==
  IF ~allowed \/ c.status = "DENIED" THEN EvidenceRefused(TRUE)
  ELSE IF c.status # "CERTIFIED" \/ ~EvidenceCoherent(c) THEN EvidenceRefused(FALSE)
  ELSE [status |-> "ADMITTED", top |-> AdmissionContext(c),
        inner |-> buildLedgerAdmissionMaterial(c)]

----------------------------------------------------------------------------
(* P9R: what is written.                                                   *)

admissionMaterialIsCoherent(a) ==
  /\ Agree(a.top, a.inner, ComparedFields)
  /\ a.inner.contained => Substantial(a.inner.note)

buildCanonicalLedgerEntry(a) == a.inner

(* What a writer answers: completed, failed, or neither in a coherent      *)
(* form; or it throws.                                                     *)
WriterResults ==
  [writerStatus : {"COMPLETED", "FAILED"}, coherent : BOOLEAN]
    \union [writerStatus : {"THROWN"}, coherent : {FALSE}]

writerResultIsCompleted(result) == result.writerStatus = "COMPLETED" /\ result.coherent

writerResultIsFailed(result) == result.writerStatus = "FAILED" /\ result.coherent

WriterFailure(result) ==
  IF writerResultIsFailed(result) \/ result.writerStatus = "THROWN"
    THEN "WRITER_FAILED" ELSE "RESULT_INCOHERENT"

----------------------------------------------------------------------------
(* P9S: admission to audit.  The entry is inside the write result; where it*)
(* is stored the result says once, and P9S only wants it said.             *)

ledgerResultContextMatchesEntry(w) == Agree(w.top, w.inner, {"ctx", "diag"})

expectedRuntimeResponseForOutcome(outcome) == outcome.of

outcomeRepresentsContainedFailure(outcome) == ~outcome.completed

ledgerOutcomeIsCoherent(w) ==
  /\ Agree(w.top, w.inner, {"outcome"})
  /\ expectedRuntimeResponseForOutcome(w.inner.outcome) = w.inner.response

ledgerResponseIsCoherent(w) == Agree(w.top, w.inner, {"response"})

(* Mutant of ledgerExecutionStateIsCoherent: only interventions are        *)
(* evidence.                                                               *)
InterventionCoherent(w) ==
  /\ Agree(w.top, w.inner, {"status", "executed", "idle", "contained"})
  /\ ~w.inner.idle

ledgerExecutionStateIsCoherent(w) ==
  LET failed == outcomeRepresentsContainedFailure(w.inner.outcome)
  IN  /\ Agree(w.top, w.inner, {"status", "executed", "idle", "contained"})
      /\ w.inner.contained = failed
      /\ w.inner.executed = ~failed
      /\ w.inner.status = IF failed THEN "NOT_EXECUTED" ELSE "EXECUTED"

containedFailureEvidenceIsSufficient(entry) ==
  outcomeRepresentsContainedFailure(entry.outcome) => entry.note = "CONTAINED" /\ entry.contained

EntryCoherent(w) ==
  /\ ledgerResultContextMatchesEntry(w)
  /\ ledgerOutcomeIsCoherent(w)
  /\ ledgerResponseIsCoherent(w)
  /\ ledgerExecutionStateIsCoherent(w)
  /\ containedFailureEvidenceIsSufficient(w.inner)

WriteStands(w) == w.status = "WRITTEN"

LedgerFactDenied(w, allowed) == ~allowed \/ w.status = "DENIED"

LedgerFactRefused(denied) == Refusal(IF denied THEN "DENIED" ELSE "NOT_ADMITTED")

buildAuditAdmissionMaterial(w) == w.inner

AuditAdmissionContext(w) == w.top

admitProviderRuntimeLedgerToAudit(w, allowed) ==
  IF LedgerFactDenied(w, allowed) THEN LedgerFactRefused(TRUE)
  ELSE IF ~WriteStands(w) \/ ~EntryCoherent(w) THEN LedgerFactRefused(FALSE)
  ELSE [status |-> "ADMITTED", top |-> AuditAdmissionContext(w),
        inner |-> buildAuditAdmissionMaterial(w), row |-> w.row, materialRow |-> w.row]

----------------------------------------------------------------------------
(* P9T: what is audited.                                                   *)

auditAdmissionMaterialIsCoherent(a) ==
  /\ a.row = a.materialRow
  /\ Agree(a.top, a.inner, ComparedFields)
  /\ a.inner.contained => a.inner.note = "CONTAINED"

(* The finding is the auditor's own.  P9T compares it with nothing, and the*)
(* record leaves it out here.                                              *)
AuditExecutorResults ==
  [executorStatus : {"COMPLETED", "FAILED", "THROWN"}, written : BOOLEAN,
   auditFinding : {None, "CONFIRMED", "NONCONFORMING"}, reasoned : BOOLEAN]

auditExecutorResultIsCompleted(result) ==
  /\ result.executorStatus = "COMPLETED" /\ result.written
  /\ \/ result.auditFinding = "CONFIRMED"
     \/ result.auditFinding = "NONCONFORMING" /\ result.reasoned

auditExecutorResultIsFailed(result) ==
  /\ result.executorStatus = "FAILED" /\ ~result.written
  /\ result.auditFinding = None /\ ~result.reasoned

AuditRefusal(a, allowed) ==
  IF ~allowed \/ a.status = "DENIED" THEN "DENIED"
  ELSE IF a.status # "ADMITTED" THEN "NOT_ADMITTED"
  ELSE IF ~auditAdmissionMaterialIsCoherent(a) THEN "MATERIAL_INCOHERENT"
  ELSE None

AuditFailure(result) ==
  IF auditExecutorResultIsFailed(result) \/ result.executorStatus = "THROWN"
    THEN "AUDIT_EXECUTOR_FAILED"
  ELSE IF auditExecutorResultIsCompleted(result) THEN None
  ELSE IF result.executorStatus = "COMPLETED" /\ ~result.written
    THEN "AUDIT_RECORD_NOT_WRITTEN"
  ELSE "RESULT_INCOHERENT"

buildCanonicalAuditRecord(a) == [row |-> a.materialRow, fact |-> a.inner]

AuditContext(a) == a.top

NotAudited(a, reason) ==
  [status |-> IF reason = "DENIED" THEN "DENIED" ELSE "NOT_COMPLETED", reason |-> reason,
   context |-> IF a.status = "ADMITTED" THEN AuditContext(a) ELSE None, record |-> None]

Audited(a) ==
  [status |-> "WRITTEN", reason |-> None, context |-> AuditContext(a),
   record |-> buildCanonicalAuditRecord(a)]

executeProviderRuntimeAudit(a, allowed, result) ==
  IF AuditRefusal(a, allowed) # None THEN NotAudited(a, AuditRefusal(a, allowed))
  ELSE IF AuditFailure(result) # None THEN NotAudited(a, AuditFailure(result))
  ELSE Audited(a)

----------------------------------------------------------------------------
(* Types.                                                                  *)

FieldValues ==
  [run |-> 0 .. MaxRuns, meta |-> 0 .. MaxRuns,
   ctx |-> Contexts, diag |-> Diagnoses, response |-> Responses,
   status |-> {"EXECUTED", "NOT_EXECUTED", "DENIED"}, executed |-> BOOLEAN,
   idle |-> BOOLEAN, outcome |-> Outcomes, contained |-> BOOLEAN, note |-> Notes,
   flag |-> Responses \union {None}, reason |-> Reasons]

Typed(facts, fields) ==
  DOMAIN facts = fields /\ \A f \in fields : facts[f] \in FieldValues[f]

Stands(stage) == held[stage] # None /\ held[stage].status = Standing[stage]

ProviderRuntimeEvidenceLedgerEntry(e) == Typed(e, MaterialFields)

ProviderRuntimeLedgerAuditAdmissionMaterial(m) == Typed(m, MaterialFields)

ProviderRuntimeAuditRecord(a) == a.row \in 1 .. MaxRows /\ Typed(a.fact, MaterialFields)

(* Every variable has its type.  A certified outcome is one of the eleven  *)
(* of P9P: no action that failed is never certified.                       *)
TypeOK ==
  /\ decision \in [status : {"DECIDED", "NOT_DECIDED"}, response : Responses,
                   ctx : Contexts, diag : Diagnoses]
  /\ performed \in Seq([response : Responses, ok : BOOLEAN, note : Notes])
  /\ Len(performed) <= MaxRuns
  /\ DOMAIN held = Stages
  /\ held["execution"] # None =>
       Typed(held["execution"], ExecutionFields \union {"flag", "reason", "note"})
  /\ \A stage \in Stages \ {"execution"} :
       held[stage] # None /\ held[stage].status = Standing[stage] =>
         /\ Typed(held[stage].inner, MaterialFields)
         /\ Typed(held[stage].top,
                  IF stage = "certification" THEN CertifiedFields ELSE RecordedFields)
  /\ Stands("auditAdmission") =>
       ProviderRuntimeLedgerAuditAdmissionMaterial(held["auditAdmission"].inner)
  /\ Len(ledger) <= MaxRows
  /\ \A n \in DOMAIN ledger : ProviderRuntimeEvidenceLedgerEntry(ledger[n])
  /\ \A a \in audits : ProviderRuntimeAuditRecord(a)

----------------------------------------------------------------------------
(* The caller's calls.  A new result of a stage replaces the old one, and  *)
(* the results derived from the old one are dropped.                       *)

After(stage) ==
  CASE stage = "execution"     -> Stages \ {"execution"}
    [] stage = "certification" -> {"admission", "write", "auditAdmission"}
    [] stage = "admission"     -> {"write", "auditAdmission"}
    [] stage = "write"         -> {"auditAdmission"}
    [] OTHER                   -> {}

Hold(stage, result) ==
  held' = [s \in Stages |-> IF s = stage THEN result
                            ELSE IF s \in After(stage) THEN None ELSE held[s]]

Init ==
  /\ decision \in [status : {"DECIDED", "NOT_DECIDED"}, response : Responses,
                   ctx : Contexts, diag : Diagnoses]
  /\ performed = <<>> /\ ledger = <<>> /\ audits = {} /\ altered = None
  /\ held = [s \in Stages |-> None]

DenyResponse(allowed) ==
  /\ ~Stands("execution") /\ ExecutionDenied(decision, allowed)
  /\ Hold("execution", DeniedExecution(decision))
  /\ UNCHANGED <<decision, performed, ledger, audits, altered>>

ExecuteNoAction ==
  /\ ~Stands("execution") /\ ~ExecutionDenied(decision, TRUE)
  /\ decision.response = "NO_ACTION"
  /\ Hold("execution", Executed(decision, None, 0))
  /\ UNCHANGED <<decision, performed, ledger, audits, altered>>

FindNoExecutor ==
  /\ ~Stands("execution") /\ ~ExecutionDenied(decision, TRUE)
  /\ decision.response # "NO_ACTION"
  /\ Hold("execution", NotExecuted(decision, "EXECUTOR_NOT_AVAILABLE", None, 0))
  /\ UNCHANGED <<decision, performed, ledger, audits, altered>>

(* The executor is called, performs what it performs, and replies.         *)
CallExecutor(reply) ==
  /\ ~ExecutionDenied(decision, TRUE) /\ decision.response # "NO_ACTION"
  /\ Len(performed) < MaxRuns
  /\ performed' = Append(performed, reply)

Replies == [response : Interventions, ok : BOOLEAN, note : Notes \ {None}]

ExecuteResponse(reply) ==
  /\ ~Stands("execution") /\ CallExecutor(reply)
  /\ Hold("execution", Reported(decision, reply, Len(performed) + 1))
  /\ UNCHANGED <<decision, ledger, audits, altered>>

(* P9O calls the executor outside any try: what it throws reaches the      *)
(* caller, which holds nothing new.                                        *)
ExecutorThrows ==
  /\ ~Stands("execution")
  /\ CallExecutor([response |-> decision.response, ok |-> FALSE, note |-> None])
  /\ UNCHANGED <<decision, held, ledger, audits, altered>>

Certify(allowed) ==
  /\ held["execution"] # None /\ ~Stands("certification")
  /\ Hold("certification",
          certifyProviderRuntimeExecutionOutcome(held["execution"], allowed))
  /\ UNCHANGED <<decision, performed, ledger, audits, altered>>

Admit(allowed) ==
  /\ held["certification"] # None /\ ~Stands("admission")
  /\ Hold("admission",
          admitProviderRuntimeEvidenceToLedger(held["certification"], allowed))
  /\ UNCHANGED <<decision, performed, ledger, audits, altered>>

WriteRefusal(a, allowed) ==
  IF ~allowed \/ a.status = "DENIED" THEN "DENIED"
  ELSE IF a.status # "ADMITTED" THEN "NOT_ADMITTED"
  ELSE IF ~admissionMaterialIsCoherent(a) THEN "MATERIAL_INCOHERENT"
  ELSE None

NotWritten(reason) ==
  [status |-> IF reason = "DENIED" THEN "DENIED" ELSE "NOT_WRITTEN", reason |-> reason]

RefuseWrite(allowed) ==
  /\ held["admission"] # None /\ ~Stands("write")
  /\ \E reason \in {WriteRefusal(held["admission"], allowed)} \ {None} :
       Hold("write", NotWritten(reason))
  /\ UNCHANGED <<decision, performed, ledger, audits, altered>>

FindNoWriter ==
  /\ held["admission"] # None /\ ~Stands("write")
  /\ WriteRefusal(held["admission"], TRUE) = None
  /\ Hold("write", NotWritten("WRITER_MISSING"))
  /\ UNCHANGED <<decision, performed, ledger, audits, altered>>

WriteContext(a) == a.top

Written(a, row) ==
  [status |-> "WRITTEN", top |-> WriteContext(a), inner |-> buildCanonicalLedgerEntry(a),
   row |-> row]

(* A writer that completes has stored the row; one that fails, throws or   *)
(* answers incoherently may have, and its write does not stand.            *)
CallWriter(result, stored) ==
  /\ held["admission"] # None /\ ~Stands("write")
  /\ WriteRefusal(held["admission"], TRUE) = None
  /\ stored => Len(ledger) < MaxRows
  /\ writerResultIsCompleted(result) => stored
  /\ ledger' = IF stored THEN Append(ledger, buildCanonicalLedgerEntry(held["admission"]))
               ELSE ledger
  /\ Hold("write", IF writerResultIsCompleted(result)
                     THEN Written(held["admission"], Len(ledger) + 1)
                     ELSE NotWritten(WriterFailure(result)))
  /\ UNCHANGED <<decision, performed, audits, altered>>

AdmitToAudit(allowed) ==
  /\ held["write"] # None /\ ~Stands("auditAdmission")
  /\ Hold("auditAdmission", admitProviderRuntimeLedgerToAudit(held["write"], allowed))
  /\ UNCHANGED <<decision, performed, ledger, audits, altered>>

(* A refusal, and what fails in the auditor, leave no record.              *)
Audit(allowed, result) ==
  /\ held["auditAdmission"] # None
  /\ LET audit == executeProviderRuntimeAudit(held["auditAdmission"], allowed, result)
     IN  /\ audit.status = "WRITTEN"
         /\ audits' = audits \union {audit.record}
  /\ UNCHANGED <<decision, performed, held, ledger, altered>>

(* One field of one held result is altered, once: a fact, or the row that  *)
(* a write result shows once and an audit admission twice.                 *)
Altered(stage, part, field) == [stage |-> stage, part |-> part, field |-> field]

(* Nothing altered is none of the alterations there are.                   *)
ASSUME AlterationAssumption ==
  \A stage \in Stages, part \in {"top", "inner", "row", "materialRow"},
     field \in DOMAIN FieldValues \union {"row"} : None # Altered(stage, part, field)

AlterExecution(field, value) ==
  /\ Alterable /\ altered = None /\ held["execution"] # None
  /\ held["execution"][field] # value
  /\ held' = [held EXCEPT !["execution"][field] = value]
  /\ altered' = Altered("execution", "top", field)
  /\ UNCHANGED <<decision, performed, ledger, audits>>

AlterHeld(stage, part, field, value) ==
  /\ Alterable /\ altered = None /\ Stands(stage)
  /\ field \in DOMAIN held[stage][part] /\ held[stage][part][field] # value
  /\ held' = [held EXCEPT ![stage][part][field] = value]
  /\ altered' = Altered(stage, part, field)
  /\ UNCHANGED <<decision, performed, ledger, audits>>

AlterRow(stage, place, row) ==
  /\ Alterable /\ altered = None /\ Stands(stage)
  /\ place \in DOMAIN held[stage] /\ held[stage][place] # row
  /\ held' = [held EXCEPT ![stage][place] = row]
  /\ altered' = Altered(stage, place, "row")
  /\ UNCHANGED <<decision, performed, ledger, audits>>

Next ==
  \/ \E allowed \in Gates :
       \/ DenyResponse(allowed)
       \/ Certify(allowed)
       \/ Admit(allowed)
       \/ RefuseWrite(allowed)
       \/ AdmitToAudit(allowed)
  \/ ExecuteNoAction
  \/ FindNoExecutor
  \/ \E reply \in Replies : ExecuteResponse(reply)
  \/ ExecutorThrows
  \/ FindNoWriter
  \/ \E result \in WriterResults, stored \in BOOLEAN : CallWriter(result, stored)
  \/ \E allowed \in Gates, result \in AuditExecutorResults : Audit(allowed, result)
  \/ \E field \in (ExecutionFields \ {"run"}) \union {"flag", "reason", "note"} :
       \E value \in FieldValues[field] : AlterExecution(field, value)
  \/ \E stage \in Stages \ {"execution"}, part \in {"top", "inner"} :
       \E field \in MaterialFields \ {"run"} :
         \E value \in FieldValues[field] : AlterHeld(stage, part, field, value)
  \/ \E stage \in {"write", "auditAdmission"}, place \in {"row", "materialRow"},
       row \in 1 .. MaxRows : AlterRow(stage, place, row)

Spec == Init /\ [][Next]_vars

----------------------------------------------------------------------------
(* Properties.                                                             *)

PerformedOk(run) ==
  /\ run \in DOMAIN performed
  /\ performed[run].response = decision.response /\ performed[run].ok

(* A ledger row or an audit that says a response completed (other than no  *)
(* action, which nothing performs) comes of an executor run that performed *)
(* that very response and reported success, whichever single fact of a     *)
(* held result was altered on the way: P9P's state and flag checks, P9Q's, *)
(* P9R's, P9S's and P9T's comparisons together let none through.           *)
CompletedWasPerformed ==
  \A fact \in {ledger[n] : n \in DOMAIN ledger} \union {a.fact : a \in audits} :
    fact.outcome.completed /\ fact.outcome.of # "NO_ACTION" =>
      fact.outcome.of = decision.response /\ PerformedOk(fact.run)

(* What happened in a run, as an audit should record it.                   *)
Truth(run) ==
  LET done == decision.response = "NO_ACTION" \/ PerformedOk(run)
  IN  [run |-> run, meta |-> run, ctx |-> decision.ctx, diag |-> decision.diag,
       response |-> decision.response,
       status |-> IF done THEN "EXECUTED" ELSE "NOT_EXECUTED",
       executed |-> done, idle |-> decision.response = "NO_ACTION",
       outcome |-> [of |-> decision.response, completed |-> done], contained |-> ~done,
       note |-> IF run = 0 THEN None ELSE performed[run].note]

(* The two alterations of compared facts that the stages cannot see: of    *)
(* P9O's result, which carries its facts once, and of the diagnosis P9P's  *)
(* result shows, which P9Q takes without comparing it with the evidence.   *)
Unseen ==
  /\ altered # None
  /\ \/ altered.stage = "execution"
     \/ altered.stage = "certification" /\ altered.part = "top" /\ altered.field = "diag"

FieldIntact(field) == altered = None \/ altered.field # field

RowIntact == altered # Altered("write", "row", "row")

(* An audit record tells what happened and what its row holds, whatever    *)
(* single field of a later result than P9O's was altered.  The exceptions  *)
(* are the diagnosis above, and three fields that may be wrong themselves, *)
(* but then nothing else is: the metadata and the summary, which no stage  *)
(* compares, and which row it is, which P9S takes from the write result.   *)
AuditFaithful ==
  ~Unseen => \A a \in audits : \E row \in DOMAIN ledger :
    /\ RowIntact => row = a.row
    /\ \A field \in MaterialFields :
         field \notin Uncompared \/ FieldIntact(field) =>
           a.fact[field] = Truth(a.fact.run)[field] /\ a.fact[field] = ledger[row][field]

(* The stages agree on what is evidence.  Of results that are not altered, *)
(* a response that was executed is never refused by a later stage for what *)
(* it says, and an executor's contained failure that says so in the token  *)
(* P9S and P9T look for is never refused either; one that is certified and *)
(* written without the token never reaches audit.                          *)
StagesAgree ==
  altered = None /\ held["execution"] # None =>
    LET x == held["execution"]
        passes == \/ x.status = "EXECUTED"
                  \/ x.reason = "EXECUTION_FAILED" /\ x.note = "CONTAINED"
    IN  /\ passes => \A stage \in Stages \ {"execution"} :
              held[stage] # None =>
                \/ Stands(stage) \/ held[stage].status = "DENIED"
                \/ \E earlier \in Stages \ {"execution"} :
                     stage \in After(earlier) /\ ~Stands(earlier)
                \/ /\ stage = "write"
                   /\ held["write"].reason \in
                        {"WRITER_MISSING", "WRITER_FAILED", "RESULT_INCOHERENT"}
        /\ Stands("auditAdmission") => passes
=============================================================================
