-------------------------- MODULE GovernanceTrail --------------------------
(***************************************************************************)
(* What is remembered of the decisions of the policies:                    *)
(* core/src/governance/evidence creates and preserves evidence of a        *)
(* decision, core/src/governance/ledger chains and preserves a record of   *)
(* it and verifies the chain.                                              *)
(*                                                                         *)
(* The code supplies the steps; the assertions of the policies let their   *)
(* evidence go.  Who takes the steps in turn is a recorder (an isolate,    *)
(* external): it evaluates a policy, creates evidence of the result,       *)
(* preserves it, and chains a record of it to the one it created before,   *)
(* which it keeps in its memory: no adapter reads the ledger.  Inserts     *)
(* into D1 fail and recorders restart.  Identifiers are numbers in order   *)
(* of issue, and stand for the hashes callers supply.                      *)
(***************************************************************************)
EXTENDS SovereigntyPolicies, Integers, Sequences, SequencesExt

CONSTANTS
  Recorders,
  Decided,      \* the operations a recorder may evaluate
  MaxIssued,    \* bound: decisions recorded
  MaxRestarts   \* bound: restarts of recorders

ASSUME TrailBounds == MaxIssued \in Nat /\ MaxRestarts \in Nat

ASSUME DecidedAssumption ==
  Decided \subseteq {operation \in Operations : operation.policy # "RECOVERY"}

VARIABLES
  evidenceRows, \* table governance_evidence
  ledgerRows,   \* table governance_ledger, in order of insertion
  recorder,     \* per recorder: what it does and what it remembers
  issued,
  restarts

trailVars == <<evidenceRows, ledgerRows, recorder, issued, restarts>>

----------------------------------------------------------------------------
(* governance.evidence.runtime.ts                                          *)

normalizeSeverity(severity) == IF severity \in {"HIGH", "CRITICAL"} THEN severity ELSE "LOW"

createRuntimeGovernanceEvidence(id, operation, result) ==
  [evidence_id |-> id, source |-> operation.policy, domain |-> operation.domain,
   action |-> IF result.allowed THEN "ALLOW" ELSE "DENY",
   severity |-> normalizeSeverity(result.severity)]

----------------------------------------------------------------------------
(* governance.ledger.runtime.ts and governance.ledger.builder.ts           *)

mapEvidenceSourceToLedgerDomain ==
  [TENANT_BOUNDARY |-> "TENANT_BOUNDARY", SOVEREIGNTY_POLICY |-> "SOVEREIGNTY",
   ENCRYPTION_POLICY |-> "ENCRYPTION"]

NoRecord == [ledger_id |-> 0, current_hash |-> 0, sequence_number |-> 0]

createGovernanceLedgerRecordFromEvidence(evidence, previous) ==
  [ledger_id |-> evidence.evidence_id, evidence_id |-> evidence.evidence_id,
   domain |-> mapEvidenceSourceToLedgerDomain[evidence.source],
   previous_hash |-> previous.current_hash, current_hash |-> evidence.evidence_id,
   sequence_number |-> previous.sequence_number + 1]

(* governance.ledger.verifier.ts                                           *)

(* Mutant of Continues: that a record has a previous one is enough.        *)
ContinuesAny(previous, current) == current.previous_hash # NoRecord.current_hash

Continues(previous, current) == current.previous_hash = previous.current_hash

verifyGovernanceLedger(records) ==
  /\ IsInjective([k \in DOMAIN records |-> records[k].ledger_id])
  /\ \A k \in 2..Len(records) :
       /\ Continues(records[k - 1], records[k])
       /\ records[k].sequence_number = records[k - 1].sequence_number + 1

----------------------------------------------------------------------------
Idle == [pc |-> "idle"]

Fresh == [doing |-> Idle, previous |-> NoRecord, lives |-> 1]

TrailInit ==
  /\ evidenceRows = {}
  /\ ledgerRows = <<>>
  /\ recorder = [r \in Recorders |-> Fresh]
  /\ issued = 0
  /\ restarts = 0

(* A policy is evaluated, and evidence of its result created.              *)
EvaluatePolicy(r, operation) ==
  /\ recorder[r].doing = Idle
  /\ issued < MaxIssued
  /\ issued' = issued + 1
  /\ recorder' = [recorder EXCEPT ![r].doing =
       [pc |-> "evaluated",
        evidence |-> createRuntimeGovernanceEvidence(issued', operation, ResultOf(operation))]]
  /\ UNCHANGED <<evidenceRows, ledgerRows, restarts>>

(* The inserts into the two tables.                                        *)
appendGovernanceEvidence(evidence) == evidenceRows' = evidenceRows \union {evidence}

preserveLedgerRecord(r, record) ==
  ledgerRows' = Append(ledgerRows,
    [ledger_id |-> record.ledger_id, evidence_id |-> record.evidence_id,
     domain |-> record.domain, previous_hash |-> record.previous_hash,
     current_hash |-> record.current_hash, sequence_number |-> record.sequence_number,
     by |-> <<r, recorder[r].lives>>])

(* preserveGovernanceEvidence throws when the insert fails: the recorder   *)
(* gives up, whether the row was stored or not.                            *)
preserveGovernanceEvidence(r) ==
  /\ recorder[r].doing.pc = "evaluated"
  /\ \E preserved, told \in BOOLEAN :
       /\ told => preserved
       /\ IF preserved THEN appendGovernanceEvidence(recorder[r].doing.evidence)
          ELSE UNCHANGED evidenceRows
       /\ recorder' = [recorder EXCEPT ![r].doing =
            IF told THEN [@ EXCEPT !.pc = "proven"] ELSE Idle]
  /\ UNCHANGED <<ledgerRows, issued, restarts>>

(* The record is created and inserted.  The insert may fail, its answer    *)
(* may be lost, and a recorder that is told of a failure may or may not    *)
(* keep the record as the previous one of its next.                        *)
preserveGovernanceLedgerRecord(r) ==
  /\ recorder[r].doing.pc = "proven"
  /\ LET record == createGovernanceLedgerRecordFromEvidence(
                     recorder[r].doing.evidence, recorder[r].previous)
     IN  \E inserted, kept \in BOOLEAN :
           /\ recorder' = [recorder EXCEPT ![r].doing = Idle,
                                           ![r].previous = IF kept THEN record ELSE @]
           /\ IF inserted THEN preserveLedgerRecord(r, record) ELSE UNCHANGED ledgerRows
  /\ UNCHANGED <<evidenceRows, issued, restarts>>

Restart(r) ==
  /\ restarts < MaxRestarts
  /\ restarts' = restarts + 1
  /\ recorder' = [recorder EXCEPT ![r] = [Fresh EXCEPT !.lives = recorder[r].lives + 1]]
  /\ UNCHANGED <<evidenceRows, ledgerRows, issued>>

TrailNext ==
  \E r \in Recorders :
    \/ \E operation \in Decided : EvaluatePolicy(r, operation)
    \/ preserveGovernanceEvidence(r)
    \/ preserveGovernanceLedgerRecord(r)
    \/ Restart(r)

----------------------------------------------------------------------------
(* Properties.                                                             *)

TrailTypeOK ==
  /\ issued \in 0..MaxIssued /\ restarts \in 0..MaxRestarts
  /\ \A e \in evidenceRows : e.evidence_id \in 1..issued /\ e.action \in {"ALLOW", "DENY"}
  /\ \A k \in DOMAIN ledgerRows : ledgerRows[k].sequence_number \in 1..issued

(* A ledger that verifies is the unbroken account of one recorder: no      *)
(* record it chained is missing in between, no other recorder wrote into   *)
(* it, and it was not restarted on the way.                                *)
VerifiedIsOneAccount ==
  verifyGovernanceLedger(ledgerRows) =>
    \A k \in 2..Len(ledgerRows) :
      /\ ledgerRows[k].by = ledgerRows[k - 1].by
      /\ ledgerRows[k].previous_hash = ledgerRows[k - 1].ledger_id
=============================================================================
