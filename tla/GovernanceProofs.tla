-------------------------- MODULE GovernanceProofs --------------------------
(***************************************************************************)
(* The parts of governance that keep state, for any recorders, cycles,     *)
(* operations, graphs and bounds: data stays where its policies keep it, a *)
(* ledger that verifies is one account, proofs of authority are backed, a  *)
(* constitutional pressure is not forgotten and the trend is in order of   *)
(* issue.                                                                  *)
(***************************************************************************)
EXTENDS Governance, FiniteSetTheorems, WellFoundedInduction, TLAPS

(* A set of naturals that is not empty has a least element.                *)
LEMMA Least ==
  ASSUME NEW T \in SUBSET Nat, T # {}
  PROVE  \E x \in T : \A y \in T : x <= y
<1> DEFINE R == OpToRel(<, Nat)
<1>1. IsWellFoundedOn(R, Nat)
  BY NatLessThanWellFounded
<1>2. \A x, y \in Nat : <<y, x>> \in R <=> y < x
  BY DEF OpToRel
<1> HIDE DEF R
<1>3. PICK x \in T : \A y \in T : ~ (<<y, x>> \in R)
  BY <1>1, WFMin
<1>4. \A y \in T : x <= y
  <2> TAKE y \in T
  <2>1. x \in Nat /\ y \in Nat
    OBVIOUS
  <2>2. ~(<<y, x>> \in R)
    BY <1>3
  <2>3. ~(y < x)
    BY <1>2, <2>1, <2>2, Zenon
  <2> QED
    BY <2>1, <2>3
<1> QED
  BY <1>4

(* The least of a set of naturals is one of them, and none is less.        *)
LEMMA MinIsLeast ==
  ASSUME NEW T \in SUBSET Nat, T # {}
  PROVE  Min(T) \in T /\ \A y \in T : Min(T) <= y
BY Least DEF Min

----------------------------------------------------------------------------
(* The trail.                                                              *)

TrailSpec == TrailInit /\ [][TrailNext]_trailVars

Rows == {ledgerRows[k] : k \in DOMAIN ledgerRows}

Proofs == [evidence_id : Nat, source : {"TENANT_BOUNDARY", "SOVEREIGNTY_POLICY",
            "ENCRYPTION_POLICY"}, domain : EncryptionDomain, action : {"ALLOW", "DENY"},
           severity : {"LOW", "HIGH", "CRITICAL"}]

Doings == {Idle} \union [pc : {"evaluated", "proven"}, evidence : Proofs]

Busy(k) == k.doing.pc \in {"evaluated", "proven"}

Id(k) == k.doing.evidence.evidence_id

(* The record a recorder would chain to was created in its present life    *)
(* before what it is doing.                                                *)
RecorderStands(k) ==
  /\ k = [doing |-> k.doing, previous |-> k.previous, lives |-> k.lives]
  /\ k.doing \in Doings
  /\ k.lives \in Nat
  /\ k.previous.ledger_id \in 0..issued
  /\ k.previous.current_hash = k.previous.ledger_id
  /\ k.previous.sequence_number \in 0..k.previous.ledger_id
  /\ Busy(k) => Id(k) <= issued /\ k.previous.ledger_id < Id(k)

RowStands(x) ==
  /\ x.ledger_id \in 1..issued
  /\ x.current_hash = x.ledger_id
  /\ x.previous_hash \in 0..issued
  /\ x.sequence_number \in 1..x.ledger_id

RecordersStand ==
  /\ recorder = [r \in Recorders |-> recorder[r]]
  /\ \A r \in Recorders : \E k : k = recorder[r] /\ RecorderStands(k)

(* The record that holds the identifier a recorder would chain to is its   *)
(* own, of its present life.                                               *)
Owned ==
  \A r \in Recorders : \A x \in Rows :
    x.ledger_id = recorder[r].previous.ledger_id => x.by = <<r, recorder[r].lives>>

(* The identifier of what is being done is held by nothing else.           *)
Unused ==
  \A r \in Recorders : Busy(recorder[r]) =>
    /\ \A x \in Rows : x.ledger_id # Id(recorder[r]) /\ x.previous_hash # Id(recorder[r])
    /\ \A s \in Recorders : recorder[s].previous.ledger_id # Id(recorder[r])
    /\ \A s \in Recorders \ {r} : Busy(recorder[s]) => Id(recorder[s]) # Id(recorder[r])

(* What chains to a record was chained by the recorder that created it.    *)
Chained == \A x, y \in Rows : x.previous_hash = y.ledger_id => x.by = y.by

Preserved == \A e \in evidenceRows : e.evidence_id \in 1..issued /\ e.action \in {"ALLOW", "DENY"}

TrailInvariant ==
  /\ issued \in 0..MaxIssued /\ restarts \in 0..MaxRestarts
  /\ ledgerRows \in Seq(Rows)
  /\ \A x \in Rows : RowStands(x)
  /\ Preserved
  /\ RecordersStand
  /\ Owned
  /\ Unused
  /\ Chained

(* Every policy tells whether an operation is allowed.                     *)
LEMMA ResultsKnown ==
  ASSUME NEW operation \in Operations, operation.policy # "RECOVERY"
  PROVE  /\ ResultOf(operation).allowed \in BOOLEAN
         /\ operation.policy \in {"TENANT_BOUNDARY", "SOVEREIGNTY_POLICY", "ENCRYPTION_POLICY"}
         /\ operation.domain \in EncryptionDomain
<1>1. CASE operation.policy = "TENANT_BOUNDARY"
  BY <1>1, OperationsAssumption DEF ResultOf, evaluateTenantBoundary, Result
<1>2. CASE operation.policy = "SOVEREIGNTY_POLICY"
  BY <1>2, OperationsAssumption DEF ResultOf, evaluateSovereigntyPolicy, Result
<1>3. CASE operation.policy = "ENCRYPTION_POLICY"
  BY <1>3, OperationsAssumption DEF ResultOf, resolveEncryptionPolicy, Result
<1> QED
  BY <1>1, <1>2, <1>3, OperationsAssumption

(* What a policy answered is evidence under the identifier it is given.    *)
LEMMA EvidenceKnown ==
  ASSUME NEW operation \in Operations, operation.policy # "RECOVERY", NEW id \in Nat
  PROVE  createRuntimeGovernanceEvidence(id, operation, ResultOf(operation)) \in Proofs
BY ResultsKnown DEF createRuntimeGovernanceEvidence, Proofs, normalizeSeverity

(* Nothing is recorded at the beginning.                                   *)
LEMMA TrailBegins == TrailInit => TrailInvariant
BY TrailBounds DEF TrailInit, TrailInvariant, Rows, Preserved, RecordersStand, Owned, Unused,
   Chained, RecorderStands, Fresh, NoRecord, Idle, Doings, Busy

(* A row or a recorder stands as more is issued.                           *)
LEMMA IssuedKeeps ==
  ASSUME issued \in Nat, issued' \in {issued, issued + 1}
  PROVE  /\ \A x : RowStands(x) => RowStands(x)'
         /\ \A k : RecorderStands(k) => RecorderStands(k)'
<1>1. ASSUME NEW x, RowStands(x) PROVE RowStands(x)'
  BY <1>1 DEF RowStands
<1>2. ASSUME NEW k, RecorderStands(k) PROVE RecorderStands(k)'
  <2>1. k.previous.ledger_id \in 0..issued'
    BY <1>2 DEF RecorderStands
  <2>2. ASSUME Busy(k) PROVE Id(k) <= issued' /\ k.previous.ledger_id < Id(k)
    <3>1. k.doing \in Doings /\ k.doing # Idle
      BY <1>2, <2>2 DEF RecorderStands, Busy, Idle
    <3>2. Id(k) \in Nat
      BY <3>1 DEF Doings, Proofs, Id
    <3> QED
      BY <1>2, <2>2, <3>2 DEF RecorderStands
  <2> QED
    BY <1>2, <2>1, <2>2 DEF RecorderStands
<1> QED
  BY <1>1, <1>2

(* What only a recorder's own step changes.                                *)
Unmoved(r) == \A s \in Recorders : s # r => recorder'[s] = recorder[s]

Moves(r, new) == recorder' = [recorder EXCEPT ![r] = new]

(* When one recorder moves and evidence is only added, all of them stand.  *)
LEMMA RecorderMoves ==
  ASSUME TrailInvariant, NEW r \in Recorders, NEW new, Moves(r, new),
         issued' \in {issued, issued + 1}, evidenceRows \subseteq evidenceRows',
         RecorderStands(new)'
  PROVE  RecordersStand' /\ recorder'[r] = new /\ Unmoved(r)
<1>1. recorder'[r] = new /\ Unmoved(r) /\ recorder' = [s \in Recorders |-> recorder'[s]]
  BY DEF TrailInvariant, RecordersStand, Unmoved, Moves
<1>2. ASSUME NEW s \in Recorders, s # r
      PROVE  \E n : n = recorder'[s] /\ RecorderStands(n)'
  <2>1. PICK n : n = recorder[s] /\ RecorderStands(n)
    BY DEF TrailInvariant, RecordersStand
  <2>2. RecorderStands(n)'
    BY <2>1, IssuedKeeps DEF TrailInvariant
  <2> QED
    BY <1>1, <1>2, <2>1, <2>2 DEF Unmoved
<1>3. \E n : n = recorder'[r] /\ RecorderStands(n)'
  BY <1>1
<1> QED
  BY <1>1, <1>2, <1>3 DEF RecordersStand

(* A policy is evaluated: the identifier is new.                           *)
LEMMA EvaluateKeeps ==
  ASSUME TrailInvariant, NEW r \in Recorders, NEW operation \in Decided,
         EvaluatePolicy(r, operation)
  PROVE  TrailInvariant'
<1> DEFINE evidence == createRuntimeGovernanceEvidence(issued + 1, operation, ResultOf(operation))
<1>1. /\ issued' = issued + 1 /\ issued \in Nat /\ issued' \in 0..MaxIssued
      /\ UNCHANGED <<evidenceRows, ledgerRows, restarts>>
  BY TrailBounds DEF EvaluatePolicy, TrailInvariant
<1>2. PICK k : k = recorder[r]
  OBVIOUS
<1>3. PICK new : new = [k EXCEPT !.doing = [pc |-> "evaluated", evidence |-> evidence]]
  OBVIOUS
<1>4. Moves(r, new)
  BY <1>1, <1>2, <1>3 DEF EvaluatePolicy, Moves
<1>5. evidence \in Proofs /\ evidence.evidence_id = issued + 1
  <2>1. operation \in Operations /\ operation.policy # "RECOVERY"
    BY DecidedAssumption
  <2> QED
    BY <1>1, <2>1, EvidenceKnown DEF createRuntimeGovernanceEvidence
<1> HIDE DEF evidence
<1>7. RecorderStands(k) /\ k = [doing |-> k.doing, previous |-> k.previous, lives |-> k.lives]
  BY <1>2 DEF TrailInvariant, RecordersStand, RecorderStands
<1>8. /\ new = [doing |-> new.doing, previous |-> k.previous, lives |-> k.lives]
      /\ new.previous = k.previous /\ new.lives = k.lives
      /\ new.doing \in Doings /\ new.doing.pc = "evaluated" /\ Id(new) = issued + 1
  BY <1>3, <1>5, <1>7 DEF Doings, Id
<1>9. RecorderStands(new)'
  <2>1. k.previous.ledger_id < issued + 1 /\ k.previous.ledger_id \in 0..issued'
    BY <1>1, <1>7 DEF RecorderStands
  <2> QED
    BY <1>1, <1>7, <1>8, <2>1 DEF RecorderStands
<1>10. Rows' = Rows
  BY <1>1 DEF Rows
<1>11. RecordersStand' /\ recorder'[r] = new /\ Unmoved(r)
  BY <1>1, <1>4, <1>9, RecorderMoves
<1>12. Owned'
  BY <1>2, <1>11, <1>8, <1>10 DEF Owned, TrailInvariant, Unmoved
<1>13. Unused'
  <2>1. \A x \in Rows : x.ledger_id # issued + 1 /\ x.previous_hash # issued + 1
    BY <1>1 DEF TrailInvariant, RowStands
  <2>2. \A s \in Recorders : recorder[s].previous.ledger_id # issued + 1
    BY <1>1 DEF TrailInvariant, RecordersStand, RecorderStands
  <2>3. \A s \in Recorders : Busy(recorder[s]) => Id(recorder[s]) # issued + 1
    BY <1>1 DEF TrailInvariant, RecordersStand, RecorderStands
  <2> QED
    BY <1>2, <1>11, <1>8, <1>10, <2>1, <2>2, <2>3 DEF Unused, TrailInvariant, Unmoved
<1> QED
  BY <1>1, <1>10, <1>11, <1>12, <1>13, IssuedKeeps DEF TrailInvariant, Chained, Preserved

(* The evidence of what was evaluated is preserved, or the insert failed.  *)
LEMMA EvidenceKeeps ==
  ASSUME TrailInvariant, NEW r \in Recorders, preserveGovernanceEvidence(r)
  PROVE  TrailInvariant'
<1>1. PICK k : k = recorder[r] /\ RecorderStands(k)
  BY DEF TrailInvariant, RecordersStand
<1>2. PICK preserved, told \in BOOLEAN :
        /\ IF preserved THEN appendGovernanceEvidence(recorder[r].doing.evidence)
           ELSE UNCHANGED evidenceRows
        /\ recorder' = [recorder EXCEPT ![r].doing =
             IF told THEN [@ EXCEPT !.pc = "proven"] ELSE Idle]
  BY DEF preserveGovernanceEvidence
<1>3. PICK new : new = [k EXCEPT !.doing = IF told THEN [@ EXCEPT !.pc = "proven"] ELSE Idle]
  OBVIOUS
<1>4. UNCHANGED <<ledgerRows, issued, restarts>> /\ k.doing.pc = "evaluated"
  BY <1>1 DEF preserveGovernanceEvidence
<1>5. k.doing \in [pc : {"evaluated", "proven"}, evidence : Proofs]
  BY <1>1, <1>4 DEF RecorderStands, Doings, Idle
<1>6. /\ new = [doing |-> new.doing, previous |-> k.previous, lives |-> k.lives]
      /\ new.previous = k.previous /\ new.lives = k.lives
      /\ new.doing = IF told THEN [k.doing EXCEPT !.pc = "proven"] ELSE Idle
  BY <1>1, <1>3 DEF RecorderStands
<1>7. new.doing \in Doings /\ (Busy(new) => Id(new) = Id(k))
  BY <1>5, <1>6 DEF Doings, Busy, Id, Idle
<1>8. Moves(r, new)
  BY <1>1, <1>2, <1>3 DEF Moves, TrailInvariant, RecordersStand
<1>9. /\ evidenceRows \subseteq evidenceRows'
      /\ evidenceRows' \subseteq evidenceRows \union {k.doing.evidence}
  BY <1>1, <1>2 DEF appendGovernanceEvidence
<1>10. Busy(k)
  BY <1>4 DEF Busy
<1>11. RecordersStand' /\ recorder'[r] = new /\ Unmoved(r)
  <2>1. issued' \in {issued, issued + 1}
    BY <1>4
  <2>2. RecorderStands(new)'
    BY <1>1, <1>4, <1>6, <1>7, <1>10 DEF RecorderStands
  <2> QED
    BY <1>8, <1>9, <2>1, <2>2, RecorderMoves
<1>12. Rows' = Rows
  BY <1>4 DEF Rows
<1>13. Owned'
  BY <1>1, <1>6, <1>11, <1>12 DEF Owned, TrailInvariant, Unmoved
<1>14. Unused'
  BY <1>1, <1>6, <1>7, <1>10, <1>11, <1>12 DEF Unused, TrailInvariant, Unmoved
<1>15. Preserved'
  <2>1. Id(k) \in Nat /\ k.doing.evidence.action \in {"ALLOW", "DENY"}
    BY <1>5 DEF Proofs, Id
  <2>2. Id(k) \in 1..issued
    BY <1>1, <1>10, <2>1 DEF RecorderStands, TrailInvariant
  <2> QED
    BY <1>4, <1>9, <2>1, <2>2 DEF Preserved, TrailInvariant, Id
<1> QED
  BY <1>4, <1>11, <1>12, <1>13, <1>14, <1>15, IssuedKeeps DEF TrailInvariant, Chained

(* A row inserted is added to the rows of the ledger.                      *)
LEMMA RowInserted ==
  ASSUME ledgerRows \in Seq(Rows), NEW x, ledgerRows' = Append(ledgerRows, x)
  PROVE  Rows' = Rows \union {x} /\ ledgerRows' \in Seq(Rows')
<1>1. Len(ledgerRows) \in Nat /\ DOMAIN ledgerRows = 1..Len(ledgerRows)
  OBVIOUS
<1>2. DOMAIN ledgerRows' = 1..(Len(ledgerRows) + 1)
  OBVIOUS
<1>3. \A k \in 1..Len(ledgerRows) : ledgerRows'[k] = ledgerRows[k]
  OBVIOUS
<1>4. ledgerRows'[Len(ledgerRows) + 1] = x
  OBVIOUS
<1>5. Rows' = Rows \union {x}
  <2>1. ASSUME NEW y \in Rows' PROVE y \in Rows \union {x}
    BY <1>1, <1>2, <1>3, <1>4, <2>1 DEF Rows
  <2>2. ASSUME NEW y \in Rows \union {x} PROVE y \in Rows'
    <3>1. CASE y = x
      BY <1>1, <1>2, <1>4, <3>1 DEF Rows
    <3>2. CASE y \in Rows
      BY <1>1, <1>2, <1>3, <3>2 DEF Rows
    <3> QED
      BY <3>1, <3>2
  <2> QED
    BY <2>1, <2>2
<1>6. ledgerRows \in Seq(Rows \union {x})
  OBVIOUS
<1> QED
  BY <1>5, <1>6

(* The record of what was proven is inserted, or not, and kept to chain    *)
(* to, or not.                                                             *)
LEMMA RecordKeeps ==
  ASSUME TrailInvariant, NEW r \in Recorders, preserveGovernanceLedgerRecord(r)
  PROVE  TrailInvariant'
<1>1. PICK k : k = recorder[r] /\ RecorderStands(k)
  BY DEF TrailInvariant, RecordersStand
<1>2. PICK record : record = createGovernanceLedgerRecordFromEvidence(k.doing.evidence, k.previous)
  OBVIOUS
<1>3. PICK inserted, kept \in BOOLEAN :
        /\ recorder' = [recorder EXCEPT ![r].doing = Idle,
                                        ![r].previous = IF kept THEN record ELSE @]
        /\ IF inserted THEN preserveLedgerRecord(r, record) ELSE UNCHANGED ledgerRows
  BY <1>1, <1>2 DEF preserveGovernanceLedgerRecord
<1>4. PICK new : new = [k EXCEPT !.doing = Idle,
                                 !.previous = IF kept THEN record ELSE @]
  OBVIOUS
<1>5. UNCHANGED <<evidenceRows, issued, restarts>> /\ k.doing.pc = "proven"
  BY <1>1 DEF preserveGovernanceLedgerRecord
<1>6. Busy(k) /\ k.doing \in Doings /\ k.doing # Idle
  BY <1>1, <1>5 DEF RecorderStands, Idle, Busy
<1>7. Id(k) \in 1..issued /\ k.previous.ledger_id < Id(k) /\ issued \in Nat
  <2>1. Id(k) \in Nat /\ issued \in Nat
    BY <1>6, TrailBounds DEF Doings, Proofs, Id, TrailInvariant
  <2> QED
    BY <1>1, <1>6, <2>1 DEF RecorderStands
<1>8. /\ record.ledger_id = Id(k) /\ record.current_hash = Id(k)
      /\ record.previous_hash = k.previous.ledger_id
      /\ record.sequence_number = k.previous.sequence_number + 1
  BY <1>1, <1>2 DEF createGovernanceLedgerRecordFromEvidence, RecorderStands, Id
<1>9. /\ new = [doing |-> new.doing, previous |-> new.previous, lives |-> k.lives]
      /\ new.lives = k.lives /\ new.doing = Idle
      /\ new.previous = IF kept THEN record ELSE k.previous
  BY <1>1, <1>4 DEF RecorderStands
<1>10. Moves(r, new)
  BY <1>1, <1>3, <1>4 DEF Moves, TrailInvariant, RecordersStand
<1>11. RecordersStand' /\ recorder'[r] = new /\ Unmoved(r)
  <2>1. issued' \in {issued, issued + 1} /\ evidenceRows \subseteq evidenceRows'
    BY <1>5
  <2>2. RecorderStands(new)'
    <3>1. new.previous.ledger_id \in 0..issued'
      BY <1>1, <1>5, <1>7, <1>8, <1>9 DEF RecorderStands
    <3>2. new.previous.current_hash = new.previous.ledger_id
      BY <1>1, <1>8, <1>9 DEF RecorderStands
    <3>3. new.previous.sequence_number \in 0..new.previous.ledger_id
      BY <1>1, <1>7, <1>8, <1>9 DEF RecorderStands
    <3>4. ~Busy(new) /\ new.lives \in Nat /\ new.doing \in Doings
      BY <1>1, <1>9 DEF Busy, RecorderStands, Idle, Doings
    <3> QED
      BY <1>9, <3>1, <3>2, <3>3, <3>4 DEF RecorderStands
  <2> QED
    BY <1>10, <2>1, <2>2, RecorderMoves
<1>12. PICK x : /\ x.by = <<r, k.lives>>
                /\ x.ledger_id = Id(k) /\ x.current_hash = Id(k)
                /\ x.previous_hash = k.previous.ledger_id
                /\ x.sequence_number = k.previous.sequence_number + 1
                /\ inserted => ledgerRows' = Append(ledgerRows, x)
  BY <1>1, <1>3, <1>8 DEF preserveLedgerRecord
<1>13. Rows \subseteq Rows' /\ Rows' \subseteq Rows \union {x} /\ ledgerRows' \in Seq(Rows')
  <2>1. ledgerRows \in Seq(Rows)
    BY DEF TrailInvariant
  <2>2. CASE inserted
    BY <1>12, <2>1, <2>2, RowInserted
  <2>3. CASE ~inserted
    BY <1>3, <2>1, <2>3 DEF Rows
  <2> QED
    BY <2>2, <2>3
<1>14. \A y \in Rows : y.ledger_id # Id(k) /\ y.previous_hash # Id(k)
  BY <1>1, <1>6 DEF Unused, TrailInvariant
<1>15. \A s \in Recorders : recorder[s].previous.ledger_id # Id(k)
  BY <1>1, <1>6 DEF Unused, TrailInvariant
<1>16. \A s \in Recorders \ {r} : Busy(recorder[s]) => Id(recorder[s]) # Id(k)
  BY <1>1, <1>6 DEF Unused, TrailInvariant
<1>17. RowStands(x)'
  BY <1>1, <1>5, <1>7, <1>12 DEF RowStands, RecorderStands
<1>18. Owned'
  <2>1. ASSUME NEW s \in Recorders, NEW y \in Rows', y.ledger_id = recorder'[s].previous.ledger_id
        PROVE  y.by = <<s, recorder'[s].lives>>
    <3>1. CASE y \in Rows /\ s # r
      BY <1>11, <2>1, <3>1 DEF Owned, TrailInvariant, Unmoved
    <3>2. CASE y \in Rows /\ s = r
      BY <1>1, <1>8, <1>9, <1>11, <1>14, <2>1, <3>2 DEF Owned, TrailInvariant
    <3>3. CASE y = x /\ s # r
      BY <1>11, <1>12, <1>15, <2>1, <3>3 DEF Unmoved
    <3>4. CASE y = x /\ s = r
      BY <1>9, <1>11, <1>12, <3>4
    <3> QED
      BY <1>13, <2>1, <3>1, <3>2, <3>3, <3>4
  <2> QED
    BY <2>1 DEF Owned
<1>19. Unused'
  <2>1. ASSUME NEW s \in Recorders, Busy(recorder'[s])
        PROVE  s # r /\ recorder'[s] = recorder[s]
    BY <1>9, <1>11, <2>1 DEF Busy, Unmoved, Idle
  <2>2. ASSUME NEW s \in Recorders, Busy(recorder'[s]), NEW y \in Rows'
        PROVE  y.ledger_id # Id(recorder'[s]) /\ y.previous_hash # Id(recorder'[s])
    <3>1. CASE y \in Rows
      BY <2>1, <2>2, <3>1 DEF Unused, TrailInvariant
    <3>2. CASE y = x
      BY <1>1, <1>12, <1>16, <2>1, <2>2, <3>2 DEF Unused, TrailInvariant
    <3> QED
      BY <1>13, <2>2, <3>1, <3>2
  <2>3. ASSUME NEW s \in Recorders, Busy(recorder'[s]), NEW t \in Recorders
        PROVE  /\ recorder'[t].previous.ledger_id # Id(recorder'[s])
               /\ t # s /\ Busy(recorder'[t]) => Id(recorder'[t]) # Id(recorder'[s])
    <3>1. CASE t # r
      BY <1>11, <2>1, <2>3, <3>1 DEF Unused, TrailInvariant, Unmoved
    <3>2. CASE t = r
      BY <1>1, <1>8, <1>9, <1>11, <1>16, <2>1, <2>3, <3>2 DEF Unused, TrailInvariant, Busy, Idle
    <3> QED
      BY <3>1, <3>2
  <2> QED
    BY <2>2, <2>3 DEF Unused
<1>20. Chained'
  <2>1. ASSUME NEW y \in Rows', NEW z \in Rows', y.previous_hash = z.ledger_id PROVE y.by = z.by
    <3>1. CASE y \in Rows /\ z \in Rows
      BY <2>1, <3>1 DEF Chained, TrailInvariant
    <3>2. CASE y = x /\ z \in Rows
      BY <1>1, <1>12, <2>1, <3>2 DEF Owned, TrailInvariant
    <3>3. CASE y \in Rows /\ z = x
      BY <1>12, <1>14, <2>1, <3>3
    <3>4. CASE y = x /\ z = x
      BY <3>4
    <3> QED
      BY <1>13, <2>1, <3>1, <3>2, <3>3, <3>4
  <2> QED
    BY <2>1 DEF Chained
<1>21. issued' = issued /\ restarts' = restarts /\ evidenceRows' = evidenceRows
  BY <1>5
<1>22. \A y \in Rows' : RowStands(y)'
  BY <1>7, <1>13, <1>17, <1>21, IssuedKeeps DEF TrailInvariant
<1> QED
  BY <1>11, <1>13, <1>18, <1>19, <1>20, <1>21, <1>22 DEF TrailInvariant, Preserved

(* A restart forgets the record to chain to.                               *)
LEMMA RestartKeeps ==
  ASSUME TrailInvariant, NEW r \in Recorders, Restart(r)
  PROVE  TrailInvariant'
<1>1. PICK k : k = recorder[r] /\ RecorderStands(k)
  BY DEF TrailInvariant, RecordersStand
<1>2. PICK new : new = [Fresh EXCEPT !.lives = k.lives + 1]
  OBVIOUS
<1>3. /\ new = [doing |-> new.doing, previous |-> new.previous, lives |-> k.lives + 1]
      /\ new.lives = k.lives + 1 /\ new.doing = Idle /\ new.previous = NoRecord
  BY <1>2 DEF Fresh
<1>4. /\ Moves(r, new) /\ issued' = issued /\ evidenceRows' = evidenceRows
      /\ ledgerRows' = ledgerRows /\ restarts' = restarts + 1 /\ restarts < MaxRestarts
  BY <1>1, <1>2 DEF Restart, Moves
<1>5. issued \in Nat
  BY TrailBounds DEF TrailInvariant
<1>6. RecordersStand' /\ recorder'[r] = new /\ Unmoved(r)
  <2>1. RecorderStands(new)'
    BY <1>1, <1>3, <1>4, <1>5 DEF RecorderStands, Idle, NoRecord, Doings, Busy
  <2>2. issued' \in {issued, issued + 1} /\ evidenceRows \subseteq evidenceRows'
    BY <1>4
  <2> QED
    BY <1>4, <2>1, <2>2, RecorderMoves
<1>7. Rows' = Rows
  BY <1>4 DEF Rows
<1>8. Owned'
  <2>1. \A x \in Rows : x.ledger_id # 0
    BY DEF TrailInvariant, RowStands
  <2> QED
    BY <1>3, <1>6, <1>7, <2>1 DEF Owned, TrailInvariant, Unmoved, NoRecord
<1>9. Unused'
  <2>1. \A s \in Recorders : Busy(recorder'[s]) => s # r /\ recorder'[s] = recorder[s]
    BY <1>3, <1>6 DEF Busy, Idle, Unmoved
  <2>2. \A s \in Recorders : Busy(recorder[s]) => Id(recorder[s]) # 0
    <3> SUFFICES ASSUME NEW s \in Recorders, Busy(recorder[s]) PROVE Id(recorder[s]) # 0
      OBVIOUS
    <3>1. PICK n : n = recorder[s] /\ RecorderStands(n)
      BY DEF TrailInvariant, RecordersStand
    <3>2. n.previous.ledger_id \in Nat /\ n.previous.ledger_id < Id(n)
      BY <1>5, <3>1 DEF RecorderStands
    <3> QED
      BY <3>1, <3>2
  <2>3. \A s, t \in Recorders : Busy(recorder'[s]) =>
          recorder'[t].previous.ledger_id # Id(recorder'[s])
    BY <1>3, <1>6, <2>1, <2>2 DEF Unused, TrailInvariant, Unmoved, NoRecord
  <2> QED
    BY <1>7, <2>1, <2>3 DEF Unused, TrailInvariant
<1>10. restarts' \in 0..MaxRestarts
  BY <1>4, TrailBounds DEF TrailInvariant
<1>11. issued' \in 0..MaxIssued /\ (\A x \in Rows : RowStands(x)')
  BY <1>4 DEF TrailInvariant, RowStands
<1> QED
  BY <1>4, <1>6, <1>7, <1>8, <1>9, <1>10, <1>11 DEF TrailInvariant, Preserved, Chained

(* What a ledger holds, and who chains to it, of every trail.              *)
LEMMA TrailInvariantHolds == TrailSpec => []TrailInvariant
<1>1. TrailInvariant /\ [TrailNext]_trailVars => TrailInvariant'
  <2> SUFFICES ASSUME TrailInvariant, [TrailNext]_trailVars PROVE TrailInvariant'
    OBVIOUS
  <2>1. CASE UNCHANGED trailVars
    BY <2>1 DEF trailVars, TrailInvariant, Rows, RowStands, Preserved, RecordersStand,
       RecorderStands, Owned, Unused, Chained
  <2>2. CASE TrailNext
    <3>1. PICK r \in Recorders :
            \/ \E operation \in Decided : EvaluatePolicy(r, operation)
            \/ preserveGovernanceEvidence(r)
            \/ preserveGovernanceLedgerRecord(r)
            \/ Restart(r)
      BY <2>2 DEF TrailNext
    <3> QED
      BY <3>1, EvaluateKeeps, EvidenceKeeps, RecordKeeps, RestartKeeps
  <2> QED
    BY <2>1, <2>2
<1> QED
  BY <1>1, TrailBegins, PTL DEF TrailSpec

(* The shape of what the trail keeps, for any recorders, operations and    *)
(* bounds.                                                                 *)
THEOREM TrailTyped == TrailSpec => []TrailTypeOK
<1>1. TrailInvariant => TrailTypeOK
  <2> SUFFICES ASSUME TrailInvariant PROVE TrailTypeOK
    OBVIOUS
  <2>1. ASSUME NEW k \in DOMAIN ledgerRows PROVE ledgerRows[k].sequence_number \in 1..issued
    <3>1. RowStands(ledgerRows[k]) /\ issued \in Nat
      BY TrailBounds DEF TrailInvariant, Rows
    <3> QED
      BY <3>1 DEF RowStands
  <2> QED
    BY <2>1 DEF TrailInvariant, Preserved, TrailTypeOK
<1> QED
  BY <1>1, TrailInvariantHolds, PTL

(* A ledger that verifies is the unbroken account of one life of one       *)
(* recorder, however many write to it, restart and lose what they wrote.   *)
THEOREM VerifiedIsAccount == TrailSpec => []VerifiedIsOneAccount
<1>1. TrailInvariant => VerifiedIsOneAccount
  <2> SUFFICES ASSUME TrailInvariant, verifyGovernanceLedger(ledgerRows),
                      NEW k \in 2..Len(ledgerRows)
               PROVE  /\ ledgerRows[k].by = ledgerRows[k - 1].by
                      /\ ledgerRows[k].previous_hash = ledgerRows[k - 1].ledger_id
    BY DEF VerifiedIsOneAccount
  <2>1. k \in DOMAIN ledgerRows /\ k - 1 \in DOMAIN ledgerRows
    BY DEF TrailInvariant
  <2>2. ledgerRows[k] \in Rows /\ ledgerRows[k - 1] \in Rows
    BY <2>1 DEF Rows
  <2>3. ledgerRows[k].previous_hash = ledgerRows[k - 1].current_hash
    BY DEF verifyGovernanceLedger, Continues
  <2>4. ledgerRows[k - 1].current_hash = ledgerRows[k - 1].ledger_id
    BY <2>2 DEF TrailInvariant, RowStands
  <2> QED
    BY <2>2, <2>3, <2>4 DEF TrailInvariant, Chained
<1> QED
  BY <1>1, TrailInvariantHolds, PTL

----------------------------------------------------------------------------
(* Governed data.                                                          *)

DataSpec == DataInit /\ [][DataNext]_dataVars

(* Where a domain's data may be.                                           *)
Governed(d, c) ==
  /\ c.told \in BOOLEAN /\ c.internal \in BOOLEAN
  /\ c = [tenant |-> c.tenant, region |-> c.region, internal |-> c.internal, told |-> c.told]
  /\ c.told /\ PolicyOf(d).sovereignty = "NON_EXPORTABLE" => c.region = Home.region
  /\ c.told /\ c.tenant # Home.tenant => c.internal \/ PolicyOf(d).open

RecoveryGoverned(record) ==
  record.decisionStatus = "ALLOWED" =>
    /\ record.domain # "CHARTER"
    /\ record.approverId # None \/ record.domain = "TECHNICAL_SNAPSHOT"
    /\ HoldsAuthority(record.domain) => record.recordType = "AUTHORITY_RECONSTRUCTION_REQUIRED"

DataInvariant ==
  /\ copies = [d \in EncryptionDomain |-> copies[d]]
  /\ \A d \in EncryptionDomain : \A c \in copies[d] : Governed(d, c)
  /\ \A record \in recoveries : RecoveryGoverned(record)

(* Every domain of data is closed to other tenants.                        *)
LEMMA TenantsApart == \A d \in EncryptionDomain : PolicyOf(d).cross_tenant_forbidden
<1>1. \A c, s : EncryptionDomainPolicy(c, s).cross_tenant_forbidden
  BY DEF EncryptionDomainPolicy
<1>2. PolicyOf("NARRATIVE").cross_tenant_forbidden
  BY DEF PolicyOf, ENCRYPTION_DOMAIN_POLICIES, EncryptionDomainPolicy
<1>3. \A d \in EncryptionDomain \ {"NARRATIVE"} :
        \E c, s : PolicyOf(d) = EncryptionDomainPolicy(c, s)
  BY DEF EncryptionDomain, PolicyOf, ENCRYPTION_DOMAIN_POLICIES
<1> QED
  BY <1>1, <1>2, <1>3

(* What a policy allows makes copies where they may be.                    *)
LEMMA AllowedIsGoverned ==
  ASSUME NEW operation \in Operations, operation.policy # "RECOVERY",
         ResultOf(operation).allowed, NEW copy, Governed(operation.domain, copy),
         NEW made \in CopiesMade(operation, copy)
  PROVE  Governed(operation.domain, made)
<1>1. operation.domain \in EncryptionDomain
  BY OperationsAssumption
<1>2. PICK policy : policy = PolicyOf(operation.domain)
  OBVIOUS
<1>3. CASE operation.policy = "TENANT_BOUNDARY"
  <2>1. operation.systemInternal \in BOOLEAN
    BY <1>3, OperationsAssumption
  <2>2. evaluateTenantBoundary(operation).allowed
    BY <1>3 DEF ResultOf
  <2>3. operation.target = operation.source \/ operation.systemInternal
    BY <1>1, <2>1, <2>2, TenantsApart DEF evaluateTenantBoundary, Result, resolveAccessMode
  <2>4. made = [copy EXCEPT !.tenant = operation.target,
                            !.internal = copy.internal \/ operation.systemInternal,
                            !.told = copy.told /\ operation.source = copy.tenant]
    BY <1>3 DEF CopiesMade
  <2>5. /\ made = [tenant |-> operation.target, region |-> copy.region,
                   internal |-> copy.internal \/ operation.systemInternal,
                   told |-> copy.told /\ operation.source = copy.tenant]
    BY <2>4 DEF Governed
  <2>6. /\ made.tenant = operation.target /\ made.region = copy.region
        /\ made.internal <=> copy.internal \/ operation.systemInternal
        /\ made.told <=> copy.told /\ operation.source = copy.tenant
        /\ made.internal \in BOOLEAN /\ made.told \in BOOLEAN
    BY <2>5
  <2>7. made = [tenant |-> made.tenant, region |-> made.region, internal |-> made.internal,
                told |-> made.told]
    BY <2>5
  <2> QED
    BY <2>3, <2>6, <2>7 DEF Governed
<1>4. CASE operation.policy = "SOVEREIGNTY_POLICY"
  <2>1. ~SovereigntyDenies(operation)
    BY <1>4 DEF ResultOf, evaluateSovereigntyPolicy, Result
  <2>2. policy.sovereignty = "NON_EXPORTABLE" => operation.target \in {None, operation.source}
    BY <1>2, <2>1 DEF SovereigntyDenies, CrossesRegion
  <2>3. PICK region \in IF operation.target = None THEN Regions ELSE {operation.target} :
          made = [copy EXCEPT !.region = region,
                              !.told = /\ copy.told
                                       /\ operation.source = copy.region
                                       /\ operation.target # None]
    BY <1>4 DEF CopiesMade
  <2>4. made = [tenant |-> copy.tenant, region |-> region, internal |-> copy.internal,
                told |-> /\ copy.told
                         /\ operation.source = copy.region
                         /\ operation.target # None]
    BY <2>3 DEF Governed
  <2>5. /\ made.tenant = copy.tenant /\ made.region = region
        /\ made.internal = copy.internal /\ made.told \in BOOLEAN
        /\ made.told => copy.told /\ operation.source = copy.region /\ operation.target # None
        /\ made = [tenant |-> made.tenant, region |-> made.region, internal |-> made.internal,
                   told |-> made.told]
    BY <2>4
  <2>6. made.told => region = operation.target
    BY <2>3, <2>5
  <2> QED
    BY <1>2, <2>2, <2>5, <2>6 DEF Governed
<1>5. CASE operation.policy = "ENCRYPTION_POLICY"
  <2>1. operation.operation = "EXPORT" /\ made = [copy EXCEPT !.tenant = None]
    BY <1>5 DEF CopiesMade
  <2>2. policy.open
    BY <1>2, <1>5, <2>1 DEF ResultOf, resolveEncryptionPolicy, Result
  <2>3. made = [tenant |-> None, region |-> copy.region, internal |-> copy.internal,
                told |-> copy.told]
    BY <2>1 DEF Governed
  <2> QED
    BY <1>2, <2>2, <2>3 DEF Governed
<1> QED
  BY <1>3, <1>4, <1>5, OperationsAssumption

(* What is recorded of a recovery is what its policy says.                 *)
LEMMA RecoveriesGoverned ==
  ASSUME NEW operation \in Operations, operation.policy = "RECOVERY"
  PROVE  RecoveryGoverned(buildGovernanceLedgerRecordFromRecoveryEvidence(operation))
<1>1. operation.domain \in RecoveryDomain
  BY OperationsAssumption
<1>2. RECOVERY_POLICIES[operation.domain] =
        [recovery_allowed |-> operation.domain # "CHARTER",
         human_approval_required |-> operation.domain # "TECHNICAL_SNAPSHOT",
         authority_reconstruction_required |-> HoldsAuthority(operation.domain)]
  BY <1>1 DEF RECOVERY_POLICIES
<1>3. PICK policy : policy = RECOVERY_POLICIES[operation.domain]
  OBVIOUS
<1>4. PICK status : status = evaluateRecoveryRequest(operation)
  OBVIOUS
<1>5. status = "ALLOWED" =>
        /\ operation.domain # "CHARTER"
        /\ operation.approverId # None \/ operation.domain = "TECHNICAL_SNAPSHOT"
  <2>1. /\ policy.recovery_allowed = (operation.domain # "CHARTER")
        /\ policy.human_approval_required = (operation.domain # "TECHNICAL_SNAPSHOT")
    BY <1>2, <1>3
  <2>2. status = IF ~policy.recovery_allowed THEN "DENIED"
                 ELSE IF policy.human_approval_required /\ operation.approverId = None
                 THEN "APPROVAL_REQUIRED" ELSE "ALLOWED"
    BY <1>3, <1>4 DEF evaluateRecoveryRequest
  <2> QED
    BY ONLY <2>1, <2>2
<1>6. PICK record : record = buildGovernanceLedgerRecordFromRecoveryEvidence(operation)
  OBVIOUS
<1>7. /\ record.domain = operation.domain /\ record.approverId = operation.approverId
      /\ record.decisionStatus = status
      /\ record.recordType = resolveEvidenceType(operation.domain, status)
  BY <1>4, <1>6 DEF buildGovernanceLedgerRecordFromRecoveryEvidence
<1>8. status = "ALLOWED" /\ HoldsAuthority(operation.domain) =>
        record.recordType = "AUTHORITY_RECONSTRUCTION_REQUIRED"
  BY <1>2, <1>7 DEF resolveEvidenceType
<1> QED
  BY <1>5, <1>6, <1>7, <1>8 DEF RecoveryGoverned

(* However allowed operations follow each other, told copies stay where    *)
(* their domains keep them, and recoveries are as their policies govern    *)
(* them, for any operations and regions.                                   *)
THEOREM DataGoverned == DataSpec => []DataStaysGoverned
<1>1. DataInit => DataInvariant
  <2>1. \A d \in EncryptionDomain : Governed(d, Home)
    BY DEF Governed, Home
  <2> QED
    BY <2>1 DEF DataInit, DataInvariant
<1>2. DataInvariant /\ [DataNext]_dataVars => DataInvariant'
  <2> SUFFICES ASSUME DataInvariant, [DataNext]_dataVars PROVE DataInvariant'
    OBVIOUS
  <2>1. CASE UNCHANGED dataVars
    BY <2>1 DEF dataVars, DataInvariant
  <2>2. ASSUME NEW operation \in Operations, AssertPolicy(operation) PROVE DataInvariant'
    <3>1. /\ recoveries' = recoveries /\ operation.policy # "RECOVERY"
          /\ ResultOf(operation).allowed /\ operation.domain \in EncryptionDomain
      BY <2>2, OperationsAssumption DEF AssertPolicy
    <3>2. PICK copy \in copies[operation.domain] : \E made \in CopiesMade(operation, copy) :
            copies' = [copies EXCEPT ![operation.domain] = @ \union {made}]
      BY <2>2 DEF AssertPolicy
    <3>3. PICK made \in CopiesMade(operation, copy) :
            copies' = [copies EXCEPT ![operation.domain] = @ \union {made}]
      BY <3>2
    <3>4. Governed(operation.domain, made)
      BY <3>1, <3>2, <3>3, AllowedIsGoverned DEF DataInvariant
    <3>5. \A d \in EncryptionDomain : copies'[d] \subseteq
            copies[d] \union (IF d = operation.domain THEN {made} ELSE {})
      BY <3>3 DEF DataInvariant
    <3>6. copies' = [d \in EncryptionDomain |-> copies'[d]]
      BY <3>3 DEF DataInvariant
    <3>7. \A d \in EncryptionDomain : \A c \in copies'[d] : Governed(d, c)
      BY <3>4, <3>5 DEF DataInvariant
    <3> QED
      BY <3>1, <3>6, <3>7 DEF DataInvariant
  <2>3. ASSUME NEW operation \in Operations, Recover(operation) PROVE DataInvariant'
    BY <2>3, RecoveriesGoverned DEF Recover, DataInvariant
  <2> QED
    BY <2>1, <2>2, <2>3 DEF DataNext
<1>3. DataInvariant => DataStaysGoverned
  BY DEF DataInvariant, DataStaysGoverned, Governed, RecoveryGoverned
<1> QED
  BY <1>1, <1>2, <1>3, PTL DEF DataSpec

----------------------------------------------------------------------------
(* The authority graph.                                                    *)

AuthoritySpec == AuthorityInit /\ [][OagNext]_authorityVars

(* A proof names one whose authority reached the actor when it was issued. *)
Backed(p) ==
  LET ask == p.proof.ask
      backed(i) ==
        LET d == p.basis.delegations[i]
        IN  /\ d.to_actor_id = ask.actor_id
            /\ d.from_actor_id \in ActorIds(p.basis) \ {ask.actor_id}
            /\ <<d.plan, d.domain>> = <<ask.plan, ask.domain>>
            /\ ask.intent \in d.intents
            /\ p.proof.sponsor_id \in {d.sponsor_id, d.from_actor_id} \ {"none"}
  IN  /\ p.basis.company_id = ask.company_id
      /\ \A i \in DOMAIN p.basis.delegations :
           p.basis.delegations[i].expires_at > p.proof.issued_at
      /\ \/ p.proof.authority = "board" /\ IsBoard(p.basis, ask.actor_id)
         \/ p.proof.authority = "human" /\ \E i \in DOMAIN p.basis.delegations : backed(i)

Held(p) == p.basis \in OagGraphs /\ p.proof.ask \in Asks

AuthorityInvariant ==
  /\ oagStore \in OagGraphs \union {NoGraph}
  /\ oagNow \in 0..MaxNow
  /\ \A p \in oagProofs : Held(p) /\ Backed(p)

(* The first delegation that matches names a sponsor or a delegator.       *)
LEMMA ProofIsBacked ==
  ASSUME oagStore \in OagGraphs \union {NoGraph}, NEW ask \in Asks, NEW now \in Nat,
         NEW proof \in validateOagAndBuildProof(ask, now)
  PROVE  /\ Held([proof |-> proof, basis |-> oagStore])
         /\ Backed([proof |-> proof, basis |-> oagStore])
<1> PICK graph : graph = oagStore
  OBVIOUS
<1> PICK p : p = [proof |-> proof, basis |-> graph]
  OBVIOUS
<1>1. /\ graph \in OagGraphs /\ graph.company_id = ask.company_id
      /\ proof \in resolveAuthorityFromGraph(graph, ask, now)
  BY GraphsAssumption DEF validateOagAndBuildProof
<1>2. p.proof = proof /\ p.basis = graph
  OBVIOUS
<1> DEFINE matching == {i \in DOMAIN graph.delegations : Delegates(graph.delegations[i], ask, now)}
           del == graph.delegations[Min(matching)]
<1>3. /\ validateOagGraph(graph, now) /\ ask.actor_id \in ActorIds(graph)
      /\ \/ IsBoard(graph, ask.actor_id) /\ proof = buildOagProof(ask, "none", "board", now)
         \/ /\ matching # {}
            /\ proof = buildOagProof(ask,
                 IF del.sponsor_id # "none" THEN del.sponsor_id ELSE del.from_actor_id,
                 "human", now)
  BY <1>1 DEF resolveAuthorityFromGraph
<1>4. proof.ask = ask /\ proof.issued_at = now
  BY <1>3 DEF buildOagProof
<1>5. \A i \in DOMAIN graph.delegations : graph.delegations[i].expires_at > now
  BY <1>1, <1>3, GraphsAssumption DEF validateOagGraph, Expired
<1>6. CASE IsBoard(graph, ask.actor_id) /\ proof = buildOagProof(ask, "none", "board", now)
  <2>1. proof.authority = "board"
    BY <1>6 DEF buildOagProof
  <2> QED
    BY <1>1, <1>2, <1>4, <1>5, <1>6, <2>1 DEF Held, Backed
<1>7. CASE /\ matching # {}
           /\ proof = buildOagProof(ask,
                IF del.sponsor_id # "none" THEN del.sponsor_id ELSE del.from_actor_id,
                "human", now)
  <2>1. matching \in SUBSET Nat
    BY <1>1, GraphsAssumption
  <2>2. PICK i : i = Min(matching) /\ i \in matching
    <3> HIDE DEF matching
    <3> QED
      BY <1>7, <2>1, MinIsLeast
  <2>3. PICK d : d = graph.delegations[i]
    OBVIOUS
  <2>4. /\ d.to_actor_id = ask.actor_id /\ d.plan = ask.plan /\ d.domain = ask.domain
        /\ ask.intent \in d.intents
    BY <2>2, <2>3 DEF Delegates
  <2>5. d.from_actor_id \in ActorIds(graph) /\ d.from_actor_id # d.to_actor_id
    BY <1>3, <2>2, <2>3 DEF validateOagGraph
  <2>6. d.from_actor_id # "none"
    BY <1>1, <2>5, GraphsAssumption DEF ActorIds
  <2>7. /\ proof.authority = "human"
        /\ proof.sponsor_id = IF d.sponsor_id # "none" THEN d.sponsor_id ELSE d.from_actor_id
    BY <1>7, <2>2, <2>3 DEF buildOagProof
  <2>8. proof.sponsor_id \in {d.sponsor_id, d.from_actor_id} \ {"none"}
    BY <2>6, <2>7
  <2>9. i \in DOMAIN graph.delegations
    BY <2>2
  <2> QED
    BY <1>1, <1>2, <1>4, <1>5, <2>3, <2>4, <2>5, <2>7, <2>8, <2>9 DEF Held, Backed
<1> QED
  BY <1>3, <1>6, <1>7

(* Every proof issued is backed, whatever graphs are set in whatever order.*)
LEMMA AuthorityInvariantHolds == AuthoritySpec => []AuthorityInvariant
<1>1. AuthorityInit => AuthorityInvariant
  BY GraphsAssumption DEF AuthorityInit, AuthorityInvariant
<1>2. AuthorityInvariant /\ [OagNext]_authorityVars => AuthorityInvariant'
  <2> SUFFICES ASSUME AuthorityInvariant, [OagNext]_authorityVars
               PROVE  AuthorityInvariant'
    OBVIOUS
  <2>1. ASSUME NEW ask \in Asks, NEW now \in SaidInstants \union {oagNow}, AskProof(ask, now)
        PROVE  AuthorityInvariant'
    <3>1. now \in Nat
      BY GraphsAssumption DEF AuthorityInvariant
    <3>2. \A proof \in validateOagAndBuildProof(ask, now) :
            Held([proof |-> proof, basis |-> oagStore])
            /\ Backed([proof |-> proof, basis |-> oagStore])
      BY <3>1, ProofIsBacked DEF AuthorityInvariant
    <3> QED
      BY <2>1, <3>2 DEF AskProof, AuthorityInvariant
  <2>2. CASE UNCHANGED authorityVars
    BY <2>2 DEF authorityVars, AuthorityInvariant
  <2>3. ASSUME NEW graph \in OagGraphs, SetGraph(graph) PROVE AuthorityInvariant'
    BY <2>3 DEF SetGraph, AuthorityInvariant
  <2>4. CASE ClearGraph
    BY <2>4 DEF ClearGraph, AuthorityInvariant
  <2>5. CASE TimePasses
    BY <2>5, GraphsAssumption DEF TimePasses, AuthorityInvariant
  <2> QED
    BY <2>1, <2>2, <2>3, <2>4, <2>5 DEF OagNext
<1> QED
  BY <1>1, <1>2, PTL DEF AuthoritySpec

(* The shape of the graph held and of the proofs issued.                   *)
THEOREM AuthorityTyped == AuthoritySpec => []AuthorityTypeOK
<1>1. AuthorityInvariant => AuthorityTypeOK
  BY DEF AuthorityInvariant, AuthorityTypeOK, Held
<1> QED
  BY <1>1, AuthorityInvariantHolds, PTL

(* A proof names one whose authority reached the actor when it was issued, *)
(* whatever graphs are set, replaced and cleared and whatever instant the  *)
(* asker says it is.                                                       *)
THEOREM ProofsAreBacked == AuthoritySpec => []ProofsBacked
<1>1. AuthorityInvariant => ProofsBacked
  BY DEF AuthorityInvariant, ProofsBacked, Backed
<1> QED
  BY <1>1, AuthorityInvariantHolds, PTL

----------------------------------------------------------------------------
(* The emergence of governance.                                            *)

EmergenceSpec == EmergenceInit /\ [][EmergenceNext]_emergenceVars

ConstitutionalPressure == "CONSTITUTIONAL_PRESSURE"

KnownPressures ==
  {"CONSTITUTIONAL_PRESSURE", "IMPROVEMENT_PRESSURE", "DELEGATION_PRESSURE",
   "AI_GOVERNANCE_PRESSURE", "EXECUTION_PRESSURE", "ADVISORY_PRESSURE"}

(* A cycle, recorded or to be recorded: a constitutional pressure it saw   *)
(* dominates it.                                                           *)
CycleStands(x) ==
  /\ x.issued_at \in 1..clock
  /\ x.confidence \in 0..1000
  /\ x.pressures \subseteq KnownPressures
  /\ ConstitutionalPressure \in x.pressures => x.dominantPressure = ConstitutionalPressure

CognitiveCounts ==
  /\ cognitive = [entries |-> cognitive.entries, recurring |-> cognitive.recurring,
                  dependency |-> cognitive.dependency, shadow |-> cognitive.shadow]
  /\ cognitive.entries \in 0..MaxEntries
  /\ \A count \in {"recurring", "dependency", "shadow"} :
       cognitive[count] \in 0..cognitive.entries

Sorted(memory) ==
  \A i, j \in DOMAIN memory : i < j => memory[i].issued_at < memory[j].issued_at

CyclesStand ==
  /\ cycle = [c \in Cycles |-> cycle[c]]
  /\ \A c \in Cycles : \E k : k = cycle[c] /\ (k = Nothing \/ CycleStands(k))

(* No two cycles were issued at once.                                      *)
IssuedApart ==
  \A c \in Cycles : cycle[c] # Nothing =>
    /\ \A x \in Recorded : x.issued_at # cycle[c].issued_at
    /\ \A d \in Cycles \ {c} : cycle[d] # Nothing => cycle[d].issued_at # cycle[c].issued_at

EmergenceInvariant ==
  /\ authority \in AuthorityLevel
  /\ clock \in 0..MaxCycles
  /\ CognitiveCounts
  /\ emergenceMemory \in Seq(Recorded)
  /\ \A x \in Recorded : CycleStands(x)
  /\ Sorted(emergenceMemory)
  /\ CyclesStand
  /\ IssuedApart
  /\ ConstitutionalNotForgotten

(* Scores.                                                                 *)

(* A score that is clamped is one in thousandths.                          *)
LEMMA ClampBounds == \A n \in Int : Clamp(n) \in 0..1000
BY DEF Clamp

(* The parts scores are made of are whole.                                 *)
LEMMA ScoresWhole ==
  /\ \A n \in Int : Normalize(n, 5) \in Int /\ Normalize(n, 10) \in Int /\ Normalize(n, 20) \in Int
  /\ \A x, y \in Int : /\ Weighted(5, x, 5, y) \in Int /\ Weighted(6, x, 4, y) \in Int
                       /\ Weighted(7, x, 3, y) \in Int /\ Weighted(4, x, 6, y) \in Int
<1>1. \A n \in Int : (n * 1000) \div 5 \in Int /\ (n * 1000) \div 10 \in Int
                     /\ (n * 1000) \div 20 \in Int
  OBVIOUS
<1>2. \A x, y \in Int : /\ (5 * x + 5 * y) \div 10 \in Int /\ (6 * x + 4 * y) \div 10 \in Int
                        /\ (7 * x + 3 * y) \div 10 \in Int /\ (4 * x + 6 * y) \div 10 \in Int
  OBVIOUS
<1>3. \A n \in Int : Clamp(n) \in Int
  <2> TAKE n \in Int
  <2>1. Clamp(n) \in 0..1000
    BY ClampBounds
  <2> QED
    BY <2>1
<1> QED
  BY <1>1, <1>2, <1>3 DEF Normalize, Weighted

(* The confidence of five candidates is the whole average of those         *)
(* present.                                                                *)
LEMMA AverageWhole ==
  ASSUME NEW five, \A k \in 1..5 : five[k].confidence \in Int
  PROVE  Average(five) \in Int
<1> DEFINE Score(k) == IF five[k].present THEN five[k].confidence ELSE 0
<1>1. There(five) \in SUBSET (1..5)
  BY DEF There
<1>2. IsFiniteSet(1..5)
  <2>1. 1 \in Int /\ 5 \in Int
    OBVIOUS
  <2> QED
    BY <2>1, FS_Interval
<1>3. PICK n : n = Cardinality(There(five)) /\ n \in Nat
  BY <1>1, <1>2, FS_Subset, FS_CardinalityType
<1>4. /\ Score(1) \in Int /\ Score(2) \in Int /\ Score(3) \in Int
      /\ Score(4) \in Int /\ Score(5) \in Int
  OBVIOUS
<1> HIDE DEF Score
<1>5. PICK sum : sum = Score(1) + Score(2) + Score(3) + Score(4) + Score(5) /\ sum \in Int
  BY <1>4
<1>6. Average(five) = IF n = 0 THEN 0 ELSE sum \div n
  BY <1>3, <1>5 DEF Average, Score
<1>7. n # 0 => sum \div n \in Int
  BY <1>3, <1>5
<1> QED
  BY <1>6, <1>7

(* What is observed of a workflow has a whole confidence.                  *)
LEMMA ObservationWhole ==
  ASSUME NEW e \in WorkflowEvidence
  PROVE  observeCognitiveWorkflows(e).confidence \in Int
<1>1. /\ e.promptPatterns \in Int /\ e.prompts \in Int /\ e.artifacts \in Int
      /\ e.instructions \in Int /\ e.recoveries \in Int /\ e.reconciliations \in Int
      /\ e.dependencyRate \in Int /\ e.tools \in Int
  BY DEF WorkflowEvidence
<1>2. Flag(e.slowdown) \in Int /\ Flag(e.shadow) \in Int
  BY DEF Flag
<1>3. \A k \in 1..5 : Observed(e)[k].confidence \in Int
  <2>1. Observed(e)[1].confidence \in Int
    BY <1>1, ScoresWhole DEF Observed
  <2>2. Observed(e)[2].confidence \in Int
    BY <1>1, ScoresWhole DEF Observed
  <2>3. Observed(e)[3].confidence \in Int
    BY <1>1, ScoresWhole DEF Observed
  <2>4. Observed(e)[4].confidence \in Int
    BY <1>1, <1>2, ScoresWhole DEF Observed
  <2>5. Observed(e)[5].confidence \in Int
    BY <1>1, <1>2, ScoresWhole DEF Observed
  <2> QED
    BY <2>1, <2>2, <2>3, <2>4, <2>5
<1> QED
  BY <1>3, AverageWhole DEF observeCognitiveWorkflows

(* A bridge has a whole confidence and signals known pressures.            *)
LEMMA BridgeKnown ==
  ASSUME NEW o, o.confidence \in Int,
         NEW memory, memory.recurring \in Int, memory.dependency \in Int, memory.shadow \in Int
  PROVE  /\ buildCognitiveGovernanceBridge(o, memory).confidence \in Int
         /\ \A s \in buildCognitiveGovernanceBridge(o, memory).signals :
              s.pressure \in KnownPressures
<1> PICK m : m = buildMemorySnapshot(memory)
  OBVIOUS
<1> PICK recurring, dependency, shadow \in Int :
      /\ recurring = Normalize(memory.recurring, 10)
      /\ dependency = Normalize(memory.dependency, 10)
      /\ shadow = Normalize(memory.shadow, 10)
  BY ScoresWhole
<1> PICK stability \in Int :
      stability = IF memory.recurring >= 3 THEN 800 ELSE recurring \div 2
  OBVIOUS
<1>1. /\ m.recurring = recurring /\ m.dependency = dependency /\ m.shadow = shadow
      /\ m.stability = stability
      /\ m.cross = (6 * dependency + 4 * recurring) \div 10
      /\ m.maturity = (4 * stability + 3 * dependency + 3 * shadow) \div 10
  BY DEF buildMemorySnapshot
<1>2. m.cross \in Int /\ m.maturity \in Int
  <2>1. (6 * dependency + 4 * recurring) \div 10 \in Int
        /\ (4 * stability + 3 * dependency + 3 * shadow) \div 10 \in Int
    OBVIOUS
  <2> QED
    BY <1>1, <2>1
<1> PICK five : five = BridgeSignals(o, m)
  OBVIOUS
<1>3. \A k \in 1..5 : five[k].confidence \in Int /\ five[k].pressure \in KnownPressures
  <2>1. five[1].confidence \in Int /\ five[1].pressure \in KnownPressures
    BY <1>1, ScoresWhole DEF BridgeSignals, KnownPressures
  <2>2. five[2].confidence \in Int /\ five[2].pressure \in KnownPressures
    BY <1>1, ScoresWhole DEF BridgeSignals, KnownPressures
  <2>3. five[3].confidence \in Int /\ five[3].pressure \in KnownPressures
    BY <1>1, ScoresWhole DEF BridgeSignals, KnownPressures
  <2>4. five[4].confidence \in Int /\ five[4].pressure \in KnownPressures
    BY <1>2 DEF BridgeSignals, KnownPressures
  <2>5. five[5].confidence \in Int /\ five[5].pressure \in KnownPressures
    BY <1>2, ScoresWhole DEF BridgeSignals, KnownPressures
  <2> QED
    BY <2>1, <2>2, <2>3, <2>4, <2>5
<1>4. Average(five) \in Int
  BY <1>3, AverageWhole
<1>5. \A s \in Present(five) : s.pressure \in KnownPressures
  BY <1>3 DEF Present, There
<1> QED
  BY <1>4, <1>5 DEF buildCognitiveGovernanceBridge

(* A cycle with no bridge adds nothing to what its evidence shows.         *)
LEMMA NoBridgeKnown ==
  NoBridge.confidence \in Int /\ (\A s \in NoBridge.signals : s.pressure \in KnownPressures)
BY DEF NoBridge

(* A constitutional pressure dominates all others.                         *)
LEMMA ConstitutionalDominates ==
  ASSUME NEW signals, ConstitutionalPressure \in Pressures(signals)
  PROVE  resolveDominantPressure(signals) = ConstitutionalPressure
<1> DEFINE held == {k \in DOMAIN DominanceOrder : DominanceOrder[k] \in Pressures(signals)}
<1>1. DOMAIN DominanceOrder = 1..6 /\ DominanceOrder[1] = ConstitutionalPressure
  BY DEF DominanceOrder, ConstitutionalPressure
<1>2. held \in SUBSET Nat /\ 1 \in held /\ (\A k \in held : 1 <= k)
  BY <1>1
<1>3. signals # {}
  BY DEF Pressures
<1>4. resolveDominantPressure(signals) = DominanceOrder[Min(held)]
  BY <1>3 DEF resolveDominantPressure
<1> HIDE DEF held
<1>5. PICK least : least = Min(held) /\ least \in held /\ least <= 1
  BY <1>2, MinIsLeast
<1>6. least = 1
  <2>1. least \in Nat /\ 1 <= least
    BY <1>2, <1>5
  <2> QED
    BY <1>5, <2>1
<1> QED
  BY <1>1, <1>4, <1>5, <1>6

(* What a cycle states of itself: a whole confidence, known pressures, and *)
(* a constitutional one, from its evidence or the bridge, dominating.      *)
LEMMA EmergenceKnown ==
  ASSUME NEW level, NEW timeline, NEW e, e.confidence \in Nat,
         NEW bridge, bridge.confidence \in Int,
         \A s \in bridge.signals : s.pressure \in KnownPressures,
         NEW emergence, emergence = evaluateGovernanceEmergence(level, timeline, e, bridge)
  PROVE  /\ emergence.confidence \in 0..1000
         /\ Pressures(emergence.pressures) \subseteq KnownPressures
         /\ ConstitutionalPressure \in Pressures(emergence.pressures) =>
              emergence.dominantPressure = ConstitutionalPressure
<1> PICK signals : signals = EmergenceSignals(e, bridge)
  OBVIOUS
<1>1. /\ emergence.pressures = dedupePressures(signals)
      /\ emergence.dominantPressure = resolveDominantPressure(signals)
      /\ emergence.confidence = computeGovernanceConfidence(e, bridge)
  BY DEF evaluateGovernanceEmergence
<1>2. emergence.confidence \in 0..1000
  <2>1. e.confidence + (15 * bridge.confidence) \div 100 \in Int
    OBVIOUS
  <2> QED
    BY <1>1, <2>1, ClampBounds DEF computeGovernanceConfidence
<1>3. \A s \in mapCognitiveBridgeToEmergenceSignals(bridge) : s.pressure \in KnownPressures
  BY DEF mapCognitiveBridgeToEmergenceSignals, Signal
<1>4. \A s \in evaluateAiGovernancePressure(e) \union evaluateAdvisoryPressure(e)
            \union evaluateExecutionPressure(e) : s.pressure \in KnownPressures
  BY DEF evaluateAiGovernancePressure, evaluateAdvisoryPressure, evaluateExecutionPressure,
     Signal, KnownPressures
<1>5. \A s \in evaluateDelegationPressure(e) \union evaluateImprovementPressure(e)
            \union evaluateConstitutionalPressure(e) : s.pressure \in KnownPressures
  BY DEF evaluateDelegationPressure, evaluateImprovementPressure, evaluateConstitutionalPressure,
     Signal, KnownPressures
<1>6. \A s \in signals : s.pressure \in KnownPressures
  BY <1>3, <1>4, <1>5 DEF EmergenceSignals
<1>7. Pressures(emergence.pressures) \subseteq Pressures(signals)
  BY <1>1 DEF Pressures, dedupePressures
<1>8. Pressures(signals) \subseteq KnownPressures
  BY <1>6 DEF Pressures
<1> QED
  BY <1>1, <1>2, <1>7, <1>8, ConstitutionalDominates

(* The timeline tells of a constitutional pressure exactly when it         *)
(* dominated a recorded cycle.                                             *)
LEMMA TimelineTells ==
  ASSUME NEW memory, NEW n \in Nat, DOMAIN memory = 1..n,
         NEW timeline, timeline = buildGovernanceEmergenceTimeline(memory)
  PROVE  /\ timeline.constitutionalPressureDetected <=>
              \E k \in 1..n : memory[k].dominantPressure = ConstitutionalPressure
         /\ timeline # NoTimeline
<1> DEFINE such == {j \in DOMAIN memory : memory[j].dominantPressure = ConstitutionalPressure}
<1>1. such \in SUBSET (1..n) /\ IsFiniteSet(1..n)
  BY FS_Interval
<1>2. timeline.constitutionalPressureDetected = (Cardinality(such) > 0)
  <2>1. timeline.constitutionalPressureDetected =
          (Frequency(memory, "CONSTITUTIONAL_PRESSURE") > 0)
    BY DEF buildGovernanceEmergenceTimeline
  <2>2. Frequency(memory, "CONSTITUTIONAL_PRESSURE") = Cardinality(such)
    BY DEF Frequency, ConstitutionalPressure
  <2> QED
    BY <2>1, <2>2
<1>3. such = {} <=> ~\E k \in 1..n : memory[k].dominantPressure = ConstitutionalPressure
  OBVIOUS
<1> HIDE DEF such
<1>4. Cardinality(such) \in Nat /\ (Cardinality(such) = 0 <=> such = {})
  BY <1>1, FS_Subset, FS_CardinalityType, FS_EmptySet
<1>5. timeline.constitutionalPressureDetected <=> such # {}
  <2>1. Cardinality(such) > 0 <=> such # {}
    BY <1>4
  <2> QED
    BY <1>2, <2>1, Zenon
<1>6. timeline # NoTimeline
  <2>1. timeline.governanceConfidenceTrend = resolveConfidenceTrend(memory)
    BY DEF buildGovernanceEmergenceTimeline
  <2>2. resolveConfidenceTrend(memory) \in {"STABLE", "INCREASING", "DECREASING"}
    BY DEF resolveConfidenceTrend
  <2>3. NoTimeline.governanceConfidenceTrend = "UNKNOWN"
    BY DEF NoTimeline
  <2> QED
    BY <2>1, <2>2, <2>3
<1> QED
  BY <1>3, <1>5, <1>6

(* A charter review is what the timeline tells of, and nothing else.       *)
LEMMA CharterReviewed ==
  ASSUME NEW level, NEW timeline, NEW e, NEW bridge,
         timeline.constitutionalPressureDetected \in BOOLEAN,
         NEW emergence, emergence = evaluateGovernanceEmergence(level, timeline, e, bridge)
  PROVE  emergence.review = "CHARTER_REVIEW" <=>
           timeline # NoTimeline /\ timeline.constitutionalPressureDetected
<1>1. emergence.review = IF timeline = NoTimeline THEN Undefined
                         ELSE evaluateGovernanceReview(level, timeline)
  BY DEF evaluateGovernanceEmergence
<1>2. evaluateGovernanceReview(level, timeline) = "CHARTER_REVIEW" <=>
        timeline.constitutionalPressureDetected
  BY DEF evaluateGovernanceReview
<1> QED
  BY <1>1, <1>2 DEF Undefined

(* What is stated of a review or a dominating pressure: the posture        *)
(* follows either of them, whatever the caller hands over for the other.   *)
LEMMA PostureTaken ==
  ASSUME NEW emergence, NEW bridge, NEW override,
         NEW runtime, runtime = integrateGovernanceRuntime(emergence, bridge, override)
  PROVE  /\ override = Undefined /\ emergence.review = "CHARTER_REVIEW" =>
              /\ runtime.review = "CHARTER_REVIEW"
              /\ runtime.posture = "CONSTITUTIONAL_REVIEW_REQUIRED"
         /\ emergence.dominantPressure = ConstitutionalPressure =>
              runtime.posture = "CONSTITUTIONAL_REVIEW_REQUIRED"
<1> PICK review, risk : /\ review = IF override # Undefined THEN override ELSE emergence.review
                       /\ risk = resolveConstitutionalRisk(bridge, emergence)
  OBVIOUS
<1>1. /\ runtime.review = IF review = Undefined THEN "NONE" ELSE review
      /\ runtime.posture = resolveRuntimePosture(emergence, risk, bridge, review)
  BY DEF integrateGovernanceRuntime
<1>2. review = "CHARTER_REVIEW" \/ emergence.dominantPressure = ConstitutionalPressure =>
        resolveRuntimePosture(emergence, risk, bridge, review) = "CONSTITUTIONAL_REVIEW_REQUIRED"
  BY DEF resolveRuntimePosture, ConstitutionalPressure
<1> QED
  BY <1>1, <1>2 DEF Undefined

(* A record takes its place in a sorted memory: all before it were issued  *)
(* earlier and all after it later.                                         *)
LEMMA PlaceKnown ==
  ASSUME NEW S, NEW M \in Seq(S), NEW x, x.issued_at \in Nat,
         \A y \in S : y.issued_at \in Nat /\ y.issued_at # x.issued_at, Sorted(M),
         NEW n, n = Len(M), NEW place, place = PlaceOf(M, x)
  PROVE  /\ n \in Nat /\ place \in 1..(n + 1)
         /\ \A k \in 1..n : /\ M[k] \in S
                            /\ k < place => M[k].issued_at < x.issued_at
                            /\ k >= place => x.issued_at < M[k].issued_at
<1> DEFINE later == {n + 1} \union {k \in DOMAIN M : M[k].issued_at > x.issued_at}
<1>1. n \in Nat /\ DOMAIN M = 1..n /\ (\A k \in 1..n : M[k] \in S)
  OBVIOUS
<1>2. later \in SUBSET Nat /\ later # {} /\ later \subseteq 1..(n + 1) /\ n + 1 \in later
  BY <1>1
<1>3. place = Min(later)
  BY DEF PlaceOf
<1>4. \A k \in 1..n : M[k].issued_at \in Nat /\ (k \in later <=> M[k].issued_at > x.issued_at)
  BY <1>1
<1> HIDE DEF later
<1>5. place \in later /\ (\A k \in later : place <= k)
  BY <1>2, <1>3, MinIsLeast
<1>6. place \in 1..(n + 1)
  BY <1>2, <1>5
<1>7. ASSUME NEW k \in 1..n, k < place PROVE M[k].issued_at < x.issued_at
  <2>1. k \notin later
    BY <1>1, <1>5, <1>6, <1>7
  <2>2. ~(M[k].issued_at > x.issued_at) /\ M[k].issued_at # x.issued_at /\ M[k].issued_at \in Nat
    BY <1>1, <1>4, <2>1
  <2> QED
    BY <2>2
<1>8. ASSUME NEW k \in 1..n, k >= place PROVE x.issued_at < M[k].issued_at
  <2>1. place \in 1..n /\ M[place].issued_at > x.issued_at /\ M[place].issued_at \in Nat
    BY <1>1, <1>4, <1>5, <1>6, <1>8
  <2>2. k = place \/ M[place].issued_at < M[k].issued_at
    BY <1>1, <1>8, <2>1 DEF Sorted
  <2> QED
    BY <1>4, <2>1, <2>2
<1> QED
  BY <1>1, <1>6, <1>7, <1>8

Members(memory) == {memory[k] : k \in DOMAIN memory}

(* A record is added to a sorted memory, which stays sorted.               *)
LEMMA InsertedInOrder ==
  ASSUME NEW S, NEW M \in Seq(S), NEW x, x.issued_at \in Nat,
         \A y \in S : y.issued_at \in Nat /\ y.issued_at # x.issued_at, Sorted(M),
         NEW N, N = appendGovernanceEmergenceMemory(M, x)
  PROVE  /\ N \in Seq(S \union {x}) /\ Sorted(N)
         /\ Members(N) = Members(M) \union {x}
<1> PICK n, place : n = Len(M) /\ place = PlaceOf(M, x)
  OBVIOUS
<1>1. /\ n \in Nat /\ place \in 1..(n + 1) /\ DOMAIN M = 1..n
      /\ \A k \in 1..n : /\ M[k] \in S
                         /\ k < place => M[k].issued_at < x.issued_at
                         /\ k >= place => x.issued_at < M[k].issued_at
  BY PlaceKnown
<1>2. N = [k \in 1..(n + 1) |->
             IF k < place THEN M[k] ELSE IF k = place THEN x ELSE M[k - 1]]
  BY DEF appendGovernanceEmergenceMemory
<1>3. DOMAIN N = 1..(n + 1) /\ N[place] = x
  BY <1>1, <1>2
<1>4. \A k \in 1..n : k < place => k \in 1..(n + 1) /\ N[k] = M[k]
  BY <1>1, <1>2
<1>5. \A k \in 1..n : k >= place => k + 1 \in 1..(n + 1) /\ N[k + 1] = M[k]
  <2> TAKE k \in 1..n
  <2> HAVE k >= place
  <2>1. k + 1 \in 1..(n + 1) /\ ~(k + 1 < place) /\ k + 1 # place /\ (k + 1) - 1 = k
    BY <1>1
  <2> QED
    BY <1>2, <2>1
<1>6. \A j \in 1..(n + 1) : \/ j < place /\ j \in 1..n /\ N[j] = M[j]
                            \/ j = place /\ N[j] = x
                            \/ j > place /\ j - 1 \in 1..n /\ j - 1 >= place /\ N[j] = M[j - 1]
  <2> TAKE j \in 1..(n + 1)
  <2>1. CASE j < place
    BY <1>1, <1>2, <2>1
  <2>2. CASE j = place
    BY <1>3, <2>2
  <2>3. CASE j > place
    <3>1. j - 1 \in 1..n /\ j - 1 >= place
      BY <1>1, <2>3
    <3> QED
      BY <1>1, <1>2, <2>3, <3>1
  <2> QED
    BY <1>1, <2>1, <2>2, <2>3
<1>7. Members(N) = Members(M) \union {x}
  <2>1. ASSUME NEW k \in 1..(n + 1) PROVE N[k] \in {M[j] : j \in 1..n} \union {x}
    BY <1>6
  <2>2. ASSUME NEW k \in 1..n PROVE \E j \in 1..(n + 1) : N[j] = M[k]
    <3>1. CASE k < place
      BY <1>4, <3>1
    <3>2. CASE k >= place
      BY <1>5, <3>2
    <3> QED
      BY <1>1, <3>1, <3>2
  <2> DEFINE new == {N[k] : k \in 1..(n + 1)}
             old == {M[k] : k \in 1..n}
  <2>3. new \subseteq old \union {x}
    BY <2>1
  <2>4. old \subseteq new
    BY <2>2
  <2>5. x \in new
    BY <1>1, <1>3
  <2>6. new = old \union {x}
    BY <2>3, <2>4, <2>5
  <2> QED
    BY <1>1, <1>3, <2>6 DEF Members
<1>8. N \in Seq(S \union {x})
  <2>1. \A k \in 1..(n + 1) : N[k] \in S \union {x}
    BY <1>1, <1>6
  <2>2. N \in [1..(n + 1) -> S \union {x}] /\ n + 1 \in Nat
    BY <1>1, <1>2, <2>1
  <2> QED
    BY <2>2
<1>9. Sorted(N)
  <2> SUFFICES ASSUME NEW i \in 1..(n + 1), NEW j \in 1..(n + 1), i < j
               PROVE  N[i].issued_at < N[j].issued_at
    BY <1>3 DEF Sorted
  <2>1. CASE i < place /\ j < place
    <3>1. i \in 1..n /\ j \in 1..n /\ N[i] = M[i] /\ N[j] = M[j]
      BY <1>1, <1>6, <2>1
    <3> QED
      BY <1>1, <3>1 DEF Sorted
  <2>2. CASE i < place /\ j = place
    <3>1. i \in 1..n /\ N[i] = M[i] /\ N[j] = x
      BY <1>1, <1>6, <2>2
    <3> QED
      BY <1>1, <2>2, <3>1
  <2>3. CASE i < place /\ j > place
    <3>1. /\ i \in 1..n /\ N[i] = M[i] /\ j - 1 \in 1..n /\ j - 1 >= place /\ N[j] = M[j - 1]
          /\ i < j - 1
      BY <1>1, <1>6, <2>3
    <3> QED
      BY <1>1, <3>1 DEF Sorted
  <2>4. CASE i = place /\ j > place
    <3>1. j - 1 \in 1..n /\ j - 1 >= place /\ N[i] = x /\ N[j] = M[j - 1]
      BY <1>1, <1>6, <2>4
    <3> QED
      BY <1>1, <3>1
  <2>5. CASE i > place /\ j > place
    <3>1. /\ i - 1 \in 1..n /\ N[i] = M[i - 1] /\ j - 1 \in 1..n /\ N[j] = M[j - 1]
          /\ i - 1 < j - 1
      BY <1>1, <1>6, <2>5
    <3> QED
      BY <1>1, <3>1 DEF Sorted
  <2> QED
    BY <1>1, <2>1, <2>2, <2>3, <2>4, <2>5
<1> QED
  BY <1>7, <1>8, <1>9

(* Nothing is remembered at the beginning.                                 *)
LEMMA EmergenceBegins == EmergenceInit => EmergenceInvariant
<1> SUFFICES ASSUME EmergenceInit PROVE EmergenceInvariant
  OBVIOUS
<1>1. Recorded = {} /\ emergenceMemory \in Seq(Recorded) /\ Sorted(emergenceMemory)
  BY DEF EmergenceInit, Recorded, Sorted
<1>2. CognitiveCounts
  BY EmergenceBounds DEF EmergenceInit, CognitiveCounts
<1>3. authority \in AuthorityLevel /\ clock \in 0..MaxCycles
  BY EmergenceBounds DEF EmergenceInit
<1>4. CyclesStand /\ IssuedApart
  BY DEF EmergenceInit, CyclesStand, IssuedApart
<1>5. ConstitutionalNotForgotten
  BY DEF EmergenceInit, ConstitutionalNotForgotten
<1> QED
  BY <1>1, <1>2, <1>3, <1>4, <1>5 DEF EmergenceInvariant

(* A cycle stands as time goes on.                                         *)
LEMMA TimeKeeps ==
  ASSUME clock \in Nat, clock' \in {clock, clock + 1}
  PROVE  \A k : CycleStands(k) => CycleStands(k)'
BY DEF CycleStands

(* A workflow is observed.                                                 *)
LEMMA ObserveKeeps ==
  ASSUME EmergenceInvariant, NEW e \in Workflows, Observe(e)
  PROVE  EmergenceInvariant'
<1>1. UNCHANGED <<authority, emergenceMemory, cycle, clock, latest>>
  BY DEF Observe
<1>2. CognitiveCounts'
  <2>1. /\ cognitive' = Remembered(cognitive, observeCognitiveWorkflows(e))
        /\ cognitive.entries < MaxEntries
    BY DEF Observe
  <2>2. \A b : Count(b) \in 0..1
    BY DEF Count
  <2>3. CognitiveCounts
    BY DEF EmergenceInvariant
  <2>4. PICK a, b, c \in 0..1 : cognitive' =
          [entries |-> cognitive.entries + 1, recurring |-> cognitive.recurring + a,
           dependency |-> cognitive.dependency + b, shadow |-> cognitive.shadow + c]
    BY <2>1, <2>2 DEF Remembered
  <2>5. /\ cognitive.recurring \in 0..cognitive.entries
        /\ cognitive.dependency \in 0..cognitive.entries
        /\ cognitive.shadow \in 0..cognitive.entries
    BY <2>3 DEF CognitiveCounts
  <2>6. cognitive'.entries \in 0..MaxEntries
    BY <2>1, <2>3, <2>4, EmergenceBounds DEF CognitiveCounts
  <2> QED
    BY <2>3, <2>4, <2>5, <2>6, EmergenceBounds DEF CognitiveCounts
<1>3. Recorded' = Recorded
  BY <1>1 DEF Recorded
<1> QED
  BY <1>1, <1>2, <1>3 DEF EmergenceInvariant, CycleStands, CyclesStand, IssuedApart,
     ConstitutionalNotForgotten, SawConstitutional

(* A cycle begins: it is later than all others.                            *)
LEMMA BeginKeeps ==
  ASSUME EmergenceInvariant, NEW c \in Cycles, NEW e \in Evidence, NEW timed \in BOOLEAN,
         NEW override, Begin(c, e, timed, override)
  PROVE  EmergenceInvariant'
<1>1. /\ clock' = clock + 1 /\ clock \in Nat /\ clock' \in 0..MaxCycles
      /\ UNCHANGED <<authority, cognitive, emergenceMemory>>
  BY EmergenceBounds DEF Begin, EmergenceInvariant
<1> PICK bridge : bridge = IF e.workflow = NoWorkflow THEN NoBridge
      ELSE buildCognitiveGovernanceBridge(observeCognitiveWorkflows(e.workflow), cognitive)
  OBVIOUS
<1> PICK timeline : timeline = IF timed THEN buildGovernanceEmergenceTimeline(emergenceMemory)
                               ELSE NoTimeline
  OBVIOUS
<1> PICK emergence :
      emergence = evaluateGovernanceEmergence(authority, timeline, e, bridge)
  OBVIOUS
<1> PICK runtime : runtime = integrateGovernanceRuntime(emergence, bridge, override)
  OBVIOUS
<1> PICK new : new =
      [issued_at |-> clock + 1, dominantPressure |-> emergence.dominantPressure,
       confidence |-> emergence.confidence, pressures |-> Pressures(emergence.pressures)]
  OBVIOUS
<1>2. /\ cycle' = [cycle EXCEPT ![c] = new]
      /\ latest' = [pc |-> "stated", timed |-> timed, override |-> override,
                    found |-> emergence.review,
                    alarmed |-> "CONSTITUTIONAL_PRESSURE" \in Pressures(emergence.pressures),
                    posture |-> runtime.posture, review |-> runtime.review]
  BY <1>1 DEF Begin
<1>3. bridge.confidence \in Int /\ (\A s \in bridge.signals : s.pressure \in KnownPressures)
  <2>1. CASE e.workflow = NoWorkflow
    BY <2>1, NoBridgeKnown
  <2>2. CASE e.workflow # NoWorkflow
    <3>1. e.workflow \in WorkflowEvidence
      BY <2>2, EvidenceAssumption
    <3>2. observeCognitiveWorkflows(e.workflow).confidence \in Int
      BY <3>1, ObservationWhole
    <3>3. cognitive.recurring \in Int /\ cognitive.dependency \in Int /\ cognitive.shadow \in Int
      BY DEF EmergenceInvariant, CognitiveCounts
    <3> QED
      BY <2>2, <3>2, <3>3, BridgeKnown
  <2> QED
    BY <2>1, <2>2
<1>4. /\ emergence.confidence \in 0..1000
      /\ Pressures(emergence.pressures) \subseteq KnownPressures
      /\ ConstitutionalPressure \in Pressures(emergence.pressures) =>
           emergence.dominantPressure = ConstitutionalPressure
  <2>1. e.confidence \in Nat
    BY EvidenceAssumption
  <2>2. PICK level : level = authority
    OBVIOUS
  <2>3. emergence = evaluateGovernanceEmergence(level, timeline, e, bridge)
    BY <2>2
  <2> QED
    BY <1>3, <2>1, <2>3, EmergenceKnown
<1>5. CycleStands(new)' /\ new.issued_at = clock + 1
  <2>1. /\ new.issued_at = clock + 1 /\ new.confidence = emergence.confidence
        /\ new.pressures = Pressures(emergence.pressures)
        /\ new.dominantPressure = emergence.dominantPressure
    OBVIOUS
  <2>2. new.issued_at \in 1..clock'
    BY <1>1, <2>1
  <2> QED
    BY <1>4, <2>1, <2>2 DEF CycleStands
<1>6. /\ cycle'[c] = new /\ (\A d \in Cycles : d # c => cycle'[d] = cycle[d])
      /\ cycle' = [d \in Cycles |-> cycle'[d]]
  BY <1>2 DEF EmergenceInvariant, CyclesStand
<1>7. Recorded' = Recorded /\ (\A x \in Recorded : CycleStands(x)')
  BY <1>1, TimeKeeps DEF Recorded, EmergenceInvariant
<1>8. CyclesStand'
  <2>1. ASSUME NEW d \in Cycles
        PROVE  \E k : k = cycle'[d] /\ (k = Nothing \/ CycleStands(k)')
    <3>1. CASE d = c
      BY <1>5, <1>6, <3>1
    <3>2. CASE d # c
      <4>1. PICK k : k = cycle[d] /\ (k = Nothing \/ CycleStands(k))
        BY DEF EmergenceInvariant, CyclesStand
      <4> QED
        BY <1>1, <1>6, <3>2, <4>1, TimeKeeps
    <3> QED
      BY <3>1, <3>2
  <2> QED
    BY <1>6, <2>1 DEF CyclesStand
<1>9. IssuedApart'
  <2>1. \A x \in Recorded : x.issued_at # clock + 1
    BY <1>1 DEF EmergenceInvariant, CycleStands
  <2>2. ASSUME NEW d \in Cycles, d # c, cycle[d] # Nothing PROVE cycle[d].issued_at # clock + 1
    <3>1. PICK k : k = cycle[d] /\ CycleStands(k)
      BY <2>2 DEF EmergenceInvariant, CyclesStand
    <3> QED
      BY <1>1, <3>1 DEF CycleStands
  <2> QED
    BY <1>5, <1>6, <1>7, <2>1, <2>2 DEF IssuedApart, EmergenceInvariant
<1>10. ConstitutionalNotForgotten'
  <2>1. PICK memory, n : memory = emergenceMemory /\ n = Len(memory) /\ n \in Nat
                         /\ DOMAIN memory = 1..n
    BY DEF EmergenceInvariant
  <2>2. Recorded = {memory[k] : k \in 1..n}
    BY <2>1 DEF Recorded
  <2>3. timeline = IF timed THEN buildGovernanceEmergenceTimeline(memory) ELSE NoTimeline
    BY <2>1
  <2>4. /\ timed => timeline # NoTimeline
        /\ timed => (timeline.constitutionalPressureDetected <=>
                       \E k \in 1..n : memory[k].dominantPressure = ConstitutionalPressure)
        /\ ~timed => timeline = NoTimeline
        /\ timeline.constitutionalPressureDetected \in BOOLEAN
    <3>1. CASE timed
      <4>1. timeline = buildGovernanceEmergenceTimeline(memory)
        BY <2>3, <3>1
      <4>2. timeline.constitutionalPressureDetected \in BOOLEAN
        <5>1. timeline.constitutionalPressureDetected =
                (Frequency(memory, "CONSTITUTIONAL_PRESSURE") > 0)
          BY <4>1 DEF buildGovernanceEmergenceTimeline
        <5>2. (Frequency(memory, "CONSTITUTIONAL_PRESSURE") > 0) \in BOOLEAN
          OBVIOUS
        <5> QED
          BY <5>1, <5>2, Zenon
      <4> QED
        BY <2>1, <3>1, <4>1, <4>2, TimelineTells
    <3>2. CASE ~timed
      BY <2>3, <3>2 DEF NoTimeline
    <3> QED
      BY <3>1, <3>2
  <2>5. emergence.review = "CHARTER_REVIEW" <=>
          timed /\ \E x \in Recorded : x.dominantPressure = ConstitutionalPressure
    <3>1. PICK level : level = authority
      OBVIOUS
    <3>2. emergence = evaluateGovernanceEmergence(level, timeline, e, bridge)
      BY <3>1
    <3> QED
      BY <2>2, <2>4, <3>2, CharterReviewed
  <2>6. \A x \in Recorded : SawConstitutional(x) => x.dominantPressure = ConstitutionalPressure
    BY DEF EmergenceInvariant, CycleStands, SawConstitutional, ConstitutionalPressure
  <2>7. /\ latest'.timed = timed /\ latest'.override = override
        /\ latest'.found = emergence.review
        /\ latest'.alarmed = (ConstitutionalPressure \in Pressures(emergence.pressures))
        /\ latest'.posture = runtime.posture /\ latest'.review = runtime.review
    BY <1>2 DEF ConstitutionalPressure
  <2>8. /\ override = Undefined /\ emergence.review = "CHARTER_REVIEW" =>
             /\ runtime.review = "CHARTER_REVIEW"
             /\ runtime.posture = "CONSTITUTIONAL_REVIEW_REQUIRED"
        /\ emergence.dominantPressure = ConstitutionalPressure =>
             runtime.posture = "CONSTITUTIONAL_REVIEW_REQUIRED"
    BY PostureTaken
  <2>9. latest'.timed /\ (\E x \in Recorded : SawConstitutional(x)) =>
          /\ latest'.found = "CHARTER_REVIEW"
          /\ latest'.override = Undefined =>
               /\ latest'.review = "CHARTER_REVIEW"
               /\ latest'.posture = "CONSTITUTIONAL_REVIEW_REQUIRED"
    BY <2>5, <2>6, <2>7, <2>8
  <2>10. latest'.found = "CHARTER_REVIEW" =>
           \E x \in Recorded : x.dominantPressure = "CONSTITUTIONAL_PRESSURE"
    BY <2>5, <2>7 DEF ConstitutionalPressure
  <2>11. latest'.alarmed => latest'.posture = "CONSTITUTIONAL_REVIEW_REQUIRED"
    BY <1>4, <2>7, <2>8
  <2> QED
    BY <1>7, <2>9, <2>10, <2>11 DEF ConstitutionalNotForgotten, SawConstitutional
<1>11. CognitiveCounts'
  BY <1>1 DEF EmergenceInvariant, CognitiveCounts
<1>12. emergenceMemory' \in Seq(Recorded') /\ Sorted(emergenceMemory')
       /\ authority' \in AuthorityLevel
  BY <1>1, <1>7 DEF EmergenceInvariant
<1> QED
  BY <1>1, <1>7, <1>8, <1>9, <1>10, <1>11, <1>12 DEF EmergenceInvariant

(* A cycle is recorded, in its place.                                      *)
LEMMA RecordCycleKeeps ==
  ASSUME EmergenceInvariant, NEW c \in Cycles, Record(c)
  PROVE  EmergenceInvariant'
<1>1. /\ UNCHANGED <<authority, cognitive, clock>> /\ latest' = Nothing /\ cycle[c] # Nothing
      /\ cycle' = [cycle EXCEPT ![c] = Nothing]
      /\ emergenceMemory' = appendGovernanceEmergenceMemory(emergenceMemory, cycle[c])
  BY DEF Record
<1>2. PICK x : x = cycle[c] /\ CycleStands(x)
  BY <1>1 DEF EmergenceInvariant, CyclesStand
<1>3. clock \in Nat
  BY EmergenceBounds DEF EmergenceInvariant
<1>4. /\ emergenceMemory' \in Seq(Recorded \union {x}) /\ Sorted(emergenceMemory')
      /\ Recorded' = Recorded \union {x}
  <2>1. x.issued_at \in Nat /\ (\A y \in Recorded : y.issued_at \in Nat)
    BY <1>2, <1>3 DEF CycleStands, EmergenceInvariant
  <2>2. \A y \in Recorded : y.issued_at # x.issued_at
    BY <1>1, <1>2 DEF EmergenceInvariant, IssuedApart
  <2>3. PICK M, N, S : /\ M = emergenceMemory /\ S = Recorded
                       /\ N = appendGovernanceEmergenceMemory(M, x)
    OBVIOUS
  <2>4. M \in Seq(S) /\ Sorted(M)
    BY <2>3 DEF EmergenceInvariant
  <2>5. N \in Seq(S \union {x}) /\ Sorted(N)
        /\ Members(N) = Members(M) \union {x}
    <3>1. \A y \in S : y.issued_at \in Nat /\ y.issued_at # x.issued_at
      BY <2>1, <2>2, <2>3
    <3>2. x.issued_at \in Nat /\ N = appendGovernanceEmergenceMemory(M, x)
      BY <2>1, <2>3
    <3> QED
      BY ONLY <2>4, <3>1, <3>2, InsertedInOrder
  <2>6. N = emergenceMemory'
    BY <1>1, <1>2, <2>3
  <2> QED
    BY <2>3, <2>5, <2>6 DEF Recorded, Members
<1>5. /\ cycle'[c] = Nothing /\ (\A d \in Cycles : d # c => cycle'[d] = cycle[d])
      /\ cycle' = [d \in Cycles |-> cycle'[d]]
  BY <1>1 DEF EmergenceInvariant, CyclesStand
<1>6. \A k : CycleStands(k) => CycleStands(k)'
  BY <1>1, <1>3, TimeKeeps
<1>7. CyclesStand'
  <2>1. ASSUME NEW d \in Cycles
        PROVE  \E k : k = cycle'[d] /\ (k = Nothing \/ CycleStands(k)')
    <3>1. PICK k : k = cycle[d] /\ (k = Nothing \/ CycleStands(k))
      BY DEF EmergenceInvariant, CyclesStand
    <3> QED
      BY <1>5, <1>6, <3>1
  <2> QED
    BY <1>5, <2>1 DEF CyclesStand
<1>8. IssuedApart'
  <2>1. ASSUME NEW d \in Cycles, cycle'[d] # Nothing
        PROVE  d # c /\ cycle'[d] = cycle[d] /\ cycle[d].issued_at # x.issued_at
    BY <1>1, <1>2, <1>5, <2>1 DEF EmergenceInvariant, IssuedApart
  <2> QED
    BY <1>4, <2>1 DEF EmergenceInvariant, IssuedApart
<1>9. \A y \in Recorded' : CycleStands(y)'
  BY <1>2, <1>4, <1>6 DEF EmergenceInvariant
<1>10. ConstitutionalNotForgotten' /\ CognitiveCounts' /\ authority' \in AuthorityLevel
       /\ clock' \in 0..MaxCycles
  BY <1>1 DEF EmergenceInvariant, ConstitutionalNotForgotten, CognitiveCounts
<1> QED
  BY <1>4, <1>7, <1>8, <1>9, <1>10 DEF EmergenceInvariant

(* The memories of emergence, in every behaviour.                          *)
LEMMA EmergenceInvariantHolds == EmergenceSpec => []EmergenceInvariant
<1>1. EmergenceInvariant /\ [EmergenceNext]_emergenceVars => EmergenceInvariant'
  <2> SUFFICES ASSUME EmergenceInvariant, [EmergenceNext]_emergenceVars
               PROVE  EmergenceInvariant'
    OBVIOUS
  <2>1. CASE UNCHANGED emergenceVars
    <3>1. UNCHANGED <<authority, cognitive, emergenceMemory, cycle, clock, latest>>
      BY <2>1 DEF emergenceVars
    <3>2. Recorded' = Recorded
      BY <3>1 DEF Recorded
    <3> QED
      BY <3>1, <3>2 DEF EmergenceInvariant, CognitiveCounts, CycleStands, CyclesStand,
         IssuedApart, ConstitutionalNotForgotten, SawConstitutional
  <2>2. CASE EmergenceNext
    BY <2>2, ObserveKeeps, BeginKeeps, RecordCycleKeeps DEF EmergenceNext
  <2> QED
    BY <2>1, <2>2
<1> QED
  BY <1>1, EmergenceBegins, PTL DEF EmergenceSpec

(* The shape of the memories of emergence.                                 *)
THEOREM EmergenceTyped == EmergenceSpec => []EmergenceTypeOK
<1>1. EmergenceInvariant => EmergenceTypeOK
  <2> SUFFICES ASSUME EmergenceInvariant PROVE EmergenceTypeOK
    OBVIOUS
  <2>1. \A count \in {"entries", "recurring", "dependency", "shadow"} :
          cognitive[count] \in 0..MaxEntries
    <3>1. cognitive.entries \in 0..MaxEntries
      BY DEF EmergenceInvariant, CognitiveCounts
    <3>2. \A count \in {"recurring", "dependency", "shadow"} :
            cognitive[count] \in 0..MaxEntries
      BY <3>1, EmergenceBounds DEF EmergenceInvariant, CognitiveCounts
    <3> QED
      BY <3>1, <3>2
  <2>2. KnownPressures \subseteq ToSet(DominanceOrder)
    <3>1. /\ DOMAIN DominanceOrder = 1..6
          /\ DominanceOrder[1] = "CONSTITUTIONAL_PRESSURE"
          /\ DominanceOrder[2] = "IMPROVEMENT_PRESSURE"
          /\ DominanceOrder[3] = "DELEGATION_PRESSURE"
          /\ DominanceOrder[4] = "AI_GOVERNANCE_PRESSURE"
          /\ DominanceOrder[5] = "EXECUTION_PRESSURE"
          /\ DominanceOrder[6] = "ADVISORY_PRESSURE"
      BY DEF DominanceOrder
    <3>2. ToSet(DominanceOrder) = {DominanceOrder[i] : i \in 1..6}
      BY <3>1 DEF ToSet
    <3> QED
      BY <3>1, <3>2 DEF KnownPressures
  <2>3. \A k \in DOMAIN emergenceMemory : CycleStands(emergenceMemory[k])
    BY DEF EmergenceInvariant, Recorded
  <2> QED
    BY <2>1, <2>2, <2>3 DEF EmergenceTypeOK, EmergenceInvariant, CycleStands
<1> QED
  BY <1>1, EmergenceInvariantHolds, PTL

(* Once a recorded cycle saw a constitutional pressure, every later cycle  *)
(* handed the timeline calls for a charter review, whatever its evidence;  *)
(* one that sees the pressure itself takes the posture, whatever it was    *)
(* handed.                                                                 *)
THEOREM ConstitutionalRemembered == EmergenceSpec => []ConstitutionalNotForgotten
<1>1. EmergenceInvariant => ConstitutionalNotForgotten
  BY DEF EmergenceInvariant
<1> QED
  BY <1>1, EmergenceInvariantHolds, PTL

(* What is remembered of a cycle is whole.                                 *)
LEMMA CyclesWhole ==
  ASSUME EmergenceInvariant
  PROVE  \A x \in Recorded : x.confidence \in Int /\ x.issued_at \in Int
<1> SUFFICES ASSUME NEW x \in Recorded PROVE x.confidence \in Int /\ x.issued_at \in Int
  OBVIOUS
<1>1. x.confidence \in 0..1000 /\ x.issued_at \in 1..clock
  BY DEF EmergenceInvariant, CycleStands
<1>2. clock \in Nat
  BY EmergenceBounds DEF EmergenceInvariant
<1> QED
  BY <1>1, <1>2

(* The trend is that of the first and the last cycle issued, in whatever   *)
(* order they are recorded.                                                *)
THEOREM TrendOfIssue == EmergenceSpec => []TrendInOrderOfIssue
<1>1. EmergenceInvariant => TrendInOrderOfIssue
  <2> SUFFICES ASSUME EmergenceInvariant, NEW r \in Recorded, NEW s \in Recorded,
                      \A t \in Recorded : r.issued_at <= t.issued_at
                                          /\ t.issued_at <= s.issued_at,
                      r.confidence + 100 < s.confidence
               PROVE  resolveConfidenceTrend(emergenceMemory) = "INCREASING"
    BY DEF TrendInOrderOfIssue
  <2>1. PICK M, n : M = emergenceMemory /\ n = Len(M) /\ n \in Nat /\ DOMAIN M = 1..n
    BY DEF EmergenceInvariant
  <2>2. PICK i \in 1..n, j \in 1..n : M[i] = r /\ M[j] = s
    BY <2>1 DEF Recorded
  <2>3. /\ r.confidence \in Int /\ s.confidence \in Int
        /\ \A k \in 1..n : M[k] \in Recorded /\ M[k].issued_at \in Int
    <3>1. \A x \in Recorded : x.confidence \in Int /\ x.issued_at \in Int
      BY CyclesWhole
    <3>2. \A k \in 1..n : M[k] \in Recorded
      BY <2>1 DEF Recorded
    <3> QED
      BY <3>1, <3>2
  <2>4. Sorted(M)
    BY <2>1 DEF EmergenceInvariant
  <2>5. i = 1
    <3>1. 1 \in 1..n /\ (i # 1 => 1 < i)
      BY <2>1, <2>2
    <3>2. i # 1 => M[1].issued_at < M[i].issued_at
      BY <2>1, <2>4, <3>1 DEF Sorted
    <3> QED
      BY <2>2, <2>3, <3>1, <3>2
  <2>6. j = n
    <3>1. n \in 1..n /\ (j # n => j < n)
      BY <2>1, <2>2
    <3>2. j # n => M[j].issued_at < M[n].issued_at
      BY <2>1, <2>4, <3>1 DEF Sorted
    <3> QED
      BY <2>2, <2>3, <3>1, <3>2
  <2>7. r # s
    BY <2>3
  <2>8. n >= 2
    BY <2>1, <2>2, <2>5, <2>6, <2>7
  <2>9. M[n].confidence - M[1].confidence > 100
    BY <2>2, <2>3, <2>5, <2>6
  <2> QED
    BY <2>1, <2>8, <2>9 DEF resolveConfidenceTrend
<1> QED
  BY <1>1, EmergenceInvariantHolds, PTL

----------------------------------------------------------------------------
(* Governance is its parts.                                                *)
LEMMA PartsOfGovernance == GovernanceSpec =>
  EmergenceSpec /\ DataSpec /\ TrailSpec /\ AuthoritySpec
<1>1. GovernanceInit => EmergenceInit /\ DataInit /\ TrailInit /\ AuthorityInit
  BY DEF GovernanceInit
<1>2. [GovernanceNext]_governanceVars =>
        /\ [EmergenceNext]_emergenceVars
        /\ [DataNext]_dataVars
        /\ [TrailNext]_trailVars
        /\ [OagNext]_authorityVars
  BY DEF GovernanceNext, governanceVars, EmergenceStep, DataStep, TrailStep, OagStep
<1> QED
  BY <1>1, <1>2, PTL DEF GovernanceSpec, EmergenceSpec, DataSpec, TrailSpec, AuthoritySpec

(* All of governance keeps its shape, for any constants.                   *)
THEOREM GovernanceTyped == GovernanceSpec => []GovernanceTypeOK
BY PartsOfGovernance, EmergenceTyped, TrailTyped, AuthorityTyped, PTL DEF GovernanceTypeOK
=============================================================================
