-------------------------- MODULE D1TablesProofs --------------------------
(***************************************************************************)
(* What the two services whose state is tables of D1 guarantee, for any    *)
(* sets of callers and requests: first the ledger of financial commits,    *)
(* then the LLM budget.                                                    *)
(***************************************************************************)
EXTENDS FdcLedger, LlmBudget, FiniteSetTheorems, WellFoundedInduction, TLAPS

----------------------------------------------------------------------------
(***************************************************************************)
(* The ledger of financial commits, for every set of callers, inputs,      *)
(* companies and keys. All safety properties of the run follow from one    *)
(* inductive invariant, LedgerStands. Its heart is ReadOf: what a call     *)
(* keeps of the last SELECT stays true of the first `seen` rows for ever,  *)
(* because the table only grows; a row therefore records a read that was   *)
(* right when it was made, although it may be stale when the row is        *)
(* inserted.                                                               *)
(***************************************************************************)

(* The pair <<prev, hash>> is an answer to the last SELECT for the company *)
(* on the first `seen` rows of the table.                                  *)
ReadOf(table, company, prev, hash, seen) ==
  \/ /\ prev = NoFdc
     /\ hash = GENESIS
     /\ \A q \in 1..seen : table[q].commit.companyId # company
  \/ \E p \in 1..seen :
       /\ table[p].commit.companyId = company
       /\ table[p].commit.fdcId = prev
       /\ table[p].chainHash = hash
       /\ \A q \in 1..seen :
            table[q].commit.companyId = company =>
              table[q].commit.generatedAt <= table[p].commit.generatedAt

UniqueIds ==
  \A i, k \in Rows : fdc_commits[i].commit.fdcId = fdc_commits[k].commit.fdcId => i = k

RowRead(i) ==
  /\ fdc_commits[i].seen < i
  /\ \E hash \in ChainHashes :
       /\ ReadOf(fdc_commits, fdc_commits[i].commit.companyId,
                 fdc_commits[i].previousFdcId, hash, fdc_commits[i].seen)
       /\ fdc_commits[i].chainHash =
            sha256Hex(stableJson(fdc_commits[i].commit, fdc_commits[i].previousFdcId), hash)

RowsRead == \A i \in Rows : RowRead(i)

CallsRead ==
  \A c \in Callers : call[c].pc = "insert" =>
    /\ call[c].seen <= Len(fdc_commits)
    /\ ReadOf(fdc_commits, call[c].input.companyId,
              call[c].previousFdcId, call[c].previousChainHash, call[c].seen)

CallsGated ==
  \A c \in Callers : call[c].pc # "idle" => fdvValidateV1(call[c].input)

InsertedIsStored ==
  \A c \in Callers : call[c].pc = "inserted" =>
    \E i \in Rows : fdc_commits[i].commit = call[c].input

LedgerStands ==
  /\ TypeOK
  /\ UniqueIds
  /\ OneCommitPerKey
  /\ RowsRead
  /\ CallsRead
  /\ CallsGated
  /\ InsertedIsStored
  /\ AnsweredIsStored

----------------------------------------------------------------------------
(* Facts about the data.                                                   *)

(* The fields of an input are those the shape of a commit gives it.        *)
LEMMA InputFields ==
  ASSUME NEW input \in Inputs
  PROVE  /\ input.fdcId \in FdcIds
         /\ input.companyId \in Companies
         /\ input.generatedAt \in Nat
         /\ input.amount \in Nat
BY InputsAssumption DEF FinancialDecisionCommitV1

(* The program counter of a call determines which fields it has.           *)
LEMMA CallFields ==
  ASSUME NEW k \in Call
  PROVE  /\ k.pc \in {"idle", "lookup", "last", "insert", "inserted", "answered"}
         /\ k.pc # "idle" => k.input \in Inputs
         /\ k.pc = "insert" => /\ k.previousFdcId \in FdcIds \union {NoFdc}
                               /\ k.previousChainHash \in ChainHashes
                               /\ k.seen \in Nat
         /\ k.pc = "answered" => k.reused \in BOOLEAN
BY DEF Call, Idle

(* The calls the actions build are calls.                                  *)
LEMMA CallsBuilt ==
  ASSUME NEW input \in Inputs
  PROVE  /\ Idle \in Call
         /\ [pc |-> "lookup", input |-> input] \in Call
         /\ [pc |-> "last", input |-> input] \in Call
         /\ [pc |-> "inserted", input |-> input] \in Call
         /\ \A r \in BOOLEAN : [pc |-> "answered", input |-> input, reused |-> r] \in Call
         /\ \A prev \in FdcIds \union {NoFdc}, hash \in ChainHashes, n \in Nat :
              [pc |-> "insert", input |-> input, previousFdcId |-> prev,
               previousChainHash |-> hash, seen |-> n] \in Call
BY DEF Call

(* A link extends a chain hash to a chain hash.                            *)
LEMMA HashType ==
  ASSUME NEW input \in Inputs, NEW prev \in FdcIds \union {NoFdc},
         NEW hash \in ChainHashes
  PROVE  sha256Hex(stableJson(input, prev), hash) \in ChainHashes
<1>1. stableJson(input, prev) \in StableText
  BY InputFields DEF stableJson, StableText
<1> QED
  BY <1>1 DEF sha256Hex, ChainHashes

(* Appending to the table changes none of the rows it had.                 *)
LEMMA TableGrows ==
  ASSUME NEW table \in Seq(Row), NEW row \in Row
  PROVE  /\ Append(table, row) \in Seq(Row)
         /\ Len(Append(table, row)) = Len(table) + 1
         /\ DOMAIN Append(table, row) = DOMAIN table \union {Len(table) + 1}
         /\ \A i \in DOMAIN table : Append(table, row)[i] = table[i]
         /\ Append(table, row)[Len(table) + 1] = row
  OBVIOUS

(* What was read of the first rows stays true of them.                     *)
LEMMA ReadStable ==
  ASSUME NEW table \in Seq(Row), NEW row \in Row, NEW company, NEW prev, NEW hash,
         NEW seen \in Nat, seen <= Len(table),
         ReadOf(table, company, prev, hash, seen)
  PROVE  ReadOf(Append(table, row), company, prev, hash, seen)
<1>1. \A q \in 1..seen : Append(table, row)[q] = table[q]
  BY TableGrows
<1> QED
  BY <1>1 DEF ReadOf

----------------------------------------------------------------------------
(* The invariant is inductive.                                             *)

(* The empty table, with nobody calling, satisfies the invariant.          *)
LEMMA InitLedgerStands == Init => LedgerStands
<1> SUFFICES ASSUME Init PROVE LedgerStands
  OBVIOUS
<1> USE DEF Init
<1>1. Rows = {}
  BY DEF Rows
<1>2. \A c \in Callers : call[c] = Idle /\ call[c].pc = "idle"
  BY DEF Idle
<1>3. TypeOK
  BY CallsBuilt DEF TypeOK, Call
<1> QED
  BY <1>1, <1>2, <1>3
  DEF LedgerStands, UniqueIds, OneCommitPerKey, RowsRead, CallsRead, CallsGated,
      InsertedIsStored, AnsweredIsStored

(* A step that leaves the table alone and moves one call to a call that    *)
(* holds what its program counter claims.                                  *)
LEMMA MoveKeepsLedger ==
  ASSUME LedgerStands, NEW c \in Callers, NEW k \in Call,
         call' = [call EXCEPT ![c] = k],
         UNCHANGED fdc_commits,
         k.pc # "idle" => fdvValidateV1(k.input),
         k.pc = "insert" =>
           /\ k.seen <= Len(fdc_commits)
           /\ ReadOf(fdc_commits, k.input.companyId, k.previousFdcId,
                     k.previousChainHash, k.seen),
         k.pc = "inserted" => \E i \in Rows : fdc_commits[i].commit = k.input,
         k.pc = "answered" =>
           IF k.reused THEN KeyTaken(k.input)
           ELSE \E i \in Rows : fdc_commits[i].commit = k.input
  PROVE  LedgerStands'
<1> USE DEF LedgerStands
<1>1. /\ \A d \in Callers : call'[d] = IF d = c THEN k ELSE call[d]
      /\ call' \in [Callers -> Call]
  BY DEF TypeOK
<1>2. TypeOK'
  BY <1>1 DEF TypeOK
<1>3. UniqueIds' /\ OneCommitPerKey' /\ RowsRead'
  BY DEF UniqueIds, OneCommitPerKey, RowsRead, RowRead, Rows
<1>4. CallsRead'
  BY <1>1 DEF CallsRead
<1>5. CallsGated'
  BY <1>1 DEF CallsGated
<1>6. InsertedIsStored'
  BY <1>1 DEF InsertedIsStored, Rows
<1>7. AnsweredIsStored'
  BY <1>1 DEF AnsweredIsStored, Rows, KeyTaken, RowsOf
<1> QED
  BY <1>2, <1>3, <1>4, <1>5, <1>6, <1>7

(* The last SELECT, whether it finds a row or not, gives a ReadOf of the   *)
(* whole table.                                                            *)
LEMMA ReadIsReadOf ==
  ASSUME TypeOK, NEW company
  PROVE  /\ RowsOf(company) = {} =>
              ReadOf(fdc_commits, company, NoFdc, GENESIS, Len(fdc_commits))
         /\ \A i \in LastRows(company) :
              ReadOf(fdc_commits, company, fdc_commits[i].commit.fdcId,
                     fdc_commits[i].chainHash, Len(fdc_commits))
<1>1. Rows = 1..Len(fdc_commits)
  BY DEF TypeOK, Rows
<1> QED
  BY <1>1 DEF ReadOf, RowsOf, LastRows

(* The insert adds a row that holds what its call has read, and breaks     *)
(* nothing said of the rows before it.                                     *)
LEMMA InsertKeepsLedger ==
  ASSUME LedgerStands, NEW c \in Callers, Insert(c)
  PROVE  LedgerStands'
<1> DEFINE k   == call[c]
           row == NewRow(k)
           n   == Len(fdc_commits)
<1> USE DEF LedgerStands
<1>1. /\ k \in Call /\ k.pc = "insert" /\ k.input \in Inputs
      /\ k.previousFdcId \in FdcIds \union {NoFdc}
      /\ k.previousChainHash \in ChainHashes
      /\ k.seen \in Nat
  BY CallFields DEF Insert, TypeOK
<1>2. row \in Row
  BY <1>1, HashType DEF NewRow, Row
<1>3. /\ n \in Nat
      /\ Rows = 1..n
      /\ Rows' = Rows \union {n + 1}
      /\ n + 1 \notin Rows
      /\ fdc_commits' \in Seq(Row)
      /\ Len(fdc_commits') = n + 1
      /\ \A i \in Rows : fdc_commits'[i] = fdc_commits[i] /\ fdc_commits[i] \in Row
      /\ fdc_commits'[n + 1] = row
  BY <1>2, TableGrows DEF Insert, TypeOK, Rows
<1>4. /\ row.commit = k.input
      /\ row.previousFdcId = k.previousFdcId
      /\ row.chainHash = sha256Hex(stableJson(k.input, k.previousFdcId), k.previousChainHash)
      /\ row.seen = k.seen
  BY DEF NewRow
<1>5. /\ k.seen <= n
      /\ ReadOf(fdc_commits, k.input.companyId, k.previousFdcId, k.previousChainHash, k.seen)
  BY <1>1 DEF CallsRead
<1>6. /\ \A d \in Callers : d # c => call'[d] = call[d]
      /\ call'[c] = [pc |-> "inserted", input |-> k.input]
      /\ call' \in [Callers -> Call]
  BY <1>1, CallsBuilt DEF Insert, TypeOK
<1>7. TypeOK'
  BY <1>3, <1>6 DEF TypeOK
<1>8. UniqueIds'
  <2>1. \A i \in Rows : fdc_commits[i].commit.fdcId # k.input.fdcId
    BY DEF Insert, InsertConflict
  <2> QED
    BY <2>1, <1>3, <1>4 DEF UniqueIds
<1>9. OneCommitPerKey'
  <2>1. \A i \in Rows : ~ /\ fdc_commits[i].commit.companyId = k.input.companyId
                          /\ fdc_commits[i].commit.idempotencyKey = k.input.idempotencyKey
    BY DEF Insert, InsertConflict, KeyTaken, RowsOf
  <2> QED
    BY <2>1, <1>3, <1>4 DEF OneCommitPerKey
<1>10. RowsRead'
  <2> SUFFICES ASSUME NEW i \in Rows' PROVE RowRead(i)'
    BY DEF RowsRead
  <2>1. CASE i \in Rows
    <3>1. fdc_commits[i].seen \in Nat /\ fdc_commits[i].seen <= n
      BY <2>1, <1>3 DEF RowsRead, RowRead, Row
    <3>2. PICK hash \in ChainHashes :
            /\ ReadOf(fdc_commits, fdc_commits[i].commit.companyId,
                      fdc_commits[i].previousFdcId, hash, fdc_commits[i].seen)
            /\ fdc_commits[i].chainHash =
                 sha256Hex(stableJson(fdc_commits[i].commit, fdc_commits[i].previousFdcId), hash)
      BY <2>1 DEF RowsRead, RowRead
    <3>3. ReadOf(fdc_commits', fdc_commits[i].commit.companyId,
                 fdc_commits[i].previousFdcId, hash, fdc_commits[i].seen)
      BY <3>1, <3>2, <1>2, ReadStable DEF Insert, TypeOK
    <3> QED
      BY <2>1, <3>2, <3>3, <1>3 DEF RowsRead, RowRead
  <2>2. CASE i = n + 1
    <3>1. ReadOf(fdc_commits', k.input.companyId, k.previousFdcId,
                 k.previousChainHash, k.seen)
      BY <1>1, <1>2, <1>5, ReadStable DEF Insert, TypeOK
    <3> QED
      BY <2>2, <3>1, <1>1, <1>3, <1>4, <1>5 DEF RowRead
  <2> QED
    BY <2>1, <2>2, <1>3
<1>11. CallsRead'
  <2> SUFFICES ASSUME NEW d \in Callers, call'[d].pc = "insert"
               PROVE  /\ call'[d].seen <= Len(fdc_commits')
                      /\ ReadOf(fdc_commits', call'[d].input.companyId,
                                call'[d].previousFdcId, call'[d].previousChainHash,
                                call'[d].seen)
    BY DEF CallsRead
  <2>1. call'[d] = call[d] /\ call[d].pc = "insert"
    BY <1>6
  <2>2. call[d].seen \in Nat
    BY <2>1, CallFields DEF TypeOK
  <2>3. /\ call[d].seen <= n
        /\ ReadOf(fdc_commits, call[d].input.companyId, call[d].previousFdcId,
                  call[d].previousChainHash, call[d].seen)
    BY <2>1 DEF CallsRead
  <2>4. ReadOf(fdc_commits', call[d].input.companyId, call[d].previousFdcId,
               call[d].previousChainHash, call[d].seen)
    BY <2>2, <2>3, <1>2, ReadStable DEF Insert, TypeOK
  <2> QED
    BY <2>1, <2>2, <2>3, <2>4, <1>3
<1>12. CallsGated'
  BY <1>1, <1>6 DEF CallsGated
<1>13. InsertedIsStored'
  BY <1>3, <1>4, <1>6 DEF InsertedIsStored
<1>14. AnsweredIsStored'
  <2>2. \A d \in Callers : call'[d].pc = "answered" =>
          call'[d] = call[d] /\ call[d].pc = "answered"
    BY <1>6
  <2>3. ASSUME NEW d \in Callers, call[d].pc = "answered", call[d].reused
        PROVE  KeyTaken(call[d].input)
    BY <2>3 DEF AnsweredIsStored
  <2>4. ASSUME NEW d \in Callers, call[d].pc = "answered", ~call[d].reused
        PROVE  \E i \in Rows' : fdc_commits'[i].commit = call[d].input
    BY <2>4, <1>3 DEF AnsweredIsStored
  <2>5. ASSUME NEW d \in Callers, call'[d].pc = "answered", call'[d].reused
        PROVE  \E i \in Rows' :
                 /\ fdc_commits'[i].commit.companyId = call'[d].input.companyId
                 /\ fdc_commits'[i].commit.idempotencyKey = call'[d].input.idempotencyKey
    BY <2>2, <2>3, <2>5, <1>3 DEF KeyTaken, RowsOf
  <2> QED
    BY <2>2, <2>4, <2>5 DEF AnsweredIsStored, KeyTaken, RowsOf
<1> QED
  BY <1>7, <1>8, <1>9, <1>10, <1>11, <1>12, <1>13, <1>14

(* No statement, answer or death of a call breaks the invariant.           *)
LEMMA NextLedgerStands == LedgerStands /\ [Next]_vars => LedgerStands'
<1> SUFFICES ASSUME LedgerStands, [Next]_vars PROVE LedgerStands'
  OBVIOUS
<1>1. CASE UNCHANGED vars
  BY <1>1 DEF vars, LedgerStands, TypeOK, UniqueIds, OneCommitPerKey, RowsRead, RowRead,
      CallsRead, CallsGated, InsertedIsStored, AnsweredIsStored, Rows, KeyTaken, RowsOf
<1>2. ASSUME NEW c \in Callers, NEW input \in Inputs, Begin(c, input) PROVE LedgerStands'
  BY <1>2, CallsBuilt, MoveKeepsLedger DEF Begin
<1>3. ASSUME NEW c \in Callers PROVE call[c] \in Call
  BY DEF LedgerStands, TypeOK
<1>4. ASSUME NEW c \in Callers, LookupFound(c) PROVE LedgerStands'
  <2> DEFINE k == [pc |-> "answered", input |-> call[c].input, reused |-> TRUE]
  <2>1. k \in Call /\ fdvValidateV1(call[c].input) /\ KeyTaken(call[c].input)
    BY <1>3, <1>4, CallFields, CallsBuilt DEF LookupFound, LedgerStands, CallsGated
  <2> QED
    BY <1>4, <2>1, MoveKeepsLedger DEF LookupFound
<1>5. ASSUME NEW c \in Callers, LookupMissed(c) PROVE LedgerStands'
  <2> DEFINE k == [pc |-> "last", input |-> call[c].input]
  <2>1. k \in Call /\ fdvValidateV1(call[c].input)
    BY <1>3, <1>5, CallFields, CallsBuilt DEF LookupMissed, LedgerStands, CallsGated
  <2> QED
    BY <1>5, <2>1, MoveKeepsLedger DEF LookupMissed
<1>6. ASSUME NEW c \in Callers, ReadFirst(c) PROVE LedgerStands'
  <2> DEFINE k == [pc |-> "insert", input |-> call[c].input, previousFdcId |-> NoFdc,
                   previousChainHash |-> GENESIS, seen |-> Len(fdc_commits)]
  <2>1. Len(fdc_commits) \in Nat /\ GENESIS \in ChainHashes
    BY DEF LedgerStands, TypeOK, GENESIS, ChainHashes
  <2>2. call[c].input \in Inputs /\ fdvValidateV1(call[c].input)
    BY <1>3, <1>6, CallFields DEF ReadFirst, LedgerStands, CallsGated
  <2>3. k \in Call
    BY <2>1, <2>2, CallsBuilt
  <2>4. ReadOf(fdc_commits, call[c].input.companyId, NoFdc, GENESIS, Len(fdc_commits))
    BY <1>6, ReadIsReadOf DEF ReadFirst, LedgerStands
  <2> QED
    <3>1. /\ k.pc = "insert" /\ k.input = call[c].input /\ k.seen = Len(fdc_commits)
          /\ k.previousFdcId = NoFdc /\ k.previousChainHash = GENESIS
      OBVIOUS
    <3>2. call' = [call EXCEPT ![c] = k] /\ UNCHANGED fdc_commits
      BY <1>6 DEF ReadFirst
    <3> HIDE DEF k
    <3>3. /\ fdvValidateV1(k.input)
          /\ k.seen <= Len(fdc_commits)
          /\ ReadOf(fdc_commits, k.input.companyId, k.previousFdcId,
                    k.previousChainHash, k.seen)
      BY <2>1, <2>2, <2>4, <3>1
    <3> QED
      BY <2>3, <3>1, <3>2, <3>3, MoveKeepsLedger
<1>7. ASSUME NEW c \in Callers, ReadLast(c) PROVE LedgerStands'
  <2>1. PICK i \in LastRows(call[c].input.companyId) :
          call' = [call EXCEPT ![c] =
            [pc |-> "insert", input |-> call[c].input,
             previousFdcId |-> fdc_commits[i].commit.fdcId,
             previousChainHash |-> fdc_commits[i].chainHash,
             seen |-> Len(fdc_commits)]]
    BY <1>7 DEF ReadLast
  <2> DEFINE k == [pc |-> "insert", input |-> call[c].input,
                   previousFdcId |-> fdc_commits[i].commit.fdcId,
                   previousChainHash |-> fdc_commits[i].chainHash,
                   seen |-> Len(fdc_commits)]
  <2>2. call[c].input \in Inputs /\ fdvValidateV1(call[c].input)
    BY <1>3, <1>7, CallFields DEF ReadLast, LedgerStands, CallsGated
  <2>3. Len(fdc_commits) \in Nat /\ fdc_commits[i] \in Row
    BY DEF LedgerStands, TypeOK, LastRows, RowsOf, Rows
  <2>4. fdc_commits[i].commit.fdcId \in FdcIds /\ fdc_commits[i].chainHash \in ChainHashes
    BY <2>3, InputFields DEF Row
  <2>5. k \in Call
    BY <2>2, <2>3, <2>4, CallsBuilt
  <2>6. ReadOf(fdc_commits, call[c].input.companyId, fdc_commits[i].commit.fdcId,
               fdc_commits[i].chainHash, Len(fdc_commits))
    BY ReadIsReadOf DEF LedgerStands
  <2> QED
    <3>1. /\ k.pc = "insert" /\ k.input = call[c].input /\ k.seen = Len(fdc_commits)
          /\ k.previousFdcId = fdc_commits[i].commit.fdcId
          /\ k.previousChainHash = fdc_commits[i].chainHash
      OBVIOUS
    <3>2. call' = [call EXCEPT ![c] = k] /\ UNCHANGED fdc_commits
      BY <1>7, <2>1 DEF ReadLast
    <3> HIDE DEF k
    <3>3. /\ fdvValidateV1(k.input)
          /\ k.seen <= Len(fdc_commits)
          /\ ReadOf(fdc_commits, k.input.companyId, k.previousFdcId,
                    k.previousChainHash, k.seen)
      BY <2>2, <2>3, <2>6, <3>1
    <3> QED
      BY <2>5, <3>1, <3>2, <3>3, MoveKeepsLedger
<1>8. ASSUME NEW c \in Callers, Insert(c) PROVE LedgerStands'
  BY <1>8, InsertKeepsLedger
<1>9. ASSUME NEW c \in Callers, InsertRefused(c) \/ Die(c) PROVE LedgerStands'
  <2>1. Idle \in Call /\ Idle.pc = "idle"
    BY DEF Call, Idle
  <2> QED
    BY <1>9, <2>1, MoveKeepsLedger DEF InsertRefused, Die
<1>10. ASSUME NEW c \in Callers, Return(c) PROVE LedgerStands'
  <2> DEFINE k == [pc |-> "answered", input |-> call[c].input, reused |-> FALSE]
  <2>1. /\ k \in Call /\ fdvValidateV1(call[c].input)
        /\ \E i \in Rows : fdc_commits[i].commit = call[c].input
    BY <1>3, <1>10, CallFields, CallsBuilt DEF Return, LedgerStands, CallsGated, InsertedIsStored
  <2> QED
    BY <1>10, <2>1, MoveKeepsLedger DEF Return
<1> QED
  BY <1>1, <1>2, <1>4, <1>5, <1>6, <1>7, <1>8, <1>9, <1>10 DEF Next

(* In every reachable state each row, and each call about to insert,       *)
(* holds an answer to the last SELECT on the table as it was when it was   *)
(* read.                                                                   *)
THEOREM LedgerAlwaysStands == Spec => []LedgerStands
<1> QED
  BY InitLedgerStands, NextLedgerStands, PTL DEF Spec

----------------------------------------------------------------------------
(* The properties of the run, for every value of the constants.            *)

(* The table and the calls keep their shape.                               *)
THEOREM TypeCorrect == Spec => []TypeOK
<1> QED
  BY LedgerAlwaysStands, PTL DEF LedgerStands

(* fdc_idempotency_uq is enough: two calls that both missed the key never  *)
(* both store a commit for it, however they interleave.                    *)
THEOREM IdempotencyHolds == Spec => []OneCommitPerKey
<1> QED
  BY LedgerAlwaysStands, PTL DEF LedgerStands

(* A row's read saw only rows that come before it.                         *)
LEMMA RowsInOrder ==
  ASSUME LedgerStands
  PROVE  /\ Rows = 1..Len(fdc_commits)
         /\ Len(fdc_commits) \in Nat
         /\ \A i \in Rows : /\ i \in Nat
                            /\ fdc_commits[i].seen \in Nat
                            /\ fdc_commits[i].seen < i
<1>1. Rows = 1..Len(fdc_commits) /\ Len(fdc_commits) \in Nat
  BY DEF LedgerStands, TypeOK, Rows
<1>2. \A i \in Rows : fdc_commits[i] \in Row
  BY <1>1 DEF LedgerStands, TypeOK
<1>3. \A i \in Rows : fdc_commits[i].seen \in Nat
  BY <1>2 DEF Row
<1> QED
  BY <1>1, <1>3 DEF LedgerStands, RowsRead, RowRead

(* A row's stored read of the last SELECT is a genesis or a link to one    *)
(* earlier row.                                                            *)
LEMMA ReadIsLink ==
  ASSUME LedgerStands, NEW i \in Rows
  PROVE  IsGenesis(i) \/ \E k \in 1..(i - 1) : IsLinkedTo(i, k)
<1>1. /\ i \in Nat
      /\ fdc_commits[i].seen \in Nat
      /\ fdc_commits[i].seen < i
  BY RowsInOrder
<1>2. PICK hash \in ChainHashes :
        /\ ReadOf(fdc_commits, fdc_commits[i].commit.companyId,
                  fdc_commits[i].previousFdcId, hash, fdc_commits[i].seen)
        /\ fdc_commits[i].chainHash =
             sha256Hex(stableJson(fdc_commits[i].commit, fdc_commits[i].previousFdcId), hash)
  BY DEF LedgerStands, RowsRead, RowRead
<1>3. CASE fdc_commits[i].previousFdcId = NoFdc /\ hash = GENESIS
  BY <1>2, <1>3 DEF IsGenesis
<1>4. CASE \E p \in 1..fdc_commits[i].seen :
             /\ fdc_commits[p].commit.companyId = fdc_commits[i].commit.companyId
             /\ fdc_commits[p].commit.fdcId = fdc_commits[i].previousFdcId
             /\ fdc_commits[p].chainHash = hash
  <2>1. PICK p \in 1..fdc_commits[i].seen :
             /\ fdc_commits[p].commit.companyId = fdc_commits[i].commit.companyId
             /\ fdc_commits[p].commit.fdcId = fdc_commits[i].previousFdcId
             /\ fdc_commits[p].chainHash = hash
    BY <1>4
  <2>2. p \in 1..(i - 1)
    BY <1>1
  <2>3. IsLinkedTo(i, p)
    BY <1>2, <2>1 DEF IsLinkedTo
  <2> QED
    BY <2>2, <2>3
<1> QED
  BY <1>2, <1>3, <1>4 DEF ReadOf

(* Every stored commit starts a chain or carries the id and the digest of  *)
(* one and the same earlier commit of its company.                         *)
THEOREM LinksHold == Spec => []LinkIntegrity
<1>1. LedgerStands => LinkIntegrity
  BY ReadIsLink DEF LinkIntegrity
<1> QED
  BY <1>1, LedgerAlwaysStands, PTL

(* A caller is only told what the table holds.                             *)
THEOREM AnswersHold == Spec => []AnsweredIsStored
<1> QED
  BY LedgerAlwaysStands, PTL DEF LedgerStands

(* The chain of a company forks in two situations and no other: the later  *)
(* commit's read overlapped the earlier one's insert, or the earlier one   *)
(* was not newer than its own predecessor.                                 *)
THEOREM ForksExplained == Spec => []ForkExplained
<1>1. ASSUME LedgerStands, NEW i \in Rows, NEW k \in Rows, Fork(i, k),
             ~(fdc_commits[k].seen < i)
      PROVE  \E p \in Rows :
               /\ fdc_commits[p].commit.fdcId = fdc_commits[i].previousFdcId
               /\ fdc_commits[i].commit.generatedAt <= fdc_commits[p].commit.generatedAt
  <2>1. /\ Rows = 1..Len(fdc_commits)
        /\ Len(fdc_commits) \in Nat
        /\ fdc_commits[k].seen \in Nat
        /\ fdc_commits[k].seen < k
    BY <1>1, RowsInOrder
  <2>2. PICK hash \in ChainHashes :
          ReadOf(fdc_commits, fdc_commits[k].commit.companyId,
                 fdc_commits[k].previousFdcId, hash, fdc_commits[k].seen)
    BY <1>1 DEF LedgerStands, RowsRead, RowRead
  <2>3. /\ i \in 1..fdc_commits[k].seen
        /\ fdc_commits[i].commit.companyId = fdc_commits[k].commit.companyId
        /\ fdc_commits[i].previousFdcId = fdc_commits[k].previousFdcId
    BY <1>1, <2>1 DEF Fork
  <2>4. PICK p \in 1..fdc_commits[k].seen :
          /\ fdc_commits[p].commit.fdcId = fdc_commits[k].previousFdcId
          /\ fdc_commits[i].commit.generatedAt <= fdc_commits[p].commit.generatedAt
    BY <2>2, <2>3 DEF ReadOf
  <2>5. p \in Rows
    BY <2>1
  <2> QED
    BY <2>3, <2>4, <2>5
<1>2. LedgerStands => ForkExplained
  BY <1>1 DEF ForkExplained
<1> QED
  BY <1>2, LedgerAlwaysStands, PTL

----------------------------------------------------------------------------
(* The ledger implements FdcRegister.                                      *)

LEMMA RefinesInit == Init => Register!Init
<1> SUFFICES ASSUME Init PROVE Register!Init
  OBVIOUS
<1>1. committed = {}
  BY DEF Init, committed, Rows
<1>2. answer = [c \in Callers |-> {}]
  BY DEF Init, answer, Idle
<1> QED
  BY <1>1, <1>2 DEF Register!Init

(* A step that leaves the table alone changes at most one answer.          *)
LEMMA MoveMaps ==
  ASSUME TypeOK, NEW c \in Callers, NEW k,
         call' = [call EXCEPT ![c] = k], UNCHANGED fdc_commits
  PROVE  /\ committed' = committed
         /\ answer' = [answer EXCEPT ![c] =
              IF k.pc = "answered" THEN {[input |-> k.input, reused |-> k.reused]} ELSE {}]
BY DEF TypeOK, committed, answer, Rows

LEMMA RefinesNext ==
  ASSUME LedgerStands, [Next]_vars
  PROVE  [Register!Next]_<<committed, answer>>
<1>1. CASE UNCHANGED vars
  BY <1>1 DEF vars, committed, answer, Rows
<1>2. ASSUME NEW c \in Callers PROVE call[c] \in Call
  BY DEF LedgerStands, TypeOK
<1>3. ASSUME NEW c \in Callers, NEW k, k.pc # "answered",
             call' = [call EXCEPT ![c] = k], UNCHANGED fdc_commits
      PROVE  Register!Ask(c)
  BY <1>3, MoveMaps DEF LedgerStands, Register!Ask
<1>4. ASSUME NEW c \in Callers, NEW input \in Inputs, Begin(c, input)
      PROVE  Register!Ask(c)
  BY <1>3, <1>4 DEF Begin
<1>5. ASSUME NEW c \in Callers, LookupMissed(c) \/ ReadFirst(c)
      PROVE  Register!Ask(c)
  BY <1>3, <1>5 DEF LookupMissed, ReadFirst
<1>6. ASSUME NEW c \in Callers, ReadLast(c) PROVE Register!Ask(c)
  BY <1>3, <1>6 DEF ReadLast
<1>7. ASSUME NEW c \in Callers, InsertRefused(c) \/ Die(c) PROVE Register!Ask(c)
  BY <1>3, <1>7 DEF InsertRefused, Die, Idle
<1>8. ASSUME NEW c \in Callers, LookupFound(c)
      PROVE  Register!Repeat(c, call[c].input)
  <2>1. committed' = committed /\ answer' = [answer EXCEPT ![c] =
          {[input |-> call[c].input, reused |-> TRUE]}]
    <3> DEFINE k == [pc |-> "answered", input |-> call[c].input, reused |-> TRUE]
    <3>1. call' = [call EXCEPT ![c] = k] /\ UNCHANGED fdc_commits
      BY <1>8 DEF LookupFound
    <3>2. k.pc = "answered" /\ k.input = call[c].input /\ k.reused = TRUE
      OBVIOUS
    <3> HIDE DEF k
    <3> QED
      BY <3>1, <3>2, MoveMaps DEF LedgerStands
  <2>2. \E other \in committed : Register!SameKey(call[c].input, other)
    BY <1>8 DEF LookupFound, KeyTaken, RowsOf, committed, Register!SameKey
  <2> QED
    BY <2>1, <2>2 DEF Register!Repeat
<1>9. ASSUME NEW c \in Callers, Return(c)
      PROVE  Register!Confirm(c, call[c].input)
  <2>1. committed' = committed /\ answer' = [answer EXCEPT ![c] =
          {[input |-> call[c].input, reused |-> FALSE]}]
    <3> DEFINE k == [pc |-> "answered", input |-> call[c].input, reused |-> FALSE]
    <3>1. call' = [call EXCEPT ![c] = k] /\ UNCHANGED fdc_commits
      BY <1>9 DEF Return
    <3>2. k.pc = "answered" /\ k.input = call[c].input /\ k.reused = FALSE
      OBVIOUS
    <3> HIDE DEF k
    <3> QED
      BY <3>1, <3>2, MoveMaps DEF LedgerStands
  <2>2. call[c].input \in committed
    BY <1>9 DEF Return, LedgerStands, InsertedIsStored, committed
  <2> QED
    BY <2>1, <2>2 DEF Register!Confirm
<1>10. ASSUME NEW c \in Callers, Insert(c)
       PROVE  Register!Decide(call[c].input)
  <2> DEFINE input == call[c].input
             n == Len(fdc_commits)
  <2>1. input \in Inputs /\ call[c].pc = "insert" /\ fdvValidateV1(input)
    BY <1>2, <1>10, CallFields DEF Insert, LedgerStands, CallsGated
  <2>2. input \in Acceptable
    BY <2>1 DEF Acceptable
  <2>3. \A other \in committed :
          ~Register!SameKey(input, other) /\ input.fdcId # other.fdcId
    BY <1>10 DEF Insert, InsertConflict, KeyTaken, RowsOf, committed, Register!SameKey
  <2>4. /\ Rows' = Rows \union {n + 1}
        /\ n + 1 \notin Rows
        /\ \A i \in Rows : fdc_commits'[i] = fdc_commits[i]
        /\ fdc_commits'[n + 1].commit = input
    BY <1>10 DEF Insert, LedgerStands, TypeOK, Rows, NewRow
  <2>5. committed' = committed \union {input}
    BY <2>4 DEF committed
  <2>6. answer' = answer
    BY <1>10 DEF Insert, LedgerStands, TypeOK, answer
  <2> QED
    BY <2>2, <2>3, <2>5, <2>6 DEF Register!Decide
<1>11. ASSUME NEW c \in Callers, NEW input \in Inputs,
              \/ Register!Decide(input)
              \/ Register!Confirm(c, input)
              \/ Register!Repeat(c, input)
              \/ Register!Ask(c)
       PROVE  Register!Next
  BY <1>11 DEF Register!Next
<1>12. ASSUME NEW c \in Callers, call[c].pc # "idle" PROVE call[c].input \in Inputs
  BY <1>2, <1>12, CallFields
<1>13. ASSUME NEW c \in Callers, Register!Ask(c) PROVE Register!Next
  BY <1>13 DEF Register!Next
<1>14. ASSUME NEW c \in Callers, LookupFound(c) \/ Insert(c) \/ Return(c)
       PROVE  Register!Next
  <2>1. call[c].input \in Inputs
    BY <1>12, <1>14 DEF LookupFound, Insert, Return
  <2> QED
    BY <2>1, <1>8, <1>9, <1>10, <1>11, <1>14
<1> QED
  BY <1>1, <1>4, <1>5, <1>6, <1>7, <1>13, <1>14 DEF Next

(* Every behaviour of the ledger is one of the register: each key decided  *)
(* at most once, for a commit the gate accepts, never taken back, and      *)
(* reported only once decided.                                             *)
THEOREM Refinement == Spec => RefinesRegister
<1>1. Init => Register!Init
  BY RefinesInit
<1>2. LedgerStands /\ [Next]_vars => [Register!Next]_<<committed, answer>>
  BY RefinesNext
<1> QED
  BY <1>1, <1>2, LedgerAlwaysStands, PTL DEF Spec, RefinesRegister, Register!Spec

----------------------------------------------------------------------------
(***************************************************************************)
(* The LLM budget: how far the shared pool can be overdrawn, and what the  *)
(* tables say of each other, for any number of concurrent requests,        *)
(* companies, months and amounts.                                          *)
(*                                                                         *)
(* The request that was granted last saw room for its own cost; every      *)
(* other request that may yet charge the pool costs at most MaxCost. So    *)
(* one of the requests that may charge counts with its cost, the others    *)
(* with MaxCost, and what has been used already leaves room for all of     *)
(* them under the bound.                                                   *)
(*                                                                         *)
(* The tables agree once what the calls in progress are about to write is  *)
(* added to what is written: a statement moves an amount from the one to   *)
(* the other, and a call that dies takes its amount away. That takes sums  *)
(* over requests and companies, and for those induction over a finite set, *)
(* an element at a time.                                                   *)
(***************************************************************************)

N == Cardinality(BudgetRequests)

(* Whether request r may charge the pool of month m: it is on its way      *)
(* there, or it was granted and will look at the clock, or it will be      *)
(* granted by the pool of an earlier month.                                *)
MayCharge(r, m) ==
  \/ /\ request[r].pc \in {"company", "pool"}
     /\ request[r].company \in Basic
     /\ request[r].month = m
  \/ request[r].pc = "granted" /\ request[r].company \in Basic /\ m = month
  \/ request[r].pc = "check" /\ request[r].month # m /\ m = month

Owing(m) == {r \in BudgetRequests : MayCharge(r, m)}

Cost == [r \in BudgetRequests |-> request[r].cost]

(* What has been used of total leaves room for the owing requests.         *)
Fits(used, total, owing, cost) ==
  /\ owing = {} => used <= total + (N - 1) * MaxCost
  /\ owing # {} => \E r \in owing :
       used + cost[r] + (Cardinality(owing) - 1) * MaxCost <= total + (N - 1) * MaxCost

PoolTypeOK ==
  /\ month \in 1..Months
  /\ llm_global_budget \in Seq(BudgetRow)
  /\ request \in [BudgetRequests -> Request]

HasMonth == {"ensure", "bootstrap", "check", "company", "pool", "log", "contribute", "fund"}

(* Nothing is of a month to come.                                          *)
InTime ==
  /\ \A i \in DOMAIN llm_global_budget : llm_global_budget[i].month <= month
  /\ \A r \in BudgetRequests : request[r].pc \in HasMonth => request[r].month <= month

BasicOnly ==
  \A r \in BudgetRequests : request[r].pc \in {"check", "pool"} => request[r].company \in Basic

FirstFits(m, i) ==
  /\ i \in BudgetRowsOf(m)
  /\ \A k \in BudgetRowsOf(m) : i <= k
  /\ MaxCost <= Cap =>
       Fits(llm_global_budget[i].used, llm_global_budget[i].total, Owing(m), Cost)

PoolsFit ==
  \A m \in 1..Months : BudgetRowsOf(m) # {} => \E i \in DOMAIN llm_global_budget : FirstFits(m, i)

BudgetStands ==
  /\ PoolTypeOK
  /\ InTime
  /\ BasicOnly
  /\ PoolsFit

----------------------------------------------------------------------------
(* Room.                                                                   *)

(* Multiples of MaxCost.                                                   *)
LEMMA Times ==
  /\ \A k \in Int : k * MaxCost \in Int
  /\ \A k \in Int : (k + 1) * MaxCost = k * MaxCost + MaxCost
  /\ \A j, k \in Int : j <= k => j * MaxCost <= k * MaxCost
  /\ \A k \in Nat : 0 <= k * MaxCost
BY AmountsAssumption

(* Sets of requests are finite, and there are at most N.                   *)
LEMMA Requests ==
  ASSUME NEW P \in SUBSET BudgetRequests
  PROVE  /\ IsFiniteSet(P)
         /\ Cardinality(P) \in Nat /\ N \in Nat
         /\ Cardinality(P) <= N
         /\ P # {} => Cardinality(P) >= 1
<1>1. IsFiniteSet(BudgetRequests)
  BY BudgetRequestsAssumption
<1>2. IsFiniteSet(P) /\ Cardinality(P) <= N
  BY <1>1, FS_Subset DEF N
<1>3. Cardinality(P) \in Nat /\ N \in Nat
  BY <1>1, <1>2, FS_CardinalityType DEF N
<1>4. P # {} => Cardinality(P) # 0
  BY <1>2, FS_EmptySet
<1> QED
  BY <1>2, <1>3, <1>4

(* Requests that give up, and contributions, leave room.                   *)
LEMMA FitsLess ==
  ASSUME NEW P \in SUBSET BudgetRequests, NEW Q \in SUBSET P,
         NEW used \in Nat, NEW total \in Nat, NEW more \in Nat, total <= more,
         NEW f, NEW g, \A x \in P : f[x] \in 0..MaxCost, \A x \in Q : g[x] = f[x],
         Fits(used, total, P, f)
  PROVE  Fits(used, more, Q, g)
<1> DEFINE p == Cardinality(P)
           q == Cardinality(Q)
           limit == total + (N - 1) * MaxCost
<1>1. /\ p \in Nat /\ q \in Nat /\ N \in Nat /\ MaxCost \in Nat
      /\ Q # {} => q >= 1
      /\ P # {} => p >= 1
      /\ q <= p /\ (q = p => Q = P)
  <2>1. Q \in SUBSET BudgetRequests
    OBVIOUS
  <2>2. q <= p /\ (q = p => Q = P)
    BY Requests, FS_Subset
  <2> QED
    BY <2>1, <2>2, Requests, AmountsAssumption
<1>2. limit \in Int /\ limit <= more + (N - 1) * MaxCost
  BY <1>1, Times
<1>3. CASE P = {}
  BY <1>1, <1>2, <1>3, Times DEF Fits
<1>4. CASE P # {}
  <2>1. PICK x \in P : used + f[x] + (p - 1) * MaxCost <= limit
    BY <1>4 DEF Fits
  <2>2. f[x] \in Nat /\ (p - 1) * MaxCost \in Nat
    BY <1>1, <1>4, Times
  <2>3. CASE Q = {}
    BY <1>1, <1>2, <2>1, <2>2, <2>3, Times DEF Fits
  <2>4. CASE Q # {} /\ x \in Q
    <3>1. (q - 1) * MaxCost <= (p - 1) * MaxCost /\ (q - 1) * MaxCost \in Int
      BY <1>1, Times
    <3>2. used + g[x] + (q - 1) * MaxCost <= more + (N - 1) * MaxCost
      BY <1>1, <1>2, <2>1, <2>2, <2>4, <3>1, Times
    <3> QED
      BY <2>4, <3>2 DEF Fits
  <2>5. CASE Q # {} /\ x \notin Q
    <3>1. q <= p - 1
      BY <1>1, <2>5
    <3>2. PICK z \in Q : TRUE
      BY <2>5
    <3>3. g[z] \in 0..MaxCost
      BY <3>2
    <3>4. q * MaxCost = (q - 1) * MaxCost + MaxCost /\ q * MaxCost <= (p - 1) * MaxCost
          /\ (q - 1) * MaxCost \in Int
      <4>1. q = (q - 1) + 1 /\ q - 1 \in Int /\ p - 1 \in Int
        BY <1>1
      <4> QED
        BY <1>1, <3>1, <4>1, Times
    <3>5. used + g[z] + (q - 1) * MaxCost <= more + (N - 1) * MaxCost
      BY <1>1, <1>2, <2>1, <2>2, <3>3, <3>4, Times
    <3> QED
      BY <2>5, <3>2, <3>5 DEF Fits
  <2> QED
    BY <2>3, <2>4, <2>5
<1> QED
  BY <1>3, <1>4

(* A charge uses the room of the request that makes it.                    *)
LEMMA FitsCharged ==
  ASSUME NEW P \in SUBSET BudgetRequests, NEW y \in P,
         NEW used \in Nat, NEW total \in Nat,
         NEW f, NEW g, \A x \in P : f[x] \in 0..MaxCost, \A x \in P \ {y} : g[x] = f[x],
         Fits(used, total, P, f)
  PROVE  Fits(used + f[y], total, P \ {y}, g)
<1> DEFINE p == Cardinality(P)
           Q == P \ {y}
           limit == total + (N - 1) * MaxCost
<1>1. p \in Nat /\ p >= 1 /\ N \in Nat /\ MaxCost \in Nat /\ limit \in Int
  <2>1. p \in Nat /\ p >= 1 /\ N \in Nat /\ MaxCost \in Nat
    BY Requests, AmountsAssumption
  <2>2. (N - 1) * MaxCost \in Int
    BY <2>1, Times
  <2> QED
    BY <2>1, <2>2
<1>2. Cardinality(Q) = p - 1
  BY Requests, FS_RemoveElement
<1>3. PICK x \in P : used + f[x] + (p - 1) * MaxCost <= limit
  BY DEF Fits
<1>4. f[x] \in 0..MaxCost /\ f[y] \in 0..MaxCost
  OBVIOUS
<1>5. CASE Q = {}
  <2>1. x = y
    BY <1>5
  <2>2. (p - 1) * MaxCost \in Nat
    BY <1>1, Times
  <2>3. used + f[y] <= limit
    BY <1>1, <1>3, <1>4, <2>1, <2>2
  <2> QED
    BY <1>5, <2>3 DEF Fits
<1>6. CASE Q # {}
  <2>1. /\ (p - 1) * MaxCost = (p - 2) * MaxCost + MaxCost
        /\ (p - 2) * MaxCost \in Int
    <3>1. p - 1 = (p - 2) + 1 /\ p - 2 \in Int
      BY <1>1
    <3> QED
      BY <3>1, Times
  <2>2. \E z \in Q : used + f[y] + g[z] + (p - 2) * MaxCost <= limit
    <3>1. CASE x = y
      <4>1. PICK z \in Q : TRUE
        BY <1>6
      <4>2. g[z] \in 0..MaxCost
        BY <4>1
      <4>3. used + f[y] + g[z] + (p - 2) * MaxCost <= limit
        BY <1>1, <1>3, <1>4, <2>1, <3>1, <4>2
      <4> QED
        BY <4>1, <4>3
    <3>2. CASE x # y
      <4>1. x \in Q /\ g[x] = f[x]
        BY <3>2
      <4>2. used + f[y] + g[x] + (p - 2) * MaxCost <= limit
        BY <1>1, <1>3, <1>4, <2>1, <4>1
      <4> QED
        BY <4>1, <4>2
    <3> QED
      BY <3>1, <3>2
  <2>3. Cardinality(Q) - 1 = p - 2
    BY <1>1, <1>2
  <2> QED
    BY <1>6, <2>2, <2>3 DEF Fits
<1> QED
  BY <1>5, <1>6

(* A request that found room for its cost has it, beside all the others.   *)
LEMMA FitsGranted ==
  ASSUME NEW P \in SUBSET BudgetRequests, NEW r \in P,
         NEW used \in Nat, NEW total \in Nat, NEW g, g[r] \in 0..MaxCost,
         used + g[r] <= total
  PROVE  Fits(used, total, P, g)
<1> DEFINE p == Cardinality(P)
<1>1. p \in Nat /\ N \in Nat /\ MaxCost \in Nat /\ p - 1 <= N - 1
  BY Requests, AmountsAssumption
<1>2. /\ (p - 1) * MaxCost <= (N - 1) * MaxCost
      /\ (p - 1) * MaxCost \in Int /\ (N - 1) * MaxCost \in Int
  BY <1>1, Times
<1>3. used + g[r] + (p - 1) * MaxCost <= total + (N - 1) * MaxCost
  BY <1>1, <1>2
<1> QED
  BY <1>3 DEF Fits

(* A new pool has room for whoever is already on the way.                  *)
LEMMA FitsNew ==
  ASSUME NEW P \in SUBSET BudgetRequests, BudgetRequests # {}, MaxCost <= Cap,
         NEW g, \A x \in P : g[x] \in 0..MaxCost
  PROVE  Fits(0, Cap, P, g)
<1>1. N \in Nat /\ N >= 1 /\ MaxCost \in Nat /\ Cap \in Nat
  BY Requests, AmountsAssumption
<1>2. CASE P = {}
  <2>1. (N - 1) * MaxCost \in Nat
    BY <1>1, Times
  <2> QED
    BY <1>1, <1>2, <2>1 DEF Fits
<1>3. CASE P # {}
  <2>1. PICK r \in P : TRUE
    BY <1>3
  <2>2. 0 + g[r] <= Cap
    BY <1>1, <2>1
  <2> QED
    BY <1>1, <2>1, <2>2, FitsGranted
<1> QED
  BY <1>2, <1>3

----------------------------------------------------------------------------
(* Sums.                                                                   *)

(* The sums of f over the subsets of S.                                    *)
Sums(f, S) ==
  CHOOSE sum : sum = [T \in SUBSET S |->
    IF T = {} THEN 0 ELSE f[CHOOSE x \in T : TRUE] + sum[T \ {CHOOSE x \in T : TRUE}]]

(* The sum of a function is one of them.                                   *)
LEMMA SumIsLast == ASSUME NEW f PROVE SumFunction(f) = Sums(f, DOMAIN f)[DOMAIN f]
BY DEF SumFunction, SumFunctionOnSet, FoldFunctionOnSet, MapThenFoldSet, Sums

(* A set of natural numbers has a least element.                           *)
LEMMA Least ==
  ASSUME NEW T \in SUBSET Nat, T # {}
  PROVE  \E x \in T : \A y \in T : x <= y
<1> DEFINE R == OpToRel(<, Nat)
<1>1. IsWellFoundedOn(R, Nat)
  BY NatLessThanWellFounded
<1>2. \A x, y \in Nat : <<y, x>> \in R <=> y < x
  BY DEF OpToRel
<1> HIDE DEF R
<1>3. PICK x \in T : \A y \in T : ~ (<<y, x>> \in R)
  BY <1>1, WFMin
<1>4. \A y \in T : x <= y
  <2> TAKE y \in T
  <2>1. x \in Nat /\ y \in Nat
    OBVIOUS
  <2>2. ~(<<y, x>> \in R)
    BY <1>3
  <2>3. ~(y < x)
    BY <1>2, <2>1, <2>2, Zenon
  <2> QED
    BY <2>1, <2>3
<1> QED
  BY <1>4

(* Induction, over a set.                                                  *)
LEMMA Induction ==
  ASSUME NEW P, 0 \in P, \A n \in Nat : n \in P => n + 1 \in P
  PROVE  Nat \subseteq P
<1> SUFFICES ASSUME Nat \ P # {} PROVE FALSE
  OBVIOUS
<1>1. PICK x \in Nat \ P : \A y \in Nat \ P : x <= y
  BY Least
<1>2. x # 0
  BY <1>1
<1>3. x - 1 \in P
  BY <1>1, <1>2
<1> QED
  BY <1>1, <1>2, <1>3

(* The element that a sum takes first.                                     *)
Some(T) == CHOOSE x \in T : TRUE

(* The sums over the subsets of up to n elements.                          *)
IsSum(f, g, T) == g[T] = IF T = {} THEN 0 ELSE f[Some(T)] + g[T \ {Some(T)}]

UpTo(S, n) == {T \in SUBSET S : Cardinality(T) <= n}

(* One element less.                                                       *)
LEMMA OneLess ==
  ASSUME NEW S, IsFiniteSet(S), NEW T \in SUBSET S, T # {}
  PROVE  /\ Some(T) \in T /\ T \ {Some(T)} \in SUBSET S
         /\ Cardinality(T) \in Nat \ {0}
         /\ Cardinality(T \ {Some(T)}) = Cardinality(T) - 1
<1>1. Some(T) \in T
  BY DEF Some
<1>2. IsFiniteSet(T)
  BY FS_Subset
<1>3. Cardinality(T) \in Nat /\ Cardinality(T) # 0
  BY <1>2, FS_CardinalityType, FS_EmptySet
<1>4. Cardinality(T \ {Some(T)}) = Cardinality(T) - 1
  BY <1>1, <1>2, FS_RemoveElement
<1> QED
  BY <1>1, <1>3, <1>4

(* The sum over a subset is a term and the sum over the others.            *)
LEMMA SumsDefined ==
  ASSUME NEW S, IsFiniteSet(S), NEW f
  PROVE  \A T \in SUBSET S : IsSum(f, Sums(f, S), T)
<1> DEFINE Partial(n, g) == g = [T \in UpTo(S, n) |-> g[T]] /\ \A T \in UpTo(S, n) : IsSum(f, g, T)
           P == {n \in Nat : \E g : Partial(n, g)}
<1>1. \A T \in SUBSET S : IsFiniteSet(T) /\ Cardinality(T) \in Nat
  BY FS_Subset, FS_CardinalityType
<1>2. 0 \in P
  <2> DEFINE g == [T \in UpTo(S, 0) |-> 0]
  <2>1. \A T \in UpTo(S, 0) : T = {}
    BY <1>1, FS_EmptySet DEF UpTo
  <2>2. Partial(0, g)
    BY <2>1 DEF IsSum
  <2> QED
    BY <2>2
<1>3. ASSUME NEW n \in Nat, n \in P PROVE n + 1 \in P
  <2>1. PICK g : Partial(n, g)
    BY <1>3
  <2> DEFINE h == [T \in UpTo(S, n + 1) |->
                     IF T \in UpTo(S, n) THEN g[T] ELSE f[Some(T)] + g[T \ {Some(T)}]]
  <2>2. ASSUME NEW T \in UpTo(S, n + 1) PROVE IsSum(f, h, T)
    <3>1. T \in SUBSET S /\ Cardinality(T) \in Nat /\ Cardinality(T) <= n + 1
      BY <1>1 DEF UpTo
    <3>2. CASE T = {}
      <4>1. T \in UpTo(S, n)
        BY <3>1, <3>2, FS_EmptySet DEF UpTo
      <4>2. h[T] = g[T] /\ IsSum(f, g, T)
        BY <2>1, <4>1
      <4> QED
        BY <3>2, <4>2 DEF IsSum
    <3>3. CASE T # {}
      <4> DEFINE U == T \ {Some(T)}
      <4>1. U \in UpTo(S, n) /\ U \in UpTo(S, n + 1)
        BY <3>1, <3>3, OneLess DEF UpTo
      <4>2. h[U] = g[U]
        BY <4>1
      <4>3. CASE T \in UpTo(S, n)
        BY <2>1, <3>3, <4>2, <4>3 DEF IsSum
      <4>4. CASE T \notin UpTo(S, n)
        BY <3>3, <4>2, <4>4 DEF IsSum
      <4> QED
        BY <4>3, <4>4
    <3> QED
      BY <3>2, <3>3
  <2>3. Partial(n + 1, h)
    BY <2>2
  <2> HIDE DEF Partial, h
  <2> QED
    BY <2>3
<1>4. Nat \subseteq P
  <2> HIDE DEF P
  <2>1. \A n \in Nat : n \in P => n + 1 \in P
    BY <1>3
  <2> QED
    BY <1>2, <2>1, Induction
<1>5. PICK g : Partial(Cardinality(S), g)
  BY <1>1, <1>4
<1>6. UpTo(S, Cardinality(S)) = SUBSET S
  BY FS_Subset DEF UpTo
<1>7. g = [T \in SUBSET S |->
             IF T = {} THEN 0 ELSE f[CHOOSE x \in T : TRUE] + g[T \ {CHOOSE x \in T : TRUE}]]
  <2>1. \A T \in SUBSET S :
          g[T] = IF T = {} THEN 0 ELSE f[CHOOSE x \in T : TRUE] + g[T \ {CHOOSE x \in T : TRUE}]
    BY <1>5, <1>6 DEF IsSum, Some
  <2>2. g = [T \in SUBSET S |-> g[T]]
    BY <1>5, <1>6
  <2> QED
    BY <2>1, <2>2
<1>8. Sums(f, S) =
        [T \in SUBSET S |-> IF T = {} THEN 0
           ELSE f[CHOOSE x \in T : TRUE] + Sums(f, S)[T \ {CHOOSE x \in T : TRUE}]]
  BY <1>7 DEF Sums
<1> QED
  BY <1>8 DEF IsSum, Some

(* Induction over the subsets of a finite set, an element at a time.       *)
LEMMA SubsetInduction ==
  ASSUME NEW S, IsFiniteSet(S), NEW Q, {} \in Q,
         \A T \in SUBSET S : T # {} /\ T \ {Some(T)} \in Q => T \in Q
  PROVE  SUBSET S \subseteq Q
<1> DEFINE P == {n \in Nat : UpTo(S, n) \subseteq Q}
<1>1. \A T \in SUBSET S : IsFiniteSet(T) /\ Cardinality(T) \in Nat
  BY FS_Subset, FS_CardinalityType
<1>2. 0 \in P
  <2>1. \A T \in UpTo(S, 0) : T = {}
    BY <1>1, FS_EmptySet DEF UpTo
  <2> QED
    BY <2>1
<1>3. ASSUME NEW n \in Nat, n \in P PROVE n + 1 \in P
  <2> SUFFICES ASSUME NEW T \in UpTo(S, n + 1) PROVE T \in Q
    OBVIOUS
  <2>1. T \in SUBSET S /\ Cardinality(T) <= n + 1
    BY DEF UpTo
  <2>2. CASE T # {}
    <3>1. T \ {Some(T)} \in UpTo(S, n)
      BY <2>1, <2>2, OneLess DEF UpTo
    <3> QED
      BY <1>3, <2>1, <2>2, <3>1
  <2> QED
    BY <2>2
<1>4. Nat \subseteq P
  <2> HIDE DEF P
  <2>1. \A n \in Nat : n \in P => n + 1 \in P
    BY <1>3
  <2> QED
    BY <1>2, <2>1, Induction
<1>5. UpTo(S, Cardinality(S)) = SUBSET S
  BY FS_Subset DEF UpTo
<1> QED
  BY <1>1, <1>4, <1>5

(* A sum of integers is one.                                               *)
LEMMA SumsTyped ==
  ASSUME NEW S, IsFiniteSet(S), NEW f, \A x \in S : f[x] \in Int
  PROVE  \A T \in SUBSET S : Sums(f, S)[T] \in Int
<1> DEFINE Q == {T \in SUBSET S : Sums(f, S)[T] \in Int}
<1>1. {} \in Q
  <2>1. IsSum(f, Sums(f, S), {})
    BY SumsDefined
  <2>2. Sums(f, S)[{}] = 0
    BY <2>1 DEF IsSum
  <2> QED
    BY <2>2
<1>2. ASSUME NEW T \in SUBSET S, T # {}, T \ {Some(T)} \in Q PROVE T \in Q
  BY <1>2, OneLess, SumsDefined DEF IsSum
<1>3. SUBSET S \subseteq Q
  <2> HIDE DEF Q
  <2> QED
    BY <1>1, <1>2, SubsetInduction
<1> QED
  BY <1>3

(* What is added to one term is added to the sum.                          *)
LEMMA SumsChanged ==
  ASSUME NEW S, IsFiniteSet(S), NEW f, \A x \in S : f[x] \in Int,
         NEW y \in S, NEW d \in Int, NEW g, g[y] = f[y] + d, \A x \in S \ {y} : g[x] = f[x]
  PROVE  Sums(g, S)[S] = Sums(f, S)[S] + d
<1> DEFINE Q == {T \in SUBSET S : Sums(g, S)[T] = Sums(f, S)[T] + IF y \in T THEN d ELSE 0}
<1>1. {} \in Q
  <2>1. IsSum(f, Sums(f, S), {}) /\ IsSum(g, Sums(g, S), {})
    BY SumsDefined
  <2>2. Sums(f, S)[{}] = 0 /\ Sums(g, S)[{}] = 0
    BY <2>1 DEF IsSum
  <2> QED
    BY <2>2
<1>2. ASSUME NEW T \in SUBSET S, T # {}, T \ {Some(T)} \in Q PROVE T \in Q
  <2> DEFINE x == Some(T)
             U == T \ {x}
  <2>1. x \in S /\ x \in T /\ U \in SUBSET S
    BY <1>2, OneLess
  <2>2. f[x] \in Int /\ f[y] \in Int /\ Sums(f, S)[U] \in Int
    BY <2>1, SumsTyped
  <2>3. Sums(f, S)[T] = f[x] + Sums(f, S)[U] /\ Sums(g, S)[T] = g[x] + Sums(g, S)[U]
    BY <1>2, SumsDefined DEF IsSum
  <2>4. Sums(g, S)[U] = Sums(f, S)[U] + IF y \in U THEN d ELSE 0
    BY <1>2
  <2>5. CASE y = x
    <3>1. y \notin U /\ y \in T
      BY <2>1, <2>5
    <3> HIDE DEF x, U
    <3>2. Sums(g, S)[T] = Sums(f, S)[T] + d
      BY <2>2, <2>3, <2>4, <2>5, <3>1
    <3> QED
      BY <3>1, <3>2
  <2>6. CASE y # x
    <3>1. (y \in U <=> y \in T) /\ g[x] = f[x]
      BY <2>1, <2>6
    <3> HIDE DEF x, U
    <3>2. CASE y \in T
      BY <2>2, <2>3, <2>4, <3>1, <3>2
    <3>3. CASE y \notin T
      BY <2>2, <2>3, <2>4, <3>1, <3>3
    <3> QED
      BY <3>2, <3>3
  <2> QED
    BY <2>5, <2>6
<1>3. SUBSET S \subseteq Q
  <2> HIDE DEF Q
  <2> QED
    BY <1>1, <1>2, SubsetInduction
<1> QED
  BY <1>3

(* One term changes.                                                       *)
LEMMA SumMoves ==
  ASSUME NEW S, IsFiniteSet(S), NEW f \in [S -> Int], NEW g \in [S -> Int],
         NEW y \in S, \A x \in S \ {y} : g[x] = f[x]
  PROVE  /\ SumFunction(f) \in Int /\ SumFunction(g) \in Int
         /\ SumFunction(g) = SumFunction(f) + (g[y] - f[y])
<1>1. DOMAIN f = S /\ DOMAIN g = S /\ f[y] \in Int /\ g[y] \in Int
  OBVIOUS
<1>2. SumFunction(f) \in Int /\ SumFunction(g) \in Int
  BY <1>1, SumIsLast, SumsTyped
<1>3. PICK d \in Int : d = g[y] - f[y]
  BY <1>1
<1>4. g[y] = f[y] + d /\ \A x \in S : f[x] \in Int
  BY <1>1, <1>3
<1>5. Sums(g, S)[S] = Sums(f, S)[S] + d
  BY <1>4, SumsChanged
<1> QED
  BY <1>1, <1>2, <1>3, <1>5, SumIsLast

(* Sums of natural numbers are natural numbers.                            *)
LEMMA SumsNatural ==
  ASSUME NEW S, IsFiniteSet(S), NEW f \in [S -> Nat]
  PROVE  SumFunction(f) \in Nat
<1> DEFINE Q == {T \in SUBSET S : Sums(f, S)[T] \in Nat}
<1>1. {} \in Q
  <2>1. IsSum(f, Sums(f, S), {})
    BY SumsDefined
  <2>2. Sums(f, S)[{}] = 0
    BY <2>1 DEF IsSum
  <2> QED
    BY <2>2
<1>2. ASSUME NEW T \in SUBSET S, T # {}, T \ {Some(T)} \in Q PROVE T \in Q
  <2>1. f[Some(T)] \in Nat
    BY <1>2, OneLess
  <2>2. Sums(f, S)[T] = f[Some(T)] + Sums(f, S)[T \ {Some(T)}]
    BY <1>2, SumsDefined DEF IsSum
  <2> QED
    BY <1>2, <2>1, <2>2
<1>3. SUBSET S \subseteq Q
  <2> HIDE DEF Q
  <2> QED
    BY <1>1, <1>2, SubsetInduction
<1>4. DOMAIN f = S /\ S \in SUBSET S
  OBVIOUS
<1> QED
  BY <1>3, <1>4, SumIsLast

(* A sum of nothing but zeros.                                             *)
LEMMA SumOfZeros ==
  ASSUME NEW S, IsFiniteSet(S), NEW f \in [S -> {0}]
  PROVE  SumFunction(f) = 0
<1> DEFINE Q == {T \in SUBSET S : Sums(f, S)[T] = 0}
<1>1. {} \in Q
  <2>1. IsSum(f, Sums(f, S), {})
    BY SumsDefined
  <2>2. Sums(f, S)[{}] = 0
    BY <2>1 DEF IsSum
  <2> QED
    BY <2>2
<1>2. ASSUME NEW T \in SUBSET S, T # {}, T \ {Some(T)} \in Q PROVE T \in Q
  <2>1. f[Some(T)] = 0
    BY <1>2, OneLess
  <2>2. Sums(f, S)[T] = f[Some(T)] + Sums(f, S)[T \ {Some(T)}]
    BY <1>2, SumsDefined DEF IsSum
  <2> QED
    BY <1>2, <2>1, <2>2
<1>3. SUBSET S \subseteq Q
  <2> HIDE DEF Q
  <2> QED
    BY <1>1, <1>2, SubsetInduction
<1>4. DOMAIN f = S /\ S \in SUBSET S
  OBVIOUS
<1> QED
  BY <1>3, <1>4, SumIsLast

----------------------------------------------------------------------------
(* The state.                                                              *)

(* The program counter of a request determines which fields it has.        *)
LEMMA RequestFields ==
  ASSUME NEW q \in Request
  PROVE  /\ q.pc \in HasMonth => q.month \in 1..Months
         /\ q.pc \in {"check", "company", "pool", "log", "granted"} =>
              q.company \in BudgetCompanies /\ q.cost \in 1..MaxCost
         /\ q.pc \in {"contribute", "fund"} => q.amount \in Contributions
BY DEF Request, NoRequest, HasMonth

(* An idle request is a request.                                           *)
LEMMA NoRequestFields == NoRequest \in Request /\ NoRequest.pc = "idle"
BY DEF Request, NoRequest

(* What a row is charged or given leaves it a row of its month.            *)
LEMMA RowChanged ==
  ASSUME NEW row \in BudgetRow, NEW amount \in Nat
  PROVE  /\ [row EXCEPT !.used = @ + amount] \in BudgetRow
         /\ [row EXCEPT !.total = @ + amount] \in BudgetRow
         /\ [row EXCEPT !.used = @ + amount].month = row.month
         /\ [row EXCEPT !.total = @ + amount].month = row.month
<1>1. row.used + amount \in Nat /\ row.total + amount \in Nat /\ row.month \in 1..Months
  BY DEF BudgetRow
<1> QED
  BY <1>1 DEF BudgetRow

(* An update of the rows of a month leaves every row a row of its month.   *)
LEMMA RowsChanged ==
  ASSUME llm_global_budget \in Seq(BudgetRow), NEW m \in 1..Months, NEW amount \in Nat,
         NEW rows,
         \/ rows = [i \in DOMAIN llm_global_budget |->
              IF i \in BudgetRowsOf(m)
              THEN [llm_global_budget[i] EXCEPT !.used = @ + amount]
              ELSE llm_global_budget[i]]
         \/ rows = [i \in DOMAIN llm_global_budget |->
              IF i \in BudgetRowsOf(m)
              THEN [llm_global_budget[i] EXCEPT !.total = @ + amount]
              ELSE llm_global_budget[i]]
  PROVE  /\ rows \in Seq(BudgetRow)
         /\ DOMAIN rows = DOMAIN llm_global_budget
         /\ \A i \in DOMAIN llm_global_budget : rows[i].month = llm_global_budget[i].month
<1>1. DOMAIN llm_global_budget = 1..Len(llm_global_budget) /\ Len(llm_global_budget) \in Nat
  OBVIOUS
<1>2. \A i \in DOMAIN llm_global_budget : llm_global_budget[i] \in BudgetRow
  OBVIOUS
<1>3. \A i \in DOMAIN llm_global_budget :
        rows[i] \in BudgetRow /\ rows[i].month = llm_global_budget[i].month
  <2> SUFFICES ASSUME NEW i \in DOMAIN llm_global_budget
               PROVE  rows[i] \in BudgetRow /\ rows[i].month = llm_global_budget[i].month
    OBVIOUS
  <2> DEFINE row == llm_global_budget[i]
  <2>1. row \in BudgetRow
    BY <1>2
  <2>2. \/ rows[i] = row
        \/ rows[i] = [row EXCEPT !.used = @ + amount]
        \/ rows[i] = [row EXCEPT !.total = @ + amount]
    OBVIOUS
  <2> HIDE DEF row
  <2>3. rows[i] \in BudgetRow /\ rows[i].month = row.month
    BY <2>1, <2>2, RowChanged
  <2> QED
    BY <2>3 DEF row
<1>4. DOMAIN rows = 1..Len(llm_global_budget) /\ rows = [i \in DOMAIN rows |-> rows[i]]
  BY <1>1
<1>5. rows \in [1..Len(llm_global_budget) -> BudgetRow]
  BY <1>1, <1>3, <1>4
<1> QED
  BY <1>1, <1>3, <1>4, <1>5

(* Every owing request has a cost.                                         *)
LEMMA OwingCosts ==
  ASSUME PoolTypeOK, NEW m
  PROVE  /\ Owing(m) \in SUBSET BudgetRequests
         /\ \A x \in Owing(m) : Cost[x] \in 0..MaxCost /\ Cost[x] = request[x].cost
<1> SUFFICES ASSUME NEW x \in Owing(m)
             PROVE  Cost[x] \in 0..MaxCost /\ Cost[x] = request[x].cost
  BY DEF Owing
<1>1. x \in BudgetRequests /\ request[x] \in Request
  BY DEF Owing, PoolTypeOK
<1>2. request[x].pc \in {"check", "company", "pool", "granted"}
  BY DEF Owing, MayCharge
<1>3. request[x].cost \in 1..MaxCost
  BY <1>1, <1>2, RequestFields
<1> QED
  BY <1>1, <1>3, AmountsAssumption DEF Cost

(* The steps of a request leave what the others owe, and their costs.      *)
LEMMA OthersOwe ==
  ASSUME PoolTypeOK, NEW r \in BudgetRequests, NEW q, Step(r, q), UNCHANGED month, NEW m
  PROVE  /\ \A x \in BudgetRequests \ {r} :
              (MayCharge(x, m)' <=> MayCharge(x, m)) /\ Cost'[x] = Cost[x]
         /\ Owing(m)' \ {r} = Owing(m) \ {r}
         /\ r \in Owing(m)' <=> MayCharge(r, m)'
         /\ r \in Owing(m) <=> MayCharge(r, m)
         /\ request'[r] = q /\ Cost'[r] = q.cost
<1>1. \A x \in BudgetRequests : request'[x] = IF x = r THEN q ELSE request[x]
  BY DEF PoolTypeOK, Step
<1>2. \A x \in BudgetRequests \ {r} : (MayCharge(x, m)' <=> MayCharge(x, m)) /\ Cost'[x] = Cost[x]
  BY <1>1 DEF MayCharge, Cost
<1>3. request'[r] = q /\ Cost'[r] = q.cost
  BY <1>1 DEF Cost
<1>4. \A x : (x \in Owing(m)' <=> x \in BudgetRequests /\ MayCharge(x, m)')
  BY DEF Owing
<1>5. \A x : (x \in Owing(m) <=> x \in BudgetRequests /\ MayCharge(x, m))
  BY DEF Owing
<1> QED
  BY <1>2, <1>3, <1>4, <1>5

(* What the first row and the owing requests must be after a step for the  *)
(* pool of a month still to fit.                                           *)
LEMMA KeepsFirst ==
  ASSUME NEW m \in 1..Months, NEW i \in DOMAIN llm_global_budget, FirstFits(m, i),
         DOMAIN llm_global_budget' = DOMAIN llm_global_budget,
         \A k \in DOMAIN llm_global_budget :
           llm_global_budget'[k].month = llm_global_budget[k].month,
         MaxCost <= Cap =>
           Fits(llm_global_budget'[i].used, llm_global_budget'[i].total, Owing(m)', Cost')
  PROVE  FirstFits(m, i)'
<1>1. BudgetRowsOf(m)' = BudgetRowsOf(m)
  BY DEF BudgetRowsOf
<1> QED
  BY <1>1 DEF FirstFits

(* A request that takes a step without charging or being granted.          *)
LEMMA MovesFit ==
  ASSUME BudgetStands, NEW r \in BudgetRequests, NEW q, Step(r, q), UNCHANGED month,
         llm_global_budget' \in Seq(BudgetRow),
         DOMAIN llm_global_budget' = DOMAIN llm_global_budget,
         \A i \in DOMAIN llm_global_budget :
           /\ llm_global_budget'[i].month = llm_global_budget[i].month
           /\ llm_global_budget'[i].used = llm_global_budget[i].used
           /\ llm_global_budget'[i].total >= llm_global_budget[i].total,
         \A m \in 1..month : MayCharge(r, m)' => MayCharge(r, m) /\ q.cost = request[r].cost
  PROVE  PoolsFit'
<1> SUFFICES ASSUME NEW m \in 1..Months, BudgetRowsOf(m)' # {}
             PROVE  (\E i \in DOMAIN llm_global_budget : FirstFits(m, i))'
  BY DEF PoolsFit
<1>1. BudgetRowsOf(m)' = BudgetRowsOf(m)
  BY DEF BudgetRowsOf
<1>2. PICK i \in DOMAIN llm_global_budget : FirstFits(m, i)
  BY <1>1 DEF BudgetStands, PoolsFit
<1>3. m \in 1..month
  <2>1. llm_global_budget[i].month = m
    BY <1>2 DEF FirstFits, BudgetRowsOf
  <2> QED
    BY <2>1 DEF BudgetStands, InTime, PoolTypeOK
<1>4. /\ llm_global_budget[i] \in BudgetRow /\ llm_global_budget'[i] \in BudgetRow
      /\ PoolTypeOK
  BY DEF BudgetStands, PoolTypeOK
<1>5. /\ Owing(m)' \in SUBSET Owing(m)
      /\ \A x \in Owing(m)' : Cost'[x] = Cost[x]
  <2>1. /\ \A x \in BudgetRequests \ {r} :
             (MayCharge(x, m)' <=> MayCharge(x, m)) /\ Cost'[x] = Cost[x]
        /\ r \in Owing(m)' <=> MayCharge(r, m)'
        /\ r \in Owing(m) <=> MayCharge(r, m)
        /\ Cost'[r] = q.cost
        /\ Owing(m)' \ {r} = Owing(m) \ {r}
    BY <1>4, OthersOwe
  <2>2. r \in Owing(m)' => r \in Owing(m) /\ Cost'[r] = Cost[r]
    <3>1. Cost[r] = request[r].cost
      BY DEF Cost
    <3> QED
      BY <1>3, <2>1, <3>1
  <2>3. Owing(m)' \in SUBSET BudgetRequests
    BY DEF Owing
  <2> QED
    BY <2>1, <2>2, <2>3
<1>6. ASSUME MaxCost <= Cap
      PROVE  Fits(llm_global_budget'[i].used, llm_global_budget'[i].total, Owing(m)', Cost')
  <2>1. Fits(llm_global_budget[i].used, llm_global_budget[i].total, Owing(m), Cost)
    BY <1>2, <1>6 DEF FirstFits
  <2>2. /\ llm_global_budget[i].used \in Nat /\ llm_global_budget[i].total \in Nat
        /\ llm_global_budget'[i].total \in Nat
        /\ llm_global_budget[i].total <= llm_global_budget'[i].total
        /\ llm_global_budget'[i].used = llm_global_budget[i].used
    BY <1>4 DEF BudgetRow
  <2>3. Owing(m) \in SUBSET BudgetRequests /\ \A x \in Owing(m) : Cost[x] \in 0..MaxCost
    BY <1>4, OwingCosts
  <2>4. Fits(llm_global_budget[i].used, llm_global_budget'[i].total, Owing(m)', Cost')
    BY <1>5, <2>1, <2>2, <2>3, FitsLess
  <2> QED
    BY <2>2, <2>4
<1>7. FirstFits(m, i)'
  BY <1>2, <1>6, KeepsFirst
<1> QED
  BY <1>2, <1>7

(* The simple parts of the invariant.                                      *)
LEMMA StepTypes ==
  ASSUME BudgetStands, NEW r \in BudgetRequests, NEW q \in Request, Step(r, q), UNCHANGED month,
         llm_global_budget' \in Seq(BudgetRow),
         \A i \in DOMAIN llm_global_budget' : llm_global_budget'[i].month <= month,
         q.pc \in HasMonth => q.month <= month,
         q.pc \in {"check", "pool"} => q.company \in Basic
  PROVE  PoolTypeOK' /\ InTime' /\ BasicOnly'
<1>1. request' \in [BudgetRequests -> Request]
  BY DEF BudgetStands, PoolTypeOK, Step
<1>2. \A x \in BudgetRequests : request'[x] = IF x = r THEN q ELSE request[x]
  BY DEF BudgetStands, PoolTypeOK, Step
<1>3. PoolTypeOK'
  BY <1>1 DEF BudgetStands, PoolTypeOK
<1>4. InTime'
  BY <1>2 DEF BudgetStands, InTime
<1>5. BasicOnly'
  BY <1>2 DEF BudgetStands, BasicOnly
<1> QED
  BY <1>3, <1>4, <1>5

(* A step of a request that leaves the pools alone and comes to owe nothing*)
(* new.                                                                    *)
LEMMA MoveKeepsBudget ==
  ASSUME BudgetStands, NEW r \in BudgetRequests, NEW q \in Request, Step(r, q),
         UNCHANGED <<month, llm_global_budget>>,
         q.pc \in HasMonth => q.month <= month,
         q.pc \in {"check", "pool"} => q.company \in Basic,
         \A m \in 1..month : MayCharge(r, m)' => MayCharge(r, m) /\ q.cost = request[r].cost
  PROVE  BudgetStands'
<1>1. \A i \in DOMAIN llm_global_budget :
        llm_global_budget[i] \in BudgetRow /\ llm_global_budget[i].month <= month
  BY DEF BudgetStands, PoolTypeOK, InTime
<1>2. \A i \in DOMAIN llm_global_budget : llm_global_budget[i].total >= llm_global_budget[i].total
  BY <1>1 DEF BudgetRow
<1>3. llm_global_budget \in Seq(BudgetRow)
  BY DEF BudgetStands, PoolTypeOK
<1>4. PoolTypeOK' /\ InTime' /\ BasicOnly'
  BY <1>1, <1>3, StepTypes
<1>5. PoolsFit'
  BY <1>2, <1>3, MovesFit
<1> QED
  BY <1>4, <1>5 DEF BudgetStands

(* A request that owes nothing afterwards.                                 *)
LEMMA QuietKeepsBudget ==
  ASSUME BudgetStands, NEW r \in BudgetRequests, NEW q \in Request, Step(r, q),
         UNCHANGED <<month, llm_global_budget>>,
         q.pc \in {"idle", "ensure", "bootstrap", "log", "contribute", "fund"},
         q.pc \in HasMonth => q.month <= month
  PROVE  BudgetStands'
<1>1. request'[r] = q
  BY DEF BudgetStands, PoolTypeOK, Step
<1>2. \A m \in 1..month : ~MayCharge(r, m)'
  BY <1>1 DEF MayCharge
<1> QED
  BY <1>2, MoveKeepsBudget

(* A new row is the first of its month if the month has none.              *)
LEMMA BootstrapKeepsBudget ==
  ASSUME BudgetStands, NEW r \in BudgetRequests, Bootstrap(r)
  PROVE  BudgetStands'
<1> DEFINE n == Len(llm_global_budget)
           k == request[r].month
           row == [month |-> k, total |-> Cap, used |-> 0]
<1>1. /\ llm_global_budget \in Seq(BudgetRow) /\ n \in Nat
      /\ DOMAIN llm_global_budget = 1..n
      /\ request[r] \in Request /\ request[r].pc = "bootstrap"
      /\ PoolTypeOK
  BY DEF BudgetStands, PoolTypeOK, Bootstrap
<1>2. k \in 1..Months /\ k <= month
  BY <1>1, RequestFields DEF BudgetStands, InTime, HasMonth
<1>3. row \in BudgetRow /\ row.month = k
  BY <1>2, AmountsAssumption DEF BudgetRow
<1>4. /\ llm_global_budget' = Append(llm_global_budget, row)
      /\ Step(r, NoRequest) /\ UNCHANGED month
  BY DEF Bootstrap
<1> HIDE DEF row
<1>5. /\ llm_global_budget' \in Seq(BudgetRow)
      /\ DOMAIN llm_global_budget' = 1..(n + 1)
      /\ \A i \in 1..n : llm_global_budget'[i] = llm_global_budget[i]
      /\ llm_global_budget'[n + 1] = row
  BY <1>1, <1>3, <1>4
<1>6. PoolTypeOK' /\ InTime' /\ BasicOnly'
  <2>1. \A i \in 1..(n + 1) : llm_global_budget'[i].month <= month
    BY <1>1, <1>2, <1>3, <1>5 DEF BudgetStands, InTime
  <2> QED
    BY <1>4, <1>5, <2>1, NoRequestFields, StepTypes DEF HasMonth
<1>7. ASSUME NEW m \in 1..Months
      PROVE  /\ Owing(m)' = Owing(m)
             /\ \A x \in Owing(m) : Cost'[x] = Cost[x]
  <2>1. ~MayCharge(r, m)
    BY <1>1 DEF MayCharge
  <2>2. request'[r].pc = "idle"
    BY <1>1, <1>4, NoRequestFields, OthersOwe
  <2>3. ~MayCharge(r, m)'
    BY <2>2 DEF MayCharge
  <2>4. /\ Owing(m)' \ {r} = Owing(m) \ {r}
        /\ r \notin Owing(m)' /\ r \notin Owing(m)
        /\ \A x \in BudgetRequests \ {r} : Cost'[x] = Cost[x]
    BY <1>1, <1>4, <2>1, <2>3, OthersOwe
  <2>5. Owing(m) \in SUBSET BudgetRequests
    BY DEF Owing
  <2> QED
    BY <2>4, <2>5
<1>8. PoolsFit'
  <2> SUFFICES ASSUME NEW m \in 1..Months, BudgetRowsOf(m)' # {}
               PROVE  (\E i \in DOMAIN llm_global_budget : FirstFits(m, i))'
    BY DEF PoolsFit
  <2>1. BudgetRowsOf(m)' = IF m = k THEN BudgetRowsOf(m) \union {n + 1} ELSE BudgetRowsOf(m)
    BY <1>1, <1>3, <1>5 DEF BudgetRowsOf
  <2>2. BudgetRowsOf(m) \subseteq 1..n
    BY <1>1 DEF BudgetRowsOf
  <2>3. CASE BudgetRowsOf(m) # {}
    <3>1. PICK i \in DOMAIN llm_global_budget : FirstFits(m, i)
      BY <2>3 DEF BudgetStands, PoolsFit
    <3>2. i \in 1..n /\ i \in BudgetRowsOf(m)' /\ \A j \in BudgetRowsOf(m)' : i <= j
      BY <1>1, <2>1, <2>2, <3>1 DEF FirstFits
    <3>3. ASSUME MaxCost <= Cap
          PROVE  Fits(llm_global_budget'[i].used, llm_global_budget'[i].total, Owing(m)', Cost')
      <4>1. Fits(llm_global_budget[i].used, llm_global_budget[i].total, Owing(m), Cost)
        BY <3>1, <3>3 DEF FirstFits
      <4>2. llm_global_budget[i].used \in Nat /\ llm_global_budget[i].total \in Nat
        <5>1. llm_global_budget[i] \in BudgetRow
          BY <1>1
        <5> QED
          BY <5>1 DEF BudgetRow
      <4>3. llm_global_budget[i].total <= llm_global_budget[i].total
        BY <4>2
      <4>4. Fits(llm_global_budget[i].used, llm_global_budget[i].total, Owing(m)', Cost')
        BY <1>1, <1>7, <4>1, <4>2, <4>3, OwingCosts, FitsLess
      <4> QED
        BY <1>5, <3>2, <4>4
    <3>4. FirstFits(m, i)'
      BY <3>2, <3>3 DEF FirstFits
    <3> QED
      BY <1>1, <1>5, <3>2, <3>4
  <2>4. CASE BudgetRowsOf(m) = {}
    <3>1. BudgetRowsOf(m)' = {n + 1}
      BY <2>1, <2>4
    <3>2. llm_global_budget'[n + 1].used = 0 /\ llm_global_budget'[n + 1].total = Cap
      BY <1>5 DEF row
    <3>3. ASSUME MaxCost <= Cap PROVE Fits(0, Cap, Owing(m)', Cost')
      <4>1. Owing(m)' \in SUBSET BudgetRequests
        BY DEF Owing
      <4>2. \A x \in Owing(m)' : Cost'[x] \in 0..MaxCost
        BY <1>1, <1>7, OwingCosts
      <4> QED
        BY <3>3, <4>1, <4>2, FitsNew
    <3>4. PICK last : last = n + 1
      OBVIOUS
    <3> HIDE DEF n
    <3>5. FirstFits(m, last)'
      BY <1>1, <3>1, <3>2, <3>3, <3>4 DEF FirstFits
    <3>6. last \in DOMAIN llm_global_budget'
      BY <1>1, <1>5, <3>4
    <3> QED
      BY <3>5, <3>6
  <2> QED
    BY <2>3, <2>4
<1> QED
  BY <1>6, <1>8 DEF BudgetStands

(* The pool of the request's month has room; for the pool of the present   *)
(* month it was counted already, unless that is the same.                  *)
LEMMA GrantKeepsBudget ==
  ASSUME BudgetStands, NEW r \in BudgetRequests, Grant(r)
  PROVE  BudgetStands'
<1> DEFINE k == request[r].month
           q == [pc |-> "granted", company |-> request[r].company, cost |-> request[r].cost]
<1>1. /\ request[r] \in Request /\ request[r].pc = "check"
      /\ PoolTypeOK
      /\ llm_global_budget \in Seq(BudgetRow)
      /\ Step(r, q) /\ UNCHANGED <<month, llm_global_budget>>
      /\ MayConsume(k, request[r].cost)
  BY DEF BudgetStands, PoolTypeOK, Grant, tables
<1>2. /\ k \in 1..Months /\ k <= month
      /\ request[r].company \in BudgetCompanies /\ request[r].company \in Basic
      /\ request[r].cost \in 1..MaxCost
  BY <1>1, RequestFields DEF BudgetStands, InTime, BasicOnly, HasMonth
<1>3. q \in Request /\ q.pc = "granted" /\ q.cost = request[r].cost /\ q.company \in Basic
  BY <1>2 DEF Request
<1> HIDE DEF q
<1>4. CASE k # month
  <2>1. \A m \in 1..month : MayCharge(r, m)' => MayCharge(r, m)
    <3>1. request'[r] = q
      BY <1>1 DEF PoolTypeOK, Step
    <3> QED
      BY <1>1, <1>3, <1>4, <3>1 DEF MayCharge
  <2> QED
    BY <1>1, <1>3, <2>1, MoveKeepsBudget DEF HasMonth
<1>5. CASE k = month
  <2>1. PoolTypeOK' /\ InTime' /\ BasicOnly'
    <3>1. \A i \in DOMAIN llm_global_budget : llm_global_budget[i].month <= month
      BY DEF BudgetStands, InTime
    <3> QED
      BY <1>1, <1>3, <3>1, StepTypes DEF HasMonth
  <2>2. PoolsFit'
    <3> SUFFICES ASSUME NEW m \in 1..Months, BudgetRowsOf(m)' # {}
                 PROVE  (\E i \in DOMAIN llm_global_budget : FirstFits(m, i))'
      BY DEF PoolsFit
    <3>1. BudgetRowsOf(m)' = BudgetRowsOf(m)
      BY <1>1 DEF BudgetRowsOf
    <3>2. PICK i \in DOMAIN llm_global_budget : FirstFits(m, i)
      BY <3>1 DEF BudgetStands, PoolsFit
    <3>3. llm_global_budget[i].used \in Nat /\ llm_global_budget[i].total \in Nat
      <4>1. llm_global_budget[i] \in BudgetRow
        BY <1>1
      <4> QED
        BY <4>1 DEF BudgetRow
    <3>4. /\ \A x \in BudgetRequests \ {r} : Cost'[x] = Cost[x]
          /\ Owing(m)' \ {r} = Owing(m) \ {r}
          /\ r \in Owing(m)' <=> MayCharge(r, m)'
          /\ request'[r] = q /\ Cost'[r] = request[r].cost
      BY <1>1, <1>3, OthersOwe
    <3>5. Owing(m)' \in SUBSET BudgetRequests /\ Owing(m) \in SUBSET BudgetRequests
      BY DEF Owing
    <3>6. ASSUME MaxCost <= Cap
          PROVE  Fits(llm_global_budget[i].used, llm_global_budget[i].total, Owing(m)', Cost')
      <4>1. CASE m = month
        <5>1. r \in Owing(m)'
          BY <1>1, <1>3, <3>4, <4>1 DEF MayCharge
        <5>2. FirstRow(m) = llm_global_budget[i]
          <6>1. i \in BudgetRowsOf(m) /\ \A j \in BudgetRowsOf(m) : i <= j
            BY <3>2 DEF FirstFits
          <6>2. BudgetRowsOf(m) \subseteq Nat
            BY <1>1 DEF BudgetRowsOf
          <6>3. \A h \in BudgetRowsOf(m) : (\A j \in BudgetRowsOf(m) : h <= j) => h = i
            BY <6>1, <6>2
          <6>4. (CHOOSE h \in BudgetRowsOf(m) : \A j \in BudgetRowsOf(m) : h <= j) = i
            BY <6>1, <6>3
          <6> QED
            BY <6>4 DEF FirstRow
        <5>3. llm_global_budget[i].used + Cost'[r] <= llm_global_budget[i].total
          BY <1>1, <1>5, <3>4, <4>1, <5>2 DEF MayConsume
        <5>4. Cost'[r] \in 0..MaxCost
          BY <1>2, <3>4, AmountsAssumption
        <5> QED
          BY <3>3, <3>5, <5>1, <5>3, <5>4, FitsGranted
      <4>2. CASE m # month
        <5>1. r \notin Owing(m)'
          BY <1>1, <1>3, <3>4, <4>2 DEF MayCharge
        <5>2. Owing(m)' \in SUBSET Owing(m) /\ \A x \in Owing(m)' : Cost'[x] = Cost[x]
          BY <3>4, <3>5, <5>1
        <5>3. Fits(llm_global_budget[i].used, llm_global_budget[i].total, Owing(m), Cost)
          BY <3>2, <3>6 DEF FirstFits
        <5>4. llm_global_budget[i].total <= llm_global_budget[i].total
          BY <3>3
        <5> QED
          BY <1>1, <3>3, <5>2, <5>3, <5>4, OwingCosts, FitsLess
      <4> QED
        BY <4>1, <4>2
    <3>7. FirstFits(m, i)'
      BY <1>1, <3>2, <3>6, KeepsFirst
    <3> QED
      BY <1>1, <3>7
  <2> QED
    BY <2>1, <2>2 DEF BudgetStands
<1> QED
  BY <1>4, <1>5

(* A charge goes to the pool of the request's month, and is owed there.    *)
LEMMA ChargeKeepsBudget ==
  ASSUME BudgetStands, NEW r \in BudgetRequests, ChargePool(r)
  PROVE  BudgetStands'
<1> DEFINE k == request[r].month
           c == request[r].cost
           q == At(r, "log")
<1>1. /\ request[r] \in Request /\ request[r].pc = "pool"
      /\ PoolTypeOK
      /\ llm_global_budget \in Seq(BudgetRow)
      /\ Step(r, q) /\ UNCHANGED month
      /\ llm_global_budget' = [i \in DOMAIN llm_global_budget |->
           IF i \in BudgetRowsOf(k)
           THEN [llm_global_budget[i] EXCEPT !.used = @ + c]
           ELSE llm_global_budget[i]]
  BY DEF BudgetStands, PoolTypeOK, ChargePool, UpdatedRows
<1>2. /\ k \in 1..Months /\ k <= month
      /\ request[r].company \in BudgetCompanies /\ request[r].company \in Basic
      /\ c \in 1..MaxCost /\ c \in Nat
  <2>1. /\ k \in 1..Months /\ k <= month
        /\ request[r].company \in BudgetCompanies /\ request[r].company \in Basic
        /\ c \in 1..MaxCost
    BY <1>1, RequestFields DEF BudgetStands, InTime, BasicOnly, HasMonth
  <2> QED
    BY <2>1
<1>3. q \in Request /\ q.pc = "log" /\ q.month = k
  BY <1>2 DEF Request, At
<1>4. /\ llm_global_budget' \in Seq(BudgetRow)
      /\ DOMAIN llm_global_budget' = DOMAIN llm_global_budget
      /\ \A i \in DOMAIN llm_global_budget :
           llm_global_budget'[i].month = llm_global_budget[i].month
  BY <1>1, <1>2, RowsChanged
<1> HIDE DEF q
<1>5. PoolTypeOK' /\ InTime' /\ BasicOnly'
  <2>1. \A i \in DOMAIN llm_global_budget' : llm_global_budget'[i].month <= month
    BY <1>4 DEF BudgetStands, InTime
  <2> QED
    BY <1>1, <1>2, <1>3, <1>4, <2>1, StepTypes DEF HasMonth
<1>6. PoolsFit'
  <2> SUFFICES ASSUME NEW m \in 1..Months, BudgetRowsOf(m)' # {}
               PROVE  (\E i \in DOMAIN llm_global_budget : FirstFits(m, i))'
    BY DEF PoolsFit
  <2>1. BudgetRowsOf(m)' = BudgetRowsOf(m)
    BY <1>4 DEF BudgetRowsOf
  <2>2. PICK i \in DOMAIN llm_global_budget : FirstFits(m, i)
    BY <2>1 DEF BudgetStands, PoolsFit
  <2>3. i \in BudgetRowsOf(m) /\ llm_global_budget[i].month = m
    BY <2>2 DEF FirstFits, BudgetRowsOf
  <2>4. /\ llm_global_budget[i].used \in Nat /\ llm_global_budget[i].total \in Nat
        /\ llm_global_budget[i] \in BudgetRow
    <3>1. llm_global_budget[i] \in BudgetRow
      BY <1>1
    <3> QED
      BY <3>1 DEF BudgetRow
  <2>5. /\ \A x \in BudgetRequests \ {r} : Cost'[x] = Cost[x]
        /\ Owing(m)' \ {r} = Owing(m) \ {r}
        /\ r \in Owing(m)' <=> MayCharge(r, m)'
        /\ r \in Owing(m) <=> MayCharge(r, m)
        /\ request'[r] = q
    BY <1>1, OthersOwe
  <2>6. Owing(m) \in SUBSET BudgetRequests /\ Owing(m)' \in SUBSET BudgetRequests
    BY DEF Owing
  <2>7. r \notin Owing(m)'
    BY <1>3, <2>5 DEF MayCharge
  <2>8. \A x \in Owing(m) : Cost[x] \in 0..MaxCost /\ Cost[x] = request[x].cost
    BY <1>1, OwingCosts
  <2>9. ASSUME MaxCost <= Cap
        PROVE  Fits(llm_global_budget'[i].used, llm_global_budget'[i].total, Owing(m)', Cost')
    <3>1. Fits(llm_global_budget[i].used, llm_global_budget[i].total, Owing(m), Cost)
      BY <2>2, <2>9 DEF FirstFits
    <3>2. CASE m = k
      <4>1. r \in Owing(m) /\ Owing(m)' = Owing(m) \ {r} /\ Cost[r] = c
        BY <1>1, <1>2, <2>5, <2>6, <2>7, <2>8, <3>2 DEF MayCharge
      <4>2. llm_global_budget'[i] = [llm_global_budget[i] EXCEPT !.used = @ + c]
        BY <1>1, <2>3, <3>2
      <4>3. /\ llm_global_budget'[i].used = llm_global_budget[i].used + Cost[r]
            /\ llm_global_budget'[i].total = llm_global_budget[i].total
        BY <2>4, <4>1, <4>2 DEF BudgetRow
      <4>4. \A x \in Owing(m) \ {r} : Cost'[x] = Cost[x]
        BY <2>5, <2>6
      <4>5. Fits(llm_global_budget[i].used + Cost[r], llm_global_budget[i].total,
                 Owing(m) \ {r}, Cost')
        BY <2>4, <2>6, <2>8, <3>1, <4>1, <4>4, FitsCharged
      <4> QED
        BY <4>1, <4>3, <4>5
    <3>3. CASE m # k
      <4>1. i \notin BudgetRowsOf(k)
        BY <2>3, <3>3 DEF BudgetRowsOf
      <4>2. llm_global_budget'[i] = llm_global_budget[i]
        BY <1>1, <4>1
      <4>3. Owing(m)' \in SUBSET Owing(m) /\ \A x \in Owing(m)' : Cost'[x] = Cost[x]
        BY <2>5, <2>6, <2>7
      <4>4. llm_global_budget[i].total <= llm_global_budget[i].total
        BY <2>4
      <4>5. Fits(llm_global_budget[i].used, llm_global_budget[i].total, Owing(m)', Cost')
        BY <2>4, <2>6, <2>8, <3>1, <4>3, <4>4, FitsLess
      <4> QED
        BY <4>2, <4>5
    <3> QED
      BY <3>2, <3>3
  <2>10. FirstFits(m, i)'
    BY <1>4, <2>2, <2>9, KeepsFirst
  <2> QED
    BY <1>4, <2>10
<1> QED
  BY <1>5, <1>6 DEF BudgetStands

(* A contribution adds room to the pool of its month.                      *)
LEMMA FundKeepsBudget ==
  ASSUME BudgetStands, NEW r \in BudgetRequests, FundPool(r)
  PROVE  BudgetStands'
<1> DEFINE k == request[r].month
           a == request[r].amount
<1>1. /\ request[r] \in Request /\ request[r].pc = "fund"
      /\ llm_global_budget \in Seq(BudgetRow)
      /\ Step(r, NoRequest) /\ UNCHANGED month
      /\ llm_global_budget' = [i \in DOMAIN llm_global_budget |->
           IF i \in BudgetRowsOf(k)
           THEN [llm_global_budget[i] EXCEPT !.total = @ + a]
           ELSE llm_global_budget[i]]
  BY DEF BudgetStands, PoolTypeOK, FundPool, UpdatedRows
<1>2. k \in 1..Months /\ a \in Nat
  BY <1>1, RequestFields, AmountsAssumption DEF HasMonth
<1>3. /\ llm_global_budget' \in Seq(BudgetRow)
      /\ DOMAIN llm_global_budget' = DOMAIN llm_global_budget
      /\ \A i \in DOMAIN llm_global_budget :
           llm_global_budget'[i].month = llm_global_budget[i].month
  BY <1>1, <1>2, RowsChanged
<1>4. ASSUME NEW i \in DOMAIN llm_global_budget
      PROVE  /\ llm_global_budget'[i].used = llm_global_budget[i].used
             /\ llm_global_budget'[i].total >= llm_global_budget[i].total
  <2>1. llm_global_budget[i] \in BudgetRow
    BY <1>1
  <2>2. \/ llm_global_budget'[i] = llm_global_budget[i]
        \/ llm_global_budget'[i] = [llm_global_budget[i] EXCEPT !.total = @ + a]
    BY <1>1
  <2>3. llm_global_budget[i].total + a >= llm_global_budget[i].total
        /\ llm_global_budget[i].total >= llm_global_budget[i].total
    BY <1>2, <2>1 DEF BudgetRow
  <2>4. CASE llm_global_budget'[i] = llm_global_budget[i]
    BY <2>3, <2>4
  <2>5. CASE llm_global_budget'[i] = [llm_global_budget[i] EXCEPT !.total = @ + a]
    BY <2>1, <2>3, <2>5 DEF BudgetRow
  <2> QED
    BY <2>2, <2>4, <2>5
<1>5. PoolTypeOK' /\ InTime' /\ BasicOnly'
  <2>1. \A i \in DOMAIN llm_global_budget' : llm_global_budget'[i].month <= month
    BY <1>3 DEF BudgetStands, InTime
  <2> QED
    BY <1>1, <1>3, <2>1, NoRequestFields, StepTypes DEF HasMonth
<1>6. \A m \in 1..month : ~MayCharge(r, m)'
  <2>1. request'[r].pc = "idle"
    BY <1>1, NoRequestFields DEF BudgetStands, PoolTypeOK, Step
  <2> QED
    BY <2>1 DEF MayCharge
<1>7. PoolsFit'
  BY <1>1, <1>3, <1>4, <1>6, MovesFit
<1> QED
  BY <1>5, <1>7 DEF BudgetStands

(* With the month nobody who was granted is owing to the old pool any      *)
(* more, and the new month has no pool yet.                                *)
LEMMA RolloverKeepsBudget ==
  ASSUME BudgetStands, Rollover
  PROVE  BudgetStands'
<1>1. /\ month' = month + 1 /\ month' \in 1..Months /\ month \in 1..Months
      /\ UNCHANGED <<llm_global_budget, request>>
      /\ PoolTypeOK
      /\ llm_global_budget \in Seq(BudgetRow)
  BY BudgetBoundsAssumption DEF BudgetStands, PoolTypeOK, Rollover, tables
<1>2. PoolTypeOK' /\ BasicOnly'
  BY <1>1 DEF BudgetStands, PoolTypeOK, BasicOnly
<1>3. InTime'
  <2>1. \A i \in DOMAIN llm_global_budget : llm_global_budget[i].month <= month + 1
    <3> SUFFICES ASSUME NEW i \in DOMAIN llm_global_budget
                 PROVE  llm_global_budget[i].month <= month + 1
      OBVIOUS
    <3>1. llm_global_budget[i] \in BudgetRow /\ llm_global_budget[i].month <= month
      BY <1>1 DEF BudgetStands, InTime
    <3> QED
      BY <1>1, <3>1 DEF BudgetRow
  <2>2. \A r \in BudgetRequests : request[r].pc \in HasMonth => request[r].month <= month + 1
    <3> SUFFICES ASSUME NEW r \in BudgetRequests, request[r].pc \in HasMonth
                 PROVE  request[r].month <= month + 1
      OBVIOUS
    <3>1. request[r].month \in 1..Months /\ request[r].month <= month
      BY RequestFields DEF BudgetStands, PoolTypeOK, InTime
    <3> QED
      BY <1>1, <3>1
  <2> QED
    BY <1>1, <2>1, <2>2 DEF InTime, HasMonth
<1>4. PoolsFit'
  <2> SUFFICES ASSUME NEW m \in 1..Months, BudgetRowsOf(m)' # {}
               PROVE  (\E i \in DOMAIN llm_global_budget : FirstFits(m, i))'
    BY DEF PoolsFit
  <2>1. BudgetRowsOf(m)' = BudgetRowsOf(m)
    BY <1>1 DEF BudgetRowsOf
  <2>2. PICK i \in DOMAIN llm_global_budget : FirstFits(m, i)
    BY <2>1 DEF BudgetStands, PoolsFit
  <2>3. m # month'
    <3>1. llm_global_budget[i].month = m /\ llm_global_budget[i].month <= month
      BY <2>2 DEF FirstFits, BudgetRowsOf, BudgetStands, InTime
    <3> QED
      BY <1>1, <3>1
  <2>4. Owing(m)' \in SUBSET Owing(m)
    BY <1>1, <2>3 DEF Owing, MayCharge
  <2>5. Cost' = Cost
    BY <1>1 DEF Cost
  <2>6. llm_global_budget[i].used \in Nat /\ llm_global_budget[i].total \in Nat
    <3>1. llm_global_budget[i] \in BudgetRow
      BY <1>1
    <3> QED
      BY <3>1 DEF BudgetRow
  <2>7. ASSUME MaxCost <= Cap
        PROVE  Fits(llm_global_budget[i].used, llm_global_budget[i].total, Owing(m)', Cost')
    <3>1. Fits(llm_global_budget[i].used, llm_global_budget[i].total, Owing(m), Cost)
      BY <2>2, <2>7 DEF FirstFits
    <3>2. llm_global_budget[i].total <= llm_global_budget[i].total
      BY <2>6
    <3> QED
      BY <1>1, <2>4, <2>5, <2>6, <3>1, <3>2, OwingCosts, FitsLess
  <2>8. FirstFits(m, i)'
    BY <1>1, <2>2, <2>7, KeepsFirst
  <2> QED
    BY <1>1, <2>8
<1> QED
  BY <1>2, <1>3, <1>4 DEF BudgetStands

(* Without rows there is no pool that could not fit.                       *)
LEMMA InitBudgetStands == BudgetInit => BudgetStands
<1> SUFFICES ASSUME BudgetInit PROVE BudgetStands
  OBVIOUS
<1> USE DEF BudgetInit
<1>1. /\ llm_global_budget \in Seq(BudgetRow)
      /\ DOMAIN llm_global_budget = {}
      /\ 1 \in 1..Months
  BY BudgetBoundsAssumption
<1>2. \A r \in BudgetRequests : request[r] \in Request /\ request[r].pc = "idle"
  BY NoRequestFields
<1>3. PoolTypeOK
  BY <1>1, <1>2 DEF PoolTypeOK
<1>4. InTime /\ BasicOnly
  BY <1>1, <1>2 DEF InTime, BasicOnly, HasMonth
<1>5. PoolsFit
  BY <1>1 DEF PoolsFit, BudgetRowsOf
<1> QED
  BY <1>3, <1>4, <1>5 DEF BudgetStands

(* Every statement keeps the invariant.                                    *)
LEMMA NextBudgetStands == BudgetStands /\ [BudgetNext]_budgetVars => BudgetStands'
<1> SUFFICES ASSUME BudgetStands, [BudgetNext]_budgetVars PROVE BudgetStands'
  OBVIOUS
<1>1. CASE UNCHANGED budgetVars
  <2>1. UNCHANGED <<month, llm_global_budget, request>>
    BY <1>1 DEF budgetVars
  <2>2. PoolTypeOK' /\ InTime' /\ BasicOnly'
    BY <2>1 DEF BudgetStands, PoolTypeOK, InTime, BasicOnly
  <2>3. /\ \A m : Owing(m)' = Owing(m) /\ BudgetRowsOf(m)' = BudgetRowsOf(m)
        /\ Cost' = Cost
    BY <2>1 DEF Owing, MayCharge, BudgetRowsOf, Cost
  <2>4. \A m, i : FirstFits(m, i)' <=> FirstFits(m, i)
    BY <2>1, <2>3 DEF FirstFits
  <2>5. PoolsFit'
    BY <2>1, <2>3, <2>4 DEF BudgetStands, PoolsFit
  <2> QED
    BY <2>2, <2>5 DEF BudgetStands
<1>2. CASE Rollover
  BY <1>2, RolloverKeepsBudget
<1>3. ASSUME NEW r \in BudgetRequests,
             \/ EnsureFound(r) \/ Refuse(r) \/ LogCall(r) \/ BudgetDie(r)
      PROVE  BudgetStands'
  <2>1. Step(r, NoRequest) /\ UNCHANGED <<month, llm_global_budget>>
    BY <1>3 DEF EnsureFound, Refuse, LogCall, BudgetDie, tables
  <2> QED
    BY <2>1, NoRequestFields, QuietKeepsBudget DEF HasMonth
<1>4. month \in 1..Months /\ month <= month
  BY DEF BudgetStands, PoolTypeOK
<1>5. ASSUME NEW r \in BudgetRequests, Ensure(r) PROVE BudgetStands'
  <2> DEFINE q == [pc |-> "ensure", month |-> month]
  <2>1. Step(r, q) /\ UNCHANGED <<month, llm_global_budget>>
    BY <1>5 DEF Ensure, BudgetCall, tables
  <2>2. q \in Request /\ q.pc = "ensure" /\ q.month <= month
    BY <1>4 DEF Request
  <2> HIDE DEF q
  <2> QED
    BY <2>1, <2>2, QuietKeepsBudget
<1>6. ASSUME NEW r \in BudgetRequests, EnsureMissed(r) PROVE BudgetStands'
  <2> DEFINE q == [pc |-> "bootstrap", month |-> request[r].month]
  <2>1. Step(r, q) /\ UNCHANGED <<month, llm_global_budget>>
    BY <1>6 DEF EnsureMissed, tables
  <2>2. request[r] \in Request /\ request[r].pc = "ensure"
    BY <1>6 DEF EnsureMissed, BudgetStands, PoolTypeOK
  <2>3. request[r].month \in 1..Months /\ request[r].month <= month
    BY <2>2, RequestFields DEF HasMonth, BudgetStands, InTime
  <2>4. q \in Request /\ q.pc = "bootstrap" /\ q.month <= month
    BY <2>3 DEF Request
  <2> HIDE DEF q
  <2> QED
    BY <2>1, <2>4, QuietKeepsBudget
<1>7. ASSUME NEW r \in BudgetRequests, Bootstrap(r) PROVE BudgetStands'
  BY <1>7, BootstrapKeepsBudget
<1>8. ASSUME NEW r \in BudgetRequests, NEW company \in BudgetCompanies, NEW cost \in 1..MaxCost,
             GrantPaying(r, company, cost)
      PROVE  BudgetStands'
  <2> DEFINE q == [pc |-> "granted", company |-> company, cost |-> cost]
  <2>1. /\ Step(r, q) /\ UNCHANGED <<month, llm_global_budget>>
        /\ company \in Paying
    BY <1>8 DEF GrantPaying, BudgetCall, tables
  <2>2. q \in Request /\ q.pc = "granted" /\ q.company \notin Basic
    BY <2>1, PlansAssumption DEF Request
  <2> HIDE DEF q
  <2>3. request'[r] = q
    BY <2>1 DEF BudgetStands, PoolTypeOK, Step
  <2>4. \A m \in 1..month : ~MayCharge(r, m)'
    BY <2>2, <2>3 DEF MayCharge
  <2> QED
    BY <2>1, <2>2, <2>4, MoveKeepsBudget DEF HasMonth
<1>9. ASSUME NEW r \in BudgetRequests, NEW company \in BudgetCompanies, NEW cost \in 1..MaxCost,
             Check(r, company, cost)
      PROVE  BudgetStands'
  <2> DEFINE q == [pc |-> "check", month |-> month, company |-> company, cost |-> cost]
  <2>1. /\ Step(r, q) /\ UNCHANGED <<month, llm_global_budget>>
        /\ company \in Basic
    BY <1>9 DEF Check, BudgetCall, tables
  <2>2. /\ q \in Request /\ q.pc = "check" /\ q.month = month /\ q.month <= month
        /\ q.company \in Basic
    BY <1>4, <2>1 DEF Request
  <2> HIDE DEF q
  <2>3. request'[r] = q
    BY <2>1 DEF BudgetStands, PoolTypeOK, Step
  <2>4. \A m \in 1..month : ~MayCharge(r, m)'
    BY <2>1, <2>2, <2>3 DEF MayCharge
  <2> QED
    BY <2>1, <2>2, <2>4, MoveKeepsBudget
<1>10. ASSUME NEW r \in BudgetRequests, Grant(r) PROVE BudgetStands'
  BY <1>10, GrantKeepsBudget
<1>11. ASSUME NEW r \in BudgetRequests, Record(r) PROVE BudgetStands'
  <2> DEFINE q == [pc |-> "company", month |-> month, company |-> request[r].company,
                   cost |-> request[r].cost]
  <2>1. Step(r, q) /\ UNCHANGED <<month, llm_global_budget>>
    BY <1>11 DEF Record, tables
  <2>2. request[r] \in Request /\ request[r].pc = "granted"
    BY <1>11 DEF Record, BudgetStands, PoolTypeOK
  <2>3. request[r].company \in BudgetCompanies /\ request[r].cost \in 1..MaxCost
    BY <2>2, RequestFields
  <2>4. /\ q \in Request /\ q.pc = "company" /\ q.month = month /\ q.month <= month
        /\ q.company = request[r].company /\ q.cost = request[r].cost
    BY <1>4, <2>3 DEF Request
  <2> HIDE DEF q
  <2>5. request'[r] = q
    BY <2>1 DEF BudgetStands, PoolTypeOK, Step
  <2>6. \A m \in 1..month : MayCharge(r, m)' => MayCharge(r, m)
    BY <2>1, <2>2, <2>4, <2>5 DEF MayCharge
  <2> QED
    BY <2>1, <2>4, <2>6, MoveKeepsBudget
<1>12. ASSUME NEW r \in BudgetRequests, CountCompany(r) PROVE BudgetStands'
  <2> DEFINE q == At(r, IF request[r].company \in Basic THEN "pool" ELSE "log")
  <2>1. Step(r, q) /\ UNCHANGED <<month, llm_global_budget>>
    BY <1>12 DEF CountCompany
  <2>2. request[r] \in Request /\ request[r].pc = "company"
    BY <1>12 DEF CountCompany, BudgetStands, PoolTypeOK
  <2>3. /\ request[r].company \in BudgetCompanies /\ request[r].cost \in 1..MaxCost
        /\ request[r].month \in 1..Months /\ request[r].month <= month
    BY <2>2, RequestFields DEF HasMonth, BudgetStands, InTime
  <2>4. /\ q \in Request /\ q.month = request[r].month
        /\ q.company = request[r].company /\ q.cost = request[r].cost
        /\ q.pc = (IF request[r].company \in Basic THEN "pool" ELSE "log")
    <3>1. CASE request[r].company \in Basic
      BY <2>3, <3>1 DEF Request, At
    <3>2. CASE request[r].company \notin Basic
      BY <2>3, <3>2 DEF Request, At
    <3> QED
      BY <3>1, <3>2
  <2> HIDE DEF q
  <2>5. request'[r] = q
    BY <2>1 DEF BudgetStands, PoolTypeOK, Step
  <2>6. \A m \in 1..month : MayCharge(r, m)' => MayCharge(r, m)
    BY <2>1, <2>2, <2>4, <2>5 DEF MayCharge
  <2> QED
    BY <2>1, <2>3, <2>4, <2>6, MoveKeepsBudget
<1>13. ASSUME NEW r \in BudgetRequests, ChargePool(r) PROVE BudgetStands'
  BY <1>13, ChargeKeepsBudget
<1>14. ASSUME NEW r \in BudgetRequests, NEW amount \in Contributions, Contribute(r, amount)
       PROVE  BudgetStands'
  <2> DEFINE q == [pc |-> "contribute", month |-> month, amount |-> amount]
  <2>1. Step(r, q) /\ UNCHANGED <<month, llm_global_budget>>
    BY <1>14 DEF Contribute, BudgetCall, tables
  <2>2. q \in Request /\ q.pc = "contribute" /\ q.month <= month
    BY <1>4 DEF Request
  <2> HIDE DEF q
  <2> QED
    BY <2>1, <2>2, QuietKeepsBudget
<1>15. ASSUME NEW r \in BudgetRequests, RecordContribution(r) PROVE BudgetStands'
  <2> DEFINE q == [request[r] EXCEPT !.pc = "fund"]
  <2>1. Step(r, q) /\ UNCHANGED <<month, llm_global_budget>>
    BY <1>15 DEF RecordContribution
  <2>2. request[r] \in Request /\ request[r].pc = "contribute"
    BY <1>15 DEF RecordContribution, BudgetStands, PoolTypeOK
  <2>3. request[r].month <= month
    BY <2>2 DEF HasMonth, BudgetStands, InTime
  <2>4. q \in Request /\ q.pc = "fund" /\ q.month = request[r].month
    BY <2>2 DEF Request, NoRequest
  <2> HIDE DEF q
  <2> QED
    BY <2>1, <2>3, <2>4, QuietKeepsBudget
<1>16. ASSUME NEW r \in BudgetRequests, FundPool(r) PROVE BudgetStands'
  BY <1>16, FundKeepsBudget
<1> QED
  BY <1>1, <1>2, <1>3, <1>5, <1>6, <1>7, <1>8, <1>9, <1>10, <1>11, <1>12, <1>13, <1>14, <1>15,
     <1>16 DEF BudgetNext

----------------------------------------------------------------------------
(* The trail.                                                              *)

(* What a call in progress is about to charge, to fund and to log.         *)
ChargeOf(q, m) == IF q.pc = "pool" /\ q.month = m THEN q.cost ELSE 0
FundOf(q, m) == IF q.pc = "fund" /\ q.month = m THEN q.amount ELSE 0
Logs(q, c, m) == q.pc \in {"pool", "log"} /\ q.company = c /\ q.month = m
CallOf(q, c, m) == IF Logs(q, c, m) THEN 1 ELSE 0
CostOf(q, c, m) == IF Logs(q, c, m) THEN q.cost ELSE 0

Charges(m) == [r \in BudgetRequests |-> ChargeOf(request[r], m)]
Funds(m) == [r \in BudgetRequests |-> FundOf(request[r], m)]
CallsOf(c, m) == [r \in BudgetRequests |-> CallOf(request[r], c, m)]
CostsOf(c, m) == [r \in BudgetRequests |-> CostOf(request[r], c, m)]

UsageTable == [BudgetCompanies -> [1..Months -> Use]]

(* What is logged, and what calls in progress will log, has been counted.  *)
LoggedAt(c, m) ==
  /\ llm_call_log[c][m].llm_calls + SumFunction(CallsOf(c, m)) <= llm_company_usage[c][m].llm_calls
  /\ llm_call_log[c][m].cost + SumFunction(CostsOf(c, m)) <= llm_company_usage[c][m].cost

(* What a row was charged, and calls in progress will charge it.           *)
ChargedAt(m) ==
  /\ SumFunction(Charges(m)) <= SumFunction(UsedByBasic(m))
  /\ \A i \in BudgetRowsOf(m) :
       llm_global_budget[i].used + SumFunction(Charges(m)) <= SumFunction(UsedByBasic(m))

FundedAt(m) ==
  /\ SumFunction(Funds(m)) <= llm_redistribution[m]
  /\ \A i \in BudgetRowsOf(m) :
       llm_global_budget[i].total + SumFunction(Funds(m)) <= Cap + llm_redistribution[m]

(* An earlier row saw all that a later one did.                            *)
EarlierLeads(m) ==
  \A i, k \in BudgetRowsOf(m) :
    i <= k => /\ llm_global_budget[k].used <= llm_global_budget[i].used
              /\ llm_global_budget[k].total <= llm_global_budget[i].total

TrailInv ==
  /\ llm_company_usage \in UsageTable
  /\ llm_call_log \in UsageTable
  /\ llm_redistribution \in [1..Months -> Nat]
  /\ \A c \in BudgetCompanies, m \in 1..Months : LoggedAt(c, m)
  /\ \A m \in 1..Months : ChargedAt(m) /\ FundedAt(m) /\ EarlierLeads(m)
  /\ \A i \in DOMAIN llm_global_budget : Cap <= llm_global_budget[i].total

(* What is in progress amounts to natural numbers.                         *)
LEMMA AmountsInProgress ==
  ASSUME NEW q \in Request, NEW c, NEW m
  PROVE  /\ ChargeOf(q, m) \in Nat /\ FundOf(q, m) \in Nat
         /\ CallOf(q, c, m) \in Nat /\ CostOf(q, c, m) \in Nat
<1>1. q.pc \in {"pool", "log"} => q.cost \in 1..MaxCost
  BY RequestFields
<1>2. q.pc = "fund" => q.amount \in Nat
  BY RequestFields, AmountsAssumption
<1> QED
  BY <1>1, <1>2, AmountsAssumption DEF ChargeOf, FundOf, CallOf, CostOf, Logs

(* A step of a request changes what is in progress by its own part.        *)
LEMMA InProgressMoves ==
  ASSUME NEW r \in BudgetRequests, NEW q, Step(r, q),
         request \in [BudgetRequests -> Request], request' \in [BudgetRequests -> Request],
         NEW c, NEW m
  PROVE  /\ SumFunction(Charges(m)) \in Int
         /\ SumFunction(Charges(m)') =
              SumFunction(Charges(m)) + (ChargeOf(q, m) - ChargeOf(request[r], m))
         /\ SumFunction(Funds(m)) \in Int
         /\ SumFunction(Funds(m)') =
              SumFunction(Funds(m)) + (FundOf(q, m) - FundOf(request[r], m))
         /\ SumFunction(CallsOf(c, m)) \in Int
         /\ SumFunction(CallsOf(c, m)') =
              SumFunction(CallsOf(c, m)) + (CallOf(q, c, m) - CallOf(request[r], c, m))
         /\ SumFunction(CostsOf(c, m)) \in Int
         /\ SumFunction(CostsOf(c, m)') =
              SumFunction(CostsOf(c, m)) + (CostOf(q, c, m) - CostOf(request[r], c, m))
<1>1. IsFiniteSet(BudgetRequests)
  BY BudgetRequestsAssumption
<1>2. request'[r] = q /\ \A x \in BudgetRequests \ {r} : request'[x] = request[x]
  BY DEF Step
<1>3. \A p \in Request : /\ ChargeOf(p, m) \in Int /\ FundOf(p, m) \in Int
                        /\ CallOf(p, c, m) \in Int /\ CostOf(p, c, m) \in Int
  BY AmountsInProgress
<1>4. q \in Request /\ \A x \in BudgetRequests : request[x] \in Request /\ request'[x] \in Request
  BY <1>2
<1>5. /\ Charges(m) \in [BudgetRequests -> Int] /\ Charges(m)' \in [BudgetRequests -> Int]
      /\ Charges(m)[r] = ChargeOf(request[r], m) /\ Charges(m)'[r] = ChargeOf(q, m)
      /\ \A x \in BudgetRequests \ {r} : Charges(m)'[x] = Charges(m)[x]
  BY <1>2, <1>3, <1>4 DEF Charges
<1>6. /\ Funds(m) \in [BudgetRequests -> Int] /\ Funds(m)' \in [BudgetRequests -> Int]
      /\ Funds(m)[r] = FundOf(request[r], m) /\ Funds(m)'[r] = FundOf(q, m)
      /\ \A x \in BudgetRequests \ {r} : Funds(m)'[x] = Funds(m)[x]
  BY <1>2, <1>3, <1>4 DEF Funds
<1>7. /\ CallsOf(c, m) \in [BudgetRequests -> Int] /\ CallsOf(c, m)' \in [BudgetRequests -> Int]
      /\ CallsOf(c, m)[r] = CallOf(request[r], c, m) /\ CallsOf(c, m)'[r] = CallOf(q, c, m)
      /\ \A x \in BudgetRequests \ {r} : CallsOf(c, m)'[x] = CallsOf(c, m)[x]
  BY <1>2, <1>3, <1>4 DEF CallsOf
<1>8. /\ CostsOf(c, m) \in [BudgetRequests -> Int] /\ CostsOf(c, m)' \in [BudgetRequests -> Int]
      /\ CostsOf(c, m)[r] = CostOf(request[r], c, m) /\ CostsOf(c, m)'[r] = CostOf(q, c, m)
      /\ \A x \in BudgetRequests \ {r} : CostsOf(c, m)'[x] = CostsOf(c, m)[x]
  BY <1>2, <1>3, <1>4 DEF CostsOf
<1>9. /\ SumFunction(Charges(m)) \in Int
      /\ SumFunction(Charges(m)') =
           SumFunction(Charges(m)) + (ChargeOf(q, m) - ChargeOf(request[r], m))
  BY <1>1, <1>5, SumMoves
<1>10. /\ SumFunction(Funds(m)) \in Int
      /\ SumFunction(Funds(m)') =
           SumFunction(Funds(m)) + (FundOf(q, m) - FundOf(request[r], m))
  BY <1>1, <1>6, SumMoves
<1>11. /\ SumFunction(CallsOf(c, m)) \in Int
      /\ SumFunction(CallsOf(c, m)') =
           SumFunction(CallsOf(c, m)) + (CallOf(q, c, m) - CallOf(request[r], c, m))
  BY <1>1, <1>7, SumMoves
<1>12. /\ SumFunction(CostsOf(c, m)) \in Int
       /\ SumFunction(CostsOf(c, m)') =
            SumFunction(CostsOf(c, m)) + (CostOf(q, c, m) - CostOf(request[r], c, m))
  BY <1>1, <1>8, SumMoves
<1> QED
  BY <1>9, <1>10, <1>11, <1>12

(* Sums of integers, and what BASIC companies used of a month.             *)
LEMMA UsedTyped ==
  ASSUME llm_company_usage \in UsageTable, NEW m \in 1..Months
  PROVE  /\ UsedByBasic(m) \in [Basic -> Int]
         /\ SumFunction(UsedByBasic(m)) \in Int
<1>1. \A c \in Basic : llm_company_usage[c][m].cost \in Int
  <2>1. \A c \in BudgetCompanies : llm_company_usage[c][m] \in Use
    BY DEF UsageTable
  <2>2. \A u \in Use : u.cost \in Int
    BY DEF Use
  <2> QED
    BY <2>1, <2>2 DEF BudgetCompanies
<1>2. UsedByBasic(m) \in [Basic -> Int] /\ DOMAIN UsedByBasic(m) = Basic
  BY <1>1 DEF UsedByBasic
<1>3. SumFunction(UsedByBasic(m)) \in Int
  BY <1>2, PlansAssumption, SumIsLast, SumsTyped
<1> QED
  BY <1>2, <1>3

(* One use more in a table of usage.                                       *)
OneMore(t, more, d, k, a) ==
  /\ more \in UsageTable
  /\ \A c \in BudgetCompanies, m \in 1..Months :
       /\ t[c][m].llm_calls \in Nat /\ t[c][m].cost \in Nat
       /\ more[c][m].llm_calls = t[c][m].llm_calls + IF c = d /\ m = k THEN 1 ELSE 0
       /\ more[c][m].cost = t[c][m].cost + IF c = d /\ m = k THEN a ELSE 0

(* Counted counts a use, and only that.                                    *)
LEMMA CountedAt ==
  ASSUME NEW t \in UsageTable, NEW d \in BudgetCompanies, NEW k \in 1..Months, NEW a \in Nat
  PROVE  OneMore(t, Counted(t, d, k, a), d, k, a)
<1> DEFINE u == [llm_calls |-> t[d][k].llm_calls + 1, cost |-> t[d][k].cost + a]
<1>1. t[d][k] \in Use /\ t[d] \in [1..Months -> Use]
  BY DEF UsageTable
<1>2. u \in Use /\ u.llm_calls = t[d][k].llm_calls + 1 /\ u.cost = t[d][k].cost + a
  BY <1>1 DEF Use
<1>3. Counted(t, d, k, a) = [t EXCEPT ![d] = [t[d] EXCEPT ![k] = u]]
  BY DEF Counted, UsageTable
<1> HIDE DEF u
<1>4. [t[d] EXCEPT ![k] = u] \in [1..Months -> Use]
  BY <1>1, <1>2
<1>5. Counted(t, d, k, a) \in UsageTable
  BY <1>3, <1>4 DEF UsageTable
<1>6. \A c \in BudgetCompanies, m \in 1..Months :
        /\ t[c][m] \in Use
        /\ Counted(t, d, k, a)[c][m] = IF c = d /\ m = k THEN u ELSE t[c][m]
  BY <1>3 DEF UsageTable
<1> QED
  BY <1>2, <1>5, <1>6 DEF Use, OneMore

(* The rows, by month.                                                     *)
LEMMA RowsTyped ==
  ASSUME BudgetStands
  PROVE  /\ request \in [BudgetRequests -> Request]
         /\ \A i \in DOMAIN llm_global_budget :
              /\ i \in Nat
              /\ llm_global_budget[i].month \in 1..Months
              /\ llm_global_budget[i].used \in Nat /\ llm_global_budget[i].total \in Nat
         /\ \A m : BudgetRowsOf(m) \subseteq DOMAIN llm_global_budget
<1>1. llm_global_budget \in Seq(BudgetRow) /\ request \in [BudgetRequests -> Request]
  BY DEF BudgetStands, PoolTypeOK
<1>2. \A i \in DOMAIN llm_global_budget : llm_global_budget[i] \in BudgetRow /\ i \in Nat
  BY <1>1
<1> QED
  BY <1>1, <1>2 DEF BudgetRow, BudgetRowsOf

(* A step that leaves the tables and puts nothing more in progress.        *)
LEMMA QuietKeepsTrail ==
  ASSUME BudgetStands, BudgetStands', TrailInv,
         NEW r \in BudgetRequests, NEW q \in Request, Step(r, q),
         UNCHANGED tables,
         \A m : ChargeOf(q, m) <= ChargeOf(request[r], m) /\ FundOf(q, m) <= FundOf(request[r], m),
         \A c, m : CallOf(q, c, m) <= CallOf(request[r], c, m)
                   /\ CostOf(q, c, m) <= CostOf(request[r], c, m)
  PROVE  TrailInv'
<1>1. /\ UNCHANGED <<llm_global_budget, llm_company_usage, llm_call_log, llm_redistribution>>
      /\ request \in [BudgetRequests -> Request] /\ request' \in [BudgetRequests -> Request]
      /\ request[r] \in Request
  BY RowsTyped DEF tables, BudgetStands, PoolTypeOK
<1>2. \A m : BudgetRowsOf(m)' = BudgetRowsOf(m) /\ UsedByBasic(m)' = UsedByBasic(m)
  BY <1>1 DEF BudgetRowsOf, UsedByBasic
<1>3. ASSUME NEW c \in BudgetCompanies, NEW m \in 1..Months PROVE LoggedAt(c, m)'
  <2>1. LoggedAt(c, m) /\ llm_company_usage[c][m] \in Use /\ llm_call_log[c][m] \in Use
    BY DEF TrailInv, UsageTable
  <2>2. /\ llm_company_usage[c][m].llm_calls \in Nat /\ llm_company_usage[c][m].cost \in Nat
        /\ llm_call_log[c][m].llm_calls \in Nat /\ llm_call_log[c][m].cost \in Nat
    BY <2>1 DEF Use
  <2>3. /\ CallOf(q, c, m) \in Nat /\ CostOf(q, c, m) \in Nat
        /\ CallOf(request[r], c, m) \in Nat /\ CostOf(request[r], c, m) \in Nat
    BY <1>1, AmountsInProgress
  <2>4. /\ SumFunction(CallsOf(c, m)) \in Int
        /\ SumFunction(CallsOf(c, m)') =
             SumFunction(CallsOf(c, m)) + (CallOf(q, c, m) - CallOf(request[r], c, m))
        /\ SumFunction(CostsOf(c, m)) \in Int
        /\ SumFunction(CostsOf(c, m)') =
             SumFunction(CostsOf(c, m)) + (CostOf(q, c, m) - CostOf(request[r], c, m))
    BY <1>1, InProgressMoves
  <2> QED
    BY <1>1, <2>1, <2>2, <2>3, <2>4 DEF LoggedAt
<1>4. ASSUME NEW m \in 1..Months PROVE ChargedAt(m)' /\ FundedAt(m)' /\ EarlierLeads(m)'
  <2>1. ChargedAt(m) /\ FundedAt(m) /\ EarlierLeads(m)
    BY DEF TrailInv
  <2>2. EarlierLeads(m)'
    BY <1>1, <1>2, <2>1 DEF EarlierLeads
  <2>3. /\ ChargeOf(q, m) \in Nat /\ FundOf(q, m) \in Nat
        /\ ChargeOf(request[r], m) \in Nat /\ FundOf(request[r], m) \in Nat
    BY <1>1, AmountsInProgress
  <2>4. /\ SumFunction(Charges(m)) \in Int
        /\ SumFunction(Charges(m)') =
             SumFunction(Charges(m)) + (ChargeOf(q, m) - ChargeOf(request[r], m))
        /\ SumFunction(Funds(m)) \in Int
        /\ SumFunction(Funds(m)') =
             SumFunction(Funds(m)) + (FundOf(q, m) - FundOf(request[r], m))
    BY <1>1, InProgressMoves
  <2>5. SumFunction(UsedByBasic(m)) \in Int /\ llm_redistribution[m] \in Nat /\ Cap \in Nat
    BY UsedTyped, AmountsAssumption DEF TrailInv
  <2>6. ChargedAt(m)'
    BY <1>1, <1>2, <2>1, <2>3, <2>4, <2>5, RowsTyped DEF ChargedAt
  <2>7. FundedAt(m)'
    BY <1>1, <1>2, <2>1, <2>3, <2>4, <2>5, RowsTyped DEF FundedAt
  <2> QED
    BY <2>2, <2>6, <2>7
<1> QED
  BY <1>1, <1>3, <1>4 DEF TrailInv

(* A use is counted against its company, and what it cost is then to be    *)
(* charged, if the company is on BASIC, and logged.                        *)
LEMMA CountKeepsTrail ==
  ASSUME BudgetStands, BudgetStands', TrailInv, NEW r \in BudgetRequests, CountCompany(r)
  PROVE  TrailInv'
<1> DEFINE d == request[r].company
           k == request[r].month
           a == request[r].cost
           q == At(r, IF d \in Basic THEN "pool" ELSE "log")
<1>1. /\ request[r].pc = "company" /\ Step(r, q)
      /\ UNCHANGED <<llm_global_budget, llm_call_log, llm_redistribution>>
      /\ llm_company_usage' = Counted(llm_company_usage, d, k, a)
      /\ request \in [BudgetRequests -> Request] /\ request' \in [BudgetRequests -> Request]
  BY RowsTyped DEF CountCompany, BudgetStands, PoolTypeOK
<1>2. d \in BudgetCompanies /\ k \in 1..Months /\ a \in Nat
  BY <1>1, RequestFields, AmountsAssumption DEF HasMonth
<1>3. q.pc = (IF d \in Basic THEN "pool" ELSE "log") /\ q.company = d /\ q.month = k /\ q.cost = a
  BY DEF At
<1> HIDE DEF q, d, k, a
<1>4. OneMore(llm_company_usage, llm_company_usage', d, k, a)
  BY <1>1, <1>2, CountedAt DEF TrailInv
<1>5. ASSUME NEW c \in BudgetCompanies, NEW m \in 1..Months PROVE LoggedAt(c, m)'
  <2>1. LoggedAt(c, m) /\ llm_call_log[c][m] \in Use
    BY DEF TrailInv, UsageTable
  <2>2. llm_call_log[c][m].llm_calls \in Nat /\ llm_call_log[c][m].cost \in Nat
    BY <2>1 DEF Use
  <2>3. /\ llm_company_usage[c][m].llm_calls \in Nat /\ llm_company_usage[c][m].cost \in Nat
        /\ llm_company_usage'[c][m].llm_calls =
             llm_company_usage[c][m].llm_calls + IF c = d /\ m = k THEN 1 ELSE 0
        /\ llm_company_usage'[c][m].cost =
             llm_company_usage[c][m].cost + IF c = d /\ m = k THEN a ELSE 0
    BY <1>4 DEF OneMore
  <2>4. /\ SumFunction(CallsOf(c, m)) \in Int
        /\ SumFunction(CallsOf(c, m)') =
             SumFunction(CallsOf(c, m)) + (CallOf(q, c, m) - CallOf(request[r], c, m))
        /\ SumFunction(CostsOf(c, m)) \in Int
        /\ SumFunction(CostsOf(c, m)') =
             SumFunction(CostsOf(c, m)) + (CostOf(q, c, m) - CostOf(request[r], c, m))
    BY <1>1, InProgressMoves
  <2>5. /\ CallOf(request[r], c, m) = 0 /\ CostOf(request[r], c, m) = 0
        /\ CallOf(q, c, m) = IF c = d /\ m = k THEN 1 ELSE 0
        /\ CostOf(q, c, m) = IF c = d /\ m = k THEN a ELSE 0
    BY <1>1, <1>3 DEF CallOf, CostOf, Logs
  <2>6. CASE c = d /\ m = k
    BY <1>1, <1>2, <2>1, <2>2, <2>3, <2>4, <2>5, <2>6 DEF LoggedAt
  <2>7. CASE ~(c = d /\ m = k)
    BY <1>1, <1>2, <2>1, <2>2, <2>3, <2>4, <2>5, <2>7 DEF LoggedAt
  <2> QED
    BY <2>6, <2>7
<1>6. ASSUME NEW m \in 1..Months PROVE ChargedAt(m)' /\ FundedAt(m)' /\ EarlierLeads(m)'
  <2>1. ChargedAt(m) /\ FundedAt(m) /\ EarlierLeads(m)
    BY DEF TrailInv
  <2>2. BudgetRowsOf(m)' = BudgetRowsOf(m)
    BY <1>1 DEF BudgetRowsOf
  <2>3. EarlierLeads(m)'
    BY <1>1, <2>1, <2>2 DEF EarlierLeads
  <2>4. /\ SumFunction(Charges(m)) \in Int
        /\ SumFunction(Charges(m)') =
             SumFunction(Charges(m)) + (ChargeOf(q, m) - ChargeOf(request[r], m))
        /\ SumFunction(Funds(m)) \in Int
        /\ SumFunction(Funds(m)') =
             SumFunction(Funds(m)) + (FundOf(q, m) - FundOf(request[r], m))
    BY <1>1, InProgressMoves
  <2>5. /\ ChargeOf(request[r], m) = 0 /\ FundOf(request[r], m) = 0 /\ FundOf(q, m) = 0
        /\ ChargeOf(q, m) = IF d \in Basic /\ m = k THEN a ELSE 0
    BY <1>1, <1>3 DEF ChargeOf, FundOf
  <2>6. SumFunction(UsedByBasic(m)) \in Int
        /\ SumFunction(UsedByBasic(m)') =
             SumFunction(UsedByBasic(m)) + IF d \in Basic /\ m = k THEN a ELSE 0
    <3>1. UsedByBasic(m) \in [Basic -> Int] /\ SumFunction(UsedByBasic(m)) \in Int
      BY UsedTyped DEF TrailInv
    <3>2. \A c \in Basic : UsedByBasic(m)'[c] = UsedByBasic(m)[c] + IF c = d /\ m = k THEN a ELSE 0
      <4>1. \A c \in Basic : c \in BudgetCompanies
        BY DEF BudgetCompanies
      <4> QED
        BY <1>4, <4>1 DEF OneMore, UsedByBasic
    <3>3. UsedByBasic(m)' \in [Basic -> Int]
      <4>1. \A c \in Basic : llm_company_usage'[c][m].cost \in Int
        <5>1. \A c \in BudgetCompanies : llm_company_usage'[c][m] \in Use
          BY <1>4 DEF OneMore, UsageTable
        <5>2. \A u \in Use : u.cost \in Int
          BY DEF Use
        <5> QED
          BY <5>1, <5>2 DEF BudgetCompanies
      <4> QED
        BY <4>1 DEF UsedByBasic
    <3>4. CASE d \in Basic
      <4>1. \A c \in Basic \ {d} : UsedByBasic(m)'[c] = UsedByBasic(m)[c]
        BY <3>1, <3>2
      <4>2. SumFunction(UsedByBasic(m)') =
              SumFunction(UsedByBasic(m)) + (UsedByBasic(m)'[d] - UsedByBasic(m)[d])
        BY <3>1, <3>3, <3>4, <4>1, PlansAssumption, SumMoves
      <4>3. /\ UsedByBasic(m)[d] \in Int
            /\ UsedByBasic(m)'[d] = UsedByBasic(m)[d] + IF m = k THEN a ELSE 0
        BY <3>1, <3>2, <3>4
      <4> QED
        BY <1>2, <3>1, <3>4, <4>2, <4>3
    <3>5. CASE d \notin Basic
      <4>1. UsedByBasic(m)' = UsedByBasic(m)
        BY <3>1, <3>2, <3>3, <3>5
      <4> QED
        BY <3>1, <3>5, <4>1
    <3> QED
      BY <3>4, <3>5
  <2>7. ChargedAt(m)'
    <3>1. CASE d \in Basic /\ m = k
      BY <1>1, <1>2, <2>1, <2>2, <2>4, <2>5, <2>6, <3>1, RowsTyped DEF ChargedAt
    <3>2. CASE ~(d \in Basic /\ m = k)
      BY <1>1, <1>2, <2>1, <2>2, <2>4, <2>5, <2>6, <3>2, RowsTyped DEF ChargedAt
    <3> QED
      BY <3>1, <3>2
  <2>8. FundedAt(m)'
    BY <1>1, <2>1, <2>2, <2>4, <2>5 DEF FundedAt
  <2> QED
    BY <2>3, <2>7, <2>8
<1> QED
  BY <1>1, <1>4, <1>5, <1>6 DEF TrailInv, OneMore

(* A charge of the pool moves from what is in progress to the rows.        *)
LEMMA ChargeKeepsTrail ==
  ASSUME BudgetStands, BudgetStands', TrailInv, NEW r \in BudgetRequests, ChargePool(r)
  PROVE  TrailInv'
<1> DEFINE k == request[r].month
           a == request[r].cost
           q == At(r, "log")
<1>1. /\ request[r].pc = "pool" /\ Step(r, q)
      /\ UNCHANGED <<llm_company_usage, llm_call_log, llm_redistribution>>
      /\ llm_global_budget \in Seq(BudgetRow)
      /\ llm_global_budget' = [i \in DOMAIN llm_global_budget |->
           IF i \in BudgetRowsOf(k)
           THEN [llm_global_budget[i] EXCEPT !.used = @ + a]
           ELSE llm_global_budget[i]]
      /\ request \in [BudgetRequests -> Request] /\ request' \in [BudgetRequests -> Request]
  BY DEF ChargePool, UpdatedRows, BudgetStands, PoolTypeOK
<1>2. k \in 1..Months /\ a \in Nat
  BY <1>1, RequestFields, AmountsAssumption DEF HasMonth
<1>3. /\ q.pc = "log" /\ q.company = request[r].company /\ q.month = k /\ q.cost = a
      /\ request[r].month = k /\ request[r].cost = a
  BY DEF At
<1> HIDE DEF q, k, a
<1>4. /\ DOMAIN llm_global_budget' = DOMAIN llm_global_budget
      /\ \A i \in DOMAIN llm_global_budget :
           llm_global_budget'[i].month = llm_global_budget[i].month
  BY <1>1, <1>2, RowsChanged
<1>5. \A i \in DOMAIN llm_global_budget :
        /\ llm_global_budget'[i].total = llm_global_budget[i].total
        /\ llm_global_budget'[i].used =
             llm_global_budget[i].used + IF i \in BudgetRowsOf(k) THEN a ELSE 0
  <2> SUFFICES ASSUME NEW i \in DOMAIN llm_global_budget
               PROVE  /\ llm_global_budget'[i].total = llm_global_budget[i].total
                      /\ llm_global_budget'[i].used =
                           llm_global_budget[i].used + IF i \in BudgetRowsOf(k) THEN a ELSE 0
    OBVIOUS
  <2>1. llm_global_budget[i] \in BudgetRow /\ llm_global_budget[i].used \in Nat
    BY <1>1, RowsTyped
  <2>2. CASE i \in BudgetRowsOf(k)
    BY <1>1, <2>1, <2>2 DEF BudgetRow
  <2>3. CASE i \notin BudgetRowsOf(k)
    BY <1>1, <2>1, <2>3
  <2> QED
    BY <2>2, <2>3
<1>6. \A m : /\ BudgetRowsOf(m)' = BudgetRowsOf(m) /\ UsedByBasic(m)' = UsedByBasic(m)
             /\ \A i \in BudgetRowsOf(m) : i \in BudgetRowsOf(k) <=> m = k
  BY <1>1, <1>4 DEF BudgetRowsOf, UsedByBasic
<1>7. ASSUME NEW c \in BudgetCompanies, NEW m \in 1..Months PROVE LoggedAt(c, m)'
  <2>1. LoggedAt(c, m)
    BY DEF TrailInv
  <2>2. CallOf(q, c, m) = CallOf(request[r], c, m) /\ CostOf(q, c, m) = CostOf(request[r], c, m)
    BY <1>1, <1>3 DEF CallOf, CostOf, Logs
  <2>3. CallOf(q, c, m) \in Int /\ CostOf(q, c, m) \in Int
    BY <1>3, <1>2 DEF CallOf, CostOf
  <2>4. /\ SumFunction(CallsOf(c, m)') = SumFunction(CallsOf(c, m))
        /\ SumFunction(CostsOf(c, m)') = SumFunction(CostsOf(c, m))
    BY <1>1, <2>2, <2>3, InProgressMoves
  <2> QED
    BY <1>1, <2>1, <2>4 DEF LoggedAt
<1>8. ASSUME NEW m \in 1..Months PROVE ChargedAt(m)' /\ FundedAt(m)' /\ EarlierLeads(m)'
  <2>1. ChargedAt(m) /\ FundedAt(m) /\ EarlierLeads(m)
    BY DEF TrailInv
  <2>2. \A i \in BudgetRowsOf(m) :
          /\ i \in DOMAIN llm_global_budget /\ i \in Nat
          /\ llm_global_budget[i].used \in Nat /\ llm_global_budget[i].total \in Nat
          /\ llm_global_budget'[i].total = llm_global_budget[i].total
          /\ llm_global_budget'[i].used = llm_global_budget[i].used + IF m = k THEN a ELSE 0
    BY <1>5, <1>6, RowsTyped
  <2>3. EarlierLeads(m)'
    <3>1. ASSUME NEW i \in BudgetRowsOf(m), NEW j \in BudgetRowsOf(m), i <= j
          PROVE  /\ llm_global_budget'[j].used <= llm_global_budget'[i].used
                 /\ llm_global_budget'[j].total <= llm_global_budget'[i].total
      <4>1. /\ llm_global_budget[j].used <= llm_global_budget[i].used
            /\ llm_global_budget[j].total <= llm_global_budget[i].total
        BY <2>1, <3>1 DEF EarlierLeads
      <4> QED
        BY <1>2, <2>2, <4>1
    <3> QED
      BY <1>6, <3>1 DEF EarlierLeads
  <2>4. /\ ChargeOf(request[r], m) = (IF m = k THEN a ELSE 0) /\ ChargeOf(q, m) = 0
        /\ FundOf(request[r], m) = 0 /\ FundOf(q, m) = 0
    BY <1>1, <1>3 DEF ChargeOf, FundOf
  <2>5. /\ SumFunction(Charges(m)) \in Int
        /\ SumFunction(Charges(m)') =
             SumFunction(Charges(m)) + (ChargeOf(q, m) - ChargeOf(request[r], m))
        /\ SumFunction(Funds(m)) \in Int
        /\ SumFunction(Funds(m)') =
             SumFunction(Funds(m)) + (FundOf(q, m) - FundOf(request[r], m))
    BY <1>1, InProgressMoves
  <2>6. SumFunction(UsedByBasic(m)) \in Int
    BY UsedTyped DEF TrailInv
  <2>7. /\ SumFunction(Charges(m)') = SumFunction(Charges(m)) - (IF m = k THEN a ELSE 0)
        /\ SumFunction(Funds(m)') = SumFunction(Funds(m))
    BY <1>2, <2>4, <2>5
  <2>8. ChargedAt(m)'
    <3>1. SumFunction(Charges(m)') <= SumFunction(UsedByBasic(m))
      BY <1>2, <2>1, <2>5, <2>6, <2>7 DEF ChargedAt
    <3>2. ASSUME NEW i \in BudgetRowsOf(m)
          PROVE  llm_global_budget'[i].used + SumFunction(Charges(m)') <=
                   SumFunction(UsedByBasic(m))
      <4>1. llm_global_budget[i].used + SumFunction(Charges(m)) <= SumFunction(UsedByBasic(m))
        BY <2>1 DEF ChargedAt
      <4> QED
        BY <1>2, <2>2, <2>5, <2>6, <2>7, <4>1
    <3> QED
      BY <1>6, <3>1, <3>2 DEF ChargedAt
  <2>9. FundedAt(m)'
    BY <1>1, <1>6, <2>1, <2>2, <2>7 DEF FundedAt
  <2> QED
    BY <2>3, <2>8, <2>9
<1>9. \A i \in DOMAIN llm_global_budget' : Cap <= llm_global_budget'[i].total
  BY <1>4, <1>5 DEF TrailInv
<1> QED
  BY <1>1, <1>7, <1>8, <1>9 DEF TrailInv

(* A contribution moves from what is in progress to the rows.              *)
LEMMA FundKeepsTrail ==
  ASSUME BudgetStands, BudgetStands', TrailInv, NEW r \in BudgetRequests, FundPool(r)
  PROVE  TrailInv'
<1> DEFINE k == request[r].month
           a == request[r].amount
<1>1. /\ request[r].pc = "fund" /\ Step(r, NoRequest)
      /\ UNCHANGED <<llm_company_usage, llm_call_log, llm_redistribution>>
      /\ llm_global_budget \in Seq(BudgetRow)
      /\ llm_global_budget' = [i \in DOMAIN llm_global_budget |->
           IF i \in BudgetRowsOf(k)
           THEN [llm_global_budget[i] EXCEPT !.total = @ + a]
           ELSE llm_global_budget[i]]
      /\ request \in [BudgetRequests -> Request] /\ request' \in [BudgetRequests -> Request]
  BY DEF FundPool, UpdatedRows, BudgetStands, PoolTypeOK
<1>2. k \in 1..Months /\ a \in Nat
  BY <1>1, RequestFields, AmountsAssumption DEF HasMonth
<1>3. request[r].month = k /\ request[r].amount = a
  OBVIOUS
<1> HIDE DEF k, a
<1>4. /\ DOMAIN llm_global_budget' = DOMAIN llm_global_budget
      /\ \A i \in DOMAIN llm_global_budget :
           llm_global_budget'[i].month = llm_global_budget[i].month
  BY <1>1, <1>2, RowsChanged
<1>5. \A i \in DOMAIN llm_global_budget :
        /\ llm_global_budget'[i].used = llm_global_budget[i].used
        /\ llm_global_budget'[i].total =
             llm_global_budget[i].total + IF i \in BudgetRowsOf(k) THEN a ELSE 0
        /\ llm_global_budget[i].total \in Nat
  <2> SUFFICES ASSUME NEW i \in DOMAIN llm_global_budget
               PROVE  /\ llm_global_budget'[i].used = llm_global_budget[i].used
                      /\ llm_global_budget'[i].total =
                           llm_global_budget[i].total + IF i \in BudgetRowsOf(k) THEN a ELSE 0
                      /\ llm_global_budget[i].total \in Nat
    OBVIOUS
  <2>1. llm_global_budget[i] \in BudgetRow /\ llm_global_budget[i].total \in Nat
    BY <1>1, RowsTyped
  <2>2. CASE i \in BudgetRowsOf(k)
    BY <1>1, <2>1, <2>2 DEF BudgetRow
  <2>3. CASE i \notin BudgetRowsOf(k)
    BY <1>1, <2>1, <2>3
  <2> QED
    BY <2>1, <2>2, <2>3
<1>6. \A m : /\ BudgetRowsOf(m)' = BudgetRowsOf(m) /\ UsedByBasic(m)' = UsedByBasic(m)
             /\ \A i \in BudgetRowsOf(m) : i \in BudgetRowsOf(k) <=> m = k
  BY <1>1, <1>4 DEF BudgetRowsOf, UsedByBasic
<1>7. ASSUME NEW c \in BudgetCompanies, NEW m \in 1..Months PROVE LoggedAt(c, m)'
  <2>1. LoggedAt(c, m)
    BY DEF TrailInv
  <2>2. /\ CallOf(NoRequest, c, m) = 0 /\ CallOf(request[r], c, m) = 0
        /\ CostOf(NoRequest, c, m) = 0 /\ CostOf(request[r], c, m) = 0
    BY <1>1, NoRequestFields DEF CallOf, CostOf, Logs
  <2>3. /\ SumFunction(CallsOf(c, m)') = SumFunction(CallsOf(c, m))
        /\ SumFunction(CostsOf(c, m)') = SumFunction(CostsOf(c, m))
    BY <1>1, <2>2, InProgressMoves
  <2> QED
    BY <1>1, <2>1, <2>3 DEF LoggedAt
<1>8. ASSUME NEW m \in 1..Months PROVE ChargedAt(m)' /\ FundedAt(m)' /\ EarlierLeads(m)'
  <2>1. ChargedAt(m) /\ FundedAt(m) /\ EarlierLeads(m) /\ llm_redistribution[m] \in Nat
        /\ Cap \in Nat
    BY AmountsAssumption DEF TrailInv
  <2>2. \A i \in BudgetRowsOf(m) :
          /\ i \in DOMAIN llm_global_budget /\ i \in Nat
          /\ llm_global_budget[i].used \in Nat /\ llm_global_budget[i].total \in Nat
          /\ llm_global_budget'[i].used = llm_global_budget[i].used
          /\ llm_global_budget'[i].total = llm_global_budget[i].total + IF m = k THEN a ELSE 0
    BY <1>5, <1>6, RowsTyped
  <2>3. EarlierLeads(m)'
    <3>1. ASSUME NEW i \in BudgetRowsOf(m), NEW j \in BudgetRowsOf(m), i <= j
          PROVE  /\ llm_global_budget'[j].used <= llm_global_budget'[i].used
                 /\ llm_global_budget'[j].total <= llm_global_budget'[i].total
      <4>1. /\ llm_global_budget[j].used <= llm_global_budget[i].used
            /\ llm_global_budget[j].total <= llm_global_budget[i].total
        BY <2>1, <3>1 DEF EarlierLeads
      <4> QED
        BY <1>2, <2>2, <4>1
    <3> QED
      BY <1>6, <3>1 DEF EarlierLeads
  <2>4. /\ FundOf(request[r], m) = (IF m = k THEN a ELSE 0) /\ FundOf(NoRequest, m) = 0
        /\ ChargeOf(request[r], m) = 0 /\ ChargeOf(NoRequest, m) = 0
    BY <1>1, <1>3, NoRequestFields DEF ChargeOf, FundOf
  <2>5. /\ SumFunction(Charges(m)) \in Int
        /\ SumFunction(Charges(m)') =
             SumFunction(Charges(m)) + (ChargeOf(NoRequest, m) - ChargeOf(request[r], m))
        /\ SumFunction(Funds(m)) \in Int
        /\ SumFunction(Funds(m)') =
             SumFunction(Funds(m)) + (FundOf(NoRequest, m) - FundOf(request[r], m))
    BY <1>1, InProgressMoves
  <2>6. /\ SumFunction(Funds(m)') = SumFunction(Funds(m)) - (IF m = k THEN a ELSE 0)
        /\ SumFunction(Charges(m)') = SumFunction(Charges(m))
    BY <1>2, <2>4, <2>5
  <2>7. FundedAt(m)'
    <3>1. SumFunction(Funds(m)') <= llm_redistribution[m]
      BY <1>2, <2>1, <2>5, <2>6 DEF FundedAt
    <3>2. ASSUME NEW i \in BudgetRowsOf(m)
          PROVE  llm_global_budget'[i].total + SumFunction(Funds(m)') <=
                   Cap + llm_redistribution[m]
      <4>1. llm_global_budget[i].total + SumFunction(Funds(m)) <= Cap + llm_redistribution[m]
        BY <2>1 DEF FundedAt
      <4> QED
        BY <1>2, <2>1, <2>2, <2>5, <2>6, <4>1
    <3> QED
      BY <1>1, <1>6, <3>1, <3>2 DEF FundedAt
  <2>8. ChargedAt(m)'
    BY <1>6, <2>1, <2>2, <2>6 DEF ChargedAt
  <2> QED
    BY <2>3, <2>7, <2>8
<1>9. \A i \in DOMAIN llm_global_budget' : Cap <= llm_global_budget'[i].total
  <2> SUFFICES ASSUME NEW i \in DOMAIN llm_global_budget PROVE Cap <= llm_global_budget'[i].total
    BY <1>4
  <2>1. Cap <= llm_global_budget[i].total /\ Cap \in Nat
    BY AmountsAssumption DEF TrailInv
  <2> QED
    BY <1>2, <1>5, <2>1
<1> QED
  BY <1>1, <1>7, <1>8, <1>9 DEF TrailInv

(* A call is logged that was in progress.                                  *)
LEMMA LogKeepsTrail ==
  ASSUME BudgetStands, BudgetStands', TrailInv, NEW r \in BudgetRequests, LogCall(r)
  PROVE  TrailInv'
<1> DEFINE d == request[r].company
           k == request[r].month
           a == request[r].cost
<1>1. /\ request[r].pc = "log" /\ Step(r, NoRequest)
      /\ UNCHANGED <<llm_global_budget, llm_company_usage, llm_redistribution>>
      /\ llm_call_log' = Counted(llm_call_log, d, k, a)
      /\ request \in [BudgetRequests -> Request] /\ request' \in [BudgetRequests -> Request]
  BY DEF LogCall, BudgetStands, PoolTypeOK
<1>2. d \in BudgetCompanies /\ k \in 1..Months /\ a \in Nat
  BY <1>1, RequestFields, AmountsAssumption DEF HasMonth
<1>3. request[r].company = d /\ request[r].month = k /\ request[r].cost = a
  OBVIOUS
<1> HIDE DEF d, k, a
<1>4. OneMore(llm_call_log, llm_call_log', d, k, a)
  BY <1>1, <1>2, CountedAt DEF TrailInv
<1>5. ASSUME NEW c \in BudgetCompanies, NEW m \in 1..Months PROVE LoggedAt(c, m)'
  <2>1. LoggedAt(c, m) /\ llm_company_usage[c][m] \in Use
    BY DEF TrailInv, UsageTable
  <2>2. llm_company_usage[c][m].llm_calls \in Nat /\ llm_company_usage[c][m].cost \in Nat
    BY <2>1 DEF Use
  <2>3. /\ llm_call_log[c][m].llm_calls \in Nat /\ llm_call_log[c][m].cost \in Nat
        /\ llm_call_log'[c][m].llm_calls =
             llm_call_log[c][m].llm_calls + IF c = d /\ m = k THEN 1 ELSE 0
        /\ llm_call_log'[c][m].cost =
             llm_call_log[c][m].cost + IF c = d /\ m = k THEN a ELSE 0
    BY <1>4 DEF OneMore
  <2>4. /\ SumFunction(CallsOf(c, m)) \in Int
        /\ SumFunction(CallsOf(c, m)') =
             SumFunction(CallsOf(c, m)) + (CallOf(NoRequest, c, m) - CallOf(request[r], c, m))
        /\ SumFunction(CostsOf(c, m)) \in Int
        /\ SumFunction(CostsOf(c, m)') =
             SumFunction(CostsOf(c, m)) + (CostOf(NoRequest, c, m) - CostOf(request[r], c, m))
    BY <1>1, InProgressMoves
  <2>5. /\ CallOf(NoRequest, c, m) = 0 /\ CostOf(NoRequest, c, m) = 0
        /\ CallOf(request[r], c, m) = IF c = d /\ m = k THEN 1 ELSE 0
        /\ CostOf(request[r], c, m) = IF c = d /\ m = k THEN a ELSE 0
    BY <1>1, <1>3, NoRequestFields DEF CallOf, CostOf, Logs
  <2>6. CASE c = d /\ m = k
    BY <1>1, <1>2, <2>1, <2>2, <2>3, <2>4, <2>5, <2>6 DEF LoggedAt
  <2>7. CASE ~(c = d /\ m = k)
    BY <1>1, <1>2, <2>1, <2>2, <2>3, <2>4, <2>5, <2>7 DEF LoggedAt
  <2> QED
    BY <2>6, <2>7
<1>6. ASSUME NEW m \in 1..Months PROVE ChargedAt(m)' /\ FundedAt(m)' /\ EarlierLeads(m)'
  <2>1. ChargedAt(m) /\ FundedAt(m) /\ EarlierLeads(m)
    BY DEF TrailInv
  <2>2. BudgetRowsOf(m)' = BudgetRowsOf(m) /\ UsedByBasic(m)' = UsedByBasic(m)
    BY <1>1 DEF BudgetRowsOf, UsedByBasic
  <2>3. /\ ChargeOf(request[r], m) = 0 /\ ChargeOf(NoRequest, m) = 0
        /\ FundOf(request[r], m) = 0 /\ FundOf(NoRequest, m) = 0
    BY <1>1, NoRequestFields DEF ChargeOf, FundOf
  <2>4. /\ SumFunction(Charges(m)') = SumFunction(Charges(m))
        /\ SumFunction(Funds(m)') = SumFunction(Funds(m))
    BY <1>1, <2>3, InProgressMoves
  <2> QED
    BY <1>1, <2>1, <2>2, <2>4 DEF ChargedAt, FundedAt, EarlierLeads
<1> QED
  BY <1>1, <1>4, <1>5, <1>6 DEF TrailInv, OneMore

(* A contribution is recorded, and then to be funded.                      *)
LEMMA ContributionKeepsTrail ==
  ASSUME BudgetStands, BudgetStands', TrailInv, NEW r \in BudgetRequests, RecordContribution(r)
  PROVE  TrailInv'
<1> DEFINE k == request[r].month
           a == request[r].amount
           q == [request[r] EXCEPT !.pc = "fund"]
<1>1. /\ request[r].pc = "contribute" /\ Step(r, q)
      /\ UNCHANGED <<llm_global_budget, llm_company_usage, llm_call_log>>
      /\ llm_redistribution' = [llm_redistribution EXCEPT ![k] = @ + a]
      /\ request \in [BudgetRequests -> Request] /\ request' \in [BudgetRequests -> Request]
  BY DEF RecordContribution, BudgetStands, PoolTypeOK
<1>2. k \in 1..Months /\ a \in Nat
  BY <1>1, RequestFields, AmountsAssumption DEF HasMonth
<1>3. q.pc = "fund" /\ q.month = k /\ q.amount = a
  <2>1. request[r] \in [pc : {"contribute", "fund"}, month : 1..Months, amount : Contributions]
    BY <1>1 DEF Request, NoRequest
  <2> QED
    BY <2>1
<1> HIDE DEF q, k, a
<1>4. /\ llm_redistribution' \in [1..Months -> Nat]
      /\ \A m \in 1..Months : llm_redistribution[m] \in Nat
           /\ llm_redistribution'[m] = llm_redistribution[m] + IF m = k THEN a ELSE 0
  BY <1>1, <1>2 DEF TrailInv
<1>5. ASSUME NEW c \in BudgetCompanies, NEW m \in 1..Months PROVE LoggedAt(c, m)'
  <2>1. LoggedAt(c, m)
    BY DEF TrailInv
  <2>2. /\ CallOf(q, c, m) = 0 /\ CallOf(request[r], c, m) = 0
        /\ CostOf(q, c, m) = 0 /\ CostOf(request[r], c, m) = 0
    BY <1>1, <1>3 DEF CallOf, CostOf, Logs
  <2>3. /\ SumFunction(CallsOf(c, m)') = SumFunction(CallsOf(c, m))
        /\ SumFunction(CostsOf(c, m)') = SumFunction(CostsOf(c, m))
    BY <1>1, <2>2, InProgressMoves
  <2> QED
    BY <1>1, <2>1, <2>3 DEF LoggedAt
<1>6. ASSUME NEW m \in 1..Months PROVE ChargedAt(m)' /\ FundedAt(m)' /\ EarlierLeads(m)'
  <2>1. ChargedAt(m) /\ FundedAt(m) /\ EarlierLeads(m) /\ Cap \in Nat
    BY AmountsAssumption DEF TrailInv
  <2>2. BudgetRowsOf(m)' = BudgetRowsOf(m) /\ UsedByBasic(m)' = UsedByBasic(m)
    BY <1>1 DEF BudgetRowsOf, UsedByBasic
  <2>3. /\ ChargeOf(request[r], m) = 0 /\ ChargeOf(q, m) = 0
        /\ FundOf(request[r], m) = 0 /\ FundOf(q, m) = IF m = k THEN a ELSE 0
    BY <1>1, <1>3 DEF ChargeOf, FundOf
  <2>4. /\ SumFunction(Charges(m)) \in Int
        /\ SumFunction(Charges(m)') =
             SumFunction(Charges(m)) + (ChargeOf(q, m) - ChargeOf(request[r], m))
        /\ SumFunction(Funds(m)) \in Int
        /\ SumFunction(Funds(m)') =
             SumFunction(Funds(m)) + (FundOf(q, m) - FundOf(request[r], m))
    BY <1>1, InProgressMoves
  <2>5. /\ SumFunction(Funds(m)') = SumFunction(Funds(m)) + (IF m = k THEN a ELSE 0)
        /\ SumFunction(Charges(m)') = SumFunction(Charges(m))
    BY <1>2, <2>3, <2>4
  <2>6. FundedAt(m)'
    <3>1. SumFunction(Funds(m)') <= llm_redistribution'[m]
      BY <1>2, <1>4, <2>1, <2>4, <2>5 DEF FundedAt
    <3>2. ASSUME NEW i \in BudgetRowsOf(m)
          PROVE  llm_global_budget[i].total + SumFunction(Funds(m)') <=
                   Cap + llm_redistribution'[m]
      <4>1. llm_global_budget[i].total + SumFunction(Funds(m)) <= Cap + llm_redistribution[m]
        BY <2>1 DEF FundedAt
      <4>2. llm_global_budget[i].total \in Nat /\ SumFunction(Funds(m)) \in Int /\ Cap \in Nat
        BY <2>1, <2>4, RowsTyped
      <4>3. CASE m = k
        BY <1>2, <1>4, <2>5, <4>1, <4>2, <4>3
      <4>4. CASE m # k
        BY <1>4, <2>5, <4>1, <4>2, <4>4
      <4> QED
        BY <4>3, <4>4
    <3> QED
      BY <1>1, <2>2, <3>1, <3>2 DEF FundedAt
  <2> QED
    BY <1>1, <2>1, <2>2, <2>5, <2>6 DEF ChargedAt, EarlierLeads
<1> QED
  BY <1>1, <1>4, <1>5, <1>6 DEF TrailInv

(* A new row starts with nothing used and the cap, as the last.            *)
LEMMA BootstrapKeepsTrail ==
  ASSUME BudgetStands, BudgetStands', TrailInv, NEW r \in BudgetRequests, Bootstrap(r)
  PROVE  TrailInv'
<1> DEFINE k == request[r].month
           new == [month |-> k, total |-> Cap, used |-> 0]
           last == Len(llm_global_budget) + 1
<1>1. /\ request[r].pc = "bootstrap" /\ Step(r, NoRequest)
      /\ UNCHANGED <<llm_company_usage, llm_call_log, llm_redistribution>>
      /\ llm_global_budget' = Append(llm_global_budget, new)
      /\ llm_global_budget \in Seq(BudgetRow)
      /\ request \in [BudgetRequests -> Request] /\ request' \in [BudgetRequests -> Request]
  BY DEF Bootstrap, BudgetStands, PoolTypeOK
<1>2. k \in 1..Months /\ Cap \in Nat
  BY <1>1, RequestFields, AmountsAssumption DEF HasMonth
<1>3. /\ last \in Nat /\ last \notin DOMAIN llm_global_budget
      /\ \A i \in DOMAIN llm_global_budget : i < last
      /\ DOMAIN llm_global_budget' = DOMAIN llm_global_budget \union {last}
      /\ llm_global_budget'[last] = new
      /\ \A i \in DOMAIN llm_global_budget : llm_global_budget'[i] = llm_global_budget[i]
  <2>1. DOMAIN llm_global_budget = 1..Len(llm_global_budget) /\ Len(llm_global_budget) \in Nat
    BY <1>1
  <2>2. /\ DOMAIN llm_global_budget' = 1..last /\ llm_global_budget'[last] = new
        /\ \A i \in 1..Len(llm_global_budget) : llm_global_budget'[i] = llm_global_budget[i]
    BY <1>1, <2>1
  <2>3. 1..last = 1..Len(llm_global_budget) \union {last}
    BY <2>1
  <2> QED
    BY <2>1, <2>2, <2>3
<1>4. new.month = k /\ new.total = Cap /\ new.used = 0
  OBVIOUS
<1> HIDE DEF k, new, last
<1>5. \A m : /\ UsedByBasic(m)' = UsedByBasic(m)
             /\ \A i \in BudgetRowsOf(m)' :
                  \/ i \in BudgetRowsOf(m) /\ llm_global_budget'[i] = llm_global_budget[i]
                  \/ i = last /\ llm_global_budget'[i] = new
  BY <1>1, <1>3 DEF BudgetRowsOf, UsedByBasic
<1>6. ASSUME NEW c \in BudgetCompanies, NEW m \in 1..Months PROVE LoggedAt(c, m)'
  <2>1. LoggedAt(c, m)
    BY DEF TrailInv
  <2>2. /\ CallOf(NoRequest, c, m) = 0 /\ CallOf(request[r], c, m) = 0
        /\ CostOf(NoRequest, c, m) = 0 /\ CostOf(request[r], c, m) = 0
    BY <1>1, NoRequestFields DEF CallOf, CostOf, Logs
  <2>3. /\ SumFunction(CallsOf(c, m)') = SumFunction(CallsOf(c, m))
        /\ SumFunction(CostsOf(c, m)') = SumFunction(CostsOf(c, m))
    BY <1>1, <2>2, InProgressMoves
  <2> QED
    BY <1>1, <2>1, <2>3 DEF LoggedAt
<1>7. ASSUME NEW m \in 1..Months PROVE ChargedAt(m)' /\ FundedAt(m)' /\ EarlierLeads(m)'
  <2>1. ChargedAt(m) /\ FundedAt(m) /\ EarlierLeads(m) /\ llm_redistribution[m] \in Nat
    BY DEF TrailInv
  <2>2. /\ ChargeOf(request[r], m) = 0 /\ ChargeOf(NoRequest, m) = 0
        /\ FundOf(request[r], m) = 0 /\ FundOf(NoRequest, m) = 0
    BY <1>1, NoRequestFields DEF ChargeOf, FundOf
  <2>3. /\ SumFunction(Charges(m)') = SumFunction(Charges(m)) /\ SumFunction(Charges(m)) \in Int
        /\ SumFunction(Funds(m)') = SumFunction(Funds(m)) /\ SumFunction(Funds(m)) \in Int
    BY <1>1, <2>2, InProgressMoves
  <2>4. ChargedAt(m)'
    BY <1>4, <1>5, <2>1, <2>3 DEF ChargedAt
  <2>5. FundedAt(m)'
    <3>1. SumFunction(Funds(m)) <= llm_redistribution[m]
      BY <2>1 DEF FundedAt
    <3>2. \A i \in BudgetRowsOf(m)' :
            llm_global_budget'[i].total + SumFunction(Funds(m)) <= Cap + llm_redistribution[m]
      BY <1>2, <1>4, <1>5, <2>1, <2>3, <3>1 DEF FundedAt
    <3> QED
      BY <1>1, <2>3, <3>1, <3>2 DEF FundedAt
  <2>6. EarlierLeads(m)'
    <3>1. ASSUME NEW i \in BudgetRowsOf(m)', NEW j \in BudgetRowsOf(m)', i <= j
          PROVE  /\ llm_global_budget'[j].used <= llm_global_budget'[i].used
                 /\ llm_global_budget'[j].total <= llm_global_budget'[i].total
      <4>1. \A x \in BudgetRowsOf(m) :
              /\ x \in Nat /\ x < last
              /\ llm_global_budget[x].used \in Nat /\ llm_global_budget[x].total \in Nat
              /\ Cap <= llm_global_budget[x].total
        BY <1>3, RowsTyped DEF TrailInv
      <4>2. CASE i \in BudgetRowsOf(m) /\ j \in BudgetRowsOf(m)
        <5>1. /\ llm_global_budget[j].used <= llm_global_budget[i].used
              /\ llm_global_budget[j].total <= llm_global_budget[i].total
          BY <2>1, <3>1, <4>2 DEF EarlierLeads
        <5>2. /\ llm_global_budget'[i] = llm_global_budget[i]
              /\ llm_global_budget'[j] = llm_global_budget[j]
          BY <1>3, <4>2, RowsTyped
        <5> QED
          BY <5>1, <5>2
      <4>3. CASE i \in BudgetRowsOf(m) /\ j = last
        <5>1. llm_global_budget'[i] = llm_global_budget[i] /\ llm_global_budget'[j] = new
          BY <1>3, <4>3, RowsTyped
        <5> QED
          BY <1>4, <4>1, <4>3, <5>1
      <4>4. CASE i = last /\ j \in BudgetRowsOf(m)
        BY <1>3, <3>1, <4>1, <4>4
      <4>5. CASE i = last /\ j = last
        BY <1>2, <1>3, <1>4, <4>5
      <4> QED
        BY <1>5, <4>2, <4>3, <4>4, <4>5
    <3> QED
      BY <3>1 DEF EarlierLeads
  <2> QED
    BY <2>4, <2>5, <2>6
<1>8. \A i \in DOMAIN llm_global_budget' : Cap <= llm_global_budget'[i].total
  BY <1>2, <1>3, <1>4 DEF TrailInv
<1> QED
  BY <1>1, <1>6, <1>7, <1>8 DEF TrailInv

(* What is in progress is never negative.                                  *)
LEMMA InProgressNatural ==
  ASSUME request \in [BudgetRequests -> Request], NEW c, NEW m
  PROVE  /\ SumFunction(Charges(m)) \in Nat /\ SumFunction(Funds(m)) \in Nat
         /\ SumFunction(CallsOf(c, m)) \in Nat /\ SumFunction(CostsOf(c, m)) \in Nat
<1>1. \A r \in BudgetRequests :
        /\ ChargeOf(request[r], m) \in Nat /\ FundOf(request[r], m) \in Nat
        /\ CallOf(request[r], c, m) \in Nat /\ CostOf(request[r], c, m) \in Nat
  BY AmountsInProgress
<1>2. /\ Charges(m) \in [BudgetRequests -> Nat] /\ Funds(m) \in [BudgetRequests -> Nat]
      /\ CallsOf(c, m) \in [BudgetRequests -> Nat] /\ CostsOf(c, m) \in [BudgetRequests -> Nat]
  BY <1>1 DEF Charges, Funds, CallsOf, CostsOf
<1> QED
  BY <1>2, SumsNatural, BudgetRequestsAssumption

(* Nothing is recorded at first, and nothing in progress.                  *)
LEMMA InitTrail == BudgetInit => TrailInv
<1> SUFFICES ASSUME BudgetInit PROVE TrailInv
  OBVIOUS
<1>1. /\ DOMAIN llm_global_budget = {}
      /\ NoUse \in Use /\ NoUse.llm_calls = 0 /\ NoUse.cost = 0
      /\ llm_company_usage \in UsageTable /\ llm_call_log \in UsageTable
      /\ llm_redistribution \in [1..Months -> Nat]
      /\ \A m \in 1..Months : llm_redistribution[m] = 0
      /\ \A c \in BudgetCompanies, m \in 1..Months :
           llm_company_usage[c][m] = NoUse /\ llm_call_log[c][m] = NoUse
  BY DEF BudgetInit, UsageTable, NoUse, Use
<1>2. \A r \in BudgetRequests : request[r].pc = "idle"
  BY NoRequestFields DEF BudgetInit
<1>3. ASSUME NEW c, NEW m
      PROVE  /\ SumFunction(Charges(m)) = 0 /\ SumFunction(Funds(m)) = 0
             /\ SumFunction(CallsOf(c, m)) = 0 /\ SumFunction(CostsOf(c, m)) = 0
  <2>1. /\ Charges(m) \in [BudgetRequests -> {0}] /\ Funds(m) \in [BudgetRequests -> {0}]
        /\ CallsOf(c, m) \in [BudgetRequests -> {0}] /\ CostsOf(c, m) \in [BudgetRequests -> {0}]
    BY <1>2 DEF Charges, Funds, CallsOf, CostsOf, ChargeOf, FundOf, CallOf, CostOf, Logs
  <2> QED
    BY <2>1, SumOfZeros, BudgetRequestsAssumption
<1>4. \A c \in BudgetCompanies, m \in 1..Months : LoggedAt(c, m)
  BY <1>1, <1>3 DEF LoggedAt
<1>5. ASSUME NEW m \in 1..Months PROVE ChargedAt(m) /\ FundedAt(m) /\ EarlierLeads(m)
  <2>1. BudgetRowsOf(m) = {}
    BY <1>1 DEF BudgetRowsOf
  <2>2. UsedByBasic(m) \in [Basic -> {0}]
    <3>1. \A c \in Basic : llm_company_usage[c][m].cost = 0
      BY <1>1 DEF BudgetCompanies
    <3> QED
      BY <3>1 DEF UsedByBasic
  <2>3. SumFunction(UsedByBasic(m)) = 0
    BY <2>2, SumOfZeros, PlansAssumption
  <2> QED
    BY <1>1, <1>3, <2>1, <2>3 DEF ChargedAt, FundedAt, EarlierLeads
<1> QED
  BY <1>1, <1>4, <1>5 DEF TrailInv

(* A step of a request that is neither to charge, to fund nor to log.      *)
LEMMA IdlerKeepsTrail ==
  ASSUME BudgetStands, BudgetStands', TrailInv,
         NEW r \in BudgetRequests, NEW q \in Request, Step(r, q),
         UNCHANGED tables, q.pc \notin {"pool", "fund", "log"}
  PROVE  TrailInv'
<1>1. request[r] \in Request
  BY DEF BudgetStands, PoolTypeOK
<1>2. ASSUME NEW c, NEW m
      PROVE  /\ ChargeOf(q, m) <= ChargeOf(request[r], m) /\ FundOf(q, m) <= FundOf(request[r], m)
             /\ CallOf(q, c, m) <= CallOf(request[r], c, m)
             /\ CostOf(q, c, m) <= CostOf(request[r], c, m)
  <2>1. ChargeOf(q, m) = 0 /\ FundOf(q, m) = 0 /\ CallOf(q, c, m) = 0 /\ CostOf(q, c, m) = 0
    BY DEF ChargeOf, FundOf, CallOf, CostOf, Logs
  <2>2. /\ ChargeOf(request[r], m) \in Nat /\ FundOf(request[r], m) \in Nat
        /\ CallOf(request[r], c, m) \in Nat /\ CostOf(request[r], c, m) \in Nat
    BY <1>1, AmountsInProgress
  <2> QED
    BY <2>1, <2>2
<1> QED
  BY <1>2, QuietKeepsTrail

(* Every statement keeps the trail.                                        *)
LEMMA NextTrail == BudgetStands /\ BudgetStands' /\ TrailInv /\ [BudgetNext]_budgetVars => TrailInv'
<1> SUFFICES ASSUME BudgetStands, BudgetStands', TrailInv, [BudgetNext]_budgetVars PROVE TrailInv'
  OBVIOUS
<1>1. CASE Rollover \/ UNCHANGED budgetVars
  <2>1. UNCHANGED <<request, llm_global_budget, llm_company_usage, llm_call_log,
                    llm_redistribution>>
    BY <1>1 DEF Rollover, budgetVars, tables
  <2>2. \A m : /\ Charges(m)' = Charges(m) /\ Funds(m)' = Funds(m)
               /\ UsedByBasic(m)' = UsedByBasic(m) /\ BudgetRowsOf(m)' = BudgetRowsOf(m)
    BY <2>1 DEF Charges, Funds, UsedByBasic, BudgetRowsOf
  <2>3. \A c, m : CallsOf(c, m)' = CallsOf(c, m) /\ CostsOf(c, m)' = CostsOf(c, m)
    BY <2>1 DEF CallsOf, CostsOf
  <2>4. \A m : /\ ChargedAt(m)' <=> ChargedAt(m)
               /\ FundedAt(m)' <=> FundedAt(m)
               /\ EarlierLeads(m)' <=> EarlierLeads(m)
    BY <2>1, <2>2 DEF ChargedAt, FundedAt, EarlierLeads
  <2>5. \A c, m : LoggedAt(c, m)' <=> LoggedAt(c, m)
    BY <2>1, <2>3 DEF LoggedAt
  <2> QED
    BY <2>1, <2>4, <2>5 DEF TrailInv
<1>2. ASSUME NEW r \in BudgetRequests,
             \/ EnsureFound(r) \/ Refuse(r) \/ BudgetDie(r)
      PROVE  TrailInv'
  <2>1. Step(r, NoRequest) /\ UNCHANGED tables
    BY <1>2 DEF EnsureFound, Refuse, BudgetDie
  <2> QED
    BY <2>1, NoRequestFields, IdlerKeepsTrail
<1>3. ASSUME NEW r \in BudgetRequests, NEW q,
             q.pc \in {"ensure", "bootstrap", "check", "granted", "company", "contribute"},
             Step(r, q), UNCHANGED tables
      PROVE  TrailInv'
  <2>1. q \in Request
    BY <1>3 DEF BudgetStands, PoolTypeOK, Step
  <2> QED
    BY <1>3, <2>1, IdlerKeepsTrail
<1>4. ASSUME NEW r \in BudgetRequests, Ensure(r) PROVE TrailInv'
  BY <1>3, <1>4 DEF Ensure, BudgetCall
<1>5. ASSUME NEW r \in BudgetRequests, EnsureMissed(r) PROVE TrailInv'
  BY <1>3, <1>5 DEF EnsureMissed
<1>6. ASSUME NEW r \in BudgetRequests, NEW company \in BudgetCompanies, NEW cost \in 1..MaxCost,
             GrantPaying(r, company, cost) \/ Check(r, company, cost)
      PROVE  TrailInv'
  BY <1>3, <1>6 DEF GrantPaying, Check, BudgetCall
<1>7. ASSUME NEW r \in BudgetRequests, Grant(r) PROVE TrailInv'
  BY <1>3, <1>7 DEF Grant
<1>8. ASSUME NEW r \in BudgetRequests, Record(r) PROVE TrailInv'
  BY <1>3, <1>8 DEF Record
<1>9. ASSUME NEW r \in BudgetRequests, NEW amount \in Contributions, Contribute(r, amount)
      PROVE  TrailInv'
  BY <1>3, <1>9 DEF Contribute, BudgetCall
<1> QED
  BY <1>1, <1>2, <1>4, <1>5, <1>6, <1>7, <1>8, <1>9, BootstrapKeepsTrail, CountKeepsTrail,
     ChargeKeepsTrail, LogKeepsTrail, ContributionKeepsTrail, FundKeepsTrail DEF BudgetNext

----------------------------------------------------------------------------
(* The theorems.                                                           *)

(* In every state the first row of a month leaves room, below the bound,   *)
(* for whatever may yet be charged to it.                                  *)
THEOREM BudgetAlwaysStands == BudgetSpec => []BudgetStands
<1> QED
  BY InitBudgetStands, NextBudgetStands, PTL DEF BudgetSpec

(* The first row of a month is its earliest.                               *)
LEMMA FirstIsEarliest ==
  ASSUME BudgetStands, NEW m \in 1..Months, BudgetRowsOf(m) # {}
  PROVE  \E i \in BudgetRowsOf(m) :
           FirstRow(m) = llm_global_budget[i] /\ \A k \in BudgetRowsOf(m) : i <= k
<1>1. PICK i \in DOMAIN llm_global_budget : FirstFits(m, i)
  BY DEF BudgetStands, PoolsFit
<1>2. i \in BudgetRowsOf(m) /\ \A j \in BudgetRowsOf(m) : i <= j
  BY <1>1 DEF FirstFits
<1>3. BudgetRowsOf(m) \subseteq Nat
  BY RowsTyped
<1>4. \A h \in BudgetRowsOf(m) : (\A j \in BudgetRowsOf(m) : h <= j) => h = i
  BY <1>2, <1>3
<1>5. (CHOOSE h \in BudgetRowsOf(m) : \A j \in BudgetRowsOf(m) : h <= j) = i
  BY <1>2, <1>4
<1> QED
  BY <1>2, <1>5 DEF FirstRow

(* The pool of a month is overdrawn by at most one call for each other     *)
(* concurrent request, whatever overlaps, dies or rolls over.              *)
THEOREM OverdraftHolds == BudgetSpec => []OverdraftBounded
<1>1. ASSUME BudgetStands, MaxCost <= Cap, NEW m \in 1..Months, BudgetRowsOf(m) # {}
      PROVE  FirstRow(m).used <= FirstRow(m).total + (N - 1) * MaxCost
  <2>1. PICK i \in DOMAIN llm_global_budget : FirstFits(m, i)
    BY <1>1 DEF BudgetStands, PoolsFit
  <2>2. /\ PoolTypeOK /\ llm_global_budget \in Seq(BudgetRow)
        /\ llm_global_budget[i] \in BudgetRow
    BY <1>1 DEF BudgetStands, PoolTypeOK
  <2>3. llm_global_budget[i].used \in Nat /\ llm_global_budget[i].total \in Nat
    BY <2>2 DEF BudgetRow
  <2>4. FirstRow(m) = llm_global_budget[i]
    <3>1. i \in BudgetRowsOf(m) /\ \A j \in BudgetRowsOf(m) : i <= j
      BY <2>1 DEF FirstFits
    <3>2. PICK h \in BudgetRowsOf(m) :
            FirstRow(m) = llm_global_budget[h] /\ \A j \in BudgetRowsOf(m) : h <= j
      BY <1>1, FirstIsEarliest
    <3>3. h \in Nat /\ i \in Nat /\ h <= i /\ i <= h
      BY <1>1, <3>1, <3>2, RowsTyped
    <3> QED
      BY <3>2, <3>3
  <2>5. Fits(llm_global_budget[i].used, llm_global_budget[i].total, Owing(m), Cost)
    BY <1>1, <2>1 DEF FirstFits
  <2>6. Fits(llm_global_budget[i].used, llm_global_budget[i].total, {}, Cost)
    <3>1. {} \in SUBSET Owing(m) /\ llm_global_budget[i].total <= llm_global_budget[i].total
      BY <2>3
    <3> QED
      BY <2>2, <2>3, <2>5, <3>1, OwingCosts, FitsLess
  <2> QED
    BY <2>4, <2>6 DEF Fits
<1>2. BudgetStands => OverdraftBounded
  BY <1>1 DEF OverdraftBounded, N
<1> QED
  BY <1>2, BudgetAlwaysStands, PTL

(* The log shows no more than was counted, and no row of a month lost or   *)
(* gained what was not used and contributed in it, wherever a call dies,   *)
(* and the first of them the most.                                         *)
THEOREM TrailHolds == BudgetSpec => []TrailCovers
<1>1. ASSUME BudgetStands, TrailInv PROVE TrailCovers
  <2> USE <1>1
  <2>1. request \in [BudgetRequests -> Request]
    BY RowsTyped
  <2>2. ASSUME NEW c \in BudgetCompanies, NEW m \in 1..Months
        PROVE  /\ llm_call_log[c][m].llm_calls <= llm_company_usage[c][m].llm_calls
               /\ llm_call_log[c][m].cost <= llm_company_usage[c][m].cost
    <3>1. SumFunction(CallsOf(c, m)) \in Nat /\ SumFunction(CostsOf(c, m)) \in Nat
      BY <2>1, InProgressNatural
    <3>2. LoggedAt(c, m) /\ llm_company_usage[c][m] \in Use /\ llm_call_log[c][m] \in Use
      BY DEF TrailInv, UsageTable
    <3>3. /\ llm_company_usage[c][m].llm_calls \in Nat /\ llm_company_usage[c][m].cost \in Nat
          /\ llm_call_log[c][m].llm_calls \in Nat /\ llm_call_log[c][m].cost \in Nat
      BY <3>2 DEF Use
    <3> QED
      BY <3>1, <3>2, <3>3 DEF LoggedAt
  <2>3. ASSUME NEW j \in DOMAIN llm_global_budget, NEW m \in 1..Months,
               llm_global_budget[j].month = m
        PROVE  /\ llm_global_budget[j].used <= SumFunction(UsedByBasic(m))
               /\ llm_global_budget[j].total <= Cap + llm_redistribution[m]
               /\ llm_global_budget[j].used <= FirstRow(m).used
               /\ llm_global_budget[j].total <= FirstRow(m).total
    <3>1. j \in BudgetRowsOf(m) /\ ChargedAt(m) /\ FundedAt(m) /\ EarlierLeads(m)
      BY <2>3 DEF BudgetRowsOf, TrailInv
    <3>2. /\ SumFunction(Charges(m)) \in Nat /\ SumFunction(Funds(m)) \in Nat
          /\ SumFunction(UsedByBasic(m)) \in Int
          /\ llm_redistribution[m] \in Nat /\ Cap \in Nat
          /\ llm_global_budget[j].used \in Nat /\ llm_global_budget[j].total \in Nat
      BY <2>1, InProgressNatural, UsedTyped, AmountsAssumption, RowsTyped DEF TrailInv
    <3>3. /\ llm_global_budget[j].used + SumFunction(Charges(m)) <= SumFunction(UsedByBasic(m))
          /\ llm_global_budget[j].total + SumFunction(Funds(m)) <= Cap + llm_redistribution[m]
      BY <3>1 DEF ChargedAt, FundedAt
    <3>4. PICK i \in BudgetRowsOf(m) :
            FirstRow(m) = llm_global_budget[i] /\ \A k \in BudgetRowsOf(m) : i <= k
      BY <3>1, FirstIsEarliest
    <3>5. llm_global_budget[j].used <= FirstRow(m).used
          /\ llm_global_budget[j].total <= FirstRow(m).total
      BY <3>1, <3>4 DEF EarlierLeads
    <3> QED
      BY <3>2, <3>3, <3>5
  <2>4. \A j \in DOMAIN llm_global_budget : llm_global_budget[j].month \in 1..Months
    BY RowsTyped
  <2> QED
    BY <2>2, <2>3, <2>4 DEF TrailCovers
<1> QED
  BY <1>1, InitTrail, NextTrail, BudgetAlwaysStands, PTL DEF BudgetSpec
=============================================================================
