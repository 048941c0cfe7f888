----------------------------- MODULE FdcLedger -----------------------------
(***************************************************************************)
(* The ledger of financial decision commits: fdcAppendV1 with the FDV gate *)
(* in front of it and the fdc_commits table of D1 behind it.               *)
(*                                                                         *)
(* One call of fdcAppendV1 is three SQL statements with an await at each:  *)
(* look the idempotency key up, read the last commit of the company,       *)
(* insert the new one chained to it.  Each statement is atomic in D1 and   *)
(* nothing holds between two of them, so every statement is an action and  *)
(* calls interleave at every await.  A call can also die at an await (the  *)
(* worker is evicted, D1 throws); the statement in flight may have been    *)
(* executed by then or not.                                                *)
(***************************************************************************)
EXTENDS Integers, Sequences

CONSTANTS
  Callers,    \* concurrent executions of fdcAppendV1
  Inputs,     \* the commits callers may submit
  FdcIds,     \* values of fdcId
  Companies,  \* values of companyId
  Keys,       \* values of idempotencyKey
  Signers,    \* values of signatures.human other than the missing one
  Unsigned,   \* signatures.human when the field is empty
  NoFdc       \* SQL NULL in previous_fdc_id

Layers == {"JUNIOR", "SENIOR", "SSC", "AGI"}
OrdStatuses == {"BLOCKED", "PARTIAL", "OPERATIONAL"}

(***************************************************************************)
(* A FinancialDecisionCommitV1 as far as the runtime looks at it.  amount  *)
(* stands for the scalar fields (intent, amount, currency, status).        *)
(* wellFormed stands for the shape checks of the validator: company, key   *)
(* and policy version present, a currency code, a non-negative amount.     *)
(***************************************************************************)
FinancialDecisionCommitV1 ==
  [ fdcId          : FdcIds,
    companyId      : Companies,
    idempotencyKey : Keys,
    generatedAt    : Nat,
    amount         : Nat,
    limit          : Nat,
    layer          : Layers,
    ordStatus      : OrdStatuses,
    human          : Signers \union {Unsigned},
    wellFormed     : BOOLEAN ]

ASSUME InputsAssumption == Inputs \subseteq FinancialDecisionCommitV1
ASSUME NoFdcAssumption  == NoFdc \notin FdcIds

VARIABLES
  fdc_commits,  \* the table, in insertion order
  call          \* per caller: the call in progress, or the answer it got

vars == <<fdc_commits, call>>

----------------------------------------------------------------------------
(* fdvValidateV1: the gate every commit passes before the first await.     *)

Delegated == {"SENIOR", "SSC", "AGI"}

fdvValidateV1(input) ==
  /\ input.wellFormed
  /\ input.human # Unsigned
  /\ input.amount <= input.limit
  /\ input.layer \in Delegated => input.ordStatus = "OPERATIONAL"

----------------------------------------------------------------------------
(* The chain hash.  SHA-256 is taken as collision free, so a digest is     *)
(* represented by what was hashed: the digest of a commit is the sequence  *)
(* of the texts from the first commit of its chain to itself, and GENESIS  *)
(* is the empty one.                                                       *)
(*                                                                         *)
(* stableJson passes the top-level key names to JSON.stringify as an array *)
(* replacer.  Such an array filters keys at every depth, and no nested key *)
(* has a top-level name: decisionRef, scope, trace and signatures are      *)
(* written as {}.  Layer, ordStatus and human are therefore not in the     *)
(* text.                                                                   *)

GENESIS == <<>>

StableText ==
  [ fdcId         : FdcIds,
    companyId     : Companies,
    generatedAt   : Nat,
    amount        : Nat,
    previousFdcId : FdcIds \union {NoFdc} ]

ChainHashes == Seq(StableText)

stableJson(input, previousFdcId) ==
  [ fdcId         |-> input.fdcId,
    companyId     |-> input.companyId,
    generatedAt   |-> input.generatedAt,
    amount        |-> input.amount,
    previousFdcId |-> previousFdcId ]

sha256Hex(text, previousChainHash) == Append(previousChainHash, text)

Row ==
  [ commit        : Inputs,
    previousFdcId : FdcIds \union {NoFdc},
    chainHash     : ChainHashes,
    seen          : Nat ]   \* history: rows in the table when last was read

----------------------------------------------------------------------------
(* The SQL statements.                                                     *)

Rows == DOMAIN fdc_commits

RowsOf(company) == {i \in Rows : fdc_commits[i].commit.companyId = company}

KeyTaken(input) ==
  \E i \in RowsOf(input.companyId) :
    fdc_commits[i].commit.idempotencyKey = input.idempotencyKey

(* Mutants of LastRows: the WHERE clause is lost; DESC is lost.             *)
LastRowsOfAnyone(company) ==
  {i \in Rows : \A k \in Rows :
     fdc_commits[k].commit.generatedAt <= fdc_commits[i].commit.generatedAt}

FirstRows(company) ==
  {i \in RowsOf(company) : \A k \in RowsOf(company) :
     fdc_commits[k].commit.generatedAt >= fdc_commits[i].commit.generatedAt}

(* ORDER BY generated_at DESC LIMIT 1: any row of the greatest timestamp.  *)
LastRows(company) ==
  {i \in RowsOf(company) :
     \A k \in RowsOf(company) :
       fdc_commits[k].commit.generatedAt <= fdc_commits[i].commit.generatedAt}

(* What the insert refuses: the primary key and fdc_idempotency_uq.        *)
InsertConflict(input) ==
  \/ \E i \in Rows : fdc_commits[i].commit.fdcId = input.fdcId
  \/ KeyTaken(input)

----------------------------------------------------------------------------
(* A call of fdcAppendV1.                                                  *)

Idle == [pc |-> "idle"]

Call ==
  {Idle}
    \union [pc : {"lookup", "last"}, input : Inputs]
    \union [pc : {"insert"}, input : Inputs, previousFdcId : FdcIds \union {NoFdc},
            previousChainHash : ChainHashes, seen : Nat]
    \union [pc : {"inserted"}, input : Inputs]
    \union [pc : {"answered"}, input : Inputs, reused : BOOLEAN]

Ended == {"idle", "answered"}

TypeOK ==
  /\ fdc_commits \in Seq(Row)
  /\ call \in [Callers -> Call]

Init ==
  /\ fdc_commits = <<>>
  /\ call = [c \in Callers |-> Idle]

(* Mutant of Begin: the gate is left to the callers.                       *)
BeginUnvalidated(c, input) ==
  /\ call[c].pc \in Ended
  /\ call' = [call EXCEPT ![c] = [pc |-> "lookup", input |-> input]]
  /\ UNCHANGED fdc_commits

(* Validation is synchronous: a rejected commit throws before any await    *)
(* and changes nothing, so only accepted ones start a call.                *)
Begin(c, input) ==
  /\ call[c].pc \in Ended
  /\ fdvValidateV1(input)
  /\ call' = [call EXCEPT ![c] = [pc |-> "lookup", input |-> input]]
  /\ UNCHANGED fdc_commits

(* The key is known: answered as reused, without comparing the commits.    *)
LookupFound(c) ==
  /\ call[c].pc = "lookup"
  /\ KeyTaken(call[c].input)
  /\ call' = [call EXCEPT ![c] =
       [pc |-> "answered", input |-> call[c].input, reused |-> TRUE]]
  /\ UNCHANGED fdc_commits

LookupMissed(c) ==
  /\ call[c].pc = "lookup"
  /\ ~KeyTaken(call[c].input)
  /\ call' = [call EXCEPT ![c] = [pc |-> "last", input |-> call[c].input]]
  /\ UNCHANGED fdc_commits

ReadFirst(c) ==
  /\ call[c].pc = "last"
  /\ RowsOf(call[c].input.companyId) = {}
  /\ call' = [call EXCEPT ![c] =
       [pc |-> "insert", input |-> call[c].input, previousFdcId |-> NoFdc,
        previousChainHash |-> GENESIS, seen |-> Len(fdc_commits)]]
  /\ UNCHANGED fdc_commits

ReadLast(c) ==
  /\ call[c].pc = "last"
  /\ \E i \in LastRows(call[c].input.companyId) :
       call' = [call EXCEPT ![c] =
         [pc |-> "insert", input |-> call[c].input,
          previousFdcId |-> fdc_commits[i].commit.fdcId,
          previousChainHash |-> fdc_commits[i].chainHash,
          seen |-> Len(fdc_commits)]]
  /\ UNCHANGED fdc_commits

NewRow(k) ==
  [ commit        |-> k.input,
    previousFdcId |-> k.previousFdcId,
    chainHash     |-> sha256Hex(stableJson(k.input, k.previousFdcId), k.previousChainHash),
    seen          |-> k.seen ]

Insert(c) ==
  /\ call[c].pc = "insert"
  /\ ~InsertConflict(call[c].input)
  /\ fdc_commits' = Append(fdc_commits, NewRow(call[c]))
  /\ call' = [call EXCEPT ![c] = [pc |-> "inserted", input |-> call[c].input]]

(* A unique constraint fails: D1 throws, and so does fdcAppendV1.          *)
InsertRefused(c) ==
  /\ call[c].pc = "insert"
  /\ InsertConflict(call[c].input)
  /\ call' = [call EXCEPT ![c] = Idle]
  /\ UNCHANGED fdc_commits

Return(c) ==
  /\ call[c].pc = "inserted"
  /\ call' = [call EXCEPT ![c] =
       [pc |-> "answered", input |-> call[c].input, reused |-> FALSE]]
  /\ UNCHANGED fdc_commits

(* The call dies at an await.  After "inserted" the row is in the table    *)
(* and the caller does not know it; a retry is a Begin of the same input.  *)
Die(c) ==
  /\ call[c].pc \notin Ended
  /\ call' = [call EXCEPT ![c] = Idle]
  /\ UNCHANGED fdc_commits

Next ==
  \E c \in Callers :
    \/ \E input \in Inputs : Begin(c, input)
    \/ LookupFound(c)
    \/ LookupMissed(c)
    \/ ReadFirst(c)
    \/ ReadLast(c)
    \/ Insert(c)
    \/ InsertRefused(c)
    \/ Return(c)
    \/ Die(c)

Spec == Init /\ [][Next]_vars

----------------------------------------------------------------------------
(* Properties.                                                             *)

IsLinkedTo(i, k) ==
  /\ fdc_commits[k].commit.companyId = fdc_commits[i].commit.companyId
  /\ fdc_commits[i].previousFdcId = fdc_commits[k].commit.fdcId
  /\ fdc_commits[i].chainHash =
       sha256Hex(stableJson(fdc_commits[i].commit, fdc_commits[k].commit.fdcId),
                 fdc_commits[k].chainHash)

IsGenesis(i) ==
  /\ fdc_commits[i].previousFdcId = NoFdc
  /\ fdc_commits[i].chainHash = sha256Hex(stableJson(fdc_commits[i].commit, NoFdc), GENESIS)

(* However calls interleave and die, every stored commit starts a chain or *)
(* carries the id and the digest of one and the same commit of the same    *)
(* company that was in the table before it: the two values of the "last"   *)
(* SELECT are never torn, dangling or another tenant's.                    *)
LinkIntegrity ==
  \A i \in Rows : IsGenesis(i) \/ \E k \in 1..(i - 1) : IsLinkedTo(i, k)

(* The idempotency check and the insert are two statements, yet two calls  *)
(* that both missed the key never both store a commit for it.              *)
OneCommitPerKey ==
  \A i, k \in Rows :
    /\ fdc_commits[i].commit.companyId = fdc_commits[k].commit.companyId
    /\ fdc_commits[i].commit.idempotencyKey = fdc_commits[k].commit.idempotencyKey
    => i = k

(* What a caller is told holds in the table: a fresh acknowledgement       *)
(* means that very commit is stored, a reused one that the company has a   *)
(* commit under the key.                                                   *)
AnsweredIsStored ==
  \A c \in Callers : call[c].pc = "answered" =>
    IF call[c].reused
    THEN KeyTaken(call[c].input)
    ELSE \E i \in Rows : fdc_commits[i].commit = call[c].input

(* Two commits chained to the same predecessor: where the chain forks.     *)
Fork(i, k) ==
  /\ i < k
  /\ fdc_commits[i].commit.companyId = fdc_commits[k].commit.companyId
  /\ fdc_commits[i].previousFdcId = fdc_commits[k].previousFdcId

(* The only two ways a fork comes about: the later commit read the last    *)
(* row before the earlier one was inserted, or the earlier one is not the  *)
(* newest by generatedAt (backdated or a tie), so the SELECT passed over   *)
(* it.  Without an overlap and with increasing timestamps there is one     *)
(* chain per company.                                                      *)
ForkExplained ==
  \A i, k \in Rows : Fork(i, k) =>
    \/ fdc_commits[k].seen < i
    \/ \E p \in Rows :
         /\ fdc_commits[p].commit.fdcId = fdc_commits[i].previousFdcId
         /\ fdc_commits[i].commit.generatedAt <= fdc_commits[p].commit.generatedAt

(* The chain digest is meant to bind what payloadForChain lists, the       *)
(* trace and the signatures included: the stored digest must not be that   *)
(* of the same commit under another human signature, layer or readiness.   *)
(* The code does not keep this: stableJson drops the nested objects.       *)
HashBindsTerms ==
  \A i \in Rows :
    LET row == fdc_commits[i]
        Altered == {[row.commit EXCEPT !.human = h, !.layer = l, !.ordStatus = o] :
                      h \in Signers, l \in Layers, o \in OrdStatuses} \ {row.commit}
    IN  \A other \in Altered :
          stableJson(other, row.previousFdcId) # stableJson(row.commit, row.previousFdcId)

(* The ledger keeps the promises of FdcRegister.                           *)
Acceptable == {input \in Inputs : fdvValidateV1(input)}

committed == {fdc_commits[i].commit : i \in Rows}

answer ==
  [c \in Callers |->
     IF call[c].pc = "answered"
     THEN {[input |-> call[c].input, reused |-> call[c].reused]}
     ELSE {}]

Register ==
  INSTANCE FdcRegister
    WITH Acceptable <- Acceptable, committed <- committed, answer <- answer

RefinesRegister == Register!Spec
=============================================================================
