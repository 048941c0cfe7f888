------------------------------ MODULE ChainLog ------------------------------
(***************************************************************************)
(* The immutable chain in use: callers append records, a holder keeps them *)
(* with their payloads, and what is kept may be altered.                   *)
(*                                                                         *)
(* appendImmutableRecord awaits two digests.  It reads its predecessor     *)
(* from its argument, so what it works on is what the caller read before   *)
(* the call, and other appends may be stored meanwhile.  Nothing in the    *)
(* repository persists a chain: the holder and the alterations of its data *)
(* are external.                                                           *)
(***************************************************************************)
EXTENDS ImmutableChain

CONSTANTS
  Callers,
  MaxIssued,  \* bound: records appended in a behaviour
  MaxEdits    \* bound: alterations of what is held

ASSUME BoundsAssumption == MaxIssued \in Nat /\ MaxEdits \in Nat

VARIABLES
  issued,     \* history: every record appendImmutableRecord has returned
  records,    \* the records held
  payloads,   \* and their payloads
  call,       \* per caller: the append in progress
  misplaced,  \* history: a record was stored on another than its predecessor
  edits       \* history: alterations so far

vars == <<issued, records, payloads, call, misplaced, edits>>

Idle == [pc |-> "idle"]

Call ==
  {Idle}
    \union [pc : {"digesting"}, previous : SUBSET ImmutableChainRecord, scope : Scopes,
            payload : Payloads, metadata : Metadata, from : Nat]
    \union [pc : {"issued"}, record : ImmutableChainRecord, payload : Payloads, from : Nat]

TypeOK ==
  /\ issued \in Seq(ImmutableChainRecord)
  /\ records \in Seq(ImmutableChainRecord)
  /\ payloads \in Seq(Payloads)
  /\ Len(records) = Len(payloads)
  /\ call \in [Callers -> Call]
  /\ misplaced \in BOOLEAN
  /\ edits \in 0..MaxEdits

Init ==
  /\ issued = <<>>
  /\ records = <<>>
  /\ payloads = <<>>
  /\ call = [c \in Callers |-> Idle]
  /\ misplaced = FALSE
  /\ edits = 0

(* An append to the last record held, or, as the orchestrator does, to     *)
(* none.  An incoherent one throws at once and changes nothing.            *)
Begin(c, from, scope, payload, metadata) ==
  /\ call[c] = Idle
  /\ from \in {0, Len(records)}
  /\ LET previous == IF from = 0 THEN {} ELSE {records[from]}
     IN  /\ assertAppendInputCoherent(previous, scope)
         /\ call' = [call EXCEPT ![c] =
              [pc |-> "digesting", previous |-> previous, scope |-> scope,
               payload |-> payload, metadata |-> metadata, from |-> from]]
  /\ UNCHANGED <<issued, records, payloads, misplaced, edits>>

(* The digests are there and the record is returned.                       *)
Issue(c) ==
  /\ call[c].pc = "digesting"
  /\ Len(issued) < MaxIssued
  /\ LET k == call[c]
         r == appendImmutableRecord(k.previous, k.scope, k.payload, k.metadata,
                                    Len(issued) + 1)
     IN  /\ issued' = Append(issued, r)
         /\ call' = [call EXCEPT ![c] =
              [pc |-> "issued", record |-> r, payload |-> k.payload, from |-> k.from]]
  /\ UNCHANGED <<records, payloads, misplaced, edits>>

(* The holder adds the record and its payload.                             *)
Store(c) ==
  /\ call[c].pc = "issued"
  /\ records' = Append(records, call[c].record)
  /\ payloads' = Append(payloads, call[c].payload)
  /\ misplaced' = (misplaced \/ call[c].from # Len(records))
  /\ call' = [call EXCEPT ![c] = Idle]
  /\ UNCHANGED <<issued, edits>>

(* The caller fails before it has stored the record.                       *)
Lose(c) ==
  /\ call[c].pc # "idle"
  /\ call' = [call EXCEPT ![c] = Idle]
  /\ UNCHANGED <<issued, records, payloads, misplaced, edits>>

----------------------------------------------------------------------------
(* Alterations of the held data.  Whoever alters it has the digests that   *)
(* were issued, and computes none: the chain is no proof against somebody  *)
(* who recomputes it, and does not claim to be.                            *)

KnownHashes == {Null} \union {issued[j].current_hash : j \in 1..Len(issued)}

AlterationsOf(r) ==
  {[r EXCEPT !.chain_id = n] : n \in 0..MaxIssued}
    \union {[r EXCEPT !.scope = s] : s \in Scopes}
    \union {[r EXCEPT !.previous_hash = h] : h \in KnownHashes}
    \union {[r EXCEPT !.current_hash = h] : h \in KnownHashes}
    \union {[r EXCEPT !.payload_hash = t] : t \in Texts}
    \union {[r EXCEPT !.sequence_number = n] : n \in 0..MaxIssued}
    \union {[r EXCEPT !.immutable = FALSE]}
    \union {[r EXCEPT !.metadata = m] : m \in Metadata}

Edit ==
  /\ edits < MaxEdits
  /\ edits' = edits + 1
  /\ UNCHANGED <<issued, call, misplaced>>

EditRecord(i) ==
  /\ \E r \in AlterationsOf(records[i]) \ {records[i]} :
       records' = [records EXCEPT ![i] = r]
  /\ UNCHANGED payloads
  /\ Edit

EditPayload(i) ==
  /\ \E p \in Payloads \ {payloads[i]} : payloads' = [payloads EXCEPT ![i] = p]
  /\ UNCHANGED records
  /\ Edit

Without(s, i) == SubSeq(s, 1, i - 1) \o SubSeq(s, i + 1, Len(s))

Remove(i) ==
  /\ records' = Without(records, i)
  /\ payloads' = Without(payloads, i)
  /\ Edit

Exchange(i, j) ==
  /\ i < j
  /\ records' = [records EXCEPT ![i] = records[j], ![j] = records[i]]
  /\ payloads' = [payloads EXCEPT ![i] = payloads[j], ![j] = payloads[i]]
  /\ Edit

Next ==
  \/ \E c \in Callers :
       \/ \E from \in 0..Len(records), scope \in Scopes, p \in Payloads, m \in Metadata :
            Begin(c, from, scope, p, m)
       \/ Issue(c)
       \/ Store(c)
       \/ Lose(c)
  \/ \E i \in 1..Len(records) :
       \/ EditRecord(i)
       \/ EditPayload(i)
       \/ Remove(i)
       \/ \E j \in 1..Len(records) : Exchange(i, j)

Spec == Init /\ [][Next]_vars

----------------------------------------------------------------------------
(* Properties.                                                             *)

Verified == verifyImmutableChain(records, payloads)

SameFacts(r, s) ==
  /\ r.chain_id = s.chain_id
  /\ r.scope = s.scope
  /\ r.previous_hash = s.previous_hash
  /\ r.current_hash = s.current_hash
  /\ r.payload_hash = s.payload_hash
  /\ r.sequence_number = s.sequence_number

(* Whatever has been done to the held data, a chain that verifies holds    *)
(* issued facts only, each beside a payload of the text it was issued for, *)
(* each chained to the fact held before it, from a genesis on: no sequence *)
(* of appends and alterations yields a history that was never issued.      *)
TamperEvident ==
  Verified => \A i \in 1..Len(records) : \E j \in 1..Len(issued) :
    /\ SameFacts(records[i], issued[j])
    /\ Text[payloads[i]] = issued[j].payload_hash
    /\ issued[j].previous_hash = IF i = 1 THEN Null ELSE records[i - 1].current_hash

(* The verifier raises no false alarm and misses no lost update: as long   *)
(* as nothing is altered, the held chain verifies exactly when each record *)
(* was stored on top of the record it was built on.  Two overlapping       *)
(* appends to one chain leave a chain that no longer verifies.             *)
HonestLogVerifies == edits = 0 => (Verified <=> ~misplaced)
=============================================================================
