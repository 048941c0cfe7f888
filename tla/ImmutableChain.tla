--------------------------- MODULE ImmutableChain ---------------------------
(***************************************************************************)
(* The immutable governance chain: what appendImmutableRecord returns and  *)
(* what verifyImmutableChain accepts.  Both are pure: the chain is kept by *)
(* their callers, as a list of records beside the list of their payloads.  *)
(*                                                                         *)
(* A scope stands for the four fields tenant, company, ledger domain and   *)
(* encryption domain, which every rule treats alike.  A payload is opaque: *)
(* Text says what stableStringify writes for it.  The writer drops every   *)
(* object it has met before, so two payloads may have the same text.       *)
(* SHA-256 is taken as collision free: a digest is what was digested.      *)
(***************************************************************************)
EXTENDS Integers, Sequences

CONSTANTS
  Payloads,
  Texts,     \* what stableStringify can write
  Text,      \* stableStringify of each payload
  Scopes,
  Metadata   \* values of the metadata field, which no digest covers

ASSUME TextAssumption == Text \in [Payloads -> Texts]

(* The digest of a record is the sequence of the links from the start of   *)
(* its chain to itself, and the previous_hash of a genesis, null, is <<>>. *)
Links == [chain_id : Nat, scope : Scopes, payload_hash : Texts, sequence_number : Nat]
Hashes == Seq(Links)
Null == <<>>

ImmutableChainRecord ==
  [ record_id       : Nat,
    chain_id        : Nat,   \* 0 is the empty string
    scope           : Scopes,
    previous_hash   : Hashes,
    current_hash    : Hashes,
    payload_hash    : Texts,
    sequence_number : Nat,
    immutable       : BOOLEAN,
    metadata        : Metadata ]

computeRecordHash(r) ==
  Append(r.previous_hash,
         [ chain_id        |-> r.chain_id,
           scope           |-> r.scope,
           payload_hash    |-> r.payload_hash,
           sequence_number |-> r.sequence_number ])

----------------------------------------------------------------------------
(* Append.  The predecessor is a set of at most one record.                *)

assertAppendInputCoherent(previous, scope) ==
  \A p \in previous :
    /\ p.immutable
    /\ p.scope = scope
    /\ p.chain_id # 0
    /\ p.current_hash # Null
    /\ p.sequence_number >= 1

(* The record before its digest is taken.  id is the fresh record_id, and  *)
(* names the chain when the record starts one.                             *)
Unsealed(previous, scope, payload, metadata, id) ==
  LET first == [ record_id |-> id, chain_id |-> id, scope |-> scope,
                 previous_hash |-> Null, current_hash |-> Null,
                 payload_hash |-> Text[payload], sequence_number |-> 1,
                 immutable |-> TRUE, metadata |-> metadata ]
  IN  IF previous = {} THEN first
      ELSE LET p == CHOOSE p \in previous : TRUE
           IN  [first EXCEPT !.chain_id        = p.chain_id,
                             !.previous_hash   = p.current_hash,
                             !.sequence_number = p.sequence_number + 1]

(* Mutant of appendImmutableRecord: the sequence number is not carried on. *)
AppendedAsFirst(previous, scope, payload, metadata, id) ==
  LET r == [Unsealed(previous, scope, payload, metadata, id) EXCEPT !.sequence_number = 1]
  IN  [r EXCEPT !.current_hash = computeRecordHash(r)]

appendImmutableRecord(previous, scope, payload, metadata, id) ==
  LET r == Unsealed(previous, scope, payload, metadata, id)
  IN  [r EXCEPT !.current_hash = computeRecordHash(r)]

----------------------------------------------------------------------------
(* Verify.                                                                 *)

GenesisValid(r) ==
  /\ r.previous_hash = Null
  /\ r.sequence_number = 1

(* Mutant of RecordValid: the record hash is not recomputed.               *)
PayloadValid(r, payload) ==
  /\ r.chain_id # 0
  /\ r.immutable
  /\ r.payload_hash = Text[payload]

RecordValid(r, payload) ==
  /\ r.chain_id # 0
  /\ r.immutable
  /\ r.payload_hash = Text[payload]
  /\ r.current_hash = computeRecordHash(r)

LinkValid(previous, current) ==
  /\ current.chain_id = previous.chain_id
  /\ current.scope = previous.scope
  /\ current.previous_hash = previous.current_hash
  /\ current.sequence_number = previous.sequence_number + 1

verifyImmutableChain(records, payloads) ==
  /\ Len(records) = Len(payloads)
  /\ records # <<>> => GenesisValid(records[1])
  /\ \A i \in 1..Len(records) : RecordValid(records[i], payloads[i])
  /\ \A i \in 2..Len(records) : LinkValid(records[i - 1], records[i])
=============================================================================
