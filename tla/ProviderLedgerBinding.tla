----------------------- MODULE ProviderLedgerBinding -----------------------
(***************************************************************************)
(* P9U: bindAndVerifyProviderRuntimeLedger binds one durable provider-     *)
(* runtime fact to the immutable governance chain and verifies the chain.  *)
(*                                                                         *)
(* The caller passes the record to chain to and the payloads that precede  *)
(* it; the holder of the chain, external to P9U, keeps what was bound.  A  *)
(* binding awaits the append and then the verification, so several may be  *)
(* built on one predecessor, and the held chain may have changed when a    *)
(* binding ends.                                                           *)
(***************************************************************************)
EXTENDS ImmutableChain

CONSTANTS
  Binders,    \* concurrent executions of bindAndVerifyProviderRuntimeLedger
  Facts,      \* P9R ledger-write results, as P9U looks at them
  Tenants,
  NoTenant,   \* executionMetadata.tenantId is absent
  TenantOf,   \* the tenant of a scope
  Tenantless, \* the scopes with an empty tenant
  Companyless,\* the scopes with an empty company
  Source,     \* the metadata P9U writes into its records
  MaxBegun,   \* bound: bindings that reach the append
  MaxEdits    \* bound: alterations of the held chain

(* written and durable say whether the P9R result passes the two checks;   *)
(* tenant is the one its execution metadata names; payload is what the     *)
(* canonical chain payload takes from it.                                  *)
FactShape ==
  [written : BOOLEAN, durable : BOOLEAN, tenant : Tenants \union {NoTenant},
   payload : Payloads]

ASSUME FactsAssumption == Facts \subseteq FactShape
ASSUME TenantAssumption == TenantOf \in [Scopes -> Tenants \union {NoTenant}]
ASSUME ScopesAssumption == Tenantless \union Companyless \subseteq Scopes
ASSUME SourceAssumption == Source \in Metadata
ASSUME BoundsAssumption == MaxBegun \in Nat /\ MaxEdits \in Nat

VARIABLES
  records,   \* the chain held, and
  payloads,  \* the payloads of its records
  issued,    \* history: every record appendImmutableRecord has returned
  binding,   \* per binder: the binding in progress, or its result
  edits      \* history: alterations so far

vars == <<records, payloads, issued, binding, edits>>

Input ==
  [fact : Facts, scope : Scopes, previousRecord : SUBSET ImmutableChainRecord,
   previousPayloads : Seq(Payloads)]

(* The two verification failures share a reason; the summary differs.      *)
Failures ==
  {"immutable_chain_append_failed", "immutable_chain_payload_record_count_mismatch",
   "immutable_chain_verification_failed"}

Idle == [status |-> "IDLE"]

Binding ==
  {Idle}
    \union [status : {"APPENDING"}, input : Input]
    \union [status : {"VERIFYING"}, input : Input, record : ImmutableChainRecord]
    \union [status : {"DENIED"}]
    \union [status : {"NOT_BOUND"}, summary : Failures]
    \union [status : {"BOUND"}, input : Input, record : ImmutableChainRecord]

TypeOK ==
  /\ records \in Seq(ImmutableChainRecord)
  /\ payloads \in Seq(Payloads)
  /\ Len(records) = Len(payloads)
  /\ issued \in Seq(ImmutableChainRecord)
  /\ binding \in [Binders -> Binding]
  /\ edits \in 0..MaxEdits

Init ==
  /\ records = <<>>
  /\ payloads = <<>>
  /\ issued = <<>>
  /\ binding = [b \in Binders |-> Idle]
  /\ edits = 0

----------------------------------------------------------------------------
(* The gates before the first await; the first that closes names the       *)
(* denial.  The payload P9U makes of a written, durable fact always passes *)
(* its own coherence check.                                                *)

runtimeLedgerWasWritten(fact) == fact.written

durableLedgerIdentityExists(fact) == fact.durable

extractRuntimeTenantId(fact) == fact.tenant

createCanonicalChainPayload(fact) == fact.payload

Requests == [fact : Facts, scope : Scopes, allowed : BOOLEAN]

Denied ==
  {r \in Requests :
     \/ ~r.allowed
     \/ ~runtimeLedgerWasWritten(r.fact)
     \/ ~durableLedgerIdentityExists(r.fact)
     \/ r.scope \in Tenantless
     \/ r.scope \in Companyless
     \/ extractRuntimeTenantId(r.fact) \notin {NoTenant, TenantOf[r.scope]}}

Admitted == Requests \ Denied

(* What a caller can pass: nothing, or the last record it holds, with the  *)
(* payload of that record or all it holds.                                 *)
Previous ==
  {[record |-> {}, payloads |-> <<>>]}
    \union IF records = <<>> THEN {}
           ELSE {[record   |-> {records[Len(records)]},
                  payloads |-> p] : p \in {payloads, <<payloads[Len(payloads)]>>}}

InputOf(request, previous) ==
  [fact |-> request.fact, scope |-> request.scope,
   previousRecord |-> previous.record, previousPayloads |-> previous.payloads]

Deny(b) ==
  /\ binding[b] = Idle
  /\ Denied # {}
  /\ binding' = [binding EXCEPT ![b] = [status |-> "DENIED"]]
  /\ UNCHANGED <<records, payloads, issued, edits>>

(* The append's own check throws before its first await.                   *)
RefuseAppend(b, input) ==
  /\ binding[b] = Idle
  /\ ~assertAppendInputCoherent(input.previousRecord, input.scope)
  /\ binding' = [binding EXCEPT ![b] =
       [status |-> "NOT_BOUND", summary |-> "immutable_chain_append_failed"]]
  /\ UNCHANGED <<records, payloads, issued, edits>>

StartAppend(b, input) ==
  /\ binding[b] = Idle
  /\ assertAppendInputCoherent(input.previousRecord, input.scope)
  /\ Len(issued) < MaxBegun
  /\ binding' = [binding EXCEPT ![b] = [status |-> "APPENDING", input |-> input]]
  /\ UNCHANGED <<records, payloads, issued, edits>>

----------------------------------------------------------------------------
(* After the append.                                                       *)

Appended(input) ==
  appendImmutableRecord(input.previousRecord, input.scope, createCanonicalChainPayload(input.fact),
                        Source, Len(issued) + 1)

(* The complete chain material: one previous record at the most.           *)
previousRecords(input) ==
  IF input.previousRecord = {} THEN <<>>
  ELSE <<CHOOSE p \in input.previousRecord : TRUE>>

(* More or fewer payloads than records.  The record has been made.         *)
CountMismatch(b) ==
  /\ binding[b].status = "APPENDING"
  /\ LET input == binding[b].input
     IN  /\ Len(previousRecords(input)) # Len(input.previousPayloads)
         /\ binding' = [binding EXCEPT ![b] =
              [status |-> "NOT_BOUND",
               summary |-> "immutable_chain_payload_record_count_mismatch"]]
         /\ issued' = Append(issued, Appended(input))
  /\ UNCHANGED <<records, payloads, edits>>

StartVerify(b) ==
  /\ binding[b].status = "APPENDING"
  /\ LET input == binding[b].input
     IN  /\ Len(previousRecords(input)) = Len(input.previousPayloads)
         /\ binding' = [binding EXCEPT ![b] =
              [status |-> "VERIFYING", input |-> input, record |-> Appended(input)]]
         /\ issued' = Append(issued, Appended(input))
  /\ UNCHANGED <<records, payloads, edits>>

(* Mutant of ChainVerified: only the record just made is verified.         *)
NewRecordVerified(k) == RecordValid(k.record, createCanonicalChainPayload(k.input.fact))

ChainVerified(k) ==
  verifyImmutableChain(Append(previousRecords(k.input), k.record),
                       Append(k.input.previousPayloads, createCanonicalChainPayload(k.input.fact)))

Bind(b) ==
  /\ binding[b].status = "VERIFYING"
  /\ ChainVerified(binding[b])
  /\ binding' = [binding EXCEPT ![b] =
       [status |-> "BOUND", input |-> binding[b].input, record |-> binding[b].record]]
  /\ UNCHANGED <<records, payloads, issued, edits>>

FailVerify(b) ==
  /\ binding[b].status = "VERIFYING"
  /\ ~ChainVerified(binding[b])
  /\ binding' = [binding EXCEPT ![b] =
       [status |-> "NOT_BOUND", summary |-> "immutable_chain_verification_failed"]]
  /\ UNCHANGED <<records, payloads, issued, edits>>

----------------------------------------------------------------------------
(* The holder of the chain, external to P9U.                               *)

(* It takes the result: a bound record joins the chain it continues or, a  *)
(* genesis, an empty one; anything else is left.                           *)
Take(b) ==
  /\ binding[b].status \in {"BOUND", "NOT_BOUND", "DENIED"}
  /\ IF binding[b].status = "BOUND"
     THEN /\ records' = Append(records, binding[b].record)
          /\ payloads' = Append(payloads, createCanonicalChainPayload(binding[b].input.fact))
     ELSE UNCHANGED <<records, payloads>>
  /\ binding' = [binding EXCEPT ![b] = Idle]
  /\ UNCHANGED <<issued, edits>>

(* A held record or its payload is altered.                                *)
Alter(i) ==
  /\ edits < MaxEdits
  /\ \/ /\ \E r \in {[records[i] EXCEPT !.immutable = FALSE],
                     [records[i] EXCEPT !.sequence_number = 1],
                     [records[i] EXCEPT !.previous_hash = Null]} \ {records[i]} :
             records' = [records EXCEPT ![i] = r]
        /\ UNCHANGED payloads
     \/ /\ \E p \in Payloads \ {payloads[i]} : payloads' = [payloads EXCEPT ![i] = p]
        /\ UNCHANGED records
  /\ edits' = edits + 1
  /\ UNCHANGED <<issued, binding>>

Next ==
  \/ \E b \in Binders :
       \/ Deny(b)
       \/ \E request \in Admitted, previous \in Previous :
            \/ RefuseAppend(b, InputOf(request, previous))
            \/ StartAppend(b, InputOf(request, previous))
       \/ CountMismatch(b)
       \/ StartVerify(b)
       \/ Bind(b)
       \/ FailVerify(b)
       \/ Take(b)
  \/ \E i \in 1..Len(records) : Alter(i)

Spec == Init /\ [][Next]_vars

----------------------------------------------------------------------------
(* Properties.                                                             *)

(* A record as issued, whatever its metadata.                              *)
Genuine(r, payload) ==
  \E j \in 1..Len(issued) :
    /\ issued[j].chain_id = r.chain_id
    /\ issued[j].scope = r.scope
    /\ issued[j].previous_hash = r.previous_hash
    /\ issued[j].current_hash = r.current_hash
    /\ issued[j].sequence_number = r.sequence_number
    /\ issued[j].payload_hash = r.payload_hash
    /\ issued[j].payload_hash = Text[payload]

(* No fact is reported bound on top of anything but a record P9U issued    *)
(* earlier for the very payload presented with it: an altered predecessor, *)
(* or a predecessor beside another one's payload, ends NOT_BOUND, however  *)
(* late the alteration came and whatever else was bound meanwhile.         *)
BoundOnGenuine ==
  \A b \in Binders : binding[b].status = "BOUND" =>
    \A p \in binding[b].input.previousRecord :
      /\ Len(binding[b].input.previousPayloads) = 1
      /\ Genuine(p, binding[b].input.previousPayloads[1])
      /\ binding[b].record.previous_hash = p.current_hash

(* P9U receives an optional previous record and the payloads before it,    *)
(* binds the fact and verifies the resulting chain: as long as nothing is  *)
(* altered, a coherent append presented with the payload of each record is *)
(* bound.  The code does not keep this from the third fact on.             *)
ContinuationBinds ==
  \A b \in Binders :
    edits = 0 /\ binding[b].status = "NOT_BOUND" =>
      binding[b].summary # "immutable_chain_verification_failed"
=============================================================================
