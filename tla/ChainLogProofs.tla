--------------------------- MODULE ChainLogProofs ---------------------------
(***************************************************************************)
(* The immutable chain is tamper evident for every set of callers,         *)
(* payloads, texts and scopes, and every number of appends and alterations.*)
(* The invariant needed is small: every issued record carries its own      *)
(* digest, and every digest that is held was issued.  A record that        *)
(* verifies then has the digest of an issued one, and a digest determines  *)
(* what it was taken of.  That the verifier raises no false alarm needs a  *)
(* second invariant, of the logs nobody has altered.                       *)
(***************************************************************************)
EXTENDS ChainLog, SequenceTheorems, TLAPS

IssuedSealed ==
  \A j \in 1..Len(issued) : issued[j].current_hash = computeRecordHash(issued[j])

HeldKnown ==
  \A i \in 1..Len(records) : records[i].current_hash \in KnownHashes

CallsKnown ==
  \A c \in Callers : call[c].pc = "issued" => call[c].record.current_hash \in KnownHashes

IInv ==
  /\ TypeOK
  /\ IssuedSealed
  /\ HeldKnown
  /\ CallsKnown

----------------------------------------------------------------------------
(* Facts about the data.                                                   *)

(* The digest of a record is one more link on that of its predecessor.     *)
LEMMA DigestType ==
  ASSUME NEW r \in ImmutableChainRecord
  PROVE  computeRecordHash(r) \in Hashes
BY DEF computeRecordHash, ImmutableChainRecord, Hashes, Links

(* A digest is nobody's null, and determines every field it covers.        *)
LEMMA DigestBinds ==
  ASSUME NEW r \in ImmutableChainRecord, NEW s \in ImmutableChainRecord
  PROVE  /\ computeRecordHash(r) # Null
         /\ computeRecordHash(r) = computeRecordHash(s) =>
              /\ r.chain_id = s.chain_id
              /\ r.scope = s.scope
              /\ r.previous_hash = s.previous_hash
              /\ r.payload_hash = s.payload_hash
              /\ r.sequence_number = s.sequence_number
<1> DEFINE link(x) == [ chain_id        |-> x.chain_id,
                        scope           |-> x.scope,
                        payload_hash    |-> x.payload_hash,
                        sequence_number |-> x.sequence_number ]
<1>1. /\ r.previous_hash \in Seq(Links) /\ link(r) \in Links
      /\ s.previous_hash \in Seq(Links) /\ link(s) \in Links
  BY DEF ImmutableChainRecord, Links, Hashes
<1>2. ASSUME NEW h \in Seq(Links), NEW l \in Links
      PROVE  Append(h, l) # <<>>
  <2>1. Len(Append(h, l)) = Len(h) + 1 /\ Len(h) \in Nat /\ Len(<<>>) = 0
    OBVIOUS
  <2> QED
    BY <2>1
<1>3. ASSUME NEW h \in Seq(Links), NEW l \in Links, NEW g \in Seq(Links), NEW m \in Links,
             Append(h, l) = Append(g, m)
      PROVE  h = g /\ l = m
  <2>1. Len(h) = Len(g)
    BY <1>3
  <2>2. l = m
    BY <1>3, <2>1
  <2>3. \A i \in 1..Len(h) : h[i] = g[i]
    BY <1>3, <2>1
  <2> QED
    BY <2>1, <2>2, <2>3, SeqEqual
<1>4. /\ computeRecordHash(r) = Append(r.previous_hash, link(r))
      /\ computeRecordHash(s) = Append(s.previous_hash, link(s))
  BY DEF computeRecordHash
<1>5. link(r) = link(s) => /\ r.chain_id = s.chain_id
                           /\ r.scope = s.scope
                           /\ r.payload_hash = s.payload_hash
                           /\ r.sequence_number = s.sequence_number
  OBVIOUS
<1> HIDE DEF link
<1>6. computeRecordHash(r) # Null
  BY <1>1, <1>2, <1>4 DEF Null
<1>7. ASSUME computeRecordHash(r) = computeRecordHash(s)
      PROVE  r.previous_hash = s.previous_hash /\ link(r) = link(s)
  <2> DEFINE h == r.previous_hash
             g == s.previous_hash
             l == link(r)
             m == link(s)
  <2>1. Append(h, l) = Append(g, m)
    BY <1>4, <1>7
  <2>2. h \in Seq(Links) /\ g \in Seq(Links) /\ l \in Links /\ m \in Links
    BY <1>1
  <2> HIDE DEF h, g, l, m
  <2>3. h = g /\ l = m
    BY <1>3, <2>1, <2>2
  <2> QED
    BY <2>3 DEF h, g, l, m
<1> QED
  BY <1>5, <1>6, <1>7

(* What appendImmutableRecord returns is a record that carries its digest. *)
LEMMA AppendSeals ==
  ASSUME NEW previous \in SUBSET ImmutableChainRecord, NEW scope \in Scopes,
         NEW payload \in Payloads, NEW m \in Metadata, NEW id \in Nat
  PROVE  LET r == appendImmutableRecord(previous, scope, payload, m, id)
         IN  r \in ImmutableChainRecord /\ r.current_hash = computeRecordHash(r)
<1> DEFINE u == Unsealed(previous, scope, payload, m, id)
           r == [u EXCEPT !.current_hash = computeRecordHash(u)]
<1>1. Null \in Hashes
  BY EmptySeq DEF Null, Hashes
<1>2. Text[payload] \in Texts
  BY TextAssumption
<1>3. u \in ImmutableChainRecord
  <2>1. CASE previous = {}
    BY <1>1, <1>2, <2>1 DEF Unsealed, ImmutableChainRecord
  <2>2. CASE previous # {}
    <3> DEFINE p == CHOOSE p \in previous : TRUE
               first == [ record_id |-> id, chain_id |-> id, scope |-> scope,
                          previous_hash |-> Null, current_hash |-> Null,
                          payload_hash |-> Text[payload], sequence_number |-> 1,
                          immutable |-> TRUE, metadata |-> m ]
    <3>1. p \in ImmutableChainRecord
      BY <2>2
    <3>2. /\ p.chain_id \in Nat
          /\ p.current_hash \in Hashes
          /\ p.sequence_number + 1 \in Nat
      BY <3>1 DEF ImmutableChainRecord
    <3>3. first \in ImmutableChainRecord
      BY <1>1, <1>2 DEF ImmutableChainRecord
    <3>4. u = [first EXCEPT !.chain_id        = p.chain_id,
                            !.previous_hash   = p.current_hash,
                            !.sequence_number = p.sequence_number + 1]
      BY <2>2 DEF Unsealed
    <3> HIDE DEF p, first
    <3> QED
      BY <3>2, <3>3, <3>4 DEF ImmutableChainRecord
  <2> QED
    BY <2>1, <2>2
<1> HIDE DEF u
<1>4. computeRecordHash(u) \in Hashes
  BY <1>3, DigestType
<1>5. r \in ImmutableChainRecord
  BY <1>3, <1>4 DEF ImmutableChainRecord
<1>6. r.current_hash = computeRecordHash(u)
  BY <1>3 DEF ImmutableChainRecord
<1>7. computeRecordHash(r) = computeRecordHash(u)
  BY <1>3 DEF ImmutableChainRecord, computeRecordHash
<1> QED
  BY <1>5, <1>6, <1>7 DEF appendImmutableRecord, u

(* What is still known stays known: the list of issued records only grows. *)
LEMMA IssuedGrows ==
  ASSUME issued \in Seq(ImmutableChainRecord), NEW r \in ImmutableChainRecord,
         issued' = Append(issued, r)
  PROVE  /\ issued' \in Seq(ImmutableChainRecord)
         /\ Len(issued') = Len(issued) + 1
         /\ \A j \in 1..Len(issued) : issued'[j] = issued[j]
         /\ issued'[Len(issued) + 1] = r
         /\ KnownHashes \subseteq KnownHashes'
         /\ r.current_hash \in KnownHashes'
<1>1. /\ issued' \in Seq(ImmutableChainRecord)
      /\ Len(issued) \in Nat
      /\ Len(issued') = Len(issued) + 1
      /\ \A j \in 1..Len(issued) : issued'[j] = issued[j]
      /\ issued'[Len(issued) + 1] = r
  OBVIOUS
<1>2. \A j \in 1..Len(issued) : j \in 1..Len(issued')
  BY <1>1
<1>3. Len(issued) + 1 \in 1..Len(issued')
  BY <1>1
<1> QED
  BY <1>1, <1>2, <1>3 DEF KnownHashes

(* What an alteration can write into a digest field is a digest.           *)
LEMMA KnownAreHashes ==
  ASSUME issued \in Seq(ImmutableChainRecord)
  PROVE  KnownHashes \subseteq Hashes
<1>1. Null \in Hashes
  BY EmptySeq DEF Null, Hashes
<1>2. \A j \in 1..Len(issued) : issued[j] \in ImmutableChainRecord
  OBVIOUS
<1> QED
  BY <1>1, <1>2 DEF KnownHashes, ImmutableChainRecord

(* An altered record is still shaped like one, and has a known digest.     *)
LEMMA AlterationsKnown ==
  ASSUME issued \in Seq(ImmutableChainRecord),
         NEW r \in ImmutableChainRecord, r.current_hash \in KnownHashes,
         NEW s \in AlterationsOf(r)
  PROVE  s \in ImmutableChainRecord /\ s.current_hash \in KnownHashes
<1>1. \A h \in KnownHashes : h \in Hashes
  BY KnownAreHashes
<1>2. \A n \in 0..MaxIssued : n \in Nat
  OBVIOUS
<1>3. CASE \E n \in 0..MaxIssued : s = [r EXCEPT !.chain_id = n]
                                 \/ s = [r EXCEPT !.sequence_number = n]
  BY <1>2, <1>3 DEF ImmutableChainRecord
<1>4. CASE \E h \in KnownHashes : s = [r EXCEPT !.previous_hash = h]
                               \/ s = [r EXCEPT !.current_hash = h]
  BY <1>1, <1>4 DEF ImmutableChainRecord
<1>5. CASE \/ \E x \in Scopes : s = [r EXCEPT !.scope = x]
           \/ \E x \in Texts : s = [r EXCEPT !.payload_hash = x]
           \/ \E x \in Metadata : s = [r EXCEPT !.metadata = x]
           \/ s = [r EXCEPT !.immutable = FALSE]
  BY <1>5 DEF ImmutableChainRecord
<1> QED
  BY <1>3, <1>4, <1>5 DEF AlterationsOf

(* Leaving one element out of a sequence.                                  *)
LEMMA WithoutType ==
  ASSUME NEW S, NEW s \in Seq(S), NEW i \in 1..Len(s)
  PROVE  /\ Without(s, i) \in Seq(S)
         /\ Len(Without(s, i)) = Len(s) - 1
         /\ \A k \in 1..Len(Without(s, i)) : \E n \in 1..Len(s) : Without(s, i)[k] = s[n]
<1> DEFINE a == SubSeq(s, 1, i - 1)
           b == SubSeq(s, i + 1, Len(s))
<1>1. /\ Len(s) \in Nat
      /\ \A n \in 1..Len(s) : s[n] \in S
  OBVIOUS
<1>2. /\ a \in Seq(S)
      /\ Len(a) = i - 1
      /\ \A k \in 1..(i - 1) : a[k] = s[k]
  BY <1>1, SubSeqProperties
<1>3. /\ b \in Seq(S)
      /\ Len(b) = Len(s) - i
      /\ \A k \in 1..(Len(s) - i) : b[k] = s[i + k]
  BY <1>1, SubSeqProperties
<1> HIDE DEF a, b
<1>4. /\ a \o b \in Seq(S)
      /\ Len(a \o b) = Len(s) - 1
      /\ \A k \in 1..(Len(s) - 1) : (a \o b)[k] = IF k <= i - 1 THEN a[k] ELSE b[k - (i - 1)]
  <2>1. /\ a \o b \in Seq(S)
        /\ Len(a \o b) = Len(a) + Len(b)
        /\ \A k \in 1..(Len(a) + Len(b)) :
             (a \o b)[k] = IF k <= Len(a) THEN a[k] ELSE b[k - Len(a)]
    BY <1>2, <1>3, ConcatProperties
  <2>2. Len(a) = i - 1 /\ Len(a) + Len(b) = Len(s) - 1
    BY <1>1, <1>2, <1>3
  <2> QED
    BY <2>1, <2>2
<1>5. ASSUME NEW k \in 1..(Len(s) - 1)
      PROVE  \E n \in 1..Len(s) : (a \o b)[k] = s[n]
  <2>1. CASE k <= i - 1
    BY <1>1, <1>2, <1>4, <2>1
  <2>2. CASE ~(k <= i - 1)
    <3>1. k - (i - 1) \in 1..(Len(s) - i)
      BY <1>1, <2>2
    <3>2. (a \o b)[k] = s[i + (k - (i - 1))]
      BY <1>3, <1>4, <2>2, <3>1
    <3>3. i + (k - (i - 1)) \in 1..Len(s)
      BY <1>1, <2>2
    <3> QED
      BY <3>2, <3>3
  <2> QED
    BY <2>1, <2>2
<1> QED
  BY <1>4, <1>5 DEF Without, a, b

----------------------------------------------------------------------------
(* The invariant is inductive.                                             *)

(* The empty log, with nobody appending, satisfies the invariant.          *)
LEMMA InitIInv == Init => IInv
<1> SUFFICES ASSUME Init PROVE IInv
  OBVIOUS
<1> USE DEF Init
<1>1. \A c \in Callers : call[c].pc = "idle" /\ call[c] \in Call
  BY DEF Idle, Call
<1>2. /\ <<>> \in Seq(ImmutableChainRecord)
      /\ <<>> \in Seq(Payloads)
      /\ Len(<<>>) = 0
      /\ 0 \in 0..MaxEdits
  BY EmptySeq, BoundsAssumption
<1>3. TypeOK
  BY <1>1, <1>2 DEF TypeOK
<1>4. \A i \in 1..0 : FALSE
  OBVIOUS
<1>5. IssuedSealed /\ HeldKnown
  BY <1>2, <1>4 DEF IssuedSealed, HeldKnown
<1>6. CallsKnown
  BY <1>1 DEF CallsKnown
<1> QED
  BY <1>3, <1>5, <1>6 DEF IInv

(* The program counter of a call determines which fields it has.           *)
LEMMA CallFields ==
  ASSUME NEW k \in Call
  PROVE  /\ k.pc = "digesting" =>
              /\ k.previous \in SUBSET ImmutableChainRecord
              /\ k.scope \in Scopes
              /\ k.payload \in Payloads
              /\ k.metadata \in Metadata
              /\ k.from \in Nat
         /\ k.pc = "issued" =>
              /\ k.record \in ImmutableChainRecord
              /\ k.payload \in Payloads
              /\ k.from \in Nat
BY DEF Call, Idle

(* A step of a caller that issues and stores nothing.                      *)
LEMMA CallMoves ==
  ASSUME IInv, NEW c \in Callers, NEW k \in Call, k.pc # "issued",
         call' = [call EXCEPT ![c] = k],
         UNCHANGED <<issued, records, payloads, misplaced, edits>>
  PROVE  IInv'
<1>1. TypeOK'
  BY DEF IInv, TypeOK
<1>2. IssuedSealed' /\ HeldKnown'
  BY DEF IInv, IssuedSealed, HeldKnown, KnownHashes
<1>3. CallsKnown'
  BY DEF IInv, TypeOK, CallsKnown, KnownHashes
<1> QED
  BY <1>1, <1>2, <1>3 DEF IInv

(* Returning a record adds one that carries its own digest.                *)
LEMMA IssueKeepsIInv ==
  ASSUME IInv, NEW c \in Callers, Issue(c)
  PROVE  IInv'
<1> DEFINE k == call[c]
           r == appendImmutableRecord(k.previous, k.scope, k.payload, k.metadata,
                                      Len(issued) + 1)
<1> USE DEF IInv
<1>1. /\ k \in Call /\ k.pc = "digesting"
      /\ issued \in Seq(ImmutableChainRecord)
      /\ Len(issued) \in Nat
  BY DEF Issue, TypeOK
<1>2. r \in ImmutableChainRecord /\ r.current_hash = computeRecordHash(r)
  BY <1>1, CallFields, AppendSeals
<1>3. /\ issued' = Append(issued, r)
      /\ call' = [call EXCEPT ![c] =
           [pc |-> "issued", record |-> r, payload |-> k.payload, from |-> k.from]]
      /\ UNCHANGED <<records, payloads, misplaced, edits>>
  BY DEF Issue
<1> HIDE DEF r
<1>4. /\ issued' \in Seq(ImmutableChainRecord)
      /\ Len(issued') = Len(issued) + 1
      /\ \A j \in 1..Len(issued) : issued'[j] = issued[j]
      /\ issued'[Len(issued) + 1] = r
      /\ KnownHashes \subseteq KnownHashes'
      /\ r.current_hash \in KnownHashes'
  BY <1>1, <1>2, <1>3, IssuedGrows
<1>5. [pc |-> "issued", record |-> r, payload |-> k.payload, from |-> k.from] \in Call
  BY <1>1, <1>2, CallFields DEF Call
<1>6. TypeOK'
  BY <1>3, <1>4, <1>5 DEF TypeOK
<1>7. IssuedSealed'
  BY <1>1, <1>2, <1>4 DEF IssuedSealed
<1>8. HeldKnown'
  BY <1>3, <1>4 DEF HeldKnown
<1>9. CallsKnown'
  BY <1>3, <1>4 DEF CallsKnown, TypeOK
<1> QED
  BY <1>6, <1>7, <1>8, <1>9

(* Storing a returned record keeps the lists equally long and their        *)
(* digests known.                                                          *)
LEMMA StoreKeepsIInv ==
  ASSUME IInv, NEW c \in Callers, Store(c)
  PROVE  IInv'
<1> USE DEF IInv
<1>1. /\ call[c] \in Call /\ call[c].pc = "issued"
      /\ call[c].record \in ImmutableChainRecord
      /\ call[c].payload \in Payloads
      /\ call[c].from \in Nat
      /\ call[c].record.current_hash \in KnownHashes
  BY CallFields DEF Store, TypeOK, CallsKnown
<1>2. Idle \in Call /\ Idle.pc = "idle"
  BY DEF Call, Idle
<1>3. /\ records' \in Seq(ImmutableChainRecord)
      /\ payloads' \in Seq(Payloads)
      /\ Len(records') = Len(payloads')
      /\ Len(records') = Len(records) + 1
      /\ Len(records) \in Nat
      /\ \A i \in 1..Len(records) : records'[i] = records[i]
      /\ records'[Len(records) + 1] = call[c].record
  BY <1>1 DEF Store, TypeOK
<1>4. misplaced' \in BOOLEAN
  BY DEF Store, TypeOK
<1>5. TypeOK'
  BY <1>2, <1>3, <1>4 DEF Store, TypeOK
<1>6. IssuedSealed'
  BY DEF Store, IssuedSealed
<1>7. KnownHashes' = KnownHashes
  BY DEF Store, KnownHashes
<1>8. HeldKnown'
  BY <1>1, <1>3, <1>7 DEF HeldKnown
<1>9. CallsKnown'
  BY <1>2, <1>7 DEF Store, CallsKnown, TypeOK
<1> QED
  BY <1>5, <1>6, <1>8, <1>9

(* An alteration keeps the lists equally long and the digests known.       *)
LEMMA EditKeepsIInv ==
  ASSUME IInv, Edit,
         records' \in Seq(ImmutableChainRecord),
         payloads' \in Seq(Payloads),
         Len(records') = Len(payloads'),
         \A i \in 1..Len(records') : records'[i].current_hash \in KnownHashes
  PROVE  IInv'
<1> USE DEF IInv
<1>1. edits' \in 0..MaxEdits
  BY BoundsAssumption DEF Edit, TypeOK
<1>2. TypeOK'
  BY <1>1 DEF Edit, TypeOK
<1>3. KnownHashes' = KnownHashes
  BY DEF Edit, KnownHashes
<1>4. IssuedSealed' /\ CallsKnown'
  BY <1>3 DEF Edit, IssuedSealed, CallsKnown
<1>5. HeldKnown'
  BY <1>3 DEF HeldKnown
<1> QED
  BY <1>2, <1>4, <1>5

(* No append, loss or alteration breaks the invariant.                     *)
LEMMA NextIInv == IInv /\ [Next]_vars => IInv'
<1> SUFFICES ASSUME IInv, [Next]_vars PROVE IInv'
  OBVIOUS
<1> USE DEF IInv
<1>1. CASE UNCHANGED vars
  BY <1>1 DEF vars, TypeOK, IssuedSealed, HeldKnown, CallsKnown, KnownHashes
<1>2. /\ records \in Seq(ImmutableChainRecord) /\ payloads \in Seq(Payloads)
      /\ issued \in Seq(ImmutableChainRecord)
      /\ Len(records) = Len(payloads) /\ Len(records) \in Nat
      /\ \A i \in 1..Len(records) : /\ records[i] \in ImmutableChainRecord
                                    /\ records[i].current_hash \in KnownHashes
                                    /\ payloads[i] \in Payloads
  BY DEF TypeOK, HeldKnown
<1>3. ASSUME NEW c \in Callers, NEW from \in 0..Len(records), NEW scope \in Scopes,
             NEW p \in Payloads, NEW m \in Metadata, Begin(c, from, scope, p, m)
      PROVE  IInv'
  <2> DEFINE previous == IF from = 0 THEN {} ELSE {records[from]}
             k == [pc |-> "digesting", previous |-> previous, scope |-> scope,
                   payload |-> p, metadata |-> m, from |-> from]
  <2>1. previous \in SUBSET ImmutableChainRecord /\ from \in Nat
    BY <1>2
  <2>2. call' = [call EXCEPT ![c] = k]
        /\ UNCHANGED <<issued, records, payloads, misplaced, edits>>
    BY <1>3 DEF Begin
  <2> HIDE DEF previous
  <2>3. k \in Call /\ k.pc # "issued"
    BY <2>1 DEF Call
  <2> HIDE DEF k
  <2> QED
    BY <2>2, <2>3, CallMoves
<1>4. ASSUME NEW c \in Callers, Issue(c) PROVE IInv'
  BY <1>4, IssueKeepsIInv
<1>5. ASSUME NEW c \in Callers, Store(c) PROVE IInv'
  BY <1>5, StoreKeepsIInv
<1>6. ASSUME NEW c \in Callers, Lose(c) PROVE IInv'
  <2>1. Idle \in Call /\ Idle.pc # "issued"
    BY DEF Call, Idle
  <2> QED
    BY <1>6, <2>1, CallMoves DEF Lose
<1>7. ASSUME NEW i \in 1..Len(records), EditRecord(i) PROVE IInv'
  <2>1. PICK r \in AlterationsOf(records[i]) : records' = [records EXCEPT ![i] = r]
    BY <1>7 DEF EditRecord
  <2>2. r \in ImmutableChainRecord /\ r.current_hash \in KnownHashes
    BY <1>2, <2>1, AlterationsKnown
  <2>3. /\ records' \in Seq(ImmutableChainRecord)
        /\ Len(records') = Len(records)
        /\ \A j \in 1..Len(records) : records'[j] = IF j = i THEN r ELSE records[j]
    BY <1>2, <2>1, <2>2, ExceptSeq
  <2> QED
    BY <1>2, <1>7, <2>2, <2>3, EditKeepsIInv DEF EditRecord
<1>8. ASSUME NEW i \in 1..Len(records), EditPayload(i) PROVE IInv'
  <2>1. PICK p \in Payloads : payloads' = [payloads EXCEPT ![i] = p]
    BY <1>8 DEF EditPayload
  <2>2. payloads' \in Seq(Payloads) /\ Len(payloads') = Len(payloads)
    BY <1>2, <2>1, ExceptSeq
  <2> QED
    BY <1>2, <1>8, <2>2, EditKeepsIInv DEF EditPayload
<1>9. ASSUME NEW i \in 1..Len(records), Remove(i) PROVE IInv'
  <2>1. records' = Without(records, i) /\ payloads' = Without(payloads, i)
    BY <1>9 DEF Remove
  <2>2. /\ records \in Seq(ImmutableChainRecord) /\ i \in 1..Len(records)
        /\ payloads \in Seq(Payloads) /\ i \in 1..Len(payloads)
    BY <1>2
  <2>3. /\ Without(records, i) \in Seq(ImmutableChainRecord)
        /\ Len(Without(records, i)) = Len(records) - 1
        /\ \A k \in 1..Len(Without(records, i)) :
             \E n \in 1..Len(records) : Without(records, i)[k] = records[n]
    BY <2>2, WithoutType
  <2>4. /\ Without(payloads, i) \in Seq(Payloads)
        /\ Len(Without(payloads, i)) = Len(payloads) - 1
    BY <2>2, WithoutType
  <2>5. Len(records') = Len(payloads')
    BY <1>2, <2>1, <2>3, <2>4
  <2>6. \A k \in 1..Len(records') : records'[k].current_hash \in KnownHashes
    <3> SUFFICES ASSUME NEW k \in 1..Len(Without(records, i))
                 PROVE  Without(records, i)[k].current_hash \in KnownHashes
      BY <2>1
    <3>1. PICK n \in 1..Len(records) : Without(records, i)[k] = records[n]
      BY <2>3
    <3> QED
      BY <1>2, <3>1
  <2> QED
    BY <1>9, <2>1, <2>3, <2>4, <2>5, <2>6, EditKeepsIInv DEF Remove
<1>10. ASSUME NEW i \in 1..Len(records), NEW j \in 1..Len(records), Exchange(i, j)
       PROVE  IInv'
  <2>1. /\ records' \in Seq(ImmutableChainRecord)
        /\ Len(records') = Len(records)
        /\ \A k \in 1..Len(records) : \E n \in 1..Len(records) : records'[k] = records[n]
    BY <1>2, <1>10 DEF Exchange
  <2>2. /\ payloads' \in Seq(Payloads)
        /\ Len(payloads') = Len(payloads)
    BY <1>2, <1>10 DEF Exchange
  <2> QED
    BY <1>2, <1>10, <2>1, <2>2, EditKeepsIInv DEF Exchange
<1> QED
  BY <1>1, <1>3, <1>4, <1>5, <1>6, <1>7, <1>8, <1>9, <1>10 DEF Next

(* In every reachable state each issued record carries its own digest,     *)
(* and every digest held or in flight is that of an issued record.         *)
THEOREM Invariance == Spec => []IInv
<1> QED
  BY InitIInv, NextIInv, PTL DEF Spec

----------------------------------------------------------------------------
(* The properties of the runs.                                             *)

(* The lists and the calls keep their shape.                               *)
THEOREM TypeCorrect == Spec => []TypeOK
<1> QED
  BY Invariance, PTL DEF IInv

(* A held record that verifies is an issued one, metadata aside.           *)
LEMMA ValidIsIssued ==
  ASSUME IInv, NEW i \in 1..Len(records), RecordValid(records[i], payloads[i])
  PROVE  \E j \in 1..Len(issued) :
           /\ SameFacts(records[i], issued[j])
           /\ Text[payloads[i]] = issued[j].payload_hash
<1> DEFINE r == records[i]
<1>1. r \in ImmutableChainRecord /\ r.current_hash \in KnownHashes
  BY DEF IInv, TypeOK, HeldKnown
<1>2. r.current_hash = computeRecordHash(r) /\ r.payload_hash = Text[payloads[i]]
  BY DEF RecordValid
<1>3. r.current_hash # Null
  BY <1>1, <1>2, DigestBinds
<1>4. PICK j \in 1..Len(issued) : r.current_hash = issued[j].current_hash
  BY <1>1, <1>3 DEF KnownHashes
<1>5. issued[j] \in ImmutableChainRecord /\ issued[j].current_hash = computeRecordHash(issued[j])
  BY DEF IInv, TypeOK, IssuedSealed
<1>6. computeRecordHash(r) = computeRecordHash(issued[j])
  BY <1>2, <1>4, <1>5
<1>7. SameFacts(r, issued[j])
  BY <1>1, <1>4, <1>5, <1>6, DigestBinds DEF SameFacts
<1> QED
  BY <1>2, <1>7 DEF SameFacts

(* A held chain that verifies is a chain of issued facts, whatever was     *)
(* done to it.                                                             *)
THEOREM TamperingShows == Spec => []TamperEvident
<1>1. ASSUME IInv, Verified, NEW i \in 1..Len(records)
      PROVE  \E j \in 1..Len(issued) :
               /\ SameFacts(records[i], issued[j])
               /\ Text[payloads[i]] = issued[j].payload_hash
               /\ issued[j].previous_hash = IF i = 1 THEN Null ELSE records[i - 1].current_hash
  <2>1. RecordValid(records[i], payloads[i])
    BY <1>1 DEF Verified, verifyImmutableChain
  <2>2. PICK j \in 1..Len(issued) :
          /\ SameFacts(records[i], issued[j])
          /\ Text[payloads[i]] = issued[j].payload_hash
    BY <1>1, <2>1, ValidIsIssued
  <2>3. Len(records) \in Nat /\ records # <<>>
    BY <1>1 DEF IInv, TypeOK
  <2>4. CASE i = 1
    BY <1>1, <2>2, <2>3, <2>4 DEF Verified, verifyImmutableChain, GenesisValid, SameFacts
  <2>5. CASE i # 1
    <3>1. i \in 2..Len(records)
      BY <2>3, <2>5
    <3>2. records[i].previous_hash = records[i - 1].current_hash
      BY <1>1, <3>1 DEF Verified, verifyImmutableChain, LinkValid
    <3> QED
      BY <2>2, <2>5, <3>2 DEF SameFacts
  <2> QED
    BY <2>4, <2>5
<1>2. IInv => TamperEvident
  BY <1>1 DEF TamperEvident
<1> QED
  BY <1>2, Invariance, PTL

----------------------------------------------------------------------------
(* As long as nothing is altered.  What a caller has in hand was built on  *)
(* the record at the place it was told of, and in a log on which nothing   *)
(* was misplaced a record's number is its place: a record stored elsewhere *)
(* than on top of its predecessor has a number that does not follow.       *)

At(from) == IF from = 0 THEN {} ELSE {records[from]}

BuiltOn(r, payload, from) ==
  /\ RecordValid(r, payload)
  /\ IF from = 0 THEN GenesisValid(r) ELSE LinkValid(records[from], r)

CallsBuilt ==
  \A c \in Callers :
    /\ call[c].pc = "digesting" =>
         /\ call[c].from \in 0..Len(records)
         /\ call[c].previous = At(call[c].from)
         /\ assertAppendInputCoherent(call[c].previous, call[c].scope)
    /\ call[c].pc = "issued" =>
         /\ call[c].from \in 0..Len(records)
         /\ BuiltOn(call[c].record, call[c].payload, call[c].from)

NumbersArePlaces == \A i \in 1..Len(records) : records[i].sequence_number = i

Honest == edits = 0 =>
  /\ CallsBuilt
  /\ ~misplaced => NumbersArePlaces
  /\ Verified <=> ~misplaced

(* What appendImmutableRecord returns for a coherent predecessor verifies  *)
(* by itself and as a successor of it.                                     *)
LEMMA AppendBuilds ==
  ASSUME NEW from \in 0..Len(records), records \in Seq(ImmutableChainRecord),
         NEW scope \in Scopes, NEW payload \in Payloads, NEW m \in Metadata,
         NEW id \in Nat \ {0},
         assertAppendInputCoherent(At(from), scope)
  PROVE  BuiltOn(appendImmutableRecord(At(from), scope, payload, m, id), payload, from)
<1> DEFINE u == Unsealed(At(from), scope, payload, m, id)
           r == appendImmutableRecord(At(from), scope, payload, m, id)
<1>1. CASE from = 0
  <2>1. u = [ record_id |-> id, chain_id |-> id, scope |-> scope,
              previous_hash |-> Null, current_hash |-> Null,
              payload_hash |-> Text[payload], sequence_number |-> 1,
              immutable |-> TRUE, metadata |-> m ]
    BY <1>1 DEF Unsealed, At
  <2>2. r = [u EXCEPT !.current_hash = computeRecordHash(u)]
    BY DEF appendImmutableRecord
  <2>3. RecordValid(r, payload)
    BY <2>1, <2>2 DEF RecordValid, computeRecordHash
  <2>4. GenesisValid(r)
    BY <2>1, <2>2 DEF GenesisValid
  <2> QED
    BY <1>1, <2>3, <2>4 DEF BuiltOn
<1>2. CASE from # 0
  <2> DEFINE p == records[from]
  <2>1. p \in ImmutableChainRecord /\ At(from) = {p}
    BY <1>2 DEF At
  <2>2. p.scope = scope /\ p.chain_id # 0
    BY <2>1 DEF assertAppendInputCoherent
  <2>3. (CHOOSE q \in {p} : TRUE) = p
    OBVIOUS
  <2> HIDE DEF p
  <2>4. {p} # {}
    OBVIOUS
  <2>5. u = [ record_id |-> id, chain_id |-> p.chain_id, scope |-> scope,
              previous_hash |-> p.current_hash, current_hash |-> Null,
              payload_hash |-> Text[payload], sequence_number |-> p.sequence_number + 1,
              immutable |-> TRUE, metadata |-> m ]
    BY <2>1, <2>3, <2>4 DEF Unsealed
  <2>6. r = [u EXCEPT !.current_hash = computeRecordHash(u)]
    BY DEF appendImmutableRecord
  <2>7. RecordValid(r, payload)
    BY <2>2, <2>5, <2>6 DEF RecordValid, computeRecordHash
  <2>8. LinkValid(p, r)
    BY <2>2, <2>5, <2>6 DEF LinkValid
  <2> QED
    BY <1>2, <2>7, <2>8 DEF BuiltOn, p
<1> QED
  BY <1>1, <1>2

(* A chain with one more record verifies if the chain did, and the record  *)
(* does, and follows its last one.                                         *)
LEMMA VerifiedAppend ==
  ASSUME NEW s \in Seq(ImmutableChainRecord), NEW q \in Seq(Payloads), Len(s) = Len(q),
         NEW r \in ImmutableChainRecord, NEW p \in Payloads
  PROVE  verifyImmutableChain(Append(s, r), Append(q, p)) <=>
           /\ verifyImmutableChain(s, q)
           /\ RecordValid(r, p)
           /\ IF s = <<>> THEN GenesisValid(r) ELSE LinkValid(s[Len(s)], r)
<1> DEFINE t == Append(s, r)
           v == Append(q, p)
           n == Len(s)
<1>1. /\ n \in Nat /\ Len(t) = n + 1 /\ Len(v) = n + 1 /\ Len(q) = n
      /\ t[n + 1] = r /\ v[n + 1] = p
      /\ \A i \in 1..n : t[i] = s[i] /\ v[i] = q[i]
  OBVIOUS
<1>2. /\ t # <<>>
      /\ s = <<>> <=> n = 0
  BY <1>1
<1> HIDE DEF t, v
<1>3. GenesisValid(t[1]) <=> IF n = 0 THEN GenesisValid(r) ELSE GenesisValid(s[1])
  BY <1>1
<1>4. (\A i \in 1..(n + 1) : RecordValid(t[i], v[i])) <=>
        RecordValid(r, p) /\ \A i \in 1..n : RecordValid(s[i], q[i])
  <2>1. \A i \in 1..(n + 1) : i = n + 1 \/ i \in 1..n
    BY <1>1
  <2>2. n + 1 \in 1..(n + 1) /\ \A i \in 1..n : i \in 1..(n + 1)
    BY <1>1
  <2> QED
    BY <1>1, <2>1, <2>2
<1>5. (\A i \in 2..(n + 1) : LinkValid(t[i - 1], t[i])) <=>
        /\ \A i \in 2..n : LinkValid(s[i - 1], s[i])
        /\ n # 0 => LinkValid(s[n], r)
  <2>1. \A i \in 2..(n + 1) : (i = n + 1 /\ n # 0) \/ i \in 2..n
    BY <1>1
  <2>2. \A i \in 2..n : i \in 2..(n + 1) /\ t[i - 1] = s[i - 1] /\ t[i] = s[i]
    BY <1>1
  <2>3. n # 0 => /\ n + 1 \in 2..(n + 1)
                 /\ t[(n + 1) - 1] = s[n] /\ t[n + 1] = r
    BY <1>1
  <2> QED
    BY <2>1, <2>2, <2>3
<1>6. verifyImmutableChain(t, v) <=>
        /\ GenesisValid(t[1])
        /\ \A i \in 1..(n + 1) : RecordValid(t[i], v[i])
        /\ \A i \in 2..(n + 1) : LinkValid(t[i - 1], t[i])
  BY <1>1, <1>2 DEF verifyImmutableChain
<1>7. verifyImmutableChain(s, q) <=>
        /\ n # 0 => GenesisValid(s[1])
        /\ \A i \in 1..n : RecordValid(s[i], q[i])
        /\ \A i \in 2..n : LinkValid(s[i - 1], s[i])
  BY <1>1, <1>2 DEF verifyImmutableChain
<1> HIDE DEF n
<1> QED
  BY <1>2, <1>3, <1>4, <1>5, <1>6, <1>7 DEF t, v, n

(* The empty log verifies.                                                 *)
LEMMA InitHonest == Init => Honest
<1> SUFFICES ASSUME Init PROVE Honest
  OBVIOUS
<1>1. records = <<>> /\ payloads = <<>> /\ Len(<<>>) = 0 /\ ~misplaced
  BY DEF Init
<1>2. \A i \in 1..0 : FALSE
  OBVIOUS
<1>3. \A i \in 2..0 : FALSE
  OBVIOUS
<1>4. \A c \in Callers : call[c].pc = "idle"
  BY DEF Init, Idle
<1>5. CallsBuilt
  BY <1>4 DEF CallsBuilt
<1>6. NumbersArePlaces
  BY <1>1, <1>2 DEF NumbersArePlaces
<1>7. Verified
  BY <1>1, <1>2, <1>3 DEF Verified, verifyImmutableChain
<1> QED
  BY <1>1, <1>5, <1>6, <1>7 DEF Honest

(* A record stored on top of its predecessor continues a verified chain;   *)
(* one stored elsewhere ends it for good.                                  *)
LEMMA StoreKeepsHonest ==
  ASSUME IInv, Honest, edits = 0, NEW c \in Callers, Store(c)
  PROVE  Honest'
<1> DEFINE n == Len(records)
           r == call[c].record
           p == call[c].payload
           from == call[c].from
<1>1. /\ records \in Seq(ImmutableChainRecord) /\ payloads \in Seq(Payloads)
      /\ Len(records) = Len(payloads) /\ n \in Nat
      /\ call[c].pc = "issued" /\ call[c] \in Call
      /\ call \in [Callers -> Call]
      /\ misplaced \in BOOLEAN
  BY DEF IInv, TypeOK, Store
<1>2. r \in ImmutableChainRecord /\ p \in Payloads
  BY <1>1, CallFields
<1>3. from \in 0..n /\ BuiltOn(r, p, from)
  BY <1>1 DEF Honest, CallsBuilt
<1>4. /\ records' = Append(records, r) /\ payloads' = Append(payloads, p)
      /\ misplaced' = (misplaced \/ from # n)
      /\ call' = [call EXCEPT ![c] = Idle]
      /\ edits' = edits
  BY DEF Store
<1>5. /\ Len(records') = n + 1
      /\ \A i \in 1..n : records'[i] = records[i]
      /\ records'[n + 1] = r
      /\ records = <<>> <=> n = 0
  BY <1>1, <1>2, <1>4
<1>6. Verified' <=> /\ Verified
                    /\ RecordValid(r, p)
                    /\ IF n = 0 THEN GenesisValid(r) ELSE LinkValid(records[n], r)
  BY <1>1, <1>2, <1>4, <1>5, VerifiedAppend DEF Verified
<1>7. CallsBuilt'
  <2> SUFFICES ASSUME NEW d \in Callers
               PROVE  /\ (call[d].pc = "digesting" =>
                           /\ call[d].from \in 0..Len(records)
                           /\ call[d].previous = At(call[d].from)
                           /\ assertAppendInputCoherent(call[d].previous, call[d].scope))'
                      /\ (call[d].pc = "issued" =>
                           /\ call[d].from \in 0..Len(records)
                           /\ BuiltOn(call[d].record, call[d].payload, call[d].from))'
    BY DEF CallsBuilt
  <2>1. CASE d = c
    <3>1. call'[d].pc = "idle"
      BY <1>1, <1>4, <2>1 DEF Idle
    <3> QED
      BY <3>1
  <2>2. CASE d # c
    <3>1. call'[d] = call[d]
      BY <1>1, <1>4, <2>2
    <3>2. \A f \in 0..n : f \in 0..(n + 1) /\ (f # 0 => records'[f] = records[f])
      BY <1>1, <1>5
    <3>3. \A f \in 0..n : At(f)' = At(f)
      BY <3>2 DEF At
    <3>4. \A f \in 0..n : BuiltOn(call[d].record, call[d].payload, f) =>
            BuiltOn(call[d].record, call[d].payload, f)'
      BY <3>1, <3>2 DEF BuiltOn, RecordValid, GenesisValid, LinkValid, computeRecordHash
    <3>5. /\ call[d].pc = "digesting" =>
               /\ call[d].from \in 0..n
               /\ call[d].previous = At(call[d].from)
               /\ assertAppendInputCoherent(call[d].previous, call[d].scope)
          /\ call[d].pc = "issued" =>
               /\ call[d].from \in 0..n
               /\ BuiltOn(call[d].record, call[d].payload, call[d].from)
      BY DEF Honest, CallsBuilt
    <3>6. call[d].pc = "digesting" =>
            (/\ call[d].from \in 0..Len(records)
             /\ call[d].previous = At(call[d].from)
             /\ assertAppendInputCoherent(call[d].previous, call[d].scope))'
      BY <1>5, <3>1, <3>2, <3>3, <3>5 DEF assertAppendInputCoherent
    <3>7. call[d].pc = "issued" =>
            (/\ call[d].from \in 0..Len(records)
             /\ BuiltOn(call[d].record, call[d].payload, call[d].from))'
      BY <1>5, <3>1, <3>2, <3>4, <3>5 DEF BuiltOn
    <3> QED
      BY <3>1, <3>6, <3>7
  <2> QED
    BY <2>1, <2>2
<1>8. CASE misplaced
  BY <1>4, <1>6, <1>7, <1>8 DEF Honest
<1>9. CASE ~misplaced
  <2>1. Verified /\ NumbersArePlaces
    BY <1>9 DEF Honest
  <2>2. r.sequence_number = from + 1
    <3>1. CASE from = 0
      BY <1>3, <3>1 DEF BuiltOn, GenesisValid
    <3>2. CASE from # 0
      <4>1. from \in 1..n
        BY <1>1, <1>3, <3>2
      <4>2. records[from].sequence_number = from
        BY <2>1, <4>1 DEF NumbersArePlaces
      <4> QED
        BY <1>3, <3>2, <4>2 DEF BuiltOn, LinkValid
    <3> QED
      BY <3>1, <3>2
  <2>3. CASE from = n
    <3>1. ~misplaced'
      BY <1>4, <1>9, <2>3
    <3>2. RecordValid(r, p) /\ IF n = 0 THEN GenesisValid(r) ELSE LinkValid(records[n], r)
      BY <1>3, <2>3 DEF BuiltOn
    <3>3. Verified'
      BY <1>6, <2>1, <3>2
    <3>4. NumbersArePlaces'
      <4> SUFFICES ASSUME NEW i \in 1..(n + 1) PROVE records'[i].sequence_number = i
        BY <1>5 DEF NumbersArePlaces
      <4>1. CASE i = n + 1
        BY <1>5, <2>2, <2>3, <4>1
      <4>2. CASE i \in 1..n
        BY <1>5, <2>1, <4>2 DEF NumbersArePlaces
      <4> QED
        BY <1>1, <4>1, <4>2
    <3> QED
      BY <1>7, <3>1, <3>3, <3>4 DEF Honest
  <2>4. CASE from # n
    <3>1. misplaced'
      BY <1>4, <2>4
    <3>2. n # 0 /\ n \in 1..n
      BY <1>1, <1>3, <2>4
    <3>3. records[n].sequence_number = n
      BY <2>1, <3>2 DEF NumbersArePlaces
    <3>4. ~LinkValid(records[n], r)
      BY <1>1, <1>3, <2>2, <2>4, <3>3 DEF LinkValid
    <3>5. ~Verified'
      BY <1>6, <3>2, <3>4
    <3> QED
      BY <1>7, <3>1, <3>5 DEF Honest
  <2> QED
    BY <2>3, <2>4
<1> QED
  BY <1>1, <1>8, <1>9

(* A step of a caller that stores nothing.                                 *)
LEMMA CallMovesHonest ==
  ASSUME Honest, edits = 0, call \in [Callers -> Call], NEW c \in Callers, NEW k,
         call' = [call EXCEPT ![c] = k],
         UNCHANGED <<records, payloads, misplaced, edits>>,
         k.pc = "digesting" => /\ k.from \in 0..Len(records)
                               /\ k.previous = At(k.from)
                               /\ assertAppendInputCoherent(k.previous, k.scope),
         k.pc = "issued" => /\ k.from \in 0..Len(records)
                            /\ BuiltOn(k.record, k.payload, k.from)
  PROVE  Honest'
<1>1. CallsBuilt'
  <2>1. \A d \in Callers : call'[d] = IF d = c THEN k ELSE call[d]
    OBVIOUS
  <2>2. \A d \in Callers :
          /\ call'[d].pc = "digesting" =>
               /\ call'[d].from \in 0..Len(records)
               /\ call'[d].previous = At(call'[d].from)
               /\ assertAppendInputCoherent(call'[d].previous, call'[d].scope)
          /\ call'[d].pc = "issued" =>
               /\ call'[d].from \in 0..Len(records)
               /\ BuiltOn(call'[d].record, call'[d].payload, call'[d].from)
    BY <2>1 DEF Honest, CallsBuilt
  <2> QED
    BY <2>2 DEF CallsBuilt, At, BuiltOn, RecordValid, GenesisValid, LinkValid,
                computeRecordHash, assertAppendInputCoherent
<1>2. (Verified' <=> Verified) /\ (NumbersArePlaces' <=> NumbersArePlaces)
  BY DEF Verified, NumbersArePlaces
<1> QED
  BY <1>1, <1>2 DEF Honest

(* As long as nothing is altered every step keeps the log honest.          *)
LEMMA NextHonest == IInv /\ Honest /\ [Next]_vars => Honest'
<1> SUFFICES ASSUME IInv, Honest, [Next]_vars PROVE Honest'
  OBVIOUS
<1>1. /\ edits \in Nat /\ call \in [Callers -> Call] /\ records \in Seq(ImmutableChainRecord)
      /\ Len(records) \in Nat /\ Len(issued) \in Nat
  BY BoundsAssumption DEF IInv, TypeOK
<1>2. CASE edits' # 0
  BY <1>2 DEF Honest
<1>3. CASE UNCHANGED vars
  BY <1>3 DEF vars, Honest, CallsBuilt, At, BuiltOn, NumbersArePlaces, Verified
<1>4. ASSUME edits' = 0, Edit PROVE FALSE
  BY <1>1, <1>4 DEF Edit
<1>5. ASSUME edits = 0, NEW c \in Callers, NEW from \in 0..Len(records), NEW scope \in Scopes,
             NEW q \in Payloads, NEW m \in Metadata, Begin(c, from, scope, q, m)
      PROVE  Honest'
  <2> DEFINE k == [pc |-> "digesting", previous |-> At(from), scope |-> scope,
                   payload |-> q, metadata |-> m, from |-> from]
  <2>1. /\ call' = [call EXCEPT ![c] = k]
        /\ UNCHANGED <<records, payloads, misplaced, edits>>
        /\ assertAppendInputCoherent(At(from), scope)
    BY <1>5 DEF Begin, At
  <2>2. /\ k.pc = "digesting" /\ k.from = from /\ k.previous = At(from) /\ k.scope = scope
    OBVIOUS
  <2> HIDE DEF k
  <2> QED
    BY <1>1, <1>5, <2>1, <2>2, CallMovesHonest
<1>6. ASSUME edits = 0, NEW c \in Callers, Issue(c) PROVE Honest'
  <2> DEFINE r == appendImmutableRecord(call[c].previous, call[c].scope, call[c].payload,
                                        call[c].metadata, Len(issued) + 1)
             k == [pc |-> "issued", record |-> r, payload |-> call[c].payload,
                   from |-> call[c].from]
  <2>1. /\ call[c] \in Call /\ call[c].pc = "digesting"
        /\ call[c].from \in 0..Len(records)
        /\ call[c].previous = At(call[c].from)
        /\ assertAppendInputCoherent(call[c].previous, call[c].scope)
    BY <1>1, <1>6 DEF Honest, CallsBuilt, Issue
  <2>2. call[c].scope \in Scopes /\ call[c].payload \in Payloads /\ call[c].metadata \in Metadata
    BY <2>1, CallFields
  <2>3. BuiltOn(r, call[c].payload, call[c].from)
    <3>1. Len(issued) + 1 \in Nat \ {0}
      BY <1>1
    <3> QED
      BY <1>1, <2>1, <2>2, <3>1, AppendBuilds
  <2>4. /\ call' = [call EXCEPT ![c] = k]
        /\ UNCHANGED <<records, payloads, misplaced, edits>>
    BY <1>6 DEF Issue
  <2> HIDE DEF r
  <2>5. /\ k.pc = "issued" /\ k.record = r
        /\ k.payload = call[c].payload /\ k.from = call[c].from
    OBVIOUS
  <2> HIDE DEF k
  <2> QED
    BY <1>1, <1>6, <2>1, <2>3, <2>4, <2>5, CallMovesHonest
<1>7. ASSUME edits = 0, NEW c \in Callers, Store(c) PROVE Honest'
  BY <1>7, StoreKeepsHonest
<1>8. ASSUME edits = 0, NEW c \in Callers, Lose(c) PROVE Honest'
  <2>1. /\ call' = [call EXCEPT ![c] = Idle]
        /\ UNCHANGED <<records, payloads, misplaced, edits>>
        /\ Idle.pc = "idle"
    BY <1>8 DEF Lose, Idle
  <2> QED
    BY <1>1, <1>8, <2>1, CallMovesHonest
<1>9. ASSUME edits' = 0, NEW c \in Callers,
             \/ \E from \in 0..Len(records), scope \in Scopes, q \in Payloads, m \in Metadata :
                  Begin(c, from, scope, q, m)
             \/ Issue(c) \/ Store(c) \/ Lose(c)
      PROVE  Honest'
  <2>1. edits = 0
    BY <1>9 DEF Begin, Issue, Store, Lose
  <2> QED
    BY <1>5, <1>6, <1>7, <1>8, <1>9, <2>1
<1>10. ASSUME edits' = 0, NEW i \in 1..Len(records),
              \/ EditRecord(i) \/ EditPayload(i) \/ Remove(i)
              \/ \E j \in 1..Len(records) : Exchange(i, j)
       PROVE  FALSE
  BY <1>4, <1>10 DEF EditRecord, EditPayload, Remove, Exchange
<1> QED
  BY <1>2, <1>3, <1>9, <1>10 DEF Next

(* The verifier raises no false alarm and misses no lost update: until the *)
(* held data is altered, the log verifies exactly when every record was    *)
(* stored on top of the one it was built on.                               *)
THEOREM NoFalseAlarm == Spec => []HonestLogVerifies
<1>1. IInv /\ Honest /\ [Next]_vars => (Honest)'
  BY NextHonest
<1>2. Honest => HonestLogVerifies
  BY DEF Honest, HonestLogVerifies
<1> QED
  BY <1>1, <1>2, InitHonest, Invariance, PTL DEF Spec
=============================================================================
