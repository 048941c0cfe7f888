---------------------- MODULE ProviderEvidenceProofs ----------------------
(***************************************************************************)
(* Theorems about P9O to P9T: whichever fact of a held result is altered,  *)
(* what the ledger and the audit call completed was performed; what is     *)
(* audited is true and what its row says, but for the alterations no stage *)
(* can see; and the stages agree on what evidence is.                      *)
(***************************************************************************)
EXTENDS ProviderEvidence, TLAPS

(* What an executor did and reported.                                      *)
Invocation == [response : Responses, ok : BOOLEAN, note : Notes]

(* The facts of a result, as a function of their own fields.               *)
AnyValue == UNION {FieldValues[f] : f \in DOMAIN FieldValues}
FactsOf(fields) == {m \in [fields -> AnyValue] : \A f \in fields : m[f] \in FieldValues[f]}

(* The facts a result shows at the top, beside the material inside it.     *)
TopFields(stage) == IF stage = "certification" THEN CertifiedFields ELSE RecordedFields

PairStages == Stages \ {"execution"}
RowStages == {"write", "auditAdmission"}

(* What run stands for.                                                    *)
DoneBy(run) == decision.response = "NO_ACTION" \/ PerformedOk(run)

(* What the executor said of it.                                           *)
Said(run) == IF run = 0 THEN None ELSE performed[run].note

(* What is said to be completed was performed.                             *)
Sound(fact) ==
  fact.outcome.completed /\ fact.outcome.of # "NO_ACTION" =>
    fact.outcome.of = decision.response /\ PerformedOk(fact.run)

(* A fact of a held result that is not the altered one.                    *)
Untouched(stage, part, field) == altered # Altered(stage, part, field)

AlteredAt(stage) == altered # None /\ altered.stage = stage

(* A field in which nothing that no stage compares was altered.            *)
Told(field) == field \notin Uncompared \/ FieldIntact(field)

(* A fact of a held result that no alteration can have made wrong: of those*)
(* no stage compares, one that is the altered one nowhere.                 *)
Kept(stage, part, field) ==
  IF field \in Uncompared THEN FieldIntact(field) ELSE Untouched(stage, part, field)

(* The alterations there may be.                                           *)
Alterations ==
  {Altered("execution", "top", field) :
     field \in (ExecutionFields \ {"run"}) \union {"flag", "reason", "note"}}
    \union {Altered(stage, part, field) :
              stage \in PairStages, part \in {"top", "inner"}, field \in MaterialFields \ {"run"}}
    \union {Altered(stage, place, "row") :
              stage \in RowStages, place \in {"row", "materialRow"}}

(* P9O's result, as far as the alteration lets it be told: two of its      *)
(* fields always say together what one of them says alone when it is       *)
(* altered.                                                                *)
ExecutionTraced ==
  held["execution"] # None =>
    LET x == held["execution"]
        ok(field) == Untouched("execution", "top", field)
    IN  /\ x.run \in 0..Len(performed)
        /\ ok("response") => x.response = decision.response
        /\ ok("flag") => x.flag \in {None, FlagOf(decision.response)}
        /\ ok("status") /\ x.status = "EXECUTED" => DoneBy(x.run)
        /\ ok("executed") /\ x.executed => DoneBy(x.run)

(* P9O's result, unless it is the one altered.                             *)
ExecutionHonest ==
  held["execution"] # None /\ ~AlteredAt("execution") =>
    LET x == held["execution"]
    IN  /\ x.ctx = decision.ctx /\ x.diag = decision.diag
        /\ x.idle = (decision.response = "NO_ACTION")
        /\ x.executed = (x.status = "EXECUTED")
        /\ x.flag = IF x.status = "EXECUTED" THEN FlagOf(decision.response) ELSE None
        /\ x.reason # None => x.status = "NOT_EXECUTED"
        /\ x.reason = "EXECUTION_FAILED" => ~DoneBy(x.run)
        /\ x.meta = x.run /\ x.note = Said(x.run)

TracedFields(stage, part) ==
  ((IF stage = "auditAdmission" THEN RecordedFields ELSE CertifiedFields) \ {"run"})
    \union (IF part = "inner" THEN {"note"} ELSE {})

(* Of a later result each part is sound and true, but for a field that was *)
(* altered.                                                                *)
PartTraced(stage, part) ==
  LET p == held[stage][part]
  IN  /\ p.run \in 0..Len(performed)
      /\ Untouched(stage, part, "outcome") => Sound(p)
      /\ ~Unseen => \A f \in TracedFields(stage, part) :
                      Kept(stage, part, f) => p[f] = Truth(p.run)[f]

PairShape(stage) ==
  /\ {"status", "top", "inner"} \subseteq DOMAIN held[stage]
  /\ held[stage].top \in FactsOf(TopFields(stage))
  /\ held[stage].inner \in FactsOf(MaterialFields)

PairTraced(stage) ==
  Stands(stage) =>
    /\ PairShape(stage)
    /\ held[stage].top.run = held[stage].inner.run
    /\ PartTraced(stage, "top") /\ PartTraced(stage, "inner")

(* Where a result shows the row it is about.                               *)
RowPlaces(stage) == IF stage = "write" THEN {"row"} ELSE {"row", "materialRow"}

(* A result about a row holds the facts of the row, but for a field that   *)
(* was altered.                                                            *)
RowFits(stage, row) ==
  /\ \A place \in RowPlaces(stage) :
       RowIntact /\ Untouched(stage, place, "row") => held[stage][place] = row
  /\ \A f \in ComparedFields : Kept(stage, "top", f) => held[stage].top[f] = ledger[row][f]
  /\ \A f \in MaterialFields : Kept(stage, "inner", f) => held[stage].inner[f] = ledger[row][f]

RowTraced(stage) ==
  Stands(stage) =>
    /\ RowPlaces(stage) \subseteq DOMAIN held[stage]
    /\ \A place \in RowPlaces(stage) : held[stage][place] \in 1..MaxRows
    /\ \E row \in DOMAIN ledger : RowFits(stage, row)

LedgerSound == \A n \in DOMAIN ledger : Sound(ledger[n]) /\ ledger[n].run \in 0..Len(performed)

(* What was audited fits a row, and the truth unless something unseen was  *)
(* altered.                                                                *)
AuditFits(a, row) ==
  /\ RowIntact => row = a.row
  /\ \A f \in MaterialFields : Told(f) => a.fact[f] = ledger[row][f]

AuditTrue(a) ==
  ~Unseen => \A f \in MaterialFields : Told(f) => a.fact[f] = Truth(a.fact.run)[f]

AuditsTrue ==
  \A a \in audits :
    /\ a.row \in 1..MaxRows /\ a.fact \in FactsOf(MaterialFields)
    /\ \E row \in DOMAIN ledger : AuditFits(a, row)
    /\ AuditTrue(a)

(* Of results that are not altered each is what its stage makes of the one *)
(* before.                                                                 *)
Derived ==
  altered = None =>
    /\ held["certification"] # None => held["execution"] # None /\
         \E allowed \in Gates : held["certification"] =
           certifyProviderRuntimeExecutionOutcome(held["execution"], allowed)
    /\ held["admission"] # None => held["certification"] # None /\
         \E allowed \in Gates : held["admission"] =
           admitProviderRuntimeEvidenceToLedger(held["certification"], allowed)
    /\ held["write"] # None => held["admission"] # None /\
         \/ \E allowed \in Gates :
              /\ WriteRefusal(held["admission"], allowed) # None
              /\ held["write"] = NotWritten(WriteRefusal(held["admission"], allowed))
         \/ /\ WriteRefusal(held["admission"], TRUE) = None
            /\ \/ \E reason \in {"WRITER_MISSING", "WRITER_FAILED", "RESULT_INCOHERENT"} :
                    held["write"] = NotWritten(reason)
               \/ \E row \in DOMAIN ledger : held["write"] = Written(held["admission"], row)
    /\ held["auditAdmission"] # None => held["write"] # None /\
         \E allowed \in Gates : held["auditAdmission"] =
           admitProviderRuntimeLedgerToAudit(held["write"], allowed)

(* The types.                                                              *)
EvidenceTyped ==
  /\ decision \in [status : {"DECIDED", "NOT_DECIDED"}, response : Responses,
                   ctx : Contexts, diag : Diagnoses]
  /\ performed \in Seq(Invocation) /\ Len(performed) <= MaxRuns
  /\ held = [stage \in Stages |-> held[stage]]
  /\ held["execution"] # None =>
       held["execution"] \in FactsOf(ExecutionFields \union {"flag", "reason", "note"})
  /\ ledger \in Seq(FactsOf(MaterialFields)) /\ Len(ledger) <= MaxRows
  /\ altered \in Alterations \union {None}

(* The invariant: what runs, rows and results tell of each other, whatever *)
(* was altered.                                                            *)
EvidenceIInv ==
  /\ EvidenceTyped
  /\ ExecutionTraced /\ ExecutionHonest
  /\ \A stage \in PairStages : PairTraced(stage)
  /\ \A stage \in RowStages : RowTraced(stage)
  /\ LedgerSound /\ AuditsTrue
  /\ Derived

----------------------------------------------------------------------------
(* A function of some fields, each in its range, is a set of facts.        *)
LEMMA FactsBuilt ==
  ASSUME NEW fields, fields \subseteq DOMAIN FieldValues, NEW m,
         m = [f \in fields |-> m[f]], \A f \in fields : m[f] \in FieldValues[f]
  PROVE  m \in FactsOf(fields)
<1>1. \A f \in fields : m[f] \in AnyValue
  BY DEF AnyValue
<1> QED
  BY <1>1 DEF FactsOf

(* The fields, by name.                                                    *)
LEMMA FieldNames ==
  /\ DOMAIN FieldValues = MaterialFields \union {"flag", "reason"}
  /\ MaterialFields = {"run", "meta", "ctx", "diag", "response", "status", "executed", "idle",
                       "outcome", "contained", "note"}
  /\ RecordedFields = {"run", "meta", "ctx", "diag", "response", "status", "executed", "idle",
                       "outcome", "contained"}
  /\ CertifiedFields = {"run", "meta", "ctx", "diag", "response", "status", "executed", "idle",
                        "outcome"}
  /\ ExecutionFields = {"run", "meta", "ctx", "diag", "response", "status", "executed", "idle"}
  /\ ComparedFields = {"ctx", "diag", "response", "status", "executed", "idle", "outcome",
                       "contained"}
  /\ Uncompared = {"meta", "note"}
BY DEF FieldValues, MaterialFields, RecordedFields, CertifiedFields, ExecutionFields,
   ComparedFields, Uncompared

(* The range of each field.                                                *)
LEMMA FieldSets ==
  /\ FieldValues["run"] = 0..MaxRuns /\ FieldValues["meta"] = 0..MaxRuns
  /\ FieldValues["ctx"] = Contexts
  /\ FieldValues["diag"] = Diagnoses /\ FieldValues["response"] = Responses
  /\ FieldValues["status"] = {"EXECUTED", "NOT_EXECUTED", "DENIED"}
  /\ FieldValues["executed"] = BOOLEAN /\ FieldValues["idle"] = BOOLEAN
  /\ FieldValues["outcome"] = Outcomes /\ FieldValues["contained"] = BOOLEAN
  /\ FieldValues["note"] = Notes /\ FieldValues["flag"] = Responses \union {None}
  /\ FieldValues["reason"] = Reasons
BY DEF FieldValues

(* Every result P9O makes has its type.                                    *)
LEMMA ResultTyped ==
  ASSUME NEW d \in [status : {"DECIDED", "NOT_DECIDED"}, response : Responses,
                    ctx : Contexts, diag : Diagnoses],
         NEW status \in {"EXECUTED", "NOT_EXECUTED", "DENIED"}, NEW reason \in Reasons,
         NEW note \in Notes, NEW run \in 0..MaxRuns
  PROVE  Result(d, status, reason, note, run)
           \in FactsOf(ExecutionFields \union {"flag", "reason", "note"})
<1> DEFINE x == Result(d, status, reason, note, run)
           fields == ExecutionFields \union {"flag", "reason", "note"}
<1>1. fields = {"run", "meta", "ctx", "diag", "response", "status", "executed", "idle",
                "flag", "reason", "note"}
  BY FieldNames
<1>2. fields \subseteq DOMAIN FieldValues
  BY FieldNames, <1>1
<1>3. x = [f \in fields |-> x[f]]
  BY <1>1 DEF Result
<1>4. \A f \in fields : x[f] \in FieldValues[f]
  <2>1. /\ x.run \in 0..MaxRuns /\ x.meta \in 0..MaxRuns
        /\ x.ctx \in Contexts /\ x.diag \in Diagnoses
        /\ x.response \in Responses /\ x.status \in {"EXECUTED", "NOT_EXECUTED", "DENIED"}
        /\ x.reason \in Reasons /\ x.note \in Notes
    BY DEF Result
  <2>2. x.executed \in BOOLEAN /\ x.idle \in BOOLEAN
    BY DEF Result
  <2>3. x.flag \in Responses \union {None}
    BY DEF Result, FlagOf
  <2> HIDE DEF x
  <2> QED
    BY <1>1, <2>1, <2>2, <2>3, FieldSets
<1> HIDE DEF x, fields
<1> QED
  BY <1>2, <1>3, <1>4, FactsBuilt DEF x, fields
----------------------------------------------------------------------------
(* What happens to the runs and the rows when nothing is altered.          *)
Onward ==
  /\ decision' = decision
  /\ altered' = altered \/ (altered = None /\ altered' \in Alterations)
  /\ \/ performed' = performed
     \/ /\ Len(performed) < MaxRuns
        /\ \E r \in Invocation : performed' = Append(performed, r)
  /\ \/ ledger' = ledger
     \/ /\ Len(ledger) < MaxRows
        /\ \E e \in FactsOf(MaterialFields) :
             ledger' = Append(ledger, e) /\ Sound(e) /\ e.run \in 0..Len(performed)

(* What was performed in a run stays.                                      *)
LEMMA RunsKept ==
  ASSUME EvidenceTyped, Onward
  PROVE  /\ performed' \in Seq(Invocation)
         /\ Len(performed') <= MaxRuns /\ Len(performed) <= Len(performed')
         /\ \A run \in 0..Len(performed) :
              /\ run \in 0..Len(performed)'
              /\ PerformedOk(run)' <=> PerformedOk(run)
              /\ Said(run)' = Said(run)
<1> USE BoundsAssumption DEF EvidenceTyped, Onward
<1>1. CASE performed' = performed
  BY <1>1 DEF PerformedOk, Said
<1>2. CASE \E r \in Invocation :
             Len(performed) < MaxRuns /\ performed' = Append(performed, r)
  <2>1. PICK r \in Invocation :
          Len(performed) < MaxRuns /\ performed' = Append(performed, r)
    BY <1>2
  <2>2. Len(performed') = Len(performed) + 1 /\ Len(performed) \in Nat
        /\ performed' \in Seq(Invocation)
    BY <2>1
  <2>3. \A run \in 1..Len(performed) : performed'[run] = performed[run]
    BY <2>1
  <2>4. ASSUME NEW run \in 0..Len(performed)
        PROVE  (PerformedOk(run)' <=> PerformedOk(run)) /\ Said(run)' = Said(run)
    <3>1. DOMAIN performed = 1..Len(performed) /\ DOMAIN performed' = 1..Len(performed')
      BY <2>2
    <3>2. run \in DOMAIN performed <=> run \in DOMAIN performed'
      BY <2>2, <3>1
    <3>3. run # 0 => performed'[run] = performed[run]
      BY <2>2, <2>3
    <3>4. PerformedOk(run)' <=> PerformedOk(run)
      BY <2>3, <3>1, <3>2 DEF PerformedOk
    <3> QED
      BY <3>3, <3>4 DEF Said
  <2> QED
    BY <2>1, <2>2, <2>4
<1> QED
  BY <1>1, <1>2

(* What is in a row stays, and a new row is sound.                         *)
LEMMA RowsKept ==
  ASSUME EvidenceTyped, Onward
  PROVE  /\ ledger' \in Seq(FactsOf(MaterialFields)) /\ Len(ledger') <= MaxRows
         /\ \A n \in DOMAIN ledger : n \in DOMAIN ledger' /\ ledger'[n] = ledger[n]
         /\ \A n \in DOMAIN ledger' \ DOMAIN ledger :
              Sound(ledger'[n]) /\ ledger'[n].run \in 0..Len(performed)
<1> USE BoundsAssumption DEF EvidenceTyped, Onward
<1>1. CASE ledger' = ledger
  BY <1>1
<1>2. CASE ledger' # ledger
  <2>1. PICK e \in FactsOf(MaterialFields) :
          /\ Len(ledger) < MaxRows /\ ledger' = Append(ledger, e)
          /\ Sound(e) /\ e.run \in 0..Len(performed)
    BY <1>2
  <2>2. Len(ledger') = Len(ledger) + 1 /\ Len(ledger) \in Nat
        /\ ledger' \in Seq(FactsOf(MaterialFields))
    BY <2>1
  <2>3. \A n \in 1..Len(ledger) : ledger'[n] = ledger[n]
    BY <2>1
  <2>4. ledger'[Len(ledger) + 1] = e
    BY <2>1
  <2>5. DOMAIN ledger = 1..Len(ledger) /\ DOMAIN ledger' = 1..(Len(ledger) + 1)
    BY <2>2
  <2>6. \A n \in DOMAIN ledger' \ DOMAIN ledger : n = Len(ledger) + 1
    BY <2>2, <2>5
  <2>7. \A n \in DOMAIN ledger' \ DOMAIN ledger : ledger'[n] = e
    BY <2>4, <2>6
  <2>8. \A n \in DOMAIN ledger' \ DOMAIN ledger :
          Sound(ledger'[n]) /\ ledger'[n].run \in 0..Len(performed)
    <3> TAKE n \in DOMAIN ledger' \ DOMAIN ledger
    <3> QED
      BY <2>1, <2>7, Zenon
  <2>9. \A n \in DOMAIN ledger : n \in DOMAIN ledger'
    BY <2>2, <2>5
  <2>10. ledger' \in Seq(FactsOf(MaterialFields)) /\ Len(ledger') <= MaxRows
    BY <2>1, <2>2
  <2>11. \A n \in DOMAIN ledger : n \in DOMAIN ledger' /\ ledger'[n] = ledger[n]
    BY <2>3, <2>5, <2>9
  <2> QED
    BY <2>8, <2>10, <2>11, Zenon
<1> QED
  BY <1>1, <1>2

(* What happened in a run does not change afterwards.                      *)
LEMMA TruthKept ==
  ASSUME EvidenceTyped, Onward, NEW run \in 0..Len(performed)
  PROVE  DoneBy(run)' = DoneBy(run) /\ Truth(run)' = Truth(run)
<1>1. /\ decision' = decision /\ (PerformedOk(run)' <=> PerformedOk(run))
      /\ Said(run)' = Said(run)
  BY RunsKept DEF Onward
<1>2. (DoneBy(run)' <=> DoneBy(run))
  BY <1>1 DEF DoneBy
<1> QED
  BY <1>1, <1>2 DEF DoneBy, Truth, Said

(* A sound fact stays sound.                                               *)
LEMMA SoundKept ==
  ASSUME EvidenceTyped, Onward, NEW fact, fact.run \in 0..Len(performed), Sound(fact)
  PROVE  /\ fact.run \in 0..Len(performed)'
         /\ fact.outcome.completed /\ fact.outcome.of # "NO_ACTION" =>
              fact.outcome.of = decision'.response /\ PerformedOk(fact.run)'
BY RunsKept DEF Onward, Sound

(* An alteration is not nothing.                                           *)
LEMMA AlteredNot ==
  ASSUME NEW a \in Alterations
  PROVE  a # None
BY AlterationAssumption, FieldNames DEF Alterations, Stages, PairStages, RowStages

(* Alterations differ when their places do.                                *)
LEMMA AlterationsTell ==
  \A s, p, f, t, q, g : Altered(s, p, f) = Altered(t, q, g) <=> s = t /\ p = q /\ f = g
BY DEF Altered

(* A fact that is untouched later was untouched before.                    *)
LEMMA UntouchedKept ==
  ASSUME EvidenceTyped, Onward
  PROVE  /\ altered' \in Alterations \union {None}
         /\ Unseen => Unseen'
         /\ altered' = None => altered = None
         /\ RowIntact' => RowIntact
         /\ \A stage \in Stages : AlteredAt(stage) => AlteredAt(stage)'
         /\ \A stage \in Stages, part \in {"top", "inner", "row", "materialRow"},
               field \in MaterialFields \union {"flag", "reason", "row"} :
              /\ Untouched(stage, part, field)' => Untouched(stage, part, field)
              /\ Kept(stage, part, field)' => Kept(stage, part, field)
         /\ \A field : Told(field)' => Told(field)
<1>1. CASE altered' = altered
  BY <1>1 DEF EvidenceTyped, Unseen, AlteredAt, Untouched, Kept, Told, FieldIntact, RowIntact
<1>2. CASE altered = None /\ altered' \in Alterations
  <2>1. altered' # None
    BY <1>2, AlteredNot
  <2>2. \A stage \in Stages, part \in {"top", "inner", "row", "materialRow"},
          field \in MaterialFields \union {"flag", "reason", "row"} :
            Untouched(stage, part, field)
    BY <1>2, AlterationAssumption, FieldNames DEF Untouched
  <2>3. \A field : FieldIntact(field)
    BY <1>2 DEF FieldIntact
  <2>4. "write" \in Stages
    BY DEF Stages
  <2>5. RowIntact
    BY <2>2, <2>4 DEF RowIntact, Untouched
  <2> QED
    BY <1>2, <2>1, <2>2, <2>3, <2>5 DEF Unseen, AlteredAt, Kept, Told
<1> QED
  BY <1>1, <1>2 DEF Onward

(* A stage whose result is not replaced.                                   *)
LEMMA PairKept ==
  ASSUME EvidenceTyped, Onward, NEW stage \in PairStages, PairTraced(stage),
         held'[stage] = held[stage] \/ held'[stage] = None
  PROVE  PairTraced(stage)'
<1> SUFFICES ASSUME Stands(stage)'
             PROVE  /\ PairShape(stage)'
                    /\ held'[stage].top.run = held'[stage].inner.run
                    /\ PartTraced(stage, "top")' /\ PartTraced(stage, "inner")'
  BY DEF PairTraced
<1>1. held'[stage] = held[stage] /\ Stands(stage)
  BY DEF Stands
<1>2. /\ PairShape(stage)
      /\ held[stage].top.run = held[stage].inner.run
      /\ PartTraced(stage, "top") /\ PartTraced(stage, "inner")
  BY <1>1 DEF PairTraced
<1>3. PairShape(stage)'
  BY <1>1, <1>2 DEF PairShape
<1>4. ASSUME NEW part \in {"top", "inner"}
      PROVE  PartTraced(stage, part)'
  <2>0. PICK p : p = held[stage][part]
    OBVIOUS
  <2>1. /\ p.run \in 0..Len(performed)
        /\ Untouched(stage, part, "outcome") => Sound(p)
        /\ ~Unseen => \A f \in TracedFields(stage, part) :
                        Kept(stage, part, f) => p[f] = Truth(p.run)[f]
    BY <1>2, <2>0 DEF PartTraced
  <2>2. held'[stage][part] = p
    BY <1>1, <2>0
  <2>3. stage \in Stages /\ \A f \in TracedFields(stage, part) : f \in MaterialFields
    BY FieldNames DEF TracedFields, PairStages
  <2>4. p.run \in 0..Len(performed)' /\ Truth(p.run)' = Truth(p.run)
    BY <2>1, RunsKept, TruthKept
  <2>5. ASSUME Untouched(stage, part, "outcome")' PROVE Sound(p)'
    <3>1. Sound(p)
      BY <2>1, <2>3, <2>5, UntouchedKept, FieldNames
    <3> QED
      BY <2>1, <3>1, SoundKept DEF Sound
  <2>6. ASSUME ~Unseen', NEW f \in TracedFields(stage, part), Kept(stage, part, f)'
        PROVE  p[f] = Truth(p.run)'[f]
    <3>1. ~Unseen /\ Kept(stage, part, f)
      BY <2>3, <2>6, UntouchedKept
    <3> QED
      BY <2>1, <2>4, <3>1
  <2>7. Sound(p)' => Sound(held[stage][part])'
    BY <2>2 DEF Sound
  <2>8. Truth(held[stage][part].run)' = Truth(p.run)'
    BY <2>2
  <2> QED
    BY <2>2, <2>4, <2>5, <2>6, <2>7, <2>8 DEF PartTraced, TracedFields
<1> QED
  BY <1>1, <1>2, <1>3, <1>4
(* ... and the row it is about.                                            *)
LEMMA RowKept ==
  ASSUME EvidenceTyped, Onward, NEW stage \in RowStages, RowTraced(stage),
         held'[stage] = held[stage] \/ held'[stage] = None
  PROVE  RowTraced(stage)'
<1> SUFFICES ASSUME Stands(stage)'
             PROVE  /\ RowPlaces(stage) \subseteq DOMAIN held'[stage]
                    /\ \A place \in RowPlaces(stage) : held'[stage][place] \in 1..MaxRows
                    /\ \E row \in DOMAIN ledger' : RowFits(stage, row)'
  BY DEF RowTraced, RowPlaces
<1>1. held'[stage] = held[stage] /\ Stands(stage)
  BY DEF Stands
<1>2. PICK r : r = held[stage]
  OBVIOUS
<1>3. /\ RowPlaces(stage) \subseteq DOMAIN r
      /\ \A place \in RowPlaces(stage) : r[place] \in 1..MaxRows
  BY <1>1, <1>2 DEF RowTraced
<1>4. PICK row \in DOMAIN ledger : RowFits(stage, row)
  BY <1>1 DEF RowTraced
<1>5. row \in DOMAIN ledger' /\ ledger'[row] = ledger[row]
  BY <1>4, RowsKept
<1>6. /\ stage \in Stages /\ ComparedFields \subseteq MaterialFields
      /\ RowPlaces(stage) \subseteq {"row", "materialRow"}
  BY FieldNames DEF RowStages, Stages, RowPlaces
<1>7. /\ \A f \in MaterialFields, part \in {"top", "inner"} :
           Kept(stage, part, f)' => Kept(stage, part, f)
      /\ \A place \in RowPlaces(stage) :
           RowIntact' /\ Untouched(stage, place, "row")' =>
             RowIntact /\ Untouched(stage, place, "row")
  BY <1>6, UntouchedKept
<1>8. RowFits(stage, row)'
  BY <1>1, <1>4, <1>5, <1>6, <1>7 DEF RowFits, RowPlaces
<1> QED
  BY <1>1, <1>2, <1>3, <1>5, <1>8

(* ... and the result of P9O.                                              *)
LEMMA ExecutionKept ==
  ASSUME EvidenceTyped, Onward, ExecutionTraced, ExecutionHonest,
         held'["execution"] = held["execution"]
  PROVE  ExecutionTraced' /\ ExecutionHonest'
<1> SUFFICES ASSUME held["execution"] # None
             PROVE  ExecutionTraced' /\ ExecutionHonest'
  BY DEF ExecutionTraced, ExecutionHonest
<1>1. PICK x : x = held["execution"] /\ x = held'["execution"]
  OBVIOUS
<1>2. x.run \in 0..Len(performed)
  BY <1>1 DEF ExecutionTraced
<1>3. /\ x.run \in 0..Len(performed)' /\ DoneBy(x.run)' = DoneBy(x.run) /\ decision' = decision
      /\ Said(x.run)' = Said(x.run)
  BY <1>2, RunsKept, TruthKept DEF Onward
<1>4. "execution" \in Stages /\ {"response", "flag", "status", "executed"} \subseteq
                                  MaterialFields \union {"flag", "reason"}
  BY FieldNames DEF Stages
<1>5. /\ \A f \in {"response", "flag", "status", "executed"} :
           Untouched("execution", "top", f)' => Untouched("execution", "top", f)
      /\ AlteredAt("execution") => AlteredAt("execution")'
  BY <1>4, UntouchedKept
<1>6. /\ DoneBy(held["execution"].run)' = DoneBy(x.run)'
      /\ Said(held["execution"].run)' = Said(x.run)'
  BY <1>1
<1>7. ExecutionTraced'
  BY <1>1, <1>3, <1>5, <1>6 DEF ExecutionTraced
<1>8. ExecutionHonest'
  BY <1>1, <1>3, <1>5, <1>6 DEF ExecutionHonest
<1> QED
  BY <1>7, <1>8

(* ... and the rows and the audits.                                        *)
LEMMA BooksKept ==
  ASSUME EvidenceTyped, Onward, LedgerSound, AuditsTrue
  PROVE  /\ LedgerSound'
         /\ audits' = audits => AuditsTrue'
<1>1. ASSUME NEW n \in DOMAIN ledger'
      PROVE  Sound(ledger[n])' /\ ledger'[n].run \in 0..Len(performed)'
  <2>1. PICK e : e = ledger'[n]
    OBVIOUS
  <2>2. Sound(e) /\ e.run \in 0..Len(performed)
    <3>1. CASE n \in DOMAIN ledger
      BY <2>1, <3>1, RowsKept DEF LedgerSound
    <3>2. CASE n \notin DOMAIN ledger
      BY <2>1, <3>2, RowsKept
    <3> QED
      BY <3>1, <3>2
  <2>3. Sound(e)' /\ e.run \in 0..Len(performed)'
    BY <2>2, SoundKept DEF Sound
  <2>4. Sound(ledger[n])' <=> Sound(e)'
    BY <2>1 DEF Sound
  <2> QED
    BY <2>1, <2>3, <2>4
<1>2. ASSUME audits' = audits, NEW a \in audits
      PROVE  (\E row \in DOMAIN ledger' : AuditFits(a, row)') /\ AuditTrue(a)'
  <2>1. PICK row \in DOMAIN ledger : AuditFits(a, row)
    BY <1>2 DEF AuditsTrue
  <2>2. row \in DOMAIN ledger' /\ ledger'[row] = ledger[row]
    BY RowsKept
  <2>3. AuditFits(a, row)'
    BY <2>1, <2>2, UntouchedKept DEF AuditFits
  <2>4. PICK run : run = a.fact.run
    OBVIOUS
  <2>5. run \in 0..Len(performed)
    <3>1. run = ledger[row].run
      BY <2>1, <2>4, FieldNames DEF AuditFits, Told
    <3> QED
      BY <3>1 DEF LedgerSound
  <2>6. Truth(run)' = Truth(run) /\ (Unseen => Unseen')
    BY <2>5, TruthKept, UntouchedKept
  <2>7. ~Unseen => \A f \in MaterialFields : Told(f) => a.fact[f] = Truth(run)[f]
    BY <1>2, <2>4 DEF AuditsTrue, AuditTrue
  <2>8. ~Unseen' => \A f \in MaterialFields : Told(f)' => a.fact[f] = Truth(run)'[f]
    BY <2>6, <2>7, UntouchedKept
  <2>9. AuditTrue(a)'
    BY <2>4, <2>8 DEF AuditTrue
  <2> QED
    BY <2>2, <2>3, <2>9
<1>3. LedgerSound'
  BY <1>1 DEF LedgerSound
<1>4. ASSUME audits' = audits PROVE AuditsTrue'
  <2>1. \A a \in audits : a.row \in 1..MaxRows /\ a.fact \in FactsOf(MaterialFields)
    BY DEF AuditsTrue
  <2> QED
    BY <1>2, <1>4, <2>1 DEF AuditsTrue
<1> QED
  BY <1>3, <1>4
----------------------------------------------------------------------------
(* The stages, by name.                                                    *)
LEMMA StageNames ==
  /\ Stages = {"execution", "certification", "admission", "write", "auditAdmission"}
  /\ PairStages = {"certification", "admission", "write", "auditAdmission"}
BY DEF Stages, PairStages

(* A new result of a stage drops those derived from the old one.           *)
LEMMA Held ==
  ASSUME NEW stage \in Stages, NEW r, Hold(stage, r)
  PROVE  /\ held' = [s \in Stages |-> held'[s]]
         /\ held'[stage] = r
         /\ \A s \in Stages \ {stage} : held'[s] = IF s \in After(stage) THEN None ELSE held[s]
BY DEF Hold, After, Stages

(* A new result of P9P to P9S.                                             *)
LEMMA StageHeld ==
  ASSUME EvidenceIInv, Onward, UNCHANGED <<altered, audits>>, NEW stage \in PairStages, NEW r,
         Hold(stage, r), PairTraced(stage)', stage \in RowStages => RowTraced(stage)', Derived'
  PROVE  EvidenceIInv'
<1> USE DEF EvidenceIInv
<1>1. stage \in Stages /\ stage # "execution" /\ "execution" \in Stages
      /\ PairStages \subseteq Stages /\ RowStages \subseteq PairStages
      /\ "execution" \notin After(stage)
  BY StageNames DEF RowStages, After
<1>2. held'["execution"] = held["execution"]
  BY <1>1, Held
<1>3. \A s \in PairStages \ {stage} : held'[s] = held[s] \/ held'[s] = None
  BY <1>1, Held
<1>4. EvidenceTyped'
  <2>1. held' = [s \in Stages |-> held'[s]]
    BY <1>1, Held
  <2> QED
    BY <1>2, <2>1, RunsKept, RowsKept, UntouchedKept DEF EvidenceTyped, Onward
<1>5. ExecutionTraced' /\ ExecutionHonest'
  BY <1>2, ExecutionKept
<1>6. \A s \in PairStages : PairTraced(s)'
  BY <1>3, PairKept
<1>7. \A s \in RowStages : RowTraced(s)'
  BY <1>1, <1>3, RowKept
<1>8. LedgerSound' /\ AuditsTrue'
  BY BooksKept
<1> QED
  BY <1>4, <1>5, <1>6, <1>7, <1>8

(* A new result of P9O.                                                    *)
LEMMA ExecutionHeld ==
  ASSUME EvidenceIInv, Onward, UNCHANGED <<altered, audits>>,
         NEW status \in {"EXECUTED", "NOT_EXECUTED", "DENIED"}, NEW reason \in Reasons,
         NEW note \in Notes, NEW run \in 0..Len(performed)',
         Hold("execution", Result(decision, status, reason, note, run)),
         status = "EXECUTED" => DoneBy(run)',
         reason = "EXECUTION_FAILED" => ~DoneBy(run)',
         reason # None => status = "NOT_EXECUTED",
         note = Said(run)'
  PROVE  EvidenceIInv'
<1> USE DEF EvidenceIInv
<1>1. "execution" \in Stages 
      /\ \A s \in PairStages : s \in Stages \ {"execution"} /\ s \in After("execution")
  BY StageNames DEF After
<1>2. \A s \in PairStages : held'[s] = None
  BY <1>1, Held
<1>3. PICK x : x = Result(decision, status, reason, note, run)
  OBVIOUS
<1>4. held'["execution"] = x
  BY <1>1, <1>3, Held
<1>5. run \in 0..MaxRuns
  BY RunsKept, BoundsAssumption
<1>6. x \in FactsOf(ExecutionFields \union {"flag", "reason", "note"})
  BY <1>3, <1>5, ResultTyped DEF EvidenceTyped
<1>7. EvidenceTyped'
  <2>1. held' = [s \in Stages |-> held'[s]]
    BY <1>1, Held
  <2> QED
    BY <1>4, <1>6, <2>1, RunsKept, RowsKept, UntouchedKept DEF EvidenceTyped, Onward
<1>8. /\ x.run = run /\ x.meta = run /\ x.note = note
      /\ x.response = decision.response /\ x.status = status
      /\ x.ctx = decision.ctx /\ x.diag = decision.diag /\ x.reason = reason
      /\ x.idle = (decision.response = "NO_ACTION") /\ x.executed = (status = "EXECUTED")
      /\ x.flag = IF status = "EXECUTED" THEN FlagOf(decision.response) ELSE None
  BY <1>3 DEF Result
<1>9. decision' = decision
  BY DEF Onward
<1>10. /\ DoneBy(held["execution"].run)' <=> DoneBy(run)'
       /\ Said(held["execution"].run)' = Said(run)'
  BY <1>4, <1>8
<1>11. ExecutionTraced'
  BY <1>4, <1>8, <1>9, <1>10 DEF ExecutionTraced
<1>12. ExecutionHonest'
  BY <1>4, <1>8, <1>9, <1>10 DEF ExecutionHonest
<1>13. \A s \in PairStages : PairTraced(s)' /\ RowTraced(s)'
  BY <1>2 DEF PairTraced, RowTraced, Stands
<1>14. LedgerSound' /\ AuditsTrue'
  BY BooksKept
<1>15. Derived'
  BY <1>2, StageNames DEF Derived
<1> QED
  BY <1>7, <1>11, <1>12, <1>13, <1>14, <1>15, StageNames DEF RowStages
(* A step that neither runs, writes nor alters.                            *)
LEMMA StillOnward ==
  ASSUME UNCHANGED <<decision, performed, ledger, altered>>
  PROVE  Onward
BY DEF Onward

(* The reasons of P9O, and no reason.                                      *)
LEMMA ReasonNames ==
  /\ {None, "EXECUTOR_NOT_AVAILABLE", "RESULT_INCOHERENT", "EXECUTION_FAILED"} = Reasons
  /\ None \notin {"EXECUTOR_NOT_AVAILABLE", "RESULT_INCOHERENT", "EXECUTION_FAILED"}
  /\ None \in Notes
BY AbsentAssumption DEF Reasons, Notes

(* P9O denies a response ...                                               *)
LEMMA DenyKeepsIInv ==
  ASSUME EvidenceIInv, NEW allowed \in Gates, DenyResponse(allowed)
  PROVE  EvidenceIInv'
<1>1. Hold("execution", Result(decision, "DENIED", None, None, 0))
  BY DEF DenyResponse, DeniedExecution
<1>2. UNCHANGED <<decision, performed, ledger, altered, audits>>
  BY DEF DenyResponse
<1>3. 0 \in 0..Len(performed)' /\ None = Said(0)'
  BY <1>2 DEF EvidenceIInv, EvidenceTyped, Said
<1> QED
  BY <1>1, <1>2, <1>3, StillOnward, ExecutionHeld, ReasonNames

(* ... or has none to execute ...                                          *)
LEMMA NoActionKeepsIInv ==
  ASSUME EvidenceIInv, ExecuteNoAction
  PROVE  EvidenceIInv'
<1>1. Hold("execution", Result(decision, "EXECUTED", None, None, 0))
  BY DEF ExecuteNoAction, Executed
<1>2. UNCHANGED <<decision, performed, ledger, altered, audits>> /\ decision.response = "NO_ACTION"
  BY DEF ExecuteNoAction
<1>3. 0 \in 0..Len(performed)' /\ DoneBy(0)' /\ None = Said(0)'
  BY <1>2 DEF EvidenceIInv, EvidenceTyped, DoneBy, Said
<1> QED
  BY <1>1, <1>2, <1>3, StillOnward, ExecutionHeld, ReasonNames

(* ... or finds no executor ...                                            *)
LEMMA NoExecutorKeepsIInv ==
  ASSUME EvidenceIInv, FindNoExecutor
  PROVE  EvidenceIInv'
<1>1. Hold("execution", Result(decision, "NOT_EXECUTED", "EXECUTOR_NOT_AVAILABLE", None, 0))
  BY DEF FindNoExecutor, NotExecuted
<1>2. UNCHANGED <<decision, performed, ledger, altered, audits>>
  BY DEF FindNoExecutor
<1>3. 0 \in 0..Len(performed)' /\ None = Said(0)'
  BY <1>2 DEF EvidenceIInv, EvidenceTyped, Said
<1> QED
  BY <1>1, <1>2, <1>3, StillOnward, ExecutionHeld, ReasonNames

(* The executor's run is the last one.                                     *)
LEMMA ExecutorCalled ==
  ASSUME EvidenceIInv, NEW reply \in Invocation,
         CallExecutor(reply), UNCHANGED <<decision, ledger, altered>>
  PROVE  /\ Onward
         /\ decision.response # "NO_ACTION"
         /\ \A run : run = Len(performed) + 1 =>
              /\ run \in 0..Len(performed)'
              /\ DoneBy(run)' <=> reply.ok /\ reply.response = decision.response
              /\ Said(run)' = reply.note
<1>1. /\ performed' = Append(performed, reply) /\ Len(performed) < MaxRuns
      /\ performed \in Seq(Invocation)
      /\ decision.response # "NO_ACTION"
  BY DEF CallExecutor, EvidenceIInv, EvidenceTyped
<1>2. Onward
  <2>1. /\ decision' = decision /\ altered' = altered /\ ledger' = ledger
        /\ \E x \in Invocation : performed' = Append(performed, x)
    BY <1>1
  <2> QED
    BY <1>1, <2>1 DEF Onward
<1>4. PICK n \in Nat : n = Len(performed) + 1
  BY <1>1
<1>5. Len(performed') = n /\ performed'[n] = reply /\ n \in DOMAIN performed' /\ n # 0
  BY <1>1, <1>4
<1>6. PerformedOk(n)' <=> reply.ok /\ reply.response = decision.response
  BY <1>2, <1>5 DEF PerformedOk, Onward
<1>7. DoneBy(n)' <=> reply.ok /\ reply.response = decision.response
  BY <1>1, <1>2, <1>6 DEF DoneBy, Onward
<1>8. Said(n)' = reply.note
  BY <1>5 DEF Said
<1> QED
  BY <1>1, <1>2, <1>4, <1>5, <1>7, <1>8

(* ... or makes a result of what the executor replies ...                  *)
LEMMA ExecuteKeepsIInv ==
  ASSUME EvidenceIInv, NEW reply \in Replies, ExecuteResponse(reply)
  PROVE  EvidenceIInv'
<1>1. PICK run : run = Len(performed) + 1
  OBVIOUS
<1>2. /\ reply \in Invocation /\ reply.note \in Notes
      /\ CallExecutor(reply) /\ UNCHANGED <<decision, ledger, altered, audits>>
      /\ Hold("execution", Reported(decision, reply, run))
  BY <1>1 DEF Replies, Responses, ExecuteResponse, Invocation
<1>3. /\ Onward /\ run \in 0..Len(performed)' /\ decision.response # "NO_ACTION"
      /\ DoneBy(run)' <=> reply.ok /\ reply.response = decision.response
      /\ reply.note = Said(run)'
  BY <1>1, <1>2, ExecutorCalled
<1>4. CASE reply.response # decision.response
  <2>1. Hold("execution", Result(decision, "NOT_EXECUTED", "RESULT_INCOHERENT", reply.note, run))
    BY <1>2, <1>4 DEF Reported, NotExecuted
  <2> QED
    BY <1>2, <1>3, <2>1, ExecutionHeld, ReasonNames
<1>5. CASE reply.response = decision.response /\ ~reply.ok
  <2>1. Hold("execution", Result(decision, "NOT_EXECUTED", "EXECUTION_FAILED", reply.note, run))
    BY <1>2, <1>5 DEF Reported, NotExecuted
  <2> QED
    BY <1>2, <1>3, <1>5, <2>1, ExecutionHeld, ReasonNames
<1>6. CASE reply.response = decision.response /\ reply.ok
  <2>1. Hold("execution", Result(decision, "EXECUTED", None, reply.note, run))
    BY <1>2, <1>6 DEF Reported, Executed
  <2> QED
    BY <1>2, <1>3, <1>6, <2>1, ExecutionHeld, ReasonNames
<1> QED
  BY <1>4, <1>5, <1>6

(* Steps that hold nothing new.                                            *)
LEMMA NothingHeld ==
  ASSUME EvidenceIInv, Onward, UNCHANGED <<held, altered, audits, ledger>>
  PROVE  EvidenceIInv'
<1> USE DEF EvidenceIInv
<1>1. EvidenceTyped'
  BY RunsKept, RowsKept, UntouchedKept DEF EvidenceTyped, Onward
<1>2. ExecutionTraced' /\ ExecutionHonest'
  BY ExecutionKept
<1>3. \A s \in PairStages : PairTraced(s)'
  BY PairKept
<1>4. \A s \in RowStages : RowTraced(s)'
  BY RowKept
<1>5. LedgerSound' /\ AuditsTrue'
  BY BooksKept
<1>6. Derived'
  BY DEF Derived
<1> QED
  BY <1>1, <1>2, <1>3, <1>4, <1>5, <1>6

(* ... or lets through what the executor throws.                           *)
LEMMA ThrowKeepsIInv ==
  ASSUME EvidenceIInv, ExecutorThrows
  PROVE  EvidenceIInv'
<1>0. PICK reply : reply = [response |-> decision.response, ok |-> FALSE, note |-> None]
  OBVIOUS
<1>1. /\ reply \in Invocation /\ CallExecutor(reply)
      /\ UNCHANGED <<decision, ledger, altered, held, audits>>
  BY <1>0, ReasonNames DEF ExecutorThrows, EvidenceIInv, EvidenceTyped, Invocation
<1>2. Onward
  BY <1>1, ExecutorCalled
<1> QED
  BY <1>1, <1>2, NothingHeld
----------------------------------------------------------------------------
(* P9P.                                                                    *)

(* The fields of P9O's result have their ranges.                           *)
LEMMA ExecutionFacts ==
  ASSUME NEW x \in FactsOf(ExecutionFields \union {"flag", "reason", "note"})
  PROVE  /\ x.run \in 0..MaxRuns /\ x.meta \in 0..MaxRuns
         /\ x.ctx \in Contexts /\ x.diag \in Diagnoses
         /\ x.response \in Responses /\ x.status \in {"EXECUTED", "NOT_EXECUTED", "DENIED"}
         /\ x.executed \in BOOLEAN /\ x.idle \in BOOLEAN
         /\ x.note \in Notes /\ x.flag \in Responses \union {None} /\ x.reason \in Reasons
<1>1. \A f \in ExecutionFields \union {"flag", "reason", "note"} : x[f] \in FieldValues[f]
  BY DEF FactsOf
<1> QED
  BY <1>1, FieldNames, FieldSets

(* What is certified is typed, and says what P9O's result said.            *)
LEMMA Certificate ==
  ASSUME NEW x \in FactsOf(ExecutionFields \union {"flag", "reason", "note"}), Certifiable(x)
  PROVE  LET r == buildCertifiedResult(x)
         IN  /\ r.status = "CERTIFIED" /\ {"status", "top", "inner"} \subseteq DOMAIN r
             /\ r.top \in FactsOf(CertifiedFields) /\ r.inner \in FactsOf(MaterialFields)
             /\ \A f \in ExecutionFields : r.top[f] = x[f] /\ r.inner[f] = x[f]
             /\ r.top.outcome = certifiedOutcomeForExecution(x)
             /\ r.inner.outcome = certifiedOutcomeForExecution(x)
             /\ r.inner.contained = failedOutcomeCertifiable(x)
             /\ r.inner.note = x.note
<1> DEFINE t == executionContext(x)
           i == buildExecutionEvidence(x)
           o == certifiedOutcomeForExecution(x)
           c == failedOutcomeCertifiable(x)
<1>0. \A f \in ExecutionFields \union {"flag", "reason", "note"} : x[f] \in FieldValues[f]
  BY DEF FactsOf
<1>1. o \in Outcomes
  <2>1. x.response \in Responses /\ x.executed \in BOOLEAN
        /\ o = [of |-> x.response, completed |-> (x.status = "EXECUTED" /\ x.executed)]
    BY ExecutionFacts DEF certifiedOutcomeForExecution
  <2>2. x.response = "NO_ACTION" => x.status = "EXECUTED" /\ x.executed
    BY DEF Certifiable, failedOutcomeCertifiable, executionStateCoherent
  <2>3. o.completed = (x.status = "EXECUTED" /\ x.executed) /\ o.of = x.response
    BY <2>1
  <2>4. o \in [of : Responses, completed : BOOLEAN]
    BY <2>1
  <2> HIDE DEF o
  <2>5. ASSUME o = [of |-> "NO_ACTION", completed |-> FALSE] PROVE FALSE
    <3>1. o.of = "NO_ACTION" /\ o.completed = FALSE
      BY <2>5
    <3> QED
      BY <2>2, <2>3, <3>1
  <2> QED
    BY <2>4, <2>5 DEF Outcomes
<1>2. c \in BOOLEAN
  BY DEF failedOutcomeCertifiable
<1>3. /\ t = [f \in CertifiedFields |-> t[f]] /\ t.outcome = o
      /\ \A f \in ExecutionFields : t[f] = x[f]
  BY FieldNames DEF executionContext
<1> HIDE DEF t, o, c
<1>4. /\ i = [f \in MaterialFields |-> i[f]] /\ i.contained = c /\ i.note = x.note
      /\ i.outcome = o /\ \A f \in ExecutionFields : i[f] = x[f]
  <2>1. i = [f \in MaterialFields |-> CASE f = "contained" -> c
                                      [] f = "note" -> x.note
                                      [] OTHER -> t[f]]
    BY DEF buildExecutionEvidence, t, c
  <2> HIDE DEF i
  <2>2. \A f \in MaterialFields : f # "contained" /\ f # "note" => i[f] = t[f]
    BY <2>1
  <2>3. i.contained = c /\ i.note = x.note
    BY <2>1, FieldNames
  <2>4. i = [f \in MaterialFields |-> i[f]]
    BY <2>1
  <2>5. \A f \in ExecutionFields \union {"outcome"} : 
          f \in MaterialFields /\ f # "contained" /\ f # "note"
    BY FieldNames
  <2> QED
    BY <1>3, <2>2, <2>3, <2>4, <2>5
<1> HIDE DEF i
<1>5. \A f \in CertifiedFields : t[f] \in FieldValues[f]
  BY <1>0, <1>1, <1>3, FieldNames, FieldSets
<1>6. \A f \in MaterialFields : i[f] \in FieldValues[f]
  <2>1. i.contained \in BOOLEAN /\ i.note \in Notes /\ i.outcome \in Outcomes
    BY <1>1, <1>2, <1>4, ExecutionFacts
  <2>2. \A f \in ExecutionFields : i[f] \in FieldValues[f]
    BY <1>0, <1>4
  <2> QED
    BY <2>1, <2>2, FieldNames, FieldSets
<1>7. t \in FactsOf(CertifiedFields) /\ i \in FactsOf(MaterialFields)
  BY <1>3, <1>4, <1>5, <1>6, FieldNames, FactsBuilt
<1>8. buildCertifiedResult(x) = [status |-> "CERTIFIED", top |-> t, inner |-> i]
  BY DEF buildCertifiedResult, t, i
<1> QED
  BY <1>3, <1>4, <1>7, <1>8 DEF o, c
(* What is certified is sound, whatever was altered ...                    *)
LEMMA CertifiedSound ==
  ASSUME EvidenceIInv, held["execution"] # None, Certifiable(held["execution"])
  PROVE  LET x == held["execution"]
             o == certifiedOutcomeForExecution(x)
         IN  o.completed /\ o.of # "NO_ACTION" =>
               o.of = decision.response /\ PerformedOk(x.run)
<1> DEFINE x == held["execution"]
           o == certifiedOutcomeForExecution(x)
<1>1. o.of = x.response /\ o.completed = (x.status = "EXECUTED" /\ x.executed)
  BY DEF certifiedOutcomeForExecution
<1>2. /\ Untouched("execution", "top", "response") => x.response = decision.response
      /\ Untouched("execution", "top", "flag") => x.flag \in {None, FlagOf(decision.response)}
      /\ Untouched("execution", "top", "status") /\ x.status = "EXECUTED" => DoneBy(x.run)
      /\ Untouched("execution", "top", "executed") /\ x.executed => DoneBy(x.run)
  BY DEF EvidenceIInv, ExecutionTraced
<1>3. ASSUME NEW f, NEW g, f # g
      PROVE  Untouched("execution", "top", f) \/ Untouched("execution", "top", g)
  BY <1>3, AlterationsTell DEF Untouched
<1>4. x.response \in Responses /\ decision.response \in Responses /\ None \notin Responses
  BY ExecutionFacts, NoneAssumption DEF EvidenceIInv, EvidenceTyped
<1> HIDE DEF o
<1>5. SUFFICES ASSUME o.completed, o.of # "NO_ACTION"
               PROVE  o.of = decision.response /\ PerformedOk(x.run)
  BY DEF o
<1>6. x.status = "EXECUTED" /\ x.executed /\ x.response # "NO_ACTION"
  BY <1>1, <1>5
<1>7. x.flag = FlagOf(x.response)
  BY <1>6 DEF Certifiable, executionStateCoherent
<1>8. DoneBy(x.run)
  <2>1. \/ Untouched("execution", "top", "status")
        \/ Untouched("execution", "top", "executed")
    BY <1>3
  <2> QED
    BY <1>2, <1>6, <2>1
<1>9. x.response = decision.response
  <2>1. CASE Untouched("execution", "top", "response")
    BY <1>2, <2>1
  <2>2. CASE Untouched("execution", "top", "flag")
    BY <1>2, <1>4, <1>6, <1>7, <2>2 DEF FlagOf
  <2>3. "response" # "flag"
    OBVIOUS
  <2> QED
    BY <1>3, <2>1, <2>2, <2>3
<1> QED
  BY <1>1, <1>6, <1>8, <1>9 DEF DoneBy

(* ... and true of an execution result that was not.                       *)
LEMMA CertifiedTrue ==
  ASSUME EvidenceIInv, held["execution"] # None, Certifiable(held["execution"]),
         ~AlteredAt("execution")
  PROVE  LET x == held["execution"]
             t == Truth(x.run)
         IN  /\ \A f \in ExecutionFields : x[f] = t[f]
             /\ certifiedOutcomeForExecution(x) = t.outcome
             /\ failedOutcomeCertifiable(x) = t.contained
             /\ x.note = t.note
<1>1. PICK x : x = held["execution"]
  OBVIOUS
<1>2. PICK t : t = Truth(x.run)
  OBVIOUS
<1>3. PICK done \in BOOLEAN : done = DoneBy(x.run)
  BY DEF DoneBy
<1>4. /\ t.run = x.run /\ t.meta = x.run /\ t.note = Said(x.run)
      /\ t.ctx = decision.ctx /\ t.diag = decision.diag
      /\ t.response = decision.response /\ t.status = IF done THEN "EXECUTED" ELSE "NOT_EXECUTED"
      /\ t.executed = done /\ t.idle = (decision.response = "NO_ACTION")
      /\ t.outcome = [of |-> decision.response, completed |-> done] /\ t.contained = ~done
  BY <1>2, <1>3 DEF Truth, DoneBy, Said
<1>5. /\ x.ctx = decision.ctx /\ x.diag = decision.diag
      /\ x.idle = (decision.response = "NO_ACTION")
      /\ x.executed = (x.status = "EXECUTED")
      /\ x.reason # None => x.status = "NOT_EXECUTED"
      /\ x.reason = "EXECUTION_FAILED" => ~done
      /\ x.meta = x.run /\ x.note = Said(x.run)
  BY <1>1, <1>3 DEF EvidenceIInv, ExecutionHonest
<1>6. Untouched("execution", "top", "response") /\ Untouched("execution", "top", "status")
  <2>1. altered = None \/ altered.stage # "execution"
    BY DEF AlteredAt
  <2>2. \A f : Altered("execution", "top", f).stage = "execution"
    BY DEF Altered
  <2> QED
    BY <2>1, <2>2, AlterationAssumption, FieldNames, StageNames DEF Untouched
<1>7. x.response = decision.response /\ (x.status = "EXECUTED" => done)
  BY <1>1, <1>3, <1>6 DEF EvidenceIInv, ExecutionTraced
<1>8. x.status = "EXECUTED" \/ failedOutcomeCertifiable(x)
  BY <1>1 DEF Certifiable
<1>9. (x.status = "EXECUTED") = done /\ failedOutcomeCertifiable(x) = ~done
  BY <1>5, <1>7, <1>8 DEF failedOutcomeCertifiable
<1>10. x.status = IF done THEN "EXECUTED" ELSE "NOT_EXECUTED"
  BY <1>8, <1>9 DEF failedOutcomeCertifiable
<1>11. certifiedOutcomeForExecution(x) = t.outcome
  BY <1>4, <1>5, <1>7, <1>9 DEF certifiedOutcomeForExecution
<1>12. \A f \in ExecutionFields : x[f] = t[f]
  <2>1. x.executed = t.executed /\ x.idle = t.idle
    BY <1>4, <1>5, <1>9
  <2> QED
    BY <1>4, <1>5, <1>7, <1>10, <2>1, FieldNames
<1>13. failedOutcomeCertifiable(x) = t.contained
  BY <1>4, <1>9
<1> HIDE DEF Truth
<1> QED
  BY <1>1, <1>2, <1>4, <1>5, <1>11, <1>12, <1>13
(* A result that is sound in both its parts, and true unless something     *)
(* unseen was altered.                                                     *)
LEMMA FreshPair ==
  ASSUME EvidenceIInv, Onward, UNCHANGED altered, NEW stage \in PairStages, NEW r,
         held'[stage] = r, {"status", "top", "inner"} \subseteq DOMAIN r,
         r.top \in FactsOf(TopFields(stage)), r.inner \in FactsOf(MaterialFields),
         r.top.run = r.inner.run, r.top.run \in 0..Len(performed),
         Sound(r.top), Sound(r.inner),
         ~Unseen => \A part \in {"top", "inner"} : \A f \in TracedFields(stage, part) :
           Told(f) => r[part][f] = Truth(r.top.run)[f]
  PROVE  PairTraced(stage)'
<1>1. EvidenceTyped
  BY DEF EvidenceIInv
<1>2. PairShape(stage)'
  BY DEF PairShape
<1>3. Unseen' <=> Unseen
  BY DEF Unseen
<1>4. Truth(r.top.run)' = Truth(r.top.run) /\ r.top.run \in 0..Len(performed)'
  BY <1>1, TruthKept, RunsKept
<1>5. ASSUME NEW part \in {"top", "inner"}
      PROVE  PartTraced(stage, part)'
  <2>1. PICK p : p = r[part]
    OBVIOUS
  <2>2. p = held'[stage][part] /\ p.run = r.top.run /\ Sound(p)
    BY <2>1
  <2>3. Sound(p)'
    BY <1>1, <2>2, SoundKept DEF Sound
  <2>4. Sound(held[stage][part])' <=> Sound(p)'
    BY <2>2 DEF Sound
  <2>5. Truth(held[stage][part].run)' = Truth(r.top.run)'
    BY <2>2
  <2>6. ~Unseen' => \A f \in TracedFields(stage, part) :
          Kept(stage, part, f)' => p[f] = Truth(r.top.run)'[f]
    <3>1. \A f : Kept(stage, part, f)' => Told(f)
      BY DEF Kept, Told, FieldIntact
    <3> QED
      BY <1>3, <1>4, <2>1, <3>1
  <2> QED
    BY <1>4, <2>2, <2>3, <2>4, <2>5, <2>6 DEF PartTraced, TracedFields
<1> QED
  BY <1>2, <1>5 DEF PairTraced

(* P9P certifies the result or refuses it.                                 *)
LEMMA CertifyKeepsIInv ==
  ASSUME EvidenceIInv, NEW allowed \in Gates, Certify(allowed)
  PROVE  EvidenceIInv'
<1> USE DEF EvidenceIInv
<1>1. PICK x : x = held["execution"]
  OBVIOUS
<1>2. PICK r : r = certifyProviderRuntimeExecutionOutcome(x, allowed)
  OBVIOUS
<1>3. /\ x # None /\ Hold("certification", r)
      /\ UNCHANGED <<decision, performed, ledger, audits, altered>>
  BY <1>1, <1>2 DEF Certify
<1>4. /\ "certification" \in Stages /\ "certification" \in PairStages
      /\ "certification" \notin RowStages
      /\ held'["certification"] = r /\ held'["execution"] = x
      /\ \A s \in {"admission", "write", "auditAdmission"} : held'[s] = None
  BY <1>1, <1>3, Held, StageNames DEF After, RowStages
<1>5. Onward
  BY <1>3, StillOnward
<1>6. PairTraced("certification")'
  <2>1. CASE ~Certifiable(x) \/ ~allowed \/ x.status = "DENIED"
    <3>1. r.status \in {"DENIED", "NOT_CERTIFIED"}
      BY <1>2, <2>1 DEF certifyProviderRuntimeExecutionOutcome, Refusal
    <3> QED
      BY <1>4, <3>1 DEF PairTraced, Stands, Standing
  <2>2. CASE Certifiable(x) /\ allowed /\ x.status # "DENIED"
    <3>1. r = buildCertifiedResult(x)
      BY <1>2, <2>2 DEF certifyProviderRuntimeExecutionOutcome
    <3>2. x \in FactsOf(ExecutionFields \union {"flag", "reason", "note"})
      BY <1>1, <1>3 DEF EvidenceTyped
    <3>3. /\ r.status = "CERTIFIED" /\ {"status", "top", "inner"} \subseteq DOMAIN r
          /\ r.top \in FactsOf(CertifiedFields) /\ r.inner \in FactsOf(MaterialFields)
          /\ \A f \in ExecutionFields : r.top[f] = x[f] /\ r.inner[f] = x[f]
          /\ r.top.outcome = certifiedOutcomeForExecution(x)
          /\ r.inner.outcome = certifiedOutcomeForExecution(x) /\ r.inner.note = x.note
      BY <2>2, <3>1, <3>2, Certificate
    <3>4. r.top.run = x.run /\ r.inner.run = x.run /\ x.run \in 0..Len(performed)
      BY <1>1, <1>3, <3>3, FieldNames DEF ExecutionTraced
    <3>5. Sound(r.top) /\ Sound(r.inner)
      BY <1>1, <1>3, <2>2, <3>3, <3>4, CertifiedSound DEF Sound
    <3>6. ASSUME ~Unseen, NEW part \in {"top", "inner"},
                 NEW f \in TracedFields("certification", part)
          PROVE  r[part][f] = Truth(x.run)[f]
      <4>1. ~AlteredAt("execution")
        BY <3>6 DEF AlteredAt, Unseen
      <4>2. /\ \A g \in ExecutionFields : x[g] = Truth(x.run)[g]
            /\ certifiedOutcomeForExecution(x) = Truth(x.run).outcome
            /\ x.note = Truth(x.run).note
        BY <1>1, <1>3, <2>2, <4>1, CertifiedTrue
      <4>3. f \in ExecutionFields \/ f = "outcome" \/ (part = "inner" /\ f = "note")
        BY FieldNames DEF TracedFields
      <4> QED
        BY <3>3, <4>2, <4>3
    <3> QED
      BY <1>3, <1>4, <1>5, <3>3, <3>4, <3>5, <3>6, FreshPair DEF TopFields
  <2> QED
    BY <2>1, <2>2
<1>7. Derived'
  BY <1>2, <1>3, <1>4 DEF Derived
<1> QED
  BY <1>3, <1>4, <1>5, <1>6, <1>7, StageHeld
----------------------------------------------------------------------------
(* P9Q.                                                                    *)

(* Of two fields that agree one is as it was.                              *)
LEMMA OneUntouched ==
  ASSUME NEW stage, NEW f
  PROVE  Untouched(stage, "top", f) \/ Untouched(stage, "inner", f)
<1>1. "top" # "inner"
  OBVIOUS
<1> QED
  BY <1>1, AlterationsTell DEF Untouched

(* Where the two parts of a result agree on its outcome both are sound ... *)
LEMMA AgreedSound ==
  ASSUME NEW stage \in PairStages, PairTraced(stage), Stands(stage),
         held[stage].top.outcome = held[stage].inner.outcome
  PROVE  Sound(held[stage].top) /\ Sound(held[stage].inner)
<1>1. /\ held[stage].top.run = held[stage].inner.run
      /\ Untouched(stage, "top", "outcome") => Sound(held[stage].top)
      /\ Untouched(stage, "inner", "outcome") => Sound(held[stage].inner)
  BY DEF PairTraced, PartTraced
<1>2. Sound(held[stage].top) \/ Sound(held[stage].inner)
  BY <1>1, OneUntouched
<1> QED
  BY <1>1, <1>2 DEF Sound

(* ... and where they agree on a field both are true of it.                *)
LEMMA AgreedTrue ==
  ASSUME NEW stage \in PairStages, PairTraced(stage), Stands(stage), ~Unseen,
         NEW f \in TracedFields(stage, "top"), f \notin Uncompared,
         held[stage].top[f] = held[stage].inner[f]
  PROVE  /\ held[stage].top[f] = Truth(held[stage].top.run)[f]
         /\ held[stage].inner[f] = Truth(held[stage].top.run)[f]
<1>1. /\ held[stage].top.run = held[stage].inner.run
      /\ Untouched(stage, "top", f) => held[stage].top[f] = Truth(held[stage].top.run)[f]
      /\ Untouched(stage, "inner", f) => held[stage].inner[f] = Truth(held[stage].inner.run)[f]
  BY DEF PairTraced, PartTraced, Kept, TracedFields
<1> QED
  BY <1>1, OneUntouched

(* ... and each is true of what no stage compares, if none was altered.    *)
LEMMA UncomparedTrue ==
  ASSUME NEW stage \in PairStages, PairTraced(stage), Stands(stage), ~Unseen,
         NEW part \in {"top", "inner"}, NEW f \in TracedFields(stage, part),
         f \in Uncompared, Told(f)
  PROVE  held[stage][part][f] = Truth(held[stage].top.run)[f]
<1>1. held[stage].top.run = held[stage].inner.run /\ PartTraced(stage, part)
  BY DEF PairTraced
<1>2. Kept(stage, part, f)
  BY DEF Kept, Told
<1>3. held[stage][part].run = held[stage].top.run
  BY <1>1
<1> QED
  BY <1>1, <1>2, <1>3 DEF PartTraced

(* The admission's material is typed, and made of what the certificate     *)
(* shows and of its evidence.                                              *)
LEMMA Material ==
  ASSUME NEW c, c.top \in FactsOf(CertifiedFields), c.inner \in FactsOf(MaterialFields)
  PROVE  LET m == buildLedgerAdmissionMaterial(c)
             t == AdmissionContext(c)
         IN  /\ m \in FactsOf(MaterialFields) /\ t \in FactsOf(RecordedFields)
             /\ \A f \in RecordedFields : t[f] = m[f]
             /\ \A f \in CertifiedFields : m[f] = c.top[f]
             /\ m.contained = c.inner.contained /\ m.note = c.inner.note
<1> DEFINE m == buildLedgerAdmissionMaterial(c)
           t == AdmissionContext(c)
<1>1. m = [f \in MaterialFields |-> IF f \in CertifiedFields THEN c.top[f] ELSE c.inner[f]]
  BY DEF buildLedgerAdmissionMaterial
<1>2. t = [f \in RecordedFields |-> m[f]]
  BY DEF AdmissionContext, Restrict
<1> HIDE DEF m, t
<1>3. /\ \A f \in CertifiedFields : c.top[f] \in FieldValues[f]
      /\ \A f \in MaterialFields : c.inner[f] \in FieldValues[f]
  BY DEF FactsOf
<1>4. m = [f \in MaterialFields |-> m[f]] /\ t = [f \in RecordedFields |-> t[f]]
  BY <1>1, <1>2
<1>5. \A f \in MaterialFields : m[f] = IF f \in CertifiedFields THEN c.top[f] ELSE c.inner[f]
  BY <1>1
<1>6. \A f \in MaterialFields : m[f] \in FieldValues[f]
  BY <1>3, <1>5
<1>7. \A f \in RecordedFields : t[f] = m[f] /\ f \in MaterialFields
  BY <1>2, FieldNames
<1>8. m \in FactsOf(MaterialFields)
  BY <1>4, <1>6, FieldNames, FactsBuilt
<1>9. t \in FactsOf(RecordedFields)
  <2>1. /\ RecordedFields \subseteq DOMAIN FieldValues
        /\ \A f \in RecordedFields : t[f] \in FieldValues[f]
    BY <1>6, <1>7, FieldNames
  <2> QED
    BY <1>4, <2>1, FactsBuilt
<1>10. /\ \A f \in CertifiedFields : m[f] = c.top[f]
       /\ m.contained = c.inner.contained /\ m.note = c.inner.note
  BY <1>5, FieldNames
<1> QED
  BY <1>7, <1>8, <1>9, <1>10 DEF m, t

(* P9Q admits the evidence or refuses it.                                  *)
LEMMA AdmitKeepsIInv ==
  ASSUME EvidenceIInv, NEW allowed \in Gates, Admit(allowed)
  PROVE  EvidenceIInv'
<1> USE DEF EvidenceIInv
<1>1. PICK c : c = held["certification"]
  OBVIOUS
<1>2. PICK r : r = admitProviderRuntimeEvidenceToLedger(c, allowed)
  OBVIOUS
<1>3. /\ c # None /\ Hold("admission", r)
      /\ UNCHANGED <<decision, performed, ledger, audits, altered>>
  BY <1>1, <1>2 DEF Admit
<1>4. /\ "certification" \in PairStages /\ "admission" \in Stages /\ "admission" \in PairStages
      /\ "admission" \notin RowStages
      /\ held'["admission"] = r /\ held'["certification"] = c
      /\ held'["execution"] = held["execution"]
      /\ \A s \in {"write", "auditAdmission"} : held'[s] = None
  BY <1>1, <1>3, Held, StageNames DEF After, RowStages
<1>5. Onward
  BY <1>3, StillOnward
<1>6. PairTraced("admission")'
  <2>1. CASE ~allowed \/ c.status = "DENIED" \/ c.status # "CERTIFIED" \/ ~EvidenceCoherent(c)
    <3>1. r.status \in {"DENIED", "NOT_ADMITTED"}
      BY <1>2, <2>1 DEF admitProviderRuntimeEvidenceToLedger, EvidenceRefused, Refusal
    <3> QED
      BY <1>4, <3>1 DEF PairTraced, Stands, Standing
  <2>2. CASE allowed /\ c.status = "CERTIFIED" /\ EvidenceCoherent(c)
    <3>1. PICK m, t : m = buildLedgerAdmissionMaterial(c) /\ t = AdmissionContext(c)
      OBVIOUS
    <3>2. r = [status |-> "ADMITTED", top |-> t, inner |-> m]
      BY <1>2, <2>2, <3>1 DEF admitProviderRuntimeEvidenceToLedger
    <3>3. Stands("certification") /\ PairTraced("certification")
      BY <1>1, <1>3, <1>4, <2>2 DEF Stands, Standing
    <3>4. /\ c.top \in FactsOf(CertifiedFields) /\ c.inner \in FactsOf(MaterialFields)
          /\ c.top.run \in 0..Len(performed)
      BY <1>1, <3>3 DEF PairTraced, PairShape, TopFields, PartTraced
    <3>5. /\ m \in FactsOf(MaterialFields) /\ t \in FactsOf(RecordedFields)
          /\ \A f \in RecordedFields : t[f] = m[f]
          /\ \A f \in CertifiedFields : m[f] = c.top[f]
          /\ m.note = c.inner.note
      BY <3>1, <3>4, Material
    <3>6. \A f \in {"ctx", "response", "outcome", "status", "executed", "idle"} :
            c.top[f] = c.inner[f]
      BY <2>2 DEF EvidenceCoherent, evidenceContextIsCoherent, evidenceResponseIsCoherent,
                  evidenceExecutionStateIsCoherent, Agree
    <3>7. /\ m.run = c.top.run /\ t.run = c.top.run
          /\ m.outcome = c.top.outcome /\ t.outcome = c.top.outcome
      BY <3>5, FieldNames
    <3>8. Sound(m) /\ Sound(t)
      <4>1. Sound(c.top)
        BY <1>1, <1>4, <3>3, <3>6, AgreedSound
      <4> QED
        BY <3>7, <4>1 DEF Sound
    <3>9. ASSUME ~Unseen, NEW f \in CertifiedFields \ {"run"}, Told(f)
          PROVE  c.top[f] = Truth(c.top.run)[f]
      <4>1. CASE f = "diag"
        <5>1. Untouched("certification", "top", "diag")
          <6> SUFFICES ASSUME altered = Altered("certification", "top", "diag") PROVE FALSE
            BY DEF Untouched
          <6>1. altered # None
            BY AlterationAssumption, FieldNames, StageNames
          <6> QED
            BY <3>9, <6>1 DEF Unseen, Altered
        <5> QED
          BY <1>1, <3>3, <3>9, <4>1, <5>1, FieldNames
          DEF PairTraced, PartTraced, TracedFields, Kept
      <4>2. CASE f # "diag" /\ f # "meta"
        <5>1. /\ c.top[f] = c.inner[f] /\ f \in TracedFields("certification", "top")
              /\ f \notin Uncompared
          BY <3>6, <3>9, <4>2, FieldNames DEF TracedFields
        <5> QED
          BY <1>1, <1>4, <3>3, <3>9, <5>1, AgreedTrue
      <4>3. CASE f = "meta"
        <5>1. f \in TracedFields("certification", "top") /\ f \in Uncompared
          BY <4>3, FieldNames DEF TracedFields
        <5> QED
          BY <1>1, <1>4, <3>3, <3>9, <5>1, UncomparedTrue
      <4> QED
        BY <4>1, <4>2, <4>3
    <3>10. ASSUME ~Unseen, NEW part \in {"top", "inner"},
                  NEW f \in TracedFields("admission", part), Told(f)
           PROVE  r[part][f] = Truth(c.top.run)[f]
      <4>1. CASE f \in CertifiedFields \ {"run"}
        <5>1. f \in RecordedFields
          BY <4>1, FieldNames
        <5>2. t[f] = Truth(c.top.run)[f] /\ m[f] = Truth(c.top.run)[f]
          BY <3>5, <3>9, <3>10, <4>1, <5>1
        <5> QED
          BY <3>2, <5>2
      <4>2. CASE part = "inner" /\ f = "note"
        <5>1. f \in TracedFields("certification", "inner") /\ f \in Uncompared
          BY <4>2, FieldNames DEF TracedFields
        <5>2. held["certification"]["inner"][f] = Truth(held["certification"].top.run)[f]
          BY <1>4, <3>3, <3>10, <5>1, UncomparedTrue
        <5> QED
          BY <1>1, <3>2, <3>5, <4>2, <5>2
      <4> QED
        BY <3>10, <4>1, <4>2 DEF TracedFields
    <3> QED
      BY <1>3, <1>4, <1>5, <3>2, <3>4, <3>5, <3>7, <3>8, <3>10, FreshPair DEF TopFields
  <2> QED
    BY <2>1, <2>2
<1>7. Derived'
  BY <1>1, <1>2, <1>3, <1>4 DEF Derived
<1> QED
  BY <1>3, <1>4, <1>5, <1>6, <1>7, StageHeld
----------------------------------------------------------------------------
(* P9R.                                                                    *)

(* An admission that is not refused is coherent.                           *)
LEMMA NoRefusal ==
  ASSUME NEW a, NEW allowed \in Gates, WriteRefusal(a, allowed) = None
  PROVE  allowed /\ a.status = "ADMITTED" /\ admissionMaterialIsCoherent(a)
BY AbsentAssumption DEF WriteRefusal

(* A write that does not stand keeps the invariant.                        *)
LEMMA NotWrittenKeepsIInv ==
  ASSUME EvidenceIInv, Onward, UNCHANGED <<altered, audits>>, NEW reason,
         held["admission"] # None, Hold("write", NotWritten(reason)),
         \/ \E allowed \in Gates : /\ WriteRefusal(held["admission"], allowed) # None
                                  /\ reason = WriteRefusal(held["admission"], allowed)
         \/ /\ WriteRefusal(held["admission"], TRUE) = None
            /\ reason \in {"WRITER_MISSING", "WRITER_FAILED", "RESULT_INCOHERENT"}
  PROVE  EvidenceIInv'
<1> USE DEF EvidenceIInv
<1>1. PICK r : r = NotWritten(reason)
  OBVIOUS
<1>2. /\ "write" \in Stages /\ "write" \in PairStages
      /\ held'["write"] = r
      /\ \A s \in {"execution", "certification", "admission"} : held'[s] = held[s]
      /\ held'["auditAdmission"] = None
  BY <1>1, Held, StageNames DEF After
<1>3. r.status \in {"DENIED", "NOT_WRITTEN"}
  BY <1>1 DEF NotWritten
<1>4. PairTraced("write")' /\ RowTraced("write")'
  BY <1>2, <1>3 DEF PairTraced, RowTraced, Stands, Standing
<1>5. Derived'
  BY <1>1, <1>2 DEF Derived
<1> QED
  BY <1>1, <1>2, <1>4, <1>5, StageHeld

(* P9R refuses the admission ...                                           *)
LEMMA RefuseWriteKeepsIInv ==
  ASSUME EvidenceIInv, NEW allowed \in Gates, RefuseWrite(allowed)
  PROVE  EvidenceIInv'
<1>1. PICK reason \in {WriteRefusal(held["admission"], allowed)} \ {None} :
        Hold("write", NotWritten(reason))
  BY DEF RefuseWrite
<1>2. held["admission"] # None /\ UNCHANGED <<decision, performed, ledger, audits, altered>>
  BY DEF RefuseWrite
<1> QED
  BY <1>1, <1>2, StillOnward, NotWrittenKeepsIInv

(* ... or finds no writer ...                                              *)
LEMMA NoWriterKeepsIInv ==
  ASSUME EvidenceIInv, FindNoWriter
  PROVE  EvidenceIInv'
BY StillOnward, NotWrittenKeepsIInv DEF FindNoWriter

(* An admission that P9R accepts is sound, and true unless something unseen*)
(* was altered.                                                            *)
LEMMA AcceptedAdmission ==
  ASSUME EvidenceIInv, held["admission"] # None, WriteRefusal(held["admission"], TRUE) = None
  PROVE  LET a == held["admission"]
         IN  /\ a.status = "ADMITTED"
             /\ a.top \in FactsOf(RecordedFields) /\ a.inner \in FactsOf(MaterialFields)
             /\ \A f \in ComparedFields : a.top[f] = a.inner[f]
             /\ a.top.run = a.inner.run /\ a.inner.run \in 0..Len(performed)
             /\ Sound(a.top) /\ Sound(a.inner)
             /\ ~Unseen => \A part \in {"top", "inner"} : \A f \in TracedFields("write", part) :
                  Told(f) => a[part][f] = Truth(a.top.run)[f]
<1>1. PICK a : a = held["admission"]
  OBVIOUS
<1>2. a.status = "ADMITTED" /\ admissionMaterialIsCoherent(a)
  BY <1>1, NoRefusal DEF Gates
<1>3. /\ "admission" \in PairStages /\ Stands("admission") /\ PairTraced("admission")
  BY <1>1, <1>2, StageNames DEF Stands, Standing, EvidenceIInv
<1>4. /\ a.top \in FactsOf(RecordedFields) /\ a.inner \in FactsOf(MaterialFields)
      /\ a.top.run = a.inner.run /\ a.inner.run \in 0..Len(performed)
  BY <1>1, <1>3 DEF PairTraced, PairShape, TopFields, PartTraced
<1>5. \A f \in ComparedFields : a.top[f] = a.inner[f]
  BY <1>2 DEF admissionMaterialIsCoherent, Agree
<1>6. Sound(a.top) /\ Sound(a.inner)
  BY <1>1, <1>3, <1>5, FieldNames, AgreedSound
<1>7. ASSUME ~Unseen, NEW part \in {"top", "inner"}, NEW f \in TracedFields("write", part), Told(f)
      PROVE  a[part][f] = Truth(a.top.run)[f]
  <2>1. f \in TracedFields("admission", part)
    BY <1>7 DEF TracedFields
  <2>2. CASE f \in Uncompared
    BY <1>1, <1>3, <1>7, <2>1, <2>2, UncomparedTrue
  <2>3. CASE f \notin Uncompared
    <3>1. f \in ComparedFields /\ f \in TracedFields("admission", "top")
      BY <2>1, <2>3, FieldNames DEF TracedFields
    <3>2. /\ a.top[f] = Truth(a.top.run)[f] /\ a.inner[f] = Truth(a.top.run)[f]
      BY <1>1, <1>3, <1>5, <1>7, <2>3, <3>1, AgreedTrue
    <3> QED
      BY <1>7, <3>2
  <2> QED
    BY <2>2, <2>3
<1> QED
  BY <1>1, <1>2, <1>4, <1>5, <1>6, <1>7

(* ... or makes a result of what the writer answers.                       *)
LEMMA WriteKeepsIInv ==
  ASSUME EvidenceIInv, NEW result \in WriterResults, NEW stored \in BOOLEAN,
         CallWriter(result, stored)
  PROVE  EvidenceIInv'
<1> USE DEF EvidenceIInv
<1>1. PICK a : a = held["admission"]
  OBVIOUS
<1>2. PICK row : row = Len(ledger) + 1
  OBVIOUS
<1>3. /\ a # None /\ WriteRefusal(a, TRUE) = None
      /\ stored => Len(ledger) < MaxRows
      /\ writerResultIsCompleted(result) => stored
      /\ ledger' = IF stored THEN Append(ledger, a.inner) ELSE ledger
      /\ UNCHANGED <<decision, performed, audits, altered>>
  BY <1>1 DEF CallWriter, buildCanonicalLedgerEntry
<1>4. Hold("write", IF writerResultIsCompleted(result) THEN Written(a, row)
                    ELSE NotWritten(WriterFailure(result)))
  BY <1>1, <1>2 DEF CallWriter
<1>5. /\ a.status = "ADMITTED"
      /\ a.top \in FactsOf(RecordedFields) /\ a.inner \in FactsOf(MaterialFields)
      /\ \A f \in ComparedFields : a.top[f] = a.inner[f]
      /\ a.top.run = a.inner.run /\ a.inner.run \in 0..Len(performed)
      /\ Sound(a.top) /\ Sound(a.inner)
      /\ ~Unseen => \A part \in {"top", "inner"} : \A f \in TracedFields("write", part) :
           Told(f) => a[part][f] = Truth(a.top.run)[f]
  BY <1>1, <1>3, AcceptedAdmission
<1>6. Onward
  <2>1. CASE stored
    <3>1. \E e \in FactsOf(MaterialFields) :
            ledger' = Append(ledger, e) /\ Sound(e) /\ e.run \in 0..Len(performed)
      BY <1>3, <1>5, <2>1
    <3> QED
      BY <1>3, <2>1, <3>1 DEF Onward
  <2>2. CASE ~stored
    BY <1>3, <2>2, StillOnward
  <2> QED
    BY <2>1, <2>2
<1>7. CASE ~writerResultIsCompleted(result)
  <2>1. WriterFailure(result) \in {"WRITER_FAILED", "RESULT_INCOHERENT"}
    BY DEF WriterFailure
  <2> QED
    BY <1>1, <1>3, <1>4, <1>6, <1>7, <2>1, NotWrittenKeepsIInv
<1>8. CASE writerResultIsCompleted(result)
  <2>1. PICK r : r = Written(a, row)
    OBVIOUS
  <2>2. /\ "write" \in Stages /\ "write" \in PairStages /\ Hold("write", r)
        /\ held'["write"] = r
        /\ \A s \in {"execution", "certification", "admission"} : held'[s] = held[s]
        /\ held'["auditAdmission"] = None
    BY <1>4, <1>8, <2>1, Held, StageNames DEF After
  <2>3. /\ {"status", "top", "inner", "row"} \subseteq DOMAIN r
        /\ r.top = a.top /\ r.inner = a.inner /\ r.row = row
    BY <2>1 DEF Written, WriteContext, buildCanonicalLedgerEntry
  <2>4. row \in DOMAIN ledger' /\ ledger'[row] = a.inner /\ row \in 1..MaxRows
    BY <1>2, <1>3, <1>5, <1>8, BoundsAssumption DEF EvidenceTyped
  <2>5. PairTraced("write")'
    BY <1>3, <1>5, <1>6, <2>2, <2>3, FreshPair DEF TopFields
  <2>6. RowTraced("write")'
    <3>1. RowFits("write", row)'
      BY <1>5, <2>2, <2>3, <2>4 DEF RowFits, RowPlaces
    <3> QED
      BY <2>2, <2>3, <2>4, <3>1 DEF RowTraced, RowPlaces
  <2>7. Derived'
    BY <1>1, <1>3, <2>1, <2>2, <2>4 DEF Derived
  <2> QED
    BY <1>3, <1>6, <2>2, <2>5, <2>6, <2>7, StageHeld
<1> QED
  BY <1>7, <1>8
----------------------------------------------------------------------------
(* P9S and P9T.                                                            *)

(* An entry that P9S finds coherent says at the top what it says inside,   *)
(* and says contained exactly of what did not complete.                    *)
LEMMA EntryAgrees ==
  ASSUME NEW w, EntryCoherent(w), w.top.run = w.inner.run
  PROVE  /\ \A f \in ComparedFields : w.top[f] = w.inner[f]
         /\ w.inner.contained = ~w.inner.outcome.completed
BY FieldNames DEF EntryCoherent, ledgerResultContextMatchesEntry, ledgerOutcomeIsCoherent,
   ledgerResponseIsCoherent, ledgerExecutionStateIsCoherent, outcomeRepresentsContainedFailure,
   Agree

(* No alteration is of the run.                                            *)
LEMMA RunUntouched ==
  ASSUME EvidenceTyped, NEW stage \in PairStages, NEW part \in {"top", "inner"}
  PROVE  Untouched(stage, part, "run")
<1> SUFFICES ASSUME altered = Altered(stage, part, "run") PROVE FALSE
  BY DEF Untouched
<1>1. altered # None
  BY AlterationAssumption, FieldNames DEF PairStages
<1>2. altered \in Alterations
  BY <1>1 DEF EvidenceTyped
<1>3. altered.field = "run"
  BY DEF Altered
<1>4. \A a \in Alterations : a.field # "run"
  BY FieldNames DEF Alterations, Altered
<1> QED
  BY <1>2, <1>3, <1>4

(* A row's facts, where the two parts that hold them agree.                *)
LEMMA AgreedRow ==
  ASSUME NEW stage \in RowStages, NEW row, RowFits(stage, row), EvidenceTyped,
         \A f \in ComparedFields : held[stage].top[f] = held[stage].inner[f]
  PROVE  \A f \in MaterialFields : Told(f) => held[stage].inner[f] = ledger[row][f]
<1>1. PICK r : r = held[stage]
  OBVIOUS
<1>2. stage \in PairStages
  BY StageNames DEF RowStages
<1>3. /\ \A f \in ComparedFields : Kept(stage, "top", f) => r.top[f] = ledger[row][f]
      /\ \A f \in MaterialFields : Kept(stage, "inner", f) => r.inner[f] = ledger[row][f]
  BY <1>1 DEF RowFits
<1>4. ASSUME NEW f \in MaterialFields, Told(f)
      PROVE  r.inner[f] = ledger[row][f]
  <2>1. CASE f \in ComparedFields
    <3>1. Kept(stage, "top", f) \/ Kept(stage, "inner", f)
      BY <2>1, OneUntouched, FieldNames DEF Kept
    <3> QED
      BY <1>1, <1>3, <2>1, <3>1
  <2>2. CASE f \in Uncompared
    BY <1>3, <1>4, <2>2 DEF Kept, Told
  <2>3. CASE f = "run"
    <3>1. Untouched(stage, "inner", "run")
      BY <1>2, RunUntouched
    <3> QED
      BY <1>3, <2>3, <3>1, FieldNames DEF Kept
  <2> QED
    BY <2>1, <2>2, <2>3, FieldNames
<1> QED
  BY <1>1, <1>4

(* P9S admits the entry to audit or refuses it.                            *)
LEMMA AdmitToAuditKeepsIInv ==
  ASSUME EvidenceIInv, NEW allowed \in Gates, AdmitToAudit(allowed)
  PROVE  EvidenceIInv'
<1> USE DEF EvidenceIInv
<1>1. PICK w : w = held["write"]
  OBVIOUS
<1>2. PICK r : r = admitProviderRuntimeLedgerToAudit(w, allowed)
  OBVIOUS
<1>3. /\ w # None /\ Hold("auditAdmission", r)
      /\ UNCHANGED <<decision, performed, ledger, audits, altered>>
  BY <1>1, <1>2 DEF AdmitToAudit
<1>4. /\ "write" \in PairStages /\ "write" \in RowStages
      /\ "auditAdmission" \in Stages /\ "auditAdmission" \in PairStages
      /\ held'["auditAdmission"] = r
      /\ \A s \in {"execution", "certification", "admission", "write"} : held'[s] = held[s]
  BY <1>1, <1>3, Held, StageNames DEF After, RowStages
<1>5. Onward
  BY <1>3, StillOnward
<1>6. PairTraced("auditAdmission")' /\ RowTraced("auditAdmission")'
  <2>1. CASE LedgerFactDenied(w, allowed) \/ ~WriteStands(w) \/ ~EntryCoherent(w)
    <3>1. r.status \in {"DENIED", "NOT_ADMITTED"}
      BY <1>2, <2>1 DEF admitProviderRuntimeLedgerToAudit, LedgerFactRefused, Refusal
    <3> QED
      BY <1>4, <3>1 DEF PairTraced, RowTraced, Stands, Standing
  <2>2. CASE ~LedgerFactDenied(w, allowed) /\ WriteStands(w) /\ EntryCoherent(w)
    <3>1. r = [status |-> "ADMITTED", top |-> w.top, inner |-> w.inner, row |-> w.row,
               materialRow |-> w.row]
      BY <1>2, <2>2 DEF admitProviderRuntimeLedgerToAudit, AuditAdmissionContext,
                        buildAuditAdmissionMaterial
    <3>2. Stands("write") /\ PairTraced("write") /\ RowTraced("write")
      BY <1>1, <1>3, <1>4, <2>2 DEF Stands, Standing, WriteStands
    <3>3. /\ w.top \in FactsOf(RecordedFields) /\ w.inner \in FactsOf(MaterialFields)
          /\ w.top.run = w.inner.run /\ w.top.run \in 0..Len(performed)
          /\ w.row \in 1..MaxRows
      BY <1>1, <3>2 DEF PairTraced, PairShape, TopFields, PartTraced, RowTraced, RowPlaces
    <3>4. /\ \A f \in ComparedFields : w.top[f] = w.inner[f]
          /\ w.inner.contained = ~w.inner.outcome.completed
      BY <2>2, <3>3, EntryAgrees
    <3>5. Sound(w.top) /\ Sound(w.inner)
      BY <1>1, <1>4, <3>2, <3>4, FieldNames, AgreedSound
    <3>6. PICK row \in DOMAIN ledger : RowFits("write", row)
      BY <3>2 DEF RowTraced
    <3>61. /\ \A f \in MaterialFields : Told(f) => w.inner[f] = ledger[row][f]
           /\ RowIntact => w.row = row
      <4>1. RowIntact => Untouched("write", "row", "row")
        BY DEF RowIntact, Untouched
      <4> QED
        BY <1>1, <1>4, <3>4, <3>6, <4>1, AgreedRow DEF RowFits, RowPlaces
    <3>7. ASSUME ~Unseen, NEW f \in CertifiedFields \ {"run", "meta"}
          PROVE  w.top[f] = Truth(w.top.run)[f] /\ w.inner[f] = Truth(w.top.run)[f]
      <4>1. f \in TracedFields("write", "top") /\ f \in ComparedFields /\ f \notin Uncompared
        BY FieldNames DEF TracedFields
      <4> QED
        BY <1>1, <1>4, <3>2, <3>4, <3>7, <4>1, AgreedTrue
    <3>8. ASSUME ~Unseen, NEW part \in {"top", "inner"},
                 NEW f \in TracedFields("auditAdmission", part), Told(f)
          PROVE  r[part][f] = Truth(w.top.run)[f]
      <4>1. \/ f \in CertifiedFields \ {"run", "meta"} \/ f = "contained"
            \/ f \in Uncompared
        BY FieldNames DEF TracedFields
      <4>2. CASE f = "contained"
        <5>1. w.inner.outcome = Truth(w.top.run).outcome
          BY <3>7, <3>8, FieldNames
        <5>2. Truth(w.top.run).contained = ~Truth(w.top.run).outcome.completed
          BY DEF Truth
        <5>3. w.top.contained = w.inner.contained
          BY <3>4, FieldNames
        <5> QED
          BY <3>1, <3>4, <4>2, <5>1, <5>2, <5>3
      <4>3. CASE f \in Uncompared
        <5>1. f \in TracedFields("write", part)
          BY <3>8, <4>3, FieldNames DEF TracedFields
        <5>2. w[part][f] = Truth(w.top.run)[f]
          BY <1>1, <1>4, <3>2, <3>8, <4>3, <5>1, UncomparedTrue
        <5> QED
          BY <3>1, <5>2
      <4>4. CASE f \in CertifiedFields \ {"run", "meta"}
        <5>1. w.top[f] = Truth(w.top.run)[f] /\ w.inner[f] = Truth(w.top.run)[f]
          BY <3>7, <3>8, <4>4
        <5> QED
          BY <3>1, <5>1
      <4> QED
        BY <4>1, <4>2, <4>3, <4>4
    <3>9. /\ {"status", "top", "inner", "row", "materialRow"} \subseteq DOMAIN r
          /\ r.top = w.top /\ r.inner = w.inner /\ r.row = w.row /\ r.materialRow = w.row
      BY <3>1
    <3>10. PairTraced("auditAdmission")'
      BY <1>3, <1>4, <1>5, <3>3, <3>5, <3>8, <3>9, FreshPair DEF TopFields
    <3>11. RowTraced("auditAdmission")'
      <4>1. /\ RowIntact' => RowIntact
            /\ \A f, part : Kept("auditAdmission", part, f)' => Told(f)
        BY <1>3 DEF RowIntact, Kept, Told, FieldIntact
      <4>2. \A f \in ComparedFields : Told(f) /\ f \in MaterialFields
        BY FieldNames DEF Told
      <4>3. RowFits("auditAdmission", row)'
        BY <1>3, <1>4, <3>4, <3>61, <3>9, <4>1, <4>2 DEF RowFits, RowPlaces
      <4> QED
        BY <1>3, <1>4, <3>3, <3>9, <4>3 DEF RowTraced, RowPlaces
    <3> QED
      BY <3>10, <3>11
  <2> QED
    BY <2>1, <2>2
<1>7. Derived'
  BY <1>1, <1>2, <1>3, <1>4 DEF Derived
<1> QED
  BY <1>3, <1>4, <1>5, <1>6, <1>7, StageHeld
(* P9T audits what was admitted.                                           *)
LEMMA AuditKeepsIInv ==
  ASSUME EvidenceIInv, NEW allowed \in Gates, NEW result \in AuditExecutorResults,
         Audit(allowed, result)
  PROVE  EvidenceIInv'
<1> USE DEF EvidenceIInv
<1>1. PICK a : a = held["auditAdmission"]
  OBVIOUS
<1>2. PICK audit : audit = executeProviderRuntimeAudit(a, allowed, result)
  OBVIOUS
<1>3. /\ a # None /\ audit.status = "WRITTEN" /\ audits' = audits \union {audit.record}
      /\ UNCHANGED <<decision, performed, held, ledger, altered>>
  BY <1>1, <1>2 DEF Audit
<1>4. AuditRefusal(a, allowed) = None /\ audit = Audited(a)
  <2>1. \A reason : NotAudited(a, reason).status # "WRITTEN"
    BY DEF NotAudited
  <2> QED
    BY <1>2, <1>3, <2>1 DEF executeProviderRuntimeAudit
<1>5. a.status = "ADMITTED" /\ auditAdmissionMaterialIsCoherent(a)
  BY <1>4, AbsentAssumption DEF AuditRefusal
<1>6. audit.record = [row |-> a.materialRow, fact |-> a.inner] /\ a.row = a.materialRow
  BY <1>4, <1>5 DEF Audited, buildCanonicalAuditRecord, auditAdmissionMaterialIsCoherent
<1>7. /\ "auditAdmission" \in PairStages /\ "auditAdmission" \in RowStages
      /\ Stands("auditAdmission")
      /\ PairTraced("auditAdmission") /\ RowTraced("auditAdmission")
  BY <1>1, <1>3, <1>5, StageNames DEF RowStages, Stands, Standing
<1>8. \A f \in ComparedFields : a.top[f] = a.inner[f]
  BY <1>5 DEF auditAdmissionMaterialIsCoherent, Agree
<1>9. /\ a.top.run = a.inner.run /\ a.inner \in FactsOf(MaterialFields)
      /\ a.row \in 1..MaxRows
  BY <1>1, <1>7 DEF RowTraced, RowPlaces, PairTraced, PairShape
<1>18. PICK row \in DOMAIN ledger : RowFits("auditAdmission", row)
  BY <1>7 DEF RowTraced
<1>19. /\ \A f \in MaterialFields : Told(f) => a.inner[f] = ledger[row][f]
       /\ RowIntact => row = a.row
  <2>1. \/ Untouched("auditAdmission", "row", "row")
        \/ Untouched("auditAdmission", "materialRow", "row")
    BY AlterationsTell DEF Untouched
  <2> QED
    BY <1>1, <1>6, <1>7, <1>8, <1>18, <2>1, AgreedRow DEF RowFits, RowPlaces
<1>10. ASSUME ~Unseen, NEW f \in MaterialFields, Told(f)
       PROVE  a.inner[f] = Truth(a.inner.run)[f]
  <2>1. CASE f = "run"
    BY <2>1 DEF Truth
  <2>2. CASE f \in Uncompared
    <3>1. f \in TracedFields("auditAdmission", "inner")
      BY <2>2, FieldNames DEF TracedFields
    <3>2. held["auditAdmission"]["inner"][f] = Truth(held["auditAdmission"].top.run)[f]
      BY <1>7, <1>10, <2>2, <3>1, UncomparedTrue
    <3> QED
      BY <1>1, <1>9, <3>2
  <2>3. CASE f \in ComparedFields
    <3>1. f \in TracedFields("auditAdmission", "top") /\ f \notin Uncompared
      BY <2>3, FieldNames DEF TracedFields
    <3> QED
      BY <1>1, <1>7, <1>8, <1>9, <1>10, <2>3, <3>1, AgreedTrue
  <2> QED
    BY <2>1, <2>2, <2>3, FieldNames
<1>11. Onward
  BY <1>3, StillOnward
<1>12. EvidenceTyped'
  BY <1>3 DEF EvidenceTyped
<1>13. ExecutionTraced' /\ ExecutionHonest'
  BY <1>3, <1>11, ExecutionKept
<1>14. (\A s \in PairStages : PairTraced(s)') /\ (\A s \in RowStages : RowTraced(s)')
  BY <1>3, <1>11, PairKept, RowKept
<1>15. LedgerSound'
  BY <1>11, BooksKept
<1>16. Derived'
  BY <1>3 DEF Derived
<1>17. AuditsTrue'
  <2>1. ASSUME NEW x \in audits'
        PROVE  /\ x.row \in 1..MaxRows /\ x.fact \in FactsOf(MaterialFields)
               /\ \E n \in DOMAIN ledger : AuditFits(x, n)
               /\ AuditTrue(x)
    <3>1. CASE x \in audits
      BY <3>1 DEF AuditsTrue
    <3>2. CASE x = [row |-> a.materialRow, fact |-> a.inner]
      <4>1. x.row = a.row /\ x.fact = a.inner
        BY <1>6, <3>2
      <4>2. AuditFits(x, row)
        BY <1>19, <4>1 DEF AuditFits
      <4>3. AuditTrue(x)
        BY <1>10, <4>1 DEF AuditTrue
      <4> QED
        BY <1>9, <4>1, <4>2, <4>3
    <3> QED
      BY <1>3, <1>6, <3>1, <3>2
  <2>2. /\ (Unseen' <=> Unseen) /\ (RowIntact' <=> RowIntact)
        /\ \A f : Told(f)' <=> Told(f)
        /\ \A run : Truth(run)' = Truth(run)
    BY <1>3 DEF Unseen, RowIntact, Told, FieldIntact, Truth, PerformedOk
  <2>3. ASSUME NEW x PROVE (AuditTrue(x)' <=> AuditTrue(x)) /\
                           \A n : AuditFits(x, n)' <=> AuditFits(x, n)
    BY <1>3, <2>2 DEF AuditTrue, AuditFits
  <2> QED
    BY <1>3, <2>1, <2>3 DEF AuditsTrue
<1> QED
  BY <1>12, <1>13, <1>14, <1>15, <1>16, <1>17

----------------------------------------------------------------------------
(* What is altered.                                                        *)

(* Altered facts are facts, and differ in the altered field at most.       *)
LEMMA FactsAltered ==
  ASSUME NEW fields, NEW m \in FactsOf(fields), NEW f \in fields, f \in DOMAIN FieldValues,
         NEW v \in FieldValues[f]
  PROVE  /\ [m EXCEPT ![f] = v] \in FactsOf(fields)
         /\ [m EXCEPT ![f] = v][f] = v
         /\ \A g \in fields : g # f => [m EXCEPT ![f] = v][g] = m[g]
         /\ DOMAIN m = fields
<1>1. v \in AnyValue
  BY DEF AnyValue
<1> QED
  BY <1>1 DEF FactsOf

(* An alteration keeps all but the result it alters.                       *)
LEMMA AlterationKeeps ==
  ASSUME EvidenceIInv, altered = None, altered' \in Alterations,
         UNCHANGED <<decision, performed, ledger, audits>>
  PROVE  /\ Onward /\ Derived' /\ LedgerSound' /\ AuditsTrue'
         /\ performed' \in Seq(Invocation)
         /\ Len(performed') <= MaxRuns
         /\ \A s \in PairStages : held'[s] = held[s] =>
              PairTraced(s)' /\ (s \in RowStages => RowTraced(s)')
<1> USE DEF EvidenceIInv
<1>1. Onward
  BY DEF Onward
<1>2. Derived'
  BY AlteredNot DEF Derived
<1>3. \A s \in PairStages : held'[s] = held[s] =>
        PairTraced(s)' /\ (s \in RowStages => RowTraced(s)')
  BY <1>1, PairKept, RowKept
<1> QED
  BY <1>1, <1>2, <1>3, BooksKept, RunsKept

(* P9O's result is altered ...                                             *)
LEMMA AlterExecutionKeepsIInv ==
  ASSUME EvidenceIInv, NEW field \in (ExecutionFields \ {"run"}) \union {"flag", "reason", "note"},
         NEW value \in FieldValues[field], AlterExecution(field, value)
  PROVE  EvidenceIInv'
<1> USE DEF EvidenceIInv
<1>1. PICK x : x = held["execution"]
  OBVIOUS
<1>2. PICK y : y = [x EXCEPT ![field] = value]
  OBVIOUS
<1>3. /\ altered = None /\ x # None
      /\ held' = [held EXCEPT !["execution"] = y]
      /\ altered' = Altered("execution", "top", field)
      /\ UNCHANGED <<decision, performed, ledger, audits>>
  BY <1>1, <1>2 DEF AlterExecution
<1>4. altered' \in Alterations
  BY <1>3 DEF Alterations
<1>5. /\ Onward /\ Derived' /\ LedgerSound' /\ AuditsTrue'
      /\ performed' \in Seq(Invocation) /\ Len(performed') <= MaxRuns
      /\ \A s \in PairStages : held'[s] = held[s] =>
           PairTraced(s)' /\ (s \in RowStages => RowTraced(s)')
  BY <1>3, <1>4, AlterationKeeps
<1>6. /\ held' = [s \in Stages |-> held'[s]] /\ held'["execution"] = y
      /\ \A s \in PairStages : held'[s] = held[s]
  BY <1>3, StageNames DEF EvidenceTyped
<1>7. /\ y \in FactsOf(ExecutionFields \union {"flag", "reason", "note"})
      /\ \A g \in ExecutionFields \union {"flag", "reason", "note"} : g # field => y[g] = x[g]
  <2>1. PICK fields : fields = ExecutionFields \union {"flag", "reason", "note"}
    OBVIOUS
  <2>2. x \in FactsOf(fields) /\ field \in fields /\ field \in DOMAIN FieldValues
    BY <1>1, <1>3, <2>1, FieldNames DEF EvidenceTyped
  <2>3. y \in FactsOf(fields) /\ \A g \in fields : g # field => y[g] = x[g]
    BY <1>2, <2>2, FactsAltered
  <2> QED
    BY <2>1, <2>3
<1>8. EvidenceTyped'
  BY <1>3, <1>4, <1>5, <1>6, <1>7 DEF EvidenceTyped
<1>9. ExecutionHonest'
  <2>1. AlteredAt("execution")'
    BY <1>3, <1>4, AlteredNot DEF AlteredAt, Altered
  <2> QED
    BY <2>1 DEF ExecutionHonest
<1>10. ExecutionTraced'
  <2>1. \A g \in {"response", "flag", "status", "executed"} :
          Untouched("execution", "top", g)' => /\ y[g] = x[g]
                                               /\ Untouched("execution", "top", g)
    <3> SUFFICES ASSUME NEW g \in {"response", "flag", "status", "executed"},
                        Untouched("execution", "top", g)'
                 PROVE  y[g] = x[g] /\ Untouched("execution", "top", g)
      OBVIOUS
    <3>1. g # field
      BY <1>3 DEF Untouched
    <3>2. g \in ExecutionFields \union {"flag", "reason", "note"}
          /\ g \in MaterialFields \union {"flag", "reason"} /\ "execution" \in Stages
      BY FieldNames, StageNames
    <3> QED
      BY <1>5, <1>7, <3>1, <3>2, UntouchedKept
  <2>2. y.run = x.run
    BY <1>7, FieldNames
  <2>3. (DoneBy(held["execution"].run)' <=> DoneBy(y.run)') /\ (DoneBy(x.run)' <=> DoneBy(x.run))
    BY <1>3, <1>6 DEF DoneBy, PerformedOk
  <2> QED
    BY <1>1, <1>3, <1>6, <2>1, <2>2, <2>3 DEF ExecutionTraced
<1> QED
  BY <1>5, <1>6, <1>8, <1>9, <1>10, StageNames DEF RowStages
(* ... or a later one, in one of its parts.                                *)
LEMMA AlterHeldKeepsIInv ==
  ASSUME EvidenceIInv, NEW stage \in PairStages, NEW part \in {"top", "inner"},
         NEW field \in MaterialFields \ {"run"}, NEW value \in FieldValues[field],
         AlterHeld(stage, part, field, value)
  PROVE  EvidenceIInv'
<1> USE DEF EvidenceIInv
<1>1. PICK r : r = held[stage]
  OBVIOUS
<1>2. PICK p : p = [r[part] EXCEPT ![field] = value]
  OBVIOUS
<1>3. PICK q : q = [r EXCEPT ![part] = p]
  OBVIOUS
<1>4. /\ altered = None /\ Stands(stage) /\ field \in DOMAIN r[part]
      /\ held' = [held EXCEPT ![stage] = q]
      /\ altered' = Altered(stage, part, field)
      /\ UNCHANGED <<decision, performed, ledger, audits>>
  BY <1>1, <1>2, <1>3 DEF AlterHeld
<1>5. altered' \in Alterations
  BY <1>4 DEF Alterations
<1>6. /\ Onward /\ Derived' /\ LedgerSound' /\ AuditsTrue'
      /\ performed' \in Seq(Invocation) /\ Len(performed') <= MaxRuns
      /\ \A s \in PairStages : held'[s] = held[s] =>
           PairTraced(s)' /\ (s \in RowStages => RowTraced(s)')
  BY <1>4, <1>5, AlterationKeeps
<1>7. /\ held' = [s \in Stages |-> held'[s]] /\ held'[stage] = q
      /\ \A s \in Stages \ {stage} : held'[s] = held[s]
      /\ "execution" \in Stages \ {stage} /\ PairStages \subseteq Stages /\ stage \in Stages
  BY <1>4, StageNames DEF EvidenceTyped
<1>8. ExecutionTraced' /\ ExecutionHonest'
  BY <1>6, <1>7, ExecutionKept
<1>9. EvidenceTyped'
  BY <1>4, <1>5, <1>6, <1>7 DEF EvidenceTyped
<1>10. /\ PairShape(stage) /\ r.top.run = r.inner.run
       /\ PartTraced(stage, "top") /\ PartTraced(stage, "inner")
  BY <1>1, <1>4 DEF PairTraced
<1>11. PICK fields \in {TopFields(stage), MaterialFields} :
         fields = IF part = "top" THEN TopFields(stage) ELSE MaterialFields
  OBVIOUS
<1>12. r[part] \in FactsOf(fields) /\ fields \subseteq DOMAIN FieldValues
  BY <1>1, <1>10, <1>11, FieldNames DEF PairShape, TopFields
<1>13. field \in fields
  BY <1>4, <1>12 DEF FactsOf
<1>14. /\ p \in FactsOf(fields)
       /\ \A g \in fields : g # field => p[g] = r[part][g]
  BY <1>2, <1>12, <1>13, FactsAltered
<1>15. /\ {"status", "top", "inner"} \subseteq DOMAIN q /\ DOMAIN q = DOMAIN r
       /\ q[part] = p /\ \A d \in DOMAIN r : d # part => q[d] = r[d]
  BY <1>1, <1>3, <1>10 DEF PairShape
<1>16. PairShape(stage)'
  BY <1>1, <1>7, <1>10, <1>11, <1>14, <1>15 DEF PairShape
<1>17. "run" \in fields /\ field # "run"
  BY <1>11, FieldNames DEF TopFields
<1>18. q.top.run = r.top.run /\ q.inner.run = r.inner.run
  BY <1>1, <1>10, <1>14, <1>15, <1>17 DEF PairShape
<1>19. ASSUME NEW d \in {"top", "inner"}, NEW f,
              f \in (IF d = "top" THEN TopFields(stage) ELSE MaterialFields),
              Untouched(stage, d, f)' \/ Kept(stage, d, f)'
       PROVE  /\ q[d][f] = r[d][f]
              /\ Untouched(stage, d, f)' => Untouched(stage, d, f)
              /\ Kept(stage, d, f)' => Kept(stage, d, f)
  <2>1. d # part \/ f # field
    <3>1. altered' # None /\ altered'.field = field
      BY <1>4, <1>5, AlteredNot DEF Altered
    <3> QED
      BY <1>4, <1>19, <3>1 DEF Untouched, Kept, FieldIntact
  <2>2. /\ Untouched(stage, d, f)' => Untouched(stage, d, f)
        /\ Kept(stage, d, f)' => Kept(stage, d, f)
    <3>1. f \in MaterialFields \union {"flag", "reason", "row"}
      BY <1>19, FieldNames DEF TopFields
    <3> QED
      BY <1>6, <1>7, <3>1, UntouchedKept
  <2>3. d \in DOMAIN r
    BY <1>1, <1>10 DEF PairShape
  <2> QED
    BY <1>11, <1>14, <1>15, <1>19, <2>1, <2>2, <2>3
<1>20. ASSUME NEW d \in {"top", "inner"}
       PROVE  PartTraced(stage, d)'
  <2>1. PICK m, n : m = r[d] /\ n = q[d]
    OBVIOUS
  <2>2. /\ m.run \in 0..Len(performed) /\ n.run = m.run
        /\ Untouched(stage, d, "outcome") => Sound(m)
        /\ ~Unseen => \A f \in TracedFields(stage, d) :
                        Kept(stage, d, f) => m[f] = Truth(m.run)[f]
    BY <1>1, <1>10, <1>18, <2>1 DEF PartTraced
  <2>3. \A f \in TracedFields(stage, d) \union {"outcome"} :
          f \in (IF d = "top" THEN TopFields(stage) ELSE MaterialFields)
    BY FieldNames DEF TracedFields, TopFields
  <2>4. ASSUME Untouched(stage, d, "outcome")' PROVE Sound(held[stage][d])'
    <3>1. n.outcome = m.outcome /\ Sound(m)
      BY <1>19, <2>1, <2>2, <2>3, <2>4
    <3>2. held'[stage][d] = n
      BY <1>7, <2>1
    <3> QED
      BY <1>4, <2>2, <3>1, <3>2 DEF Sound, PerformedOk
  <2>5. ASSUME ~Unseen', NEW f \in TracedFields(stage, d), Kept(stage, d, f)'
        PROVE  n[f] = Truth(m.run)[f]
    <3>1. n[f] = m[f] /\ Kept(stage, d, f)
      BY <1>19, <2>1, <2>3, <2>5
    <3>2. ~Unseen
      BY <1>6, <2>5, UntouchedKept
    <3> QED
      BY <2>2, <2>5, <3>1, <3>2
  <2>6. held'[stage][d] = n /\ \A run : Truth(run)' = Truth(run)
    BY <1>4, <1>7, <2>1 DEF Truth, PerformedOk
  <2>7. Truth(held[stage][d].run)' = Truth(m.run)'
    BY <2>2, <2>6
  <2>8. Truth(m.run)' = Truth(m.run)
    BY <2>6
  <2> QED
    BY <1>4, <2>2, <2>4, <2>5, <2>6, <2>7, <2>8 DEF PartTraced, TracedFields
<1>21. PairTraced(stage)'
  BY <1>7, <1>10, <1>16, <1>18, <1>20 DEF PairTraced
<1>22. ASSUME stage \in RowStages PROVE RowTraced(stage)'
  <2>1. /\ RowPlaces(stage) \subseteq DOMAIN r
        /\ \A place \in RowPlaces(stage) : r[place] \in 1..MaxRows
    BY <1>1, <1>4, <1>22 DEF RowTraced
  <2>2. PICK row \in DOMAIN ledger : RowFits(stage, row)
    BY <1>4, <1>22 DEF RowTraced
  <2>3. \A place \in RowPlaces(stage) : place \in DOMAIN q /\ q[place] = r[place]
    BY <1>15, <2>1 DEF RowPlaces
  <2>4. \A f \in ComparedFields : Kept(stage, "top", f)' => q.top[f] = ledger[row][f]
    <3>1. ComparedFields \subseteq TopFields(stage)
      BY <1>22, FieldNames DEF TopFields, RowStages
    <3> QED
      BY <1>1, <1>19, <2>2, <3>1 DEF RowFits
  <2>5. \A f \in MaterialFields : Kept(stage, "inner", f)' => q.inner[f] = ledger[row][f]
    BY <1>1, <1>19, <2>2 DEF RowFits
  <2>6. \A place \in RowPlaces(stage) :
          RowIntact' /\ Untouched(stage, place, "row")' => q[place] = row
    <3>1. /\ RowIntact' => RowIntact
          /\ \A place \in RowPlaces(stage) :
               Untouched(stage, place, "row")' => Untouched(stage, place, "row")
      BY <1>6, <1>7, UntouchedKept DEF RowPlaces
    <3> QED
      BY <1>1, <2>2, <2>3, <3>1 DEF RowFits
  <2>7. RowFits(stage, row)'
    BY <1>4, <1>7, <2>4, <2>5, <2>6 DEF RowFits, RowPlaces
  <2> QED
    BY <1>4, <1>7, <2>1, <2>2, <2>3, <2>7 DEF RowTraced, RowPlaces
<1>23. /\ \A s \in PairStages : PairTraced(s)'
       /\ \A s \in RowStages : RowTraced(s)'
  BY <1>6, <1>7, <1>21, <1>22, StageNames DEF RowStages
<1> QED
  BY <1>6, <1>8, <1>9, <1>23

(* ... or the row that one shows.                                          *)
LEMMA AlterRowKeepsIInv ==
  ASSUME EvidenceIInv, NEW stage \in RowStages, NEW place \in {"row", "materialRow"},
         NEW row \in 1..MaxRows, AlterRow(stage, place, row)
  PROVE  EvidenceIInv'
<1> USE DEF EvidenceIInv
<1>1. PICK r : r = held[stage]
  OBVIOUS
<1>2. PICK q : q = [r EXCEPT ![place] = row]
  OBVIOUS
<1>3. /\ altered = None /\ Stands(stage) /\ place \in DOMAIN r
      /\ held' = [held EXCEPT ![stage] = q]
      /\ altered' = Altered(stage, place, "row")
      /\ UNCHANGED <<decision, performed, ledger, audits>>
  BY <1>1, <1>2 DEF AlterRow
<1>4. altered' \in Alterations
  BY <1>3 DEF Alterations
<1>5. /\ Onward /\ Derived' /\ LedgerSound' /\ AuditsTrue'
      /\ performed' \in Seq(Invocation) /\ Len(performed') <= MaxRuns
      /\ \A s \in PairStages : held'[s] = held[s] =>
           PairTraced(s)' /\ (s \in RowStages => RowTraced(s)')
  BY <1>3, <1>4, AlterationKeeps
<1>6. /\ held' = [s \in Stages |-> held'[s]] /\ held'[stage] = q
      /\ \A s \in Stages \ {stage} : held'[s] = held[s]
      /\ "execution" \in Stages \ {stage} /\ PairStages \subseteq Stages
      /\ stage \in PairStages
  BY <1>3, StageNames DEF EvidenceTyped, RowStages
<1>7. ExecutionTraced' /\ ExecutionHonest'
  BY <1>5, <1>6, ExecutionKept
<1>8. EvidenceTyped'
  BY <1>3, <1>4, <1>5, <1>6 DEF EvidenceTyped
<1>9. /\ PairShape(stage) /\ r.top.run = r.inner.run
      /\ PartTraced(stage, "top") /\ PartTraced(stage, "inner")
  BY <1>1, <1>3, <1>6 DEF PairTraced
<1>10. /\ DOMAIN q = DOMAIN r /\ q.top = r.top /\ q.inner = r.inner /\ q[place] = row
       /\ \A d \in DOMAIN r : d # place => q[d] = r[d]
  BY <1>1, <1>2, <1>3, <1>9 DEF PairShape
<1>11. PairShape(stage)'
  BY <1>1, <1>6, <1>9, <1>10 DEF PairShape
<1>12. /\ \A part \in {"top", "inner"}, f \in MaterialFields :
            /\ Untouched(stage, part, f)' => Untouched(stage, part, f)
            /\ Kept(stage, part, f)' => Kept(stage, part, f)
       /\ Unseen => Unseen'
       /\ RowIntact' => RowIntact
       /\ \A shown \in {"row", "materialRow"} :
            Untouched(stage, shown, "row")' => Untouched(stage, shown, "row") /\ shown # place
  <2>1. \A shown \in {"row", "materialRow"} :
          Untouched(stage, shown, "row")' => shown # place
    BY <1>3 DEF Untouched
  <2> QED
    BY <1>5, <1>6, <2>1, UntouchedKept
<1>13. ASSUME NEW part \in {"top", "inner"}
       PROVE  PartTraced(stage, part)'
  <2>1. PICK p : p = r[part]
    OBVIOUS
  <2>2. held'[stage][part] = p /\ held[stage][part] = p
    BY <1>1, <1>6, <1>10, <2>1
  <2>3. /\ p.run \in 0..Len(performed)
        /\ Untouched(stage, part, "outcome") => Sound(p)
        /\ ~Unseen => \A f \in TracedFields(stage, part) :
                        Kept(stage, part, f) => p[f] = Truth(p.run)[f]
    BY <1>9, <2>2 DEF PartTraced
  <2>4. \A f \in TracedFields(stage, part) \union {"outcome"} : f \in MaterialFields
    BY FieldNames DEF TracedFields
  <2>5. Truth(p.run)' = Truth(p.run)
    BY <1>3 DEF Truth, PerformedOk
  <2>6. Truth(held[stage][part].run)' = Truth(p.run)'
    BY <2>2
  <2>7. Sound(p) => Sound(held[stage][part])'
    BY <1>3, <2>2 DEF Sound, PerformedOk
  <2>8. ~Unseen' => \A f \in TracedFields(stage, part) :
          Kept(stage, part, f)' => p[f] = Truth(p.run)[f]
    BY <1>12, <2>3, <2>4
  <2>9. Untouched(stage, part, "outcome")' => Sound(held[stage][part])'
    BY <1>12, <2>3, <2>4, <2>7
  <2> QED
    BY <1>3, <2>2, <2>3, <2>5, <2>6, <2>8, <2>9 DEF PartTraced, TracedFields
<1>14. PairTraced(stage)'
  BY <1>6, <1>9, <1>10, <1>11, <1>13 DEF PairTraced
<1>15. RowTraced(stage)'
  <2>1. /\ RowPlaces(stage) \subseteq DOMAIN r
        /\ \A shown \in RowPlaces(stage) : r[shown] \in 1..MaxRows
    BY <1>1, <1>3 DEF RowTraced
  <2>2. PICK n \in DOMAIN ledger : RowFits(stage, n)
    BY <1>3 DEF RowTraced
  <2>3. /\ RowPlaces(stage) \subseteq DOMAIN q
        /\ \A shown \in RowPlaces(stage) : q[shown] \in 1..MaxRows
    BY <1>10, <2>1
  <2>4. \A shown \in RowPlaces(stage) :
          RowIntact' /\ Untouched(stage, shown, "row")' => q[shown] = n
    <3>1. RowPlaces(stage) \subseteq {"row", "materialRow"}
      BY DEF RowPlaces
    <3> QED
      BY <1>1, <1>10, <1>12, <2>1, <2>2, <3>1 DEF RowFits
  <2>5. RowFits(stage, n)'
    BY <1>1, <1>3, <1>6, <1>10, <1>12, <2>2, <2>4, FieldNames DEF RowFits, RowPlaces
  <2> QED
    BY <1>3, <1>6, <2>2, <2>3, <2>5 DEF RowTraced, RowPlaces
<1>16. /\ \A s \in PairStages : PairTraced(s)'
       /\ \A s \in RowStages : RowTraced(s)'
  BY <1>5, <1>6, <1>14, <1>15, StageNames DEF RowStages
<1> QED
  BY <1>5, <1>7, <1>8, <1>16
----------------------------------------------------------------------------
(* The invariant.                                                          *)

(* At first nothing is held.                                               *)
LEMMA InitEvidenceIInv ==
  ASSUME Init
  PROVE  EvidenceIInv
<1> USE DEF Init
<1>1. /\ \A s \in Stages : held[s] = None
      /\ held = [s \in Stages |-> held[s]]
      /\ Len(performed) = 0 /\ DOMAIN ledger = {} /\ Len(ledger) = 0
      /\ performed \in Seq(Invocation)
      /\ ledger \in Seq(FactsOf(MaterialFields))
  OBVIOUS
<1>2. EvidenceTyped
  BY <1>1, BoundsAssumption, StageNames DEF EvidenceTyped
<1>3. ExecutionTraced /\ ExecutionHonest
  BY <1>1, StageNames DEF ExecutionTraced, ExecutionHonest
<1>4. \A s \in Stages : PairTraced(s) /\ RowTraced(s)
  BY <1>1 DEF PairTraced, RowTraced, Stands
<1>5. LedgerSound /\ AuditsTrue
  BY <1>1 DEF LedgerSound, AuditsTrue
<1>6. Derived
  BY <1>1, StageNames DEF Derived
<1> QED
  BY <1>2, <1>3, <1>4, <1>5, <1>6, StageNames DEF EvidenceIInv, RowStages

(* Every step keeps the invariant.                                         *)
LEMMA NextKeepsEvidenceIInv ==
  ASSUME EvidenceIInv, [Next]_vars
  PROVE  EvidenceIInv'
<1>1. ASSUME NEW allowed \in Gates, DenyResponse(allowed) PROVE EvidenceIInv'
  BY <1>1, DenyKeepsIInv
<1>2. ASSUME NEW allowed \in Gates, Certify(allowed) PROVE EvidenceIInv'
  BY <1>2, CertifyKeepsIInv
<1>3. ASSUME NEW allowed \in Gates, Admit(allowed) PROVE EvidenceIInv'
  BY <1>3, AdmitKeepsIInv
<1>4. ASSUME NEW allowed \in Gates, RefuseWrite(allowed) PROVE EvidenceIInv'
  BY <1>4, RefuseWriteKeepsIInv
<1>5. ASSUME NEW allowed \in Gates, AdmitToAudit(allowed) PROVE EvidenceIInv'
  BY <1>5, AdmitToAuditKeepsIInv
<1>6. CASE ExecuteNoAction
  BY <1>6, NoActionKeepsIInv
<1>7. CASE FindNoExecutor
  BY <1>7, NoExecutorKeepsIInv
<1>8. ASSUME NEW reply \in Replies, ExecuteResponse(reply) PROVE EvidenceIInv'
  BY <1>8, ExecuteKeepsIInv
<1>9. CASE ExecutorThrows
  BY <1>9, ThrowKeepsIInv
<1>10. CASE FindNoWriter
  BY <1>10, NoWriterKeepsIInv
<1>11. ASSUME NEW result \in WriterResults, NEW stored \in BOOLEAN, CallWriter(result, stored)
       PROVE  EvidenceIInv'
  BY <1>11, WriteKeepsIInv
<1>12. ASSUME NEW allowed \in Gates, NEW result \in AuditExecutorResults, Audit(allowed, result)
       PROVE  EvidenceIInv'
  BY <1>12, AuditKeepsIInv
<1>13. ASSUME NEW field \in (ExecutionFields \ {"run"}) \union {"flag", "reason", "note"},
              NEW value \in FieldValues[field], AlterExecution(field, value)
       PROVE  EvidenceIInv'
  BY <1>13, AlterExecutionKeepsIInv
<1>14. ASSUME NEW stage \in Stages \ {"execution"}, NEW part \in {"top", "inner"},
              NEW field \in MaterialFields \ {"run"}, NEW value \in FieldValues[field],
              AlterHeld(stage, part, field, value)
       PROVE  EvidenceIInv'
  BY <1>14, AlterHeldKeepsIInv DEF PairStages
<1>15. CASE UNCHANGED vars
  BY <1>15, StillOnward, NothingHeld DEF vars
<1>16. ASSUME NEW stage \in {"write", "auditAdmission"}, NEW place \in {"row", "materialRow"},
              NEW row \in 1..MaxRows, AlterRow(stage, place, row)
       PROVE  EvidenceIInv'
  BY <1>16, AlterRowKeepsIInv DEF RowStages
<1> QED
  BY <1>1, <1>2, <1>3, <1>4, <1>5, <1>6, <1>7, <1>8, <1>9, <1>10, <1>11, <1>12, <1>13, <1>14, <1>15,
     <1>16
  DEF Next

(* The invariant holds, for any responses, contexts, diagnoses and numbers *)
(* of runs and rows.                                                       *)
THEOREM EvidenceInvariant == Spec => []EvidenceIInv
<1>1. Init => EvidenceIInv
  BY InitEvidenceIInv
<1>2. EvidenceIInv /\ [Next]_vars => EvidenceIInv'
  BY NextKeepsEvidenceIInv
<1> QED
  BY <1>1, <1>2, PTL DEF Spec

----------------------------------------------------------------------------
(* Facts are typed.                                                        *)
LEMMA FactsTyped ==
  ASSUME NEW fields, NEW m \in FactsOf(fields)
  PROVE  Typed(m, fields)
BY DEF FactsOf, Typed

(* The invariant gives the types.                                          *)
LEMMA EvidenceIInvTypes ==
  ASSUME EvidenceIInv
  PROVE  TypeOK
<1> USE DEF EvidenceIInv, EvidenceTyped
<1>1. held["execution"] # None =>
        Typed(held["execution"], ExecutionFields \union {"flag", "reason", "note"})
  BY FactsTyped
<1>2. ASSUME NEW stage \in Stages \ {"execution"}, held[stage] # None,
             held[stage].status = Standing[stage]
      PROVE  /\ Typed(held[stage].inner, MaterialFields)
             /\ Typed(held[stage].top,
                      IF stage = "certification" THEN CertifiedFields ELSE RecordedFields)
  <2>1. PairShape(stage)
    BY <1>2 DEF PairTraced, Stands, PairStages
  <2> QED
    BY <2>1, FactsTyped DEF PairShape, TopFields
<1>3. Stands("auditAdmission") =>
        ProviderRuntimeLedgerAuditAdmissionMaterial(held["auditAdmission"].inner)
  BY <1>2, StageNames DEF Stands, ProviderRuntimeLedgerAuditAdmissionMaterial
<1>4. \A n \in DOMAIN ledger : ledger[n] \in FactsOf(MaterialFields)
  OBVIOUS
<1>5. \A n \in DOMAIN ledger : Typed(ledger[n], MaterialFields)
  BY <1>4, FactsTyped
<1>6. \A a \in audits : a.row \in 1..MaxRows /\ Typed(a.fact, MaterialFields)
  BY FactsTyped DEF AuditsTrue
<1>7. DOMAIN held = Stages
  OBVIOUS
<1> QED
  BY <1>1, <1>2, <1>3, <1>5, <1>6, <1>7
  DEF TypeOK, ProviderRuntimeEvidenceLedgerEntry, ProviderRuntimeAuditRecord, Invocation

(* All of it has the fields its types declare, for any constants.          *)
THEOREM EvidenceTypesHold == Spec => []TypeOK
<1>1. EvidenceIInv => TypeOK
  BY EvidenceIInvTypes
<1> QED
  BY <1>1, EvidenceInvariant, PTL

(* What a row or an audit calls completed was performed by the executor    *)
(* with success, whichever fact was altered on the way.                    *)
THEOREM CompletionsPerformed == Spec => []CompletedWasPerformed
<1>1. EvidenceIInv => CompletedWasPerformed
  <2> SUFFICES ASSUME EvidenceIInv,
                      NEW fact \in {ledger[n] : n \in DOMAIN ledger} \union {a.fact : a \in audits}
               PROVE  Sound(fact)
    BY DEF CompletedWasPerformed, Sound
  <2>1. \E n \in DOMAIN ledger : fact.run = ledger[n].run /\ fact.outcome = ledger[n].outcome
    BY FieldNames DEF EvidenceIInv, AuditsTrue, AuditFits, Told
  <2> QED
    BY <2>1 DEF EvidenceIInv, LedgerSound, Sound
<1> QED
  BY <1>1, EvidenceInvariant, PTL

(* An audit tells what happened and what its row says, whatever single     *)
(* fact of a result was altered, but for the diagnosis no stage compares   *)
(* and for the metadata, the summary or the row when these are what was    *)
(* altered.                                                                *)
THEOREM AuditsFaithful == Spec => []AuditFaithful
<1>1. EvidenceIInv => AuditFaithful
  <2> SUFFICES ASSUME EvidenceIInv, ~Unseen, NEW a \in audits
               PROVE  \E row \in DOMAIN ledger :
                        /\ RowIntact => row = a.row
                        /\ \A f \in MaterialFields : f \notin Uncompared \/ FieldIntact(f) =>
                             a.fact[f] = Truth(a.fact.run)[f] /\ a.fact[f] = ledger[row][f]
    BY DEF AuditFaithful
  <2>1. PICK row \in DOMAIN ledger : AuditFits(a, row)
    BY DEF EvidenceIInv, AuditsTrue
  <2>2. AuditTrue(a)
    BY DEF EvidenceIInv, AuditsTrue
  <2> QED
    BY <2>1, <2>2 DEF AuditFits, AuditTrue, Told
<1> QED
  BY <1>1, EvidenceInvariant, PTL
----------------------------------------------------------------------------
(* How far the stages go with results nobody altered.                      *)

(* A certificate is that of the execution result held ...                  *)
LEMMA CertifiedFrom ==
  ASSUME EvidenceIInv, altered = None, Stands("certification")
  PROVE  /\ held["execution"] # None /\ Certifiable(held["execution"])
         /\ held["execution"] \in FactsOf(ExecutionFields \union {"flag", "reason", "note"})
         /\ held["certification"] = buildCertifiedResult(held["execution"])
<1>1. PICK x, c : x = held["execution"] /\ c = held["certification"]
  OBVIOUS
<1>2. PICK allowed \in Gates : x # None /\ c = certifyProviderRuntimeExecutionOutcome(x, allowed)
  BY <1>1 DEF EvidenceIInv, Derived, Stands
<1>3. c.status = "CERTIFIED"
  BY <1>1 DEF Stands, Standing
<1>4. allowed /\ x.status # "DENIED" /\ Certifiable(x)
  BY <1>2, <1>3 DEF certifyProviderRuntimeExecutionOutcome, Refusal
<1>5. c = buildCertifiedResult(x)
  BY <1>2, <1>4 DEF certifyProviderRuntimeExecutionOutcome
<1> QED
  BY <1>1, <1>2, <1>4, <1>5 DEF EvidenceIInv, EvidenceTyped

(* ... an admission tells the facts of that result ...                     *)
LEMMA AdmittedFrom ==
  ASSUME EvidenceIInv, altered = None, Stands("admission")
  PROVE  LET x == held["execution"]
             a == held["admission"]
         IN  /\ Stands("certification") /\ x # None /\ Certifiable(x)
             /\ a.status = "ADMITTED"
             /\ \A f \in RecordedFields : a.top[f] = a.inner[f]
             /\ \A f \in ExecutionFields : a.inner[f] = x[f]
             /\ a.inner.outcome = certifiedOutcomeForExecution(x)
             /\ a.inner.contained = failedOutcomeCertifiable(x) /\ a.inner.note = x.note
<1>1. PICK x, c, a : x = held["execution"] /\ c = held["certification"] /\ a = held["admission"]
  OBVIOUS
<1>2. PICK allowed \in Gates : c # None /\ a = admitProviderRuntimeEvidenceToLedger(c, allowed)
  BY <1>1 DEF EvidenceIInv, Derived, Stands
<1>3. a.status = "ADMITTED"
  BY <1>1 DEF Stands, Standing
<1>4. allowed /\ c.status = "CERTIFIED" /\ EvidenceCoherent(c)
  BY <1>2, <1>3 DEF admitProviderRuntimeEvidenceToLedger, EvidenceRefused, Refusal
<1>5. Stands("certification")
  BY <1>1, <1>2, <1>4 DEF Stands, Standing
<1>6. /\ x # None /\ Certifiable(x) /\ c = buildCertifiedResult(x)
      /\ x \in FactsOf(ExecutionFields \union {"flag", "reason", "note"})
  BY <1>1, <1>5, CertifiedFrom
<1>7. /\ c.top \in FactsOf(CertifiedFields) /\ c.inner \in FactsOf(MaterialFields)
      /\ \A f \in ExecutionFields : c.top[f] = x[f]
      /\ c.top.outcome = certifiedOutcomeForExecution(x)
      /\ c.inner.contained = failedOutcomeCertifiable(x) /\ c.inner.note = x.note
  BY <1>6, Certificate
<1>8. /\ a.top = AdmissionContext(c) /\ a.inner = buildLedgerAdmissionMaterial(c)
  BY <1>2, <1>4 DEF admitProviderRuntimeEvidenceToLedger
<1>9. /\ \A f \in RecordedFields : a.top[f] = a.inner[f]
      /\ \A f \in CertifiedFields : a.inner[f] = c.top[f]
      /\ a.inner.contained = c.inner.contained /\ a.inner.note = c.inner.note
  BY <1>7, <1>8, Material
<1>10. /\ \A f \in ExecutionFields : a.inner[f] = x[f]
       /\ a.inner.outcome = certifiedOutcomeForExecution(x)
  BY <1>7, <1>9, FieldNames
<1> QED
  BY <1>1, <1>3, <1>5, <1>6, <1>7, <1>9, <1>10

(* ... and so does a write.                                                *)
LEMMA WrittenFrom ==
  ASSUME EvidenceIInv, altered = None, Stands("write")
  PROVE  /\ Stands("admission")
         /\ held["write"].status = "WRITTEN"
         /\ held["write"].top = held["admission"].top
         /\ held["write"].inner = held["admission"].inner
<1>1. PICK a, w : a = held["admission"] /\ w = held["write"]
  OBVIOUS
<1>2. w # None /\ w.status = "WRITTEN"
  BY <1>1 DEF Stands, Standing
<1>3. \A reason : NotWritten(reason).status # "WRITTEN"
  BY DEF NotWritten
<1>4. /\ a # None /\ WriteRefusal(a, TRUE) = None
      /\ \E row \in DOMAIN ledger : w = Written(a, row)
  BY <1>1, <1>2, <1>3 DEF EvidenceIInv, Derived
<1>5. a.status = "ADMITTED"
  BY <1>4, NoRefusal DEF Gates
<1>6. w.top = a.top /\ w.inner = a.inner
  BY <1>4 DEF Written, WriteContext, buildCanonicalLedgerEntry
<1> QED
  BY <1>1, <1>2, <1>4, <1>5, <1>6 DEF Stands, Standing

(* An execution that passes is certifiable.                                *)
LEMMA PassesCertifiable ==
  ASSUME EvidenceIInv, altered = None, held["execution"] # None,
         \/ held["execution"].status = "EXECUTED"
         \/ held["execution"].reason = "EXECUTION_FAILED" /\ held["execution"].note = "CONTAINED"
  PROVE  /\ Certifiable(held["execution"]) /\ held["execution"].status # "DENIED"
         /\ failedOutcomeCertifiable(held["execution"]) => held["execution"].note = "CONTAINED"
<1>1. PICK x : x = held["execution"]
  OBVIOUS
<1>2. /\ x.idle = (decision.response = "NO_ACTION")
      /\ x.executed = (x.status = "EXECUTED")
      /\ x.flag = IF x.status = "EXECUTED" THEN FlagOf(decision.response) ELSE None
      /\ x.reason # None => x.status = "NOT_EXECUTED"
      /\ x.reason = "EXECUTION_FAILED" => ~DoneBy(x.run)
  BY <1>1 DEF EvidenceIInv, ExecutionHonest, AlteredAt
<1>3. x.response = decision.response
  <2>1. Untouched("execution", "top", "response")
    BY AlterationAssumption, FieldNames, StageNames DEF Untouched
  <2> QED
    BY <1>1, <2>1 DEF EvidenceIInv, ExecutionTraced
<1>4. CASE x.status = "EXECUTED"
  <2>1. Certifiable(x)
    BY <1>2, <1>3, <1>4 DEF Certifiable, executionStateCoherent
  <2>2. ~failedOutcomeCertifiable(x)
    BY <1>4 DEF failedOutcomeCertifiable
  <2> QED
    BY <1>1, <1>4, <2>1, <2>2
<1>5. CASE x.reason = "EXECUTION_FAILED" /\ x.note = "CONTAINED"
  <2>1. x.reason # None /\ x.note # None
    BY <1>5, AbsentAssumption
  <2>2. x.status = "NOT_EXECUTED" /\ ~x.executed /\ x.flag = None /\ x.response # "NO_ACTION"
    BY <1>2, <1>3, <1>5, <2>1 DEF DoneBy
  <2>3. executionStateCoherent(x) /\ failedOutcomeCertifiable(x)
    BY <1>5, <2>1, <2>2 DEF executionStateCoherent, executionFlagCount, failedOutcomeCertifiable
  <2> QED
    BY <1>1, <1>5, <2>2, <2>3 DEF Certifiable
<1> QED
  BY <1>1, <1>4, <1>5
(* ... and no later stage refuses it for what it says.                     *)
LEMMA PassesOn ==
  ASSUME EvidenceIInv, altered = None, held["execution"] # None,
         Certifiable(held["execution"]), held["execution"].status # "DENIED",
         failedOutcomeCertifiable(held["execution"]) => held["execution"].note = "CONTAINED",
         NEW stage \in PairStages, held[stage] # None,
         \A earlier \in PairStages : stage \in After(earlier) => Stands(earlier)
  PROVE  \/ Stands(stage) \/ held[stage].status = "DENIED"
         \/ /\ stage = "write"
            /\ held["write"].reason \in {"WRITER_MISSING", "WRITER_FAILED", "RESULT_INCOHERENT"}
<1>1. PICK x : x = held["execution"]
  OBVIOUS
<1>2. x \in FactsOf(ExecutionFields \union {"flag", "reason", "note"})
  BY <1>1 DEF EvidenceIInv, EvidenceTyped
<1>3. Substantial("CONTAINED")
  BY DEF Substantial
<1>4. CASE stage = "certification"
  <2>1. PICK allowed \in Gates : held[stage] = certifyProviderRuntimeExecutionOutcome(x, allowed)
    BY <1>1, <1>4 DEF EvidenceIInv, Derived
  <2>2. held[stage].status \in {"DENIED", "CERTIFIED"}
    BY <1>1, <2>1 DEF certifyProviderRuntimeExecutionOutcome, buildCertifiedResult, Refusal
  <2> QED
    BY <1>4, <2>2 DEF Stands, Standing
<1>5. CASE stage = "admission"
  <2>1. Stands("certification")
    BY <1>5, StageNames DEF After
  <2>2. PICK c : c = held["certification"]
    OBVIOUS
  <2>3. c = buildCertifiedResult(x) /\ c.status = "CERTIFIED"
    BY <1>1, <2>1, <2>2, CertifiedFrom DEF Stands, Standing
  <2>4. PICK allowed \in Gates : held[stage] = admitProviderRuntimeEvidenceToLedger(c, allowed)
    BY <1>5, <2>2 DEF EvidenceIInv, Derived
  <2>5. /\ \A f \in ExecutionFields : c.top[f] = x[f] /\ c.inner[f] = x[f]
        /\ c.top.outcome = c.inner.outcome
        /\ c.inner.contained = failedOutcomeCertifiable(x) /\ c.inner.note = x.note
    BY <1>1, <1>2, <2>3, Certificate
  <2>6. \A f \in CertifiedFields : c.top[f] = c.inner[f]
    BY <2>5, FieldNames
  <2>7. EvidenceCoherent(c)
    BY <1>1, <1>3, <2>5, <2>6, FieldNames
    DEF EvidenceCoherent, canonicalEvidenceShapeIsValid, evidenceContextIsCoherent,
        evidenceResponseIsCoherent, evidenceExecutionStateIsCoherent, evidenceSummariesAreValid,
        Agree
  <2>8. held[stage].status \in {"DENIED", "ADMITTED"}
    BY <2>3, <2>4, <2>7 DEF admitProviderRuntimeEvidenceToLedger, EvidenceRefused, Refusal
  <2> QED
    BY <1>5, <2>8 DEF Stands, Standing
<1>6. CASE stage \in {"write", "auditAdmission"}
  <2>1. Stands("admission")
    BY <1>6, StageNames DEF After
  <2>2. PICK a : a = held["admission"]
    OBVIOUS
  <2>3. /\ a.status = "ADMITTED"
        /\ \A f \in RecordedFields : a.top[f] = a.inner[f]
        /\ \A f \in ExecutionFields : a.inner[f] = x[f]
        /\ a.inner.outcome = certifiedOutcomeForExecution(x)
        /\ a.inner.contained = failedOutcomeCertifiable(x) /\ a.inner.note = x.note
    BY <1>1, <2>1, <2>2, AdmittedFrom
  <2>4. CASE stage = "write"
    <3>1. admissionMaterialIsCoherent(a)
      BY <1>1, <1>3, <2>3, FieldNames DEF admissionMaterialIsCoherent, Agree
    <3>2. \A allowed \in Gates : WriteRefusal(a, allowed) \in {None, "DENIED"}
      BY <2>3, <3>1 DEF WriteRefusal
    <3>3. PICK w : w = held["write"]
      OBVIOUS
    <3>4. CASE \E allowed \in Gates : /\ WriteRefusal(a, allowed) # None
                                      /\ w = NotWritten(WriteRefusal(a, allowed))
      <4>1. w = NotWritten("DENIED")
        BY <3>2, <3>4
      <4>2. w.status = "DENIED"
        BY <4>1 DEF NotWritten
      <4> QED
        BY <2>4, <3>3, <4>2
    <3>5. CASE \E reason \in {"WRITER_MISSING", "WRITER_FAILED", "RESULT_INCOHERENT"} :
                 w = NotWritten(reason)
      <4>1. w.reason \in {"WRITER_MISSING", "WRITER_FAILED", "RESULT_INCOHERENT"}
        BY <3>5 DEF NotWritten
      <4> QED
        BY <2>4, <3>3, <4>1
    <3>6. CASE \E row \in DOMAIN ledger : w = Written(a, row)
      <4>1. w.status = "WRITTEN"
        BY <3>6 DEF Written
      <4> QED
        BY <2>4, <3>3, <4>1 DEF Stands, Standing
    <3> QED
      BY <2>2, <2>4, <3>3, <3>4, <3>5, <3>6 DEF EvidenceIInv, Derived
  <2>5. CASE stage = "auditAdmission"
    <3>1. PICK w : w = held["write"]
      OBVIOUS
    <3>2. /\ w.status = "WRITTEN" /\ w.top = a.top /\ w.inner = a.inner
      <4>1. Stands("write")
        BY <2>5, StageNames DEF After
      <4> QED
        BY <2>2, <3>1, <4>1, WrittenFrom
    <3>3. PICK allowed \in Gates : held[stage] = admitProviderRuntimeLedgerToAudit(w, allowed)
      BY <2>5, <3>1 DEF EvidenceIInv, Derived
    <3>4. /\ w.inner.outcome.of = x.response
          /\ w.inner.outcome.completed = (x.status = "EXECUTED" /\ x.executed)
      BY <2>3, <3>2 DEF certifiedOutcomeForExecution
    <3>5. /\ w.inner.response = x.response /\ w.inner.status = x.status
          /\ w.inner.executed = x.executed
          /\ w.inner.contained = failedOutcomeCertifiable(x) /\ w.inner.note = x.note
      BY <2>3, <3>2, FieldNames
    <3>6. x.executed \in BOOLEAN /\ failedOutcomeCertifiable(x) \in BOOLEAN
      BY <1>2, ExecutionFacts DEF failedOutcomeCertifiable
    <3>7. \/ x.status = "EXECUTED" /\ x.executed /\ ~failedOutcomeCertifiable(x)
          \/ /\ x.status = "NOT_EXECUTED" /\ ~x.executed /\ failedOutcomeCertifiable(x)
             /\ x.note = "CONTAINED"
      BY <1>1 DEF Certifiable, executionStateCoherent, failedOutcomeCertifiable
    <3>8. \A f \in RecordedFields : w.top[f] = w.inner[f]
      BY <2>3, <3>2
    <3>9. /\ ledgerResultContextMatchesEntry(w) /\ ledgerOutcomeIsCoherent(w)
          /\ ledgerResponseIsCoherent(w)
          /\ Agree(w.top, w.inner, {"status", "executed", "idle", "contained"})
      BY <3>4, <3>5, <3>8, FieldNames
      DEF ledgerResultContextMatchesEntry, ledgerOutcomeIsCoherent, ledgerResponseIsCoherent, Agree,
          expectedRuntimeResponseForOutcome
    <3>10. /\ ledgerExecutionStateIsCoherent(w)
           /\ containedFailureEvidenceIsSufficient(w.inner)
      <4>1. CASE x.status = "EXECUTED" /\ x.executed /\ ~failedOutcomeCertifiable(x)
        <5>1. /\ w.inner.outcome.completed = TRUE /\ w.inner.executed = TRUE
              /\ w.inner.contained = FALSE /\ w.inner.status = "EXECUTED"
          BY <3>4, <3>5, <3>6, <4>1
        <5> QED
          BY <3>9, <5>1 DEF ledgerExecutionStateIsCoherent, containedFailureEvidenceIsSufficient,
                            outcomeRepresentsContainedFailure
      <4>2. CASE /\ x.status = "NOT_EXECUTED" /\ ~x.executed /\ failedOutcomeCertifiable(x)
                 /\ x.note = "CONTAINED"
        <5>1. /\ w.inner.outcome.completed = FALSE /\ w.inner.executed = FALSE
              /\ w.inner.contained = TRUE /\ w.inner.status = "NOT_EXECUTED"
              /\ w.inner.note = "CONTAINED"
          BY <3>4, <3>5, <3>6, <4>2
        <5> QED
          BY <3>9, <5>1 DEF ledgerExecutionStateIsCoherent, containedFailureEvidenceIsSufficient,
                            outcomeRepresentsContainedFailure
      <4> QED
        BY <3>7, <4>1, <4>2
    <3>11. EntryCoherent(w) /\ WriteStands(w)
      BY <3>2, <3>9, <3>10 DEF EntryCoherent, WriteStands
    <3>12. held[stage].status \in {"DENIED", "ADMITTED"}
      BY <3>3, <3>11 DEF admitProviderRuntimeLedgerToAudit, LedgerFactRefused, Refusal
    <3> QED
      BY <2>5, <3>12 DEF Stands, Standing
  <2> QED
    BY <1>6, <2>4, <2>5
<1> QED
  BY <1>4, <1>5, <1>6, StageNames

(* What reaches audit was executed, or failed with the token.              *)
LEMMA OnlyPassesReachAudit ==
  ASSUME EvidenceIInv, altered = None, held["execution"] # None, Stands("auditAdmission")
  PROVE  \/ held["execution"].status = "EXECUTED"
         \/ held["execution"].reason = "EXECUTION_FAILED" /\ held["execution"].note = "CONTAINED"
<1>1. PICK x, w : x = held["execution"] /\ w = held["write"]
  OBVIOUS
<1>2. PICK allowed \in Gates :
        w # None /\ held["auditAdmission"] = admitProviderRuntimeLedgerToAudit(w, allowed)
  BY <1>1 DEF EvidenceIInv, Derived, Stands
<1>3. held["auditAdmission"].status = "ADMITTED"
  BY DEF Stands, Standing
<1>4. WriteStands(w) /\ EntryCoherent(w)
  BY <1>2, <1>3 DEF admitProviderRuntimeLedgerToAudit, LedgerFactRefused, Refusal
<1>5. Stands("write")
  BY <1>1, <1>2, <1>4 DEF Stands, Standing, WriteStands
<1>6. /\ Certifiable(x) /\ w.inner.note = x.note
      /\ w.inner.outcome = certifiedOutcomeForExecution(x)
  BY <1>1, <1>5, WrittenFrom, AdmittedFrom
<1>7. CASE x.status # "EXECUTED"
  <2>1. failedOutcomeCertifiable(x)
    BY <1>6, <1>7 DEF Certifiable
  <2>2. ~w.inner.outcome.completed
    <3>1. certifiedOutcomeForExecution(x).completed = (x.status = "EXECUTED" /\ x.executed)
      BY DEF certifiedOutcomeForExecution
    <3> QED
      BY <1>6, <1>7, <3>1
  <2>3. w.inner.note = "CONTAINED"
    BY <1>4, <2>2 DEF EntryCoherent, containedFailureEvidenceIsSufficient,
                     outcomeRepresentsContainedFailure
  <2> QED
    BY <1>1, <1>6, <2>1, <2>3 DEF failedOutcomeCertifiable
<1> QED
  BY <1>1, <1>7

(* The stages agree on what evidence is, for any number of runs and rows.  *)
THEOREM StagesInAgreement == Spec => []StagesAgree
<1>1. EvidenceIInv => StagesAgree
  <2> SUFFICES ASSUME EvidenceIInv, altered = None, held["execution"] # None
               PROVE  StagesAgree
    BY DEF StagesAgree
  <2> DEFINE passes == \/ held["execution"].status = "EXECUTED"
                       \/ /\ held["execution"].reason = "EXECUTION_FAILED"
                          /\ held["execution"].note = "CONTAINED"
  <2>1. ASSUME passes, NEW stage \in PairStages, held[stage] # None
        PROVE  \/ Stands(stage) \/ held[stage].status = "DENIED"
               \/ \E earlier \in PairStages : stage \in After(earlier) /\ ~Stands(earlier)
               \/ /\ stage = "write"
                  /\ held["write"].reason \in
                       {"WRITER_MISSING", "WRITER_FAILED", "RESULT_INCOHERENT"}
    BY <2>1, PassesCertifiable, PassesOn
  <2>2. Stands("auditAdmission") => passes
    BY OnlyPassesReachAudit
  <2> QED
    BY <2>1, <2>2 DEF StagesAgree, PairStages
<1> QED
  BY <1>1, EvidenceInvariant, PTL
=============================================================================
