--------------------------- MODULE SandboxProofs ---------------------------
(***************************************************************************)
(* What governance decides of a request, and what becomes of it, for any   *)
(* number of requests of any cases.                                        *)
(***************************************************************************)
EXTENDS Sandbox, FiniteSetTheorems, WellFoundedInduction, TLAPS

----------------------------------------------------------------------------
(* Positions.                                                              *)

(* A set of natural numbers has a least element.                           *)
LEMMA Least ==
  ASSUME NEW T \in SUBSET Nat, T # {}
  PROVE  \E x \in T : \A y \in T : x <= y
<1> DEFINE R == OpToRel(<, Nat)
<1>1. IsWellFoundedOn(R, Nat)
  BY NatLessThanWellFounded
<1>2. \A x, y \in Nat : <<y, x>> \in R <=> y < x
  BY DEF OpToRel
<1> HIDE DEF R
<1>3. PICK x \in T : \A y \in T : ~ (<<y, x>> \in R)
  BY <1>1, WFMin
<1>4. \A y \in T : x <= y
  <2> TAKE y \in T
  <2>1. x \in Nat /\ y \in Nat
    OBVIOUS
  <2>2. ~(<<y, x>> \in R)
    BY <1>3
  <2>3. ~(y < x)
    BY <1>2, <2>1, <2>2, Zenon
  <2> QED
    BY <2>1, <2>3
<1> QED
  BY <1>4

UpTo(positions, n) == {q \in positions : q <= n}

(* Positions of a sequence are numbers, finitely many.                     *)
LEMMA PositionsAre ==
  ASSUME NEW len \in Nat, NEW positions \in SUBSET (1..len)
  PROVE  /\ IsFiniteSet(positions) /\ Cardinality(positions) \in Nat
         /\ \A q \in positions : q \in Nat /\ 1 <= q /\ q <= len
<1>1. IsFiniteSet(1..len)
  BY FS_Interval
<1>2. IsFiniteSet(positions)
  BY <1>1, FS_Subset
<1>3. \A q \in positions : q \in 1..len
  OBVIOUS
<1> QED
  BY <1>2, <1>3, FS_CardinalityType

(* One position after another is counted.                                  *)
LEMMA Counting ==
  ASSUME NEW len \in Nat, NEW positions \in SUBSET (1..len), NEW n \in Nat
  PROVE  /\ Cardinality(UpTo(positions, n)) \in Nat
         /\ n \notin positions /\ n # 0 => UpTo(positions, n) = UpTo(positions, n - 1)
         /\ n \in positions =>
              Cardinality(UpTo(positions, n)) = Cardinality(UpTo(positions, n - 1)) + 1
<1>1. IsFiniteSet(positions) /\ \A q \in positions : q \in Nat
  BY PositionsAre
<1>2. \A m : IsFiniteSet(UpTo(positions, m))
  BY <1>1, FS_Subset DEF UpTo
<1>3. Cardinality(UpTo(positions, n)) \in Nat
  BY <1>2, FS_CardinalityType
<1>4. ASSUME n \notin positions, n # 0 PROVE UpTo(positions, n) = UpTo(positions, n - 1)
  <2>1. \A q \in positions : q <= n <=> q <= n - 1
    BY <1>1, <1>4
  <2> QED
    BY <2>1 DEF UpTo
<1>5. ASSUME n \in positions
      PROVE  Cardinality(UpTo(positions, n)) = Cardinality(UpTo(positions, n - 1)) + 1
  <2>1. n \notin UpTo(positions, n - 1)
    BY DEF UpTo
  <2>2. \A q \in positions : q <= n <=> q <= n - 1 \/ q = n
    BY <1>1
  <2>3. UpTo(positions, n) = UpTo(positions, n - 1) \union {n}
    BY <1>5, <2>2 DEF UpTo
  <2> QED
    BY <1>2, <2>1, <2>3, FS_AddElement
<1> QED
  BY <1>3, <1>4, <1>5

(* There is a k-th position.                                               *)
LEMMA NthThere ==
  ASSUME NEW len \in Nat, NEW positions \in SUBSET (1..len), NEW k \in 1..Cardinality(positions)
  PROVE  Nth(positions, k) \in positions
<1> DEFINE T == {n \in Nat : Cardinality(UpTo(positions, n)) >= k}
<1>1. len \in T
  <2>1. UpTo(positions, len) = positions
    BY PositionsAre DEF UpTo
  <2>2. Cardinality(UpTo(positions, len)) \in Nat
    BY Counting
  <2> QED
    BY <2>1, <2>2
<1>2. PICK n \in T : \A m \in T : n <= m
  BY <1>1, Least
<1>3. UpTo(positions, 0) = {}
  <2>1. \A q \in positions : ~(q <= 0)
    BY PositionsAre
  <2> QED
    BY <2>1 DEF UpTo
<1>4. n \in Nat /\ Cardinality(UpTo(positions, n)) >= k /\ k >= 1
      /\ Cardinality(positions) \in Nat
  BY <1>2, PositionsAre
<1>5. n # 0
  BY <1>3, <1>4, FS_EmptySet
<1>6. n - 1 \in Nat
  BY <1>4, <1>5
<1>7. Cardinality(UpTo(positions, n - 1)) \in Nat /\ Cardinality(UpTo(positions, n)) \in Nat
  BY <1>4, <1>6, Counting
<1>8. Cardinality(UpTo(positions, n - 1)) < k
  <2>1. n - 1 \notin T
    BY <1>2, <1>4, <1>6
  <2> QED
    BY <1>4, <1>6, <1>7, <2>1
<1>9. n \in positions
  <2>1. n \notin positions => UpTo(positions, n) = UpTo(positions, n - 1)
    BY <1>4, <1>5, Counting
  <2> QED
    BY <1>4, <1>7, <1>8, <2>1
<1>10. Cardinality(UpTo(positions, n)) = k
  <2>1. Cardinality(UpTo(positions, n)) = Cardinality(UpTo(positions, n - 1)) + 1
    BY <1>4, <1>9, Counting
  <2> QED
    BY <1>4, <1>7, <1>8, <2>1
<1>11. (CHOOSE p \in positions : Cardinality({q \in positions : q <= p}) = k) \in positions
  BY <1>9, <1>10 DEF UpTo
<1> QED
  BY <1>11 DEF Nth

(* The entries at some positions are entries there.                        *)
LEMMA EntriesTyped ==
  ASSUME NEW S, NEW rows \in Seq(S), NEW positions \in SUBSET DOMAIN rows
  PROVE  /\ Entries(rows, positions) \in Seq(S)
         /\ \A k \in DOMAIN Entries(rows, positions) :
              \E n \in positions : Entries(rows, positions)[k] = rows[n]
<1>1. Len(rows) \in Nat /\ DOMAIN rows = 1..Len(rows)
  OBVIOUS
<1>2. positions \in SUBSET (1..Len(rows))
  BY <1>1
<1>3. Cardinality(positions) \in Nat
  BY <1>1, <1>2, PositionsAre
<1>4. \A k \in 1..Cardinality(positions) : Nth(positions, k) \in positions
  BY <1>1, <1>2, NthThere
<1>5. \A n \in positions : rows[n] \in S
  OBVIOUS
<1>6. Entries(rows, positions) \in [1..Cardinality(positions) -> S]
  BY <1>4, <1>5 DEF Entries
<1> QED
  BY <1>3, <1>4, <1>6 DEF Entries

----------------------------------------------------------------------------
(* Rows of conditions.                                                     *)

(* The reason a closed gate gives is one of the row's.                     *)
LEMMA Reasons ==
  ASSUME NEW gates, DOMAIN gates \subseteq Nat, NEW S, \A n \in DOMAIN gates : gates[n][2] \in S
  PROVE  /\ ~AllOpen(gates) => FirstClosed(gates) \in S
         /\ \A otherwise \in S : ReasonOr(gates, otherwise) \in S
<1>1. ASSUME ~AllOpen(gates) PROVE FirstClosed(gates) \in S
  <2>1. Closed(gates) # {} /\ Closed(gates) \subseteq DOMAIN gates
    BY <1>1 DEF AllOpen, Closed
  <2>2. \E n \in Closed(gates) : \A k \in Closed(gates) : n <= k
    BY <2>1, Least
  <2> DEFINE n == CHOOSE n \in Closed(gates) : \A k \in Closed(gates) : n <= k
  <2>3. n \in DOMAIN gates
    BY <2>1, <2>2
  <2> QED
    BY <2>3 DEF FirstClosed
<1> QED
  BY <1>1 DEF ReasonOr

(* What a sequence is.                                                     *)
LEMMA SeqFacts ==
  ASSUME NEW S, NEW rows \in Seq(S)
  PROVE  /\ Len(rows) \in Nat /\ DOMAIN rows = 1..Len(rows)
         /\ \A n \in DOMAIN rows : rows[n] \in S
OBVIOUS

(* An entry on a condition, and one sequence after another.                *)
LEMMA Parts ==
  ASSUME NEW S
  PROVE  /\ \A c : \A x \in S : When(c, x) \in Seq(S)
         /\ \A a, b \in Seq(S) : a \o b \in Seq(S)
         /\ <<>> \in Seq(S) /\ \A x \in S : <<x>> \in Seq(S)
BY DEF When

----------------------------------------------------------------------------
(* Governance.                                                             *)

(* The profiles of risk.                                                   *)
LEMMA RisksAre ==
  /\ Risks = {"CONSERVATIVE", "BALANCED", "AGGRESSIVE"}
  /\ \A n \in 1..3 : RiskProfiles[n] \in Risks
BY DEF Risks, RiskProfiles

HistoryRow ==
  [decision_id : Requests, risk : Risks, outcome : {"SUCCESS", "FAIL"}, anomaly : BOOLEAN]

(* The profile that dominates some rows is that of one of them.            *)
LEMMA DominantIsSome ==
  ASSUME NEW rows \in Seq(HistoryRow), NEW positions \in SUBSET DOMAIN rows, positions # {}
  PROVE  \E p \in positions : rows[p].risk = dominantKey(rows, positions)
<1> DEFINE Of(n) == {p \in positions : rows[p].risk = RiskProfiles[n]}
           c(n) == RiskCount(rows, positions, RiskProfiles[n])
           Leads(n) == \A m \in 1..3 : c(m) < c(n) \/ (c(m) = c(n) /\ n <= m)
<1>1. IsFiniteSet(positions)
  <2>1. Len(rows) \in Nat /\ positions \in SUBSET (1..Len(rows))
    OBVIOUS
  <2> QED
    BY <2>1, PositionsAre
<1>2. \A n : c(n) \in Nat /\ (c(n) = 0 <=> Of(n) = {})
  <2> TAKE n
  <2>1. IsFiniteSet(Of(n)) /\ c(n) = Cardinality(Of(n))
    BY <1>1, FS_Subset DEF RiskCount
  <2> QED
    BY <2>1, FS_CardinalityType, FS_EmptySet
<1>3. PICK p \in positions : TRUE
  OBVIOUS
<1>4. \E m \in 1..3 : p \in Of(m)
  <2>1. rows[p] \in HistoryRow
    BY <1>3
  <2>2. rows[p].risk \in Risks
    BY <2>1 DEF HistoryRow
  <2> QED
    BY <1>3, <2>2 DEF Risks
<1>5. PICK m \in 1..3 : c(m) # 0
  <2> HIDE DEF c
  <2> QED
    BY <1>2, <1>4
<1>6. dominantKey(rows, positions) = RiskProfiles[CHOOSE n \in 1..3 : Leads(n)]
  BY DEF dominantKey
<1> HIDE DEF c
<1>7. \E n \in 1..3 : Leads(n)
  <2>1. c(1) \in Nat /\ c(2) \in Nat /\ c(3) \in Nat
    BY <1>2
  <2>2. \/ c(2) <= c(1) /\ c(3) <= c(1)
        \/ c(1) < c(2) /\ c(3) <= c(2)
        \/ c(1) < c(3) /\ c(2) < c(3)
    BY <2>1
  <2>3. 1..3 = {1, 2, 3}
    OBVIOUS
  <2>4. CASE c(2) <= c(1) /\ c(3) <= c(1)
    BY <2>1, <2>3, <2>4
  <2>5. CASE c(1) < c(2) /\ c(3) <= c(2)
    BY <2>1, <2>3, <2>5
  <2>6. CASE c(1) < c(3) /\ c(2) < c(3)
    BY <2>1, <2>3, <2>6
  <2> QED
    BY <2>2, <2>4, <2>5, <2>6
<1>8. PICK n \in 1..3 : n = (CHOOSE k \in 1..3 : Leads(k)) /\ Leads(n)
  BY <1>7
<1>9. c(n) # 0
  BY <1>2, <1>5, <1>8
<1>10. Of(n) # {}
  BY <1>2, <1>9
<1> QED
  BY <1>6, <1>8, <1>10

(* What an isolate infers is the default or the profile of a decision it   *)
(* trusts.                                                                 *)
LEMMA PolicyInferred ==
  ASSUME NEW rows \in Seq(HistoryRow)
  PROVE  /\ resolvePolicy(rows) \in Risks
         /\ resolvePolicy(rows) = "BALANCED"
              \/ \E p \in DOMAIN rows : /\ rows[p].risk = resolvePolicy(rows)
                                        /\ rows[p].outcome = "SUCCESS" /\ ~rows[p].anomaly
<1> DEFINE trusted == filterTrustedHistory(rows)
<1>1. trusted \in SUBSET DOMAIN rows
      /\ \A p \in trusted : rows[p].outcome = "SUCCESS" /\ ~rows[p].anomaly
  BY DEF filterTrustedHistory
<1>2. \A p \in DOMAIN rows : rows[p].risk \in Risks
  <2>1. \A p \in DOMAIN rows : rows[p] \in HistoryRow
    OBVIOUS
  <2> QED
    BY <2>1 DEF HistoryRow
<1>3. CASE trusted = {}
  BY <1>3, RisksAre DEF resolvePolicy
<1>4. CASE trusted # {}
  <2> HIDE DEF trusted
  <2>1. resolvePolicy(rows) = dominantKey(rows, trusted)
    BY <1>4 DEF resolvePolicy, trusted
  <2>2. PICK p \in trusted : rows[p].risk = dominantKey(rows, trusted)
    BY <1>1, <1>4, DominantIsSome
  <2> QED
    BY <1>1, <1>2, <2>1, <2>2
<1> QED
  BY <1>3, <1>4

(* The score of the movements is a number.                                 *)
LEMMA QualityIsNumber ==
  ASSUME NEW s \in Situation
  PROVE  movementQuality(s) \in Int
<1>1. s.validTenths \in 0..10
  BY DEF Situation
<1>2. (70 * s.validTenths) \div 10 \in Int
  BY <1>1
<1> QED
  BY <1>2 DEF movementQuality

(* The plan that is governed is one of the optimizer's type.               *)
LEMMA BestIsPlan ==
  ASSUME NEW s \in Situation, NEW risk, NEW best \in SelectableBest(s, risk)
  PROVE  best \in OptimizerPlan
<1>1. s.best \in OptimizerPlan /\ s.candidates \in SUBSET OptimizerPlan
      /\ s.builtActions \in Seq(ActionKind)
  BY DEF Situation
<1>2. OptimizerCandidates(s) \subseteq OptimizerPlan
  BY <1>1 DEF OptimizerCandidates
<1>3. OptimizerBest(s) \in OptimizerPlan
  <2> DEFINE b == IF s.blockingMismatch
                    THEN [s.best EXCEPT !.kinds = <<>>, !.shortage = FALSE, !.shortfall = 0]
                    ELSE s.best
  <2>1. b \in OptimizerPlan
    <3>1. <<>> \in Seq(ActionKind) /\ 0 \in Nat
      OBVIOUS
    <3> QED
      BY <1>1, <3>1 DEF OptimizerPlan
  <2>2. OptimizerBest(s) = [b EXCEPT !.kinds = IF b.kinds = <<>> THEN s.builtActions ELSE b.kinds]
    BY DEF OptimizerBest
  <2> HIDE DEF b
  <2>3. (IF b.kinds = <<>> THEN s.builtActions ELSE b.kinds) \in Seq(ActionKind)
    BY <1>1, <2>1 DEF OptimizerPlan
  <2> QED
    BY <2>1, <2>2, <2>3 DEF OptimizerPlan
<1>4. best \in OptimizerCandidates(s) \/ best = OptimizerBest(s)
  BY DEF SelectableBest
<1> QED
  BY <1>2, <1>3, <1>4

(* The reasons of an anomaly are among the known ones.                     *)
LEMMA AnomaliesKnown ==
  ASSUME NEW s, NEW best, NEW risk
  PROVE  anomalyReasons(s, best, risk) \in Seq(AnomalyReason)
<1>1. detectDecisionAnomalyV2(s, best, risk) \in Seq(AnomalyReason)
  BY DEF detectDecisionAnomalyV2, When, AnomalyReason
<1>2. When(hasExecutionGap(s), "EXECUTION_MISMATCH") \in Seq(AnomalyReason)
  <2> DEFINE w == When(hasExecutionGap(s), "EXECUTION_MISMATCH")
  <2>1. w = <<"EXECUTION_MISMATCH">> \/ w = <<>>
    BY DEF When
  <2>2. <<"EXECUTION_MISMATCH">> \in Seq(AnomalyReason) /\ <<>> \in Seq(AnomalyReason)
    BY DEF AnomalyReason
  <2> QED
    BY <2>1, <2>2
<1>3. <<"PLAN_INCOHERENT", "STRUCTURAL_REPAIR_REQUIRED">> \in Seq(AnomalyReason)
  BY DEF AnomalyReason
<1>4. When(hasExecutionGap(s), "EXECUTION_MISMATCH") \o detectDecisionAnomalyV2(s, best, risk)
        \in Seq(AnomalyReason)
  BY <1>1, <1>2
<1> QED
  BY <1>3, <1>4 DEF anomalyReasons

(* What enriches a plan, and what the optimizer made, are actions.         *)
LEMMA ActionsMade ==
  /\ \A a \in AnomalyReason \union RepairCode \union CorrectionCode,
        p \in {"LOW", "MEDIUM", "HIGH"},
        b \in BOOLEAN : EnrichedAction(a, p, b) \in GovernedAction
  /\ \A k \in ActionKind : OptimizerAction(k) \in GovernedAction
BY DEF EnrichedAction, OptimizerAction, GovernedAction

(* Without its duplicates a list of actions is one.                        *)
LEMMA DedupeTyped ==
  ASSUME NEW actions \in Seq(GovernedAction)
  PROVE  dedupeRequiredActions(actions) \in Seq(GovernedAction)
<1> DEFINE Key(a) == <<a.action, a.priority, a.blocking>>
           P == {n \in DOMAIN actions :
                   \A m \in DOMAIN actions : m < n => Key(actions[m]) # Key(actions[n])}
<1>1. P \in SUBSET DOMAIN actions
  OBVIOUS
<1>2. dedupeRequiredActions(actions) = Entries(actions, P)
  BY DEF dedupeRequiredActions
<1> HIDE DEF P
<1> QED
  BY <1>1, <1>2, EntriesTyped

(* What is required is a list of actions.                                  *)
LEMMA RequiredTyped ==
  ASSUME NEW s \in Situation, NEW best, NEW risk
  PROVE  requiredActions(s, best, risk) \in Seq(GovernedAction)
<1> DEFINE reasons == anomalyReasons(s, best, risk)
           S == Seq(GovernedAction)
           Correction(c) ==
             EnrichedAction(c.action, IF c.blocking THEN "HIGH" ELSE "MEDIUM", c.blocking)
           a == enrichAnomalyActions(reasons)
           b == When(PlanState(s) = "MISSING",
                     EnrichedAction("DEFINE_PLAN_STRUCTURE", "MEDIUM", FALSE))
           c == [n \in DOMAIN s.corrections |-> Correction(s.corrections[n])]
           d == When(s.bomDrift, EnrichedAction("ALIGN_BOM_AND_ORDERS", "HIGH", TRUE))
           e == When(s.missingConsumption,
                     EnrichedAction("VERIFY_COMPONENT_CONSUMPTION", "HIGH", TRUE))
           f == When(s.unexpectedConsumption,
                     EnrichedAction("VERIFY_UNEXPECTED_COMPONENT_USAGE", "HIGH", TRUE))
           first == IF reasons # <<>> THEN a ELSE b
<1>1. a \in S
  <2>1. reasons \in Seq(AnomalyReason)
    BY AnomaliesKnown
  <2>2. Len(reasons) \in Nat /\ DOMAIN reasons = 1..Len(reasons)
        /\ \A n \in DOMAIN reasons : reasons[n] \in AnomalyReason
    BY <2>1
  <2> HIDE DEF reasons
  <2>3. \A n \in DOMAIN reasons : EnrichedAction(reasons[n], "LOW", FALSE) \in GovernedAction
    BY <2>2, ActionsMade
  <2>4. enrichAnomalyActions(reasons) \in [1..Len(reasons) -> GovernedAction]
    BY <2>2, <2>3 DEF enrichAnomalyActions
  <2>5. Len(reasons) \in Nat
    BY <2>2
  <2> QED
    BY <2>4, <2>5
<1>2. c \in S
  <2>1. s.corrections \in Seq([action : CorrectionCode, blocking : BOOLEAN])
    BY DEF Situation
  <2>2. PICK rows : rows = s.corrections
    OBVIOUS
  <2>3. Len(rows) \in Nat /\ DOMAIN rows = 1..Len(rows)
        /\ \A n \in DOMAIN rows : rows[n] \in [action : CorrectionCode, blocking : BOOLEAN]
    BY <2>1, <2>2, SeqFacts
  <2>4. ASSUME NEW n \in DOMAIN rows PROVE Correction(rows[n]) \in GovernedAction
    <3>1. rows[n].action \in CorrectionCode /\ rows[n].blocking \in BOOLEAN
      BY <2>3
    <3> QED
      BY <3>1, ActionsMade
  <2> HIDE DEF Correction
  <2>5. [n \in DOMAIN rows |-> Correction(rows[n])] \in S
    BY <2>3, <2>4
  <2> QED
    BY <2>2, <2>5
<1>3. b \in S /\ d \in S /\ e \in S /\ f \in S
  <2>1. <<>> \in S /\ \A x \in GovernedAction : <<x>> \in S
    BY Parts, Zenon
  <2>2. /\ EnrichedAction("DEFINE_PLAN_STRUCTURE", "MEDIUM", FALSE) \in GovernedAction
        /\ EnrichedAction("ALIGN_BOM_AND_ORDERS", "HIGH", TRUE) \in GovernedAction
        /\ EnrichedAction("VERIFY_COMPONENT_CONSUMPTION", "HIGH", TRUE) \in GovernedAction
        /\ EnrichedAction("VERIFY_UNEXPECTED_COMPONENT_USAGE", "HIGH", TRUE) \in GovernedAction
    BY ActionsMade DEF RepairCode
  <2> HIDE DEF S
  <2> QED
    BY <2>1, <2>2 DEF When
<1>4. first \in S
  BY <1>1, <1>3
<1>5. requiredActions(s, best, risk) = dedupeRequiredActions(first \o c \o d \o e \o f)
  BY DEF requiredActions
<1> HIDE DEF c, d, e, f, first
<1>6. first \o c \o d \o e \o f \in S
  BY <1>2, <1>3, <1>4
<1> QED
  BY <1>5, <1>6, DedupeTyped

(* So is what is governed.                                                 *)
LEMMA GovernedTyped ==
  ASSUME NEW s \in Situation, NEW best \in OptimizerPlan, NEW risk
  PROVE  GovernedActions(s, best, risk) \in Seq(GovernedAction)
<1>1. repairActions(s) \in Seq(GovernedAction)
  <2> DEFINE S == Seq(GovernedAction)
             a == When(s.topology < 60, EnrichedAction("REBUILD_BOM_GRAPH", "HIGH", TRUE))
             b == When(s.executionGaps # {}, EnrichedAction("RESTORE_MOVEMENT_CHAIN", "HIGH", TRUE))
             c == When(~s.orderEdges, EnrichedAction("RECONSTRUCT_ORDER_FLOW", "HIGH", TRUE))
             d == When(s.bomDrift \/ s.orderBomDrift,
                       EnrichedAction("ALIGN_BOM_AND_ORDERS", "HIGH", TRUE))
             e == When(PlanState(s) = "MISSING",
                       EnrichedAction("DEFINE_PLAN_STRUCTURE", "MEDIUM", FALSE))
             f == << EnrichedAction("REBUILD_PLAN_STRUCTURE", "HIGH", TRUE) >>
  <2>1. <<>> \in S /\ \A x \in GovernedAction : <<x>> \in S
    BY Parts, Zenon
  <2>2. /\ EnrichedAction("REBUILD_BOM_GRAPH", "HIGH", TRUE) \in GovernedAction
        /\ EnrichedAction("RESTORE_MOVEMENT_CHAIN", "HIGH", TRUE) \in GovernedAction
        /\ EnrichedAction("RECONSTRUCT_ORDER_FLOW", "HIGH", TRUE) \in GovernedAction
        /\ EnrichedAction("ALIGN_BOM_AND_ORDERS", "HIGH", TRUE) \in GovernedAction
        /\ EnrichedAction("DEFINE_PLAN_STRUCTURE", "MEDIUM", FALSE) \in GovernedAction
        /\ EnrichedAction("REBUILD_PLAN_STRUCTURE", "HIGH", TRUE) \in GovernedAction
    BY ActionsMade DEF RepairCode
  <2>3. repairActions(s) = a \o b \o c \o d \o e \o f
    BY DEF repairActions
  <2> HIDE DEF S
  <2>4. a \in S /\ b \in S /\ c \in S /\ d \in S /\ e \in S /\ f \in S
    BY <2>1, <2>2 DEF When
  <2> HIDE DEF a, b, c, d, e, f
  <2> USE DEF S
  <2> QED
    BY <2>3, <2>4
<1>2. [n \in DOMAIN best.kinds |-> OptimizerAction(best.kinds[n])] \in Seq(GovernedAction)
  <2>1. best.kinds \in Seq(ActionKind)
    BY DEF OptimizerPlan
  <2>2. PICK rows : rows = best.kinds
    OBVIOUS
  <2>3. Len(rows) \in Nat /\ DOMAIN rows = 1..Len(rows)
        /\ \A n \in DOMAIN rows : rows[n] \in ActionKind
    BY <2>1, <2>2
  <2>4. \A n \in DOMAIN rows : OptimizerAction(rows[n]) \in GovernedAction
    BY <2>3, ActionsMade
  <2>5. [n \in DOMAIN rows |-> OptimizerAction(rows[n])] \in Seq(GovernedAction)
    BY <2>3, <2>4
  <2> QED
    BY <2>2, <2>5
<1>3. [n \in DOMAIN best.kinds |-> OptimizerAction(best.kinds[n])] \o requiredActions(s, best, risk)
        \in Seq(GovernedAction)
  BY <1>2, RequiredTyped
<1> QED
  BY <1>1, <1>3, DedupeTyped DEF GovernedActions

(* What is let through is of the types that are allowed.                   *)
LEMMA AllowedTyped ==
  ASSUME NEW actions \in Seq(GovernedAction), NEW authority
  PROVE  /\ allowedActions(actions, authority) \in Seq(GovernedAction)
         /\ authority.allowed =>
              \A n \in DOMAIN allowedActions(actions, authority) :
                mapExecutionType(ActionType(allowedActions(actions, authority)[n]))
                  \in authority.types
<1> DEFINE Let(a) == mapExecutionType(ActionType(a)) \in authority.types
           P == {n \in DOMAIN actions : Let(actions[n])}
<1>1. P \in SUBSET DOMAIN actions /\ \A n \in P : Let(actions[n])
  OBVIOUS
<1>2. allowedActions(actions, authority) =
        IF authority.allowed THEN Entries(actions, P) ELSE actions
  BY DEF allowedActions
<1> HIDE DEF P
<1>3. /\ Entries(actions, P) \in Seq(GovernedAction)
      /\ \A k \in DOMAIN Entries(actions, P) : \E n \in P : Entries(actions, P)[k] = actions[n]
  BY <1>1, EntriesTyped
<1>4. \A k \in DOMAIN Entries(actions, P) : Let(Entries(actions, P)[k])
  <2> TAKE k \in DOMAIN Entries(actions, P)
  <2>1. PICK n \in P : Entries(actions, P)[k] = actions[n]
    BY <1>3
  <2> QED
    BY <1>1, <2>1
<1> QED
  BY <1>2, <1>3, <1>4

(* What a decision that allows execution is allowed to do for a case.      *)
Authorised(case, d) ==
  LET s == case.situation
      call == case.call
      Only(type) == \A n \in DOMAIN d.actions : mapExecutionType(ActionType(d.actions[n])) = type
  IN  /\ movementQuality(s) < 50 => Only("DATA_REPAIR")
      /\ movementQuality(s) >= 50 =>
           Intent(call) = "EXECUTE" /\ call.plan \in {"JUNIOR", "SENIOR", "PRINCIPAL"}
      /\ movementQuality(s) >= 50 /\ isPlanRepairMode(s) =>
           call.plan = "SENIOR" /\ Only("PLAN_REPAIR")
      /\ ~(s.bomDrift /\ d.risk = "CONSERVATIVE")

(* The reasons of a hard block.                                            *)
LEMMA BlocksAre ==
  ASSUME NEW s, NEW best, NEW risk
  PROVE  /\ DOMAIN HardBlocks(s, best, risk) \subseteq Nat
         /\ \A n \in DOMAIN HardBlocks(s, best, risk) :
              HardBlocks(s, best, risk)[n][2] \in GovernanceReason
         /\ AllOpen(HardBlocks(s, best, risk)) => ~(s.bomDrift /\ risk = "CONSERVATIVE")
<1>1. /\ DOMAIN HardBlocks(s, best, risk) \subseteq Nat
      /\ \A n \in DOMAIN HardBlocks(s, best, risk) :
              HardBlocks(s, best, risk)[n][2] \in GovernanceReason
  BY DEF HardBlocks, GovernanceReason
<1>2. 3 \in DOMAIN HardBlocks(s, best, risk)
      /\ HardBlocks(s, best, risk)[3] =
           <<~(s.bomDrift /\ risk = "CONSERVATIVE"), "BLOCKED_BY_BOM_DRIFT">>
  BY DEF HardBlocks
<1>3. AllOpen(HardBlocks(s, best, risk)) => HardBlocks(s, best, risk)[3][1]
  BY <1>2 DEF AllOpen, Closed
<1>4. HardBlocks(s, best, risk)[3][1] = ~(s.bomDrift /\ risk = "CONSERVATIVE")
  BY <1>2
<1> QED
  BY <1>1, <1>3, <1>4

Grants(authority, s, plan, intent) ==
  /\ authority.allowed \in BOOLEAN /\ authority.reason \in GovernanceReason
  /\ movementQuality(s) < 50 => authority.types = {"DATA_REPAIR"}
  /\ movementQuality(s) >= 50 /\ authority.allowed =>
       intent = "EXECUTE" /\ plan \in {"JUNIOR", "SENIOR", "PRINCIPAL"}
  /\ movementQuality(s) >= 50 /\ isPlanRepairMode(s) =>
       /\ authority.types = {"PLAN_REPAIR"}
       /\ authority.allowed => plan = "SENIOR"

(* What the plan, the intent and the data give authority for.              *)
LEMMA AuthorityIs ==
  ASSUME NEW s \in Situation, NEW plan, NEW intent
  PROVE  Grants(ExecutionAuthority(s, plan, intent), s, plan, intent)
<1>1. movementQuality(s) \in Int
  BY QualityIsNumber
<1>2. CASE movementQuality(s) < 50
  BY <1>1, <1>2 DEF ExecutionAuthority, GovernanceReason, Grants
<1>3. CASE movementQuality(s) >= 50 /\ isPlanRepairMode(s)
  <2>1. CASE plan = "SENIOR" /\ intent = "EXECUTE"
    BY <1>1, <1>3, <2>1 DEF ExecutionAuthority, GovernanceReason, Grants
  <2>2. CASE ~(plan = "SENIOR" /\ intent = "EXECUTE")
    BY <1>1, <1>3, <2>2 DEF ExecutionAuthority, GovernanceReason, Grants
  <2> QED
    BY <2>1, <2>2
<1>4. CASE movementQuality(s) >= 50 /\ ~isPlanRepairMode(s)
  <2>1. CASE intent = "EXECUTE" /\ plan \in {"JUNIOR", "SENIOR", "PRINCIPAL"}
    BY <1>1, <1>4, <2>1 DEF ExecutionAuthority, GovernanceReason, executionAllowedByPlan, Grants
  <2>2. CASE ~(intent = "EXECUTE" /\ plan \in {"JUNIOR", "SENIOR", "PRINCIPAL"})
    <3>1. executionAllowedByPlan(plan, intent) = FALSE
      BY <2>2 DEF executionAllowedByPlan
    <3>2. ExecutionAuthority(s, plan, intent).allowed = FALSE
          /\ ExecutionAuthority(s, plan, intent).reason = "ADVISORY_ONLY"
      BY <1>1, <1>4, <3>1 DEF ExecutionAuthority
    <3> DEFINE a == ExecutionAuthority(s, plan, intent)
    <3>3. ~a.allowed /\ a.allowed \in BOOLEAN
      BY <3>2
    <3>4. a.reason \in GovernanceReason
      BY <3>2 DEF GovernanceReason
    <3>5. ~(movementQuality(s) < 50)
      BY <1>1, <1>4
    <3>6. ~isPlanRepairMode(s)
      BY <1>4
    <3> HIDE DEF a
    <3>7. Grants(a, s, plan, intent)
      BY <3>3, <3>4, <3>5, <3>6, Zenon DEF Grants
    <3> QED
      BY <3>7 DEF a
  <2> QED
    BY <2>1, <2>2
<1>5. movementQuality(s) < 50 \/ movementQuality(s) >= 50
  BY <1>1
<1> QED
  BY <1>2, <1>3, <1>4, <1>5, Zenon

(* What is governed is a decision, and allows nothing beyond the authority *)
(* of the case.                                                            *)
LEMMA GovernedIs ==
  ASSUME NEW case \in Cases, NEW risk \in Risks, NEW best \in OptimizerPlan
  PROVE  LET d == Governed(case.situation, case.call, best, risk)
         IN  /\ d \in Decision /\ d.risk = risk
             /\ d.executionAllowed => Authorised(case, d)
<1> DEFINE s == case.situation
           call == case.call
           authority == ExecutionAuthority(s, call.plan, Intent(call))
           governed == GovernedActions(s, best, risk)
           actions == allowedActions(governed, authority)
           blocks == HardBlocks(s, best, risk)
           idle == authority.allowed /\ actions = <<>>
           otherwise == IF idle THEN "NO_ALLOWED_ACTIONS" ELSE authority.reason
           d == Governed(s, call, best, risk)
<1>1. s \in Situation
  BY CasesAssumption
<1>2. actions \in Seq(GovernedAction)
      /\ (authority.allowed =>
            \A n \in DOMAIN actions : mapExecutionType(ActionType(actions[n])) \in authority.types)
  <2>1. governed \in Seq(GovernedAction)
    BY <1>1, GovernedTyped
  <2> HIDE DEF governed, authority
  <2> QED
    BY <2>1, AllowedTyped
<1>3. Grants(authority, s, call.plan, Intent(call))
  BY <1>1, AuthorityIs
<1>4. otherwise \in GovernanceReason
  BY <1>3 DEF GovernanceReason, Grants
<1>5. ReasonOr(blocks, otherwise) \in GovernanceReason
      /\ (AllOpen(blocks) => ~(s.bomDrift /\ risk = "CONSERVATIVE"))
  <2> HIDE DEF otherwise
  <2> QED
    BY <1>4, BlocksAre, Reasons
<1>6. d = [executionAllowed |-> authority.allowed /\ ~idle /\ AllOpen(blocks),
           reason |-> ReasonOr(blocks, otherwise), actions |-> actions, risk |-> risk,
           anomaly |-> anomalyReasons(s, best, risk) # <<>>]
  BY DEF Governed
<1> HIDE DEF authority, actions, blocks, otherwise, d
<1>7. d \in Decision
  BY <1>2, <1>5, <1>6 DEF Decision
<1>8. d.executionAllowed => authority.allowed /\ AllOpen(blocks)
  BY <1>6
<1>9. d.risk = risk /\ d.actions = actions
  BY <1>6
<1>10. d.executionAllowed => Authorised(case, d)
  BY <1>2, <1>3, <1>5, <1>8, <1>9 DEF Authorised, Grants
<1> QED
  BY <1>7, <1>9, <1>10 DEF d

(* What governance may come to.                                            *)
LEMMA GovernanceIs ==
  ASSUME NEW case \in Cases, NEW risk \in Risks, NEW g \in Governance[case][risk]
  PROVE  /\ g.decision \in Decision /\ g.decision.risk = risk
         /\ g.outcome \in {NoValue, "SUCCESS", "FAIL"}
         /\ g.decision.executionAllowed => Authorised(case, g.decision)
<1> DEFINE s == case.situation
           plans == SelectableBest(s, risk)
<1>1. s \in Situation
  BY CasesAssumption
<1>2. Governance[case][risk] =
        IF plans = {} THEN {[outcome |-> NoValue, decision |-> Ungoverned(s, risk)]}
        ELSE { [outcome |-> validateDecisionOutcome(best),
                decision |-> Governed(s, case.call, best, risk)] : best \in plans }
  <2>1. Governance[case][risk] = Governing(case, risk)
    BY DEF Governance
  <2> QED
    BY <2>1 DEF Governing
<1> HIDE DEF plans
<1>3. CASE plans = {}
  <2>1. g.decision = Ungoverned(s, risk) /\ g.outcome = NoValue
    BY <1>2, <1>3
  <2>2. <<>> \in Seq(GovernedAction)
    BY Parts, Zenon
  <2>3. Ungoverned(s, risk) \in Decision /\ Ungoverned(s, risk).risk = risk
        /\ ~Ungoverned(s, risk).executionAllowed
    BY <2>2 DEF Ungoverned, Decision, GovernanceReason
  <2> QED
    BY <2>1, <2>3
<1>4. CASE plans # {}
  <2>1. PICK best \in plans : g = [outcome |-> validateDecisionOutcome(best),
                                   decision |-> Governed(s, case.call, best, risk)]
    BY <1>2, <1>4
  <2>2. best \in OptimizerPlan
    BY <1>1, BestIsPlan DEF plans
  <2>3. g.outcome \in {"SUCCESS", "FAIL"} /\ g.decision = Governed(s, case.call, best, risk)
    BY <2>1 DEF validateDecisionOutcome
  <2> QED
    BY <2>2, <2>3, GovernedIs
<1> QED
  BY <1>3, <1>4

----------------------------------------------------------------------------
(* The invariant.                                                          *)

Stages == {"IDLE", "VERIFIED", "ANALYSED", "EXECUTING", "RESOLVED", "CONCLUDING", "ANSWERED"}

Entry(x) ==
  /\ x = [action |-> x.action, capability |-> x.capability, status |-> x.status]
  /\ x.status \in Statuses

(* A trace is of the first actions of its decision, which allows them.     *)
TraceStands(t, d) ==
  /\ t \in Seq({t[n] : n \in DOMAIN t})
  /\ Len(t) <= Len(d.actions)
  /\ \A n \in DOMAIN t : \E x : x = t[n] /\ Entry(x) /\ x.action = d.actions[n]
  /\ t # <<>> => d.executionAllowed

(* What there is of a request fits the await it is at, and what was        *)
(* decided of it is within its authority.                                  *)
RequestStands(at, in, d, t, c, a) ==
  /\ at \in Stages
  /\ in \in Cases \union {NoValue}
  /\ at # "IDLE" => in \in Cases
  /\ at \in {"IDLE", "VERIFIED", "ANALYSED"} => d = NoValue
  /\ at \in {"EXECUTING", "RESOLVED", "CONCLUDING"} => d # NoValue
  /\ at \in {"EXECUTING", "RESOLVED"} => d.executionAllowed
  /\ at = "RESOLVED" => Len(t) < Len(d.actions)
  /\ (at = "RESOLVED") <=> (c # NoValue)
  /\ (at = "ANSWERED") <=> (a # NoValue)
  /\ a \in Answer \union {NoValue}
  /\ d = NoValue => t = <<>>
  /\ d # NoValue =>
       /\ in \in Cases /\ d \in Decision
       /\ d.executionAllowed => Authorised(in, d)
       /\ TraceStands(t, d)

Stands(r) == RequestStands(stage[r], input[r], decision[r], trace[r], chosen[r], answer[r])

Shapes ==
  /\ stage = [r \in Requests |-> stage[r]]
  /\ input = [r \in Requests |-> input[r]]
  /\ decision = [r \in Requests |-> decision[r]]
  /\ trace = [r \in Requests |-> trace[r]]
  /\ chosen = [r \in Requests |-> chosen[r]]
  /\ answer = [r \in Requests |-> answer[r]]

HistoryStands ==
  /\ history \in Seq(HistoryRow)
  /\ \A n \in DOMAIN history : decision[history[n].decision_id] # NoValue

(* A decision a policy may be inferred from, of a request that asked for   *)
(* its profile itself.                                                     *)
Trusted(n) == history[n].outcome = "SUCCESS" /\ ~history[n].anomaly

OriginAt(n, risk) ==
  /\ history[n].risk = risk
  /\ Trusted(n)
  /\ AskedFor(Override(input[history[n].decision_id].call), risk)

Origins ==
  \A risk \in Risks \ {"BALANCED"} :
    (\E m \in DOMAIN history : Trusted(m) /\ history[m].risk = risk) =>
      \E n \in DOMAIN history : OriginAt(n, risk)

SandboxInvariant ==
  /\ Shapes
  /\ \A r \in Requests : Stands(r)
  /\ HistoryStands
  /\ Origins
  /\ PolicyHasOrigin

(* No row of history, and nothing decided or carried, is changed later.    *)
Others(r) ==
  \A q \in Requests \ {r} :
    /\ stage'[q] = stage[q] /\ input'[q] = input[q] /\ decision'[q] = decision[q]
    /\ trace'[q] = trace[q] /\ chosen'[q] = chosen[q] /\ answer'[q] = answer[q]

----------------------------------------------------------------------------
(* The steps.                                                              *)

(* A decision or an answer is not the absent value.                        *)
LEMMA Present ==
  /\ \A d \in Decision : d # NoValue
  /\ \A a \in Answer : a # NoValue
BY NoValueAssumption

(* A step is of one request.                                               *)
LEMMA OneRequest ==
  ASSUME Shapes, NEW r \in Requests, Receive(r) \/ Advance(r)
  PROVE  Shapes' /\ Others(r)
<1>1. CASE Receive(r)
  BY <1>1 DEF Receive, Shapes, Others, Goto, Refuse
<1>2. CASE Analyse(r)
  BY <1>2 DEF Analyse, Shapes, Others, Goto, Refuse
<1>3. CASE Govern(r)
  BY <1>3 DEF Govern, Shapes, Others, Goto
<1>4. CASE Resolve(r)
  BY <1>4 DEF Resolve, Shapes, Others, Goto, Traced
<1>5. CASE Perform(r)
  BY <1>5 DEF Perform, Shapes, Others, Goto, Traced
<1>6. CASE ExecuteBatch(r)
  BY <1>6 DEF ExecuteBatch, Shapes, Others, Goto
<1>7. CASE Conclude(r)
  BY <1>7 DEF Conclude, Shapes, Others, Goto, Refuse
<1> QED
  BY <1>1, <1>2, <1>3, <1>4, <1>5, <1>6, <1>7 DEF Advance

(* A request that is refused is told of a reason the code has.             *)
LEMMA RefusalsAnswer ==
  ASSUME NEW call
  PROVE  ~AllOpen(EntryGates(call)) => FirstClosed(EntryGates(call)) \in RefusalReason
<1>1. DOMAIN EntryGates(call) \subseteq Nat
      /\ \A n \in DOMAIN EntryGates(call) : EntryGates(call)[n][2] \in RefusalReason
  BY DEF EntryGates, RouteGates, verifyRuntimeSnapshot, RefusalReason
<1> QED
  BY <1>1, Reasons

(* An answer that refuses is one.                                          *)
LEMMA RefusalIs ==
  \A reason \in RefusalReason : [ok |-> FALSE, reason |-> reason] \in Answer
BY DEF Answer

(* A request that is received.                                             *)
LEMMA ReceiveStands ==
  ASSUME Shapes, NEW r \in Requests, Stands(r), Receive(r)
  PROVE  Stands(r)'
<1>1. PICK case \in Cases :
        /\ input' = [input EXCEPT ![r] = case]
        /\ \/ AllOpen(EntryGates(case.call)) /\ Goto(r, "VERIFIED") /\ UNCHANGED answer
           \/ ~AllOpen(EntryGates(case.call)) /\ Refuse(r, FirstClosed(EntryGates(case.call)))
  BY DEF Receive
<1>2. stage[r] = "IDLE" /\ UNCHANGED <<decision, trace, chosen>>
  BY DEF Receive
<1>3. input'[r] = case
  BY <1>1 DEF Shapes
<1>4. decision[r] = NoValue /\ trace[r] = <<>> /\ chosen[r] = NoValue /\ answer[r] = NoValue
  BY <1>2 DEF Stands, RequestStands
<1>5. CASE Goto(r, "VERIFIED") /\ UNCHANGED answer
  <2>1. stage'[r] = "VERIFIED"
    BY <1>5 DEF Goto, Shapes
  <2> QED
    BY <1>2, <1>3, <1>4, <1>5, <2>1 DEF Stands, RequestStands, Stages
<1>6. CASE ~AllOpen(EntryGates(case.call)) /\ Refuse(r, FirstClosed(EntryGates(case.call)))
  <2>1. stage'[r] = "ANSWERED"
        /\ answer'[r] = [ok |-> FALSE, reason |-> FirstClosed(EntryGates(case.call))]
    BY <1>6 DEF Refuse, Goto, Shapes
  <2>2. answer'[r] \in Answer
    BY <1>6, <2>1, RefusalsAnswer, RefusalIs
  <2>3. answer'[r] # NoValue
    BY <2>2, Present
  <2> QED
    BY <1>2, <1>3, <1>4, <2>1, <2>2, <2>3 DEF Stands, RequestStands, Stages
<1> QED
  BY <1>1, <1>5, <1>6

(* A request that is analysed.                                             *)
LEMMA AnalyseStands ==
  ASSUME Shapes, NEW r \in Requests, Stands(r), Analyse(r)
  PROVE  Stands(r)'
<1>1. stage[r] = "VERIFIED" /\ UNCHANGED <<input, decision, trace, chosen>>
  BY DEF Analyse
<1>2. \/ Goto(r, "ANALYSED") /\ UNCHANGED answer
      \/ Refuse(r, "DL_FAILED")
  BY DEF Analyse
<1>3. CASE Goto(r, "ANALYSED") /\ UNCHANGED answer
  <2>1. stage'[r] = "ANALYSED"
    BY <1>3 DEF Goto, Shapes
  <2> QED
    BY <1>1, <1>3, <2>1 DEF Stands, RequestStands, Stages
<1>4. CASE Refuse(r, "DL_FAILED")
  <2>1. stage'[r] = "ANSWERED" /\ answer'[r] = [ok |-> FALSE, reason |-> "DL_FAILED"]
    BY <1>4 DEF Refuse, Goto, Shapes
  <2>2. answer'[r] \in Answer
    BY <2>1, RefusalIs DEF RefusalReason
  <2>3. answer'[r] # NoValue
    BY <2>2, Present
  <2> QED
    BY <1>1, <2>1, <2>2, <2>3 DEF Stands, RequestStands, Stages
<1> QED
  BY <1>2, <1>3, <1>4

(* The policy of a request.                                                *)
PolicyOf(r) ==
  overlayPolicyWithManagerBehavior(resolvePolicy(history), Override(input[r].call))

(* It is asked for, or inferred from the history.                          *)
LEMMA PolicyIs ==
  ASSUME HistoryStands, NEW r
  PROVE  /\ PolicyOf(r) \in Risks
         /\ \/ PolicyOf(r) = "BALANCED"
            \/ AskedFor(Override(input[r].call), PolicyOf(r))
            \/ \E p \in DOMAIN history : Trusted(p) /\ history[p].risk = PolicyOf(r)
<1>1. /\ resolvePolicy(history) \in Risks
      /\ \/ resolvePolicy(history) = "BALANCED"
         \/ \E p \in DOMAIN history : Trusted(p) /\ history[p].risk = resolvePolicy(history)
  BY PolicyInferred DEF HistoryStands, Trusted
<1>2. \/ PolicyOf(r) = resolvePolicy(history)
      \/ PolicyOf(r) = "CONSERVATIVE" /\ Override(input[r].call) = "SAFE"
      \/ PolicyOf(r) = "AGGRESSIVE" /\ Override(input[r].call) = "AGGRESSIVE"
  BY DEF PolicyOf, overlayPolicyWithManagerBehavior
<1> QED
  BY <1>1, <1>2, RisksAre DEF AskedFor

(* What a request that is governed is decided, and what is recorded.       *)
LEMMA GovernIs ==
  ASSUME Shapes, HistoryStands, NEW r \in Requests, Stands(r), Govern(r)
  PROVE  /\ stage[r] = "ANALYSED" /\ decision[r] = NoValue /\ input[r] \in Cases
         /\ decision'[r] \in Decision /\ decision'[r].risk = PolicyOf(r)
         /\ decision'[r].executionAllowed => Authorised(input[r], decision'[r])
         /\ stage'[r] = IF decision'[r].executionAllowed THEN "EXECUTING" ELSE "CONCLUDING"
         /\ \/ history' = history
            \/ \E o \in {"SUCCESS", "FAIL"} :
                 history' = Append(history, [decision_id |-> r, risk |-> decision'[r].risk,
                                             outcome |-> o, anomaly |-> decision'[r].anomaly])
<1>1. stage[r] = "ANALYSED"
  BY DEF Govern
<1>2. decision[r] = NoValue /\ input[r] \in Cases
  BY <1>1 DEF Stands, RequestStands
<1>3. PICK g \in Governance[input[r]][PolicyOf(r)] :
        /\ decision' = [decision EXCEPT ![r] = g.decision]
        /\ Goto(r, IF g.decision.executionAllowed THEN "EXECUTING" ELSE "CONCLUDING")
        /\ recordDecision(r, g)
  BY DEF Govern, PolicyOf
<1>4. decision'[r] = g.decision
      /\ stage'[r] = IF g.decision.executionAllowed THEN "EXECUTING" ELSE "CONCLUDING"
  BY <1>3 DEF Goto, Shapes
<1>5. /\ g.decision \in Decision /\ g.decision.risk = PolicyOf(r)
      /\ g.outcome \in {NoValue, "SUCCESS", "FAIL"}
      /\ g.decision.executionAllowed => Authorised(input[r], g.decision)
  BY <1>2, <1>3, PolicyIs, GovernanceIs
<1>6. \/ history' = history
      \/ g.outcome # NoValue
         /\ history' = Append(history, [decision_id |-> r, risk |-> g.decision.risk,
                                        outcome |-> g.outcome, anomaly |-> g.decision.anomaly])
  BY <1>3 DEF recordDecision
<1> QED
  BY <1>1, <1>2, <1>4, <1>5, <1>6

(* A request that is governed.                                             *)
LEMMA GovernStands ==
  ASSUME Shapes, HistoryStands, NEW r \in Requests, Stands(r), Govern(r)
  PROVE  Stands(r)'
<1>1. UNCHANGED <<input, trace, chosen, answer>>
  BY DEF Govern
<1>2. /\ stage[r] = "ANALYSED" /\ decision[r] = NoValue /\ input[r] \in Cases
      /\ decision'[r] \in Decision
      /\ decision'[r].executionAllowed => Authorised(input[r], decision'[r])
      /\ stage'[r] = IF decision'[r].executionAllowed THEN "EXECUTING" ELSE "CONCLUDING"
  BY GovernIs
<1>3. decision'[r] # NoValue
  BY <1>2, Present
<1>4. trace[r] = <<>> /\ chosen[r] = NoValue /\ answer[r] = NoValue
  BY <1>2 DEF Stands, RequestStands
<1>5. TraceStands(<<>>, decision'[r])
  <2>1. decision'[r].actions \in Seq(GovernedAction)
    BY <1>2 DEF Decision
  <2>2. Len(decision'[r].actions) \in Nat
    BY <2>1
  <2> QED
    BY <2>2 DEF TraceStands
<1>6. stage'[r] \in {"EXECUTING", "CONCLUDING"}
      /\ (stage'[r] = "EXECUTING" => decision'[r].executionAllowed)
  BY <1>2
<1> QED
  BY <1>1, <1>2, <1>3, <1>4, <1>5, <1>6 DEF Stands, RequestStands, Stages

(* A trace one entry longer.                                               *)
LEMMA TraceGrows ==
  ASSUME NEW d, d.executionAllowed, Len(d.actions) \in Nat,
         NEW t, TraceStands(t, d), Len(t) < Len(d.actions),
         NEW x, Entry(x), x.action = d.actions[Len(t) + 1]
  PROVE  TraceStands(Append(t, x), d) /\ Append(t, x) # <<>>
<1> DEFINE u == Append(t, x)
           S == {t[n] : n \in DOMAIN t} \union {x}
<1>1. t \in Seq({t[n] : n \in DOMAIN t})
  BY DEF TraceStands
<1>2. t \in Seq(S)
  <2>1. \A n \in DOMAIN t : t[n] \in S
    OBVIOUS
  <2>2. Len(t) \in Nat /\ t = [n \in 1..Len(t) |-> t[n]] /\ DOMAIN t = 1..Len(t)
    BY <1>1
  <2> HIDE DEF S
  <2> QED
    BY <2>1, <2>2
<1>3. /\ Len(t) \in Nat /\ DOMAIN t = 1..Len(t)
      /\ u \in Seq(S) /\ Len(u) = Len(t) + 1 /\ DOMAIN u = 1..(Len(t) + 1)
      /\ \A n \in DOMAIN t : u[n] = t[n]
      /\ u[Len(t) + 1] = x
  <2>1. x \in S
    OBVIOUS
  <2> HIDE DEF S
  <2> QED
    BY <1>2, <2>1
<1>4. u \in Seq({u[n] : n \in DOMAIN u})
  <2>1. u = [n \in 1..Len(u) |-> u[n]] /\ Len(u) \in Nat /\ DOMAIN u = 1..Len(u)
    <3> HIDE DEF S, u
    <3> QED
      BY <1>3
  <2> DEFINE V == {u[n] : n \in DOMAIN u}
  <2>2. \A n \in DOMAIN u : u[n] \in V
    OBVIOUS
  <2> HIDE DEF V, u
  <2>3. u \in Seq(V)
    BY <2>1, <2>2
  <2> QED
    BY <2>3 DEF V
<1>5. \A n \in DOMAIN u : \E y : y = u[n] /\ Entry(y) /\ y.action = d.actions[n]
  <2> TAKE n \in DOMAIN u
  <2>1. CASE n = Len(t) + 1
    BY <1>3, <2>1
  <2>2. CASE n # Len(t) + 1
    <3>1. n \in DOMAIN t
      BY <1>3, <2>2
    <3>2. u[n] = t[n]
      BY <1>3, <3>1
    <3> QED
      BY <3>1, <3>2 DEF TraceStands
  <2> QED
    BY <2>1, <2>2
<1>6. Len(u) <= Len(d.actions) /\ u # <<>>
  BY <1>3
<1> QED
  BY <1>4, <1>5, <1>6 DEF TraceStands

(* What is traced of the next action.                                      *)
LEMMA TracedStands ==
  ASSUME Shapes, NEW r \in Requests, Stands(r), stage[r] \in {"EXECUTING", "RESOLVED"},
         HasNextAction(r), NEW id, NEW status \in Statuses, Traced(r, id, status)
  PROVE  TraceStands(trace'[r], decision[r])
<1> DEFINE x == [action |-> NextAction(r), capability |-> id, status |-> status]
<1>1. /\ decision[r] # NoValue /\ decision[r].executionAllowed
      /\ decision[r] \in Decision /\ TraceStands(trace[r], decision[r])
  BY DEF Stands, RequestStands
<1>2. trace'[r] = Append(trace[r], x)
  BY DEF Traced, Shapes
<1>3. Len(decision[r].actions) \in Nat
  <2>1. decision[r].actions \in Seq(GovernedAction)
    BY <1>1 DEF Decision
  <2> QED
    BY <2>1
<1>4. Entry(x) /\ x.action = decision[r].actions[Len(trace[r]) + 1]
  BY DEF Entry, NextAction
<1>5. Len(trace[r]) < Len(decision[r].actions)
  BY DEF HasNextAction
<1> HIDE DEF x
<1> QED
  BY <1>1, <1>2, <1>3, <1>4, <1>5, TraceGrows

(* A request that resolves its next action.                                *)
LEMMA ResolveStands ==
  ASSUME Shapes, NEW r \in Requests, Stands(r), Resolve(r)
  PROVE  Stands(r)'
<1>1. /\ stage[r] = "EXECUTING" /\ HasNextAction(r)
      /\ UNCHANGED <<input, decision, answer>>
  BY DEF Resolve
<1>2. /\ input[r] \in Cases /\ decision[r] # NoValue /\ decision[r].executionAllowed
      /\ decision[r] \in Decision /\ Authorised(input[r], decision[r])
      /\ TraceStands(trace[r], decision[r])
      /\ chosen[r] = NoValue /\ answer[r] = NoValue
  BY <1>1 DEF Stands, RequestStands
<1>3. PICK id :
        \/ /\ Traced(r, NoValue, StatusWithoutCapability(ActionType(NextAction(r))))
           /\ UNCHANGED <<stage, chosen>>
        \/ /\ id # NoValue /\ Goto(r, "RESOLVED")
           /\ chosen' = [chosen EXCEPT ![r] = id] /\ UNCHANGED trace
  BY DEF Resolve
<1>4. CASE /\ Traced(r, NoValue, StatusWithoutCapability(ActionType(NextAction(r))))
           /\ UNCHANGED <<stage, chosen>>
  <2>1. StatusWithoutCapability(ActionType(NextAction(r))) \in Statuses
    BY DEF StatusWithoutCapability, Statuses
  <2>2. TraceStands(trace'[r], decision[r])
    BY <1>1, <1>4, <2>1, TracedStands
  <2> QED
    BY <1>1, <1>2, <1>4, <2>2 DEF Stands, RequestStands, Stages
<1>5. CASE /\ id # NoValue /\ Goto(r, "RESOLVED")
           /\ chosen' = [chosen EXCEPT ![r] = id] /\ UNCHANGED trace
  <2>1. stage'[r] = "RESOLVED" /\ chosen'[r] = id
    BY <1>5 DEF Goto, Shapes
  <2>2. Len(trace[r]) < Len(decision[r].actions)
    BY <1>1 DEF HasNextAction
  <2> QED
    BY <1>1, <1>2, <1>5, <2>1, <2>2 DEF Stands, RequestStands, Stages
<1> QED
  BY <1>3, <1>4, <1>5

(* A request that performs the action it resolved.                         *)
LEMMA PerformStands ==
  ASSUME Shapes, NEW r \in Requests, Stands(r), Perform(r)
  PROVE  Stands(r)'
<1>1. /\ stage[r] = "RESOLVED" /\ Goto(r, "EXECUTING")
      /\ chosen' = [chosen EXCEPT ![r] = NoValue]
      /\ UNCHANGED <<input, decision, answer>>
  BY DEF Perform
<1>2. /\ input[r] \in Cases /\ decision[r] # NoValue /\ decision[r].executionAllowed
      /\ decision[r] \in Decision /\ Authorised(input[r], decision[r])
      /\ Len(trace[r]) < Len(decision[r].actions) /\ answer[r] = NoValue
  BY <1>1 DEF Stands, RequestStands
<1>3. \E id : \E status \in Statuses : Traced(r, id, status)
  <2> DEFINE result == executeCapability(chosen[r], input[r].call.plan, Payload(r))
  <2>1. result \in {"THREW", "SKIPPED", "PENDING_APPROVAL", "EXECUTED"}
    BY DEF executeCapability
  <2>2. \/ Traced(r, NoValue, "FALLBACK_TO_RUNTIME")
        \/ result # "THREW" /\ Traced(r, chosen[r], result)
    BY DEF Perform
  <2> HIDE DEF result
  <2>3. "FALLBACK_TO_RUNTIME" \in Statuses
        /\ (result # "THREW" => result \in Statuses)
    BY <2>1 DEF Statuses
  <2> QED
    BY <2>2, <2>3
<1>4. HasNextAction(r)
  BY <1>2 DEF HasNextAction
<1>5. TraceStands(trace'[r], decision[r])
  BY <1>1, <1>3, <1>4, TracedStands
<1>6. stage'[r] = "EXECUTING" /\ chosen'[r] = NoValue
  BY <1>1 DEF Goto, Shapes
<1> QED
  BY <1>1, <1>2, <1>5, <1>6 DEF Stands, RequestStands, Stages

(* A request whose batch is executed: the entries left to it have failed,  *)
(* or are as they were.                                                    *)
LEMMA BatchTraceStands ==
  ASSUME NEW d, NEW t, TraceStands(t, d), NEW threw
  PROVE  TraceStands([n \in DOMAIN t |->
           IF threw /\ t[n].status = "FALLBACK_TO_RUNTIME"
             THEN [t[n] EXCEPT !.status = "FAILED"] ELSE t[n]], d)
<1> DEFINE Kept(x) == IF threw /\ x.status = "FALLBACK_TO_RUNTIME"
                        THEN [x EXCEPT !.status = "FAILED"] ELSE x
           u == [n \in DOMAIN t |-> Kept(t[n])]
           V == {u[n] : n \in DOMAIN u}
<1>1. Len(t) \in Nat /\ DOMAIN t = 1..Len(t) /\ Len(t) <= Len(d.actions)
      /\ (t # <<>> => d.executionAllowed)
  BY DEF TraceStands
<1>2. \A n \in DOMAIN t : \E x : x = u[n] /\ Entry(x) /\ x.action = d.actions[n]
  <2> TAKE n \in DOMAIN t
  <2>1. PICK x : x = t[n] /\ Entry(x) /\ x.action = d.actions[n]
    BY DEF TraceStands
  <2>2. u[n] = Kept(x)
    BY <2>1
  <2>3. Entry(Kept(x)) /\ Kept(x).action = x.action
    BY <2>1 DEF Entry, Statuses
  <2> HIDE DEF Kept, u
  <2> QED
    BY <2>1, <2>2, <2>3
<1>3. u \in Seq(V) /\ Len(u) = Len(t) /\ DOMAIN u = DOMAIN t
  <2>1. \A n \in DOMAIN t : u[n] \in V
    OBVIOUS
  <2>2. u = [n \in 1..Len(t) |-> u[n]] /\ DOMAIN u = 1..Len(t)
    BY <1>1
  <2> HIDE DEF V, u, Kept
  <2> QED
    BY <1>1, <2>1, <2>2
<1>4. u # <<>> => t # <<>>
  <2>1. Len(t) = 0 => u = <<>>
    <3> HIDE DEF Kept, u, V
    <3> QED
      BY <1>3
  <2> HIDE DEF Kept, u, V
  <2> QED
    BY <2>1
<1>6. TraceStands(u, d)
  <2>1. u \in Seq({u[n] : n \in DOMAIN u})
    BY <1>3
  <2> HIDE DEF Kept, u, V
  <2> QED
    BY <1>1, <1>2, <1>3, <1>4, <2>1 DEF TraceStands
<1> QED
  BY <1>6

(* A request whose batch is executed.                                      *)
LEMMA ExecuteBatchStands ==
  ASSUME Shapes, NEW r \in Requests, Stands(r), ExecuteBatch(r)
  PROVE  Stands(r)'
<1>1. /\ stage[r] = "EXECUTING" /\ Goto(r, "CONCLUDING")
      /\ UNCHANGED <<input, decision, chosen, answer>>
  BY DEF ExecuteBatch
<1>2. /\ input[r] \in Cases /\ decision[r] # NoValue /\ decision[r].executionAllowed
      /\ decision[r] \in Decision /\ Authorised(input[r], decision[r])
      /\ TraceStands(trace[r], decision[r])
      /\ chosen[r] = NoValue /\ answer[r] = NoValue
  BY <1>1 DEF Stands, RequestStands
<1>3. trace'[r] = [n \in DOMAIN trace[r] |->
         IF RuntimeBatch(r).threw /\ trace[r][n].status = "FALLBACK_TO_RUNTIME"
           THEN [trace[r][n] EXCEPT !.status = "FAILED"] ELSE trace[r][n]]
  BY DEF ExecuteBatch, Shapes
<1>4. TraceStands(trace'[r], decision[r])
  BY <1>2, <1>3, BatchTraceStands
<1>5. stage'[r] = "CONCLUDING"
  BY <1>1 DEF Goto, Shapes
<1> QED
  BY <1>1, <1>2, <1>4, <1>5 DEF Stands, RequestStands, Stages

(* An answer that reports an execution is one.                             *)
LEMMA ReportIs ==
  ASSUME NEW g \in SpokenWords \union {NoValue}, NEW allowed \in BOOLEAN,
         NEW reason \in GovernanceReason,
         NEW o \in {"BLOCKED", "SUCCESS", "PARTIAL", "FAILED"}
  PROVE  [ok |-> TRUE, governance |-> g, executionAllowed |-> allowed,
          reason |-> reason, outcome |-> o] \in Answer
BY DEF Answer

(* A request that is answered in the end.                                  *)
LEMMA ConcludeStands ==
  ASSUME Shapes, NEW r \in Requests, Stands(r), Conclude(r)
  PROVE  Stands(r)'
<1>1. /\ stage[r] = "CONCLUDING"
      /\ UNCHANGED <<input, decision, trace, chosen>>
  BY DEF Conclude
<1>2. /\ input[r] \in Cases /\ decision[r] # NoValue /\ decision[r] \in Decision
      /\ decision[r].executionAllowed => Authorised(input[r], decision[r])
      /\ TraceStands(trace[r], decision[r]) /\ chosen[r] = NoValue
  BY <1>1 DEF Stands, RequestStands
<1>3. stage'[r] = "ANSWERED" /\ answer'[r] \in Answer
  <2>1. CASE Refuse(r, "DATABASE_ERROR")
    <3>1. "DATABASE_ERROR" \in RefusalReason
      BY DEF RefusalReason
    <3> QED
      BY <2>1, <3>1, RefusalIs DEF Refuse, Goto, Shapes
  <2>2. CASE ~Refuse(r, "DATABASE_ERROR")
    <3>1. stage'[r] = "ANSWERED"
          /\ answer'[r] = [ok |-> TRUE, governance |-> SpokenGovernance(input[r].call),
               executionAllowed |-> decision[r].executionAllowed,
               reason |-> decision[r].reason, outcome |-> executionOutcome(r)]
      BY <2>2 DEF Conclude, Goto, Shapes
    <3>2. SpokenGovernance(input[r].call) \in SpokenWords \union {NoValue}
      BY DEF SpokenGovernance, translateGovernance, SpokenWords
    <3>3. decision[r].executionAllowed \in BOOLEAN /\ decision[r].reason \in GovernanceReason
      BY <1>2 DEF Decision
    <3>4. executionOutcome(r) \in {"BLOCKED", "SUCCESS", "PARTIAL", "FAILED"}
      BY DEF executionOutcome
    <3> QED
      BY <3>1, <3>2, <3>3, <3>4, ReportIs
  <2> QED
    BY <2>1, <2>2
<1>4. answer'[r] # NoValue
  BY <1>3, Present
<1> QED
  BY <1>1, <1>2, <1>3, <1>4 DEF Stands, RequestStands, Stages

----------------------------------------------------------------------------
(* The history.                                                            *)

(* What is decided stays, with what it was decided of, and the history     *)
(* only grows, by the row of the request that is governed.                 *)
Grown(r) ==
  /\ \A q \in Requests : decision[q] # NoValue =>
       decision'[q] = decision[q] /\ input'[q] = input[q]
  /\ \/ history' = history /\ decision' = decision
     \/ history' = history /\ Govern(r)
     \/ /\ Govern(r)
        /\ \E o \in {"SUCCESS", "FAIL"} :
             history' = Append(history, [decision_id |-> r, risk |-> decision'[r].risk,
                                         outcome |-> o, anomaly |-> decision'[r].anomaly])

LEMMA HistoryGrows ==
  ASSUME SandboxInvariant, NEW r \in Requests, Receive(r) \/ Advance(r)
  PROVE  Grown(r)
<1>1. Shapes /\ HistoryStands /\ Stands(r)
  BY DEF SandboxInvariant
<1>2. Others(r)
  BY <1>1, OneRequest
<1>3. decision[r] # NoValue => decision'[r] = decision[r] /\ input'[r] = input[r]
  <2>1. CASE Receive(r)
    BY <1>1, <2>1 DEF Receive, Stands, RequestStands
  <2>2. CASE Govern(r)
    BY <1>1, <2>2 DEF Govern, Stands, RequestStands
  <2>3. CASE ~Receive(r) /\ ~Govern(r)
    BY <2>3 DEF Advance, Analyse, Resolve, Perform, ExecuteBatch, Conclude
  <2> QED
    BY <2>1, <2>2, <2>3
<1>4. \A q \in Requests : decision[q] # NoValue =>
        decision'[q] = decision[q] /\ input'[q] = input[q]
  BY <1>2, <1>3 DEF Others
<1>5. CASE Govern(r)
  BY <1>1, <1>4, <1>5, GovernIs DEF Grown
<1>6. CASE ~Govern(r)
  <2>1. history' = history /\ decision' = decision
    BY <1>6 DEF Advance, Receive, Analyse, Resolve, Perform, ExecuteBatch, Conclude
  <2> QED
    BY <1>4, <2>1 DEF Grown
<1> QED
  BY <1>5, <1>6

(* Of the request that is governed, in short.                              *)
LEMMA GovernedRequest ==
  ASSUME SandboxInvariant, NEW r \in Requests, Govern(r)
  PROVE  /\ decision[r] = NoValue /\ decision'[r] \in Decision /\ decision'[r] # NoValue
         /\ decision'[r].risk = PolicyOf(r) /\ decision'[r].risk \in Risks
         /\ decision'[r].anomaly \in BOOLEAN
         /\ input'[r] = input[r]
         /\ \/ PolicyOf(r) = "BALANCED"
            \/ AskedFor(Override(input[r].call), PolicyOf(r))
            \/ \E p \in DOMAIN history : OriginAt(p, PolicyOf(r))
<1>1. Shapes /\ HistoryStands /\ Stands(r) /\ Origins
  BY DEF SandboxInvariant
<1>2. decision[r] = NoValue /\ decision'[r] \in Decision /\ decision'[r].risk = PolicyOf(r)
  BY <1>1, GovernIs
<1>3. \/ PolicyOf(r) = "BALANCED"
      \/ AskedFor(Override(input[r].call), PolicyOf(r))
      \/ \E p \in DOMAIN history : OriginAt(p, PolicyOf(r))
  <2>1. CASE PolicyOf(r) # "BALANCED"
             /\ \E p \in DOMAIN history : Trusted(p) /\ history[p].risk = PolicyOf(r)
    BY <1>1, <2>1, PolicyIs DEF Origins
  <2> QED
    BY <1>1, <2>1, PolicyIs
<1>4. decision'[r].risk \in Risks /\ decision'[r].anomaly \in BOOLEAN
  BY <1>2 DEF Decision
<1>5. input' = input
  BY DEF Govern
<1> QED
  BY <1>2, <1>3, <1>4, <1>5, Present

(* A row of the history stays where it was.                                *)
LEMMA RowsStay ==
  ASSUME SandboxInvariant, NEW r \in Requests, Grown(r)
  PROVE  /\ history' \in Seq(HistoryRow)
         /\ \A n \in DOMAIN history : n \in DOMAIN history' /\ history'[n] = history[n]
         /\ history' # history => Govern(r)
         /\ \A n \in DOMAIN history' \ DOMAIN history :
              /\ Govern(r) /\ history'[n].decision_id = r
              /\ history'[n].risk = decision'[r].risk
<1>1. history \in Seq(HistoryRow)
  BY DEF SandboxInvariant, HistoryStands
<1>2. CASE history' = history
  BY <1>1, <1>2
<1>3. CASE history' # history
  <2>1. Govern(r)
    BY <1>3 DEF Grown
  <2>2. PICK o \in {"SUCCESS", "FAIL"} :
          history' = Append(history, [decision_id |-> r, risk |-> decision'[r].risk,
                                      outcome |-> o, anomaly |-> decision'[r].anomaly])
    BY <1>3 DEF Grown
  <2> DEFINE row == [decision_id |-> r, risk |-> decision'[r].risk,
                     outcome |-> o, anomaly |-> decision'[r].anomaly]
  <2>3. row \in HistoryRow
    BY <2>1, GovernedRequest DEF HistoryRow
  <2>4. row.decision_id = r /\ row.risk = decision'[r].risk
    OBVIOUS
  <2> HIDE DEF row
  <2>5. history' = Append(history, row)
    BY <2>2 DEF row
  <2> QED
    BY <1>1, <2>1, <2>3, <2>4, <2>5
<1> QED
  BY <1>2, <1>3

(* The history stands after a step.                                        *)
LEMMA HistoryStandsOn ==
  ASSUME SandboxInvariant, NEW r \in Requests, Grown(r)
  PROVE  HistoryStands'
<1>1. history' \in Seq(HistoryRow)
  BY RowsStay
<1>2. \A n \in DOMAIN history' : decision'[history'[n].decision_id] # NoValue
  <2> TAKE n \in DOMAIN history'
  <2>1. CASE n \in DOMAIN history
    <3>1. history'[n] = history[n] /\ history[n] \in HistoryRow
          /\ decision[history[n].decision_id] # NoValue
      BY <2>1, RowsStay DEF SandboxInvariant, HistoryStands
    <3>2. history[n].decision_id \in Requests
      BY <3>1 DEF HistoryRow
    <3> QED
      BY <3>1, <3>2 DEF Grown
  <2>2. CASE n \notin DOMAIN history
    <3>1. Govern(r) /\ history'[n].decision_id = r
      BY <2>2, RowsStay
    <3> QED
      BY <3>1, GovernedRequest
  <2> QED
    BY <2>1, <2>2
<1> QED
  BY <1>1, <1>2 DEF HistoryStands

(* An origin stays one.                                                    *)
LEMMA OriginStays ==
  ASSUME SandboxInvariant, NEW r \in Requests, Grown(r),
         NEW n \in DOMAIN history, NEW risk, OriginAt(n, risk)
  PROVE  n \in DOMAIN history' /\ OriginAt(n, risk)'
<1>1. n \in DOMAIN history' /\ history'[n] = history[n]
  BY RowsStay
<1>2. history[n] \in HistoryRow /\ decision[history[n].decision_id] # NoValue
  BY DEF SandboxInvariant, HistoryStands
<1>3. history[n].decision_id \in Requests
  BY <1>2 DEF HistoryRow
<1>4. input'[history[n].decision_id] = input[history[n].decision_id]
  BY <1>2, <1>3 DEF Grown
<1> QED
  BY <1>1, <1>4 DEF OriginAt, Trusted

(* Every trusted profile has its origin after a step.                      *)
LEMMA OriginsStand ==
  ASSUME SandboxInvariant, NEW r \in Requests, Grown(r)
  PROVE  Origins'
<1> SUFFICES ASSUME NEW risk \in Risks \ {"BALANCED"}, NEW m \in DOMAIN history',
                    Trusted(m)', history'[m].risk = risk
             PROVE  \E n \in DOMAIN history' : OriginAt(n, risk)'
  BY DEF Origins
<1>1. CASE m \in DOMAIN history
  <2>1. history'[m] = history[m] /\ Trusted(m)
    BY <1>1, RowsStay DEF Trusted
  <2>2. PICK n \in DOMAIN history : OriginAt(n, risk)
    BY <1>1, <2>1 DEF SandboxInvariant, Origins
  <2>3. n \in DOMAIN history' /\ OriginAt(n, risk)'
    BY <2>2, OriginStays
  <2> QED
    BY <2>3
<1>2. CASE m \notin DOMAIN history
  <2>1. /\ Govern(r) /\ history'[m].decision_id = r
        /\ risk = decision'[r].risk
    BY <1>2, RowsStay
  <2>2. \/ AskedFor(Override(input'[r].call), risk)
        \/ \E p \in DOMAIN history : OriginAt(p, risk)
    BY <2>1, GovernedRequest
  <2>3. CASE AskedFor(Override(input'[r].call), risk)
    <3>1. OriginAt(m, risk)'
      BY <1>2, <2>1, <2>3 DEF OriginAt
    <3> QED
      BY <3>1
  <2>4. CASE \E p \in DOMAIN history : OriginAt(p, risk)
    <3>1. PICK p \in DOMAIN history : OriginAt(p, risk)
      BY <2>4
    <3>2. p \in DOMAIN history' /\ OriginAt(p, risk)'
      BY <3>1, OriginStays
    <3> QED
      BY <3>2
  <2> QED
    BY <2>2, <2>3, <2>4
<1> QED
  BY <1>1, <1>2

(* Every policy has its origin after a step.                               *)
LEMMA PolicyOriginStands ==
  ASSUME SandboxInvariant, NEW r \in Requests, Grown(r), Others(r)
  PROVE  PolicyHasOrigin'
<1> SUFFICES ASSUME NEW q \in Requests, decision'[q] # NoValue,
                    NEW risk, risk = decision'[q].risk, risk # "BALANCED"
             PROVE  \/ AskedFor(Override(input'[q].call), risk)
                    \/ \E n \in DOMAIN history' :
                         history'[n].decision_id # q /\ OriginAt(n, risk)'
  BY DEF PolicyHasOrigin, OriginAt, Trusted
<1>1. CASE decision[q] # NoValue
  <2>1. decision'[q] = decision[q] /\ input'[q] = input[q]
    BY <1>1 DEF Grown
  <2>2. \/ AskedFor(Override(input'[q].call), risk)
        \/ \E n \in DOMAIN history : history[n].decision_id # q /\ OriginAt(n, risk)
    BY <1>1, <2>1 DEF SandboxInvariant, PolicyHasOrigin, OriginAt, Trusted
  <2>3. CASE \E n \in DOMAIN history : history[n].decision_id # q /\ OriginAt(n, risk)
    <3>1. PICK n \in DOMAIN history : history[n].decision_id # q /\ OriginAt(n, risk)
      BY <2>3
    <3>2. n \in DOMAIN history' /\ OriginAt(n, risk)' /\ history'[n] = history[n]
      BY <3>1, OriginStays, RowsStay
    <3> QED
      BY <3>1, <3>2
  <2> QED
    BY <2>2, <2>3
<1>2. CASE decision[q] = NoValue
  <2>1. decision' # decision
    BY <1>2
  <2>2. Govern(r)
    BY <2>1 DEF Grown
  <2>3. q = r
    BY <1>2 DEF Others
  <2>4. risk = PolicyOf(r) /\ input'[r] = input[r]
        /\ (\/ AskedFor(Override(input[r].call), PolicyOf(r))
            \/ \E p \in DOMAIN history : OriginAt(p, PolicyOf(r)))
    BY <2>2, <2>3, GovernedRequest
  <2>5. CASE \E p \in DOMAIN history : OriginAt(p, risk)
    <3>1. PICK p \in DOMAIN history : OriginAt(p, risk)
      BY <2>5
    <3>2. p \in DOMAIN history' /\ OriginAt(p, risk)' /\ history'[p] = history[p]
      BY <3>1, OriginStays, RowsStay
    <3>3. decision[history[p].decision_id] # NoValue
      BY <3>1 DEF SandboxInvariant, HistoryStands
    <3> QED
      BY <1>2, <3>1, <3>2, <3>3
  <2> QED
    BY <2>3, <2>4, <2>5
<1> QED
  BY <1>1, <1>2

----------------------------------------------------------------------------
(* The theorems.                                                           *)

(* The invariant holds in the beginning.                                   *)
LEMMA InitSandboxInvariant ==
  Init => SandboxInvariant
<1> SUFFICES ASSUME Init PROVE SandboxInvariant
  OBVIOUS
<1>1. Shapes
  BY DEF Init, Shapes
<1>2. \A r \in Requests : Stands(r)
  <2> TAKE r \in Requests
  <2>1. /\ stage[r] = "IDLE" /\ input[r] = NoValue /\ decision[r] = NoValue
        /\ trace[r] = <<>> /\ chosen[r] = NoValue /\ answer[r] = NoValue
    BY DEF Init
  <2> QED
    BY <2>1 DEF Stands, RequestStands, Stages
<1>3. history = <<>> /\ history \in Seq(HistoryRow) /\ DOMAIN history = {}
  BY DEF Init
<1>4. HistoryStands /\ Origins
  BY <1>3 DEF HistoryStands, Origins
<1>5. PolicyHasOrigin
  BY DEF Init, PolicyHasOrigin
<1> QED
  BY <1>1, <1>2, <1>4, <1>5 DEF SandboxInvariant

(* Every step keeps the invariant.                                         *)
LEMMA NextSandboxInvariant ==
  SandboxInvariant /\ [Next]_vars => SandboxInvariant'
<1> SUFFICES ASSUME SandboxInvariant, [Next]_vars PROVE SandboxInvariant'
  OBVIOUS
<1>1. CASE UNCHANGED vars
  BY <1>1 DEF vars, SandboxInvariant, Shapes, Stands, HistoryStands, Origins, OriginAt, Trusted,
              PolicyHasOrigin
<1>2. ASSUME NEW r \in Requests, Receive(r) \/ Advance(r) PROVE SandboxInvariant'
  <2>1. Shapes /\ HistoryStands /\ \A q \in Requests : Stands(q)
    BY DEF SandboxInvariant
  <2>2. Shapes' /\ Others(r)
    BY <1>2, <2>1, OneRequest
  <2>3. Stands(r)'
    BY <1>2, <2>1, ReceiveStands, AnalyseStands, GovernStands, ResolveStands, PerformStands,
       ExecuteBatchStands, ConcludeStands DEF Advance
  <2>4. \A q \in Requests : Stands(q)'
    <3> TAKE q \in Requests
    <3>1. CASE q # r
      <4>1. Stands(q)
        BY <2>1
      <4> QED
        BY <2>2, <3>1, <4>1 DEF Others, Stands
    <3> QED
      BY <2>3, <3>1
  <2>5. Grown(r)
    BY <1>2, HistoryGrows
  <2>6. HistoryStands' /\ Origins' /\ PolicyHasOrigin'
    BY <2>2, <2>5, HistoryStandsOn, OriginsStand, PolicyOriginStands
  <2> QED
    BY <2>2, <2>4, <2>6 DEF SandboxInvariant
<1> QED
  BY <1>1, <1>2 DEF Next

(* Whatever requests there are, of whatever cases, what stands of one      *)
(* stands between any two awaits.                                          *)
THEOREM SandboxStands == Spec => []SandboxInvariant
BY InitSandboxInvariant, NextSandboxInvariant, PTL DEF Spec

(* Between two awaits a request has what the await needs, a trace of the   *)
(* first of its actions, a decision and an answer of the kinds the code    *)
(* makes, and the history is of requests that were governed.               *)
THEOREM TypeCorrect == Spec => []TypeOK
<1>1. SandboxInvariant => TypeOK
  <2> SUFFICES ASSUME SandboxInvariant PROVE TypeOK
    OBVIOUS
  <2>1. Shapes /\ HistoryStands /\ \A r \in Requests : Stands(r)
    BY DEF SandboxInvariant
  <2>2. stage \in [Requests -> Stages]
    BY <2>1 DEF Shapes, Stands, RequestStands
  <2>3. ASSUME NEW r \in Requests
        PROVE  /\ input[r] \in Cases \union {NoValue}
               /\ decision[r] \in Decision \union {NoValue}
               /\ answer[r] \in Answer \union {NoValue}
               /\ \A n \in DOMAIN trace[r] : trace[r][n].status \in Statuses
               /\ decision[r] = NoValue => trace[r] = <<>>
               /\ decision[r] # NoValue =>
                    /\ Len(trace[r]) <= Len(decision[r].actions)
                    /\ \A n \in DOMAIN trace[r] : trace[r][n].action = decision[r].actions[n]
               /\ (stage[r] = "RESOLVED") <=> (chosen[r] # NoValue)
               /\ (stage[r] = "ANSWERED") <=> (answer[r] # NoValue)
    <3>1. Stands(r)
      BY <2>1
    <3>2. CASE decision[r] = NoValue
      BY <3>1, <3>2 DEF Stands, RequestStands
    <3>3. CASE decision[r] # NoValue
      BY <3>1, <3>3 DEF Stands, RequestStands, TraceStands, Entry
    <3> QED
      BY <3>2, <3>3
  <2> QED
    BY <2>1, <2>2, <2>3 DEF TypeOK, Stages, HistoryStands
<1> QED
  BY <1>1, SandboxStands, PTL

(* What is attempted for a request stays within what its plan, its intent  *)
(* and the quality of its data allow.                                      *)
THEOREM AuthorityKept == Spec => []ActedWithinAuthority
<1>1. SandboxInvariant => ActedWithinAuthority
  <2> SUFFICES ASSUME SandboxInvariant, NEW r \in Requests, trace[r] # <<>>
               PROVE
                 LET s    == input[r].situation
                     call == input[r].call
                     Only(type) == \A n \in DOMAIN trace[r] :
                                     mapExecutionType(ActionType(trace[r][n].action)) = type
                 IN  /\ movementQuality(s) < 50 => Only("DATA_REPAIR")
                     /\ movementQuality(s) >= 50 =>
                          /\ Intent(call) = "EXECUTE"
                          /\ call.plan \in {"JUNIOR", "SENIOR", "PRINCIPAL"}
                     /\ movementQuality(s) >= 50 /\ isPlanRepairMode(s) =>
                          call.plan = "SENIOR" /\ Only("PLAN_REPAIR")
                     /\ ~(s.bomDrift /\ decision[r].risk = "CONSERVATIVE")
    BY DEF ActedWithinAuthority
  <2>1. Stands(r)
    BY DEF SandboxInvariant
  <2>2. TraceStands(trace[r], decision[r]) /\ decision[r] \in Decision
        /\ (decision[r].executionAllowed => Authorised(input[r], decision[r]))
    BY <2>1 DEF Stands, RequestStands
  <2>3. Authorised(input[r], decision[r])
    BY <2>2 DEF TraceStands
  <2>4. \A n \in DOMAIN trace[r] : n \in DOMAIN decision[r].actions
                                   /\ trace[r][n].action = decision[r].actions[n]
    <3>1. decision[r].actions \in Seq(GovernedAction)
      BY <2>2 DEF Decision
    <3>2. /\ DOMAIN trace[r] = 1..Len(trace[r]) /\ Len(trace[r]) \in Nat
          /\ Len(trace[r]) <= Len(decision[r].actions)
          /\ \A n \in DOMAIN trace[r] : trace[r][n].action = decision[r].actions[n]
      BY <2>2 DEF TraceStands, Entry
    <3>3. DOMAIN decision[r].actions = 1..Len(decision[r].actions)
          /\ Len(decision[r].actions) \in Nat
      BY <3>1
    <3> QED
      BY <3>2, <3>3
  <2> QED
    BY <2>3, <2>4 DEF Authorised
<1> QED
  BY <1>1, SandboxStands, PTL

(* A conservative or aggressive policy goes back to a request that asked   *)
(* for it, however long the chain of decisions it was inferred along.      *)
THEOREM OriginOfPolicy == Spec => []PolicyHasOrigin
<1>1. SandboxInvariant => PolicyHasOrigin
  BY DEF SandboxInvariant
<1> QED
  BY <1>1, SandboxStands, PTL
=============================================================================
