--------------------------- MODULE PlatformProofs ---------------------------
(***************************************************************************)
(* The services of the platform, for any number of subscriptions,          *)
(* evaluations, requests and bootstraps: attention reports what was asked  *)
(* for and hides no news, the usage ledger tells what was answered, and    *)
(* there is one policy registry.                                           *)
(***************************************************************************)
EXTENDS Platform, FiniteSetTheorems, WellFoundedInduction, TLAPS

(* Attention.                                                              *)

AttentionSpec == AttentionInit /\ [][AttentionNext \/ PolicyNext]_attentionVars

(* A row as the code writes it: nothing pauses or resolves one.            *)
Standing == {s \in AttentionSubscription : s.status \in {"ACTIVE", "EXPIRED", "DISABLED"}}

RowsStand == subscriptions \in [Ids -> Standing \union {Absent}]

(* What the event reports its subscription asked for, in time.             *)
Justified(event) ==
  /\ event \in AttentionEvent
  /\ Row(event.attention_id)
  /\ LET s == subscriptions[event.attention_id]
     IN  /\ event.triggered_at < s.expires_at
         /\ s.wish.context_id = event.context_id
         /\ s.wish.noise_policy = "CRITICAL_ONLY" => s.wish.priority = "CRITICAL"

Marked(event) == subscriptions[event.attention_id].last_triggered_at # Unset

(* An evaluation in progress read rows that are there, and its events are  *)
(* justified and marked, or still to be marked.                            *)
EvaluationStands(k) ==
  /\ k \in AttentionEvaluation
  /\ k.at <= now
  /\ \A n \in DOMAIN k.rows : Row(k.rows[n])
  /\ \A i \in k.pending : Row(i)
  /\ \A event \in k.triggered :
       Justified(event) /\ (event.attention_id \in k.pending \/ Marked(event))

InHand(k) == k \in {NotBegun, Finished} \/ EvaluationStands(k)

AttentionInvariant ==
  /\ now \in 1..MaxTime
  /\ RowsStand
  /\ evaluation = [e \in Evaluations |-> evaluation[e]]
  /\ \A e \in Evaluations : \E k : k = evaluation[e] /\ InHand(k)
  /\ \A event \in reported : Justified(event) /\ Marked(event)
  /\ inbox \in Seq(News)

(* What a step leaves of a row.                                            *)
Onward ==
  \A i \in Ids : Row(i) =>
    /\ Row(i)'
    /\ subscriptions'[i].wish = subscriptions[i].wish
    /\ subscriptions'[i].expires_at = subscriptions[i].expires_at
    /\ subscriptions[i].last_triggered_at # Unset =>
         subscriptions'[i].last_triggered_at # Unset

Sticks ==
  \A i \in Ids : subscriptions[i].status = "DISABLED" =>
    subscriptions'[i].status = "DISABLED"

(* An event stays justified, and marked, while rows go onward.             *)
LEMMA JustifiedOnward ==
  ASSUME Onward, NEW event
  PROVE  /\ Justified(event) => Justified(event)'
         /\ Justified(event) /\ Marked(event) => Marked(event)'
<1>1. Justified(event) => event.attention_id \in Ids
  BY DEF Justified, AttentionEvent
<1> QED
  BY <1>1 DEF Justified, Marked, Onward

(* An evaluation in progress stands while rows go onward and time does not *)
(* go back.                                                                *)
LEMMA EvaluationOnward ==
  ASSUME Onward, now' >= now, now \in Int, now' \in Int, NEW k, EvaluationStands(k)
  PROVE  EvaluationStands(k)'
<1>1. k \in AttentionEvaluation /\ k.at <= now /\ k.at \in Int
  BY AttentionBounds DEF EvaluationStands, AttentionEvaluation
<1>2. /\ \A n \in DOMAIN k.rows : k.rows[n] \in Ids
      /\ \A i \in k.pending : i \in Ids
  <2>1. k.rows \in Seq(Ids) /\ k.pending \in SUBSET Ids
    BY <1>1 DEF AttentionEvaluation
  <2> QED
    BY <2>1
<1>3. /\ \A n \in DOMAIN k.rows : Row(k.rows[n])'
      /\ \A i \in k.pending : Row(i)'
  BY <1>2 DEF EvaluationStands, Onward
<1>4. \A event \in k.triggered :
        Justified(event)' /\ (event.attention_id \in k.pending \/ Marked(event)')
  BY JustifiedOnward DEF EvaluationStands
<1> QED
  BY <1>1, <1>3, <1>4 DEF EvaluationStands

(* A step that moves rows onward, and evaluations to ones that stand,      *)
(* keeps the invariant.                                                    *)
LEMMA SubscriptionStep ==
  ASSUME AttentionInvariant, RowsStand', Onward, UNCHANGED <<now, reported, inbox>>,
         evaluation' = [e \in Evaluations |-> evaluation'[e]],
         \A e \in Evaluations : \E k :
            k = evaluation'[e] /\ (k = evaluation[e] \/ InHand(k)')
  PROVE  AttentionInvariant'
<1>1. now \in Int /\ now' \in Int /\ now' >= now
  BY AttentionBounds DEF AttentionInvariant
<1>2. ASSUME NEW e \in Evaluations
      PROVE  \E k : k = evaluation'[e] /\ InHand(k)'
  <2> PICK k : k = evaluation'[e] /\ (k = evaluation[e] \/ InHand(k)')
    OBVIOUS
  <2>1. CASE k = evaluation[e]
    <3>1. InHand(k)
      BY <2>1 DEF AttentionInvariant
    <3>2. InHand(k)'
      BY <1>1, <3>1, EvaluationOnward DEF InHand, NotBegun, Finished
    <3> QED
      BY <3>2
  <2> QED
    BY <2>1
<1>3. \A event \in reported : Justified(event)' /\ Marked(event)'
  BY JustifiedOnward DEF AttentionInvariant
<1> QED
  BY <1>2, <1>3 DEF AttentionInvariant

(* A step of one evaluation that leaves the rows alone keeps the           *)
(* invariant.                                                              *)
LEMMA EvaluationStep ==
  ASSUME AttentionInvariant, UNCHANGED <<now, subscriptions, inbox>>,
         NEW e \in Evaluations, NEW k, evaluation' = [evaluation EXCEPT ![e] = k],
         k = Finished \/ EvaluationStands(k),
         \A event \in reported' : event \in reported \/ (Justified(event) /\ Marked(event))
  PROVE  AttentionInvariant'
<1>1. ASSUME NEW x \in Evaluations
      PROVE  \E n : n = evaluation'[x] /\ InHand(n)
  BY DEF AttentionInvariant, InHand
<1>2. ASSUME NEW x \in Evaluations
      PROVE  \E n : n = evaluation'[x] /\ InHand(n)'
  <2> PICK n : n = evaluation'[x] /\ InHand(n)
    BY <1>1
  <2>1. InHand(n)'
    BY DEF InHand, EvaluationStands, Justified, Marked, Row, NotBegun, Finished
  <2> QED
    BY <2>1
<1>3. \A event \in reported' : Justified(event)' /\ Marked(event)'
  BY DEF AttentionInvariant, Justified, Marked, Row
<1>4. evaluation' = [x \in Evaluations |-> evaluation'[x]]
  BY DEF AttentionInvariant
<1> QED
  BY <1>2, <1>3, <1>4 DEF AttentionInvariant, RowsStand

(* A place of the table holds a row as the code writes it, or none.        *)
LEMMA StandingKnown ==
  ASSUME RowsStand, NEW i \in Ids
  PROVE  /\ Row(i) <=> subscriptions[i] \in Standing
         /\ ~Row(i) <=> subscriptions[i] = Absent
         /\ Row(i) => subscriptions[i].status # "ABSENT"
         /\ Absent.status # "DISABLED" /\ Absent.status # "ACTIVE"
BY DEF RowsStand, Standing, Row, Absent

(* Replacing one row by one of the same wish and expiry, that remembers    *)
(* its trigger, moves the table onward.                                    *)
LEMMA RowReplaced ==
  ASSUME RowsStand, NEW i \in Ids, NEW s, s \in Standing,
         subscriptions' = [subscriptions EXCEPT ![i] = s],
         Row(i) => /\ s.wish = subscriptions[i].wish
                   /\ s.expires_at = subscriptions[i].expires_at
                   /\ subscriptions[i].last_triggered_at # Unset => s.last_triggered_at # Unset
                   /\ subscriptions[i].status = "DISABLED" => s.status = "DISABLED"
  PROVE  RowsStand' /\ Onward /\ Sticks
<1>1. s # Absent
  BY DEF Standing, Absent
<1>2. subscriptions' \in [Ids -> Standing \union {Absent}]
  BY DEF RowsStand
<1>3. subscriptions'[i] = s /\ \A j \in Ids : j # i => subscriptions'[j] = subscriptions[j]
  BY DEF RowsStand
<1>4. RowsStand'
  BY <1>2 DEF RowsStand, Standing, Absent, AttentionSubscription, Never
<1>5. Onward
  BY <1>1, <1>3 DEF Onward, Row, Absent
<1>6. Sticks
  BY <1>3, StandingKnown DEF Sticks
<1> QED
  BY <1>4, <1>5, <1>6

(* A new row keeps the invariant and enables nothing that was disabled.    *)
LEMMA KeepsCreate ==
  ASSUME AttentionInvariant, NEW i \in Ids, NEW wish \in Wishes, NEW expires_at \in 1..Never,
         create(i, wish, expires_at)
  PROVE  AttentionInvariant' /\ Sticks
<1> PICK s : s = [wish |-> wish, status |-> "ACTIVE", expires_at |-> expires_at,
                  created_at |-> now, last_checked_at |-> Unset, last_triggered_at |-> Unset]
  OBVIOUS
<1>1. s \in Standing
  BY AttentionBounds DEF Standing, AttentionSubscription, AttentionStatus, AttentionInvariant, Unset
<1>2. ~Row(i) /\ subscriptions' = [subscriptions EXCEPT ![i] = s]
       /\ UNCHANGED <<now, evaluation, reported, inbox>>
  BY DEF create, Row
<1>3. RowsStand' /\ Onward /\ Sticks
  BY <1>1, <1>2, RowReplaced DEF AttentionInvariant
<1> QED
  BY <1>2, <1>3, SubscriptionStep DEF AttentionInvariant

(* So does disabling one.                                                  *)
LEMMA KeepsDisable ==
  ASSUME AttentionInvariant, NEW i \in Ids, disable(i)
  PROVE  AttentionInvariant' /\ Sticks
<1> PICK s : s = [subscriptions[i] EXCEPT !.status = "DISABLED"]
  OBVIOUS
<1>1. Row(i) /\ subscriptions' = [subscriptions EXCEPT ![i] = s]
       /\ UNCHANGED <<now, evaluation, reported, inbox>>
  BY DEF disable, updateStatus
<1>2. subscriptions[i] \in Standing
  BY <1>1, StandingKnown DEF AttentionInvariant
<1>3. s \in Standing /\ s.wish = subscriptions[i].wish
        /\ s.expires_at = subscriptions[i].expires_at
        /\ s.last_triggered_at = subscriptions[i].last_triggered_at
        /\ s.status = "DISABLED"
  BY <1>2 DEF Standing, AttentionSubscription, AttentionStatus
<1>4. RowsStand' /\ Onward /\ Sticks
  BY <1>1, <1>3, RowReplaced DEF AttentionInvariant
<1> QED
  BY <1>1, <1>4, SubscriptionStep DEF AttentionInvariant

(* So does an evaluation that begins.                                      *)
LEMMA KeepsBegin ==
  ASSUME AttentionInvariant, NEW e \in Evaluations, NEW o \in Observations, Begin(e, o)
  PROVE  AttentionInvariant' /\ Sticks
<1> PICK k : k = [pc |-> "expire", at |-> now, context |-> o, rows |-> <<>>, checked |-> 0,
                  triggered |-> {}, pending |-> {}]
  OBVIOUS
<1>1. evaluation' = [evaluation EXCEPT ![e] = k]
       /\ UNCHANGED <<now, subscriptions, reported, inbox>>
  BY DEF Begin
<1>2. EvaluationStands(k)
  BY DEF EvaluationStands, AttentionEvaluation, AttentionInvariant
<1> QED
  <2>1. \A event \in reported' : event \in reported
    BY <1>1
  <2>2. AttentionInvariant'
    BY <1>1, <1>2, <2>1, EvaluationStep
  <2> QED
    BY <1>1, <2>2 DEF Sticks

(* An evaluation with a program counter of its own stands.                 *)
LEMMA InProgress ==
  ASSUME AttentionInvariant, NEW e \in Evaluations,
         evaluation[e].pc \in {"expire", "select", "mark"}
  PROVE  EvaluationStands(evaluation[e])
BY DEF AttentionInvariant, InHand, NotBegun, Finished

(* Expiring the rows past due touches active rows only.                    *)
LEMMA KeepsExpire ==
  ASSUME AttentionInvariant, NEW e \in Evaluations, expirePastDue(e)
  PROVE  AttentionInvariant' /\ Sticks
<1> PICK k, n : k = evaluation[e] /\ n = [k EXCEPT !.pc = "select"]
  OBVIOUS
<1>1. EvaluationStands(k) /\ evaluation' = [evaluation EXCEPT ![e] = n]
  BY InProgress DEF expirePastDue
<1>2. EvaluationStands(n)
  BY <1>1 DEF EvaluationStands, AttentionEvaluation
<1>3. ASSUME NEW i \in Ids
      PROVE  \/ subscriptions'[i] = subscriptions[i]
             \/ /\ Row(i) /\ subscriptions[i].status = "ACTIVE"
                /\ subscriptions'[i] = [subscriptions[i] EXCEPT !.status = "EXPIRED"]
  BY DEF expirePastDue, PastDue, Row
<1>4. ASSUME NEW s \in Standing
      PROVE  LET x == [s EXCEPT !.status = "EXPIRED"]
             IN  /\ x \in Standing /\ x.wish = s.wish /\ x.expires_at = s.expires_at
                 /\ x.last_triggered_at = s.last_triggered_at /\ x # Absent
  BY DEF Standing, AttentionSubscription, AttentionStatus, Absent
<1>5. RowsStand
  BY DEF AttentionInvariant
<1>6. subscriptions' \in [Ids -> Standing \union {Absent}]
  <2>1. \A i \in Ids : subscriptions'[i] \in Standing \union {Absent}
    BY <1>3, <1>4, <1>5, StandingKnown
  <2>2. subscriptions' = [i \in Ids |-> subscriptions'[i]]
    BY DEF expirePastDue
  <2> QED
    BY <2>1, <2>2
<1>7. RowsStand'
  BY <1>6 DEF RowsStand, Standing, Absent, AttentionSubscription, Never
<1>8. Onward
  <2> SUFFICES ASSUME NEW i \in Ids, Row(i)
               PROVE  /\ Row(i)'
                      /\ subscriptions'[i].wish = subscriptions[i].wish
                      /\ subscriptions'[i].expires_at = subscriptions[i].expires_at
                      /\ subscriptions[i].last_triggered_at # Unset =>
                           subscriptions'[i].last_triggered_at # Unset
    BY DEF Onward
  <2> PICK s : s = subscriptions[i]
    OBVIOUS
  <2>1. s \in Standing /\ s # Absent
    BY <1>5, StandingKnown DEF Row
  <2>2. subscriptions'[i] = s \/ subscriptions'[i] = [s EXCEPT !.status = "EXPIRED"]
    BY <1>3
  <2>3. subscriptions'[i] # Absent
    BY <1>4, <2>1, <2>2
  <2> QED
    BY <1>4, <2>1, <2>2, <2>3 DEF Row, Absent
<1>9. Sticks
  BY <1>3 DEF Sticks
<1>10. /\ evaluation' = [x \in Evaluations |-> evaluation'[x]]
       /\ \A x \in Evaluations : evaluation'[x] = evaluation[x] \/ evaluation'[x] = n
       /\ UNCHANGED <<now, reported, inbox>>
  BY <1>1 DEF AttentionInvariant, expirePastDue
<1>11. EvaluationStands(n)'
  <2>1. now \in Int /\ now' \in Int /\ now' >= now
    BY <1>10, AttentionBounds DEF AttentionInvariant
  <2> QED
    BY <1>2, <1>8, <2>1, EvaluationOnward
<1>12. \A x \in Evaluations : \E m :
         m = evaluation'[x] /\ (m = evaluation[x] \/ InHand(m)')
  BY <1>10, <1>11 DEF InHand
<1> QED
  BY <1>7, <1>8, <1>9, <1>10, <1>12, SubscriptionStep

(* The events an evaluation decides on are justified by the rows it reads, *)
(* and each is still to be marked.                                         *)
LEMMA KeepsSelect ==
  ASSUME AttentionInvariant, NEW e \in Evaluations, Select(e)
  PROVE  AttentionInvariant' /\ Sticks
<1> PICK k, o, at : k = evaluation[e] /\ o = k.context /\ at = k.at
  OBVIOUS
<1>1. EvaluationStands(k)
  BY InProgress DEF Select
<1>2. PICK rows \in getActive(o, at) :
        evaluation' = [evaluation EXCEPT ![e] =
          [k EXCEPT !.pc = "mark", !.rows = rows,
                    !.triggered = evaluateAttentionSubscriptions(rows, o, at),
                    !.pending = {event.attention_id :
                                   event \in evaluateAttentionSubscriptions(rows, o, at)}]]
  BY DEF Select
<1> PICK events : events = evaluateAttentionSubscriptions(rows, o, at)
  OBVIOUS
<1> PICK pending : pending = {event.attention_id : event \in events}
  OBVIOUS
<1> PICK n : n = [k EXCEPT !.pc = "mark", !.rows = rows, !.triggered = events, !.pending = pending]
  OBVIOUS
<1>3. evaluation' = [evaluation EXCEPT ![e] = n]
  BY <1>2
<1>4. rows \in Seq(Ids) /\ \A m \in DOMAIN rows : Row(rows[m]) /\ Selectable(rows[m], o, at)
  <2> DEFINE S == {i \in Ids : Selectable(i, o, at)}
  <2>1. IsFiniteSet(S) /\ S \subseteq Ids
    BY AttentionBounds, FS_Subset
  <2>2. Cardinality(S) \in Nat
    BY <2>1, FS_CardinalityType
  <2>3. rows \in [1..Cardinality(S) -> S]
    BY DEF getActive, SetToSeqs
  <2>4. \A i \in S : i \in Ids /\ Row(i) /\ Selectable(i, o, at)
    BY DEF Selectable
  <2> HIDE DEF S
  <2> QED
    BY <2>1, <2>2, <2>3, <2>4
<1>5. k \in AttentionEvaluation /\ o \in Observations /\ at \in 1..MaxTime
  BY <1>1 DEF EvaluationStands, AttentionEvaluation
<1>6. ASSUME NEW event \in events PROVE Justified(event) /\ event.attention_id \in Ids
  <2>1. PICK i \in Ids : /\ event = EventOf(i, o, at) /\ i \in ToSet(rows)
                         /\ ~isExpired(subscriptions[i], at)
                         /\ ~shouldSuppress(subscriptions[i].wish)
    BY <1>4 DEF evaluateAttentionSubscriptions, ToSet
  <2>2. Row(i) /\ Selectable(i, o, at)
    BY <1>4, <2>1 DEF ToSet
  <2>3. subscriptions[i] \in AttentionSubscription
    BY <2>2, StandingKnown DEF AttentionInvariant, Standing
  <2>4. at < subscriptions[i].expires_at
    BY <1>5, <2>1, <2>3, AttentionBounds DEF isExpired, Never, AttentionSubscription
  <2>5. event \in AttentionEvent /\ event.attention_id = i /\ event.triggered_at = at
          /\ event.context_id = o.context_id
    BY <1>5, <2>1, <2>3 DEF EventOf, AttentionEvent, AttentionSubscription
  <2> QED
    BY <2>1, <2>2, <2>4, <2>5 DEF Justified, Selectable, shouldSuppress
<1>7. events \in SUBSET AttentionEvent /\ pending \in SUBSET Ids
  BY <1>6 DEF Justified
<1>8. /\ n \in AttentionEvaluation /\ n.at = k.at /\ n.rows = rows /\ n.triggered = events
      /\ n.pending = pending
  BY <1>4, <1>5, <1>7 DEF AttentionEvaluation
<1>9. \A i \in pending : Row(i)
  BY <1>6 DEF Justified
<1>10. EvaluationStands(n)
  BY <1>1, <1>4, <1>6, <1>8, <1>9 DEF EvaluationStands
<1> QED
  <2>1. UNCHANGED <<now, subscriptions, reported, inbox>>
    BY DEF Select
  <2>2. \A event \in reported' : event \in reported
    BY <2>1
  <2>3. AttentionInvariant'
    BY <1>3, <1>10, <2>1, <2>2, EvaluationStep
  <2> QED
    BY <2>1, <2>3 DEF Sticks

(* A mark of one row, written whatever became of the row since it was      *)
(* read, keeps the invariant.                                              *)
LEMMA MarkStep ==
  ASSUME AttentionInvariant, NEW e \in Evaluations, NEW k, k = evaluation[e], EvaluationStands(k),
         NEW n, n \in AttentionEvaluation, n.at = k.at, n.rows = k.rows,
         n.triggered = k.triggered, n.pending \subseteq k.pending,
         NEW i \in Ids, Row(i), NEW s, s \in Standing,
         evaluation' = [evaluation EXCEPT ![e] = n],
         subscriptions' = [subscriptions EXCEPT ![i] = s],
         UNCHANGED <<now, reported, inbox>>,
         s.wish = subscriptions[i].wish, s.expires_at = subscriptions[i].expires_at,
         s.status = subscriptions[i].status,
         subscriptions[i].last_triggered_at # Unset => s.last_triggered_at # Unset,
         i \in k.pending \ n.pending => s.last_triggered_at # Unset,
         k.pending \subseteq n.pending \union {i}
  PROVE  AttentionInvariant' /\ Sticks
<1>1. RowsStand' /\ Onward /\ Sticks
  BY RowReplaced DEF AttentionInvariant
<1>2. now \in Int /\ now' \in Int /\ now' >= now
  BY AttentionBounds DEF AttentionInvariant
<1>3. EvaluationStands(k)'
  BY <1>1, <1>2, EvaluationOnward
<1>4. subscriptions'[i] = s
  BY DEF AttentionInvariant, RowsStand
<1>5. ASSUME NEW event \in k.triggered
      PROVE  event.attention_id \in n.pending \/ Marked(event)'
  BY <1>3, <1>4 DEF EvaluationStands, Marked
<1>6. EvaluationStands(n)'
  BY <1>3, <1>5 DEF EvaluationStands
<1>7. /\ evaluation' = [x \in Evaluations |-> evaluation'[x]]
      /\ \A x \in Evaluations : evaluation'[x] = evaluation[x] \/ evaluation'[x] = n
  BY DEF AttentionInvariant
<1>8. \A x \in Evaluations : \E m :
        m = evaluation'[x] /\ (m = evaluation[x] \/ InHand(m)')
  BY <1>6, <1>7 DEF InHand
<1> QED
  BY <1>1, <1>7, <1>8, SubscriptionStep

CheckedRow(s, at) == [s EXCEPT !.last_checked_at = at]

TriggeredRow(s, at) == [s EXCEPT !.last_checked_at = at, !.last_triggered_at = at]

(* A marked row is a row with the same wish, expiry and status.            *)
LEMMA MarksStand ==
  ASSUME NEW s \in Standing, NEW at \in 1..MaxTime,
         NEW m \in {CheckedRow(s, at), TriggeredRow(s, at)}
  PROVE  /\ m \in Standing /\ m.wish = s.wish /\ m.expires_at = s.expires_at
         /\ m.status = s.status
         /\ m = CheckedRow(s, at) => m.last_triggered_at = s.last_triggered_at
         /\ m = TriggeredRow(s, at) => m.last_triggered_at # Unset
<1>1. at \in Unset..MaxTime /\ at # Unset
  BY AttentionBounds DEF Unset
<1>2. s \in AttentionSubscription /\ s.status \in {"ACTIVE", "EXPIRED", "DISABLED"}
  BY DEF Standing
<1>3. CASE m = CheckedRow(s, at)
  <2>1. m \in AttentionSubscription
    BY <1>1, <1>2, <1>3 DEF AttentionSubscription, CheckedRow
  <2>2. /\ m.wish = s.wish /\ m.expires_at = s.expires_at /\ m.status = s.status
        /\ m.last_triggered_at = s.last_triggered_at
        /\ m = TriggeredRow(s, at) => m.last_triggered_at # Unset
    BY <1>1, <1>2, <1>3 DEF AttentionSubscription, CheckedRow, TriggeredRow
  <2> QED
    BY <1>2, <2>1, <2>2 DEF Standing
<1>4. CASE m = TriggeredRow(s, at)
  <2>1. m \in AttentionSubscription
    BY <1>1, <1>2, <1>4 DEF AttentionSubscription, TriggeredRow
  <2>2. /\ m.wish = s.wish /\ m.expires_at = s.expires_at /\ m.status = s.status
        /\ m.last_triggered_at # Unset
        /\ m = CheckedRow(s, at) => m.last_triggered_at = s.last_triggered_at
    BY <1>1, <1>2, <1>4 DEF AttentionSubscription, CheckedRow, TriggeredRow
  <2> QED
    BY <1>2, <2>1, <2>2 DEF Standing
<1> QED
  BY <1>3, <1>4

CheckedOff(k) == [k EXCEPT !.checked = k.checked + 1]

(* Marking a row checked is such a mark.                                   *)
LEMMA CheckedStep ==
  ASSUME AttentionInvariant, NEW e \in Evaluations, NEW k, k = evaluation[e],
         EvaluationStands(k), NEW i \in Ids, Row(i),
         evaluation' = [evaluation EXCEPT ![e] = CheckedOff(k)],
         subscriptions' = [subscriptions EXCEPT ![i] = CheckedRow(subscriptions[i], k.at)],
         UNCHANGED <<now, reported, inbox>>
  PROVE  AttentionInvariant' /\ Sticks
<1> PICK s, n : s = CheckedRow(subscriptions[i], k.at) /\ n = CheckedOff(k)
  OBVIOUS
<1>1. k \in AttentionEvaluation /\ k.checked \in Nat /\ k.at \in 1..MaxTime
  BY DEF EvaluationStands, AttentionEvaluation
<1>2. subscriptions[i] \in Standing
  BY StandingKnown DEF AttentionInvariant
<1>3. s \in Standing /\ s.wish = subscriptions[i].wish
       /\ s.expires_at = subscriptions[i].expires_at
       /\ s.status = subscriptions[i].status
       /\ s.last_triggered_at = subscriptions[i].last_triggered_at
  BY <1>1, <1>2, MarksStand
<1>4. /\ n \in AttentionEvaluation /\ n.at = k.at /\ n.rows = k.rows
      /\ n.triggered = k.triggered /\ n.pending = k.pending
  BY <1>1 DEF AttentionEvaluation, CheckedOff
<1>5. /\ evaluation' = [evaluation EXCEPT ![e] = n]
      /\ subscriptions' = [subscriptions EXCEPT ![i] = s]
  OBVIOUS
<1>6. /\ n.pending \subseteq k.pending /\ k.pending \subseteq n.pending \union {i}
      /\ i \notin k.pending \ n.pending
  BY <1>4
<1>7. UNCHANGED <<now, reported, inbox>>
  OBVIOUS
<1>8. subscriptions[i].last_triggered_at # Unset => s.last_triggered_at # Unset
  BY <1>3
<1>9. i \in k.pending \ n.pending => s.last_triggered_at # Unset
  BY <1>6
<1> QED
  BY ONLY <1>3, <1>4, <1>5, <1>6, <1>7, <1>8, <1>9, MarkStep, AttentionInvariant,
     e \in Evaluations, k = evaluation[e], EvaluationStands(k), i \in Ids, Row(i)

(* The next row marked checked keeps the invariant.                        *)
LEMMA KeepsChecked ==
  ASSUME AttentionInvariant, NEW e \in Evaluations, markChecked(e)
  PROVE  AttentionInvariant' /\ Sticks
<1> PICK k, i : k = evaluation[e] /\ i = k.rows[k.checked + 1]
  OBVIOUS
<1>1. EvaluationStands(k)
  BY InProgress DEF markChecked
<1>2. k.checked \in Nat /\ k.rows \in Seq(Ids)
  BY <1>1 DEF EvaluationStands, AttentionEvaluation
<1>3. i \in Ids /\ Row(i)
  <2>1. k.checked + 1 \in 1..Len(k.rows)
    BY <1>2 DEF markChecked
  <2> QED
    BY <1>1, <1>2, <2>1 DEF EvaluationStands
<1>4. /\ evaluation' = [evaluation EXCEPT ![e] = CheckedOff(k)]
      /\ subscriptions' = [subscriptions EXCEPT ![i] = CheckedRow(subscriptions[i], k.at)]
      /\ UNCHANGED <<now, reported, inbox>>
  BY DEF markChecked, CheckedRow, CheckedOff, AttentionInvariant, RowsStand
<1> QED
  BY <1>1, <1>3, <1>4, CheckedStep

(* So does the next row marked triggered.                                  *)
LEMMA KeepsTriggered ==
  ASSUME AttentionInvariant, NEW e \in Evaluations, NEW i \in Ids, markTriggered(e, i)
  PROVE  AttentionInvariant' /\ Sticks
<1> PICK k : k = evaluation[e]
  OBVIOUS
<1> PICK s, n : /\ s = TriggeredRow(subscriptions[i], k.at)
                /\ n = [k EXCEPT !.pending = k.pending \ {i}]
  OBVIOUS
<1>1. EvaluationStands(k)
  BY InProgress DEF markTriggered
<1>2. k \in AttentionEvaluation /\ k.pending \in SUBSET Ids /\ k.at \in 1..MaxTime
  BY <1>1 DEF EvaluationStands, AttentionEvaluation
<1>3. Row(i)
  BY <1>1 DEF EvaluationStands, markTriggered, NextTriggered
<1>4. subscriptions[i] \in Standing
  BY <1>3, StandingKnown DEF AttentionInvariant
<1>5. s \in Standing /\ s.wish = subscriptions[i].wish
       /\ s.expires_at = subscriptions[i].expires_at
       /\ s.status = subscriptions[i].status
       /\ s.last_triggered_at # Unset
  BY <1>2, <1>4, MarksStand
<1>6. /\ n \in AttentionEvaluation /\ n.at = k.at /\ n.rows = k.rows
      /\ n.triggered = k.triggered /\ n.pending = k.pending \ {i}
  BY <1>2 DEF AttentionEvaluation
<1>7. /\ evaluation' = [evaluation EXCEPT ![e] = n]
      /\ subscriptions' = [subscriptions EXCEPT ![i] = s]
      /\ UNCHANGED <<now, reported, inbox>>
  <2>1. subscriptions' = [subscriptions EXCEPT ![i].last_checked_at = k.at,
                                               ![i].last_triggered_at = k.at]
    BY DEF markTriggered
  <2>2. subscriptions' = [subscriptions EXCEPT ![i] = s]
    BY <2>1 DEF AttentionInvariant, RowsStand, TriggeredRow
  <2> QED
    BY <2>2 DEF markTriggered
<1> QED
  BY <1>1, <1>3, <1>5, <1>6, <1>7, MarkStep

(* An evaluation reports its events only once all of them are marked.      *)
LEMMA KeepsEnd ==
  ASSUME AttentionInvariant, NEW e \in Evaluations, Return(e) \/ Reject(e)
  PROVE  AttentionInvariant' /\ Sticks
<1>1. evaluation' = [evaluation EXCEPT ![e] = Finished]
       /\ UNCHANGED <<now, subscriptions, inbox>>
  BY DEF Return, Reject
<1>2. \A event \in reported' : event \in reported \/ (Justified(event) /\ Marked(event))
  <2>1. CASE Return(e)
    BY <2>1, InProgress DEF Return, EvaluationStands
  <2>2. CASE Reject(e)
    BY <2>2 DEF Reject
  <2> QED
    BY <2>1, <2>2
<1> QED
  BY <1>1, <1>2, EvaluationStep DEF Sticks

(* Time that passes breaks nothing.                                        *)
LEMMA KeepsTick ==
  ASSUME AttentionInvariant, Tick
  PROVE  AttentionInvariant' /\ Sticks
<1>1. now \in Int /\ now' \in Int /\ now' >= now /\ now' \in 1..MaxTime
  BY AttentionBounds DEF AttentionInvariant, Tick
<1>2. UNCHANGED <<subscriptions, evaluation, reported, inbox>>
  BY DEF Tick
<1>3. Onward /\ Sticks
  BY <1>2 DEF Onward, Sticks, Row, Absent
<1>4. ASSUME NEW x \in Evaluations
      PROVE  \E k : k = evaluation'[x] /\ InHand(k)'
  <2> PICK k : k = evaluation[x]
    OBVIOUS
  <2>1. InHand(k)'
    BY <1>1, <1>3, EvaluationOnward DEF AttentionInvariant, InHand, NotBegun, Finished
  <2> QED
    BY <1>2, <2>1
<1> QED
  BY <1>1, <1>2, <1>3, <1>4 DEF AttentionInvariant, RowsStand, Justified, Marked, Row,
     Standing, Absent, AttentionSubscription, Never, AttentionEvent

(* Nor does an event that arrives in the inbox.                            *)
LEMMA KeepsArrive ==
  ASSUME AttentionInvariant, NEW event \in News, Arrive(event)
  PROVE  AttentionInvariant' /\ Sticks
<1>1. inbox' \in Seq(News)
  BY DEF Arrive, AttentionInvariant
<1>2. UNCHANGED <<now, subscriptions, evaluation, reported>>
  BY DEF Arrive
<1> QED
  BY <1>1, <1>2 DEF AttentionInvariant, RowsStand, Justified, Marked, Row, InHand, EvaluationStands,
     Sticks

(* No step breaks the invariant, and none enables a disabled row.          *)
LEMMA AttentionSteps ==
  ASSUME AttentionInvariant, [AttentionNext \/ PolicyNext]_attentionVars
  PROVE  AttentionInvariant' /\ Sticks
<1>1. CASE UNCHANGED attentionVars
  BY <1>1 DEF attentionVars, AttentionInvariant, RowsStand, Justified, Marked, Row, InHand,
     EvaluationStands, Sticks
<1>2. CASE AttentionNext
  BY <1>2, KeepsCreate, KeepsDisable, KeepsBegin, KeepsExpire, KeepsSelect, KeepsChecked,
     KeepsTriggered, KeepsEnd, KeepsTick DEF AttentionNext
<1>3. CASE PolicyNext
  BY <1>3, KeepsArrive DEF PolicyNext
<1> QED
  BY <1>1, <1>2, <1>3

(* The invariant of attention holds in every state.                        *)
LEMMA AttentionHolds == AttentionSpec => []AttentionInvariant
<1>1. AttentionInit => AttentionInvariant
  BY AttentionBounds DEF AttentionInit, AttentionInvariant, RowsStand, InHand
<1>2. AttentionInvariant /\ [AttentionNext \/ PolicyNext]_attentionVars => AttentionInvariant'
  BY AttentionSteps
<1> QED
  BY <1>1, <1>2, PTL DEF AttentionSpec

(* Rows, evaluations and events have the fields their types declare, for   *)
(* any subscriptions, evaluations and observations.                        *)
THEOREM AttentionTyped == AttentionSpec => []AttentionTypeOK
<1>1. AttentionInvariant => AttentionTypeOK
  BY DEF AttentionInvariant, AttentionTypeOK, RowsStand, Standing, InHand, EvaluationStands,
     Justified
<1> QED
  BY AttentionHolds, <1>1, PTL

(* The SQL of getActive and the lifecycle agree on what an active row is.  *)
LEMMA SelectionAndLifecycleAgree ==
  ASSUME AttentionInvariant, NEW i \in Ids, NEW o \in Observations,
         Row(i), subscriptions[i].wish.context_id = o.context_id
  PROVE  Selectable(i, o, now) <=>
           evaluateAttentionLifecycle(subscriptions[i], now) \in {"ACTIVE", "STALE"}
<1> PICK s : s = subscriptions[i]
  OBVIOUS
<1>1. s \in Standing
  BY StandingKnown DEF AttentionInvariant
<1>2. s.status \in {"ACTIVE", "EXPIRED", "DISABLED"}
  BY <1>1 DEF Standing
<1>3. Selectable(i, o, now) <=> s.status = "ACTIVE" /\ ~isExpired(s, now)
  BY DEF Selectable
<1> QED
  BY <1>2, <1>3 DEF evaluateAttentionLifecycle, isExpired

(* Whatever overlaps, dies or is disabled meanwhile, an evaluation reports *)
(* only what was asked for, in time and not against the noise policy, for  *)
(* any number of subscriptions and evaluations.                            *)
THEOREM ReportsAreJustified == AttentionSpec => []ReportsJustified
<1>1. AttentionInvariant => ReportsJustified
  BY SelectionAndLifecycleAgree DEF AttentionInvariant, ReportsJustified, Justified, Marked
<1> QED
  BY AttentionHolds, <1>1, PTL

(* No step of any evaluation brings a disabled subscription into another   *)
(* state.                                                                  *)
THEOREM DisabledStays == AttentionSpec => DisabledSticks
<1>1. AttentionInvariant /\ [AttentionNext \/ PolicyNext]_attentionVars
        => [\A i \in Ids : subscriptions[i].status = "DISABLED" =>
              subscriptions'[i].status = "DISABLED"]_attentionVars
  BY AttentionSteps DEF Sticks
<1> QED
  BY AttentionHolds, <1>1, PTL DEF AttentionSpec, DisabledSticks

----------------------------------------------------------------------------
Alike(previous, current) ==
  /\ ~isMeaningfulChange(previous, current)
  /\ previous.priority \in AttentionPriority /\ current.priority \in AttentionPriority

(* Every priority has a score.                                             *)
LEMMA ScoresKnown ==
  \A p \in AttentionPriority : priorityScore[p] \in 1..4
BY DEF AttentionPriority, priorityScore

(* An event like another tells its target and is not less urgent.          *)
LEMMA AlikeTells ==
  ASSUME NEW a, NEW b, Alike(a, b)
  PROVE  /\ priorityScore[b.priority] <= priorityScore[a.priority]
         /\ b.target_ref = a.target_ref
BY ScoresKnown DEF Alike, isMeaningfulChange

(* What is like an event like a third is like the third.                   *)
LEMMA AlikeChains ==
  ASSUME NEW a, NEW b, NEW c, Alike(a, b), Alike(b, c) PROVE Alike(a, c)
BY ScoresKnown DEF Alike, isMeaningfulChange

(* An event is like itself.                                                *)
LEMMA AlikeItself ==
  ASSUME NEW a, a.priority \in AttentionPriority PROVE Alike(a, a)
BY ScoresKnown DEF Alike, isMeaningfulChange

(* A set of naturals that is not empty has a least element.                *)
LEMMA Least ==
  ASSUME NEW T \in SUBSET Nat, T # {}
  PROVE  \E x \in T : \A y \in T : x <= y
<1> DEFINE R == OpToRel(<, Nat)
<1>1. IsWellFoundedOn(R, Nat)
  BY NatLessThanWellFounded
<1>2. \A x, y \in Nat : <<y, x>> \in R <=> y < x
  BY DEF OpToRel
<1> HIDE DEF R
<1>3. PICK x \in T : \A y \in T : ~ (<<y, x>> \in R)
  BY <1>1, WFMin
<1>4. \A y \in T : x <= y
  <2> TAKE y \in T
  <2>1. x \in Nat /\ y \in Nat
    OBVIOUS
  <2>2. ~(<<y, x>> \in R)
    BY <1>3
  <2>3. ~(y < x)
    BY <1>2, <2>1, <2>2, Zenon
  <2> QED
    BY <2>1, <2>3
<1> QED
  BY <1>4

(* Each event of a group is news, or comes after one like it that is: the  *)
(* least that did not would follow one that does.                          *)
LEMMA NewsBefore ==
  ASSUME NEW events \in Seq(News), NEW G \in SUBSET DOMAIN events, NEW k \in G
  PROVE  \E l \in G : IsNews(events, G, l) /\ Alike(events[l], events[k])
<1> DEFINE Told(n) == \E l \in G : IsNews(events, G, l) /\ Alike(events[l], events[n])
           Untold == {n \in G : ~Told(n)}
<1>1. /\ G \subseteq Nat
      /\ \A n \in G : events[n].priority \in AttentionPriority
  BY NewsAssumption
<1> SUFFICES ASSUME Untold # {} PROVE FALSE
  OBVIOUS
<1>2. PICK n \in Untold : \A m \in Untold : n <= m
  BY <1>1, Least
<1>3. CASE IsNews(events, G, n)
  BY <1>1, <1>2, <1>3, AlikeItself
<1>4. CASE ~IsNews(events, G, n)
  <2>1. PICK j \in G : j < n /\ ~isMeaningfulChange(events[j], events[n])
    BY <1>4 DEF IsNews
  <2>2. Alike(events[j], events[n])
    BY <1>1, <2>1 DEF Alike
  <2>3. j \notin Untold
    <3>1. j \in Nat /\ n \in Nat
      BY <1>1
    <3> QED
      BY <1>2, <2>1, <3>1
  <2>4. PICK l \in G : IsNews(events, G, l) /\ Alike(events[l], events[j])
    BY <2>3
  <2>5. Alike(events[l], events[n])
    BY <2>2, <2>4, AlikeChains
  <2> QED
    BY <1>2, <2>4, <2>5
<1> QED
  BY <1>3, <1>4

(* Where a group is not escalated, its news is delivered.                  *)
LEMMA NewsDelivered ==
  ASSUME NEW events \in Seq(News), NEW G \in SUBSET DOMAIN events, NEW l \in G,
         IsNews(events, G, l), ~(Cardinality(G) >= EscalationThreshold)
  PROVE  events[l] \in Delivered(events, G)
<1>1. l \in Nat
  OBVIOUS
<1>2. {j \in G : j <= l /\ \A n \in G : j <= n /\ n <= l => ~IsNews(events, G, n)} = {}
  BY <1>1
<1>3. Repetitions(events, G, l) = 0
  BY <1>2, FS_EmptySet DEF Repetitions
<1>4. Repetitions(events, G, l) <= MaxDuplicates
  BY <1>3, AttentionBounds
<1> QED
  BY <1>4 DEF Delivered

(* Noise reduction hides no news, whatever the events, their order, the    *)
(* threshold and the duplicates allowed.                                   *)
THEOREM NewsIsDelivered == AttentionSpec => []NoNewsSuppressed
<1>1. AttentionInvariant => NoNewsSuppressed
  <2> SUFFICES ASSUME inbox \in Seq(News), NEW k \in DOMAIN inbox,
                      NEW G, G = groupOf(inbox, inbox[k].group)
               PROVE  \/ \E d \in Delivered(inbox, G) :
                           d.priority = "CRITICAL" /\ d.reason = "Repeated"
                      \/ \E d \in Delivered(inbox, G) :
                           /\ ~isMeaningfulChange(d, inbox[k])
                           /\ priorityScore[inbox[k].priority] <= priorityScore[d.priority]
                           /\ d.target_ref = inbox[k].target_ref
    BY DEF AttentionInvariant, NoNewsSuppressed
  <2>1. k \in G /\ G \in SUBSET DOMAIN inbox
    BY DEF groupOf
  <2>2. CASE Cardinality(G) >= EscalationThreshold
    <3>1. buildEscalatedEvent(inbox, G) \in Delivered(inbox, G)
      BY <2>2 DEF Delivered
    <3>2. buildEscalatedEvent(inbox, G).priority = "CRITICAL"
            /\ buildEscalatedEvent(inbox, G).reason = "Repeated"
      BY DEF buildEscalatedEvent
    <3> QED
      BY <3>1, <3>2
  <2>3. CASE ~(Cardinality(G) >= EscalationThreshold)
    <3>1. PICK l \in G : IsNews(inbox, G, l) /\ Alike(inbox[l], inbox[k])
      BY <2>1, NewsBefore
    <3>2. inbox[l] \in Delivered(inbox, G)
      BY <2>1, <2>3, <3>1, NewsDelivered
    <3>3. /\ ~isMeaningfulChange(inbox[l], inbox[k])
          /\ priorityScore[inbox[k].priority] <= priorityScore[inbox[l].priority]
          /\ inbox[k].target_ref = inbox[l].target_ref
      BY <3>1, AlikeTells DEF Alike
    <3> QED
      BY <3>2, <3>3
  <2> QED
    BY <2>2, <2>3
<1> QED
  BY AttentionHolds, <1>1, PTL

----------------------------------------------------------------------------
(* LLM requests.                                                           *)

LlmSpec == LlmInit /\ [][LlmNext]_llmVars

(* The candidates by name.                                                 *)
Openai == [id |-> "openai", priority |-> 1, allowedFor |-> {"JUNIOR", "SENIOR"},
           costType |-> "paid", cost |-> 4]

Openrouter == [id |-> "openrouter", priority |-> 2, allowedFor |-> PlanTier,
               costType |-> "openrouter", cost |-> 2]

Oss == [id |-> "oss", priority |-> 99, allowedFor |-> PlanTier,
        costType |-> "oss", cost |-> 0]

(* How many candidates are left.                                           *)
Left(providers) ==
  (IF Openai \in providers THEN 1 ELSE 0) + (IF Openrouter \in providers THEN 1 ELSE 0)
    + (IF Oss \in providers THEN 1 ELSE 0)

Foremost(providers) == CHOOSE p \in providers : \A q \in providers : p.priority <= q.priority

(* The candidate in turn is being tried.                                   *)
InTurn(k) == k.pc \in {"logAnswer", "logFailure"}

(* A request answers each of its candidates at most once, and more than    *)
(* one only when the ledger has failed.                                    *)
AnswersCounted(k) ==
  /\ k.pc = "idle" => k.answers = 0
  /\ k.pc = "try" => k.answers + Left(k.providers) <= 3
  /\ InTurn(k) => k.answers + Left(k.providers) <= 4
  /\ k.answers > 0 => k.ledgerFailed \/ k.pc \in {"logAnswer", "answered"}
  /\ k.answers > 1 => k.ledgerFailed

(* What is tried has an implementation, and until the ledger fails the     *)
(* open-source provider is still to come.                                  *)
CandidatesStand(k) ==
  /\ InTurn(k) => k.providers # {} /\ Foremost(k.providers).id \in ProviderMap
  /\ ~k.ledgerFailed /\ (k.pc = "try" \/ InTurn(k)) => Oss \in k.providers
  /\ ~k.ledgerFailed /\ k.pc = "logFailure" => Foremost(k.providers) # Oss
  /\ k.pc \in {"failed", "aborted"} => k.ledgerFailed
  /\ k.plan = "BASIC" => \A p \in k.providers : p.cost <= k.budget

(* The rows of a request: a success still stands beside a failure that is  *)
(* being recorded only where its own write threw, and then that row is the *)
(* last, of the candidate in turn.                                         *)
RowsTell(k, rows) ==
  /\ k.pc \in {"idle", "try", "logAnswer", "failed"} => Undenied(rows) = {}
  /\ k.pc = "answered" => Undenied(rows) = IF k.ledger THEN {Len(rows)} ELSE {}
  /\ Undenied(rows) \subseteq {Len(rows)}
  /\ k.pc = "logFailure" /\ Undenied(rows) # {} =>
       k.ledgerFailed /\ rows[Len(rows)].provider_id = Foremost(k.providers).id
  /\ ~k.ledgerFailed => Successes(rows) = Undenied(rows)
  /\ ~k.ledger => rows = <<>>
  /\ k.plan = "BASIC" => \A n \in DOMAIN rows : rows[n].cost_eur <= k.budget

Told(k, rows) ==
  /\ k \in LlmRequest
  /\ rows \in Seq(LlmUsageLog)
  /\ AnswersCounted(k)
  /\ CandidatesStand(k)
  /\ RowsTell(k, rows)

LlmInvariant ==
  /\ llm_request = [r \in Requests |-> llm_request[r]]
  /\ llm_usage = [r \in Requests |-> llm_usage[r]]
  /\ \A r \in Requests : Told(llm_request[r], llm_usage[r])

(* The candidates are the three of the code, each told apart.              *)
LEMMA CandidatesKnown ==
  /\ LlmProviderCandidates = {Openai, Openrouter, Oss}
  /\ Openai # Openrouter /\ Openai # Oss /\ Openrouter # Oss
BY DEF LlmProviderCandidates, Openai, Openrouter, Oss

(* The candidate tried is the first by priority of those that are left.    *)
LEMMA FrontFirst ==
  ASSUME NEW P \in SUBSET LlmProviderCandidates, P # {}
  PROVE  /\ Foremost(P) \in P
         /\ \A q \in P : Foremost(P).priority <= q.priority
<1>1. \E p \in P : \A q \in P : p.priority <= q.priority
  <2>1. CASE Openai \in P
    BY <2>1, CandidatesKnown DEF Openai, Openrouter, Oss
  <2>2. CASE Openai \notin P /\ Openrouter \in P
    BY <2>2, CandidatesKnown DEF Openai, Openrouter, Oss
  <2>3. CASE Openai \notin P /\ Openrouter \notin P
    BY <2>3, CandidatesKnown DEF Openai, Openrouter, Oss
  <2> QED
    BY <2>1, <2>2, <2>3
<1> QED
  BY <1>1 DEF Foremost

(* What is tried is one of the candidates left, and the code's choice of   *)
(* it.                                                                     *)
LEMMA FrontKnown ==
  ASSUME NEW P \in SUBSET LlmProviderCandidates, P # {}
  PROVE  /\ Foremost(P) \in {Openai, Openrouter, Oss}
         /\ Foremost(P).cost \in Nat
         /\ Foremost(P).id \in ProviderMap => Foremost(P).id \in {"openrouter", "oss"}
         /\ Foremost(P) = Oss => P = {Oss}
<1>1. Foremost(P) \in {Openai, Openrouter, Oss} /\ \A q \in P : Foremost(P).priority <= q.priority
  BY FrontFirst, CandidatesKnown
<1>2. /\ Foremost(P).cost \in Nat
      /\ Foremost(P).id \in ProviderMap => Foremost(P).id \in {"openrouter", "oss"}
  BY <1>1 DEF Openai, Openrouter, Oss, ProviderMap
<1>3. Foremost(P) = Oss => P = {Oss}
  BY <1>1, CandidatesKnown DEF Openai, Openrouter, Oss
<1> QED
  BY <1>1, <1>2, <1>3

(* One candidate fewer is left once the first has been taken out.          *)
LEMMA LeftDrops ==
  ASSUME NEW P \in SUBSET LlmProviderCandidates
  PROVE  /\ Left(P) \in 0..3
         /\ P # {} => /\ Left(P) >= 1
                      /\ Left(P \ {Foremost(P)}) = Left(P) - 1
<1>1. Left(P) \in 0..3
  BY DEF Left
<1>2. ASSUME P # {} PROVE Left(P) >= 1 /\ Left(P \ {Foremost(P)}) = Left(P) - 1
  <2>1. Foremost(P) \in P /\ P \subseteq {Openai, Openrouter, Oss}
    BY <1>2, FrontFirst, CandidatesKnown
  <2> QED
    BY <2>1, CandidatesKnown DEF Left
<1> QED
  BY <1>1, <1>2

(* A step of one request leaves the others, and their rows, as they were.  *)
LEMMA LlmReplaced ==
  ASSUME LlmInvariant, NEW r \in Requests, NEW k, NEW rows, Told(k, rows),
         llm_request' = [llm_request EXCEPT ![r] = k],
         llm_usage' = [llm_usage EXCEPT ![r] = rows]
  PROVE  LlmInvariant'
<1>1. /\ llm_request' = [x \in Requests |-> llm_request'[x]]
      /\ llm_usage' = [x \in Requests |-> llm_usage'[x]]
  BY DEF LlmInvariant
<1>2. ASSUME NEW x \in Requests PROVE Told(llm_request'[x], llm_usage'[x])
  BY DEF LlmInvariant
<1>3. \A x \in Requests : Told(llm_request[x], llm_usage[x])'
  BY <1>2
<1> QED
  BY <1>1, <1>3 DEF LlmInvariant

(* No row of a request without a ledger, or of none at all, is a success.  *)
LEMMA NoRowsStand == Undenied(<<>>) = {} /\ Successes(<<>>) = {}
BY DEF Undenied, Successes

(* A row that another follows stands, or is denied, whatever comes after.  *)
LEMMA DeniedOnce ==
  ASSUME NEW u \in Seq(LlmUsageLog), NEW rows \in Seq(LlmUsageLog), Len(rows) > Len(u),
         \A n \in 1..Len(u) : rows[n] = u[n],
         NEW m \in 1..Len(u), m < Len(u)
  PROVE  m \in Undenied(rows) <=> m \in Undenied(u)
<1>1. /\ Len(u) \in Nat /\ Len(rows) \in Nat
      /\ DOMAIN u = 1..Len(u) /\ DOMAIN rows = 1..Len(rows)
  OBVIOUS
<1>2. rows[m] = u[m] /\ rows[m + 1] = u[m + 1] /\ m \in DOMAIN u /\ m \in DOMAIN rows
        /\ m < Len(rows)
  BY <1>1
<1>3. m \in Successes(rows) <=> m \in Successes(u)
  BY <1>2 DEF Successes
<1> QED
  BY <1>2, <1>3 DEF Undenied

(* The row of an answer stands where no other did.                         *)
LEMMA SuccessStands ==
  ASSUME NEW u \in Seq(LlmUsageLog), NEW row \in LlmUsageLog,
         Undenied(u) = {}, row.success = TRUE
  PROVE  /\ Undenied(Append(u, row)) = {Len(u) + 1}
         /\ Successes(u) = {} => Successes(Append(u, row)) = {Len(u) + 1}
<1> PICK rows : rows = Append(u, row)
  OBVIOUS
<1>0. rows \in Seq(LlmUsageLog) /\ Len(rows) > Len(u)
  OBVIOUS
<1>1. /\ Len(u) \in Nat /\ Len(rows) = Len(u) + 1
      /\ DOMAIN u = 1..Len(u) /\ DOMAIN rows = 1..(Len(u) + 1)
      /\ rows[Len(u) + 1] = row
      /\ \A m \in 1..Len(u) : rows[m] = u[m]
  OBVIOUS
<1>2. ASSUME NEW m \in 1..Len(u) PROVE m \notin Undenied(rows)
  <2>1. m \notin Undenied(u)
    OBVIOUS
  <2>2. CASE m = Len(u)
    BY <1>1, <2>1, <2>2 DEF Undenied, Successes
  <2>3. CASE m < Len(u)
    <3>1. m \in Undenied(rows) <=> m \in Undenied(u)
      BY <1>0, <1>1, <2>3, DeniedOnce
    <3> QED
      BY <2>1, <3>1
  <2>4. m = Len(u) \/ m < Len(u)
    <3>1. Len(u) \in Nat
      BY <1>1
    <3> QED
      BY ONLY <3>1, m \in 1..Len(u)
  <2> QED
    BY ONLY <2>2, <2>3, <2>4
<1>3. Len(u) + 1 \in Undenied(rows)
  BY <1>1 DEF Undenied, Successes
<1>4. Undenied(rows) \subseteq 1..(Len(u) + 1)
  BY <1>1 DEF Undenied, Successes
<1>5. Undenied(rows) = {Len(u) + 1}
  BY <1>1, <1>2, <1>3, <1>4
<1>6. Successes(u) = {} => Successes(rows) = {Len(u) + 1}
  BY <1>1 DEF Successes
<1> QED
  BY <1>5, <1>6

(* The row of a failure denies the success before it, of that provider.    *)
LEMMA FailureDenies ==
  ASSUME NEW u \in Seq(LlmUsageLog), NEW row \in LlmUsageLog,
         Undenied(u) \subseteq {Len(u)}, row.success = FALSE,
         Undenied(u) # {} => u[Len(u)].provider_id = row.provider_id
  PROVE  /\ Undenied(Append(u, row)) = {}
         /\ Successes(Append(u, row)) = Successes(u)
<1> PICK rows : rows = Append(u, row)
  OBVIOUS
<1>0. rows \in Seq(LlmUsageLog) /\ Len(rows) > Len(u)
  OBVIOUS
<1>1. /\ Len(u) \in Nat /\ Len(rows) = Len(u) + 1
      /\ DOMAIN u = 1..Len(u) /\ DOMAIN rows = 1..(Len(u) + 1)
      /\ rows[Len(u) + 1] = row
      /\ \A m \in 1..Len(u) : rows[m] = u[m]
  OBVIOUS
<1>2. ASSUME NEW m \in 1..Len(u) PROVE m \notin Undenied(rows)
  <2>1. CASE m = Len(u)
    <3>1. m \in Undenied(u) <=> m \in Successes(u)
      BY <1>1, <2>1 DEF Undenied
    <3>2. m \in Successes(rows) <=> m \in Successes(u)
      BY <1>1 DEF Successes
    <3>3. /\ rows[m + 1] = row /\ m < Len(rows) /\ rows[m] = u[m]
          /\ m \in Undenied(u) => u[m].provider_id = row.provider_id
      BY <1>1, <2>1
    <3>4. m \in Undenied(rows) =>
            m \in Successes(rows) /\ (row.success \/ row.provider_id # u[m].provider_id)
      BY <3>3 DEF Undenied
    <3> QED
      BY <3>1, <3>2, <3>3, <3>4
  <2>2. CASE m < Len(u)
    <3>1. m \notin Undenied(u)
      BY <1>1, <2>2
    <3> QED
      <4>1. m \in Undenied(rows) <=> m \in Undenied(u)
        BY <1>0, <1>1, <2>2, DeniedOnce
      <4> QED
        BY <3>1, <4>1
  <2>3. m = Len(u) \/ m < Len(u)
    <3>1. Len(u) \in Nat
      BY <1>1
    <3> QED
      BY ONLY <3>1, m \in 1..Len(u)
  <2> QED
    BY ONLY <2>1, <2>2, <2>3
<1>3. Len(u) + 1 \notin Undenied(rows) /\ Undenied(rows) \subseteq 1..(Len(u) + 1)
  BY <1>1 DEF Undenied, Successes
<1>4. Undenied(rows) = {}
  BY <1>1, <1>2, <1>3
<1>5. Successes(rows) = Successes(u)
  BY <1>1 DEF Successes
<1> QED
  BY <1>4, <1>5

(* A step that writes no row, where no success stands, keeps the invariant *)
(* when it keeps what is told of its request; an answer is given so only   *)
(* without a ledger.                                                       *)
LEMMA LlmUnlogged ==
  ASSUME LlmInvariant, NEW r \in Requests, NEW k, Update(r, k), UNCHANGED llm_usage,
         k \in LlmRequest, AnswersCounted(k), CandidatesStand(k),
         Undenied(llm_usage[r]) = {}, k.pc = "answered" => ~k.ledger,
         llm_request[r].ledgerFailed => k.ledgerFailed, k.ledger = llm_request[r].ledger,
         k.plan = llm_request[r].plan, k.budget = llm_request[r].budget
  PROVE  LlmInvariant'
<1>1. Told(llm_request[r], llm_usage[r])
  BY DEF LlmInvariant
<1>2. RowsTell(k, llm_usage[r])
  BY <1>1 DEF Told, RowsTell
<1>3. llm_usage' = [llm_usage EXCEPT ![r] = llm_usage[r]]
  BY DEF LlmInvariant
<1> QED
  BY <1>1, <1>2, <1>3, LlmReplaced DEF Told, Update

(* A request that begins may try what its plan affords, the open-source    *)
(* provider at least.                                                      *)
LEMMA LlmStarts ==
  ASSUME LlmInvariant, NEW r \in Requests, Start(r) PROVE LlmInvariant'
<1> PICK k : k = llm_request[r]
  OBVIOUS
<1> PICK P : P = resolveLlmProviders(k.plan, k.budget)
  OBVIOUS
<1> PICK n : n = [k EXCEPT !.pc = "try", !.providers = P]
  OBVIOUS
<1>1. k \in LlmRequest /\ k.pc = "idle" /\ AnswersCounted(k) /\ Update(r, n)
        /\ Undenied(llm_usage[r]) = {}
  BY DEF Start, LlmInvariant, Told, RowsTell
<1>2. k.plan \in PlanTier /\ k.budget \in Nat /\ k.budget \in Budgets
  BY <1>1, LlmProvidersAssumption DEF LlmRequest
<1>3. P \in SUBSET LlmProviderCandidates
  BY DEF resolveLlmProviders
<1>4. Oss \in P
  BY <1>2, CandidatesKnown DEF resolveLlmProviders, Oss, candidateEconomicClass,
     resolveSovereigntyPolicy, Affordable
<1>5. k.plan = "BASIC" => \A p \in P : p.cost <= k.budget
  <2> SUFFICES ASSUME k.plan = "BASIC", NEW p \in P PROVE p.cost <= k.budget
    OBVIOUS
  <2>1. p \in {Openai, Openrouter, Oss} /\ Affordable(p, k.plan, k.budget)
    BY CandidatesKnown DEF resolveLlmProviders
  <2> QED
    BY <1>2, <2>1 DEF Affordable, Openai, Openrouter, Oss
<1>6. n \in LlmRequest /\ n.pc = "try" /\ n.providers = P /\ n.answers = 0
        /\ n.plan = k.plan /\ n.budget = k.budget /\ n.ledger = k.ledger
        /\ n.ledgerFailed = k.ledgerFailed
  BY <1>1, <1>3 DEF LlmRequest, AnswersCounted
<1>7. AnswersCounted(n)
  <2>1. Left(P) \in 0..3
    BY <1>3, LeftDrops
  <2> QED
    BY <1>6, <2>1 DEF AnswersCounted, InTurn
<1>8. CandidatesStand(n)
  BY <1>4, <1>5, <1>6 DEF CandidatesStand, InTurn
<1> QED
  BY <1>1, <1>6, <1>7, <1>8, LlmUnlogged DEF Start

(* Trying the candidate in turn keeps the invariant.                       *)
LEMMA LlmTries ==
  ASSUME LlmInvariant, NEW r \in Requests, SkipMissing(r) \/ Answer(r) \/ Throw(r)
  PROVE  LlmInvariant'
<1> PICK k, P, f : k = llm_request[r] /\ P = k.providers /\ f = Foremost(P)
  OBVIOUS
<1>1. k \in LlmRequest /\ AnswersCounted(k) /\ CandidatesStand(k)
  BY DEF LlmInvariant, Told
<1>2. k.pc = "try" /\ P # {} /\ UNCHANGED llm_usage /\ Undenied(llm_usage[r]) = {}
  BY DEF SkipMissing, Answer, Throw, Trying, LlmInvariant, Told, RowsTell
<1>3. P \in SUBSET LlmProviderCandidates /\ k.answers \in 0..3 /\ k.ledgerFailed \in BOOLEAN
  BY <1>1 DEF LlmRequest
<1>4. Candidate(r) = f
  BY DEF Candidate, Foremost
<1>5. /\ Left(P) \in 1..3 /\ Left(P \ {f}) = Left(P) - 1
      /\ k.answers + Left(P) <= 3
      /\ f \in P
  <2>1. f = Foremost(P) /\ P \in SUBSET LlmProviderCandidates /\ P # {}
    BY <1>2, <1>3
  <2>2. f \in P
    BY ONLY <2>1, FrontFirst
  <2>3. Left(P) \in 1..3 /\ Left(P \ {f}) = Left(P) - 1
    BY ONLY <2>1, LeftDrops
  <2>4. k.answers + Left(P) <= 3
    BY <1>1, <1>2 DEF AnswersCounted, InTurn
  <2> QED
    BY <2>2, <2>3, <2>4
<1>6. /\ k.answers > 0 => k.ledgerFailed
      /\ ~k.ledgerFailed => Oss \in P
      /\ k.plan = "BASIC" => \A p \in P : p.cost <= k.budget
  BY <1>1, <1>2 DEF AnswersCounted, CandidatesStand
<1>7. CASE SkipMissing(r)
  <2> PICK n : n = [k EXCEPT !.usedFallback = TRUE, !.providers = P \ {f}]
    OBVIOUS
  <2>1. Update(r, n) /\ f.id \notin ProviderMap
    BY <1>4, <1>7 DEF SkipMissing, OthersOf
  <2>2. /\ n \in LlmRequest /\ n.pc = "try" /\ n.providers = P \ {f} /\ n.answers = k.answers
        /\ n.ledgerFailed = k.ledgerFailed /\ n.plan = k.plan /\ n.budget = k.budget
        /\ n.ledger = k.ledger
    BY <1>1, <1>2, <1>3 DEF LlmRequest
  <2>3. AnswersCounted(n)
    BY <1>3, <1>5, <1>6, <2>2 DEF AnswersCounted, InTurn
  <2>4. f # Oss
    BY <2>1 DEF ProviderMap, Oss
  <2>5. CandidatesStand(n)
    BY <1>6, <2>2, <2>4 DEF CandidatesStand, InTurn
  <2> QED
    BY <1>2, <2>1, <2>2, <2>3, <2>5, LlmUnlogged
<1>8. CASE Answer(r)
  <2> PICK n : n = [k EXCEPT !.pc = "logAnswer", !.answers = k.answers + 1]
    OBVIOUS
  <2>1. Update(r, n) /\ f.id \in ProviderMap
    BY <1>4, <1>8 DEF Answer
  <2>2. /\ n \in LlmRequest /\ n.pc = "logAnswer" /\ n.providers = P
        /\ n.answers = k.answers + 1
        /\ n.ledgerFailed = k.ledgerFailed /\ n.plan = k.plan /\ n.budget = k.budget
        /\ n.ledger = k.ledger
    <3>1. k.answers + 1 \in 0..3
      BY <1>3, <1>5
    <3> QED
      BY <1>1, <3>1 DEF LlmRequest
  <2>3. AnswersCounted(n)
    BY <1>3, <1>5, <1>6, <2>2 DEF AnswersCounted, InTurn
  <2>4. CandidatesStand(n)
    BY <1>2, <1>6, <2>1, <2>2 DEF CandidatesStand, InTurn
  <2> QED
    BY <1>2, <2>1, <2>2, <2>3, <2>4, LlmUnlogged
<1>9. CASE Throw(r)
  <2> PICK n : n = [k EXCEPT !.pc = "logFailure", !.usedFallback = TRUE]
    OBVIOUS
  <2>1. Update(r, n) /\ f.id \in ProviderMap \intersect MayThrow
    BY <1>4, <1>9 DEF Throw
  <2>2. /\ n \in LlmRequest /\ n.pc = "logFailure" /\ n.providers = P /\ n.answers = k.answers
        /\ n.ledgerFailed = k.ledgerFailed /\ n.plan = k.plan /\ n.budget = k.budget
        /\ n.ledger = k.ledger
    BY <1>1, <1>2, <1>3 DEF LlmRequest
  <2>3. AnswersCounted(n)
    BY <1>3, <1>5, <1>6, <2>2 DEF AnswersCounted, InTurn
  <2>4. f # Oss
    BY <2>1 DEF MayThrow, Oss
  <2>5. CandidatesStand(n)
    BY <1>2, <1>6, <2>1, <2>2, <2>4 DEF CandidatesStand, InTurn
  <2> QED
    BY <1>2, <2>1, <2>2, <2>3, <2>5, LlmUnlogged
<1> QED
  BY <1>7, <1>8, <1>9

(* The row written after an answer or a failure, or the failure to write   *)
(* it, keeps the invariant.                                                *)
LEMMA LlmLogs ==
  ASSUME LlmInvariant, NEW r \in Requests, NEW stored \in BOOLEAN,
         \/ AnswerLogged(r) \/ AnswerUnrecorded(r) \/ AnswerNotLogged(r, stored)
         \/ FailureLogged(r) \/ FailureUnrecorded(r) \/ FailureNotLogged(r, stored)
  PROVE  LlmInvariant'
<1> PICK k, P, f, u : k = llm_request[r] /\ P = k.providers /\ f = Foremost(P) /\ u = llm_usage[r]
  OBVIOUS
<1>1. k \in LlmRequest /\ u \in Seq(LlmUsageLog)
        /\ AnswersCounted(k) /\ CandidatesStand(k) /\ RowsTell(k, u)
  BY DEF LlmInvariant, Told
<1>2. k.pc \in {"logAnswer", "logFailure"}
  BY DEF AnswerLogged, AnswerUnrecorded, AnswerNotLogged, FailureLogged, FailureUnrecorded,
     FailureNotLogged, Logging
<1>3. P \in SUBSET LlmProviderCandidates /\ k.answers \in 0..3 /\ k.ledgerFailed \in BOOLEAN
        /\ k.usedFallback \in BOOLEAN /\ k.budget \in Nat
  BY <1>1, LlmProvidersAssumption DEF LlmRequest
<1>4. Candidate(r) = f
  BY DEF Candidate, Foremost
<1>5. P # {} /\ f.id \in ProviderMap
  BY <1>1, <1>2 DEF CandidatesStand, InTurn
<1>6. /\ Left(P) \in 1..3 /\ Left(P \ {f}) = Left(P) - 1
      /\ k.answers + Left(P) <= 4
      /\ f \in P
  <2>1. /\ Left(P) \in 1..3 /\ Left(P \ {f}) = Left(P) - 1
        /\ f \in P
    <3>1. f = Foremost(P) /\ P \in SUBSET LlmProviderCandidates /\ P # {}
      BY <1>3, <1>5
    <3>2. Foremost(P) \in P
      BY ONLY <3>1, FrontFirst
    <3>3. Left(P) \in 0..3 /\ Left(P) >= 1 /\ Left(P \ {Foremost(P)}) = Left(P) - 1
      BY ONLY <3>1, LeftDrops
    <3> QED
      BY ONLY <3>1, <3>2, <3>3
  <2>2. k.answers + Left(P) <= 4
    BY <1>1, <1>2 DEF AnswersCounted, InTurn
  <2> QED
    BY <2>1, <2>2
<1>7. /\ k.answers > 0 => k.ledgerFailed \/ k.pc = "logAnswer"
      /\ k.answers > 1 => k.ledgerFailed
      /\ ~k.ledgerFailed => Oss \in P
      /\ k.plan = "BASIC" => \A p \in P : p.cost <= k.budget
  BY <1>1, <1>2 DEF AnswersCounted, CandidatesStand, InTurn
<1>8. f.id \in {"openrouter", "oss"} /\ f.cost \in Nat
  BY <1>3, <1>5, FrontKnown
<1>9. /\ k.pc = "logAnswer" => Undenied(u) = {}
      /\ Undenied(u) \subseteq {Len(u)}
      /\ k.pc = "logFailure" /\ Undenied(u) # {} =>
           k.ledgerFailed /\ u[Len(u)].provider_id = f.id
      /\ ~k.ledgerFailed => Successes(u) = {}
      /\ ~k.ledger => u = <<>>
      /\ k.plan = "BASIC" => \A n \in DOMAIN u : u[n].cost_eur <= k.budget
  BY <1>1, <1>2 DEF RowsTell
<1>10. ASSUME NEW row, NEW rows, rows = Append(u, row),
              row \in LlmUsageLog, row.provider_id = f.id, row.cost_eur = f.cost,
              row.success => k.pc = "logAnswer", ~row.success => k.pc = "logFailure"
       PROVE  /\ rows \in Seq(LlmUsageLog) /\ Len(rows) = Len(u) + 1
              /\ rows[Len(rows)].provider_id = f.id
              /\ row.success => Undenied(rows) = {Len(rows)}
              /\ ~row.success => Undenied(rows) = {}
              /\ ~k.ledgerFailed /\ row.success => Successes(rows) = {Len(rows)}
              /\ ~k.ledgerFailed /\ ~row.success => Successes(rows) = {}
              /\ k.plan = "BASIC" => \A n \in DOMAIN rows : rows[n].cost_eur <= k.budget
  <2>1. row \in LlmUsageLog /\ rows = Append(u, row) /\ row.success \in BOOLEAN
          /\ row.cost_eur = f.cost /\ row.provider_id = f.id
    BY <1>10 DEF LlmUsageLog
  <2>2. /\ rows \in Seq(LlmUsageLog) /\ Len(u) \in Nat /\ Len(rows) = Len(u) + 1
        /\ DOMAIN u = 1..Len(u) /\ DOMAIN rows = 1..(Len(u) + 1)
        /\ rows[Len(u) + 1] = row
        /\ \A m \in 1..Len(u) : rows[m] = u[m]
    BY <1>1, <2>1
  <2>3. /\ rows[Len(rows)].provider_id = f.id
        /\ rows \in Seq(LlmUsageLog) /\ Len(rows) = Len(u) + 1
        /\ k.plan = "BASIC" => \A n \in DOMAIN rows : rows[n].cost_eur <= k.budget
    <3>1. rows[Len(rows)].provider_id = f.id
      BY <2>1, <2>2
    <3>2. ASSUME k.plan = "BASIC", NEW n \in DOMAIN rows PROVE rows[n].cost_eur <= k.budget
      <4>1. f.cost <= k.budget
        BY <1>6, <1>7, <3>2
      <4>2. n \in DOMAIN u \/ n = Len(u) + 1
        BY <2>2
      <4> QED
        BY <1>9, <2>1, <2>2, <3>2, <4>1, <4>2
    <3> QED
      BY <2>2, <3>1, <3>2
  <2>4. CASE row.success
    <3>1. Undenied(u) = {} /\ row.success = TRUE
      BY <1>9, <1>10, <2>1, <2>4
    <3>2. /\ Undenied(rows) = {Len(u) + 1}
          /\ Successes(u) = {} => Successes(rows) = {Len(u) + 1}
      BY <1>1, <2>1, <3>1, SuccessStands
    <3>3. Len(u) + 1 = Len(rows)
      BY <2>2
    <3>4. Undenied(rows) = {Len(rows)} /\ (~k.ledgerFailed => Successes(rows) = {Len(rows)})
      BY ONLY <1>9, <3>2, <3>3
    <3> QED
      BY <2>3, <2>4, <3>4
  <2>5. CASE ~row.success
    <3>1. (Undenied(u) # {} => u[Len(u)].provider_id = row.provider_id) /\ row.success = FALSE
      BY <1>9, <1>10, <2>1, <2>5
    <3>2. Undenied(rows) = {} /\ Successes(rows) = Successes(u)
      BY <1>1, <1>9, <2>1, <3>1, FailureDenies
    <3> QED
      BY <1>9, <2>5, <2>3, <3>2
  <2> QED
    BY <2>4, <2>5
<1>11. CASE AnswerLogged(r)
  <2> PICK n : n = [k EXCEPT !.pc = "answered"]
    OBVIOUS
  <2> PICK row : row = [provider_id |-> f.id, cost_eur |-> f.cost,
                        success |-> TRUE, fallback |-> k.usedFallback]
    OBVIOUS
  <2> PICK rows : rows = Append(u, row)
    OBVIOUS
  <2>0. /\ row \in LlmUsageLog /\ row.provider_id = f.id /\ row.cost_eur = f.cost
        /\ row.success = TRUE
    BY <1>3, <1>8 DEF LlmUsageLog
  <2>1. llm_request' = [llm_request EXCEPT ![r] = n] /\ llm_usage' = [llm_usage EXCEPT ![r] = rows]
          /\ k.pc = "logAnswer" /\ k.ledger = TRUE
    BY <1>4, <1>11 DEF AnswerLogged, Logging, Update, Log
  <2>2. /\ n \in LlmRequest /\ n.pc = "answered" /\ n.providers = P /\ n.answers = k.answers
        /\ n.ledgerFailed = k.ledgerFailed /\ n.plan = k.plan /\ n.budget = k.budget
        /\ n.ledger = TRUE
    BY <1>1, <2>1 DEF LlmRequest
  <2>3. rows \in Seq(LlmUsageLog) /\ RowsTell(n, rows)
    <3>1. /\ rows \in Seq(LlmUsageLog)
          /\ Undenied(rows) = {Len(rows)}
          /\ ~k.ledgerFailed => Successes(rows) = {Len(rows)}
          /\ k.plan = "BASIC" => \A m \in DOMAIN rows : rows[m].cost_eur <= k.budget
      BY ONLY <1>10, <2>0, <2>1, rows = Append(u, row)
    <3> QED
      BY ONLY <2>2, <3>1 DEF RowsTell
  <2>4. AnswersCounted(n) /\ CandidatesStand(n)
    BY <1>7, <2>2 DEF AnswersCounted, CandidatesStand, InTurn
  <2> QED
    BY <2>1, <2>2, <2>3, <2>4, LlmReplaced DEF Told
<1>12. CASE AnswerUnrecorded(r)
  <2> PICK n : n = [k EXCEPT !.pc = "answered"]
    OBVIOUS
  <2>1. Update(r, n) /\ UNCHANGED llm_usage /\ k.pc = "logAnswer" /\ k.ledger = FALSE
    BY <1>12 DEF AnswerUnrecorded, Logging
  <2>2. /\ n \in LlmRequest /\ n.pc = "answered" /\ n.providers = P /\ n.answers = k.answers
        /\ n.ledgerFailed = k.ledgerFailed /\ n.plan = k.plan /\ n.budget = k.budget
        /\ n.ledger = k.ledger
    BY <1>1 DEF LlmRequest
  <2>3. AnswersCounted(n) /\ CandidatesStand(n)
    BY <1>7, <2>2 DEF AnswersCounted, CandidatesStand, InTurn
  <2> QED
    BY <1>9, <2>1, <2>2, <2>3, LlmUnlogged
<1>13. CASE AnswerNotLogged(r, stored)
  <2> PICK n : n = [k EXCEPT !.pc = "logFailure", !.usedFallback = TRUE, !.ledgerFailed = TRUE]
    OBVIOUS
  <2> PICK row : row = [provider_id |-> f.id, cost_eur |-> f.cost,
                        success |-> TRUE, fallback |-> k.usedFallback]
    OBVIOUS
  <2> PICK rows : rows = Append(u, row)
    OBVIOUS
  <2>0. /\ row \in LlmUsageLog /\ row.provider_id = f.id /\ row.cost_eur = f.cost
        /\ row.success = TRUE
    BY <1>3, <1>8 DEF LlmUsageLog
  <2>1. /\ Update(r, n) /\ k.pc = "logAnswer" /\ k.ledger = TRUE
        /\ IF stored THEN llm_usage' = [llm_usage EXCEPT ![r] = rows] ELSE UNCHANGED llm_usage
    BY <1>4, <1>13 DEF AnswerNotLogged, Logging, LogThrows, Log
  <2>2. /\ n \in LlmRequest /\ n.pc = "logFailure" /\ n.providers = P /\ n.answers = k.answers
        /\ n.ledgerFailed = TRUE /\ n.plan = k.plan /\ n.budget = k.budget
        /\ n.ledger = k.ledger
    BY <1>1 DEF LlmRequest
  <2>3. AnswersCounted(n) /\ CandidatesStand(n)
    BY <1>5, <1>6, <1>7, <2>2 DEF AnswersCounted, CandidatesStand, InTurn
  <2>4. CASE ~stored
    BY <1>9, <2>1, <2>2, <2>3, <2>4, LlmUnlogged
  <2>5. CASE stored
    <3>1. rows \in Seq(LlmUsageLog) /\ RowsTell(n, rows)
      <4>1. /\ rows \in Seq(LlmUsageLog)
            /\ Undenied(rows) = {Len(rows)} /\ rows[Len(rows)].provider_id = f.id
            /\ k.plan = "BASIC" => \A m \in DOMAIN rows : rows[m].cost_eur <= k.budget
        BY ONLY <1>10, <2>0, <2>1, rows = Append(u, row)
      <4>2. f = Foremost(P)
        OBVIOUS
      <4> QED
        BY ONLY <2>1, <2>2, <4>1, <4>2 DEF RowsTell
    <3> QED
      BY <2>1, <2>2, <2>3, <2>5, <3>1, LlmReplaced DEF Told, Update
  <2> QED
    BY <2>4, <2>5
<1>14. CASE FailureLogged(r) \/ FailureUnrecorded(r)
  <2> PICK n : n = [k EXCEPT !.pc = "try", !.providers = P \ {f}]
    OBVIOUS
  <2> PICK row : row = [provider_id |-> f.id, cost_eur |-> f.cost,
                        success |-> FALSE, fallback |-> TRUE]
    OBVIOUS
  <2> PICK rows : rows = Append(u, row)
    OBVIOUS
  <2>0. /\ row \in LlmUsageLog /\ row.provider_id = f.id /\ row.cost_eur = f.cost
        /\ row.success = FALSE
    BY <1>3, <1>8 DEF LlmUsageLog
  <2>1. Update(r, n) /\ k.pc = "logFailure"
    BY <1>4, <1>14 DEF FailureLogged, FailureUnrecorded, Logging, OthersOf
  <2>2. /\ n \in LlmRequest /\ n.pc = "try" /\ n.providers = P \ {f} /\ n.answers = k.answers
        /\ n.ledgerFailed = k.ledgerFailed /\ n.plan = k.plan /\ n.budget = k.budget
        /\ n.ledger = k.ledger
    BY <1>1, <1>3 DEF LlmRequest
  <2>3. ~k.ledgerFailed => f # Oss
    BY <1>1, <2>1 DEF CandidatesStand
  <2>4. AnswersCounted(n) /\ CandidatesStand(n)
    BY <1>3, <1>6, <1>7, <2>1, <2>2, <2>3 DEF AnswersCounted, CandidatesStand, InTurn
  <2>5. CASE FailureUnrecorded(r)
    <3>1. UNCHANGED llm_usage /\ k.ledger = FALSE
      BY <2>5 DEF FailureUnrecorded, Logging
    <3>2. Undenied(u) = {}
      BY <1>9, <3>1, NoRowsStand
    <3> QED
      BY <2>1, <2>2, <2>4, <3>1, <3>2, LlmUnlogged
  <2>6. CASE FailureLogged(r)
    <3>1. llm_usage' = [llm_usage EXCEPT ![r] = rows] /\ k.ledger = TRUE
      BY <1>4, <2>6 DEF FailureLogged, Logging, Log
    <3>2. rows \in Seq(LlmUsageLog) /\ RowsTell(n, rows)
      <4>1. /\ rows \in Seq(LlmUsageLog)
            /\ Undenied(rows) = {}
            /\ ~k.ledgerFailed => Successes(rows) = {}
            /\ k.plan = "BASIC" => \A m \in DOMAIN rows : rows[m].cost_eur <= k.budget
        BY ONLY <1>10, <2>0, <2>1, rows = Append(u, row)
      <4> QED
        BY ONLY <2>2, <3>1, <4>1 DEF RowsTell
    <3> QED
      BY <2>1, <2>2, <2>4, <3>1, <3>2, LlmReplaced DEF Told, Update
  <2> QED
    BY <1>14, <2>5, <2>6
<1>15. CASE FailureNotLogged(r, stored)
  <2> PICK n : n = [k EXCEPT !.pc = "aborted", !.ledgerFailed = TRUE]
    OBVIOUS
  <2> PICK row : row = [provider_id |-> f.id, cost_eur |-> f.cost,
                        success |-> FALSE, fallback |-> TRUE]
    OBVIOUS
  <2> PICK rows : rows = IF stored THEN Append(u, row) ELSE u
    OBVIOUS
  <2>0. /\ row \in LlmUsageLog /\ row.provider_id = f.id /\ row.cost_eur = f.cost
        /\ row.success = FALSE
    BY <1>8 DEF LlmUsageLog
  <2>1. /\ llm_request' = [llm_request EXCEPT ![r] = n]
        /\ llm_usage' = [llm_usage EXCEPT ![r] = rows]
        /\ k.pc = "logFailure" /\ k.ledger = TRUE
    <3>1. llm_usage = [llm_usage EXCEPT ![r] = u]
      BY DEF LlmInvariant
    <3> QED
      BY <1>4, <1>15, <3>1 DEF FailureNotLogged, Logging, LogThrows, Log, Update
  <2>2. /\ n \in LlmRequest /\ n.pc = "aborted" /\ n.providers = P /\ n.answers = k.answers
        /\ n.ledgerFailed = TRUE /\ n.plan = k.plan /\ n.budget = k.budget
        /\ n.ledger = TRUE
    BY <1>1, <2>1 DEF LlmRequest
  <2>3. AnswersCounted(n) /\ CandidatesStand(n)
    BY <1>7, <2>2 DEF AnswersCounted, CandidatesStand, InTurn
  <2>4. rows \in Seq(LlmUsageLog) /\ RowsTell(n, rows)
    <3>1. CASE stored
      <4>1. /\ rows \in Seq(LlmUsageLog)
            /\ Undenied(rows) = {}
            /\ k.plan = "BASIC" => \A m \in DOMAIN rows : rows[m].cost_eur <= k.budget
        <5>1. rows = Append(u, row)
          BY <3>1
        <5> QED
          BY ONLY <1>10, <2>0, <2>1, <5>1
      <4> QED
        BY ONLY <2>2, <4>1 DEF RowsTell
    <3>2. CASE ~stored
      BY <1>1, <1>9, <2>2, <3>2 DEF RowsTell
    <3> QED
      BY <3>1, <3>2
  <2> QED
    BY <2>1, <2>2, <2>3, <2>4, LlmReplaced DEF Told
<1> QED
  BY <1>11, <1>12, <1>13, <1>14, <1>15

(* A request that runs out of candidates keeps the invariant.              *)
LEMMA LlmFails ==
  ASSUME LlmInvariant, NEW r \in Requests, AllProvidersFailed(r) PROVE LlmInvariant'
<1> PICK k, n : k = llm_request[r] /\ n = [k EXCEPT !.pc = "failed"]
  OBVIOUS
<1>1. /\ k \in LlmRequest /\ AnswersCounted(k) /\ CandidatesStand(k)
      /\ k.pc = "try" /\ k.providers = {} /\ Update(r, n) /\ UNCHANGED llm_usage
      /\ Undenied(llm_usage[r]) = {}
  BY DEF LlmInvariant, Told, RowsTell, AllProvidersFailed
<1>2. /\ n \in LlmRequest /\ n.pc = "failed" /\ n.providers = {} /\ n.answers = k.answers
      /\ n.ledgerFailed = k.ledgerFailed /\ n.plan = k.plan /\ n.budget = k.budget
      /\ n.ledger = k.ledger
  BY <1>1 DEF LlmRequest
<1>3. AnswersCounted(n) /\ CandidatesStand(n)
  BY <1>1, <1>2 DEF AnswersCounted, CandidatesStand, InTurn
<1> QED
  BY <1>1, <1>2, <1>3, LlmUnlogged

(* The invariant of LLM requests holds in every state.                     *)
LEMMA LlmInvariantHolds == LlmSpec => []LlmInvariant
<1>1. LlmInit => LlmInvariant
  <2> SUFFICES ASSUME LlmInit, NEW r \in Requests
               PROVE  Told(llm_request[r], llm_usage[r])
    BY DEF LlmInit, LlmInvariant
  <2> PICK plan \in [Requests -> PlanTier], budget \in [Requests -> Budgets],
           ledger \in [Requests -> BOOLEAN] :
        llm_request = [x \in Requests |->
          [pc |-> "idle", plan |-> plan[x], budget |-> budget[x], providers |-> {},
           ledger |-> ledger[x], usedFallback |-> FALSE, answers |-> 0, ledgerFailed |-> FALSE]]
    BY DEF LlmInit
  <2> PICK k : k = llm_request[r]
    OBVIOUS
  <2>1. k = [pc |-> "idle", plan |-> plan[r], budget |-> budget[r], providers |-> {},
             ledger |-> ledger[r], usedFallback |-> FALSE, answers |-> 0, ledgerFailed |-> FALSE]
    OBVIOUS
  <2>2. k \in LlmRequest
    BY <2>1 DEF LlmRequest
  <2>3. llm_usage[r] = <<>>
    BY DEF LlmInit
  <2>4. AnswersCounted(k) /\ CandidatesStand(k) /\ RowsTell(k, <<>>)
    <3>1. AnswersCounted(k) /\ CandidatesStand(k)
      BY <2>1 DEF AnswersCounted, CandidatesStand, InTurn
    <3>2. k.pc = "idle" /\ DOMAIN <<>> = {}
      BY <2>1
    <3>3. RowsTell(k, <<>>)
      BY ONLY <3>2, NoRowsStand DEF RowsTell
    <3> QED
      BY <3>1, <3>3
  <2> QED
    BY <2>2, <2>3, <2>4 DEF Told
<1>2. LlmInvariant /\ [LlmNext]_llmVars => LlmInvariant'
  <2> SUFFICES ASSUME LlmInvariant, [LlmNext]_llmVars PROVE LlmInvariant'
    OBVIOUS
  <2>1. CASE UNCHANGED llmVars
    BY <2>1 DEF llmVars, LlmInvariant
  <2>2. CASE LlmNext
    BY <2>2, LlmStarts, LlmTries, LlmLogs, LlmFails DEF LlmNext
  <2> QED
    BY <2>1, <2>2
<1> QED
  BY <1>1, <1>2, PTL DEF LlmSpec

(* Requests and usage rows have the fields their types declare, for any    *)
(* requests and budgets.                                                   *)
THEOREM LlmTyped == LlmSpec => []LlmTypeOK
<1>1. LlmInvariant => LlmTypeOK
  BY DEF LlmInvariant, Told, LlmTypeOK
<1> QED
  BY LlmInvariantHolds, <1>1, PTL

(* The rows of the usage ledger tell what a request was answered with and  *)
(* what it cost, for any number of requests and any budgets, though writes *)
(* of it throw before or after storing: a success that no answer stands    *)
(* behind is denied by the row that follows it, or its request aborted.    *)
THEOREM UsageTells == LlmSpec => []UsageTellsAnswers
<1>1. LlmInvariant => UsageTellsAnswers
  <2> SUFFICES ASSUME LlmInvariant, NEW r \in Requests, NEW k, NEW rows,
                      k = llm_request[r], rows = llm_usage[r]
               PROVE  /\ k.pc = "answered" => Undenied(rows) = IF k.ledger THEN {Len(rows)} ELSE {}
                      /\ k.pc # "answered" /\ Undenied(rows) # {} =>
                           /\ Undenied(rows) = {Len(rows)}
                           /\ k.pc \in {"logFailure", "aborted"}
                      /\ ~k.ledgerFailed => Successes(rows) = Undenied(rows)
                      /\ k.answers > 1 \/ k.pc \in {"failed", "aborted"} => k.ledgerFailed
                      /\ k.plan = "BASIC" => \A cost \in Charged(rows) : cost <= k.budget
    BY DEF UsageTellsAnswers
  <2>1. Told(k, rows)
    BY DEF LlmInvariant
  <2>2. k.pc \in {"idle", "try", "logAnswer", "logFailure", "answered", "failed", "aborted"}
    BY <2>1 DEF Told, LlmRequest
  <2>3. k.plan = "BASIC" => \A cost \in Charged(rows) : cost <= k.budget
    BY <2>1 DEF Told, RowsTell, Charged
  <2> QED
    BY <2>1, <2>2, <2>3 DEF Told, AnswersCounted, CandidatesStand, RowsTell
<1> QED
  BY LlmInvariantHolds, <1>1, PTL

----------------------------------------------------------------------------
(* The policy registry.                                                    *)

BootstrapSpec == BootstrapInit /\ [][BootstrapNext]_bootstrapVars

(* A bundle loaded by a call: there, and not the one that is frozen.       *)
Own(call, active, n) ==
  /\ call.bundle.policies # {} /\ call.bundle.hash # {}
  /\ call.bundle.loaded_at \in 1..n
  /\ call.bundle.loaded_at # active.loaded_at

(* What a call holds, beside what is frozen after n loads: what it was     *)
(* told of is frozen, what it loaded is its own.                           *)
CallStands(call, active, n) ==
  /\ call.pc \in {"loading", "threw"} => Own(call, active, n)
  /\ call.pc = "returned" => active # NoBundle /\ call.bundle = active
  /\ call.pc = "threw" => active # NoBundle

(* No two calls hold the same load.                                        *)
Apart(one, other) ==
  one.pc \in {"loading", "threw"} /\ other.pc \in {"loading", "threw"} =>
    one.bundle.loaded_at # other.bundle.loaded_at

(* The strengthening that makes OneRegistry inductive.                     *)
BootstrapInvariant ==
  /\ BootstrapTypeOK
  /\ bootstrapped = (activeBundle # NoBundle)
  /\ activeBundle.loaded_at <= loads
  /\ \A c \in Bootstraps : CallStands(bootstrap[c], activeBundle, loads)
  /\ \A c, d \in Bootstraps : c # d => Apart(bootstrap[c], bootstrap[d])

(* A step of one call keeps the invariant when what it leaves beside the   *)
(* others is as the invariant says.                                        *)
LEMMA CallReplaced ==
  ASSUME BootstrapInvariant, NEW c \in Bootstraps, NEW k \in Call,
         NEW active \in PolicyBundle, NEW n \in Nat, NEW flag \in BOOLEAN,
         bootstrap' = [bootstrap EXCEPT ![c] = k],
         activeBundle' = active, loads' = n, bootstrapped' = flag,
         flag = (active # NoBundle), active.loaded_at <= n,
         CallStands(k, active, n),
         \A d \in Bootstraps \ {c} : CallStands(bootstrap[d], active, n) /\ Apart(k, bootstrap[d])
  PROVE  BootstrapInvariant'
<1>1. bootstrap \in [Bootstraps -> Call]
  BY DEF BootstrapInvariant, BootstrapTypeOK
<1>2. BootstrapTypeOK'
  BY <1>1 DEF BootstrapTypeOK, PolicyBundle, Call
<1>3. \A d \in Bootstraps : CallStands(bootstrap'[d], active, n)
  BY <1>1
<1>4. \A d \in Bootstraps \ {c} : Apart(bootstrap[d], k)
  BY DEF Apart
<1>5. \A d, e \in Bootstraps : d # e => Apart(bootstrap'[d], bootstrap'[e])
  <2> SUFFICES ASSUME NEW d \in Bootstraps, NEW e \in Bootstraps, d # e
               PROVE  Apart(bootstrap'[d], bootstrap'[e])
    OBVIOUS
  <2>1. CASE d = c
    BY <1>1, <2>1
  <2>2. CASE e = c
    BY <1>1, <1>4, <2>2
  <2>3. CASE d # c /\ e # c
    BY <1>1, <2>3 DEF BootstrapInvariant
  <2> QED
    BY <2>1, <2>2, <2>3
<1>6. /\ bootstrapped' = (activeBundle' # NoBundle)
      /\ activeBundle'.loaded_at <= loads'
      /\ \A d \in Bootstraps : CallStands(bootstrap'[d], activeBundle', loads')
  BY <1>3
<1> QED
  BY <1>2, <1>5, <1>6 DEF BootstrapInvariant

(* No step of a bootstrap breaks the invariant.                            *)
LEMMA BootstrapKeeps ==
  ASSUME BootstrapInvariant, NEW c \in Bootstraps,
         BootstrapAgain(c) \/ BootstrapStart(c) \/ BootstrapFreezes(c) \/ BootstrapThrows(c)
  PROVE  BootstrapInvariant'
<1> PICK k : k = bootstrap[c]
  OBVIOUS
<1>1. /\ k \in Call /\ activeBundle \in PolicyBundle /\ bootstrapped \in BOOLEAN /\ loads \in Nat
      /\ bootstrapped = (activeBundle # NoBundle) /\ activeBundle.loaded_at <= loads
      /\ CallStands(k, activeBundle, loads)
      /\ \A d \in Bootstraps : CallStands(bootstrap[d], activeBundle, loads)
      /\ \A d \in Bootstraps \ {c} : Apart(k, bootstrap[d])
  BY DEF BootstrapInvariant, BootstrapTypeOK
<1>2. k.bundle \in PolicyBundle /\ NoBundle.loaded_at = 0
  BY <1>1 DEF Call, NoBundle
<1>3. CASE BootstrapAgain(c)
  <2> PICK r : r = [pc |-> "returned", bundle |-> activeBundle]
    OBVIOUS
  <2>1. /\ bootstrap' = [bootstrap EXCEPT ![c] = r] /\ bootstrapped
        /\ UNCHANGED <<activeBundle, bootstrapped, loads>>
    BY <1>3 DEF BootstrapAgain, Settle
  <2>2. r \in Call /\ CallStands(r, activeBundle, loads)
    BY <1>1, <2>1 DEF Call, CallStands
  <2>3. \A d \in Bootstraps \ {c} : Apart(r, bootstrap[d])
    BY DEF Apart
  <2> QED
    BY <1>1, <2>1, <2>2, <2>3, CallReplaced
<1>4. CASE BootstrapStart(c)
  <2> PICK n, r : n = loads + 1 /\ r = [pc |-> "loading", bundle |-> loadPolicyDatasets(n)]
    OBVIOUS
  <2>1. /\ bootstrap' = [bootstrap EXCEPT ![c] = r] /\ loads' = n
        /\ UNCHANGED <<activeBundle, bootstrapped>>
    BY <1>4 DEF BootstrapStart, Settle
  <2>2. /\ r.pc = "loading" /\ r.bundle.loaded_at = n /\ n \in Nat
        /\ r.bundle.policies = Policies /\ r.bundle.hash = Policies /\ Policies # {}
    BY <1>1 DEF loadPolicyDatasets, Policies
  <2>3. r \in Call
    BY <1>1 DEF Call, loadPolicyDatasets, PolicyBundle
  <2>4. activeBundle.loaded_at <= n /\ activeBundle.loaded_at # n
    BY <1>1 DEF PolicyBundle
  <2>5. CallStands(r, activeBundle, n)
    BY <1>1, <2>2, <2>4 DEF CallStands, Own
  <2>6. ASSUME NEW d \in Bootstraps \ {c}
        PROVE  CallStands(bootstrap[d], activeBundle, n) /\ Apart(r, bootstrap[d])
    <3>1. CallStands(bootstrap[d], activeBundle, loads)
      BY <1>1
    <3> QED
      BY <1>1, <2>2, <3>1 DEF CallStands, Own, Apart
  <2> QED
    BY <1>1, <2>1, <2>2, <2>3, <2>4, <2>5, <2>6, CallReplaced
<1>5. CASE BootstrapFreezes(c)
  <2> PICK b, r : b = k.bundle /\ r = [pc |-> "returned", bundle |-> b]
    OBVIOUS
  <2>1. /\ bootstrap' = [bootstrap EXCEPT ![c] = r] /\ activeBundle' = b /\ bootstrapped' = TRUE
        /\ loads' = loads /\ k.pc = "loading" /\ activeBundle = NoBundle
    BY <1>5 DEF BootstrapFreezes, Settle, freezePolicyRegistry, frozen
  <2>2. Own(k, activeBundle, loads)
    BY <1>1, <2>1 DEF CallStands
  <2>3. b \in PolicyBundle /\ b # NoBundle /\ b.loaded_at <= loads
    BY <1>1, <1>2, <2>2 DEF Own
  <2>4. r \in Call /\ CallStands(r, b, loads)
    BY <2>3 DEF Call, CallStands
  <2>5. ASSUME NEW d \in Bootstraps \ {c}
        PROVE  CallStands(bootstrap[d], b, loads) /\ Apart(r, bootstrap[d])
    <3>1. CallStands(bootstrap[d], activeBundle, loads) /\ Apart(k, bootstrap[d])
      BY <1>1
    <3>2. bootstrap[d].pc \notin {"returned", "threw"}
      BY <2>1, <3>1 DEF CallStands
    <3> QED
      BY <2>1, <3>1, <3>2 DEF CallStands, Own, Apart
  <2> QED
    BY <1>1, <2>1, <2>3, <2>4, <2>5, CallReplaced
<1>6. CASE BootstrapThrows(c)
  <2> PICK r : r = [pc |-> "threw", bundle |-> k.bundle]
    OBVIOUS
  <2>1. /\ bootstrap' = [bootstrap EXCEPT ![c] = r] /\ k.pc = "loading"
        /\ UNCHANGED <<activeBundle, bootstrapped, loads>>
        /\ activeBundle # NoBundle \/ ~validatePolicyBundle(k.bundle)
    BY <1>6 DEF BootstrapThrows, Settle, frozen
  <2>2. Own(k, activeBundle, loads)
    BY <1>1, <2>1 DEF CallStands
  <2>3. activeBundle # NoBundle
    BY <2>1, <2>2 DEF Own, validatePolicyBundle
  <2>4. r \in Call /\ CallStands(r, activeBundle, loads)
    BY <1>2, <2>2, <2>3 DEF Call, CallStands, Own
  <2>5. \A d \in Bootstraps \ {c} : Apart(r, bootstrap[d])
    BY <1>1, <2>1 DEF Apart
  <2> QED
    BY <1>1, <2>1, <2>4, <2>5, CallReplaced
<1> QED
  BY <1>3, <1>4, <1>5, <1>6

(* The invariant of the bootstrap holds in every state.                    *)
LEMMA BootstrapInvariantHolds == BootstrapSpec => []BootstrapInvariant
<1>1. BootstrapInit => BootstrapInvariant
  <2> SUFFICES ASSUME BootstrapInit PROVE BootstrapInvariant
    OBVIOUS
  <2>1. BootstrapTypeOK
    BY DEF BootstrapInit, BootstrapTypeOK, Call, PolicyBundle, NoBundle
  <2>2. \A c \in Bootstraps : bootstrap[c].pc = "idle"
    BY DEF BootstrapInit
  <2>3. bootstrapped = (activeBundle # NoBundle) /\ activeBundle.loaded_at <= loads
    <3>1. bootstrapped = FALSE /\ activeBundle = NoBundle /\ loads = 0
      BY DEF BootstrapInit
    <3>2. NoBundle.loaded_at = 0
      BY DEF NoBundle
    <3>3. (activeBundle # NoBundle) = FALSE
      BY <3>1, Zenon
    <3>4. activeBundle.loaded_at <= loads
      BY ONLY <3>1, <3>2
    <3> QED
      BY ONLY <3>1, <3>3, <3>4
  <2> QED
    BY <2>1, <2>2, <2>3 DEF BootstrapInvariant, CallStands, Apart
<1>2. BootstrapInvariant /\ [BootstrapNext]_bootstrapVars => BootstrapInvariant'
  <2> SUFFICES ASSUME BootstrapInvariant, [BootstrapNext]_bootstrapVars PROVE BootstrapInvariant'
    OBVIOUS
  <2>1. CASE UNCHANGED bootstrapVars
    BY <2>1 DEF bootstrapVars, BootstrapInvariant, BootstrapTypeOK
  <2>2. CASE BootstrapNext
    BY <2>2, BootstrapKeeps DEF BootstrapNext
  <2> QED
    BY <2>1, <2>2
<1> QED
  BY <1>1, <1>2, PTL DEF BootstrapSpec

(* However many calls load at once, one bundle is frozen and every caller  *)
(* that was told of a bundle was told of that one; a call throws only      *)
(* after another froze.                                                    *)
THEOREM RegistryIsOne == BootstrapSpec => []OneRegistry
<1>1. BootstrapInvariant => OneRegistry
  <2> SUFFICES ASSUME BootstrapInvariant PROVE OneRegistry
    OBVIOUS
  <2>1. bootstrapped <=> frozen
    BY DEF BootstrapInvariant, BootstrapTypeOK, frozen
  <2>2. ASSUME NEW c \in Bootstraps
        PROVE  /\ bootstrap[c].pc = "returned" => frozen /\ bootstrap[c].bundle = activeBundle
               /\ bootstrap[c].pc = "threw" => frozen /\ bootstrap[c].bundle # activeBundle
    <3>1. CallStands(bootstrap[c], activeBundle, loads)
      BY DEF BootstrapInvariant
    <3> QED
      BY <3>1 DEF CallStands, Own, frozen
  <2> QED
    BY <2>1, <2>2 DEF OneRegistry
<1> QED
  BY BootstrapInvariantHolds, <1>1, PTL

(* The registry, the flag and the calls have the fields their types        *)
(* declare, for any number of callers.                                     *)
THEOREM BootstrapTyped == BootstrapSpec => []BootstrapTypeOK
<1>1. BootstrapInvariant => BootstrapTypeOK
  BY DEF BootstrapInvariant
<1> QED
  BY BootstrapInvariantHolds, <1>1, PTL

----------------------------------------------------------------------------
(* Together.                                                               *)

(* Nothing but its own steps moves a service.                              *)
LEMMA PartsOfPlatform == PlatformSpec => AttentionSpec /\ LlmSpec /\ BootstrapSpec
<1>1. PlatformInit => AttentionInit /\ LlmInit /\ BootstrapInit
  BY DEF PlatformInit
<1>2. [PlatformNext]_platformVars =>
        /\ [AttentionNext \/ PolicyNext]_attentionVars
        /\ [LlmNext]_llmVars
        /\ [BootstrapNext]_bootstrapVars
  BY DEF PlatformNext, platformVars, AttentionStep, PolicyStep, LlmStep, BootstrapStep
<1> QED
  BY <1>1, <1>2, PTL DEF PlatformSpec, AttentionSpec, LlmSpec, BootstrapSpec

(* All of the platform has the fields its types declare, for any           *)
(* constants.                                                              *)
THEOREM PlatformTyped == PlatformSpec => []PlatformTypeOK
BY PartsOfPlatform, AttentionTyped, LlmTyped, BootstrapTyped, PTL DEF PlatformTypeOK
=============================================================================
