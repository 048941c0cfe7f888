----------------------------- MODULE Attention -----------------------------
(***************************************************************************)
(* Attention subscriptions (core/src/attention): a user asks to be told of *)
(* a condition, the subscription is a row of D1, and an evaluation expires *)
(* the rows past due, reads the active ones, decides which of them trigger *)
(* and then writes one row after the other.                                *)
(*                                                                         *)
(* Every SQL statement is an action; between two of them other evaluations *)
(* and a disable may run, and the evaluation may die.  Who calls the       *)
(* runtime and disable, and who passes the events of several evaluations   *)
(* to applyAttentionPolicy, is external.                                   *)
(***************************************************************************)
EXTENDS Integers, FiniteSets, SequencesExt

CONSTANTS
  Ids,             \* subscriptions that may be created
  Wishes,          \* what users ask for
  Evaluations,     \* bound: the calls of evaluateAttentionRuntime
  Observations,    \* the contexts evaluations are given
  MaxTime,         \* bound: now_iso ranges over 1..MaxTime
  StaleAfter,      \* staleAfterHours
  News,            \* events an inbox may hold
  MaxNews,         \* bound: the length of the inbox
  MaxDuplicates,
  EscalationThreshold

ASSUME AttentionBounds ==
  /\ IsFiniteSet(Ids)
  /\ MaxTime \in Nat \ {0} /\ MaxNews \in Nat
  /\ StaleAfter \in Nat /\ MaxDuplicates \in Nat

VARIABLES
  now,            \* the clock
  subscriptions,  \* attention_subscriptions, by attention_id
  evaluation,     \* per evaluation: the call in progress
  reported,       \* history: the events evaluations have returned
  inbox           \* the events to which the policy is applied, in order

attentionVars == <<now, subscriptions, evaluation, reported, inbox>>

Never == MaxTime + 1   \* expires_at IS NULL
Unset == 0             \* last_checked_at, last_triggered_at: null
Missing == -1          \* an absent value

Absent == [status |-> "ABSENT"]
NotBegun == [pc |-> "idle"]
Finished == [pc |-> "finished"]

AttentionStatus == {"ACTIVE", "PAUSED", "RESOLVED", "OBSOLETE", "EXPIRED", "DISABLED"}

AttentionPriority == {"LOW", "MEDIUM", "HIGH", "CRITICAL"}

ASSUME NewsAssumption == \A event \in News : event.priority \in AttentionPriority

AttentionSubscription ==
  [wish : Wishes, status : AttentionStatus, expires_at : 1..Never, created_at : 1..MaxTime,
   last_checked_at : Unset..MaxTime, last_triggered_at : Unset..MaxTime]

AttentionEvent ==
  [attention_id : Ids, wish : Wishes, context_id : {o.context_id : o \in Observations},
   triggered_at : 1..MaxTime]

(* The rows read, how many of them are marked checked, the events, and the *)
(* rows that triggered and are not marked yet.                             *)
AttentionEvaluation ==
  [pc : {"expire", "select", "mark"}, at : 1..MaxTime, context : Observations,
   rows : Seq(Ids), checked : Nat, triggered : SUBSET AttentionEvent, pending : SUBSET Ids]

AttentionTypeOK ==
  /\ now \in 1..MaxTime
  /\ subscriptions \in [Ids -> AttentionSubscription \union {Absent}]
  /\ \A e \in Evaluations :
       \/ evaluation[e] \in {NotBegun, Finished}
       \/ evaluation[e] \in AttentionEvaluation /\ evaluation[e].at <= now
  /\ reported \subseteq AttentionEvent
  /\ inbox \in Seq(News)

AttentionInit ==
  /\ now = 1
  /\ subscriptions = [i \in Ids |-> Absent]
  /\ evaluation = [e \in Evaluations |-> NotBegun]
  /\ reported = {}
  /\ inbox = <<>>

----------------------------------------------------------------------------
(* attention.engine.ts: what an observation means to a subscription.       *)

conditionMatches(wish, o) ==
  LET current == o.watched.current
      previous == o.watched.previous
      value == wish.condition.value
  IN  CASE wish.condition.operator = "EQUALS" -> current = value
        [] wish.condition.operator = "NOT_EQUALS" -> current # value
        [] wish.condition.operator = "GREATER_THAN" -> current # Missing /\ current > value
        [] wish.condition.operator = "LESS_THAN" -> current # Missing /\ current < value
        [] wish.condition.operator = "EXISTS" -> current # Missing
        [] wish.condition.operator = "CHANGED" -> previous # current
        [] OTHER -> TRUE

Moved(change) ==
  change.previous # Missing /\ change.current # Missing /\ change.previous # change.current

triggerMatches(wish, o) ==
  CASE wish.trigger = "REALITY_DRIFTING" -> o.reality = "DRIFTING"
    [] wish.trigger = "REALITY_MISALIGNED" -> o.reality = "MISALIGNED"
    [] wish.trigger = "PLAN_BROKEN" -> o.plan_state \in {"BROKEN", "INCOHERENT"}
    [] wish.trigger = "DECISION_PRESSURE_HIGH" -> o.decision_pressure \in {"HIGH", "CRITICAL"}
    [] wish.trigger = "EXECUTION_BLOCKED" -> o.blocked
    [] wish.trigger = "GOVERNANCE_REVIEW_REQUIRED" -> o.review_required
    [] wish.trigger \in {"DELIVERY_DATE_CHANGED", "QUANTITY_CHANGED"} -> Moved(o.watched)
    [] wish.trigger = "CHANGE_DETECTED" -> o.watched.previous # o.watched.current
    [] wish.trigger = "CUSTOM_CONDITION" -> conditionMatches(wish, o)
    [] OTHER -> FALSE

shouldSuppress(wish) == wish.noise_policy = "CRITICAL_ONLY" /\ wish.priority # "CRITICAL"

(* Mutant of isExpired: a subscription lives through its last instant.     *)
ExpiredAfter(s, at) == s.expires_at # Never /\ s.expires_at < at

isExpired(s, at) == s.expires_at # Never /\ s.expires_at <= at

EventOf(i, o, at) ==
  [attention_id |-> i, wish |-> subscriptions[i].wish, context_id |-> o.context_id,
   triggered_at |-> at]

(* The events an evaluation of rows reports; the suppressed ones are left  *)
(* out of its list.                                                        *)
evaluateAttentionSubscriptions(rows, o, at) ==
  LET Triggers(i) ==
        LET s == subscriptions[i]
        IN  /\ s.status = "ACTIVE"
            /\ ~isExpired(s, at)
            /\ conditionMatches(s.wish, o)
            /\ triggerMatches(s.wish, o)
            /\ ~shouldSuppress(s.wish)
  IN  {EventOf(i, o, at) : i \in {i \in ToSet(rows) : Triggers(i)}}

----------------------------------------------------------------------------
(* attention.subscription.ts: the store.                                   *)

Row(i) == subscriptions[i] # Absent

create(i, wish, expires_at) ==
  /\ subscriptions[i] = Absent
  /\ subscriptions' = [subscriptions EXCEPT ![i] =
       [wish |-> wish, status |-> "ACTIVE", expires_at |-> expires_at, created_at |-> now,
        last_checked_at |-> Unset, last_triggered_at |-> Unset]]
  /\ UNCHANGED <<now, evaluation, reported, inbox>>

updateStatus(i, status) ==
  /\ Row(i)
  /\ subscriptions' = [subscriptions EXCEPT ![i].status = status]
  /\ UNCHANGED <<now, evaluation, reported, inbox>>

disable(i) == updateStatus(i, "DISABLED")

(* ORDER BY priority DESC compares the words, not what they mean.          *)
Alphabetical == <<"CRITICAL", "HIGH", "LOW", "MEDIUM">>

WordOf(i) == CHOOSE k \in DOMAIN Alphabetical : Alphabetical[k] = subscriptions[i].wish.priority

Precedes(i, j) ==
  \/ WordOf(i) > WordOf(j)
  \/ WordOf(i) = WordOf(j) /\ subscriptions[i].created_at < subscriptions[j].created_at

Selectable(i, o, at) ==
  /\ Row(i)
  /\ subscriptions[i].status = "ACTIVE"
  /\ ~isExpired(subscriptions[i], at)
  /\ subscriptions[i].wish.context_id = o.context_id

(* The answers D1 may give: rows the order leaves equal come as they may.  *)
getActive(o, at) ==
  {rows \in SetToSeqs({i \in Ids : Selectable(i, o, at)}) :
     \A m, n \in DOMAIN rows : m < n => ~Precedes(rows[n], rows[m])}

(* Mutant of PastDue: any row past its time is expired.                    *)
AnyPastDue(s, at) == s # Absent /\ isExpired(s, at)

PastDue(s, at) == s # Absent /\ s.status = "ACTIVE" /\ isExpired(s, at)

----------------------------------------------------------------------------
(* attention.runtime.ts.                                                   *)

Begin(e, o) ==
  /\ evaluation[e] = NotBegun
  /\ evaluation' = [evaluation EXCEPT ![e] =
       [pc |-> "expire", at |-> now, context |-> o, rows |-> <<>>, checked |-> 0,
        triggered |-> {}, pending |-> {}]]
  /\ UNCHANGED <<now, subscriptions, reported, inbox>>

expirePastDue(e) ==
  /\ evaluation[e].pc = "expire"
  /\ subscriptions' = [i \in Ids |->
       IF PastDue(subscriptions[i], evaluation[e].at)
       THEN [subscriptions[i] EXCEPT !.status = "EXPIRED"]
       ELSE subscriptions[i]]
  /\ evaluation' = [evaluation EXCEPT ![e].pc = "select"]
  /\ UNCHANGED <<now, reported, inbox>>

(* The rows are read and evaluated without an await between: what is left  *)
(* is to mark each of them checked, and then each that triggered.          *)
Select(e) ==
  LET k == evaluation[e]
  IN  /\ k.pc = "select"
      /\ \E rows \in getActive(k.context, k.at) :
           LET events == evaluateAttentionSubscriptions(rows, k.context, k.at)
           IN  evaluation' = [evaluation EXCEPT ![e] =
                 [k EXCEPT !.pc = "mark", !.rows = rows, !.triggered = events,
                           !.pending = {event.attention_id : event \in events}]]
      /\ UNCHANGED <<now, subscriptions, reported, inbox>>

(* Neither mark looks at the row's status or times.                        *)
markChecked(e) ==
  LET k == evaluation[e]
  IN  /\ k.pc = "mark"
      /\ k.checked < Len(k.rows)
      /\ subscriptions' = [subscriptions EXCEPT ![k.rows[k.checked + 1]].last_checked_at = k.at]
      /\ evaluation' = [evaluation EXCEPT ![e].checked = @ + 1]
      /\ UNCHANGED <<now, reported, inbox>>

(* The first row, in their order, that triggered and is not yet marked.    *)
NextTriggered(k, i) ==
  \E n \in DOMAIN k.rows :
    /\ i = k.rows[n]
    /\ i \in k.pending
    /\ \A m \in DOMAIN k.rows : m < n => k.rows[m] \notin k.pending

markTriggered(e, i) ==
  LET k == evaluation[e]
  IN  /\ k.pc = "mark"
      /\ k.checked = Len(k.rows)
      /\ NextTriggered(k, i)
      /\ subscriptions' = [subscriptions EXCEPT ![i].last_checked_at = k.at,
                                                ![i].last_triggered_at = k.at]
      /\ evaluation' = [evaluation EXCEPT ![e].pending = @ \ {i}]
      /\ UNCHANGED <<now, reported, inbox>>

Return(e) ==
  LET k == evaluation[e]
  IN  /\ k.pc = "mark"
      /\ k.checked = Len(k.rows)
      /\ k.pending = {}
      /\ reported' = reported \union k.triggered
      /\ evaluation' = [evaluation EXCEPT ![e] = Finished]
      /\ UNCHANGED <<now, subscriptions, inbox>>

(* D1 throws at an await: the rows already marked stay marked, and nobody  *)
(* is told of the events.                                                  *)
Reject(e) ==
  /\ evaluation[e] \notin {NotBegun, Finished}
  /\ evaluation' = [evaluation EXCEPT ![e] = Finished]
  /\ UNCHANGED <<now, subscriptions, reported, inbox>>

Tick ==
  /\ now < MaxTime
  /\ now' = now + 1
  /\ UNCHANGED <<subscriptions, evaluation, reported, inbox>>

----------------------------------------------------------------------------
(* attention.lifecycle.ts: what the state of a row is said to be, where    *)
(* its target is observed and not resolved.                                *)

LastTouch(s) == IF s.last_checked_at # Unset THEN s.last_checked_at ELSE s.created_at

evaluateAttentionLifecycle(s, at) ==
  IF s.status = "DISABLED" THEN "DISABLED"
  ELSE IF s.status = "EXPIRED" \/ isExpired(s, at) THEN "EXPIRED"
  ELSE IF at - LastTouch(s) >= StaleAfter THEN "STALE"
  ELSE "ACTIVE"

----------------------------------------------------------------------------
(* attention.policy.ts, applied to a list of events.                       *)

priorityScore == [p \in AttentionPriority |->
  CASE p = "LOW" -> 1 [] p = "MEDIUM" -> 2 [] p = "HIGH" -> 3 [] p = "CRITICAL" -> 4]

(* Mutant of isMeaningfulChange: a higher priority says nothing new.       *)
ChangeOfSubject(previous, current) ==
  \/ current.target_ref # previous.target_ref
  \/ current.reason # previous.reason
  \/ current.evidence # previous.evidence

isMeaningfulChange(previous, current) ==
  \/ priorityScore[current.priority] > priorityScore[previous.priority]
  \/ current.target_ref # previous.target_ref
  \/ current.reason # previous.reason
  \/ current.evidence # previous.evidence

(* A group is the set of the places its events have in the list.           *)
groupOf(events, group) == {k \in DOMAIN events : events[k].group = group}

First(group) == CHOOSE k \in group : \A j \in group : k <= j

buildEscalatedEvent(events, group) ==
  [group |-> events[First(group)].group, target_ref |-> events[First(group)].target_ref,
   priority |-> "CRITICAL", reason |-> "Repeated", evidence |-> "Repeated"]

(* The first event of a group, or one that says more than the one before   *)
(* it in the group.                                                        *)
IsNews(events, group, k) ==
  \A j \in group :
    j < k /\ (\A n \in group : ~(j < n /\ n < k)) => isMeaningfulChange(events[j], events[k])

(* Within a group that is not escalated: how many repetitions in a row     *)
(* each event ends.                                                        *)
Repetitions(events, group, k) ==
  Cardinality({j \in group :
    j <= k /\ \A n \in group : j <= n /\ n <= k => ~IsNews(events, group, n)})

Delivered(events, group) ==
  IF Cardinality(group) >= EscalationThreshold THEN {buildEscalatedEvent(events, group)}
  ELSE {events[k] : k \in {k \in group : Repetitions(events, group, k) <= MaxDuplicates}}

Arrive(event) ==
  /\ Len(inbox) < MaxNews
  /\ inbox' = Append(inbox, event)
  /\ UNCHANGED <<now, subscriptions, evaluation, reported>>

----------------------------------------------------------------------------
AttentionNext ==
  \/ \E i \in Ids, wish \in Wishes, expires_at \in 1..Never : create(i, wish, expires_at)
  \/ \E i \in Ids : disable(i)
  \/ \E e \in Evaluations :
       \/ \E o \in Observations : Begin(e, o)
       \/ expirePastDue(e)
       \/ Select(e)
       \/ markChecked(e)
       \/ \E i \in Ids : markTriggered(e, i)
       \/ Return(e)
       \/ Reject(e)
  \/ Tick

PolicyNext == \E event \in News : Arrive(event)

----------------------------------------------------------------------------
(* Properties.                                                             *)

(* Whatever overlaps, dies or is disabled meanwhile, an evaluation reports *)
(* only what a user of its context asked for, at a time before the         *)
(* subscription ran out and not against its noise policy, and the row of a *)
(* reported event remembers that it has triggered.  And the two pieces of  *)
(* code that say what an active row is, the SQL of getActive and           *)
(* evaluateAttentionLifecycle, agree on every row at any time.             *)
ReportsJustified ==
  /\ \A event \in reported :
       LET s == subscriptions[event.attention_id]
       IN  /\ event.triggered_at < s.expires_at
           /\ s.wish.context_id = event.context_id
           /\ s.wish.noise_policy = "CRITICAL_ONLY" => s.wish.priority = "CRITICAL"
           /\ s.last_triggered_at # Unset
  /\ \A i \in Ids, o \in Observations :
       Row(i) /\ subscriptions[i].wish.context_id = o.context_id =>
         (Selectable(i, o, now) <=>
            evaluateAttentionLifecycle(subscriptions[i], now) \in {"ACTIVE", "STALE"})

(* What has been disabled stays disabled: no evaluation, not one that read *)
(* the row while it was active nor one that finds it past its time, brings *)
(* it into another state.                                                  *)
DisabledSticks ==
  [][\A i \in Ids : subscriptions[i].status = "DISABLED" =>
       subscriptions'[i].status = "DISABLED"]_attentionVars

(* Noise reduction hides no news: in each group of events, an event that   *)
(* is not delivered is escalated, or an event like it and not less urgent  *)
(* is delivered.                                                           *)
NoNewsSuppressed ==
  \A k \in DOMAIN inbox :
    LET event == inbox[k]
        delivered == Delivered(inbox, groupOf(inbox, event.group))
    IN  \/ \E d \in delivered :
             /\ d.priority = "CRITICAL"
             /\ d.reason = "Repeated"
        \/ \E d \in delivered :
             /\ ~isMeaningfulChange(d, event)
             /\ priorityScore[event.priority] <= priorityScore[d.priority]
             /\ d.target_ref = event.target_ref
=============================================================================
