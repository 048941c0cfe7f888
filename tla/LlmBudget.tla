----------------------------- MODULE LlmBudget -----------------------------
(***************************************************************************)
(* The LLM budget of sandbox/budget.ts: BASIC companies draw on one shared *)
(* pool a month, paying companies contribute to it, and every use leaves a *)
(* trail in three tables of D1.                                            *)
(*                                                                         *)
(* Each exported function reads the month once, when it is called, and     *)
(* then awaits its SQL statements one by one; each statement is atomic and *)
(* nothing holds between two of them.  So every statement is an action, a  *)
(* call keeps the month it was made in, and it may die at any await.  The  *)
(* request that calls canConsumeLLM, then a provider, then recordLlmUsage  *)
(* is external; the plan of a company is taken as fixed.                   *)
(***************************************************************************)
EXTENDS Integers, Sequences, FiniteSets, Functions

CONSTANTS
  BudgetRequests, \* concurrent executions
  Basic,          \* companies on the BASIC plan
  Paying,         \* companies on JUNIOR or SENIOR
  MaxCost,        \* the greatest estimated cost of a call
  Cap,            \* basicMonthlyCapEur
  Contributions,  \* contributions of paying companies
  Months,         \* bound: the months 1..Months
  Mortal,         \* whether calls may die
  MaxWrites       \* bound: uses, contributions and budget rows recorded

BudgetCompanies == Basic \union Paying

ASSUME PlansAssumption == IsFiniteSet(Basic) /\ Basic \intersect Paying = {}
ASSUME AmountsAssumption == MaxCost \in Nat /\ Cap \in Nat /\ Contributions \subseteq Nat
ASSUME BudgetBoundsAssumption == Months \in Nat \ {0} /\ MaxWrites \in Nat
ASSUME BudgetRequestsAssumption == IsFiniteSet(BudgetRequests) /\ Mortal \in BOOLEAN

VARIABLES
  month,               \* the clock, as currentMonth() sees it
  llm_global_budget,   \* rows in insertion order; month is not unique
  llm_company_usage,   \* per company and month
  llm_call_log,        \* per company and month, summed
  llm_redistribution,  \* per month, summed
  request,             \* per request: the call in progress
  writes               \* history: uses, contributions and rows recorded

budgetVars == <<month, llm_global_budget, llm_company_usage, llm_call_log,
                llm_redistribution, request, writes>>

tables == <<llm_global_budget, llm_company_usage, llm_call_log, llm_redistribution>>

BudgetRow == [month : 1..Months, total : Nat, used : Nat]

Use == [llm_calls : Nat, cost : Nat]
NoUse == [llm_calls |-> 0, cost |-> 0]

NoRequest == [pc |-> "idle"]

Request ==
  {NoRequest}
    \union [pc : {"ensure", "bootstrap"}, month : 1..Months]
    \union [pc : {"check", "company", "pool", "log"}, month : 1..Months,
            company : BudgetCompanies, cost : 1..MaxCost]
    \union [pc : {"granted"}, company : BudgetCompanies, cost : 1..MaxCost]
    \union [pc : {"contribute", "fund"}, month : 1..Months, amount : Contributions]

BudgetTypeOK ==
  /\ month \in 1..Months
  /\ llm_global_budget \in Seq(BudgetRow)
  /\ llm_company_usage \in [BudgetCompanies -> [1..Months -> Use]]
  /\ llm_call_log \in [BudgetCompanies -> [1..Months -> Use]]
  /\ llm_redistribution \in [1..Months -> Nat]
  /\ request \in [BudgetRequests -> Request]
  /\ writes \in 0..MaxWrites

BudgetInit ==
  /\ month = 1
  /\ llm_global_budget = <<>>
  /\ llm_company_usage = [c \in BudgetCompanies |-> [m \in 1..Months |-> NoUse]]
  /\ llm_call_log = [c \in BudgetCompanies |-> [m \in 1..Months |-> NoUse]]
  /\ llm_redistribution = [m \in 1..Months |-> 0]
  /\ request = [r \in BudgetRequests |-> NoRequest]
  /\ writes = 0

Step(r, next) == request' = [request EXCEPT ![r] = next]

(* A call starts: the month is read, and the first statement is sent.      *)
BudgetCall(r, next) ==
  /\ request[r] = NoRequest
  /\ Step(r, next)
  /\ UNCHANGED <<month, tables, writes>>

Write ==
  /\ writes < MaxWrites
  /\ writes' = writes + 1

----------------------------------------------------------------------------
(* The SQL statements.                                                     *)

BudgetRowsOf(m) == {i \in DOMAIN llm_global_budget : llm_global_budget[i].month = m}

(* .first() of a SELECT without ORDER BY on a table scanned by rowid.      *)
FirstRow(m) == llm_global_budget[CHOOSE i \in BudgetRowsOf(m) : \A k \in BudgetRowsOf(m) : i <= k]

(* UPDATE ... WHERE month = ?: every row of the month, perhaps none.       *)
UpdatedRows(m, Changed(_)) ==
  [i \in DOMAIN llm_global_budget |->
     IF i \in BudgetRowsOf(m) THEN Changed(llm_global_budget[i]) ELSE llm_global_budget[i]]

Counted(table, company, m, cost) ==
  [table EXCEPT ![company][m] = [llm_calls |-> @.llm_calls + 1, cost |-> @.cost + cost]]

----------------------------------------------------------------------------
(* ensureGlobalBudget, also the first half of getBasicBudgetRemainingEur.  *)

Ensure(r) == BudgetCall(r, [pc |-> "ensure", month |-> month])

EnsureFound(r) ==
  /\ request[r].pc = "ensure"
  /\ BudgetRowsOf(request[r].month) # {}
  /\ Step(r, NoRequest)
  /\ UNCHANGED <<month, tables, writes>>

EnsureMissed(r) ==
  /\ request[r].pc = "ensure"
  /\ BudgetRowsOf(request[r].month) = {}
  /\ Step(r, [pc |-> "bootstrap", month |-> request[r].month])
  /\ UNCHANGED <<month, tables, writes>>

Bootstrap(r) ==
  /\ request[r].pc = "bootstrap"
  /\ llm_global_budget' = Append(llm_global_budget,
       [month |-> request[r].month, total |-> Cap, used |-> 0])
  /\ Step(r, NoRequest)
  /\ Write
  /\ UNCHANGED <<month, llm_company_usage, llm_call_log, llm_redistribution>>

----------------------------------------------------------------------------
(* canConsumeLLM.                                                          *)

(* Mutant of MayConsume: the pool only has to exist.                       *)
PoolExists(m, cost) == BudgetRowsOf(m) # {}

MayConsume(m, cost) ==
  /\ BudgetRowsOf(m) # {}
  /\ FirstRow(m).used + cost <= FirstRow(m).total

(* A paying company is always allowed, without a statement.                *)
GrantPaying(r, company, cost) ==
  /\ company \in Paying
  /\ BudgetCall(r, [pc |-> "granted", company |-> company, cost |-> cost])

Check(r, company, cost) ==
  /\ company \in Basic
  /\ BudgetCall(r, [pc |-> "check", month |-> month, company |-> company, cost |-> cost])

Grant(r) ==
  /\ request[r].pc = "check"
  /\ MayConsume(request[r].month, request[r].cost)
  /\ Step(r, [pc |-> "granted", company |-> request[r].company, cost |-> request[r].cost])
  /\ UNCHANGED <<month, tables, writes>>

Refuse(r) ==
  /\ request[r].pc = "check"
  /\ ~MayConsume(request[r].month, request[r].cost)
  /\ Step(r, NoRequest)
  /\ UNCHANGED <<month, tables, writes>>

----------------------------------------------------------------------------
(* recordLlmUsage, called when the provider has answered.  It reads the    *)
(* month anew.                                                             *)

At(r, pc) ==
  [pc |-> pc, month |-> request[r].month, company |-> request[r].company,
   cost |-> request[r].cost]

Record(r) ==
  /\ request[r].pc = "granted"
  /\ Step(r, [pc |-> "company", month |-> month, company |-> request[r].company,
              cost |-> request[r].cost])
  /\ UNCHANGED <<month, tables, writes>>

CountCompany(r) ==
  /\ request[r].pc = "company"
  /\ llm_company_usage' =
       Counted(llm_company_usage, request[r].company, request[r].month, request[r].cost)
  /\ Step(r, At(r, IF request[r].company \in Basic THEN "pool" ELSE "log"))
  /\ Write
  /\ UNCHANGED <<month, llm_global_budget, llm_call_log, llm_redistribution>>

(* Mutant of ChargePool: a failed charge is tried again.                   *)
ChargePoolAgain(r) ==
  /\ request[r].pc = "pool"
  /\ LET Charged(row) == [row EXCEPT !.used = @ + request[r].cost]
     IN  llm_global_budget' = UpdatedRows(request[r].month, Charged)
  /\ \/ Step(r, At(r, "log"))
     \/ UNCHANGED request
  /\ UNCHANGED <<month, llm_company_usage, llm_call_log, llm_redistribution, writes>>

ChargePool(r) ==
  /\ request[r].pc = "pool"
  /\ LET Charged(row) == [row EXCEPT !.used = @ + request[r].cost]
     IN  llm_global_budget' = UpdatedRows(request[r].month, Charged)
  /\ Step(r, At(r, "log"))
  /\ UNCHANGED <<month, llm_company_usage, llm_call_log, llm_redistribution, writes>>

LogCall(r) ==
  /\ request[r].pc = "log"
  /\ llm_call_log' =
       Counted(llm_call_log, request[r].company, request[r].month, request[r].cost)
  /\ Step(r, NoRequest)
  /\ UNCHANGED <<month, llm_global_budget, llm_company_usage, llm_redistribution, writes>>

----------------------------------------------------------------------------
(* recordRedistribution; a BASIC company returns at once.                  *)

Contribute(r, amount) ==
  BudgetCall(r, [pc |-> "contribute", month |-> month, amount |-> amount])

RecordContribution(r) ==
  /\ request[r].pc = "contribute"
  /\ llm_redistribution' =
       [llm_redistribution EXCEPT ![request[r].month] = @ + request[r].amount]
  /\ Step(r, [request[r] EXCEPT !.pc = "fund"])
  /\ Write
  /\ UNCHANGED <<month, llm_global_budget, llm_company_usage, llm_call_log>>

FundPool(r) ==
  /\ request[r].pc = "fund"
  /\ LET Funded(row) == [row EXCEPT !.total = @ + request[r].amount]
     IN  llm_global_budget' = UpdatedRows(request[r].month, Funded)
  /\ Step(r, NoRequest)
  /\ UNCHANGED <<month, llm_company_usage, llm_call_log, llm_redistribution, writes>>

----------------------------------------------------------------------------
(* The worker is evicted, or D1 throws.                                    *)
BudgetDie(r) ==
  /\ Mortal
  /\ request[r] # NoRequest
  /\ Step(r, NoRequest)
  /\ UNCHANGED <<month, tables, writes>>

Rollover ==
  /\ month < Months
  /\ month' = month + 1
  /\ UNCHANGED <<tables, request, writes>>

BudgetNext ==
  \/ \E r \in BudgetRequests :
       \/ Ensure(r)
       \/ EnsureFound(r)
       \/ EnsureMissed(r)
       \/ Bootstrap(r)
       \/ \E company \in BudgetCompanies, cost \in 1..MaxCost :
            \/ GrantPaying(r, company, cost)
            \/ Check(r, company, cost)
       \/ Grant(r)
       \/ Refuse(r)
       \/ Record(r)
       \/ CountCompany(r)
       \/ ChargePool(r)
       \/ LogCall(r)
       \/ \E amount \in Contributions : Contribute(r, amount)
       \/ RecordContribution(r)
       \/ FundPool(r)
       \/ BudgetDie(r)
  \/ Rollover

BudgetSpec == BudgetInit /\ [][BudgetNext]_budgetVars

----------------------------------------------------------------------------
(* Properties.                                                             *)

(* The pool is checked in one call and charged in another, perhaps in the  *)
(* next month, so it can be overdrawn: but, if a call fits in the cap, by  *)
(* no more than one call for each other concurrent request, whatever       *)
(* overlaps, dies or rolls over.                                           *)
OverdraftBounded ==
  MaxCost <= Cap =>
    \A m \in 1..Months : BudgetRowsOf(m) # {} =>
      FirstRow(m).used <= FirstRow(m).total + (Cardinality(BudgetRequests) - 1) * MaxCost

UsedByBasic(m) == [c \in Basic |-> llm_company_usage[c][m].cost]

(* The tables are written in an order that lets a call die between two of  *)
(* them without the later one knowing more: what the log shows has been    *)
(* counted against the company, what the pool lost was used by BASIC       *)
(* companies in that month, and what it gained was contributed in it.      *)
(* Two bootstraps may both insert a row for a month; the first, which      *)
(* canConsumeLLM reads, saw every charge and contribution the others saw.  *)
TrailCovers ==
  /\ \A c \in BudgetCompanies, m \in 1..Months :
       /\ llm_call_log[c][m].llm_calls <= llm_company_usage[c][m].llm_calls
       /\ llm_call_log[c][m].cost <= llm_company_usage[c][m].cost
  /\ \A i \in DOMAIN llm_global_budget :
       LET row == llm_global_budget[i]
       IN  /\ row.used <= SumFunction(UsedByBasic(row.month))
           /\ row.total <= Cap + llm_redistribution[row.month]
           /\ row.used <= FirstRow(row.month).used
           /\ row.total <= FirstRow(row.month).total

(* "add to global pool" (recordRedistribution): where no call dies, once   *)
(* nothing is in progress the pool of a month is the cap and all that was  *)
(* contributed.  The code does not keep this: a contribution made before   *)
(* the month's row is inserted updates no row.                             *)
ContributionsReachPool ==
  ~Mortal /\ (\A r \in BudgetRequests : request[r] = NoRequest) =>
    \A m \in 1..Months : BudgetRowsOf(m) # {} =>
      FirstRow(m).total = Cap + llm_redistribution[m]
=============================================================================
