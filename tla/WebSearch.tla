------------------------------ MODULE WebSearch ------------------------------
(***************************************************************************)
(* Searching the public web for a company: the API asks for searches and   *)
(* page fetches (packages/db/src/public-web.ts), a worker runs them        *)
(* (public_web/runner.py, infrastructure/public_web_postgres.py), and      *)
(* every call of a provider is first charged to its daily and monthly      *)
(* budget (search_budget.py, reserve_search_provider_usage).               *)
(*                                                                         *)
(* A row of public_web_work_requests is the latest of its target: a unique *)
(* index allows one open request of a query or a candidate.  A request     *)
(* that waits for its retry is claimed at any later time.  What the work   *)
(* ledger makes of a request after its run is WorkLedger's: here it takes  *)
(* back the request of a dead worker.  One provider, whose calls cost      *)
(* nothing; a search finds the pages to fetch, and what a page says is     *)
(* left out.                                                               *)
(***************************************************************************)
EXTENDS Naturals, FiniteSetsExt, Functions

CONSTANTS
  Queries,       \* public_web_search_queries
  FoundPages,    \* public_web_candidates
  LastDay,       \* bound on the days that pass
  MonthOf,       \* [1..LastDay -> months]
  DailyLimit, MonthlyLimit,  \* of search_provider_budgets
  MaxSearchAttempts  \* public_web_work_requests.max_attempts

LookupTargets == Queries \cup FoundPages
SearchDays == 1..LastDay

ASSUME WebSearchAssumption ==
  /\ Queries \cap FoundPages = {}
  /\ {LastDay, DailyLimit, MonthlyLimit, MaxSearchAttempts} \subseteq Nat \ {0}
  /\ DOMAIN MonthOf = SearchDays

VARIABLES
  today,     \* the UTC date
  usage,     \* search_provider_usage_daily.request_count, by usage_date
  lookups,   \* public_web_work_requests, by target
  resting,   \* the queries with next_allowed_run_at in the future
  searching  \* the run of a request in a worker, by target

searches == <<today, usage, lookups, resting>>
searchvars == <<searches, searching>>

Absent == [status |-> "ABSENT", attempts |-> 0]
NoRun == [at |-> "NONE"]

SearchRun ==
  {NoRun}
    \cup [at : {"CLAIMED", "STARTED", "ANSWERED", "PERSISTED"}]
    \cup [at : {"RESERVING", "CHARGING"}, day : SearchDays]

SearchTypeOK ==
  /\ today \in SearchDays
  /\ usage \in [SearchDays -> Nat]
  /\ lookups \in
       [LookupTargets -> [status : {"ABSENT", "PENDING", "RUNNING", "SUCCEEDED", "FAILED"},
                          attempts : 0..MaxSearchAttempts]]
  /\ resting \subseteq Queries
  /\ searching \in [LookupTargets -> SearchRun]
  /\ \A t \in LookupTargets : searching[t] # NoRun => lookups[t].status = "RUNNING"

SearchInit ==
  /\ today = 1
  /\ usage = [d \in SearchDays |-> 0]
  /\ lookups = [t \in LookupTargets |-> Absent]
  /\ resting = {}
  /\ searching = [t \in LookupTargets |-> NoRun]

RunIs(t, run) == searching' = [searching EXCEPT ![t] = run]

-----------------------------------------------------------------------------
(* The API.                                                                *)

Open(t) == lookups[t].status \in {"PENDING", "RUNNING"}
Asked(t) == [lookups EXCEPT ![t] = [status |-> "PENDING", attempts |-> 0]]

(* createWebSearchRequests, for one of the queries it generates.  An open   *)
(* request is answered as it is; a query that rests is skipped.             *)
CreateWebSearchRequest(q) ==
  /\ q \notin resting
  /\ ~Open(q)
  /\ lookups' = Asked(q)
  /\ UNCHANGED <<today, usage, resting, searching>>

EnqueueWebCandidateFetch(c) ==
  /\ ~Open(c)
  /\ lookups' = Asked(c)
  /\ UNCHANGED <<today, usage, resting, searching>>

-----------------------------------------------------------------------------
(* The worker.                                                             *)

ClaimRequest(t) ==
  /\ lookups[t].status = "PENDING"
  /\ lookups' = [lookups EXCEPT ![t] = [status |-> "RUNNING", attempts |-> @.attempts + 1]]
  /\ RunIs(t, [at |-> "CLAIMED"])
  /\ UNCHANGED <<today, usage, resting>>

(* The query is read again: it may rest by now. *)
StartRun(t) ==
  /\ searching[t].at = "CLAIMED"
  /\ t \notin resting
  /\ RunIs(t, [at |-> "STARTED"])
  /\ UNCHANGED searches

(* A page, or the next: the day is the transaction's, taken when it begins. *)
ReserveBegins(q) ==
  /\ searching[q].at \in {"STARTED", "ANSWERED"}
  /\ RunIs(q, [at |-> "RESERVING", day |-> today])
  /\ UNCHANGED searches

MonthUsage(d) == SumFunctionOnSet(usage, {e \in SearchDays : MonthOf[e] = MonthOf[d]})

WithinLimits(d) ==
  /\ usage[d] + 1 <= DailyLimit
  /\ MonthUsage(d) + 1 <= MonthlyLimit

(* The budget is selected for update: its row is locked until the commit.   *)
BudgetSeen(q) == TRUE
BudgetFree(q) == \A p \in Queries \ {q} : searching[p].at # "CHARGING"

Reserve(q) ==
  /\ searching[q].at = "RESERVING"
  /\ BudgetFree(q)
  /\ WithinLimits(searching[q].day)
  /\ RunIs(q, [at |-> "CHARGING", day |-> searching[q].day])
  /\ UNCHANGED searches

(* The upsert of the day's usage, the commit, and the provider's answer.    *)
Charge(q) ==
  /\ searching[q].at = "CHARGING"
  /\ usage' = [usage EXCEPT ![searching[q].day] = @ + 1]
  /\ RunIs(q, [at |-> "ANSWERED"])
  /\ UNCHANGED <<today, lookups, resting>>

(* persist_search_results: the pages found are asked for unless they are.   *)
(* A query with direct coverage is not searched.                            *)
PersistSearch(q, found) ==
  /\ searching[q].at \in {"STARTED", "ANSWERED"}
  /\ lookups' = [t \in LookupTargets |->
       IF t \in found /\ ~Open(t) THEN Asked(t)[t] ELSE lookups[t]]
  /\ resting' = resting \cup {q}
  /\ RunIs(q, [at |-> "PERSISTED"])
  /\ UNCHANGED <<today, usage>>

(* persist_fetched_document *)
PersistFetch(c) ==
  /\ searching[c].at = "STARTED"
  /\ RunIs(c, [at |-> "PERSISTED"])
  /\ UNCHANGED searches

CompleteRun(t) ==
  /\ searching[t].at = "PERSISTED"
  /\ lookups' = [lookups EXCEPT ![t].status = "SUCCEEDED"]
  /\ RunIs(t, NoRun)
  /\ UNCHANGED <<today, usage, resting>>

Retried(t, retryable) ==
  [lookups EXCEPT ![t].status =
     IF retryable /\ lookups[t].attempts < MaxSearchAttempts THEN "PENDING" ELSE "FAILED"]

(* fail_run, after an error anywhere in a run; a query that rests already   *)
(* and a budget that is spent are retryable.                                *)
FailRun(t, retryable) ==
  /\ searching[t] # NoRun
  /\ searching[t].at = "CLAIMED" /\ t \in resting => retryable
  /\ lookups' = Retried(t, retryable)
  /\ resting' = resting \cup ({t} \cap Queries)
  /\ RunIs(t, NoRun)
  /\ UNCHANGED <<today, usage>>

WorkerDies(t) ==
  /\ searching[t] # NoRun
  /\ RunIs(t, NoRun)
  /\ UNCHANGED searches

(* project_domain_request_status, when the lease of a dead worker's work    *)
(* has expired.                                                             *)
TakeBack(t, retried) ==
  /\ lookups[t].status = "RUNNING" /\ searching[t] = NoRun
  /\ lookups' = Retried(t, retried)
  /\ UNCHANGED <<today, usage, resting, searching>>

-----------------------------------------------------------------------------
QueryRested(q) ==
  /\ q \in resting
  /\ resting' = resting \ {q}
  /\ UNCHANGED <<today, usage, lookups, searching>>

Midnight ==
  /\ today < LastDay
  /\ today' = today + 1
  /\ UNCHANGED <<usage, lookups, resting, searching>>

SearchNext ==
  \/ \E q \in Queries : CreateWebSearchRequest(q)
  \/ \E c \in FoundPages : EnqueueWebCandidateFetch(c)
  \/ \E t \in LookupTargets : ClaimRequest(t)
  \/ \E t \in LookupTargets : StartRun(t)
  \/ \E q \in Queries : ReserveBegins(q)
  \/ \E q \in Queries : Reserve(q)
  \/ \E q \in Queries : Charge(q)
  \/ \E q \in Queries, found \in SUBSET FoundPages : PersistSearch(q, found)
  \/ \E c \in FoundPages : PersistFetch(c)
  \/ \E t \in LookupTargets : CompleteRun(t)
  \/ \E t \in LookupTargets, retryable \in BOOLEAN : FailRun(t, retryable)
  \/ \E t \in LookupTargets : WorkerDies(t)
  \/ \E t \in LookupTargets, retried \in BOOLEAN : TakeBack(t, retried)
  \/ \E q \in Queries : QueryRested(q)
  \/ Midnight

SearchSpec == SearchInit /\ [][SearchNext]_searchvars

-----------------------------------------------------------------------------
(* Properties.                                                             *)

(* No day and no month is charged for more calls than the budget allows,    *)
(* though searches reserve at the same time and a reservation that began    *)
(* before midnight is charged after it (reserve_search_provider_usage).     *)
BudgetKept ==
  \A d \in SearchDays : usage[d] <= DailyLimit /\ MonthUsage(d) <= MonthlyLimit
=============================================================================
