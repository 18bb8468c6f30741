----------------------------- MODULE WorkLedger -----------------------------
(***************************************************************************)
(* The durable work ledger of migration 0007 (as amended by 0012): the     *)
(* tables work_items, work_attempts and dead_letters, the status of the    *)
(* domain request a work item carries.  The database functions are the     *)
(* only writers of the ledger; a request is also written by the handler    *)
(* that serves it (github_postgres.py, public_web_postgres.py,             *)
(* calendar_postgres.py).  Every action is one database transaction.       *)
(*                                                                         *)
(* Callers are unconstrained: any worker may present any lease token it    *)
(* was ever given, at any time, and its handler may write on after its     *)
(* lease was lost, which is what a paused, restarted or partitioned worker *)
(* process does.                                                           *)
(*                                                                         *)
(* Abstractions.  Timestamps are countdowns: lease = n means that          *)
(* lease_expires_at is n ticks in the future and lease = 0 that it is      *)
(* <= now(); wait is the same for available_at, and 0 once nothing reads   *)
(* that column again.  A lease token                                       *)
(* (gen_random_uuid) is the number of the claim that drew it: attempt_count *)
(* and lease_generation are incremented by the same UPDATE and start at 0  *)
(* together, so one number stands for both.  A request row has the id of   *)
(* the work item its insert trigger created.  The alert work types, whose  *)
(* requests have no one-active index, are AlertFanout's.                   *)
(***************************************************************************)
EXTENDS Naturals, FiniteSets

CONSTANTS
  Items,        \* ids of work_items (and of the requests they carry)
  Targets,      \* subjects of work: a source, a repository, a connection...
  KindOf,       \* the work_type of each target's work
  NoRetry,      \* targets whose schedule says retry_policy = 'NO_RETRY'
  Workers,      \* worker instances
  Serves,       \* the targets whose work_class a worker claims
  None,         \* SQL null
  MaxAttempts,  \* max_attempts
  LeaseLength,  \* lease_duration_seconds, in ticks
  MaxWait,      \* longest backoff or scheduling delay, in ticks
  ClaimLimit,   \* claim_limit (the worker's batch size)
  ReapLimit     \* reap_limit

Kinds == {"ATS_COLLECT", "GITHUB_SYNC", "PUBLIC_WEB", "RECRUITER_CAMPUS_PROJECT",
          "CALENDAR_SYNC", "CONTROL", "RESUME"}

ASSUME LedgerAssumption ==
  /\ KindOf \in [Targets -> Kinds]
  /\ NoRetry \subseteq Targets
  /\ Serves \in [Workers -> SUBSET Targets]
  /\ None \notin Items \cup Targets \cup Workers
  /\ MaxAttempts \in 1..10
  /\ LeaseLength \in Nat \ {0}
  /\ MaxWait \in Nat
  /\ ClaimLimit \in 1..100
  /\ ReapLimit \in Nat \ {0}

VARIABLES
  work,        \* work_items
  attempt,     \* work_attempts, by item and attempt number
  letters,     \* work items that have a dead_letters row
  request,     \* status of the domain request with a given id
  serving,     \* how far the handler of an attempt is with its request
  executable   \* targets whose source policy is executable

vars == <<work, attempt, letters, request, serving, executable>>

-----------------------------------------------------------------------------
(* What the work type says of a work item *)

\* Inserting a request row enqueues the work.
HasRequest(t) ==
  KindOf[t] \in {"GITHUB_SYNC", "PUBLIC_WEB", "CALENDAR_SYNC"}
\* The handler writes its request whatever status it has by then (fail_run of the
\* public-web handler, complete and fail of the calendar's); GitHub's looks.
Overwrites(t) == KindOf[t] \in {"PUBLIC_WEB", "CALENDAR_SYNC"}
\* source_id is not null, so a source policy governs the work.
Governed(t) == KindOf[t] \in {"ATS_COLLECT", "GITHUB_SYNC", "PUBLIC_WEB"}
\* user_id is not null.
Owned(t) == KindOf[t] \in {"CALENDAR_SYNC", "RESUME"}
\* exclusive_key is not null.
Keyed(t) == KindOf[t] \notin {"CONTROL", "RESUME"}

Permitted(t) == Governed(t) => t \in executable

-----------------------------------------------------------------------------
(* Rows *)

Waiting == {"READY", "RETRY_WAIT"}
Held    == {"LEASED", "RUNNING"}
Active  == Waiting \cup Held
Settled == {"SUCCEEDED", "CANCELLED", "AUTH_REQUIRED", "POLICY_BLOCKED", "DEAD_LETTERED"}

OpenAttempt   == {"LEASED", "RUNNING"}
ClosedAttempt == {"SUCCEEDED", "FAILED", "CANCELLED", "ABANDONED"}

WorkRow == [status   : {"ABSENT"} \cup Active \cup Settled,
            target   : Targets \cup {None},
            req      : Items \cup {None},
            attempts : 0..MaxAttempts,       \* attempt_count and lease_generation
            token    : 0..MaxAttempts,       \* lease_token, 0 for null
            owner    : Workers \cup {None},  \* lease_owner
            lease    : 0..LeaseLength,       \* lease_expires_at
            wait     : 0..MaxWait,           \* available_at
            cancel   : BOOLEAN]              \* cancel_requested_at is not null

AttemptRow == [status : {"NONE"} \cup OpenAttempt \cup ClosedAttempt,
               worker : Workers \cup {None}]

RequestStatus == {"NONE", "PENDING", "RUNNING", "SUCCEEDED", "FAILED", "CANCELLED"}

Outcomes == {"SUCCEEDED", "RETRYABLE", "NON_RETRYABLE", "AUTH_REQUIRED", "POLICY_BLOCKED"}

TypeOK ==
  /\ work \in [Items -> WorkRow]
  /\ attempt \in [Items -> [1..MaxAttempts -> AttemptRow]]
  /\ letters \subseteq Items
  /\ request \in [Items -> RequestStatus]
  /\ serving \in [Items -> [1..MaxAttempts -> {"IDLE", "OPEN", "DONE"}]]
  /\ executable \subseteq Targets

Row(t, r, d) ==
  [status |-> "READY", target |-> t, req |-> r, attempts |-> 0, token |-> 0,
   owner |-> None, lease |-> 0, wait |-> d, cancel |-> FALSE]

AbsentRow ==
  [status |-> "ABSENT", target |-> None, req |-> None, attempts |-> 0, token |-> 0,
   owner |-> None, lease |-> 0, wait |-> 0, cancel |-> FALSE]

Init ==
  /\ work = [i \in Items |-> AbsentRow]
  /\ attempt = [i \in Items |-> [n \in 1..MaxAttempts |-> [status |-> "NONE", worker |-> None]]]
  /\ letters = {}
  /\ request = [i \in Items |-> "NONE"]
  /\ serving = [i \in Items |-> [n \in 1..MaxAttempts |-> "IDLE"]]
  /\ executable = Targets

-----------------------------------------------------------------------------
(* Helpers *)

IsActive(i) == work[i].status \in Active

\* Mutant: the index covers only leased and running items.
KeyBusyHeldOnly(t) ==
  Keyed(t) /\ \E i \in Items : work[i].status \in Held /\ work[i].target = t

\* work_items_exclusive_active_idx: t's exclusive key is taken.
KeyBusy(t) == Keyed(t) /\ \E i \in Items : IsActive(i) /\ work[i].target = t

OpenRequest == {"PENDING", "RUNNING"}

\* The target of the request with id r: the work item the trigger created has the same id.
RequestTarget(r) == work[r].target

\* Mutant: the index forgets requests that are still PENDING.
RequestBusyRunning(t) == \E r \in Items : request[r] = "RUNNING" /\ RequestTarget(r) = t

\* The one-active-request unique index of t's request table.
RequestBusy(t) == \E r \in Items : request[r] \in OpenRequest /\ RequestTarget(r) = t

\* The requests with these statuses do not violate that index: a transaction that
\* would violate it aborts.
IndexKept(statuses) ==
  \A q, r \in Items :
    /\ statuses[q] \in OpenRequest /\ statuses[r] \in OpenRequest
    /\ RequestTarget(q) = RequestTarget(r)
    => q = r

\* project_domain_request_status: the request status a work status maps to.
Projection(status) ==
  CASE status = "SUCCEEDED"              -> "SUCCEEDED"
    [] status = "CANCELLED"              -> "CANCELLED"
    [] status \in {"READY", "RETRY_WAIT"} -> "PENDING"
    [] OTHER                             -> "FAILED"

\* The requests after the items in S have moved to their rows in rows.
Projected(S, rows) ==
  [r \in Items |->
     IF \E i \in S : rows[i].req = r
     THEN Projection(rows[CHOOSE i \in S : rows[i].req = r].status)
     ELSE request[r]]

\* The dead letters after the items in S have moved to their rows in rows; the
\* mutant writes one for every item it is told of.
LettersForAll(S, rows) == letters \cup S

LettersAfter(S, rows) == letters \cup {i \in S : rows[i].status = "DEAD_LETTERED"}

\* Mutant: the lease columns are not cleared.
ReleasedWithToken(row, status, d) == [row EXCEPT !.status = status, !.wait = d]

\* The row after the lease is given up and the item moves to status.
Released(row, status, d) ==
  [status |-> status, target |-> row.target, req |-> row.req, attempts |-> row.attempts,
   token |-> 0, owner |-> None, lease |-> 0, wait |-> d, cancel |-> row.cancel]

\* Mutant: the fence checks who calls, not with which lease.
HoldsAnyLease(w, i, n) == attempt[i][n].worker = w

\* The caller of start, heartbeat and finish presents the token of the current lease.
HoldsLease(w, i, n) ==
  /\ work[i].token = n
  /\ attempt[i][n].worker = w

Due(w) == {i \in Items : /\ work[i].status \in Waiting
                         /\ work[i].wait = 0
                         /\ work[i].target \in Serves[w]}

-----------------------------------------------------------------------------
(* Enqueueing *)

Insert(i, t, r, d) ==
  /\ work[i].status = "ABSENT"
  /\ ~KeyBusy(t)
  /\ work' = [work EXCEPT ![i] = Row(t, r, d)]
  /\ UNCHANGED <<attempt, letters, serving, executable>>

\* A request row is inserted and its trigger enqueue_domain_request_work inserts the
\* work item in the same transaction.
\* If any guard fails the transaction does nothing or aborts.
EnqueueRequest(i, t, d) ==
  /\ HasRequest(t)
  /\ Permitted(t)
  /\ ~RequestBusy(t)
  /\ Insert(i, t, i, d)
  /\ request' = [request EXCEPT ![i] = "PENDING"]

\* enqueue_ats, enqueue_recruiter_projection, enqueueM11Work and the schedules
\* whose work has no request: on conflict nothing new is inserted.
EnqueueDirect(i, t, d) ==
  /\ ~HasRequest(t)
  /\ Permitted(t)
  /\ Insert(i, t, None, d)
  /\ UNCHANGED request

-----------------------------------------------------------------------------
(* The lease protocol *)

\* Mutant: a lease is identified by its holder's first token.
LeasedToFirstToken(w, row) ==
  [status |-> "LEASED", target |-> row.target, req |-> row.req,
   attempts |-> row.attempts + 1, token |-> 1, owner |-> w,
   lease |-> LeaseLength, wait |-> 0, cancel |-> row.cancel]

LeasedTo(w, row) ==
  [status |-> "LEASED", target |-> row.target, req |-> row.req,
   attempts |-> row.attempts + 1, token |-> row.attempts + 1, owner |-> w,
   lease |-> LeaseLength, wait |-> 0, cancel |-> row.cancel]

\* claim_work_items: block the due items whose policy no longer permits them,
\* then lease a batch of the others.  Which ones (priority, skip locked) is left open.
Claim(w, S) ==
  LET barred == {i \in Due(w) : ~Permitted(work[i].target)}
  IN  /\ S \subseteq Due(w) \ barred
      /\ Cardinality(S) <= ClaimLimit
      /\ S = {} => Due(w) = barred /\ barred # {}
      /\ work' = [i \in Items |->
                    IF i \in barred THEN [work[i] EXCEPT !.status = "POLICY_BLOCKED"]
                    ELSE IF i \in S THEN LeasedTo(w, work[i])
                    ELSE work[i]]
      /\ request' = Projected(barred, work')
      /\ attempt' = [i \in Items |->
                       IF i \in S
                       THEN [attempt[i] EXCEPT ![work[i].attempts + 1] =
                               [status |-> "LEASED", worker |-> w]]
                       ELSE attempt[i]]
      /\ UNCHANGED <<letters, serving, executable>>

\* start_work_attempt
Start(w, i, n) ==
  /\ work[i].status = "LEASED" /\ work[i].lease > 0
  /\ HoldsLease(w, i, n)
  /\ work' = [work EXCEPT ![i].status = "RUNNING"]
  /\ attempt' = [attempt EXCEPT ![i][n].status = "RUNNING"]
  /\ UNCHANGED <<letters, request, serving, executable>>

\* heartbeat_work_attempt
Heartbeat(w, i, n) ==
  /\ work[i].status = "RUNNING" /\ work[i].lease > 0
  /\ HoldsLease(w, i, n)
  /\ work' = [work EXCEPT ![i].lease = LeaseLength]
  /\ UNCHANGED <<attempt, letters, request, serving, executable>>

\* Mutant: the last attempt is retried.
NoRetryLeftOffByOne(row, outcome) ==
  /\ outcome \in {"RETRYABLE", "NON_RETRYABLE"}
  /\ \/ outcome = "NON_RETRYABLE"
     \/ row.target \in NoRetry
     \/ row.attempts > MaxAttempts

NoRetryLeft(row, outcome) ==
  /\ outcome \in {"RETRYABLE", "NON_RETRYABLE"}
  /\ \/ outcome = "NON_RETRYABLE"
     \/ row.target \in NoRetry
     \/ row.attempts >= MaxAttempts

\* The status finish_work_attempt gives an item whose attempt ended with outcome.
NextStatus(row, outcome) ==
  CASE row.cancel -> "CANCELLED"
    [] ~row.cancel /\ outcome \in {"SUCCEEDED", "AUTH_REQUIRED", "POLICY_BLOCKED"} -> outcome
    [] ~row.cancel /\ NoRetryLeft(row, outcome) -> "DEAD_LETTERED"
    [] OTHER -> "RETRY_WAIT"

AttemptStatus(next, outcome) ==
  IF next = "CANCELLED" THEN "CANCELLED"
  ELSE IF outcome = "SUCCEEDED" THEN "SUCCEEDED" ELSE "FAILED"

\* finish_work_attempt: fenced by the token alone, an expired lease that was not
\* reaped yet is still accepted.  The backoff d has no upper bound the ledger sets
\* (Retry-After), so any delay of at least a tick is allowed.
Finish(w, i, n, outcome, d) ==
  LET next == NextStatus(work[i], outcome)
  IN  /\ work[i].status \in Held
      /\ HoldsLease(w, i, n)
      /\ next = "RETRY_WAIT" => d > 0
      /\ next # "RETRY_WAIT" => d = 0
      /\ work' = [work EXCEPT ![i] = Released(@, next, d)]
      /\ attempt' = [attempt EXCEPT ![i][n].status = AttemptStatus(next, outcome)]
      /\ request' = Projected({i}, work') /\ IndexKept(request')
      /\ serving' = [serving EXCEPT ![i][n] = "DONE"]
      /\ letters' = LettersAfter({i}, work')
      /\ UNCHANGED executable

\* Mutant: only a started attempt can expire.
ExpiredRunning == {i \in Items : work[i].status = "RUNNING" /\ work[i].lease = 0}

Expired == {i \in Items : work[i].status \in Held /\ work[i].lease = 0}

\* Mutant: the reaper grants one attempt too many.
ReapedStatusOffByOne(row) ==
  IF row.attempts <= MaxAttempts THEN "RETRY_WAIT" ELSE "DEAD_LETTERED"

ReapedStatus(row) == IF row.attempts < MaxAttempts THEN "RETRY_WAIT" ELSE "DEAD_LETTERED"

\* reap_expired_work_items: all of the batch or, when the index refuses one of its
\* requests, nothing.
Reap(S) ==
  /\ S # {} /\ S \subseteq Expired
  /\ Cardinality(S) <= ReapLimit
  /\ work' = [i \in Items |->
                IF i \in S THEN Released(work[i], ReapedStatus(work[i]), 0) ELSE work[i]]
  /\ attempt' = [i \in Items |->
                   [n \in 1..MaxAttempts |->
                      IF i \in S /\ n = work[i].token /\ attempt[i][n].status \in OpenAttempt
                      THEN [attempt[i][n] EXCEPT !.status = "ABANDONED"]
                      ELSE attempt[i][n]]]
  /\ request' = Projected(S, work') /\ IndexKept(request')
  /\ letters' = LettersAfter(S, work')
  /\ UNCHANGED <<serving, executable>>

-----------------------------------------------------------------------------
(* The handlers' own writes of their requests *)

\* The handler of attempt n may be running: it was started, and nobody reported it.  (An
\* attempt whose lease expired before its start is as one that started just then.)
MayRun(i, n) == attempt[i][n].status \in {"RUNNING", "ABANDONED"}

\* Mutant: the handler takes its request whatever became of it.
MayTakeAny(r) == TRUE

\* and status = 'PENDING'
MayTake(r) == request[r] = "PENDING"

\* create_sync_run, claim_work_request and the calendar's claim: first of all, a handler
\* takes its request.  When it may not, it raises.
TakeRequest(i, n) ==
  LET r == work[i].req
  IN  /\ r # None
      /\ MayRun(i, n) /\ serving[i][n] = "IDLE"
      /\ MayTake(r)
      /\ request' = [request EXCEPT ![r] = "RUNNING"]
      /\ serving' = [serving EXCEPT ![i][n] = "OPEN"]
      /\ UNCHANGED <<work, attempt, letters, executable>>

\* What the last write of a handler may make of a request of t that has the status old.
\* Whether a failure is to be retried depends on the error and the request's own count
\* of attempts, which are left open.
Left(t, old) ==
  CASE KindOf[t] = "CALENDAR_SYNC" -> {"SUCCEEDED", "PENDING", "FAILED"}
    [] KindOf[t] = "PUBLIC_WEB" ->
         {"PENDING", "FAILED"} \cup {IF old = "RUNNING" THEN "SUCCEEDED" ELSE old}
    [] OTHER -> IF old = "RUNNING" THEN {"SUCCEEDED", "FAILED"} ELSE {old}

\* The end of a handler that took its request: complete_unchanged, persist_sync,
\* complete_run and complete, or fail_sync, fail_run and fail.  A write the index of
\* the requests refuses is rolled back and the handler ends without it.
CloseRequest(i, n, status) ==
  LET r == work[i].req
      written == [request EXCEPT ![r] = status]
  IN  /\ MayRun(i, n) /\ serving[i][n] = "OPEN"
      /\ status \in Left(work[i].target, request[r])
      /\ request' = IF IndexKept(written) THEN written ELSE request
      /\ serving' = [serving EXCEPT ![i][n] = "DONE"]
      /\ UNCHANGED <<work, attempt, letters, executable>>

-----------------------------------------------------------------------------
(* Operators and time *)

\* cancelGlobalWork: the request an unclaimed item carries is not touched.
Cancel(i) ==
  /\ IsActive(i) /\ ~Owned(work[i].target)
  /\ work' = [work EXCEPT ![i] = IF @.status \in Waiting
                                 THEN [@ EXCEPT !.status = "CANCELLED", !.wait = 0]
                                 ELSE [@ EXCEPT !.cancel = TRUE]]
  /\ UNCHANGED <<attempt, letters, request, serving, executable>>

\* requeue_dead_letter: i stays dead lettered, j is its linked successor.
Requeue(i, j) ==
  LET t == work[i].target
      r == work[i].req
  IN  /\ work[i].status = "DEAD_LETTERED" /\ ~Owned(t) /\ Permitted(t)
      /\ Insert(j, t, r, 0)
      /\ r # None => \A q \in Items \ {r} :
                        ~(request[q] \in OpenRequest /\ RequestTarget(q) = t)
      /\ request' = [q \in Items |-> IF q = r THEN "PENDING" ELSE request[q]]

\* updateSourcePolicy, or a change of sources.enabled, for the source of t.
SetPolicy(t) ==
  /\ Governed(t)
  /\ executable' = IF t \in executable THEN executable \ {t} ELSE executable \cup {t}
  /\ UNCHANGED <<work, attempt, letters, request, serving>>

Before(n) == IF n = 0 THEN 0 ELSE n - 1

Tick ==
  /\ \E i \in Items : work[i].lease > 0 \/ work[i].wait > 0
  /\ work' = [i \in Items |-> [work[i] EXCEPT !.lease = Before(@), !.wait = Before(@)]]
  /\ UNCHANGED <<attempt, letters, request, serving, executable>>

-----------------------------------------------------------------------------
Attempts == 1..MaxAttempts

Next ==
  \/ \E i \in Items, t \in Targets, d \in 0..MaxWait :
        EnqueueRequest(i, t, d) \/ EnqueueDirect(i, t, d)
  \/ \E w \in Workers, S \in SUBSET Items : Claim(w, S)
  \/ \E w \in Workers, i \in Items, n \in Attempts : Start(w, i, n) \/ Heartbeat(w, i, n)
  \/ \E w \in Workers, i \in Items, n \in Attempts, o \in Outcomes, d \in 0..MaxWait :
        Finish(w, i, n, o, d)
  \/ \E S \in SUBSET Items : Reap(S)
  \/ \E i \in Items, n \in Attempts : TakeRequest(i, n)
  \/ \E i \in Items, n \in Attempts, status \in RequestStatus : CloseRequest(i, n, status)
  \/ \E i \in Items : Cancel(i)
  \/ \E i, j \in Items : Requeue(i, j)
  \/ \E t \in Targets : SetPolicy(t)
  \/ Tick

Spec == Init /\ [][Next]_vars

-----------------------------------------------------------------------------
(* Properties *)

\* The lease columns are set exactly while an item is LEASED or RUNNING (the CHECK
\* constraint of work_items), and then the attempt they name is the newest one, is
\* open in the same status and belongs to the lease owner; every earlier attempt is
\* closed.  So no attempt is left open by a lease that was lost, cancelled or reaped.
AttemptsMatchLease ==
  \A i \in Items :
    LET row == work[i]
    IN  /\ IF row.status \in Held
           THEN /\ row.token = row.attempts /\ row.token > 0
                /\ attempt[i][row.token] = [status |-> row.status, worker |-> row.owner]
                /\ row.owner \in Workers
           ELSE row.token = 0 /\ row.owner = None /\ row.lease = 0
        /\ \A n \in Attempts :
             /\ n > row.attempts => attempt[i][n].status = "NONE"
             /\ n <= row.attempts /\ n # row.token => attempt[i][n].status \in ClosedAttempt

\* Work on one exclusive target is never active twice, whatever is requeued, reaped
\* or retried: the unique index is never the thing that stops a status change.
OneActivePerTarget ==
  \A i, j \in Items :
    IsActive(i) /\ IsActive(j) /\ work[i].target = work[j].target /\ Keyed(work[i].target)
      => i = j

\* An item that can be claimed still has an attempt to spend, so a claim never pushes
\* attempt_count past max_attempts.
ClaimableHasBudget ==
  \A i \in Items : work[i].status \in Waiting => work[i].attempts < MaxAttempts

\* dead_letters has a row for an item exactly when the item is dead lettered; the row
\* survives a requeue, which leaves the original item as it was.
LettersMatchStatus == letters = {i \in Items : work[i].status = "DEAD_LETTERED"}

\* Two requests of a target are never open together (the one-active indexes), and where
\* the handler looks at its request's status before it writes, no other request is open
\* while an item is active: finishing and reaping, which re-open the request of an item,
\* are never refused by the index.
OneOpenRequestPerTarget ==
  /\ IndexKept(request)
  /\ \A i, q \in Items :
       /\ IsActive(i) /\ work[i].req # None /\ ~Overwrites(work[i].target)
       /\ request[q] \in OpenRequest /\ RequestTarget(q) = work[i].target
       => q = work[i].req

\* A request that is open, although handlers that lost their lease go on writing beside
\* the ledger, is not forgotten: an active item carries it, or one that an operator
\* cancelled before it was claimed; and while it is RUNNING there is a handler that took
\* it and has not closed it.  (For requests whose handlers look at their status.)
OpenRequestsHaveWork ==
  \A r \in Items :
    request[r] \in OpenRequest /\ ~Overwrites(RequestTarget(r)) =>
      /\ \E i \in Items : work[i].req = r /\ (IsActive(i) \/ work[i].status = "CANCELLED")
      /\ request[r] = "RUNNING" =>
           \E i \in Items, n \in Attempts : work[i].req = r /\ serving[i][n] = "OPEN"

\* A settled item and a closed attempt are history: no late worker, reaper, operator
\* or requeue changes them.
HistoryIsFinal ==
  [][\A i \in Items :
       /\ work[i].status \in Settled => work'[i] = work[i]
       /\ \A n \in Attempts :
            attempt[i][n].status \in ClosedAttempt => attempt'[i][n] = attempt[i][n]]_vars

\* A token is used up: a new lease on an item always carries a number no earlier
\* attempt had, so the generation fences every earlier holder.
TokensOnlyGrow ==
  [][\A i \in Items : /\ work'[i].attempts >= work[i].attempts
                      /\ work'[i].token \notin {0, work[i].token}
                           => work'[i].token > work[i].attempts]_vars

\* Whatever crashes, every item enqueued is eventually settled: leases that are not
\* renewed expire, the reaper returns their items, and the budget runs out.  (Stated
\* here, checked under the worker loops of AtsCollection.)
EveryItemSettles ==
  \A i \in Items : IsActive(i) ~> work[i].status \in Settled

\* An occurrence is suppressed only by active work on the same target.
SuppressedOnlyByActiveWork == \A t \in Targets : RequestBusy(t) => KeyBusy(t)

-----------------------------------------------------------------------------
(* The ledger implements ExclusiveWork *)

PhaseOf(status) ==
  CASE status \in Waiting -> "queued"
    [] status \in Held    -> "held"
    [] status \in Settled -> "settled"
    [] OTHER              -> "absent"

Life == INSTANCE ExclusiveWork WITH
  Subjects  <- Targets,
  Exclusive <- {t \in Targets : Keyed(t)},
  NoSubject <- None,
  phase     <- [i \in Items |-> PhaseOf(work[i].status)],
  tries     <- [i \in Items |-> work[i].attempts],
  subject   <- [i \in Items |-> work[i].target]

\* Every step of the ledger is a step of ExclusiveWork or leaves its view unchanged.
ImplementsExclusiveWork == Life!Spec
=============================================================================
