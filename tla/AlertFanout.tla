----------------------------- MODULE AlertFanout -----------------------------
(***************************************************************************)
(* How a domain event becomes evaluated alerts: the trigger functions of   *)
(* migration 0012 (with the conflict clause 0017 gave them), the hourly    *)
(* due scan, and the handlers fanout and evaluate of                       *)
(* personalization/alerts.py, with the unique indexes of work_items that   *)
(* their inserts run into.                                                 *)
(*                                                                         *)
(* Leases are WorkLedger's business.  Here an attempt of an item is        *)
(* RUNNING, then COMMITTED once its handler's transaction has committed,   *)
(* and is lost or finished at any point; a retry is READY at once.  An     *)
(* item is known by what its idempotency fingerprint hashes: a fan-out by  *)
(* its event and the last user it is to skip, an evaluation by its event   *)
(* and user.  Requeueing a dead fan-out drops its request, so the new item *)
(* is no longer a fan-out of the event: it is not followed.                *)
(***************************************************************************)
EXTENDS Integers, FiniteSets, FiniteSetsExt

CONSTANTS
  NumUsers,     \* users are 1..NumUsers, in the order of their ids
  Events,       \* domain events, calendar changes and due scans
  Scans,        \* the occurrences of m9-alert-due-scan among them
  Owner,        \* the owner of an event about a calendar item, else 0
  Audience,     \* the candidate users of an event
  BatchSize,    \* FANOUT_BATCH
  MaxAttempts,
  MaxLosses     \* bound on the attempts lost to a crash or a transient error

Users == 1..NumUsers
Cursors == 0..NumUsers

ASSUME FanoutAssumption ==
  /\ NumUsers \in Nat
  /\ Scans \subseteq Events
  /\ Owner \in [Events -> Cursors]
  /\ Audience \in [Events -> SUBSET Users]
  /\ BatchSize \in Nat \ {0} /\ MaxAttempts \in Nat \ {0} /\ MaxLosses \in Nat

VARIABLES
  fanout,      \* the ALERT_FANOUT item of an event after a cursor
  evaluation,  \* the ALERT_EVALUATE item of an event and a user
  request,     \* alert_evaluation_requests: cursor 0 is the event's own, u the child of user u
  evaluated,   \* the events whose alerts for a user were inserted
  losses

vars == <<fanout, evaluation, request, evaluated, losses>>

Item == [status : {"NONE", "READY", "RUNNING", "COMMITTED", "SUCCEEDED", "DEAD_LETTERED"},
         attempts : 0..MaxAttempts]

RequestStatus == {"NONE", "PENDING", "SUCCEEDED", "FAILED"}

TypeOK ==
  /\ fanout \in [Events -> [Cursors -> Item]]
  /\ evaluation \in [Events -> [Users -> Item]]
  /\ request \in [Events -> [Cursors -> RequestStatus]]
  /\ evaluated \subseteq Events \X Users
  /\ losses \in 0..MaxLosses

Nothing == [status |-> "NONE", attempts |-> 0]
Ready   == [status |-> "READY", attempts |-> 0]

Init ==
  /\ fanout = [e \in Events |-> [a \in Cursors |-> Nothing]]
  /\ evaluation = [e \in Events |-> [u \in Users |-> Nothing]]
  /\ request = [e \in Events |-> [a \in Cursors |-> "NONE"]]
  /\ evaluated = {}
  /\ losses = 0

Active(item) == item.status \in {"READY", "RUNNING", "COMMITTED"}

\* The exclusive key m9-alert-user:<u> is taken.
LaneBusy(u) == \E e \in Events : Active(evaluation[e][u])

\* A due scan's first item has no exclusive key and no request id.
Anonymous(e, a) == e \in Scans /\ a = 0

\* The exclusive key m9-alert-fanout:<e's request> is taken.
FanoutBusy(e) == \E a \in Cursors : ~Anonymous(e, a) /\ Active(fanout[e][a])

-----------------------------------------------------------------------------
(* Events *)

\* enqueue_m9_alert_evaluation for an event nobody owns, in the event's transaction.
RecordEvent(e) ==
  /\ e \notin Scans /\ Owner[e] = 0 /\ request[e][0] = "NONE"
  /\ request' = [request EXCEPT ![e][0] = "PENDING"]
  /\ fanout' = [fanout EXCEPT ![e][0] = Ready]
  /\ UNCHANGED <<evaluation, evaluated, losses>>

\* The same for a calendar item: on conflict nothing is inserted, the request stays.
RecordOwned(e) ==
  LET u == Owner[e]
  IN  /\ u # 0 /\ request[e][u] = "NONE"
      /\ request' = [request EXCEPT ![e][u] = "PENDING"]
      /\ evaluation' = IF LaneBusy(u) THEN evaluation ELSE [evaluation EXCEPT ![e][u] = Ready]
      /\ UNCHANGED <<fanout, evaluated, losses>>

\* enqueue_due_schedules, for m9-alert-due-scan.
Scan(e) ==
  /\ e \in Scans /\ fanout[e][0] = Nothing
  /\ fanout' = [fanout EXCEPT ![e][0] = Ready]
  /\ UNCHANGED <<evaluation, request, evaluated, losses>>

-----------------------------------------------------------------------------
(* The fan-out handler *)

\* _candidate_users
Candidates(e, a) == {u \in Audience[e] : u > a}

\* The first BatchSize of them, in order.
BatchOf(e, a) ==
  {u \in Candidates(e, a) : Cardinality({v \in Candidates(e, a) : v < u}) < BatchSize}

\* Mutant: one more candidate is not asked for.
HasMoreOffByOne(e, a) == Cardinality(Candidates(e, a)) > BatchSize + 1

HasMore(e, a) == Cardinality(Candidates(e, a)) > BatchSize

\* Mutant: any conflict is ignored, as in the repaired trigger functions.
NewEvaluationsAnyConflict(e, a) ==
  {u \in BatchOf(e, a) : evaluation[e][u] = Nothing /\ ~LaneBusy(u)}

\* _enqueue_user_request: the evaluations that are not there yet.
NewEvaluations(e, a) == {u \in BatchOf(e, a) : evaluation[e][u] = Nothing}

\* The continuation is not there yet.
NewContinuation(e, a) == HasMore(e, a) /\ fanout[e][Max(BatchOf(e, a))] = Nothing

\* "on conflict (idempotency_fingerprint)" does not cover the exclusive keys: an
\* insert that meets one aborts the whole transaction.
Conflict(e, a) ==
  \/ \E u \in NewEvaluations(e, a) : LaneBusy(u)
  \/ NewContinuation(e, a) /\ FanoutBusy(e)

\* fanout: the batch, the continuation and a due scan's own request, in one transaction.
FanOut(e, a) ==
  /\ fanout[e][a].status = "RUNNING"
  /\ ~Conflict(e, a)
  /\ evaluation' = [evaluation EXCEPT ![e] =
                      [u \in Users |-> IF u \in NewEvaluations(e, a) THEN Ready ELSE @[u]]]
  /\ request' = [request EXCEPT ![e] =
                   [c \in Cursors |->
                      IF c = 0 /\ Anonymous(e, a) THEN "SUCCEEDED"
                      ELSE IF c \in BatchOf(e, a) /\ @[c] = "NONE" THEN "PENDING"
                      ELSE @[c]]]
  /\ fanout' = [fanout EXCEPT ![e] =
                  [c \in Cursors |->
                     IF c = a THEN [@[c] EXCEPT !.status = "COMMITTED"]
                     ELSE IF NewContinuation(e, a) /\ c = Max(BatchOf(e, a)) THEN Ready
                     ELSE @[c]]]
  /\ UNCHANGED <<evaluated, losses>>

\* evaluate: the alerts of the request's own event.
Evaluate(e, u) ==
  /\ evaluation[e][u].status = "RUNNING"
  /\ evaluated' = evaluated \cup {<<e, u>>}
  /\ evaluation' = [evaluation EXCEPT ![e][u].status = "COMMITTED"]
  /\ UNCHANGED <<fanout, request, losses>>

-----------------------------------------------------------------------------
(* The attempts of an item, as the ledger gives and takes them *)

Claimed(item) == [status |-> "RUNNING", attempts |-> item.attempts + 1]

\* Mutant: finish does not wait for the handler's transaction.
FinishableEarly == {"RUNNING", "COMMITTED"}

Finishable == {"COMMITTED"}

\* Mutant: one attempt too many.
FailedOffByOne(item) ==
  [item EXCEPT !.status = IF item.attempts <= MaxAttempts THEN "READY" ELSE "DEAD_LETTERED"]

\* finish_work_attempt with a retryable failure, or the reaper.
Failed(item) ==
  [item EXCEPT !.status = IF item.attempts < MaxAttempts THEN "READY" ELSE "DEAD_LETTERED"]

\* project_domain_request_status
Projection(status) ==
  CASE status = "SUCCEEDED" -> "SUCCEEDED"
    [] status = "READY"     -> "PENDING"
    [] OTHER                -> "FAILED"

SetFanout(e, a, item) ==
  /\ fanout' = [fanout EXCEPT ![e][a] = item]
  /\ request' = IF item.status = "RUNNING" \/ Anonymous(e, a) THEN request
                ELSE [request EXCEPT ![e][0] = Projection(item.status)]
  /\ UNCHANGED <<evaluation, evaluated>>

SetEvaluation(e, u, item) ==
  /\ evaluation' = [evaluation EXCEPT ![e][u] = item]
  /\ request' = IF item.status = "RUNNING" THEN request
                ELSE [request EXCEPT ![e][u] = Projection(item.status)]
  /\ UNCHANGED <<fanout, evaluated>>

ClaimFanout(e, a) ==
  fanout[e][a].status = "READY" /\ SetFanout(e, a, Claimed(fanout[e][a])) /\ UNCHANGED losses

ClaimEvaluation(e, u) ==
  /\ evaluation[e][u].status = "READY"
  /\ SetEvaluation(e, u, Claimed(evaluation[e][u]))
  /\ UNCHANGED losses

FinishFanout(e, a) ==
  /\ fanout[e][a].status \in Finishable
  /\ SetFanout(e, a, [fanout[e][a] EXCEPT !.status = "SUCCEEDED"])
  /\ UNCHANGED losses

FinishEvaluation(e, u) ==
  /\ evaluation[e][u].status \in Finishable
  /\ SetEvaluation(e, u, [evaluation[e][u] EXCEPT !.status = "SUCCEEDED"])
  /\ UNCHANGED losses

\* The handler's transaction was aborted by a unique index.
FailConflicted(e, a) ==
  /\ fanout[e][a].status = "RUNNING" /\ Conflict(e, a)
  /\ SetFanout(e, a, Failed(fanout[e][a]))
  /\ UNCHANGED losses

\* An attempt is lost before or after the handler's transaction.
LoseFanout(e, a) ==
  /\ losses < MaxLosses /\ fanout[e][a].status \in {"RUNNING", "COMMITTED"}
  /\ SetFanout(e, a, Failed(fanout[e][a]))
  /\ losses' = losses + 1

LoseEvaluation(e, u) ==
  /\ losses < MaxLosses /\ evaluation[e][u].status \in {"RUNNING", "COMMITTED"}
  /\ SetEvaluation(e, u, Failed(evaluation[e][u]))
  /\ losses' = losses + 1

-----------------------------------------------------------------------------
Handle ==
  \/ \E e \in Events, a \in Cursors :
        ClaimFanout(e, a) \/ FanOut(e, a) \/ FailConflicted(e, a) \/ FinishFanout(e, a)
  \/ \E e \in Events, u \in Users :
        ClaimEvaluation(e, u) \/ Evaluate(e, u) \/ FinishEvaluation(e, u)

Next ==
  \/ \E e \in Events : RecordEvent(e) \/ RecordOwned(e) \/ Scan(e)
  \/ Handle
  \/ \E e \in Events, a \in Cursors : LoseFanout(e, a)
  \/ \E e \in Events, u \in Users : LoseEvaluation(e, u)

Spec == Init /\ [][Next]_vars

(* The personalization worker loop claims, handles and finishes what is there. *)
FairSpec == Spec /\ WF_vars(Handle)

-----------------------------------------------------------------------------
(* Properties *)

\* When every fan-out item of an event has succeeded, every candidate has a request of
\* his own: no user falls between two batches or is lost with a retried attempt.
ExpansionComplete ==
  \A e \in Events :
    /\ \E a \in Cursors : fanout[e][a] # Nothing
    /\ \A a \in Cursors : fanout[e][a].status \in {"NONE", "SUCCEEDED"}
    => \A u \in Audience[e] : request[e][u] # "NONE"

\* The request a fan-out made for a user is pending only while an evaluation of it is
\* on its way.
ChildrenHaveWork ==
  \A e \in Events, u \in Users :
    Owner[e] = 0 /\ request[e][u] = "PENDING" => Active(evaluation[e][u])

\* A user's request succeeds only after the alerts of its event were inserted, also when
\* attempts are lost between the two transactions.
SucceededIsEvaluated ==
  \A e \in Events, u \in Users : request[e][u] = "SUCCEEDED" => <<e, u>> \in evaluated

\* Stated by docs/watchlists-recommendations-alerts.md: "M7 runs `ALERT_FANOUT` in
\* bounded batches of 250 and enqueues owner-scoped `ALERT_EVALUATE`".  When nothing is
\* lost, an event reaches its whole audience, however many batches that takes.
EventReachesAudience ==
  \A e \in Events :
    request[e][0] = "PENDING" ~> \A u \in Audience[e] : request[e][u] # "NONE"

\* Stated by migration 0017: "A second materiality event is still recorded [...] the
\* existing durable worker lane will reconcile it on the next evaluation."
SecondEventReconciled ==
  \A e \in Events, u \in Users :
    Owner[e] = u /\ request[e][u] = "PENDING" ~> request[e][u] # "PENDING"
-----------------------------------------------------------------------------
(* The items implement ExclusiveWork *)

WorkItems == ({"FANOUT"} \X Events \X Cursors) \cup ({"EVALUATE"} \X Events \X Users)

RowOf(i) == IF i[1] = "FANOUT" THEN fanout[i[2]][i[3]] ELSE evaluation[i[2]][i[3]]

PhaseOf(status) ==
  CASE status = "READY"                          -> "queued"
    [] status \in {"RUNNING", "COMMITTED"}       -> "held"
    [] status \in {"SUCCEEDED", "DEAD_LETTERED"} -> "settled"
    [] OTHER                                     -> "absent"

\* What an item excludes others from: its exclusive key.  A due scan's first item has none.
LaneOf(i) ==
  IF i[1] = "EVALUATE" THEN <<"USER", i[3]>>
  ELSE IF Anonymous(i[2], i[3]) THEN <<"SCAN", i[2]>> ELSE <<"EVENT", i[2]>>

KeyedLanes == ({"USER"} \X Users) \cup ({"EVENT"} \X Events)
NoLane == <<"NONE", 0>>

Jobs == INSTANCE ExclusiveWork WITH
  Items     <- WorkItems,
  Subjects  <- KeyedLanes \cup ({"SCAN"} \X Events),
  Exclusive <- KeyedLanes,
  NoSubject <- NoLane,
  phase     <- [i \in WorkItems |-> PhaseOf(RowOf(i).status)],
  tries     <- [i \in WorkItems |-> RowOf(i).attempts],
  subject   <- [i \in WorkItems |-> IF RowOf(i) = Nothing THEN NoLane ELSE LaneOf(i)]

\* A fan-out's transaction submits its whole batch; requests and alerts are not seen.
AlertsImplementExclusiveWork == Jobs!Spec
=============================================================================
