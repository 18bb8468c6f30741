-------------------------- MODULE ApplicationTracking --------------------------
(***************************************************************************)
(* The applications of one user (packages/db/src/applications.ts): the     *)
(* status projection in public.applications, the append-only ledger in     *)
(* public.application_events, and the manual import that chains several    *)
(* transactions.  Every query carries the user's id and the foreign keys   *)
(* are owner-compound, so one user's rows are the whole of what a handler  *)
(* can touch.                                                              *)
(*                                                                         *)
(* A target is an opportunity in a cycle.  Idempotency keys are chosen by  *)
(* the client, except those of an import, derived from what is imported,   *)
(* and of an online assessment, of which an application has one here.      *)
(* Calendar items and reminders that handlers also write are not in these  *)
(* tables; those of interviews are the subject of InterviewTracking.       *)
(***************************************************************************)
EXTENDS ApiRequests

CONSTANTS
  Applications,  \* row ids
  Targets,       \* opportunity and cycle
  ClientKeys,    \* idempotency keys of status changes
  Dates          \* dates a client may say it applied on

ASSUME TrackingAssumption == Null \notin Applications \cup Targets \cup ClientKeys \cup Dates

VARIABLES
  application,  \* public.applications
  event,        \* public.application_events
  tracking      \* the request running a handler of applications.ts

tvars == <<application, event, tracking>>

Status == {"SAVED", "PLANNING", "APPLIED", "IN_PROCESS", "OFFER",
           "REJECTED", "WITHDRAWN", "CLOSED"}

ImportKey(t) == <<"manual-import", t>>
AssessmentKey(a) == <<"oa-received", a>>

Keys == ClientKeys \cup {ImportKey(t) : t \in Targets}
                   \cup {AssessmentKey(a) : a \in Applications}

(* Clients draw the keys of their requests at random, and an assessment's   *)
(* id is drawn by the insert: no client's key is that of an assessment.     *)
ASSUME AssessmentKeyAssumption ==
  \A a \in Applications : AssessmentKey(a) \notin ClientKeys \cup {Null}

AppliedAt == {Null} \cup Dates

ApplicationRow == [target : Targets, status : Status, appliedAt : AppliedAt, archived : BOOLEAN]

ASSUME ApplicationRowAssumption == Null \notin ApplicationRow

EventRow == [app : Applications, to : Status, key : Keys \cup {Null}]

Handler == {Idle}
  \cup [op : {"CREATE", "IMPORT"}, target : Targets, at : AppliedAt]
  \cup [op : {"APPLY"}, app : Applications, target : Targets, at : AppliedAt]
  \cup [op : {"RECEIVE", "ASSESS"}, app : Applications]
  \cup [op : {"CHANGE"}, app : Applications, to : Status,
        key : Keys, at : AppliedAt]

TrackingTypeOK ==
  /\ application \in [Applications -> ApplicationRow \cup {Null}]
  /\ event \subseteq EventRow
  /\ tracking \in [Requests -> Handler]

Exists(a) == application[a] # Null

Active(t) == {a \in Applications : Exists(a) /\ application[a].target = t
                                             /\ ~application[a].archived}

(* Where a status may go: nowhere from REJECTED and WITHDRAWN, and a closed  *)
(* application can only be taken up again.                                   *)
NextStatuses ==
  [s \in Status |->
     CASE s = "SAVED"      -> {"PLANNING", "APPLIED", "CLOSED"}
       [] s = "PLANNING"   -> {"APPLIED", "CLOSED"}
       [] s = "APPLIED"    -> {"IN_PROCESS", "OFFER", "REJECTED", "WITHDRAWN", "CLOSED"}
       [] s = "IN_PROCESS" -> {"OFFER", "REJECTED", "WITHDRAWN", "CLOSED"}
       [] s = "OFFER"      -> {"REJECTED", "WITHDRAWN", "CLOSED"}
       [] s = "CLOSED"     -> {"APPLIED", "IN_PROCESS"}
       [] OTHER            -> {}]

Transition(from, to) == to = from \/ to \in NextStatuses[from]

TInit ==
  /\ application = [a \in Applications |-> Null]
  /\ event = {}
  /\ tracking = [r \in Requests |-> Idle]

-----------------------------------------------------------------------------
(* The handlers.                                                           *)

Runs(r, call) == tracking' = [tracking EXCEPT ![r] = call]

(* createApplication, up to its check for an active application; an import *)
(* reaches it once its posting is stored, and always says when it applied.  *)
CreateRead(r, op, t, at) ==
  /\ tracking[r] = Idle
  /\ op = "IMPORT" => at # Null
  /\ Active(t) = {}
  /\ Runs(r, [op |-> op, target |-> t, at |-> at])
  /\ UNCHANGED <<application, event>>

UniqueActive(t) == Active(t) = {}

(* The insert, refused by applications_active_cycle_unique_idx when another *)
(* request was faster; an import goes on to apply.                          *)
CreateCommit(r, a) ==
  /\ tracking[r].op \in {"CREATE", "IMPORT"}
  /\ LET call == tracking[r] IN
       IF UniqueActive(call.target)
       THEN /\ ~Exists(a)
            /\ application' = [application EXCEPT ![a] =
                 [target |-> call.target, status |-> "SAVED", appliedAt |-> call.at,
                  archived |-> FALSE]]
            /\ event' = event \cup {[app |-> a, to |-> "SAVED", key |-> Null]}
            /\ Runs(r, IF call.op = "CREATE" THEN Idle
                       ELSE [op |-> "APPLY", app |-> a, target |-> call.target, at |-> call.at])
       ELSE Runs(r, Idle) /\ UNCHANGED <<application, event>>

KeyUsed(k) == \E e \in event : e.key = k

(* changeApplicationStatus, up to its reads: the transition is judged on a  *)
(* status read without a lock, before the key is looked up.                 *)
ChangeRead(r, a, to, k, at) ==
  /\ Exists(a)
  /\ Transition(application[a].status, to)
  /\ IF KeyUsed(k)
     THEN Runs(r, Idle)
     ELSE Runs(r, [op |-> "CHANGE", app |-> a,
                   to |-> to, key |-> k, at |-> at])
  /\ UNCHANGED <<application, event>>

StatusRead(r) ==
  /\ tracking[r] = Idle
  /\ \E a \in Applications, to \in Status, k \in ClientKeys :
       \E at \in IF to = "APPLIED" THEN AppliedAt ELSE {Null} : ChangeRead(r, a, to, k, at)

(* The second half of importManualApplication.                              *)
ImportApply(r) ==
  /\ tracking[r].op = "APPLY"
  /\ ChangeRead(r, tracking[r].app, "APPLIED", ImportKey(tracking[r].target), tracking[r].at)

FirstUse(k) == ~KeyUsed(k)

AppliedOn(row, call) ==
  IF call.to = "APPLIED" /\ row.appliedAt = Null THEN call.at ELSE row.appliedAt

(* Event and projection are written together, or, when the unique key of   *)
(* the ledger refuses the event, not at all.                               *)
ChangeCommit(r) ==
  /\ tracking[r].op = "CHANGE"
  /\ LET call == tracking[r] IN
       IF FirstUse(call.key)
       THEN /\ event' = event \cup {[app |-> call.app, to |-> call.to, key |-> call.key]}
            /\ application' = [application EXCEPT
                 ![call.app].status = call.to,
                 ![call.app].appliedAt = AppliedOn(application[call.app], call)]
       ELSE UNCHANGED <<application, event>>
  /\ Runs(r, Idle)

(* createAssessment for an online assessment: three statements, each        *)
(* committed on its own.  The event is recorded once; the application is    *)
(* put IN_PROCESS whatever has become of it since.                          *)
AssessmentRead(r, a) ==
  /\ tracking[r] = Idle
  /\ Exists(a)
  /\ Runs(r, [op |-> "RECEIVE", app |-> a])
  /\ UNCHANGED <<application, event>>

NoAssessmentEvent(call) == event
AssessmentEvent(call) ==
  IF KeyUsed(AssessmentKey(call.app)) THEN event
  ELSE event \cup {[app |-> call.app, to |-> "IN_PROCESS", key |-> AssessmentKey(call.app)]}

AssessmentReceived(r) ==
  /\ tracking[r].op = "RECEIVE"
  /\ event' = AssessmentEvent(tracking[r])
  /\ Runs(r, [tracking[r] EXCEPT !.op = "ASSESS"])
  /\ UNCHANGED application

AssessmentProjected(r) ==
  /\ tracking[r].op = "ASSESS"
  /\ application' = [application EXCEPT ![tracking[r].app].status = "IN_PROCESS"]
  /\ Runs(r, Idle)
  /\ UNCHANGED event

(* archiveApplication.                                                      *)
Archive(a) ==
  /\ Exists(a)
  /\ application' = [application EXCEPT ![a].archived = TRUE]
  /\ UNCHANGED <<event, tracking>>

(* A request that ends early: its transaction, if one is open, is rolled   *)
(* back.                                                                   *)
Abandon(r) ==
  /\ tracking[r] # Idle
  /\ Runs(r, Idle)
  /\ UNCHANGED <<application, event>>

TNext ==
  \/ \E r \in Requests, t \in Targets, op \in {"CREATE", "IMPORT"}, at \in AppliedAt :
       CreateRead(r, op, t, at)
  \/ \E r \in Requests, a \in Applications : CreateCommit(r, a)
  \/ \E r \in Requests : StatusRead(r)
  \/ \E r \in Requests : ImportApply(r)
  \/ \E r \in Requests : ChangeCommit(r)
  \/ \E r \in Requests, a \in Applications : AssessmentRead(r, a)
  \/ \E r \in Requests : AssessmentReceived(r)
  \/ \E r \in Requests : AssessmentProjected(r)
  \/ \E a \in Applications : Archive(a)
  \/ \E r \in Requests : Abandon(r)

TSpec == TInit /\ [][TNext]_tvars

-----------------------------------------------------------------------------
(* Properties.                                                             *)

(* The projection never says what the ledger does not: whichever handlers   *)
(* ran, overlapped or stopped half way, the status of an application is the *)
(* target of one of its own events (changeApplicationStatus,                *)
(* createAssessment, importManualApplication).                              *)
ProjectionRecorded ==
  \A a \in Applications : Exists(a) =>
    \E e \in event : e.app = a /\ e.to = application[a].status
=============================================================================
