--------------------------- MODULE CalendarPlanning ---------------------------
(***************************************************************************)
(* A user's calendar and application plans (packages/db/src/calendar.ts).  *)
(* Entries come from three sides: the recruiting dates the collectors keep *)
(* correcting, the user, and the tasks of a plan.  Listing the calendar    *)
(* first materializes the recruiting dates.  The update handlers read a    *)
(* row without a lock and write every column of it back.                   *)
(*                                                                         *)
(* A plan is named by its fingerprint and has one task, due on the plan's  *)
(* target day.  Of an entry's columns its day, its completion and its life *)
(* are kept.                                                               *)
(***************************************************************************)
EXTENDS ApiRequests, Naturals

CONSTANTS
  SourceDates,    \* public observations and campus events with a date
  Plans,          \* fingerprints of application plans
  Entries,        \* ids of calendar_items
  Days,
  MaxCompletions  \* bound on the clock readings stored as completed_at

ASSUME CalendarAssumption ==
  /\ MaxCompletions \in Nat
  /\ Null \notin SourceDates \cup Plans \cup Entries \cup Days
  /\ SourceDates \cap Plans = {}

VARIABLES
  published,  \* the day each source gives its date now
  entry,      \* public.calendar_items
  plan,       \* public.application_plans
  completed,  \* CALENDAR_ITEM_COMPLETED events, by entry and completed_at
  clock,      \* completed_at values given out
  planning    \* the request running a handler of calendar.ts

pvars == <<published, entry, plan, completed, clock, planning>>

(* SKIPPED is to these handlers another TODO. *)
ItemStatus == {"TODO", "DONE", "CANCELLED"}

PlanStatus == {"DRAFT", "ACTIVE", "COMPLETED", "ARCHIVED"}

(* from is Null for an entry of the user's own; done is 0 for SQL null. *)
EntryRow ==
  [from : SourceDates \cup Plans \cup {Null}, day : Days, status : ItemStatus,
   done : 0..MaxCompletions, deleted : BOOLEAN]

PlanRow == [target : Days, status : PlanStatus]

ASSUME CalendarRowAssumption == Null \notin EntryRow \cup PlanRow

(* A patch leaves a column as it was read where it is Null. *)
ItemPatch == [status : {"TODO", "DONE", Null}, day : Days \cup {Null}]
PlanPatch == [status : {"ACTIVE", Null}, day : Days \cup {Null}]

(* An update holds the row it read with its patch applied, and what of the  *)
(* row as read it still needs: whether it was done, whether the plan moves. *)
CalendarHandler == {Idle}
  \cup [op : {"ITEM"}, id : Entries, row : EntryRow, was : BOOLEAN]
  \cup [op : {"PLAN"}, id : Plans, row : PlanRow, moves : BOOLEAN]
  \cup [op : {"CANCEL_TASKS"}, id : Plans]

CalendarTypeOK ==
  /\ published \in [SourceDates -> Days \cup {Null}]
  /\ entry \in [Entries -> EntryRow \cup {Null}]
  \* The row check of calendar_items: completed_at just while DONE.
  /\ \A x \in Entries : entry[x] # Null => (entry[x].status = "DONE" <=> entry[x].done > 0)
  /\ plan \in [Plans -> PlanRow \cup {Null}]
  /\ completed \subseteq Entries \X (1..MaxCompletions)
  /\ clock \in 0..MaxCompletions
  /\ planning \in [Requests -> CalendarHandler]

PInit ==
  /\ published = [d \in SourceDates |-> Null]
  /\ entry = [x \in Entries |-> Null]
  /\ plan = [p \in Plans |-> Null]
  /\ completed = {}
  /\ clock = 0
  /\ planning = [r \in Requests |-> Idle]

EntriesOf(owner) == {x \in Entries : entry[x] # Null /\ entry[x].from = owner}

Live(x) == entry[x] # Null /\ ~entry[x].deleted

Handles(r, call) == planning' = [planning EXCEPT ![r] = call]

NewEntry(from, day) ==
  [from |-> from, day |-> day, status |-> "TODO", done |-> 0, deleted |-> FALSE]

-----------------------------------------------------------------------------
(* Recruiting dates and entries.                                           *)

(* The collectors find a date, or another one.                              *)
Publish(d, day) ==
  /\ published' = [published EXCEPT ![d] = day]
  /\ UNCHANGED <<entry, plan, completed, clock, planning>>

RevivingUpsert(row, d) == NewEntry(d, published[d])
Upserted(row, d) == [row EXCEPT !.day = published[d]]

(* materializeRecruitingDates, which listCalendarItems starts with: a date  *)
(* has one entry, made or moved; what the user did to it stands.            *)
Materialize ==
  \E x \in [SourceDates -> Entries] :
    /\ \A c, d \in SourceDates : x[c] = x[d] => c = d
    /\ \A d \in SourceDates : IF EntriesOf(d) = {} THEN entry[x[d]] = Null ELSE x[d] \in EntriesOf(d)
    /\ entry' = [y \in Entries |->
         IF \E d \in SourceDates : x[d] = y /\ published[d] # Null
         THEN LET d == CHOOSE c \in SourceDates : x[c] = y
              IN IF entry[y] = Null THEN NewEntry(d, published[d]) ELSE Upserted(entry[y], d)
         ELSE entry[y]]
    /\ UNCHANGED <<published, plan, completed, clock, planning>>

(* createCalendarItem, which may create an entry as done.                   *)
CreateEntry(x, day, status) ==
  /\ entry[x] = Null
  /\ LET done == IF status = "DONE" THEN clock + 1 ELSE 0 IN
       /\ done <= MaxCompletions
       /\ clock' = IF done = 0 THEN clock ELSE done
       /\ entry' = [entry EXCEPT ![x] =
            [NewEntry(Null, day) EXCEPT !.status = status, !.done = done]]
  /\ UNCHANGED <<published, plan, completed, planning>>

Taken(value, patch) == IF patch = Null THEN value ELSE patch

(* updateCalendarItem, up to its reads and checks: the day of a recruiting  *)
(* date is not the user's to change.                                        *)
ItemRead(r, x, patch) ==
  /\ planning[r] = Idle
  /\ Live(x)
  /\ entry[x].from \in SourceDates => patch.day = Null
  /\ Handles(r, [op |-> "ITEM", id |-> x, was |-> entry[x].status = "DONE",
                 row |-> [entry[x] EXCEPT !.status = Taken(@, patch.status),
                                          !.day = Taken(@, patch.day)]])
  /\ UNCHANGED <<published, entry, plan, completed, clock>>

CompletedKept(call) ==
  IF call.was THEN call.row.done ELSE IF call.row.status = "DONE" THEN clock + 1 ELSE 0
CompletedNow(call) == IF call.row.status = "DONE" THEN clock + 1 ELSE 0
CompletedAt(call) ==
  IF call.row.status # "DONE" THEN 0 ELSE IF call.was THEN call.row.done ELSE clock + 1

(* The whole row is written from what was read; the completion is recorded  *)
(* if the status that was read was another.                                 *)
ItemWrite(r) ==
  /\ planning[r].op = "ITEM"
  /\ LET call == planning[r]
         done == CompletedAt(call)
     IN IF Live(call.id)
        THEN /\ done <= MaxCompletions
             /\ entry' = [entry EXCEPT ![call.id] = [call.row EXCEPT !.done = done]]
             /\ clock' = IF done > clock THEN done ELSE clock
             /\ completed' = IF call.row.status = "DONE" /\ ~call.was
                             THEN completed \cup {<<call.id, done>>} ELSE completed
        ELSE UNCHANGED <<entry, clock, completed>>
  /\ Handles(r, Idle)
  /\ UNCHANGED <<published, plan>>

Cancelled(row) == [row EXCEPT !.status = "CANCELLED", !.done = 0, !.deleted = TRUE]

(* deleteCalendarItem.                                                      *)
DeleteEntry(x) ==
  /\ Live(x)
  /\ entry' = [entry EXCEPT ![x] = Cancelled(@)]
  /\ UNCHANGED <<published, plan, completed, clock, planning>>

-----------------------------------------------------------------------------
(* Plans.                                                                  *)

(* createApplicationPlan: plan and task in one transaction, or the plan of  *)
(* that fingerprint as it is.                                               *)
CreatePlan(p, x, day) ==
  /\ plan[p] = Null
  /\ entry[x] = Null
  /\ plan' = [plan EXCEPT ![p] = [target |-> day, status |-> "DRAFT"]]
  /\ entry' = [entry EXCEPT ![x] = NewEntry(p, day)]
  /\ UNCHANGED <<published, completed, clock, planning>>

(* activateApplicationPlan.                                                 *)
ActivatePlan(p) ==
  /\ plan[p] # Null
  /\ plan[p].status \in {"DRAFT", "ACTIVE"}
  /\ plan' = [plan EXCEPT ![p].status = "ACTIVE"]
  /\ UNCHANGED <<published, entry, completed, clock, planning>>

(* updateApplicationPlan, up to its reads.                                  *)
PlanRead(r, p, patch) ==
  /\ planning[r] = Idle
  /\ plan[p] # Null
  /\ Handles(r, [op |-> "PLAN", id |-> p, moves |-> patch.day # Null,
                 row |-> [target |-> Taken(plan[p].target, patch.day),
                          status |-> Taken(plan[p].status, patch.status)]])
  /\ UNCHANGED <<published, entry, plan, completed, clock>>

(* Its writes: a new target moves the task, deleted or not.                 *)
PlanWrite(r) ==
  /\ planning[r].op = "PLAN"
  /\ LET call == planning[r] IN
       /\ plan' = [plan EXCEPT ![call.id] = call.row]
       /\ entry' = [x \in Entries |-> IF call.moves /\ x \in EntriesOf(call.id)
                                      THEN [entry[x] EXCEPT !.day = call.row.target]
                                      ELSE entry[x]]
  /\ Handles(r, Idle)
  /\ UNCHANGED <<published, completed, clock>>

(* deleteApplicationPlan: two statements, and nothing around them.          *)
ArchivePlan(r, p) ==
  /\ planning[r] = Idle
  /\ plan[p] # Null
  /\ plan' = [plan EXCEPT ![p].status = "ARCHIVED"]
  /\ Handles(r, [op |-> "CANCEL_TASKS", id |-> p])
  /\ UNCHANGED <<published, entry, completed, clock>>

CancelTasks(r) ==
  /\ planning[r].op = "CANCEL_TASKS"
  /\ entry' = [x \in Entries |-> IF x \in EntriesOf(planning[r].id) /\ Live(x)
                                 THEN Cancelled(entry[x]) ELSE entry[x]]
  /\ Handles(r, Idle)
  /\ UNCHANGED <<published, plan, completed, clock>>

(* A request that ends early, or finds nothing to update.                   *)
AbandonPlanning(r) ==
  /\ planning[r] # Idle
  /\ Handles(r, Idle)
  /\ UNCHANGED <<published, entry, plan, completed, clock>>

PNext ==
  \/ \E d \in SourceDates, day \in Days : Publish(d, day)
  \/ Materialize
  \/ \E x \in Entries, day \in Days, status \in ItemStatus : CreateEntry(x, day, status)
  \/ \E r \in Requests, x \in Entries, patch \in ItemPatch : ItemRead(r, x, patch)
  \/ \E r \in Requests : ItemWrite(r)
  \/ \E x \in Entries : DeleteEntry(x)
  \/ \E p \in Plans, x \in Entries, day \in Days : CreatePlan(p, x, day)
  \/ \E p \in Plans : ActivatePlan(p)
  \/ \E r \in Requests, p \in Plans, patch \in PlanPatch : PlanRead(r, p, patch)
  \/ \E r \in Requests : PlanWrite(r)
  \/ \E r \in Requests, p \in Plans : ArchivePlan(r, p)
  \/ \E r \in Requests : CancelTasks(r)
  \/ \E r \in Requests : AbandonPlanning(r)

PSpec == PInit /\ [][PNext]_pvars

-----------------------------------------------------------------------------
(* Properties.                                                             *)

(* What a user deleted stays deleted: neither the next materialization of   *)
(* its recruiting date, nor an update that read it before, nor a change of  *)
(* its plan brings it back (materializeRecruitingDates, updateCalendarItem, *)
(* updateApplicationPlan).                                                  *)
DeletedStaysDeleted ==
  [][\A x \in Entries : entry[x] # Null /\ entry[x].deleted =>
       entry'[x].deleted /\ entry'[x].status = "CANCELLED"]_pvars
=============================================================================
