--------------------------- MODULE InterviewTracking ---------------------------
(***************************************************************************)
(* The interviews of one application, their calendar items and their       *)
(* preparation checklist (createInterview and updateInterview in           *)
(* packages/db/src/applications.ts, packages/db/src/interview-prep.ts).    *)
(*                                                                         *)
(* createInterview and updateInterview are chains of statements, each      *)
(* committed on its own.  createInterviewPrepPlan is one transaction that  *)
(* keeps a connection of the pool and reads through others: it asks the    *)
(* pool for a second connection while it holds the first.                  *)
(***************************************************************************)
EXTENDS ApiRequests, Naturals, FiniteSets

CONSTANTS
  Interviews,   \* ids of application_interviews, one per start
  PrepKeys,     \* item_key of the checklist
  CalendarItems,  \* ids of calendar_items
  PoolSize,     \* connections of the pool of the database
  MaxPrepVersion

ASSUME InterviewAssumption ==
  /\ PoolSize \in Nat \ {0}
  /\ MaxPrepVersion \in Nat \ {0}
  /\ Null \notin Interviews \cup PrepKeys \cup CalendarItems

VARIABLES
  interview,   \* public.application_interviews, one per start
  item,        \* public.calendar_items of interviews and checklists
  scheduled,   \* interviews with an INTERVIEW_SCHEDULED event
  planned,     \* public.interview_prep_plans
  prep,        \* public.interview_prep_items
  scheduling   \* the request running one of the handlers

ivars == <<interview, item, scheduled, planned, prep, scheduling>>

InterviewRow ==
  [status : {"SCHEDULED", "COMPLETED", "CANCELLED"}, item : CalendarItems \cup {Null}]

ItemRow ==
  [owner : Interviews, key : PrepKeys \cup {Null}, status : {"TODO", "DONE", "CANCELLED"}, deleted : BOOLEAN]

PrepRow == [item : CalendarItems, done : BOOLEAN, version : 1..MaxPrepVersion]

ASSUME InterviewRowAssumption == Null \notin InterviewRow \cup ItemRow \cup PrepRow

PrepOps == {"PREP_READ", "PREP_PLAN", "PREP_REQUIREMENTS", "PREP_ITEMS"}

InterviewHandler == {Idle}
  \cup [op : {"FIND", "MAKE", "EVENT"} \cup PrepOps, for : Interviews]
  \cup [op : {"LINK"}, for : Interviews, item : CalendarItems]
  \cup [op : {"TICK"}, item : CalendarItems, done : BOOLEAN]

InterviewTypeOK ==
  /\ interview \in [Interviews -> InterviewRow \cup {Null}]
  /\ item \in [CalendarItems -> ItemRow \cup {Null}]
  /\ scheduled \subseteq Interviews
  /\ planned \subseteq Interviews
  /\ prep \in [Interviews \X PrepKeys -> PrepRow \cup {Null}]
  /\ scheduling \in [Requests -> InterviewHandler]

IInit ==
  /\ interview = [i \in Interviews |-> Null]
  /\ item = [x \in CalendarItems |-> Null]
  /\ scheduled = {}
  /\ planned = {}
  /\ prep = [p \in Interviews \X PrepKeys |-> Null]
  /\ scheduling = [r \in Requests |-> Idle]

In(r, op) == scheduling[r].op = op

Continues(r, call) == scheduling' = [scheduling EXCEPT ![r] = call]

Standing(i) == interview[i] # Null /\ interview[i].status # "CANCELLED"

LiveItems == {x \in CalendarItems : item[x] # Null /\ ~item[x].deleted}

ItemsOf(i) == {x \in LiveItems : item[x].owner = i /\ item[x].key = Null}

-----------------------------------------------------------------------------
(* createInterview.                                                        *)

(* The upsert: a standing interview of the same start is the one asked for. *)
Schedule(r, i) ==
  /\ In(r, "IDLE")
  /\ IF Standing(i) THEN UNCHANGED interview
     ELSE /\ interview[i] = Null
          /\ interview' = [interview EXCEPT ![i] = [status |-> "SCHEDULED", item |-> Null]]
  /\ Continues(r, [op |-> "FIND", for |-> i])
  /\ UNCHANGED <<item, scheduled, planned, prep>>

FindItem(r) ==
  /\ In(r, "FIND")
  /\ LET i == scheduling[r].for IN
       IF ItemsOf(i) = {}
       THEN Continues(r, [scheduling[r] EXCEPT !.op = "MAKE"])
       ELSE \E x \in ItemsOf(i) :
              Continues(r, [op |-> "LINK", for |-> i, item |-> x])
  /\ UNCHANGED <<interview, item, scheduled, planned, prep>>

(* Bound: ids are left for the tasks that can still be made.                *)
RoomForTasks ==
  Cardinality({x \in CalendarItems : item[x] = Null})
    > Cardinality({p \in Interviews \X PrepKeys : prep[p] = Null})

NoItemIndex(i) == FALSE
ItemTaken(i) == ItemsOf(i) # {}

(* createCalendarItem; when calendar_items_application_interview_unique_idx *)
(* refuses it, the item of the faster request is taken.                     *)
MakeItem(r, x) ==
  /\ In(r, "MAKE")
  /\ LET i == scheduling[r].for
         link == [op |-> "LINK", for |-> i, item |-> x]
     IN IF ItemTaken(i)
        THEN x \in ItemsOf(i) /\ Continues(r, link) /\ UNCHANGED item
        ELSE /\ item[x] = Null
             /\ RoomForTasks
             /\ item' = [item EXCEPT ![x] =
                  [owner |-> i, key |-> Null, status |-> "TODO", deleted |-> FALSE]]
             /\ Continues(r, link)
  /\ UNCHANGED <<interview, scheduled, planned, prep>>

Linked(row, x) == IF row.item = Null THEN [row EXCEPT !.item = x] ELSE row

LinkItem(r) ==
  /\ In(r, "LINK")
  /\ LET call == scheduling[r] IN
       /\ interview' = [interview EXCEPT ![call.for] = Linked(@, call.item)]
       /\ Continues(r, [op |-> "EVENT", for |-> call.for])
  /\ UNCHANGED <<item, scheduled, planned, prep>>

(* The event and the reminder, each recorded once.                          *)
RecordScheduled(r) ==
  /\ In(r, "EVENT")
  /\ scheduled' = scheduled \cup {scheduling[r].for}
  /\ Continues(r, Idle)
  /\ UNCHANGED <<interview, item, planned, prep>>

-----------------------------------------------------------------------------
(* updateInterview.                                                        *)

(* The row; its calendar item and its tasks are moved to dates that follow, *)
(* and dates are left out here.                                             *)
UpdateInterview(r, i, status) ==
  /\ In(r, "IDLE")
  /\ interview[i] # Null
  /\ interview' = [interview EXCEPT ![i].status = status]
  /\ UNCHANGED <<item, scheduled, planned, prep, scheduling>>

-----------------------------------------------------------------------------
(* createInterviewPrepPlan.                                                *)

Preparing == {r \in Requests : scheduling[r].op \in PrepOps}

PoolTooSmall == Cardinality(Preparing) + 1 < PoolSize
FreeConnection == Cardinality(Preparing) < PoolSize

(* begin: the transaction's own connection.                                 *)
PrepBegin(r, i) ==
  /\ In(r, "IDLE")
  /\ interview[i] # Null
  /\ FreeConnection
  /\ Continues(r, [op |-> "PREP_READ", for |-> i])
  /\ UNCHANGED <<interview, item, scheduled, planned, prep>>

(* context, through a second connection: only a scheduled interview is      *)
(* prepared for.                                                            *)
PrepContext(r) ==
  /\ In(r, "PREP_READ")
  /\ FreeConnection
  /\ Continues(r, IF interview[scheduling[r].for].status = "SCHEDULED"
                  THEN [scheduling[r] EXCEPT !.op = "PREP_PLAN"] ELSE Idle)
  /\ UNCHANGED <<interview, item, scheduled, planned, prep>>

PlanLocked(i) ==
  \E r \in Requests : scheduling[r].op \in {"PREP_REQUIREMENTS", "PREP_ITEMS"}
                      /\ scheduling[r].for = i

(* The upsert of the plan locks its row until the transaction ends.         *)
PrepPlan(r) ==
  /\ In(r, "PREP_PLAN")
  /\ ~PlanLocked(scheduling[r].for)
  /\ Continues(r, [scheduling[r] EXCEPT !.op = "PREP_REQUIREMENTS"])
  /\ UNCHANGED <<interview, item, scheduled, planned, prep>>

(* requirementsFor, again through a second connection.                      *)
PrepRequirements(r) ==
  /\ In(r, "PREP_REQUIREMENTS")
  /\ FreeConnection
  /\ Continues(r, [scheduling[r] EXCEPT !.op = "PREP_ITEMS"])
  /\ UNCHANGED <<interview, item, scheduled, planned, prep>>

AllKeys(i) == PrepKeys
NewKeys(i) == {k \in PrepKeys : prep[<<i, k>>] = Null}

(* The checklist, one calendar item for each of its items that has none.    *)
PrepItems(r) ==
  /\ In(r, "PREP_ITEMS")
  /\ LET i == scheduling[r].for IN
     \E task \in [NewKeys(i) -> {x \in CalendarItems : item[x] = Null}] :
       /\ \A k, l \in NewKeys(i) : task[k] = task[l] => k = l
       /\ prep' = [p \in Interviews \X PrepKeys |->
            IF p[1] = i /\ p[2] \in NewKeys(i)
            THEN [item |-> task[p[2]], done |-> FALSE, version |-> 1] ELSE prep[p]]
       /\ item' = [x \in CalendarItems |->
            IF \E k \in NewKeys(i) : task[k] = x
            THEN [owner |-> i, key |-> CHOOSE k \in NewKeys(i) : task[k] = x,
                  status |-> "TODO", deleted |-> FALSE]
            ELSE item[x]]
       /\ planned' = planned \cup {i}
  /\ Continues(r, Idle)
  /\ UNCHANGED <<interview, scheduled>>

(* setInterviewPrepItemCompletion: the item of the version the client saw,  *)
(* then its calendar item, in a statement of its own.                       *)
CompletePrep(r, i, k, done) ==
  /\ In(r, "IDLE")
  /\ i \in planned
  /\ prep[<<i, k>>].version < MaxPrepVersion
  /\ prep' = [prep EXCEPT ![<<i, k>>].done = done, ![<<i, k>>].version = @ + 1]
  /\ Continues(r, [op |-> "TICK", item |-> prep[<<i, k>>].item, done |-> done])
  /\ UNCHANGED <<interview, item, scheduled, planned>>

TickItem(r) ==
  /\ In(r, "TICK")
  /\ item' = [item EXCEPT ![scheduling[r].item].status =
       IF scheduling[r].item \notin LiveItems THEN @
       ELSE IF scheduling[r].done THEN "DONE" ELSE "TODO"]
  /\ Continues(r, Idle)
  /\ UNCHANGED <<interview, scheduled, planned, prep>>

(* deleteCalendarItem, from the calendar.                                   *)
DeleteItem(x) ==
  /\ x \in LiveItems
  /\ item' = [item EXCEPT ![x].deleted = TRUE, ![x].status = "CANCELLED"]
  /\ UNCHANGED <<interview, scheduled, planned, prep, scheduling>>

(* A request that ends early; a transaction is rolled back.                 *)
AbandonInterview(r) ==
  /\ scheduling[r] # Idle
  /\ Continues(r, Idle)
  /\ UNCHANGED <<interview, item, scheduled, planned, prep>>

PrepStep(r) == PrepContext(r) \/ PrepPlan(r) \/ PrepRequirements(r) \/ PrepItems(r)

INext ==
  \/ \E r \in Requests, i \in Interviews : Schedule(r, i)
  \/ \E r \in Requests : FindItem(r) \/ LinkItem(r) \/ RecordScheduled(r)
  \/ \E r \in Requests, x \in CalendarItems : MakeItem(r, x)
  \/ \E r \in Requests, i \in Interviews, status \in {"SCHEDULED", "COMPLETED", "CANCELLED"} :
       UpdateInterview(r, i, status)
  \/ \E r \in Requests, i \in Interviews : PrepBegin(r, i)
  \/ \E r \in Requests : PrepStep(r)
  \/ \E r \in Requests, i \in Interviews, k \in PrepKeys, done \in BOOLEAN :
       CompletePrep(r, i, k, done)
  \/ \E r \in Requests : TickItem(r) \/ AbandonInterview(r)
  \/ \E x \in CalendarItems : DeleteItem(x)

(* The pool and the row lock serve those who wait in their order, and a     *)
(* running transaction goes on.                                             *)
PrepFairness == \A r \in Requests : SF_ivars(PrepStep(r))

ISpec == IInit /\ [][INext]_ivars /\ PrepFairness

-----------------------------------------------------------------------------
(* Properties.                                                             *)

(* However often and however concurrently an interview is created, it has   *)
(* one live calendar item (createInterview), and preparing it again, after  *)
(* a failure or at the same time, never puts a task into the calendar twice *)
(* (createInterviewPrepPlan).                                              *)
ItemsMadeOnce ==
  /\ \A i \in Interviews : \A x, y \in ItemsOf(i) : x = y
  /\ \A x, y \in CalendarItems :
       item[x] # Null /\ item[y] # Null /\ item[x].key # Null
         /\ item[x].owner = item[y].owner /\ item[x].key = item[y].key => x = y

(* With fewer preparing requests than connections, every one of them ends:  *)
(* none waits for ever for its second connection or for the plan's row      *)
(* (createInterviewPrepPlan).                                               *)
PreparingEnds ==
  \A r \in Requests : scheduling[r].op \in PrepOps ~> scheduling[r].op \notin PrepOps
=============================================================================
