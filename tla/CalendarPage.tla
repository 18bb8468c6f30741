----------------------------- MODULE CalendarPage -----------------------------
(***************************************************************************)
(* The calendar page in a browser (apps/web/components/calendar and        *)
(* apps/web/lib/api/calendar.ts) and the user's items on the server.  The  *)
(* page keeps the items of its last list and replaces them one by one from *)
(* the answers to its requests.  Several requests are under way at a time; *)
(* they reach the server, and their answers the page, in any order, and    *)
(* each may get lost.  Another tab or the collectors change the items too. *)
(*                                                                         *)
(* The panel of the selected item copies its times into a form when it is  *)
(* mounted, and not again.  Of an item its times and its completion are    *)
(* kept; the filters, the months and the sync flag (sent as the completion *)
(* is) are left out.  A handler of the server is one step here.            *)
(***************************************************************************)
EXTENDS WallClock, FiniteSets

CONSTANTS
  Zones,     \* the timezones the items may be in
  Instants,  \* instants to look at
  Items,     \* ids of calendar_items
  Calls,     \* the requests of the page under way at a time
  Timings(_), \* timings the items of a zone may have
  Typed      \* what the user may type into a form

ASSUME PageAssumption ==
  /\ Zones \subseteq Zone /\ Instants \subseteq Int
  /\ \A z \in Zones : Timings(z) \subseteq Normal
  /\ Typed \subseteq FormRow
  /\ Null \notin Items \cup TimingRow \cup FormRow \cup [timing : TimingRow, done : BOOLEAN]

VARIABLES
  zone,     \* that of the items
  board,    \* public.calendar_items of the user
  shown,     \* state "items" of CalendarApp
  loading,
  adding,   \* AddCalendarItemForm
  panel,    \* CalendarDetailPanel and the selected item
  calls     \* the requests under way

pagevars == <<zone, board, shown, loading, adding, panel, calls>>

NoCall == [op |-> "NONE"]
Item(timing, done) == [timing |-> timing, done |-> done]
Closed == [id |-> Null, form |-> Null, editing |-> FALSE, saving |-> FALSE, opened |-> Null]

Sent(op, id, timing, done, mounted, opened) ==
  [op |-> op, id |-> id, timing |-> timing, done |-> done, mounted |-> mounted,
   opened |-> opened, answered |-> FALSE, answer |-> Null]

PageTypeOK ==
  /\ zone \in Zones
  /\ \A x \in Items : board[x] # Null => Normalized(board[x].timing) = board[x].timing
  /\ \A x \in Items : shown[x] # Null => Normalized(shown[x].timing) = shown[x].timing
  /\ panel.id \in Items \cup {Null}
  /\ panel.form # Null => shown[panel.id] # Null
  /\ panel.form = Null => ~panel.editing /\ ~panel.saving
  /\ \A c \in Calls : calls[c].op \in {"NONE", "LIST", "RELIST", "ADD", "UPDATE", "DELETE"}
  /\ loading \in BOOLEAN
  /\ adding \in {"HIDDEN", "SHOWN", "SUBMITTING"}
  /\ adding = "SUBMITTING"
       <=> \E c \in Calls : calls[c].op \in {"ADD", "RELIST"} /\ calls[c].mounted

PageInit ==
  /\ zone \in Zones
  /\ \E t \in Timings(zone) : board = [x \in Items |-> Item(t, FALSE)]
  /\ shown = [x \in Items |-> Null]
  /\ loading = TRUE
  /\ adding = "HIDDEN"
  /\ panel = Closed
  \* The effect of the first rendering.
  /\ \E c \in Calls : calls = [d \in Calls |->
       IF d = c THEN Sent("LIST", Null, Null, Null, FALSE, Null) ELSE NoCall]

-----------------------------------------------------------------------------
(* The panel.                                                              *)

(* A panel is mounted while its item is in the list, and starts from the    *)
(* item as it is then.  "opened" remembers the times it started from as     *)
(* long as nothing was typed.                                              *)
Panel(id, list) ==
  IF id = Null \/ list[id] = Null THEN [Closed EXCEPT !.id = id]
  ELSE IF panel.id = id /\ panel.form # Null THEN panel
  ELSE [id |-> id, form |-> FormOf(View(zone, list[id].timing)), editing |-> FALSE,
        saving |-> FALSE, opened |-> list[id].timing]

(* An answer no longer reaches the form of a panel that was unmounted.      *)
Detached(table, next) ==
  [c \in Calls |->
    IF table[c].op \in {"UPDATE", "DELETE"} /\ (next.form = Null \/ next.id # panel.id)
    THEN [table[c] EXCEPT !.mounted = FALSE] ELSE table[c]]

(* setItems and setSelectedItemId: the page renders again. *)
Renders(list, id, table) ==
  /\ shown' = list
  /\ panel' = Panel(id, list)
  /\ calls' = Detached(table, panel')

Select(id) ==
  /\ id # panel.id
  /\ id # Null => shown[id] # Null
  /\ Renders(shown, id, calls)
  /\ UNCHANGED <<zone, board, loading, adding>>

Edit ==
  /\ panel.form # Null /\ ~panel.editing
  /\ panel' = [panel EXCEPT !.editing = TRUE]
  /\ UNCHANGED <<zone, board, shown, loading, adding, calls>>

Type(form) ==
  /\ panel.editing
  /\ panel.form # form
  /\ panel' = [panel EXCEPT !.form = form, !.opened = Null]
  /\ UNCHANGED <<zone, board, shown, loading, adding, calls>>

CancelEdit ==
  /\ panel.editing
  /\ panel' = [panel EXCEPT !.editing = FALSE]
  /\ UNCHANGED <<zone, board, shown, loading, adding, calls>>

-----------------------------------------------------------------------------
(* What the user asks for.                                                 *)

Sends(c, request) == calls[c] = NoCall /\ calls' = [calls EXCEPT ![c] = request]

(* handleToggleComplete: by what the page shows. *)
ToggleComplete(c, id) ==
  /\ shown[id] # Null
  /\ Sends(c, Sent("UPDATE", id, Null, ~shown[id].done, FALSE, Null))
  /\ UNCHANGED <<zone, board, shown, loading, adding, panel>>

(* The Save button: an impossible local time is refused before it is sent.  *)
SaveForm(c) ==
  /\ panel.editing /\ ~panel.saving
  /\ LET timing == Requested(zone, panel.form) IN
       /\ ~CannotSend(timing)
       /\ Sends(c, Sent("UPDATE", panel.id, timing, Null, TRUE, panel.opened))
  /\ panel' = [panel EXCEPT !.saving = TRUE]
  /\ UNCHANGED <<zone, board, shown, loading, adding>>

(* The Delete button is enabled while a save is under way. *)
Delete(c) ==
  /\ panel.editing
  /\ Sends(c, Sent("DELETE", panel.id, Null, Null, TRUE, Null))
  /\ panel' = [panel EXCEPT !.saving = TRUE]
  /\ UNCHANGED <<zone, board, shown, loading, adding>>

(* A submission goes on without the form it came from. *)
Unsubmitted(table) ==
  [c \in Calls |->
    IF table[c].op \in {"ADD", "RELIST"} THEN [table[c] EXCEPT !.mounted = FALSE] ELSE table[c]]

ShowAddForm ==
  /\ adding' = IF adding = "HIDDEN" THEN "SHOWN" ELSE "HIDDEN"
  /\ calls' = Unsubmitted(calls)
  /\ UNCHANGED <<zone, board, shown, loading, panel>>

(* handleAddItem, its first request *)
Add(c, form) ==
  /\ adding = "SHOWN"
  /\ LET timing == Requested(zone, form) IN
       /\ ~CannotSend(timing)
       /\ Sends(c, Sent("ADD", Null, timing, FALSE, TRUE, Null))
  /\ adding' = "SUBMITTING"
  /\ UNCHANGED <<zone, board, shown, loading, panel>>

-----------------------------------------------------------------------------
(* The server.                                                             *)

Answers(c, answer) ==
  calls' = [calls EXCEPT ![c].answered = TRUE, ![c].answer = answer]

Waiting(c, op) == calls[c].op = op /\ ~calls[c].answered

ServeList(c) ==
  /\ Waiting(c, "LIST") \/ Waiting(c, "RELIST")
  /\ Answers(c, board)
  /\ UNCHANGED <<zone, board, shown, loading, adding, panel>>

(* createCalendarItem *)
ServeAdd(c) ==
  /\ Waiting(c, "ADD")
  /\ \E id \in Items :
       /\ board[id] = Null
       /\ Normalized(calls[c].timing) # Null
       /\ board' = [board EXCEPT ![id] = Item(Normalized(calls[c].timing), FALSE)]
       /\ Answers(c, board'[id])
  /\ UNCHANGED <<zone, shown, loading, adding, panel>>

(* The row updateCalendarItem writes. *)
Updated(item, call) ==
  Item(IF call.timing = Null THEN item.timing ELSE Normalized(call.timing),
       IF call.done = Null THEN item.done ELSE call.done)

(* updateCalendarItem; its refusals are answers that get lost (Fails). *)
ServeUpdate(c) ==
  /\ Waiting(c, "UPDATE")
  /\ LET id == calls[c].id IN
       /\ board[id] # Null
       /\ Updated(board[id], calls[c]).timing # Null
       /\ board' = [board EXCEPT ![id] = Updated(@, calls[c])]
       /\ Answers(c, board'[id])
  /\ UNCHANGED <<zone, shown, loading, adding, panel>>

(* deleteCalendarItem *)
ServeDelete(c) ==
  /\ Waiting(c, "DELETE")
  /\ board[calls[c].id] # Null
  /\ board' = [board EXCEPT ![calls[c].id] = Null]
  /\ Answers(c, "OK")
  /\ UNCHANGED <<zone, shown, loading, adding, panel>>

(* Another tab, or a source, moves or removes an item. *)
ChangedElsewhere(id, item) ==
  /\ board[id] # item
  /\ board[id] # Null
  /\ board' = [board EXCEPT ![id] = item]
  /\ UNCHANGED <<zone, shown, loading, adding, panel, calls>>

-----------------------------------------------------------------------------
(* The page takes an answer.                                               *)

Done(c) == [calls EXCEPT ![c] = NoCall]

TakeList(c) ==
  /\ calls[c].op = "LIST" /\ calls[c].answered
  /\ loading' = FALSE
  /\ Renders(calls[c].answer, panel.id, Done(c))
  /\ UNCHANGED <<zone, board, adding>>

(* handleAddItem after its refresh: the form, or the one the user opened    *)
(* since, is closed.                                                       *)
TakeRelist(c) ==
  /\ calls[c].op = "RELIST" /\ calls[c].answered
  /\ adding' = "HIDDEN"
  /\ Renders(calls[c].answer, panel.id, Unsubmitted(Done(c)))
  /\ UNCHANGED <<zone, board, loading>>

(* handleAddItem lists again before it closes the form. *)
TakeAdd(c) ==
  /\ calls[c].op = "ADD" /\ calls[c].answered
  /\ calls' = [calls EXCEPT ![c] = Sent("RELIST", Null, Null, Null, calls[c].mounted, Null)]
  /\ UNCHANGED <<zone, board, shown, loading, adding, panel>>

(* replaceItem: an item that left the list does not come back.              *)
TakeUpdate(c) ==
  /\ calls[c].op = "UPDATE" /\ calls[c].answered
  /\ LET id == calls[c].id IN
       shown' = IF shown[id] = Null THEN shown ELSE [shown EXCEPT ![id] = calls[c].answer]
  /\ panel' = IF calls[c].mounted THEN [panel EXCEPT !.editing = FALSE, !.saving = FALSE] ELSE panel
  /\ calls' = Done(c)
  /\ UNCHANGED <<zone, board, loading, adding>>

(* handleDeleteItem and onClose, which closes whatever is selected by then. *)
TakeDelete(c) ==
  /\ calls[c].op = "DELETE" /\ calls[c].answered
  /\ Renders([shown EXCEPT ![calls[c].id] = Null], Null, Done(c))
  /\ UNCHANGED <<zone, board, loading, adding>>

(* requestData throws: the request or its answer was lost, or refused.  A   *)
(* form whose item was added but not listed may be submitted again.        *)
Fails(c) ==
  /\ calls[c] # NoCall
  /\ LET mine(ops) == calls[c].op \in ops /\ calls[c].mounted IN
       /\ panel' = IF mine({"UPDATE", "DELETE"}) THEN [panel EXCEPT !.saving = FALSE] ELSE panel
       /\ adding' = IF mine({"ADD", "RELIST"}) THEN "SHOWN" ELSE adding
  /\ loading' = (loading /\ calls[c].op # "LIST")
  /\ calls' = Done(c)
  /\ UNCHANGED <<zone, board, shown>>

PageNext ==
  \/ \E id \in Items \cup {Null} : Select(id)
  \/ Edit
  \/ \E form \in Typed : Type(form)
  \/ CancelEdit
  \/ ShowAddForm
  \/ \E id \in Items : ChangedElsewhere(id, Null)
  \/ \E id \in Items, t \in Timings(zone) : ChangedElsewhere(id, Item(t, FALSE))
  \/ \E c \in Calls :
       \/ \E id \in Items : ToggleComplete(c, id)
       \/ SaveForm(c) \/ Delete(c)
       \/ \E form \in Typed : Add(c, form)
       \/ ServeList(c) \/ ServeAdd(c) \/ ServeUpdate(c) \/ ServeDelete(c)
       \/ TakeList(c) \/ TakeRelist(c) \/ TakeAdd(c) \/ TakeUpdate(c) \/ TakeDelete(c)
       \/ Fails(c)

PageSpec == PageInit /\ [][PageNext]_pagevars

-----------------------------------------------------------------------------
(* Properties.                                                             *)

(* A time some clock of the zone shows can be entered, and is stored as the *)
(* first instant of a minute in which the clock shows it, on either side of *)
(* a change of the offset: the four corrections of zonedDateTimeToIso       *)
(* suffice, though the seconds are not among what it compares.              *)
LocalTimesConverted ==
  \A instant \in Instants :
    LET local == Rendered(zone, instant)
        stored == Zoned(zone, DateOf(local), TimeOf(local))
    IN stored # Null /\ Rendered(zone, stored) = ToMinute(local)

(* Saving a form nothing was typed into moves no item off its minute: it    *)
(* gives the item the times it had when the panel opened, less the seconds, *)
(* which zonedTime drops and which the page never sends (toCalendarItemView,*)
(* the panel's form, toUpdateRequest and normalizedTiming undo one another  *)
(* otherwise), whatever the page has done since and whatever became of the  *)
(* item.  An item of whole minutes keeps its times exactly.                *)
UntouchedFormKeepsTimes ==
  /\ panel.opened # Null /\ Holdable(zone, panel.opened)
       => Normalized(Requested(zone, panel.form)) = OnTheMinute(panel.opened)
  /\ \A c \in Calls :
       calls[c].op = "UPDATE" /\ calls[c].opened # Null /\ Holdable(zone, calls[c].opened)
         => Normalized(calls[c].timing) = OnTheMinute(calls[c].opened)
=============================================================================
