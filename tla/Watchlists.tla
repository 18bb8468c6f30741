------------------------------ MODULE Watchlists ------------------------------
(***************************************************************************)
(* What a user watches and is told (packages/db/src/personalization.ts):   *)
(* the watchlist, the alerts of the mailbox and the notification settings. *)
(* Watches that follow successors are moved when an opportunity is merged  *)
(* into another, by a trigger (migration 0011); an opportunity that a split *)
(* makes active again is left out.                                         *)
(*                                                                         *)
(* One user.  Watches of companies, recruiters and schools differ from     *)
(* those of opportunities in that nothing replaces what they watch.  A     *)
(* transaction is one step here: what meets between its statements is left *)
(* out.  How an alert is found due is AlertFanout's.                       *)
(***************************************************************************)
EXTENDS ApiRequests, FiniteSets

CONSTANTS
  Watches,    \* ids of public.watchlist_items
  Watchable,  \* what may be watched
  Letters     \* ids of public.alerts

ASSUME WatchAssumption == Null \notin Watches \cup Watchable

VARIABLES
  watch,     \* public.watchlist_items by id
  replaced,  \* superseded_by_id of the opportunities that were merged away
  recorded,  \* product events, by kind and id: their deduplication keys
  mailbox,   \* public.alerts by id
  notified   \* public.user_notification_preferences.in_app_enabled

watchvars == <<watch, replaced, recorded, mailbox, notified>>

WatchRow ==
  [ on : Watchable, state : {"ACTIVE", "REMOVED", "SUPERSEDED"}, follows : BOOLEAN,
    by : Watches \cup {Null} ]

AlertRow ==
  [about : Watchable, shown : BOOLEAN, opened : BOOLEAN, read : BOOLEAN, dismissed : BOOLEAN,
   expired : BOOLEAN]

(* The CHECKs of the two tables are part of what their rows may hold. *)
WatchlistsTypeOK ==
  /\ watch \in [Watches -> WatchRow \cup {Null}]
  /\ \A w \in Watches : watch[w] # Null =>
       (watch[w].by # Null <=> watch[w].state = "SUPERSEDED")
  /\ replaced \in [Watchable -> Watchable \cup {Null}]
  /\ recorded \subseteq ({"ADDED", "REMOVED"} \X Watches) \cup ({"SHOWN", "OPENED"} \X Letters)
  /\ mailbox \in [Letters -> AlertRow \cup {Null}]
  /\ \A a \in Letters : mailbox[a] # Null =>
       (mailbox[a].opened \/ mailbox[a].dismissed => mailbox[a].read)
  /\ notified \in BOOLEAN

WatchlistsInit ==
  /\ watch = [w \in Watches |-> Null]
  /\ replaced = [e \in Watchable |-> Null]
  /\ recorded = {}
  /\ mailbox = [a \in Letters |-> Null]
  /\ notified = TRUE

-----------------------------------------------------------------------------
(* The watchlist.                                                          *)

ActiveOn(e) == {w \in Watches : watch[w] # Null /\ watch[w].on = e /\ watch[w].state = "ACTIVE"}

(* addWatchlistItem; an active watch of the same is answered as it is.      *)
AddWatchlistItem(w, e, follows) ==
  /\ watch[w] = Null
  /\ ActiveOn(e) = {}
  /\ watch' = [watch EXCEPT ![w] = [on |-> e, state |-> "ACTIVE", follows |-> follows,
                                    by |-> Null]]
  /\ recorded' = recorded \cup {<<"ADDED", w>>}
  /\ UNCHANGED <<replaced, mailbox, notified>>

Watched(w) == watch[w] # Null /\ watch[w].state = "ACTIVE"

RemoveWatchlistItem(w) ==
  /\ Watched(w)
  /\ watch' = [watch EXCEPT ![w].state = "REMOVED"]
  /\ recorded' = recorded \cup {<<"REMOVED", w>>}
  /\ UNCHANGED <<replaced, mailbox, notified>>

UpdateWatchlistItem(w, follows) ==
  /\ Watched(w)
  /\ watch' = [watch EXCEPT ![w].follows = follows]
  /\ UNCHANGED <<replaced, recorded, mailbox, notified>>

(* reconcile_private_opportunity_successor: followers of the merged are     *)
(* superseded by the user's watch w of the successor, which is made when    *)
(* there is none; alerts of the merged expire.                              *)
Supersede(old, new, w) ==
  /\ old # new
  /\ replaced[old] = Null /\ replaced[new] = Null
  /\ LET followers == {v \in ActiveOn(old) : watch[v].follows}
         made == followers # {} /\ ActiveOn(new) = {}
     IN /\ made => watch[w] = Null
        /\ ActiveOn(new) # {} => w \in ActiveOn(new)
        /\ watch' = [v \in Watches |->
             CASE v \in followers -> [watch[v] EXCEPT !.state = "SUPERSEDED", !.by = w]
               [] made /\ v = w ->
                    [on |-> new, state |-> "ACTIVE", follows |-> TRUE, by |-> Null]
               [] OTHER -> watch[v]]
  /\ replaced' = [replaced EXCEPT ![old] = new]
  /\ mailbox' = [a \in Letters |->
       IF mailbox[a] # Null /\ mailbox[a].about = old /\ ~mailbox[a].dismissed
       THEN [mailbox[a] EXCEPT !.expired = TRUE] ELSE mailbox[a]]
  /\ UNCHANGED <<recorded, notified>>

-----------------------------------------------------------------------------
(* The mailbox.                                                            *)

(* An evaluation found the user to be told of what is watched.              *)
Deliver(a, e) ==
  /\ mailbox[a] = Null
  /\ notified /\ ActiveOn(e) # {}
  /\ mailbox' = [mailbox EXCEPT ![a] =
       [about |-> e, shown |-> FALSE, opened |-> FALSE, read |-> FALSE, dismissed |-> FALSE,
        expired |-> FALSE]]
  /\ UNCHANGED <<watch, replaced, recorded, notified>>

Mailed(a) == mailbox[a] # Null
Marks(letters, kind) == recorded' = recorded \cup ({kind} \X letters)

(* markAlertsShown *)
MarkShown(a) ==
  /\ Mailed(a)
  /\ mailbox' = [mailbox EXCEPT ![a].shown = TRUE]
  /\ Marks({a}, "SHOWN")
  /\ UNCHANGED <<watch, replaced, notified>>

OpenAlert(a) ==
  /\ Mailed(a)
  /\ mailbox' = [mailbox EXCEPT ![a].opened = TRUE, ![a].read = TRUE]
  /\ Marks({a}, "OPENED")
  /\ UNCHANGED <<watch, replaced, notified>>

(* updateAlert; the CHECKs refuse an unread alert that was opened.          *)
UpdateAlert(a, read) ==
  /\ Mailed(a)
  /\ read \/ (~mailbox[a].opened /\ ~mailbox[a].dismissed)
  /\ mailbox' = [mailbox EXCEPT ![a].read = read]
  /\ UNCHANGED <<watch, replaced, recorded, notified>>

DismissAlert(a) ==
  /\ Mailed(a)
  /\ mailbox' = [mailbox EXCEPT ![a].dismissed = TRUE, ![a].read = TRUE]
  /\ UNCHANGED <<watch, replaced, recorded, notified>>

MarkAllRead ==
  /\ \E a \in Letters : Mailed(a)
  /\ mailbox' = [a \in Letters |->
       IF Mailed(a) /\ ~mailbox[a].dismissed /\ ~mailbox[a].expired
       THEN [mailbox[a] EXCEPT !.read = TRUE] ELSE mailbox[a]]
  /\ UNCHANGED <<watch, replaced, recorded, notified>>

AlertExpires(a) ==
  /\ Mailed(a) /\ ~mailbox[a].expired
  /\ mailbox' = [mailbox EXCEPT ![a].expired = TRUE]
  /\ UNCHANGED <<watch, replaced, recorded, notified>>

UpdateNotificationPreferences(enabled) ==
  /\ notified' = enabled
  /\ UNCHANGED <<watch, replaced, recorded, mailbox>>

WatchlistsNext ==
  \/ \E w \in Watches, e \in Watchable, follows \in BOOLEAN : AddWatchlistItem(w, e, follows)
  \/ \E w \in Watches : RemoveWatchlistItem(w)
  \/ \E w \in Watches, follows \in BOOLEAN : UpdateWatchlistItem(w, follows)
  \/ \E old, new \in Watchable, w \in Watches : Supersede(old, new, w)
  \/ \E a \in Letters, e \in Watchable : Deliver(a, e)
  \/ \E a \in Letters : MarkShown(a)
  \/ \E a \in Letters : OpenAlert(a)
  \/ \E a \in Letters, read \in BOOLEAN : UpdateAlert(a, read)
  \/ \E a \in Letters : DismissAlert(a)
  \/ MarkAllRead
  \/ \E a \in Letters : AlertExpires(a)
  \/ \E enabled \in BOOLEAN : UpdateNotificationPreferences(enabled)

WatchlistsSpec == WatchlistsInit /\ [][WatchlistsNext]_watchvars
=============================================================================
