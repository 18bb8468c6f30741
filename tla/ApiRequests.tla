----------------------------- MODULE ApiRequests -----------------------------
(***************************************************************************)
(* What every handler of the web server has in common.  A request runs a   *)
(* handler of packages/db/src: it reads, awaits the database or a provider *)
(* and writes, and between two awaits any other request may move.  A       *)
(* request that is not running is Idle; one that stops between two steps   *)
(* (a lost connection, a restarted server, an exception) becomes Idle      *)
(* again, with what it has committed left behind.                          *)
(*                                                                         *)
(* PostgreSQL runs the transactions at READ COMMITTED: a read without FOR  *)
(* UPDATE sees what was committed and locks nothing, so a transaction that *)
(* reads and then writes is two steps here unless a lock, a conditional    *)
(* UPDATE or a unique index makes it one.                                  *)
(***************************************************************************)
CONSTANTS
  Requests,  \* the requests that may run at the same time
  Null       \* SQL null

ASSUME RequestAssumption == Null \notin Requests

Idle == [op |-> "IDLE"]
=============================================================================
