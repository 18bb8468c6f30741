---------------------------- MODULE MCAlertFanout ----------------------------
(* Instances of AlertFanout for TLC. *)
EXTENDS AlertFanout, TLC

\* An opening, a calendar item of user 2 and a due scan that needs two batches.
MCEvents   == {"opening", "deadline", "scan"}
MCScans    == {"scan"}
MCOwner    == "opening" :> 0 @@ "deadline" :> 2 @@ "scan" :> 0
MCAudience == "opening" :> {1, 2} @@ "deadline" :> {} @@ "scan" :> {1, 2, 3}

\* One event with more candidates than a batch.
MCLarge         == {"opening"}
MCLargeOwner    == "opening" :> 0
MCLargeAudience == "opening" :> {1, 2, 3}

\* Two changes to a user's calendar.
MCTwice         == {"deadline", "interview"}
MCTwiceOwner    == "deadline" :> 1 @@ "interview" :> 1
MCTwiceAudience == "deadline" :> {} @@ "interview" :> {}
=============================================================================
