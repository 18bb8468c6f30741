------------------------ MODULE MCCollectorsAndCalendar ------------------------
(***************************************************************************)
(* What the collectors do beside ATS boards, and the calendar that shows   *)
(* the dates they find, for TLC: alerts are fanned out, repositories       *)
(* synchronized, the web searched, recruiter evidence summarised, dates    *)
(* materialized and planned for.  As in MCCandidateRecords no two share a  *)
(* variable and "focus" says which one moves.                              *)
(***************************************************************************)
EXTENDS
  MCAlertFanout, GithubSync, WebSearch, RecruiterDirectory, CalendarPlanning

CONSTANTS id1, id2, row1, row2, page1, page2

VARIABLE focus

MCObserved == (page1 :> 1) @@ (page2 :> 2)
MCReported == (page1 :> "HIGH") @@ (page2 :> "LOW")
MCMonthOf == <<1, 1>>

-----------------------------------------------------------------------------
AllInit ==
  /\ Init /\ GithubInit /\ SearchInit /\ DInit /\ PInit
  /\ focus \in {"ALERTS", "GITHUB", "SEARCH", "DIRECTORY", "CALENDAR"}

AllNext ==
  /\ UNCHANGED focus
  /\ \/ focus = "ALERTS" /\ Next /\ UNCHANGED <<githubvars, searchvars, dvars, pvars>>
     \/ focus = "GITHUB" /\ GithubNext /\ UNCHANGED <<vars, searchvars, dvars, pvars>>
     \/ focus = "SEARCH" /\ SearchNext /\ UNCHANGED <<vars, githubvars, dvars, pvars>>
     \/ focus = "DIRECTORY" /\ DNext /\ UNCHANGED <<vars, githubvars, searchvars, pvars>>
     \/ focus = "CALENDAR" /\ PNext /\ UNCHANGED <<vars, githubvars, searchvars, dvars>>

AllSpec ==
  AllInit /\ [][AllNext]_<<focus, vars, githubvars, searchvars, dvars, pvars>>

(* Bounds: after the first commit a file changes once; the repository is   *)
(* not disabled once it was read; the watched paths differ from those of   *)
(* the first sync while at most one worker is busy; a worker that lost its *)
(* lease stops before the report that would be refused.                    *)
SyncBounds ==
  /\ \A m, n \in Commits \ {0} : m # n => changed[m] \cap changed[n] = {}
  /\ processed # Null \/ (\E w \in Workers : syncs[w].at # "IDLE") => watching
  /\ Enabled(links) # {} /\ steady # WatchedFiles(links)
       => \E w \in Workers : syncs[w].at = "IDLE"
  /\ \A w \in Workers : lease # w => syncs[w].at \notin {"DONE", "FAILED"}

(* The tables of the component that moves hold what their columns, CHECKs   *)
(* and foreign keys allow, and no attempt counter runs past its maximum.   *)
TablesTypeOK ==
  CASE focus = "ALERTS" -> TypeOK
    [] focus = "GITHUB" -> GithubTypeOK
    [] focus = "SEARCH" -> SearchTypeOK
    [] focus = "DIRECTORY" -> DirectoryTypeOK
    [] focus = "CALENDAR" -> CalendarTypeOK
=============================================================================
