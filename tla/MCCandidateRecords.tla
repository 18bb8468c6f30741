-------------------------- MODULE MCCandidateRecords --------------------------
(***************************************************************************)
(* The components of the API beside the planner, for TLC.  No two share a  *)
(* variable, so every behaviour of all of them together is, for the        *)
(* properties of one, a behaviour in which only that one moves: "focus"    *)
(* says which, and TLC explores the sum of their states and not the        *)
(* product.  For the same reason their tables may use the same ids.        *)
(***************************************************************************)
EXTENDS
  ApplicationTracking, ResumeMatching, GoogleConnection, OpportunityGraph, Outreach,
  BrowserCompanion, Recommendations, RecommendationScoring, Watchlists, CalendarPage,
  OpportunityListing

CONSTANTS
  r1, r2, id1, id2, id3, row1, row2, key1, key2, found1, found2, found3, scan1, scan2,
  text1, text2, opening, seeker

VARIABLE focus

-----------------------------------------------------------------------------
(* Values of the constants.                                                *)

MCTargetOf == [a \in {seeker} |-> opening]

(* Three candidates of two scans; one page was scanned twice. *)
MCScanOf == (found1 :> scan1) @@ (found2 :> scan1) @@ (found3 :> scan2)
MCContentOf == (found1 :> text1) @@ (found2 :> text2) @@ (found3 :> text1)

MCFacts ==
  [ watched |-> {"NOTHING", "THIS"}, superseded |-> {FALSE}, lifecycle |-> {Unknown, "OPEN"},
    role |-> {"OTHER", "SWE"}, level |-> {Unknown, "ENTRY", "SENIOR"},
    tracks |-> {{}, {"INTERNSHIP"}, Tracks}, years |-> {"OURS"},
    mode |-> {Unknown, "MIXED", "REMOTE"},
    agrees |-> {{Unknown}, {"COUNTRY"}, {"CITY_REGION_COUNTRY"}},
    age |-> {0, 30}, left |-> {{}, {1}}, authority |-> {"OFFICIAL_ATS"},
    sponsors |-> {Unknown}, authorization |-> {"NONE"} ]

MCWishes ==
  { [ roles |-> {"SWE"}, tracks |-> {"INTERNSHIP"}, levels |-> {"ENTRY"}, modes |-> {"REMOTE"},
      places |-> {"CITY_REGION_COUNTRY", "COUNTRY"}, graduates |-> TRUE,
      needsSponsor |-> FALSE, unauthorized |-> FALSE ],
    [ roles |-> {"DATA"}, tracks |-> Tracks, levels |-> {}, modes |-> {},
      places |-> {"COUNTRY"}, graduates |-> FALSE, needsSponsor |-> FALSE,
      unauthorized |-> FALSE ] }

(* Two zones skip an hour, one shows an hour twice. *)
MCZones ==
  { [change |-> 10, before |-> -4, after |-> -2], [change |-> 12, before |-> -4, after |-> -2],
    [change |-> 10, before |-> 2, after |-> -2] }

(* One item, all day or timed; the timed ones are after the change, or      *)
(* before it, with seconds, and the local times of the typed form exist in  *)
(* one zone only.                                                          *)
MCTimings(z) ==
  { CASE z.change = 12 -> Timing(FALSE, 14, 17, Null, Null)
      [] z.before < 0 -> Timing(TRUE, 12, Null, 1, Null)
      [] OTHER -> Timing(FALSE, 1, 3, Null, Null) }

(* Around the changes. *)
MCInstants == {6, 9, 11, 12}

MCTyped == {[allDay |-> FALSE, date |-> 0, endDate |-> 0, time |-> 6, endTime |-> 8]}

-----------------------------------------------------------------------------
Init ==
  /\ TInit /\ RInit /\ GInit /\ OInit /\ OutInit /\ BInit /\ WInit /\ ScoreInit
  /\ WatchlistsInit /\ PageInit /\ ListingInit
  /\ focus \in { "APPLICATIONS", "RESUMES", "ACCOUNTS", "GRAPH", "OUTREACH", "COMPANION",
                 "RECOMMENDATIONS", "SCORING", "WATCHLISTS", "PAGE", "LISTING" }
  \* What does not move starts in one way only.
  /\ focus # "ACCOUNTS" => beta = Null
  /\ focus # "RECOMMENDATIONS" => changes = <<text1>>
  /\ focus # "SCORING" => wish.graduates
  /\ focus # "COMPANION" => allowed
  /\ focus # "PAGE" => zone.change = 12 /\ calls[r1] # NoCall

(* The components before and after the one that moves do not. *)
RecordVars == <<tvars, rvars, gvars>>
GraphVars == <<ovars, outvars, bvars>>
RankedVars == <<wvars, scorevars>>
ShownVars == <<watchvars, pagevars, listingvars>>

Next ==
  /\ UNCHANGED focus
  /\ \/ /\ focus \in {"APPLICATIONS", "RESUMES", "ACCOUNTS"}
        /\ UNCHANGED <<GraphVars, RankedVars, ShownVars>>
        /\ \/ focus = "APPLICATIONS" /\ TNext /\ UNCHANGED <<rvars, gvars>>
           \/ focus = "RESUMES" /\ RNext /\ UNCHANGED <<tvars, gvars>>
           \/ focus = "ACCOUNTS" /\ GNext /\ UNCHANGED <<tvars, rvars>>
     \/ /\ focus \in {"GRAPH", "OUTREACH", "COMPANION"}
        /\ UNCHANGED <<RecordVars, RankedVars, ShownVars>>
        /\ \/ focus = "GRAPH" /\ ONext /\ UNCHANGED <<outvars, bvars>>
           \/ focus = "OUTREACH" /\ OutNext /\ UNCHANGED <<ovars, bvars>>
           \/ focus = "COMPANION" /\ BNext /\ UNCHANGED <<ovars, outvars>>
     \/ /\ focus \in {"RECOMMENDATIONS", "SCORING"}
        /\ UNCHANGED <<RecordVars, GraphVars, ShownVars>>
        /\ \/ focus = "RECOMMENDATIONS" /\ WNext /\ UNCHANGED scorevars
           \/ focus = "SCORING" /\ ScoreNext /\ UNCHANGED wvars
     \/ /\ focus \in {"WATCHLISTS", "PAGE", "LISTING"}
        /\ UNCHANGED <<RecordVars, GraphVars, RankedVars>>
        /\ \/ focus = "WATCHLISTS" /\ WatchlistsNext /\ UNCHANGED <<pagevars, listingvars>>
           \/ focus = "PAGE" /\ PageNext /\ UNCHANGED <<watchvars, listingvars>>
           \/ focus = "LISTING" /\ ListingNext /\ UNCHANGED <<watchvars, pagevars>>

(* Bounds: one pair of postings at a time is under review or found         *)
(* distinct, and one application's ledger grows while it has at most three *)
(* events; the page shows the form for a new item while none is selected.  *)
RecordBounds ==
  /\ Cardinality(reviews) + Cardinality(distinct) <= 1
  /\ Cardinality(event) <= 3
  /\ adding # "HIDDEN" => panel.id = Null

Spec == Init /\ [][Next]_<<focus, RecordVars, GraphVars, RankedVars, ShownVars>>

(* The tables of the component that moves hold what their columns, CHECKs   *)
(* and foreign keys allow; those of the others are as they began.           *)
RecordsTypeOK ==
  CASE focus = "APPLICATIONS" -> TrackingTypeOK
    [] focus = "RESUMES" -> ResumeTypeOK
    [] focus = "ACCOUNTS" -> GoogleTypeOK
    [] focus = "GRAPH" -> GraphTypeOK
    [] focus = "OUTREACH" -> OutreachTypeOK
    [] focus = "COMPANION" -> CompanionTypeOK
    [] focus = "RECOMMENDATIONS" -> RecommendationsTypeOK
    [] focus = "SCORING" -> ScoringTypeOK
    [] focus = "WATCHLISTS" -> WatchlistsTypeOK
    [] focus = "PAGE" -> PageTypeOK
    [] focus = "LISTING" -> ListingTypeOK
=============================================================================
