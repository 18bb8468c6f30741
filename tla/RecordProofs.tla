------------------------------ MODULE RecordProofs ------------------------------
(***************************************************************************)
(* The components of the API run beside each other as MCCandidateRecords   *)
(* runs them: every behaviour of all of them is a behaviour of each, so    *)
(* what was proved of one, for every value of its constants, holds of it.  *)
(***************************************************************************)
EXTENDS MCCandidateRecords, ClientRequestProofs, CandidateRecordProofs

LEMMA RecordsBegin ==
  Init => /\ TInit /\ RInit /\ GInit /\ OInit /\ OutInit /\ BInit /\ WInit /\ ScoreInit
          /\ WatchlistsInit /\ PageInit /\ ListingInit
  BY DEF Init

(* The variables of a group are unchanged together.                         *)
LEMMA GroupsUnchanged ==
  /\ UNCHANGED RecordVars <=> UNCHANGED tvars /\ UNCHANGED rvars /\ UNCHANGED gvars
  /\ UNCHANGED GraphVars <=> UNCHANGED ovars /\ UNCHANGED outvars /\ UNCHANGED bvars
  /\ UNCHANGED RankedVars <=> UNCHANGED wvars /\ UNCHANGED scorevars
  /\ UNCHANGED ShownVars <=>
       UNCHANGED watchvars /\ UNCHANGED pagevars /\ UNCHANGED listingvars
  BY DEF RecordVars, GraphVars, RankedVars, ShownVars

(* A step of the run is for each component a step of its own or none.       *)
LEMMA RecordsMove ==
  ASSUME [Next]_<<focus, RecordVars, GraphVars, RankedVars, ShownVars>>
  PROVE  /\ [TNext]_tvars /\ [RNext]_rvars /\ [GNext]_gvars
         /\ [ONext]_ovars /\ [OutNext]_outvars /\ [BNext]_bvars
         /\ [WNext]_wvars /\ [ScoreNext]_scorevars
         /\ [WatchlistsNext]_watchvars /\ [PageNext]_pagevars /\ [ListingNext]_listingvars
  <1>1. CASE UNCHANGED <<focus, RecordVars, GraphVars, RankedVars, ShownVars>>
    BY <1>1, GroupsUnchanged
  <1>2. CASE UNCHANGED <<GraphVars, RankedVars, ShownVars>>
             /\ \/ TNext /\ UNCHANGED <<rvars, gvars>>
                \/ RNext /\ UNCHANGED <<tvars, gvars>>
                \/ GNext /\ UNCHANGED <<tvars, rvars>>
    BY <1>2, GroupsUnchanged
  <1>3. CASE UNCHANGED <<RecordVars, RankedVars, ShownVars>>
             /\ \/ ONext /\ UNCHANGED <<outvars, bvars>>
                \/ OutNext /\ UNCHANGED <<ovars, bvars>>
                \/ BNext /\ UNCHANGED <<ovars, outvars>>
    BY <1>3, GroupsUnchanged
  <1>4. CASE UNCHANGED <<RecordVars, GraphVars, ShownVars>>
             /\ \/ WNext /\ UNCHANGED scorevars
                \/ ScoreNext /\ UNCHANGED wvars
    BY <1>4, GroupsUnchanged
  <1>5. CASE UNCHANGED <<RecordVars, GraphVars, RankedVars>>
             /\ \/ WatchlistsNext /\ UNCHANGED <<pagevars, listingvars>>
                \/ PageNext /\ UNCHANGED <<watchvars, listingvars>>
                \/ ListingNext /\ UNCHANGED <<watchvars, pagevars>>
    BY <1>5, GroupsUnchanged
  <1>6. QED
    BY <1>1, <1>2, <1>3, <1>4, <1>5 DEF Next

(* The run is a behaviour of every component.                               *)
THEOREM RecordsAreComponents ==
  Spec => /\ TSpec /\ RSpec /\ GSpec /\ OSpec /\ OutSpec /\ BSpec /\ WSpec /\ ScoreSpec
          /\ WatchlistsSpec /\ PageSpec /\ ListingSpec
  BY RecordsBegin, RecordsMove, PTL
     DEF Spec, TSpec, RSpec, GSpec, OSpec, OutSpec, BSpec, WSpec, ScoreSpec, WatchlistsSpec,
         PageSpec, ListingSpec

(* One of the components is the one that moves.                             *)
Moving ==
  focus \in { "APPLICATIONS", "RESUMES", "ACCOUNTS", "GRAPH", "OUTREACH", "COMPANION",
             "RECOMMENDATIONS", "SCORING", "WATCHLISTS", "PAGE", "LISTING" }

(* Whichever component moves, its tables hold what their columns, CHECKs    *)
(* and foreign keys allow, at every number of requests, rows and limits.    *)
THEOREM RecordsTypeCorrect == Spec => []RecordsTypeOK
  <1>1. Moving /\ TrackingTypeOK /\ ResumeTypeOK /\ GoogleTypeOK /\ GraphTypeOK
        /\ OutreachTypeOK /\ CompanionTypeOK /\ RecommendationsTypeOK /\ ScoringTypeOK
        /\ WatchlistsTypeOK /\ PageTypeOK /\ ListingTypeOK => RecordsTypeOK
    BY DEF RecordsTypeOK, Moving
  <1>2. Init => Moving
    BY DEF Init, Moving
  <1>3. Moving /\ [Next]_<<focus, RecordVars, GraphVars, RankedVars, ShownVars>> => Moving'
    BY DEF Next, Moving
  <1>4. QED
    BY <1>1, <1>2, <1>3, RecordsAreComponents, TrackingTypeCorrect, ResumeTypeCorrect,
       GoogleTypeCorrect, GraphTypeCorrect, OutreachTypeCorrect, CompanionTypeCorrect,
       RecommendationsTypeCorrect, ScoringTypeCorrect, WatchlistsTypeCorrect, PageTypeCorrect,
       ListingTypeCorrect, PTL DEF Spec
=================================================================================
