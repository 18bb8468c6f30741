--------------------------- MODULE Recommendations ---------------------------
(***************************************************************************)
(* What a user asks for and what the user is shown                         *)
(* (packages/db/src/personalization.ts): the recruiting preferences, the   *)
(* ranked list of opportunities, and the opportunities the user dismissed, *)
(* which stay away until a material change.                                *)
(*                                                                         *)
(* One user, one opportunity, and one of the lists of the preferences: the *)
(* other lists are replaced by the same code.  A statement takes effect at *)
(* one instant.  The preference version and the page cursor are left out;  *)
(* what a ranked opportunity scores is RecommendationScoring.              *)
(***************************************************************************)
EXTENDS ApiRequests, Naturals, Sequences

CONSTANTS
  Fingerprints,  \* of the material facts of the opportunity
  MaxChanges,    \* bound on its changes
  Selections     \* the lists of values a client may send

ASSUME RecommendationAssumption ==
  /\ MaxChanges \in Nat \ {0}
  /\ Null \notin Fingerprints
  /\ {} \in Selections

VARIABLES
  changes,      \* public.opportunity_change_events, by change_version
  suppression,  \* the basis of the open row of public.opportunity_suppressions
  away,         \* the user dismissed the facts as they are, and they stayed so
  preferred,    \* the rows of one list of preferences
  asking        \* the request running a handler of personalization.ts

wishes == <<changes, suppression, away, preferred>>

wvars == <<wishes, asking>>

Values == UNION Selections

AskingHandler == {Idle}
  \cup [op : {"PATCH"}, list : Selections]
  \cup [op : {"REPLACE"}, list : Selections, deleted : SUBSET Values]
  \cup [op : {"LIST"}]
  \cup [op : {"RANK"}, released : BOOLEAN]
  \cup [op : {"ANSWER"}, shown : BOOLEAN]
  \cup [op : {"DISMISS"}, basis : Fingerprints]

RecommendationsTypeOK ==
  /\ changes \in Seq(Fingerprints) /\ Len(changes) \in 1..MaxChanges
  /\ suppression \in Fingerprints \cup {Null}
  /\ away \in BOOLEAN
  /\ preferred \subseteq Values
  /\ asking \in [Requests -> AskingHandler]

WInit ==
  /\ \E f \in Fingerprints : changes = <<f>>
  /\ suppression = Null
  /\ away = FALSE
  /\ preferred = {}
  /\ asking = [r \in Requests |-> Idle]

Asks(r, handler) == asking' = [asking EXCEPT ![r] = handler]

Latest == changes[Len(changes)]

-----------------------------------------------------------------------------
(* record_job_opportunity_change: the opportunity's lifecycle, deadline or  *)
(* scored facts changed; a new event may carry the fingerprint of an old.   *)
ChangeOpportunity(f) ==
  /\ Len(changes) < MaxChanges
  /\ changes' = Append(changes, f)
  /\ away' = (away /\ f = suppression)
  /\ UNCHANGED <<suppression, preferred, asking>>

-----------------------------------------------------------------------------
(* updateRecruitingPreferences.                                            *)

(* A patch that changes nothing answers with what was read.                 *)
PatchBegins(r, list) ==
  /\ asking[r] = Idle
  /\ list # preferred
  /\ Asks(r, [op |-> "PATCH", list |-> list])
  /\ UNCHANGED wishes

(* The upsert of the user's preference row locks it until the commit.       *)
AnyTime(r) == TRUE
PreferencesFree(r) == \A s \in Requests \ {r} : asking[s].op # "REPLACE"

(* The upsert and the delete that follows it: it sees the rows committed by *)
(* then.                                                                    *)
DeleteList(r) ==
  /\ asking[r].op = "PATCH"
  /\ PreferencesFree(r)
  /\ Asks(r, [op |-> "REPLACE", list |-> asking[r].list, deleted |-> preferred])
  /\ UNCHANGED wishes

(* The inserts and the commit. *)
InsertList(r) ==
  /\ asking[r].op = "REPLACE"
  /\ preferred' = (preferred \ asking[r].deleted) \cup asking[r].list
  /\ Asks(r, Idle)
  /\ UNCHANGED <<changes, suppression, away>>

-----------------------------------------------------------------------------
(* listOpportunityRecommendations.                                         *)

(* A listing that released the suppression has its row locked.              *)
SuppressionFree ==
  \A r \in Requests : ~(asking[r].op = "RANK" /\ asking[r].released)

ListBegins(r) ==
  /\ asking[r] = Idle
  /\ Asks(r, [op |-> "LIST"])
  /\ UNCHANGED wishes

AnyOther(basis) == \E i \in DOMAIN changes : changes[i] # basis
MateriallyChanged(basis) == Latest # basis

(* The update that releases what changed; it commits with the listing.      *)
Release(r) ==
  /\ asking[r].op = "LIST"
  /\ LET released == suppression # Null /\ MateriallyChanged(suppression) IN
       /\ released => SuppressionFree
       /\ Asks(r, [op |-> "RANK", released |-> released])
  /\ UNCHANGED wishes

(* The candidates, the impressions and the commit.                          *)
Rank(r) ==
  /\ asking[r].op = "RANK"
  /\ Asks(r, [op |-> "ANSWER", shown |-> asking[r].released \/ suppression = Null])
  /\ suppression' = IF asking[r].released THEN Null ELSE suppression
  /\ UNCHANGED <<changes, away, preferred>>

Answer(r) ==
  /\ asking[r].op = "ANSWER"
  /\ Asks(r, Idle)
  /\ UNCHANGED wishes

-----------------------------------------------------------------------------
(* dismissOpportunity: the basis, and then the upsert and the commit.       *)

DismissBegins(r) ==
  /\ asking[r] = Idle
  /\ Asks(r, [op |-> "DISMISS", basis |-> Latest])
  /\ UNCHANGED wishes

Dismiss(r) ==
  /\ asking[r].op = "DISMISS"
  /\ SuppressionFree
  /\ suppression' = asking[r].basis
  /\ away' = (asking[r].basis = Latest)
  /\ Asks(r, Idle)
  /\ UNCHANGED <<changes, preferred>>

(* restoreDismissedOpportunity *)
RestoreDismissed ==
  /\ suppression # Null
  /\ SuppressionFree
  /\ suppression' = Null
  /\ away' = FALSE
  /\ UNCHANGED <<changes, preferred, asking>>

(* A transaction that is rolled back. *)
AbandonAsking(r) ==
  /\ asking[r] # Idle
  /\ Asks(r, Idle)
  /\ UNCHANGED wishes

WNext ==
  \/ \E f \in Fingerprints : ChangeOpportunity(f)
  \/ \E r \in Requests, list \in Selections : PatchBegins(r, list)
  \/ \E r \in Requests : DeleteList(r)
  \/ \E r \in Requests : InsertList(r)
  \/ \E r \in Requests : ListBegins(r)
  \/ \E r \in Requests : Release(r)
  \/ \E r \in Requests : Rank(r)
  \/ \E r \in Requests : Answer(r)
  \/ \E r \in Requests : DismissBegins(r)
  \/ \E r \in Requests : Dismiss(r)
  \/ RestoreDismissed
  \/ \E r \in Requests : AbandonAsking(r)

WSpec == WInit /\ [][WNext]_wvars

-----------------------------------------------------------------------------
(* Properties.                                                             *)

(* No listing shows an opportunity whose present facts the user dismissed,  *)
(* whatever they were before, and though listings, dismissals, restorations *)
(* and changes meet (listOpportunityRecommendations, dismissOpportunity).   *)
DismissedStaysAway ==
  [][\A r \in Requests :
       asking[r].op = "RANK" /\ asking'[r].op = "ANSWER" => ~(away /\ asking'[r].shown)]_wvars

(* The stored list is one that a client sent, as it was sent: two updates   *)
(* at the same time do not leave a mixture of both                          *)
(* (updateRecruitingPreferences).                                           *)
NoMixedPreferences == preferred \in Selections
=============================================================================
