-------------------------- MODULE RecruiterDirectory --------------------------
(***************************************************************************)
(* The recruiters of one company as users enter them                       *)
(* (packages/db/src/recruiter-campus.ts): a profile by name, evidence from *)
(* public pages, and for each school or role family the evidence speaks of *)
(* (a subject) one row that sums the evidence up.                          *)
(*                                                                         *)
(* A request names one subject; several are refreshed one after the other  *)
(* by the same code.  Each source page says one thing, was read on one day *)
(* and is reported with one reliability; titles are recruiting titles, and *)
(* evidence is at most 90 days old.  The projection of the collectors,     *)
(* which writes the same tables, is left out.                              *)
(***************************************************************************)
EXTENDS ApiRequests, Naturals, FiniteSets, FiniteSetsExt, Functions

CONSTANTS
  Profiles,     \* ids of recruiter_profiles
  Names,        \* normalised names of people
  Subjects,     \* schools and role families
  SourcePages,  \* source urls
  Observed,     \* the day of the evidence of a page
  Reported      \* the reliability it is reported with

ASSUME DirectoryAssumption ==
  /\ Null \notin Profiles \cup Names \cup Subjects
  /\ Observed \in [SourcePages -> Nat]
  /\ Reported \in [SourcePages -> {"HIGH", "LOW"}]

VARIABLES
  profile,    \* public.recruiter_profiles with its person: the name
  testimony,  \* public.recruiter_evidence, by fingerprint
  focused,    \* recruiter_school_relationships and recruiter_role_focus
  announced,  \* what public.recruiting_events tells of
  recruiting  \* the request running a handler of recruiter-campus.ts

directory == <<profile, testimony, focused, announced>>

dvars == <<directory, recruiting>>

(* The fingerprint of manual evidence: a subject is null when none was     *)
(* named, or no school has the name (insertUnresolvedSchool).              *)
Prints == [profile : Profiles, page : SourcePages, subject : Subjects \cup {Null}]

FocusRow ==
  [count : Nat, last : Range(Observed), strength : {"HIGH", "MEDIUM", "LOW", "LIMITED_EVIDENCE"}]

RecruitingHandler == {Idle}
  \cup [op : {"CREATE"}, name : Names, page : SourcePages, subject : Subjects \cup {Null}]
  \cup [op : {"COLLECT"}, print : Prints, name : Names \cup {Null}, existing : BOOLEAN]
  \cup [op : {"COMMIT"}, print : Prints, name : Names \cup {Null}, existing : BOOLEAN,
        summary : FocusRow \cup {Null}]

DirectoryTypeOK ==
  /\ profile \in [Profiles -> Names \cup {Null}]
  /\ testimony \subseteq Prints
  /\ focused \in [Profiles \X Subjects -> FocusRow \cup {Null}]
  /\ announced \subseteq Profiles \cup Prints
  /\ recruiting \in [Requests -> RecruitingHandler]

DInit ==
  /\ profile = [p \in Profiles |-> Null]
  /\ testimony = {}
  /\ focused = [s \in Profiles \X Subjects |-> Null]
  /\ announced = {}
  /\ recruiting = [r \in Requests |-> Idle]

Recruits(r, handler) == recruiting' = [recruiting EXCEPT ![r] = handler]

-----------------------------------------------------------------------------
(* Locks, held until the transaction ends.                                 *)

(* The upsert of the source of a page (manualSource).                      *)
PageOf(r) ==
  CASE recruiting[r].op = "CREATE" -> {recruiting[r].page}
    [] recruiting[r].op \in {"COLLECT", "COMMIT"} -> {recruiting[r].print.page}
    [] OTHER -> {}

PageFree(r, page) == \A s \in Requests \ {r} : page \notin PageOf(s)

(* createManualRecruiter updates the profile before it collects evidence.  *)
ProfileFree(r, p) ==
  \A s \in Requests \ {r} :
    ~(recruiting[s].op \in {"COLLECT", "COMMIT"} /\ recruiting[s].print.profile = p
        /\ recruiting[s].name # Null)

(* The upsert of the row of a subject.                                     *)
AnySummary(r, p, subject) == TRUE
SummaryFree(r, p, subject) ==
  \A s \in Requests \ {r} :
    ~(recruiting[s].op = "COMMIT" /\ recruiting[s].print.profile = p
        /\ recruiting[s].print.subject = subject)

-----------------------------------------------------------------------------
(* What a row of a subject says of its evidence.                           *)

(* relationshipDecision: explicit, of a recruiting title and fresh.        *)
Strength(reliability, pages) ==
  LET points == (IF reliability = "HIGH" THEN 2 ELSE 0)
                + (CASE pages >= 3 -> 3 [] pages = 2 -> 2 [] OTHER -> 0) + 4
  IN CASE points >= 7 -> "HIGH"
       [] points \in 5..6 -> "MEDIUM"
       [] points \in 3..4 -> "LOW"
       [] OTHER -> "LIMITED_EVIDENCE"

(* The aggregate over the evidence linked to the row.                      *)
Summary(rows, p, subject) ==
  LET linked == {f \in rows : f.profile = p /\ f.subject = subject} IN
    [count |-> Cardinality(linked),
     last |-> Max({Observed[f.page] : f \in linked}),
     strength |-> Strength(
       IF \E f \in linked : Reported[f.page] = "HIGH" THEN "HIGH" ELSE "LOW",
       Cardinality({f.page : f \in linked}))]

-----------------------------------------------------------------------------
(* createManualRecruiter.                                                  *)

CreateBegins(r, name, page, subject) ==
  /\ recruiting[r] = Idle
  /\ PageFree(r, page)
  /\ Recruits(r, [op |-> "CREATE", name |-> name, page |-> page, subject |-> subject])
  /\ UNCHANGED directory

(* The profile of the name, to be updated, or else a new one.  With two of *)
(* the name the request fails.                                             *)
FindProfile(r, p) ==
  /\ recruiting[r].op = "CREATE"
  /\ LET named == {q \in Profiles : profile[q] = recruiting[r].name}
         print == [profile |-> p, page |-> recruiting[r].page, subject |-> recruiting[r].subject]
     IN /\ IF named = {} THEN profile[p] = Null ELSE named = {p}
        /\ ProfileFree(r, p)
        /\ Recruits(r, [op |-> "COLLECT", print |-> print, name |-> recruiting[r].name,
                        existing |-> named # {}])
  /\ UNCHANGED directory

-----------------------------------------------------------------------------
(* addManualRecruiterEvidence.                                             *)

AddEvidenceBegins(r, p, page, subject) ==
  /\ recruiting[r] = Idle
  /\ profile[p] # Null
  /\ PageFree(r, page)
  /\ Recruits(r, [op |-> "COLLECT", print |-> [profile |-> p, page |-> page, subject |-> subject],
                  name |-> Null, existing |-> TRUE])
  /\ UNCHANGED directory

-----------------------------------------------------------------------------
(* Both: insertManualEvidence, and refreshSchoolRelationship or            *)
(* refreshRoleFocus.  Evidence with the fingerprint is not stored twice.   *)
CollectEvidence(r) ==
  /\ recruiting[r].op = "COLLECT"
  /\ LET print == recruiting[r].print IN
        /\ print.subject # Null => SummaryFree(r, print.profile, print.subject)
        /\ Recruits(r, [op |-> "COMMIT", print |-> print, name |-> recruiting[r].name,
                        existing |-> recruiting[r].existing,
                        summary |-> IF print.subject = Null THEN Null
                                    ELSE Summary(testimony \cup {print}, print.profile, print.subject)])
  /\ UNCHANGED directory

(* The event, the update of the profile when it comes last, and the commit.*)
CommitRecruiter(r) ==
  /\ recruiting[r].op = "COMMIT"
  /\ LET print == recruiting[r].print
         name == recruiting[r].name
         told == IF ~recruiting[r].existing THEN {print.profile}
                 ELSE IF print \notin testimony THEN {print} ELSE {}
     IN /\ name = Null => ProfileFree(r, print.profile)
        /\ profile' = IF name = Null THEN profile ELSE [profile EXCEPT ![print.profile] = name]
        /\ testimony' = testimony \cup {print}
        /\ focused' = IF print.subject = Null THEN focused
                      ELSE [focused EXCEPT ![<<print.profile, print.subject>>] = recruiting[r].summary]
        /\ announced' = announced \cup told
  /\ Recruits(r, Idle)

(* A transaction that is rolled back; one of two that wait for each other  *)
(* is, as when one locks the profile first and the other the subject.      *)
AbandonRecruiting(r) ==
  /\ recruiting[r] # Idle
  /\ Recruits(r, Idle)
  /\ UNCHANGED directory

DNext ==
  \/ \E r \in Requests, name \in Names, page \in SourcePages, subject \in Subjects \cup {Null} :
       CreateBegins(r, name, page, subject)
  \/ \E r \in Requests, p \in Profiles : FindProfile(r, p)
  \/ \E r \in Requests, p \in Profiles, page \in SourcePages, subject \in Subjects \cup {Null} :
       AddEvidenceBegins(r, p, page, subject)
  \/ \E r \in Requests : CollectEvidence(r)
  \/ \E r \in Requests : CommitRecruiter(r)
  \/ \E r \in Requests : AbandonRecruiting(r)

DSpec == DInit /\ [][DNext]_dvars

-----------------------------------------------------------------------------
(* Properties.                                                             *)

(* The row of a school or role family sums up all the evidence stored for  *)
(* it, and there is one as soon as there is evidence, though several       *)
(* requests collect it at the same time from different pages               *)
(* (refreshSchoolRelationship, refreshRoleFocus).                          *)
FocusMatchesEvidence ==
  \A p \in Profiles, s \in Subjects :
    LET stored == {f \in testimony : f.profile = p /\ f.subject = s} IN
      focused[<<p, s>>] = IF stored = {} THEN Null ELSE Summary(testimony, p, s)
=============================================================================
