---------------------------- MODULE ResumeMatching ----------------------------
(***************************************************************************)
(* A user's resumes (packages/db/src/resume.ts): documents and their       *)
(* parsed versions, the evidence extracted from a version with the user's  *)
(* review of it, the requirement sets of an opportunity, the matches       *)
(* computed from all of these, and the binding of a match to an            *)
(* application (bindApplicationMatch in applications.ts).                  *)
(*                                                                         *)
(* One skill stands for all: a piece of evidence says the skill or it does *)
(* not, and what an opportunity's postings require at the moment is read   *)
(* as either the skill or nothing.  Row ids are never used twice; the row  *)
(* of an id is Null before it is inserted and Gone after it is deleted.    *)
(***************************************************************************)
EXTENDS ApiRequests, Naturals, FiniteSets, SequencesExt

CONSTANTS
  Documents,      \* stored files, one per content hash
  Versions,       \* ids of resume_versions
  Evidence,       \* ids of candidate_evidence
  Opportunities,
  Matches,        \* ids of resume_job_matches
  Applicants,     \* applications a match can be bound to
  TargetOf,       \* the opportunity each of them is for
  Gone            \* the row of a deleted id

ASSUME ResumeAssumption ==
  /\ TargetOf \in [Applicants -> Opportunities]
  /\ Null # Gone

ASSUME ResumeIdAssumption == IsFiniteSet(Versions) /\ IsFiniteSet(Evidence)

VARIABLES
  document,     \* public.resume_documents
  version,      \* public.resume_versions
  evidence,     \* public.candidate_evidence
  requirement,  \* public.job_requirement_sets, per opportunity in version order
  match,        \* public.resume_job_matches, with its match_evidence
  bound,        \* resume_version_id and match_id of public.applications
  resuming      \* the request running a handler of resume.ts

rvars == <<document, version, evidence, requirement, match, bound, resuming>>

Review == {"EXTRACTED", "CONFIRMED", "REJECTED", "SUPERSEDED"}

Inputs == {"SKILL", "NOTHING"}

VersionRow == [doc : Documents, number : 1..Cardinality(Versions)]

EvidenceRow ==
  [version : Versions, skill : BOOLEAN, status : Review, review : 0..2,
   revision : 1..Cardinality(Evidence), parent : Evidence \cup {Null}, superseded : BOOLEAN]

(* What a match was computed from: the fingerprint of the evidence read. *)
Basis == SUBSET (Evidence \X (0..2))

MatchRow ==
  [version : Versions, opp : Opportunities, set : 1..2, basis : Basis, cites : Evidence \cup {Null}]

ASSUME ResumeRowAssumption == {Null, Gone} \cap (VersionRow \cup EvidenceRow \cup MatchRow) = {}

ResumeHandler == {Idle}
  \cup [op : {"MATCH"}, input : Inputs, match : MatchRow]
  \cup [op : {"BIND"}, app : Applicants, version : Versions, match : Matches]

ResumeTypeOK ==
  /\ document \in [Documents -> {"ABSENT", "READY", "DELETED"}]
  /\ version \in [Versions -> VersionRow \cup {Null, Gone}]
  /\ evidence \in [Evidence -> EvidenceRow \cup {Null, Gone}]
  /\ \A o \in Opportunities : requirement[o] \in Seq(Inputs) /\ IsInjective(requirement[o])
  /\ match \in [Matches -> MatchRow \cup {Null, Gone}]
  /\ bound \in [Applicants -> [version : Versions, match : Matches] \cup {Null}]
  /\ resuming \in [Requests -> ResumeHandler]

Stored(table) == {id \in DOMAIN table : table[id] \notin {Null, Gone}}

Fresh(table, id) == table[id] = Null

RInit ==
  /\ document = [d \in Documents |-> "ABSENT"]
  /\ version = [v \in Versions |-> Null]
  /\ evidence = [e \in Evidence |-> Null]
  /\ requirement = [o \in Opportunities |-> <<>>]
  /\ match = [m \in Matches |-> Null]
  /\ bound = [a \in Applicants |-> Null]
  /\ resuming = [r \in Requests |-> Idle]

-----------------------------------------------------------------------------
(* Documents, versions and evidence.  Each handler is one transaction that *)
(* locks the row it decides on, so it is one step.                         *)

(* createResumeDocument: the same content is stored once, and stored again *)
(* after it was deleted.                                                   *)
Upload(d) ==
  /\ document' = [document EXCEPT ![d] = "READY"]
  /\ UNCHANGED <<version, evidence, requirement, match, bound, resuming>>

VersionsOf(d) == {v \in Stored(version) : version[v].doc = d}

LastNumber(d) == Max({0} \cup {version[v].number : v \in VersionsOf(d)})
NextNumber(d) == 1 + LastNumber(d)

DeletedToo(d) == document[d] # "ABSENT"
Readable(d) == document[d] = "READY"

(* createResumeVersion: the next number under the lock of the document, and *)
(* one row of evidence if the text names the skill.                         *)
CreateVersion(d, v, e) ==
  /\ Readable(d)
  /\ Fresh(version, v)
  /\ version' = [version EXCEPT ![v] = [doc |-> d, number |-> NextNumber(d)]]
  /\ \/ UNCHANGED evidence
     \/ /\ Fresh(evidence, e)
        /\ evidence' = [evidence EXCEPT ![e] =
             [version |-> v, skill |-> TRUE, status |-> "EXTRACTED", review |-> 0,
              revision |-> 1, parent |-> Null, superseded |-> FALSE]]
  /\ UNCHANGED <<document, requirement, match, bound, resuming>>

(* reviewResumeEvidence, with or without the review version the client saw. *)
ReviewEvidence(e, disposition) ==
  /\ e \in Stored(evidence)
  /\ evidence[e].status = "EXTRACTED"
  /\ evidence' = [evidence EXCEPT ![e].status = disposition, ![e].review = @ + 1]
  /\ UNCHANGED <<document, version, requirement, match, bound, resuming>>

Correctable(e) == e \in Stored(evidence) /\ ~evidence[e].superseded

Group(e) == IF evidence[e].parent = Null THEN e ELSE evidence[e].parent

(* The revisions counted for a correction: those of the row itself and of  *)
(* its own corrections, not of the rows it corrects.                       *)
Revisions(e) == {evidence[f].revision : f \in {g \in Stored(evidence) : Group(g) = e}}

NextRevision(e) == 1 + Max({0} \cup Revisions(e))

(* correctResumeEvidence: a row is replaced by the user's, confirmed at     *)
(* once; the replacement may be corrected in turn.                          *)
CorrectEvidence(e, f, skill) ==
  /\ Correctable(e)
  /\ Fresh(evidence, f)
  /\ evidence' = [evidence EXCEPT
       ![f] = [version |-> evidence[e].version, skill |-> skill, status |-> "CONFIRMED",
               review |-> 0, revision |-> NextRevision(e), parent |-> e, superseded |-> FALSE],
       ![e].status = "SUPERSEDED",
       ![e].review = @ + 1,
       ![e].superseded = TRUE]
  /\ UNCHANGED <<document, version, requirement, match, bound, resuming>>

EvidenceOf(v) == {e \in Stored(evidence) : evidence[e].version = v}
MatchesOf(v) == {m \in Stored(match) : match[m].version = v}

(* The owner-compound foreign keys of applications and match_evidence set   *)
(* user_id to null too when what they reference is deleted, and user_id is  *)
(* not null: while such a reference stands, the delete is refused.          *)
Pinned(v) ==
  \/ \E a \in Applicants : bound[a] # Null /\ bound[a].version = v
  \/ \E m \in MatchesOf(v) : match[m].cites # Null

Removed(table, ids) == [id \in DOMAIN table |-> IF id \in ids THEN Gone ELSE table[id]]

(* deleteResumeDocument, once, or again on a document already deleted.      *)
DeleteDocument(d) ==
  /\ document[d] # "ABSENT"
  /\ \A v \in VersionsOf(d) : ~Pinned(v)
  /\ document' = [document EXCEPT ![d] = "DELETED"]
  /\ version' = Removed(version, VersionsOf(d))
  /\ evidence' = Removed(evidence, UNION {EvidenceOf(v) : v \in VersionsOf(d)})
  /\ match' = Removed(match, UNION {MatchesOf(v) : v \in VersionsOf(d)})
  /\ UNCHANGED <<requirement, bound, resuming>>

-----------------------------------------------------------------------------
(* Matches.                                                                *)

(* materializeRequirementSetWith holds an advisory lock on the opportunity  *)
(* until its transaction ends.                                              *)
Locked(o) == \E r \in Requests : resuming[r] # Idle /\ resuming[r].op = "MATCH"
                                                    /\ resuming[r].match.opp = o

WithSet(o, input) ==
  IF input \in Range(requirement[o]) THEN requirement[o] ELSE Append(requirement[o], input)

SetOf(o, input) == CHOOSE i \in DOMAIN WithSet(o, input) : WithSet(o, input)[i] = input

Usable(v) ==
  {e \in EvidenceOf(v) : ~evidence[e].superseded /\ evidence[e].status # "REJECTED"}

(* materializeRequirementSet on its own.                                    *)
MaterializeRequirements(o, input) ==
  /\ ~Locked(o)
  /\ requirement' = [requirement EXCEPT ![o] = WithSet(o, input)]
  /\ UNCHANGED <<document, version, evidence, match, bound, resuming>>

(* materializeResumeJobMatch, up to its reads.  The lock keeps the set it   *)
(* settled on the right one until it commits.                               *)
MatchRead(r, v, o, input) ==
  /\ resuming[r] = Idle
  /\ v \in Stored(version)
  /\ ~Locked(o)
  /\ \E cites \in {e \in Usable(v) : evidence[e].skill} \cup {Null} :
       /\ (cites = Null) = (input = "NOTHING" \/ \A e \in Usable(v) : ~evidence[e].skill)
       /\ resuming' = [resuming EXCEPT ![r] =
            [op |-> "MATCH", input |-> input,
             match |-> [version |-> v, opp |-> o, set |-> SetOf(o, input), cites |-> cites,
                        basis |-> {<<e, evidence[e].review>> : e \in Usable(v)}]]]
  /\ UNCHANGED <<document, version, evidence, requirement, match, bound>>

SameInput(m, row) == [match[m] EXCEPT !.cites = Null] = [row EXCEPT !.cites = Null]

(* Its insert: the foreign keys need the version still to be there, and a   *)
(* match of the same inputs is returned instead of a new one.               *)
MatchCommit(r, m) ==
  /\ resuming[r] # Idle /\ resuming[r].op = "MATCH"
  /\ LET row == resuming[r].match IN
       /\ row.version \in Stored(version)
       /\ requirement' = [requirement EXCEPT ![row.opp] = WithSet(row.opp, resuming[r].input)]
       /\ IF \E n \in Stored(match) : SameInput(n, row)
          THEN UNCHANGED match
          ELSE /\ Fresh(match, m)
               /\ match' = [match EXCEPT ![m] = row]
  /\ resuming' = [resuming EXCEPT ![r] = Idle]
  /\ UNCHANGED <<document, version, evidence, bound>>

Unbound(a, v, m) == bound[a] \in {Null, [version |-> v, match |-> m]}

BindMatches(a, v, m) ==
  m \in Stored(match) /\ match[m].version = v /\ match[m].opp = TargetOf[a]

(* bindApplicationMatch, up to its reads: no row is locked.                 *)
BindRead(r, a, m) ==
  /\ resuming[r] = Idle
  /\ m \in Stored(match)
  /\ Unbound(a, match[m].version, m)
  /\ BindMatches(a, match[m].version, m)
  /\ resuming' = [resuming EXCEPT ![r] =
       [op |-> "BIND", app |-> a, version |-> match[m].version, match |-> m]]
  /\ UNCHANGED <<document, version, evidence, requirement, match, bound>>

(* Its update: the foreign keys need the match still to be there.           *)
BindCommit(r) ==
  /\ resuming[r] # Idle /\ resuming[r].op = "BIND"
  /\ resuming[r].match \in Stored(match)
  /\ bound' = [bound EXCEPT ![resuming[r].app] =
       [version |-> resuming[r].version, match |-> resuming[r].match]]
  /\ resuming' = [resuming EXCEPT ![r] = Idle]
  /\ UNCHANGED <<document, version, evidence, requirement, match>>

(* A request that ends early, by an error, a refused insert or a crash: its *)
(* transaction is rolled back.                                              *)
AbandonResume(r) ==
  /\ resuming[r] # Idle
  /\ resuming' = [resuming EXCEPT ![r] = Idle]
  /\ UNCHANGED <<document, version, evidence, requirement, match, bound>>

RNext ==
  \/ \E d \in Documents : Upload(d) \/ DeleteDocument(d)
  \/ \E d \in Documents, v \in Versions, e \in Evidence : CreateVersion(d, v, e)
  \/ \E e \in Evidence, disposition \in {"CONFIRMED", "REJECTED"} : ReviewEvidence(e, disposition)
  \/ \E e, f \in Evidence, skill \in BOOLEAN : CorrectEvidence(e, f, skill)
  \/ \E o \in Opportunities, input \in Inputs : MaterializeRequirements(o, input)
  \/ \E r \in Requests, v \in Versions, o \in Opportunities, input \in Inputs :
       MatchRead(r, v, o, input)
  \/ \E r \in Requests, m \in Matches : MatchCommit(r, m)
  \/ \E r \in Requests, a \in Applicants, m \in Matches : BindRead(r, a, m)
  \/ \E r \in Requests : BindCommit(r) \/ AbandonResume(r)

RSpec == RInit /\ [][RNext]_rvars

-----------------------------------------------------------------------------
(* Properties.                                                             *)

(* Deleting a resume leaves nothing derived from it: a deleted document has *)
(* no versions, and no evidence, match, citation or binding refers to a row *)
(* that is gone, whatever was being computed meanwhile (deleteResumeDocument *)
(* against createResumeVersion, materializeResumeJobMatch and               *)
(* bindApplicationMatch).                                                   *)
NothingOutlivesItsDocument ==
  /\ \A d \in Documents : document[d] = "DELETED" => VersionsOf(d) = {}
  /\ \A e \in Stored(evidence) : evidence[e].version \in Stored(version)
  /\ \A m \in Stored(match) :
       /\ match[m].version \in Stored(version)
       /\ match[m].cites \in Stored(evidence) \cup {Null}
  /\ \A a \in Applicants : bound[a] # Null =>
       BindMatches(a, bound[a].version, bound[a].match)

(* A stored resume can be deleted at any time.                              *)
StoredResumesCanBeDeleted ==
  \A v \in Stored(version) : ~Pinned(v)
=============================================================================
