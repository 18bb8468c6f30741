--------------------------- MODULE BrowserCompanion ---------------------------
(***************************************************************************)
(* What the browser extension finds on a page                              *)
(* (packages/db/src/browser-companion.ts): a scan with its candidates, the *)
(* decision a selected candidate gets, and what is made of the decision.   *)
(* selectBrowserCandidate is one transaction that locks the candidate and  *)
(* its scan; the handlers that follow read the decision, call another      *)
(* component and write the link in a statement of its own.                 *)
(***************************************************************************)
EXTENDS ApiRequests, Naturals, FiniteSets

CONSTANTS
  Scans,       \* snapshot fingerprints
  Candidates,  \* candidate fingerprints, each in one scan
  Contents,    \* hashes of url, title, description and location
  ScanOf,      \* the scan of each candidate
  ContentOf,   \* the content of each candidate; all have one job url
  ChoiceKeys   \* idempotency keys of the client

ASSUME CompanionAssumption ==
  /\ ScanOf \in [Candidates -> Scans]
  /\ ContentOf \in [Candidates -> Contents]
  /\ Null \notin Scans \cup Candidates \cup Contents \cup ChoiceKeys

VARIABLES
  scanned,    \* public.browser_scan_sessions with their page_job_candidates
  selected,   \* browser_scan_sessions.selected_count
  decision,   \* public.browser_ingest_decisions by candidate
  posting,    \* public.jobs of the url that came from candidates, by content
  allowed,    \* an enabled source with a permitting policy serves the url
  companion   \* the request running a handler of browser-companion.ts

bvars == <<scanned, selected, decision, posting, allowed, companion>>

ResultCode == {"EXACT_EXISTING_POSTING", "NEW_SOURCE_POSTING", "SOURCE_POLICY_NOT_ALLOWED"}

Finding == [result : ResultCode, posting : Contents \cup {Null}]

DecisionRow == [key : ChoiceKeys, found : Finding, linked : BOOLEAN]

(* No row is SQL null.                                                      *)
ASSUME CompanionRowAssumption == Null \notin DecisionRow

CompanionHandler == {Idle}
  \cup [op : {"SELECT", "LOOKUP"}, candidate : Candidates, key : ChoiceKeys]
  \cup [op : {"INGEST"}, candidate : Candidates, key : ChoiceKeys, found : Finding]
  \cup [op : {"RESOLVED", "LINK"}, candidate : Candidates]

CompanionTypeOK ==
  /\ scanned \subseteq Scans
  /\ selected \in [Scans -> Nat]
  /\ decision \in [Candidates -> DecisionRow \cup {Null}]
  /\ posting \subseteq Contents
  /\ allowed \in BOOLEAN
  /\ companion \in [Requests -> CompanionHandler]

BInit ==
  /\ scanned = {}
  /\ selected = [s \in Scans |-> 0]
  /\ decision = [c \in Candidates |-> Null]
  /\ posting = {}
  /\ allowed \in BOOLEAN
  /\ companion = [r \in Requests |-> Idle]

Browsing(r, call) == companion' = [companion EXCEPT ![r] = call]

-----------------------------------------------------------------------------
(* uploadBrowserScan: a page that was scanned before keeps its rows.        *)

UploadScan(s) ==
  /\ scanned' = scanned \cup {s}
  /\ UNCHANGED <<selected, decision, posting, allowed, companion>>

(* Sources are enabled, and their policies change.                          *)
SetSource(permits) ==
  /\ allowed' = permits
  /\ UNCHANGED <<scanned, selected, decision, posting, companion>>

-----------------------------------------------------------------------------
(* selectBrowserCandidate.                                                 *)

SelectStages == {"SELECT", "LOOKUP", "INGEST"}

(* The locks on the candidate and its scan, and the key in the unique index *)
(* once the decision is inserted: both until the transaction ends.          *)
ScanFree(s) ==
  \A r \in Requests :
    companion[r].op \in SelectStages => ScanOf[companion[r].candidate] # s

KeyInserted(key) ==
  \E r \in Requests : companion[r].op \in {"LOOKUP", "INGEST"} /\ companion[r].key = key

(* A candidate that has a decision gets it again.                           *)
SelectBegins(r, c, key) ==
  /\ companion[r] = Idle
  /\ ScanOf[c] \in scanned
  /\ ScanFree(ScanOf[c])
  /\ decision[c] = Null
  /\ Browsing(r, [op |-> "SELECT", candidate |-> c, key |-> key])
  /\ UNCHANGED <<scanned, selected, decision, posting, allowed>>

KeyIgnored(key) == FALSE
ChoiceKeyUsed(key) == \E c \in Candidates : decision[c] # Null /\ decision[c].key = key

(* The insert; a key that another candidate used answers with that one's    *)
(* decision and ends here.                                                  *)
InsertDecision(r) ==
  /\ companion[r].op = "SELECT"
  /\ ~KeyInserted(companion[r].key)
  /\ Browsing(r, IF ChoiceKeyUsed(companion[r].key) THEN Idle ELSE [companion[r] EXCEPT !.op = "LOOKUP"])
  /\ UNCHANGED <<scanned, selected, decision, posting, allowed>>

(* What becomes of the candidate: a posting of its url that is there, of    *)
(* whatever content; no permitted source; or its own posting.               *)
Findings(content) ==
  IF posting # {} THEN [result : {"EXACT_EXISTING_POSTING"}, posting : posting]
  ELSE IF allowed THEN [result : {"NEW_SOURCE_POSTING"}, posting : {content}]
  ELSE [result : {"SOURCE_POLICY_NOT_ALLOWED"}, posting : {Null}]

LookUp(r, found) ==
  /\ companion[r].op = "LOOKUP"
  /\ found \in Findings(ContentOf[companion[r].candidate])
  /\ Browsing(r, [op |-> "INGEST", candidate |-> companion[r].candidate,
                  key |-> companion[r].key, found |-> found])
  /\ UNCHANGED <<scanned, selected, decision, posting, allowed>>

(* The commit; a posting of the same content that came in between is taken. *)
Ingest(r) ==
  /\ companion[r].op = "INGEST"
  /\ LET c == companion[r].candidate
         found == companion[r].found
     IN /\ decision' = [decision EXCEPT ![c] =
             [key |-> companion[r].key, found |-> found, linked |-> FALSE]]
        /\ posting' = posting \cup ({found.posting} \ {Null})
        /\ selected' = [selected EXCEPT ![ScanOf[c]] = @ + 1]
  /\ Browsing(r, Idle)
  /\ UNCHANGED <<scanned, allowed>>

-----------------------------------------------------------------------------
(* addBrowserDecisionToApplication, ...ToPlan and ...ToMatch.              *)

(* resolvedDecision *)
AddBegins(r, c) ==
  /\ companion[r] = Idle
  /\ decision[c] # Null
  /\ decision[c].found.posting # Null
  /\ Browsing(r, [op |-> "RESOLVED", candidate |-> c])
  /\ UNCHANGED <<scanned, selected, decision, posting, allowed>>

(* The other component made the record; the link follows.                   *)
MakeRecord(r) ==
  /\ companion[r].op = "RESOLVED"
  /\ Browsing(r, [companion[r] EXCEPT !.op = "LINK"])
  /\ UNCHANGED <<scanned, selected, decision, posting, allowed>>

LinkRecord(r) ==
  /\ companion[r].op = "LINK"
  /\ decision' = [decision EXCEPT ![companion[r].candidate].linked = TRUE]
  /\ Browsing(r, Idle)
  /\ UNCHANGED <<scanned, selected, posting, allowed>>

AbandonCompanion(r) ==
  /\ companion[r] # Idle
  /\ Browsing(r, Idle)
  /\ UNCHANGED <<scanned, selected, decision, posting, allowed>>

BNext ==
  \/ \E s \in Scans : UploadScan(s)
  \/ \E permits \in BOOLEAN : SetSource(permits)
  \/ \E r \in Requests, c \in Candidates, key \in ChoiceKeys : SelectBegins(r, c, key)
  \/ \E r \in Requests : InsertDecision(r)
  \/ \E r \in Requests, found \in Finding : LookUp(r, found)
  \/ \E r \in Requests : Ingest(r)
  \/ \E r \in Requests, c \in Candidates : AddBegins(r, c)
  \/ \E r \in Requests : MakeRecord(r)
  \/ \E r \in Requests : LinkRecord(r)
  \/ \E r \in Requests : AbandonCompanion(r)

BSpec == BInit /\ [][BNext]_bvars

-----------------------------------------------------------------------------
(* Properties.                                                             *)

(* A selection counts once: a scan's selected_count is the number of its    *)
(* candidates with a decision, and no key stands for two of them, however   *)
(* selections are repeated and keys are used again (selectBrowserCandidate).*)
SelectedOnce ==
  /\ \A s \in Scans :
       selected[s] = Cardinality({c \in Candidates : ScanOf[c] = s /\ decision[c] # Null})
  /\ \A c, d \in Candidates :
       decision[c] # Null /\ decision[d] # Null /\ decision[c].key = decision[d].key => c = d
=============================================================================
