--------------------------- MODULE ClientRequestProofs ---------------------------
(***************************************************************************)
(* Machine-checked proofs about what clients of the API ask for more than  *)
(* once or at the same time: the recording of a message that was sent      *)
(* (Outreach), the selection of a candidate found on a page                *)
(* (BrowserCompanion), the status of an application (ApplicationTracking), *)
(* preferences and dismissals (Recommendations), corrections of the        *)
(* opportunity graph (OpportunityGraph), the scores of recommendations     *)
(* (RecommendationScoring), the pages of the list of opportunities         *)
(* (OpportunityListing), and watches and alerts (Watchlists).              *)
(***************************************************************************)
EXTENDS Outreach, BrowserCompanion, ApplicationTracking, Recommendations, OpportunityGraph,
        RecommendationScoring, OpportunityListing, Watchlists, FiniteFacts, FunctionTheorems,
        SequenceTheorems

-----------------------------------------------------------------------------
(* Outreach.                                                               *)

(* The key k records that draft d was sent. *)
Records(k, d) == attempt[k] # Null /\ attempt[k].draft = d

(* The foreign key of a draft: its contact, whose address is not null.      *)
DraftsAddressed == \A d \in Drafts : draft[d] # Null => contact[draft[d].contact] # Null

(* What makes a draft eligible is the user's approval of its very version.  *)
EligibleConsented ==
  \A d \in Drafts : draft[d] # Null /\ draft[d].status = "SEND_ELIGIBLE" =>
    draft[d].approved = draft[d].version /\ <<d, draft[d].version>> \in consented

DraftSent(d) == draft[d] # Null /\ draft[d].status = "SENT"

(* What is recorded is what was approved, under one key; OneSendPerApproval *)
(* without its cardinality.                                                 *)
RecordedAsApproved ==
  \A d \in Drafts, k \in SendKeys : Records(k, d) =>
    DraftSent(d) /\ attempt[k].version = draft[d].version /\ <<d, draft[d].version>> \in consented

RecordedOnce ==
  \A d \in Drafts : \A j, k \in SendKeys : Records(j, d) /\ Records(k, d) => j = k

SentIsRecorded == \A d \in Drafts : DraftSent(d) => \E k \in SendKeys : Records(k, d)

Sending ==
  /\ OutreachTypeOK /\ DraftsAddressed /\ EligibleConsented
  /\ RecordedAsApproved /\ RecordedOnce /\ SentIsRecorded

LEMMA InitSending == OutInit => Sending
  BY OutreachAssumption DEF OutInit, Sending, OutreachTypeOK, DraftsAddressed, EligibleConsented,
     RecordedAsApproved, RecordedOnce, SentIsRecorded, Records, DraftSent, OutreachHandler

(* A step that records nothing and neither sends nor takes back a draft.    *)
LEMMA UnsentSending ==
  ASSUME Sending, UNCHANGED attempt, consented \subseteq consented',
         \A d \in Drafts : DraftSent(d)' <=> DraftSent(d),
         \A d \in Drafts : DraftSent(d) => draft'[d].version = draft[d].version
  PROVE  RecordedAsApproved' /\ RecordedOnce' /\ SentIsRecorded'
  <1>1. \A d \in Drafts, k \in SendKeys : Records(k, d)' <=> Records(k, d)
    BY DEF Records
  <1>2. QED
    BY <1>1 DEF Sending, RecordedAsApproved, RecordedOnce, SentIsRecorded

LEMMA ContactSending ==
  ASSUME Sending, NEW c \in Contacts, NEW email \in Emails,
         CreateContact(c, email) \/ UpdateContact(c, email)
  PROVE  Sending'
  <1>1. OutreachTypeOK' /\ DraftsAddressed'
    BY OutreachAssumption DEF Sending, OutreachTypeOK, DraftsAddressed, CreateContact,
       UpdateContact, DraftRow
  <1>2. EligibleConsented'
    BY DEF Sending, EligibleConsented, CreateContact, UpdateContact
  <1>3. RecordedAsApproved' /\ RecordedOnce' /\ SentIsRecorded'
    BY UnsentSending DEF DraftSent, CreateContact, UpdateContact
  <1>4. QED
    BY <1>1, <1>2, <1>3 DEF Sending

LEMMA DeleteContactSending ==
  ASSUME Sending, NEW c \in Contacts, DeleteContact(c)
  PROVE  Sending'
  <1> DEFINE Written(d) == draft[d] # Null /\ draft[d].contact = c
  <1>1. /\ contact' = [contact EXCEPT ![c] = Null]
        /\ \A d \in Drafts : draft'[d] = IF Written(d) THEN Null ELSE draft[d]
        /\ \A k \in SendKeys :
             attempt'[k] = IF \E d \in Drafts : Written(d) /\ Records(k, d) THEN Null ELSE attempt[k]
        /\ \A v \in consented : v \in consented' <=> ~(v[1] \in Drafts /\ Written(v[1]))
        /\ consented' \subseteq consented
    BY DEF DeleteContact, Records
  <1>2. OutreachTypeOK'
    BY OutreachAssumption DEF Sending, OutreachTypeOK, DeleteContact
  <1>3. DraftsAddressed'
    BY <1>1 DEF Sending, OutreachTypeOK, DraftsAddressed, DraftRow
  <1>4. EligibleConsented'
    BY <1>1 DEF Sending, EligibleConsented
  <1>5. \A d \in Drafts, k \in SendKeys : Records(k, d)' <=> Records(k, d) /\ ~Written(d)
    BY <1>1 DEF Records
  <1>6. \A d \in Drafts : /\ DraftSent(d)' <=> DraftSent(d) /\ ~Written(d)
                          /\ DraftSent(d)' => draft'[d] = draft[d]
    BY <1>1 DEF DraftSent
  <1>7. \A d \in Drafts, k \in SendKeys : Records(k, d)' => attempt'[k] = attempt[k]
    BY <1>1 DEF Records
  <1>8. RecordedAsApproved' /\ RecordedOnce' /\ SentIsRecorded'
    BY <1>1, <1>5, <1>6, <1>7 DEF Sending, RecordedAsApproved, RecordedOnce, SentIsRecorded
  <1>9. QED
    BY <1>2, <1>3, <1>4, <1>8 DEF Sending

LEMMA CreateDraftSending ==
  ASSUME Sending, NEW r \in Requests, NEW d \in Drafts, CreateDraft(r, d)
  PROVE  Sending'
  <1>1. outreach[r].contact \in Contacts /\ draft[d] = Null
    BY DEF Sending, OutreachTypeOK, OutreachHandler, CreateDraft, Idle
  <1>2. OutreachTypeOK' /\ DraftsAddressed'
    BY <1>1, OutreachAssumption DEF Sending, OutreachTypeOK, DraftsAddressed, CreateDraft, Writing,
       OutreachHandler, DraftRow, DraftStatus
  <1>3. \A e \in Drafts \ {d} : draft'[e] = draft[e]
    BY DEF Sending, OutreachTypeOK, CreateDraft
  <1>4. draft'[d] # Null => draft'[d].status = "DRAFT"
    BY <1>1 DEF Sending, OutreachTypeOK, CreateDraft
  <1>5. EligibleConsented'
    BY <1>3, <1>4 DEF Sending, EligibleConsented, CreateDraft
  <1>6. \A e \in Drafts : /\ DraftSent(e)' <=> DraftSent(e)
                          /\ DraftSent(e) => draft'[e].version = draft[e].version
    BY <1>1, <1>3, <1>4 DEF DraftSent
  <1>7. RecordedAsApproved' /\ RecordedOnce' /\ SentIsRecorded'
    BY <1>6, UnsentSending DEF CreateDraft
  <1>8. QED
    BY <1>2, <1>5, <1>7 DEF Sending

(* What an edit and an approval make of a draft. *)
Edited(row, version) == [row EXCEPT !.status = "DRAFT", !.approved = 0, !.version = version]

MadeEligible(row, version) == [row EXCEPT !.status = "SEND_ELIGIBLE", !.approved = version]

LEMMA EditedDraft ==
  ASSUME NEW row \in DraftRow, NEW v \in 1..MaxDraftVersion
  PROVE  /\ Edited(row, v) \in DraftRow
         /\ Edited(row, v).contact = row.contact
         /\ Edited(row, v).status = "DRAFT"
  <1>1. "DRAFT" \in DraftStatus /\ 0 \in 0..MaxDraftVersion
    BY OutreachAssumption DEF DraftStatus
  <1>2. QED
    BY <1>1 DEF DraftRow, Edited

LEMMA ApprovedDraft ==
  ASSUME NEW row \in DraftRow, NEW v \in 1..MaxDraftVersion
  PROVE  /\ MadeEligible(row, v) \in DraftRow
         /\ MadeEligible(row, v).contact = row.contact
         /\ MadeEligible(row, v).version = row.version
         /\ MadeEligible(row, v).status = "SEND_ELIGIBLE"
         /\ MadeEligible(row, v).approved = v
  <1>1. "SEND_ELIGIBLE" \in DraftStatus /\ v \in 0..MaxDraftVersion
    BY OutreachAssumption DEF DraftStatus
  <1>2. QED
    BY <1>1 DEF DraftRow, MadeEligible

LEMMA UpdateDraftSending ==
  ASSUME Sending, NEW d \in Drafts, NEW version \in 1..MaxDraftVersion, UpdateDraft(d, version)
  PROVE  Sending'
  <1>1. draft[d] \in DraftRow /\ ~DraftSent(d)
    BY DEF Sending, OutreachTypeOK, UpdateDraft, DraftSent
  <1>2. /\ draft'[d] \in DraftRow /\ draft'[d].contact = draft[d].contact
        /\ draft'[d].status = "DRAFT"
        /\ \A e \in Drafts \ {d} : draft'[e] = draft[e]
        /\ draft' \in [Drafts -> DraftRow \cup {Null}]
    <2>1. /\ version + 1 \in 1..MaxDraftVersion
          /\ draft'[d] = Edited(draft[d], version + 1)
          /\ \A e \in Drafts \ {d} : draft'[e] = draft[e]
      BY OutreachAssumption DEF Sending, OutreachTypeOK, UpdateDraft, Edited
    <2>2. draft'[d] \in DraftRow /\ draft'[d].contact = draft[d].contact /\ draft'[d].status = "DRAFT"
      BY <1>1, <2>1, EditedDraft
    <2>3. QED
      BY <2>1, <2>2 DEF Sending, OutreachTypeOK, UpdateDraft
  <1>3. OutreachTypeOK' /\ DraftsAddressed'
    BY <1>1, <1>2, OutreachRowAssumption DEF Sending, OutreachTypeOK, DraftsAddressed, UpdateDraft
  <1>4. EligibleConsented'
    BY <1>2 DEF Sending, EligibleConsented, UpdateDraft
  <1>5. \A e \in Drafts : /\ DraftSent(e)' <=> DraftSent(e)
                          /\ DraftSent(e) => draft'[e].version = draft[e].version
    BY <1>1, <1>2 DEF DraftSent
  <1>6. RecordedAsApproved' /\ RecordedOnce' /\ SentIsRecorded'
    BY <1>5, UnsentSending DEF UpdateDraft
  <1>7. QED
    BY <1>3, <1>4, <1>6 DEF Sending

LEMMA ApproveDraftSending ==
  ASSUME Sending, NEW d \in Drafts, NEW version \in 1..MaxDraftVersion, ApproveDraft(d, version)
  PROVE  Sending'
  <1>1. draft[d] \in DraftRow /\ ~DraftSent(d) /\ draft[d].version = version
    BY DEF Sending, OutreachTypeOK, ApproveDraft, DraftSent
  <1>2. /\ draft'[d] \in DraftRow /\ draft'[d].contact = draft[d].contact
        /\ draft'[d].status = "SEND_ELIGIBLE" /\ draft'[d].version = version
        /\ draft'[d].approved = version
        /\ \A e \in Drafts \ {d} : draft'[e] = draft[e]
        /\ draft' \in [Drafts -> DraftRow \cup {Null}]
    <2>1. /\ draft'[d] = MadeEligible(draft[d], version)
          /\ \A e \in Drafts \ {d} : draft'[e] = draft[e]
      BY DEF Sending, OutreachTypeOK, ApproveDraft, MadeEligible
    <2>2. /\ draft'[d] \in DraftRow /\ draft'[d].contact = draft[d].contact
          /\ draft'[d].status = "SEND_ELIGIBLE" /\ draft'[d].version = version
          /\ draft'[d].approved = version
      BY <1>1, <2>1, ApprovedDraft
    <2>3. QED
      BY <2>1, <2>2 DEF Sending, OutreachTypeOK, ApproveDraft
  <1>3. OutreachTypeOK' /\ DraftsAddressed'
    BY <1>1, <1>2, OutreachRowAssumption DEF Sending, OutreachTypeOK, DraftsAddressed, ApproveDraft
  <1>4. EligibleConsented'
    BY <1>1, <1>2 DEF Sending, EligibleConsented, ApproveDraft
  <1>5. \A e \in Drafts : /\ DraftSent(e)' <=> DraftSent(e)
                          /\ DraftSent(e) => draft'[e].version = draft[e].version
    BY <1>1, <1>2 DEF DraftSent
  <1>6. RecordedAsApproved' /\ RecordedOnce' /\ SentIsRecorded'
    BY <1>5, UnsentSending DEF ApproveDraft
  <1>7. QED
    BY <1>3, <1>4, <1>6 DEF Sending

LEMMA RecordSendSending ==
  ASSUME Sending, NEW r \in Requests, RecordSend(r)
  PROVE  Sending'
  <1>1. PICK d \in Drafts, key \in SendKeys : outreach[r].draft = d /\ outreach[r].key = key
    BY DEF Sending, OutreachTypeOK, OutreachHandler, RecordSend, Idle
  <1>2. outreach' \in [Requests -> OutreachHandler]
    BY DEF Sending, OutreachTypeOK, OutreachHandler, RecordSend, Writing
  <1>3. CASE ~(Approved(d) /\ AttemptFree(d, key))
    <2>1. UNCHANGED <<contact, draft, attempt, consented>>
      BY <1>1, <1>3 DEF RecordSend
    <2>2. QED
      BY <1>2, <2>1 DEF Sending, OutreachTypeOK, DraftsAddressed, EligibleConsented,
         RecordedAsApproved, RecordedOnce, SentIsRecorded, Records, DraftSent
  <1>4. CASE Approved(d) /\ AttemptFree(d, key)
    <2>1. /\ draft[d] \in DraftRow /\ draft[d].status = "SEND_ELIGIBLE"
          /\ contact[draft[d].contact] \in Emails
          /\ <<d, draft[d].version>> \in consented
      BY <1>1, <1>4, OutreachAssumption DEF Sending, OutreachTypeOK, DraftsAddressed,
         EligibleConsented, Approved, VersionApproved, DraftRow
    <2>2. /\ attempt'[key] \in AttemptRow /\ attempt'[key].draft = d
          /\ attempt'[key].version = draft[d].version
          /\ \A k \in SendKeys \ {key} : attempt'[k] = attempt[k]
          /\ attempt' \in [SendKeys -> AttemptRow \cup {Null}]
      BY <1>1, <1>4, <2>1 DEF RecordSend, Sending, OutreachTypeOK, AttemptRow, DraftRow
    <2>3. /\ draft'[d] \in DraftRow /\ draft'[d].contact = draft[d].contact
          /\ draft'[d].version = draft[d].version /\ draft'[d].status = "SENT"
          /\ \A e \in Drafts \ {d} : draft'[e] = draft[e]
          /\ draft' \in [Drafts -> DraftRow \cup {Null}]
      BY <1>1, <1>4, <2>1 DEF RecordSend, Sending, OutreachTypeOK, DraftRow, DraftStatus
    <2>4. attempt'[key] # Null /\ draft'[d] # Null /\ draft[d] # Null
      BY <2>1, <2>2, <2>3, OutreachRowAssumption
    <2>5. OutreachTypeOK'
      BY <1>2, <2>2, <2>3 DEF Sending, OutreachTypeOK, RecordSend
    <2>6. DraftsAddressed'
      <3> SUFFICES ASSUME NEW e \in Drafts, draft'[e] # Null
                   PROVE  contact[draft'[e].contact] # Null
        BY DEF DraftsAddressed, RecordSend
      <3>1. draft[e] # Null /\ draft'[e].contact = draft[e].contact
        BY <2>3, <2>4
      <3>2. QED
        BY <3>1 DEF Sending, DraftsAddressed
    <2>7. EligibleConsented'
      BY <1>1, <2>3 DEF Sending, EligibleConsented, RecordSend
    <2>8. \A k \in SendKeys : ~Records(k, d)
      BY <1>1, <2>1 DEF Sending, RecordedAsApproved, DraftSent
    <2>9. \A e \in Drafts, k \in SendKeys :
            Records(k, e)' <=> Records(k, e) \/ (k = key /\ e = d)
      BY <1>1, <1>4, <2>2, <2>4 DEF Records, AttemptFree
    <2>10. /\ DraftSent(d)' /\ \A e \in Drafts \ {d} : DraftSent(e)' <=> DraftSent(e)
      BY <2>3, <2>4 DEF DraftSent
    <2>11. RecordedAsApproved'
      <3> SUFFICES ASSUME NEW e \in Drafts, NEW k \in SendKeys, Records(k, e)'
                   PROVE  /\ DraftSent(e)' /\ attempt'[k].version = draft'[e].version
                          /\ <<e, draft'[e].version>> \in consented
        BY DEF RecordedAsApproved, RecordSend
      <3>1. CASE e = d
        BY <2>1, <2>2, <2>3, <2>8, <2>9, <2>10, <3>1
      <3>2. CASE e # d
        <4>1. Records(k, e) /\ k # key /\ draft'[e] = draft[e] /\ attempt'[k] = attempt[k]
          BY <1>4, <2>2, <2>3, <2>9, <3>2 DEF Records, AttemptFree
        <4>2. QED
          BY <2>10, <3>2, <4>1 DEF Sending, RecordedAsApproved
      <3>3. QED
        BY <3>1, <3>2
    <2>12. RecordedOnce'
      BY <2>8, <2>9 DEF Sending, RecordedOnce
    <2>13. SentIsRecorded'
      BY <1>1, <2>9, <2>10 DEF Sending, SentIsRecorded
    <2>14. QED
      BY <2>5, <2>6, <2>7, <2>11, <2>12, <2>13 DEF Sending
  <1>5. QED
    BY <1>3, <1>4

(* What only reads, or gives up, moves a request. *)
LEMMA ReadingSending ==
  ASSUME Sending, NEW r \in Requests,
         UNCHANGED <<contact, draft, attempt, consented>>,
         \/ \E c \in Contacts : DraftBegins(r, c)
         \/ \E d \in Drafts, key \in SendKeys : SendBegins(r, d, key)
         \/ AbandonOutreach(r)
  PROVE  Sending'
  <1>1. outreach' \in [Requests -> OutreachHandler]
    BY DEF Sending, OutreachTypeOK, OutreachHandler, DraftBegins, SendBegins, AbandonOutreach, Writing
  <1>2. QED
    BY <1>1 DEF Sending, OutreachTypeOK, DraftsAddressed, EligibleConsented, RecordedAsApproved,
       RecordedOnce, SentIsRecorded, Records, DraftSent

LEMMA NextSending == Sending /\ [OutNext]_outvars => Sending'
  <1> SUFFICES ASSUME Sending, [OutNext]_outvars PROVE Sending'
    OBVIOUS
  <1>1. CASE UNCHANGED outvars
    BY <1>1 DEF outvars, Sending, OutreachTypeOK, DraftsAddressed, EligibleConsented,
       RecordedAsApproved, RecordedOnce, SentIsRecorded, Records, DraftSent
  <1>2. ASSUME NEW r \in Requests, NEW c \in Contacts, DraftBegins(r, c) PROVE Sending'
    BY <1>2, ReadingSending DEF DraftBegins
  <1>3. ASSUME NEW r \in Requests, NEW d \in Drafts, NEW key \in SendKeys, SendBegins(r, d, key)
        PROVE  Sending'
    BY <1>3, ReadingSending DEF SendBegins
  <1>4. ASSUME NEW r \in Requests, AbandonOutreach(r) PROVE Sending'
    BY <1>4, ReadingSending DEF AbandonOutreach
  <1>5. QED
    BY <1>1, <1>2, <1>3, <1>4, ContactSending, DeleteContactSending, CreateDraftSending,
       UpdateDraftSending, ApproveDraftSending, RecordSendSending DEF OutNext

LEMMA SendingAlways == OutSpec => []Sending
  BY InitSending, NextSending, PTL DEF OutSpec

(* Every reachable state of the outreach tables is well typed.              *)
THEOREM OutreachTypeCorrect == OutSpec => []OutreachTypeOK
  <1>1. Sending => OutreachTypeOK
    BY DEF Sending
  <1>2. QED
    BY <1>1, SendingAlways, PTL

(* A draft is recorded as sent under one key, in a version the user         *)
(* approved, however recordings are repeated and addresses change.          *)
THEOREM SentOnce == OutSpec => []OneSendPerApproval
  <1>1. ASSUME Sending PROVE OneSendPerApproval
    <2> SUFFICES ASSUME NEW d \in Drafts
                 PROVE  LET sends == {k \in SendKeys : attempt[k] # Null /\ attempt[k].draft = d} IN
                          IF draft[d] # Null /\ draft[d].status = "SENT"
                          THEN /\ Cardinality(sends) = 1
                               /\ \A k \in sends : /\ attempt[k].version = draft[d].version
                                                   /\ <<d, attempt[k].version>> \in consented
                          ELSE sends = {}
      BY DEF OneSendPerApproval
    <2> DEFINE sends == {k \in SendKeys : attempt[k] # Null /\ attempt[k].draft = d}
    <2>1. CASE DraftSent(d)
      <3>1. PICK k \in SendKeys : Records(k, d)
        BY <1>1, <2>1 DEF Sending, SentIsRecorded
      <3>2. sends = {k}
        BY <1>1, <3>1 DEF Records, Sending, RecordedOnce
      <3>3. Cardinality(sends) = 1
        BY <3>2, FS_Singleton
      <3>4. attempt[k].version = draft[d].version /\ <<d, draft[d].version>> \in consented
        BY <1>1, <3>1 DEF Sending, RecordedAsApproved
      <3>5. QED
        BY <2>1, <3>2, <3>3, <3>4 DEF DraftSent
    <2>2. CASE ~DraftSent(d)
      <3>1. sends = {}
        BY <1>1, <2>2 DEF Sending, RecordedAsApproved, Records
      <3>2. QED
        BY <2>2, <3>1 DEF DraftSent
    <2>3. QED
      BY <2>1, <2>2
  <1>2. QED
    BY <1>1, SendingAlways, PTL

-----------------------------------------------------------------------------
(* The browser companion.                                                  *)

Selecting(r) == companion[r].op \in SelectStages
Keeping(r) == companion[r].op \in {"LOOKUP", "INGEST"}

Decided == {c \in Candidates : decision[c] # Null}
DecidedIn(s) == {c \in Candidates : ScanOf[c] = s /\ decision[c] # Null}

(* The locks: one selection at a time in a scan, and of a candidate that    *)
(* has no decision yet.                                                     *)
OneSelectionPerScan ==
  \A q, r \in Requests :
    /\ Selecting(q) /\ Selecting(r)
    /\ ScanOf[companion[q].candidate] = ScanOf[companion[r].candidate]
    => q = r

SelectsUndecided == \A r \in Requests : Selecting(r) => decision[companion[r].candidate] = Null

(* The unique index of the keys, with the keys of open transactions.        *)
KeysApart ==
  /\ \A q, r \in Requests :
       Keeping(q) /\ Keeping(r) /\ companion[q].key = companion[r].key => q = r
  /\ \A r \in Requests : Keeping(r) => ~ChoiceKeyUsed(companion[r].key)

ResolvesDecided ==
  \A r \in Requests : companion[r].op \in {"RESOLVED", "LINK"} => decision[companion[r].candidate] # Null

Choosing ==
  /\ CompanionTypeOK /\ OneSelectionPerScan /\ SelectsUndecided /\ KeysApart
  /\ ResolvesDecided /\ IsFiniteSet(Decided) /\ SelectedOnce

LEMMA InitChoosing == BInit => Choosing
  <1> SUFFICES ASSUME BInit PROVE Choosing
    OBVIOUS
  <1>1. CompanionTypeOK
    BY DEF BInit, CompanionTypeOK, CompanionHandler
  <1>2. OneSelectionPerScan /\ SelectsUndecided /\ KeysApart /\ ResolvesDecided
    BY DEF BInit, OneSelectionPerScan, SelectsUndecided, KeysApart, ResolvesDecided, Selecting,
       Keeping, SelectStages, Idle
  <1>3. Decided = {} /\ \A s \in Scans : DecidedIn(s) = {} /\ selected[s] = 0
    BY DEF BInit, Decided, DecidedIn
  <1>4. IsFiniteSet(Decided) /\ \A s \in Scans : selected[s] = Cardinality(DecidedIn(s))
    BY <1>3, FS_EmptySet
  <1>5. SelectedOnce
    BY <1>4 DEF SelectedOnce, DecidedIn, BInit
  <1>6. QED
    BY <1>1, <1>2, <1>4, <1>5 DEF Choosing

(* Only the request r moves, to h, and holds what h says it holds.          *)
LEMMA BrowsingChoosing ==
  ASSUME Choosing, NEW r \in Requests, NEW h \in CompanionHandler, Browsing(r, h),
         UNCHANGED <<scanned, selected, decision, posting, allowed>>,
         h.op \in SelectStages =>
           \/ Selecting(r) /\ h.candidate = companion[r].candidate
           \/ ScanFree(ScanOf[h.candidate]) /\ decision[h.candidate] = Null,
         h.op \in {"LOOKUP", "INGEST"} =>
           \/ Keeping(r) /\ h.key = companion[r].key
           \/ ~KeyInserted(h.key) /\ ~ChoiceKeyUsed(h.key),
         h.op \in {"RESOLVED", "LINK"} => decision[h.candidate] # Null
  PROVE  Choosing'
  <1>1. /\ companion' \in [Requests -> CompanionHandler]
        /\ companion'[r] = h
        /\ \A q \in Requests \ {r} : companion'[q] = companion[q]
    BY DEF Browsing, Choosing, CompanionTypeOK
  <1>2. CompanionTypeOK'
    BY <1>1 DEF Choosing, CompanionTypeOK
  <1>3. OneSelectionPerScan'
    BY <1>1 DEF Choosing, OneSelectionPerScan, Selecting, ScanFree
  <1>4. SelectsUndecided'
    BY <1>1 DEF Choosing, SelectsUndecided, Selecting
  <1>5. KeysApart'
    <2>1. ASSUME NEW q \in Requests, Keeping(q)' PROVE ~ChoiceKeyUsed(companion'[q].key)
      BY <1>1, <2>1 DEF Choosing, KeysApart, Keeping
    <2>2. ASSUME NEW q \in Requests \ {r}, Keeping(q)', Keeping(r)'
          PROVE  companion'[q].key # companion'[r].key
      BY <1>1, <2>2 DEF Choosing, KeysApart, Keeping, KeyInserted
    <2>3. ASSUME NEW p \in Requests, NEW q \in Requests, Keeping(p)', Keeping(q)',
                 companion'[p].key = companion'[q].key
          PROVE  p = q
      BY <1>1, <2>2, <2>3 DEF Choosing, KeysApart, Keeping
    <2>4. \A q \in Requests : Keeping(q)' => ~ChoiceKeyUsed(companion[q].key)'
      BY <2>1 DEF ChoiceKeyUsed
    <2>5. QED
      BY <2>3, <2>4 DEF KeysApart
  <1>6. ResolvesDecided'
    BY <1>1 DEF Choosing, ResolvesDecided
  <1>7. IsFiniteSet(Decided)' /\ SelectedOnce'
    BY DEF Choosing, Decided, SelectedOnce
  <1>8. QED
    BY <1>2, <1>3, <1>4, <1>5, <1>6, <1>7 DEF Choosing

(* The commit of a selection: one more decision in its scan.                *)
LEMMA IngestChoosing ==
  ASSUME Choosing, NEW r \in Requests, Ingest(r)
  PROVE  Choosing'
  <1>1. PICK c \in Candidates, key \in ChoiceKeys, found \in Finding :
          companion[r] = [op |-> "INGEST", candidate |-> c, key |-> key, found |-> found]
    BY DEF Choosing, CompanionTypeOK, CompanionHandler, Ingest, Idle
  <1>2. PICK row \in DecisionRow : row.key = key /\ row = [key |-> key, found |-> found, linked |-> FALSE]
    BY <1>1 DEF DecisionRow
  <1>3. /\ decision' = [decision EXCEPT ![c] = row]
        /\ selected' = [selected EXCEPT ![ScanOf[c]] = @ + 1]
        /\ posting' = posting \cup ({found.posting} \ {Null})
        /\ companion' = [companion EXCEPT ![r] = Idle]
        /\ UNCHANGED <<scanned, allowed>>
    BY <1>1, <1>2 DEF Ingest, Browsing
  <1>4. /\ ScanOf[c] \in Scans /\ decision[c] = Null /\ row # Null
        /\ Selecting(r) /\ Keeping(r) /\ ~ChoiceKeyUsed(key)
    BY <1>1, CompanionAssumption, CompanionRowAssumption
    DEF Choosing, SelectsUndecided, Selecting, Keeping, KeysApart, SelectStages
  <1>5. /\ decision' \in [Candidates -> DecisionRow \cup {Null}]
        /\ decision'[c] = row /\ \A d \in Candidates \ {c} : decision'[d] = decision[d]
    BY <1>3 DEF Choosing, CompanionTypeOK
  <1>6. /\ selected' \in [Scans -> Nat]
        /\ selected'[ScanOf[c]] = selected[ScanOf[c]] + 1
        /\ \A s \in Scans \ {ScanOf[c]} : selected'[s] = selected[s]
    BY <1>3, <1>4 DEF Choosing, CompanionTypeOK
  <1>7. /\ companion' \in [Requests -> CompanionHandler] /\ companion'[r] = Idle
        /\ \A q \in Requests \ {r} : companion'[q] = companion[q]
    BY <1>3 DEF Choosing, CompanionTypeOK, CompanionHandler
  <1>8. CompanionTypeOK'
    <2>1. posting' \subseteq Contents
      BY <1>3 DEF Finding, Choosing, CompanionTypeOK
    <2>2. QED
      BY <1>3, <1>5, <1>6, <1>7, <2>1 DEF Choosing, CompanionTypeOK
  <1>9. \A q \in Requests : /\ Selecting(q)' => Selecting(q) /\ q # r
                            /\ Keeping(q)' => Keeping(q) /\ q # r
    BY <1>7 DEF Selecting, Keeping, SelectStages, Idle
  <1>10. OneSelectionPerScan'
    BY <1>7, <1>9 DEF Choosing, OneSelectionPerScan
  <1>11. SelectsUndecided'
    <2> SUFFICES ASSUME NEW q \in Requests, Selecting(q)'
                 PROVE  decision'[companion'[q].candidate] = Null
      BY DEF SelectsUndecided
    <2>1. Selecting(q) /\ q # r /\ companion'[q] = companion[q]
      BY <1>7, <1>9
    <2>2. ScanOf[companion[q].candidate] # ScanOf[c]
      BY <1>1, <1>4, <2>1 DEF Choosing, OneSelectionPerScan
    <2>3. companion[q].candidate \in Candidates
      BY <2>1 DEF Selecting, SelectStages, Choosing, CompanionTypeOK, CompanionHandler, Idle
    <2>4. QED
      BY <1>5, <2>1, <2>2, <2>3 DEF Choosing, SelectsUndecided
  <1>12. KeysApart'
    <2>1. ASSUME NEW q \in Requests, Keeping(q)' PROVE ~ChoiceKeyUsed(companion[q].key)'
      <3>1. Keeping(q) /\ q # r /\ companion'[q] = companion[q]
        BY <1>7, <1>9, <2>1
      <3>2. companion[q].key # key
        BY <1>1, <1>4, <3>1 DEF Choosing, KeysApart
      <3>3. \A d \in Candidates : decision'[d] # Null => decision'[d].key # companion[q].key
        BY <1>2, <1>5, <3>1, <3>2 DEF Choosing, KeysApart, ChoiceKeyUsed
      <3>4. QED
        BY <3>1, <3>3 DEF ChoiceKeyUsed
    <2>2. ASSUME NEW p \in Requests, NEW q \in Requests, Keeping(p)', Keeping(q)',
                 companion'[p].key = companion'[q].key
          PROVE  p = q
      BY <1>7, <1>9, <2>2 DEF Choosing, KeysApart
    <2>3. QED
      BY <2>1, <2>2 DEF KeysApart
  <1>13. ResolvesDecided'
    <2> SUFFICES ASSUME NEW q \in Requests, companion'[q].op \in {"RESOLVED", "LINK"}
                 PROVE  decision'[companion'[q].candidate] # Null
      BY DEF ResolvesDecided
    <2>1. companion'[q] = companion[q]
      BY <1>7 DEF Idle
    <2>2. companion[q].candidate \in Candidates
      BY <2>1 DEF Choosing, CompanionTypeOK, CompanionHandler, Idle
    <2>3. QED
      BY <1>4, <1>5, <2>1, <2>2 DEF Choosing, ResolvesDecided
  <1>14. IsFiniteSet(Decided')
    <2>1. Decided' = Decided \cup {c}
      BY <1>4, <1>5 DEF Decided
    <2>2. QED
      BY <2>1, FS_AddElement DEF Choosing
  <1>15. ASSUME NEW s \in Scans PROVE selected'[s] = Cardinality(DecidedIn(s)')
    <2>1. IsFiniteSet(DecidedIn(s)) /\ selected[s] = Cardinality(DecidedIn(s))
      <3>1. DecidedIn(s) \in SUBSET Decided
        BY DEF DecidedIn, Decided
      <3>2. IsFiniteSet(DecidedIn(s))
        BY <3>1, FS_Subset DEF Choosing
      <3>3. QED
        BY <3>2 DEF Choosing, SelectedOnce, DecidedIn
    <2>2. CASE s = ScanOf[c]
      <3>1. DecidedIn(s)' = DecidedIn(s) \cup {c} /\ c \notin DecidedIn(s)
        BY <1>4, <1>5, <2>2 DEF DecidedIn
      <3>2. Cardinality(DecidedIn(s)') = Cardinality(DecidedIn(s)) + 1
        BY <2>1, <3>1, FS_AddElement
      <3>3. QED
        BY <1>6, <2>1, <2>2, <3>2
    <2>3. CASE s # ScanOf[c]
      <3>1. DecidedIn(s)' = DecidedIn(s)
        BY <1>4, <1>5, <2>3 DEF DecidedIn
      <3>2. QED
        BY <1>6, <2>1, <2>3, <3>1
    <2>4. QED
      BY <2>2, <2>3
  <1>16. SelectedOnce'
    <2>1. ASSUME NEW d \in Candidates, NEW e \in Candidates,
                 decision'[d] # Null, decision'[e] # Null, decision'[d].key = decision'[e].key
          PROVE  d = e
      BY <1>2, <1>4, <1>5, <2>1 DEF Choosing, SelectedOnce, ChoiceKeyUsed
    <2>2. QED
      BY <1>15, <2>1 DEF SelectedOnce, DecidedIn
  <1>17. QED
    BY <1>8, <1>10, <1>11, <1>12, <1>13, <1>14, <1>16 DEF Choosing

(* A step that leaves every decision where it is, with its key, and every   *)
(* request or sends one home.                                               *)
LEMMA KeptChoosing ==
  ASSUME Choosing, CompanionTypeOK', selected' = selected,
         \A r \in Requests : companion'[r] \in {companion[r], Idle},
         \A c \in Candidates : /\ decision'[c] = Null <=> decision[c] = Null
                               /\ decision[c] # Null => decision'[c].key = decision[c].key
  PROVE  Choosing'
  <1>1. \A r \in Requests : /\ Selecting(r)' => Selecting(r) /\ companion'[r] = companion[r]
                            /\ Keeping(r)' => Keeping(r) /\ companion'[r] = companion[r]
    BY DEF Selecting, Keeping, SelectStages, Idle
  <1>2. OneSelectionPerScan'
    BY <1>1 DEF Choosing, OneSelectionPerScan
  <1>3. SelectsUndecided'
    <2> SUFFICES ASSUME NEW q \in Requests, Selecting(q)'
                 PROVE  decision'[companion'[q].candidate] = Null
      BY DEF SelectsUndecided
    <2>1. Selecting(q) /\ companion'[q] = companion[q]
      BY <1>1
    <2>2. companion[q].candidate \in Candidates
      BY <2>1 DEF Selecting, SelectStages, Choosing, CompanionTypeOK, CompanionHandler, Idle
    <2>3. QED
      BY <2>1, <2>2 DEF Choosing, SelectsUndecided
  <1>4. KeysApart'
    BY <1>1 DEF Choosing, KeysApart, ChoiceKeyUsed
  <1>5. ResolvesDecided'
    <2> SUFFICES ASSUME NEW q \in Requests, companion'[q].op \in {"RESOLVED", "LINK"}
                 PROVE  decision'[companion'[q].candidate] # Null
      BY DEF ResolvesDecided
    <2>1. companion'[q] = companion[q]
      BY DEF Idle
    <2>2. companion[q].candidate \in Candidates
      BY <2>1 DEF Choosing, CompanionTypeOK, CompanionHandler, Idle
    <2>3. QED
      BY <2>1, <2>2 DEF Choosing, ResolvesDecided
  <1>6. Decided' = Decided /\ \A s \in Scans : DecidedIn(s)' = DecidedIn(s)
    BY DEF Decided, DecidedIn
  <1>7. \A s \in Scans : selected'[s] = Cardinality(DecidedIn(s)')
    BY <1>6 DEF Choosing, SelectedOnce, DecidedIn
  <1>8. SelectedOnce'
    BY <1>7 DEF Choosing, SelectedOnce, DecidedIn
  <1>9. QED
    BY <1>2, <1>3, <1>4, <1>5, <1>6, <1>8 DEF Choosing

(* What the link makes of a decision. *)
Linked(row) == [row EXCEPT !.linked = TRUE]

LEMMA LinkedDecision ==
  ASSUME NEW row \in DecisionRow
  PROVE  Linked(row) \in DecisionRow /\ Linked(row).key = row.key
  BY DEF Linked, DecisionRow

LEMMA LinkRecordChoosing ==
  ASSUME Choosing, NEW r \in Requests, LinkRecord(r)
  PROVE  Choosing'
  <1>1. PICK c \in Candidates : companion[r].candidate = c /\ decision[c] # Null
    BY DEF Choosing, CompanionTypeOK, CompanionHandler, LinkRecord, Idle, ResolvesDecided
  <1>2. decision[c] \in DecisionRow
    BY <1>1 DEF Choosing, CompanionTypeOK
  <1>3. /\ decision'[c] = Linked(decision[c])
        /\ \A d \in Candidates \ {c} : decision'[d] = decision[d]
        /\ companion' = [companion EXCEPT ![r] = Idle]
        /\ UNCHANGED <<scanned, selected, posting, allowed>>
    BY <1>1 DEF LinkRecord, Browsing, Linked, Choosing, CompanionTypeOK
  <1>4. decision'[c] \in DecisionRow /\ decision'[c].key = decision[c].key
    BY <1>2, <1>3, LinkedDecision
  <1>5. decision'[c] # Null
    BY <1>4, CompanionRowAssumption
  <1>6. decision' \in [Candidates -> DecisionRow \cup {Null}]
    BY <1>3, <1>4 DEF LinkRecord, Choosing, CompanionTypeOK
  <1>7. /\ companion' \in [Requests -> CompanionHandler]
        /\ \A q \in Requests : companion'[q] \in {companion[q], Idle}
    BY <1>3 DEF Choosing, CompanionTypeOK, CompanionHandler
  <1>8. CompanionTypeOK'
    BY <1>3, <1>6, <1>7 DEF Choosing, CompanionTypeOK
  <1>9. QED
    BY <1>1, <1>3, <1>4, <1>5, <1>7, <1>8, KeptChoosing

(* A handler that inserts, looks up, or resolves moves only its request.    *)
LEMMA HandlerChoosing ==
  ASSUME Choosing, NEW r \in Requests,
         \/ \E c \in Candidates, key \in ChoiceKeys : SelectBegins(r, c, key)
         \/ InsertDecision(r)
         \/ \E found \in Finding : LookUp(r, found)
         \/ \E c \in Candidates : AddBegins(r, c)
         \/ MakeRecord(r)
         \/ AbandonCompanion(r)
  PROVE  Choosing'
  <1>1. companion[r] \in CompanionHandler
    BY DEF Choosing, CompanionTypeOK
  <1>2. Idle \in CompanionHandler /\ Idle.op = "IDLE"
    BY DEF CompanionHandler, Idle
  <1>3. ASSUME NEW c \in Candidates, NEW key \in ChoiceKeys, SelectBegins(r, c, key)
        PROVE  Choosing'
    <2> DEFINE h == [op |-> "SELECT", candidate |-> c, key |-> key]
    <2>1. h \in CompanionHandler /\ h.op = "SELECT" /\ h.candidate = c
      BY DEF CompanionHandler
    <2>2. Browsing(r, h) /\ ScanFree(ScanOf[c]) /\ decision[c] = Null
      BY <1>3 DEF SelectBegins
    <2> HIDE DEF h
    <2>3. QED
      BY <1>3, <2>1, <2>2, BrowsingChoosing DEF SelectBegins
  <1>4. CASE InsertDecision(r)
    <2>1. PICK c \in Candidates, key \in ChoiceKeys :
            companion[r] = [op |-> "SELECT", candidate |-> c, key |-> key]
      BY <1>1, <1>4 DEF InsertDecision, CompanionHandler, Idle
    <2>2. PICK h \in CompanionHandler :
            /\ h = [op |-> "LOOKUP", candidate |-> c, key |-> key]
            /\ h.op = "LOOKUP" /\ h.candidate = c /\ h.key = key
      <3>1. [op |-> "LOOKUP", candidate |-> c, key |-> key] \in CompanionHandler
        BY DEF CompanionHandler
      <3>2. QED
        BY <3>1
    <2>3. [companion[r] EXCEPT !.op = "LOOKUP"] = h
      BY <2>1, <2>2
    <2>4. companion[r].candidate = c /\ companion[r].key = key /\ Selecting(r)
      BY <2>1 DEF Selecting, SelectStages
    <2>5. CASE ChoiceKeyUsed(key)
      <3>1. Browsing(r, Idle)
        BY <1>4, <2>4, <2>5 DEF InsertDecision
      <3>2. QED
        BY <1>2, <1>4, <3>1, BrowsingChoosing DEF InsertDecision, SelectStages
    <2>6. CASE ~ChoiceKeyUsed(key)
      <3>1. Browsing(r, h) /\ ~KeyInserted(key)
        BY <1>4, <2>3, <2>4, <2>6 DEF InsertDecision
      <3>2. QED
        BY <1>4, <2>2, <2>4, <2>6, <3>1, BrowsingChoosing DEF InsertDecision
    <2>7. QED
      BY <2>5, <2>6
  <1>5. ASSUME NEW found \in Finding, LookUp(r, found)
        PROVE  Choosing'
    <2>1. PICK c \in Candidates, key \in ChoiceKeys :
            companion[r].candidate = c /\ companion[r].key = key
      BY <1>1, <1>5 DEF LookUp, CompanionHandler, Idle
    <2>2. PICK h \in CompanionHandler :
            /\ h = [op |-> "INGEST", candidate |-> c, key |-> key, found |-> found]
            /\ h.op = "INGEST" /\ h.candidate = c /\ h.key = key
      <3>1. [op |-> "INGEST", candidate |-> c, key |-> key, found |-> found] \in CompanionHandler
        BY DEF CompanionHandler
      <3>2. QED
        BY <3>1
    <2>3. Browsing(r, h) /\ Selecting(r) /\ Keeping(r)
      BY <1>5, <2>1, <2>2 DEF LookUp, Selecting, Keeping, SelectStages
    <2>4. QED
      BY <1>5, <2>1, <2>2, <2>3, BrowsingChoosing DEF LookUp
  <1>6. ASSUME NEW c \in Candidates, AddBegins(r, c)
        PROVE  Choosing'
    <2>1. PICK h \in CompanionHandler :
            /\ h = [op |-> "RESOLVED", candidate |-> c]
            /\ h.op = "RESOLVED" /\ h.candidate = c
      <3>1. [op |-> "RESOLVED", candidate |-> c] \in CompanionHandler
        BY DEF CompanionHandler
      <3>2. QED
        BY <3>1
    <2>2. Browsing(r, h) /\ decision[c] # Null
      BY <1>6, <2>1 DEF AddBegins
    <2>3. QED
      BY <1>6, <2>1, <2>2, BrowsingChoosing DEF AddBegins, SelectStages
  <1>7. CASE MakeRecord(r)
    <2>1. PICK c \in Candidates : companion[r] = [op |-> "RESOLVED", candidate |-> c]
      BY <1>1, <1>7 DEF MakeRecord, CompanionHandler, Idle
    <2>2. PICK h \in CompanionHandler :
            /\ h = [op |-> "LINK", candidate |-> c]
            /\ h.op = "LINK" /\ h.candidate = c
      <3>1. [op |-> "LINK", candidate |-> c] \in CompanionHandler
        BY DEF CompanionHandler
      <3>2. QED
        BY <3>1
    <2>3. [companion[r] EXCEPT !.op = "LINK"] = h
      BY <2>1, <2>2
    <2>4. Browsing(r, h) /\ decision[c] # Null
      BY <1>7, <2>1, <2>3 DEF MakeRecord, Choosing, ResolvesDecided
    <2>5. QED
      BY <1>7, <2>2, <2>4, BrowsingChoosing DEF MakeRecord, SelectStages
  <1>8. CASE AbandonCompanion(r)
    BY <1>2, <1>8, BrowsingChoosing DEF AbandonCompanion, SelectStages
  <1>9. QED
    BY <1>3, <1>4, <1>5, <1>6, <1>7, <1>8

LEMMA NextChoosing == Choosing /\ [BNext]_bvars => Choosing'
  <1> SUFFICES ASSUME Choosing, [BNext]_bvars PROVE Choosing'
    OBVIOUS
  <1>1. ASSUME UNCHANGED <<selected, decision, companion>>, CompanionTypeOK'
        PROVE  Choosing'
    BY <1>1, KeptChoosing
  <1>2. CASE UNCHANGED bvars
    <2>1. CompanionTypeOK'
      BY <1>2 DEF bvars, Choosing, CompanionTypeOK
    <2>2. QED
      BY <1>1, <1>2, <2>1 DEF bvars
  <1>3. ASSUME NEW s \in Scans, UploadScan(s) PROVE Choosing'
    <2>1. CompanionTypeOK'
      BY <1>3 DEF UploadScan, Choosing, CompanionTypeOK
    <2>2. QED
      BY <1>1, <1>3, <2>1 DEF UploadScan
  <1>4. ASSUME NEW permits \in BOOLEAN, SetSource(permits) PROVE Choosing'
    <2>1. CompanionTypeOK'
      BY <1>4 DEF SetSource, Choosing, CompanionTypeOK
    <2>2. QED
      BY <1>1, <1>4, <2>1 DEF SetSource
  <1>5. ASSUME NEW r \in Requests, NEW c \in Candidates, NEW key \in ChoiceKeys, SelectBegins(r, c, key)
        PROVE  Choosing'
    BY <1>5, HandlerChoosing
  <1>6. ASSUME NEW r \in Requests, InsertDecision(r) \/ MakeRecord(r) \/ AbandonCompanion(r)
        PROVE  Choosing'
    BY <1>6, HandlerChoosing
  <1>7. ASSUME NEW r \in Requests, NEW found \in Finding, LookUp(r, found) PROVE Choosing'
    BY <1>7, HandlerChoosing
  <1>8. ASSUME NEW r \in Requests, NEW c \in Candidates, AddBegins(r, c) PROVE Choosing'
    BY <1>8, HandlerChoosing
  <1>9. ASSUME NEW r \in Requests, Ingest(r) \/ LinkRecord(r) PROVE Choosing'
    BY <1>9, IngestChoosing, LinkRecordChoosing
  <1>10. QED
    BY <1>2, <1>3, <1>4, <1>5, <1>6, <1>7, <1>8, <1>9 DEF BNext

LEMMA ChoosingAlways == BSpec => []Choosing
  BY InitChoosing, NextChoosing, PTL DEF BSpec

(* Every reachable state of the companion's tables is well typed.           *)
THEOREM CompanionTypeCorrect == BSpec => []CompanionTypeOK
  <1>1. Choosing => CompanionTypeOK
    BY DEF Choosing
  <1>2. QED
    BY <1>1, ChoosingAlways, PTL

(* A selection counts once, however requests race, repeat themselves, reuse *)
(* the key of another candidate or are abandoned half way.                  *)
THEOREM SelectionsCountOnce == BSpec => []SelectedOnce
  <1>1. Choosing => SelectedOnce
    BY DEF Choosing
  <1>2. QED
    BY <1>1, ChoosingAlways, PTL

-----------------------------------------------------------------------------
(* Applications.                                                           *)

(* A request that has read an application will find it again, a status      *)
(* change does not use the key of an assessment, and an assessment that is   *)
(* about to be projected is in the ledger.                                  *)
Pending(h, table, ledger) ==
  /\ h.op \in {"APPLY", "RECEIVE", "ASSESS", "CHANGE"} => table[h.app] # Null
  /\ h.op = "CHANGE" => \A a \in Applications : h.key # AssessmentKey(a)
  /\ h.op = "ASSESS" => \E e \in ledger : e.app = h.app /\ e.to = "IN_PROCESS"

AssessmentsReceived(ledger) ==
  \A e \in ledger, a \in Applications : e.key = AssessmentKey(a) =>
    e.app = a /\ e.to = "IN_PROCESS"

Recorded(table, ledger) ==
  \A a \in Applications : table[a] # Null =>
    \E e \in ledger : e.app = a /\ e.to = table[a].status

Tracked ==
  /\ TrackingTypeOK
  /\ \A r \in Requests : Pending(tracking[r], application, event)
  /\ AssessmentsReceived(event)
  /\ Recorded(application, event)

LEMMA HandlersOfTracking ==
  ASSUME NEW h \in Handler
  PROVE  /\ h.op \in {"CREATE", "IMPORT"} => h.target \in Targets /\ h.at \in AppliedAt
         /\ h.op = "APPLY" => h.app \in Applications /\ h.target \in Targets /\ h.at \in AppliedAt
         /\ h.op \in {"RECEIVE", "ASSESS"} => h.app \in Applications
         /\ h.op = "CHANGE" => /\ h.app \in Applications /\ h.to \in Status
                               /\ h.key \in Keys /\ h.at \in AppliedAt
  BY DEF Handler, Idle

LEMMA PendingKept ==
  ASSUME NEW h \in Handler, NEW table, NEW ledger, NEW table2, NEW ledger2,
         Pending(h, table, ledger), ledger \subseteq ledger2,
         \A a \in Applications : table[a] # Null => table2[a] # Null
  PROVE  Pending(h, table2, ledger2)
  <1>1. h.op \in {"APPLY", "RECEIVE", "ASSESS", "CHANGE"} => h.app \in Applications
    BY HandlersOfTracking
  <1>2. QED
    BY <1>1 DEF Pending

LEMMA TrackedInit == TInit => Tracked
  BY DEF TInit, Tracked, TrackingTypeOK, Handler, Idle, Pending, AssessmentsReceived, Recorded

(* Applications and events only come; the row of one request changes.        *)
LEMMA TrackedRowStep ==
  ASSUME Tracked, NEW r \in Requests, NEW h \in Handler, Runs(r, h),
         application' \in [Applications -> ApplicationRow \cup {Null}],
         event' \subseteq EventRow, event \subseteq event',
         \A a \in Applications : application[a] # Null => application'[a] # Null,
         Pending(h, application', event'),
         AssessmentsReceived(event'), Recorded(application', event')
  PROVE  Tracked'
  <1>1. tracking \in [Requests -> Handler] /\ tracking' = [tracking EXCEPT ![r] = h]
    BY DEF Tracked, TrackingTypeOK, Runs
  <1>2. tracking' \in [Requests -> Handler]
    BY <1>1
  <1>3. ASSUME NEW q \in Requests PROVE Pending(tracking'[q], application', event')
    <2>1. tracking'[q] = IF q = r THEN h ELSE tracking[q]
      BY <1>1
    <2>2. tracking[q] \in Handler /\ Pending(tracking[q], application, event)
      BY <1>1 DEF Tracked
    <2>3. Pending(tracking[q], application', event')
      BY <2>2, PendingKept
    <2>4. QED
      BY <2>1, <2>3
  <1>4. QED
    BY <1>2, <1>3 DEF Tracked, TrackingTypeOK

(* A step that writes nothing but the row of its request.                   *)
LEMMA TrackedReadStep ==
  ASSUME Tracked, NEW r \in Requests, NEW h \in Handler, Runs(r, h),
         UNCHANGED <<application, event>>, Pending(h, application, event)
  PROVE  Tracked'
  <1>1. /\ application \in [Applications -> ApplicationRow \cup {Null}]
        /\ event \subseteq EventRow
        /\ AssessmentsReceived(event) /\ Recorded(application, event)
    BY DEF Tracked, TrackingTypeOK
  <1>2. application' = application /\ event' = event
    OBVIOUS
  <1>3. QED
    BY <1>1, <1>2, TrackedRowStep

LEMMA IdleHandler == Idle \in Handler /\ \A table, ledger : Pending(Idle, table, ledger)
  BY DEF Handler, Idle, Pending

(* changeApplicationStatus up to its reads.                                 *)
LEMMA TrackedChangeRead ==
  ASSUME Tracked, NEW r \in Requests, NEW a \in Applications, NEW to \in Status,
         NEW k \in Keys, NEW at \in AppliedAt, ChangeRead(r, a, to, k, at),
         \A b \in Applications : k # AssessmentKey(b)
  PROVE  Tracked'
  <1> DEFINE h == [op |-> "CHANGE", app |-> a, to |-> to, key |-> k, at |-> at]
  <1>1. h \in Handler /\ h.op = "CHANGE" /\ h.app = a /\ h.key = k
    BY DEF Handler
  <1>2. application[a] # Null /\ UNCHANGED <<application, event>>
    BY DEF ChangeRead, Exists
  <1>3. Runs(r, Idle) \/ Runs(r, h)
    BY DEF ChangeRead
  <1> HIDE DEF h
  <1>4. Pending(h, application, event)
    BY <1>1, <1>2 DEF Pending
  <1>5. QED
    BY <1>1, <1>2, <1>3, <1>4, IdleHandler, TrackedReadStep

(* The insert of an application and of its first event.                     *)
LEMMA TrackedCreateCommit ==
  ASSUME Tracked, NEW r \in Requests, NEW a \in Applications, CreateCommit(r, a)
  PROVE  Tracked'
  <1> DEFINE call == tracking[r]
             row == [target |-> call.target, status |-> "SAVED", appliedAt |-> call.at,
                     archived |-> FALSE]
             made == [app |-> a, to |-> "SAVED", key |-> Null]
             apply == [op |-> "APPLY", app |-> a, target |-> call.target, at |-> call.at]
  <1>1. call \in Handler /\ call.op \in {"CREATE", "IMPORT"}
    BY DEF Tracked, TrackingTypeOK, CreateCommit
  <1>2. call.target \in Targets /\ call.at \in AppliedAt
    BY <1>1, HandlersOfTracking
  <1>3. /\ row \in ApplicationRow /\ row.status = "SAVED"
        /\ made \in EventRow /\ made.app = a /\ made.to = "SAVED" /\ made.key = Null
        /\ apply \in Handler /\ apply.op = "APPLY" /\ apply.app = a
    BY <1>2 DEF ApplicationRow, EventRow, Handler, Status
  <1>4. row # Null
    BY <1>3, ApplicationRowAssumption
  <1>5. CASE UniqueActive(call.target)
    <2>1. /\ application[a] = Null /\ application' = [application EXCEPT ![a] = row]
          /\ event' = event \cup {made} /\ (Runs(r, Idle) \/ Runs(r, apply))
      BY <1>5 DEF CreateCommit, Exists
    <2> HIDE DEF row, made, apply, call
    <2>2. /\ application \in [Applications -> ApplicationRow \cup {Null}]
          /\ event \subseteq EventRow
          /\ AssessmentsReceived(event) /\ Recorded(application, event)
      BY DEF Tracked, TrackingTypeOK
    <2>3. \A b \in Applications : application'[b] = IF b = a THEN row ELSE application[b]
      BY <2>1, <2>2
    <2>4. /\ application' \in [Applications -> ApplicationRow \cup {Null}]
          /\ event' \subseteq EventRow /\ event \subseteq event'
          /\ \A b \in Applications : application[b] # Null => application'[b] # Null
      BY <1>3, <1>4, <2>1, <2>2
    <2>5. AssessmentsReceived(event')
      <3>1. \A b \in Applications : made.key # AssessmentKey(b)
        BY <1>3, AssessmentKeyAssumption
      <3>2. QED
        BY <2>1, <2>2, <3>1 DEF AssessmentsReceived
    <2>6. Recorded(application', event')
      <3>1. ASSUME NEW b \in Applications, application'[b] # Null
            PROVE  \E e \in event' : e.app = b /\ e.to = application'[b].status
        <4>1. CASE b = a
          BY <1>3, <2>1, <2>3, <4>1
        <4>2. CASE b # a
          <5>1. \E e \in event : e.app = b /\ e.to = application[b].status
            BY <2>2, <2>3, <3>1, <4>2 DEF Recorded
          <5>2. QED
            BY <2>1, <2>3, <4>2, <5>1
        <4>3. QED
          BY <4>1, <4>2
      <3>2. QED
        BY <3>1 DEF Recorded
    <2>7. Pending(apply, application', event')
      BY <1>3, <1>4, <2>3 DEF Pending
    <2>8. QED
      BY <1>3, <2>1, <2>4, <2>5, <2>6, <2>7, IdleHandler, TrackedRowStep
  <1>6. CASE ~UniqueActive(call.target)
    BY <1>6, IdleHandler, TrackedReadStep DEF CreateCommit
  <1>7. QED
    BY <1>5, <1>6

(* The rows a handler puts back.                                            *)
Restated(row, to, at) == [row EXCEPT !.status = to, !.appliedAt = at]

LEMMA RestatedRows ==
  ASSUME NEW row \in ApplicationRow, NEW to \in Status, NEW at \in AppliedAt
  PROVE  Restated(row, to, at) \in ApplicationRow /\ Restated(row, to, at).status = to
  BY DEF ApplicationRow, Restated

(* A handler writes a status that the ledger has.                           *)
LEMMA TrackedProjection ==
  ASSUME Tracked, NEW r \in Requests, NEW a \in Applications, NEW row \in ApplicationRow,
         application[a] # Null, application' = [application EXCEPT ![a] = row],
         event' \subseteq EventRow, event \subseteq event', AssessmentsReceived(event'),
         \E e \in event' : e.app = a /\ e.to = row.status,
         Runs(r, Idle)
  PROVE  Tracked'
  <1>1. /\ application \in [Applications -> ApplicationRow \cup {Null}]
        /\ Recorded(application, event)
    BY DEF Tracked, TrackingTypeOK
  <1>2. \A b \in Applications : application'[b] = IF b = a THEN row ELSE application[b]
    BY <1>1
  <1>3. application' \in [Applications -> ApplicationRow \cup {Null}]
    BY <1>1
  <1>4. \A b \in Applications : application[b] # Null => application'[b] # Null
    BY <1>2, ApplicationRowAssumption
  <1>5. Recorded(application', event')
    <2>1. ASSUME NEW b \in Applications, application'[b] # Null
          PROVE  \E e \in event' : e.app = b /\ e.to = application'[b].status
      <3>1. CASE b = a
        BY <1>2, <3>1
      <3>2. CASE b # a
        <4>1. \E e \in event : e.app = b /\ e.to = application[b].status
          BY <1>1, <1>2, <2>1, <3>2 DEF Recorded
        <4>2. QED
          BY <1>2, <3>2, <4>1
      <3>3. QED
        BY <3>1, <3>2
    <2>2. QED
      BY <2>1 DEF Recorded
  <1>6. QED
    BY <1>3, <1>4, <1>5, IdleHandler, TrackedRowStep

LEMMA TrackedChangeCommit ==
  ASSUME Tracked, NEW r \in Requests, ChangeCommit(r)
  PROVE  Tracked'
  <1> DEFINE call == tracking[r]
             a == call.app
             row == Restated(application[a], call.to, AppliedOn(application[a], call))
             made == [app |-> a, to |-> call.to, key |-> call.key]
  <1>1. call \in Handler /\ call.op = "CHANGE" /\ Pending(call, application, event)
    BY DEF Tracked, TrackingTypeOK, ChangeCommit
  <1>2. /\ a \in Applications /\ call.to \in Status /\ call.key \in Keys /\ call.at \in AppliedAt
        /\ application[a] # Null /\ \A b \in Applications : call.key # AssessmentKey(b)
    BY <1>1, HandlersOfTracking DEF Pending
  <1>3. /\ application \in [Applications -> ApplicationRow \cup {Null}]
        /\ event \subseteq EventRow /\ AssessmentsReceived(event)
    BY DEF Tracked, TrackingTypeOK
  <1>4. application[a] \in ApplicationRow
    BY <1>2, <1>3
  <1>5. AppliedOn(application[a], call) \in AppliedAt
    BY <1>2, <1>4 DEF AppliedOn, ApplicationRow
  <1>6. row \in ApplicationRow /\ row.status = call.to
    BY <1>2, <1>4, <1>5, RestatedRows
  <1>7. made \in EventRow /\ made.app = a /\ made.to = call.to /\ made.key = call.key
    BY <1>2 DEF EventRow
  <1>8. CASE FirstUse(call.key)
    <2>1. /\ application' = [application EXCEPT ![a] = row]
          /\ event' = event \cup {made} /\ Runs(r, Idle)
      BY <1>2, <1>3, <1>4, <1>8 DEF ChangeCommit, Restated
    <2> HIDE DEF row, made, a, call
    <2>2. event' \subseteq EventRow /\ event \subseteq event'
      BY <1>3, <1>7, <2>1
    <2>3. AssessmentsReceived(event')
      BY <1>2, <1>3, <1>7, <2>1 DEF AssessmentsReceived
    <2>4. \E e \in event' : e.app = a /\ e.to = row.status
      BY <1>6, <1>7, <2>1
    <2>5. QED
      BY <1>2, <1>6, <2>1, <2>2, <2>3, <2>4, TrackedProjection
  <1>9. CASE ~FirstUse(call.key)
    BY <1>9, IdleHandler, TrackedReadStep DEF ChangeCommit
  <1>10. QED
    BY <1>8, <1>9

LEMMA TrackedAssessmentReceived ==
  ASSUME Tracked, NEW r \in Requests, AssessmentReceived(r)
  PROVE  Tracked'
  <1> DEFINE call == tracking[r]
             a == call.app
             next == [call EXCEPT !.op = "ASSESS"]
             made == [app |-> a, to |-> "IN_PROCESS", key |-> AssessmentKey(a)]
  <1>1. call \in Handler /\ call.op = "RECEIVE" /\ Pending(call, application, event)
    BY DEF Tracked, TrackingTypeOK, AssessmentReceived
  <1>2. a \in Applications /\ application[a] # Null
    BY <1>1, HandlersOfTracking DEF Pending
  <1>3. next \in Handler /\ next.op = "ASSESS" /\ next.app = a
    BY <1>1 DEF Handler, Idle
  <1>4. /\ made \in EventRow /\ made.app = a /\ made.to = "IN_PROCESS"
        /\ made.key = AssessmentKey(a)
    BY <1>2 DEF EventRow, Keys, Status
  <1>5. /\ application \in [Applications -> ApplicationRow \cup {Null}]
        /\ event \subseteq EventRow /\ AssessmentsReceived(event)
        /\ Recorded(application, event)
    BY DEF Tracked, TrackingTypeOK
  <1>6. /\ Runs(r, next) /\ application' = application
        /\ IF KeyUsed(AssessmentKey(a)) THEN event' = event ELSE event' = event \cup {made}
    BY DEF AssessmentReceived, AssessmentEvent
  <1> HIDE DEF next, made, a, call
  <1>7. event' \subseteq EventRow /\ event \subseteq event'
    BY <1>4, <1>5, <1>6
  <1>8. AssessmentsReceived(event')
    <2>1. ASSUME NEW b \in Applications, AssessmentKey(a) = AssessmentKey(b) PROVE a = b
      BY <2>1 DEF AssessmentKey
    <2>2. QED
      BY <1>4, <1>5, <1>6, <2>1 DEF AssessmentsReceived
  <1>9. \E e \in event' : e.app = a /\ e.to = "IN_PROCESS"
    BY <1>2, <1>4, <1>5, <1>6 DEF AssessmentsReceived, KeyUsed
  <1>10. Recorded(application', event')
    BY <1>5, <1>6, <1>7 DEF Recorded
  <1>11. Pending(next, application', event')
    BY <1>2, <1>3, <1>6, <1>9 DEF Pending
  <1>12. QED
    BY <1>3, <1>5, <1>6, <1>7, <1>8, <1>10, <1>11, TrackedRowStep

LEMMA TrackedAssessmentProjected ==
  ASSUME Tracked, NEW r \in Requests, AssessmentProjected(r)
  PROVE  Tracked'
  <1> DEFINE call == tracking[r]
             a == call.app
             row == [application[a] EXCEPT !.status = "IN_PROCESS"]
  <1>1. call \in Handler /\ call.op = "ASSESS" /\ Pending(call, application, event)
    BY DEF Tracked, TrackingTypeOK, AssessmentProjected
  <1>2. /\ a \in Applications /\ application[a] # Null
        /\ \E e \in event : e.app = a /\ e.to = "IN_PROCESS"
    BY <1>1, HandlersOfTracking DEF Pending
  <1>3. /\ application \in [Applications -> ApplicationRow \cup {Null}]
        /\ event \subseteq EventRow /\ AssessmentsReceived(event)
    BY DEF Tracked, TrackingTypeOK
  <1>4. application[a] \in ApplicationRow
    BY <1>2, <1>3
  <1>5. row \in ApplicationRow /\ row.status = "IN_PROCESS"
    BY <1>4 DEF ApplicationRow, Status
  <1>6. /\ application' = [application EXCEPT ![a] = row]
        /\ event' = event /\ Runs(r, Idle)
    BY DEF AssessmentProjected
  <1> HIDE DEF row, a, call
  <1>7. QED
    BY <1>2, <1>3, <1>5, <1>6, TrackedProjection

LEMMA TrackedNext == Tracked /\ [TNext]_tvars => Tracked'
  <1> SUFFICES ASSUME Tracked, [TNext]_tvars PROVE Tracked'
    OBVIOUS
  <1>1. CASE UNCHANGED tvars
    BY <1>1 DEF tvars, Tracked, TrackingTypeOK
  <1>2. ASSUME NEW r \in Requests, NEW t \in Targets, NEW op \in {"CREATE", "IMPORT"},
               NEW at \in AppliedAt, CreateRead(r, op, t, at)
        PROVE  Tracked'
    <2> DEFINE h == [op |-> op, target |-> t, at |-> at]
    <2>1. h \in Handler /\ h.op \in {"CREATE", "IMPORT"}
      BY DEF Handler
    <2>2. Runs(r, h) /\ UNCHANGED <<application, event>>
      BY <1>2 DEF CreateRead
    <2> HIDE DEF h
    <2>3. QED
      BY <2>1, <2>2, TrackedReadStep DEF Pending
  <1>3. ASSUME NEW r \in Requests, NEW a \in Applications, CreateCommit(r, a) PROVE Tracked'
    BY <1>3, TrackedCreateCommit
  <1>4. ASSUME NEW r \in Requests, StatusRead(r) PROVE Tracked'
    <2>1. PICK a \in Applications, to \in Status, k \in ClientKeys, at \in AppliedAt :
             ChangeRead(r, a, to, k, at)
      BY <1>4 DEF StatusRead, AppliedAt
    <2>2. k \in Keys /\ \A b \in Applications : k # AssessmentKey(b)
      BY AssessmentKeyAssumption DEF Keys
    <2>3. QED
      BY <2>1, <2>2, TrackedChangeRead
  <1>5. ASSUME NEW r \in Requests, ImportApply(r) PROVE Tracked'
    <2> DEFINE call == tracking[r]
    <2>1. call \in Handler /\ call.op = "APPLY"
      BY <1>5 DEF ImportApply, Tracked, TrackingTypeOK
    <2>2. call.app \in Applications /\ call.target \in Targets /\ call.at \in AppliedAt
      BY <2>1, HandlersOfTracking
    <2>3. ImportKey(call.target) \in Keys /\ "APPLIED" \in Status
      BY <2>2 DEF Keys, Status
    <2>4. \A b \in Applications : ImportKey(call.target) # AssessmentKey(b)
      BY DEF ImportKey, AssessmentKey
    <2>5. ChangeRead(r, call.app, "APPLIED", ImportKey(call.target), call.at)
      BY <1>5 DEF ImportApply
    <2> HIDE DEF call
    <2>6. QED
      BY <2>2, <2>3, <2>4, <2>5, TrackedChangeRead
  <1>6. ASSUME NEW r \in Requests, ChangeCommit(r) PROVE Tracked'
    BY <1>6, TrackedChangeCommit
  <1>7. ASSUME NEW r \in Requests, NEW a \in Applications, AssessmentRead(r, a) PROVE Tracked'
    <2> DEFINE h == [op |-> "RECEIVE", app |-> a]
    <2>1. h \in Handler /\ h.op = "RECEIVE" /\ h.app = a
      BY DEF Handler
    <2>2. Runs(r, h) /\ UNCHANGED <<application, event>> /\ application[a] # Null
      BY <1>7 DEF AssessmentRead, Exists
    <2> HIDE DEF h
    <2>3. QED
      BY <2>1, <2>2, TrackedReadStep DEF Pending
  <1>8. ASSUME NEW r \in Requests, AssessmentReceived(r) \/ AssessmentProjected(r) PROVE Tracked'
    BY <1>8, TrackedAssessmentReceived, TrackedAssessmentProjected
  <1>9. ASSUME NEW a \in Applications, Archive(a) PROVE Tracked'
    <2>1. /\ application \in [Applications -> ApplicationRow \cup {Null}]
          /\ application[a] \in ApplicationRow
          /\ application' = [application EXCEPT ![a] = [@ EXCEPT !.archived = TRUE]]
          /\ UNCHANGED <<event, tracking>>
      BY <1>9 DEF Archive, Exists, Tracked, TrackingTypeOK
    <2>2. /\ [application[a] EXCEPT !.archived = TRUE] \in ApplicationRow
          /\ [application[a] EXCEPT !.archived = TRUE].status = application[a].status
      BY <2>1 DEF ApplicationRow
    <2>3. application' \in [Applications -> ApplicationRow \cup {Null}]
      BY <2>1, <2>2
    <2>4. \A b \in Applications :
            /\ application[b] # Null <=> application'[b] # Null
            /\ application[b] # Null => application'[b].status = application[b].status
      BY <2>1, <2>2, ApplicationRowAssumption
    <2>5. ASSUME NEW q \in Requests PROVE Pending(tracking[q], application', event)
      <3>1. tracking[q] \in Handler /\ Pending(tracking[q], application, event)
        BY DEF Tracked, TrackingTypeOK
      <3>2. QED
        BY <2>4, <3>1, PendingKept
    <2>6. Recorded(application', event)
      BY <2>4 DEF Recorded, Tracked
    <2>7. QED
      BY <2>1, <2>3, <2>5, <2>6 DEF Tracked, TrackingTypeOK
  <1>10. ASSUME NEW r \in Requests, Abandon(r) PROVE Tracked'
    BY <1>10, IdleHandler, TrackedReadStep DEF Abandon
  <1>11. QED
    BY <1>1, <1>2, <1>3, <1>4, <1>5, <1>6, <1>7, <1>8, <1>9, <1>10 DEF TNext

(* The tables of applications and what a handler of applications.ts knows   *)
(* are well typed in every reachable state.                                 *)
THEOREM TrackingTypeCorrect == TSpec => []TrackingTypeOK
  <1>1. Tracked => TrackingTypeOK
    BY DEF Tracked
  <1>2. QED
    BY <1>1, TrackedInit, TrackedNext, PTL DEF TSpec

(* The status an application shows is one that its ledger has, whichever    *)
(* status changes, imports and assessments overlap or stop half way: the    *)
(* writers that are not one transaction write the event first.              *)
THEOREM ProjectionsAreRecorded == TSpec => []ProjectionRecorded
  <1>1. Tracked => ProjectionRecorded
    BY DEF Tracked, Recorded, ProjectionRecorded, Exists
  <1>2. QED
    BY <1>1, TrackedInit, TrackedNext, PTL DEF TSpec

-----------------------------------------------------------------------------
(* Preferences and recommendations.                                        *)

(* While a patch has deleted the list it read, nobody else replaces it and  *)
(* no row was added: what is deleted is all there is.                       *)
Preferring ==
  /\ RecommendationsTypeOK
  /\ preferred \in Selections
  /\ \A r \in Requests : asking[r].op = "REPLACE" => asking[r].deleted = preferred
  /\ \A r, s \in Requests : asking[r].op = "REPLACE" /\ asking[s].op = "REPLACE" => r = s

LEMMA HandlersOfPreferences ==
  ASSUME NEW h \in AskingHandler
  PROVE  /\ h.op = "PATCH" => h.list \in Selections
         /\ h.op = "REPLACE" => h.list \in Selections /\ h.deleted \in SUBSET Values
         /\ h.op = "RANK" => h.released \in BOOLEAN
         /\ h.op = "DISMISS" => h.basis \in Fingerprints
  BY DEF AskingHandler, Idle

LEMMA PreferringInit == WInit => Preferring
  <1> SUFFICES ASSUME WInit PROVE Preferring
    OBVIOUS
  <1>1. PICK f \in Fingerprints : changes = <<f>>
    BY DEF WInit
  <1>2. changes \in Seq(Fingerprints) /\ Len(changes) \in 1..MaxChanges
    BY <1>1, RecommendationAssumption
  <1>3. QED
    BY <1>2, RecommendationAssumption
    DEF WInit, Preferring, RecommendationsTypeOK, AskingHandler, Idle

(* A step of a request that replaces no list and begins no replacement.     *)
LEMMA PreferringRowStep ==
  ASSUME Preferring, NEW r \in Requests, NEW h \in AskingHandler, Asks(r, h),
         h.op # "REPLACE", UNCHANGED <<changes, preferred>>,
         suppression' \in Fingerprints \cup {Null}, away' \in BOOLEAN
  PROVE  Preferring'
  <1>1. asking \in [Requests -> AskingHandler] /\ asking' = [asking EXCEPT ![r] = h]
    BY DEF Preferring, RecommendationsTypeOK, Asks
  <1>2. /\ asking' \in [Requests -> AskingHandler]
        /\ \A q \in Requests : asking'[q] = IF q = r THEN h ELSE asking[q]
    BY <1>1
  <1>3. RecommendationsTypeOK'
    BY <1>2 DEF Preferring, RecommendationsTypeOK
  <1>4. QED
    BY <1>2, <1>3 DEF Preferring

LEMMA PreferringNext == Preferring /\ [WNext]_wvars => Preferring'
  <1> SUFFICES ASSUME Preferring, [WNext]_wvars PROVE Preferring'
    OBVIOUS
  <1>T. /\ asking \in [Requests -> AskingHandler] /\ preferred \subseteq Values
        /\ suppression \in Fingerprints \cup {Null} /\ away \in BOOLEAN
        /\ changes \in Seq(Fingerprints) /\ Len(changes) \in 1..MaxChanges
    BY DEF Preferring, RecommendationsTypeOK
  <1>I. Idle \in AskingHandler /\ Idle.op # "REPLACE"
    BY DEF AskingHandler, Idle
  <1>L. Latest \in Fingerprints
    BY <1>T, RecommendationAssumption DEF Latest
  <1>1. CASE UNCHANGED wvars
    BY <1>1 DEF wvars, wishes, Preferring, RecommendationsTypeOK
  <1>2. ASSUME NEW f \in Fingerprints, ChangeOpportunity(f) PROVE Preferring'
    <2>1. changes' = Append(changes, f) /\ Len(changes) < MaxChanges
      BY <1>2 DEF ChangeOpportunity
    <2>2. changes' \in Seq(Fingerprints) /\ Len(changes') \in 1..MaxChanges
      BY <1>T, <2>1, RecommendationAssumption
    <2>3. away' \in BOOLEAN /\ UNCHANGED <<suppression, preferred, asking>>
      BY <1>2, <1>T DEF ChangeOpportunity
    <2>4. QED
      BY <2>2, <2>3 DEF Preferring, RecommendationsTypeOK
  <1>3. ASSUME NEW r \in Requests, NEW list \in Selections, PatchBegins(r, list)
        PROVE  Preferring'
    <2> DEFINE h == [op |-> "PATCH", list |-> list]
    <2>1. h \in AskingHandler /\ h.op # "REPLACE"
      BY DEF AskingHandler
    <2>2. Asks(r, h) /\ UNCHANGED wishes
      BY <1>3 DEF PatchBegins
    <2> HIDE DEF h
    <2>3. QED
      BY <1>T, <2>1, <2>2, PreferringRowStep DEF wishes
  <1>4. ASSUME NEW r \in Requests, DeleteList(r) PROVE Preferring'
    <2> DEFINE h == [op |-> "REPLACE", list |-> asking[r].list, deleted |-> preferred]
    <2>1. asking[r].list \in Selections
      BY <1>T, <1>4, HandlersOfPreferences DEF DeleteList
    <2>2. h \in AskingHandler /\ h.deleted = preferred
      BY <1>T, <2>1 DEF AskingHandler
    <2>3. asking' = [asking EXCEPT ![r] = h] /\ UNCHANGED wishes
      BY <1>4 DEF DeleteList, Asks
    <2> HIDE DEF h
    <2>4. \A q \in Requests : asking'[q] = IF q = r THEN h ELSE asking[q]
      BY <1>T, <2>3
    <2>5. \A q \in Requests \ {r} : asking[q].op # "REPLACE"
      BY <1>4 DEF DeleteList, PreferencesFree
    <2>6. RecommendationsTypeOK'
      BY <1>T, <2>2, <2>3 DEF RecommendationsTypeOK, wishes
    <2>7. QED
      BY <2>2, <2>3, <2>4, <2>5, <2>6 DEF Preferring, wishes
  <1>5. ASSUME NEW r \in Requests, InsertList(r) PROVE Preferring'
    <2>1. /\ asking[r].op = "REPLACE" /\ asking[r].list \in Selections
          /\ asking[r].deleted = preferred
      BY <1>T, <1>5, HandlersOfPreferences DEF InsertList, Preferring
    <2>2. preferred' = asking[r].list
      BY <1>5, <2>1 DEF InsertList
    <2>3. asking' = [asking EXCEPT ![r] = Idle] /\ UNCHANGED <<changes, suppression, away>>
      BY <1>5 DEF InsertList, Asks
    <2>4. \A q \in Requests : asking'[q] = IF q = r THEN Idle ELSE asking[q]
      BY <1>T, <2>3
    <2>5. \A q \in Requests \ {r} : asking[q].op # "REPLACE"
      BY <2>1 DEF Preferring
    <2>6. preferred' \subseteq Values
      BY <2>1, <2>2 DEF Values
    <2>7. RecommendationsTypeOK'
      BY <1>I, <1>T, <2>3, <2>6 DEF RecommendationsTypeOK
    <2>8. QED
      BY <1>I, <2>1, <2>2, <2>4, <2>5, <2>7 DEF Preferring
  <1>6. ASSUME NEW r \in Requests, ListBegins(r) PROVE Preferring'
    <2> DEFINE h == [op |-> "LIST"]
    <2>1. h \in AskingHandler /\ h.op # "REPLACE"
      BY DEF AskingHandler
    <2>2. Asks(r, h) /\ UNCHANGED wishes
      BY <1>6 DEF ListBegins
    <2> HIDE DEF h
    <2>3. QED
      BY <1>T, <2>1, <2>2, PreferringRowStep DEF wishes
  <1>7. ASSUME NEW r \in Requests, Release(r) PROVE Preferring'
    <2>1. PICK released \in BOOLEAN : Asks(r, [op |-> "RANK", released |-> released])
      BY <1>7 DEF Release
    <2> DEFINE h == [op |-> "RANK", released |-> released]
    <2>2. h \in AskingHandler /\ h.op # "REPLACE"
      BY DEF AskingHandler
    <2>3. UNCHANGED wishes
      BY <1>7 DEF Release
    <2> HIDE DEF h
    <2>4. QED
      BY <1>T, <2>1, <2>2, <2>3, PreferringRowStep DEF wishes, h
  <1>8. ASSUME NEW r \in Requests, Rank(r) PROVE Preferring'
    <2> DEFINE h == [op |-> "ANSWER", shown |-> asking[r].released \/ suppression = Null]
    <2>1. h \in AskingHandler /\ h.op # "REPLACE"
      BY DEF AskingHandler
    <2>2. Asks(r, h) /\ UNCHANGED <<changes, away, preferred>>
      BY <1>8 DEF Rank
    <2>3. suppression' \in Fingerprints \cup {Null}
      BY <1>8, <1>T DEF Rank
    <2> HIDE DEF h
    <2>4. QED
      BY <1>T, <2>1, <2>2, <2>3, PreferringRowStep
  <1>9. ASSUME NEW r \in Requests, Answer(r) \/ AbandonAsking(r) PROVE Preferring'
    BY <1>9, <1>I, <1>T, PreferringRowStep DEF Answer, AbandonAsking, wishes
  <1>10. ASSUME NEW r \in Requests, DismissBegins(r) PROVE Preferring'
    <2> DEFINE h == [op |-> "DISMISS", basis |-> Latest]
    <2>1. h \in AskingHandler /\ h.op # "REPLACE"
      BY <1>L DEF AskingHandler
    <2>2. Asks(r, h) /\ UNCHANGED wishes
      BY <1>10 DEF DismissBegins
    <2> HIDE DEF h
    <2>3. QED
      BY <1>T, <2>1, <2>2, PreferringRowStep DEF wishes
  <1>11. ASSUME NEW r \in Requests, Dismiss(r) PROVE Preferring'
    <2>1. asking[r].basis \in Fingerprints
      BY <1>T, <1>11, HandlersOfPreferences DEF Dismiss
    <2>2. /\ Asks(r, Idle) /\ UNCHANGED <<changes, preferred>>
          /\ suppression' = asking[r].basis /\ away' \in BOOLEAN
      BY <1>11 DEF Dismiss
    <2>3. QED
      BY <1>I, <2>1, <2>2, PreferringRowStep
  <1>12. CASE RestoreDismissed
    BY <1>12, <1>T DEF RestoreDismissed, Preferring, RecommendationsTypeOK
  <1>13. QED
    BY <1>1, <1>2, <1>3, <1>4, <1>5, <1>6, <1>7, <1>8, <1>9, <1>10, <1>11, <1>12 DEF WNext

(* Every reachable state of the preferences, the suppressions and the       *)
(* requests about them is well typed.                                       *)
THEOREM RecommendationsTypeCorrect == WSpec => []RecommendationsTypeOK
  <1>1. Preferring => RecommendationsTypeOK
    BY DEF Preferring
  <1>2. QED
    BY <1>1, PreferringInit, PreferringNext, PTL DEF WSpec

(* The list that is stored is one a client sent, as it was sent, however    *)
(* many patches are under way: the upsert that precedes the delete locks    *)
(* out the other patches until the inserts are committed.                   *)
THEOREM PreferencesNeverMixed == WSpec => []NoMixedPreferences
  <1>1. Preferring => NoMixedPreferences
    BY DEF Preferring, NoMixedPreferences
  <1>2. QED
    BY <1>1, PreferringInit, PreferringNext, PTL DEF WSpec

(* What the user dismissed and what stayed so is the basis of the open      *)
(* suppression; a listing only releases a suppression that is of other      *)
(* facts, and until it commits nobody dismisses the opportunity again.      *)
Suppressing ==
  /\ Preferring
  /\ away => suppression = Latest
  /\ \A r \in Requests : asking[r].op = "RANK" /\ asking[r].released => ~away

LEMMA SuppressingInit == WInit => Suppressing
  BY PreferringInit DEF WInit, Suppressing, Idle

(* A step of a request that releases nothing and dismisses nothing.          *)
LEMMA SuppressingRowStep ==
  ASSUME Suppressing, Preferring', NEW r \in Requests, NEW h \in AskingHandler, Asks(r, h),
         h.op # "RANK", UNCHANGED <<changes, suppression, away>>
  PROVE  Suppressing'
  <1>1. \A q \in Requests : asking'[q] = IF q = r THEN h ELSE asking[q]
    BY DEF Suppressing, Preferring, RecommendationsTypeOK, Asks
  <1>2. QED
    BY <1>1 DEF Suppressing, Latest

LEMMA SuppressingNext == Suppressing /\ [WNext]_wvars => Suppressing'
  <1> SUFFICES ASSUME Suppressing, [WNext]_wvars PROVE Suppressing'
    OBVIOUS
  <1>P. Preferring'
    BY PreferringNext DEF Suppressing
  <1>T. /\ asking \in [Requests -> AskingHandler]
        /\ changes \in Seq(Fingerprints) /\ Len(changes) \in 1..MaxChanges
        /\ suppression \in Fingerprints \cup {Null} /\ preferred \subseteq Values
    BY DEF Suppressing, Preferring, RecommendationsTypeOK
  <1>I. Idle \in AskingHandler /\ Idle.op # "RANK"
    BY DEF AskingHandler, Idle
  <1>L. Latest \in Fingerprints /\ Latest # Null
    BY <1>T, RecommendationAssumption DEF Latest
  <1>F. SuppressionFree =>
          \A q \in Requests : ~(asking[q].op = "RANK" /\ asking[q].released)
    BY DEF SuppressionFree
  <1>1. CASE UNCHANGED wvars
    BY <1>1, <1>P DEF wvars, wishes, Suppressing, Latest
  <1>2. ASSUME NEW f \in Fingerprints, ChangeOpportunity(f) PROVE Suppressing'
    <2>1. /\ changes' = Append(changes, f) /\ away' = (away /\ f = suppression)
          /\ UNCHANGED <<suppression, asking>>
      BY <1>2 DEF ChangeOpportunity
    <2>2. Latest' = f
      BY <1>T, <2>1, RecommendationAssumption DEF Latest
    <2>3. QED
      BY <1>P, <2>1, <2>2 DEF Suppressing
  <1>3. ASSUME NEW r \in Requests, NEW list \in Selections, PatchBegins(r, list)
        PROVE  Suppressing'
    <2> DEFINE h == [op |-> "PATCH", list |-> list]
    <2>1. h \in AskingHandler /\ h.op # "RANK"
      BY DEF AskingHandler
    <2>2. Asks(r, h) /\ UNCHANGED wishes
      BY <1>3 DEF PatchBegins
    <2> HIDE DEF h
    <2>3. QED
      BY <1>P, <2>1, <2>2, SuppressingRowStep DEF wishes
  <1>4. ASSUME NEW r \in Requests, DeleteList(r) PROVE Suppressing'
    <2> DEFINE h == [op |-> "REPLACE", list |-> asking[r].list, deleted |-> preferred]
    <2>1. asking[r].list \in Selections
      BY <1>T, <1>4, HandlersOfPreferences DEF DeleteList
    <2>2. h \in AskingHandler /\ h.op # "RANK"
      BY <1>T, <2>1 DEF AskingHandler
    <2>3. Asks(r, h) /\ UNCHANGED wishes
      BY <1>4 DEF DeleteList
    <2> HIDE DEF h
    <2>4. QED
      BY <1>P, <2>2, <2>3, SuppressingRowStep DEF wishes
  <1>5. ASSUME NEW r \in Requests, InsertList(r) PROVE Suppressing'
    BY <1>5, <1>I, <1>P, SuppressingRowStep DEF InsertList
  <1>6. ASSUME NEW r \in Requests, ListBegins(r) PROVE Suppressing'
    <2> DEFINE h == [op |-> "LIST"]
    <2>1. h \in AskingHandler /\ h.op # "RANK"
      BY DEF AskingHandler
    <2>2. Asks(r, h) /\ UNCHANGED wishes
      BY <1>6 DEF ListBegins
    <2> HIDE DEF h
    <2>3. QED
      BY <1>P, <2>1, <2>2, SuppressingRowStep DEF wishes
  <1>7. ASSUME NEW r \in Requests, Release(r) PROVE Suppressing'
    <2> DEFINE released == suppression # Null /\ MateriallyChanged(suppression)
               h == [op |-> "RANK", released |-> released]
    <2>1. asking' = [asking EXCEPT ![r] = h] /\ UNCHANGED wishes
      BY <1>7 DEF Release, Asks
    <2>2. h.released = released
      OBVIOUS
    <2>3. released => ~away
      BY DEF Suppressing, MateriallyChanged
    <2> HIDE DEF h, released
    <2>4. \A q \in Requests : asking'[q] = IF q = r THEN h ELSE asking[q]
      BY <1>T, <2>1
    <2>5. QED
      BY <1>P, <2>1, <2>2, <2>3, <2>4 DEF Suppressing, wishes, Latest
  <1>8. ASSUME NEW r \in Requests, Rank(r) PROVE Suppressing'
    <2> DEFINE h == [op |-> "ANSWER", shown |-> asking[r].released \/ suppression = Null]
    <2>1. /\ asking' = [asking EXCEPT ![r] = h] /\ UNCHANGED <<changes, away>>
          /\ asking[r].op = "RANK"
          /\ suppression' = IF asking[r].released THEN Null ELSE suppression
      BY <1>8 DEF Rank, Asks
    <2>2. h.op = "ANSWER"
      OBVIOUS
    <2> HIDE DEF h
    <2>3. \A q \in Requests : asking'[q] = IF q = r THEN h ELSE asking[q]
      BY <1>T, <2>1
    <2>4. asking[r].released => ~away
      BY <2>1 DEF Suppressing
    <2>5. QED
      BY <1>P, <2>1, <2>2, <2>3, <2>4 DEF Suppressing, Latest
  <1>9. ASSUME NEW r \in Requests, Answer(r) \/ AbandonAsking(r) PROVE Suppressing'
    BY <1>9, <1>I, <1>P, SuppressingRowStep DEF Answer, AbandonAsking, wishes
  <1>10. ASSUME NEW r \in Requests, DismissBegins(r) PROVE Suppressing'
    <2> DEFINE h == [op |-> "DISMISS", basis |-> Latest]
    <2>1. h \in AskingHandler /\ h.op # "RANK"
      BY <1>L DEF AskingHandler
    <2>2. Asks(r, h) /\ UNCHANGED wishes
      BY <1>10 DEF DismissBegins
    <2> HIDE DEF h
    <2>3. QED
      BY <1>P, <2>1, <2>2, SuppressingRowStep DEF wishes
  <1>11. ASSUME NEW r \in Requests, Dismiss(r) PROVE Suppressing'
    <2>1. /\ SuppressionFree /\ suppression' = asking[r].basis
          /\ away' = (asking[r].basis = Latest) /\ changes' = changes
          /\ asking' = [asking EXCEPT ![r] = Idle]
      BY <1>11 DEF Dismiss, Asks
    <2>2. \A q \in Requests : asking'[q] = IF q = r THEN Idle ELSE asking[q]
      BY <1>T, <2>1
    <2>3. QED
      BY <1>F, <1>I, <1>P, <2>1, <2>2 DEF Suppressing, Latest
  <1>12. CASE RestoreDismissed
    BY <1>12, <1>P DEF RestoreDismissed, Suppressing
  <1>13. QED
    BY <1>1, <1>2, <1>3, <1>4, <1>5, <1>6, <1>7, <1>8, <1>9, <1>10, <1>11, <1>12 DEF WNext

(* Only Rank turns a listing that was ranking into an answer.                *)
LEMMA RankAnswers ==
  ASSUME Suppressing, [WNext]_wvars, NEW r \in Requests,
         asking[r].op = "RANK", asking'[r].op = "ANSWER"
  PROVE  asking'[r].shown => ~away
  <1>T. asking \in [Requests -> AskingHandler]
    BY DEF Suppressing, Preferring, RecommendationsTypeOK
  <1>L. Latest # Null
    BY RecommendationAssumption DEF Latest, Suppressing, Preferring, RecommendationsTypeOK
  <1>S. \A q \in Requests : \A h : Asks(q, h) =>
          \A s \in Requests : asking'[s] = IF s = q THEN h ELSE asking[s]
    BY <1>T DEF Asks
  <1>1. ASSUME NEW q \in Requests, Rank(q) PROVE asking'[r].shown => ~away
    <2> DEFINE shown == asking[q].released \/ suppression = Null
               h == [op |-> "ANSWER", shown |-> shown]
    <2>1. Asks(q, h) /\ h.shown = shown
      BY <1>1 DEF Rank
    <2> HIDE DEF shown, h
    <2>2. asking'[r] = IF r = q THEN h ELSE asking[r]
      BY <1>S, <2>1
    <2>3. r = q
      BY <2>2
    <2>4. asking'[r].shown => asking[r].released \/ suppression = Null
      BY <2>1, <2>2, <2>3 DEF shown
    <2>5. QED
      BY <1>L, <2>4 DEF Suppressing
  <1>2. ASSUME UNCHANGED asking PROVE FALSE
    BY <1>2
  <1>3. ASSUME NEW q \in Requests, NEW h, Asks(q, h), h.op # "ANSWER" PROVE FALSE
    BY <1>3, <1>S
  <1>4. CASE UNCHANGED wvars \/ RestoreDismissed \/ \E f \in Fingerprints : ChangeOpportunity(f)
    BY <1>2, <1>4 DEF wvars, RestoreDismissed, ChangeOpportunity
  <1>5. ASSUME NEW q \in Requests,
               \/ \E list \in Selections : PatchBegins(q, list)
               \/ DeleteList(q) \/ InsertList(q) \/ ListBegins(q) \/ Release(q)
               \/ Answer(q) \/ DismissBegins(q) \/ Dismiss(q) \/ AbandonAsking(q)
        PROVE  FALSE
    <2>1. ASSUME NEW list \in Selections, PatchBegins(q, list) PROVE FALSE
      BY <1>3, <2>1 DEF PatchBegins
    <2>2. CASE DeleteList(q)
      BY <1>3, <2>2 DEF DeleteList
    <2>3. CASE InsertList(q) \/ Answer(q) \/ Dismiss(q) \/ AbandonAsking(q)
      BY <1>3, <2>3 DEF InsertList, Answer, Dismiss, AbandonAsking, Idle
    <2>4. CASE ListBegins(q)
      BY <1>3, <2>4 DEF ListBegins
    <2>5. CASE Release(q)
      BY <1>3, <2>5 DEF Release
    <2>6. CASE DismissBegins(q)
      BY <1>3, <2>6 DEF DismissBegins
    <2>7. QED
      BY <1>5, <2>1, <2>2, <2>3, <2>4, <2>5, <2>6
  <1>6. QED
    BY <1>1, <1>4, <1>5 DEF WNext

(* No listing shows facts the user dismissed and did not restore, though    *)
(* facts come back and listings, dismissals and restorations meet.          *)
THEOREM DismissalsHold == WSpec => DismissedStaysAway
  <1>1. Suppressing /\ [WNext]_wvars =>
          [\A r \in Requests :
             asking[r].op = "RANK" /\ asking'[r].op = "ANSWER" => ~(away /\ asking'[r].shown)]_wvars
    BY RankAnswers
  <1>2. QED
    BY <1>1, SuppressingInit, SuppressingNext, PTL DEF WSpec, DismissedStaysAway

-----------------------------------------------------------------------------
(* Postings and opportunities.                                             *)

(* An opportunity is active as long as its origin is one of its postings,   *)
(* and postings are in active opportunities: PostingsAreListed without its  *)
(* walk along the redirects.                                                *)
Listing(table, redirect) ==
  \A p \in Postings :
    IF table[p] # Null
    THEN /\ table[table[p].of] # Null /\ redirect[table[p].of] = Null
         /\ redirect[p] = Null <=> table[p].of = p
    ELSE redirect[p] = Null

(* Postings with a key are collected, and those found distinct are pinned.  *)
Marked(table, keys, apart) ==
  /\ \A p \in keys : table[p] # Null
  /\ \A pair \in apart : \A p \in pair : table[p] # Null /\ table[p].pinned

(* The rows of a transaction: what it read is still so when it goes on.     *)
Holds(h, table) ==
  CASE h.op = "MERGE" -> {h.winner, h.loser}
    [] h.op = "RESOLVE" -> {table[h.posting].of}
    [] h.op = "SPLIT" -> {h.posting}
    [] OTHER -> {}

Keeps(h) == IF h.op \in {"RESOLVE", "SPLIT"} THEN {h.posting} ELSE {}

Sane(h, table, redirect) ==
  /\ h.op \in {"RESOLVE", "SPLIT"} => table[h.posting] # Null
  /\ h.op = "MERGE" =>
       /\ h.winner # h.loser
       /\ \A o \in {h.winner, h.loser} : table[o] # Null /\ redirect[o] = Null

Correcting ==
  /\ GraphTypeOK
  /\ Listing(membership, superseded)
  /\ Marked(membership, keyed, distinct)
  /\ \A r \in Requests : Sane(correcting[r], membership, superseded)
  /\ \A r, s \in Requests : r # s =>
       /\ Holds(correcting[r], membership) \cap Holds(correcting[s], membership) = {}
       /\ Keeps(correcting[r]) \cap Keeps(correcting[s]) = {}

LEMMA Locks ==
  ASSUME NEW r \in Requests
  PROVE  /\ LockedOpportunities(r) = Holds(correcting[r], membership)
         /\ LockedMemberships(r) = Keeps(correcting[r])
  BY DEF LockedOpportunities, LockedMemberships, Holds, Keeps

LEMMA HandlersOfCorrection ==
  ASSUME NEW h \in Correction
  PROVE  /\ h.op \in {"RESOLVE", "SPLIT"} => h.posting \in Postings
         /\ h.op = "MERGE" => h.winner \in Postings /\ h.loser \in Postings
                              /\ h.review \in Pairs \cup {Null}
         /\ Idle \in Correction /\ Idle.op = "IDLE"
  BY DEF Correction, Idle

LEMMA CorrectingInit == OInit => Correcting
  BY DEF OInit, Correcting, GraphTypeOK, Listing, Marked, Sane, Holds, Keeps, Correction, Idle

(* A transaction that begins: it locks what nobody holds.                   *)
LEMMA CorrectingBegin ==
  ASSUME Correcting, NEW r \in Requests, NEW h \in Correction, Corrects(r, h),
         UNCHANGED graph, Sane(h, membership, superseded),
         \A s \in Requests \ {r} :
           /\ Holds(h, membership) \cap Holds(correcting[s], membership) = {}
           /\ Keeps(h) \cap Keeps(correcting[s]) = {}
  PROVE  Correcting'
  <1>1. /\ correcting' \in [Requests -> Correction]
        /\ \A s \in Requests : correcting'[s] = IF s = r THEN h ELSE correcting[s]
    BY DEF Correcting, GraphTypeOK, Corrects
  <1>2. /\ membership' = membership /\ superseded' = superseded /\ keyed' = keyed
        /\ reviews' = reviews /\ distinct' = distinct
    BY DEF graph
  <1>3. \A s \in Requests : Sane(correcting'[s], membership, superseded)
    BY <1>1 DEF Correcting
  <1>4. ASSUME NEW q \in Requests, NEW s \in Requests, q # s
        PROVE  /\ Holds(correcting'[q], membership) \cap Holds(correcting'[s], membership) = {}
               /\ Keeps(correcting'[q]) \cap Keeps(correcting'[s]) = {}
    BY <1>1, <1>4 DEF Correcting
  <1>5. GraphTypeOK'
    BY <1>1, <1>2 DEF Correcting, GraphTypeOK
  <1>6. QED
    BY <1>2, <1>3, <1>4, <1>5 DEF Correcting

(* What a step may do to the tables while transactions are under way.        *)
TablesFit ==
  /\ membership' \in [Postings -> MembershipRow \cup {Null}]
  /\ superseded' \in [Postings -> Postings \cup {Null}]
  /\ keyed' \subseteq Postings /\ reviews' \subseteq Pairs /\ distinct' \subseteq Pairs
  /\ Listing(membership', superseded') /\ Marked(membership', keyed', distinct')

OthersKept(others) ==
  \A s \in others : /\ Sane(correcting[s], membership', superseded')
                     /\ Holds(correcting[s], membership') = Holds(correcting[s], membership)

(* A transaction that ends: the others keep what they hold, and what they   *)
(* read.                                                                    *)
LEMMA CorrectingEnd ==
  ASSUME Correcting, NEW r \in Requests, Corrects(r, Idle), TablesFit,
         OthersKept(Requests \ {r})
  PROVE  Correcting'
  <1>1. Idle \in Correction
    BY DEF Correction
  <1>2. /\ correcting' \in [Requests -> Correction]
        /\ \A s \in Requests : correcting'[s] = IF s = r THEN Idle ELSE correcting[s]
    BY <1>1 DEF Correcting, GraphTypeOK, Corrects
  <1>3. /\ \A table : Holds(Idle, table) = {}
        /\ Keeps(Idle) = {} /\ Sane(Idle, membership', superseded')
    BY DEF Holds, Keeps, Sane, Idle
  <1>4. \A s \in Requests : Sane(correcting'[s], membership', superseded')
    BY <1>2, <1>3 DEF OthersKept
  <1>5. ASSUME NEW s \in Requests
        PROVE  /\ Holds(correcting'[s], membership') \subseteq Holds(correcting[s], membership)
               /\ Keeps(correcting'[s]) \subseteq Keeps(correcting[s])
    BY <1>2, <1>3 DEF OthersKept
  <1>6. ASSUME NEW q \in Requests, NEW s \in Requests, q # s
        PROVE  /\ Holds(correcting'[q], membership') \cap Holds(correcting'[s], membership') = {}
               /\ Keeps(correcting'[q]) \cap Keeps(correcting'[s]) = {}
    <2>1. /\ Holds(correcting[q], membership) \cap Holds(correcting[s], membership) = {}
          /\ Keeps(correcting[q]) \cap Keeps(correcting[s]) = {}
      BY <1>6 DEF Correcting
    <2>2. QED
      BY <1>5, <2>1
  <1>7. GraphTypeOK'
    BY <1>2 DEF GraphTypeOK, TablesFit
  <1>8. QED
    BY <1>4, <1>6, <1>7 DEF Correcting, TablesFit

(* A step that is none of a transaction under way.                          *)
LEMMA CorrectingBeside ==
  ASSUME Correcting, correcting' = correcting, TablesFit, OthersKept(Requests)
  PROVE  Correcting'
  <1>1. \A s \in Requests : Sane(correcting[s], membership', superseded')
    BY DEF OthersKept
  <1>2. \A q, s \in Requests : q # s =>
          /\ Holds(correcting[q], membership') \cap Holds(correcting[s], membership') = {}
          /\ Keeps(correcting[q]) \cap Keeps(correcting[s]) = {}
    BY DEF OthersKept, Correcting
  <1>3. GraphTypeOK'
    BY DEF GraphTypeOK, TablesFit, Correcting
  <1>4. QED
    BY <1>1, <1>2, <1>3 DEF Correcting, TablesFit

(* Where a transaction's posting stays where it is, it holds the same.       *)
LEMMA HoldsSame ==
  ASSUME NEW h \in Correction, NEW table, NEW table2,
         h.op = "RESOLVE" => table2[h.posting].of = table[h.posting].of
  PROVE  Holds(h, table2) = Holds(h, table)
  BY DEF Holds

LEMMA SaneSame ==
  ASSUME NEW h \in Correction, NEW table, NEW redirect, NEW table2, NEW redirect2,
         Sane(h, table, redirect),
         \A p \in Postings : table[p] # Null => table2[p] # Null,
         \A o \in Holds(h, table) : redirect[o] = Null => redirect2[o] = Null
  PROVE  Sane(h, table2, redirect2)
  <1>1. h.op = "MERGE" => h.winner \in Holds(h, table) /\ h.loser \in Holds(h, table)
    BY DEF Holds
  <1>2. QED
    BY <1>1, HandlersOfCorrection DEF Sane

(* Who keeps nothing that moves and holds nothing that is superseded is not *)
(* disturbed.                                                               *)
LEMMA Undisturbed ==
  ASSUME Correcting, NEW others, others \subseteq Requests,
         \A p \in Postings : membership[p] # Null => membership'[p] # Null,
         \A s \in others, p \in Postings :
           p \in Keeps(correcting[s]) => membership'[p].of = membership[p].of,
         \A s \in others, o \in Postings :
           o \in Holds(correcting[s], membership) /\ superseded[o] = Null
             => superseded'[o] = Null
  PROVE  OthersKept(others)
  <1>1. SUFFICES ASSUME NEW s \in others
                 PROVE  /\ Sane(correcting[s], membership', superseded')
                        /\ Holds(correcting[s], membership') = Holds(correcting[s], membership)
    BY DEF OthersKept
  <1>2. correcting[s] \in Correction /\ Sane(correcting[s], membership, superseded)
    BY DEF Correcting, GraphTypeOK
  <1>3. correcting[s].op = "RESOLVE" =>
          correcting[s].posting \in Keeps(correcting[s]) /\ correcting[s].posting \in Postings
    BY <1>2, HandlersOfCorrection DEF Keeps
  <1>4. Holds(correcting[s], membership') = Holds(correcting[s], membership)
    BY <1>2, <1>3, HoldsSame
  <1>5. Holds(correcting[s], membership) \subseteq Postings
    <2>1. correcting[s].op = "RESOLVE" => membership[correcting[s].posting].of \in Postings
      <3>1. ASSUME correcting[s].op = "RESOLVE"
            PROVE  membership[correcting[s].posting] \in MembershipRow
        BY <1>2, <1>3, <3>1 DEF Sane, Correcting, GraphTypeOK
      <3>2. QED
        BY <3>1 DEF MembershipRow
    <2>2. QED
      BY <1>2, <2>1, HandlersOfCorrection DEF Holds
  <1>6. Sane(correcting[s], membership', superseded')
    BY <1>2, <1>5, SaneSame
  <1>7. QED
    BY <1>4, <1>6

(* A new posting is the origin of an opportunity of its own.                *)
LEMMA CorrectingCollect ==
  ASSUME Correcting, NEW p \in Postings, Collect(p)
  PROVE  Correcting'
  <1> DEFINE row == Joined(p, TRUE, FALSE)
  <1>1. row \in MembershipRow /\ row.of = p
    BY DEF Joined, MembershipRow
  <1>2. row # Null
    BY <1>1, MembershipRowAssumption
  <1>3. /\ membership[p] = Null /\ membership' = [membership EXCEPT ![p] = row]
        /\ superseded' = superseded /\ keyed' = keyed /\ reviews' = reviews
        /\ distinct' = distinct /\ correcting' = correcting
    BY DEF Collect, Collected
  <1> HIDE DEF row
  <1>4. /\ membership \in [Postings -> MembershipRow \cup {Null}]
        /\ Listing(membership, superseded) /\ Marked(membership, keyed, distinct)
        /\ distinct \subseteq Pairs /\ keyed \subseteq Postings
    BY DEF Correcting, GraphTypeOK
  <1>5. \A q \in Postings : membership'[q] = IF q = p THEN row ELSE membership[q]
    BY <1>3, <1>4
  <1>6. \A q \in Postings : membership[q] # Null => membership[q].of \in Postings
    BY <1>4 DEF MembershipRow
  <1>7. superseded[p] = Null
    BY <1>3, <1>4 DEF Listing
  <1>8. Listing(membership', superseded)
    BY <1>1, <1>2, <1>3, <1>4, <1>5, <1>6, <1>7 DEF Listing
  <1>9. \A pair \in Pairs : pair \subseteq Postings
    BY DEF Pairs
  <1>10. Marked(membership', keyed, distinct)
    BY <1>3, <1>4, <1>5, <1>9 DEF Marked
  <1>11. membership' \in [Postings -> MembershipRow \cup {Null}]
    BY <1>1, <1>3, <1>4
  <1>12. TablesFit
    BY <1>3, <1>8, <1>10, <1>11 DEF TablesFit, Correcting, GraphTypeOK
  <1>13. ASSUME NEW s \in Requests, NEW q \in Keeps(correcting[s]) PROVE membership[q] # Null
    BY <1>13 DEF Correcting, Sane, Keeps
  <1>14. OthersKept(Requests)
    BY <1>2, <1>3, <1>5, <1>13, Undisturbed
  <1>15. QED
    BY <1>3, <1>12, <1>14, CorrectingBeside

(* What the tables say of a posting.                                        *)
LEMMA PostingFacts ==
  ASSUME Correcting, NEW p \in Postings, membership[p] # Null
  PROVE  /\ membership[p] \in MembershipRow /\ membership[p].of \in Postings
         /\ membership[membership[p].of] # Null /\ superseded[membership[p].of] = Null
         /\ membership[membership[p].of].of = membership[p].of
         /\ superseded[p] = Null <=> membership[p].of = p
  <1>1. membership[p] \in MembershipRow
    BY DEF Correcting, GraphTypeOK
  <1>2. membership[p].of \in Postings
    BY <1>1 DEF MembershipRow
  <1>3. QED
    BY <1>1, <1>2 DEF Correcting, Listing

LEMMA RowOfPosting ==
  ASSUME NEW o \in Postings, NEW singleton \in BOOLEAN, NEW pinned \in BOOLEAN
  PROVE  /\ Joined(o, singleton, pinned) \in MembershipRow
         /\ Joined(o, singleton, pinned) # Null
         /\ Joined(o, singleton, pinned).of = o
         /\ Joined(o, singleton, pinned).pinned = pinned
  <1>1. Joined(o, singleton, pinned) \in MembershipRow
    BY DEF Joined, MembershipRow
  <1>2. QED
    BY <1>1, MembershipRowAssumption DEF Joined

(* The resolver's move of the only posting of an opportunity, its origin,   *)
(* to an active one nobody has locked.                                      *)
LEMMA ResolverMoves ==
  ASSUME Correcting, NEW r \in Requests, NEW p \in Postings, NEW target \in Postings,
         correcting[r].op = "RESOLVE", correcting[r].posting = p,
         membership[p] # Null, ~membership[p].pinned,
         Members(membership[p].of) = {p},
         membership[target] # Null, superseded[target] = Null, target # membership[p].of,
         membership' = [membership EXCEPT ![p] = Joined(target, FALSE, FALSE)],
         superseded' = [superseded EXCEPT ![membership[p].of] = target],
         keyed' \subseteq keyed \cup {p}, distinct' = distinct
  PROVE  /\ membership' \in [Postings -> MembershipRow \cup {Null}]
         /\ superseded' \in [Postings -> Postings \cup {Null}]
         /\ Listing(membership', superseded') /\ Marked(membership', keyed', distinct')
         /\ OthersKept(Requests \ {r})
  <1> DEFINE row == Joined(target, FALSE, FALSE)
  <1>1. row \in MembershipRow /\ row # Null /\ row.of = target
    BY RowOfPosting
  <1>2. /\ membership \in [Postings -> MembershipRow \cup {Null}]
        /\ superseded \in [Postings -> Postings \cup {Null}]
        /\ Listing(membership, superseded) /\ Marked(membership, keyed, distinct)
        /\ distinct \subseteq Pairs /\ keyed \subseteq Postings
    BY DEF Correcting, GraphTypeOK
  <1>3. membership[p].of = p
    <2>1. membership[p].of \in Members(membership[p].of)
      BY PostingFacts DEF Members, Collected
    <2>2. QED
      BY <2>1
  <1> HIDE DEF row
  <1>4. /\ \A q \in Postings : membership'[q] = IF q = p THEN row ELSE membership[q]
        /\ \A q \in Postings : superseded'[q] = IF q = p THEN target ELSE superseded[q]
    BY <1>2, <1>3 DEF row
  <1>5. /\ membership' \in [Postings -> MembershipRow \cup {Null}]
        /\ superseded' \in [Postings -> Postings \cup {Null}]
    BY <1>1, <1>2, <1>3 DEF row
  <1>6. \A q \in Postings : q # p /\ membership[q] # Null => membership[q].of # p
    BY <1>3 DEF Members, Collected
  <1>7. Listing(membership', superseded')
    <2>1. SUFFICES ASSUME NEW q \in Postings
                   PROVE  IF membership'[q] # Null
                          THEN /\ membership'[membership'[q].of] # Null
                               /\ superseded'[membership'[q].of] = Null
                               /\ superseded'[q] = Null <=> membership'[q].of = q
                          ELSE superseded'[q] = Null
      BY DEF Listing
    <2>2. CASE q = p
      <3>1. /\ membership'[p] = row /\ superseded'[p] = target
            /\ membership'[target] = membership[target] /\ superseded'[target] = Null
        BY <1>3, <1>4
      <3>2. target # Null /\ target # p
        BY <1>3, PostingAssumption
      <3>3. QED
        BY <1>1, <2>2, <3>1, <3>2
    <2>3. CASE q # p /\ membership[q] # Null
      <3>1. membership'[q] = membership[q] /\ superseded'[q] = superseded[q]
        BY <1>4, <2>3
      <3>2. /\ membership[q].of \in Postings /\ membership[q].of # p
            /\ membership[membership[q].of] # Null /\ superseded[membership[q].of] = Null
            /\ superseded[q] = Null <=> membership[q].of = q
        BY <1>6, <2>3, PostingFacts
      <3>3. /\ membership'[membership[q].of] = membership[membership[q].of]
            /\ superseded'[membership[q].of] = superseded[membership[q].of]
        BY <1>4, <3>2
      <3>4. QED
        BY <2>3, <3>1, <3>2, <3>3
    <2>4. CASE q # p /\ membership[q] = Null
      BY <1>2, <1>4, <2>4 DEF Listing
    <2>5. QED
      BY <2>2, <2>3, <2>4
  <1>8. Marked(membership', keyed', distinct')
    <2>1. \A pair \in distinct : pair \subseteq Postings /\ p \notin pair
      BY <1>2 DEF Marked, Pairs
    <2>2. \A q \in keyed' : membership'[q] # Null
      <3>1. \A q \in keyed' : q \in Postings /\ (q = p \/ membership[q] # Null)
        BY <1>2 DEF Marked
      <3>2. QED
        BY <1>1, <1>4, <3>1, ZenonT(40)
    <2>3. ASSUME NEW pair \in distinct, NEW q \in pair
          PROVE  membership'[q] # Null /\ membership'[q].pinned
      <3>1. q \in Postings /\ q # p /\ membership[q] # Null /\ membership[q].pinned
        BY <1>2, <2>1 DEF Marked
      <3>2. membership'[q] = membership[q]
        BY <1>4, <3>1
      <3>3. QED
        BY <3>1, <3>2
    <2>4. QED
      BY <2>2, <2>3 DEF Marked
  <1>9. ASSUME NEW s \in Requests \ {r}
        PROVE  p \notin Keeps(correcting[s]) /\ p \notin Holds(correcting[s], membership)
    <2>1. p \in Keeps(correcting[r]) /\ p \in Holds(correcting[r], membership)
      BY <1>3 DEF Keeps, Holds
    <2>2. QED
      BY <2>1 DEF Correcting
  <1>10. OthersKept(Requests \ {r})
    <2>1. \A q \in Postings : membership[q] # Null => membership'[q] # Null
      BY <1>1, <1>4
    <2>2. \A s \in Requests \ {r}, q \in Postings :
            q \in Keeps(correcting[s]) => membership'[q].of = membership[q].of
      BY <1>4, <1>9
    <2>3. \A s \in Requests \ {r}, o \in Postings :
            o \in Holds(correcting[s], membership) /\ superseded[o] = Null
              => superseded'[o] = Null
      BY <1>4, <1>9
    <2>4. QED
      BY <2>1, <2>2, <2>3, Undisturbed
  <1>11. QED
    BY <1>5, <1>7, <1>8, <1>10

LEMMA CorrectingResolve ==
  ASSUME Correcting, NEW r \in Requests, NEW found \in BOOLEAN, Resolve(r, found)
  PROVE  Correcting'
  <1> DEFINE p == correcting[r].posting
             own == membership[p].of
             targets == MatchTargets(p)
  <1>1. /\ correcting[r] \in Correction /\ correcting[r].op = "RESOLVE"
        /\ Sane(correcting[r], membership, superseded)
    BY DEF Correcting, GraphTypeOK, Resolve
  <1>2. p \in Postings /\ membership[p] # Null
    BY <1>1, HandlersOfCorrection DEF Sane
  <1>3. /\ membership \in [Postings -> MembershipRow \cup {Null}]
        /\ superseded \in [Postings -> Postings \cup {Null}]
        /\ Listing(membership, superseded) /\ Marked(membership, keyed, distinct)
        /\ distinct \subseteq Pairs /\ keyed \subseteq Postings /\ reviews \subseteq Pairs
    BY DEF Correcting, GraphTypeOK
  <1>4. /\ keyed' \subseteq keyed \cup {p} /\ keyed' \subseteq Postings
        /\ distinct' = distinct /\ Corrects(r, Idle)
    BY <1>2, <1>3 DEF Resolve
  <1>5. reviews' \subseteq Pairs
    <2>1. ASSUME NEW similar \in SUBSET {q \in Postings : Apart(p, q)}
          PROVE  {{p, q} : q \in similar} \subseteq Pairs
      <3>1. \A q \in similar : q \in Postings /\ q # p
        BY DEF Apart
      <3>2. QED
        BY <1>2, <3>1 DEF Pairs
    <2>2. reviews' = reviews \/ \E similar \in SUBSET {q \in Postings : Apart(p, q)} :
                                   reviews' = reviews \cup {{p, q} : q \in similar}
      BY DEF Resolve
    <2>3. QED
      BY <1>3, <2>1, <2>2
  <1>6. ASSUME membership[p].singleton /\ found /\ Cardinality(targets) = 1 /\ MayMove(p)
        PROVE  Correcting'
    <2>1. PICK target \in targets :
             /\ membership' = [membership EXCEPT ![p] = Joined(target, FALSE, FALSE)]
             /\ superseded' = [superseded EXCEPT ![own] = target]
      BY <1>6 DEF Resolve
    <2>2. PICK q \in keyed \ {p} : superseded[membership[q].of] = Null /\ target = membership[q].of
      BY DEF MatchTargets
    <2>3. q \in Postings /\ membership[q] # Null
      BY <1>3 DEF Marked
    <2>4. /\ target \in Postings /\ membership[target] # Null /\ superseded[target] = Null
          /\ target # own
      BY <2>2, <2>3, PostingFacts DEF MatchTargets
    <2>5. Members(own) = {p} /\ ~membership[p].pinned
      <3>1. Members(own) \subseteq Postings /\ p \in Members(own)
        BY <1>2 DEF Members, Collected
      <3>2. IsFiniteSet(Members(own)) /\ Cardinality(Members(own)) = 1
        BY <1>6, <3>1, PostingAssumption, FS_Subset DEF MayMove
      <3>3. QED
        BY <1>6, <3>1, <3>2, FS_Singleton DEF MayMove
    <2>6. /\ membership' \in [Postings -> MembershipRow \cup {Null}]
          /\ superseded' \in [Postings -> Postings \cup {Null}]
          /\ Listing(membership', superseded') /\ Marked(membership', keyed', distinct')
          /\ OthersKept(Requests \ {r})
      BY <1>1, <1>2, <1>4, <2>1, <2>4, <2>5, ResolverMoves
    <2>7. TablesFit
      BY <1>3, <1>4, <1>5, <2>6 DEF TablesFit
    <2>8. QED
      BY <1>4, <2>6, <2>7, CorrectingEnd
  <1>7. ASSUME UNCHANGED <<membership, superseded>> PROVE Correcting'
    <2>1. Marked(membership, keyed', distinct)
      BY <1>2, <1>3, <1>4 DEF Marked
    <2>2. TablesFit
      BY <1>3, <1>4, <1>5, <1>7, <2>1 DEF TablesFit
    <2>3. OthersKept(Requests \ {r})
      BY <1>7, Undisturbed
    <2>4. QED
      BY <1>4, <2>2, <2>3, CorrectingEnd
  <1>8. QED
    BY <1>6, <1>7 DEF Resolve

WithPin(row) == [row EXCEPT !.pinned = TRUE]

LEMMA PinnedRow ==
  ASSUME NEW row \in MembershipRow
  PROVE  /\ WithPin(row) \in MembershipRow /\ WithPin(row) # Null
         /\ WithPin(row).of = row.of /\ WithPin(row).pinned
  <1>1. WithPin(row) \in MembershipRow /\ WithPin(row).of = row.of /\ WithPin(row).pinned
    BY DEF WithPin, MembershipRow
  <1>2. QED
    BY <1>1, MembershipRowAssumption

(* All postings of the loser go to the winner, and the loser is superseded. *)
LEMMA CorrectingMerge ==
  ASSUME Correcting, NEW r \in Requests, Merge(r)
  PROVE  Correcting'
  <1> DEFINE w == correcting[r].winner
             l == correcting[r].loser
  <1>1. /\ correcting[r] \in Correction /\ correcting[r].op = "MERGE"
        /\ Sane(correcting[r], membership, superseded)
    BY DEF Correcting, GraphTypeOK, Merge
  <1>2. /\ w \in Postings /\ l \in Postings /\ w # l
        /\ membership[w] # Null /\ superseded[w] = Null
        /\ membership[l] # Null /\ superseded[l] = Null
    BY <1>1, HandlersOfCorrection DEF Sane
  <1>3. /\ membership \in [Postings -> MembershipRow \cup {Null}]
        /\ superseded \in [Postings -> Postings \cup {Null}]
        /\ Listing(membership, superseded) /\ Marked(membership, keyed, distinct)
        /\ distinct \subseteq Pairs /\ keyed \subseteq Postings /\ reviews \subseteq Pairs
    BY DEF Correcting, GraphTypeOK
  <1>4. /\ superseded' = [superseded EXCEPT ![l] = w]
        /\ reviews' \subseteq reviews /\ keyed' = keyed /\ distinct' = distinct
        /\ Corrects(r, Idle)
        /\ \A p \in Members(w) \cup Members(l) : MembershipFree(r, p)
    BY DEF Merge
  <1>5. membership' = [p \in Postings |->
          IF p \in Members(w) THEN WithPin(membership[p])
          ELSE IF p \in Members(l) THEN Joined(w, FALSE, TRUE) ELSE membership[p]]
    BY DEF Merge, WithPin
  <1>6. \A p \in Postings : /\ p \in Members(w) <=> membership[p] # Null /\ membership[p].of = w
                            /\ p \in Members(l) <=> membership[p] # Null /\ membership[p].of = l
    BY DEF Members, Collected
  <1> HIDE DEF w, l
  <1>7. ASSUME NEW p \in Postings, membership[p] # Null
        PROVE  /\ membership'[p] \in MembershipRow /\ membership'[p] # Null
               /\ membership'[p].of = IF membership[p].of \in {w, l} THEN w ELSE membership[p].of
               /\ membership[p].pinned => membership'[p].pinned
    <2>1. membership[p] \in MembershipRow
      BY <1>3, <1>7
    <2>2. CASE p \in Members(w)
      <3>1. membership'[p] = WithPin(membership[p])
        BY <1>5, <2>2
      <3>2. QED
        BY <1>6, <2>1, <2>2, <3>1, PinnedRow
    <2>3. CASE p \notin Members(w) /\ p \in Members(l)
      <3>1. membership'[p] = Joined(w, FALSE, TRUE)
        BY <1>5, <2>3
      <3>2. QED
        BY <1>2, <1>6, <2>3, <3>1, RowOfPosting, ZenonT(40)
    <2>4. CASE p \notin Members(w) /\ p \notin Members(l)
      <3>1. membership'[p] = membership[p]
        BY <1>5, <2>4
      <3>2. QED
        BY <1>6, <1>7, <2>1, <2>4, <3>1
    <2>5. QED
      BY <2>2, <2>3, <2>4
  <1>8. ASSUME NEW p \in Postings, membership[p] = Null PROVE membership'[p] = Null
    BY <1>5, <1>6, <1>8
  <1>9. \A p \in Postings : superseded'[p] = IF p = l THEN w ELSE superseded[p]
    BY <1>3, <1>4
  <1>10. /\ superseded' \in [Postings -> Postings \cup {Null}]
         /\ membership' \in [Postings -> MembershipRow \cup {Null}]
    <2>1. \A p \in Postings : membership'[p] \in MembershipRow \cup {Null}
      BY <1>7, <1>8
    <2>2. membership' \in [Postings -> MembershipRow \cup {Null}]
      BY <1>5, <2>1
    <2>3. QED
      BY <1>2, <1>3, <1>4, <2>2
  <1>11. membership[w].of = w /\ membership[l].of = l /\ w # Null
    BY <1>2, PostingFacts, PostingAssumption
  <1>12. Listing(membership', superseded')
    <2>1. SUFFICES ASSUME NEW q \in Postings
                   PROVE  IF membership'[q] # Null
                          THEN /\ membership'[membership'[q].of] # Null
                               /\ superseded'[membership'[q].of] = Null
                               /\ superseded'[q] = Null <=> membership'[q].of = q
                          ELSE superseded'[q] = Null
      BY DEF Listing
    <2>2. CASE membership[q] = Null
      BY <1>2, <1>3, <1>8, <1>9, <2>2 DEF Listing
    <2>3. CASE membership[q] # Null /\ membership[q].of \in {w, l}
      <3>1. membership'[q] # Null /\ membership'[q].of = w
        BY <1>7, <2>3
      <3>2. membership'[w] # Null /\ superseded'[w] = Null
        BY <1>2, <1>7, <1>9
      <3>3. superseded[q] = Null <=> membership[q].of = q
        BY <2>3, PostingFacts
      <3>4. superseded'[q] = Null <=> w = q
        BY <1>2, <1>9, <1>11, <2>3, <3>3
      <3>5. QED
        BY <3>1, <3>2, <3>4
    <2>4. CASE membership[q] # Null /\ membership[q].of \notin {w, l}
      <3>1. membership'[q] # Null /\ membership'[q].of = membership[q].of
        BY <1>7, <2>4
      <3>2. /\ membership[q].of \in Postings /\ membership[membership[q].of] # Null
            /\ superseded[membership[q].of] = Null
            /\ superseded[q] = Null <=> membership[q].of = q
        BY <2>4, PostingFacts
      <3>3. membership'[membership[q].of] # Null /\ superseded'[membership[q].of] = Null
        BY <1>7, <1>9, <2>4, <3>2
      <3>4. q # l
        BY <1>11, <2>4
      <3>5. QED
        BY <1>9, <3>1, <3>2, <3>3, <3>4
    <2>5. QED
      BY <2>2, <2>3, <2>4
  <1>13. Marked(membership', keyed', distinct')
    <2>1. \A pair \in distinct : pair \subseteq Postings
      BY <1>3 DEF Pairs
    <2>2. QED
      BY <1>3, <1>4, <1>7, <2>1 DEF Marked
  <1>14. TablesFit
    BY <1>3, <1>4, <1>10, <1>12, <1>13 DEF TablesFit
  <1>15. OthersKept(Requests \ {r})
    <2>1. ASSUME NEW s \in Requests \ {r}, NEW q \in Postings, q \in Keeps(correcting[s])
          PROVE  membership'[q].of = membership[q].of
      <3>1. membership[q] # Null
        BY <2>1 DEF Correcting, Sane, Keeps
      <3>2. q \notin Members(l)
        BY <1>4, <2>1, Locks DEF MembershipFree
      <3>3. QED
        BY <1>6, <1>7, <3>1, <3>2
    <2>2. ASSUME NEW s \in Requests \ {r} PROVE l \notin Holds(correcting[s], membership)
      <3>1. l \in Holds(correcting[r], membership)
        BY <1>1 DEF Holds, l
      <3>2. QED
        BY <3>1 DEF Correcting
    <2>3. \A s \in Requests \ {r}, o \in Postings :
            o \in Holds(correcting[s], membership) /\ superseded[o] = Null
              => superseded'[o] = Null
      BY <1>9, <2>2
    <2>4. QED
      BY <1>7, <2>1, <2>3, Undisturbed
  <1>16. QED
    BY <1>4, <1>14, <1>15, CorrectingEnd

(* A posting goes back to its origin, which is active again; the            *)
(* opportunity it leaves is not empty, for its origin is one of its own.     *)
LEMMA SplitChanges ==
  ASSUME Correcting, NEW r \in Requests, Split(r)
  PROVE  /\ correcting[r].posting \in Postings /\ correcting[r].op = "SPLIT"
         /\ membership[correcting[r].posting] # Null
         /\ membership' = [membership EXCEPT ![correcting[r].posting] =
                             Joined(correcting[r].posting, FALSE, TRUE)]
         /\ superseded' = [superseded EXCEPT ![correcting[r].posting] = Null]
  <1> DEFINE p == correcting[r].posting
             from == membership[p].of
  <1>1. /\ correcting[r] \in Correction /\ correcting[r].op = "SPLIT"
        /\ Sane(correcting[r], membership, superseded)
    BY DEF Correcting, GraphTypeOK, Split
  <1>2. p \in Postings /\ membership[p] # Null
    BY <1>1, HandlersOfCorrection DEF Sane
  <1>3. Members(from) = {p} => from = p
    BY <1>2, PostingFacts DEF Members, Collected
  <1>4. superseded' = [o \in Postings |->
          IF o = p THEN Null
          ELSE IF o = from /\ Members(from) = {p} THEN p ELSE superseded[o]]
    BY DEF Split
  <1>5. superseded \in [Postings -> Postings \cup {Null}]
    BY DEF Correcting, GraphTypeOK
  <1>6. superseded' = [superseded EXCEPT ![p] = Null]
    BY <1>3, <1>4, <1>5
  <1>7. QED
    BY <1>1, <1>2, <1>6 DEF Split

LEMMA CorrectingSplit ==
  ASSUME Correcting, NEW r \in Requests, Split(r)
  PROVE  Correcting'
  <1> DEFINE p == correcting[r].posting
             row == Joined(p, FALSE, TRUE)
  <1>1. /\ p \in Postings /\ correcting[r].op = "SPLIT" /\ membership[p] # Null
        /\ membership' = [membership EXCEPT ![p] = row]
        /\ superseded' = [superseded EXCEPT ![p] = Null]
    BY SplitChanges
  <1>2. /\ membership \in [Postings -> MembershipRow \cup {Null}]
        /\ superseded \in [Postings -> Postings \cup {Null}]
        /\ Listing(membership, superseded) /\ Marked(membership, keyed, distinct)
        /\ distinct \subseteq Pairs /\ keyed \subseteq Postings /\ reviews \subseteq Pairs
    BY DEF Correcting, GraphTypeOK
  <1>3. row \in MembershipRow /\ row # Null /\ row.of = p /\ row.pinned
    BY <1>1, RowOfPosting
  <1>4. Corrects(r, Idle) /\ keyed' = keyed /\ reviews' = reviews /\ distinct' = distinct
    BY DEF Split
  <1>5. p \in Keeps(correcting[r])
    BY <1>1 DEF Keeps
  <1> HIDE DEF p, row
  <1>6. /\ \A q \in Postings : membership'[q] = IF q = p THEN row ELSE membership[q]
        /\ \A q \in Postings : superseded'[q] = IF q = p THEN Null ELSE superseded[q]
    BY <1>1, <1>2
  <1>7. /\ membership' \in [Postings -> MembershipRow \cup {Null}]
        /\ superseded' \in [Postings -> Postings \cup {Null}]
    BY <1>1, <1>2, <1>3
  <1>8. Listing(membership', superseded')
    <2>1. SUFFICES ASSUME NEW q \in Postings
                   PROVE  IF membership'[q] # Null
                          THEN /\ membership'[membership'[q].of] # Null
                               /\ superseded'[membership'[q].of] = Null
                               /\ superseded'[q] = Null <=> membership'[q].of = q
                          ELSE superseded'[q] = Null
      BY DEF Listing
    <2>2. CASE q = p
      BY <1>1, <1>3, <1>6, <2>2
    <2>3. CASE q # p /\ membership[q] # Null
      <3>1. membership'[q] = membership[q] /\ superseded'[q] = superseded[q]
        BY <1>6, <2>3
      <3>2. /\ membership[q].of \in Postings /\ membership[membership[q].of] # Null
            /\ superseded[membership[q].of] = Null
            /\ superseded[q] = Null <=> membership[q].of = q
        BY <2>3, PostingFacts
      <3>3. membership'[membership[q].of] # Null /\ superseded'[membership[q].of] = Null
        BY <1>3, <1>6, <3>2
      <3>4. QED
        BY <2>3, <3>1, <3>2, <3>3
    <2>4. CASE q # p /\ membership[q] = Null
      BY <1>2, <1>6, <2>4 DEF Listing
    <2>5. QED
      BY <2>2, <2>3, <2>4
  <1>9. Marked(membership', keyed', distinct')
    <2>1. \A pair \in distinct : pair \subseteq Postings
      BY <1>2 DEF Pairs
    <2>2. QED
      BY <1>2, <1>3, <1>4, <1>6, <2>1 DEF Marked
  <1>10. TablesFit
    BY <1>2, <1>4, <1>7, <1>8, <1>9 DEF TablesFit
  <1>11. OthersKept(Requests \ {r})
    <2>1. \A s \in Requests \ {r} : p \notin Keeps(correcting[s])
      BY <1>5 DEF Correcting
    <2>2. \A s \in Requests \ {r}, q \in Postings :
            q \in Keeps(correcting[s]) => membership'[q].of = membership[q].of
      BY <1>6, <2>1
    <2>3. /\ \A q \in Postings : membership[q] # Null => membership'[q] # Null
          /\ \A o \in Postings : superseded[o] = Null => superseded'[o] = Null
      BY <1>3, <1>6
    <2>4. QED
      BY <2>2, <2>3, Undisturbed
  <1>12. QED
    BY <1>4, <1>10, <1>11, CorrectingEnd

LEMMA PairsOfPostings ==
  ASSUME NEW pair \in Pairs
  PROVE  pair \subseteq Postings /\ \A p \in pair : \E q \in pair : p # q
  BY DEF Pairs

LEMMA CorrectingDismiss ==
  ASSUME Correcting, NEW r \in Requests, NEW pair \in reviews, DismissReview(r, pair)
  PROVE  Correcting'
  <1>1. /\ membership \in [Postings -> MembershipRow \cup {Null}]
        /\ superseded \in [Postings -> Postings \cup {Null}]
        /\ Listing(membership, superseded) /\ Marked(membership, keyed, distinct)
        /\ distinct \subseteq Pairs /\ keyed \subseteq Postings /\ reviews \subseteq Pairs
    BY DEF Correcting, GraphTypeOK
  <1>2. /\ membership' = [p \in Postings |->
             IF p \in pair THEN WithPin(membership[p]) ELSE membership[p]]
        /\ reviews' = reviews \ {pair} /\ distinct' = distinct \cup {pair}
        /\ superseded' = superseded /\ keyed' = keyed /\ correcting' = correcting
    BY DEF DismissReview, WithPin
  <1>3. \A p \in pair : p \in Postings /\ membership[p] # Null
    BY <1>1, PairsOfPostings DEF DismissReview, Apart, Collected
  <1>4. ASSUME NEW p \in Postings
        PROVE  /\ membership'[p] \in MembershipRow \cup {Null}
               /\ membership'[p] # Null <=> membership[p] # Null
               /\ membership[p] # Null => membership'[p].of = membership[p].of
               /\ membership[p] # Null /\ membership[p].pinned => membership'[p].pinned
               /\ p \in pair => membership'[p].pinned
    <2>1. membership'[p] = IF p \in pair THEN WithPin(membership[p]) ELSE membership[p]
      BY <1>2
    <2>2. membership[p] \in MembershipRow \cup {Null}
      BY <1>1
    <2>3. CASE p \in pair
      BY <1>3, <2>1, <2>2, <2>3, PinnedRow
    <2>4. CASE p \notin pair
      BY <2>1, <2>2, <2>4
    <2>5. QED
      BY <2>3, <2>4
  <1>5. membership' \in [Postings -> MembershipRow \cup {Null}]
    BY <1>2, <1>4
  <1>6. Listing(membership', superseded)
    <2>1. SUFFICES ASSUME NEW q \in Postings
                   PROVE  IF membership'[q] # Null
                          THEN /\ membership'[membership'[q].of] # Null
                               /\ superseded[membership'[q].of] = Null
                               /\ superseded[q] = Null <=> membership'[q].of = q
                          ELSE superseded[q] = Null
      BY DEF Listing
    <2>2. CASE membership[q] # Null
      BY <1>4, <2>2, PostingFacts
    <2>3. CASE membership[q] = Null
      BY <1>1, <1>4, <2>3 DEF Listing
    <2>4. QED
      BY <2>2, <2>3
  <1>7. Marked(membership', keyed, distinct')
    <2>1. \A q \in keyed : membership'[q] # Null
      BY <1>1, <1>4 DEF Marked
    <2>2. ASSUME NEW other \in distinct', NEW q \in other
          PROVE  membership'[q] # Null /\ membership'[q].pinned
      <3>1. CASE other = pair
        BY <1>3, <1>4, <2>2, <3>1
      <3>2. CASE other \in distinct
        <4>1. q \in Postings /\ membership[q] # Null /\ membership[q].pinned
          BY <1>1, <2>2, <3>2, PairsOfPostings DEF Marked
        <4>2. QED
          BY <1>4, <4>1
      <3>3. QED
        BY <1>2, <3>1, <3>2
    <2>3. QED
      BY <2>1, <2>2 DEF Marked
  <1>8. TablesFit
    BY <1>1, <1>2, <1>5, <1>6, <1>7 DEF TablesFit
  <1>9. ASSUME NEW s \in Requests, NEW q \in Keeps(correcting[s]) PROVE membership[q] # Null
    BY <1>9 DEF Correcting, Sane, Keeps
  <1>10. OthersKept(Requests)
    BY <1>2, <1>4, <1>9, Undisturbed
  <1>11. QED
    BY <1>2, <1>8, <1>10, CorrectingBeside

LEMMA CorrectingNext == Correcting /\ [ONext]_ovars => Correcting'
  <1> SUFFICES ASSUME Correcting, [ONext]_ovars PROVE Correcting'
    OBVIOUS
  <1>F. \A r, s \in Requests : \A o : s # r /\ OpportunityFree(r, o) =>
          o \notin Holds(correcting[s], membership)
    BY Locks DEF OpportunityFree
  <1>G. \A r, s \in Requests : \A p : s # r /\ MembershipFree(r, p) => p \notin Keeps(correcting[s])
    BY Locks DEF MembershipFree
  <1>1. CASE UNCHANGED ovars
    BY <1>1 DEF ovars, graph, Correcting, GraphTypeOK
  <1>2. ASSUME NEW p \in Postings, Collect(p) PROVE Correcting'
    BY <1>2, CorrectingCollect
  <1>3. ASSUME NEW r \in Requests, NEW p \in Postings, ResolveBegins(r, p) PROVE Correcting'
    <2> DEFINE h == [op |-> "RESOLVE", posting |-> p]
    <2>1. h \in Correction /\ h.op = "RESOLVE" /\ h.posting = p
      BY DEF Correction
    <2>2. Corrects(r, h) /\ UNCHANGED graph /\ membership[p] # Null
      BY <1>3 DEF ResolveBegins, Collected
    <2> HIDE DEF h
    <2>3. Holds(h, membership) = {membership[p].of} /\ Keeps(h) = {p}
      BY <2>1 DEF Holds, Keeps
    <2>4. Sane(h, membership, superseded)
      BY <2>1, <2>2 DEF Sane
    <2>5. OpportunityFree(r, membership[p].of) /\ MembershipFree(r, p)
      BY <1>3 DEF ResolveBegins
    <2>6. QED
      BY <1>F, <1>G, <2>1, <2>2, <2>3, <2>4, <2>5, CorrectingBegin
  <1>4. ASSUME NEW r \in Requests, NEW found \in BOOLEAN, Resolve(r, found) PROVE Correcting'
    BY <1>4, CorrectingResolve
  <1>5. ASSUME NEW r \in Requests, NEW winner \in Postings, NEW loser \in Postings,
               NEW review \in reviews \cup {Null}, MergeBegins(r, winner, loser, review)
        PROVE  Correcting'
    <2> DEFINE h == [op |-> "MERGE", winner |-> winner, loser |-> loser, review |-> review]
    <2>1. review \in Pairs \cup {Null}
      BY DEF Correcting, GraphTypeOK
    <2>2. /\ h \in Correction /\ h.op = "MERGE" /\ h.winner = winner /\ h.loser = loser
      BY <2>1 DEF Correction
    <2>3. Corrects(r, h) /\ UNCHANGED graph
      BY <1>5 DEF MergeBegins
    <2> HIDE DEF h
    <2>4. Holds(h, membership) = {winner, loser} /\ Keeps(h) = {}
      BY <2>2 DEF Holds, Keeps
    <2>5. Sane(h, membership, superseded)
      BY <1>5, <2>2 DEF Sane, MergeBegins, BothActive, ActiveOpportunity, Collected
    <2>6. OpportunityFree(r, winner) /\ OpportunityFree(r, loser)
      BY <1>5 DEF MergeBegins
    <2>7. QED
      BY <1>F, <2>2, <2>3, <2>4, <2>5, <2>6, CorrectingBegin
  <1>6. ASSUME NEW r \in Requests, Merge(r) \/ Split(r) PROVE Correcting'
    BY <1>6, CorrectingMerge, CorrectingSplit
  <1>7. ASSUME NEW r \in Requests, NEW p \in Postings, SplitBegins(r, p) PROVE Correcting'
    <2> DEFINE h == [op |-> "SPLIT", posting |-> p]
    <2>1. h \in Correction /\ h.op = "SPLIT" /\ h.posting = p
      BY DEF Correction
    <2>2. Corrects(r, h) /\ UNCHANGED graph /\ membership[p] # Null
      BY <1>7 DEF SplitBegins, Collected
    <2> HIDE DEF h
    <2>3. Holds(h, membership) = {p} /\ Keeps(h) = {p}
      BY <2>1 DEF Holds, Keeps
    <2>4. Sane(h, membership, superseded)
      BY <2>1, <2>2 DEF Sane
    <2>5. OpportunityFree(r, p) /\ MembershipFree(r, p)
      BY <1>7 DEF SplitBegins
    <2>6. QED
      BY <1>F, <1>G, <2>1, <2>2, <2>3, <2>4, <2>5, CorrectingBegin
  <1>8. ASSUME NEW r \in Requests, NEW pair \in reviews, DismissReview(r, pair)
        PROVE  Correcting'
    BY <1>8, CorrectingDismiss
  <1>9. ASSUME NEW r \in Requests, AbandonCorrection(r) PROVE Correcting'
    <2>1. /\ Corrects(r, Idle) /\ membership' = membership /\ superseded' = superseded
          /\ keyed' = keyed /\ reviews' = reviews /\ distinct' = distinct
      BY <1>9 DEF AbandonCorrection, graph
    <2>2. TablesFit
      BY <2>1 DEF TablesFit, Correcting, GraphTypeOK
    <2>3. OthersKept(Requests \ {r})
      BY <2>1, Undisturbed
    <2>4. QED
      BY <2>1, <2>2, <2>3, CorrectingEnd
  <1>10. QED
    BY <1>1, <1>2, <1>3, <1>4, <1>5, <1>6, <1>7, <1>8, <1>9 DEF ONext

LEMMA CorrectingAlways == OSpec => []Correcting
  BY CorrectingInit, CorrectingNext, PTL DEF OSpec

(* Every reachable state of the graph of postings is well typed.            *)
THEOREM GraphTypeCorrect == OSpec => []GraphTypeOK
  <1>1. Correcting => GraphTypeOK
    BY DEF Correcting
  <1>2. QED
    BY <1>1, CorrectingAlways, PTL

(* A step redirects nothing, or it redirects to an active opportunity.       *)
Redirects ==
  \A o \in Postings :
    \/ superseded'[o] = superseded[o]
    \/ superseded'[o] = Null
    \/ /\ superseded'[o] \in Postings
       /\ membership'[superseded'[o]] # Null /\ superseded'[superseded'[o]] = Null

LEMMA StepRedirects ==
  Correcting /\ [ONext]_ovars =>
    Redirects /\ \A o \in Postings : Collected(o) => Collected(o)'
  <1> SUFFICES ASSUME Correcting, [ONext]_ovars
               PROVE  Redirects /\ \A o \in Postings : Collected(o) => Collected(o)'
    OBVIOUS
  <1>1. /\ membership \in [Postings -> MembershipRow \cup {Null}]
        /\ superseded \in [Postings -> Postings \cup {Null}] /\ Correcting'
        /\ superseded' \in [Postings -> Postings \cup {Null}]
    BY CorrectingNext DEF Correcting, GraphTypeOK
  <1>2. CASE UNCHANGED graph
    BY <1>2 DEF graph, Redirects, Collected
  <1>3. ASSUME NEW p \in Postings, Collect(p)
        PROVE  Redirects /\ \A o \in Postings : Collected(o) => Collected(o)'
    <2> DEFINE row == Joined(p, TRUE, FALSE)
    <2>1. row # Null
      BY RowOfPosting
    <2> HIDE DEF row
    <2>2. superseded' = superseded /\ membership' = [membership EXCEPT ![p] = row]
      BY <1>3 DEF Collect, row
    <2>3. QED
      BY <1>1, <2>1, <2>2 DEF Redirects, Collected
  <1>4. ASSUME NEW r \in Requests, NEW found \in BOOLEAN, Resolve(r, found)
        PROVE  Redirects /\ \A o \in Postings : Collected(o) => Collected(o)'
    <2> DEFINE p == correcting[r].posting
               own == membership[p].of
    <2>1. p \in Postings /\ membership[p] # Null /\ own \in Postings
      <3>1. /\ correcting[r] \in Correction /\ correcting[r].op = "RESOLVE"
            /\ Sane(correcting[r], membership, superseded)
        BY <1>4 DEF Correcting, GraphTypeOK, Resolve
      <3>2. p \in Postings /\ membership[p] # Null
        BY <3>1, HandlersOfCorrection DEF Sane
      <3>3. QED
        BY <3>2, PostingFacts
    <2>2. CASE UNCHANGED <<membership, superseded>>
      BY <2>2 DEF Redirects, Collected
    <2>3. CASE \E target \in MatchTargets(p) :
                 /\ membership' = [membership EXCEPT ![p] = Joined(target, FALSE, FALSE)]
                 /\ superseded' = [superseded EXCEPT ![own] = target]
      <3>1. PICK target \in MatchTargets(p) :
                 /\ membership' = [membership EXCEPT ![p] = Joined(target, FALSE, FALSE)]
                 /\ superseded' = [superseded EXCEPT ![own] = target]
        BY <2>3
      <3>2. PICK q \in keyed \ {p} :
              superseded[membership[q].of] = Null /\ target = membership[q].of
        BY DEF MatchTargets
      <3>3. q \in Postings /\ membership[q] # Null
        BY DEF Correcting, GraphTypeOK, Marked
      <3>4. /\ target \in Postings /\ membership[target] # Null /\ superseded[target] = Null
            /\ target # own
        BY <3>2, <3>3, PostingFacts DEF MatchTargets
      <3> DEFINE row == Joined(target, FALSE, FALSE)
      <3>5. row # Null
        BY <3>4, RowOfPosting
      <3> HIDE DEF row, p, own
      <3>6. /\ \A o \in Postings : membership'[o] = IF o = p THEN row ELSE membership[o]
            /\ \A o \in Postings : superseded'[o] = IF o = own THEN target ELSE superseded[o]
        BY <1>1, <2>1, <3>1 DEF row
      <3>7. \A o \in Postings : Collected(o) => Collected(o)'
        BY <3>5, <3>6 DEF Collected
      <3>8. membership'[target] # Null /\ superseded'[target] = Null
        BY <3>4, <3>5, <3>6
      <3>9. QED
        BY <3>4, <3>6, <3>7, <3>8 DEF Redirects
    <2>4. QED
      BY <1>4, <2>2, <2>3 DEF Resolve
  <1>5. ASSUME NEW r \in Requests, Merge(r)
        PROVE  Redirects /\ \A o \in Postings : Collected(o) => Collected(o)'
    <2> DEFINE w == correcting[r].winner
               l == correcting[r].loser
    <2>1. /\ correcting[r] \in Correction /\ correcting[r].op = "MERGE"
          /\ Sane(correcting[r], membership, superseded)
      BY <1>5 DEF Correcting, GraphTypeOK, Merge
    <2>2. /\ w \in Postings /\ l \in Postings /\ w # l
          /\ membership[w] # Null /\ superseded[w] = Null
      BY <2>1, HandlersOfCorrection DEF Sane
    <2>3. membership' = [p \in Postings |->
            IF p \in Members(w) THEN WithPin(membership[p])
            ELSE IF p \in Members(l) THEN Joined(w, FALSE, TRUE) ELSE membership[p]]
      BY <1>5 DEF Merge, WithPin
    <2>4. superseded' = [superseded EXCEPT ![l] = w]
      BY <1>5 DEF Merge
    <2> HIDE DEF w, l
    <2>5. ASSUME NEW o \in Postings, membership[o] # Null PROVE membership'[o] # Null
      <3>1. membership[o] \in MembershipRow
        BY <1>1, <2>5
      <3>2. WithPin(membership[o]) # Null /\ Joined(w, FALSE, TRUE) # Null
        BY <2>2, <3>1, PinnedRow, RowOfPosting
      <3>3. QED
        BY <2>3, <2>5, <3>2
    <2>6. \A o \in Postings : superseded'[o] = IF o = l THEN w ELSE superseded[o]
      BY <1>1, <2>2, <2>4
    <2>7. membership'[w] # Null /\ superseded'[w] = Null
      BY <2>2, <2>5, <2>6
    <2>8. QED
      BY <2>2, <2>5, <2>6, <2>7 DEF Redirects, Collected
  <1>6. ASSUME NEW r \in Requests, Split(r)
        PROVE  Redirects /\ \A o \in Postings : Collected(o) => Collected(o)'
    <2> DEFINE p == correcting[r].posting
               row == Joined(p, FALSE, TRUE)
    <2>1. /\ p \in Postings
          /\ membership' = [membership EXCEPT ![p] = row]
          /\ superseded' = [superseded EXCEPT ![p] = Null]
      BY <1>6, SplitChanges
    <2>2. row # Null
      BY <2>1, RowOfPosting
    <2> HIDE DEF p, row
    <2>3. QED
      BY <1>1, <2>1, <2>2 DEF Redirects, Collected
  <1>7. ASSUME NEW r \in Requests, NEW pair \in reviews, DismissReview(r, pair)
        PROVE  Redirects /\ \A o \in Postings : Collected(o) => Collected(o)'
    <2>1. superseded' = superseded
      BY <1>7 DEF DismissReview
    <2>2. membership' = [p \in Postings |->
            IF p \in pair THEN WithPin(membership[p]) ELSE membership[p]]
      BY <1>7 DEF DismissReview, WithPin
    <2>3. ASSUME NEW o \in Postings, membership[o] # Null PROVE membership'[o] # Null
      <3>1. membership[o] \in MembershipRow
        BY <1>1, <2>3
      <3>2. WithPin(membership[o]) # Null
        BY <3>1, PinnedRow
      <3>3. QED
        BY <2>2, <2>3, <3>2
    <2>4. QED
      BY <2>1, <2>3 DEF Redirects, Collected
  <1>8. QED
    BY <1>2, <1>3, <1>4, <1>5, <1>6, <1>7
       DEF ONext, ovars, ResolveBegins, MergeBegins, SplitBegins, AbandonCorrection

(* No redirects go round, and they lead to what was collected.               *)
Endless(C, redirect) == \A o \in C : redirect[o] # Null /\ redirect[o] \in C

Redirected ==
  /\ \A C \in SUBSET Postings : Endless(C, superseded) => C = {}
  /\ \A o \in Postings : superseded[o] # Null => Collected(superseded[o])

LEMMA RedirectedInit == OInit => Redirected
  BY DEF OInit, Redirected, Endless

(* A round in the redirects has none that was made by this step: it leads to *)
(* an active opportunity, which is not in a round.                           *)
LEMMA RedirectedNext == Correcting /\ Redirected /\ [ONext]_ovars => Redirected'
  <1> SUFFICES ASSUME Correcting, Redirected, [ONext]_ovars PROVE Redirected'
    OBVIOUS
  <1>1. Redirects /\ \A o \in Postings : Collected(o) => Collected(o)'
    BY StepRedirects
  <1>2. superseded \in [Postings -> Postings \cup {Null}]
    BY DEF Correcting, GraphTypeOK
  <1>3. ASSUME NEW C \in SUBSET Postings, Endless(C, superseded') PROVE C = {}
    <2>1. \A o \in C : superseded'[o] = superseded[o]
      BY <1>1, <1>3 DEF Redirects, Endless
    <2>2. Endless(C, superseded)
      BY <1>3, <2>1 DEF Endless
    <2>3. QED
      BY <2>2 DEF Redirected
  <1>4. ASSUME NEW o \in Postings, superseded'[o] # Null PROVE membership'[superseded'[o]] # Null
    <2>1. CASE superseded'[o] = superseded[o]
      <3>1. superseded[o] \in Postings /\ Collected(superseded[o])
        BY <1>2, <1>4, <2>1 DEF Redirected
      <3>2. QED
        BY <1>1, <2>1, <3>1 DEF Collected
    <2>2. CASE superseded'[o] # superseded[o]
      BY <1>1, <1>4, <2>2 DEF Redirects
    <2>3. QED
      BY <2>1, <2>2
  <1>5. QED
    BY <1>3, <1>4 DEF Redirected, Collected

(* Along the redirects: each walk is one redirect longer than the last.      *)
LEMMA WalkSteps ==
  ASSUME Correcting
  PROVE  /\ Walk[0] = [o \in Postings |-> o]
         /\ \A n \in 0..Cardinality(Postings) : Walk[n] \in [Postings -> Postings]
         /\ \A n \in 1..Cardinality(Postings), o \in Postings :
              Walk[n][o] = IF superseded[o] = Null THEN o ELSE Walk[n - 1][superseded[o]]
  <1> DEFINE last == Cardinality(Postings)
             redirect == superseded
             Walks == [Postings -> Postings]
             Along(g) == [o \in Postings |-> IF redirect[o] = Null THEN o ELSE g[redirect[o]]]
             first == [o \in Postings |-> o]
             further == [g \in Walks |-> Along(g)]
             Follows(f) == f = [n \in 0..last |-> IF n = 0 THEN first ELSE Along(f[n - 1])]
  <1>1. last \in Nat
    BY PostingAssumption, FS_CardinalityType
  <1>2. \A o \in Postings : redirect[o] \in Postings \cup {Null}
    BY DEF Correcting, GraphTypeOK
  <1>3. first \in Walks /\ further \in [Walks -> Walks]
    BY <1>2
  <1>4. \E f \in [0..last -> Walks] : Follows(f)
    <2>1. PICK f : Iterates(f, Walks, first, further, last)
      <3> HIDE DEF first, further, Walks, last, Follows
      <3>1. QED
        BY <1>1, <1>3, IterationExists
    <2>2. \A n \in 1..last : f[n] = Along(f[n - 1])
      <3>1. \A n \in 1..last : f[n - 1] \in Walks
        BY <1>1, <2>1 DEF Iterates
      <3> HIDE DEF Along, Walks, last
      <3>2. QED
        BY <2>1, <3>1 DEF Iterates
    <2> HIDE DEF first, further, Along, Walks
    <2>3. \A n \in 0..last : n # 0 => n \in 1..last
      OBVIOUS
    <2>4. Follows(f) /\ f \in [0..last -> Walks]
      BY <2>1, <2>2, <2>3 DEF Iterates
    <2>5. QED
      BY <2>4
  <1>5. Walk = CHOOSE f : Follows(f)
    BY DEF Walk
  <1>6. Follows(Walk)
    <2> HIDE DEF Follows
    <2>1. QED
      BY <1>4, <1>5
  <1> HIDE DEF redirect
  <1>7. Walk[0] = first /\ \A n \in 1..last : Walk[n] = Along(Walk[n - 1])
    <2> HIDE DEF first, Along
    <2>1. \A n \in 1..last : n \in 0..last /\ n # 0
      OBVIOUS
    <2>2. 0 \in 0..last
      BY <1>1
    <2>3. QED
      BY <1>6, <2>1, <2>2
  <1>8. \A n \in Nat : n \in {m \in Nat : m <= last => Walk[m] \in Walks}
    <2> DEFINE Typed == {m \in Nat : m <= last => Walk[m] \in Walks}
    <2>1. 0 \in Typed
      BY <1>3, <1>7
    <2>2. ASSUME NEW n \in Nat, n \in Typed PROVE n + 1 \in Typed
      <3>1. SUFFICES ASSUME n + 1 <= last PROVE Walk[n + 1] \in Walks
        OBVIOUS
      <3>2. Walk[n] \in Walks
        BY <1>1, <2>2, <3>1
      <3>3. Walk[n + 1] = Along(Walk[n])
        <4>1. n + 1 \in 1..last /\ (n + 1) - 1 = n
          BY <1>1, <3>1
        <4> HIDE DEF Along
        <4>2. QED
          BY <1>7, <4>1
      <3>4. QED
        BY <1>2, <3>2, <3>3
    <2> HIDE DEF Typed
    <2>3. \A n \in Nat : n \in Typed
      BY <2>1, <2>2, AllNaturals
    <2>4. QED
      BY <2>3 DEF Typed
  <1>9. \A n \in 0..last : Walk[n] \in Walks
    BY <1>1, <1>8
  <1>10. \A n \in 1..last, o \in Postings :
           Walk[n][o] = IF redirect[o] = Null THEN o ELSE Walk[n - 1][redirect[o]]
    <2>1. ASSUME NEW n \in 1..last, NEW o \in Postings
          PROVE  Along(Walk[n - 1])[o] = IF redirect[o] = Null THEN o ELSE Walk[n - 1][redirect[o]]
      OBVIOUS
    <2> HIDE DEF Along
    <2>2. QED
      BY <1>7, <2>1
  <1>11. QED
    BY <1>7, <1>9, <1>10 DEF redirect

(* The walks that have ended after n redirects are at least n, unless all    *)
(* have: one that has not would lead, with the others, round and round.      *)
EndedWalks(n) == {o \in Postings : superseded[Walk[n][o]] = Null}

LEMMA WalksEnd ==
  ASSUME Correcting, Redirected, NEW n \in 0..Cardinality(Postings)
  PROVE  EndedWalks(n) = Postings \/ Cardinality(EndedWalks(n)) >= n
  <1> DEFINE last == Cardinality(Postings)
             Ended(m) == EndedWalks(m)
             Closed(m) == \A o \in Ended(m) : superseded[o] # Null => superseded[o] \in Ended(m)
             Enough(m) == Closed(m) /\ (Ended(m) = Postings \/ Cardinality(Ended(m)) >= m)
             Most == {m \in Nat : m <= last => Enough(m)}
  <1>1. last \in Nat /\ \A m \in Nat : /\ Ended(m) \subseteq Postings /\ IsFiniteSet(Ended(m))
                                       /\ Cardinality(Ended(m)) \in Nat
    BY PostingAssumption, FS_CardinalityType, FS_Subset DEF EndedWalks
  <1>2. \A o \in Postings : superseded[o] \in Postings \cup {Null}
    BY DEF Correcting, GraphTypeOK
  <1>3. 0 \in Most
    <2>1. \A o \in Ended(0) : superseded[o] = Null
      BY WalkSteps DEF EndedWalks
    <2>2. QED
      BY <1>1, <2>1
  <1>4. ASSUME NEW m \in Nat, m \in Most PROVE m + 1 \in Most
    <2>1. SUFFICES ASSUME m + 1 <= last PROVE Enough(m + 1)
      OBVIOUS
    <2>2. m \in 0..last /\ m + 1 \in 1..last /\ (m + 1) - 1 = m /\ m + 1 \in Nat
      BY <1>1, <2>1
    <2>3. Enough(m)
      BY <1>1, <1>4, <2>1
    <2>4. \A o \in Postings :
            o \in Ended(m + 1) <=> superseded[o] = Null \/ superseded[o] \in Ended(m)
      <3>1. ASSUME NEW o \in Postings
            PROVE  Walk[m + 1][o] = IF superseded[o] = Null THEN o ELSE Walk[m][superseded[o]]
        BY <2>2, WalkSteps
      <3>2. QED
        BY <1>2, <3>1 DEF EndedWalks
    <2> HIDE DEF Ended, last
    <2>5. Ended(m) \subseteq Ended(m + 1) /\ Closed(m + 1)
      <3>1. Ended(m) \subseteq Postings /\ Ended(m + 1) \subseteq Postings
        BY <1>1, <2>2
      <3>2. QED
        BY <1>2, <2>3, <2>4, <3>1
    <2>6. CASE Ended(m) = Postings
      <3>1. Ended(m + 1) = Postings
        BY <1>1, <2>2, <2>5, <2>6
      <3>2. QED
        BY <2>5, <3>1
    <2>7. CASE Ended(m) # Postings
      <3> DEFINE C == Postings \ Ended(m)
      <3>1. C \in SUBSET Postings /\ C # {}
        BY <1>1, <2>7
      <3>2. PICK o \in C : superseded[o] = Null \/ superseded[o] \notin C
        BY <3>1 DEF Redirected, Endless
      <3>3. o \in Ended(m + 1) /\ o \notin Ended(m)
        BY <1>2, <2>4, <3>2
      <3>4. Cardinality(Ended(m)) <= Cardinality(Ended(m + 1)) - 1
        <4>1. Ended(m) \subseteq Ended(m + 1) \ {o}
          BY <2>5, <3>3
        <4>2. IsFiniteSet(Ended(m + 1)) /\ IsFiniteSet(Ended(m + 1) \ {o})
          BY <1>1, <2>2, FS_Subset
        <4>3. /\ Cardinality(Ended(m + 1) \ {o}) = Cardinality(Ended(m + 1)) - 1
              /\ Cardinality(Ended(m)) <= Cardinality(Ended(m + 1) \ {o})
          BY <3>3, <4>1, <4>2, FS_RemoveElement, FS_Subset
        <4>4. QED
          BY <4>3
      <3>5. Cardinality(Ended(m)) >= m
        BY <2>3, <2>7
      <3>6. Cardinality(Ended(m + 1)) >= m + 1
        <4>1. Cardinality(Ended(m)) \in Nat /\ Cardinality(Ended(m + 1)) \in Nat
          BY <1>1, <2>2
        <4>2. QED
          BY <3>4, <3>5, <4>1
      <3>7. QED
        BY <2>5, <3>6
    <2>8. QED
      BY <2>6, <2>7
  <1>5. \A m \in Nat : m \in Most
    <2> HIDE DEF Most
    <2>1. QED
      BY <1>3, <1>4, AllNaturals
  <1>6. n \in Nat /\ n <= last
    BY <1>1
  <1>7. Enough(n)
    <2> HIDE DEF Enough
    <2>1. QED
      BY <1>5, <1>6
  <1>8. QED
    BY <1>7

(* A walk from a posting that was collected stays among those.               *)
LEMMA WalksAreCollected ==
  ASSUME Correcting, Redirected, NEW n \in 0..Cardinality(Postings), NEW p \in Postings,
         Collected(p)
  PROVE  Collected(Walk[n][p])
  <1> DEFINE last == Cardinality(Postings)
             Kept == {m \in Nat : m <= last =>
                        \A o \in Postings : Collected(o) => Collected(Walk[m][o])}
  <1>1. last \in Nat
    BY PostingAssumption, FS_CardinalityType
  <1>2. 0 \in Kept
    BY WalkSteps
  <1>3. ASSUME NEW m \in Nat, m \in Kept PROVE m + 1 \in Kept
    <2>1. SUFFICES ASSUME m + 1 <= last, NEW o \in Postings, Collected(o)
                   PROVE  Collected(Walk[m + 1][o])
      OBVIOUS
    <2>2. m + 1 \in 1..last /\ (m + 1) - 1 = m /\ m <= last
      BY <1>1, <2>1
    <2>3. Walk[m + 1][o] = IF superseded[o] = Null THEN o ELSE Walk[m][superseded[o]]
      BY <2>2, WalkSteps
    <2>4. superseded[o] # Null => superseded[o] \in Postings /\ Collected(superseded[o])
      BY DEF Correcting, GraphTypeOK, Redirected
    <2>5. QED
      BY <1>3, <2>1, <2>2, <2>3, <2>4
  <1>4. \A m \in Nat : m \in Kept
    <2> HIDE DEF Kept
    <2>1. QED
      BY <1>2, <1>3, AllNaturals
  <1>5. n \in Nat /\ n <= last
    BY <1>1
  <1>6. QED
    BY <1>4, <1>5

LEMMA PostingsListed == Correcting /\ Redirected => PostingsAreListed
  <1> SUFFICES ASSUME Correcting, Redirected, NEW p \in Postings, Collected(p)
               PROVE  /\ superseded[membership[p].of] = Null
                      /\ superseded[p] = Null <=> membership[p].of = p
                      /\ ActiveOpportunity(Walk[Cardinality(Postings)][p])
    BY DEF PostingsAreListed
  <1> DEFINE last == Cardinality(Postings)
  <1>1. last \in 0..last /\ last \in Nat
    BY PostingAssumption, FS_CardinalityType
  <1>2. EndedWalks(last) = Postings
    <2>1. EndedWalks(last) \subseteq Postings
      BY DEF EndedWalks
    <2>2. CASE Cardinality(EndedWalks(last)) >= last
      <3>1. IsFiniteSet(EndedWalks(last)) /\ Cardinality(EndedWalks(last)) \in Nat
        BY <2>1, PostingAssumption, FS_Subset, FS_CardinalityType
      <3>2. Cardinality(EndedWalks(last)) <= last
        BY <2>1, PostingAssumption, FS_Subset
      <3>3. Cardinality(EndedWalks(last)) = Cardinality(Postings)
        BY <1>1, <2>2, <3>1, <3>2
      <3>4. QED
        BY <2>1, <3>3, PostingAssumption, FS_Subset
    <2>3. QED
      BY <1>1, <2>2, WalksEnd
  <1>3. superseded[Walk[last][p]] = Null
    BY <1>2 DEF EndedWalks
  <1>4. Collected(Walk[last][p])
    BY <1>1, WalksAreCollected
  <1>5. QED
    BY <1>3, <1>4, PostingFacts DEF Collected, ActiveOpportunity

LEMMA RedirectedAlways == OSpec => [](Correcting /\ Redirected)
  BY CorrectingInit, CorrectingNext, RedirectedInit, RedirectedNext, PTL DEF OSpec

(* Every posting is in an active opportunity, the opportunity it came from   *)
(* is active as long as it is in it, and the redirects of one that was      *)
(* superseded end at an active one, however the resolver and administrators *)
(* move postings between opportunities (mergeOpportunities,                 *)
(* splitOpportunity, resolve_job).                                          *)
THEOREM PostingsInActive == OSpec => []PostingsAreListed
  BY PostingsListed, RedirectedAlways, PTL

(* Of a pair found distinct, both postings are pinned: only a merge brings   *)
(* them together, for the resolver leaves them and a split puts its posting  *)
(* where its origin is, which no other posting is in unless it is there.     *)
LEMMA ApartUnlessMerged ==
  ASSUME Correcting, [ONext]_ovars, NEW pair \in distinct, NEW p \in pair, NEW q \in pair,
         Apart(p, q), ~Apart(p, q)'
  PROVE  \E r \in Requests : correcting[r].op = "MERGE" /\ correcting'[r] = Idle
  <1>1. /\ p \in Postings /\ q \in Postings
        /\ membership[p] # Null /\ membership[p].pinned
        /\ membership[q] # Null /\ membership[q].pinned
        /\ membership[p].of # membership[q].of
    BY PairsOfPostings DEF Correcting, GraphTypeOK, Marked, Apart, Collected
  <1>2. ~(/\ membership'[p] # Null /\ membership'[q] # Null
          /\ membership'[p].of # membership'[q].of)
    BY DEF Apart, Collected
  <1>M. membership \in [Postings -> MembershipRow \cup {Null}]
    BY DEF Correcting, GraphTypeOK
  <1>3. ASSUME membership' = membership PROVE FALSE
    BY <1>1, <1>2, <1>3
  <1>4. ASSUME NEW o \in Postings, NEW row, membership' = [membership EXCEPT ![o] = row],
               o # p, o # q
        PROVE  FALSE
    BY <1>1, <1>2, <1>4, <1>M
  <1>5. ASSUME NEW o \in Postings, Collect(o) PROVE FALSE
    BY <1>1, <1>4, <1>5 DEF Collect, Collected
  <1>6. ASSUME NEW r \in Requests, NEW found \in BOOLEAN, Resolve(r, found) PROVE FALSE
    <2>1. correcting[r].posting \in Postings
      BY <1>6, HandlersOfCorrection DEF Resolve, Correcting, GraphTypeOK
    <2>2. CASE MayMove(correcting[r].posting)
      <3>1. correcting[r].posting # p /\ correcting[r].posting # q
        BY <1>1, <2>2 DEF MayMove
      <3>2. PICK row : \/ membership' = [membership EXCEPT ![correcting[r].posting] = row]
                       \/ membership' = membership
        BY <1>6 DEF Resolve
      <3>3. QED
        BY <1>3, <1>4, <2>1, <3>1, <3>2
    <2>3. CASE ~MayMove(correcting[r].posting)
      BY <1>3, <1>6, <2>3 DEF Resolve
    <2>4. QED
      BY <2>2, <2>3
  <1>7. ASSUME NEW r \in Requests, Split(r) PROVE FALSE
    <2> DEFINE o == correcting[r].posting
    <2>1. o \in Postings /\ membership' = [membership EXCEPT ![o] = Joined(o, FALSE, TRUE)]
      BY <1>7, SplitChanges
    <2>2. Joined(o, FALSE, TRUE).of = o /\ Joined(o, FALSE, TRUE) # Null
      BY <2>1, RowOfPosting
    <2> HIDE DEF o
    <2>3. \A x \in Postings :
            membership'[x] = IF x = o THEN Joined(o, FALSE, TRUE) ELSE membership[x]
      BY <1>M, <2>1
    <2>4. ASSUME NEW x \in Postings, membership[x] # Null, x # o, membership[x].of = o
          PROVE  membership[o] # Null /\ membership[o].of = o
      BY <2>4, PostingFacts
    <2>5. p # q
      BY <1>1
    <2>6. CASE o = p
      BY <1>1, <1>2, <2>2, <2>3, <2>4, <2>5, <2>6
    <2>7. CASE o = q
      BY <1>1, <1>2, <2>2, <2>3, <2>4, <2>5, <2>7
    <2>8. CASE o # p /\ o # q
      BY <1>4, <2>1, <2>8
    <2>9. QED
      BY <2>6, <2>7, <2>8
  <1>8. ASSUME NEW r \in Requests, NEW other \in reviews, DismissReview(r, other) PROVE FALSE
    <2>1. membership' = [x \in Postings |->
            IF x \in other THEN WithPin(membership[x]) ELSE membership[x]]
      BY <1>8 DEF DismissReview, WithPin
    <2>2. ASSUME NEW x \in Postings, membership[x] # Null
          PROVE  membership'[x] # Null /\ membership'[x].of = membership[x].of
      <3>1. membership[x] \in MembershipRow
        BY <1>M, <2>2
      <3>2. QED
        BY <2>1, <2>2, <3>1, PinnedRow
    <2>3. QED
      BY <1>1, <1>2, <2>2
  <1>9. ASSUME NEW r \in Requests, Merge(r)
        PROVE  correcting[r].op = "MERGE" /\ correcting'[r] = Idle
    BY <1>9 DEF Merge, Corrects, Correcting, GraphTypeOK
  <1>10. ASSUME NEW r \in Requests,
                \/ \E x \in Postings : ResolveBegins(r, x) \/ SplitBegins(r, x)
                \/ \E w, l \in Postings, review \in reviews \cup {Null} :
                     MergeBegins(r, w, l, review)
                \/ AbandonCorrection(r)
         PROVE  FALSE
    BY <1>3, <1>10 DEF ResolveBegins, SplitBegins, MergeBegins, AbandonCorrection, graph
  <1>11. CASE UNCHANGED ovars
    BY <1>3, <1>11 DEF ovars, graph
  <1>12. QED
    BY <1>5, <1>6, <1>7, <1>8, <1>9, <1>10, <1>11 DEF ONext

(* Two postings an administrator found distinct come together again only by *)
(* a merge, never by the resolver, however their keys and clusters change.  *)
THEOREM DistinctOnlyMerged == OSpec => DistinctStayApart
  <1>1. Correcting /\ [ONext]_ovars =>
          [\A pair \in distinct : \A p, q \in pair :
             p # q /\ Apart(p, q) /\ ~Apart(p, q)' =>
               \E r \in Requests : correcting[r].op = "MERGE" /\ correcting'[r] = Idle]_ovars
    BY ApartUnlessMerged
  <1>2. QED
    BY <1>1, CorrectingAlways, PTL DEF OSpec, DistinctStayApart

-----------------------------------------------------------------------------
(* The scores of recommendations.                                           *)

FactorName == DOMAIN Weights

(* A factor earns no more than its weight, all of it when it matches, and   *)
(* nothing while it is unknown.                                             *)
GoodFactor(factor, weight) ==
  /\ factor.earned \in 0..weight
  /\ factor.state = "MATCH" => factor.earned = weight
  /\ ~Known(factor) => factor.earned = 0

GoodFactors(factors) ==
  DOMAIN factors = FactorName /\ \A c \in FactorName : GoodFactor(factors[c], Weights[c])

LEMMA FactorNames ==
  /\ FactorName = {"COMPANY_PREFERENCE", "ROLE_MATCH", "EARLY_CAREER_TRACK", "EXPERIENCE_LEVEL",
                   "LOCATION_MATCH", "WORKPLACE_MODE", "FRESHNESS", "DEADLINE_URGENCY",
                   "SOURCE_CONFIDENCE"}
  /\ IsFiniteSet(FactorName) /\ \A c \in FactorName : Weights[c] \in Nat \ {0}
  <1>1. FactorName = {"COMPANY_PREFERENCE", "ROLE_MATCH", "EARLY_CAREER_TRACK", "EXPERIENCE_LEVEL",
                      "LOCATION_MATCH", "WORKPLACE_MODE", "FRESHNESS", "DEADLINE_URGENCY",
                      "SOURCE_CONFIDENCE"}
    BY DEF FactorName, Weights
  <1>2. \A c \in FactorName : Weights[c] \in Nat \ {0}
    BY <1>1 DEF Weights
  <1>3. IsFiniteSet(FactorName)
    <2>1. FactorName =
            {"COMPANY_PREFERENCE"} \cup {"ROLE_MATCH"} \cup {"EARLY_CAREER_TRACK"}
              \cup {"EXPERIENCE_LEVEL"} \cup {"LOCATION_MATCH"} \cup {"WORKPLACE_MODE"}
              \cup {"FRESHNESS"} \cup {"DEADLINE_URGENCY"} \cup {"SOURCE_CONFIDENCE"}
      BY <1>1
    <2>2. \A x : IsFiniteSet({x})
      BY FS_Singleton
    <2>3. \A S, T : IsFiniteSet(S) /\ IsFiniteSet(T) => IsFiniteSet(S \cup T)
      BY FS_Union
    <2>4. QED
      BY <2>1, <2>2, <2>3
  <1>4. QED
    BY <1>1, <1>2, <1>3

LEMMA FactorMade ==
  ASSUME NEW state, NEW earned, NEW weight \in Nat, earned \in 0..weight,
         state = "MATCH" => earned = weight,
         state \in {Unknown, "NOT_APPLICABLE"} => earned = 0
  PROVE  GoodFactor(Factor(state, earned), weight)
  BY DEF GoodFactor, Factor, Known

LEMMA NoFactor ==
  ASSUME NEW weight \in Nat
  PROVE  GoodFactor(NotApplicable, weight) /\ GoodFactor(NotKnown, weight) /\ GoodFactor(Mismatch, weight)
  BY FactorMade DEF NotApplicable, NotKnown, Mismatch, Unknown

LEMMA WorthGood ==
  ASSUME NEW full \in Nat \ {0}, NEW points \in 0..full
  PROVE  GoodFactor(Worth(points, full), full)
  BY FactorMade, NoFactor DEF Worth, Unknown

LEMMA AmongGood ==
  ASSUME NEW full \in Nat, NEW value, NEW wanted, NEW unknown
  PROVE  GoodFactor(Among(value, wanted, unknown, full), full)
  <1>1. GoodFactor(Factor("MATCH", full), full)
    BY FactorMade DEF Unknown
  <1>2. QED
    BY <1>1, NoFactor DEF Among

(* The steps of a ladder.                                                   *)
LEMMA LeastOfNaturals ==
  ASSUME NEW S, S \subseteq Nat, S # {}
  PROVE  Min(S) \in S /\ \A y \in S : Min(S) <= y
  <1>1. PICK k \in S : \A j \in S : ~(<<j, k>> \in OpToRel(<, Nat))
    BY NatLessThanWellFounded, WFMin
  <1>2. \A j \in S : ~(j < k)
    BY <1>1 DEF OpToRel
  <1>3. \A j \in S : k <= j
    BY <1>2
  <1>4. QED
    BY <1>3 DEF Min

LEMMA FreshnessSteps ==
  ASSUME NEW days
  PROVE  Step(days, <<<<1, 6>>, <<3, 5>>, <<7, 4>>, <<14, 2>>>>) \in 0..6
  <1> DEFINE ladder == <<<<1, 6>>, <<3, 5>>, <<7, 4>>, <<14, 2>>>>
             within == {i \in DOMAIN ladder : days <= ladder[i][1]}
  <1>1. DOMAIN ladder = 1..4 /\ \A i \in 1..4 : ladder[i][2] \in 0..6
    OBVIOUS
  <1>2. within \subseteq 1..4
    BY <1>1
  <1>3. Step(days, ladder) = IF within = {} THEN 0 ELSE ladder[Min(within)][2]
    BY DEF Step
  <1> HIDE DEF ladder, within
  <1>4. ASSUME within # {} PROVE Min(within) \in 1..4
    <2>1. within \subseteq Nat
      BY <1>2
    <2>2. Min(within) \in within
      BY <1>4, <2>1, LeastOfNaturals
    <2>3. QED
      BY <1>2, <2>2
  <1>5. Step(days, ladder) \in 0..6
    BY <1>1, <1>3, <1>4
  <1>6. QED
    BY <1>5 DEF ladder

LEMMA DeadlineSteps ==
  ASSUME NEW days
  PROVE  Step(days, <<<<1, 4>>, <<3, 3>>, <<7, 2>>, <<14, 1>>>>) \in 0..4
  <1> DEFINE ladder == <<<<1, 4>>, <<3, 3>>, <<7, 2>>, <<14, 1>>>>
             within == {i \in DOMAIN ladder : days <= ladder[i][1]}
  <1>1. DOMAIN ladder = 1..4 /\ \A i \in 1..4 : ladder[i][2] \in 0..4
    OBVIOUS
  <1>2. within \subseteq 1..4
    BY <1>1
  <1>3. Step(days, ladder) = IF within = {} THEN 0 ELSE ladder[Min(within)][2]
    BY DEF Step
  <1> HIDE DEF ladder, within
  <1>4. ASSUME within # {} PROVE Min(within) \in 1..4
    <2>1. within \subseteq Nat
      BY <1>2
    <2>2. Min(within) \in within
      BY <1>4, <2>1, LeastOfNaturals
    <2>3. QED
      BY <1>2, <2>2
  <1>5. Step(days, ladder) \in 0..4
    BY <1>1, <1>3, <1>4
  <1>6. QED
    BY <1>5 DEF ladder

FactsOK(f) == f.watched \in {"THIS", "OTHERS", "NOTHING"} /\ f.authority \in DOMAIN Authority

LEMMA FactorsAreGood ==
  ASSUME NEW f, FactsOK(f), NEW w \in Wishes
  PROVE  GoodFactors(FactorOf(f, w))
  <1> DEFINE factors == FactorOf(f, w)
  <1>1. GoodFactor(CompanyFactor(f), 18)
    <2>1. GoodFactor(Factor("MATCH", 18), 18)
      BY FactorMade DEF Unknown
    <2>2. QED
      BY <2>1, NoFactor DEF CompanyFactor, FactsOK
  <1>2. /\ GoodFactor(Among(f.role, w.roles, "OTHER", 20), 20)
        /\ GoodFactor(Among(f.level, w.levels, Unknown, 12), 12)
    BY AmongGood
  <1>3. GoodFactor(TrackFactor(f, w), 14)
    <2>1. GoodFactor(Factor("PARTIAL", 12), 14) /\ GoodFactor(Factor("MATCH", 14), 14)
      BY FactorMade DEF Unknown
    <2>2. GoodFactor(TrackMatch(f, w), 14)
      BY <2>1 DEF TrackMatch
    <2>3. QED
      BY <2>2, NoFactor DEF TrackFactor
  <1>4. GoodFactor(LocationFactor(f, w), 14)
    <2> DEFINE points == {PlacePoints[k] : k \in f.agrees \cap w.places}
    <2>1. \A k \in Places : PlacePoints[k] \in 0..14
      BY DEF Places, PlacePoints
    <2>2. points \subseteq 0..14
      BY <2>1, ScoringAssumption
    <2> HIDE DEF points
    <2>3. Max({0} \cup points) \in 0..14
      <3>1. {0} \cup points \subseteq 0..14 /\ {0} \cup points # {}
        BY <2>2
      <3> DEFINE T == {0} \cup points
      <3> HIDE DEF T
      <3>2. T \subseteq 0..14 /\ T # {}
        BY <3>1 DEF T
      <3>3. Max(T) \in 0..14
        BY <3>2, MaxIsLargest
      <3>4. QED
        BY <3>3 DEF T
    <2>4. GoodFactor(Worth(Max({0} \cup points), 14), 14)
      BY <2>3, WorthGood
    <2>5. QED
      BY <2>4, NoFactor DEF LocationFactor, points
  <1>5. GoodFactor(WorkplaceFactor(f, w), 8)
    <2>1. GoodFactor(Factor("PARTIAL", 6), 8)
      BY FactorMade DEF Unknown
    <2>2. QED
      BY <2>1, AmongGood DEF WorkplaceFactor
  <1>6. GoodFactor(FreshnessFactor(f), 6)
    BY FreshnessSteps, WorthGood DEF FreshnessFactor
  <1>7. GoodFactor(DeadlineFactor(f), 4)
    BY DeadlineSteps, WorthGood, NoFactor DEF DeadlineFactor
  <1>8. GoodFactor(SourceFactor(f), 4)
    <2>1. Authority[f.authority] \in 0..4
      BY DEF FactsOK, Authority
    <2>2. QED
      BY <2>1, WorthGood DEF SourceFactor
  <1>9. DOMAIN factors = FactorName
    BY DEF FactorOf, FactorName, Weights
  <1>10. /\ factors["COMPANY_PREFERENCE"] = CompanyFactor(f)
         /\ factors["ROLE_MATCH"] = Among(f.role, w.roles, "OTHER", 20)
         /\ factors["EARLY_CAREER_TRACK"] = TrackFactor(f, w)
         /\ factors["EXPERIENCE_LEVEL"] = Among(f.level, w.levels, Unknown, 12)
         /\ factors["LOCATION_MATCH"] = LocationFactor(f, w)
         /\ factors["WORKPLACE_MODE"] = WorkplaceFactor(f, w)
         /\ factors["FRESHNESS"] = FreshnessFactor(f)
         /\ factors["DEADLINE_URGENCY"] = DeadlineFactor(f)
         /\ factors["SOURCE_CONFIDENCE"] = SourceFactor(f)
    BY DEF FactorOf
  <1>11. /\ Weights["COMPANY_PREFERENCE"] = 18 /\ Weights["ROLE_MATCH"] = 20
         /\ Weights["EARLY_CAREER_TRACK"] = 14 /\ Weights["EXPERIENCE_LEVEL"] = 12
         /\ Weights["LOCATION_MATCH"] = 14 /\ Weights["WORKPLACE_MODE"] = 8
         /\ Weights["FRESHNESS"] = 6 /\ Weights["DEADLINE_URGENCY"] = 4
         /\ Weights["SOURCE_CONFIDENCE"] = 4
    BY DEF Weights
  <1> HIDE DEF factors
  <1>12. \A c \in FactorName : GoodFactor(factors[c], Weights[c])
    BY <1>1, <1>2, <1>3, <1>4, <1>5, <1>6, <1>7, <1>8, <1>10, <1>11, FactorNames
  <1>13. QED
    BY <1>9, <1>12 DEF GoodFactors, factors

(* The weights and the points of good factors, as sums over all of them.    *)
KnownWeights(factors) == [c \in FactorName |-> IF Known(factors[c]) THEN Weights[c] ELSE 0]
PointsOf(factors) == [c \in FactorName |-> factors[c].earned]

LEMMA ScoreSums ==
  ASSUME NEW factors, GoodFactors(factors)
  PROVE  /\ Available(factors) = SumFunctionOnSet(KnownWeights(factors), FactorName)
         /\ Earned(factors) = SumFunctionOnSet(PointsOf(factors), FactorName)
         /\ \A c \in FactorName : KnownWeights(factors)[c] \in Nat /\ PointsOf(factors)[c] \in Nat
                                   /\ PointsOf(factors)[c] <= KnownWeights(factors)[c]
         /\ Available(factors) \in Nat /\ Earned(factors) \in Nat
         /\ Earned(factors) <= Available(factors)
  <1> DEFINE K == {c \in DOMAIN factors : Known(factors[c])}
  <1>1. K \in SUBSET FactorName /\ DOMAIN factors = FactorName
    BY DEF GoodFactors
  <1>2. \A c \in FactorName : KnownWeights(factors)[c] = IF c \in K THEN Weights[c] ELSE 0
    BY <1>1 DEF KnownWeights
  <1>3. SumFunctionOnSet(Weights, K) = SumFunctionOnSet(KnownWeights(factors), FactorName)
    <2> DEFINE u == Weights
               v == KnownWeights(factors)
               S == FactorName
    <2>1. IsFiniteSet(S) /\ K \in SUBSET S /\ \A c \in S : u[c] \in Int
      BY <1>1, FactorNames
    <2>2. \A c \in S : v[c] = IF c \in K THEN u[c] ELSE 0
      BY <1>2
    <2> HIDE DEF K, u, v, S
    <2>3. SumFunctionOnSet(u, K) = SumFunctionOnSet(v, S)
      BY <2>1, <2>2, SumOfPart
    <2>4. QED
      BY <2>3 DEF u, v, S
  <1>4. Available(factors) = SumFunctionOnSet(KnownWeights(factors), FactorName)
    BY <1>3 DEF Available
  <1>5. Earned(factors) = SumFunctionOnSet(PointsOf(factors), FactorName)
    BY <1>1 DEF Earned, PointsOf
  <1>6. ASSUME NEW c \in FactorName
        PROVE  KnownWeights(factors)[c] \in Nat /\ PointsOf(factors)[c] \in Nat
                 /\ PointsOf(factors)[c] <= KnownWeights(factors)[c]
    <2>1. GoodFactor(factors[c], Weights[c]) /\ Weights[c] \in Nat
      BY FactorNames DEF GoodFactors
    <2>2. QED
      BY <2>1 DEF GoodFactor, KnownWeights, PointsOf
  <1>7. Available(factors) \in Nat /\ Earned(factors) \in Nat
    BY <1>4, <1>5, <1>6, FactorNames, SumOfNaturals
  <1>8. Earned(factors) <= Available(factors)
    <2> DEFINE zero == [c \in FactorName |-> 0]
    <2>1. \A c \in FactorName : zero[c] = 0
      OBVIOUS
    <2> HIDE DEF zero
    <2>2. SumFunctionOnSet(zero, FactorName) = 0
      BY <2>1, FactorNames, SumOfZeros
    <2> DEFINE p == PointsOf(factors)
               q == KnownWeights(factors)
    <2>3. \A c \in FactorName : p[c] \in Int /\ zero[c] \in Int /\ q[c] \in Int
                                 /\ p[c] + zero[c] <= q[c] + zero[c]
      BY <1>6, <2>1
    <2>4. Earned(factors) = SumFunctionOnSet(p, FactorName)
          /\ Available(factors) = SumFunctionOnSet(q, FactorName)
      BY <1>4, <1>5
    <2> HIDE DEF p, q
    <2>5. SumFunctionOnSet(p, FactorName) + SumFunctionOnSet(zero, FactorName)
            <= SumFunctionOnSet(q, FactorName) + SumFunctionOnSet(zero, FactorName)
      BY <2>3, FactorNames, SumsCompare
    <2>6. QED
      BY <1>7, <2>2, <2>4, <2>5
  <1>9. QED
    BY <1>4, <1>5, <1>6, <1>7, <1>8

(* Factors that come to match add at least as many points as weight.        *)
LEMMA MatchesGain ==
  ASSUME NEW before, NEW after, GoodFactors(before), GoodFactors(after), OnlyMatches(before, after)
  PROVE  /\ Available(before) <= Available(after)
         /\ Earned(before) + Available(after) <= Earned(after) + Available(before)
  <1> DEFINE p == PointsOf(before)
             q == PointsOf(after)
             v == KnownWeights(before)
             w == KnownWeights(after)
             zero == [c \in FactorName |-> 0]
  <1>1. /\ Earned(before) = SumFunctionOnSet(p, FactorName)
        /\ Earned(after) = SumFunctionOnSet(q, FactorName)
        /\ Available(before) = SumFunctionOnSet(v, FactorName)
        /\ Available(after) = SumFunctionOnSet(w, FactorName)
        /\ Available(before) \in Nat /\ Available(after) \in Nat
    BY ScoreSums
  <1>2. ASSUME NEW c \in FactorName
        PROVE  /\ p[c] \in Int /\ q[c] \in Int /\ v[c] \in Int /\ w[c] \in Int /\ zero[c] \in Int
               /\ p[c] + w[c] <= q[c] + v[c] /\ v[c] + zero[c] <= w[c] + zero[c]
    <2>1. /\ GoodFactor(before[c], Weights[c]) /\ GoodFactor(after[c], Weights[c])
          /\ Weights[c] \in Nat
      BY FactorNames DEF GoodFactors
    <2>2. after[c] = before[c] \/ after[c].state = "MATCH"
      BY DEF OnlyMatches, GoodFactors
    <2>3. /\ p[c] = before[c].earned /\ q[c] = after[c].earned
          /\ v[c] = (IF Known(before[c]) THEN Weights[c] ELSE 0)
          /\ w[c] = (IF Known(after[c]) THEN Weights[c] ELSE 0) /\ zero[c] = 0
      BY DEF PointsOf, KnownWeights
    <2> HIDE DEF p, q, v, w, zero
    <2>4. CASE after[c] = before[c]
      BY <2>1, <2>3, <2>4 DEF GoodFactor
    <2>5. CASE after[c].state = "MATCH"
      <3>1. Known(after[c])
        BY <2>5 DEF Known, Unknown
      <3>2. q[c] = Weights[c] /\ w[c] = Weights[c]
        BY <2>1, <2>3, <2>5, <3>1 DEF GoodFactor
      <3>3. p[c] \in 0..Weights[c] /\ (~Known(before[c]) => p[c] = 0)
        BY <2>1, <2>3 DEF GoodFactor
      <3>4. QED
        BY <2>1, <2>3, <3>2, <3>3
    <2>6. QED
      BY <2>2, <2>4, <2>5
  <1>3. \A c \in FactorName : zero[c] = 0
    OBVIOUS
  <1> HIDE DEF p, q, v, w, zero
  <1>4. SumFunctionOnSet(p, FactorName) + SumFunctionOnSet(w, FactorName)
          <= SumFunctionOnSet(q, FactorName) + SumFunctionOnSet(v, FactorName)
    BY <1>2, FactorNames, SumsCompare
  <1>5. SumFunctionOnSet(v, FactorName) + SumFunctionOnSet(zero, FactorName)
          <= SumFunctionOnSet(w, FactorName) + SumFunctionOnSet(zero, FactorName)
    BY <1>2, FactorNames, SumsCompare
  <1>6. SumFunctionOnSet(zero, FactorName) = 0
    BY <1>3, FactorNames, SumOfZeros
  <1>7. QED
    BY <1>1, <1>4, <1>5, <1>6

(* Rounding: a quotient is the largest number whose product stays below.    *)
LEMMA Quotient ==
  ASSUME NEW x \in Nat, NEW m \in Nat \ {0}
  PROVE  /\ x \div m \in Nat /\ (x \div m) * m <= x
         /\ \A k \in Nat : k * m <= x => k <= x \div m
  <1>1. x \div m \in Nat /\ (x \div m) * m <= x /\ x < (x \div m) * m + m
    OBVIOUS
  <1>2. ASSUME NEW k \in Nat, k * m <= x PROVE k <= x \div m
    <2> DEFINE n == x \div m
    <2>1. n \in Nat /\ x < n * m + m
      BY <1>1
    <2> HIDE DEF n
    <2>2. ASSUME n < k PROVE FALSE
      <3>1. n + 1 <= k
        BY <2>1, <2>2
      <3>2. (n + 1) * m <= k * m
        BY <2>1, <3>1
      <3>3. (n + 1) * m = n * m + m
        BY <2>1
      <3>4. n * m \in Int /\ k * m \in Int
        BY <2>1
      <3>5. QED
        BY <1>2, <2>1, <3>2, <3>3, <3>4
    <2>3. k <= n
      BY <2>1, <2>2
    <2>4. QED
      BY <2>3 DEF n
  <1>3. QED
    BY <1>1, <1>2

LEMMA ScoreRises ==
  ASSUME NEW e \in Nat, NEW a \in Nat \ {0}, e <= a, NEW g \in Nat, NEW b \in Nat, g <= b,
         a <= b, e + b <= g + a
  PROVE  /\ (200 * e + a) \div (2 * a) \in 0..100
         /\ (200 * e + a) \div (2 * a) <= (200 * g + b) \div (2 * b)
  <1> DEFINE k == (200 * e + a) \div (2 * a)
  <1>1. 200 * e + a \in Nat /\ 2 * a \in Nat \ {0} /\ 200 * g + b \in Nat /\ 2 * b \in Nat \ {0}
    OBVIOUS
  <1>2. k \in Nat /\ k * (2 * a) <= 200 * e + a
    BY <1>1, Quotient
  <1> HIDE DEF k
  <1>3. k <= 100
    <2>1. ASSUME k >= 101 PROVE FALSE
      <3>1. 101 * (2 * a) <= k * (2 * a)
        BY <1>2, <2>1
      <3>2. 101 * (2 * a) = 202 * a /\ 200 * e + a <= 201 * a
        OBVIOUS
      <3>3. k * (2 * a) \in Int
        BY <1>2
      <3>4. QED
        BY <1>2, <3>1, <3>2, <3>3
    <2>2. QED
      BY <1>2, <2>1
  <1>4. k * (2 * b) <= 200 * g + b
    <2> DEFINE d == b - a
    <2>1. d \in Nat /\ b = a + d /\ e + d <= g
      OBVIOUS
    <2> HIDE DEF d
    <2>2. k * (2 * b) = k * (2 * a) + 2 * (k * d)
      BY <1>2, <2>1
    <2>3. k * d <= 100 * d /\ k * d \in Int
      BY <1>2, <1>3, <2>1
    <2>4. k * (2 * a) \in Int
      BY <1>2
    <2> DEFINE x == k * (2 * a)
               y == k * d
    <2>5. x \in Int /\ y \in Int /\ x <= 200 * e + a /\ y <= 100 * d /\ k * (2 * b) = x + 2 * y
      BY <1>2, <2>2, <2>3, <2>4
    <2> HIDE DEF x, y
    <2>6. x + 2 * y <= 200 * g + b
      BY <2>1, <2>5
    <2>7. QED
      BY <2>5, <2>6
  <1>5. k <= (200 * g + b) \div (2 * b)
    BY <1>1, <1>2, <1>4, Quotient
  <1>6. QED
    BY <1>2, <1>3, <1>5 DEF k

RankOf(result) == CategoryOrder[result.category]

LEMMA ResultParts ==
  ASSUME NEW f, NEW w
  PROVE  LET factors == FactorOf(f, w)
             score == Score(Eligibility(f, w), factors)
         IN /\ Result(f, w).factors = factors /\ Result(f, w).score = score
            /\ Result(f, w).eligibility = Eligibility(f, w)
            /\ Result(f, w).category = Category(Eligibility(f, w), score, factors)
            /\ Eligibility(f, w) \in {"NOT_ELIGIBLE", "UNKNOWN", "ELIGIBLE"}
  BY DEF Result, Eligibility, Unknown

LEMMA CategoryRanks ==
  ASSUME NEW score, NEW factors
  PROVE  /\ Category("NOT_ELIGIBLE", score, factors) = "NOT_ELIGIBLE"
         /\ Category("UNKNOWN", score, factors) = "LOW_PRIORITY"
         /\ Category("ELIGIBLE", score, factors) =
              IF score >= 70 /\ Available(factors) >= 50
                   /\ Cardinality({c \in Personal : Known(factors[c])}) >= 2
              THEN "HIGH_PRIORITY"
              ELSE IF score >= 40 /\ Available(factors) >= 35 THEN "MEDIUM_PRIORITY"
              ELSE "LOW_PRIORITY"
  BY DEF Category, Unknown

LEMMA PersonalKnown ==
  ASSUME NEW before, NEW after, GoodFactors(before), OnlyMatches(before, after)
  PROVE  /\ Cardinality({c \in Personal : Known(before[c])}) \in Nat
         /\ Cardinality({c \in Personal : Known(after[c])}) \in Nat
         /\ Cardinality({c \in Personal : Known(before[c])})
              <= Cardinality({c \in Personal : Known(after[c])})
  <1> DEFINE P == {c \in Personal : Known(before[c])}
             Q == {c \in Personal : Known(after[c])}
  <1>1. Personal \subseteq FactorName
    BY FactorNames DEF Personal
  <1>2. IsFiniteSet(Q) /\ IsFiniteSet(P)
    BY <1>1, FactorNames, FS_Subset
  <1>3. P \subseteq Q
    <2>1. ASSUME NEW c \in P PROVE c \in Q
      <3>1. after[c] = before[c] \/ after[c].state = "MATCH"
        BY <1>1 DEF OnlyMatches, GoodFactors
      <3>2. QED
        BY <3>1 DEF Known, Unknown
    <2>2. QED
      BY <2>1
  <1> HIDE DEF P, Q
  <1>4. Cardinality(P) \in Nat /\ Cardinality(Q) \in Nat /\ Cardinality(P) <= Cardinality(Q)
    BY <1>2, <1>3, FS_Subset, FS_CardinalityType
  <1>5. QED
    BY <1>4 DEF P, Q

LEMMA ScoreBounds ==
  ASSUME NEW factors, GoodFactors(factors), NEW eligibility
  PROVE  Score(eligibility, factors) \in 0..100
  <1> DEFINE a == Available(factors)
             e == Earned(factors)
  <1>1. a \in Nat /\ e \in Nat /\ e <= a
    BY ScoreSums
  <1>2. Score(eligibility, factors) =
          IF eligibility = "NOT_ELIGIBLE" \/ a = 0 THEN 0 ELSE (200 * e + a) \div (2 * a)
    BY DEF Score
  <1> HIDE DEF a, e
  <1>3. a # 0 => (200 * e + a) \div (2 * a) \in 0..100
    BY <1>1, ScoreRises
  <1>4. QED
    BY <1>2, <1>3

(* A result with factors that came to match is no worse.                    *)
LEMMA NoneDemoted ==
  ASSUME NEW f, FactsOK(f), NEW w \in Wishes, NEW g, FactsOK(g), NEW v \in Wishes,
         OnlyMatches(Result(f, w).factors, Result(g, v).factors),
         EligibilityOrder[Result(g, v).eligibility] >= EligibilityOrder[Result(f, w).eligibility]
  PROVE  RankOf(Result(g, v)) >= RankOf(Result(f, w)) /\ Result(g, v).score >= Result(f, w).score
  <1> DEFINE before == FactorOf(f, w)
             after == FactorOf(g, v)
             was == Eligibility(f, w)
             is == Eligibility(g, v)
             a == Available(before)
             b == Available(after)
             e == Earned(before)
             h == Earned(after)
             score == Score(was, before)
             next == Score(is, after)
             m == Cardinality({c \in Personal : Known(before[c])})
             n == Cardinality({c \in Personal : Known(after[c])})
  <1>1. /\ Result(f, w).factors = before /\ Result(f, w).score = score
        /\ Result(f, w).eligibility = was /\ Result(f, w).category = Category(was, score, before)
        /\ Result(g, v).factors = after /\ Result(g, v).score = next
        /\ Result(g, v).eligibility = is /\ Result(g, v).category = Category(is, next, after)
        /\ was \in {"NOT_ELIGIBLE", "UNKNOWN", "ELIGIBLE"}
        /\ is \in {"NOT_ELIGIBLE", "UNKNOWN", "ELIGIBLE"}
    BY ResultParts
  <1>2. GoodFactors(before) /\ GoodFactors(after)
    BY FactorsAreGood
  <1> HIDE DEF before, after, was, is
  <1>3. OnlyMatches(before, after) /\ EligibilityOrder[is] >= EligibilityOrder[was]
    BY <1>1
  <1>4. /\ a \in Nat /\ b \in Nat /\ e \in Nat /\ h \in Nat /\ e <= a /\ h <= b
        /\ a <= b /\ e + b <= h + a
    BY <1>2, <1>3, ScoreSums, MatchesGain
  <1>5. m \in Nat /\ n \in Nat /\ m <= n
    BY <1>2, <1>3, PersonalKnown
  <1>6. /\ was = "NOT_ELIGIBLE" \/ (was = "UNKNOWN" /\ is # "NOT_ELIGIBLE") \/ is = "ELIGIBLE"
        /\ is = "NOT_ELIGIBLE" => was = "NOT_ELIGIBLE"
    BY <1>1, <1>3 DEF EligibilityOrder
  <1>7. score \in 0..100 /\ next \in 0..100
    BY <1>2, ScoreBounds
  <1>8. /\ score = IF was = "NOT_ELIGIBLE" \/ a = 0 THEN 0 ELSE (200 * e + a) \div (2 * a)
        /\ next = IF is = "NOT_ELIGIBLE" \/ b = 0 THEN 0 ELSE (200 * h + b) \div (2 * b)
    BY DEF Score
  <1>9. /\ Category("ELIGIBLE", score, before) =
             IF score >= 70 /\ a >= 50 /\ m >= 2 THEN "HIGH_PRIORITY"
             ELSE IF score >= 40 /\ a >= 35 THEN "MEDIUM_PRIORITY" ELSE "LOW_PRIORITY"
        /\ Category("ELIGIBLE", next, after) =
             IF next >= 70 /\ b >= 50 /\ n >= 2 THEN "HIGH_PRIORITY"
             ELSE IF next >= 40 /\ b >= 35 THEN "MEDIUM_PRIORITY" ELSE "LOW_PRIORITY"
        /\ Category("NOT_ELIGIBLE", score, before) = "NOT_ELIGIBLE"
        /\ Category("UNKNOWN", score, before) = "LOW_PRIORITY"
        /\ Category("NOT_ELIGIBLE", next, after) = "NOT_ELIGIBLE"
        /\ Category("UNKNOWN", next, after) = "LOW_PRIORITY"
    BY CategoryRanks
  <1> HIDE DEF a, b, e, h, m, n, score, next
  <1>10. next >= score
    <2>1. CASE score = 0
      BY <1>7, <2>1
    <2>2. CASE score # 0
      <3>1. was # "NOT_ELIGIBLE" /\ a # 0 /\ score = (200 * e + a) \div (2 * a)
        BY <1>8, <2>2
      <3>2. b # 0 /\ next = (200 * h + b) \div (2 * b)
        BY <1>4, <1>6, <1>8, <3>1
      <3>3. QED
        BY <1>4, <1>7, <3>1, <3>2, ScoreRises
    <2>3. QED
      BY <2>1, <2>2
  <1>11. CategoryOrder[Category(is, next, after)] >= CategoryOrder[Category(was, score, before)]
    <2>1. /\ CategoryOrder["NOT_ELIGIBLE"] = 1 /\ CategoryOrder["LOW_PRIORITY"] = 2
          /\ CategoryOrder["MEDIUM_PRIORITY"] = 3 /\ CategoryOrder["HIGH_PRIORITY"] = 4
      BY DEF CategoryOrder
    <2>2. \A c \in {"NOT_ELIGIBLE", "LOW_PRIORITY", "MEDIUM_PRIORITY", "HIGH_PRIORITY"} :
            CategoryOrder[c] \in 1..4
      BY <2>1
    <2>3. CASE was = "NOT_ELIGIBLE"
      BY <1>1, <1>9, <2>1, <2>3
    <2>4. CASE was = "UNKNOWN" /\ is # "NOT_ELIGIBLE"
      BY <1>1, <1>9, <2>1, <2>4
    <2>5. CASE was = "ELIGIBLE" /\ is = "ELIGIBLE"
      BY <1>4, <1>5, <1>7, <1>9, <1>10, <2>1, <2>5
    <2>6. QED
      BY <1>1, <1>6, <2>3, <2>4, <2>5
  <1>12. QED
    BY <1>1, <1>10, <1>11 DEF RankOf

Scoring ==
  /\ DOMAIN facts = Fact /\ \A name \in Fact : facts[name] \in Facts[name]
  /\ wish \in Wishes
  /\ ranked = Result(facts, wish)

LEMMA FactsAreOK == Scoring => FactsOK(facts)
  <1>1. "watched" \in Fact /\ "authority" \in Fact
    BY DEF Fact
  <1>2. QED
    BY <1>1, ScoringAssumption DEF Scoring, FactsOK

LEMMA ScoringInit == ScoreInit => Scoring
  <1> SUFFICES ASSUME ScoreInit PROVE Scoring
    OBVIOUS
  <1>1. \A name \in Fact : (CHOOSE value \in Facts[name] : TRUE) \in Facts[name]
    BY ScoringAssumption
  <1>2. QED
    BY <1>1 DEF ScoreInit, Scoring

LEMMA ScoringStep == Scoring /\ [ScoreNext]_scorevars => Scoring'
  <1> SUFFICES ASSUME Scoring, [ScoreNext]_scorevars PROVE Scoring'
    OBVIOUS
  <1>1. ASSUME NEW name \in Fact, NEW value \in Facts[name], LearnFact(name, value) PROVE Scoring'
    BY <1>1 DEF LearnFact, Scoring
  <1>2. ASSUME NEW w \in Wishes, AskForElse(w) PROVE Scoring'
    BY <1>2 DEF AskForElse, Scoring
  <1>3. ASSUME UNCHANGED scorevars PROVE Scoring'
    BY <1>3 DEF scorevars, Scoring
  <1>4. QED
    BY <1>1, <1>2, <1>3 DEF ScoreNext

LEMMA ScoringHolds == ScoreSpec => []Scoring
  BY ScoringInit, ScoringStep, PTL DEF ScoreSpec

(* The type invariant of the scoring; a score is a percentage               *)
(* (scoreOpportunityRecommendation), for no factor earns more than its      *)
(* weight and one that is unknown earns nothing.                            *)
THEOREM ScoringTypeCorrect == ScoreSpec => []ScoringTypeOK
  <1>1. Scoring => ScoringTypeOK
    <2> SUFFICES ASSUME Scoring PROVE ScoringTypeOK
      OBVIOUS
    <2>1. GoodFactors(FactorOf(facts, wish))
      BY FactsAreOK, FactorsAreGood DEF Scoring
    <2>2. ranked.score \in 0..100
      BY <2>1, ResultParts, ScoreBounds DEF Scoring
    <2>3. QED
      BY <2>2 DEF Scoring, ScoringTypeOK
  <1>2. QED
    BY <1>1, ScoringHolds, PTL

(* News in the user's favour never costs an opportunity its place: a factor *)
(* that comes to match adds its whole weight to what was earned and no more *)
(* than that to what is divided by, and the rounding keeps the order        *)
(* (scoreOpportunityRecommendation).                                        *)
THEOREM LearningDemotesNone == ScoreSpec => LearningNeverDemotes
  <1>1. Scoring /\ Scoring' =>
          (OnlyMatches(ranked.factors, ranked'.factors)
             /\ EligibilityOrder[ranked'.eligibility] >= EligibilityOrder[ranked.eligibility]
           => /\ CategoryOrder[ranked'.category] >= CategoryOrder[ranked.category]
              /\ ranked'.score >= ranked.score)
    <2> SUFFICES ASSUME Scoring, Scoring', OnlyMatches(ranked.factors, ranked'.factors),
                        EligibilityOrder[ranked'.eligibility] >= EligibilityOrder[ranked.eligibility]
                 PROVE  /\ CategoryOrder[ranked'.category] >= CategoryOrder[ranked.category]
                        /\ ranked'.score >= ranked.score
      OBVIOUS
    <2>1. FactsOK(facts) /\ wish \in Wishes /\ ranked = Result(facts, wish)
      BY FactsAreOK DEF Scoring
    <2>2. FactsOK(facts') /\ wish' \in Wishes /\ ranked' = Result(facts', wish')
      <3>1. "watched" \in Fact /\ "authority" \in Fact
        BY DEF Fact
      <3>2. QED
        BY <3>1, ScoringAssumption DEF Scoring, FactsOK
    <2>3. QED
      BY <2>1, <2>2, NoneDemoted DEF RankOf
  <1>2. QED
    BY <1>1, ScoringHolds, PTL DEF LearningNeverDemotes

-----------------------------------------------------------------------------
(* The list of opportunities.  Older orders the rows that are listed        *)
(* strictly and totally.                                                    *)
LEMMA KeysAreOrdered ==
  ASSUME ListingTypeOK
  PROVE  /\ \A a \in Listed : Key(a) \in Cursor /\ Listed \subseteq Nat
         /\ \A a \in Listed : ~ Older(Key(a), Key(a))
         /\ \A a, b \in Listed : a = b \/ Older(Key(a), Key(b)) \/ Older(Key(b), Key(a))
         /\ \A a, b, c \in Cursor : Older(a, b) /\ Older(b, c) => Older(a, c)
         /\ \A a, b \in Cursor : Older(a, b) => ~ Older(b, a)
  <1>1. ASSUME NEW a \in Listed
        PROVE  a \in Nat /\ sighted[a] \in 0..LastMoment /\ sighted[a] \in Nat
               /\ Key(a) = [at |-> sighted[a], id |-> a] /\ Key(a) \in Cursor
    <2>1. Listings \subseteq Nat /\ 0..LastMoment \subseteq Nat
      BY ListingAssumption
    <2>2. a \in Listings /\ sighted[a] \in 0..LastMoment
      BY DEF ListingTypeOK, Listed
    <2>3. Key(a) = [at |-> sighted[a], id |-> a] /\ Key(a) \in Cursor
      BY <2>2 DEF Key, Cursor
    <2>4. QED
      BY <2>1, <2>2, <2>3
  <1>2. \A c \in Cursor : c.at \in Nat /\ c.id \in Nat
    <2>1. Listings \subseteq Nat /\ 0..LastMoment \subseteq Nat
      BY ListingAssumption
    <2>2. QED
      BY <2>1 DEF Cursor
  <1>3. \A a \in Listed : ~ Older(Key(a), Key(a))
    BY <1>1 DEF Older
  <1>4. \A a, b \in Listed : a = b \/ Older(Key(a), Key(b)) \/ Older(Key(b), Key(a))
    BY <1>1 DEF Older
  <1>5. \A a, b, c \in Cursor : Older(a, b) /\ Older(b, c) => Older(a, c)
    BY <1>2 DEF Older
  <1>6. \A a, b \in Cursor : Older(a, b) => ~ Older(b, a)
    BY <1>2 DEF Older
  <1>7. QED
    BY <1>1, <1>3, <1>4, <1>5, <1>6

(* What ORDER BY returns: every row once, newer ones before older ones.     *)
Ordered(rows, ids) ==
  /\ Cardinality(ids) \in Nat
  /\ rows \in [1..Cardinality(ids) -> ids]
  /\ \A i, j \in 1..Cardinality(ids) : i < j => Older(Key(rows[j]), Key(rows[i]))
  /\ \A id \in ids : \E i \in 1..Cardinality(ids) : rows[i] = id

(* The rows can be ordered: the place of each is the number of newer ones.  *)
LEMMA PlacesExist ==
  ASSUME ListingTypeOK, NEW ids \in SUBSET Listed
  PROVE  \E rows \in [1..Cardinality(ids) -> ids] :
           \A i, j \in DOMAIN rows : i < j => Older(Key(rows[j]), Key(rows[i]))
  <1> DEFINE n == Cardinality(ids)
             Newer(a) == {b \in ids : Older(Key(a), Key(b))}
             place == [a \in ids |-> Cardinality(Newer(a)) + 1]
  <1>1. IsFiniteSet(ids) /\ n \in Nat
    BY ListingAssumption, FS_Subset, FS_CardinalityType DEF Listed
  <1>2. ASSUME NEW a \in ids
        PROVE  IsFiniteSet(Newer(a)) /\ Cardinality(Newer(a)) \in 0..(n - 1)
    <2>1. /\ IsFiniteSet(ids \ {a})
          /\ Cardinality(ids \ {a}) = n - 1
      BY <1>1, FS_RemoveElement
    <2>2. Newer(a) \in SUBSET (ids \ {a})
      BY KeysAreOrdered
    <2>3. IsFiniteSet(Newer(a)) /\ Cardinality(Newer(a)) <= Cardinality(ids \ {a})
      BY <2>1, <2>2, FS_Subset
    <2>4. Cardinality(Newer(a)) \in Nat
      BY <2>3, FS_CardinalityType
    <2> HIDE DEF Newer, n
    <2>5. QED
      BY <1>1, <2>1, <2>3, <2>4
  <1>3. ASSUME NEW a \in ids, NEW b \in ids, Older(Key(b), Key(a))
        PROVE  Cardinality(Newer(a)) < Cardinality(Newer(b))
    <2>1. Newer(a) \in SUBSET Newer(b)
      BY <1>3, KeysAreOrdered
    <2>2. a \in Newer(b) /\ a \notin Newer(a)
      BY <1>3, KeysAreOrdered
    <2>3. Cardinality(Newer(a)) <= Cardinality(Newer(b)) /\ Cardinality(Newer(a)) # Cardinality(Newer(b))
      BY <1>2, <2>1, <2>2, FS_Subset
    <2>4. Cardinality(Newer(a)) \in 0..(n - 1) /\ Cardinality(Newer(b)) \in 0..(n - 1)
      BY <1>2
    <2> HIDE DEF Newer, n
    <2>5. QED
      BY <1>1, <2>3, <2>4
  <1>4. place \in [ids -> 1..n]
    <2>1. ASSUME NEW a \in ids PROVE Cardinality(Newer(a)) + 1 \in 1..n
      <3> HIDE DEF Newer, n
      <3>1. QED
        BY <1>1, <1>2
    <2>2. QED
      BY <2>1
  <1>5. \A a, b \in ids : Older(Key(b), Key(a)) => place[a] < place[b]
    <2>1. SUFFICES ASSUME NEW a \in ids, NEW b \in ids, Older(Key(b), Key(a))
                   PROVE  place[a] < place[b]
      OBVIOUS
    <2>2. place[a] = Cardinality(Newer(a)) + 1 /\ place[b] = Cardinality(Newer(b)) + 1
      OBVIOUS
    <2>3. Cardinality(Newer(a)) < Cardinality(Newer(b))
      BY <1>3, <2>1
    <2>4. Cardinality(Newer(a)) \in 0..(n - 1) /\ Cardinality(Newer(b)) \in 0..(n - 1)
      BY <1>2
    <2> HIDE DEF Newer, n, place
    <2>5. QED
      BY <1>1, <2>2, <2>3, <2>4
  <1> HIDE DEF place
  <1>6. \A a, b \in ids : place[a] = place[b] => a = b
    <2>1. \A a \in ids : place[a] \in Nat
      BY <1>1, <1>4
    <2>2. QED
      BY <1>5, <2>1, KeysAreOrdered
  <1>7. \A k \in 1..n : \E a \in ids : place[a] = k
    <2>1. place \in Injection(ids, 1..n)
      BY <1>4, <1>6 DEF Injection, IsInjective
    <2>2. IsFiniteSet(1..n) /\ Cardinality(1..n) = n
      BY <1>1, FS_Interval
    <2>3. place \in Surjection(ids, 1..n)
      BY <2>1, <2>2, FS_Injection
    <2>4. QED
      BY <2>3 DEF Surjection
  <1> DEFINE rows == [k \in 1..n |-> CHOOSE a \in ids : place[a] = k]
  <1>8. \A k \in 1..n : rows[k] \in ids /\ place[rows[k]] = k
    BY <1>7
  <1>9. rows \in [1..n -> ids] /\ DOMAIN rows = 1..n
    BY <1>8
  <1> HIDE DEF rows
  <1>10. ASSUME NEW i \in 1..n, NEW j \in 1..n, i < j
         PROVE  Older(Key(rows[j]), Key(rows[i]))
    <2>1. rows[i] # rows[j]
      BY <1>1, <1>8, <1>10
    <2>2. ~ Older(Key(rows[i]), Key(rows[j]))
      <3>1. Older(Key(rows[i]), Key(rows[j])) => place[rows[j]] < place[rows[i]]
        BY <1>5, <1>8
      <3>2. Older(Key(rows[i]), Key(rows[j])) => j < i
        BY <1>8, <3>1
      <3>3. QED
        BY <1>1, <1>10, <3>2
    <2>3. QED
      BY <1>8, <2>1, <2>2, KeysAreOrdered
  <1>11. QED
    BY <1>9, <1>10

LEMMA RowsAreOrdered ==
  ASSUME ListingTypeOK, NEW ids \in SUBSET Listed
  PROVE  Ordered(NewestFirst(ids), ids)
  <1> DEFINE n == Cardinality(ids)
             rows == NewestFirst(ids)
  <1>1. IsFiniteSet(ids) /\ n \in Nat
    BY ListingAssumption, FS_Subset, FS_CardinalityType DEF Listed
  <1>2. /\ rows \in [1..n -> ids]
        /\ \A i, j \in DOMAIN rows : i < j => Older(Key(rows[j]), Key(rows[i]))
    BY PlacesExist DEF NewestFirst
  <1> HIDE DEF rows
  <1>3. \A i, j \in 1..n : i < j => Older(Key(rows[j]), Key(rows[i]))
    BY <1>2
  <1>4. \A i, j \in 1..n : rows[i] = rows[j] => i = j
    <2>1. \A i \in 1..n : rows[i] \in Listed
      BY <1>2
    <2>2. \A i, j \in 1..n : i < j => rows[i] # rows[j]
      BY <1>3, <2>1, KeysAreOrdered
    <2>3. QED
      BY <1>1, <2>2
  <1>5. rows \in Surjection(1..n, ids)
    <2>1. rows \in Injection(1..n, ids)
      BY <1>2, <1>4 DEF Injection, IsInjective
    <2>2. Cardinality(1..n) = n
      BY <1>1, FS_Interval
    <2>3. QED
      BY <1>1, <2>1, <2>2, FS_Injection
  <1>6. \A id \in ids : \E i \in 1..n : rows[i] = id
    BY <1>5 DEF Surjection
  <1>7. QED
    BY <1>1, <1>2, <1>3, <1>6 DEF rows, Ordered

(* A page: the first rows of the ordered list of what is ahead of the       *)
(* cursor, each once; all of them unless there are more; and then what      *)
(* the page does not show is older than its last row, and what it shows     *)
(* is not.                                                                  *)
Ahead(cursor) == {id \in Listed : cursor = Null \/ Older(Key(id), cursor)}

PageOf(cursor) == PageRows(Rows(cursor))

More(cursor) == MoreRows(Rows(cursor))

Edge(cursor) == Last(PageOf(cursor))

Shown(rows, id) == {i \in DOMAIN rows : rows[i] = id}

PageFacts(cursor) ==
  /\ PageOf(cursor) \in Seq(Ahead(cursor))
  /\ \A i, j \in DOMAIN PageOf(cursor) : PageOf(cursor)[i] = PageOf(cursor)[j] => i = j
  /\ ~ More(cursor) => \A id \in Ahead(cursor) : Shown(PageOf(cursor), id) # {}
  /\ More(cursor) =>
       /\ Edge(cursor) \in Ahead(cursor)
       /\ \A id \in Ahead(cursor) :
            IF Shown(PageOf(cursor), id) # {} THEN ~ Older(Key(id), Key(Edge(cursor)))
            ELSE Older(Key(id), Key(Edge(cursor)))

LEMMA SmallerOfTwo ==
  ASSUME NEW a \in Nat, NEW b \in Nat
  PROVE  /\ Min({a, b}) \in {a, b}
         /\ Min({a, b}) <= a /\ Min({a, b}) <= b
  <1>1. \E x \in {a, b} : \A y \in {a, b} : x <= y
    <2>1. CASE a <= b
      BY <2>1
    <2>2. CASE b <= a
      BY <2>2
    <2>3. QED
      BY <2>1, <2>2
  <1>2. QED
    BY <1>1 DEF Min

LEMMA PagesAreCut ==
  ASSUME ListingTypeOK, NEW cursor
  PROVE  LET all == NewestFirst(Ahead(cursor))
             n == Cardinality(Ahead(cursor))
         IN  /\ n \in Nat
             /\ More(cursor) = (n > PageLimit)
             /\ PageOf(cursor) \in Seq(Ahead(cursor))
             /\ Len(PageOf(cursor)) = IF n > PageLimit THEN PageLimit ELSE n
             /\ \A i \in 1..Len(PageOf(cursor)) : PageOf(cursor)[i] = all[i]
  <1> DEFINE ids == Ahead(cursor)
             all == NewestFirst(ids)
             n == Cardinality(ids)
             m == Min({Len(all), PageLimit + 1})
             rows == SubSeq(all, 1, m)
             page == SubSeq(rows, 1, PageLimit)
  <1>1. n \in Nat /\ all \in [1..n -> ids]
    BY RowsAreOrdered DEF Ahead, Ordered
  <1>2. Rows(cursor) = rows
    BY DEF Rows, Ahead
  <1>3. PageLimit \in Nat \ {0}
    BY ListingAssumption
  <1> HIDE DEF ids, all, n
  <1>4. all \in Seq(ids) /\ Len(all) = n
    BY <1>1
  <1>5. m \in {n, PageLimit + 1} /\ m <= n /\ m <= PageLimit + 1
    BY <1>1, <1>3, <1>4, SmallerOfTwo
  <1> HIDE DEF m
  <1>6. /\ rows \in Seq(ids)
        /\ Len(rows) = m
        /\ \A i \in 1..m : rows[i] = all[i]
    <2>1. m \in Nat /\ \A i \in 1..m : all[i] \in ids
      BY <1>1, <1>3, <1>5
    <2>2. /\ SubSeq(all, 1, m) \in Seq(ids)
          /\ Len(SubSeq(all, 1, m)) = IF 1 <= m THEN m - 1 + 1 ELSE 0
          /\ \A i \in 1..(m - 1 + 1) : SubSeq(all, 1, m)[i] = all[1 + i - 1]
      BY <2>1, SubSeqProperties
    <2> HIDE DEF rows
    <2>3. QED
      BY <2>1, <2>2 DEF rows
  <1> HIDE DEF rows
  <1>7. (m > PageLimit) = (n > PageLimit)
    BY <1>1, <1>3, <1>5
  <1>8. More(cursor) = (n > PageLimit)
    BY <1>2, <1>6, <1>7 DEF More, MoreRows
  <1>9. PageOf(cursor) = IF n > PageLimit THEN page ELSE rows
    BY <1>2, <1>8 DEF PageOf, PageRows, More
  <1>10. CASE n > PageLimit
    <2>1. m = PageLimit + 1
      BY <1>1, <1>3, <1>5, <1>10
    <2>2. \A i \in 1..PageLimit : rows[i] \in ids /\ rows[i] = all[i]
      BY <1>1, <1>3, <1>6, <1>10, <2>1
    <2>3. /\ SubSeq(rows, 1, PageLimit) \in Seq(ids)
          /\ Len(SubSeq(rows, 1, PageLimit)) = IF 1 <= PageLimit THEN PageLimit - 1 + 1 ELSE 0
          /\ \A i \in 1..(PageLimit - 1 + 1) : SubSeq(rows, 1, PageLimit)[i] = rows[1 + i - 1]
      BY <1>3, <2>2, SubSeqProperties
    <2> HIDE DEF page
    <2>4. page \in Seq(ids) /\ Len(page) = PageLimit /\ \A i \in 1..PageLimit : page[i] = all[i]
      BY <1>3, <2>2, <2>3 DEF page
    <2>5. QED
      BY <1>1, <1>8, <1>9, <1>10, <2>4 DEF ids, all, n
  <1>11. CASE ~ (n > PageLimit)
    <2>1. m = n
      BY <1>1, <1>3, <1>5, <1>11
    <2>2. QED
      BY <1>1, <1>6, <1>8, <1>9, <1>11, <2>1 DEF ids, all, n
  <1>12. QED
    BY <1>10, <1>11

LEMMA PagesShowTheNewest ==
  ASSUME ListingTypeOK, NEW cursor
  PROVE  PageFacts(cursor)
  <1> DEFINE ids == Ahead(cursor)
             all == NewestFirst(ids)
             n == Cardinality(ids)
             page == PageOf(cursor)
  <1>1. /\ n \in Nat
        /\ all \in [1..n -> ids]
        /\ \A i, j \in 1..n : i < j => Older(Key(all[j]), Key(all[i]))
        /\ \A id \in ids : \E i \in 1..n : all[i] = id
    BY RowsAreOrdered DEF Ahead, Ordered
  <1>2. /\ More(cursor) = (n > PageLimit)
        /\ page \in Seq(ids)
        /\ Len(page) = IF n > PageLimit THEN PageLimit ELSE n
        /\ \A i \in 1..Len(page) : page[i] = all[i]
    BY PagesAreCut
  <1>3. PageLimit \in Nat \ {0}
    BY ListingAssumption
  <1>4. ids \subseteq Listed
    BY DEF Ahead
  <1> HIDE DEF all, n, page, ids
  <1>5. Len(page) \in Nat /\ Len(page) <= n /\ DOMAIN page = 1..Len(page)
    BY <1>1, <1>2, <1>3
  <1>6. \A i \in 1..n : all[i] \in Listed
    BY <1>1, <1>4
  <1>7. \A i, j \in 1..n : all[i] = all[j] => i = j
    <2>1. \A i, j \in 1..n : i < j => all[i] # all[j]
      BY <1>1, <1>6, KeysAreOrdered
    <2>2. QED
      BY <1>1, <2>1
  <1>8. \A i, j \in DOMAIN page : page[i] = page[j] => i = j
    BY <1>1, <1>2, <1>5, <1>7
  <1>9. ASSUME ~ More(cursor), NEW id \in ids PROVE Shown(page, id) # {}
    <2>1. Len(page) = n
      BY <1>2, <1>9
    <2>2. PICK i \in 1..n : all[i] = id
      BY <1>1, <1>9
    <2>3. i \in DOMAIN page /\ page[i] = id
      BY <1>2, <1>5, <2>1, <2>2
    <2>4. QED
      BY <2>3 DEF Shown
  <1>10. ASSUME More(cursor)
         PROVE  /\ Last(page) \in ids
                /\ \A id \in ids :
                     IF Shown(page, id) # {} THEN ~ Older(Key(id), Key(Last(page)))
                     ELSE Older(Key(id), Key(Last(page)))
    <2>1. /\ PageLimit < n
          /\ Len(page) = PageLimit
          /\ PageLimit \in 1..n
          /\ Last(page) = all[PageLimit]
      <3>1. PageLimit < n /\ Len(page) = PageLimit
        BY <1>1, <1>2, <1>3, <1>10
      <3>2. PageLimit \in 1..n /\ PageLimit \in 1..Len(page)
        BY <1>1, <1>3, <3>1
      <3>3. QED
        BY <1>2, <3>1, <3>2 DEF Last
    <2>2. ASSUME NEW id \in ids, Shown(page, id) # {}
          PROVE  ~ Older(Key(id), Key(Last(page)))
      <3>1. PICK i \in DOMAIN page : page[i] = id
        BY <2>2 DEF Shown
      <3>2. i \in 1..n /\ i <= PageLimit /\ all[i] = id
        BY <1>1, <1>2, <1>3, <1>5, <2>1, <3>1
      <3>3. CASE i = PageLimit
        BY <1>6, <2>1, <3>2, <3>3, KeysAreOrdered
      <3>4. CASE i < PageLimit
        <4>1. Older(Key(all[PageLimit]), Key(all[i]))
          BY <1>1, <2>1, <3>2, <3>4
        <4>2. Key(all[PageLimit]) \in Cursor /\ Key(all[i]) \in Cursor
          BY <1>6, <2>1, <3>2, KeysAreOrdered
        <4>3. QED
          BY <2>1, <3>2, <4>1, <4>2, KeysAreOrdered
      <3>5. QED
        BY <1>3, <1>1, <3>2, <3>3, <3>4
    <2>3. ASSUME NEW id \in ids, Shown(page, id) = {}
          PROVE  Older(Key(id), Key(Last(page)))
      <3>1. PICK i \in 1..n : all[i] = id
        BY <1>1, <2>3
      <3>2. ~ (i \in DOMAIN page)
        <4>1. i \in DOMAIN page => page[i] = id
          BY <1>2, <1>5, <3>1
        <4>2. QED
          BY <2>3, <4>1 DEF Shown
      <3>3. PageLimit < i
        BY <1>1, <1>3, <1>5, <2>1, <3>2
      <3>4. QED
        BY <1>1, <2>1, <3>1, <3>3
    <2>4. Last(page) \in ids
      BY <1>1, <2>1
    <2>5. QED
      BY <2>2, <2>3, <2>4
  <1>11. QED
    BY <1>2, <1>8, <1>9, <1>10 DEF PageFacts, page, ids, Edge

(* The cursor of a page is its last row with the time cut to the            *)
(* millisecond: no row from the last one on is before the cursor, and what  *)
(* is older than the last row is, unless it was seen in the millisecond.    *)
LEMMA CutTimes ==
  ASSUME NEW x \in Nat, NEW y \in Nat
  PROVE  /\ Timestamp(x) \in Nat /\ Timestamp(x) <= x
         /\ y <= x /\ Timestamp(x) <= y => y \div Milli = x \div Milli
  <1>1. Milli \in Nat \ {0}
    BY ListingAssumption
  <1> DEFINE p == x \div Milli
             q == y \div Milli
  <1>2. p \in Nat /\ q \in Nat /\ p * Milli \in Nat /\ q * Milli \in Nat
    BY <1>1
  <1>3. p * Milli <= x /\ x < p * Milli + Milli
    BY <1>1
  <1>4. q * Milli <= y /\ y < q * Milli + Milli
    BY <1>1
  <1> HIDE DEF p, q
  <1>5. ASSUME y <= x, p * Milli <= y PROVE q = p
    <2>1. ASSUME q < p PROVE FALSE
      <3>1. (q + 1) * Milli <= p * Milli
        BY <1>1, <1>2, <2>1
      <3>2. (q + 1) * Milli = q * Milli + Milli
        BY <1>1, <1>2
      <3>3. QED
        BY <1>1, <1>2, <1>4, <1>5, <3>1, <3>2
    <2>2. ASSUME p < q PROVE FALSE
      <3>1. (p + 1) * Milli <= q * Milli
        BY <1>1, <1>2, <2>2
      <3>2. (p + 1) * Milli = p * Milli + Milli
        BY <1>1, <1>2
      <3>3. QED
        BY <1>1, <1>2, <1>3, <1>4, <1>5, <3>1, <3>2
    <2>3. QED
      BY <1>2, <2>1, <2>2
  <1>6. Timestamp(x) = p * Milli
    BY DEF p, Timestamp
  <1>7. QED
    BY <1>2, <1>3, <1>5, <1>6 DEF p, q

LEMMA CursorsAreCut ==
  ASSUME ListingTypeOK, NEW id \in Listed, NEW e \in Listed
  PROVE  /\ EncodedCursor(e) \in Cursor
         /\ EncodedCursor(e) # Null
         /\ Older(Key(id), EncodedCursor(e)) => Older(Key(id), Key(e))
         /\ Older(Key(id), Key(e)) =>
              Older(Key(id), EncodedCursor(e)) \/ sighted[id] \div Milli = sighted[e] \div Milli
  <1> DEFINE x == sighted[e]
             y == sighted[id]
             t == Timestamp(x)
  <1>1. x \in 0..LastMoment /\ y \in 0..LastMoment /\ x \in Nat /\ y \in Nat /\ LastMoment \in Nat
    <2>1. \A a \in Listed : sighted[a] \in 0..LastMoment
      BY DEF ListingTypeOK, Listed
    <2>2. LastMoment \in Nat
      BY ListingAssumption
    <2>3. QED
      BY <2>1, <2>2
  <1>2. /\ t \in Nat /\ t <= x
        /\ y <= x /\ t <= y => y \div Milli = x \div Milli
    BY <1>1, CutTimes
  <1>3. id \in Nat /\ e \in Nat /\ e \in Listings
    BY ListingAssumption DEF Listed
  <1>4. Key(id) = [at |-> y, id |-> id] /\ Key(e) = [at |-> x, id |-> e]
    BY DEF Key
  <1>5. EncodedCursor(e) = [at |-> t, id |-> e]
    BY DEF EncodedCursor
  <1> HIDE DEF x, y, t
  <1>6. t \in 0..LastMoment
    BY <1>1, <1>2
  <1>7. EncodedCursor(e) \in Cursor /\ EncodedCursor(e) \in [at : Nat, id : Nat]
    BY <1>2, <1>3, <1>5, <1>6 DEF Cursor
  <1>8. EncodedCursor(e) # Null
    BY <1>7, ListingAssumption
  <1>9. Older(Key(id), EncodedCursor(e)) => Older(Key(id), Key(e))
    BY <1>1, <1>2, <1>3, <1>4, <1>5 DEF Older
  <1>10. ASSUME Older(Key(id), Key(e)), ~ Older(Key(id), EncodedCursor(e))
         PROVE  y \div Milli = x \div Milli
    <2>1. y <= x
      BY <1>1, <1>3, <1>4, <1>10 DEF Older
    <2>2. t <= y
      BY <1>1, <1>2, <1>3, <1>5, <1>4, <1>10 DEF Older
    <2>3. QED
      BY <1>2, <2>1, <2>2
  <1>11. QED
    BY <1>7, <1>8, <1>9, <1>10 DEF x, y

(* What a page adds to what was shown.                                      *)
LEMMA ShownAfterPage ==
  ASSUME NEW S, NEW g \in Seq(S), NEW p \in Seq(S), NEW id,
         \A i, j \in DOMAIN p : p[i] = p[j] => i = j
  PROVE  /\ Shown(p, id) = {} => Shown(g \o p, id) = Shown(g, id)
         /\ Shown(g, id) = {} => \A i, j \in Shown(g \o p, id) : i = j
         /\ Shown(p, id) # {} => Shown(g \o p, id) # {}
  <1>1. /\ g \o p \in Seq(S)
        /\ DOMAIN g = 1..Len(g) /\ DOMAIN p = 1..Len(p)
        /\ DOMAIN (g \o p) = 1..Len(g \o p)
        /\ Len(g) \in Nat /\ Len(p) \in Nat
        /\ Len(g \o p) = Len(g) + Len(p)
        /\ \A i \in 1..(Len(g) + Len(p)) :
             (g \o p)[i] = IF i <= Len(g) THEN g[i] ELSE p[i - Len(g)]
    OBVIOUS
  <1> DEFINE all == g \o p
             a == Len(g)
             b == Len(p)
  <1> HIDE DEF all, a, b
  <1>2. /\ a \in Nat /\ b \in Nat
        /\ DOMAIN all = 1..(a + b)
        /\ DOMAIN g = 1..a /\ DOMAIN p = 1..b
        /\ \A i \in 1..a : i \in 1..(a + b) /\ all[i] = g[i]
        /\ \A i \in 1..(a + b) : ~ (i <= a) => i - a \in 1..b /\ all[i] = p[i - a]
        /\ \A i \in 1..b : a + i \in 1..(a + b) /\ all[a + i] = p[i]
    <2>1. /\ a \in Nat /\ b \in Nat
          /\ DOMAIN all = 1..(a + b)
          /\ DOMAIN g = 1..a /\ DOMAIN p = 1..b
          /\ \A i \in 1..(a + b) : all[i] = IF i <= a THEN g[i] ELSE p[i - a]
      BY <1>1 DEF all, a, b
    <2>2. ASSUME NEW i \in 1..a PROVE i \in 1..(a + b) /\ all[i] = g[i]
      BY <2>1
    <2>3. ASSUME NEW i \in 1..(a + b), ~ (i <= a) PROVE i - a \in 1..b /\ all[i] = p[i - a]
      BY <2>1, <2>3
    <2>4. ASSUME NEW i \in 1..b PROVE a + i \in 1..(a + b) /\ all[a + i] = p[i]
      <3>1. a + i \in 1..(a + b) /\ ~ (a + i <= a) /\ (a + i) - a = i
        BY <2>1
      <3>2. QED
        BY <2>1, <3>1
    <2>5. QED
      BY <2>1, <2>2, <2>3, <2>4
  <1>3. ASSUME Shown(p, id) = {} PROVE Shown(all, id) = Shown(g, id)
    <2>1. \A i \in 1..b : p[i] # id
      BY <1>2, <1>3 DEF Shown
    <2>2. ASSUME NEW i, i \in Shown(all, id) PROVE i \in Shown(g, id)
      <3>1. i \in 1..(a + b) /\ all[i] = id
        BY <1>2, <2>2 DEF Shown
      <3>2. i \in 1..a
        BY <1>2, <2>1, <3>1
      <3>3. QED
        BY <1>2, <3>1, <3>2 DEF Shown
    <2>3. ASSUME NEW i, i \in Shown(g, id) PROVE i \in Shown(all, id)
      BY <1>2, <2>3 DEF Shown
    <2>4. QED
      BY <2>2, <2>3
  <1>4. ASSUME Shown(g, id) = {}, NEW i \in Shown(all, id), NEW j \in Shown(all, id)
        PROVE  i = j
    <2>1. i \in 1..(a + b) /\ all[i] = id /\ j \in 1..(a + b) /\ all[j] = id
      BY <1>2 DEF Shown
    <2>2. ~ (i <= a) /\ ~ (j <= a)
      <3>1. \A k \in 1..a : g[k] # id
        BY <1>2, <1>4 DEF Shown
      <3>2. QED
        BY <1>2, <2>1, <3>1
    <2>3. i - a \in 1..b /\ p[i - a] = id /\ j - a \in 1..b /\ p[j - a] = id
      BY <1>2, <2>1, <2>2
    <2>4. i - a = j - a
      BY <1>2, <2>3
    <2>5. QED
      BY <1>2, <2>1, <2>4
  <1>5. ASSUME Shown(p, id) # {} PROVE Shown(all, id) # {}
    <2>1. PICK i \in 1..b : p[i] = id
      BY <1>2, <1>5 DEF Shown
    <2>2. a + i \in Shown(all, id)
      BY <1>2, <2>1 DEF Shown
    <2>3. QED
      BY <2>2
  <1>6. QED
    BY <1>3, <1>4, <1>5 DEF all

(* The invariant: what became of each row that stays as it is.  Shown once  *)
(* it is behind the cursor, so that no later page shows it again.           *)
Readers ==
  [ stage : {"FIRST", "NEXT", "END"}, cursor : Cursor \cup {Null}, given : Seq(Listings),
    steady : SUBSET Listings, edges : SUBSET Cursor ]

StillAhead(id) == reader.cursor # Null /\ Older(Key(id), reader.cursor)

(* A row older than the last one of a page is skipped when the cursor made  *)
(* of that one, cut to the millisecond, is not newer than the row.          *)
Cut(edge) == [at |-> Timestamp(edge.at), id |-> edge.id]

Skips(edge, id) == Older(Key(id), edge) /\ ~ Older(Key(id), Cut(edge))

AtAnEdge(id) == \E edge \in reader.edges : Skips(edge, id)

RowProgress(id) ==
  IF Shown(reader.given, id) # {}
  THEN (\A i, j \in Shown(reader.given, id) : i = j) /\ ~ StillAhead(id)
  ELSE StillAhead(id) \/ AtAnEdge(id)

Leafing ==
  /\ ListingTypeOK
  /\ reader \in Readers
  /\ reader.stage = "FIRST" => reader.given = <<>> /\ reader.steady = {}
  /\ \A id \in reader.steady : RowProgress(id)

LEMMA ListingStarts ==
  ASSUME ListingInit
  PROVE  Leafing
  <1>1. moment = 0 /\ LastMoment \in Nat /\ sighted = [id \in Listings |-> Null]
    BY ListingAssumption DEF ListingInit
  <1>2. reader = [stage |-> "FIRST", cursor |-> Null, given |-> <<>>, steady |-> {}, edges |-> {}]
    BY DEF ListingInit
  <1>3. reader \in Readers
    BY <1>2 DEF Readers
  <1>4. ListingTypeOK
    BY <1>1, <1>2 DEF ListingTypeOK
  <1>5. QED
    BY <1>2, <1>3, <1>4 DEF Leafing

(* What the reader has after a page.                                        *)
LEMMA PageTaken ==
  ASSUME Leafing, ListOpportunities
  PROVE  /\ reader.stage \in {"FIRST", "NEXT"}
         /\ reader.stage = "FIRST" => reader.cursor = Null
         /\ reader.stage = "NEXT" => reader.cursor \in Cursor /\ reader.cursor # Null
         /\ reader'.stage = IF More(reader.cursor) THEN "NEXT" ELSE "END"
         /\ reader'.cursor =
              IF More(reader.cursor) THEN EncodedCursor(Edge(reader.cursor)) ELSE Null
         /\ reader'.given = reader.given \o PageOf(reader.cursor)
         /\ reader'.steady = IF reader.stage = "FIRST" THEN Listed ELSE reader.steady
         /\ reader'.edges =
              reader.edges \cup (IF More(reader.cursor) THEN {Key(Edge(reader.cursor))} ELSE {})
         /\ reader' = [ stage |-> reader'.stage, cursor |-> reader'.cursor,
                        given |-> reader'.given, steady |-> reader'.steady,
                        edges |-> reader'.edges ]
         /\ More(reader.cursor) => reader'.cursor # Null
  <1> DEFINE c == reader.cursor
             next == CursorAfter(Rows(c))
             more == More(c)
             e == Edge(c)
             page == PageOf(c)
             listed == Listed
             enc == EncodedCursor(e)
             key == Key(e)
  <1>1. /\ reader.stage \in {"FIRST", "NEXT"}
        /\ reader' =
             [ stage |-> IF next = Null THEN "END" ELSE "NEXT",
               cursor |-> next,
               given |-> reader.given \o page,
               steady |-> IF reader.stage = "FIRST" THEN listed ELSE reader.steady,
               edges |-> reader.edges \cup (IF next = Null THEN {} ELSE {key}) ]
    BY DEF ListOpportunities, Leafing, ListingTypeOK, PageOf, Edge
  <1>2. /\ reader.stage = "FIRST" => c = Null
        /\ reader.stage = "NEXT" => c \in Cursor
    BY DEF Leafing, ListingTypeOK
  <1>3. Null \notin Cursor
    <2>1. \A x \in Cursor : x \in [at : Nat, id : Nat]
      <3>1. Listings \subseteq Nat /\ 0..LastMoment \subseteq Nat
        BY ListingAssumption
      <3>2. QED
        BY <3>1 DEF Cursor
    <2>2. Null \notin [at : Nat, id : Nat]
      BY ListingAssumption
    <2>3. QED
      BY <2>1, <2>2
  <1>4. next = IF more THEN enc ELSE Null
    BY DEF CursorAfter, More, PageOf, Edge
  <1>5. more => enc # Null
    <2>1. ListingTypeOK
      BY DEF Leafing
    <2>2. more => e \in Listed
      BY <2>1, PagesShowTheNewest DEF PageFacts, Ahead
    <2>3. QED
      BY <2>1, <2>2, CursorsAreCut
  <1> HIDE DEF next, more, e, page, listed, enc, key, c
  <1>6. (next = Null) = ~ more
    BY <1>4, <1>5
  <1>7. /\ reader.stage \in {"FIRST", "NEXT"}
        /\ reader.stage = "FIRST" => c = Null
        /\ reader.stage = "NEXT" => c \in Cursor /\ c # Null
        /\ reader'.stage = IF more THEN "NEXT" ELSE "END"
        /\ reader'.cursor = IF more THEN enc ELSE Null
        /\ reader'.given = reader.given \o page
        /\ reader'.steady = IF reader.stage = "FIRST" THEN listed ELSE reader.steady
        /\ reader'.edges = reader.edges \cup (IF more THEN {key} ELSE {})
        /\ reader' = [ stage |-> reader'.stage, cursor |-> reader'.cursor,
                       given |-> reader'.given, steady |-> reader'.steady,
                       edges |-> reader'.edges ]
        /\ more => reader'.cursor # Null
    BY <1>1, <1>2, <1>3, <1>4, <1>5, <1>6
  <1>8. QED
    BY <1>7 DEF more, e, page, listed, enc, key, c

LEMMA PageKeepsListing ==
  ASSUME Leafing, ListOpportunities
  PROVE  Leafing'
  <1> DEFINE c == reader.cursor
             page == PageOf(c)
             e == Edge(c)
             S == Ahead(c)
  <1>1. ListingTypeOK /\ reader \in Readers
    BY DEF Leafing
  <1>2. sighted' = sighted /\ moment' = moment
    BY DEF ListOpportunities
  <1>3. /\ page \in Seq(S)
        /\ \A i, j \in DOMAIN page : page[i] = page[j] => i = j
        /\ ~ More(c) => \A id \in S : Shown(page, id) # {}
        /\ More(c) =>
             /\ e \in S
             /\ \A id \in S :
                  IF Shown(page, id) # {} THEN ~ Older(Key(id), Key(e))
                  ELSE Older(Key(id), Key(e))
    BY <1>1, PagesShowTheNewest DEF PageFacts
  <1>4. S \subseteq Listed /\ Listed \subseteq Listings
    BY DEF Ahead, Listed
  <1>5. page \in Seq(Listings) /\ reader.given \in Seq(Listings)
    <2>1. S \subseteq Listings
      BY <1>4
    <2>2. page \in Seq(Listings)
      <3> HIDE DEF page, S
      <3>1. QED
        BY <1>3, <2>1
    <2>3. QED
      BY <1>1, <2>2 DEF Readers
  <1>6. \A id \in Listings : Key(id)' = Key(id)
    BY <1>2 DEF Key
  <1>7. More(c) => /\ EncodedCursor(e) \in Cursor /\ Key(e) \in Cursor /\ e \in Listed
    BY <1>1, <1>3, <1>4, CursorsAreCut, KeysAreOrdered
  <1>8. reader' \in Readers
    <2>1. reader'.stage \in {"FIRST", "NEXT", "END"} /\ reader'.cursor \in Cursor \cup {Null}
      BY <1>7, PageTaken
    <2>2. reader'.given \in Seq(Listings)
      <3>1. reader'.given = reader.given \o page
        BY PageTaken
      <3> HIDE DEF page
      <3>2. QED
        BY <1>5, <3>1
    <2>3. reader'.steady \in SUBSET Listings /\ reader'.edges \in SUBSET Cursor
      BY <1>1, <1>4, <1>7, PageTaken DEF Readers
    <2>4. QED
      BY <2>1, <2>2, <2>3, PageTaken DEF Readers
  <1>9. ListingTypeOK'
    <2>1. Cursor' = Cursor
      BY DEF Cursor
    <2>2. moment' \in 0..LastMoment /\ sighted' \in [Listings -> 0..LastMoment \cup {Null}]
      BY <1>1, <1>2 DEF ListingTypeOK
    <2>3. reader'.stage \in {"FIRST", "NEXT", "END"}
      BY PageTaken
    <2>4. IF reader'.stage = "NEXT" THEN reader'.cursor \in Cursor ELSE reader'.cursor = Null
      BY <1>7, PageTaken
    <2>5. reader'.given \in Seq(Listings) /\ reader'.edges \subseteq Cursor
      BY <1>8 DEF Readers
    <2>6. reader'.steady \subseteq {id \in Listings : sighted'[id] # Null}
      <3>1. reader.steady \subseteq {id \in Listings : sighted[id] # Null}
        BY <1>1 DEF ListingTypeOK
      <3>2. QED
        BY <1>2, <3>1, PageTaken DEF Listed
    <2>7. QED
      BY <2>1, <2>2, <2>3, <2>4, <2>5, <2>6 DEF ListingTypeOK
  <1>10. reader'.stage # "FIRST"
    BY PageTaken
  <1>11. ASSUME NEW id \in reader'.steady PROVE RowProgress(id)'
    <2> DEFINE g == reader.given
               all == reader'.given
               next == reader'.cursor
    <2>1. id \in Listed /\ Key(id)' = Key(id) /\ Key(id) \in Cursor
      BY <1>1, <1>2, <1>4, <1>6, KeysAreOrdered, PageTaken DEF ListingTypeOK, Listed
    <2>2. all = g \o page
      BY PageTaken
    <2>3. /\ Shown(page, id) = {} => Shown(all, id) = Shown(g, id)
          /\ Shown(g, id) = {} => \A i, j \in Shown(all, id) : i = j
          /\ Shown(page, id) # {} => Shown(all, id) # {}
      <3>1. \A i, j \in DOMAIN page : page[i] = page[j] => i = j
        BY <1>3
      <3>2. g \in Seq(Listings) /\ page \in Seq(Listings)
        BY <1>5
      <3> HIDE DEF page, g, all
      <3>3. /\ Shown(page, id) = {} => Shown(g \o page, id) = Shown(g, id)
            /\ Shown(g, id) = {} => \A i, j \in Shown(g \o page, id) : i = j
            /\ Shown(page, id) # {} => Shown(g \o page, id) # {}
        BY <3>1, <3>2, ShownAfterPage
      <3>4. QED
        BY <2>2, <3>3
    <2>4. Shown(page, id) # {} => id \in S
      <3> HIDE DEF page, S
      <3>1. QED
        BY <1>3 DEF Shown
    <2>5. id \in S <=> c = Null \/ Older(Key(id), c)
      BY <2>1 DEF Ahead
    <2>6. StillAhead(id)' = (next # Null /\ Older(Key(id), next))
      BY <2>1 DEF StillAhead
    <2>7. AtAnEdge(id)' = \E edge \in reader'.edges : Skips(edge, id)
      BY <2>1 DEF AtAnEdge, Skips
    <2>8. RowProgress(id)' =
            IF Shown(all, id) # {}
            THEN (\A i, j \in Shown(all, id) : i = j) /\ ~ StillAhead(id)'
            ELSE StillAhead(id)' \/ AtAnEdge(id)'
      BY DEF RowProgress, Shown
    <2>9. /\ next # Null => More(c)
          /\ More(c) => /\ next = EncodedCursor(e) /\ next # Null
                        /\ Older(Key(id), next) => Older(Key(id), Key(e))
      BY <1>1, <1>7, <2>1, CursorsAreCut, PageTaken
    <2>10. ASSUME Shown(page, id) # {}, Shown(g, id) = {} PROVE RowProgress(id)'
      <3>1. id \in S
        BY <2>4, <2>10
      <3>2. ~ StillAhead(id)'
        BY <1>3, <2>6, <2>9, <2>10, <3>1
      <3>3. Shown(all, id) # {} /\ \A i, j \in Shown(all, id) : i = j
        BY <2>3, <2>10
      <3>4. QED
        BY <2>8, <3>2, <3>3
    <2>11. ASSUME id \in S, Shown(page, id) = {}, Shown(g, id) = {} PROVE RowProgress(id)'
      <3>1. More(c) /\ Older(Key(id), Key(e))
        BY <1>3, <2>11
      <3>2. CASE Older(Key(id), next)
        BY <2>3, <2>6, <2>8, <2>9, <2>11, <3>1, <3>2
      <3>3. CASE ~ Older(Key(id), next)
        <4>1. Key(e) \in reader'.edges /\ Cut(Key(e)) = next
          BY <2>9, <3>1, PageTaken DEF Key, Cut, EncodedCursor
        <4>2. AtAnEdge(id)'
          BY <2>7, <3>1, <3>3, <4>1 DEF Skips
        <4>3. QED
          BY <2>3, <2>8, <2>11, <4>2
      <3>4. QED
        BY <3>2, <3>3
    <2>12. CASE reader.stage = "FIRST"
      <3>1. g = <<>> /\ c = Null
        BY <2>12, PageTaken DEF Leafing
      <3>2. Shown(g, id) = {} /\ id \in S
        BY <2>5, <3>1 DEF Shown
      <3>3. QED
        BY <2>10, <2>11, <3>2
    <2>13. CASE reader.stage = "NEXT"
      <3>1. id \in reader.steady /\ c \in Cursor /\ c # Null
        BY <2>13, PageTaken
      <3>2. RowProgress(id)
        BY <3>1 DEF Leafing
      <3>3. StillAhead(id) <=> id \in S
        BY <2>5, <3>1 DEF StillAhead
      <3>4. CASE Shown(g, id) # {}
        <4>1. (\A i, j \in Shown(g, id) : i = j) /\ id \notin S
          BY <3>2, <3>3, <3>4 DEF RowProgress
        <4>2. Shown(all, id) = Shown(g, id)
          BY <2>3, <2>4, <4>1
        <4>3. ~ StillAhead(id)'
          <5>1. ASSUME More(c), Older(Key(id), Key(e)) PROVE FALSE
            <6>1. Older(Key(e), c) /\ Key(e) \in Cursor
              BY <1>3, <1>7, <3>1, <5>1 DEF Ahead
            <6>2. Older(Key(id), c)
              BY <1>1, <2>1, <3>1, <5>1, <6>1, KeysAreOrdered
            <6>3. QED
              BY <2>5, <4>1, <6>2
          <5>2. QED
            BY <2>6, <2>9, <5>1
        <4>4. QED
          BY <2>8, <3>4, <4>1, <4>2, <4>3
      <3>5. CASE Shown(g, id) = {}
        <4>1. id \in S \/ AtAnEdge(id)
          BY <3>2, <3>3, <3>5 DEF RowProgress
        <4>2. CASE id \notin S
          <5>1. AtAnEdge(id)'
            BY <2>7, <4>1, <4>2, PageTaken DEF AtAnEdge
          <5>2. Shown(all, id) = {}
            BY <2>3, <2>4, <3>5, <4>2
          <5>3. QED
            BY <2>8, <5>1, <5>2
        <4>3. QED
          BY <2>10, <2>11, <3>5, <4>2
      <3>6. QED
        BY <3>4, <3>5
    <2>14. QED
      BY <2>12, <2>13, PageTaken
  <1>12. QED
    BY <1>8, <1>9, <1>10, <1>11 DEF Leafing

(* A board is seen again, and its rows are steady no longer; those that are *)
(* keep their times.                                                        *)
LEMMA SightingKeepsListing ==
  ASSUME Leafing, PersistBatch \/ TimePasses \/ UNCHANGED listingvars
  PROVE  Leafing'
  <1>1. ListingTypeOK /\ reader \in Readers
    BY DEF Leafing
  <1>2. LastMoment \in Nat /\ moment \in 0..LastMoment
    BY <1>1, ListingAssumption DEF ListingTypeOK
  <1>3. /\ moment' \in 0..LastMoment
        /\ sighted' \in [Listings -> 0..LastMoment \cup {Null}]
        /\ reader' \in Readers
        /\ reader'.stage = reader.stage /\ reader'.cursor = reader.cursor
        /\ reader'.given = reader.given /\ reader'.edges = reader.edges
        /\ reader'.steady \subseteq reader.steady
        /\ \A id \in reader'.steady : sighted'[id] = sighted[id]
    <2>1. CASE PersistBatch
      <3>1. PICK board \in SUBSET Listings, now \in 0..moment :
              /\ sighted' = [id \in Listings |-> IF id \in board THEN now ELSE sighted[id]]
              /\ reader' = [reader EXCEPT !.steady = reader.steady \ board]
              /\ moment' = moment
        BY <2>1 DEF PersistBatch
      <3>2. now \in 0..LastMoment
        BY <1>2
      <3>3. /\ reader' \in Readers
            /\ reader'.stage = reader.stage /\ reader'.cursor = reader.cursor
            /\ reader'.given = reader.given /\ reader'.edges = reader.edges
            /\ reader'.steady = reader.steady \ board
        BY <1>1, <3>1 DEF Readers
      <3>4. sighted' \in [Listings -> 0..LastMoment \cup {Null}]
        BY <1>1, <3>1, <3>2 DEF ListingTypeOK
      <3>5. reader.steady \subseteq Listings
        BY <1>1 DEF Readers
      <3>6. QED
        BY <1>2, <3>1, <3>3, <3>4, <3>5
    <2>2. CASE TimePasses \/ UNCHANGED listingvars
      <3>1. moment' \in 0..LastMoment /\ sighted' = sighted /\ reader' = reader
        BY <1>2, <2>2 DEF TimePasses, listingvars
      <3>2. QED
        BY <1>1, <3>1 DEF ListingTypeOK
    <2>3. QED
      BY <2>1, <2>2
  <1>4. ListingTypeOK'
    <2>1. Cursor' = Cursor
      BY DEF Cursor
    <2>2. reader'.steady \subseteq {id \in Listings : sighted'[id] # Null}
      BY <1>1, <1>3 DEF ListingTypeOK
    <2>3. QED
      BY <1>1, <1>3, <2>1, <2>2 DEF ListingTypeOK
  <1>5. ASSUME NEW id \in reader'.steady PROVE RowProgress(id)'
    <2>1. RowProgress(id) /\ sighted'[id] = sighted[id]
      BY <1>3 DEF Leafing
    <2>2. Key(id)' = Key(id)
      BY <2>1 DEF Key
    <2>3. Shown(reader.given, id)' = Shown(reader.given, id)
      BY <1>3 DEF Shown
    <2>4. StillAhead(id)' = StillAhead(id)
      BY <1>3, <2>2 DEF StillAhead, Older
    <2>5. AtAnEdge(id)' = AtAnEdge(id)
      BY <1>3, <2>2 DEF AtAnEdge, Skips
    <2>6. QED
      BY <2>1, <2>3, <2>4, <2>5 DEF RowProgress
  <1>6. reader'.stage = "FIRST" => reader'.given = <<>> /\ reader'.steady = {}
    BY <1>3 DEF Leafing
  <1>7. Readers' = Readers
    BY DEF Readers, Cursor
  <1>8. QED
    BY <1>3, <1>4, <1>5, <1>6, <1>7 DEF Leafing

LEMMA ListingKept == ListingSpec => []Leafing
  <1>1. ListingInit => Leafing
    BY ListingStarts
  <1>2. Leafing /\ [ListingNext]_listingvars => Leafing'
    BY PageKeepsListing, SightingKeepsListing DEF ListingNext
  <1>3. QED
    BY <1>1, <1>2, PTL DEF ListingSpec

(* The moments, cursors and rows of the list have the types of their        *)
(* columns (job_opportunities, encodeCursor).                               *)
THEOREM ListingTypeCorrect == ListingSpec => []ListingTypeOK
  <1>1. Leafing => ListingTypeOK
    BY DEF Leafing
  <1>2. QED
    BY <1>1, ListingKept, PTL

(* A row that is skipped was seen in the millisecond of the last row of a   *)
(* page, and never when cursors keep the whole time.                        *)
LEMMA SkippedInItsMillisecond ==
  ASSUME Leafing, NEW id \in reader.steady, NEW edge \in reader.edges, Skips(edge, id)
  PROVE  sighted[id] \div Milli = edge.at \div Milli /\ Milli # 1
  <1> DEFINE x == edge.at
             y == sighted[id]
             t == Timestamp(x)
  <1>1. /\ x \in Nat /\ y \in Nat /\ edge.id \in Nat /\ id \in Nat
        /\ edge = [at |-> x, id |-> edge.id]
    <2>1. edge \in Cursor /\ id \in Listings /\ y \in 0..LastMoment
      BY ListingAssumption DEF Leafing, ListingTypeOK
    <2>2. Listings \subseteq Nat /\ 0..LastMoment \subseteq Nat
      BY ListingAssumption
    <2>3. QED
      BY <2>1, <2>2 DEF Cursor
  <1>2. /\ y < x \/ (y = x /\ id < edge.id)
        /\ ~ (y < t \/ (y = t /\ id < edge.id))
    BY DEF Skips, Older, Key, Cut
  <1>3. t \in Nat /\ t <= x /\ (y <= x /\ t <= y => y \div Milli = x \div Milli)
    BY <1>1, CutTimes
  <1>4. Milli = 1 => t = x
    BY <1>1 DEF Timestamp
  <1> HIDE DEF x, y, t
  <1>5. y <= x /\ t <= y /\ t # x
    BY <1>1, <1>2, <1>3
  <1>6. QED
    BY <1>3, <1>4, <1>5 DEF x, y

(* Pages of any size show a row that stays as it is once at most, and       *)
(* before they have shown it it is ahead of the cursor, unless it was seen  *)
(* in the millisecond of the last row of a page (listOpportunities).        *)
THEOREM PagesRepeatNothing == ListingSpec => []SteadyRowsComeOnce
  <1>1. Leafing => SteadyRowsComeOnce
    <2>1. SUFFICES ASSUME Leafing, NEW id \in reader.steady
                   PROVE  IF Shown(reader.given, id) # {}
                          THEN Cardinality(Shown(reader.given, id)) = 1
                          ELSE \/ reader.cursor # Null /\ Older(Key(id), reader.cursor)
                               \/ \E edge \in reader.edges :
                                    sighted[id] \div Milli = edge.at \div Milli
      BY DEF SteadyRowsComeOnce, Shown
    <2>2. RowProgress(id)
      BY <2>1 DEF Leafing
    <2>3. CASE Shown(reader.given, id) # {}
      <3>1. \A i, j \in Shown(reader.given, id) : i = j
        BY <2>2, <2>3 DEF RowProgress
      <3>2. PICK i : Shown(reader.given, id) = {i}
        BY <2>3, <3>1
      <3>3. QED
        BY <2>3, <3>2, FS_Singleton
    <2>4. CASE Shown(reader.given, id) = {}
      BY <2>1, <2>2, <2>4, SkippedInItsMillisecond DEF RowProgress, StillAhead, AtAnEdge, Leafing
    <2>5. QED
      BY <2>3, <2>4
  <1>2. QED
    BY <1>1, ListingKept, PTL

(* Whoever follows the cursor to its end has seen each row that stayed as   *)
(* it was, but those a page skipped at its edge: older than its last row    *)
(* and not older than the cursor made of it, hence seen in the same         *)
(* millisecond (listOpportunities).  The microseconds that a Date loses are *)
(* all that is lost between two pages, at any page size and however many    *)
(* boards are seen again while the reader reads.                            *)
SkippedOnlyAtEdges ==
  reader.stage = "END" =>
    \A id \in reader.steady \ Range(reader.given) :
      \E edge \in reader.edges :
        Skips(edge, id) /\ sighted[id] \div Milli = edge.at \div Milli

LEMMA EndsAtEdges ==
  ASSUME Leafing
  PROVE  SkippedOnlyAtEdges /\ (Milli = 1 => PagesReachEverything)
  <1>1. ASSUME reader.stage = "END", NEW id \in reader.steady, id \notin Range(reader.given)
        PROVE  AtAnEdge(id)
    <2>1. reader.cursor = Null
      BY <1>1 DEF Leafing, ListingTypeOK
    <2>2. Shown(reader.given, id) = {}
      BY <1>1 DEF Shown, Range
    <2>3. RowProgress(id)
      BY <1>1 DEF Leafing
    <2>4. QED
      BY <2>1, <2>2, <2>3 DEF RowProgress, StillAhead
  <1>2. SkippedOnlyAtEdges
    BY <1>1, SkippedInItsMillisecond DEF SkippedOnlyAtEdges, AtAnEdge
  <1>3. Milli = 1 => PagesReachEverything
    BY <1>1, SkippedInItsMillisecond DEF PagesReachEverything, AtAnEdge
  <1>4. QED
    BY <1>2, <1>3

(* However the boards are seen again between two requests, a row that the   *)
(* pages pass over was seen in the millisecond of the last row of a page.   *)
THEOREM PagesSkipOnlyAtEdges == ListingSpec => []SkippedOnlyAtEdges
  BY EndsAtEdges, ListingKept, PTL

(* With a cursor that keeps the microseconds of the row, nothing is lost:   *)
(* the run that skips rows does so for the precision of the cursor alone.   *)
THEOREM WholeCursorsReachEverything ==
  ASSUME Milli = 1
  PROVE  ListingSpec => []PagesReachEverything
  <1>1. Leafing => PagesReachEverything
    BY EndsAtEdges
  <1>2. QED
    BY <1>1, ListingKept, PTL

-----------------------------------------------------------------------------
(* Watchlists.                                                             *)

GoodWatch(row) == row # Null => row \in WatchRow /\ (row.by # Null <=> row.state = "SUPERSEDED")

GoodLetter(row) == row # Null => row \in AlertRow /\ (row.opened \/ row.dismissed => row.read)

LEMMA WatchlistRows ==
  WatchlistsTypeOK <=>
    /\ watch = [w \in Watches |-> watch[w]] /\ \A w \in Watches : GoodWatch(watch[w])
    /\ replaced \in [Watchable -> Watchable \cup {Null}]
    /\ recorded \subseteq ({"ADDED", "REMOVED"} \X Watches) \cup ({"SHOWN", "OPENED"} \X Letters)
    /\ mailbox = [a \in Letters |-> mailbox[a]] /\ \A a \in Letters : GoodLetter(mailbox[a])
    /\ notified \in BOOLEAN
  <1>1. watch \in [Watches -> WatchRow \cup {Null}] <=>
          /\ watch = [w \in Watches |-> watch[w]]
          /\ \A w \in Watches : watch[w] # Null => watch[w] \in WatchRow
    OBVIOUS
  <1>2. mailbox \in [Letters -> AlertRow \cup {Null}] <=>
          /\ mailbox = [a \in Letters |-> mailbox[a]]
          /\ \A a \in Letters : mailbox[a] # Null => mailbox[a] \in AlertRow
    OBVIOUS
  <1>3. QED
    BY <1>1, <1>2 DEF WatchlistsTypeOK, GoodWatch, GoodLetter

(* A step keeps the rows of the two tables good.                            *)
LEMMA WatchlistsKept ==
  ASSUME WatchlistsTypeOK, [WatchlistsNext]_watchvars
  PROVE  WatchlistsTypeOK'
  <1> DEFINE marks == ({"ADDED", "REMOVED"} \X Watches) \cup ({"SHOWN", "OPENED"} \X Letters)
             GoodWatches == watch = [w \in Watches |-> watch[w]]
                            /\ \A w \in Watches : GoodWatch(watch[w])
             GoodLetters == mailbox = [a \in Letters |-> mailbox[a]]
                            /\ \A a \in Letters : GoodLetter(mailbox[a])
             Others == replaced \in [Watchable -> Watchable \cup {Null}] /\ notified \in BOOLEAN
             GoodMarks == recorded \subseteq marks
  <1>1. GoodWatches /\ GoodLetters /\ Others /\ GoodMarks
    BY WatchlistRows
  <1>2. GoodWatches' /\ GoodLetters' /\ Others' /\ GoodMarks' => WatchlistsTypeOK'
    BY WatchlistRows, PTL
  <1>3. Null \notin Watches /\ Null \notin Watchable
    BY WatchAssumption
  <1>4. ASSUME UNCHANGED watchvars PROVE GoodWatches' /\ GoodLetters' /\ Others' /\ GoodMarks'
    BY <1>1, <1>4 DEF watchvars, GoodWatch, GoodLetter
  <1>5. ASSUME NEW w \in Watches, NEW e \in Watchable, NEW follows \in BOOLEAN,
               AddWatchlistItem(w, e, follows)
        PROVE  GoodWatches' /\ GoodLetters' /\ Others' /\ GoodMarks'
    <2>1. /\ watch' = [watch EXCEPT ![w] = [on |-> e, state |-> "ACTIVE", follows |-> follows,
                                           by |-> Null]]
          /\ recorded' = recorded \cup {<<"ADDED", w>>}
          /\ UNCHANGED <<replaced, mailbox, notified>>
      BY <1>5 DEF AddWatchlistItem
    <2>2. GoodWatches'
      BY <1>1, <2>1 DEF GoodWatch, WatchRow
    <2>3. GoodMarks'
      BY <1>1, <2>1
    <2>4. QED
      BY <1>1, <2>1, <2>2, <2>3 DEF GoodLetter
  <1>6. ASSUME NEW w \in Watches, RemoveWatchlistItem(w)
        PROVE  GoodWatches' /\ GoodLetters' /\ Others' /\ GoodMarks'
    <2>1. /\ watch[w] # Null /\ watch[w].state = "ACTIVE"
          /\ watch' = [watch EXCEPT ![w] = [watch[w] EXCEPT !.state = "REMOVED"]]
          /\ recorded' = recorded \cup {<<"REMOVED", w>>}
          /\ UNCHANGED <<replaced, mailbox, notified>>
      BY <1>6 DEF RemoveWatchlistItem, Watched
    <2>2. GoodWatch([watch[w] EXCEPT !.state = "REMOVED"])
      BY <1>1, <2>1 DEF GoodWatch, WatchRow
    <2>3. GoodWatches'
      BY <1>1, <2>1, <2>2 DEF GoodWatch
    <2>4. GoodMarks'
      BY <1>1, <2>1
    <2>5. QED
      BY <1>1, <2>1, <2>3, <2>4 DEF GoodLetter
  <1>7. ASSUME NEW w \in Watches, NEW follows \in BOOLEAN, UpdateWatchlistItem(w, follows)
        PROVE  GoodWatches' /\ GoodLetters' /\ Others' /\ GoodMarks'
    <2>1. /\ watch[w] # Null
          /\ watch' = [watch EXCEPT ![w] = [watch[w] EXCEPT !.follows = follows]]
          /\ UNCHANGED <<replaced, recorded, mailbox, notified>>
      BY <1>7 DEF UpdateWatchlistItem, Watched
    <2>2. GoodWatch([watch[w] EXCEPT !.follows = follows])
      BY <1>1, <2>1 DEF GoodWatch, WatchRow
    <2>3. GoodWatches'
      BY <1>1, <2>1, <2>2 DEF GoodWatch
    <2>4. QED
      BY <1>1, <2>1, <2>3 DEF GoodLetter
  <1>8. ASSUME NEW old \in Watchable, NEW new \in Watchable, NEW w \in Watches,
               Supersede(old, new, w)
        PROVE  GoodWatches' /\ GoodLetters' /\ Others' /\ GoodMarks'
    <2> DEFINE followers == {v \in ActiveOn(old) : watch[v].follows}
               made == followers # {} /\ ActiveOn(new) = {}
               Row(v) == CASE v \in followers ->
                                [watch[v] EXCEPT !.state = "SUPERSEDED", !.by = w]
                           [] made /\ v = w ->
                                [on |-> new, state |-> "ACTIVE", follows |-> TRUE, by |-> Null]
                           [] OTHER -> watch[v]
               Letter(a) == IF mailbox[a] # Null /\ mailbox[a].about = old /\ ~ mailbox[a].dismissed
                            THEN [mailbox[a] EXCEPT !.expired = TRUE] ELSE mailbox[a]
    <2>1. /\ made => watch[w] = Null
          /\ watch' = [v \in Watches |-> Row(v)]
          /\ replaced' = [replaced EXCEPT ![old] = new]
          /\ mailbox' = [a \in Letters |-> Letter(a)]
          /\ UNCHANGED <<recorded, notified>>
      BY <1>8 DEF Supersede
    <2>2. ASSUME NEW v \in Watches PROVE GoodWatch(Row(v))
      <3>0. v \in followers => watch[v] # Null /\ ~ (made /\ v = w)
        BY <2>1 DEF ActiveOn
      <3>1. CASE v \in followers
        <4>1. watch[v] \in WatchRow
          <5>1. GoodWatch(watch[v])
            BY <1>1
          <5>2. watch[v] # Null
            BY <3>0, <3>1
          <5>3. QED
            BY <5>1, <5>2 DEF GoodWatch
        <4>2. [watch[v] EXCEPT !.state = "SUPERSEDED", !.by = w] \in WatchRow
          BY <4>1 DEF WatchRow
        <4>3. /\ [watch[v] EXCEPT !.state = "SUPERSEDED", !.by = w].by = w
              /\ [watch[v] EXCEPT !.state = "SUPERSEDED", !.by = w].state = "SUPERSEDED"
          BY <4>1 DEF WatchRow
        <4>4. Row(v) = [watch[v] EXCEPT !.state = "SUPERSEDED", !.by = w]
          BY <3>0, <3>1
        <4> HIDE DEF Row, followers, made
        <4>5. Row(v) \in WatchRow /\ Row(v).by = w /\ Row(v).state = "SUPERSEDED"
          BY <4>2, <4>3, <4>4
        <4>6. QED
          BY <1>3, <4>5 DEF GoodWatch
      <3>2. CASE v \notin followers /\ made /\ v = w
        <4> DEFINE row == [on |-> new, state |-> "ACTIVE", follows |-> TRUE, by |-> Null]
        <4>1. Row(v) = row
          BY <3>2
        <4>2. GoodWatch(row)
          BY DEF GoodWatch, WatchRow
        <4>3. QED
          BY <4>1, <4>2
      <3>3. CASE v \notin followers /\ ~ (made /\ v = w)
        <4>1. Row(v) = watch[v]
          BY <3>3
        <4>2. QED
          BY <1>1, <4>1
      <3>4. QED
        BY <3>1, <3>2, <3>3
    <2>3. ASSUME NEW a \in Letters PROVE GoodLetter(Letter(a))
      <3>1. CASE Letter(a) = mailbox[a]
        BY <1>1, <3>1
      <3>2. CASE mailbox[a] # Null /\ Letter(a) = [mailbox[a] EXCEPT !.expired = TRUE]
        BY <1>1, <3>2 DEF GoodLetter, AlertRow
      <3>3. QED
        BY <3>1, <3>2
    <2> HIDE DEF Row, Letter
    <2>4. GoodWatches' /\ GoodLetters'
      BY <2>1, <2>2, <2>3
    <2>5. Others' /\ GoodMarks'
      BY <1>1, <2>1
    <2>6. QED
      BY <2>4, <2>5
  (* The mailbox: one row changes, to one that is good.                     *)
  <1>9. ASSUME NEW a \in Letters, NEW row, GoodLetter(row),
               mailbox' = [mailbox EXCEPT ![a] = row],
               recorded' \subseteq marks, UNCHANGED <<watch, replaced, notified>>
        PROVE  GoodWatches' /\ GoodLetters' /\ Others' /\ GoodMarks'
    <2>1. GoodLetters'
      BY <1>1, <1>9
    <2>2. GoodWatches' /\ Others' /\ GoodMarks'
      BY <1>1, <1>9 DEF GoodWatch
    <2>3. QED
      BY <2>1, <2>2
  <1>10. ASSUME NEW a \in Letters, NEW e \in Watchable, Deliver(a, e)
         PROVE  GoodWatches' /\ GoodLetters' /\ Others' /\ GoodMarks'
    <2> DEFINE row == [about |-> e, shown |-> FALSE, opened |-> FALSE, read |-> FALSE,
                       dismissed |-> FALSE, expired |-> FALSE]
    <2>1. GoodLetter(row)
      BY DEF GoodLetter, AlertRow
    <2>2. /\ mailbox' = [mailbox EXCEPT ![a] = row]
          /\ recorded' = recorded /\ UNCHANGED <<watch, replaced, notified>>
      BY <1>10 DEF Deliver
    <2> HIDE DEF row
    <2>3. QED
      BY <1>1, <1>9, <2>1, <2>2
  <1>11. ASSUME NEW a \in Letters, MarkShown(a)
         PROVE  GoodWatches' /\ GoodLetters' /\ Others' /\ GoodMarks'
    <2> DEFINE row == [mailbox[a] EXCEPT !.shown = TRUE]
    <2>1. GoodLetter(row)
      BY <1>1, <1>11 DEF MarkShown, Mailed, GoodLetter, AlertRow
    <2>2. /\ mailbox' = [mailbox EXCEPT ![a] = row]
          /\ recorded' \subseteq marks /\ UNCHANGED <<watch, replaced, notified>>
      BY <1>1, <1>11 DEF MarkShown, Marks
    <2> HIDE DEF row
    <2>3. QED
      BY <1>9, <2>1, <2>2
  <1>12. ASSUME NEW a \in Letters, OpenAlert(a)
         PROVE  GoodWatches' /\ GoodLetters' /\ Others' /\ GoodMarks'
    <2> DEFINE row == [mailbox[a] EXCEPT !.opened = TRUE, !.read = TRUE]
    <2>1. GoodLetter(row)
      BY <1>1, <1>12 DEF OpenAlert, Mailed, GoodLetter, AlertRow
    <2>2. /\ mailbox' = [mailbox EXCEPT ![a] = row]
          /\ recorded' \subseteq marks /\ UNCHANGED <<watch, replaced, notified>>
      BY <1>1, <1>12 DEF OpenAlert, Marks
    <2> HIDE DEF row
    <2>3. QED
      BY <1>9, <2>1, <2>2
  <1>13. ASSUME NEW a \in Letters, NEW read \in BOOLEAN, UpdateAlert(a, read)
         PROVE  GoodWatches' /\ GoodLetters' /\ Others' /\ GoodMarks'
    <2> DEFINE row == [mailbox[a] EXCEPT !.read = read]
    <2>1. GoodLetter(row)
      BY <1>1, <1>13 DEF UpdateAlert, Mailed, GoodLetter, AlertRow
    <2>2. /\ mailbox' = [mailbox EXCEPT ![a] = row]
          /\ recorded' = recorded /\ UNCHANGED <<watch, replaced, notified>>
      BY <1>13 DEF UpdateAlert
    <2> HIDE DEF row
    <2>3. QED
      BY <1>1, <1>9, <2>1, <2>2
  <1>14. ASSUME NEW a \in Letters, DismissAlert(a)
         PROVE  GoodWatches' /\ GoodLetters' /\ Others' /\ GoodMarks'
    <2> DEFINE row == [mailbox[a] EXCEPT !.dismissed = TRUE, !.read = TRUE]
    <2>1. GoodLetter(row)
      BY <1>1, <1>14 DEF DismissAlert, Mailed, GoodLetter, AlertRow
    <2>2. /\ mailbox' = [mailbox EXCEPT ![a] = row]
          /\ recorded' = recorded /\ UNCHANGED <<watch, replaced, notified>>
      BY <1>14 DEF DismissAlert
    <2> HIDE DEF row
    <2>3. QED
      BY <1>1, <1>9, <2>1, <2>2
  <1>15. ASSUME MarkAllRead
         PROVE  GoodWatches' /\ GoodLetters' /\ Others' /\ GoodMarks'
    <2> DEFINE Letter(a) == IF Mailed(a) /\ ~ mailbox[a].dismissed /\ ~ mailbox[a].expired
                            THEN [mailbox[a] EXCEPT !.read = TRUE] ELSE mailbox[a]
    <2>1. /\ mailbox' = [a \in Letters |-> Letter(a)]
          /\ UNCHANGED <<watch, replaced, recorded, notified>>
      BY <1>15 DEF MarkAllRead
    <2>2. ASSUME NEW a \in Letters PROVE GoodLetter(Letter(a))
      <3>1. CASE Letter(a) = mailbox[a]
        BY <1>1, <3>1
      <3>2. CASE mailbox[a] # Null /\ Letter(a) = [mailbox[a] EXCEPT !.read = TRUE]
        BY <1>1, <3>2 DEF GoodLetter, AlertRow
      <3>3. QED
        BY <3>1, <3>2 DEF Mailed
    <2> HIDE DEF Letter
    <2>3. GoodLetters'
      BY <2>1, <2>2
    <2>4. QED
      BY <1>1, <2>1, <2>3 DEF GoodWatch
  <1>16. ASSUME NEW a \in Letters, AlertExpires(a)
         PROVE  GoodWatches' /\ GoodLetters' /\ Others' /\ GoodMarks'
    <2> DEFINE row == [mailbox[a] EXCEPT !.expired = TRUE]
    <2>1. GoodLetter(row)
      BY <1>1, <1>16 DEF AlertExpires, Mailed, GoodLetter, AlertRow
    <2>2. /\ mailbox' = [mailbox EXCEPT ![a] = row]
          /\ recorded' = recorded /\ UNCHANGED <<watch, replaced, notified>>
      BY <1>16 DEF AlertExpires
    <2> HIDE DEF row
    <2>3. QED
      BY <1>1, <1>9, <2>1, <2>2
  <1>17. ASSUME NEW enabled \in BOOLEAN, UpdateNotificationPreferences(enabled)
         PROVE  GoodWatches' /\ GoodLetters' /\ Others' /\ GoodMarks'
    BY <1>1, <1>17 DEF UpdateNotificationPreferences, GoodWatch, GoodLetter
  <1> HIDE DEF GoodWatches, GoodLetters, Others, GoodMarks
  <1>18. QED
    BY <1>2, <1>4, <1>5, <1>6, <1>7, <1>8, <1>10, <1>11, <1>12, <1>13, <1>14, <1>15, <1>16,
       <1>17 DEF WatchlistsNext

(* A watch names its successor exactly when it was superseded, and a letter *)
(* that was opened or dismissed is read: what the CHECKs of migration 0011  *)
(* say holds after every handler and after the trigger of a merge.          *)
THEOREM WatchlistsTypeCorrect == WatchlistsSpec => []WatchlistsTypeOK
  <1>1. WatchlistsInit => WatchlistsTypeOK
    BY DEF WatchlistsInit, WatchlistsTypeOK
  <1>2. WatchlistsTypeOK /\ [WatchlistsNext]_watchvars => WatchlistsTypeOK'
    BY WatchlistsKept
  <1>3. QED
    BY <1>1, <1>2, PTL DEF WatchlistsSpec


(* A user has one active watch of an opportunity, a company, a recruiter or *)
(* a school: what addWatchlistItem and the trigger of a merge look for      *)
(* before they make one is enough.                                          *)
OneWatchEach == \A e \in Watchable, v, w \in Watches : v \in ActiveOn(e) /\ w \in ActiveOn(e) => v = w

(* A step that activates no watch, or one of what was not watched.          *)
LEMMA WatchesStayOne ==
  ASSUME OneWatchEach, NEW n, NEW w,
         \A v \in Watches, e \in Watchable :
           v \in ActiveOn(e)' => v \in ActiveOn(e) \/ (v = w /\ e = n /\ ActiveOn(n) = {})
  PROVE  OneWatchEach'
  <1>1. SUFFICES ASSUME NEW e \in Watchable, NEW u \in Watches, NEW v \in Watches,
                        u \in ActiveOn(e)', v \in ActiveOn(e)'
                 PROVE  u = v
    BY DEF OneWatchEach
  <1>2. /\ u \in ActiveOn(e) \/ (u = w /\ e = n /\ ActiveOn(n) = {})
        /\ v \in ActiveOn(e) \/ (v = w /\ e = n /\ ActiveOn(n) = {})
    BY <1>1
  <1>3. u \in ActiveOn(e) /\ v \in ActiveOn(e) => u = v
    BY DEF OneWatchEach
  <1>4. QED
    BY <1>2, <1>3

THEOREM WatchedOnce == WatchlistsSpec => []OneWatchEach
  <1>1. WatchlistsInit => OneWatchEach
    BY DEF WatchlistsInit, OneWatchEach, ActiveOn
  <1>2. ASSUME WatchlistsTypeOK, OneWatchEach, [WatchlistsNext]_watchvars
        PROVE  OneWatchEach'
    <2>1. CASE watch' = watch
      BY <1>2, <2>1 DEF OneWatchEach, ActiveOn
    <2>2. \A v \in Watches : watch[v] # Null => watch[v] \in WatchRow
      BY <1>2 DEF WatchlistsTypeOK
    <2>3. watch \in [Watches -> WatchRow \cup {Null}]
      BY <1>2 DEF WatchlistsTypeOK
    <2>4. ASSUME NEW w \in Watches, NEW e \in Watchable, NEW follows \in BOOLEAN,
                 AddWatchlistItem(w, e, follows)
          PROVE  OneWatchEach'
      <3>1. \A v \in Watches, f \in Watchable :
              v \in ActiveOn(f)' => v \in ActiveOn(f) \/ (v = w /\ f = e /\ ActiveOn(e) = {})
        BY <2>3, <2>4 DEF AddWatchlistItem, ActiveOn
      <3>2. QED
        BY <1>2, <3>1, WatchesStayOne
    <2>5. ASSUME NEW w \in Watches, RemoveWatchlistItem(w) PROVE OneWatchEach'
      <3>1. \A v \in Watches, f \in Watchable : v \in ActiveOn(f)' => v \in ActiveOn(f)
        <4>1. ~ ("REMOVED" = "ACTIVE")
          OBVIOUS
        <4>2. watch' = [watch EXCEPT ![w].state = "REMOVED"] /\ watch[w] \in WatchRow
          BY <2>2, <2>5 DEF RemoveWatchlistItem, Watched
        <4>3. watch'[w].state = "REMOVED" /\ \A v \in Watches : v # w => watch'[v] = watch[v]
          BY <2>3, <4>2 DEF WatchRow
        <4>4. QED
          BY <4>3 DEF ActiveOn
      <3>2. QED
        BY <1>2, <3>1 DEF OneWatchEach
    <2>6. ASSUME NEW w \in Watches, NEW follows \in BOOLEAN, UpdateWatchlistItem(w, follows)
          PROVE  OneWatchEach'
      <3>1. \A v \in Watches, f \in Watchable : v \in ActiveOn(f)' => v \in ActiveOn(f)
        <4>1. watch' = [watch EXCEPT ![w].follows = follows] /\ watch[w] \in WatchRow /\ watch[w] # Null
          BY <2>2, <2>6 DEF UpdateWatchlistItem, Watched
        <4>2. /\ watch'[w].state = watch[w].state /\ watch'[w].on = watch[w].on
              /\ \A v \in Watches : v # w => watch'[v] = watch[v]
          BY <2>3, <4>1 DEF WatchRow
        <4>3. QED
          BY <4>1, <4>2 DEF ActiveOn
      <3>2. QED
        BY <1>2, <3>1 DEF OneWatchEach
    <2>7. ASSUME NEW old \in Watchable, NEW new \in Watchable, NEW w \in Watches,
                 Supersede(old, new, w)
          PROVE  OneWatchEach'
      <3> DEFINE followers == {v \in ActiveOn(old) : watch[v].follows}
                 made == followers # {} /\ ActiveOn(new) = {}
                 row == [on |-> new, state |-> "ACTIVE", follows |-> TRUE, by |-> Null]
                 left(v) == [watch[v] EXCEPT !.state = "SUPERSEDED", !.by = w]
      <3>1. /\ made => watch[w] = Null
            /\ watch' = [v \in Watches |->
                 CASE v \in followers -> left(v)
                   [] made /\ v = w -> row
                   [] OTHER -> watch[v]]
        BY <2>7 DEF Supersede
      <3>2. ASSUME NEW v \in Watches, NEW f \in Watchable, v \in ActiveOn(f)'
            PROVE  v \in ActiveOn(f) \/ (v = w /\ f = new /\ ActiveOn(new) = {})
        <4>1. v \in followers => watch[v] # Null /\ ~ (made /\ v = w)
          BY <3>1 DEF ActiveOn
        <4>2. watch'[v] # Null /\ watch'[v].on = f /\ watch'[v].state = "ACTIVE"
          BY <3>2 DEF ActiveOn
        <4>3. CASE v \in followers
          <5>1. left(v).state = "SUPERSEDED"
            BY <2>2, <4>1, <4>3 DEF WatchRow
          <5>2. watch'[v] = left(v)
            BY <3>1, <4>1, <4>3
          <5>3. QED
            BY <4>2, <5>1, <5>2
        <4>4. CASE v \notin followers /\ made /\ v = w
          <5>1. watch'[v] = row
            BY <3>1, <4>4
          <5>2. row.on = new
            OBVIOUS
          <5>3. QED
            BY <4>2, <4>4, <5>1, <5>2
        <4>5. CASE v \notin followers /\ ~ (made /\ v = w)
          <5>1. watch'[v] = watch[v]
            BY <3>1, <4>5
          <5>2. QED
            BY <4>2, <5>1 DEF ActiveOn
        <4>6. QED
          BY <4>3, <4>4, <4>5
      <3> HIDE DEF made, followers
      <3>3. QED
        BY <1>2, <3>2, WatchesStayOne
    <2>8. QED
      BY <1>2, <2>1, <2>4, <2>5, <2>6, <2>7
      DEF WatchlistsNext, watchvars, Deliver, MarkShown, OpenAlert, UpdateAlert, DismissAlert,
          MarkAllRead, AlertExpires, UpdateNotificationPreferences
  <1>3. QED
    BY <1>1, <1>2, WatchlistsTypeCorrect, PTL DEF WatchlistsSpec
=============================================================================
