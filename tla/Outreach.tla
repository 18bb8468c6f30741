------------------------------- MODULE Outreach -------------------------------
(***************************************************************************)
(* A user's private outreach (packages/db/src/outreach.ts): contacts, the  *)
(* drafts written to them, and the record of what was sent by hand.        *)
(* A draft is edited, approved and recorded as sent by separate requests   *)
(* that name the version they saw; a repeated recording names the key of   *)
(* the first.                                                              *)
(***************************************************************************)
EXTENDS ApiRequests, Naturals, FiniteSets

CONSTANTS
  Contacts,         \* ids of outreach_contacts
  Emails,
  Drafts,           \* ids of outreach_drafts
  SendKeys,         \* idempotency keys of the client
  MaxDraftVersion   \* bound on the edits of a draft

ASSUME OutreachAssumption ==
  /\ MaxDraftVersion \in Nat \ {0}
  /\ Null \notin Contacts \cup Emails \cup Drafts \cup SendKeys

VARIABLES
  contact,     \* public.outreach_contacts: the address of each
  draft,       \* public.outreach_drafts
  attempt,     \* public.outreach_attempts, by idempotency_key
  consented,   \* the versions of drafts a user approved
  outreach     \* the request running a handler of outreach.ts

outvars == <<contact, draft, attempt, consented, outreach>>

(* REVIEW, APPROVED, FAILED and CANCELLED are written by no handler; 0 is   *)
(* SQL null.                                                                *)
DraftStatus == {"DRAFT", "SEND_ELIGIBLE", "SENT"}

DraftRow ==
  [contact : Contacts, status : DraftStatus, version : 1..MaxDraftVersion,
   approved : 0..MaxDraftVersion]

AttemptRow == [draft : Drafts, version : 1..MaxDraftVersion, recipient : Emails]

ASSUME OutreachRowAssumption == Null \notin DraftRow \cup AttemptRow

OutreachHandler == {Idle}
  \cup [op : {"DRAFT"}, contact : Contacts]
  \cup [op : {"RECORD"}, draft : Drafts, key : SendKeys]

OutreachTypeOK ==
  /\ contact \in [Contacts -> Emails \cup {Null}]
  /\ draft \in [Drafts -> DraftRow \cup {Null}]
  /\ attempt \in [SendKeys -> AttemptRow \cup {Null}]
  /\ consented \subseteq Drafts \X (1..MaxDraftVersion)
  /\ outreach \in [Requests -> OutreachHandler]

OutInit ==
  /\ contact = [c \in Contacts |-> Null]
  /\ draft = [d \in Drafts |-> Null]
  /\ attempt = [k \in SendKeys |-> Null]
  /\ consented = {}
  /\ outreach = [r \in Requests |-> Idle]

Writing(r, call) == outreach' = [outreach EXCEPT ![r] = call]

-----------------------------------------------------------------------------
(* Contacts.                                                               *)

(* unique (user_id, email) *)
AddressFree(email) == \A c \in Contacts : contact[c] # email

CreateContact(c, email) ==
  /\ contact[c] = Null
  /\ AddressFree(email)
  /\ contact' = [contact EXCEPT ![c] = email]
  /\ UNCHANGED <<draft, attempt, consented, outreach>>

(* updateOutreachContact; the drafts to the contact keep their approval.    *)
UpdateContact(c, email) ==
  /\ contact[c] # Null
  /\ AddressFree(email)
  /\ contact' = [contact EXCEPT ![c] = email]
  /\ UNCHANGED <<draft, attempt, consented, outreach>>

(* deleteOutreachContact: drafts and attempts go with it.                   *)
DeleteContact(c) ==
  /\ contact[c] # Null
  /\ contact' = [contact EXCEPT ![c] = Null]
  /\ LET written == {d \in Drafts : draft[d] # Null /\ draft[d].contact = c} IN
       /\ draft' = [d \in Drafts |-> IF d \in written THEN Null ELSE draft[d]]
       /\ attempt' = [k \in SendKeys |->
            IF attempt[k] # Null /\ attempt[k].draft \in written THEN Null ELSE attempt[k]]
       /\ consented' = {v \in consented : v[1] \notin written}
  /\ UNCHANGED outreach

-----------------------------------------------------------------------------
(* Drafts.                                                                 *)

(* createOutreachDraft: ownedContact, and then the insert.                  *)
DraftBegins(r, c) ==
  /\ outreach[r] = Idle
  /\ contact[c] # Null
  /\ Writing(r, [op |-> "DRAFT", contact |-> c])
  /\ UNCHANGED <<contact, draft, attempt, consented>>

CreateDraft(r, d) ==
  /\ outreach[r].op = "DRAFT"
  /\ draft[d] = Null
  /\ draft' = IF contact[outreach[r].contact] = Null THEN draft
              ELSE [draft EXCEPT ![d] = [contact |-> outreach[r].contact, status |-> "DRAFT",
                                         version |-> 1, approved |-> 0]]
  /\ Writing(r, Idle)
  /\ UNCHANGED <<contact, attempt, consented>>

(* updateOutreachDraft, by a client that saw the version.                   *)
UpdateDraft(d, version) ==
  /\ draft[d] # Null
  /\ draft[d].version = version
  /\ draft[d].status # "SENT"
  /\ version < MaxDraftVersion
  /\ draft' = [draft EXCEPT ![d] =
       [@ EXCEPT !.status = "DRAFT", !.approved = 0, !.version = version + 1]]
  /\ UNCHANGED <<contact, attempt, consented, outreach>>

(* approveOutreachDraft, by a client that saw the version.                  *)
ApproveDraft(d, version) ==
  /\ draft[d] # Null
  /\ draft[d].version = version
  /\ draft[d].status = "DRAFT"
  /\ draft' = [draft EXCEPT ![d] = [@ EXCEPT !.status = "SEND_ELIGIBLE", !.approved = version]]
  /\ consented' = consented \cup {<<d, version>>}
  /\ UNCHANGED <<contact, attempt, outreach>>

-----------------------------------------------------------------------------
(* recordManualOutreachSend.                                               *)

(* An attempt with the key is the answer.                                   *)
SendBegins(r, d, key) ==
  /\ outreach[r] = Idle
  /\ attempt[key] = Null
  /\ Writing(r, [op |-> "RECORD", draft |-> d, key |-> key])
  /\ UNCHANGED <<contact, draft, attempt, consented>>

VersionApproved(d) == draft[d] # Null /\ draft[d].approved = draft[d].version
Approved(d) == VersionApproved(d) /\ draft[d].status = "SEND_ELIGIBLE"

(* unique (user_id, idempotency_key) and (draft_id, draft_version,          *)
(* recipient_email).                                                        *)
AttemptFree(d, key) ==
  /\ attempt[key] = Null
  /\ \A k \in SendKeys :
       attempt[k] # [draft |-> d, version |-> draft[d].version, recipient |-> contact[draft[d].contact]]

(* From the locks on the draft and its contact to the commit.               *)
RecordSend(r) ==
  /\ outreach[r].op = "RECORD"
  /\ LET d == outreach[r].draft
         key == outreach[r].key
     IN IF Approved(d) /\ AttemptFree(d, key)
        THEN /\ attempt' = [attempt EXCEPT ![key] =
                  [draft |-> d, version |-> draft[d].version, recipient |-> contact[draft[d].contact]]]
             /\ draft' = [draft EXCEPT ![d].status = "SENT"]
        ELSE UNCHANGED <<attempt, draft>>
  /\ Writing(r, Idle)
  /\ UNCHANGED <<contact, consented>>

AbandonOutreach(r) ==
  /\ outreach[r] # Idle
  /\ Writing(r, Idle)
  /\ UNCHANGED <<contact, draft, attempt, consented>>

OutNext ==
  \/ \E c \in Contacts, email \in Emails : CreateContact(c, email)
  \/ \E c \in Contacts, email \in Emails : UpdateContact(c, email)
  \/ \E c \in Contacts : DeleteContact(c)
  \/ \E r \in Requests, c \in Contacts : DraftBegins(r, c)
  \/ \E r \in Requests, d \in Drafts : CreateDraft(r, d)
  \/ \E d \in Drafts, version \in 1..MaxDraftVersion : UpdateDraft(d, version)
  \/ \E d \in Drafts, version \in 1..MaxDraftVersion : ApproveDraft(d, version)
  \/ \E r \in Requests, d \in Drafts, key \in SendKeys : SendBegins(r, d, key)
  \/ \E r \in Requests : RecordSend(r)
  \/ \E r \in Requests : AbandonOutreach(r)

OutSpec == OutInit /\ [][OutNext]_outvars

-----------------------------------------------------------------------------
(* Properties.                                                             *)

(* A draft is recorded as sent once, in the version it was approved in and  *)
(* stays in, however often the recording is repeated, under whichever key,  *)
(* and whatever happens to the contact's address (recordManualOutreachSend).*)
OneSendPerApproval ==
  \A d \in Drafts :
    LET sends == {k \in SendKeys : attempt[k] # Null /\ attempt[k].draft = d} IN
      IF draft[d] # Null /\ draft[d].status = "SENT"
      THEN /\ Cardinality(sends) = 1
           /\ \A k \in sends : /\ attempt[k].version = draft[d].version
                               /\ <<d, attempt[k].version>> \in consented
      ELSE sends = {}
=============================================================================
