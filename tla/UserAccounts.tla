----------------------------- MODULE UserAccounts -----------------------------
(***************************************************************************)
(* One user's account (packages/db/src/identity.ts, beta-access.ts and     *)
(* apps/web/lib/server/authorization.ts): who may act, the grants of the   *)
(* browser extension, and the deletion of the account with everything that *)
(* refers to it.  A request is authorized once, when it starts; the user,  *)
(* the grant or the beta access it was authorized by may be gone when it   *)
(* writes.                                                                 *)
(*                                                                         *)
(* Of the rows that refer to a user, the extension's grants and scans and  *)
(* a work item stand for the rest; Google's are in GoogleConnection.  The  *)
(* work item is seen as ExclusiveWork sees one.                            *)
(***************************************************************************)
EXTENDS ApiRequests

CONSTANTS
  Grants,       \* ids of extension_grants
  Pages,        \* fingerprints of scanned pages
  Deletions,    \* ids of privacy_requests of type DELETE
  PrivateBeta   \* PRIVATE_BETA_MODE; the user is no administrator

ASSUME AccountAssumption ==
  /\ PrivateBeta \in BOOLEAN
  /\ Null \notin Grants \cup Pages \cup Deletions

ASSUME AccountStatusAssumption == Null \notin {"PENDING_IDENTITY", "ACTIVE", "REVOKED"}

VARIABLES
  user,      \* public.users.status, Null when the row is deleted
  beta,      \* public.beta_access_grants for the user's address
  grant,     \* public.extension_grants
  scan,      \* public.browser_scan_sessions
  work,      \* a work item of the user
  deletion,  \* public.privacy_requests
  account    \* the request running a handler of this module or of Google's

rows == <<user, beta, grant, scan, work, deletion>>

avars == <<rows, account>>

GrantRow == [revoked : BOOLEAN, expired : BOOLEAN]
Phase == {"absent", "queued", "held", "settled"}

(* owned: user_id, which the deletion of the user sets to null.             *)
PrivacyRow == [owned : BOOLEAN, status : {"PENDING", "COMPLETED"}]

AccountHandler == {Idle}
  \cup [op : {"CREATE_GRANT", "ENQUEUE"}]
  \cup [op : {"UPLOAD"}, grant : Grants, page : Pages]
  \cup [op : {"REQUEST_DELETION"}]
  \cup [op : {"REVOKE", "DELETE", "REFUSED"}, deletion : Deletions]

AccountTypeOK ==
  /\ user \in {"PENDING_IDENTITY", "ACTIVE", Null}
  /\ beta \in {"ACTIVE", "REVOKED", Null}
  /\ grant \in [Grants -> GrantRow \cup {Null}]
  /\ scan \in [Pages -> Grants \cup {Null}]
  /\ work \in Phase
  /\ deletion \in [Deletions -> PrivacyRow \cup {Null}]

AInit ==
  /\ user = "PENDING_IDENTITY"
  /\ beta \in {"ACTIVE", Null}
  /\ grant = [g \in Grants |-> Null]
  /\ scan = [p \in Pages |-> Null]
  /\ work = "absent"
  /\ deletion = [q \in Deletions |-> Null]
  /\ account = [r \in Requests |-> Idle]

-----------------------------------------------------------------------------
(* Who may act.                                                            *)

(* requireAuthenticatedUser, past the session.                              *)
Authorized == user = "ACTIVE" /\ (PrivateBeta => beta = "ACTIVE")

(* authenticateExtensionGrant, past the token's prefix, hash and scope; it  *)
(* asks nothing of the user or of the beta.                                 *)
GrantUsable(g) == grant[g] # Null /\ ~grant[g].revoked /\ ~grant[g].expired

Handling(r, call) == account' = [account EXCEPT ![r] = call]

(* activatePendingUser, once the address is verified.                       *)
ActivateUser ==
  /\ user = "PENDING_IDENTITY"
  /\ user' = "ACTIVE"
  /\ UNCHANGED <<beta, grant, scan, work, deletion, account>>

(* grantBetaAccess and revokeBetaAccess, by an administrator.               *)
SetBeta(status) ==
  /\ status = "REVOKED" => beta # Null
  /\ beta' = status
  /\ UNCHANGED <<user, grant, scan, work, deletion, account>>

(* A handler of a signed-in user starts.                                    *)
Begin(r, op) ==
  /\ account[r] = Idle
  /\ Authorized
  /\ Handling(r, [op |-> op])
  /\ UNCHANGED rows

-----------------------------------------------------------------------------
(* The rows a user owns.                                                   *)

UserRowThere == user # Null

(* createExtensionGrant's insert.                                           *)
CreateGrant(r, g) ==
  /\ account[r].op = "CREATE_GRANT"
  /\ grant[g] = Null
  /\ grant' = IF UserRowThere
              THEN [grant EXCEPT ![g] = [revoked |-> FALSE, expired |-> FALSE]] ELSE grant
  /\ Handling(r, Idle)
  /\ UNCHANGED <<user, beta, scan, work, deletion>>

(* refreshExtensionGrant and revokeExtensionGrant: one conditional update   *)
(* each.                                                                    *)
RefreshGrant(g) ==
  /\ Authorized
  /\ grant[g] # Null
  /\ ~grant[g].revoked
  /\ grant' = [grant EXCEPT ![g].expired = FALSE]
  /\ UNCHANGED <<user, beta, scan, work, deletion, account>>

RevokeGrant(g) ==
  /\ Authorized
  /\ grant[g] # Null
  /\ grant' = [grant EXCEPT ![g].revoked = TRUE]
  /\ UNCHANGED <<user, beta, scan, work, deletion, account>>

GrantExpires(g) ==
  /\ grant[g] # Null
  /\ grant' = [grant EXCEPT ![g].expired = TRUE]
  /\ UNCHANGED <<user, beta, scan, work, deletion, account>>

(* requireExtensionGrant, and then uploadBrowserScan: a page already        *)
(* scanned keeps its row.                                                   *)
UploadBegins(r, g, p) ==
  /\ account[r] = Idle
  /\ GrantUsable(g)
  /\ Handling(r, [op |-> "UPLOAD", grant |-> g, page |-> p])
  /\ UNCHANGED rows

CommitUpload(r) ==
  /\ account[r].op = "UPLOAD"
  /\ LET call == account[r] IN
       scan' = IF scan[call.page] = Null /\ UserRowThere /\ grant[call.grant] # Null
               THEN [scan EXCEPT ![call.page] = call.grant] ELSE scan
  /\ Handling(r, Idle)
  /\ UNCHANGED <<user, beta, grant, work, deletion>>

(* A handler that queues work for the user (a calendar sync, a resume       *)
(* parse): its request has a foreign key, the work follows by trigger.      *)
Enqueue(r) ==
  /\ account[r].op = "ENQUEUE"
  /\ work' = IF UserRowThere /\ work \in {"absent", "settled"} THEN "queued" ELSE work
  /\ Handling(r, Idle)
  /\ UNCHANGED <<user, beta, grant, scan, deletion>>

(* The worker, by its lease.                                                *)
WorkMoves ==
  /\ \/ work = "queued" /\ work' = "held"
     \/ work = "held" /\ work' \in {"queued", "settled"}
  /\ UNCHANGED <<user, beta, grant, scan, deletion, account>>

-----------------------------------------------------------------------------
(* Deletion of the account (apps/web/app/api/account/route.ts).            *)

(* createPrivacyRequest.                                                    *)
RequestDeletion(r, q) ==
  /\ account[r].op = "REQUEST_DELETION"
  /\ IF UserRowThere
     THEN /\ deletion[q] = Null
          /\ deletion' = [deletion EXCEPT ![q] = [owned |-> TRUE, status |-> "PENDING"]]
          /\ Handling(r, [op |-> "REVOKE", deletion |-> q])
     ELSE Handling(r, Idle) /\ UNCHANGED deletion
  /\ UNCHANGED <<user, beta, grant, scan, work>>

(* Work that is settled may keep no lease: the row check of work_items      *)
(* refuses the cancellation of a held item, which leaves its lease columns  *)
(* as they are, and with it the transaction.                                *)
WorkCancellable == work # "held"

(* deleteUserAccount, one transaction.  The rows go with the user; the      *)
(* privacy requests stay, without the user.                                 *)
DeleteUser(r) ==
  /\ account[r].op = "DELETE"
  /\ LET q == account[r].deletion IN
       IF UserRowThere /\ WorkCancellable
       THEN /\ user' = Null
            /\ grant' = [g \in Grants |-> Null]
            /\ scan' = [p \in Pages |-> Null]
            /\ work' = "absent"
            /\ deletion' = [d \in Deletions |->
                 IF deletion[d] = Null THEN Null
                 ELSE [owned |-> FALSE,
                       status |-> IF d = q THEN "COMPLETED" ELSE deletion[d].status]]
            /\ Handling(r, Idle)
       ELSE /\ Handling(r, [op |-> "REFUSED", deletion |-> q])
            /\ UNCHANGED <<user, grant, scan, work, deletion>>
  /\ UNCHANGED beta

(* A handler answers, or a request ends early.                              *)
AbandonAccount(r) ==
  /\ account[r] # Idle
  /\ Handling(r, Idle)
  /\ UNCHANGED rows

(* All steps but those GoogleConnection has a part in.                      *)
ANext ==
  \/ ActivateUser
  \/ \E status \in {"ACTIVE", "REVOKED"} : SetBeta(status)
  \/ \E r \in Requests, op \in {"CREATE_GRANT", "REQUEST_DELETION"} : Begin(r, op)
  \/ \E r \in Requests, g \in Grants : CreateGrant(r, g)
  \/ \E g \in Grants : RefreshGrant(g)
  \/ \E g \in Grants : RevokeGrant(g)
  \/ \E g \in Grants : GrantExpires(g)
  \/ \E r \in Requests, g \in Grants, p \in Pages : UploadBegins(r, g, p)
  \/ \E r \in Requests : CommitUpload(r)
  \/ \E r \in Requests : Enqueue(r)
  \/ WorkMoves
  \/ \E r \in Requests, q \in Deletions : RequestDeletion(r, q)
  \/ \E r \in Requests : AbandonAccount(r)
=============================================================================
