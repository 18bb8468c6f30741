------------------------- MODULE CandidateRecordProofs -------------------------
(***************************************************************************)
(* Machine-checked proofs about what a candidate stores: the account with  *)
(* its Google connection and their deletion (UserAccounts and              *)
(* GoogleConnection), a resume with what was computed from it              *)
(* (ResumeMatching), and the calendar page with its clocks (CalendarPage,  *)
(* WallClock).                                                             *)
(***************************************************************************)
EXTENDS GoogleConnection, ResumeMatching, CalendarPage, FiniteFacts

-----------------------------------------------------------------------------
(* The types of the account and of the connection.                         *)

Handlers == AccountHandler \cup GoogleHandler

LEMMA AccountHandlers ==
  ASSUME NEW h \in AccountHandler
  PROVE  /\ h.op \notin {"EXCHANGE", "SAVE_READ", "SAVE", "REFRESH", "FORGET_STATES"}
         /\ h.op = "UPLOAD" => h.grant \in Grants /\ h.page \in Pages
         /\ h.op = "REVOKE" => h.deletion \in Deletions
         /\ h.op = "REVOKE" => h = [op |-> "REVOKE", deletion |-> h.deletion]
         /\ h.op = "DELETE" => h.deletion \in Deletions
  BY DEF AccountHandler, Idle

LEMMA GoogleHandlers ==
  ASSUME NEW h \in GoogleHandler
  PROVE  /\ h.op \notin {"UPLOAD", "REVOKE", "DELETE", "IDLE"}
         /\ h.op = "EXCHANGE" => h.state \in Authorizations
         /\ h.op \in {"SAVE_READ", "SAVE"} =>
              h.account \in GoogleAccounts /\ h.token \in GoogleAccounts \cup {Null}
  BY DEF GoogleHandler

LEMMA HandlerFields ==
  ASSUME NEW h \in Handlers
  PROVE  /\ h.op = "UPLOAD" => h.grant \in Grants /\ h.page \in Pages
         /\ h.op = "REVOKE" => h.deletion \in Deletions
         /\ h.op = "REVOKE" => h = [op |-> "REVOKE", deletion |-> h.deletion]
         /\ h.op = "DELETE" => h.deletion \in Deletions
         /\ h.op = "EXCHANGE" => h.state \in Authorizations
         /\ h.op \in {"SAVE_READ", "SAVE"} =>
              h.account \in GoogleAccounts /\ h.token \in GoogleAccounts \cup {Null}
  <1>1. CASE h \in AccountHandler
    BY <1>1, AccountHandlers
  <1>2. CASE h \in GoogleHandler
    BY <1>2, GoogleHandlers
  <1>3. QED
    BY <1>1, <1>2 DEF Handlers

LEMMA HandlerValues ==
  /\ Idle \in Handlers
  /\ \A op \in {"CREATE_GRANT", "ENQUEUE", "REQUEST_DELETION", "FORGET_STATES"} :
       [op |-> op] \in Handlers
  /\ \A g \in Grants, p \in Pages : [op |-> "UPLOAD", grant |-> g, page |-> p] \in Handlers
  /\ \A op \in {"REVOKE", "DELETE", "REFUSED"}, q \in Deletions :
       [op |-> op, deletion |-> q] \in Handlers
  /\ \A s \in Authorizations : [op |-> "EXCHANGE", state |-> s] \in Handlers
  /\ \A op \in {"SAVE_READ", "SAVE"}, a \in GoogleAccounts, t \in GoogleAccounts \cup {Null} :
       [op |-> op, account |-> a, token |-> t] \in Handlers
  /\ \A t \in GoogleAccounts : [op |-> "REFRESH", token |-> t] \in Handlers
  BY DEF Handlers, AccountHandler, GoogleHandler

LEMMA HandlingKnown ==
  ASSUME account \in [Requests -> Handlers], NEW r \in Requests, NEW h \in Handlers, Handling(r, h)
  PROVE  account' \in [Requests -> Handlers]
  BY DEF Handling

LEMMA InitGoogleType == GInit => GoogleTypeOK
  <1> SUFFICES ASSUME GInit PROVE GoogleTypeOK
    OBVIOUS
  <1>1. AccountTypeOK
    BY DEF GInit, AInit, AccountTypeOK, Phase
  <1>2. account \in [Requests -> Handlers]
    BY HandlerValues DEF GInit, AInit
  <1>3. QED
    BY <1>1, <1>2 DEF GInit, GoogleTypeOK, Handlers

LEMMA GrantsType ==
  ASSUME GoogleTypeOK, NEW g \in Grants,
         RefreshGrant(g) \/ RevokeGrant(g) \/ GrantExpires(g)
  PROVE  AccountTypeOK' /\ UNCHANGED account
  <1>1. grant[g] \in GrantRow
    BY DEF GoogleTypeOK, AccountTypeOK, RefreshGrant, RevokeGrant, GrantExpires
  <1> DEFINE refreshed == [grant[g] EXCEPT !.expired = FALSE]
             revoked == [grant[g] EXCEPT !.revoked = TRUE]
             expired == [grant[g] EXCEPT !.expired = TRUE]
  <1>2. {refreshed, revoked, expired} \subseteq GrantRow
    BY <1>1 DEF GrantRow
  <1>3. \E row \in {refreshed, revoked, expired} : grant' = [grant EXCEPT ![g] = row]
    BY DEF RefreshGrant, RevokeGrant, GrantExpires
  <1> HIDE DEF refreshed, revoked, expired
  <1>4. grant' \in [Grants -> GrantRow \cup {Null}]
    BY <1>2, <1>3 DEF GoogleTypeOK, AccountTypeOK
  <1>5. QED
    BY <1>4 DEF GoogleTypeOK, AccountTypeOK, RefreshGrant, RevokeGrant, GrantExpires

LEMMA AccountStepType ==
  ASSUME GoogleTypeOK, ANext
  PROVE  AccountTypeOK' /\ account' \in [Requests -> Handlers]
  <1>1. /\ AccountTypeOK
        /\ account \in [Requests -> Handlers]
    BY DEF GoogleTypeOK, Handlers
  <1>2. ASSUME ActivateUser \/ WorkMoves \/ \E status \in {"ACTIVE", "REVOKED"} : SetBeta(status)
        PROVE  AccountTypeOK' /\ UNCHANGED account
    BY <1>1, <1>2 DEF AccountTypeOK, Phase, ActivateUser, WorkMoves, SetBeta
  <1>3. ASSUME NEW r \in Requests, NEW op \in {"CREATE_GRANT", "REQUEST_DELETION"}, Begin(r, op)
        PROVE  AccountTypeOK' /\ account' \in [Requests -> Handlers]
    BY <1>1, <1>3, HandlingKnown, HandlerValues DEF Begin, rows, AccountTypeOK
  <1>4. ASSUME NEW r \in Requests, NEW g \in Grants, CreateGrant(r, g)
        PROVE  AccountTypeOK' /\ account' \in [Requests -> Handlers]
    <2>1. grant' \in [Grants -> GrantRow \cup {Null}]
      BY <1>1, <1>4 DEF CreateGrant, AccountTypeOK, GrantRow
    <2>2. QED
      BY <1>1, <1>4, <2>1, HandlingKnown, HandlerValues DEF CreateGrant, AccountTypeOK
  <1>5. ASSUME NEW r \in Requests, NEW g \in Grants, NEW p \in Pages, UploadBegins(r, g, p)
        PROVE  AccountTypeOK' /\ account' \in [Requests -> Handlers]
    BY <1>1, <1>5, HandlingKnown, HandlerValues DEF UploadBegins, rows, AccountTypeOK
  <1>6. ASSUME NEW r \in Requests, CommitUpload(r)
        PROVE  AccountTypeOK' /\ account' \in [Requests -> Handlers]
    <2>1. account[r].grant \in Grants /\ account[r].page \in Pages
      BY <1>1, <1>6, HandlerFields DEF CommitUpload
    <2>2. scan' \in [Pages -> Grants \cup {Null}]
      BY <1>1, <1>6, <2>1 DEF CommitUpload, AccountTypeOK
    <2>3. QED
      BY <1>1, <1>6, <2>2, HandlingKnown, HandlerValues DEF CommitUpload, AccountTypeOK
  <1>7. ASSUME NEW r \in Requests, Enqueue(r)
        PROVE  AccountTypeOK' /\ account' \in [Requests -> Handlers]
    BY <1>1, <1>7, HandlingKnown, HandlerValues DEF Enqueue, AccountTypeOK, Phase
  <1>8. ASSUME NEW r \in Requests, NEW q \in Deletions, RequestDeletion(r, q)
        PROVE  AccountTypeOK' /\ account' \in [Requests -> Handlers]
    <2>1. [owned |-> TRUE, status |-> "PENDING"] \in PrivacyRow
      BY DEF PrivacyRow
    <2>4. deletion' \in [Deletions -> PrivacyRow \cup {Null}]
      BY <1>1, <1>8, <2>1 DEF RequestDeletion, AccountTypeOK
    <2>2. account' \in [Requests -> Handlers]
      BY <1>1, <1>8, HandlingKnown, HandlerValues DEF RequestDeletion
    <2>3. QED
      BY <1>1, <1>8, <2>2, <2>4 DEF RequestDeletion, AccountTypeOK
  <1>9. ASSUME NEW r \in Requests, AbandonAccount(r)
        PROVE  AccountTypeOK' /\ account' \in [Requests -> Handlers]
    BY <1>1, <1>9, HandlingKnown, HandlerValues DEF AbandonAccount, rows, AccountTypeOK
  <1>10. QED
    BY <1>1, <1>2, <1>3, <1>4, <1>5, <1>6, <1>7, <1>8, <1>9, GrantsType DEF ANext

LEMMA DeleteUserType ==
  ASSUME GoogleTypeOK, NEW r \in Requests, DeleteUser(r)
  PROVE  AccountTypeOK' /\ account' \in [Requests -> Handlers]
  <1>1. /\ AccountTypeOK
        /\ account \in [Requests -> Handlers]
    BY DEF GoogleTypeOK, Handlers
  <1>2. account[r].deletion \in Deletions
    BY <1>1, HandlerFields DEF DeleteUser
  <1>3. account' \in [Requests -> Handlers]
    BY <1>1, <1>2, HandlingKnown, HandlerValues DEF DeleteUser
  <1>4. \A d \in Deletions : deletion[d] # Null => deletion[d].status \in {"PENDING", "COMPLETED"}
    BY <1>1 DEF AccountTypeOK, PrivacyRow
  <1>6. \A status \in {"PENDING", "COMPLETED"} : [owned |-> FALSE, status |-> status] \in PrivacyRow
    BY DEF PrivacyRow
  <1> DEFINE status(d) == IF d = account[r].deletion THEN "COMPLETED" ELSE deletion[d].status
             row(d) == IF deletion[d] = Null THEN Null ELSE [owned |-> FALSE, status |-> status(d)]
  <1>7. deletion' = [d \in Deletions |-> row(d)] \/ deletion' = deletion
    BY DEF DeleteUser
  <1>9. \A d \in Deletions : row(d) \in PrivacyRow \cup {Null}
    <2> SUFFICES ASSUME NEW d \in Deletions, deletion[d] # Null
                 PROVE  [owned |-> FALSE, status |-> status(d)] \in PrivacyRow
      OBVIOUS
    <2>1. status(d) \in {"PENDING", "COMPLETED"}
      BY <1>4
    <2>2. QED
      BY <1>6, <2>1
  <1> HIDE DEF row
  <1>8. deletion' \in [Deletions -> PrivacyRow \cup {Null}]
    BY <1>1, <1>7, <1>9 DEF AccountTypeOK
  <1>5. QED
    BY <1>1, <1>3, <1>8 DEF DeleteUser, AccountTypeOK, Phase

LEMMA ConnectionEdits ==
  ASSUME NEW row \in ConnectionRow
  PROVE  /\ \A status \in {"CONNECTED", "REAUTH_REQUIRED", "ERROR"} :
              [row EXCEPT !.status = status] \in ConnectionRow
         /\ [row EXCEPT !.status = "DISCONNECTED", !.token = Null] \in ConnectionRow
  BY DEF ConnectionRow

LEMMA GoogleStepType == GoogleTypeOK /\ [GNext]_gvars => GoogleTypeOK'
  <1> SUFFICES ASSUME GoogleTypeOK, [GNext]_gvars PROVE GoogleTypeOK'
    OBVIOUS
  <1>1. /\ AccountTypeOK
        /\ account \in [Requests -> Handlers]
        /\ authorization \in [Authorizations -> {"OPEN", "CONSUMED", "EXPIRED", Null}]
        /\ connection \in ConnectionRow \cup {Null}
        /\ exchanges \in [Authorizations -> Nat]
    BY DEF GoogleTypeOK, Handlers
  <1>2. ASSUME UNCHANGED rows PROVE AccountTypeOK'
    BY <1>1, <1>2 DEF rows, AccountTypeOK
  <1>3. SUFFICES /\ AccountTypeOK'
                 /\ account' \in [Requests -> Handlers]
                 /\ authorization' \in [Authorizations -> {"OPEN", "CONSUMED", "EXPIRED", Null}]
                 /\ connection' \in ConnectionRow \cup {Null}
                 /\ exchanges' \in [Authorizations -> Nat]
    BY DEF GoogleTypeOK, Handlers
  <1>4. CASE UNCHANGED gvars
    BY <1>1, <1>2, <1>4 DEF gvars, avars
  <1>5. CASE ANext /\ UNCHANGED <<authorization, connection, exchanges>>
    BY <1>1, <1>5, AccountStepType
  <1>6. ASSUME NEW s \in Authorizations, Authorize(s) \/ AuthorizationExpires(s)
        PROVE  /\ UNCHANGED <<avars, connection>>
               /\ authorization' \in [Authorizations -> {"OPEN", "CONSUMED", "EXPIRED", Null}]
               /\ exchanges' \in [Authorizations -> Nat]
    BY <1>1, <1>6 DEF Authorize, AuthorizationExpires
  <1>7. ASSUME NEW r \in Requests, NEW s \in Authorizations, NEW refused \in BOOLEAN,
               Callback(r, s, refused)
        PROVE  /\ UNCHANGED <<rows, connection, exchanges>>
               /\ account' \in [Requests -> Handlers]
               /\ authorization' \in [Authorizations -> {"OPEN", "CONSUMED", "EXPIRED", Null}]
    BY <1>1, <1>7, HandlingKnown, HandlerValues DEF Callback
  <1>8. ASSUME NEW r \in Requests, NEW a \in GoogleAccounts, NEW t \in GoogleAccounts \cup {Null},
               Exchange(r, a, t)
        PROVE  /\ UNCHANGED <<rows, authorization, connection>>
               /\ account' \in [Requests -> Handlers]
               /\ exchanges' \in [Authorizations -> Nat]
    <2>1. account[r].state \in Authorizations
      BY <1>1, <1>8, HandlerFields DEF Exchange
    <2>2. exchanges' \in [Authorizations -> Nat]
      BY <1>1, <1>8, <2>1 DEF Exchange
    <2>3. QED
      BY <1>1, <1>8, <2>2, HandlingKnown, HandlerValues DEF Exchange
  <1>9. ASSUME NEW r \in Requests, SaveRead(r)
        PROVE  /\ UNCHANGED <<rows, authorization, connection, exchanges>>
               /\ account' \in [Requests -> Handlers]
    <2> DEFINE token == IF account[r].token # Null THEN account[r].token
                        ELSE IF connection = Null THEN Null ELSE connection.token
    <2>1. account[r].account \in GoogleAccounts /\ account[r].token \in GoogleAccounts \cup {Null}
      BY <1>1, <1>9, HandlerFields DEF SaveRead
    <2>2. token \in GoogleAccounts \cup {Null}
      BY <1>1, <2>1 DEF ConnectionRow
    <2>3. [op |-> "SAVE", account |-> account[r].account, token |-> token] \in Handlers
      BY <2>1, <2>2, HandlerValues
    <2>4. QED
      BY <1>1, <1>9, <2>3, HandlingKnown, HandlerValues DEF SaveRead
  <1>10. ASSUME NEW r \in Requests, Save(r)
         PROVE  /\ UNCHANGED <<rows, authorization, exchanges>>
                /\ account' \in [Requests -> Handlers]
                /\ connection' \in ConnectionRow \cup {Null}
    <2>1. account[r].account \in GoogleAccounts /\ account[r].token \in GoogleAccounts \cup {Null}
      BY <1>1, <1>10, HandlerFields DEF Save
    <2>2. [status |-> "CONNECTED", account |-> account[r].account, token |-> account[r].token]
             \in ConnectionRow
      BY <2>1 DEF ConnectionRow
    <2>3. QED
      BY <1>1, <1>10, <2>2, HandlingKnown, HandlerValues DEF Save
  <1>11. ASSUME NEW r \in Requests, RefreshBegins(r)
         PROVE  /\ UNCHANGED <<rows, authorization, connection, exchanges>>
                /\ account' \in [Requests -> Handlers]
    <2>1. connection.token \in GoogleAccounts
      BY <1>1, <1>11 DEF RefreshBegins, ConnectionRow
    <2>2. QED
      BY <1>1, <1>11, <2>1, HandlingKnown, HandlerValues DEF RefreshBegins
  <1>12. ASSUME NEW r \in Requests, RefreshRefused(r) \/ Disconnect(r) \/ RequestSync(r)
         PROVE  /\ UNCHANGED <<rows, authorization, exchanges>>
                /\ account' \in [Requests -> Handlers]
                /\ connection' \in ConnectionRow \cup {Null}
    <2>1. account' \in [Requests -> Handlers]
      BY <1>1, <1>12, HandlingKnown, HandlerValues DEF RefreshRefused, Disconnect, RequestSync, Begin
    <2>2. connection' \in ConnectionRow \cup {Null}
      BY <1>1, <1>12, ConnectionEdits DEF RefreshRefused, Disconnect, RequestSync
    <2>3. QED
      BY <1>12, <2>1, <2>2 DEF RefreshRefused, Disconnect, RequestSync, Begin
  <1>13. ASSUME NEW r \in Requests, ForgetStates(r)
         PROVE  /\ UNCHANGED <<rows, connection, exchanges>>
                /\ account' \in [Requests -> Handlers]
                /\ authorization' \in [Authorizations -> {"OPEN", "CONSUMED", "EXPIRED", Null}]
    BY <1>1, <1>13, HandlingKnown, HandlerValues DEF ForgetStates
  <1>14. ASSUME NEW reauth \in BOOLEAN, SyncFails(reauth)
         PROVE  /\ UNCHANGED <<avars, authorization, exchanges>>
                /\ connection' \in ConnectionRow \cup {Null}
    BY <1>1, <1>14, ConnectionEdits DEF SyncFails
  <1>15. ASSUME NEW r \in Requests, RevokeAuthorization(r)
         PROVE  /\ UNCHANGED <<rows, authorization, connection, exchanges>>
                /\ account' \in [Requests -> Handlers]
    <2>1. account[r].deletion \in Deletions
          /\ account[r] = [op |-> "REVOKE", deletion |-> account[r].deletion]
      BY <1>1, <1>15, HandlerFields DEF RevokeAuthorization
    <2>2. [account[r] EXCEPT !.op = "DELETE"] = [op |-> "DELETE", deletion |-> account[r].deletion]
      BY <2>1
    <2>3. QED
      BY <1>1, <1>15, <2>1, <2>2, HandlingKnown, HandlerValues DEF RevokeAuthorization, rows
  <1>16. ASSUME NEW r \in Requests, DeleteAccount(r)
         PROVE  /\ AccountTypeOK' /\ account' \in [Requests -> Handlers]
                /\ authorization' \in [Authorizations -> {"OPEN", "CONSUMED", "EXPIRED", Null}]
                /\ connection' \in ConnectionRow \cup {Null}
                /\ UNCHANGED exchanges
    BY <1>1, <1>16, DeleteUserType DEF DeleteAccount
  <1>17. QED
    BY <1>1, <1>2, <1>4, <1>5, <1>6, <1>7, <1>8, <1>9, <1>10, <1>11, <1>12, <1>13, <1>14, <1>15,
       <1>16 DEF GNext, avars

(* Every reachable state of the account and of its connection is well typed. *)
THEOREM GoogleTypeCorrect == GSpec => []GoogleTypeOK
  BY InitGoogleType, GoogleStepType, PTL DEF GSpec

-----------------------------------------------------------------------------
(* An authorization's code.                                                *)

(* The request holds a code and has not sent it to Google.                  *)
Exchanging(r) == account[r].op = "EXCHANGE"

(* One request holds the code of a state, and only of a state that was      *)
(* consumed and whose code never went out; a state that may still be        *)
(* consumed has sent nothing.                                               *)
OneHolder ==
  \A q, r \in Requests : Exchanging(q) /\ Exchanging(r) /\ account[q].state = account[r].state
    => q = r

HeldIsConsumed ==
  \A r \in Requests : Exchanging(r) =>
    authorization[account[r].state] # "OPEN" /\ exchanges[account[r].state] = 0

OpenIsUnsent == \A s \in Authorizations : authorization[s] = "OPEN" => exchanges[s] = 0

OneExchange == OneHolder /\ HeldIsConsumed /\ OpenIsUnsent /\ CallbackOnce

LEMMA InitExchange == GInit => OneExchange
  BY AuthorizationStatusAssumption
  DEF GInit, AInit, Idle, OneExchange, OneHolder, HeldIsConsumed, OpenIsUnsent, CallbackOnce,
      Exchanging

(* A step that sends no code, opens no state and hands out no code.         *)
LEMMA QuietExchange ==
  ASSUME OneExchange, GoogleTypeOK, UNCHANGED exchanges,
         \A s \in Authorizations : authorization'[s] = "OPEN" => authorization[s] = "OPEN",
         \A r \in Requests : Exchanging(r)' => account'[r] = account[r]
  PROVE  OneExchange'
  <1>1. \A r \in Requests : Exchanging(r) => account[r].state \in Authorizations
    BY HandlerFields DEF GoogleTypeOK, Handlers, Exchanging
  <1>2. \A r \in Requests : Exchanging(r)' => Exchanging(r) /\ account'[r].state = account[r].state
    BY DEF Exchanging
  <1>3. QED
    BY <1>1, <1>2 DEF OneExchange, OneHolder, HeldIsConsumed, OpenIsUnsent, CallbackOnce

(* The request goes on to another handler than the exchange of a code.      *)
LEMMA HandlingQuiet ==
  ASSUME GoogleTypeOK, NEW r \in Requests, NEW h, h.op # "EXCHANGE", Handling(r, h)
  PROVE  \A q \in Requests : Exchanging(q)' => account'[q] = account[q]
  BY DEF GoogleTypeOK, Handling, Exchanging

LEMMA AccountExchange ==
  ASSUME OneExchange, GoogleTypeOK, ANext, UNCHANGED <<authorization, connection, exchanges>>
  PROVE  OneExchange'
  <1>1. \/ UNCHANGED account
        \/ \E r \in Requests, h \in Handlers : h.op # "EXCHANGE" /\ Handling(r, h)
    <2>1. CASE ActivateUser \/ WorkMoves \/ \E status \in {"ACTIVE", "REVOKED"} : SetBeta(status)
      BY <2>1 DEF ActivateUser, WorkMoves, SetBeta
    <2>2. ASSUME NEW g \in Grants, RefreshGrant(g) \/ RevokeGrant(g) \/ GrantExpires(g)
          PROVE  UNCHANGED account
      BY <2>2 DEF RefreshGrant, RevokeGrant, GrantExpires
    <2>3. ASSUME NEW r \in Requests, NEW op \in {"CREATE_GRANT", "REQUEST_DELETION"}, Begin(r, op)
          PROVE  [op |-> op].op # "EXCHANGE" /\ [op |-> op] \in Handlers /\ Handling(r, [op |-> op])
      BY <2>3, HandlerValues DEF Begin
    <2>4. ASSUME NEW r \in Requests,
                 \/ \E g \in Grants : CreateGrant(r, g)
                 \/ CommitUpload(r) \/ Enqueue(r) \/ AbandonAccount(r)
          PROVE  Handling(r, Idle)
      BY <2>4 DEF CreateGrant, CommitUpload, Enqueue, AbandonAccount
    <2>5. ASSUME NEW r \in Requests, NEW g \in Grants, NEW p \in Pages, UploadBegins(r, g, p)
          PROVE  /\ [op |-> "UPLOAD", grant |-> g, page |-> p].op # "EXCHANGE"
                 /\ Handling(r, [op |-> "UPLOAD", grant |-> g, page |-> p])
      BY <2>5 DEF UploadBegins
    <2>6. ASSUME NEW r \in Requests, NEW q \in Deletions, RequestDeletion(r, q)
          PROVE  /\ [op |-> "REVOKE", deletion |-> q].op # "EXCHANGE"
                 /\ Handling(r, [op |-> "REVOKE", deletion |-> q]) \/ Handling(r, Idle)
      BY <2>6 DEF RequestDeletion
    <2>7. Idle.op # "EXCHANGE"
      BY DEF Idle
    <2>8. QED
      BY <2>1, <2>2, <2>3, <2>4, <2>5, <2>6, <2>7, HandlerValues DEF ANext
  <1>2. \A q \in Requests : Exchanging(q)' => account'[q] = account[q]
    <2>1. CASE UNCHANGED account
      BY <2>1
    <2>2. CASE \E r \in Requests, h \in Handlers : h.op # "EXCHANGE" /\ Handling(r, h)
      BY <2>2, HandlingQuiet
    <2>3. QED
      BY <1>1, <2>1, <2>2
  <1>3. QED
    BY <1>2, QuietExchange

LEMMA AuthorizeExchange ==
  ASSUME OneExchange, GoogleTypeOK, NEW s \in Authorizations, Authorize(s)
  PROVE  OneExchange'
  <1>1. /\ UNCHANGED account
        /\ \A t \in Authorizations :
             /\ exchanges'[t] = IF t = s THEN 0 ELSE exchanges[t]
             /\ authorization'[t] = "OPEN" => t = s \/ authorization[t] = "OPEN"
    BY AuthorizationStatusAssumption DEF GoogleTypeOK, Authorize, avars
  <1>2. \A r \in Requests : Exchanging(r) => account[r].state \in Authorizations \ {s}
    BY HandlerFields DEF GoogleTypeOK, Handlers, Exchanging, Authorize
  <1>3. QED
    BY <1>1, <1>2 DEF OneExchange, OneHolder, HeldIsConsumed, OpenIsUnsent, CallbackOnce, Exchanging

LEMMA CallbackExchange ==
  ASSUME OneExchange, GoogleTypeOK, NEW r \in Requests, NEW s \in Authorizations,
         NEW refused \in BOOLEAN, Callback(r, s, refused)
  PROVE  OneExchange'
  <1>1. /\ UNCHANGED exchanges
        /\ authorization[s] = "OPEN"
        /\ \A t \in Authorizations : authorization'[t] = IF t = s THEN "CONSUMED" ELSE authorization[t]
    BY DEF GoogleTypeOK, Callback, Unused
  <1>2. CASE refused
    BY <1>1, <1>2, QuietExchange DEF Callback
  <1>3. CASE ~refused
    <2>1. /\ \A q \in Requests \ {r} : account'[q] = account[q]
          /\ account'[r] = [op |-> "EXCHANGE", state |-> s]
      BY <1>3 DEF GoogleTypeOK, Callback, Handling
    <2>2. account'[r].op = "EXCHANGE" /\ account'[r].state = s
      BY <2>1
    <2>3. \A q \in Requests : Exchanging(q) => account[q].state \in Authorizations \ {s}
      BY <1>1, HandlerFields DEF GoogleTypeOK, Handlers, Exchanging, OneExchange, HeldIsConsumed
    <2>4. QED
      BY <1>1, <2>1, <2>2, <2>3
      DEF OneExchange, OneHolder, HeldIsConsumed, OpenIsUnsent, CallbackOnce, Exchanging
  <1>4. QED
    BY <1>2, <1>3

LEMMA ExchangeExchange ==
  ASSUME OneExchange, GoogleTypeOK, NEW r \in Requests, NEW a \in GoogleAccounts,
         NEW t \in GoogleAccounts \cup {Null}, Exchange(r, a, t)
  PROVE  OneExchange'
  <1>1. \A q \in Requests : Exchanging(q) => account[q].state \in Authorizations
    BY HandlerFields DEF GoogleTypeOK, Handlers, Exchanging
  <1> DEFINE sent == account[r].state
  <1>2. Exchanging(r) /\ sent \in Authorizations /\ exchanges[sent] = 0
        /\ authorization[sent] # "OPEN"
    BY <1>1 DEF Exchange, Exchanging, OneExchange, HeldIsConsumed
  <1>3. /\ UNCHANGED authorization
        /\ \A q \in Requests \ {r} : account'[q] = account[q]
        /\ account'[r] = [op |-> "SAVE_READ", account |-> a, token |-> t]
        /\ exchanges' = [exchanges EXCEPT ![sent] = @ + 1]
    BY DEF GoogleTypeOK, Exchange, Handling
  <1>4. \A s \in Authorizations : exchanges'[s] = IF s = sent THEN 1 ELSE exchanges[s]
    BY <1>2, <1>3 DEF GoogleTypeOK
  <1>5. ~Exchanging(r)'
    BY <1>3 DEF Exchanging
  <1>6. \A q \in Requests : Exchanging(q)' =>
          q # r /\ Exchanging(q) /\ account'[q].state = account[q].state /\ account[q].state # sent
    BY <1>2, <1>3, <1>5 DEF Exchanging, OneExchange, OneHolder
  <1> HIDE DEF sent
  <1>7. QED
    BY <1>1, <1>2, <1>3, <1>4, <1>6
    DEF OneExchange, OneHolder, HeldIsConsumed, OpenIsUnsent, CallbackOnce

(* The steps that hold no code, each by what it writes.                     *)
LEMMA OtherExchange ==
  ASSUME OneExchange, GoogleTypeOK, NEW r \in Requests,
         \/ SaveRead(r) \/ Save(r) \/ RefreshBegins(r) \/ RefreshRefused(r) \/ Disconnect(r)
         \/ ForgetStates(r) \/ RequestSync(r) \/ RevokeAuthorization(r) \/ DeleteAccount(r)
  PROVE  OneExchange'
  <1>1. account[r] \in Handlers
    BY DEF GoogleTypeOK, Handlers
  <1>2. UNCHANGED exchanges
    BY DEF SaveRead, Save, RefreshBegins, RefreshRefused, Disconnect, ForgetStates, RequestSync,
           RevokeAuthorization, DeleteAccount
  <1>3. \A s \in Authorizations : authorization'[s] = "OPEN" => authorization[s] = "OPEN"
    BY AuthorizationStatusAssumption
    DEF SaveRead, Save, RefreshBegins, RefreshRefused, Disconnect, ForgetStates, RequestSync,
        RevokeAuthorization, DeleteAccount
  <1>4. \E h : h.op # "EXCHANGE" /\ Handling(r, h)
    <2>1. Idle.op # "EXCHANGE" /\ \A op : [op |-> op].op = op
      BY DEF Idle
    <2>2. /\ \A x, y : [op |-> "SAVE", account |-> x, token |-> y].op # "EXCHANGE"
          /\ \A x : [op |-> "REFRESH", token |-> x].op # "EXCHANGE"
          /\ \A x : [op |-> "REFUSED", deletion |-> x].op # "EXCHANGE"
      OBVIOUS
    <2>3. CASE SaveRead(r) \/ Save(r) \/ RefreshBegins(r)
      BY <2>1, <2>2, <2>3 DEF SaveRead, Save, RefreshBegins
    <2>4. CASE RefreshRefused(r) \/ Disconnect(r) \/ ForgetStates(r) \/ RequestSync(r)
      BY <2>1, <2>4 DEF RefreshRefused, Disconnect, ForgetStates, RequestSync, Begin
    <2>5. CASE RevokeAuthorization(r)
      <3>1. account[r] = [op |-> "REVOKE", deletion |-> account[r].deletion]
        BY <1>1, <2>5, HandlerFields DEF RevokeAuthorization
      <3>2. [account[r] EXCEPT !.op = "DELETE"].op # "EXCHANGE"
        BY <3>1
      <3>3. QED
        BY <2>5, <3>2 DEF RevokeAuthorization
    <2>6. CASE DeleteAccount(r)
      BY <2>1, <2>2, <2>6 DEF DeleteAccount, DeleteUser
    <2>7. QED
      BY <2>3, <2>4, <2>5, <2>6
  <1>5. \A q \in Requests : Exchanging(q)' => account'[q] = account[q]
    BY <1>4, HandlingQuiet
  <1>6. QED
    BY <1>2, <1>3, <1>5, QuietExchange

LEMMA NextExchange == GoogleTypeOK /\ OneExchange /\ [GNext]_gvars => OneExchange'
  <1> SUFFICES ASSUME GoogleTypeOK, OneExchange, [GNext]_gvars PROVE OneExchange'
    OBVIOUS
  <1>1. ASSUME UNCHANGED <<account, exchanges>>,
               \A s \in Authorizations : authorization'[s] = "OPEN" => authorization[s] = "OPEN"
        PROVE  OneExchange'
    BY <1>1, QuietExchange
  <1>2. CASE UNCHANGED gvars
    BY <1>1, <1>2 DEF gvars, avars
  <1>3. CASE ANext /\ UNCHANGED <<authorization, connection, exchanges>>
    BY <1>3, AccountExchange
  <1>4. ASSUME NEW s \in Authorizations, AuthorizationExpires(s) PROVE OneExchange'
    BY <1>1, <1>4 DEF AuthorizationExpires, GoogleTypeOK, avars
  <1>5. ASSUME NEW reauth \in BOOLEAN, SyncFails(reauth) PROVE OneExchange'
    BY <1>1, <1>5 DEF SyncFails, avars
  <1>6. QED
    BY <1>2, <1>3, <1>4, <1>5, AuthorizeExchange, CallbackExchange, ExchangeExchange, OtherExchange
    DEF GNext

(* The code of an authorization goes to Google at most once, for any number *)
(* of callbacks that race with each other, with another authorization, with *)
(* a disconnection or with the deletion of the account.                     *)
THEOREM CodesGoOutOnce == GSpec => []CallbackOnce
  <1>1. OneExchange => CallbackOnce
    BY DEF OneExchange
  <1>2. QED
    BY <1>1, InitExchange, NextExchange, GoogleTypeCorrect, PTL DEF GSpec

-----------------------------------------------------------------------------
(* Nothing of a deleted user.  Inductive as it stands: whatever a handler   *)
(* remembers, its write asks for the user's row or for a row of the user's  *)
(* that the deletion took.                                                  *)

LEMMA InitDeleted == GInit => NothingOfADeletedUser
  BY DEF GInit, AInit, NothingOfADeletedUser

LEMMA AccountDeleted ==
  ASSUME GoogleTypeOK, NothingOfADeletedUser, ANext,
         UNCHANGED <<authorization, connection, exchanges>>
  PROVE  NothingOfADeletedUser'
  <1>1. CASE UNCHANGED rows
    BY <1>1 DEF rows, NothingOfADeletedUser
  <1>2. ASSUME ActivateUser \/ WorkMoves \/ \E status \in {"ACTIVE", "REVOKED"} : SetBeta(status)
        PROVE  NothingOfADeletedUser'
    BY <1>2, AccountStatusAssumption
    DEF ActivateUser, WorkMoves, SetBeta, NothingOfADeletedUser
  <1>3. ASSUME NEW r \in Requests, NEW op \in {"CREATE_GRANT", "REQUEST_DELETION"}, Begin(r, op)
        PROVE  UNCHANGED rows
    BY <1>3 DEF Begin
  <1>4. ASSUME NEW r \in Requests, NEW g \in Grants, CreateGrant(r, g)
        PROVE  NothingOfADeletedUser'
    BY <1>4 DEF CreateGrant, UserRowThere, NothingOfADeletedUser
  <1>5. ASSUME NEW g \in Grants, RefreshGrant(g) \/ RevokeGrant(g) \/ GrantExpires(g)
        PROVE  NothingOfADeletedUser'
    <2>1. user # Null
      BY <1>5 DEF RefreshGrant, RevokeGrant, GrantExpires, NothingOfADeletedUser
    <2>2. UNCHANGED user
      BY <1>5 DEF RefreshGrant, RevokeGrant, GrantExpires
    <2>3. QED
      BY <2>1, <2>2 DEF NothingOfADeletedUser
  <1>6. ASSUME NEW r \in Requests, NEW g \in Grants, NEW p \in Pages, UploadBegins(r, g, p)
        PROVE  UNCHANGED rows
    BY <1>6 DEF UploadBegins
  <1>7. ASSUME NEW r \in Requests, CommitUpload(r) \/ Enqueue(r)
        PROVE  NothingOfADeletedUser'
    BY <1>7 DEF CommitUpload, Enqueue, UserRowThere, NothingOfADeletedUser
  <1>8. ASSUME NEW r \in Requests, NEW q \in Deletions, RequestDeletion(r, q)
        PROVE  NothingOfADeletedUser'
    BY <1>8 DEF RequestDeletion, UserRowThere, NothingOfADeletedUser
  <1>9. ASSUME NEW r \in Requests, AbandonAccount(r)
        PROVE  UNCHANGED rows
    BY <1>9 DEF AbandonAccount
  <1>10. QED
    BY <1>1, <1>2, <1>3, <1>4, <1>5, <1>6, <1>7, <1>8, <1>9 DEF ANext

LEMMA DeleteAccountDeleted ==
  ASSUME GoogleTypeOK, NothingOfADeletedUser, NEW r \in Requests, DeleteAccount(r)
  PROVE  NothingOfADeletedUser'
  <1>1. CASE UserRowThere /\ WorkCancellable
    <2>1. /\ user' = Null
          /\ \A g \in Grants : grant'[g] = Null
          /\ \A p \in Pages : scan'[p] = Null
          /\ work' = "absent"
          /\ connection' = Null
          /\ \A s \in Authorizations : authorization'[s] = Null
      BY <1>1 DEF DeleteAccount, DeleteUser, UserRowThere
    <2>2. ASSUME NEW q \in Deletions, deletion'[q] # Null
          PROVE  ~deletion'[q].owned
      BY <1>1, <2>2 DEF DeleteAccount, DeleteUser
    <2>3. QED
      BY <2>1, <2>2 DEF NothingOfADeletedUser
  <1>2. CASE ~(UserRowThere /\ WorkCancellable)
    BY <1>2 DEF DeleteAccount, DeleteUser, NothingOfADeletedUser
  <1>3. QED
    BY <1>1, <1>2

LEMMA NextDeleted ==
  GoogleTypeOK /\ NothingOfADeletedUser /\ [GNext]_gvars => NothingOfADeletedUser'
  <1> SUFFICES ASSUME GoogleTypeOK, NothingOfADeletedUser, [GNext]_gvars
               PROVE  NothingOfADeletedUser'
    OBVIOUS
  <1>1. ASSUME UNCHANGED rows, UNCHANGED <<authorization, connection>> \/ user # Null
        PROVE  NothingOfADeletedUser'
    BY <1>1 DEF rows, NothingOfADeletedUser
  <1>2. CASE UNCHANGED gvars
    BY <1>1, <1>2 DEF gvars, avars
  <1>3. CASE ANext /\ UNCHANGED <<authorization, connection, exchanges>>
    BY <1>3, AccountDeleted
  <1>4. ASSUME NEW s \in Authorizations, Authorize(s) \/ AuthorizationExpires(s)
        PROVE  UNCHANGED rows /\ user # Null
    BY <1>4, AccountStatusAssumption, AuthorizationStatusAssumption
    DEF Authorize, AuthorizationExpires, Authorized, avars, NothingOfADeletedUser
  <1>5. ASSUME NEW r \in Requests, NEW s \in Authorizations, NEW refused \in BOOLEAN,
               Callback(r, s, refused)
        PROVE  UNCHANGED rows /\ user # Null
    BY <1>5, AccountStatusAssumption DEF Callback, Authorized
  <1>6. ASSUME NEW r \in Requests,
               \/ \E a \in GoogleAccounts, t \in GoogleAccounts \cup {Null} : Exchange(r, a, t)
               \/ SaveRead(r) \/ RefreshBegins(r) \/ RevokeAuthorization(r)
        PROVE  UNCHANGED <<rows, authorization, connection>>
    BY <1>6 DEF Exchange, SaveRead, RefreshBegins, RevokeAuthorization, rows
  <1>7. ASSUME NEW r \in Requests, Save(r) \/ RefreshRefused(r)
        PROVE  UNCHANGED rows /\ (UNCHANGED <<authorization, connection>> \/ user # Null)
    BY <1>7 DEF Save, RefreshRefused, Owned, UserRowThere, NothingOfADeletedUser
  <1>8. ASSUME NEW r \in Requests, Disconnect(r) \/ RequestSync(r)
        PROVE  UNCHANGED rows /\ user # Null
    BY <1>8, AccountStatusAssumption DEF Disconnect, RequestSync, Begin, Authorized
  <1>9. ASSUME NEW r \in Requests, ForgetStates(r)
        PROVE  NothingOfADeletedUser'
    BY <1>9 DEF ForgetStates, rows, NothingOfADeletedUser
  <1>10. ASSUME NEW reauth \in BOOLEAN, SyncFails(reauth)
         PROVE  UNCHANGED rows /\ user # Null
    BY <1>10 DEF SyncFails, avars, NothingOfADeletedUser
  <1>11. QED
    BY <1>1, <1>2, <1>3, <1>4, <1>5, <1>6, <1>7, <1>8, <1>9, <1>10, DeleteAccountDeleted DEF GNext

(* Once the user's row is gone nothing of theirs exists or comes back,      *)
(* whichever handlers and callbacks were half way when the deletion ran.    *)
THEOREM DeletionIsComplete == GSpec => []NothingOfADeletedUser
  BY InitDeleted, NextDeleted, GoogleTypeCorrect, PTL DEF GSpec

-----------------------------------------------------------------------------
(* Tables whose ids are never used twice.                                  *)

Table(Ids, Rows) == [Ids -> Rows \cup {Null, Gone}]

(* The ids a table has used so far, those of deleted rows included.         *)
Used(table) == {id \in DOMAIN table : table[id] # Null}

LEMMA StoredRows ==
  ASSUME NEW Ids, NEW Rows, NEW table \in Table(Ids, Rows)
  PROVE  /\ Stored(table) = {id \in Ids : table[id] \notin {Null, Gone}}
         /\ Used(table) = {id \in Ids : table[id] # Null}
         /\ \A id \in Stored(table) : table[id] \in Rows
  BY DEF Table, Stored, Used

Written(table, id, row) == [table EXCEPT ![id] = row]

LEMMA Inserted ==
  ASSUME NEW Ids, NEW Rows, NEW table \in Table(Ids, Rows), NEW id \in Ids, NEW row \in Rows,
         {Null, Gone} \cap Rows = {}, Fresh(table, id)
  PROVE  /\ Written(table, id, row) \in Table(Ids, Rows)
         /\ Written(table, id, row)[id] = row
         /\ \A j \in Ids \ {id} : Written(table, id, row)[j] = table[j]
         /\ id \notin Stored(table) /\ Stored(Written(table, id, row)) = Stored(table) \cup {id}
         /\ id \notin Used(table) /\ Used(Written(table, id, row)) = Used(table) \cup {id}
  BY DEF Written, Table, Fresh, Stored, Used

LEMMA Rewritten ==
  ASSUME NEW Ids, NEW Rows, NEW table \in Table(Ids, Rows), NEW id \in Stored(table),
         NEW row \in Rows, {Null, Gone} \cap Rows = {}
  PROVE  /\ Written(table, id, row) \in Table(Ids, Rows)
         /\ Written(table, id, row)[id] = row
         /\ \A j \in Ids \ {id} : Written(table, id, row)[j] = table[j]
         /\ Stored(Written(table, id, row)) = Stored(table)
         /\ Used(Written(table, id, row)) = Used(table)
  BY DEF Written, Table, Stored, Used

LEMMA Removing ==
  ASSUME NEW Ids, NEW Rows, NEW table \in Table(Ids, Rows), NEW ids, ids \subseteq Stored(table)
  PROVE  /\ Removed(table, ids) \in Table(Ids, Rows)
         /\ \A id \in Ids \ ids : Removed(table, ids)[id] = table[id]
         /\ Stored(Removed(table, ids)) = Stored(table) \ ids
         /\ Used(Removed(table, ids)) = Used(table)
  BY ResumeAssumption DEF Table, Removed, Stored, Used

(* What an insert does to the number of ids used.                           *)
LEMMA OneMoreUsed ==
  ASSUME NEW Ids, IsFiniteSet(Ids), NEW used \in SUBSET Ids, NEW id \in Ids, id \notin used
  PROVE  /\ Cardinality(used) \in Nat
         /\ Cardinality(used \cup {id}) = Cardinality(used) + 1
         /\ Cardinality(used) + 1 <= Cardinality(Ids)
         /\ Cardinality(Ids) \in Nat
  <1>1. IsFiniteSet(used) /\ IsFiniteSet(used \cup {id})
    BY FS_Subset
  <1>2. Cardinality(used \cup {id}) = Cardinality(used) + 1
    BY <1>1, FS_AddElement
  <1>3. used \cup {id} \in SUBSET Ids
    OBVIOUS
  <1>4. Cardinality(used \cup {id}) <= Cardinality(Ids)
    BY <1>3, FS_Subset
  <1>5. QED
    BY <1>1, <1>2, <1>4, FS_CardinalityType

-----------------------------------------------------------------------------
(* The types of the resume tables.                                         *)

(* Numbers and revisions are drawn no further than ids were.                *)
Numbered(table) == \A v \in Stored(table) : table[v].number <= Cardinality(Used(table))
Revised(table) == \A e \in Stored(table) : table[e].revision <= Cardinality(Used(table))

(* A row is reviewed before it is corrected, and each only once.            *)
ReviewedOnce(row) ==
  /\ row.status = "EXTRACTED" => row.review = 0 /\ ~row.superseded
  /\ ~row.superseded => row.review <= 1

VersionsOK(table) == table \in Table(Versions, VersionRow) /\ Numbered(table)
EvidenceOK(table) ==
  /\ table \in Table(Evidence, EvidenceRow)
  /\ Revised(table)
  /\ \A e \in Stored(table) : ReviewedOnce(table[e])
RequirementsOK ==
  \A o \in Opportunities : requirement[o] \in Seq(Inputs) /\ IsInjective(requirement[o])
MatchesOK == match \in Table(Matches, MatchRow)

TablesOK ==
  /\ document \in [Documents -> {"ABSENT", "READY", "DELETED"}]
  /\ VersionsOK(version) /\ EvidenceOK(evidence) /\ MatchesOK
  /\ requirement \in [Opportunities -> Seq(Inputs)] /\ RequirementsOK
  /\ bound \in [Applicants -> [version : Versions, match : Matches] \cup {Null}]
  /\ resuming \in [Requests -> ResumeHandler]

LEMMA TablesTyped == TablesOK => ResumeTypeOK
  BY DEF TablesOK, VersionsOK, EvidenceOK, MatchesOK, RequirementsOK, Table, ResumeTypeOK

LEMMA RowsAreRows ==
  /\ {Null, Gone} \cap VersionRow = {}
  /\ {Null, Gone} \cap EvidenceRow = {}
  /\ {Null, Gone} \cap MatchRow = {}
  BY ResumeRowAssumption

LEMMA InitTables == RInit => TablesOK
  <1> SUFFICES ASSUME RInit PROVE TablesOK
    OBVIOUS
  <1>1. Stored(version) = {} /\ Stored(evidence) = {}
    BY DEF RInit, Stored
  <1>2. VersionsOK(version) /\ EvidenceOK(evidence) /\ MatchesOK
    BY <1>1 DEF RInit, VersionsOK, EvidenceOK, MatchesOK, Table, Numbered, Revised
  <1>3. <<>> \in Seq(Inputs) /\ IsInjective(<<>>)
    BY DEF IsInjective
  <1>4. Idle \in ResumeHandler
    BY DEF ResumeHandler
  <1>5. QED
    BY <1>2, <1>3, <1>4 DEF RInit, TablesOK, RequirementsOK

LEMMA NextNumberFits ==
  ASSUME VersionsOK(version), NEW d \in Documents
  PROVE  NextNumber(d) \in 1..(Cardinality(Used(version)) + 1)
  <1>1. Used(version) \in SUBSET Versions
    BY StoredRows DEF VersionsOK
  <1>2. IsFiniteSet(Used(version))
    BY <1>1, ResumeIdAssumption, FS_Subset
  <1>3. Cardinality(Used(version)) \in Nat
    BY <1>2, FS_CardinalityType
  <1>4. \A v \in Stored(version) : version[v].number \in 0..Cardinality(Used(version))
    <2>1. \A v \in Stored(version) : version[v].number \in Nat
      <3>1. \A v \in Stored(version) : version[v] \in VersionRow
        BY StoredRows DEF VersionsOK
      <3>2. QED
        BY <3>1, ResumeIdAssumption, FS_CardinalityType DEF VersionRow
    <2>2. QED
      BY <1>3, <2>1 DEF VersionsOK, Numbered
  <1>5. {version[v].number : v \in VersionsOf(d)} \subseteq 0..Cardinality(Used(version))
    BY <1>4 DEF VersionsOf
  <1>6. QED
    BY <1>3, <1>5, NextAfterMax DEF NextNumber, LastNumber

LEMMA NextRevisionFits ==
  ASSUME EvidenceOK(evidence), NEW e \in Evidence
  PROVE  NextRevision(e) \in 1..(Cardinality(Used(evidence)) + 1)
  <1>1. Used(evidence) \in SUBSET Evidence
    BY StoredRows DEF EvidenceOK
  <1>2. IsFiniteSet(Used(evidence))
    BY <1>1, ResumeIdAssumption, FS_Subset
  <1>3. Cardinality(Used(evidence)) \in Nat
    BY <1>2, FS_CardinalityType
  <1>4. \A f \in Stored(evidence) : evidence[f].revision \in 0..Cardinality(Used(evidence))
    <2>1. \A f \in Stored(evidence) : evidence[f].revision \in Nat
      <3>1. \A f \in Stored(evidence) : evidence[f] \in EvidenceRow
        BY StoredRows DEF EvidenceOK
      <3>2. QED
        BY <3>1, ResumeIdAssumption, FS_CardinalityType DEF EvidenceRow
    <2>2. QED
      BY <1>3, <2>1 DEF EvidenceOK, Revised
  <1>5. Revisions(e) \subseteq 0..Cardinality(Used(evidence))
    BY <1>4 DEF Revisions
  <1>6. QED
    BY <1>3, <1>5, NextAfterMax DEF NextRevision


LEMMA UsedFinite ==
  ASSUME NEW Ids, IsFiniteSet(Ids), NEW Rows, NEW table \in Table(Ids, Rows)
  PROVE  Used(table) \in SUBSET Ids /\ Cardinality(Used(table)) \in Nat
  <1>1. Used(table) \in SUBSET Ids
    BY StoredRows
  <1>2. QED
    BY <1>1, FS_Subset, FS_CardinalityType

LEMMA VersionInserted ==
  ASSUME NEW table, VersionsOK(table), NEW v \in Versions, Fresh(table, v), NEW d \in Documents,
         NEW n \in 1..(Cardinality(Used(table)) + 1),
         NEW row, row = [doc |-> d, number |-> n]
  PROVE  VersionsOK(Written(table, v, row))
  <1> DEFINE t == Written(table, v, row)
  <1>1. table \in Table(Versions, VersionRow)
    BY DEF VersionsOK
  <1>2. Cardinality(Used(table)) \in Nat /\ Used(table) \in SUBSET Versions /\ v \notin Used(table)
    BY <1>1, StoredRows, UsedFinite, ResumeIdAssumption DEF Fresh
  <1>3. /\ Cardinality(Used(table) \cup {v}) = Cardinality(Used(table)) + 1
        /\ Cardinality(Used(table)) + 1 <= Cardinality(Versions)
        /\ Cardinality(Versions) \in Nat
    BY <1>2, OneMoreUsed, ResumeIdAssumption
  <1>4. row \in VersionRow
    BY <1>2, <1>3 DEF VersionRow
  <1>5. row.number = n
    OBVIOUS
  <1>6. {Null, Gone} \cap VersionRow = {}
    BY RowsAreRows
  <1>7. /\ t \in Table(Versions, VersionRow)
        /\ t[v] = row /\ \A u \in Versions \ {v} : t[u] = table[u]
        /\ v \notin Stored(table) /\ Stored(t) = Stored(table) \cup {v}
        /\ Used(t) = Used(table) \cup {v}
    BY <1>1, <1>4, <1>6, Inserted
  <1> HIDE DEF t
  <1>8. \A u \in Stored(table) : u \in Versions /\ table[u].number <= Cardinality(Used(table))
                                 /\ table[u].number \in Nat
    <2>1. \A u \in Stored(table) : u \in Versions /\ table[u] \in VersionRow
      BY <1>1, StoredRows
    <2>2. QED
      BY <1>3, <2>1 DEF VersionsOK, Numbered, VersionRow
  <1>9. Cardinality(Used(t)) = Cardinality(Used(table)) + 1
    BY <1>3, <1>7
  <1>10. \A u \in Stored(t) : t[u].number <= Cardinality(Used(t))
    BY <1>2, <1>5, <1>7, <1>8, <1>9
  <1>11. VersionsOK(t)
    BY <1>7, <1>10 DEF VersionsOK, Numbered
  <1>12. QED
    BY <1>11 DEF t

LEMMA EvidenceInserted ==
  ASSUME NEW table, EvidenceOK(table), NEW e \in Evidence, Fresh(table, e),
         NEW row \in EvidenceRow, row.revision <= Cardinality(Used(table)) + 1, ReviewedOnce(row)
  PROVE  EvidenceOK(Written(table, e, row))
  <1> DEFINE t == Written(table, e, row)
  <1>1. table \in Table(Evidence, EvidenceRow)
    BY DEF EvidenceOK
  <1>2. Cardinality(Used(table)) \in Nat /\ Used(table) \in SUBSET Evidence /\ e \notin Used(table)
    BY <1>1, StoredRows, UsedFinite, ResumeIdAssumption DEF Fresh
  <1>3. /\ Cardinality(Used(table) \cup {e}) = Cardinality(Used(table)) + 1
        /\ Cardinality(Evidence) \in Nat
    BY <1>2, OneMoreUsed, ResumeIdAssumption
  <1>4. {Null, Gone} \cap EvidenceRow = {}
    BY RowsAreRows
  <1>5. /\ t \in Table(Evidence, EvidenceRow)
        /\ t[e] = row /\ \A f \in Evidence \ {e} : t[f] = table[f]
        /\ e \notin Stored(table) /\ Stored(t) = Stored(table) \cup {e}
        /\ Used(t) = Used(table) \cup {e}
    BY <1>1, <1>4, Inserted
  <1> HIDE DEF t
  <1>6. \A f \in Stored(table) : f \in Evidence /\ table[f].revision <= Cardinality(Used(table))
                                 /\ table[f].revision \in Nat
    <2>1. \A f \in Stored(table) : f \in Evidence /\ table[f] \in EvidenceRow
      BY <1>1, StoredRows
    <2>2. QED
      BY <1>3, <2>1 DEF EvidenceOK, Revised, EvidenceRow
  <1>7. Cardinality(Used(t)) = Cardinality(Used(table)) + 1
    BY <1>3, <1>5
  <1>8. \A f \in Stored(t) : t[f].revision <= Cardinality(Used(t))
    BY <1>2, <1>5, <1>6, <1>7
  <1>9. \A f \in Stored(t) : ReviewedOnce(t[f])
    BY <1>5, <1>6 DEF EvidenceOK
  <1>10. EvidenceOK(t)
    BY <1>5, <1>8, <1>9 DEF EvidenceOK, Revised
  <1>11. QED
    BY <1>10 DEF t

LEMMA EvidenceRewritten ==
  ASSUME NEW table, EvidenceOK(table), NEW e \in Stored(table),
         NEW row \in EvidenceRow, row.revision = table[e].revision, ReviewedOnce(row)
  PROVE  EvidenceOK(Written(table, e, row))
  <1> DEFINE t == Written(table, e, row)
  <1>1. table \in Table(Evidence, EvidenceRow) /\ Stored(table) \subseteq Evidence
    BY StoredRows DEF EvidenceOK
  <1>2. {Null, Gone} \cap EvidenceRow = {}
    BY RowsAreRows
  <1>3. /\ t \in Table(Evidence, EvidenceRow)
        /\ t[e] = row /\ \A f \in Evidence \ {e} : t[f] = table[f]
        /\ Stored(t) = Stored(table) /\ Used(t) = Used(table)
    BY <1>1, <1>2, Rewritten
  <1> HIDE DEF t
  <1>4. Revised(t) /\ \A f \in Stored(t) : ReviewedOnce(t[f])
    BY <1>1, <1>3 DEF EvidenceOK, Revised
  <1>5. EvidenceOK(t)
    BY <1>3, <1>4 DEF EvidenceOK
  <1>6. QED
    BY <1>5 DEF t

LEMMA VersionsRemoved ==
  ASSUME NEW ids \in SUBSET Stored(version), VersionsOK(version)
  PROVE  VersionsOK(Removed(version, ids))
  <1>1. version \in Table(Versions, VersionRow)
    BY DEF VersionsOK
  <1>2. Stored(version) \subseteq Versions
    BY <1>1, StoredRows
  <1>3. QED
    BY <1>1, <1>2, Removing DEF VersionsOK, Numbered

LEMMA EvidenceRemoved ==
  ASSUME NEW ids \in SUBSET Stored(evidence), EvidenceOK(evidence)
  PROVE  EvidenceOK(Removed(evidence, ids))
  <1>1. evidence \in Table(Evidence, EvidenceRow)
    BY DEF EvidenceOK
  <1>2. Stored(evidence) \subseteq Evidence
    BY <1>1, StoredRows
  <1>3. QED
    BY <1>1, <1>2, Removing DEF EvidenceOK, Revised


(* What reviewResumeEvidence and correctResumeEvidence make of a row.       *)
Judged(row, disposition) == [row EXCEPT !.status = disposition, !.review = @ + 1]
Replaced(row) == [row EXCEPT !.status = "SUPERSEDED", !.review = @ + 1, !.superseded = TRUE]

LEMMA JudgedRows ==
  ASSUME NEW row \in EvidenceRow, ReviewedOnce(row)
  PROVE  /\ \A disposition \in {"CONFIRMED", "REJECTED"} : row.status = "EXTRACTED" =>
              /\ Judged(row, disposition) \in EvidenceRow
              /\ Judged(row, disposition).revision = row.revision
              /\ Judged(row, disposition).version = row.version
              /\ ReviewedOnce(Judged(row, disposition))
         /\ ~row.superseded =>
              /\ Replaced(row) \in EvidenceRow
              /\ Replaced(row).revision = row.revision
              /\ Replaced(row).version = row.version
              /\ ReviewedOnce(Replaced(row))
  <1>1. row.review \in 0..2 /\ row.superseded \in BOOLEAN
    BY DEF EvidenceRow
  <1>2. ASSUME NEW disposition \in {"CONFIRMED", "REJECTED"}, row.status = "EXTRACTED"
        PROVE  /\ Judged(row, disposition) \in EvidenceRow
               /\ Judged(row, disposition).revision = row.revision
               /\ Judged(row, disposition).version = row.version
               /\ ReviewedOnce(Judged(row, disposition))
    <2>1. row.review + 1 \in 0..2 /\ row.review + 1 <= 1 /\ disposition \in Review
      BY <1>1, <1>2 DEF ReviewedOnce, Review
    <2>2. /\ Judged(row, disposition).revision = row.revision
          /\ Judged(row, disposition).version = row.version
          /\ Judged(row, disposition).status = disposition
          /\ Judged(row, disposition).review = row.review + 1
          /\ Judged(row, disposition).superseded = row.superseded
      BY DEF Judged, EvidenceRow
    <2>3. Judged(row, disposition) \in EvidenceRow
      BY <2>1 DEF Judged, EvidenceRow
    <2>4. QED
      BY <1>1, <2>1, <2>2, <2>3 DEF ReviewedOnce
  <1>3. ASSUME ~row.superseded
        PROVE  /\ Replaced(row) \in EvidenceRow
               /\ Replaced(row).revision = row.revision
               /\ Replaced(row).version = row.version
               /\ ReviewedOnce(Replaced(row))
    <2>1. row.review + 1 \in 0..2 /\ "SUPERSEDED" \in Review
      BY <1>1, <1>3 DEF ReviewedOnce, Review
    <2>2. /\ Replaced(row).revision = row.revision
          /\ Replaced(row).version = row.version
          /\ Replaced(row).status = "SUPERSEDED"
          /\ Replaced(row).superseded = TRUE
      BY DEF Replaced, EvidenceRow
    <2>3. Replaced(row) \in EvidenceRow
      BY <2>1 DEF Replaced, EvidenceRow
    <2>4. QED
      BY <2>2, <2>3 DEF ReviewedOnce
  <1>4. QED
    BY <1>2, <1>3

Reviewed(table, e, disposition) ==
  [table EXCEPT ![e].status = disposition, ![e].review = @ + 1]

Superseding(table, e, f, row) ==
  [table EXCEPT ![f] = row, ![e].status = "SUPERSEDED", ![e].review = @ + 1,
                ![e].superseded = TRUE]

LEMMA ReviewWrites ==
  ASSUME NEW table \in Table(Evidence, EvidenceRow), NEW e \in Stored(table), NEW disposition
  PROVE  Reviewed(table, e, disposition) = Written(table, e, Judged(table[e], disposition))
  BY DEF Reviewed, Judged, Written, Table, Stored

LEMMA CorrectionWrites ==
  ASSUME NEW table \in Table(Evidence, EvidenceRow), NEW e \in Stored(table),
         NEW f \in Evidence, Fresh(table, f), NEW row
  PROVE  Superseding(table, e, f, row) = Written(Written(table, e, Replaced(table[e])), f, row)
  <1> DEFINE before == Superseding(table, e, f, row)
             after == Written(Written(table, e, Replaced(table[e])), f, row)
  <1>1. e \in Evidence /\ e # f /\ DOMAIN table = Evidence
    BY DEF Table, Stored, Fresh
  <1>2. before = [x \in DOMAIN before |-> before[x]] /\ DOMAIN before = Evidence
    BY <1>1 DEF Superseding
  <1>3. after = [x \in DOMAIN after |-> after[x]] /\ DOMAIN after = Evidence
    BY <1>1 DEF Written
  <1>4. before[f] = row /\ after[f] = row
    BY <1>1 DEF Superseding, Written
  <1>5. before[e] = Replaced(table[e])
    BY <1>1 DEF Superseding, Replaced
  <1>6. after[e] = Replaced(table[e])
    BY <1>1 DEF Written
  <1>7. \A x \in Evidence \ {e, f} : before[x] = table[x] /\ after[x] = table[x]
    BY <1>1 DEF Superseding, Written
  <1> HIDE DEF before, after
  <1>8. before = after
    BY <1>2, <1>3, <1>4, <1>5, <1>6, <1>7
  <1>9. QED
    BY <1>8 DEF before, after

-----------------------------------------------------------------------------
(* The steps on documents, versions and evidence keep the tables' types.    *)

LEMMA CreateVersionTables ==
  ASSUME TablesOK, NEW d \in Documents, NEW v \in Versions, NEW e \in Evidence,
         CreateVersion(d, v, e)
  PROVE  VersionsOK(version') /\ EvidenceOK(evidence')
  <1>1. VersionsOK(version')
    <2>1. version' = Written(version, v, [doc |-> d, number |-> NextNumber(d)])
      BY DEF CreateVersion, Written
    <2>2. VersionsOK(version) /\ Fresh(version, v)
      BY DEF TablesOK, CreateVersion
    <2>3. QED
      BY <2>1, <2>2, NextNumberFits, VersionInserted
  <1>2. EvidenceOK(evidence')
    <2>1. EvidenceOK(evidence)
      BY DEF TablesOK
    <2>2. CASE UNCHANGED evidence
      BY <2>1, <2>2
    <2>3. CASE evidence' # evidence
      <3> DEFINE row == [version |-> v, skill |-> TRUE, status |-> "EXTRACTED", review |-> 0,
                         revision |-> 1, parent |-> Null, superseded |-> FALSE]
      <3>1. Fresh(evidence, e) /\ evidence' = Written(evidence, e, row)
        BY <2>3 DEF CreateVersion, Written
      <3>2. Cardinality(Used(evidence)) \in Nat /\ 1 \in 1..Cardinality(Evidence)
        <4>1. e \notin Used(evidence) /\ Used(evidence) \in SUBSET Evidence
          BY <2>1, <3>1, UsedFinite, ResumeIdAssumption DEF EvidenceOK, Fresh, Used
        <4>2. /\ Cardinality(Used(evidence)) \in Nat /\ Cardinality(Evidence) \in Nat
              /\ Cardinality(Used(evidence)) + 1 <= Cardinality(Evidence)
          BY <4>1, OneMoreUsed, ResumeIdAssumption
        <4>3. QED
          BY <4>2
      <3>3. row \in EvidenceRow
        BY <3>2 DEF EvidenceRow, Review
      <3>4. row.revision = 1 /\ ReviewedOnce(row)
        BY DEF ReviewedOnce
      <3> HIDE DEF row
      <3>5. row.revision <= Cardinality(Used(evidence)) + 1
        BY <3>2, <3>4
      <3>6. QED
        BY <2>1, <3>1, <3>3, <3>4, <3>5, EvidenceInserted
    <2>4. QED
      BY <2>2, <2>3
  <1>3. QED
    BY <1>1, <1>2

LEMMA ReviewEvidenceTables ==
  ASSUME TablesOK, NEW e \in Evidence, NEW disposition \in {"CONFIRMED", "REJECTED"},
         ReviewEvidence(e, disposition)
  PROVE  /\ EvidenceOK(evidence')
         /\ evidence' = Written(evidence, e, Judged(evidence[e], disposition))
  <1>1. EvidenceOK(evidence) /\ evidence \in Table(Evidence, EvidenceRow)
    BY DEF TablesOK, EvidenceOK
  <1>2. e \in Stored(evidence) /\ evidence[e].status = "EXTRACTED"
    BY DEF ReviewEvidence
  <1>3. evidence[e] \in EvidenceRow /\ ReviewedOnce(evidence[e])
    BY <1>1, <1>2, StoredRows DEF EvidenceOK
  <1>4. evidence' = Written(evidence, e, Judged(evidence[e], disposition))
    <2>1. evidence' = Reviewed(evidence, e, disposition)
      BY DEF ReviewEvidence, Reviewed
    <2>2. QED
      BY <1>1, <1>2, <2>1, ReviewWrites
  <1>5. QED
    BY <1>1, <1>2, <1>3, <1>4, JudgedRows, EvidenceRewritten

LEMMA CorrectEvidenceTables ==
  ASSUME TablesOK, NEW e \in Evidence, NEW f \in Evidence, NEW skill \in BOOLEAN,
         CorrectEvidence(e, f, skill)
  PROVE  /\ EvidenceOK(evidence')
         /\ \E row \in EvidenceRow :
              /\ row.version = evidence[e].version
              /\ evidence' = Written(Written(evidence, e, Replaced(evidence[e])), f, row)
  <1>1. EvidenceOK(evidence) /\ evidence \in Table(Evidence, EvidenceRow)
    BY DEF TablesOK, EvidenceOK
  <1>2. e \in Stored(evidence) /\ ~evidence[e].superseded /\ Fresh(evidence, f)
    BY DEF CorrectEvidence, Correctable
  <1>3. evidence[e] \in EvidenceRow /\ ReviewedOnce(evidence[e])
    BY <1>1, <1>2, StoredRows DEF EvidenceOK
  <1> DEFINE replaced == Written(evidence, e, Replaced(evidence[e]))
             row == [version |-> evidence[e].version, skill |-> skill, status |-> "CONFIRMED",
                     review |-> 0, revision |-> NextRevision(e), parent |-> e,
                     superseded |-> FALSE]
  <1>4. evidence' = Written(replaced, f, row)
    <2>1. evidence' = Superseding(evidence, e, f, row)
      BY DEF CorrectEvidence, Superseding
    <2> HIDE DEF row
    <2>2. QED
      BY <1>1, <1>2, <2>1, CorrectionWrites
  <1>5. EvidenceOK(replaced)
    BY <1>1, <1>2, <1>3, JudgedRows, EvidenceRewritten
  <1>6. Fresh(replaced, f) /\ Used(replaced) = Used(evidence) /\ f \notin Used(evidence)
    <2>1. {Null, Gone} \cap EvidenceRow = {} /\ Replaced(evidence[e]) \in EvidenceRow
      BY <1>2, <1>3, RowsAreRows, JudgedRows
    <2>2. f # e /\ f \notin Used(evidence)
      BY <1>2 DEF Fresh, Stored, Used
    <2>3. replaced[f] = evidence[f] /\ Used(replaced) = Used(evidence)
      BY <1>1, <1>2, <2>1, <2>2, Rewritten
    <2>4. QED
      BY <1>2, <2>2, <2>3 DEF Fresh
  <1>7. /\ Cardinality(Used(evidence)) \in Nat
        /\ NextRevision(e) \in 1..(Cardinality(Used(evidence)) + 1)
        /\ NextRevision(e) \in 1..Cardinality(Evidence)
    <2>1. Used(evidence) \in SUBSET Evidence
      BY <1>1, UsedFinite, ResumeIdAssumption
    <2>2. /\ Cardinality(Used(evidence)) + 1 <= Cardinality(Evidence)
          /\ Cardinality(Used(evidence)) \in Nat /\ Cardinality(Evidence) \in Nat
      BY <1>6, <2>1, OneMoreUsed, ResumeIdAssumption
    <2>3. QED
      BY <1>1, <2>2, NextRevisionFits
  <1>8. row \in EvidenceRow
    BY <1>3, <1>7 DEF EvidenceRow, Review
  <1>9. row.revision = NextRevision(e) /\ row.version = evidence[e].version /\ ReviewedOnce(row)
    BY DEF ReviewedOnce
  <1> HIDE DEF replaced, row
  <1>10. EvidenceOK(Written(replaced, f, row))
    BY <1>5, <1>6, <1>7, <1>8, <1>9, EvidenceInserted
  <1>11. QED
    BY <1>4, <1>8, <1>9, <1>10 DEF replaced


LEMMA VersionsOfStored ==
  ASSUME TablesOK
  PROVE  /\ Stored(version) \subseteq Versions
         /\ Stored(evidence) \subseteq Evidence
         /\ Stored(match) \subseteq Matches
         /\ \A d \in Documents : VersionsOf(d) \subseteq Stored(version)
         /\ \A d \in Documents :
              UNION {EvidenceOf(v) : v \in VersionsOf(d)} \in SUBSET Stored(evidence)
         /\ \A d \in Documents : UNION {MatchesOf(v) : v \in VersionsOf(d)} \in SUBSET Stored(match)
  <1>1. /\ version \in Table(Versions, VersionRow)
        /\ evidence \in Table(Evidence, EvidenceRow)
        /\ match \in Table(Matches, MatchRow)
    BY DEF TablesOK, VersionsOK, EvidenceOK, MatchesOK
  <1>2. /\ Stored(version) \subseteq Versions
        /\ Stored(evidence) \subseteq Evidence
        /\ Stored(match) \subseteq Matches
    BY <1>1, StoredRows
  <1>3. QED
    BY <1>2 DEF VersionsOf, EvidenceOf, MatchesOf

LEMMA DeleteDocumentTables ==
  ASSUME TablesOK, NEW d \in Documents, DeleteDocument(d)
  PROVE  VersionsOK(version') /\ EvidenceOK(evidence') /\ MatchesOK'
  <1>1. VersionsOK(version')
    <2>1. version' = Removed(version, VersionsOf(d)) /\ VersionsOf(d) \in SUBSET Stored(version)
      BY VersionsOfStored DEF DeleteDocument
    <2>2. QED
      BY <2>1, VersionsRemoved DEF TablesOK
  <1>2. EvidenceOK(evidence')
    <2>1. \E ids \in SUBSET Stored(evidence) : evidence' = Removed(evidence, ids)
      BY VersionsOfStored DEF DeleteDocument
    <2>2. QED
      BY <2>1, EvidenceRemoved DEF TablesOK
  <1>3. MatchesOK'
    <2>1. \E ids \in SUBSET Stored(match) : match' = Removed(match, ids)
      BY VersionsOfStored DEF DeleteDocument
    <2>2. QED
      BY <2>1, Removing DEF TablesOK, MatchesOK
  <1>4. QED
    BY <1>1, <1>2, <1>3

LEMMA ResumeHandlers ==
  ASSUME NEW h \in ResumeHandler
  PROVE  /\ h.op = "MATCH" => h.input \in Inputs /\ h.match \in MatchRow
         /\ h.op = "BIND" => h.app \in Applicants /\ h.version \in Versions /\ h.match \in Matches
  BY DEF ResumeHandler, Idle

LEMMA ResumeHandlerValues ==
  /\ Idle \in ResumeHandler
  /\ \A input \in Inputs, row \in MatchRow :
       [op |-> "MATCH", input |-> input, match |-> row] \in ResumeHandler
  /\ \A a \in Applicants, v \in Versions, m \in Matches :
       [op |-> "BIND", app |-> a, version |-> v, match |-> m] \in ResumeHandler
  BY DEF ResumeHandler

-----------------------------------------------------------------------------
(* The sets of requirements of an opportunity: each input once, so no more  *)
(* than two.                                                                *)

LEMMA WithSetOnce ==
  ASSUME RequirementsOK, NEW o \in Opportunities, NEW input \in Inputs
  PROVE  /\ WithSet(o, input) \in Seq(Inputs)
         /\ IsInjective(WithSet(o, input))
         /\ SetOf(o, input) \in 1..2
  <1> DEFINE known == requirement[o]
             sets == WithSet(o, input)
  <1>1. known \in Seq(Inputs) /\ IsInjective(known)
    BY DEF RequirementsOK
  <1>2. ASSUME input \in Range(known)
        PROVE  /\ sets \in Seq(Inputs) /\ IsInjective(sets)
               /\ \E i \in DOMAIN sets : sets[i] = input
    <2>1. sets = known
      BY <1>2 DEF WithSet
    <2>2. \E i \in DOMAIN sets : sets[i] = input
      BY <1>2, <2>1 DEF Range
    <2>3. QED
      BY <1>1, <2>1, <2>2
  <1>3. ASSUME input \notin Range(known)
        PROVE  /\ sets \in Seq(Inputs) /\ IsInjective(sets)
               /\ \E i \in DOMAIN sets : sets[i] = input
    <2>1. sets = Append(known, input)
      BY <1>3 DEF WithSet
    <2>2. /\ sets \in Seq(Inputs)
          /\ Len(sets) = Len(known) + 1
          /\ sets[Len(known) + 1] = input
          /\ \A i \in 1..Len(known) : sets[i] = known[i]
      BY <1>1, <2>1
    <2>3. \A i \in 1..Len(known) : known[i] # input
      BY <1>1, <1>3 DEF Range
    <2>4. IsInjective(sets)
      BY <1>1, <2>2, <2>3 DEF IsInjective
    <2>5. \E i \in DOMAIN sets : sets[i] = input
      BY <1>1, <2>2
    <2>6. QED
      BY <2>2, <2>4, <2>5
  <1>4. sets \in Seq(Inputs) /\ IsInjective(sets)
    BY <1>2, <1>3
  <1>5. \E i \in DOMAIN sets : sets[i] = input
    BY <1>2, <1>3
  <1> HIDE DEF sets
  <1>6. Len(sets) <= 2
    BY <1>4 DEF IsInjective, Inputs
  <1>7. (CHOOSE i \in DOMAIN sets : sets[i] = input) \in DOMAIN sets
    BY <1>5
  <1>8. SetOf(o, input) \in 1..2
    BY <1>4, <1>6, <1>7 DEF sets, SetOf
  <1>9. QED
    BY <1>4, <1>8 DEF sets


LEMMA RequirementsKept ==
  ASSUME TablesOK, NEW o \in Opportunities, NEW input \in Inputs,
         requirement' = [requirement EXCEPT ![o] = WithSet(o, input)]
  PROVE  requirement' \in [Opportunities -> Seq(Inputs)] /\ RequirementsOK'
  <1>1. requirement \in [Opportunities -> Seq(Inputs)] /\ RequirementsOK
    BY DEF TablesOK
  <1>2. WithSet(o, input) \in Seq(Inputs) /\ IsInjective(WithSet(o, input))
    BY <1>1, WithSetOnce
  <1>3. \A p \in Opportunities : requirement'[p] = IF p = o THEN WithSet(o, input) ELSE requirement[p]
    BY <1>1
  <1>4. requirement' \in [Opportunities -> Seq(Inputs)]
    BY <1>1, <1>2
  <1>5. QED
    BY <1>1, <1>2, <1>3, <1>4 DEF RequirementsOK

(* What a request remembers of the resume, the opportunity and the evidence *)
(* it computes a match from.                                                *)
MatchCall(v, o, input, cites) ==
  [version |-> v, opp |-> o, set |-> SetOf(o, input), cites |-> cites,
   basis |-> {<<e, evidence[e].review>> : e \in Usable(v)}]

LEMMA MatchReadTables ==
  ASSUME TablesOK, NEW r \in Requests, NEW v \in Versions, NEW o \in Opportunities,
         NEW input \in Inputs, MatchRead(r, v, o, input)
  PROVE  \E cites \in Usable(v) \cup {Null} :
           /\ MatchCall(v, o, input, cites) \in MatchRow
           /\ resuming' = [resuming EXCEPT ![r] =
                [op |-> "MATCH", input |-> input, match |-> MatchCall(v, o, input, cites)]]
  <1>1. PICK cites \in Usable(v) \cup {Null} :
          resuming' = [resuming EXCEPT ![r] =
            [op |-> "MATCH", input |-> input, match |-> MatchCall(v, o, input, cites)]]
    BY DEF MatchRead, MatchCall
  <1>2. Usable(v) \subseteq Evidence /\ \A e \in Usable(v) : evidence[e].review \in 0..2
    <2>1. Usable(v) \subseteq Stored(evidence)
      BY DEF Usable, EvidenceOf
    <2>2. \A e \in Stored(evidence) : e \in Evidence /\ evidence[e] \in EvidenceRow
      BY StoredRows DEF TablesOK, EvidenceOK
    <2>3. QED
      BY <2>1, <2>2 DEF EvidenceRow
  <1>3. {<<e, evidence[e].review>> : e \in Usable(v)} \in Basis
    BY <1>2 DEF Basis
  <1>4. SetOf(o, input) \in 1..2
    BY WithSetOnce DEF TablesOK
  <1>5. MatchCall(v, o, input, cites) \in MatchRow
    BY <1>1, <1>2, <1>3, <1>4 DEF MatchCall, MatchRow
  <1>6. QED
    BY <1>1, <1>5

LEMMA MatchTables ==
  ASSUME TablesOK, NEW r \in Requests, NEW m \in Matches, MatchCommit(r, m)
  PROVE  /\ resuming[r].match \in MatchRow /\ resuming[r].match.version \in Stored(version)
         /\ requirement' \in [Opportunities -> Seq(Inputs)] /\ RequirementsOK'
         /\ UNCHANGED match \/ (Fresh(match, m) /\ match' = Written(match, m, resuming[r].match))
         /\ MatchesOK'
         /\ resuming' = [resuming EXCEPT ![r] = Idle]
         /\ UNCHANGED <<document, version, evidence, bound>>
  <1>1. resuming[r].input \in Inputs /\ resuming[r].match \in MatchRow
    BY ResumeHandlers DEF TablesOK, MatchCommit
  <1>2. resuming[r].match.opp \in Opportunities
    BY <1>1 DEF MatchRow
  <1>3. requirement' = [requirement EXCEPT
          ![resuming[r].match.opp] = WithSet(resuming[r].match.opp, resuming[r].input)]
    BY DEF MatchCommit
  <1>4. requirement' \in [Opportunities -> Seq(Inputs)] /\ RequirementsOK'
    BY <1>1, <1>2, <1>3, RequirementsKept
  <1>5. UNCHANGED match \/ (Fresh(match, m) /\ match' = Written(match, m, resuming[r].match))
    BY DEF MatchCommit, Written
  <1>6. MatchesOK'
    <2>1. {Null, Gone} \cap MatchRow = {} /\ match \in Table(Matches, MatchRow)
      BY RowsAreRows DEF TablesOK, MatchesOK
    <2>2. QED
      BY <1>1, <1>5, <2>1, Inserted DEF MatchesOK
  <1>7. QED
    BY <1>1, <1>4, <1>5, <1>6 DEF MatchCommit

LEMMA NextTables == TablesOK /\ [RNext]_rvars => TablesOK'
  <1> SUFFICES ASSUME TablesOK, [RNext]_rvars PROVE TablesOK'
    OBVIOUS
  <1>1. /\ document \in [Documents -> {"ABSENT", "READY", "DELETED"}]
        /\ VersionsOK(version) /\ EvidenceOK(evidence) /\ MatchesOK
        /\ requirement \in [Opportunities -> Seq(Inputs)] /\ RequirementsOK
        /\ bound \in [Applicants -> [version : Versions, match : Matches] \cup {Null}]
        /\ resuming \in [Requests -> ResumeHandler]
    BY DEF TablesOK
  <1>2. /\ UNCHANGED match => MatchesOK'
        /\ UNCHANGED requirement => RequirementsOK'
    BY <1>1 DEF MatchesOK, RequirementsOK
  <1>3. CASE UNCHANGED rvars
    BY <1>1, <1>2, <1>3 DEF rvars, TablesOK
  <1>4. ASSUME NEW d \in Documents, Upload(d) PROVE TablesOK'
    BY <1>1, <1>2, <1>4 DEF Upload, TablesOK
  <1>5. ASSUME NEW d \in Documents, DeleteDocument(d) PROVE TablesOK'
    <2>1. VersionsOK(version') /\ EvidenceOK(evidence') /\ MatchesOK'
      BY <1>5, DeleteDocumentTables
    <2>2. document' \in [Documents -> {"ABSENT", "READY", "DELETED"}]
      BY <1>1, <1>5 DEF DeleteDocument
    <2>3. UNCHANGED <<requirement, bound, resuming>>
      BY <1>5 DEF DeleteDocument
    <2>4. QED
      BY <1>1, <1>2, <2>1, <2>2, <2>3 DEF TablesOK
  <1>6. ASSUME NEW d \in Documents, NEW v \in Versions, NEW e \in Evidence, CreateVersion(d, v, e)
        PROVE  TablesOK'
    <2>1. VersionsOK(version') /\ EvidenceOK(evidence')
      BY <1>6, CreateVersionTables
    <2>2. UNCHANGED <<document, requirement, match, bound, resuming>>
      BY <1>6 DEF CreateVersion
    <2>3. QED
      BY <1>1, <1>2, <2>1, <2>2 DEF TablesOK
  <1>7. ASSUME EvidenceOK(evidence'),
               UNCHANGED <<document, version, requirement, match, bound, resuming>>
        PROVE  TablesOK'
    BY <1>1, <1>2, <1>7 DEF TablesOK
  <1>8. ASSUME NEW e \in Evidence, NEW disposition \in {"CONFIRMED", "REJECTED"},
               ReviewEvidence(e, disposition)
        PROVE  TablesOK'
    BY <1>7, <1>8, ReviewEvidenceTables DEF ReviewEvidence
  <1>9. ASSUME NEW e \in Evidence, NEW f \in Evidence, NEW skill \in BOOLEAN,
               CorrectEvidence(e, f, skill)
        PROVE  TablesOK'
    BY <1>7, <1>9, CorrectEvidenceTables DEF CorrectEvidence
  <1>10. ASSUME NEW o \in Opportunities, NEW input \in Inputs, MaterializeRequirements(o, input)
         PROVE  TablesOK'
    <2>1. requirement' \in [Opportunities -> Seq(Inputs)] /\ RequirementsOK'
      BY <1>10, RequirementsKept DEF MaterializeRequirements
    <2>2. QED
      BY <1>1, <1>2, <1>10, <2>1 DEF MaterializeRequirements, TablesOK
  <1>11. ASSUME resuming' \in [Requests -> ResumeHandler],
                UNCHANGED <<document, version, evidence, requirement, match, bound>>
         PROVE  TablesOK'
    BY <1>1, <1>2, <1>11 DEF TablesOK
  <1>12. ASSUME NEW r \in Requests, NEW v \in Versions, NEW o \in Opportunities,
                NEW input \in Inputs, MatchRead(r, v, o, input)
         PROVE  TablesOK'
    <2>1. resuming' \in [Requests -> ResumeHandler]
      BY <1>1, <1>12, MatchReadTables, ResumeHandlerValues
    <2>2. QED
      BY <1>11, <1>12, <2>1 DEF MatchRead
  <1>13. ASSUME NEW r \in Requests, NEW m \in Matches, MatchCommit(r, m) PROVE TablesOK'
    <2>1. resuming' \in [Requests -> ResumeHandler]
      BY <1>1, <1>13, ResumeHandlerValues DEF MatchCommit
    <2>2. QED
      BY <1>1, <1>13, <2>1, MatchTables DEF TablesOK
  <1>14. ASSUME NEW r \in Requests, NEW a \in Applicants, NEW m \in Matches, BindRead(r, a, m)
         PROVE  TablesOK'
    <2>1. match[m].version \in Versions
      <3>1. match[m] \in MatchRow
        BY <1>1, <1>14, StoredRows DEF MatchesOK, BindRead
      <3>2. QED
        BY <3>1 DEF MatchRow
    <2>2. resuming' \in [Requests -> ResumeHandler]
      BY <1>1, <1>14, <2>1, ResumeHandlerValues DEF BindRead
    <2>3. QED
      BY <1>11, <1>14, <2>2 DEF BindRead
  <1>15. ASSUME NEW r \in Requests, BindCommit(r) PROVE TablesOK'
    <2>1. /\ resuming[r].app \in Applicants
          /\ [version |-> resuming[r].version, match |-> resuming[r].match]
               \in [version : Versions, match : Matches]
      BY <1>1, <1>15, ResumeHandlers DEF BindCommit
    <2>2. bound' \in [Applicants -> [version : Versions, match : Matches] \cup {Null}]
      BY <1>1, <1>15, <2>1 DEF BindCommit
    <2>3. resuming' \in [Requests -> ResumeHandler]
      BY <1>1, <1>15, ResumeHandlerValues DEF BindCommit
    <2>4. QED
      BY <1>1, <1>2, <1>15, <2>2, <2>3 DEF BindCommit, TablesOK
  <1>16. ASSUME NEW r \in Requests, AbandonResume(r) PROVE TablesOK'
    <2>1. resuming' \in [Requests -> ResumeHandler]
      BY <1>1, <1>16, ResumeHandlerValues DEF AbandonResume
    <2>2. QED
      BY <1>11, <1>16, <2>1 DEF AbandonResume
  <1>17. QED
    BY <1>3, <1>4, <1>5, <1>6, <1>8, <1>9, <1>10, <1>12, <1>13, <1>14, <1>15, <1>16 DEF RNext

(* Every reachable state of the resume tables is well typed: numbers and    *)
(* revisions within the ids there are, and two requirement sets at most.    *)
THEOREM ResumeTypeCorrect == RSpec => []ResumeTypeOK
  BY InitTables, NextTables, TablesTyped, PTL DEF RSpec

-----------------------------------------------------------------------------
(* What was computed from a resume.                                        *)

(* A match cites evidence of its own version.                               *)
CitesOwn(row) ==
  \/ row.cites = Null
  \/ row.cites \in Stored(evidence) /\ evidence[row.cites].version = row.version

DeletedIsEmpty == \A d \in Documents : document[d] = "DELETED" => VersionsOf(d) = {}
EvidenceHeld == \A e \in Stored(evidence) : evidence[e].version \in Stored(version)
MatchesHeld ==
  \A m \in Stored(match) : match[m].version \in Stored(version) /\ CitesOwn(match[m])
BoundHeld ==
  \A a \in Applicants : bound[a] # Null => BindMatches(a, bound[a].version, bound[a].match)

(* A request remembers ids that were used before; if the row it read is     *)
(* still there, so is what it read with it.                                 *)
MatchingHeld ==
  \A r \in Requests : resuming[r].op = "MATCH" =>
    /\ version[resuming[r].match.version] # Null
    /\ resuming[r].match.version \in Stored(version) => CitesOwn(resuming[r].match)
BindingHeld ==
  \A r \in Requests : resuming[r].op = "BIND" =>
    /\ match[resuming[r].match] # Null
    /\ resuming[r].match \in Stored(match) =>
         BindMatches(resuming[r].app, resuming[r].version, resuming[r].match)

Held ==
  DeletedIsEmpty /\ EvidenceHeld /\ MatchesHeld /\ BoundHeld /\ MatchingHeld /\ BindingHeld

LEMMA InitHeld == RInit => Held
  <1> SUFFICES ASSUME RInit PROVE Held
    OBVIOUS
  <1>1. Stored(version) = {} /\ Stored(evidence) = {} /\ Stored(match) = {}
    BY DEF RInit, Stored
  <1>2. \A r \in Requests : resuming[r].op = "IDLE"
    BY DEF RInit, Idle
  <1>3. QED
    BY <1>1, <1>2
    DEF RInit, Held, DeletedIsEmpty, VersionsOf, EvidenceHeld, MatchesHeld, BoundHeld, MatchingHeld,
        BindingHeld

LEMMA HeldSuffices == TablesOK /\ Held => NothingOutlivesItsDocument
  BY DEF Held, DeletedIsEmpty, EvidenceHeld, MatchesHeld, BoundHeld, CitesOwn,
         NothingOutlivesItsDocument

(* Which ids are stored.                                                    *)
LEMMA StoredIds ==
  ASSUME TablesOK
  PROVE  /\ \A v : v \in Stored(version) <=> v \in Versions /\ version[v] \notin {Null, Gone}
         /\ \A e : e \in Stored(evidence) <=> e \in Evidence /\ evidence[e] \notin {Null, Gone}
         /\ \A m : m \in Stored(match) <=> m \in Matches /\ match[m] \notin {Null, Gone}
         /\ \A v \in Stored(version) : version[v].doc \in Documents
         /\ \A r \in Requests : resuming[r].op = "MATCH" => resuming[r].match.version \in Versions
         /\ \A r \in Requests : resuming[r].op = "BIND" => resuming[r].match \in Matches
  <1>1. /\ version \in Table(Versions, VersionRow)
        /\ evidence \in Table(Evidence, EvidenceRow)
        /\ match \in Table(Matches, MatchRow)
        /\ resuming \in [Requests -> ResumeHandler]
    BY DEF TablesOK, VersionsOK, EvidenceOK, MatchesOK
  <1>2. \A v \in Stored(version) : version[v] \in VersionRow
    BY <1>1, StoredRows
  <1>3. \A r \in Requests : resuming[r].op = "MATCH" => resuming[r].match \in MatchRow
    BY <1>1, ResumeHandlers
  <1>4. \A r \in Requests : resuming[r].op = "BIND" => resuming[r].match \in Matches
    BY <1>1, ResumeHandlers
  <1>5. /\ \A v : v \in Stored(version) <=> v \in Versions /\ version[v] \notin {Null, Gone}
        /\ \A e : e \in Stored(evidence) <=> e \in Evidence /\ evidence[e] \notin {Null, Gone}
        /\ \A m : m \in Stored(match) <=> m \in Matches /\ match[m] \notin {Null, Gone}
    BY <1>1, StoredRows
  <1>6. QED
    BY <1>2, <1>3, <1>4, <1>5 DEF VersionRow, MatchRow

(* A step that adds versions and evidence and takes none away.              *)
LEMMA GrowingHeld ==
  ASSUME TablesOK, TablesOK', Held, UNCHANGED <<match, bound, resuming>>,
         \A d \in Documents : document'[d] = "DELETED" => document[d] = "DELETED",
         \A v \in Versions : version'[v] = version[v] \/ version[v] = Null,
         \A v \in Stored(version') \ Stored(version) : document'[version'[v].doc] # "DELETED",
         \A e \in Stored(evidence) : e \in Stored(evidence') /\ evidence'[e].version = evidence[e].version,
         \A e \in Stored(evidence') \ Stored(evidence) : evidence'[e].version \in Stored(version')
  PROVE  Held'
  <1>1. /\ \A v : v \in Stored(version) <=> v \in Versions /\ version[v] \notin {Null, Gone}
        /\ \A v : v \in Stored(version') <=> v \in Versions /\ version'[v] \notin {Null, Gone}
    <2>1. version' \in Table(Versions, VersionRow)
      BY DEF TablesOK, VersionsOK
    <2>2. QED
      BY <2>1, StoredIds, StoredRows
  <1>2. \A v \in Stored(version) : v \in Stored(version') /\ version'[v] = version[v]
    BY <1>1
  <1>3. \A row : CitesOwn(row) => CitesOwn(row)'
    BY DEF CitesOwn
  <1>4. DeletedIsEmpty'
    <2>1. ASSUME NEW d \in Documents, document'[d] = "DELETED", NEW v \in Stored(version'),
                 version'[v].doc = d
          PROVE  FALSE
      <3>1. v \in Stored(version) /\ document[d] = "DELETED"
        BY <2>1
      <3>2. version[v].doc = d
        BY <1>2, <2>1, <3>1
      <3>3. QED
        BY <3>1, <3>2 DEF Held, DeletedIsEmpty, VersionsOf
    <2>2. QED
      BY <2>1 DEF DeletedIsEmpty, VersionsOf
  <1>5. EvidenceHeld'
    BY <1>2 DEF Held, EvidenceHeld
  <1>6. MatchesHeld'
    BY <1>2, <1>3 DEF Held, MatchesHeld
  <1>7. BoundHeld' /\ BindingHeld'
    BY DEF Held, BoundHeld, BindingHeld, BindMatches
  <1>8. MatchingHeld'
    <2>1. \A r \in Requests : resuming[r].op = "MATCH" => resuming[r].match.version \in Versions
      BY StoredIds
    <2>2. ASSUME NEW r \in Requests, resuming[r].op = "MATCH"
          PROVE  /\ version'[resuming[r].match.version] # Null
                 /\ resuming[r].match.version \in Stored(version') => CitesOwn(resuming[r].match)'
      <3>1. version[resuming[r].match.version] # Null
        BY <2>2 DEF Held, MatchingHeld
      <3>2. version'[resuming[r].match.version] = version[resuming[r].match.version]
        BY <2>1, <2>2, <3>1
      <3>3. resuming[r].match.version \in Stored(version') => CitesOwn(resuming[r].match)
        BY <1>1, <2>2, <3>2 DEF Held, MatchingHeld
      <3>4. QED
        BY <1>3, <3>1, <3>2, <3>3
    <2>3. QED
      BY <2>2 DEF MatchingHeld, CitesOwn
  <1>9. QED
    BY <1>4, <1>5, <1>6, <1>7, <1>8 DEF Held


LEMMA CreateVersionHeld ==
  ASSUME TablesOK, TablesOK', Held, NEW d \in Documents, NEW v \in Versions, NEW e \in Evidence,
         CreateVersion(d, v, e)
  PROVE  Held'
  <1> DEFINE row == [doc |-> d, number |-> NextNumber(d)]
             first == [version |-> v, skill |-> TRUE, status |-> "EXTRACTED", review |-> 0,
                       revision |-> 1, parent |-> Null, superseded |-> FALSE]
  <1>1. /\ version \in Table(Versions, VersionRow) /\ version' \in Table(Versions, VersionRow)
        /\ evidence \in Table(Evidence, EvidenceRow) /\ evidence' \in Table(Evidence, EvidenceRow)
    BY DEF TablesOK, VersionsOK, EvidenceOK
  <1>2. /\ document[d] = "READY" /\ version[v] = Null
        /\ UNCHANGED <<document, match, bound, resuming>>
    BY DEF CreateVersion, Readable, Fresh
  <1>3. row.doc = d /\ first.version = v
    OBVIOUS
  <1>4. /\ version'[v] = row
        /\ \A u \in Versions \ {v} : version'[u] = version[u]
    BY <1>1 DEF CreateVersion, Table
  <1>5. \/ UNCHANGED evidence
        \/ /\ evidence[e] = Null /\ evidence'[e] = first
           /\ \A f \in Evidence \ {e} : evidence'[f] = evidence[f]
    BY <1>1 DEF CreateVersion, Table, Fresh
  <1> HIDE DEF row, first
  <1>6. row \notin {Null, Gone}
    <2>1. NextNumber(d) \in 1..(Cardinality(Used(version)) + 1)
      BY NextNumberFits DEF TablesOK
    <2>2. Cardinality(Used(version)) \in Nat /\ Cardinality(Used(version)) + 1 <= Cardinality(Versions)
          /\ Cardinality(Versions) \in Nat
      <3>1. v \notin Used(version) /\ Used(version) \in SUBSET Versions
        BY <1>1, <1>2, UsedFinite, ResumeIdAssumption DEF Used
      <3>2. QED
        BY <3>1, OneMoreUsed, ResumeIdAssumption
    <2>3. row \in VersionRow
      BY <2>1, <2>2 DEF row, VersionRow
    <2>4. QED
      BY <2>3, RowsAreRows
  <1>7. /\ \A u : u \in Stored(version) <=> u \in Versions /\ version[u] \notin {Null, Gone}
        /\ \A u : u \in Stored(version') <=> u \in Versions /\ version'[u] \notin {Null, Gone}
        /\ \A f : f \in Stored(evidence) <=> f \in Evidence /\ evidence[f] \notin {Null, Gone}
        /\ \A f : f \in Stored(evidence') <=> f \in Evidence /\ evidence'[f] \notin {Null, Gone}
    BY <1>1, StoredRows
  <1>8. v \in Stored(version')
    BY <1>4, <1>6, <1>7
  <1>9. \A u \in Stored(version') \ Stored(version) : document'[version'[u].doc] # "DELETED"
    BY <1>2, <1>3, <1>4, <1>7
  <1>10. /\ \A f \in Stored(evidence) :
              f \in Stored(evidence') /\ evidence'[f].version = evidence[f].version
         /\ \A f \in Stored(evidence') \ Stored(evidence) : evidence'[f].version \in Stored(version')
    BY <1>3, <1>5, <1>7, <1>8
  <1>11. QED
    BY <1>2, <1>4, <1>9, <1>10, GrowingHeld

(* A step that rewrites evidence and keeps the version of every row.        *)
LEMMA ReviewingHeld ==
  ASSUME TablesOK, TablesOK', Held, UNCHANGED <<document, version, match, bound, resuming>>,
         \A e \in Stored(evidence) : e \in Stored(evidence') /\ evidence'[e].version = evidence[e].version,
         \A e \in Stored(evidence') \ Stored(evidence) : evidence'[e].version \in Stored(version)
  PROVE  Held'
  BY GrowingHeld

LEMMA ReviewEvidenceHeld ==
  ASSUME TablesOK, TablesOK', Held, NEW e \in Evidence,
         NEW disposition \in {"CONFIRMED", "REJECTED"}, ReviewEvidence(e, disposition)
  PROVE  Held'
  <1> DEFINE row == Judged(evidence[e], disposition)
  <1>1. /\ evidence \in Table(Evidence, EvidenceRow) /\ e \in Stored(evidence)
        /\ evidence[e].status = "EXTRACTED"
    BY DEF TablesOK, EvidenceOK, ReviewEvidence
  <1>2. evidence[e] \in EvidenceRow /\ ReviewedOnce(evidence[e])
    BY <1>1, StoredRows DEF TablesOK, EvidenceOK
  <1>3. row \in EvidenceRow /\ row.version = evidence[e].version
    BY <1>1, <1>2, JudgedRows
  <1>4. evidence' = Written(evidence, e, row) /\ {Null, Gone} \cap EvidenceRow = {}
    BY ReviewEvidenceTables, RowsAreRows
  <1> HIDE DEF row
  <1>5. /\ Stored(evidence') = Stored(evidence) /\ evidence'[e] = row
        /\ \A f \in Evidence \ {e} : evidence'[f] = evidence[f]
    BY <1>1, <1>3, <1>4, Rewritten
  <1>6. Stored(evidence) \subseteq Evidence
    BY VersionsOfStored
  <1>7. QED
    BY <1>3, <1>5, <1>6, ReviewingHeld DEF ReviewEvidence

LEMMA CorrectEvidenceHeld ==
  ASSUME TablesOK, TablesOK', Held, NEW e \in Evidence, NEW f \in Evidence, NEW skill \in BOOLEAN,
         CorrectEvidence(e, f, skill)
  PROVE  Held'
  <1> DEFINE old == Replaced(evidence[e])
             replaced == Written(evidence, e, old)
  <1>1. /\ evidence \in Table(Evidence, EvidenceRow) /\ e \in Stored(evidence)
        /\ ~evidence[e].superseded /\ Fresh(evidence, f)
    BY DEF TablesOK, EvidenceOK, CorrectEvidence, Correctable
  <1>2. evidence[e] \in EvidenceRow /\ ReviewedOnce(evidence[e])
    BY <1>1, StoredRows DEF TablesOK, EvidenceOK
  <1>3. old \in EvidenceRow /\ old.version = evidence[e].version
    BY <1>1, <1>2, JudgedRows
  <1>4. PICK row \in EvidenceRow : row.version = evidence[e].version
                                   /\ evidence' = Written(replaced, f, row)
    BY CorrectEvidenceTables
  <1>5. {Null, Gone} \cap EvidenceRow = {} /\ f # e
    BY <1>1, RowsAreRows DEF Fresh, Stored
  <1> HIDE DEF old
  <1>6. /\ replaced \in Table(Evidence, EvidenceRow)
        /\ Stored(replaced) = Stored(evidence) /\ replaced[e] = old
        /\ \A g \in Evidence \ {e} : replaced[g] = evidence[g]
    BY <1>1, <1>3, <1>5, Rewritten
  <1>7. Fresh(replaced, f)
    BY <1>1, <1>5, <1>6 DEF Fresh
  <1> HIDE DEF replaced
  <1>8. /\ Stored(evidence') = Stored(replaced) \cup {f} /\ evidence'[f] = row
        /\ \A g \in Evidence \ {f} : evidence'[g] = replaced[g]
        /\ f \notin Stored(replaced)
    BY <1>4, <1>5, <1>6, <1>7, Inserted
  <1>9. Stored(evidence) \subseteq Evidence /\ evidence[e].version \in Stored(version)
    BY <1>1, VersionsOfStored DEF Held, EvidenceHeld
  <1>10. /\ \A g \in Stored(evidence) :
              g \in Stored(evidence') /\ evidence'[g].version = evidence[g].version
         /\ \A g \in Stored(evidence') \ Stored(evidence) : evidence'[g].version \in Stored(version)
    BY <1>3, <1>4, <1>6, <1>8, <1>9
  <1>11. QED
    BY <1>10, ReviewingHeld DEF CorrectEvidence


(* The deletion itself: what stays stored stays as it was, and what is      *)
(* bound is of a version that the references held on to.                    *)
LEMMA DeleteDocumentHeld ==
  ASSUME TablesOK, TablesOK', Held, NEW d \in Documents, DeleteDocument(d)
  PROVE  Held'
  <1>1. /\ version \in Table(Versions, VersionRow)
        /\ evidence \in Table(Evidence, EvidenceRow)
        /\ match \in Table(Matches, MatchRow)
    BY DEF TablesOK, VersionsOK, EvidenceOK, MatchesOK
  <1> DEFINE versions == VersionsOf(d)
             pieces == UNION {EvidenceOf(v) : v \in VersionsOf(d)}
             matches == UNION {MatchesOf(v) : v \in VersionsOf(d)}
  <1>2. versions \subseteq Stored(version) /\ pieces \subseteq Stored(evidence)
        /\ matches \subseteq Stored(match)
    BY VersionsOfStored
  <1>3. /\ \A e \in Stored(evidence) : e \in pieces <=> evidence[e].version \in versions
        /\ \A m \in Stored(match) : m \in matches <=> match[m].version \in versions
        /\ \A v \in Stored(version) : v \in versions <=> version[v].doc = d
    BY DEF VersionsOf, EvidenceOf, MatchesOf
  <1>4. \A v \in versions : ~Pinned(v)
    BY DEF DeleteDocument
  <1>5. /\ version' = Removed(version, versions) /\ evidence' = Removed(evidence, pieces)
        /\ match' = Removed(match, matches)
        /\ document' = [document EXCEPT ![d] = "DELETED"]
        /\ UNCHANGED <<bound, resuming>>
    BY DEF DeleteDocument
  <1> HIDE DEF versions, pieces, matches
  <1>6. /\ Stored(version') = Stored(version) \ versions
        /\ Used(version') = Used(version)
        /\ \A v \in Versions \ versions : version'[v] = version[v]
    BY <1>1, <1>2, <1>5, Removing
  <1>7. /\ Stored(evidence') = Stored(evidence) \ pieces
        /\ \A e \in Evidence \ pieces : evidence'[e] = evidence[e]
    BY <1>1, <1>2, <1>5, Removing
  <1>8. /\ Stored(match') = Stored(match) \ matches
        /\ Used(match') = Used(match)
        /\ \A m \in Matches \ matches : match'[m] = match[m]
    BY <1>1, <1>2, <1>5, Removing
  <1>9. Stored(version) \subseteq Versions /\ Stored(evidence) \subseteq Evidence
        /\ Stored(match) \subseteq Matches
    BY VersionsOfStored
  <1>10. \A row : CitesOwn(row) /\ row.version \in Stored(version') => CitesOwn(row)'
    <2> SUFFICES ASSUME NEW row, CitesOwn(row), row.version \in Stored(version'), row.cites # Null
                 PROVE  row.cites \in Stored(evidence') /\ evidence'[row.cites].version = row.version
      BY DEF CitesOwn
    <2>1. row.cites \in Stored(evidence) /\ evidence[row.cites].version = row.version
      BY DEF CitesOwn
    <2>2. row.cites \notin pieces
      BY <1>3, <1>6, <2>1
    <2>3. QED
      BY <1>7, <1>9, <2>1, <2>2
  <1>11. DeletedIsEmpty'
    <2>1. ASSUME NEW c \in Documents, document'[c] = "DELETED", NEW v \in Stored(version'),
                 version'[v].doc = c
          PROVE  FALSE
      <3>1. v \in Stored(version) /\ v \notin versions /\ version[v].doc = c
        BY <1>6, <1>9, <2>1
      <3>2. c # d
        BY <1>3, <3>1
      <3>3. document[c] = "DELETED"
        BY <1>5, <2>1, <3>2 DEF TablesOK
      <3>4. QED
        BY <3>1, <3>3 DEF Held, DeletedIsEmpty, VersionsOf
    <2>2. QED
      BY <2>1 DEF DeletedIsEmpty, VersionsOf
  <1>12. EvidenceHeld'
    BY <1>3, <1>6, <1>7, <1>9 DEF Held, EvidenceHeld
  <1>13. MatchesHeld'
    BY <1>3, <1>6, <1>8, <1>9, <1>10 DEF Held, MatchesHeld
  <1>14. BoundHeld'
    <2>1. ASSUME NEW a \in Applicants, bound[a] # Null
          PROVE  /\ bound[a].match \in Stored(match')
                 /\ match'[bound[a].match] = match[bound[a].match]
      <3>1. BindMatches(a, bound[a].version, bound[a].match)
        BY <2>1 DEF Held, BoundHeld
      <3>2. bound[a].match \in Stored(match) /\ match[bound[a].match].version = bound[a].version
        BY <3>1 DEF BindMatches
      <3>3. bound[a].version \notin versions
        BY <1>4, <2>1 DEF Pinned
      <3>4. QED
        BY <1>3, <1>8, <1>9, <3>2, <3>3
    <2>2. QED
      BY <1>5, <2>1 DEF Held, BoundHeld, BindMatches
  <1>15. MatchingHeld'
    <2>1. ASSUME NEW r \in Requests, resuming[r].op = "MATCH"
          PROVE  /\ version'[resuming[r].match.version] # Null
                 /\ resuming[r].match.version \in Stored(version') => CitesOwn(resuming[r].match)'
      <3>1. resuming[r].match.version \in Versions
        BY <2>1, StoredIds
      <3>2. version'[resuming[r].match.version] # Null
        <4>1. resuming[r].match.version \in Used(version)
          <5>1. version[resuming[r].match.version] # Null
            BY <2>1 DEF Held, MatchingHeld
          <5>2. QED
            BY <1>1, <3>1, <5>1 DEF Table, Used
        <4>2. QED
          BY <1>6, <4>1 DEF Used
      <3>3. resuming[r].match.version \in Stored(version') => CitesOwn(resuming[r].match)
        BY <1>6, <2>1 DEF Held, MatchingHeld
      <3>4. QED
        BY <1>5, <1>10, <3>2, <3>3 DEF CitesOwn
    <2>2. QED
      BY <1>5, <2>1 DEF MatchingHeld, CitesOwn
  <1>16. BindingHeld'
    <2>1. ASSUME NEW r \in Requests, resuming[r].op = "BIND"
          PROVE  /\ match'[resuming[r].match] # Null
                 /\ resuming[r].match \in Stored(match') =>
                      /\ resuming[r].match \in Stored(match)
                      /\ match'[resuming[r].match] = match[resuming[r].match]
      <3>1. resuming[r].match \in Matches
        BY <2>1, StoredIds
      <3>2. resuming[r].match \in Used(match)
        <4>1. match[resuming[r].match] # Null
          BY <2>1 DEF Held, BindingHeld
        <4>2. QED
          BY <1>1, <3>1, <4>1 DEF Table, Used
      <3>3. match'[resuming[r].match] # Null
        BY <1>8, <3>2 DEF Used
      <3>4. QED
        BY <1>8, <3>1, <3>3
    <2>2. QED
      BY <1>5, <2>1 DEF Held, BindingHeld, BindMatches
  <1>17. QED
    BY <1>11, <1>12, <1>13, <1>14, <1>15, <1>16 DEF Held

(* A step on the requests alone.                                            *)
LEMMA RequestHeld ==
  ASSUME TablesOK, Held, UNCHANGED <<document, version, evidence, match, bound>>,
         NEW r \in Requests, NEW h, resuming' = [resuming EXCEPT ![r] = h],
         h.op = "MATCH" => h.match.version \in Stored(version) /\ CitesOwn(h.match),
         h.op = "BIND" => BindMatches(h.app, h.version, h.match)
  PROVE  Held'
  <1>1. /\ resuming'[r] = h
        /\ \A q \in Requests \ {r} : resuming'[q] = resuming[q]
    BY DEF TablesOK
  <1>2. /\ \A v \in Stored(version) : version[v] # Null
        /\ \A m \in Stored(match) : match[m] # Null
    BY StoredIds
  <1>3. DeletedIsEmpty' /\ EvidenceHeld' /\ MatchesHeld' /\ BoundHeld'
    BY DEF Held, DeletedIsEmpty, VersionsOf, EvidenceHeld, MatchesHeld, CitesOwn, BoundHeld, BindMatches
  <1>4. MatchingHeld'
    BY <1>1, <1>2 DEF Held, MatchingHeld, CitesOwn
  <1>5. BindingHeld'
    BY <1>1, <1>2 DEF Held, BindingHeld, BindMatches
  <1>6. QED
    BY <1>3, <1>4, <1>5 DEF Held

LEMMA MatchReadHeld ==
  ASSUME TablesOK, Held, NEW r \in Requests, NEW v \in Versions, NEW o \in Opportunities,
         NEW input \in Inputs, MatchRead(r, v, o, input)
  PROVE  Held'
  <1>1. PICK cites \in Usable(v) \cup {Null} :
          resuming' = [resuming EXCEPT ![r] =
            [op |-> "MATCH", input |-> input, match |-> MatchCall(v, o, input, cites)]]
    BY MatchReadTables
  <1>2. v \in Stored(version) /\ UNCHANGED <<document, version, evidence, match, bound>>
    BY DEF MatchRead
  <1>3. MatchCall(v, o, input, cites).version = v /\ MatchCall(v, o, input, cites).cites = cites
    BY DEF MatchCall
  <1>4. CitesOwn(MatchCall(v, o, input, cites))
    BY <1>3 DEF CitesOwn, Usable, EvidenceOf
  <1> DEFINE h == [op |-> "MATCH", input |-> input, match |-> MatchCall(v, o, input, cites)]
  <1>5. h.op = "MATCH" /\ h.match.version \in Stored(version) /\ CitesOwn(h.match)
    BY <1>2, <1>3, <1>4
  <1> HIDE DEF h
  <1>6. resuming' = [resuming EXCEPT ![r] = h]
    BY <1>1 DEF h
  <1>7. QED
    BY <1>2, <1>5, <1>6, RequestHeld

LEMMA BindReadHeld ==
  ASSUME TablesOK, Held, NEW r \in Requests, NEW a \in Applicants, NEW m \in Matches,
         BindRead(r, a, m)
  PROVE  Held'
  <1> DEFINE h == [op |-> "BIND", app |-> a, version |-> match[m].version, match |-> m]
  <1>1. h.op = "BIND" /\ BindMatches(h.app, h.version, h.match)
    BY DEF BindRead
  <1> HIDE DEF h
  <1>2. resuming' = [resuming EXCEPT ![r] = h]
    BY DEF BindRead, h
  <1>3. UNCHANGED <<document, version, evidence, match, bound>>
    BY DEF BindRead
  <1>4. QED
    BY <1>1, <1>2, <1>3, RequestHeld

LEMMA MatchCommitHeld ==
  ASSUME TablesOK, Held, NEW r \in Requests, NEW m \in Matches, MatchCommit(r, m)
  PROVE  Held'
  <1> DEFINE row == resuming[r].match
  <1>1. /\ row \in MatchRow /\ row.version \in Stored(version) /\ CitesOwn(row)
        /\ UNCHANGED <<document, version, evidence, bound>>
        /\ resuming' = [resuming EXCEPT ![r] = Idle]
        /\ UNCHANGED match \/ (Fresh(match, m) /\ match' = Written(match, m, row))
    BY MatchTables DEF Held, MatchingHeld, MatchCommit
  <1>2. Idle.op = "IDLE"
    BY DEF Idle
  <1>3. CASE UNCHANGED match
    BY <1>1, <1>2, <1>3, RequestHeld
  <1>4. CASE Fresh(match, m) /\ match' = Written(match, m, row)
    <2>1. match \in Table(Matches, MatchRow) /\ {Null, Gone} \cap MatchRow = {}
      BY RowsAreRows DEF TablesOK, MatchesOK
    <2> HIDE DEF row
    <2>2. /\ Stored(match') = Stored(match) \cup {m} /\ m \notin Stored(match) /\ m \notin Used(match)
          /\ match'[m] = row /\ \A n \in Matches \ {m} : match'[n] = match[n]
      BY <1>1, <1>4, <2>1, Inserted
    <2>3. Stored(match) \subseteq Matches
      BY VersionsOfStored
    <2>4. \A n \in Stored(match) : n \in Stored(match') /\ match'[n] = match[n]
      BY <2>2, <2>3
    <2>5. /\ resuming'[r].op = "IDLE"
          /\ \A q \in Requests \ {r} : resuming'[q] = resuming[q]
      BY <1>1, <1>2 DEF TablesOK
    <2>6. DeletedIsEmpty' /\ EvidenceHeld'
      BY <1>1 DEF Held, DeletedIsEmpty, VersionsOf, EvidenceHeld
    <2>7. MatchesHeld'
      BY <1>1, <2>2, <2>4 DEF Held, MatchesHeld, CitesOwn
    <2>8. BoundHeld'
      BY <1>1, <2>4 DEF Held, BoundHeld, BindMatches
    <2>9. MatchingHeld'
      BY <1>1, <2>5 DEF Held, MatchingHeld, CitesOwn
    <2>10. BindingHeld'
      <3>1. ASSUME NEW q \in Requests \ {r}, resuming[q].op = "BIND"
            PROVE  /\ match'[resuming[q].match] # Null
                   /\ resuming[q].match \in Stored(match') =>
                        /\ resuming[q].match \in Stored(match)
                        /\ match'[resuming[q].match] = match[resuming[q].match]
        <4>1. resuming[q].match \in Matches /\ match[resuming[q].match] # Null
          BY <3>1, StoredIds DEF Held, BindingHeld
        <4>2. resuming[q].match # m
          BY <1>4, <4>1 DEF Fresh
        <4>3. QED
          BY <2>2, <4>1, <4>2
      <3>2. QED
        BY <2>5, <3>1 DEF Held, BindingHeld, BindMatches
    <2>11. QED
      BY <2>6, <2>7, <2>8, <2>9, <2>10 DEF Held
  <1>5. QED
    BY <1>1, <1>3, <1>4

LEMMA BindCommitHeld ==
  ASSUME TablesOK, Held, NEW r \in Requests, BindCommit(r)
  PROVE  Held'
  <1> DEFINE a == resuming[r].app
             row == [version |-> resuming[r].version, match |-> resuming[r].match]
  <1>1. /\ bound' = [bound EXCEPT ![a] = row]
        /\ BindMatches(a, row.version, row.match)
        /\ resuming' = [resuming EXCEPT ![r] = Idle]
        /\ UNCHANGED <<document, version, evidence, match>>
    BY DEF Held, BindingHeld, BindCommit
  <1>2. a \in Applicants
    BY ResumeHandlers DEF TablesOK, BindCommit
  <1> HIDE DEF a, row
  <1>3. \A b \in Applicants : bound'[b] = IF b = a THEN row ELSE bound[b]
    BY <1>1 DEF TablesOK
  <1>4. BoundHeld'
    BY <1>1, <1>2, <1>3 DEF Held, BoundHeld, BindMatches
  <1>5. /\ resuming'[r].op = "IDLE"
        /\ \A q \in Requests \ {r} : resuming'[q] = resuming[q]
    BY <1>1 DEF TablesOK, Idle
  <1>6. DeletedIsEmpty' /\ EvidenceHeld' /\ MatchesHeld'
    BY <1>1 DEF Held, DeletedIsEmpty, VersionsOf, EvidenceHeld, MatchesHeld, CitesOwn
  <1>7. MatchingHeld' /\ BindingHeld'
    BY <1>1, <1>5 DEF Held, MatchingHeld, BindingHeld, CitesOwn, BindMatches
  <1>8. QED
    BY <1>4, <1>6, <1>7 DEF Held

LEMMA NextHeld == TablesOK /\ TablesOK' /\ Held /\ [RNext]_rvars => Held'
  <1> SUFFICES ASSUME TablesOK, TablesOK', Held, [RNext]_rvars PROVE Held'
    OBVIOUS
  <1>1. CASE UNCHANGED rvars
    BY <1>1, GrowingHeld DEF rvars
  <1>2. ASSUME NEW d \in Documents, Upload(d) PROVE Held'
    <2>1. UNCHANGED <<version, evidence, match, bound, resuming>>
      BY <1>2 DEF Upload
    <2>2. \A c \in Documents : document'[c] = "DELETED" => document[c] = "DELETED"
      BY <1>2 DEF Upload, TablesOK
    <2>3. QED
      BY <2>1, <2>2, GrowingHeld DEF Held, EvidenceHeld
  <1>3. ASSUME NEW o \in Opportunities, NEW input \in Inputs, MaterializeRequirements(o, input)
        PROVE  Held'
    BY <1>3, GrowingHeld DEF MaterializeRequirements
  <1>4. ASSUME NEW r \in Requests, AbandonResume(r) PROVE Held'
    <2>1. Idle.op = "IDLE"
      BY DEF Idle
    <2>2. QED
      BY <1>4, <2>1, RequestHeld DEF AbandonResume
  <1>5. QED
    BY <1>1, <1>2, <1>3, <1>4, DeleteDocumentHeld, CreateVersionHeld, ReviewEvidenceHeld,
       CorrectEvidenceHeld, MatchReadHeld, MatchCommitHeld, BindReadHeld, BindCommitHeld DEF RNext

(* Whatever was being parsed, matched or bound while a resume is deleted,   *)
(* nothing computed from it is left: every piece of evidence, match,        *)
(* citation and binding refers to a row that is stored.                     *)
THEOREM DeletedResumesLeaveNothing == RSpec => []NothingOutlivesItsDocument
  <1>1. RInit => TablesOK /\ Held
    BY InitTables, InitHeld
  <1>2. TablesOK /\ Held /\ [RNext]_rvars => (TablesOK /\ Held)'
    BY NextTables, NextHeld
  <1>3. QED
    BY <1>1, <1>2, HeldSuffices, PTL DEF RSpec


-----------------------------------------------------------------------------
(* Whole minutes.                                                          *)

LEMMA OneRemainder ==
  ASSUME NEW n \in Nat \ {0}, NEW p \in Int, NEW q \in Int,
         NEW r \in 0..(n - 1), NEW s \in 0..(n - 1), n * p + r = n * q + s
  PROVE  r = s
  <1>1. n * (p - q) = s - r
    OBVIOUS
  <1>2. CASE p - q >= 1
    <2>1. n * (p - q) >= n
      BY <1>2
    <2>2. QED
      BY <1>1, <2>1
  <1>3. CASE p - q <= -1
    <2>1. n * (q - p) >= n
      BY <1>3
    <2>2. QED
      BY <1>1, <2>1
  <1>4. CASE p - q = 0
    BY <1>1, <1>4
  <1>5. QED
    BY <1>2, <1>3, <1>4

LEMMA Remainders ==
  ASSUME NEW n \in Nat \ {0}, NEW x \in Int
  PROVE  /\ x % n \in 0..(n - 1) /\ x \div n \in Int
         /\ x = n * (x \div n) + (x % n)
  BY SMT

LEMMA SameRemainder ==
  ASSUME NEW x \in Int, NEW w \in Minutes
  PROVE  (x + w) % Minute = x % Minute
  <1>1. Minute \in Nat \ {0} /\ w \in Int /\ w % Minute = 0
    BY WallClockAssumption DEF Minutes
  <1>2. w = Minute * (w \div Minute) /\ w \div Minute \in Int
    BY <1>1, Remainders
  <1>3. /\ x % Minute \in 0..(Minute - 1) /\ x \div Minute \in Int
        /\ x = Minute * (x \div Minute) + (x % Minute)
    BY <1>1, Remainders
  <1>4. /\ (x + w) % Minute \in 0..(Minute - 1) /\ (x + w) \div Minute \in Int
        /\ x + w = Minute * ((x + w) \div Minute) + ((x + w) % Minute)
    BY <1>1, Remainders
  <1> DEFINE a == w \div Minute
             b == x \div Minute
             c == (x + w) \div Minute
             r == x % Minute
             s == (x + w) % Minute
  <1>5. a \in Int /\ b \in Int /\ c \in Int /\ r \in 0..(Minute - 1) /\ s \in 0..(Minute - 1)
        /\ (Minute * b + r) + Minute * a = Minute * c + s
    BY <1>2, <1>3, <1>4
  <1> HIDE DEF a, b, c, r, s
  <1>6. Minute * (b + a) + r = Minute * c + s
    BY <1>1, <1>5
  <1>7. r = s
    BY <1>1, <1>5, <1>6, OneRemainder
  <1>8. QED
    BY <1>7 DEF r, s

LEMMA WholeMinutes ==
  ASSUME NEW a \in Minutes, NEW b \in Minutes
  PROVE  a + b \in Minutes /\ a - b \in Minutes
  <1>1. a \in Int /\ b \in Int /\ a % Minute = 0 /\ b % Minute = 0
    BY DEF Minutes
  <1>2. (a + b) % Minute = 0
    BY <1>1, SameRemainder
  <1>3. ((a - b) + b) % Minute = (a - b) % Minute /\ (a - b) + b = a
    BY <1>1, SameRemainder
  <1>4. QED
    BY <1>1, <1>2, <1>3 DEF Minutes

LEMMA MinuteOf ==
  ASSUME NEW x \in Int
  PROVE  /\ ToMinute(x) \in Minutes /\ ToMinute(x) \in Int
         /\ ToMinute(x) <= x /\ x < ToMinute(x) + Minute
         /\ x \in Minutes => ToMinute(x) = x
  <1>1. Minute \in Nat \ {0} /\ x % Minute \in 0..(Minute - 1)
    BY Remainders, WallClockAssumption
  <1>2. ToMinute(x) \in Int
    BY <1>1 DEF ToMinute
  <1>3. ToMinute(x) % Minute = 0
    <2> DEFINE q == x \div Minute
               m == ToMinute(x)
    <2>1. q \in Int /\ m = Minute * q + 0
      BY <1>1, Remainders DEF ToMinute
    <2>2. m % Minute \in 0..(Minute - 1) /\ m \div Minute \in Int
          /\ m = Minute * (m \div Minute) + (m % Minute)
      BY <1>1, <1>2, Remainders
    <2>3. 0 \in 0..(Minute - 1)
      BY <1>1
    <2> HIDE DEF q, m
    <2>4. m % Minute = 0
      BY <1>1, <2>1, <2>2, <2>3, OneRemainder
    <2>5. QED
      BY <2>4 DEF m
  <1>4. QED
    BY <1>1, <1>2, <1>3 DEF ToMinute, Minutes

LEMMA MinuteAfter ==
  ASSUME NEW x \in Int, NEW w \in Minutes
  PROVE  ToMinute(x + w) = ToMinute(x) + w
  <1>1. w \in Int /\ x % Minute \in Int
    BY Remainders, WallClockAssumption DEF Minutes
  <1>2. QED
    BY <1>1, SameRemainder DEF ToMinute

LEMMA MinutesApart ==
  ASSUME NEW a \in Minutes, NEW b \in Minutes, a < b
  PROVE  a + Minute <= b
  <1>1. Minute \in Nat \ {0} /\ a \in Int /\ b \in Int /\ b - a \in Minutes
    BY WholeMinutes, WallClockAssumption DEF Minutes
  <1>2. b - a = Minute * ((b - a) \div Minute) /\ (b - a) \div Minute \in Int
    BY <1>1, Remainders DEF Minutes
  <1> DEFINE q == (b - a) \div Minute
  <1>3. q \in Int /\ Minute * q = b - a
    BY <1>2
  <1> HIDE DEF q
  <1>4. q >= 1
    BY <1>1, <1>3
  <1>5. Minute * q >= Minute
    BY <1>1, <1>3, <1>4
  <1>6. QED
    BY <1>1, <1>3, <1>5

LEMMA DaysAreWhole ==
  ASSUME NEW date \in Int
  PROVE  date * Day \in Minutes
  <1>1. /\ Minute \in Nat \ {0} /\ Day \in Int /\ Day % Minute = 0
    BY WallClockAssumption DEF Minutes
  <1> DEFINE k == Day \div Minute
             d == date * Day
  <1>2. k \in Int /\ Day = Minute * k
    BY <1>1, Remainders
  <1> HIDE DEF k
  <1>3. d \in Int /\ k * date \in Int /\ d = Minute * (k * date) + 0 /\ 0 \in 0..(Minute - 1)
    BY <1>1, <1>2
  <1> HIDE DEF d
  <1>4. /\ d % Minute \in 0..(Minute - 1) /\ d \div Minute \in Int
        /\ d = Minute * (d \div Minute) + (d % Minute)
    BY <1>1, <1>3, Remainders
  <1> DEFINE e == d \div Minute
             p == k * date
             r == d % Minute
  <1>5. e \in Int /\ p \in Int /\ r \in 0..(Minute - 1) /\ Minute * e + r = Minute * p + 0
    BY <1>3, <1>4
  <1>6. Minute \in Nat \ {0} /\ 0 \in 0..(Minute - 1)
    BY <1>1
  <1> HIDE DEF e, p, r
  <1>7. r = 0
    BY <1>5, <1>6, OneRemainder
  <1>8. QED
    BY <1>3, <1>7 DEF d, r, Minutes

(* Cutting to the minute keeps the order. *)
LEMMA MinutesInOrder ==
  ASSUME NEW x \in Int, NEW y \in Int, x <= y
  PROVE  ToMinute(x) <= ToMinute(y)
  <1>1. /\ ToMinute(x) \in Minutes /\ ToMinute(y) \in Minutes
        /\ ToMinute(x) \in Int /\ ToMinute(y) \in Int
        /\ ToMinute(x) <= x /\ y < ToMinute(y) + Minute
    BY MinuteOf
  <1>2. CASE ToMinute(y) < ToMinute(x)
    <2>1. ToMinute(y) + Minute <= ToMinute(x)
      BY <1>1, <1>2, MinutesApart
    <2>2. Minute \in Int
      BY WallClockAssumption
    <2>3. QED
      BY <1>1, <2>1, <2>2
  <1>3. QED
    BY <1>1, <1>2

-----------------------------------------------------------------------------
(* Wall clocks.                                                            *)

LEMMA ZoneTypes ==
  ASSUME NEW z \in Zone
  PROVE  /\ z.change \in Minutes /\ z.before \in Minutes /\ z.after \in Minutes
         /\ z.change \in Int /\ z.before \in Int /\ z.after \in Int
  BY DEF Zone, Minutes

LEMMA RenderedTypes ==
  ASSUME NEW z \in Zone, NEW i \in Int
  PROVE  Rendered(z, i) \in Int /\ (i \in Minutes => Rendered(z, i) \in Minutes)
  BY ZoneTypes, WholeMinutes DEF Rendered

(* A clock shows an instant in the minute in which it shows the first       *)
(* instant of its minute.                                                  *)
LEMMA RenderedMinute ==
  ASSUME NEW z \in Zone, NEW i \in Int
  PROVE  ToMinute(Rendered(z, i)) = Rendered(z, ToMinute(i))
  <1>1. /\ ToMinute(i) \in Minutes /\ ToMinute(i) \in Int
        /\ ToMinute(i) <= i /\ i < ToMinute(i) + Minute /\ Minute \in Int
    BY MinuteOf, WallClockAssumption
  <1>2. i < z.change <=> ToMinute(i) < z.change
    <2>1. ToMinute(i) < z.change => ToMinute(i) + Minute <= z.change
      BY <1>1, ZoneTypes, MinutesApart
    <2>2. QED
      BY <1>1, <2>1, ZoneTypes
  <1>3. /\ ToMinute(i + z.before) = ToMinute(i) + z.before
        /\ ToMinute(i + z.after) = ToMinute(i) + z.after
    BY ZoneTypes, MinuteAfter
  <1>4. QED
    BY <1>2, <1>3 DEF Rendered

LEMMA CorrectedOnce ==
  ASSUME NEW z \in Zone, NEW local \in Int, NEW guess \in Minutes
  PROVE  Corrected(z, local, guess) = IF guess < z.change THEN local - z.before ELSE local - z.after
  <1>1. guess \in Int
    BY DEF Minutes
  <1>2. ToMinute(Rendered(z, guess)) = Rendered(z, guess)
    BY <1>1, RenderedTypes, MinuteOf
  <1>3. QED
    BY <1>1, <1>2, ZoneTypes DEF Rendered, Corrected

(* Two corrections find the instant of a local time, if there is one, and   *)
(* the other two change nothing.                                            *)
LEMMA LocalTimesFound ==
  ASSUME NEW z \in Zone, NEW local \in Minutes, NEW i \in Minutes, Rendered(z, i) = local
  PROVE  Converted(z, local) \in Minutes /\ Rendered(z, Converted(z, local)) = local
  <1> DEFINE F(g) == Corrected(z, local, g)
  <1>1. /\ z.change \in Int /\ z.before \in Int /\ z.after \in Int /\ local \in Int /\ i \in Int
        /\ \A g \in Minutes : g \in Int
    BY ZoneTypes DEF Minutes
  <1>2. \A g \in Minutes : F(g) = IF g < z.change THEN local - z.before ELSE local - z.after
    BY <1>1, CorrectedOnce
  <1>3. Converted(z, local) = F(F(F(F(local))))
    BY DEF Converted
  <1>4. i = IF i < z.change THEN local - z.before ELSE local - z.after
    BY <1>1 DEF Rendered
  <1> HIDE DEF F
  <1>5. \A g \in Minutes : F(g) \in Minutes
    BY <1>2, ZoneTypes, WholeMinutes
  <1>6. \A g \in Minutes : F(g) = g => Rendered(z, g) = local
    BY <1>1, <1>2 DEF Rendered
  <1>7. \A g \in Minutes : F(F(F(g))) = F(F(g))
    <2>1. SUFFICES ASSUME NEW g \in Minutes PROVE F(F(F(g))) = F(F(g))
      OBVIOUS
    <2>2. F(g) = local - z.before \/ F(g) = local - z.after
      BY <1>2
    <2>3. F(g) \in Minutes /\ F(F(g)) \in Minutes
      BY <1>5
    <2>4. QED
      BY <1>1, <1>2, <1>4, <2>2, <2>3
  <1>8. F(F(F(F(local)))) \in Minutes /\ F(F(F(F(F(local))))) = F(F(F(F(local))))
    BY <1>5, <1>7
  <1>9. QED
    BY <1>3, <1>6, <1>8

LEMMA DayAndTime ==
  ASSUME NEW local \in Int
  PROVE  /\ DateOf(local) \in Int /\ TimeOf(local) \in Minutes
         /\ DateOf(local) * Day + TimeOf(local) = ToMinute(local)
  <1> DEFINE d == local \div Day
             r == local % Day
             m == ToMinute(local)
             s == m % Day
             e == m \div Day
  <1>1. Day \in Nat \ {0} /\ Minute \in Nat \ {0}
    BY WallClockAssumption DEF Minutes
  <1>2. d \in Int /\ r \in 0..(Day - 1) /\ local = Day * d + r
    BY <1>1, Remainders
  <1>3. m \in Minutes /\ m \in Int /\ m <= local /\ local < m + Minute
    BY MinuteOf
  <1>4. e \in Int /\ s \in 0..(Day - 1) /\ m = Day * e + s
    BY <1>1, <1>3, Remainders
  <1>5. d * Day \in Minutes
    BY <1>2, DaysAreWhole
  <1> HIDE DEF d, r, m, s, e
  <1>6. d * Day <= m
    <2>1. m < d * Day => m + Minute <= d * Day
      BY <1>3, <1>5, MinutesApart
    <2>2. d * Day \in Int /\ d * Day <= local
      BY <1>1, <1>2
    <2>3. QED
      BY <1>1, <1>2, <1>3, <2>1, <2>2
  <1> DEFINE w == m - d * Day
  <1>7. w \in 0..(Day - 1) /\ m = Day * d + w
    BY <1>1, <1>2, <1>3, <1>6
  <1>8. w \in Minutes
    BY <1>3, <1>5, WholeMinutes
  <1> HIDE DEF w
  <1>9. Day * e + s = Day * d + w
    BY <1>4, <1>7
  <1>10. s = w
    BY <1>1, <1>2, <1>4, <1>7, <1>9, OneRemainder
  <1>11. d * Day + w = m
    BY <1>1, <1>2, <1>3, <1>7
  <1>12. DateOf(local) = d /\ TimeOf(local) = s
    BY DEF DateOf, TimeOf, d, s, m
  <1>13. QED
    BY <1>2, <1>8, <1>10, <1>11, <1>12 DEF m

LEMMA LocalTimesStored ==
  ASSUME NEW z \in Zone, NEW i \in Int
  PROVE  LET local == Rendered(z, i)
             stored == Zoned(z, DateOf(local), TimeOf(local))
         IN stored \in Int /\ Rendered(z, stored) = ToMinute(local)
  <1> DEFINE local == Rendered(z, i)
             at == DateOf(local) * Day + TimeOf(local)
             minute == ToMinute(local)
  <1>1. local \in Int
    BY RenderedTypes
  <1>2. at = minute
    BY <1>1, DayAndTime
  <1>3. minute \in Minutes /\ minute = Rendered(z, ToMinute(i)) /\ ToMinute(i) \in Minutes
    BY <1>1, MinuteOf, RenderedMinute
  <1>4. Converted(z, minute) \in Minutes /\ Rendered(z, Converted(z, minute)) = minute
    BY <1>3, LocalTimesFound
  <1>5. Converted(z, minute) \in Int /\ minute \in Int /\ ToMinute(minute) = minute
    BY <1>3, <1>4, MinuteOf DEF Minutes
  <1> HIDE DEF minute, local
  <1>6. Zoned(z, DateOf(local), TimeOf(local)) = Converted(z, minute)
    BY <1>2, <1>4, <1>5 DEF Zoned
  <1>7. QED
    BY <1>4, <1>5, <1>6 DEF minute, local

LEMMA NormalTimes ==
  ASSUME NEW t \in Normal
  PROVE  /\ t \in TimingRow /\ Normalized(t) = t /\ t # Null
         /\ t.allDay \in BOOLEAN /\ t.startsAt \in Int
         /\ t.endsAt \in Int \cup {Null} /\ t.startsOn \in Int \cup {Null}
         /\ t.endsOn \in Int \cup {Null}
  <1>1. t \in TimingRow /\ t.startsAt # Null /\ Normalized(t) = t
    BY DEF Normal
  <1>2. t # Null
    BY <1>1, PageAssumption
  <1>3. QED
    BY <1>1, <1>2 DEF TimingRow

LEMMA AllDayTimes ==
  ASSUME NEW t \in Normal, t.allDay = TRUE
  PROVE  /\ t.startsOn \in Int
         /\ t.endsOn # Null => t.endsOn >= t.startsOn
         /\ t = Timing(TRUE, MidnightUtc(t.startsOn), MidnightUtc(t.endsOn), t.startsOn, t.endsOn)
  <1>1. Normalized(t) = t /\ t # Null
    BY NormalTimes
  <1>2. ~(t.startsOn = Null \/ (t.endsOn # Null /\ t.endsOn < t.startsOn))
    BY <1>1 DEF Normalized
  <1>3. t.startsOn \in Int \cup {Null} /\ t.endsOn \in Int \cup {Null}
    BY NormalTimes
  <1>4. t = Timing(TRUE, MidnightUtc(t.startsOn), MidnightUtc(t.endsOn), t.startsOn, t.endsOn)
    BY <1>1, <1>2 DEF Normalized
  <1>5. t.endsOn # Null => t.endsOn >= t.startsOn
    BY <1>2, <1>3
  <1>6. QED
    BY <1>2, <1>3, <1>4, <1>5

LEMMA ClockTimes ==
  ASSUME NEW t \in Normal, t.allDay = FALSE
  PROVE  /\ t.startsAt \in Int
         /\ t.endsAt # Null => t.endsAt \in Int /\ t.endsAt >= t.startsAt
         /\ t = Timing(FALSE, t.startsAt, t.endsAt, Null, Null)
  <1>1. Normalized(t) = t /\ t # Null
    BY NormalTimes
  <1>2. ~(t.endsAt # Null /\ t.endsAt < t.startsAt)
    BY <1>1 DEF Normalized
  <1>3. t.endsAt \in Int \cup {Null} /\ t.startsAt \in Int
    BY NormalTimes
  <1>4. t = Timing(FALSE, t.startsAt, t.endsAt, Null, Null)
    BY <1>1, <1>2 DEF Normalized
  <1>5. t.endsAt # Null => t.endsAt \in Int /\ t.endsAt >= t.startsAt
    BY <1>2, <1>3
  <1>6. QED
    BY <1>3, <1>4, <1>5

(* What the form sends back for an instant of a minute the clock shows once. *)
LEMMA ShownOnceReturns ==
  ASSUME NEW z \in Zones, NEW i \in Int, ~ShownTwice(z, ToMinute(i))
  PROVE  Zoned(z, DateOf(Rendered(z, i)), TimeOf(Rendered(z, i))) = ToMinute(i)
  <1> DEFINE m == ToMinute(i)
             stored == Zoned(z, DateOf(Rendered(z, i)), TimeOf(Rendered(z, i)))
             moved == z.after - z.before
  <1>1. z \in Zone
    BY PageAssumption
  <1>2. stored \in Int /\ Rendered(z, stored) = Rendered(z, m)
    BY <1>1, LocalTimesStored, RenderedMinute
  <1>3. stored = m \/ stored \in {m - moved, m + moved}
    <2>1. m \in Int
      BY MinuteOf
    <2>2. z.change \in Int /\ z.before \in Int /\ z.after \in Int
      BY <1>1, ZoneTypes
    <2> HIDE DEF stored, m
    <2>3. QED
      BY <1>1, <1>2, <2>1, <2>2 DEF Rendered
  <1>4. QED
    BY <1>2, <1>3 DEF ShownTwice

LEMMA FormOfAllDay ==
  ASSUME NEW z \in Zones, NEW t \in Normal, t.allDay = TRUE
  PROVE  LET form == FormOf(View(z, t)) IN
           /\ form \in FormRow
           /\ form.allDay = TRUE /\ form.date = t.startsOn
           /\ form.endDate = Or(t.endsOn, t.startsOn)
  <1>1. t.startsOn \in Int /\ t.endsOn \in Int \cup {Null}
    BY AllDayTimes, NormalTimes
  <1>2. /\ View(z, t).allDay = TRUE /\ View(z, t).date = t.startsOn
        /\ View(z, t).endDate = t.endsOn /\ View(z, t).time = Null /\ View(z, t).endTime = Null
    BY DEF View, StartDate, Clocked
  <1>3. Nine \in Minutes /\ Ten \in Minutes
    BY WallClockAssumption
  <1>4. Or(t.endsOn, t.startsOn) \in Int
    BY <1>1 DEF Or
  <1>5. FormOf(View(z, t)) =
          [allDay |-> TRUE, date |-> t.startsOn, endDate |-> Or(t.endsOn, t.startsOn),
           time |-> Nine, endTime |-> Ten]
    BY <1>2 DEF FormOf, Or
  <1>6. QED
    BY <1>1, <1>3, <1>4, <1>5 DEF FormRow

LEMMA FormOfClocked ==
  ASSUME NEW z \in Zones, NEW t \in Normal, t.allDay = FALSE
  PROVE  LET form == FormOf(View(z, t)) IN
           /\ form \in FormRow
           /\ form.allDay = FALSE /\ form.date = DateOf(Rendered(z, t.startsAt))
           /\ form.time = TimeOf(Rendered(z, t.startsAt))
           /\ t.endsAt # Null => form.endTime = TimeOf(Rendered(z, t.endsAt))
  <1> DEFINE date == DateOf(Rendered(z, t.startsAt))
             time == TimeOf(Rendered(z, t.startsAt))
             last == DateOf(Rendered(z, t.endsAt))
             end == TimeOf(Rendered(z, t.endsAt))
             shownDate == IF t.endsAt # Null /\ last # date THEN last ELSE Null
             shownEnd == IF t.endsAt # Null THEN end ELSE Null
  <1>1. z \in Zone /\ t.startsAt \in Int /\ t.endsAt \in Int \cup {Null} /\ Null \notin Int
    BY PageAssumption, NormalTimes, WallClockAssumption
  <1>2. date \in Int /\ time \in Minutes
    BY <1>1, RenderedTypes, DayAndTime
  <1>3. t.endsAt # Null => last \in Int /\ end \in Minutes
    BY <1>1, RenderedTypes, DayAndTime
  <1>4. Nine \in Minutes /\ Ten \in Minutes /\ \A x \in Minutes : x # Null
    BY WallClockAssumption DEF Minutes
  <1>5. View(z, t) = [allDay |-> FALSE, date |-> date, endDate |-> shownDate, time |-> time,
                      endTime |-> shownEnd]
    BY DEF View, StartDate, Clocked
  <1> HIDE DEF date, time, last, end, shownDate, shownEnd
  <1>6. FormOf(View(z, t)) = [allDay |-> FALSE, date |-> date, endDate |-> Or(shownDate, date),
                              time |-> time, endTime |-> Or(shownEnd, Ten)]
    <2>1. FormOf(View(z, t)) = [allDay |-> FALSE, date |-> date, endDate |-> Or(shownDate, date),
                                time |-> Or(time, Nine), endTime |-> Or(shownEnd, Ten)]
      <3> DEFINE view == View(z, t)
      <3>1. /\ view.allDay = FALSE /\ view.date = date /\ view.endDate = shownDate
            /\ view.time = time /\ view.endTime = shownEnd
        BY <1>5
      <3> HIDE DEF view
      <3>2. FormOf(view) = [allDay |-> FALSE, date |-> date, endDate |-> Or(shownDate, date),
                            time |-> Or(time, Nine), endTime |-> Or(shownEnd, Ten)]
        BY <3>1 DEF FormOf
      <3>3. QED
        BY <3>2 DEF view
    <2>2. Or(time, Nine) = time
      BY <1>2, <1>4 DEF Or
    <2>3. QED
      BY <2>1, <2>2
  <1>7. Or(shownDate, date) \in Int /\ Or(shownEnd, Ten) \in Minutes
    BY <1>1, <1>2, <1>3, <1>4 DEF Or, shownDate, shownEnd
  <1>8. t.endsAt # Null => Or(shownEnd, Ten) = end
    BY <1>3, <1>4 DEF Or, shownEnd
  <1>9. QED
    BY <1>2, <1>6, <1>7, <1>8 DEF FormRow, date, time, end

LEMMA TimesReplaced ==
  ASSUME NEW t \in TimingRow, NEW from \in Int, NEW to \in Int
  PROVE  [t EXCEPT !.startsAt = from, !.endsAt = to] =
           Timing(t.allDay, from, to, t.startsOn, t.endsOn)
  <1> DEFINE u == [t EXCEPT !.startsAt = from, !.endsAt = to]
             v == Timing(t.allDay, from, to, t.startsOn, t.endsOn)
  <1>1. u \in TimingRow /\ v \in TimingRow
    BY DEF TimingRow, Timing
  <1>2. /\ u.allDay = v.allDay /\ u.startsAt = v.startsAt /\ u.endsAt = v.endsAt
        /\ u.startsOn = v.startsOn /\ u.endsOn = v.endsOn
    BY DEF TimingRow, Timing
  <1> HIDE DEF u, v
  <1>3. u = v
    BY <1>1, <1>2 DEF TimingRow
  <1>4. QED
    BY <1>3 DEF u, v

(* toCalendarItemView, the form, the request and normalizedTiming undo one  *)
(* another, to the minute, for every time the form can hold.                *)
LEMMA AllDayOnTheMinute ==
  ASSUME NEW t \in Normal, t.allDay = TRUE
  PROVE  OnTheMinute(t) = t
  <1>1. /\ t.startsOn \in Int /\ t.endsOn \in Int \cup {Null} /\ Null \notin Int
        /\ t = Timing(TRUE, MidnightUtc(t.startsOn), MidnightUtc(t.endsOn), t.startsOn, t.endsOn)
    BY AllDayTimes, NormalTimes, WallClockAssumption
  <1>2. \A date \in Int : date * Day \in Int /\ ToMinute(date * Day) = date * Day
    BY DaysAreWhole, MinuteOf DEF Minutes
  <1> DEFINE from == t.startsAt
             to == t.endsAt
  <1>3. from = MidnightUtc(t.startsOn) /\ to = MidnightUtc(t.endsOn)
    BY <1>1 DEF Timing
  <1>4. ToMinute(from) = from /\ (IF to = Null THEN Null ELSE ToMinute(to)) = to
    BY <1>1, <1>2, <1>3 DEF MidnightUtc
  <1>5. OnTheMinute(t) = [t EXCEPT !.startsAt = from, !.endsAt = to]
    BY <1>4 DEF OnTheMinute
  <1>6. t \in TimingRow
    BY NormalTimes
  <1>7. QED
    BY <1>5, <1>6 DEF TimingRow

LEMMA FormKeepsTimes ==
  ASSUME NEW z \in Zones, NEW t \in Normal, Holdable(z, t)
  PROVE  Normalized(Requested(z, FormOf(View(z, t)))) = OnTheMinute(t)
  <1> DEFINE form == FormOf(View(z, t))
  <1>1. t.allDay \in BOOLEAN /\ Null \notin Int
    BY NormalTimes, WallClockAssumption
  <1>2. CASE t.allDay = TRUE
    <2>1. /\ form.allDay = TRUE /\ form.date = t.startsOn
          /\ form.endDate = Or(t.endsOn, t.startsOn)
      BY <1>2, FormOfAllDay
    <2>2. t.endsOn # t.startsOn
      BY <1>2 DEF Holdable
    <2>3. Requested(z, form) = Timing(TRUE, Null, Null, t.startsOn, t.endsOn)
      BY <2>1, <2>2 DEF Requested, Or
    <2>4. /\ t.startsOn \in Int /\ (t.endsOn # Null => t.endsOn >= t.startsOn)
          /\ t = Timing(TRUE, MidnightUtc(t.startsOn), MidnightUtc(t.endsOn), t.startsOn, t.endsOn)
          /\ t.endsOn \in Int \cup {Null}
      BY <1>2, AllDayTimes, NormalTimes
    <2> DEFINE sent == Timing(TRUE, Null, Null, t.startsOn, t.endsOn)
    <2>5. sent.allDay = TRUE /\ sent.startsOn = t.startsOn /\ sent.endsOn = t.endsOn
      BY DEF Timing
    <2> HIDE DEF sent
    <2>6. ~(t.startsOn = Null \/ (t.endsOn # Null /\ t.endsOn < t.startsOn))
      BY <1>1, <2>4
    <2>7. Normalized(sent) = t
      BY <2>4, <2>5, <2>6 DEF Normalized
    <2>8. QED
      BY <1>2, <2>3, <2>7, AllDayOnTheMinute DEF sent
  <1>3. CASE t.allDay = FALSE
    <2>1. /\ t.endsAt # Null
          /\ DateOf(Rendered(z, t.endsAt)) = DateOf(Rendered(z, t.startsAt))
          /\ ~ShownTwice(z, ToMinute(t.startsAt)) /\ ~ShownTwice(z, ToMinute(t.endsAt))
      BY <1>3 DEF Holdable
    <2>2. /\ t.startsAt \in Int /\ t.endsAt \in Int /\ t.endsAt >= t.startsAt
          /\ t = Timing(FALSE, t.startsAt, t.endsAt, Null, Null)
      BY <1>3, <2>1, ClockTimes
    <2>3. /\ form.allDay = FALSE /\ form.date = DateOf(Rendered(z, t.startsAt))
          /\ form.time = TimeOf(Rendered(z, t.startsAt))
          /\ form.endTime = TimeOf(Rendered(z, t.endsAt))
      BY <1>3, <2>1, FormOfClocked
    <2> DEFINE from == ToMinute(t.startsAt)
               to == ToMinute(t.endsAt)
               cut == Timing(FALSE, from, to, Null, Null)
    <2>4. Zoned(z, form.date, form.time) = from /\ Zoned(z, form.date, form.endTime) = to
      BY <2>1, <2>2, <2>3, ShownOnceReturns
    <2>5. Requested(z, form) = cut
      BY <2>3, <2>4 DEF Requested
    <2>6. from \in Int /\ to \in Int /\ from <= to
      BY <2>2, MinuteOf, MinutesInOrder
    <2>7. OnTheMinute(t) = cut
      <3>1. OnTheMinute(t) = [t EXCEPT !.startsAt = from, !.endsAt = to]
        BY <2>1 DEF OnTheMinute
      <3> HIDE DEF from, to
      <3>2. t \in TimingRow /\ t.startsOn = Null /\ t.endsOn = Null
        BY <2>2, NormalTimes DEF Timing
      <3>3. [t EXCEPT !.startsAt = from, !.endsAt = to] =
              Timing(t.allDay, from, to, t.startsOn, t.endsOn)
        BY <2>6, <3>2, TimesReplaced
      <3>4. QED
        BY <1>3, <3>1, <3>2, <3>3
    <2> HIDE DEF from, to
    <2>8. cut.allDay = FALSE /\ cut.startsAt = from /\ cut.endsAt = to
      BY DEF Timing
    <2>9. Normalized(cut) = cut
      <3>1. ~(to # Null /\ to < from)
        BY <2>6
      <3>2. QED
        BY <2>8, <3>1 DEF Normalized
    <2>10. QED
      BY <2>5, <2>7, <2>9
  <1>4. QED
    BY <1>1, <1>2, <1>3

LEMMA ZonedTypes ==
  ASSUME NEW z \in Zone, NEW date \in Int, NEW time \in Int
  PROVE  Zoned(z, date, time) \in Int \cup {Null}
  <1> DEFINE local == date * Day + time
  <1>1. local \in Int
    BY WallClockAssumption DEF Minutes
  <1> HIDE DEF local
  <1>2. \A g \in Int : Rendered(z, g) \in Int /\ ToMinute(Rendered(z, g)) \in Int
    BY RenderedTypes, MinuteOf
  <1>3. \A g \in Int : Corrected(z, local, g) \in Int
    BY <1>1, <1>2 DEF Corrected
  <1>4. Converted(z, local) \in Int
    BY <1>1, <1>3 DEF Converted
  <1>5. QED
    BY <1>4 DEF Zoned, local

LEMMA AllDayNormalized ==
  ASSUME NEW from \in Int, NEW to \in Int \cup {Null}
  PROVE  LET t == Timing(TRUE, Null, Null, from, to) IN
           Normalized(t) \in Normal \cup {Null} /\ t \in TimingRow
  <1> DEFINE t == Timing(TRUE, Null, Null, from, to)
             n == Timing(TRUE, MidnightUtc(from), MidnightUtc(to), from, to)
  <1>1. Null \notin Int /\ Day \in Int
    BY WallClockAssumption DEF Minutes
  <1>2. t \in TimingRow
    BY DEF Timing, TimingRow
  <1>4. t.allDay = TRUE /\ t.startsOn = from /\ t.endsOn = to
    BY DEF Timing
  <1>5. MidnightUtc(from) \in Int /\ MidnightUtc(to) \in Int \cup {Null}
    BY <1>1 DEF MidnightUtc
  <1>6. n \in TimingRow /\ n.allDay = TRUE /\ n.startsOn = from /\ n.endsOn = to
        /\ n.startsAt # Null
    BY <1>1, <1>5 DEF Timing, TimingRow
  <1> HIDE DEF t, n
  <1>7. Normalized(t) = IF from = Null \/ (to # Null /\ to < from) THEN Null ELSE n
    BY <1>4 DEF Normalized, n
  <1>8. Normalized(n) = IF from = Null \/ (to # Null /\ to < from) THEN Null ELSE n
    BY <1>6 DEF Normalized, n
  <1>9. Normalized(t) \in Normal \cup {Null}
    BY <1>6, <1>7, <1>8 DEF Normal
  <1>10. QED
    BY <1>2, <1>9 DEF t

LEMMA ClockNormalized ==
  ASSUME NEW from \in Int, NEW to \in Int
  PROVE  LET t == Timing(FALSE, from, to, Null, Null) IN
           Normalized(t) \in Normal \cup {Null} /\ t \in TimingRow
  <1> DEFINE t == Timing(FALSE, from, to, Null, Null)
  <1>1. Null \notin Int
    BY WallClockAssumption
  <1>2. t \in TimingRow /\ t.allDay = FALSE /\ t.startsAt = from /\ t.endsAt = to
    BY DEF Timing, TimingRow
  <1> HIDE DEF t
  <1>4. Normalized(t) = IF to # Null /\ to < from THEN Null ELSE t
    BY <1>2 DEF Normalized, t
  <1>5. Normalized(t) \in Normal \cup {Null}
    BY <1>1, <1>2, <1>4 DEF Normal
  <1>6. QED
    BY <1>2, <1>5 DEF t

(* What the form sends, the server makes normal or refuses.                 *)
LEMMA RequestedTimes ==
  ASSUME NEW z \in Zones, NEW form \in FormRow, ~CannotSend(Requested(z, form))
  PROVE  /\ Normalized(Requested(z, form)) \in Normal \cup {Null}
         /\ Requested(z, form) \in TimingRow
  <1> DEFINE t == Requested(z, form)
  <1>1. z \in Zone /\ Null \notin Int /\ Day \in Int
    BY PageAssumption, WallClockAssumption DEF Minutes
  <1>2. form.allDay \in BOOLEAN /\ form.date \in Int /\ form.endDate \in Int
        /\ form.time \in Int /\ form.endTime \in Int
    BY DEF FormRow, Minutes
  <1>3. CASE form.allDay = TRUE
    <2> DEFINE end == IF form.endDate # form.date THEN form.endDate ELSE Null
    <2>1. t = Timing(TRUE, Null, Null, form.date, end)
      BY <1>3 DEF Requested
    <2>2. end \in Int \cup {Null} /\ MidnightUtc(form.date) \in Int
          /\ MidnightUtc(end) \in Int \cup {Null}
      BY <1>1, <1>2 DEF MidnightUtc
    <2> HIDE DEF end
    <2>3. QED
      BY <1>1, <1>2, <2>1, <2>2, AllDayNormalized
  <1>4. CASE form.allDay = FALSE
    <2>1. t = Timing(FALSE, Zoned(z, form.date, form.time), Zoned(z, form.date, form.endTime), Null, Null)
      BY <1>4 DEF Requested
    <2>2. \A date, time \in Int : Zoned(z, date, time) \in Int \cup {Null}
      BY <1>1, ZonedTypes
    <2>3. t.startsAt # Null /\ t.endsAt # Null
      BY <2>1 DEF CannotSend, Timing
    <2>4. Zoned(z, form.date, form.time) \in Int /\ Zoned(z, form.date, form.endTime) \in Int
      BY <1>2, <2>1, <2>2, <2>3 DEF Timing
    <2>5. QED
      BY <2>1, <2>4, ClockNormalized
  <1>5. QED
    BY <1>2, <1>3, <1>4

-----------------------------------------------------------------------------
(* The calendar page.                                                      *)

PageItem == [timing : Normal, done : BOOLEAN]
Lists == [Items -> PageItem \cup {Null}]

PanelRow ==
  [id : Items \cup {Null}, form : FormRow \cup {Null}, editing : BOOLEAN, saving : BOOLEAN,
   opened : Normal \cup {Null}]

Answered == PageItem \cup Lists \cup {"OK", Null}

PageRequest ==
  [op : {"LIST", "RELIST", "ADD", "UPDATE", "DELETE"}, id : Items \cup {Null},
   timing : TimingRow \cup {Null}, done : BOOLEAN \cup {Null}, mounted : BOOLEAN,
   opened : Normal \cup {Null}, answered : BOOLEAN,
   answer : Answered]

PageCalls == [Calls -> PageRequest \cup {NoCall}]

(* A panel with a form is that of an item in the list; a form nothing was   *)
(* typed into holds the item it was opened for.                             *)
GoodPanel(z, p, list) ==
  /\ p \in PanelRow
  /\ p.form # Null => p.id # Null /\ list[p.id] # Null
  /\ p.form = Null => p.editing = FALSE /\ p.saving = FALSE
  /\ p.opened # Null => p.form = FormOf(View(z, p.opened))

(* What a request sends and what it is answered.                            *)
GoodCall(z, call) ==
  /\ call.op \in {"LIST", "RELIST"} /\ call.answered = TRUE => call.answer \in Lists
  /\ call.op = "ADD" => Normalized(call.timing) \in Normal \cup {Null}
  /\ call.op = "UPDATE" =>
       /\ call.id \in Items
       /\ call.timing # Null => Normalized(call.timing) \in Normal \cup {Null}
       /\ call.answered = TRUE => call.answer \in PageItem
       /\ call.opened # Null => call.timing = Requested(z, FormOf(View(z, call.opened)))
  /\ call.op = "DELETE" => call.id \in Items

(* One submission at a time belongs to the form for a new item.             *)
Submits(call) == call.op \in {"ADD", "RELIST"} /\ call.mounted = TRUE

OneSubmission(state, table) ==
  /\ state \in {"HIDDEN", "SHOWN", "SUBMITTING"}
  /\ state = "SUBMITTING" <=> \E c \in Calls : Submits(table[c])
  /\ \A c, d \in Calls : Submits(table[c]) /\ Submits(table[d]) => c = d

GoodCalls(z, table) == table \in PageCalls /\ \A c \in Calls : GoodCall(z, table[c])

Paging ==
  /\ zone \in Zones /\ board \in Lists /\ shown \in Lists /\ loading \in BOOLEAN
  /\ GoodPanel(zone, panel, shown)
  /\ GoodCalls(zone, calls)
  /\ OneSubmission(adding, calls)

LEMMA NullIsNone ==
  Null \notin Items /\ Null \notin Normal /\ Null \notin FormRow /\ Null \notin PageItem
  BY PageAssumption DEF Normal, PageItem

LEMMA ItemTypes ==
  ASSUME NEW t \in Normal, NEW done \in BOOLEAN
  PROVE  /\ Item(t, done) \in PageItem /\ Item(t, done) # Null
         /\ Item(t, done).timing = t /\ Item(t, done).done = done
  BY NullIsNone DEF Item, PageItem

LEMMA NoCallIsNone ==
  NoCall.op = "NONE" /\ NoCall \notin PageRequest /\ ~Submits(NoCall) /\ \A z : GoodCall(z, NoCall)
  <1>1. NoCall.op = "NONE"
    BY DEF NoCall
  <1>2. \A call \in PageRequest : call.op # "NONE"
    BY DEF PageRequest
  <1>3. QED
    BY <1>1, <1>2 DEF Submits, GoodCall

LEMMA CallTypes ==
  ASSUME NEW call \in PageRequest \cup {NoCall}, call # NoCall \/ call.op # "NONE"
  PROVE  /\ call \in PageRequest
         /\ call.op \in {"LIST", "RELIST", "ADD", "UPDATE", "DELETE"}
         /\ call.id \in Items \cup {Null} /\ call.timing \in TimingRow \cup {Null}
         /\ call.done \in BOOLEAN \cup {Null} /\ call.mounted \in BOOLEAN
         /\ call.opened \in Normal \cup {Null} /\ call.answered \in BOOLEAN
         /\ call.answer \in Answered
  <1>1. call \in PageRequest
    BY NoCallIsNone
  <1>2. QED
    BY <1>1 DEF PageRequest

LEMMA MountedSet ==
  ASSUME NEW z, NEW call \in PageRequest, NEW mounted \in BOOLEAN, GoodCall(z, call),
         NEW row, row = [call EXCEPT !.mounted = mounted]
  PROVE  /\ row \in PageRequest /\ GoodCall(z, row)
         /\ row.op = call.op /\ row.mounted = mounted
  <1>1. /\ row \in PageRequest /\ row.op = call.op /\ row.mounted = mounted
        /\ row.id = call.id /\ row.timing = call.timing /\ row.opened = call.opened
        /\ row.answered = call.answered /\ row.answer = call.answer
    BY DEF PageRequest
  <1>2. GoodCall(z, row)
    BY <1>1 DEF GoodCall
  <1>3. QED
    BY <1>1, <1>2

(* One request replaced, for one that submits the form just where it did.   *)
LEMMA CallReplaced ==
  ASSUME NEW z, NEW table, GoodCalls(z, table), NEW c \in Calls,
         NEW call \in PageRequest \cup {NoCall}, GoodCall(z, call)
  PROVE  /\ GoodCalls(z, [table EXCEPT ![c] = call])
         /\ [table EXCEPT ![c] = call][c] = call
         /\ \A d \in Calls : d # c => [table EXCEPT ![c] = call][d] = table[d]
  BY DEF GoodCalls, PageCalls

LEMMA SubmissionsSame ==
  ASSUME NEW state, NEW table, NEW other, OneSubmission(state, table),
         \A c \in Calls : Submits(other[c]) <=> Submits(table[c])
  PROVE  OneSubmission(state, other)
  BY DEF OneSubmission

LEMMA UnsubmittedCalls ==
  ASSUME NEW z, NEW table, GoodCalls(z, table)
  PROVE  GoodCalls(z, Unsubmitted(table)) /\ \A c \in Calls : ~Submits(Unsubmitted(table)[c])
  <1> DEFINE next == Unsubmitted(table)
  <1>1. \A c \in Calls : table[c] \in PageRequest \cup {NoCall} /\ GoodCall(z, table[c])
    BY DEF GoodCalls, PageCalls
  <1>2. ASSUME NEW c \in Calls
        PROVE  next[c] \in PageRequest \cup {NoCall} /\ GoodCall(z, next[c]) /\ ~Submits(next[c])
    <2>1. CASE table[c].op \in {"ADD", "RELIST"}
      <3>1. next[c] = [table[c] EXCEPT !.mounted = FALSE]
        BY <2>1 DEF Unsubmitted
      <3>2. table[c] \in PageRequest
        BY <1>1, <2>1, CallTypes
      <3> DEFINE call == table[c]
                 row == next[c]
      <3>3. /\ call \in PageRequest /\ GoodCall(z, call)
            /\ row = [call EXCEPT !.mounted = FALSE]
        BY <1>1, <3>1, <3>2
      <3> HIDE DEF next, call, row
      <3>4. row \in PageRequest /\ GoodCall(z, row) /\ row.op = call.op /\ row.mounted = FALSE
        BY <3>3, MountedSet
      <3>5. next[c] \in PageRequest /\ GoodCall(z, next[c]) /\ next[c].mounted = FALSE
        BY <3>4 DEF row, call
      <3>6. QED
        BY <3>5 DEF Submits
    <2>2. CASE table[c].op \notin {"ADD", "RELIST"}
      <3>1. next[c] = table[c]
        BY <2>2 DEF Unsubmitted
      <3>2. QED
        BY <1>1, <2>2, <3>1 DEF Submits
    <2>3. QED
      BY <2>1, <2>2
  <1>3. next = [c \in Calls |-> next[c]]
    BY DEF Unsubmitted
  <1> HIDE DEF next
  <1>4. GoodCalls(z, next) /\ \A c \in Calls : ~Submits(next[c])
    BY <1>2, <1>3 DEF GoodCalls, PageCalls
  <1>5. QED
    BY <1>4 DEF next

LEMMA DetachedCalls ==
  ASSUME NEW z, NEW table, NEW next, GoodCalls(z, table)
  PROVE  /\ GoodCalls(z, Detached(table, next))
         /\ \A c \in Calls : Submits(Detached(table, next)[c]) <=> Submits(table[c])
  <1> DEFINE left == Detached(table, next)
             Lost(c) == table[c].op \in {"UPDATE", "DELETE"} /\ (next.form = Null \/ next.id # panel.id)
  <1>1. \A c \in Calls : table[c] \in PageRequest \cup {NoCall} /\ GoodCall(z, table[c])
    BY DEF GoodCalls, PageCalls
  <1>2. ASSUME NEW c \in Calls
        PROVE  /\ left[c] \in PageRequest \cup {NoCall} /\ GoodCall(z, left[c])
               /\ Submits(left[c]) <=> Submits(table[c])
    <2>1. CASE Lost(c)
      <3>1. left[c] = [table[c] EXCEPT !.mounted = FALSE]
        BY <2>1 DEF Detached
      <3>2. table[c] \in PageRequest
        BY <1>1, <2>1, CallTypes
      <3> DEFINE call == table[c]
                 row == left[c]
      <3>3. /\ call \in PageRequest /\ GoodCall(z, call)
            /\ row = [call EXCEPT !.mounted = FALSE]
        BY <1>1, <3>1, <3>2
      <3> HIDE DEF left, Lost, call, row
      <3>4. row \in PageRequest /\ GoodCall(z, row) /\ row.op = call.op /\ row.mounted = FALSE
        BY <3>3, MountedSet
      <3>5. left[c] \in PageRequest /\ GoodCall(z, left[c]) /\ left[c].op = table[c].op
        BY <3>4 DEF row, call
      <3>6. table[c].op \notin {"ADD", "RELIST"}
        BY <2>1 DEF Lost
      <3>7. QED
        BY <3>5, <3>6 DEF Submits
    <2>2. CASE ~Lost(c)
      <3>1. left[c] = table[c]
        BY <2>2 DEF Detached
      <3>2. QED
        BY <1>1, <3>1
    <2>3. QED
      BY <2>1, <2>2
  <1>3. left = [c \in Calls |-> left[c]]
    BY DEF Detached
  <1> HIDE DEF left, Lost
  <1>4. GoodCalls(z, left) /\ \A c \in Calls : Submits(left[c]) <=> Submits(table[c])
    BY <1>2, <1>3 DEF GoodCalls, PageCalls
  <1>5. QED
    BY <1>4 DEF left

LEMMA FormTypes ==
  ASSUME NEW z \in Zones, NEW t \in Normal
  PROVE  FormOf(View(z, t)) \in FormRow
  BY FormOfAllDay, FormOfClocked, NormalTimes

(* A panel mounted or kept is good for the list that is rendered.           *)
LEMMA PanelTypes ==
  ASSUME zone \in Zones, NEW old, GoodPanel(zone, panel, old), NEW list \in Lists,
         NEW id \in Items \cup {Null}
  PROVE  GoodPanel(zone, Panel(id, list), list)
  <1> DEFINE p == Panel(id, list)
  <1>1. CASE id = Null \/ list[id] = Null
    <2>1. p = [Closed EXCEPT !.id = id]
      BY <1>1 DEF Panel
    <2>2. /\ p \in PanelRow /\ p.form = Null /\ p.opened = Null
          /\ p.editing = FALSE /\ p.saving = FALSE
      BY <2>1 DEF Closed, PanelRow
    <2> HIDE DEF p
    <2>3. GoodPanel(zone, p, list)
      BY <2>2 DEF GoodPanel
    <2>4. QED
      BY <2>3 DEF p
  <1>2. CASE id # Null /\ list[id] # Null /\ panel.id = id /\ panel.form # Null
    <2>1. p = panel
      BY <1>2 DEF Panel
    <2>2. GoodPanel(zone, panel, list)
      BY <1>2 DEF GoodPanel
    <2>3. QED
      BY <2>1, <2>2
  <1>3. CASE id # Null /\ list[id] # Null /\ ~(panel.id = id /\ panel.form # Null)
    <2>1. list[id] \in PageItem
      BY <1>3 DEF Lists
    <2> DEFINE t == list[id].timing
               form == FormOf(View(zone, t))
    <2>2. t \in Normal
      BY <2>1 DEF PageItem
    <2> HIDE DEF t
    <2>3. form \in FormRow /\ form # Null
      BY <2>2, FormTypes, NullIsNone
    <2>4. p = [id |-> id, form |-> form, editing |-> FALSE, saving |-> FALSE, opened |-> t]
      BY <1>3 DEF Panel, t
    <2> HIDE DEF p, form
    <2>5. /\ p \in PanelRow /\ p.form = form /\ p.opened = t /\ p.id = id
      BY <2>2, <2>3, <2>4 DEF PanelRow
    <2>6. GoodPanel(zone, p, list)
      BY <1>3, <2>3, <2>5 DEF GoodPanel, form
    <2>7. QED
      BY <2>6 DEF p
  <1>4. QED
    BY <1>1, <1>2, <1>3

LEMMA Rendering ==
  ASSUME zone \in Zones, GoodPanel(zone, panel, shown), NEW list \in Lists,
         NEW id \in Items \cup {Null}, NEW table, GoodCalls(zone, table), Renders(list, id, table)
  PROVE  /\ shown' \in Lists /\ GoodPanel(zone, panel', shown') /\ GoodCalls(zone, calls')
         /\ \A c \in Calls : Submits(calls'[c]) <=> Submits(table[c])
  <1>1. shown' = list /\ panel' = Panel(id, list) /\ calls' = Detached(table, panel')
    BY DEF Renders
  <1>2. GoodPanel(zone, panel', shown')
    BY <1>1, PanelTypes
  <1>3. GoodCalls(zone, calls') /\ \A c \in Calls : Submits(calls'[c]) <=> Submits(table[c])
    BY <1>1, DetachedCalls
  <1>4. QED
    BY <1>1, <1>2, <1>3

LEMMA PagingInit == PageInit => Paging
  <1> SUFFICES ASSUME PageInit PROVE Paging
    OBVIOUS
  <1>1. zone \in Zones /\ loading \in BOOLEAN /\ adding = "HIDDEN" /\ panel = Closed
    BY DEF PageInit
  <1>2. board \in Lists
    <2>1. PICK t \in Timings(zone) : board = [x \in Items |-> Item(t, FALSE)]
      BY DEF PageInit
    <2>2. t \in Normal
      BY <1>1, PageAssumption
    <2>3. QED
      BY <2>1, <2>2, ItemTypes DEF Lists
  <1>3. shown \in Lists
    BY DEF PageInit, Lists
  <1>4. GoodPanel(zone, panel, shown)
    <2>1. /\ panel \in PanelRow /\ panel.form = Null /\ panel.opened = Null
          /\ panel.editing = FALSE /\ panel.saving = FALSE
      BY <1>1 DEF Closed, PanelRow
    <2>2. QED
      BY <2>1 DEF GoodPanel
  <1>5. GoodCalls(zone, calls) /\ \A c \in Calls : ~Submits(calls[c])
    <2> DEFINE first == Sent("LIST", Null, Null, Null, FALSE, Null)
    <2>1. PICK c \in Calls : calls = [d \in Calls |-> IF d = c THEN first ELSE NoCall]
      BY DEF PageInit
    <2>2. first \in PageRequest /\ first.op = "LIST" /\ first.answered = FALSE
      BY DEF Sent, PageRequest, Answered
    <2> HIDE DEF first
    <2>3. GoodCall(zone, first) /\ ~Submits(first)
      BY <2>2 DEF GoodCall, Submits
    <2>4. GoodCall(zone, NoCall) /\ ~Submits(NoCall)
      BY NoCallIsNone
    <2>5. QED
      BY <2>1, <2>2, <2>3, <2>4 DEF GoodCalls, PageCalls
  <1>6. OneSubmission(adding, calls)
    BY <1>1, <1>5 DEF OneSubmission
  <1>7. QED
    BY <1>1, <1>2, <1>3, <1>4, <1>5, <1>6 DEF Paging

(* What the user does with the panel.                                       *)
LEMMA PanelSteps ==
  ASSUME Paging,
         \/ \E id \in Items \cup {Null} : Select(id)
         \/ Edit \/ (\E form \in Typed : Type(form)) \/ CancelEdit
  PROVE  Paging'
  <1>1. ASSUME NEW id \in Items \cup {Null}, Select(id) PROVE Paging'
    <2>1. Renders(shown, id, calls) /\ UNCHANGED <<zone, board, loading, adding>>
      BY <1>1 DEF Select
    <2>2. /\ shown' \in Lists /\ GoodPanel(zone, panel', shown') /\ GoodCalls(zone, calls')
          /\ \A c \in Calls : Submits(calls'[c]) <=> Submits(calls[c])
      BY <2>1, Rendering DEF Paging
    <2>3. OneSubmission(adding, calls')
      BY <2>2, SubmissionsSame DEF Paging
    <2>4. QED
      BY <2>1, <2>2, <2>3 DEF Paging
  <1>2. ASSUME NEW p, p \in PanelRow, p.id = panel.id, p.form # Null, panel.form # Null,
               p.opened # Null => p.form = panel.form /\ p.opened = panel.opened,
               panel' = p, UNCHANGED <<zone, board, shown, loading, adding, calls>>
        PROVE  Paging'
    <2>1. GoodPanel(zone, p, shown)
      BY <1>2 DEF Paging, GoodPanel
    <2>2. QED
      BY <1>2, <2>1 DEF Paging
  <1>3. panel \in PanelRow /\ (panel.editing = TRUE => panel.form # Null)
    BY DEF Paging, GoodPanel
  <1>4. ASSUME Edit PROVE Paging'
    <2> DEFINE p == [panel EXCEPT !.editing = TRUE]
    <2>1. /\ p \in PanelRow /\ p.id = panel.id /\ p.form = panel.form /\ p.opened = panel.opened
      BY <1>3 DEF PanelRow
    <2>2. panel' = p /\ panel.form # Null /\ UNCHANGED <<zone, board, shown, loading, adding, calls>>
      BY <1>4 DEF Edit
    <2> HIDE DEF p
    <2>3. QED
      BY <1>2, <2>1, <2>2
  <1>5. ASSUME NEW form \in Typed, Type(form) PROVE Paging'
    <2> DEFINE a == [panel EXCEPT !.form = form]
               p == [a EXCEPT !.opened = Null]
    <2>1. form \in FormRow /\ form # Null
      BY PageAssumption, NullIsNone
    <2>2. a \in PanelRow /\ a.id = panel.id /\ a.form = form
      BY <1>3, <2>1 DEF PanelRow
    <2>3. panel' = p /\ panel.editing = TRUE
          /\ UNCHANGED <<zone, board, shown, loading, adding, calls>>
      BY <1>3, <1>5 DEF Type, PanelRow
    <2> HIDE DEF a
    <2>4. p \in PanelRow /\ p.id = panel.id /\ p.form = form /\ p.opened = Null
      BY <2>2 DEF PanelRow
    <2> HIDE DEF p
    <2>5. QED
      BY <1>2, <1>3, <2>1, <2>3, <2>4
  <1>6. ASSUME CancelEdit PROVE Paging'
    <2> DEFINE p == [panel EXCEPT !.editing = FALSE]
    <2>1. /\ p \in PanelRow /\ p.id = panel.id /\ p.form = panel.form /\ p.opened = panel.opened
      BY <1>3 DEF PanelRow
    <2>2. panel' = p /\ panel.editing = TRUE
          /\ UNCHANGED <<zone, board, shown, loading, adding, calls>>
      BY <1>3, <1>6 DEF CancelEdit, PanelRow
    <2> HIDE DEF p
    <2>3. QED
      BY <1>2, <1>3, <2>1, <2>2
  <1>7. QED
    BY <1>1, <1>4, <1>5, <1>6

(* A request sent, answered or given up, with what stays of the rest.       *)
LEMMA CallStep ==
  ASSUME Paging, NEW c \in Calls, NEW call \in PageRequest \cup {NoCall}, GoodCall(zone, call),
         calls' = [calls EXCEPT ![c] = call], UNCHANGED zone,
         board' \in Lists, shown' \in Lists, loading' \in BOOLEAN,
         GoodPanel(zone, panel', shown'),
         OneSubmission(adding', [calls EXCEPT ![c] = call])
  PROVE  Paging'
  BY CallReplaced DEF Paging

LEMMA SubmitsAlike ==
  ASSUME Paging, NEW c \in Calls, NEW call, Submits(call) <=> Submits(calls[c])
  PROVE  OneSubmission(adding, [calls EXCEPT ![c] = call])
  <1> DEFINE next == [calls EXCEPT ![c] = call]
  <1>1. \A d \in Calls : next[d] = IF d = c THEN call ELSE calls[d]
    BY DEF Paging, GoodCalls, PageCalls
  <1>2. OneSubmission(adding, calls)
    BY DEF Paging
  <1> HIDE DEF next
  <1>3. OneSubmission(adding, next)
    BY <1>1, <1>2, SubmissionsSame
  <1>4. QED
    BY <1>3 DEF next

LEMMA SendingSteps ==
  ASSUME Paging, NEW c \in Calls,
         (\E id \in Items : ToggleComplete(c, id)) \/ SaveForm(c) \/ Delete(c)
  PROVE  Paging'
  <1>1. ASSUME NEW call \in PageRequest, GoodCall(zone, call), call.op \in {"UPDATE", "DELETE"},
               Sends(c, call), GoodPanel(zone, panel', shown),
               UNCHANGED <<zone, board, shown, loading, adding>>
        PROVE  Paging'
    <2>1. calls[c] = NoCall /\ calls' = [calls EXCEPT ![c] = call]
      BY <1>1 DEF Sends
    <2>2. ~Submits(call) /\ ~Submits(calls[c])
      BY <1>1, <2>1, NoCallIsNone DEF Submits
    <2>3. OneSubmission(adding, [calls EXCEPT ![c] = call])
      BY <2>2, SubmitsAlike
    <2>4. QED
      BY <1>1, <2>1, <2>3, CallStep DEF Paging
  <1>2. zone \in Zones /\ GoodPanel(zone, panel, shown) /\ panel \in PanelRow
    BY DEF Paging, GoodPanel
  <1>3. GoodPanel(zone, [panel EXCEPT !.saving = TRUE], shown) \/ panel.editing = FALSE
    <2> DEFINE p == [panel EXCEPT !.saving = TRUE]
    <2>1. /\ p \in PanelRow /\ p.id = panel.id /\ p.form = panel.form /\ p.opened = panel.opened
          /\ p.editing = panel.editing
      BY <1>2 DEF PanelRow
    <2>2. panel.editing \in BOOLEAN
      BY <1>2 DEF PanelRow
    <2> HIDE DEF p
    <2>3. panel.editing = TRUE => GoodPanel(zone, p, shown)
      BY <1>2, <2>1 DEF GoodPanel
    <2>4. QED
      BY <2>2, <2>3 DEF p
  <1>4. ASSUME NEW id \in Items, ToggleComplete(c, id) PROVE Paging'
    <2> DEFINE done == ~shown[id].done
               call == Sent("UPDATE", id, Null, done, FALSE, Null)
    <2>1. done \in BOOLEAN
      OBVIOUS
    <2> HIDE DEF done
    <2>2. call \in PageRequest /\ call.op = "UPDATE" /\ call.id = id /\ call.timing = Null
          /\ call.opened = Null /\ call.answered = FALSE
      BY <2>1 DEF Sent, PageRequest, Answered
    <2>3. Sends(c, call) /\ UNCHANGED <<zone, board, shown, loading, adding, panel>>
      BY <1>4 DEF ToggleComplete, done
    <2> HIDE DEF call
    <2>4. GoodCall(zone, call)
      BY <2>2 DEF GoodCall
    <2>5. QED
      BY <1>1, <1>2, <2>2, <2>3, <2>4
  <1>5. ASSUME SaveForm(c) PROVE Paging'
    <2> DEFINE timing == Requested(zone, panel.form)
               call == Sent("UPDATE", panel.id, timing, Null, TRUE, panel.opened)
    <2>1. /\ ~CannotSend(timing) /\ Sends(c, call) /\ panel.editing = TRUE
          /\ panel' = [panel EXCEPT !.saving = TRUE]
          /\ UNCHANGED <<zone, board, shown, loading, adding>>
      BY <1>2, <1>5 DEF SaveForm, PanelRow
    <2>2. panel.form \in FormRow /\ panel.id \in Items
          /\ panel.opened \in Normal \cup {Null}
          /\ (panel.opened # Null => panel.form = FormOf(View(zone, panel.opened)))
      BY <1>2, <2>1 DEF GoodPanel, PanelRow
    <2>3. timing \in TimingRow /\ Normalized(timing) \in Normal \cup {Null}
      BY <1>2, <2>1, <2>2, RequestedTimes
    <2>4. panel.opened # Null => timing = Requested(zone, FormOf(View(zone, panel.opened)))
      BY <2>2
    <2> HIDE DEF timing
    <2>5. call \in PageRequest /\ call.op = "UPDATE" /\ call.id = panel.id
          /\ call.timing = timing /\ call.opened = panel.opened /\ call.answered = FALSE
      BY <2>2, <2>3 DEF Sent, PageRequest, Answered
    <2> HIDE DEF call
    <2>6. GoodCall(zone, call)
      BY <2>2, <2>3, <2>4, <2>5 DEF GoodCall
    <2>7. QED
      BY <1>1, <1>3, <2>1, <2>5, <2>6
  <1>6. ASSUME Delete(c) PROVE Paging'
    <2> DEFINE call == Sent("DELETE", panel.id, Null, Null, TRUE, Null)
    <2>1. /\ Sends(c, call) /\ panel.editing = TRUE
          /\ panel' = [panel EXCEPT !.saving = TRUE]
          /\ UNCHANGED <<zone, board, shown, loading, adding>>
      BY <1>2, <1>6 DEF Delete, PanelRow
    <2>2. panel.id \in Items
      BY <1>2, <2>1 DEF GoodPanel, PanelRow
    <2>3. call \in PageRequest /\ call.op = "DELETE" /\ call.id = panel.id
      BY <2>2 DEF Sent, PageRequest, Answered
    <2> HIDE DEF call
    <2>4. GoodCall(zone, call)
      BY <2>2, <2>3 DEF GoodCall
    <2>5. QED
      BY <1>1, <1>3, <2>1, <2>3, <2>4
  <1>7. QED
    BY <1>4, <1>5, <1>6

(* The form for a new item.                                                 *)
LEMMA AddingSteps ==
  ASSUME Paging,
         \/ ShowAddForm
         \/ \E c \in Calls : (\E form \in Typed : Add(c, form)) \/ TakeAdd(c)
  PROVE  Paging'
  <1>1. zone \in Zones /\ OneSubmission(adding, calls) /\ GoodCalls(zone, calls)
        /\ GoodPanel(zone, panel, shown)
    BY DEF Paging
  <1>2. ASSUME ShowAddForm PROVE Paging'
    <2>1. /\ adding' \in {"HIDDEN", "SHOWN"} /\ calls' = Unsubmitted(calls)
          /\ UNCHANGED <<zone, board, shown, loading, panel>>
      BY <1>2 DEF ShowAddForm
    <2>2. GoodCalls(zone, calls') /\ \A c \in Calls : ~Submits(calls'[c])
      BY <1>1, <2>1, UnsubmittedCalls
    <2>3. OneSubmission(adding', calls')
      BY <2>1, <2>2 DEF OneSubmission
    <2>4. QED
      BY <2>1, <2>2, <2>3 DEF Paging
  <1>3. ASSUME NEW c \in Calls, NEW form \in Typed, Add(c, form) PROVE Paging'
    <2> DEFINE timing == Requested(zone, form)
               call == Sent("ADD", Null, timing, FALSE, TRUE, Null)
               next == [calls EXCEPT ![c] = call]
    <2>1. /\ ~CannotSend(timing) /\ calls[c] = NoCall /\ calls' = next
          /\ adding = "SHOWN" /\ adding' = "SUBMITTING"
          /\ UNCHANGED <<zone, board, shown, loading, panel>>
      BY <1>3 DEF Add, Sends
    <2>2. form \in FormRow
      BY PageAssumption
    <2>3. timing \in TimingRow /\ Normalized(timing) \in Normal \cup {Null}
      BY <1>1, <2>1, <2>2, RequestedTimes
    <2> HIDE DEF timing
    <2>4. call \in PageRequest /\ call.op = "ADD" /\ call.timing = timing /\ call.mounted = TRUE
      BY <2>3 DEF Sent, PageRequest, Answered
    <2> HIDE DEF call
    <2>5. GoodCall(zone, call) /\ Submits(call)
      BY <2>3, <2>4 DEF GoodCall, Submits
    <2>6. \A d \in Calls : next[d] = IF d = c THEN call ELSE calls[d]
      BY <1>1 DEF GoodCalls, PageCalls
    <2> HIDE DEF next
    <2>7. OneSubmission("SUBMITTING", next)
      BY <1>1, <2>1, <2>5, <2>6 DEF OneSubmission
    <2>8. QED
      BY <1>1, <2>1, <2>4, <2>5, <2>7, CallStep DEF Paging, next
  <1>4. ASSUME NEW c \in Calls, TakeAdd(c) PROVE Paging'
    <2> DEFINE mounted == calls[c].mounted
               call == Sent("RELIST", Null, Null, Null, mounted, Null)
    <2>1. /\ calls[c].op = "ADD" /\ calls' = [calls EXCEPT ![c] = call]
          /\ UNCHANGED <<zone, board, shown, loading, adding, panel>>
      BY <1>4 DEF TakeAdd
    <2>2. calls[c] \in PageRequest \cup {NoCall}
      BY <1>1 DEF GoodCalls, PageCalls
    <2>3. mounted \in BOOLEAN
      BY <2>1, <2>2, CallTypes, NoCallIsNone
    <2>4. Submits(calls[c]) <=> mounted = TRUE
      BY <2>1 DEF Submits
    <2> HIDE DEF mounted
    <2>5. call \in PageRequest /\ call.op = "RELIST" /\ call.answered = FALSE /\ call.mounted = mounted
      BY <2>3 DEF Sent, PageRequest, Answered
    <2> HIDE DEF call
    <2>6. GoodCall(zone, call) /\ (Submits(call) <=> Submits(calls[c]))
      BY <2>4, <2>5 DEF GoodCall, Submits
    <2>7. OneSubmission(adding, [calls EXCEPT ![c] = call])
      BY <2>6, SubmitsAlike
    <2>8. QED
      BY <1>1, <2>1, <2>5, <2>6, <2>7, CallStep DEF Paging
  <1>5. QED
    BY <1>2, <1>3, <1>4

LEMMA AnswerStep ==
  ASSUME Paging, NEW c \in Calls, calls[c].op # "NONE", NEW answer \in Answered,
         calls[c].op \in {"LIST", "RELIST"} => answer \in Lists,
         calls[c].op = "UPDATE" => answer \in PageItem,
         Answers(c, answer), board' \in Lists,
         UNCHANGED <<zone, shown, loading, adding, panel>>
  PROVE  Paging'
  <1> DEFINE old == calls[c]
             row == [[old EXCEPT !.answered = TRUE] EXCEPT !.answer = answer]
  <1>1. calls \in [Calls -> PageRequest \cup {NoCall}] /\ GoodCall(zone, old)
    BY DEF Paging, GoodCalls, PageCalls
  <1>2. old \in PageRequest
    BY <1>1, CallTypes
  <1>3. calls' = [calls EXCEPT ![c] = row]
    BY <1>1, <1>2 DEF Answers, PageRequest
  <1>4. /\ row = [[old EXCEPT !.answered = TRUE] EXCEPT !.answer = answer]
        /\ old.op \in {"LIST", "RELIST"} => answer \in Lists
        /\ old.op = "UPDATE" => answer \in PageItem
    OBVIOUS
  <1> HIDE DEF old, row
  <1>5. /\ row \in PageRequest /\ row.op = old.op /\ row.mounted = old.mounted
        /\ row.id = old.id /\ row.timing = old.timing /\ row.opened = old.opened
        /\ row.answered = TRUE /\ row.answer = answer
    BY <1>2, <1>4 DEF PageRequest
  <1>6. GoodCall(zone, row)
    BY <1>1, <1>4, <1>5 DEF GoodCall
  <1>7. Submits(row) <=> Submits(calls[c])
    BY <1>5 DEF Submits, old
  <1>8. OneSubmission(adding, [calls EXCEPT ![c] = row])
    BY <1>7, SubmitsAlike
  <1>9. QED
    BY <1>3, <1>5, <1>6, <1>8, CallStep DEF Paging

(* The handlers of the server, and the changes from elsewhere.              *)
LEMMA ServerSteps ==
  ASSUME Paging,
         \/ \E id \in Items : ChangedElsewhere(id, Null)
         \/ \E id \in Items, t \in Timings(zone) : ChangedElsewhere(id, Item(t, FALSE))
         \/ \E c \in Calls : ServeList(c) \/ ServeAdd(c) \/ ServeUpdate(c) \/ ServeDelete(c)
  PROVE  Paging'
  <1>1. zone \in Zones /\ board \in [Items -> PageItem \cup {Null}]
        /\ calls \in [Calls -> PageRequest \cup {NoCall}]
        /\ \A c \in Calls : GoodCall(zone, calls[c])
    BY DEF Paging, GoodCalls, PageCalls, Lists
  <1>2. ASSUME NEW id \in Items, NEW made \in PageItem \cup {Null}, ChangedElsewhere(id, made)
        PROVE  Paging'
    <2>1. board' \in Lists /\ UNCHANGED <<zone, shown, loading, adding, panel, calls>>
      BY <1>1, <1>2 DEF ChangedElsewhere, Lists
    <2>2. QED
      BY <2>1 DEF Paging
  <1>3. \A t \in Timings(zone) : Item(t, FALSE) \in PageItem
    BY <1>1, PageAssumption, ItemTypes
  <1>4. ASSUME NEW c \in Calls, ServeList(c) PROVE Paging'
    <2>1. calls[c].op \in {"LIST", "RELIST"} /\ Answers(c, board)
          /\ UNCHANGED <<zone, board, shown, loading, adding, panel>>
      BY <1>4 DEF ServeList, Waiting
    <2>2. board \in Answered /\ board \in Lists
      BY <1>1 DEF Answered, Lists
    <2>3. QED
      BY <2>1, <2>2, AnswerStep
  <1>5. ASSUME NEW c \in Calls, ServeAdd(c) PROVE Paging'
    <2> DEFINE t == Normalized(calls[c].timing)
               made == Item(t, FALSE)
    <2>1. PICK id \in Items :
            /\ t # Null /\ board' = [board EXCEPT ![id] = made] /\ Answers(c, board'[id])
      BY <1>5 DEF ServeAdd
    <2>2. calls[c].op = "ADD" /\ UNCHANGED <<zone, shown, loading, adding, panel>>
      BY <1>5 DEF ServeAdd, Waiting
    <2>3. t \in Normal
      BY <1>1, <2>1, <2>2 DEF GoodCall
    <2> HIDE DEF t
    <2>4. made \in PageItem
      BY <2>3, ItemTypes
    <2> HIDE DEF made
    <2>5. board' \in Lists /\ board'[id] = made
      BY <1>1, <2>1, <2>4 DEF Lists
    <2>6. Answers(c, made) /\ made \in Answered
      BY <2>1, <2>4, <2>5 DEF Answered
    <2>7. QED
      BY <2>2, <2>4, <2>5, <2>6, AnswerStep
  <1>6. ASSUME NEW c \in Calls, ServeUpdate(c) PROVE Paging'
    <2> DEFINE call == calls[c]
               old == board[call.id]
               t == IF call.timing = Null THEN old.timing ELSE Normalized(call.timing)
               done == IF call.done = Null THEN old.done ELSE call.done
               made == Item(t, done)
    <2>1. /\ call.op = "UPDATE" /\ old # Null /\ made.timing # Null
          /\ board' = [board EXCEPT ![call.id] = made] /\ Answers(c, board'[call.id])
          /\ UNCHANGED <<zone, shown, loading, adding, panel>>
      BY <1>6 DEF ServeUpdate, Updated, Waiting
    <2>2. call.id \in Items /\ (call.timing # Null => Normalized(call.timing) \in Normal \cup {Null})
      BY <1>1, <2>1 DEF GoodCall
    <2>3. call.done \in BOOLEAN \cup {Null}
      BY <1>1, <2>1, CallTypes, NoCallIsNone
    <2>4. old \in PageItem
      BY <1>1, <2>1, <2>2
    <2>5. old.timing \in Normal /\ old.done \in BOOLEAN
      BY <2>4 DEF PageItem
    <2>6. t # Null
      BY <2>1 DEF Item
    <2>7. t \in Normal /\ done \in BOOLEAN
      BY <2>2, <2>3, <2>5, <2>6
    <2> HIDE DEF t, done
    <2>8. made \in PageItem
      BY <2>7, ItemTypes
    <2> HIDE DEF made
    <2>9. board' \in Lists /\ board'[call.id] = made
      BY <1>1, <2>1, <2>2, <2>8 DEF Lists
    <2>10. Answers(c, made) /\ made \in Answered
      BY <2>1, <2>8, <2>9 DEF Answered
    <2>11. QED
      BY <2>1, <2>8, <2>9, <2>10, AnswerStep
  <1>7. ASSUME NEW c \in Calls, ServeDelete(c) PROVE Paging'
    <2>1. /\ calls[c].op = "DELETE" /\ Answers(c, "OK")
          /\ board' = [board EXCEPT ![calls[c].id] = Null]
          /\ UNCHANGED <<zone, shown, loading, adding, panel>>
      BY <1>7 DEF ServeDelete, Waiting
    <2>2. board' \in Lists /\ "OK" \in Answered
      BY <1>1, <2>1 DEF Lists, Answered
    <2>3. QED
      BY <2>1, <2>2, AnswerStep
  <1>8. QED
    BY <1>2, <1>3, <1>4, <1>5, <1>6, <1>7

(* The page takes an answer.                                                *)
LEMMA TakingSteps ==
  ASSUME Paging, NEW c \in Calls,
         TakeList(c) \/ TakeRelist(c) \/ TakeUpdate(c) \/ TakeDelete(c) \/ Fails(c)
  PROVE  Paging'
  <1> DEFINE next == Done(c)
  <1>1. /\ zone \in Zones /\ shown \in [Items -> PageItem \cup {Null}]
        /\ calls \in [Calls -> PageRequest \cup {NoCall}]
        /\ GoodCalls(zone, calls) /\ GoodCall(zone, calls[c])
        /\ GoodPanel(zone, panel, shown) /\ panel \in PanelRow /\ panel.id \in Items \cup {Null}
        /\ OneSubmission(adding, calls)
    BY DEF Paging, GoodCalls, PageCalls, Lists, GoodPanel, PanelRow
  <1>2. GoodCalls(zone, next)
        /\ \A d \in Calls : next[d] = IF d = c THEN NoCall ELSE calls[d]
    BY <1>1, CallReplaced, NoCallIsNone DEF Done
  <1>3. next = [calls EXCEPT ![c] = NoCall]
    BY DEF Done
  <1> HIDE DEF next
  <1>4. calls[c].op \notin {"ADD", "RELIST"} =>
          \A d \in Calls : Submits(next[d]) <=> Submits(calls[d])
    BY <1>2, NoCallIsNone DEF Submits
  <1>5. ASSUME TakeList(c) PROVE Paging'
    <2>1. /\ calls[c].op = "LIST" /\ calls[c].answered = TRUE /\ loading' = FALSE
          /\ Renders(calls[c].answer, panel.id, next) /\ UNCHANGED <<zone, board, adding>>
      BY <1>1, <1>5, CallTypes, NoCallIsNone DEF TakeList, next
    <2>2. calls[c].answer \in Lists
      BY <1>1, <2>1 DEF GoodCall
    <2>3. /\ shown' \in Lists /\ GoodPanel(zone, panel', shown') /\ GoodCalls(zone, calls')
          /\ \A d \in Calls : Submits(calls'[d]) <=> Submits(next[d])
      BY <1>1, <1>2, <2>1, <2>2, Rendering
    <2>4. OneSubmission(adding, calls')
      BY <1>1, <1>4, <2>1, <2>3, SubmissionsSame
    <2>5. QED
      BY <2>1, <2>3, <2>4 DEF Paging
  <1>6. ASSUME TakeRelist(c) PROVE Paging'
    <2> DEFINE table == Unsubmitted(next)
    <2>1. /\ calls[c].op = "RELIST" /\ calls[c].answered = TRUE /\ adding' = "HIDDEN"
          /\ Renders(calls[c].answer, panel.id, table) /\ UNCHANGED <<zone, board, loading>>
      BY <1>1, <1>6, CallTypes, NoCallIsNone DEF TakeRelist, next
    <2>2. calls[c].answer \in Lists
      BY <1>1, <2>1 DEF GoodCall
    <2>3. GoodCalls(zone, table) /\ \A d \in Calls : ~Submits(table[d])
      BY <1>2, UnsubmittedCalls
    <2> HIDE DEF table
    <2>4. /\ shown' \in Lists /\ GoodPanel(zone, panel', shown') /\ GoodCalls(zone, calls')
          /\ \A d \in Calls : Submits(calls'[d]) <=> Submits(table[d])
      BY <1>1, <2>1, <2>2, <2>3, Rendering
    <2>5. OneSubmission(adding', calls')
      BY <2>1, <2>3, <2>4 DEF OneSubmission
    <2>6. QED
      BY <2>1, <2>4, <2>5 DEF Paging
  <1>7. ASSUME TakeUpdate(c) PROVE Paging'
    <2> DEFINE id == calls[c].id
               old == calls[c].answer
               list == IF shown[id] = Null THEN shown ELSE [shown EXCEPT ![id] = old]
               a == [panel EXCEPT !.editing = FALSE]
               b == [a EXCEPT !.saving = FALSE]
               p == IF calls[c].mounted THEN b ELSE panel
    <2>1. /\ calls[c].op = "UPDATE" /\ calls[c].answered = TRUE
          /\ shown' = list /\ calls' = next /\ UNCHANGED <<zone, board, loading, adding>>
      BY <1>1, <1>7, CallTypes, NoCallIsNone DEF TakeUpdate, next
    <2>2. panel' = p
      BY <1>1, <1>7 DEF TakeUpdate, PanelRow
    <2>3. id \in Items /\ old \in PageItem
      BY <1>1, <2>1 DEF GoodCall
    <2> HIDE DEF id, old
    <2>4. list \in Lists /\ \A x \in Items : list[x] # Null <=> shown[x] # Null
      BY <1>1, <2>3, NullIsNone DEF Lists
    <2> HIDE DEF list
    <2>5. a \in PanelRow /\ a.id = panel.id /\ a.form = panel.form /\ a.opened = panel.opened
          /\ a.editing = FALSE
      BY <1>1 DEF PanelRow
    <2> HIDE DEF a
    <2>6. b \in PanelRow /\ b.id = panel.id /\ b.form = panel.form /\ b.opened = panel.opened
          /\ b.editing = FALSE /\ b.saving = FALSE
      BY <2>5 DEF PanelRow
    <2> HIDE DEF b
    <2>7. /\ p \in PanelRow /\ p.id = panel.id /\ p.form = panel.form /\ p.opened = panel.opened
          /\ (p.form = Null => p.editing = FALSE /\ p.saving = FALSE)
      BY <1>1, <2>6 DEF GoodPanel
    <2> HIDE DEF p
    <2>8. GoodPanel(zone, p, list)
      BY <1>1, <2>4, <2>7 DEF GoodPanel, PanelRow
    <2>9. OneSubmission(adding, next)
      BY <1>1, <1>4, <2>1, SubmissionsSame
    <2>10. QED
      BY <1>2, <2>1, <2>2, <2>4, <2>8, <2>9 DEF Paging
  <1>8. ASSUME TakeDelete(c) PROVE Paging'
    <2> DEFINE list == [shown EXCEPT ![calls[c].id] = Null]
    <2>1. /\ calls[c].op = "DELETE" /\ Renders(list, Null, next)
          /\ UNCHANGED <<zone, board, loading, adding>>
      BY <1>8 DEF TakeDelete, next
    <2>2. list \in Lists
      BY <1>1 DEF Lists
    <2> HIDE DEF list
    <2>3. /\ shown' \in Lists /\ GoodPanel(zone, panel', shown') /\ GoodCalls(zone, calls')
          /\ \A d \in Calls : Submits(calls'[d]) <=> Submits(next[d])
      BY <1>1, <1>2, <2>1, <2>2, Rendering
    <2>4. OneSubmission(adding, calls')
      BY <1>1, <1>4, <2>1, <2>3, SubmissionsSame
    <2>5. QED
      BY <2>1, <2>3, <2>4 DEF Paging
  <1>9. ASSUME Fails(c) PROVE Paging'
    <2> DEFINE old == calls[c]
               saves == old.op \in {"UPDATE", "DELETE"} /\ old.mounted
               submits == old.op \in {"ADD", "RELIST"} /\ old.mounted
               b == [panel EXCEPT !.saving = FALSE]
    <2>1. /\ old # NoCall /\ calls' = next
          /\ panel' = (IF saves THEN b ELSE panel)
          /\ adding' = (IF submits THEN "SHOWN" ELSE adding)
          /\ loading' \in BOOLEAN /\ UNCHANGED <<zone, board, shown>>
      BY <1>9 DEF Fails, next
    <2>2. old.mounted \in BOOLEAN
      BY <1>1, <2>1, CallTypes
    <2>3. submits <=> Submits(old)
      BY <2>2 DEF Submits
    <2> HIDE DEF old, submits, saves
    <2>4. b \in PanelRow /\ b.id = panel.id /\ b.form = panel.form /\ b.opened = panel.opened
          /\ b.editing = panel.editing /\ b.saving = FALSE
      BY <1>1 DEF PanelRow
    <2> HIDE DEF b
    <2>5. GoodPanel(zone, b, shown)
      BY <1>1, <2>4 DEF GoodPanel
    <2>6. GoodPanel(zone, panel', shown')
      BY <1>1, <2>1, <2>5
    <2>7. OneSubmission(adding', next)
      <3>1. CASE Submits(old)
        <4>1. \A d \in Calls : ~Submits(next[d])
          BY <1>1, <1>2, <3>1, NoCallIsNone DEF OneSubmission, old
        <4>2. QED
          BY <2>1, <2>3, <3>1, <4>1 DEF OneSubmission
      <3>2. CASE ~Submits(old)
        <4>1. \A d \in Calls : Submits(next[d]) <=> Submits(calls[d])
          BY <1>2, <3>2, NoCallIsNone DEF old
        <4>2. adding' = adding
          BY <2>1, <2>3, <3>2
        <4>3. QED
          BY <1>1, <4>1, <4>2, SubmissionsSame
      <3>3. QED
        BY <3>1, <3>2
    <2>8. QED
      BY <1>1, <1>2, <2>1, <2>6, <2>7 DEF Paging, Lists
  <1>10. QED
    BY <1>5, <1>6, <1>7, <1>8, <1>9

LEMMA PagingStep == Paging /\ [PageNext]_pagevars => Paging'
  <1> SUFFICES ASSUME Paging, [PageNext]_pagevars PROVE Paging'
    OBVIOUS
  <1>1. ASSUME PageNext PROVE Paging'
    BY <1>1, PanelSteps, SendingSteps, AddingSteps, ServerSteps, TakingSteps DEF PageNext
  <1>2. ASSUME UNCHANGED pagevars PROVE Paging'
    BY <1>2 DEF pagevars, Paging
  <1>3. QED
    BY <1>1, <1>2

LEMMA PagingHolds == PageSpec => []Paging
  BY PagingInit, PagingStep, PTL DEF PageSpec

(* The type invariant of the calendar page (apps/web/components/calendar):  *)
(* what it shows has normal times, a form belongs to a shown item, and the  *)
(* form for a new item is busy exactly while its request is under way.      *)
THEOREM PageTypeCorrect == PageSpec => []PageTypeOK
  <1>1. Paging => PageTypeOK
    <2> SUFFICES ASSUME Paging PROVE PageTypeOK
      OBVIOUS
    <2>1. /\ zone \in Zones /\ loading \in BOOLEAN /\ GoodPanel(zone, panel, shown)
          /\ board \in [Items -> PageItem \cup {Null}] /\ shown \in [Items -> PageItem \cup {Null}]
          /\ calls \in [Calls -> PageRequest \cup {NoCall}] /\ OneSubmission(adding, calls)
      BY DEF Paging, GoodCalls, PageCalls, Lists
    <2>2. \A made \in PageItem : Normalized(made.timing) = made.timing
      BY DEF PageItem, Normal
    <2>3. /\ panel.id \in Items \cup {Null} /\ (panel.form # Null => shown[panel.id] # Null)
          /\ (panel.form = Null => ~panel.editing /\ ~panel.saving)
      BY <2>1 DEF GoodPanel, PanelRow
    <2>4. \A c \in Calls : calls[c].op \in {"NONE", "LIST", "RELIST", "ADD", "UPDATE", "DELETE"}
      BY <2>1, NoCallIsNone DEF PageRequest
    <2>5. \A c \in Calls :
            Submits(calls[c]) <=> calls[c].op \in {"ADD", "RELIST"} /\ calls[c].mounted
      <3>1. ASSUME NEW c \in Calls
            PROVE  Submits(calls[c]) <=> calls[c].op \in {"ADD", "RELIST"} /\ calls[c].mounted
        <4>1. calls[c].op # "NONE" => calls[c].mounted \in BOOLEAN
          BY <2>1, CallTypes
        <4>2. QED
          BY <4>1 DEF Submits
      <3>2. QED
        BY <3>1
    <2>6. /\ adding \in {"HIDDEN", "SHOWN", "SUBMITTING"}
          /\ (adding = "SUBMITTING"
                <=> \E c \in Calls : calls[c].op \in {"ADD", "RELIST"} /\ calls[c].mounted)
      BY <2>1, <2>5 DEF OneSubmission
    <2>7. QED
      BY <2>1, <2>2, <2>3, <2>4, <2>6 DEF PageTypeOK
  <1>2. QED
    BY <1>1, PagingHolds, PTL

(* Every local time some clock shows is stored as the first instant of a    *)
(* minute in which the clock shows it (zonedDateTimeToIso), in every zone   *)
(* that changes its offset once: two corrections find the instant and the   *)
(* others keep it.                                                         *)
THEOREM LocalTimesAreConverted == PageSpec => []LocalTimesConverted
  <1>1. Paging => LocalTimesConverted
    <2> SUFFICES ASSUME Paging, NEW instant \in Instants
                 PROVE  LET local == Rendered(zone, instant)
                            stored == Zoned(zone, DateOf(local), TimeOf(local))
                        IN stored # Null /\ Rendered(zone, stored) = ToMinute(local)
      BY DEF LocalTimesConverted
    <2>1. zone \in Zone /\ instant \in Int /\ Null \notin Int
      BY PageAssumption, WallClockAssumption DEF Paging
    <2>2. QED
      BY <2>1, LocalTimesStored
  <1>2. QED
    BY <1>1, PagingHolds, PTL

(* Saving a form nothing was typed into gives an item the times it had when *)
(* the panel opened, cut to the minute (zonedTime): toCalendarItemView, the *)
(* form, toUpdateRequest and normalizedTiming undo one another otherwise    *)
(* for the times the form can hold, and no answer or change the page takes  *)
(* since disturbs what is sent.                                            *)
THEOREM UntouchedFormsKeepTimes == PageSpec => []UntouchedFormKeepsTimes
  <1>1. Paging => UntouchedFormKeepsTimes
    <2> SUFFICES ASSUME Paging PROVE UntouchedFormKeepsTimes
      OBVIOUS
    <2>1. zone \in Zones /\ GoodPanel(zone, panel, shown)
          /\ calls \in [Calls -> PageRequest \cup {NoCall}]
          /\ \A c \in Calls : GoodCall(zone, calls[c])
      BY DEF Paging, GoodCalls, PageCalls
    <2>2. ASSUME panel.opened # Null, Holdable(zone, panel.opened)
          PROVE  Normalized(Requested(zone, panel.form)) = OnTheMinute(panel.opened)
      <3>1. panel.opened \in Normal /\ panel.form = FormOf(View(zone, panel.opened))
        BY <2>1, <2>2 DEF GoodPanel, PanelRow
      <3>2. QED
        BY <2>1, <2>2, <3>1, FormKeepsTimes
    <2>3. ASSUME NEW c \in Calls, calls[c].op = "UPDATE", calls[c].opened # Null,
                 Holdable(zone, calls[c].opened)
          PROVE  Normalized(calls[c].timing) = OnTheMinute(calls[c].opened)
      <3>1. calls[c].timing = Requested(zone, FormOf(View(zone, calls[c].opened)))
        BY <2>1, <2>3 DEF GoodCall
      <3>2. calls[c].opened \in Normal
        BY <2>1, <2>3, CallTypes, NoCallIsNone
      <3>3. QED
        BY <2>1, <2>3, <3>1, <3>2, FormKeepsTimes
    <2>4. QED
      BY <2>2, <2>3 DEF UntouchedFormKeepsTimes
  <1>2. QED
    BY <1>1, PagingHolds, PTL
=============================================================================
