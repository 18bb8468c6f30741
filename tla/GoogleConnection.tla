--------------------------- MODULE GoogleConnection ---------------------------
(***************************************************************************)
(* A user's Google Calendar (apps/web/lib/server/google-calendar-oauth.ts  *)
(* and the end of packages/db/src/calendar.ts), composed with the account  *)
(* it belongs to.  An authorization has a state that is consumed once; the *)
(* callback then talks to Google and saves the connection in two           *)
(* statements; a disconnection, a refused refresh, a worker's sync or the  *)
(* deletion of the account may come in between.                            *)
(***************************************************************************)
EXTENDS UserAccounts, Naturals

CONSTANTS
  Authorizations,  \* state hashes of calendar_oauth_states
  GoogleAccounts   \* accounts a user may choose, each with its refresh token

ASSUME GoogleAssumption == Null \notin Authorizations \cup GoogleAccounts

ASSUME AuthorizationStatusAssumption == Null \notin {"OPEN", "CONSUMED", "EXPIRED"}

VARIABLES
  authorization,  \* public.calendar_oauth_states
  connection,     \* public.calendar_connections
  exchanges       \* how often the code of an authorization went to Google

gvars == <<avars, authorization, connection, exchanges>>

ConnectionRow ==
  [status : {"CONNECTED", "DISCONNECTED", "REAUTH_REQUIRED", "ERROR"},
   account : GoogleAccounts, token : GoogleAccounts \cup {Null}]

GoogleHandler ==
  [op : {"EXCHANGE"}, state : Authorizations]
  \cup [op : {"SAVE_READ", "SAVE"}, account : GoogleAccounts, token : GoogleAccounts \cup {Null}]
  \cup [op : {"REFRESH"}, token : GoogleAccounts]
  \cup [op : {"FORGET_STATES"}]

GoogleTypeOK ==
  /\ AccountTypeOK
  /\ authorization \in [Authorizations -> {"OPEN", "CONSUMED", "EXPIRED", Null}]
  /\ connection \in ConnectionRow \cup {Null}
  /\ exchanges \in [Authorizations -> Nat]
  /\ account \in [Requests -> AccountHandler \cup GoogleHandler]

GInit ==
  /\ AInit
  /\ authorization = [s \in Authorizations |-> Null]
  /\ connection = Null
  /\ exchanges = [s \in Authorizations |-> 0]

-----------------------------------------------------------------------------
(* Connecting.                                                             *)

(* createGoogleOauthState: states that are used up go, a new one comes; a   *)
(* state hash is random and is not given out twice.                         *)
Authorize(s) ==
  /\ Authorized
  /\ authorization[s] = Null
  /\ \A r \in Requests : account[r].op = "EXCHANGE" => account[r].state # s
  /\ authorization' = [t \in Authorizations |->
       IF t = s THEN "OPEN"
       ELSE IF authorization[t] \in {"CONSUMED", "EXPIRED"} THEN Null ELSE authorization[t]]
  /\ exchanges' = [exchanges EXCEPT ![s] = 0]
  /\ UNCHANGED <<avars, connection>>

(* Ten minutes pass.                                                        *)
AuthorizationExpires(s) ==
  /\ authorization[s] = "OPEN"
  /\ authorization' = [authorization EXCEPT ![s] = "EXPIRED"]
  /\ UNCHANGED <<avars, connection, exchanges>>

UsedBefore(s) == authorization[s] \in {"OPEN", "CONSUMED"}
Unused(s) == authorization[s] = "OPEN"

(* consumeGoogleOauthState, in a callback that brings a code or Google's    *)
(* refusal.                                                                 *)
Callback(r, s, refused) ==
  /\ account[r] = Idle
  /\ Authorized
  /\ Unused(s)
  /\ authorization' = [authorization EXCEPT ![s] = "CONSUMED"]
  /\ IF refused THEN UNCHANGED account ELSE Handling(r, [op |-> "EXCHANGE", state |-> s])
  /\ UNCHANGED <<rows, connection, exchanges>>

(* Google's answer to the code: the account, and perhaps a refresh token.   *)
Exchange(r, a, t) ==
  /\ account[r].op = "EXCHANGE"
  /\ t \in {a, Null}
  /\ exchanges' = [exchanges EXCEPT ![account[r].state] = @ + 1]
  /\ Handling(r, [op |-> "SAVE_READ", account |-> a, token |-> t])
  /\ UNCHANGED <<rows, authorization, connection>>

(* saveGoogleCalendarConnection: without a new token it keeps the one it    *)
(* reads.                                                                   *)
SaveRead(r) ==
  /\ account[r].op = "SAVE_READ"
  /\ LET call == account[r]
         token == IF call.token # Null THEN call.token
                  ELSE IF connection = Null THEN Null ELSE connection.token
     IN IF token = Null THEN Handling(r, Idle)
        ELSE Handling(r, [op |-> "SAVE", account |-> call.account, token |-> token])
  /\ UNCHANGED <<rows, authorization, connection, exchanges>>

Orphaned == TRUE
Owned == UserRowThere

Save(r) ==
  /\ account[r].op = "SAVE"
  /\ connection' = IF Owned
                   THEN [status |-> "CONNECTED", account |-> account[r].account,
                         token |-> account[r].token]
                   ELSE connection
  /\ Handling(r, Idle)
  /\ UNCHANGED <<rows, authorization, exchanges>>

-----------------------------------------------------------------------------
(* Using and leaving a connection.                                         *)

(* listGoogleCalendarOptions, up to Google's answer; the preferences that   *)
(* updateGoogleCalendarConnection writes are left out.                      *)
RefreshBegins(r) ==
  /\ account[r] = Idle
  /\ Authorized
  /\ connection # Null
  /\ connection.token # Null
  /\ Handling(r, [op |-> "REFRESH", token |-> connection.token])
  /\ UNCHANGED <<rows, authorization, connection, exchanges>>

(* markGoogleCalendarReauthRequired on whatever the connection is by now;   *)
(* the row check wants a token.                                             *)
RefreshRefused(r) ==
  /\ account[r].op = "REFRESH"
  /\ connection' = IF connection # Null /\ connection.token # Null
                   THEN [connection EXCEPT !.status = "REAUTH_REQUIRED"] ELSE connection
  /\ Handling(r, Idle)
  /\ UNCHANGED <<rows, authorization, exchanges>>

(* disconnectGoogleCalendar: two statements.                                *)
Disconnect(r) ==
  /\ account[r] = Idle
  /\ Authorized
  /\ connection' = IF connection = Null THEN Null
                   ELSE [connection EXCEPT !.status = "DISCONNECTED", !.token = Null]
  /\ Handling(r, [op |-> "FORGET_STATES"])
  /\ UNCHANGED <<rows, authorization, exchanges>>

ForgetStates(r) ==
  /\ account[r].op = "FORGET_STATES"
  /\ authorization' = [s \in Authorizations |->
       IF authorization[s] \in {"OPEN", "EXPIRED"} THEN Null ELSE authorization[s]]
  /\ Handling(r, Idle)
  /\ UNCHANGED <<rows, connection, exchanges>>

(* enqueueGoogleCalendarSync: a connection in error is taken for sound.     *)
RequestSync(r) ==
  /\ account[r] = Idle
  /\ connection # Null
  /\ connection.status \in {"CONNECTED", "ERROR"}
  /\ Begin(r, "ENQUEUE")
  /\ connection' = [connection EXCEPT !.status = "CONNECTED"]
  /\ UNCHANGED <<authorization, exchanges>>

(* The worker's failed sync.                                                *)
SyncFails(reauth) ==
  /\ work = "held"
  /\ connection # Null
  /\ IF reauth
     THEN /\ connection.token # Null
          /\ connection' = [connection EXCEPT !.status = "REAUTH_REQUIRED"]
     ELSE /\ connection.status = "CONNECTED"
          /\ connection' = [connection EXCEPT !.status = "ERROR"]
  /\ UNCHANGED <<avars, authorization, exchanges>>

(* revokeGoogleCalendarAuthorization in a deletion: whatever Google says,   *)
(* the deletion goes on.                                                    *)
RevokeAuthorization(r) ==
  /\ account[r].op = "REVOKE"
  /\ Handling(r, [account[r] EXCEPT !.op = "DELETE"])
  /\ UNCHANGED <<user, beta, grant, scan, work, deletion,
                 authorization, connection, exchanges>>

(* The deletion of the user takes the connection and its states along.      *)
DeleteAccount(r) ==
  /\ DeleteUser(r)
  /\ IF user' = Null /\ user # Null
     THEN /\ connection' = Null
          /\ authorization' = [s \in Authorizations |-> Null]
     ELSE UNCHANGED <<connection, authorization>>
  /\ UNCHANGED exchanges

GNext ==
  \/ ANext /\ UNCHANGED <<authorization, connection, exchanges>>
  \/ \E s \in Authorizations : Authorize(s)
  \/ \E s \in Authorizations : AuthorizationExpires(s)
  \/ \E r \in Requests, s \in Authorizations, refused \in BOOLEAN : Callback(r, s, refused)
  \/ \E r \in Requests, a \in GoogleAccounts, t \in GoogleAccounts \cup {Null} : Exchange(r, a, t)
  \/ \E r \in Requests : SaveRead(r)
  \/ \E r \in Requests : Save(r)
  \/ \E r \in Requests : RefreshBegins(r)
  \/ \E r \in Requests : RefreshRefused(r)
  \/ \E r \in Requests : Disconnect(r)
  \/ \E r \in Requests : ForgetStates(r)
  \/ \E r \in Requests : RequestSync(r)
  \/ \E reauth \in BOOLEAN : SyncFails(reauth)
  \/ \E r \in Requests : RevokeAuthorization(r)
  \/ \E r \in Requests : DeleteAccount(r)

GSpec == GInit /\ [][GNext]_gvars

-----------------------------------------------------------------------------
(* Properties.                                                             *)

(* The code of one authorization is exchanged at most once, however many    *)
(* callbacks arrive together with its state, late, or after the state was   *)
(* replaced (consumeGoogleOauthState).                                      *)
CallbackOnce == \A s \in Authorizations : exchanges[s] <= 1

(* Once a user is deleted nothing of theirs exists or comes back, whichever *)
(* handler was half way when the account went: no grant, no scan, no token, *)
(* no authorization, no work, and no privacy request that names the user    *)
(* (deleteUserAccount and the foreign keys it relies on).                   *)
NothingOfADeletedUser ==
  user = Null =>
    /\ \A g \in Grants : grant[g] = Null
    /\ \A p \in Pages : scan[p] = Null
    /\ work = "absent"
    /\ connection = Null
    /\ \A s \in Authorizations : authorization[s] = Null
    /\ \A q \in Deletions : deletion[q] # Null => ~deletion[q].owned

(* What the privacy audit says of DELETE /api/account: a signed-in user's   *)
(* deletion is carried out; it is only refused when the user is gone.       *)
DeletionGoesThrough ==
  \A r \in Requests : account[r].op = "REFUSED" => user = Null
=============================================================================
