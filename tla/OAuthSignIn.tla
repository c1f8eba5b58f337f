----------------------------- MODULE OAuthSignIn -----------------------------
(* Signing in with Google or Yandex, and the sessions it ends in.          *)
(*                                                                         *)
(* A request loads its browser's session from Redis when it comes and      *)
(* works on that copy; express-session writes the copy back as a whole     *)
(* when the request ends, if the handler has changed it (resave: false),   *)
(* or when the handler calls save().  Requests of one browser overlap.     *)
(*                                                                         *)
(*   connect    load -> [oauthState set] -> save                           *)
(*   callback   load, oauthState checked and deleted -> profile ->         *)
(*              account -> user by id | by mail | created -> linked ->     *)
(*              session saved                                              *)
(*   login      load -> session saved   (any other way in, see SignIn)     *)
(*   logout, deleteAccount   destroy                                       *)
(*                                                                         *)
(* A definition op_variant before op is op with a mistake in it; nothing   *)
(* here uses it.  Putting it in op's place breaks one of the properties.   *)
(***************************************************************************)
CONSTANTS
  Users,     (* ids of accounts, those to come as well                     *)
  Mails,
  Ids,       (* the identities a provider knows: <provider, account id>    *)
  Browsers,
  States,    (* values of oauthState; bounds those under way at once       *)
  Requests,
  null

OAuthAssumption ==
  null \notin Users \cup Mails \cup Ids \cup Browsers \cup States

VARIABLES
  users,     (* the rows of users                                          *)
  links,     (* accounts: the account an identity signs in to              *)
  store,     (* the sessions in Redis                                      *)
  req,       (* the requests                                               *)
  opened     (* history: whose session an identity has opened last         *)

vars == <<users, links, store, req, opened>>

-----------------------------------------------------------------------------

User == [state : {"unborn", "alive", "deleted"}, mail : Mails \cup {null}]

Session == [user : Users \cup {null}, oauthState : States \cup {null}]

NoSession == [user |-> null, oauthState |-> null]

Request ==
  [step : {"idle", "connecting", "profile", "account", "byId", "byMail",
           "create", "link", "session", "login", "refused", "deleting",
           "destroying"},
   browser : Browsers \cup {null}, session : Session,
   id : Ids \cup {null}, mail : Mails \cup {null}, user : Users \cup {null}]

Idle == [step |-> "idle", browser |-> null, session |-> NoSession,
         id |-> null, mail |-> null, user |-> null]

(* A session that is not in Redis is an empty one.                         *)
TypeOK ==
  /\ users \in [Users -> User]
  /\ links \in [Ids -> Users \cup {null}]
  /\ store \in [Browsers -> Session]
  /\ req \in [Requests -> Request]
  /\ opened \in [Ids -> Users \cup {null}]

Init ==
  /\ users = [u \in Users |-> [state |-> "unborn", mail |-> null]]
  /\ links = [i \in Ids |-> null]
  /\ store = [b \in Browsers |-> NoSession]
  /\ req = [r \in Requests |-> Idle]
  /\ opened = [i \in Ids |-> null]

-----------------------------------------------------------------------------
(* Requests.                                                               *)

At(r, step) == req[r].step = step

Loads(r, b, step, session) ==
  /\ At(r, "idle")
  /\ req' = [req EXCEPT ![r] = [Idle EXCEPT !.step = step, !.browser = b,
                                            !.session = session]]

Goes(r, step) == req' = [req EXCEPT ![r].step = step]

Ends(r) == req' = [req EXCEPT ![r] = Idle]

(* The end of a request whose copy differs from what it has loaded.        *)
EndsSaving(r) ==
  /\ Ends(r)
  /\ store' = [store EXCEPT ![req[r].browser] = req[r].session]

(* A callback throws: the state that it has deleted is gone all the same.  *)
fail(r) ==
  /\ \/ At(r, "refused") \/ At(r, "profile") \/ At(r, "account")
     \/ At(r, "byId") \/ At(r, "byMail") \/ At(r, "create") \/ At(r, "link")
  /\ EndsSaving(r)
  /\ UNCHANGED <<users, links, opened>>

(* The process dies.                                                       *)
crash ==
  /\ \E r \in Requests : ~At(r, "idle")
  /\ req' = [r \in Requests |-> Idle]
  /\ UNCHANGED <<users, links, store, opened>>

-----------------------------------------------------------------------------
(* Off to the provider, and back with a code and the state.                *)

Fresh(s) ==
  /\ \A b \in Browsers : store[b].oauthState # s
  /\ \A r \in Requests : req[r].session.oauthState # s

connect(r, b, s) ==
  /\ Fresh(s)
  /\ Loads(r, b, "connecting", [store[b] EXCEPT !.oauthState = s])
  /\ UNCHANGED <<users, links, store, opened>>

connected(r) ==
  /\ At(r, "connecting")
  /\ EndsSaving(r)
  /\ UNCHANGED <<users, links, opened>>

(* s: the state that came back, null for none or one of somebody else's.   *)
(* (Without a state in the session nothing happens.)                       *)
callback(r, b, s) ==
  /\ store[b].oauthState # null
  /\ Loads(r, b, IF s # null /\ s = store[b].oauthState
                 THEN "profile" ELSE "refused",
           [store[b] EXCEPT !.oauthState = null])
  /\ UNCHANGED <<users, links, store, opened>>

(* findUserByCode: the provider tells who it is.                           *)
profile(r, i, m) ==
  /\ At(r, "profile")
  /\ req' = [req EXCEPT ![r].step = "account", ![r].id = i, ![r].mail = m]
  /\ UNCHANGED <<users, links, store, opened>>

-----------------------------------------------------------------------------
(* extractProfileFromCode.                                                 *)

findAccount(r) ==
  LET account == links[req[r].id] IN
  /\ At(r, "account")
  /\ req' = [req EXCEPT
       ![r].step = CASE account # null -> "byId"
                     [] account = null /\ req[r].mail # null -> "byMail"
                     [] OTHER -> "create",
       ![r].user = account]
  /\ UNCHANGED <<users, links, store, opened>>

(* The row of a deleted account is there too.                              *)
findById(r) ==
  /\ At(r, "byId")
  /\ Goes(r, "session")
  /\ UNCHANGED <<users, links, store, opened>>

WithMail(m) == {u \in Users : users[u].mail = m}

findByEmail(r) ==
  LET found == WithMail(req[r].mail) IN
  /\ At(r, "byMail")
  /\ IF found = {} THEN Goes(r, "create")
     ELSE \E u \in found :
            req' = [req EXCEPT ![r].step = "link", ![r].user = u]
  /\ UNCHANGED <<users, links, store, opened>>

(* The address is unique: the slower of two sign-ups fails.                *)
createUser(r, u) ==
  /\ At(r, "create")
  /\ users[u].state = "unborn"
  /\ req[r].mail = null \/ WithMail(req[r].mail) = {}
  /\ users' = [users EXCEPT ![u] = [state |-> "alive", mail |-> req[r].mail]]
  /\ req' = [req EXCEPT ![r].step = "link", ![r].user = u]
  /\ UNCHANGED <<links, store, opened>>

(* The identity is linked anew when it is linked already.                  *)
createAccount_upsert(r) ==
  /\ At(r, "link")
  /\ links' = [links EXCEPT ![req[r].id] = req[r].user]
  /\ Goes(r, "session")
  /\ UNCHANGED <<users, store, opened>>

(* Unique as well: when another request has linked it, this one fails.     *)
createAccount(r) ==
  /\ At(r, "link")
  /\ links[req[r].id] = null
  /\ links' = [links EXCEPT ![req[r].id] = req[r].user]
  /\ Goes(r, "session")
  /\ UNCHANGED <<users, store, opened>>

(* Only the cookie is set anew, the session is saved by a later request.   *)
saveSession_unsaved(r) ==
  /\ At(r, "session") \/ At(r, "login")
  /\ opened' = IF At(r, "login") THEN opened
               ELSE [opened EXCEPT ![req[r].id] = req[r].user]
  /\ Ends(r)
  /\ UNCHANGED <<users, links, store>>

(* saveSession, of whichever way in.                                       *)
saveSession(r) ==
  /\ At(r, "session") \/ At(r, "login")
  /\ store' = [store EXCEPT ![req[r].browser] =
                 [req[r].session EXCEPT !.user = req[r].user]]
  /\ opened' = IF At(r, "login") THEN opened
               ELSE [opened EXCEPT ![req[r].id] = req[r].user]
  /\ Ends(r)
  /\ UNCHANGED <<users, links>>

-----------------------------------------------------------------------------
(* The other ways in and out.                                              *)

(* An account that has signed up with an address.                          *)
register(u, m) ==
  /\ users[u].state = "unborn"
  /\ WithMail(m) = {}
  /\ users' = [users EXCEPT ![u] = [state |-> "alive", mail |-> m]]
  /\ UNCHANGED <<links, store, req, opened>>

login(r, b, u) ==
  /\ At(r, "idle")
  /\ users[u].state = "alive"
  /\ req' = [req EXCEPT ![r] = [Idle EXCEPT !.step = "login", !.browser = b,
                                 !.session = store[b], !.user = u]]
  /\ UNCHANGED <<users, links, store, opened>>

(* destroy; the end of a session's time in Redis looks the same.           *)
logout(b) ==
  /\ store[b] # NoSession
  /\ store' = [store EXCEPT ![b] = NoSession]
  /\ UNCHANGED <<users, links, req, opened>>

(* AuthGuard: the session's account is not deleted.                        *)
deleteAccount(r, b) ==
  /\ store[b].user # null
  /\ users[store[b].user].state = "alive"
  /\ Loads(r, b, "deleting", store[b])
  /\ UNCHANGED <<users, links, store, opened>>

(* account.deleteMany and user.update, one transaction.                    *)
anonymize(r) ==
  LET u == req[r].session.user IN
  /\ At(r, "deleting")
  /\ links' = [i \in Ids |-> IF links[i] = u THEN null ELSE links[i]]
  /\ users' = [users EXCEPT ![u] = [state |-> "deleted", mail |-> null]]
  /\ Goes(r, "destroying")
  /\ UNCHANGED <<store, opened>>

destroy(r) ==
  /\ At(r, "destroying")
  /\ store' = [store EXCEPT ![req[r].browser] = NoSession]
  /\ Ends(r)
  /\ UNCHANGED <<users, links, opened>>

-----------------------------------------------------------------------------

Begin(r) ==
  \E b \in Browsers :
    \/ \E s \in States : connect(r, b, s)
    \/ \E s \in States \cup {null} : callback(r, b, s)
    \/ \E u \in Users : login(r, b, u)
    \/ deleteAccount(r, b)

Step(r) ==
  \/ connected(r)
  \/ \E i \in Ids, m \in Mails \cup {null} : profile(r, i, m)
  \/ findAccount(r)
  \/ findById(r)
  \/ findByEmail(r)
  \/ \E u \in Users : createUser(r, u)
  \/ createAccount(r)
  \/ saveSession(r)
  \/ anonymize(r)
  \/ destroy(r)
  \/ fail(r)

Next ==
  \/ \E r \in Requests : Begin(r) \/ Step(r)
  \/ \E b \in Browsers : logout(b)
  \/ \E u \in Users, m \in Mails : register(u, m)
  \/ crash

Spec == Init /\ [][Next]_vars
=============================================================================
