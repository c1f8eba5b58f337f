----------------------------- MODULE PhoneSignUp -----------------------------
(* Registering and signing in with a telephone number (AuthService): the   *)
(* person calls zvonok from the number, the front end polls until it is    *)
(* told the call's id, and that id is the code with which an account is    *)
(* made or verified.  A handler is split at its awaits:                    *)
(*                                                                         *)
(*   registerSmsStart        owner -> send                                 *)
(*   register                owner -> createUser [-> send]                 *)
(*     send: [zvonok] -> deleteTokens -> findUser -> createToken           *)
(*   checkSmsCallbackStatus  token -> expire | status                      *)
(*   registerSmsComplete     token -> expire | createUser -> consume ->    *)
(*                           session                                       *)
(*   verifySms               token -> expire | findOwner -> verify ->      *)
(*                           consume -> session                            *)
(*                                                                         *)
(* An account verified by a link in a mail is verified as well: there is   *)
(* one isVerified.  The mails and signing in with the number and a password*)
(* are in SignIn; what else happens to the numbers of an account is in     *)
(* Phones.                                                                 *)
(*                                                                         *)
(* A definition op_variant before op is op with a mistake in it; nothing   *)
(* here uses it.  Putting it in op's place breaks one of the properties.   *)
(***************************************************************************)
EXTENDS Naturals

CONSTANTS
  Users,     (* ids of accounts to come                                    *)
  Numbers,
  Tokens,    (* call ids; bounds the calls asked for                       *)
  Requests,  (* slots for requests being handled at the same time          *)
  null

PhoneSignUpAssumption == null \notin Users \cup Numbers \cup Tokens

VARIABLES
  users,     (* the rows of users                                          *)
  owner,     (* user_phones: whose number it is; phone is unique           *)
  tokens,    (* tokens of type SMS_VERIFICATION                            *)
  req,       (* the request handled in each slot                           *)
  opened     (* history: how many sessions a token has opened              *)

vars == <<users, owner, tokens, req, opened>>

-----------------------------------------------------------------------------

User == [state : {"unborn", "alive", "deleted"}, verified : BOOLEAN,
         linked : BOOLEAN]   \* history: by a link, while it is there

Account(state, verified) ==
  [state |-> state, verified |-> verified, linked |-> FALSE]

Token == [state : {"unborn", "live", "gone"}, phone : Numbers \cup {null},
          user : Users \cup {null}, expired : BOOLEAN,
          called : BOOLEAN,    \* zvonok has had the call
          told : BOOLEAN]      \* the person has been given the code

Issued(phone, user) ==
  [state |-> "live", phone |-> phone, user |-> user, expired |-> FALSE,
   called |-> FALSE, told |-> FALSE]

Unborn == [Issued(null, null) EXCEPT !.state = "unborn"]

Request ==
  [step : {"idle", "deleteTokens", "findUser", "createToken", "expire",
           "status", "createUser", "findOwner", "verify", "consume",
           "session"},
   phone : Numbers \cup {null}, user : Users \cup {null},
   token : Tokens \cup {null}]

At(step, phone, user, token) ==
  [step |-> step, phone |-> phone, user |-> user, token |-> token]

Idle == At("idle", null, null, null)

TypeOK ==
  /\ users \in [Users -> User]
  /\ owner \in [Numbers -> Users \cup {null}]
  /\ tokens \in [Tokens -> Token]
  /\ req \in [Requests -> Request]
  /\ opened \in [Tokens -> Nat]

Init ==
  /\ users = [u \in Users |-> Account("unborn", FALSE)]
  /\ owner = [p \in Numbers |-> null]
  /\ tokens = [t \in Tokens |-> Unborn]
  /\ req = [r \in Requests |-> Idle]
  /\ opened = [t \in Tokens |-> 0]

-----------------------------------------------------------------------------

Become(r, q) == req' = [req EXCEPT ![r] = q]

Go(r, step) == req' = [req EXCEPT ![r].step = step]

Live(t) == tokens[t].state = "live"

Delete(t) == tokens' = [tokens EXCEPT ![t].state = "gone"]

(* The request throws: a refusal, zvonok or the database fails, a unique   *)
(* index is hit, the row to delete is gone; or the process dies.           *)
fail(r) ==
  /\ req[r].step # "idle"
  /\ Become(r, Idle)
  /\ UNCHANGED <<users, owner, tokens, opened>>

-----------------------------------------------------------------------------
(* Asking for a call.                                                      *)

registerSmsStart(r, p) ==
  /\ req[r].step = "idle"
  /\ owner[p] = null
  /\ Become(r, At("deleteTokens", p, null, null))
  /\ UNCHANGED <<users, owner, tokens, opened>>

register(r, p) ==
  /\ req[r].step = "idle"
  /\ owner[p] = null
  /\ Become(r, At("createUser", p, null, null))
  /\ UNCHANGED <<users, owner, tokens, opened>>

(* zvonok has answered with a call id; the codes of the number are void.   *)
deleteTokens(r) ==
  /\ req[r].step = "deleteTokens"
  /\ tokens' = [t \in Tokens |->
       IF Live(t) /\ tokens[t].phone = req[r].phone
       THEN [tokens[t] EXCEPT !.state = "gone"] ELSE tokens[t]]
  /\ Go(r, "findUser")
  /\ UNCHANGED <<users, owner, opened>>

findUser(r) ==
  LET p == req[r].phone IN
  /\ req[r].step = "findUser"
  /\ Become(r, At("createToken", p, owner[p], null))
  /\ UNCHANGED <<users, owner, tokens, opened>>

createToken(r, t) ==
  /\ req[r].step = "createToken"
  /\ tokens[t].state = "unborn"
  /\ tokens' = [tokens EXCEPT ![t] = Issued(req[r].phone, req[r].user)]
  /\ Become(r, Idle)
  /\ UNCHANGED <<users, owner, opened>>

-----------------------------------------------------------------------------
(* Polling and using the code.                                             *)

(* A handler that has found t goes on, or deletes it when it is too old.   *)
Found(r, t, step) ==
  /\ req[r].step = "idle"
  /\ Live(t)
  /\ Become(r, At(IF tokens[t].expired THEN "expire" ELSE step,
                  tokens[t].phone, null, t))
  /\ UNCHANGED <<users, owner, tokens, opened>>

expire(r) ==
  /\ req[r].step = "expire"
  /\ Delete(req[r].token)
  /\ Become(r, Idle)
  /\ UNCHANGED <<users, owner, opened>>

checkSmsCallbackStatus(r, t) == Found(r, t, "status")

(* Whichever call zvonok has had.                                          *)
status_anyCall(r) ==
  /\ req[r].step = "status"
  /\ \E t \in Tokens : tokens[t].called
  /\ tokens' = [tokens EXCEPT ![req[r].token].told = TRUE]
  /\ Become(r, Idle)
  /\ UNCHANGED <<users, owner, opened>>

(* checkCallbackConfirmed; when zvonok cannot be reached the answer is     *)
(* "not yet", which changes nothing (fail).                                *)
status(r) ==
  /\ req[r].step = "status"
  /\ tokens[req[r].token].called
  /\ tokens' = [tokens EXCEPT ![req[r].token].told = TRUE]
  /\ Become(r, Idle)
  /\ UNCHANGED <<users, owner, opened>>

registerSmsComplete(r, t) == tokens[t].told /\ Found(r, t, "createUser")

verifySms(r, t) == tokens[t].told /\ Found(r, t, "findOwner")

(* User and number are created together; the number is unique.  Without a  *)
(* code (register) the account is not verified, and a call is asked for    *)
(* unless there is an address as well: then a mail is sent and nobody      *)
(* needs to call.                                                          *)
createUser(r, u) ==
  LET p == req[r].phone  t == req[r].token IN
  /\ req[r].step = "createUser"
  /\ users[u].state = "unborn"
  /\ owner[p] = null
  /\ users' = [users EXCEPT ![u] = Account("alive", t # null)]
  /\ owner' = [owner EXCEPT ![p] = u]
  /\ \/ t = null /\ Become(r, At("deleteTokens", p, null, null))
     \/ t = null /\ Become(r, Idle)
     \/ t # null /\ Become(r, At("consume", p, u, t))
  /\ UNCHANGED <<tokens, opened>>

findOwner(r) ==
  LET p == req[r].phone IN
  /\ req[r].step = "findOwner"
  /\ owner[p] # null
  /\ Become(r, At("verify", p, owner[p], req[r].token))
  /\ UNCHANGED <<users, owner, tokens, opened>>

verify(r) ==
  /\ req[r].step = "verify"
  /\ users' = [users EXCEPT ![req[r].user].verified = TRUE]
  /\ Go(r, "consume")
  /\ UNCHANGED <<owner, tokens, opened>>

consume(r) ==
  /\ req[r].step = "consume"
  /\ Live(req[r].token)
  /\ Delete(req[r].token)
  /\ Go(r, "session")
  /\ UNCHANGED <<users, owner, opened>>

saveSession(r) ==
  /\ req[r].step = "session"
  /\ opened' = [opened EXCEPT ![req[r].token] = @ + 1]
  /\ Become(r, Idle)
  /\ UNCHANGED <<users, owner, tokens>>

-----------------------------------------------------------------------------
(* The rest of the world.                                                  *)

(* A deleted account gives its number and its codes back.                  *)
deleteAccount(u) ==
  /\ users[u].state = "alive"
  /\ users' = [users EXCEPT ![u] = Account("deleted", users[u].verified)]
  /\ owner' = [p \in Numbers |-> IF owner[p] = u THEN null ELSE owner[p]]
  /\ tokens' = [t \in Tokens |->
       IF Live(t) /\ tokens[t].user = u
       THEN [tokens[t] EXCEPT !.state = "gone"] ELSE tokens[t]]
  /\ UNCHANGED <<req, opened>>

(* The account follows the link of its first address or of another one it  *)
(* has asked for, which any account with a password may (SignIn's verify   *)
(* and change).                                                            *)
confirmEmail(u) ==
  /\ users[u].state = "alive"
  /\ ~users[u].verified
  /\ users' = [users EXCEPT ![u].verified = TRUE, ![u].linked = TRUE]
  /\ UNCHANGED <<owner, tokens, req, opened>>

(* The person calls from the number; five minutes are over.                *)
call(t) ==
  /\ tokens[t].state # "unborn"
  /\ ~tokens[t].called
  /\ tokens' = [tokens EXCEPT ![t].called = TRUE]
  /\ UNCHANGED <<users, owner, req, opened>>

timeout(t) ==
  /\ Live(t)
  /\ ~tokens[t].expired
  /\ tokens' = [tokens EXCEPT ![t].expired = TRUE]
  /\ UNCHANGED <<users, owner, req, opened>>

-----------------------------------------------------------------------------

Begin(r) ==
  \/ \E p \in Numbers : registerSmsStart(r, p) \/ register(r, p)
  \/ \E t \in Tokens : \/ checkSmsCallbackStatus(r, t)
                       \/ registerSmsComplete(r, t) \/ verifySms(r, t)

Continue(r) ==
  \/ deleteTokens(r)
  \/ findUser(r)
  \/ \E t \in Tokens : createToken(r, t)
  \/ expire(r)
  \/ status(r)
  \/ \E u \in Users : createUser(r, u)
  \/ findOwner(r)
  \/ verify(r)
  \/ consume(r)
  \/ saveSession(r)
  \/ fail(r)

Next ==
  \/ \E r \in Requests : Begin(r) \/ Continue(r)
  \/ \E u \in Users : deleteAccount(u) \/ confirmEmail(u)
  \/ \E t \in Tokens : call(t) \/ timeout(t)

Spec == Init /\ [][Next]_vars

-----------------------------------------------------------------------------
(* Properties.                                                             *)

Called(p) == \E t \in Tokens : tokens[t].phone = p /\ tokens[t].called

(* An account no link has verified is verified only when somebody has      *)
(* called from the number it has, though codes are asked for, told and     *)
(* used by overlapping requests, and the number passes from a deleted      *)
(* account to another.                                                     *)
VerifiedByCall ==
  \A u \in Users :
    users[u].state = "alive" /\ users[u].verified /\ ~users[u].linked =>
      \E p \in Numbers : owner[p] = u /\ Called(p)

(* A code opens one session at most, for registerSmsComplete or verifySms, *)
(* however often it is sent and whatever breaks off in between.            *)
CodeOpensOneSession == \A t \in Tokens : opened[t] <= 1
=============================================================================
