------------------------------- MODULE SignIn --------------------------------
(* Registering, signing in and out of the mail's links and codes           *)
(* (AuthService, EmailConfirmationService, TwoFactorAuthService,           *)
(* PasswordRecoveryService, EmailChangeService) and what account deletion  *)
(* leaves of it.  A handler is split at its awaits:                        *)
(*                                                                         *)
(*   register, login, registerSmsComplete, extractProfileFromCode,         *)
(*                       read -> [send]  or  read -> session  or           *)
(*   resetPassword       read -> validate -> consume -> session            *)
(*     send: findToken -> deleteToken -> createToken                       *)
(*   newVirification     token -> user -> verify -> consume -> session     *)
(*   verifySms           token, user -> verifySms -> session               *)
(*   newPassword         token -> user -> reset -> consume                 *)
(*   requestEmailChange  read -> taken -> deleteMany -> createToken        *)
(*   confirmEmailChange  token -> change -> consume                        *)
(*   toggleTwoFactor, updatePassword   read -> write                       *)
(*                                                                         *)
(* An account is verified by the link in a mail, by a call from a number   *)
(* of its own, or by the provider it comes from: all set users.isVerified. *)
(* The numbers and the calls are in PhoneSignUp and Phones, the identities *)
(* in OAuthSignIn; here any account may have a number, and any account may *)
(* be verified by a call.                                                  *)
(*                                                                         *)
(* Passwords are right or the handler has answered: only whether there is  *)
(* one is kept.  AuthGuard and the first read are one step.  Sessions and  *)
(* the promotion of administrators are left out.                           *)
(*                                                                         *)
(* A definition op_variant before op is op with a mistake in it; nothing   *)
(* here uses it.  Putting it in op's place breaks one of the properties.   *)
(***************************************************************************)
EXTENDS Naturals, FiniteSets

CONSTANTS
  Users,     (* ids; those of accounts to come as well                     *)
  Emails,
  Tokens,    (* ids; bounds the mails sent                                 *)
  Requests,  (* slots for requests being handled at the same time          *)
  Kinds,     (* sets of types of token: a behaviour looks at those of one  *)
  MailOf,    (* the accounts at the start: their verified address, or null *)
  null

TokenType == {"VERIFICATION", "TWO_FACTOR", "PASSWORD_RESET", "EMAIL_CHANGE"}

ASSUME SignInAssumption ==
  /\ MailOf \in [Users -> Emails \cup {null}]
  /\ Kinds \subseteq SUBSET TokenType
  /\ null \notin Users /\ null \notin Emails /\ null \notin Tokens

VARIABLES
  kinds,    (* the types of token this behaviour looks at                  *)
  users,    (* the rows of users                                           *)
  tokens,   (* the rows of tokens                                          *)
  req,      (* the request handled in each slot                            *)
  proven,   (* history: addresses whose link somebody has followed         *)
  vouched,  (* history: the address that an account had when a call or its *)
            (* provider verified it                                        *)
  opened    (* history: sessions opened with a token                       *)

vars == <<kinds, users, tokens, req, proven, vouched, opened>>

-----------------------------------------------------------------------------
(* Types.                                                                  *)

User == [state : {"unborn", "alive", "deleted"}, email : Emails \cup {null},
         password : BOOLEAN, verified : BOOLEAN, twoFactor : BOOLEAN]

Account(state, email, verified) ==
  [state |-> state, email |-> email, password |-> state = "alive",
   verified |-> verified, twoFactor |-> FALSE]

Token == [state : {"unborn", "live", "gone"}, type : TokenType \cup {null},
          email : Emails \cup {null}, user : Users \cup {null},
          expired : BOOLEAN]

Row(state, type, email, user) ==
  [state |-> state, type |-> type, email |-> email, user |-> user,
   expired |-> FALSE]

Request == [step : {"idle", "findToken", "deleteToken", "createToken", "taken",
                    "deleteMany", "validate", "findUser", "verify", "reset",
                    "change", "consume", "session", "toggle", "update",
                    "verifySms"},
            type : TokenType \cup {null},
            user : Users \cup {null}, email : Emails \cup {null},
            token : Tokens \cup {null},    \* found
            code : Tokens \cup {null},     \* presented
            enable : BOOLEAN]              \* toggleTwoFactor's new value

At(step, type, user, email, token) ==
  [step |-> step, type |-> type, user |-> user, email |-> email,
   token |-> token, code |-> token, enable |-> FALSE]

Idle == At("idle", null, null, null, null)

TypeOK ==
  /\ users \in [Users -> User]
  /\ tokens \in [Tokens -> Token]
  /\ req \in [Requests -> Request]
  /\ proven \subseteq Emails
  /\ vouched \subseteq Users \X Emails
  /\ opened \in [Tokens -> Nat]

Init ==
  /\ kinds \in Kinds
  /\ users = [u \in Users |->
       IF MailOf[u] = null THEN Account("unborn", null, FALSE)
       ELSE Account("alive", MailOf[u], TRUE)]
  /\ tokens = [t \in Tokens |-> Row("unborn", null, null, null)]
  /\ req = [r \in Requests |-> Idle]
  /\ proven = {MailOf[u] : u \in Users} \ {null}
  /\ vouched = {}
  /\ opened = [t \in Tokens |-> 0]

-----------------------------------------------------------------------------
(* Helpers.                                                                *)

Become(r, q) == req' = [req EXCEPT ![r] = q]

Go(r, step) == Become(r, [req[r] EXCEPT !.step = step])

Respond(r) == Become(r, Idle)

Public(r) == req[r].step = "idle"

Begin(r, u) == Public(r) /\ users[u].state = "alive"

history == <<proven, vouched, opened>>

SetUser(u, row) == users' = [users EXCEPT ![u] = row]

Delete(t) == tokens' = [tokens EXCEPT ![t].state = "gone"]

Live(type, email) ==
  {t \in Tokens : /\ tokens[t].state = "live"
                  /\ tokens[t].type = type /\ tokens[t].email = email}

(* The token a link carries: there, of that type and not expired.          *)
Follows(t, type) ==
  /\ tokens[t].state = "live" /\ tokens[t].type = type
  /\ ~tokens[t].expired

(* Account u has been verified, with address e, but not by a link.         *)
Vouch(u, e) == vouched' = vouched \cup ({<<u, e>>} \cap (Users \X Emails))

(* findByEmail                                                             *)
HasEmail(u, e) == users[u].email = e /\ e # null

Taken(e) == \E u \in Users : HasEmail(u, e)

-----------------------------------------------------------------------------
(* Registering and signing in.                                             *)

(* isVerified is passed as TRUE, as for the registration by telephone.     *)
register_verified(r, u, e) ==
  /\ Public(r)
  /\ users[u].state = "unborn"
  /\ ~Taken(e)
  /\ SetUser(u, Account("alive", e, TRUE))
  /\ Become(r, At("findToken", "VERIFICATION", null, e, null))
  /\ UNCHANGED <<tokens, history>>

(* With an address, a number or both; the address is looked up, and        *)
(* unique.  A mail is sent if there is an address; if not, a call is asked *)
(* for (PhoneSignUp).                                                      *)
register(r, u, e) ==
  /\ Public(r)
  /\ users[u].state = "unborn"
  /\ ~Taken(e)
  /\ SetUser(u, Account("alive", e, FALSE))
  /\ Become(r, IF e = null THEN Idle
               ELSE At("findToken", "VERIFICATION", null, e, null))
  /\ UNCHANGED <<tokens, history>>

(* With the code that a call has earned (PhoneSignUp).                     *)
registerSmsComplete(r, u) ==
  /\ Public(r)
  /\ users[u].state = "unborn"
  /\ SetUser(u, Account("alive", null, TRUE))
  /\ Become(r, At("session", null, u, null, null))
  /\ UNCHANGED <<tokens, history>>

(* A provider's identity becomes an account, with the address the provider *)
(* tells, if it does (OAuthSignIn).                                        *)
extractProfileFromCode(r, u, e) ==
  /\ Public(r)
  /\ users[u].state = "unborn"
  /\ ~Taken(e)
  /\ SetUser(u, [Account("alive", e, TRUE) EXCEPT !.password = FALSE])
  /\ Become(r, At("session", null, u, null, null))
  /\ Vouch(u, e)
  /\ UNCHANGED <<tokens, proven, opened>>

(* The code of a call from the account's number; the account is found by   *)
(* the number.                                                             *)
verifySms(r, u) ==
  /\ Begin(r, u)
  /\ Become(r, At("verifySms", null, u, null, null))
  /\ UNCHANGED <<users, tokens, history>>

setVerified(r) ==
  LET u == req[r].user IN
  /\ req[r].step = "verifySms"
  /\ SetUser(u, [users[u] EXCEPT !.verified = TRUE])
  /\ Vouch(u, users[u].email)
  /\ Become(r, At("session", null, u, null, null))
  /\ UNCHANGED <<tokens, proven, opened>>

(* By address or number; verified or not and with a second factor or not:  *)
(* as the row was read.  Without an address an account need neither be     *)
(* verified nor is its second factor asked for.                            *)
login(r, u) ==
  LET byMail == users[u].email # null IN
  /\ Public(r)
  /\ users[u].password
  /\ \/ /\ byMail /\ ~users[u].verified
        /\ Become(r, At("findToken", "VERIFICATION", null, users[u].email, null))
     \/ /\ byMail => users[u].verified /\ ~users[u].twoFactor
        /\ Become(r, At("session", null, u, null, null))
     \/ /\ byMail /\ users[u].verified /\ users[u].twoFactor
        /\ Become(r, At("findToken", "TWO_FACTOR", null, users[u].email, null))
     \/ /\ byMail /\ users[u].verified /\ users[u].twoFactor
        /\ \E t \in Tokens :
             /\ tokens[t].state # "unborn" /\ tokens[t].type = "TWO_FACTOR"
             /\ Become(r, At("validate", "TWO_FACTOR", u, users[u].email, t))
  /\ UNCHANGED <<users, tokens, history>>

resetPassword(r, u) ==
  /\ Public(r)
  /\ users[u].email # null
  /\ Become(r, At("findToken", "PASSWORD_RESET", null, users[u].email, null))
  /\ UNCHANGED <<users, tokens, history>>

-----------------------------------------------------------------------------
(* generateVerificationToken, -TwoFactorToken, -PasswordResetToken.        *)

(* One of the tokens there are.                                            *)
findToken(r) ==
  LET q == req[r] IN
  /\ q.step = "findToken"
  /\ \/ Live(q.type, q.email) = {} /\ Go(r, "createToken")
     \/ \E t \in Live(q.type, q.email) :
          Become(r, [q EXCEPT !.step = "deleteToken", !.token = t])
  /\ UNCHANGED <<users, tokens, history>>

(* Deleting a token that is gone already is an error (Fail).               *)
deleteToken(r) ==
  /\ req[r].step = "deleteToken"
  /\ tokens[req[r].token].state = "live"
  /\ Delete(req[r].token)
  /\ Go(r, "createToken")
  /\ UNCHANGED <<users, history>>

(* The address is stored as the account's.                                 *)
createToken_address(r) ==
  LET q == req[r] IN
  /\ q.step = "createToken"
  /\ \E t \in Tokens :
       /\ tokens[t].state = "unborn"
       /\ tokens' = [tokens EXCEPT ![t] = Row("live", q.type, q.email, q.email)]
  /\ Respond(r)
  /\ UNCHANGED <<users, history>>

createToken(r) ==
  LET q == req[r] IN
  /\ q.step = "createToken"
  /\ \E t \in Tokens :
       /\ tokens[t].state = "unborn"
       /\ tokens' = [tokens EXCEPT ![t] = Row("live", q.type, q.email, q.user)]
  /\ Respond(r)
  /\ UNCHANGED <<users, history>>

(* Any token of the address; it must be the one presented.                 *)
validateTwoFactorToken(r) ==
  LET q == req[r] IN
  /\ q.step = "validate"
  /\ \E t \in Live("TWO_FACTOR", q.email) :
       IF t = q.code /\ ~tokens[t].expired THEN Go(r, "consume") ELSE Respond(r)
  /\ UNCHANGED <<users, tokens, history>>

-----------------------------------------------------------------------------
(* Following a link.                                                       *)

followLink(r, t, type) ==
  /\ Public(r)
  /\ Follows(t, type)
  /\ Become(r, At("findUser", type, null, tokens[t].email, t))
  /\ proven' = proven \cup {tokens[t].email}
  /\ UNCHANGED <<users, tokens, vouched, opened>>

newVirification(r, t) == followLink(r, t, "VERIFICATION")

newPassword(r, t) == followLink(r, t, "PASSWORD_RESET")

(* The account of the address, as it is now.                               *)
findUser(r) ==
  LET q == req[r] IN
  /\ q.step = "findUser"
  /\ \/ \E u \in Users :
          /\ HasEmail(u, q.email)
          /\ Become(r, [q EXCEPT !.user = u,
               !.step = IF q.type = "VERIFICATION" THEN "verify" ELSE "reset"])
     \/ ~Taken(q.email) /\ Respond(r)
  /\ UNCHANGED <<users, tokens, history>>

verify(r) ==
  LET u == req[r].user IN
  /\ req[r].step = "verify"
  /\ SetUser(u, [users[u] EXCEPT !.verified = TRUE])
  /\ Go(r, "consume")
  /\ UNCHANGED <<tokens, history>>

reset(r) ==
  LET u == req[r].user IN
  /\ req[r].step = "reset"
  /\ SetUser(u, [users[u] EXCEPT !.password = TRUE])
  /\ Go(r, "consume")
  /\ UNCHANGED <<tokens, history>>

OpensSession(r) == req[r].type \in {"VERIFICATION", "TWO_FACTOR"}

(* deleteMany: no error when the token is gone.                            *)
consume_anyToken(r) ==
  /\ req[r].step = "consume"
  /\ Delete(req[r].token)
  /\ IF OpensSession(r) THEN Go(r, "session") ELSE Respond(r)
  /\ UNCHANGED <<users, history>>

(* Deleting a token that is gone already is an error (Fail).               *)
consume(r) ==
  /\ req[r].step = "consume"
  /\ tokens[req[r].token].state = "live"
  /\ Delete(req[r].token)
  /\ IF OpensSession(r) THEN Go(r, "session") ELSE Respond(r)
  /\ UNCHANGED <<users, history>>

saveSession(r) ==
  LET t == req[r].token IN
  /\ req[r].step = "session"
  /\ opened' = IF t = null THEN opened ELSE [opened EXCEPT ![t] = @ + 1]
  /\ Respond(r)
  /\ UNCHANGED <<users, tokens, proven, vouched>>

-----------------------------------------------------------------------------
(* Changing the address.                                                   *)

requestEmailChange(r, u, e) ==
  /\ Begin(r, u)
  /\ users[u].password
  /\ Become(r, At("taken", "EMAIL_CHANGE", u, e, null))
  /\ UNCHANGED <<users, tokens, history>>

findByEmail(r) ==
  /\ req[r].step = "taken"
  /\ IF Taken(req[r].email) THEN Respond(r) ELSE Go(r, "deleteMany")
  /\ UNCHANGED <<users, tokens, history>>

deleteMany(r) ==
  /\ req[r].step = "deleteMany"
  /\ tokens' = [t \in Tokens |->
       IF /\ tokens[t].state = "live" /\ tokens[t].user = req[r].user
          /\ tokens[t].type = "EMAIL_CHANGE"
       THEN [tokens[t] EXCEPT !.state = "gone"] ELSE tokens[t]]
  /\ Go(r, "createToken")
  /\ UNCHANGED <<users, history>>

(* The account is the one that asked.                                      *)
confirmEmailChange(r, t) ==
  /\ Public(r)
  /\ Follows(t, "EMAIL_CHANGE")
  /\ Become(r, At("change", "EMAIL_CHANGE", tokens[t].user, tokens[t].email, t))
  /\ proven' = proven \cup {tokens[t].email}
  /\ UNCHANGED <<users, tokens, vouched, opened>>

(* An address that is another account's by now is an error (Fail).         *)
change(r) ==
  LET q == req[r] IN
  /\ q.step = "change"
  /\ \A u \in Users \ {q.user} : users[u].email # q.email
  /\ SetUser(q.user, [users[q.user] EXCEPT !.email = q.email, !.verified = TRUE])
  /\ Go(r, "consume")
  /\ UNCHANGED <<tokens, history>>

-----------------------------------------------------------------------------
(* The rest of the account.                                                *)

toggleTwoFactor(r, u) ==
  /\ Begin(r, u)
  /\ users[u].verified
  /\ Become(r, [At("toggle", null, u, null, null) EXCEPT
                  !.enable = ~users[u].twoFactor])
  /\ UNCHANGED <<users, tokens, history>>

toggle(r) ==
  LET u == req[r].user IN
  /\ req[r].step = "toggle"
  /\ SetUser(u, [users[u] EXCEPT !.twoFactor = req[r].enable])
  /\ Respond(r)
  /\ UNCHANGED <<tokens, history>>

updatePassword(r, u) ==
  /\ Begin(r, u)
  /\ Become(r, At("update", null, u, null, null))
  /\ UNCHANGED <<users, tokens, history>>

update(r) ==
  LET u == req[r].user IN
  /\ req[r].step = "update"
  /\ SetUser(u, [users[u] EXCEPT !.password = TRUE])
  /\ Respond(r)
  /\ UNCHANGED <<tokens, history>>

(* The account's tokens stay.                                              *)
deleteAccount_keepTokens(r, u) ==
  /\ Begin(r, u)
  /\ SetUser(u, [Account("deleted", null, users[u].verified) EXCEPT
                   !.password = FALSE])
  /\ UNCHANGED <<tokens, req, history>>

(* One transaction (Phones has its statements).  Tokens that only have an  *)
(* address stay.                                                           *)
deleteAccount(r, u) ==
  /\ Begin(r, u)
  /\ SetUser(u, Account("deleted", null, users[u].verified))
  /\ tokens' = [t \in Tokens |->
       IF tokens[t].state = "live" /\ tokens[t].user = u
       THEN [tokens[t] EXCEPT !.state = "gone"] ELSE tokens[t]]
  /\ UNCHANGED <<req, history>>

timeout(t) ==
  /\ tokens[t].state = "live" /\ ~tokens[t].expired
  /\ tokens' = [tokens EXCEPT ![t].expired = TRUE]
  /\ UNCHANGED <<users, req, history>>

(* A query or a mail fails, or the process dies.                           *)
Fail(r) ==
  /\ req[r].step # "idle"
  /\ Respond(r)
  /\ UNCHANGED <<users, tokens, history>>

-----------------------------------------------------------------------------

Start(r, u) ==
  \/ login(r, u) \/ deleteAccount(r, u)
  \/ registerSmsComplete(r, u) \/ verifySms(r, u)
  \/ "VERIFICATION" \in kinds /\ \E e \in Emails \cup {null} :
       register(r, u, e) \/ extractProfileFromCode(r, u, e)
  \/ "TWO_FACTOR" \in kinds /\ toggleTwoFactor(r, u)
  \/ "PASSWORD_RESET" \in kinds /\ (resetPassword(r, u) \/ updatePassword(r, u))
  \/ "EMAIL_CHANGE" \in kinds /\ \E e \in Emails : requestEmailChange(r, u, e)

Link(r, t) ==
  newVirification(r, t) \/ newPassword(r, t) \/ confirmEmailChange(r, t)

HandlerStep(r) ==
  \/ findToken(r) \/ deleteToken(r) \/ createToken(r)
  \/ validateTwoFactorToken(r) \/ findUser(r) \/ verify(r) \/ setVerified(r)
  \/ reset(r)
  \/ consume(r) \/ saveSession(r)
  \/ findByEmail(r) \/ deleteMany(r) \/ change(r)
  \/ toggle(r) \/ update(r)

Next ==
  /\ \/ \E r \in Requests :
          \/ \E u \in Users : Start(r, u)
          \/ \E t \in Tokens : Link(r, t)
          \/ HandlerStep(r)
          \/ Fail(r)
     \/ \E t \in Tokens : timeout(t)
  /\ UNCHANGED kinds

Spec == Init /\ [][Next]_vars

-----------------------------------------------------------------------------
(* Properties.                                                             *)

(* A link or a code opens one session, however many requests have found it *)
(* before the first deleted it.                                            *)
CodeOpensOneSession == \A t \in Tokens : opened[t] <= 1

(* The address of a verified account is one somebody has followed a link   *)
(* from, unless it is the one the account had when a call or its provider  *)
(* verified it (isVerified does not say which): also when addresses        *)
(* change, move to another account or are taken while a link is being      *)
(* followed.                                                               *)
VerifiedWasProven ==
  \A u \in Users :
    users[u].verified /\ users[u].email # null =>
      users[u].email \in proven \/ <<u, users[u].email>> \in vouched
=============================================================================
