----------------------------- MODULE SignInProofs -----------------------------
(* What holds of links, codes and sessions, of sign-ins with a provider,   *)
(* of profiles and avatars and of favorites, reports and notifications,    *)
(* for any number of accounts, addresses, tokens, identities, browsers,    *)
(* files, ads and requests handled at once, and all kinds of token.        *)
EXTENDS MCSignIn, FiniteSetTheorems, TLAPS

-----------------------------------------------------------------------------
(* The inductive invariant (SignIn).                                       *)

Exists(u) == u \in Users /\ users[u].state # "unborn"

(* A token is for an address and, where it changes one, for an account; it *)
(* is gone once it has opened its session.                                 *)
TokenFacts ==
  \A t \in Tokens :
    /\ tokens[t].state # "unborn" =>
         /\ tokens[t].email \in Emails
         /\ tokens[t].type = "EMAIL_CHANGE" => Exists(tokens[t].user)
    /\ opened[t] # 0 => opened[t] = 1 /\ tokens[t].state = "gone"

UserFacts == \A u \in Users : users[u].state = "unborn" => users[u].email = null

(* What a request knows, wherever it stands, stays true.                   *)
Knows(q) ==
  /\ q.step \in {"findToken", "deleteToken", "createToken", "taken",
                 "deleteMany", "findUser", "change"} => q.email \in Emails
  /\ q.step \in {"findToken", "deleteToken"} => q.type # "EMAIL_CHANGE"
  /\ q.step \in {"taken", "deleteMany", "change"} => Exists(q.user)
  /\ q.step = "createToken" /\ q.type = "EMAIL_CHANGE" => Exists(q.user)
  /\ q.step \in {"reset", "toggle", "update"} => q.user \in Users
  /\ q.step \in {"validate", "findUser", "verify", "reset", "change", "consume"} =>
       q.token \in Tokens
  /\ q.step \in {"findUser", "change"} => q.email \in proven
  /\ q.step = "verifySms" => Exists(q.user)
  /\ q.step = "verify" =>
       Exists(q.user) /\ users[q.user].email \in proven \cup {null}
  /\ q.step = "session" /\ q.token # null =>
       tokens[q.token].state = "gone" /\ opened[q.token] = 0

(* No two requests open a session with the same token.                     *)
Exclusive ==
  \A r, s \in Requests :
    r # s /\ req[r].step = "session" /\ req[s].step = "session"
      /\ req[r].token # null => req[r].token # req[s].token

IInv ==
  /\ TypeOK /\ TokenFacts /\ UserFacts /\ VerifiedWasProven /\ Exclusive
  /\ \A r \in Requests : Knows(req[r])

-----------------------------------------------------------------------------

LEMMA InitIInv == Init => IInv
<1> SUFFICES ASSUME Init
             PROVE  IInv
  OBVIOUS
<1> USE SignInAssumption DEF Init
<1>1. Idle \in Request /\ Idle.step = "idle"
  BY DEF Idle, At, Request
<1>2. TypeOK
  <2>1. users \in [Users -> User]
    BY DEF User, Account
  <2>2. tokens \in [Tokens -> Token]
    BY DEF Token, Row
  <2>3. proven \subseteq Emails
    OBVIOUS
  <2> QED
    BY <1>1, <2>1, <2>2, <2>3 DEF TypeOK
<1>3. TokenFacts
  BY DEF TokenFacts, Row
<1>4. UserFacts /\ VerifiedWasProven
  BY DEF UserFacts, VerifiedWasProven, Account
<1>5. Exclusive /\ \A r \in Requests : Knows(req[r])
  BY <1>1 DEF Exclusive, Knows
<1> QED
  BY <1>2, <1>3, <1>4, <1>5 DEF IInv

-----------------------------------------------------------------------------
(* What a step keeps.                                                      *)

(* A token that is gone stays gone, and none that was created comes back.  *)
TokensKeep ==
  \A t \in Tokens : tokens[t].state = "gone" => tokens'[t].state = "gone"

(* An account that exists goes on doing so; what its address becomes was   *)
(* proven.                                                                 *)
UsersKeep ==
  \A u \in Users : users[u].state # "unborn" =>
    /\ users'[u].state # "unborn"
    /\ users'[u].email # users[u].email => users'[u].email \in proven' \cup {null}

LEMMA OthersKeep ==
  ASSUME IInv, TokensKeep, UsersKeep, proven \subseteq proven',
         NEW s \in Requests, req'[s] = req[s],
         req[s].step = "session" /\ req[s].token # null =>
           opened'[req[s].token] = opened[req[s].token]
  PROVE  Knows(req[s])'
<1>1. Knows(req[s]) /\ req[s] \in Request
  BY DEF IInv, TypeOK
<1>2. req[s].token \in Tokens \cup {null}
  BY <1>1 DEF Request
<1> QED
  BY <1>1, <1>2 DEF Knows, TokensKeep, UsersKeep, Exists

(* A request moves and opens no session.                                   *)
LEMMA MoveKeeps ==
  ASSUME IInv, opened' = opened, proven \subseteq proven',
         TypeOK', TokensKeep, TokenFacts',
         UsersKeep, UserFacts', VerifiedWasProven',
         NEW r \in Requests, \A s \in Requests \ {r} : req'[s] = req[s],
         Knows(req[r])',
         req'[r].step = "session" /\ req'[r].token # null =>
           \A s \in Requests \ {r} : req[s].step = "session" =>
             req[s].token # req'[r].token
  PROVE  IInv'
<1>1. Exclusive'
  BY DEF IInv, Exclusive
<1>2. \A s \in Requests : Knows(req[s])'
  BY OthersKeep
<1> QED
  BY <1>1, <1>2 DEF IInv

-----------------------------------------------------------------------------
(* Steps that write nothing but their request.                             *)

LEMMA AtType ==
  ASSUME NEW step \in {"idle", "findToken", "taken", "validate", "findUser",
                       "change", "session", "toggle", "update", "verifySms"},
         NEW type \in TokenType \cup {null}, NEW u \in Users \cup {null},
         NEW e \in Emails \cup {null}, NEW t \in Tokens \cup {null}
  PROVE  /\ At(step, type, u, e, t) \in Request
         /\ At(step, type, u, e, t).step = step
         /\ At(step, type, u, e, t).type = type
         /\ At(step, type, u, e, t).user = u
         /\ At(step, type, u, e, t).email = e
         /\ At(step, type, u, e, t).token = t
BY DEF At, Request

LEMMA SendType ==
  ASSUME NEW type \in {"VERIFICATION", "TWO_FACTOR", "PASSWORD_RESET"},
         NEW e \in Emails \cup {null}
  PROVE  /\ At("findToken", type, null, e, null) \in Request
         /\ At("findToken", type, null, e, null).step = "findToken"
         /\ At("findToken", type, null, e, null).type = type
         /\ At("findToken", type, null, e, null).email = e
BY DEF At, Request, TokenType

LEMMA BecomeWrites ==
  ASSUME IInv, NEW r \in Requests, NEW q \in Request, Become(r, q)
  PROVE  /\ req' \in [Requests -> Request] /\ req'[r] = q
         /\ \A s \in Requests \ {r} : req'[s] = req[s]
BY DEF IInv, TypeOK, Become

LEMMA BecomeKeeps ==
  ASSUME IInv, UNCHANGED <<users, tokens, proven, vouched, opened>>,
         NEW r \in Requests, NEW q \in Request, Become(r, q), Knows(q),
         q.step = "session" => q.token = null
  PROVE  IInv'
<1>1. /\ req' \in [Requests -> Request] /\ req'[r] = q
      /\ \A s \in Requests \ {r} : req'[s] = req[s]
  BY BecomeWrites
<1>2. TypeOK' /\ TokensKeep /\ UsersKeep
  BY <1>1 DEF IInv, TypeOK, TokensKeep, UsersKeep
<1>3. TokenFacts' /\ UserFacts' /\ VerifiedWasProven'
  BY DEF IInv, TokenFacts, Exists, UserFacts, VerifiedWasProven
<1>4. Knows(req[r])'
  BY <1>1 DEF Knows, Exists
<1> QED
  BY <1>1, <1>2, <1>3, <1>4, MoveKeeps

LEMMA IdleKeeps ==
  ASSUME IInv, UNCHANGED <<users, tokens, proven, vouched, opened>>,
         NEW r \in Requests, Respond(r)
  PROVE  IInv'
<1>1. Idle \in Request /\ Idle.step = "idle"
  BY AtType DEF Idle
<1>2. Knows(Idle)
  BY <1>1 DEF Knows
<1> QED
  BY <1>1, <1>2, BecomeKeeps DEF Respond

LEMMA GoType ==
  ASSUME NEW q \in Request,
         NEW step \in {"createToken", "deleteMany", "consume", "session"}
  PROVE  /\ [q EXCEPT !.step = step] \in Request
         /\ [q EXCEPT !.step = step].step = step
         /\ [q EXCEPT !.step = step].type = q.type
         /\ [q EXCEPT !.step = step].user = q.user
         /\ [q EXCEPT !.step = step].email = q.email
         /\ [q EXCEPT !.step = step].token = q.token
BY DEF Request

LEMMA LoginKeeps ==
  ASSUME IInv, NEW r \in Requests, NEW u \in Users, login(r, u)
  PROVE  IInv'
<1> DEFINE e == users[u].email
<1>1. e \in Emails \cup {null} /\ UNCHANGED <<users, tokens, proven, vouched, opened>>
  BY DEF login, history, IInv, TypeOK, User
<1>2. ASSUME NEW type \in {"VERIFICATION", "TWO_FACTOR"}, e # null,
             Become(r, At("findToken", type, null, e, null))
      PROVE  IInv'
  <2> DEFINE q == At("findToken", type, null, e, null)
  <2>1. q \in Request /\ q.step = "findToken" /\ q.type = type /\ q.email = e
    <3> HIDE DEF e
    <3> QED
      BY <1>1, SendType
  <2>2. Become(r, q)
    BY <1>2
  <2> HIDE DEF q
  <2>3. Knows(q)
    BY <1>1, <1>2, <2>1 DEF Knows
  <2> QED
    BY <1>1, <2>1, <2>2, <2>3, BecomeKeeps
<1>3. CASE Become(r, At("session", null, u, null, null))
  <2> DEFINE q == At("session", null, u, null, null)
  <2>1. q \in Request /\ q.step = "session" /\ q.token = null
    BY AtType
  <2>2. Become(r, q)
    BY <1>3
  <2> HIDE DEF q
  <2>3. Knows(q)
    BY <2>1 DEF Knows
  <2> QED
    BY <1>1, <2>1, <2>2, <2>3, BecomeKeeps
<1>4. ASSUME NEW t \in Tokens, Become(r, At("validate", "TWO_FACTOR", u, e, t))
      PROVE  IInv'
  <2> DEFINE q == At("validate", "TWO_FACTOR", u, e, t)
  <2>1. q \in Request /\ q.step = "validate" /\ q.token = t
    BY <1>1, AtType DEF TokenType
  <2>2. Become(r, q)
    BY <1>4
  <2> HIDE DEF q
  <2>3. Knows(q)
    BY <2>1 DEF Knows
  <2> QED
    BY <1>1, <2>1, <2>2, <2>3, BecomeKeeps
<1> QED
  BY <1>2, <1>3, <1>4 DEF login

LEMMA ResetPasswordKeeps ==
  ASSUME IInv, NEW r \in Requests, NEW u \in Users, resetPassword(r, u)
  PROVE  IInv'
<1> DEFINE e == users[u].email
           q == At("findToken", "PASSWORD_RESET", null, e, null)
<1>1. e \in Emails /\ UNCHANGED <<users, tokens, proven, vouched, opened>>
  BY DEF resetPassword, history, IInv, TypeOK, User
<1>2. /\ q \in Request /\ q.step = "findToken" /\ q.type = "PASSWORD_RESET"
      /\ q.email \in Emails
  <2> HIDE DEF e
  <2> QED
    BY <1>1, SendType
<1>3. Become(r, q)
  BY DEF resetPassword
<1> HIDE DEF q
<1>4. Knows(q)
  BY <1>2 DEF Knows
<1> QED
  BY <1>1, <1>2, <1>3, <1>4, BecomeKeeps

LEMMA AccountReadKeeps ==
  ASSUME IInv, NEW r \in Requests, NEW u \in Users,
         \/ toggleTwoFactor(r, u) \/ updatePassword(r, u) \/ verifySms(r, u)
         \/ \E e \in Emails : requestEmailChange(r, u, e)
  PROVE  IInv'
<1>1. UNCHANGED <<users, tokens, proven, vouched, opened>> /\ users[u].state = "alive"
  BY DEF toggleTwoFactor, updatePassword, verifySms, requestEmailChange, history, Begin
<1>2. CASE toggleTwoFactor(r, u)
  <2> DEFINE base == At("toggle", null, u, null, null)
             q == [base EXCEPT !.enable = ~users[u].twoFactor]
  <2>1. base \in Request /\ base.step = "toggle" /\ base.user = u
    BY AtType
  <2>2. Become(r, q)
    BY <1>2 DEF toggleTwoFactor
  <2> HIDE DEF base
  <2>3. q \in Request /\ q.step = "toggle" /\ q.user = u
    BY <2>1 DEF Request
  <2> HIDE DEF q
  <2>4. Knows(q)
    BY <2>3 DEF Knows
  <2> QED
    BY <1>1, <2>2, <2>3, <2>4, BecomeKeeps
<1>3. CASE updatePassword(r, u)
  <2> DEFINE q == At("update", null, u, null, null)
  <2>1. q \in Request /\ q.step = "update" /\ q.user = u
    BY AtType
  <2>2. Become(r, q)
    BY <1>3 DEF updatePassword
  <2> HIDE DEF q
  <2>3. Knows(q)
    BY <2>1 DEF Knows
  <2> QED
    BY <1>1, <2>1, <2>2, <2>3, BecomeKeeps
<1>4. ASSUME NEW e \in Emails, requestEmailChange(r, u, e)
      PROVE  IInv'
  <2> DEFINE q == At("taken", "EMAIL_CHANGE", u, e, null)
  <2>1. q \in Request /\ q.step = "taken" /\ q.user = u /\ q.email = e
    BY AtType DEF TokenType
  <2>2. Become(r, q)
    BY <1>4 DEF requestEmailChange
  <2> HIDE DEF q
  <2>3. Knows(q)
    BY <1>1, <2>1 DEF Knows, Exists
  <2> QED
    BY <1>1, <2>1, <2>2, <2>3, BecomeKeeps
<1>5. CASE verifySms(r, u)
  <2> DEFINE q == At("verifySms", null, u, null, null)
  <2>1. q \in Request /\ q.step = "verifySms" /\ q.user = u
    BY AtType
  <2>2. Become(r, q)
    BY <1>5 DEF verifySms
  <2> HIDE DEF q
  <2>3. Knows(q)
    BY <1>1, <2>1 DEF Knows, Exists
  <2> QED
    BY <1>1, <2>1, <2>2, <2>3, BecomeKeeps
<1> QED
  BY <1>2, <1>3, <1>4, <1>5

LEMMA FindTokenKeeps ==
  ASSUME IInv, NEW r \in Requests, findToken(r)
  PROVE  IInv'
<1>1. /\ req[r] \in Request /\ Knows(req[r]) /\ req[r].step = "findToken"
      /\ UNCHANGED <<users, tokens, proven, vouched, opened>>
  BY DEF findToken, history, IInv, TypeOK
<1>2. CASE Go(r, "createToken")
  <2> DEFINE q == [req[r] EXCEPT !.step = "createToken"]
  <2>1. /\ q \in Request /\ q.step = "createToken" /\ q.type = req[r].type
        /\ q.email = req[r].email
    BY <1>1, GoType
  <2>2. Become(r, q)
    BY <1>2 DEF Go
  <2> HIDE DEF q
  <2>3. Knows(q)
    BY <1>1, <2>1 DEF Knows
  <2> QED
    BY <1>1, <2>1, <2>2, <2>3, BecomeKeeps
<1>3. ASSUME NEW t \in Tokens,
             Become(r, [req[r] EXCEPT !.step = "deleteToken", !.token = t])
      PROVE  IInv'
  <2> DEFINE q == [req[r] EXCEPT !.step = "deleteToken", !.token = t]
  <2>1. /\ q \in Request /\ q.step = "deleteToken" /\ q.type = req[r].type
        /\ q.email = req[r].email
    BY <1>1 DEF Request
  <2>2. Become(r, q)
    BY <1>3
  <2> HIDE DEF q
  <2>3. Knows(q)
    BY <1>1, <2>1 DEF Knows
  <2> QED
    BY <1>1, <2>1, <2>2, <2>3, BecomeKeeps
<1> QED
  BY <1>2, <1>3 DEF findToken, Live

LEMMA ValidateKeeps ==
  ASSUME IInv, NEW r \in Requests, validateTwoFactorToken(r)
  PROVE  IInv'
<1>1. /\ req[r] \in Request /\ Knows(req[r]) /\ req[r].step = "validate"
      /\ UNCHANGED <<users, tokens, proven, vouched, opened>>
      /\ Go(r, "consume") \/ Respond(r)
  BY DEF validateTwoFactorToken, history, IInv, TypeOK
<1>2. CASE Go(r, "consume")
  <2> DEFINE q == [req[r] EXCEPT !.step = "consume"]
  <2>1. q \in Request /\ q.step = "consume" /\ q.token = req[r].token
    BY <1>1, GoType
  <2>2. Become(r, q)
    BY <1>2 DEF Go
  <2> HIDE DEF q
  <2>3. Knows(q)
    BY <1>1, <2>1 DEF Knows
  <2> QED
    BY <1>1, <2>1, <2>2, <2>3, BecomeKeeps
<1> QED
  BY <1>1, <1>2, IdleKeeps

(* The address that was proven is the account's as it is found.            *)
LEMMA FindUserKeeps ==
  ASSUME IInv, NEW r \in Requests, findUser(r)
  PROVE  IInv'
<1>1. /\ req[r] \in Request /\ Knows(req[r]) /\ req[r].step = "findUser"
      /\ UNCHANGED <<users, tokens, proven, vouched, opened>>
  BY DEF findUser, history, IInv, TypeOK
<1>2. ASSUME NEW u \in Users, HasEmail(u, req[r].email),
             Become(r, [req[r] EXCEPT !.user = u,
               !.step = IF req[r].type = "VERIFICATION" THEN "verify" ELSE "reset"])
      PROVE  IInv'
  <2> DEFINE step == IF req[r].type = "VERIFICATION" THEN "verify" ELSE "reset"
             q == [req[r] EXCEPT !.user = u, !.step = step]
  <2>1. step \in {"verify", "reset"} /\ Become(r, q)
    BY <1>2
  <2> HIDE DEF step
  <2>2. q \in Request /\ q.step = step /\ q.user = u /\ q.token = req[r].token
    BY <1>1, <2>1 DEF Request
  <2> HIDE DEF q
  <2>3. users[u].email \in proven /\ users[u].state # "unborn"
    BY <1>1, <1>2 DEF HasEmail, Knows, IInv, UserFacts
  <2>4. Knows(q)
    BY <1>1, <2>1, <2>2, <2>3 DEF Knows, Exists
  <2> QED
    BY <1>1, <2>1, <2>2, <2>4, BecomeKeeps
<1> QED
  BY <1>1, <1>2, IdleKeeps DEF findUser

LEMMA FindByEmailKeeps ==
  ASSUME IInv, NEW r \in Requests, findByEmail(r)
  PROVE  IInv'
<1>1. /\ req[r] \in Request /\ Knows(req[r]) /\ req[r].step = "taken"
      /\ UNCHANGED <<users, tokens, proven, vouched, opened>>
      /\ Go(r, "deleteMany") \/ Respond(r)
  BY DEF findByEmail, history, IInv, TypeOK
<1>2. CASE Go(r, "deleteMany")
  <2> DEFINE q == [req[r] EXCEPT !.step = "deleteMany"]
  <2>1. /\ q \in Request /\ q.step = "deleteMany" /\ q.user = req[r].user
        /\ q.email = req[r].email
    BY <1>1, GoType
  <2>2. Become(r, q)
    BY <1>2 DEF Go
  <2> HIDE DEF q
  <2>3. Knows(q)
    BY <1>1, <2>1 DEF Knows
  <2> QED
    BY <1>1, <2>1, <2>2, <2>3, BecomeKeeps
<1> QED
  BY <1>1, <1>2, IdleKeeps

-----------------------------------------------------------------------------
(* Steps that write tokens.                                                *)

LEMMA DeleteWrites ==
  ASSUME IInv, NEW t \in Tokens, Delete(t), opened' = opened
  PROVE  /\ tokens' \in [Tokens -> Token] /\ tokens'[t].state = "gone"
         /\ TokensKeep
         /\ tokens[t].state # "unborn" /\ users' = users => TokenFacts'
<1> DEFINE token == [tokens[t] EXCEPT !.state = "gone"]
<1>1. tokens \in [Tokens -> Token] /\ tokens[t] \in Token
  BY DEF IInv, TypeOK
<1>2. /\ token \in Token /\ token.state = "gone" /\ token.user = tokens[t].user
      /\ token.email = tokens[t].email /\ token.type = tokens[t].type
  BY <1>1 DEF Token
<1>3. tokens' = [tokens EXCEPT ![t] = token]
  BY DEF Delete
<1> HIDE DEF token
<1>4. /\ tokens' \in [Tokens -> Token] /\ tokens'[t] = token
      /\ \A s \in Tokens \ {t} : tokens'[s] = tokens[s]
  BY <1>1, <1>2, <1>3
<1>5. TokensKeep
  BY <1>2, <1>4 DEF TokensKeep
<1>6. tokens[t].state # "unborn" /\ users' = users => TokenFacts'
  BY <1>2, <1>4 DEF IInv, TokenFacts, Exists
<1> QED
  BY <1>2, <1>4, <1>5, <1>6

(* Live tokens of some kind are deleted.                                   *)
LEMMA DeleteManyWrites ==
  ASSUME IInv, NEW S \in SUBSET Tokens,
         tokens' = [t \in Tokens |->
           IF t \in S THEN [tokens[t] EXCEPT !.state = "gone"] ELSE tokens[t]],
         \A t \in S : tokens[t].state = "live"
  PROVE  /\ tokens' \in [Tokens -> Token] /\ TokensKeep
         /\ opened' = opened /\ UsersKeep => TokenFacts'
<1>1. ASSUME NEW t \in Tokens
      PROVE  /\ tokens'[t] \in Token
             /\ \/ tokens'[t].state = tokens[t].state
                \/ tokens'[t].state = "gone" /\ tokens[t].state = "live"
             /\ tokens'[t].email = tokens[t].email
             /\ tokens'[t].type = tokens[t].type
             /\ tokens'[t].user = tokens[t].user
  <2> DEFINE gone == [tokens[t] EXCEPT !.state = "gone"]
  <2>1. tokens[t] \in Token
    BY DEF IInv, TypeOK
  <2>2. /\ gone \in Token /\ gone.state = "gone" /\ gone.user = tokens[t].user
        /\ gone.email = tokens[t].email /\ gone.type = tokens[t].type
    BY <2>1 DEF Token
  <2>3. tokens'[t] = IF t \in S THEN gone ELSE tokens[t]
    BY Zenon
  <2> HIDE DEF gone
  <2> QED
    BY <2>1, <2>2, <2>3
<1>2. tokens' \in [Tokens -> Token]
  BY <1>1
<1>3. TokensKeep
  BY <1>1 DEF TokensKeep
<1>4. opened' = opened /\ UsersKeep => TokenFacts'
  BY <1>1 DEF IInv, TokenFacts, UsersKeep, Exists
<1> QED
  BY <1>2, <1>3, <1>4

(* What moving a request while tokens are written keeps.                   *)
LEMMA TokenMoveKeeps ==
  ASSUME IInv, UNCHANGED <<users, proven, vouched, opened>>,
         tokens' \in [Tokens -> Token], TokensKeep, TokenFacts',
         NEW r \in Requests, req' \in [Requests -> Request],
         \A s \in Requests \ {r} : req'[s] = req[s],
         Knows(req[r])',
         req'[r].step = "session" /\ req'[r].token # null =>
           \A s \in Requests \ {r} : req[s].step = "session" =>
             req[s].token # req'[r].token
  PROVE  IInv'
<1>1. TypeOK' /\ UsersKeep
  BY DEF IInv, TypeOK, UsersKeep
<1>2. UserFacts' /\ VerifiedWasProven'
  BY DEF IInv, UserFacts, VerifiedWasProven
<1> QED
  BY <1>1, <1>2, MoveKeeps

LEMMA GoWrites ==
  ASSUME IInv, NEW r \in Requests,
         NEW step \in {"createToken", "deleteMany", "consume", "session"},
         Go(r, step)
  PROVE  /\ req' \in [Requests -> Request] /\ req'[r].step = step
         /\ req'[r].type = req[r].type /\ req'[r].user = req[r].user
         /\ req'[r].email = req[r].email /\ req'[r].token = req[r].token
         /\ \A s \in Requests \ {r} : req'[s] = req[s]
<1> DEFINE q == [req[r] EXCEPT !.step = step]
<1>1. req[r] \in Request
  BY DEF IInv, TypeOK
<1>2. /\ q \in Request /\ q.step = step /\ q.type = req[r].type
      /\ q.user = req[r].user /\ q.email = req[r].email /\ q.token = req[r].token
  BY <1>1, GoType
<1>3. Become(r, q)
  BY DEF Go
<1> HIDE DEF q
<1> QED
  BY <1>2, <1>3, BecomeWrites

LEMMA RespondWrites ==
  ASSUME IInv, NEW r \in Requests, Respond(r)
  PROVE  /\ req' \in [Requests -> Request] /\ req'[r].step = "idle"
         /\ Knows(req[r])'
         /\ \A s \in Requests \ {r} : req'[s] = req[s]
<1>1. Idle \in Request /\ Idle.step = "idle"
  BY AtType DEF Idle
<1>2. /\ req' \in [Requests -> Request] /\ req'[r] = Idle
      /\ \A s \in Requests \ {r} : req'[s] = req[s]
  BY <1>1, BecomeWrites DEF Respond
<1>3. Knows(req[r])'
  BY <1>1, <1>2 DEF Knows
<1> QED
  BY <1>1, <1>2, <1>3

LEMMA DeleteTokenKeeps ==
  ASSUME IInv, NEW r \in Requests, deleteToken(r)
  PROVE  IInv'
<1>1. /\ req[r] \in Request /\ Knows(req[r]) /\ req[r].step = "deleteToken"
      /\ UNCHANGED <<users, proven, vouched, opened>> /\ Go(r, "createToken")
      /\ Delete(req[r].token) /\ tokens[req[r].token].state = "live"
  BY DEF deleteToken, history, IInv, TypeOK
<1>2. /\ req' \in [Requests -> Request] /\ req'[r].step = "createToken"
      /\ req'[r].type = req[r].type /\ req'[r].email = req[r].email
      /\ \A s \in Requests \ {r} : req'[s] = req[s]
  BY <1>1, GoWrites
<1>3. Knows(req[r])'
  BY <1>1, <1>2 DEF Knows
<1>4. tokens' \in [Tokens -> Token] /\ TokensKeep /\ TokenFacts'
  <2>1. CASE req[r].token \in Tokens
    BY <1>1, <2>1, DeleteWrites
  <2>2. CASE req[r].token \notin Tokens
    <3>1. tokens' = tokens
      BY <1>1, <2>2 DEF Delete, IInv, TypeOK
    <3> QED
      BY <1>1, <3>1 DEF IInv, TypeOK, TokensKeep, TokenFacts, Exists
  <2> QED
    BY <2>1, <2>2
<1> QED
  BY <1>1, <1>2, <1>3, <1>4, TokenMoveKeeps

LEMMA CreateTokenKeeps ==
  ASSUME IInv, NEW r \in Requests, createToken(r)
  PROVE  IInv'
<1> DEFINE token == Row("live", req[r].type, req[r].email, req[r].user)
<1>1. /\ req[r] \in Request /\ Knows(req[r]) /\ req[r].step = "createToken"
      /\ UNCHANGED <<users, proven, vouched, opened>> /\ Respond(r)
  BY DEF createToken, history, IInv, TypeOK
<1>2. PICK t \in Tokens : /\ tokens[t].state = "unborn"
                          /\ tokens' = [tokens EXCEPT ![t] = token]
  BY DEF createToken
<1>3. /\ token \in Token /\ token.state = "live" /\ token.type = req[r].type
      /\ token.email = req[r].email /\ token.user = req[r].user
  BY <1>1 DEF Row, Token, Request
<1> HIDE DEF token
<1>4. /\ tokens \in [Tokens -> Token] /\ tokens' \in [Tokens -> Token]
      /\ tokens'[t] = token /\ \A s \in Tokens \ {t} : tokens'[s] = tokens[s]
  BY <1>2, <1>3 DEF IInv, TypeOK
<1>5. TokensKeep
  BY <1>2, <1>4 DEF TokensKeep
<1>6. TokenFacts'
  BY <1>1, <1>2, <1>3, <1>4 DEF IInv, TokenFacts, Knows, Exists
<1> QED
  BY <1>1, <1>4, <1>5, <1>6, RespondWrites, TokenMoveKeeps

LEMMA DeleteManyKeeps ==
  ASSUME IInv, NEW r \in Requests, deleteMany(r)
  PROVE  IInv'
<1> DEFINE S == {t \in Tokens :
                  /\ tokens[t].state = "live" /\ tokens[t].user = req[r].user
                  /\ tokens[t].type = "EMAIL_CHANGE"}
<1>1. /\ req[r] \in Request /\ Knows(req[r]) /\ req[r].step = "deleteMany"
      /\ UNCHANGED <<users, proven, vouched, opened>> /\ Go(r, "createToken")
  BY DEF deleteMany, history, IInv, TypeOK
<1>2. tokens' = [t \in Tokens |->
        IF t \in S THEN [tokens[t] EXCEPT !.state = "gone"] ELSE tokens[t]]
  BY Zenon DEF deleteMany
<1>3. S \in SUBSET Tokens /\ \A t \in S : tokens[t].state = "live"
  OBVIOUS
<1> HIDE DEF S
<1>4. UsersKeep
  BY <1>1 DEF UsersKeep
<1>5. tokens' \in [Tokens -> Token] /\ TokensKeep /\ TokenFacts'
  BY <1>1, <1>2, <1>3, <1>4, DeleteManyWrites
<1>6. /\ req' \in [Requests -> Request] /\ req'[r].step = "createToken"
      /\ req'[r].user = req[r].user /\ req'[r].email = req[r].email
      /\ \A s \in Requests \ {r} : req'[s] = req[s]
  BY <1>1, GoWrites
<1>7. Knows(req[r])'
  BY <1>1, <1>6 DEF Knows, Exists
<1> QED
  BY <1>1, <1>5, <1>6, <1>7, TokenMoveKeeps

(* Whoever finds the row has not been forestalled.                         *)
LEMMA ConsumeKeeps ==
  ASSUME IInv, NEW r \in Requests, consume(r)
  PROVE  IInv'
<1> DEFINE t == req[r].token
<1>1. /\ t \in Tokens /\ tokens[t].state = "live" /\ Delete(t)
      /\ UNCHANGED <<users, proven, vouched, opened>>
      /\ Go(r, "session") \/ Respond(r)
  BY DEF consume, history, IInv, Knows
<1>2. /\ tokens' \in [Tokens -> Token] /\ tokens'[t].state = "gone"
      /\ TokensKeep /\ TokenFacts'
  BY <1>1, DeleteWrites
<1>3. CASE Go(r, "session")
  <2>1. /\ req' \in [Requests -> Request] /\ req'[r].step = "session"
        /\ req'[r].token = t /\ \A s \in Requests \ {r} : req'[s] = req[s]
    BY <1>3, GoWrites
  <2>2. opened[t] = 0
    BY <1>1 DEF IInv, TokenFacts
  <2>3. Knows(req[r])'
    BY <1>1, <1>2, <2>1, <2>2 DEF Knows
  <2>4. t # null
    BY <1>1, SignInAssumption
  <2>5. \A s \in Requests : req[s].step = "session" => req[s].token # t
    BY <1>1, <2>4 DEF IInv, Knows
  <2> QED
    BY <1>1, <1>2, <2>1, <2>3, <2>5, TokenMoveKeeps
<1>4. CASE Respond(r)
  BY <1>1, <1>2, <1>4, RespondWrites, TokenMoveKeeps
<1> QED
  BY <1>1, <1>3, <1>4

LEMMA TimeoutKeeps ==
  ASSUME IInv, NEW t \in Tokens, timeout(t)
  PROVE  IInv'
<1> DEFINE token == [tokens[t] EXCEPT !.expired = TRUE]
<1>1. /\ tokens \in [Tokens -> Token] /\ tokens[t] \in Token
      /\ UNCHANGED <<users, req, proven, vouched, opened>>
  BY DEF timeout, history, IInv, TypeOK
<1>2. /\ token \in Token /\ token.state = tokens[t].state
      /\ token.user = tokens[t].user /\ token.email = tokens[t].email
      /\ token.type = tokens[t].type
  BY <1>1 DEF Token
<1>3. tokens' = [tokens EXCEPT ![t] = token]
  BY DEF timeout
<1> HIDE DEF token
<1>4. /\ tokens' \in [Tokens -> Token] /\ tokens'[t] = token
      /\ \A s \in Tokens \ {t} : tokens'[s] = tokens[s]
  BY <1>1, <1>2, <1>3
<1>5. TokensKeep /\ TokenFacts'
  BY <1>1, <1>2, <1>4 DEF IInv, TokensKeep, TokenFacts, Exists
<1>6. TypeOK' /\ UsersKeep /\ UserFacts' /\ VerifiedWasProven' /\ Exclusive'
  BY <1>1, <1>4 DEF IInv, TypeOK, UsersKeep, UserFacts, VerifiedWasProven, Exclusive
<1>7. \A s \in Requests : Knows(req[s])'
  BY <1>1, <1>5, <1>6, OthersKeep
<1> QED
  BY <1>5, <1>6, <1>7 DEF IInv

(* Following a link proves the address it was sent to.                     *)
LEMMA LinkKeeps ==
  ASSUME IInv, NEW r \in Requests, NEW t \in Tokens, Link(r, t)
  PROVE  IInv'
<1> DEFINE e == tokens[t].email
<1>1. /\ e \in Emails /\ proven' = proven \cup {e}
      /\ UNCHANGED <<users, tokens, vouched, opened>>
      /\ tokens[t].state = "live"
      /\ tokens[t].type = "EMAIL_CHANGE" => Exists(tokens[t].user)
  BY DEF Link, newVirification, newPassword, confirmEmailChange, followLink, Follows,
         IInv, TokenFacts
<1>2. /\ req' \in [Requests -> Request] /\ Knows(req[r])'
      /\ req'[r].step # "session" /\ \A s \in Requests \ {r} : req'[s] = req[s]
  <2>1. ASSUME NEW type \in TokenType, Become(r, At("findUser", type, null, e, t))
        PROVE  /\ req' \in [Requests -> Request] /\ Knows(req[r])'
               /\ req'[r].step # "session"
               /\ \A s \in Requests \ {r} : req'[s] = req[s]
    <3> DEFINE q == At("findUser", type, null, e, t)
    <3>1. q \in Request /\ q.step = "findUser" /\ q.email = e /\ q.token = t
      BY <1>1, AtType
    <3>2. Become(r, q)
      BY <2>1
    <3> HIDE DEF q
    <3>3. /\ req' \in [Requests -> Request] /\ req'[r] = q
          /\ \A s \in Requests \ {r} : req'[s] = req[s]
      BY <3>1, <3>2, BecomeWrites
    <3> QED
      BY <1>1, <3>1, <3>3 DEF Knows
  <2>2. CASE confirmEmailChange(r, t)
    <3> DEFINE u == tokens[t].user
               q == At("change", "EMAIL_CHANGE", u, e, t)
    <3>1. Exists(u)
      BY <1>1, <2>2 DEF confirmEmailChange, Follows
    <3>2. /\ q \in Request /\ q.step = "change" /\ q.user = u
          /\ q.email = e /\ q.token = t
      BY <1>1, <3>1, AtType DEF TokenType, Exists
    <3>3. Become(r, q)
      BY <2>2 DEF confirmEmailChange
    <3> HIDE DEF q
    <3>4. /\ req' \in [Requests -> Request] /\ req'[r] = q
          /\ \A s \in Requests \ {r} : req'[s] = req[s]
      BY <3>2, <3>3, BecomeWrites
    <3> QED
      BY <1>1, <3>1, <3>2, <3>4 DEF Knows, Exists
  <2> QED
    BY <2>1, <2>2 DEF Link, newVirification, newPassword, followLink, TokenType
<1>3. TypeOK' /\ TokensKeep /\ TokenFacts' /\ UsersKeep
  BY <1>1, <1>2 DEF IInv, TypeOK, TokensKeep, TokenFacts, Exists, UsersKeep
<1>4. UserFacts' /\ VerifiedWasProven'
  BY <1>1 DEF IInv, UserFacts, VerifiedWasProven
<1> QED
  BY <1>1, <1>2, <1>3, <1>4, MoveKeeps

-----------------------------------------------------------------------------
(* Steps that write accounts or sessions.                                  *)

(* A session is opened with a token that has opened none.                  *)
LEMMA SaveSessionKeeps ==
  ASSUME IInv, NEW r \in Requests, saveSession(r)
  PROVE  IInv'
<1> DEFINE t == req[r].token
<1>1. /\ req[r].step = "session" /\ t \in Tokens \cup {null} /\ null \notin Tokens
      /\ t # null => tokens[t].state = "gone" /\ opened[t] = 0
      /\ UNCHANGED <<users, tokens, proven, vouched>> /\ Respond(r)
      /\ opened' = IF t = null THEN opened ELSE [opened EXCEPT ![t] = @ + 1]
  BY SignInAssumption DEF saveSession, IInv, Knows, TypeOK, Request
<1>2. opened \in [Tokens -> Nat]
  BY DEF IInv, TypeOK
<1>3. /\ opened' \in [Tokens -> Nat]
      /\ \A k \in Tokens : k # t => opened'[k] = opened[k]
      /\ t # null => opened'[t] = 1
  BY <1>1, <1>2
<1>4. /\ req' \in [Requests -> Request] /\ req'[r].step = "idle"
      /\ Knows(req[r])' /\ \A s \in Requests \ {r} : req'[s] = req[s]
  BY <1>1, RespondWrites
<1> HIDE DEF t
<1>5. /\ TypeOK' /\ TokensKeep /\ UsersKeep /\ UserFacts' /\ VerifiedWasProven'
      /\ Exclusive'
  BY <1>1, <1>3, <1>4 DEF IInv, TypeOK, TokensKeep, UsersKeep, UserFacts,
     VerifiedWasProven, Exclusive
<1>6. TokenFacts'
  BY <1>1, <1>3 DEF IInv, TokenFacts, Exists
<1>7. ASSUME NEW s \in Requests \ {r}
      PROVE  Knows(req[s])'
  <2>1. req[s].step = "session" /\ req[s].token # null =>
          req[s].token # t /\ req[s].token \in Tokens
    BY <1>1 DEF IInv, Exclusive, TypeOK, Request, t
  <2>2. req'[s] = req[s] /\ proven' = proven
    BY <1>1, <1>4
  <2> QED
    BY <1>3, <1>5, <2>1, <2>2, OthersKeep
<1> QED
  BY <1>4, <1>5, <1>6, <1>7 DEF IInv

(* An account is written: it goes on existing, and its address is the one  *)
(* it had, is gone, or was proven.                                         *)
LEMMA SetUserWrites ==
  ASSUME IInv, NEW u \in Users, NEW account \in User, SetUser(u, account),
         UNCHANGED proven, vouched \subseteq vouched',
         account.state = "unborn" => users[u].state = "unborn" /\ account.email = null,
         \/ account.email = users[u].email \/ account.email \in proven \cup {null}
         \/ users[u].state = "unborn",
         account.verified /\ account.email # null =>
           account.email \in proven \/ <<u, account.email>> \in vouched'
  PROVE  /\ users' \in [Users -> User] /\ users'[u] = account
         /\ UsersKeep /\ UserFacts' /\ VerifiedWasProven'
<1>1. /\ users \in [Users -> User] /\ users' \in [Users -> User]
      /\ users'[u] = account /\ \A v \in Users \ {u} : users'[v] = users[v]
  BY DEF SetUser, IInv, TypeOK
<1>2. UsersKeep
  BY <1>1 DEF UsersKeep
<1>3. UserFacts' /\ VerifiedWasProven'
  BY <1>1 DEF IInv, UserFacts, VerifiedWasProven
<1> QED
  BY <1>1, <1>2, <1>3

(* What moving a request while an account is written keeps.                *)
LEMMA UserMoveKeeps ==
  ASSUME IInv, UNCHANGED <<tokens, proven, opened>>, vouched' \subseteq Users \X Emails,
         users' \in [Users -> User], UsersKeep, UserFacts', VerifiedWasProven',
         NEW r \in Requests, req' \in [Requests -> Request],
         \A s \in Requests \ {r} : req'[s] = req[s],
         Knows(req[r])', req'[r].step = "session" => req'[r].token = null
  PROVE  IInv'
<1>1. TypeOK' /\ TokensKeep
  BY DEF IInv, TypeOK, TokensKeep
<1>2. TokenFacts'
  BY DEF IInv, TokenFacts, UsersKeep, Exists
<1> QED
  BY <1>1, <1>2, MoveKeeps

LEMMA RegisterKeeps ==
  ASSUME IInv, NEW r \in Requests, NEW u \in Users, NEW e \in Emails \cup {null},
         register(r, u, e)
  PROVE  IInv'
<1> DEFINE account == Account("alive", e, FALSE)
           q == IF e = null THEN Idle
                ELSE At("findToken", "VERIFICATION", null, e, null)
<1>1. /\ users[u].state = "unborn" /\ SetUser(u, account) /\ Become(r, q)
      /\ UNCHANGED <<tokens, proven, vouched, opened>>
  BY DEF register, history
<1>2. account \in User /\ account.state = "alive" /\ ~account.verified
  BY DEF Account, User
<1>3. q \in Request /\ Knows(q) /\ q.step # "session"
  <2>1. CASE e = null
    BY <2>1, AtType DEF Knows, Idle
  <2>2. CASE e # null
    <3>1. /\ q \in Request /\ q.step = "findToken" /\ q.type = "VERIFICATION"
          /\ q.email = e
      BY <2>2, AtType DEF TokenType
    <3> HIDE DEF q
    <3> QED
      BY <2>2, <3>1 DEF Knows
  <2> QED
    BY <2>1, <2>2
<1> HIDE DEF account, q
<1>4. /\ users' \in [Users -> User] /\ UsersKeep /\ UserFacts' /\ VerifiedWasProven'
  BY <1>1, <1>2, SetUserWrites
<1>5. /\ req' \in [Requests -> Request] /\ req'[r] = q
      /\ \A s \in Requests \ {r} : req'[s] = req[s]
  BY <1>1, <1>3, BecomeWrites
<1>6. q.step \in {"idle", "findToken"}
  BY AtType DEF q, Idle, TokenType
<1>7. Knows(req[r])' /\ req'[r].step # "session"
  BY <1>3, <1>5, <1>6 DEF Knows
<1>8. vouched' \subseteq Users \X Emails
  BY <1>1 DEF IInv, TypeOK
<1> QED
  BY <1>1, <1>4, <1>5, <1>7, <1>8, UserMoveKeeps

(* An account that is made or verified by a call or by its provider.       *)
LEMMA VouchKeeps ==
  ASSUME IInv, NEW r \in Requests, NEW u \in Users, NEW account \in User,
         SetUser(u, account), account.state # "unborn",
         \/ users[u].state = "unborn" \/ account.email = users[u].email,
         Become(r, At("session", null, u, null, null)), Vouch(u, account.email),
         UNCHANGED <<tokens, proven, opened>>
  PROVE  IInv'
<1> DEFINE q == At("session", null, u, null, null)
<1>1. vouched \subseteq vouched' /\ vouched' \subseteq Users \X Emails
  BY DEF Vouch, IInv, TypeOK
<1>2. account.email # null => <<u, account.email>> \in vouched'
  BY DEF Vouch, User
<1>3. /\ users' \in [Users -> User] /\ UsersKeep /\ UserFacts' /\ VerifiedWasProven'
  BY <1>1, <1>2, SetUserWrites
<1>4. q \in Request /\ q.step = "session" /\ q.token = null
  BY AtType
<1>5. Become(r, q)
  OBVIOUS
<1> HIDE DEF q
<1>6. /\ req' \in [Requests -> Request] /\ req'[r] = q
      /\ \A s \in Requests \ {r} : req'[s] = req[s]
  BY <1>4, <1>5, BecomeWrites
<1>7. Knows(req[r])'
  BY <1>4, <1>6 DEF Knows
<1> QED
  BY <1>1, <1>3, <1>4, <1>6, <1>7, UserMoveKeeps

LEMMA NewAccountKeeps ==
  ASSUME IInv, NEW r \in Requests, NEW u \in Users,
         \/ registerSmsComplete(r, u)
         \/ \E e \in Emails \cup {null} : extractProfileFromCode(r, u, e)
  PROVE  IInv'
<1>1. CASE registerSmsComplete(r, u)
  <2> DEFINE account == Account("alive", null, TRUE)
  <2>1. account \in User /\ account.state = "alive" /\ account.email = null
    BY DEF Account, User
  <2>2. /\ SetUser(u, account) /\ users[u].state = "unborn"
        /\ Become(r, At("session", null, u, null, null))
        /\ UNCHANGED <<tokens, proven, vouched, opened>>
    BY <1>1 DEF registerSmsComplete, history
  <2> HIDE DEF account
  <2>3. null \notin Emails
    BY SignInAssumption
  <2>4. Vouch(u, account.email)
    BY <2>1, <2>2, <2>3 DEF Vouch
  <2> QED
    BY <2>1, <2>2, <2>4, VouchKeeps
<1>2. ASSUME NEW e \in Emails \cup {null}, extractProfileFromCode(r, u, e)
      PROVE  IInv'
  <2> DEFINE base == Account("alive", e, TRUE)
             account == [base EXCEPT !.password = FALSE]
  <2>1. base \in User /\ base.state = "alive" /\ base.email = e
    BY DEF Account, User
  <2>2. /\ SetUser(u, account) /\ users[u].state = "unborn"
        /\ Become(r, At("session", null, u, null, null)) /\ Vouch(u, e)
        /\ UNCHANGED <<tokens, proven, opened>>
    BY <1>2 DEF extractProfileFromCode
  <2> HIDE DEF base
  <2>3. account \in User /\ account.state = "alive" /\ account.email = e
    BY <2>1 DEF User
  <2> HIDE DEF account
  <2> QED
    BY <2>2, <2>3, VouchKeeps
<1> QED
  BY <1>1, <1>2

LEMMA SetVerifiedKeeps ==
  ASSUME IInv, NEW r \in Requests, setVerified(r)
  PROVE  IInv'
<1> DEFINE u == req[r].user
           account == [users[u] EXCEPT !.verified = TRUE]
<1>1. /\ Exists(u) /\ users[u] \in User /\ SetUser(u, account)
      /\ Become(r, At("session", null, u, null, null)) /\ Vouch(u, users[u].email)
      /\ UNCHANGED <<tokens, proven, opened>>
  BY DEF setVerified, IInv, Knows, TypeOK, Exists
<1>2. account \in User /\ account.state = users[u].state /\ account.email = users[u].email
  BY <1>1 DEF User
<1> HIDE DEF account, u
<1> QED
  BY <1>1, <1>2, VouchKeeps DEF Exists

(* The account whose address was proven when it was found has that one,    *)
(* another that was proven since, or none.                                 *)
LEMMA VerifyKeeps ==
  ASSUME IInv, NEW r \in Requests, verify(r)
  PROVE  IInv'
<1> DEFINE u == req[r].user
           account == [users[u] EXCEPT !.verified = TRUE]
<1>1. /\ Exists(u) /\ users[u].email \in proven \cup {null} /\ req[r].token \in Tokens
      /\ SetUser(u, account) /\ Go(r, "consume")
      /\ UNCHANGED <<tokens, proven, vouched, opened>> /\ users[u] \in User
  BY DEF verify, history, IInv, Knows, TypeOK, Exists
<1>2. account \in User /\ account.state = users[u].state /\ account.email = users[u].email
  BY <1>1 DEF User
<1> HIDE DEF account, u
<1>3. /\ users' \in [Users -> User] /\ UsersKeep /\ UserFacts' /\ VerifiedWasProven'
  BY <1>1, <1>2, SetUserWrites DEF Exists
<1>4. /\ req' \in [Requests -> Request] /\ req'[r].step = "consume"
      /\ req'[r].token = req[r].token /\ \A s \in Requests \ {r} : req'[s] = req[s]
  BY <1>1, GoWrites
<1>5. Knows(req[r])' /\ vouched' \subseteq Users \X Emails
  BY <1>1, <1>4 DEF Knows, IInv, TypeOK
<1> QED
  BY <1>1, <1>3, <1>4, <1>5, UserMoveKeeps

(* The address that changes was proven by the link that was followed.      *)
LEMMA ChangeKeeps ==
  ASSUME IInv, NEW r \in Requests, change(r)
  PROVE  IInv'
<1> DEFINE u == req[r].user
           e == req[r].email
           account == [users[u] EXCEPT !.email = e, !.verified = TRUE]
<1>1. /\ Exists(u) /\ e \in proven /\ e \in Emails /\ req[r].token \in Tokens
      /\ SetUser(u, account) /\ Go(r, "consume")
      /\ UNCHANGED <<tokens, proven, vouched, opened>> /\ users[u] \in User
  BY DEF change, history, IInv, Knows, TypeOK, Exists
<1>2. account \in User /\ account.state = users[u].state /\ account.email = e
  BY <1>1 DEF User
<1> HIDE DEF account, u, e
<1>3. /\ users' \in [Users -> User] /\ UsersKeep /\ UserFacts' /\ VerifiedWasProven'
  BY <1>1, <1>2, SetUserWrites DEF Exists
<1>4. /\ req' \in [Requests -> Request] /\ req'[r].step = "consume"
      /\ req'[r].token = req[r].token /\ \A s \in Requests \ {r} : req'[s] = req[s]
  BY <1>1, GoWrites
<1>5. Knows(req[r])' /\ vouched' \subseteq Users \X Emails
  BY <1>1, <1>4 DEF Knows, IInv, TypeOK
<1> QED
  BY <1>1, <1>3, <1>4, <1>5, UserMoveKeeps

(* Passwords and second factors leave the address alone.                   *)
LEMMA SettingKeeps ==
  ASSUME IInv, NEW r \in Requests, reset(r) \/ toggle(r) \/ update(r)
  PROVE  IInv'
<1> DEFINE u == req[r].user
<1>1. /\ u \in Users /\ users[u] \in User /\ req[r] \in Request
      /\ UNCHANGED <<tokens, proven, vouched, opened>>
      /\ req[r].step = "reset" => req[r].token \in Tokens
      /\ (req[r].step = "reset" /\ Go(r, "consume")) \/ Respond(r)
  BY DEF reset, toggle, update, history, IInv, Knows, TypeOK
<1>2. PICK account \in User : /\ SetUser(u, account) /\ account.state = users[u].state
                          /\ account.email = users[u].email
                          /\ account.verified = users[u].verified
  <2> DEFINE a == [users[u] EXCEPT !.password = TRUE]
             b == [users[u] EXCEPT !.twoFactor = req[r].enable]
  <2>1. /\ a \in User /\ a.state = users[u].state /\ a.email = users[u].email
        /\ a.verified = users[u].verified
    BY <1>1 DEF User
  <2>2. /\ b \in User /\ b.state = users[u].state /\ b.email = users[u].email
        /\ b.verified = users[u].verified
    BY <1>1 DEF User, Request
  <2>3. SetUser(u, a) \/ SetUser(u, b)
    BY DEF reset, toggle, update
  <2> HIDE DEF a, b
  <2> QED
    BY <2>1, <2>2, <2>3
<1> HIDE DEF u
<1>3. /\ users' \in [Users -> User] /\ UsersKeep /\ UserFacts' /\ VerifiedWasProven'
  BY <1>1, <1>2, SetUserWrites DEF IInv, UserFacts, VerifiedWasProven
<1> vouched' \subseteq Users \X Emails
  BY <1>1 DEF IInv, TypeOK
<1>4. CASE Respond(r)
  BY <1>1, <1>3, <1>4, RespondWrites, UserMoveKeeps
<1>5. CASE req[r].step = "reset" /\ Go(r, "consume")
  <2>1. /\ req' \in [Requests -> Request] /\ req'[r].step = "consume"
        /\ req'[r].token = req[r].token /\ \A s \in Requests \ {r} : req'[s] = req[s]
    BY <1>5, GoWrites
  <2>2. Knows(req[r])'
    BY <1>1, <1>5, <2>1 DEF Knows
  <2> QED
    BY <1>1, <1>3, <2>1, <2>2, UserMoveKeeps
<1> QED
  BY <1>1, <1>4, <1>5

LEMMA DeleteAccountKeeps ==
  ASSUME IInv, NEW r \in Requests, NEW u \in Users, deleteAccount(r, u)
  PROVE  IInv'
<1> DEFINE account == Account("deleted", null, users[u].verified)
           S == {t \in Tokens : tokens[t].state = "live" /\ tokens[t].user = u}
<1>1. /\ SetUser(u, account) /\ UNCHANGED <<req, proven, vouched, opened>>
      /\ users[u] \in User
  BY DEF deleteAccount, history, IInv, TypeOK
<1>2. tokens' = [t \in Tokens |->
        IF t \in S THEN [tokens[t] EXCEPT !.state = "gone"] ELSE tokens[t]]
  BY Zenon DEF deleteAccount
<1>3. account \in User /\ account.state = "deleted" /\ account.email = null
  BY <1>1 DEF Account, User
<1>4. S \in SUBSET Tokens /\ \A t \in S : tokens[t].state = "live"
  OBVIOUS
<1> HIDE DEF account, S
<1>5. /\ users' \in [Users -> User] /\ UsersKeep /\ UserFacts' /\ VerifiedWasProven'
  BY <1>1, <1>3, SetUserWrites
<1>6. tokens' \in [Tokens -> Token] /\ TokensKeep /\ TokenFacts'
  BY <1>1, <1>2, <1>4, <1>5, DeleteManyWrites
<1>7. TypeOK' /\ Exclusive'
  BY <1>1, <1>5, <1>6 DEF IInv, TypeOK, Exclusive
<1>8. \A s \in Requests : Knows(req[s])'
  BY <1>1, <1>5, <1>6, OthersKeep
<1> QED
  BY <1>5, <1>6, <1>7, <1>8 DEF IInv

-----------------------------------------------------------------------------
(* Mails.                                                                  *)

OneLive ==
  \A s, t \in Tokens :
    /\ tokens[s].state = "live" /\ tokens[t].state = "live"
    /\ tokens[s].type = tokens[t].type /\ tokens[s].type # "EMAIL_CHANGE"
    /\ tokens[s].email = tokens[t].email
    => s = t

Anonymous ==
  \A u \in Users : users[u].state = "deleted" =>
    users[u].email = null /\ ~users[u].password /\ ~users[u].twoFactor

ChangesAlive ==
  \A t \in Tokens :
    tokens[t].state = "live" /\ tokens[t].type = "EMAIL_CHANGE" =>
      users[tokens[t].user].state = "alive"

KnowsAlone(q) ==
  /\ q.step = "deleteToken" => q.token \in Live(q.type, q.email)
  /\ q.step = "createToken" /\ q.type # "EMAIL_CHANGE" => Live(q.type, q.email) = {}
  /\ q.step \in {"taken", "deleteMany"} => q.type = "EMAIL_CHANGE"
  /\ \/ q.step \in {"taken", "deleteMany", "change", "verify", "reset",
                    "toggle", "update", "verifySms"}
     \/ q.step = "createToken" /\ q.type = "EMAIL_CHANGE"
     => users[q.user].state = "alive"

MailsCalm ==
  /\ OneLive /\ Anonymous /\ ChangesAlive
  /\ \A r, q \in Requests : r # q => req[r].step = "idle" \/ req[q].step = "idle"
  /\ \A r \in Requests : KnowsAlone(req[r])

-----------------------------------------------------------------------------
(* What the steps of mails and codes keep while all is calm.               *)

MailNext == Next /\ calm' = (calm /\ ~(Busy /\ Begins))

(* The one request there is moves.                                         *)
LEMMA LoneMoves ==
  ASSUME MailsCalm, NEW r \in Requests,
         req[r].step # "idle" \/ \A q \in Requests : req[q].step = "idle",
         \A q \in Requests \ {r} : req'[q] = req[q],
         OneLive', Anonymous', ChangesAlive', KnowsAlone(req[r])'
  PROVE  MailsCalm'
<1>1. \A q \in Requests : q # r => req'[q].step = "idle"
  BY DEF MailsCalm
<1>2. \A q \in Requests : KnowsAlone(req[q])'
  BY <1>1 DEF KnowsAlone
<1> QED
  BY <1>1, <1>2 DEF MailsCalm

LEMMA LoneReads ==
  ASSUME MailsCalm, NEW r \in Requests,
         req[r].step # "idle" \/ \A q \in Requests : req[q].step = "idle",
         \A q \in Requests \ {r} : req'[q] = req[q],
         UNCHANGED <<users, tokens>>, KnowsAlone(req[r])'
  PROVE  MailsCalm'
<1>1. OneLive' /\ Anonymous' /\ ChangesAlive'
  BY DEF MailsCalm, OneLive, Anonymous, ChangesAlive
<1> QED
  BY <1>1, LoneMoves

(* A request that begins finds no other under way.                         *)
LEMMA BeginsLone ==
  ASSUME MailNext, calm', NEW r \in Requests,
         \/ \E u \in Users : Start(r, u)
         \/ \E t \in Tokens : Link(r, t)
  PROVE  \A q \in Requests : req[q].step = "idle"
BY DEF MailNext, Begins, Busy

(* What a request is that has come for an account.                         *)
BeginsAs(q, u) ==
  /\ q.step \in {"findToken", "session", "validate", "taken", "toggle", "update",
                 "verifySms"}
  /\ q.step = "taken" => q.type = "EMAIL_CHANGE"
  /\ q.step \in {"taken", "toggle", "update", "verifySms"} =>
       q.user = u /\ users[u].state = "alive"

LEMMA MailBeginKeeps ==
  ASSUME IInv, MailsCalm, \A q \in Requests : req[q].step = "idle",
         NEW r \in Requests, NEW u \in Users, Start(r, u),
         ~deleteAccount(r, u), ~registerSmsComplete(r, u),
         ~(\E e \in Emails \cup {null} : register(r, u, e) \/ extractProfileFromCode(r, u, e))
  PROVE  MailsCalm'
<1>1. UNCHANGED <<users, tokens>>
  BY DEF Start, login, toggleTwoFactor, resetPassword, updatePassword, verifySms,
     requestEmailChange
<1>2. users[u] \in User
  BY DEF IInv, TypeOK
<1>3. PICK q \in Request : Become(r, q) /\ BeginsAs(q, u)
  <2>1. CASE login(r, u)
    <3>1. ASSUME NEW type \in {"VERIFICATION", "TWO_FACTOR"},
                 Become(r, At("findToken", type, null, users[u].email, null))
          PROVE  \E q \in Request : Become(r, q) /\ BeginsAs(q, u)
      <4>1. /\ At("findToken", type, null, users[u].email, null) \in Request
            /\ At("findToken", type, null, users[u].email, null).step = "findToken"
        BY <1>2, SendType DEF User
      <4> QED
        BY <3>1, <4>1 DEF BeginsAs
    <3>2. ASSUME Become(r, At("session", null, u, null, null))
          PROVE  \E q \in Request : Become(r, q) /\ BeginsAs(q, u)
      <4>1. /\ At("session", null, u, null, null) \in Request
            /\ At("session", null, u, null, null).step = "session"
        BY AtType
      <4> QED
        BY <3>2, <4>1 DEF BeginsAs
    <3>3. ASSUME NEW t \in Tokens,
                 Become(r, At("validate", "TWO_FACTOR", u, users[u].email, t))
          PROVE  \E q \in Request : Become(r, q) /\ BeginsAs(q, u)
      <4>1. /\ At("validate", "TWO_FACTOR", u, users[u].email, t) \in Request
            /\ At("validate", "TWO_FACTOR", u, users[u].email, t).step = "validate"
        BY <1>2, AtType DEF User, TokenType
      <4> QED
        BY <3>3, <4>1 DEF BeginsAs
    <3> QED
      BY <2>1, <3>1, <3>2, <3>3 DEF login
  <2>2. CASE resetPassword(r, u)
    <3>1. /\ At("findToken", "PASSWORD_RESET", null, users[u].email, null) \in Request
          /\ At("findToken", "PASSWORD_RESET", null, users[u].email, null).step
               = "findToken"
      BY <1>2, SendType DEF User
    <3> QED
      BY <2>2, <3>1 DEF resetPassword, BeginsAs
  <2>3. CASE toggleTwoFactor(r, u)
    <3> DEFINE base == At("toggle", null, u, null, null)
               q == [base EXCEPT !.enable = ~users[u].twoFactor]
    <3>1. base \in Request /\ base.step = "toggle" /\ base.user = u
      BY AtType
    <3>2. Become(r, q) /\ users[u].state = "alive"
      BY <2>3 DEF toggleTwoFactor, Begin
    <3> HIDE DEF base
    <3>3. q \in Request /\ q.step = "toggle" /\ q.user = u
      BY <3>1 DEF Request
    <3> HIDE DEF q
    <3> QED
      BY <3>2, <3>3 DEF BeginsAs
  <2>4. CASE updatePassword(r, u)
    <3> DEFINE q == At("update", null, u, null, null)
    <3>1. q \in Request /\ q.step = "update" /\ q.user = u
      BY AtType
    <3>2. Become(r, q) /\ users[u].state = "alive"
      BY <2>4 DEF updatePassword, Begin
    <3> HIDE DEF q
    <3> QED
      BY <3>1, <3>2 DEF BeginsAs
  <2>5. ASSUME NEW e \in Emails, requestEmailChange(r, u, e)
        PROVE  \E q \in Request : Become(r, q) /\ BeginsAs(q, u)
    <3> DEFINE q == At("taken", "EMAIL_CHANGE", u, e, null)
    <3>1. q \in Request /\ q.step = "taken" /\ q.user = u /\ q.type = "EMAIL_CHANGE"
      BY AtType DEF TokenType
    <3>2. Become(r, q) /\ users[u].state = "alive"
      BY <2>5 DEF requestEmailChange, Begin
    <3> HIDE DEF q
    <3> QED
      BY <3>1, <3>2 DEF BeginsAs
  <2>6. CASE verifySms(r, u)
    <3> DEFINE q == At("verifySms", null, u, null, null)
    <3>1. q \in Request /\ q.step = "verifySms" /\ q.user = u
      BY AtType
    <3>2. Become(r, q) /\ users[u].state = "alive"
      BY <2>6 DEF verifySms, Begin
    <3> HIDE DEF q
    <3> QED
      BY <3>1, <3>2 DEF BeginsAs
  <2> QED
    BY <2>1, <2>2, <2>3, <2>4, <2>5, <2>6 DEF Start
<1>4. req'[r] = q /\ \A s \in Requests \ {r} : req'[s] = req[s]
  BY <1>3, BecomeWrites
<1>5. KnowsAlone(req[r])'
  BY <1>1, <1>3, <1>4 DEF KnowsAlone, BeginsAs
<1> QED
  BY <1>1, <1>4, <1>5, LoneReads

(* The account a link changes the address of is there.                     *)
LEMMA MailLinkKeeps ==
  ASSUME IInv, MailsCalm, \A q \in Requests : req[q].step = "idle",
         NEW r \in Requests, NEW t \in Tokens, Link(r, t)
  PROVE  MailsCalm'
<1>1. UNCHANGED <<users, tokens>> /\ tokens[t] \in Token /\ tokens[t].state = "live"
  BY DEF Link, newVirification, newPassword, confirmEmailChange, followLink, Follows,
     IInv, TypeOK
<1>2. CASE newVirification(r, t) \/ newPassword(r, t)
  <2>1. PICK type \in TokenType : Become(r, At("findUser", type, null, tokens[t].email, t))
    BY <1>2 DEF newVirification, newPassword, followLink, TokenType
  <2> DEFINE q == At("findUser", type, null, tokens[t].email, t)
  <2>2. q \in Request /\ q.step = "findUser" /\ Become(r, q)
    BY <1>1, <2>1, AtType DEF Token
  <2> HIDE DEF q
  <2>3. req'[r] = q /\ \A s \in Requests \ {r} : req'[s] = req[s]
    BY <2>2, BecomeWrites
  <2>4. KnowsAlone(req[r])'
    BY <2>2, <2>3 DEF KnowsAlone
  <2> QED
    BY <1>1, <2>3, <2>4, LoneReads
<1>3. CASE confirmEmailChange(r, t)
  <2> DEFINE u == tokens[t].user
             e == tokens[t].email
             q == At("change", "EMAIL_CHANGE", u, e, t)
  <2>1. q \in Request /\ q.step = "change" /\ q.user = u
    <3>1. u \in Users /\ e \in Emails
      BY <1>1, <1>3 DEF confirmEmailChange, Follows, IInv, TokenFacts, Exists
    <3> HIDE DEF u, e
    <3> QED
      BY <3>1, AtType DEF TokenType
  <2>2. Become(r, q) /\ users[tokens[t].user].state = "alive"
    BY <1>1, <1>3 DEF confirmEmailChange, Follows, MailsCalm, ChangesAlive
  <2> HIDE DEF q
  <2>3. req'[r] = q /\ \A s \in Requests \ {r} : req'[s] = req[s]
    BY <2>1, <2>2, BecomeWrites
  <2>4. KnowsAlone(req[r])'
    BY <1>1, <2>1, <2>2, <2>3 DEF KnowsAlone
  <2> QED
    BY <1>1, <2>3, <2>4, LoneReads
<1> QED
  BY <1>2, <1>3 DEF Link

(* Steps that find something out.                                          *)
LEMMA MailReadKeeps ==
  ASSUME IInv, MailsCalm, NEW r \in Requests,
         \/ findToken(r) \/ validateTwoFactorToken(r) \/ findUser(r)
         \/ findByEmail(r) \/ saveSession(r) \/ Fail(r)
  PROVE  MailsCalm'
<1>1. /\ UNCHANGED <<users, tokens>> /\ req[r].step # "idle"
      /\ req[r] \in Request /\ Knows(req[r]) /\ KnowsAlone(req[r])
  BY DEF findToken, validateTwoFactorToken, findUser, findByEmail, saveSession, Fail,
     IInv, TypeOK, MailsCalm
<1>2. CASE Respond(r)
  <2>1. req'[r].step = "idle" /\ \A s \in Requests \ {r} : req'[s] = req[s]
    BY <1>2, RespondWrites
  <2>2. KnowsAlone(req[r])'
    BY <2>1 DEF KnowsAlone
  <2> QED
    BY <1>1, <2>1, <2>2, LoneReads
<1>3. CASE findToken(r) /\ ~Respond(r)
  <2>1. req[r].step = "findToken"
    BY <1>3 DEF findToken
  <2>2. CASE Live(req[r].type, req[r].email) = {} /\ Go(r, "createToken")
    <3>1. /\ req'[r].step = "createToken" /\ req'[r].type = req[r].type
          /\ req'[r].email = req[r].email
          /\ \A s \in Requests \ {r} : req'[s] = req[s]
      BY <2>2, GoWrites
    <3>2. KnowsAlone(req[r])'
      BY <1>1, <2>1, <2>2, <3>1 DEF KnowsAlone, Knows, Live
    <3> QED
      BY <1>1, <3>1, <3>2, LoneReads
  <2>3. ASSUME NEW t \in Live(req[r].type, req[r].email),
               Become(r, [req[r] EXCEPT !.step = "deleteToken", !.token = t])
        PROVE  MailsCalm'
    <3> DEFINE q == [req[r] EXCEPT !.step = "deleteToken", !.token = t]
    <3>1. /\ q \in Request /\ q.step = "deleteToken" /\ q.token = t
          /\ q.type = req[r].type /\ q.email = req[r].email
      BY <1>1 DEF Request, Live
    <3>2. Become(r, q)
      BY <2>3
    <3> HIDE DEF q
    <3>3. req'[r] = q /\ \A s \in Requests \ {r} : req'[s] = req[s]
      BY <3>1, <3>2, BecomeWrites
    <3>4. KnowsAlone(req[r])'
      BY <1>1, <3>1, <3>3 DEF KnowsAlone, Live
    <3> QED
      BY <1>1, <3>3, <3>4, LoneReads
  <2> QED
    BY <1>3, <2>2, <2>3 DEF findToken
<1>4. CASE validateTwoFactorToken(r) /\ ~Respond(r)
  <2>1. Go(r, "consume")
    BY <1>4 DEF validateTwoFactorToken
  <2>2. req'[r].step = "consume" /\ \A s \in Requests \ {r} : req'[s] = req[s]
    BY <2>1, GoWrites
  <2>3. KnowsAlone(req[r])'
    BY <2>2 DEF KnowsAlone
  <2> QED
    BY <1>1, <2>2, <2>3, LoneReads
<1>5. CASE findUser(r) /\ ~Respond(r)
  <2>1. PICK u \in Users :
          /\ HasEmail(u, req[r].email)
          /\ Become(r, [req[r] EXCEPT !.user = u,
               !.step = IF req[r].type = "VERIFICATION" THEN "verify" ELSE "reset"])
    BY <1>5 DEF findUser
  <2> DEFINE step == IF req[r].type = "VERIFICATION" THEN "verify" ELSE "reset"
             q == [req[r] EXCEPT !.user = u, !.step = step]
  <2>2. step \in {"verify", "reset"} /\ Become(r, q)
    BY <2>1
  <2> HIDE DEF step
  <2>3. q \in Request /\ q.step = step /\ q.user = u
    BY <1>1, <2>2 DEF Request
  <2> HIDE DEF q
  <2>4. users[u].state = "alive"
    BY <2>1 DEF HasEmail, MailsCalm, Anonymous, IInv, UserFacts, TypeOK, User
  <2>5. req'[r] = q /\ \A s \in Requests \ {r} : req'[s] = req[s]
    BY <2>2, <2>3, BecomeWrites
  <2>6. KnowsAlone(req[r])'
    BY <1>1, <2>2, <2>3, <2>4, <2>5 DEF KnowsAlone
  <2> QED
    BY <1>1, <2>5, <2>6, LoneReads
<1>6. CASE findByEmail(r) /\ ~Respond(r)
  <2>1. Go(r, "deleteMany") /\ req[r].step = "taken"
    BY <1>6 DEF findByEmail
  <2>2. /\ req'[r].step = "deleteMany" /\ req'[r].type = req[r].type
        /\ req'[r].user = req[r].user
        /\ \A s \in Requests \ {r} : req'[s] = req[s]
    BY <2>1, GoWrites
  <2>3. KnowsAlone(req[r])'
    BY <1>1, <2>1, <2>2 DEF KnowsAlone
  <2> QED
    BY <1>1, <2>2, <2>3, LoneReads
<1> QED
  BY <1>2, <1>3, <1>4, <1>5, <1>6 DEF saveSession, Fail

(* Steps that write tokens.                                                *)
LEMMA MailTokensKeep ==
  ASSUME IInv, MailsCalm, NEW r \in Requests,
         deleteToken(r) \/ consume(r) \/ deleteMany(r)
  PROVE  MailsCalm'
<1>1. /\ users' = users /\ req[r].step # "idle" /\ tokens \in [Tokens -> Token]
      /\ req[r] \in Request /\ Knows(req[r]) /\ KnowsAlone(req[r])
  BY DEF deleteToken, consume, deleteMany, IInv, TypeOK, MailsCalm
<1> DEFINE Less(t) ==
             /\ tokens'[t].type = tokens[t].type /\ tokens'[t].user = tokens[t].user
             /\ tokens'[t].email = tokens[t].email
             /\ tokens'[t].state = "live" => tokens[t].state = "live"
<1>2. \A t \in Tokens : Less(t)
  <2>1. CASE deleteToken(r) \/ consume(r)
    BY <1>1, <2>1 DEF deleteToken, consume, Delete, Token
  <2>2. CASE deleteMany(r)
    <3>1. ASSUME NEW t \in Tokens
          PROVE  Less(t)
      <4> DEFINE gone == [tokens[t] EXCEPT !.state = "gone"]
      <4>1. /\ gone.state = "gone" /\ gone.user = tokens[t].user
            /\ gone.email = tokens[t].email /\ gone.type = tokens[t].type
        BY <1>1 DEF Token
      <4>2. tokens'[t] = gone \/ tokens'[t] = tokens[t]
        BY <2>2, Zenon DEF deleteMany
      <4> HIDE DEF gone
      <4> QED
        BY <4>1, <4>2
    <3> QED
      BY <3>1
  <2> QED
    BY <2>1, <2>2
<1>3. OneLive' /\ Anonymous' /\ ChangesAlive'
  BY <1>1, <1>2 DEF MailsCalm, OneLive, Anonymous, ChangesAlive
<1>4. CASE deleteToken(r)
  <2>1. /\ req'[r].step = "createToken" /\ req'[r].type = req[r].type
        /\ req'[r].email = req[r].email
        /\ \A s \in Requests \ {r} : req'[s] = req[s]
    BY <1>4, GoWrites DEF deleteToken
  <2>2. req[r].token \in Live(req[r].type, req[r].email) /\ req[r].type # "EMAIL_CHANGE"
    BY <1>1, <1>4 DEF deleteToken, Knows, KnowsAlone
  <2>3. tokens'[req[r].token].state = "gone"
    BY <1>1, <1>4, <2>2 DEF deleteToken, Delete, Live, Token
  <2>4. Live(req[r].type, req[r].email)' = {}
    BY <1>2, <2>1, <2>2, <2>3 DEF MailsCalm, OneLive, Live
  <2>5. KnowsAlone(req[r])'
    BY <2>1, <2>2, <2>4 DEF KnowsAlone, Live
  <2> QED
    BY <1>1, <1>3, <2>1, <2>5, LoneMoves
<1>5. CASE consume(r)
  <2>1. /\ req'[r].step \in {"session", "idle"}
        /\ \A s \in Requests \ {r} : req'[s] = req[s]
    BY <1>5, GoWrites, RespondWrites DEF consume
  <2>2. KnowsAlone(req[r])'
    BY <2>1 DEF KnowsAlone
  <2> QED
    BY <1>1, <1>3, <2>1, <2>2, LoneMoves
<1>6. CASE deleteMany(r)
  <2>1. /\ req'[r].step = "createToken" /\ req'[r].type = req[r].type
        /\ req'[r].user = req[r].user /\ req[r].step = "deleteMany"
        /\ \A s \in Requests \ {r} : req'[s] = req[s]
    BY <1>6, GoWrites DEF deleteMany
  <2>2. KnowsAlone(req[r])'
    BY <1>1, <2>1 DEF KnowsAlone
  <2> QED
    BY <1>1, <1>3, <2>1, <2>2, LoneMoves
<1> QED
  BY <1>4, <1>5, <1>6

(* The token that is created is the only one of its type and address.      *)
LEMMA MailCreateKeeps ==
  ASSUME IInv, MailsCalm, NEW r \in Requests, createToken(r)
  PROVE  MailsCalm'
<1> DEFINE token == Row("live", req[r].type, req[r].email, req[r].user)
<1>1. /\ users' = users /\ req[r].step = "createToken" /\ Respond(r)
      /\ tokens \in [Tokens -> Token] /\ req[r] \in Request /\ KnowsAlone(req[r])
  BY DEF createToken, IInv, TypeOK, MailsCalm
<1>2. PICK t \in Tokens : /\ tokens[t].state = "unborn"
                          /\ tokens' = [tokens EXCEPT ![t] = token]
  BY DEF createToken
<1>3. /\ token.state = "live" /\ token.type = req[r].type
      /\ token.email = req[r].email /\ token.user = req[r].user
  BY DEF Row
<1> HIDE DEF token
<1>4. tokens'[t] = token /\ \A s \in Tokens \ {t} : tokens'[s] = tokens[s]
  BY <1>1, <1>2
<1>5. OneLive'
  <2>1. token.type # "EMAIL_CHANGE" =>
          \A s \in Tokens : tokens[s].state = "live" =>
            tokens[s].type # token.type \/ tokens[s].email # token.email
    BY <1>1, <1>3 DEF KnowsAlone, Live
  <2> QED
    BY <1>3, <1>4, <2>1 DEF MailsCalm, OneLive
<1>6. ChangesAlive' /\ Anonymous'
  BY <1>1, <1>3, <1>4 DEF MailsCalm, ChangesAlive, Anonymous, KnowsAlone
<1>7. req'[r].step = "idle" /\ \A s \in Requests \ {r} : req'[s] = req[s]
  BY <1>1, RespondWrites
<1>8. KnowsAlone(req[r])'
  BY <1>7 DEF KnowsAlone
<1> QED
  BY <1>1, <1>5, <1>6, <1>7, <1>8, LoneMoves

LEMMA MailTimeoutKeeps ==
  ASSUME IInv, MailsCalm, NEW t \in Tokens, timeout(t)
  PROVE  MailsCalm'
<1>1. UNCHANGED <<users, req>> /\ tokens \in [Tokens -> Token]
  BY DEF timeout, IInv, TypeOK
<1>2. \A s \in Tokens :
        /\ tokens'[s].type = tokens[s].type /\ tokens'[s].user = tokens[s].user
        /\ tokens'[s].email = tokens[s].email /\ tokens'[s].state = tokens[s].state
  BY <1>1 DEF timeout, Token
<1>3. OneLive' /\ Anonymous' /\ ChangesAlive'
  BY <1>1, <1>2 DEF MailsCalm, OneLive, Anonymous, ChangesAlive
<1>4. ASSUME NEW type, NEW e
      PROVE  Live(type, e)' = Live(type, e)
  BY <1>2 DEF Live
<1>5. ASSUME NEW r \in Requests
      PROVE  KnowsAlone(req[r])'
  <2>1. KnowsAlone(req[r]) /\ req'[r] = req[r]
    BY <1>1 DEF MailsCalm
  <2>2. Live(req[r].type, req[r].email)' = Live(req[r].type, req[r].email)
    BY <1>2, <2>1 DEF Live
  <2> QED
    BY <1>1, <2>1, <2>2 DEF KnowsAlone
<1> QED
  BY <1>1, <1>3, <1>5 DEF MailsCalm

(* Steps that write the account: one that is there stays as it is, except  *)
(* for what is written.                                                    *)
LEMMA MailUsersKeep ==
  ASSUME IInv, MailsCalm, NEW r \in Requests, tokens' = tokens,
         req[r].step # "idle" \/ \A q \in Requests : req[q].step = "idle",
         NEW u \in Users, users[u].state # "deleted",
         NEW account \in User, account.state = "alive", SetUser(u, account),
         \A s \in Requests \ {r} : req'[s] = req[s],
         req'[r].step \in {"idle", "findToken", "consume", "session"}
  PROVE  MailsCalm'
<1>1. users'[u] = account /\ \A v \in Users \ {u} : users'[v] = users[v]
  BY DEF SetUser, IInv, TypeOK
<1>2. OneLive' /\ Anonymous'
  BY <1>1 DEF MailsCalm, OneLive, Anonymous
<1>3. ChangesAlive'
  BY <1>1 DEF MailsCalm, ChangesAlive, IInv, TokenFacts, Exists
<1>4. KnowsAlone(req[r])'
  BY DEF KnowsAlone
<1> QED
  BY <1>2, <1>3, <1>4, LoneMoves

LEMMA MailRegisterKeeps ==
  ASSUME IInv, MailsCalm, \A q \in Requests : req[q].step = "idle",
         NEW r \in Requests, NEW u \in Users,
         NEW e \in Emails \cup {null}, register(r, u, e)
  PROVE  MailsCalm'
<1> DEFINE account == Account("alive", e, FALSE)
           q == At("findToken", "VERIFICATION", null, e, null)
<1>1. /\ users[u].state = "unborn" /\ SetUser(u, account)
      /\ Become(r, q) \/ Become(r, Idle)
      /\ tokens' = tokens
  BY DEF register
<1>2. account \in User /\ account.state = "alive"
  BY DEF Account, User
<1>3. q \in Request /\ q.step = "findToken"
  BY SendType
<1>4. Idle \in Request /\ Idle.step = "idle"
  BY AtType DEF Idle
<1> HIDE DEF account, q
<1>5. /\ req'[r].step \in {"idle", "findToken"}
      /\ \A s \in Requests \ {r} : req'[s] = req[s]
  BY <1>1, <1>3, <1>4, BecomeWrites
<1> QED
  BY <1>1, <1>2, <1>5, MailUsersKeep

(* The accounts of providers and of calls.                                 *)
LEMMA MailNewAccountKeeps ==
  ASSUME IInv, MailsCalm, \A q \in Requests : req[q].step = "idle",
         NEW r \in Requests, NEW u \in Users,
         \/ registerSmsComplete(r, u)
         \/ \E e \in Emails \cup {null} : extractProfileFromCode(r, u, e)
  PROVE  MailsCalm'
<1> DEFINE q == At("session", null, u, null, null)
<1>1. /\ users[u].state = "unborn" /\ tokens' = tokens /\ Become(r, q)
  BY DEF registerSmsComplete, extractProfileFromCode
<1>2. q \in Request /\ q.step = "session"
  BY AtType
<1> HIDE DEF q
<1>3. PICK account \in User : SetUser(u, account) /\ account.state = "alive"
  <2>1. CASE registerSmsComplete(r, u)
    <3>1. Account("alive", null, TRUE) \in User /\ Account("alive", null, TRUE).state = "alive"
      BY DEF Account, User
    <3> QED
      BY <2>1, <3>1 DEF registerSmsComplete
  <2>2. ASSUME NEW e \in Emails \cup {null}, extractProfileFromCode(r, u, e)
        PROVE  \E account \in User : SetUser(u, account) /\ account.state = "alive"
    <3> DEFINE base == Account("alive", e, TRUE)
               account == [base EXCEPT !.password = FALSE]
    <3>1. base \in User /\ base.state = "alive"
      BY DEF Account, User
    <3>2. SetUser(u, account)
      BY <2>2 DEF extractProfileFromCode
    <3> HIDE DEF base
    <3>3. account \in User /\ account.state = "alive"
      BY <3>1 DEF User
    <3> HIDE DEF account
    <3> QED
      BY <3>2, <3>3
  <2> QED
    BY <2>1, <2>2
<1>4. req'[r] = q /\ \A s \in Requests \ {r} : req'[s] = req[s]
  BY <1>1, <1>2, BecomeWrites
<1> QED
  BY <1>1, <1>2, <1>3, <1>4, MailUsersKeep

LEMMA MailWritesKeep ==
  ASSUME IInv, MailsCalm, NEW r \in Requests,
         \/ verify(r) \/ setVerified(r) \/ change(r)
         \/ reset(r) \/ toggle(r) \/ update(r)
  PROVE  MailsCalm'
<1> DEFINE u == req[r].user
           q == At("session", null, u, null, null)
<1>1. /\ req[r].step \in {"verify", "verifySms", "change", "reset", "toggle", "update"}
      /\ u \in Users /\ users[u] \in User /\ req[r] \in Request /\ tokens' = tokens
      /\ Go(r, "consume") \/ Respond(r) \/ Become(r, q)
      /\ req[r].step = "change" => req[r].email \in Emails
  BY DEF verify, setVerified, change, reset, toggle, update, IInv, Knows, TypeOK, Exists
<1>2. users[u].state = "alive"
  BY <1>1 DEF MailsCalm, KnowsAlone
<1>3. PICK account \in User : SetUser(u, account) /\ account.state = users[u].state
  <2> DEFINE a == [users[u] EXCEPT !.verified = TRUE]
             b == [users[u] EXCEPT !.email = req[r].email, !.verified = TRUE]
             c == [users[u] EXCEPT !.password = TRUE]
             d == [users[u] EXCEPT !.twoFactor = req[r].enable]
  <2>1. /\ a \in User /\ a.state = users[u].state
        /\ c \in User /\ c.state = users[u].state
    BY <1>1 DEF User
  <2>2. d \in User /\ d.state = users[u].state
    BY <1>1 DEF User, Request
  <2>3. req[r].step = "change" => b \in User /\ b.state = users[u].state
    BY <1>1 DEF User
  <2>4. \/ SetUser(u, a) \/ SetUser(u, c) \/ SetUser(u, d)
        \/ req[r].step = "change" /\ SetUser(u, b)
    BY DEF verify, setVerified, change, reset, toggle, update
  <2> HIDE DEF a, b, c, d
  <2> QED
    BY <2>1, <2>2, <2>3, <2>4
<1>4. q \in Request /\ q.step = "session"
  <2> HIDE DEF u
  <2> QED
    BY <1>1, AtType
<1> HIDE DEF u, q
<1>5. /\ req'[r].step \in {"idle", "consume", "session"}
      /\ \A s \in Requests \ {r} : req'[s] = req[s]
  BY <1>1, <1>4, GoWrites, RespondWrites, BecomeWrites
<1> QED
  BY <1>1, <1>2, <1>3, <1>5, MailUsersKeep

(* The account goes, and the links with it that would have changed it.     *)
LEMMA MailDeleteKeeps ==
  ASSUME IInv, MailsCalm, \A q \in Requests : req[q].step = "idle",
         NEW r \in Requests, NEW u \in Users, deleteAccount(r, u)
  PROVE  MailsCalm'
<1> DEFINE account == Account("deleted", null, users[u].verified)
           Less(t) ==
             /\ tokens'[t].type = tokens[t].type /\ tokens'[t].user = tokens[t].user
             /\ tokens'[t].email = tokens[t].email
             /\ tokens'[t].state = "live" =>
                  tokens[t].state = "live" /\ tokens[t].user # u
<1>1. SetUser(u, account) /\ req' = req /\ tokens \in [Tokens -> Token]
  BY DEF deleteAccount, IInv, TypeOK
<1>2. /\ account.state = "deleted" /\ account.email = null
      /\ ~account.password /\ ~account.twoFactor
  BY DEF Account
<1> HIDE DEF account
<1>3. users'[u] = account /\ \A v \in Users \ {u} : users'[v] = users[v]
  BY <1>1 DEF SetUser, IInv, TypeOK
<1>4. ASSUME NEW t \in Tokens
      PROVE  Less(t)
  <2> DEFINE gone == [tokens[t] EXCEPT !.state = "gone"]
  <2>1. /\ gone.state = "gone" /\ gone.user = tokens[t].user
        /\ gone.email = tokens[t].email /\ gone.type = tokens[t].type
    BY <1>1 DEF Token
  <2>2. tokens'[t] = IF tokens[t].state = "live" /\ tokens[t].user = u
                     THEN gone ELSE tokens[t]
    BY Zenon DEF deleteAccount
  <2> HIDE DEF gone
  <2> QED
    BY <2>1, <2>2
<1>5. OneLive' /\ Anonymous'
  BY <1>2, <1>3, <1>4 DEF MailsCalm, OneLive, Anonymous
<1>6. ChangesAlive'
  BY <1>3, <1>4 DEF MailsCalm, ChangesAlive, IInv, TokenFacts, Exists
<1>7. \A q \in Requests : KnowsAlone(req[q])'
  BY <1>1 DEF KnowsAlone
<1> QED
  BY <1>1, <1>5, <1>6, <1>7 DEF MailsCalm

LEMMA MailStep == IInv /\ calm /\ MailsCalm /\ MailNext /\ calm' => MailsCalm'
<1> SUFFICES ASSUME IInv, MailsCalm, MailNext, calm'
             PROVE  MailsCalm'
  OBVIOUS
<1>1. ASSUME NEW r \in Requests, NEW u \in Users, Start(r, u)
      PROVE  MailsCalm'
  <2>1. \A q \in Requests : req[q].step = "idle"
    BY <1>1, BeginsLone
  <2> QED
    BY <1>1, <2>1, MailBeginKeeps, MailRegisterKeeps, MailNewAccountKeeps,
       MailDeleteKeeps
<1>2. ASSUME NEW r \in Requests, NEW t \in Tokens, Link(r, t)
      PROVE  MailsCalm'
  <2>1. \A q \in Requests : req[q].step = "idle"
    BY <1>2, BeginsLone
  <2> QED
    BY <1>2, <2>1, MailLinkKeeps
<1>3. ASSUME NEW r \in Requests, HandlerStep(r) \/ Fail(r)
      PROVE  MailsCalm'
  BY <1>3, MailReadKeeps, MailTokensKeep, MailCreateKeeps, MailWritesKeep DEF HandlerStep
<1> QED
  BY <1>1, <1>2, <1>3, MailTimeoutKeeps DEF MailNext, Next

LEMMA MailInit == Init => MailsCalm
<1> SUFFICES ASSUME Init
             PROVE  MailsCalm
  OBVIOUS
<1>1. \A r \in Requests : req[r].step = "idle"
  BY DEF Init, Idle, At
<1>2. \A t \in Tokens : tokens[t].state = "unborn"
  BY DEF Init, Row
<1>3. \A u \in Users : users[u].state # "deleted"
  BY DEF Init, Account
<1> QED
  BY <1>1, <1>2, <1>3 DEF MailsCalm, OneLive, Anonymous, ChangesAlive, KnowsAlone

-----------------------------------------------------------------------------
(* Providers.                                                              *)

Leads(i, u) == u \in People /\ (links[i] = u \/ people[u].state = "deleted")

VisitSound(q) ==
  /\ q.step # "idle" => q.browser \in Browsers
  /\ q.step \in {"account", "byId", "byMail", "create", "link", "session"} =>
       q.id \in Ids
  /\ q.step = "byMail" => q.mail # null
  /\ q.step \in {"link", "login"} => q.user \in People
  /\ q.step \in {"byId", "session"} => Leads(q.id, q.user)

LinksSound ==
  /\ \A u \in People : people[u].mail # null => people[u].state = "alive"
  /\ \A i \in Ids : session[i] # null => Leads(i, session[i])
  /\ \A r \in Requests : VisitSound(visit[r])

AloneThere(r) ==
  /\ \A q \in Requests : q # r => visit[q].step = "idle"
  /\ visit[r].session.user = store[visit[r].browser].user
  /\ visit[r].step = "link" => people[visit[r].user].state = "alive"

ProviderCalm ==
  /\ \A b \in Browsers : store[b].user = who[b]
  /\ \A i \in Ids : links[i] # null => people[links[i]].state = "alive"
  /\ \A r \in Requests : visit[r].step # "idle" => AloneThere(r)

ProviderSound == Provider!TypeOK /\ LinksSound /\ (calm => ProviderCalm)

-----------------------------------------------------------------------------
(* Steps of the sign-in with a provider.                                   *)

VisitSteps == {"idle", "connecting", "profile", "account", "byId", "byMail",
               "create", "link", "session", "login", "refused", "deleting",
               "destroying"}

LEMMA VisitFields ==
  ASSUME NEW q
  PROVE  q \in Provider!Request <=>
           /\ q = [step |-> q.step, browser |-> q.browser, session |-> q.session,
                   id |-> q.id, mail |-> q.mail, user |-> q.user]
           /\ q.step \in VisitSteps /\ q.browser \in Browsers \cup {null}
           /\ q.session \in Provider!Session /\ q.id \in Ids \cup {null}
           /\ q.mail \in Mails \cup {null} /\ q.user \in People \cup {null}
BY DEF VisitSteps, Provider!Request

LEMMA NoVisit == Provider!Idle \in Provider!Request /\ Provider!Idle.step = "idle"
BY DEF Provider!Idle, Provider!Request, Provider!NoSession, Provider!Session

LEMMA VisitStarts ==
  ASSUME ProviderSound, NEW r \in Requests, NEW b \in Browsers,
         NEW step \in VisitSteps \ {"idle"}, NEW copy \in Provider!Session,
         Provider!Loads(r, b, step, copy)
  PROVE  /\ visit' \in [Requests -> Provider!Request]
         /\ visit[r].step = "idle" /\ visit'[r].step = step
         /\ visit'[r].browser = b /\ visit'[r].session = copy
         /\ \A q \in Requests \ {r} : visit'[q] = visit[q]
<1> DEFINE q == [Provider!Idle EXCEPT !.step = step, !.browser = b, !.session = copy]
<1>1. /\ q \in Provider!Request /\ q.step = step /\ q.browser = b /\ q.session = copy
  BY NoVisit DEF Provider!Request, VisitSteps
<1>2. visit[r].step = "idle" /\ visit' = [visit EXCEPT ![r] = q]
  BY DEF Provider!Loads, Provider!At
<1> HIDE DEF q
<1> QED
  BY <1>1, <1>2 DEF ProviderSound, Provider!TypeOK

LEMMA VisitGoes ==
  ASSUME ProviderSound, NEW r \in Requests, NEW step \in VisitSteps,
         Provider!Goes(r, step)
  PROVE  /\ visit' \in [Requests -> Provider!Request]
         /\ visit'[r].step = step /\ visit'[r].browser = visit[r].browser
         /\ visit'[r].session = visit[r].session /\ visit'[r].id = visit[r].id
         /\ visit'[r].mail = visit[r].mail /\ visit'[r].user = visit[r].user
         /\ \A q \in Requests \ {r} : visit'[q] = visit[q]
BY DEF ProviderSound, Provider!TypeOK, Provider!Goes, Provider!Request, VisitSteps

LEMMA VisitEnds ==
  ASSUME ProviderSound, NEW r \in Requests, Provider!Ends(r)
  PROVE  /\ visit' \in [Requests -> Provider!Request] /\ visit'[r].step = "idle"
         /\ \A q \in Requests \ {r} : visit'[q] = visit[q]
BY NoVisit DEF ProviderSound, Provider!TypeOK, Provider!Ends

LEMMA SessionFields ==
  /\ Provider!NoSession \in Provider!Session /\ Provider!NoSession.user = null
  /\ \A copy \in Provider!Session, s \in States \cup {null} :
       /\ [copy EXCEPT !.oauthState = s] \in Provider!Session
       /\ [copy EXCEPT !.oauthState = s].user = copy.user
  /\ \A copy \in Provider!Session, u \in People \cup {null} :
       /\ [copy EXCEPT !.user = u] \in Provider!Session
       /\ [copy EXCEPT !.user = u].user = u
BY DEF Provider!NoSession, Provider!Session

-----------------------------------------------------------------------------
(* What a step keeps of the identities.                                    *)

(* Deleted accounts stay deleted, and a link goes with its account only.   *)
LinksKeep ==
  /\ \A u \in People : people[u].state = "deleted" => people'[u].state = "deleted"
  /\ \A i \in Ids, u \in People :
       links[i] = u => links'[i] = u \/ people'[u].state = "deleted"

(* A step of one request.                                                  *)
LEMMA LinksSoundKept ==
  ASSUME ProviderSound, LinksKeep, NEW r \in Requests,
         \A q \in Requests \ {r} : visit'[q] = visit[q],
         VisitSound(visit[r])',
         \A u \in People : people'[u].mail # null => people'[u].state = "alive",
         \A i \in Ids : session'[i] = session[i] \/ Leads(i, session[i])'
  PROVE  LinksSound'
<1>1. ASSUME NEW i \in Ids, session'[i] # null
      PROVE  Leads(i, session[i])'
  <2>1. CASE session'[i] = session[i]
    <3>1. Leads(i, session[i])
      BY <1>1, <2>1 DEF ProviderSound, LinksSound
    <3> QED
      BY <2>1, <3>1 DEF LinksKeep, Leads
  <2> QED
    BY <1>1, <2>1
<1>2. ASSUME NEW q \in Requests \ {r}
      PROVE  VisitSound(visit[q])'
  <2>1. VisitSound(visit[q]) /\ visit'[q] = visit[q]
    BY <1>2 DEF ProviderSound, LinksSound
  <2> QED
    BY <2>1 DEF LinksKeep, Leads, VisitSound
<1> QED
  BY <1>1, <1>2 DEF LinksSound

-----------------------------------------------------------------------------
(* What a step keeps while all is calm.                                    *)

(* Who a browser is signed in to changes with the session's account: a     *)
(* step that neither signs in nor out leaves both alone.                   *)
LEMMA SticksOn ==
  ASSUME ProviderSound, Provider!MCNext, NEW b \in Browsers, store[b].user = who[b],
         \/ store'[b].user = store[b].user
         \/ \E r \in Requests : Provider!SignsIn(r, b)
         \/ Provider!SignsOut(b)
  PROVE  store'[b].user = who'[b]
<1>1. who' = [c \in Browsers |->
               CASE \E r \in Requests : Provider!SignsIn(r, c) ->
                        visit[CHOOSE r \in Requests : Provider!SignsIn(r, c)].user
                 [] Provider!SignsOut(c) -> null
                 [] OTHER -> who[c]]
  BY DEF Provider!MCNext
<1>2. ASSUME NEW r \in Requests, Provider!SignsIn(r, b)
      PROVE  /\ store'[b].user = visit[r].user /\ ~Provider!SignsOut(b)
             /\ visit[r].step \in {"session", "login"}
  <2>1. /\ visit[r].browser = b /\ visit[r].step \in {"session", "login"}
        /\ visit[r] \in Provider!Request /\ Provider!Ends(r)
        /\ store' = [store EXCEPT ![b] = [visit[r].session EXCEPT !.user = visit[r].user]]
    BY <1>2 DEF Provider!SignsIn, Provider!saveSession, Provider!At, ProviderSound,
       Provider!TypeOK
  <2>2. store'[b].user = visit[r].user
    BY <2>1, VisitFields, SessionFields DEF ProviderSound, Provider!TypeOK
  <2>3. visit'[r].step = "idle" /\ \A q \in Requests \ {r} : visit'[q] = visit[q]
    BY <2>1, VisitEnds
  <2>4. ~Provider!logout(b)
    BY <2>1, <2>3 DEF Provider!logout
  <2>5. ASSUME NEW q \in Requests, Provider!destroy(q)
        PROVE  FALSE
    <3>1. visit[q].step = "destroying" /\ Provider!Ends(q)
      BY <2>5 DEF Provider!destroy, Provider!At
    <3>2. \A s \in Requests \ {q} : visit'[s] = visit[s]
      BY <3>1, VisitEnds
    <3> QED
      BY <2>1, <2>3, <3>1, <3>2
  <2> QED
    BY <2>1, <2>2, <2>4, <2>5 DEF Provider!SignsOut
<1>3. CASE \E r \in Requests : Provider!SignsIn(r, b)
  <2> DEFINE r == CHOOSE r \in Requests : Provider!SignsIn(r, b)
  <2>1. r \in Requests /\ Provider!SignsIn(r, b)
    BY <1>3
  <2>2. who'[b] = visit[r].user
    BY <1>1, <1>2, <1>3, <2>1
  <2> HIDE DEF r
  <2> QED
    BY <1>2, <2>1, <2>2
<1>4. CASE ~(\E r \in Requests : Provider!SignsIn(r, b)) /\ Provider!SignsOut(b)
  <2>1. who'[b] = null
    BY <1>1, <1>4
  <2>2. store'[b] = Provider!NoSession
    <3>1. CASE Provider!logout(b)
      BY <3>1 DEF Provider!logout, ProviderSound, Provider!TypeOK
    <3>2. CASE \E q \in Requests : visit[q].browser = b /\ Provider!destroy(q)
      BY <3>2 DEF Provider!destroy, ProviderSound, Provider!TypeOK
    <3> QED
      BY <1>4, <3>1, <3>2 DEF Provider!SignsOut
  <2> QED
    BY <2>1, <2>2, SessionFields
<1>5. CASE ~(\E r \in Requests : Provider!SignsIn(r, b)) /\ ~Provider!SignsOut(b)
  <2>1. who'[b] = who[b]
    BY <1>1, <1>5
  <2> QED
    BY <1>5, <2>1
<1> QED
  BY <1>3, <1>4, <1>5

(* A request that moves was the only one, or is the only one from now on.  *)
LEMMA AloneMoves ==
  ASSUME ProviderSound, Provider!MCNext, calm', NEW r \in Requests,
         visit[r].step # "idle" \/ visit'[r].step # "idle",
         \A q \in Requests \ {r} : visit'[q] = visit[q]
  PROVE  /\ calm /\ ProviderCalm
         /\ \A q \in Requests : q # r => visit[q].step = "idle" /\ visit'[q].step = "idle"
         /\ visit[r].step # "idle" => AloneThere(r)
<1>1. calm /\ ProviderCalm
  BY DEF Provider!MCNext, ProviderSound
<1>2. CASE visit[r].step # "idle"
  BY <1>1, <1>2 DEF ProviderCalm, AloneThere
<1>3. CASE visit[r].step = "idle"
  BY <1>1, <1>3 DEF Provider!MCNext, Provider!Begins, Provider!Quiet, Provider!At
<1> QED
  BY <1>1, <1>2, <1>3

(* Steps that write nothing but their request.                             *)
LEMMA VisitMoveKeeps ==
  ASSUME ProviderSound, Provider!MCNext, UNCHANGED <<people, links, store, session>>,
         NEW r \in Requests, visit' \in [Requests -> Provider!Request],
         \A q \in Requests \ {r} : visit'[q] = visit[q],
         visit'[r].step # "idle", VisitSound(visit[r])',
         \/ visit'[r].session.user = store[visit'[r].browser].user
         \/ /\ visit[r].step # "idle" /\ visit'[r].session = visit[r].session
            /\ visit'[r].browser = visit[r].browser,
         visit'[r].step = "link" => people[visit'[r].user].state = "alive"
  PROVE  ProviderSound'
<1>1. Provider!TypeOK'
  BY DEF ProviderSound, Provider!TypeOK
<1>2. LinksSound'
  BY LinksSoundKept DEF LinksKeep, ProviderSound, LinksSound
<1>3. ASSUME calm'
      PROVE  ProviderCalm'
  <2>1. /\ ProviderCalm
        /\ \A q \in Requests : q # r => visit'[q].step = "idle"
        /\ visit[r].step # "idle" => AloneThere(r)
    BY <1>3, AloneMoves
  <2>2. AloneThere(r)'
    BY <2>1 DEF AloneThere
  <2>3. \A b \in Browsers : store'[b].user = who'[b]
    BY <2>1, SticksOn DEF ProviderCalm
  <2> QED
    BY <2>1, <2>2, <2>3 DEF ProviderCalm
<1> QED
  BY <1>1, <1>2, <1>3 DEF ProviderSound

LEMMA VisitBeginKeeps ==
  ASSUME ProviderSound, Provider!MCNext, NEW r \in Requests, Provider!Begin(r)
  PROVE  ProviderSound'
<1>1. PICK b \in Browsers :
        \/ \E s \in States : Provider!connect(r, b, s)
        \/ \E s \in States \cup {null} : Provider!callback(r, b, s)
        \/ \E u \in People : Provider!login(r, b, u)
        \/ Provider!deleteAccount(r, b)
  BY DEF Provider!Begin
<1>2. UNCHANGED <<people, links, store, session>> /\ store[b] \in Provider!Session
  BY <1>1 DEF Provider!connect, Provider!callback, Provider!login,
     Provider!deleteAccount, ProviderSound, Provider!TypeOK
<1>3. CASE ~(\E u \in People : Provider!login(r, b, u))
  <2>1. PICK step \in {"connecting", "profile", "refused", "deleting"},
             copy \in Provider!Session :
          Provider!Loads(r, b, step, copy) /\ copy.user = store[b].user
    <3>1. ASSUME NEW s \in States, Provider!connect(r, b, s)
          PROVE  /\ Provider!Loads(r, b, "connecting", [store[b] EXCEPT !.oauthState = s])
                 /\ [store[b] EXCEPT !.oauthState = s] \in Provider!Session
                 /\ [store[b] EXCEPT !.oauthState = s].user = store[b].user
      BY <1>2, <3>1, SessionFields DEF Provider!connect
    <3>2. ASSUME NEW s \in States \cup {null}, Provider!callback(r, b, s)
          PROVE  /\ \E step \in {"profile", "refused"} :
                      Provider!Loads(r, b, step, [store[b] EXCEPT !.oauthState = null])
                 /\ [store[b] EXCEPT !.oauthState = null] \in Provider!Session
                 /\ [store[b] EXCEPT !.oauthState = null].user = store[b].user
      BY <1>2, <3>2, SessionFields DEF Provider!callback
    <3>3. CASE Provider!deleteAccount(r, b)
      BY <1>2, <3>3 DEF Provider!deleteAccount
    <3> QED
      BY <1>1, <1>3, <3>1, <3>2, <3>3
  <2>2. /\ visit' \in [Requests -> Provider!Request]
        /\ visit'[r].step = step /\ visit'[r].browser = b /\ visit'[r].session = copy
        /\ \A q \in Requests \ {r} : visit'[q] = visit[q]
    BY <2>1, VisitStarts DEF VisitSteps
  <2>3. VisitSound(visit[r])'
    BY <2>1, <2>2 DEF VisitSound
  <2> QED
    BY <1>2, <2>1, <2>2, <2>3, VisitMoveKeeps
<1>4. ASSUME NEW u \in People, Provider!login(r, b, u)
      PROVE  ProviderSound'
  <2> DEFINE q == [Provider!Idle EXCEPT !.step = "login", !.browser = b,
                                        !.session = store[b], !.user = u]
  <2>1. /\ q \in Provider!Request /\ q.step = "login" /\ q.browser = b
        /\ q.session = store[b] /\ q.user = u
    BY <1>2, NoVisit DEF Provider!Request
  <2>2. visit' = [visit EXCEPT ![r] = q]
    BY <1>4 DEF Provider!login
  <2> HIDE DEF q
  <2>3. /\ visit' \in [Requests -> Provider!Request] /\ visit'[r] = q
        /\ \A s \in Requests \ {r} : visit'[s] = visit[s]
    BY <2>1, <2>2 DEF ProviderSound, Provider!TypeOK
  <2>4. VisitSound(visit[r])'
    BY <2>1, <2>3 DEF VisitSound
  <2> QED
    BY <1>2, <2>1, <2>3, <2>4, VisitMoveKeeps
<1> QED
  BY <1>1, <1>3, <1>4

LEMMA ReadingKeeps ==
  ASSUME ProviderSound, Provider!MCNext, NEW r \in Requests,
         \/ \E i \in Ids, m \in Mails \cup {null} : Provider!profile(r, i, m)
         \/ Provider!findAccount(r) \/ Provider!findById(r)
         \/ Provider!findByEmail(r)
  PROVE  ProviderSound'
<1> DEFINE MovesOn ==
           /\ visit' \in [Requests -> Provider!Request]
           /\ visit'[r].session = visit[r].session /\ visit'[r].browser = visit[r].browser
           /\ visit'[r].step \in {"account", "byId", "byMail", "create", "link", "session"}
           /\ \A q \in Requests \ {r} : visit'[q] = visit[q]
           /\ VisitSound(visit[r])'
           /\ visit'[r].step = "link" => people[visit'[r].user].state = "alive"
<1>1. /\ UNCHANGED <<people, links, store, session>>
      /\ visit[r].step \in {"profile", "account", "byId", "byMail"}
      /\ visit[r] \in Provider!Request /\ VisitSound(visit[r])
  BY DEF Provider!profile, Provider!findAccount, Provider!findById,
     Provider!findByEmail, Provider!At, ProviderSound, Provider!TypeOK, LinksSound
<1>2. MovesOn
  <2>1. ASSUME NEW i \in Ids, NEW m \in Mails \cup {null}, Provider!profile(r, i, m)
        PROVE  MovesOn
    <3> DEFINE q == [visit[r] EXCEPT !.step = "account", !.id = i, !.mail = m]
    <3>1. /\ q \in Provider!Request /\ q.step = "account" /\ q.id = i
          /\ q.session = visit[r].session /\ q.browser = visit[r].browser
      BY <1>1 DEF Provider!Request
    <3>2. visit' = [visit EXCEPT ![r] = q] /\ visit[r].step = "profile"
      BY <2>1 DEF Provider!profile, Provider!At
    <3> HIDE DEF q
    <3>3. /\ visit' \in [Requests -> Provider!Request] /\ visit'[r] = q
          /\ \A s \in Requests \ {r} : visit'[s] = visit[s]
      BY <3>1, <3>2 DEF ProviderSound, Provider!TypeOK
    <3>4. VisitSound(visit[r])'
      BY <1>1, <3>1, <3>2, <3>3 DEF VisitSound
    <3> QED
      BY <3>1, <3>3, <3>4
  <2>2. CASE Provider!findAccount(r)
    <3> DEFINE account == links[visit[r].id]
               step == CASE account # null -> "byId"
                         [] account = null /\ visit[r].mail # null -> "byMail"
                         [] OTHER -> "create"
               q == [visit[r] EXCEPT !.step = step, !.user = account]
    <3>1. visit[r].step = "account" /\ visit[r].id \in Ids
      BY <1>1, <2>2 DEF Provider!findAccount, Provider!At, VisitSound
    <3>2. /\ account \in People \cup {null}
          /\ step \in {"byId", "byMail", "create"}
          /\ step = "byId" => account # null
          /\ step = "byMail" => visit[r].mail # null
      BY <3>1 DEF ProviderSound, Provider!TypeOK
    <3>3. visit' = [visit EXCEPT ![r] = q]
      BY <2>2 DEF Provider!findAccount
    <3> HIDE DEF step
    <3>4. /\ q \in Provider!Request /\ q.step = step /\ q.id = visit[r].id
          /\ q.user = account /\ q.mail = visit[r].mail
          /\ q.session = visit[r].session /\ q.browser = visit[r].browser
      BY <1>1, <3>2 DEF Provider!Request
    <3> HIDE DEF q
    <3>5. /\ visit' \in [Requests -> Provider!Request] /\ visit'[r] = q
          /\ \A s \in Requests \ {r} : visit'[s] = visit[s]
      BY <3>3, <3>4 DEF ProviderSound, Provider!TypeOK
    <3>6. VisitSound(visit[r])'
      BY <1>1, <3>1, <3>2, <3>4, <3>5 DEF VisitSound, Leads
    <3> QED
      BY <3>2, <3>4, <3>5, <3>6
  <2>3. CASE Provider!findById(r)
    <3>1. visit[r].step = "byId" /\ Provider!Goes(r, "session")
      BY <2>3 DEF Provider!findById, Provider!At
    <3>2. /\ visit' \in [Requests -> Provider!Request] /\ visit'[r].step = "session"
          /\ visit'[r].browser = visit[r].browser
          /\ visit'[r].session = visit[r].session /\ visit'[r].id = visit[r].id
          /\ visit'[r].user = visit[r].user
          /\ \A q \in Requests \ {r} : visit'[q] = visit[q]
      BY <3>1, VisitGoes DEF VisitSteps
    <3>3. VisitSound(visit[r])'
      BY <1>1, <3>1, <3>2 DEF VisitSound, Leads
    <3> QED
      BY <3>2, <3>3
  <2>4. CASE Provider!findByEmail(r)
    <3>1. visit[r].step = "byMail"
      BY <2>4 DEF Provider!findByEmail, Provider!At
    <3>2. CASE Provider!Goes(r, "create")
      <4>1. /\ visit' \in [Requests -> Provider!Request] /\ visit'[r].step = "create"
            /\ visit'[r].browser = visit[r].browser
            /\ visit'[r].session = visit[r].session /\ visit'[r].id = visit[r].id
            /\ \A q \in Requests \ {r} : visit'[q] = visit[q]
        BY <3>2, VisitGoes DEF VisitSteps
      <4>2. VisitSound(visit[r])'
        BY <1>1, <3>1, <4>1 DEF VisitSound
      <4> QED
        BY <4>1, <4>2
    <3>3. ASSUME NEW u \in Provider!WithMail(visit[r].mail),
                 visit' = [visit EXCEPT ![r].step = "link", ![r].user = u]
          PROVE  MovesOn
      <4> DEFINE q == [visit[r] EXCEPT !.step = "link", !.user = u]
      <4>1. u \in People /\ people[u].mail = visit[r].mail /\ visit[r].mail # null
        BY <1>1, <3>1 DEF Provider!WithMail, VisitSound
      <4>2. people[u].state = "alive"
        BY <4>1 DEF ProviderSound, LinksSound
      <4>3. /\ q \in Provider!Request /\ q.step = "link" /\ q.id = visit[r].id
            /\ q.user = u
            /\ q.session = visit[r].session /\ q.browser = visit[r].browser
        BY <1>1, <4>1 DEF Provider!Request
      <4>4. visit' = [visit EXCEPT ![r] = q]
        BY <3>3
      <4> HIDE DEF q
      <4>5. /\ visit' \in [Requests -> Provider!Request] /\ visit'[r] = q
            /\ \A s \in Requests \ {r} : visit'[s] = visit[s]
        BY <4>3, <4>4 DEF ProviderSound, Provider!TypeOK
      <4>6. VisitSound(visit[r])'
        BY <1>1, <3>1, <4>1, <4>3, <4>5 DEF VisitSound
      <4> QED
        BY <4>2, <4>3, <4>5, <4>6
    <3> QED
      BY <2>4, <3>2, <3>3 DEF Provider!findByEmail
  <2> QED
    BY <1>1, <2>1, <2>2, <2>3, <2>4
<1> QED
  BY <1>1, <1>2, VisitMoveKeeps

(* A request that saves its copy saves what it has loaded.                 *)
LEMMA SavingKeeps ==
  ASSUME ProviderSound, Provider!MCNext, NEW r \in Requests,
         Provider!connected(r) \/ Provider!fail(r)
  PROVE  ProviderSound'
<1>1. /\ visit[r].step # "idle" /\ UNCHANGED <<people, links, session>>
      /\ store' = [store EXCEPT ![visit[r].browser] = visit[r].session]
      /\ Provider!Ends(r) /\ visit[r] \in Provider!Request
  BY DEF Provider!connected, Provider!fail, Provider!At, Provider!EndsSaving,
     ProviderSound, Provider!TypeOK
<1>2. /\ visit' \in [Requests -> Provider!Request] /\ visit'[r].step = "idle"
      /\ \A q \in Requests \ {r} : visit'[q] = visit[q]
  BY <1>1, VisitEnds
<1>3. store' \in [Browsers -> Provider!Session] /\ visit[r].browser \in Browsers
  BY <1>1, VisitFields DEF ProviderSound, Provider!TypeOK, LinksSound, VisitSound
<1>4. Provider!TypeOK'
  BY <1>1, <1>2, <1>3 DEF ProviderSound, Provider!TypeOK
<1>5. VisitSound(visit[r])'
  BY <1>2 DEF VisitSound
<1>6. LinksSound'
  BY <1>1, <1>2, <1>5, LinksSoundKept DEF LinksKeep, ProviderSound, LinksSound
<1>7. ASSUME calm'
      PROVE  ProviderCalm'
  <2>1. /\ ProviderCalm /\ AloneThere(r)
        /\ \A q \in Requests : visit'[q].step = "idle"
    BY <1>1, <1>2, <1>7, AloneMoves
  <2>2. \A b \in Browsers : store'[b].user = store[b].user
    BY <1>1, <1>3, <2>1 DEF AloneThere, ProviderSound, Provider!TypeOK
  <2>3. \A b \in Browsers : store'[b].user = who'[b]
    BY <2>1, <2>2, SticksOn DEF ProviderCalm
  <2> QED
    BY <1>1, <2>1, <2>3 DEF ProviderCalm
<1> QED
  BY <1>4, <1>6, <1>7 DEF ProviderSound

LEMMA CreateUserKeeps ==
  ASSUME ProviderSound, Provider!MCNext, NEW r \in Requests, NEW u \in People,
         Provider!createUser(r, u)
  PROVE  ProviderSound'
<1> DEFINE q == [visit[r] EXCEPT !.step = "link", !.user = u]
           account == [state |-> "alive", mail |-> visit[r].mail]
<1>1. /\ visit[r].step = "create" /\ visit[r] \in Provider!Request
      /\ VisitSound(visit[r]) /\ people[u].state = "unborn"
      /\ UNCHANGED <<links, store, session>>
  BY DEF Provider!createUser, Provider!At, ProviderSound, Provider!TypeOK, LinksSound
<1>2. people' = [people EXCEPT ![u] = account] /\ visit' = [visit EXCEPT ![r] = q]
  BY DEF Provider!createUser
<1>3. /\ q \in Provider!Request /\ q.step = "link" /\ q.id = visit[r].id
      /\ q.user = u /\ q.session = visit[r].session /\ q.browser = visit[r].browser
  BY <1>1 DEF Provider!Request
<1>4. account \in Provider!User /\ account.state = "alive"
  BY <1>1 DEF Provider!Request, Provider!User
<1> HIDE DEF q, account
<1>5. /\ visit' \in [Requests -> Provider!Request] /\ visit'[r] = q
      /\ \A s \in Requests \ {r} : visit'[s] = visit[s]
      /\ people' \in [People -> Provider!User] /\ people'[u] = account
      /\ \A v \in People \ {u} : people'[v] = people[v]
  BY <1>2, <1>3, <1>4 DEF ProviderSound, Provider!TypeOK
<1>6. Provider!TypeOK'
  BY <1>1, <1>5 DEF ProviderSound, Provider!TypeOK
<1>7. VisitSound(visit[r])'
  BY <1>1, <1>3, <1>5 DEF VisitSound
<1>8. LinksKeep /\ \A v \in People : people'[v].mail # null => people'[v].state = "alive"
  BY <1>1, <1>4, <1>5 DEF LinksKeep, ProviderSound, LinksSound
<1>9. LinksSound'
  BY <1>1, <1>5, <1>7, <1>8, LinksSoundKept
<1>10. ASSUME calm'
       PROVE  ProviderCalm'
  <2>1. /\ ProviderCalm /\ AloneThere(r)
        /\ \A s \in Requests : s # r => visit'[s].step = "idle"
    BY <1>1, <1>5, <1>10, AloneMoves
  <2>2. AloneThere(r)'
    BY <1>1, <1>3, <1>4, <1>5, <2>1 DEF AloneThere
  <2>3. \A b \in Browsers : store'[b].user = who'[b]
    BY <1>1, <2>1, SticksOn DEF ProviderCalm
  <2>4. \A i \in Ids : links'[i] # null => people'[links'[i]].state = "alive"
    BY <1>1, <1>4, <1>5, <2>1 DEF ProviderCalm, ProviderSound, Provider!TypeOK
  <2> QED
    BY <2>1, <2>2, <2>3, <2>4 DEF ProviderCalm
<1> QED
  BY <1>6, <1>9, <1>10 DEF ProviderSound

LEMMA CreateAccountKeeps ==
  ASSUME ProviderSound, Provider!MCNext, NEW r \in Requests, Provider!createAccount(r)
  PROVE  ProviderSound'
<1>1. /\ visit[r].step = "link" /\ visit[r] \in Provider!Request
      /\ VisitSound(visit[r]) /\ visit[r].id \in Ids /\ visit[r].user \in People
      /\ links[visit[r].id] = null /\ Provider!Goes(r, "session")
      /\ links' = [links EXCEPT ![visit[r].id] = visit[r].user]
      /\ UNCHANGED <<people, store, session>>
  BY DEF Provider!createAccount, Provider!At, ProviderSound, Provider!TypeOK,
     LinksSound, VisitSound
<1>2. /\ visit' \in [Requests -> Provider!Request] /\ visit'[r].step = "session"
      /\ visit'[r].browser = visit[r].browser
      /\ visit'[r].session = visit[r].session /\ visit'[r].id = visit[r].id
      /\ visit'[r].user = visit[r].user
      /\ \A q \in Requests \ {r} : visit'[q] = visit[q]
  BY <1>1, VisitGoes DEF VisitSteps
<1>3. /\ links' \in [Ids -> People \cup {null}]
      /\ links'[visit[r].id] = visit[r].user
      /\ \A i \in Ids \ {visit[r].id} : links'[i] = links[i]
  BY <1>1 DEF ProviderSound, Provider!TypeOK
<1>4. Provider!TypeOK'
  BY <1>1, <1>2, <1>3 DEF ProviderSound, Provider!TypeOK
<1>5. VisitSound(visit[r])'
  BY <1>1, <1>2, <1>3 DEF VisitSound, Leads
<1>6. LinksKeep
  <2>1. null \notin People
    BY PartsAssumption DEF Provider!OAuthAssumption
  <2> QED
    BY <1>1, <1>3, <2>1 DEF LinksKeep
<1>7. LinksSound'
  BY <1>1, <1>2, <1>5, <1>6, LinksSoundKept DEF ProviderSound, LinksSound
<1>8. ASSUME calm'
      PROVE  ProviderCalm'
  <2>1. /\ ProviderCalm /\ AloneThere(r)
        /\ \A q \in Requests : q # r => visit'[q].step = "idle"
    BY <1>1, <1>2, <1>8, AloneMoves
  <2>2. AloneThere(r)'
    BY <1>1, <1>2, <2>1 DEF AloneThere
  <2>3. \A b \in Browsers : store'[b].user = who'[b]
    BY <1>1, <2>1, SticksOn DEF ProviderCalm
  <2>4. \A i \in Ids : links'[i] # null => people'[links'[i]].state = "alive"
    BY <1>1, <1>3, <2>1 DEF ProviderCalm, AloneThere
  <2> QED
    BY <2>1, <2>2, <2>3, <2>4 DEF ProviderCalm
<1> QED
  BY <1>4, <1>7, <1>8 DEF ProviderSound

LEMMA SaveSessionSound ==
  ASSUME ProviderSound, Provider!MCNext, NEW r \in Requests, Provider!saveSession(r)
  PROVE  ProviderSound'
<1>1. /\ visit[r].step \in {"session", "login"} /\ visit[r] \in Provider!Request
      /\ VisitSound(visit[r]) /\ Provider!Ends(r) /\ visit[r].user \in People
      /\ store' = [store EXCEPT ![visit[r].browser] =
                     [visit[r].session EXCEPT !.user = visit[r].user]]
      /\ session' = IF visit[r].step = "login" THEN session
                    ELSE [session EXCEPT ![visit[r].id] = visit[r].user]
      /\ UNCHANGED <<people, links>>
  BY DEF Provider!saveSession, Provider!At, ProviderSound, Provider!TypeOK,
     LinksSound, VisitSound, Leads
<1>2. /\ visit' \in [Requests -> Provider!Request] /\ visit'[r].step = "idle"
      /\ \A q \in Requests \ {r} : visit'[q] = visit[q]
  BY <1>1, VisitEnds
<1>3. [visit[r].session EXCEPT !.user = visit[r].user] \in Provider!Session
  BY <1>1, VisitFields, SessionFields
<1>4. Provider!TypeOK'
  BY <1>1, <1>2, <1>3 DEF ProviderSound, Provider!TypeOK
<1>5. \A i \in Ids : session'[i] = session[i] \/ Leads(i, session[i])'
  BY <1>1 DEF VisitSound, Leads, ProviderSound, Provider!TypeOK
<1>6. LinksSound'
  <2>1. VisitSound(visit[r])'
    BY <1>2 DEF VisitSound
  <2> QED
    BY <1>1, <1>2, <1>5, <2>1, LinksSoundKept DEF LinksKeep, ProviderSound, LinksSound
<1>7. ASSUME calm'
      PROVE  ProviderCalm'
  <2>1. /\ ProviderCalm
        /\ \A q \in Requests : visit'[q].step = "idle"
    BY <1>1, <1>2, <1>7, AloneMoves
  <2>2. ASSUME NEW b \in Browsers
        PROVE  store'[b].user = who'[b]
    <3>1. CASE b = visit[r].browser
      BY <2>1, <3>1, SticksOn DEF ProviderCalm, Provider!SignsIn
    <3>2. CASE b # visit[r].browser
      BY <1>1, <2>1, <3>2, SticksOn DEF ProviderCalm, ProviderSound, Provider!TypeOK
    <3> QED
      BY <3>1, <3>2
  <2> QED
    BY <1>1, <2>1, <2>2 DEF ProviderCalm
<1> QED
  BY <1>4, <1>6, <1>7 DEF ProviderSound

(* The links of an account go with it.                                     *)
LEMMA AnonymizeKeeps ==
  ASSUME ProviderSound, Provider!MCNext, NEW r \in Requests, Provider!anonymize(r)
  PROVE  ProviderSound'
<1> DEFINE u == visit[r].session.user
           account == [state |-> "deleted", mail |-> null]
<1>1. /\ visit[r].step = "deleting" /\ VisitSound(visit[r])
      /\ Provider!Goes(r, "destroying") /\ UNCHANGED <<store, session>>
      /\ links' = [i \in Ids |-> IF links[i] = u THEN null ELSE links[i]]
      /\ people' = [people EXCEPT ![u] = account]
  BY DEF Provider!anonymize, Provider!At, ProviderSound, LinksSound
<1>2. account \in Provider!User /\ account.mail = null /\ account.state = "deleted"
  BY DEF Provider!User
<1> HIDE DEF u, account
<1>3. /\ visit' \in [Requests -> Provider!Request] /\ visit'[r].step = "destroying"
      /\ visit'[r].browser = visit[r].browser
      /\ visit'[r].session = visit[r].session
      /\ \A q \in Requests \ {r} : visit'[q] = visit[q]
  BY <1>1, VisitGoes DEF VisitSteps
<1>4. /\ people' \in [People -> Provider!User] /\ links' \in [Ids -> People \cup {null}]
      /\ \A v \in People : people'[v] = IF v = u THEN account ELSE people[v]
  BY <1>1, <1>2 DEF ProviderSound, Provider!TypeOK
<1>5. Provider!TypeOK'
  BY <1>1, <1>3, <1>4 DEF ProviderSound, Provider!TypeOK
<1>6. VisitSound(visit[r])'
  BY <1>1, <1>3 DEF VisitSound
<1>7. LinksKeep /\ \A v \in People : people'[v].mail # null => people'[v].state = "alive"
  BY <1>1, <1>2, <1>4 DEF LinksKeep, ProviderSound, LinksSound
<1>8. LinksSound'
  BY <1>1, <1>3, <1>6, <1>7, LinksSoundKept
<1>9. ASSUME calm'
      PROVE  ProviderCalm'
  <2>1. /\ ProviderCalm /\ AloneThere(r)
        /\ \A q \in Requests : q # r => visit'[q].step = "idle"
    BY <1>1, <1>3, <1>9, AloneMoves
  <2>2. AloneThere(r)'
    BY <1>1, <1>3, <2>1 DEF AloneThere
  <2>3. \A b \in Browsers : store'[b].user = who'[b]
    BY <1>1, <2>1, SticksOn DEF ProviderCalm
  <2>4. \A i \in Ids : links'[i] # null => people'[links'[i]].state = "alive"
    BY <1>1, <1>4, <2>1 DEF ProviderCalm, ProviderSound, Provider!TypeOK
  <2> QED
    BY <2>1, <2>2, <2>3, <2>4 DEF ProviderCalm
<1> QED
  BY <1>5, <1>8, <1>9 DEF ProviderSound

LEMMA DestroyKeeps ==
  ASSUME ProviderSound, Provider!MCNext, NEW r \in Requests, Provider!destroy(r)
  PROVE  ProviderSound'
<1>1. /\ visit[r].step = "destroying" /\ Provider!Ends(r)
      /\ store' = [store EXCEPT ![visit[r].browser] = Provider!NoSession]
      /\ UNCHANGED <<people, links, session>>
  BY DEF Provider!destroy, Provider!At
<1>2. /\ visit' \in [Requests -> Provider!Request] /\ visit'[r].step = "idle"
      /\ \A q \in Requests \ {r} : visit'[q] = visit[q]
  BY <1>1, VisitEnds
<1>3. Provider!TypeOK'
  BY <1>1, <1>2, SessionFields DEF ProviderSound, Provider!TypeOK
<1>4. LinksSound'
  <2>1. VisitSound(visit[r])'
    BY <1>2 DEF VisitSound
  <2> QED
    BY <1>1, <1>2, <2>1, LinksSoundKept DEF LinksKeep, ProviderSound, LinksSound
<1>5. ASSUME calm'
      PROVE  ProviderCalm'
  <2>1. /\ ProviderCalm
        /\ \A q \in Requests : visit'[q].step = "idle"
    BY <1>1, <1>2, <1>5, AloneMoves
  <2>2. ASSUME NEW b \in Browsers
        PROVE  store'[b].user = who'[b]
    <3>1. CASE b = visit[r].browser
      BY <2>1, <3>1, SticksOn DEF ProviderCalm, Provider!SignsOut
    <3>2. CASE b # visit[r].browser
      BY <1>1, <2>1, <3>2, SticksOn DEF ProviderCalm, ProviderSound, Provider!TypeOK
    <3> QED
      BY <3>1, <3>2
  <2> QED
    BY <1>1, <2>1, <2>2 DEF ProviderCalm
<1> QED
  BY <1>3, <1>4, <1>5 DEF ProviderSound

(* Steps of no request.                                                    *)
LEMMA LogoutKeeps ==
  ASSUME ProviderSound, Provider!MCNext, NEW c \in Browsers, Provider!logout(c)
  PROVE  ProviderSound'
<1>1. /\ store' = [store EXCEPT ![c] = Provider!NoSession]
      /\ UNCHANGED <<people, links, visit, session>>
  BY DEF Provider!logout
<1>2. Provider!TypeOK'
  BY <1>1, SessionFields DEF ProviderSound, Provider!TypeOK
<1>3. LinksSound'
  BY <1>1 DEF ProviderSound, LinksSound, VisitSound, Leads
<1>4. ASSUME calm'
      PROVE  ProviderCalm'
  <2>1. ProviderCalm /\ \A q \in Requests : visit'[q].step = "idle"
    BY <1>1, <1>4 DEF Provider!MCNext, Provider!Quiet, Provider!At, ProviderSound
  <2>2. ASSUME NEW b \in Browsers
        PROVE  store'[b].user = who'[b]
    <3>1. CASE b = c
      BY <2>1, <3>1, SticksOn DEF ProviderCalm, Provider!SignsOut
    <3>2. CASE b # c
      BY <1>1, <2>1, <3>2, SticksOn DEF ProviderCalm, ProviderSound, Provider!TypeOK
    <3> QED
      BY <3>1, <3>2
  <2> QED
    BY <1>1, <2>1, <2>2 DEF ProviderCalm
<1> QED
  BY <1>2, <1>3, <1>4 DEF ProviderSound

LEMMA RegisterSound ==
  ASSUME ProviderSound, Provider!MCNext, NEW u \in People, NEW m \in Mails,
         Provider!register(u, m)
  PROVE  ProviderSound'
<1> DEFINE account == [state |-> "alive", mail |-> m]
<1>1. /\ people[u].state = "unborn" /\ UNCHANGED <<links, store, visit, session>>
      /\ people' = [people EXCEPT ![u] = account]
  BY DEF Provider!register
<1>2. account \in Provider!User /\ account.state = "alive"
  BY DEF Provider!User
<1> HIDE DEF account
<1>3. /\ people' \in [People -> Provider!User] /\ people'[u] = account
      /\ \A v \in People \ {u} : people'[v] = people[v]
  BY <1>1, <1>2 DEF ProviderSound, Provider!TypeOK
<1>4. Provider!TypeOK'
  BY <1>1, <1>3 DEF ProviderSound, Provider!TypeOK
<1>5. LinksSound'
  BY <1>1, <1>2, <1>3 DEF ProviderSound, LinksSound, VisitSound, Leads
<1>6. ASSUME calm'
      PROVE  ProviderCalm'
  <2>1. ProviderCalm
    BY <1>6 DEF Provider!MCNext, ProviderSound
  <2>2. \A b \in Browsers : store'[b].user = who'[b]
    BY <1>1, <2>1, SticksOn DEF ProviderCalm
  <2>3. \A v \in People : people[v].state = "alive" => people'[v].state = "alive"
    BY <1>2, <1>3
  <2>4. \A r \in Requests : visit'[r].step # "idle" => AloneThere(r)'
    BY <1>1, <2>1, <2>3 DEF ProviderCalm, AloneThere, ProviderSound, LinksSound,
       VisitSound
  <2>5. \A i \in Ids : links'[i] # null => people'[links'[i]].state = "alive"
    BY <1>1, <2>1, <2>3 DEF ProviderCalm, ProviderSound, Provider!TypeOK
  <2> QED
    BY <2>2, <2>4, <2>5 DEF ProviderCalm
<1> QED
  BY <1>4, <1>5, <1>6 DEF ProviderSound

LEMMA ProviderCrashKeeps ==
  ASSUME ProviderSound, Provider!MCNext, Provider!crash
  PROVE  ProviderSound'
<1>1. /\ visit' = [r \in Requests |-> Provider!Idle]
      /\ UNCHANGED <<people, links, store, session>>
  BY DEF Provider!crash
<1>2. visit' \in [Requests -> Provider!Request] /\ \A r \in Requests : visit'[r].step = "idle"
  BY <1>1, NoVisit
<1>3. Provider!TypeOK' /\ LinksSound'
  BY <1>1, <1>2 DEF ProviderSound, Provider!TypeOK, LinksSound, VisitSound, Leads
<1>4. ASSUME calm'
      PROVE  ProviderCalm'
  <2>1. ProviderCalm
    BY <1>4 DEF Provider!MCNext, ProviderSound
  <2>2. \A b \in Browsers : store'[b].user = who'[b]
    BY <1>1, <2>1, SticksOn DEF ProviderCalm
  <2> QED
    BY <1>1, <1>2, <2>1, <2>2 DEF ProviderCalm
<1> QED
  BY <1>3, <1>4 DEF ProviderSound

LEMMA ProviderStep == ProviderSound /\ Provider!MCNext => ProviderSound'
<1> SUFFICES ASSUME ProviderSound, Provider!MCNext
             PROVE  ProviderSound'
  OBVIOUS
<1>1. ASSUME NEW r \in Requests, Provider!Step(r)
      PROVE  ProviderSound'
  BY <1>1, ReadingKeeps, SavingKeeps, CreateUserKeeps, CreateAccountKeeps,
     SaveSessionSound, AnonymizeKeeps, DestroyKeeps DEF Provider!Step
<1> QED
  BY <1>1, VisitBeginKeeps, LogoutKeeps, RegisterSound, ProviderCrashKeeps
     DEF Provider!MCNext, Provider!Next

LEMMA ProviderInit == Provider!MCInit => ProviderSound
<1> SUFFICES ASSUME Provider!MCInit
             PROVE  ProviderSound
  OBVIOUS
<1>1. /\ people = [u \in People |-> [state |-> "unborn", mail |-> null]]
      /\ links = [i \in Ids |-> null] /\ session = [i \in Ids |-> null]
      /\ store = [b \in Browsers |-> Provider!NoSession]
      /\ visit = [r \in Requests |-> Provider!Idle]
      /\ who = [b \in Browsers |-> null]
  BY DEF Provider!MCInit, Provider!Init
<1>2. Provider!TypeOK
  BY <1>1, NoVisit, SessionFields DEF Provider!TypeOK, Provider!User
<1>3. LinksSound
  BY <1>1, NoVisit DEF LinksSound, VisitSound
<1>4. ProviderCalm
  BY <1>1, NoVisit, SessionFields DEF ProviderCalm
<1> QED
  BY <1>2, <1>3, <1>4 DEF ProviderSound

-----------------------------------------------------------------------------
(* The profile.  A request that brings an avatar has uploaded it: the file *)
(* is in S3, it is nobody else's and nobody is about to delete it.         *)

Brings(r) == edit[r].step \in {"uploaded", "replacing", "saving"}

UploadsSound ==
  \A r \in Requests : Brings(r) =>
    /\ edit[r].arg \in files
    /\ edit[r].arg # row.picture
    /\ \A q \in Requests :
         /\ q # r /\ Brings(q) => edit[q].arg # edit[r].arg
         /\ edit[q].step \in {"replacing", "deleting"} => edit[q].old # edit[r].arg

(* Whoever has deleted the account's picture is about to write another.    *)
PictureSound ==
  \/ mishap
  \/ row.picture \in files \cup {external, null}
  \/ \E r \in Requests : edit[r].step \in {"saving", "anonymizing"}

FormsSound ==
  \A r \in Requests :
    edit[r].step = "updating" => edit[r].arg \in Person!Type \cup {null}

Ours == {row.picture} \cap Files

(* One request at a time: what it has read is so, and S3 holds what the    *)
(* request has left there so far.                                          *)
Alone(r) ==
  /\ \A q \in Requests : q # r => edit[q].step = "idle"
  /\ ~row.deleted
  /\ edit[r].step = "updating" => edit[r].old = row.type
  /\ edit[r].step \in {"replacing", "deleting"} => edit[r].old = row.picture

FilesOf(r) ==
  CASE edit[r].step \in {"uploaded", "replacing"} -> Ours \cup {edit[r].arg}
    [] edit[r].step = "saving"                    -> {edit[r].arg}
    [] edit[r].step = "anonymizing"               -> {}
    [] OTHER                                      -> Ours

PersonCalm ==
  /\ row.business \in {row.type, null}
  /\ row.deleted => row.picture = null
  /\ \A r \in Requests : edit[r].step # "idle" => Alone(r)
  /\ mishap \/
       /\ (\A r \in Requests : edit[r].step = "idle") => files = Ours
       /\ \A r \in Requests : edit[r].step # "idle" => files = FilesOf(r)

PersonSound ==
  /\ Person!TypeOK /\ FormsSound /\ UploadsSound /\ PictureSound
  /\ calm => PersonCalm

-----------------------------------------------------------------------------
(* Steps of the profile's requests.                                        *)

LEMMA EditTypes ==
  ASSUME NEW step \in {"idle", "updating", "verifying", "uploaded", "replacing",
                       "saving", "deleting", "anonymizing"},
         NEW arg \in Person!Type \cup Person!Picture,
         NEW old \in Person!Type \cup Person!Picture
  PROVE  [step |-> step, arg |-> arg, old |-> old] \in Person!Request
BY DEF Person!Request

LEMMA EditEnds ==
  ASSUME PersonSound, NEW r \in Requests, Person!Ends(r)
  PROVE  /\ edit' \in [Requests -> Person!Request] /\ edit'[r].step = "idle"
         /\ \A q \in Requests \ {r} : edit'[q] = edit[q]
<1>1. Person!Idle \in Person!Request /\ Person!Idle.step = "idle"
  BY EditTypes DEF Person!Idle, Person!Picture
<1> QED
  BY <1>1 DEF PersonSound, Person!TypeOK, Person!Ends

LEMMA EditStarts ==
  ASSUME PersonSound, NEW r \in Requests,
         NEW step \in {"updating", "verifying", "uploaded", "deleting"},
         NEW arg \in Person!Type \cup Person!Picture,
         NEW old \in Person!Type \cup Person!Picture,
         Person!Start(r, step, arg, old)
  PROVE  /\ edit' \in [Requests -> Person!Request]
         /\ edit[r].step = "idle" /\ ~row.deleted
         /\ edit'[r].step = step /\ edit'[r].arg = arg /\ edit'[r].old = old
         /\ \A q \in Requests \ {r} : edit'[q] = edit[q]
BY EditTypes DEF PersonSound, Person!TypeOK, Person!Start

LEMMA EditGoes ==
  ASSUME PersonSound, NEW r \in Requests,
         NEW step \in {"replacing", "saving", "anonymizing"},
         NEW old \in Person!Type \cup Person!Picture, Person!Goes(r, step, old)
  PROVE  /\ edit' \in [Requests -> Person!Request]
         /\ edit'[r].step = step /\ edit'[r].arg = edit[r].arg
         /\ edit'[r].old = old
         /\ \A q \in Requests \ {r} : edit'[q] = edit[q]
BY DEF PersonSound, Person!TypeOK, Person!Goes, Person!Request

(* A request that begins while all is calm finds no other under way.       *)
LEMMA BeginsAlone ==
  ASSUME Person!MCNext, calm', NEW r \in Requests, edit[r].step = "idle",
         edit'[r].step # "idle"
  PROVE  calm /\ \A q \in Requests : edit[q].step = "idle"
BY DEF Person!MCNext, Person!Begins, Person!Quiet, Person!At

(* Steps that change no file and no picture.                               *)
LEMMA StartKeeps ==
  ASSUME PersonSound, Person!MCNext, NEW r \in Requests,
         NEW step \in {"updating", "verifying", "deleting"},
         NEW arg \in Person!Type \cup Person!Picture,
         NEW old \in Person!Type \cup Person!Picture,
         Person!Start(r, step, arg, old), UNCHANGED <<row, files>>,
         step = "updating" => arg \in Person!Type \cup {null} /\ old = row.type,
         step = "deleting" => old = row.picture
  PROVE  PersonSound'
<1>1. /\ edit' \in [Requests -> Person!Request]
      /\ edit[r].step = "idle" /\ ~row.deleted
      /\ edit'[r].step = step /\ edit'[r].arg = arg /\ edit'[r].old = old
      /\ \A q \in Requests \ {r} : edit'[q] = edit[q]
  BY EditStarts
<1>2. mishap => mishap'
  BY DEF Person!MCNext
<1>3. Person!TypeOK' /\ FormsSound'
  BY <1>1 DEF PersonSound, Person!TypeOK, FormsSound
<1>4. UploadsSound' /\ PictureSound'
  BY <1>1, <1>2 DEF PersonSound, UploadsSound, Brings, PictureSound
<1>5. ASSUME calm'
      PROVE  PersonCalm'
  <2>1. calm /\ \A q \in Requests : edit[q].step = "idle"
    BY <1>1, <1>5, BeginsAlone
  <2>2. PersonCalm
    BY <2>1 DEF PersonSound
  <2>3. Alone(r)'
    BY <1>1, <2>1 DEF Alone
  <2>4. \A q \in Requests : edit'[q].step # "idle" => q = r
    BY <1>1, <2>1
  <2>5. mishap' \/ files' = FilesOf(r)'
    BY <1>1, <1>2, <2>1, <2>2 DEF PersonCalm, FilesOf, Ours
  <2> QED
    BY <1>1, <2>2, <2>3, <2>4, <2>5 DEF PersonCalm
<1> QED
  BY <1>3, <1>4, <1>5 DEF PersonSound

(* The request that ends was the only one, if all is calm.                 *)
LEMMA EndsAlone ==
  ASSUME PersonSound, Person!MCNext, NEW r \in Requests, edit[r].step # "idle",
         calm', \A q \in Requests \ {r} : edit'[q] = edit[q]
  PROVE  /\ calm /\ PersonCalm /\ Alone(r)
         /\ \A q \in Requests : q # r => edit[q].step = "idle" /\ edit'[q].step = "idle"
         /\ mishap \/ files = FilesOf(r)
BY DEF PersonSound, PersonCalm, Person!MCNext, Alone

(* Type of seller and verified name.                                       *)
LEMMA TypeWritesKeep ==
  ASSUME PersonSound, Person!MCNext, NEW r \in Requests,
         Person!updateWrite(r) \/ \E t \in Person!Verifiable : Person!verified(r, t)
  PROVE  PersonSound'
<1>1. /\ edit[r].step \in {"updating", "verifying"} /\ Person!Ends(r)
      /\ files' = files /\ row \in Person!Row
  BY DEF Person!updateWrite, Person!verified, Person!At, PersonSound, Person!TypeOK
<1>2. /\ edit' \in [Requests -> Person!Request] /\ edit'[r].step = "idle"
      /\ \A q \in Requests \ {r} : edit'[q] = edit[q]
  BY <1>1, EditEnds
<1>3. mishap => mishap'
  BY DEF Person!MCNext
<1>4. /\ row' \in Person!Row /\ row'.picture = row.picture
      /\ row'.deleted = row.deleted
      /\ calm' => row'.business \in {row'.type, null}
  <2>1. CASE Person!updateWrite(r)
    <3>1. edit[r].arg \in Person!Type \cup {null} /\ edit[r].step = "updating"
      BY <2>1 DEF PersonSound, FormsSound, Person!updateWrite, Person!At
    <3>2. /\ row' \in Person!Row /\ row'.picture = row.picture
          /\ row'.deleted = row.deleted
      BY <1>1, <2>1, <3>1 DEF Person!updateWrite, Person!Row
    <3>3. calm' => row.business \in {row.type, null} /\ edit[r].old = row.type
      BY <1>1, <1>2, <3>1, EndsAlone DEF PersonCalm, Alone
    <3>4. calm' => row'.business \in {row'.type, null}
      BY <1>1, <2>1, <3>1, <3>3 DEF Person!updateWrite, Person!Row
    <3> QED
      BY <3>2, <3>4
  <2>2. CASE \E t \in Person!Verifiable : Person!verified(r, t)
    BY <1>1, <2>2 DEF Person!verified, Person!Row, Person!Verifiable, Person!Type
  <2> QED
    BY <2>1, <2>2
<1>5. Person!TypeOK' /\ FormsSound'
  BY <1>1, <1>2, <1>4 DEF PersonSound, Person!TypeOK, FormsSound
<1>6. UploadsSound' /\ PictureSound'
  BY <1>1, <1>2, <1>3, <1>4 DEF PersonSound, UploadsSound, Brings, PictureSound
<1>7. ASSUME calm'
      PROVE  PersonCalm'
  <2>1. /\ PersonCalm /\ Alone(r)
        /\ mishap \/ files = FilesOf(r)
        /\ \A q \in Requests : edit'[q].step = "idle"
    BY <1>1, <1>2, <1>7, EndsAlone
  <2>2. mishap' \/ files' = Ours'
    BY <1>1, <1>3, <1>4, <2>1 DEF FilesOf, Ours
  <2> QED
    BY <1>4, <1>7, <2>1, <2>2 DEF PersonCalm
<1> QED
  BY <1>5, <1>6, <1>7 DEF PersonSound

(* A new file, under a name that nobody has to do with.                    *)
LEMMA UploadKeeps ==
  ASSUME PersonSound, Person!MCNext, NEW r \in Requests, NEW f \in Files,
         Person!upload(r, f)
  PROVE  PersonSound'
<1>1. /\ f \notin files \cup {row.picture} /\ files' = files \cup {f} /\ row' = row
      /\ \A q \in Requests : f \notin {edit[q].arg, edit[q].old}
      /\ Person!Start(r, "uploaded", f, null)
      /\ f \in Person!Picture /\ null \in Person!Picture
  BY DEF Person!upload, Person!Picture
<1>2. /\ edit' \in [Requests -> Person!Request]
      /\ edit[r].step = "idle" /\ ~row.deleted
      /\ edit'[r].step = "uploaded" /\ edit'[r].arg = f
      /\ \A q \in Requests \ {r} : edit'[q] = edit[q]
  BY <1>1, EditStarts
<1>3. mishap => mishap'
  BY DEF Person!MCNext
<1>4. Person!TypeOK' /\ FormsSound'
  BY <1>1, <1>2 DEF PersonSound, Person!TypeOK, FormsSound
<1>5. UploadsSound'
  BY <1>1, <1>2 DEF PersonSound, UploadsSound, Brings
<1>6. PictureSound'
  BY <1>1, <1>2, <1>3 DEF PersonSound, PictureSound
<1>7. ASSUME calm'
      PROVE  PersonCalm'
  <2>1. calm /\ \A q \in Requests : edit[q].step = "idle"
    BY <1>2, <1>7, BeginsAlone
  <2>2. PersonCalm
    BY <2>1 DEF PersonSound
  <2>3. Alone(r)'
    BY <1>1, <1>2, <2>1 DEF Alone
  <2>4. \A q \in Requests : edit'[q].step # "idle" => q = r
    BY <1>2, <2>1
  <2>5. mishap' \/ files' = FilesOf(r)'
    BY <1>1, <1>2, <1>3, <2>1, <2>2 DEF PersonCalm, FilesOf, Ours
  <2> QED
    BY <1>1, <1>2, <2>2, <2>3, <2>4, <2>5 DEF PersonCalm
<1> QED
  BY <1>4, <1>5, <1>6, <1>7 DEF PersonSound

(* The picture that is read is not one that a request has brought.         *)
LEMMA UpdateAvatarKeeps ==
  ASSUME PersonSound, Person!MCNext, NEW r \in Requests, Person!updateAvatar(r)
  PROVE  PersonSound'
<1>1. /\ edit[r].step = "uploaded" /\ UNCHANGED <<row, files>>
      /\ Person!Goes(r, "replacing", row.picture) /\ row.picture \in Person!Picture
  BY DEF Person!updateAvatar, Person!At, PersonSound, Person!TypeOK, Person!Row
<1>2. /\ edit' \in [Requests -> Person!Request] /\ edit'[r].step = "replacing"
      /\ edit'[r].arg = edit[r].arg /\ edit'[r].old = row.picture
      /\ \A q \in Requests \ {r} : edit'[q] = edit[q]
  BY <1>1, EditGoes
<1>3. mishap => mishap'
  BY DEF Person!MCNext
<1>4. Person!TypeOK' /\ FormsSound'
  BY <1>1, <1>2 DEF PersonSound, Person!TypeOK, FormsSound
<1>5. UploadsSound' /\ PictureSound'
  BY <1>1, <1>2, <1>3 DEF PersonSound, UploadsSound, Brings, PictureSound
<1>6. ASSUME calm'
      PROVE  PersonCalm'
  <2>1. /\ PersonCalm /\ Alone(r)
        /\ mishap \/ files = FilesOf(r)
        /\ \A q \in Requests : q # r => edit'[q].step = "idle"
    BY <1>1, <1>2, <1>6, EndsAlone
  <2>2. Alone(r)'
    BY <1>1, <1>2, <2>1 DEF Alone
  <2>3. mishap' \/ files' = FilesOf(r)'
    BY <1>1, <1>2, <1>3, <2>1 DEF FilesOf, Ours
  <2> QED
    BY <1>1, <1>2, <2>1, <2>2, <2>3 DEF PersonCalm
<1> QED
  BY <1>4, <1>5, <1>6 DEF PersonSound

(* What is deleted was the picture once and is nobody's upload.            *)
LEMMA FileDeletionKeeps ==
  ASSUME PersonSound, Person!MCNext, NEW r \in Requests,
         Person!deleteOld(r) \/ Person!deleteFileByUrl(r)
  PROVE  PersonSound'
<1> DEFINE step == IF edit[r].step = "replacing" THEN "saving" ELSE "anonymizing"
<1>1. /\ edit[r].step \in {"replacing", "deleting"} /\ row' = row
      /\ files' = files \ {edit[r].old} /\ Person!Goes(r, step, null)
      /\ null \in Person!Picture /\ step \in {"saving", "anonymizing"}
      /\ step = "saving" <=> edit[r].step = "replacing"
  BY DEF Person!deleteOld, Person!deleteFileByUrl, Person!At, Person!Picture
<1> HIDE DEF step
<1>2. /\ edit' \in [Requests -> Person!Request] /\ edit'[r].step = step
      /\ edit'[r].arg = edit[r].arg
      /\ \A q \in Requests \ {r} : edit'[q] = edit[q]
  BY <1>1, EditGoes
<1>3. mishap => mishap'
  BY DEF Person!MCNext
<1>4. Person!TypeOK' /\ FormsSound'
  BY <1>1, <1>2 DEF PersonSound, Person!TypeOK, FormsSound
<1>5. UploadsSound'
  BY <1>1, <1>2 DEF PersonSound, UploadsSound, Brings
<1>6. PictureSound'
  BY <1>1, <1>2 DEF PictureSound
<1>7. ASSUME calm'
      PROVE  PersonCalm'
  <2>1. /\ PersonCalm /\ Alone(r)
        /\ mishap \/ files = FilesOf(r)
        /\ \A q \in Requests : q # r => edit'[q].step = "idle"
    BY <1>1, <1>2, <1>7, EndsAlone
  <2>2. Alone(r)'
    BY <1>1, <1>2, <2>1 DEF Alone
  <2>3. Brings(r) => edit[r].arg # row.picture
    BY DEF PersonSound, UploadsSound
  <2>4. mishap' \/ files' = FilesOf(r)'
    BY <1>1, <1>2, <1>3, <2>1, <2>3 DEF FilesOf, Ours, Alone, Brings,
       PersonSound, Person!TypeOK
  <2> QED
    BY <1>1, <1>2, <2>1, <2>2, <2>4 DEF PersonCalm
<1> QED
  BY <1>4, <1>5, <1>6, <1>7 DEF PersonSound

(* The row is written last: the new picture is there, or there is none.    *)
LEMMA PictureWritesKeep ==
  ASSUME PersonSound, Person!MCNext, NEW r \in Requests,
         Person!savePicture(r) \/ Person!anonymize(r)
  PROVE  PersonSound'
<1>1. /\ edit[r].step \in {"saving", "anonymizing"} /\ Person!Ends(r)
      /\ files' = files /\ row \in Person!Row /\ files \subseteq Files
  BY DEF Person!savePicture, Person!anonymize, Person!At, PersonSound, Person!TypeOK
<1>2. /\ edit' \in [Requests -> Person!Request] /\ edit'[r].step = "idle"
      /\ \A q \in Requests \ {r} : edit'[q] = edit[q]
  BY <1>1, EditEnds
<1>3. mishap => mishap'
  BY DEF Person!MCNext
<1>4. edit[r].step = "saving" => edit[r].arg \in files
  BY DEF PersonSound, UploadsSound, Brings
<1>5. /\ row' \in Person!Row /\ row'.type = row.type /\ row'.business = row.business
      /\ edit[r].step = "saving" =>
           row'.picture = edit[r].arg /\ row'.deleted = row.deleted
      /\ edit[r].step = "anonymizing" => row'.picture = null
  BY <1>1, <1>4 DEF Person!savePicture, Person!anonymize, Person!At, Person!Row,
     Person!Picture
<1>6. Person!TypeOK' /\ FormsSound'
  BY <1>1, <1>2, <1>5 DEF PersonSound, Person!TypeOK, FormsSound
<1>7. UploadsSound'
  <2>1. null \notin files
    BY <1>1, PartsAssumption DEF Person!ProfileAssumption
  <2> QED
    BY <1>1, <1>2, <1>5, <2>1 DEF PersonSound, UploadsSound, Brings
<1>8. PictureSound'
  BY <1>1, <1>4, <1>5 DEF PictureSound
<1>9. ASSUME calm'
      PROVE  PersonCalm'
  <2>1. /\ PersonCalm /\ Alone(r)
        /\ mishap \/ files = FilesOf(r)
        /\ \A q \in Requests : edit'[q].step = "idle"
    BY <1>1, <1>2, <1>9, EndsAlone
  <2>2. mishap' \/ files' = Ours'
    <3>1. null \notin Files
      BY PartsAssumption DEF Person!ProfileAssumption
    <3>2. CASE edit[r].step = "saving"
      BY <1>1, <1>3, <1>4, <1>5, <2>1, <3>2 DEF FilesOf, Ours
    <3>3. CASE edit[r].step = "anonymizing"
      BY <1>1, <1>3, <1>5, <2>1, <3>1, <3>3 DEF FilesOf, Ours
    <3> QED
      BY <1>1, <3>2, <3>3
  <2>3. row'.deleted => row'.picture = null
    BY <1>1, <1>5, <2>1 DEF Alone
  <2> QED
    BY <1>5, <2>1, <2>2, <2>3 DEF PersonCalm
<1> QED
  BY <1>6, <1>7, <1>8, <1>9 DEF PersonSound

(* A request that breaks off half-way is a mishap; before that it has done *)
(* nothing.                                                                *)
LEMMA FailKeeps ==
  ASSUME PersonSound, Person!MCNext, NEW r \in Requests, Person!fail(r)
  PROVE  PersonSound'
<1>1. edit[r].step # "idle" /\ Person!Ends(r) /\ UNCHANGED <<row, files>>
  BY DEF Person!fail, Person!At
<1>2. /\ edit' \in [Requests -> Person!Request] /\ edit'[r].step = "idle"
      /\ \A q \in Requests \ {r} : edit'[q] = edit[q]
  BY <1>1, EditEnds
<1>3. /\ mishap => mishap'
      /\ edit[r].step \in {"uploaded", "replacing", "saving", "anonymizing"} => mishap'
  BY DEF Person!MCNext, Person!Mishap, Person!HalfWay
<1>4. Person!TypeOK' /\ FormsSound'
  BY <1>1, <1>2 DEF PersonSound, Person!TypeOK, FormsSound
<1>5. UploadsSound' /\ PictureSound'
  BY <1>1, <1>2, <1>3 DEF PersonSound, UploadsSound, Brings, PictureSound
<1>6. ASSUME calm'
      PROVE  PersonCalm'
  <2>1. /\ PersonCalm
        /\ mishap \/ files = FilesOf(r)
        /\ \A q \in Requests : edit'[q].step = "idle"
    BY <1>1, <1>2, <1>6, EndsAlone
  <2>2. mishap' \/ files' = Ours'
    BY <1>1, <1>3, <2>1 DEF FilesOf, Ours
  <2> QED
    BY <1>1, <2>1, <2>2 DEF PersonCalm
<1> QED
  BY <1>4, <1>5, <1>6 DEF PersonSound

LEMMA DeleteOldFailsKeeps ==
  ASSUME PersonSound, Person!MCNext, NEW r \in Requests, Person!deleteOldFails(r)
  PROVE  PersonSound'
<1>1. /\ edit[r].step = "replacing" /\ Person!Goes(r, "saving", null)
      /\ UNCHANGED <<row, files>> /\ null \in Person!Picture
  BY DEF Person!deleteOldFails, Person!At, Person!Picture
<1>2. /\ edit' \in [Requests -> Person!Request] /\ edit'[r].step = "saving"
      /\ edit'[r].arg = edit[r].arg
      /\ \A q \in Requests \ {r} : edit'[q] = edit[q]
  BY <1>1, EditGoes
<1>3. mishap'
  BY <1>1 DEF Person!MCNext, Person!Mishap, Person!HalfWay
<1>4. Person!TypeOK' /\ FormsSound'
  BY <1>1, <1>2 DEF PersonSound, Person!TypeOK, FormsSound
<1>5. UploadsSound' /\ PictureSound'
  BY <1>1, <1>2, <1>3 DEF PersonSound, UploadsSound, Brings, PictureSound
<1>6. ASSUME calm'
      PROVE  PersonCalm'
  <2>1. /\ PersonCalm /\ Alone(r)
        /\ \A q \in Requests : q # r => edit'[q].step = "idle"
    BY <1>1, <1>2, <1>6, EndsAlone
  <2>2. Alone(r)'
    BY <1>1, <1>2, <2>1 DEF Alone
  <2> QED
    BY <1>1, <1>2, <1>3, <2>1, <2>2 DEF PersonCalm
<1> QED
  BY <1>4, <1>5, <1>6 DEF PersonSound

LEMMA CrashKeeps ==
  ASSUME PersonSound, Person!MCNext, Person!crash
  PROVE  PersonSound'
<1>1. /\ Person!Idle \in Person!Request /\ Person!Idle.step = "idle"
      /\ edit' = [q \in Requests |-> Person!Idle] /\ UNCHANGED <<row, files>>
  BY EditTypes DEF Person!Idle, Person!Picture, Person!crash
<1>2. edit' \in [Requests -> Person!Request] /\ \A q \in Requests : edit'[q].step = "idle"
  BY <1>1
<1>3. /\ mishap => mishap'
      /\ \A q \in Requests :
           edit[q].step \in {"uploaded", "replacing", "saving", "anonymizing"} => mishap'
  BY DEF Person!MCNext, Person!Mishap, Person!HalfWay
<1>4. Person!TypeOK' /\ FormsSound' /\ UploadsSound'
  BY <1>1, <1>2 DEF PersonSound, Person!TypeOK, FormsSound, UploadsSound, Brings
<1>5. PictureSound'
  BY <1>1, <1>3 DEF PersonSound, PictureSound
<1>6. ASSUME calm'
      PROVE  PersonCalm'
  <2>1. calm /\ PersonCalm
    BY <1>6 DEF Person!MCNext, PersonSound
  <2>2. mishap' \/ files' = Ours'
    <3>1. PICK r \in Requests : edit[r].step # "idle"
      BY DEF Person!crash, Person!At
    <3>2. mishap \/ files = FilesOf(r)
      BY <2>1, <3>1 DEF PersonCalm
    <3> QED
      BY <1>1, <1>3, <3>1, <3>2 DEF FilesOf, Ours
  <2> QED
    BY <1>1, <1>2, <2>1, <2>2 DEF PersonCalm
<1> QED
  BY <1>4, <1>5, <1>6 DEF PersonSound

LEMMA PersonStep == PersonSound /\ Person!MCNext => PersonSound'
<1> SUFFICES ASSUME PersonSound, Person!MCNext
             PROVE  PersonSound'
  OBVIOUS
<1>1. /\ null \in Person!Picture /\ row.picture \in Person!Picture
      /\ row.type \in Person!Type
  BY DEF Person!Picture, PersonSound, Person!TypeOK, Person!Row
<1>2. ASSUME NEW r \in Requests, Person!Step(r)
      PROVE  PersonSound'
  <2>1. ASSUME NEW t \in Person!Type \cup {null}, Person!update(r, t)
        PROVE  PersonSound'
    BY <1>1, <2>1, StartKeeps DEF Person!update
  <2>2. CASE Person!verifyBusiness(r)
    BY <1>1, <2>2, StartKeeps DEF Person!verifyBusiness
  <2>3. CASE Person!deleteAccount(r)
    BY <1>1, <2>3, StartKeeps DEF Person!deleteAccount
  <2> QED
    BY <1>2, <2>1, <2>2, <2>3, TypeWritesKeep, UploadKeeps, UpdateAvatarKeeps,
       FileDeletionKeeps, PictureWritesKeep DEF Person!Step
<1> QED
  BY <1>2, DeleteOldFailsKeeps, FailKeeps, CrashKeeps DEF Person!MCNext, Person!Next

LEMMA PersonInit == Person!MCInit => PersonSound
<1> SUFFICES ASSUME Person!MCInit
             PROVE  PersonSound
  OBVIOUS
<1>1. /\ row \in Person!Row /\ row.business = null /\ ~row.deleted /\ files = {}
      /\ row.picture \in {external, null}
      /\ edit = [q \in Requests |-> Person!Idle]
  BY DEF Person!MCInit, Person!Init, Person!Row, Person!Type, Person!Picture
<1>2. Person!Idle \in Person!Request /\ Person!Idle.step = "idle"
  BY EditTypes DEF Person!Idle, Person!Picture
<1>3. {external, null} \cap Files = {}
  BY PartsAssumption DEF Person!ProfileAssumption
<1>4. Person!TypeOK /\ FormsSound /\ UploadsSound /\ PictureSound
  BY <1>1, <1>2 DEF Person!TypeOK, FormsSound, UploadsSound, Brings, PictureSound
<1>5. PersonCalm
  BY <1>1, <1>2, <1>3 DEF PersonCalm, Ours
<1> QED
  BY <1>4, <1>5 DEF PersonSound

-----------------------------------------------------------------------------
(* Favorites, reports and notifications.                                   *)

(* All that a deleted account may have left.                               *)
LeftOver ==
  /\ favorites = {}
  /\ \A n \in Notices \ late : notices[n] \in {"none", "gone"}

MarksCalm ==
  /\ \A r, q \in Requests : r # q => mark[r].step = "idle" \/ mark[q].step = "idle"
  /\ \A r \in Requests : mark[r].step \notin {"idle", "rejecting"} => ~deleted
  /\ \A r \in Requests : mark[r].step = "committing" => Marks!Theirs \subseteq mark[r].seen
  /\ deleted => LeftOver

MarksSound == Marks!TypeOK /\ (calm => MarksCalm)

-----------------------------------------------------------------------------
(* Steps of favorites, reports and notifications.                          *)

MarkSteps == {"idle", "adding", "removing", "reporting", "rejecting",
              "marking", "markingAll", "deleting", "committing"}

LEMMA MarkTypes ==
  ASSUME NEW step \in MarkSteps, NEW arg \in Ads \cup Notices \cup {null},
         NEW seen \in SUBSET (Ads \cup Notices)
  PROVE  [step |-> step, arg |-> arg, seen |-> seen] \in Marks!Request
BY DEF MarkSteps, Marks!Request

LEMMA MarkStarts ==
  ASSUME MarksSound, Marks!MCNext, NEW r \in Requests,
         NEW step \in MarkSteps \ {"idle", "committing"},
         NEW arg \in Ads \cup Notices \cup {null}, Marks!Accept(r, step, arg),
         step # "rejecting" => ~deleted
  PROVE  MarksSound'
<1>1. UNCHANGED <<ads, favorites, reports, notices, deleted>>
  BY DEF Marks!Accept, Marks!rows
<1>2. /\ mark' \in [Requests -> Marks!Request] /\ mark[r].step = "idle"
      /\ mark'[r].step = step /\ \A q \in Requests \ {r} : mark'[q] = mark[q]
  BY MarkTypes DEF MarksSound, Marks!TypeOK, Marks!Accept, MarkSteps
<1>0. late \subseteq late'
  BY DEF Marks!MCNext
<1>3. Marks!TypeOK'
  BY <1>1, <1>2 DEF MarksSound, Marks!TypeOK
<1>4. ASSUME calm'
      PROVE  MarksCalm'
  <2>1. calm /\ \A q \in Requests : mark[q].step = "idle"
    BY <1>2, <1>4 DEF Marks!MCNext, Marks!Begins, Marks!Quiet, MarkSteps
  <2> QED
    BY <1>0, <1>1, <1>2, <2>1 DEF MarksSound, MarksCalm, LeftOver, MarkSteps
<1> QED
  BY <1>3, <1>4 DEF MarksSound

LEMMA MarkEnds ==
  ASSUME MarksSound, NEW r \in Requests, NEW step, Marks!Ends(r, step)
  PROVE  /\ mark' \in [Requests -> Marks!Request] /\ mark'[r].step = "idle"
         /\ mark[r].step = step
         /\ \A q \in Requests \ {r} : mark'[q] = mark[q]
<1>1. Marks!Idle \in Marks!Request /\ Marks!Idle.step = "idle"
  BY MarkTypes DEF Marks!Idle, MarkSteps
<1> QED
  BY <1>1 DEF MarksSound, Marks!TypeOK, Marks!Ends

LEMMA MarkCalmEnds ==
  ASSUME MarksSound, Marks!MCNext, NEW r \in Requests,
         mark[r].step \notin {"idle", "committing"}, mark'[r].step = "idle",
         \A q \in Requests \ {r} : mark'[q] = mark[q], deleted' = deleted, calm',
         mark[r].step = "rejecting" =>
           /\ favorites' = favorites
           /\ \A n \in Notices : notices[n] = "none" \/ notices'[n] = notices[n]
  PROVE  MarksCalm'
<1>1. calm /\ MarksCalm
  BY DEF MarksSound, Marks!MCNext
<1>2. ASSUME deleted PROVE LeftOver'
  <2>1. mark[r].step = "rejecting" /\ LeftOver
    BY <1>1, <1>2 DEF MarksCalm
  <2>2. ASSUME NEW n \in Notices \ late' PROVE notices'[n] \in {"none", "gone"}
    <3>1. n \in Notices \ late
      BY DEF Marks!MCNext
    <3>2. notices[n] = "none" => notices'[n] = "none"
      BY <1>2, <2>2 DEF Marks!MCNext
    <3> QED
      BY <2>1, <3>1, <3>2 DEF LeftOver
  <2> QED
    BY <2>1, <2>2 DEF LeftOver
<1> QED
  BY <1>1, <1>2 DEF MarksCalm

LEMMA FavoritesKeep ==
  ASSUME MarksSound, Marks!MCNext, NEW r \in Requests,
         Marks!createFavorite(r) \/ Marks!deleteFavorite(r)
  PROVE  MarksSound'
<1>1. /\ mark[r].step \in {"adding", "removing"} /\ mark'[r].step = "idle"
      /\ mark' \in [Requests -> Marks!Request]
      /\ \A q \in Requests \ {r} : mark'[q] = mark[q]
  BY MarkEnds DEF Marks!createFavorite, Marks!deleteFavorite
<1>2. /\ favorites' \subseteq Ads /\ UNCHANGED <<ads, reports, notices, deleted>>
  BY DEF Marks!createFavorite, Marks!deleteFavorite, MarksSound, Marks!TypeOK
<1> QED
  BY <1>1, <1>2, MarkCalmEnds DEF MarksSound, Marks!TypeOK

LEMMA InsertReportKeeps ==
  ASSUME MarksSound, Marks!MCNext, NEW r \in Requests, Marks!insertReport(r)
  PROVE  MarksSound'
<1>1. /\ mark[r].step = "reporting" /\ mark'[r].step = "idle"
      /\ mark' \in [Requests -> Marks!Request]
      /\ \A q \in Requests \ {r} : mark'[q] = mark[q]
  BY MarkEnds DEF Marks!insertReport
<1>2. /\ reports' \in [Ads -> Marks!AdReportStatus \cup {"none"}]
      /\ UNCHANGED <<ads, favorites, notices, deleted>>
  BY DEF Marks!insertReport, MarksSound, Marks!TypeOK, Marks!AdReportStatus
<1> QED
  BY <1>1, <1>2, MarkCalmEnds DEF MarksSound, Marks!TypeOK

LEMMA NoticesKeep ==
  ASSUME MarksSound, Marks!MCNext, NEW r \in Requests,
         \/ \E n \in Notices : Marks!notifyAdRejected(r, n)
         \/ Marks!setRead(r) \/ Marks!setAllRead(r)
  PROVE  MarksSound'
<1>1. /\ mark[r].step \in {"rejecting", "marking", "markingAll"}
      /\ mark'[r].step = "idle" /\ mark' \in [Requests -> Marks!Request]
      /\ \A q \in Requests \ {r} : mark'[q] = mark[q]
  BY MarkEnds DEF Marks!notifyAdRejected, Marks!setRead, Marks!setAllRead
<1>3. mark[r].step = "rejecting" =>
        \A n \in Notices : notices[n] = "none" \/ notices'[n] = notices[n]
  BY DEF Marks!notifyAdRejected, Marks!setRead, Marks!setAllRead, Marks!Ends,
     MarksSound, Marks!TypeOK
<1>2. /\ notices' \in [Notices -> Marks!NoticeState]
      /\ UNCHANGED <<ads, favorites, reports, deleted>>
  BY DEF Marks!notifyAdRejected, Marks!setRead, Marks!setAllRead, MarksSound,
     Marks!TypeOK, Marks!NoticeState
<1> QED
  BY <1>1, <1>2, <1>3, MarkCalmEnds DEF MarksSound, Marks!TypeOK

LEMMA MarkFailKeeps ==
  ASSUME MarksSound, Marks!MCNext, NEW r \in Requests, Marks!fail(r)
  PROVE  MarksSound'
<1>1. /\ mark[r].step # "idle" /\ mark'[r].step = "idle"
      /\ mark' \in [Requests -> Marks!Request]
      /\ \A q \in Requests \ {r} : mark'[q] = mark[q]
  BY MarkEnds DEF Marks!fail, Marks!Ends
<1>2. UNCHANGED <<ads, favorites, reports, notices, deleted>>
  BY DEF Marks!fail, Marks!rows
<1>3. Marks!TypeOK'
  BY <1>1, <1>2 DEF MarksSound, Marks!TypeOK
<1>4. late \subseteq late' /\ (calm' => calm)
  BY DEF Marks!MCNext
<1>5. ASSUME calm' PROVE MarksCalm'
  <2>1. MarksCalm
    BY <1>4, <1>5 DEF MarksSound
  <2>2. LeftOver => LeftOver'
    BY <1>2, <1>4 DEF LeftOver
  <2>3. Marks!Theirs' = Marks!Theirs
    BY <1>2 DEF Marks!Theirs
  <2> QED
    BY <1>1, <1>2, <2>1, <2>2, <2>3 DEF MarksCalm
<1> QED
  BY <1>3, <1>5 DEF MarksSound

(* What the statements have found is all there is until the commit, unless *)
(* an ad goes in between.                                                  *)
LEMMA DeleteRowsKeeps ==
  ASSUME MarksSound, Marks!MCNext, NEW r \in Requests, Marks!deleteRows(r)
  PROVE  MarksSound'
<1>1. UNCHANGED <<ads, favorites, reports, notices, deleted>>
  BY DEF Marks!deleteRows, Marks!rows
<1>2. Marks!Theirs \subseteq Ads \cup Notices /\ Marks!Theirs' = Marks!Theirs
  BY <1>1 DEF Marks!Theirs, MarksSound, Marks!TypeOK
<1>3. /\ mark' \in [Requests -> Marks!Request] /\ mark[r].step = "deleting"
      /\ mark'[r].step = "committing" /\ mark'[r].seen = Marks!Theirs
      /\ \A q \in Requests \ {r} : mark'[q] = mark[q]
  BY <1>2 DEF Marks!deleteRows, MarksSound, Marks!TypeOK, Marks!Request
<1> QED
  BY <1>1, <1>2, <1>3 DEF MarksSound, Marks!TypeOK, MarksCalm, LeftOver, Marks!MCNext

LEMMA CommitKeeps ==
  ASSUME MarksSound, Marks!MCNext, NEW r \in Requests, Marks!commit(r)
  PROVE  MarksSound'
<1> DEFINE seen == mark[r].seen
<1>1. /\ mark' \in [Requests -> Marks!Request] /\ mark[r].step = "committing"
      /\ mark'[r].step = "idle" /\ \A q \in Requests \ {r} : mark'[q] = mark[q]
  BY MarkEnds DEF Marks!commit
<1>2. /\ favorites' = favorites \ seen /\ deleted' /\ UNCHANGED <<ads, reports>>
      /\ notices' = [n \in Notices |-> IF n \in seen THEN "gone" ELSE notices[n]]
  BY DEF Marks!commit
<1>3. notices' \in [Notices -> Marks!NoticeState]
  BY <1>2 DEF MarksSound, Marks!TypeOK, Marks!NoticeState
<1>4. Marks!TypeOK'
  BY <1>1, <1>2, <1>3 DEF MarksSound, Marks!TypeOK
<1>5. ASSUME calm'
      PROVE  MarksCalm'
  <2>1. MarksCalm /\ Marks!Theirs \subseteq seen
    BY <1>1, <1>5 DEF MarksSound, MarksCalm, Marks!MCNext
  <2>2. favorites' = {} /\ \A n \in Notices : notices'[n] \in {"none", "gone"}
    BY <1>2, <2>1 DEF Marks!Theirs, MarksSound, Marks!TypeOK, Marks!NoticeState
  <2>3. \A q \in Requests : mark'[q].step = "idle"
    BY <1>1, <2>1 DEF MarksCalm
  <2> QED
    BY <2>2, <2>3 DEF MarksCalm, LeftOver
<1> QED
  BY <1>4, <1>5 DEF MarksSound

(* An ad that goes takes the favorites and reports of it along.            *)
LEMMA OutsideKeeps ==
  ASSUME MarksSound, Marks!MCNext,
         \/ \E a \in Ads : Marks!removeAd(a)
         \/ \E a \in Ads, status \in Marks!AdReportStatus : Marks!updateStatus(a, status)
  PROVE  MarksSound'
<1>1. /\ UNCHANGED <<notices, deleted, mark>>
      /\ ads' \subseteq ads /\ favorites' \subseteq favorites /\ late \subseteq late'
      /\ reports' \in [Ads -> Marks!AdReportStatus \cup {"none"}]
  BY DEF Marks!removeAd, Marks!updateStatus, MarksSound, Marks!TypeOK, Marks!MCNext
<1>2. Marks!Theirs' \subseteq Marks!Theirs
  BY <1>1 DEF Marks!Theirs
<1> QED
  BY <1>1, <1>2 DEF MarksSound, Marks!TypeOK, MarksCalm, LeftOver, Marks!MCNext

LEMMA MarksStep == MarksSound /\ Marks!MCNext => MarksSound'
<1> SUFFICES ASSUME MarksSound, Marks!MCNext
             PROVE  MarksSound'
  OBVIOUS
<1>1. ASSUME NEW r \in Requests, Marks!Step(r)
      PROVE  MarksSound'
  <2>1. ASSUME NEW a \in Ads, \/ Marks!addFavorite(r, a) \/ Marks!removeFavorite(r, a)
                              \/ Marks!createReport(r, a) \/ Marks!reject(r, a)
        PROVE  MarksSound'
    BY <2>1, MarkStarts DEF MarkSteps, Marks!addFavorite, Marks!removeFavorite,
       Marks!createReport, Marks!reject, Marks!Start
  <2>2. ASSUME NEW n \in Notices, Marks!markAsRead(r, n)
        PROVE  MarksSound'
    BY <2>2, MarkStarts DEF MarkSteps, Marks!markAsRead, Marks!Start
  <2>3. CASE Marks!markAllAsRead(r) \/ Marks!deleteAccount(r)
    BY <2>3, MarkStarts DEF MarkSteps, Marks!markAllAsRead, Marks!deleteAccount,
       Marks!Start
  <2> QED
    BY <1>1, <2>1, <2>2, <2>3, FavoritesKeep, InsertReportKeeps, NoticesKeep,
       MarkFailKeeps, DeleteRowsKeeps, CommitKeeps DEF Marks!Step
<1> QED
  BY <1>1, OutsideKeeps DEF Marks!MCNext, Marks!Next

LEMMA MarksInit == Marks!MCInit => MarksSound
<1> SUFFICES ASSUME Marks!MCInit
             PROVE  MarksSound
  OBVIOUS
<1>1. Marks!Idle \in Marks!Request /\ Marks!Idle.step = "idle"
  BY MarkTypes DEF Marks!Idle, MarkSteps
<1>2. /\ ads = Ads /\ favorites = {} /\ ~deleted /\ deleted \in BOOLEAN
      /\ reports = [a \in Ads |-> "none"] /\ notices = [n \in Notices |-> "none"]
      /\ mark = [r \in Requests |-> Marks!Idle]
  BY DEF Marks!MCInit, Marks!Init
<1>3. Marks!TypeOK
  BY <1>1, <1>2 DEF Marks!TypeOK, Marks!NoticeState
<1>4. MarksCalm
  BY <1>1, <1>2 DEF MarksCalm
<1> QED
  BY <1>3, <1>4 DEF MarksSound

-----------------------------------------------------------------------------
(* The theorems.                                                           *)

LEMMA NextKeepsIInv == IInv /\ [Next]_vars => IInv'
<1> SUFFICES ASSUME IInv, [Next]_vars
             PROVE  IInv'
  OBVIOUS
<1>1. ASSUME NEW r \in Requests, NEW u \in Users, Start(r, u)
      PROVE  IInv'
  BY <1>1, LoginKeeps, DeleteAccountKeeps, RegisterKeeps, NewAccountKeeps,
     ResetPasswordKeeps, AccountReadKeeps DEF Start
<1>2. ASSUME NEW r \in Requests, HandlerStep(r)
      PROVE  IInv'
  BY <1>2, FindTokenKeeps, DeleteTokenKeeps, CreateTokenKeeps, ValidateKeeps,
     FindUserKeeps, VerifyKeeps, SetVerifiedKeeps, SettingKeeps, ConsumeKeeps, SaveSessionKeeps,
     FindByEmailKeeps, DeleteManyKeeps, ChangeKeeps DEF HandlerStep
<1>3. ASSUME NEW r \in Requests, Fail(r)
      PROVE  IInv'
  BY <1>3, IdleKeeps DEF Fail, history
<1>4. ASSUME UNCHANGED vars
      PROVE  IInv'
  BY <1>4 DEF vars, IInv, TypeOK, TokenFacts, UserFacts, VerifiedWasProven,
              Exclusive, Knows, Exists
<1> QED
  BY <1>1, <1>2, <1>3, <1>4, LinkKeeps, TimeoutKeeps DEF Next

(* IInv holds in every reachable state, for any number of accounts,        *)
(* addresses, tokens and requests handled at once.                         *)
THEOREM InductiveInvariant == Spec => []IInv
BY InitIInv, NextKeepsIInv, PTL DEF Spec

(* Type correctness (links, codes and the requests that handle them).      *)
THEOREM TypeCorrect == Spec => []TypeOK
BY InductiveInvariant, PTL DEF IInv

(* A link or a code opens one session at most, however many requests have  *)
(* found it (newVirification, login with a second factor).                 *)
THEOREM CodesOpenOneSession == Spec => []CodeOpensOneSession
<1>1. IInv => CodeOpensOneSession
  BY DEF IInv, TypeOK, TokenFacts, CodeOpensOneSession
<1> QED
  BY <1>1, InductiveInvariant, PTL

(* A verified account's address is one somebody has followed a link from,  *)
(* or the one it had when a call or its provider verified it, however      *)
(* registrations, calls, changes and deletions overlap.                    *)
THEOREM VerifiedAddressesProven == Spec => []VerifiedWasProven
BY InductiveInvariant, PTL DEF IInv

-----------------------------------------------------------------------------
(* The theorems about all four parts.                                      *)

(* What a reachable state is like, whichever part the behaviour is of.     *)
PartsSound ==
  /\ IInv
  /\ part = "mails" => (calm => MailsCalm)
  /\ part = "provider" => ProviderSound
  /\ part = "profile" => PersonSound
  /\ part = "marks" => MarksSound

provided == <<part, calm, vars, provider, profile, marks>>

(* The step of one part leaves the others as they are.                     *)
LEMMA VarsKeepIInv == IInv /\ UNCHANGED vars => IInv'
BY DEF vars, IInv, TypeOK, TokenFacts, UserFacts, VerifiedWasProven, Exclusive,
   Knows, Exists

LEMMA MailsStutter == MailsCalm /\ UNCHANGED vars => MailsCalm'
BY DEF vars, MailsCalm, OneLive, Anonymous, ChangesAlive, KnowsAlone, Live

LEMMA ProviderStutter ==
  ProviderSound /\ UNCHANGED <<calm, provider>> => ProviderSound'
BY DEF provider, ProviderSound, Provider!TypeOK, LinksSound, VisitSound, Leads,
   ProviderCalm, AloneThere

LEMMA PersonStutter ==
  PersonSound /\ UNCHANGED <<calm, profile>> => PersonSound'
BY DEF profile, PersonSound, Person!TypeOK, FormsSound, UploadsSound, Brings,
   PictureSound, PersonCalm, Alone, FilesOf, Ours

LEMMA MarksStutter ==
  MarksSound /\ UNCHANGED <<calm, marks>> => MarksSound'
BY DEF marks, MarksSound, Marks!TypeOK, MarksCalm, LeftOver, Marks!Theirs

(* PartsSound holds in every reachable state, for any number of accounts,  *)
(* addresses, tokens, identities, browsers, avatars, ads, notifications    *)
(* and requests handled at once.                                           *)
THEOREM PartsInvariant == MCSpec => []PartsSound
<1>1. MCInit => PartsSound
  BY InitIInv, MailInit, ProviderInit, PersonInit, MarksInit DEF MCInit, PartsSound
<1>2. PartsSound /\ [MCNext]_provided => PartsSound'
  <2> SUFFICES ASSUME PartsSound, [MCNext]_provided
               PROVE  PartsSound'
    OBVIOUS
  <2>1. CASE part = "mails" /\ MailNext /\ part' = part
    <3>1. IInv'
      BY <2>1, NextKeepsIInv DEF PartsSound, MailNext
    <3>2. calm' => MailsCalm'
      BY <2>1, MailStep DEF PartsSound, MailNext
    <3> QED
      BY <2>1, <3>1, <3>2 DEF PartsSound
  <2>2. CASE part = "provider" /\ Provider!MCNext /\ UNCHANGED <<part, vars>>
    BY <2>2, VarsKeepIInv, ProviderStep DEF PartsSound
  <2>3. CASE part = "profile" /\ Person!MCNext /\ UNCHANGED <<part, vars>>
    BY <2>3, VarsKeepIInv, PersonStep DEF PartsSound
  <2>4. CASE part = "marks" /\ Marks!MCNext /\ UNCHANGED <<part, vars>>
    BY <2>4, VarsKeepIInv, MarksStep DEF PartsSound
  <2>5. CASE UNCHANGED provided
    BY <2>5, VarsKeepIInv, MailsStutter, ProviderStutter, PersonStutter, MarksStutter
       DEF PartsSound, provided
  <2> QED
    BY <2>1, <2>2, <2>3, <2>4, <2>5 DEF MCNext, MailNext
<1> QED
  BY <1>1, <1>2, PTL DEF MCSpec, provided

(* Type correctness of all four parts.                                     *)
THEOREM TypesHold == MCSpec => []TypesOK
<1>1. PartsSound => TypesOK
  BY DEF PartsSound, IInv, ProviderSound, PersonSound, MarksSound, TypesOK
<1> QED
  BY <1>1, PartsInvariant, PTL

LEMMA AtMostOne ==
  ASSUME NEW S, \A x, y \in S : x = y
  PROVE  Cardinality(S) <= 1
<1>1. CASE S = {}
  BY <1>1, FS_EmptySet
<1>2. CASE S # {}
  <2>1. PICK x : S = {x}
    BY <1>2
  <2> QED
    BY <2>1, FS_Singleton
<1> QED
  BY <1>1, <1>2

(* As long as requests come one by one, any of which may fail half-way,    *)
(* the last mail is the one that works, a deleted account is anonymous for *)
(* good and no identity leads to it, a verified name fits the type of      *)
(* seller, no avatar is lost and nothing is left of the favorites and      *)
(* notifications that an account had when it was deleted.                  *)
THEOREM OneByOneIsOrderly == MCSpec => []AccountsOneByOne
<1>1. PartsSound => AccountsOneByOne
  <2> SUFFICES ASSUME PartsSound
               PROVE  AccountsOneByOne
    OBVIOUS
  <2>1. part = "mails" => OneTokenPerAddress /\ AnonymousForGood
    <3> SUFFICES ASSUME calm, MailsCalm
                 PROVE  OneTokenPerAddress /\ AnonymousForGood
      BY DEF PartsSound, OneTokenPerAddress, AnonymousForGood
    <3>1. ASSUME NEW type \in TokenType \ {"EMAIL_CHANGE"}, NEW e \in Emails
          PROVE  Cardinality(Live(type, e)) <= 1
      <4>1. \A s, t \in Live(type, e) : s = t
        BY DEF MailsCalm, OneLive, Live
      <4> QED
        BY <4>1, AtMostOne
    <3>2. AnonymousForGood
      BY DEF MailsCalm, Anonymous, AnonymousForGood
    <3> QED
      BY <3>1, <3>2 DEF OneTokenPerAddress
  <2>2. part = "provider" => Provider!LinksAreAlive
    BY DEF PartsSound, ProviderSound, ProviderCalm, Provider!LinksAreAlive
  <2>3. part = "profile" => Person!NameFitsType /\ Person!NoLostAvatars
    BY DEF PartsSound, PersonSound, PersonCalm, Person!NameFitsType,
       Person!NoLostAvatars, Person!Quiet, Person!At, Ours
  <2>4. part = "marks" => Marks!DeletedKeepsNothing
    BY DEF PartsSound, MarksSound, MarksCalm, LeftOver, Marks!DeletedKeepsNothing
  <2> QED
    BY <2>1, <2>2, <2>3, <2>4 DEF AccountsOneByOne
<1> QED
  BY <1>1, PartsInvariant, PTL

(* As long as requests come one by one a browser is signed in to the       *)
(* account it has signed in to last (connect, callback, saveSession).      *)
THEOREM SignInsStick == MCSpec => []SignInSticks
<1>1. PartsSound => SignInSticks
  BY DEF PartsSound, ProviderSound, ProviderCalm, SignInSticks, Provider!SignInSticks
<1> QED
  BY <1>1, PartsInvariant, PTL

(* Once no request is under way and none has broken off half-way, an       *)
(* account's picture is there in S3, however the requests overlapped.      *)
THEOREM PicturesExist == MCSpec => []PictureExists
<1>1. PartsSound => PictureExists
  BY DEF PartsSound, PersonSound, PictureSound, PictureExists, Person!PictureExists,
     Person!Quiet, Person!At
<1> QED
  BY <1>1, PartsInvariant, PTL

(* Whoever signs in with an identity comes to the same account again as    *)
(* long as that account is not deleted, whatever overlaps and breaks off.  *)
THEOREM SameAccountAlways == MCSpec => SameAccountAgain
<1>1. PartsSound /\ [MCNext]_provided =>
        [\A i \in Ids :
           /\ session[i] # null /\ session'[i] # session[i]
           /\ people[session'[i]].state = "alive"
           => people[session[i]].state = "deleted"]_provider
  <2> SUFFICES ASSUME PartsSound, [MCNext]_provided, ~UNCHANGED provider,
                      NEW i \in Ids, session[i] # null, session'[i] # session[i],
                      people[session'[i]].state = "alive"
               PROVE  people[session[i]].state = "deleted"
    OBVIOUS
  <2>1. ProviderSound /\ Provider!MCNext
    BY DEF PartsSound, MCNext, provided
  <2>2. PICK r \in Requests : Provider!saveSession(r)
    BY <2>1 DEF Provider!MCNext, Provider!Next, Provider!Begin, Provider!Step,
       Provider!connect, Provider!callback, Provider!login, Provider!deleteAccount,
       Provider!connected, Provider!profile, Provider!findAccount, Provider!findById,
       Provider!findByEmail, Provider!createUser, Provider!createAccount,
       Provider!anonymize, Provider!destroy, Provider!fail, Provider!logout,
       Provider!register, Provider!crash
  <2>3. /\ visit[r].step = "session" /\ visit[r].id = i
        /\ session'[i] = visit[r].user
    BY <2>1, <2>2 DEF Provider!saveSession, Provider!At, ProviderSound, Provider!TypeOK
  <2>4. Leads(i, visit[r].user) /\ Leads(i, session[i])
    BY <2>1, <2>3 DEF ProviderSound, LinksSound, VisitSound
  <2> QED
    BY <2>3, <2>4 DEF Leads
<1> QED
  BY <1>1, PartsInvariant, PTL DEF MCSpec, SameAccountAgain, provided
=============================================================================
