-------------------------- MODULE PhoneSignUpProofs ---------------------------
(* What holds of signing up by telephone for any number of accounts,       *)
(* numbers, calls and requests handled at once.                            *)
EXTENDS MCPhoneSignUp, TLAPS

-----------------------------------------------------------------------------
(* The inductive invariant.                                                *)

(* A call is from a number; a code is told after the call, and gone once   *)
(* it has opened its session.                                              *)
TokenFacts ==
  \A t \in Tokens :
    /\ tokens[t].state # "unborn" => tokens[t].phone \in Numbers
    /\ tokens[t].told => tokens[t].called
    /\ tokens[t].called => tokens[t].state # "unborn"
    /\ opened[t] # 0 => opened[t] = 1 /\ tokens[t].state = "gone"

(* Numbers are of accounts that are there.                                 *)
OwnerFacts ==
  \A p \in Numbers : owner[p] # null => users[owner[p]].state = "alive"

HasToken == {"expire", "status", "findOwner", "verify", "consume", "session"}

(* The code a request has been given was called for from its number.       *)
Proven(q) ==
  /\ q.token \in Tokens /\ tokens[q.token].state # "unborn"
  /\ tokens[q.token].phone = q.phone /\ tokens[q.token].called

(* What a request knows, wherever it stands, stays true.                   *)
Knows(q) ==
  /\ q.step \in {"deleteTokens", "findUser", "createToken", "createUser",
                 "findOwner", "verify"} => q.phone \in Numbers
  /\ q.step \in HasToken =>
       q.token \in Tokens /\ tokens[q.token].state # "unborn"
  /\ q.step = "createUser" => q.token = null \/ Proven(q)
  /\ q.step \in {"findOwner", "verify"} => Proven(q)
  /\ q.step = "verify" =>
       /\ q.user \in Users /\ users[q.user].state # "unborn"
       /\ users[q.user].state = "alive" => owner[q.phone] = q.user
  /\ q.step = "session" =>
       tokens[q.token].state = "gone" /\ opened[q.token] = 0

(* No two requests open a session with the same code.                      *)
Exclusive ==
  \A r, s \in Requests :
    r # s /\ req[r].step = "session" /\ req[s].step = "session" =>
      req[r].token # req[s].token

IInv ==
  /\ TypeOK /\ TokenFacts /\ OwnerFacts /\ VerifiedByCall /\ Exclusive
  /\ \A r \in Requests : Knows(req[r])

-----------------------------------------------------------------------------

LEMMA InitIInv == Init => IInv
<1> SUFFICES ASSUME Init
             PROVE  IInv
  OBVIOUS
<1> USE DEF Init
<1>1. Idle \in Request /\ Idle.step = "idle"
  BY DEF Idle, At, Request
<1>2. /\ Unborn \in Token /\ Unborn.state = "unborn"
      /\ ~Unborn.told /\ ~Unborn.called
  <2> DEFINE base == Issued(null, null)
  <2>1. base \in Token /\ ~base.told /\ ~base.called
    BY DEF Issued, Token
  <2>2. Unborn = [base EXCEPT !.state = "unborn"]
    BY DEF Unborn
  <2> HIDE DEF base
  <2> QED
    BY <2>1, <2>2 DEF Token
<1>3. TypeOK
  BY <1>1, <1>2 DEF TypeOK, User, Account
<1>4. TokenFacts /\ OwnerFacts /\ VerifiedByCall
  BY <1>2 DEF TokenFacts, OwnerFacts, VerifiedByCall, Account
<1>5. Exclusive /\ \A r \in Requests : Knows(req[r])
  BY <1>1 DEF Exclusive, Knows, HasToken
<1> QED
  BY <1>3, <1>4, <1>5 DEF IInv

-----------------------------------------------------------------------------
(* What a step keeps.                                                      *)

(* A code is what it was, or further on.                                   *)
TokensKeep ==
  \A t \in Tokens :
    /\ tokens[t].state # "unborn" =>
         /\ tokens'[t].state # "unborn" /\ tokens'[t].phone = tokens[t].phone
         /\ tokens[t].called => tokens'[t].called
    /\ tokens[t].state = "gone" => tokens'[t].state = "gone"

(* An account is what it was, or further on, and keeps its number.         *)
AccountsKeep ==
  /\ \A u \in Users : users[u].state # "unborn" =>
       /\ users'[u].state # "unborn"
       /\ users'[u].state = "alive" =>
            /\ users[u].state = "alive"
            /\ \A p \in Numbers : owner[p] = u => owner'[p] = u

LEMMA OthersKeep ==
  ASSUME IInv, TokensKeep, AccountsKeep,
         NEW s \in Requests, req'[s] = req[s],
         req[s].step = "session" => opened'[req[s].token] = opened[req[s].token]
  PROVE  Knows(req[s])'
<1>1. Knows(req[s])
  BY DEF IInv
<1> QED
  BY <1>1 DEF Knows, HasToken, Proven, TokensKeep, AccountsKeep

(* A request moves without opening a session or writing the accounts.      *)
LEMMA MoveKeeps ==
  ASSUME IInv, UNCHANGED <<users, owner, opened>>,
         TokensKeep, TokenFacts', tokens' \in [Tokens -> Token],
         NEW r \in Requests, req' \in [Requests -> Request],
         \A s \in Requests \ {r} : req'[s] = req[s],
         Knows(req[r])',
         req'[r].step = "session" =>
           \A s \in Requests \ {r} : req[s].step = "session" =>
             req[s].token # req'[r].token
  PROVE  IInv'
<1>1. TypeOK'
  BY DEF IInv, TypeOK
<1>2. AccountsKeep /\ OwnerFacts'
  BY DEF AccountsKeep, IInv, OwnerFacts
<1>3. VerifiedByCall'
  BY DEF IInv, VerifiedByCall, Called, TokensKeep, TokenFacts
<1>4. Exclusive'
  BY DEF IInv, Exclusive
<1>5. \A s \in Requests : Knows(req[s])'
  BY <1>2, OthersKeep
<1> QED
  BY <1>1, <1>2, <1>3, <1>4, <1>5 DEF IInv

-----------------------------------------------------------------------------
(* Steps that write nothing but codes.                                     *)

(* One code is replaced by one further on.                                 *)
LEMMA TokenKeeps ==
  ASSUME IInv, NEW t \in Tokens, NEW token \in Token,
         tokens' = [tokens EXCEPT ![t] = token], opened' = opened,
         token.phone \in Numbers, token.told => token.called,
         token.state # "unborn",
         tokens[t].state # "unborn" =>
           /\ token.phone = tokens[t].phone
           /\ tokens[t].called => token.called,
         tokens[t].state = "gone" => token.state = "gone"
  PROVE  TokensKeep /\ TokenFacts' /\ tokens' \in [Tokens -> Token]
BY DEF IInv, TypeOK, TokenFacts, TokensKeep

LEMMA SameTokens ==
  ASSUME IInv, UNCHANGED <<tokens, opened>>
  PROVE  TokensKeep /\ TokenFacts' /\ tokens' \in [Tokens -> Token]
BY DEF IInv, TypeOK, TokenFacts, TokensKeep

LEMMA DeleteKeeps ==
  ASSUME IInv, NEW t \in Tokens, tokens[t].state # "unborn",
         Delete(t), opened' = opened
  PROVE  /\ TokensKeep /\ TokenFacts' /\ tokens' \in [Tokens -> Token]
         /\ tokens'[t].state = "gone"
<1> DEFINE token == [tokens[t] EXCEPT !.state = "gone"]
<1>1. tokens[t] \in Token /\ tokens \in [Tokens -> Token]
  BY DEF IInv, TypeOK
<1>2. /\ token \in Token /\ token.state = "gone"
      /\ token.phone = tokens[t].phone /\ token.called = tokens[t].called
      /\ token.told = tokens[t].told
  BY <1>1 DEF Token
<1>3. tokens' = [tokens EXCEPT ![t] = token]
  BY DEF Delete
<1> HIDE DEF token
<1>4. token.phone \in Numbers /\ (token.told => token.called)
  BY <1>2 DEF IInv, TokenFacts
<1> QED
  BY <1>1, <1>2, <1>3, <1>4, TokenKeeps

(* The live codes of a number, or of an account, are deleted.              *)
LEMMA DeleteManyKeeps ==
  ASSUME IInv, opened' = opened, NEW S \in SUBSET Tokens,
         tokens' = [t \in Tokens |->
           IF t \in S THEN [tokens[t] EXCEPT !.state = "gone"] ELSE tokens[t]],
         \A t \in S : tokens[t].state = "live"
  PROVE  TokensKeep /\ TokenFacts' /\ tokens' \in [Tokens -> Token]
<1>1. ASSUME NEW t \in Tokens
      PROVE  /\ tokens'[t] \in Token
             /\ \/ tokens'[t].state = tokens[t].state
                \/ tokens'[t].state = "gone" /\ tokens[t].state = "live"
             /\ tokens'[t].phone = tokens[t].phone
             /\ tokens'[t].called = tokens[t].called
             /\ tokens'[t].told = tokens[t].told
  <2> DEFINE gone == [tokens[t] EXCEPT !.state = "gone"]
  <2>1. tokens[t] \in Token
    BY DEF IInv, TypeOK
  <2>2. /\ gone \in Token /\ gone.state = "gone"
        /\ gone.phone = tokens[t].phone /\ gone.called = tokens[t].called
        /\ gone.told = tokens[t].told
    BY <2>1 DEF Token
  <2>3. tokens'[t] = IF t \in S THEN gone ELSE tokens[t]
    BY Zenon
  <2> HIDE DEF gone
  <2> QED
    BY <2>1, <2>2, <2>3
<1>2. tokens' \in [Tokens -> Token]
  BY <1>1
<1>3. TokensKeep
  BY <1>1 DEF TokensKeep
<1>4. TokenFacts'
  BY <1>1 DEF IInv, TokenFacts
<1> QED
  BY <1>2, <1>3, <1>4

-----------------------------------------------------------------------------
(* The requests' steps, but for those that write accounts or sessions.     *)

LEMMA AtType ==
  ASSUME NEW step \in {"idle", "deleteTokens", "findUser", "createToken",
                       "expire", "status", "createUser", "findOwner", "verify",
                       "consume", "session"},
         NEW p \in Numbers \cup {null}, NEW u \in Users \cup {null},
         NEW t \in Tokens \cup {null}
  PROVE  /\ At(step, p, u, t) \in Request /\ At(step, p, u, t).step = step
         /\ At(step, p, u, t).phone = p /\ At(step, p, u, t).user = u
         /\ At(step, p, u, t).token = t
BY DEF At, Request

LEMMA BecomeWrites ==
  ASSUME IInv, NEW r \in Requests, NEW q \in Request, Become(r, q)
  PROVE  /\ req' \in [Requests -> Request] /\ req'[r] = q
         /\ \A s \in Requests \ {r} : req'[s] = req[s]
BY DEF IInv, TypeOK, Become

(* A request ends.                                                         *)
LEMMA EndKeeps ==
  ASSUME IInv, UNCHANGED <<users, owner, opened>>,
         TokensKeep, TokenFacts', tokens' \in [Tokens -> Token],
         NEW r \in Requests, Become(r, Idle)
  PROVE  IInv'
<1>1. Idle \in Request /\ Idle.step = "idle"
  BY AtType DEF Idle
<1>2. /\ req' \in [Requests -> Request] /\ req'[r].step = "idle"
      /\ \A s \in Requests \ {r} : req'[s] = req[s]
  BY <1>1, BecomeWrites
<1>3. Knows(req[r])'
  BY <1>2 DEF Knows, HasToken
<1> QED
  BY <1>2, <1>3, MoveKeeps

LEMMA StartKeeps ==
  ASSUME IInv, NEW r \in Requests, NEW p \in Numbers,
         registerSmsStart(r, p) \/ register(r, p)
  PROVE  IInv'
<1>1. PICK step \in {"deleteTokens", "createUser"} : Become(r, At(step, p, null, null))
  BY DEF registerSmsStart, register
<1>2. UNCHANGED <<users, owner, tokens, opened>>
  BY DEF registerSmsStart, register
<1> DEFINE q == At(step, p, null, null)
<1>3. /\ q \in Request /\ q.step \in {"deleteTokens", "createUser"}
      /\ q.phone = p /\ q.token = null
  BY AtType
<1>4. Become(r, q)
  BY <1>1
<1> HIDE DEF q
<1>5. /\ req' \in [Requests -> Request] /\ req'[r] = q
      /\ \A s \in Requests \ {r} : req'[s] = req[s]
  BY <1>3, <1>4, BecomeWrites
<1>6. Knows(req[r])'
  BY <1>3, <1>5 DEF Knows, HasToken
<1>7. TokensKeep /\ TokenFacts' /\ tokens' \in [Tokens -> Token]
  BY <1>2, SameTokens
<1> QED
  BY <1>2, <1>3, <1>5, <1>6, <1>7, MoveKeeps

(* A handler that uses a code has been told it.                            *)
LEMMA FoundKeeps ==
  ASSUME IInv, NEW r \in Requests, NEW t \in Tokens,
         NEW step \in {"status", "createUser", "findOwner"}, Found(r, t, step),
         step # "status" => tokens[t].told
  PROVE  IInv'
<1> DEFINE next == IF tokens[t].expired THEN "expire" ELSE step
           q == At(next, tokens[t].phone, null, t)
<1>1. /\ tokens[t].state = "live" /\ tokens[t].phone \in Numbers
      /\ tokens[t].told => tokens[t].called
  BY DEF Found, Live, IInv, TokenFacts
<1>2. next \in {"expire", step}
  OBVIOUS
<1> HIDE DEF next
<1>3. q \in Request /\ q.step = next /\ q.phone = tokens[t].phone /\ q.token = t
  BY <1>1, <1>2, AtType
<1>4. Become(r, q) /\ UNCHANGED <<users, owner, tokens, opened>>
  BY DEF Found, next
<1> HIDE DEF q
<1>5. /\ req' \in [Requests -> Request] /\ req'[r] = q
      /\ \A s \in Requests \ {r} : req'[s] = req[s]
  BY <1>3, <1>4, BecomeWrites
<1>6. Knows(req[r])'
  BY <1>1, <1>2, <1>3, <1>4, <1>5 DEF Knows, HasToken, Proven
<1>7. TokensKeep /\ TokenFacts' /\ tokens' \in [Tokens -> Token]
  BY <1>4, SameTokens
<1> QED
  BY <1>2, <1>3, <1>4, <1>5, <1>6, <1>7, MoveKeeps

(* What a move to another step of the same request keeps.                  *)
LEMMA GoWrites ==
  ASSUME IInv, NEW r \in Requests, NEW step \in {"findUser", "consume", "session"},
         Go(r, step)
  PROVE  /\ req' \in [Requests -> Request]
         /\ req'[r].step = step /\ req'[r].phone = req[r].phone
         /\ req'[r].user = req[r].user /\ req'[r].token = req[r].token
         /\ \A s \in Requests \ {r} : req'[s] = req[s]
<1> DEFINE q == [req[r] EXCEPT !.step = step]
<1>1. req[r] \in Request
  BY DEF IInv, TypeOK
<1>2. /\ q \in Request /\ q.step = step /\ q.phone = req[r].phone
      /\ q.user = req[r].user /\ q.token = req[r].token
  BY <1>1 DEF Request
<1>3. Become(r, q)
  BY DEF Go, Become
<1> HIDE DEF q
<1> QED
  BY <1>2, <1>3, BecomeWrites

LEMMA DeleteTokensKeeps ==
  ASSUME IInv, NEW r \in Requests, deleteTokens(r)
  PROVE  IInv'
<1> DEFINE S == {t \in Tokens : Live(t) /\ tokens[t].phone = req[r].phone}
<1>1. /\ Knows(req[r]) /\ req[r].step = "deleteTokens"
      /\ UNCHANGED <<users, owner, opened>> /\ Go(r, "findUser")
  BY DEF deleteTokens, IInv
<1>2. tokens' = [t \in Tokens |->
        IF t \in S THEN [tokens[t] EXCEPT !.state = "gone"] ELSE tokens[t]]
  BY Zenon DEF deleteTokens
<1>3. S \in SUBSET Tokens /\ \A t \in S : tokens[t].state = "live"
  BY DEF Live
<1> HIDE DEF S
<1>4. TokensKeep /\ TokenFacts' /\ tokens' \in [Tokens -> Token]
  BY <1>1, <1>2, <1>3, DeleteManyKeeps
<1>5. /\ req' \in [Requests -> Request] /\ req'[r].step = "findUser"
      /\ req'[r].phone = req[r].phone
      /\ \A s \in Requests \ {r} : req'[s] = req[s]
  BY <1>1, GoWrites
<1>6. Knows(req[r])'
  BY <1>1, <1>5 DEF Knows, HasToken
<1> QED
  BY <1>1, <1>4, <1>5, <1>6, MoveKeeps

LEMMA FindUserKeeps ==
  ASSUME IInv, NEW r \in Requests, findUser(r)
  PROVE  IInv'
<1> DEFINE p == req[r].phone
           q == At("createToken", p, owner[p], null)
<1>1. /\ p \in Numbers /\ owner[p] \in Users \cup {null}
      /\ UNCHANGED <<users, owner, tokens, opened>>
  BY DEF findUser, IInv, Knows, TypeOK
<1>2. q \in Request /\ q.step = "createToken" /\ q.phone = p
  BY <1>1 DEF At, Request
<1>3. Become(r, q)
  BY DEF findUser
<1> HIDE DEF q
<1>4. /\ req' \in [Requests -> Request] /\ req'[r] = q
      /\ \A s \in Requests \ {r} : req'[s] = req[s]
  BY <1>2, <1>3, BecomeWrites
<1>5. Knows(req[r])'
  BY <1>1, <1>2, <1>4 DEF Knows, HasToken
<1>6. TokensKeep /\ TokenFacts' /\ tokens' \in [Tokens -> Token]
  BY <1>1, SameTokens
<1> QED
  BY <1>1, <1>2, <1>4, <1>5, <1>6, MoveKeeps

LEMMA CreateTokenKeeps ==
  ASSUME IInv, NEW r \in Requests, NEW t \in Tokens, createToken(r, t)
  PROVE  IInv'
<1> DEFINE token == Issued(req[r].phone, req[r].user)
<1>1. /\ req[r].phone \in Numbers /\ req[r].user \in Users \cup {null}
      /\ tokens[t].state = "unborn" /\ UNCHANGED <<users, owner, opened>>
      /\ tokens' = [tokens EXCEPT ![t] = token] /\ Become(r, Idle)
  BY DEF createToken, IInv, Knows, TypeOK, Request
<1>2. /\ token \in Token /\ token.state = "live" /\ token.phone \in Numbers
      /\ ~token.told
  BY <1>1 DEF Issued, Token
<1> HIDE DEF token
<1>3. TokensKeep /\ TokenFacts' /\ tokens' \in [Tokens -> Token]
  BY <1>1, <1>2, TokenKeeps
<1> QED
  BY <1>1, <1>3, EndKeeps

LEMMA ExpireKeeps ==
  ASSUME IInv, NEW r \in Requests, expire(r)
  PROVE  IInv'
<1>1. /\ req[r].token \in Tokens /\ tokens[req[r].token].state # "unborn"
      /\ Delete(req[r].token) /\ UNCHANGED <<users, owner, opened>>
      /\ Become(r, Idle)
  BY DEF expire, IInv, Knows, HasToken
<1>2. TokensKeep /\ TokenFacts' /\ tokens' \in [Tokens -> Token]
  BY <1>1, DeleteKeeps
<1> QED
  BY <1>1, <1>2, EndKeeps

LEMMA StatusKeeps ==
  ASSUME IInv, NEW r \in Requests, status(r)
  PROVE  IInv'
<1> DEFINE t == req[r].token
           token == [tokens[t] EXCEPT !.told = TRUE]
<1>1. /\ t \in Tokens /\ tokens[t].state # "unborn" /\ tokens[t].called
      /\ UNCHANGED <<users, owner, opened>> /\ Become(r, Idle)
      /\ tokens' = [tokens EXCEPT ![t] = token]
  BY DEF status, IInv, Knows, HasToken
<1>2. tokens[t] \in Token /\ tokens[t].phone \in Numbers
  BY <1>1 DEF IInv, TypeOK, TokenFacts
<1>3. /\ token \in Token /\ token.state = tokens[t].state
      /\ token.phone = tokens[t].phone /\ token.called
  BY <1>1, <1>2 DEF Token
<1> HIDE DEF token, t
<1>4. TokensKeep /\ TokenFacts' /\ tokens' \in [Tokens -> Token]
  BY <1>1, <1>2, <1>3, TokenKeeps
<1> QED
  BY <1>1, <1>4, EndKeeps

LEMMA FindOwnerKeeps ==
  ASSUME IInv, NEW r \in Requests, findOwner(r)
  PROVE  IInv'
<1> DEFINE p == req[r].phone
           q == At("verify", p, owner[p], req[r].token)
<1>1. /\ p \in Numbers /\ owner[p] \in Users /\ users[owner[p]].state = "alive"
      /\ Proven(req[r]) /\ UNCHANGED <<users, owner, tokens, opened>>
  BY DEF findOwner, IInv, Knows, TypeOK, OwnerFacts
<1>2. /\ q \in Request /\ q.step = "verify" /\ q.phone = p /\ q.user = owner[p]
      /\ q.token = req[r].token
  BY <1>1, AtType DEF Proven
<1>3. Become(r, q)
  BY DEF findOwner
<1> HIDE DEF q
<1>4. /\ req' \in [Requests -> Request] /\ req'[r] = q
      /\ \A s \in Requests \ {r} : req'[s] = req[s]
  BY <1>2, <1>3, BecomeWrites
<1>5. Knows(req[r])'
  BY <1>1, <1>2, <1>4 DEF Knows, HasToken, Proven
<1>6. TokensKeep /\ TokenFacts' /\ tokens' \in [Tokens -> Token]
  BY <1>1, SameTokens
<1> QED
  BY <1>1, <1>2, <1>4, <1>5, <1>6, MoveKeeps

(* Whoever finds the row has not been forestalled.                         *)
LEMMA ConsumeKeeps ==
  ASSUME IInv, NEW r \in Requests, consume(r)
  PROVE  IInv'
<1> DEFINE t == req[r].token
<1>1. /\ t \in Tokens /\ tokens[t].state = "live" /\ Delete(t)
      /\ Go(r, "session") /\ UNCHANGED <<users, owner, opened>>
  BY DEF consume, IInv, Knows, HasToken, Live
<1>2. /\ TokensKeep /\ TokenFacts' /\ tokens' \in [Tokens -> Token]
      /\ tokens'[t].state = "gone"
  BY <1>1, DeleteKeeps
<1>3. opened[t] = 0
  BY <1>1 DEF IInv, TokenFacts
<1>4. /\ req' \in [Requests -> Request] /\ req'[r].step = "session"
      /\ req'[r].token = t /\ \A s \in Requests \ {r} : req'[s] = req[s]
  BY <1>1, GoWrites
<1>5. Knows(req[r])'
  BY <1>1, <1>2, <1>3, <1>4 DEF Knows, HasToken
<1>6. \A s \in Requests : req[s].step = "session" => req[s].token # t
  BY <1>1 DEF IInv, Knows
<1> QED
  BY <1>1, <1>2, <1>4, <1>5, <1>6, MoveKeeps

LEMMA WorldKeeps ==
  ASSUME IInv, NEW t \in Tokens, call(t) \/ timeout(t)
  PROVE  IInv'
<1> DEFINE called == [tokens[t] EXCEPT !.called = TRUE]
           expired == [tokens[t] EXCEPT !.expired = TRUE]
<1>1. /\ tokens[t] \in Token /\ tokens[t].state # "unborn"
      /\ tokens[t].phone \in Numbers /\ (tokens[t].told => tokens[t].called)
      /\ UNCHANGED <<users, owner, req, opened>>
  BY DEF call, timeout, Live, IInv, TypeOK, TokenFacts
<1>2. /\ called \in Token /\ called.state = tokens[t].state
      /\ called.phone = tokens[t].phone /\ called.called
      /\ expired \in Token /\ expired.state = tokens[t].state
      /\ expired.phone = tokens[t].phone /\ expired.called = tokens[t].called
      /\ expired.told = tokens[t].told
  BY <1>1 DEF Token
<1>3. \/ tokens' = [tokens EXCEPT ![t] = called]
      \/ tokens' = [tokens EXCEPT ![t] = expired]
  BY DEF call, timeout
<1> HIDE DEF called, expired
<1>4. TokensKeep /\ TokenFacts' /\ tokens' \in [Tokens -> Token]
  <2>1. CASE tokens' = [tokens EXCEPT ![t] = called]
    BY <1>1, <1>2, <2>1, TokenKeeps
  <2>2. CASE tokens' = [tokens EXCEPT ![t] = expired]
    BY <1>1, <1>2, <2>2, TokenKeeps
  <2> QED
    BY <1>3, <2>1, <2>2
<1>5. AccountsKeep /\ TypeOK' /\ OwnerFacts' /\ Exclusive'
  BY <1>1, <1>4 DEF AccountsKeep, IInv, TypeOK, OwnerFacts, Exclusive
<1>6. VerifiedByCall'
  BY <1>1, <1>4 DEF IInv, VerifiedByCall, Called, TokensKeep, TokenFacts
<1>7. \A s \in Requests : Knows(req[s])'
  BY <1>1, <1>4, <1>5, OthersKeep
<1> QED
  BY <1>4, <1>5, <1>6, <1>7 DEF IInv

-----------------------------------------------------------------------------
(* The steps that write accounts and sessions.                             *)

LEMMA SaveSessionKeeps ==
  ASSUME IInv, NEW r \in Requests, saveSession(r)
  PROVE  IInv'
<1> DEFINE t == req[r].token
<1>1. /\ req[r].step = "session" /\ t \in Tokens /\ tokens[t].state = "gone"
      /\ opened[t] = 0 /\ opened' = [opened EXCEPT ![t] = @ + 1]
      /\ Become(r, Idle) /\ UNCHANGED <<users, owner, tokens>>
  BY DEF saveSession, IInv, Knows, HasToken
<1>2. Idle \in Request /\ Idle.step = "idle"
  BY AtType DEF Idle
<1>3. /\ req' \in [Requests -> Request] /\ req'[r].step = "idle"
      /\ \A s \in Requests \ {r} : req'[s] = req[s]
  BY <1>1, <1>2, BecomeWrites
<1>4. opened \in [Tokens -> Nat] /\ opened' \in [Tokens -> Nat]
  BY <1>1 DEF IInv, TypeOK
<1>5. TypeOK' /\ OwnerFacts' /\ VerifiedByCall' /\ Exclusive'
  BY <1>1, <1>3, <1>4 DEF IInv, TypeOK, OwnerFacts, VerifiedByCall, Called, Exclusive
<1>6. TokenFacts' /\ TokensKeep /\ AccountsKeep
  BY <1>1, <1>4 DEF IInv, TokenFacts, TokensKeep, AccountsKeep
<1>7. \A s \in Requests : Knows(req[s])'
  <2>1. Knows(req[r])'
    BY <1>3 DEF Knows, HasToken
  <2>2. ASSUME NEW s \in Requests, s # r
        PROVE  Knows(req[s])'
    <3>1. req[s].step = "session" => req[s].token # t /\ req[s].token \in Tokens
      BY <1>1, <2>2 DEF IInv, Exclusive, Knows, HasToken
    <3>2. req[s].step = "session" => opened'[req[s].token] = opened[req[s].token]
      BY <1>1, <1>4, <3>1
    <3> QED
      BY <1>3, <1>6, <2>2, <3>2, OthersKeep
  <2> QED
    BY <2>1, <2>2
<1> QED
  BY <1>5, <1>6, <1>7 DEF IInv

(* An account is made with a number nobody has; it is verified when it is  *)
(* made with a code.                                                       *)
LEMMA CreateUserKeeps ==
  ASSUME PhoneSignUpAssumption, IInv,
         NEW r \in Requests, NEW u \in Users, createUser(r, u)
  PROVE  IInv'
<1> DEFINE p == req[r].phone
           t == req[r].token
           account == Account("alive", t # null)
<1>1. /\ p \in Numbers /\ owner[p] = null /\ users[u].state = "unborn"
      /\ t = null \/ Proven(req[r])
      /\ users' = [users EXCEPT ![u] = account]
      /\ owner' = [owner EXCEPT ![p] = u] /\ UNCHANGED <<tokens, opened>>
      /\ \/ t = null /\ Become(r, At("deleteTokens", p, null, null))
         \/ t = null /\ Become(r, Idle)
         \/ t # null /\ Become(r, At("consume", p, u, t))
  BY DEF createUser, IInv, Knows
<1>2. /\ users \in [Users -> User] /\ owner \in [Numbers -> Users \cup {null}]
      /\ null \notin Users
  BY DEF IInv, TypeOK, PhoneSignUpAssumption
<1>3. /\ account \in User /\ account.state = "alive"
      /\ account.verified <=> t # null
  BY DEF User, Account
<1> HIDE DEF account
<1>4. /\ users' \in [Users -> User] /\ owner' \in [Numbers -> Users \cup {null}]
      /\ users'[u] = account /\ \A v \in Users \ {u} : users'[v] = users[v]
      /\ owner'[p] = u /\ \A o \in Numbers \ {p} : owner'[o] = owner[o]
  BY <1>1, <1>2, <1>3
<1>5. /\ req' \in [Requests -> Request] /\ Knows(req[r])'
      /\ req'[r].step # "session"
      /\ \A s \in Requests \ {r} : req'[s] = req[s]
  <2>1. CASE t = null /\ Become(r, Idle)
    <3>1. Idle \in Request /\ Idle.step = "idle"
      BY DEF Idle, At, Request
    <3>2. /\ req' \in [Requests -> Request] /\ req'[r] = Idle
          /\ \A s \in Requests \ {r} : req'[s] = req[s]
      BY <2>1, <3>1, BecomeWrites
    <3> QED
      BY <3>1, <3>2 DEF Knows, HasToken
  <2>2. CASE t = null /\ ~Become(r, Idle)
    <3> DEFINE q == At("deleteTokens", p, null, null)
    <3>1. q \in Request /\ q.step = "deleteTokens" /\ q.phone = p
      BY <1>1 DEF At, Request
    <3>2. Become(r, q)
      BY <1>1, <2>2
    <3> HIDE DEF q
    <3>3. /\ req' \in [Requests -> Request] /\ req'[r] = q
          /\ \A s \in Requests \ {r} : req'[s] = req[s]
      BY <3>1, <3>2, BecomeWrites
    <3> QED
      BY <1>1, <3>1, <3>3 DEF Knows, HasToken
  <2>3. CASE t # null
    <3> DEFINE q == At("consume", p, u, t)
    <3>1. t \in Tokens /\ tokens[t].state # "unborn"
      BY <1>1, <2>3 DEF Proven
    <3>2. q \in Request /\ q.step = "consume" /\ q.token = t
      BY <1>1, <3>1 DEF At, Request
    <3>3. Become(r, q)
      BY <1>1, <2>3
    <3> HIDE DEF q
    <3>4. /\ req' \in [Requests -> Request] /\ req'[r] = q
          /\ \A s \in Requests \ {r} : req'[s] = req[s]
      BY <3>2, <3>3, BecomeWrites
    <3> QED
      BY <1>1, <3>1, <3>2, <3>4 DEF Knows, HasToken
  <2> QED
    BY <2>1, <2>2, <2>3
<1>6. TypeOK' /\ TokensKeep /\ TokenFacts'
  BY <1>1, <1>4, <1>5, SameTokens DEF IInv, TypeOK
<1>7. OwnerFacts'
  <2>1. \A o \in Numbers : owner[o] \in Users \cup {null} /\ owner[o] # u
    BY <1>1, <1>2 DEF IInv, OwnerFacts
  <2> QED
    BY <1>2, <1>3, <1>4, <2>1 DEF IInv, OwnerFacts
<1>8. AccountsKeep
  BY <1>1, <1>2, <1>4 DEF AccountsKeep
<1>9. VerifiedByCall'
  <2> SUFFICES ASSUME NEW v \in Users, users'[v].state = "alive", users'[v].verified,
                      ~users'[v].linked
               PROVE  \E o \in Numbers : owner'[o] = v /\ Called(o)'
    BY DEF VerifiedByCall
  <2>1. CASE v = u
    <3>1. Proven(req[r])
      BY <1>1, <1>3, <1>4, <2>1
    <3> QED
      BY <1>1, <1>4, <2>1, <3>1 DEF Proven, Called
  <2>2. CASE v # u
    <3>1. PICK o \in Numbers : owner[o] = v /\ Called(o)
      BY <1>4, <2>2 DEF IInv, VerifiedByCall
    <3> QED
      BY <1>1, <1>2, <1>4, <3>1 DEF Called
  <2> QED
    BY <2>1, <2>2
<1>10. \A s \in Requests : Knows(req[s])'
  BY <1>1, <1>5, <1>6, <1>8, OthersKeep
<1>11. Exclusive'
  BY <1>5 DEF IInv, Exclusive
<1> QED
  BY <1>6, <1>7, <1>9, <1>10, <1>11 DEF IInv

(* The account verify has found has the number still, or is deleted.       *)
LEMMA VerifyKeeps ==
  ASSUME IInv, NEW r \in Requests, verify(r)
  PROVE  IInv'
<1> DEFINE u == req[r].user
           account == [users[u] EXCEPT !.verified = TRUE]
<1>1. /\ u \in Users /\ req[r].phone \in Numbers /\ Proven(req[r])
      /\ users[u].state = "alive" => owner[req[r].phone] = u
      /\ UNCHANGED <<owner, tokens, opened>> /\ Go(r, "consume")
      /\ users' = [users EXCEPT ![u] = account]
  BY DEF verify, IInv, Knows
<1>2. users \in [Users -> User] /\ users[u] \in User
  BY <1>1 DEF IInv, TypeOK
<1>3. account \in User /\ account.state = users[u].state
  BY <1>2 DEF User
<1> HIDE DEF account, u
<1>4. /\ users' \in [Users -> User] /\ users'[u] = account
      /\ \A v \in Users \ {u} : users'[v] = users[v]
  BY <1>1, <1>2, <1>3
<1>5. /\ req' \in [Requests -> Request] /\ req'[r].step = "consume"
      /\ req'[r].token = req[r].token /\ \A s \in Requests \ {r} : req'[s] = req[s]
  BY <1>1, GoWrites
<1>6. TypeOK' /\ TokensKeep /\ TokenFacts'
  BY <1>1, <1>4, <1>5, SameTokens DEF IInv, TypeOK
<1>7. AccountsKeep
  BY <1>1, <1>3, <1>4 DEF AccountsKeep
<1>8. OwnerFacts'
  <2>1. \A p \in Numbers : owner[p] \in Users \cup {null}
    BY DEF IInv, TypeOK
  <2> QED
    BY <1>1, <1>3, <1>4, <2>1 DEF IInv, OwnerFacts
<1>9. VerifiedByCall'
  <2> SUFFICES ASSUME NEW v \in Users, users'[v].state = "alive", users'[v].verified,
                      ~users'[v].linked
               PROVE  \E p \in Numbers : owner[p] = v /\ Called(p)
    BY <1>1 DEF VerifiedByCall, Called
  <2>1. CASE v = u
    BY <1>1, <1>3, <1>4, <2>1 DEF Proven, Called
  <2>2. CASE v # u
    BY <1>4, <2>2 DEF IInv, VerifiedByCall
  <2> QED
    BY <2>1, <2>2
<1>10. Knows(req[r])'
  BY <1>1, <1>5 DEF Knows, HasToken, Proven
<1>11. \A s \in Requests : Knows(req[s])'
  BY <1>1, <1>5, <1>6, <1>7, <1>10, OthersKeep
<1>12. Exclusive'
  BY <1>5 DEF IInv, Exclusive
<1> QED
  BY <1>6, <1>8, <1>9, <1>11, <1>12 DEF IInv

LEMMA DeleteAccountKeeps ==
  ASSUME PhoneSignUpAssumption, IInv, NEW u \in Users, deleteAccount(u)
  PROVE  IInv'
<1> DEFINE S == {t \in Tokens : Live(t) /\ tokens[t].user = u}
           account == Account("deleted", users[u].verified)
<1>1. /\ users' = [users EXCEPT ![u] = account] /\ UNCHANGED <<req, opened>>
      /\ owner' = [p \in Numbers |-> IF owner[p] = u THEN null ELSE owner[p]]
  BY DEF deleteAccount
<1>2. tokens' = [t \in Tokens |->
        IF t \in S THEN [tokens[t] EXCEPT !.state = "gone"] ELSE tokens[t]]
  BY Zenon DEF deleteAccount
<1>3. S \in SUBSET Tokens /\ \A t \in S : tokens[t].state = "live"
  BY DEF Live
<1> HIDE DEF S
<1>4. TokensKeep /\ TokenFacts' /\ tokens' \in [Tokens -> Token]
  BY <1>1, <1>2, <1>3, DeleteManyKeeps
<1>5. /\ users \in [Users -> User] /\ users[u] \in User /\ null \notin Users
      /\ owner \in [Numbers -> Users \cup {null}]
  BY DEF IInv, TypeOK, PhoneSignUpAssumption
<1>6. account \in User /\ account.state = "deleted"
  BY <1>5 DEF User, Account
<1> HIDE DEF account
<1>7. /\ users' \in [Users -> User] /\ users'[u].state = "deleted"
      /\ \A v \in Users \ {u} : users'[v] = users[v]
      /\ owner' \in [Numbers -> Users \cup {null}]
      /\ \A p \in Numbers : /\ owner[p] = u => owner'[p] = null
                            /\ owner[p] # u => owner'[p] = owner[p]
  BY <1>1, <1>5, <1>6
<1>8. TypeOK' /\ AccountsKeep /\ Exclusive'
  BY <1>1, <1>4, <1>7 DEF IInv, TypeOK, AccountsKeep, Exclusive
<1>9. OwnerFacts'
  BY <1>5, <1>7 DEF IInv, OwnerFacts
<1>10. VerifiedByCall'
  <2> SUFFICES ASSUME NEW v \in Users, users'[v].state = "alive", users'[v].verified,
                      ~users'[v].linked
               PROVE  \E p \in Numbers : owner'[p] = v /\ Called(p)'
    BY DEF VerifiedByCall
  <2>1. v # u /\ users'[v] = users[v]
    BY <1>7
  <2>2. PICK p \in Numbers : owner[p] = v /\ Called(p)
    BY <2>1 DEF IInv, VerifiedByCall
  <2> QED
    BY <1>4, <1>7, <2>1, <2>2 DEF Called, TokensKeep, IInv, TokenFacts
<1>11. \A s \in Requests : Knows(req[s])'
  BY <1>1, <1>4, <1>8, OthersKeep
<1> QED
  BY <1>4, <1>8, <1>9, <1>10, <1>11 DEF IInv

(* An account that a link verifies needs no call.                          *)
LEMMA ConfirmEmailKeeps ==
  ASSUME IInv, NEW u \in Users, confirmEmail(u)
  PROVE  IInv'
<1> DEFINE account == [users[u] EXCEPT !.verified = TRUE, !.linked = TRUE]
<1>1. /\ users' = [users EXCEPT ![u] = account]
      /\ UNCHANGED <<owner, tokens, req, opened>>
  BY DEF confirmEmail
<1>2. users \in [Users -> User] /\ users[u] \in User
  BY DEF IInv, TypeOK
<1>3. account \in User /\ account.state = users[u].state /\ account.linked
  BY <1>2 DEF User
<1> HIDE DEF account
<1>4. /\ users' \in [Users -> User] /\ users'[u] = account
      /\ \A v \in Users \ {u} : users'[v] = users[v]
  BY <1>1, <1>2, <1>3
<1>5. TypeOK' /\ TokensKeep /\ TokenFacts' /\ Exclusive'
  BY <1>1, <1>4, SameTokens DEF IInv, TypeOK, Exclusive
<1>6. AccountsKeep
  BY <1>1, <1>3, <1>4 DEF AccountsKeep
<1>7. OwnerFacts'
  <2>1. \A p \in Numbers : owner[p] \in Users \cup {null}
    BY DEF IInv, TypeOK
  <2> QED
    BY <1>1, <1>3, <1>4, <2>1 DEF IInv, OwnerFacts
<1>8. VerifiedByCall'
  BY <1>1, <1>3, <1>4 DEF IInv, VerifiedByCall, Called
<1>9. \A s \in Requests : Knows(req[s])'
  BY <1>1, <1>5, <1>6, OthersKeep
<1> QED
  BY <1>5, <1>7, <1>8, <1>9 DEF IInv

LEMMA StepIInv ==
  ASSUME PhoneSignUpAssumption, IInv, [Next]_vars
  PROVE  IInv'
<1>1. ASSUME NEW r \in Requests, Begin(r)
      PROVE  IInv'
  <2>1. ASSUME NEW t \in Tokens, checkSmsCallbackStatus(r, t)
        PROVE  IInv'
    BY <2>1, FoundKeeps DEF checkSmsCallbackStatus
  <2>2. ASSUME NEW t \in Tokens, registerSmsComplete(r, t) \/ verifySms(r, t)
        PROVE  IInv'
    BY <2>2, FoundKeeps DEF registerSmsComplete, verifySms
  <2> QED
    BY <1>1, <2>1, <2>2, StartKeeps DEF Begin
<1>2. ASSUME NEW r \in Requests, fail(r)
      PROVE  IInv'
  BY <1>2, SameTokens, EndKeeps DEF fail
<1>3. ASSUME NEW r \in Requests, Continue(r)
      PROVE  IInv'
  BY <1>2, <1>3, DeleteTokensKeeps, FindUserKeeps, CreateTokenKeeps, ExpireKeeps,
     StatusKeeps, CreateUserKeeps, FindOwnerKeeps, VerifyKeeps, ConsumeKeeps,
     SaveSessionKeeps DEF Continue
<1>4. ASSUME UNCHANGED vars
      PROVE  IInv'
  BY <1>4 DEF vars, IInv, TypeOK, TokenFacts, OwnerFacts, VerifiedByCall, Called,
              Exclusive, Knows, HasToken, Proven
<1> QED
  BY <1>1, <1>3, <1>4, DeleteAccountKeeps, ConfirmEmailKeeps, WorldKeeps DEF Next

-----------------------------------------------------------------------------
(* Requests that come one by one.                                          *)

Single == \A r, s \in Requests :
            req[r].step # "idle" /\ req[s].step # "idle" => r = s

(* Who is about to ask for a code has made those there were void.          *)
Cleared ==
  \A r \in Requests : req[r].step \in {"findUser", "createToken"} =>
    \A t \in Tokens : Live(t) => tokens[t].phone # req[r].phone

OneCode ==
  \A t, s \in Tokens :
    Live(t) /\ Live(s) /\ tokens[t].phone = tokens[s].phone => t = s

OneByOne == calm => Single /\ Cleared /\ OneCode

LEMMA InitOneByOne == MCInit => OneByOne
<1>1. Unborn.state # "live" /\ Idle.step = "idle"
  BY DEF Unborn, Issued, Idle, At
<1> QED
  BY <1>1 DEF MCInit, Init, OneByOne, Single, Cleared, OneCode, Live

(* When no request begins beside another, one is under way at most.        *)
LEMMA SingleKept ==
  ASSUME Single, ~(Busy /\ Begins), NEW r \in Requests,
         \A s \in Requests \ {r} : req'[s] = req[s]
  PROVE  Single'
<1>1. CASE req[r].step # "idle"
  BY <1>1 DEF Single
<1>2. CASE req'[r].step = "idle"
  BY <1>2 DEF Single
<1>3. CASE req[r].step = "idle" /\ req'[r].step # "idle"
  <2>1. \A s \in Requests : req[s].step = "idle"
    BY <1>3 DEF Busy, Begins
  <2> QED
    BY <2>1 DEF Single
<1> QED
  BY <1>1, <1>2, <1>3

(* Codes may be taken away, and who is past deleteTokens goes on.          *)
LEMMA FewerKept ==
  ASSUME Cleared, OneCode,
         \A t \in Tokens :
           Live(t)' => Live(t) /\ tokens'[t].phone = tokens[t].phone,
         \A r \in Requests : req'[r].step \in {"findUser", "createToken"} =>
           \/ /\ req[r].step \in {"findUser", "createToken"}
              /\ req'[r].phone = req[r].phone
           \/ \A t \in Tokens : Live(t)' => tokens'[t].phone # req'[r].phone
  PROVE  Cleared' /\ OneCode'
  BY DEF Cleared, OneCode

(* A step after which r is neither looking up the account nor creating.    *)
Plain(r) ==
  /\ \A s \in Requests \ {r} : req'[s] = req[s]
  /\ req'[r].step \notin {"findUser", "createToken"}
  /\ \A t \in Tokens :
       Live(t)' => Live(t) /\ tokens'[t].phone = tokens[t].phone

LEMMA PlainKept ==
  ASSUME Single, Cleared, OneCode, ~(Busy /\ Begins), NEW r \in Requests,
         Plain(r)
  PROVE  Single' /\ Cleared' /\ OneCode'
<1>1. \A s \in Requests : req'[s].step \in {"findUser", "createToken"} =>
        req'[s] = req[s]
  BY DEF Plain
<1> QED
  BY <1>1, SingleKept, FewerKept DEF Plain

LEMMA MoveWrites ==
  ASSUME TypeOK, NEW r \in Requests, NEW q, Become(r, q)
  PROVE  req'[r] = q /\ \A s \in Requests \ {r} : req'[s] = req[s]
  BY DEF TypeOK, Become

LEMMA FieldFewer ==
  ASSUME TypeOK, NEW x \in Tokens,
         Delete(x) \/ tokens' = [tokens EXCEPT ![x].told = TRUE]
                   \/ tokens' = [tokens EXCEPT ![x].called = TRUE]
                   \/ tokens' = [tokens EXCEPT ![x].expired = TRUE]
  PROVE  \A t \in Tokens :
           Live(t)' => Live(t) /\ tokens'[t].phone = tokens[t].phone
<1> SUFFICES ASSUME NEW t \in Tokens, Live(t)'
             PROVE  Live(t) /\ tokens'[t].phone = tokens[t].phone
  OBVIOUS
<1>1. tokens[t] \in Token /\ tokens[x] \in Token
  BY DEF TypeOK
<1> QED
  BY <1>1 DEF TypeOK, Delete, Live, Token

LEMMA PlainSteps ==
  ASSUME IInv, NEW r \in Requests,
         \/ Begin(r)
         \/ Continue(r) /\ ~deleteTokens(r) /\ ~findUser(r)
              /\ ~\E t \in Tokens : createToken(r, t)
  PROVE  Plain(r)
<1> TypeOK
  BY DEF IInv
<1>1. CASE UNCHANGED tokens /\ \E step, p, u, t : /\ Become(r, At(step, p, u, t))
                                         /\ step \notin {"findUser", "createToken"}
  <2>1. PICK step, p, u, t : /\ Become(r, At(step, p, u, t))
                             /\ step \notin {"findUser", "createToken"}
    BY <1>1
  <2>2. req'[r].step = step
    BY <2>1, MoveWrites DEF At
  <2> QED
    BY <1>1, <2>1, <2>2, MoveWrites DEF Plain, Live
<1>2. CASE Begin(r)
  <2>1. \A p \in Numbers : registerSmsStart(r, p) \/ register(r, p) =>
          UNCHANGED tokens /\ \E step \in {"deleteTokens", "createUser"} :
                                Become(r, At(step, p, null, null))
    BY DEF registerSmsStart, register
  <2>2. \A t \in Tokens :
          \/ checkSmsCallbackStatus(r, t) \/ registerSmsComplete(r, t)
          \/ verifySms(r, t)
          => \E step \in {"status", "createUser", "findOwner"} : Found(r, t, step)
    BY DEF checkSmsCallbackStatus, registerSmsComplete, verifySms
  <2>3. ASSUME NEW t \in Tokens, NEW step \in {"status", "createUser", "findOwner"},
               Found(r, t, step)
        PROVE  UNCHANGED tokens /\
               \E next \in {"expire", step} :
                 Become(r, At(next, tokens[t].phone, null, t))
    BY <2>3 DEF Found
  <2> QED
    BY <1>1, <1>2, <2>1, <2>2, <2>3 DEF Begin
<1>3. CASE expire(r) \/ status(r)
  <2>1. req[r].token \in Tokens
    BY <1>3 DEF IInv, Knows, HasToken, expire, status
  <2>2. \A t \in Tokens :
          Live(t)' => Live(t) /\ tokens'[t].phone = tokens[t].phone
    BY <1>3, <2>1, FieldFewer DEF expire, status
  <2>3. Become(r, Idle)
    BY <1>3 DEF expire, status
  <2> QED
    BY <2>2, <2>3, MoveWrites DEF Plain, Idle, At
<1>4. CASE \/ (\E u \in Users : createUser(r, u)) \/ findOwner(r)
           \/ saveSession(r) \/ fail(r)
  BY <1>1, <1>4 DEF createUser, findOwner, saveSession, fail, Idle
<1>5. CASE verify(r)
  <2>1. Go(r, "consume") /\ UNCHANGED tokens
    BY <1>5 DEF verify
  <2> QED
    BY <2>1, GoWrites DEF Plain, Live
<1>6. CASE consume(r)
  <2>1. Go(r, "session") /\ Delete(req[r].token) /\ req[r].token \in Tokens
    BY <1>6 DEF IInv, Knows, HasToken, consume
  <2> QED
    BY <2>1, GoWrites, FieldFewer DEF Plain
<1> QED
  BY <1>2, <1>3, <1>4, <1>5, <1>6 DEF Continue

LEMMA StepOneByOne ==
  ASSUME PhoneSignUpAssumption, IInv, OneByOne, MCNext
  PROVE  OneByOne'
<1> SUFFICES ASSUME calm'
             PROVE  Single' /\ Cleared' /\ OneCode'
  BY DEF OneByOne
<1>1. Single /\ Cleared /\ OneCode /\ ~(Busy /\ Begins) /\ Next
  BY DEF OneByOne, MCNext
<1> TypeOK
  BY DEF IInv
<1>2. ASSUME NEW r \in Requests, Plain(r)
      PROVE  Single' /\ Cleared' /\ OneCode'
  BY <1>1, <1>2, PlainKept
<1>3. ASSUME NEW r \in Requests, deleteTokens(r)
      PROVE  Single' /\ Cleared' /\ OneCode'
  <2>1. /\ req'[r].phone = req[r].phone
        /\ \A s \in Requests \ {r} : req'[s] = req[s]
    BY <1>3, GoWrites DEF deleteTokens
  <2>2. ASSUME NEW t \in Tokens, Live(t)'
        PROVE  /\ Live(t) /\ tokens'[t].phone = tokens[t].phone
               /\ tokens'[t].phone # req[r].phone
    <3>1. tokens[t] \in Token
      BY DEF TypeOK
    <3> QED
      BY <1>3, <2>2, <3>1 DEF deleteTokens, Live, Token
  <2> QED
    BY <1>1, <2>1, <2>2, SingleKept, FewerKept
<1>4. ASSUME NEW r \in Requests, findUser(r)
      PROVE  Single' /\ Cleared' /\ OneCode'
  <2>1. /\ req[r].step = "findUser" /\ req'[r].phone = req[r].phone
        /\ \A s \in Requests \ {r} : req'[s] = req[s]
    BY <1>4, MoveWrites DEF findUser, At
  <2>2. UNCHANGED tokens
    BY <1>4 DEF findUser
  <2> QED
    BY <1>1, <2>1, <2>2, SingleKept, FewerKept DEF Live
<1>5. ASSUME NEW r \in Requests, NEW x \in Tokens, createToken(r, x)
      PROVE  Single' /\ Cleared' /\ OneCode'
  <2>1. /\ req[r].step = "createToken" /\ req'[r].step = "idle"
        /\ \A s \in Requests \ {r} : req'[s] = req[s]
    BY <1>5, MoveWrites DEF createToken, Idle, At
  <2>2. \A s \in Requests : req'[s].step = "idle"
    BY <1>1, <2>1 DEF Single
  <2>3. tokens'[x].phone = req[r].phone
    BY <1>5 DEF createToken, TypeOK, Issued
  <2>4. \A t \in Tokens \ {x} : tokens'[t] = tokens[t]
    BY <1>5 DEF createToken, TypeOK
  <2>5. \A t \in Tokens \ {x} : Live(t)' => tokens'[t].phone # tokens'[x].phone
    BY <1>1, <2>1, <2>3, <2>4 DEF Cleared, Live
  <2>6. OneCode'
    BY <1>1, <2>4, <2>5 DEF OneCode, Live
  <2> QED
    BY <2>2, <2>6 DEF Single, Cleared
<1>6. CASE UNCHANGED req /\ \A t \in Tokens :
             Live(t)' => Live(t) /\ tokens'[t].phone = tokens[t].phone
  <2>1. Single'
    BY <1>1, <1>6 DEF Single
  <2> QED
    BY <1>1, <1>6, <2>1, FewerKept
<1>7. ASSUME NEW u \in Users, deleteAccount(u)
      PROVE  Single' /\ Cleared' /\ OneCode'
  <2>1. ASSUME NEW t \in Tokens, Live(t)'
        PROVE  Live(t) /\ tokens'[t].phone = tokens[t].phone
    <3>1. tokens[t] \in Token
      BY DEF TypeOK
    <3> QED
      BY <1>7, <2>1, <3>1 DEF deleteAccount, Live, Token
  <2> QED
    BY <1>6, <1>7, <2>1 DEF deleteAccount
<1>8. ASSUME NEW t \in Tokens, call(t) \/ timeout(t)
      PROVE  Single' /\ Cleared' /\ OneCode'
  BY <1>6, <1>8, FieldFewer DEF call, timeout
<1>9. ASSUME NEW u \in Users, confirmEmail(u)
      PROVE  Single' /\ Cleared' /\ OneCode'
  BY <1>6, <1>9 DEF confirmEmail, Live
<1> QED
  BY <1>1, <1>2, <1>3, <1>4, <1>5, <1>7, <1>8, <1>9, PlainSteps DEF Next, Continue

(* What else may happen to the history does no harm.                       *)
LEMMA StayOneByOne ==
  ASSUME OneByOne, UNCHANGED vars, calm' => calm
  PROVE  OneByOne'
  BY DEF OneByOne, Single, Cleared, OneCode, Live, vars

-----------------------------------------------------------------------------
(* The theorems.                                                           *)

(* IInv holds in every reachable state, for any number of accounts,        *)
(* numbers, calls and requests handled at once.                            *)
THEOREM InductiveInvariant ==
  ASSUME PhoneSignUpAssumption
  PROVE  Spec => []IInv
  BY InitIInv, StepIInv, PTL DEF Spec

(* Type correctness (AuthService's registration by telephone).             *)
THEOREM TypeCorrect ==
  ASSUME PhoneSignUpAssumption
  PROVE  Spec => []TypeOK
BY InductiveInvariant, PTL DEF IInv

(* Whatever requests overlap or break off, and whoever has a number after  *)
(* whom, an account that is verified, and not by a link in a mail, has a   *)
(* number that was called from.                                            *)
THEOREM VerifiedHasCalled ==
  ASSUME PhoneSignUpAssumption
  PROVE  Spec => []VerifiedByCall
BY InductiveInvariant, PTL DEF IInv

(* A code opens one session at most, however many requests have read it.   *)
THEOREM CodesOpenOneSession ==
  ASSUME PhoneSignUpAssumption
  PROVE  Spec => []CodeOpensOneSession
<1>1. IInv => CodeOpensOneSession
  BY DEF IInv, TypeOK, TokenFacts, CodeOpensOneSession
<1> QED
  BY <1>1, InductiveInvariant, PTL
=============================================================================
