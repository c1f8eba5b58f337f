----------------------------- MODULE PhonesProofs -----------------------------
(* What holds of phone numbers for any number of accounts, numbers, tokens *)
(* and requests handled at once.                                           *)
EXTENDS MCPhones, TLAPS

-----------------------------------------------------------------------------
(* The inductive invariant.                                                *)

(* A token that was created belongs to somebody and to a number, its code  *)
(* is told only after the call, and it is gone once it has served.         *)
TokenFacts ==
  \A t \in Tokens :
    /\ tokens[t].state # "unborn" =>
         tokens[t].user \in Users /\ tokens[t].phone \in Numbers
    /\ tokens[t].told => tokens[t].called
    /\ uses[t] # 0 => uses[t] = 1 /\ tokens[t].state = "gone"

Confirms == {"owner", "count", "clear", "clearing", "write", "commit"}

(* What a request knows, wherever it stands, stays true of the tokens.     *)
Proven(q) ==
  /\ q.step \in {"deleteTokens", "createToken"} \cup Confirms =>
       q.user \in Users /\ q.phone \in Numbers
  /\ q.step \in {"deletingPhones", "deleteAccount"} => q.user \in Users
  /\ q.step \in {"expire", "status"} =>
       q.token \in Tokens /\ tokens[q.token].state # "unborn"
  /\ q.step \in Confirms =>
       IF q.token = null THEN q.exists
       ELSE /\ q.token \in Tokens
            /\ tokens[q.token].state # "unborn"
            /\ tokens[q.token].user = q.user
            /\ tokens[q.token].phone = q.phone
            /\ tokens[q.token].called

(* Who makes the number primary, and who need not.                         *)
Chosen(q) ==
  /\ q.step \in {"owner", "count"} => ~q.exists
  /\ q.step = "owner" => q.add \/ q.primary
  /\ q.step \in {"clear", "clearing"} => q.primary
  /\ q.step \in {"write", "commit"} /\ ~q.primary =>
       /\ ~q.exists
       /\ q.holds \subseteq {q.phone}
       /\ q.user \in deleted \/ PhonesOf(q.user) # {}

(* The rows a transaction has written are its user's, until it commits.    *)
Locked(q) ==
  /\ q.step \notin {"write", "commit", "deleteAccount"} => q.holds = {}
  /\ q.step \in {"write", "deleteAccount"} => q.holds \subseteq PhonesOf(q.user)
  /\ q.step = "commit" =>
       /\ q.phone \in q.holds
       /\ q.holds \subseteq PhonesOf(q.user) \cup {q.phone}
       /\ owner[q.phone] = (IF q.exists THEN q.user ELSE null)

Disjoint ==
  \A r, s \in Requests : r # s => req[r].holds \cap req[s].holds = {}

ReqFacts ==
  \A r \in Requests : Proven(req[r]) /\ Chosen(req[r]) /\ Locked(req[r])

IInv == TypeOK /\ TokenFacts /\ ReqFacts /\ Disjoint /\ SomePrimary

-----------------------------------------------------------------------------
(* The invariant holds at the start.                                       *)

LEMMA InitIInv == Init => IInv
<1> SUFFICES ASSUME Init
             PROVE  IInv
  OBVIOUS
<1> USE PhonesAssumption DEF Init
<1>1. Idle \in Request /\ Idle.step = "idle" /\ Idle.holds = {}
  BY DEF Idle, At, Request, Steps
<1>2. Unborn \in Token /\ Unborn.state = "unborn" /\ ~Unborn.told
  BY DEF Unborn, Issued, Token
<1>3. TypeOK
  BY <1>1, <1>2 DEF TypeOK
<1>4. TokenFacts
  BY <1>2 DEF TokenFacts
<1>5. ReqFacts
  BY <1>1 DEF ReqFacts, Proven, Chosen, Locked, Confirms
<1>6. Disjoint
  BY <1>1 DEF Disjoint
<1>7. SomePrimary
  BY DEF SomePrimary, PhonesOf, PrimariesOf
<1> QED
  BY <1>3, <1>4, <1>5, <1>6, <1>7 DEF IInv

-----------------------------------------------------------------------------
(* What the other requests keep while one of them, or a token, moves.      *)

(* A token that was created is never anybody else's.                       *)
TokensKeep ==
  \A t \in Tokens : tokens[t].state # "unborn" =>
    /\ tokens'[t].state # "unborn"
    /\ tokens'[t].user = tokens[t].user
    /\ tokens'[t].phone = tokens[t].phone
    /\ tokens[t].called => tokens'[t].called

(* Who has a number keeps one, or is deleted.                              *)
OwnersKeep ==
  \A u \in Users : u \in deleted \/ PhonesOf(u) # {} =>
    u \in deleted' \/ PhonesOf(u)' # {}

LEMMA OthersKeep ==
  ASSUME IInv, TokensKeep, OwnersKeep,
         NEW s \in Requests, req'[s] = req[s],
         \A p \in req[s].holds : owner'[p] = owner[p]
  PROVE  (Proven(req[s]) /\ Chosen(req[s]) /\ Locked(req[s]))'
<1> DEFINE q == req[s]
<1>1. q \in Request /\ req'[s] = q /\ q.holds \subseteq Numbers
  BY DEF IInv, TypeOK, Request
<1>2. Proven(q) /\ Chosen(q) /\ Locked(q)
  BY DEF IInv, ReqFacts
<1>3. Proven(req[s])'
  BY <1>1, <1>2 DEF Proven, TokensKeep, Confirms
<1>4. Chosen(req[s])'
  <2>1. q.step \in {"write", "commit"} => q.user \in Users
    BY <1>2 DEF Proven, Confirms
  <2> QED
    BY <1>1, <1>2, <2>1 DEF Chosen, OwnersKeep
<1>5. Locked(req[s])'
  BY <1>1, <1>2 DEF Locked, PhonesOf
<1> QED
  BY <1>3, <1>4, <1>5

(* A request moves and nothing but tokens is written.                      *)
LEMMA MoveKeeps ==
  ASSUME IInv, TypeOK', TokenFacts', TokensKeep,
         UNCHANGED <<owner, primary, deleted>>,
         NEW r \in Requests, \A s \in Requests \ {r} : req'[s] = req[s],
         (Proven(req[r]) /\ Chosen(req[r]) /\ Locked(req[r]))',
         \A s \in Requests \ {r} : req'[r].holds \cap req[s].holds = {}
  PROVE  IInv'
<1>1. OwnersKeep /\ SomePrimary'
  BY DEF IInv, OwnersKeep, SomePrimary, PhonesOf, PrimariesOf
<1>2. ReqFacts'
  <2> SUFFICES ASSUME NEW s \in Requests, s # r
               PROVE  (Proven(req[s]) /\ Chosen(req[s]) /\ Locked(req[s]))'
    BY DEF ReqFacts
  <2> QED
    BY <1>1, OthersKeep
<1>3. Disjoint'
  BY DEF IInv, Disjoint
<1> QED
  BY <1>1, <1>2, <1>3 DEF IInv

(* A request ends.                                                         *)
LEMMA RespondKeeps ==
  ASSUME IInv, TypeOK', TokenFacts', TokensKeep,
         UNCHANGED <<owner, primary, deleted>>,
         NEW r \in Requests, Respond(r)
  PROVE  IInv'
<1>1. /\ req' = [req EXCEPT ![r] = Idle]
      /\ Idle.step = "idle" /\ Idle.holds = {}
  BY DEF Respond, Become, Idle, At
<1>2. req'[r] = Idle /\ \A s \in Requests \ {r} : req'[s] = req[s]
  BY <1>1 DEF IInv, TypeOK
<1>3. (Proven(req[r]) /\ Chosen(req[r]) /\ Locked(req[r]))'
  BY <1>1, <1>2 DEF Proven, Chosen, Locked, Confirms
<1> QED
  BY <1>1, <1>2, <1>3, MoveKeeps

-----------------------------------------------------------------------------
(* Steps that write nothing but tokens.                                    *)

(* One token is replaced by one that is as much of its owner's.            *)
LEMMA SetTokenKeeps ==
  ASSUME IInv, NEW t \in Tokens, NEW token \in Token,
         tokens' = [tokens EXCEPT ![t] = token],
         tokens[t].state # "unborn" =>
           /\ token.user = tokens[t].user
           /\ token.phone = tokens[t].phone
           /\ tokens[t].called => token.called,
         token.state # "unborn",
         token.user \in Users /\ token.phone \in Numbers,
         token.told => token.called,
         uses' = uses,
         uses[t] # 0 => token.state = "gone"
  PROVE  TokensKeep /\ TokenFacts' /\ tokens' \in [Tokens -> Token]
<1>1. tokens \in [Tokens -> Token]
  BY DEF IInv, TypeOK
<1> QED
  BY <1>1 DEF IInv, TokenFacts, TokensKeep

LEMMA DeleteKeeps ==
  ASSUME IInv, NEW t \in Tokens, tokens[t].state # "unborn", Delete(t), uses' = uses
  PROVE  TokensKeep /\ TokenFacts' /\ tokens' \in [Tokens -> Token]
<1> DEFINE token == [tokens[t] EXCEPT !.state = "gone"]
<1>1. tokens[t] \in Token
  BY DEF IInv, TypeOK
<1>2. /\ token \in Token
      /\ token.state = "gone" /\ token.user = tokens[t].user
      /\ token.phone = tokens[t].phone /\ token.called = tokens[t].called
      /\ token.told = tokens[t].told
  BY <1>1 DEF Token
<1>3. tokens' = [tokens EXCEPT ![t] = token]
  BY DEF Delete, SetToken
<1>4. token.user \in Users /\ token.phone \in Numbers /\ (token.told => token.called)
  BY <1>2 DEF IInv, TokenFacts
<1> QED
  BY <1>2, <1>3, <1>4, SetTokenKeeps

(* The live tokens of a user are deleted.                                  *)
LEMMA DeleteManyKeeps ==
  ASSUME IInv, NEW u \in Users, uses' = uses,
         tokens' = [t \in Tokens |->
           IF tokens[t].user = u /\ tokens[t].state = "live"
           THEN [tokens[t] EXCEPT !.state = "gone"] ELSE tokens[t]]
  PROVE  TokensKeep /\ TokenFacts' /\ tokens' \in [Tokens -> Token]
<1>1. ASSUME NEW t \in Tokens
      PROVE  /\ tokens'[t] \in Token
             /\ \/ tokens'[t].state = tokens[t].state
                \/ tokens'[t].state = "gone" /\ tokens[t].state = "live"
             /\ tokens'[t].user = tokens[t].user
             /\ tokens'[t].phone = tokens[t].phone
             /\ tokens'[t].called = tokens[t].called
             /\ tokens'[t].told = tokens[t].told
  <2> DEFINE gone == [tokens[t] EXCEPT !.state = "gone"]
  <2>1. tokens[t] \in Token
    BY DEF IInv, TypeOK
  <2>2. /\ gone \in Token
        /\ gone.state = "gone" /\ gone.user = tokens[t].user
        /\ gone.phone = tokens[t].phone /\ gone.called = tokens[t].called
        /\ gone.told = tokens[t].told
    BY <2>1 DEF Token
  <2>3. tokens'[t] = IF tokens[t].user = u /\ tokens[t].state = "live"
                     THEN gone ELSE tokens[t]
    BY Zenon
  <2> HIDE DEF gone
  <2> QED
    BY <2>1, <2>2, <2>3
<1>2. tokens' \in [Tokens -> Token]
  BY <1>1
<1>3. TokensKeep
  BY <1>1 DEF TokensKeep
<1>4. TokenFacts'
  BY <1>1 DEF IInv, TokenFacts
<1> QED
  BY <1>2, <1>3, <1>4

LEMMA SameTokens ==
  ASSUME IInv, UNCHANGED <<tokens, uses>>
  PROVE  TokensKeep /\ TokenFacts'
BY DEF IInv, TokenFacts, TokensKeep

(* The calls and the clock: the requests stand still.                      *)
LEMMA WorldKeeps ==
  ASSUME IInv, NEW t \in Tokens, call(t) \/ timeout(t)
  PROVE  IInv'
<1>1. tokens[t] \in Token /\ tokens[t].state # "unborn"
  BY DEF IInv, TypeOK, call, timeout
<1>2. TokensKeep /\ TokenFacts' /\ tokens' \in [Tokens -> Token]
  <2>1. CASE call(t)
    <3> DEFINE token == [tokens[t] EXCEPT !.called = TRUE]
    <3>1. /\ token \in Token
          /\ token.state = tokens[t].state /\ token.user = tokens[t].user
          /\ token.phone = tokens[t].phone /\ token.called
      BY <1>1 DEF Token
    <3>2. tokens' = [tokens EXCEPT ![t] = token] /\ uses' = uses
      BY <2>1 DEF call, SetToken
    <3> QED
      BY <1>1, <3>1, <3>2, SetTokenKeeps DEF IInv, TokenFacts
  <2>2. CASE timeout(t)
    <3> DEFINE token == [tokens[t] EXCEPT !.expired = TRUE]
    <3>1. /\ token \in Token
          /\ token.state = tokens[t].state /\ token.user = tokens[t].user
          /\ token.phone = tokens[t].phone /\ token.called = tokens[t].called
          /\ token.told = tokens[t].told
      BY <1>1 DEF Token
    <3>2. tokens' = [tokens EXCEPT ![t] = token] /\ uses' = uses
      BY <2>2 DEF timeout, SetToken
    <3> QED
      BY <1>1, <3>1, <3>2, SetTokenKeeps DEF IInv, TokenFacts
  <2> QED
    BY <2>1, <2>2
<1>3. UNCHANGED <<owner, primary, deleted, req>>
  BY DEF call, timeout
<1>4. TypeOK'
  <2>1. uses' = uses
    BY DEF call, timeout
  <2> QED
    BY <1>2, <1>3, <2>1 DEF IInv, TypeOK
<1>5. OwnersKeep /\ SomePrimary' /\ Disjoint'
  BY <1>3 DEF IInv, OwnersKeep, SomePrimary, PhonesOf, PrimariesOf, Disjoint
<1>6. ReqFacts'
  <2> SUFFICES ASSUME NEW s \in Requests
               PROVE  (Proven(req[s]) /\ Chosen(req[s]) /\ Locked(req[s]))'
    BY DEF ReqFacts
  <2> QED
    BY <1>2, <1>3, <1>5, OthersKeep
<1> QED
  BY <1>2, <1>4, <1>5, <1>6 DEF IInv

-----------------------------------------------------------------------------
(* Steps of a request before its transaction.                              *)

LEMMA RequestType == IInv => \A r \in Requests : req[r] \in Request
BY DEF IInv, TypeOK

(* A request's slot is written, and it alone.                              *)
LEMMA BecomeWrites ==
  ASSUME IInv, NEW r \in Requests, NEW q \in Request, Become(r, q)
  PROVE  /\ req' \in [Requests -> Request] /\ req'[r] = q
         /\ \A s \in Requests \ {r} : req'[s] = req[s]
BY DEF IInv, TypeOK, Become

LEMMA RespondType ==
  ASSUME IInv, NEW r \in Requests, Respond(r)
  PROVE  req' \in [Requests -> Request]
<1>1. Idle \in Request
  BY DEF Idle, At, Request, Steps
<1> QED
  BY <1>1, BecomeWrites DEF Respond

LEMMA AtType ==
  ASSUME NEW step \in Steps, NEW u \in Users \cup {null},
         NEW p \in Numbers \cup {null}, NEW t \in Tokens \cup {null}
  PROVE  /\ At(step, u, p, t) \in Request
         /\ At(step, u, p, t).step = step /\ At(step, u, p, t).user = u
         /\ At(step, u, p, t).phone = p /\ At(step, u, p, t).token = t
         /\ ~At(step, u, p, t).exists /\ At(step, u, p, t).primary
         /\ At(step, u, p, t).holds = {}
BY DEF At, Request

LEMMA GoType ==
  ASSUME NEW q \in Request, NEW step \in Steps
  PROVE  /\ [q EXCEPT !.step = step] \in Request
         /\ [q EXCEPT !.step = step].step = step
         /\ [q EXCEPT !.step = step].user = q.user
         /\ [q EXCEPT !.step = step].phone = q.phone
         /\ [q EXCEPT !.step = step].token = q.token
         /\ [q EXCEPT !.step = step].add = q.add
         /\ [q EXCEPT !.step = step].exists = q.exists
         /\ [q EXCEPT !.step = step].primary = q.primary
         /\ [q EXCEPT !.step = step].holds = q.holds
BY DEF Request

LEMMA RequestPhoneChangeKeeps ==
  ASSUME IInv, NEW r \in Requests, NEW u \in Users, NEW p \in Numbers,
         requestPhoneChange(r, u, p)
  PROVE  IInv'
<1> DEFINE q == At("deleteTokens", u, p, null)
<1>1. /\ q \in Request /\ q.step = "deleteTokens" /\ q.user = u /\ q.phone = p
      /\ q.holds = {}
  BY AtType DEF Steps
<1>2. Become(r, q) /\ UNCHANGED <<owner, primary, tokens, deleted, uses>>
  BY DEF requestPhoneChange
<1> HIDE DEF q
<1>3. /\ req' \in [Requests -> Request] /\ req'[r] = q
      /\ \A s \in Requests \ {r} : req'[s] = req[s]
  BY <1>1, <1>2, BecomeWrites
<1>4. TypeOK' /\ TokensKeep /\ TokenFacts'
  BY <1>2, <1>3, SameTokens DEF IInv, TypeOK
<1>5. (Proven(req[r]) /\ Chosen(req[r]) /\ Locked(req[r]))'
  BY <1>1, <1>3 DEF Proven, Chosen, Locked, Confirms
<1> QED
  BY <1>1, <1>2, <1>3, <1>4, <1>5, MoveKeeps

LEMMA CheckPhoneCallbackStatusKeeps ==
  ASSUME IInv, NEW r \in Requests, NEW u \in Users,
         checkPhoneCallbackStatus(r, u)
  PROVE  IInv'
<1>1. PICK t \in Tokens :
        /\ tokens[t].state = "live"
        /\ Become(r, At(IF tokens[t].expired THEN "expire" ELSE "status",
                        u, null, t))
  BY DEF checkPhoneCallbackStatus
<1>2. UNCHANGED <<owner, primary, tokens, deleted, uses>>
  BY DEF checkPhoneCallbackStatus
<1> DEFINE step == IF tokens[t].expired THEN "expire" ELSE "status"
           q == At(step, u, null, t)
<1>3. step \in Steps /\ step \in {"expire", "status"}
  BY DEF Steps
<1>4. Become(r, q)
  BY <1>1
<1> HIDE DEF step
<1>5. q \in Request /\ q.step = step /\ q.token = t /\ q.holds = {}
  BY <1>3, AtType
<1> HIDE DEF q
<1>6. /\ req' \in [Requests -> Request] /\ req'[r] = q
      /\ \A s \in Requests \ {r} : req'[s] = req[s]
  BY <1>4, <1>5, BecomeWrites
<1>7. TypeOK' /\ TokensKeep /\ TokenFacts'
  BY <1>2, <1>6, SameTokens DEF IInv, TypeOK
<1>8. (Proven(req[r]) /\ Chosen(req[r]) /\ Locked(req[r]))'
  BY <1>1, <1>2, <1>3, <1>5, <1>6 DEF Proven, Chosen, Locked, Confirms
<1> QED
  BY <1>2, <1>5, <1>6, <1>7, <1>8, MoveKeeps

LEMMA ConfirmPhoneKeeps ==
  ASSUME IInv, NEW r \in Requests, NEW u \in Users, NEW t \in Tokens,
         NEW add \in BOOLEAN, NEW makePrimary \in BOOLEAN,
         confirmPhone(r, u, t, add, makePrimary)
  PROVE  IInv'
<1> DEFINE p == tokens[t].phone
           base == At("owner", u, p, t)
           q == [base EXCEPT !.add = add, !.primary = makePrimary]
<1>1. /\ tokens[t].state = "live" /\ tokens[t].user = u /\ tokens[t].called
      /\ p \in Numbers /\ t # null
  BY PhonesAssumption DEF confirmPhone, Usable, IInv, TokenFacts
<1>2. /\ q \in Request /\ q.step = "owner" /\ q.user = u /\ q.phone = p
      /\ q.token = t /\ ~q.exists /\ q.add = add /\ q.primary = makePrimary
      /\ q.holds = {}
  <2>1. /\ base \in Request /\ base.step = "owner" /\ base.user = u
        /\ base.phone = p /\ base.token = t /\ ~base.exists /\ base.holds = {}
    BY <1>1, AtType DEF Steps
  <2> HIDE DEF base
  <2> QED
    BY <2>1 DEF Request
<1>3. /\ Become(r, q) /\ UNCHANGED <<owner, primary, tokens, deleted, uses>>
      /\ add \/ makePrimary
  BY DEF confirmPhone
<1> HIDE DEF q
<1>4. /\ req' \in [Requests -> Request] /\ req'[r] = q
      /\ \A s \in Requests \ {r} : req'[s] = req[s]
  BY <1>2, <1>3, BecomeWrites
<1>5. TypeOK' /\ TokensKeep /\ TokenFacts'
  BY <1>3, <1>4, SameTokens DEF IInv, TypeOK
<1>6. (Proven(req[r]) /\ Chosen(req[r]) /\ Locked(req[r]))'
  BY <1>1, <1>2, <1>3, <1>4 DEF Proven, Chosen, Locked, Confirms
<1> QED
  BY <1>2, <1>3, <1>4, <1>5, <1>6, MoveKeeps

LEMMA SetPrimaryPhoneKeeps ==
  ASSUME IInv, NEW r \in Requests, NEW u \in Users, NEW p \in Numbers,
         setPrimaryPhone(r, u, p)
  PROVE  IInv'
<1> DEFINE base == At("clear", u, p, null)
           q == [base EXCEPT !.exists = TRUE]
<1>1. /\ q \in Request /\ q.step = "clear" /\ q.user = u /\ q.phone = p
      /\ q.token = null /\ q.exists /\ q.primary /\ q.holds = {}
  <2>1. /\ base \in Request /\ base.step = "clear" /\ base.user = u
        /\ base.phone = p /\ base.token = null /\ base.primary /\ base.holds = {}
    BY AtType DEF Steps
  <2> HIDE DEF base
  <2> QED
    BY <2>1 DEF Request
<1>2. Become(r, q) /\ UNCHANGED <<owner, primary, tokens, deleted, uses>>
  BY DEF setPrimaryPhone
<1> HIDE DEF q
<1>3. /\ req' \in [Requests -> Request] /\ req'[r] = q
      /\ \A s \in Requests \ {r} : req'[s] = req[s]
  BY <1>1, <1>2, BecomeWrites
<1>4. TypeOK' /\ TokensKeep /\ TokenFacts'
  BY <1>2, <1>3, SameTokens DEF IInv, TypeOK
<1>5. (Proven(req[r]) /\ Chosen(req[r]) /\ Locked(req[r]))'
  BY <1>1, <1>3 DEF Proven, Chosen, Locked, Confirms
<1> QED
  BY <1>1, <1>2, <1>3, <1>4, <1>5, MoveKeeps

(* What a move to another step keeps of a request that holds no rows.      *)
LEMMA GoKeeps ==
  ASSUME IInv, NEW r \in Requests, NEW step \in Steps, Go(r, step),
         UNCHANGED <<owner, primary, deleted>>,
         TokensKeep, TokenFacts', tokens' \in [Tokens -> Token], uses' = uses,
         req[r].holds = {},
         \/ req[r].step = "deleteTokens" /\ step = "createToken"
         \/ req[r].step = "owner" /\ step = "count" /\ req[r].add
         \/ req[r].step = "owner" /\ step = "clear" /\ ~req[r].add
  PROVE  IInv'
<1> DEFINE q == [req[r] EXCEPT !.step = step]
<1>1. req[r] \in Request /\ Proven(req[r]) /\ Chosen(req[r]) /\ Locked(req[r])
  BY RequestType DEF IInv, ReqFacts
<1>2. /\ q \in Request /\ q.step = step /\ q.user = req[r].user
      /\ q.phone = req[r].phone /\ q.token = req[r].token
      /\ q.add = req[r].add /\ q.exists = req[r].exists
      /\ q.primary = req[r].primary /\ q.holds = {}
  BY <1>1, GoType
<1>3. Become(r, q)
  BY DEF Go
<1> HIDE DEF q
<1>4. /\ req' \in [Requests -> Request] /\ req'[r] = q
      /\ \A s \in Requests \ {r} : req'[s] = req[s]
  BY <1>2, <1>3, BecomeWrites
<1>5. TypeOK'
  BY <1>4 DEF IInv, TypeOK
<1>6. Proven(req[r])'
  BY <1>1, <1>2, <1>4 DEF Proven, Confirms, TokensKeep
<1>7. (Chosen(req[r]) /\ Locked(req[r]))'
  BY <1>1, <1>2, <1>4 DEF Chosen, Locked
<1> QED
  BY <1>2, <1>4, <1>5, <1>6, <1>7, MoveKeeps

LEMMA TokenStepKeeps ==
  ASSUME IInv, NEW r \in Requests, TokenStep(r)
  PROVE  IInv'
<1>1. req[r] \in Request /\ Proven(req[r]) /\ Chosen(req[r]) /\ Locked(req[r])
  BY RequestType DEF IInv, ReqFacts
<1>2. CASE deleteTokens(r)
  <2>1. req[r].step = "deleteTokens" /\ req[r].holds = {} /\ req[r].user \in Users
    BY <1>1, <1>2 DEF deleteTokens, Locked, Proven
  <2>2. UNCHANGED <<owner, primary, deleted, uses>> /\ Go(r, "createToken")
    BY <1>2 DEF deleteTokens
  <2>3. TokensKeep /\ TokenFacts' /\ tokens' \in [Tokens -> Token]
    BY <1>2, <2>1, <2>2, DeleteManyKeeps DEF deleteTokens
  <2> QED
    BY <2>1, <2>2, <2>3, GoKeeps DEF Steps
<1>3. CASE createToken(r)
  <2>1. /\ req[r].user \in Users /\ req[r].phone \in Numbers
        /\ UNCHANGED <<owner, primary, deleted, uses>> /\ Respond(r)
    BY <1>1, <1>3 DEF createToken, Proven
  <2>2. PICK t \in Tokens : /\ tokens[t].state = "unborn"
                            /\ SetToken(t, Issued(req[r].user, req[r].phone))
    BY <1>3 DEF createToken
  <2> DEFINE token == Issued(req[r].user, req[r].phone)
  <2>3. /\ token \in Token /\ token.state = "live" /\ token.user \in Users
        /\ token.phone \in Numbers /\ ~token.told
    BY <2>1 DEF Issued, Token
  <2>4. uses[t] = 0
    BY <2>2 DEF IInv, TokenFacts, TypeOK
  <2>5. TokensKeep /\ TokenFacts' /\ tokens' \in [Tokens -> Token]
    BY <2>1, <2>2, <2>3, <2>4, SetTokenKeeps DEF SetToken
  <2>6. TypeOK'
    BY <2>1, <2>5, RespondType DEF IInv, TypeOK
  <2> QED
    BY <2>1, <2>5, <2>6, RespondKeeps
<1>4. CASE expire(r)
  <2>1. /\ req[r].token \in Tokens /\ tokens[req[r].token].state # "unborn"
        /\ UNCHANGED <<owner, primary, deleted, uses>> /\ Respond(r)
    BY <1>1, <1>4 DEF expire, Proven
  <2>2. TokensKeep /\ TokenFacts' /\ tokens' \in [Tokens -> Token]
    <3>1. CASE Delete(req[r].token)
      BY <2>1, <3>1, DeleteKeeps
    <3>2. CASE UNCHANGED tokens
      BY <2>1, <3>2, SameTokens DEF IInv, TypeOK
    <3> QED
      BY <1>4, <3>1, <3>2 DEF expire
  <2>3. TypeOK'
    BY <2>1, <2>2, RespondType DEF IInv, TypeOK
  <2> QED
    BY <2>1, <2>2, <2>3, RespondKeeps
<1>5. CASE status(r)
  <2> DEFINE t == req[r].token
             token == [tokens[t] EXCEPT !.told = @ \/ tokens[t].called]
  <2>1. /\ t \in Tokens /\ tokens[t].state # "unborn"
        /\ UNCHANGED <<owner, primary, deleted, uses>> /\ Respond(r)
    BY <1>1, <1>5 DEF status, Proven
  <2>2. tokens[t] \in Token
    BY <2>1 DEF IInv, TypeOK
  <2>3. /\ token \in Token
        /\ token.state = tokens[t].state /\ token.user = tokens[t].user
        /\ token.phone = tokens[t].phone /\ token.called = tokens[t].called
        /\ token.told <=> tokens[t].told \/ tokens[t].called
    BY <2>2 DEF Token
  <2>4. tokens' = [tokens EXCEPT ![t] = token]
    BY <1>5 DEF status, SetToken
  <2>5. TokensKeep /\ TokenFacts' /\ tokens' \in [Tokens -> Token]
    <3> HIDE DEF token, t
    <3>1. (tokens[t].told => tokens[t].called) /\ (uses[t] # 0 => tokens[t].state = "gone")
      BY <2>1 DEF IInv, TokenFacts
    <3>2. token.user \in Users /\ token.phone \in Numbers
      BY <2>1, <2>3 DEF IInv, TokenFacts
    <3> QED
      BY <2>1, <2>3, <2>4, <3>1, <3>2, SetTokenKeeps
  <2>6. TypeOK'
    BY <2>1, <2>5, RespondType DEF IInv, TypeOK
  <2> QED
    BY <2>1, <2>5, <2>6, RespondKeeps
<1> QED
  BY <1>2, <1>3, <1>4, <1>5 DEF TokenStep

-----------------------------------------------------------------------------
(* The transactions, until they commit.                                    *)

(* A request moves to a state of which its three facts are true.           *)
LEMMA BecomeKeeps ==
  ASSUME IInv, NEW r \in Requests, NEW q \in Request, Become(r, q),
         UNCHANGED <<owner, primary, tokens, deleted, uses>>,
         Proven(q), Chosen(q), Locked(q),
         \A s \in Requests \ {r} : q.holds \cap req[s].holds = {}
  PROVE  IInv'
<1>1. /\ req' \in [Requests -> Request] /\ req'[r] = q
      /\ \A s \in Requests \ {r} : req'[s] = req[s]
  BY BecomeWrites
<1>2. TypeOK' /\ TokensKeep /\ TokenFacts'
  BY <1>1, SameTokens DEF IInv, TypeOK
<1>3. (Proven(req[r]) /\ Chosen(req[r]) /\ Locked(req[r]))'
  BY <1>1 DEF Proven, Chosen, Locked, PhonesOf
<1> QED
  BY <1>1, <1>2, <1>3, MoveKeeps

LEMMA FailKeeps ==
  ASSUME IInv, NEW r \in Requests, Respond(r),
         UNCHANGED <<owner, primary, tokens, deleted, uses>>
  PROVE  IInv'
<1>1. TypeOK' /\ TokensKeep /\ TokenFacts'
  BY SameTokens, RespondType DEF IInv, TypeOK
<1> QED
  BY <1>1, RespondKeeps

LEMMA FindOwnerKeeps ==
  ASSUME IInv, NEW r \in Requests, findOwner(r)
  PROVE  IInv'
<1>1. req[r] \in Request /\ Proven(req[r]) /\ Chosen(req[r]) /\ Locked(req[r])
  BY RequestType DEF IInv, ReqFacts
<1>2. /\ req[r].step = "owner" /\ req[r].holds = {}
      /\ UNCHANGED <<owner, primary, tokens, deleted, uses>>
  BY <1>1 DEF findOwner, Locked
<1>3. CASE Go(r, IF req[r].add THEN "count" ELSE "clear")
  <2>1. TokensKeep /\ TokenFacts' /\ tokens' \in [Tokens -> Token]
    BY <1>2, SameTokens DEF IInv, TypeOK
  <2>2. CASE req[r].add
    BY <1>2, <1>3, <2>1, <2>2, GoKeeps DEF Steps
  <2>3. CASE ~req[r].add
    BY <1>2, <1>3, <2>1, <2>3, GoKeeps DEF Steps
  <2> QED
    BY <2>2, <2>3
<1>4. CASE /\ ~req[r].add
           /\ Become(r, [req[r] EXCEPT !.step = "clear", !.exists = TRUE])
  <2> DEFINE q == [req[r] EXCEPT !.step = "clear", !.exists = TRUE]
  <2>1. /\ q \in Request /\ q.step = "clear" /\ q.user = req[r].user
        /\ q.phone = req[r].phone /\ q.token = req[r].token /\ q.exists
        /\ q.primary = req[r].primary /\ q.holds = {}
    BY <1>1, <1>2 DEF Request, Steps
  <2> HIDE DEF q
  <2>2. Proven(q) /\ Chosen(q) /\ Locked(q)
    BY <1>1, <1>2, <1>4, <2>1 DEF Proven, Chosen, Locked, Confirms
  <2>3. Become(r, q)
    BY <1>4 DEF q
  <2> QED
    BY <1>2, <2>1, <2>2, <2>3, BecomeKeeps
<1>5. CASE Respond(r)
  BY <1>2, <1>5, FailKeeps
<1> QED
  BY <1>3, <1>4, <1>5 DEF findOwner

LEMMA CountKeeps ==
  ASSUME IInv, NEW r \in Requests, count(r)
  PROVE  IInv'
<1> DEFINE first == PhonesOf(req[r].user) = {}
           p == [req[r] EXCEPT !.primary = @ \/ first]
           step == IF p.primary THEN "clear" ELSE "write"
           q == [p EXCEPT !.step = step]
<1>1. req[r] \in Request /\ Proven(req[r]) /\ Chosen(req[r]) /\ Locked(req[r])
  BY RequestType DEF IInv, ReqFacts
<1>2. /\ req[r].step = "count" /\ req[r].holds = {} /\ ~req[r].exists
      /\ UNCHANGED <<owner, primary, tokens, deleted, uses>>
      /\ Become(r, q)
  BY <1>1 DEF count, Locked, Chosen
<1> HIDE DEF first
<1>3. /\ p \in Request /\ p.user = req[r].user /\ p.phone = req[r].phone
      /\ p.token = req[r].token /\ ~p.exists /\ p.holds = {}
      /\ p.primary <=> req[r].primary \/ first
  BY <1>1, <1>2 DEF Request
<1> HIDE DEF p
<1>4. /\ step \in Steps /\ step \in {"clear", "write"}
      /\ step = "clear" <=> p.primary
  BY DEF Steps
<1> HIDE DEF step
<1>5. /\ q \in Request /\ q.step = step /\ q.user = req[r].user
      /\ q.phone = req[r].phone /\ q.token = req[r].token /\ ~q.exists
      /\ q.holds = {} /\ q.primary = p.primary
  BY <1>3, <1>4, GoType
<1> HIDE DEF q
<1>6. Proven(q)
  BY <1>1, <1>2, <1>4, <1>5 DEF Proven, Confirms
<1>7. Chosen(q)
  BY <1>3, <1>4, <1>5 DEF Chosen, first
<1>8. Locked(q)
  BY <1>4, <1>5 DEF Locked
<1> QED
  BY <1>2, <1>5, <1>6, <1>7, <1>8, BecomeKeeps

LEMMA ClearKeeps ==
  ASSUME IInv, NEW r \in Requests, clear(r)
  PROVE  IInv'
<1> DEFINE q == [req[r] EXCEPT !.step = "clearing",
                               !.seen = PrimariesOf(req[r].user)]
<1>1. req[r] \in Request /\ Proven(req[r]) /\ Chosen(req[r]) /\ Locked(req[r])
  BY RequestType DEF IInv, ReqFacts
<1>2. /\ req[r].step = "clear" /\ req[r].holds = {}
      /\ UNCHANGED <<owner, primary, tokens, deleted, uses>> /\ Become(r, q)
  BY <1>1 DEF clear, Locked
<1>3. PrimariesOf(req[r].user) \subseteq Numbers
  BY DEF PrimariesOf, PhonesOf
<1>4. /\ q \in Request /\ q.step = "clearing" /\ q.user = req[r].user
      /\ q.phone = req[r].phone /\ q.token = req[r].token
      /\ q.exists = req[r].exists /\ q.primary = req[r].primary /\ q.holds = {}
  BY <1>1, <1>2, <1>3 DEF Request, Steps
<1> HIDE DEF q
<1>5. Proven(q) /\ Chosen(q) /\ Locked(q)
  BY <1>1, <1>2, <1>4 DEF Proven, Chosen, Locked, Confirms
<1> QED
  BY <1>2, <1>4, <1>5, BecomeKeeps

(* The rows that are cleared are the user's, and nobody else's.            *)
LEMMA ClearingKeeps ==
  ASSUME IInv, NEW r \in Requests, clearing(r)
  PROVE  IInv'
<1> DEFINE rows == req[r].holds \cup (req[r].seen \cap PrimariesOf(req[r].user))
           q == [req[r] EXCEPT !.step = "write", !.holds = rows]
<1>1. req[r] \in Request /\ Proven(req[r]) /\ Chosen(req[r]) /\ Locked(req[r])
  BY RequestType DEF IInv, ReqFacts
<1>2. /\ req[r].step = "clearing" /\ req[r].holds = {} /\ Free(r, req[r].seen)
      /\ req[r].primary
      /\ UNCHANGED <<owner, primary, tokens, deleted, uses>>
  BY <1>1 DEF clearing, Locked, Chosen
<1>3. Become(r, q)
  BY DEF clearing
<1>4. /\ rows \subseteq PhonesOf(req[r].user) /\ rows \subseteq Numbers
      /\ rows \subseteq req[r].seen
  BY <1>2 DEF PrimariesOf, PhonesOf
<1> HIDE DEF rows
<1>5. /\ q \in Request /\ q.step = "write" /\ q.user = req[r].user
      /\ q.phone = req[r].phone /\ q.token = req[r].token
      /\ q.exists = req[r].exists /\ q.primary = req[r].primary /\ q.holds = rows
  BY <1>1, <1>4 DEF Request, Steps
<1> HIDE DEF q
<1>6. Proven(q) /\ Chosen(q) /\ Locked(q)
  BY <1>1, <1>2, <1>4, <1>5 DEF Proven, Chosen, Locked, Confirms
<1>7. \A s \in Requests \ {r} : q.holds \cap req[s].holds = {}
  BY <1>2, <1>4, <1>5 DEF Free
<1> QED
  BY <1>2, <1>3, <1>5, <1>6, <1>7, BecomeKeeps

LEMMA WriteKeeps ==
  ASSUME IInv, NEW r \in Requests, write(r)
  PROVE  IInv'
<1> DEFINE rows == req[r].holds \cup {req[r].phone}
           q == [req[r] EXCEPT !.step = "commit", !.holds = rows]
<1>1. req[r] \in Request /\ Proven(req[r]) /\ Chosen(req[r]) /\ Locked(req[r])
  BY RequestType DEF IInv, ReqFacts
<1>2. /\ req[r].step = "write" /\ Free(r, {req[r].phone})
      /\ owner[req[r].phone] = (IF req[r].exists THEN req[r].user ELSE null)
      /\ UNCHANGED <<owner, primary, tokens, deleted, uses>>
  BY DEF write
<1>3. Become(r, q)
  BY DEF write
<1>4. /\ req[r].phone \in Numbers /\ rows \in SUBSET Numbers
      /\ req[r].holds \subseteq PhonesOf(req[r].user)
  BY <1>1, <1>2 DEF Proven, Confirms, Locked, Request
<1>5. /\ req[r].phone \in rows
      /\ rows \subseteq PhonesOf(req[r].user) \cup {req[r].phone}
      /\ req[r].holds \subseteq {req[r].phone} => rows \subseteq {req[r].phone}
      /\ \A s \in Requests \ {r} : rows \cap req[s].holds = {}
  BY <1>2, <1>4 DEF Free, IInv, Disjoint
<1> HIDE DEF rows
<1>6. /\ q \in Request /\ q.step = "commit" /\ q.user = req[r].user
      /\ q.phone = req[r].phone /\ q.token = req[r].token
      /\ q.exists = req[r].exists /\ q.primary = req[r].primary /\ q.holds = rows
  BY <1>1, <1>4 DEF Request, Steps
<1> HIDE DEF q
<1>7. Proven(q) /\ Chosen(q) /\ Locked(q)
  BY <1>1, <1>2, <1>5, <1>6 DEF Proven, Chosen, Locked, Confirms
<1> QED
  BY <1>2, <1>3, <1>5, <1>6, <1>7, BecomeKeeps

LEMMA DeletePhonesKeeps ==
  ASSUME IInv, NEW r \in Requests, NEW u \in Users, deletePhones(r, u)
  PROVE  IInv'
<1> DEFINE base == At("deletingPhones", u, null, null)
           q == [base EXCEPT !.seen = PhonesOf(u)]
<1>1. /\ base \in Request /\ base.step = "deletingPhones" /\ base.user = u
      /\ base.holds = {}
  BY AtType DEF Steps
<1>2. Become(r, q) /\ UNCHANGED <<owner, primary, tokens, deleted, uses>>
  BY DEF deletePhones
<1>3. PhonesOf(u) \subseteq Numbers
  BY DEF PhonesOf
<1> HIDE DEF base
<1>4. q \in Request /\ q.step = "deletingPhones" /\ q.user = u /\ q.holds = {}
  BY <1>1, <1>3 DEF Request
<1> HIDE DEF q
<1>5. Proven(q) /\ Chosen(q) /\ Locked(q)
  BY <1>4 DEF Proven, Chosen, Locked, Confirms
<1> QED
  BY <1>2, <1>4, <1>5, BecomeKeeps

LEMMA DeletingPhonesKeeps ==
  ASSUME IInv, NEW r \in Requests, deletingPhones(r)
  PROVE  IInv'
<1> DEFINE rows == req[r].seen \cap PhonesOf(req[r].user)
           q == [req[r] EXCEPT !.step = "deleteAccount", !.holds = rows]
<1>1. req[r] \in Request /\ Proven(req[r]) /\ Chosen(req[r]) /\ Locked(req[r])
  BY RequestType DEF IInv, ReqFacts
<1>2. /\ req[r].step = "deletingPhones" /\ Free(r, req[r].seen)
      /\ UNCHANGED <<owner, primary, tokens, deleted, uses>> /\ Become(r, q)
  BY DEF deletingPhones
<1>3. /\ rows \subseteq PhonesOf(req[r].user) /\ rows \subseteq Numbers
      /\ rows \subseteq req[r].seen
  BY DEF PhonesOf
<1> HIDE DEF rows
<1>4. /\ q \in Request /\ q.step = "deleteAccount" /\ q.user = req[r].user
      /\ q.holds = rows
  BY <1>1, <1>3 DEF Request, Steps
<1> HIDE DEF q
<1>5. Proven(q) /\ Chosen(q) /\ Locked(q)
  BY <1>1, <1>2, <1>3, <1>4 DEF Proven, Chosen, Locked, Confirms
<1>6. \A s \in Requests \ {r} : q.holds \cap req[s].holds = {}
  BY <1>2, <1>3, <1>4 DEF Free
<1> QED
  BY <1>2, <1>4, <1>5, <1>6, BecomeKeeps

-----------------------------------------------------------------------------
(* The commits.                                                            *)

LEMMA CommitKeeps ==
  ASSUME IInv, NEW r \in Requests, commit(r)
  PROVE  IInv'
<1> DEFINE q == req[r]
<1>1. q \in Request /\ Proven(q) /\ Chosen(q) /\ Locked(q)
  BY RequestType DEF IInv, ReqFacts
<1>2. /\ q.step = "commit" /\ q.user \in Users /\ q.phone \in Numbers
      /\ q.phone \in q.holds /\ q.holds \subseteq PhonesOf(q.user) \cup {q.phone}
      /\ owner[q.phone] = (IF q.exists THEN q.user ELSE null)
  BY <1>1 DEF commit, Proven, Locked, Confirms
<1>3. /\ owner' = [owner EXCEPT ![q.phone] = q.user]
      /\ primary' = [p \in Numbers |->
           IF p = q.phone THEN q.primary ELSE primary[p] /\ p \notin q.holds]
      /\ Respond(r) /\ UNCHANGED deleted
  BY DEF commit, Committed
<1>4. /\ owner \in [Numbers -> Users \cup {null}] /\ owner'[q.phone] = q.user
      /\ \A p \in Numbers \ {q.phone} : owner'[p] = owner[p]
  BY <1>2, <1>3 DEF IInv, TypeOK
<1>5. /\ TokensKeep /\ TokenFacts' /\ tokens' \in [Tokens -> Token]
      /\ uses' \in [Tokens -> Nat]
  <2>1. CASE q.token = null
    <3>1. UNCHANGED <<tokens, uses>>
      BY <2>1 DEF commit
    <3> QED
      BY <3>1, SameTokens DEF IInv, TypeOK
  <2>2. CASE q.token # null
    <3> DEFINE t == q.token
               token == [tokens[t] EXCEPT !.state = "gone"]
    <3>1. /\ t \in Tokens /\ tokens[t].state = "live" /\ Delete(t)
          /\ uses' = [uses EXCEPT ![t] = @ + 1]
      BY <1>1, <1>2, <2>2 DEF commit, Proven, Confirms
    <3>2. tokens \in [Tokens -> Token] /\ uses \in [Tokens -> Nat]
      BY DEF IInv, TypeOK
    <3>3. /\ token \in Token /\ token.state = "gone"
          /\ token.user = tokens[t].user /\ token.phone = tokens[t].phone
          /\ token.called = tokens[t].called /\ token.told = tokens[t].told
      BY <3>1, <3>2 DEF Token
    <3>4. tokens' = [tokens EXCEPT ![t] = token]
      BY <3>1 DEF Delete, SetToken
    <3> HIDE DEF token, t
    <3>5. uses[t] = 0
      BY <3>1 DEF IInv, TokenFacts
    <3>6. uses' \in [Tokens -> Nat]
      BY <3>1, <3>2
    <3>7. tokens' \in [Tokens -> Token] /\ TokensKeep
      BY <3>1, <3>2, <3>3, <3>4 DEF TokensKeep
    <3>8. TokenFacts'
      BY <3>1, <3>2, <3>3, <3>4, <3>5 DEF IInv, TokenFacts
    <3> QED
      BY <3>6, <3>7, <3>8
  <2> QED
    BY <2>1, <2>2
<1>6. TypeOK'
  <2>1. primary \in [Numbers -> BOOLEAN] /\ q.primary \in BOOLEAN
    BY <1>1 DEF IInv, TypeOK, Request
  <2>2. primary' \in [Numbers -> BOOLEAN]
    BY <1>3, <2>1
  <2>3. owner' \in [Numbers -> Users \cup {null}]
    BY <1>2, <1>3, <1>4
  <2> QED
    BY <1>3, <1>5, <2>2, <2>3, RespondType DEF IInv, TypeOK
<1>7. \A u \in Users : PhonesOf(u) \subseteq PhonesOf(u)'
  BY <1>2, <1>4, PhonesAssumption DEF PhonesOf
<1>8. OwnersKeep
  BY <1>3, <1>7 DEF OwnersKeep
<1>9. req'[r] = Idle /\ \A s \in Requests \ {r} : req'[s] = req[s]
  BY <1>3 DEF Respond, Become, IInv, TypeOK
<1>10. Idle.step = "idle" /\ Idle.holds = {}
  BY DEF Idle, At
<1>11. ReqFacts'
  <2>1. (Proven(req[r]) /\ Chosen(req[r]) /\ Locked(req[r]))'
    BY <1>9, <1>10 DEF Proven, Chosen, Locked, Confirms
  <2>2. ASSUME NEW s \in Requests, s # r
        PROVE  (Proven(req[s]) /\ Chosen(req[s]) /\ Locked(req[s]))'
    <3>1. \A p \in req[s].holds : owner'[p] = owner[p]
      BY <1>2, <1>4, <2>2, RequestType DEF IInv, Disjoint, Request
    <3> QED
      BY <1>5, <1>8, <1>9, <2>2, <3>1, OthersKeep
  <2> QED
    BY <2>1, <2>2 DEF ReqFacts
<1>12. Disjoint'
  BY <1>9, <1>10 DEF IInv, Disjoint
<1>13. SomePrimary'
  <2> SUFFICES ASSUME NEW u \in Users, u \notin deleted', PhonesOf(u)' # {}
               PROVE  PrimariesOf(u)' # {}
    BY DEF SomePrimary
  <2>1. u \notin deleted
    BY <1>3
  <2>2. CASE u = q.user /\ q.primary
    BY <1>2, <1>3, <1>4, <2>2 DEF PrimariesOf, PhonesOf
  <2>3. CASE u = q.user /\ ~q.primary
    <3>1. PhonesOf(u) # {} /\ q.holds \subseteq {q.phone} /\ owner[q.phone] = null
      BY <1>1, <1>2, <2>1, <2>3 DEF Chosen
    <3>2. PICK p \in Numbers : owner[p] = u /\ primary[p]
      BY <2>1, <3>1 DEF IInv, SomePrimary, PrimariesOf, PhonesOf
    <3>3. p # q.phone /\ p \notin q.holds
      BY <3>1, <3>2, PhonesAssumption
    <3> QED
      BY <1>3, <1>4, <3>2, <3>3 DEF PrimariesOf, PhonesOf
  <2>4. CASE u # q.user
    <3>1. PhonesOf(u) # {}
      BY <1>4, <2>4 DEF PhonesOf
    <3>2. PICK p \in Numbers : owner[p] = u /\ primary[p]
      BY <2>1, <3>1 DEF IInv, SomePrimary, PrimariesOf, PhonesOf
    <3>3. p # q.phone /\ p \notin q.holds
      BY <1>2, <2>4, <3>2, PhonesAssumption DEF PhonesOf
    <3> QED
      BY <1>3, <1>4, <3>2, <3>3 DEF PrimariesOf, PhonesOf
  <2> QED
    BY <2>2, <2>3, <2>4
<1> QED
  BY <1>5, <1>6, <1>11, <1>12, <1>13 DEF IInv

LEMMA DeleteAccountKeeps ==
  ASSUME IInv, NEW r \in Requests, deleteAccount(r)
  PROVE  IInv'
<1> DEFINE q == req[r]
<1>1. q \in Request /\ Proven(q) /\ Locked(q)
  BY RequestType DEF IInv, ReqFacts
<1>2. q.user \in Users /\ q.holds \subseteq PhonesOf(q.user)
  BY <1>1 DEF deleteAccount, Proven, Locked
<1>3. /\ owner' = [p \in Numbers |-> IF p \in q.holds THEN null ELSE owner[p]]
      /\ primary' = [p \in Numbers |-> primary[p] /\ p \notin q.holds]
      /\ deleted' = deleted \cup {q.user}
      /\ Respond(r) /\ uses' = uses
  BY DEF deleteAccount
<1>4. TokensKeep /\ TokenFacts' /\ tokens' \in [Tokens -> Token]
  BY <1>2, DeleteManyKeeps DEF deleteAccount
<1>5. TypeOK'
  <2>1. /\ owner \in [Numbers -> Users \cup {null}]
        /\ primary \in [Numbers -> BOOLEAN] /\ deleted \subseteq Users
    BY DEF IInv, TypeOK
  <2>2. primary' \in [Numbers -> BOOLEAN]
    BY <1>3, <2>1
  <2>3. owner' \in [Numbers -> Users \cup {null}] /\ deleted' \subseteq Users
    BY <1>2, <1>3, <2>1
  <2> QED
    BY <1>3, <1>4, <2>2, <2>3, RespondType DEF IInv, TypeOK
<1>6. \A u \in Users \ {q.user} : /\ PhonesOf(u)' = PhonesOf(u)
                                 /\ PrimariesOf(u)' = PrimariesOf(u)
  <2> SUFFICES ASSUME NEW u \in Users, u # q.user, NEW p \in Numbers
               PROVE  /\ owner'[p] = u <=> owner[p] = u
                      /\ owner[p] = u => (primary'[p] <=> primary[p])
    BY DEF PhonesOf, PrimariesOf
  <2> QED
    BY <1>2, <1>3, PhonesAssumption DEF PhonesOf
<1>7. OwnersKeep /\ SomePrimary'
  BY <1>3, <1>6 DEF OwnersKeep, IInv, SomePrimary
<1>8. req'[r] = Idle /\ \A s \in Requests \ {r} : req'[s] = req[s]
  BY <1>3 DEF Respond, Become, IInv, TypeOK
<1>9. Idle.step = "idle" /\ Idle.holds = {}
  BY DEF Idle, At
<1>10. ReqFacts'
  <2>1. (Proven(req[r]) /\ Chosen(req[r]) /\ Locked(req[r]))'
    BY <1>8, <1>9 DEF Proven, Chosen, Locked, Confirms
  <2>2. ASSUME NEW s \in Requests, s # r
        PROVE  (Proven(req[s]) /\ Chosen(req[s]) /\ Locked(req[s]))'
    <3>1. \A p \in req[s].holds : owner'[p] = owner[p]
      BY <1>3, <2>2, RequestType DEF IInv, Disjoint, Request
    <3> QED
      BY <1>4, <1>7, <1>8, <2>2, <3>1, OthersKeep
  <2> QED
    BY <2>1, <2>2 DEF ReqFacts
<1>11. Disjoint'
  BY <1>8, <1>9 DEF IInv, Disjoint
<1> QED
  BY <1>4, <1>5, <1>7, <1>10, <1>11 DEF IInv

-----------------------------------------------------------------------------
(* How a number gets and loses its owner.                                  *)

LEMMA OwnerMoves ==
  ASSUME IInv, [Next]_vars, NEW p \in Numbers, owner'[p] # owner[p]
  PROVE  \/ \E r \in Requests : commit(r) /\ p = req[r].phone
         \/ \E r \in Requests : deleteAccount(r) /\ p \in req[r].holds
<1>1. UNCHANGED owner \/ \E r \in Requests : commit(r) \/ deleteAccount(r)
  BY DEF Next, vars, Start, TokenStep, TransactionStep, Fail, call, timeout,
         requestPhoneChange, setPrimaryPhone, checkPhoneCallbackStatus,
         confirmPhone, deletePhones, deleteTokens, createToken, expire, status,
         findOwner, count, clear, clearing, write, deletingPhones
<1>2. ASSUME NEW r \in Requests, commit(r)
      PROVE  p = req[r].phone
  BY <1>2 DEF commit, Committed, IInv, TypeOK
<1>3. ASSUME NEW r \in Requests, deleteAccount(r)
      PROVE  p \in req[r].holds
  BY <1>3 DEF deleteAccount, IInv, TypeOK
<1> QED
  BY <1>1, <1>2, <1>3

(* What a commit knows of its number.                                      *)
LEMMA CommitSound ==
  ASSUME IInv, NEW r \in Requests, commit(r), owner'[req[r].phone] # owner[req[r].phone]
  PROVE  /\ owner[req[r].phone] = null
         /\ owner'[req[r].phone] = req[r].user
         /\ req[r].token \in Tokens
         /\ tokens[req[r].token].user = req[r].user
         /\ tokens[req[r].token].phone = req[r].phone
         /\ tokens[req[r].token].called
<1> DEFINE q == req[r]
<1>1. q \in Request /\ Proven(q) /\ Locked(q) /\ q.step = "commit"
  BY RequestType DEF IInv, ReqFacts, commit
<1>2. q.phone \in Numbers /\ owner'[q.phone] = q.user
  BY <1>1 DEF commit, Committed, Proven, Confirms, IInv, TypeOK
<1>3. ~q.exists /\ owner[q.phone] = null
  BY <1>1, <1>2 DEF Locked
<1> QED
  BY <1>1, <1>2, <1>3 DEF Proven, Confirms

LEMMA StepIInv ==
  ASSUME IInv, [Next]_vars
  PROVE  IInv'
<1>1. ASSUME NEW r \in Requests, NEW u \in Users, Start(r, u)
      PROVE  IInv'
  BY <1>1, RequestPhoneChangeKeeps, SetPrimaryPhoneKeeps, ConfirmPhoneKeeps,
     CheckPhoneCallbackStatusKeeps, DeletePhonesKeeps DEF Start
<1>2. ASSUME NEW r \in Requests, TransactionStep(r)
      PROVE  IInv'
  BY <1>2, FindOwnerKeeps, CountKeeps, ClearKeeps, ClearingKeeps, WriteKeeps,
     CommitKeeps, DeletingPhonesKeeps, DeleteAccountKeeps DEF TransactionStep
<1>3. ASSUME NEW r \in Requests, Fail(r)
      PROVE  IInv'
  BY <1>3, FailKeeps DEF Fail
<1>4. ASSUME UNCHANGED vars
      PROVE  IInv'
  <2>1. TypeOK' /\ SomePrimary' /\ Disjoint' /\ TokenFacts'
    BY <1>4 DEF vars, IInv, TypeOK, SomePrimary, PhonesOf, PrimariesOf,
                Disjoint, TokenFacts
  <2>2. ReqFacts'
    BY <1>4 DEF vars, IInv, ReqFacts, Proven, Chosen, Locked, PhonesOf
  <2> QED
    BY <2>1, <2>2 DEF IInv
<1> QED
  BY <1>1, <1>2, <1>3, <1>4, TokenStepKeeps, WorldKeeps DEF Next

-----------------------------------------------------------------------------
(* Requests that come one by one: the transaction under way finds the rows *)
(* as it left them.                                                        *)

Single == \A r, s \in Requests :
            req[r].step # "idle" /\ req[s].step # "idle" => r = s

Fresh(q) ==
  /\ q.step # "idle" => q.user \in Users \ deleted
  /\ q.step = "clearing" => q.seen = PrimariesOf(q.user)
  /\ q.step \in {"write", "commit"} /\ q.primary =>
       PrimariesOf(q.user) \subseteq q.holds
  /\ q.step = "deletingPhones" => q.seen = PhonesOf(q.user)
  /\ q.step = "deleteAccount" => q.holds = PhonesOf(q.user)

OnePrimaryEach == \A u \in Users : \A p, q \in PrimariesOf(u) : p = q

DeletedHaveNone == \A u \in deleted : PhonesOf(u) = {}

OneByOne ==
  calm => /\ Single /\ \A r \in Requests : Fresh(req[r])
          /\ OnePrimaryEach /\ DeletedHaveNone

(* What a database has that earlier requests left, one by one.             *)
OnePrimaryAtFirst ==
  \A p, q \in InitialPrimary : InitialOwner[p] = InitialOwner[q] => p = q

LEMMA InitOneByOne ==
  ASSUME OnePrimaryAtFirst, Init
  PROVE  OneByOne
<1>1. \A r \in Requests : req[r].step = "idle"
  BY DEF Init, Idle, At
<1>2. ASSUME NEW u \in Users, NEW p \in PrimariesOf(u)
      PROVE  p \in InitialPrimary /\ InitialOwner[p] = u
  BY DEF Init, PrimariesOf, PhonesOf
<1>3. OnePrimaryEach
  BY <1>2 DEF OnePrimaryAtFirst, OnePrimaryEach
<1>4. DeletedHaveNone
  BY DEF Init, DeletedHaveNone
<1> QED
  BY <1>1, <1>3, <1>4 DEF OneByOne, Single, Fresh

(* Beside the request whose step it is nobody is busy.                     *)
LEMMA AloneStep ==
  ASSUME Single, NEW r \in Requests,
         \/ req[r].step # "idle"
         \/ \A s \in Requests : req[s].step = "idle",
         \A s \in Requests \ {r} : req'[s] = req[s]
  PROVE  Single' /\ \A s \in Requests \ {r} : req'[s].step = "idle"
  BY DEF Single

(* A step that leaves the numbers alone.                                   *)
LEMMA QuietStep ==
  ASSUME Single, OnePrimaryEach, DeletedHaveNone, NEW r \in Requests,
         \/ req[r].step # "idle"
         \/ \A s \in Requests : req[s].step = "idle",
         \A s \in Requests \ {r} : req'[s] = req[s],
         UNCHANGED <<owner, primary, deleted>>, Fresh(req[r])'
  PROVE  OneByOne'
<1>1. Single' /\ \A s \in Requests \ {r} : Fresh(req[s])'
  BY AloneStep DEF Fresh
<1>2. OnePrimaryEach' /\ DeletedHaveNone'
  BY DEF OnePrimaryEach, DeletedHaveNone, PrimariesOf, PhonesOf
<1> QED
  BY <1>1, <1>2 DEF OneByOne

LEMMA StartShape ==
  ASSUME NEW r \in Requests, NEW u \in Users, Start(r, u)
  PROVE  /\ u \notin deleted /\ UNCHANGED <<owner, primary, deleted>>
         /\ \E q : /\ Become(r, q) /\ q.user = u
                   /\ \/ q.step \in {"deleteTokens", "expire", "status",
                                     "owner", "clear"}
                      \/ q.step = "deletingPhones" /\ q.seen = PhonesOf(u)
<1>1. CASE \E p \in Numbers : requestPhoneChange(r, u, p)
  <2>1. PICK p \in Numbers : requestPhoneChange(r, u, p)
    BY <1>1
  <2>2. /\ At("deleteTokens", u, p, null).user = u
        /\ At("deleteTokens", u, p, null).step = "deleteTokens"
    BY DEF At
  <2> QED
    BY <2>1, <2>2 DEF requestPhoneChange, Begin
<1>2. CASE \E p \in Numbers : setPrimaryPhone(r, u, p)
  <2>1. PICK p \in Numbers : setPrimaryPhone(r, u, p)
    BY <1>2
  <2> DEFINE q == [At("clear", u, p, null) EXCEPT !.exists = TRUE]
  <2>2. q.user = u /\ q.step = "clear"
    BY DEF At
  <2>3. Become(r, q)
    BY <2>1 DEF setPrimaryPhone
  <2> HIDE DEF q
  <2> QED
    BY <2>1, <2>2, <2>3 DEF setPrimaryPhone, Begin
<1>3. CASE checkPhoneCallbackStatus(r, u)
  <2>1. PICK t \in Tokens :
          Become(r, At(IF tokens[t].expired THEN "expire" ELSE "status",
                       u, null, t))
    BY <1>3 DEF checkPhoneCallbackStatus
  <2> DEFINE q == At(IF tokens[t].expired THEN "expire" ELSE "status",
                     u, null, t)
  <2>2. q.user = u /\ q.step \in {"expire", "status"}
    BY DEF At
  <2>3. Become(r, q)
    BY <2>1
  <2> HIDE DEF q
  <2> QED
    BY <1>3, <2>2, <2>3 DEF checkPhoneCallbackStatus, Begin
<1>4. CASE \E t \in Tokens, add, makePrimary \in BOOLEAN :
             confirmPhone(r, u, t, add, makePrimary)
  <2>1. PICK t \in Tokens, add \in BOOLEAN, makePrimary \in BOOLEAN :
          confirmPhone(r, u, t, add, makePrimary)
    BY <1>4
  <2> DEFINE q == [At("owner", u, tokens[t].phone, t) EXCEPT
                     !.add = add, !.primary = makePrimary]
  <2>2. q.user = u /\ q.step = "owner"
    BY DEF At
  <2>3. Become(r, q)
    BY <2>1 DEF confirmPhone
  <2> HIDE DEF q
  <2> QED
    BY <2>1, <2>2, <2>3 DEF confirmPhone, Begin
<1>5. CASE deletePhones(r, u)
  <2> DEFINE q == [At("deletingPhones", u, null, null) EXCEPT
                     !.seen = PhonesOf(u)]
  <2>1. q.user = u /\ q.step = "deletingPhones" /\ q.seen = PhonesOf(u)
    BY DEF At
  <2>2. Become(r, q)
    BY <1>5 DEF deletePhones
  <2> HIDE DEF q
  <2> QED
    BY <1>5, <2>1, <2>2 DEF deletePhones, Begin
<1> QED
  BY <1>1, <1>2, <1>3, <1>4, <1>5 DEF Start

LEMMA StartAlone ==
  ASSUME IInv, Single, OnePrimaryEach, DeletedHaveNone,
         NEW r \in Requests, NEW u \in Users, Start(r, u),
         \A s \in Requests : req[s].step = "idle"
  PROVE  OneByOne'
<1>1. PICK q : /\ Become(r, q) /\ q.user = u
               /\ \/ q.step \in {"deleteTokens", "expire", "status", "owner",
                                 "clear"}
                  \/ q.step = "deletingPhones" /\ q.seen = PhonesOf(u)
  BY StartShape
<1>2. u \notin deleted /\ UNCHANGED <<owner, primary, deleted>>
  BY StartShape
<1>3. req'[r] = q /\ \A s \in Requests \ {r} : req'[s] = req[s]
  BY <1>1 DEF IInv, TypeOK, Become
<1>4. PhonesOf(u)' = PhonesOf(u)
  BY <1>2 DEF PhonesOf
<1>5. Fresh(req[r])'
  BY <1>1, <1>2, <1>3, <1>4 DEF Fresh
<1> QED
  BY <1>2, <1>3, <1>5, QuietStep

(* A handler goes on: what it has just read is what is there.              *)
LEMMA HandlerAlone ==
  ASSUME IInv, Single, OnePrimaryEach, DeletedHaveNone,
         NEW r \in Requests, Fresh(req[r]),
         \/ TokenStep(r) \/ Fail(r)
         \/ findOwner(r) \/ count(r) \/ clear(r) \/ clearing(r) \/ write(r)
         \/ deletingPhones(r)
  PROVE  OneByOne'
<1>1. /\ req[r].step # "idle" /\ UNCHANGED <<owner, primary, deleted>>
      /\ req[r].user \in Users \ deleted
  BY DEF Fresh, TokenStep, deleteTokens, createToken, expire, status, Fail,
     findOwner, count, clear, clearing, write, deletingPhones
<1>2. req[r] \in Request /\ req \in [Requests -> Request]
  BY DEF IInv, TypeOK
<1>3. /\ \A u : PhonesOf(u)' = PhonesOf(u)
      /\ \A u : PrimariesOf(u)' = PrimariesOf(u)
  BY <1>1 DEF PrimariesOf, PhonesOf
<1>4. CASE Respond(r)
  <2>1. /\ req'[r].step = "idle"
        /\ \A s \in Requests \ {r} : req'[s] = req[s]
    BY <1>2, <1>4 DEF Respond, Become, Idle, At
  <2>2. Fresh(req[r])'
    BY <2>1 DEF Fresh
  <2> QED
    BY <1>1, <2>1, <2>2, QuietStep
<1>5. ASSUME NEW q \in Request, Become(r, q), q.user = req[r].user,
             q.step = "clearing" => q.seen = PrimariesOf(q.user),
             q.step \in {"write", "commit"} /\ q.primary =>
               PrimariesOf(q.user) \subseteq q.holds,
             q.step # "deletingPhones",
             q.step = "deleteAccount" => q.holds = PhonesOf(q.user)
      PROVE  OneByOne'
  <2>1. req'[r] = q /\ \A s \in Requests \ {r} : req'[s] = req[s]
    BY <1>2, <1>5 DEF Become
  <2>2. Fresh(req[r])'
    BY <1>1, <1>3, <1>5, <2>1 DEF Fresh
  <2> QED
    BY <1>1, <2>1, <2>2, QuietStep
<1>6. CASE deleteTokens(r)
  <2>1. Become(r, [req[r] EXCEPT !.step = "createToken"])
    BY <1>6 DEF deleteTokens, Go
  <2>2. \A q : q = [req[r] EXCEPT !.step = "createToken"] =>
          q \in Request /\ q.user = req[r].user /\ q.step = "createToken"
    BY <1>2 DEF Request, Steps
  <2> QED
    BY <1>5, <2>1, <2>2
<1>7. CASE findOwner(r) /\ ~Respond(r)
  <2>1. PICK exists \in BOOLEAN, step \in {"count", "clear"} :
          Become(r, [req[r] EXCEPT !.step = step, !.exists = exists])
    <3>1. CASE Go(r, IF req[r].add THEN "count" ELSE "clear")
      <4>1. [req[r] EXCEPT !.step = IF req[r].add THEN "count" ELSE "clear"]
              = [req[r] EXCEPT !.step = IF req[r].add THEN "count" ELSE "clear",
                               !.exists = req[r].exists]
        BY <1>2 DEF Request
      <4>2. req[r].exists \in BOOLEAN
        BY <1>2 DEF Request
      <4> QED
        BY <3>1, <4>1, <4>2 DEF Go
    <3>2. CASE Become(r, [req[r] EXCEPT !.step = "clear", !.exists = TRUE])
      BY <3>2
    <3> QED
      BY <1>7, <3>1, <3>2 DEF findOwner
  <2>2. \A q : q = [req[r] EXCEPT !.step = step, !.exists = exists] =>
          q \in Request /\ q.user = req[r].user /\ q.step \in {"count", "clear"}
    BY <1>2 DEF Request, Steps
  <2> QED
    BY <1>5, <2>1, <2>2
<1>8. CASE count(r)
  <2> DEFINE q0 == [req[r] EXCEPT !.primary = @ \/ PhonesOf(req[r].user) = {}]
             q == [q0 EXCEPT !.step = IF q0.primary THEN "clear" ELSE "write"]
  <2>1. Become(r, q)
    BY <1>8 DEF count
  <2>2. q0 \in Request /\ q0.user = req[r].user
    BY <1>2 DEF Request
  <2>3. /\ q \in Request /\ q.user = q0.user /\ q.primary = q0.primary
        /\ q.step = IF q0.primary THEN "clear" ELSE "write"
    <3> HIDE DEF q0
    <3> QED
      BY <2>2 DEF Request, Steps
  <2> HIDE DEF q, q0
  <2> QED
    BY <1>5, <2>1, <2>2, <2>3
<1>9. CASE clear(r)
  <2> DEFINE q == [req[r] EXCEPT !.step = "clearing",
                                 !.seen = PrimariesOf(req[r].user)]
  <2>1. Become(r, q)
    BY <1>9 DEF clear
  <2>2. PrimariesOf(req[r].user) \subseteq Numbers
    BY DEF PrimariesOf, PhonesOf
  <2>3. /\ q \in Request /\ q.user = req[r].user /\ q.step = "clearing"
        /\ q.seen = PrimariesOf(q.user)
    BY <1>2, <2>2 DEF Request, Steps
  <2> HIDE DEF q
  <2> QED
    BY <1>5, <2>1, <2>3
<1>10. CASE clearing(r)
  <2> DEFINE taken == req[r].holds \cup (req[r].seen \cap PrimariesOf(req[r].user))
             q == [req[r] EXCEPT !.step = "write", !.holds = taken]
  <2>1. Become(r, q)
    BY <1>10 DEF clearing
  <2>2. taken \subseteq Numbers /\ PrimariesOf(req[r].user) \subseteq taken
    BY <1>2, <1>10 DEF Request, Fresh, clearing
  <2> HIDE DEF taken
  <2>3. /\ q \in Request /\ q.user = req[r].user /\ q.step = "write"
        /\ q.holds = taken
    BY <1>2, <2>2 DEF Request, Steps
  <2> HIDE DEF q
  <2> QED
    BY <1>5, <2>1, <2>2, <2>3
<1>11. CASE write(r)
  <2> DEFINE taken == req[r].holds \cup {req[r].phone}
             q == [req[r] EXCEPT !.step = "commit", !.holds = taken]
  <2>1. Become(r, q)
    BY <1>11 DEF write
  <2>2. taken \subseteq Numbers
    BY <1>2, <1>11 DEF IInv, ReqFacts, Proven, Confirms, Request, write
  <2>3. req[r].primary => PrimariesOf(req[r].user) \subseteq taken
    BY <1>11 DEF Fresh, write
  <2> HIDE DEF taken
  <2>4. /\ q \in Request /\ q.user = req[r].user /\ q.step = "commit"
        /\ q.holds = taken /\ q.primary = req[r].primary
    BY <1>2, <2>2 DEF Request, Steps
  <2> HIDE DEF q
  <2> QED
    BY <1>5, <2>1, <2>3, <2>4
<1>12. CASE deletingPhones(r)
  <2> DEFINE taken == req[r].seen \cap PhonesOf(req[r].user)
             q == [req[r] EXCEPT !.step = "deleteAccount", !.holds = taken]
  <2>1. Become(r, q)
    BY <1>12 DEF deletingPhones
  <2>2. taken \subseteq Numbers /\ taken = PhonesOf(req[r].user)
    BY <1>2, <1>12 DEF Request, Fresh, deletingPhones
  <2> HIDE DEF taken
  <2>3. /\ q \in Request /\ q.user = req[r].user /\ q.step = "deleteAccount"
        /\ q.holds = taken
    BY <1>2, <2>2 DEF Request, Steps
  <2> HIDE DEF q
  <2> QED
    BY <1>5, <2>1, <2>2, <2>3
<1> QED
  BY <1>4, <1>6, <1>7, <1>8, <1>9, <1>10, <1>11, <1>12
  DEF TokenStep, createToken, expire, status, Fail

(* The number chosen becomes the only primary one, of a living account.    *)
LEMMA CommitAlone ==
  ASSUME IInv, Single, OnePrimaryEach, DeletedHaveNone,
         NEW r \in Requests, Fresh(req[r]), commit(r)
  PROVE  OneByOne'
<1> DEFINE u == req[r].user
           x == req[r].phone
<1>1. /\ req[r].step = "commit" /\ UNCHANGED deleted
      /\ owner' = [owner EXCEPT ![x] = u]
      /\ primary' = [p \in Numbers |->
           IF p = x THEN req[r].primary ELSE primary[p] /\ p \notin req[r].holds]
  BY DEF commit, Committed
<1>2. /\ u \in Users \ deleted /\ x \in Numbers
      /\ req[r].primary => PrimariesOf(u) \subseteq req[r].holds
      /\ owner[x] \in {u, null}
  BY <1>1 DEF Fresh, IInv, ReqFacts, Proven, Confirms, Locked
<1>3. /\ req'[r].step = "idle" /\ \A s \in Requests \ {r} : req'[s] = req[s]
  BY DEF IInv, TypeOK, commit, Respond, Become, Idle, At
<1>4. Single' /\ \A s \in Requests : req'[s].step = "idle"
  BY <1>1, <1>3, AloneStep
<1>5. \A s \in Requests : Fresh(req[s])'
  BY <1>4 DEF Fresh
<1> HIDE DEF u, x
<1>6. owner \in [Numbers -> Users \cup {null}]
  BY DEF IInv, TypeOK
<1>7. DeletedHaveNone'
  BY <1>1, <1>2, <1>6 DEF DeletedHaveNone, PhonesOf
<1>8. ASSUME NEW v \in Users, NEW p \in PrimariesOf(v)'
      PROVE  IF p = x THEN v = u /\ req[r].primary
             ELSE p \in PrimariesOf(v) /\ (v = u => ~req[r].primary)
  BY <1>1, <1>2, <1>6, <1>8 DEF PrimariesOf, PhonesOf
<1>9. OnePrimaryEach'
  BY <1>8 DEF OnePrimaryEach
<1> QED
  BY <1>4, <1>5, <1>7, <1>9 DEF OneByOne

LEMMA DeleteAlone ==
  ASSUME IInv, Single, OnePrimaryEach, DeletedHaveNone,
         NEW r \in Requests, Fresh(req[r]), deleteAccount(r)
  PROVE  OneByOne'
<1>1. /\ req[r].step = "deleteAccount" /\ req[r].holds = PhonesOf(req[r].user)
      /\ owner' = [p \in Numbers |-> IF p \in req[r].holds THEN null ELSE owner[p]]
      /\ primary' = [p \in Numbers |-> primary[p] /\ p \notin req[r].holds]
      /\ deleted' = deleted \cup {req[r].user}
  BY DEF Fresh, deleteAccount
<1>2. /\ req'[r].step = "idle" /\ \A s \in Requests \ {r} : req'[s] = req[s]
  BY DEF IInv, TypeOK, deleteAccount, Respond, Become, Idle, At
<1>3. Single' /\ \A s \in Requests : req'[s].step = "idle"
  BY <1>1, <1>2, AloneStep
<1>4. \A s \in Requests : Fresh(req[s])'
  BY <1>3 DEF Fresh
<1>5. \A v \in Users : PhonesOf(v)' \subseteq PhonesOf(v) \ req[r].holds
  BY <1>1, PhonesAssumption DEF PhonesOf
<1>6. \A v \in Users : PrimariesOf(v)' \subseteq PrimariesOf(v)
  BY <1>1, <1>5 DEF PrimariesOf, PhonesOf
<1>7. deleted' \subseteq Users
  BY <1>1 DEF IInv, TypeOK, Fresh
<1>8. DeletedHaveNone' /\ OnePrimaryEach'
  BY <1>1, <1>5, <1>6, <1>7 DEF DeletedHaveNone, OnePrimaryEach
<1> QED
  BY <1>3, <1>4, <1>8 DEF OneByOne

LEMMA StepOneByOne ==
  ASSUME IInv, OneByOne, Next, calm' = (calm /\ ~(Busy /\ Begins))
  PROVE  OneByOne'
<1> SUFFICES ASSUME calm'
             PROVE  OneByOne'
  BY DEF OneByOne
<1>1. /\ Single /\ OnePrimaryEach /\ DeletedHaveNone
      /\ \A r \in Requests : Fresh(req[r])
      /\ ~(Busy /\ Begins)
  BY DEF OneByOne
<1>2. ASSUME NEW r \in Requests, NEW u \in Users, Start(r, u)
      PROVE  OneByOne'
  <2>1. \A s \in Requests : req[s].step = "idle"
    BY <1>1, <1>2 DEF Busy, Begins
  <2> QED
    BY <1>1, <1>2, <2>1, StartAlone
<1>3. ASSUME NEW r \in Requests, TokenStep(r) \/ TransactionStep(r) \/ Fail(r)
      PROVE  OneByOne'
  BY <1>1, <1>3, HandlerAlone, CommitAlone, DeleteAlone DEF TransactionStep
<1>4. ASSUME UNCHANGED <<owner, primary, deleted, req>>
      PROVE  OneByOne'
  BY <1>1, <1>4 DEF OneByOne, Single, Fresh, OnePrimaryEach, DeletedHaveNone,
     PrimariesOf, PhonesOf
<1> QED
  BY <1>2, <1>3, <1>4 DEF Next, call, timeout

LEMMA StayOneByOne ==
  ASSUME OneByOne, UNCHANGED vars, calm' => calm
  PROVE  OneByOne'
  BY DEF OneByOne, Single, Fresh, OnePrimaryEach, DeletedHaveNone,
     PrimariesOf, PhonesOf, vars

-----------------------------------------------------------------------------
(* The theorems.                                                           *)

(* IInv holds in every reachable state, for any number of accounts,        *)
(* numbers, codes and requests handled at once.                            *)
THEOREM InductiveInvariant == Spec => []IInv
  BY InitIInv, StepIInv, PTL DEF Spec

(* Type correctness (UserService's telephone numbers and their tokens).    *)
THEOREM TypeCorrect == Spec => []TypeOK
BY InductiveInvariant, PTL DEF IInv

(* Whatever confirmations, switches of the primary number and deletions    *)
(* overlap, and whichever of them are rolled back, an account that has     *)
(* numbers has a primary one.                                              *)
THEOREM PrimaryIsKept == Spec => []SomePrimary
BY InductiveInvariant, PTL DEF IInv

(* A code confirms one number once, however many requests have read it.    *)
THEOREM CodesServeOnce == Spec => []CodeServesOnce
<1>1. IInv => CodeServesOnce
  BY DEF IInv, TypeOK, TokenFacts, CodeServesOnce
<1> QED
  BY <1>1, InductiveInvariant, PTL

(* A number is attached only to an account that has called from it.        *)
THEOREM CallsProveNumbers == Spec => AttachedByCall
<1>1. IInv /\ [Next]_vars =>
        [\A p \in Numbers :
           owner'[p] # owner[p] /\ owner'[p] # null =>
             \E t \in Tokens : /\ tokens[t].user = owner'[p] /\ tokens[t].phone = p
                               /\ tokens[t].called]_vars
  <2> SUFFICES ASSUME IInv, [Next]_vars, NEW p \in Numbers,
                      owner'[p] # owner[p], owner'[p] # null
               PROVE  \E t \in Tokens : /\ tokens[t].user = owner'[p]
                                        /\ tokens[t].phone = p
                                        /\ tokens[t].called
    OBVIOUS
  <2>1. ~\E r \in Requests : deleteAccount(r) /\ p \in req[r].holds
    BY DEF deleteAccount
  <2>2. PICK r \in Requests : commit(r) /\ p = req[r].phone
    BY <2>1, OwnerMoves
  <2> QED
    BY <2>2, CommitSound
<1> QED
  BY <1>1, InductiveInvariant, PTL DEF Spec, AttachedByCall

(* A number leaves an account only when that is deleted.                   *)
THEOREM NumbersStay == Spec => NumberIsKept
<1>1. IInv /\ [Next]_vars =>
        [\A p \in Numbers :
           owner[p] # null /\ owner'[p] # owner[p] =>
             owner'[p] = null /\ owner[p] \in deleted']_vars
  <2> SUFFICES ASSUME IInv, [Next]_vars, NEW p \in Numbers,
                      owner[p] # null, owner'[p] # owner[p]
               PROVE  owner'[p] = null /\ owner[p] \in deleted'
    OBVIOUS
  <2>1. ~\E r \in Requests : commit(r) /\ p = req[r].phone
    BY CommitSound
  <2>2. PICK r \in Requests : deleteAccount(r) /\ p \in req[r].holds
    BY <2>1, OwnerMoves
  <2>3. owner[p] = req[r].user
    BY <2>2 DEF IInv, ReqFacts, Locked, deleteAccount, PhonesOf
  <2> QED
    BY <2>2, <2>3 DEF deleteAccount
<1> QED
  BY <1>1, InductiveInvariant, PTL DEF Spec, NumberIsKept

-----------------------------------------------------------------------------
(* Both parts of MCPhones.                                                 *)

Joining == INSTANCE PhoneSignUpProofs WITH
  Users <- Comers, Numbers <- Lines, users <- accounts, owner <- ownerOf,
  tokens <- codes, req <- handling

(* The two names of PhoneSignUp are one.                                   *)
LEMMA JoiningInit ==
  ASSUME SignUp!MCInit
  PROVE  Joining!MCInit
  BY DEF SignUp!MCInit, SignUp!Init, SignUp!Unborn, SignUp!Issued, SignUp!Idle,
     SignUp!At, Joining!MCInit, Joining!Init, Joining!Unborn, Joining!Issued,
     Joining!Idle, Joining!At, SignUp!Account, Joining!Account

LEMMA JoiningBegin ==
  ASSUME NEW r
  PROVE  SignUp!Begin(r) <=> Joining!Begin(r)
  BY DEF SignUp!Begin, SignUp!registerSmsStart, SignUp!register,
     SignUp!checkSmsCallbackStatus, SignUp!registerSmsComplete,
     SignUp!verifySms, SignUp!Found, SignUp!Become, SignUp!At, SignUp!Live,
     Joining!Begin, Joining!registerSmsStart, Joining!register,
     Joining!checkSmsCallbackStatus, Joining!registerSmsComplete,
     Joining!verifySms, Joining!Found, Joining!Become, Joining!At, Joining!Live

LEMMA JoiningContinue ==
  ASSUME NEW r
  PROVE  SignUp!Continue(r) <=> Joining!Continue(r)
<1>1. SignUp!deleteTokens(r) <=> Joining!deleteTokens(r)
  BY DEF SignUp!deleteTokens, SignUp!Live, SignUp!Go,
         Joining!deleteTokens, Joining!Live, Joining!Go
<1>2. SignUp!findUser(r) <=> Joining!findUser(r)
  BY DEF SignUp!findUser, SignUp!Become, SignUp!At,
         Joining!findUser, Joining!Become, Joining!At
<1>3. \A t : SignUp!createToken(r, t) <=> Joining!createToken(r, t)
  BY DEF SignUp!createToken, SignUp!Issued, SignUp!Become, SignUp!Idle, SignUp!At,
         Joining!createToken, Joining!Issued, Joining!Become, Joining!Idle, Joining!At
<1>4. SignUp!expire(r) <=> Joining!expire(r)
  BY DEF SignUp!expire, SignUp!Delete, SignUp!Become, SignUp!Idle, SignUp!At,
         Joining!expire, Joining!Delete, Joining!Become, Joining!Idle, Joining!At
<1>5. SignUp!status(r) <=> Joining!status(r)
  BY DEF SignUp!status, SignUp!Become, SignUp!Idle, SignUp!At,
         Joining!status, Joining!Become, Joining!Idle, Joining!At
<1>6. \A u : SignUp!createUser(r, u) <=> Joining!createUser(r, u)
  BY DEF SignUp!createUser, SignUp!Account, SignUp!Become, SignUp!Idle, SignUp!At,
         Joining!createUser, Joining!Account, Joining!Become, Joining!Idle,
         Joining!At
<1>7. SignUp!findOwner(r) <=> Joining!findOwner(r)
  BY DEF SignUp!findOwner, SignUp!Become, SignUp!At,
         Joining!findOwner, Joining!Become, Joining!At
<1>8. SignUp!verify(r) <=> Joining!verify(r)
  BY DEF SignUp!verify, SignUp!Go, Joining!verify, Joining!Go
<1>9. SignUp!consume(r) <=> Joining!consume(r)
  BY DEF SignUp!consume, SignUp!Live, SignUp!Delete, SignUp!Go,
         Joining!consume, Joining!Live, Joining!Delete, Joining!Go
<1>10. SignUp!saveSession(r) <=> Joining!saveSession(r)
  BY DEF SignUp!saveSession, SignUp!Become, SignUp!Idle, SignUp!At,
         Joining!saveSession, Joining!Become, Joining!Idle, Joining!At
<1>11. SignUp!fail(r) <=> Joining!fail(r)
  BY DEF SignUp!fail, SignUp!Become, SignUp!Idle, SignUp!At,
         Joining!fail, Joining!Become, Joining!Idle, Joining!At
<1> QED
  BY <1>1, <1>2, <1>3, <1>4, <1>5, <1>6, <1>7, <1>8, <1>9, <1>10, <1>11
  DEF SignUp!Continue, Joining!Continue

LEMMA JoiningStep ==
  ASSUME SignUp!MCNext
  PROVE  Joining!MCNext
<1>1. /\ \A u : SignUp!deleteAccount(u) <=> Joining!deleteAccount(u)
      /\ \A u : SignUp!confirmEmail(u) <=> Joining!confirmEmail(u)
      /\ \A t : SignUp!call(t) <=> Joining!call(t)
      /\ \A t : SignUp!timeout(t) <=> Joining!timeout(t)
  BY DEF SignUp!deleteAccount, SignUp!Account, Joining!Account,
     SignUp!confirmEmail, Joining!confirmEmail,
     SignUp!call, SignUp!timeout, SignUp!Live,
     Joining!deleteAccount, Joining!call, Joining!timeout, Joining!Live
<1>2. SignUp!Next <=> Joining!Next
  BY <1>1, JoiningBegin, JoiningContinue DEF SignUp!Next, Joining!Next
<1>3. calm' = (calm /\ ~(Joining!Busy /\ Joining!Begins))
  BY DEF SignUp!MCNext, SignUp!Busy, SignUp!Begins, Joining!Busy, Joining!Begins
<1> QED
  BY <1>2, <1>3 DEF SignUp!MCNext, Joining!MCNext

(* What holds of either part whichever is running.                         *)
PartsSound == IInv /\ Joining!IInv

PartsOrderly == OneByOne /\ Joining!OneByOne

LEMMA PartsInit ==
  ASSUME MCInit
  PROVE  PartsSound /\ (OnePrimaryAtFirst => PartsOrderly)
<1>1. Joining!IInv /\ Joining!OneByOne
  BY JoiningInit, Joining!InitIInv, Joining!InitOneByOne
  DEF MCInit, Joining!MCInit
<1> QED
  BY <1>1, InitIInv, InitOneByOne DEF MCInit, PartsSound, PartsOrderly

LEMMA PartsStep ==
  ASSUME PartsSound, [MCNext]_<<part, vars, calm, signUp>>
  PROVE  PartsSound' /\ (PartsOrderly => PartsOrderly')
<1>1. Joining!PhoneSignUpAssumption
  BY SignUpAssumption DEF SignUp!PhoneSignUpAssumption,
     Joining!PhoneSignUpAssumption
<1>2. CASE part = "numbers" /\ MCNext /\ UNCHANGED signUp
  <2>1. Next /\ calm' = (calm /\ ~(Busy /\ Begins))
    BY <1>2 DEF MCNext
  <2>2. UNCHANGED Joining!vars
    BY <1>2 DEF signUp, Joining!vars
  <2>3. IInv' /\ (OneByOne => OneByOne')
    BY <2>1, StepIInv, StepOneByOne DEF PartsSound
  <2>4. Joining!IInv' /\ (Joining!OneByOne => Joining!OneByOne')
    BY <1>1, <2>1, <2>2, Joining!StepIInv, Joining!StayOneByOne DEF PartsSound
  <2> QED
    BY <2>3, <2>4 DEF PartsSound, PartsOrderly
<1>3. CASE SignUp!MCNext /\ UNCHANGED vars
  <2>1. Joining!MCNext
    BY <1>3, JoiningStep
  <2>2. Joining!Next /\ (calm' => calm)
    BY <2>1 DEF Joining!MCNext
  <2>3. Joining!IInv' /\ (Joining!OneByOne => Joining!OneByOne')
    BY <1>1, <2>1, <2>2, Joining!StepIInv, Joining!StepOneByOne DEF PartsSound
  <2>4. IInv' /\ (OneByOne => OneByOne')
    BY <1>3, <2>2, StepIInv, StayOneByOne DEF PartsSound
  <2> QED
    BY <2>3, <2>4 DEF PartsSound, PartsOrderly
<1>4. CASE UNCHANGED <<part, vars, calm, signUp>>
  <2>1. UNCHANGED Joining!vars
    BY <1>4 DEF signUp, Joining!vars
  <2>2. Joining!IInv' /\ (Joining!OneByOne => Joining!OneByOne')
    BY <1>1, <1>4, <2>1, Joining!StepIInv, Joining!StayOneByOne DEF PartsSound
  <2>3. IInv' /\ (OneByOne => OneByOne')
    BY <1>4, StepIInv, StayOneByOne DEF PartsSound
  <2> QED
    BY <2>2, <2>3 DEF PartsSound, PartsOrderly
<1> QED
  BY <1>2, <1>3, <1>4 DEF MCNext

(* An account that is verified, and not by a link in a mail, has a number  *)
(* that was called from, and a code opens one session at most, however     *)
(* many requests register, sign in, break off and follow one another.      *)
THEOREM SignedUpAfterCalls == MCSpec => []SignedUpByCall
<1>1. PartsSound => SignedUpByCall
  <2> SUFFICES ASSUME PartsSound
               PROVE  SignUp!VerifiedByCall /\ SignUp!CodeOpensOneSession
    BY DEF SignedUpByCall
  <2>1. SignUp!VerifiedByCall
    BY DEF PartsSound, Joining!IInv, Joining!VerifiedByCall, Joining!Called,
       SignUp!VerifiedByCall, SignUp!Called
  <2>2. SignUp!CodeOpensOneSession
    BY DEF PartsSound, Joining!IInv, Joining!TypeOK, Joining!TokenFacts,
       SignUp!CodeOpensOneSession
  <2> QED
    BY <2>1, <2>2
<1> QED
  BY <1>1, PartsInit, PartsStep, PTL DEF MCSpec

(* Handled one by one, with failures and rollbacks anywhere, requests      *)
(* leave each account one primary number and none when it is deleted, and  *)
(* a number that is being signed up has one code.                          *)
THEOREM OneByOneIsOrderly ==
  ASSUME OnePrimaryAtFirst
  PROVE  MCSpec => []PhonesOneByOne
<1>1. PartsOrderly => PhonesOneByOne
  <2> SUFFICES ASSUME PartsOrderly
               PROVE  OnePrimary /\ NumbersAreFreed /\ SignUp!OneCodePerNumber
    BY DEF PhonesOneByOne
  <2>1. OnePrimary /\ NumbersAreFreed
    BY DEF PartsOrderly, OneByOne, OnePrimary, OnePrimaryEach, NumbersAreFreed,
       DeletedHaveNone
  <2>2. SignUp!OneCodePerNumber
    BY DEF PartsOrderly, Joining!OneByOne, Joining!OneCode, Joining!Live,
       SignUp!OneCodePerNumber, SignUp!Live
  <2> QED
    BY <2>1, <2>2
<1> QED
  BY <1>1, PartsInit, PartsStep, PTL DEF MCSpec
=============================================================================
