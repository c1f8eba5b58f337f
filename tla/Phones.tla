------------------------------- MODULE Phones -------------------------------
(* The phone numbers of accounts (UserService): a number is attached after *)
(* its owner has called from it, and one number of an account is its       *)
(* primary one.  A handler is split at its awaits, a transaction at its    *)
(* statements (READ COMMITTED: a statement sees what is committed when it  *)
(* starts, waits for rows another transaction has written, and looks at    *)
(* those again before it writes them):                                     *)
(*                                                                         *)
(*   requestPhoneChange        find -> [zvonok] -> deleteTokens -> create  *)
(*   checkPhoneCallbackStatus  find -> expire | told                       *)
(*   confirmPhoneChange        token -> owner -> clear -> write -> commit  *)
(*   confirmAddPhone           token -> owner -> count -> clear -> ...     *)
(*   setPrimaryPhone           find -> clear -> write -> commit            *)
(*   deleteAccount             clear -> commit                             *)
(*                                                                         *)
(* AuthGuard and the first read are one step.  A code is known only to     *)
(* whom checkPhoneCallbackStatus has told it.                              *)
(*                                                                         *)
(* A definition op_variant before op is op with a mistake in it; nothing   *)
(* here uses it.  Putting it in op's place breaks one of the properties.   *)
(***************************************************************************)
EXTENDS Naturals

CONSTANTS
  Users,
  Numbers,
  Tokens,        (* ids of tokens of type PHONE_CHANGE; bounds requests    *)
  Requests,      (* slots for requests being handled at the same time      *)
  InitialOwner,  (* verified numbers attached at the start, and to whom    *)
  InitialPrimary,(* those of them that are primary                         *)
  null

ASSUME PhonesAssumption ==
  /\ InitialOwner \in [Numbers -> Users \cup {null}]
  /\ InitialPrimary \subseteq {p \in Numbers : InitialOwner[p] # null}
  /\ \A p \in Numbers : InitialOwner[p] # null =>
       \E q \in InitialPrimary : InitialOwner[q] = InitialOwner[p]
  /\ null \notin Users /\ null \notin Numbers /\ null \notin Tokens

VARIABLES
  owner,     (* user_phones: whose number it is; phone is unique           *)
  primary,   (* isPrimary                                                  *)
  tokens,    (* tokens of type PHONE_CHANGE, by id                         *)
  deleted,   (* accounts with deletedAt set                                *)
  req,       (* the request handled in each slot                           *)
  uses       (* history: the confirmations a token has served for          *)

vars == <<owner, primary, tokens, deleted, req, uses>>

-----------------------------------------------------------------------------
(* Types.                                                                  *)

Token == [state : {"unborn", "live", "gone"}, user : Users \cup {null},
          phone : Numbers \cup {null}, expired : BOOLEAN,
          called : BOOLEAN,    \* zvonok has had the call
          told : BOOLEAN]      \* the user has been given the code

Issued(user, phone) ==
  [state |-> "live", user |-> user, phone |-> phone, expired |-> FALSE,
   called |-> FALSE, told |-> FALSE]

Unborn == [Issued(null, null) EXCEPT !.state = "unborn"]

Steps == {"idle", "deleteTokens", "createToken", "expire", "status", "owner",
          "count", "clear", "clearing", "write", "commit",
          "deletePhones", "deletingPhones", "deleteAccount"}

Request == [step : Steps, user : Users \cup {null}, phone : Numbers \cup {null},
            token : Tokens \cup {null}, add : BOOLEAN, primary : BOOLEAN,
            exists : BOOLEAN,            \* the number is the user's already
            seen : SUBSET Numbers,       \* rows the statement under way found
            holds : SUBSET Numbers]      \* rows written and not committed

At(step, user, phone, token) ==
  [step |-> step, user |-> user, phone |-> phone, token |-> token, add |-> FALSE,
   primary |-> TRUE, exists |-> FALSE, seen |-> {}, holds |-> {}]

Idle == At("idle", null, null, null)

TypeOK ==
  /\ owner \in [Numbers -> Users \cup {null}]
  /\ primary \in [Numbers -> BOOLEAN]
  /\ tokens \in [Tokens -> Token]
  /\ deleted \subseteq Users
  /\ req \in [Requests -> Request]
  /\ uses \in [Tokens -> Nat]

Init ==
  /\ owner = InitialOwner
  /\ primary = [p \in Numbers |-> p \in InitialPrimary]
  /\ tokens = [t \in Tokens |-> Unborn]
  /\ deleted = {}
  /\ req = [r \in Requests |-> Idle]
  /\ uses = [t \in Tokens |-> 0]

-----------------------------------------------------------------------------
(* Helpers.                                                                *)

Become(r, q) == req' = [req EXCEPT ![r] = q]

Go(r, step) == Become(r, [req[r] EXCEPT !.step = step])

Respond(r) == Become(r, Idle)

Begin(r, u) == req[r].step = "idle" /\ u \notin deleted

PhonesOf(u) == {p \in Numbers : owner[p] = u}

PrimariesOf(u) == {p \in PhonesOf(u) : primary[p]}

(* No other transaction has written one of the rows.                       *)
Free(r, rows) == \A s \in Requests \ {r} : req[s].holds \cap rows = {}

SetToken(t, token) == tokens' = [tokens EXCEPT ![t] = token]

Delete(t) == SetToken(t, [tokens[t] EXCEPT !.state = "gone"])

-----------------------------------------------------------------------------
(* Asking for a code.                                                      *)

(* The number belongs to nobody; zvonok may fail (Fail).                   *)
requestPhoneChange(r, u, p) ==
  /\ Begin(r, u)
  /\ owner[p] = null
  /\ Become(r, At("deleteTokens", u, p, null))
  /\ UNCHANGED <<owner, primary, tokens, deleted, uses>>

deleteTokens(r) ==
  /\ req[r].step = "deleteTokens"
  /\ tokens' = [t \in Tokens |->
       IF tokens[t].user = req[r].user /\ tokens[t].state = "live"
       THEN [tokens[t] EXCEPT !.state = "gone"] ELSE tokens[t]]
  /\ Go(r, "createToken")
  /\ UNCHANGED <<owner, primary, deleted, uses>>

createToken(r) ==
  /\ req[r].step = "createToken"
  /\ \E t \in Tokens :
       /\ tokens[t].state = "unborn"
       /\ SetToken(t, Issued(req[r].user, req[r].phone))
  /\ Respond(r)
  /\ UNCHANGED <<owner, primary, deleted, uses>>

(* Any token of the user will do.                                          *)
checkPhoneCallbackStatus(r, u) ==
  /\ Begin(r, u)
  /\ \E t \in Tokens :
       /\ tokens[t].state = "live" /\ tokens[t].user = u
       /\ Become(r, At(IF tokens[t].expired THEN "expire" ELSE "status",
                       u, null, t))
  /\ UNCHANGED <<owner, primary, tokens, deleted, uses>>

expire(r) ==
  /\ req[r].step = "expire"
  /\ IF tokens[req[r].token].state = "live" THEN Delete(req[r].token)
     ELSE UNCHANGED tokens
  /\ Respond(r)
  /\ UNCHANGED <<owner, primary, deleted, uses>>

(* The code is given away before anybody has called.                       *)
status_anyCall(r) ==
  LET t == req[r].token IN
  /\ req[r].step = "status"
  /\ SetToken(t, [tokens[t] EXCEPT !.told = TRUE])
  /\ Respond(r)
  /\ UNCHANGED <<owner, primary, deleted, uses>>

status(r) ==
  LET t == req[r].token IN
  /\ req[r].step = "status"
  /\ SetToken(t, [tokens[t] EXCEPT !.told = @ \/ tokens[t].called])
  /\ Respond(r)
  /\ UNCHANGED <<owner, primary, deleted, uses>>

-----------------------------------------------------------------------------
(* Confirming it.                                                          *)

Usable(t, u) ==
  /\ tokens[t].state = "live" /\ tokens[t].user = u
  /\ tokens[t].told /\ ~tokens[t].expired

(* confirmPhoneChange makes the number the primary one, confirmAddPhone    *)
(* does if asked to.                                                       *)
confirmPhone(r, u, t, add, makePrimary) ==
  /\ Begin(r, u)
  /\ Usable(t, u)
  /\ ~add => makePrimary
  /\ Become(r, [At("owner", u, tokens[t].phone, t) EXCEPT
                  !.add = add, !.primary = makePrimary])
  /\ UNCHANGED <<owner, primary, tokens, deleted, uses>>

(* Somebody else's number is refused, and so is adding one's own again.    *)
findOwner(r) ==
  LET q == req[r] IN
  /\ q.step = "owner"
  /\ \/ /\ owner[q.phone] = null
        /\ Go(r, IF q.add THEN "count" ELSE "clear")
     \/ /\ owner[q.phone] = q.user /\ ~q.add
        /\ Become(r, [q EXCEPT !.step = "clear", !.exists = TRUE])
     \/ /\ owner[q.phone] # null /\ (owner[q.phone] # q.user \/ q.add)
        /\ Respond(r)
  /\ UNCHANGED <<owner, primary, tokens, deleted, uses>>

(* The first number is not made the primary one unless asked for.          *)
count_asAsked(r) ==
  /\ req[r].step = "count"
  /\ Go(r, IF req[r].primary THEN "clear" ELSE "write")
  /\ UNCHANGED <<owner, primary, tokens, deleted, uses>>

(* The first number of an account becomes its primary one.                 *)
count(r) ==
  LET first == PhonesOf(req[r].user) = {}
      q == [req[r] EXCEPT !.primary = @ \/ first]
  IN
  /\ req[r].step = "count"
  /\ Become(r, [q EXCEPT !.step = IF q.primary THEN "clear" ELSE "write"])
  /\ UNCHANGED <<owner, primary, tokens, deleted, uses>>

setPrimaryPhone(r, u, p) ==
  /\ Begin(r, u)
  /\ owner[p] = u /\ ~primary[p]
  /\ Become(r, [At("clear", u, p, null) EXCEPT !.exists = TRUE])
  /\ UNCHANGED <<owner, primary, tokens, deleted, uses>>

-----------------------------------------------------------------------------
(* The transaction they share.                                             *)

(* updateMany finds the primary numbers of the user ...                    *)
clear(r) ==
  /\ req[r].step = "clear"
  /\ Become(r, [req[r] EXCEPT !.step = "clearing",
                              !.seen = PrimariesOf(req[r].user)])
  /\ UNCHANGED <<owner, primary, tokens, deleted, uses>>

(* Nothing is cleared.                                                     *)
clearing_none(r) ==
  /\ req[r].step = "clearing"
  /\ Go(r, "write")
  /\ UNCHANGED <<owner, primary, tokens, deleted, uses>>

(* ... and clears those that still are, once it has their locks.           *)
clearing(r) ==
  /\ req[r].step = "clearing"
  /\ Free(r, req[r].seen)
  /\ Become(r, [req[r] EXCEPT
       !.step = "write", !.holds = @ \cup (req[r].seen \cap PrimariesOf(req[r].user))])
  /\ UNCHANGED <<owner, primary, tokens, deleted, uses>>

(* The number is updated by its id, or created: it must then be nobody's.  *)
write(r) ==
  LET q == req[r] IN
  /\ q.step = "write"
  /\ Free(r, {q.phone})
  /\ owner[q.phone] = (IF q.exists THEN q.user ELSE null)
  /\ Become(r, [q EXCEPT !.step = "commit", !.holds = @ \cup {q.phone}])
  /\ UNCHANGED <<owner, primary, tokens, deleted, uses>>

Committed(q) ==
  /\ owner' = [owner EXCEPT ![q.phone] = q.user]
  /\ primary' = [p \in Numbers |->
       IF p = q.phone THEN q.primary ELSE primary[p] /\ p \notin q.holds]

(* Deleting a token that is gone already fails, and rolls back (Fail).     *)
commit(r) ==
  LET q == req[r] IN
  /\ q.step = "commit"
  /\ IF q.token = null THEN UNCHANGED <<tokens, uses>>
     ELSE /\ tokens[q.token].state = "live"
          /\ Delete(q.token)
          /\ uses' = [uses EXCEPT ![q.token] = @ + 1]
  /\ Committed(q)
  /\ Respond(r)
  /\ UNCHANGED deleted

-----------------------------------------------------------------------------
(* deleteAccount deletes the numbers it finds, then the tokens.            *)

deletePhones(r, u) ==
  /\ Begin(r, u)
  /\ Become(r, [At("deletingPhones", u, null, null) EXCEPT !.seen = PhonesOf(u)])
  /\ UNCHANGED <<owner, primary, tokens, deleted, uses>>

deletingPhones(r) ==
  /\ req[r].step = "deletingPhones"
  /\ Free(r, req[r].seen)
  /\ Become(r, [req[r] EXCEPT !.step = "deleteAccount",
                              !.holds = req[r].seen \cap PhonesOf(req[r].user)])
  /\ UNCHANGED <<owner, primary, tokens, deleted, uses>>

deleteAccount(r) ==
  LET q == req[r] IN
  /\ q.step = "deleteAccount"
  /\ owner' = [p \in Numbers |-> IF p \in q.holds THEN null ELSE owner[p]]
  /\ primary' = [p \in Numbers |-> primary[p] /\ p \notin q.holds]
  /\ tokens' = [t \in Tokens |->
       IF tokens[t].user = q.user /\ tokens[t].state = "live"
       THEN [tokens[t] EXCEPT !.state = "gone"] ELSE tokens[t]]
  /\ deleted' = deleted \cup {q.user}
  /\ Respond(r)
  /\ UNCHANGED uses

-----------------------------------------------------------------------------
(* The rest of the world.                                                  *)

(* The user calls from the number.                                         *)
call(t) ==
  /\ tokens[t].state # "unborn" /\ ~tokens[t].called
  /\ SetToken(t, [tokens[t] EXCEPT !.called = TRUE])
  /\ UNCHANGED <<owner, primary, deleted, req, uses>>

(* Five minutes are over.                                                  *)
timeout(t) ==
  /\ tokens[t].state = "live" /\ ~tokens[t].expired
  /\ SetToken(t, [tokens[t] EXCEPT !.expired = TRUE])
  /\ UNCHANGED <<owner, primary, deleted, req, uses>>

(* A query fails, a transaction is rolled back (a row is gone or there     *)
(* already, a deadlock), or the process dies.                              *)
Fail(r) ==
  /\ req[r].step # "idle"
  /\ Respond(r)
  /\ UNCHANGED <<owner, primary, tokens, deleted, uses>>

Start(r, u) ==
  \/ \E p \in Numbers : requestPhoneChange(r, u, p) \/ setPrimaryPhone(r, u, p)
  \/ checkPhoneCallbackStatus(r, u)
  \/ \E t \in Tokens, add, makePrimary \in BOOLEAN :
       confirmPhone(r, u, t, add, makePrimary)
  \/ deletePhones(r, u)

TokenStep(r) == deleteTokens(r) \/ createToken(r) \/ expire(r) \/ status(r)

TransactionStep(r) ==
  \/ findOwner(r) \/ count(r)
  \/ clear(r) \/ clearing(r) \/ write(r) \/ commit(r)
  \/ deletingPhones(r) \/ deleteAccount(r)

Next ==
  \/ \E r \in Requests :
       \/ \E u \in Users : Start(r, u)
       \/ TokenStep(r)
       \/ TransactionStep(r)
       \/ Fail(r)
  \/ \E t \in Tokens : call(t) \/ timeout(t)

Spec == Init /\ [][Next]_vars

-----------------------------------------------------------------------------
(* Properties.                                                             *)

(* Whatever confirmations and switches overtake each other or are rolled   *)
(* back, an account that has numbers always has a primary one: the state   *)
(* getProfileForClient and saveDraft still make up for does not come back. *)
SomePrimary ==
  \A u \in Users \ deleted : PhonesOf(u) # {} => PrimariesOf(u) # {}

(* A code serves once, however many confirmations have read it while it    *)
(* was still there.                                                        *)
CodeServesOnce == \A t \in Tokens : uses[t] <= 1

(* A number that is attached was called from by the account it is attached *)
(* to; nobody gets a number on the strength of another number's or another *)
(* account's call.                                                         *)
AttachedByCall ==
  [][\A p \in Numbers :
       owner'[p] # owner[p] /\ owner'[p] # null =>
         \E t \in Tokens : /\ tokens[t].user = owner'[p] /\ tokens[t].phone = p
                           /\ tokens[t].called]_vars

(* A number never goes from one account to another while the first has not *)
(* been deleted.                                                           *)
NumberIsKept ==
  [][\A p \in Numbers :
       owner[p] # null /\ owner'[p] # owner[p] =>
         owner'[p] = null /\ owner[p] \in deleted']_vars
=============================================================================
