------------------------------- MODULE MCPhones ------------------------------
(* Instances of Phones and of PhoneSignUp for TLC, one beside the other: a *)
(* behaviour is of the numbers of accounts there are or of those to come   *)
(* (part).  The two share no variable but the history calm, which each     *)
(* keeps for itself, so that what one part does says nothing of the other. *)
EXTENDS Phones, TLC

CONSTANTS u1, u2, n1, n2, n3, t1, t2, r1, r2, v1, v2, p1, p2,
  Comers, Lines   (* Users and Numbers of PhoneSignUp                      *)

VARIABLES
  part,   (* "numbers" or "signUp"                                         *)
  calm,   (* history: no two requests have been handled at once            *)
  accounts, ownerOf, codes, handling, opened

SignUp == INSTANCE MCPhoneSignUp WITH
  Users <- Comers, Numbers <- Lines, users <- accounts, owner <- ownerOf,
  tokens <- codes, req <- handling

ASSUME SignUpAssumption == SignUp!PhoneSignUpAssumption

(* u1 has two numbers, n1 the primary one.                                 *)
MCOwner == [p \in Numbers |-> IF p \in {n1, n2} THEN u1 ELSE null]

MCSymmetry == Permutations(Requests) \cup Permutations(Tokens)
                \cup Permutations(Comers) \cup Permutations(Lines)

Busy == \E r \in Requests : req[r].step # "idle"

Begins == \E r \in Requests, u \in Users : Start(r, u)

signUp == <<accounts, ownerOf, codes, handling, opened>>

MCInit ==
  /\ part \in {"numbers", "signUp"}
  /\ Init
  /\ SignUp!MCInit

MCNext ==
  \/ /\ part = "numbers"
     /\ Next /\ calm' = (calm /\ ~(Busy /\ Begins))
     /\ UNCHANGED <<part, signUp>>
  \/ /\ part = "signUp"
     /\ SignUp!MCNext
     /\ UNCHANGED <<part, vars>>

MCSpec == MCInit /\ [][MCNext]_<<part, vars, calm, signUp>>

-----------------------------------------------------------------------------
(* What holds as long as requests come one by one, though any of them may  *)
(* fail and be rolled back.  (When they overlap all of these can be        *)
(* broken.)                                                                *)

(* "Switch the primary number" (setPrimaryPhone): an account has one       *)
(* primary number at most, after confirmations, switches and rollbacks.    *)
OnePrimary ==
  calm => \A u \in Users : \A p, q \in PrimariesOf(u) : p = q

(* An account that is deleted keeps no number, and no code by which it     *)
(* would get one, so that the number can be attached to another account.   *)
NumbersAreFreed == calm => \A u \in deleted : PhonesOf(u) = {}

(* One primary number, none of a deleted account, and one code for each    *)
(* number that is being signed up (sendSmsCode deletes those before).      *)
PhonesOneByOne ==
  /\ OnePrimary
  /\ NumbersAreFreed
  /\ part = "signUp" => SignUp!OneCodePerNumber

-----------------------------------------------------------------------------
(* With a number that is signed up an account that no link in a mail has   *)
(* verified is verified only when somebody has called from it, and a code  *)
(* opens one session at most, however requests overlap, break off and      *)
(* follow one another and the number passes from a deleted account to      *)
(* another (registerSmsComplete, verifySms).                               *)
SignedUpByCall ==
  part = "signUp" => SignUp!VerifiedByCall /\ SignUp!CodeOpensOneSession
=============================================================================
