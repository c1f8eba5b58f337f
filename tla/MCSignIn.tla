------------------------------- MODULE MCSignIn ------------------------------
(* Instances of SignIn, OAuthSignIn, Profile and Marks for TLC, one beside *)
(* the other: a behaviour is of mails and codes, of providers, of the      *)
(* profile or of an account's favorites, reports and notifications (part). *)
(* The parts share no variable but the history calm, which each keeps for  *)
(* itself, so that what one of them does says nothing of the others.  In   *)
(* the code some columns are written by several of them: what the others   *)
(* do to a column a part has too (isVerified, the account's state) is an   *)
(* action of that part as well.                                            *)
EXTENDS SignIn, TLC

CONSTANTS u1, u2, e1, e2, t1, t2, r1, r2, a1, a2, i1, b1, s1, f1, f2, f3, n1, n2,
  People, Mails, Ids, Browsers, States,   (* of OAuthSignIn                *)
  Files, external,                        (* of Profile                    *)
  Ads, OwnAds, Notices                    (* of Marks                      *)

VARIABLES
  part,   (* "mails", "provider", "profile" or "marks"                     *)
  calm,   (* history: no two requests have been handled at once            *)
  people, links, store, visit, session, who,
  row, files, edit, mishap,
  ads, favorites, reports, notices, deleted, late, mark

Provider == INSTANCE MCOAuthSignIn WITH
  Users <- People, users <- people, req <- visit, opened <- session

Person == INSTANCE MCProfile WITH req <- edit

Marks == INSTANCE MCMarks WITH req <- mark

ASSUME PartsAssumption ==
  Provider!OAuthAssumption /\ Person!ProfileAssumption /\ Marks!MarksAssumption

(* One account, the others are to come.                                    *)
MCMailOf == [u \in Users |-> IF u = u1 THEN e1 ELSE null]

(* A link that opens or gives access, beside what an account may change.   *)
MCKinds == {{access, setting} : access \in {"VERIFICATION", "PASSWORD_RESET"},
                                setting \in {"TWO_FACTOR", "EMAIL_CHANGE"}}

MCSymmetry == Permutations(Requests) \cup Permutations(Tokens)

Busy == \E r \in Requests : req[r].step # "idle"

Begins ==
  \E r \in Requests :
    \/ \E u \in Users : Start(r, u)
    \/ \E t \in Tokens : Link(r, t)

provider == <<people, links, store, visit, session, who>>
profile == <<row, files, edit, mishap>>
marks == <<ads, favorites, reports, notices, deleted, late, mark>>

MCInit ==
  /\ part \in {"mails", "provider", "profile", "marks"}
  /\ Init
  /\ Provider!MCInit /\ Person!MCInit /\ Marks!MCInit
  /\ part # "profile" => row.picture = null
  /\ part # "mails" => kinds = CHOOSE k \in Kinds : TRUE

MCNext ==
  \/ /\ part = "mails"
     /\ Next /\ calm' = (calm /\ ~(Busy /\ Begins))
     /\ UNCHANGED <<part, provider, profile, marks>>
  \/ /\ part = "provider"
     /\ Provider!MCNext
     /\ UNCHANGED <<part, vars, profile, marks>>
  \/ /\ part = "profile"
     /\ Person!MCNext
     /\ UNCHANGED <<part, vars, provider, marks>>
  \/ /\ part = "marks"
     /\ Marks!MCNext
     /\ UNCHANGED <<part, vars, provider, profile>>

MCSpec == MCInit /\ [][MCNext]_<<part, calm, vars, provider, profile, marks>>

-----------------------------------------------------------------------------

TypesOK ==
  /\ part = "mails" => TypeOK
  /\ part = "provider" => Provider!TypeOK
  /\ part = "profile" => Person!TypeOK
  /\ part = "marks" => Marks!TypeOK

(* Of the tokens of one type for one address at most one is there, so that *)
(* the code or link of the last mail is the one that works.                *)
OneTokenPerAddress ==
  calm => \A type \in TokenType \ {"EMAIL_CHANGE"}, e \in Emails :
    Cardinality(Live(type, e)) <= 1

(* "The row of the user is not deleted but anonymised" (deleteAccount): a  *)
(* deleted account has neither address nor password nor second factor, and *)
(* no link or code that was on its way gives it one again.                 *)
AnonymousForGood ==
  calm => \A u \in Users : users[u].state = "deleted" =>
    users[u].email = null /\ ~users[u].password /\ ~users[u].twoFactor

(* What holds as long as requests come one by one, though any of them may  *)
(* fail half-way: the last mail is the one that works, a verified name     *)
(* fits the type of seller, and what deleteAccount promises - the account  *)
(* is anonymous for good, no identity leads to it, and neither its avatar  *)
(* nor its favorites nor the notifications it had are left.  (When         *)
(* requests overlap all of these can be broken.)                           *)
AccountsOneByOne ==
  /\ part = "mails" => OneTokenPerAddress /\ AnonymousForGood
  /\ part = "provider" => Provider!LinksAreAlive
  /\ part = "profile" => Person!NameFitsType /\ Person!NoLostAvatars
  /\ part = "marks" => Marks!DeletedKeepsNothing

(* As long as requests come one by one a browser is signed in to the       *)
(* account it has signed in to last, until it signs out, whatever else its *)
(* requests save (connect, callback, saveSession).                         *)
SignInSticks == part = "provider" => Provider!SignInSticks

(* Whoever signs in with an identity comes to the same account again as    *)
(* long as that account is not deleted, though sign-ins of the identity    *)
(* overlap, fail between the two writes that make a new account, or bring  *)
(* an address that some account has (extractProfileFromCode).              *)
SameAccountAgain ==
  [][\A i \in Ids :
       /\ session[i] # null /\ session'[i] # session[i]
       /\ people[session'[i]].state = "alive"
       => people[session[i]].state = "deleted"]_provider

(* Once no request is under way, the picture of an account is there in S3, *)
(* however changes of the avatar and the deletion overlapped: no request   *)
(* deletes the file another one has just saved (updateAvatar).             *)
PictureExists == part = "profile" => Person!PictureExists
=============================================================================
