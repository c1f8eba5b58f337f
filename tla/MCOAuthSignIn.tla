---------------------------- MODULE MCOAuthSignIn ----------------------------
(* OAuthSignIn with the histories its properties need.                     *)
EXTENDS OAuthSignIn

VARIABLES
  calm,   (* no two requests have been handled at once                     *)
  who     (* the account a browser signed in to last, null: signed out     *)

hvars == <<vars, calm, who>>

Quiet == \A r \in Requests : At(r, "idle")

Begins == \E r \in Requests : At(r, "idle") /\ req'[r].step # "idle"

SignsIn(r, b) == req[r].browser = b /\ saveSession(r)

SignsOut(b) ==
  logout(b) \/ \E r \in Requests : req[r].browser = b /\ destroy(r)

MCInit == Init /\ calm = TRUE /\ who = [b \in Browsers |-> null]

MCNext ==
  /\ Next
  /\ calm' = (calm /\ ~((Begins \/ \E b \in Browsers : logout(b)) /\ ~Quiet))
  /\ who' = [b \in Browsers |->
               CASE \E r \in Requests : SignsIn(r, b) ->
                        req[CHOOSE r \in Requests : SignsIn(r, b)].user
                 [] SignsOut(b) -> null
                 [] OTHER       -> who[b]]

-----------------------------------------------------------------------------
(* As long as requests come one by one: a browser is signed in to the      *)
(* account it has signed in to last, until it signs out, whatever else its *)
(* requests save.  (A connect that overlaps takes the session back to what *)
(* it was before.)                                                         *)
SignInSticks == calm => \A b \in Browsers : store[b].user = who[b]

(* As long as requests come one by one, even if some break off: the        *)
(* accounts that identities are linked to are not deleted ones, so that    *)
(* whoever deletes an account can sign up with the same identity again.    *)
LinksAreAlive ==
  calm =>
    \A i \in Ids : links[i] # null => users[links[i]].state = "alive"
=============================================================================
