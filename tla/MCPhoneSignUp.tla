---------------------------- MODULE MCPhoneSignUp ----------------------------
(* PhoneSignUp with the history its properties need.                       *)
EXTENDS PhoneSignUp

VARIABLE calm   (* no two requests have been handled at once               *)

Busy == \E r \in Requests : req[r].step # "idle"

Begins == \E r \in Requests : req[r].step = "idle" /\ req'[r].step # "idle"

MCInit == Init /\ calm = TRUE

MCNext == Next /\ calm' = (calm /\ ~(Busy /\ Begins))

-----------------------------------------------------------------------------
(* As long as requests come one by one, even if some break off, a number   *)
(* has one code: the one the front end polls for (findFirst by the number) *)
(* is the one the person is calling for.                                   *)
OneCodePerNumber ==
  calm => \A t, s \in Tokens :
            /\ Live(t) /\ Live(s)
            /\ tokens[t].phone = tokens[s].phone
            => t = s
=============================================================================
