------------------------------- MODULE MCMarks -------------------------------
(* Marks with the histories its property needs.                            *)
EXTENDS Marks

VARIABLES
  calm,  (* no two requests have been handled at once                      *)
  late   (* the notifications of ads rejected after the account's deletion *)

Quiet == \A r \in Requests : req[r].step = "idle"

Begins == \E r \in Requests : req[r].step = "idle" /\ req'[r].step # "idle"

MCInit == Init /\ calm = TRUE /\ late = {}

MCNext ==
  /\ Next
  /\ calm' = (calm /\ ~(Begins /\ ~Quiet))
  /\ late' = late \cup
       {n \in Notices : deleted /\ notices[n] = "none" /\ notices'[n] # "none"}

-----------------------------------------------------------------------------
(* As long as requests come one by one, even if some fail, nothing is left *)
(* of the favorites and notifications a deleted account has had; all there *)
(* may be is the notification of an ad that was rejected after the account *)
(* had been deleted.  (A favorite or a rejection that overlaps the         *)
(* deletion leaves a row behind.)                                          *)
DeletedKeepsNothing ==
  calm /\ deleted =>
    /\ favorites = {}
    /\ \A n \in Notices \ late : notices[n] \in {"none", "gone"}
=============================================================================
