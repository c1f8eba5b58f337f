------------------------------ MODULE MCProfile ------------------------------
(* Profile with the histories its properties need.                         *)
EXTENDS Profile

VARIABLES
  calm,      (* no two requests have been handled at once                  *)
  mishap     (* some request failed half-way, or the process died          *)

hvars == <<vars, calm, mishap>>

Quiet == \A r \in Requests : At(r, "idle")

Begins == \E r \in Requests : At(r, "idle") /\ req'[r].step # "idle"

(* Something of what the request is to do is done, and the rest is not.    *)
HalfWay(r) ==
  req[r].step \in {"uploaded", "replacing", "saving", "anonymizing"}

Mishap ==
  \E r \in Requests : HalfWay(r) /\ (crash \/ fail(r) \/ deleteOldFails(r))

MCInit == Init /\ calm = TRUE /\ mishap = FALSE

MCNext ==
  /\ Next
  /\ calm' = (calm /\ ~(Begins /\ ~Quiet))
  /\ mishap' = (mishap \/ Mishap)

-----------------------------------------------------------------------------
(* Once no request is under way, the picture of an account, when it is one *)
(* of ours, is there in S3, however changes of the avatar and the deletion *)
(* overlapped: no request deletes the file another one has just saved.     *)
(* (A request that fails half-way leaves a name whose file is gone.)       *)
PictureExists ==
  Quiet /\ ~mishap => row.picture \in files \cup {external, null}

(* As long as requests come one by one and none fails half-way, S3 holds   *)
(* the account's picture and nothing else: avatars that were replaced, and *)
(* that of a deleted account, are gone.                                    *)
NoLostAvatars ==
  calm /\ ~mishap /\ Quiet =>
    /\ files = {row.picture} \cap Files
    /\ row.deleted => row.picture = null

(* As long as requests come one by one, even if some fail, a verified name *)
(* is never shown over a type of seller it was not verified for.           *)
NameFitsType == calm => row.business \in {row.type, null}
=============================================================================
