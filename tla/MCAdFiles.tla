----------------------------- MODULE MCAdFiles -----------------------------
(* AdLifecycle with a history of what went wrong, for the files of ads and *)
(* the notifications of their owners.                                      *)
EXTENDS MCAdLifecycle

VARIABLES
  undisturbed,   (* nothing was refused half way and the purge has not met  *)
                 (* a request                                               *)
  known,         (* so far, and requests have named only files that their  *)
                 (* ad lists                                               *)
  unheard        (* rejected ads whose notification has failed              *)

Handling == \E r \in Requests : req[r].step # "idle"

Purging == \E a \in Ads : purge[a].stage # "none"

BreaksOff ==
  \/ \E r \in Requests : deleteImagesFails(r) \/ uploadFails(r)
                            \/ refuseAfterUpload(r)
  \/ \E a \in Ads : purgeFilesFails(a)

(* existingImages with a file that is not the ad's.                        *)
NamesOthers ==
  \E r \in Requests : \E a \in Ads :
    /\ req[r].step = "authorized" /\ req'[r].ad = a
    /\ ~ req'[r].keep \subseteq rows[a].images

history == <<undisturbed, known, unheard>>

FilesInit == Init /\ undisturbed = TRUE /\ known = TRUE /\ unheard = {}

FilesNext ==
  /\ Next
  /\ undisturbed' = (undisturbed /\ ~BreaksOff /\ ~(Handling /\ Purging)')
  /\ known' = (known /\ undisturbed' /\ ~NamesOthers)
  /\ unheard' = {a \in Ads : \/ a \in unheard /\ rows'[a].status = "REJECTED"
                             \/ \E r \in Requests : notifyFails(r) /\ req[r].ad = a}

(* The actions of Fairness leave the history what it is to be.              *)
FilesSpec == FilesInit /\ [][FilesNext]_<<vars, history>> /\ Fairness

-----------------------------------------------------------------------------
(* Between requests, S3 holds no file that no row lists: create and edits  *)
(* delete, upload and write in three steps, remove and the purge in two,   *)
(* and all of them agree on what is kept, whatever existingImages have     *)
(* named.  That the files listed are there can only be said as long as     *)
(* they have named none but the ad's own, since nobody compares them.      *)
FilesAreListed ==
  undisturbed /\ ~Handling /\ ~Purging =>
    \A i \in Images :
      /\ files[i] = "stored" => \E a \in Ads : i \in rows[a].images
      /\ known /\ (\E a \in Ads : i \in rows[a].images) => files[i] = "stored"

(* One request at a time leaves rows and files as the code promises them:  *)
(* "when the ad last went to the status ARCHIVED" (schema.prisma) is set   *)
(* for every ad in the archive, so that the purge can count its 30 days,   *)
(* whether archive, an edit or the account's deletion has put it there.    *)
AdsOneByOne == FilesAreListed /\ ArchiveIsDated

(* The workers catch up with what they have missed, through failures of    *)
(* the storage, crashes and the requests in between: no ad stays published *)
(* past its date, and none stays in the archive past its time.             *)
WorkersCatchUp == OverdueIsExpired /\ DueIsPurged

(* "The only way for the seller to learn of the moderator's decision"      *)
(* (reject's comment) is the notification: a rejected ad's owner gets one, *)
(* unless his account is gone or the moderator has seen its creation fail. *)
RejectionIsNotified ==
  \A a \in Ads : rows[a].status = "REJECTED"
                   ~> a \in notices \cup unheard \/ Owner[a] \in deleted
=============================================================================
