---------------------------- MODULE AdLifecycle ----------------------------
(***************************************************************************)
(* The life of an ad: the HTTP handlers of AdsService, the cron workers    *)
(* that expire and purge ads, and the account deletion that archives them. *)
(*                                                                         *)
(* Node runs a handler up to its next `await' without interruption, so an  *)
(* action is the code between two awaits together with the one database    *)
(* statement (or storage call) that the first of them was waiting for.     *)
(* Every handler reads the row in one step and writes it in a later one:   *)
(*                                                                         *)
(*   idle -> authorized -> [deleteFiles -> uploadFiles ->] write -> idle   *)
(*                                                                         *)
(* and the write names the row by id only, so whatever happened to the row *)
(* in between is overwritten.                                              *)
(*                                                                         *)
(* A definition op_variant before op is op with a mistake in it; nothing   *)
(* here uses it.  Putting it in op's place breaks one of the properties.   *)
(***************************************************************************)
EXTENDS Naturals, AdStateMachine

CONSTANTS
  Ads,         (* ids of the ads that are ever created                     *)
  Users,       (* the ordinary accounts                                    *)
  Owner,       (* Ad.userId: the account that creates each ad              *)
  moderator,   (* an ADMIN account; deleteAccount refuses to delete it     *)
  Requests,    (* slots for HTTP requests being handled at the same time   *)
  Images,      (* keys of objects in the S3 bucket                         *)
  Contents,    (* title, description, price and phone, taken together      *)
  Lifetime,    (* days from publication to expiresAt (30 in the code)      *)
  Retention,   (* days an ad stays in its owner's archive (30 in the code) *)
  MaxDay,      (* bound of the clock                                       *)
  Crashes,     (* may the process crash and restart?                       *)
  null

ASSUME ConstantsAssumption ==
  /\ Owner \in [Ads -> Users]
  /\ moderator \notin Users
  /\ Lifetime \in Nat /\ Retention \in Nat /\ MaxDay \in Nat
  /\ Crashes \in BOOLEAN
  /\ null \notin Nat /\ null \notin Ads /\ null \notin Users

VARIABLES
  rows,        (* the table ads                                            *)
  files,       (* the objects of the S3 bucket                             *)
  deleted,     (* users whose deletedAt is set                             *)
  notices,     (* ads whose owner has an AD_REJECTED notification          *)
  req,         (* the request handled in each slot                         *)
  purge,       (* AdsArchivePurgeWorker: what is left of its list          *)
  today        (* the clock, in days                                       *)

vars == <<rows, files, deleted, notices, req, purge, today>>

-----------------------------------------------------------------------------
(* Types.                                                                  *)

Date == Nat \cup {null}

(* The columns of an ad that the handlers branch on or that a property is  *)
(* about.  UNBORN: not inserted yet.  GONE: deleted; ids are never reused. *)
Row == [status : AdStatus \cup {"UNBORN", "GONE"},
        rejected : BOOLEAN,             \* rejectionReason is not null
        publishedAt : Date, expiresAt : Date, archivedAt : Date,
        images : SUBSET Images, content : Contents \cup {null}]

NoRow(status) ==
  [status |-> status, rejected |-> FALSE, publishedAt |-> null,
   expiresAt |-> null, archivedAt |-> null, images |-> {},
   content |-> null]

Handlers == {"create", "update", "publish", "republish", "reject", "archive",
             "activate", "draft", "saveDraft", "publishDraft", "remove",
             "deleteAccount", "none"}

(* The steps at which a handler can be suspended.                          *)
Steps == {"idle", "authorized", "deleteFiles", "uploadFiles", "write",
          "notify", "closing"}

(* The local variables of a handler.                                       *)
Request == [op : Handlers, step : Steps, user : Users \cup {moderator, null},
            ad : Ads \cup {null},
            next : AdStatus,            \* status it is going to write
            at : Nat,                   \* its `now'
            content : Contents \cup {null},
                                        \* the dto's, where it was compared
            drop : SUBSET Images,       \* files it is going to delete
            keep : SUBSET Images,       \* images it is going to write
            locks : SUBSET Ads]         \* rows its transaction has locked

Idle == [op |-> "none", step |-> "idle", user |-> null, ad |-> null,
         next |-> "DRAFT", at |-> 0, content |-> null,
         drop |-> {}, keep |-> {}, locks |-> {}]

NotPurged == [stage |-> "none", images |-> {}]

TypeOK ==
  /\ rows \in [Ads -> Row]
  /\ files \in [Images -> {"unused", "stored", "deleted"}]
  /\ deleted \subseteq Users
  /\ notices \subseteq Ads
  /\ req \in [Requests -> Request]
  /\ purge \in [Ads -> [stage : {"none", "queued", "emptied"},
                        images : SUBSET Images]]
  /\ today \in Nat

Init ==
  /\ rows = [a \in Ads |-> NoRow("UNBORN")]
  /\ files = [i \in Images |-> "unused"]
  /\ deleted = {}
  /\ notices = {}
  /\ req = [r \in Requests |-> Idle]
  /\ purge = [a \in Ads |-> NotPurged]
  /\ today = 0

-----------------------------------------------------------------------------
(* Helpers.                                                                *)

Exists(a) == rows[a].status \in AdStatus

(* A row updated by a transaction that has not committed is locked: other  *)
(* writers wait, readers still see its committed version.                  *)
Locked(a) == \E r \in Requests : a \in req[r].locks

Store(a, row) == rows' = [rows EXCEPT ![a] = row]

(* Handler r goes on with these local variables.                           *)
Become(r, q) == req' = [req EXCEPT ![r] = q]

Respond(r) == Become(r, Idle)

Suspend(r, step) == Become(r, [req[r] EXCEPT !.step = step])

Delete(gone) ==
  files' = [i \in Images |-> IF i \in gone THEN "deleted" ELSE files[i]]

At(r, op, step) == req[r].op = op /\ req[r].step = step

(* The row is still there and no transaction holds it: ad.update goes      *)
(* through.                                                                *)
CanWrite(a) == Exists(a) /\ ~Locked(a)

getExpirationDateFrom_noTerm(date) == date

getExpirationDateFrom(date) == date + Lifetime

-----------------------------------------------------------------------------
(* Entering a handler.                                                     *)

(* AuthGuard reads the account once, before the handler starts.            *)
AuthGuard(r) ==
  /\ req[r].step = "idle"
  /\ \E u \in (Users \ deleted) \cup {moderator} :
       Become(r, [Idle EXCEPT !.step = "authorized", !.user = u])
  /\ UNCHANGED <<rows, files, deleted, notices, purge, today>>

(* Owner handlers look the ad up by id and userId, the moderator's by id.  *)
getUserAdOrThrow(r, a) ==
  req[r].step = "authorized" /\ Owner[a] = req[r].user /\ Exists(a)

getAdForModerator(r, a) ==
  req[r].step = "authorized" /\ req[r].user = moderator /\ Exists(a)

(* A handler that finds no row, or whose transition is not in the table,   *)
(* answers with an error before it has changed anything.                   *)
Refuse(r) ==
  /\ req[r].step = "authorized"
  /\ Respond(r)
  /\ UNCHANGED <<rows, files, deleted, notices, purge, today>>

-----------------------------------------------------------------------------
(* Reading steps: what each handler decides from the row it read.          *)

Moved(r, a, op, action) ==
  \E to \in AdStatus : /\ transition(rows[a].status, action, to)
                       /\ Become(r, [req[r] EXCEPT !.op = op, !.ad = a,
                                       !.step = "write", !.next = to])

Stamped(r, a, op, action) ==
  \E to \in AdStatus :
    /\ transition(rows[a].status, action, to)
    /\ Become(r, [req[r] EXCEPT !.op = op, !.ad = a, !.step = "write",
                                 !.next = to, !.at = today])

publishRead(r, a) ==
  getAdForModerator(r, a) /\ Stamped(r, a, "publish", "PUBLISH")

rejectRead(r, a) ==
  /\ getAdForModerator(r, a)
  /\ rows[a].status \notin {"REJECTED", "PUBLISHED", "EXPIRED"}
  /\ Moved(r, a, "reject", "REJECT")

archiveRead(r, a) ==
  getUserAdOrThrow(r, a) /\ Stamped(r, a, "archive", "ARCHIVE")

activateRead(r, a) ==
  getUserAdOrThrow(r, a) /\ Moved(r, a, "activate", "ACTIVATE")

draftRead(r, a) ==
  getUserAdOrThrow(r, a) /\ Moved(r, a, "draft", "DRAFT")

publishDraftRead(r, a) ==
  getUserAdOrThrow(r, a) /\ Stamped(r, a, "publishDraft", "PUBLISH")

(* The only status change by an owner that no table is asked about.        *)
republishRead(r, a) ==
  /\ getUserAdOrThrow(r, a)
  /\ \E c \in Contents :
       LET hasChanges == c # rows[a].content IN
       Become(r, [req[r] EXCEPT
                    !.op = "republish", !.ad = a, !.step = "write",
                    !.next = IF hasChanges THEN "PENDING" ELSE "PUBLISHED",
                    !.at = today, !.content = c])

(* Nothing is deleted.                                                     *)
SortImages_keepsFiles(r, a, op, next) ==
  \E existing \in SUBSET Images, step \in {"uploadFiles", "write"} :
    Become(r, [req[r] EXCEPT !.op = op, !.ad = a, !.step = step,
                             !.next = next, !.keep = existing])

(* The dto's existingImages decide what is deleted and what stays.  Nobody *)
(* compares them with the row's, so that they may name a file that is gone *)
(* or another ad's.  A request brings new files to upload, or none.        *)
SortImages(r, a, op, next) ==
  \E existing \in SUBSET Images :
    \E step \in IF rows[a].images \subseteq existing THEN {"uploadFiles", "write"}
                                                     ELSE {"deleteFiles"} :
      Become(r, [req[r] EXCEPT !.op = op, !.ad = a, !.step = step,
                               !.next = next, !.keep = existing,
                               !.drop = rows[a].images \ existing])

nextStatus_rejectedOnly(status) ==
  IF status = "REJECTED" THEN "PENDING" ELSE status

(* An edited ad goes (back) to moderation, or keeps the status it had.     *)
nextStatus(status) ==
  IF status \in {"PUBLISHED", "REJECTED"} THEN "PENDING" ELSE status

updateRead(r, a) ==
  /\ getUserAdOrThrow(r, a)
  /\ SortImages(r, a, "update", nextStatus(rows[a].status))

saveDraftRead(r, a) ==
  getUserAdOrThrow(r, a) /\ SortImages(r, a, "saveDraft", "DRAFT")

removeRead(r, a) ==
  /\ getUserAdOrThrow(r, a)
  /\ Become(r, [req[r] EXCEPT
                  !.op = "remove", !.ad = a, !.drop = rows[a].images,
                  !.step = IF rows[a].images = {} THEN "write"
                                                  ELSE "deleteFiles"])

(* create, and saveDraft without an id, have no row to read.  create lists *)
(* the dto's existingImages as they are, saveDraft none.                   *)
createRead(r, a) ==
  /\ req[r].step = "authorized" /\ Owner[a] = req[r].user
  /\ rows[a].status = "UNBORN"
  /\ \A q \in Requests : req[q].ad # a
  /\ \E status \in {"PENDING", "DRAFT"}, step \in {"uploadFiles", "write"},
        existing \in SUBSET Images :
       /\ status = "DRAFT" => existing = {}
       /\ Become(r, [req[r] EXCEPT !.op = "create", !.ad = a, !.step = step,
                                   !.next = status, !.keep = existing])

ReadStep(r) ==
  /\ \E a \in Ads :
       \/ publishRead(r, a)   \/ rejectRead(r, a)   \/ archiveRead(r, a)
       \/ activateRead(r, a)  \/ draftRead(r, a)    \/ publishDraftRead(r, a)
       \/ republishRead(r, a) \/ updateRead(r, a)   \/ saveDraftRead(r, a)
       \/ removeRead(r, a)    \/ createRead(r, a)
  /\ UNCHANGED <<rows, files, deleted, notices, purge, today>>

-----------------------------------------------------------------------------
(* Storage steps.                                                          *)

deleteImagesFromS3(r) ==
  /\ req[r].step = "deleteFiles"
  /\ Delete(req[r].drop)
  /\ \E step \in {"uploadFiles", "write"} :
       /\ req[r].op = "remove" => step = "write"
       /\ Suspend(r, step)
  /\ UNCHANGED <<rows, deleted, notices, purge, today>>

(* Promise.all rejects as soon as one call fails; others may have worked.  *)
deleteImagesFails(r) ==
  /\ req[r].step = "deleteFiles"
  /\ \E done \in SUBSET req[r].drop : done # req[r].drop /\ Delete(done)
  /\ Respond(r)
  /\ UNCHANGED <<rows, deleted, notices, purge, today>>

Upload(new) ==
  files' = [i \in Images |-> IF i \in new THEN "stored" ELSE files[i]]

(* Every uploaded file gets a key of its own, which nobody has named yet.  *)
Unused == {i \in Images : /\ files[i] = "unused"
                          /\ \A a \in Ads : i \notin rows[a].images
                          /\ \A r \in Requests : i \notin req[r].keep}

uploadFiles(r) ==
  /\ req[r].step = "uploadFiles"
  /\ \E new \in SUBSET Unused \ {{}} :
       /\ Upload(new)
       /\ Become(r, [req[r] EXCEPT !.step = "write", !.keep = @ \cup new])
  /\ UNCHANGED <<rows, deleted, notices, purge, today>>

uploadFails(r) ==
  /\ req[r].step = "uploadFiles"
  /\ \E new \in SUBSET Unused : Upload(new)
  /\ Respond(r)
  /\ UNCHANGED <<rows, deleted, notices, purge, today>>

(* update checks the phone, create the price unit and both create and      *)
(* saveDraft the category only after the storage has been changed.         *)
refuseAfterUpload(r) ==
  /\ req[r].step = "write" /\ req[r].op \in {"create", "update", "saveDraft"}
  /\ Respond(r)
  /\ UNCHANGED <<rows, files, deleted, notices, purge, today>>

-----------------------------------------------------------------------------
(* Writing steps: one ad.update, ad.create or ad.delete each.              *)

createWrite(r) ==
  LET q == req[r] IN
  /\ At(r, "create", "write")
  /\ \E c \in Contents :
       Store(q.ad, [NoRow(q.next) EXCEPT !.images = q.keep, !.content = c])
  /\ Respond(r)
  /\ UNCHANGED <<files, deleted, notices, purge, today>>

publishWrite(r) ==
  LET q == req[r] IN
  /\ At(r, "publish", "write") /\ CanWrite(q.ad)
  /\ Store(q.ad, [rows[q.ad] EXCEPT !.status = q.next, !.publishedAt = q.at,
                    !.expiresAt = getExpirationDateFrom(q.at),
                    !.rejected = FALSE])
  /\ Respond(r)
  /\ UNCHANGED <<files, deleted, notices, purge, today>>

(* hasChanges was decided at the read, and is q.next = "PENDING".          *)
republishWrite(r) ==
  LET q == req[r] IN
  /\ At(r, "republish", "write") /\ CanWrite(q.ad)
  /\ Store(q.ad, [rows[q.ad] EXCEPT !.status = q.next, !.publishedAt = q.at,
                    !.expiresAt = getExpirationDateFrom(q.at),
                    !.rejected = FALSE,
                    !.content = IF q.next = "PENDING" THEN q.content ELSE @])
  /\ Respond(r)
  /\ UNCHANGED <<files, deleted, notices, purge, today>>

(* The moderator's reason is optional; the notification follows.           *)
rejectWrite_reasonOnly(r) ==
  LET q == req[r] IN
  /\ At(r, "reject", "write") /\ CanWrite(q.ad)
  /\ \E reason \in BOOLEAN :
       /\ Store(q.ad, [rows[q.ad] EXCEPT !.status = q.next, !.rejected = reason])
       /\ IF reason THEN Suspend(r, "notify") ELSE Respond(r)
  /\ UNCHANGED <<files, deleted, notices, purge, today>>

rejectWrite(r) ==
  LET q == req[r] IN
  /\ At(r, "reject", "write") /\ CanWrite(q.ad)
  /\ \E reason \in BOOLEAN :
       Store(q.ad, [rows[q.ad] EXCEPT !.status = q.next, !.rejected = reason])
  /\ Suspend(r, "notify")
  /\ UNCHANGED <<files, deleted, notices, purge, today>>

notifyAdRejected_user(r) ==
  /\ At(r, "reject", "notify")
  /\ notices' = notices \cup {Owner[req[r].ad]}
  /\ Respond(r)
  /\ UNCHANGED <<rows, files, deleted, purge, today>>

(* The in-app notification is created, the e-mail is best effort.          *)
notifyAdRejected(r) ==
  /\ At(r, "reject", "notify")
  /\ notices' = notices \cup {req[r].ad}
  /\ Respond(r)
  /\ UNCHANGED <<rows, files, deleted, purge, today>>

(* Its creation fails: a 500 for an ad that has been rejected.             *)
notifyFails(r) ==
  /\ At(r, "reject", "notify")
  /\ Respond(r)
  /\ UNCHANGED <<rows, files, deleted, notices, purge, today>>

archiveWrite(r) ==
  LET q == req[r] IN
  /\ At(r, "archive", "write") /\ CanWrite(q.ad)
  /\ Store(q.ad, [rows[q.ad] EXCEPT !.status = q.next, !.archivedAt = q.at])
  /\ Respond(r)
  /\ UNCHANGED <<files, deleted, notices, purge, today>>

activateWrite(r) ==
  LET q == req[r] IN
  /\ At(r, "activate", "write") /\ CanWrite(q.ad)
  /\ Store(q.ad, [rows[q.ad] EXCEPT !.status = q.next, !.archivedAt = null])
  /\ Respond(r)
  /\ UNCHANGED <<files, deleted, notices, purge, today>>

draftWrite(r) ==
  LET q == req[r] IN
  /\ At(r, "draft", "write") /\ CanWrite(q.ad)
  /\ Store(q.ad, [rows[q.ad] EXCEPT !.status = q.next, !.rejected = FALSE,
                                    !.archivedAt = null])
  /\ Respond(r)
  /\ UNCHANGED <<files, deleted, notices, purge, today>>

publishDraftWrite(r) ==
  LET q == req[r] IN
  /\ At(r, "publishDraft", "write") /\ CanWrite(q.ad)
  /\ Store(q.ad, [rows[q.ad] EXCEPT !.status = q.next, !.publishedAt = q.at,
                    !.expiresAt = getExpirationDateFrom(q.at),
                    !.rejected = FALSE, !.archivedAt = null])
  /\ Respond(r)
  /\ UNCHANGED <<files, deleted, notices, purge, today>>

Edited_keepsReason(q, c) ==
  [rows[q.ad] EXCEPT !.status = q.next, !.images = q.keep, !.content = c]

(* Edit, of update or of saveDraft: everything but the dates is written.   *)
Edited(q, c) ==
  [rows[q.ad] EXCEPT !.status = q.next, !.rejected = FALSE,
                     !.images = q.keep, !.content = c]

updateWrite(r) ==
  /\ At(r, "update", "write") /\ CanWrite(req[r].ad)
  /\ \E c \in Contents : Store(req[r].ad, Edited(req[r], c))
  /\ Respond(r)
  /\ UNCHANGED <<files, deleted, notices, purge, today>>

saveDraftWrite(r) ==
  /\ At(r, "saveDraft", "write") /\ CanWrite(req[r].ad)
  /\ \E c \in Contents : Store(req[r].ad, Edited(req[r], c))
  /\ Respond(r)
  /\ UNCHANGED <<files, deleted, notices, purge, today>>

removeWrite(r) ==
  /\ At(r, "remove", "write") /\ CanWrite(req[r].ad)
  /\ Store(req[r].ad, NoRow("GONE"))
  /\ Respond(r)
  /\ UNCHANGED <<files, deleted, notices, purge, today>>

(* ad.update and ad.delete throw when the row is no longer there.          *)
writeMissing(r) ==
  /\ req[r].step = "write" /\ req[r].op # "create"
  /\ rows[req[r].ad].status = "GONE"
  /\ Respond(r)
  /\ UNCHANGED <<rows, files, deleted, notices, purge, today>>

-----------------------------------------------------------------------------
(* UserService.deleteAccount: one transaction, READ COMMITTED.             *)

(* ad.updateMany: the rows it will archive are locked until the commit.    *)
deleteAccountBegin(r) ==
  LET u == req[r].user
      hit == {a \in Ads : /\ Owner[a] = u /\ Exists(a)
                          /\ rows[a].status # "ARCHIVED"}
  IN
  /\ req[r].step = "authorized" /\ u \in Users
  /\ \A a \in hit : ~Locked(a)
  /\ Become(r, [req[r] EXCEPT !.op = "deleteAccount", !.step = "closing",
                               !.at = today, !.locks = hit])
  /\ UNCHANGED <<rows, files, deleted, notices, purge, today>>

deleteAccountCommit(r) ==
  LET q == req[r] IN
  /\ At(r, "deleteAccount", "closing")
  /\ rows' = [a \in Ads |->
                IF a \in q.locks
                  THEN [rows[a] EXCEPT !.status = "ARCHIVED",
                                       !.archivedAt = q.at]
                  ELSE rows[a]]
  /\ deleted' = deleted \cup {q.user}
  /\ notices' = {a \in notices : Owner[a] # q.user}
  /\ Respond(r)
  /\ UNCHANGED <<files, purge, today>>

deleteAccountAbort(r) ==
  /\ At(r, "deleteAccount", "closing")
  /\ Respond(r)
  /\ UNCHANGED <<rows, files, deleted, notices, purge, today>>

-----------------------------------------------------------------------------
(* The cron workers.                                                       *)

Overdue(a) == /\ rows[a].status = "PUBLISHED"
              /\ rows[a].expiresAt # null /\ rows[a].expiresAt <= today

handleExpiredAds_late ==
  LET late(a) == Overdue(a) /\ rows[a].expiresAt + Lifetime <= today IN
  /\ \E a \in Ads : late(a)
  /\ rows' = [a \in Ads |-> IF late(a) THEN [rows[a] EXCEPT !.status = "EXPIRED"]
                                       ELSE rows[a]]
  /\ UNCHANGED <<files, deleted, notices, req, purge, today>>

(* AdsExpirationWorker: a single updateMany.                               *)
handleExpiredAds ==
  /\ \E a \in Ads : Overdue(a)
  /\ \A a \in Ads : Overdue(a) => ~Locked(a)
  /\ rows' = [a \in Ads |-> IF Overdue(a)
                              THEN [rows[a] EXCEPT !.status = "EXPIRED"]
                              ELSE rows[a]]
  /\ UNCHANGED <<files, deleted, notices, req, purge, today>>

(* Archived by an owner who is gone, or for too long.                      *)
PurgeDue(a) ==
  /\ rows[a].status = "ARCHIVED"
  /\ \/ Owner[a] \in deleted
     \/ rows[a].archivedAt # null /\ rows[a].archivedAt + Retention <= today

(* AdsArchivePurgeWorker: findMany, once a night ...                       *)
purgeScan ==
  /\ \A a \in Ads : purge[a].stage = "none"
  /\ \E a \in Ads : PurgeDue(a)
  /\ purge' = [a \in Ads |->
                 IF PurgeDue(a)
                   THEN [stage |-> "queued", images |-> rows[a].images]
                   ELSE NotPurged]
  /\ UNCHANGED <<rows, files, deleted, notices, req, today>>

(* ... then one ad after another: first its files ...                      *)
purgeFiles(a) ==
  /\ purge[a].stage = "queued"
  /\ \A b \in Ads : purge[b].stage # "emptied"
  /\ Delete(purge[a].images)
  /\ purge' = [purge EXCEPT ![a].stage = "emptied"]
  /\ UNCHANGED <<rows, deleted, notices, req, today>>

(* (a failure is logged and the loop goes on with the next ad)             *)
purgeFilesFails(a) ==
  /\ purge[a].stage = "queued"
  /\ \A b \in Ads : purge[b].stage # "emptied"
  /\ \E done \in SUBSET purge[a].images : /\ done # purge[a].images
                                          /\ Delete(done)
  /\ purge' = [purge EXCEPT ![a] = NotPurged]
  /\ UNCHANGED <<rows, deleted, notices, req, today>>

(* ... then its row, whatever its status is by now.                        *)
purgeDelete(a) ==
  /\ purge[a].stage = "emptied"
  /\ ~Locked(a)
  /\ IF Exists(a) THEN Store(a, NoRow("GONE")) ELSE UNCHANGED rows
  /\ purge' = [purge EXCEPT ![a] = NotPurged]
  /\ UNCHANGED <<files, deleted, notices, req, today>>

-----------------------------------------------------------------------------
(* The environment.                                                        *)

Tick ==
  /\ today < MaxDay
  /\ today' = today + 1
  /\ UNCHANGED <<rows, files, deleted, notices, req, purge>>

(* The process dies: handlers and workers lose their local variables, an   *)
(* open transaction is rolled back.                                        *)
Crash ==
  /\ Crashes
  /\ req' = [r \in Requests |-> Idle]
  /\ purge' = [a \in Ads |-> NotPurged]
  /\ UNCHANGED <<rows, files, deleted, notices, today>>

StorageStep(r) ==
  \/ deleteImagesFromS3(r) \/ deleteImagesFails(r)
  \/ uploadFiles(r) \/ uploadFails(r) \/ refuseAfterUpload(r)

WriteStep(r) ==
  \/ createWrite(r)    \/ updateWrite(r)   \/ publishWrite(r)
  \/ republishWrite(r) \/ rejectWrite(r)   \/ notifyAdRejected(r)
  \/ archiveWrite(r)   \/ activateWrite(r) \/ draftWrite(r)
  \/ saveDraftWrite(r) \/ publishDraftWrite(r) \/ removeWrite(r)
  \/ notifyFails(r)    \/ writeMissing(r)

DeleteAccountStep(r) ==
  deleteAccountBegin(r) \/ deleteAccountCommit(r) \/ deleteAccountAbort(r)

HandlerStep(r) ==
  Refuse(r) \/ ReadStep(r) \/ StorageStep(r) \/ WriteStep(r)
    \/ DeleteAccountStep(r)

PurgeStep ==
  \/ purgeScan
  \/ \E a \in Ads : purgeFiles(a) \/ purgeFilesFails(a) \/ purgeDelete(a)

Next ==
  \/ \E r \in Requests : AuthGuard(r) \/ HandlerStep(r)
  \/ handleExpiredAds
  \/ PurgeStep
  \/ Tick
  \/ Crash

Spec == Init /\ [][Next]_vars

(* Requests come or do not come, but one that is being handled proceeds;   *)
(* the cron jobs keep running; days pass.  Strong fairness where a step is *)
(* only interrupted, never refused for ever: PostgreSQL queues a statement *)
(* that waits for a row lock, and a file the storage failed to delete is   *)
(* tried again on another night.                                           *)
Fairness ==
  /\ \A r \in Requests : WF_vars(HandlerStep(r))
  /\ SF_vars(handleExpiredAds)
  /\ WF_vars(PurgeStep)
  /\ \A a \in Ads : SF_vars(purgeFiles(a)) /\ SF_vars(purgeDelete(a))
  /\ WF_vars(Tick)

FairSpec == Spec /\ Fairness

-----------------------------------------------------------------------------
(* Properties.                                                             *)

(* What findAll and findOne show to everybody.                             *)
Visible(a) == /\ rows[a].status = "PUBLISHED"
              /\ rows[a].expiresAt # null /\ rows[a].expiresAt > today

(* Whatever handlers overtake each other, an ad that is or was published   *)
(* has an expiry date for the expiration worker and the catalogue to act   *)
(* on, and that date is Lifetime days after a publication that has already *)
(* happened: no interleaving publishes an ad for ever or for longer.       *)
PublishedForOneLifetime ==
  \A a \in Ads :
    /\ rows[a].status \in {"PUBLISHED", "EXPIRED"} => rows[a].expiresAt # null
    /\ rows[a].expiresAt # null =>
         /\ rows[a].publishedAt # null
         /\ rows[a].publishedAt <= today
         /\ rows[a].expiresAt = rows[a].publishedAt + Lifetime

(* A moderator's rejection reason is left behind only on an ad that nobody *)
(* sees and that still has to pass moderation: not every handler clears it *)
(* (archive and activate do not), yet no sequence of them brings it to the *)
(* catalogue, to an expired ad or to a draft.                              *)
ReasonStaysOutOfCatalogue ==
  \A a \in Ads : rows[a].rejected =>
                   rows[a].status \in {"REJECTED", "PENDING", "ARCHIVED"}

(* "After an edit a published ad goes back to moderation" (update's        *)
(* comment), in every interleaving: a step that changes what an ad says or *)
(* shows never leaves it PUBLISHED.                                        *)
EditNeverGoesLive ==
  [][\A a \in Ads :
       <<rows[a].content, rows[a].images>>' # <<rows[a].content, rows[a].images>>
         => rows'[a].status # "PUBLISHED"]_vars

(* A request of the owner that is still being handled.                     *)
InFlight(u) == \E r \in Requests : req[r].user = u

(* AuthGuard checks the account only when a request begins.  Once the last *)
(* request of a deleted account is over that is enough, and for good: its  *)
(* ads are at most purged or moderated, never edited, turned into drafts   *)
(* or inserted.                                                            *)
DeletedOwnerIsPassive ==
  [][\A a \in Ads : Owner[a] \in deleted /\ ~InFlight(Owner[a]) =>
       /\ ~InFlight(Owner[a])'
       /\ \/ rows'[a].status = "GONE"
          \/ /\ rows'[a].content = rows[a].content
             /\ rows'[a].images = rows[a].images
             /\ rows'[a].status = "DRAFT" => rows[a].status = "DRAFT"
             /\ rows[a].status = "UNBORN" => rows'[a].status = "UNBORN"]_vars

(* An ad does not stay in the published set past its date for ever.        *)
OverdueIsExpired == \A a \in Ads : Overdue(a) ~> ~Overdue(a)

(* An archived ad whose time is up is purged, or its owner takes it out of *)
(* the archive: a storage failure delays it but one night's failure is     *)
(* repaired on another.                                                    *)
DueIsPurged == \A a \in Ads : PurgeDue(a) ~> ~PurgeDue(a)

(* "null if never archived, or out of the archive again" (schema.prisma).  *)
ArchivedAtOnlyInArchive ==
  \A a \in Ads : rows[a].archivedAt # null => rows[a].status = "ARCHIVED"

(* "When the ad last went to the status ARCHIVED" (schema.prisma): an ad   *)
(* in the archive has a date from which the purge can count its 30 days.   *)
ArchiveIsDated ==
  \A a \in Ads : rows[a].status = "ARCHIVED" => rows[a].archivedAt # null

(* "We simply hide the ads from the catalogue" (deleteAccount's comment).  *)
DeletedOwnerIsHidden ==
  \A a \in Ads : Owner[a] \in deleted => ~Visible(a)
=============================================================================
