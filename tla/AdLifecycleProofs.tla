------------------------- MODULE AdLifecycleProofs -------------------------
(***************************************************************************)
(* Theorems about AdLifecycle, for any ads, accounts, requests handled at  *)
(* once, files and lengths of the two periods.                             *)
(*                                                                         *)
(* None of the properties is inductive: a handler writes what it decided   *)
(* when it read the row.  IInv adds what every suspended handler knows, and *)
(* two relations say what a step does: RowStep to a row, RequestStep to a  *)
(* request.  Each action makes both true (StepSteady), and the invariant   *)
(* and the action properties follow from these two alone.                  *)
(*                                                                         *)
(* The last part is about the files of ads (MCAdFiles): FilesSound is what *)
(* is true of rows, files and the purge's list while there is one request  *)
(* at a time.                                                              *)
(***************************************************************************)
EXTENDS MCAdFiles, TLAPS

-----------------------------------------------------------------------------
(* The inductive invariant.                                                *)

(* PublishedForOneLifetime and ReasonStaysOutOfCatalogue, of one row.      *)
Dated(row, day) ==
  /\ row.status \in {"PUBLISHED", "EXPIRED"} => row.expiresAt # null
  /\ row.expiresAt # null =>
       /\ row.publishedAt # null
       /\ row.publishedAt <= day
       /\ row.expiresAt = row.publishedAt + Lifetime

Reasoned(row) ==
  row.rejected => row.status \in {"REJECTED", "PENDING", "ARCHIVED"}

(* Where a handler can take an ad, once it has read it.                    *)
Destination(q) ==
  /\ q.op = "create"    => q.next \in {"PENDING", "DRAFT"}
  /\ q.op = "update"    => q.next \notin {"PUBLISHED", "REJECTED"}
  /\ q.op \in {"publish", "publishDraft"} => q.next \in {"PENDING", "PUBLISHED"}
  /\ q.op = "reject"    => q.next = "REJECTED"
  /\ q.op = "archive"   => q.next = "ARCHIVED"
  /\ q.op = "activate"  => q.next = "PENDING"
  /\ q.op = "republish" => q.next \in {"PENDING", "PUBLISHED"}
  /\ q.op \in {"draft", "saveDraft"} => q.next = "DRAFT"

OwnerHandlers == Handlers \ {"publish", "reject", "deleteAccount", "none"}

(* What a handler knows of its own local variables.                        *)
Informed(q, day) ==
  /\ q.ad = null <=> q.op \in {"none", "deleteAccount"}
  /\ q.step = "authorized" => q.ad = null
  /\ q.at <= day
  /\ Destination(q)
  /\ q.op \in OwnerHandlers => q.user = Owner[q.ad]
  /\ q.op = "deleteAccount" => q.user \in Users
  /\ \A a \in q.locks : Owner[a] = q.user

RequestsInformed == \A r \in Requests : Informed(req[r], today)

(* An id that create is about to insert is nobody else's.                  *)
FreshIds ==
  \A r \in Requests : req[r].op = "create" =>
    /\ rows[req[r].ad].status = "UNBORN"
    /\ \A s \in Requests : req[s].ad = req[r].ad => s = r

LockedRowsExist == \A r \in Requests : \A a \in req[r].locks : Exists(a)

(* An edit that will write EXPIRED back overtakes only rows with a date.   *)
StaleEditsAreDated ==
  \A r \in Requests :
    req[r].op = "update" /\ req[r].next = "EXPIRED" =>
      \/ Exists(req[r].ad) /\ rows[req[r].ad].expiresAt # null
      \/ rows[req[r].ad].status = "GONE"

IInv ==
  /\ TypeOK
  /\ \A a \in Ads : Dated(rows[a], today) /\ Reasoned(rows[a])
  /\ RequestsInformed
  /\ FreshIds
  /\ LockedRowsExist
  /\ StaleEditsAreDated

-----------------------------------------------------------------------------
(* What a step does to a row.                                              *)

SameText(old, new) == new.content = old.content /\ new.images = old.images

(* No row rises from the dead, and an expiry date once set stays.          *)
Legal(old, new) ==
  /\ new \in Row
  /\ Dated(new, today)
  /\ Reasoned(new)
  /\ old.status = "GONE" => new.status = "GONE"
  /\ old.status \in AdStatus => new.status \in AdStatus \cup {"GONE"}
  /\ old.status \in AdStatus /\ old.expiresAt # null =>
       new.expiresAt # null \/ new.status = "GONE"
  /\ new.status = "PUBLISHED" => SameText(old, new)

(* The row was written by a handler, ...                                   *)
WrittenBy(r, a, row) ==
  /\ req[r].ad = a
  /\ req[r].op \notin {"none", "deleteAccount"}
  /\ req'[r].op # "create"
  /\ rows[a].status # "UNBORN" => ~Locked(a)
  /\ req[r].op \in {"publish", "reject"} =>
       /\ SameText(rows[a], row) /\ row.status # "DRAFT"
       /\ rows[a].status # "UNBORN"

(* ... archived with its owner's account, ...                              *)
ClosedBy(r, a, row) ==
  a \in req[r].locks /\ row.status = "ARCHIVED" /\ SameText(rows[a], row)

(* ... or changed by one of the workers.                                   *)
Expired(a, row) ==
  /\ rows[a].status = "PUBLISHED" /\ row.status = "EXPIRED"
  /\ SameText(rows[a], row)

Purged(a, row) == Exists(a) /\ ~Locked(a) /\ row.status = "GONE"

RowStep(a) ==
  \/ rows'[a] = rows[a]
  \/ /\ Legal(rows[a], rows'[a])
     /\ today' = today
     /\ \/ \E r \in Requests : \/ WrittenBy(r, a, rows'[a])
                               \/ ClosedBy(r, a, rows'[a])
        \/ Expired(a, rows'[a])
        \/ Purged(a, rows'[a])

(* What a step does to a request: q is what becomes of p.                  *)
Took(r, q) ==
  \/ q.ad = null
  \/ q.ad = req[r].ad /\ q.op = req[r].op /\ q.next = req[r].next
  \/ /\ rows' = rows
     /\ q.op # "create" /\ Exists(q.ad)
     /\ q.op = "update" /\ q.next = "EXPIRED" => rows[q.ad].status = "EXPIRED"
  \/ /\ rows' = rows
     /\ q.op = "create" /\ rows[q.ad].status = "UNBORN"
     /\ \A s \in Requests : req[s].ad # q.ad
     /\ \A s \in Requests \ {r} : req'[s] = req[s]

RequestStep(r) ==
  \/ req'[r] = req[r]
  \/ /\ req'[r] \in Request
     /\ Informed(req'[r], today)
     /\ Took(r, req'[r])
     /\ \/ req'[r].locks \subseteq req[r].locks
        \/ rows' = rows /\ \A a \in req'[r].locks : Exists(a)

-----------------------------------------------------------------------------
(* Writing one row, changing one request.                                  *)

LEMMA StoreFact ==
  ASSUME TypeOK, NEW a \in Ads, NEW row \in Row, Store(a, row)
  PROVE  /\ rows' \in [Ads -> Row]
         /\ rows'[a] = row
         /\ \A b \in Ads \ {a} : rows'[b] = rows[b]
BY DEF TypeOK, Store

LEMMA BecomeFact ==
  ASSUME TypeOK, NEW r \in Requests, NEW q \in Request, Become(r, q)
  PROVE  /\ req' \in [Requests -> Request]
         /\ req'[r] = q
         /\ \A s \in Requests \ {r} : req'[s] = req[s]
BY DEF TypeOK, Become

LEMMA IdleFact ==
  /\ Idle \in Request
  /\ Idle.op = "none" /\ Idle.ad = null /\ Idle.locks = {} /\ Idle.at = 0
  /\ Idle.step = "idle" /\ Idle.keep = {}
BY ConstantsAssumption DEF Idle, Request, Handlers, Steps, AdStatus

LEMMA IdleInformed ==
  ASSUME NEW day \in Nat
  PROVE  Informed(Idle, day)
BY IdleFact DEF Informed, Destination, OwnerHandlers

-----------------------------------------------------------------------------
(* Every action does to the rows what RowStep says.  First the rows that   *)
(* the handlers build.                                                     *)

LEMMA NoRowFact ==
  ASSUME NEW s \in AdStatus \cup {"UNBORN", "GONE"}
  PROVE  /\ NoRow(s) \in Row
         /\ NoRow(s).status = s
         /\ NoRow(s).expiresAt = null
         /\ NoRow(s).rejected = FALSE
         /\ NoRow(s).images = {}
BY DEF NoRow, Row, Date

Issued(row, q) ==
  [row EXCEPT !.status = q.next, !.publishedAt = q.at,
              !.expiresAt = getExpirationDateFrom(q.at), !.rejected = FALSE]

LEMMA IssuedFact ==
  ASSUME NEW row \in Row, NEW q \in Request
  PROVE  LET new == Issued(row, q) IN
         /\ new \in Row
         /\ new.status = q.next
         /\ new.publishedAt = q.at
         /\ new.expiresAt = getExpirationDateFrom(q.at)
         /\ new.rejected = FALSE
         /\ SameText(row, new)
<1>1. /\ q.next \in AdStatus /\ q.at \in Nat /\ q.content \in Contents \cup {null}
      /\ getExpirationDateFrom(q.at) \in Nat
  BY ConstantsAssumption DEF Request, getExpirationDateFrom
<1> QED BY <1>1 DEF Row, Date, Issued, SameText

Rewritten(row, q) ==
  [row EXCEPT !.status = q.next, !.publishedAt = q.at,
              !.expiresAt = getExpirationDateFrom(q.at), !.rejected = FALSE,
              !.content = IF q.next = "PENDING" THEN q.content ELSE @]

LEMMA RewrittenFact ==
  ASSUME NEW row \in Row, NEW q \in Request
  PROVE  LET new == Rewritten(row, q) IN
         /\ new \in Row
         /\ new.status = q.next
         /\ new.publishedAt = q.at
         /\ new.expiresAt = getExpirationDateFrom(q.at)
         /\ new.rejected = FALSE
         /\ q.next # "PENDING" => SameText(row, new)
<1>1. /\ q.next \in AdStatus /\ q.at \in Nat /\ q.content \in Contents \cup {null}
      /\ getExpirationDateFrom(q.at) \in Nat
  BY ConstantsAssumption DEF Request, getExpirationDateFrom
<1> QED BY <1>1 DEF Row, Date, Rewritten, SameText

Revived(row, q) ==
  [row EXCEPT !.status = q.next, !.publishedAt = q.at,
              !.expiresAt = getExpirationDateFrom(q.at), !.rejected = FALSE, !.archivedAt = null]

LEMMA RevivedFact ==
  ASSUME NEW row \in Row, NEW q \in Request
  PROVE  LET new == Revived(row, q) IN
         /\ new \in Row
         /\ new.status = q.next
         /\ new.publishedAt = q.at
         /\ new.expiresAt = getExpirationDateFrom(q.at)
         /\ new.rejected = FALSE
         /\ SameText(row, new)
<1>1. /\ q.next \in AdStatus /\ q.at \in Nat /\ q.content \in Contents \cup {null}
      /\ getExpirationDateFrom(q.at) \in Nat
  BY ConstantsAssumption DEF Request, getExpirationDateFrom
<1> QED BY <1>1 DEF Row, Date, Revived, SameText

Judged(row, to, reason) == [row EXCEPT !.status = to, !.rejected = reason]

LEMMA JudgedFact ==
  ASSUME NEW row \in Row, NEW to \in AdStatus, NEW reason \in BOOLEAN
  PROVE  LET new == Judged(row, to, reason) IN
         /\ new \in Row
         /\ new.status = to
         /\ new.publishedAt = row.publishedAt
         /\ new.expiresAt = row.expiresAt
         /\ new.rejected = reason
         /\ SameText(row, new)
BY DEF Row, Date, Judged, SameText

Shelved(row, to, at) == [row EXCEPT !.status = to, !.archivedAt = at]

LEMMA ShelvedFact ==
  ASSUME NEW row \in Row, NEW to \in AdStatus, NEW at \in Date
  PROVE  LET new == Shelved(row, to, at) IN
         /\ new \in Row
         /\ new.status = to
         /\ new.publishedAt = row.publishedAt
         /\ new.expiresAt = row.expiresAt
         /\ new.archivedAt = at
         /\ new.rejected = row.rejected
         /\ SameText(row, new)
BY DEF Row, Date, Shelved, SameText

Drafted(row, to) ==
  [row EXCEPT !.status = to, !.rejected = FALSE, !.archivedAt = null]

LEMMA DraftedFact ==
  ASSUME NEW row \in Row, NEW to \in AdStatus
  PROVE  LET new == Drafted(row, to) IN
         /\ new \in Row
         /\ new.status = to
         /\ new.publishedAt = row.publishedAt
         /\ new.expiresAt = row.expiresAt
         /\ new.rejected = FALSE
         /\ SameText(row, new)
BY DEF Row, Date, Drafted, SameText

Retyped(row, q, c) ==
  [row EXCEPT !.status = q.next, !.rejected = FALSE,
              !.images = q.keep, !.content = c]

LEMMA RetypedFact ==
  ASSUME NEW row \in Row, NEW q \in Request, NEW c \in Contents
  PROVE  LET new == Retyped(row, q, c) IN
         /\ new \in Row
         /\ new.status = q.next
         /\ new.publishedAt = row.publishedAt
         /\ new.expiresAt = row.expiresAt
         /\ new.archivedAt = row.archivedAt
         /\ new.images = q.keep
         /\ new.rejected = FALSE
<1>1. q.next \in AdStatus /\ q.keep \in SUBSET Images
  BY DEF Request
<1> QED BY <1>1 DEF Row, Date, Retyped

Inserted(row, q, c) == [row EXCEPT !.images = q.keep, !.content = c]

LEMMA InsertedFact ==
  ASSUME NEW row \in Row, NEW q \in Request, NEW c \in Contents
  PROVE  LET new == Inserted(row, q, c) IN
         /\ new \in Row
         /\ new.status = row.status
         /\ new.expiresAt = row.expiresAt
         /\ new.images = q.keep
         /\ new.rejected = row.rejected
<1>1. q.keep \in SUBSET Images
  BY DEF Request
<1> QED BY <1>1 DEF Row, Date, Inserted

TimedOut(row) == [row EXCEPT !.status = "EXPIRED"]

LEMMA TimedOutFact ==
  ASSUME NEW row \in Row
  PROVE  LET new == TimedOut(row) IN
         /\ new \in Row
         /\ new.status = "EXPIRED"
         /\ new.publishedAt = row.publishedAt
         /\ new.expiresAt = row.expiresAt
         /\ new.archivedAt = row.archivedAt
         /\ new.rejected = row.rejected
         /\ SameText(row, new)
BY DEF Row, Date, TimedOut, SameText, AdStatus

-----------------------------------------------------------------------------
(* Then the actions that store one row.                                    *)

LEMMA WriterKnows ==
  ASSUME IInv, NEW r \in Requests, req[r].op \notin {"none", "deleteAccount"}
  PROVE  /\ req[r] \in Request
         /\ req[r].ad \in Ads
         /\ req[r].next \in AdStatus
         /\ req[r].at \in Nat /\ req[r].at <= today
         /\ Destination(req[r])
         /\ rows[req[r].ad] \in Row
         /\ Dated(rows[req[r].ad], today)
         /\ Reasoned(rows[req[r].ad])
<1>1. req[r] \in Request /\ Informed(req[r], today)
  BY DEF IInv, TypeOK, RequestsInformed
<1>2. req[r].ad \in Ads
  BY <1>1 DEF Informed, Request
<1>3. rows[req[r].ad] \in Row /\ Dated(rows[req[r].ad], today)
        /\ Reasoned(rows[req[r].ad])
  BY <1>2 DEF IInv, TypeOK
<1>4. req[r].next \in AdStatus /\ req[r].at \in Nat
  BY <1>1 DEF Request
<1>5. req[r].at <= today /\ Destination(req[r])
  BY <1>1 DEF Informed
<1> QED BY <1>1, <1>2, <1>3, <1>4, <1>5

(* A handler that stores a legal row and is done.                          *)
LEMMA WriterStores ==
  ASSUME IInv, NEW r \in Requests, req[r].op \notin {"none", "deleteAccount"},
         NEW row \in Row, Store(req[r].ad, row),
         Legal(rows[req[r].ad], row),
         WrittenBy(r, req[r].ad, row),
         today' = today
  PROVE  rows' \in [Ads -> Row] /\ \A a \in Ads : RowStep(a)
<1>1. req[r].ad \in Ads /\ TypeOK
  BY WriterKnows DEF IInv
<1>2. rows' \in [Ads -> Row] /\ rows'[req[r].ad] = row
        /\ \A b \in Ads \ {req[r].ad} : rows'[b] = rows[b]
  BY <1>1, StoreFact
<1> QED BY <1>2 DEF RowStep

LEMMA RespondFact ==
  ASSUME TypeOK, NEW r \in Requests, Respond(r)
  PROVE  req' \in [Requests -> Request] /\ req'[r] = Idle
           /\ \A s \in Requests \ {r} : req'[s] = req[s]
BY IdleFact, BecomeFact DEF Respond

LEMMA RespondWrites ==
  ASSUME IInv, NEW r \in Requests, req[r].op \notin {"none", "deleteAccount"},
         Respond(r), CanWrite(req[r].ad), NEW row,
         req[r].op \in {"publish", "reject"} =>
           SameText(rows[req[r].ad], row) /\ row.status # "DRAFT"
  PROVE  WrittenBy(r, req[r].ad, row)
<1>1. TypeOK /\ req'[r].op # "create"
  BY RespondFact, IdleFact DEF IInv
<1>2. rows[req[r].ad].status # "UNBORN" /\ ~Locked(req[r].ad)
  BY DEF CanWrite, Exists, AdStatus
<1> QED BY <1>1, <1>2 DEF WrittenBy

(* A row with a publication date of today or before is legal.              *)
LEMMA IssuedLegal ==
  ASSUME NEW old \in Row, NEW new \in Row, today \in Nat,
         NEW at \in Nat, at <= today,
         old.status \in AdStatus, new.status \in AdStatus,
         new.publishedAt = at,
         new.expiresAt = getExpirationDateFrom(at),
         new.rejected = FALSE,
         new.status = "PUBLISHED" => SameText(old, new)
  PROVE  Legal(old, new)
<1>1. getExpirationDateFrom(at) = at + Lifetime /\ at + Lifetime \in Nat
  BY ConstantsAssumption DEF getExpirationDateFrom
<1>2. Dated(new, today)
  BY <1>1, ConstantsAssumption DEF Dated
<1> QED BY <1>1, <1>2, ConstantsAssumption DEF Legal, Reasoned, AdStatus

(* So is a row that keeps the dates it had, unless it becomes PUBLISHED.   *)
LEMMA KeptLegal ==
  ASSUME NEW old \in Row, NEW new \in Row,
         Dated(old, today),
         old.status \in AdStatus, new.status \in AdStatus \ {"PUBLISHED"},
         new.publishedAt = old.publishedAt,
         new.expiresAt = old.expiresAt,
         Reasoned(new),
         new.status = "EXPIRED" => new.expiresAt # null
  PROVE  Legal(old, new)
BY DEF Legal, Dated, AdStatus

LEMMA publishRow ==
  ASSUME IInv, NEW r \in Requests, publishWrite(r)
  PROVE  rows' \in [Ads -> Row] /\ \A a \in Ads : RowStep(a)
<1> DEFINE a == req[r].ad
           row == Issued(rows[a], req[r])
<1>1. req[r].op = "publish" /\ CanWrite(a) /\ Respond(r) /\ today' = today
  BY DEF publishWrite, At
<1>2. Store(a, row)
  BY DEF publishWrite, Issued
<1>3. /\ req[r] \in Request /\ req[r].next \in {"PENDING", "PUBLISHED"} /\ req[r].next \in AdStatus
      /\ req[r].at \in Nat /\ req[r].at <= today 
      /\ rows[a] \in Row /\ rows[a].status \in AdStatus /\ today \in Nat
  BY <1>1, WriterKnows DEF Destination, CanWrite, Exists, IInv, TypeOK
<1>4. /\ row \in Row /\ row.status = req[r].next /\ row.publishedAt = req[r].at
      /\ row.expiresAt = getExpirationDateFrom(req[r].at) /\ row.rejected = FALSE /\ SameText(rows[a], row)
  BY <1>3, IssuedFact
<1> HIDE DEF row
<1>5. Legal(rows[a], row)
  BY <1>3, <1>4, IssuedLegal
<1>6. WrittenBy(r, a, row)
  BY <1>1, <1>3, <1>4, RespondWrites
<1> QED BY <1>1, <1>2, <1>4, <1>5, <1>6, WriterStores

LEMMA republishRow ==
  ASSUME IInv, NEW r \in Requests, republishWrite(r)
  PROVE  rows' \in [Ads -> Row] /\ \A a \in Ads : RowStep(a)
<1> DEFINE a == req[r].ad
           row == Rewritten(rows[a], req[r])
<1>1. req[r].op = "republish" /\ CanWrite(a) /\ Respond(r) /\ today' = today
  BY DEF republishWrite, At
<1>2. Store(a, row)
  BY DEF republishWrite, Rewritten
<1>3. /\ req[r] \in Request /\ req[r].next \in AdStatus
      /\ req[r].at \in Nat /\ req[r].at <= today 
      /\ rows[a] \in Row /\ rows[a].status \in AdStatus /\ today \in Nat
  BY <1>1, WriterKnows DEF CanWrite, Exists, IInv, TypeOK
<1>4. /\ row \in Row /\ row.status = req[r].next /\ row.publishedAt = req[r].at
      /\ row.expiresAt = getExpirationDateFrom(req[r].at) /\ row.rejected = FALSE
      /\ row.status # "PENDING" => SameText(rows[a], row)
  BY <1>3, RewrittenFact
<1> HIDE DEF row
<1>5. Legal(rows[a], row)
  BY <1>3, <1>4, IssuedLegal
<1>6. WrittenBy(r, a, row)
  BY <1>1, <1>3, <1>4, RespondWrites
<1> QED BY <1>1, <1>2, <1>4, <1>5, <1>6, WriterStores

LEMMA publishDraftRow ==
  ASSUME IInv, NEW r \in Requests, publishDraftWrite(r)
  PROVE  rows' \in [Ads -> Row] /\ \A a \in Ads : RowStep(a)
<1> DEFINE a == req[r].ad
           row == Revived(rows[a], req[r])
<1>1. req[r].op = "publishDraft" /\ CanWrite(a) /\ Respond(r) /\ today' = today
  BY DEF publishDraftWrite, At
<1>2. Store(a, row)
  BY DEF publishDraftWrite, Revived
<1>3. /\ req[r] \in Request /\ req[r].next \in AdStatus
      /\ req[r].at \in Nat /\ req[r].at <= today 
      /\ rows[a] \in Row /\ rows[a].status \in AdStatus /\ today \in Nat
  BY <1>1, WriterKnows DEF CanWrite, Exists, IInv, TypeOK
<1>4. /\ row \in Row /\ row.status = req[r].next /\ row.publishedAt = req[r].at
      /\ row.expiresAt = getExpirationDateFrom(req[r].at) /\ row.rejected = FALSE /\ SameText(rows[a], row)
  BY <1>3, RevivedFact
<1> HIDE DEF row
<1>5. Legal(rows[a], row)
  BY <1>3, <1>4, IssuedLegal
<1>6. WrittenBy(r, a, row)
  BY <1>1, <1>3, <1>4, RespondWrites
<1> QED BY <1>1, <1>2, <1>4, <1>5, <1>6, WriterStores

(* The one handler that goes on after it has written.                      *)
LEMMA rejectRow ==
  ASSUME IInv, NEW r \in Requests, rejectWrite(r), req'[r].op # "create"
  PROVE  rows' \in [Ads -> Row] /\ \A a \in Ads : RowStep(a)
<1> DEFINE a == req[r].ad
<1>1. req[r].op = "reject" /\ CanWrite(a) /\ today' = today
  BY DEF rejectWrite, At
<1>2. PICK reason \in BOOLEAN : Store(a, Judged(rows[a], req[r].next, reason))
  BY DEF rejectWrite, Judged
<1> DEFINE row == Judged(rows[a], req[r].next, reason)
<1>3. /\ req[r] \in Request /\ req[r].next = "REJECTED" /\ req[r].next \in AdStatus
      /\ rows[a] \in Row /\ rows[a].status \in AdStatus /\ Dated(rows[a], today)
  BY <1>1, WriterKnows DEF Destination, CanWrite, Exists
<1>4. /\ row \in Row /\ row.status = "REJECTED"
      /\ row.publishedAt = rows[a].publishedAt
      /\ row.expiresAt = rows[a].expiresAt /\ SameText(rows[a], row)
  BY <1>3, JudgedFact
<1>5. Store(a, row)
  BY <1>2
<1> HIDE DEF row
<1>6. Legal(rows[a], row)
  BY <1>3, <1>4, KeptLegal DEF Reasoned, AdStatus
<1>7. WrittenBy(r, a, row)
  BY <1>1, <1>3, <1>4 DEF WrittenBy, CanWrite, AdStatus
<1> QED BY <1>1, <1>4, <1>5, <1>6, <1>7, WriterStores

LEMMA archiveRow ==
  ASSUME IInv, NEW r \in Requests, archiveWrite(r) \/ activateWrite(r)
  PROVE  rows' \in [Ads -> Row] /\ \A a \in Ads : RowStep(a)
<1> DEFINE a == req[r].ad
<1>1. /\ req[r].op \in {"archive", "activate"}
      /\ CanWrite(a) /\ Respond(r) /\ today' = today
  BY DEF archiveWrite, activateWrite, At
<1>2. req[r].at \in Date /\ null \in Date
  BY <1>1, WriterKnows DEF Date
<1>3. PICK at \in Date : Store(a, Shelved(rows[a], req[r].next, at))
  BY <1>2 DEF archiveWrite, activateWrite, Shelved
<1> DEFINE row == Shelved(rows[a], req[r].next, at)
<1>4. /\ req[r].next \in {"ARCHIVED", "PENDING"} /\ req[r].next \in AdStatus
      /\ rows[a] \in Row /\ rows[a].status \in AdStatus /\ Dated(rows[a], today)
  BY <1>1, WriterKnows DEF Destination, CanWrite, Exists
<1>5. /\ row \in Row /\ row.status = req[r].next
      /\ row.publishedAt = rows[a].publishedAt
      /\ row.expiresAt = rows[a].expiresAt /\ SameText(rows[a], row)
  BY <1>3, <1>4, ShelvedFact
<1>6. Store(a, row)
  BY <1>3
<1> HIDE DEF row
<1>7. Legal(rows[a], row)
  BY <1>4, <1>5, KeptLegal DEF Reasoned, AdStatus
<1>8. WrittenBy(r, a, row)
  BY <1>1, <1>5, RespondWrites
<1> QED BY <1>1, <1>5, <1>6, <1>7, <1>8, WriterStores

LEMMA draftRow ==
  ASSUME IInv, NEW r \in Requests, draftWrite(r)
  PROVE  rows' \in [Ads -> Row] /\ \A a \in Ads : RowStep(a)
<1> DEFINE a == req[r].ad
           row == Drafted(rows[a], req[r].next)
<1>1. req[r].op = "draft" /\ CanWrite(a) /\ Respond(r) /\ today' = today
  BY DEF draftWrite, At
<1>2. Store(a, row)
  BY DEF draftWrite, Drafted
<1>3. /\ req[r] \in Request /\ req[r].next = "DRAFT" /\ req[r].next \in AdStatus
      /\ rows[a] \in Row /\ rows[a].status \in AdStatus /\ Dated(rows[a], today)
  BY <1>1, WriterKnows DEF Destination, CanWrite, Exists
<1>4. /\ row \in Row /\ row.status = "DRAFT" /\ row.rejected = FALSE
      /\ row.publishedAt = rows[a].publishedAt
      /\ row.expiresAt = rows[a].expiresAt /\ SameText(rows[a], row)
  BY <1>3, DraftedFact
<1> HIDE DEF row
<1>5. Legal(rows[a], row)
  BY <1>3, <1>4, KeptLegal DEF Reasoned, AdStatus
<1>6. WrittenBy(r, a, row)
  BY <1>1, RespondWrites
<1> QED BY <1>1, <1>2, <1>4, <1>5, <1>6, WriterStores

(* An update that read EXPIRED writes it back, over a row that still has   *)
(* the date it had then.                                                   *)
LEMMA editRow ==
  ASSUME IInv, NEW r \in Requests, updateWrite(r) \/ saveDraftWrite(r)
  PROVE  rows' \in [Ads -> Row] /\ \A a \in Ads : RowStep(a)
<1> DEFINE a == req[r].ad
<1>1. /\ req[r].op \in {"update", "saveDraft"}
      /\ CanWrite(a) /\ Respond(r) /\ today' = today
  BY DEF updateWrite, saveDraftWrite, At
<1>2. PICK c \in Contents : Store(a, Retyped(rows[a], req[r], c))
  BY DEF updateWrite, saveDraftWrite, Edited, Retyped
<1> DEFINE row == Retyped(rows[a], req[r], c)
<1>3. /\ req[r] \in Request /\ req[r].next # "PUBLISHED" /\ req[r].next \in AdStatus
      /\ rows[a] \in Row /\ rows[a].status \in AdStatus /\ Dated(rows[a], today)
  BY <1>1, WriterKnows DEF Destination, CanWrite, Exists
<1>4. /\ row \in Row /\ row.status = req[r].next /\ row.rejected = FALSE
      /\ row.publishedAt = rows[a].publishedAt
      /\ row.expiresAt = rows[a].expiresAt
  BY <1>3, RetypedFact
<1>5. Store(a, row)
  BY <1>2
<1> HIDE DEF row
<1>6. req[r].next = "EXPIRED" => rows[a].expiresAt # null
  BY <1>1, <1>3, WriterKnows DEF IInv, StaleEditsAreDated, Destination, AdStatus
<1>7. Legal(rows[a], row)
  BY <1>3, <1>4, <1>6, KeptLegal DEF Reasoned
<1>8. WrittenBy(r, a, row)
  BY <1>1, RespondWrites
<1> QED BY <1>1, <1>4, <1>5, <1>7, <1>8, WriterStores

LEMMA createRow ==
  ASSUME IInv, NEW r \in Requests, createWrite(r)
  PROVE  rows' \in [Ads -> Row] /\ \A a \in Ads : RowStep(a)
<1> DEFINE a == req[r].ad
<1>1. req[r].op = "create" /\ Respond(r) /\ today' = today
  BY DEF createWrite, At
<1>2. PICK c \in Contents : Store(a, Inserted(NoRow(req[r].next), req[r], c))
  BY DEF createWrite, Inserted
<1> DEFINE row == Inserted(NoRow(req[r].next), req[r], c)
<1>3. /\ req[r] \in Request /\ req[r].next \in {"PENDING", "DRAFT"} /\ req[r].next \in AdStatus
      /\ rows[a].status = "UNBORN" /\ rows[a] \in Row /\ Dated(rows[a], today)
  BY <1>1, WriterKnows DEF Destination, IInv, FreshIds
<1>4. /\ NoRow(req[r].next) \in Row /\ NoRow(req[r].next).status = req[r].next
      /\ NoRow(req[r].next).expiresAt = null
      /\ NoRow(req[r].next).rejected = FALSE
  BY <1>3, NoRowFact
<1>5. /\ row \in Row /\ row.status = req[r].next
      /\ row.expiresAt = null /\ row.rejected = FALSE
  BY <1>3, <1>4, InsertedFact
<1>6. Store(a, row)
  BY <1>2
<1> HIDE DEF row
<1>7. row.status \in {"PENDING", "DRAFT"} /\ row.status \in AdStatus
  BY <1>3, <1>5
<1>8. Legal(rows[a], row)
  BY <1>3, <1>5, <1>7 DEF Legal, Dated, Reasoned, AdStatus
<1>9. WrittenBy(r, a, row)
  BY <1>1, <1>3, RespondFact, IdleFact DEF WrittenBy, IInv
<1> QED BY <1>1, <1>5, <1>6, <1>8, <1>9, WriterStores

(* deleteAccount archives the rows it has locked, with the dates they had. *)
LEMMA closingRows ==
  ASSUME IInv, NEW r \in Requests, deleteAccountCommit(r)
  PROVE  rows' \in [Ads -> Row] /\ \A a \in Ads : RowStep(a)
<1> DEFINE locks == req[r].locks
<1>1. /\ rows \in [Ads -> Row] /\ today' = today /\ req[r].at \in Date
      /\ locks \subseteq Ads
  BY DEF IInv, TypeOK, Request, Date, deleteAccountCommit
<1>2. rows' = [a \in Ads |-> IF a \in locks
                               THEN Shelved(rows[a], "ARCHIVED", req[r].at)
                               ELSE rows[a]]
  BY DEF deleteAccountCommit, Shelved
<1>3. ASSUME NEW a \in Ads, a \in locks
      PROVE  rows'[a] \in Row /\ RowStep(a)
  <2> DEFINE row == Shelved(rows[a], "ARCHIVED", req[r].at)
  <2>1. rows[a] \in Row /\ Dated(rows[a], today) /\ rows[a].status \in AdStatus
    BY <1>1, <1>3 DEF IInv, LockedRowsExist, Exists
  <2>2. /\ row \in Row /\ row.status = "ARCHIVED"
        /\ row.publishedAt = rows[a].publishedAt
        /\ row.expiresAt = rows[a].expiresAt /\ SameText(rows[a], row)
    <3>1. "ARCHIVED" \in AdStatus
      BY DEF AdStatus
    <3> QED BY <1>1, <2>1, <3>1, ShelvedFact
  <2>3. rows'[a] = row
    BY <1>2, <1>3
  <2> HIDE DEF row
  <2>4. Legal(rows[a], row)
    BY <2>1, <2>2, KeptLegal DEF Reasoned, AdStatus
  <2>5. ClosedBy(r, a, row)
    BY <1>3, <2>2 DEF ClosedBy
  <2> QED BY <1>1, <2>2, <2>3, <2>4, <2>5 DEF RowStep
<1>4. ASSUME NEW a \in Ads, a \notin locks
      PROVE  rows'[a] \in Row /\ RowStep(a)
  BY <1>1, <1>2, <1>4 DEF RowStep
<1> HIDE DEF locks
<1> QED BY <1>2, <1>3, <1>4

LEMMA expiredRows ==
  ASSUME IInv, handleExpiredAds
  PROVE  rows' \in [Ads -> Row] /\ \A a \in Ads : RowStep(a)
<1>1. rows \in [Ads -> Row] /\ today' = today
  BY DEF IInv, TypeOK, handleExpiredAds
<1>2. rows' = [a \in Ads |-> IF Overdue(a) THEN TimedOut(rows[a]) ELSE rows[a]]
  BY DEF handleExpiredAds, TimedOut
<1>3. ASSUME NEW a \in Ads, Overdue(a)
      PROVE  rows'[a] \in Row /\ RowStep(a)
  <2> DEFINE row == TimedOut(rows[a])
  <2>1. /\ rows[a] \in Row /\ Dated(rows[a], today) /\ Reasoned(rows[a])
        /\ rows[a].status = "PUBLISHED" /\ rows[a].expiresAt # null
    BY <1>1, <1>3 DEF IInv, Overdue
  <2>2. /\ row \in Row /\ row.status = "EXPIRED"
        /\ row.publishedAt = rows[a].publishedAt
        /\ row.expiresAt = rows[a].expiresAt /\ row.rejected = rows[a].rejected
        /\ SameText(rows[a], row)
    BY <2>1, TimedOutFact
  <2>3. rows'[a] = row
    BY <1>2, <1>3
  <2> HIDE DEF row
  <2>4. Legal(rows[a], row)
    BY <2>1, <2>2, KeptLegal DEF Reasoned, AdStatus
  <2>5. Expired(a, row)
    BY <2>1, <2>2 DEF Expired
  <2> QED BY <1>1, <2>2, <2>3, <2>4, <2>5 DEF RowStep
<1>4. ASSUME NEW a \in Ads, ~Overdue(a)
      PROVE  rows'[a] \in Row /\ RowStep(a)
  BY <1>1, <1>2, <1>4 DEF RowStep
<1> QED BY <1>2, <1>3, <1>4

LEMMA GoneLegal ==
  ASSUME NEW old
  PROVE  Legal(old, NoRow("GONE"))
<1> DEFINE new == NoRow("GONE")
<1>1. /\ new \in Row /\ new.status = "GONE"
      /\ new.expiresAt = null /\ new.rejected = FALSE
  BY NoRowFact
<1> HIDE DEF new
<1>2. Legal(old, new)
  BY <1>1 DEF Legal, Dated, Reasoned
<1> QED BY <1>2 DEF new

LEMMA removeRow ==
  ASSUME IInv, NEW r \in Requests, removeWrite(r)
  PROVE  rows' \in [Ads -> Row] /\ \A a \in Ads : RowStep(a)
<1> DEFINE a == req[r].ad
           row == NoRow("GONE")
<1>1. /\ req[r].op = "remove" /\ CanWrite(a) /\ Respond(r) /\ today' = today
      /\ Store(a, row)
  BY DEF removeWrite, At
<1>2. row \in Row
  BY NoRowFact
<1> HIDE DEF row
<1>3. Legal(rows[a], row)
  BY GoneLegal DEF row
<1>4. WrittenBy(r, a, row)
  BY <1>1, RespondWrites
<1> QED BY <1>1, <1>2, <1>3, <1>4, WriterStores

LEMMA purgedRow ==
  ASSUME IInv, NEW a \in Ads, purgeDelete(a)
  PROVE  rows' \in [Ads -> Row] /\ \A b \in Ads : RowStep(b)
<1>1. TypeOK /\ today' = today /\ ~Locked(a)
  BY DEF IInv, purgeDelete
<1>2. CASE Exists(a)
  <2>1. Store(a, NoRow("GONE")) /\ NoRow("GONE") \in Row
          /\ NoRow("GONE").status = "GONE"
    BY <1>2, NoRowFact DEF purgeDelete
  <2>2. rows' \in [Ads -> Row] /\ rows'[a] = NoRow("GONE")
          /\ \A b \in Ads \ {a} : rows'[b] = rows[b]
    BY <1>1, <2>1, StoreFact
  <2>3. Purged(a, rows'[a])
    BY <1>1, <1>2, <2>1, <2>2 DEF Purged
  <2> QED BY <1>1, <2>2, <2>3, GoneLegal DEF RowStep
<1>3. CASE ~Exists(a)
  BY <1>1, <1>3 DEF purgeDelete, RowStep, TypeOK
<1> QED BY <1>2, <1>3

-----------------------------------------------------------------------------
(* Every action does to the requests what RequestStep says.                *)

Suspended(q, step) == [q EXCEPT !.step = step]

LEMMA SuspendedFact ==
  ASSUME NEW q \in Request, NEW step \in Steps
  PROVE  LET new == Suspended(q, step) IN
         /\ new \in Request
         /\ new.op = q.op /\ new.ad = q.ad /\ new.user = q.user
         /\ new.next = q.next /\ new.at = q.at /\ new.locks = q.locks
         /\ new.step = step /\ new.keep = q.keep
BY DEF Request, Suspended

Moving(q, op, a, to) ==
  [q EXCEPT !.op = op, !.ad = a, !.step = "write", !.next = to]

LEMMA MovingFact ==
  ASSUME NEW q \in Request, NEW op \in Handlers, NEW a \in Ads, NEW to \in AdStatus
  PROVE  LET new == Moving(q, op, a, to) IN
         /\ new \in Request
         /\ new.op = op /\ new.ad = a /\ new.user = q.user
         /\ new.next = to /\ new.at = q.at /\ new.locks = q.locks
         /\ new.step = "write"
BY DEF Request, Moving, Steps

Stamping(q, op, a, to) ==
  [q EXCEPT !.op = op, !.ad = a, !.step = "write", !.next = to, !.at = today]

LEMMA StampingFact ==
  ASSUME NEW q \in Request, NEW op \in Handlers, NEW a \in Ads, NEW to \in AdStatus,
         today \in Nat
  PROVE  LET new == Stamping(q, op, a, to) IN
         /\ new \in Request
         /\ new.op = op /\ new.ad = a /\ new.user = q.user
         /\ new.next = to /\ new.at = today /\ new.locks = q.locks
         /\ new.step = "write"
BY DEF Request, Stamping, Steps

(* A request that begins a handler on an existing ad.                      *)
LEMMA HandlerBegins ==
  ASSUME IInv, NEW r \in Requests, NEW q \in Request, Become(r, q), rows' = rows,
         q.op \notin {"none", "deleteAccount", "create"},
         q.ad \in Ads, Exists(q.ad),
         q.at <= today, Destination(q), q.user = req[r].user,
         q.locks = req[r].locks, q.step # "authorized",
         q.op \in OwnerHandlers => q.user = Owner[q.ad],
         q.op = "update" /\ q.next = "EXPIRED" => rows[q.ad].status = "EXPIRED"
  PROVE  req' \in [Requests -> Request] /\ \A s \in Requests : RequestStep(s)
<1>1. TypeOK /\ Informed(req[r], today)
  BY DEF IInv, RequestsInformed
<1>2. /\ req' \in [Requests -> Request] /\ req'[r] = q
      /\ \A s \in Requests \ {r} : req'[s] = req[s]
  BY <1>1, BecomeFact
<1>3. Informed(q, today)
  BY <1>1, ConstantsAssumption DEF Informed
<1>4. Took(r, q)
  BY DEF Took
<1> QED BY <1>2, <1>3, <1>4 DEF RequestStep

LEMMA movedRequest ==
  ASSUME IInv, NEW r \in Requests, NEW a \in Ads,
         rejectRead(r, a) \/ activateRead(r, a) \/ draftRead(r, a), rows' = rows
  PROVE  req' \in [Requests -> Request] /\ \A s \in Requests : RequestStep(s)
<1>1. PICK op \in {"reject", "activate", "draft"}, to \in AdStatus :
        /\ Become(r, Moving(req[r], op, a, to))
        /\ op = "reject" => to = "REJECTED"
        /\ op = "activate" => to = "PENDING"
        /\ op = "draft" => to = "DRAFT"
        /\ op # "reject" => req[r].user = Owner[a]
  BY DEF rejectRead, activateRead, draftRead, Moved, Moving, transition,
         transitions, getUserAdOrThrow
<1> DEFINE q == Moving(req[r], op, a, to)
<1>2. req[r] \in Request /\ Informed(req[r], today) /\ Exists(a) /\ op \in Handlers
  BY DEF IInv, TypeOK, RequestsInformed, rejectRead, activateRead, draftRead,
         getUserAdOrThrow, getAdForModerator, Handlers
<1>3. /\ q \in Request
      /\ q.op = op /\ q.ad = a /\ q.user = req[r].user
      /\ q.next = to /\ q.at = req[r].at /\ q.locks = req[r].locks
      /\ q.step # "authorized"
  BY <1>2, MovingFact
<1>4. Become(r, q)
  BY <1>1
<1> HIDE DEF q
<1>5. Destination(q) /\ q.at <= today
  BY <1>1, <1>2, <1>3 DEF Destination, Informed
<1> QED BY <1>1, <1>2, <1>3, <1>4, <1>5, HandlerBegins DEF OwnerHandlers

LEMMA stampedRequest ==
  ASSUME IInv, NEW r \in Requests, NEW a \in Ads,
         publishRead(r, a) \/ archiveRead(r, a) \/ publishDraftRead(r, a),
         rows' = rows
  PROVE  req' \in [Requests -> Request] /\ \A s \in Requests : RequestStep(s)
<1>1. PICK op \in {"publish", "archive", "publishDraft"}, to \in AdStatus :
        /\ Become(r, Stamping(req[r], op, a, to))
        /\ op # "archive" => to \in {"PENDING", "PUBLISHED"}
        /\ op = "archive" => to = "ARCHIVED"
        /\ op # "publish" => req[r].user = Owner[a]
  BY DEF publishRead, archiveRead, publishDraftRead, Stamped, Stamping,
         transition, transitions, getUserAdOrThrow
<1> DEFINE q == Stamping(req[r], op, a, to)
<1>2. /\ req[r] \in Request /\ today \in Nat /\ Exists(a) /\ op \in Handlers
  BY DEF IInv, TypeOK, publishRead, archiveRead, publishDraftRead,
         getUserAdOrThrow, getAdForModerator, Handlers
<1>3. /\ q \in Request
      /\ q.op = op /\ q.ad = a /\ q.user = req[r].user
      /\ q.next = to /\ q.at = today /\ q.locks = req[r].locks
      /\ q.step # "authorized"
  BY <1>2, StampingFact
<1>4. Become(r, q)
  BY <1>1
<1> HIDE DEF q
<1>5. Destination(q) /\ q.at <= today
  BY <1>1, <1>2, <1>3 DEF Destination
<1> QED BY <1>1, <1>2, <1>3, <1>4, <1>5, HandlerBegins DEF OwnerHandlers

Republishing(q, a, to, c) ==
  [q EXCEPT !.op = "republish", !.ad = a, !.step = "write", !.next = to,
            !.at = today, !.content = c]

LEMMA RepublishingFact ==
  ASSUME NEW q \in Request, NEW a \in Ads, NEW to \in AdStatus, NEW c \in Contents,
         today \in Nat
  PROVE  LET new == Republishing(q, a, to, c) IN
         /\ new \in Request
         /\ new.op = "republish" /\ new.ad = a /\ new.user = q.user
         /\ new.next = to /\ new.at = today /\ new.locks = q.locks
         /\ new.step = "write"
BY DEF Request, Republishing, Steps, Handlers

LEMMA republishRequest ==
  ASSUME IInv, NEW r \in Requests, NEW a \in Ads, republishRead(r, a), rows' = rows
  PROVE  req' \in [Requests -> Request] /\ \A s \in Requests : RequestStep(s)
<1>1. PICK c \in Contents, to \in {"PENDING", "PUBLISHED"} :
        Become(r, Republishing(req[r], a, to, c))
  BY DEF republishRead, Republishing
<1> DEFINE q == Republishing(req[r], a, to, c)
<1>2. /\ req[r] \in Request /\ today \in Nat /\ Exists(a) /\ to \in AdStatus
      /\ req[r].user = Owner[a]
  BY DEF IInv, TypeOK, republishRead, getUserAdOrThrow, AdStatus
<1>3. /\ q \in Request
      /\ q.op = "republish" /\ q.ad = a /\ q.user = req[r].user
      /\ q.next = to /\ q.at = today /\ q.locks = req[r].locks
      /\ q.step # "authorized"
  BY <1>2, RepublishingFact
<1>4. Become(r, q)
  BY <1>1
<1> HIDE DEF q
<1>5. Destination(q) /\ q.at <= today
  BY <1>2, <1>3 DEF Destination
<1> QED BY <1>2, <1>3, <1>4, <1>5, HandlerBegins

Sorting(q, op, a, step, next, keep, drop) ==
  [q EXCEPT !.op = op, !.ad = a, !.step = step, !.next = next,
            !.keep = keep, !.drop = drop]

LEMMA SortingFact ==
  ASSUME NEW q \in Request, NEW op \in Handlers, NEW a \in Ads, NEW step \in Steps,
         NEW next \in AdStatus, NEW keep \in SUBSET Images, NEW drop \in SUBSET Images
  PROVE  LET new == Sorting(q, op, a, step, next, keep, drop) IN
         /\ new \in Request
         /\ new.op = op /\ new.ad = a /\ new.user = q.user
         /\ new.next = next /\ new.at = q.at /\ new.locks = q.locks
         /\ new.step = step /\ new.keep = keep /\ new.drop = drop
BY DEF Request, Sorting

LEMMA sortedRequest ==
  ASSUME IInv, NEW r \in Requests, NEW a \in Ads,
         updateRead(r, a) \/ saveDraftRead(r, a), rows' = rows
  PROVE  req' \in [Requests -> Request] /\ \A s \in Requests : RequestStep(s)
<1>1. /\ req[r] \in Request /\ Informed(req[r], today) /\ Exists(a)
      /\ rows[a].status \in AdStatus /\ rows[a].images \subseteq Images
      /\ req[r].user = Owner[a]
  BY DEF IInv, TypeOK, RequestsInformed, Row, updateRead, saveDraftRead,
         getUserAdOrThrow, Exists
<1>2. PICK op \in {"update", "saveDraft"}, next \in AdStatus :
        /\ SortImages(r, a, op, next)
        /\ op = "update" => next = nextStatus(rows[a].status)
        /\ op = "saveDraft" => next = "DRAFT"
  BY <1>1 DEF updateRead, saveDraftRead, nextStatus, AdStatus
<1>3. PICK existing \in SUBSET Images,
           step \in {"deleteFiles", "uploadFiles", "write"} :
        Become(r, Sorting(req[r], op, a, step, next, existing,
                          rows[a].images \ existing))
  BY <1>2 DEF SortImages, Sorting
<1> DEFINE drop == rows[a].images \ existing
           q == Sorting(req[r], op, a, step, next, existing, drop)
<1>4. /\ existing \in SUBSET Images /\ drop \in SUBSET Images
      /\ step \in Steps /\ op \in Handlers
  BY <1>1 DEF Steps, Handlers
<1> HIDE DEF drop
<1>5. /\ q \in Request
      /\ q.op = op /\ q.ad = a /\ q.user = req[r].user
      /\ q.next = next /\ q.at = req[r].at /\ q.locks = req[r].locks
      /\ q.step # "authorized"
  BY <1>1, <1>4, SortingFact
<1>6. Become(r, q)
  BY <1>3 DEF drop
<1> HIDE DEF q
<1>7. Destination(q) /\ q.at <= today
  BY <1>1, <1>2, <1>5 DEF Destination, Informed, nextStatus
<1>8. q.op = "update" /\ q.next = "EXPIRED" => rows[a].status = "EXPIRED"
  BY <1>2, <1>5 DEF nextStatus
<1> QED BY <1>1, <1>5, <1>6, <1>7, <1>8, HandlerBegins

Removing(q, a, drop, step) ==
  [q EXCEPT !.op = "remove", !.ad = a, !.drop = drop, !.step = step]

LEMMA RemovingFact ==
  ASSUME NEW q \in Request, NEW a \in Ads, NEW drop \in SUBSET Images,
         NEW step \in Steps
  PROVE  LET new == Removing(q, a, drop, step) IN
         /\ new \in Request
         /\ new.op = "remove" /\ new.ad = a /\ new.user = q.user
         /\ new.next = q.next /\ new.at = q.at /\ new.locks = q.locks
         /\ new.step = step /\ new.drop = drop
BY DEF Request, Removing, Handlers

LEMMA removeRequest ==
  ASSUME IInv, NEW r \in Requests, NEW a \in Ads, removeRead(r, a), rows' = rows
  PROVE  req' \in [Requests -> Request] /\ \A s \in Requests : RequestStep(s)
<1>1. /\ req[r] \in Request /\ Informed(req[r], today) /\ Exists(a)
      /\ rows[a].images \in SUBSET Images /\ req[r].user = Owner[a]
  BY DEF IInv, TypeOK, RequestsInformed, Row, removeRead, getUserAdOrThrow
<1>2. PICK step \in {"write", "deleteFiles"} :
        Become(r, Removing(req[r], a, rows[a].images, step))
  BY DEF removeRead, Removing
<1> DEFINE q == Removing(req[r], a, rows[a].images, step)
<1>3. step \in Steps
  BY DEF Steps
<1>4. /\ q \in Request
      /\ q.op = "remove" /\ q.ad = a /\ q.user = req[r].user
      /\ q.next = req[r].next /\ q.at = req[r].at /\ q.locks = req[r].locks
      /\ q.step # "authorized"
  BY <1>1, <1>3, RemovingFact
<1>5. Become(r, q)
  BY <1>2
<1> HIDE DEF q
<1>6. Destination(q) /\ q.at <= today
  BY <1>1, <1>4 DEF Destination, Informed
<1> QED BY <1>1, <1>4, <1>5, <1>6, HandlerBegins

Creating(q, a, step, next, keep) ==
  [q EXCEPT !.op = "create", !.ad = a, !.step = step, !.next = next, !.keep = keep]

LEMMA CreatingFact ==
  ASSUME NEW q \in Request, NEW a \in Ads, NEW step \in Steps, NEW next \in AdStatus,
         NEW keep \in SUBSET Images
  PROVE  LET new == Creating(q, a, step, next, keep) IN
         /\ new \in Request
         /\ new.op = "create" /\ new.ad = a /\ new.user = q.user
         /\ new.next = next /\ new.at = q.at /\ new.locks = q.locks
         /\ new.step = step /\ new.keep = keep
BY DEF Request, Creating, Handlers

LEMMA createRequest ==
  ASSUME IInv, NEW r \in Requests, NEW a \in Ads, createRead(r, a), rows' = rows
  PROVE  req' \in [Requests -> Request] /\ \A s \in Requests : RequestStep(s)
<1>1. /\ req[r] \in Request /\ Informed(req[r], today) /\ TypeOK
      /\ req[r].user = Owner[a]
      /\ rows[a].status = "UNBORN" /\ \A s \in Requests : req[s].ad # a
  BY DEF IInv, TypeOK, RequestsInformed, createRead
<1>2. PICK step \in {"uploadFiles", "write"}, next \in {"PENDING", "DRAFT"},
           keep \in SUBSET Images :
        Become(r, Creating(req[r], a, step, next, keep))
  BY DEF createRead, Creating
<1> DEFINE q == Creating(req[r], a, step, next, keep)
<1>3. step \in Steps /\ next \in AdStatus
  BY DEF Steps, AdStatus
<1>4. /\ q \in Request
      /\ q.op = "create" /\ q.ad = a /\ q.user = req[r].user
      /\ q.next = next /\ q.at = req[r].at /\ q.locks = req[r].locks
      /\ q.step # "authorized"
  BY <1>1, <1>3, CreatingFact
<1>5. Become(r, q)
  BY <1>2
<1> HIDE DEF q
<1>6. /\ req' \in [Requests -> Request] /\ req'[r] = q
      /\ \A s \in Requests \ {r} : req'[s] = req[s]
  BY <1>1, <1>4, <1>5, BecomeFact
<1>7. Informed(q, today)
  BY <1>1, <1>4, ConstantsAssumption DEF Informed, Destination
<1>8. Took(r, q)
  BY <1>1, <1>4, <1>6 DEF Took
<1> QED BY <1>4, <1>6, <1>7, <1>8 DEF RequestStep

Closing(q, locks) ==
  [q EXCEPT !.op = "deleteAccount", !.step = "closing", !.at = today,
            !.locks = locks]

LEMMA ClosingFact ==
  ASSUME NEW q \in Request, NEW locks \in SUBSET Ads, today \in Nat
  PROVE  LET new == Closing(q, locks) IN
         /\ new \in Request
         /\ new.op = "deleteAccount" /\ new.ad = q.ad /\ new.user = q.user
         /\ new.next = q.next /\ new.at = today /\ new.locks = locks
         /\ new.step = "closing"
BY DEF Request, Closing, Handlers, Steps

LEMMA deleteAccountRequest ==
  ASSUME IInv, NEW r \in Requests, deleteAccountBegin(r)
  PROVE  req' \in [Requests -> Request] /\ \A s \in Requests : RequestStep(s)
<1> DEFINE hit == {a \in Ads : /\ Owner[a] = req[r].user /\ Exists(a)
                               /\ rows[a].status # "ARCHIVED"}
           q == Closing(req[r], hit)
<1>1. /\ req[r] \in Request /\ Informed(req[r], today) /\ TypeOK
      /\ today \in Nat /\ req[r].step = "authorized" /\ rows' = rows
      /\ req[r].user \in Users
      /\ hit \in SUBSET Ads
  BY DEF IInv, TypeOK, RequestsInformed, deleteAccountBegin
<1>2. Become(r, q)
  BY DEF deleteAccountBegin, Closing
<1>3. \A a \in hit : Exists(a) /\ Owner[a] = req[r].user
  OBVIOUS
<1> HIDE DEF hit
<1>4. /\ q \in Request
      /\ q.op = "deleteAccount" /\ q.ad = null /\ q.user = req[r].user
      /\ q.at = today /\ q.locks = hit /\ q.step = "closing"
  BY <1>1, ClosingFact DEF Informed
<1> HIDE DEF q
<1>5. /\ req' \in [Requests -> Request] /\ req'[r] = q
      /\ \A s \in Requests \ {r} : req'[s] = req[s]
  BY <1>1, <1>2, <1>4, BecomeFact
<1>6. Informed(q, today)
  BY <1>1, <1>3, <1>4 DEF Informed, Destination, OwnerHandlers
<1> QED BY <1>1, <1>3, <1>4, <1>5, <1>6 DEF RequestStep, Took

LEMMA RespondRequest ==
  ASSUME IInv, NEW r \in Requests, Respond(r)
  PROVE  req' \in [Requests -> Request] /\ \A s \in Requests : RequestStep(s)
<1>1. TypeOK /\ today \in Nat
  BY DEF IInv, TypeOK
<1>2. /\ req' \in [Requests -> Request] /\ req'[r] = Idle
      /\ \A s \in Requests \ {r} : req'[s] = req[s]
  BY <1>1, RespondFact
<1>3. Informed(Idle, today)
  BY <1>1, IdleInformed
<1> QED BY <1>2, <1>3, IdleFact DEF RequestStep, Took

(* A handler that goes on to its next step.                                *)
LEMMA HandlerGoesOn ==
  ASSUME IInv, NEW r \in Requests, NEW q \in Request, Become(r, q),
         q.op = req[r].op, q.ad = req[r].ad, q.user = req[r].user,
         q.next = req[r].next, q.at = req[r].at, q.locks = req[r].locks,
         q.step # "authorized"
  PROVE  /\ req' \in [Requests -> Request]
         /\ req'[r] = q
         /\ \A s \in Requests : RequestStep(s)
<1>1. TypeOK /\ Informed(req[r], today)
  BY DEF IInv, RequestsInformed
<1>2. /\ req' \in [Requests -> Request] /\ req'[r] = q
      /\ \A s \in Requests \ {r} : req'[s] = req[s]
  BY <1>1, BecomeFact
<1>3. Informed(q, today)
  BY <1>1 DEF Informed, Destination
<1> QED BY <1>2, <1>3 DEF RequestStep, Took

LEMMA SuspendRequest ==
  ASSUME IInv, NEW r \in Requests, NEW step \in Steps \ {"authorized"},
         Suspend(r, step)
  PROVE  /\ req' \in [Requests -> Request]
         /\ req'[r].op = req[r].op
         /\ \A s \in Requests : RequestStep(s)
<1> DEFINE q == Suspended(req[r], step)
<1>1. req[r] \in Request /\ step \in Steps
  BY DEF IInv, TypeOK
<1>2. /\ q \in Request /\ q.op = req[r].op /\ q.ad = req[r].ad
      /\ q.user = req[r].user /\ q.next = req[r].next /\ q.at = req[r].at
      /\ q.locks = req[r].locks /\ q.step = step
  BY <1>1, SuspendedFact
<1>3. Become(r, q)
  BY DEF Suspend, Suspended
<1> HIDE DEF q
<1> QED BY <1>2, <1>3, HandlerGoesOn

Keeping(q, new) == [q EXCEPT !.step = "write", !.keep = @ \cup new]

LEMMA KeepingFact ==
  ASSUME NEW q \in Request, NEW files1 \in SUBSET Images
  PROVE  LET new == Keeping(q, files1) IN
         /\ new \in Request
         /\ new.op = q.op /\ new.ad = q.ad /\ new.user = q.user
         /\ new.next = q.next /\ new.at = q.at /\ new.locks = q.locks
         /\ new.step = "write" /\ new.keep = q.keep \cup files1
BY DEF Request, Keeping, Steps

LEMMA uploadRequest ==
  ASSUME IInv, NEW r \in Requests, uploadFiles(r)
  PROVE  req' \in [Requests -> Request] /\ \A s \in Requests : RequestStep(s)
<1>1. PICK new \in SUBSET Images : Become(r, Keeping(req[r], new))
  BY DEF uploadFiles, Unused, Keeping
<1> DEFINE q == Keeping(req[r], new)
<1>2. req[r] \in Request
  BY DEF IInv, TypeOK
<1>3. /\ q \in Request /\ q.op = req[r].op /\ q.ad = req[r].ad
      /\ q.user = req[r].user /\ q.next = req[r].next /\ q.at = req[r].at
      /\ q.locks = req[r].locks /\ q.step = "write"
  BY <1>2, KeepingFact
<1>4. Become(r, q)
  BY <1>1
<1> HIDE DEF q
<1> QED BY <1>3, <1>4, HandlerGoesOn

Admitted(u) == [Idle EXCEPT !.step = "authorized", !.user = u]

LEMMA AdmittedFact ==
  ASSUME NEW u \in Users \cup {moderator}
  PROVE  LET new == Admitted(u) IN
         /\ new \in Request
         /\ new.op = "none" /\ new.ad = null /\ new.at = 0 /\ new.locks = {}
         /\ new.step = "authorized" /\ new.keep = {}
BY DEF Request, Admitted, Idle, Steps, Handlers, AdStatus

LEMMA authorizedRequest ==
  ASSUME IInv, NEW r \in Requests, AuthGuard(r)
  PROVE  req' \in [Requests -> Request] /\ \A s \in Requests : RequestStep(s)
<1>1. PICK u \in Users \cup {moderator} : Become(r, Admitted(u))
  BY DEF AuthGuard, Admitted
<1> DEFINE q == Admitted(u)
<1>2. /\ q \in Request
      /\ q.op = "none" /\ q.ad = null /\ q.at = 0 /\ q.locks = {}
  BY AdmittedFact
<1>3. Become(r, q) /\ TypeOK /\ today \in Nat
  BY <1>1 DEF IInv, TypeOK
<1> HIDE DEF q
<1>4. /\ req' \in [Requests -> Request] /\ req'[r] = q
      /\ \A s \in Requests \ {r} : req'[s] = req[s]
  BY <1>2, <1>3, BecomeFact
<1>5. Informed(q, today)
  BY <1>2, <1>3 DEF Informed, Destination, OwnerHandlers
<1> QED BY <1>2, <1>4, <1>5 DEF RequestStep, Took

-----------------------------------------------------------------------------
(* The two relations hold of every step.                                   *)

Steady ==
  /\ rows' \in [Ads -> Row]
  /\ req' \in [Requests -> Request]
  /\ \A a \in Ads : RowStep(a)
  /\ \A r \in Requests : RequestStep(r)
  /\ today' \in Nat /\ today <= today'

LEMMA SameRows ==
  ASSUME IInv, rows' = rows
  PROVE  rows' \in [Ads -> Row] /\ \A a \in Ads : RowStep(a)
BY DEF IInv, TypeOK, RowStep

LEMMA SameRequests ==
  ASSUME IInv, req' = req
  PROVE  req' \in [Requests -> Request] /\ \A r \in Requests : RequestStep(r)
BY DEF IInv, TypeOK, RequestStep

LEMMA SameDay ==
  ASSUME IInv, today' = today
  PROVE  today' \in Nat /\ today <= today'
BY DEF IInv, TypeOK

LEMMA readSteady ==
  ASSUME IInv, NEW r \in Requests, ReadStep(r)
  PROVE  Steady
<1>1. rows' = rows /\ today' = today
  BY DEF ReadStep
<1>2. req' \in [Requests -> Request] /\ \A s \in Requests : RequestStep(s)
  <2>1. PICK a \in Ads :
          \/ publishRead(r, a)   \/ rejectRead(r, a)   \/ archiveRead(r, a)
          \/ activateRead(r, a)  \/ draftRead(r, a)    \/ publishDraftRead(r, a)
          \/ republishRead(r, a) \/ updateRead(r, a)   \/ saveDraftRead(r, a)
          \/ removeRead(r, a)    \/ createRead(r, a)
    BY DEF ReadStep
  <2>2. CASE rejectRead(r, a) \/ activateRead(r, a) \/ draftRead(r, a)
    BY <1>1, <2>2, movedRequest
  <2>3. CASE publishRead(r, a) \/ archiveRead(r, a) \/ publishDraftRead(r, a)
    BY <1>1, <2>3, stampedRequest
  <2>4. CASE republishRead(r, a)
    BY <1>1, <2>4, republishRequest
  <2>5. CASE updateRead(r, a) \/ saveDraftRead(r, a)
    BY <1>1, <2>5, sortedRequest
  <2>6. CASE removeRead(r, a)
    BY <1>1, <2>6, removeRequest
  <2>7. CASE createRead(r, a)
    BY <1>1, <2>7, createRequest
  <2> QED BY <2>1, <2>2, <2>3, <2>4, <2>5, <2>6, <2>7
<1> QED BY <1>1, <1>2, SameRows, SameDay DEF Steady

LEMMA storageSteady ==
  ASSUME IInv, NEW r \in Requests, StorageStep(r)
  PROVE  Steady
<1>1. rows' = rows /\ today' = today
  BY DEF StorageStep, deleteImagesFromS3, deleteImagesFails, uploadFiles,
         uploadFails, refuseAfterUpload
<1>2. CASE deleteImagesFromS3(r)
  <2>1. PICK step \in {"uploadFiles", "write"} : Suspend(r, step)
    BY <1>2 DEF deleteImagesFromS3
  <2>2. step \in Steps \ {"authorized"}
    BY DEF Steps
  <2> QED BY <1>1, <2>1, <2>2, SuspendRequest, SameRows, SameDay DEF Steady
<1>3. CASE uploadFiles(r)
  BY <1>1, <1>3, uploadRequest, SameRows, SameDay DEF Steady
<1>4. CASE deleteImagesFails(r) \/ uploadFails(r) \/ refuseAfterUpload(r)
  <2>1. Respond(r)
    BY <1>4 DEF deleteImagesFails, uploadFails, refuseAfterUpload
  <2> QED BY <1>1, <2>1, RespondRequest, SameRows, SameDay DEF Steady
<1> QED BY <1>2, <1>3, <1>4 DEF StorageStep

LEMMA writeSteady ==
  ASSUME IInv, NEW r \in Requests, WriteStep(r)
  PROVE  Steady
<1>1. CASE rejectWrite(r)
  <2>1. Suspend(r, "notify") /\ today' = today /\ req[r].op = "reject"
          /\ "notify" \in Steps \ {"authorized"}
    BY <1>1 DEF rejectWrite, At, Steps
  <2>2. /\ req' \in [Requests -> Request] /\ req'[r].op = "reject"
        /\ \A s \in Requests : RequestStep(s)
    BY <2>1, SuspendRequest
  <2> QED BY <1>1, <2>1, <2>2, rejectRow, SameDay DEF Steady
<1>2. CASE notifyAdRejected(r) \/ notifyFails(r) \/ writeMissing(r)
  <2>1. Respond(r) /\ rows' = rows /\ today' = today
    BY <1>2 DEF notifyAdRejected, notifyFails, writeMissing
  <2> QED BY <2>1, RespondRequest, SameRows, SameDay DEF Steady
<1>3. CASE \/ createWrite(r)   \/ updateWrite(r)       \/ publishWrite(r)
           \/ republishWrite(r) \/ archiveWrite(r)     \/ activateWrite(r)
           \/ draftWrite(r)    \/ saveDraftWrite(r)    \/ publishDraftWrite(r)
           \/ removeWrite(r)
  <2>1. Respond(r) /\ today' = today
    BY <1>3 DEF createWrite, updateWrite, publishWrite, republishWrite,
                archiveWrite, activateWrite, draftWrite, saveDraftWrite,
                publishDraftWrite, removeWrite
  <2>2. rows' \in [Ads -> Row] /\ \A a \in Ads : RowStep(a)
    BY <1>3, createRow, editRow, publishRow, republishRow, archiveRow,
       draftRow, publishDraftRow, removeRow
  <2> QED BY <2>1, <2>2, RespondRequest, SameDay DEF Steady
<1> QED BY <1>1, <1>2, <1>3 DEF WriteStep

LEMMA StepSteady ==
  ASSUME IInv, [Next]_vars
  PROVE  Steady
<1>1. ASSUME NEW r \in Requests, AuthGuard(r)
      PROVE  Steady
  <2>1. rows' = rows /\ today' = today
    BY <1>1 DEF AuthGuard
  <2> QED BY <1>1, <2>1, authorizedRequest, SameRows, SameDay DEF Steady
<1>2. ASSUME NEW r \in Requests, Refuse(r)
      PROVE  Steady
  <2>1. Respond(r) /\ rows' = rows /\ today' = today
    BY <1>2 DEF Refuse
  <2> QED BY <2>1, RespondRequest, SameRows, SameDay DEF Steady
<1>3. ASSUME NEW r \in Requests, DeleteAccountStep(r)
      PROVE  Steady
  <2>1. CASE deleteAccountBegin(r)
    <3>1. rows' = rows /\ today' = today
      BY <2>1 DEF deleteAccountBegin
    <3> QED BY <2>1, <3>1, deleteAccountRequest, SameRows, SameDay DEF Steady
  <2>2. CASE deleteAccountCommit(r)
    <3>1. Respond(r) /\ today' = today
      BY <2>2 DEF deleteAccountCommit
    <3> QED BY <2>2, <3>1, closingRows, RespondRequest, SameDay DEF Steady
  <2>3. CASE deleteAccountAbort(r)
    <3>1. Respond(r) /\ rows' = rows /\ today' = today
      BY <2>3 DEF deleteAccountAbort
    <3> QED BY <3>1, RespondRequest, SameRows, SameDay DEF Steady
  <2> QED BY <1>3, <2>1, <2>2, <2>3 DEF DeleteAccountStep
<1>4. CASE handleExpiredAds
  <2>1. req' = req /\ today' = today
    BY <1>4 DEF handleExpiredAds
  <2> QED BY <1>4, <2>1, expiredRows, SameRequests, SameDay DEF Steady
<1>5. CASE PurgeStep
  <2>1. req' = req /\ today' = today
    BY <1>5 DEF PurgeStep, purgeScan, purgeFiles, purgeFilesFails, purgeDelete
  <2>2. rows' \in [Ads -> Row] /\ \A a \in Ads : RowStep(a)
    <3>1. ASSUME rows' = rows
          PROVE  rows' \in [Ads -> Row] /\ \A a \in Ads : RowStep(a)
      BY <3>1, SameRows
    <3> QED BY <1>5, <3>1, purgedRow
            DEF PurgeStep, purgeScan, purgeFiles, purgeFilesFails
  <2> QED BY <2>1, <2>2, SameRequests, SameDay DEF Steady
<1>6. CASE Tick
  <2>1. rows' = rows /\ req' = req /\ today' \in Nat /\ today <= today'
    BY <1>6 DEF Tick, IInv, TypeOK
  <2> QED BY <2>1, SameRows, SameRequests DEF Steady
<1>7. CASE Crash
  <2>1. rows' = rows /\ today' = today /\ req' = [r \in Requests |-> Idle]
    BY <1>7 DEF Crash
  <2>2. Informed(Idle, today)
    BY IdleInformed DEF IInv, TypeOK
  <2>3. req' \in [Requests -> Request] /\ \A r \in Requests : RequestStep(r)
    BY <2>1, <2>2, IdleFact DEF RequestStep, Took
  <2> QED BY <2>1, <2>3, SameRows, SameDay DEF Steady
<1>8. CASE UNCHANGED vars
  <2>1. rows' = rows /\ req' = req /\ today' = today
    BY <1>8 DEF vars
  <2> QED BY <2>1, SameRows, SameRequests, SameDay DEF Steady
<1> QED BY <1>1, <1>2, <1>3, <1>4, <1>5, <1>6, <1>7, <1>8,
           readSteady, storageSteady, writeSteady DEF Next, HandlerStep

-----------------------------------------------------------------------------
(* The invariant.                                                          *)

LEMMA InitIInv == Init => IInv
<1> SUFFICES ASSUME Init
             PROVE  IInv
  OBVIOUS
<1>1. /\ rows = [a \in Ads |-> NoRow("UNBORN")]
      /\ req = [r \in Requests |-> Idle]
      /\ today = 0
  BY DEF Init
<1>2. /\ NoRow("UNBORN") \in Row /\ NoRow("UNBORN").status = "UNBORN"
      /\ NoRow("UNBORN").expiresAt = null
      /\ NoRow("UNBORN").rejected = FALSE
  BY NoRowFact
<1> DEFINE row == NoRow("UNBORN")
<1> HIDE DEF row
<1>3. Dated(row, today) /\ Reasoned(row)
  BY <1>2 DEF row, Dated, Reasoned
<1>4. \A a \in Ads : rows[a] = row /\ rows[a] \in Row
  BY <1>1, <1>2 DEF row
<1>5. TypeOK
  BY <1>1, <1>2, IdleFact DEF Init, TypeOK, NotPurged
<1>6. \A r \in Requests : req[r] = Idle /\ Informed(req[r], today)
  BY <1>1, IdleInformed
<1> QED BY <1>3, <1>4, <1>5, <1>6, IdleFact
        DEF IInv, RequestsInformed, FreshIds, LockedRowsExist,
            StaleEditsAreDated

LEMMA StorageType ==
  ASSUME IInv, [Next]_vars
  PROVE  files' \in [Images -> {"unused", "stored", "deleted"}]
<1> USE DEF IInv, TypeOK
<1>1. ASSUME NEW gone, Delete(gone)
      PROVE  files' \in [Images -> {"unused", "stored", "deleted"}]
  BY <1>1 DEF Delete
<1>2. ASSUME NEW new, Upload(new)
      PROVE  files' \in [Images -> {"unused", "stored", "deleted"}]
  BY <1>2 DEF Upload
<1>3. ASSUME NEW r \in Requests, StorageStep(r)
      PROVE  files' \in [Images -> {"unused", "stored", "deleted"}]
  BY <1>1, <1>2, <1>3
     DEF StorageStep, deleteImagesFromS3, deleteImagesFails, uploadFiles,
         uploadFails, refuseAfterUpload
<1>4. CASE PurgeStep
  BY <1>1, <1>4
     DEF PurgeStep, purgeScan, purgeFiles, purgeFilesFails, purgeDelete
<1>5. CASE files' = files
  BY <1>5
<1>6. ASSUME NEW r \in Requests,
             AuthGuard(r) \/ Refuse(r) \/ ReadStep(r) \/ DeleteAccountStep(r)
      PROVE  files' = files
  BY <1>6 DEF AuthGuard, Refuse, ReadStep, DeleteAccountStep,
              deleteAccountBegin, deleteAccountCommit, deleteAccountAbort
<1>7. ASSUME NEW r \in Requests, WriteStep(r)
      PROVE  files' = files
  BY <1>7 DEF WriteStep, createWrite, updateWrite, publishWrite,
              republishWrite, rejectWrite, notifyAdRejected, notifyFails, archiveWrite,
              activateWrite, draftWrite, saveDraftWrite, publishDraftWrite,
              removeWrite, writeMissing
<1>8. handleExpiredAds \/ Tick \/ Crash \/ UNCHANGED vars => files' = files
  BY DEF handleExpiredAds, Tick, Crash, vars
<1> QED BY <1>3, <1>4, <1>5, <1>6, <1>7, <1>8 DEF Next, HandlerStep

LEMMA AccountsType ==
  ASSUME IInv, [Next]_vars
  PROVE  deleted' \subseteq Users /\ notices' \subseteq Ads
<1>1. deleted \subseteq Users /\ notices \subseteq Ads
  BY DEF IInv, TypeOK
<1>2. ASSUME NEW r \in Requests, deleteAccountCommit(r)
      PROVE  deleted' \subseteq Users /\ notices' \subseteq Ads
  <2>1. req[r].user \in Users
    BY <1>2 DEF deleteAccountCommit, At, IInv, RequestsInformed, Informed
  <2> QED BY <1>1, <1>2, <2>1 DEF deleteAccountCommit
<1>3. ASSUME NEW r \in Requests, notifyAdRejected(r)
      PROVE  deleted' \subseteq Users /\ notices' \subseteq Ads
  <2>1. req[r].ad \in Ads
    BY <1>3, WriterKnows DEF notifyAdRejected, At
  <2> QED BY <1>1, <1>3, <2>1 DEF notifyAdRejected
<1>4. ASSUME NEW r \in Requests,
             \/ AuthGuard(r) \/ Refuse(r) \/ ReadStep(r) \/ StorageStep(r)
             \/ deleteAccountBegin(r) \/ deleteAccountAbort(r)
      PROVE  UNCHANGED <<deleted, notices>>
  BY <1>4 DEF AuthGuard, Refuse, ReadStep, StorageStep, deleteImagesFromS3,
              deleteImagesFails, uploadFiles, uploadFails, refuseAfterUpload,
              deleteAccountBegin, deleteAccountAbort
<1>5. ASSUME NEW r \in Requests, WriteStep(r), ~notifyAdRejected(r)
      PROVE  UNCHANGED <<deleted, notices>>
  BY <1>5 DEF WriteStep, createWrite, updateWrite, publishWrite,
              republishWrite, rejectWrite, archiveWrite, activateWrite,
              draftWrite, saveDraftWrite, publishDraftWrite, removeWrite,
              notifyFails, writeMissing
<1>6. ASSUME handleExpiredAds \/ PurgeStep \/ Tick \/ Crash \/ UNCHANGED vars
      PROVE  UNCHANGED <<deleted, notices>>
  BY <1>6 DEF handleExpiredAds, PurgeStep, purgeScan, purgeFiles,
              purgeFilesFails, purgeDelete, Tick, Crash, vars
<1> QED BY <1>1, <1>2, <1>3, <1>4, <1>5, <1>6
        DEF Next, HandlerStep, DeleteAccountStep

LEMMA PurgeType ==
  ASSUME IInv, [Next]_vars
  PROVE  purge' \in [Ads -> [stage : {"none", "queued", "emptied"},
                             images : SUBSET Images]]
<1> DEFINE Entry == [stage : {"none", "queued", "emptied"},
                     images : SUBSET Images]
<1>1. purge \in [Ads -> Entry] /\ rows \in [Ads -> Row] /\ NotPurged \in Entry
  BY DEF IInv, TypeOK, NotPurged
<1>2. ASSUME purgeScan
      PROVE  purge' \in [Ads -> Entry]
  <2>1. ASSUME NEW a \in Ads
        PROVE  [stage |-> "queued", images |-> rows[a].images] \in Entry
    BY <1>1 DEF Row
  <2>2. purge' = [a \in Ads |->
                   IF PurgeDue(a)
                     THEN [stage |-> "queued", images |-> rows[a].images]
                     ELSE NotPurged]
    BY <1>2 DEF purgeScan
  <2> HIDE DEF Entry
  <2> QED BY <1>1, <2>1, <2>2
<1>3. ASSUME NEW a \in Ads, purgeFiles(a)
      PROVE  purge' \in [Ads -> Entry]
  <2>1. ASSUME NEW entry \in Entry
        PROVE  [entry EXCEPT !.stage = "emptied"] \in Entry
    OBVIOUS
  <2>2. purge' = [purge EXCEPT ![a] = [purge[a] EXCEPT !.stage = "emptied"]]
    BY <1>3 DEF purgeFiles
  <2> HIDE DEF Entry
  <2>3. [purge[a] EXCEPT !.stage = "emptied"] \in Entry
    BY <1>1, <2>1
  <2> QED BY <1>1, <2>2, <2>3
<1>4. ASSUME NEW a \in Ads, purgeFilesFails(a) \/ purgeDelete(a)
      PROVE  purge' \in [Ads -> Entry]
  <2>1. purge' = [purge EXCEPT ![a] = NotPurged]
    BY <1>4 DEF purgeFilesFails, purgeDelete
  <2> HIDE DEF Entry
  <2> QED BY <1>1, <2>1
<1>5. ASSUME Crash
      PROVE  purge' \in [Ads -> Entry]
  BY <1>1, <1>5 DEF Crash
<1>6. ASSUME NEW r \in Requests,
             AuthGuard(r) \/ Refuse(r) \/ ReadStep(r) \/ StorageStep(r)
               \/ DeleteAccountStep(r)
      PROVE  purge' = purge
  BY <1>6 DEF AuthGuard, Refuse, ReadStep, StorageStep, deleteImagesFromS3,
              deleteImagesFails, uploadFiles, uploadFails, refuseAfterUpload,
              DeleteAccountStep, deleteAccountBegin, deleteAccountCommit,
              deleteAccountAbort
<1>7. ASSUME NEW r \in Requests, WriteStep(r)
      PROVE  purge' = purge
  BY <1>7 DEF WriteStep, createWrite, updateWrite, publishWrite,
              republishWrite, rejectWrite, notifyAdRejected, notifyFails, archiveWrite,
              activateWrite, draftWrite, saveDraftWrite, publishDraftWrite,
              removeWrite, writeMissing
<1>8. handleExpiredAds \/ Tick \/ UNCHANGED vars => purge' = purge
  BY DEF handleExpiredAds, Tick, vars
<1> HIDE DEF Entry
<1>9. purge' \in [Ads -> Entry]
  BY <1>1, <1>2, <1>3, <1>4, <1>5, <1>6, <1>7, <1>8
     DEF Next, HandlerStep, PurgeStep
<1> QED BY <1>9 DEF Entry

LEMMA StepType ==
  ASSUME IInv, [Next]_vars
  PROVE  TypeOK'
BY StepSteady, StorageType, AccountsType, PurgeType DEF Steady, TypeOK

(* A step leaves every request informed, and every row in order.           *)
LEMMA StepRows ==
  ASSUME IInv, Steady
  PROVE  \A a \in Ads : Dated(rows[a], today)' /\ Reasoned(rows[a])'
<1> SUFFICES ASSUME NEW a \in Ads
             PROVE  Dated(rows'[a], today') /\ Reasoned(rows'[a])
  BY DEF Dated, Reasoned
<1>1. /\ RowStep(a) /\ today \in Nat /\ today' \in Nat /\ today <= today'
      /\ Dated(rows[a], today) /\ Reasoned(rows[a]) /\ rows[a] \in Row
  BY DEF IInv, TypeOK, Steady
<1>2. CASE rows'[a] = rows[a]
  <2>1. rows[a].publishedAt \in Nat \cup {null}
    BY <1>1 DEF Row, Date
  <2> QED BY <1>1, <1>2, <2>1 DEF Dated
<1>3. CASE Legal(rows[a], rows'[a]) /\ today' = today
  BY <1>3 DEF Legal
<1> QED BY <1>1, <1>2, <1>3 DEF RowStep

LEMMA StepInformed ==
  ASSUME IInv, Steady
  PROVE  RequestsInformed'
<1> SUFFICES ASSUME NEW r \in Requests
             PROVE  Informed(req'[r], today')
  BY DEF RequestsInformed, Informed, Destination
<1>1. /\ RequestStep(r) /\ Informed(req[r], today)
      /\ req[r] \in Request /\ req'[r] \in Request
      /\ today \in Nat /\ today' \in Nat /\ today <= today'
  BY DEF IInv, TypeOK, RequestsInformed, Steady
<1>2. Informed(req'[r], today)
  BY <1>1 DEF RequestStep
<1>3. req'[r].at \in Nat
  BY <1>1 DEF Request
<1> QED BY <1>1, <1>2, <1>3 DEF Informed

LEMMA StepFresh ==
  ASSUME IInv, Steady
  PROVE  FreshIds'
<1> SUFFICES ASSUME NEW r \in Requests, req'[r].op = "create"
             PROVE  /\ rows'[req'[r].ad].status = "UNBORN"
                    /\ \A s \in Requests : req'[s].ad = req'[r].ad => s = r
  BY DEF FreshIds
<1> DEFINE a == req'[r].ad
<1>1. /\ Informed(req'[r], today') /\ req'[r] \in Request
      /\ \A s \in Requests : RequestStep(s)
  BY StepInformed DEF RequestsInformed, Steady
<1>2. a \in Ads /\ a # null
  BY <1>1 DEF Informed, Request
<1>3. CASE req[r].op = "create" /\ req[r].ad = a
  <2>1. /\ rows[a].status = "UNBORN"
        /\ \A s \in Requests : req[s].ad = a => s = r
    BY <1>3 DEF IInv, FreshIds
  <2>2. rows'[a].status = "UNBORN"
    <3>1. RowStep(a)
      BY <1>2 DEF Steady
    <3>2. ASSUME NEW s \in Requests, WrittenBy(s, a, rows'[a])
          PROVE  FALSE
      BY <2>1, <3>2 DEF WrittenBy
    <3>3. ASSUME NEW s \in Requests, ClosedBy(s, a, rows'[a])
          PROVE  FALSE
      BY <2>1, <3>3 DEF ClosedBy, IInv, LockedRowsExist, Exists, AdStatus
    <3>4. ~Expired(a, rows'[a]) /\ ~Purged(a, rows'[a])
      BY <2>1 DEF Expired, Purged, Exists, AdStatus
    <3> QED BY <2>1, <3>1, <3>2, <3>3, <3>4 DEF RowStep
  <2>3. ASSUME NEW s \in Requests, req'[s].ad = a
        PROVE  s = r
    <3>1. RequestStep(s)
      BY <1>1
    <3>2. CASE req[s].ad = a
      BY <2>1, <3>2
    <3>3. CASE req[s].ad # a
      BY <1>2, <1>3, <2>1, <2>3, <3>1, <3>3
         DEF RequestStep, Took, Exists, AdStatus
    <3> QED BY <3>2, <3>3
  <2> QED BY <2>2, <2>3
<1>4. CASE ~(req[r].op = "create" /\ req[r].ad = a)
  <2>1. /\ rows' = rows /\ rows[a].status = "UNBORN"
        /\ \A s \in Requests : req[s].ad # a
        /\ \A s \in Requests \ {r} : req'[s] = req[s]
    BY <1>1, <1>2, <1>4 DEF RequestStep, Took
  <2> QED BY <2>1
<1> QED BY <1>3, <1>4

LEMMA StepLocked ==
  ASSUME IInv, Steady
  PROVE  LockedRowsExist'
<1> SUFFICES ASSUME NEW r \in Requests, NEW a \in req'[r].locks
             PROVE  rows'[a].status \in AdStatus
  BY DEF LockedRowsExist, Exists
<1>1. RequestStep(r) /\ req'[r] \in Request /\ a \in Ads
  BY DEF Steady, Request
<1>2. CASE a \in req[r].locks
  <2>1. rows[a].status \in AdStatus /\ Locked(a)
    BY <1>2 DEF IInv, LockedRowsExist, Exists, Locked
  <2>2. RowStep(a)
    BY <1>1 DEF Steady
  <2> QED BY <2>1, <2>2
          DEF RowStep, WrittenBy, ClosedBy, Expired, Purged, AdStatus
<1>3. CASE a \notin req[r].locks
  BY <1>1, <1>3 DEF RequestStep, Exists
<1> QED BY <1>2, <1>3

LEMMA StepStale ==
  ASSUME IInv, Steady
  PROVE  StaleEditsAreDated'
<1> SUFFICES ASSUME NEW r \in Requests, req'[r].op = "update",
                    req'[r].next = "EXPIRED"
             PROVE  \/ /\ rows'[req'[r].ad].status \in AdStatus
                       /\ rows'[req'[r].ad].expiresAt # null
                    \/ rows'[req'[r].ad].status = "GONE"
  BY DEF StaleEditsAreDated, Exists
<1> DEFINE a == req'[r].ad
<1>1. /\ Informed(req'[r], today') /\ req'[r] \in Request /\ RequestStep(r)
  BY StepInformed DEF RequestsInformed, Steady
<1>2. a \in Ads
  BY <1>1 DEF Informed, Request
<1>3. CASE req[r].ad = a /\ req[r].op = "update" /\ req[r].next = "EXPIRED"
  <2>1. \/ rows[a].status \in AdStatus /\ rows[a].expiresAt # null
        \/ rows[a].status = "GONE"
    BY <1>3 DEF IInv, StaleEditsAreDated, Exists
  <2>2. RowStep(a)
    BY <1>2 DEF Steady
  <2> QED BY <2>1, <2>2 DEF RowStep, Legal
<1>4. CASE ~(req[r].ad = a /\ req[r].op = "update" /\ req[r].next = "EXPIRED")
  <2>1. rows' = rows /\ rows[a].status = "EXPIRED"
    BY <1>1, <1>2, <1>4, ConstantsAssumption DEF RequestStep, Took
  <2>2. rows[a].expiresAt # null
    BY <1>2, <2>1 DEF IInv, Dated
  <2> QED BY <2>1, <2>2 DEF AdStatus
<1> QED BY <1>3, <1>4

THEOREM InductiveInvariant == Spec => []IInv
<1>1. Init => IInv
  BY InitIInv
<1>2. IInv /\ [Next]_vars => IInv'
  <2> SUFFICES ASSUME IInv, [Next]_vars
               PROVE  IInv'
    OBVIOUS
  <2>1. Steady /\ TypeOK'
    BY StepSteady, StepType
  <2> QED BY <2>1, StepRows, StepInformed, StepFresh, StepLocked, StepStale
          DEF IInv
<1> QED BY <1>1, <1>2, PTL DEF Spec

-----------------------------------------------------------------------------
(* The theorems.                                                           *)

(* Every variable keeps its type in every behaviour of the handlers, the   *)
(* workers and the account deletion.                                       *)
THEOREM TypeCorrect == Spec => []TypeOK
<1>1. IInv => TypeOK
  BY DEF IInv
<1> QED BY <1>1, InductiveInvariant, PTL

(* No interleaving of handlers, workers and crashes publishes an ad for    *)
(* ever, or for longer than getExpirationDateFrom allows.                  *)
THEOREM LifetimeIsBounded == Spec => []PublishedForOneLifetime
<1>1. IInv => PublishedForOneLifetime
  BY DEF IInv, Dated, PublishedForOneLifetime
<1> QED BY <1>1, InductiveInvariant, PTL

(* No sequence of handlers carries a moderator's reason into the catalogue. *)
THEOREM ReasonIsContained == Spec => []ReasonStaysOutOfCatalogue
<1>1. IInv => ReasonStaysOutOfCatalogue
  BY DEF IInv, Reasoned, ReasonStaysOutOfCatalogue
<1> QED BY <1>1, InductiveInvariant, PTL

(* A step that changes what an ad says or shows leaves it to the moderator. *)
THEOREM EditsAreModerated == Spec => EditNeverGoesLive
<1> DEFINE Edits == \A a \in Ads :
             <<rows[a].content, rows[a].images>>' # <<rows[a].content, rows[a].images>>
               => rows'[a].status # "PUBLISHED"
<1>1. IInv /\ [Next]_vars => [Edits]_vars
  <2> SUFFICES ASSUME IInv, [Next]_vars, NEW a \in Ads
               PROVE  <<rows'[a].content, rows'[a].images>>
                        # <<rows[a].content, rows[a].images>>
                          => rows'[a].status # "PUBLISHED"
    OBVIOUS
  <2>1. RowStep(a)
    BY StepSteady DEF Steady
  <2> QED BY <2>1 DEF RowStep, Legal, SameText
<1>2. Spec => [][Edits]_vars
  BY <1>1, InductiveInvariant, PTL DEF Spec
<1> QED BY <1>2 DEF EditNeverGoesLive

(* A slot keeps its account until the answer; only AuthGuard fills one.    *)
Admits(r) ==
  \/ req'[r].user = req[r].user \/ req'[r].user = null
  \/ req'[r].user \in (Users \ deleted) \cup {moderator}

LEMMA BecomeAdmits ==
  ASSUME TypeOK, NEW r \in Requests, NEW q, Become(r, q),
         q.user \in {req[r].user, null} \cup (Users \ deleted) \cup {moderator}
  PROVE  \A s \in Requests : Admits(s)
BY DEF TypeOK, Become, Admits

LEMMA RespondAdmits ==
  ASSUME TypeOK, NEW r \in Requests, Respond(r)
  PROVE  \A s \in Requests : Admits(s)
<1>1. Idle.user = null
  BY DEF Idle
<1> QED BY <1>1, RespondFact DEF Admits

LEMMA SuspendAdmits ==
  ASSUME TypeOK, NEW r \in Requests, NEW step, Suspend(r, step)
  PROVE  \A s \in Requests : Admits(s)
BY BecomeAdmits DEF Suspend, TypeOK, Request

LEMMA readAdmits ==
  ASSUME TypeOK, NEW r \in Requests, ReadStep(r)
  PROVE  \A s \in Requests : Admits(s)
<1>1. PICK a \in Ads :
        \/ publishRead(r, a)   \/ rejectRead(r, a)   \/ archiveRead(r, a)
        \/ activateRead(r, a)  \/ draftRead(r, a)    \/ publishDraftRead(r, a)
        \/ republishRead(r, a) \/ updateRead(r, a)   \/ saveDraftRead(r, a)
        \/ removeRead(r, a)    \/ createRead(r, a)
  BY DEF ReadStep
<1>2. req[r] \in Request
  BY DEF TypeOK
<1>3. CASE rejectRead(r, a) \/ activateRead(r, a) \/ draftRead(r, a)
  BY <1>2, <1>3, BecomeAdmits
     DEF rejectRead, activateRead, draftRead, Moved, Request
<1>4. CASE publishRead(r, a) \/ archiveRead(r, a) \/ publishDraftRead(r, a)
  BY <1>2, <1>4, BecomeAdmits
     DEF publishRead, archiveRead, publishDraftRead, Stamped, Request
<1>5. CASE republishRead(r, a)
  BY <1>2, <1>5, BecomeAdmits DEF republishRead, Request
<1>6. CASE updateRead(r, a) \/ saveDraftRead(r, a)
  BY <1>2, <1>6, BecomeAdmits DEF updateRead, saveDraftRead, SortImages, Request
<1>7. CASE removeRead(r, a)
  BY <1>2, <1>7, BecomeAdmits DEF removeRead, Request
<1>8. CASE createRead(r, a)
  BY <1>2, <1>8, BecomeAdmits DEF createRead, Request
<1> QED BY <1>1, <1>3, <1>4, <1>5, <1>6, <1>7, <1>8

LEMMA StepAdmits ==
  ASSUME TypeOK, [Next]_vars, NEW s \in Requests
  PROVE  Admits(s)
<1>1. ASSUME NEW r \in Requests, AuthGuard(r)
      PROVE  Admits(s)
  <2>1. PICK u \in (Users \ deleted) \cup {moderator} :
          Become(r, [Idle EXCEPT !.step = "authorized", !.user = u])
    BY <1>1 DEF AuthGuard
  <2>2. [Idle EXCEPT !.step = "authorized", !.user = u].user = u
    BY DEF Idle
  <2> QED BY <2>1, <2>2, BecomeAdmits
<1>2. ASSUME NEW r \in Requests, StorageStep(r)
      PROVE  Admits(s)
  <2>1. CASE uploadFiles(r)
    <3>1. req[r] \in Request
      BY DEF TypeOK
    <3> QED BY <2>1, <3>1, BecomeAdmits DEF uploadFiles, Request
  <2>2. CASE ~uploadFiles(r)
    BY <1>2, <2>2, RespondAdmits, SuspendAdmits
       DEF StorageStep, deleteImagesFromS3, deleteImagesFails, uploadFails,
           refuseAfterUpload
  <2> QED BY <2>1, <2>2
<1>3. ASSUME NEW r \in Requests, WriteStep(r)
      PROVE  Admits(s)
  <2>1. Respond(r) \/ \E step : Suspend(r, step)
    BY <1>3 DEF WriteStep, createWrite, updateWrite, publishWrite,
       republishWrite, rejectWrite, notifyAdRejected, notifyFails, archiveWrite,
       activateWrite, draftWrite, saveDraftWrite, publishDraftWrite,
       removeWrite, writeMissing
  <2> QED BY <2>1, RespondAdmits, SuspendAdmits
<1>4. ASSUME NEW r \in Requests, Refuse(r) \/ DeleteAccountStep(r)
      PROVE  Admits(s)
  <2>1. CASE deleteAccountBegin(r)
    <3>1. req[r] \in Request
      BY DEF TypeOK
    <3> QED BY <2>1, <3>1, BecomeAdmits DEF deleteAccountBegin, Request
  <2>2. CASE ~deleteAccountBegin(r)
    BY <1>4, <2>2, RespondAdmits
       DEF Refuse, DeleteAccountStep, deleteAccountCommit, deleteAccountAbort
  <2> QED BY <2>1, <2>2
<1>5. CASE handleExpiredAds \/ PurgeStep \/ Tick \/ UNCHANGED vars
  BY <1>5 DEF handleExpiredAds, PurgeStep, purgeScan, purgeFiles,
     purgeFilesFails, purgeDelete, Tick, vars, Admits
<1>6. CASE Crash
  <2>1. Idle.user = null
    BY DEF Idle
  <2> QED BY <1>6, <2>1 DEF Crash, Admits
<1> QED BY <1>1, <1>2, <1>3, <1>4, <1>5, <1>6, readAdmits DEF Next, HandlerStep

(* Once the last request of a deleted account is over, no other begins and *)
(* nobody edits, drafts or inserts its ads.                                *)
THEOREM DeletedAccountIsPassive == Spec => DeletedOwnerIsPassive
<1> DEFINE Passive == \A a \in Ads : Owner[a] \in deleted /\ ~InFlight(Owner[a]) =>
       /\ ~InFlight(Owner[a])'
       /\ \/ rows'[a].status = "GONE"
          \/ /\ rows'[a].content = rows[a].content
             /\ rows'[a].images = rows[a].images
             /\ rows'[a].status = "DRAFT" => rows[a].status = "DRAFT"
             /\ rows[a].status = "UNBORN" => rows'[a].status = "UNBORN"
<1>0. ASSUME IInv, [Next]_vars, NEW a \in Ads, ~InFlight(Owner[a]),
             Owner[a] \in deleted
      PROVE  ~InFlight(Owner[a])'
  <2> SUFFICES ASSUME NEW r \in Requests, req'[r].user = Owner[a]
               PROVE  FALSE
    BY DEF InFlight
  <2>1. Admits(r)
    BY <1>0, StepAdmits DEF IInv
  <2> QED BY <1>0, <2>1, ConstantsAssumption DEF Admits, InFlight
<1>1. IInv /\ [Next]_vars => [Passive]_vars
  <2> SUFFICES ASSUME IInv, [Next]_vars, NEW a \in Ads, ~InFlight(Owner[a]),
                      rows'[a].status # "GONE"
               PROVE  /\ SameText(rows[a], rows'[a])
                      /\ rows'[a].status = "DRAFT" => rows[a].status = "DRAFT"
                      /\ rows[a].status = "UNBORN" => rows'[a].status = "UNBORN"
    BY <1>0 DEF SameText
  <2>1. RowStep(a)
    BY StepSteady DEF Steady
  <2>2. CASE rows'[a] = rows[a]
    BY <2>2 DEF SameText
  <2>3. ASSUME NEW r \in Requests, WrittenBy(r, a, rows'[a])
        PROVE  req[r].op \in {"publish", "reject"}
    <3>1. Informed(req[r], today) /\ req[r] \in Request /\ req[r].user # Owner[a]
      BY DEF IInv, TypeOK, RequestsInformed, InFlight
    <3> QED BY <2>3, <3>1 DEF WrittenBy, Informed, OwnerHandlers, Request
  <2>4. ASSUME NEW r \in Requests, WrittenBy(r, a, rows'[a])
        PROVE  /\ SameText(rows[a], rows'[a])
               /\ rows'[a].status # "DRAFT" /\ rows[a].status # "UNBORN"
    BY <2>3, <2>4 DEF WrittenBy
  <2>5. ASSUME NEW r \in Requests, ClosedBy(r, a, rows'[a])
        PROVE  FALSE
    <3>1. Informed(req[r], today) /\ req[r].user # Owner[a]
      BY DEF IInv, RequestsInformed, InFlight
    <3> QED BY <2>5, <3>1 DEF ClosedBy, Informed
  <2>6. CASE Expired(a, rows'[a])
    BY <2>6 DEF Expired
  <2> QED BY <2>1, <2>2, <2>4, <2>5, <2>6 DEF RowStep, Purged
<1>2. Spec => [][Passive]_vars
  BY <1>1, InductiveInvariant, PTL DEF Spec
<1> QED BY <1>2 DEF DeletedOwnerIsPassive

-----------------------------------------------------------------------------
(* One request at a time: the files of ads, and the dates of the archive.  *)

OneAtATime == \A r, s \in Requests : r = s

(* What is left of the files its ad had, once the handler has deleted.     *)
Left(q) == IF q.op = "remove" THEN {} ELSE q.keep

(* A handler that has changed the files of an ad, or had nothing to change.*)
Rewriting(q, a) ==
  /\ q.ad = a
  /\ q.op \in {"create", "update", "saveDraft", "remove"}
  /\ q.step \in {"uploadFiles", "write"}

(* The files an ad is to keep.                                             *)
Kept(row, q, a) == IF Rewriting(q, a) THEN Left(q) ELSE row.images

KeptBeside(r) == [a \in Ads |-> Kept(rows[a], req[r], a)]

(* Between two states of a handler its ad keeps no less; and no more, if   *)
(* requests name only the files of their ads.                              *)
Grown(table, p, q, own) ==
  \A a \in Ads : /\ Kept(table[a], p, a) \subseteq Kept(table[a], q, a)
                 /\ own => Kept(table[a], q, a) = Kept(table[a], p, a)

KeptInPurge ==
  [a \in Ads |-> IF purge[a].stage = "emptied" THEN {} ELSE rows[a].images]

(* S3 holds nothing but what the ads keep; and if requests name only the   *)
(* files of their ads (own), it holds that, and no file is kept for two.   *)
Stored(store, kept, own) ==
  /\ \A i \in Images : store[i] = "stored" => \E a \in Ads : i \in kept[a]
  /\ own => /\ \A i \in Images : (\E a \in Ads : i \in kept[a]) => store[i] = "stored"
            /\ \A a, b \in Ads : a # b => kept[a] \cap kept[b] = {}

(* What a handler knows of its ad while nothing else touches it.           *)
Aware(table, q, own) ==
  /\ q.step \in {"idle", "authorized"} => q.keep = {}
  /\ q.step \in {"deleteFiles", "uploadFiles", "write"} =>
       /\ q.op \notin {"none", "deleteAccount"}
       /\ IF q.op = "create" THEN table[q.ad].status = "UNBORN"
                             ELSE table[q.ad].status \in AdStatus
  /\ q.step = "deleteFiles" =>
       /\ q.op \in {"update", "saveDraft", "remove"}
       /\ own => Left(q) \subseteq table[q.ad].images
       /\ q.drop = table[q.ad].images \ Left(q)
  /\ q.step = "uploadFiles" => q.op \in {"create", "update", "saveDraft"}

FilesInOrder ==
  /\ ~(Handling /\ Purging)
  /\ \A r \in Requests : Aware(rows, req[r], known)
  /\ ~Purging => \A r \in Requests : Stored(files, KeptBeside(r), known)
  /\ ~Handling => Stored(files, KeptInPurge, known)
  /\ \A a \in Ads : purge[a].stage # "none" => purge[a].images = rows[a].images

NothingBare == \A a \in Ads : ~Exists(a) => rows[a].images = {}

EditsArchived ==
  \A r \in Requests :
    req[r].op = "update" /\ req[r].next = "ARCHIVED" =>
      rows[req[r].ad].status \in {"ARCHIVED", "GONE"}

FilesSound ==
  /\ NothingBare /\ ArchiveIsDated /\ EditsArchived
  /\ known \in BOOLEAN
  /\ undisturbed => FilesInOrder

-----------------------------------------------------------------------------

LEMMA InitFiles ==
  ASSUME FilesInit
  PROVE  FilesSound
<1>1. /\ rows = [a \in Ads |-> NoRow("UNBORN")] /\ req = [r \in Requests |-> Idle]
      /\ purge = [a \in Ads |-> NotPurged] /\ files = [i \in Images |-> "unused"]
  BY DEF FilesInit, Init
<1>2. \A a \in Ads : rows[a].status = "UNBORN" /\ rows[a].images = {}
  BY <1>1, NoRowFact
<1>3. \A r \in Requests : req[r].op = "none" /\ req[r].step = "idle" /\ req[r].keep = {}
  BY <1>1, IdleFact
<1>4. \A a \in Ads : purge[a].stage = "none"
  BY <1>1 DEF NotPurged
<1>5. \A r \in Requests : Stored(files, KeptBeside(r), known)
  BY <1>1, <1>2, <1>3 DEF Stored, KeptBeside, Kept, Rewriting
<1>6. Stored(files, KeptInPurge, known)
  BY <1>1, <1>2 DEF Stored, KeptInPurge
<1> QED
  BY <1>2, <1>3, <1>4, <1>5, <1>6
  DEF FilesSound, NothingBare, ArchiveIsDated, EditsArchived, FilesInOrder, Handling, Purging, Aware,
      FilesInit

(* What requests have named is not forgotten.                              *)
LEMMA KnownKeeps ==
  ASSUME FilesNext, FilesSound
  PROVE  /\ known' \in BOOLEAN /\ (known' => known) /\ (undisturbed' => undisturbed)
         /\ \A r \in Requests, a \in Ads :
              known' /\ req[r].step = "authorized" /\ req'[r].ad = a
                => req'[r].keep \subseteq rows[a].images
BY DEF FilesNext, FilesSound, NamesOthers

(* More is kept, and of what the requests know there is less.              *)
LEMMA StoredStays ==
  ASSUME NEW store, NEW kept, NEW kept2, NEW own, NEW own2, own2 => own,
         Stored(store, kept, own),
         \A a \in Ads : kept[a] \subseteq kept2[a] /\ (own2 => kept2[a] = kept[a])
  PROVE  Stored(store, kept2, own2)
BY DEF Stored

(* A step of the request, which the purge does not see.                    *)
LEMMA RequestKeeps ==
  ASSUME OneAtATime, FilesSound, FilesNext, NEW r \in Requests, purge' = purge,
         req[r].step # "idle" \/ req'[r].step # "idle",
         NothingBare', ArchiveIsDated', EditsArchived',
         undisturbed /\ undisturbed' /\ Aware(rows, req[r], known) /\ Stored(files, KeptBeside(r), known)
           => Aware(rows', req'[r], known') /\ Stored(files', KeptBeside(r)', known')
  PROVE  FilesSound'
<1> SUFFICES ASSUME undisturbed'
             PROVE  FilesInOrder'
  BY KnownKeeps DEF FilesSound
<1>1. undisturbed /\ FilesInOrder /\ ~(Handling /\ Purging)'
  BY DEF FilesNext, FilesSound
<1>2. \A s \in Requests : s = r
  BY DEF OneAtATime
<1>3. Purging' <=> Purging
  BY DEF Purging
<1>4. ~Purging /\ ~Purging'
  BY <1>1, <1>3 DEF FilesInOrder, Handling
<1>5. Aware(rows', req'[r], known') /\ Stored(files', KeptBeside(r)', known')
  BY <1>1, <1>4 DEF FilesInOrder
<1>6. ASSUME ~Handling'
      PROVE  KeptInPurge' = KeptBeside(r)'
  <2>1. req'[r].step = "idle" /\ \A a \in Ads : purge'[a].stage = "none"
    BY <1>4, <1>6 DEF Handling, Purging
  <2> QED
    BY <2>1 DEF KeptInPurge, KeptBeside, Kept, Rewriting
<1>7. \A a \in Ads : purge'[a].stage = "none"
  BY <1>4 DEF Purging
<1> QED
  BY <1>1, <1>2, <1>4, <1>5, <1>6, <1>7 DEF FilesInOrder

(* A step that neither rows nor files show.                                *)
LEMMA ReadKeeps ==
  ASSUME OneAtATime, IInv, FilesSound, FilesNext, NEW r \in Requests, NEW q \in Request, Become(r, q),
         rows' = rows, files' = files, purge' = purge,
         req[r].step # "idle" \/ q.step # "idle",
         q.op = "update" /\ q.next = "ARCHIVED" => rows[q.ad].status = "ARCHIVED",
         undisturbed /\ undisturbed' /\ Aware(rows, req[r], known) =>
           /\ Aware(rows, q, known')
           /\ Grown(rows, req[r], q, known')
  PROVE  FilesSound'
<1>1. req'[r] = q /\ \A s \in Requests : s = r
  BY BecomeFact DEF IInv, OneAtATime
<1>2. NothingBare' /\ ArchiveIsDated' /\ EditsArchived'
  BY <1>1 DEF FilesSound, NothingBare, Exists, ArchiveIsDated, EditsArchived
<1>3. ASSUME undisturbed, undisturbed', Aware(rows, req[r], known), Stored(files, KeptBeside(r), known)
      PROVE  Aware(rows', req'[r], known') /\ Stored(files', KeptBeside(r)', known')
  <2>1. \A a \in Ads : /\ KeptBeside(r)[a] \subseteq KeptBeside(r)'[a]
                       /\ known' => KeptBeside(r)'[a] = KeptBeside(r)[a]
    BY <1>1, <1>3 DEF KeptBeside, Grown
  <2>2. known' => known
    BY KnownKeeps
  <2>3. Stored(files, KeptBeside(r)', known')
    BY <1>3, <2>1, <2>2, StoredStays
  <2> QED
    BY <1>1, <1>3, <2>3
<1> QED
  BY <1>1, <1>2, <1>3, RequestKeeps

(* One that writes the row, as the handler has prepared it.                *)
LEMMA WriteKeeps ==
  ASSUME OneAtATime, IInv, FilesSound, FilesNext, NEW r \in Requests,
         req[r].step = "write", req[r].op \notin {"none", "deleteAccount"},
         NEW row \in Row, Store(req[r].ad, row), NEW q \in Request, Become(r, q),
         files' = files, purge' = purge,
         q.step \in {"idle", "notify"}, q.op # "update", q.step = "idle" => q.keep = {},
         row.status \notin AdStatus => row.images = {},
         row.status = "ARCHIVED" => row.archivedAt # null,
         row.images = Kept(rows[req[r].ad], req[r], req[r].ad)
  PROVE  FilesSound'
<1> DEFINE ad == req[r].ad
<1>1. req'[r] = q /\ \A s \in Requests : s = r
  BY BecomeFact DEF IInv, OneAtATime
<1>2. ad \in Ads /\ rows'[ad] = row /\ \A b \in Ads \ {ad} : rows'[b] = rows[b]
  BY WriterKnows, StoreFact DEF IInv
<1> HIDE DEF ad
<1>3. NothingBare' /\ ArchiveIsDated' /\ EditsArchived'
  BY <1>1, <1>2 DEF FilesSound, NothingBare, Exists, ArchiveIsDated, EditsArchived
<1>4. Aware(rows', req'[r], known')
  BY <1>1 DEF Aware
<1>5. KeptBeside(r)' = KeptBeside(r)
  <2>1. \A b \in Ads : Kept(rows'[b], req'[r], b) = rows'[b].images
    BY <1>1 DEF Kept, Rewriting
  <2>2. \A b \in Ads \ {ad} : Kept(rows[b], req[r], b) = rows[b].images
    BY DEF Kept, Rewriting, ad
  <2>3. \A b \in Ads : Kept(rows'[b], req'[r], b) = Kept(rows[b], req[r], b)
    BY <1>2, <2>1, <2>2 DEF ad
  <2> QED
    BY <2>3 DEF KeptBeside
<1>6. Stored(files, KeptBeside(r), known) => Stored(files', KeptBeside(r)', known')
  BY <1>5, KnownKeeps DEF Stored
<1> QED
  BY <1>1, <1>3, <1>4, <1>6, RequestKeeps

-----------------------------------------------------------------------------
(* The reading steps.                                                      *)

LEMMA MovedKeeps ==
  ASSUME OneAtATime, IInv, FilesSound, FilesNext, NEW r \in Requests, NEW a \in Ads,
         \/ publishRead(r, a)  \/ rejectRead(r, a) \/ archiveRead(r, a) \/ activateRead(r, a)
         \/ draftRead(r, a)    \/ publishDraftRead(r, a) \/ republishRead(r, a),
         UNCHANGED <<rows, files, purge>>
  PROVE  FilesSound'
<1>1. /\ req[r] \in Request /\ today \in Nat /\ req[r].step = "authorized"
      /\ rows[a].status \in AdStatus
  BY DEF IInv, TypeOK, publishRead, rejectRead, archiveRead, activateRead, draftRead,
         publishDraftRead, republishRead, getUserAdOrThrow, getAdForModerator, Exists
<1>2. PICK q \in Request :
        /\ Become(r, q)
        /\ q.step = "write" /\ q.ad = a
        /\ q.op \in {"publish", "reject", "archive", "activate", "draft", "publishDraft", "republish"}
  <2>1. CASE rejectRead(r, a) \/ activateRead(r, a) \/ draftRead(r, a)
    <3>1. PICK op \in {"reject", "activate", "draft"}, to \in AdStatus :
            Become(r, Moving(req[r], op, a, to))
      BY <2>1 DEF rejectRead, activateRead, draftRead, Moved, Moving
    <3>2. op \in Handlers
      BY DEF Handlers
    <3> QED
      BY <1>1, <3>1, <3>2, MovingFact
  <2>2. CASE publishRead(r, a) \/ archiveRead(r, a) \/ publishDraftRead(r, a)
    <3>1. PICK op \in {"publish", "archive", "publishDraft"}, to \in AdStatus :
            Become(r, Stamping(req[r], op, a, to))
      BY <2>2 DEF publishRead, archiveRead, publishDraftRead, Stamped, Stamping
    <3>2. op \in Handlers
      BY DEF Handlers
    <3> QED
      BY <1>1, <3>1, <3>2, StampingFact
  <2>3. CASE republishRead(r, a)
    <3>1. PICK c \in Contents, to \in {"PENDING", "PUBLISHED"} :
            Become(r, Republishing(req[r], a, to, c))
      BY <2>3 DEF republishRead, Republishing
    <3>2. to \in AdStatus
      BY DEF AdStatus
    <3> QED
      BY <1>1, <3>1, <3>2, RepublishingFact
  <2> QED
    BY <2>1, <2>2, <2>3
<1>3. Aware(rows, q, known')
  BY <1>1, <1>2 DEF Aware
<1>4. Grown(rows, req[r], q, known')
  BY <1>1, <1>2 DEF Grown, Kept, Rewriting
<1> QED
  BY <1>1, <1>2, <1>3, <1>4, ReadKeeps

LEMMA SortedKeeps ==
  ASSUME OneAtATime, IInv, FilesSound, FilesNext, NEW r \in Requests, NEW a \in Ads,
         updateRead(r, a) \/ saveDraftRead(r, a), UNCHANGED <<rows, files, purge>>
  PROVE  FilesSound'
<1>1. /\ req[r] \in Request /\ req[r].step = "authorized"
      /\ rows[a].status \in AdStatus /\ rows[a].images \subseteq Images
  BY DEF IInv, TypeOK, Row, updateRead, saveDraftRead, getUserAdOrThrow, Exists
<1>2. PICK op \in {"update", "saveDraft"}, next \in AdStatus :
        /\ SortImages(r, a, op, next)
        /\ op = "update" => next = nextStatus(rows[a].status)
  BY <1>1 DEF updateRead, saveDraftRead, nextStatus, AdStatus
<1>3. PICK existing \in SUBSET Images, step \in {"deleteFiles", "uploadFiles", "write"} :
        /\ Become(r, Sorting(req[r], op, a, step, next, existing, rows[a].images \ existing))
        /\ step = "deleteFiles" \/ rows[a].images \subseteq existing
  BY <1>2 DEF SortImages, Sorting
<1> DEFINE drop == rows[a].images \ existing
           q == Sorting(req[r], op, a, step, next, existing, drop)
<1>4. /\ existing \in SUBSET Images /\ drop \in SUBSET Images
      /\ step \in Steps /\ op \in Handlers
  BY <1>1 DEF Steps, Handlers
<1> HIDE DEF drop
<1>5. /\ q \in Request /\ q.op = op /\ q.ad = a /\ q.next = next
      /\ q.step = step /\ q.keep = existing /\ q.drop = drop
  BY <1>1, <1>4, SortingFact
<1>6. Become(r, q)
  BY <1>3 DEF drop
<1> HIDE DEF q
<1>7. q.op = "update" /\ q.next = "ARCHIVED" => rows[q.ad].status = "ARCHIVED"
  BY <1>2, <1>5 DEF nextStatus
<1>8. known' => existing \subseteq rows[a].images
  BY <1>1, <1>5, <1>6, BecomeFact, KnownKeeps DEF IInv
<1>9. Aware(rows, q, known')
  BY <1>1, <1>5, <1>8 DEF Aware, Left, drop
<1>10. Grown(rows, req[r], q, known')
  BY <1>1, <1>3, <1>5, <1>8 DEF Grown, Kept, Rewriting, Left
<1> QED
  BY <1>1, <1>5, <1>6, <1>7, <1>9, <1>10, ReadKeeps

LEMMA RemovedKeeps ==
  ASSUME OneAtATime, IInv, FilesSound, FilesNext, NEW r \in Requests, NEW a \in Ads,
         removeRead(r, a), UNCHANGED <<rows, files, purge>>
  PROVE  FilesSound'
<1>1. /\ req[r] \in Request /\ req[r].step = "authorized"
      /\ rows[a].status \in AdStatus /\ rows[a].images \in SUBSET Images
  BY DEF IInv, TypeOK, Row, removeRead, getUserAdOrThrow, Exists
<1>2. PICK step \in {"write", "deleteFiles"} :
        /\ Become(r, Removing(req[r], a, rows[a].images, step))
        /\ step = "write" => rows[a].images = {}
  BY DEF removeRead, Removing
<1> DEFINE q == Removing(req[r], a, rows[a].images, step)
<1>3. step \in Steps
  BY DEF Steps
<1>4. /\ q \in Request /\ q.op = "remove" /\ q.ad = a
      /\ q.step = step /\ q.drop = rows[a].images
  BY <1>1, <1>3, RemovingFact
<1>5. Become(r, q)
  BY <1>2
<1> HIDE DEF q
<1>6. Aware(rows, q, known')
  BY <1>1, <1>4 DEF Aware, Left
<1>7. Grown(rows, req[r], q, known')
  BY <1>1, <1>2, <1>4 DEF Grown, Kept, Rewriting, Left
<1> QED
  BY <1>1, <1>4, <1>5, <1>6, <1>7, ReadKeeps

LEMMA CreatedKeeps ==
  ASSUME OneAtATime, IInv, FilesSound, FilesNext, NEW r \in Requests, NEW a \in Ads,
         createRead(r, a), UNCHANGED <<rows, files, purge>>
  PROVE  FilesSound'
<1>1. /\ req[r] \in Request /\ req[r].step = "authorized"
      /\ rows[a].status = "UNBORN" /\ rows[a].images = {}
  BY DEF IInv, TypeOK, createRead, FilesSound, NothingBare, Exists, AdStatus
<1>2. PICK step \in {"uploadFiles", "write"}, next \in {"PENDING", "DRAFT"},
           keep \in SUBSET Images :
        Become(r, Creating(req[r], a, step, next, keep))
  BY DEF createRead, Creating
<1> DEFINE q == Creating(req[r], a, step, next, keep)
<1>3. step \in Steps /\ next \in AdStatus
  BY DEF Steps, AdStatus
<1>4. /\ q \in Request /\ q.op = "create" /\ q.ad = a
      /\ q.step = step /\ q.keep = keep
  BY <1>1, <1>3, CreatingFact
<1>5. Become(r, q)
  BY <1>2
<1> HIDE DEF q
<1>6. known' => keep = {}
  BY <1>1, <1>4, <1>5, BecomeFact, KnownKeeps DEF IInv
<1>7. Aware(rows, q, known')
  BY <1>1, <1>4 DEF Aware, Left
<1>8. Grown(rows, req[r], q, known')
  BY <1>1, <1>4, <1>6 DEF Grown, Kept, Rewriting, Left
<1> QED
  BY <1>1, <1>4, <1>5, <1>7, <1>8, ReadKeeps

-----------------------------------------------------------------------------
(* The steps of the storage, and of a request that ends without a write.   *)

LEMMA RespondKeeps ==
  ASSUME OneAtATime, IInv, FilesSound, FilesNext, NEW r \in Requests, Respond(r),
         req[r].step \in {"authorized", "notify", "closing"},
         UNCHANGED <<rows, files, purge>>
  PROVE  FilesSound'
<1>1. Idle \in Request /\ Become(r, Idle) /\ Idle.op = "none"
      /\ Idle.step = "idle" /\ Idle.keep = {}
  BY IdleFact DEF Respond
<1>2. Aware(rows, Idle, known')
  BY <1>1 DEF Aware
<1>3. Grown(rows, req[r], Idle, known')
  BY <1>1 DEF Grown, Kept, Rewriting
<1> QED
  BY <1>1, <1>2, <1>3, ReadKeeps

(* Where it breaks off, undisturbed is over.                                      *)
LEMMA BrokenKeeps ==
  ASSUME OneAtATime, IInv, FilesSound, FilesNext, NEW r \in Requests, Respond(r),
         req[r].step # "idle", UNCHANGED <<rows, purge>>,
         ~(undisturbed /\ undisturbed' /\ Aware(rows, req[r], known))
  PROVE  FilesSound'
<1>1. req'[r].op = "none" /\ \A s \in Requests : s = r
  BY RespondFact, IdleFact DEF IInv, OneAtATime
<1>2. NothingBare' /\ ArchiveIsDated' /\ EditsArchived'
  BY <1>1 DEF FilesSound, NothingBare, Exists, ArchiveIsDated, EditsArchived
<1> QED
  BY <1>2, RequestKeeps

(* Files of an ad are deleted, ...                                         *)
LEMMA DeleteKeeps ==
  ASSUME NEW store, NEW store2, NEW kept, NEW kept2, NEW own, NEW own2, own2 => own,
         Stored(store, kept, own),
         NEW a \in Ads, NEW drop, drop \subseteq kept[a],
         store2 = [i \in Images |-> IF i \in drop THEN "deleted" ELSE store[i]],
         kept[a] \ drop \subseteq kept2[a], own2 => kept2[a] = kept[a] \ drop,
         \A b \in Ads \ {a} : kept2[b] = kept[b]
  PROVE  Stored(store2, kept2, own2)
<1>1. ASSUME NEW i \in Images
      PROVE  /\ store2[i] = "stored" => \E b \in Ads : i \in kept2[b]
             /\ own2 /\ (\E b \in Ads : i \in kept2[b]) => store2[i] = "stored"
  <2>1. CASE i \in drop
    BY <2>1 DEF Stored
  <2>2. CASE i \notin drop
    BY <2>2 DEF Stored
  <2> QED
    BY <2>1, <2>2
<1>2. ASSUME own2, NEW b \in Ads, NEW c \in Ads, b # c
      PROVE  kept2[b] \cap kept2[c] = {}
  <2>1. kept2[b] \subseteq kept[b] /\ kept2[c] \subseteq kept[c]
    BY <1>2
  <2> QED
    BY <1>2, <2>1 DEF Stored
<1> QED
  BY <1>1, <1>2 DEF Stored

(* ... or new ones uploaded for it.                                        *)
LEMMA UploadKeeps ==
  ASSUME NEW store, NEW store2, NEW kept, NEW kept2, NEW own, NEW own2, own2 => own,
         Stored(store, kept, own),
         NEW a \in Ads, NEW new \in SUBSET Images, \A i \in new : store[i] = "unused",
         store2 = [i \in Images |-> IF i \in new THEN "stored" ELSE store[i]],
         kept2[a] = kept[a] \cup new, \A b \in Ads \ {a} : kept2[b] = kept[b]
  PROVE  Stored(store2, kept2, own2)
<1>1. own => \A i \in new, b \in Ads : i \notin kept[b]
  BY DEF Stored
<1>2. ASSUME NEW i \in Images
      PROVE  /\ store2[i] = "stored" => \E b \in Ads : i \in kept2[b]
             /\ own2 /\ (\E b \in Ads : i \in kept2[b]) => store2[i] = "stored"
  BY DEF Stored
<1>3. ASSUME own2, NEW b \in Ads, NEW c \in Ads, b # c
      PROVE  kept2[b] \cap kept2[c] = {}
  BY <1>1, <1>3 DEF Stored
<1> QED
  BY <1>2, <1>3 DEF Stored

LEMMA DeletedKeeps ==
  ASSUME OneAtATime, IInv, FilesSound, FilesNext, NEW r \in Requests, deleteImagesFromS3(r)
  PROVE  FilesSound'
<1> DEFINE p == req[r]
<1>0. req \in [Requests -> Request] /\ p \in Request /\ p.step = "deleteFiles" /\ rows' = rows /\ purge' = purge
  BY DEF IInv, TypeOK, deleteImagesFromS3
<1>1. PICK step \in {"uploadFiles", "write"} :
        Suspend(r, step) /\ (p.op = "remove" => step = "write")
  BY DEF deleteImagesFromS3
<1> DEFINE q == Suspended(p, step)
<1>2. step \in Steps
  BY DEF Steps
<1>3. /\ q \in Request /\ q.op = p.op /\ q.ad = p.ad /\ q.next = p.next
      /\ q.step = step /\ q.keep = p.keep
  BY <1>0, <1>2, SuspendedFact
<1>4. req'[r] = q /\ \A s \in Requests : s = r
  BY <1>0, <1>1, <1>3, BecomeFact DEF IInv, Suspend, Suspended, OneAtATime
<1> HIDE DEF q, p
<1>5. NothingBare' /\ ArchiveIsDated' /\ EditsArchived'
  BY <1>0, <1>3, <1>4 DEF p, FilesSound, NothingBare, Exists, ArchiveIsDated, EditsArchived
<1>6. ASSUME Aware(rows, p, known), Stored(files, KeptBeside(r), known)
      PROVE  Aware(rows', q, known') /\ Stored(files', KeptBeside(r)', known')
  <2>1. /\ p.op \in {"update", "saveDraft", "remove"} /\ rows[p.ad].status \in AdStatus
        /\ known => Left(p) \subseteq rows[p.ad].images
        /\ p.drop = rows[p.ad].images \ Left(p)
    BY <1>0, <1>6 DEF Aware
  <2>2. Aware(rows', q, known')
    BY <1>0, <1>1, <1>3, <2>1 DEF Aware
  <2>3. p.ad \in Ads
    BY <2>1, WriterKnows DEF p
  <2>4. \A b \in Ads : KeptBeside(r)[b] = rows[b].images
    BY <1>0 DEF KeptBeside, Kept, Rewriting, p
  <2>5. \A b \in Ads : KeptBeside(r)'[b] = IF b = p.ad THEN Left(p) ELSE rows[b].images
    BY <1>0, <1>1, <1>3, <1>4, <2>1 DEF KeptBeside, Kept, Rewriting, Left
  <2>6. files' = [i \in Images |-> IF i \in p.drop THEN "deleted" ELSE files[i]]
    BY DEF deleteImagesFromS3, Delete, p
  <2>7. /\ p.drop \subseteq KeptBeside(r)[p.ad]
        /\ KeptBeside(r)[p.ad] \ p.drop \subseteq KeptBeside(r)'[p.ad]
        /\ known => KeptBeside(r)'[p.ad] = KeptBeside(r)[p.ad] \ p.drop
        /\ \A b \in Ads \ {p.ad} : KeptBeside(r)'[b] = KeptBeside(r)[b]
    BY <2>1, <2>3, <2>4, <2>5
  <2>8. known' => known
    BY KnownKeeps
  <2> QED
    BY <1>6, <2>2, <2>3, <2>6, <2>7, <2>8, DeleteKeeps
<1> QED
  BY <1>0, <1>4, <1>5, <1>6, RequestKeeps DEF p

LEMMA UploadedKeeps ==
  ASSUME OneAtATime, IInv, FilesSound, FilesNext, NEW r \in Requests, uploadFiles(r)
  PROVE  FilesSound'
<1> DEFINE p == req[r]
<1>0. p \in Request /\ p.step = "uploadFiles" /\ rows' = rows /\ purge' = purge
  BY DEF IInv, TypeOK, uploadFiles
<1>1. PICK new \in SUBSET Unused : Upload(new) /\ Become(r, Keeping(p, new))
  BY DEF uploadFiles, Keeping
<1> DEFINE q == Keeping(p, new)
<1>2. new \in SUBSET Images /\ \A i \in new : files[i] = "unused"
  BY DEF Unused
<1>3. /\ q \in Request /\ q.op = p.op /\ q.ad = p.ad /\ q.next = p.next
      /\ q.step = "write" /\ q.keep = p.keep \cup new
  BY <1>0, <1>2, KeepingFact
<1>4. req'[r] = q /\ \A s \in Requests : s = r
  BY <1>1, <1>3, BecomeFact DEF IInv, OneAtATime
<1> HIDE DEF q, p
<1>5. NothingBare' /\ ArchiveIsDated' /\ EditsArchived'
  BY <1>0, <1>3, <1>4 DEF p, FilesSound, NothingBare, Exists, ArchiveIsDated, EditsArchived
<1>6. ASSUME Aware(rows, p, known), Stored(files, KeptBeside(r), known)
      PROVE  Aware(rows', q, known') /\ Stored(files', KeptBeside(r)', known')
  <2>1. p.op \in {"create", "update", "saveDraft"}
    BY <1>0, <1>6 DEF Aware
  <2>2. Aware(rows', q, known')
    BY <1>0, <1>3, <1>6, <2>1 DEF Aware
  <2>3. p.ad \in Ads
    BY <2>1, WriterKnows DEF p
  <2>4. \A b \in Ads : KeptBeside(r)[b] = IF b = p.ad THEN p.keep ELSE rows[b].images
    BY <1>0, <2>1 DEF KeptBeside, Kept, Rewriting, Left, p
  <2>5. \A b \in Ads : KeptBeside(r)'[b] = IF b = p.ad THEN q.keep ELSE rows[b].images
    BY <1>0, <1>3, <1>4, <2>1 DEF KeptBeside, Kept, Rewriting, Left
  <2>6. files' = [i \in Images |-> IF i \in new THEN "stored" ELSE files[i]]
    BY <1>1 DEF Upload
  <2>7. /\ KeptBeside(r)'[p.ad] = KeptBeside(r)[p.ad] \cup new
        /\ \A b \in Ads \ {p.ad} : KeptBeside(r)'[b] = KeptBeside(r)[b]
    BY <1>3, <2>3, <2>4, <2>5
  <2> QED
    BY <1>2, <1>6, <2>2, <2>3, <2>6, <2>7, KnownKeeps, UploadKeeps
<1> QED
  BY <1>0, <1>4, <1>5, <1>6, RequestKeeps DEF p

LEMMA StorageKeeps ==
  ASSUME OneAtATime, IInv, FilesSound, FilesNext, NEW r \in Requests, StorageStep(r)
  PROVE  FilesSound'
<1>1. CASE deleteImagesFails(r) \/ uploadFails(r) \/ refuseAfterUpload(r)
  <2>1. Respond(r) /\ req[r].step # "idle" /\ UNCHANGED <<rows, purge>> /\ ~undisturbed'
    BY <1>1 DEF deleteImagesFails, uploadFails, refuseAfterUpload, FilesNext, BreaksOff
  <2> QED
    BY <2>1, BrokenKeeps
<1> QED
  BY <1>1, DeletedKeeps, UploadedKeeps DEF StorageStep

-----------------------------------------------------------------------------
(* The writing steps.                                                      *)

(* A handler that writes the row and is done.                              *)
LEMMA DoneKeeps ==
  ASSUME OneAtATime, IInv, FilesSound, FilesNext, NEW r \in Requests,
         req[r].step = "write", req[r].op \notin {"none", "deleteAccount"},
         NEW row \in Row, Store(req[r].ad, row), Respond(r), files' = files, purge' = purge,
         row.status \notin AdStatus => row.images = {},
         row.status = "ARCHIVED" => row.archivedAt # null,
         row.images = Kept(rows[req[r].ad], req[r], req[r].ad)
  PROVE  FilesSound'
<1>1. /\ Idle \in Request /\ Become(r, Idle) /\ Idle.op = "none"
      /\ Idle.step = "idle" /\ Idle.keep = {}
  BY IdleFact DEF Respond
<1> QED
  BY <1>1, WriteKeeps

(* The images stay: publish, republish, archive, activate, draft and       *)
(* publishDraft.                                                           *)
LEMMA MoveKeeps ==
  ASSUME OneAtATime, IInv, FilesSound, FilesNext, NEW r \in Requests,
         \/ publishWrite(r)  \/ republishWrite(r) \/ archiveWrite(r)
         \/ activateWrite(r) \/ draftWrite(r)     \/ publishDraftWrite(r)
  PROVE  FilesSound'
<1> DEFINE q == req[r]
           old == rows[q.ad]
<1>1. /\ q.step = "write" /\ Respond(r) /\ files' = files /\ purge' = purge
      /\ q.op \in {"publish", "republish", "archive", "activate", "draft", "publishDraft"}
      /\ old.status \in AdStatus
  BY DEF publishWrite, republishWrite, archiveWrite, activateWrite, draftWrite,
         publishDraftWrite, At, CanWrite, Exists
<1>2. /\ q \in Request /\ old \in Row /\ q.next \in AdStatus /\ q.at \in Nat /\ Destination(q)
  BY <1>1, WriterKnows
<1>3. null \notin Nat
  BY ConstantsAssumption
<1>4. PICK row \in Row :
        /\ Store(q.ad, row)
        /\ row.status \in AdStatus /\ row.images = old.images
        /\ row.status = "ARCHIVED" => row.archivedAt # null
  <2>1. CASE publishWrite(r)
    BY <1>2, <2>1, IssuedFact DEF publishWrite, Issued, SameText, Destination, At
  <2>2. CASE republishWrite(r)
    <3>1. Store(q.ad, Rewritten(old, q))
      BY <2>2 DEF republishWrite, Rewritten
    <3>2. Rewritten(old, q) \in Row /\ Rewritten(old, q).status = q.next
      BY <1>2, RewrittenFact
    <3>3. Rewritten(old, q).images = old.images
      BY <1>2 DEF Rewritten, Row
    <3> QED
      BY <1>2, <2>2, <3>1, <3>2, <3>3 DEF republishWrite, At, Destination
  <2>3. CASE archiveWrite(r)
    <3>1. Store(q.ad, Shelved(old, q.next, q.at)) /\ q.at \in Date
      BY <1>2, <2>3 DEF archiveWrite, Shelved, Date
    <3> QED
      BY <1>2, <1>3, <3>1, ShelvedFact DEF SameText
  <2>4. CASE activateWrite(r)
    <3>1. Store(q.ad, Shelved(old, q.next, null)) /\ null \in Date /\ q.next = "PENDING"
      BY <1>2, <2>4 DEF activateWrite, Shelved, Date, Destination, At
    <3> QED
      BY <1>2, <3>1, ShelvedFact DEF SameText
  <2>5. CASE draftWrite(r)
    <3>1. Store(q.ad, Drafted(old, q.next)) /\ q.next = "DRAFT"
      BY <1>2, <2>5 DEF draftWrite, Drafted, Destination, At
    <3> QED
      BY <1>2, <3>1, DraftedFact DEF SameText
  <2>6. CASE publishDraftWrite(r)
    <3>1. Store(q.ad, Revived(old, q)) /\ q.next # "ARCHIVED"
      BY <1>2, <2>6 DEF publishDraftWrite, Revived, Destination, At
    <3> QED
      BY <1>2, <3>1, RevivedFact DEF SameText
  <2> QED
    BY <2>1, <2>2, <2>3, <2>4, <2>5, <2>6
<1>5. Kept(old, q, q.ad) = old.images
  BY <1>1 DEF Kept, Rewriting
<1> QED
  BY <1>1, <1>4, <1>5, DoneKeeps

LEMMA RejectKeeps ==
  ASSUME OneAtATime, IInv, FilesSound, FilesNext, NEW r \in Requests, rejectWrite(r)
  PROVE  FilesSound'
<1> DEFINE q == req[r]
           old == rows[q.ad]
           new == Suspended(q, "notify")
<1>1. /\ q.step = "write" /\ q.op = "reject" /\ files' = files /\ purge' = purge
      /\ Suspend(r, "notify")
  BY DEF rejectWrite, At
<1>2. q \in Request /\ old \in Row /\ q.next = "REJECTED" /\ q.next \in AdStatus
  BY <1>1, WriterKnows DEF Destination
<1>3. PICK reason \in BOOLEAN : Store(q.ad, Judged(old, q.next, reason))
  BY DEF rejectWrite, Judged
<1>4. /\ Judged(old, q.next, reason) \in Row
      /\ Judged(old, q.next, reason).status = q.next
      /\ Judged(old, q.next, reason).images = old.images
  BY <1>2, JudgedFact DEF SameText
<1>5. new \in Request /\ new.op = "reject" /\ new.step = "notify" /\ Become(r, new)
  <2>1. "notify" \in Steps
    BY DEF Steps
  <2> QED
    BY <1>1, <1>2, <2>1, SuspendedFact DEF Suspend, Suspended
<1>6. Kept(old, q, q.ad) = old.images
  BY <1>1 DEF Kept, Rewriting
<1> HIDE DEF new
<1> QED
  BY <1>1, <1>2, <1>3, <1>4, <1>5, <1>6, WriteKeeps

LEMMA EditKeeps ==
  ASSUME OneAtATime, IInv, FilesSound, FilesNext, NEW r \in Requests,
         updateWrite(r) \/ saveDraftWrite(r)
  PROVE  FilesSound'
<1> DEFINE q == req[r]
           old == rows[q.ad]
<1>1. /\ q.step = "write" /\ q.op \in {"update", "saveDraft"} /\ Respond(r)
      /\ files' = files /\ purge' = purge /\ old.status \in AdStatus
  BY DEF updateWrite, saveDraftWrite, At, CanWrite, Exists
<1>2. q \in Request /\ old \in Row /\ q.next \in AdStatus /\ Destination(q) /\ q.ad \in Ads
  BY <1>1, WriterKnows
<1>3. PICK c \in Contents : Store(q.ad, Retyped(old, q, c))
  BY DEF updateWrite, saveDraftWrite, Edited, Retyped
<1>4. /\ Retyped(old, q, c) \in Row /\ Retyped(old, q, c).status = q.next
      /\ Retyped(old, q, c).archivedAt = old.archivedAt
      /\ Retyped(old, q, c).images = q.keep
  BY <1>2, RetypedFact
<1>5. q.next = "ARCHIVED" => old.archivedAt # null
  <2>1. q.next = "ARCHIVED" => old.status = "ARCHIVED"
    BY <1>1, <1>2 DEF Destination, FilesSound, EditsArchived, AdStatus
  <2> QED
    BY <1>2, <2>1 DEF FilesSound, ArchiveIsDated
<1>6. Kept(old, q, q.ad) = q.keep
  BY <1>1 DEF Kept, Rewriting, Left
<1> QED
  BY <1>1, <1>2, <1>3, <1>4, <1>5, <1>6, DoneKeeps

LEMMA CreateKeeps ==
  ASSUME OneAtATime, IInv, FilesSound, FilesNext, NEW r \in Requests, createWrite(r)
  PROVE  FilesSound'
<1> DEFINE q == req[r]
<1>1. /\ q.step = "write" /\ q.op = "create" /\ Respond(r) /\ files' = files /\ purge' = purge
  BY DEF createWrite, At
<1>2. q \in Request /\ q.next \in {"PENDING", "DRAFT"} /\ q.next \in AdStatus
  BY <1>1, WriterKnows DEF Destination
<1>3. PICK c \in Contents : Store(q.ad, Inserted(NoRow(q.next), q, c))
  BY DEF createWrite, Inserted
<1>4. NoRow(q.next) \in Row /\ NoRow(q.next).status = q.next
  BY <1>2, NoRowFact
<1>5. /\ Inserted(NoRow(q.next), q, c) \in Row
      /\ Inserted(NoRow(q.next), q, c).status = q.next
      /\ Inserted(NoRow(q.next), q, c).images = q.keep
  BY <1>2, <1>4, InsertedFact
<1>6. Kept(rows[q.ad], q, q.ad) = q.keep
  BY <1>1 DEF Kept, Rewriting, Left
<1> QED
  BY <1>1, <1>2, <1>3, <1>5, <1>6, DoneKeeps

LEMMA RemoveKeeps ==
  ASSUME OneAtATime, IInv, FilesSound, FilesNext, NEW r \in Requests, removeWrite(r)
  PROVE  FilesSound'
<1> DEFINE q == req[r]
<1>1. /\ q.step = "write" /\ q.op = "remove" /\ Respond(r) /\ files' = files /\ purge' = purge
      /\ Store(q.ad, NoRow("GONE"))
  BY DEF removeWrite, At
<1>2. NoRow("GONE") \in Row /\ NoRow("GONE").status = "GONE" /\ NoRow("GONE").images = {}
  BY NoRowFact
<1>3. Kept(rows[q.ad], q, q.ad) = {}
  BY <1>1 DEF Kept, Rewriting, Left
<1> QED
  BY <1>1, <1>2, <1>3, DoneKeeps

LEMMA WriteStepKeeps ==
  ASSUME OneAtATime, IInv, FilesSound, FilesNext, NEW r \in Requests, WriteStep(r)
  PROVE  FilesSound'
<1>1. CASE notifyAdRejected(r) \/ notifyFails(r)
  BY <1>1, RespondKeeps DEF notifyAdRejected, notifyFails, At
<1>2. CASE writeMissing(r)
  <2>1. Respond(r) /\ req[r].step # "idle" /\ UNCHANGED <<rows, purge>>
        /\ ~Aware(rows, req[r], known)
    BY <1>2 DEF writeMissing, Aware, AdStatus
  <2> QED
    BY <2>1, BrokenKeeps
<1> QED
  BY <1>1, <1>2, MoveKeeps, RejectKeeps, EditKeeps, CreateKeeps, RemoveKeeps DEF WriteStep

-----------------------------------------------------------------------------
(* The deletion of an account.                                             *)

LEMMA CloseKeeps ==
  ASSUME OneAtATime, IInv, FilesSound, FilesNext, NEW r \in Requests, deleteAccountCommit(r)
  PROVE  FilesSound'
<1> DEFINE q == req[r]
<1>1. /\ q.step = "closing" /\ q.op = "deleteAccount" /\ Respond(r)
      /\ files' = files /\ purge' = purge /\ q \in Request
      /\ \A a \in Ads : rows'[a] = IF a \in q.locks THEN Shelved(rows[a], "ARCHIVED", q.at)
                                                  ELSE rows[a]
  BY DEF deleteAccountCommit, At, Shelved, IInv, TypeOK
<1>2. q.at \in Nat /\ q.at \in Date /\ q.at # null /\ "ARCHIVED" \in AdStatus
  BY <1>1, ConstantsAssumption DEF Request, Date, AdStatus
<1>3. ASSUME NEW a \in Ads
      PROVE  /\ rows'[a].images = rows[a].images
             /\ a \in q.locks => rows'[a].status = "ARCHIVED" /\ rows'[a].archivedAt # null
             /\ a \notin q.locks => rows'[a] = rows[a]
  <2>1. rows[a] \in Row
    BY DEF IInv, TypeOK
  <2> QED
    BY <1>1, <1>2, <2>1, ShelvedFact DEF SameText
<1>4. /\ req'[r].op = "none" /\ req'[r].step = "idle" /\ req'[r].keep = {}
      /\ \A s \in Requests : s = r
  BY <1>1, RespondFact, IdleFact DEF IInv, OneAtATime
<1> HIDE DEF q
<1>5. NothingBare' /\ ArchiveIsDated' /\ EditsArchived'
  BY <1>2, <1>3, <1>4 DEF FilesSound, NothingBare, Exists, ArchiveIsDated, EditsArchived
<1>6. Aware(rows', req'[r], known')
  BY <1>4 DEF Aware
<1>7. KeptBeside(r)' = KeptBeside(r)
  BY <1>1, <1>3, <1>4 DEF KeptBeside, Kept, Rewriting, q
<1>8. Stored(files, KeptBeside(r), known) => Stored(files', KeptBeside(r)', known')
  BY <1>1, <1>7, KnownKeeps DEF Stored
<1> QED
  BY <1>1, <1>5, <1>6, <1>8, RequestKeeps DEF q

LEMMA DeleteAccountKeeps ==
  ASSUME OneAtATime, IInv, FilesSound, FilesNext, NEW r \in Requests, DeleteAccountStep(r)
  PROVE  FilesSound'
<1>1. CASE deleteAccountBegin(r)
  <2> DEFINE hit == {a \in Ads : /\ Owner[a] = req[r].user /\ Exists(a)
                                 /\ rows[a].status # "ARCHIVED"}
             q == Closing(req[r], hit)
  <2>1. /\ req[r] \in Request /\ today \in Nat /\ req[r].step = "authorized"
        /\ hit \in SUBSET Ads /\ Become(r, q) /\ UNCHANGED <<rows, files, purge>>
    BY <1>1 DEF IInv, TypeOK, deleteAccountBegin, Closing
  <2> HIDE DEF hit
  <2>2. q \in Request /\ q.op = "deleteAccount" /\ q.step = "closing"
    BY <2>1, ClosingFact
  <2> HIDE DEF q
  <2>3. Aware(rows, q, known')
    BY <2>2 DEF Aware
  <2>4. Grown(rows, req[r], q, known')
    BY <2>1, <2>2 DEF Grown, Kept, Rewriting
  <2> QED
    BY <2>1, <2>2, <2>3, <2>4, ReadKeeps
<1>2. CASE deleteAccountAbort(r)
  BY <1>2, RespondKeeps DEF deleteAccountAbort, At
<1> QED
  BY <1>1, <1>2, CloseKeeps DEF DeleteAccountStep

-----------------------------------------------------------------------------
(* The workers.                                                            *)

(* A worker that leaves the images where they are, or nothing at all.      *)
LEMMA RowsKeep ==
  ASSUME IInv, FilesSound, undisturbed' => undisturbed, known' => known, known' \in BOOLEAN,
         req' = req, files' = files, purge' = purge,
         \A a \in Ads : \/ rows'[a] = rows[a]
                        \/ /\ rows[a].status = "PUBLISHED" /\ rows'[a].status = "EXPIRED"
                           /\ rows'[a].images = rows[a].images
  PROVE  FilesSound'
<1>1. NothingBare' /\ ArchiveIsDated'
  BY DEF FilesSound, NothingBare, Exists, ArchiveIsDated, AdStatus
<1>2. EditsArchived'
  BY WriterKnows DEF FilesSound, EditsArchived
<1>3. ASSUME undisturbed'
      PROVE  FilesInOrder'
  <2>1. FilesInOrder /\ (Handling' <=> Handling) /\ (Purging' <=> Purging)
    BY <1>3 DEF FilesSound, Handling, Purging
  <2>2. \A a \in Ads : rows'[a].images = rows[a].images
    OBVIOUS
  <2>3. KeptInPurge' = KeptInPurge /\ \A r \in Requests : KeptBeside(r)' = KeptBeside(r)
    BY <2>2 DEF KeptInPurge, KeptBeside, Kept
  <2>5. /\ Stored(files, KeptInPurge, known) => Stored(files', KeptInPurge', known')
        /\ \A r \in Requests :
             Stored(files, KeptBeside(r), known) => Stored(files', KeptBeside(r)', known')
    BY <2>3 DEF Stored
  <2>4. ASSUME NEW r \in Requests
        PROVE  Aware(rows', req'[r], known')
    <3>1. Aware(rows, req[r], known)
      BY <2>1 DEF FilesInOrder
    <3>2. req[r].op \notin {"none", "deleteAccount"} => req[r].ad \in Ads
      BY WriterKnows
    <3>3. CASE req[r].step \in {"idle", "authorized"}
      BY <3>1, <3>3 DEF Aware
    <3>4. CASE req[r].step \in {"deleteFiles", "uploadFiles", "write"}
      <4>1. req[r].ad \in Ads
        BY <3>1, <3>2, <3>4 DEF Aware
      <4>2. /\ rows[req[r].ad].status = "UNBORN" => rows'[req[r].ad].status = "UNBORN"
            /\ rows[req[r].ad].status \in AdStatus => rows'[req[r].ad].status \in AdStatus
            /\ rows'[req[r].ad].images = rows[req[r].ad].images
        BY <2>2, <4>1 DEF AdStatus
      <4> QED
        BY <3>1, <3>4, <4>2 DEF Aware
    <3>5. CASE req[r].step \notin {"idle", "authorized", "deleteFiles", "uploadFiles", "write"}
      BY <3>5 DEF Aware
    <3> QED
      BY <3>3, <3>4, <3>5
  <2> QED
    BY <2>1, <2>2, <2>4, <2>5 DEF FilesInOrder
<1> QED
  BY <1>1, <1>2, <1>3 DEF FilesSound

LEMMA ExpireKeeps ==
  ASSUME IInv, FilesSound, FilesNext, handleExpiredAds
  PROVE  FilesSound'
<1>1. /\ req' = req /\ files' = files /\ purge' = purge
      /\ \A a \in Ads : rows'[a] = IF Overdue(a) THEN TimedOut(rows[a]) ELSE rows[a]
  BY DEF handleExpiredAds, TimedOut
<1>2. ASSUME NEW a \in Ads, Overdue(a)
      PROVE  /\ rows[a].status = "PUBLISHED" /\ rows'[a].status = "EXPIRED"
             /\ rows'[a].images = rows[a].images
  <2>1. rows[a] \in Row
    BY DEF IInv, TypeOK
  <2> QED
    BY <1>1, <1>2, <2>1, TimedOutFact DEF Overdue, SameText
<1>3. \A a \in Ads : ~Overdue(a) => rows'[a] = rows[a]
  BY <1>1
<1>4. (undisturbed' => undisturbed) /\ (known' => known) /\ known' \in BOOLEAN
  BY KnownKeeps
<1> QED
  BY <1>1, <1>2, <1>3, <1>4, RowsKeep

LEMMA ScanKeeps ==
  ASSUME IInv, FilesSound, FilesNext, purgeScan
  PROVE  FilesSound'
<1>1. /\ rows' = rows /\ files' = files /\ req' = req
      /\ \A a \in Ads : purge[a].stage = "none"
      /\ \A a \in Ads :
           \/ purge'[a].stage = "queued" /\ purge'[a].images = rows[a].images
           \/ purge'[a].stage = "none"
  BY DEF purgeScan, NotPurged
<1>2. NothingBare' /\ ArchiveIsDated' /\ EditsArchived'
  BY <1>1 DEF FilesSound, NothingBare, Exists, ArchiveIsDated, EditsArchived
<1>3. ASSUME undisturbed'
      PROVE  FilesInOrder'
  <2>1. FilesInOrder /\ ~(Handling /\ Purging)' /\ (Handling' <=> Handling) /\ ~Purging
    BY <1>1, <1>3 DEF FilesSound, FilesNext, Handling, Purging
  <2>2. KeptInPurge' = KeptInPurge /\ \A r \in Requests : KeptBeside(r)' = KeptBeside(r)
    BY <1>1 DEF KeptInPurge, KeptBeside
  <2>3. /\ Stored(files, KeptInPurge, known) => Stored(files', KeptInPurge', known')
        /\ \A r \in Requests :
             Stored(files, KeptBeside(r), known) => Stored(files', KeptBeside(r)', known')
    BY <1>1, <2>2, KnownKeeps DEF Stored
  <2>4. \A r \in Requests : Aware(rows', req'[r], known')
    BY <1>1, <2>1, KnownKeeps DEF FilesInOrder, Aware
  <2> QED
    BY <1>1, <2>1, <2>3, <2>4 DEF FilesInOrder
<1> QED
  BY <1>2, <1>3, KnownKeeps DEF FilesSound

LEMMA PurgedFilesKeep ==
  ASSUME IInv, FilesSound, FilesNext, NEW a \in Ads, purgeFiles(a) \/ purgeFilesFails(a)
  PROVE  FilesSound'
<1>1. rows' = rows /\ req' = req /\ purge[a].stage = "queued"
  BY DEF purgeFiles, purgeFilesFails
<1>2. NothingBare' /\ ArchiveIsDated' /\ EditsArchived'
  BY <1>1 DEF FilesSound, NothingBare, Exists, ArchiveIsDated, EditsArchived
<1>3. ASSUME undisturbed'
      PROVE  FilesInOrder'
  <2>1. /\ FilesInOrder /\ ~(Handling /\ Purging)' /\ (Handling' <=> Handling)
        /\ purgeFiles(a)
    BY <1>1, <1>3 DEF FilesSound, FilesNext, Handling, BreaksOff
  <2>2. /\ files' = [i \in Images |-> IF i \in purge[a].images THEN "deleted" ELSE files[i]]
        /\ purge'[a].stage = "emptied" /\ purge'[a].images = purge[a].images
        /\ \A b \in Ads \ {a} : purge'[b] = purge[b]
    BY <2>1 DEF purgeFiles, Delete, IInv, TypeOK
  <2>3. purge[a].images = rows[a].images /\ Purging /\ Purging'
    BY <1>1, <2>1, <2>2 DEF FilesInOrder, Purging
  <2>4. Stored(files, KeptInPurge, known)
    BY <2>1, <2>3 DEF FilesInOrder
  <2>5. /\ KeptInPurge[a] = rows[a].images /\ KeptInPurge'[a] = {}
        /\ \A b \in Ads \ {a} : KeptInPurge'[b] = KeptInPurge[b]
    BY <1>1, <2>2 DEF KeptInPurge
  <2>6. KeptInPurge'[a] = KeptInPurge[a] \ purge[a].images /\ purge[a].images \subseteq KeptInPurge[a]
    BY <2>3, <2>5
  <2>7. Stored(files', KeptInPurge', known')
    <3>1. /\ purge[a].images \subseteq KeptInPurge[a]
          /\ KeptInPurge[a] \ purge[a].images \subseteq KeptInPurge'[a]
          /\ known' => KeptInPurge'[a] = KeptInPurge[a] \ purge[a].images
      BY <2>6
    <3> QED
      BY <2>2, <2>4, <2>5, <3>1, KnownKeeps, DeleteKeeps
  <2>9. \A r \in Requests : Aware(rows', req'[r], known')
    BY <1>1, <2>1, KnownKeeps DEF FilesInOrder, Aware
  <2>8. \A b \in Ads : purge'[b].stage # "none" => purge'[b].images = rows'[b].images
    BY <1>1, <2>1, <2>2, <2>3 DEF FilesInOrder
  <2> QED
    BY <2>1, <2>3, <2>7, <2>8, <2>9 DEF FilesInOrder
<1> QED
  BY <1>2, <1>3, KnownKeeps DEF FilesSound

LEMMA PurgedRowKeeps ==
  ASSUME IInv, FilesSound, FilesNext, NEW a \in Ads, purgeDelete(a)
  PROVE  FilesSound'
<1>1. /\ req' = req /\ files' = files /\ purge[a].stage = "emptied"
      /\ purge'[a].stage = "none" /\ \A b \in Ads \ {a} : purge'[b] = purge[b]
  BY DEF purgeDelete, NotPurged, IInv, TypeOK
<1>2. NoRow("GONE") \in Row /\ NoRow("GONE").status = "GONE" /\ NoRow("GONE").images = {}
  BY NoRowFact
<1>3. /\ \A b \in Ads \ {a} : rows'[b] = rows[b]
      /\ rows'[a] = rows[a] \/ rows'[a].status = "GONE"
      /\ rows'[a].images = {} /\ rows'[a].status \notin AdStatus
  <2>1. CASE Exists(a)
    <3>1. Store(a, NoRow("GONE"))
      BY <2>1 DEF purgeDelete
    <3> QED
      BY <1>2, <3>1, StoreFact DEF IInv, AdStatus
  <2>2. CASE ~Exists(a)
    BY <2>2 DEF purgeDelete, FilesSound, NothingBare, Exists
  <2> QED
    BY <2>1, <2>2
<1>4. NothingBare' /\ ArchiveIsDated' /\ known' \in BOOLEAN
  BY <1>3, KnownKeeps DEF FilesSound, NothingBare, Exists, ArchiveIsDated, AdStatus
<1>5. EditsArchived'
  BY <1>1, <1>3, WriterKnows DEF FilesSound, EditsArchived
<1>6. ASSUME undisturbed'
      PROVE  FilesInOrder'
  <2>1. FilesInOrder /\ Purging /\ ~Handling /\ ~Handling'
    BY <1>1, <1>6 DEF FilesSound, FilesNext, Handling, Purging, FilesInOrder
  <2>2. \A r \in Requests : Aware(rows', req'[r], known')
    BY <1>1, <2>1 DEF FilesInOrder, Aware, Handling
  <2>3. KeptInPurge' = KeptInPurge
    BY <1>1, <1>3 DEF KeptInPurge
  <2>4. ASSUME ~Purging', NEW r \in Requests
        PROVE  KeptBeside(r)' = KeptInPurge'
    BY <2>1, <2>4 DEF KeptBeside, KeptInPurge, Kept, Rewriting, Handling, Purging
  <2>5. \A b \in Ads : purge'[b].stage # "none" => purge'[b].images = rows'[b].images
    BY <1>1, <1>3, <2>1 DEF FilesInOrder
  <2>6. Stored(files', KeptInPurge', known')
    BY <1>1, <2>1, <2>3, KnownKeeps DEF FilesInOrder, Stored
  <2> QED
    BY <2>1, <2>2, <2>4, <2>5, <2>6 DEF FilesInOrder
<1> QED
  BY <1>4, <1>5, <1>6 DEF FilesSound

-----------------------------------------------------------------------------

LEMMA FilesStep ==
  ASSUME OneAtATime, ~Crashes, IInv, FilesSound, [FilesNext]_<<vars, history>>
  PROVE  FilesSound'
<1>1. ASSUME FilesNext, NEW r \in Requests, AuthGuard(r)
      PROVE  FilesSound'
  <2>1. PICK u \in Users \cup {moderator} : Become(r, Admitted(u))
    BY <1>1 DEF AuthGuard, Admitted
  <2> DEFINE q == Admitted(u)
  <2>2. q \in Request /\ q.op = "none" /\ q.step = "authorized" /\ q.keep = {}
    BY AdmittedFact
  <2>3. Become(r, q) /\ UNCHANGED <<rows, files, purge>> /\ req[r].step = "idle"
    BY <1>1, <2>1 DEF AuthGuard
  <2> HIDE DEF q
  <2>4. Aware(rows, q, known')
    BY <2>2 DEF Aware
  <2>5. Grown(rows, req[r], q, known')
    BY <2>2, <2>3 DEF Grown, Kept, Rewriting
  <2> QED
    BY <1>1, <2>2, <2>3, <2>4, <2>5, ReadKeeps
<1>2. ASSUME FilesNext, NEW r \in Requests, HandlerStep(r)
      PROVE  FilesSound'
  <2>1. CASE Refuse(r)
    BY <1>2, <2>1, RespondKeeps DEF Refuse
  <2>2. CASE ReadStep(r)
    BY <1>2, <2>2, MovedKeeps, SortedKeeps, RemovedKeeps, CreatedKeeps DEF ReadStep
  <2> QED
    BY <1>2, <2>1, <2>2, StorageKeeps, WriteStepKeeps, DeleteAccountKeeps DEF HandlerStep
<1>3. CASE (FilesNext /\ Tick) \/ UNCHANGED <<vars, history>>
  <2>1. req' = req /\ files' = files /\ purge' = purge /\ rows' = rows
    BY <1>3 DEF Tick, vars
  <2>2. (undisturbed' => undisturbed) /\ (known' => known) /\ known' \in BOOLEAN
    BY <1>3, KnownKeeps DEF history, FilesSound
  <2> QED
    BY <2>1, <2>2, RowsKeep
<1> QED
  BY <1>1, <1>2, <1>3, ExpireKeeps, ScanKeeps, PurgedFilesKeep, PurgedRowKeeps
  DEF FilesNext, Next, PurgeStep, Crash

(* One request at a time and no crash, for any ads and files and any       *)
(* schedule of the workers beside it: S3 holds no file that no row lists,  *)
(* whatever existingImages have named; it holds all that rows list as long *)
(* as those have named only the ad's own; and an ad in the archive has its *)
(* date (archivedAt).                                                      *)
THEOREM OneByOneIsListed ==
  ASSUME OneAtATime, ~Crashes
  PROVE  FilesSpec => []AdsOneByOne
<1>1. FilesInit => FilesSound
  BY InitFiles
<1>2. IInv /\ FilesSound /\ [FilesNext]_<<vars, history>> => FilesSound'
  BY FilesStep
<1>3. FilesInit => Init
  BY DEF FilesInit
<1>4. [FilesNext]_<<vars, history>> => [Next]_vars
  BY DEF FilesNext, vars
<1>5. IInv /\ FilesSound => AdsOneByOne
  <2> SUFFICES ASSUME IInv, FilesSound, undisturbed, ~Handling, ~Purging
               PROVE  FilesAreListed
    BY DEF FilesSound, AdsOneByOne, FilesAreListed
  <2>1. Stored(files, KeptInPurge, known) /\ \A a \in Ads : purge[a].stage = "none"
    BY DEF FilesSound, FilesInOrder, Purging
  <2>2. \A a \in Ads : KeptInPurge[a] = rows[a].images
    BY <2>1 DEF KeptInPurge
  <2> QED
    BY <2>1, <2>2 DEF Stored, FilesAreListed
<1> QED
  BY <1>1, <1>2, <1>3, <1>4, <1>5, InductiveInvariant, PTL DEF FilesSpec, Spec
=============================================================================
