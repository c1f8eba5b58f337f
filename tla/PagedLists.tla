------------------------------ MODULE PagedLists ------------------------------
(* The lists that are read page by page with an offset while they change:  *)
(*                                                                         *)
(*   feed       AdsService.findAll, by COALESCE(bumped_at, created_at)     *)
(*   mine       AdsService.findMyAds                                       *)
(*   pending    AdsService.findPending, the moderator's queue              *)
(*   favorites  AdsService.getFavorites                                    *)
(*   notices    NotificationsService.findMyNotifications                   *)
(*                                                                         *)
(* The catalogue takes three statements for a page: count -> ids -> rows.  *)
(* Of an item only what the lists see is kept: whether it has a row, is    *)
(* listed, and the time it is sorted by.  Which filters were asked for,    *)
(* and why an ad is hidden, makes no difference to the pages.              *)
(*                                                                         *)
(* A definition op_variant before op is op with a mistake in it; nothing   *)
(* here uses it.  Putting it in op's place breaks one of the properties.   *)
(***************************************************************************)
EXTENDS Naturals, Sequences, SequencesExt

CONSTANTS
  Items,
  Limit,     (* of a page                                                  *)
  MaxTime    (* bound of the clock                                         *)

PagedListsAssumption == Limit \in Nat \ {0} /\ MaxTime \in Nat \ {0}

VARIABLES
  list,      (* the list that is read                                      *)
  clock,
  item,      (* the rows                                                   *)
  worker,    (* AdAutoBumpWorker between its two statements                *)
  reader     (* the request for a page, and the pages before it            *)

vars == <<list, clock, item, worker, reader>>

-----------------------------------------------------------------------------

Lists == {"feed", "mine", "pending", "favorites", "notices"}

Item == [state : {"hidden", "listed"}, key : 1 .. MaxTime]
          \cup [state : {"none"}, key : {0}]

Worker == [step : {"idle", "update"}, ids : SUBSET Items, at : 0 .. MaxTime]

Waiting == [step |-> "idle", ids |-> {}, at |-> 0]

Reader == [step : {"idle", "ids", "rows", "done"}, page : Nat \ {0},
           ids : Seq(Items), shown : Seq(Items)]

Begin == [step |-> "idle", page |-> 1, ids |-> <<>>, shown |-> <<>>]

TypeOK ==
  /\ list \in Lists
  /\ clock \in 1 .. MaxTime
  /\ item \in [Items -> Item]
  /\ worker \in Worker
  /\ reader \in Reader

Init ==
  /\ list \in Lists
  /\ clock = 1
  /\ item = [a \in Items |-> [state |-> "none", key |-> 0]]
  /\ worker = Waiting
  /\ reader = Begin

Listed == {a \in Items : item[a].state = "listed"}

Rows == {a \in Items : item[a].state # "none"}

-----------------------------------------------------------------------------
(* Reading.                                                                *)

(* ORDER BY a time alone: the database orders equal times as it likes.     *)
Goes(a, b) == IF list = "pending" THEN item[a].key <= item[b].key
                                  ELSE item[a].key >= item[b].key

Sorted(S) == {s \in SetToSeqs(S) : \A i, j \in DOMAIN s : i < j => Goes(s[i], s[j])}

Skip_nextPage == reader.page * Limit

Skip == (reader.page - 1) * Limit

LimitOffset(s) == SubSeq(s, Skip + 1, IF Skip + Limit < Len(s) THEN Skip + Limit ELSE Len(s))

(* An empty page is the last one a reader asks for.                        *)
Answer(page) ==
  [step |-> IF page = <<>> THEN "done" ELSE "idle",
   page |-> IF page = <<>> THEN reader.page ELSE reader.page + 1,
   ids |-> <<>>, shown |-> reader.shown \o page]

(* WHERE of both statements of findAll and of the other lists' one.        *)
findAll == Listed

count ==
  /\ list = "feed" /\ reader.step = "idle"
  /\ reader' = IF Skip < Len(SetToSeq(findAll)) THEN [reader EXCEPT !.step = "ids"]
                                              ELSE Answer(<<>>)
  /\ UNCHANGED <<list, clock, item, worker>>

ids ==
  /\ reader.step = "ids"
  /\ \E s \in Sorted(findAll) :
       reader' = [reader EXCEPT !.step = "rows", !.ids = LimitOffset(s)]
  /\ UNCHANGED <<list, clock, item, worker>>

(* findMany by ids, in the order of ids; rows that are gone fall out.      *)
inRows(s) ==
  LET kept[n \in 0 .. Len(s)] ==
        IF n = 0 THEN <<>>
        ELSE IF s[n] \in Rows THEN Append(kept[n - 1], s[n]) ELSE kept[n - 1]
  IN  kept[Len(s)]

rows ==
  /\ reader.step = "rows"
  /\ reader' = Answer(inRows(reader.ids))
  /\ UNCHANGED <<list, clock, item, worker>>

(* The other lists are one statement with skip and take.                   *)
findMany(l) ==
  /\ list = l /\ reader.step = "idle"
  /\ \E s \in Sorted(Listed) : reader' = Answer(LimitOffset(s))
  /\ UNCHANGED <<list, clock, item, worker>>

findMyAds == findMany("mine")

findPending == findMany("pending")

getFavorites == findMany("favorites")

findMyNotifications == findMany("notices")

(* The reader starts again from the first page.                            *)
again ==
  /\ reader.step = "done"
  /\ reader' = Begin
  /\ UNCHANGED <<list, clock, item, worker>>

-----------------------------------------------------------------------------
(* What changes the lists.                                                 *)

Changed(a, state, key) ==
  /\ item' = [item EXCEPT ![a] = [state |-> state, key |-> key]]
  /\ UNCHANGED <<list, clock, worker, reader>>

(* A new row; an ad is published at some time after it has been created.   *)
create(a) ==
  /\ item[a].state = "none"
  /\ \E t \in 1 .. clock : (list # "feed" => t = clock) /\ Changed(a, "listed", t)

(* An ad leaves the catalogue, the queue or the status asked for, and may  *)
(* come back with its times; a notification that is read leaves the unread.*)
hide(a) ==
  /\ list # "favorites" /\ item[a].state = "listed"
  /\ Changed(a, "hidden", item[a].key)

show(a) ==
  /\ list # "notices" /\ item[a].state = "hidden"
  /\ Changed(a, "listed", item[a].key)

(* Notifications are not deleted while their account lives.                *)
remove(a) ==
  /\ list # "notices" /\ item[a].state # "none"
  /\ Changed(a, "none", 0)

Lift(S, t) == item' = [a \in Items |-> IF a \in S THEN [item[a] EXCEPT !.key = t] ELSE item[a]]

(* A bump that has been paid lifts one ad, a premium all of its owner's.   *)
bump ==
  /\ list = "feed"
  /\ \E S \in SUBSET Listed \ {{}} : Lift(S, clock)
  /\ UNCHANGED <<list, clock, worker, reader>>

(* The candidates whose service runs.                                      *)
autoBumpFind ==
  /\ list = "feed" /\ worker.step = "idle"
  /\ \E S \in SUBSET Listed \ {{}} :
       worker' = [step |-> "update", ids |-> S, at |-> clock]
  /\ UNCHANGED <<list, clock, item, reader>>

(* By id, whatever has become of them: all get one bumpedAt.               *)
autoBumpUpdate ==
  /\ worker.step = "update"
  /\ Lift(worker.ids \cap Rows, worker.at)
  /\ worker' = Waiting
  /\ UNCHANGED <<list, clock, reader>>

Tick ==
  /\ clock < MaxTime
  /\ clock' = clock + 1
  /\ UNCHANGED <<list, item, worker, reader>>

Next ==
  \/ count \/ ids \/ rows \/ again
  \/ findMyAds \/ findPending \/ getFavorites \/ findMyNotifications
  \/ \E a \in Items : create(a) \/ hide(a) \/ show(a) \/ remove(a)
  \/ bump \/ autoBumpFind \/ autoBumpUpdate
  \/ Tick

Spec == Init /\ [][Next]_vars
=============================================================================
