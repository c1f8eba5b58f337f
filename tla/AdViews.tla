------------------------------- MODULE AdViews -------------------------------
(* The views of ads: findOne records who saw an ad on which day (recordView*)
(* and its unique index), AdViewsRollupWorker turns the rows of past days  *)
(* into daily sums one transaction at a time, and the owner's counters and *)
(* weekly statistics add both tables up in two queries that nothing keeps  *)
(* together.  All Days lie in one week of the statistics.                  *)
(*                                                                         *)
(* Time: a view is stored, and an answer is put together, before the       *)
(* rollup of the following night starts (it runs at 2:00).                 *)
(*                                                                         *)
(* A definition op_variant before op is op with a mistake in it; nothing   *)
(* here uses it.  Putting it in op's place breaks one of the properties.   *)
(***************************************************************************)
EXTENDS Naturals, FiniteSets

CONSTANTS
  Ads,
  Viewers,   (* viewer keys other than the owner's                         *)
  MaxDay,    (* bound on the clock                                         *)
  null

ASSUME AdViewsAssumption ==
  /\ IsFiniteSet(Viewers)
  /\ MaxDay \in Nat \ {0}
  /\ null \notin Ads

VARIABLES
  today,
  ads,       (* the ads that have a row                                    *)
  raw,       (* ad_views: <<ad, viewer, day>>                              *)
  daily,     (* ad_views_daily: the sum for an ad and a day, 0 for no row  *)
  scanned,   (* the rows the worker has read and not dealt with yet        *)
  lastRun,   (* the day the worker last ran                                *)
  reader,    (* an owner looking at the statistics of an ad                *)
  visited    (* history: who really was there, as raw, never rolled up     *)

vars == <<today, ads, raw, daily, scanned, lastRun, reader, visited>>

-----------------------------------------------------------------------------

Days == 1 .. MaxDay

View == Ads \X Viewers \X Days

(* The rows of one ad and one day: a group of the worker.                  *)
Of(views, a, d) == {v \in views : v[1] = a /\ v[3] = d}

Count(views, a, d) == Cardinality(Of(views, a, d))

Reader == [kind : {"stats", "counters"}, ad : Ads \cup {null}, day : Days,
           daily : [Days -> Nat] \cup {null}, raw : [Days -> Nat] \cup {null},
           before : Nat]   \* history: the visitors of the day at the start

Reading(kind, a, day, before) ==
  [kind |-> kind, ad |-> a, day |-> day, daily |-> null, raw |-> null,
   before |-> before]

TypeOK ==
  /\ today \in Days
  /\ ads \subseteq Ads
  /\ raw \subseteq View
  /\ daily \in [Ads -> [Days -> Nat]]
  /\ scanned \subseteq View
  /\ lastRun \in 0 .. MaxDay
  /\ reader \in Reader
  /\ visited \subseteq View

Init ==
  /\ today = 1
  /\ ads = Ads
  /\ raw = {}
  /\ daily = [a \in Ads |-> [d \in Days |-> 0]]
  /\ scanned = {}
  /\ lastRun = 0
  /\ reader = Reading("stats", null, 1, 0)
  /\ visited = {}

-----------------------------------------------------------------------------
(* Visitors.  viewDate was computed a moment before the insert, possibly   *)
(* the day before; inserting a row that is there already fails (P2002).    *)

recordView(a, v) ==
  /\ a \in ads
  /\ \E d \in {today} \cup (IF lastRun < today THEN {today - 1} ELSE {}) :
       /\ d \in Days
       /\ raw' = raw \cup {<<a, v, d>>}
       /\ visited' = visited \cup {<<a, v, d>>}
  /\ UNCHANGED <<today, ads, daily, scanned, lastRun, reader>>

-----------------------------------------------------------------------------
(* The worker.                                                             *)

(* Today's rows too.                                                       *)
staleViews_withToday == {v \in raw : v[3] <= today}

(* Only those of the night before.                                         *)
staleViews_ofYesterday == {v \in raw : v[3] + 1 = today}

staleViews == {v \in raw : v[3] < today}

(* Once a night, or not at all when the server is down at 2:00; the bound  *)
(* on the clock leaves no other nights, so the last day stands for all     *)
(* later ones.                                                             *)
rollupViews ==
  /\ scanned = {}
  /\ lastRun < today \/ today = MaxDay
  /\ reader.ad # null => reader.day = today
  /\ scanned' = staleViews
  /\ lastRun' = today
  /\ UNCHANGED <<today, ads, raw, daily, reader, visited>>

(* Sum and rows in two transactions: a crash may come in between.          *)
rollUp_twoTransactions(a, d) ==
  LET group == Of(scanned, a, d) IN
  /\ group # {}
  /\ a \in ads
  /\ daily' = [daily EXCEPT ![a][d] = @ + Cardinality(group)]
  /\ raw' \in {raw, raw \ group}
  /\ scanned' = IF raw' = raw THEN {} ELSE scanned \ group
  /\ UNCHANGED <<today, ads, lastRun, reader, visited>>

(* The sum grows by the rows that were read, those rows are deleted.       *)
rollUp(a, d) ==
  LET group == Of(scanned, a, d) IN
  /\ group # {}
  /\ a \in ads                            \* the foreign key of the sum
  /\ daily' = [daily EXCEPT ![a][d] = @ + Cardinality(group)]
  /\ raw' = raw \ group
  /\ scanned' = scanned \ group
  /\ UNCHANGED <<today, ads, lastRun, reader, visited>>

(* The transaction fails; the worker goes on to the next group.            *)
rollUpFails(a, d) ==
  /\ Of(scanned, a, d) # {}
  /\ scanned' = scanned \ Of(scanned, a, d)
  /\ UNCHANGED <<today, ads, raw, daily, lastRun, reader, visited>>

-----------------------------------------------------------------------------
(* Owners.  The queries of one answer run in parallel, in any order.       *)

ask(kind, a) ==
  /\ reader.ad = null
  /\ a \in ads
  /\ reader' = Reading(kind, a, today, Count(visited, a, today))
  /\ UNCHANGED <<today, ads, raw, daily, scanned, lastRun, visited>>

readDaily ==
  /\ reader.ad # null /\ reader.daily = null
  /\ reader' = [reader EXCEPT !.daily = daily[reader.ad]]
  /\ UNCHANGED <<today, ads, raw, daily, scanned, lastRun, visited>>

(* The counters read today's rows only.                                    *)
readRaw ==
  /\ reader.ad # null /\ reader.raw = null
  /\ reader' = [reader EXCEPT !.raw =
       [d \in Days |-> IF reader.kind = "counters" /\ d # reader.day THEN 0
                       ELSE Count(raw, reader.ad, d)]]
  /\ UNCHANGED <<today, ads, raw, daily, scanned, lastRun, visited>>

Answered == reader.ad # null /\ reader.daily # null /\ reader.raw # null

answer ==
  /\ Answered
  /\ reader' = Reading("stats", null, 1, 0)
  /\ UNCHANGED <<today, ads, raw, daily, scanned, lastRun, visited>>

(* What the weekly statistics show for a day.                              *)
getViewStats(d) == reader.daily[d] + reader.raw[d]

(* The larger of the two, as if both were about the same visitors.         *)
viewsToday ==
  IF reader.daily[reader.day] > reader.raw[reader.day]
  THEN reader.daily[reader.day] ELSE reader.raw[reader.day]

(* What the counters say of all time, answered in one instant.             *)
viewsTotal(a) ==
  LET SumTo[d \in 0 .. MaxDay] ==
        IF d = 0 THEN 0 ELSE SumTo[d - 1] + daily[a][d]
  IN  SumTo[MaxDay] + IF daily[a][today] # 0 THEN 0 ELSE Count(raw, a, today)

-----------------------------------------------------------------------------
(* The rest of the world.                                                  *)

(* The ad is deleted by its owner or by the purge; its views go with it.   *)
removeAd(a) ==
  /\ a \in ads
  /\ ads' = ads \ {a}
  /\ raw' = {v \in raw : v[1] # a}
  /\ visited' = {v \in visited : v[1] # a}
  /\ daily' = [daily EXCEPT ![a] = [d \in Days |-> 0]]
  /\ UNCHANGED <<today, scanned, lastRun, reader>>

(* The process dies: the worker and the reader are forgotten.              *)
crash ==
  /\ scanned # {} \/ reader.ad # null
  /\ scanned' = {}
  /\ reader' = Reading("stats", null, 1, 0)
  /\ UNCHANGED <<today, ads, raw, daily, lastRun, visited>>

(* The next day comes long after the worker is through.                    *)
NextDay ==
  /\ today < MaxDay
  /\ scanned = {}
  /\ today' = today + 1
  /\ UNCHANGED <<ads, raw, daily, scanned, lastRun, reader, visited>>

RollupStep ==
  \E a \in Ads, d \in Days : rollUp(a, d) \/ rollUpFails(a, d)

ReaderStep ==
  \/ \E kind \in {"stats", "counters"}, a \in Ads : ask(kind, a)
  \/ readDaily
  \/ readRaw
  \/ answer

Next ==
  \/ \E a \in Ads, v \in Viewers : recordView(a, v)
  \/ rollupViews
  \/ RollupStep
  \/ ReaderStep
  \/ \E a \in Ads : removeAd(a)
  \/ crash
  \/ NextDay

Spec == Init /\ [][Next]_vars

(* The nights come, readers are answered, the worker runs and gets through *)
(* its groups.  A transaction that is tried night after night does not     *)
(* fail, and is not cut off by a crash, every single time.                 *)
Fairness ==
  /\ WF_vars(NextDay)
  /\ WF_vars(readDaily) /\ WF_vars(readRaw) /\ WF_vars(answer)
  /\ WF_vars(rollupViews)
  /\ WF_vars(RollupStep)
  /\ \A a \in Ads, d \in Days : SF_vars(rollUp(a, d))

FairSpec == Spec /\ Fairness

-----------------------------------------------------------------------------
(* Properties.                                                             *)

(* The sums and the rows that are left always add up to the visitors of    *)
(* each day: no night that was skipped, cut short or repeated loses a      *)
(* visitor or counts one twice, nor does a visitor around midnight.        *)
CountsEveryVisitorOnce ==
  \A a \in ads, d \in Days :
    daily[a][d] + Count(raw, a, d) = Count(visited, a, d)

(* Whatever happens while the queries of an answer are under way, what it  *)
(* says of the day it was asked on lies between the visitors there were    *)
(* when it was asked and those there are now.                              *)
TodayIsExact ==
  Answered /\ reader.ad \in ads =>
    LET shown == IF reader.kind = "stats" THEN getViewStats(reader.day)
                 ELSE viewsToday
    IN  shown \in reader.before .. Count(visited, reader.ad, reader.day)

(* "The number of views of all time": the counter is the number of views   *)
(* the ad has had.                                                         *)
TotalIsOfAllTime ==
  \A a \in ads : viewsTotal(a) = Cardinality({v \in visited : v[1] = a})

(* Every row of a past day is rolled up some night, also when nights were  *)
(* skipped: the table of single views does not grow for ever.              *)
EventuallyRolledUp ==
  \A a \in Ads, v \in Viewers, d \in 1 .. MaxDay - 1 :
    (<<a, v, d>> \in raw) ~> (<<a, v, d>> \notin raw)
=============================================================================
