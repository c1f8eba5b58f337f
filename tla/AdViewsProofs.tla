---------------------------- MODULE AdViewsProofs ----------------------------
(* What holds of AdViews for any number of ads, visitors and days.         *)
EXTENDS AdViews, FiniteSetTheorems, TLAPS

-----------------------------------------------------------------------------
(* The inductive invariant.                                                *)

(* The worker deals with days before its last run only, and what it has    *)
(* read of an ad that still exists is still there to be deleted.           *)
WorkerSound ==
  /\ lastRun <= today
  /\ raw \subseteq visited
  /\ \A v \in scanned : v[3] < lastRun /\ (v[1] \in ads => v \in raw)
  /\ \A a \in Ads, d \in Days : d >= lastRun => daily[a][d] = 0

(* What an answer has been told so far of the day it was asked on.         *)
ReaderSound ==
  reader.ad \in ads =>
    LET q == reader
        now == Count(visited, q.ad, q.day)
    IN  /\ q.day >= lastRun
        /\ q.before <= now
        /\ q.daily # null => q.daily[q.day] = 0
        /\ q.raw # null => q.raw[q.day] \in q.before .. now

IInv == TypeOK /\ WorkerSound /\ ReaderSound /\ CountsEveryVisitorOnce

-----------------------------------------------------------------------------
(* Counting.                                                               *)

LEMMA CountType ==
  ASSUME NEW V \in SUBSET View, NEW a, NEW d
  PROVE  IsFiniteSet(Of(V, a, d)) /\ Count(V, a, d) \in Nat
<1> DEFINE row == [v \in Viewers |-> <<a, v, d>>]
           all == {<<a, v, d>> : v \in Viewers}
<1>1. row \in Surjection(Viewers, all)
  BY DEF Surjection
<1>2. IsFiniteSet(all)
  BY <1>1, FS_Surjection, AdViewsAssumption
<1>3. Of(V, a, d) \in SUBSET all
  BY DEF Of, View
<1> HIDE DEF all
<1>4. IsFiniteSet(Of(V, a, d))
  BY <1>2, <1>3, FS_Subset
<1> QED
  BY <1>4, FS_CardinalityType DEF Count

LEMMA CountGrows ==
  ASSUME NEW W \in SUBSET View, NEW V \in SUBSET W, NEW a, NEW d
  PROVE  /\ Count(V, a, d) <= Count(W, a, d)
         /\ Count(V, a, d) = Count(W, a, d) => Of(V, a, d) = Of(W, a, d)
<1>1. IsFiniteSet(Of(W, a, d))
  BY CountType
<1>2. Of(V, a, d) \in SUBSET Of(W, a, d)
  BY DEF Of
<1> QED
  BY <1>1, <1>2, FS_Subset DEF Count

LEMMA CountShrinks ==
  ASSUME NEW W \in SUBSET View, NEW V \in SUBSET View, NEW a, NEW d,
         Of(V, a, d) \subseteq W
  PROVE  Count(W \ Of(V, a, d), a, d) = Count(W, a, d) - Cardinality(Of(V, a, d))
<1>1. IsFiniteSet(Of(W, a, d))
  BY CountType
<1>2. Of(W \ Of(V, a, d), a, d) = Of(W, a, d) \ Of(V, a, d)
  BY DEF Of
<1>3. Of(W, a, d) \cap Of(V, a, d) = Of(V, a, d)
  BY DEF Of
<1> QED
  BY <1>1, <1>2, <1>3, FS_Difference DEF Count

LEMMA CountEmpty ==
  ASSUME NEW a, NEW d
  PROVE  Count({}, a, d) = 0
<1>1. Of({}, a, d) = {}
  BY DEF Of
<1> QED
  BY <1>1, FS_EmptySet DEF Count

-----------------------------------------------------------------------------
(* Readers: more visitors and earlier sums do not make an answer wrong.    *)

LEMMA ReaderKept ==
  ASSUME IInv, reader' = reader, ads' \subseteq ads, lastRun' = lastRun,
         visited' \in SUBSET View,
         \A v \in visited : v[1] \in ads' => v \in visited'
  PROVE  ReaderSound'
<1> SUFFICES ASSUME reader.ad \in ads'
             PROVE  ReaderSound'
  BY DEF ReaderSound
<1> DEFINE a == reader.ad
           d == reader.day
<1>1. Count(visited, a, d) <= Count(visited', a, d)
  <2>1. Of(visited, a, d) \in SUBSET Of(visited', a, d)
    BY DEF Of
  <2>2. IsFiniteSet(Of(visited', a, d))
    BY CountType
  <2> QED
    BY <2>1, <2>2, FS_Subset DEF Count
<1>2. Count(visited, a, d) \in Nat /\ Count(visited', a, d) \in Nat
  BY CountType DEF IInv, TypeOK
<1>3. reader.before \in Nat
  BY DEF IInv, TypeOK, Reader
<1> QED
  BY <1>1, <1>2, <1>3 DEF IInv, ReaderSound

-----------------------------------------------------------------------------
(* Steps.                                                                  *)

(* Nobody whose visit of that day is stored comes as a new visitor, as     *)
(* nothing of that day has been rolled up.                                 *)
LEMMA ViewKeeps ==
  ASSUME IInv, NEW a \in Ads, NEW v \in Viewers, recordView(a, v)
  PROVE  IInv'
<1>1. PICK d \in Days :
        /\ d = today \/ (lastRun < today /\ d = today - 1)
        /\ raw' = raw \cup {<<a, v, d>>}
        /\ visited' = visited \cup {<<a, v, d>>}
  BY DEF recordView
<1> DEFINE new == <<a, v, d>>
<1>2. new \in View
  BY DEF View
<1>3. TypeOK'
  BY <1>1, <1>2 DEF IInv, TypeOK, recordView
<1>4. d >= lastRun
  BY <1>1 DEF IInv, TypeOK, WorkerSound, Days
<1>5. daily[a][d] = 0
  BY <1>4 DEF IInv, WorkerSound
<1>6. WorkerSound'
  BY <1>1 DEF IInv, WorkerSound, recordView
<1>7. ReaderSound'
  <2>1. visited' \in SUBSET View
    BY <1>3 DEF TypeOK
  <2> QED
    BY <1>1, <2>1, ReaderKept DEF recordView
<1>8. Of(raw, a, d) = Of(visited, a, d)
  <2>1. Count(raw, a, d) = Count(visited, a, d)
    BY <1>5, CountType DEF IInv, CountsEveryVisitorOnce, TypeOK, recordView
  <2> QED
    BY <2>1, CountGrows DEF IInv, TypeOK, WorkerSound
<1>9. CountsEveryVisitorOnce'
  <2> SUFFICES ASSUME NEW b \in ads, NEW e \in Days
               PROVE  daily[b][e] + Count(raw', b, e) = Count(visited', b, e)
    BY DEF CountsEveryVisitorOnce, recordView
  <2>1. CASE b = a /\ e = d
    <3>1. Of(raw', a, d) = Of(raw, a, d) \cup {new}
      BY <1>1 DEF Of
    <3>2. Of(visited', a, d) = Of(visited, a, d) \cup {new}
      BY <1>1 DEF Of
    <3>3. Count(raw', a, d) = Count(visited', a, d)
      BY <1>8, <3>1, <3>2 DEF Count
    <3>4. Count(raw', a, d) \in Nat
      BY <1>3, CountType DEF TypeOK
    <3> QED
      BY <1>5, <2>1, <3>3, <3>4
  <2>2. CASE ~(b = a /\ e = d)
    <3>1. Of(raw', b, e) = Of(raw, b, e)
      BY <1>1, <2>2 DEF Of
    <3>2. Of(visited', b, e) = Of(visited, b, e)
      BY <1>1, <2>2 DEF Of
    <3> QED
      BY <3>1, <3>2 DEF Count, IInv, CountsEveryVisitorOnce
  <2> QED
    BY <2>1, <2>2
<1> QED
  BY <1>3, <1>6, <1>7, <1>9 DEF IInv

LEMMA ScanKeeps ==
  ASSUME IInv, rollupViews
  PROVE  IInv'
<1>1. TypeOK'
  BY DEF IInv, TypeOK, rollupViews, staleViews, Days
<1>2. lastRun <= today /\ lastRun \in Nat /\ today \in Nat
  BY DEF IInv, TypeOK, WorkerSound, Days
<1>3. WorkerSound'
  <2>1. \A d \in Days : d >= today => d >= lastRun
    BY <1>2 DEF Days
  <2> QED
    BY <1>2, <2>1 DEF IInv, TypeOK, WorkerSound, rollupViews, staleViews
<1>4. ReaderSound'
  <2> SUFFICES ASSUME reader.ad \in ads
               PROVE  ReaderSound'
    BY DEF ReaderSound, rollupViews
  <2>1. reader.day = today
    BY AdViewsAssumption DEF rollupViews, IInv, TypeOK
  <2> QED
    BY <1>2, <2>1 DEF IInv, ReaderSound, rollupViews
<1>5. CountsEveryVisitorOnce'
  BY DEF IInv, CountsEveryVisitorOnce, rollupViews
<1> QED
  BY <1>1, <1>3, <1>4, <1>5 DEF IInv

(* The sum grows by exactly the rows that go.                              *)
LEMMA RollUpKeeps ==
  ASSUME IInv, NEW a \in Ads, NEW d \in Days, rollUp(a, d)
  PROVE  IInv'
<1> DEFINE group == Of(scanned, a, d)
           n == Cardinality(group)
<1>1. n \in Nat
  BY CountType DEF Count, IInv, TypeOK
<1>2. group \subseteq raw
  BY DEF Of, IInv, WorkerSound, rollUp
<1>3. /\ daily' = [daily EXCEPT ![a][d] = @ + n]
      /\ raw' = raw \ group
      /\ scanned' = scanned \ group
  BY DEF rollUp
<1>4. d < lastRun
  BY DEF Of, IInv, WorkerSound, rollUp
<1> HIDE DEF n
<1>5. TypeOK'
  BY <1>1, <1>3 DEF IInv, TypeOK, rollUp
<1>6. WorkerSound'
  <2>1. \A w \in scanned' : w[3] < lastRun' /\ (w[1] \in ads' => w \in raw')
    BY <1>3 DEF IInv, WorkerSound, rollUp
  <2>2. \A b \in Ads, e \in Days : e >= lastRun => daily'[b][e] = 0
    <3> SUFFICES ASSUME NEW b \in Ads, NEW e \in Days, e >= lastRun
                 PROVE  daily'[b][e] = 0
      OBVIOUS
    <3>1. e # d
      BY <1>4 DEF IInv, TypeOK, Days
    <3> QED
      BY <1>3, <3>1 DEF IInv, TypeOK, WorkerSound
  <2> QED
    BY <1>3, <2>1, <2>2 DEF IInv, WorkerSound, rollUp
<1>7. ReaderSound'
  BY ReaderKept DEF rollUp, IInv, TypeOK
<1>8. CountsEveryVisitorOnce'
  <2> SUFFICES ASSUME NEW b \in ads, NEW e \in Days
               PROVE  daily'[b][e] + Count(raw', b, e) = Count(visited, b, e)
    BY DEF CountsEveryVisitorOnce, rollUp
  <2>1. daily[b][e] + Count(raw, b, e) = Count(visited, b, e)
    BY DEF IInv, CountsEveryVisitorOnce
  <2>2. daily[b][e] \in Nat /\ Count(raw, b, e) \in Nat
    BY CountType DEF IInv, TypeOK
  <2>3. CASE b = a /\ e = d
    <3>1. Count(raw', a, d) = Count(raw, a, d) - n
      BY <1>2, <1>3, CountShrinks DEF IInv, TypeOK, n
    <3>2. daily'[a][d] = daily[a][d] + n
      BY <1>3 DEF IInv, TypeOK
    <3> QED
      BY <1>1, <2>1, <2>2, <2>3, <3>1, <3>2
  <2>4. CASE ~(b = a /\ e = d)
    <3>1. Of(raw', b, e) = Of(raw, b, e)
      BY <1>3, <2>4 DEF Of
    <3>2. daily'[b][e] = daily[b][e]
      BY <1>3, <2>4 DEF IInv, TypeOK
    <3> QED
      BY <2>1, <3>1, <3>2 DEF Count
  <2> QED
    BY <2>3, <2>4
<1> QED
  BY <1>5, <1>6, <1>7, <1>8 DEF IInv

LEMMA RemoveKeeps ==
  ASSUME IInv, NEW a \in Ads, removeAd(a)
  PROVE  IInv'
<1>1. TypeOK'
  BY DEF IInv, TypeOK, removeAd, Days
<1>2. WorkerSound'
  BY DEF IInv, TypeOK, WorkerSound, removeAd
<1>3. ReaderSound'
  <2>1. visited' \in SUBSET View
    BY <1>1 DEF TypeOK
  <2>2. \A v \in visited : v[1] \in ads' => v \in visited'
    BY DEF removeAd
  <2> QED
    BY <2>1, <2>2, ReaderKept DEF removeAd
<1>4. CountsEveryVisitorOnce'
  <2> SUFFICES ASSUME NEW b \in ads', NEW e \in Days
               PROVE  daily'[b][e] + Count(raw', b, e) = Count(visited', b, e)
    BY DEF CountsEveryVisitorOnce
  <2>1. b \in ads /\ b # a
    BY DEF removeAd
  <2>2. Of(raw', b, e) = Of(raw, b, e)
    BY <2>1 DEF Of, removeAd
  <2>3. Of(visited', b, e) = Of(visited, b, e)
    BY <2>1 DEF Of, removeAd
  <2>4. daily'[b][e] = daily[b][e]
    BY <2>1 DEF removeAd, IInv, TypeOK
  <2> QED
    BY <2>1, <2>2, <2>3, <2>4 DEF Count, IInv, CountsEveryVisitorOnce
<1> QED
  BY <1>1, <1>2, <1>3, <1>4 DEF IInv

(* Nothing is asked, or what was asked is forgotten.                       *)
LEMMA NotReading ==
  ASSUME IInv, reader' = Reading("stats", null, 1, 0), ads' = ads
  PROVE  reader' \in Reader /\ ReaderSound'
<1>1. null \notin ads
  BY AdViewsAssumption DEF IInv, TypeOK
<1> QED
  BY <1>1, AdViewsAssumption DEF Reading, Reader, ReaderSound, Days

LEMMA AskKeeps ==
  ASSUME IInv, NEW kind \in {"stats", "counters"}, NEW a \in Ads, ask(kind, a)
  PROVE  reader' \in Reader /\ ReaderSound'
<1>1. Count(visited, a, today) \in Nat
  BY CountType DEF IInv, TypeOK
<1>2. reader' = Reading(kind, a, today, Count(visited, a, today))
  BY DEF ask
<1>3. reader' \in Reader
  BY <1>1, <1>2 DEF Reading, Reader, IInv, TypeOK
<1>4. lastRun <= today /\ today \in Nat /\ lastRun \in Nat
  BY DEF IInv, WorkerSound, TypeOK, Days
<1>5. ReaderSound'
  BY <1>1, <1>2, <1>4 DEF Reading, ReaderSound, ask
<1> QED
  BY <1>3, <1>5

LEMMA ReadDailyKeeps ==
  ASSUME IInv, readDaily
  PROVE  reader' \in Reader /\ ReaderSound'
<1>1. reader.ad \in Ads /\ reader \in Reader
  BY DEF IInv, TypeOK, Reader, readDaily
<1>2. daily[reader.ad] \in [Days -> Nat]
  BY <1>1 DEF IInv, TypeOK
<1>3. reader' \in Reader
  BY <1>1, <1>2 DEF Reader, readDaily
<1>4. ReaderSound'
  <2> SUFFICES ASSUME reader.ad \in ads
               PROVE  ReaderSound'
    BY <1>1 DEF ReaderSound, readDaily, Reader
  <2>1. reader.day \in Days /\ reader.day >= lastRun
    BY <1>1 DEF IInv, ReaderSound, Reader
  <2>2. daily[reader.ad][reader.day] = 0
    BY <1>1, <2>1 DEF IInv, WorkerSound
  <2> QED
    BY <1>1, <2>2 DEF IInv, ReaderSound, readDaily, Reader
<1> QED
  BY <1>3, <1>4

LEMMA ReadRawKeeps ==
  ASSUME IInv, readRaw
  PROVE  reader' \in Reader /\ ReaderSound'
<1> DEFINE a == reader.ad
           d == reader.day
           seen == [e \in Days |-> IF reader.kind = "counters" /\ e # reader.day
                                   THEN 0 ELSE Count(raw, reader.ad, e)]
<1>1. a \in Ads /\ reader \in Reader
  BY DEF IInv, TypeOK, Reader, readRaw
<1>2. \A e \in Days : Count(raw, a, e) \in Nat /\ Count(visited, a, e) \in Nat
  BY CountType DEF IInv, TypeOK
<1>3. seen \in [Days -> Nat]
  BY <1>2
<1>4. reader' = [reader EXCEPT !.raw = seen]
  BY DEF readRaw
<1>5. d \in Days /\ seen[d] = Count(raw, a, d)
  BY <1>1 DEF Reader
<1> HIDE DEF seen
<1>6. reader' \in Reader
  BY <1>1, <1>3, <1>4 DEF Reader
<1>7. ReaderSound'
  <2> SUFFICES ASSUME a \in ads
               PROVE  ReaderSound'
    BY <1>1, <1>4 DEF ReaderSound, readRaw, Reader
  <2>1. daily[a][d] = 0
    BY <1>1, <1>5 DEF IInv, WorkerSound, ReaderSound
  <2>2. seen[d] = Count(visited, a, d)
    BY <1>2, <1>5, <2>1 DEF IInv, CountsEveryVisitorOnce
  <2>3. reader.before \in Nat
    BY <1>1 DEF Reader
  <2> QED
    BY <1>1, <1>2, <1>4, <1>5, <2>2, <2>3 DEF IInv, ReaderSound, readRaw, Reader
<1> QED
  BY <1>6, <1>7

(* A step of the reader, or of the clock, touches no view.                 *)
LEMMA ReadingKeeps ==
  ASSUME IInv, reader' \in Reader, ReaderSound',
         today' \in Days, today' >= today,
         scanned' \in {scanned, {}},
         UNCHANGED <<ads, raw, daily, lastRun, visited>>
  PROVE  IInv'
<1>1. TypeOK'
  BY DEF IInv, TypeOK
<1>2. lastRun' <= today'
  BY DEF IInv, TypeOK, WorkerSound, Days
<1>3. WorkerSound'
  BY <1>2 DEF IInv, WorkerSound
<1>4. CountsEveryVisitorOnce'
  BY DEF IInv, CountsEveryVisitorOnce
<1> QED
  BY <1>1, <1>3, <1>4 DEF IInv

LEMMA InitSound == Init => IInv
<1> SUFFICES ASSUME Init PROVE IInv
  OBVIOUS
<1>1. 1 \in Days
  BY AdViewsAssumption DEF Days
<1>2. TypeOK
  BY <1>1, AdViewsAssumption DEF Init, TypeOK, Reader, Reading
<1>3. WorkerSound
  BY DEF Init, WorkerSound
<1>4. ReaderSound
  BY AdViewsAssumption DEF Init, ReaderSound, Reading
<1>5. CountsEveryVisitorOnce
  BY CountEmpty DEF Init, CountsEveryVisitorOnce
<1> QED
  BY <1>2, <1>3, <1>4, <1>5 DEF IInv

LEMMA StepSound == IInv /\ [Next]_vars => IInv'
<1> SUFFICES ASSUME IInv, [Next]_vars PROVE IInv'
  OBVIOUS
<1>0. today \in Days /\ today >= today /\ reader \in Reader
  BY DEF IInv, TypeOK, Days
<1>1. ASSUME NEW a \in Ads, NEW v \in Viewers, recordView(a, v) PROVE IInv'
  BY <1>1, ViewKeeps
<1>2. CASE rollupViews
  BY <1>2, ScanKeeps
<1>3. CASE RollupStep
  <2>1. PICK a \in Ads, d \in Days : rollUp(a, d) \/ rollUpFails(a, d)
    BY <1>3 DEF RollupStep
  <2>2. CASE rollUp(a, d)
    BY <2>2, RollUpKeeps
  <2>3. CASE rollUpFails(a, d)
    <3>1. TypeOK'
      BY <2>3 DEF IInv, TypeOK, rollUpFails
    <3>2. WorkerSound'
      BY <2>3 DEF IInv, WorkerSound, rollUpFails
    <3>3. ReaderSound'
      BY <2>3, ReaderKept DEF rollUpFails, IInv, TypeOK
    <3>4. CountsEveryVisitorOnce'
      BY <2>3 DEF IInv, CountsEveryVisitorOnce, rollUpFails
    <3> QED
      BY <3>1, <3>2, <3>3, <3>4 DEF IInv
  <2> QED
    BY <2>1, <2>2, <2>3
<1>4. CASE ReaderStep
  <2>1. reader' \in Reader /\ ReaderSound'
    <3>1. ASSUME NEW kind \in {"stats", "counters"}, NEW a \in Ads, ask(kind, a)
          PROVE  reader' \in Reader /\ ReaderSound'
      BY <3>1, AskKeeps
    <3>2. CASE answer
      BY <3>2, NotReading DEF answer
    <3> QED
      BY <1>4, <3>1, <3>2, ReadDailyKeeps, ReadRawKeeps DEF ReaderStep
  <2>2. UNCHANGED <<today, ads, raw, daily, scanned, lastRun, visited>>
    BY <1>4 DEF ReaderStep, ask, readDaily, readRaw, answer
  <2> QED
    BY <1>0, <2>1, <2>2, ReadingKeeps
<1>5. ASSUME NEW a \in Ads, removeAd(a) PROVE IInv'
  BY <1>5, RemoveKeeps
<1>6. CASE crash
  BY <1>0, <1>6, NotReading, ReadingKeeps DEF crash
<1>7. CASE NextDay
  <2>1. today' \in Days /\ today' >= today
    BY <1>7, AdViewsAssumption DEF NextDay, IInv, TypeOK, Days
  <2>2. ReaderSound'
    BY <1>7 DEF NextDay, IInv, ReaderSound
  <2> QED
    BY <1>0, <1>7, <2>1, <2>2, ReadingKeeps DEF NextDay
<1>8. CASE UNCHANGED vars
  BY <1>8 DEF vars, IInv, TypeOK, WorkerSound, ReaderSound, CountsEveryVisitorOnce
<1> QED
  BY <1>1, <1>2, <1>3, <1>4, <1>5, <1>6, <1>7, <1>8 DEF Next

(* The inductive invariant: nothing of a day is rolled up before the day   *)
(* is over for good, and what the worker has read is still there.          *)
THEOREM InductiveInvariant == Spec => []IInv
  BY InitSound, StepSound, PTL DEF Spec

(* Types.                                                                  *)
THEOREM TypeCorrect == Spec => []TypeOK
<1>1. IInv => TypeOK
  BY DEF IInv
<1> QED
  BY <1>1, InductiveInvariant, PTL

(* rollupViews and recordView lose nobody and count nobody twice, whatever *)
(* nights are skipped, groups fail or processes die.                       *)
THEOREM NobodyLost == Spec => []CountsEveryVisitorOnce
<1>1. IInv => CountsEveryVisitorOnce
  BY DEF IInv
<1> QED
  BY <1>1, InductiveInvariant, PTL

(* getViewStats and getCounters tell the truth about the current day, even *)
(* when the worker commits between their queries.                          *)
THEOREM TodayAnswered == Spec => []TodayIsExact
<1>1. IInv => TodayIsExact
  <2> SUFFICES ASSUME IInv, Answered, reader.ad \in ads
               PROVE  TodayIsExact
    BY DEF TodayIsExact
  <2> DEFINE now == Count(visited, reader.ad, reader.day)
  <2>1. reader.before \in Nat /\ reader \in Reader
    BY DEF IInv, TypeOK, Reader
  <2>2. now \in Nat
    BY CountType DEF IInv, TypeOK
  <2>3. /\ reader.daily[reader.day] = 0
        /\ reader.raw[reader.day] \in reader.before .. now
    BY DEF IInv, ReaderSound, Answered
  <2> QED
    BY <2>1, <2>2, <2>3 DEF TodayIsExact, getViewStats, viewsToday
<1> QED
  BY <1>1, InductiveInvariant, PTL
=============================================================================
