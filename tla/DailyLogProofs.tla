--------------------------- MODULE DailyLogProofs ----------------------------
(***************************************************************************)
(* Proofs about the daily log: types, the record, the freeze limit and the *)
(* closing of past days, for every number of requests, days and months.    *)
(* Every step either leaves the streak alone or writes a row that a        *)
(* request computed earlier, so each fact about the streak is proved of    *)
(* the rows in hand at the same time.                                      *)
(***************************************************************************)
EXTENDS DailyLog, FiniteSetTheorems, TLAPS

\* The freezes in hand: a request that is about to count one has room for it.
FreezesInHand ==
    /\ streak.freezes <= MaxFreezes
    /\ \A s \in LogSlot :
         /\ lreq[s].row.freezes <= MaxFreezes
         /\ lreq[s].step = "entry" => lreq[s].row.freezes < MaxFreezes

-----------------------------------------------------------------------------
(* What a step may do to the requests and to the streak.                   *)

LEMMA RowsAreRows ==
  ASSUME DailyLogTypeOK
  PROVE  /\ MonthOf[today] \in Nat
         /\ Refreshed \in StreakRow
         /\ Refreshed.current = streak.current
         /\ Refreshed.best = streak.best
         /\ Refreshed.freezes \in {streak.freezes, 0}
<1> USE DailyLogAssumption
<1>1. MonthOf[today] \in Nat
  BY DEF DailyLogTypeOK
<1>2. streak \in StreakRow
  BY DEF DailyLogTypeOK
<1> QED
  BY <1>1, <1>2 DEF Refreshed, StreakRow

LEMMA NextRowsAreRows ==
  ASSUME DailyLogTypeOK, NEW row \in StreakRow
  PROVE  /\ Advanced(row) \in StreakRow
         /\ Frozen(row) \in StreakRow
         /\ Broken(row) \in StreakRow
         /\ row.current <= row.best =>
              Advanced(row).current <= Advanced(row).best
<1>1. MonthOf[today] \in Nat
  BY RowsAreRows
<1> QED
  BY <1>1 DEF Advanced, Frozen, Broken, StreakRow

LEMMA RequestsAreRequests ==
  ASSUME NEW step \in {"idle", "streak", "entry", "write"}, NEW d \in Day,
         NEW status \in EntryStatus, NEW counted \in BOOLEAN, NEW row \in StreakRow
  PROVE  Request(step, d, status, counted, row) \in LogRequest
BY DEF Request, LogRequest

LEMMA IdleIsRequest == IdleLogRequest \in LogRequest
<1>1. 0 \in Day
  BY DailyLogAssumption DEF Day
<1>2. ZeroStreak \in StreakRow /\ "logged" \in EntryStatus
  BY DEF ZeroStreak, StreakRow, EntryStatus
<1> QED
  BY <1>1, <1>2, RequestsAreRequests DEF IdleLogRequest

\* Whatever a submission finds of its day, its request has one shape.
LEMMA SubmitTakesADay ==
  ASSUME NEW s, NEW d, SubmitReadEntry(s, d)
  PROVE  \E known \in BOOLEAN :
           lreq' = [lreq EXCEPT ![s] = Request("streak", d, "logged", known, ZeroStreak)]
<1> DEFINE found == entries[d] \in {"logged", "frozen"}
<1>1. found \in BOOLEAN
  OBVIOUS
<1>2. \/ lreq' = [lreq EXCEPT ![s] = Request("streak", d, "logged", found, ZeroStreak)]
      \/ lreq' = [lreq EXCEPT ![s] = Request("streak", d, "logged", FALSE, ZeroStreak)]
  BY DEF SubmitReadEntry
<1> HIDE DEF found
<1> QED
  BY <1>1, <1>2

-----------------------------------------------------------------------------
(* Type correctness.                                                       *)
THEOREM DailyLogTyping == DailyLogSpec => []DailyLogTypeOK
<1> USE DailyLogAssumption
<1>1. DailyLogInit => DailyLogTypeOK
  BY IdleIsRequest DEF DailyLogInit, DailyLogTypeOK, Day, StreakRow, ZeroStreak
<1>2. ASSUME DailyLogTypeOK, [DailyLogNext]_logVars
      PROVE  DailyLogTypeOK'
  <2> USE DEF DailyLogTypeOK
  <2>0. ASSUME NEW s \in LogSlot, NEW r \in LogRequest,
               lreq' = [lreq EXCEPT ![s] = r],
               recounts' \in Nat,
               UNCHANGED <<today, entries, streak, rolledOver>>
        PROVE  DailyLogTypeOK'
    BY <1>2, <2>0
  <2>1. ASSUME NEW s \in LogSlot, NEW r \in LogRequest,
               lreq' = [lreq EXCEPT ![s] = r],
               UNCHANGED <<today, entries, streak, recounts, rolledOver>>
        PROVE  DailyLogTypeOK'
    BY <1>2, <2>1
  <2>2. ASSUME NEW s \in LogSlot, NEW d \in Day, SubmitReadEntry(s, d)
        PROVE  DailyLogTypeOK'
    <3>1. ZeroStreak \in StreakRow /\ "logged" \in EntryStatus
      BY DEF ZeroStreak, StreakRow, EntryStatus
    <3>2. PICK known \in BOOLEAN :
            lreq' = [lreq EXCEPT ![s] = Request("streak", d, "logged", known, ZeroStreak)]
      BY <2>2, SubmitTakesADay
    <3>3. /\ recounts' \in {recounts, recounts + 1}
          /\ UNCHANGED <<today, entries, streak, rolledOver>>
      <4>1. UNCHANGED recounts \/ recounts' = recounts + 1
        BY <2>2, Zenon DEF SubmitReadEntry
      <4>2. UNCHANGED <<today, entries, streak, rolledOver>>
        BY <2>2, Zenon DEF SubmitReadEntry
      <4> QED
        BY <4>1, <4>2
    <3>4. Request("streak", d, "logged", known, ZeroStreak) \in LogRequest
      BY <3>1, RequestsAreRequests
    <3> QED
      BY <1>2, <2>0, <3>2, <3>3, <3>4
  <2>3. ASSUME NEW s \in LogSlot, SubmitReadStreak(s)
        PROVE  DailyLogTypeOK'
    <3>1. lreq[s].day \in Day /\ lreq[s].counted \in BOOLEAN
            /\ "logged" \in EntryStatus
      BY <1>2 DEF LogRequest, EntryStatus
    <3>2. (IF lreq[s].counted THEN Refreshed ELSE Advanced(Refreshed)) \in StreakRow
      BY <1>2, RowsAreRows, NextRowsAreRows
    <3> QED
      BY <2>1, <2>3, <3>1, <3>2, RequestsAreRequests DEF SubmitReadStreak
  <2>4. ASSUME NEW s \in LogSlot, NEW d \in Day, FreezeReadStreak(s, d)
        PROVE  DailyLogTypeOK'
    <3>1. Refreshed \in StreakRow /\ "frozen" \in EntryStatus
      BY <1>2, RowsAreRows DEF EntryStatus
    <3> QED
      BY <2>1, <2>4, <3>1, RequestsAreRequests DEF FreezeReadStreak
  <2>5. ASSUME NEW s \in LogSlot, FreezeReadEntry(s)
        PROVE  DailyLogTypeOK'
    <3>1. lreq[s].day \in Day /\ lreq[s].row \in StreakRow /\ "frozen" \in EntryStatus
      BY <1>2 DEF LogRequest, EntryStatus
    <3>2. Frozen(lreq[s].row) \in StreakRow
      BY <1>2, <3>1, NextRowsAreRows
    <3> QED
      BY <2>1, <2>5, <3>1, <3>2, RequestsAreRequests, IdleIsRequest
         DEF FreezeReadEntry, EndLogRequest
  <2>6. ASSUME NEW s \in LogSlot, NEW d \in Day, SkipReadStreak(s, d)
        PROVE  DailyLogTypeOK'
    <3>1. Broken(streak) \in StreakRow /\ "skipped" \in EntryStatus
      BY <1>2, NextRowsAreRows DEF EntryStatus
    <3> QED
      BY <2>1, <2>6, <3>1, RequestsAreRequests DEF SkipReadStreak
  <2>7. ASSUME NEW s \in LogSlot, UpsertEntryAndStreak(s)
        PROVE  DailyLogTypeOK'
    <3>1. lreq[s].day \in Day /\ lreq[s].status \in EntryStatus
            /\ lreq[s].row \in StreakRow
      BY <1>2 DEF LogRequest
    <3> QED
      BY <1>2, <2>7, <3>1, IdleIsRequest DEF UpsertEntryAndStreak, EndLogRequest
  <2>8. ASSUME NEW s \in LogSlot, LogRequestFails(s)
        PROVE  DailyLogTypeOK'
    BY <2>1, <2>8, IdleIsRequest DEF LogRequestFails, EndLogRequest
  <2>9. CASE DayRollover
    BY <1>2, <2>9 DEF DayRollover
  <2>10. CASE Midnight
    BY <1>2, <2>10 DEF Midnight, Day
  <2>11. CASE UNCHANGED logVars
    BY <1>2, <2>11 DEF logVars
  <2> QED
    BY <1>2, <2>2, <2>3, <2>4, <2>5, <2>6, <2>7, <2>8, <2>9, <2>10, <2>11
       DEF DailyLogNext
<1> QED
  BY <1>1, <1>2, PTL DEF DailyLogSpec

-----------------------------------------------------------------------------
(* The rows.  A fact about streak rows is kept by every step when it holds *)
(* of the zero row and of the rows a request computes from rows it holds   *)
(* of: the two lemmas say which rows a step may put in hand and which it   *)
(* may store.                                                              *)

LEMMA RowsInHand ==
  ASSUME DailyLogTypeOK, [DailyLogNext]_logVars, NEW s \in LogSlot
  PROVE  \/ lreq'[s] = lreq[s]
         \/ lreq'[s].step # "entry" /\ lreq'[s].row = ZeroStreak
         \/ /\ lreq'[s].step = "write"
            /\ lreq'[s].row \in {Refreshed, Advanced(Refreshed), Broken(streak)}
         \/ /\ lreq'[s].step = "entry"
            /\ lreq'[s].row = Refreshed
            /\ Refreshed.freezes < MaxFreezes
         \/ /\ lreq[s].step = "entry"
            /\ lreq'[s].step = "write"
            /\ lreq'[s].row = Frozen(lreq[s].row)
<1> DEFINE Kept == lreq'[s] = lreq[s]
           Cleared == lreq'[s].step # "entry" /\ lreq'[s].row = ZeroStreak
<1>0. lreq \in [LogSlot -> LogRequest]
  BY DEF DailyLogTypeOK
<1>1. ASSUME NEW t \in LogSlot, EndLogRequest(t) PROVE Kept \/ Cleared
  BY <1>0, <1>1 DEF EndLogRequest, IdleLogRequest, Request
<1>2. ASSUME NEW t \in LogSlot, NEW d \in Day, SubmitReadEntry(t, d)
      PROVE  Kept \/ Cleared
  <2>1. PICK known \in BOOLEAN :
          lreq' = [lreq EXCEPT ![t] = Request("streak", d, "logged", known, ZeroStreak)]
    BY <1>2, SubmitTakesADay
  <2> QED
    BY <1>0, <2>1 DEF Request
<1>3. ASSUME NEW t \in LogSlot, SubmitReadStreak(t)
      PROVE  \/ Kept
             \/ /\ lreq'[s].step = "write"
                /\ lreq'[s].row \in {Refreshed, Advanced(Refreshed)}
  <2> DEFINE row == IF lreq[t].counted THEN Refreshed ELSE Advanced(Refreshed)
  <2>1. row \in {Refreshed, Advanced(Refreshed)}
    OBVIOUS
  <2>2. lreq' = [lreq EXCEPT ![t] =
                   Request("write", lreq[t].day, "logged", lreq[t].counted, row)]
    BY <1>3 DEF SubmitReadStreak
  <2> HIDE DEF row
  <2> QED
    BY <1>0, <2>1, <2>2 DEF Request
<1>4. ASSUME NEW t \in LogSlot, NEW d \in Day, FreezeReadStreak(t, d)
      PROVE  \/ Kept
             \/ /\ lreq'[s].step = "entry"
                /\ lreq'[s].row = Refreshed
                /\ Refreshed.freezes < MaxFreezes
  BY <1>0, <1>4 DEF FreezeReadStreak, Request
<1>5. ASSUME NEW t \in LogSlot, FreezeReadEntry(t)
      PROVE  \/ Kept \/ Cleared
             \/ /\ lreq[s].step = "entry"
                /\ lreq'[s].step = "write"
                /\ lreq'[s].row = Frozen(lreq[s].row)
  <2>1. CASE EndLogRequest(t)
    BY <1>1, <2>1
  <2>2. CASE lreq' = [lreq EXCEPT ![t] = Request("write", lreq[t].day, "frozen",
                                             FALSE, Frozen(lreq[t].row))]
    BY <1>0, <1>5, <2>2 DEF FreezeReadEntry, Request
  <2> QED
    BY <1>5, <2>1, <2>2 DEF FreezeReadEntry
<1>6. ASSUME NEW t \in LogSlot, NEW d \in Day, SkipReadStreak(t, d)
      PROVE  \/ Kept
             \/ lreq'[s].step = "write" /\ lreq'[s].row = Broken(streak)
  BY <1>0, <1>6 DEF SkipReadStreak, Request
<1>7. ASSUME UNCHANGED lreq PROVE Kept
  BY <1>7
<1> HIDE DEF Kept, Cleared
<1>8. Kept \/ Cleared
        \/ /\ lreq'[s].step = "write"
           /\ lreq'[s].row \in {Refreshed, Advanced(Refreshed), Broken(streak)}
        \/ /\ lreq'[s].step = "entry"
           /\ lreq'[s].row = Refreshed
           /\ Refreshed.freezes < MaxFreezes
        \/ /\ lreq[s].step = "entry"
           /\ lreq'[s].step = "write"
           /\ lreq'[s].row = Frozen(lreq[s].row)
  BY <1>1, <1>2, <1>3, <1>4, <1>5, <1>6, <1>7
     DEF DailyLogNext, logVars, UpsertEntryAndStreak, LogRequestFails, DayRollover,
         Midnight
<1> QED
  BY <1>8 DEF Kept, Cleared

LEMMA StoredRows ==
  ASSUME DailyLogTypeOK, [DailyLogNext]_logVars
  PROVE  \/ streak' = streak
         \/ \E s \in LogSlot : lreq[s].step = "write" /\ streak' = lreq[s].row
BY DEF DailyLogNext, logVars, SubmitReadEntry, SubmitReadStreak, FreezeReadStreak,
       FreezeReadEntry, SkipReadStreak, UpsertEntryAndStreak, LogRequestFails,
       DayRollover, Midnight

-----------------------------------------------------------------------------
(* The record is never below the streak.                                   *)
THEOREM Record == DailyLogSpec => []BestIsARecord
<1>1. DailyLogInit => BestIsARecord
  BY DEF DailyLogInit, BestIsARecord, ZeroStreak, IdleLogRequest, Request
<1>2. ASSUME DailyLogTypeOK, BestIsARecord, [DailyLogNext]_logVars
      PROVE  BestIsARecord'
  <2>1. streak \in StreakRow /\ \A s \in LogSlot : lreq[s].row \in StreakRow
    BY <1>2 DEF DailyLogTypeOK, LogRequest
  <2>2. streak'.current <= streak'.best
    BY <1>2, StoredRows DEF BestIsARecord
  <2>3. Refreshed \in StreakRow /\ Refreshed.current <= Refreshed.best
    BY <1>2, RowsAreRows DEF BestIsARecord
  <2>4. Advanced(Refreshed).current <= Advanced(Refreshed).best
    BY <1>2, <2>3, NextRowsAreRows
  <2>5. Broken(streak).current <= Broken(streak).best
    BY <2>1 DEF Broken, StreakRow
  <2>6. ASSUME NEW s \in LogSlot PROVE lreq'[s].row.current <= lreq'[s].row.best
    <3>1. lreq[s].row.current <= lreq[s].row.best
      BY <1>2 DEF BestIsARecord
    <3>2. Frozen(lreq[s].row).current <= Frozen(lreq[s].row).best
      BY <3>1 DEF Frozen
    <3>3. ZeroStreak.current <= ZeroStreak.best
      BY DEF ZeroStreak
    <3> QED
      BY <1>2, <2>3, <2>4, <2>5, <3>1, <3>2, <3>3, RowsInHand
  <2> QED
    BY <2>2, <2>6 DEF BestIsARecord
<1> QED
  BY <1>1, <1>2, DailyLogTyping, PTL DEF DailyLogSpec

-----------------------------------------------------------------------------
(* The monthly limit of the freeze counter.                                *)
THEOREM Freezes == DailyLogSpec => []FreezeLimit
<1> USE DailyLogAssumption
<1>1. DailyLogInit => FreezesInHand
  BY DEF DailyLogInit, FreezesInHand, ZeroStreak, IdleLogRequest, Request
<1>2. ASSUME DailyLogTypeOK, FreezesInHand, [DailyLogNext]_logVars
      PROVE  FreezesInHand'
  <2>1. streak \in StreakRow /\ \A s \in LogSlot : lreq[s].row \in StreakRow
    BY <1>2 DEF DailyLogTypeOK, LogRequest
  <2>2. streak'.freezes <= MaxFreezes
    BY <1>2, StoredRows DEF FreezesInHand
  <2>3. Refreshed \in StreakRow /\ Refreshed.freezes <= MaxFreezes
    BY <1>2, RowsAreRows DEF FreezesInHand
  <2>4. Advanced(Refreshed).freezes <= MaxFreezes /\ Broken(streak).freezes <= MaxFreezes
    BY <1>2, <2>3 DEF Advanced, Broken, FreezesInHand
  <2>5. ASSUME NEW s \in LogSlot
        PROVE  /\ lreq'[s].row.freezes <= MaxFreezes
               /\ lreq'[s].step = "entry" => lreq'[s].row.freezes < MaxFreezes
    <3>1. /\ lreq[s].row.freezes <= MaxFreezes
          /\ lreq[s].step = "entry" => lreq[s].row.freezes < MaxFreezes
      BY <1>2 DEF FreezesInHand
    <3>2. lreq[s].step = "entry" => Frozen(lreq[s].row).freezes <= MaxFreezes
      BY <2>1, <3>1 DEF Frozen, StreakRow
    <3>3. ZeroStreak.freezes <= MaxFreezes
      BY DEF ZeroStreak
    <3> QED
      BY <1>2, <2>3, <2>4, <3>1, <3>2, <3>3, RowsInHand
  <2> QED
    BY <2>2, <2>5 DEF FreezesInHand
<1>3. FreezesInHand => FreezeLimit
  BY DEF FreezesInHand, FreezeLimit
<1> QED
  BY <1>1, <1>2, <1>3, DailyLogTyping, PTL DEF DailyLogSpec

-----------------------------------------------------------------------------
(* A day older than yesterday is closed for good but for a skip.           *)
THEOREM ClosedDays == DailyLogSpec => ClosedDayStaysClosed
<1>1. ASSUME DailyLogTypeOK, [DailyLogNext]_logVars, NEW d \in Day, ClosedDay(d)
      PROVE  ClosedDay(d)' /\ entries'[d] \in {entries[d], "skipped"}
  <2> DEFINE Mine(s) == /\ lreq[s].day = d
                        /\ \/ lreq[s].step \in {"streak", "entry"}
                           \/ lreq[s].step = "write" /\ lreq[s].status # "skipped"
  <2>0. /\ lreq \in [LogSlot -> LogRequest]
        /\ today \in Nat /\ today' \in Nat /\ d \in Nat
        /\ today' \in {today, today + 1}
    <3>1. today \in Nat /\ d \in Nat /\ lreq \in [LogSlot -> LogRequest]
      BY <1>1, DailyLogAssumption DEF DailyLogTypeOK, Day
    <3>2. today' \in {today, today + 1}
      BY <1>1 DEF DailyLogNext, logVars, SubmitReadEntry, SubmitReadStreak,
         FreezeReadStreak, FreezeReadEntry, SkipReadStreak, UpsertEntryAndStreak,
         LogRequestFails, DayRollover, Midnight
    <3> QED
      BY <3>1, <3>2
  <2>1. d + 1 < today /\ d + 1 < today'
    BY <1>1, <2>0 DEF ClosedDay
  <2>2. ~ Loggable(d)
    BY <2>0, <2>1 DEF Loggable
  <2>3. ASSUME NEW s \in LogSlot PROVE ~ Mine(s)
    BY <1>1 DEF ClosedDay, Writing
  <2>4. ASSUME NEW s \in LogSlot PROVE ~ Mine(s)'
    <3>1. ~ Mine(s)
      BY <2>3
    <3>2. ASSUME NEW t \in LogSlot, EndLogRequest(t) PROVE ~ Mine(s)'
      BY <2>0, <3>1, <3>2 DEF EndLogRequest, IdleLogRequest, Request
    <3>3. ASSUME NEW t \in LogSlot, NEW e \in Day, SubmitReadEntry(t, e)
          PROVE  ~ Mine(s)'
      <4>1. PICK known \in BOOLEAN :
              lreq' = [lreq EXCEPT ![t] =
                         Request("streak", e, "logged", known, ZeroStreak)]
        BY <3>3, SubmitTakesADay
      <4>2. e # d
        BY <2>2, <3>3 DEF SubmitReadEntry
      <4> QED
        BY <2>0, <3>1, <4>1, <4>2 DEF Request
    <3>4. ASSUME NEW t \in LogSlot, SubmitReadStreak(t) PROVE ~ Mine(s)'
      <4> DEFINE row == IF lreq[t].counted THEN Refreshed ELSE Advanced(Refreshed)
      <4>1. /\ lreq[t].step = "streak"
            /\ lreq' = [lreq EXCEPT ![t] =
                 Request("write", lreq[t].day, "logged", lreq[t].counted, row)]
        BY <3>4 DEF SubmitReadStreak
      <4> HIDE DEF row
      <4> QED
        BY <2>0, <3>1, <4>1 DEF Request
    <3>5. ASSUME NEW t \in LogSlot, NEW e \in Day, FreezeReadStreak(t, e)
          PROVE  ~ Mine(s)'
      <4>1. e # d
        BY <2>2, <3>5 DEF FreezeReadStreak
      <4> QED
        BY <2>0, <3>1, <3>5, <4>1 DEF FreezeReadStreak, Request
    <3>6. ASSUME NEW t \in LogSlot, FreezeReadEntry(t) PROVE ~ Mine(s)'
      <4>1. lreq[t].step = "entry"
        BY <3>6 DEF FreezeReadEntry
      <4>2. CASE lreq' = [lreq EXCEPT ![t] = Request("write", lreq[t].day, "frozen",
                                                 FALSE, Frozen(lreq[t].row))]
        BY <2>0, <3>1, <4>1, <4>2 DEF Request
      <4> QED
        BY <3>2, <3>6, <4>2 DEF FreezeReadEntry
    <3>7. ASSUME NEW t \in LogSlot, NEW e \in Day, SkipReadStreak(t, e)
          PROVE  ~ Mine(s)'
      BY <2>0, <3>1, <3>7 DEF SkipReadStreak, Request
    <3>8. ASSUME UNCHANGED lreq PROVE ~ Mine(s)'
      BY <3>1, <3>8
    <3> HIDE DEF Mine
    <3> QED
      BY <1>1, <3>2, <3>3, <3>4, <3>5, <3>6, <3>7, <3>8
         DEF DailyLogNext, logVars, UpsertEntryAndStreak, LogRequestFails,
             DayRollover, Midnight
  <2>5. ~ Writing(d)'
    BY <2>4 DEF Writing
  <2>6. ASSUME NEW s \in LogSlot, UpsertEntryAndStreak(s)
        PROVE  entries'[d] \in {entries[d], "skipped"}
    BY <1>1, <2>3, <2>6 DEF UpsertEntryAndStreak, DailyLogTypeOK
  <2>7. ASSUME UNCHANGED entries PROVE entries'[d] \in {entries[d], "skipped"}
    BY <2>7
  <2>8. entries'[d] \in {entries[d], "skipped"}
    BY <1>1, <2>6, <2>7 DEF DailyLogNext, logVars, SubmitReadEntry, SubmitReadStreak,
       FreezeReadStreak, FreezeReadEntry, SkipReadStreak, LogRequestFails,
       DayRollover, Midnight
  <2> QED
    BY <2>1, <2>5, <2>8 DEF ClosedDay
<1>2. DailyLogTypeOK /\ [DailyLogNext]_logVars => [StayClosed]_logVars
  BY <1>1 DEF StayClosed
<1> QED
  BY <1>2, DailyLogTyping, PTL DEF DailyLogSpec, ClosedDayStaysClosed

-----------------------------------------------------------------------------
(* The length of the streak. A write that counts a day closes it, and pays *)
(* for all who have read it as not counted; the invariant charges them as  *)
(* soon as it is closed.                                                   *)

\* The days that a submission finds closed.
Closed == {d \in Day : entries[d] \in {"logged", "frozen"}}

\* The submissions that will count their day, or have counted it in hand.
Pending ==
    {s \in LogSlot :
        /\ ~ lreq[s].counted
        /\ lreq[s].step = "streak" \/ (lreq[s].step = "write" /\ lreq[s].status = "logged")}

\* ... and whose day somebody else has counted.
Due == {s \in Pending : lreq[s].day \in Closed}

\* Every closed day, and every day opened again or misread, may be counted once
\* by each request in flight.
Budget == Cardinality(LogSlot) * (Cardinality(Closed) + recounts)

\* A row in hand, with the counts that are due, is covered by the budget, but
\* for the count that is in the row.
RowCovered(s) ==
    lreq[s].step \in {"entry", "write"} =>
        lreq[s].row.current + Cardinality(Due)
            <= Budget + (IF s \in Pending THEN 1 ELSE 0)

StreakCovered ==
    /\ streak.current + Cardinality(Due) <= Budget
    /\ \A s \in LogSlot : RowCovered(s)

LEMMA DaysAreFinite ==
  ASSUME NEW S \in SUBSET Day
  PROVE  IsFiniteSet(S) /\ Cardinality(S) \in Nat
<1>1. IsFiniteSet(Day)
  BY DailyLogAssumption, FS_Interval DEF Day
<1> QED
  BY <1>1, FS_Subset, FS_CardinalityType

LEMMA SlotsAreFinite ==
  ASSUME NEW S \in SUBSET LogSlot
  PROVE  /\ IsFiniteSet(S) /\ Cardinality(S) \in Nat
         /\ Cardinality(LogSlot) \in Nat /\ Cardinality(S) <= Cardinality(LogSlot)
BY DailyLogAssumption, FS_Subset, FS_CardinalityType

LEMMA FewerSlots ==
  ASSUME NEW S \in SUBSET LogSlot, NEW s \in LogSlot, s \notin S
  PROVE  Cardinality(S) <= Cardinality(LogSlot) - 1
<1>1. Cardinality(LogSlot \ {s}) = Cardinality(LogSlot) - 1
  BY DailyLogAssumption, FS_RemoveElement
<1>2. S \subseteq LogSlot \ {s} /\ IsFiniteSet(LogSlot \ {s})
  BY DailyLogAssumption, FS_Subset
<1> QED
  BY <1>1, <1>2, FS_Subset

LEMMA Times ==
  ASSUME NEW n \in Nat, NEW a \in Nat, NEW b \in Nat
  PROVE  /\ n * a \in Nat
         /\ n * (a + 1) = n * a + n
         /\ a <= b => n * a <= n * b
<1>1. ASSUME a <= b PROVE n * a <= n * b
  <2>1. PICK k \in Nat : b = a + k
    <3>1. b - a \in Nat /\ b = a + (b - a)
      BY <1>1
    <3> QED
      BY <3>1
  <2>2. n * b = n * a + n * k
    BY <2>1
  <2>3. n * k \in Nat
    OBVIOUS
  <2>4. n * a \in Nat
    OBVIOUS
  <2> QED
    BY <2>2, <2>3, <2>4
<1> QED
  BY <1>1

LEMMA CoverTyped ==
  ASSUME DailyLogTypeOK
  PROVE  /\ Due \in SUBSET LogSlot /\ Cardinality(Due) \in Nat
         /\ Closed \in SUBSET Day /\ Cardinality(Closed) \in Nat
         /\ Budget \in Nat /\ Cardinality(LogSlot) \in Nat
         /\ streak.current \in Nat /\ recounts \in Nat
         /\ \A s \in LogSlot : /\ lreq[s].row.current \in Nat /\ lreq[s].row \in StreakRow
                               /\ lreq[s].day \in Day /\ lreq[s] \in LogRequest
<1>1. Due \in SUBSET LogSlot /\ Closed \in SUBSET Day
  BY DEF Due, Pending, Closed
<1>2. recounts \in Nat /\ streak.current \in Nat
  BY DEF DailyLogTypeOK, StreakRow
<1>3. ASSUME NEW s \in LogSlot
      PROVE  /\ lreq[s].row.current \in Nat /\ lreq[s].row \in StreakRow
             /\ lreq[s].day \in Day /\ lreq[s] \in LogRequest
  BY DEF DailyLogTypeOK, LogRequest, StreakRow
<1>4. Cardinality(Due) \in Nat /\ Cardinality(Closed) \in Nat /\ Cardinality(LogSlot) \in Nat
  BY <1>1, DaysAreFinite, SlotsAreFinite
<1>5. Budget \in Nat
  BY <1>2, <1>4, Times DEF Budget
<1> QED
  BY <1>1, <1>2, <1>3, <1>4, <1>5

\* The budget of a step, when a day is closed, reopened, or neither.
LEMMA BudgetMoves ==
  ASSUME NEW n \in Nat, NEW a \in Nat, NEW b \in Nat
  PROVE  /\ a <= b => n * a <= n * b
         /\ b >= a + 1 => n * a + n <= n * b
<1>1. n * (a + 1) = n * a + n /\ a + 1 \in Nat
  BY Times
<1>2. b >= a + 1 => n * (a + 1) <= n * b
  BY <1>1, Times
<1> QED
  BY <1>1, <1>2, Times

\* One row of a request changes, and no day.
LEMMA SameDays ==
  ASSUME DailyLogTypeOK, NEW s \in LogSlot, entries' = entries, recounts' = recounts,
         lreq' = [lreq EXCEPT ![s] = lreq'[s]],
         s \in Pending' => s \in Pending /\ lreq'[s].day = lreq[s].day
  PROVE  Budget' = Budget /\ Cardinality(Due') <= Cardinality(Due)
<1>1. Closed' = Closed
  BY DEF Closed
<1>2. Budget' = Budget
  BY <1>1 DEF Budget
<1>3. \A t \in LogSlot \ {s} : lreq'[t] = lreq[t]
  BY DEF DailyLogTypeOK
<1>4. Due' \subseteq Due
  BY <1>1, <1>3 DEF Due, Pending
<1>5. Due \in SUBSET LogSlot
  BY DEF Due, Pending
<1> QED
  BY <1>2, <1>4, <1>5, SlotsAreFinite, FS_Subset

\* The submission of a closed day that could not be read is due at once.
LEMMA MisreadDay ==
  ASSUME DailyLogTypeOK, NEW s \in LogSlot, entries' = entries,
         recounts' = recounts + 1, lreq' = [lreq EXCEPT ![s] = lreq'[s]]
  PROVE  Cardinality(Due') + Budget <= Budget' + Cardinality(Due)
<1>1. Closed' = Closed
  BY DEF Closed
<1>2. Budget' = Budget + Cardinality(LogSlot)
  <2>1. Budget' = Cardinality(LogSlot) * ((Cardinality(Closed) + recounts) + 1)
    BY <1>1, CoverTyped DEF Budget
  <2>2. Cardinality(Closed) + recounts \in Nat
    BY CoverTyped
  <2> QED
    BY <2>1, <2>2, CoverTyped, Times DEF Budget
<1>3. \A t \in LogSlot \ {s} : lreq'[t] = lreq[t]
  BY DEF DailyLogTypeOK
<1>4. Due' \subseteq Due \cup {s} /\ Due' \in SUBSET LogSlot
  BY <1>1, <1>3 DEF Due, Pending
<1>5. Cardinality(Due \cup {s}) <= Cardinality(Due) + 1
  BY CoverTyped, SlotsAreFinite, FS_AddElement
<1>6. Cardinality(Due') <= Cardinality(Due) + 1
  BY <1>4, <1>5, CoverTyped, SlotsAreFinite, FS_AddElement, FS_Subset
<1>7. Cardinality(LogSlot) >= 1
  <2>1. Cardinality({s}) = 1
    BY FS_Singleton
  <2> QED
    BY <2>1, SlotsAreFinite
<1> QED
  BY <1>2, <1>6, <1>7, CoverTyped, <1>4, SlotsAreFinite

\* A write: a day that is closed pays for all that is due then; one that was
\* closed before has the writer's own count among those due.
LEMMA WriteIsPaid ==
  ASSUME DailyLogTypeOK, DailyLogTypeOK', NEW s \in LogSlot, UpsertEntryAndStreak(s)
  PROVE  Cardinality(Due') + Budget + (IF s \in Pending THEN 1 ELSE 0)
           <= Budget' + Cardinality(Due)
<1> DEFINE n == Cardinality(LogSlot)
           d == lreq[s].day
<1>1. /\ lreq' = [lreq EXCEPT ![s] = IdleLogRequest] /\ lreq[s].step = "write"
      /\ entries' = [entries EXCEPT ![d] = lreq[s].status]
      /\ recounts' = IF lreq[s].status = "skipped" THEN recounts + 1 ELSE recounts
      /\ d \in Day /\ lreq[s].status \in EntryStatus
  BY CoverTyped DEF UpsertEntryAndStreak, EndLogRequest, LogRequest
<1>2. s \notin Pending' /\ \A t \in LogSlot \ {s} : lreq'[t] = lreq[t]
  BY <1>1 DEF DailyLogTypeOK, Pending, IdleLogRequest, Request
<1>3. s \notin Due' /\ Due' \in SUBSET LogSlot
  BY <1>2 DEF Due, Pending
<1>4. Cardinality(Due') <= n - 1 /\ Cardinality(Due') \in Nat
  BY <1>3, FewerSlots, SlotsAreFinite
<1>5. \A e \in Day \ {d} : entries'[e] = entries[e]
  BY <1>1 DEF DailyLogTypeOK
<1>6. entries'[d] = lreq[s].status
  BY <1>1 DEF DailyLogTypeOK
<1>10. Cardinality(Closed') \in Nat /\ recounts' \in Nat /\ Budget' \in Nat
  <2>1. Closed' \in SUBSET Day
    BY DEF Closed
  <2>2. Cardinality(Closed') \in Nat /\ recounts' \in Nat
    BY <1>1, <2>1, DaysAreFinite, CoverTyped
  <2> QED
    BY <2>2, CoverTyped, Times DEF Budget
<1>7. CASE lreq[s].status = "skipped"
  <2>1. Closed' = Closed \ {d}
    BY <1>5, <1>6, <1>7 DEF Closed
  <2>2. Cardinality(Closed') >= Cardinality(Closed) - 1 /\ Cardinality(Closed') \in Nat
    <3>1. IsFiniteSet(Closed) /\ Cardinality(Closed) \in Nat
      BY CoverTyped, DaysAreFinite
    <3>2. Cardinality(Closed \ {d})
            = IF d \in Closed THEN Cardinality(Closed) - 1 ELSE Cardinality(Closed)
      <4>1. CASE d \in Closed
        BY <3>1, <4>1, FS_RemoveElement
      <4>2. CASE d \notin Closed
        <5>1. Closed \ {d} = Closed
          BY <4>2
        <5> QED
          BY <4>2, <5>1
      <4> QED
        BY <4>1, <4>2
    <3> QED
      BY <1>10, <2>1, <3>1, <3>2
  <2>3. Budget' >= Budget
    <3>1. Cardinality(Closed') + recounts' >= Cardinality(Closed) + recounts
      BY <1>1, <1>7, <2>2, CoverTyped
    <3>2. recounts' \in Nat
      BY <1>1, CoverTyped
    <3> QED
      BY <2>2, <3>1, <3>2, CoverTyped, BudgetMoves DEF Budget
  <2>4. Due' \subseteq Due
    BY <1>2, <2>1 DEF Due, Pending
  <2>5. Cardinality(Due') <= Cardinality(Due)
    BY <2>4, CoverTyped, SlotsAreFinite, FS_Subset
  <2>6. s \notin Pending
    BY <1>1, <1>7 DEF Pending
  <2>7. Cardinality(Due') + Budget <= Budget' + Cardinality(Due)
    BY <1>4, <1>10, <2>3, <2>5, CoverTyped
  <2> QED
    BY <1>4, <1>10, <2>6, <2>7, CoverTyped
<1>8. CASE lreq[s].status # "skipped" /\ d \notin Closed
  <2>1. Closed' = Closed \cup {d}
    BY <1>1, <1>5, <1>6, <1>8 DEF Closed, EntryStatus
  <2>2. Cardinality(Closed') = Cardinality(Closed) + 1
    BY <1>8, <2>1, CoverTyped, DaysAreFinite, FS_AddElement
  <2>3. Budget' >= Budget + n
    <3>1. Cardinality(Closed') + recounts' = Cardinality(Closed) + recounts + 1
      BY <1>1, <1>8, <2>2, CoverTyped
    <3> QED
      BY <3>1, CoverTyped, BudgetMoves DEF Budget
  <2> QED
    BY <1>4, <1>10, <2>3, CoverTyped
<1>9. CASE lreq[s].status # "skipped" /\ d \in Closed
  <2>1. Closed' = Closed
    BY <1>1, <1>5, <1>6, <1>9 DEF Closed, EntryStatus
  <2>2. Budget' = Budget
    BY <1>1, <1>9, <2>1 DEF Budget
  <2>3. Due' = Due \ {s} /\ (s \in Due <=> s \in Pending)
    BY <1>2, <1>9, <2>1 DEF Due, Pending
  <2>4. Cardinality(Due') = Cardinality(Due) - (IF s \in Pending THEN 1 ELSE 0)
    BY <2>3, CoverTyped, SlotsAreFinite, FS_RemoveElement
  <2> QED
    BY <2>2, <2>4, CoverTyped
<1> QED
  BY <1>7, <1>8, <1>9

\* The requests a step leaves alone stay covered.
LEMMA OthersCovered ==
  ASSUME DailyLogTypeOK, NEW s \in LogSlot, NEW t \in LogSlot,
         RowCovered(t), t # s, lreq' = [lreq EXCEPT ![s] = lreq'[s]],
         Budget' \in Nat, Cardinality(Due') \in Nat,
         Cardinality(Due') + Budget <= Budget' + Cardinality(Due)
  PROVE  RowCovered(t)'
<1>1. lreq'[t] = lreq[t] /\ (t \in Pending' <=> t \in Pending)
  BY DEF DailyLogTypeOK, Pending
<1> QED
  BY <1>1, CoverTyped DEF RowCovered

\* What every step does to the counts due and the budget.
Paid == Budget' \in Nat /\ Cardinality(Due') \in Nat
          /\ Cardinality(Due') + Budget <= Budget' + Cardinality(Due)

LEMMA CoverTypedNext ==
  ASSUME DailyLogTypeOK'
  PROVE  Budget' \in Nat /\ Cardinality(Due') \in Nat
<1>1. Due' \in SUBSET LogSlot /\ Closed' \in SUBSET Day
  BY DEF Due, Pending, Closed
<1>2. recounts' \in Nat
  BY DEF DailyLogTypeOK
<1>3. Cardinality(Due') \in Nat /\ Cardinality(Closed') \in Nat /\ Cardinality(LogSlot) \in Nat
  BY <1>1, DaysAreFinite, SlotsAreFinite
<1>4. Budget' \in Nat
  BY <1>2, <1>3, Times DEF Budget
<1> QED
  BY <1>3, <1>4

\* A step of a request that writes no row of the tables.
LEMMA RequestCovered ==
  ASSUME DailyLogTypeOK, DailyLogTypeOK', StreakCovered, NEW s \in LogSlot,
         streak' = streak, lreq' = [lreq EXCEPT ![s] = lreq'[s]], Paid, RowCovered(s)'
  PROVE  StreakCovered'
<1>1. \A t \in LogSlot : RowCovered(t)'
  BY OthersCovered DEF StreakCovered, Paid
<1>2. streak'.current + Cardinality(Due') <= Budget'
  BY CoverTyped DEF StreakCovered, Paid
<1> QED
  BY <1>1, <1>2 DEF StreakCovered

LEMMA CoveredStep ==
  ASSUME DailyLogTypeOK, DailyLogTypeOK', StreakCovered, [DailyLogNext]_logVars
  PROVE  StreakCovered'
<1>0. Budget' \in Nat /\ Cardinality(Due') \in Nat
  BY CoverTypedNext
<1>1. ASSUME NEW s \in LogSlot, EndLogRequest(s), streak' = streak, entries' = entries,
             recounts' = recounts
      PROVE  StreakCovered'
  <2>1. lreq' = [lreq EXCEPT ![s] = lreq'[s]] /\ lreq'[s].step = "idle"
    BY <1>1 DEF EndLogRequest, IdleLogRequest, Request, DailyLogTypeOK
  <2>2. s \notin Pending' /\ RowCovered(s)'
    BY <2>1 DEF Pending, RowCovered
  <2>3. Paid
    BY <1>0, <1>1, <2>1, <2>2, SameDays, CoverTyped DEF Paid
  <2> QED
    BY <1>1, <2>1, <2>2, <2>3, RequestCovered
<1>2. ASSUME NEW s \in LogSlot, NEW d \in Day, SubmitReadEntry(s, d)
      PROVE  StreakCovered'
  <2>1. PICK known \in BOOLEAN :
          lreq' = [lreq EXCEPT ![s] = Request("streak", d, "logged", known, ZeroStreak)]
    BY <1>2, SubmitTakesADay
  <2>2. lreq' = [lreq EXCEPT ![s] = lreq'[s]] /\ lreq'[s].step = "streak"
    BY <2>1 DEF Request, DailyLogTypeOK
  <2>3. RowCovered(s)'
    BY <2>2 DEF RowCovered
  <2>4. streak' = streak /\ entries' = entries
    BY <1>2, Zenon DEF SubmitReadEntry
  <2>5. CASE recounts' = recounts + 1
    BY <1>0, <1>2, <2>2, <2>3, <2>4, <2>5, MisreadDay, RequestCovered DEF Paid
  <2>6. CASE recounts' # recounts + 1
    <3>1. recounts' = recounts
      BY <1>2, <2>6, Zenon DEF SubmitReadEntry
    <3> DEFINE counted == entries[d] \in {"logged", "frozen"}
    <3>2. lreq' = [lreq EXCEPT ![s] = Request("streak", d, "logged", counted, ZeroStreak)]
      BY <1>2, <2>6, Zenon DEF SubmitReadEntry
    <3>3. lreq'[s].counted = counted /\ lreq'[s].day = d
      BY <3>2 DEF Request, DailyLogTypeOK
    <3>4. Closed' = Closed /\ Budget' = Budget
      BY <2>4, <3>1 DEF Closed, Budget
    <3>5. s \notin Due'
      BY <2>4, <3>3 DEF Due, Pending, Closed
    <3>6. \A t \in LogSlot \ {s} : lreq'[t] = lreq[t]
      BY <2>2 DEF DailyLogTypeOK
    <3>7. Due' \subseteq Due
      BY <3>4, <3>5, <3>6 DEF Due, Pending
    <3>8. Cardinality(Due') <= Cardinality(Due)
      BY <3>7, CoverTyped, SlotsAreFinite, FS_Subset
    <3>9. Paid
      BY <1>0, <3>4, <3>8, CoverTyped DEF Paid
    <3> QED
      BY <2>2, <2>3, <2>4, <3>9, RequestCovered
  <2> QED
    BY <2>5, <2>6
<1>3. ASSUME NEW s \in LogSlot, SubmitReadStreak(s)
      PROVE  StreakCovered'
  <2> DEFINE row == IF lreq[s].counted THEN Refreshed ELSE Advanced(Refreshed)
             new == Request("write", lreq[s].day, "logged", lreq[s].counted, row)
  <2>1. /\ lreq[s].step = "streak" /\ lreq' = [lreq EXCEPT ![s] = new]
        /\ streak' = streak /\ entries' = entries /\ recounts' = recounts
    BY <1>3 DEF SubmitReadStreak
  <2>2. lreq' = [lreq EXCEPT ![s] = lreq'[s]] /\ lreq'[s] = new
    BY <2>1 DEF DailyLogTypeOK
  <2>3. lreq'[s].day = lreq[s].day /\ lreq'[s].counted = lreq[s].counted
        /\ lreq'[s].status = "logged" /\ lreq'[s].step = "write" /\ lreq'[s].row = row
    BY <2>2 DEF Request
  <2>4. row.current = streak.current + (IF lreq[s].counted THEN 0 ELSE 1)
    BY RowsAreRows, CoverTyped DEF Advanced
  <2>5. s \in Pending' <=> s \in Pending
    BY <2>1, <2>3 DEF Pending
  <2>6. s \in Pending <=> ~ lreq[s].counted
    BY <2>1 DEF Pending
  <2> HIDE DEF row, new
  <2>7. Budget' = Budget /\ Cardinality(Due') <= Cardinality(Due)
    BY <2>1, <2>2, <2>3, <2>5, SameDays
  <2>8. RowCovered(s)'
    <3>1. lreq'[s].row.current + Cardinality(Due')
            <= Budget' + (IF s \in Pending' THEN 1 ELSE 0)
      BY <1>0, <2>3, <2>4, <2>5, <2>6, <2>7, CoverTyped DEF StreakCovered
    <3> QED
      BY <3>1 DEF RowCovered
  <2>9. Paid
    BY <1>0, <2>7, CoverTyped DEF Paid
  <2> QED
    BY <2>1, <2>2, <2>8, <2>9, RequestCovered
<1>4. ASSUME NEW s \in LogSlot, NEW d \in Day, FreezeReadStreak(s, d)
      PROVE  StreakCovered'
  <2>1. /\ lreq[s].step = "idle" /\ streak' = streak
        /\ lreq' = [lreq EXCEPT ![s] = Request("entry", d, "frozen", FALSE, Refreshed)]
        /\ entries' = entries /\ recounts' = recounts
    BY <1>4 DEF FreezeReadStreak, IdleLogSlot
  <2>2. /\ lreq' = [lreq EXCEPT ![s] = lreq'[s]]
        /\ lreq'[s] = Request("entry", d, "frozen", FALSE, Refreshed)
    BY <2>1 DEF DailyLogTypeOK
  <2>3. s \notin Pending' /\ lreq'[s].row.current = streak.current
    BY <2>2, RowsAreRows DEF Pending, Request
  <2>4. Budget' = Budget /\ Cardinality(Due') <= Cardinality(Due)
    BY <2>1, <2>2, <2>3, SameDays
  <2>5. RowCovered(s)'
    BY <1>0, <2>3, <2>4, CoverTyped DEF RowCovered, StreakCovered
  <2>6. Paid
    BY <1>0, <2>4, CoverTyped DEF Paid
  <2> QED
    BY <2>1, <2>2, <2>5, <2>6, RequestCovered
<1>5. ASSUME NEW s \in LogSlot, FreezeReadEntry(s)
      PROVE  StreakCovered'
  <2> DEFINE new == Request("write", lreq[s].day, "frozen", FALSE, Frozen(lreq[s].row))
  <2>0. /\ lreq[s].step = "entry" /\ streak' = streak
        /\ entries' = entries /\ recounts' = recounts
        /\ EndLogRequest(s) \/ lreq' = [lreq EXCEPT ![s] = new]
    BY <1>5 DEF FreezeReadEntry
  <2>1. CASE EndLogRequest(s)
    BY <1>1, <2>0, <2>1
  <2>2. CASE lreq' = [lreq EXCEPT ![s] = new]
    <3>1. lreq' = [lreq EXCEPT ![s] = lreq'[s]] /\ lreq'[s] = new
      BY <2>2 DEF DailyLogTypeOK
    <3>2. s \notin Pending' /\ lreq'[s].row.current = lreq[s].row.current
      BY <3>1, CoverTyped DEF Pending, Request, Frozen
    <3>3. s \notin Pending
      BY <2>0 DEF Pending
    <3>4. Budget' = Budget /\ Cardinality(Due') <= Cardinality(Due)
      BY <2>0, <3>1, <3>2, SameDays
    <3>5. RowCovered(s)'
      <4>1. lreq[s].row.current + Cardinality(Due) <= Budget
        BY <2>0, <3>3, CoverTyped DEF RowCovered, StreakCovered
      <4> QED
        BY <1>0, <3>2, <3>4, <4>1, CoverTyped DEF RowCovered
    <3>6. Paid
      BY <1>0, <3>4, CoverTyped DEF Paid
    <3> QED
      BY <2>0, <3>1, <3>5, <3>6, RequestCovered
  <2> QED
    BY <2>0, <2>1, <2>2
<1>6. ASSUME NEW s \in LogSlot, NEW d \in Day, SkipReadStreak(s, d)
      PROVE  StreakCovered'
  <2>1. /\ lreq[s].step = "idle" /\ streak' = streak
        /\ lreq' = [lreq EXCEPT ![s] = Request("write", d, "skipped", FALSE, Broken(streak))]
        /\ entries' = entries /\ recounts' = recounts
    BY <1>6 DEF SkipReadStreak, IdleLogSlot
  <2>2. /\ lreq' = [lreq EXCEPT ![s] = lreq'[s]]
        /\ lreq'[s] = Request("write", d, "skipped", FALSE, Broken(streak))
    BY <2>1 DEF DailyLogTypeOK
  <2>3. s \notin Pending' /\ lreq'[s].row.current = 0
    BY <2>2 DEF Pending, Request, Broken
  <2>4. Budget' = Budget /\ Cardinality(Due') <= Cardinality(Due)
    BY <2>1, <2>2, <2>3, SameDays
  <2>5. RowCovered(s)'
    BY <1>0, <2>3, <2>4, CoverTyped DEF RowCovered, StreakCovered
  <2>6. Paid
    BY <1>0, <2>4, CoverTyped DEF Paid
  <2> QED
    BY <2>1, <2>2, <2>5, <2>6, RequestCovered
<1>7. ASSUME NEW s \in LogSlot, UpsertEntryAndStreak(s)
      PROVE  StreakCovered'
  <2>1. /\ lreq' = [lreq EXCEPT ![s] = IdleLogRequest] /\ lreq[s].step = "write"
        /\ streak' = lreq[s].row
    BY <1>7 DEF UpsertEntryAndStreak, EndLogRequest
  <2>2. lreq' = [lreq EXCEPT ![s] = lreq'[s]] /\ lreq'[s].step = "idle"
    BY <2>1 DEF DailyLogTypeOK, IdleLogRequest, Request
  <2>3. Cardinality(Due') + Budget + (IF s \in Pending THEN 1 ELSE 0)
          <= Budget' + Cardinality(Due)
    BY <1>7, WriteIsPaid
  <2>4. lreq[s].row.current + Cardinality(Due)
          <= Budget + (IF s \in Pending THEN 1 ELSE 0)
    BY <2>1 DEF StreakCovered, RowCovered
  <2>5. streak'.current + Cardinality(Due') <= Budget'
    BY <1>0, <2>1, <2>3, <2>4, CoverTyped
  <2>6. Paid
    BY <1>0, <2>3, CoverTyped DEF Paid
  <2>7. \A t \in LogSlot : RowCovered(t)'
    <3>1. RowCovered(s)'
      BY <2>2 DEF RowCovered
    <3> QED
      BY <2>2, <2>6, <3>1, OthersCovered DEF StreakCovered, Paid
  <2> QED
    BY <2>5, <2>7 DEF StreakCovered
<1>8. ASSUME NEW s \in LogSlot, LogRequestFails(s)
      PROVE  StreakCovered'
  BY <1>1, <1>8 DEF LogRequestFails
<1>9. CASE DayRollover \/ Midnight \/ UNCHANGED logVars
  <2>1. streak' = streak /\ entries' = entries /\ recounts' = recounts /\ lreq' = lreq
    BY <1>9 DEF DayRollover, Midnight, logVars
  <2> QED
    BY <2>1 DEF StreakCovered, RowCovered, Due, Pending, Closed, Budget
<1> QED
  BY <1>2, <1>3, <1>4, <1>5, <1>6, <1>7, <1>8, <1>9 DEF DailyLogNext

(* However submissions, freezes and skips overlap, and whichever of them   *)
(* fail, a streak is no longer than the days with an entry and the days    *)
(* reopened or misread, times the number of requests in flight: the first  *)
(* write that counts a day pays for all who have read it as not counted.   *)
THEOREM StreaksHaveDays == DailyLogSpec => []StreakHasDays
<1>1. DailyLogInit => StreakCovered
  <2> SUFFICES ASSUME DailyLogInit
               PROVE  StreakCovered
    OBVIOUS
  <2>1. Closed = {} /\ Due = {} /\ recounts = 0 /\ streak.current = 0
    BY DEF DailyLogInit, Closed, Due, Pending, IdleLogRequest, Request, ZeroStreak
  <2>2. Cardinality({}) = 0
    BY FS_EmptySet
  <2>3. Budget = 0
    <3>1. Cardinality(LogSlot) \in Nat
      BY SlotsAreFinite
    <3> QED
      BY <2>1, <2>2, <3>1 DEF Budget
  <2>4. \A s \in LogSlot : lreq[s].step = "idle"
    BY DEF DailyLogInit, IdleLogRequest, Request
  <2> QED
    BY <2>1, <2>2, <2>3, <2>4 DEF StreakCovered, RowCovered
<1>2. DailyLogTypeOK /\ DailyLogTypeOK' /\ StreakCovered /\ [DailyLogNext]_logVars
        => StreakCovered'
  BY CoveredStep
<1>3. DailyLogTypeOK /\ StreakCovered => StreakHasDays
  <2> SUFFICES ASSUME DailyLogTypeOK, StreakCovered
               PROVE  StreakHasDays
    OBVIOUS
  <2> DEFINE days == {d \in Day : entries[d] # "absent"}
  <2>1. Closed \subseteq days /\ days \in SUBSET Day
    BY DEF Closed
  <2>2. Cardinality(Closed) <= Cardinality(days) /\ Cardinality(days) \in Nat
    BY <2>1, DaysAreFinite, FS_Subset
  <2> HIDE DEF days
  <2>3. Budget <= Cardinality(LogSlot) * (Cardinality(days) + recounts)
    <3>1. Cardinality(Closed) + recounts <= Cardinality(days) + recounts
      BY <2>2, CoverTyped
    <3> QED
      BY <2>2, <3>1, CoverTyped, Times DEF Budget
  <2>4. streak.current <= Budget
    BY CoverTyped DEF StreakCovered
  <2>5. Cardinality(LogSlot) * (Cardinality(days) + recounts) \in Nat
    BY <2>2, CoverTyped, Times
  <2>6. streak.current <= Cardinality(LogSlot) * (Cardinality(days) + recounts)
    BY <2>3, <2>4, <2>5, CoverTyped
  <2> QED
    BY <2>6 DEF StreakHasDays, days
<1> QED
  BY <1>1, <1>2, <1>3, DailyLogTyping, PTL DEF DailyLogSpec

(* Two same-day submissions end in one increment whenever requests about a *)
(* membership come one at a time, whatever fails between them: overlap is  *)
(* the only way to a second one.                                           *)
THEOREM OneIncrementAlone ==
  ASSUME Cardinality(LogSlot) <= 1
  PROVE  DailyLogSpec => []OneIncrementPerDay
<1>1. DailyLogTypeOK /\ StreakHasDays => OneIncrementPerDay
  <2> SUFFICES ASSUME DailyLogTypeOK, StreakHasDays
               PROVE  OneIncrementPerDay
    OBVIOUS
  <2> DEFINE days == {d \in Day : entries[d] # "absent"}
             n == Cardinality(LogSlot)
             x == Cardinality(days) + recounts
  <2>1. x \in Nat
    <3>1. days \in SUBSET Day
      OBVIOUS
    <3>2. Cardinality(days) \in Nat
      BY <3>1, DaysAreFinite
    <3> HIDE DEF days
    <3> QED
      BY <3>2 DEF DailyLogTypeOK
  <2>2. n \in {0, 1}
    <3>1. Cardinality(LogSlot) \in Nat
      BY SlotsAreFinite
    <3> QED
      BY <3>1
  <2>3. streak.current \in Nat /\ streak.current <= n * x
    BY DEF DailyLogTypeOK, StreakRow, StreakHasDays
  <2> HIDE DEF n, x
  <2>4. n * x <= x
    BY <2>1, <2>2
  <2>5. streak.current <= x
    BY <2>1, <2>2, <2>3, <2>4
  <2> QED
    BY <2>5 DEF OneIncrementPerDay, x
<1> QED
  BY <1>1, DailyLogTyping, StreaksHaveDays, PTL

=============================================================================
