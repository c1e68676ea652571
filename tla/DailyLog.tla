------------------------------ MODULE DailyLog -------------------------------
(***************************************************************************)
(* The daily log of one member of one team: a row per day and one streak   *)
(* row.  A request reads the day and the streak in two statements, decides *)
(* on what it read, and writes both rows back in one transaction, absolute *)
(* values and no condition.  Days are local dates of the membership.       *)
(***************************************************************************)
EXTENDS Naturals, FiniteSets

CONSTANTS
    LogSlot,      \* requests about this membership that can be in flight
    MaxFreezes,   \* MaxFreezesPerMonth
    MonthOf,      \* calendar month of each day
    WorkingDays,  \* days IsWorkingDay accepts
    LastDay,      \* bound of the model: the days are 0..LastDay
    MaxRecounts   \* bound of the model: skips recorded, and entries that a
                  \* submission failed to read, in one behaviour

Day == 0..LastDay

ASSUME DailyLogAssumption ==
    /\ IsFiniteSet(LogSlot)
    /\ MaxFreezes \in Nat \ {0}
    /\ LastDay \in Nat
    /\ MonthOf \in [Day -> Nat \ {0}]
    /\ WorkingDays \subseteq Day
    /\ MaxRecounts \in Nat

VARIABLES
    today,       \* the current local date
    entries,     \* daily_log_entries: status of each day
    streak,      \* the user_streak row
    lreq,        \* what each in-flight request has read and will write
    recounts,    \* skips recorded and reads failed so far, each of which lets
                 \* a day be counted once more (history)
    rolledOver   \* working days whose rollover ran after the day (history)

logVars == <<today, entries, streak, lreq, recounts, rolledOver>>

EntryStatus == {"logged", "frozen", "skipped"}

\* month: the month of updated_at; 0 is the zero time of a row not yet there.
StreakRow == [current : Nat, best : Nat, freezes : Nat, month : Nat]

ZeroStreak == [current |-> 0, best |-> 0, freezes |-> 0, month |-> 0]

LogRequest == [step : {"idle", "streak", "entry", "write"}, day : Day,
               status : EntryStatus, counted : BOOLEAN, row : StreakRow]

Request(step, d, status, counted, row) ==
    [step |-> step, day |-> d, status |-> status, counted |-> counted, row |-> row]

IdleLogRequest == Request("idle", 0, "logged", FALSE, ZeroStreak)

DailyLogTypeOK ==
    /\ today \in Day
    /\ entries \in [Day -> EntryStatus \cup {"absent"}]
    /\ streak \in StreakRow
    /\ lreq \in [LogSlot -> LogRequest]
    /\ recounts \in Nat
    /\ rolledOver \in SUBSET Day

DailyLogInit ==
    /\ today = 0
    /\ entries = [d \in Day |-> "absent"]
    /\ streak = ZeroStreak
    /\ lreq = [s \in LogSlot |-> IdleLogRequest]
    /\ recounts = 0
    /\ rolledOver = {}

-----------------------------------------------------------------------------
(* Helpers.                                                                *)

\* IsValidLogDate: today or yesterday in the time zone of the membership.
Loggable(d) == d = today \/ d + 1 = today

\* The streak as a request takes it: a new month starts with no freeze used.
Refreshed == IF streak.month = MonthOf[today] THEN streak
             ELSE [streak EXCEPT !.freezes = 0]

\* ComputeStreakUpdate for a logged day, stamped with the time of the request.
Advanced(row) ==
    [current |-> row.current + 1,
     best |-> IF row.current + 1 > row.best THEN row.current + 1 ELSE row.best,
     freezes |-> row.freezes, month |-> MonthOf[today]]

\* Mutant: the counter is taken for the freezes that are left.
FrozenCountsDown(row) ==
    [current |-> row.current, best |-> row.best,
     freezes |-> row.freezes - 1, month |-> MonthOf[today]]

\* ... for a frozen day, with the freeze it takes.
Frozen(row) ==
    [current |-> row.current, best |-> row.best,
     freezes |-> row.freezes + 1, month |-> MonthOf[today]]

\* ... for a skipped day.
Broken(row) ==
    [current |-> 0, best |-> row.best,
     freezes |-> row.freezes, month |-> MonthOf[today]]

IdleLogSlot(s) == lreq[s].step = "idle"

EndLogRequest(s) == lreq' = [lreq EXCEPT ![s] = IdleLogRequest]

-----------------------------------------------------------------------------
(* SubmitLog.                                                              *)

\* Mutant: a day that is there already counts again.
SubmitReadEntryAlwaysNew(s, d) ==
    /\ IdleLogSlot(s)
    /\ Loggable(d)
    /\ lreq' = [lreq EXCEPT ![s] = Request("streak", d, "logged", FALSE, ZeroStreak)]
    /\ UNCHANGED <<today, entries, streak, recounts, rolledOver>>

\* The error of GetEntry is dropped: a day that could not be read is taken for
\* one that was not counted yet.
SubmitReadEntry(s, d) ==
    /\ IdleLogSlot(s)
    /\ Loggable(d)
    /\ LET counted == entries[d] \in {"logged", "frozen"} IN
         \/ /\ lreq' = [lreq EXCEPT ![s] =
                  Request("streak", d, "logged", counted, ZeroStreak)]
            /\ UNCHANGED recounts
         \/ /\ counted
            /\ recounts < MaxRecounts
            /\ recounts' = recounts + 1
            /\ lreq' = [lreq EXCEPT ![s] =
                  Request("streak", d, "logged", FALSE, ZeroStreak)]
    /\ UNCHANGED <<today, entries, streak, rolledOver>>

SubmitReadStreak(s) ==
    /\ lreq[s].step = "streak"
    /\ lreq' = [lreq EXCEPT ![s] =
         Request("write", lreq[s].day, "logged", lreq[s].counted,
                 IF lreq[s].counted THEN Refreshed ELSE Advanced(Refreshed))]
    /\ UNCHANGED <<today, entries, streak, recounts, rolledOver>>

-----------------------------------------------------------------------------
(* FreezeDay.                                                              *)

\* Mutant: any past day can be frozen.
FreezeReadStreakAnyDay(s, d) ==
    /\ IdleLogSlot(s)
    /\ d <= today
    /\ Refreshed.freezes < MaxFreezes
    /\ lreq' = [lreq EXCEPT ![s] = Request("entry", d, "frozen", FALSE, Refreshed)]
    /\ UNCHANGED <<today, entries, streak, recounts, rolledOver>>

\* Mutant: the limit is compared with <= instead of <.
FreezeReadStreakOffByOne(s, d) ==
    /\ IdleLogSlot(s)
    /\ Loggable(d)
    /\ Refreshed.freezes <= MaxFreezes
    /\ lreq' = [lreq EXCEPT ![s] = Request("entry", d, "frozen", FALSE, Refreshed)]
    /\ UNCHANGED <<today, entries, streak, recounts, rolledOver>>

FreezeReadStreak(s, d) ==
    /\ IdleLogSlot(s)
    /\ Loggable(d)
    /\ Refreshed.freezes < MaxFreezes
    /\ lreq' = [lreq EXCEPT ![s] = Request("entry", d, "frozen", FALSE, Refreshed)]
    /\ UNCHANGED <<today, entries, streak, recounts, rolledOver>>

\* A frozen day is answered without a write; any other one, or one that could
\* not be read, is overwritten.
FreezeReadEntry(s) ==
    LET r == lreq[s] IN
    /\ r.step = "entry"
    /\ \/ entries[r.day] = "frozen" /\ EndLogRequest(s)
       \/ lreq' = [lreq EXCEPT ![s] =
             Request("write", r.day, "frozen", FALSE, Frozen(r.row))]
    /\ UNCHANGED <<today, entries, streak, recounts, rolledOver>>

-----------------------------------------------------------------------------
\* handleSkip of the Telegram callback: the date comes with the button and is
\* not checked, and neither the day nor the month is looked at.
SkipReadStreak(s, d) ==
    /\ IdleLogSlot(s)
    /\ d <= today
    /\ recounts < MaxRecounts
    /\ lreq' = [lreq EXCEPT ![s] =
         Request("write", d, "skipped", FALSE, Broken(streak))]
    /\ UNCHANGED <<today, entries, streak, recounts, rolledOver>>

\* UpsertEntryAndStreak: both rows, in one transaction, whatever they hold now.
UpsertEntryAndStreak(s) ==
    LET r == lreq[s] IN
    /\ r.step = "write"
    /\ entries' = [entries EXCEPT ![r.day] = r.status]
    /\ streak' = r.row
    /\ IF r.status = "skipped" THEN recounts < MaxRecounts /\ recounts' = recounts + 1
                               ELSE UNCHANGED recounts
    /\ EndLogRequest(s)
    /\ UNCHANGED <<today, rolledOver>>

\* A statement fails, the context is cancelled or the process is killed.
LogRequestFails(s) ==
    /\ ~ IdleLogSlot(s)
    /\ EndLogRequest(s)
    /\ UNCHANGED <<today, entries, streak, recounts, rolledOver>>

\* DayRollover for yesterday.  For a day without a row GetEntry hands on the
\* driver's ErrNoRows, which is not the ErrEntryNotFound it is compared with,
\* so the call ends with an error; a logged, frozen or skipped day is left
\* alone.  The rest of it wants a row that is 'missed', and nobody writes one.
DayRollover ==
    /\ \E d \in WorkingDays :
         /\ d + 1 = today
         /\ rolledOver' = rolledOver \cup {d}
    /\ UNCHANGED <<today, entries, streak, lreq, recounts>>

Midnight ==
    /\ today < LastDay
    /\ today' = today + 1
    /\ UNCHANGED <<entries, streak, lreq, recounts, rolledOver>>

DailyLogNext ==
    \/ \E s \in LogSlot :
         \/ \E d \in Day : SubmitReadEntry(s, d)
         \/ SubmitReadStreak(s)
         \/ \E d \in Day : FreezeReadStreak(s, d)
         \/ FreezeReadEntry(s)
         \/ \E d \in Day : SkipReadStreak(s, d)
         \/ UpsertEntryAndStreak(s)
         \/ LogRequestFails(s)
    \/ DayRollover
    \/ Midnight

DailyLogSpec == DailyLogInit /\ [][DailyLogNext]_logVars

-----------------------------------------------------------------------------
(* Properties.                                                             *)

(* The record is never below the streak, although requests overwrite each  *)
(* other's streak rows with values computed from what they read earlier.   *)
BestIsARecord ==
    /\ streak.current <= streak.best
    /\ \A s \in LogSlot : lreq[s].row.current <= lreq[s].row.best

(* The freeze counter respects the monthly limit under any interleaving of *)
(* freezes, submissions and months (the number of frozen days does not:    *)
(* an overlapping submission writes back the counter it read).             *)
FreezeLimit == streak.freezes <= MaxFreezes

(* How far requests that overlap can inflate the streak: a day, and a day  *)
(* reopened by a skip, counts at most once for every request in flight, so *)
(* with one request at a time a streak never exceeds the days it is about. *)
StreakHasDays ==
    streak.current <=
        Cardinality(LogSlot) * (Cardinality({d \in Day : entries[d] # "absent"}) + recounts)

Writing(d) ==
    \E s \in LogSlot :
        /\ lreq[s].day = d
        /\ \/ lreq[s].step \in {"streak", "entry"}
           \/ lreq[s].step = "write" /\ lreq[s].status # "skipped"

ClosedDay(d) == d + 1 < today /\ ~ Writing(d)

StayClosed ==
    \A d \in Day : ClosedDay(d) =>
        ClosedDay(d)' /\ entries'[d] \in {entries[d], "skipped"}

(* Yesterday is the last day that can be logged or frozen: once a day is   *)
(* older and no request accepted earlier is in flight, its entry can only  *)
(* be skipped, by the one handler that does not check the date.            *)
ClosedDayStaysClosed == [][StayClosed]_logVars

(* phase-1 design, integration tests: "Two same-day submits race to one    *)
(* entry and one streak increment".                                        *)
OneIncrementPerDay ==
    streak.current <= Cardinality({d \in Day : entries[d] # "absent"}) + recounts

(* phase-1 design, day rollover: a previous working day "without           *)
(* logged/frozen/skipped" gets a "missed" entry.                           *)
RolloverLeavesAnEntry == \A d \in rolledOver : entries[d] # "absent"

=============================================================================
