------------------------------- MODULE Companion ------------------------------
(***************************************************************************)
(* The companion: a loop that, every five minutes, looks for users to whom *)
(* one of its features is due, asks whether it may fire (not fired under   *)
(* this key, not more often than its limit), sends, and records the key.   *)
(* The key holds a date: of the user's zone when it is looked up for some  *)
(* features, always of the server when it is recorded.                     *)
(* Features share nothing but the loop, so a behaviour follows one of them *)
(* for one user; what the model's query finds is any of its rows.          *)
(***************************************************************************)
EXTENDS Integers, FiniteSets

CONSTANTS
    Zone,       \* offsets of the user's zone from the server's, in hours
    Horizon,    \* bound of the model: the days each feature is followed for
    MaxMishaps  \* bound of the model: crashes, lost answers, failed inserts

Feature == {"evening_ping", "weekly_recap", "lead_weekly_brief", "streak_reminder",
            "proof_draft", "buddy_stalled", "goal_risk", "streak_milestone",
            "leader_fair_play"}

ASSUME CompanionAssumption ==
    /\ Zone \subseteq -23..23 /\ Zone # {}
    /\ Horizon \in [Feature -> Nat] /\ MaxMishaps \in Nat

VARIABLES
    feature,   \* the feature of this behaviour
    zone,      \* the user's offset
    hour,      \* hours since a Monday 00:00 of the server, 2 February
    fired,     \* ai_companion_fired: key, and the server's day of the row
    loop,      \* the loop: step, rows left, current row, hour of the tick, date
               \* of the send, whether a tick has ended in this hour
    sentNow,   \* deliveries in this day, or week, of the server (history)
    steady,    \* every tick of this local day ran and found the user (history)
    reminded,  \* the local day of the last delivery (history)
    mishaps    \* mishaps so far (history)

companionVars ==
    <<feature, zone, hour, fired, loop, sentNow, steady, reminded, mishaps>>

-----------------------------------------------------------------------------
(* The clocks.                                                             *)

Day(h) == h \div 24

HourOfDay(h) == h % 24

Local == hour + zone

Weekday(d) == d % 7

Monday == 0

Friday == 4

\* Day 0 is Monday 2 February of a common year; a month has 28 days, which is
\* exact up to 28 March, beyond every horizon of the runs.
DayOfMonth(d) == ((d + 1) % 28) + 1

-----------------------------------------------------------------------------
(* When a feature looks for its users: at an hour of theirs or of the      *)
(* server's.                                                               *)

EveningPingDue == HourOfDay(Local) = 19 /\ Weekday(Day(Local)) \in Monday..Friday

WeeklyRecapDue == HourOfDay(Local) = 18 /\ Weekday(Day(Local)) = Friday

LeadBriefDue == HourOfDay(Local) = 9 /\ Weekday(Day(Local)) = Monday

StreakReminderDue == HourOfDay(Local) >= 20

GoalRiskDue == HourOfDay(hour) = 10

LeaderFairPlayDue == HourOfDay(hour) = 11 /\ Weekday(Day(hour)) \in {0, 2, 4}

Window ==
    CASE feature = "evening_ping" -> EveningPingDue
      [] feature = "weekly_recap" -> WeeklyRecapDue
      [] feature = "lead_weekly_brief" -> LeadBriefDue
      [] feature = "streak_reminder" -> StreakReminderDue
      [] feature = "goal_risk" -> GoalRiskDue
      [] feature = "leader_fair_play" -> LeaderFairPlayDue
      [] OTHER -> TRUE

\* Only these two run at every tick; the others in the first five minutes of
\* the hour, so a send does not outlast the hour.
AllHour == {"streak_reminder", "streak_milestone"}

-----------------------------------------------------------------------------
(* How a feature sends: the clock of the date it looks its key up by, the  *)
(* rows a tick may find (the user, or one of two teams, proofs or goals),  *)
(* whether the key names the row, what date is in the key, and the error   *)
(* at which it gives up without a record.  The others go on to the insight *)
(* in the application, and record that.                                    *)

EveningPing == [clock |-> "user", rows |-> {1}, rowInKey |-> FALSE,
                date |-> "day", givesUp |-> {"context", "telegram"}]

\* The week of a weekly key is written with the day of the month.
WeeklyRecap == [EveningPing EXCEPT !.date = "day of month"]

LeadBrief == [WeeklyRecap EXCEPT !.rows = {1, 2}]

StreakReminder == EveningPing

ProofDraft == [EveningPing EXCEPT !.clock = "server", !.givesUp = {"context"}]

BuddyStalled == [clock |-> "server", rows |-> {1, 2}, rowInKey |-> TRUE,
                 date |-> "day", givesUp |-> {}]

GoalRisk == BuddyStalled

StreakMilestone == [BuddyStalled EXCEPT !.date = "none"]

LeaderFairPlay == [ProofDraft EXCEPT !.rows = {1, 2}]

Sending ==
    CASE feature = "evening_ping" -> EveningPing
      [] feature = "weekly_recap" -> WeeklyRecap
      [] feature = "lead_weekly_brief" -> LeadBrief
      [] feature = "streak_reminder" -> StreakReminder
      [] feature = "proof_draft" -> ProofDraft
      [] feature = "buddy_stalled" -> BuddyStalled
      [] feature = "goal_risk" -> GoalRisk
      [] feature = "streak_milestone" -> StreakMilestone
      [] feature = "leader_fair_play" -> LeaderFairPlay

\* BuildTriggerID: the feature and the user are given.
TriggerID(row, d) ==
    [row |-> IF Sending.rowInKey THEN row ELSE 0,
     date |-> CASE Sending.date = "day" -> d
                [] Sending.date = "day of month" -> DayOfMonth(d)
                [] Sending.date = "none" -> 0]

\* Every feature has one of the two limits.
MaxPerDay ==
    IF feature \in {"evening_ping", "streak_reminder", "buddy_stalled", "goal_risk",
                    "streak_milestone"} THEN 1 ELSE 0

MaxPerWeek ==
    CASE feature = "proof_draft" -> 5
      [] feature \in {"weekly_recap", "lead_weekly_brief", "leader_fair_play"} -> 1
      [] OTHER -> 0

-----------------------------------------------------------------------------

IdleLoop ==
    [step |-> "idle", rows |-> {}, row |-> 0, now |-> 0, date |-> 0, ticked |-> FALSE]

CompanionTypeOK ==
    /\ feature \in Feature /\ zone \in Zone
    /\ hour \in Nat
    /\ \A r \in fired : r.id.row \in 0..2 /\ r.id.date \in Int /\ r.day \in Nat
    /\ loop \in [step : {"idle", "check", "send", "record"}, rows : SUBSET {1, 2},
                 row : 0..2, now : Nat, date : Nat, ticked : BOOLEAN]
    /\ sentNow \in Nat
    /\ steady \in BOOLEAN
    /\ reminded \in Int
    /\ mishaps \in 0..MaxMishaps

CompanionInit ==
    /\ feature \in Feature
    /\ zone \in IF Sending.clock = "user" THEN Zone ELSE {CHOOSE z \in Zone : TRUE}
    /\ hour = 0
    /\ fired = {}
    /\ loop = IdleLoop
    /\ sentNow = 0
    /\ steady = FALSE
    /\ reminded = -2
    /\ mishaps = 0

Mishap == mishaps < MaxMishaps /\ mishaps' = mishaps + 1

\* The next hour.  Ticks may be missed: the worker is down.
Hour ==
    LET h == hour + 1 IN
    /\ h < 24 * Horizon[feature]
    /\ loop.step = "idle" \/ feature \in AllHour
    /\ hour' = h
    /\ loop' = [loop EXCEPT !.ticked = FALSE]
    /\ sentNow' = IF HourOfDay(h) = 0 /\ (MaxPerDay > 0 \/ Weekday(Day(h)) = Monday)
                  THEN 0 ELSE sentNow
    /\ steady' = (HourOfDay(h + zone) = 0 \/ (steady /\ (loop.ticked \/ ~ Window)))
    /\ UNCHANGED <<feature, zone, fired, reminded, mishaps>>

\* The query of the feature finds some of its rows.
Find ==
    /\ loop.step = "idle"
    /\ Window
    /\ loop.ticked => feature \in AllHour
    /\ \E R \in SUBSET Sending.rows :
         /\ loop' = [loop EXCEPT !.step = "check", !.rows = R, !.now = hour]
         /\ steady' = (steady /\ R # {})
    /\ UNCHANGED <<feature, zone, hour, fired, sentNow, reminded, mishaps>>

FiredSince(d) == Cardinality({r \in fired : r.day >= d})

\* Mutant: the limit of a day is not looked at.
ShouldFireNoDayLimit(id) ==
    /\ ~ \E r \in fired : r.id = id
    /\ MaxPerWeek > 0 => FiredSince(Day(hour) - Weekday(Day(hour))) < MaxPerWeek

\* Mutant: the limit of a week counts seven days back.
ShouldFireRollingWeek(id) ==
    /\ ~ \E r \in fired : r.id = id
    /\ MaxPerDay > 0 => FiredSince(Day(hour)) < MaxPerDay
    /\ MaxPerWeek > 0 => FiredSince(Day(hour) - 7) < MaxPerWeek

ShouldFire(id) ==
    /\ ~ \E r \in fired : r.id = id
    /\ MaxPerDay > 0 => FiredSince(Day(hour)) < MaxPerDay
    /\ MaxPerWeek > 0 => FiredSince(Day(hour) - Weekday(Day(hour))) < MaxPerWeek

\* The next row, with the date of the feature's clock when the tick began, or
\* the end of the tick.  A send begins with a date of its own.
Check ==
    /\ loop.step = "check"
    /\ IF loop.rows = {}
       THEN loop' = [IdleLoop EXCEPT !.ticked = loop.ticked \/ loop.now = hour]
       ELSE \E row \in loop.rows :
              LET z == IF Sending.clock = "user" THEN zone ELSE 0
                  id == TriggerID(row, Day(loop.now + z)) IN
              loop' = [loop EXCEPT !.rows = @ \ {row},
                         !.row = IF ShouldFire(id) THEN row ELSE 0,
                         !.date = IF ShouldFire(id) THEN Day(hour) ELSE 0,
                         !.step = IF ShouldFire(id) THEN "send" ELSE "check"]
    /\ UNCHANGED <<feature, zone, hour, fired, sentNow, steady, reminded, mishaps>>

Delivered ==
    /\ sentNow' = sentNow + 1
    /\ reminded' = Day(Local)

NextRow == loop' = [loop EXCEPT !.step = "check", !.row = 0, !.date = 0]

\* The text is the model's or a template; it always is some text.
Send ==
    /\ loop.step = "send"
    /\ Delivered
    /\ loop' = [loop EXCEPT !.step = "record"]
    /\ UNCHANGED <<feature, zone, hour, fired, steady, mishaps>>

\* The context cannot be read, or Telegram refuses and the feature gives up.
SendAborts ==
    /\ loop.step = "send"
    /\ Sending.givesUp # {}
    /\ NextRow
    /\ steady' = FALSE
    /\ UNCHANGED <<feature, zone, hour, fired, sentNow, reminded, mishaps>>

\* Telegram has delivered the message, but the worker sees an error.
SendAnswerIsLost ==
    /\ loop.step = "send"
    /\ "telegram" \in Sending.givesUp
    /\ Mishap
    /\ Delivered
    /\ NextRow
    /\ UNCHANGED <<feature, zone, hour, fired, steady>>

\* RecordFired, with the server's date when the send began: ON CONFLICT DO
\* NOTHING, and an error is only logged.
RecordFired ==
    LET id == TriggerID(loop.row, loop.date) IN
    /\ loop.step = "record"
    /\ \/ fired' = (IF \E r \in fired : r.id = id THEN fired
                    ELSE fired \cup {[id |-> id, day |-> Day(hour)]})
          /\ UNCHANGED mishaps
       \/ Mishap /\ UNCHANGED fired
    /\ NextRow
    /\ UNCHANGED <<feature, zone, hour, sentNow, steady, reminded>>

\* The process is killed and started again.
CompanionCrash ==
    /\ loop.step # "idle"
    /\ Mishap
    /\ loop' = IdleLoop
    /\ steady' = FALSE
    /\ UNCHANGED <<feature, zone, hour, fired, sentNow, reminded>>

CompanionNext ==
    \/ Hour
    \/ Find
    \/ Check
    \/ Send
    \/ SendAborts
    \/ SendAnswerIsLost
    \/ RecordFired
    \/ CompanionCrash

CompanionSpec == CompanionInit /\ [][CompanionNext]_companionVars

-----------------------------------------------------------------------------
(* Properties.                                                             *)

\* A lead whose Monday 09:00 is a Monday of the server too.
SameMonday == zone \in -14..9

(* Wherever the worker dies and whichever rows a tick finds: in a day, or  *)
(* week, of the server a user is told of a feature no more often than its  *)
(* limit, and once more for each mishap.  For the brief of a lead this is  *)
(* so where the key is looked up and recorded with the same date: else the *)
(* record can meet a key of an earlier month, and nothing is counted.      *)
LimitsHold ==
    (feature = "lead_weekly_brief" => SameMonday)
        => sentNow <= MaxPerDay + MaxPerWeek + mishaps

(* The design has the recap go out every Friday at 18:00.  After the tick  *)
(* of that hour, on a day on which it ran and found the user, there has    *)
(* been a recap.                                                           *)
RecapEveryFriday ==
    feature = "weekly_recap" /\ WeeklyRecapDue /\ loop.ticked /\ steady
        => reminded = Day(Local)

(* What does keep a recap back on such a Friday is one thing only: a       *)
(* record of four weeks ago or more, made on the same day of its month.    *)
(* No zone, no week since and no mishap of another day does.               *)
RecapUnlessKeyTaken ==
    feature = "weekly_recap" /\ WeeklyRecapDue /\ loop.ticked /\ steady
        => \/ reminded = Day(Local)
           \/ \E r \in fired :
                r.id = TriggerID(1, Day(Local)) /\ r.day <= Day(Local) - 28

(* The worker's comment says that the reminder goes out in the four hours  *)
(* before midnight if the streak is at risk.  After the last tick of a day *)
(* on which every tick ran and found the user, there has been a reminder.  *)
ReminderBeforeMidnight ==
    feature = "streak_reminder" /\ HourOfDay(Local) = 23 /\ loop.ticked /\ steady
        => reminded = Day(Local)

=============================================================================
