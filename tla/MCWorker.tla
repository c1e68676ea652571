------------------------------- MODULE MCWorker ------------------------------
(* The loops of the worker process: the nudge engine, the recap sweep and  *)
(* the companion.  They run side by side and share no table, so each       *)
(* behaviour follows one of them, the focus, while the others rest: the    *)
(* states of the run are the sum of those of the loops.                    *)
EXTENDS Notifications, Recaps, Companion

VARIABLE focus

workerVars == <<focus, nudgeVars, recapVars, companionVars>>

\* Offsets that put the evening of the user on both sides of the server's
\* midnight.
MCZone == {-8, 0, 9}

\* More than a month for the keys that repeat with the day of the month, a week
\* for the weekly limits, two nights for the rest and a third for the reminder.
MCHorizon == [f \in Feature |->
    CASE f = "weekly_recap" -> 36
      [] f = "lead_weekly_brief" -> 29
      [] f = "proof_draft" -> 6
      [] f = "leader_fair_play" -> 8
      [] f = "streak_reminder" -> 3
      [] OTHER -> 2]

\* Long enough for a weekday of February to meet its day of the month again.
MCTwoMonths == [f \in Feature |-> 36]

\* A user in the zone of the server.
MCServerZone == {0}

WorkerTypeOK == NotificationsTypeOK /\ RecapsTypeOK /\ CompanionTypeOK

WorkerInit ==
    /\ focus \in {"nudges", "recaps", "companion"}
    /\ NotificationsInit /\ RecapsInit
    /\ CompanionInit
    /\ focus # "companion" => feature = "goal_risk"

WorkerNext ==
    /\ UNCHANGED focus
    /\ \/ focus = "nudges" /\ NotificationsNext /\ UNCHANGED <<recapVars, companionVars>>
       \/ focus = "recaps" /\ RecapsNext /\ UNCHANGED <<nudgeVars, companionVars>>
       \/ focus = "companion" /\ CompanionNext /\ UNCHANGED <<nudgeVars, recapVars>>

\* The fairness of NotificationsSpec: an engine that is not the focus has
\* nothing to do.
WorkerSpec == WorkerInit /\ [][WorkerNext]_workerVars /\ WF_nudgeVars(Engine)

\* One feature of the companion alone.
Only(f) == WorkerInit /\ focus = "companion" /\ feature = f

RemindersSpec == Only("streak_reminder") /\ [][WorkerNext]_workerVars

WeeklyRecapsSpec == Only("weekly_recap") /\ [][WorkerNext]_workerVars

=============================================================================
