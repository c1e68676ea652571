-------------------------------- MODULE Recaps --------------------------------
(***************************************************************************)
(* The weekly recap sweep: the other loop of the worker process.  A sweep  *)
(* lists the goals that need a recap for the week in which it starts, then *)
(* for each of them inserts a row as 'generating', asks the language model *)
(* and updates the row, each a statement of its own.                       *)
(***************************************************************************)
EXTENDS Naturals, FiniteSets

CONSTANTS
    Goal,        \* goals of the sweep
    LastWeek,    \* bound of the model: the last ISO week
    MaxLapses,   \* bound of the model: failed updates, lost answers, crashes
    NoGoal       \* no goal

ASSUME RecapsAssumption ==
    IsFiniteSet(Goal) /\ LastWeek \in Nat /\ MaxLapses \in Nat /\ NoGoal \notin Goal

Week == 0..LastWeek

VARIABLES
    week,      \* the ISO week of now
    due,       \* active goals with a check-in approved in each week
    recaps,    \* weekly_recaps: rows of each week, goal and status
    sweep,     \* the loop: its week, what is left of its list, its goal
    lapses     \* failed updates, lost answers and crashes so far (history)

recapVars == <<week, due, recaps, sweep, lapses>>

RecapStatus == {"generating", "done", "failed"}

IdleSweep == [step |-> "idle", week |-> 0, todo |-> {}, goal |-> NoGoal]

RecapsTypeOK ==
    /\ week \in Week
    /\ due \in [Week -> SUBSET Goal]
    /\ recaps \in [Week \X Goal -> [RecapStatus -> Nat]]
    /\ sweep \in [step : {"idle", "next", "ask", "done", "failed"}, week : Week,
                  todo : SUBSET Goal, goal : Goal \cup {NoGoal}]
    /\ lapses \in 0..MaxLapses

RecapsInit ==
    /\ week = 0
    /\ due = [w \in Week |-> {}]
    /\ recaps = [k \in Week \X Goal |-> [s \in RecapStatus |-> 0]]
    /\ sweep = IdleSweep
    /\ lapses = 0

-----------------------------------------------------------------------------
(* Helpers.                                                                *)

\* The row that was being generated is settled.  A failed recap is tried again:
\* rows beyond the first failed one tell nothing, so they are not counted.
Settle(row, status) ==
    [row EXCEPT !["generating"] = @ - 1, ![status] = IF status = "failed" THEN 1 ELSE @ + 1]

\* On to the next goal of the list.
NextGoal ==
    sweep' = IF sweep.todo = {} THEN IdleSweep
             ELSE [sweep EXCEPT !.step = "next", !.goal = NoGoal]

Lapse == lapses < MaxLapses /\ lapses' = lapses + 1

\* Mutant: a recap that is being generated is not looked for.
NeedsRecapDoneOnly(w, g) == g \in due[w] /\ recaps[<<w, g>>]["done"] = 0

\* No row of the goal and week that is done, generating or pending (no row
\* is ever pending).
NeedsRecap(w, g) ==
    g \in due[w] /\ \A s \in {"done", "generating"} : recaps[<<w, g>>][s] = 0

-----------------------------------------------------------------------------

\* A check-in of an active goal is approved, in this week.
CheckInApproved(g) ==
    /\ g \notin due[week]
    /\ due' = [due EXCEPT ![week] = @ \cup {g}]
    /\ UNCHANGED <<week, recaps, sweep, lapses>>

\* The goal is no longer active.
GoalStops(g) ==
    /\ \E w \in Week : g \in due[w]
    /\ due' = [w \in Week |-> due[w] \ {g}]
    /\ UNCHANGED <<week, recaps, sweep, lapses>>

NextWeek ==
    /\ week < LastWeek
    /\ week' = week + 1
    /\ UNCHANGED <<due, recaps, sweep, lapses>>

\* SweepAndGenerate: FindGoalsNeedingRecap for the week of now.
SweepAndGenerate ==
    /\ sweep.step = "idle"
    /\ \E g \in Goal : NeedsRecap(week, g)
    /\ sweep' = [step |-> "next", week |-> week, goal |-> NoGoal,
                 todo |-> {g \in Goal : NeedsRecap(week, g)}]
    /\ UNCHANGED <<week, due, recaps, lapses>>

\* generateOne: a goal of the list, in no order; without an insert there is
\* nothing to generate.
InsertRecap(g) ==
    /\ sweep.step = "next" /\ g \in sweep.todo
    /\ recaps' = [recaps EXCEPT ![<<sweep.week, g>>]["generating"] = @ + 1]
    /\ sweep' = [sweep EXCEPT !.step = "ask", !.goal = g, !.todo = @ \ {g}]
    /\ UNCHANGED <<week, due, lapses>>

\* The insert returned an error: the goal is left for the next sweep.
LeaveGoal(g) ==
    /\ sweep.step = "next" /\ g \in sweep.todo
    /\ sweep' = IF sweep.todo = {g} THEN IdleSweep ELSE [sweep EXCEPT !.todo = @ \ {g}]
    /\ UNCHANGED <<week, due>>

InsertRecapFails(g) ==
    /\ LeaveGoal(g)
    /\ UNCHANGED <<recaps, lapses>>

\* The row is committed, and the connection is lost before the answer: nobody
\* knows its id, so nobody settles it.
InsertRecapAnswerLost(g) ==
    /\ LeaveGoal(g)
    /\ Lapse
    /\ recaps' = [recaps EXCEPT ![<<sweep.week, g>>]["generating"] = @ + 1]

\* The approved check-ins of the week are read and summarised, or not.
Summarize ==
    /\ sweep.step = "ask"
    /\ \E outcome \in {"done", "failed"} : sweep' = [sweep EXCEPT !.step = outcome]
    /\ UNCHANGED <<week, due, recaps, lapses>>

\* UpdateRecap of the row that was inserted; its error is only logged, and
\* that of a failed recap is not even that.
UpdateRecap ==
    LET s == sweep.step IN
    /\ s \in {"done", "failed"}
    /\ \/ /\ recaps' = [recaps EXCEPT ![<<sweep.week, sweep.goal>>] = Settle(@, s)]
          /\ UNCHANGED lapses
       \/ Lapse /\ UNCHANGED recaps
    /\ NextGoal
    /\ UNCHANGED <<week, due>>

\* The process is killed and started again.
SweepCrash ==
    /\ sweep.step # "idle"
    /\ Lapse
    /\ sweep' = IdleSweep
    /\ UNCHANGED <<week, due, recaps>>

RecapsNext ==
    \/ \E g \in Goal : \/ CheckInApproved(g)
                       \/ GoalStops(g)
                       \/ InsertRecap(g)
                       \/ InsertRecapFails(g)
                       \/ InsertRecapAnswerLost(g)
    \/ NextWeek
    \/ SweepAndGenerate
    \/ Summarize
    \/ UpdateRecap
    \/ SweepCrash

RecapsSpec == RecapsInit /\ [][RecapsNext]_recapVars

-----------------------------------------------------------------------------
(* Properties.                                                             *)

\* The row of the goal is 'generating' and no sweep is about to settle it.
Stuck(w, g) ==
    /\ recaps[<<w, g>>]["generating"] > 0
    /\ ~ (sweep.step \in {"ask", "done", "failed"} /\ sweep.week = w /\ sweep.goal = g)

(* A goal gets one recap a week, however often it is tried and whenever    *)
(* the worker dies; a row that stays 'generating', for which its goal is   *)
(* never swept again in that week, is paid for by a lapse of its own.      *)
RecapsAccountedFor ==
    /\ \A k \in Week \X Goal : recaps[k]["generating"] + recaps[k]["done"] <= 1
    /\ Cardinality({k \in Week \X Goal : Stuck(k[1], k[2])}) <= lapses

=============================================================================
