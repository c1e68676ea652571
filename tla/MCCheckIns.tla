----------------------------- MODULE MCCheckIns ------------------------------
(* The review loop of one goal: the owner, the buddy and another member of *)
(* the circle.  MCFromActiveGoal starts where the goals service leaves off *)
(* when the buddy has accepted, to spend the states on the check-ins.      *)
EXTENDS CheckIns, TLC

CONSTANTS owner, buddy, peer, circle1, goal1

MCInitMembers == circle1 :> User

MCSymmetry == Permutations(CheckIn) \cup Permutations(CheckInSlot)

\* Sound from the empty goals table only: the owner is not chosen yet.
MCLoopSymmetry == Permutations(User) \cup Permutations(CheckIn)

MCFromActiveGoal ==
    /\ members = InitMembers
    /\ goals = [g \in Goal |->
         IF g = goal1 THEN [status |-> "active", owner |-> owner,
                            buddy |-> buddy, circle |-> circle1]
                      ELSE NoGoal]
    /\ pacts = [g \in Goal |-> IF g = goal1 THEN "active" ELSE "absent"]
    /\ invites = [g \in Goal |-> IF g = goal1 THEN "accepted" ELSE "absent"]
    /\ expired = {}
    /\ accepted = [g \in Goal |-> IF g = goal1 THEN 1 ELSE 0]
    /\ refines = [u \in User |-> 0]
    /\ greq = [s \in GoalSlot |-> IdleGoalRequest]
    /\ CheckInsInit

MCActiveGoalSpec == MCFromActiveGoal /\ [][LoopNext]_allVars

=============================================================================
