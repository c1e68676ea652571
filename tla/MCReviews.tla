------------------------------ MODULE MCReviews ------------------------------
(* One run for three questions: two goals that are declared, accepted and  *)
(* refined; two check-ins of an active goal that are reviewed without      *)
(* evidence; or the evidence of one check-in that is reviewed once.        *)
EXTENDS MCCheckIns

CONSTANT circle2

VARIABLE focus

\* The second circle id is left for an auto-created circle.
MCTwoCircles == circle1 :> User @@ circle2 :> {}

MCReviewsNext ==
    /\ UNCHANGED focus
    /\ IF focus = "goals"
       THEN GoalsNext /\ UNCHANGED loopVars
       ELSE CheckInsNext /\ UNCHANGED goalVars
    /\ focus = "reviews" =>
         \A s \in CheckInSlot : creq'[s].step \notin {"capacity", "put", "insert"}
    /\ focus = "evidence" =>
         /\ Cardinality({c \in CheckIn : Status(c)' # "absent"}) <= 1
         /\ \A g \in Goal : Len(ledger'[g]) <= 1

MCReviewsInit ==
    \/ LoopInit /\ focus = "goals"
    \/ MCFromActiveGoal /\ focus \in {"reviews", "evidence"}

MCReviewsSpec == MCReviewsInit /\ [][MCReviewsNext]_<<focus, allVars>>

=============================================================================
