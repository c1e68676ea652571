----------------------------- MODULE ReviewLoop ------------------------------
(***************************************************************************)
(* What the review of a check-in promises: the transitions the checks of   *)
(* the service admit when nothing comes between the check and the write,   *)
(* which are also those of docs/architecture/status-transitions.md.  An    *)
(* approved or a rejected check-in is final.                               *)
(***************************************************************************)
CONSTANT CheckIn

VARIABLE status

Init == status = [c \in CheckIn |-> "absent"]

Moves == { <<"absent", "draft">>,
           <<"draft", "submitted">>,
           <<"submitted", "changes_requested">>,
           <<"changes_requested", "submitted">>,
           <<"submitted", "approved">>,
           <<"submitted", "rejected">> }

Transition(c) ==
    \E move \in Moves :
        /\ status[c] = move[1]
        /\ status' = [status EXCEPT ![c] = move[2]]

Next == \E c \in CheckIn : Transition(c)

Spec == Init /\ [][Next]_status

=============================================================================
