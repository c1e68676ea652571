--------------------------- MODULE CheckThenInsert ---------------------------
(***************************************************************************)
(* What a limit is worth when it is enforced by counting rows in one       *)
(* statement and inserting in a later one, without a lock between the two. *)
(* The refine quota of goals and the evidence cap of check-ins both have   *)
(* this shape; they are shown to implement this module, which promises     *)
(* that the limit is overshot by less than the number of requests that run *)
(* at the same time.                                                       *)
(***************************************************************************)
EXTENDS Naturals, FiniteSets

CONSTANTS
    Slot,   \* the requests that can be in flight at one time
    Limit   \* the documented limit

\* What the module asks of its constants; every instance of it states as much.
LimitOK ==
    /\ IsFiniteSet(Slot)
    /\ Limit \in Nat \ {0}

VARIABLES
    count,  \* rows that count against the limit
    passed  \* requests that saw room and have not inserted yet

vars == <<count, passed>>

TypeOK ==
    /\ count \in Nat
    /\ passed \in SUBSET Slot

Init ==
    /\ count = 0
    /\ passed = {}

Check(s) ==
    /\ count < Limit
    /\ s \in Slot \ passed
    /\ passed' = passed \cup {s}
    /\ UNCHANGED count

Insert(s) ==
    /\ s \in passed
    /\ count' = count + 1
    /\ passed' = passed \ {s}

\* The request fails or its process dies between the two statements.
Drop(s) ==
    /\ s \in passed
    /\ passed' = passed \ {s}
    /\ UNCHANGED count

\* A row stops counting: it leaves the time window of the limit.
Forget ==
    /\ count > 0
    /\ count' = count - 1
    /\ UNCHANGED passed

Next ==
    \/ Forget
    \/ \E s \in Slot : Check(s) \/ Insert(s) \/ Drop(s)

Spec == Init /\ [][Next]_vars

(* The overshoot is bounded by the requests that run together: with one    *)
(* request at a time the limit is exact, with n it can be passed by n - 1. *)
Bounded == count + Cardinality(passed) <= Limit - 1 + Cardinality(Slot)

=============================================================================
