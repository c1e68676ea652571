----------------------------- MODULE Obligations -----------------------------
(***************************************************************************)
(* What hangs on a goal: stakes, milestones and proof contracts.  Their    *)
(* services have one shape: read a row, check its status and who asks,     *)
(* write it back by id.  Owner and buddy of the goal never change, so the  *)
(* comments say who may act, and a request of anybody else ends there.     *)
(***************************************************************************)
EXTENDS Integers, FiniteSets, FiniteSetsExt

CONSTANTS
    Stake, Milestone, Contract,   \* ids; one tells the table it is from
    DutySlot,                     \* requests in flight
    MaxPlace,                     \* bound of the model: largest sort_order
    NoDuty                        \* no id

ASSUME ObligationsAssumption ==
    /\ IsFiniteSet(DutySlot) /\ IsFiniteSet(Milestone)
    /\ MaxPlace \in Nat
    /\ NoDuty \notin Stake \cup Milestone \cup Contract
    /\ Stake \cap Milestone = {} /\ Stake \cap Contract = {} /\ Milestone \cap Contract = {}

VARIABLES
    goalActive,    \* the goal is active
    stakes,        \* status of each stake
    forfeitures,   \* stake_forfeitures: number of rows of each stake
    milestones,    \* status and sort_order; moved: the owner placed it (history)
    contracts,     \* status of each contract, and its timestamps that are set
    oreq           \* what each in-flight request has read and will do next

dutyVars == <<goalActive, stakes, forfeitures, milestones, contracts, oreq>>

Place == -1..MaxPlace

StakeStatus == {"active", "forfeited", "cancelled"}

MilestoneStatus == {"pending", "completed"}

ContractStatus == {"pending", "active", "fulfilled", "cancelled"}

NoMilestone == [status |-> "absent", place |-> -1, moved |-> FALSE]

NoContract == [status |-> "absent", stamps |-> {}]

IdleDutyRequest == [step |-> "idle", id |-> NoDuty, to |-> "none", place |-> -1]

ObligationsTypeOK ==
    /\ goalActive \in BOOLEAN
    /\ stakes \in [Stake -> StakeStatus \cup {"absent"}]
    /\ forfeitures \in [Stake -> Nat]
    /\ milestones \in [Milestone -> [status : MilestoneStatus \cup {"absent"},
                                     place : Place, moved : BOOLEAN]]
    /\ contracts \in [Contract -> [status : ContractStatus \cup {"absent"},
                                   stamps : SUBSET {"fulfilled", "cancelled"}]]
    /\ oreq \in [DutySlot ->
         [step : {"idle", "addstake", "stake", "forfeiture", "order",
                  "addmilestone", "milestone", "edit", "delete", "contract"},
          id : Stake \cup Milestone \cup Contract \cup {NoDuty},
          to : StakeStatus \cup MilestoneStatus \cup ContractStatus \cup {"none"},
          place : Place]]

ObligationsInit ==
    /\ goalActive = TRUE
    /\ stakes = [k \in Stake |-> "absent"]
    /\ forfeitures = [k \in Stake |-> 0]
    /\ milestones = [m \in Milestone |-> NoMilestone]
    /\ contracts = [k \in Contract |-> NoContract]
    /\ oreq = [s \in DutySlot |-> IdleDutyRequest]

BeginDuty(s, step, id, to, place) ==
    /\ oreq[s].step = "idle"
    /\ oreq' = [oreq EXCEPT ![s] = [step |-> step, id |-> id, to |-> to, place |-> place]]

DutyAt(s, step, place) ==
    oreq' = [oreq EXCEPT ![s] =
               [step |-> step, id |-> oreq[s].id, to |-> oreq[s].to, place |-> place]]

EndDuty(s) == oreq' = [oreq EXCEPT ![s] = IdleDutyRequest]

-----------------------------------------------------------------------------
(* Stakes.                                                                 *)

\* The owner, on an active goal.
StakeCreateLoad(s) ==
    /\ goalActive
    /\ BeginDuty(s, "addstake", NoDuty, "none", -1)
    /\ UNCHANGED <<goalActive, stakes, forfeitures, milestones, contracts>>

InsertStake(s, k) ==
    /\ oreq[s].step = "addstake"
    /\ stakes[k] = "absent"
    /\ stakes' = [stakes EXCEPT ![k] = "active"]
    /\ EndDuty(s)
    /\ UNCHANGED <<goalActive, forfeitures, milestones, contracts>>

\* Mutant: the status of the stake is not looked at.
StakeLoadAnyStatus(s, k, to) ==
    /\ stakes[k] # "absent"
    /\ BeginDuty(s, "stake", k, to, -1)
    /\ UNCHANGED <<goalActive, stakes, forfeitures, milestones, contracts>>

\* Cancel by the owner, Forfeit by the buddy.
StakeLoad(s, k, to) ==
    /\ stakes[k] = "active"
    /\ BeginDuty(s, "stake", k, to, -1)
    /\ UNCHANGED <<goalActive, stakes, forfeitures, milestones, contracts>>

\* By id, whatever the status has become.
UpdateStakeStatus(s) ==
    LET r == oreq[s] IN
    /\ r.step = "stake"
    /\ stakes' = [stakes EXCEPT ![r.id] = r.to]
    /\ IF r.to = "forfeited" THEN DutyAt(s, "forfeiture", -1) ELSE EndDuty(s)
    /\ UNCHANGED <<goalActive, forfeitures, milestones, contracts>>

\* A statement of its own, on a table that takes any number of rows.
InsertForfeiture(s) ==
    /\ oreq[s].step = "forfeiture"
    /\ forfeitures' = [forfeitures EXCEPT ![oreq[s].id] = @ + 1]
    /\ EndDuty(s)
    /\ UNCHANGED <<goalActive, stakes, milestones, contracts>>

StakesNext ==
    \E s \in DutySlot :
        \/ StakeCreateLoad(s)
        \/ UpdateStakeStatus(s)
        \/ InsertForfeiture(s)
        \/ \E k \in Stake : \/ InsertStake(s, k)
                            \/ \E to \in {"cancelled", "forfeited"} : StakeLoad(s, k, to)

-----------------------------------------------------------------------------
(* Milestones.                                                             *)

Present == {m \in Milestone : milestones[m].status # "absent"}

\* Mutant: MAX instead of MAX + 1.
NextSortOrderSame ==
    IF Present = {} THEN 0 ELSE Max({milestones[m].place : m \in Present})

\* COALESCE(MAX(sort_order), -1) + 1
NextSortOrder ==
    IF Present = {} THEN 0 ELSE Max({milestones[m].place : m \in Present}) + 1

\* The owner, on an active goal.
MilestoneCreateLoad(s) ==
    /\ goalActive
    /\ BeginDuty(s, "order", NoDuty, "none", -1)
    /\ UNCHANGED <<goalActive, stakes, forfeitures, milestones, contracts>>

ReadSortOrder(s) ==
    /\ oreq[s].step = "order"
    /\ NextSortOrder \in Place
    /\ DutyAt(s, "addmilestone", NextSortOrder)
    /\ UNCHANGED <<goalActive, stakes, forfeitures, milestones, contracts>>

InsertMilestone(s, m) ==
    /\ oreq[s].step = "addmilestone"
    /\ milestones[m] = NoMilestone
    /\ milestones' = [milestones EXCEPT ![m] =
         [status |-> "pending", place |-> oreq[s].place, moved |-> FALSE]]
    /\ EndDuty(s)
    /\ UNCHANGED <<goalActive, stakes, forfeitures, contracts>>

\* Update and Delete by the owner, on a pending milestone.
MilestoneEditLoad(s, m, step, place) ==
    /\ milestones[m].status = "pending"
    /\ BeginDuty(s, step, m, "none", place)
    /\ UNCHANGED <<goalActive, stakes, forfeitures, milestones, contracts>>

\* Complete and Reopen by the buddy.
MilestoneLoad(s, m, to) ==
    /\ milestones[m].status = (IF to = "completed" THEN "pending" ELSE "completed")
    /\ BeginDuty(s, "milestone", m, to, -1)
    /\ UNCHANGED <<goalActive, stakes, forfeitures, milestones, contracts>>

\* By id, and with an error for a milestone that is gone: it may have been
\* completed since it was read as pending.
UpdateMilestone(s) ==
    LET r == oreq[s] IN
    /\ r.step = "edit"
    /\ r.id \in Present
    /\ milestones' = [milestones EXCEPT ![r.id] =
         [status |-> milestones[r.id].status, place |-> r.place, moved |-> TRUE]]
    /\ EndDuty(s)
    /\ UNCHANGED <<goalActive, stakes, forfeitures, contracts>>

DeleteMilestone(s) ==
    LET r == oreq[s] IN
    /\ r.step = "delete"
    /\ r.id \in Present
    /\ milestones' = [milestones EXCEPT ![r.id] = NoMilestone]
    /\ EndDuty(s)
    /\ UNCHANGED <<goalActive, stakes, forfeitures, contracts>>

UpdateMilestoneStatus(s) ==
    LET r == oreq[s] IN
    /\ r.step = "milestone"
    /\ r.id \in Present
    /\ milestones' = [milestones EXCEPT ![r.id].status = r.to]
    /\ EndDuty(s)
    /\ UNCHANGED <<goalActive, stakes, forfeitures, contracts>>

MilestonesNext ==
    \E s \in DutySlot :
        \/ MilestoneCreateLoad(s)
        \/ ReadSortOrder(s)
        \/ UpdateMilestone(s)
        \/ DeleteMilestone(s)
        \/ UpdateMilestoneStatus(s)
        \/ \E m \in Milestone :
             \/ InsertMilestone(s, m)
             \/ MilestoneEditLoad(s, m, "delete", -1)
             \/ \E p \in Place : MilestoneEditLoad(s, m, "edit", p)
             \/ \E to \in MilestoneStatus : MilestoneLoad(s, m, to)

-----------------------------------------------------------------------------
(* Contracts.                                                              *)

\* CanTransitionTo; 'broken' is written by MarkBrokenOverdue only, which
\* nothing calls.
CanTransitionTo(from, to) ==
    \/ from = "pending" /\ to \in {"active", "cancelled"}
    \/ from = "active" /\ to \in {"fulfilled", "cancelled"}

\* Without a buddy a contract is active at once.
CreateContract(k, buddy) ==
    /\ contracts[k] = NoContract
    /\ contracts' = [contracts EXCEPT ![k].status = IF buddy THEN "pending" ELSE "active"]
    /\ UNCHANGED <<goalActive, stakes, forfeitures, milestones, oreq>>

\* Mutant: a settled contract may be cancelled.
ContractLoadCancelsAny(s, k, to) ==
    /\ contracts[k].status # "absent"
    /\ CanTransitionTo(contracts[k].status, to) \/ to = "cancelled"
    /\ BeginDuty(s, "contract", k, to, -1)
    /\ UNCHANGED <<goalActive, stakes, forfeitures, milestones, contracts>>

\* Activate by the buddy, Fulfill and Cancel by either.
ContractLoad(s, k, to) ==
    /\ contracts[k].status # "absent"
    /\ CanTransitionTo(contracts[k].status, to)
    /\ BeginDuty(s, "contract", k, to, -1)
    /\ UNCHANGED <<goalActive, stakes, forfeitures, milestones, contracts>>

\* By id; the timestamp of an earlier status stays.
UpdateContractStatus(s) ==
    LET r == oreq[s] IN
    /\ r.step = "contract"
    /\ contracts' = [contracts EXCEPT ![r.id] =
         [status |-> r.to, stamps |-> contracts[r.id].stamps \cup ({r.to} \ {"active"})]]
    /\ EndDuty(s)
    /\ UNCHANGED <<goalActive, stakes, forfeitures, milestones>>

ContractsNext ==
    \E k \in Contract :
        \/ \E buddy \in BOOLEAN : CreateContract(k, buddy)
        \/ \E s \in DutySlot : \/ UpdateContractStatus(s)
                               \/ \E to \in ContractStatus : ContractLoad(s, k, to)

-----------------------------------------------------------------------------

\* The goal is paused, finished or archived by its own service.
GoalIsLeft ==
    /\ goalActive' = FALSE
    /\ UNCHANGED <<stakes, forfeitures, milestones, contracts, oreq>>

DutyRequestFails(s) ==
    /\ oreq[s].step # "idle"
    /\ EndDuty(s)
    /\ UNCHANGED <<goalActive, stakes, forfeitures, milestones, contracts>>

ObligationsNext ==
    \/ StakesNext
    \/ MilestonesNext
    \/ ContractsNext
    \/ GoalIsLeft
    \/ \E s \in DutySlot : DutyRequestFails(s)

ObligationsSpec == ObligationsInit /\ [][ObligationsNext]_dutyVars

-----------------------------------------------------------------------------
(* Properties.                                                             *)

HoldersOf(id) == {s \in DutySlot : oreq[s].id = id}

(* Cancelling and forfeiting overwrite one another and a forfeiture is a   *)
(* second statement; still a stake gets no more forfeitures than requests  *)
(* were about it while it was active, and none before it was settled.      *)
ForfeitureBacked ==
    \A k \in Stake :
        forfeitures[k] > 0 =>
            /\ stakes[k] \in {"forfeited", "cancelled"}
            /\ forfeitures[k] + Cardinality(HoldersOf(k)) <= Cardinality(DutySlot)

(* Two milestones created at once take the same place, but no more than    *)
(* there are requests at once: whoever reads the order later goes behind   *)
(* those that are there.  (The owner may move milestones anywhere.)        *)
PlacesShared ==
    \A p \in Place :
        Cardinality({m \in Present : milestones[m].place = p /\ ~ milestones[m].moved})
            <= Cardinality(DutySlot)

ContractSettled(k) == contracts[k].status \in {"fulfilled", "cancelled"}

(* A settled stake or contract can be overwritten by requests that read it *)
(* before it was settled, and by nothing else: when those are done it is   *)
(* final.                                                                  *)
SettledObligationsAreFinal ==
    [][/\ \A k \in Stake :
            stakes[k] \in {"forfeited", "cancelled"} /\ HoldersOf(k) = {}
            => stakes'[k] = stakes[k] /\ HoldersOf(k)' = {}
       /\ \A k \in Contract :
            ContractSettled(k) /\ HoldersOf(k) = {}
            => contracts'[k] = contracts[k] /\ HoldersOf(k)' = {}]_dutyVars

=============================================================================
