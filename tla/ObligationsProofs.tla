-------------------------- MODULE ObligationsProofs --------------------------
(***************************************************************************)
(* Proofs about stakes, milestones and contracts, for any number of them   *)
(* and of requests: types, the forfeitures of a stake, the places of       *)
(* milestones, and the finality of what is settled.  Nobody checks a       *)
(* status in the statement that writes it, so the argument is about who    *)
(* still holds the id of a row: once it is settled, no request that begins *)
(* can take it.                                                            *)
(***************************************************************************)
EXTENDS Obligations, FiniteSetTheorems, WellFoundedInduction, TLAPS

DutyId == Stake \cup Milestone \cup Contract \cup {NoDuty}

DutyRequest ==
    [step : {"idle", "addstake", "stake", "forfeiture", "order",
             "addmilestone", "milestone", "edit", "delete", "contract"},
     id : DutyId,
     to : StakeStatus \cup MilestoneStatus \cup ContractStatus \cup {"none"},
     place : Place]

MilestoneRow ==
    [status : MilestoneStatus \cup {"absent"}, place : Place, moved : BOOLEAN]

ContractRow ==
    [status : ContractStatus \cup {"absent"}, stamps : SUBSET {"fulfilled", "cancelled"}]

DutiesOK ==
    /\ goalActive \in BOOLEAN
    /\ stakes \in [Stake -> StakeStatus \cup {"absent"}]
    /\ forfeitures \in [Stake -> Nat]
    /\ milestones \in [Milestone -> MilestoneRow]
    /\ contracts \in [Contract -> ContractRow]

Settled == {"forfeited", "cancelled"}

\* What a request knows of the stakes S: one about to record a forfeiture has
\* settled the stake, and a stake that was settled stays so.
DutyRequestOK(r, S) ==
    /\ r \in DutyRequest
    /\ r.step \in {"stake", "forfeiture"} => r.id \in Stake
    /\ r.step = "stake" => r.to \in Settled
    /\ r.step = "forfeiture" => S[r.id] \in Settled
    /\ r.step \in {"edit", "delete", "milestone"} => r.id \in Milestone
    /\ r.step = "milestone" => r.to \in MilestoneStatus
    /\ r.step = "contract" =>
         r.id \in Contract /\ r.to \in {"active", "fulfilled", "cancelled"}

DutyRequestsOK ==
    /\ oreq \in [DutySlot -> DutyRequest]
    /\ \A s \in DutySlot : DutyRequestOK(oreq[s], stakes)

DutyInv == DutiesOK /\ DutyRequestsOK

StakesStay == \A k \in Stake : stakes[k] \in Settled => stakes'[k] \in Settled

LEMMA DutyInvGivesTypes == DutyInv => ObligationsTypeOK
BY DEF DutyInv, DutiesOK, DutyRequestsOK, ObligationsTypeOK, DutyRequest, DutyId,
       MilestoneRow, ContractRow

-----------------------------------------------------------------------------
(* Types.                                                                  *)

LEMMA DutyRequestsStay ==
  ASSUME DutyRequestsOK, StakesStay, UNCHANGED oreq
  PROVE  DutyRequestsOK'
<1>1. ASSUME NEW s \in DutySlot PROVE DutyRequestOK(oreq[s], stakes')
  <2>1. DutyRequestOK(oreq[s], stakes)
    BY DEF DutyRequestsOK
  <2> QED
    BY <2>1 DEF DutyRequestOK, StakesStay
<1> QED
  BY <1>1 DEF DutyRequestsOK

LEMMA DutyMoves ==
  ASSUME DutyRequestsOK, StakesStay, NEW s \in DutySlot, NEW r, DutyRequestOK(r, stakes'),
         oreq' = [oreq EXCEPT ![s] = r]
  PROVE  DutyRequestsOK'
<1>1. oreq' \in [DutySlot -> DutyRequest]
  BY DEF DutyRequestsOK, DutyRequestOK
<1>2. ASSUME NEW t \in DutySlot PROVE DutyRequestOK(oreq'[t], stakes')
  <2>1. CASE t = s
    BY <2>1 DEF DutyRequestsOK
  <2>2. CASE t # s
    <3>1. oreq'[t] = oreq[t] /\ DutyRequestOK(oreq[t], stakes)
      BY <2>2 DEF DutyRequestsOK
    <3> QED
      BY <3>1 DEF DutyRequestOK, StakesStay
  <2> QED
    BY <2>1, <2>2
<1> QED
  BY <1>1, <1>2 DEF DutyRequestsOK

LEMMA IdleIsOK == ASSUME NEW S PROVE DutyRequestOK(IdleDutyRequest, S)
<1>1. -1 \in Place
  BY ObligationsAssumption DEF Place
<1> QED
  BY <1>1 DEF DutyRequestOK, DutyRequest, DutyId, IdleDutyRequest

LEMMA DutyEnds ==
  ASSUME DutyRequestsOK, StakesStay, NEW s \in DutySlot, EndDuty(s)
  PROVE  DutyRequestsOK'
BY IdleIsOK, DutyMoves DEF EndDuty

\* A request that begins leaves the tables alone.
LEMMA DutyBegins ==
  ASSUME DutyInv, NEW s \in DutySlot, NEW step, NEW id, NEW to, NEW place,
         DutyRequestOK([step |-> step, id |-> id, to |-> to, place |-> place], stakes),
         BeginDuty(s, step, id, to, place),
         UNCHANGED <<goalActive, stakes, forfeitures, milestones, contracts>>
  PROVE  DutyInv'
<1> DEFINE r == [step |-> step, id |-> id, to |-> to, place |-> place]
<1>1. oreq' = [oreq EXCEPT ![s] = r] /\ DutyRequestOK(r, stakes') /\ StakesStay
  BY DEF BeginDuty, StakesStay
<1> HIDE DEF r
<1>2. DutyRequestsOK'
  BY <1>1, DutyMoves DEF DutyInv
<1> QED
  BY <1>2 DEF DutyInv, DutiesOK

LEMMA DutyInvInit == ObligationsInit => DutyInv
<1> SUFFICES ASSUME ObligationsInit PROVE DutyInv
  OBVIOUS
<1>1. -1 \in Place
  BY ObligationsAssumption DEF Place
<1>2. NoMilestone \in MilestoneRow
  BY <1>1 DEF NoMilestone, MilestoneRow
<1>3. NoContract \in ContractRow
  BY DEF NoContract, ContractRow
<1>4. DutiesOK
  BY <1>2, <1>3 DEF ObligationsInit, DutiesOK
<1>5. DutyRequestsOK
  BY IdleIsOK DEF ObligationsInit, DutyRequestsOK, DutyRequestOK
<1> QED
  BY <1>4, <1>5 DEF DutyInv

LEMMA DutyInvStep == DutyInv /\ [ObligationsNext]_dutyVars => DutyInv'
<1> SUFFICES ASSUME DutyInv, [ObligationsNext]_dutyVars PROVE DutyInv'
  OBVIOUS
<1>0. DutiesOK /\ DutyRequestsOK /\ -1 \in Place
  BY ObligationsAssumption DEF DutyInv, Place
<1>1. ASSUME NEW s \in DutySlot, StakeCreateLoad(s) PROVE DutyInv'
  <2>1. DutyRequestOK([step |-> "addstake", id |-> NoDuty, to |-> "none", place |-> -1], stakes)
    BY <1>0 DEF DutyRequestOK, DutyRequest, DutyId
  <2> QED
    BY <1>1, <2>1, DutyBegins DEF StakeCreateLoad
<1>2. ASSUME NEW s \in DutySlot, NEW k \in Stake, InsertStake(s, k) PROVE DutyInv'
  <2>1. StakesStay
    BY <1>0, <1>2 DEF InsertStake, StakesStay, DutiesOK, Settled
  <2>2. DutiesOK'
    BY <1>0, <1>2 DEF InsertStake, DutiesOK, StakeStatus
  <2> QED
    BY <1>0, <1>2, <2>1, <2>2, DutyEnds DEF DutyInv, InsertStake
<1>3. ASSUME NEW s \in DutySlot, NEW k \in Stake, NEW to \in {"cancelled", "forfeited"},
             StakeLoad(s, k, to)
      PROVE  DutyInv'
  <2>1. DutyRequestOK([step |-> "stake", id |-> k, to |-> to, place |-> -1], stakes)
    BY <1>0 DEF DutyRequestOK, DutyRequest, DutyId, Settled, StakeStatus
  <2> QED
    BY <1>3, <2>1, DutyBegins DEF StakeLoad
<1>4. ASSUME NEW s \in DutySlot, UpdateStakeStatus(s) PROVE DutyInv'
  <2> DEFINE k == oreq[s].id
             r == [step |-> "forfeiture", id |-> oreq[s].id, to |-> oreq[s].to, place |-> -1]
  <2>1. /\ DutyRequestOK(oreq[s], stakes) /\ oreq[s].step = "stake"
        /\ k \in Stake /\ oreq[s].to \in Settled
    BY <1>0, <1>4 DEF DutyRequestsOK, DutyRequestOK, UpdateStakeStatus
  <2>2. stakes' = [stakes EXCEPT ![k] = oreq[s].to]
    BY <1>4 DEF UpdateStakeStatus
  <2>3. oreq' = [oreq EXCEPT ![s] = r] \/ EndDuty(s)
    BY <1>4 DEF UpdateStakeStatus, DutyAt
  <2>4. r \in DutyRequest /\ r.step = "forfeiture" /\ r.id = k
    BY <1>0, <2>1 DEF DutyRequestOK, DutyRequest, DutyId
  <2> HIDE DEF r, k
  <2>5. stakes'[k] \in Settled /\ StakesStay /\ stakes' \in [Stake -> StakeStatus \cup {"absent"}]
    BY <1>0, <2>1, <2>2 DEF DutiesOK, StakesStay, Settled, StakeStatus
  <2>6. DutyRequestOK(r, stakes')
    BY <2>1, <2>4, <2>5 DEF DutyRequestOK
  <2>7. DutyRequestsOK'
    BY <1>0, <2>3, <2>5, <2>6, DutyMoves, DutyEnds
  <2>8. DutiesOK'
    BY <1>0, <1>4, <2>5 DEF UpdateStakeStatus, DutiesOK
  <2> QED
    BY <2>7, <2>8 DEF DutyInv
<1>5. ASSUME NEW s \in DutySlot, InsertForfeiture(s) PROVE DutyInv'
  <2>1. StakesStay
    BY <1>5 DEF InsertForfeiture, StakesStay
  <2> DEFINE k == oreq[s].id
             n == forfeitures[k] + 1
  <2>2. k \in Stake
    BY <1>0, <1>5 DEF DutyRequestsOK, DutyRequestOK, InsertForfeiture
  <2>3. n \in Nat
    BY <1>0, <2>2 DEF DutiesOK
  <2>4. forfeitures' = [forfeitures EXCEPT ![k] = n]
    BY <1>5 DEF InsertForfeiture
  <2> HIDE DEF n, k
  <2>5. DutiesOK'
    BY <1>0, <1>5, <2>2, <2>3, <2>4 DEF InsertForfeiture, DutiesOK
  <2> QED
    BY <1>0, <1>5, <2>1, <2>5, DutyEnds DEF DutyInv, InsertForfeiture
<1>6. ASSUME NEW s \in DutySlot, MilestoneCreateLoad(s) PROVE DutyInv'
  <2>1. DutyRequestOK([step |-> "order", id |-> NoDuty, to |-> "none", place |-> -1], stakes)
    BY <1>0 DEF DutyRequestOK, DutyRequest, DutyId
  <2> QED
    BY <1>6, <2>1, DutyBegins DEF MilestoneCreateLoad
<1>7. ASSUME NEW s \in DutySlot, ReadSortOrder(s) PROVE DutyInv'
  <2> DEFINE p == NextSortOrder
             r == [step |-> "addmilestone", id |-> oreq[s].id, to |-> oreq[s].to, place |-> p]
  <2>1. oreq' = [oreq EXCEPT ![s] = r] /\ p \in Place /\ StakesStay
    BY <1>7 DEF ReadSortOrder, DutyAt, StakesStay
  <2> HIDE DEF p
  <2>2. DutyRequestOK(r, stakes')
    BY <1>0, <2>1 DEF DutyRequestsOK, DutyRequestOK, DutyRequest
  <2> HIDE DEF r
  <2>3. DutyRequestsOK'
    BY <1>0, <2>1, <2>2, DutyMoves
  <2> QED
    BY <1>0, <1>7, <2>3 DEF DutyInv, DutiesOK, ReadSortOrder
<1>8. ASSUME NEW s \in DutySlot, NEW m \in Milestone, InsertMilestone(s, m) PROVE DutyInv'
  <2> DEFINE row == [status |-> "pending", place |-> oreq[s].place, moved |-> FALSE]
  <2>1. row \in MilestoneRow
    BY <1>0 DEF DutyRequestsOK, DutyRequest, MilestoneRow, MilestoneStatus
  <2>2. milestones' = [milestones EXCEPT ![m] = row]
    BY <1>8 DEF InsertMilestone
  <2> HIDE DEF row
  <2>3. DutiesOK' /\ StakesStay
    BY <1>0, <1>8, <2>1, <2>2 DEF DutiesOK, InsertMilestone, StakesStay
  <2> QED
    BY <1>0, <1>8, <2>3, DutyEnds DEF DutyInv, InsertMilestone
<1>9. ASSUME NEW s \in DutySlot, NEW m \in Milestone, NEW step \in {"edit", "delete"},
             NEW p \in Place, MilestoneEditLoad(s, m, step, p)
      PROVE  DutyInv'
  <2>1. DutyRequestOK([step |-> step, id |-> m, to |-> "none", place |-> p], stakes)
    BY DEF DutyRequestOK, DutyRequest, DutyId
  <2> QED
    BY <1>9, <2>1, DutyBegins DEF MilestoneEditLoad
<1>10. ASSUME NEW s \in DutySlot, NEW m \in Milestone, NEW to \in MilestoneStatus,
              MilestoneLoad(s, m, to)
       PROVE  DutyInv'
  <2>1. DutyRequestOK([step |-> "milestone", id |-> m, to |-> to, place |-> -1], stakes)
    BY <1>0 DEF DutyRequestOK, DutyRequest, DutyId
  <2> QED
    BY <1>10, <2>1, DutyBegins DEF MilestoneLoad
<1>11. ASSUME NEW s \in DutySlot, UpdateMilestone(s) PROVE DutyInv'
  <2> DEFINE m == oreq[s].id
             row == [status |-> milestones[m].status, place |-> oreq[s].place, moved |-> TRUE]
  <2>1. m \in Milestone /\ oreq[s].place \in Place
    BY <1>0, <1>11 DEF DutyRequestsOK, DutyRequestOK, UpdateMilestone, DutyRequest
  <2>2. row \in MilestoneRow
    BY <1>0, <2>1 DEF DutiesOK, MilestoneRow
  <2>3. milestones' = [milestones EXCEPT ![m] = row]
    BY <1>11 DEF UpdateMilestone
  <2> HIDE DEF row, m
  <2>4. DutiesOK' /\ StakesStay
    BY <1>0, <1>11, <2>1, <2>2, <2>3 DEF DutiesOK, UpdateMilestone, StakesStay
  <2> QED
    BY <1>0, <1>11, <2>4, DutyEnds DEF DutyInv, UpdateMilestone
<1>12. ASSUME NEW s \in DutySlot, DeleteMilestone(s) PROVE DutyInv'
  <2>1. NoMilestone \in MilestoneRow
    BY <1>0 DEF NoMilestone, MilestoneRow
  <2>2. DutiesOK' /\ StakesStay
    BY <1>0, <1>12, <2>1 DEF DutiesOK, DeleteMilestone, StakesStay
  <2> QED
    BY <1>0, <1>12, <2>2, DutyEnds DEF DutyInv, DeleteMilestone
<1>13. ASSUME NEW s \in DutySlot, UpdateMilestoneStatus(s) PROVE DutyInv'
  <2> DEFINE m == oreq[s].id
             row == [milestones[m] EXCEPT !.status = oreq[s].to]
  <2>1. m \in Milestone /\ oreq[s].to \in MilestoneStatus
    BY <1>0, <1>13 DEF DutyRequestsOK, DutyRequestOK, UpdateMilestoneStatus
  <2>2. row \in MilestoneRow
    BY <1>0, <2>1 DEF DutiesOK, MilestoneRow
  <2>3. milestones' = [milestones EXCEPT ![m] = row]
    BY <1>13 DEF UpdateMilestoneStatus
  <2> HIDE DEF row, m
  <2>4. DutiesOK' /\ StakesStay
    BY <1>0, <1>13, <2>1, <2>2, <2>3 DEF DutiesOK, UpdateMilestoneStatus, StakesStay
  <2> QED
    BY <1>0, <1>13, <2>4, DutyEnds DEF DutyInv, UpdateMilestoneStatus
<1>14. ASSUME NEW k \in Contract, NEW buddy \in BOOLEAN, CreateContract(k, buddy)
       PROVE  DutyInv'
  <2> DEFINE row == [contracts[k] EXCEPT !.status = IF buddy THEN "pending" ELSE "active"]
  <2>1. row \in ContractRow
    BY <1>0 DEF DutiesOK, ContractRow, ContractStatus
  <2>2. contracts' = [contracts EXCEPT ![k] = row]
    BY <1>14 DEF CreateContract
  <2> HIDE DEF row
  <2>3. DutiesOK' /\ StakesStay
    BY <1>0, <1>14, <2>1, <2>2 DEF DutiesOK, CreateContract, StakesStay
  <2> QED
    BY <1>0, <1>14, <2>3, DutyRequestsStay DEF DutyInv, CreateContract
<1>15. ASSUME NEW s \in DutySlot, NEW k \in Contract, NEW to \in ContractStatus,
              ContractLoad(s, k, to)
       PROVE  DutyInv'
  <2>1. DutyRequestOK([step |-> "contract", id |-> k, to |-> to, place |-> -1], stakes)
    BY <1>0, <1>15 DEF DutyRequestOK, DutyRequest, DutyId, ContractLoad, CanTransitionTo
  <2> QED
    BY <1>15, <2>1, DutyBegins DEF ContractLoad
<1>16. ASSUME NEW s \in DutySlot, UpdateContractStatus(s) PROVE DutyInv'
  <2> DEFINE k == oreq[s].id
             row == [status |-> oreq[s].to,
                     stamps |-> contracts[k].stamps \cup ({oreq[s].to} \ {"active"})]
  <2>1. k \in Contract /\ oreq[s].to \in {"active", "fulfilled", "cancelled"}
    BY <1>0, <1>16 DEF DutyRequestsOK, DutyRequestOK, UpdateContractStatus
  <2>2. contracts[k].stamps \in SUBSET {"fulfilled", "cancelled"}
    BY <1>0, <2>1 DEF DutiesOK, ContractRow
  <2>3. row \in ContractRow
    BY <2>1, <2>2 DEF ContractRow, ContractStatus
  <2>4. contracts' = [contracts EXCEPT ![k] = row]
    BY <1>16 DEF UpdateContractStatus
  <2> HIDE DEF row, k
  <2>5. DutiesOK' /\ StakesStay
    BY <1>0, <1>16, <2>1, <2>3, <2>4 DEF DutiesOK, UpdateContractStatus, StakesStay
  <2> QED
    BY <1>0, <1>16, <2>5, DutyEnds DEF DutyInv, UpdateContractStatus
<1>17. CASE GoalIsLeft
  <2>1. DutiesOK' /\ StakesStay
    BY <1>0, <1>17 DEF DutiesOK, GoalIsLeft, StakesStay
  <2> QED
    BY <1>0, <1>17, <2>1, DutyRequestsStay DEF DutyInv, GoalIsLeft
<1>18. ASSUME NEW s \in DutySlot, DutyRequestFails(s) PROVE DutyInv'
  <2>1. DutiesOK' /\ StakesStay
    BY <1>0, <1>18 DEF DutiesOK, DutyRequestFails, StakesStay
  <2> QED
    BY <1>0, <1>18, <2>1, DutyEnds DEF DutyInv, DutyRequestFails
<1>19. CASE UNCHANGED dutyVars
  <2>1. DutiesOK' /\ StakesStay
    BY <1>0, <1>19 DEF DutiesOK, dutyVars, StakesStay
  <2> QED
    BY <1>0, <1>19, <2>1, DutyRequestsStay DEF DutyInv, dutyVars
<1>20. CASE StakesNext
  BY <1>20, <1>1, <1>2, <1>3, <1>4, <1>5 DEF StakesNext
<1>21. CASE MilestonesNext
  BY <1>0, <1>21, <1>6, <1>7, <1>8, <1>9, <1>10, <1>11, <1>12, <1>13 DEF MilestonesNext
<1>22. CASE ContractsNext
  BY <1>22, <1>14, <1>15, <1>16 DEF ContractsNext
<1> QED
  BY <1>17, <1>18, <1>19, <1>20, <1>21, <1>22 DEF ObligationsNext

\* The invariant of the tables and the requests, on which the rest builds.
THEOREM ObligationsAreWellFormed == ObligationsSpec => []DutyInv
BY DutyInvInit, DutyInvStep, PTL DEF ObligationsSpec

(* Stakes, milestones, contracts and the requests on them keep their       *)
(* types, and a forfeiture is only ever recorded for a settled stake.      *)
THEOREM ObligationsTyping == ObligationsSpec => []ObligationsTypeOK
BY ObligationsAreWellFormed, DutyInvGivesTypes, PTL

-----------------------------------------------------------------------------
(* Who holds the id of a row.                                              *)

\* The rows that are settled, by stakes S and contracts C.
SettledRow(id, S, C) ==
    \/ id \in Stake /\ S[id] \in Settled
    \/ id \in Contract /\ C[id].status \in {"fulfilled", "cancelled"}

\* Of the request that a step moves: it is about nothing, about what it was
\* about, or about a row that is not settled.
Moved(s, id) == \/ id = NoDuty
                \/ id = oreq[s].id
                \/ ~ SettledRow(id, stakes, contracts) /\ id \in DutyId

LEMMA WhoMoves ==
  ASSUME DutyInv, [ObligationsNext]_dutyVars
  PROVE  \/ UNCHANGED oreq
         \/ \E s \in DutySlot, r \in DutyRequest :
              oreq' = [oreq EXCEPT ![s] = r] /\ Moved(s, r.id)
<1>0. /\ DutyRequestsOK /\ -1 \in Place
      /\ \A s \in DutySlot : oreq[s] \in DutyRequest
  BY ObligationsAssumption DEF DutyInv, DutyRequestsOK, Place
<1> DEFINE Goal == \/ UNCHANGED oreq
                   \/ \E s \in DutySlot, r \in DutyRequest :
                        oreq' = [oreq EXCEPT ![s] = r] /\ Moved(s, r.id)
<1>1. ASSUME NEW s \in DutySlot, EndDuty(s) PROVE Goal
  <2>1. IdleDutyRequest \in DutyRequest /\ Moved(s, IdleDutyRequest.id)
    BY <1>0 DEF DutyRequest, DutyId, IdleDutyRequest, Moved
  <2> QED
    BY <1>1, <2>1 DEF EndDuty
<1>2. ASSUME NEW s \in DutySlot, NEW step, NEW p, DutyAt(s, step, p),
             step \in {"forfeiture", "addmilestone"}, p \in Place
      PROVE  Goal
  <2> DEFINE r == [step |-> step, id |-> oreq[s].id, to |-> oreq[s].to, place |-> p]
  <2>1. r \in DutyRequest /\ Moved(s, r.id) /\ oreq' = [oreq EXCEPT ![s] = r]
    BY <1>0, <1>2 DEF DutyRequest, Moved, DutyAt
  <2> QED
    BY <2>1
<1>3. ASSUME NEW s \in DutySlot, NEW step, NEW id \in DutyId, NEW to, NEW p \in Place,
             BeginDuty(s, step, id, to, p),
             step \in {"addstake", "stake", "order", "edit", "delete", "milestone", "contract"},
             to \in StakeStatus \cup MilestoneStatus \cup ContractStatus \cup {"none"},
             id = NoDuty \/ ~ SettledRow(id, stakes, contracts)
      PROVE  Goal
  <2> DEFINE r == [step |-> step, id |-> id, to |-> to, place |-> p]
  <2>1. r \in DutyRequest /\ Moved(s, r.id) /\ oreq' = [oreq EXCEPT ![s] = r]
    BY <1>3 DEF DutyRequest, Moved, BeginDuty
  <2> QED
    BY <2>1
<1> SUFFICES Goal
  OBVIOUS
<1> HIDE DEF Goal
<1>4. CASE StakesNext
  <2>1. ASSUME NEW s \in DutySlot, StakeCreateLoad(s) PROVE Goal
    BY <1>0, <1>3, <2>1 DEF StakeCreateLoad, DutyId
  <2>2. ASSUME NEW s \in DutySlot, NEW k \in Stake, NEW to \in {"cancelled", "forfeited"},
               StakeLoad(s, k, to)
        PROVE  Goal
    <3>1. ~ SettledRow(k, stakes, contracts) /\ k \in DutyId
      BY <2>2, ObligationsAssumption DEF StakeLoad, SettledRow, Settled, DutyId
    <3>2. BeginDuty(s, "stake", k, to, -1) /\ to \in StakeStatus
      BY <2>2 DEF StakeLoad, StakeStatus
    <3> QED
      BY <1>0, <1>3, <3>1, <3>2
  <2>3. ASSUME NEW s \in DutySlot, UpdateStakeStatus(s) PROVE Goal
    BY <1>0, <1>1, <1>2, <2>3 DEF UpdateStakeStatus
  <2>4. ASSUME NEW s \in DutySlot, InsertForfeiture(s) PROVE Goal
    BY <1>1, <2>4 DEF InsertForfeiture
  <2>5. ASSUME NEW s \in DutySlot, NEW k \in Stake, InsertStake(s, k) PROVE Goal
    BY <1>1, <2>5 DEF InsertStake
  <2> QED
    BY <1>4, <2>1, <2>2, <2>3, <2>4, <2>5 DEF StakesNext
<1>5. CASE MilestonesNext
  <2>0. ASSUME NEW m \in Milestone
        PROVE  m \in DutyId /\ ~ SettledRow(m, stakes, contracts)
    BY ObligationsAssumption DEF SettledRow, DutyId
  <2>1. ASSUME NEW s \in DutySlot, MilestoneCreateLoad(s) PROVE Goal
    BY <1>0, <1>3, <2>1 DEF MilestoneCreateLoad, DutyId
  <2>2. ASSUME NEW s \in DutySlot, ReadSortOrder(s) PROVE Goal
    BY <1>2, <2>2 DEF ReadSortOrder
  <2>3. ASSUME NEW s \in DutySlot, NEW m \in Milestone, NEW step \in {"edit", "delete"},
               NEW p \in Place, MilestoneEditLoad(s, m, step, p)
        PROVE  Goal
    BY <1>3, <2>0, <2>3 DEF MilestoneEditLoad
  <2>4. ASSUME NEW s \in DutySlot, NEW m \in Milestone, NEW to \in MilestoneStatus,
               MilestoneLoad(s, m, to)
        PROVE  Goal
    BY <1>0, <1>3, <2>0, <2>4 DEF MilestoneLoad
  <2>5. ASSUME NEW s \in DutySlot,
               UpdateMilestone(s) \/ DeleteMilestone(s) \/ UpdateMilestoneStatus(s)
                 \/ \E m \in Milestone : InsertMilestone(s, m)
        PROVE  Goal
    BY <1>1, <2>5 DEF UpdateMilestone, DeleteMilestone, UpdateMilestoneStatus, InsertMilestone
  <2> QED
    BY <1>0, <1>5, <2>1, <2>2, <2>3, <2>4, <2>5 DEF MilestonesNext
<1>6. CASE ContractsNext
  <2>1. ASSUME NEW k \in Contract, NEW buddy \in BOOLEAN, CreateContract(k, buddy) PROVE Goal
    BY <2>1 DEF CreateContract, Goal
  <2>2. ASSUME NEW s \in DutySlot, UpdateContractStatus(s) PROVE Goal
    BY <1>1, <2>2 DEF UpdateContractStatus
  <2>3. ASSUME NEW s \in DutySlot, NEW k \in Contract, NEW to \in ContractStatus,
               ContractLoad(s, k, to)
        PROVE  Goal
    <3>1. k \in DutyId /\ ~ SettledRow(k, stakes, contracts)
      BY <2>3, ObligationsAssumption DEF ContractLoad, CanTransitionTo, SettledRow, DutyId
    <3> QED
      BY <1>0, <1>3, <2>3, <3>1 DEF ContractLoad
  <2> QED
    BY <1>6, <2>1, <2>2, <2>3 DEF ContractsNext
<1>7. CASE GoalIsLeft \/ UNCHANGED dutyVars
  BY <1>7 DEF GoalIsLeft, dutyVars, Goal
<1>8. CASE \E s \in DutySlot : DutyRequestFails(s)
  BY <1>1, <1>8 DEF DutyRequestFails
<1> QED
  BY <1>4, <1>5, <1>6, <1>7, <1>8 DEF ObligationsNext

\* Nobody takes the id of a settled row.
LEMMA NobodyNew ==
  ASSUME DutyInv, [ObligationsNext]_dutyVars, NEW k \in Stake \cup Contract,
         SettledRow(k, stakes, contracts)
  PROVE  HoldersOf(k)' \subseteq HoldersOf(k)
<1>1. ASSUME NEW t \in DutySlot, oreq'[t].id = k PROVE oreq[t].id = k
  <2>1. CASE UNCHANGED oreq
    BY <1>1, <2>1
  <2>2. ASSUME NEW s \in DutySlot, NEW r \in DutyRequest,
               oreq' = [oreq EXCEPT ![s] = r], Moved(s, r.id)
        PROVE  oreq[t].id = k
    <3>1. oreq \in [DutySlot -> DutyRequest] /\ k # NoDuty
      BY ObligationsAssumption DEF DutyInv, DutyRequestsOK
    <3>2. CASE t = s
      BY <1>1, <2>2, <3>1, <3>2 DEF Moved
    <3>3. CASE t # s
      BY <1>1, <2>2, <3>1, <3>3
    <3> QED
      BY <3>2, <3>3
  <2> QED
    BY <2>1, <2>2, WhoMoves
<1> QED
  BY <1>1 DEF HoldersOf

\* Rows change by requests that hold their id.
LEMMA HoldersWrite ==
  ASSUME DutyInv, [ObligationsNext]_dutyVars
  PROVE  /\ \A k \in Stake : \/ stakes'[k] = stakes[k]
                            \/ stakes[k] = "absent"
                            \/ HoldersOf(k) # {}
         /\ \A k \in Contract : \/ contracts'[k] = contracts[k]
                               \/ contracts[k] = NoContract
                               \/ HoldersOf(k) # {}
         /\ \/ UNCHANGED forfeitures
            \/ \E s \in DutySlot : InsertForfeiture(s)
<1>0. DutiesOK
  BY DEF DutyInv
<1>1. CASE StakesNext
  BY <1>0, <1>1 DEF StakesNext, StakeCreateLoad, InsertStake, StakeLoad, UpdateStakeStatus,
                    InsertForfeiture, DutiesOK, HoldersOf
<1>2. CASE MilestonesNext
  BY <1>2 DEF MilestonesNext, MilestoneCreateLoad, ReadSortOrder, UpdateMilestone,
              DeleteMilestone, UpdateMilestoneStatus, InsertMilestone, MilestoneEditLoad,
              MilestoneLoad
<1>3. CASE ContractsNext
  BY <1>0, <1>3 DEF ContractsNext, CreateContract, ContractLoad, UpdateContractStatus,
                    DutiesOK, HoldersOf
<1>4. CASE GoalIsLeft \/ (\E s \in DutySlot : DutyRequestFails(s)) \/ UNCHANGED dutyVars
  BY <1>4 DEF GoalIsLeft, DutyRequestFails, dutyVars
<1> QED
  BY <1>1, <1>2, <1>3, <1>4 DEF ObligationsNext

\* A settled stake is only ever settled otherwise.
LEMMA StakesKeepSettled ==
  ASSUME DutyInv, [ObligationsNext]_dutyVars
  PROVE  StakesStay
<1>0. /\ stakes \in [Stake -> StakeStatus \cup {"absent"}]
      /\ \A s \in DutySlot : DutyRequestOK(oreq[s], stakes)
  BY DEF DutyInv, DutiesOK, DutyRequestsOK
<1>1. ASSUME NEW s \in DutySlot, UpdateStakeStatus(s) PROVE StakesStay
  BY <1>0, <1>1 DEF UpdateStakeStatus, DutyRequestOK, StakesStay
<1>2. ASSUME NEW s \in DutySlot, NEW k \in Stake, InsertStake(s, k) PROVE StakesStay
  BY <1>0, <1>2 DEF InsertStake, StakesStay, Settled
<1>3. CASE UNCHANGED stakes
  BY <1>3 DEF StakesStay
<1>4. \/ UNCHANGED stakes
      \/ \E s \in DutySlot : UpdateStakeStatus(s) \/ \E k \in Stake : InsertStake(s, k)
  BY DEF ObligationsNext, StakesNext, StakeCreateLoad, StakeLoad, InsertForfeiture,
         MilestonesNext, MilestoneCreateLoad, ReadSortOrder, UpdateMilestone,
         DeleteMilestone, UpdateMilestoneStatus, InsertMilestone, MilestoneEditLoad,
         MilestoneLoad, ContractsNext, CreateContract, ContractLoad, UpdateContractStatus,
         GoalIsLeft, DutyRequestFails, dutyVars
<1> QED
  BY <1>1, <1>2, <1>3, <1>4

(* What is settled can be overwritten by the requests that hold it, and by *)
(* nobody else: a settled stake or contract nobody holds is final.         *)
THEOREM SettledIsFinal == ObligationsSpec => SettledObligationsAreFinal
<1>1. DutyInv /\ [ObligationsNext]_dutyVars =>
        [/\ \A k \in Stake :
              stakes[k] \in {"forfeited", "cancelled"} /\ HoldersOf(k) = {}
              => stakes'[k] = stakes[k] /\ HoldersOf(k)' = {}
         /\ \A k \in Contract :
              ContractSettled(k) /\ HoldersOf(k) = {}
              => contracts'[k] = contracts[k] /\ HoldersOf(k)' = {}]_dutyVars
  <2> SUFFICES ASSUME DutyInv, [ObligationsNext]_dutyVars
               PROVE  /\ \A k \in Stake :
                           stakes[k] \in {"forfeited", "cancelled"} /\ HoldersOf(k) = {}
                           => stakes'[k] = stakes[k] /\ HoldersOf(k)' = {}
                      /\ \A k \in Contract :
                           ContractSettled(k) /\ HoldersOf(k) = {}
                           => contracts'[k] = contracts[k] /\ HoldersOf(k)' = {}
    OBVIOUS
  <2>1. ASSUME NEW k \in Stake, stakes[k] \in {"forfeited", "cancelled"}, HoldersOf(k) = {}
        PROVE  stakes'[k] = stakes[k] /\ HoldersOf(k)' = {}
    <3>1. HoldersOf(k)' \subseteq HoldersOf(k)
      BY <2>1, NobodyNew DEF SettledRow, Settled
    <3>2. stakes'[k] = stakes[k]
      BY <2>1, HoldersWrite
    <3> QED
      BY <2>1, <3>1, <3>2
  <2>2. ASSUME NEW k \in Contract, ContractSettled(k), HoldersOf(k) = {}
        PROVE  contracts'[k] = contracts[k] /\ HoldersOf(k)' = {}
    <3>1. HoldersOf(k)' \subseteq HoldersOf(k)
      BY <2>2, NobodyNew DEF SettledRow, ContractSettled
    <3>2. contracts[k] # NoContract
      BY <2>2 DEF ContractSettled, NoContract
    <3>3. contracts'[k] = contracts[k]
      BY <2>2, <3>2, HoldersWrite
    <3> QED
      BY <2>2, <3>1, <3>3
  <2> QED
    BY <2>1, <2>2
<1> QED
  BY <1>1, ObligationsAreWellFormed, PTL DEF ObligationsSpec, SettledObligationsAreFinal

-----------------------------------------------------------------------------
(* Forfeitures.                                                            *)

LEMMA HoldersAreCounted ==
  ASSUME NEW k
  PROVE  /\ IsFiniteSet(HoldersOf(k)) /\ Cardinality(HoldersOf(k)) \in Nat
         /\ Cardinality(HoldersOf(k)) <= Cardinality(DutySlot)
         /\ Cardinality(DutySlot) \in Nat
<1>1. HoldersOf(k) \subseteq DutySlot /\ IsFiniteSet(DutySlot)
  BY ObligationsAssumption DEF HoldersOf
<1> QED
  BY <1>1, FS_Subset, FS_CardinalityType

\* ForfeitureBacked, of one stake.
Backed(k) ==
    forfeitures[k] > 0 =>
        /\ stakes[k] \in {"forfeited", "cancelled"}
        /\ forfeitures[k] + Cardinality(HoldersOf(k)) <= Cardinality(DutySlot)

LEMMA HoldersShrink ==
  ASSUME NEW k, NEW H, H \subseteq HoldersOf(k)
  PROVE  IsFiniteSet(H) /\ Cardinality(H) \in Nat /\ Cardinality(H) <= Cardinality(HoldersOf(k))
BY HoldersAreCounted, FS_Subset, FS_CardinalityType

LEMMA ForfeitureStep ==
  ASSUME DutyInv, [ObligationsNext]_dutyVars, NEW k \in Stake, Backed(k)
  PROVE  Backed(k)'
<1> DEFINE n == Cardinality(HoldersOf(k))
           m == Cardinality(HoldersOf(k)')
           all == Cardinality(DutySlot)
<1>0. /\ forfeitures \in [Stake -> Nat] /\ forfeitures[k] \in Nat
      /\ DutiesOK /\ DutyRequestsOK
      /\ n \in Nat /\ n <= all /\ all \in Nat
  BY HoldersAreCounted DEF DutyInv, DutiesOK
<1>1. CASE UNCHANGED forfeitures /\ forfeitures[k] > 0
  <2>1. stakes[k] \in Settled /\ forfeitures[k] + n <= all
    BY <1>1 DEF Backed, Settled
  <2>2. HoldersOf(k)' \subseteq HoldersOf(k)
    BY <2>1, NobodyNew DEF SettledRow
  <2>3. m \in Nat /\ m <= n
    BY <2>2, HoldersShrink
  <2>4. stakes'[k] \in Settled
    BY <2>1, StakesKeepSettled DEF StakesStay
  <2> HIDE DEF n, m, all
  <2>5. forfeitures[k] + m <= all
    BY <1>0, <2>1, <2>3
  <2> QED
    BY <1>1, <2>4, <2>5 DEF Backed, m, all, Settled
<1>2. CASE UNCHANGED forfeitures /\ ~ (forfeitures[k] > 0)
  BY <1>2 DEF Backed
<1>3. ASSUME NEW s \in DutySlot, InsertForfeiture(s), oreq[s].id # k PROVE Backed(k)'
  <2>1. /\ forfeitures'[k] = forfeitures[k] /\ UNCHANGED stakes
        /\ oreq' = [oreq EXCEPT ![s] = IdleDutyRequest]
    BY <1>0, <1>3 DEF InsertForfeiture, EndDuty
  <2>2. HoldersOf(k)' = HoldersOf(k)
    BY <1>0, <1>3, <2>1, ObligationsAssumption DEF HoldersOf, DutyRequestsOK, IdleDutyRequest
  <2> QED
    BY <2>1, <2>2 DEF Backed
<1>4. ASSUME NEW s \in DutySlot, InsertForfeiture(s), oreq[s].id = k PROVE Backed(k)'
  <2>1. stakes[k] \in Settled
    BY <1>0, <1>4 DEF DutyRequestsOK, DutyRequestOK, InsertForfeiture
  <2>2. /\ forfeitures'[k] = forfeitures[k] + 1 /\ UNCHANGED stakes
        /\ oreq' = [oreq EXCEPT ![s] = IdleDutyRequest]
    BY <1>0, <1>4 DEF InsertForfeiture, EndDuty
  <2>3. HoldersOf(k)' = HoldersOf(k) \ {s} /\ s \in HoldersOf(k)
    BY <1>0, <1>4, <2>2, ObligationsAssumption DEF HoldersOf, DutyRequestsOK, IdleDutyRequest
  <2>4. m = n - 1 /\ m \in Nat
    BY <2>3, HoldersAreCounted, HoldersShrink, FS_RemoveElement
  <2>5. forfeitures[k] > 0 => forfeitures[k] + n <= all
    BY DEF Backed
  <2> HIDE DEF n, m, all
  <2>6. forfeitures'[k] + m <= all
    BY <1>0, <2>2, <2>4, <2>5
  <2> QED
    BY <2>1, <2>2, <2>6 DEF Backed, m, all, Settled
<1> QED
  BY <1>1, <1>2, <1>3, <1>4, HoldersWrite

(* However cancelling and forfeiting overwrite one another, a stake gets   *)
(* no more forfeitures than requests were about it while it was active,    *)
(* and none before it was settled.                                         *)
THEOREM ForfeituresAreBacked == ObligationsSpec => []ForfeitureBacked
<1>1. ObligationsInit => ForfeitureBacked
  BY DEF ObligationsInit, ForfeitureBacked
<1>2. DutyInv /\ ForfeitureBacked /\ [ObligationsNext]_dutyVars => ForfeitureBacked'
  <2> SUFFICES ASSUME DutyInv, ForfeitureBacked, [ObligationsNext]_dutyVars,
                      NEW k \in Stake
               PROVE  Backed(k)'
    BY DEF ForfeitureBacked, Backed
  <2> QED
    BY ForfeitureStep DEF ForfeitureBacked, Backed
<1> QED
  BY <1>1, <1>2, ObligationsAreWellFormed, PTL DEF ObligationsSpec

-----------------------------------------------------------------------------
(* The places of milestones.  Whoever reads the order goes behind all that *)
(* are there, so the place it takes is free: the milestones that share it  *)
(* come from requests that read the order before the first was written,    *)
(* and each of those is still in flight or became one of them.             *)

\* The largest of a set of places is one of them.
LEMMA LargestPlace ==
  ASSUME NEW T \in SUBSET Place, T # {}
  PROVE  Max(T) \in T /\ \A q \in T : q <= Max(T)
<1> DEFINE R == OpToRel(<, Nat)
           below == {MaxPlace - q : q \in T}
<1>0. MaxPlace \in Nat /\ T \in SUBSET Int /\ \A q \in T : q <= MaxPlace
  BY ObligationsAssumption DEF Place
<1>1. IsWellFoundedOn(R, Nat)
  BY NatLessThanWellFounded, Zenon
<1>2. \A x, y \in Nat : x < y => <<x, y>> \in R
  BY DEF OpToRel
<1>3. below \in SUBSET Nat /\ below # {}
  <2>1. \A q \in T : MaxPlace - q \in Nat
    BY <1>0
  <2> QED
    BY <2>1
<1> HIDE DEF R
<1>4. PICK n \in below : \A m \in below : ~ (<<m, n>> \in R)
  <2> HIDE DEF below
  <2> QED
    BY <1>1, <1>3, WFMin
<1>5. \A m \in below : ~ (m < n)
  BY <1>2, <1>3, <1>4
<1>6. PICK p \in T : n = MaxPlace - p
  BY <1>4
<1>7. \A q \in T : ~ (MaxPlace - q < n)
  BY <1>5
<1>8. \A q \in T : p >= q
  BY <1>0, <1>6, <1>7
<1>9. Max(T) \in T /\ \A q \in T : Max(T) >= q
  BY <1>8 DEF Max
<1> QED
  BY <1>0, <1>9

\* The milestones of the table M at place p that the owner did not move, and
\* the requests that will insert one there.
Unmoved(M, p) ==
    {m \in Milestone : M[m].status # "absent" /\ M[m].place = p /\ ~ M[m].moved}

Putting(O, p) == {s \in DutySlot : O[s].step = "addmilestone" /\ O[s].place = p}

Fits(M, O, p) ==
    Cardinality(Unmoved(M, p)) + Cardinality(Putting(O, p)) <= Cardinality(DutySlot)

PlacesFit == \A p \in Place : Fits(milestones, oreq, p)

LEMMA CountsAreNat ==
  ASSUME NEW M, NEW O, NEW p
  PROVE  /\ IsFiniteSet(Unmoved(M, p)) /\ Cardinality(Unmoved(M, p)) \in Nat
         /\ IsFiniteSet(Putting(O, p)) /\ Cardinality(Putting(O, p)) \in Nat
         /\ Cardinality(Putting(O, p)) <= Cardinality(DutySlot)
         /\ Cardinality(DutySlot) \in Nat
<1>1. Unmoved(M, p) \subseteq Milestone /\ Putting(O, p) \subseteq DutySlot
  BY DEF Unmoved, Putting
<1> QED
  BY <1>1, ObligationsAssumption, FS_Subset, FS_CardinalityType

\* Nothing is added at the place.
LEMMA FitsWhenLess ==
  ASSUME NEW M, NEW O, NEW N, NEW P, NEW p, Fits(M, O, p),
         Unmoved(N, p) \subseteq Unmoved(M, p), Putting(P, p) \subseteq Putting(O, p)
  PROVE  Fits(N, P, p)
<1>1. /\ Cardinality(Unmoved(N, p)) <= Cardinality(Unmoved(M, p))
      /\ Cardinality(Putting(P, p)) <= Cardinality(Putting(O, p))
  BY CountsAreNat, FS_Subset
<1>2. /\ Cardinality(Unmoved(M, p)) \in Nat /\ Cardinality(Unmoved(N, p)) \in Nat
      /\ Cardinality(Putting(O, p)) \in Nat /\ Cardinality(Putting(P, p)) \in Nat
      /\ Cardinality(DutySlot) \in Nat
  BY CountsAreNat
<1> QED
  BY <1>1, <1>2 DEF Fits

\* A request at the place becomes a milestone at the place.
LEMMA FitsWhenInserted ==
  ASSUME NEW M, NEW O, NEW N, NEW P, NEW p, NEW s, NEW m, Fits(M, O, p),
         s \in Putting(O, p), Putting(P, p) \subseteq Putting(O, p) \ {s},
         Unmoved(N, p) \subseteq Unmoved(M, p) \cup {m}
  PROVE  Fits(N, P, p)
<1> DEFINE U == Unmoved(M, p)
           V == Unmoved(N, p)
           A == Putting(O, p)
           B == Putting(P, p)
<1>1. /\ IsFiniteSet(U) /\ IsFiniteSet(V) /\ IsFiniteSet(A) /\ IsFiniteSet(B)
      /\ Cardinality(U) \in Nat /\ Cardinality(V) \in Nat
      /\ Cardinality(A) \in Nat /\ Cardinality(B) \in Nat /\ Cardinality(DutySlot) \in Nat
  BY CountsAreNat
<1>2. /\ V \subseteq U \cup {m} /\ B \subseteq A \ {s} /\ s \in A
      /\ Cardinality(U) + Cardinality(A) <= Cardinality(DutySlot)
  BY DEF Fits
<1> HIDE DEF U, V, A, B
<1>3. IsFiniteSet(U \cup {m}) /\ Cardinality(U \cup {m}) <= Cardinality(U) + 1
                              /\ Cardinality(U \cup {m}) \in Nat
  <2>1. /\ IsFiniteSet(U \cup {m})
        /\ Cardinality(U \cup {m}) = Cardinality(U)
             \/ Cardinality(U \cup {m}) = Cardinality(U) + 1
    <3>1. CASE m \in U
      <4>1. U \cup {m} = U
        BY <3>1
      <4> QED
        BY <1>1, <4>1
    <3>2. CASE m \notin U
      BY <1>1, <3>2, FS_AddElement
    <3> QED
      BY <3>1, <3>2
  <2> QED
    BY <1>1, <2>1
<1>4. Cardinality(A \ {s}) = Cardinality(A) - 1 /\ IsFiniteSet(A \ {s})
  BY <1>1, <1>2, FS_RemoveElement
<1>5. Cardinality(V) <= Cardinality(U \cup {m}) /\ Cardinality(B) <= Cardinality(A \ {s})
  BY <1>2, <1>3, <1>4, FS_Subset
<1>6. Cardinality(V) + Cardinality(B) <= Cardinality(DutySlot)
  BY <1>1, <1>2, <1>3, <1>4, <1>5
<1> QED
  BY <1>6 DEF Fits, U, V, A, B

\* The place is free of milestones: there are no more requests than slots.
LEMMA FitsWhenFree ==
  ASSUME NEW M, NEW O, NEW p, Unmoved(M, p) = {}
  PROVE  Fits(M, O, p)
<1>1. Cardinality(Unmoved(M, p)) = 0
  BY FS_EmptySet
<1>2. Cardinality(Putting(O, p)) \in Nat /\ Cardinality(Putting(O, p)) <= Cardinality(DutySlot)
      /\ Cardinality(DutySlot) \in Nat
  BY CountsAreNat
<1> QED
  BY <1>1, <1>2 DEF Fits

LEMMA PlacesFitInit == ObligationsInit => PlacesFit
<1> SUFFICES ASSUME ObligationsInit, NEW p \in Place PROVE Fits(milestones, oreq, p)
  BY DEF PlacesFit
<1>1. Unmoved(milestones, p) = {}
  BY DEF ObligationsInit, NoMilestone, Unmoved
<1> QED
  BY <1>1, FitsWhenFree

\* The new place is above all that are taken.
LEMMA OrderIsFree ==
  ASSUME DutyInv
  PROVE  Unmoved(milestones, NextSortOrder) = {}
<1>0. milestones \in [Milestone -> MilestoneRow]
  BY DEF DutyInv, DutiesOK
<1> SUFFICES ASSUME NEW m \in Unmoved(milestones, NextSortOrder) PROVE FALSE
  OBVIOUS
<1> DEFINE T == {milestones[n].place : n \in Present}
<1>1. m \in Present /\ milestones[m].place = NextSortOrder
  BY DEF Unmoved, Present
<1>2. T \in SUBSET Place /\ T # {} /\ milestones[m].place \in T
  <2>1. \A n \in Present : milestones[n].place \in Place
    BY <1>0 DEF Present, MilestoneRow
  <2> QED
    BY <1>1, <2>1
<1>3. NextSortOrder = Max(T) + 1
  BY <1>1 DEF NextSortOrder
<1> HIDE DEF T
<1>4. Max(T) \in T /\ milestones[m].place <= Max(T)
  BY <1>2, LargestPlace
<1>5. Max(T) \in Int
  BY <1>2, <1>4 DEF Place
<1> QED
  BY <1>1, <1>3, <1>4, <1>5

\* A step that moves one request, to a step that inserts nothing.
LEMMA NoNewPlace ==
  ASSUME NEW s \in DutySlot, NEW r, DutyRequestsOK, oreq' = [oreq EXCEPT ![s] = r],
         r.step # "addmilestone", NEW p
  PROVE  Putting(oreq', p) \subseteq Putting(oreq, p) \ {s}
BY DEF DutyRequestsOK, Putting

LEMMA PlacesStay ==
  ASSUME PlacesFit, NEW s \in DutySlot, NEW r, DutyRequestsOK, oreq' = [oreq EXCEPT ![s] = r],
         r.step # "addmilestone",
         \A p \in Place : Unmoved(milestones', p) \subseteq Unmoved(milestones, p)
  PROVE  PlacesFit'
<1> SUFFICES ASSUME NEW p \in Place PROVE Fits(milestones', oreq', p)
  BY DEF PlacesFit
<1>1. Putting(oreq', p) \subseteq Putting(oreq, p)
  BY NoNewPlace
<1>2. Fits(milestones, oreq, p)
  BY DEF PlacesFit
<1> QED
  BY <1>1, <1>2, FitsWhenLess

LEMMA PlacesEnd ==
  ASSUME PlacesFit, NEW s \in DutySlot, DutyRequestsOK, EndDuty(s),
         \A p \in Place : Unmoved(milestones', p) \subseteq Unmoved(milestones, p)
  PROVE  PlacesFit'
<1>1. oreq' = [oreq EXCEPT ![s] = IdleDutyRequest] /\ IdleDutyRequest.step # "addmilestone"
  BY DEF EndDuty, IdleDutyRequest
<1> QED
  BY <1>1, PlacesStay

LEMMA PlacesBegin ==
  ASSUME PlacesFit, NEW s \in DutySlot, NEW step, NEW id, NEW to, NEW place, DutyRequestsOK,
         BeginDuty(s, step, id, to, place), step # "addmilestone", UNCHANGED milestones
  PROVE  PlacesFit'
<1> DEFINE r == [step |-> step, id |-> id, to |-> to, place |-> place]
<1>1. oreq' = [oreq EXCEPT ![s] = r] /\ r.step # "addmilestone"
  BY DEF BeginDuty
<1> HIDE DEF r
<1> QED
  BY <1>1, PlacesStay

LEMMA PlacesRead ==
  ASSUME PlacesFit, DutyInv, NEW s \in DutySlot, ReadSortOrder(s)
  PROVE  PlacesFit'
<1> DEFINE q == NextSortOrder
           r == [step |-> "addmilestone", id |-> oreq[s].id, to |-> oreq[s].to, place |-> q]
<1> SUFFICES ASSUME NEW p \in Place PROVE Fits(milestones', oreq', p)
  BY DEF PlacesFit
<1>1. oreq' = [oreq EXCEPT ![s] = r] /\ milestones' = milestones
  BY DEF ReadSortOrder, DutyAt
<1>2. r.place = q
  OBVIOUS
<1>3. Unmoved(milestones, q) = {}
  BY OrderIsFree
<1> HIDE DEF q, r
<1>4. CASE p = q
  BY <1>1, <1>3, <1>4, FitsWhenFree
<1>5. CASE p # q
  <2>1. Putting(oreq', p) \subseteq Putting(oreq, p)
    BY <1>1, <1>2, <1>5 DEF DutyInv, DutyRequestsOK, Putting
  <2>2. Fits(milestones, oreq, p)
    BY DEF PlacesFit
  <2> QED
    BY <1>1, <2>1, <2>2, FitsWhenLess
<1> QED
  BY <1>4, <1>5

LEMMA PlacesInsert ==
  ASSUME PlacesFit, DutyInv, NEW s \in DutySlot, NEW m \in Milestone, InsertMilestone(s, m)
  PROVE  PlacesFit'
<1> DEFINE q == oreq[s].place
<1>1. SUFFICES ASSUME NEW p \in Place PROVE Fits(milestones', oreq', p)
  BY DEF PlacesFit
<1>2. /\ milestones' = [milestones EXCEPT ![m] =
             [status |-> "pending", place |-> q, moved |-> FALSE]]
      /\ milestones[m] = NoMilestone /\ oreq[s].step = "addmilestone"
  BY DEF InsertMilestone
<1>3. Putting(oreq', p) \subseteq Putting(oreq, p) \ {s}
  <2>1. oreq' = [oreq EXCEPT ![s] = IdleDutyRequest] /\ IdleDutyRequest.step # "addmilestone"
    BY DEF InsertMilestone, EndDuty, IdleDutyRequest
  <2> QED
    BY <2>1, NoNewPlace DEF DutyInv
<1>4. Fits(milestones, oreq, p)
  BY DEF PlacesFit
<1>5. CASE p = q
  <2>1. s \in Putting(oreq, p)
    BY <1>2, <1>5 DEF Putting
  <2>2. Unmoved(milestones', p) \subseteq Unmoved(milestones, p) \cup {m}
    BY <1>2 DEF Unmoved, DutyInv, DutiesOK
  <2> QED
    BY <1>3, <1>4, <2>1, <2>2, FitsWhenInserted
<1>6. CASE p # q
  <2>1. Unmoved(milestones', p) \subseteq Unmoved(milestones, p)
    BY <1>2, <1>6 DEF Unmoved, DutyInv, DutiesOK
  <2> QED
    BY <1>3, <1>4, <2>1, FitsWhenLess
<1> QED
  BY <1>5, <1>6

\* What the owner or the buddy writes by id adds no milestone to a place: an
\* edit moves it, a removal takes it out, a status leaves it where it is.
LEMMA PlacesWritten ==
  ASSUME DutyInv, NEW s \in DutySlot, NEW p \in Place,
         UpdateMilestone(s) \/ DeleteMilestone(s) \/ UpdateMilestoneStatus(s)
  PROVE  Unmoved(milestones', p) \subseteq Unmoved(milestones, p)
<1> DEFINE m == oreq[s].id
<1>0. milestones \in [Milestone -> MilestoneRow]
  BY DEF DutyInv, DutiesOK
<1>1. CASE UpdateMilestone(s)
  BY <1>0, <1>1 DEF UpdateMilestone, Unmoved
<1>2. CASE DeleteMilestone(s)
  BY <1>0, <1>2 DEF DeleteMilestone, Unmoved, NoMilestone
<1>3. CASE UpdateMilestoneStatus(s)
  <2>1. m \in Present /\ milestones' = [milestones EXCEPT ![m].status = oreq[s].to]
    BY <1>3 DEF UpdateMilestoneStatus
  <2>2. \A n \in Milestone : /\ milestones'[n].place = milestones[n].place
                             /\ milestones'[n].moved = milestones[n].moved
                             /\ milestones'[n].status # "absent" => n \in Present
    BY <1>0, <2>1 DEF MilestoneRow, Present
  <2> QED
    BY <2>2 DEF Unmoved, Present
<1> QED
  BY <1>1, <1>2, <1>3

LEMMA PlacesFitStep == PlacesFit /\ DutyInv /\ [ObligationsNext]_dutyVars => PlacesFit'
<1> SUFFICES ASSUME PlacesFit, DutyInv, [ObligationsNext]_dutyVars PROVE PlacesFit'
  OBVIOUS
<1>0. DutyRequestsOK
  BY DEF DutyInv
<1>1. ASSUME UNCHANGED milestones
      PROVE  \A p \in Place : Unmoved(milestones', p) \subseteq Unmoved(milestones, p)
  BY <1>1
<1>2. ASSUME NEW s \in DutySlot, EndDuty(s), UNCHANGED milestones PROVE PlacesFit'
  BY <1>0, <1>1, <1>2, PlacesEnd
<1>3. ASSUME UNCHANGED <<milestones, oreq>> PROVE PlacesFit'
  BY <1>3 DEF PlacesFit
<1>4. CASE StakesNext
  <2>1. ASSUME NEW s \in DutySlot, StakeCreateLoad(s) PROVE PlacesFit'
    BY <1>0, <2>1, PlacesBegin DEF StakeCreateLoad
  <2>2. ASSUME NEW s \in DutySlot, NEW k \in Stake, NEW to, StakeLoad(s, k, to)
        PROVE  PlacesFit'
    BY <1>0, <2>2, PlacesBegin DEF StakeLoad
  <2>3. ASSUME NEW s \in DutySlot, UpdateStakeStatus(s) PROVE PlacesFit'
    <3>1. CASE EndDuty(s)
      BY <1>2, <2>3, <3>1 DEF UpdateStakeStatus
    <3>2. CASE DutyAt(s, "forfeiture", -1)
      <4> DEFINE r == [step |-> "forfeiture", id |-> oreq[s].id, to |-> oreq[s].to,
                       place |-> -1]
      <4>1. oreq' = [oreq EXCEPT ![s] = r] /\ r.step # "addmilestone" /\ UNCHANGED milestones
        BY <2>3, <3>2 DEF DutyAt, UpdateStakeStatus
      <4> HIDE DEF r
      <4> QED
        BY <1>0, <1>1, <4>1, PlacesStay
    <3> QED
      BY <2>3, <3>1, <3>2 DEF UpdateStakeStatus
  <2>4. ASSUME NEW s \in DutySlot, InsertForfeiture(s) PROVE PlacesFit'
    BY <1>2, <2>4 DEF InsertForfeiture
  <2>5. ASSUME NEW s \in DutySlot, NEW k \in Stake, InsertStake(s, k) PROVE PlacesFit'
    BY <1>2, <2>5 DEF InsertStake
  <2> QED
    BY <1>4, <2>1, <2>2, <2>3, <2>4, <2>5 DEF StakesNext
<1>5. CASE MilestonesNext
  <2>1. ASSUME NEW s \in DutySlot, MilestoneCreateLoad(s) PROVE PlacesFit'
    BY <1>0, <2>1, PlacesBegin DEF MilestoneCreateLoad
  <2>2. ASSUME NEW s \in DutySlot, ReadSortOrder(s) PROVE PlacesFit'
    BY <2>2, PlacesRead
  <2>3. ASSUME NEW s \in DutySlot, NEW m \in Milestone, NEW step \in {"edit", "delete"},
               NEW p, MilestoneEditLoad(s, m, step, p)
        PROVE  PlacesFit'
    BY <1>0, <2>3, PlacesBegin DEF MilestoneEditLoad
  <2>4. ASSUME NEW s \in DutySlot, NEW m \in Milestone, NEW to, MilestoneLoad(s, m, to)
        PROVE  PlacesFit'
    BY <1>0, <2>4, PlacesBegin DEF MilestoneLoad
  <2>5. ASSUME NEW s \in DutySlot, NEW m \in Milestone, InsertMilestone(s, m)
        PROVE  PlacesFit'
    BY <2>5, PlacesInsert
  <2>6. ASSUME NEW s \in DutySlot,
               UpdateMilestone(s) \/ DeleteMilestone(s) \/ UpdateMilestoneStatus(s)
        PROVE  PlacesFit'
    <3>1. EndDuty(s)
      BY <2>6 DEF UpdateMilestone, DeleteMilestone, UpdateMilestoneStatus
    <3>2. \A p \in Place : Unmoved(milestones', p) \subseteq Unmoved(milestones, p)
      BY <2>6, PlacesWritten
    <3> QED
      BY <1>0, <3>1, <3>2, PlacesEnd
  <2> QED
    BY <1>5, <2>1, <2>2, <2>3, <2>4, <2>5, <2>6 DEF MilestonesNext
<1>6. CASE ContractsNext
  <2>1. ASSUME NEW k \in Contract, NEW buddy, CreateContract(k, buddy) PROVE PlacesFit'
    BY <1>3, <2>1 DEF CreateContract
  <2>2. ASSUME NEW s \in DutySlot, NEW k \in Contract, NEW to, ContractLoad(s, k, to)
        PROVE  PlacesFit'
    BY <1>0, <2>2, PlacesBegin DEF ContractLoad
  <2>3. ASSUME NEW s \in DutySlot, UpdateContractStatus(s) PROVE PlacesFit'
    BY <1>2, <2>3 DEF UpdateContractStatus
  <2> QED
    BY <1>6, <2>1, <2>2, <2>3 DEF ContractsNext
<1>7. CASE GoalIsLeft
  BY <1>3, <1>7 DEF GoalIsLeft
<1>8. ASSUME NEW s \in DutySlot, DutyRequestFails(s) PROVE PlacesFit'
  BY <1>2, <1>8 DEF DutyRequestFails
<1>9. CASE UNCHANGED dutyVars
  BY <1>3, <1>9 DEF dutyVars
<1> QED
  BY <1>4, <1>5, <1>6, <1>7, <1>8, <1>9 DEF ObligationsNext

LEMMA PlacesFitIsEnough == PlacesFit => PlacesShared
<1> SUFFICES ASSUME PlacesFit, NEW p \in Place
             PROVE  Cardinality(Unmoved(milestones, p)) <= Cardinality(DutySlot)
  BY DEF PlacesShared, Unmoved, Present
<1>1. Fits(milestones, oreq, p)
  BY DEF PlacesFit
<1>2. /\ Cardinality(Unmoved(milestones, p)) \in Nat
      /\ Cardinality(Putting(oreq, p)) \in Nat /\ Cardinality(DutySlot) \in Nat
  BY CountsAreNat
<1> QED
  BY <1>1, <1>2 DEF Fits

(* However many milestones are created at once, no more of them share a    *)
(* place of the list than there are requests in flight.                    *)
THEOREM PlacesAreShared == ObligationsSpec => []PlacesShared
<1>1. ObligationsInit => PlacesFit
  BY PlacesFitInit
<1>2. PlacesFit /\ DutyInv /\ [ObligationsNext]_dutyVars => PlacesFit'
  BY PlacesFitStep
<1>3. PlacesFit => PlacesShared
  BY PlacesFitIsEnough
<1> QED
  BY <1>1, <1>2, <1>3, ObligationsAreWellFormed, PTL DEF ObligationsSpec

=============================================================================
