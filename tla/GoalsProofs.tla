----------------------------- MODULE GoalsProofs -----------------------------
(* The safety properties of the goals service, for any number of users,    *)
(* circles, goals and concurrent requests.  The argument is layered: types *)
(* first, then the agreement of the three tables, then the memberships,    *)
(* then what the partial unique index guards, each invariant resting on    *)
(* the ones before it.  First comes what a limit is worth that is checked  *)
(* and taken in two statements, the promise that the refine quota keeps.   *)
EXTENDS Goals, CheckThenInsert, FiniteSetTheorems, TLAPS

-----------------------------------------------------------------------------
(* A limit that is checked and taken in two statements.                    *)

(* The count is a number and only known requests have passed the check.    *)
THEOREM Typing == Spec => []TypeOK
<1>1. Init => TypeOK
  BY DEF Init, TypeOK
<1>2. TypeOK /\ [Next]_vars => TypeOK'
  <2> SUFFICES ASSUME TypeOK, [Next]_vars PROVE TypeOK'
    OBVIOUS
  <2>1. CASE Forget
    BY <2>1 DEF TypeOK, Forget
  <2>2. ASSUME NEW s \in Slot, Check(s) \/ Insert(s) \/ Drop(s) PROVE TypeOK'
    BY <2>2 DEF TypeOK, Check, Insert, Drop
  <2>3. CASE UNCHANGED vars
    BY <2>3 DEF TypeOK, vars
  <2> QED
    BY <2>1, <2>2, <2>3 DEF Next
<1> QED
  BY <1>1, <1>2, PTL DEF Spec

(* Any set of requests is finite, and no larger than the set of all.       *)
LEMMA PassedIsFinite ==
  ASSUME LimitOK, NEW S \in SUBSET Slot
  PROVE /\ IsFiniteSet(S)
        /\ Cardinality(S) \in Nat
        /\ Cardinality(S) <= Cardinality(Slot)
        /\ Cardinality(Slot) \in Nat
BY FS_Subset, FS_CardinalityType DEF LimitOK

(* Bounded is inductive: a request that passes the check takes a place     *)
(* that was free both in the table and among the requests.                 *)
THEOREM Overshoot ==
  ASSUME LimitOK
  PROVE  Spec => []Bounded
<1> USE DEF LimitOK
<1>1. Init => Bounded
  BY FS_EmptySet, FS_CardinalityType DEF Init, Bounded
<1>2. TypeOK /\ Bounded /\ [Next]_vars => Bounded'
  <2> SUFFICES ASSUME TypeOK, Bounded, [Next]_vars PROVE Bounded'
    OBVIOUS
  <2>0. /\ IsFiniteSet(passed)
        /\ Cardinality(passed) \in Nat
        /\ Cardinality(Slot) \in Nat
    BY PassedIsFinite DEF TypeOK
  <2>1. CASE Forget
    BY <2>0, <2>1 DEF TypeOK, Bounded, Forget
  <2>2. ASSUME NEW s \in Slot, Check(s) PROVE Bounded'
    <3>1. Cardinality(passed') = Cardinality(passed) + 1
      BY <2>0, <2>2, FS_AddElement DEF Check
    <3>2. passed' \in SUBSET Slot
      BY <2>2 DEF TypeOK, Check
    <3>3. Cardinality(passed') <= Cardinality(Slot)
      BY <3>2, PassedIsFinite
    <3>4. count <= Limit - 1 /\ count' = count
      BY <2>2 DEF TypeOK, Check
    <3> QED
      BY <2>0, <3>1, <3>3, <3>4 DEF TypeOK, Bounded
  <2>3. ASSUME NEW s \in Slot, Insert(s) \/ Drop(s) PROVE Bounded'
    <3>1. Cardinality(passed') = Cardinality(passed) - 1
      BY <2>0, <2>3, FS_RemoveElement DEF Insert, Drop
    <3>2. count' <= count + 1 /\ count' \in Nat
      BY <2>3 DEF TypeOK, Insert, Drop
    <3> QED
      BY <2>0, <3>1, <3>2 DEF TypeOK, Bounded
  <2>4. CASE UNCHANGED vars
    BY <2>4 DEF Bounded, vars
  <2> QED
    BY <2>1, <2>2, <2>3, <2>4 DEF Next
<1> QED
  BY <1>1, <1>2, Typing, PTL DEF Spec

-----------------------------------------------------------------------------
(* The goals service.                                                      *)

(* Every row, every status and every request in flight is well formed.     *)
THEOREM GoalsTyping == GoalsSpec => []GoalsTypeOK
<1> USE GoalsAssumption
<1>1. GoalsInit => GoalsTypeOK
  BY DEF GoalsInit, GoalsTypeOK, GoalRow, NoGoal, GoalStatus, GoalRequest,
         IdleGoalRequest
<1>2. GoalsTypeOK /\ [GoalsNext]_goalVars => GoalsTypeOK'
  <2> SUFFICES ASSUME GoalsTypeOK, [GoalsNext]_goalVars PROVE GoalsTypeOK'
    OBVIOUS
  <2> USE DEF GoalsTypeOK, GoalRow, GoalStatus, GoalRequest, IdleGoalRequest,
              IdleGoalSlot, EndGoalRequest
  <2>1. ASSUME NEW s \in GoalSlot, NEW u \in User, NEW b \in User,
               NEW c \in Circle, CreateLoad(s, u, b, c)
        PROVE  GoalsTypeOK'
    BY <2>1 DEF CreateLoad
  <2>2. ASSUME NEW s \in GoalSlot, NEW g \in Goal, CreateInsert(s, g)
        PROVE  GoalsTypeOK'
    BY <2>2 DEF CreateInsert, InsertGoalRows
  <2>3. ASSUME NEW s \in GoalSlot, NEW u \in User, NEW g \in Goal,
               AcceptLoad(s, u, g)
        PROVE  GoalsTypeOK'
    BY <2>3 DEF AcceptLoad
  <2>4. ASSUME NEW s \in GoalSlot, AcceptWrite(s) PROVE GoalsTypeOK'
    <3> DEFINE g == greq[s].goal
    <3>1. g \in Goal
      BY <2>4 DEF AcceptWrite
    <3>2. /\ goals' \in [Goal -> GoalRow]
          /\ pacts' \in [Goal -> {"absent", "invited", "active"}]
          /\ invites' \in [Goal -> {"absent", "pending", "accepted"}]
      <4>1. goals' = [goals EXCEPT ![g] = [goals[g] EXCEPT !.status = "active"]]
        BY <2>4 DEF AcceptWrite
      <4>2. [goals[g] EXCEPT !.status = "active"] \in GoalRow
        BY <3>1
      <4>3. pacts' = [pacts EXCEPT ![g] = "active"]
        BY <2>4 DEF AcceptWrite
      <4>4. invites' = [invites EXCEPT ![g] = "accepted"]
        BY <2>4 DEF AcceptWrite
      <4> QED
        BY <3>1, <4>1, <4>2, <4>3, <4>4
    <3>3. greq' = [greq EXCEPT ![s] = [greq[s] EXCEPT !.step = "emit"]]
      BY <2>4 DEF AcceptWrite
    <3>4. [greq[s] EXCEPT !.step = "emit"] \in GoalRequest
      OBVIOUS
    <3>5. greq' \in [GoalSlot -> GoalRequest]
      BY <3>3, <3>4
    <3>6. ASSUME NEW t \in GoalSlot
          PROVE  /\ greq'[t].step \in {"insert", "log"} => greq'[t].actor \in User
                 /\ greq'[t].step = "insert" =>
                      greq'[t].buddy \in User /\ greq'[t].circle \in Circle
                 /\ greq'[t].step \in {"accept", "emit"} => greq'[t].goal \in Goal
      BY <3>1, <3>3
    <3> QED
      BY <2>4, <3>2, <3>5, <3>6 DEF AcceptWrite
  <2>5. ASSUME NEW s \in GoalSlot, AcceptEmit(s) PROVE GoalsTypeOK'
    BY <2>5 DEF AcceptEmit
  <2>6. ASSUME NEW s \in GoalSlot, NEW u \in User, RefineCount(s, u)
        PROVE  GoalsTypeOK'
    BY <2>6 DEF RefineCount
  <2>7. ASSUME NEW s \in GoalSlot, RefineLog(s) PROVE GoalsTypeOK'
    BY <2>7 DEF RefineLog
  <2>8. ASSUME NEW s \in GoalSlot, GoalRequestFails(s) PROVE GoalsTypeOK'
    BY <2>8 DEF GoalRequestFails
  <2>9. ASSUME NEW u \in User, NEW b \in User, NEW g \in Goal, NEW c \in Circle,
               CreateInNewCircle(u, b, g, c)
        PROVE  GoalsTypeOK'
    BY <2>9 DEF CreateInNewCircle, InsertGoalRows
  <2>10. ASSUME NEW g \in Goal, InviteExpires(g) PROVE GoalsTypeOK'
    BY <2>10 DEF InviteExpires
  <2>11. ASSUME NEW u \in User, RefineWindowMoves(u) PROVE GoalsTypeOK'
    BY <2>11 DEF RefineWindowMoves
  <2>12. CASE UNCHANGED goalVars
    BY <2>12 DEF goalVars
  <2> QED
    BY <2>1, <2>2, <2>3, <2>4, <2>5, <2>6, <2>7, <2>8, <2>9, <2>10, <2>11,
       <2>12 DEF GoalsNext
<1> QED
  BY <1>1, <1>2, PTL DEF GoalsSpec

-----------------------------------------------------------------------------
(* The agreement of the three tables is inductive: only the insert and the *)
(* acceptance touch them, and each touches the three at once.              *)
THEOREM Agreement == GoalsSpec => []PactAgreement
<1>1. GoalsInit => PactAgreement
  BY DEF GoalsInit, PactAgreement, NoGoal
<1>2. GoalsTypeOK /\ PactAgreement /\ [GoalsNext]_goalVars => PactAgreement'
  <2> SUFFICES ASSUME GoalsTypeOK, PactAgreement, [GoalsNext]_goalVars
               PROVE  PactAgreement'
    OBVIOUS
  <2>1. ASSUME NEW g \in Goal, NEW u, NEW b, NEW c, InsertGoalRows(g, u, b, c)
        PROVE  PactAgreement'
    BY <2>1 DEF InsertGoalRows, PactAgreement, GoalsTypeOK, NoGoal
  <2>2. ASSUME NEW s \in GoalSlot, AcceptWrite(s) PROVE PactAgreement'
    <3> DEFINE g == greq[s].goal
    <3>1. g \in Goal /\ invites[g] = "pending"
      BY <2>2 DEF AcceptWrite, GoalsTypeOK
    <3>2. /\ goals' = [goals EXCEPT ![g] = [goals[g] EXCEPT !.status = "active"]]
          /\ pacts' = [pacts EXCEPT ![g] = "active"]
          /\ invites' = [invites EXCEPT ![g] = "accepted"]
      BY <2>2 DEF AcceptWrite
    <3>3. /\ goals'[g].status = "active"
          /\ pacts'[g] = "active"
          /\ invites'[g] = "accepted"
      BY <3>1, <3>2 DEF GoalsTypeOK, GoalRow
    <3>4. ASSUME NEW h \in Goal, h # g
          PROVE  goals'[h] = goals[h] /\ pacts'[h] = pacts[h] /\ invites'[h] = invites[h]
      BY <3>2, <3>4 DEF GoalsTypeOK
    <3> QED
      BY <3>3, <3>4 DEF PactAgreement
  <2>3. CASE UNCHANGED <<goals, pacts, invites>>
    BY <2>3 DEF PactAgreement
  <2>4. \/ \E g \in Goal, u, b \in User \cup {None}, c \in Circle \cup {None} :
             InsertGoalRows(g, u, b, c)
        \/ \E s \in GoalSlot : AcceptWrite(s)
        \/ UNCHANGED <<goals, pacts, invites>>
    BY DEF GoalsNext, goalVars, CreateLoad, CreateInsert, AcceptLoad, AcceptEmit,
           RefineCount, RefineLog, GoalRequestFails, CreateInNewCircle,
           InviteExpires, RefineWindowMoves, GoalsTypeOK, GoalRequest
  <2> QED
    BY <2>1, <2>2, <2>3, <2>4
<1> QED
  BY <1>1, <1>2, GoalsTyping, PTL DEF GoalsSpec

-----------------------------------------------------------------------------
(* Who is about to insert a goal was a member when it looked and still is. *)
InsertersAreMembers ==
    \A s \in GoalSlot : greq[s].step = "insert" =>
        /\ greq[s].actor \in members[greq[s].circle]
        /\ greq[s].buddy # greq[s].actor

MembershipInv == OwnerSitsInCircle /\ InsertersAreMembers

(* Memberships only grow: the owner who was a member stays one.            *)
THEOREM Membership == GoalsSpec => []OwnerSitsInCircle
<1> USE GoalsAssumption
<1>1. GoalsInit => MembershipInv
  BY DEF GoalsInit, MembershipInv, OwnerSitsInCircle, InsertersAreMembers, Open,
         NoGoal, IdleGoalRequest
<1>2. GoalsTypeOK /\ PactAgreement /\ MembershipInv /\ [GoalsNext]_goalVars
        => MembershipInv'
  <2> SUFFICES ASSUME GoalsTypeOK, PactAgreement, MembershipInv,
                      [GoalsNext]_goalVars
               PROVE  MembershipInv'
    OBVIOUS
  <2> USE DEF MembershipInv, OwnerSitsInCircle, InsertersAreMembers, Open
  <2>1. ASSUME NEW s \in GoalSlot, NEW u \in User, NEW b \in User,
               NEW c \in Circle, CreateLoad(s, u, b, c)
        PROVE  MembershipInv'
    BY <2>1 DEF CreateLoad, GoalsTypeOK
  <2>2. ASSUME NEW s \in GoalSlot, NEW g \in Goal, CreateInsert(s, g)
        PROVE  MembershipInv'
    BY <2>2 DEF CreateInsert, InsertGoalRows, EndGoalRequest, IdleGoalRequest,
                GoalsTypeOK
  <2>3. ASSUME NEW s \in GoalSlot, NEW u \in User, NEW g \in Goal,
               AcceptLoad(s, u, g)
        PROVE  MembershipInv'
    BY <2>3 DEF AcceptLoad, IdleGoalRequest, GoalsTypeOK
  <2>4. ASSUME NEW s \in GoalSlot, AcceptWrite(s) PROVE MembershipInv'
    <3> DEFINE g == greq[s].goal
    <3>1. g \in Goal
      BY <2>4 DEF AcceptWrite, GoalsTypeOK
    <3>2. /\ goals' = [goals EXCEPT ![g] = [goals[g] EXCEPT !.status = "active"]]
          /\ greq' = [greq EXCEPT ![s] = [greq[s] EXCEPT !.step = "emit"]]
          /\ members' = members
      BY <2>4 DEF AcceptWrite
    <3>3. Open(g)
      BY <2>4, <3>1 DEF AcceptWrite, GoalsTypeOK, GoalRow, GoalStatus, PactAgreement
    <3> QED
      BY <3>1, <3>2, <3>3 DEF GoalsTypeOK, GoalRow, GoalRequest
  <2>5. ASSUME NEW s \in GoalSlot, AcceptEmit(s) PROVE MembershipInv'
    BY <2>5 DEF AcceptEmit, EndGoalRequest, IdleGoalRequest, GoalsTypeOK
  <2>6. ASSUME NEW s \in GoalSlot, NEW u \in User, RefineCount(s, u)
        PROVE  MembershipInv'
    BY <2>6 DEF RefineCount, IdleGoalRequest, GoalsTypeOK
  <2>7. ASSUME NEW s \in GoalSlot, RefineLog(s) PROVE MembershipInv'
    BY <2>7 DEF RefineLog, EndGoalRequest, IdleGoalRequest, GoalsTypeOK
  <2>8. ASSUME NEW s \in GoalSlot, GoalRequestFails(s) PROVE MembershipInv'
    BY <2>8 DEF GoalRequestFails, EndGoalRequest, IdleGoalRequest, GoalsTypeOK
  <2>9. ASSUME NEW u \in User, NEW b \in User, NEW g \in Goal, NEW c \in Circle,
               CreateInNewCircle(u, b, g, c)
        PROVE  MembershipInv'
    BY <2>9 DEF CreateInNewCircle, InsertGoalRows, GoalsTypeOK, GoalRow, GoalRequest
  <2>10. CASE UNCHANGED <<members, goals, greq>>
    BY <2>10
  <2> QED
    BY <2>1, <2>2, <2>3, <2>4, <2>5, <2>6, <2>7, <2>8, <2>9, <2>10
       DEF GoalsNext, goalVars, InviteExpires, RefineWindowMoves
<1>3. MembershipInv => OwnerSitsInCircle
  BY DEF MembershipInv
<1> QED
  BY <1>1, <1>2, <1>3, GoalsTyping, Agreement, PTL DEF GoalsSpec

-----------------------------------------------------------------------------
(* The index rejects the second insert, and a new circle has no goals: its *)
(* members are none, while the owner of an open goal is a member.          *)
THEOREM OneOpenGoal == GoalsSpec => []OneOpenGoalPerCircle
<1> USE GoalsAssumption
<1>1. GoalsInit => OneOpenGoalPerCircle
  BY DEF GoalsInit, OneOpenGoalPerCircle, Open, NoGoal
<1>2. /\ GoalsTypeOK /\ PactAgreement /\ OwnerSitsInCircle
      /\ OneOpenGoalPerCircle
      /\ [GoalsNext]_goalVars
      => OneOpenGoalPerCircle'
  <2> SUFFICES ASSUME GoalsTypeOK, PactAgreement, OwnerSitsInCircle,
                      OneOpenGoalPerCircle, [GoalsNext]_goalVars
               PROVE  OneOpenGoalPerCircle'
    OBVIOUS
  <2>1. ASSUME NEW g \in Goal, NEW u, NEW b, NEW c,
               InsertGoalRows(g, u, b, c), ~ OpenGoalIn(c, u)
        PROVE  OneOpenGoalPerCircle'
    BY <2>1 DEF InsertGoalRows, OpenGoalIn, OneOpenGoalPerCircle, Open, GoalsTypeOK
  <2>2. ASSUME NEW s \in GoalSlot, AcceptWrite(s) PROVE OneOpenGoalPerCircle'
    <3> DEFINE g == greq[s].goal
    <3>1. g \in Goal
      BY <2>2 DEF AcceptWrite, GoalsTypeOK
    <3>2. goals' = [goals EXCEPT ![g] = [goals[g] EXCEPT !.status = "active"]]
      BY <2>2 DEF AcceptWrite
    <3>3. Open(g)
      BY <2>2, <3>1 DEF AcceptWrite, Open, GoalsTypeOK, GoalRow, GoalStatus,
                        PactAgreement
    <3>4. \A h \in Goal : /\ goals'[h].owner = goals[h].owner
                          /\ goals'[h].circle = goals[h].circle
                          /\ Open(h)' <=> Open(h)
      BY <3>1, <3>2, <3>3 DEF Open, GoalsTypeOK, GoalRow
    <3> QED
      BY <3>4 DEF OneOpenGoalPerCircle
  <2>3. ASSUME NEW u \in User, NEW b \in User, NEW g \in Goal, NEW c \in Circle,
               CreateInNewCircle(u, b, g, c)
        PROVE  OneOpenGoalPerCircle'
    <3>1. ~ OpenGoalIn(c, u)
      BY <2>3 DEF CreateInNewCircle, OpenGoalIn, OwnerSitsInCircle
    <3> QED
      BY <2>1, <2>3, <3>1 DEF CreateInNewCircle
  <2>4. ASSUME NEW s \in GoalSlot, NEW g \in Goal, CreateInsert(s, g)
        PROVE  OneOpenGoalPerCircle'
    BY <2>1, <2>4 DEF CreateInsert
  <2>5. CASE UNCHANGED goals
    BY <2>5 DEF OneOpenGoalPerCircle, Open
  <2> QED
    BY <2>2, <2>3, <2>4, <2>5
       DEF GoalsNext, goalVars, CreateLoad, AcceptLoad, AcceptEmit, RefineCount,
           RefineLog, GoalRequestFails, InviteExpires, RefineWindowMoves
<1> QED
  BY <1>1, <1>2, GoalsTyping, Agreement, Membership, PTL DEF GoalsSpec

-----------------------------------------------------------------------------
(* At most one request ever holds the right to announce an acceptance, and *)
(* it holds it only until the event is there.                              *)
AnnounceInv ==
    /\ \A g \in Goal :
         /\ accepted[g] \in {0, 1}
         /\ accepted[g] = 1 => invites[g] = "accepted"
    /\ \A s \in GoalSlot : greq[s].step = "emit" =>
         /\ invites[greq[s].goal] = "accepted"
         /\ accepted[greq[s].goal] = 0
    /\ \A s, t \in GoalSlot :
         /\ greq[s].step = "emit"
         /\ greq[t].step = "emit"
         /\ greq[s].goal = greq[t].goal
         => s = t

(* "invite.accepted" is emitted at most once and only for an active goal.  *)
THEOREM OneEvent == GoalsSpec => []OneAcceptanceEvent
<1>1. GoalsInit => AnnounceInv
  BY DEF GoalsInit, AnnounceInv, IdleGoalRequest
<1>2. GoalsTypeOK /\ PactAgreement /\ AnnounceInv /\ [GoalsNext]_goalVars
        => AnnounceInv'
  <2> SUFFICES ASSUME GoalsTypeOK, PactAgreement, AnnounceInv,
                      [GoalsNext]_goalVars
               PROVE  AnnounceInv'
    OBVIOUS
  <2>1. ASSUME NEW g \in Goal, NEW u, NEW b, NEW c, InsertGoalRows(g, u, b, c),
               \A t \in GoalSlot : greq'[t].step = "emit" => greq'[t] = greq[t]
        PROVE  AnnounceInv'
    <3>1. invites[g] = "absent"
      BY <2>1 DEF InsertGoalRows, PactAgreement, NoGoal, GoalsTypeOK
    <3>2. \A h \in Goal : invites[h] = "accepted" => invites'[h] = "accepted"
      BY <2>1, <3>1 DEF InsertGoalRows, GoalsTypeOK
    <3>3. accepted' = accepted
      BY <2>1 DEF InsertGoalRows
    <3> QED
      BY <2>1, <3>2, <3>3 DEF AnnounceInv, GoalsTypeOK
  <2>2. ASSUME NEW s \in GoalSlot, AcceptWrite(s) PROVE AnnounceInv'
    <3> DEFINE g == greq[s].goal
    <3>1. g \in Goal /\ invites[g] = "pending"
      BY <2>2 DEF AcceptWrite, GoalsTypeOK
    <3>2. /\ invites' = [invites EXCEPT ![g] = "accepted"]
          /\ greq' = [greq EXCEPT ![s] = [greq[s] EXCEPT !.step = "emit"]]
          /\ accepted' = accepted
      BY <2>2 DEF AcceptWrite
    <3>3. accepted[g] = 0
      BY <3>1 DEF AnnounceInv
    <3>4. \A t \in GoalSlot : greq[t].step = "emit" => greq[t].goal # g
      BY <3>1 DEF AnnounceInv
    <3>5. greq'[s].goal = g
      BY <3>2 DEF GoalsTypeOK, GoalRequest
    <3>6. \A t \in GoalSlot : t # s => greq'[t] = greq[t]
      BY <3>2 DEF GoalsTypeOK
    <3>7. invites'[g] = "accepted" /\ \A h \in Goal : h # g => invites'[h] = invites[h]
      BY <3>1, <3>2 DEF GoalsTypeOK
    <3> QED
      BY <3>1, <3>2, <3>3, <3>4, <3>5, <3>6, <3>7 DEF AnnounceInv, GoalsTypeOK
  <2>3. ASSUME NEW s \in GoalSlot, AcceptEmit(s) PROVE AnnounceInv'
    <3> DEFINE g == greq[s].goal
    <3>1. g \in Goal /\ invites[g] = "accepted" /\ accepted[g] = 0
      BY <2>3 DEF AcceptEmit, GoalsTypeOK, AnnounceInv
    <3>2. /\ accepted'[g] = 1
          /\ \A h \in Goal : h # g => accepted'[h] = accepted[h]
          /\ invites' = invites
      BY <2>3, <3>1 DEF AcceptEmit, GoalsTypeOK
    <3>3. greq'[s].step # "emit" /\ \A t \in GoalSlot : t # s => greq'[t] = greq[t]
      BY <2>3 DEF AcceptEmit, EndGoalRequest, IdleGoalRequest, GoalsTypeOK
    <3>4. \A t \in GoalSlot : t # s /\ greq[t].step = "emit" => greq[t].goal # g
      BY <2>3 DEF AcceptEmit, AnnounceInv
    <3> QED
      BY <3>1, <3>2, <3>3, <3>4 DEF AnnounceInv, GoalsTypeOK
  <2>4. ASSUME UNCHANGED <<invites, accepted>>,
               \A t \in GoalSlot : greq'[t].step = "emit" => greq'[t] = greq[t]
        PROVE  AnnounceInv'
    BY <2>4 DEF AnnounceInv, GoalsTypeOK
  <2>5. ASSUME NEW s \in GoalSlot, NEW r, r.step # "emit",
               greq' = [greq EXCEPT ![s] = r]
        PROVE  \A t \in GoalSlot : greq'[t].step = "emit" => greq'[t] = greq[t]
    BY <2>5 DEF GoalsTypeOK
  <2>6. ASSUME NEW s \in GoalSlot, EndGoalRequest(s)
        PROVE  \A t \in GoalSlot : greq'[t].step = "emit" => greq'[t] = greq[t]
    BY <2>6 DEF EndGoalRequest, IdleGoalRequest, GoalsTypeOK
  <2>7. ASSUME NEW s \in GoalSlot, NEW g \in Goal, CreateInsert(s, g)
        PROVE  AnnounceInv'
    BY <2>1, <2>6, <2>7 DEF CreateInsert
  <2>8. ASSUME NEW u \in User, NEW b \in User, NEW g \in Goal, NEW c \in Circle,
               CreateInNewCircle(u, b, g, c)
        PROVE  AnnounceInv'
    BY <2>1, <2>8 DEF CreateInNewCircle
  <2>9. ASSUME NEW s \in GoalSlot, NEW u \in User, NEW b \in User,
               NEW c \in Circle, CreateLoad(s, u, b, c)
        PROVE  AnnounceInv'
    BY <2>4, <2>9, \A t \in GoalSlot : greq'[t].step = "emit" => greq'[t] = greq[t]
       DEF CreateLoad, GoalsTypeOK
  <2>12. ASSUME NEW s \in GoalSlot, NEW u \in User, NEW g \in Goal,
                AcceptLoad(s, u, g)
         PROVE  AnnounceInv'
    BY <2>4, <2>12, \A t \in GoalSlot : greq'[t].step = "emit" => greq'[t] = greq[t]
       DEF AcceptLoad, IdleGoalRequest, GoalsTypeOK
  <2>13. ASSUME NEW s \in GoalSlot, NEW u \in User, RefineCount(s, u)
         PROVE  AnnounceInv'
    BY <2>4, <2>13, \A t \in GoalSlot : greq'[t].step = "emit" => greq'[t] = greq[t]
       DEF RefineCount, IdleGoalRequest, GoalsTypeOK
  <2>10. ASSUME NEW s \in GoalSlot, RefineLog(s) \/ GoalRequestFails(s)
         PROVE  AnnounceInv'
    BY <2>4, <2>6, <2>10 DEF RefineLog, GoalRequestFails
  <2>11. CASE UNCHANGED <<invites, accepted, greq>>
    BY <2>4, <2>11
  <2> QED
    BY <2>2, <2>3, <2>7, <2>8, <2>9, <2>10, <2>11, <2>12, <2>13
       DEF GoalsNext, goalVars, InviteExpires, RefineWindowMoves
<1>3. PactAgreement /\ AnnounceInv => OneAcceptanceEvent
  BY DEF PactAgreement, AnnounceInv, OneAcceptanceEvent
<1> QED
  BY <1>1, <1>2, <1>3, GoalsTyping, Agreement, PTL DEF GoalsSpec

-----------------------------------------------------------------------------
(* An invite that died unwatched stays dead, and its goal keeps the place. *)
THEOREM DeadInvites == GoalsSpec => DeadInviteStaysDead
<1>1. ASSUME GoalsTypeOK, PactAgreement, GoalsTypeOK', PactAgreement',
             [GoalsNext]_goalVars, NEW g \in Goal, DeadInvite(g)
      PROVE  DeadInvite(g)' /\ OpenGoalIn(goals[g].circle, goals[g].owner)'
  <2> USE GoalsAssumption
  <2>2. ~ Accepting(g) /\ invites[g] = "pending" /\ g \in expired
    BY <1>1 DEF DeadInvite
  <2>3. expired \subseteq expired'
    BY <1>1 DEF GoalsNext, goalVars, CreateLoad, CreateInsert, InsertGoalRows,
       AcceptLoad, AcceptWrite, AcceptEmit, RefineCount, RefineLog,
       GoalRequestFails, CreateInNewCircle, InviteExpires, RefineWindowMoves
  <2>4. ASSUME NEW h \in Goal, NEW u, NEW b, NEW c, InsertGoalRows(h, u, b, c)
        PROVE  invites'[g] = "pending"
    BY <2>2, <2>4, <1>1 DEF InsertGoalRows, NoGoal, PactAgreement, GoalsTypeOK
  <2>5. ASSUME NEW s \in GoalSlot, AcceptWrite(s) PROVE invites'[g] = "pending"
    BY <2>2, <2>5, <1>1 DEF AcceptWrite, Accepting, GoalsTypeOK
  <2>6. ASSUME UNCHANGED invites PROVE invites'[g] = "pending"
    BY <2>2, <2>6
  <2>7. \/ \E h \in Goal, u, b \in User \cup {None}, c \in Circle \cup {None} :
             InsertGoalRows(h, u, b, c)
        \/ \E s \in GoalSlot : AcceptWrite(s)
        \/ UNCHANGED invites
    BY <1>1 DEF GoalsNext, goalVars, CreateLoad, CreateInsert, AcceptLoad,
       AcceptEmit, RefineCount, RefineLog, GoalRequestFails, CreateInNewCircle,
       InviteExpires, RefineWindowMoves, GoalsTypeOK, GoalRequest
  <2>8. invites'[g] = "pending"
    BY <2>4, <2>5, <2>6, <2>7
  <2>9. ASSUME NEW s \in GoalSlot, greq'[s].step = "accept", greq'[s].goal = g
        PROVE  FALSE
    <3> DEFINE Was == greq[s].step = "accept" /\ greq[s].goal = g
    <3>1. ~ Was
      BY <2>2 DEF Accepting
    <3>2. ASSUME NEW t \in GoalSlot, EndGoalRequest(t) PROVE Was
      BY <2>9, <3>2, <1>1 DEF EndGoalRequest, IdleGoalRequest, GoalsTypeOK
    <3>3. ASSUME NEW t \in GoalSlot, AcceptWrite(t) PROVE Was
      <4>1. greq' = [greq EXCEPT ![t] = [greq[t] EXCEPT !.step = "emit"]]
        BY <3>3 DEF AcceptWrite
      <4>2. greq[t] \in GoalRequest
        BY <1>1 DEF GoalsTypeOK
      <4>3. greq'[t].step = "emit"
        BY <4>1, <4>2, <1>1 DEF GoalRequest, GoalsTypeOK
      <4>4. s # t
        BY <4>3, <2>9
      <4> QED
        BY <4>1, <4>4, <2>9, <1>1 DEF GoalsTypeOK
    <3>4. ASSUME NEW t \in GoalSlot, NEW u \in User, NEW b \in User,
                 NEW c \in Circle, CreateLoad(t, u, b, c)
          PROVE  Was
      BY <2>9, <3>4, <1>1 DEF CreateLoad, GoalsTypeOK
    <3>5. ASSUME NEW t \in GoalSlot, NEW u \in User, RefineCount(t, u)
          PROVE  Was
      BY <2>9, <3>5, <1>1 DEF RefineCount, IdleGoalRequest, GoalsTypeOK
    <3>6. ASSUME NEW t \in GoalSlot, NEW u \in User, NEW h \in Goal,
                 AcceptLoad(t, u, h)
          PROVE  Was
      BY <2>2, <2>9, <3>6, <1>1 DEF AcceptLoad, IdleGoalRequest, GoalsTypeOK
    <3>7. ASSUME UNCHANGED greq PROVE Was
      BY <2>9, <3>7
    <3> HIDE DEF Was
    <3> QED
      BY <1>1, <3>1, <3>2, <3>3, <3>4, <3>5, <3>6, <3>7
         DEF GoalsNext, goalVars, CreateInsert, AcceptEmit, RefineLog,
             GoalRequestFails, CreateInNewCircle, InviteExpires, RefineWindowMoves
  <2>10. ~ Accepting(g)'
    BY <2>9 DEF Accepting
  <2>11. DeadInvite(g)'
    BY <2>2, <2>3, <2>8, <2>10 DEF DeadInvite
  <2>12. OpenGoalIn(goals[g].circle, goals[g].owner)'
    BY <1>1, <2>8 DEF OpenGoalIn, Open, PactAgreement, GoalsTypeOK, GoalRow,
       GoalStatus
  <2> QED
    BY <2>11, <2>12
<1>2. GoalsTypeOK /\ PactAgreement /\ GoalsTypeOK' /\ PactAgreement'
        /\ [GoalsNext]_goalVars => [DeathLasts]_goalVars
  BY <1>1 DEF DeathLasts
<1> QED
  BY <1>2, GoalsTyping, Agreement, PTL DEF GoalsSpec, DeadInviteStaysDead

-----------------------------------------------------------------------------
(* The quota, written out for one user.                                    *)
WithinQuota(u) ==
    refines[u] + Cardinality(Refining(u)) <= RefineLimit - 1 + Cardinality(GoalSlot)

AllWithinQuota == \A u \in User : WithinQuota(u)

LEMMA RefiningIsFinite ==
  ASSUME NEW u \in User
  PROVE  /\ IsFiniteSet(Refining(u))
         /\ Cardinality(Refining(u)) \in Nat
         /\ Cardinality(Refining(u)) <= Cardinality(GoalSlot)
         /\ Cardinality(GoalSlot) \in Nat
<1>1. Refining(u) \in SUBSET GoalSlot
  BY DEF Refining
<1> QED
  BY <1>1, GoalsAssumption, FS_Subset, FS_CardinalityType

(* Refine calls overshoot the quota by less than the requests in flight.   *)
THEOREM Quotas == GoalsSpec => []RefineQuota
<1> USE GoalsAssumption
<1>1. GoalsInit => AllWithinQuota
  <2> SUFFICES ASSUME GoalsInit, NEW u \in User PROVE WithinQuota(u)
    BY DEF AllWithinQuota
  <2>1. Refining(u) = {}
    BY DEF GoalsInit, Refining, IdleGoalRequest
  <2> QED
    BY <2>1, FS_EmptySet, FS_CardinalityType DEF WithinQuota, GoalsInit
<1>2. GoalsTypeOK /\ AllWithinQuota /\ [GoalsNext]_goalVars => AllWithinQuota'
  <2> SUFFICES ASSUME GoalsTypeOK, [GoalsNext]_goalVars,
                      NEW u \in User, WithinQuota(u)
               PROVE  WithinQuota(u)'
    BY DEF AllWithinQuota
  <2>0. /\ refines[u] \in Nat
        /\ IsFiniteSet(Refining(u))
        /\ Cardinality(Refining(u)) \in Nat
        /\ Cardinality(GoalSlot) \in Nat
    BY RefiningIsFinite DEF GoalsTypeOK
  <2>1. ASSUME NEW s \in GoalSlot, RefineCount(s, u) PROVE WithinQuota(u)'
    <3>1. Refining(u)' = Refining(u) \cup {s} /\ s \notin Refining(u)
      BY <2>1 DEF RefineCount, Refining, IdleGoalSlot, IdleGoalRequest, GoalsTypeOK
    <3>2. Cardinality(Refining(u)') = Cardinality(Refining(u)) + 1
      BY <2>0, <3>1, FS_AddElement
    <3>3. Refining(u)' \in SUBSET GoalSlot
      BY DEF Refining
    <3>4. Cardinality(Refining(u)') <= Cardinality(GoalSlot)
      BY <3>3, FS_Subset
    <3>5. refines[u] <= RefineLimit - 1 /\ refines' = refines
      BY <2>0, <2>1 DEF RefineCount
    <3> QED
      BY <2>0, <3>2, <3>4, <3>5 DEF WithinQuota
  <2>2. ASSUME NEW s \in GoalSlot, s \in Refining(u),
               EndGoalRequest(s), refines'[u] \in Nat, refines'[u] <= refines[u] + 1
        PROVE  WithinQuota(u)'
    <3>1. Refining(u)' = Refining(u) \ {s}
      BY <2>2 DEF EndGoalRequest, Refining, IdleGoalRequest, GoalsTypeOK
    <3>2. Cardinality(Refining(u)') = Cardinality(Refining(u)) - 1
      BY <2>0, <2>2, <3>1, FS_RemoveElement
    <3> QED
      BY <2>0, <2>2, <3>2 DEF WithinQuota
  <2>3. ASSUME Refining(u)' = Refining(u), refines'[u] \in Nat,
               refines'[u] <= refines[u]
        PROVE  WithinQuota(u)'
    BY <2>0, <2>3 DEF WithinQuota
  <2>4. ASSUME NEW s \in GoalSlot, RefineLog(s) PROVE WithinQuota(u)'
    <3>1. CASE greq[s].actor = u
      BY <2>2, <2>4, <3>1 DEF RefineLog, Refining, GoalsTypeOK
    <3>2. CASE greq[s].actor # u
      BY <2>3, <2>4, <3>2, Refining(u)' = Refining(u)
         DEF RefineLog, Refining, EndGoalRequest, IdleGoalRequest, GoalsTypeOK
    <3> QED
      BY <3>1, <3>2
  <2>5. ASSUME NEW s \in GoalSlot, GoalRequestFails(s) PROVE WithinQuota(u)'
    <3>1. CASE s \in Refining(u)
      BY <2>0, <2>2, <2>5, <3>1 DEF GoalRequestFails
    <3>2. CASE s \notin Refining(u)
      BY <2>0, <2>3, <2>5, <3>2, Refining(u)' = Refining(u)
         DEF GoalRequestFails, Refining, EndGoalRequest, IdleGoalRequest, GoalsTypeOK
    <3> QED
      BY <3>1, <3>2
  <2>6. ASSUME NEW v \in User, RefineWindowMoves(v) PROVE WithinQuota(u)'
    BY <2>0, <2>3, <2>6, Refining(u)' = Refining(u)
       DEF RefineWindowMoves, Refining, GoalsTypeOK
  <2>7. ASSUME NEW s \in GoalSlot, NEW v \in User, v # u, RefineCount(s, v)
        PROVE  WithinQuota(u)'
    BY <2>0, <2>3, <2>7, Refining(u)' = Refining(u)
       DEF RefineCount, Refining, IdleGoalSlot, IdleGoalRequest, GoalsTypeOK
  <2>8. ASSUME NEW s \in GoalSlot, NEW v \in User, NEW b \in User,
               NEW c \in Circle, CreateLoad(s, v, b, c)
        PROVE  WithinQuota(u)'
    BY <2>0, <2>3, <2>8, Refining(u)' = Refining(u)
       DEF CreateLoad, Refining, IdleGoalSlot, GoalsTypeOK
  <2>9. ASSUME NEW s \in GoalSlot, NEW g \in Goal, CreateInsert(s, g)
        PROVE  WithinQuota(u)'
    BY <2>0, <2>3, <2>9, Refining(u)' = Refining(u)
       DEF CreateInsert, InsertGoalRows, EndGoalRequest, IdleGoalRequest, Refining,
           GoalsTypeOK
  <2>10. ASSUME NEW s \in GoalSlot, NEW v \in User, NEW g \in Goal,
                AcceptLoad(s, v, g)
         PROVE  WithinQuota(u)'
    BY <2>0, <2>3, <2>10, Refining(u)' = Refining(u)
       DEF AcceptLoad, IdleGoalSlot, IdleGoalRequest, Refining, GoalsTypeOK
  <2>11. ASSUME NEW s \in GoalSlot, AcceptWrite(s) PROVE WithinQuota(u)'
    <3>1. greq' = [greq EXCEPT ![s] = [greq[s] EXCEPT !.step = "emit"]]
      BY <2>11 DEF AcceptWrite
    <3>2. Refining(u)' = Refining(u)
      BY <2>11, <3>1 DEF AcceptWrite, Refining, GoalsTypeOK, GoalRequest
    <3> QED
      BY <2>0, <2>3, <2>11, <3>2 DEF AcceptWrite
  <2>12. ASSUME NEW s \in GoalSlot, AcceptEmit(s) PROVE WithinQuota(u)'
    BY <2>0, <2>3, <2>12, Refining(u)' = Refining(u)
       DEF AcceptEmit, EndGoalRequest, IdleGoalRequest, Refining, GoalsTypeOK
  <2>13. CASE UNCHANGED <<refines, greq>>
    BY <2>0, <2>3, <2>13, Refining(u)' = Refining(u) DEF Refining
  <2> QED
    BY <2>1, <2>4, <2>5, <2>6, <2>7, <2>8, <2>9, <2>10, <2>11, <2>12, <2>13
       DEF GoalsNext, goalVars, CreateInNewCircle, InsertGoalRows, InviteExpires
<1>3. AllWithinQuota => RefineQuota
  BY Zenon DEF AllWithinQuota, RefineQuota, WithinQuota, Quota!Bounded, Quota!Cardinality,
     Cardinality
<1> QED
  BY <1>1, <1>2, <1>3, GoalsTyping, PTL DEF GoalsSpec

(* The quota of every user is an implementation of CheckThenInsert: the    *)
(* count is the check, the log entry the insert, a request that ends early *)
(* gives up its place, and the window of 24 hours is what forgets a row.   *)
THEOREM QuotaIsCheckThenInsert ==
  ASSUME NEW u \in User
  PROVE  GoalsSpec => Quota(u)!Spec
<1>1. GoalsInit => Quota(u)!Init
  BY DEF GoalsInit, IdleGoalRequest, Refining, Quota!Init
<1>2. GoalsTypeOK /\ [GoalsNext]_goalVars => [Quota(u)!Next]_(Quota(u)!vars)
  <2> SUFFICES ASSUME GoalsTypeOK, [GoalsNext]_goalVars
               PROVE  Quota(u)!Next \/ UNCHANGED Quota(u)!vars
    OBVIOUS
  <2> DEFINE Said == Quota(u)!Next \/ UNCHANGED Quota(u)!vars
  <2>0. greq \in [GoalSlot -> GoalRequest] /\ refines \in [User -> Nat]
    BY DEF GoalsTypeOK
  <2>1. ASSUME NEW s \in GoalSlot, NEW r, greq' = [greq EXCEPT ![s] = r],
               r.step # "log", s \notin Refining(u), refines'[u] = refines[u]
        PROVE  Said
    <3>1. Refining(u)' = Refining(u)
      BY <2>0, <2>1 DEF Refining
    <3> QED
      BY <2>1, <3>1 DEF Quota!vars
  <2>2. ASSUME NEW s \in GoalSlot, s \in Refining(u), EndGoalRequest(s),
               refines'[u] \in {refines[u], refines[u] + 1}
        PROVE  Said
    <3>1. Refining(u)' = Refining(u) \ {s}
      BY <2>0, <2>2 DEF EndGoalRequest, Refining, IdleGoalRequest
    <3> QED
      BY <2>2, <3>1 DEF Quota!Next, Quota!Insert, Quota!Drop
  <2>3. ASSUME UNCHANGED greq, UNCHANGED refines PROVE Said
    BY <2>3 DEF Refining, Quota!vars
  <2>a. ASSUME NEW s \in GoalSlot, s \notin Refining(u), EndGoalRequest(s),
               refines'[u] = refines[u]
        PROVE  Said
    <3>1. IdleGoalRequest.step # "log"
      BY DEF IdleGoalRequest
    <3> HIDE DEF Said
    <3> QED
      BY <2>1, <2>a, <3>1 DEF EndGoalRequest
  <2>4. ASSUME NEW s \in GoalSlot, RefineCount(s, u) PROVE Said
    <3>1. Refining(u)' = Refining(u) \cup {s} /\ s \notin Refining(u)
      BY <2>0, <2>4 DEF RefineCount, Refining, IdleGoalSlot, IdleGoalRequest
    <3> QED
      BY <2>4, <3>1 DEF RefineCount, Quota!Next, Quota!Check
  <2>5. ASSUME NEW s \in GoalSlot, NEW v \in User, v # u, RefineCount(s, v) PROVE Said
    <3>1. Refining(u)' = Refining(u)
      BY <2>0, <2>5 DEF RefineCount, Refining, IdleGoalSlot, IdleGoalRequest
    <3> QED
      BY <2>5, <3>1 DEF RefineCount, Quota!vars
  <2>6. ASSUME NEW s \in GoalSlot, RefineLog(s) PROVE Said
    <3>1. CASE greq[s].actor = u
      BY <2>0, <2>2, <2>6, <3>1 DEF RefineLog, Refining
    <3>2. CASE greq[s].actor # u
      BY <2>0, <2>a, <2>6, <3>2 DEF RefineLog, Refining
    <3> QED
      BY <3>1, <3>2
  <2>7. ASSUME NEW s \in GoalSlot, GoalRequestFails(s) PROVE Said
    <3>1. CASE s \in Refining(u)
      BY <2>2, <2>7, <3>1 DEF GoalRequestFails
    <3>2. CASE s \notin Refining(u)
      BY <2>a, <2>7, <3>2 DEF GoalRequestFails
    <3> QED
      BY <3>1, <3>2
  <2>8. ASSUME NEW v \in User, RefineWindowMoves(v) PROVE Said
    <3>1. Refining(u)' = Refining(u) /\ (v # u => refines'[u] = refines[u])
      BY <2>0, <2>8 DEF RefineWindowMoves, Refining
    <3>2. v = u => refines'[u] = refines[u] - 1 /\ refines[u] > 0
      BY <2>0, <2>8 DEF RefineWindowMoves
    <3> QED
      BY <3>1, <3>2 DEF Quota!Next, Quota!Forget, Quota!vars
  <2>9. ASSUME NEW s \in GoalSlot, NEW v \in User, NEW b \in User, NEW c \in Circle,
               CreateLoad(s, v, b, c)
        PROVE  Said
    <3> DEFINE r == [step |-> "insert", actor |-> v, buddy |-> b, circle |-> c, goal |-> None]
    <3>1. greq' = [greq EXCEPT ![s] = r] /\ r.step # "log" /\ s \notin Refining(u)
      BY <2>9 DEF CreateLoad, IdleGoalSlot, Refining
    <3> HIDE DEF r, Said
    <3> QED
      BY <2>1, <2>9, <3>1 DEF CreateLoad
  <2>10. ASSUME NEW s \in GoalSlot, NEW g \in Goal, CreateInsert(s, g) PROVE Said
    BY <2>a, <2>10 DEF CreateInsert, InsertGoalRows, Refining
  <2>11. ASSUME NEW s \in GoalSlot, NEW v \in User, NEW g \in Goal, AcceptLoad(s, v, g)
         PROVE  Said
    <3> DEFINE r == [IdleGoalRequest EXCEPT !.step = "accept", !.actor = v, !.goal = g]
    <3>1. greq' = [greq EXCEPT ![s] = r] /\ r.step # "log" /\ s \notin Refining(u)
      BY <2>11 DEF AcceptLoad, IdleGoalSlot, IdleGoalRequest, Refining
    <3> HIDE DEF r, Said
    <3> QED
      BY <2>1, <2>11, <3>1 DEF AcceptLoad
  <2>12. ASSUME NEW s \in GoalSlot, AcceptWrite(s) PROVE Said
    <3> DEFINE r == [greq[s] EXCEPT !.step = "emit"]
    <3>1. greq' = [greq EXCEPT ![s] = r] /\ UNCHANGED refines /\ greq[s].step = "accept"
      BY <2>12 DEF AcceptWrite
    <3>2. r.step = "emit"
      BY <2>0 DEF GoalRequest
    <3> HIDE DEF r
    <3> QED
      BY <2>1, <3>1, <3>2 DEF Refining
  <2>13. ASSUME NEW s \in GoalSlot, AcceptEmit(s) PROVE Said
    BY <2>a, <2>13 DEF AcceptEmit, Refining
  <2>14. ASSUME \/ \E v, b \in User, g \in Goal, c \in Circle : CreateInNewCircle(v, b, g, c)
                \/ \E g \in Goal : InviteExpires(g)
                \/ UNCHANGED goalVars
         PROVE  Said
    BY <2>3, <2>14 DEF CreateInNewCircle, InsertGoalRows, InviteExpires, goalVars
  <2> HIDE DEF Said
  <2>15. Said
    BY <2>4, <2>5, <2>6, <2>7, <2>8, <2>9, <2>10, <2>11, <2>12, <2>13, <2>14 DEF GoalsNext
  <2> QED
    BY <2>15 DEF Said
<1> QED
  BY <1>1, <1>2, GoalsTyping, PTL DEF GoalsSpec, Quota!Spec

=============================================================================
