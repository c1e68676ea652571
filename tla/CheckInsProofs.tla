---------------------------- MODULE CheckInsProofs ----------------------------
(***************************************************************************)
(* The safety properties of the review loop on top of the goals service,   *)
(* for any number of users, goals, check-ins and concurrent requests.      *)
(* What a request read is never asked for again, so an invariant about a   *)
(* check-in has to say what the requests in flight still carry.            *)
(***************************************************************************)
EXTENDS CheckIns, GoalsProofs, SequenceTheorems

RowsOK ==
    /\ checkIns \in [CheckIn -> [status : CheckInStatus, goal : Goal \cup {None}]]
    /\ \A c \in CheckIn : checkIns[c].status # "absent" => checkIns[c].goal \in Goal

RequestOK(r) ==
    /\ r \in CheckInRequest
    /\ r.step # "idle" => r.checkIn \in CheckIn /\ checkIns[r.checkIn].status # "absent"
    /\ r.step \in {"submit", "submitted", "count", "review"} => r.actor \in User
    /\ r.step \in {"review", "reviewed"} => r.decision \in Decision

RequestsOK ==
    /\ creq \in [CheckInSlot -> CheckInRequest]
    /\ \A s \in CheckInSlot : RequestOK(creq[s])

OthersOK ==
    /\ evidence \in [CheckIn -> [items : Nat, files : Nat, objects : Nat]]
    /\ ledger \in [Goal -> Seq(Review)]
    /\ progress \in [Goal -> [streak : Nat, health : {"unknown", "stable", "at_risk"}]]
    /\ approvals \in SUBSET CheckIn
    /\ events \in [CheckIn -> SUBSET {"submitted", "approved", "rejected"}]
    /\ firstProof \in [User -> Nat]

LEMMA TypesInParts == CheckInsTypeOK <=> RowsOK /\ RequestsOK /\ OthersOK
BY DEF CheckInsTypeOK, RowsOK, RequestsOK, RequestOK, OthersOK, CheckInRequest

LEMMA PartsInNext == RowsOK' /\ RequestsOK' /\ OthersOK' => CheckInsTypeOK'
BY DEF CheckInsTypeOK, RowsOK, RequestsOK, RequestOK, OthersOK, CheckInRequest

\* What every step does to the rows: a status changes, a row is born as a
\* draft, or nothing; a check-in keeps its goal and never disappears.
RowsMove ==
    /\ RowsOK'
    /\ \A c \in CheckIn : Status(c) # "absent" =>
         /\ checkIns'[c].status # "absent"
         /\ checkIns'[c].goal = checkIns[c].goal

LEMMA StatusMoves ==
  ASSUME RowsOK, NEW c \in CheckIn, NEW st \in CheckInStatus \ {"absent"},
         Status(c) # "absent", SetStatus(c, st)
  PROVE  /\ RowsMove
         /\ \A d \in CheckIn : checkIns'[d].status = IF d = c THEN st ELSE Status(d)
         /\ \A d \in CheckIn : checkIns'[d].goal = checkIns[d].goal
BY DEF RowsOK, RowsMove, Status, SetStatus

LEMMA RequestMoves ==
  ASSUME RequestsOK, RowsMove, NEW s \in CheckInSlot, NEW r, RequestOK(r),
         creq' = [creq EXCEPT ![s] = r]
  PROVE  RequestsOK'
<1>1. creq' \in [CheckInSlot -> CheckInRequest]
  BY DEF RequestsOK, RequestOK
<1>2. ASSUME NEW t \in CheckInSlot PROVE RequestOK(creq[t])'
  <2>1. \E q : creq'[t] = q /\ RequestOK(q)
    BY DEF RequestsOK
  <2> QED
    BY <2>1 DEF RequestOK, RowsMove, Status
<1> QED
  BY <1>1, <1>2 DEF RequestsOK

LEMMA EndMoves ==
  ASSUME RequestsOK, RowsMove, NEW s \in CheckInSlot, EndRequest(s)
  PROVE  RequestsOK'
<1>1. RequestOK(IdleCheckInRequest)
  BY DEF RequestOK, CheckInRequest, IdleCheckInRequest
<1> QED
  BY <1>1, RequestMoves DEF EndRequest

LEMMA RowsStay == ASSUME RowsOK, UNCHANGED checkIns PROVE RowsMove
BY DEF RowsOK, RowsMove, Status

\* Begin, for a request that is well formed.
LEMMA BeginMoves ==
  ASSUME RequestsOK, RowsOK, UNCHANGED checkIns, NEW s \in CheckInSlot,
         NEW step \in {"submit", "capacity", "review"}, NEW c \in CheckIn,
         NEW u \in User \cup {None}, NEW d \in Decision \cup {None}, NEW file \in BOOLEAN,
         step \in {"submit", "review"} => u \in User, step = "review" => d \in Decision,
         Begin(s, step, c, u, d, file)
  PROVE  RequestsOK'
<1> DEFINE r == [step |-> step, checkIn |-> c, actor |-> u, decision |-> d, file |-> file]
<1>1. RequestOK(r)
  BY DEF RequestOK, CheckInRequest, Begin, Status
<1>2. creq' = [creq EXCEPT ![s] = r]
  BY DEF Begin
<1> HIDE DEF r
<1> QED
  BY <1>1, <1>2, RowsStay, RequestMoves

\* A request goes on to its next step.
LEMMA StepMoves ==
  ASSUME RequestsOK, RowsMove, NEW s \in CheckInSlot, creq[s].step # "idle",
         NEW step \in {"submitted", "count", "put", "insert", "reviewed"},
         step \in {"submitted", "count"} => creq[s].actor \in User,
         step = "reviewed" => creq[s].decision \in Decision,
         creq' = [creq EXCEPT ![s].step = step]
  PROVE  RequestsOK'
<1> DEFINE r == [creq[s] EXCEPT !.step = step]
<1>1. creq[s] \in CheckInRequest /\ RequestOK(creq[s])
  BY DEF RequestsOK
<1>2. RequestOK(r)
  BY <1>1 DEF RequestOK, CheckInRequest
<1>3. creq' = [creq EXCEPT ![s] = r]
  OBVIOUS
<1> HIDE DEF r
<1> QED
  BY <1>2, <1>3, RequestMoves

-----------------------------------------------------------------------------

LEMMA CheckInsTypingStep ==
  ASSUME GoalsTypeOK, CheckInsTypeOK, CheckInsNext
  PROVE  CheckInsTypeOK' /\ RowsMove
<1>0. RowsOK /\ RequestsOK /\ OthersOK
  BY TypesInParts
<1> USE DEF OthersOK
<1>1. ASSUME NEW u \in User, NEW g \in Goal, NEW c \in CheckIn, CreateCheckIn(u, g, c)
      PROVE  CheckInsTypeOK' /\ RowsMove
  <2>1. RowsMove
    BY <1>0, <1>1 DEF CreateCheckIn, RowsMove, RowsOK, Status, CheckInStatus
  <2>2. RequestsOK'
    BY <1>0, <1>1, <2>1 DEF CreateCheckIn, RequestsOK, RequestOK, RowsMove, Status
  <2> QED
    BY <1>0, <1>1, <2>1, <2>2, PartsInNext DEF CreateCheckIn, RowsMove
<1>2. ASSUME NEW s \in CheckInSlot, NEW u \in User, NEW c \in CheckIn, SubmitLoad(s, u, c)
      PROVE  CheckInsTypeOK' /\ RowsMove
  BY <1>0, <1>2, RowsStay, BeginMoves, PartsInNext DEF SubmitLoad, RowsMove
<1>3. ASSUME NEW s \in CheckInSlot, SubmitWrite(s) PROVE CheckInsTypeOK' /\ RowsMove
  <2>1. RequestOK(creq[s]) /\ creq[s].step = "submit"
    BY <1>0, <1>3 DEF SubmitWrite, RequestsOK
  <2>2. RowsMove
    BY <1>0, <1>3, <2>1, StatusMoves DEF SubmitWrite, RequestOK, CheckInStatus, Status
  <2>3. RequestsOK'
    BY <1>0, <1>3, <2>1, <2>2, StepMoves DEF SubmitWrite, RequestOK
  <2> QED
    BY <1>0, <1>3, <2>2, <2>3, PartsInNext DEF SubmitWrite, RowsMove
<1>4. ASSUME NEW s \in CheckInSlot, SubmitEmit(s) PROVE CheckInsTypeOK' /\ RowsMove
  <2>1. RequestOK(creq[s]) /\ creq[s].step = "submitted"
    BY <1>0, <1>4 DEF SubmitEmit, RequestsOK
  <2>2. RowsMove
    BY <1>0, <1>4, RowsStay DEF SubmitEmit
  <2>3. RequestsOK'
    BY <1>0, <1>4, <2>1, <2>2, StepMoves DEF SubmitEmit, RequestOK
  <2>4. events' \in [CheckIn -> SUBSET {"submitted", "approved", "rejected"}]
    <3>1. CASE Emit(creq[s].checkIn, "submitted")
      BY <1>0, <2>1, <3>1 DEF Emit, RequestOK
    <3>2. CASE UNCHANGED events
      BY <1>0, <3>2
    <3> QED
      BY <1>4, <3>1, <3>2 DEF SubmitEmit
  <2> QED
    BY <1>0, <1>4, <2>2, <2>3, <2>4, PartsInNext DEF SubmitEmit, RowsMove
<1>5. ASSUME NEW s \in CheckInSlot, SubmitCount(s) PROVE CheckInsTypeOK' /\ RowsMove
  <2>1. RowsMove /\ RequestsOK'
    BY <1>0, <1>5, RowsStay, EndMoves DEF SubmitCount
  <2>2. firstProof' \in [User -> Nat]
    <3> DEFINE u == creq[s].actor
               n == IF SubmittedBy(u) = 1 THEN firstProof[u] + 1 ELSE firstProof[u]
    <3>1. u \in User
      BY <1>0, <1>5 DEF SubmitCount, RequestsOK, RequestOK
    <3>2. n \in Nat
      BY <1>0, <3>1
    <3>3. firstProof' = [firstProof EXCEPT ![u] = n]
      BY <1>5 DEF SubmitCount
    <3> HIDE DEF n
    <3> QED
      BY <1>0, <3>1, <3>2, <3>3
  <2> QED
    BY <1>0, <1>5, <2>1, <2>2, PartsInNext DEF SubmitCount, RowsMove
<1>6. ASSUME NEW s \in CheckInSlot, NEW c \in CheckIn, NEW kind \in EvidenceKinds,
             EvidenceLoad(s, c, kind)
      PROVE  CheckInsTypeOK' /\ RowsMove
  <2>1. RequestsOK'
    BY <1>0, <1>6, BeginMoves DEF EvidenceLoad
  <2> QED
    BY <1>0, <1>6, <2>1, RowsStay, PartsInNext DEF EvidenceLoad, RowsMove
<1>7. ASSUME NEW s \in CheckInSlot, EvidenceCount(s) PROVE CheckInsTypeOK' /\ RowsMove
  <2>1. RowsMove /\ creq[s].step = "capacity"
    BY <1>0, <1>7, RowsStay DEF EvidenceCount
  <2>2. \E step \in {"put", "insert"} : creq' = [creq EXCEPT ![s].step = step]
    BY <1>7 DEF EvidenceCount
  <2>3. RequestsOK'
    BY <1>0, <2>1, <2>2, StepMoves
  <2> QED
    BY <1>0, <1>7, <2>1, <2>3, PartsInNext DEF EvidenceCount, RowsMove
<1>8. ASSUME NEW s \in CheckInSlot, PutObject(s) \/ InsertEvidence(s)
      PROVE  CheckInsTypeOK' /\ RowsMove
  <2>1. RequestOK(creq[s]) /\ creq[s].step \in {"put", "insert"}
    BY <1>0, <1>8 DEF PutObject, InsertEvidence, RequestsOK
  <2>2. RowsMove
    BY <1>0, <1>8, RowsStay DEF PutObject, InsertEvidence
  <2>3. RequestsOK'
    BY <1>0, <1>8, <2>1, <2>2, StepMoves, EndMoves DEF PutObject, InsertEvidence
  <2>4. evidence' \in [CheckIn -> [items : Nat, files : Nat, objects : Nat]]
    <3> DEFINE c == creq[s].checkIn
    <3>1. c \in CheckIn /\ evidence[c] \in [items : Nat, files : Nat, objects : Nat]
      BY <1>0, <2>1 DEF RequestOK
    <3>2. \E e \in [items : Nat, files : Nat, objects : Nat] :
             evidence' = [evidence EXCEPT ![c] = e]
      <4>1. CASE PutObject(s)
        <5> DEFINE e == [evidence[c] EXCEPT !.objects = evidence[c].objects + 1]
        <5>1. e \in [items : Nat, files : Nat, objects : Nat]
          BY <3>1
        <5>2. evidence' = [evidence EXCEPT ![c] = e]
          BY <4>1 DEF PutObject
        <5> HIDE DEF e
        <5> QED
          BY <5>1, <5>2
      <4>2. CASE InsertEvidence(s)
        <5> DEFINE n == IF creq[s].file THEN evidence[c].files + 1 ELSE evidence[c].files
                   e == [evidence[c] EXCEPT !.items = evidence[c].items + 1]
                   f == [e EXCEPT !.files = n]
        <5>1. evidence' = [evidence EXCEPT ![c] = f]
          BY <4>2 DEF InsertEvidence
        <5>2. n \in Nat
          BY <3>1
        <5>3. e \in [items : Nat, files : Nat, objects : Nat]
          BY <3>1
        <5> HIDE DEF n, e
        <5>4. f \in [items : Nat, files : Nat, objects : Nat]
          BY <5>2, <5>3
        <5> HIDE DEF f
        <5> QED
          BY <5>1, <5>4
      <4> QED
        BY <1>8, <4>1, <4>2
    <3> QED
      BY <1>0, <3>1, <3>2
  <2> QED
    BY <1>0, <1>8, <2>2, <2>3, <2>4, PartsInNext DEF PutObject, InsertEvidence, RowsMove
<1>9. ASSUME NEW s \in CheckInSlot, NEW u \in User, NEW c \in CheckIn,
             NEW d \in Decision, ReviewLoad(s, u, c, d)
      PROVE  CheckInsTypeOK' /\ RowsMove
  BY <1>0, <1>9, RowsStay, BeginMoves, PartsInNext DEF ReviewLoad, RowsMove
<1>10. ASSUME NEW s \in CheckInSlot, RecordReview(s) PROVE CheckInsTypeOK' /\ RowsMove
  <2> DEFINE r == creq[s]
             g == checkIns[r.checkIn].goal
  <2>1. RequestOK(r) /\ r.step = "review"
    BY <1>0, <1>10 DEF RecordReview, RequestsOK
  <2>2. /\ r.checkIn \in CheckIn /\ r.actor \in User /\ r.decision \in Decision
        /\ Status(r.checkIn) # "absent" /\ g \in Goal
    BY <1>0, <2>1 DEF RequestOK, RowsOK, Status
  <2>3. RowsMove
    BY <1>0, <1>10, <2>2, StatusMoves DEF RecordReview, Decision, CheckInStatus
  <2>4. RequestsOK'
    BY <1>0, <1>10, <2>1, <2>2, <2>3, StepMoves DEF RecordReview
  <2>5. ledger' \in [Goal -> Seq(Review)]
    <3> DEFINE v == [checkIn |-> r.checkIn, reviewer |-> r.actor, decision |-> r.decision]
    <3>1. v \in Review /\ ledger[g] \in Seq(Review)
      BY <1>0, <2>2 DEF Review
    <3>2. Append(ledger[g], v) \in Seq(Review)
      BY <3>1, AppendProperties
    <3>3. ledger' = [ledger EXCEPT ![g] = Append(ledger[g], v)]
      BY <1>10 DEF RecordReview, AppendReview
    <3> QED
      BY <1>0, <3>2, <3>3
  <2>6. progress' \in [Goal -> [streak : Nat, health : {"unknown", "stable", "at_risk"}]]
    <3>1. progress[g] \in [streak : Nat, health : {"unknown", "stable", "at_risk"}]
      BY <1>0, <2>2
    <3>2. Moved(progress[g], r.decision) \in
             [streak : Nat, health : {"unknown", "stable", "at_risk"}]
      BY <2>2, <3>1 DEF Moved, Decision
    <3>3. progress' = [progress EXCEPT ![g] = Moved(progress[g], r.decision)]
      BY <1>10 DEF RecordReview, MoveProgress
    <3> QED
      BY <1>0, <3>2, <3>3
  <2> QED
    BY <1>0, <1>10, <2>3, <2>4, <2>5, <2>6, PartsInNext DEF RecordReview, RowsMove
<1>11. ASSUME NEW s \in CheckInSlot, ReviewEmit(s) PROVE CheckInsTypeOK' /\ RowsMove
  <2>1. RowsMove /\ RequestsOK'
    BY <1>0, <1>11, RowsStay, EndMoves DEF ReviewEmit
  <2>2. events' \in [CheckIn -> SUBSET {"submitted", "approved", "rejected"}]
    BY <1>0, <1>11 DEF ReviewEmit, Emit, RequestsOK, RequestOK
  <2> QED
    BY <1>0, <1>11, <2>1, <2>2, PartsInNext DEF ReviewEmit, RowsMove
<1>12. ASSUME NEW u \in User, NEW c \in CheckIn, InitiativeApprove(u, c)
       PROVE  CheckInsTypeOK' /\ RowsMove
  <2>1. RowsMove
    BY <1>0, <1>12, StatusMoves DEF InitiativeApprove, CheckInStatus, Decision
  <2>2. RequestsOK'
    BY <1>0, <1>12, <2>1 DEF InitiativeApprove, RequestsOK, RequestOK, RowsMove, Status
  <2> QED
    BY <1>0, <1>12, <2>1, <2>2, PartsInNext DEF InitiativeApprove, RowsMove
<1>13. ASSUME NEW s \in CheckInSlot, CheckInRequestFails(s) PROVE CheckInsTypeOK' /\ RowsMove
  BY <1>0, <1>13, RowsStay, EndMoves, PartsInNext DEF CheckInRequestFails, RowsMove
<1> QED
  BY <1>1, <1>2, <1>3, <1>4, <1>5, <1>6, <1>7, <1>8, <1>9, <1>10, <1>11, <1>12, <1>13
     DEF CheckInsNext

LEMMA CheckInsInitTypes == CheckInsInit => CheckInsTypeOK
BY EmptySeq DEF CheckInsInit, CheckInsTypeOK, NoCheckIn, CheckInStatus, CheckInRequest,
   IdleCheckInRequest

\* The composition behaves, seen from the goals, like the goals alone.
LEMMA LoopIsGoals == LoopSpec => GoalsSpec
<1>1. LoopInit => GoalsInit
  BY DEF LoopInit
<1>2. [LoopNext]_allVars => [GoalsNext]_goalVars
  BY DEF LoopNext, allVars, goalVars
<1> QED
  BY <1>1, <1>2, PTL DEF LoopSpec, GoalsSpec

(* The rows and the requests of the review loop keep their types: a        *)
(* request in flight holds what its next statement needs, and a check-in   *)
(* never loses its goal.                                                   *)
THEOREM CheckInsTyping == LoopSpec => []CheckInsTypeOK
<1>1. LoopInit => CheckInsTypeOK
  BY CheckInsInitTypes DEF LoopInit
<1>2. GoalsTypeOK /\ CheckInsTypeOK /\ [LoopNext]_allVars => CheckInsTypeOK'
  <2> SUFFICES ASSUME GoalsTypeOK, CheckInsTypeOK, [LoopNext]_allVars
               PROVE  CheckInsTypeOK'
    OBVIOUS
  <2>1. CASE CheckInsNext
    BY <2>1, CheckInsTypingStep
  <2>2. CASE UNCHANGED loopVars
    BY <2>2 DEF loopVars, CheckInsTypeOK
  <2> QED
    BY <2>1, <2>2 DEF LoopNext, allVars
<1> QED
  BY <1>1, <1>2, LoopIsGoals, GoalsTyping, PTL DEF LoopSpec

(* The two services share the tables of the goal; the rows and the         *)
(* requests of both keep their types whichever of them takes a step.       *)
THEOREM LoopTyping == LoopSpec => []LoopTypeOK
<1>1. GoalsTypeOK /\ CheckInsTypeOK => LoopTypeOK
  BY DEF LoopTypeOK
<1> QED
  BY <1>1, LoopIsGoals, GoalsTyping, CheckInsTyping, PTL

-----------------------------------------------------------------------------
(* What changes a row, and who is responsible.                             *)

LEMMA RowChanges ==
  ASSUME CheckInsTypeOK, CheckInsNext, NEW c \in CheckIn
  PROVE  \/ checkIns'[c] = checkIns[c]
         \/ \E u \in User, g \in Goal : CreateCheckIn(u, g, c)
         \/ \E s \in CheckInSlot : SubmitWrite(s) /\ creq[s].checkIn = c
         \/ \E s \in CheckInSlot : RecordReview(s) /\ creq[s].checkIn = c
         \/ \E u \in User : InitiativeApprove(u, c)
<1>0. checkIns \in [CheckIn -> [status : CheckInStatus, goal : Goal \cup {None}]]
  BY DEF CheckInsTypeOK
<1>1. ASSUME NEW u \in User, NEW g \in Goal, NEW d \in CheckIn, CreateCheckIn(u, g, d)
      PROVE  d = c \/ checkIns'[c] = checkIns[c]
  BY <1>0, <1>1 DEF CreateCheckIn
<1>2. ASSUME NEW s \in CheckInSlot, SubmitWrite(s)
      PROVE  creq[s].checkIn = c \/ checkIns'[c] = checkIns[c]
  BY <1>0, <1>2 DEF SubmitWrite, SetStatus
<1>3. ASSUME NEW s \in CheckInSlot, RecordReview(s)
      PROVE  creq[s].checkIn = c \/ checkIns'[c] = checkIns[c]
  BY <1>0, <1>3 DEF RecordReview, SetStatus
<1>4. ASSUME NEW u \in User, NEW d \in CheckIn, InitiativeApprove(u, d)
      PROVE  d = c \/ checkIns'[c] = checkIns[c]
  BY <1>0, <1>4 DEF InitiativeApprove, SetStatus
<1> QED
  BY <1>1, <1>2, <1>3, <1>4 DEF CheckInsNext, SubmitLoad, SubmitEmit, SubmitCount,
     EvidenceLoad, EvidenceCount, PutObject, InsertEvidence, ReviewLoad, ReviewEmit,
     CheckInRequestFails

LEMMA RequestChanges ==
  ASSUME CheckInsTypeOK, CheckInsNext, NEW t \in CheckInSlot
  PROVE  \/ creq'[t] = creq[t]
         \/ creq'[t].step \notin {"submit", "review", "reviewed"}
         \/ /\ creq'[t].step = "submit"
            /\ \E u \in User, c \in CheckIn :
                 SubmitLoad(t, u, c) /\ creq'[t].checkIn = c
         \/ /\ creq'[t].step = "review"
            /\ \E u \in User, c \in CheckIn, d \in Decision :
                 ReviewLoad(t, u, c, d) /\ creq'[t].checkIn = c
         \/ RecordReview(t)
<1> DEFINE Said == \/ creq'[t] = creq[t]
                   \/ creq'[t].step \notin {"submit", "review", "reviewed"}
<1>0. creq \in [CheckInSlot -> CheckInRequest]
  BY DEF CheckInsTypeOK
<1>1. ASSUME NEW s \in CheckInSlot, EndRequest(s) PROVE Said
  BY <1>0, <1>1 DEF EndRequest, IdleCheckInRequest
<1>2. ASSUME NEW s \in CheckInSlot, NEW step \in {"submitted", "count", "put", "insert"},
             creq' = [creq EXCEPT ![s].step = step]
      PROVE  Said
  <2> DEFINE r == [creq[s] EXCEPT !.step = step]
  <2>1. r.step = step
    BY <1>0 DEF CheckInRequest
  <2>2. creq' = [creq EXCEPT ![s] = r]
    BY <1>2
  <2> HIDE DEF r
  <2> QED
    BY <1>0, <2>1, <2>2
<1>3. ASSUME NEW s \in CheckInSlot, NEW c \in CheckIn, NEW kind \in EvidenceKinds,
             EvidenceLoad(s, c, kind)
      PROVE  Said
  BY <1>0, <1>3 DEF EvidenceLoad, Begin
<1>4. ASSUME NEW s \in CheckInSlot, NEW u \in User, NEW c \in CheckIn, SubmitLoad(s, u, c)
      PROVE  Said \/ (s = t /\ creq'[t].step = "submit" /\ creq'[t].checkIn = c)
  <2> DEFINE r == [step |-> "submit", checkIn |-> c, actor |-> u, decision |-> None,
                   file |-> FALSE]
  <2>1. creq' = [creq EXCEPT ![s] = r]
    BY <1>4 DEF SubmitLoad, Begin
  <2>2. r.step = "submit" /\ r.checkIn = c
    OBVIOUS
  <2> HIDE DEF r
  <2> QED
    BY <1>0, <2>1, <2>2
<1>5. ASSUME NEW s \in CheckInSlot, NEW u \in User, NEW c \in CheckIn, NEW d \in Decision,
             ReviewLoad(s, u, c, d)
      PROVE  Said \/ (s = t /\ creq'[t].step = "review" /\ creq'[t].checkIn = c)
  <2> DEFINE r == [step |-> "review", checkIn |-> c, actor |-> u, decision |-> d,
                   file |-> FALSE]
  <2>1. creq' = [creq EXCEPT ![s] = r]
    BY <1>5 DEF ReviewLoad, Begin
  <2>2. r.step = "review" /\ r.checkIn = c
    OBVIOUS
  <2> HIDE DEF r
  <2> QED
    BY <1>0, <2>1, <2>2
<1>6. ASSUME NEW s \in CheckInSlot, RecordReview(s) PROVE Said \/ s = t
  BY <1>0, <1>6 DEF RecordReview
<1>7. ASSUME UNCHANGED creq PROVE Said
  BY <1>7
<1>8. ASSUME NEW s \in CheckInSlot, EvidenceCount(s) PROVE Said
  BY <1>2, <1>8 DEF EvidenceCount
<1> HIDE DEF Said
<1>9. \/ Said
      \/ \E u \in User, c \in CheckIn :
           SubmitLoad(t, u, c) /\ creq'[t].step = "submit" /\ creq'[t].checkIn = c
      \/ \E u \in User, c \in CheckIn, d \in Decision :
           ReviewLoad(t, u, c, d) /\ creq'[t].step = "review" /\ creq'[t].checkIn = c
      \/ RecordReview(t)
  <2>1. ASSUME NEW s \in CheckInSlot,
               \/ SubmitWrite(s) \/ SubmitEmit(s) \/ SubmitCount(s) \/ EvidenceCount(s)
               \/ PutObject(s) \/ InsertEvidence(s) \/ ReviewEmit(s) \/ CheckInRequestFails(s)
        PROVE  Said
    BY <1>1, <1>2, <1>8, <2>1 DEF SubmitWrite, SubmitEmit, SubmitCount, PutObject,
       InsertEvidence, ReviewEmit, CheckInRequestFails
  <2>2. ASSUME NEW u \in User, NEW c \in CheckIn,
               InitiativeApprove(u, c) \/ \E g \in Goal : CreateCheckIn(u, g, c)
        PROVE  Said
    BY <1>7, <2>2 DEF InitiativeApprove, CreateCheckIn
  <2> QED
    <3>1. ASSUME NEW s \in CheckInSlot, NEW u \in User, NEW c \in CheckIn, SubmitLoad(s, u, c)
          PROVE  Said \/ (SubmitLoad(t, u, c) /\ creq'[t].step = "submit" /\ creq'[t].checkIn = c)
      BY <1>4, <3>1
    <3>2. ASSUME NEW s \in CheckInSlot, NEW u \in User, NEW c \in CheckIn, NEW d \in Decision,
                 ReviewLoad(s, u, c, d)
          PROVE  Said \/ (ReviewLoad(t, u, c, d) /\ creq'[t].step = "review" /\ creq'[t].checkIn = c)
      BY <1>5, <3>2
    <3>3. ASSUME NEW s \in CheckInSlot, RecordReview(s) PROVE Said \/ RecordReview(t)
      BY <1>6, <3>3
    <3> QED
      BY <1>3, <2>1, <2>2, <3>1, <3>2, <3>3 DEF CheckInsNext
<1> QED
  BY <1>9 DEF Said

-----------------------------------------------------------------------------
(* Decisions.                                                              *)

LEMMA Appended ==
  ASSUME NEW S, NEW log \in Seq(S), NEW v \in S
  PROVE  /\ Len(log) \in Nat /\ DOMAIN log = 1..Len(log)
         /\ Len(Append(log, v)) = Len(log) + 1
         /\ DOMAIN Append(log, v) = 1..(Len(log) + 1)
         /\ \A i \in 1..Len(log) : Append(log, v)[i] = log[i]
         /\ Append(log, v)[Len(log) + 1] = v
BY AppendProperties, LenProperties

LEMMA Recorded ==
  ASSUME CheckInsTypeOK, NEW s \in CheckInSlot, RecordReview(s),
         NEW c, c = creq[s].checkIn, NEW g, g = checkIns[c].goal
  PROVE  /\ c \in CheckIn /\ g \in Goal /\ creq[s].decision \in Decision
         /\ Status(c) # "absent"
         /\ \A h \in Goal : h # g => ledger'[h] = ledger[h] /\ progress'[h] = progress[h]
         /\ progress'[g] = Moved(progress[g], creq[s].decision)
         /\ Len(ledger[g]) \in Nat /\ DOMAIN ledger[g] = 1..Len(ledger[g])
         /\ Len(ledger'[g]) = Len(ledger[g]) + 1
         /\ DOMAIN ledger'[g] = 1..(Len(ledger[g]) + 1)
         /\ \A i \in 1..Len(ledger[g]) : ledger'[g][i] = ledger[g][i]
         /\ ledger'[g][Len(ledger[g]) + 1].checkIn = c
         /\ ledger'[g][Len(ledger[g]) + 1].decision = creq[s].decision
         /\ checkIns'[c].status = creq[s].decision
         /\ \A d \in CheckIn : checkIns'[d].goal = checkIns[d].goal
         /\ \A d \in CheckIn : d # c => checkIns'[d] = checkIns[d]
<1>1. creq[s].step = "review"
  BY DEF RecordReview
<1>2. /\ c \in CheckIn /\ creq[s].decision \in Decision /\ creq[s].actor \in User
      /\ Status(c) # "absent"
  BY <1>1 DEF CheckInsTypeOK, Status
<1>3. g \in Goal
  BY <1>2 DEF CheckInsTypeOK, Status
<1> DEFINE v == [checkIn |-> c, reviewer |-> creq[s].actor, decision |-> creq[s].decision]
<1>4. v \in Review /\ ledger[g] \in Seq(Review)
  BY <1>2, <1>3 DEF Review, CheckInsTypeOK
<1>5. ledger' = [ledger EXCEPT ![g] = Append(ledger[g], v)]
  BY DEF RecordReview, AppendReview
<1>6. ledger'[g] = Append(ledger[g], v) /\ \A h \in Goal : h # g => ledger'[h] = ledger[h]
  BY <1>3, <1>5 DEF CheckInsTypeOK
<1>7. /\ progress'[g] = Moved(progress[g], creq[s].decision)
      /\ \A h \in Goal : h # g => progress'[h] = progress[h]
  BY <1>3 DEF RecordReview, MoveProgress, CheckInsTypeOK
<1>8. /\ checkIns'[c].status = creq[s].decision
      /\ \A d \in CheckIn : checkIns'[d].goal = checkIns[d].goal
      /\ \A d \in CheckIn : d # c => checkIns'[d] = checkIns[d]
  BY <1>2 DEF RecordReview, SetStatus, CheckInsTypeOK
<1>9. v.checkIn = c /\ v.decision = creq[s].decision
  OBVIOUS
<1> HIDE DEF v
<1>10. /\ Len(Append(ledger[g], v)) = Len(ledger[g]) + 1
       /\ DOMAIN Append(ledger[g], v) = 1..(Len(ledger[g]) + 1)
       /\ \A i \in 1..Len(ledger[g]) : Append(ledger[g], v)[i] = ledger[g][i]
       /\ Append(ledger[g], v)[Len(ledger[g]) + 1] = v
  BY <1>4, Appended
<1>11. Len(ledger[g]) \in Nat /\ DOMAIN ledger[g] = 1..Len(ledger[g])
  BY <1>4, Appended
<1>12. /\ Len(ledger[g]) \in Nat /\ DOMAIN ledger[g] = 1..Len(ledger[g])
       /\ Len(ledger'[g]) = Len(ledger[g]) + 1
       /\ DOMAIN ledger'[g] = 1..(Len(ledger[g]) + 1)
       /\ \A i \in 1..Len(ledger[g]) : ledger'[g][i] = ledger[g][i]
       /\ ledger'[g][Len(ledger[g]) + 1] = v
  BY <1>6, <1>10, <1>11
<1> QED
  BY <1>2, <1>3, <1>6, <1>7, <1>8, <1>9, <1>12

LEMMA LedgerGrows ==
  ASSUME CheckInsTypeOK, NEW s \in CheckInSlot, RecordReview(s), NEW h \in Goal
  PROVE  LET n == Len(ledger[h]) IN
         /\ n \in Nat /\ DOMAIN ledger[h] = 1..n
         /\ \/ ledger'[h] = ledger[h]
            \/ /\ DOMAIN ledger'[h] = 1..(n + 1) /\ Len(ledger'[h]) = n + 1
               /\ \A i \in 1..n : ledger'[h][i] = ledger[h][i]
               /\ ledger'[h][n + 1].checkIn = creq[s].checkIn
<1> DEFINE d == creq[s].checkIn
           g == checkIns[d].goal
           v == [checkIn |-> d, reviewer |-> creq[s].actor, decision |-> creq[s].decision]
<1>1. creq[s].step = "review"
  BY DEF RecordReview
<1>2. v \in Review
  BY <1>1 DEF Review, CheckInsTypeOK
<1>3. ledger' = [ledger EXCEPT ![g] = Append(ledger[g], v)]
  BY DEF RecordReview, AppendReview
<1>4. v.checkIn = d /\ ledger[h] \in Seq(Review)
  BY DEF CheckInsTypeOK
<1> HIDE DEF v, g, d
<1>5. ledger'[h] = ledger[h] \/ ledger'[h] = Append(ledger[h], v)
  BY <1>3 DEF CheckInsTypeOK
<1>6. Len(ledger[h]) \in Nat /\ DOMAIN ledger[h] = 1..Len(ledger[h])
  BY <1>2, <1>4, Appended
<1>7. /\ Len(Append(ledger[h], v)) = Len(ledger[h]) + 1
      /\ DOMAIN Append(ledger[h], v) = 1..(Len(ledger[h]) + 1)
      /\ \A i \in 1..Len(ledger[h]) : Append(ledger[h], v)[i] = ledger[h][i]
      /\ Append(ledger[h], v)[Len(ledger[h]) + 1] = v
  BY <1>2, <1>4, Appended
<1> QED
  BY <1>4, <1>5, <1>6, <1>7 DEF d

LEMMA LedgerChanges ==
  ASSUME CheckInsNext
  PROVE  \/ UNCHANGED <<ledger, progress>>
         \/ \E s \in CheckInSlot : RecordReview(s)
BY DEF CheckInsNext, CreateCheckIn, SubmitLoad, SubmitWrite, SubmitEmit, SubmitCount,
   EvidenceLoad, EvidenceCount, PutObject, InsertEvidence, ReviewLoad, ReviewEmit,
   CheckInRequestFails, InitiativeApprove

(* However decisions and submissions overlap, a check-in that is decided   *)
(* has the status its last recorded review gave it, or was approved by an  *)
(* initiative: the transaction that writes the one writes the other.       *)
THEOREM Decisions == LoopSpec => []DecisionIsOnRecord
<1>1. LoopInit => DecisionIsOnRecord
  BY DEF LoopInit, CheckInsInit, DecisionIsOnRecord, NoCheckIn, Status, Decision
<1>2. GoalsTypeOK /\ CheckInsTypeOK /\ DecisionIsOnRecord /\ [LoopNext]_allVars
        => DecisionIsOnRecord'
  <2> SUFFICES ASSUME GoalsTypeOK, CheckInsTypeOK, DecisionIsOnRecord, [LoopNext]_allVars,
                      NEW c \in CheckIn, checkIns'[c].status \in Decision
               PROVE  \/ LastReviewSays(c, checkIns[c].status)'
                      \/ checkIns'[c].status = "approved" /\ c \in approvals'
    BY DEF DecisionIsOnRecord, Status
  <2> DEFINE Goal_ == \/ LastReviewSays(c, checkIns[c].status)'
                      \/ checkIns'[c].status = "approved" /\ c \in approvals'
  <2>1. ASSUME NEW s \in CheckInSlot, RecordReview(s) PROVE Goal_
    <3> DEFINE d == creq[s].checkIn
               g == checkIns[d].goal
               n == Len(ledger[g])
    <3>0. approvals' = approvals
      BY <2>1 DEF RecordReview
    <3>1. CASE c = d
      <4>1. /\ checkIns'[c].goal = g /\ n \in Nat
            /\ DOMAIN ledger'[g] = 1..(n + 1) /\ Len(ledger'[g]) = n + 1
            /\ ledger'[g][n + 1].checkIn = c
            /\ ledger'[g][n + 1].decision = checkIns'[c].status
        <5>1. d \in CheckIn
          BY <2>1, Recorded
        <5>2. n \in Nat
          BY <2>1, Recorded
        <5>3. DOMAIN ledger'[g] = 1..(n + 1)
          BY <2>1, Recorded
        <5>4. Len(ledger'[g]) = n + 1
          BY <2>1, Recorded
        <5>5. ledger'[g][n + 1].checkIn = d
          BY <2>1, Recorded
        <5>6. ledger'[g][n + 1].decision = creq[s].decision
          BY <2>1, Recorded
        <5>7. checkIns'[d].status = creq[s].decision
          BY <2>1, Recorded
        <5>8. checkIns'[d].goal = g
          BY <2>1, <5>1, Recorded
        <5> HIDE DEF d, n
        <5> QED
          BY <3>1, <5>2, <5>3, <5>4, <5>5, <5>6, <5>7, <5>8
      <4> HIDE DEF n, g
      <4>2. \E i \in DOMAIN ledger'[g] :
               /\ ledger'[g][i].checkIn = c
               /\ ledger'[g][i].decision = checkIns'[c].status
               /\ \A j \in (i + 1)..Len(ledger'[g]) : ledger'[g][j].checkIn # c
        BY <4>1
      <4> QED
        BY <4>1, <4>2 DEF LastReviewSays
    <3>2. CASE c # d
      <4>1. checkIns'[c] = checkIns[c]
        BY <2>1, <3>2, Recorded
      <4>2. CASE LastReviewSays(c, checkIns[c].status)
        <5> DEFINE h == checkIns[c].goal
                   len == Len(ledger[h])
        <5>0. h \in Goal
          BY <4>1 DEF CheckInsTypeOK, Status, Decision
        <5>1. CASE ledger'[h] = ledger[h]
          BY <4>1, <4>2, <5>1 DEF LastReviewSays
        <5>2. CASE ledger'[h] # ledger[h]
          <6>1. /\ len \in Nat /\ DOMAIN ledger[h] = 1..len
                /\ DOMAIN ledger'[h] = 1..(len + 1) /\ Len(ledger'[h]) = len + 1
                /\ \A i \in 1..len : ledger'[h][i] = ledger[h][i]
                /\ ledger'[h][len + 1].checkIn = d
            BY <2>1, <5>0, <5>2, LedgerGrows
          <6>00. Len(ledger[h]) = len
            OBVIOUS
          <6> HIDE DEF len, h
          <6>0. \E i \in 1..len :
                  /\ ledger[h][i].checkIn = c
                  /\ ledger[h][i].decision = checkIns[c].status
                  /\ \A j \in (i + 1)..len : ledger[h][j].checkIn # c
            BY <4>2, <6>00, <6>1 DEF LastReviewSays, h
          <6>2. PICK i \in 1..len :
                  /\ ledger[h][i].checkIn = c
                  /\ ledger[h][i].decision = checkIns[c].status
                  /\ \A j \in (i + 1)..len : ledger[h][j].checkIn # c
            BY <6>0
          <6>3. \A j \in (i + 1)..(len + 1) : ledger'[h][j].checkIn # c
            <7> SUFFICES ASSUME NEW j \in (i + 1)..(len + 1) PROVE ledger'[h][j].checkIn # c
              OBVIOUS
            <7>1. CASE j = len + 1
              BY <3>2, <6>1, <7>1
            <7>2. CASE j # len + 1
              BY <6>1, <6>2, <7>2
            <7> QED
              BY <7>1, <7>2
          <6>4. i \in DOMAIN ledger'[h] /\ ledger'[h][i] = ledger[h][i]
            BY <6>1, <6>2
          <6>5. \E k \in DOMAIN ledger'[h] :
                   /\ ledger'[h][k].checkIn = c
                   /\ ledger'[h][k].decision = checkIns'[c].status
                   /\ \A j \in (k + 1)..Len(ledger'[h]) : ledger'[h][j].checkIn # c
            BY <4>1, <6>1, <6>2, <6>3, <6>4
          <6> QED
            BY <4>1, <6>5 DEF LastReviewSays, h
        <5> QED
          BY <5>1, <5>2
      <4> QED
        BY <3>0, <4>1, <4>2 DEF DecisionIsOnRecord, Status
    <3> QED
      BY <3>1, <3>2
  <2>2. CASE CheckInsNext /\ UNCHANGED ledger
    <3>1. CASE checkIns'[c] = checkIns[c]
      <4>1. approvals \subseteq approvals'
        BY <2>2 DEF CheckInsNext, CreateCheckIn, SubmitLoad, SubmitWrite, SubmitEmit,
           SubmitCount, EvidenceLoad, EvidenceCount, PutObject, InsertEvidence, ReviewLoad,
           RecordReview, ReviewEmit, CheckInRequestFails, InitiativeApprove
      <4> QED
        BY <2>2, <3>1, <4>1 DEF DecisionIsOnRecord, LastReviewSays, Status
    <3>2. ASSUME NEW u \in User, InitiativeApprove(u, c) PROVE Goal_
      BY <3>2 DEF InitiativeApprove, SetStatus, CheckInsTypeOK
    <3>3. ASSUME NEW u \in User, NEW g \in Goal, CreateCheckIn(u, g, c) PROVE FALSE
      BY <3>3 DEF CreateCheckIn, CheckInsTypeOK, Decision
    <3>4. ASSUME NEW s \in CheckInSlot, SubmitWrite(s), creq[s].checkIn = c PROVE FALSE
      BY <3>4 DEF SubmitWrite, SetStatus, CheckInsTypeOK, Decision
    <3> QED
      BY <2>1, <2>2, <3>1, <3>2, <3>3, <3>4, RowChanges
  <2>3. CASE UNCHANGED loopVars
    BY <2>3 DEF loopVars, DecisionIsOnRecord, LastReviewSays, Status
  <2> QED
    BY <2>1, <2>2, <2>3, LedgerChanges DEF LoopNext, allVars
<1> QED
  BY <1>1, <1>2, LoopIsGoals, GoalsTyping, CheckInsTyping, PTL DEF LoopSpec

\* A review in the ledger is there for good.
LEMMA ReviewsStay ==
  ASSUME GoalsTypeOK, CheckInsTypeOK, [LoopNext]_allVars, NEW c \in CheckIn,
         Status(c) # "absent", NEW ds, Reviewed(c, ds)
  PROVE  Reviewed(c, ds)'
<1> DEFINE h == checkIns[c].goal
<1>1. CASE CheckInsNext
  <2>0. checkIns'[c].goal = h /\ h \in Goal
    BY <1>1, CheckInsTypingStep DEF RowsMove, CheckInsTypeOK, Status
  <2>1. CASE UNCHANGED ledger
    BY <2>0, <2>1 DEF Reviewed
  <2>2. ASSUME NEW s \in CheckInSlot, RecordReview(s) PROVE Reviewed(c, ds)'
    <3>1. CASE ledger'[h] = ledger[h]
      BY <2>0, <3>1 DEF Reviewed
    <3>2. CASE ledger'[h] # ledger[h]
      <4> DEFINE n == Len(ledger[h])
      <4>1. /\ n \in Nat /\ DOMAIN ledger[h] = 1..n /\ DOMAIN ledger'[h] = 1..(n + 1)
            /\ \A i \in 1..n : ledger'[h][i] = ledger[h][i]
        BY <2>0, <2>2, <3>2, LedgerGrows
      <4>2. \E i \in DOMAIN ledger[h] : ledger[h][i].checkIn = c /\ ledger[h][i].decision \in ds
        BY DEF Reviewed
      <4> HIDE DEF n, h
      <4>3. \E i \in DOMAIN ledger'[h] : ledger'[h][i].checkIn = c /\ ledger'[h][i].decision \in ds
        BY <4>1, <4>2
      <4> QED
        BY <2>0, <4>3 DEF Reviewed
    <3> QED
      BY <3>1, <3>2
  <2> QED
    BY <1>1, <2>1, <2>2, LedgerChanges
<1>2. CASE UNCHANGED loopVars
  BY <1>2 DEF loopVars, Reviewed
<1> QED
  BY <1>1, <1>2 DEF LoopNext, allVars

(* What is emitted about a check-in, or is about to be, is backed by a     *)
(* review on record.  The proof needs that nothing was emitted about a     *)
(* check-in before it existed, since its reviews are found by its goal.    *)
EventsInv == EventsAreBacked /\ \A c \in CheckIn : Status(c) = "absent" => events[c] = {}

THEOREM BackedEvents == LoopSpec => []EventsAreBacked
<1>1. LoopInit => EventsInv
  BY DEF LoopInit, CheckInsInit, EventsInv, EventsAreBacked, IdleCheckInRequest
<1>2. GoalsTypeOK /\ CheckInsTypeOK /\ EventsInv /\ [LoopNext]_allVars => EventsInv'
  <2> SUFFICES ASSUME GoalsTypeOK, CheckInsTypeOK, EventsInv, [LoopNext]_allVars
               PROVE  EventsInv'
    OBVIOUS
  <2> DEFINE Backed(c) ==
        /\ "rejected" \in events'[c] => Reviewed(c, {"rejected"})'
        /\ "approved" \in events'[c] => Reviewed(c, {"approved", "changes_requested"})'
  <2>0. ASSUME NEW c \in CheckIn, Status(c) # "absent" PROVE
           /\ Reviewed(c, {"rejected"}) => Reviewed(c, {"rejected"})'
           /\ Reviewed(c, {"approved", "changes_requested"})
                => Reviewed(c, {"approved", "changes_requested"})'
    BY <2>0, ReviewsStay
  <2>1. ASSUME NEW c \in CheckIn, events'[c] = events[c] PROVE Backed(c)
    BY <2>0, <2>1 DEF EventsInv, EventsAreBacked
  <2>2. CASE CheckInsNext
    <3>1. ASSUME NEW c \in CheckIn PROVE Backed(c)
      <4>1. ASSUME NEW s \in CheckInSlot, SubmitEmit(s) PROVE Backed(c)
        <5>1. events'[c] = events[c] \/ events'[c] = events[c] \cup {"submitted"}
          BY <4>1 DEF SubmitEmit, Emit, CheckInsTypeOK
        <5>2. Status(c) = "absent" => events'[c] = events[c]
          BY <4>1 DEF SubmitEmit, Emit, CheckInsTypeOK, Status
        <5> QED
          BY <2>0, <2>1, <5>1, <5>2 DEF EventsInv, EventsAreBacked
      <4>2. ASSUME NEW s \in CheckInSlot, ReviewEmit(s) PROVE Backed(c)
        <5> DEFINE k == IF creq[s].decision = "rejected" THEN "rejected" ELSE "approved"
        <5>0. /\ creq[s].step = "reviewed"
              /\ events' = [events EXCEPT ![creq[s].checkIn] = @ \cup {k}]
          BY <4>2 DEF ReviewEmit, Emit
        <5>1. CASE creq[s].checkIn = c
          <6>1. /\ Status(c) # "absent" /\ creq[s].decision \in Decision
                /\ Reviewed(c, {creq[s].decision})
            BY <5>0, <5>1 DEF CheckInsTypeOK, Status, EventsInv, EventsAreBacked
          <6>2. events'[c] = events[c] \cup {k}
            BY <5>0, <5>1 DEF CheckInsTypeOK
          <6>3. CASE creq[s].decision = "rejected"
            <7>1. Reviewed(c, {"rejected"})
              BY <6>1, <6>3
            <7> QED
              BY <2>0, <6>1, <6>2, <6>3, <7>1 DEF EventsInv, EventsAreBacked
          <6>4. CASE creq[s].decision # "rejected"
            <7>1. Reviewed(c, {"approved", "changes_requested"})
              BY <6>1, <6>4 DEF Reviewed, Decision
            <7> QED
              BY <2>0, <6>1, <6>2, <6>4, <7>1 DEF EventsInv, EventsAreBacked
          <6> QED
            BY <6>3, <6>4
        <5>2. CASE creq[s].checkIn # c
          <6>1. events'[c] = events[c]
            BY <5>0, <5>2 DEF CheckInsTypeOK
          <6> QED
            BY <2>1, <6>1
        <5> QED
          BY <5>1, <5>2
      <4>3. CASE UNCHANGED events
        BY <2>1, <4>3
      <4> QED
        BY <2>2, <4>1, <4>2, <4>3
           DEF CheckInsNext, CreateCheckIn, SubmitLoad, SubmitWrite, SubmitCount,
               EvidenceLoad, EvidenceCount, PutObject, InsertEvidence, ReviewLoad,
               RecordReview, CheckInRequestFails, InitiativeApprove
    <3>2. ASSUME NEW c \in CheckIn, NEW s \in CheckInSlot,
                 creq'[s].step = "reviewed", creq'[s].checkIn = c
          PROVE  Reviewed(c, {creq[s].decision})'
      <4>1. CASE creq'[s] = creq[s]
        <5>1. Status(c) # "absent" /\ Reviewed(c, {creq[s].decision})
          BY <3>2, <4>1 DEF CheckInsTypeOK, Status, EventsInv, EventsAreBacked
        <5> QED
          BY <4>1, <5>1, ReviewsStay DEF Reviewed
      <4>2. CASE RecordReview(s)
        <5> DEFINE g == checkIns[c].goal
                   n == Len(ledger[g])
        <5>1. creq[s].checkIn = c /\ creq'[s].decision = creq[s].decision
          BY <3>2, <4>2 DEF RecordReview, CheckInsTypeOK, CheckInRequest
        <5>2. /\ checkIns'[c].goal = g /\ n \in Nat
              /\ DOMAIN ledger'[g] = 1..(n + 1)
              /\ ledger'[g][n + 1].checkIn = c
              /\ ledger'[g][n + 1].decision = creq[s].decision
          BY <4>2, <5>1, Recorded
        <5> HIDE DEF n, g
        <5>3. \E i \in DOMAIN ledger'[g] :
                 ledger'[g][i].checkIn = c /\ ledger'[g][i].decision \in {creq'[s].decision}
          BY <5>1, <5>2
        <5> QED
          BY <5>2, <5>3 DEF Reviewed
      <4> QED
        BY <2>2, <3>2, <4>1, <4>2, RequestChanges
    <3>3. ASSUME NEW c \in CheckIn, checkIns'[c].status = "absent" PROVE events'[c] = {}
      <4>1. Status(c) = "absent" /\ events[c] = {}
        BY <2>2, <3>3, CheckInsTypingStep DEF RowsMove, EventsInv
      <4>2. ASSUME NEW s \in CheckInSlot, creq[s].step # "idle" PROVE creq[s].checkIn # c
        BY <4>1, <4>2 DEF CheckInsTypeOK, Status
      <4> QED
        BY <2>2, <4>1, <4>2
           DEF CheckInsTypeOK, CheckInsNext, CreateCheckIn, SubmitLoad, SubmitWrite,
               SubmitEmit, SubmitCount, EvidenceLoad, EvidenceCount, PutObject,
               InsertEvidence, ReviewLoad, RecordReview, ReviewEmit, CheckInRequestFails,
               InitiativeApprove, Emit
    <3> QED
      BY <3>1, <3>2, <3>3 DEF EventsInv, EventsAreBacked, Status
  <2>3. CASE UNCHANGED loopVars
    BY <2>3 DEF loopVars, EventsInv, EventsAreBacked, Reviewed, Status
  <2> QED
    BY <2>2, <2>3 DEF LoopNext, allVars
<1>3. EventsInv => EventsAreBacked
  BY DEF EventsInv
<1> QED
  BY <1>1, <1>2, <1>3, LoopIsGoals, GoalsTyping, CheckInsTyping, PTL DEF LoopSpec

(* Once the requests that read a check-in before its decision are done,    *)
(* nothing changes the decision: whoever reads it now finds it decided.    *)
THEOREM Settles == LoopSpec => SettledIsFinal
<1>1. ASSUME CheckInsTypeOK, [LoopNext]_allVars, NEW c \in CheckIn, Settled(c)
      PROVE  Settled(c)' /\ Status(c)' = Status(c)
  <2>0. Status(c) \in {"approved", "rejected"} /\ ~ InFlight(c)
    BY <1>1 DEF Settled
  <2>1. CASE CheckInsNext
    <3>1. checkIns'[c] = checkIns[c]
      BY <1>1, <2>0, <2>1, RowChanges
         DEF CreateCheckIn, SubmitWrite, RecordReview, InitiativeApprove, InFlight, Status
    <3>2. ASSUME NEW t \in CheckInSlot, creq'[t].step \in {"submit", "review"},
                 creq'[t].checkIn = c
          PROVE  FALSE
      <4>1. CASE creq'[t] = creq[t]
        BY <2>0, <3>2, <4>1 DEF InFlight
      <4>2. ASSUME NEW u \in User, SubmitLoad(t, u, c) PROVE FALSE
        BY <2>0, <4>2 DEF SubmitLoad, Editable
      <4>3. ASSUME NEW u \in User, NEW d \in Decision, ReviewLoad(t, u, c, d) PROVE FALSE
        BY <2>0, <4>3 DEF ReviewLoad
      <4>4. CASE RecordReview(t)
        BY <1>1, <3>2, <4>4 DEF RecordReview, CheckInsTypeOK, CheckInRequest
      <4> QED
        BY <1>1, <2>1, <3>2, <4>1, <4>2, <4>3, <4>4, RequestChanges
    <3> QED
      BY <2>0, <3>1, <3>2 DEF Settled, InFlight, Status
  <2>2. CASE UNCHANGED loopVars
    BY <2>0, <2>2 DEF loopVars, Settled, InFlight, Status
  <2> QED
    BY <1>1, <2>1, <2>2 DEF LoopNext, allVars
<1>2. CheckInsTypeOK /\ [LoopNext]_allVars =>
        [\A c \in CheckIn : Settled(c) => Settled(c)' /\ Status(c)' = Status(c)]_allVars
  BY <1>1
<1> QED
  BY <1>2, CheckInsTyping, PTL DEF LoopSpec, SettledIsFinal

-----------------------------------------------------------------------------
(* The streak.                                                             *)

\* The approvals that count: those with no rejection after them.
Counted(log) ==
    {i \in DOMAIN log : /\ log[i].decision = "approved"
                        /\ \A j \in i..Len(log) : log[j].decision # "rejected"}

Replayed(log, row) ==
    /\ row.streak = Cardinality(Counted(log))
    /\ row.health = "stable" <=> row.streak > 0
    /\ row.health = "unknown" <=> \A i \in DOMAIN log : log[i].decision = "changes_requested"

LEMMA StreakInParts == StreakIsReplayOfReviews <=> \A g \in Goal : Replayed(ledger[g], progress[g])
BY DEF StreakIsReplayOfReviews, Replayed, Counted

LEMMA CountedIsFinite ==
  ASSUME NEW log \in Seq(Review)
  PROVE  IsFiniteSet(Counted(log)) /\ Cardinality(Counted(log)) \in Nat
<1>1. Counted(log) \in SUBSET (1..Len(log)) /\ Len(log) \in Nat
  BY LenProperties DEF Counted
<1>2. IsFiniteSet(1..Len(log))
  BY <1>1, FS_Interval
<1> QED
  BY <1>1, <1>2, FS_Subset, FS_CardinalityType

\* Whatever review is appended, the row moves as the replay does.
LEMMA OneMoreReview ==
  ASSUME NEW log \in Seq(Review), NEW new \in Seq(Review), NEW n \in Nat, NEW d \in Decision,
         NEW row \in [streak : Nat, health : {"unknown", "stable", "at_risk"}],
         n = Len(log), DOMAIN log = 1..n, DOMAIN new = 1..(n + 1), Len(new) = n + 1,
         \A i \in 1..n : new[i] = log[i], new[n + 1].decision = d,
         Replayed(log, row)
  PROVE  Replayed(new, Moved(row, d))
<1>0. IsFiniteSet(Counted(log)) /\ Cardinality(Counted(log)) \in Nat
  BY CountedIsFinite
<1>1. CASE d = "approved"
  <2>1. Counted(new) = Counted(log) \cup {n + 1}
    BY <1>1 DEF Counted
  <2>2. n + 1 \notin Counted(log)
    BY DEF Counted
  <2>3. Cardinality(Counted(log) \cup {n + 1}) = Cardinality(Counted(log)) + 1
    BY <1>0, <2>2, FS_AddElement
  <2>4. Moved(row, d) = [streak |-> row.streak + 1, health |-> "stable"]
    BY <1>1 DEF Moved
  <2>5. new[n + 1].decision # "changes_requested" /\ n + 1 \in DOMAIN new
    BY <1>1
  <2> QED
    BY <1>0, <2>1, <2>3, <2>4, <2>5 DEF Replayed
<1>2. CASE d = "rejected"
  <2>1. Counted(new) = {}
    BY <1>2 DEF Counted
  <2>2. Moved(row, d) = [streak |-> 0, health |-> "at_risk"]
    BY <1>2 DEF Moved
  <2>3. new[n + 1].decision # "changes_requested" /\ n + 1 \in DOMAIN new
    BY <1>2
  <2> QED
    BY <2>1, <2>2, <2>3, FS_EmptySet DEF Replayed
<1>3. CASE d = "changes_requested"
  <2>1. Counted(new) = Counted(log)
    BY <1>3 DEF Counted
  <2>2. Moved(row, d) = row
    BY <1>3 DEF Moved
  <2>3. (\A i \in DOMAIN new : new[i].decision = "changes_requested")
          <=> (\A i \in DOMAIN log : log[i].decision = "changes_requested")
    BY <1>3
  <2> QED
    BY <2>1, <2>2, <2>3 DEF Replayed
<1> QED
  BY <1>1, <1>2, <1>3 DEF Decision

(* The streak and the health of a goal are at every moment the replay of   *)
(* its reviews in the order their transactions committed, whichever        *)
(* requests they came from and however late their decisions were.          *)
THEOREM Replay == LoopSpec => []StreakIsReplayOfReviews
<1> DEFINE Inv == \A g \in Goal : Replayed(ledger[g], progress[g])
<1>1. LoopInit => Inv
  <2> SUFFICES ASSUME LoopInit, NEW g \in Goal PROVE Replayed(ledger[g], progress[g])
    OBVIOUS
  <2>1. ledger[g] = << >> /\ progress[g] = [streak |-> 0, health |-> "unknown"]
    BY DEF LoopInit, CheckInsInit
  <2>2. Counted(<< >>) = {}
    BY DEF Counted
  <2>3. DOMAIN << >> = {}
    OBVIOUS
  <2>4. Cardinality({}) = 0
    BY FS_EmptySet
  <2> QED
    <3>1. progress[g].streak = 0 /\ progress[g].health = "unknown"
      BY <2>1
    <3>2. Counted(ledger[g]) = {} /\ DOMAIN ledger[g] = {}
      BY <2>1, <2>2, <2>3
    <3> QED
      BY <2>4, <3>1, <3>2 DEF Replayed
<1>2. CheckInsTypeOK /\ CheckInsTypeOK' /\ Inv /\ [LoopNext]_allVars => Inv'
  <2> SUFFICES ASSUME CheckInsTypeOK, CheckInsTypeOK', Inv, [LoopNext]_allVars, NEW g \in Goal
               PROVE  Replayed(ledger'[g], progress'[g])
    OBVIOUS
  <2>0. Replayed(ledger[g], progress[g])
    OBVIOUS
  <2>1. ASSUME NEW s \in CheckInSlot, RecordReview(s)
        PROVE  Replayed(ledger'[g], progress'[g])
    <3>1. CASE checkIns[creq[s].checkIn].goal # g
      <4>1. ledger'[g] = ledger[g] /\ progress'[g] = progress[g]
        BY <2>1, <3>1, Recorded
      <4> QED
        BY <2>0, <4>1
    <3>2. CASE checkIns[creq[s].checkIn].goal = g
      <4>1. /\ progress'[g] = Moved(progress[g], creq[s].decision)
            /\ creq[s].decision \in Decision
            /\ Len(ledger[g]) \in Nat /\ DOMAIN ledger[g] = 1..Len(ledger[g])
            /\ DOMAIN ledger'[g] = 1..(Len(ledger[g]) + 1)
            /\ Len(ledger'[g]) = Len(ledger[g]) + 1
            /\ ledger'[g][Len(ledger[g]) + 1].decision = creq[s].decision
        BY <2>1, <3>2, Recorded
      <4>2. \A i \in 1..Len(ledger[g]) : ledger'[g][i] = ledger[g][i]
        BY <2>1, <3>2, Recorded
      <4>3. /\ ledger[g] \in Seq(Review) /\ ledger'[g] \in Seq(Review)
            /\ progress[g] \in [streak : Nat, health : {"unknown", "stable", "at_risk"}]
        BY DEF CheckInsTypeOK
      <4> QED
        BY <2>0, <4>1, <4>2, <4>3, OneMoreReview
    <3> QED
      BY <3>1, <3>2
  <2>2. CASE UNCHANGED <<ledger, progress>>
    BY <2>0, <2>2
  <2> QED
    BY <2>1, <2>2, LedgerChanges DEF LoopNext, allVars, loopVars
<1>3. Inv => StreakIsReplayOfReviews
  BY StreakInParts
<1> QED
  BY <1>1, <1>2, <1>3, CheckInsTyping, PTL DEF LoopSpec

-----------------------------------------------------------------------------
(* Evidence.                                                               *)

\* The requests whose record is in R: what both counts below are made of.
SlotsIn(R) == {s \in CheckInSlot : creq[s] \in R}

SlotsInNext(R) == {s \in CheckInSlot : creq'[s] \in R}

LEMMA CountSlots ==
  ASSUME NEW R
  PROVE  /\ IsFiniteSet(SlotsIn(R)) /\ Cardinality(SlotsIn(R)) \in Nat
         /\ IsFiniteSet(SlotsInNext(R)) /\ Cardinality(SlotsInNext(R)) \in Nat
         /\ Cardinality(SlotsInNext(R)) <= Cardinality(CheckInSlot)
         /\ Cardinality(CheckInSlot) \in Nat
<1>1. SlotsIn(R) \subseteq CheckInSlot /\ SlotsInNext(R) \subseteq CheckInSlot
  BY DEF SlotsIn, SlotsInNext
<1>2. IsFiniteSet(CheckInSlot)
  BY CheckInsAssumption
<1> QED
  BY <1>1, <1>2, FS_Subset, FS_CardinalityType

\* One request moves: how the number of requests in R follows.
LEMMA OneSlotMoves ==
  ASSUME creq \in [CheckInSlot -> CheckInRequest], NEW s \in CheckInSlot, NEW r, NEW R,
         creq' = [creq EXCEPT ![s] = r]
  PROVE  /\ r \notin R => Cardinality(SlotsInNext(R)) <= Cardinality(SlotsIn(R))
         /\ r \notin R /\ creq[s] \in R =>
              Cardinality(SlotsInNext(R)) = Cardinality(SlotsIn(R)) - 1
         /\ Cardinality(SlotsInNext(R)) <= Cardinality(SlotsIn(R)) + 1
         /\ creq[s] \in R => Cardinality(SlotsInNext(R)) <= Cardinality(SlotsIn(R))
<1>0. /\ IsFiniteSet(SlotsIn(R)) /\ Cardinality(SlotsIn(R)) \in Nat
      /\ Cardinality(SlotsInNext(R)) \in Nat
  BY CountSlots
<1>1. CASE r \notin R
  <2>1. SlotsInNext(R) = SlotsIn(R) \ {s}
    BY <1>1 DEF SlotsIn, SlotsInNext
  <2>2. Cardinality(SlotsIn(R) \ {s}) =
          IF s \in SlotsIn(R) THEN Cardinality(SlotsIn(R)) - 1 ELSE Cardinality(SlotsIn(R))
    BY <1>0, FS_RemoveElement
  <2>3. creq[s] \in R <=> s \in SlotsIn(R)
    BY DEF SlotsIn
  <2> QED
    BY <1>0, <1>1, <2>1, <2>2, <2>3
<1>2. CASE r \in R
  <2>1. SlotsInNext(R) = SlotsIn(R) \cup {s}
    BY <1>2 DEF SlotsIn, SlotsInNext
  <2>2. Cardinality(SlotsIn(R) \cup {s}) =
          IF s \in SlotsIn(R) THEN Cardinality(SlotsIn(R)) ELSE Cardinality(SlotsIn(R)) + 1
    BY <1>0, FS_AddElement
  <2>3. creq[s] \in R <=> s \in SlotsIn(R)
    BY DEF SlotsIn
  <2> QED
    BY <1>0, <1>2, <2>1, <2>2, <2>3
<1> QED
  BY <1>1, <1>2

\* Every step leaves the evidence alone and puts no request in front of the
\* insert, or is one of the three steps that add evidence.
LEMMA EvidenceChanges ==
  ASSUME CheckInsTypeOK, CheckInsNext
  PROVE  \/ /\ UNCHANGED evidence
            /\ \/ UNCHANGED creq
               \/ \E s \in CheckInSlot, r \in CheckInRequest :
                    /\ r.step \notin {"put", "insert"}
                    /\ creq' = [creq EXCEPT ![s] = r]
         \/ \E s \in CheckInSlot : EvidenceCount(s) \/ PutObject(s) \/ InsertEvidence(s)
<1> DEFINE Quiet == /\ UNCHANGED evidence
                    /\ \/ UNCHANGED creq
                       \/ \E s \in CheckInSlot, r \in CheckInRequest :
                            /\ r.step \notin {"put", "insert"}
                            /\ creq' = [creq EXCEPT ![s] = r]
<1>0. creq \in [CheckInSlot -> CheckInRequest]
  BY DEF CheckInsTypeOK
<1>1. ASSUME NEW s \in CheckInSlot, EndRequest(s), UNCHANGED evidence PROVE Quiet
  <2>1. IdleCheckInRequest \in CheckInRequest /\ IdleCheckInRequest.step \notin {"put", "insert"}
    BY DEF IdleCheckInRequest, CheckInRequest
  <2> QED
    BY <1>1, <2>1 DEF EndRequest
<1>2. ASSUME NEW s \in CheckInSlot, NEW step \in {"submitted", "count", "reviewed"},
             creq' = [creq EXCEPT ![s].step = step], UNCHANGED evidence
      PROVE  Quiet
  <2> DEFINE r == [creq[s] EXCEPT !.step = step]
  <2>1. r \in CheckInRequest /\ r.step = step
    BY <1>0 DEF CheckInRequest
  <2>2. creq' = [creq EXCEPT ![s] = r]
    BY <1>2
  <2> HIDE DEF r
  <2> QED
    BY <1>2, <2>1, <2>2
<1>3. ASSUME NEW s \in CheckInSlot, NEW step \in {"submit", "capacity", "review"},
             NEW c \in CheckIn, NEW u \in User \cup {None}, NEW d \in Decision \cup {None},
             NEW file \in BOOLEAN,
             creq' = [creq EXCEPT ![s] = [step |-> step, checkIn |-> c, actor |-> u,
                                          decision |-> d, file |-> file]],
             UNCHANGED evidence
      PROVE  Quiet
  <2> DEFINE r == [step |-> step, checkIn |-> c, actor |-> u, decision |-> d, file |-> file]
  <2>1. r \in CheckInRequest /\ r.step = step
    BY DEF CheckInRequest
  <2>2. creq' = [creq EXCEPT ![s] = r]
    BY <1>3
  <2> HIDE DEF r
  <2> QED
    BY <1>3, <2>1, <2>2
<1>4. ASSUME NEW s \in CheckInSlot,
             \/ SubmitWrite(s) \/ SubmitEmit(s) \/ SubmitCount(s) \/ RecordReview(s)
             \/ ReviewEmit(s) \/ CheckInRequestFails(s)
      PROVE  Quiet
  BY <1>1, <1>2, <1>4 DEF SubmitWrite, SubmitEmit, SubmitCount, RecordReview, ReviewEmit,
     CheckInRequestFails
<1>5. ASSUME NEW s \in CheckInSlot, NEW u \in User, NEW c \in CheckIn, SubmitLoad(s, u, c)
      PROVE  Quiet
  BY <1>3, <1>5 DEF SubmitLoad, Begin
<1>6. ASSUME NEW s \in CheckInSlot, NEW u \in User, NEW c \in CheckIn, NEW d \in Decision,
             ReviewLoad(s, u, c, d)
      PROVE  Quiet
  BY <1>3, <1>6 DEF ReviewLoad, Begin
<1>7. ASSUME NEW s \in CheckInSlot, NEW c \in CheckIn, NEW kind \in EvidenceKinds,
             EvidenceLoad(s, c, kind)
      PROVE  Quiet
  BY <1>3, <1>7 DEF EvidenceLoad, Begin
<1>8. ASSUME NEW u \in User, NEW c \in CheckIn,
             InitiativeApprove(u, c) \/ \E g \in Goal : CreateCheckIn(u, g, c)
      PROVE  Quiet
  BY <1>8 DEF InitiativeApprove, CreateCheckIn
<1> HIDE DEF Quiet
<1>9. Quiet \/ \E s \in CheckInSlot : EvidenceCount(s) \/ PutObject(s) \/ InsertEvidence(s)
  BY <1>4, <1>5, <1>6, <1>7, <1>8 DEF CheckInsNext
<1> QED
  BY <1>9 DEF Quiet

\* The three steps that add evidence, request by request.
LEMMA EvidenceSteps ==
  ASSUME CheckInsTypeOK, NEW s \in CheckInSlot, NEW c \in CheckIn
  PROVE  /\ EvidenceCount(s) => \E r \in CheckInRequest :
              /\ creq' = [creq EXCEPT ![s] = r] /\ r.checkIn = creq[s].checkIn
              /\ r.step = "put" \/ (r.step = "insert" /\ ~ r.file)
              /\ UNCHANGED evidence
         /\ PutObject(s) => \E r \in CheckInRequest :
              /\ creq' = [creq EXCEPT ![s] = r] /\ r.checkIn = creq[s].checkIn
              /\ r.step = "insert"
              /\ evidence'[c].items = evidence[c].items
              /\ evidence'[c].files = evidence[c].files
              /\ evidence'[c].objects = IF c = creq[s].checkIn THEN evidence[c].objects + 1
                                                               ELSE evidence[c].objects
         /\ InsertEvidence(s) =>
              /\ creq' = [creq EXCEPT ![s] = IdleCheckInRequest]
              /\ evidence'[c].items = IF c = creq[s].checkIn THEN evidence[c].items + 1
                                                             ELSE evidence[c].items
              /\ evidence'[c].files = IF c = creq[s].checkIn /\ creq[s].file
                                      THEN evidence[c].files + 1 ELSE evidence[c].files
              /\ evidence'[c].objects = evidence[c].objects
<1>0. /\ creq \in [CheckInSlot -> CheckInRequest]
      /\ evidence \in [CheckIn -> [items : Nat, files : Nat, objects : Nat]]
  BY DEF CheckInsTypeOK
<1>1. ASSUME EvidenceCount(s) PROVE \E r \in CheckInRequest :
              /\ creq' = [creq EXCEPT ![s] = r] /\ r.checkIn = creq[s].checkIn
              /\ r.step = "put" \/ (r.step = "insert" /\ ~ r.file)
              /\ UNCHANGED evidence
  <2> DEFINE st == IF creq[s].file THEN "put" ELSE "insert"
             r == [creq[s] EXCEPT !.step = st]
  <2>1. creq' = [creq EXCEPT ![s] = r] /\ UNCHANGED evidence
    BY <1>1 DEF EvidenceCount
  <2>2. creq[s].file \in BOOLEAN /\ st \in {"put", "insert"}
    BY <1>0 DEF CheckInRequest
  <2>3. st = "put" \/ (st = "insert" /\ ~ creq[s].file)
    OBVIOUS
  <2> HIDE DEF st
  <2>4. /\ r \in CheckInRequest /\ r.step = st /\ r.checkIn = creq[s].checkIn
        /\ r.file = creq[s].file
    BY <1>0, <2>2 DEF CheckInRequest
  <2> HIDE DEF r
  <2> QED
    BY <2>1, <2>3, <2>4
<1>2. ASSUME PutObject(s) PROVE \E r \in CheckInRequest :
              /\ creq' = [creq EXCEPT ![s] = r] /\ r.checkIn = creq[s].checkIn
              /\ r.step = "insert"
              /\ evidence'[c].items = evidence[c].items
              /\ evidence'[c].files = evidence[c].files
              /\ evidence'[c].objects = IF c = creq[s].checkIn THEN evidence[c].objects + 1
                                                               ELSE evidence[c].objects
  <2> DEFINE r == [creq[s] EXCEPT !.step = "insert"]
             d == creq[s].checkIn
             e == [evidence[d] EXCEPT !.objects = evidence[d].objects + 1]
  <2>1. creq' = [creq EXCEPT ![s] = r] /\ evidence' = [evidence EXCEPT ![d] = e]
    BY <1>2 DEF PutObject
  <2>2. r \in CheckInRequest /\ r.step = "insert" /\ r.checkIn = d
    BY <1>0 DEF CheckInRequest
  <2>3. d \in CheckIn =>
          /\ e.items = evidence[d].items /\ e.files = evidence[d].files
          /\ e.objects = evidence[d].objects + 1
    BY <1>0
  <2> HIDE DEF r, e, d
  <2> QED
    BY <1>0, <2>1, <2>2, <2>3 DEF d
<1>3. ASSUME InsertEvidence(s) PROVE
              /\ creq' = [creq EXCEPT ![s] = IdleCheckInRequest]
              /\ evidence'[c].items = IF c = creq[s].checkIn THEN evidence[c].items + 1
                                                             ELSE evidence[c].items
              /\ evidence'[c].files = IF c = creq[s].checkIn /\ creq[s].file
                                      THEN evidence[c].files + 1 ELSE evidence[c].files
              /\ evidence'[c].objects = evidence[c].objects
  <2> DEFINE d == creq[s].checkIn
             n == IF creq[s].file THEN evidence[d].files + 1 ELSE evidence[d].files
             e == [evidence[d] EXCEPT !.items = evidence[d].items + 1]
             f == [e EXCEPT !.files = n]
  <2>1. evidence' = [evidence EXCEPT ![d] = f] /\ EndRequest(s)
    BY <1>3 DEF InsertEvidence
  <2>2. d \in CheckIn => /\ e \in [items : Nat, files : Nat, objects : Nat]
                         /\ e.items = evidence[d].items + 1
                         /\ e.objects = evidence[d].objects
    BY <1>0
  <2> HIDE DEF n, e
  <2>3. d \in CheckIn => /\ f.items = evidence[d].items + 1 /\ f.files = n
                         /\ f.objects = evidence[d].objects
    BY <2>2
  <2> HIDE DEF f, d
  <2>4. CASE c = d
    <3>1. evidence'[c] = f
      BY <1>0, <2>1, <2>4
    <3> QED
      BY <2>1, <2>3, <2>4, <3>1 DEF n, d, EndRequest
  <2>5. CASE c # d
    <3>1. evidence'[c] = evidence[c]
      BY <1>0, <2>1, <2>5
    <3> QED
      BY <2>1, <2>5, <3>1 DEF d, EndRequest
  <2> QED
    BY <2>4, <2>5
<1> QED
  BY <1>1, <1>2, <1>3

\* Where the goals service or a quiet step of this one leaves a count.
LEMMA QuietCount ==
  ASSUME CheckInsTypeOK, NEW R, \A r \in CheckInRequest : r.step \notin {"put", "insert"} => r \notin R,
         \/ UNCHANGED creq
         \/ \E s \in CheckInSlot, r \in CheckInRequest :
              /\ r.step \notin {"put", "insert"}
              /\ creq' = [creq EXCEPT ![s] = r]
  PROVE  Cardinality(SlotsInNext(R)) <= Cardinality(SlotsIn(R))
<1>0. creq \in [CheckInSlot -> CheckInRequest]
  BY DEF CheckInsTypeOK
<1>1. CASE UNCHANGED creq
  <2>1. SlotsInNext(R) = SlotsIn(R)
    BY <1>1 DEF SlotsIn, SlotsInNext
  <2> QED
    BY <2>1, CountSlots
<1>2. ASSUME NEW s \in CheckInSlot, NEW r \in CheckInRequest,
             r.step \notin {"put", "insert"}, creq' = [creq EXCEPT ![s] = r]
      PROVE  Cardinality(SlotsInNext(R)) <= Cardinality(SlotsIn(R))
  <2>1. r \notin R
    BY <1>2
  <2> QED
    BY <1>0, <1>2, <2>1, OneSlotMoves
<1> QED
  BY <1>1, <1>2

Filed(c) == {r \in CheckInRequest : r.step = "insert" /\ r.checkIn = c /\ r.file}

FilesCovered(c) ==
    evidence[c].files + Cardinality(SlotsIn(Filed(c))) <= evidence[c].objects

(* Every evidence row that names a file, and every request that is about   *)
(* to insert one, has its own object in the store.                         *)
THEOREM Files == LoopSpec => []FilesAreStored
<1> DEFINE Inv == \A c \in CheckIn : FilesCovered(c)
<1>1. LoopInit => Inv
  <2> SUFFICES ASSUME LoopInit, NEW c \in CheckIn PROVE FilesCovered(c)
    OBVIOUS
  <2>1. SlotsIn(Filed(c)) = {}
    BY DEF LoopInit, CheckInsInit, IdleCheckInRequest, SlotsIn, Filed
  <2>2. evidence[c].files = 0 /\ evidence[c].objects = 0
    BY DEF LoopInit, CheckInsInit
  <2> QED
    BY <2>1, <2>2, FS_EmptySet DEF FilesCovered
<1>2. CheckInsTypeOK /\ CheckInsTypeOK' /\ Inv /\ [LoopNext]_allVars => Inv'
  <2> SUFFICES ASSUME CheckInsTypeOK, CheckInsTypeOK', Inv, [LoopNext]_allVars, NEW c \in CheckIn
               PROVE  FilesCovered(c)'
    OBVIOUS
  <2> DEFINE R == Filed(c)
             before == Cardinality(SlotsIn(R))
             after == Cardinality(SlotsInNext(R))
  <2>0. /\ creq \in [CheckInSlot -> CheckInRequest]
        /\ evidence[c] \in [items : Nat, files : Nat, objects : Nat]
        /\ evidence'[c] \in [items : Nat, files : Nat, objects : Nat]
        /\ evidence[c].files + before <= evidence[c].objects
        /\ before \in Nat /\ after \in Nat
    BY CountSlots DEF CheckInsTypeOK, FilesCovered
  <2>1. SUFFICES evidence'[c].files + after <= evidence'[c].objects
    BY DEF FilesCovered, SlotsIn, SlotsInNext, Filed
  <2>2. \A r : r \in R <=> r \in CheckInRequest /\ r.step = "insert" /\ r.checkIn = c /\ r.file
    BY DEF Filed
  <2> HIDE DEF R
  <2>3. ASSUME UNCHANGED evidence,
               \/ UNCHANGED creq
               \/ \E s \in CheckInSlot, r \in CheckInRequest :
                    /\ r.step \notin {"put", "insert"}
                    /\ creq' = [creq EXCEPT ![s] = r]
        PROVE  evidence'[c].files + after <= evidence'[c].objects
    <3>1. after <= before
      BY <2>2, <2>3, QuietCount
    <3> HIDE DEF after, before
    <3> QED
      BY <2>0, <2>3, <3>1
  <2>4. ASSUME NEW s \in CheckInSlot, EvidenceCount(s)
        PROVE  evidence'[c].files + after <= evidence'[c].objects
    <3>1. PICK r \in CheckInRequest :
            /\ creq' = [creq EXCEPT ![s] = r]
            /\ r.step = "put" \/ (r.step = "insert" /\ ~ r.file)
            /\ UNCHANGED evidence
      BY <2>4, EvidenceSteps
    <3>2. r \notin R
      BY <2>2, <3>1
    <3>3. after <= before
      BY <2>0, <3>1, <3>2, OneSlotMoves
    <3> HIDE DEF after, before
    <3> QED
      BY <2>0, <3>1, <3>3
  <2>5. ASSUME NEW s \in CheckInSlot, PutObject(s)
        PROVE  evidence'[c].files + after <= evidence'[c].objects
    <3>1. PICK r \in CheckInRequest :
            /\ creq' = [creq EXCEPT ![s] = r] /\ r.checkIn = creq[s].checkIn
            /\ evidence'[c].files = evidence[c].files
            /\ evidence'[c].objects = IF c = creq[s].checkIn THEN evidence[c].objects + 1
                                                             ELSE evidence[c].objects
      BY <2>5, EvidenceSteps
    <3>2. after <= before + 1
      BY <2>0, <3>1, OneSlotMoves
    <3>3. c # creq[s].checkIn => after <= before
      BY <2>0, <2>2, <3>1, OneSlotMoves
    <3> HIDE DEF after, before
    <3> QED
      BY <2>0, <3>1, <3>2, <3>3
  <2>6. ASSUME NEW s \in CheckInSlot, InsertEvidence(s)
        PROVE  evidence'[c].files + after <= evidence'[c].objects
    <3>1. /\ creq' = [creq EXCEPT ![s] = IdleCheckInRequest]
          /\ evidence'[c].files = IF c = creq[s].checkIn /\ creq[s].file
                                  THEN evidence[c].files + 1 ELSE evidence[c].files
          /\ evidence'[c].objects = evidence[c].objects
      BY <2>6, EvidenceSteps
    <3>2. IdleCheckInRequest \notin R
      BY <2>2 DEF IdleCheckInRequest
    <3>3. after <= before
      BY <2>0, <3>1, <3>2, OneSlotMoves
    <3>4. ASSUME c = creq[s].checkIn, creq[s].file PROVE after = before - 1
      <4>1. creq[s] \in R
        BY <2>0, <2>2, <2>6, <3>4 DEF InsertEvidence
      <4> QED
        BY <2>0, <3>1, <3>2, <4>1, OneSlotMoves
    <3> HIDE DEF after, before
    <3> QED
      BY <2>0, <3>1, <3>3, <3>4
  <2> HIDE DEF after, before
  <2>7. UNCHANGED loopVars => UNCHANGED evidence /\ UNCHANGED creq
    BY DEF loopVars
  <2>8. [LoopNext]_allVars => CheckInsNext \/ UNCHANGED loopVars
    BY DEF LoopNext, allVars
  <2> QED
    BY <2>3, <2>4, <2>5, <2>6, <2>7, <2>8, EvidenceChanges
<1>3. CheckInsTypeOK /\ Inv => FilesAreStored
  <2> SUFFICES ASSUME CheckInsTypeOK, Inv, NEW c \in CheckIn
               PROVE  evidence[c].files
                        + Cardinality({s \in CheckInSlot : /\ creq[s].step = "insert"
                                                           /\ creq[s].checkIn = c
                                                           /\ creq[s].file})
                        <= evidence[c].objects
    BY DEF FilesAreStored
  <2>1. SlotsIn(Filed(c)) = {s \in CheckInSlot : /\ creq[s].step = "insert"
                                                 /\ creq[s].checkIn = c
                                                 /\ creq[s].file}
    BY DEF SlotsIn, Filed, CheckInsTypeOK
  <2> QED
    BY <2>1 DEF FilesCovered
<1> QED
  BY <1>1, <1>2, <1>3, CheckInsTyping, PTL DEF LoopSpec

AddingRequest(c) == {r \in CheckInRequest : r.step \in {"put", "insert"} /\ r.checkIn = c}

WithinCap(c) ==
    evidence[c].items + Cardinality(Adding(c)) <= MaxEvidence - 1 + Cardinality(CheckInSlot)

AllWithinCap == \A c \in CheckIn : WithinCap(c)

(* The evidence cap is counted and inserted in two statements: whatever    *)
(* requests run together, a check-in never holds more than the cap and the *)
(* number of those requests less one.                                      *)
THEOREM EvidenceLimit == LoopSpec => []EvidenceCap
<1>1. LoopInit => AllWithinCap
  <2> SUFFICES ASSUME LoopInit, NEW c \in CheckIn PROVE WithinCap(c)
    BY DEF AllWithinCap
  <2>1. Adding(c) = {}
    BY DEF LoopInit, CheckInsInit, IdleCheckInRequest, Adding
  <2>2. evidence[c].items = 0
    BY DEF LoopInit, CheckInsInit
  <2>3. MaxEvidence \in Nat \ {0} /\ Cardinality(CheckInSlot) \in Nat
    BY CheckInsAssumption, CountSlots
  <2> QED
    BY <2>1, <2>2, <2>3, FS_EmptySet DEF WithinCap
<1>2. CheckInsTypeOK /\ CheckInsTypeOK' /\ AllWithinCap /\ [LoopNext]_allVars => AllWithinCap'
  <2> SUFFICES ASSUME CheckInsTypeOK, CheckInsTypeOK', AllWithinCap, [LoopNext]_allVars,
                      NEW c \in CheckIn
               PROVE  WithinCap(c)'
    BY DEF AllWithinCap
  <2> DEFINE R == AddingRequest(c)
             before == Cardinality(SlotsIn(R))
             after == Cardinality(SlotsInNext(R))
             bound == MaxEvidence - 1 + Cardinality(CheckInSlot)
  <2>a. SlotsIn(R) = Adding(c) /\ SlotsInNext(R) = Adding(c)'
    BY DEF SlotsIn, SlotsInNext, AddingRequest, Adding, CheckInsTypeOK
  <2>0. /\ creq \in [CheckInSlot -> CheckInRequest]
        /\ evidence[c] \in [items : Nat, files : Nat, objects : Nat]
        /\ evidence'[c] \in [items : Nat, files : Nat, objects : Nat]
        /\ evidence[c].items + before <= bound
        /\ before \in Nat /\ after \in Nat /\ after <= Cardinality(CheckInSlot)
        /\ MaxEvidence \in Nat \ {0} /\ Cardinality(CheckInSlot) \in Nat
    BY <2>a, CountSlots, CheckInsAssumption DEF CheckInsTypeOK, AllWithinCap, WithinCap
  <2>1. SUFFICES evidence'[c].items + after <= bound
    BY <2>a DEF WithinCap
  <2>2. \A r : r \in R <=> r \in CheckInRequest /\ r.step \in {"put", "insert"} /\ r.checkIn = c
    BY DEF AddingRequest
  <2> HIDE DEF R
  <2>3. ASSUME UNCHANGED evidence,
               \/ UNCHANGED creq
               \/ \E s \in CheckInSlot, r \in CheckInRequest :
                    /\ r.step \notin {"put", "insert"}
                    /\ creq' = [creq EXCEPT ![s] = r]
        PROVE  evidence'[c].items + after <= bound
    <3>1. after <= before
      BY <2>2, <2>3, QuietCount
    <3> HIDE DEF after, before, bound
    <3>2. bound \in Int
      BY <2>0 DEF bound
    <3> QED
      BY <2>0, <2>3, <3>1, <3>2
  <2>4. ASSUME NEW s \in CheckInSlot, EvidenceCount(s)
        PROVE  evidence'[c].items + after <= bound
    <3>1. PICK r \in CheckInRequest :
            /\ creq' = [creq EXCEPT ![s] = r] /\ r.checkIn = creq[s].checkIn
            /\ UNCHANGED evidence
      BY <2>4, EvidenceSteps
    <3>2. CASE c = creq[s].checkIn
      <4>1. evidence[c].items < MaxEvidence
        BY <2>4, <3>2 DEF EvidenceCount
      <4> HIDE DEF after, before
      <4> QED
        BY <2>0, <3>1, <4>1
    <3>3. CASE c # creq[s].checkIn
      <4>1. r \notin R
        BY <2>2, <3>1, <3>3
      <4>2. after <= before
        BY <2>0, <3>1, <4>1, OneSlotMoves
      <4> HIDE DEF after, before
      <4> QED
        BY <2>0, <3>1, <4>2
    <3> QED
      BY <3>2, <3>3
  <2>5. ASSUME NEW s \in CheckInSlot, PutObject(s)
        PROVE  evidence'[c].items + after <= bound
    <3>1. PICK r \in CheckInRequest :
            /\ creq' = [creq EXCEPT ![s] = r] /\ r.checkIn = creq[s].checkIn
            /\ r.step = "insert" /\ evidence'[c].items = evidence[c].items
      BY <2>5, EvidenceSteps
    <3>2. r \in R <=> creq[s] \in R
      BY <2>0, <2>2, <2>5, <3>1 DEF PutObject
    <3>3. after <= before
      BY <2>0, <3>1, <3>2, OneSlotMoves
    <3> HIDE DEF after, before
    <3> QED
      BY <2>0, <3>1, <3>3
  <2>6. ASSUME NEW s \in CheckInSlot, InsertEvidence(s)
        PROVE  evidence'[c].items + after <= bound
    <3>1. /\ creq' = [creq EXCEPT ![s] = IdleCheckInRequest]
          /\ evidence'[c].items = IF c = creq[s].checkIn THEN evidence[c].items + 1
                                                         ELSE evidence[c].items
      BY <2>6, EvidenceSteps
    <3>2. IdleCheckInRequest \notin R
      BY <2>2 DEF IdleCheckInRequest
    <3>3. after <= before
      BY <2>0, <3>1, <3>2, OneSlotMoves
    <3>4. ASSUME c = creq[s].checkIn PROVE after = before - 1
      <4>1. creq[s] \in R
        BY <2>0, <2>2, <2>6, <3>4 DEF InsertEvidence
      <4> QED
        BY <2>0, <3>1, <3>2, <4>1, OneSlotMoves
    <3> HIDE DEF after, before
    <3> QED
      BY <2>0, <3>1, <3>3, <3>4
  <2> HIDE DEF after, before, bound
  <2>7. UNCHANGED loopVars => UNCHANGED evidence /\ UNCHANGED creq
    BY DEF loopVars
  <2>8. [LoopNext]_allVars => CheckInsNext \/ UNCHANGED loopVars
    BY DEF LoopNext, allVars
  <2> QED
    BY <2>3, <2>4, <2>5, <2>6, <2>7, <2>8, EvidenceChanges
<1>3. AllWithinCap => EvidenceCap
  BY Zenon DEF AllWithinCap, EvidenceCap, WithinCap, Cap!Bounded, Cap!Cardinality, Cardinality
<1> QED
  BY <1>1, <1>2, <1>3, CheckInsTyping, PTL DEF LoopSpec

(* The two counted limits hold beside each other: no step of a check-in    *)
(* request, and no approval by an initiative, makes room in the quota of   *)
(* refine calls, and the reverse.                                          *)
THEOREM CountsHold == LoopSpec => []CountedLimits
<1>1. RefineQuota /\ EvidenceCap => CountedLimits
  BY DEF CountedLimits
<1> QED
  BY <1>1, LoopIsGoals, Quotas, EvidenceLimit, PTL

(* The evidence of every check-in is an implementation of CheckThenInsert: *)
(* the upload of a file, between the count and the insert, changes nothing *)
(* the limit is about, and a request that ends early gives up its place.   *)
THEOREM EvidenceIsCheckThenInsert ==
  ASSUME NEW c \in CheckIn
  PROVE  LoopSpec => Cap(c)!Spec
<1>1. LoopInit => Cap(c)!Init
  BY DEF LoopInit, CheckInsInit, IdleCheckInRequest, Adding, Cap!Init
<1>2. CheckInsTypeOK /\ [LoopNext]_allVars => [Cap(c)!Next]_(Cap(c)!vars)
  <2> SUFFICES ASSUME CheckInsTypeOK, [LoopNext]_allVars
               PROVE  Cap(c)!Next \/ UNCHANGED Cap(c)!vars
    OBVIOUS
  <2> DEFINE Said == Cap(c)!Next \/ UNCHANGED Cap(c)!vars
  <2>0. creq \in [CheckInSlot -> CheckInRequest]
    BY DEF CheckInsTypeOK
  <2>1. ASSUME UNCHANGED creq, UNCHANGED evidence PROVE Said
    BY <2>1 DEF Adding, Cap!vars
  <2>2. ASSUME NEW s \in CheckInSlot, NEW r \in CheckInRequest, r.step \notin {"put", "insert"},
               creq' = [creq EXCEPT ![s] = r], UNCHANGED evidence
        PROVE  Said
    <3>1. Adding(c)' = Adding(c) \ {s}
      BY <2>0, <2>2 DEF Adding
    <3> QED
      BY <2>2, <3>1 DEF Cap!Next, Cap!Drop, Cap!vars
  <2>3. ASSUME NEW s \in CheckInSlot, EvidenceCount(s) PROVE Said
    <3>1. PICK r \in CheckInRequest :
            /\ creq' = [creq EXCEPT ![s] = r] /\ r.checkIn = creq[s].checkIn
            /\ r.step \in {"put", "insert"}
            /\ UNCHANGED evidence
      BY <2>3, EvidenceSteps
    <3>2. s \notin Adding(c) /\ evidence[creq[s].checkIn].items < MaxEvidence
      BY <2>3 DEF EvidenceCount, Adding
    <3>3. Adding(c)' = IF creq[s].checkIn = c THEN Adding(c) \cup {s} ELSE Adding(c)
      BY <2>0, <3>1, <3>2 DEF Adding
    <3> QED
      BY <3>1, <3>2, <3>3 DEF Cap!Next, Cap!Check, Cap!vars
  <2>4. ASSUME NEW s \in CheckInSlot, PutObject(s) PROVE Said
    <3>1. PICK r \in CheckInRequest :
            /\ creq' = [creq EXCEPT ![s] = r] /\ r.checkIn = creq[s].checkIn
            /\ r.step = "insert"
            /\ evidence'[c].items = evidence[c].items
      BY <2>4, EvidenceSteps
    <3>2. Adding(c)' = Adding(c)
      BY <2>0, <2>4, <3>1 DEF Adding, PutObject
    <3> QED
      BY <3>1, <3>2 DEF Cap!vars
  <2>5. ASSUME NEW s \in CheckInSlot, InsertEvidence(s) PROVE Said
    <3>1. /\ creq' = [creq EXCEPT ![s] = IdleCheckInRequest]
          /\ evidence'[c].items = IF c = creq[s].checkIn THEN evidence[c].items + 1
                                                         ELSE evidence[c].items
      BY <2>5, EvidenceSteps
    <3>2. Adding(c)' = Adding(c) \ {s}
      BY <2>0, <3>1 DEF Adding, IdleCheckInRequest
    <3>3. s \in Adding(c) <=> c = creq[s].checkIn
      BY <2>5 DEF InsertEvidence, Adding
    <3> QED
      BY <3>1, <3>2, <3>3 DEF Cap!Next, Cap!Insert, Cap!vars
  <2> HIDE DEF Said
  <2>6. Said
    BY <2>1, <2>2, <2>3, <2>4, <2>5, EvidenceChanges DEF LoopNext, allVars, loopVars
  <2> QED
    BY <2>6 DEF Said
<1> QED
  BY <1>1, <1>2, CheckInsTyping, PTL DEF LoopSpec, Cap!Spec

-----------------------------------------------------------------------------
(* What the reviewer was shown.                                            *)

\* A request that is adding evidence was doing so for the same check-in, or
\* begins now and finds it editable.
LEMMA AddsToEditable ==
  ASSUME CheckInsTypeOK, CheckInsNext, NEW t \in CheckInSlot, NEW c,
         creq'[t].step \in {"capacity", "put", "insert"}, creq'[t].checkIn = c
  PROVE  \/ creq[t].step \in {"capacity", "put", "insert"} /\ creq[t].checkIn = c
         \/ Editable(c)
<1> DEFINE Adds(r) == r.step \in {"capacity", "put", "insert"} /\ r.checkIn = c
           Said == Adds(creq[t]) \/ Editable(c)
<1>0. creq \in [CheckInSlot -> CheckInRequest]
  BY DEF CheckInsTypeOK
<1>1. ASSUME NEW s \in CheckInSlot, NEW r, creq' = [creq EXCEPT ![s] = r], ~ Adds(r)
      PROVE  Adds(creq[t])
  BY <1>0, <1>1
<1>2. ASSUME NEW s \in CheckInSlot, EndRequest(s) PROVE Adds(creq[t])
  BY <1>1, <1>2 DEF EndRequest, IdleCheckInRequest
<1>3. ASSUME NEW s \in CheckInSlot, NEW step \in {"submitted", "count", "reviewed"},
             creq' = [creq EXCEPT ![s].step = step]
      PROVE  Adds(creq[t])
  <2> DEFINE r == [creq[s] EXCEPT !.step = step]
  <2>1. r.step = step
    BY <1>0 DEF CheckInRequest
  <2>2. creq' = [creq EXCEPT ![s] = r] /\ ~ Adds(r)
    BY <1>3, <2>1
  <2> HIDE DEF r
  <2> QED
    BY <1>1, <2>2
<1>4. ASSUME NEW s \in CheckInSlot, NEW step \in {"submit", "review"}, NEW d, NEW u, NEW e,
             NEW file, Begin(s, step, d, u, e, file)
      PROVE  Adds(creq[t])
  <2> DEFINE r == [step |-> step, checkIn |-> d, actor |-> u, decision |-> e, file |-> file]
  <2>1. creq' = [creq EXCEPT ![s] = r] /\ ~ Adds(r)
    BY <1>4 DEF Begin
  <2> HIDE DEF r
  <2> QED
    BY <1>1, <2>1
<1>5. ASSUME NEW s \in CheckInSlot, NEW d \in CheckIn, NEW kind \in EvidenceKinds,
             EvidenceLoad(s, d, kind)
      PROVE  Said
  <2> DEFINE r == [step |-> "capacity", checkIn |-> d, actor |-> None, decision |-> None,
                   file |-> kind = "file"]
  <2>1. creq' = [creq EXCEPT ![s] = r] /\ Editable(d) /\ r.checkIn = d
    BY <1>5 DEF EvidenceLoad, Begin
  <2> HIDE DEF r
  <2>2. CASE d = c
    BY <2>1, <2>2
  <2>3. CASE d # c
    BY <1>1, <2>1, <2>3
  <2> QED
    BY <2>2, <2>3
<1>6. ASSUME NEW s \in CheckInSlot, EvidenceCount(s) \/ PutObject(s) PROVE Adds(creq[t])
  <2>0. creq[s].checkIn \in CheckIn
    BY <1>6 DEF EvidenceCount, PutObject, CheckInsTypeOK
  <2>1. PICK r \in CheckInRequest :
          creq' = [creq EXCEPT ![s] = r] /\ r.checkIn = creq[s].checkIn
    BY <1>6, <2>0, EvidenceSteps
  <2>2. creq[s].step \in {"capacity", "put"}
    BY <1>6 DEF EvidenceCount, PutObject
  <2> QED
    BY <1>0, <2>1, <2>2
<1>7. UNCHANGED creq => Adds(creq[t])
  OBVIOUS
<1> HIDE DEF Adds
<1>8. ASSUME NEW s \in CheckInSlot,
             \/ SubmitWrite(s) \/ SubmitEmit(s) \/ SubmitCount(s) \/ EvidenceCount(s)
             \/ PutObject(s) \/ InsertEvidence(s) \/ RecordReview(s) \/ ReviewEmit(s)
             \/ CheckInRequestFails(s)
      PROVE  Said
  BY <1>2, <1>3, <1>6, <1>8 DEF SubmitWrite, SubmitEmit, SubmitCount, InsertEvidence,
     RecordReview, ReviewEmit, CheckInRequestFails
<1>9. ASSUME NEW s \in CheckInSlot, NEW u \in User, NEW d \in CheckIn,
             SubmitLoad(s, u, d) \/ \E e \in Decision : ReviewLoad(s, u, d, e)
      PROVE  Said
  BY <1>4, <1>9 DEF SubmitLoad, ReviewLoad
<1>10. ASSUME NEW u \in User, NEW d \in CheckIn,
              InitiativeApprove(u, d) \/ \E g \in Goal : CreateCheckIn(u, g, d)
       PROVE  Said
  BY <1>7, <1>10 DEF InitiativeApprove, CreateCheckIn
<1> HIDE DEF Said
<1>11. Said
  BY <1>5, <1>8, <1>9, <1>10 DEF CheckInsNext
<1> QED
  BY <1>11 DEF Said, Adds

(* Evidence can still be added to a check-in that is no longer editable,   *)
(* but only by a request that found it so: once those are done the rows    *)
(* and the files a decision is about stay as they are.                     *)
THEOREM EvidenceFreezes == LoopSpec => EvidenceIsFrozen
<1>1. ASSUME CheckInsTypeOK, [LoopNext]_allVars, NEW c \in CheckIn, Frozen(c)
      PROVE  evidence'[c] = evidence[c] /\ (Frozen(c)' \/ Status(c)' = "changes_requested")
  <2>0. Status(c) \in {"submitted", "approved", "rejected"} /\ ~ BeingAdded(c)
    BY <1>1 DEF Frozen
  <2>1. CASE CheckInsNext
    <3>1. evidence'[c] = evidence[c]
      <4>1. ASSUME NEW s \in CheckInSlot, EvidenceCount(s) \/ PutObject(s) \/ InsertEvidence(s)
            PROVE  evidence'[c] = evidence[c]
        <5>1. creq[s].checkIn # c
          BY <2>0, <4>1 DEF EvidenceCount, PutObject, InsertEvidence, BeingAdded
        <5> QED
          BY <1>1, <4>1, <5>1 DEF EvidenceCount, PutObject, InsertEvidence, CheckInsTypeOK
      <4> QED
        BY <1>1, <2>1, <4>1, EvidenceChanges
    <3>2. Status(c)' \in {"submitted", "approved", "rejected", "changes_requested"}
      <4>1. ASSUME NEW s \in CheckInSlot, SubmitWrite(s) \/ RecordReview(s),
                   creq[s].checkIn = c
            PROVE  Status(c)' \in {"submitted"} \cup Decision
        BY <1>1, <4>1 DEF SubmitWrite, RecordReview, SetStatus, Status, CheckInsTypeOK
      <4>2. ASSUME NEW u \in User, InitiativeApprove(u, c) PROVE Status(c)' = "approved"
        BY <1>1, <4>2 DEF InitiativeApprove, SetStatus, Status, CheckInsTypeOK
      <4> QED
        BY <1>1, <2>0, <2>1, <4>1, <4>2, RowChanges DEF CreateCheckIn, Status, Decision
    <3>3. ~ BeingAdded(c)'
      BY <1>1, <2>0, <2>1, AddsToEditable DEF BeingAdded, Editable
    <3> QED
      BY <3>1, <3>2, <3>3 DEF Frozen
  <2>2. CASE UNCHANGED loopVars
    BY <1>1, <2>2 DEF loopVars, Frozen, BeingAdded, Status
  <2> QED
    BY <1>1, <2>1, <2>2 DEF LoopNext, allVars
<1>2. CheckInsTypeOK /\ [LoopNext]_allVars =>
        [\A c \in CheckIn : Frozen(c) =>
           /\ evidence'[c] = evidence[c]
           /\ Frozen(c)' \/ Status(c)' = "changes_requested"]_allVars
  BY <1>1
<1> QED
  BY <1>2, CheckInsTyping, PTL DEF LoopSpec, EvidenceIsFrozen

-----------------------------------------------------------------------------
(* The documented loop.                                                    *)

\* What the request in slot s loaded still holds.
Current(s) ==
    /\ creq[s].step = "submit" => Editable(creq[s].checkIn)
    /\ creq[s].step = "review" => Status(creq[s].checkIn) = "submitted"

\* One row moves along a documented transition.
LEMMA DocumentedMove ==
  ASSUME CheckInsTypeOK, NEW c \in CheckIn, NEW st,
         \A d \in CheckIn : checkIns'[d].status = IF d = c THEN st ELSE checkIns[d].status,
         <<Status(c), st>> \in Documented!Moves
  PROVE  Documented!Next
<1> DEFINE before == [d \in CheckIn |-> Status(d)]
           after == [d \in CheckIn |-> Status(d)']
           move == <<Status(c), st>>
<1>1. before[c] = move[1]
  BY DEF Status
<1>2. after = [before EXCEPT ![c] = move[2]]
  BY DEF Status
<1>3. Documented!Transition(c)
  BY <1>1, <1>2 DEF Documented!Transition
<1> QED
  BY <1>3 DEF Documented!Next

(* With one request of the check-ins service at a time and no initiative   *)
(* beside it, the service implements the documented loop: what a request   *)
(* loaded is still so when it writes.  The goals service may run any       *)
(* number of requests meanwhile.                                           *)
THEOREM OneAtATime ==
  ASSUME \A s, t \in CheckInSlot : s = t, Participant = {}
  PROVE  LoopSpec => ReviewLoopSpec
<1> DEFINE Inv == \A s \in CheckInSlot : Current(s)
<1>1. LoopInit => Inv /\ Documented!Init
  <2> SUFFICES ASSUME LoopInit PROVE Inv /\ Documented!Init
    OBVIOUS
  <2>1. Inv
    BY DEF LoopInit, CheckInsInit, IdleCheckInRequest, Current
  <2>2. \A c \in CheckIn : Status(c) = "absent"
    BY DEF LoopInit, CheckInsInit, NoCheckIn, Status
  <2> QED
    BY <2>1, <2>2 DEF Documented!Init
<1>2. CheckInsTypeOK /\ CheckInsTypeOK' /\ Inv /\ [LoopNext]_allVars => Inv'
  <2> SUFFICES ASSUME CheckInsTypeOK, CheckInsTypeOK', Inv, [LoopNext]_allVars,
                      NEW t \in CheckInSlot
               PROVE  Current(t)'
    OBVIOUS
  <2>0. Current(t) /\ creq[t] \in CheckInRequest /\ creq'[t] \in CheckInRequest
    BY DEF CheckInsTypeOK
  <2>1. CASE UNCHANGED loopVars
    BY <2>0, <2>1 DEF loopVars, Current, Editable, Status
  <2>2. CASE CheckInsNext
    <3>1. CASE creq'[t] = creq[t] /\ creq[t].step \in {"submit", "review"}
      <4> DEFINE c == creq[t].checkIn
      <4>1. c \in CheckIn /\ Status(c) # "absent"
        BY <3>1 DEF CheckInsTypeOK, Status
      <4>2. ASSUME NEW s \in CheckInSlot, SubmitWrite(s) \/ RecordReview(s) PROVE FALSE
        <5>1. s = t
          OBVIOUS
        <5>2. creq'[t].step \in {"submitted", "reviewed"}
          BY <4>2, <5>1 DEF SubmitWrite, RecordReview, CheckInsTypeOK, CheckInRequest
        <5> QED
          BY <3>1, <5>2
      <4>3. \A u \in User, g \in Goal : ~ CreateCheckIn(u, g, c)
        BY <4>1 DEF CreateCheckIn
      <4>4. \A u \in User : ~ InitiativeApprove(u, c)
        BY DEF InitiativeApprove
      <4>5. checkIns'[c] = checkIns[c]
        BY <2>2, <4>1, <4>2, <4>3, <4>4, RowChanges
      <4> QED
        BY <2>0, <3>1, <4>5 DEF Current, Editable, Status
    <3>2. CASE creq'[t].step \notin {"submit", "review"}
      BY <3>2 DEF Current
    <3>3. ASSUME NEW u \in User, NEW c \in CheckIn, SubmitLoad(t, u, c),
                 creq'[t].step = "submit", creq'[t].checkIn = c
          PROVE  Current(t)'
      BY <3>3 DEF SubmitLoad, Current, Editable, Status
    <3>4. ASSUME NEW u \in User, NEW c \in CheckIn, NEW d \in Decision,
                 ReviewLoad(t, u, c, d), creq'[t].step = "review", creq'[t].checkIn = c
          PROVE  Current(t)'
      BY <3>4 DEF ReviewLoad, Current, Status
    <3>5. CASE RecordReview(t)
      BY <3>2, <3>5 DEF RecordReview, CheckInsTypeOK, CheckInRequest
    <3> QED
      BY <2>2, <3>1, <3>2, <3>3, <3>4, <3>5, RequestChanges
  <2> QED
    BY <2>1, <2>2 DEF LoopNext, allVars
<1>3. CheckInsTypeOK /\ Inv /\ [LoopNext]_allVars =>
        [Documented!Next]_([c \in CheckIn |-> Status(c)])
  <2> SUFFICES ASSUME CheckInsTypeOK, Inv, [LoopNext]_allVars
               PROVE  Documented!Next \/ UNCHANGED [c \in CheckIn |-> Status(c)]
    OBVIOUS
  <2>0. /\ checkIns \in [CheckIn -> [status : CheckInStatus, goal : Goal \cup {None}]]
        /\ creq \in [CheckInSlot -> CheckInRequest]
    BY DEF CheckInsTypeOK
  <2>1. CASE UNCHANGED checkIns
    BY <2>1 DEF Status
  <2>2. ASSUME NEW u \in User, NEW g \in Goal, NEW c \in CheckIn, CreateCheckIn(u, g, c)
        PROVE  Documented!Next
    <3>1. \A d \in CheckIn :
            checkIns'[d].status = IF d = c THEN "draft" ELSE checkIns[d].status
      BY <2>0, <2>2 DEF CreateCheckIn
    <3>2. <<Status(c), "draft">> \in Documented!Moves
      BY <2>2 DEF CreateCheckIn, Documented!Moves
    <3> QED
      BY <3>1, <3>2, DocumentedMove
  <2>3. ASSUME NEW s \in CheckInSlot, SubmitWrite(s) PROVE Documented!Next
    <3> DEFINE c == creq[s].checkIn
    <3>1. c \in CheckIn /\ Editable(c)
      BY <2>3 DEF SubmitWrite, CheckInsTypeOK, Current
    <3>2. checkIns' = [checkIns EXCEPT ![c].status = "submitted"]
      BY <2>3 DEF SubmitWrite, SetStatus
    <3> HIDE DEF c
    <3>3. \A d \in CheckIn :
            checkIns'[d].status = IF d = c THEN "submitted" ELSE checkIns[d].status
      BY <2>0, <3>1, <3>2
    <3>4. <<Status(c), "submitted">> \in Documented!Moves
      BY <3>1 DEF Editable, Documented!Moves
    <3> QED
      BY <3>1, <3>3, <3>4, DocumentedMove
  <2>4. ASSUME NEW s \in CheckInSlot, RecordReview(s) PROVE Documented!Next
    <3> DEFINE c == creq[s].checkIn
               st == creq[s].decision
    <3>1. c \in CheckIn /\ Status(c) = "submitted" /\ st \in Decision
      BY <2>4 DEF RecordReview, CheckInsTypeOK, Current
    <3>2. checkIns' = [checkIns EXCEPT ![c].status = st]
      BY <2>4 DEF RecordReview, SetStatus
    <3> HIDE DEF c, st
    <3>3. \A d \in CheckIn : checkIns'[d].status = IF d = c THEN st ELSE checkIns[d].status
      BY <2>0, <3>1, <3>2
    <3>4. <<Status(c), st>> \in Documented!Moves
      BY <3>1 DEF Decision, Documented!Moves
    <3> QED
      BY <3>1, <3>3, <3>4, DocumentedMove
  <2>5. \A u \in User, c \in CheckIn : ~ InitiativeApprove(u, c)
    BY DEF InitiativeApprove
  <2>6. CASE CheckInsNext
    <3>1. \/ UNCHANGED checkIns
          \/ \E u \in User, g \in Goal, c \in CheckIn : CreateCheckIn(u, g, c)
          \/ \E s \in CheckInSlot : SubmitWrite(s) \/ RecordReview(s)
      BY <2>5, <2>6 DEF CheckInsNext, SubmitLoad, SubmitEmit, SubmitCount, EvidenceLoad,
         EvidenceCount, PutObject, InsertEvidence, ReviewLoad, ReviewEmit, CheckInRequestFails
    <3> QED
      BY <2>1, <2>2, <2>3, <2>4, <3>1
  <2>7. CASE UNCHANGED loopVars
    BY <2>1, <2>7 DEF loopVars
  <2> QED
    BY <2>6, <2>7 DEF LoopNext, allVars
<1> QED
  BY <1>1, <1>2, <1>3, CheckInsTyping, PTL DEF LoopSpec, ReviewLoopSpec, Documented!Spec

(* A service that handles one request at a time, with no initiative beside *)
(* it, never takes a transition the documentation forbids: the races are   *)
(* the only way to one.                                                    *)
THEOREM ForbiddenAlone ==
  ASSUME \A s, t \in CheckInSlot : s = t, Participant = {}
  PROVE  LoopSpec => ForbiddenTransitionsNeverHappen
<1> DEFINE statuses == [c \in CheckIn |-> Status(c)]
<1>1. ASSUME [Documented!Next]_statuses, NEW c \in CheckIn
      PROVE  <<Status(c), Status(c)'>> \notin
               { <<"approved", "submitted">>, <<"approved", "changes_requested">>,
                 <<"rejected", "submitted">>, <<"rejected", "approved">> }
  <2>1. CASE UNCHANGED statuses
    <3>1. Status(c) = statuses[c] /\ Status(c)' = statuses'[c]
      OBVIOUS
    <3> QED
      BY <2>1, <3>1
  <2>2. ASSUME NEW d \in CheckIn, NEW move \in Documented!Moves, statuses[d] = move[1],
               statuses' = [statuses EXCEPT ![d] = move[2]]
        PROVE  Status(c)' = Status(c) \/ <<Status(c), Status(c)'>> = move
    <3>1. Status(c) = statuses[c] /\ Status(c)' = statuses'[c]
      OBVIOUS
    <3>2. move = <<move[1], move[2]>>
      BY DEF Documented!Moves
    <3> QED
      BY <2>2, <3>1, <3>2
  <2>3. \/ UNCHANGED statuses
        \/ Status(c)' = Status(c)
        \/ <<Status(c), Status(c)'>> \in Documented!Moves
    BY <1>1, <2>2 DEF Documented!Next, Documented!Transition
  <2> QED
    BY <2>1, <2>3 DEF Documented!Moves
<1>2. [][Documented!Next]_statuses => ForbiddenTransitionsNeverHappen
  <2>1. [Documented!Next]_statuses =>
          [\A c \in CheckIn : <<Status(c), Status(c)'>> \notin
             { <<"approved", "submitted">>, <<"approved", "changes_requested">>,
               <<"rejected", "submitted">>, <<"rejected", "approved">> }]_allVars
    BY <1>1
  <2> QED
    BY <2>1, PTL DEF ForbiddenTransitionsNeverHappen
<1>3. LoopSpec => [][Documented!Next]_statuses
  BY OneAtATime, PTL DEF ReviewLoopSpec, Documented!Spec
<1> QED
  BY <1>2, <1>3, PTL

=============================================================================
