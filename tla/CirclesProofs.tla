---------------------------- MODULE CirclesProofs ----------------------------
(***************************************************************************)
(* Proofs about circles, for any number of accounts, circles, seasons and  *)
(* requests: types, the limit of the door by code, and circles without a   *)
(* season.  The circle of a request exists for good: that is all a request *)
(* can rely on between its statements.                                     *)
(***************************************************************************)
EXTENDS Circles, FiniteSetTheorems, TLAPS

CircleRequest ==
    [step : {"idle", "insert", "commit", "invite", "complete"},
     user : Person \cup {Nobody}, ring : Ring \cup {Nobody}]

SeasonRow ==
    [status : {"absent", "active", "lapsed"}, ring : Ring \cup {Nobody}]

\* The tables; a circle that was not created has neither seats nor letters.
TablesOK ==
    /\ founder \in [Ring -> Person \cup {Nobody}]
    /\ seats \in [Ring -> [Person -> Door]]
    /\ letters \in [Ring -> SUBSET Person]
    /\ seasons \in [Season -> SeasonRow]
    /\ over \in SUBSET Season
    /\ \A c \in Ring : founder[c] = Nobody =>
         /\ \A u \in Person : seats[c][u] = "none"
         /\ letters[c] = {}

\* What a request knows of the circles F.
RequestOK(r, F) ==
    /\ r \in CircleRequest
    /\ r.step # "idle" => r.ring \in Ring /\ F[r.ring] # Nobody
    /\ r.step \in {"insert", "commit", "invite"} => r.user \in Person

RequestsOK ==
    /\ cireq \in [CircleSlot -> CircleRequest]
    /\ \A s \in CircleSlot : RequestOK(cireq[s], founder)

CirclesInv == TablesOK /\ RequestsOK

\* Circles stay.
RowsStay == \A c \in Ring : founder[c] # Nobody => founder'[c] = founder[c]

LEMMA InvGivesTypes == CirclesInv => CirclesTypeOK
BY DEF CirclesInv, TablesOK, RequestsOK, CirclesTypeOK, CircleRequest, SeasonRow

-----------------------------------------------------------------------------
(* Types.                                                                  *)

LEMMA RequestsStay ==
  ASSUME RequestsOK, RowsStay, UNCHANGED cireq
  PROVE  RequestsOK'
<1>1. ASSUME NEW s \in CircleSlot PROVE RequestOK(cireq[s], founder')
  <2>1. RequestOK(cireq[s], founder)
    BY DEF RequestsOK
  <2> QED
    BY <2>1 DEF RequestOK, RowsStay
<1> QED
  BY <1>1 DEF RequestsOK

LEMMA RequestMoves ==
  ASSUME RequestsOK, RowsStay, NEW s \in CircleSlot, NEW r, RequestOK(r, founder'),
         cireq' = [cireq EXCEPT ![s] = r]
  PROVE  RequestsOK'
<1>1. cireq' \in [CircleSlot -> CircleRequest]
  BY DEF RequestsOK, RequestOK
<1>2. ASSUME NEW t \in CircleSlot PROVE RequestOK(cireq'[t], founder')
  <2>1. CASE t = s
    BY <2>1 DEF RequestsOK
  <2>2. CASE t # s
    <3>1. cireq'[t] = cireq[t] /\ RequestOK(cireq[t], founder)
      BY <2>2 DEF RequestsOK
    <3> QED
      BY <3>1 DEF RequestOK, RowsStay
  <2> QED
    BY <2>1, <2>2
<1> QED
  BY <1>1, <1>2 DEF RequestsOK

LEMMA EndMoves ==
  ASSUME RequestsOK, RowsStay, NEW s \in CircleSlot, EndCircleRequest(s)
  PROVE  RequestsOK'
<1>1. RequestOK(IdleCircleRequest, founder')
  BY DEF RequestOK, CircleRequest, IdleCircleRequest
<1> QED
  BY <1>1, RequestMoves DEF EndCircleRequest

\* A request that begins, about a circle that exists.
LEMMA BeginMoves ==
  ASSUME CirclesInv, NEW s \in CircleSlot, NEW step \in {"insert", "invite", "complete"},
         NEW u \in Person, NEW c \in Ring, founder[c] # Nobody, BeginAt(s, step, u, c),
         UNCHANGED <<founder, seats, letters, seasons, over>>
  PROVE  CirclesInv'
<1> DEFINE r == [step |-> step, user |-> u, ring |-> c]
<1>1. RequestOK(r, founder')
  BY DEF RequestOK, CircleRequest
<1>2. cireq' = [cireq EXCEPT ![s] = r]
  BY DEF BeginAt
<1>3. RowsStay
  BY DEF RowsStay
<1> HIDE DEF r
<1>4. RequestsOK'
  BY <1>1, <1>2, <1>3, RequestMoves DEF CirclesInv
<1> QED
  BY <1>4 DEF CirclesInv, TablesOK

\* A new row of circle_seasons.
LEMMA SeasonRowAdded ==
  ASSUME TablesOK, NEW t \in Season, NEW c \in Ring, NewSeason(t, c)
  PROVE  /\ seasons' \in [Season -> SeasonRow]
         /\ seasons[t].status = "absent"
         /\ seasons'[t] = [status |-> "active", ring |-> c]
         /\ \A n \in Season : n # t => seasons'[n] = seasons[n]
<1> DEFINE row == [status |-> "active", ring |-> c]
<1>1. row \in SeasonRow
  BY DEF SeasonRow
<1>2. seasons' = [seasons EXCEPT ![t] = row] /\ seasons[t] = NoSeason
  BY DEF NewSeason
<1>3. NoSeason.status = "absent"
  BY DEF NoSeason
<1>4. seasons[t].status = "absent"
  BY <1>2, <1>3
<1>5. seasons \in [Season -> SeasonRow]
  BY DEF TablesOK
<1> HIDE DEF row
<1>6. seasons' \in [Season -> SeasonRow] /\ seasons'[t] = row
  BY <1>1, <1>2, <1>5
<1>7. \A n \in Season : n # t => seasons'[n] = seasons[n]
  BY <1>2, <1>5
<1> QED
  BY <1>4, <1>6, <1>7 DEF row

\* A seat is taken.
LEMMA SeatTaken ==
  ASSUME TablesOK, NEW c \in Ring, NEW u \in Person, NEW door \in Door,
         seats' = [seats EXCEPT ![c][u] = door]
  PROVE  /\ seats' \in [Ring -> [Person -> Door]]
         /\ seats'[c][u] = door
         /\ \A v \in Person : v # u => seats'[c][v] = seats[c][v]
         /\ \A d \in Ring : d # c => seats'[d] = seats[d]
<1> DEFINE row == [seats[c] EXCEPT ![u] = door]
<1>1. seats \in [Ring -> [Person -> Door]]
  BY DEF TablesOK
<1>2. row \in [Person -> Door] /\ row[u] = door /\ \A v \in Person : v # u => row[v] = seats[c][v]
  BY <1>1
<1>3. seats' = [seats EXCEPT ![c] = row]
  OBVIOUS
<1> HIDE DEF row
<1> QED
  BY <1>1, <1>2, <1>3

LEMMA CirclesInvInit == CirclesInit => CirclesInv
<1> SUFFICES ASSUME CirclesInit PROVE CirclesInv
  OBVIOUS
<1>1. NoSeason \in SeasonRow
  BY DEF NoSeason, SeasonRow
<1>2. IdleCircleRequest \in CircleRequest
  BY DEF IdleCircleRequest, CircleRequest
<1>3. IdleCircleRequest.step = "idle"
  BY DEF IdleCircleRequest
<1> QED
  BY <1>1, <1>2, <1>3 DEF CirclesInit, CirclesInv, TablesOK, RequestsOK, RequestOK, Door

LEMMA CirclesInvStep == CirclesInv /\ [CirclesNext]_circleVars => CirclesInv'
<1> SUFFICES ASSUME CirclesInv, [CirclesNext]_circleVars PROVE CirclesInv'
  OBVIOUS
<1>0. TablesOK /\ RequestsOK
  BY DEF CirclesInv
<1>1. ASSUME NEW t \in Season, SeasonRunsOut(t) PROVE CirclesInv'
  <2>1. RowsStay /\ UNCHANGED cireq
    BY <1>1 DEF SeasonRunsOut, RowsStay
  <2>2. TablesOK'
    BY <1>0, <1>1 DEF SeasonRunsOut, TablesOK
  <2> QED
    BY <1>0, <2>1, <2>2, RequestsStay DEF CirclesInv
<1>2. ASSUME NEW c \in Ring, LazyCompleteExpiredSeason(c) PROVE CirclesInv'
  <2> DEFINE lapse(t) == [seasons[t] EXCEPT !.status = "lapsed"]
  <2>1. \A t \in Season : /\ lapse(t) \in SeasonRow /\ lapse(t).status = "lapsed"
                          /\ t \in Running(c) => seasons[t].status = "active"
    BY <1>0 DEF TablesOK, SeasonRow, Running
  <2>2. seasons' = [t \in Season |-> IF t \in Running(c) \cap over THEN lapse(t) ELSE seasons[t]]
    BY <1>2 DEF LazyCompleteExpiredSeason
  <2> HIDE DEF lapse
  <2>3. seasons' \in [Season -> SeasonRow]
    BY <1>0, <2>1, <2>2 DEF TablesOK
  <2>4. RowsStay
    BY <1>0, <1>2, <2>1, <2>2 DEF LazyCompleteExpiredSeason, RowsStay, TablesOK
  <2>5. TablesOK'
    BY <1>0, <1>2, <2>3 DEF LazyCompleteExpiredSeason, TablesOK
  <2> QED
    BY <1>0, <1>2, <2>4, <2>5, RequestsStay DEF CirclesInv, LazyCompleteExpiredSeason
<1>3. ASSUME NEW u \in Person, NEW c \in Ring, NEW t \in Season, CreateCircle(u, c, t)
      PROVE  CirclesInv'
  <2>1. /\ seasons' \in [Season -> SeasonRow] /\ seasons[t].status = "absent"
        /\ \A n \in Season : n # t => seasons'[n] = seasons[n]
    BY <1>0, <1>3, SeasonRowAdded DEF CreateCircle
  <2>2. /\ seats' \in [Ring -> [Person -> Door]]
        /\ \A d \in Ring : d # c => seats'[d] = seats[d]
    BY <1>0, <1>3, SeatTaken, "code" \in Door DEF CreateCircle, Door
  <2>3. /\ founder' \in [Ring -> Person \cup {Nobody}] /\ founder'[c] # Nobody
        /\ founder[c] = Nobody /\ \A d \in Ring : d # c => founder'[d] = founder[d]
    BY <1>0, <1>3, CirclesAssumption DEF CreateCircle, TablesOK
  <2>4. RowsStay
    BY <2>1, <2>3 DEF RowsStay
  <2>5. TablesOK'
    BY <1>0, <1>3, <2>1, <2>2, <2>3 DEF CreateCircle, TablesOK
  <2> QED
    BY <1>0, <1>3, <2>4, <2>5, RequestsStay DEF CirclesInv, CreateCircle
<1>4. ASSUME NEW u \in Person, NEW c \in Ring, AcceptCircleInvitation(c, u) PROVE CirclesInv'
  <2>1. founder[c] # Nobody
    BY <1>0, <1>4 DEF AcceptCircleInvitation, TablesOK
  <2>2. /\ seats' \in [Ring -> [Person -> Door]]
        /\ \A d \in Ring : d # c => seats'[d] = seats[d]
    <3>1. CASE u \in Seated(c)
      BY <1>0, <1>4, <3>1 DEF AcceptCircleInvitation, TablesOK
    <3>2. CASE u \notin Seated(c)
      BY <1>0, <1>4, <3>2, SeatTaken, "letter" \in Door DEF AcceptCircleInvitation, Door
    <3> QED
      BY <3>1, <3>2
  <2>3. /\ letters' \in [Ring -> SUBSET Person]
        /\ \A d \in Ring : d # c => letters'[d] = letters[d]
    BY <1>0, <1>4 DEF AcceptCircleInvitation, TablesOK
  <2>4. RowsStay
    BY <1>4 DEF AcceptCircleInvitation, RowsStay
  <2>5. TablesOK'
    BY <1>0, <1>4, <2>1, <2>2, <2>3 DEF AcceptCircleInvitation, TablesOK
  <2> QED
    BY <1>0, <1>4, <2>4, <2>5, RequestsStay DEF CirclesInv, AcceptCircleInvitation
<1>5. ASSUME NEW u \in Person, NEW c \in Ring, DeclineCircleInvitation(c, u) PROVE CirclesInv'
  <2>1. RowsStay
    BY <1>5 DEF DeclineCircleInvitation, RowsStay
  <2>2. TablesOK'
    BY <1>0, <1>5 DEF DeclineCircleInvitation, TablesOK
  <2> QED
    BY <1>0, <1>5, <2>1, <2>2, RequestsStay DEF CirclesInv, DeclineCircleInvitation
<1>6. ASSUME NEW s \in CircleSlot, JoinInsert(s) PROVE CirclesInv'
  <2> DEFINE r == [cireq[s] EXCEPT !.step = "commit"]
  <2>1. RequestOK(cireq[s], founder) /\ cireq[s].step = "insert"
    BY <1>0, <1>6 DEF RequestsOK, JoinInsert
  <2>2. RowsStay
    BY <1>6 DEF JoinInsert, RowsStay
  <2>3. RequestOK(r, founder')
    BY <1>6, <2>1 DEF RequestOK, CircleRequest, JoinInsert
  <2>4. cireq' = [cireq EXCEPT ![s] = r]
    BY <1>6 DEF JoinInsert
  <2>5. TablesOK'
    BY <1>0, <1>6 DEF JoinInsert, TablesOK
  <2> HIDE DEF r
  <2> QED
    BY <1>0, <2>2, <2>3, <2>4, <2>5, RequestMoves DEF CirclesInv
<1>7. ASSUME NEW s \in CircleSlot, JoinCommit(s) PROVE CirclesInv'
  <2> DEFINE c == cireq[s].ring
             u == cireq[s].user
  <2>1. c \in Ring /\ founder[c] # Nobody /\ u \in Person
    BY <1>0, <1>7 DEF RequestsOK, RequestOK, JoinCommit
  <2>2. seats' = [seats EXCEPT ![c][u] = "code"]
    BY <1>7 DEF JoinCommit
  <2> HIDE DEF c, u
  <2>3. /\ seats' \in [Ring -> [Person -> Door]]
        /\ \A d \in Ring : d # c => seats'[d] = seats[d]
    BY <1>0, <2>1, <2>2, SeatTaken, "code" \in Door DEF Door
  <2>4. RowsStay
    BY <1>7 DEF JoinCommit, RowsStay
  <2>5. TablesOK'
    BY <1>0, <1>7, <2>1, <2>3 DEF JoinCommit, TablesOK
  <2> QED
    BY <1>0, <1>7, <2>4, <2>5, EndMoves DEF CirclesInv, JoinCommit
<1>8. ASSUME NEW s \in CircleSlot, InviteUpsert(s) PROVE CirclesInv'
  <2> DEFINE c == cireq[s].ring
             u == cireq[s].user
  <2>1. c \in Ring /\ founder[c] # Nobody /\ u \in Person
    BY <1>0, <1>8 DEF RequestsOK, RequestOK, InviteUpsert
  <2>2. letters' = [letters EXCEPT ![c] = letters[c] \cup {u}]
    BY <1>8 DEF InviteUpsert
  <2> HIDE DEF c, u
  <2>3. /\ letters' \in [Ring -> SUBSET Person]
        /\ \A d \in Ring : d # c => letters'[d] = letters[d]
    BY <1>0, <2>1, <2>2 DEF TablesOK
  <2>4. RowsStay
    BY <1>8 DEF InviteUpsert, RowsStay
  <2>5. TablesOK'
    BY <1>0, <1>8, <2>1, <2>3 DEF InviteUpsert, TablesOK
  <2> QED
    BY <1>0, <1>8, <2>4, <2>5, EndMoves DEF CirclesInv, InviteUpsert
<1>9. ASSUME NEW s \in CircleSlot, MarkSeasonCompleted(s) PROVE CirclesInv'
  <2>1. RowsStay
    BY <1>9 DEF MarkSeasonCompleted, RowsStay
  <2>2. TablesOK'
    BY <1>0, <1>9 DEF MarkSeasonCompleted, TablesOK
  <2> QED
    BY <1>0, <1>9, <2>1, <2>2, EndMoves DEF CirclesInv, MarkSeasonCompleted
<1>10. ASSUME NEW s \in CircleSlot, CircleRequestFails(s) PROVE CirclesInv'
  <2>1. RowsStay
    BY <1>10 DEF CircleRequestFails, RowsStay
  <2>2. TablesOK'
    BY <1>0, <1>10 DEF CircleRequestFails, TablesOK
  <2> QED
    BY <1>0, <1>10, <2>1, <2>2, EndMoves DEF CirclesInv, CircleRequestFails
<1>11. ASSUME NEW s \in CircleSlot, NEW u \in Person, NEW c \in Ring, JoinCount(s, u, c)
       PROVE  CirclesInv'
  BY <1>11, BeginMoves DEF JoinCount
<1>12. ASSUME NEW s \in CircleSlot, NEW u \in Person, NEW c \in Ring, NEW v \in Person,
              InviteLoad(s, u, c, v)
       PROVE  CirclesInv'
  <2>1. founder[c] # Nobody
    BY <1>0, <1>12 DEF InviteLoad, CanRead, Seated, TablesOK
  <2> QED
    BY <1>12, <2>1, BeginMoves DEF InviteLoad
<1>13. ASSUME NEW s \in CircleSlot, NEW u \in Person, NEW c \in Ring, NEW t \in Season,
              EndLoad(s, u, c, t)
       PROVE  CirclesInv'
  <2>1. founder[c] # Nobody
    BY <1>0, <1>13 DEF EndLoad, MayEnd, CanRead, Seated, TablesOK
  <2> QED
    BY <1>13, <2>1, BeginMoves DEF EndLoad
<1>14. CASE UNCHANGED circleVars
  <2>1. RowsStay /\ UNCHANGED cireq
    BY <1>14 DEF circleVars, RowsStay
  <2>2. TablesOK'
    BY <1>0, <1>14 DEF circleVars, TablesOK
  <2> QED
    BY <1>0, <2>1, <2>2, RequestsStay DEF CirclesInv
<1> QED
  BY <1>1, <1>2, <1>3, <1>4, <1>5, <1>6, <1>7, <1>8, <1>9, <1>10, <1>11, <1>12, <1>13, <1>14 DEF CirclesNext

\* The invariant of the tables and the requests, on which the rest builds.
THEOREM CirclesAreWellFormed == CirclesSpec => []CirclesInv
BY CirclesInvInit, CirclesInvStep, PTL DEF CirclesSpec

(* The tables of circles keep their types, and every request on them knows *)
(* what it will write, however requests fail and interleave.               *)
THEOREM CirclesTyping == CirclesSpec => []CirclesTypeOK
BY CirclesAreWellFormed, InvGivesTypes, PTL

-----------------------------------------------------------------------------
(* Counting requests.                                                      *)

\* The slots whose request, according to q, is in R.
SlotsOf(q, R) == {s \in CircleSlot : q[s] \in R}

LEMMA CountSlots ==
  ASSUME NEW q, NEW R
  PROVE  /\ IsFiniteSet(SlotsOf(q, R)) /\ Cardinality(SlotsOf(q, R)) \in Nat
         /\ Cardinality(SlotsOf(q, R)) <= Cardinality(CircleSlot)
         /\ Cardinality(CircleSlot) \in Nat
<1>1. SlotsOf(q, R) \subseteq CircleSlot
  BY DEF SlotsOf
<1>2. IsFiniteSet(CircleSlot)
  BY CirclesAssumption
<1> QED
  BY <1>1, <1>2, FS_Subset, FS_CardinalityType

\* One request leaves R, or moves without entering it.
LEMMA SlotLeaves ==
  ASSUME NEW q \in [CircleSlot -> CircleRequest], NEW R, NEW s \in CircleSlot, NEW r,
         r \in R => q[s] \in R
  PROVE  LET p == [q EXCEPT ![s] = r]
         IN  /\ Cardinality(SlotsOf(p, R)) <= Cardinality(SlotsOf(q, R))
             /\ r \notin R /\ q[s] \in R =>
                  Cardinality(SlotsOf(p, R)) = Cardinality(SlotsOf(q, R)) - 1
<1> DEFINE p == [q EXCEPT ![s] = r]
<1>0. IsFiniteSet(SlotsOf(q, R)) /\ Cardinality(SlotsOf(q, R)) \in Nat
  BY CountSlots
<1>1. CASE r \in R
  <2>1. SlotsOf(p, R) = SlotsOf(q, R)
    BY <1>1 DEF SlotsOf
  <2> QED
    BY <1>0, <1>1, <2>1
<1>2. CASE r \notin R
  <2>1. SlotsOf(p, R) = SlotsOf(q, R) \ {s}
    BY <1>2 DEF SlotsOf
  <2>2. q[s] \in R <=> s \in SlotsOf(q, R)
    BY DEF SlotsOf
  <2>3. Cardinality(SlotsOf(q, R) \ {s}) =
          IF s \in SlotsOf(q, R) THEN Cardinality(SlotsOf(q, R)) - 1 ELSE Cardinality(SlotsOf(q, R))
    BY <1>0, FS_RemoveElement
  <2>4. Cardinality(SlotsOf(p, R)) =
          IF q[s] \in R THEN Cardinality(SlotsOf(q, R)) - 1 ELSE Cardinality(SlotsOf(q, R))
    BY <2>1, <2>2, <2>3
  <2> HIDE DEF p
  <2>5. /\ Cardinality(SlotsOf(p, R)) <= Cardinality(SlotsOf(q, R))
        /\ q[s] \in R => Cardinality(SlotsOf(p, R)) = Cardinality(SlotsOf(q, R)) - 1
    BY <1>0, <2>4
  <2> QED
    BY <2>5 DEF p
<1> QED
  BY <1>1, <1>2

\* Every step on the requests is a step of one of them.
LEMMA OneRequestMoves ==
  ASSUME CirclesInv, CirclesNext
  PROVE  \/ UNCHANGED cireq
         \/ \E s \in CircleSlot : EndCircleRequest(s)
         \/ \E s \in CircleSlot : JoinInsert(s)
         \/ \E s \in CircleSlot, u \in Person, c \in Ring : JoinCount(s, u, c)
         \/ \E s \in CircleSlot, u \in Person, c \in Ring, v \in Person : InviteLoad(s, u, c, v)
         \/ \E s \in CircleSlot, u \in Person, c \in Ring, t \in Season : EndLoad(s, u, c, t)
BY DEF CirclesNext, SeasonRunsOut, LazyCompleteExpiredSeason, CreateCircle,
   AcceptCircleInvitation, DeclineCircleInvitation, JoinCommit, InviteUpsert,
   MarkSeasonCompleted, CircleRequestFails

-----------------------------------------------------------------------------
(* The limit of the door by code.                                          *)

JoiningRequest(c) == {r \in CircleRequest : r.step \in {"insert", "commit"} /\ r.ring = c}

WithinLimit(c) ==
    /\ IsFiniteSet(Seated(c))
    /\ Cardinality(CodeSeats(c)) + Cardinality(Joining(c))
         <= MemberLimit - 1 + Cardinality(CircleSlot)

AllWithinLimit == \A c \in Ring : WithinLimit(c)

LEMMA CodeSeatsAreSeats ==
  ASSUME NEW c \in Ring, IsFiniteSet(Seated(c))
  PROVE  /\ IsFiniteSet(CodeSeats(c)) /\ Cardinality(CodeSeats(c)) \in Nat
         /\ Cardinality(CodeSeats(c)) <= Cardinality(Seated(c))
         /\ Cardinality(Seated(c)) \in Nat
<1>1. CodeSeats(c) \subseteq Seated(c)
  BY DEF CodeSeats, Seated
<1> QED
  BY <1>1, FS_Subset, FS_CardinalityType

\* A step that changes neither the seats of c nor lets a request join it.
LEMMA LimitStays ==
  ASSUME CirclesInv, NEW c \in Ring, WithinLimit(c),
         seats'[c] = seats[c],
         \/ UNCHANGED cireq
         \/ \E s \in CircleSlot, r \in CircleRequest :
              /\ r \in JoiningRequest(c) => cireq[s] \in JoiningRequest(c)
              /\ cireq' = [cireq EXCEPT ![s] = r]
  PROVE  WithinLimit(c)'
<1> DEFINE R == JoiningRequest(c)
<1>0. cireq \in [CircleSlot -> CircleRequest]
  BY DEF CirclesInv, RequestsOK
<1>1. Joining(c) = SlotsOf(cireq, R)
  BY <1>0 DEF Joining, SlotsOf, JoiningRequest
<1>2. cireq' \in [CircleSlot -> CircleRequest]
  BY <1>0
<1>3. Joining(c)' = SlotsOf(cireq', R)
  BY <1>2 DEF Joining, SlotsOf, JoiningRequest
<1> HIDE DEF R
<1>4. Cardinality(SlotsOf(cireq', R)) <= Cardinality(SlotsOf(cireq, R))
  <2>1. CASE UNCHANGED cireq
    BY <2>1, CountSlots
  <2>2. ASSUME NEW s \in CircleSlot, NEW r \in CircleRequest, r \in R => cireq[s] \in R,
               cireq' = [cireq EXCEPT ![s] = r]
        PROVE  Cardinality(SlotsOf(cireq', R)) <= Cardinality(SlotsOf(cireq, R))
    BY <1>0, <2>2, SlotLeaves
  <2> QED
    BY <2>1, <2>2 DEF R
<1>5. CodeSeats(c)' = CodeSeats(c) /\ Seated(c)' = Seated(c)
  BY DEF CodeSeats, Seated
<1>6. Cardinality(CodeSeats(c)) \in Nat
  BY CodeSeatsAreSeats DEF WithinLimit
<1>7. /\ Cardinality(SlotsOf(cireq, R)) \in Nat /\ Cardinality(SlotsOf(cireq', R)) \in Nat
      /\ Cardinality(CircleSlot) \in Nat /\ MemberLimit \in Nat
  BY CountSlots, CirclesAssumption
<1> QED
  BY <1>1, <1>3, <1>4, <1>5, <1>6, <1>7 DEF WithinLimit

(* However many users join a circle by its code at once, it takes fewer    *)
(* of them beyond the limit than requests run together: whoever passed the *)
(* count takes a place that was free in the table and among the requests.  *)
THEOREM CodeLimit == CirclesSpec => []JoinLimit
<1>0. MemberLimit \in Nat \ {0, 1} /\ Cardinality(CircleSlot) \in Nat
  BY CirclesAssumption, CountSlots
<1>1. CirclesInit => AllWithinLimit
  <2> SUFFICES ASSUME CirclesInit, NEW c \in Ring PROVE WithinLimit(c)
    BY DEF AllWithinLimit
  <2>1. Seated(c) = {} /\ CodeSeats(c) = {} /\ Joining(c) = {}
    BY DEF CirclesInit, Seated, CodeSeats, Joining, IdleCircleRequest
  <2> QED
    BY <1>0, <2>1, FS_EmptySet DEF WithinLimit
<1>2. CirclesInv /\ AllWithinLimit /\ [CirclesNext]_circleVars => AllWithinLimit'
  <2> SUFFICES ASSUME CirclesInv, AllWithinLimit, [CirclesNext]_circleVars, NEW c \in Ring
               PROVE  WithinLimit(c)'
    BY DEF AllWithinLimit
  <2>0. /\ WithinLimit(c) /\ cireq \in [CircleSlot -> CircleRequest] /\ TablesOK
        /\ seats \in [Ring -> [Person -> Door]]
    BY DEF AllWithinLimit, CirclesInv, RequestsOK, TablesOK
  <2>1. /\ Cardinality(CodeSeats(c)) \in Nat /\ Cardinality(Seated(c)) \in Nat
        /\ Cardinality(CodeSeats(c)) <= Cardinality(Seated(c)) /\ IsFiniteSet(Seated(c))
        /\ IsFiniteSet(CodeSeats(c))
        /\ Cardinality(CodeSeats(c)) + Cardinality(Joining(c))
             <= MemberLimit - 1 + Cardinality(CircleSlot)
    BY <2>0, CodeSeatsAreSeats DEF WithinLimit
  <2>2. Joining(c) = SlotsOf(cireq, JoiningRequest(c)) /\ Cardinality(Joining(c)) \in Nat
    <3>1. Joining(c) = SlotsOf(cireq, JoiningRequest(c))
      BY <2>0 DEF Joining, SlotsOf, JoiningRequest
    <3> QED
      BY <3>1, CountSlots
  <2>3. Cardinality(Joining(c)') \in Nat /\ Cardinality(Joining(c)') <= Cardinality(CircleSlot)
    <3>1. Joining(c)' \subseteq CircleSlot /\ IsFiniteSet(CircleSlot)
      BY CirclesAssumption DEF Joining
    <3> QED
      BY <3>1, FS_Subset, FS_CardinalityType
  <2>4. ASSUME NEW s \in CircleSlot, EndCircleRequest(s), seats'[c] = seats[c]
        PROVE  WithinLimit(c)'
    <3>1. IdleCircleRequest \in CircleRequest /\ IdleCircleRequest \notin JoiningRequest(c)
      BY DEF IdleCircleRequest, CircleRequest, JoiningRequest
    <3> QED
      BY <2>0, <2>4, <3>1, LimitStays DEF EndCircleRequest
  <2>5. ASSUME NEW s \in CircleSlot, JoinInsert(s) PROVE WithinLimit(c)'
    <3> DEFINE r == [cireq[s] EXCEPT !.step = "commit"]
    <3>1. r \in CircleRequest /\ r.step = "commit" /\ r.ring = cireq[s].ring
      BY <2>0 DEF CircleRequest
    <3>2. cireq' = [cireq EXCEPT ![s] = r] /\ seats'[c] = seats[c]
      BY <2>5 DEF JoinInsert
    <3> HIDE DEF r
    <3>3. r \in JoiningRequest(c) => cireq[s] \in JoiningRequest(c)
      BY <2>0, <2>5, <3>1 DEF JoiningRequest, JoinInsert
    <3> QED
      BY <2>0, <3>1, <3>2, <3>3, LimitStays
  <2>6. ASSUME NEW s \in CircleSlot, NEW step \in {"insert", "invite", "complete"},
               NEW u \in Person, NEW d \in Ring, step # "insert" \/ d # c,
               BeginAt(s, step, u, d), seats'[c] = seats[c]
        PROVE  WithinLimit(c)'
    <3> DEFINE r == [step |-> step, user |-> u, ring |-> d]
    <3>1. r \in CircleRequest /\ r \notin JoiningRequest(c)
      BY <2>6 DEF CircleRequest, JoiningRequest
    <3>2. cireq' = [cireq EXCEPT ![s] = r]
      BY <2>6 DEF BeginAt
    <3> HIDE DEF r
    <3> QED
      BY <2>0, <2>6, <3>1, <3>2, LimitStays
  <2>7. ASSUME NEW u \in Person, NEW d \in Ring, NEW t \in Season, CreateCircle(u, d, t)
        PROVE  WithinLimit(c)'
    <3>1. /\ seats'[d][u] = "code"
          /\ \A v \in Person : v # u => seats'[d][v] = seats[d][v]
          /\ \A f \in Ring : f # d => seats'[f] = seats[f]
      BY <2>0, <2>7, SeatTaken, "code" \in Door DEF CreateCircle, Door
    <3>2. CASE d # c
      BY <2>0, <2>7, <3>1, <3>2, LimitStays DEF CreateCircle
    <3>3. CASE d = c
      <4>1. founder[c] = Nobody /\ \A v \in Person : seats[c][v] = "none"
        BY <2>0, <2>7, <3>3 DEF CreateCircle, TablesOK
      <4>2. Seated(c)' = {u} /\ CodeSeats(c)' = {u}
        BY <3>1, <3>3, <4>1 DEF Seated, CodeSeats
      <4>3. Joining(c) = {}
        BY <4>1 DEF Joining, CirclesInv, RequestsOK, RequestOK
      <4>4. Joining(c)' = {}
        BY <2>7, <4>3 DEF CreateCircle, Joining
      <4> QED
        <5>1. /\ IsFiniteSet(Seated(c)') /\ Cardinality(CodeSeats(c)') = 1
              /\ Cardinality(Joining(c)') = 0
          <6>1. IsFiniteSet({u}) /\ Cardinality({u}) = 1
            BY FS_Singleton
          <6>2. Cardinality({}) = 0
            BY FS_EmptySet
          <6> QED
            BY <4>2, <4>4, <6>1, <6>2
        <5> QED
          BY <1>0, <5>1 DEF WithinLimit
    <3> QED
      BY <3>2, <3>3
  <2>8. ASSUME NEW u \in Person, NEW d \in Ring, AcceptCircleInvitation(d, u)
        PROVE  WithinLimit(c)'
    <3>1. CASE u \in Seated(d) \/ d # c
      <4>1. seats'[c] = seats[c]
        <5>1. CASE u \in Seated(d)
          BY <2>8, <5>1 DEF AcceptCircleInvitation
        <5>2. CASE u \notin Seated(d)
          BY <2>0, <2>8, <3>1, <5>2, SeatTaken, "letter" \in Door
             DEF AcceptCircleInvitation, Door
        <5> QED
          BY <5>1, <5>2
      <4> QED
        BY <2>0, <2>8, <4>1, LimitStays DEF AcceptCircleInvitation
    <3>2. CASE u \notin Seated(d) /\ d = c
      <4>1. /\ seats'[c][u] = "letter"
            /\ \A v \in Person : v # u => seats'[c][v] = seats[c][v]
        BY <2>0, <2>8, <3>2, SeatTaken, "letter" \in Door DEF AcceptCircleInvitation, Door
      <4>2. Seated(c)' = Seated(c) \cup {u} /\ CodeSeats(c)' = CodeSeats(c)
        BY <3>2, <4>1 DEF Seated, CodeSeats
      <4>3. Joining(c)' = Joining(c)
        BY <2>8 DEF AcceptCircleInvitation, Joining
      <4> QED
        BY <2>1, <4>2, <4>3, FS_AddElement DEF WithinLimit
    <3> QED
      BY <3>1, <3>2
  <2>9. ASSUME NEW s \in CircleSlot, JoinCommit(s) PROVE WithinLimit(c)'
    <3> DEFINE d == cireq[s].ring
               u == cireq[s].user
    <3>1. d \in Ring /\ u \in Person
      BY <2>9 DEF CirclesInv, RequestsOK, RequestOK, JoinCommit
    <3>2. seats' = [seats EXCEPT ![d][u] = "code"]
      BY <2>9 DEF JoinCommit
    <3>a. d = cireq[s].ring
      OBVIOUS
    <3> HIDE DEF d, u
    <3>3. /\ seats'[d][u] = "code"
          /\ \A v \in Person : v # u => seats'[d][v] = seats[d][v]
          /\ \A f \in Ring : f # d => seats'[f] = seats[f]
      BY <2>0, <3>1, <3>2, SeatTaken, "code" \in Door DEF Door
    <3>4. CASE d # c
      BY <2>4, <2>9, <3>1, <3>3, <3>4 DEF JoinCommit
    <3>5. CASE d = c
      <4>1. Seated(c)' = Seated(c) \cup {u} /\ CodeSeats(c)' = CodeSeats(c) \cup {u}
        BY <3>1, <3>3, <3>5 DEF Seated, CodeSeats
      <4>2. /\ IsFiniteSet(Seated(c)') /\ Cardinality(CodeSeats(c)') \in Nat
            /\ Cardinality(CodeSeats(c)') <= Cardinality(CodeSeats(c)) + 1
        <5>1. IsFiniteSet(Seated(c)')
          BY <2>1, <4>1, FS_AddElement
        <5>2. Cardinality(CodeSeats(c)') = IF u \in CodeSeats(c) THEN Cardinality(CodeSeats(c))
                                           ELSE Cardinality(CodeSeats(c)) + 1
          BY <2>1, <4>1, FS_AddElement
        <5> QED
          BY <2>1, <5>1, <5>2
      <4>3. Joining(c)' = Joining(c) \ {s} /\ s \in Joining(c)
        BY <2>0, <2>9, <3>5, <3>a DEF JoinCommit, Joining, EndCircleRequest, IdleCircleRequest
      <4>4. IsFiniteSet(Joining(c))
        BY <2>2, CountSlots
      <4>5. Cardinality(Joining(c)') = Cardinality(Joining(c)) - 1
        BY <4>3, <4>4, FS_RemoveElement
      <4> QED
        BY <1>0, <2>1, <2>2, <4>2, <4>5 DEF WithinLimit
    <3> QED
      BY <3>4, <3>5
  <2>10. ASSUME NEW s \in CircleSlot, NEW u \in Person, NEW d \in Ring, JoinCount(s, u, d)
         PROVE  WithinLimit(c)'
    <3>1. CASE d # c
      BY <2>6, <2>10, <3>1 DEF JoinCount
    <3>2. CASE d = c
      <4>1. Cardinality(Seated(c)) < MemberLimit
        BY <2>10, <3>2 DEF JoinCount
      <4>2. Seated(c)' = Seated(c) /\ CodeSeats(c)' = CodeSeats(c)
        BY <2>10 DEF JoinCount, Seated, CodeSeats
      <4> QED
        BY <1>0, <2>1, <2>3, <4>1, <4>2 DEF WithinLimit
    <3> QED
      BY <3>1, <3>2
  <2>11. ASSUME NEW s \in CircleSlot,
                InviteUpsert(s) \/ MarkSeasonCompleted(s) \/ CircleRequestFails(s)
         PROVE  WithinLimit(c)'
    BY <2>4, <2>11 DEF InviteUpsert, MarkSeasonCompleted, CircleRequestFails
  <2>12. ASSUME NEW s \in CircleSlot, NEW u \in Person, NEW d \in Ring,
                \/ \E v \in Person : InviteLoad(s, u, d, v)
                \/ \E t \in Season : EndLoad(s, u, d, t)
         PROVE  WithinLimit(c)'
    BY <2>6, <2>12 DEF InviteLoad, EndLoad
  <2>13. ASSUME NEW d \in Ring, \/ LazyCompleteExpiredSeason(d)
                                \/ \E u \in Person : DeclineCircleInvitation(d, u)
                                \/ \E t \in Season : SeasonRunsOut(t)
         PROVE  WithinLimit(c)'
    BY <2>0, <2>13, LimitStays DEF LazyCompleteExpiredSeason, DeclineCircleInvitation, SeasonRunsOut
  <2>14. CASE UNCHANGED circleVars
    BY <2>0, <2>14, LimitStays DEF circleVars
  <2> QED
    BY <2>5, <2>7, <2>8, <2>9, <2>10, <2>11, <2>12, <2>13, <2>14 DEF CirclesNext
<1>3. AllWithinLimit => JoinLimit
  BY Zenon DEF AllWithinLimit, JoinLimit, WithinLimit, CodeDoor!Bounded, CodeDoor!Cardinality,
     Cardinality
<1> QED
  BY <1>1, <1>2, <1>3, CirclesAreWellFormed, PTL DEF CirclesSpec

-----------------------------------------------------------------------------
(* Circles without a season.                                               *)

\* What a step that adds no season leaves running.
LEMMA RunningShrinks ==
  ASSUME CirclesInv, CirclesNext, NEW c \in Ring, Running(c) = {}, founder[c] # Nobody
  PROVE  Running(c)' = {}
<1>0. seasons \in [Season -> SeasonRow] /\ TablesOK
  BY DEF CirclesInv, TablesOK
<1>1. ASSUME NEW t \in Season, seasons'[t].status = "active", seasons'[t].ring = c PROVE FALSE
  <2>0. ~ (seasons[t].status = "active" /\ seasons[t].ring = c)
    BY DEF Running
  <2>1. CASE UNCHANGED seasons
    BY <1>1, <2>0, <2>1
  <2>2. ASSUME NEW d \in Ring, LazyCompleteExpiredSeason(d) PROVE FALSE
    <3> DEFINE lapse(n) == [seasons[n] EXCEPT !.status = "lapsed"]
    <3>1. lapse(t).status = "lapsed"
      BY <1>0 DEF SeasonRow
    <3>2. seasons' = [n \in Season |-> IF n \in Running(d) \cap over THEN lapse(n) ELSE seasons[n]]
      BY <2>2 DEF LazyCompleteExpiredSeason
    <3> HIDE DEF lapse
    <3> QED
      BY <1>1, <2>0, <3>1, <3>2
  <2>3. ASSUME NEW u \in Person, NEW d \in Ring, NEW n \in Season, CreateCircle(u, d, n) PROVE FALSE
    <3>1. d # c
      BY <2>3 DEF CreateCircle
    <3>2. /\ seasons'[n] = [status |-> "active", ring |-> d]
          /\ \A k \in Season : k # n => seasons'[k] = seasons[k]
      BY <1>0, <2>3, SeasonRowAdded DEF CreateCircle
    <3> QED
      BY <1>1, <2>0, <3>1, <3>2
  <2> QED
    BY <2>1, <2>2, <2>3 DEF CirclesNext, SeasonRunsOut, AcceptCircleInvitation,
       DeclineCircleInvitation, JoinInsert, JoinCommit, InviteUpsert, MarkSeasonCompleted,
       CircleRequestFails, JoinCount, InviteLoad, EndLoad
<1> QED
  BY <1>1 DEF Running

(* A circle that lost its season has no way back: no step gives it one, no *)
(* request on it gets past the reads that need one, nobody takes a seat by *)
(* its code and no invitation is added to those it had sent.               *)
THEOREM DeadCircles == CirclesSpec => DeadCircleStaysDead
<1>1. ASSUME CirclesInv, [CirclesNext]_circleVars, NEW c \in Ring,
             founder[c] # Nobody, Running(c) = {}, Quiet(c)
      PROVE  /\ Running(c)' = {} /\ Quiet(c)'
             /\ CodeSeats(c)' = CodeSeats(c) /\ letters'[c] \subseteq letters[c]
  <2> DEFINE Late == {"commit", "invite"}
  <2>0. /\ cireq \in [CircleSlot -> CircleRequest] /\ TablesOK
        /\ \A s \in CircleSlot : ~ (cireq[s].step \in Late /\ cireq[s].ring = c)
    BY <1>1 DEF CirclesInv, RequestsOK, Quiet
  <2>1. CASE UNCHANGED circleVars
    BY <1>1, <2>1 DEF circleVars, Running, Quiet, CodeSeats
  <2>2. CASE CirclesNext
    <3>1. Running(c)' = {}
      BY <1>1, <2>0, <2>2, RunningShrinks
    <3>2. ASSUME NEW s \in CircleSlot, NEW r, r.step \in Late => r.ring # c,
                 cireq' = [cireq EXCEPT ![s] = r]
          PROVE  Quiet(c)'
      BY <2>0, <3>2 DEF Quiet
    <3>3. Quiet(c)'
      <4>1. CASE UNCHANGED cireq
        BY <2>0, <4>1 DEF Quiet
      <4>2. ASSUME NEW s \in CircleSlot, EndCircleRequest(s) PROVE Quiet(c)'
        <5>1. IdleCircleRequest.step \notin Late
          BY DEF IdleCircleRequest
        <5> QED
          BY <3>2, <4>2, <5>1 DEF EndCircleRequest
      <4>3. ASSUME NEW s \in CircleSlot, JoinInsert(s) PROVE Quiet(c)'
        <5> DEFINE r == [cireq[s] EXCEPT !.step = "commit"]
        <5>1. r.ring = cireq[s].ring /\ cireq' = [cireq EXCEPT ![s] = r]
          BY <2>0, <4>3 DEF JoinInsert, CircleRequest
        <5>2. cireq[s].ring # c
          BY <1>1, <4>3 DEF JoinInsert
        <5> HIDE DEF r
        <5> QED
          BY <3>2, <5>1, <5>2
      <4>5. ASSUME NEW s \in CircleSlot, NEW step, NEW u, NEW d,
                   step \notin Late \/ d # c, BeginAt(s, step, u, d)
            PROVE  Quiet(c)'
        <5> DEFINE r == [step |-> step, user |-> u, ring |-> d]
        <5>1. r.step = step /\ r.ring = d
          OBVIOUS
        <5>2. cireq' = [cireq EXCEPT ![s] = r]
          BY <4>5 DEF BeginAt
        <5> HIDE DEF r
        <5> QED
          BY <3>2, <4>5, <5>1, <5>2
      <4>6. ASSUME NEW s \in CircleSlot, NEW u \in Person, NEW d \in Ring, JoinCount(s, u, d)
            PROVE  Quiet(c)'
        BY <4>5, <4>6 DEF JoinCount
      <4>7. ASSUME NEW s \in CircleSlot, NEW u \in Person, NEW d \in Ring, NEW v \in Person,
                   InviteLoad(s, u, d, v)
            PROVE  Quiet(c)'
        BY <1>1, <4>5, <4>7 DEF InviteLoad, CanRead
      <4>8. ASSUME NEW s \in CircleSlot, NEW u \in Person, NEW d \in Ring, NEW t \in Season,
                   EndLoad(s, u, d, t)
            PROVE  Quiet(c)'
        BY <4>5, <4>8 DEF EndLoad
      <4> QED
        BY <1>1, <2>2, <4>1, <4>2, <4>3, <4>6, <4>7, <4>8, OneRequestMoves
    <3>4. CodeSeats(c)' = CodeSeats(c)
      <4>1. CASE seats'[c] = seats[c]
        BY <4>1 DEF CodeSeats
      <4>2. ASSUME NEW u \in Person, NEW d \in Ring, NEW t \in Season, CreateCircle(u, d, t)
            PROVE  seats'[c] = seats[c]
        BY <1>1, <2>0, <4>2, SeatTaken, "code" \in Door DEF CreateCircle, Door
      <4>3. ASSUME NEW s \in CircleSlot, JoinCommit(s) PROVE seats'[c] = seats[c]
        <5>1. cireq[s].ring # c /\ cireq[s].ring \in Ring /\ cireq[s].user \in Person
          BY <1>1, <2>0, <4>3 DEF JoinCommit, CirclesInv, RequestsOK, RequestOK
        <5> QED
          BY <2>0, <4>3, <5>1, SeatTaken, "code" \in Door DEF JoinCommit, Door
      <4>4. ASSUME NEW u \in Person, NEW d \in Ring, AcceptCircleInvitation(d, u)
            PROVE  CodeSeats(c)' = CodeSeats(c)
        <5>1. CASE u \in Seated(d)
          BY <4>4, <5>1 DEF AcceptCircleInvitation, CodeSeats
        <5>2. CASE u \notin Seated(d)
          <6>1. /\ seats'[d][u] = "letter"
                /\ \A v \in Person : v # u => seats'[d][v] = seats[d][v]
                /\ \A f \in Ring : f # d => seats'[f] = seats[f]
            <7>1. seats' = [seats EXCEPT ![d][u] = "letter"] /\ TablesOK /\ "letter" \in Door
              BY <2>0, <4>4, <5>2 DEF AcceptCircleInvitation, Door
            <7> QED
              BY <7>1, SeatTaken
          <6>2. seats[d][u] = "none"
            BY <5>2 DEF Seated
          <6>3. \A v \in Person : seats'[c][v] = "code" <=> seats[c][v] = "code"
            <7>1. CASE d = c
              BY <6>1, <6>2, <7>1
            <7>2. CASE d # c
              BY <6>1, <7>2
            <7> QED
              BY <7>1, <7>2
          <6> QED
            BY <6>3 DEF CodeSeats
        <5> QED
          BY <5>1, <5>2
      <4> QED
        BY <2>2, <4>1, <4>2, <4>3, <4>4 DEF CirclesNext, SeasonRunsOut,
           LazyCompleteExpiredSeason, DeclineCircleInvitation, JoinInsert, InviteUpsert,
           MarkSeasonCompleted, CircleRequestFails, JoinCount, InviteLoad, EndLoad
    <3>5. letters'[c] \subseteq letters[c]
      <4>1. ASSUME NEW s \in CircleSlot, InviteUpsert(s) PROVE letters'[c] = letters[c]
        <5>1. cireq[s].ring # c
          BY <2>0, <4>1 DEF InviteUpsert
        <5> QED
          BY <2>0, <4>1, <5>1 DEF InviteUpsert, TablesOK
      <4>2. ASSUME NEW u \in Person, NEW d \in Ring,
                   AcceptCircleInvitation(d, u) \/ DeclineCircleInvitation(d, u)
            PROVE  letters'[c] \subseteq letters[c]
        BY <2>0, <4>2 DEF AcceptCircleInvitation, DeclineCircleInvitation, TablesOK
      <4> QED
        BY <2>2, <4>1, <4>2 DEF CirclesNext, SeasonRunsOut, LazyCompleteExpiredSeason,
           CreateCircle, JoinInsert, JoinCommit, MarkSeasonCompleted, CircleRequestFails,
           JoinCount, InviteLoad, EndLoad
    <3> QED
      BY <3>1, <3>3, <3>4, <3>5
  <2> QED
    BY <1>1, <2>1, <2>2
<1>2. CirclesInv /\ [CirclesNext]_circleVars =>
        [\A c \in Ring :
           founder[c] # Nobody /\ Running(c) = {} /\ Quiet(c)
           => /\ Running(c)' = {} /\ Quiet(c)'
              /\ CodeSeats(c)' = CodeSeats(c) /\ letters'[c] \subseteq letters[c]]_circleVars
  BY <1>1
<1> QED
  BY <1>2, CirclesAreWellFormed, PTL DEF CirclesSpec, DeadCircleStaysDead

=============================================================================
