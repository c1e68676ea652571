----------------------------- MODULE TeamsProofs -----------------------------
(***************************************************************************)
(* Proofs about teams: types, the one lead, the member limit and what      *)
(* archived teams and removed members can rely on, for every number of     *)
(* accounts, requests and places.                                          *)
(* A join works under the lock of the team's row, every other request      *)
(* under none; so the proofs say what the lock gives to the join that has  *)
(* it, and what each of the others still knows of the lead when it writes. *)
(***************************************************************************)
EXTENDS TeamProof, FiniteSetTheorems, TLAPS

\* The lock is held by the join that is between its statements, if any.
LockedByJoin ==
    /\ \A s \in TeamSlot : s \in held <=> treq[s].step \in {"read", "write"}
    /\ \A s, t \in held : s = t

\* A join about to write has the place it counted, and nobody in its row.
PlaceIsFree ==
    \A s \in TeamSlot : treq[s].step = "write" =>
        /\ crew[treq[s].user] \in {"none", "left"}
        /\ Cardinality(Crew) < TeamLimit

\* The creator has the role of the lead and nobody else has; before there is
\* a team there are no members and no requests.
OnlyCreatorLeads ==
    /\ \A u \in Mate : crew[u] = "lead" <=> u = lead
    /\ lead = NoMate => /\ \A u \in Mate : crew[u] = "none"
                        /\ \A s \in TeamSlot : treq[s].step = "idle"

\* No request in flight takes the role from the lead.
LeadIsSafe ==
    \A s \in TeamSlot : treq[s].step # "idle" =>
        /\ treq[s].user \in Mate
        /\ treq[s].step \in {"leave", "remove"} => treq[s].user # lead
        /\ treq[s].step \in {"role", "setrole"} /\ treq[s].user = lead
             => treq[s].role = "lead"

ArchivedIsClosed == archived => lead # NoMate /\ held = {}

TeamsInv ==
    /\ TeamsTypeOK
    /\ LockedByJoin
    /\ PlaceIsFree
    /\ OnlyCreatorLeads
    /\ LeadIsSafe
    /\ ArchivedIsClosed

-----------------------------------------------------------------------------
(* Counting.                                                               *)

LEMMA CrewIsFinite ==
  /\ IsFiniteSet(Crew)
  /\ Cardinality(Crew) \in Nat
<1>1. IsFiniteSet(Mate) /\ Crew \subseteq Mate
  BY TeamsAssumption DEF Crew
<1> QED
  BY <1>1, FS_Subset, FS_CardinalityType

\* A smaller crew is no larger.
LEMMA CrewShrinks ==
  ASSUME Crew' \subseteq Crew
  PROVE  /\ Cardinality(Crew') \in Nat
         /\ Cardinality(Crew') <= Cardinality(Crew)
BY CrewIsFinite, FS_Subset, FS_CardinalityType

\* Nor is one that one account has joined more than one larger.
LEMMA CrewGrowsByOne ==
  ASSUME NEW u, Crew' \subseteq Crew \cup {u}
  PROVE  /\ Cardinality(Crew') \in Nat
         /\ Cardinality(Crew') <= Cardinality(Crew) + 1
<1>1. /\ IsFiniteSet(Crew \cup {u})
      /\ Cardinality(Crew \cup {u}) \in {Cardinality(Crew), Cardinality(Crew) + 1}
  BY CrewIsFinite, FS_AddElement
<1>2. IsFiniteSet(Crew') /\ Cardinality(Crew') <= Cardinality(Crew \cup {u})
  BY <1>1, FS_Subset
<1> QED
  BY <1>1, <1>2, CrewIsFinite, FS_CardinalityType

-----------------------------------------------------------------------------
(* What the steps do to the members.                                       *)

LEMMA RoleUpdateKeepsCrew ==
  ASSUME TeamsInv, NEW s \in TeamSlot, RoleUpdate(s)
  PROVE  /\ Crew' = Crew
         /\ \A u \in Mate : ~ Active(u) => crew'[u] = crew[u]
         /\ \A u \in Mate : crew'[u] = "lead" <=> u = lead
<1> DEFINE r == treq[s]
<1>1. r.step = "setrole" /\ r.user \in Mate /\ r.role \in Role
  BY DEF TeamsInv, TeamsTypeOK, TeamRequest, LeadIsSafe, RoleUpdate
<1>2. crew \in [Mate -> Seat]
  BY DEF TeamsInv, TeamsTypeOK
<1>3. crew' = IF Active(r.user) THEN [crew EXCEPT ![r.user] = r.role] ELSE crew
  BY DEF RoleUpdate
<1>4. \A u \in Mate : crew'[u] = IF u = r.user /\ Active(u) THEN r.role ELSE crew[u]
  BY <1>1, <1>2, <1>3
<1>5. Crew' = Crew
  BY <1>1, <1>4 DEF Crew, Active
<1>6. \A u \in Mate : ~ Active(u) => crew'[u] = crew[u]
  BY <1>4
<1>7. \A u \in Mate : crew[u] = "lead" <=> u = lead
  BY DEF TeamsInv, OnlyCreatorLeads
<1>8. Active(r.user) => /\ r.user = lead => r.role = "lead"
                        /\ r.role = "lead" => r.user = lead
  <2>1. r.user = lead => r.role = "lead"
    BY <1>1 DEF TeamsInv, LeadIsSafe
  <2>2. ASSUME Active(r.user), r.role = "lead" PROVE r.user = lead
    <3>1. Leads \subseteq {r.user}
      BY <2>2 DEF RoleUpdate
    <3>2. lead \in Mate
      BY <1>1 DEF TeamsInv, TeamsTypeOK, OnlyCreatorLeads
    <3>3. lead \in Leads
      BY <3>2, <1>7 DEF Leads
    <3> QED
      BY <3>1, <3>3
  <2> QED
    BY <2>1, <2>2
<1>9. \A u \in Mate : crew'[u] = "lead" <=> u = lead
  BY <1>4, <1>7, <1>8
<1> QED
  BY <1>5, <1>6, <1>9

\* Whoever goes was not the lead, and had a role.
LEMMA LeavingTakesOneRole ==
  ASSUME TeamsInv, NEW s \in TeamSlot, RemoveMember(s) \/ LeaveTeam(s)
  PROVE  /\ Crew' \subseteq Crew
         /\ \A u \in Mate : ~ Active(u) => crew'[u] = crew[u]
         /\ \A u \in Mate : crew'[u] = "lead" <=> u = lead
<1> DEFINE r == treq[s]
<1>1. r.step \in {"remove", "leave"} /\ r.user \in Mate /\ r.user # lead
  BY DEF TeamsInv, LeadIsSafe, RemoveMember, LeaveTeam
<1>2. crew \in [Mate -> Seat] /\ \A u \in Mate : crew[u] = "lead" <=> u = lead
  BY DEF TeamsInv, TeamsTypeOK, OnlyCreatorLeads
<1>3. \/ crew' = [crew EXCEPT ![r.user] = "removed"] /\ Active(r.user)
      \/ crew' = [crew EXCEPT ![r.user] = "left"] /\ Active(r.user)
      \/ crew' = crew
  BY DEF RemoveMember, LeaveTeam
<1>4. \A u \in Mate : \/ crew'[u] = crew[u]
                      \/ u = r.user /\ Active(u) /\ crew'[u] \in {"removed", "left"}
  BY <1>1, <1>2, <1>3
<1> QED
  BY <1>1, <1>2, <1>4 DEF Crew, Active, Role

-----------------------------------------------------------------------------
(* Each group of actions keeps the invariant.                              *)

LEMMA InitInv == TeamsInit => TeamsInv
<1> SUFFICES ASSUME TeamsInit PROVE TeamsInv
  OBVIOUS
<1>1. TeamsTypeOK
  BY DEF TeamsInit, TeamsTypeOK, TeamRequest, IdleTeamRequest, Role, Seat
<1> QED
  BY <1>1, TeamsAssumption DEF TeamsInit, TeamsInv, LockedByJoin, PlaceIsFree,
     OnlyCreatorLeads, LeadIsSafe, ArchivedIsClosed, IdleTeamRequest

\* What the request of a slot may do next.
TeamsNextIn(s) ==
    \/ ReadPlace(s) \/ TakePlace(s)
    \/ RoleRead(s) \/ RoleUpdate(s)
    \/ RemoveMember(s) \/ LeaveTeam(s) \/ ArchiveTeam(s)
    \/ TeamRequestFails(s)
    \/ \E u \in Mate : LockTeam(s, u) \/ LeaveRead(s, u) \/ ArchiveLoad(s, u)
    \/ \E u, caller \in Mate : \/ RemoveLoad(s, caller, u)
                               \/ \E r \in Role : RoleLoad(s, caller, u, r)

LEMMA NextBySlot ==
  TeamsNext => \/ \E u \in Mate : CreateTeam(u)
               \/ \E s \in TeamSlot : TeamsNextIn(s)
BY Zenon DEF TeamsNext, TeamsNextIn

LEMMA TypingStep == TeamsTypeOK /\ [TeamsNext]_teamVars => TeamsTypeOK'
<1> SUFFICES ASSUME TeamsTypeOK, [TeamsNext]_teamVars PROVE TeamsTypeOK'
  OBVIOUS
<1> USE DEF TeamsTypeOK
<1>1. "member" \in Role /\ Role \subseteq Seat /\ {"left", "removed"} \subseteq Seat
  BY DEF Role, Seat
<1>2. IdleTeamRequest \in TeamRequest
  BY DEF IdleTeamRequest, TeamRequest, Role
<1>3. ASSUME NEW u \in Mate, CreateTeam(u) PROVE TeamsTypeOK'
  BY <1>3 DEF CreateTeam, Role, Seat
<1>4. ASSUME NEW s \in TeamSlot, NEW u \in Mate,
             LockTeam(s, u) \/ LeaveRead(s, u) \/ ArchiveLoad(s, u)
      PROVE  TeamsTypeOK'
  BY <1>4, <1>1 DEF LockTeam, LeaveRead, ArchiveLoad, BeginTeamRequest, TeamRequest
<1>5. ASSUME NEW s \in TeamSlot, NEW u \in Mate, NEW caller \in Mate, NEW r \in Role,
             RemoveLoad(s, caller, u) \/ RoleLoad(s, caller, u, r)
      PROVE  TeamsTypeOK'
  BY <1>5, <1>1 DEF RemoveLoad, RoleLoad, BeginTeamRequest, TeamRequest
<1>6. ASSUME NEW s \in TeamSlot, ReadPlace(s) \/ RoleRead(s) PROVE TeamsTypeOK'
  BY <1>6 DEF ReadPlace, RoleRead, TeamRequestAt, TeamRequest
<1>7. ASSUME NEW s \in TeamSlot, RoleUpdate(s) PROVE TeamsTypeOK'
  <2>1. treq[s].role \in Seat
    BY <1>1 DEF TeamRequest
  <2> QED
    BY <1>7, <1>2, <2>1 DEF RoleUpdate, EndTeamRequest
<1>8. ASSUME NEW s \in TeamSlot,
             \/ TakePlace(s) \/ RemoveMember(s) \/ LeaveTeam(s)
             \/ ArchiveTeam(s) \/ TeamRequestFails(s)
      PROVE  TeamsTypeOK'
  BY <1>8, <1>1, <1>2 DEF TakePlace, RemoveMember, LeaveTeam, ArchiveTeam,
     TeamRequestFails, EndTeamRequest
<1>9. CASE UNCHANGED teamVars
  BY <1>9 DEF teamVars
<1>10. CASE \E u \in Mate : CreateTeam(u)
  BY <1>3, <1>10
<1>11. ASSUME NEW s \in TeamSlot, TeamsNextIn(s) PROVE TeamsTypeOK'
  <2>1. CASE ReadPlace(s) \/ RoleRead(s)
    BY <2>1, <1>6
  <2>2. CASE RoleUpdate(s)
    BY <2>2, <1>7
  <2>3. CASE \/ TakePlace(s) \/ RemoveMember(s) \/ LeaveTeam(s)
             \/ ArchiveTeam(s) \/ TeamRequestFails(s)
    BY <2>3, <1>8
  <2>4. CASE \E u \in Mate : LockTeam(s, u) \/ LeaveRead(s, u) \/ ArchiveLoad(s, u)
    BY <2>4, <1>4
  <2>5. CASE \E u, caller \in Mate, r \in Role :
               RemoveLoad(s, caller, u) \/ RoleLoad(s, caller, u, r)
    BY <2>5, <1>5
  <2> QED
    BY <1>1, <1>11, <2>1, <2>2, <2>3, <2>4, <2>5 DEF TeamsNextIn
<1> QED
  BY <1>9, <1>10, <1>11, NextBySlot

\* The requests change in one slot, to a request that ends or goes on.
LEMMA CreateInv ==
  ASSUME TeamsInv, NEW u \in Mate, CreateTeam(u)
  PROVE  LockedByJoin' /\ PlaceIsFree' /\ OnlyCreatorLeads' /\ LeadIsSafe' /\ ArchivedIsClosed'
<1>1. /\ lead = NoMate /\ lead' = u /\ crew' = [crew EXCEPT ![u] = "lead"]
      /\ UNCHANGED <<archived, held, treq>>
  BY DEF CreateTeam
<1>2. \A s \in TeamSlot : treq[s].step = "idle"
  BY <1>1 DEF TeamsInv, OnlyCreatorLeads
<1>3. crew \in [Mate -> Seat] /\ \A v \in Mate : crew[v] = "none"
  BY <1>1 DEF TeamsInv, TeamsTypeOK, OnlyCreatorLeads
<1>4. OnlyCreatorLeads'
  BY <1>1, <1>3, TeamsAssumption DEF OnlyCreatorLeads
<1> QED
  BY <1>1, <1>2, <1>4 DEF TeamsInv, LockedByJoin, PlaceIsFree, LeadIsSafe, ArchivedIsClosed

\* A request that begins without the lock.
LEMMA LoadInv ==
  ASSUME TeamsInv, NEW s \in TeamSlot, NEW u \in Mate, NEW caller \in Mate, NEW r \in Role,
         \/ LeaveRead(s, u)
         \/ ArchiveLoad(s, u)
         \/ RemoveLoad(s, caller, u)
         \/ RoleLoad(s, caller, u, r)
  PROVE  LockedByJoin' /\ PlaceIsFree' /\ OnlyCreatorLeads' /\ LeadIsSafe' /\ ArchivedIsClosed'
<1> USE DEF TeamsInv
<1>1. treq \in [TeamSlot -> TeamRequest] /\ treq[s].step = "idle"
  BY DEF TeamsTypeOK, LeaveRead, ArchiveLoad, RemoveLoad, RoleLoad, BeginTeamRequest
<1>2. UNCHANGED <<lead, crew, archived, held>>
  BY DEF LeaveRead, ArchiveLoad, RemoveLoad, RoleLoad
<1>3. \A v \in Mate : crew[v] = "lead" <=> v = lead
  BY DEF OnlyCreatorLeads
<1>4. PICK q \in TeamRequest :
         /\ treq' = [treq EXCEPT ![s] = q]
         /\ q.step \in {"leave", "archive", "remove", "role"}
         /\ q.user \in Mate
         /\ q.step \in {"leave", "remove"} => q.user # lead
         /\ q.step = "role" /\ q.user = lead => q.role = "lead"
         /\ lead # NoMate
  <2>1. "member" \in Role
    BY DEF Role
  <2> DEFINE request(step, user, role) == [step |-> step, user |-> user, role |-> role]
  <2>2. CASE LeaveRead(s, u)
    <3>1. Active(u) /\ (crew[u] = "lead" => Leads \ {u} # {})
      BY <2>2 DEF LeaveRead
    <3>2. u # lead
      BY <3>1, <1>3 DEF Leads
    <3>3. lead # NoMate
      BY <3>1 DEF OnlyCreatorLeads, Active, Role
    <3>4. /\ request("leave", u, "member") \in TeamRequest
          /\ treq' = [treq EXCEPT ![s] = request("leave", u, "member")]
      BY <2>1, <2>2 DEF LeaveRead, BeginTeamRequest, TeamRequest
    <3> QED
      BY <3>4, <3>2, <3>3
  <2>3. CASE ArchiveLoad(s, u)
    <3>1. lead # NoMate
      BY <2>3, <1>3, TeamsAssumption DEF ArchiveLoad, CanManageTeam
    <3>4. /\ request("archive", u, "member") \in TeamRequest
          /\ treq' = [treq EXCEPT ![s] = request("archive", u, "member")]
      BY <2>1, <2>3 DEF ArchiveLoad, BeginTeamRequest, TeamRequest
    <3> QED
      BY <3>4, <3>1
  <2>4. CASE RemoveLoad(s, caller, u)
    <3>1. caller = lead /\ u # lead /\ lead # NoMate
      BY <2>4, <1>3, TeamsAssumption DEF RemoveLoad, CanManageTeam
    <3>4. /\ request("remove", u, "member") \in TeamRequest
          /\ treq' = [treq EXCEPT ![s] = request("remove", u, "member")]
      BY <2>1, <2>4 DEF RemoveLoad, BeginTeamRequest, TeamRequest
    <3> QED
      BY <3>4, <3>1
  <2>5. CASE RoleLoad(s, caller, u, r)
    <3>1. caller = lead /\ (u = lead => r = "lead") /\ lead # NoMate
      BY <2>5, <1>3, TeamsAssumption DEF RoleLoad, CanManageTeam
    <3>4. /\ request("role", u, r) \in TeamRequest
          /\ treq' = [treq EXCEPT ![s] = request("role", u, r)]
      BY <2>1, <2>5 DEF RoleLoad, BeginTeamRequest, TeamRequest
    <3> QED
      BY <3>4, <3>1
  <2> QED
    BY <2>2, <2>3, <2>4, <2>5
<1>5. \A t \in TeamSlot : treq'[t] = IF t = s THEN q ELSE treq[t]
  BY <1>1, <1>4
<1>6. Crew' = Crew
  BY <1>2 DEF Crew, Active
<1>7. LockedByJoin'
  BY <1>1, <1>2, <1>4, <1>5 DEF LockedByJoin
<1>8. PlaceIsFree'
  BY <1>2, <1>4, <1>5, <1>6 DEF PlaceIsFree
<1>9. OnlyCreatorLeads'
  BY <1>2, <1>4 DEF OnlyCreatorLeads
<1>10. LeadIsSafe'
  BY <1>2, <1>4, <1>5 DEF LeadIsSafe
<1> QED
  BY <1>2, <1>7, <1>8, <1>9, <1>10 DEF ArchivedIsClosed

\* Locking, counting and the read of a role change one step and no member.
LEMMA ReadInv ==
  ASSUME TeamsInv, NEW s \in TeamSlot, NEW u \in Mate,
         LockTeam(s, u) \/ ReadPlace(s) \/ RoleRead(s)
  PROVE  LockedByJoin' /\ PlaceIsFree' /\ OnlyCreatorLeads' /\ LeadIsSafe' /\ ArchivedIsClosed'
<1> USE DEF TeamsInv
<1>1. treq \in [TeamSlot -> TeamRequest]
  BY DEF TeamsTypeOK
<1>2. UNCHANGED <<lead, crew, archived>> /\ lead # NoMate
  BY DEF LockTeam, ReadPlace, RoleRead, OnlyCreatorLeads
<1>3. Crew' = Crew
  BY <1>2 DEF Crew, Active
<1>4. OnlyCreatorLeads'
  BY <1>2 DEF OnlyCreatorLeads
<1>5. CASE LockTeam(s, u)
  <2>1. /\ held = {} /\ held' = {s} /\ ~ archived
        /\ treq' = [treq EXCEPT ![s] = [step |-> "read", user |-> u, role |-> "member"]]
    BY <1>5 DEF LockTeam, BeginTeamRequest
  <2> QED
    BY <1>1, <1>2, <1>3, <1>4, <2>1
    DEF LockedByJoin, PlaceIsFree, LeadIsSafe, ArchivedIsClosed
<1>6. CASE ReadPlace(s)
  <2>1. /\ treq[s].step = "read" /\ treq' = [treq EXCEPT ![s].step = "write"]
        /\ crew[treq[s].user] \in {"none", "left"} /\ Cardinality(Crew) < TeamLimit
        /\ held' = held
    BY <1>6 DEF ReadPlace, TeamRequestAt
  <2>2. \A t \in TeamSlot : treq'[t] = IF t = s THEN [treq[s] EXCEPT !.step = "write"]
                                       ELSE treq[t]
    BY <1>1, <2>1
  <2>3. treq'[s].step = "write" /\ treq'[s].user = treq[s].user
    BY <1>1, <2>2 DEF TeamRequest
  <2>4. PlaceIsFree'
    BY <1>2, <1>3, <2>1, <2>2, <2>3 DEF PlaceIsFree
  <2>5. LockedByJoin'
    BY <2>1, <2>2, <2>3 DEF LockedByJoin
  <2>6. LeadIsSafe'
    BY <1>2, <2>1, <2>2, <2>3 DEF LeadIsSafe
  <2> QED
    BY <1>2, <1>4, <2>1, <2>4, <2>5, <2>6 DEF ArchivedIsClosed
<1>7. CASE RoleRead(s)
  <2>1. /\ treq[s].step = "role" /\ treq' = [treq EXCEPT ![s].step = "setrole"]
        /\ held' = held
    BY <1>7 DEF RoleRead, TeamRequestAt
  <2>2. \A t \in TeamSlot : treq'[t] = IF t = s THEN [treq[s] EXCEPT !.step = "setrole"]
                                       ELSE treq[t]
    BY <1>1, <2>1
  <2>3. /\ treq'[s].step = "setrole" /\ treq'[s].user = treq[s].user
        /\ treq'[s].role = treq[s].role
    BY <1>1, <2>2 DEF TeamRequest
  <2>4. PlaceIsFree'
    BY <1>2, <1>3, <2>1, <2>2, <2>3 DEF PlaceIsFree
  <2>5. LockedByJoin'
    BY <2>1, <2>2, <2>3 DEF LockedByJoin
  <2>6. LeadIsSafe'
    BY <1>2, <2>1, <2>2, <2>3 DEF LeadIsSafe
  <2> QED
    BY <1>2, <1>4, <2>1, <2>4, <2>5, <2>6 DEF ArchivedIsClosed
<1> QED
  BY <1>5, <1>6, <1>7

\* A request that ends.
LEMMA EndInv ==
  ASSUME TeamsInv, NEW s \in TeamSlot,
         \/ TakePlace(s) \/ RoleUpdate(s) \/ RemoveMember(s) \/ LeaveTeam(s)
         \/ ArchiveTeam(s) \/ TeamRequestFails(s)
  PROVE  LockedByJoin' /\ PlaceIsFree' /\ OnlyCreatorLeads' /\ LeadIsSafe' /\ ArchivedIsClosed'
<1> USE DEF TeamsInv
<1>1. /\ treq \in [TeamSlot -> TeamRequest] /\ treq[s].step # "idle"
      /\ treq' = [treq EXCEPT ![s] = IdleTeamRequest] /\ lead' = lead
  BY DEF TeamsTypeOK, TakePlace, RoleUpdate, RemoveMember, LeaveTeam, ArchiveTeam,
     TeamRequestFails, EndTeamRequest
<1>2. lead # NoMate
  BY <1>1 DEF OnlyCreatorLeads
<1>3. \A t \in TeamSlot : treq'[t] = IF t = s THEN IdleTeamRequest ELSE treq[t]
  BY <1>1
<1>4. treq'[s].step = "idle"
  BY <1>3 DEF IdleTeamRequest
<1>5. held' = held \ {s}
  <2>1. treq[s].step \notin {"read", "write"} => s \notin held
    BY DEF LockedByJoin
  <2> QED
    BY <2>1 DEF TakePlace, RoleUpdate, RemoveMember, LeaveTeam, ArchiveTeam, TeamRequestFails
<1>6. LockedByJoin'
  BY <1>3, <1>4, <1>5 DEF LockedByJoin
<1>7. LeadIsSafe'
  BY <1>1, <1>3, <1>4 DEF LeadIsSafe
<1>8. ArchivedIsClosed'
  BY <1>1, <1>2, <1>5 DEF ArchivedIsClosed, TakePlace, RoleUpdate, RemoveMember,
     LeaveTeam, ArchiveTeam, TeamRequestFails
<1>9. OnlyCreatorLeads' /\ PlaceIsFree'
  <2>1. ASSUME \A u \in Mate : crew'[u] = "lead" <=> u = lead PROVE OnlyCreatorLeads'
    BY <1>1, <1>2, <2>1 DEF OnlyCreatorLeads
  <2>2. ASSUME Crew' \subseteq Crew, \A u \in Mate : ~ Active(u) => crew'[u] = crew[u]
        PROVE  PlaceIsFree'
    <3>1. /\ Cardinality(Crew') <= Cardinality(Crew)
          /\ Cardinality(Crew') \in Nat /\ Cardinality(Crew) \in Nat
      BY <2>2, CrewShrinks, CrewIsFinite
    <3>2. \A t \in TeamSlot : treq'[t].step = "write" =>
            /\ t # s /\ treq'[t] = treq[t] /\ treq[t].user \in Mate
            /\ crew[treq[t].user] \in {"none", "left"} /\ Cardinality(Crew) < TeamLimit
      BY <1>3, <1>4 DEF PlaceIsFree, LeadIsSafe
    <3>3. \A t \in TeamSlot : treq'[t].step = "write" =>
            crew'[treq[t].user] \in {"none", "left"}
      BY <3>2, <2>2 DEF Active, Role
    <3> QED
      BY <3>1, <3>2, <3>3, TeamsAssumption DEF PlaceIsFree
  <2>3. CASE TakePlace(s)
    <3>1. /\ treq[s].step = "write" /\ treq[s].user \in Mate
          /\ crew[treq[s].user] \in {"none", "left"}
          /\ crew' = [crew EXCEPT ![treq[s].user] = "member"]
      BY <2>3 DEF TakePlace, PlaceIsFree, LeadIsSafe
    <3>2. \A u \in Mate : crew'[u] = "lead" <=> u = lead
      BY <3>1 DEF TeamsTypeOK, OnlyCreatorLeads
    <3>3. \A t \in TeamSlot : treq'[t].step # "write"
      BY <3>1, <1>3, <1>4 DEF LockedByJoin
    <3> QED
      BY <2>1, <3>2, <3>3 DEF PlaceIsFree
  <2>4. CASE RoleUpdate(s)
    BY <2>1, <2>2, <2>4, RoleUpdateKeepsCrew
  <2>5. CASE RemoveMember(s) \/ LeaveTeam(s)
    BY <2>1, <2>2, <2>5, LeavingTakesOneRole
  <2>6. CASE ArchiveTeam(s) \/ TeamRequestFails(s)
    <3>1. crew' = crew
      BY <2>6 DEF ArchiveTeam, TeamRequestFails
    <3>2. Crew' = Crew /\ \A u \in Mate : crew'[u] = "lead" <=> u = lead
      BY <3>1 DEF Crew, Active, OnlyCreatorLeads
    <3> QED
      BY <2>1, <2>2, <3>1, <3>2
  <2> QED
    BY <2>3, <2>4, <2>5, <2>6
<1> QED
  BY <1>6, <1>7, <1>8, <1>9

LEMMA StepInv == TeamsInv /\ [TeamsNext]_teamVars => TeamsInv'
<1> SUFFICES ASSUME TeamsInv, [TeamsNext]_teamVars PROVE TeamsInv'
  OBVIOUS
<1>1. TeamsTypeOK'
  BY TypingStep DEF TeamsInv
<1>2. LockedByJoin' /\ PlaceIsFree' /\ OnlyCreatorLeads' /\ LeadIsSafe' /\ ArchivedIsClosed'
  <2>1. CASE UNCHANGED teamVars
    BY <2>1 DEF teamVars, TeamsInv, LockedByJoin, PlaceIsFree, OnlyCreatorLeads,
       LeadIsSafe, ArchivedIsClosed, Crew, Active
  <2>2. CASE \E u \in Mate : CreateTeam(u)
    BY <2>2, CreateInv
  <2>3. ASSUME NEW s \in TeamSlot, TeamsNextIn(s)
        PROVE  LockedByJoin' /\ PlaceIsFree' /\ OnlyCreatorLeads' /\ LeadIsSafe' /\ ArchivedIsClosed'
    <3>1. "member" \in Role
      BY DEF Role
    <3>2. CASE \/ TakePlace(s) \/ RoleUpdate(s) \/ RemoveMember(s) \/ LeaveTeam(s)
               \/ ArchiveTeam(s) \/ TeamRequestFails(s)
      BY <3>2, EndInv
    <3>3. ASSUME NEW u \in Mate, LockTeam(s, u) \/ ReadPlace(s) \/ RoleRead(s)
          PROVE  LockedByJoin' /\ PlaceIsFree' /\ OnlyCreatorLeads' /\ LeadIsSafe' /\ ArchivedIsClosed'
      BY <3>3, ReadInv
    <3>4. ASSUME NEW u \in Mate, NEW caller \in Mate, NEW r \in Role,
                 \/ LeaveRead(s, u) \/ ArchiveLoad(s, u)
                 \/ RemoveLoad(s, caller, u) \/ RoleLoad(s, caller, u, r)
          PROVE  LockedByJoin' /\ PlaceIsFree' /\ OnlyCreatorLeads' /\ LeadIsSafe' /\ ArchivedIsClosed'
      BY <3>4, LoadInv
    <3>5. CASE ReadPlace(s) \/ RoleRead(s)
      <4>1. treq[s].user \in Mate
        BY <3>5 DEF TeamsInv, LeadIsSafe, ReadPlace, RoleRead
      <4> QED
        BY <3>3, <3>5, <4>1
    <3> QED
      BY <2>3, <3>1, <3>2, <3>3, <3>4, <3>5 DEF TeamsNextIn
  <2> QED
    BY <2>1, <2>2, <2>3, NextBySlot
<1> QED
  BY <1>1, <1>2 DEF TeamsInv

LEMMA AlwaysInv == TeamsSpec => []TeamsInv
BY InitInv, StepInv, PTL DEF TeamsSpec

-----------------------------------------------------------------------------
(* What teams and their members can rely on.                               *)

\* What happens to the crew in a step: it stays within the one there was, or
\* it is the creator, or a join that has the lock takes its place.
LEMMA CrewMoves ==
  ASSUME TeamsInv, [TeamsNext]_teamVars
  PROVE  \/ Crew' \subseteq Crew /\ \A u \in Mate : ~ Active(u) => crew'[u] = crew[u]
         \/ \E u \in Mate : CreateTeam(u)
         \/ \E s \in TeamSlot : TakePlace(s)
<1> DEFINE Stays == Crew' \subseteq Crew /\ \A u \in Mate : ~ Active(u) => crew'[u] = crew[u]
<1>1. ASSUME crew' = crew PROVE Stays
  BY <1>1 DEF Crew, Active
<1>2. ASSUME NEW s \in TeamSlot, TeamsNextIn(s) PROVE Stays \/ TakePlace(s)
  <2>1. CASE RoleUpdate(s)
    BY <2>1, RoleUpdateKeepsCrew
  <2>2. CASE RemoveMember(s) \/ LeaveTeam(s)
    BY <2>2, LeavingTakesOneRole
  <2>3. CASE TakePlace(s)
    BY <2>3
  <2>4. CASE ReadPlace(s) \/ RoleRead(s) \/ ArchiveTeam(s) \/ TeamRequestFails(s)
    BY <2>4, <1>1 DEF ReadPlace, RoleRead, ArchiveTeam, TeamRequestFails
  <2>5. ASSUME NEW u \in Mate, LockTeam(s, u) \/ LeaveRead(s, u) \/ ArchiveLoad(s, u)
        PROVE  Stays
    BY <2>5, <1>1 DEF LockTeam, LeaveRead, ArchiveLoad
  <2>6. ASSUME NEW u \in Mate, NEW caller \in Mate,
               RemoveLoad(s, caller, u) \/ \E r \in Role : RoleLoad(s, caller, u, r)
        PROVE  Stays
    BY <2>6, <1>1 DEF RemoveLoad, RoleLoad
  <2> QED
    BY <1>2, <2>1, <2>2, <2>3, <2>4, <2>5, <2>6 DEF TeamsNextIn
<1>3. CASE UNCHANGED teamVars
  BY <1>3, <1>1 DEF teamVars
<1> QED
  BY <1>2, <1>3, NextBySlot

(* The variables have their types for every number of accounts, requests   *)
(* and places.                                                             *)
THEOREM TeamsTyping == TeamsSpec => []TeamsTypeOK
<1>1. TeamsInv => TeamsTypeOK
  BY DEF TeamsInv
<1> QED
  BY AlwaysInv, <1>1, PTL

(* A team keeps exactly one lead and it is its creator: each request that  *)
(* could take the role away was started for somebody else, and one that    *)
(* would give it to somebody else fails on the unique index.               *)
THEOREM TheOneLead == TeamsSpec => []OneLead
<1>1. TeamsInv => OneLead
  BY DEF TeamsInv, TeamsTypeOK, OnlyCreatorLeads, OneLead, Leads
<1> QED
  BY AlwaysInv, <1>1, PTL

(* The members of a team never pass its limit: only the join that holds    *)
(* the lock adds one, after a count that nobody else can make larger.      *)
THEOREM CrewLimit == TeamsSpec => []CrewWithinLimit
<1>1. TeamsInit => CrewWithinLimit
  <2> SUFFICES ASSUME TeamsInit PROVE CrewWithinLimit
    OBVIOUS
  <2>1. Crew = {}
    BY DEF TeamsInit, Crew, Active, Role
  <2> QED
    BY <2>1, FS_EmptySet, TeamsAssumption DEF CrewWithinLimit
<1>2. TeamsInv /\ CrewWithinLimit /\ [TeamsNext]_teamVars => CrewWithinLimit'
  <2> SUFFICES ASSUME TeamsInv, CrewWithinLimit, [TeamsNext]_teamVars
               PROVE  CrewWithinLimit'
    OBVIOUS
  <2>1. CASE Crew' \subseteq Crew
    BY <2>1, CrewShrinks, CrewIsFinite, TeamsAssumption DEF CrewWithinLimit
  <2>2. ASSUME NEW u \in Mate, CreateTeam(u) PROVE CrewWithinLimit'
    <3>1. Crew = {} /\ Crew' \subseteq Crew \cup {u}
      BY <2>2 DEF CreateTeam, TeamsInv, TeamsTypeOK, OnlyCreatorLeads, Crew, Active, Role
    <3>2. Cardinality(Crew) = 0
      BY <3>1, FS_EmptySet
    <3> QED
      BY <3>1, <3>2, CrewGrowsByOne, TeamsAssumption DEF CrewWithinLimit
  <2>3. ASSUME NEW s \in TeamSlot, TakePlace(s) PROVE CrewWithinLimit'
    <3>1. Cardinality(Crew) < TeamLimit /\ treq[s].user \in Mate
      BY <2>3 DEF TakePlace, TeamsInv, PlaceIsFree, LeadIsSafe
    <3>2. Crew' \subseteq Crew \cup {treq[s].user}
      BY <2>3, <3>1 DEF TakePlace, TeamsInv, TeamsTypeOK, Crew, Active
    <3> QED
      BY <3>1, <3>2, CrewGrowsByOne, CrewIsFinite, TeamsAssumption DEF CrewWithinLimit
  <2> QED
    BY <2>1, <2>2, <2>3, CrewMoves
<1> QED
  BY AlwaysInv, <1>1, <1>2, PTL DEF TeamsSpec

(* An archived team takes nobody in: a join has its place before the       *)
(* archiving, which waits for it, or finds the team archived.              *)
THEOREM ArchivedTeams == TeamsSpec => ArchivedTeamTakesNobody
<1>1. TeamsInv /\ [TeamsNext]_teamVars => [archived => Crew' \subseteq Crew]_teamVars
  <2> SUFFICES ASSUME TeamsInv, [TeamsNext]_teamVars, archived PROVE Crew' \subseteq Crew
    OBVIOUS
  <2>1. ~ \E u \in Mate : CreateTeam(u)
    BY DEF TeamsInv, ArchivedIsClosed, CreateTeam
  <2>2. ~ \E s \in TeamSlot : TakePlace(s)
    BY DEF TeamsInv, ArchivedIsClosed, LockedByJoin, TakePlace
  <2> QED
    BY <2>1, <2>2, CrewMoves
<1> QED
  BY AlwaysInv, <1>1, PTL DEF TeamsSpec, ArchivedTeamTakesNobody

(* Who was removed stays removed: a join that read the row before refuses  *)
(* it, and none can hold the row of an active member while it is removed   *)
(* and write afterwards.                                                   *)
THEOREM RemovedOnes == TeamsSpec => RemovedStaysOut
<1>1. TeamsInv /\ [TeamsNext]_teamVars
        => [\A u \in Mate : crew[u] = "removed" => crew'[u] = "removed"]_teamVars
  <2> SUFFICES ASSUME TeamsInv, [TeamsNext]_teamVars,
                      NEW u \in Mate, crew[u] = "removed"
               PROVE  crew'[u] = "removed"
    OBVIOUS
  <2>1. ~ Active(u)
    BY DEF Active, Role
  <2>2. ASSUME NEW v \in Mate, CreateTeam(v) PROVE FALSE
    BY <2>2 DEF CreateTeam, TeamsInv, OnlyCreatorLeads
  <2>3. ASSUME NEW s \in TeamSlot, TakePlace(s) PROVE crew'[u] = "removed"
    BY <2>3 DEF TakePlace, TeamsInv, TeamsTypeOK, PlaceIsFree
  <2> QED
    BY <2>1, <2>2, <2>3, CrewMoves
<1> QED
  BY AlwaysInv, <1>1, PTL DEF TeamsSpec, RemovedStaysOut

-----------------------------------------------------------------------------
(***************************************************************************)
(* The proofs of a team's goal, for every number of them and of entries,   *)
(* members and requests, while the team goes on as it likes.  What a       *)
(* decision has to show for itself is fixed by the request that writes it, *)
(* before it writes; so the invariant speaks of the requests.              *)
(***************************************************************************)

allVars == <<teamVars, proofVars>>

AllNext ==
    \/ TeamsNext /\ UNCHANGED proofVars
    \/ TeamProofNext /\ UNCHANGED teamVars

Approver == {"lead", "trusted_approver"}

\* A request about to decide carries the role it read, and one about to
\* reject has left its review.
DecisionsAreReady ==
    \A s \in ProofSlot :
        /\ preq[s].step \in {"member", "review", "decide"} =>
             preq[s].proof \in Proof /\ preq[s].decision \in Decided
        /\ preq[s].step \in {"review", "decide"} => preq[s].role \in Approver
        /\ preq[s].step = "decide" /\ preq[s].decision = "rejected" =>
             preq[s].proof \in noted

ProofInv ==
    /\ TeamProofTypeOK
    /\ DecisionsAreReady
    /\ ProofDecisionOnRecord
    /\ \A p \in Proof : proofs[p] = NoRow => claims[p] = {}
    /\ EntryInOneProof

-----------------------------------------------------------------------------

LEMMA ProofInitInv == TeamProofInit => ProofInv
<1> SUFFICES ASSUME TeamProofInit PROVE ProofInv
  OBVIOUS
<1>1. TeamProofTypeOK
  BY DEF TeamProofInit, TeamProofTypeOK, ProofRequest, IdleProofRequest, NoRow
<1> QED
  BY <1>1 DEF TeamProofInit, ProofInv, DecisionsAreReady, ProofDecisionOnRecord,
     EntryInOneProof, IdleProofRequest, NoRow, Decided

LEMMA SubmissionInv ==
  ASSUME ProofInv, NEW s \in ProofSlot,
         \/ \E E \in SUBSET Entry, evidence \in BOOLEAN : SubmitLoad(s, E, evidence)
         \/ \E p \in Proof : CreateProof(s, p)
  PROVE  ProofInv'
<1> USE DEF ProofInv
<1>1. ASSUME NEW E \in SUBSET Entry, NEW evidence \in BOOLEAN, SubmitLoad(s, E, evidence)
      PROVE  ProofInv'
  <2>1. /\ preq' = [preq EXCEPT ![s].step = "create", ![s].entries = E]
        /\ UNCHANGED <<author, proofs, used, claims, noted, vouched>>
    BY <1>1 DEF SubmitLoad
  <2>2. TeamProofTypeOK'
    <3> DEFINE r == [preq[s] EXCEPT !.step = "create", !.entries = E]
    <3>1. r \in ProofRequest
      BY <2>1 DEF TeamProofTypeOK, ProofRequest
    <3>2. preq' = [preq EXCEPT ![s] = r]
      BY <2>1
    <3> QED
      BY <2>1, <3>1, <3>2 DEF TeamProofTypeOK
  <2>3. DecisionsAreReady'
    BY <2>1 DEF ProofRequest, DecisionsAreReady, TeamProofTypeOK
  <2> QED
    BY <2>1, <2>2, <2>3 DEF ProofDecisionOnRecord, EntryInOneProof
<1>2. ASSUME NEW p \in Proof, CreateProof(s, p) PROVE ProofInv'
  <2> DEFINE E == preq[s].entries
  <2>1. /\ proofs[p] = NoRow /\ \A e \in E : used[e] = NoProof /\ E \subseteq Entry
        /\ proofs' = [proofs EXCEPT ![p].status = "submitted"]
        /\ used' = [e \in Entry |-> IF e \in E THEN p ELSE used[e]]
        /\ claims' = [claims EXCEPT ![p] = E]
        /\ preq' = [preq EXCEPT ![s] = IdleProofRequest]
        /\ UNCHANGED <<author, noted, vouched>>
    BY <1>2 DEF CreateProof, EndProofRequest, ProofRequest, TeamProofTypeOK
  <2>2. TeamProofTypeOK'
    BY <2>1 DEF TeamProofTypeOK, ProofRequest, IdleProofRequest, NoRow
  <2>3. DecisionsAreReady'
    BY <2>1 DEF DecisionsAreReady, TeamProofTypeOK, ProofRequest, IdleProofRequest
  <2>4. \A q \in Proof : proofs'[q] = IF q = p THEN [proofs[p] EXCEPT !.status = "submitted"]
                                               ELSE proofs[q]
    BY <2>1 DEF TeamProofTypeOK
  <2>5. proofs'[p].status = "submitted"
    BY <2>1, <2>4 DEF NoRow
  <2>6. ProofDecisionOnRecord'
    BY <2>1, <2>4, <2>5 DEF ProofDecisionOnRecord, Decided
  <2>7. \A q \in Proof : proofs'[q] = NoRow => claims'[q] = {}
    BY <2>1, <2>4, <2>5 DEF NoRow, TeamProofTypeOK
  <2>8. EntryInOneProof'
    <3> SUFFICES ASSUME NEW q \in Proof, NEW e \in Entry, e \in claims'[q]
                 PROVE  used'[e] = q
      BY DEF EntryInOneProof
    <3>1. CASE q = p
      BY <2>1, <3>1 DEF TeamProofTypeOK
    <3>2. CASE q # p
      <4>1. e \in claims[q]
        BY <2>1, <3>2 DEF TeamProofTypeOK
      <4>2. used[e] = q
        BY <4>1 DEF EntryInOneProof
      <4>3. e \notin E
        BY <2>1, <4>2, TeamProofAssumption
      <4> QED
        BY <2>1, <4>2, <4>3
    <3> QED
      BY <3>1, <3>2
  <2> QED
    BY <2>2, <2>3, <2>6, <2>7, <2>8
<1> QED
  BY <1>1, <1>2

LEMMA ReviewInv ==
  ASSUME ProofInv, NEW s \in ProofSlot,
         \/ \E u \in Mate, p \in Proof, d \in Decided : ReviewLoad(s, u, p, d)
         \/ ReviewMembership(s) \/ RecordReject(s)
         \/ UpdateProofStatus(s) \/ ProofRequestFails(s)
  PROVE  ProofInv'
<1> USE DEF ProofInv
<1>1. preq \in [ProofSlot -> ProofRequest]
  BY DEF TeamProofTypeOK
<1>2. ASSUME NEW u \in Mate, NEW p \in Proof, NEW d \in Decided, ReviewLoad(s, u, p, d)
      PROVE  ProofInv'
  <2>1. /\ preq' = [preq EXCEPT ![s].step = "member", ![s].user = u,
                                ![s].proof = p, ![s].decision = d]
        /\ UNCHANGED <<author, proofs, used, claims, noted, vouched>>
    BY <1>2 DEF ReviewLoad
  <2>2. TeamProofTypeOK'
    <3> DEFINE r == [preq[s] EXCEPT !.step = "member", !.user = u, !.proof = p, !.decision = d]
    <3>1. r \in ProofRequest
      BY <2>1 DEF TeamProofTypeOK, ProofRequest
    <3>2. preq' = [preq EXCEPT ![s] = r]
      BY <2>1
    <3> QED
      BY <2>1, <3>1, <3>2 DEF TeamProofTypeOK
  <2>3. DecisionsAreReady'
    BY <1>1, <2>1 DEF ProofRequest, DecisionsAreReady
  <2> QED
    BY <2>1, <2>2, <2>3 DEF ProofDecisionOnRecord, EntryInOneProof
<1>3. CASE ReviewMembership(s)
  <2>1. /\ preq[s].step = "member" /\ crew[preq[s].user] \in Approver
        /\ preq' = [preq EXCEPT ![s].role = crew[preq[s].user],
             ![s].step = IF preq[s].decision = "rejected" THEN "review" ELSE "decide"]
        /\ UNCHANGED <<author, proofs, used, claims, noted, vouched>>
    BY <1>3 DEF ReviewMembership, CanApproveProof, Approver
  <2>2. TeamProofTypeOK'
    <3> DEFINE r == [preq[s] EXCEPT !.role = crew[preq[s].user],
                      !.step = IF preq[s].decision = "rejected" THEN "review" ELSE "decide"]
    <3>1. r \in ProofRequest
      BY <2>1 DEF TeamProofTypeOK, ProofRequest, Approver, Role
    <3>2. preq' = [preq EXCEPT ![s] = r]
      BY <2>1
    <3> QED
      BY <2>1, <3>1, <3>2 DEF TeamProofTypeOK
  <2>3. DecisionsAreReady'
    BY <1>1, <2>1 DEF ProofRequest, DecisionsAreReady
  <2> QED
    BY <2>1, <2>2, <2>3 DEF ProofDecisionOnRecord, EntryInOneProof
<1>4. CASE RecordReject(s)
  <2>1. /\ preq[s].step = "review" /\ preq[s].proof \in Proof
        /\ noted' = noted \cup {preq[s].proof}
        /\ preq' = [preq EXCEPT ![s].step = "decide"]
        /\ UNCHANGED <<author, proofs, used, claims, vouched>>
    BY <1>4 DEF RecordReject, DecisionsAreReady
  <2>2. TeamProofTypeOK'
    <3> DEFINE r == [preq[s] EXCEPT !.step = "decide"]
    <3>1. r \in ProofRequest
      BY <2>1 DEF TeamProofTypeOK, ProofRequest
    <3>2. preq' = [preq EXCEPT ![s] = r]
      BY <2>1
    <3> QED
      BY <2>1, <3>1, <3>2 DEF TeamProofTypeOK
  <2>3. DecisionsAreReady'
    BY <1>1, <2>1 DEF ProofRequest, DecisionsAreReady
  <2> QED
    BY <2>1, <2>2, <2>3 DEF ProofDecisionOnRecord, EntryInOneProof
<1>5. CASE UpdateProofStatus(s)
  <2> DEFINE r == preq[s]
  <2>1. /\ r.step = "decide"
        /\ proofs' = [proofs EXCEPT ![r.proof] = [status |-> r.decision, role |-> r.role]]
        /\ preq' = [preq EXCEPT ![s] = IdleProofRequest]
        /\ UNCHANGED <<author, used, claims, noted, vouched>>
    BY <1>5 DEF UpdateProofStatus, EndProofRequest
  <2>2. /\ r.proof \in Proof /\ r.decision \in Decided /\ r.role \in Approver
        /\ r.decision = "rejected" => r.proof \in noted
    BY <2>1 DEF DecisionsAreReady
  <2>3. TeamProofTypeOK'
    BY <2>1, <2>2 DEF TeamProofTypeOK, ProofRequest, IdleProofRequest, Approver, Role
  <2>4. DecisionsAreReady'
    BY <1>1, <2>1 DEF ProofRequest, DecisionsAreReady, IdleProofRequest
  <2>5. \A q \in Proof : proofs'[q] = IF q = r.proof
                                      THEN [status |-> r.decision, role |-> r.role]
                                      ELSE proofs[q]
    BY <2>1 DEF TeamProofTypeOK
  <2>6. ProofDecisionOnRecord'
    BY <2>1, <2>2, <2>5 DEF ProofDecisionOnRecord, Approver
  <2>7. \A q \in Proof : proofs'[q] = NoRow => proofs[q] = NoRow
    BY <2>2, <2>5 DEF NoRow, Decided
  <2> QED
    BY <2>1, <2>3, <2>4, <2>6, <2>7 DEF EntryInOneProof
<1>6. CASE ProofRequestFails(s)
  <2>1. /\ preq' = [preq EXCEPT ![s] = IdleProofRequest]
        /\ UNCHANGED <<author, proofs, used, claims, noted, vouched>>
    BY <1>6 DEF ProofRequestFails, EndProofRequest
  <2>2. TeamProofTypeOK'
    BY <2>1 DEF TeamProofTypeOK, ProofRequest, IdleProofRequest
  <2>3. DecisionsAreReady'
    BY <1>1, <2>1 DEF ProofRequest, DecisionsAreReady, IdleProofRequest
  <2> QED
    BY <2>1, <2>2, <2>3 DEF ProofDecisionOnRecord, EntryInOneProof
<1> QED
  BY <1>2, <1>3, <1>4, <1>5, <1>6

LEMMA InitiativeInv ==
  ASSUME ProofInv, NEW u \in Mate, NEW p \in Proof, InitiativeApprove(u, p)
  PROVE  ProofInv'
<1> USE DEF ProofInv
<1> DEFINE row == [proofs[p] EXCEPT !.status = "approved"]
<1>1. /\ proofs' = [proofs EXCEPT ![p] = row] /\ vouched' = vouched \cup {p}
      /\ UNCHANGED <<author, used, claims, noted, preq>>
  BY DEF InitiativeApprove
<1>2. row.status = "approved" /\ row \in [status : {"absent", "submitted"} \cup Decided,
                                          role : Role \cup {"none"}]
  BY DEF TeamProofTypeOK, Decided
<1>3. row # NoRow
  BY <1>2 DEF NoRow
<1> HIDE DEF row
<1>4. \A q \in Proof : proofs'[q] = IF q = p THEN row ELSE proofs[q]
  BY <1>1 DEF TeamProofTypeOK
<1>5. TeamProofTypeOK'
  BY <1>1, <1>2 DEF TeamProofTypeOK
<1>6. DecisionsAreReady' /\ EntryInOneProof'
  BY <1>1 DEF DecisionsAreReady, EntryInOneProof
<1>7. ProofDecisionOnRecord'
  BY <1>1, <1>2, <1>4 DEF ProofDecisionOnRecord
<1>8. \A q \in Proof : proofs'[q] = NoRow => claims'[q] = {}
  BY <1>1, <1>3, <1>4
<1> QED
  BY <1>5, <1>6, <1>7, <1>8

LEMMA ProofStepInv == ProofInv /\ [AllNext]_allVars => ProofInv'
<1> SUFFICES ASSUME ProofInv, [AllNext]_allVars PROVE ProofInv'
  OBVIOUS
<1>1. CASE UNCHANGED proofVars
  BY <1>1 DEF ProofInv, TeamProofTypeOK, DecisionsAreReady, ProofDecisionOnRecord,
     EntryInOneProof, proofVars
<1>2. CASE TeamProofNext
  <2>1. ASSUME NEW s \in ProofSlot,
               \/ \E E \in SUBSET Entry, evidence \in BOOLEAN : SubmitLoad(s, E, evidence)
               \/ \E p \in Proof : CreateProof(s, p)
        PROVE  ProofInv'
    BY <2>1, SubmissionInv
  <2>2. ASSUME NEW s \in ProofSlot,
               \/ \E u \in Mate, p \in Proof, d \in Decided : ReviewLoad(s, u, p, d)
               \/ ReviewMembership(s) \/ RecordReject(s)
               \/ UpdateProofStatus(s) \/ ProofRequestFails(s)
        PROVE  ProofInv'
    BY <2>2, ReviewInv
  <2>3. ASSUME NEW u \in Mate, NEW p \in Proof, InitiativeApprove(u, p) PROVE ProofInv'
    BY <2>3, InitiativeInv
  <2> QED
    BY <1>2, <2>1, <2>2, <2>3 DEF TeamProofNext, SubmissionsNext, ReviewsNext
<1> QED
  BY <1>1, <1>2 DEF AllNext, allVars

LEMMA AlwaysProofInv == TeamProofSpec => []ProofInv
BY ProofInitInv, ProofStepInv, PTL DEF TeamProofSpec, AllNext, allVars

-----------------------------------------------------------------------------
(* What authors and teams can rely on.                                     *)

(* Of proofs submitted with one entry at the same time only one exists,    *)
(* for every number of proofs: the update that consumes the entries counts *)
(* the rows it changed, and the transaction with too few is given up.      *)
THEOREM OneProofPerEntry == TeamProofSpec => []EntryInOneProof
<1>1. ProofInv => EntryInOneProof
  BY DEF ProofInv
<1> QED
  BY AlwaysProofInv, <1>1, PTL

(* However approvals and rejections overwrite one another, and whatever    *)
(* becomes of the reviewer's role meanwhile, a rejected proof has a review *)
(* and names a role that may reject it; an approved one names a role that  *)
(* may approve it, or it was approved through an initiative.               *)
THEOREM DecisionsBacked == TeamProofSpec => []ProofDecisionOnRecord
<1>1. ProofInv => ProofDecisionOnRecord
  BY DEF ProofInv
<1> QED
  BY AlwaysProofInv, <1>1, PTL

(* Once the requests that had read a proof before its decision are done,   *)
(* the decision is final.                                                  *)
THEOREM ProofsSettle == TeamProofSpec => ProofSettled
<1>1. ProofInv /\ [AllNext]_allVars
        => [\A p \in Proof :
              proofs[p].status \in Decided /\ ReviewsOf(p) = {}
              => proofs'[p] = proofs[p] /\ ReviewsOf(p)' = {}]_proofVars
  <2> SUFFICES ASSUME ProofInv, [AllNext]_allVars, ~ UNCHANGED proofVars,
                      NEW p \in Proof, proofs[p].status \in Decided, ReviewsOf(p) = {}
               PROVE  proofs'[p] = proofs[p] /\ ReviewsOf(p)' = {}
    OBVIOUS
  <2>1. preq \in [ProofSlot -> ProofRequest] /\ DOMAIN proofs = Proof
    BY DEF ProofInv, TeamProofTypeOK
  <2>2. proofs[p] # NoRow /\ proofs[p].status # "submitted"
    BY DEF NoRow, Decided
  <2>3. \A s \in ProofSlot : preq[s].proof # p
    BY DEF ReviewsOf
  <2>a. ASSUME NEW u \in Mate, NEW q \in Proof, InitiativeApprove(u, q)
        PROVE  proofs'[p] = proofs[p] /\ ReviewsOf(p)' = {}
    <3>1. p # q
      BY <2>2, <2>a DEF InitiativeApprove
    <3> QED
      BY <2>1, <2>a, <3>1 DEF InitiativeApprove, ReviewsOf
  <2>b. SUFFICES ASSUME ~ \E u \in Mate, q \in Proof : InitiativeApprove(u, q)
                 PROVE  proofs'[p] = proofs[p] /\ ReviewsOf(p)' = {}
    BY <2>a
  <2>4. PICK s \in ProofSlot :
          \/ \E E \in SUBSET Entry, evidence \in BOOLEAN : SubmitLoad(s, E, evidence)
          \/ \E q \in Proof : CreateProof(s, q)
          \/ \E u \in Mate, q \in Proof, d \in Decided : ReviewLoad(s, u, q, d)
          \/ ReviewMembership(s) \/ RecordReject(s)
          \/ UpdateProofStatus(s) \/ ProofRequestFails(s)
    <3>1. TeamProofNext
      BY DEF AllNext, allVars
    <3> QED
      BY <2>b, <3>1, Zenon DEF TeamProofNext, SubmissionsNext, ReviewsNext
  <2>5. ASSUME proofs'[p] = proofs[p], \A t \in ProofSlot : preq'[t].proof # p
        PROVE  proofs'[p] = proofs[p] /\ ReviewsOf(p)' = {}
    BY <2>5 DEF ReviewsOf
  <2>6. CASE \E E \in SUBSET Entry, evidence \in BOOLEAN : SubmitLoad(s, E, evidence)
    BY <2>1, <2>3, <2>5, <2>6 DEF SubmitLoad
  <2>7. ASSUME NEW q \in Proof, CreateProof(s, q)
        PROVE  proofs'[p] = proofs[p] /\ ReviewsOf(p)' = {}
    <3>1. p # q
      BY <2>2, <2>7 DEF CreateProof
    <3> QED
      BY <2>1, <2>3, <2>5, <2>7, <3>1, TeamProofAssumption
      DEF CreateProof, EndProofRequest, IdleProofRequest
  <2>8. ASSUME NEW u \in Mate, NEW q \in Proof, NEW d \in Decided, ReviewLoad(s, u, q, d)
        PROVE  proofs'[p] = proofs[p] /\ ReviewsOf(p)' = {}
    <3>1. p # q
      BY <2>2, <2>8 DEF ReviewLoad
    <3> QED
      BY <2>1, <2>3, <2>5, <2>8, <3>1 DEF ReviewLoad
  <2>9. CASE ReviewMembership(s) \/ RecordReject(s)
    BY <2>1, <2>3, <2>5, <2>9 DEF ProofRequest, ReviewMembership, RecordReject
  <2>10. CASE UpdateProofStatus(s) \/ ProofRequestFails(s)
    BY <2>1, <2>3, <2>5, <2>10, TeamProofAssumption
    DEF UpdateProofStatus, ProofRequestFails, EndProofRequest, IdleProofRequest
  <2> QED
    BY <2>4, <2>6, <2>7, <2>8, <2>9, <2>10
<1> QED
  BY AlwaysProofInv, <1>1, PTL DEF TeamProofSpec, ProofSettled, AllNext, allVars

=============================================================================
