-------------------------------- MODULE Teams --------------------------------
(***************************************************************************)
(* A team: its memberships and its lead.  Joining locks the team's row for *)
(* the whole transaction; leaving, removing and changing a role lock only  *)
(* the membership they write, after reads of their own.                    *)
(***************************************************************************)
EXTENDS Naturals, FiniteSets

CONSTANTS
    Mate,        \* registered accounts
    TeamSlot,    \* requests of this service that can be in flight
    TeamLimit,   \* DefaultMemberLimit
    NoMate       \* no account

ASSUME TeamsAssumption ==
    /\ IsFiniteSet(Mate)
    /\ TeamLimit \in Nat \ {0}
    /\ NoMate \notin Mate

VARIABLES
    lead,      \* lead_user_id of the team, NoMate before it exists
    crew,      \* team_memberships: the role of an active row, or its status
    archived,  \* archived_at is set
    held,      \* the join that has locked the row of the team
    treq       \* what each in-flight request has read and will do next

teamVars == <<lead, crew, archived, held, treq>>

Role == {"lead", "trusted_approver", "member"}

Seat == Role \cup {"none", "left", "removed"}

TeamRequest == [step : {"idle", "read", "write", "role", "setrole", "remove",
                        "leave", "archive"},
                user : Mate \cup {NoMate}, role : Role]

IdleTeamRequest == [step |-> "idle", user |-> NoMate, role |-> "member"]

TeamsTypeOK ==
    /\ lead \in Mate \cup {NoMate}
    /\ crew \in [Mate -> Seat]
    /\ archived \in BOOLEAN
    /\ held \in SUBSET TeamSlot
    /\ treq \in [TeamSlot -> TeamRequest]

TeamsInit ==
    /\ lead = NoMate
    /\ crew = [u \in Mate |-> "none"]
    /\ archived = FALSE
    /\ held = {}
    /\ treq = [s \in TeamSlot |-> IdleTeamRequest]

-----------------------------------------------------------------------------
(* Helpers.                                                                *)

Active(u) == crew[u] \in Role

Crew == {u \in Mate : Active(u)}

Leads == {u \in Mate : crew[u] = "lead"}

CanManageTeam(u) == crew[u] = "lead"

BeginTeamRequest(s, step, u, role) ==
    /\ treq[s].step = "idle"
    /\ treq' = [treq EXCEPT ![s] = [step |-> step, user |-> u, role |-> role]]

TeamRequestAt(s, step) == treq' = [treq EXCEPT ![s].step = step]

EndTeamRequest(s) == treq' = [treq EXCEPT ![s] = IdleTeamRequest]

-----------------------------------------------------------------------------

\* The team and the membership of its lead, one transaction.
CreateTeam(u) ==
    /\ lead = NoMate
    /\ lead' = u
    /\ crew' = [crew EXCEPT ![u] = "lead"]
    /\ UNCHANGED <<archived, held, treq>>

-----------------------------------------------------------------------------
(* JoinTeam: lock the team by its code, read, write, commit.               *)

\* Mutant: the team is read without FOR UPDATE.
LockTeamNoLock(s, u) ==
    /\ lead # NoMate /\ ~ archived
    /\ BeginTeamRequest(s, "read", u, "member")
    /\ held' = held \cup {s}
    /\ UNCHANGED <<lead, crew, archived>>

LockTeam(s, u) ==
    /\ lead # NoMate /\ ~ archived
    /\ held = {}
    /\ BeginTeamRequest(s, "read", u, "member")
    /\ held' = held \cup {s}
    /\ UNCHANGED <<lead, crew, archived>>

\* The caller's row and the count of active ones.  An active member is done
\* and a removed one is refused: both end the transaction without a write.
ReadPlace(s) ==
    /\ treq[s].step = "read"
    /\ crew[treq[s].user] \in {"none", "left"}
    /\ Cardinality(Crew) < TeamLimit
    /\ TeamRequestAt(s, "write")
    /\ UNCHANGED <<lead, crew, archived, held>>

\* A new row, or the old one opened again by its id.
TakePlace(s) ==
    /\ treq[s].step = "write"
    /\ crew' = [crew EXCEPT ![treq[s].user] = "member"]
    /\ held' = held \ {s}
    /\ EndTeamRequest(s)
    /\ UNCHANGED <<lead, archived>>

-----------------------------------------------------------------------------
(* ChangeMemberRole.                                                       *)

\* The caller's membership.
RoleLoad(s, caller, u, role) ==
    /\ CanManageTeam(caller)
    /\ caller = u => role = "lead"
    /\ BeginTeamRequest(s, "role", u, role)
    /\ UNCHANGED <<lead, crew, archived, held>>

\* The target's row; a lead is only demoted when there is another one.
RoleRead(s) ==
    LET r == treq[s] IN
    /\ r.step = "role"
    /\ Active(r.user)
    /\ crew[r.user] = "lead" /\ r.role # "lead" => Leads \ {r.user} # {}
    /\ TeamRequestAt(s, "setrole")
    /\ UNCHANGED <<lead, crew, archived, held>>

\* Mutant: no unique index on the lead of a team.
RoleUpdateNoIndex(s) ==
    LET r == treq[s] IN
    /\ r.step = "setrole"
    /\ crew' = IF Active(r.user) THEN [crew EXCEPT ![r.user] = r.role] ELSE crew
    /\ EndTeamRequest(s)
    /\ UNCHANGED <<lead, archived, held>>

\* WHERE status = 'active', under uq_team_one_lead.
RoleUpdate(s) ==
    LET r == treq[s] IN
    /\ r.step = "setrole"
    /\ Active(r.user) /\ r.role = "lead" => Leads \subseteq {r.user}
    /\ crew' = IF Active(r.user) THEN [crew EXCEPT ![r.user] = r.role] ELSE crew
    /\ EndTeamRequest(s)
    /\ UNCHANGED <<lead, archived, held>>

-----------------------------------------------------------------------------
(* RemoveMember, LeaveTeam, ArchiveTeam.                                   *)

RemoveLoad(s, caller, u) ==
    /\ CanManageTeam(caller)
    /\ caller # u
    /\ BeginTeamRequest(s, "remove", u, "member")
    /\ UNCHANGED <<lead, crew, archived, held>>

RemoveMember(s) ==
    /\ treq[s].step = "remove"
    /\ Active(treq[s].user)
    /\ crew' = [crew EXCEPT ![treq[s].user] = "removed"]
    /\ EndTeamRequest(s)
    /\ UNCHANGED <<lead, archived, held>>

\* The role of the caller, and for a lead the other leads.
LeaveRead(s, u) ==
    /\ Active(u)
    /\ crew[u] = "lead" => Leads \ {u} # {}
    /\ BeginTeamRequest(s, "leave", u, "member")
    /\ UNCHANGED <<lead, crew, archived, held>>

LeaveTeam(s) ==
    /\ treq[s].step = "leave"
    /\ crew' = IF Active(treq[s].user) THEN [crew EXCEPT ![treq[s].user] = "left"] ELSE crew
    /\ EndTeamRequest(s)
    /\ UNCHANGED <<lead, archived, held>>

ArchiveLoad(s, caller) ==
    /\ CanManageTeam(caller)
    /\ BeginTeamRequest(s, "archive", caller, "member")
    /\ UNCHANGED <<lead, crew, archived, held>>

\* Mutant: the update does not wait for the joins that hold the row.
ArchiveTeamAtOnce(s) ==
    /\ treq[s].step = "archive"
    /\ archived' = TRUE
    /\ EndTeamRequest(s)
    /\ UNCHANGED <<lead, crew, held>>

\* The row of the team, so it waits for a join that has locked it.
ArchiveTeam(s) ==
    /\ treq[s].step = "archive"
    /\ held = {}
    /\ archived' = TRUE
    /\ EndTeamRequest(s)
    /\ UNCHANGED <<lead, crew, held>>

\* A refusal, an error or a killed process: the transaction rolls back.
TeamRequestFails(s) ==
    /\ treq[s].step # "idle"
    /\ held' = held \ {s}
    /\ EndTeamRequest(s)
    /\ UNCHANGED <<lead, crew, archived>>

TeamsNext ==
    \/ \E u \in Mate : CreateTeam(u)
    \/ \E s \in TeamSlot :
         \/ ReadPlace(s)
         \/ TakePlace(s)
         \/ RoleRead(s)
         \/ RoleUpdate(s)
         \/ RemoveMember(s)
         \/ LeaveTeam(s)
         \/ ArchiveTeam(s)
         \/ TeamRequestFails(s)
         \/ \E u \in Mate :
              \/ LockTeam(s, u)
              \/ LeaveRead(s, u)
              \/ ArchiveLoad(s, u)
              \/ \E caller \in Mate : \/ RemoveLoad(s, caller, u)
                                      \/ \E r \in Role : RoleLoad(s, caller, u, r)

TeamsSpec == TeamsInit /\ [][TeamsNext]_teamVars

-----------------------------------------------------------------------------
(* Properties.                                                             *)

(* Joins are serialised by the lock on the team's row, so the number of    *)
(* active members never passes the limit, whoever leaves, is removed or    *)
(* changes role between the statements of a join.                          *)
CrewWithinLimit == Cardinality(Crew) <= TeamLimit

(* A team has exactly one lead, and it is the one who created it: nothing  *)
(* demotes, removes or lets go an only lead, and the unique index lets     *)
(* nobody become a second one, so there is never another lead to leave to. *)
OneLead == lead # NoMate => Leads = {lead}

(* Archiving waits for the joins that hold the team's row and later joins  *)
(* find it archived: the active members of an archived team only go.       *)
ArchivedTeamTakesNobody == [][archived => Crew' \subseteq Crew]_teamVars

(* Who was removed by the lead does not come back.                         *)
RemovedStaysOut ==
    [][\A u \in Mate : crew[u] = "removed" => crew'[u] = "removed"]_teamVars

=============================================================================
