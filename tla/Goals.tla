-------------------------------- MODULE Goals --------------------------------
(***************************************************************************)
(* The goals service: a user declares a goal inside a circle and invites a *)
(* buddy; the goal, its pact and its invite are born together, and they    *)
(* become active together when the invited buddy accepts.  Requests run    *)
(* concurrently against PostgreSQL at READ COMMITTED: a request that reads *)
(* first and writes in a later statement is a slot that remembers what it  *)
(* is about to do, and other requests run in between.                      *)
(***************************************************************************)
EXTENDS Naturals, FiniteSets

CONSTANTS
    User,          \* accounts, already registered
    Circle,        \* circle ids, some of them not used yet
    Goal,          \* ids of goals this service creates, each with one pact and
                   \* one invite; joining an initiative inserts others, without
    GoalSlot,      \* requests of this service that can be in flight
    InitMembers,   \* members of each circle at the start; {} = id not used
    RefineLimit,   \* goalRefineRateLimit: refine calls per user and window
    None           \* no value

ASSUME GoalsAssumption ==
    /\ InitMembers \in [Circle -> SUBSET User]
    /\ None \notin User \cup Circle \cup Goal
    /\ IsFiniteSet(GoalSlot)
    /\ RefineLimit \in Nat \ {0}

VARIABLES
    members,  \* circle_memberships: active members of each circle
    goals,    \* the goals table
    pacts,    \* status of the pact of each goal
    invites,  \* status of the invite of each goal
    expired,  \* goals whose invite is past its expires_at
    accepted, \* "invite.accepted" domain events emitted for each goal
    refines,  \* refine calls of each user inside the rate window
    greq      \* what each in-flight request has read and will do next

goalVars == <<members, goals, pacts, invites, expired, accepted, refines, greq>>

GoalStatus == {"absent", "pending_buddy_acceptance", "active"}

GoalRow == [status : GoalStatus, owner : User \cup {None},
            buddy : User \cup {None}, circle : Circle \cup {None}]

NoGoal == [status |-> "absent", owner |-> None, buddy |-> None, circle |-> None]

GoalRequest == [step : {"idle", "insert", "accept", "emit", "log"},
                actor : User \cup {None}, buddy : User \cup {None},
                circle : Circle \cup {None}, goal : Goal \cup {None}]

IdleGoalRequest == [step |-> "idle", actor |-> None, buddy |-> None,
                    circle |-> None, goal |-> None]

GoalsTypeOK ==
    /\ members \in [Circle -> SUBSET User]
    /\ goals \in [Goal -> GoalRow]
    /\ pacts \in [Goal -> {"absent", "invited", "active"}]
    /\ invites \in [Goal -> {"absent", "pending", "accepted"}]
    /\ expired \in SUBSET Goal
    /\ accepted \in [Goal -> Nat]
    /\ refines \in [User -> Nat]
    /\ greq \in [GoalSlot -> GoalRequest]
    /\ \A s \in GoalSlot : LET r == greq[s] IN
         /\ r.step \in {"insert", "log"} => r.actor \in User
         /\ r.step = "insert" => r.buddy \in User /\ r.circle \in Circle
         /\ r.step \in {"accept", "emit"} => r.goal \in Goal

GoalsInit ==
    /\ members = InitMembers
    /\ goals = [g \in Goal |-> NoGoal]
    /\ pacts = [g \in Goal |-> "absent"]
    /\ invites = [g \in Goal |-> "absent"]
    /\ expired = {}
    /\ accepted = [g \in Goal |-> 0]
    /\ refines = [u \in User |-> 0]
    /\ greq = [s \in GoalSlot |-> IdleGoalRequest]

-----------------------------------------------------------------------------
(* Helpers.                                                                *)

Open(g) == goals[g].status \in {"pending_buddy_acceptance", "active"}

OpenGoalIn(c, u) ==
    \E g \in Goal : Open(g) /\ goals[g].circle = c /\ goals[g].owner = u

IdleGoalSlot(s) == greq[s].step = "idle"

EndGoalRequest(s) == greq' = [greq EXCEPT ![s] = IdleGoalRequest]

\* Goal, pact and invite rows, inserted by one transaction.
InsertGoalRows(g, u, b, c) ==
    /\ goals[g] = NoGoal
    /\ goals' = [goals EXCEPT ![g] = [status |-> "pending_buddy_acceptance",
                                      owner |-> u, buddy |-> b, circle |-> c]]
    /\ pacts' = [pacts EXCEPT ![g] = "invited"]
    /\ invites' = [invites EXCEPT ![g] = "pending"]
    /\ UNCHANGED <<expired, accepted, refines>>

-----------------------------------------------------------------------------
(* CreateGoal.                                                             *)

\* In an existing circle: the three queries that decide.  Memberships are
\* never removed, so reading them with the last query loses no behaviour.
CreateLoad(s, u, b, c) ==
    /\ IdleGoalSlot(s)
    /\ u # b
    /\ {u, b} \subseteq members[c]
    /\ ~ OpenGoalIn(c, u)
    /\ greq' = [greq EXCEPT ![s] = [step |-> "insert", actor |-> u, buddy |-> b,
                                    circle |-> c, goal |-> None]]
    /\ UNCHANGED <<members, goals, pacts, invites, expired, accepted, refines>>

\* Mutant: without the partial unique index the earlier query is all there is.
CreateInsertNoIndex(s, g) ==
    /\ greq[s].step = "insert"
    /\ InsertGoalRows(g, greq[s].actor, greq[s].buddy, greq[s].circle)
    /\ EndGoalRequest(s)
    /\ UNCHANGED members

\* The insert transaction; the index uniq_circle_owner_active_goal rejects a
\* second open goal of the owner in the circle.
CreateInsert(s, g) ==
    /\ greq[s].step = "insert"
    /\ ~ OpenGoalIn(greq[s].circle, greq[s].actor)
    /\ InsertGoalRows(g, greq[s].actor, greq[s].buddy, greq[s].circle)
    /\ EndGoalRequest(s)
    /\ UNCHANGED members

\* Without a circle_id: circle, season, owner membership and goal are inserted
\* by a single transaction that reads nothing first.
CreateInNewCircle(u, b, g, c) ==
    /\ u # b
    /\ members[c] = {}
    /\ members' = [members EXCEPT ![c] = {u}]
    /\ InsertGoalRows(g, u, b, c)
    /\ UNCHANGED greq

-----------------------------------------------------------------------------
(* AcceptInvite.                                                           *)

\* Mutant: the expiry check is missing.
AcceptLoadExpired(s, u, g) ==
    /\ IdleGoalSlot(s)
    /\ invites[g] = "pending"
    /\ u = goals[g].buddy
    /\ greq' = [greq EXCEPT ![s] = [IdleGoalRequest EXCEPT
                                      !.step = "accept", !.actor = u, !.goal = g]]
    /\ UNCHANGED <<members, goals, pacts, invites, expired, accepted, refines>>

\* The invite is read by its token; status, expiry and invitee are checked on
\* what was read.
AcceptLoad(s, u, g) ==
    /\ IdleGoalSlot(s)
    /\ invites[g] = "pending"
    /\ g \notin expired
    /\ u = goals[g].buddy
    /\ greq' = [greq EXCEPT ![s] = [IdleGoalRequest EXCEPT
                                      !.step = "accept", !.actor = u, !.goal = g]]
    /\ UNCHANGED <<members, goals, pacts, invites, expired, accepted, refines>>

\* Mutant: the update of the invite does not ask for status 'pending'.
AcceptWriteUnguarded(s) ==
    LET g == greq[s].goal IN
    /\ greq[s].step = "accept"
    /\ invites' = [invites EXCEPT ![g] = "accepted"]
    /\ pacts' = [pacts EXCEPT ![g] = "active"]
    /\ goals' = [goals EXCEPT ![g].status = "active"]
    /\ greq' = [greq EXCEPT ![s].step = "emit"]
    /\ UNCHANGED <<members, expired, accepted, refines>>

\* Mutant: the transaction forgets the pact.
AcceptWriteNoPact(s) ==
    LET g == greq[s].goal IN
    /\ greq[s].step = "accept"
    /\ invites[g] = "pending"
    /\ invites' = [invites EXCEPT ![g] = "accepted"]
    /\ goals' = [goals EXCEPT ![g].status = "active"]
    /\ greq' = [greq EXCEPT ![s].step = "emit"]
    /\ UNCHANGED <<members, pacts, expired, accepted, refines>>

\* One transaction: invite (only WHERE status='pending'), pact and goal.
AcceptWrite(s) ==
    LET g == greq[s].goal IN
    /\ greq[s].step = "accept"
    /\ invites[g] = "pending"
    /\ invites' = [invites EXCEPT ![g] = "accepted"]
    /\ pacts' = [pacts EXCEPT ![g] = "active"]
    /\ goals' = [goals EXCEPT ![g].status = "active"]
    /\ greq' = [greq EXCEPT ![s].step = "emit"]
    /\ UNCHANGED <<members, expired, accepted, refines>>

\* The event is inserted after the commit, by a statement of its own.
AcceptEmit(s) ==
    /\ greq[s].step = "emit"
    /\ accepted' = [accepted EXCEPT ![greq[s].goal] = @ + 1]
    /\ EndGoalRequest(s)
    /\ UNCHANGED <<members, goals, pacts, invites, expired, refines>>

\* Time passes the expires_at of a pending invite.
InviteExpires(g) ==
    /\ invites[g] = "pending"
    /\ g \notin expired
    /\ expired' = expired \cup {g}
    /\ UNCHANGED <<members, goals, pacts, invites, accepted, refines, greq>>

-----------------------------------------------------------------------------
(* RefineGoal: the rate limit.  The answer of the provider and its cache   *)
(* are not modelled.                                                       *)

RefineCount(s, u) ==
    /\ IdleGoalSlot(s)
    /\ refines[u] < RefineLimit
    /\ greq' = [greq EXCEPT ![s] = [IdleGoalRequest EXCEPT !.step = "log", !.actor = u]]
    /\ UNCHANGED <<members, goals, pacts, invites, expired, accepted, refines>>

RefineLog(s) ==
    /\ greq[s].step = "log"
    /\ refines' = [refines EXCEPT ![greq[s].actor] = @ + 1]
    /\ EndGoalRequest(s)
    /\ UNCHANGED <<members, goals, pacts, invites, expired, accepted>>

\* The oldest logged call leaves the 24 hour window.
RefineWindowMoves(u) ==
    /\ refines[u] > 0
    /\ refines' = [refines EXCEPT ![u] = @ - 1]
    /\ UNCHANGED <<members, goals, pacts, invites, expired, accepted, greq>>

-----------------------------------------------------------------------------
\* A request ends early: a rejected write (unique index, invite no longer
\* pending), a failed statement, a cancelled context or a killed process.
GoalRequestFails(s) ==
    /\ ~ IdleGoalSlot(s)
    /\ EndGoalRequest(s)
    /\ UNCHANGED <<members, goals, pacts, invites, expired, accepted, refines>>

GoalsNext ==
    \/ \E s \in GoalSlot :
         \/ \E u, b \in User, c \in Circle : CreateLoad(s, u, b, c)
         \/ \E g \in Goal : CreateInsert(s, g)
         \/ \E u \in User, g \in Goal : AcceptLoad(s, u, g)
         \/ AcceptWrite(s)
         \/ AcceptEmit(s)
         \/ \E u \in User : RefineCount(s, u)
         \/ RefineLog(s)
         \/ GoalRequestFails(s)
    \/ \E u, b \in User, g \in Goal, c \in Circle : CreateInNewCircle(u, b, g, c)
    \/ \E g \in Goal : InviteExpires(g)
    \/ \E u \in User : RefineWindowMoves(u)

GoalsSpec == GoalsInit /\ [][GoalsNext]_goalVars

-----------------------------------------------------------------------------
(* Properties.                                                             *)

(* The three tables agree at every moment: the goal is active exactly when *)
(* its pact is active exactly when its invite was accepted, and a pending  *)
(* goal has an invited pact and a pending invite (AcceptInvite promises to *)
(* move the three atomically, under concurrent acceptances and failures).  *)
PactAgreement ==
    \A g \in Goal :
        /\ goals[g].status = "active" <=> pacts[g] = "active"
        /\ goals[g].status = "active" <=> invites[g] = "accepted"
        /\ goals[g].status = "absent" <=> pacts[g] = "absent"
        /\ goals[g].status = "absent" <=> invites[g] = "absent"

(* One circle, one open goal per owner, although two requests of the owner *)
(* can both have found none (CreateGoal's "1 circle = 1 goal" invariant).  *)
OneOpenGoalPerCircle ==
    \A g, h \in Goal :
        /\ Open(g) /\ Open(h)
        /\ goals[g].circle = goals[h].circle
        /\ goals[g].owner = goals[h].owner
        => g = h

(* The owner of a goal is a member of its circle, also when the circle was *)
(* created together with the goal; the buddy is someone else.              *)
OwnerSitsInCircle ==
    \A g \in Goal : Open(g) =>
        /\ goals[g].owner \in members[goals[g].circle]
        /\ goals[g].buddy # goals[g].owner

(* The owner hears of an acceptance at most once, and never of one that    *)
(* did not commit: "invite.accepted" is emitted after the transaction, by  *)
(* the one request whose update found the invite pending.                  *)
OneAcceptanceEvent ==
    \A g \in Goal :
        /\ accepted[g] <= 1
        /\ accepted[g] = 1 => goals[g].status = "active"

Accepting(g) == \E s \in GoalSlot : greq[s].step = "accept" /\ greq[s].goal = g

DeadInvite(g) == g \in expired /\ invites[g] = "pending" /\ ~ Accepting(g)

DeathLasts ==
    \A g \in Goal : DeadInvite(g) =>
        /\ DeadInvite(g)'
        /\ OpenGoalIn(goals[g].circle, goals[g].owner)'

(* An invite that expired while nobody was accepting it is dead for good:  *)
(* it is never accepted, and its goal waits for its buddy for ever, in the *)
(* owner's only place in that circle.                                      *)
DeadInviteStaysDead == [][DeathLasts]_goalVars

Refining(u) == {s \in GoalSlot : greq[s].step = "log" /\ greq[s].actor = u}

(* The refine quota, counted and logged in two statements, is overshot by  *)
(* less than the number of requests in flight.                             *)
Quota(u) == INSTANCE CheckThenInsert WITH
    Slot <- GoalSlot, Limit <- RefineLimit,
    count <- refines[u], passed <- Refining(u)

RefineQuota == \A u \in User : Quota(u)!Bounded

=============================================================================
