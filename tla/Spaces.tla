------------------------------- MODULE Spaces ---------------------------------
(***************************************************************************)
(* Community spaces, the initiatives that run in a community or in a team, *)
(* and the goals of those who take part.  A user joins a community with    *)
(* its code and an initiative of a space they belong to; the goal that     *)
(* makes them a participant is written by a statement that is meant to     *)
(* return the one they already have.  Nothing is ever deleted or archived. *)
(* The members of a team are those of Teams; here they come and go.        *)
(***************************************************************************)
EXTENDS Naturals, FiniteSets

CONSTANTS
    Fellow,      \* user ids
    Community,   \* ids of community spaces
    Teamspace,   \* ids of teams
    Slug,        \* names of communities
    Initiative,  \* ids of initiatives
    Part,        \* ids of the goals of participants
    SpaceSlot,   \* requests that can be in flight
    NoPart       \* no row

ASSUME SpacesAssumption ==
    /\ Community \cap Teamspace = {}
    /\ NoPart \notin Part \cup Community \cup Teamspace \cup [owner : Fellow, of : Initiative]

Space == Community \cup Teamspace

VARIABLES
    slugs,        \* community_spaces: the slug of each row
    roll,         \* the active members of each space
    initiatives,  \* initiatives: the space of each row
    parts,        \* goals with an initiative_id
    spreq,        \* what each request does next
    told          \* goals that Join has answered a user with (history)

spaceVars == <<slugs, roll, initiatives, parts, spreq, told>>

IdleSpaceRequest == [step |-> "idle"]

SpaceRequest ==
    [step : {"idle"}]
    \cup [step : {"create"}, user : Fellow, slug : Slug]
    \cup [step : {"member", "add", "propose"}, user : Fellow, space : Space]
    \cup [step : {"check", "join"}, user : Fellow, of : Initiative]
    \cup [step : {"insert"}, user : Fellow, of : Initiative, seen : Part \cup {NoPart}]

SpacesTypeOK ==
    /\ \A c \in DOMAIN slugs : c \in Community /\ slugs[c] \in Slug
    /\ roll \in [Space -> SUBSET Fellow]
    /\ initiatives \in [Initiative -> Space \cup {NoPart}]
    /\ parts \in [Part -> [owner : Fellow, of : Initiative] \cup {NoPart}]
    /\ spreq \in [SpaceSlot -> SpaceRequest]
    /\ told \in [Fellow \X Initiative -> SUBSET Part]

SpacesInit ==
    /\ slugs = << >>
    /\ \E mates \in [Teamspace -> SUBSET Fellow] :
         roll = [sp \in Space |-> IF sp \in Teamspace THEN mates[sp] ELSE {}]
    /\ initiatives = [i \in Initiative |-> NoPart]
    /\ parts = [p \in Part |-> NoPart]
    /\ spreq = [s \in SpaceSlot |-> IdleSpaceRequest]
    /\ told = [ui \in Fellow \X Initiative |-> {}]

\* The goals of user u in initiative i: the partial unique index allows one.
PartsOf(u, i) == {p \in Part : parts[p] = [owner |-> u, of |-> i]}

SlugExists(g) == \E c \in DOMAIN slugs : slugs[c] = g

SpaceRequestAt(s, r) == spreq' = [spreq EXCEPT ![s] = r]

EndSpaceRequest(s) == SpaceRequestAt(s, IdleSpaceRequest)

-----------------------------------------------------------------------------
(* Communities.                                                            *)

CommunityCreateLoad(s, u, g) ==
    /\ spreq[s].step = "idle"
    /\ ~ SlugExists(g)
    /\ SpaceRequestAt(s, [step |-> "create", user |-> u, slug |-> g])
    /\ UNCHANGED <<slugs, roll, initiatives, parts, told>>

\* Space and membership of its leader in one transaction, which the unique
\* constraint refuses if the slug has been taken meanwhile.
CreateCommunity(s, c) ==
    /\ spreq[s].step = "create"
    /\ c \notin DOMAIN slugs
    /\ IF SlugExists(spreq[s].slug)
       THEN UNCHANGED <<slugs, roll>>
       ELSE /\ slugs' = [d \in DOMAIN slugs \cup {c} |->
                           IF d = c THEN spreq[s].slug ELSE slugs[d]]
            /\ roll' = [roll EXCEPT ![c] = {spreq[s].user}]
    /\ EndSpaceRequest(s)
    /\ UNCHANGED <<initiatives, parts, told>>

\* GetByInviteCode, for a code that exists.
JoinCommunityLoad(s, u, c) ==
    /\ spreq[s].step = "idle"
    /\ c \in DOMAIN slugs
    /\ SpaceRequestAt(s, [step |-> "member", user |-> u, space |-> c])
    /\ UNCHANGED <<slugs, roll, initiatives, parts, told>>

GetCommunityMembership(s) ==
    /\ spreq[s].step = "member"
    /\ IF spreq[s].user \in roll[spreq[s].space]
       THEN EndSpaceRequest(s)
       ELSE SpaceRequestAt(s, [spreq[s] EXCEPT !.step = "add"])
    /\ UNCHANGED <<slugs, roll, initiatives, parts, told>>

\* The insert; if the row is there by now, an error.
AddMember(s) ==
    /\ spreq[s].step = "add"
    /\ roll' = [roll EXCEPT ![spreq[s].space] = @ \cup {spreq[s].user}]
    /\ EndSpaceRequest(s)
    /\ UNCHANGED <<slugs, initiatives, parts, told>>

\* Somebody joins or leaves a team.
TeamspaceChanges(t, u) ==
    /\ roll' = [roll EXCEPT ![t] = IF u \in @ THEN @ \ {u} ELSE @ \cup {u}]
    /\ UNCHANGED <<slugs, initiatives, parts, spreq, told>>

-----------------------------------------------------------------------------
(* Initiatives.                                                            *)

InitiativeCreateLoad(s, u, sp) ==
    /\ spreq[s].step = "idle"
    /\ u \in roll[sp]
    /\ SpaceRequestAt(s, [step |-> "propose", user |-> u, space |-> sp])
    /\ UNCHANGED <<slugs, roll, initiatives, parts, told>>

CreateInitiative(s, i) ==
    /\ spreq[s].step = "propose"
    /\ initiatives[i] = NoPart
    /\ initiatives' = [initiatives EXCEPT ![i] = spreq[s].space]
    /\ EndSpaceRequest(s)
    /\ UNCHANGED <<slugs, roll, parts, told>>

\* FindByID.
JoinLoad(s, u, i) ==
    /\ spreq[s].step = "idle"
    /\ initiatives[i] # NoPart
    /\ SpaceRequestAt(s, [step |-> "check", user |-> u, of |-> i])
    /\ UNCHANGED <<slugs, roll, initiatives, parts, told>>

CheckSpaceMembership(s) ==
    /\ spreq[s].step = "check"
    /\ IF spreq[s].user \in roll[initiatives[spreq[s].of]]
       THEN SpaceRequestAt(s, [spreq[s] EXCEPT !.step = "join"])
       ELSE EndSpaceRequest(s)
    /\ UNCHANGED <<slugs, roll, initiatives, parts, told>>

\* JoinOrGet is one statement, an insert and a query, but not one step: the
\* query sees the table as of its snapshot, the insert waits for whoever
\* inserts the same row and then sees it.
JoinSnapshot(s) ==
    /\ spreq[s].step = "join"
    /\ LET r == spreq[s]  mine == PartsOf(r.user, r.of) IN
         \E seen \in IF mine = {} THEN {NoPart} ELSE mine :
           SpaceRequestAt(s, [step |-> "insert", user |-> r.user, of |-> r.of, seen |-> seen])
    /\ UNCHANGED <<slugs, roll, initiatives, parts, told>>

\* Mutant: no unique index, so nothing is ever in conflict.
InsertPartNoIndex(s, p) ==
    /\ spreq[s].step = "insert"
    /\ spreq[s].seen = NoPart
    /\ parts[p] = NoPart
    /\ parts' = [parts EXCEPT ![p] = [owner |-> spreq[s].user, of |-> spreq[s].of]]
    /\ told' = [told EXCEPT ![<<spreq[s].user, spreq[s].of>>] = @ \cup {p}]
    /\ EndSpaceRequest(s)
    /\ UNCHANGED <<slugs, roll, initiatives>>

InsertPart(s, p) ==
    /\ spreq[s].step = "insert"
    /\ PartsOf(spreq[s].user, spreq[s].of) = {}
    /\ parts[p] = NoPart
    /\ parts' = [parts EXCEPT ![p] = [owner |-> spreq[s].user, of |-> spreq[s].of]]
    /\ told' = [told EXCEPT ![<<spreq[s].user, spreq[s].of>>] = @ \cup {p}]
    /\ EndSpaceRequest(s)
    /\ UNCHANGED <<slugs, roll, initiatives>>

\* ON CONFLICT DO NOTHING: the answer is the row that was seen; whoever lost
\* the race to insert it saw none, and ends with an error.
ReturnPart(s) ==
    /\ spreq[s].step = "insert"
    /\ PartsOf(spreq[s].user, spreq[s].of) # {}
    /\ told' = [told EXCEPT ![<<spreq[s].user, spreq[s].of>>] = @ \cup ({spreq[s].seen} \ {NoPart})]
    /\ EndSpaceRequest(s)
    /\ UNCHANGED <<slugs, roll, initiatives, parts>>

\* An error, or a killed process.
SpaceRequestFails(s) ==
    /\ spreq[s].step # "idle"
    /\ EndSpaceRequest(s)
    /\ UNCHANGED <<slugs, roll, initiatives, parts, told>>

SpacesNext ==
    \/ \E t \in Teamspace, u \in Fellow : TeamspaceChanges(t, u)
    \/ \E s \in SpaceSlot :
         \/ \E u \in Fellow :
              \/ \E g \in Slug : CommunityCreateLoad(s, u, g)
              \/ \E c \in Community : JoinCommunityLoad(s, u, c)
              \/ \E sp \in Space : InitiativeCreateLoad(s, u, sp)
              \/ \E i \in Initiative : JoinLoad(s, u, i)
         \/ \E c \in Community : CreateCommunity(s, c)
         \/ GetCommunityMembership(s)
         \/ AddMember(s)
         \/ \E i \in Initiative : CreateInitiative(s, i)
         \/ CheckSpaceMembership(s)
         \/ JoinSnapshot(s)
         \/ \E p \in Part : InsertPart(s, p)
         \/ ReturnPart(s)
         \/ SpaceRequestFails(s)

SpacesSpec == SpacesInit /\ [][SpacesNext]_spaceVars

-----------------------------------------------------------------------------
(* Properties.                                                             *)

(* Joining is idempotent: however many joins of a user overlap, fail and   *)
(* are repeated, whoever leaves the team meanwhile, the user has at most   *)
(* one goal in the initiative and every answer has named that one.         *)
OneGoalPerParticipant ==
    \A u \in Fellow, i \in Initiative :
      /\ told[<<u, i>>] \subseteq PartsOf(u, i)
      /\ Cardinality(PartsOf(u, i)) <= 1

=============================================================================
