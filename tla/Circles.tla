------------------------------- MODULE Circles -------------------------------
(***************************************************************************)
(* Circles: who sits in one, by which door (its code or an invitation),    *)
(* and its season.  Joining by code counts the members and inserts in one  *)
(* transaction that locks nothing; whoever reads a circle completes its    *)
(* season once it is over, and the call that ends a season by choice       *)
(* always fails, for its statement names a column that the table lacks.    *)
(***************************************************************************)
EXTENDS Naturals, FiniteSets

CONSTANTS
    Person,        \* registered accounts, each with its e-mail address
    Ring,          \* circle ids
    Season,        \* season ids
    CircleSlot,    \* requests of this service that can be in flight
    MemberLimit,   \* DefaultMemberLimit
    Nobody         \* no value

ASSUME CirclesAssumption ==
    /\ IsFiniteSet(CircleSlot)
    /\ MemberLimit \in Nat \ {0, 1}
    /\ Nobody \notin Person \cup Ring \cup Season

VARIABLES
    founder,   \* owner_user_id of each circle
    seats,     \* circle_memberships; the value is the door the row came by
    letters,   \* pending circle_invitations, one row per circle and address
    seasons,   \* circle_seasons; a reader completed the one that is "lapsed"
    over,      \* seasons past their ends_at
    cireq      \* what each in-flight request has read and will do next

circleVars == <<founder, seats, letters, seasons, over, cireq>>

Door == {"none", "code", "letter"}

NoSeason == [status |-> "absent", ring |-> Nobody]

IdleCircleRequest == [step |-> "idle", user |-> Nobody, ring |-> Nobody]

CirclesTypeOK ==
    /\ founder \in [Ring -> Person \cup {Nobody}]
    /\ seats \in [Ring -> [Person -> Door]]
    /\ letters \in [Ring -> SUBSET Person]
    /\ seasons \in [Season -> [status : {"absent", "active", "lapsed"},
                               ring : Ring \cup {Nobody}]]
    /\ over \in SUBSET Season
    /\ cireq \in [CircleSlot ->
         [step : {"idle", "insert", "commit", "invite", "complete"},
          user : Person \cup {Nobody}, ring : Ring \cup {Nobody}]]

CirclesInit ==
    /\ founder = [c \in Ring |-> Nobody]
    /\ seats = [c \in Ring |-> [u \in Person |-> "none"]]
    /\ letters = [c \in Ring |-> {}]
    /\ seasons = [t \in Season |-> NoSeason]
    /\ over = {}
    /\ cireq = [s \in CircleSlot |-> IdleCircleRequest]

-----------------------------------------------------------------------------
(* Helpers.                                                                *)

Seated(c) == {u \in Person : seats[c][u] # "none"}

Running(c) == {t \in Season : seasons[t].status = "active" /\ seasons[t].ring = c}

\* A circle can be read by its members, and only while it has a season.
CanRead(c, u) == u \in Seated(c) /\ Running(c) # {}

BeginAt(s, step, u, c) ==
    /\ cireq[s].step = "idle"
    /\ cireq' = [cireq EXCEPT ![s] = [step |-> step, user |-> u, ring |-> c]]

EndCircleRequest(s) == cireq' = [cireq EXCEPT ![s] = IdleCircleRequest]

\* A row that another transaction inserted and has not committed yet: the
\* unique index makes a second insert of it wait.
Inserting(c, u) ==
    \E s \in CircleSlot :
        cireq[s].step = "commit" /\ cireq[s].ring = c /\ cireq[s].user = u

NewSeason(t, c) ==
    /\ seasons[t] = NoSeason
    /\ seasons' = [seasons EXCEPT ![t] = [status |-> "active", ring |-> c]]

-----------------------------------------------------------------------------
(* CreateCircle: circle, owner membership and first season, one transaction. *)

CreateCircle(u, c, t) ==
    /\ founder[c] = Nobody
    /\ founder' = [founder EXCEPT ![c] = u]
    /\ seats' = [seats EXCEPT ![c][u] = "code"]
    /\ NewSeason(t, c)
    /\ UNCHANGED <<letters, over, cireq>>

-----------------------------------------------------------------------------
(* JoinCircle, by code.                                                    *)

\* Mutant: the limit is compared with > instead of >=.
JoinCountOffByOne(s, u, c) ==
    /\ founder[c] # Nobody
    /\ u \notin Seated(c)
    /\ Cardinality(Seated(c)) <= MemberLimit
    /\ BeginAt(s, "insert", u, c)
    /\ UNCHANGED <<founder, seats, letters, seasons, over>>

\* The circle by its code, whether the user is in it, and the count.
JoinCount(s, u, c) ==
    /\ founder[c] # Nobody
    /\ u \notin Seated(c)
    /\ Cardinality(Seated(c)) < MemberLimit
    /\ BeginAt(s, "insert", u, c)
    /\ UNCHANGED <<founder, seats, letters, seasons, over>>

\* Mutant: the insert is not followed by the read of the circle's detail.
JoinInsertNoDetail(s) ==
    LET r == cireq[s] IN
    /\ r.step = "insert"
    /\ r.user \notin Seated(r.ring) /\ ~ Inserting(r.ring, r.user)
    /\ cireq' = [cireq EXCEPT ![s].step = "commit"]
    /\ UNCHANGED <<founder, seats, letters, seasons, over>>

\* The insert, and the detail read in the same transaction: it rolls back
\* when the circle has no active season.
JoinInsert(s) ==
    LET r == cireq[s] IN
    /\ r.step = "insert"
    /\ r.user \notin Seated(r.ring) /\ ~ Inserting(r.ring, r.user)
    /\ Running(r.ring) # {}
    /\ cireq' = [cireq EXCEPT ![s].step = "commit"]
    /\ UNCHANGED <<founder, seats, letters, seasons, over>>

JoinCommit(s) ==
    /\ cireq[s].step = "commit"
    /\ seats' = [seats EXCEPT ![cireq[s].ring][cireq[s].user] = "code"]
    /\ EndCircleRequest(s)
    /\ UNCHANGED <<founder, letters, seasons, over>>

-----------------------------------------------------------------------------
(* Invitations.                                                            *)

InviteLoad(s, u, c, target) ==
    /\ CanRead(c, u)
    /\ target # u
    /\ BeginAt(s, "invite", target, c)
    /\ UNCHANGED <<founder, seats, letters, seasons, over>>

\* The upsert reopens an invitation that was accepted or declined.
InviteUpsert(s) ==
    /\ cireq[s].step = "invite"
    /\ letters' = [letters EXCEPT ![cireq[s].ring] = @ \cup {cireq[s].user}]
    /\ EndCircleRequest(s)
    /\ UNCHANGED <<founder, seats, seasons, over>>

\* One transaction under the lock of the invitation row.  Neither the member
\* limit nor the season is looked at; a membership that exists is kept.
AcceptCircleInvitation(c, u) ==
    /\ u \in letters[c]
    /\ ~ Inserting(c, u)
    /\ letters' = [letters EXCEPT ![c] = @ \ {u}]
    /\ seats' = IF u \in Seated(c) THEN seats ELSE [seats EXCEPT ![c][u] = "letter"]
    /\ UNCHANGED <<founder, seasons, over, cireq>>

DeclineCircleInvitation(c, u) ==
    /\ u \in letters[c]
    /\ letters' = [letters EXCEPT ![c] = @ \ {u}]
    /\ UNCHANGED <<founder, seats, seasons, over, cireq>>

-----------------------------------------------------------------------------
(* Seasons.                                                                *)

\* Time passes the season's ends_at.
SeasonRunsOut(t) ==
    /\ seasons[t].status # "absent" /\ t \notin over
    /\ over' = over \cup {t}
    /\ UNCHANGED <<founder, seats, letters, seasons, cireq>>

\* Reading a circle completes whatever is overdue in it, before the reader's
\* membership is looked at.
LazyCompleteExpiredSeason(c) ==
    /\ Running(c) \cap over # {}
    /\ seasons' = [t \in Season |->
         IF t \in Running(c) \cap over
         THEN [seasons[t] EXCEPT !.status = "lapsed"] ELSE seasons[t]]
    /\ UNCHANGED <<founder, seats, letters, over, cireq>>

\* Members may end a season that is over and that nobody completed.
MayEnd(u, c, t) ==
    /\ CanRead(c, u)
    /\ seasons[t].ring = c
    /\ seasons[t].status = "active"
    /\ t \in over

\* EndSeason: the actor reads the circle, then the season.  The season is
\* active in the second read, so the circle still has one: one step.
EndLoad(s, u, c, t) ==
    /\ MayEnd(u, c, t)
    /\ BeginAt(s, "complete", u, c)
    /\ UNCHANGED <<founder, seats, letters, seasons, over>>

\* The statement sets updated_at, a column that no migration gives to
\* circle_seasons: it always errors, the call ends here, and the extension
\* that would come next is never inserted.
MarkSeasonCompleted(s) ==
    /\ cireq[s].step = "complete"
    /\ EndCircleRequest(s)
    /\ UNCHANGED <<founder, seats, letters, seasons, over>>

-----------------------------------------------------------------------------

\* An error, a full circle, a cancelled context or a killed process: what the
\* request has not committed is gone.
CircleRequestFails(s) ==
    /\ cireq[s].step # "idle"
    /\ EndCircleRequest(s)
    /\ UNCHANGED <<founder, seats, letters, seasons, over>>

CirclesNext ==
    \/ \E t \in Season : SeasonRunsOut(t)
    \/ \E c \in Ring : LazyCompleteExpiredSeason(c)
    \/ \E u \in Person, c \in Ring : \/ \E t \in Season : CreateCircle(u, c, t)
                                     \/ AcceptCircleInvitation(c, u)
                                     \/ DeclineCircleInvitation(c, u)
    \/ \E s \in CircleSlot :
         \/ JoinInsert(s)
         \/ JoinCommit(s)
         \/ InviteUpsert(s)
         \/ MarkSeasonCompleted(s)
         \/ CircleRequestFails(s)
         \/ \E u \in Person, c \in Ring :
              \/ JoinCount(s, u, c)
              \/ \E target \in Person : InviteLoad(s, u, c, target)
              \/ \E t \in Season : EndLoad(s, u, c, t)

CirclesSpec == CirclesInit /\ [][CirclesNext]_circleVars

-----------------------------------------------------------------------------
(* Properties.                                                             *)

\* The seats that were taken at the door where the limit is checked.
CodeSeats(c) == {u \in Person : seats[c][u] = "code"}

Joining(c) == {s \in CircleSlot : cireq[s].step \in {"insert", "commit"} /\ cireq[s].ring = c}

CodeDoor(c) == INSTANCE CheckThenInsert WITH
    Slot <- CircleSlot, Limit <- MemberLimit,
    count <- Cardinality(CodeSeats(c)), passed <- Joining(c)

(* Joining by code counts and inserts without a lock, so the limit of a    *)
(* circle can be passed, but by less than the number of requests in        *)
(* flight; only accepted invitations, which are not counted against it, go *)
(* further.  The code of each circle is an instance of CheckThenInsert.    *)
JoinLimit == \A c \in Ring : CodeDoor(c)!Bounded

\* No request on the circle is past the reads that need an active season.
Quiet(c) ==
    ~ \E s \in CircleSlot :
        cireq[s].step \in {"commit", "invite"} /\ cireq[s].ring = c

(* A circle whose season a reader completed has no operation left that     *)
(* gives it one: nobody enters it by code any more, not even a request     *)
(* that had passed the count before, and nobody is invited to it.  Only    *)
(* the invitations it had already sent still let somebody in.              *)
DeadCircleStaysDead ==
    [][\A c \in Ring :
         founder[c] # Nobody /\ Running(c) = {} /\ Quiet(c)
         => /\ Running(c)' = {} /\ Quiet(c)'
            /\ CodeSeats(c)' = CodeSeats(c) /\ letters'[c] \subseteq letters[c]]_circleVars

(* The domain's comment says that when a season is over it is completed    *)
(* and the owner can extend it or start a new circle.  While nobody chose  *)
(* for a season that is completed, the owner can.                          *)
OwnerCanStillChoose ==
    \A t \in Season :
        seasons[t].status = "lapsed" => MayEnd(founder[seasons[t].ring], seasons[t].ring, t)

=============================================================================
