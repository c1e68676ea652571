------------------------------ MODULE MCServices -----------------------------
(* The services around a goal.  They share no table but the memberships    *)
(* that a proof's reviewer is checked against, so each behaviour sends its *)
(* requests to one of them, the focus, and the others rest: the states of  *)
(* the run are the sum of those of the services, not their product.        *)
EXTENDS Circles, TeamProof, Obligations, Sessions, Personalization, Spaces, TelegramLinks,
        TLC

VARIABLE focus

servicesVars == <<focus, circleVars, teamVars, proofVars, dutyVars, sessionVars, promptVars,
                  spaceVars, linkVars>>

\* The cfg uses the same values for the ids of different tables, so that one
\* small group of permutations serves them all.
MCSymmetry == Permutations(Person) \cup Permutations(CircleSlot)

\* Of the service in focus; the others keep their initial values.
ServicesTypeOK ==
    CASE focus = "circles" -> CirclesTypeOK
      [] focus = "teams" -> TeamsTypeOK
      [] focus \in {"submissions", "reviews"} -> TeamsTypeOK /\ TeamProofTypeOK
      [] focus \in {"stakes", "milestones", "contracts"} -> ObligationsTypeOK
      [] focus = "sessions" -> SessionsTypeOK
      [] focus = "prompts" -> PersonalizationTypeOK
      [] focus = "spaces" -> SpacesTypeOK
      [] focus = "links" -> TelegramLinksTypeOK

\* A team of two, which a third member has left.
FormedTeam ==
    /\ lead \in Mate
    /\ crew \in {f \in [Mate -> {"lead", "trusted_approver", "left"}] :
                   \A r \in {"trusted_approver", "left"} : \E u \in Mate : f[u] = r}
    /\ Leads = {lead}
    /\ archived = FALSE
    /\ held = {}
    /\ treq = [s \in TeamSlot |-> IdleTeamRequest]

\* Every proof has been submitted, with evidence only.
SubmittedProofs ==
    /\ author \in Mate
    /\ proofs = [p \in Proof |-> [NoRow EXCEPT !.status = "submitted"]]
    /\ used = [e \in Entry |-> NoProof]
    /\ claims = [p \in Proof |-> {}]
    /\ noted = {}
    /\ vouched = {}
    /\ preq = [s \in ProofSlot |-> IdleProofRequest]

\* The spaces, where nobody joins anything.
RestingSpaces == SpacesInit /\ \A t \in Teamspace : roll[t] = {}

ServicesInit ==
    /\ focus \in {"circles", "teams", "submissions", "reviews", "stakes", "milestones",
                  "contracts", "sessions", "prompts", "spaces", "links"}
    /\ CirclesInit /\ ObligationsInit /\ SessionsInit /\ PersonalizationInit /\ TelegramLinksInit
    /\ IF focus = "spaces" THEN SpacesInit ELSE RestingSpaces
    /\ IF focus = "reviews" THEN SubmittedProofs ELSE TeamProofInit
    /\ IF focus \in {"submissions", "reviews"} THEN FormedTeam ELSE TeamsInit

\* What a review can see of the team: one role at a time is changed.  (Who
\* leaves or is removed can review as little as a plain member.)
RolesChange ==
    /\ \E s \in TeamSlot :
         \/ RoleRead(s)
         \/ RoleUpdate(s)
         \/ \E caller, u \in Mate, r \in {"trusted_approver", "member"} :
              RoleLoad(s, caller, u, r)
    /\ Cardinality({s \in TeamSlot : treq'[s].step # "idle"}) <= 1

DutyFocus ==
    \/ focus = "stakes" /\ StakesNext
    \/ focus = "milestones" /\ MilestonesNext
    \/ focus = "contracts" /\ ContractsNext
    \/ GoalIsLeft
    \/ \E s \in DutySlot : DutyRequestFails(s)

\* Bound of the run: one invitation is open at a time.
OneLetter == Cardinality({x \in Ring \X Person : x[2] \in letters[x[1]]}) <= 1

ServicesNext ==
    \/ /\ focus = "circles" /\ CirclesNext /\ OneLetter'
       /\ UNCHANGED <<focus, teamVars, proofVars, dutyVars, sessionVars, promptVars,
                     spaceVars, linkVars>>
    \/ /\ focus = "teams" /\ TeamsNext
       /\ UNCHANGED <<focus, circleVars, proofVars, dutyVars, sessionVars, promptVars,
                     spaceVars, linkVars>>
    \/ /\ \/ focus = "submissions" /\ SubmissionsNext
          \/ focus = "reviews" /\ ReviewsNext
          \/ \E s \in ProofSlot : ProofRequestFails(s)
       /\ UNCHANGED <<focus, circleVars, teamVars, dutyVars, sessionVars, promptVars,
                     spaceVars, linkVars>>
    \/ /\ focus = "reviews" /\ RolesChange
       /\ UNCHANGED <<focus, circleVars, proofVars, dutyVars, sessionVars, promptVars,
                     spaceVars, linkVars>>
    \/ /\ focus \in {"stakes", "milestones", "contracts"} /\ DutyFocus
       /\ UNCHANGED <<focus, circleVars, teamVars, proofVars, sessionVars, promptVars,
                     spaceVars, linkVars>>
    \/ /\ focus = "sessions" /\ SessionsNext
       /\ UNCHANGED <<focus, circleVars, teamVars, proofVars, dutyVars, promptVars,
                     spaceVars, linkVars>>
    \/ /\ focus = "prompts" /\ PersonalizationNext
       /\ UNCHANGED <<focus, circleVars, teamVars, proofVars, dutyVars, sessionVars,
                     spaceVars, linkVars>>
    \/ /\ focus = "spaces" /\ SpacesNext
       /\ UNCHANGED <<focus, circleVars, teamVars, proofVars, dutyVars, sessionVars,
                     promptVars, linkVars>>
    \/ /\ focus = "links" /\ TelegramLinksNext
       /\ UNCHANGED <<focus, circleVars, teamVars, proofVars, dutyVars, sessionVars,
                     promptVars, spaceVars>>

ServicesSpec == ServicesInit /\ [][ServicesNext]_servicesVars

=============================================================================
