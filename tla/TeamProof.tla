------------------------------ MODULE TeamProof ------------------------------
(***************************************************************************)
(* Proofs of a goal that belongs to a team.  A proof is submitted with     *)
(* entries of the author's daily log, each of which it consumes; the lead  *)
(* or a trusted approver decides it.  A reviewer reads the proof, then its *)
(* own membership, and writes the decision by id: meanwhile the team goes  *)
(* on changing roles and members, and whoever takes part in an initiative  *)
(* may approve the proof as one of its own.                                *)
(*                                                                         *)
(* No code binds a goal to a team: such goals are given.  They have no     *)
(* circle, by a constraint of the table, and they are taken to have no     *)
(* buddy, so that nobody reviews their check-ins through package checkins. *)
(***************************************************************************)
EXTENDS Teams

CONSTANTS
    Proof,       \* ids of check-ins that carry a team
    Entry,       \* logged days of the author
    ProofSlot,   \* requests of this service that can be in flight
    NoProof      \* NULL

ASSUME TeamProofAssumption == NoProof \notin Proof

VARIABLES
    author,   \* owner of the goal, given
    proofs,   \* check_ins of the goal: status and approver_role
    used,     \* consumed_in_check_in_id of each entry
    claims,   \* the entries each proof was submitted with (history)
    noted,    \* proofs with a 'rejected' row in check_in_reviews
    vouched,  \* proofs with a row in initiative_approvals
    preq      \* what each in-flight request has read and will do next

proofVars == <<author, proofs, used, claims, noted, vouched, preq>>

Decided == {"approved", "rejected"}

NoRow == [status |-> "absent", role |-> "none"]

ProofRequest == [step : {"idle", "create", "member", "review", "decide"},
                 user : Mate \cup {NoMate}, proof : Proof \cup {NoProof},
                 entries : SUBSET Entry, decision : Decided \cup {"none"},
                 role : Role \cup {"none"}]

IdleProofRequest == [step |-> "idle", user |-> NoMate, proof |-> NoProof,
                     entries |-> {}, decision |-> "none", role |-> "none"]

TeamProofTypeOK ==
    /\ author \in Mate
    /\ proofs \in [Proof -> [status : {"absent", "submitted"} \cup Decided,
                             role : Role \cup {"none"}]]
    /\ used \in [Entry -> Proof \cup {NoProof}]
    /\ claims \in [Proof -> SUBSET Entry]
    /\ noted \in SUBSET Proof
    /\ vouched \in SUBSET Proof
    /\ preq \in [ProofSlot -> ProofRequest]

TeamProofInit ==
    /\ author \in Mate
    /\ proofs = [p \in Proof |-> NoRow]
    /\ used = [e \in Entry |-> NoProof]
    /\ claims = [p \in Proof |-> {}]
    /\ noted = {}
    /\ vouched = {}
    /\ preq = [s \in ProofSlot |-> IdleProofRequest]

EndProofRequest(s) == preq' = [preq EXCEPT ![s] = IdleProofRequest]

ArtifactRequired(E, evidence) == E # {} \/ evidence

\* Mutant: any row of the team will do.
CanApproveProofAnyRow(u) == crew[u] # "none"

CanApproveProof(u) == crew[u] \in {"lead", "trusted_approver"}

-----------------------------------------------------------------------------
(* SubmitProof.                                                            *)

\* An active author, entries of theirs that no proof has consumed, and at
\* least one artifact.
SubmitLoad(s, E, evidence) ==
    /\ preq[s].step = "idle"
    /\ Active(author)
    /\ \A e \in E : used[e] = NoProof
    /\ ArtifactRequired(E, evidence)
    /\ preq' = [preq EXCEPT ![s].step = "create", ![s].entries = E]
    /\ UNCHANGED <<author, proofs, used, claims, noted, vouched>>

\* Mutant: the number of rows the update consumed is not compared.
CreateProofAnyCount(s, p) ==
    LET E == preq[s].entries IN
    /\ preq[s].step = "create"
    /\ proofs[p] = NoRow
    /\ proofs' = [proofs EXCEPT ![p].status = "submitted"]
    /\ used' = [e \in Entry |-> IF e \in E /\ used[e] = NoProof THEN p ELSE used[e]]
    /\ claims' = [claims EXCEPT ![p] = E]
    /\ EndProofRequest(s)
    /\ UNCHANGED <<author, noted, vouched>>

\* One transaction, given up unless the update consumed every entry.
CreateProof(s, p) ==
    LET E == preq[s].entries IN
    /\ preq[s].step = "create"
    /\ proofs[p] = NoRow
    /\ \A e \in E : used[e] = NoProof
    /\ proofs' = [proofs EXCEPT ![p].status = "submitted"]
    /\ used' = [e \in Entry |-> IF e \in E THEN p ELSE used[e]]
    /\ claims' = [claims EXCEPT ![p] = E]
    /\ EndProofRequest(s)
    /\ UNCHANGED <<author, noted, vouched>>

-----------------------------------------------------------------------------
(* ApproveProof and RejectProof.                                           *)

\* Mutant: the status of the proof is not looked at.
ReviewLoadAnyStatus(s, u, p, decision) ==
    /\ preq[s].step = "idle"
    /\ proofs[p].status # "absent"
    /\ u # author
    /\ preq' = [preq EXCEPT ![s].step = "member", ![s].user = u,
                            ![s].proof = p, ![s].decision = decision]
    /\ UNCHANGED <<author, proofs, used, claims, noted, vouched>>

ReviewLoad(s, u, p, decision) ==
    /\ preq[s].step = "idle"
    /\ proofs[p].status = "submitted"
    /\ u # author
    /\ preq' = [preq EXCEPT ![s].step = "member", ![s].user = u,
                            ![s].proof = p, ![s].decision = decision]
    /\ UNCHANGED <<author, proofs, used, claims, noted, vouched>>

\* The reviewer's active membership; its role goes with the decision.
ReviewMembership(s) ==
    LET r == preq[s] IN
    /\ r.step = "member"
    /\ CanApproveProof(r.user)
    /\ preq' = [preq EXCEPT ![s].role = crew[r.user],
                  ![s].step = IF r.decision = "rejected" THEN "review" ELSE "decide"]
    /\ UNCHANGED <<author, proofs, used, claims, noted, vouched>>

\* A statement of its own: a rejection that stops here leaves its review
\* behind, and the proof submitted.
RecordReject(s) ==
    /\ preq[s].step = "review"
    /\ noted' = noted \cup {preq[s].proof}
    /\ preq' = [preq EXCEPT ![s].step = "decide"]
    /\ UNCHANGED <<author, proofs, used, claims, vouched>>

\* By id, whatever became of the proof or of the reviewer's membership.
UpdateProofStatus(s) ==
    LET r == preq[s] IN
    /\ r.step = "decide"
    /\ proofs' = [proofs EXCEPT ![r.proof] = [status |-> r.decision, role |-> r.role]]
    /\ EndProofRequest(s)
    /\ UNCHANGED <<author, used, claims, noted, vouched>>

\* initiatives.Approve, one transaction: the first approval of any check-in
\* that is submitted, by anyone but its author who takes part in some
\* initiative.  Neither the team nor the approver's role in it is looked at.
InitiativeApprove(u, p) ==
    /\ u # author
    /\ p \notin vouched
    /\ proofs[p].status = "submitted"
    /\ vouched' = vouched \cup {p}
    /\ proofs' = [proofs EXCEPT ![p].status = "approved"]
    /\ UNCHANGED <<author, used, claims, noted, preq>>

ProofRequestFails(s) ==
    /\ preq[s].step # "idle"
    /\ EndProofRequest(s)
    /\ UNCHANGED <<author, proofs, used, claims, noted, vouched>>

SubmissionsNext ==
    \E s \in ProofSlot :
        \/ \E E \in SUBSET Entry, evidence \in BOOLEAN : SubmitLoad(s, E, evidence)
        \/ \E p \in Proof : CreateProof(s, p)

ReviewsNext ==
    \/ \E u \in Mate, p \in Proof : InitiativeApprove(u, p)
    \/ \E s \in ProofSlot :
        \/ \E u \in Mate, p \in Proof, d \in Decided : ReviewLoad(s, u, p, d)
        \/ ReviewMembership(s)
        \/ RecordReject(s)
        \/ UpdateProofStatus(s)

TeamProofNext ==
    \/ SubmissionsNext
    \/ ReviewsNext
    \/ \E s \in ProofSlot : ProofRequestFails(s)

\* The team goes on while proofs are submitted and decided.
TeamProofSpec ==
    /\ TeamsInit /\ TeamProofInit
    /\ [][\/ TeamsNext /\ UNCHANGED proofVars
          \/ TeamProofNext /\ UNCHANGED teamVars]_<<teamVars, proofVars>>

-----------------------------------------------------------------------------
(* Properties.                                                             *)

(* Of two proofs that were submitted with the same entry at the same time  *)
(* only one exists: a proof holds all the entries it was submitted with.   *)
EntryInOneProof == \A p \in Proof, e \in Entry : e \in claims[p] => used[e] = p

(* An approval and a rejection that both read the proof as submitted       *)
(* overwrite one another, and an initiative's approval between them.       *)
(* Whichever is written last, a rejected proof has a review and the role   *)
(* of its approver, and an approved one has such a role unless it was      *)
(* approved through an initiative, where no role is asked for.             *)
ProofDecisionOnRecord ==
    \A p \in Proof :
        /\ proofs[p].status = "rejected" =>
             p \in noted /\ proofs[p].role \in {"lead", "trusted_approver"}
        /\ proofs[p].status = "approved" =>
             p \in vouched \/ proofs[p].role \in {"lead", "trusted_approver"}

ReviewsOf(p) == {s \in ProofSlot : preq[s].proof = p}

(* A decision can only be overwritten by a request that had read the proof *)
(* before it: once those are done it is final.                             *)
ProofSettled ==
    [][\A p \in Proof :
         proofs[p].status \in Decided /\ ReviewsOf(p) = {}
         => proofs'[p] = proofs[p] /\ ReviewsOf(p)' = {}]_proofVars

=============================================================================
