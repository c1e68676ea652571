------------------------------ MODULE CheckIns -------------------------------
(***************************************************************************)
(* The check-ins service on top of the goals service: the owner of an      *)
(* active goal drafts a check-in, attaches evidence and submits it; the    *)
(* buddy or a member of the goal's circle reviews it, which moves the      *)
(* streak of the goal; a participant of an initiative may approve it too.  *)
(* Handlers read a check-in, decide on what they read and write later by   *)
(* id alone, so a decision can be about a status that is gone.             *)
(***************************************************************************)
EXTENDS Goals, Sequences

CONSTANTS
    CheckIn,       \* check-in ids
    CheckInSlot,   \* requests of this service that can be in flight
    Participant,   \* users who joined some initiative
    EvidenceKinds, \* kinds of evidence that are added: "text", "file"
    MaxEvidence,   \* MaxEvidenceItems
    MaxReviews,    \* bound of the model: reviews recorded for one goal
    MaxUploads     \* bound of the model: objects stored for one check-in

ASSUME CheckInsAssumption ==
    /\ None \notin CheckIn
    /\ IsFiniteSet(CheckInSlot)
    /\ Participant \subseteq User
    /\ EvidenceKinds \subseteq {"text", "file"}
    /\ MaxEvidence \in Nat \ {0}
    /\ MaxReviews \in Nat
    /\ MaxUploads \in Nat

VARIABLES
    checkIns,    \* the check_ins table
    evidence,    \* rows of each check-in, how many are files; stored objects
    ledger,      \* check_in_reviews of each goal, in commit order
    progress,    \* streak and health columns of each goal
    approvals,   \* check-ins with a row in initiative_approvals
    events,      \* kinds of domain events emitted for each check-in
    firstProof,  \* "first proof submitted" events tracked for each user
    creq         \* what each in-flight request has read and will do next

loopVars == <<checkIns, evidence, ledger, progress, approvals, events,
              firstProof, creq>>

allVars == <<goalVars, loopVars>>

Decision == {"approved", "rejected", "changes_requested"}

CheckInStatus == {"absent", "draft", "submitted"} \cup Decision

NoCheckIn == [status |-> "absent", goal |-> None]

Review == [checkIn : CheckIn, reviewer : User, decision : Decision]

CheckInRequest ==
    [step : {"idle", "submit", "submitted", "count", "capacity", "put",
             "insert", "review", "reviewed"},
     checkIn : CheckIn \cup {None},
     actor : User \cup {None},
     decision : Decision \cup {None},
     file : BOOLEAN]

IdleCheckInRequest == [step |-> "idle", checkIn |-> None, actor |-> None,
                       decision |-> None, file |-> FALSE]

CheckInsTypeOK ==
    /\ checkIns \in [CheckIn -> [status : CheckInStatus, goal : Goal \cup {None}]]
    /\ evidence \in [CheckIn -> [items : Nat, files : Nat, objects : Nat]]
    /\ ledger \in [Goal -> Seq(Review)]
    /\ progress \in [Goal -> [streak : Nat, health : {"unknown", "stable", "at_risk"}]]
    /\ approvals \in SUBSET CheckIn
    /\ events \in [CheckIn -> SUBSET {"submitted", "approved", "rejected"}]
    /\ firstProof \in [User -> Nat]
    /\ creq \in [CheckInSlot -> CheckInRequest]
    /\ \A s \in CheckInSlot : LET r == creq[s] IN
         /\ r.step # "idle" => r.checkIn \in CheckIn
         /\ r.step \in {"submit", "submitted", "count", "review"} => r.actor \in User
         /\ r.step \in {"review", "reviewed"} => r.decision \in Decision
    /\ \A c \in CheckIn : checkIns[c].status # "absent" => checkIns[c].goal \in Goal
    /\ \A s \in CheckInSlot :
         creq[s].step # "idle" => checkIns[creq[s].checkIn].status # "absent"

(* The tables of the goals and of the check-ins, and the requests on both, *)
(* keep their types together.                                              *)
LoopTypeOK == GoalsTypeOK /\ CheckInsTypeOK

CheckInsInit ==
    /\ checkIns = [c \in CheckIn |-> NoCheckIn]
    /\ evidence = [c \in CheckIn |-> [items |-> 0, files |-> 0, objects |-> 0]]
    /\ ledger = [g \in Goal |-> << >>]
    /\ progress = [g \in Goal |-> [streak |-> 0, health |-> "unknown"]]
    /\ approvals = {}
    /\ events = [c \in CheckIn |-> {}]
    /\ firstProof = [u \in User |-> 0]
    /\ creq = [s \in CheckInSlot |-> IdleCheckInRequest]

-----------------------------------------------------------------------------
(* Helpers.                                                                *)

Status(c) == checkIns[c].status

Owner(c) == goals[checkIns[c].goal].owner

Editable(c) == Status(c) \in {"draft", "changes_requested"}

\* The buddy, or any active member of the goal's circle (IsCircleMemberForGoal).
MayReview(u, c) ==
    LET g == goals[checkIns[c].goal] IN
    /\ u # g.owner
    /\ u = g.buddy \/ u \in members[g.circle]

IdleSlot(s) == creq[s].step = "idle"

EndRequest(s) == creq' = [creq EXCEPT ![s] = IdleCheckInRequest]

\* An idle slot takes up a request about check-in c.
Begin(s, step, c, u, d, file) ==
    /\ IdleSlot(s)
    /\ Status(c) # "absent"
    /\ creq' = [creq EXCEPT ![s] = [step |-> step, checkIn |-> c, actor |-> u,
                                    decision |-> d, file |-> file]]

SetStatus(c, status) == checkIns' = [checkIns EXCEPT ![c].status = status]

Emit(c, kind) == events' = [events EXCEPT ![c] = @ \cup {kind}]

-----------------------------------------------------------------------------
(* CreateCheckIn: one statement that selects from the goal it inserts for. *)

CreateCheckIn(u, g, c) ==
    /\ goals[g].status = "active"
    /\ goals[g].owner = u
    /\ Status(c) = "absent"
    /\ checkIns' = [checkIns EXCEPT ![c] = [status |-> "draft", goal |-> g]]
    /\ UNCHANGED <<evidence, ledger, progress, approvals, events, firstProof, creq>>

-----------------------------------------------------------------------------
(* Submit.                                                                 *)

\* Mutant: canSubmit admits a rejected check-in.
SubmitLoadRejected(s, u, c) ==
    /\ Begin(s, "submit", c, u, None, FALSE)
    /\ u = Owner(c)
    /\ Editable(c) \/ Status(c) = "rejected"
    /\ UNCHANGED <<checkIns, evidence, ledger, progress, approvals, events, firstProof>>

SubmitLoad(s, u, c) ==
    /\ Begin(s, "submit", c, u, None, FALSE)
    /\ u = Owner(c)
    /\ Editable(c)
    /\ UNCHANGED <<checkIns, evidence, ledger, progress, approvals, events, firstProof>>

\* UPDATE ... WHERE id = $1: the status that was loaded is not asked for again.
SubmitWrite(s) ==
    /\ creq[s].step = "submit"
    /\ SetStatus(creq[s].checkIn, "submitted")
    /\ creq' = [creq EXCEPT ![s].step = "submitted"]
    /\ UNCHANGED <<evidence, ledger, progress, approvals, events, firstProof>>

\* "checkin.submitted"; a failure to emit is ignored.
SubmitEmit(s) ==
    /\ creq[s].step = "submitted"
    /\ \/ Emit(creq[s].checkIn, "submitted")
       \/ UNCHANGED events
    /\ creq' = [creq EXCEPT ![s].step = "count"]
    /\ UNCHANGED <<checkIns, evidence, ledger, progress, approvals, firstProof>>

SubmittedBy(u) ==
    Cardinality({c \in CheckIn : Status(c) \in {"submitted", "approved"} /\ Owner(c) = u})

\* The first-proof event is tracked when this user's check-ins in review or
\* approved number exactly one.
SubmitCount(s) ==
    LET u == creq[s].actor IN
    /\ creq[s].step = "count"
    /\ firstProof' = [firstProof EXCEPT ![u] = IF SubmittedBy(u) = 1 THEN @ + 1 ELSE @]
    /\ EndRequest(s)
    /\ UNCHANGED <<checkIns, evidence, ledger, progress, approvals, events>>

-----------------------------------------------------------------------------
(* AddTextEvidence, AddLinkEvidence and AddFileEvidence.                   *)

\* Mutant: only the owner is asked for, not whether the check-in is editable.
EvidenceLoadAnyStatus(s, c, kind) ==
    /\ Begin(s, "capacity", c, None, None, kind = "file")
    /\ UNCHANGED <<checkIns, evidence, ledger, progress, approvals, events, firstProof>>

\* requireOwnerEditable; whoever is not the owner gets no further.
EvidenceLoad(s, c, kind) ==
    /\ Begin(s, "capacity", c, None, None, kind = "file")
    /\ Editable(c)
    /\ UNCHANGED <<checkIns, evidence, ledger, progress, approvals, events, firstProof>>

\* Mutant: the count is compared with > instead of >=.
EvidenceCountOffByOne(s) ==
    /\ creq[s].step = "capacity"
    /\ evidence[creq[s].checkIn].items <= MaxEvidence
    /\ creq' = [creq EXCEPT ![s].step = IF creq[s].file THEN "put" ELSE "insert"]
    /\ UNCHANGED <<checkIns, evidence, ledger, progress, approvals, events, firstProof>>

\* Mutant: the row is inserted before the file is uploaded.
EvidenceCountRowFirst(s) ==
    /\ creq[s].step = "capacity"
    /\ evidence[creq[s].checkIn].items < MaxEvidence
    /\ creq' = [creq EXCEPT ![s].step = "insert"]
    /\ UNCHANGED <<checkIns, evidence, ledger, progress, approvals, events, firstProof>>

EvidenceCount(s) ==
    /\ creq[s].step = "capacity"
    /\ evidence[creq[s].checkIn].items < MaxEvidence
    /\ creq' = [creq EXCEPT ![s].step = IF creq[s].file THEN "put" ELSE "insert"]
    /\ UNCHANGED <<checkIns, evidence, ledger, progress, approvals, events, firstProof>>

PutObject(s) ==
    /\ creq[s].step = "put"
    /\ evidence[creq[s].checkIn].objects < MaxUploads
    /\ evidence' = [evidence EXCEPT ![creq[s].checkIn].objects = @ + 1]
    /\ creq' = [creq EXCEPT ![s].step = "insert"]
    /\ UNCHANGED <<checkIns, ledger, progress, approvals, events, firstProof>>

InsertEvidence(s) ==
    LET c == creq[s].checkIn
        row == evidence[c]
        files == IF creq[s].file THEN row.files + 1 ELSE row.files
    IN
    /\ creq[s].step = "insert"
    /\ evidence' = [evidence EXCEPT ![c] =
                      [row EXCEPT !.items = row.items + 1, !.files = files]]
    /\ EndRequest(s)
    /\ UNCHANGED <<checkIns, ledger, progress, approvals, events, firstProof>>

-----------------------------------------------------------------------------
(* Review: approve, reject or request changes.                             *)

\* Mutant: the route's word, "approve", is passed on as the decision.
ReviewLoadRouteWord(s, u, c, d) ==
    /\ Begin(s, "review", c, u, IF d = "approved" THEN "approve" ELSE d, FALSE)
    /\ MayReview(u, c)
    /\ Status(c) = "submitted"
    /\ UNCHANGED <<checkIns, evidence, ledger, progress, approvals, events, firstProof>>

\* Mutant: the event is emitted without waiting for the transaction.
ReviewLoadEmitFirst(s, u, c, d) ==
    /\ Begin(s, "reviewed", c, u, d, FALSE)
    /\ MayReview(u, c)
    /\ Status(c) = "submitted"
    /\ UNCHANGED <<checkIns, evidence, ledger, progress, approvals, events, firstProof>>

ReviewLoad(s, u, c, d) ==
    /\ Begin(s, "review", c, u, d, FALSE)
    /\ MayReview(u, c)
    /\ Status(c) = "submitted"
    /\ UNCHANGED <<checkIns, evidence, ledger, progress, approvals, events, firstProof>>

AppendReview(s) ==
    LET r == creq[s]
        g == checkIns[r.checkIn].goal
    IN  /\ Len(ledger[g]) < MaxReviews
        /\ ledger' = [ledger EXCEPT ![g] = Append(@,
              [checkIn |-> r.checkIn, reviewer |-> r.actor, decision |-> r.decision])]

\* Mutant: a rejection marks the goal but leaves the streak alone.
MovedKeepsStreak(row, d) ==
    CASE d = "approved" -> [streak |-> row.streak + 1, health |-> "stable"]
      [] d = "rejected" -> [row EXCEPT !.health = "at_risk"]
      [] OTHER -> row

\* What a decision does to the goal's row: a request for changes, nothing.
Moved(row, d) ==
    CASE d = "approved" -> [streak |-> row.streak + 1, health |-> "stable"]
      [] d = "rejected" -> [streak |-> 0, health |-> "at_risk"]
      [] OTHER -> row

MoveProgress(s) ==
    progress' = [progress EXCEPT ![checkIns[creq[s].checkIn].goal] =
                   Moved(@, creq[s].decision)]

\* Mutant: the update asks for status 'submitted' and nobody looks at the
\* number of rows it found, while the review row is inserted anyway.
RecordReviewSilentGuard(s) ==
    LET c == creq[s].checkIn IN
    /\ creq[s].step = "review"
    /\ AppendReview(s)
    /\ IF Status(c) = "submitted" THEN SetStatus(c, creq[s].decision)
                                  ELSE UNCHANGED checkIns
    /\ MoveProgress(s)
    /\ creq' = [creq EXCEPT ![s].step = "reviewed"]
    /\ UNCHANGED <<evidence, approvals, events, firstProof>>

\* One transaction: the review row, the status (by id alone), the goal's row.
RecordReview(s) ==
    /\ creq[s].step = "review"
    /\ AppendReview(s)
    /\ SetStatus(creq[s].checkIn, creq[s].decision)
    /\ MoveProgress(s)
    /\ creq' = [creq EXCEPT ![s].step = "reviewed"]
    /\ UNCHANGED <<evidence, approvals, events, firstProof>>

\* "checkin.rejected" for a rejection, "checkin.approved" for everything else,
\* a request for changes included.
ReviewEmit(s) ==
    /\ creq[s].step = "reviewed"
    /\ Emit(creq[s].checkIn,
            IF creq[s].decision = "rejected" THEN "rejected" ELSE "approved")
    /\ EndRequest(s)
    /\ UNCHANGED <<checkIns, evidence, ledger, progress, approvals, firstProof>>

-----------------------------------------------------------------------------
\* Approve of the initiatives service, on the same rows: any participant of
\* any initiative except the author.  Its transaction asks for 'submitted' and
\* initiative_approvals has one row per check-in; the goal is not touched.
InitiativeApprove(u, c) ==
    /\ u \in Participant
    /\ Status(c) = "submitted"
    /\ u # Owner(c)
    /\ c \notin approvals
    /\ approvals' = approvals \cup {c}
    /\ SetStatus(c, "approved")
    /\ UNCHANGED <<evidence, ledger, progress, events, firstProof, creq>>

\* A request ends early: the cap is reached, a statement or an upload or an
\* emit fails, the context is cancelled, the process is killed.
CheckInRequestFails(s) ==
    /\ ~ IdleSlot(s)
    /\ EndRequest(s)
    /\ UNCHANGED <<checkIns, evidence, ledger, progress, approvals, events, firstProof>>

CheckInsNext ==
    \/ \E u \in User, g \in Goal, c \in CheckIn : CreateCheckIn(u, g, c)
    \/ \E s \in CheckInSlot :
         \/ \E u \in User, c \in CheckIn : SubmitLoad(s, u, c)
         \/ SubmitWrite(s)
         \/ SubmitEmit(s)
         \/ SubmitCount(s)
         \/ \E c \in CheckIn, kind \in EvidenceKinds : EvidenceLoad(s, c, kind)
         \/ EvidenceCount(s)
         \/ PutObject(s)
         \/ InsertEvidence(s)
         \/ \E u \in User, c \in CheckIn, d \in Decision : ReviewLoad(s, u, c, d)
         \/ RecordReview(s)
         \/ ReviewEmit(s)
         \/ CheckInRequestFails(s)
    \/ \E u \in User, c \in CheckIn : InitiativeApprove(u, c)

LoopInit == GoalsInit /\ CheckInsInit

LoopNext ==
    \/ GoalsNext /\ UNCHANGED loopVars
    \/ CheckInsNext /\ UNCHANGED goalVars

LoopSpec == LoopInit /\ [][LoopNext]_allVars

-----------------------------------------------------------------------------
(* Properties.                                                             *)

(* The columns RecordReview keeps on the goal agree with the history of    *)
(* its reviews under any interleaving: the streak is the number of         *)
(* approvals since the last rejection, the health is stable exactly while  *)
(* there is a streak and unknown until a decision approves or rejects.     *)
StreakIsReplayOfReviews ==
    \A g \in Goal :
        LET log == ledger[g] IN
        /\ progress[g].streak = Cardinality({i \in DOMAIN log :
              /\ log[i].decision = "approved"
              /\ \A j \in i..Len(log) : log[j].decision # "rejected"})
        /\ progress[g].health = "stable" <=> progress[g].streak > 0
        /\ progress[g].health = "unknown" <=>
              \A i \in DOMAIN log : log[i].decision = "changes_requested"

LastReviewSays(c, d) ==
    LET log == ledger[checkIns[c].goal] IN
    \E i \in DOMAIN log :
        /\ log[i].checkIn = c
        /\ log[i].decision = d
        /\ \A j \in (i + 1)..Len(log) : log[j].checkIn # c

(* Whatever decisions race, the status a check-in ends with is the one the *)
(* last recorded review gave it; only an initiative approves without one.  *)
DecisionIsOnRecord ==
    \A c \in CheckIn : Status(c) \in Decision =>
        \/ LastReviewSays(c, Status(c))
        \/ Status(c) = "approved" /\ c \in approvals

Reviewed(c, ds) ==
    LET log == ledger[checkIns[c].goal] IN
    \E i \in DOMAIN log : log[i].checkIn = c /\ log[i].decision \in ds

(* No notification without a decision: what is emitted about a check-in,   *)
(* or is about to be, is a decision that some committed review recorded.   *)
EventsAreBacked ==
    \A c \in CheckIn :
        /\ "rejected" \in events[c] => Reviewed(c, {"rejected"})
        /\ "approved" \in events[c] => Reviewed(c, {"approved", "changes_requested"})
        /\ \A s \in CheckInSlot :
             creq[s].step = "reviewed" /\ creq[s].checkIn = c
                => Reviewed(c, {creq[s].decision})

InFlight(c) ==
    \E s \in CheckInSlot : creq[s].step \in {"submit", "review"} /\ creq[s].checkIn = c

Settled(c) == Status(c) \in {"approved", "rejected"} /\ ~ InFlight(c)

(* A decision is final once no submission or review that loaded the check- *)
(* in earlier is still in flight: only those can overwrite it.             *)
SettledIsFinal ==
    [][\A c \in CheckIn : Settled(c) => Settled(c)' /\ Status(c)' = Status(c)]_allVars

Adding(c) ==
    {s \in CheckInSlot : creq[s].step \in {"put", "insert"} /\ creq[s].checkIn = c}

(* The evidence cap, counted and inserted in two statements, is overshot   *)
(* by less than the number of requests in flight.                          *)
Cap(c) == INSTANCE CheckThenInsert WITH
    Slot <- CheckInSlot, Limit <- MaxEvidence,
    count <- evidence[c].items, passed <- Adding(c)

EvidenceCap == \A c \in CheckIn : Cap(c)!Bounded

(* Both limits that a request counts in one statement and inserts against  *)
(* in a later one, the refine quota of the goals and the evidence cap, are *)
(* overshot by less than the number of requests in flight.                 *)
CountedLimits == RefineQuota /\ EvidenceCap

(* An evidence row never names a file that is not in the object store; a   *)
(* failure between the upload and the insert leaves an orphan file, never  *)
(* the reverse.                                                            *)
FilesAreStored ==
    \A c \in CheckIn :
        evidence[c].files
          + Cardinality({s \in CheckInSlot : /\ creq[s].step = "insert"
                                             /\ creq[s].checkIn = c
                                             /\ creq[s].file})
        <= evidence[c].objects

BeingAdded(c) ==
    \E s \in CheckInSlot :
        creq[s].step \in {"capacity", "put", "insert"} /\ creq[s].checkIn = c

Frozen(c) == Status(c) \in {"submitted", "approved", "rejected"} /\ ~ BeingAdded(c)

(* What the reviewer was shown is what there is: once the requests that    *)
(* found a check-in editable are done, its evidence stays as it is, under  *)
(* any interleaving of submissions and reviews, until changes are asked    *)
(* for.                                                                    *)
EvidenceIsFrozen ==
    [][\A c \in CheckIn : Frozen(c) =>
         /\ evidence'[c] = evidence[c]
         /\ Frozen(c)' \/ Status(c)' = "changes_requested"]_allVars

(* The documented review loop.  With one request at a time the service     *)
(* implements it; with two it does not (ForbiddenTransitionsNeverHappen).  *)
Documented == INSTANCE ReviewLoop WITH
    status <- [c \in CheckIn |-> Status(c)]

ReviewLoopSpec == Documented!Spec

(* docs/architecture/status-transitions.md, "forbidden transitions": an    *)
(* approved check-in never goes back to submitted or to changes requested, *)
(* a rejected one never to submitted or approved.                          *)
ForbiddenTransitionsNeverHappen ==
    [][\A c \in CheckIn :
         <<Status(c), Status(c)'>> \notin
            { <<"approved", "submitted">>, <<"approved", "changes_requested">>,
              <<"rejected", "submitted">>, <<"rejected", "approved">> }]_allVars

(* internal/checkins/service.go, Submit: the first-proof event "fires      *)
(* exactly once per user lifecycle".                                       *)
FirstProofFiresOnce == \A u \in User : firstProof[u] <= 1

=============================================================================
