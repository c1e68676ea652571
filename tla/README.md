# ProofForge: TLA+ models, model checking and proofs

ProofForge is a Go service (API process and worker process over PostgreSQL and an
object store) in which a user declares a goal in a circle, a buddy accepts it,
the user submits check-ins with evidence and peers review them; teams add daily
logs with streaks and weekly proofs on top. This directory holds TLA+ models of its state-changing
core, the TLC configurations that check them and TLAPS proofs about them.
All paths below are relative to `backend/internal/` unless they begin otherwise.

## What makes this system hard

Every request is a goroutine; every statement runs alone or in a short
transaction at READ COMMITTED. Almost every handler has the same shape: read a
row, decide in Go on what was read, then write in a **later** statement, often
`WHERE id = $1` and nothing else. So the interesting behaviours are
interleavings of two requests between their read and their write, requests that
end between two statements (error, cancelled context, killed process), events
that are inserted after the transaction they report, limits that are counted in
one statement and used in another, and rows written back as absolute values
computed from an earlier read. The models keep exactly those boundaries: **one
action per statement or transaction**, and a request between two statements is a
slot (`greq`, `creq`, `lreq`) that remembers what it read.

## Inventory

| Component | State | Operations | Interacts with | What must hold | Modules |
|---|---|---|---|---|---|
| goals | goals, pacts, invites, refine log | create (in a circle, or with a new one), accept, refine, expire | circles (members), check-ins (active goal), events | the three tables agree; one open goal per owner and circle; one acceptance event; quota | `Goals` |
| check-ins | check_ins, evidence, reviews, streak and health of the goal, first-proof event | create, add evidence, submit, review | goals, object store, initiatives, events | the status and the streak are those of the recorded reviews; decisions are final; evidence cap; files stored before their rows | `CheckIns`, `ReviewLoop` |
| daily log | a row per day, a streak row per membership | submit, freeze, skip, rollover, prompt | teams (membership), Telegram, team proofs | a day counts once; freeze limit; past days are closed | `DailyLog` |
| circles | circles, memberships, invitations, seasons | create, join by code, invite, accept, decline, complete a season lazily, end it (which always fails) | goals | member limit; a dead circle stays dead | `Circles` |
| teams | teams, memberships with roles | create, join, change role, remove, leave, archive | daily log, team proofs | one lead; member limit; nobody enters an archived team | `Teams` |
| team proofs | weekly check-ins of a team goal, consumed daily entries | submit, approve, reject | teams (role of the reviewer), daily log, initiatives | an entry is in one proof; a decision is on record and stays | `TeamProof` |
| stakes, milestones, contracts | one row each per goal, forfeitures | create, update, delete, cancel, forfeit, complete, reopen, activate, fulfil | goals | what is settled is final; forfeitures only of settled stakes; places | `Obligations` |
| users | accounts, refresh tokens | register, log in, refresh, log out | everything | rotation never burns the only live token; a dead line stays dead | `Sessions` |
| personalization | daily budget, circuit breaker | a model call with budget and breaker | providers | spending is bounded | `Personalization` |
| community, initiatives | spaces, memberships, initiatives, goals of participants | create, join | teams, check-ins | one goal per participant | `Spaces`; approve in `CheckIns` and `TeamProof` |
| telegram | links, link tokens | ask for a token, redeem, disconnect; callbacks | check-ins, daily log, notifications | nobody is linked again by an old token | `TelegramLinks`; callbacks in `DailyLog`, `CheckIns`, `Notifications` |
| notifications | domain events, notification log | nudge engine, digest | goals, check-ins, Telegram | no event is lost or blocks others; throttle | `Notifications` |
| recaps | recap rows, status `generating/done/failed` | weekly sweep | check-ins, model provider | one recap a week; what a crash costs | `Recaps` |
| companion | fired keys, notifications | nine features of a ticking worker | users, goals, providers, Telegram | a feature fires no more often than its limit; reminders before midnight | `Companion` |
| workspaces, leaderboards, stats, analytics, visibility, buddy, inspiration, admin, authz | flags and read models | single statements | | | left out |
| ai, platform, web, infrastructure | none of their own | | | | left out |

`PROJECT.json` lists every component with its sources and reason, and every
hazard with the line where it bites and the properties that would catch it.

## Modules

`CheckThenInsert` is the abstract specification of a limit that is counted by
one statement and inserted against by a later one. It promises `Bounded`: the
limit is overshot by less than the number of requests that run at once. The
refine quota of `Goals`, the door of `Circles` and the evidence cap of `CheckIns` instantiate it.

`Goals` models the goals service.

| Model | Code |
|---|---|
| `goals`, `pacts`, `invites` | the tables of the same names (`migrations/00001_init.sql`); a goal has one pact and one invite, inserted together |
| `members` | active rows of `circle_memberships`; no operation removes one |
| `expired` | goals whose `expires_at` is past |
| `accepted` | "invite.accepted" events |
| `refines` | rows of the refine log inside the 24 hour window |
| `CreateLoad` / `CreateInsert` | the queries of `CreateGoal`, then the transaction, in which the partial unique index `uniq_circle_owner_active_goal` is the guard |
| `CreateInNewCircle` | the same without a `circle_id`: circle, season, membership and goal in one transaction |
| `AcceptLoad` / `AcceptWrite` / `AcceptEmit` | read by token and check; the transaction with `WHERE status='pending'`; the event, a statement of its own after the commit |
| `RefineCount` / `RefineLog` / `RefineWindowMoves` | count, insert, and time |
| `GoalRequestFails` | any early end between two statements |

`CheckIns` extends `Goals`, so that one specification (`LoopSpec`) interleaves
both services over the same tables.

| Model | Code |
|---|---|
| `checkIns`, `evidence`, `ledger`, `approvals` | check_ins, evidence_items with the stored objects, check_in_reviews, initiative_approvals |
| `progress` | streak and health columns of the goal |
| `CreateCheckIn` | one `INSERT ... SELECT` from the active goal |
| `SubmitLoad`, `SubmitWrite`, `SubmitEmit`, `SubmitCount` | the four statements of `Submit` |
| `EvidenceLoad`, `EvidenceCount`, `PutObject`, `InsertEvidence` | load and check, count, upload, insert |
| `ReviewLoad`, `RecordReview`, `ReviewEmit` | load and check, the transaction (review, status by id, progress), the event |
| `InitiativeApprove` | `Approve` of the initiatives service, one transaction on the same row |

`ReviewLoop` is the abstract review loop: the transitions that the checks of the
service admit when nothing comes between the check and the write. `CheckIns`
refines it through `status <- [c |-> checkIns[c].status]`.

`DailyLog` models the log of one membership; memberships do not share rows.

| Model | Code |
|---|---|
| `entries`, `streak` | daily_log_entries of the membership, its user_streak row; `month` stands for `updated_at`, which only `MonthReset` reads |
| `SubmitReadEntry`, `SubmitReadStreak` | the two reads of `SubmitLog`; the dropped error of the first is a branch |
| `FreezeReadStreak`, `FreezeReadEntry` | the two reads of `FreezeDay`, in its order |
| `SkipReadStreak` | the skip button, which takes any date that was prompted |
| `UpsertEntryAndStreak` | the write transaction all three share |
| `DayRollover` | the rollover as it runs against PostgreSQL, see *Findings* |
| `Midnight` | the local date moves on |

The services around a goal. Each keeps its in-flight requests in a slot variable
(`cireq`, `treq`, `preq`, `oreq`, `sreq`, `call`, `spreq`, `lreq`).

| Module | Model | Code |
|---|---|---|
| `Circles` | `founder`, `seats` (with the door a member came through), `letters`, `seasons`, `over` | circles, circle_memberships, circle_invitations, circle_seasons; seasons past `ends_at` |
| | `JoinCount`, `JoinInsert`, `JoinCommit` | the reads of `JoinCircle`, its insert with the detail read in the same transaction, its commit |
| | `LazyCompleteExpiredSeason` | what every read of a circle does first |
| | `EndLoad`, `MarkSeasonCompleted` | the reads of `EndSeason`, and its first write, which always errors: it sets `updated_at`, a column that no migration gives to `circle_seasons` |
| `Teams` | `crew`, `held` | team_memberships; the join that holds `FOR UPDATE` on the team |
| | `LockTeam`, `ReadPlace`, `TakePlace` | the transaction of `JoinTeam`, statement by statement |
| | `RoleLoad`, `RoleRead`, `RoleUpdate` | the service's check, then the transaction; `uq_team_one_lead` is a guard |
| `TeamProof` | `proofs`, `used`, `noted`, `vouched` | check-ins of the team goal, `consumed_in_check_in_id`, rejection reviews, initiative_approvals |
| | `ReviewLoad`, `ReviewMembership`, `RecordReject`, `UpdateProofStatus` | status and role are read in two statements, the rejection is recorded in a third, the status is written by id |
| | `InitiativeApprove` | `Approve` of the initiatives service, which takes any submitted check-in and asks for no role in the team |
| `Obligations` | `stakes`, `forfeitures`, `milestones`, `contracts` | the tables; the three services share one shape (load and check, write by id) |
| `Sessions` | `tokens`, `expired`, `closed` | refresh_tokens; lines that were logged out of or shown a revoked token |
| | `FindToken`, `MintChild`, `Revoke`, `RevokeChain` | the statements of `Refresh`: the child is minted before the parent is revoked |
| `Personalization` | `breaker`, `spent` | ai_circuit_breakers, ai_daily_budget: checked before a call, charged after it |
| `Spaces` | `roll`, `initiatives`, `parts` | memberships of communities and teams, initiatives, goals with an `initiative_id`; `InsertPart`, `ReturnPart` are the halves of the statement of `JoinOrGet`, on its snapshot |
| `TelegramLinks` | `pending`, `links`, `redeemed` | link tokens and links; the webhook may deliver an update again |

The loops of the worker process.

| Module | Model | Code |
|---|---|---|
| `Notifications` | `inbox`, `done`, `logged`, `engine` | unprocessed domain_events in order, processed ones, notifications_log, and where `tick` is in its batch |
| | `Handle`, `SendSucceeds`, `SendFails`, `SendAnswerLost`, `LogNotification`, `MarkEventProcessed`, `EngineCrash` | policy, send with retries, log and mark, each a step after which the process may die |
| `Recaps` | `due`, `recaps`, `sweep` | goals with an approved check-in in a week, weekly_recaps, the running sweep with the list it read |
| | `InsertRecapFails`, `InsertRecapAnswerLost` | an insert that did not happen, and one that was committed while its answer was lost: the sweep leaves the goal, and the row stays `generating` |
| `Companion` | `hour`, `zone`, `fired`, `loop` | the server's clock, the user's offset, ai_companion_fired, and where the tick is; `EveningPing` ... `LeaderFairPlay` are the features, each with its window, key and limits |

`MCCheckIns`, `MCReviews`, `MCDailyLog`, `MCServices` and `MCWorker`
give the constants their values and compose what is checked together;
the modules ending in `Proofs` hold the theorems.
Definitions introduced by a comment `Mutant:` are single plausible mistakes in
the definition after them; no specification uses them, and each property is
violated by at least one.

## Runs

| Run | Question | Result |
|---|---|---|
| `reviews` | the goals service with two requests, goals and users, a circle and a free circle id; two check-ins of one active goal, two requests, an initiative participant; or one check-in with texts and files, two requests | all hold |
| `review_loop` | goals and check-ins from an empty database, one request of each at a time | refines `ReviewLoop` |
| `daily_log` | three days over a turn of the month, two requests | all hold |
| `services` | each of the services around a goal, two requests | all hold |
| `worker` | the nudge engine, the recap sweep and the companion, with crashes, lost answers and failed writes | all hold, `EveryEventIsProcessed` under fairness |
| `forbidden_transitions` | the documented forbidden transitions, two requests | violated |
| `first_proof` | the first-proof event, one request | violated |
| `same_day_race` | two submissions of one day | violated |
| `rollover` | the rollover of an empty day | violated |
| `owner_choice` | the owner's choice at the end of a season, one request | violated |
| `reminder` | the streak reminder before midnight, nothing going wrong | violated |
| `friday_recap` | the weekly recap, followed into the second month, nothing going wrong | violated |

What the properties say, beyond their comments in the modules: the concurrent
reviews the code admits *do* overwrite each other's decisions, so the strong
statement (a decision is final) is false; what does hold is that the status, the
streak and the events always agree with **some** recorded review
(`DecisionIsOnRecord`, `StreakIsReplayOfReviews`, `EventsAreBacked`) and that a
decision is final from the moment no older request is in flight
(`SettledIsFinal`). What a reviewer was shown stays as it is, but for the evidence
of requests that held the check-in before it was submitted
(`EvidenceIsFrozen`). With one request at a time the documented loop holds
(`ReviewLoopSpec`). In the same way the daily log bounds what overlap can do
(`StreakHasDays`) where exactness fails (`OneIncrementPerDay`).

The same split runs through the services. Circles count without a lock, so
`JoinLimit` allows an overshoot by less than the requests in flight; teams lock
the row, so `CrewWithinLimit` is exact. `ProofSettled`,
`SettledObligationsAreFinal` and `DeadLineStaysDead` are the finality that
remains when a status is written by id: nothing moves once the requests that
read the row before are gone. `ProofDecisionOnRecord` says what a decision on a
team proof rests on: an approval may come from a role of the team or, through an
initiative, from no role at all. In the worker, where every write follows what it
reports, `NudgesAccountedFor`, `RecapsAccountedFor` and `LimitsHold` charge each
repetition, each stuck row and each extra delivery to one fault of its own;
without faults they say "at most once". `LimitsHold` leaves out one
case, the brief of a lead whose Monday 09:00 is still the server's Sunday (not
`SameMonday`): its record can be dropped, see *Findings*. The weekly recap, which
can be refused, is refused for one reason alone: a record of at least four
weeks ago with the same day of the month (`RecapUnlessKeyTaken`).

### Composition and focus

`CheckIns` extends `Goals` and runs with it over the same tables. The services of
`MCServices` share no table but the memberships a team proof's reviewer is
checked against, and the loops of `MCWorker` share none. A behaviour of those
runs therefore sends its requests to one of them, the `focus`, while the others
keep their initial values: the product of independent services would multiply
states and add no behaviour that any property can see. `TeamProof` is checked over `Teams`
in two parts, submissions from an empty table, and reviews from a table of
submitted proofs while roles change. `MCReviews` separates in the same way the
goals service, the reviews and the uploads.

### Bounds

- Slots: two requests per service. Every hazard of the list needs two; most
  properties are proved for any number (see *Proofs*).
- `RefineLimit = 1`, `MaxEvidence = 1`, `MaxFreezes = 1` in the runs: the limit
  is reached at once and can be passed. The code has 5, 20 and 2.
- `MaxReviews` (reviews recorded per goal) is 2 in the concurrent runs, enough
  for two decisions to meet, and 3 in `review_loop`. `MaxUploads` bounds stored
  objects of a check-in, which failed requests would pile up. `LastDay = 2`:
  the day that is closed, yesterday and today, with the month turning between.
  `MaxRecounts = 1` skip or failed read. Each bound is a constant that
  stands in a guard of the model and in no guard of the code.
- `MCFromActiveGoal` starts where an accepted invite leaves the goals service,
  a state `review_loop` reaches from the empty tables.
- `services`: three accounts where a limit of two must be passable; three refresh tokens, a line of
  two rotations or two lines; `TokenLimit` and `MaxCost` of 2, so that two calls
  pass the budget; one invitation to a circle open at a time
  (`OneLetter`); one role request at a time beside the reviews of a proof.
- `worker`: three events against a batch of two, so that the order across
  batches matters; two attempts where the code has three; two weeks and goals; one fault in each behaviour,
  chosen at any step. The companion's clock runs for a month where keys repeat
  with the day of the month, and for 36 days for the weekly recap, whose fifth Friday
  meets the key of the first, a week for weekly limits, three nights for the
  reminder, in three zones on both sides of the server's midnight. The calendar
  starts on Monday 2 February of a common year and has months of 28 days: it is
  exact up to 28 March, beyond every horizon of the runs; a theorem, which holds for any
  number of days, speaks of that calendar.
- Symmetry is over slots, goals and check-ins, which no definition tells apart,
  and over users only where the run starts from empty tables. In `services` the
  tables share a few values as ids, so that one group of permutations serves all
  of them. It is used with safety properties only; `worker`, which checks a
  liveness property, has none.
- `CHECK_DEADLOCK FALSE` where all rows of a bounded table can be used up and
  nothing is left to ask for.

### Fairness and liveness

The services act only when a user calls them, and nothing in the code makes a
user call; a request may die at any statement and nothing retries it. So their
specifications assume no fairness, and where something can be *stuck for good*
the models say so as safety: `DeadInviteStaysDead`, `DeadCircleStaysDead`.

The nudge engine is different: `Run` is a ticker loop that the worker process
keeps in a goroutine of its own, and a process that dies is started again by its
container (`restart: unless-stopped` in `infra/docker/compose.prod.yml`). `Engine`, all the steps of the loop except crashes and lost answers,
is therefore weakly fair (`WF_nudgeVars(Engine)`), while Telegram's answers and
faults are not; faults are finitely many, as a worker that dies for ever does
nothing. Under that fairness alone every event is processed
(`EveryEventIsProcessed`): an event Telegram refuses is given up after the
attempts and marked, and does not block those behind it. The mutant that keeps such an
event violates it. The recap sweep and the companion have no such promise:
a row left `generating` is never swept again, and the key of a companion trigger
may keep a later one from firing; both are stated as what may go wrong at most.

## Findings

Each has a violation run and is quoted in `PROJECT.json`.

1. `checkins`: `UPDATE ... WHERE id = $1` overwrites a decision made since the
   load; `docs/architecture/status-transitions.md:57-61` forbids it.
2. `checkins`: the first-proof event fires again after a resubmission;
   `checkins/service.go:140` says exactly once per user.
3. `dailylog`: two submissions of a day can add two increments; the phase-1
   design, line 254, says one.
4. `dailylog`: `DayRollover` waits for `ErrEntryNotFound`, PostgreSQL's
   repository returns `pgx.ErrNoRows`; missed days are never recorded. The run is
   about days whose rollover ran; a day on which the worker was down is not
   looked at again either, which no property states.
5. `circles`: any read of the circle completes a season that ran out, and then
   `EndSeason` lets nobody in; `circles/domain.go` says the owner can extend it.
   Whoever comes before that is let in and fails, see *Not modelled*.
6. `companion`: the streak reminder is looked up under the user's date and
   recorded under the server's, so the next day goes without one; the comment in
   `companion/worker.go` says four hours before midnight.
7. `companion`: the week in a weekly key is written with `Format("2006-W02")`, and
   `02` is the day of the month. Friday 6 March has the key of Friday
   6 February, and its recap is refused; the design of the companion says every
   Friday at 18:00. It came from the proof of `LimitsHold`: the induction asked that a delivery
   leaves a row of its period, which it does not when the key is on record already.

Three of them are proved to have one cause: with one request at a time no
forbidden transition happens (`ForbiddenAlone`) and no day counts twice
(`OneIncrementAlone`), and in the first four weeks no recap is refused
(`FourWeeksOfRecaps`). The reminder has no such theorem: in the zone of the server,
too, a record written just after midnight counts for the next day.

Disagreements seen while modelling and not made into runs: a lead's brief is
looked up under the user's date and recorded under the server's, and where that
key is on record from an earlier month `ON CONFLICT DO NOTHING` drops the new
row, nothing is counted, and the brief of the lead's second team goes out in the
same week, although `FeatureMeta` allows one (the case `LimitsHold` leaves out);
submit does not ask for evidence (status-transitions.md asks for it); any circle member may review
where the document names the buddy; a request for changes emits
"checkin.approved", which the nudge engine announces as an approval; an
initiative approval moves the status but not the streak of the goal; the loser of two
concurrent `JoinOrGet` may be answered with an error although the comment calls it
idempotent (a second try finds the goal, see `OneGoalPerParticipant`); a link token
is spent even when the link that follows fails, and a chat stays taken by a row
that was disconnected; `contracts` never become `broken`, since nothing calls
`MarkBrokenOverdue`.

## Proofs

Everything is proved for arbitrary constants under the named assumptions of the
modules (`GoalsAssumption`, `CheckInsAssumption`, `DailyLogAssumption`,
`SessionsAssumption`, ...; `LimitOK` is a hypothesis of `Overshoot`): finite sets
of slots, positive limits, no id that is also the missing id, and in `Obligations`
ids that tell their table. TLC evaluates the assumptions in every run.

Each invariant below was first checked by TLC on the instance of its run.

- `GoalsProofs`, the abstract limit and the goals. `Overshoot`: `Bounded` is
  inductive together with the types, because a request that passes the check takes a
  place that was free in the table *and* among the requests, and an insert only moves it
  from one to the other. Of the goals: types, then `Agreement` (inductive with the
  types), then `Membership`, which needs that a request about to insert still has
  its actor in the circle, because `members` only grows; `OneOpenGoal`, where the
  guard of the unique index does the work (the request's own read is not needed)
  and a new circle is free of goals because the owner of an open goal is a member
  of its circle; `OneEvent`, whose invariant (`AnnounceInv`) says that at most one
  request holds the right to announce a goal's acceptance, and only until the
  event is there; `QuotaIsCheckThenInsert`, the refinement of `CheckThenInsert` by the
  refine log of each user (a request that counts takes a place of the abstract
  one, an attempt is an insert, everything else stutters), and `Quotas`, the
  bound for all users at once; `DeadInvites`, an action property: each step keeps a dead invite dead
  and its goal open.
- `CheckInsProofs`: the invariants of `reviews` about check-ins and its action
  properties.
  The types carry what a request knows between its statements (the check-in it
  is about exists; a request about to emit has a review on record).
  `Decisions` and `BackedEvents` are inductive with them, because reviews are
  only ever appended. `Replay` needs that a review and the columns it
  moves are one transaction. `EvidenceIsCheckThenInsert` is the refinement of
  `CheckThenInsert` by the evidence of each check-in, and `EvidenceLimit` the bound
  that follows; `LoopTyping` and `CountsHold` put types and counted limits of goals
  and check-ins together, as `reviews` checks them (`LoopTypeOK`, `CountedLimits`);
  `Settles` and `EvidenceFreezes` are action properties about the
  requests in flight: the second says that only a request past its load adds
  evidence, and that none gets past it where the check-in cannot be edited
  (`AddsToEditable`). `OneAtATime` is the refinement: with one slot and no
  initiative participant, what a request loaded is still so when it writes, and
  then every step is a step of `ReviewLoop` or leaves its state alone; `ForbiddenAlone`
  follows from it, since no step of `ReviewLoop` is one of the forbidden ones.
- `DailyLogProofs`: a lemma says what any step does to one request, and each
  fact about the streak row is proved together with the same fact about every
  row some request is about to write. `Freezes` needs in addition that a freeze
  between its two reads still has room. `ClosedDays` is an action property.
  `StreaksHaveDays` needs a balance (`StreakCovered`): a write that counts a day
  closes it, and the budget this adds, one for each slot, pays at once for every
  request that has read the day as open (`Due`), whether or not it comes to
  write; a row in hand is covered but for the count that is in it. With one slot the
  bound is exact (`OneIncrementAlone`).
- `TeamsProofs`, teams and the proofs of their goals. `TheOneLead` is inductive
  with the types, since the creator is the only lead there ever was. For
  `CrewLimit` the strengthening is that at most one join holds the team, only that
  one adds a member, and its count was taken since it holds the lock, so it can
  only have become too large. `OneProofPerEntry` rests on the guarded update that
  takes all the entries of a proof or none; `DecisionsBacked` on what a request
  has read of the role and, where an initiative approved, on its approval
  (`InitiativeInv`), `ProofsSettle` on who still holds the proof.
- `CirclesProofs`: the invariant says that circles and ended seasons stay, all a
  request can rely on between its statements. `CodeLimit` is `Overshoot` for every circle;
  `DeadCircles`, an action property, says that a circle whose season a reader completed
  gets no season, no member by code and no invitation again.
- `ObligationsProofs`: no statement that writes asks for the status, so the
  argument is about who holds the id of a row. Lemma `NobodyNew` says that
  nobody can take the id of a settled row; `SettledIsFinal` and the count of
  `ForfeituresAreBacked` follow. `PlacesAreShared` counts, for each place, the
  milestones that were created there and the requests that carry it to an insert
  (`PlacesFit`): a request that reads the order gets a place with no milestone
  (`OrderIsFree`), and every other step moves from the one count to the other or lowers one.
- `ServicesProofs`, sessions, spaces, chat links, and all services together. A refresh hangs a token under
  the one it was given, so the tokens are a forest; `SessionInv` says that every
  token has one root, and that a line nobody closed has a leaf that is live. A
  refresh revokes its token only after the child is there, so what it revokes is
  no leaf, and another refresh of the same token hangs a second leaf:
  `RotationIsSafe`. `Ancestors` climbs from parent to parent as often as there are
  tokens; that this is closed under parents (`ReachedIsClosed`) is the pigeonhole
  argument, and `ReachedWithChild` says that a new leaf changes nobody else's
  ancestors. `DeadLinesAreFinal` and `DisconnectionIsFinal` are action
  properties. `JoiningIsIdempotent` says what a join that has seen a goal may
  rely on: the row is there, and is its own. `ServicesRunServices` shows that what
  `services` runs implements the specification of each service that shares no
  table; teams and proofs begin there in states of their own, a formed team and
  submitted proofs, which satisfy the same invariants (`FormedTeamInv`,
  `SubmittedProofsInv`), so `FormedTeamsGoOn` and `ServicesTyping` follow.
- `WorkerProofs`, the loops of the worker and the budget of the AI. All four are
  balances. `BudgetHolds` adds, over the calls in flight, what each may still
  cost (`ClaimsBounded`) and what each has cost and not charged (`CostsBooked`).
  `NudgesArePaidFor` adds the repetitions of every event (`RepeatsArePaid`) and
  sets the day's messages against the rows of the log (`TodayIsPaid`); an event
  that is *settled*, sent and only to be logged and marked, is what a fault opens
  again. `RecapsArePaidFor` says that a sweep works on a slot nobody else has, and
  that every step that leaves one generating is a lapse.
  `CompanionKeepsItsLimits` is about clocks: deliveries of the period are rows of the
  period or mishaps (`WithinCount`), which needs that no key is of a day to come
  and that a tick of the first minutes does not outlast its hour; for the weekly recap,
  whose record can be refused, `RecapOnce` uses that its hour comes once in a
  week of the server. `OnlyOldKeysHoldRecapsBack` adds what that hour finds
  (`RecapReaches`): the week has no row before it, so its limit is free; every row
  carries the day of the month on which it was written, and two days of different
  weeks that share it are four weeks apart. `FourWeeksOfRecaps` follows, as no
  record is then that old. `WorkerRunsItsLoops` shows that the process implements the
  specification of each loop, fairness included, and `WorkerTyping` follows.

Arguments by induction over data are done without an induction rule: a set of
numbers without the property has a smallest element (`Smallest`, `CountingUp`,
`TakingOut`), which is how sums over finite sets, the climbing of `Ancestors`
and the largest place are reasoned about. Sums are functions (`Adder`), and
`RepeatsAreSummed` shows that the fold in `NudgesAccountedFor` is one of them.

Some of these theorems state properties no run lists, because a stronger or more telling
one took their place there: `Membership`, `Record`, `RemovedOnes`
and the typing of single services and loops, which `reviews`, `services`
and `worker` check as `LoopTypeOK`, `ServicesTypeOK` and `WorkerTypeOK`; the two counted
limits, `Quotas` and `EvidenceLimit`, are checked together as `CountedLimits`.

Model-checked only: `EveryEventIsProcessed`, since liveness under fairness is out of the prover's
reach; and the violations.

## Assumed and not modelled

- Goals that joining an initiative inserts (`JoinOrGet`) have no pact and no
  invite; they are the `parts` of `Spaces`. `Goals` and `CheckIns` are about
  the goals of `CreateGoal`, so `PactAgreement` says nothing of the others.
- No code binds a goal to a team. `TeamProof` takes such goals as given: a
  constraint of the database keeps them out of circles (`migrations/00012_team_extensions.sql`),
  and that they have no buddy is assumed, so that the reviews of the check-in
  service refuse their proofs and only the initiatives service reaches them.
- The extension of a season and the choice of its owner: `EndSeason` writes
  `updated_at` into `circle_seasons`, which has no such column (00002 creates the
  table, 00007 alters it). The statement always errors and what follows it in
  the code never runs, so no season is extended in the model either.
- The handler that assembles a team proof with the AI: its query selects
  `goal_id`, which `daily_log_entries` has in no migration, so it ends with
  an error before it asks the model.

- The digest worker of notifications: its query names a table `circle_members`
  that no migration creates, so each of its ticks ends with an error.
- `PendingProofs` of initiatives: it selects a column `ci.text_evidence` that no
  migration creates.
- Accepting, rejecting and dismissing what the companion has proposed: a draft
  is read and then consumed by an unguarded update, over check-ins whose own
  operations are in `CheckIns`. The wording of prompts, and the queries that
  gather context for them, are data.
- `PromptWorker` of the daily log: every five minutes it asks Telegram users for
  the day between 19:00 and 19:05 and records nothing, so a second
  tick in the window asks again; no state of ours depends on it.
- Comments and the feed of team proofs, the regeneration of a team's invite code
  and the consent flag: one statement each that no transition reads.
- Access sessions, mail, the answer cache of the refine endpoint, and read-only
  handlers.
- Workspaces, leaderboards, stats, analytics, visibility, buddy, inspiration,
  admin and authz: read models and single statements without a protocol.
- The model providers, Telegram's Bot API and the object store are external; the
  models keep what their callers can observe of them: an answer, an error, or
  an answer that is lost.
