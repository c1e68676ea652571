---------------------------- MODULE Notifications ----------------------------
(***************************************************************************)
(* The nudge engine: one loop of the worker process that reads the domain  *)
(* events in the order they were created, sends what they ask for by       *)
(* Telegram, logs it and marks the event processed, each with a statement  *)
(* of its own.  The policy counts today's log; the key of a log row is     *)
(* unique, but nothing looks it up before sending.                         *)
(* One addressee: policy, log and chat are per user, and users share       *)
(* nothing but the loop.                                                   *)
(***************************************************************************)
EXTENDS Naturals, FiniteSets, SequencesExt

CONSTANTS
    Event,       \* ids of domain events
    BatchSize,   \* events read by one tick
    NudgeLimit,  \* maxNudgesPerDay
    Attempts,    \* of one message
    MaxFaults    \* bound of the model: lost answers, crashes, failed writes

ASSUME NotificationsAssumption ==
    /\ IsFiniteSet(Event)
    /\ BatchSize \in Nat \ {0} /\ Attempts \in Nat \ {0}
    /\ NudgeLimit \in Nat /\ MaxFaults \in Nat

VARIABLES
    inbox,    \* domain_events without processed_at, by created_at
    kind,     \* of each event: "absent", or the branch of handle it takes
    done,     \* events with processed_at
    logged,   \* notifications_log: events with a row of today
    quiet,    \* a 'quiet' row of today
    engine,   \* the loop: the events it has read, and its place in the first
    sent,     \* messages of each event that reached Telegram (history)
    today,    \* nudges of today that reached Telegram (history)
    faults    \* faults so far (history)

nudgeVars == <<inbox, kind, done, logged, quiet, engine, sent, today, faults>>

\* checkin.submitted asks the buddy for a review; the other kinds that a service
\* emits (checkin.approved, checkin.rejected, invite.accepted) nudge.
Kind == {"submitted", "nudge"}

IdleEngine == [step |-> "idle", batch |-> <<>>, tries |-> 0]

Step == {"idle", "handle", "send", "log", "mark"}

NotificationsTypeOK ==
    /\ inbox \in Seq(Event)
    /\ kind \in [Event -> Kind \cup {"absent"}]
    /\ done \in SUBSET Event
    /\ logged \in SUBSET Event
    /\ quiet \in BOOLEAN
    /\ engine \in [step : Step, batch : Seq(Event), tries : 0..Attempts]
    /\ sent \in [Event -> Nat]
    /\ today \in Nat
    /\ faults \in 0..MaxFaults

NotificationsInit ==
    /\ inbox = <<>>
    /\ kind = [e \in Event |-> "absent"]
    /\ done = {} /\ logged = {}
    /\ quiet = FALSE
    /\ engine = IdleEngine
    /\ sent = [e \in Event |-> 0]
    /\ today = 0
    /\ faults = 0

-----------------------------------------------------------------------------
(* Helpers.                                                                *)

Current == Head(engine.batch)

\* On with the current event, or with the next one of the batch.
At(step) == engine' = [engine EXCEPT !.step = step, !.tries = 0]

NextEvent ==
    engine' = IF Len(engine.batch) = 1 THEN IdleEngine
              ELSE [step |-> "handle", batch |-> Tail(engine.batch), tries |-> 0]

Fault == faults < MaxFaults /\ faults' = faults + 1

\* Mutant: the limit is compared with <= instead of <.
CanSendNudgeOneMore == ~ quiet /\ Cardinality(logged) <= NudgeLimit

CanSendNudge == ~ quiet /\ Cardinality(logged) < NudgeLimit

-----------------------------------------------------------------------------

\* A service emits, and the user asks for silence for the rest of the day.
Emit(e, k) ==
    /\ kind[e] = "absent"
    /\ kind' = [kind EXCEPT ![e] = k]
    /\ inbox' = Append(inbox, e)
    /\ UNCHANGED <<done, logged, quiet, engine, sent, today, faults>>

SetQuietToday ==
    /\ ~ quiet
    /\ quiet' = TRUE
    /\ UNCHANGED <<inbox, kind, done, logged, engine, sent, today, faults>>

\* Midnight, UTC: neither the rows nor the keys of yesterday matter any more.
NextDay ==
    /\ quiet \/ logged # {} \/ today > 0
    /\ logged' = {} /\ quiet' = FALSE /\ today' = 0
    /\ UNCHANGED <<inbox, kind, done, engine, sent, faults>>

\* GetUnprocessedEvents.
Tick ==
    /\ engine.step = "idle"
    /\ inbox # <<>>
    /\ engine' = [step |-> "handle", tries |-> 0,
                  batch |-> SubSeq(inbox, 1, Min({BatchSize, Len(inbox)}))]
    /\ UNCHANGED <<inbox, kind, done, logged, quiet, sent, today, faults>>

\* handle: the policy, for a nudge; then whether there is a chat to send to
\* (and an active pact, for a request).  If not, that is all.
Handle ==
    /\ engine.step = "handle"
    /\ \/ /\ kind[Current] = "submitted" \/ CanSendNudge
          /\ At("send")
       \/ At("mark")
    /\ UNCHANGED <<inbox, kind, done, logged, quiet, sent, today, faults>>

Sent(e) ==
    /\ sent' = [sent EXCEPT ![e] = @ + 1]
    /\ today' = IF kind[e] = "nudge" THEN today + 1 ELSE today

\* Only nudges are logged.
SendSucceeds ==
    /\ engine.step = "send"
    /\ Sent(Current)
    /\ At(IF kind[Current] = "nudge" THEN "log" ELSE "mark")
    /\ UNCHANGED <<inbox, kind, done, logged, quiet, faults>>

\* Mutant: the attempts are not counted.
RetryNoLimit == engine' = [engine EXCEPT !.tries = @ + 1]

\* Mutant: the error of the last attempt ends the tick, and keeps the event.
RetryKeepsEvent ==
    IF engine.tries + 1 < Attempts
    THEN engine' = [engine EXCEPT !.tries = @ + 1]
    ELSE engine' = IdleEngine

\* An attempt that fails, or whose answer is lost, is repeated; the error of
\* the last one ends the handler, which does not keep the event.
Retry ==
    IF engine.tries + 1 < Attempts
    THEN engine' = [engine EXCEPT !.tries = @ + 1]
    ELSE At("mark")

SendFails ==
    /\ engine.step = "send"
    /\ Retry
    /\ UNCHANGED <<inbox, kind, done, logged, quiet, sent, today, faults>>

SendAnswerLost ==
    /\ engine.step = "send"
    /\ Fault
    /\ Sent(Current)
    /\ Retry
    /\ UNCHANGED <<inbox, kind, done, logged, quiet>>

\* ON CONFLICT (dedup_key) DO NOTHING; an error is only logged.
LogNotification ==
    /\ engine.step = "log"
    /\ \/ logged' = logged \cup {Current} /\ UNCHANGED faults
       \/ Fault /\ UNCHANGED logged
    /\ At("mark")
    /\ UNCHANGED <<inbox, kind, done, quiet, sent, today>>

\* By id, whatever became of the message.  After an error the event is read
\* again by a later tick.
MarkEventProcessed ==
    /\ engine.step = "mark"
    /\ \/ /\ done' = done \cup {Current}
          /\ inbox' = RemoveFirst(inbox, Current)
          /\ UNCHANGED faults
       \/ Fault /\ UNCHANGED <<done, inbox>>
    /\ NextEvent
    /\ UNCHANGED <<kind, logged, quiet, sent, today>>

\* The process is killed and started again.
EngineCrash ==
    /\ engine.step # "idle"
    /\ Fault
    /\ engine' = IdleEngine
    /\ UNCHANGED <<inbox, kind, done, logged, quiet, sent, today>>

Engine == Tick \/ Handle \/ SendSucceeds \/ SendFails \/ LogNotification \/ MarkEventProcessed

NotificationsNext ==
    \/ \E e \in Event, k \in Kind : Emit(e, k)
    \/ SetQuietToday
    \/ NextDay
    \/ Engine
    \/ SendAnswerLost
    \/ EngineCrash

\* The ticker keeps the loop going, and each of its steps ends: a statement
\* or a call to Telegram returns, if only with an error.
NotificationsSpec ==
    NotificationsInit /\ [][NotificationsNext]_nudgeVars /\ WF_nudgeVars(Engine)

-----------------------------------------------------------------------------
(* Properties.                                                             *)

(* A message is sent a second time only after a fault (a lost answer, a    *)
(* crash, a failed write), and each fault repeats one message at most; and *)
(* in one day a user gets no more nudges than the limit and the faults.    *)
NudgesAccountedFor ==
    /\ MapThenSumSet(LAMBDA e : IF sent[e] = 0 THEN 0 ELSE sent[e] - 1, Event) <= faults
    /\ today <= NudgeLimit + faults

(* Whatever Telegram answers, and wherever the worker is killed, every     *)
(* event is processed in the end: none blocks those behind it.             *)
EveryEventIsProcessed ==
    \A e \in Event : kind[e] # "absent" ~> e \in done

=============================================================================
