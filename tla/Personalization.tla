--------------------------- MODULE Personalization ---------------------------
(***************************************************************************)
(* Calls to the language model: by the handlers of the API, the evening    *)
(* prompts and the companion.  A call reads the breaker of its feature,    *)
(* then the budget of the day, then asks the provider, then charges the    *)
(* budget, each a statement of its own; whatever stops it on the way, the  *)
(* caller gets a template instead.                                         *)
(* Breaker and budget are looked up by the feature and by the day on which *)
(* the call began, so one of each is modelled.                             *)
(***************************************************************************)
EXTENDS Naturals, FiniteSets

CONSTANTS
    Caller,      \* calls that can be in flight
    TokenLimit,  \* budgetLimit
    MaxCost,     \* bound of the model: tokens of one call
    MaxMislaid   \* bound of the model: calls whose tokens are not charged

ASSUME PersonalizationAssumption ==
    /\ IsFiniteSet(Caller)
    /\ TokenLimit \in Nat /\ MaxCost \in Nat \ {0} /\ MaxMislaid \in Nat

VARIABLES
    breaker,   \* ai_circuit_breakers: open for good, until later, or expired
    spent,      \* tokens_used of the day
    call,      \* what each call in flight does next, and what it has cost
    burnt,     \* tokens the provider has taken for the day (history)
    mislaid    \* calls whose tokens were not charged (history)

promptVars == <<breaker, spent, call, burnt, mislaid>>

IdleCall == [step |-> "idle", cost |-> 0]

PersonalizationTypeOK ==
    /\ breaker \in {"closed", "open", "later", "expired"}
    /\ spent \in Nat /\ burnt \in Nat
    /\ call \in [Caller -> [step : {"idle", "circuit", "recover", "budget", "prompt", "charge"},
                            cost : 0..MaxCost]]
    /\ mislaid \in 0..MaxMislaid

PersonalizationInit ==
    /\ breaker = "closed"
    /\ spent = 0 /\ burnt = 0
    /\ call = [c \in Caller |-> IdleCall]
    /\ mislaid = 0

CallAt(c, step) == call' = [call EXCEPT ![c].step = step]

EndCall(c) == call' = [call EXCEPT ![c] = IdleCall]

Mislay == mislaid < MaxMislaid /\ mislaid' = mislaid + 1

-----------------------------------------------------------------------------

\* An operator writes the breaker by hand; time passes.
SetBreaker(state) ==
    /\ breaker # state
    /\ breaker' = state
    /\ UNCHANGED <<spent, call, burnt, mislaid>>

BreakerExpires == breaker = "later" /\ SetBreaker("expired")

\* Somebody asks, in a team whose mode is not 'off'.
Ask(c) ==
    /\ call[c].step = "idle"
    /\ CallAt(c, "circuit")
    /\ UNCHANGED <<breaker, spent, burnt, mislaid>>

\* CheckCircuit: an open breaker ends the call, an expired one is closed.
CheckCircuit(c) ==
    /\ call[c].step = "circuit"
    /\ CASE breaker = "closed" -> CallAt(c, "budget")
         [] breaker = "expired" -> CallAt(c, "recover")
         [] OTHER -> EndCall(c)
    /\ UNCHANGED <<breaker, spent, burnt, mislaid>>

\* Whatever has been written to it meanwhile; an error is dropped.
Recover(c) ==
    /\ call[c].step = "recover"
    /\ breaker' \in {"closed", breaker}
    /\ CallAt(c, "budget")
    /\ UNCHANGED <<spent, burnt, mislaid>>

\* Mutant: the budget may be reached, and one call more.
CheckBudgetOneMore(c) ==
    /\ call[c].step = "budget"
    /\ IF spent <= TokenLimit THEN CallAt(c, "prompt") ELSE EndCall(c)
    /\ UNCHANGED <<breaker, spent, burnt, mislaid>>

CheckBudget(c) ==
    /\ call[c].step = "budget"
    /\ IF spent < TokenLimit THEN CallAt(c, "prompt") ELSE EndCall(c)
    /\ UNCHANGED <<breaker, spent, burnt, mislaid>>

\* The provider answers in time.
Prompt(c) ==
    /\ call[c].step = "prompt"
    /\ \E k \in 1..MaxCost :
         /\ burnt' = burnt + k
         /\ call' = [call EXCEPT ![c] = [step |-> "charge", cost |-> k]]
    /\ UNCHANGED <<breaker, spent, mislaid>>

\* Increment, one update of the day's row.
Increment(c) ==
    /\ call[c].step = "charge"
    /\ spent' = spent + call[c].cost
    /\ EndCall(c)
    /\ UNCHANGED <<breaker, burnt, mislaid>>

\* An error on the way, or a killed process: the caller takes a template.
CallFails(c) ==
    /\ call[c].step \notin {"idle", "charge"}
    /\ EndCall(c)
    /\ UNCHANGED <<breaker, spent, burnt, mislaid>>

\* The provider has answered too late, or the update is lost: nobody charges
\* what the call has cost.
TokensMislaid(c) ==
    /\ \/ call[c].step = "charge" /\ UNCHANGED burnt
       \/ call[c].step = "prompt" /\ \E k \in 1..MaxCost : burnt' = burnt + k
    /\ Mislay
    /\ EndCall(c)
    /\ UNCHANGED <<breaker, spent>>

PersonalizationNext ==
    \/ \E state \in {"closed", "open", "later"} : SetBreaker(state)
    \/ BreakerExpires
    \/ \E c \in Caller :
         \/ Ask(c)
         \/ CheckCircuit(c)
         \/ Recover(c)
         \/ CheckBudget(c)
         \/ Prompt(c)
         \/ Increment(c)
         \/ CallFails(c)
         \/ TokensMislaid(c)

PersonalizationSpec == PersonalizationInit /\ [][PersonalizationNext]_promptVars

-----------------------------------------------------------------------------
(* Properties.                                                             *)

(* The budget is checked before a call and charged after it, by processes  *)
(* that do not wait for one another: what the provider takes in a day      *)
(* passes the budget by less than the calls in flight can cost, and by     *)
(* what each call that was never charged has cost.                         *)
SpendingBounded ==
    burnt > 0 => burnt < TokenLimit + MaxCost * (Cardinality(Caller) + mislaid)

=============================================================================
