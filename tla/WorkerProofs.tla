--------------------------- MODULE WorkerProofs ----------------------------
(***************************************************************************)
(* Proofs about what works in the background: the loops of the worker      *)
(* process and the budget of the AI they call, for every number of events, *)
(* goals, weeks, calls and faults.                                         *)
(* All of it is bookkeeping: nothing is sent, generated or spent exactly   *)
(* once, so the claims say what pays for every excess. The first section   *)
(* is what that takes, sums over a finite set of numbers that change one   *)
(* at a time.                                                              *)
(***************************************************************************)
EXTENDS MCWorker, Personalization, FiniteSetTheorems, SequenceTheorems,
        WellFoundedInduction, TLAPS

-----------------------------------------------------------------------------
(* Sums over a finite set.                                                 *)

\* Induction is replaced by the smallest counterexample.
LEMMA Smallest ==
  ASSUME NEW T \in SUBSET Nat, T # {}
  PROVE  \E n \in T : \A m \in T : n <= m
<1> DEFINE R == OpToRel(<, Nat)
<1>1. IsWellFoundedOn(R, Nat)
  BY NatLessThanWellFounded, Zenon
<1>2. \A x, y \in Nat : x < y => <<x, y>> \in R
  BY DEF OpToRel
<1> HIDE DEF R
<1>3. PICK n \in T : \A m \in T : ~ (<<m, n>> \in R)
  BY <1>1, WFMin
<1>4. \A m \in T : ~ (m < n)
  BY <1>2, <1>3
<1>5. \A m \in T : n <= m
  BY <1>4
<1> QED
  BY <1>5

LEMMA CountingUp ==
  ASSUME NEW N \in Nat, NEW S, 0 \in S, \A n \in 1..N : n - 1 \in S => n \in S
  PROVE  0..N \subseteq S
<1> DEFINE bad == 0..N \ S
<1> SUFFICES ASSUME bad # {} PROVE FALSE
  OBVIOUS
<1>1. PICK k \in bad : \A m \in bad : k <= m
  <2>1. bad \in SUBSET Nat
    OBVIOUS
  <2> HIDE DEF bad
  <2> QED
    BY <2>1, Smallest
<1>2. k \in 1..N
  BY <1>1
<1>3. k - 1 \in 0..N /\ ~ (k <= k - 1)
  BY <1>2
<1>4. k - 1 \in S
  BY <1>1, <1>3
<1> QED
  BY <1>1, <1>2, <1>4

\* The element a fold takes first, and what is left.
Pick(s) == CHOOSE x \in s : TRUE

Rest(s) == s \ {Pick(s)}

LEMMA RestIsSmaller ==
  ASSUME NEW S, IsFiniteSet(S), NEW s \in SUBSET S, s # {}
  PROVE  /\ Pick(s) \in s /\ Rest(s) \in SUBSET S
         /\ Cardinality(s) \in Nat /\ Cardinality(Rest(s)) \in Nat
         /\ Cardinality(s) = Cardinality(Rest(s)) + 1
<1>1. Pick(s) \in s
  BY DEF Pick
<1>2. IsFiniteSet(s)
  BY FS_Subset
<1>3. Cardinality(s \ {Pick(s)}) = Cardinality(s) - 1 /\ IsFiniteSet(s \ {Pick(s)})
  BY <1>1, <1>2, FS_RemoveElement
<1>4. Cardinality(s) \in Nat /\ Cardinality(s \ {Pick(s)}) \in Nat
  BY <1>2, <1>3, FS_CardinalityType
<1> QED
  BY <1>1, <1>3, <1>4 DEF Rest

\* What holds of the empty set, and of a set when it holds of the rest.
LEMMA TakingOut ==
  ASSUME NEW S, IsFiniteSet(S), NEW Q, {} \in Q,
         \A s \in SUBSET S : s # {} /\ Rest(s) \in Q => s \in Q
  PROVE  SUBSET S \subseteq Q
<1> DEFINE N == Cardinality(S)
           K == {n \in 0..N : \A s \in SUBSET S : Cardinality(s) = n => s \in Q}
<1>1. N \in Nat
  BY FS_CardinalityType
<1>2. 0 \in K
  <2>1. ASSUME NEW s \in SUBSET S, Cardinality(s) = 0 PROVE s = {}
    <3>1. s # {} => Cardinality(Rest(s)) \in Nat /\ 0 = Cardinality(Rest(s)) + 1
      BY <2>1, RestIsSmaller
    <3> QED
      BY <3>1
  <2>2. \A s \in SUBSET S : Cardinality(s) = 0 => s \in Q
    BY <2>1
  <2>3. 0 \in 0..N
    BY <1>1
  <2> QED
    BY <2>2, <2>3
<1>3. ASSUME NEW n \in 1..N, n - 1 \in K PROVE n \in K
  <2>1. ASSUME NEW s \in SUBSET S, Cardinality(s) = n PROVE s \in Q
    <3>1. s # {}
      BY <1>3, <2>1, FS_EmptySet
    <3>2. Rest(s) \in SUBSET S /\ Cardinality(Rest(s)) = n - 1
      BY <2>1, <3>1, RestIsSmaller
    <3> QED
      BY <1>3, <3>1, <3>2
  <2> QED
    BY <1>1, <2>1
<1>4. 0..N \subseteq K
  <2> HIDE DEF K
  <2> QED
    BY <1>1, <1>2, <1>3, CountingUp
<1>5. ASSUME NEW s \in SUBSET S PROVE Cardinality(s) \in 0..N
  BY <1>1, FS_Subset, FS_CardinalityType
<1> QED
  BY <1>4, <1>5

\* h adds up the numbers of f over each subset of S.
Adds(h, f, S) ==
    h = [s \in SUBSET S |-> IF s = {} THEN 0 ELSE f[Pick(s)] + h[Rest(s)]]

Adder(f, S) == CHOOSE h : Adds(h, f, S)

Total(f, S) == Adder(f, S)[S]

\* There is such a function, for every finite set.
LEMMA AdderExists ==
  ASSUME NEW S, IsFiniteSet(S), NEW f
  PROVE  \E h : Adds(h, f, S)
<1> DEFINE N == Cardinality(S)
           AddsTo(h, n) == \A s \in SUBSET S : Cardinality(s) <= n =>
                              h[s] = IF s = {} THEN 0 ELSE f[Pick(s)] + h[Rest(s)]
           K == {n \in 0..N : \E h : AddsTo(h, n)}
<1>1. N \in Nat
  BY FS_CardinalityType
<1>2. \A s \in SUBSET S : Cardinality(s) \in 0..N
  BY <1>1, FS_Subset, FS_CardinalityType
<1>3. 0 \in K
  <2>1. ASSUME NEW s \in SUBSET S, Cardinality(s) <= 0 PROVE s = {}
    BY <1>2, <2>1, FS_Subset, FS_EmptySet
  <2>2. AddsTo([s \in SUBSET S |-> 0], 0)
    BY <2>1
  <2> QED
    BY <1>1, <2>2
<1>4. ASSUME NEW n \in 1..N, n - 1 \in K PROVE n \in K
  <2>1. PICK h : AddsTo(h, n - 1)
    BY <1>4
  <2> DEFINE g == [s \in SUBSET S |-> IF s = {} THEN 0 ELSE f[Pick(s)] + h[Rest(s)]]
  <2>2. \A s \in SUBSET S : Cardinality(s) <= n - 1 => g[s] = h[s]
    BY <2>1
  <2>3. ASSUME NEW s \in SUBSET S, Cardinality(s) <= n, s # {} PROVE g[Rest(s)] = h[Rest(s)]
    <3>1. /\ Rest(s) \in SUBSET S /\ Cardinality(s) \in Nat /\ Cardinality(Rest(s)) \in Nat
          /\ Cardinality(s) = Cardinality(Rest(s)) + 1
      BY <2>3, RestIsSmaller
    <3>2. Cardinality(Rest(s)) <= n - 1
      BY <1>1, <2>3, <3>1
    <3> QED
      BY <2>2, <3>1, <3>2
  <2>4. AddsTo(g, n)
    BY <2>3
  <2> HIDE DEF g
  <2> QED
    BY <1>1, <2>4
<1>5. N \in K
  <2> HIDE DEF K
  <2> QED
    BY <1>1, <1>3, <1>4, CountingUp
<1>6. PICK h : AddsTo(h, N)
  BY <1>5
<1> DEFINE g == [s \in SUBSET S |-> h[s]]
<1>7. ASSUME NEW s \in SUBSET S
      PROVE  g[s] = IF s = {} THEN 0 ELSE f[Pick(s)] + g[Rest(s)]
  <2>1. g[s] = IF s = {} THEN 0 ELSE f[Pick(s)] + h[Rest(s)]
    BY <1>2, <1>6
  <2>2. s # {} => Rest(s) \in SUBSET S
    BY DEF Rest
  <2> QED
    BY <2>1, <2>2
<1>8. g = [s \in SUBSET S |-> g[s]]
  OBVIOUS
<1> HIDE DEF g
<1>9. Adds(g, f, S)
  BY <1>7, <1>8 DEF Adds
<1> QED
  BY <1>9

\* The equations of a sum.
LEMMA AdderSteps ==
  ASSUME NEW S, IsFiniteSet(S), NEW f
  PROVE  /\ Adder(f, S)[{}] = 0
         /\ \A s \in SUBSET S :
              s # {} => Adder(f, S)[s] = f[Pick(s)] + Adder(f, S)[Rest(s)]
<1> DEFINE h == Adder(f, S)
<1>1. Adds(h, f, S)
  BY AdderExists DEF Adder
<1> HIDE DEF h
<1>2. \A s \in SUBSET S : h[s] = IF s = {} THEN 0 ELSE f[Pick(s)] + h[Rest(s)]
  BY <1>1 DEF Adds
<1> QED
  BY <1>2 DEF h

\* Every subset has a total that is a number.
LEMMA TotalIsNat ==
  ASSUME NEW S, IsFiniteSet(S), NEW f \in [S -> Nat]
  PROVE  Total(f, S) \in Nat /\ \A s \in SUBSET S : Adder(f, S)[s] \in Nat
<1> DEFINE h == Adder(f, S)  Q == {s \in SUBSET S : h[s] \in Nat}
<1>1. h[{}] = 0 /\ \A s \in SUBSET S : s # {} => h[s] = f[Pick(s)] + h[Rest(s)]
  BY AdderSteps
<1>2. {} \in Q
  BY <1>1
<1>3. ASSUME NEW s \in SUBSET S, s # {}, Rest(s) \in Q PROVE s \in Q
  <2>1. Pick(s) \in S
    BY <1>3, RestIsSmaller
  <2> QED
    BY <1>1, <1>3, <2>1
<1>4. SUBSET S \subseteq Q
  <2> HIDE DEF Q
  <2> QED
    BY <1>2, <1>3, TakingOut
<1> QED
  BY <1>4 DEF Total

\* One number changes.
SameBut(f, g, S, c) ==
    /\ f \in [S -> Nat] /\ g \in [S -> Nat] /\ c \in S
    /\ \A x \in S \ {c} : g[x] = f[x]

LEMMA TotalChanges ==
  ASSUME NEW S, IsFiniteSet(S), NEW f, NEW g, NEW c, SameBut(f, g, S, c)
  PROVE  Total(g, S) + f[c] = Total(f, S) + g[c]
<1> USE DEF SameBut
<1> DEFINE h == Adder(f, S)  k == Adder(g, S)
           Q == {s \in SUBSET S : /\ c \in s => k[s] + f[c] = h[s] + g[c]
                                  /\ c \notin s => k[s] = h[s]}
<1>1. h[{}] = 0 /\ \A s \in SUBSET S : s # {} => h[s] = f[Pick(s)] + h[Rest(s)]
  BY AdderSteps
<1>2. k[{}] = 0 /\ \A s \in SUBSET S : s # {} => k[s] = g[Pick(s)] + k[Rest(s)]
  BY AdderSteps
<1>3. \A s \in SUBSET S : h[s] \in Nat /\ k[s] \in Nat
  BY TotalIsNat
<1>4. {} \in Q
  BY <1>1, <1>2
<1>5. ASSUME NEW s \in SUBSET S, s # {}, Rest(s) \in Q PROVE s \in Q
  <2> DEFINE x == Pick(s)  r == Rest(s)
  <2>1. x \in s /\ r \in SUBSET S /\ r = s \ {x}
    BY <1>5, RestIsSmaller DEF Rest
  <2>2. /\ h[s] = f[x] + h[r] /\ k[s] = g[x] + k[r]
        /\ h[s] \in Nat /\ k[s] \in Nat /\ h[r] \in Nat /\ k[r] \in Nat
        /\ f[x] \in Nat /\ g[x] \in Nat /\ f[c] \in Nat /\ g[c] \in Nat
    BY <1>1, <1>2, <1>3, <1>5, <2>1
  <2>3. /\ c \in r => k[r] + f[c] = h[r] + g[c]
        /\ c \notin r => k[r] = h[r]
    BY <1>5
  <2> HIDE DEF x, r, h, k
  <2>4. CASE x = c
    <3>1. k[r] = h[r] /\ c \in s
      BY <2>1, <2>3, <2>4
    <3>2. k[s] + f[c] = h[s] + g[c]
      BY <2>2, <2>4, <3>1
    <3> QED
      BY <3>1, <3>2
  <2>5. CASE x # c
    <3>1. f[x] = g[x] /\ (c \in s <=> c \in r)
      BY <2>1, <2>5
    <3>2. c \in s => k[s] + f[c] = h[s] + g[c]
      BY <2>2, <2>3, <3>1
    <3>3. c \notin s => k[s] = h[s]
      BY <2>2, <2>3, <3>1
    <3> QED
      BY <3>2, <3>3
  <2> QED
    BY <2>4, <2>5
<1>6. SUBSET S \subseteq Q
  <2> HIDE DEF Q
  <2> QED
    BY <1>4, <1>5, TakingOut
<1>7. S \in Q
  BY <1>6
<1> QED
  BY <1>7 DEF Total

\* No number is larger.
LEMMA TotalGrows ==
  ASSUME NEW S, IsFiniteSet(S), NEW f \in [S -> Nat], NEW g \in [S -> Nat],
         \A x \in S : f[x] <= g[x]
  PROVE  Total(f, S) <= Total(g, S)
<1> DEFINE h == Adder(f, S)  k == Adder(g, S)  Q == {s \in SUBSET S : h[s] <= k[s]}
<1>1. h[{}] = 0 /\ \A s \in SUBSET S : s # {} => h[s] = f[Pick(s)] + h[Rest(s)]
  BY AdderSteps
<1>2. k[{}] = 0 /\ \A s \in SUBSET S : s # {} => k[s] = g[Pick(s)] + k[Rest(s)]
  BY AdderSteps
<1>3. \A s \in SUBSET S : h[s] \in Nat /\ k[s] \in Nat
  BY TotalIsNat
<1>4. {} \in Q
  BY <1>1, <1>2
<1>5. ASSUME NEW s \in SUBSET S, s # {}, Rest(s) \in Q PROVE s \in Q
  <2> DEFINE x == Pick(s)  r == Rest(s)
  <2>1. x \in S /\ r \in SUBSET S
    BY <1>5, RestIsSmaller
  <2>2. /\ h[s] = f[x] + h[r] /\ k[s] = g[x] + k[r]
        /\ h[r] \in Nat /\ k[r] \in Nat
        /\ f[x] \in Nat /\ g[x] \in Nat /\ f[x] <= g[x]
    BY <1>1, <1>2, <1>3, <1>5, <2>1
  <2>3. h[r] <= k[r]
    BY <1>5
  <2> HIDE DEF x, r, h, k
  <2>4. h[s] <= k[s]
    BY <2>2, <2>3
  <2> QED
    BY <2>4
<1>6. SUBSET S \subseteq Q
  <2> HIDE DEF Q
  <2> QED
    BY <1>4, <1>5, TakingOut
<1>7. S \in Q
  BY <1>6
<1> QED
  BY <1>7 DEF Total

\* No number is larger than M.
LEMMA TotalBounded ==
  ASSUME NEW S, IsFiniteSet(S), NEW M \in Nat, NEW f \in [S -> Nat],
         \A x \in S : f[x] <= M
  PROVE  Total(f, S) <= M * Cardinality(S)
<1> DEFINE h == Adder(f, S)  Q == {s \in SUBSET S : h[s] <= M * Cardinality(s)}
<1>1. h[{}] = 0 /\ \A s \in SUBSET S : s # {} => h[s] = f[Pick(s)] + h[Rest(s)]
  BY AdderSteps
<1>2. \A s \in SUBSET S : h[s] \in Nat
  BY TotalIsNat
<1>3. {} \in Q
  BY <1>1, FS_EmptySet
<1>4. ASSUME NEW s \in SUBSET S, s # {}, Rest(s) \in Q PROVE s \in Q
  <2> DEFINE x == Pick(s)  r == Rest(s)  m == Cardinality(r)
  <2>1. x \in S /\ r \in SUBSET S /\ m \in Nat /\ Cardinality(s) = m + 1
    BY <1>4, RestIsSmaller
  <2>2. h[s] = f[x] + h[r] /\ h[r] \in Nat /\ f[x] \in Nat /\ f[x] <= M
    BY <1>1, <1>2, <1>4, <2>1
  <2>3. h[r] <= M * m
    BY <1>4
  <2> HIDE DEF x, r, h, m
  <2>4. M * (m + 1) = M * m + M /\ M * m \in Nat
    BY <2>1
  <2>5. h[s] <= M * (m + 1)
    BY <2>2, <2>3, <2>4
  <2> QED
    BY <2>1, <2>5
<1>5. SUBSET S \subseteq Q
  <2> HIDE DEF Q
  <2> QED
    BY <1>3, <1>4, TakingOut
<1>6. S \in Q
  BY <1>5
<1> QED
  BY <1>6 DEF Total

-----------------------------------------------------------------------------
(* The budget of the AI. A call may cost what the prompt allows, and costs *)
(* what the provider says; both are claims on the budget until the call is *)
(* charged, so the invariant adds them up over the calls in flight.        *)

CallStep == {"idle", "circuit", "recover", "budget", "prompt", "charge"}

CallRow == [step : CallStep, cost : 0..MaxCost]

CallTable == [Caller -> CallRow]

\* What the calls have cost and not charged yet, and what they may come to cost.
CostOf(C) == [c \in Caller |-> C[c].cost]

ClaimOf(C) == [c \in Caller |-> IF C[c].step = "prompt" THEN MaxCost ELSE C[c].cost]

Callers == Cardinality(Caller)

\* What the provider has taken was charged, will be, or was mislaid.
CostsBooked ==
    burnt <= spent + Total(CostOf(call), Caller) + MaxCost * mislaid

\* A call that passed the check began below the limit.
ClaimsBounded ==
    Caller # {} => spent + Total(ClaimOf(call), Caller) < TokenLimit + MaxCost * Callers

PromptInv ==
    /\ PersonalizationTypeOK
    /\ \A c \in Caller : call[c].step # "charge" => call[c].cost = 0
    /\ burnt > 0 => Caller # {}
    /\ CostsBooked
    /\ ClaimsBounded

LEMMA CallersAreCounted ==
  Callers \in Nat /\ (Caller # {} => Callers >= 1)
<1>1. Callers \in Nat
  BY PersonalizationAssumption, FS_CardinalityType DEF Callers
<1>2. Callers = 0 <=> Caller = {}
  BY PersonalizationAssumption, FS_EmptySet DEF Callers
<1> QED
  BY <1>1, <1>2

LEMMA CallTotals ==
  ASSUME NEW C \in CallTable
  PROVE  /\ CostOf(C) \in [Caller -> Nat] /\ ClaimOf(C) \in [Caller -> Nat]
         /\ Total(CostOf(C), Caller) \in Nat /\ Total(ClaimOf(C), Caller) \in Nat
<1>1. CostOf(C) \in [Caller -> Nat] /\ ClaimOf(C) \in [Caller -> Nat]
  BY PersonalizationAssumption DEF CallTable, CallRow, CostOf, ClaimOf
<1> QED
  BY <1>1, PersonalizationAssumption, TotalIsNat

\* One call changes.
Replaced(C, D, c, r) ==
    C \in CallTable /\ c \in Caller /\ r \in CallRow /\ D = [C EXCEPT ![c] = r]

LEMMA CallChanges ==
  ASSUME NEW C, NEW D, NEW c, NEW r, Replaced(C, D, c, r)
  PROVE  /\ D \in CallTable
         /\ Total(CostOf(D), Caller) + C[c].cost = Total(CostOf(C), Caller) + r.cost
         /\ Total(ClaimOf(D), Caller) + ClaimOf(C)[c] =
              Total(ClaimOf(C), Caller) + ClaimOf(D)[c]
<1> USE DEF Replaced
<1>1. D \in CallTable
  BY DEF CallTable
<1>2. \A x \in Caller \ {c} : CostOf(D)[x] = CostOf(C)[x] /\ ClaimOf(D)[x] = ClaimOf(C)[x]
  BY DEF CallTable, CallRow, CostOf, ClaimOf
<1>3. CostOf(C)[c] = C[c].cost /\ CostOf(D)[c] = r.cost
  BY DEF CallTable, CostOf
<1>4. /\ CostOf(C) \in [Caller -> Nat] /\ CostOf(D) \in [Caller -> Nat]
      /\ ClaimOf(C) \in [Caller -> Nat] /\ ClaimOf(D) \in [Caller -> Nat]
      /\ IsFiniteSet(Caller)
  BY <1>1, CallTotals, PersonalizationAssumption
<1>5. Total(CostOf(D), Caller) + CostOf(C)[c] = Total(CostOf(C), Caller) + CostOf(D)[c]
  <2>1. SameBut(CostOf(C), CostOf(D), Caller, c)
    BY <1>2, <1>4 DEF SameBut
  <2> QED
    BY <1>4, <2>1, TotalChanges
<1>6. Total(ClaimOf(D), Caller) + ClaimOf(C)[c] = Total(ClaimOf(C), Caller) + ClaimOf(D)[c]
  <2>1. SameBut(ClaimOf(C), ClaimOf(D), Caller, c)
    BY <1>2, <1>4 DEF SameBut
  <2> QED
    BY <1>4, <2>1, TotalChanges
<1> QED
  BY <1>1, <1>3, <1>5, <1>6

LEMMA PromptInvInit == PersonalizationInit => PromptInv
<1> SUFFICES ASSUME PersonalizationInit PROVE PromptInv
  OBVIOUS
<1>1. call \in CallTable /\ \A c \in Caller : call[c].cost = 0 /\ call[c].step = "idle"
  BY PersonalizationAssumption DEF PersonalizationInit, IdleCall, CallTable, CallRow, CallStep
<1>2. PersonalizationTypeOK
  BY <1>1, PersonalizationAssumption
  DEF PersonalizationInit, PersonalizationTypeOK, CallTable, CallRow, CallStep
<1>3. \A c \in Caller : ClaimOf(call)[c] = 0
  BY <1>1 DEF ClaimOf
<1>4. Total(ClaimOf(call), Caller) <= 0 * Callers
  BY <1>1, <1>3, CallTotals, TotalBounded, PersonalizationAssumption DEF Callers
<1>5. Total(ClaimOf(call), Caller) = 0
  BY <1>1, <1>4, CallTotals, CallersAreCounted
<1>6. CostsBooked
  <2>1. Total(CostOf(call), Caller) \in Nat
    BY <1>1, CallTotals
  <2>2. MaxCost * 0 = 0
    BY PersonalizationAssumption
  <2> QED
    BY <2>1, <2>2 DEF CostsBooked, PersonalizationInit
<1>7. ClaimsBounded
  <2>1. Caller # {} => MaxCost * Callers \in Nat /\ MaxCost * Callers >= 1
    BY CallersAreCounted, PersonalizationAssumption
  <2> QED
    BY <1>5, <2>1, PersonalizationAssumption DEF ClaimsBounded, PersonalizationInit
<1> QED
  BY <1>1, <1>2, <1>6, <1>7 DEF PromptInv, PersonalizationInit

\* A call changes from one row to another: the rest is arithmetic.
Claim(r) == IF r.step = "prompt" THEN MaxCost ELSE r.cost

LEMMA CallStepKeepsInv ==
  ASSUME PromptInv, NEW c \in Caller, NEW r \in CallRow, call' = [call EXCEPT ![c] = r],
         r.step # "charge" => r.cost = 0,
         breaker' \in {"closed", "open", "later", "expired"},
         spent' \in Nat, burnt' \in Nat, mislaid' \in 0..MaxMislaid,
         burnt' + call[c].cost + spent + MaxCost * mislaid
            <= burnt + r.cost + spent' + MaxCost * mislaid',
         \/ spent' + Claim(r) <= spent + Claim(call[c])
         \/ spent' < TokenLimit
  PROVE  PromptInv'
<1>1. /\ call \in CallTable /\ spent \in Nat /\ burnt \in Nat /\ mislaid \in Nat
      /\ mislaid' \in Nat
  BY PersonalizationAssumption
  DEF PromptInv, PersonalizationTypeOK, CallTable, CallRow, CallStep
<1>2. Replaced(call, call', c, r)
  BY <1>1 DEF Replaced
<1>3. /\ call' \in CallTable
      /\ Total(CostOf(call'), Caller) + call[c].cost = Total(CostOf(call), Caller) + r.cost
      /\ Total(ClaimOf(call'), Caller) + ClaimOf(call)[c] =
           Total(ClaimOf(call), Caller) + ClaimOf(call')[c]
  BY <1>2, CallChanges
<1>4. /\ ClaimOf(call)[c] = Claim(call[c]) /\ ClaimOf(call')[c] = Claim(r)
      /\ Claim(r) \in Nat /\ Claim(call[c]) \in Nat
      /\ r.cost \in Nat /\ call[c].cost \in Nat
  BY <1>1, PersonalizationAssumption DEF Claim, ClaimOf, CallTable, CallRow
<1>5. /\ Total(CostOf(call'), Caller) \in Nat /\ Total(ClaimOf(call'), Caller) \in Nat
      /\ Total(CostOf(call), Caller) \in Nat /\ Total(ClaimOf(call), Caller) \in Nat
  BY <1>1, <1>3, CallTotals
<1>6. MaxCost * mislaid \in Nat /\ MaxCost * mislaid' \in Nat /\ MaxCost * Callers \in Nat
  <2>1. \A n \in Nat : MaxCost * n \in Nat
    BY PersonalizationAssumption
  <2> QED
    BY <1>1, <2>1, CallersAreCounted
<1>7. CostsBooked'
  <2>1. burnt <= spent + Total(CostOf(call), Caller) + MaxCost * mislaid
    BY DEF PromptInv, CostsBooked
  <2>2. burnt' <= spent' + Total(CostOf(call'), Caller) + MaxCost * mislaid'
    BY <1>1, <1>3, <1>4, <1>5, <1>6, <2>1
  <2> QED
    BY <2>2 DEF CostsBooked
<1>8. ClaimsBounded'
  <2>1. CASE spent' + Claim(r) <= spent + Claim(call[c])
    <3>1. spent + Total(ClaimOf(call), Caller) < TokenLimit + MaxCost * Callers
      BY DEF PromptInv, ClaimsBounded
    <3>2. spent' + Total(ClaimOf(call'), Caller) < TokenLimit + MaxCost * Callers
      BY <1>1, <1>3, <1>4, <1>5, <1>6, <2>1, <3>1, PersonalizationAssumption
    <3> QED
      BY <3>2 DEF ClaimsBounded, Callers
  <2>2. CASE spent' < TokenLimit
    <3>1. ClaimOf(call') \in [Caller -> Nat]
      BY <1>3, CallTotals
    <3>2. \A x \in Caller : ClaimOf(call')[x] <= MaxCost
      BY <1>3, PersonalizationAssumption DEF ClaimOf, CallTable, CallRow
    <3>3. Total(ClaimOf(call'), Caller) <= MaxCost * Callers
      BY <3>1, <3>2, TotalBounded, PersonalizationAssumption DEF Callers
    <3>4. spent' + Total(ClaimOf(call'), Caller) < TokenLimit + MaxCost * Callers
      BY <1>5, <1>6, <2>2, <3>3, PersonalizationAssumption
    <3> QED
      BY <3>4 DEF ClaimsBounded, Callers
  <2> QED
    BY <2>1, <2>2
<1>9. PersonalizationTypeOK'
  BY <1>3 DEF PersonalizationTypeOK, CallTable, CallRow, CallStep
<1>10. \A x \in Caller : call'[x].step # "charge" => call'[x].cost = 0
  BY <1>1 DEF PromptInv, CallTable
<1> QED
  BY <1>7, <1>8, <1>9, <1>10 DEF PromptInv

\* A call goes on, or ends, and nothing has been spent.
LEMMA CallGoesOn ==
  ASSUME PromptInv, NEW c \in Caller, call[c].step # "charge",
         NEW r \in CallRow, r.step \notin {"prompt", "charge"}, r.cost = 0,
         call' = [call EXCEPT ![c] = r],
         breaker' \in {"closed", "open", "later", "expired"},
         UNCHANGED <<spent, burnt, mislaid>>
  PROVE  PromptInv'
<1>1. /\ spent \in Nat /\ burnt \in Nat /\ mislaid \in 0..MaxMislaid
      /\ call[c] \in CallRow /\ call[c].cost = 0
  BY DEF PromptInv, PersonalizationTypeOK, CallRow, CallStep
<1>2. Claim(r) = 0 /\ Claim(call[c]) \in Nat
  BY <1>1, PersonalizationAssumption DEF Claim, CallRow
<1>3. MaxCost * mislaid \in Nat
  BY <1>1, PersonalizationAssumption
<1>4. burnt' + call[c].cost + spent + MaxCost * mislaid
         <= burnt + r.cost + spent' + MaxCost * mislaid'
  BY <1>1, <1>3
<1>5. spent' + Claim(r) <= spent + Claim(call[c])
  BY <1>1, <1>2
<1> QED
  BY <1>1, <1>4, <1>5, CallStepKeepsInv

LEMMA PromptInvStep == PromptInv /\ [PersonalizationNext]_promptVars => PromptInv'
<1> SUFFICES ASSUME PromptInv, [PersonalizationNext]_promptVars PROVE PromptInv'
  OBVIOUS
<1>0. /\ spent \in Nat /\ burnt \in Nat /\ mislaid \in 0..MaxMislaid /\ mislaid \in Nat
      /\ breaker \in {"closed", "open", "later", "expired"}
      /\ call \in CallTable
      /\ \A c \in Caller : call[c] \in CallRow /\ call[c].cost \in Nat
      /\ \A c \in Caller : call[c].step # "charge" => call[c].cost = 0
      /\ MaxCost * mislaid \in Nat
  BY PersonalizationAssumption
  DEF PromptInv, PersonalizationTypeOK, CallTable, CallRow, CallStep
<1>1. ASSUME NEW state \in {"closed", "open", "later", "expired"}, SetBreaker(state)
      PROVE  PromptInv'
  BY <1>1 DEF SetBreaker, PromptInv, PersonalizationTypeOK, CostsBooked, ClaimsBounded,
              Callers
<1>2. CASE BreakerExpires
  BY <1>1, <1>2 DEF BreakerExpires
<1>3. ASSUME NEW c \in Caller, NEW step \in CallStep, CallAt(c, step),
             call[c].step # "charge"
      PROVE  call' = [call EXCEPT ![c] = [step |-> step, cost |-> 0]]
  <2>1. [call[c] EXCEPT !.step = step] = [step |-> step, cost |-> 0]
    BY <1>0, <1>3 DEF CallRow
  <2>2. call' = [call EXCEPT ![c] = [call[c] EXCEPT !.step = step]]
    BY <1>3 DEF CallAt
  <2> QED
    BY <2>1, <2>2
<1>4. ASSUME NEW step \in CallStep
      PROVE  [step |-> step, cost |-> 0] \in CallRow
  BY PersonalizationAssumption DEF CallRow
<1>5. ASSUME NEW c \in Caller, NEW step \in CallStep \ {"prompt", "charge"},
             CallAt(c, step) \/ EndCall(c), call[c].step # "charge",
             breaker' \in {"closed", "open", "later", "expired"},
             UNCHANGED <<spent, burnt, mislaid>>
      PROVE  PromptInv'
  <2>1. CASE CallAt(c, step)
    <3>1. call' = [call EXCEPT ![c] = [step |-> step, cost |-> 0]]
      BY <1>3, <1>5, <2>1
    <3> QED
      BY <1>4, <1>5, <3>1, CallGoesOn
  <2>2. CASE EndCall(c)
    <3>1. call' = [call EXCEPT ![c] = [step |-> "idle", cost |-> 0]]
      BY <2>2 DEF EndCall, IdleCall
    <3>2. "idle" \in CallStep
      BY DEF CallStep
    <3> QED
      BY <1>4, <1>5, <3>1, <3>2, CallGoesOn
  <2> QED
    BY <1>5, <2>1, <2>2
<1>6. ASSUME NEW c \in Caller, Ask(c) PROVE PromptInv'
  BY <1>0, <1>5, <1>6 DEF Ask, CallStep
<1>7. ASSUME NEW c \in Caller, CheckCircuit(c) PROVE PromptInv'
  <2>1. CallAt(c, "budget") \/ CallAt(c, "recover") \/ EndCall(c)
    BY <1>7 DEF CheckCircuit
  <2> QED
    BY <1>0, <1>5, <1>7, <2>1 DEF CheckCircuit, CallStep
<1>8. ASSUME NEW c \in Caller, Recover(c) PROVE PromptInv'
  BY <1>0, <1>5, <1>8 DEF Recover, CallStep
<1>9. ASSUME NEW c \in Caller, CheckBudget(c) PROVE PromptInv'
  <2>1. CASE spent < TokenLimit /\ CallAt(c, "prompt")
    <3> DEFINE r == [step |-> "prompt", cost |-> 0]
    <3>1. "prompt" \in CallStep
      BY DEF CallStep
    <3>2. r \in CallRow /\ call' = [call EXCEPT ![c] = r]
      BY <1>3, <1>4, <1>9, <2>1, <3>1 DEF CheckBudget
    <3>3. burnt' + call[c].cost + spent + MaxCost * mislaid
             <= burnt + r.cost + spent' + MaxCost * mislaid'
      BY <1>0, <1>9 DEF CheckBudget
    <3>4. r.step # "charge" /\ r.cost = 0 /\ spent < TokenLimit
      BY <2>1
    <3>5. UNCHANGED <<breaker, spent, burnt, mislaid>>
      BY <1>9 DEF CheckBudget
    <3> HIDE DEF r
    <3>6. /\ breaker' \in {"closed", "open", "later", "expired"}
          /\ spent' \in Nat /\ burnt' \in Nat /\ mislaid' \in 0..MaxMislaid
          /\ spent' < TokenLimit
      BY <1>0, <3>4, <3>5
    <3> QED
      BY <3>2, <3>3, <3>4, <3>6, CallStepKeepsInv
  <2>2. CASE EndCall(c)
    BY <1>0, <1>5, <1>9, <2>2 DEF CheckBudget, CallStep
  <2> QED
    BY <1>9, <2>1, <2>2 DEF CheckBudget
<1>10. ASSUME NEW c \in Caller, Prompt(c) PROVE PromptInv'
  <2>1. PICK k \in 1..MaxCost : burnt' = burnt + k
                             /\ call' = [call EXCEPT ![c] = [step |-> "charge", cost |-> k]]
    BY <1>10 DEF Prompt
  <2> DEFINE r == [step |-> "charge", cost |-> k]
  <2>2. r \in CallRow /\ r.cost = k /\ r.step = "charge" /\ k \in Nat /\ k <= MaxCost
    BY PersonalizationAssumption DEF CallRow, CallStep
  <2>3. /\ burnt' = burnt + k /\ call' = [call EXCEPT ![c] = r]
        /\ UNCHANGED <<breaker, spent, mislaid>> /\ call[c].step = "prompt"
        /\ burnt' \in Nat
    <3>1. burnt' = burnt + k /\ call' = [call EXCEPT ![c] = r]
      BY <2>1
    <3>2. UNCHANGED <<breaker, spent, mislaid>> /\ call[c].step = "prompt"
      BY <1>10 DEF Prompt
    <3>3. burnt' \in Nat
      BY <1>0, <2>2, <3>1
    <3> QED
      BY <3>1, <3>2, <3>3
  <2> HIDE DEF r
  <2>4. burnt' + call[c].cost + spent + MaxCost * mislaid
           <= burnt + r.cost + spent' + MaxCost * mislaid'
    BY <1>0, <2>2, <2>3
  <2>5. spent' + Claim(r) <= spent + Claim(call[c])
    BY <1>0, <2>2, <2>3, PersonalizationAssumption DEF Claim
  <2> QED
    BY <1>0, <2>2, <2>3, <2>4, <2>5, CallStepKeepsInv
<1>11. IdleCall \in CallRow /\ IdleCall.cost = 0 /\ IdleCall.step = "idle"
  BY <1>4 DEF IdleCall, CallStep
<1>12. ASSUME NEW c \in Caller, Increment(c) PROVE PromptInv'
  <2>1. /\ spent' = spent + call[c].cost /\ call' = [call EXCEPT ![c] = IdleCall]
        /\ UNCHANGED <<breaker, burnt, mislaid>> /\ call[c].step = "charge"
        /\ spent' \in Nat
    BY <1>0, <1>12 DEF Increment, EndCall
  <2>2. burnt' + call[c].cost + spent + MaxCost * mislaid
           <= burnt + IdleCall.cost + spent' + MaxCost * mislaid'
    BY <1>0, <1>11, <2>1
  <2>3. spent' + Claim(IdleCall) <= spent + Claim(call[c])
    BY <1>0, <1>11, <2>1 DEF Claim
  <2> QED
    BY <1>0, <1>11, <2>1, <2>2, <2>3, CallStepKeepsInv
<1>13. ASSUME NEW c \in Caller, CallFails(c) PROVE PromptInv'
  BY <1>0, <1>5, <1>13 DEF CallFails, CallStep
<1>14. ASSUME NEW c \in Caller, TokensMislaid(c) PROVE PromptInv'
  <2>1. /\ call' = [call EXCEPT ![c] = IdleCall] /\ UNCHANGED <<breaker, spent>>
        /\ mislaid' = mislaid + 1 /\ mislaid < MaxMislaid
    BY <1>14 DEF TokensMislaid, Mislay, EndCall
  <2>2. mislaid' \in 0..MaxMislaid /\ MaxCost * mislaid' = MaxCost * mislaid + MaxCost
    BY <1>0, <2>1, PersonalizationAssumption
  <2>3. Claim(IdleCall) = 0 /\ Claim(call[c]) \in Nat /\ call[c].cost <= MaxCost
    BY <1>0, <1>11, PersonalizationAssumption DEF Claim, CallRow
  <2>4. spent' + Claim(IdleCall) <= spent + Claim(call[c])
    BY <1>0, <2>1, <2>3
  <2>5. burnt' \in Nat /\ burnt' + call[c].cost <= burnt + MaxCost
    <3>1. CASE call[c].step = "charge" /\ UNCHANGED burnt
      BY <1>0, <2>3, <3>1, PersonalizationAssumption
    <3>2. CASE call[c].step = "prompt" /\ \E k \in 1..MaxCost : burnt' = burnt + k
      BY <1>0, <3>2, PersonalizationAssumption
    <3> QED
      BY <1>14, <3>1, <3>2 DEF TokensMislaid
  <2>6. burnt' + call[c].cost + spent + MaxCost * mislaid
           <= burnt + IdleCall.cost + spent' + MaxCost * mislaid'
    BY <1>0, <1>11, <2>1, <2>2, <2>5, PersonalizationAssumption
  <2> QED
    BY <1>0, <1>11, <2>1, <2>2, <2>4, <2>5, <2>6, CallStepKeepsInv
<1>15. CASE UNCHANGED promptVars
  BY <1>15 DEF promptVars, PromptInv, PersonalizationTypeOK, CostsBooked, ClaimsBounded,
               Callers
<1> QED
  BY <1>1, <1>2, <1>6, <1>7, <1>8, <1>9, <1>10, <1>12, <1>13, <1>14, <1>15
  DEF PersonalizationNext

(* Budget, circuit breaker and calls keep their types, and only a call   *)
(* that is about to be charged has a cost.                                 *)
THEOREM PersonalizationTyping == PersonalizationSpec => []PersonalizationTypeOK
<1>1. PromptInv => PersonalizationTypeOK
  BY DEF PromptInv
<1> QED
  BY <1>1, PromptInvInit, PromptInvStep, PTL DEF PersonalizationSpec

(* Whatever calls overlap and whichever charges fail, a day's spending    *)
(* past the budget by less than the calls in flight can cost together, and *)
(* by what each charge that failed has cost.                               *)
THEOREM BudgetHolds == PersonalizationSpec => []SpendingBounded
<1>1. PromptInv => SpendingBounded
  <2> SUFFICES ASSUME PromptInv, burnt > 0
               PROVE  burnt < TokenLimit + MaxCost * (Callers + mislaid)
    BY DEF SpendingBounded, Callers
  <2>1. /\ call \in CallTable /\ spent \in Nat /\ burnt \in Nat /\ mislaid \in Nat
        /\ \A c \in Caller : call[c].step # "charge" => call[c].cost = 0
    BY PersonalizationAssumption
    DEF PromptInv, PersonalizationTypeOK, CallTable, CallRow, CallStep
  <2>2. \A c \in Caller : CostOf(call)[c] <= ClaimOf(call)[c]
    BY <2>1, PersonalizationAssumption DEF CostOf, ClaimOf, CallTable, CallRow
  <2>3. /\ CostOf(call) \in [Caller -> Nat] /\ ClaimOf(call) \in [Caller -> Nat]
        /\ Total(CostOf(call), Caller) \in Nat /\ Total(ClaimOf(call), Caller) \in Nat
    BY <2>1, CallTotals
  <2>4. Total(CostOf(call), Caller) <= Total(ClaimOf(call), Caller)
    BY <2>2, <2>3, TotalGrows, PersonalizationAssumption
  <2>5. /\ burnt <= spent + Total(CostOf(call), Caller) + MaxCost * mislaid
        /\ spent + Total(ClaimOf(call), Caller) < TokenLimit + MaxCost * Callers
    BY DEF PromptInv, CostsBooked, ClaimsBounded
  <2>6. /\ MaxCost * (Callers + mislaid) = MaxCost * Callers + MaxCost * mislaid
        /\ MaxCost * Callers \in Nat /\ MaxCost * mislaid \in Nat
    BY <2>1, CallersAreCounted, PersonalizationAssumption
  <2> QED
    BY <2>1, <2>3, <2>4, <2>5, <2>6, PersonalizationAssumption
<1> QED
  BY <1>1, PromptInvInit, PromptInvStep, PTL DEF PersonalizationSpec

-----------------------------------------------------------------------------
(* The recaps. A slot is a goal in a week.                                 *)

RecapRow == [RecapStatus -> Nat]

RecapSlot == Week \X Goal

SweepStep == {"idle", "next", "ask", "done", "failed"}

\* Nothing is being generated, nothing is done.
Free(k) == recaps[k]["generating"] = 0 /\ recaps[k]["done"] = 0

\* A slot has one recap that is done, or one in the making.
OneRecap == \A k \in RecapSlot : recaps[k]["generating"] + recaps[k]["done"] <= 1

\* What the sweep still has before it was selected as free, and stays free.
TodoIsFree == \A g \in sweep.todo : Free(<<sweep.week, g>>)

\* The goal of the sweep has the row that the sweep has inserted.
Working == sweep.step \in {"ask", "done", "failed"}

Place == <<sweep.week, sweep.goal>>

CurrentIsGenerated ==
    Working => /\ sweep.goal \in Goal \ sweep.todo
               /\ recaps[Place]["generating"] = 1 /\ recaps[Place]["done"] = 0

StuckSlots == {k \in RecapSlot : Stuck(k[1], k[2])}

RecapInv ==
    /\ RecapsTypeOK
    /\ OneRecap
    /\ TodoIsFree
    /\ CurrentIsGenerated
    /\ Cardinality(StuckSlots) <= lapses

LEMMA SlotsAreFinite == IsFiniteSet(RecapSlot) /\ IsFiniteSet(StuckSlots)
<1>1. IsFiniteSet(Week)
  BY RecapsAssumption, FS_Interval DEF Week
<1>2. IsFiniteSet(RecapSlot)
  BY <1>1, RecapsAssumption, FS_Product DEF RecapSlot
<1> QED
  BY <1>2, FS_Subset DEF StuckSlots

LEMMA SlotsAfterAreFinite == IsFiniteSet(StuckSlots')
<1>1. IsFiniteSet(RecapSlot) /\ StuckSlots' \subseteq RecapSlot
  BY SlotsAreFinite DEF StuckSlots
<1> QED
  BY <1>1, FS_Subset

\* Which slots are stuck.
LEMMA WhatIsStuck ==
  StuckSlots = {k \in RecapSlot : recaps[k]["generating"] > 0 /\ ~ (Working /\ k = Place)}
<1>1. \A k \in RecapSlot : /\ <<k[1], k[2]>> = k
                           /\ k = Place <=> sweep.week = k[1] /\ sweep.goal = k[2]
  BY DEF RecapSlot, Place
<1> QED
  BY <1>1 DEF StuckSlots, Stuck, Working

LEMMA WhatIsStuckAfter ==
  StuckSlots' =
    {k \in RecapSlot : recaps'[k]["generating"] > 0 /\ ~ (Working' /\ k = Place')}
<1>1. \A k \in RecapSlot : /\ <<k[1], k[2]>> = k
                           /\ k = Place' <=> sweep'.week = k[1] /\ sweep'.goal = k[2]
  BY DEF RecapSlot, Place
<1> QED
  BY <1>1 DEF StuckSlots, Stuck, Working

LEMMA NoMoreStuck ==
  ASSUME RecapInv, StuckSlots' \subseteq StuckSlots, lapses' = lapses
  PROVE  Cardinality(StuckSlots') <= lapses'
<1>1. Cardinality(StuckSlots') <= Cardinality(StuckSlots)
  BY SlotsAreFinite, FS_Subset
<1>2. Cardinality(StuckSlots') \in Nat /\ Cardinality(StuckSlots) \in Nat
  BY SlotsAreFinite, SlotsAfterAreFinite, FS_CardinalityType
<1> QED
  BY <1>1, <1>2, RecapsAssumption DEF RecapInv, RecapsTypeOK

\* A lapse pays for the slot it leaves behind.
LEMMA OneMoreStuck ==
  ASSUME RecapInv, NEW k, StuckSlots' \subseteq StuckSlots \cup {k}, lapses' = lapses + 1
  PROVE  Cardinality(StuckSlots') <= lapses'
<1>1. /\ IsFiniteSet(StuckSlots \cup {k})
      /\ \/ Cardinality(StuckSlots \cup {k}) = Cardinality(StuckSlots) + 1
         \/ Cardinality(StuckSlots \cup {k}) = Cardinality(StuckSlots)
  BY SlotsAreFinite, FS_AddElement
<1>2. Cardinality(StuckSlots') <= Cardinality(StuckSlots \cup {k})
  BY <1>1, FS_Subset
<1>3. Cardinality(StuckSlots') \in Nat /\ Cardinality(StuckSlots) \in Nat
  BY SlotsAreFinite, SlotsAfterAreFinite, FS_CardinalityType
<1> QED
  BY <1>1, <1>2, <1>3, RecapsAssumption DEF RecapInv, RecapsTypeOK

LEMMA RecapInvInit == RecapsInit => RecapInv
<1> SUFFICES ASSUME RecapsInit PROVE RecapInv
  OBVIOUS
<1>1. 0 \in Week
  BY RecapsAssumption DEF Week
<1>2. \A k \in RecapSlot : Free(k)
  BY DEF RecapsInit, RecapSlot, Free, RecapStatus
<1>3. RecapsTypeOK
  BY <1>1, RecapsAssumption DEF RecapsInit, RecapsTypeOK, RecapStatus, IdleSweep
<1>4. StuckSlots = {}
  BY <1>2, WhatIsStuck DEF Free
<1>5. Cardinality(StuckSlots) <= lapses
  BY <1>4, FS_EmptySet DEF RecapsInit
<1> QED
  BY <1>2, <1>3, <1>5
  DEF RecapInv, OneRecap, Free, TodoIsFree, CurrentIsGenerated, Working, RecapsInit, IdleSweep

\* A row is put in its place.
Put(R, k, r) == [R EXCEPT ![k] = r]

\* Nothing happens to the rows, and the sweep does not touch what it has not
\* inserted.
LEMMA SweepGoesOn ==
  ASSUME RecapInv, RecapsTypeOK', UNCHANGED recaps,
         sweep'.week = sweep.week, sweep'.todo \subseteq sweep.todo,
         Working' => Working /\ sweep'.goal = sweep.goal,
         \/ lapses' = lapses /\ (Working => Working')
         \/ lapses' = lapses + 1
  PROVE  RecapInv'
<1>1. OneRecap' /\ TodoIsFree' /\ CurrentIsGenerated'
  BY DEF RecapInv, OneRecap, TodoIsFree, Free, CurrentIsGenerated, Place
<1>2. StuckSlots' \subseteq StuckSlots \cup {Place}
  BY WhatIsStuck, WhatIsStuckAfter
<1>3. Working /\ Working' => Place' = Place
  BY DEF Place
<1>4. (Working => Working') => StuckSlots' \subseteq StuckSlots
  BY <1>3, WhatIsStuck, WhatIsStuckAfter
<1>5. Cardinality(StuckSlots') <= lapses'
  BY <1>2, <1>4, NoMoreStuck, OneMoreStuck
<1> QED
  BY <1>1, <1>5 DEF RecapInv

LEMMA RecapInvStep == RecapInv /\ [RecapsNext]_recapVars => RecapInv'
<1> SUFFICES ASSUME RecapInv, [RecapsNext]_recapVars PROVE RecapInv'
  OBVIOUS
<1>0. /\ week \in Week /\ due \in [Week -> SUBSET Goal]
      /\ recaps \in [RecapSlot -> RecapRow]
      /\ sweep \in [step : SweepStep, week : Week, todo : SUBSET Goal,
                    goal : Goal \cup {NoGoal}]
      /\ lapses \in 0..MaxLapses
      /\ IdleSweep \in [step : SweepStep, week : Week, todo : SUBSET Goal,
                        goal : Goal \cup {NoGoal}]
  BY RecapsAssumption
  DEF RecapInv, RecapsTypeOK, RecapSlot, RecapRow, SweepStep, IdleSweep, Week
<1>1. ASSUME UNCHANGED <<recaps, sweep, lapses>>, week' \in Week,
             due' \in [Week -> SUBSET Goal]
      PROVE  RecapInv'
  <2>1. RecapsTypeOK'
    BY <1>0, <1>1 DEF RecapsTypeOK, RecapSlot, RecapRow, SweepStep
  <2> QED
    BY <1>1, <2>1, SweepGoesOn DEF Working
<1>2. ASSUME NEW g \in Goal, CheckInApproved(g) PROVE RecapInv'
  BY <1>0, <1>1, <1>2 DEF CheckInApproved
<1>3. ASSUME NEW g \in Goal, GoalStops(g) PROVE RecapInv'
  BY <1>0, <1>1, <1>3 DEF GoalStops
<1>4. CASE NextWeek
  <2>1. week + 1 \in Week
    BY <1>0, <1>4, RecapsAssumption DEF NextWeek, Week
  <2> QED
    BY <1>0, <1>1, <1>4, <2>1 DEF NextWeek
<1>5. ASSUME UNCHANGED <<week, due, recaps>>, lapses' \in 0..MaxLapses,
             sweep' \in [step : SweepStep, week : Week, todo : SUBSET Goal,
                         goal : Goal \cup {NoGoal}]
      PROVE  RecapsTypeOK'
  BY <1>0, <1>5 DEF RecapsTypeOK, RecapSlot, RecapRow, SweepStep
<1>6. CASE SweepAndGenerate
  <2>1. /\ sweep' = [step |-> "next", week |-> week, goal |-> NoGoal,
                     todo |-> {g \in Goal : NeedsRecap(week, g)}]
        /\ UNCHANGED <<week, due, recaps, lapses>> /\ sweep.step = "idle"
    BY <1>6 DEF SweepAndGenerate
  <2>2. RecapsTypeOK'
    BY <1>0, <1>5, <2>1 DEF SweepStep
  <2>3. OneRecap' /\ CurrentIsGenerated'
    BY <2>1 DEF RecapInv, OneRecap, CurrentIsGenerated, Working
  <2>4. TodoIsFree'
    BY <2>1 DEF TodoIsFree, Free, NeedsRecap
  <2>5. StuckSlots' \subseteq StuckSlots
    BY <2>1, WhatIsStuck, WhatIsStuckAfter DEF Working
  <2> QED
    BY <2>1, <2>2, <2>3, <2>4, <2>5, NoMoreStuck DEF RecapInv
<1>7. ASSUME NEW g \in Goal, InsertRecap(g) PROVE RecapInv'
  <2> DEFINE k == <<sweep.week, g>>
  <2>1. /\ sweep' = [sweep EXCEPT !.step = "ask", !.goal = g, !.todo = @ \ {g}]
        /\ g \in sweep.todo /\ sweep.step = "next"
        /\ UNCHANGED <<week, due, lapses>>
        /\ k \in RecapSlot
    BY <1>0, <1>7 DEF InsertRecap, RecapSlot
  <2>2. /\ sweep'.step = "ask" /\ sweep'.goal = g /\ sweep'.todo = sweep.todo \ {g}
        /\ sweep'.week = sweep.week
        /\ sweep' \in [step : SweepStep, week : Week, todo : SUBSET Goal,
                       goal : Goal \cup {NoGoal}]
    BY <1>0, <2>1 DEF SweepStep
  <2>3. recaps' = Put(recaps, k, [recaps[k] EXCEPT !["generating"] = @ + 1])
    BY <1>7 DEF InsertRecap, Put
  <2>4. Working' /\ Place' = k
    BY <2>2 DEF Working, Place
  <2>5. recaps[k]["generating"] = 0 /\ recaps[k]["done"] = 0
    BY <2>1 DEF RecapInv, TodoIsFree, Free
  <2>6. \A g2 \in sweep'.todo : <<sweep.week, g2>> # k
    BY <2>2
  <2>7. [recaps[k] EXCEPT !["generating"] = @ + 1] \in RecapRow
    BY <1>0, <2>1 DEF RecapRow, RecapStatus
  <2> HIDE DEF k
  <2>8. recaps'[k]["generating"] = 1 /\ recaps'[k]["done"] = 0
    BY <1>0, <2>1, <2>3, <2>5 DEF Put, RecapRow, RecapStatus
  <2>9. \A k2 \in RecapSlot \ {k} : recaps'[k2] = recaps[k2]
    BY <1>0, <2>3 DEF Put
  <2>10. recaps' \in [RecapSlot -> RecapRow]
    BY <1>0, <2>3, <2>7 DEF Put
  <2>11. RecapsTypeOK'
    BY <1>0, <2>1, <2>2, <2>10 DEF RecapsTypeOK, RecapSlot, RecapRow, SweepStep
  <2>12. OneRecap'
    BY <2>8, <2>9 DEF RecapInv, OneRecap
  <2>13. TodoIsFree'
    <3>1. \A g2 \in sweep'.todo : <<sweep.week, g2>> \in RecapSlot
      BY <1>0, <2>2 DEF RecapSlot
    <3> QED
      BY <2>2, <2>6, <2>9, <3>1 DEF RecapInv, TodoIsFree, Free
  <2>14. CurrentIsGenerated'
    BY <2>2, <2>4, <2>8 DEF CurrentIsGenerated
  <2>15. ~ Working
    BY <2>1 DEF Working
  <2>16. StuckSlots' \subseteq StuckSlots
    BY <2>4, <2>9, <2>15, WhatIsStuck, WhatIsStuckAfter
  <2> QED
    BY <2>1, <2>11, <2>12, <2>13, <2>14, <2>16, NoMoreStuck DEF RecapInv
<1>8. ASSUME NEW g \in Goal, InsertRecapFails(g) PROVE RecapInv'
  <2>1. /\ UNCHANGED <<week, due, recaps, lapses>> /\ sweep.step = "next"
        /\ sweep' = IdleSweep \/ sweep' = [sweep EXCEPT !.todo = @ \ {g}]
        /\ sweep' = IdleSweep => sweep'.todo = {}
    BY <1>8 DEF InsertRecapFails, LeaveGoal, IdleSweep
  <2>2. CASE sweep' = IdleSweep
    <3>1. RecapsTypeOK'
      BY <1>0, <1>5, <2>1, <2>2
    <3>2. ~ Working /\ ~ Working'
      BY <2>1, <2>2 DEF Working, IdleSweep
    <3>3. OneRecap' /\ TodoIsFree' /\ CurrentIsGenerated'
      BY <2>1, <2>2, <3>2 DEF RecapInv, OneRecap, TodoIsFree, CurrentIsGenerated
    <3>4. StuckSlots' \subseteq StuckSlots
      BY <2>1, <3>2, WhatIsStuck, WhatIsStuckAfter
    <3> QED
      BY <2>1, <3>1, <3>3, <3>4, NoMoreStuck DEF RecapInv
  <2>3. CASE sweep' = [sweep EXCEPT !.todo = @ \ {g}]
    <3>1. /\ sweep' \in [step : SweepStep, week : Week, todo : SUBSET Goal,
                         goal : Goal \cup {NoGoal}]
          /\ sweep'.step = "next" /\ sweep'.week = sweep.week
          /\ sweep'.todo \subseteq sweep.todo
      BY <1>0, <2>1, <2>3
    <3>2. RecapsTypeOK'
      BY <1>0, <1>5, <2>1, <3>1
    <3>3. ~ Working /\ ~ Working'
      BY <2>1, <3>1 DEF Working
    <3> QED
      BY <2>1, <3>1, <3>2, <3>3, SweepGoesOn
  <2> QED
    BY <2>1, <2>2, <2>3
<1>9. CASE Summarize
  <2>1. PICK outcome \in {"done", "failed"} : sweep' = [sweep EXCEPT !.step = outcome]
    BY <1>9 DEF Summarize
  <2>2. UNCHANGED <<week, due, recaps, lapses>> /\ Working
    BY <1>9 DEF Summarize, Working
  <2>3. /\ sweep' \in [step : SweepStep, week : Week, todo : SUBSET Goal,
                       goal : Goal \cup {NoGoal}]
        /\ sweep'.week = sweep.week /\ sweep'.todo = sweep.todo /\ sweep'.goal = sweep.goal
    BY <1>0, <2>1 DEF SweepStep
  <2>4. RecapsTypeOK'
    BY <1>0, <1>5, <2>2, <2>3
  <2>5. Working'
    BY <1>0, <2>1 DEF Working
  <2> QED
    BY <2>2, <2>3, <2>4, <2>5, SweepGoesOn
\* The sweep leaves its goal, whose row is settled or not.
<1>10. ASSUME UNCHANGED <<week, due>>, recaps' \in [RecapSlot -> RecapRow],
              lapses' \in 0..MaxLapses,
              sweep' = IdleSweep \/ sweep' = [sweep EXCEPT !.step = "next", !.goal = NoGoal],
              \A k \in RecapSlot \ {Place} : recaps'[k] = recaps[k],
              Working, OneRecap',
              \/ lapses' = lapses /\ recaps'[Place]["generating"] = 0
              \/ lapses' = lapses + 1
       PROVE  RecapInv'
  <2>1. sweep' = IdleSweep \/ (sweep'.week = sweep.week /\ sweep'.todo = sweep.todo)
    <3>1. CASE sweep' = [sweep EXCEPT !.step = "next", !.goal = NoGoal]
      BY <1>0, <3>1
    <3> QED
      BY <1>10, <3>1
  <2>2. sweep' \in [step : SweepStep, week : Week, todo : SUBSET Goal,
                    goal : Goal \cup {NoGoal}]
    BY <1>0, <1>10 DEF SweepStep
  <2>3. RecapsTypeOK'
    BY <1>0, <1>10, <2>2 DEF RecapsTypeOK, RecapSlot, RecapRow, SweepStep
  <2>4. ~ Working'
    <3>1. CASE sweep' = [sweep EXCEPT !.step = "next", !.goal = NoGoal]
      BY <1>0, <3>1 DEF Working
    <3>2. CASE sweep' = IdleSweep
      BY <3>2 DEF Working, IdleSweep
    <3> QED
      BY <1>10, <3>1, <3>2
  <2>5. TodoIsFree'
    <3>1. CASE sweep' = IdleSweep
      BY <3>1 DEF TodoIsFree, IdleSweep
    <3>2. CASE sweep'.week = sweep.week /\ sweep'.todo = sweep.todo
      <4>1. \A g \in sweep.todo : <<sweep.week, g>> \in RecapSlot \ {Place}
        BY <1>0, <1>10 DEF RecapInv, CurrentIsGenerated, RecapSlot, Place
      <4> QED
        BY <1>10, <3>2, <4>1 DEF RecapInv, TodoIsFree, Free
    <3> QED
      BY <2>1, <3>1, <3>2
  <2>6. CurrentIsGenerated'
    BY <2>4 DEF CurrentIsGenerated
  <2>7. StuckSlots' \subseteq StuckSlots \cup {Place}
    BY <1>10, <2>4, WhatIsStuck, WhatIsStuckAfter
  <2>8. recaps'[Place]["generating"] = 0 => StuckSlots' \subseteq StuckSlots
    BY <1>10, <2>4, WhatIsStuck, WhatIsStuckAfter
  <2>9. Cardinality(StuckSlots') <= lapses'
    BY <1>10, <2>7, <2>8, NoMoreStuck, OneMoreStuck
  <2> QED
    BY <1>10, <2>3, <2>5, <2>6, <2>9 DEF RecapInv
<1>11. CASE UpdateRecap
  <2> DEFINE s == sweep.step  r == Settle(recaps[Place], s)
  <2>1. /\ s \in {"done", "failed"} /\ UNCHANGED <<week, due>> /\ Working
        /\ sweep' = IdleSweep \/ sweep' = [sweep EXCEPT !.step = "next", !.goal = NoGoal]
    BY <1>11 DEF UpdateRecap, NextGoal, Working
  <2>2. /\ Place \in RecapSlot /\ recaps[Place] \in RecapRow
        /\ recaps[Place]["generating"] = 1 /\ recaps[Place]["done"] = 0
    BY <1>0, <2>1 DEF RecapInv, CurrentIsGenerated, RecapSlot, Place
  <2>3. CASE recaps' = Put(recaps, Place, r) /\ UNCHANGED lapses
    <3>1. /\ r \in RecapRow /\ r["generating"] = 0 /\ r["done"] <= 1 /\ r["done"] \in Nat
      BY <2>1, <2>2 DEF RecapRow, RecapStatus, Settle
    <3> HIDE DEF r
    <3>2. /\ recaps' \in [RecapSlot -> RecapRow] /\ recaps'[Place] = r
          /\ \A k \in RecapSlot \ {Place} : recaps'[k] = recaps[k]
      BY <1>0, <2>2, <2>3, <3>1 DEF Put
    <3>3. OneRecap'
      BY <3>1, <3>2 DEF RecapInv, OneRecap
    <3> QED
      BY <1>0, <1>10, <2>1, <2>3, <3>1, <3>2, <3>3
  <2>4. CASE Lapse /\ UNCHANGED recaps
    <3>1. lapses' = lapses + 1 /\ lapses' \in 0..MaxLapses
      BY <1>0, <2>4, RecapsAssumption DEF Lapse
    <3>2. OneRecap'
      BY <2>4 DEF RecapInv, OneRecap
    <3> QED
      BY <1>0, <1>10, <2>1, <2>4, <3>1, <3>2
  <2>5. \/ recaps' = Put(recaps, Place, r) /\ UNCHANGED lapses
        \/ Lapse /\ UNCHANGED recaps
    BY <1>11 DEF UpdateRecap, Put, Place
  <2> QED
    BY <2>3, <2>4, <2>5
<1>12. CASE SweepCrash
  <2>1. /\ UNCHANGED <<week, due, recaps>> /\ sweep' = IdleSweep
        /\ lapses' = lapses + 1 /\ lapses' \in 0..MaxLapses
    BY <1>0, <1>12, RecapsAssumption DEF SweepCrash, Lapse
  <2>2. RecapsTypeOK' /\ ~ Working'
    BY <1>0, <1>5, <2>1 DEF Working, IdleSweep
  <2>3. OneRecap' /\ TodoIsFree' /\ CurrentIsGenerated'
    BY <2>1, <2>2 DEF RecapInv, OneRecap, TodoIsFree, CurrentIsGenerated, IdleSweep
  <2>4. StuckSlots' \subseteq StuckSlots \cup {Place}
    BY <2>1, WhatIsStuck, WhatIsStuckAfter
  <2> QED
    BY <2>1, <2>2, <2>3, <2>4, OneMoreStuck DEF RecapInv
<1>13. CASE UNCHANGED recapVars
  BY <1>0, <1>1, <1>13 DEF recapVars
<1>14. ASSUME NEW g \in Goal, InsertRecapAnswerLost(g) PROVE RecapInv'
  <2> DEFINE k == <<sweep.week, g>>
  <2>1. /\ sweep.step = "next" /\ g \in sweep.todo /\ UNCHANGED <<week, due>>
        /\ sweep' = IdleSweep \/ sweep' = [sweep EXCEPT !.todo = @ \ {g}]
        /\ lapses' = lapses + 1 /\ lapses' \in 0..MaxLapses /\ k \in RecapSlot
    BY <1>0, <1>14, RecapsAssumption DEF InsertRecapAnswerLost, LeaveGoal, Lapse, RecapSlot
  <2>2. /\ sweep' \in [step : SweepStep, week : Week, todo : SUBSET Goal,
                       goal : Goal \cup {NoGoal}]
        /\ sweep'.step \in {"idle", "next"}
        /\ \A h \in sweep'.todo : h \in sweep.todo \ {g} /\ sweep'.week = sweep.week
    <3>1. CASE sweep' = IdleSweep
      BY <1>0, <3>1 DEF IdleSweep
    <3>2. CASE sweep' = [sweep EXCEPT !.todo = @ \ {g}]
      BY <1>0, <2>1, <3>2
    <3> QED
      BY <2>1, <3>1, <3>2
  <2>3. ~ Working /\ ~ Working'
    BY <2>1, <2>2 DEF Working
  <2>4. recaps' = Put(recaps, k, [recaps[k] EXCEPT !["generating"] = @ + 1])
    BY <1>14 DEF InsertRecapAnswerLost, Put
  <2>5. recaps[k]["generating"] = 0 /\ recaps[k]["done"] = 0
    BY <2>1 DEF RecapInv, TodoIsFree, Free
  <2>6. [recaps[k] EXCEPT !["generating"] = @ + 1] \in RecapRow
    BY <1>0, <2>1 DEF RecapRow, RecapStatus
  <2>7. \A h \in sweep'.todo : <<sweep'.week, h>> \in RecapSlot \ {k}
    BY <1>0, <2>2 DEF RecapSlot
  <2> HIDE DEF k
  <2>8. recaps'[k]["generating"] = 1 /\ recaps'[k]["done"] = 0
    BY <1>0, <2>1, <2>4, <2>5 DEF Put, RecapRow, RecapStatus
  <2>9. /\ recaps' \in [RecapSlot -> RecapRow]
        /\ \A n \in RecapSlot \ {k} : recaps'[n] = recaps[n]
    BY <1>0, <2>4, <2>6 DEF Put
  <2>10. RecapsTypeOK'
    BY <1>0, <2>1, <2>2, <2>9 DEF RecapsTypeOK, RecapSlot, RecapRow, SweepStep
  <2>11. OneRecap'
    BY <2>8, <2>9 DEF RecapInv, OneRecap
  <2>12. TodoIsFree'
    BY <2>2, <2>7, <2>9 DEF RecapInv, TodoIsFree, Free
  <2>13. CurrentIsGenerated'
    BY <2>3 DEF CurrentIsGenerated
  <2>14. StuckSlots' \subseteq StuckSlots \cup {k}
    BY <2>3, <2>9, WhatIsStuck, WhatIsStuckAfter
  <2> QED
    BY <2>1, <2>10, <2>11, <2>12, <2>13, <2>14, OneMoreStuck DEF RecapInv
<1> QED
  BY <1>2, <1>3, <1>4, <1>6, <1>7, <1>8, <1>9, <1>11, <1>12, <1>13, <1>14 DEF RecapsNext

(* The rows of every goal and week, and the sweep, keep their types.       *)
THEOREM RecapsTyping == RecapsSpec => []RecapsTypeOK
<1>1. RecapInv => RecapsTypeOK
  BY DEF RecapInv
<1> QED
  BY <1>1, RecapInvInit, RecapInvStep, PTL DEF RecapsSpec

(* For every number of goals, weeks and lapses, a goal gets one recap a    *)
(* week, and each row that stays 'generating' is paid for by a lapse.      *)
THEOREM RecapsArePaidFor == RecapsSpec => []RecapsAccountedFor
<1>1. RecapInv => RecapsAccountedFor
  BY DEF RecapInv, OneRecap, RecapsAccountedFor, StuckSlots, RecapSlot
<1> QED
  BY <1>1, RecapInvInit, RecapInvStep, PTL DEF RecapsSpec

-----------------------------------------------------------------------------
(* The nudges: how many, and how often the same. First, lists that hold an *)
(* event once.                                                             *)

\* Whatever adds up the numbers of f has their total.
LEMMA AddersAgree ==
  ASSUME NEW S, IsFiniteSet(S), NEW f, NEW h, Adds(h, f, S)
  PROVE  h[S] = Total(f, S)
<1> DEFINE k == Adder(f, S)  Q == {s \in SUBSET S : h[s] = k[s]}
<1>1. k[{}] = 0 /\ \A s \in SUBSET S : s # {} => k[s] = f[Pick(s)] + k[Rest(s)]
  BY AdderSteps
<1>2. \A s \in SUBSET S : h[s] = IF s = {} THEN 0 ELSE f[Pick(s)] + h[Rest(s)]
  BY DEF Adds
<1> HIDE DEF k
<1>3. {} \in Q
  BY <1>1, <1>2
<1>4. ASSUME NEW s \in SUBSET S, s # {}, Rest(s) \in Q PROVE s \in Q
  BY <1>1, <1>2, <1>4
<1>5. SUBSET S \subseteq Q
  <2> HIDE DEF Q
  <2> QED
    BY <1>3, <1>4, TakingOut
<1> QED
  BY <1>5 DEF Total, k


\* The events of a list, which holds each of them once.
Held(s) == {s[i] : i \in 1..Len(s)}

Once(s) == \A i, j \in 1..Len(s) : s[i] = s[j] => i = j

LEMMA HeadIsHeld ==
  ASSUME NEW s \in Seq(Event), s # <<>>, Once(s)
  PROVE  /\ Len(s) \in Nat \ {0}
         /\ Head(s) \in Event /\ Head(s) \in Held(s)
         /\ Tail(s) \in Seq(Event) /\ Once(Tail(s))
         /\ Held(Tail(s)) \subseteq Held(s) \ {Head(s)}
         /\ Tail(s) = <<>> <=> Len(s) = 1
<1>1. Len(s) \in Nat \ {0} /\ Head(s) = s[1]
  BY EmptySeq
<1>2. /\ Head(s) \in Event /\ Tail(s) \in Seq(Event) /\ Len(Tail(s)) = Len(s) - 1
      /\ \A i \in 1..Len(Tail(s)) : Tail(s)[i] = s[i + 1]
  BY HeadTailProperties
<1>3. \A i \in 1..Len(Tail(s)) : i + 1 \in 1..Len(s) /\ i + 1 # 1 /\ 1 \in 1..Len(s)
  BY <1>1, <1>2
<1>4. Once(Tail(s))
  <2> SUFFICES ASSUME NEW i \in 1..Len(Tail(s)), NEW j \in 1..Len(Tail(s)),
                      Tail(s)[i] = Tail(s)[j]
               PROVE  i = j
    BY DEF Once
  <2>1. i + 1 = j + 1
    BY <1>2, <1>3 DEF Once
  <2> QED
    BY <1>2, <2>1
<1>5. Held(Tail(s)) \subseteq Held(s) \ {Head(s)}
  BY <1>1, <1>2, <1>3 DEF Held, Once
<1>6. Head(s) \in Held(s)
  BY <1>1 DEF Held
<1>7. Tail(s) = <<>> <=> Len(s) = 1
  <2>1. Len(<<>>) = 0 /\ (Tail(s) # <<>> => Len(Tail(s)) \in Nat \ {0})
    BY <1>2, EmptySeq
  <2> DEFINE t == Tail(s)  empty == <<>>
  <2>2. Len(t) = Len(s) - 1 /\ Len(empty) = 0 /\ (t # empty => Len(t) \in Nat \ {0})
    BY <1>2, <2>1
  <2> HIDE DEF t, empty
  <2>3. t = empty <=> Len(s) = 1
    BY <1>1, <2>2
  <2> QED
    BY <2>3 DEF t, empty
<1> QED
  BY <1>1, <1>2, <1>4, <1>5, <1>6, <1>7

LEMMA AppendOnce ==
  ASSUME NEW s \in Seq(Event), NEW e \in Event, Once(s), e \notin Held(s)
  PROVE  /\ Append(s, e) \in Seq(Event) /\ Once(Append(s, e))
         /\ Held(Append(s, e)) = Held(s) \cup {e}
<1> DEFINE t == Append(s, e)
<1>1. /\ t \in Seq(Event) /\ Len(t) = Len(s) + 1 /\ Len(s) \in Nat
      /\ \A i \in 1..Len(s) : t[i] = s[i]
      /\ t[Len(s) + 1] = e
  BY AppendProperties, LenProperties
<1> HIDE DEF t
<1>2. \A i \in 1..Len(t) : i \in 1..Len(s) \/ i = Len(s) + 1
  BY <1>1
<1>3. Once(t)
  BY <1>1, <1>2 DEF Once, Held
<1>4. Held(t) = Held(s) \cup {e}
  <2>1. Held(t) \subseteq Held(s) \cup {e}
    BY <1>1, <1>2 DEF Held
  <2>2. Held(s) \subseteq Held(t)
    <3>1. \A i \in 1..Len(s) : i \in 1..Len(t)
      BY <1>1
    <3> QED
      BY <1>1, <3>1 DEF Held
  <2>3. e \in Held(t)
    <3>1. Len(s) + 1 \in 1..Len(t)
      BY <1>1
    <3> QED
      BY <1>1, <3>1 DEF Held
  <2> QED
    BY <2>1, <2>2, <2>3
<1> QED
  BY <1>1, <1>3, <1>4 DEF t

LEMMA BatchOnce ==
  ASSUME NEW s \in Seq(Event), Once(s), s # <<>>
  PROVE  LET b == SubSeq(s, 1, Min({BatchSize, Len(s)})) IN
         b \in Seq(Event) /\ Once(b) /\ Held(b) \subseteq Held(s) /\ b # <<>>
<1> DEFINE n == Min({BatchSize, Len(s)})
<1>1. BatchSize \in Nat \ {0} /\ Len(s) \in Nat \ {0}
  BY NotificationsAssumption, EmptySeq
<1>2. n \in 1..Len(s)
  <2>1. \E x \in {BatchSize, Len(s)} : \A y \in {BatchSize, Len(s)} : x <= y
    BY <1>1
  <2>2. n \in {BatchSize, Len(s)} /\ \A y \in {BatchSize, Len(s)} : n <= y
    BY <2>1 DEF Min
  <2> QED
    BY <1>1, <2>2
<1> HIDE DEF n
<1> DEFINE b == SubSeq(s, 1, n)
<1>3. \A i \in 1..n : i \in 1..Len(s) /\ s[i] \in Event
  BY <1>1, <1>2, ElementOfSeq
<1>4. /\ b \in Seq(Event) /\ Len(b) = n
      /\ \A i \in 1..n : b[i] = s[i]
  BY <1>1, <1>2, <1>3, SubSeqProperties
<1> HIDE DEF b
<1>5. Once(b) /\ Held(b) \subseteq Held(s)
  BY <1>3, <1>4 DEF Once, Held
<1>6. b # <<>>
  BY <1>2, <1>4, EmptySeq
<1> QED
  BY <1>4, <1>5, <1>6 DEF b, n

LEMMA RemovedOnce ==
  ASSUME NEW s \in Seq(Event), NEW e \in Held(s), Once(s)
  PROVE  /\ RemoveFirst(s, e) \in Seq(Event) /\ Once(RemoveFirst(s, e))
         /\ Held(RemoveFirst(s, e)) = Held(s) \ {e}
<1>1. Len(s) \in Nat /\ \A i \in 1..Len(s) : s[i] \in Event
  BY LenProperties, ElementOfSeq
<1>2. PICK p \in 1..Len(s) : s[p] = e
  BY DEF Held
<1>3. RemoveFirst(s, e) = RemoveAt(s, p)
  <2> DEFINE I == {i \in 1..Len(s) : s[i] = e}
  <2>1. I = {p}
    BY <1>2 DEF Once
  <2>2. Min({p}) = p
    BY <1>2 DEF Min
  <2>3. SelectInSeq(s, LAMBDA v : v = e) = p
    BY <2>1, <2>2 DEF SelectInSeq
  <2> QED
    BY <1>2, <2>3 DEF RemoveFirst
<1> DEFINE front == SubSeq(s, 1, p - 1)  back == SubSeq(s, p + 1, Len(s))
           t == RemoveAt(s, p)
<1>4. /\ front \in Seq(Event) /\ Len(front) = p - 1
      /\ \A i \in 1..p - 1 : front[i] = s[i]
  <2>1. 1 \in Int /\ p - 1 \in Int /\ \A i \in 1..p - 1 : s[i] \in Event
    BY <1>1, <1>2
  <2>2. /\ front \in Seq(Event) /\ Len(front) = IF 1 <= p - 1 THEN (p - 1) - 1 + 1 ELSE 0
        /\ \A i \in 1..(p - 1) - 1 + 1 : front[i] = s[1 + i - 1]
    BY <2>1, SubSeqProperties
  <2> HIDE DEF front
  <2>3. \A i \in 1..p - 1 : 1 + i - 1 = i /\ i \in 1..(p - 1) - 1 + 1
    BY <1>2
  <2> QED
    BY <1>1, <1>2, <2>2, <2>3
<1>5. /\ back \in Seq(Event) /\ Len(back) = Len(s) - p
      /\ \A i \in 1..Len(s) - p : back[i] = s[p + i]
  <2>1. p + 1 \in Int /\ Len(s) \in Int /\ \A i \in p + 1..Len(s) : s[i] \in Event
    BY <1>1, <1>2
  <2>2. /\ back \in Seq(Event)
        /\ Len(back) = IF p + 1 <= Len(s) THEN Len(s) - (p + 1) + 1 ELSE 0
        /\ \A i \in 1..Len(s) - (p + 1) + 1 : back[i] = s[p + 1 + i - 1]
    BY <2>1, SubSeqProperties
  <2> HIDE DEF back
  <2>3. \A i \in 1..Len(s) - p : p + 1 + i - 1 = p + i /\ i \in 1..Len(s) - (p + 1) + 1
    BY <1>1, <1>2
  <2> QED
    BY <1>1, <1>2, <2>2, <2>3
<1>6. t = front \o back
  BY DEF RemoveAt
<1> HIDE DEF front, back, t
<1>7. /\ t \in Seq(Event) /\ Len(t) = Len(s) - 1
      /\ \A i \in 1..Len(s) - 1 : t[i] = IF i <= p - 1 THEN front[i] ELSE back[i - (p - 1)]
  <2>1. /\ t \in Seq(Event) /\ Len(t) = Len(front) + Len(back)
        /\ \A i \in 1..Len(front) + Len(back) :
              t[i] = IF i <= Len(front) THEN front[i] ELSE back[i - Len(front)]
    BY <1>4, <1>5, <1>6, ConcatProperties
  <2>2. Len(front) + Len(back) = Len(s) - 1
    BY <1>1, <1>2, <1>4, <1>5
  <2> QED
    BY <1>4, <2>1, <2>2
<1> DEFINE from(i) == IF i <= p - 1 THEN i ELSE i + 1
<1>8. \A i \in 1..Len(s) - 1 : t[i] = s[from(i)] /\ from(i) \in 1..Len(s) \ {p}
  <2> SUFFICES ASSUME NEW i \in 1..Len(s) - 1
               PROVE  t[i] = s[from(i)] /\ from(i) \in 1..Len(s) \ {p}
    OBVIOUS
  <2>1. CASE i <= p - 1
    BY <1>1, <1>2, <1>4, <1>7, <2>1
  <2>2. CASE ~ (i <= p - 1)
    <3>1. i - (p - 1) \in 1..Len(s) - p /\ p + (i - (p - 1)) = i + 1
      BY <1>1, <1>2, <2>2
    <3>2. t[i] = s[i + 1]
      BY <1>5, <1>7, <2>2, <3>1
    <3> QED
      BY <1>1, <1>2, <2>2, <3>2
  <2> QED
    BY <2>1, <2>2
<1>9. \A i, j \in 1..Len(s) - 1 : from(i) = from(j) => i = j
  BY <1>1, <1>2
<1>10. \A k \in 1..Len(s) \ {p} : \E i \in 1..Len(s) - 1 : from(i) = k
  <2> SUFFICES ASSUME NEW k \in 1..Len(s) \ {p}
               PROVE  \E i \in 1..Len(s) - 1 : from(i) = k
    OBVIOUS
  <2>1. CASE k < p
    <3>1. k \in 1..Len(s) - 1 /\ from(k) = k
      BY <1>1, <1>2, <2>1
    <3> QED
      BY <3>1
  <2>2. CASE k > p
    <3>1. k - 1 \in 1..Len(s) - 1 /\ from(k - 1) = k
      BY <1>1, <1>2, <2>2
    <3> QED
      BY <3>1
  <2> QED
    BY <1>1, <1>2, <2>1, <2>2
<1> HIDE DEF from
<1>11. Once(t)
  BY <1>7, <1>8, <1>9 DEF Once
<1>12. Held(t) = Held(s) \ {e}
  <2>1. ASSUME NEW x \in Held(t) PROVE x \in Held(s) \ {e}
    BY <1>2, <1>7, <1>8, <2>1 DEF Held, Once
  <2>2. ASSUME NEW x \in Held(s) \ {e} PROVE x \in Held(t)
    <3>1. PICK k \in 1..Len(s) \ {p} : s[k] = x
      BY <1>2, <2>2 DEF Held
    <3>2. PICK i \in 1..Len(s) - 1 : from(i) = k
      BY <1>10
    <3> QED
      BY <1>7, <1>8, <3>1, <3>2 DEF Held
  <2> QED
    BY <2>1, <2>2
<1> QED
  BY <1>3, <1>7, <1>11, <1>12 DEF t

EngineRow == [step : Step, batch : Seq(Event), tries : 0..Attempts]

\* The events that a later step may send without any further fault.
Settled == IF engine.step \in {"log", "mark"} THEN {Current} ELSE {}

Open == Held(inbox) \ Settled

\* What the messages of an event owe to faults.
Debt == [e \in Event |-> IF e \in Open \/ sent[e] = 0 THEN sent[e] ELSE sent[e] - 1]

\* The rows of today that no later step repeats, and one that is to be written.
Closed == logged \ Open

Pending == IF engine.step = "log" /\ Current \notin logged THEN 1 ELSE 0

\* The batch holds each event once, and all of it is still in the inbox.
Lists ==
    /\ Once(inbox) /\ Once(engine.batch) /\ Held(engine.batch) \subseteq Held(inbox)
    /\ engine.step = "idle" <=> engine.batch = <<>>

AbsentIsNew ==
    \A e \in Event :
      kind[e] = "absent" => e \notin Held(inbox) /\ sent[e] = 0 /\ e \notin logged

\* Only a nudge is logged, and only below the limit.
OnlyNudgesAreLogged == engine.step = "log" => kind[Current] = "nudge"

LogIsLimited ==
    /\ Cardinality(logged) <= NudgeLimit
    /\ engine.step \in {"send", "log"} /\ kind[Current] = "nudge"
         => Cardinality(logged) < NudgeLimit

\* The two books: messages against faults, and today's messages against the
\* rows of the log that limits them.
RepeatsArePaid == Total(Debt, Event) <= faults

TodayIsPaid == today <= Cardinality(Closed) + Pending + faults

NudgeShape ==
    NotificationsTypeOK /\ Lists /\ AbsentIsNew /\ OnlyNudgesAreLogged /\ LogIsLimited

NudgeInv == NudgeShape /\ RepeatsArePaid /\ TodayIsPaid

LEMMA DebtIsCounted ==
  NotificationsTypeOK => Debt \in [Event -> Nat] /\ Total(Debt, Event) \in Nat
<1> SUFFICES ASSUME NotificationsTypeOK PROVE Debt \in [Event -> Nat] /\ Total(Debt, Event) \in Nat
  OBVIOUS
<1>1. \A e \in Event : sent[e] \in Nat
  BY DEF NotificationsTypeOK
<1>2. \A e \in Event : Debt[e] \in Nat
  BY <1>1 DEF Debt
<1>3. Debt \in [Event -> Nat]
  BY <1>2 DEF Debt
<1> QED
  BY <1>3, NotificationsAssumption, TotalIsNat

LEMMA DebtIsCountedAfter ==
  NotificationsTypeOK' => Debt' \in [Event -> Nat] /\ Total(Debt', Event) \in Nat
<1> SUFFICES ASSUME NotificationsTypeOK'
             PROVE  Debt' \in [Event -> Nat] /\ Total(Debt', Event) \in Nat
  OBVIOUS
<1>1. \A e \in Event : sent'[e] \in Nat
  BY DEF NotificationsTypeOK
<1>2. \A e \in Event : Debt'[e] \in Nat
  BY <1>1 DEF Debt
<1>3. Debt' \in [Event -> Nat]
  BY <1>2 DEF Debt
<1> QED
  BY <1>3, NotificationsAssumption, TotalIsNat

\* Nobody owes more.
LEMMA DebtStays ==
  ASSUME NudgeInv, NotificationsTypeOK', faults' = faults,
         \A e \in Event : Debt'[e] <= Debt[e]
  PROVE  RepeatsArePaid'
<1>1. /\ Debt \in [Event -> Nat] /\ Total(Debt, Event) \in Nat
      /\ Debt' \in [Event -> Nat] /\ Total(Debt', Event) \in Nat
      /\ faults \in Nat
  BY DebtIsCounted, DebtIsCountedAfter, NotificationsAssumption
  DEF NudgeInv, NudgeShape, NotificationsTypeOK
<1>2. Total(Debt', Event) <= Total(Debt, Event)
  BY <1>1, NotificationsAssumption, TotalGrows
<1> QED
  BY <1>1, <1>2 DEF NudgeInv, RepeatsArePaid

\* One event owes one more.
LEMMA DebtGrows ==
  ASSUME NudgeInv, NotificationsTypeOK', faults' = faults + 1, NEW c \in Event,
         Debt'[c] <= Debt[c] + 1,
         \A e \in Event \ {c} : Debt'[e] <= Debt[e]
  PROVE  RepeatsArePaid'
<1>1. /\ Debt \in [Event -> Nat] /\ Total(Debt, Event) \in Nat
      /\ Debt' \in [Event -> Nat] /\ Total(Debt', Event) \in Nat
      /\ faults \in Nat
  BY DebtIsCounted, DebtIsCountedAfter, NotificationsAssumption
  DEF NudgeInv, NudgeShape, NotificationsTypeOK
<1> DEFINE g == [Debt EXCEPT ![c] = Debt[c] + 1]
<1>2. /\ g \in [Event -> Nat] /\ g[c] = Debt[c] + 1 /\ Debt[c] \in Nat
      /\ \A e \in Event \ {c} : g[e] = Debt[e]
      /\ \A e \in Event : Debt'[e] <= g[e]
  BY <1>1
<1> HIDE DEF g
<1>3. SameBut(Debt, g, Event, c)
  BY <1>1, <1>2 DEF SameBut
<1>4. Total(g, Event) + Debt[c] = Total(Debt, Event) + g[c]
  BY <1>3, NotificationsAssumption, TotalChanges
<1>5. Total(g, Event) \in Nat
  BY <1>2, NotificationsAssumption, TotalIsNat
<1>6. Total(Debt', Event) <= Total(g, Event)
  BY <1>1, <1>2, NotificationsAssumption, TotalGrows
<1> QED
  BY <1>1, <1>2, <1>4, <1>5, <1>6 DEF NudgeInv, RepeatsArePaid

LEMMA ClosedIsCounted ==
  ASSUME NotificationsTypeOK
  PROVE  IsFiniteSet(Closed) /\ Cardinality(Closed) \in Nat /\ Pending \in Nat
<1>1. IsFiniteSet(Closed)
  BY NotificationsAssumption, FS_Subset DEF NotificationsTypeOK, Closed
<1> QED
  BY <1>1, FS_CardinalityType DEF Pending

LEMMA ClosedIsCountedAfter ==
  ASSUME NotificationsTypeOK'
  PROVE  IsFiniteSet(Closed') /\ Cardinality(Closed') \in Nat /\ Pending' \in Nat
<1>1. IsFiniteSet(Closed')
  BY NotificationsAssumption, FS_Subset DEF NotificationsTypeOK, Closed
<1> QED
  BY <1>1, FS_CardinalityType DEF Pending

\* The day before a step, with k more closed rows after it.
Balanced(t, p, f, c, u, q, g, d) ==
    /\ t \in Nat /\ p \in Nat /\ f \in Nat /\ c \in Nat
    /\ u \in Nat /\ q \in Nat /\ g \in Nat /\ d \in Nat
    /\ t <= c + p + f
    /\ u + p + f + c <= t + q + g + d

LEMMA Balance ==
  ASSUME NEW t, NEW p, NEW f, NEW c, NEW u, NEW q, NEW g, NEW d,
         Balanced(t, p, f, c, u, q, g, d)
  PROVE  u <= d + q + g
  BY DEF Balanced

LEMMA TodayBalanced ==
  ASSUME NudgeInv, NotificationsTypeOK',
         today' + Pending + faults + Cardinality(Closed)
            <= today + Pending' + faults' + Cardinality(Closed')
  PROVE  TodayIsPaid'
<1>1. /\ Cardinality(Closed) \in Nat /\ Cardinality(Closed') \in Nat
      /\ Pending \in Nat /\ Pending' \in Nat
  BY ClosedIsCounted, ClosedIsCountedAfter DEF NudgeInv, NudgeShape
<1>2. today \in Nat /\ today' \in Nat /\ faults \in Nat /\ faults' \in Nat
  BY NotificationsAssumption DEF NudgeInv, NudgeShape, NotificationsTypeOK
<1>3. today <= Cardinality(Closed) + Pending + faults
  BY DEF NudgeInv, TodayIsPaid
<1>4. Balanced(today, Pending, faults, Cardinality(Closed),
               today', Pending', faults', Cardinality(Closed'))
  BY <1>1, <1>2, <1>3 DEF Balanced
<1>5. today' <= Cardinality(Closed') + Pending' + faults'
  BY <1>4, Balance
<1> QED
  BY <1>5 DEF TodayIsPaid

\* What a step sends is pending, or paid for, but for the rows it closes and
\* with those it opens.
Booked(t, p, f, u, q, g, opened, closed) == u + p + f + opened <= t + q + g + closed

Moved(t, p, f, u, q, g, c, d, opened, closed) ==
    /\ t \in Nat /\ p \in Nat /\ f \in Nat /\ c \in Nat
    /\ u \in Nat /\ q \in Nat /\ g \in Nat /\ d \in Nat
    /\ opened \in Nat /\ closed \in Nat
    /\ Booked(t, p, f, u, q, g, opened, closed)
    /\ c + closed <= d + opened

LEMMA MovedIsBalanced ==
  ASSUME NEW t, NEW p, NEW f, NEW u, NEW q, NEW g, NEW c, NEW d, NEW opened, NEW closed,
         Moved(t, p, f, u, q, g, c, d, opened, closed)
  PROVE  u + p + f + c <= t + q + g + d
  BY DEF Moved, Booked

LEMMA ClosedMoves ==
  ASSUME NudgeInv, NotificationsTypeOK', NEW opened \in Nat, NEW closed \in Nat,
         Booked(today, Pending, faults, today', Pending', faults', opened, closed),
         Cardinality(Closed) + closed <= Cardinality(Closed') + opened
  PROVE  TodayIsPaid'
<1>1. /\ Cardinality(Closed) \in Nat /\ Cardinality(Closed') \in Nat
      /\ Pending \in Nat /\ Pending' \in Nat
  BY ClosedIsCounted, ClosedIsCountedAfter DEF NudgeInv, NudgeShape
<1>2. today \in Nat /\ today' \in Nat /\ faults \in Nat /\ faults' \in Nat
  BY NotificationsAssumption DEF NudgeInv, NudgeShape, NotificationsTypeOK
<1>3. Moved(today, Pending, faults, today', Pending', faults',
            Cardinality(Closed), Cardinality(Closed'), opened, closed)
  BY <1>1, <1>2 DEF Moved
<1>4. today' + Pending + faults + Cardinality(Closed)
         <= today + Pending' + faults' + Cardinality(Closed')
  BY <1>3, MovedIsBalanced
<1> QED
  BY <1>4, TodayBalanced

\* No row is opened.
LEMMA TodayStays ==
  ASSUME NudgeInv, NotificationsTypeOK', Closed \subseteq Closed',
         Booked(today, Pending, faults, today', Pending', faults', 0, 0)
  PROVE  TodayIsPaid'
<1>1. IsFiniteSet(Closed) /\ IsFiniteSet(Closed')
  BY ClosedIsCounted, ClosedIsCountedAfter DEF NudgeInv, NudgeShape
<1>2. Cardinality(Closed) <= Cardinality(Closed')
  BY <1>1, FS_Subset
<1>3. Cardinality(Closed) + 0 <= Cardinality(Closed') + 0
  BY <1>1, <1>2, FS_CardinalityType
<1> QED
  BY <1>3, ClosedMoves

\* A row is closed.
LEMMA TodayCloses ==
  ASSUME NudgeInv, NotificationsTypeOK', NEW c, c \notin Closed,
         Closed \cup {c} \subseteq Closed',
         Booked(today, Pending, faults, today', Pending', faults', 0, 1)
  PROVE  TodayIsPaid'
<1>1. IsFiniteSet(Closed) /\ IsFiniteSet(Closed')
  BY ClosedIsCounted, ClosedIsCountedAfter DEF NudgeInv, NudgeShape
<1>2. /\ Cardinality(Closed \cup {c}) = Cardinality(Closed) + 1
      /\ Cardinality(Closed \cup {c}) <= Cardinality(Closed')
  BY <1>1, FS_AddElement, FS_Subset
<1>3. Cardinality(Closed) + 1 <= Cardinality(Closed') + 0
  BY <1>1, <1>2, FS_CardinalityType
<1> QED
  BY <1>3, ClosedMoves

\* A row is opened again, and paid for.
LEMMA TodayOpens ==
  ASSUME NudgeInv, NotificationsTypeOK', NEW c, Closed \subseteq Closed' \cup {c},
         Booked(today, Pending, faults, today', Pending', faults', 1, 0)
  PROVE  TodayIsPaid'
<1>1. IsFiniteSet(Closed) /\ IsFiniteSet(Closed')
  BY ClosedIsCounted, ClosedIsCountedAfter DEF NudgeInv, NudgeShape
<1>2. /\ IsFiniteSet(Closed' \cup {c})
      /\ \/ Cardinality(Closed' \cup {c}) = Cardinality(Closed') + 1
         \/ Cardinality(Closed' \cup {c}) = Cardinality(Closed')
  BY <1>1, FS_AddElement
<1>3. Cardinality(Closed) <= Cardinality(Closed' \cup {c})
  BY <1>2, FS_Subset
<1>4. Cardinality(Closed) + 0 <= Cardinality(Closed') + 1
  BY <1>1, <1>2, <1>3, FS_CardinalityType
<1> QED
  BY <1>4, ClosedMoves

LEMMA NudgeInvInit == NotificationsInit => NudgeInv
<1> SUFFICES ASSUME NotificationsInit PROVE NudgeInv
  OBVIOUS
<1>1. Len(<<>>) = 0 /\ <<>> \in Seq(Event) /\ Held(<<>>) = {} /\ Once(<<>>)
  <2>1. Len(<<>>) = 0 /\ <<>> \in Seq(Event)
    BY EmptySeq
  <2> QED
    BY <2>1 DEF Held, Once
<1>2. IdleEngine \in EngineRow
  BY <1>1, NotificationsAssumption DEF IdleEngine, EngineRow, Step
<1>3. NotificationsTypeOK
  <2>1. inbox \in Seq(Event) /\ engine \in EngineRow
    BY <1>1, <1>2 DEF NotificationsInit
  <2>2. 0 \in 0..MaxFaults
    BY NotificationsAssumption
  <2> QED
    BY <2>1, <2>2 DEF NotificationsInit, NotificationsTypeOK, EngineRow
<1>4. Lists /\ AbsentIsNew /\ OnlyNudgesAreLogged
  BY <1>1 DEF NotificationsInit, IdleEngine, Lists, AbsentIsNew, OnlyNudgesAreLogged
<1>5. LogIsLimited
  <2>1. Cardinality(logged) = 0
    BY FS_EmptySet DEF NotificationsInit
  <2>2. engine.step = "idle"
    BY DEF NotificationsInit, IdleEngine
  <2>3. 0 <= NudgeLimit
    BY NotificationsAssumption
  <2> QED
    BY <2>1, <2>2, <2>3 DEF LogIsLimited
<1>6. RepeatsArePaid
  <2>1. \A e \in Event : Debt[e] <= 0
    BY DEF NotificationsInit, Debt
  <2>2. Total(Debt, Event) <= 0 * Cardinality(Event)
    BY <1>3, <2>1, DebtIsCounted, NotificationsAssumption, TotalBounded
  <2>3. Cardinality(Event) \in Nat
    BY NotificationsAssumption, FS_CardinalityType
  <2>4. Total(Debt, Event) \in Nat /\ Total(Debt, Event) <= 0
    BY <1>3, <2>2, <2>3, DebtIsCounted
  <2> QED
    BY <2>4 DEF RepeatsArePaid, NotificationsInit
<1>7. TodayIsPaid
  <2>1. Cardinality(Closed) \in Nat /\ Pending \in Nat
    BY <1>3, ClosedIsCounted
  <2> QED
    BY <2>1 DEF TodayIsPaid, NotificationsInit
<1> QED
  BY <1>3, <1>4, <1>5, <1>6, <1>7 DEF NudgeInv, NudgeShape

LEMMA NudgeRows ==
  ASSUME NudgeInv
  PROVE  /\ inbox \in Seq(Event) /\ engine \in EngineRow /\ engine.batch \in Seq(Event)
         /\ engine.step \in Step /\ kind \in [Event -> Kind \cup {"absent"}]
         /\ done \in SUBSET Event /\ logged \in SUBSET Event /\ quiet \in BOOLEAN
         /\ sent \in [Event -> Nat] /\ today \in Nat
         /\ faults \in Nat /\ faults \in 0..MaxFaults
         /\ IsFiniteSet(logged) /\ Cardinality(logged) \in Nat
<1>1. engine \in EngineRow /\ logged \in SUBSET Event
  BY DEF NudgeInv, NudgeShape, NotificationsTypeOK, EngineRow
<1>2. engine.batch \in Seq(Event) /\ engine.step \in Step
  BY <1>1 DEF EngineRow
<1>3. IsFiniteSet(logged) /\ Cardinality(logged) \in Nat
  BY <1>1, NotificationsAssumption, FS_Subset, FS_CardinalityType
<1>4. faults \in 0..MaxFaults /\ faults \in Nat
  BY NotificationsAssumption DEF NudgeInv, NudgeShape, NotificationsTypeOK
<1> QED
  BY <1>1, <1>2, <1>3, <1>4 DEF NudgeInv, NudgeShape, NotificationsTypeOK

LEMMA CurrentIsHeld ==
  ASSUME NudgeInv, engine.step # "idle"
  PROVE  /\ engine.batch # <<>> /\ Current \in Event
         /\ Current \in Held(engine.batch) /\ Current \in Held(inbox)
         /\ kind[Current] \in Kind
<1>1. engine.batch \in Seq(Event) /\ engine.batch # <<>> /\ Once(engine.batch)
  BY NudgeRows DEF NudgeInv, NudgeShape, Lists
<1>2. Current \in Event /\ Current \in Held(engine.batch)
  BY <1>1, HeadIsHeld DEF Current
<1>3. Current \in Held(inbox)
  BY <1>2 DEF NudgeInv, NudgeShape, Lists
<1>4. kind[Current] # "absent"
  BY <1>2, <1>3 DEF NudgeInv, NudgeShape, AbsentIsNew
<1> QED
  BY <1>1, <1>2, <1>3, <1>4, NudgeRows

\* The engine goes on with its event.
OnWith(step, tries) ==
    engine' = [step |-> step, batch |-> engine.batch, tries |-> tries]

LEMMA AtIsOn ==
  ASSUME NudgeInv, NEW step, At(step)
  PROVE  OnWith(step, 0)
  BY NudgeRows DEF At, OnWith, EngineRow

LEMMA EngineGoesOn ==
  ASSUME NudgeInv, engine.step # "idle",
         NEW step \in Step \ {"idle"}, NEW tries \in 0..Attempts, OnWith(step, tries),
         UNCHANGED <<inbox, kind, done, quiet>>,
         logged' \subseteq logged \cup {Current}, sent' \in [Event -> Nat],
         today' \in Nat, faults' \in 0..MaxFaults,
         \A e \in Event \ {Current} : sent'[e] = sent[e]
  PROVE  /\ NotificationsTypeOK' /\ Lists' /\ AbsentIsNew'
         /\ engine'.step = step /\ Current' = Current
         /\ step \in {"log", "mark"} => Open' = Held(inbox) \ {Current}
         /\ step \notin {"log", "mark"} => Open' = Held(inbox)
<1>1. engine' \in EngineRow /\ engine'.step = step /\ engine'.batch = engine.batch
  BY NudgeRows DEF OnWith, EngineRow
<1>2. Current \in Event /\ kind[Current] # "absent"
  BY CurrentIsHeld DEF Kind
<1>3. NotificationsTypeOK'
  BY <1>1, <1>2, NudgeRows DEF NotificationsTypeOK, EngineRow
<1>4. Lists'
  BY <1>1, CurrentIsHeld DEF NudgeInv, NudgeShape, Lists
<1>5. AbsentIsNew'
  BY <1>2 DEF NudgeInv, NudgeShape, AbsentIsNew
<1>6. Current' = Current
  BY <1>1 DEF Current
<1> QED
  BY <1>1, <1>3, <1>4, <1>5, <1>6 DEF Open, Settled

LEMMA HandleKeepsInv == NudgeInv /\ Handle => NudgeInv'
<1> SUFFICES ASSUME NudgeInv, Handle PROVE NudgeInv'
  OBVIOUS
<1>1. PICK step \in {"send", "mark"} :
        /\ At(step) /\ engine.step = "handle"
        /\ step = "send" => kind[Current] = "submitted" \/ CanSendNudge
        /\ UNCHANGED <<inbox, kind, done, logged, quiet, sent, today, faults>>
  BY DEF Handle
<1>2. OnWith(step, 0) /\ 0 \in 0..Attempts /\ step \in Step \ {"idle"}
  BY <1>1, AtIsOn, NotificationsAssumption DEF Step
<1>3. /\ NotificationsTypeOK' /\ Lists' /\ AbsentIsNew'
      /\ engine'.step = step /\ Current' = Current
      /\ step \in {"log", "mark"} => Open' = Held(inbox) \ {Current}
      /\ step \notin {"log", "mark"} => Open' = Held(inbox)
  BY <1>1, <1>2, NudgeRows, EngineGoesOn
<1>4. OnlyNudgesAreLogged'
  BY <1>1, <1>3 DEF OnlyNudgesAreLogged
<1>5. LogIsLimited'
  <2>1. step = "send" /\ kind[Current] = "nudge" => Cardinality(logged) < NudgeLimit
    BY <1>1 DEF CanSendNudge
  <2> QED
    BY <1>1, <1>3, <2>1 DEF NudgeInv, NudgeShape, LogIsLimited
<1>6. Open = Held(inbox) /\ Open' \subseteq Open
  BY <1>1, <1>3 DEF Open, Settled
<1>7. \A e \in Event : Debt'[e] <= Debt[e]
  BY <1>1, <1>6, NudgeRows DEF Debt
<1>8. RepeatsArePaid'
  BY <1>1, <1>3, <1>7, DebtStays
<1>9. Closed \subseteq Closed'
  BY <1>1, <1>6 DEF Closed
<1>10. Pending = 0 /\ Pending' = 0
  BY <1>1, <1>3 DEF Pending
<1>11. Booked(today, Pending, faults, today', Pending', faults', 0, 0)
  BY <1>1, <1>10, NudgeRows DEF Booked
<1>12. TodayIsPaid'
  BY <1>3, <1>9, <1>11, TodayStays
<1> QED
  BY <1>3, <1>4, <1>5, <1>8, <1>12 DEF NudgeInv, NudgeShape

\* The message of an event that is open is sent.
LEMMA SentOnce ==
  ASSUME NudgeInv, engine.step = "send", Sent(Current)
  PROVE  /\ sent' \in [Event -> Nat] /\ sent'[Current] = sent[Current] + 1
         /\ \A e \in Event \ {Current} : sent'[e] = sent[e]
         /\ today' \in Nat
         /\ kind[Current] = "nudge" => today' = today + 1
         /\ kind[Current] # "nudge" => today' = today
         /\ Open = Held(inbox) /\ Current \in Open /\ Pending = 0
<1>1. Current \in Event /\ Current \in Held(inbox)
  BY CurrentIsHeld
<1>2. sent' = [sent EXCEPT ![Current] = @ + 1]
  BY DEF Sent
<1>3. /\ sent' \in [Event -> Nat] /\ sent'[Current] = sent[Current] + 1
      /\ \A e \in Event \ {Current} : sent'[e] = sent[e]
  BY <1>1, <1>2, NudgeRows
<1>4. /\ kind[Current] = "nudge" => today' = today + 1
      /\ kind[Current] # "nudge" => today' = today
  BY DEF Sent
<1>5. today' \in Nat
  BY <1>4, NudgeRows
<1>6. Open = Held(inbox) /\ Pending = 0
  BY DEF Open, Settled, Pending
<1> QED
  BY <1>1, <1>3, <1>4, <1>5, <1>6

LEMMA SendSucceedsKeepsInv == NudgeInv /\ SendSucceeds => NudgeInv'
<1> SUFFICES ASSUME NudgeInv, SendSucceeds PROVE NudgeInv'
  OBVIOUS
<1> DEFINE step == IF kind[Current] = "nudge" THEN "log" ELSE "mark"
<1>1. /\ engine.step = "send" /\ Sent(Current) /\ At(step)
      /\ UNCHANGED <<inbox, kind, done, logged, quiet, faults>>
  BY DEF SendSucceeds
<1>2. OnWith(step, 0) /\ 0 \in 0..Attempts /\ step \in Step \ {"idle"}
  BY <1>1, AtIsOn, NotificationsAssumption DEF Step
<1>a. step \in {"log", "mark"} /\ (step = "log" <=> kind[Current] = "nudge")
  OBVIOUS
<1> HIDE DEF step
<1>3. /\ sent' \in [Event -> Nat] /\ sent'[Current] = sent[Current] + 1
      /\ \A e \in Event \ {Current} : sent'[e] = sent[e]
      /\ today' \in Nat
      /\ kind[Current] = "nudge" => today' = today + 1
      /\ kind[Current] # "nudge" => today' = today
      /\ Open = Held(inbox) /\ Current \in Open /\ Pending = 0
  BY <1>1, SentOnce
<1>4. /\ NotificationsTypeOK' /\ Lists' /\ AbsentIsNew'
      /\ engine'.step = step /\ Current' = Current
      /\ Open' = Open \ {Current}
  BY <1>1, <1>2, <1>3, <1>a, NudgeRows, EngineGoesOn
<1>5. OnlyNudgesAreLogged'
  BY <1>1, <1>4, <1>a DEF OnlyNudgesAreLogged
<1>6. LogIsLimited'
  BY <1>1, <1>4, <1>a DEF NudgeInv, NudgeShape, LogIsLimited
<1>7. \A e \in Event : Debt'[e] <= Debt[e]
  <2>1. Debt'[Current] <= Debt[Current]
    <3>1. Current \in Event /\ sent[Current] \in Nat
      BY <1>1, NudgeRows, CurrentIsHeld
    <3>2. Debt[Current] = sent[Current]
      BY <1>3, <3>1 DEF Debt
    <3>3. Debt'[Current] = sent'[Current] - 1
      BY <1>3, <1>4, <3>1 DEF Debt
    <3> QED
      BY <1>3, <3>1, <3>2, <3>3
  <2>2. \A e \in Event \ {Current} : Debt'[e] <= Debt[e]
    BY <1>3, <1>4, NudgeRows DEF Debt
  <2> QED
    BY <2>1, <2>2
<1>8. RepeatsArePaid'
  BY <1>1, <1>4, <1>7, DebtStays
<1>9. TodayIsPaid'
  <2>1. CASE kind[Current] # "nudge"
    <3>1. Pending' = 0
      BY <1>4, <1>a, <2>1 DEF Pending
    <3>2. Booked(today, Pending, faults, today', Pending', faults', 0, 0)
      BY <1>1, <1>3, <2>1, <3>1, NudgeRows DEF Booked
    <3>3. Closed \subseteq Closed'
      BY <1>1, <1>4 DEF Closed
    <3> QED
      BY <1>4, <3>2, <3>3, TodayStays
  <2>2. CASE kind[Current] = "nudge" /\ Current \notin logged
    <3>1. Pending' = 1
      BY <1>1, <1>4, <1>a, <2>2 DEF Pending
    <3>2. Booked(today, Pending, faults, today', Pending', faults', 0, 0)
      BY <1>1, <1>3, <2>2, <3>1, NudgeRows DEF Booked
    <3>3. Closed \subseteq Closed'
      BY <1>1, <1>4 DEF Closed
    <3> QED
      BY <1>4, <3>2, <3>3, TodayStays
  <2>3. CASE kind[Current] = "nudge" /\ Current \in logged
    <3>1. Pending' = 0
      BY <1>1, <1>4, <2>3 DEF Pending
    <3>2. Booked(today, Pending, faults, today', Pending', faults', 0, 1)
      BY <1>1, <1>3, <2>3, <3>1, NudgeRows DEF Booked
    <3>3. Current \notin Closed /\ Closed \cup {Current} \subseteq Closed'
      BY <1>1, <1>3, <1>4, <2>3 DEF Closed
    <3> QED
      BY <1>4, <3>2, <3>3, TodayCloses
  <2> QED
    BY <2>1, <2>2, <2>3
<1> QED
  BY <1>4, <1>5, <1>6, <1>8, <1>9 DEF NudgeInv, NudgeShape

\* Once more, or no more.
LEMMA RetryIsOn ==
  ASSUME NudgeInv, engine.step = "send", Retry
  PROVE  \E step \in {"send", "mark"}, tries \in 0..Attempts : OnWith(step, tries)
<1>1. CASE engine.tries + 1 < Attempts /\ engine' = [engine EXCEPT !.tries = @ + 1]
  <2>1. engine.tries + 1 \in 0..Attempts
    BY <1>1, NudgeRows, NotificationsAssumption DEF EngineRow
  <2>2. OnWith("send", engine.tries + 1)
    BY <1>1, NudgeRows DEF EngineRow, OnWith
  <2> QED
    BY <2>1, <2>2
<1>2. CASE At("mark")
  BY <1>2, AtIsOn, NotificationsAssumption
<1> QED
  BY <1>1, <1>2 DEF Retry

LEMMA SendFailsKeepsInv == NudgeInv /\ SendFails => NudgeInv'
<1> SUFFICES ASSUME NudgeInv, SendFails PROVE NudgeInv'
  OBVIOUS
<1>1. /\ engine.step = "send"
      /\ UNCHANGED <<inbox, kind, done, logged, quiet, sent, today, faults>>
  BY DEF SendFails
<1>2. PICK step \in {"send", "mark"}, tries \in 0..Attempts : OnWith(step, tries)
  BY <1>1, RetryIsOn DEF SendFails
<1>3. step \in Step \ {"idle"}
  BY DEF Step
<1>4. /\ NotificationsTypeOK' /\ Lists' /\ AbsentIsNew'
      /\ engine'.step = step /\ Current' = Current
      /\ step \in {"log", "mark"} => Open' = Held(inbox) \ {Current}
      /\ step \notin {"log", "mark"} => Open' = Held(inbox)
  BY <1>1, <1>2, <1>3, NudgeRows, EngineGoesOn
<1>5. OnlyNudgesAreLogged' /\ LogIsLimited'
  BY <1>1, <1>4 DEF NudgeInv, NudgeShape, OnlyNudgesAreLogged, LogIsLimited
<1>6. Open' \subseteq Open
  BY <1>1, <1>4 DEF Open, Settled
<1>7. \A e \in Event : Debt'[e] <= Debt[e]
  BY <1>1, <1>6, NudgeRows DEF Debt
<1>8. RepeatsArePaid'
  BY <1>1, <1>4, <1>7, DebtStays
<1>9. Closed \subseteq Closed' /\ Pending = 0 /\ Pending' = 0
  BY <1>1, <1>4, <1>6 DEF Closed, Pending
<1>10. Booked(today, Pending, faults, today', Pending', faults', 0, 0)
  BY <1>1, <1>9, NudgeRows DEF Booked
<1> QED
  BY <1>4, <1>5, <1>8, <1>9, <1>10, TodayStays DEF NudgeInv, NudgeShape

LEMMA FaultIsCounted ==
  ASSUME NudgeInv, Fault
  PROVE  faults' = faults + 1 /\ faults' \in 0..MaxFaults /\ faults' \in Nat
  BY NudgeRows, NotificationsAssumption DEF Fault

LEMMA SendAnswerLostKeepsInv == NudgeInv /\ SendAnswerLost => NudgeInv'
<1> SUFFICES ASSUME NudgeInv, SendAnswerLost PROVE NudgeInv'
  OBVIOUS
<1>1. /\ engine.step = "send" /\ Sent(Current) /\ Retry
      /\ UNCHANGED <<inbox, kind, done, logged, quiet>>
      /\ faults' = faults + 1 /\ faults' \in 0..MaxFaults /\ Current \in Event
  BY FaultIsCounted, CurrentIsHeld DEF SendAnswerLost
<1>2. PICK step \in {"send", "mark"}, tries \in 0..Attempts : OnWith(step, tries)
  BY <1>1, RetryIsOn
<1>3. step \in Step \ {"idle"}
  BY DEF Step
<1>4. /\ sent' \in [Event -> Nat] /\ sent'[Current] = sent[Current] + 1
      /\ \A e \in Event \ {Current} : sent'[e] = sent[e]
      /\ today' \in Nat
      /\ kind[Current] = "nudge" => today' = today + 1
      /\ kind[Current] # "nudge" => today' = today
      /\ Open = Held(inbox) /\ Current \in Open /\ Pending = 0
  BY <1>1, SentOnce
<1>5. /\ NotificationsTypeOK' /\ Lists' /\ AbsentIsNew'
      /\ engine'.step = step /\ Current' = Current
      /\ step \in {"log", "mark"} => Open' = Held(inbox) \ {Current}
      /\ step \notin {"log", "mark"} => Open' = Held(inbox)
  BY <1>1, <1>2, <1>3, <1>4, NudgeRows, EngineGoesOn
<1>6. OnlyNudgesAreLogged' /\ LogIsLimited'
  BY <1>1, <1>5 DEF NudgeInv, NudgeShape, OnlyNudgesAreLogged, LogIsLimited
<1>7. Open' \subseteq Open
  BY <1>4, <1>5
<1>8. Debt'[Current] <= Debt[Current] + 1
  BY <1>1, <1>4, <1>7, NudgeRows DEF Debt
<1>9. \A e \in Event \ {Current} : Debt'[e] <= Debt[e]
  BY <1>4, <1>7, NudgeRows DEF Debt
<1>10. RepeatsArePaid'
  BY <1>1, <1>5, <1>8, <1>9, DebtGrows
<1>11. Closed \subseteq Closed' /\ Pending' = 0
  BY <1>1, <1>5, <1>7 DEF Closed, Pending
<1>12. Booked(today, Pending, faults, today', Pending', faults', 0, 0)
  BY <1>1, <1>4, <1>11, NudgeRows DEF Booked
<1> QED
  BY <1>5, <1>6, <1>10, <1>11, <1>12, TodayStays DEF NudgeInv, NudgeShape

LEMMA LogNotificationKeepsInv == NudgeInv /\ LogNotification => NudgeInv'
<1> SUFFICES ASSUME NudgeInv, LogNotification PROVE NudgeInv'
  OBVIOUS
<1>1. /\ engine.step = "log" /\ At("mark")
      /\ UNCHANGED <<inbox, kind, done, quiet, sent, today>>
  BY DEF LogNotification
<1>2. \/ logged' = logged \cup {Current} /\ faults' = faults
      \/ faults' = faults + 1 /\ logged' = logged
  BY FaultIsCounted DEF LogNotification
<1>3. OnWith("mark", 0) /\ 0 \in 0..Attempts /\ "mark" \in Step \ {"idle"}
  BY <1>1, AtIsOn, NotificationsAssumption DEF Step
<1>4. faults' \in 0..MaxFaults
  BY FaultIsCounted, NudgeRows DEF LogNotification
<1>5. Current \in Event /\ kind[Current] = "nudge"
  BY <1>1, CurrentIsHeld DEF NudgeInv, NudgeShape, OnlyNudgesAreLogged
<1>6. /\ NotificationsTypeOK' /\ Lists' /\ AbsentIsNew'
      /\ engine'.step = "mark" /\ Current' = Current
      /\ Open' = Held(inbox) \ {Current}
  BY <1>1, <1>2, <1>3, <1>4, NudgeRows, EngineGoesOn
<1>7. Open' = Open /\ Pending' = 0 /\ Current \notin Open
  BY <1>1, <1>6 DEF Open, Settled, Pending
<1>8. OnlyNudgesAreLogged'
  BY <1>6 DEF OnlyNudgesAreLogged
<1>9. LogIsLimited'
  <2>1. Cardinality(logged) < NudgeLimit
    BY <1>1, <1>5 DEF NudgeInv, NudgeShape, LogIsLimited
  <2>2. \/ Cardinality(logged') = Cardinality(logged)
        \/ Cardinality(logged') = Cardinality(logged) + 1
    BY <1>2, NudgeRows, FS_AddElement
  <2>3. Cardinality(logged') <= NudgeLimit
    BY <2>1, <2>2, NudgeRows, NotificationsAssumption
  <2> QED
    BY <1>6, <2>3 DEF LogIsLimited
<1>10. \A e \in Event : Debt'[e] <= Debt[e]
  BY <1>1, <1>7, NudgeRows DEF Debt
<1>11. RepeatsArePaid'
  <2>1. CASE faults' = faults
    BY <1>6, <1>10, <2>1, DebtStays
  <2>2. CASE faults' = faults + 1
    <3>1. Debt[Current] \in Nat
      BY <1>5, DebtIsCounted DEF NudgeInv, NudgeShape
    <3>2. Debt'[Current] \in Nat
      BY <1>5, <1>6, DebtIsCountedAfter
    <3>3. Debt'[Current] <= Debt[Current] + 1
      BY <1>5, <1>10, <3>1, <3>2
    <3> QED
      BY <1>5, <1>6, <1>10, <2>2, <3>3, DebtGrows
  <2> QED
    BY <1>2, <2>1, <2>2
<1>12. TodayIsPaid'
  <2>1. CASE logged' = logged \cup {Current} /\ faults' = faults /\ Current \notin logged
    <3>1. Pending = 1
      BY <1>1, <2>1 DEF Pending
    <3>2. Booked(today, Pending, faults, today', Pending', faults', 0, 1)
      BY <1>1, <1>7, <2>1, <3>1, NudgeRows DEF Booked
    <3>3. Current \notin Closed /\ Closed \cup {Current} \subseteq Closed'
      BY <1>7, <2>1 DEF Closed
    <3> QED
      BY <1>6, <3>2, <3>3, TodayCloses
  <2>2. CASE logged' = logged \cup {Current} /\ faults' = faults /\ Current \in logged
    <3>1. Pending = 0
      BY <2>2 DEF Pending
    <3>2. Booked(today, Pending, faults, today', Pending', faults', 0, 0)
      BY <1>1, <1>7, <2>2, <3>1, NudgeRows DEF Booked
    <3>3. Closed \subseteq Closed'
      BY <1>7, <2>2 DEF Closed
    <3> QED
      BY <1>6, <3>2, <3>3, TodayStays
  <2>3. CASE faults' = faults + 1 /\ logged' = logged
    <3>1. Pending = 0 \/ Pending = 1
      BY DEF Pending
    <3>2. Booked(today, Pending, faults, today', Pending', faults', 0, 0)
      BY <1>1, <1>7, <2>3, <3>1, NudgeRows DEF Booked
    <3>3. Closed \subseteq Closed'
      BY <1>7, <2>3 DEF Closed
    <3> QED
      BY <1>6, <3>2, <3>3, TodayStays
  <2> QED
    BY <1>2, <2>1, <2>2, <2>3
<1> QED
  BY <1>6, <1>8, <1>9, <1>11, <1>12 DEF NudgeInv, NudgeShape

LEMMA EmitKeepsInv ==
  ASSUME NudgeInv, NEW e \in Event, NEW k \in Kind, Emit(e, k)
  PROVE  NudgeInv'
<1>1. /\ kind[e] = "absent" /\ kind' = [kind EXCEPT ![e] = k] /\ inbox' = Append(inbox, e)
      /\ UNCHANGED <<done, logged, quiet, engine, sent, today, faults>>
  BY DEF Emit
<1>2. e \notin Held(inbox) /\ sent[e] = 0 /\ e \notin logged
  BY <1>1 DEF NudgeInv, NudgeShape, AbsentIsNew
<1>3. /\ inbox' \in Seq(Event) /\ Once(inbox') /\ Held(inbox') = Held(inbox) \cup {e}
  BY <1>1, <1>2, NudgeRows, AppendOnce DEF NudgeInv, NudgeShape, Lists
<1>4. /\ kind' \in [Event -> Kind \cup {"absent"}] /\ kind'[e] = k /\ k # "absent"
      /\ \A f \in Event \ {e} : kind'[f] = kind[f]
  BY <1>1, NudgeRows DEF Kind
<1>5. NotificationsTypeOK'
  BY <1>1, <1>3, <1>4, NudgeRows DEF NotificationsTypeOK, EngineRow
<1>6. Lists'
  BY <1>1, <1>3 DEF NudgeInv, NudgeShape, Lists
<1>7. AbsentIsNew'
  BY <1>1, <1>3, <1>4 DEF NudgeInv, NudgeShape, AbsentIsNew
<1>8. Current' = Current
  BY <1>1 DEF Current
<1>9. engine.step # "idle" => kind'[Current] = kind[Current] /\ Current # e
  BY <1>2, <1>4, CurrentIsHeld
<1>10. OnlyNudgesAreLogged' /\ LogIsLimited'
  BY <1>1, <1>8, <1>9 DEF NudgeInv, NudgeShape, OnlyNudgesAreLogged, LogIsLimited
<1>11. Open' \subseteq Open \cup {e}
  BY <1>1, <1>3, <1>8 DEF Open, Settled
<1>12. \A f \in Event : Debt'[f] <= Debt[f]
  BY <1>1, <1>2, <1>11, NudgeRows DEF Debt
<1>13. RepeatsArePaid'
  BY <1>1, <1>5, <1>12, DebtStays
<1>14. Closed \subseteq Closed'
  BY <1>1, <1>2, <1>11 DEF Closed
<1>15. Pending' = Pending
  BY <1>1, <1>8 DEF Pending
<1>16. Booked(today, Pending, faults, today', Pending', faults', 0, 0)
  BY <1>1, <1>15, NudgeRows, ClosedIsCounted DEF Booked, NudgeInv, NudgeShape
<1>17. TodayIsPaid'
  BY <1>5, <1>14, <1>16, TodayStays
<1> QED
  BY <1>5, <1>6, <1>7, <1>10, <1>13, <1>17 DEF NudgeInv, NudgeShape

LEMMA SetQuietTodayKeepsInv ==
  ASSUME NudgeInv, quiet' \in BOOLEAN,
         UNCHANGED <<inbox, kind, done, logged, engine, sent, today, faults>>
  PROVE  NudgeInv'
<1>1. NudgeShape'
  BY DEF NudgeInv, NudgeShape, NotificationsTypeOK, Lists, AbsentIsNew, OnlyNudgesAreLogged,
         LogIsLimited, Current
<1>2. Debt' = Debt /\ Closed' = Closed /\ Pending' = Pending
  BY DEF Debt, Closed, Pending, Open, Settled, Current
<1> QED
  BY <1>1, <1>2 DEF NudgeInv, RepeatsArePaid, TodayIsPaid

LEMMA NextDayKeepsInv == NudgeInv /\ NextDay => NudgeInv'
<1> SUFFICES ASSUME NudgeInv, NextDay PROVE NudgeInv'
  OBVIOUS
<1>1. /\ logged' = {} /\ quiet' = FALSE /\ today' = 0
      /\ UNCHANGED <<inbox, kind, done, engine, sent, faults>>
  BY DEF NextDay
<1>2. NotificationsTypeOK' /\ Lists' /\ AbsentIsNew'
  BY <1>1 DEF NudgeInv, NudgeShape, NotificationsTypeOK, Lists, AbsentIsNew
<1>3. OnlyNudgesAreLogged'
  BY <1>1 DEF NudgeInv, NudgeShape, OnlyNudgesAreLogged, Current
<1>4. LogIsLimited'
  <2>1. Cardinality(logged') = 0
    BY <1>1, FS_EmptySet
  <2>2. \/ Cardinality(logged) < NudgeLimit
        \/ ~ (engine.step \in {"send", "log"} /\ kind[Current] = "nudge")
    BY DEF NudgeInv, NudgeShape, LogIsLimited
  <2>3. 0 <= NudgeLimit /\ (Cardinality(logged) < NudgeLimit => 0 < NudgeLimit)
    BY NudgeRows, NotificationsAssumption
  <2>4. Current' = Current
    BY <1>1 DEF Current
  <2> QED
    BY <1>1, <2>1, <2>2, <2>3, <2>4 DEF LogIsLimited
<1>5. Debt' = Debt
  BY <1>1 DEF Debt, Open, Settled, Current
<1>6. RepeatsArePaid'
  BY <1>1, <1>5 DEF NudgeInv, RepeatsArePaid
<1>7. TodayIsPaid'
  <2>1. Cardinality(Closed') \in Nat /\ Pending' \in Nat /\ faults' \in Nat
    BY <1>1, <1>2, NudgeRows, ClosedIsCountedAfter
  <2> QED
    BY <1>1, <2>1 DEF TodayIsPaid
<1> QED
  BY <1>2, <1>3, <1>4, <1>6, <1>7 DEF NudgeInv, NudgeShape

LEMMA TickKeepsInv == NudgeInv /\ Tick => NudgeInv'
<1> SUFFICES ASSUME NudgeInv, Tick PROVE NudgeInv'
  OBVIOUS
<1> DEFINE b == SubSeq(inbox, 1, Min({BatchSize, Len(inbox)}))
<1>1. /\ engine.step = "idle" /\ inbox # <<>>
      /\ engine' = [step |-> "handle", tries |-> 0, batch |-> b]
      /\ UNCHANGED <<inbox, kind, done, logged, quiet, sent, today, faults>>
  BY DEF Tick
<1>2. b \in Seq(Event) /\ Once(b) /\ Held(b) \subseteq Held(inbox) /\ b # <<>>
  BY <1>1, NudgeRows, BatchOnce DEF NudgeInv, NudgeShape, Lists
<1> HIDE DEF b
<1>3. engine' \in EngineRow /\ engine'.step = "handle" /\ engine'.batch = b
  BY <1>1, <1>2, NotificationsAssumption DEF EngineRow, Step
<1>4. NotificationsTypeOK'
  BY <1>1, <1>3, NudgeRows DEF NotificationsTypeOK, EngineRow
<1>5. Lists'
  BY <1>1, <1>2, <1>3 DEF NudgeInv, NudgeShape, Lists
<1>6. AbsentIsNew'
  BY <1>1 DEF NudgeInv, NudgeShape, AbsentIsNew
<1>7. OnlyNudgesAreLogged' /\ LogIsLimited'
  BY <1>1, <1>3 DEF NudgeInv, NudgeShape, OnlyNudgesAreLogged, LogIsLimited
<1>8. Open' = Open /\ Pending' = 0 /\ Pending = 0
  BY <1>1, <1>3 DEF Open, Settled, Pending
<1>9. Debt' = Debt /\ Closed' = Closed
  BY <1>1, <1>8 DEF Debt, Closed
<1>10. RepeatsArePaid' /\ TodayIsPaid'
  BY <1>1, <1>8, <1>9 DEF NudgeInv, RepeatsArePaid, TodayIsPaid
<1> QED
  BY <1>4, <1>5, <1>6, <1>7, <1>10 DEF NudgeInv, NudgeShape

\* The event that was settled is open again, or has left the inbox.
LEMMA EventIsLeft ==
  ASSUME NudgeInv, NotificationsTypeOK', engine.step # "idle",
         UNCHANGED <<logged, sent, today>>, Pending' = 0,
         \/ Open' \subseteq Open /\ Pending = 0 /\ faults' = faults
         \/ Open' \subseteq Open \cup {Current} /\ faults' = faults + 1
  PROVE  RepeatsArePaid' /\ TodayIsPaid'
<1>1. CASE Open' \subseteq Open /\ Pending = 0 /\ faults' = faults
  <2>1. \A e \in Event : Debt'[e] <= Debt[e]
    BY <1>1, NudgeRows DEF Debt
  <2>2. Closed \subseteq Closed'
    BY <1>1 DEF Closed
  <2>3. Booked(today, Pending, faults, today', Pending', faults', 0, 0)
    BY <1>1, NudgeRows DEF Booked
  <2> QED
    BY <1>1, <2>1, <2>2, <2>3, DebtStays, TodayStays
<1>2. CASE Open' \subseteq Open \cup {Current} /\ faults' = faults + 1
  <2>1. Current \in Event
    BY CurrentIsHeld
  <2>2. \A e \in Event \ {Current} : Debt'[e] <= Debt[e]
    BY <1>2, NudgeRows DEF Debt
  <2>3. Debt'[Current] <= Debt[Current] + 1
    BY <1>2, <2>1, NudgeRows DEF Debt
  <2>4. RepeatsArePaid'
    BY <1>2, <2>1, <2>2, <2>3, DebtGrows
  <2>5. CASE Pending = 0
    <3>1. Booked(today, Pending, faults, today', Pending', faults', 1, 0)
      BY <1>2, <2>5, NudgeRows DEF Booked
    <3>2. Closed \subseteq Closed' \cup {Current}
      BY <1>2 DEF Closed
    <3> QED
      BY <2>4, <3>1, <3>2, TodayOpens
  <2>6. CASE Pending = 1 /\ Current \notin logged
    <3>1. Booked(today, Pending, faults, today', Pending', faults', 0, 0)
      BY <1>2, <2>6, NudgeRows DEF Booked
    <3>2. Closed \subseteq Closed'
      BY <1>2, <2>6 DEF Closed
    <3> QED
      BY <2>4, <3>1, <3>2, TodayStays
  <2> QED
    BY <2>5, <2>6 DEF Pending
<1> QED
  BY <1>1, <1>2

LEMMA MarkKeepsInv == NudgeInv /\ MarkEventProcessed => NudgeInv'
<1> SUFFICES ASSUME NudgeInv, MarkEventProcessed PROVE NudgeInv'
  OBVIOUS
<1>1. /\ engine.step = "mark" /\ NextEvent
      /\ UNCHANGED <<kind, logged, quiet, sent, today>>
      /\ \/ done' = done \cup {Current} /\ inbox' = RemoveFirst(inbox, Current)
            /\ faults' = faults
         \/ Fault /\ done' = done /\ inbox' = inbox
  BY DEF MarkEventProcessed
<1>2. /\ Current \in Event /\ Current \in Held(inbox) /\ engine.batch # <<>>
      /\ inbox \in Seq(Event) /\ Once(inbox)
      /\ engine.batch \in Seq(Event) /\ Once(engine.batch)
      /\ Held(engine.batch) \subseteq Held(inbox)
  BY <1>1, CurrentIsHeld, NudgeRows DEF NudgeInv, NudgeShape, Lists
<1>3. /\ inbox' \in Seq(Event) /\ Once(inbox') /\ done' \in SUBSET Event
      /\ faults' \in 0..MaxFaults
      /\ Held(inbox) \ {Current} \subseteq Held(inbox')
      /\ \/ Held(inbox') = Held(inbox) \ {Current} /\ faults' = faults
         \/ Held(inbox') = Held(inbox) /\ faults' = faults + 1
  <2>1. /\ RemoveFirst(inbox, Current) \in Seq(Event) /\ Once(RemoveFirst(inbox, Current))
        /\ Held(RemoveFirst(inbox, Current)) = Held(inbox) \ {Current}
    BY <1>2, RemovedOnce
  <2>2. CASE done' = done \cup {Current} /\ inbox' = RemoveFirst(inbox, Current)
             /\ faults' = faults
    BY <1>2, <2>1, <2>2, NudgeRows
  <2>3. CASE Fault /\ done' = done /\ inbox' = inbox
    BY <1>2, <2>3, NudgeRows, FaultIsCounted
  <2> QED
    BY <1>1, <2>2, <2>3
<1>4. /\ engine' \in EngineRow
      /\ Once(engine'.batch) /\ Held(engine'.batch) \subseteq Held(inbox')
      /\ \/ engine'.step = "idle" /\ engine'.batch = <<>>
         \/ engine'.step = "handle" /\ engine'.batch # <<>>
  <2>1. /\ Tail(engine.batch) \in Seq(Event) /\ Once(Tail(engine.batch))
        /\ Held(Tail(engine.batch)) \subseteq Held(engine.batch) \ {Current}
        /\ Tail(engine.batch) = <<>> <=> Len(engine.batch) = 1
    BY <1>2, HeadIsHeld DEF Current
  <2>2. CASE Len(engine.batch) = 1 /\ engine' = IdleEngine
    <3>1. <<>> \in Seq(Event) /\ Len(<<>>) = 0
      BY EmptySeq
    <3>2. engine' \in EngineRow /\ engine'.step = "idle" /\ engine'.batch = <<>>
      BY <2>2, <3>1, NotificationsAssumption DEF IdleEngine, EngineRow, Step
    <3> QED
      BY <3>1, <3>2 DEF Once, Held
  <2>3. CASE /\ Len(engine.batch) # 1
             /\ engine' = [step |-> "handle", batch |-> Tail(engine.batch), tries |-> 0]
    <3>1. /\ engine' \in EngineRow /\ engine'.step = "handle"
          /\ engine'.batch = Tail(engine.batch)
      BY <2>1, <2>3, NotificationsAssumption DEF EngineRow, Step
    <3>2. Held(engine'.batch) \subseteq Held(inbox')
      BY <1>2, <1>3, <2>1, <3>1
    <3> QED
      BY <2>1, <2>3, <3>1, <3>2
  <2> QED
    BY <1>1, <2>2, <2>3 DEF NextEvent
<1>5. NotificationsTypeOK'
  BY <1>1, <1>3, <1>4, NudgeRows DEF NotificationsTypeOK, EngineRow
<1>6. Lists'
  BY <1>3, <1>4 DEF Lists
<1>7. AbsentIsNew'
  BY <1>1, <1>3 DEF NudgeInv, NudgeShape, AbsentIsNew
<1>8. OnlyNudgesAreLogged' /\ LogIsLimited'
  BY <1>1, <1>4 DEF NudgeInv, NudgeShape, OnlyNudgesAreLogged, LogIsLimited
<1>9. Open = Held(inbox) \ {Current} /\ Pending = 0
  BY <1>1 DEF Open, Settled, Pending
<1>10. Open' = Held(inbox') /\ Pending' = 0
  BY <1>4 DEF Open, Settled, Pending
<1>11. \/ Open' \subseteq Open /\ Pending = 0 /\ faults' = faults
       \/ Open' \subseteq Open \cup {Current} /\ faults' = faults + 1
  BY <1>3, <1>9, <1>10
<1>12. RepeatsArePaid' /\ TodayIsPaid'
  BY <1>1, <1>5, <1>10, <1>11, EventIsLeft
<1> QED
  BY <1>5, <1>6, <1>7, <1>8, <1>12 DEF NudgeInv, NudgeShape

LEMMA EngineCrashKeepsInv == NudgeInv /\ EngineCrash => NudgeInv'
<1> SUFFICES ASSUME NudgeInv, EngineCrash PROVE NudgeInv'
  OBVIOUS
<1>1. /\ engine.step # "idle" /\ engine' = IdleEngine
      /\ faults' = faults + 1 /\ faults' \in 0..MaxFaults
      /\ UNCHANGED <<inbox, kind, done, logged, quiet, sent, today>>
  BY FaultIsCounted DEF EngineCrash
<1>2. <<>> \in Seq(Event) /\ Len(<<>>) = 0
  BY EmptySeq
<1>3. engine' \in EngineRow /\ engine'.step = "idle" /\ engine'.batch = <<>>
  BY <1>1, <1>2, NotificationsAssumption DEF IdleEngine, EngineRow, Step
<1>4. Once(engine'.batch) /\ Held(engine'.batch) = {}
  BY <1>2, <1>3 DEF Once, Held
<1>5. NotificationsTypeOK'
  BY <1>1, <1>3, NudgeRows DEF NotificationsTypeOK, EngineRow
<1>6. Lists'
  BY <1>1, <1>3, <1>4 DEF NudgeInv, NudgeShape, Lists
<1>7. AbsentIsNew'
  BY <1>1 DEF NudgeInv, NudgeShape, AbsentIsNew
<1>8. OnlyNudgesAreLogged' /\ LogIsLimited'
  BY <1>1, <1>3 DEF NudgeInv, NudgeShape, OnlyNudgesAreLogged, LogIsLimited
<1>9. Open' \subseteq Open \cup {Current} /\ Pending' = 0
  BY <1>1, <1>3 DEF Open, Settled, Pending
<1>10. RepeatsArePaid' /\ TodayIsPaid'
  BY <1>1, <1>5, <1>9, EventIsLeft
<1> QED
  BY <1>5, <1>6, <1>7, <1>8, <1>10 DEF NudgeInv, NudgeShape

LEMMA NudgeInvStep == NudgeInv /\ [NotificationsNext]_nudgeVars => NudgeInv'
<1> SUFFICES ASSUME NudgeInv, [NotificationsNext]_nudgeVars PROVE NudgeInv'
  OBVIOUS
<1>1. ASSUME NEW e \in Event, NEW k \in Kind, Emit(e, k) PROVE NudgeInv'
  BY <1>1, EmitKeepsInv
<1>2. CASE SetQuietToday
  BY <1>2, SetQuietTodayKeepsInv DEF SetQuietToday
<1>3. CASE NextDay
  BY <1>3, NextDayKeepsInv
<1>4. CASE Engine
  BY <1>4, TickKeepsInv, HandleKeepsInv, SendSucceedsKeepsInv, SendFailsKeepsInv,
     LogNotificationKeepsInv, MarkKeepsInv DEF Engine
<1>5. CASE SendAnswerLost
  BY <1>5, SendAnswerLostKeepsInv
<1>6. CASE EngineCrash
  BY <1>6, EngineCrashKeepsInv
<1>7. CASE UNCHANGED nudgeVars
  BY <1>7, NudgeRows, SetQuietTodayKeepsInv DEF nudgeVars
<1> QED
  BY <1>1, <1>2, <1>3, <1>4, <1>5, <1>6, <1>7 DEF NotificationsNext

(* Inbox, log and engine keep their types.                                 *)
THEOREM NotificationsTyping == NotificationsSpec => []NotificationsTypeOK
<1>1. NudgeInv => NotificationsTypeOK
  BY DEF NudgeInv, NudgeShape
<1> QED
  BY <1>1, NudgeInvInit, NudgeInvStep, PTL DEF NotificationsSpec

\* The sum of the property is the total of the repeats.
Repeats == [e \in Event |-> IF sent[e] = 0 THEN 0 ELSE sent[e] - 1]

RepeatsSum == MapThenSumSet(LAMBDA e : IF sent[e] = 0 THEN 0 ELSE sent[e] - 1, Event)

Iterates(h) ==
    h = [s \in SUBSET Event |->
           IF s = {} THEN 0
           ELSE (IF sent[CHOOSE x \in s : TRUE] = 0 THEN 0
                 ELSE sent[CHOOSE x \in s : TRUE] - 1) + h[s \ {CHOOSE x \in s : TRUE}]]

LEMMA RepeatsAreSummed == RepeatsSum = Total(Repeats, Event)
<1>1. ASSUME NEW h PROVE Iterates(h) <=> Adds(h, Repeats, Event)
  <2>1. \A s \in SUBSET Event : s # {} => Pick(s) \in Event
    BY NotificationsAssumption, RestIsSmaller
  <2>2. \A s \in SUBSET Event : s # {} =>
          Repeats[Pick(s)] = IF sent[Pick(s)] = 0 THEN 0 ELSE sent[Pick(s)] - 1
    BY <2>1 DEF Repeats
  <2> DEFINE f == [s \in SUBSET Event |->
                     IF s = {} THEN 0
                     ELSE (IF sent[Pick(s)] = 0 THEN 0 ELSE sent[Pick(s)] - 1) + h[Rest(s)]]
             g == [s \in SUBSET Event |->
                     IF s = {} THEN 0 ELSE Repeats[Pick(s)] + h[Rest(s)]]
  <2>3. f = g
    BY <2>2
  <2>4. Iterates(h) <=> h = f
    BY DEF Iterates, Pick, Rest
  <2>5. Adds(h, Repeats, Event) <=> h = g
    BY DEF Adds
  <2> QED
    BY <2>3, <2>4, <2>5
<1>2. \E h : Iterates(h)
  BY <1>1, AdderExists, NotificationsAssumption
<1> DEFINE h == CHOOSE it : Iterates(it)
<1>3. RepeatsSum = h[Event]
  BY DEF RepeatsSum, MapThenSumSet, MapThenFoldSet, Iterates
<1>4. Iterates(h)
  BY <1>2
<1> HIDE DEF h
<1>5. Adds(h, Repeats, Event)
  BY <1>1, <1>4
<1> QED
  BY <1>3, <1>5, AddersAgree, NotificationsAssumption

(* For every number of events and faults, and every limit: a message is    *)
(* repeated only after a fault, which repeats one at most, and in one day  *)
(* a user gets no more nudges than the limit and the faults.               *)
THEOREM NudgesArePaidFor == NotificationsSpec => []NudgesAccountedFor
<1>1. NudgeInv => NudgesAccountedFor
  <2> SUFFICES ASSUME NudgeInv PROVE NudgesAccountedFor
    OBVIOUS
  <2>1. Repeats \in [Event -> Nat] /\ Total(Repeats, Event) \in Nat
    <3>1. \A e \in Event : Repeats[e] \in Nat
      BY NudgeRows DEF Repeats
    <3>2. Repeats \in [Event -> Nat]
      BY <3>1 DEF Repeats
    <3> QED
      BY <3>2, NotificationsAssumption, TotalIsNat
  <2>2. Debt \in [Event -> Nat] /\ Total(Debt, Event) \in Nat
    BY DebtIsCounted DEF NudgeInv, NudgeShape
  <2>3. \A e \in Event : Repeats[e] <= Debt[e]
    BY NudgeRows DEF Repeats, Debt
  <2>4. Total(Repeats, Event) <= Total(Debt, Event)
    BY <2>1, <2>2, <2>3, TotalGrows, NotificationsAssumption
  <2>5. RepeatsSum <= faults
    BY <2>1, <2>2, <2>4, RepeatsAreSummed, NudgeRows DEF NudgeInv, RepeatsArePaid
  <2>6. Cardinality(Closed) + Pending <= NudgeLimit
    <3>1. /\ Cardinality(Closed) <= Cardinality(logged) /\ Cardinality(Closed) \in Nat
          /\ Cardinality(logged) \in Nat
      BY NudgeRows, FS_Subset, ClosedIsCounted DEF Closed, NudgeInv, NudgeShape
    <3>2. Pending = 0 \/ (Pending = 1 /\ Cardinality(logged) < NudgeLimit)
      BY DEF Pending, NudgeInv, NudgeShape, OnlyNudgesAreLogged, LogIsLimited
    <3>3. Cardinality(logged) <= NudgeLimit
      BY DEF NudgeInv, NudgeShape, LogIsLimited
    <3> QED
      BY <3>1, <3>2, <3>3, NotificationsAssumption
  <2>7. today <= NudgeLimit + faults
    <3>1. today <= Cardinality(Closed) + Pending + faults
      BY DEF NudgeInv, TodayIsPaid
    <3>2. Cardinality(Closed) \in Nat /\ Pending \in Nat
      BY ClosedIsCounted DEF NudgeInv, NudgeShape
    <3> QED
      BY <2>6, <3>1, <3>2, NudgeRows, NotificationsAssumption
  <2> QED
    BY <2>5, <2>7 DEF NudgesAccountedFor, RepeatsSum
<1> QED
  BY <1>1, NudgeInvInit, NudgeInvStep, PTL DEF NotificationsSpec

-----------------------------------------------------------------------------
(* The companion: its clocks.                                              *)

\* The hour of the week.
WeekHour(h) == 24 * Weekday(Day(h)) + HourOfDay(h)

LEMMA DayAndHour ==
    ASSUME NEW h \in Int
    PROVE  /\ Day(h) \in Int /\ HourOfDay(h) \in 0..23
           /\ h = 24 * Day(h) + HourOfDay(h)
BY DEF Day, HourOfDay

LEMMA WeekAndDay ==
    ASSUME NEW d \in Int
    PROVE  /\ Weekday(d) \in 0..6
           /\ d = 7 * (d \div 7) + Weekday(d) /\ d \div 7 \in Int
BY DEF Weekday

\* h is the hour t of day d, and d the day t of week w.
HourOf(h, d, t) == h = 24 * d + t /\ t \in 0..23

DayOf(d, w, t) == d = 7 * w + t /\ t \in 0..6

LEMMA SameDayOf ==
    ASSUME NEW h \in Int, NEW d \in Int, NEW t \in Int, HourOf(h, d, t)
    PROVE  Day(h) = d /\ HourOfDay(h) = t
BY DEF Day, HourOfDay, HourOf

LEMMA SameWeekOf ==
    ASSUME NEW d \in Int, NEW w \in Int, NEW t \in Int, DayOf(d, w, t)
    PROVE  Weekday(d) = t
BY DEF Weekday, DayOf

LEMMA NextHour ==
    ASSUME NEW h \in Int
    PROVE  IF HourOfDay(h + 1) = 0 THEN Day(h + 1) = Day(h) + 1
           ELSE Day(h + 1) = Day(h) /\ HourOfDay(h + 1) = HourOfDay(h) + 1
BY DEF Day, HourOfDay

LEMMA DayAfter ==
    ASSUME NEW d \in Int
    PROVE  IF Weekday(d + 1) = 0 THEN Weekday(d) = 6
           ELSE Weekday(d + 1) = Weekday(d) + 1
BY DEF Weekday

\* The rows of F that count against a limit from day d on.
Since(F, d) == Cardinality({r \in F : r.day >= d})

\* The day on which the day or week that the limit is for began.
PeriodFrom(h) == IF MaxPerDay > 0 THEN Day(h) ELSE Day(h) - Weekday(Day(h))

Limit == MaxPerDay + MaxPerWeek

Sends == {"send", "record"}

\* No key is of a day to come.
KeysArePast ==
    \A r \in fired : r.day <= Day(hour) /\ (Sending.date = "day" => r.id.date <= r.day)

\* A send is of today or earlier, and no tick of the first five minutes
\* outlasts its hour.
LoopIsTimely ==
    /\ loop.step \in Sends => loop.date <= Day(hour)
    /\ (loop.step # "idle" /\ feature \notin AllHour) => (loop.now = hour /\ Window)

IsFired(id) == \E r \in fired : r.id = id

\* The features whose records count what was sent: the key of the weekly recap
\* may have been taken by an earlier month, that of a brief is looked up with
\* another date in some zones.
Counted == feature # "weekly_recap" /\ (feature = "lead_weekly_brief" => SameMonday)

\* What was sent in the period is on record, is about to be, or a mishap.
WithinCount ==
    Counted =>
        /\ Since(fired, PeriodFrom(hour)) <= Limit
        /\ loop.step \in Sends =>
             /\ Since(fired, PeriodFrom(hour)) < Limit
             /\ ~ IsFired(TriggerID(loop.row, loop.date))
        /\ sentNow <= Since(fired, PeriodFrom(hour)) + mishaps
                        + (IF loop.step = "record" THEN 1 ELSE 0)

\* Friday 18:00 of the user is this hour of the server's week.
RecapHour == 114 - zone

\* The one tick that can send the recap of this week is over, or has sent it.
Spent ==
    \/ loop.step = "record"
    \/ loop.step = "check" /\ loop.rows = {}
    \/ loop.step = "idle" /\ loop.ticked
    \/ WeekHour(hour) > RecapHour

\* The recap needs no record: its hour comes once a week.
RecapOnce ==
    feature = "weekly_recap" =>
        /\ loop.rows \subseteq {1}
        /\ loop.step \in Sends => loop.rows = {}
        /\ sentNow <= mishaps + (IF Spent THEN 1 ELSE 0)
        /\ WeekHour(hour) < RecapHour => sentNow = 0

CompanionInv ==
    /\ CompanionTypeOK
    /\ IsFiniteSet(fired)
    /\ KeysArePast
    /\ LoopIsTimely
    /\ WithinCount
    /\ RecapOnce

LEMMA SinceIsNat ==
    ASSUME NEW F, IsFiniteSet(F), NEW d
    PROVE  Since(F, d) \in Nat
<1>1. IsFiniteSet({r \in F : r.day >= d})
    BY FS_Subset
<1> QED
    BY <1>1, FS_CardinalityType DEF Since

LEMMA NoneSince ==
    ASSUME NEW F, NEW d \in Int, \A r \in F : r.day \in Nat /\ r.day < d
    PROVE  Since(F, d) = 0
<1>1. {r \in F : r.day >= d} = {}
    OBVIOUS
<1> QED
    BY <1>1, FS_EmptySet DEF Since

LEMMA OneMoreSince ==
    ASSUME NEW F, IsFiniteSet(F), NEW d \in Int, NEW n, n \notin F,
           n.day \in Nat, n.day >= d
    PROVE  Since(F \cup {n}, d) = Since(F, d) + 1
<1> DEFINE S == {r \in F : r.day >= d}
<1>1. IsFiniteSet(S) /\ n \notin S
    BY FS_Subset
<1>2. {r \in F \cup {n} : r.day >= d} = S \cup {n}
    OBVIOUS
<1>3. Cardinality(S \cup {n}) = Cardinality(S) + 1
    BY <1>1, FS_AddElement
<1> QED
    BY <1>2, <1>3 DEF Since

LEMMA LimitIs ==
    ASSUME feature \in Feature
    PROVE  /\ MaxPerDay \in Nat /\ MaxPerWeek \in Nat /\ Limit \in Nat /\ Limit >= 1
           /\ MaxPerDay > 0 => MaxPerDay = 1 /\ Limit = 1 /\ MaxPerWeek = 0
           /\ ~ MaxPerDay > 0 => MaxPerDay = 0 /\ MaxPerWeek > 0 /\ Limit = MaxPerWeek
           /\ MaxPerDay > 0 <=> feature \in {"evening_ping", "streak_reminder",
                 "buddy_stalled", "goal_risk", "streak_milestone"}
BY DEF Feature, MaxPerDay, MaxPerWeek, Limit

LEMMA PeriodIs ==
    ASSUME NEW h \in Int
    PROVE  /\ PeriodFrom(h) \in Int /\ PeriodFrom(h) <= Day(h)
           /\ \/ PeriodFrom(h + 1) = PeriodFrom(h)
              \/ PeriodFrom(h + 1) = Day(h) + 1
<1>1. Day(h) \in Int /\ Weekday(Day(h)) \in 0..6
    BY DayAndHour, WeekAndDay
<1>2. Weekday(Day(h) + 1) \in 0..6
    BY <1>1, WeekAndDay
<1>3. Day(h + 1) = Day(h) \/ Day(h + 1) = Day(h) + 1
    BY NextHour
<1>4. Weekday(Day(h) + 1) = 0 \/ Weekday(Day(h) + 1) = Weekday(Day(h)) + 1
    BY <1>1, DayAfter
<1> QED
    BY <1>1, <1>2, <1>3, <1>4 DEF PeriodFrom

LEMMA PeriodStarts ==
    ASSUME NEW h \in Int
    PROVE  IF HourOfDay(h + 1) = 0 /\ (MaxPerDay > 0 \/ Weekday(Day(h + 1)) = Monday)
           THEN PeriodFrom(h + 1) = Day(h) + 1
           ELSE PeriodFrom(h + 1) = PeriodFrom(h)
<1>1. Day(h) \in Int /\ Weekday(Day(h)) \in 0..6
    BY DayAndHour, WeekAndDay
<1>2. IF Weekday(Day(h) + 1) = 0 THEN Weekday(Day(h)) = 6
      ELSE Weekday(Day(h) + 1) = Weekday(Day(h)) + 1
    BY <1>1, DayAfter
<1>3. Weekday(Day(h) + 1) \in 0..6
    BY <1>1, WeekAndDay
<1>4. IF HourOfDay(h + 1) = 0 THEN Day(h + 1) = Day(h) + 1 ELSE Day(h + 1) = Day(h)
    BY NextHour
<1> QED
    BY <1>1, <1>2, <1>3, <1>4 DEF PeriodFrom, Monday

LEMMA WeekHourIs ==
    ASSUME NEW h \in Int
    PROVE  /\ WeekHour(h) \in 0..167
           /\ IF HourOfDay(h + 1) = 0 /\ Weekday(Day(h + 1)) = Monday
              THEN WeekHour(h + 1) = 0
              ELSE WeekHour(h + 1) = WeekHour(h) + 1
<1>1. Day(h) \in Int /\ Weekday(Day(h)) \in 0..6 /\ HourOfDay(h) \in 0..23
    BY DayAndHour, WeekAndDay
<1>2. IF Weekday(Day(h) + 1) = 0 THEN Weekday(Day(h)) = 6
      ELSE Weekday(Day(h) + 1) = Weekday(Day(h)) + 1
    BY <1>1, DayAfter
<1>3. IF HourOfDay(h + 1) = 0 THEN Day(h + 1) = Day(h) + 1 /\ HourOfDay(h) = 23
      ELSE Day(h + 1) = Day(h) /\ HourOfDay(h + 1) = HourOfDay(h) + 1
    BY DEF Day, HourOfDay
<1> QED
    BY <1>1, <1>2, <1>3 DEF WeekHour, Monday

LEMMA RecapWindow ==
    ASSUME NEW h \in Nat, NEW z \in -23..23, HourOfDay(h + z) = 18,
           Weekday(Day(h + z)) = Friday
    PROVE  WeekHour(h) = 114 - z
<1>1. PICK l \in Int : l = Day(h + z)
    BY DayAndHour
<1>2. h = 24 * l + 18 - z /\ Weekday(l) = 4
    BY <1>1, DayAndHour DEF Friday
<1>3. PICK w \in Int : l = 7 * w + 4
    BY <1>2, WeekAndDay
<1>4. /\ 18 - z >= 0 /\ 18 - z <= 23 => HourOf(h, l, 18 - z)
      /\ 18 - z < 0 => HourOf(h, l - 1, 42 - z)
      /\ 18 - z > 23 => HourOf(h, l + 1, -6 - z)
    BY <1>2 DEF HourOf
<1>5. DayOf(l, w, 4) /\ DayOf(l - 1, w, 3) /\ DayOf(l + 1, w, 5)
    BY <1>3 DEF DayOf
<1>6. Weekday(l - 1) = 3 /\ Weekday(l + 1) = 5
    <2>1. l - 1 \in Int /\ l + 1 \in Int /\ 3 \in Int /\ 5 \in Int
        OBVIOUS
    <2> QED
        BY <1>5, <2>1, SameWeekOf
<1>7. CASE 18 - z >= 0 /\ 18 - z <= 23
    <2>1. Day(h) = l /\ HourOfDay(h) = 18 - z
        BY <1>4, <1>7, SameDayOf
    <2> QED
        BY <1>2, <2>1 DEF WeekHour
<1>8. CASE 18 - z < 0
    <2>1. Day(h) = l - 1 /\ HourOfDay(h) = 42 - z
        BY <1>4, <1>8, SameDayOf
    <2> QED
        BY <1>6, <2>1 DEF WeekHour
<1>9. CASE 18 - z > 23
    <2>1. Day(h) = l + 1 /\ HourOfDay(h) = -6 - z
        BY <1>4, <1>9, SameDayOf
    <2> QED
        BY <1>6, <2>1 DEF WeekHour
<1> QED
    BY <1>7, <1>8, <1>9

LEMMA BriefWindow ==
    ASSUME NEW h \in Nat, NEW z \in -14..9, HourOfDay(h + z) = 9
    PROVE  Day(h + z) = Day(h)
<1>1. PICK l \in Int : l = Day(h + z)
    BY DayAndHour
<1>2. HourOf(h, l, 9 - z)
    BY <1>1, DayAndHour DEF HourOf
<1> QED
    BY <1>1, <1>2, SameDayOf

LEMMA FeatureStays ==
    ASSUME feature' = feature, zone' = zone
    PROVE  /\ Sending' = Sending /\ MaxPerDay' = MaxPerDay /\ MaxPerWeek' = MaxPerWeek
           /\ Limit' = Limit /\ Counted' = Counted /\ RecapHour' = RecapHour
           /\ PeriodFrom(hour)' = PeriodFrom(hour')
           /\ TriggerID(loop.row, loop.date)' = TriggerID(loop'.row, loop'.date)
<1>1. Sending' = Sending
    BY DEF Sending, EveningPing, WeeklyRecap, LeadBrief, StreakReminder, ProofDraft,
           BuddyStalled, GoalRisk, StreakMilestone, LeaderFairPlay
<1>2. MaxPerDay' = MaxPerDay /\ MaxPerWeek' = MaxPerWeek
    BY DEF MaxPerDay, MaxPerWeek
<1>3. Counted' = Counted
    BY DEF Counted, SameMonday
<1> QED
    BY <1>1, <1>2, <1>3 DEF Limit, RecapHour, PeriodFrom, TriggerID

LEMMA CompanionInitInv == CompanionInit => CompanionInv
<1> SUFFICES ASSUME CompanionInit
             PROVE  CompanionInv
    OBVIOUS
<1> USE DEF CompanionInit
<1>1. zone \in Zone
    BY CompanionAssumption
<1>2. loop = [step |-> "idle", rows |-> {}, row |-> 0, now |-> 0, date |-> 0,
              ticked |-> FALSE]
    BY DEF IdleLoop
<1>3. CompanionTypeOK
    <2>1. loop \in [step : {"idle", "check", "send", "record"}, rows : SUBSET {1, 2},
                    row : 0..2, now : Nat, date : Nat, ticked : BOOLEAN]
        BY <1>2
    <2>2. mishaps \in 0..MaxMishaps /\ reminded \in Int /\ fired = {}
        BY CompanionAssumption
    <2> QED
        BY <1>1, <2>1, <2>2 DEF CompanionTypeOK
<1>4. IsFiniteSet(fired) /\ KeysArePast
    BY FS_EmptySet DEF KeysArePast
<1>5. LoopIsTimely /\ RecapOnce
    BY <1>2 DEF LoopIsTimely, RecapOnce, Sends, Spent
<1>6. WithinCount
    <2>1. PeriodFrom(hour) \in Int
        BY PeriodIs
    <2>2. Since(fired, PeriodFrom(hour)) = 0
        BY <2>1, NoneSince
    <2> QED
        BY <1>2, <2>2, LimitIs DEF WithinCount, Sends
<1> QED
    BY <1>3, <1>4, <1>5, <1>6 DEF CompanionInv

LEMMA HourStep ==
    ASSUME CompanionInv, Hour
    PROVE  CompanionInv'
<1> USE DEF CompanionInv
<1>0. feature' = feature /\ zone' = zone /\ fired' = fired /\ mishaps' = mishaps
      /\ hour' = hour + 1 /\ loop' = [loop EXCEPT !.ticked = FALSE]
      /\ reminded' = reminded
    BY DEF Hour
<1>1. hour \in Nat /\ feature \in Feature /\ zone \in -23..23 /\ sentNow \in Nat
      /\ mishaps \in Nat
    BY CompanionAssumption DEF CompanionTypeOK
<1>2. loop' = [step |-> loop.step, rows |-> loop.rows, row |-> loop.row,
               now |-> loop.now, date |-> loop.date, ticked |-> FALSE]
    BY <1>0 DEF CompanionTypeOK
<1>3. sentNow' = IF HourOfDay(hour + 1) = 0
                    /\ (MaxPerDay > 0 \/ Weekday(Day(hour + 1)) = Monday)
                 THEN 0 ELSE sentNow
    BY DEF Hour
<1>4. CompanionTypeOK'
    <2>1. sentNow' \in Nat
        BY <1>1, <1>3
    <2>2. steady' \in BOOLEAN
        BY DEF Hour, CompanionTypeOK
    <2>3. loop' \in [step : {"idle", "check", "send", "record"}, rows : SUBSET {1, 2},
                    row : 0..2, now : Nat, date : Nat, ticked : BOOLEAN]
        BY <1>2 DEF CompanionTypeOK
    <2>4. hour' \in Nat
        BY <1>0, <1>1
    <2> QED
        BY <1>0, <2>1, <2>2, <2>3, <2>4 DEF CompanionTypeOK
<1>5. Day(hour) \in Int /\ Day(hour + 1) \in Int /\ Day(hour + 1) >= Day(hour)
    BY <1>1, DayAndHour, NextHour
<1>6. KeysArePast'
    BY <1>0, <1>1, <1>5, FeatureStays DEF KeysArePast, CompanionTypeOK
<1>7. LoopIsTimely'
    BY <1>0, <1>2, <1>5 DEF LoopIsTimely, CompanionTypeOK, Hour
<1>8. WithinCount'
    <2> SUFFICES ASSUME Counted
                 PROVE  /\ Since(fired, PeriodFrom(hour')) <= Limit
                        /\ loop.step \in Sends =>
                             /\ Since(fired, PeriodFrom(hour')) < Limit
                             /\ ~ IsFired(TriggerID(loop.row, loop.date))
                        /\ sentNow' <= Since(fired, PeriodFrom(hour')) + mishaps
                             + (IF loop.step = "record" THEN 1 ELSE 0)
        BY <1>0, <1>2, FeatureStays DEF WithinCount, IsFired
    <2>1. CASE HourOfDay(hour + 1) = 0
               /\ (MaxPerDay > 0 \/ Weekday(Day(hour + 1)) = Monday)
        <3>1. PeriodFrom(hour') = Day(hour) + 1
            BY <1>0, <1>1, <2>1, PeriodStarts
        <3>2. \A r \in fired : r.day \in Nat /\ r.day < Day(hour) + 1
            BY <1>5 DEF KeysArePast, CompanionTypeOK
        <3>3. Since(fired, PeriodFrom(hour')) = 0
            BY <1>5, <3>1, <3>2, NoneSince
        <3> QED
            BY <1>1, <1>3, <2>1, <3>3, LimitIs DEF WithinCount
    <2>2. CASE ~ (HourOfDay(hour + 1) = 0
                  /\ (MaxPerDay > 0 \/ Weekday(Day(hour + 1)) = Monday))
        <3>1. PeriodFrom(hour') = PeriodFrom(hour)
            BY <1>0, <1>1, <2>2, PeriodStarts
        <3> QED
            BY <1>3, <2>2, <3>1 DEF WithinCount
    <2> QED
        BY <2>1, <2>2
<1>9. RecapOnce'
    <2> SUFFICES ASSUME feature = "weekly_recap"
                 PROVE  /\ loop.rows \subseteq {1}
                        /\ loop.step \in Sends => loop.rows = {}
                        /\ sentNow' <= mishaps + (IF Spent' THEN 1 ELSE 0)
                        /\ WeekHour(hour') < RecapHour => sentNow' = 0
        BY <1>0, <1>2, FeatureStays DEF RecapOnce
    <2>1. loop.step = "idle"
        BY DEF Hour, AllHour
    <2>2. WeekHour(hour) \in 0..167 /\ RecapHour \in Int /\ ~ MaxPerDay > 0
        BY <1>1, WeekHourIs DEF RecapHour, MaxPerDay
    <2>3. Spent' <=> WeekHour(hour') > RecapHour
        BY <1>0, <1>2, <2>1, FeatureStays DEF Spent
    <2>4. CASE HourOfDay(hour + 1) = 0 /\ Weekday(Day(hour + 1)) = Monday
        BY <1>1, <1>3, <2>4 DEF RecapOnce
    <2>5. CASE ~ (HourOfDay(hour + 1) = 0 /\ Weekday(Day(hour + 1)) = Monday)
        <3>1. WeekHour(hour') = WeekHour(hour) + 1 /\ sentNow' = sentNow
            BY <1>0, <1>1, <1>3, <2>2, <2>5, WeekHourIs
        <3> QED
            BY <1>1, <2>2, <2>3, <3>1 DEF RecapOnce
    <2> QED
        BY <2>4, <2>5
<1> QED
    BY <1>0, <1>4, <1>6, <1>7, <1>8, <1>9

LoopType == [step : {"idle", "check", "send", "record"}, rows : SUBSET {1, 2},
             row : 0..2, now : Nat, date : Nat, ticked : BOOLEAN]

LEMMA SendingFields ==
    ASSUME feature \in Feature
    PROVE  /\ Sending.rows \subseteq {1, 2}
           /\ feature = "weekly_recap" => Sending.rows = {1}
           /\ feature \in {"evening_ping", "streak_reminder"} => Sending.date = "day"
           /\ feature = "streak_milestone" => Sending.date = "none"
           /\ feature \in {"proof_draft", "leader_fair_play", "buddy_stalled", "goal_risk"}
                => Sending.clock = "server"
           /\ feature = "lead_weekly_brief" => Sending.clock = "user"
BY DEF Feature, Sending, EveningPing, WeeklyRecap, LeadBrief, StreakReminder,
       ProofDraft, BuddyStalled, GoalRisk, StreakMilestone, LeaderFairPlay

LEMMA CompanionTyped ==
    ASSUME CompanionTypeOK
    PROVE  /\ hour \in Nat /\ feature \in Feature /\ zone \in -23..23 /\ zone \in Int
           /\ sentNow \in Nat /\ mishaps \in Nat /\ loop \in LoopType
           /\ Day(hour) \in Nat /\ Day(hour + zone) \in Int
           /\ WeekHour(hour) \in 0..167 /\ RecapHour \in Int /\ PeriodFrom(hour) \in Int
           /\ PeriodFrom(hour) <= Day(hour)
<1>1. /\ hour \in Nat /\ feature \in Feature /\ zone \in -23..23 /\ zone \in Int
      /\ sentNow \in Nat /\ mishaps \in Nat /\ loop \in LoopType
    BY CompanionAssumption DEF CompanionTypeOK, LoopType
<1>2. Day(hour) \in Nat
    BY <1>1 DEF Day
<1>3. Day(hour + zone) \in Int
    BY <1>1, DayAndHour
<1> QED
    BY <1>1, <1>2, <1>3, WeekHourIs, PeriodIs DEF RecapHour

LEMMA RecapIsAtItsHour ==
    ASSUME CompanionTypeOK, feature = "weekly_recap", Window
    PROVE  WeekHour(hour) = RecapHour
<1>1. hour \in Nat /\ zone \in -23..23
    BY CompanionTyped
<1>2. HourOfDay(hour + zone) = 18 /\ Weekday(Day(hour + zone)) = Friday
    BY DEF Window, WeeklyRecapDue, Local
<1> QED
    BY <1>1, <1>2, RecapWindow DEF RecapHour

LEMMA FindStep ==
    ASSUME CompanionInv, Find
    PROVE  CompanionInv'
<1> USE DEF CompanionInv
<1>0. /\ feature' = feature /\ zone' = zone /\ hour' = hour /\ fired' = fired
      /\ sentNow' = sentNow /\ reminded' = reminded /\ mishaps' = mishaps
      /\ loop.step = "idle" /\ Window /\ (loop.ticked => feature \in AllHour)
    BY DEF Find
<1>1. PICK R \in SUBSET Sending.rows :
         loop' = [loop EXCEPT !.step = "check", !.rows = R, !.now = hour]
         /\ steady' = (steady /\ R # {})
    BY DEF Find
<1>2. R \in SUBSET {1, 2} /\ (feature = "weekly_recap" => R \subseteq {1})
    BY CompanionTyped, SendingFields
<1>3. loop' = [step |-> "check", rows |-> R, row |-> loop.row, now |-> hour,
               date |-> loop.date, ticked |-> loop.ticked]
    BY <1>1, CompanionTyped DEF LoopType
<1>4. CompanionTypeOK'
    <2>1. loop' \in LoopType
        BY <1>2, <1>3, CompanionTyped DEF LoopType
    <2> QED
        BY <1>0, <1>1, <2>1 DEF CompanionTypeOK, LoopType
<1>5. KeysArePast'
    BY <1>0, FeatureStays DEF KeysArePast
<1>6. Window'
    BY <1>0 DEF Window, EveningPingDue, WeeklyRecapDue, LeadBriefDue, StreakReminderDue,
                GoalRiskDue, LeaderFairPlayDue, Local
<1>7. LoopIsTimely'
    BY <1>0, <1>3, <1>6 DEF LoopIsTimely, Sends
<1>8. WithinCount'
    BY <1>0, <1>3, FeatureStays DEF WithinCount, IsFired, Sends
<1>9. RecapOnce'
    <2> SUFFICES ASSUME feature = "weekly_recap"
                 PROVE  /\ loop'.rows \subseteq {1}
                        /\ loop'.step \in Sends => loop'.rows = {}
                        /\ sentNow <= mishaps + (IF Spent' THEN 1 ELSE 0)
                        /\ WeekHour(hour) < RecapHour => sentNow = 0
        BY <1>0, FeatureStays DEF RecapOnce
    <2>1. ~ Spent
        BY <1>0, RecapIsAtItsHour, CompanionTyped DEF Spent, AllHour
    <2> QED
        BY <1>2, <1>3, <2>1, CompanionTyped DEF RecapOnce, Sends
<1> QED
    BY <1>0, <1>4, <1>5, <1>7, <1>8, <1>9

LEMMA CheckEnds ==
    ASSUME CompanionInv, Check, loop.rows = {}
    PROVE  CompanionInv'
<1> USE DEF CompanionInv
<1>0. /\ feature' = feature /\ zone' = zone /\ hour' = hour /\ fired' = fired
      /\ sentNow' = sentNow /\ reminded' = reminded /\ mishaps' = mishaps
      /\ steady' = steady /\ loop.step = "check"
    BY DEF Check
<1>1. loop' = [step |-> "idle", rows |-> {}, row |-> 0, now |-> 0, date |-> 0,
               ticked |-> loop.ticked \/ loop.now = hour]
    BY DEF Check, IdleLoop
<1>2. CompanionTypeOK'
    <2>1. loop' \in LoopType
        <3>1. (loop.ticked \/ loop.now = hour) \in BOOLEAN
            BY CompanionTyped DEF LoopType
        <3> QED
            BY <1>1, <3>1 DEF LoopType
    <2> QED
        BY <1>0, <2>1 DEF CompanionTypeOK, LoopType
<1>3. KeysArePast' /\ LoopIsTimely'
    BY <1>0, <1>1, FeatureStays DEF KeysArePast, LoopIsTimely, Sends
<1>4. WithinCount'
    BY <1>0, <1>1, FeatureStays DEF WithinCount, IsFired, Sends
<1>5. RecapOnce'
    <2> SUFFICES ASSUME feature = "weekly_recap"
                 PROVE  Spent'
        BY <1>0, <1>1, FeatureStays DEF RecapOnce, Spent, Sends
    <2>1. loop.now = hour
        BY <1>0 DEF LoopIsTimely, AllHour
    <2> QED
        BY <1>1, <2>1 DEF Spent
<1> QED
    BY <1>0, <1>2, <1>3, <1>4, <1>5

KeyClock == IF Sending.clock = "user" THEN zone ELSE 0

LEMMA KeyIsFree ==
    ASSUME CompanionInv, loop.step = "check", Counted, NEW row \in {1, 2},
           ShouldFire(TriggerID(row, Day(loop.now + KeyClock)))
    PROVE  /\ Since(fired, PeriodFrom(hour)) < Limit
           /\ ~ IsFired(TriggerID(row, Day(hour)))
<1> USE DEF CompanionInv
<1> DEFINE id == TriggerID(row, Day(loop.now + KeyClock))
<1>1. ~ IsFired(id)
    BY DEF ShouldFire, IsFired
<1>2. Since(fired, PeriodFrom(hour)) < Limit
    BY CompanionTyped, LimitIs DEF ShouldFire, FiredSince, Since, PeriodFrom
<1>3. CASE feature \in {"evening_ping", "streak_reminder"}
    <2>1. Sending.date = "day" /\ Limit = 1 /\ PeriodFrom(hour) = Day(hour)
        BY <1>3, CompanionTyped, SendingFields, LimitIs DEF PeriodFrom
    <2>2. SUFFICES ASSUME NEW r \in fired, r.id = TriggerID(row, Day(hour))
                   PROVE  FALSE
        BY <1>2 DEF IsFired
    <2>3. r.id.date = Day(hour)
        BY <2>1, <2>2 DEF TriggerID
    <2>4. r.day = Day(hour)
        BY <2>1, <2>3, CompanionTyped DEF KeysArePast, CompanionTypeOK
    <2>5. r \in {q \in fired : q.day >= Day(hour)}
        BY <2>4, CompanionTyped
    <2>6. Cardinality({q \in fired : q.day >= Day(hour)}) # 0
        <3>1. IsFiniteSet({q \in fired : q.day >= Day(hour)})
            BY FS_Subset
        <3> QED
            BY <2>5, <3>1, FS_EmptySet
    <2> QED
        BY <1>2, <2>1, <2>6, SinceIsNat DEF Since
<1>4. CASE feature \in {"proof_draft", "leader_fair_play", "buddy_stalled", "goal_risk"}
    <2>1. loop.now = hour
        BY <1>4 DEF LoopIsTimely, AllHour
    <2>2. KeyClock = 0
        BY <1>4, CompanionTyped, SendingFields DEF KeyClock
    <2>3. Day(loop.now + KeyClock) = Day(hour)
        BY <2>1, <2>2, CompanionTyped
    <2> QED
        BY <1>1, <1>2, <2>3
<1>5. CASE feature = "streak_milestone"
    <2>1. Sending.date = "none"
        BY <1>5, CompanionTyped, SendingFields
    <2>2. TriggerID(row, Day(hour)) = id
        BY <2>1 DEF TriggerID
    <2> QED
        BY <1>1, <1>2, <2>2
<1>6. CASE feature = "lead_weekly_brief"
    <2>1. loop.now = hour /\ Window
        BY <1>6 DEF LoopIsTimely, AllHour
    <2>2. HourOfDay(hour + zone) = 9
        BY <1>6, <2>1 DEF Window, LeadBriefDue, Local
    <2>3. KeyClock = zone
        BY <1>6, CompanionTyped, SendingFields DEF KeyClock
    <2>4. Day(loop.now + KeyClock) = Day(hour)
        BY <1>6, <2>1, <2>2, <2>3, CompanionTyped, BriefWindow DEF Counted, SameMonday
    <2> QED
        BY <1>1, <1>2, <2>4
<1> QED
    BY <1>3, <1>4, <1>5, <1>6, CompanionTyped DEF Counted, Feature

LEMMA CheckTakesARow ==
    ASSUME CompanionInv, Check, loop.rows # {}
    PROVE  CompanionInv'
<1> USE DEF CompanionInv
<1>0. /\ feature' = feature /\ zone' = zone /\ hour' = hour /\ fired' = fired
      /\ sentNow' = sentNow /\ reminded' = reminded /\ mishaps' = mishaps
      /\ steady' = steady /\ loop.step = "check"
    BY DEF Check
<1> DEFINE id(row) == TriggerID(row, Day(loop.now + KeyClock))
<1>1. PICK row \in loop.rows :
        loop' = [loop EXCEPT !.rows = loop.rows \ {row},
                   !.row = IF ShouldFire(id(row)) THEN row ELSE 0,
                   !.date = IF ShouldFire(id(row)) THEN Day(hour) ELSE 0,
                   !.step = IF ShouldFire(id(row)) THEN "send" ELSE "check"]
    BY DEF Check, KeyClock
<1>2. row \in {1, 2}
    BY CompanionTyped DEF LoopType
<1>3. CASE ShouldFire(id(row))
    <2>1. loop' = [step |-> "send", rows |-> loop.rows \ {row}, row |-> row,
                   now |-> loop.now, date |-> Day(hour), ticked |-> loop.ticked]
        BY <1>1, <1>3, CompanionTyped DEF LoopType
    <2>2. CompanionTypeOK'
        <3>1. loop' \in LoopType
            BY <1>2, <2>1, CompanionTyped DEF LoopType
        <3> QED
            BY <1>0, <3>1 DEF CompanionTypeOK, LoopType
    <2>3. KeysArePast'
        BY <1>0, FeatureStays DEF KeysArePast
    <2>4. LoopIsTimely'
        <3>1. Window' = Window
            BY <1>0 DEF Window, EveningPingDue, WeeklyRecapDue, LeadBriefDue,
                        StreakReminderDue, GoalRiskDue, LeaderFairPlayDue, Local
        <3> QED
            BY <1>0, <2>1, <3>1, CompanionTyped DEF LoopIsTimely, Sends
    <2>5. WithinCount'
        <3>1. Counted => /\ Since(fired, PeriodFrom(hour)) < Limit
                         /\ ~ IsFired(TriggerID(row, Day(hour)))
            BY <1>0, <1>2, <1>3, KeyIsFree
        <3> QED
            BY <1>0, <2>1, <3>1, FeatureStays DEF WithinCount, IsFired, Sends
    <2>6. RecapOnce'
        <3> SUFFICES ASSUME feature = "weekly_recap"
                     PROVE  /\ loop'.rows = {}
                            /\ sentNow <= mishaps + (IF Spent' THEN 1 ELSE 0)
                            /\ WeekHour(hour) < RecapHour => sentNow = 0
            BY <1>0, FeatureStays DEF RecapOnce
        <3>1. Window
            BY <1>0 DEF LoopIsTimely, AllHour
        <3>2. ~ Spent
            BY <1>0, <3>1, RecapIsAtItsHour, CompanionTyped DEF Spent
        <3> QED
            BY <2>1, <3>2, CompanionTyped DEF RecapOnce
    <2> QED
        BY <1>0, <2>2, <2>3, <2>4, <2>5, <2>6
<1>4. CASE ~ ShouldFire(id(row))
    <2>1. loop' = [step |-> "check", rows |-> loop.rows \ {row}, row |-> 0,
                   now |-> loop.now, date |-> 0, ticked |-> loop.ticked]
        BY <1>0, <1>1, <1>4, CompanionTyped DEF LoopType
    <2>2. CompanionTypeOK'
        <3>1. loop' \in LoopType
            BY <1>2, <2>1, CompanionTyped DEF LoopType
        <3> QED
            BY <1>0, <3>1 DEF CompanionTypeOK, LoopType
    <2>3. KeysArePast'
        BY <1>0, FeatureStays DEF KeysArePast
    <2>4. LoopIsTimely'
        <3>1. Window' = Window
            BY <1>0 DEF Window, EveningPingDue, WeeklyRecapDue, LeadBriefDue,
                        StreakReminderDue, GoalRiskDue, LeaderFairPlayDue, Local
        <3> QED
            BY <1>0, <2>1, <3>1, CompanionTyped DEF LoopIsTimely, Sends
    <2>5. WithinCount'
        BY <1>0, <2>1, FeatureStays DEF WithinCount, IsFired, Sends
    <2>6. RecapOnce'
        <3> SUFFICES ASSUME feature = "weekly_recap"
                     PROVE  /\ loop'.rows \subseteq {1}
                            /\ sentNow <= mishaps + (IF Spent' THEN 1 ELSE 0)
                            /\ WeekHour(hour) < RecapHour => sentNow = 0
            BY <1>0, <2>1, FeatureStays DEF RecapOnce, Sends
        <3>1. Window
            BY <1>0 DEF LoopIsTimely, AllHour
        <3>2. ~ Spent
            BY <1>0, <3>1, RecapIsAtItsHour, CompanionTyped DEF Spent
        <3> QED
            BY <2>1, <3>2, CompanionTyped DEF RecapOnce
    <2> QED
        BY <1>0, <2>2, <2>3, <2>4, <2>5, <2>6
<1> QED
    BY <1>3, <1>4

LEMMA WindowStays ==
    ASSUME feature' = feature, zone' = zone, hour' = hour
    PROVE  Window' = Window
BY DEF Window, EveningPingDue, WeeklyRecapDue, LeadBriefDue, StreakReminderDue,
       GoalRiskDue, LeaderFairPlayDue, Local

LEMMA SendStep ==
    ASSUME CompanionInv, Send
    PROVE  CompanionInv'
<1> USE DEF CompanionInv
<1>0. /\ feature' = feature /\ zone' = zone /\ hour' = hour /\ fired' = fired
      /\ mishaps' = mishaps /\ steady' = steady /\ loop.step = "send"
      /\ sentNow' = sentNow + 1 /\ reminded' = Day(hour + zone)
    BY DEF Send, Delivered, Local
<1>1. loop' = [step |-> "record", rows |-> loop.rows, row |-> loop.row,
               now |-> loop.now, date |-> loop.date, ticked |-> loop.ticked]
    BY CompanionTyped DEF Send, LoopType
<1>2. CompanionTypeOK'
    <2>1. loop' \in LoopType /\ sentNow' \in Nat /\ reminded' \in Int
        BY <1>0, <1>1, CompanionTyped DEF LoopType
    <2> QED
        BY <1>0, <2>1 DEF CompanionTypeOK, LoopType
<1>3. KeysArePast'
    BY <1>0, FeatureStays DEF KeysArePast
<1>4. LoopIsTimely'
    BY <1>0, <1>1, WindowStays DEF LoopIsTimely, Sends
<1>5. WithinCount'
    <2>1. Since(fired, PeriodFrom(hour)) \in Nat
        BY SinceIsNat
    <2> SUFFICES ASSUME Counted
                 PROVE  /\ Since(fired, PeriodFrom(hour)) < Limit
                        /\ ~ IsFired(TriggerID(loop.row, loop.date))
                        /\ sentNow + 1 <= Since(fired, PeriodFrom(hour)) + mishaps + 1
        BY <1>0, <1>1, <2>1, LimitIs, CompanionTyped, FeatureStays
           DEF WithinCount, IsFired, Sends
    <2> QED
        BY <1>0, <2>1, CompanionTyped DEF WithinCount, Sends
<1>6. RecapOnce'
    <2> SUFFICES ASSUME feature = "weekly_recap"
                 PROVE  /\ loop.rows = {}
                        /\ sentNow + 1 <= mishaps + 1
                        /\ ~ WeekHour(hour) < RecapHour
        BY <1>0, <1>1, FeatureStays DEF RecapOnce, Spent
    <2>1. WeekHour(hour) = RecapHour
        BY <1>0, RecapIsAtItsHour DEF LoopIsTimely, AllHour
    <2>2. ~ Spent
        BY <1>0, <2>1, CompanionTyped DEF Spent
    <2> QED
        BY <1>0, <2>1, <2>2, CompanionTyped DEF RecapOnce, Sends
<1> QED
    BY <1>0, <1>2, <1>3, <1>4, <1>5, <1>6

LEMMA NextRowIs ==
    ASSUME CompanionTypeOK, NextRow
    PROVE  /\ loop' = [step |-> "check", rows |-> loop.rows, row |-> 0, now |-> loop.now,
                       date |-> 0, ticked |-> loop.ticked]
           /\ loop' \in LoopType
<1>1. loop \in LoopType
    BY CompanionTyped
<1>2. loop' = [step |-> "check", rows |-> loop.rows, row |-> 0, now |-> loop.now,
               date |-> 0, ticked |-> loop.ticked]
    BY <1>1 DEF NextRow, LoopType
<1> QED
    BY <1>1, <1>2 DEF LoopType

LEMMA SendAbortsStep ==
    ASSUME CompanionInv, SendAborts
    PROVE  CompanionInv'
<1> USE DEF CompanionInv
<1>0. /\ feature' = feature /\ zone' = zone /\ hour' = hour /\ fired' = fired
      /\ mishaps' = mishaps /\ steady' = FALSE /\ loop.step = "send"
      /\ sentNow' = sentNow /\ reminded' = reminded /\ NextRow
    BY DEF SendAborts
<1>1. CompanionTypeOK'
    BY <1>0, NextRowIs DEF CompanionTypeOK, LoopType
<1>2. KeysArePast'
    BY <1>0, FeatureStays DEF KeysArePast
<1>3. LoopIsTimely'
    <2>1. loop'.step = "check" /\ loop'.now = loop.now
        BY <1>0, NextRowIs
    <2> QED
        BY <1>0, <2>1, WindowStays DEF LoopIsTimely, Sends
<1>4. WithinCount'
    <2>1. loop'.step = "check"
        BY <1>0, NextRowIs
    <2> QED
        BY <1>0, <2>1, FeatureStays DEF WithinCount, IsFired, Sends
<1>5. RecapOnce'
    <2> SUFFICES ASSUME feature = "weekly_recap"
                 PROVE  /\ loop.rows = {} /\ sentNow <= mishaps + 1
                        /\ WeekHour(hour) < RecapHour => sentNow = 0
        BY <1>0, NextRowIs, FeatureStays DEF RecapOnce, Spent, Sends
    <2> QED
        BY <1>0, CompanionTyped DEF RecapOnce, Sends
<1> QED
    BY <1>0, <1>1, <1>2, <1>3, <1>4, <1>5

LEMMA MishapIs ==
    ASSUME CompanionTypeOK, Mishap
    PROVE  mishaps' = mishaps + 1 /\ mishaps' \in 0..MaxMishaps
BY CompanionAssumption DEF Mishap, CompanionTypeOK

LEMMA SendAnswerIsLostStep ==
    ASSUME CompanionInv, SendAnswerIsLost
    PROVE  CompanionInv'
<1> USE DEF CompanionInv
<1>0. /\ feature' = feature /\ zone' = zone /\ hour' = hour /\ fired' = fired
      /\ mishaps' = mishaps + 1 /\ steady' = steady /\ loop.step = "send"
      /\ sentNow' = sentNow + 1 /\ reminded' = Day(hour + zone) /\ NextRow
    BY MishapIs DEF SendAnswerIsLost, Delivered, Local
<1>1. CompanionTypeOK'
    <2>1. mishaps' \in 0..MaxMishaps
        BY MishapIs DEF SendAnswerIsLost
    <2>2. sentNow' \in Nat /\ reminded' \in Int
        BY <1>0, CompanionTyped
    <2> QED
        BY <1>0, <2>1, <2>2, NextRowIs DEF CompanionTypeOK, LoopType
<1>2. KeysArePast'
    BY <1>0, FeatureStays DEF KeysArePast
<1>3. LoopIsTimely'
    <2>1. loop'.step = "check" /\ loop'.now = loop.now
        BY <1>0, NextRowIs
    <2> QED
        BY <1>0, <2>1, WindowStays DEF LoopIsTimely, Sends
<1>4. WithinCount'
    <2>1. Since(fired, PeriodFrom(hour)) \in Nat
        BY SinceIsNat
    <2> SUFFICES ASSUME Counted
                 PROVE  /\ Since(fired, PeriodFrom(hour)) <= Limit
                        /\ sentNow + 1 <= Since(fired, PeriodFrom(hour)) + (mishaps + 1)
        <3>1. loop'.step = "check"
            BY <1>0, NextRowIs
        <3>2. PeriodFrom(hour)' = PeriodFrom(hour) /\ Counted' = Counted /\ Limit' = Limit
            BY <1>0, FeatureStays
        <3>3. sentNow \in Nat /\ mishaps \in Nat
            BY CompanionTyped
        <3> QED
            BY <1>0, <2>1, <3>1, <3>2, <3>3 DEF WithinCount, Sends
    <2> QED
        BY <1>0, <2>1, CompanionTyped DEF WithinCount, Sends
<1>5. RecapOnce'
    <2> SUFFICES ASSUME feature = "weekly_recap"
                 PROVE  /\ loop.rows = {} /\ sentNow <= mishaps + 1
                        /\ ~ WeekHour(hour) < RecapHour
        BY <1>0, NextRowIs, FeatureStays, CompanionTyped DEF RecapOnce, Spent, Sends
    <2>1. WeekHour(hour) = RecapHour
        BY <1>0, RecapIsAtItsHour DEF LoopIsTimely, AllHour
    <2> QED
        BY <1>0, <2>1, CompanionTyped DEF RecapOnce, Sends
<1> QED
    BY <1>0, <1>1, <1>2, <1>3, <1>4, <1>5

LEMMA RecordFiredStep ==
    ASSUME CompanionInv, RecordFired
    PROVE  CompanionInv'
<1> USE DEF CompanionInv
<1> DEFINE id == TriggerID(loop.row, loop.date)
           row == [id |-> id, day |-> Day(hour)]
<1>0. /\ feature' = feature /\ zone' = zone /\ hour' = hour /\ steady' = steady
      /\ loop.step = "record" /\ sentNow' = sentNow /\ reminded' = reminded /\ NextRow
    BY DEF RecordFired
<1>1. loop'.step = "check" /\ loop'.rows = loop.rows /\ loop'.now = loop.now
      /\ loop' \in LoopType
    BY <1>0, NextRowIs
<1>2. \/ fired' = fired \cup {row} /\ mishaps' = mishaps /\ ~ IsFired(id)
      \/ fired' = fired /\ mishaps' = mishaps /\ IsFired(id)
      \/ fired' = fired /\ mishaps' = mishaps + 1
    BY MishapIs DEF RecordFired, IsFired
<1>3. mishaps' \in 0..MaxMishaps
    BY MishapIs DEF RecordFired, CompanionTypeOK
<1>4. id.row \in 0..2 /\ id.date \in Int /\ (Sending.date = "day" => id.date = loop.date)
    <2>1. DayOfMonth(loop.date) \in Int
        BY CompanionTyped DEF DayOfMonth, LoopType
    <2>2. Sending.date \in {"day", "day of month", "none"}
        BY CompanionTyped DEF Feature, Sending, EveningPing, WeeklyRecap, LeadBrief,
           StreakReminder, ProofDraft, BuddyStalled, GoalRisk, StreakMilestone,
           LeaderFairPlay
    <2>3. id.row = loop.row \/ id.row = 0
        <3>1. id.row = IF Sending.rowInKey THEN loop.row ELSE 0
            BY DEF TriggerID
        <3> HIDE DEF id
        <3> QED
            BY <3>1, Zenon
    <2>8. /\ Sending.date = "day" => id.date = loop.date
          /\ Sending.date = "day of month" => id.date = DayOfMonth(loop.date)
          /\ Sending.date = "none" => id.date = 0
        BY DEF TriggerID
    <2>4. loop.row \in 0..2 /\ loop.date \in Int
        BY CompanionTyped DEF LoopType
    <2> HIDE DEF id
    <2>5. id.row \in 0..2
        BY <2>3, <2>4
    <2>6. id.date \in Int
        <3>1. \/ id.date = loop.date
              \/ id.date = DayOfMonth(loop.date)
              \/ id.date = 0
            BY <2>2, <2>8, Zenon
        <3> QED
            BY <2>1, <2>4, <3>1
    <2>7. Sending.date = "day" => id.date = loop.date
        BY <2>8
    <2> QED
        BY <2>5, <2>6, <2>7
<1>5. CompanionTypeOK'
    <2>1. \A r \in fired' : r.id.row \in 0..2 /\ r.id.date \in Int /\ r.day \in Nat
        BY <1>2, <1>4, CompanionTyped DEF CompanionTypeOK
    <2> QED
        BY <1>0, <1>1, <1>3, <2>1 DEF CompanionTypeOK, LoopType
<1>6. IsFiniteSet(fired')
    BY <1>2, FS_AddElement
<1>7. KeysArePast'
    <2>1. loop.date <= Day(hour)
        BY <1>0 DEF LoopIsTimely, Sends
    <2> QED
        BY <1>0, <1>2, <1>4, <2>1, CompanionTyped, FeatureStays DEF KeysArePast
<1>8. LoopIsTimely'
    BY <1>0, <1>1, WindowStays DEF LoopIsTimely, Sends
<1>9. WithinCount'
    <2> SUFFICES ASSUME Counted
                 PROVE  /\ Since(fired', PeriodFrom(hour)) <= Limit
                        /\ sentNow <= Since(fired', PeriodFrom(hour)) + mishaps'
        <3>1. Since(fired', PeriodFrom(hour)) \in Nat /\ mishaps' \in Nat
            BY <1>3, <1>6, SinceIsNat
        <3>2. PeriodFrom(hour)' = PeriodFrom(hour) /\ Counted' = Counted /\ Limit' = Limit
            BY <1>0, FeatureStays
        <3>3. sentNow \in Nat /\ mishaps \in Nat
            BY CompanionTyped
        <3> QED
            BY <1>0, <1>1, <3>1, <3>2, <3>3 DEF WithinCount, Sends
    <2>1. ~ IsFired(id) /\ Since(fired, PeriodFrom(hour)) < Limit
          /\ sentNow <= Since(fired, PeriodFrom(hour)) + mishaps + 1
        BY <1>0 DEF WithinCount, Sends
    <2>2. Since(fired, PeriodFrom(hour)) \in Nat /\ Limit \in Nat
        BY SinceIsNat, LimitIs, CompanionTyped
    <2>3. CASE fired' = fired \cup {row} /\ mishaps' = mishaps
        <3>1. row \notin fired
            BY <2>1 DEF IsFired
        <3>2. Since(fired', PeriodFrom(hour)) = Since(fired, PeriodFrom(hour)) + 1
            BY <2>3, <3>1, CompanionTyped, OneMoreSince
        <3> QED
            BY <2>1, <2>2, <2>3, <3>2, CompanionTyped
    <2>4. CASE fired' = fired /\ mishaps' = mishaps + 1
        BY <2>1, <2>2, <2>4, CompanionTyped
    <2> QED
        BY <1>2, <2>1, <2>3, <2>4
<1>10. RecapOnce'
    <2> SUFFICES ASSUME feature = "weekly_recap"
                 PROVE  /\ loop.rows = {} /\ sentNow <= mishaps' + 1
                        /\ WeekHour(hour) < RecapHour => sentNow = 0
        BY <1>0, <1>1, FeatureStays DEF RecapOnce, Spent, Sends
    <2> QED
        BY <1>0, <1>2, CompanionTyped DEF RecapOnce, Sends
<1> QED
    BY <1>0, <1>5, <1>6, <1>7, <1>8, <1>9, <1>10

LEMMA CompanionCrashStep ==
    ASSUME CompanionInv, CompanionCrash
    PROVE  CompanionInv'
<1> USE DEF CompanionInv
<1>0. /\ feature' = feature /\ zone' = zone /\ hour' = hour /\ fired' = fired
      /\ mishaps' = mishaps + 1 /\ steady' = FALSE /\ loop.step # "idle"
      /\ sentNow' = sentNow /\ reminded' = reminded
    BY MishapIs DEF CompanionCrash
<1>1. loop' = [step |-> "idle", rows |-> {}, row |-> 0, now |-> 0, date |-> 0,
               ticked |-> FALSE]
    BY DEF CompanionCrash, IdleLoop
<1>2. CompanionTypeOK'
    <2>1. mishaps' \in 0..MaxMishaps
        BY MishapIs DEF CompanionCrash
    <2>2. loop' \in LoopType
        BY <1>1 DEF LoopType
    <2> QED
        BY <1>0, <2>1, <2>2 DEF CompanionTypeOK, LoopType
<1>3. KeysArePast' /\ LoopIsTimely'
    BY <1>0, <1>1, FeatureStays DEF KeysArePast, LoopIsTimely, Sends
<1>4. WithinCount'
    <2> SUFFICES ASSUME Counted
                 PROVE  /\ Since(fired, PeriodFrom(hour)) <= Limit
                        /\ sentNow <= Since(fired, PeriodFrom(hour)) + (mishaps + 1)
        <3>1. Since(fired, PeriodFrom(hour)) \in Nat
            BY SinceIsNat
        <3>2. PeriodFrom(hour)' = PeriodFrom(hour) /\ Counted' = Counted /\ Limit' = Limit
            BY <1>0, FeatureStays
        <3>3. sentNow \in Nat /\ mishaps \in Nat
            BY CompanionTyped
        <3> QED
            BY <1>0, <1>1, <3>1, <3>2, <3>3 DEF WithinCount, Sends
    <2>1. Since(fired, PeriodFrom(hour)) \in Nat
        BY SinceIsNat
    <2> QED
        BY <2>1, CompanionTyped DEF WithinCount
<1>5. RecapOnce'
    <2> SUFFICES ASSUME feature = "weekly_recap"
                 PROVE  /\ sentNow <= mishaps + 1
                        /\ WeekHour(hour) < RecapHour => sentNow = 0
        BY <1>0, <1>1, FeatureStays, CompanionTyped DEF RecapOnce, Sends
    <2> QED
        BY CompanionTyped DEF RecapOnce
<1> QED
    BY <1>0, <1>2, <1>3, <1>4, <1>5

LEMMA CompanionInvStep == CompanionInv /\ [CompanionNext]_companionVars => CompanionInv'
<1> SUFFICES ASSUME CompanionInv, [CompanionNext]_companionVars
             PROVE  CompanionInv'
    OBVIOUS
<1>1. CASE Check
    BY <1>1, CheckEnds, CheckTakesARow
<1>2. CASE UNCHANGED companionVars
    <2>1. /\ feature' = feature /\ zone' = zone /\ hour' = hour /\ fired' = fired
          /\ loop' = loop /\ sentNow' = sentNow /\ steady' = steady
          /\ reminded' = reminded /\ mishaps' = mishaps
        BY <1>2 DEF companionVars
    <2>2. CompanionTypeOK' /\ IsFiniteSet(fired')
        BY <2>1 DEF CompanionInv, CompanionTypeOK
    <2>3. KeysArePast' /\ LoopIsTimely'
        BY <2>1, FeatureStays, WindowStays DEF CompanionInv, KeysArePast, LoopIsTimely
    <2>4. WithinCount'
        BY <2>1, FeatureStays DEF CompanionInv, WithinCount, IsFired
    <2>5. RecapOnce'
        BY <2>1, FeatureStays DEF CompanionInv, RecapOnce, Spent
    <2> QED
        BY <2>2, <2>3, <2>4, <2>5 DEF CompanionInv
<1> QED
    BY <1>1, <1>2, HourStep, FindStep, SendStep, SendAbortsStep, SendAnswerIsLostStep,
       RecordFiredStep, CompanionCrashStep DEF CompanionNext

LEMMA CompanionInvImpliesLimits == CompanionInv => LimitsHold
<1> SUFFICES ASSUME CompanionInv, feature = "lead_weekly_brief" => SameMonday
             PROVE  sentNow <= Limit + mishaps
    BY DEF LimitsHold, Limit
<1> USE DEF CompanionInv
<1>1. Limit \in Nat /\ Limit >= 1
    BY LimitIs, CompanionTyped
<1>2. CASE feature = "weekly_recap"
    BY <1>1, <1>2, CompanionTyped DEF RecapOnce
<1>3. CASE feature # "weekly_recap"
    <2>1. Counted
        BY <1>3 DEF Counted
    <2>2. Since(fired, PeriodFrom(hour)) \in Nat
        BY SinceIsNat
    <2> QED
        BY <1>1, <2>1, <2>2, CompanionTyped DEF WithinCount, Sends
<1> QED
    BY <1>2, <1>3

(* The variables of the companion keep their types: a key that is recorded *)
(* is one that BuildTriggerID can write.                                   *)
THEOREM CompanionTyping == CompanionSpec => []CompanionTypeOK
<1>1. CompanionInit => CompanionInv
    BY CompanionInitInv
<1>2. CompanionInv /\ [CompanionNext]_companionVars => CompanionInv'
    BY CompanionInvStep
<1>3. CompanionInv => CompanionTypeOK
    BY DEF CompanionInv
<1> QED
    BY <1>1, <1>2, <1>3, PTL DEF CompanionSpec

(* For every set of zones, any number of days of the model's calendar and  *)
(* any number of mishaps, a user is told of a feature no more often than   *)
(* ShouldFire's limit and the mishaps allow; of the brief of a lead, where *)
(* its Monday 09:00 is a Monday of the server.                             *)
THEOREM CompanionKeepsItsLimits == CompanionSpec => []LimitsHold
<1>1. CompanionInit => CompanionInv
    BY CompanionInitInv
<1>2. CompanionInv /\ [CompanionNext]_companionVars => CompanionInv'
    BY CompanionInvStep
<1>3. CompanionInv => LimitsHold
    BY CompanionInvImpliesLimits
<1> QED
    BY <1>1, <1>2, <1>3, PTL DEF CompanionSpec

-----------------------------------------------------------------------------
(* The weekly recap of the companion: what keeps it back.                  *)

\* No row is of the week of hour h.
NoneThisWeek(F, h) == \A r \in F : r.day < Day(h) - Weekday(Day(h))

\* The key of the weekly recap of day d.
RecapKey(d) == [row |-> 0, date |-> DayOfMonth(d)]

\* The recap of day d went out, or its key is one of four weeks ago.
RecapReached(F, last, d) ==
    last = d \/ \E r \in F : r.id = RecapKey(d) /\ r.day <= d - 28

\* The week has no row before its Friday 18:00; in that hour, if nothing failed,
\* it has none until its one tick has sent the recap or met an old key.
RecapReaches ==
    feature = "weekly_recap" =>
        /\ \A r \in fired : r.id = RecapKey(r.day)
        /\ loop.step \in Sends => loop.date = Day(hour)
        /\ loop.step # "idle" => ~ loop.ticked
        /\ WeekHour(hour) < RecapHour => NoneThisWeek(fired, hour)
        /\ WeekHour(hour) = RecapHour /\ steady =>
             IF Spent THEN RecapReached(fired, reminded, Day(hour + zone))
             ELSE NoneThisWeek(fired, hour)

LEMMA RecapKeyIs ==
    ASSUME feature = "weekly_recap", NEW row, NEW d
    PROVE  TriggerID(row, d) = RecapKey(d)
BY DEF TriggerID, RecapKey, Sending, WeeklyRecap, EveningPing

LEMMA SameKeyIsOld ==
    ASSUME NEW d \in Int, NEW e \in Int, RecapKey(d) = RecapKey(e), d < e
    PROVE  d <= e - 28
<1>1. DayOfMonth(d) = DayOfMonth(e)
    BY DEF RecapKey
<1> QED
    BY <1>1 DEF DayOfMonth

\* Friday of the user is the fifth day of the server's week.
LEMMA RecapDay ==
    ASSUME NEW h \in Nat, NEW z \in -23..23, WeekHour(h) = 114 - z
    PROVE  Day(h + z) = Day(h) - Weekday(Day(h)) + 4
<1>1. Day(h) \in Int /\ h = 24 * Day(h) + HourOfDay(h) /\ HourOfDay(h) \in 0..23
      /\ Weekday(Day(h)) \in 0..6
    BY DayAndHour, WeekAndDay
<1>2. HourOf(h + z, Day(h) - Weekday(Day(h)) + 4, 18)
    BY <1>1 DEF WeekHour, HourOf
<1> QED
    BY <1>1, <1>2, SameDayOf

LEMMA RecapUnderWay ==
    ASSUME CompanionInv, feature = "weekly_recap", loop.step # "idle"
    PROVE  loop.now = hour /\ WeekHour(hour) = RecapHour
<1>1. loop.now = hour /\ Window
    BY DEF CompanionInv, LoopIsTimely, AllHour
<1> QED
    BY <1>1, RecapIsAtItsHour DEF CompanionInv

LEMMA RecapReachesInit == CompanionInit => RecapReaches
<1> SUFFICES ASSUME CompanionInit
             PROVE  RecapReaches
    OBVIOUS
<1>1. loop.step = "idle" /\ fired = {} /\ steady = FALSE
    BY DEF CompanionInit, IdleLoop
<1> QED
    BY <1>1 DEF RecapReaches, NoneThisWeek, Sends

LEMMA HourReaches ==
    ASSUME CompanionInv, RecapReaches, Hour, feature = "weekly_recap"
    PROVE  RecapReaches'
<1> USE DEF CompanionInv
<1>1. /\ feature' = feature /\ zone' = zone /\ fired' = fired /\ hour' = hour + 1
      /\ loop' = [loop EXCEPT !.ticked = FALSE] /\ loop.step = "idle"
    BY DEF Hour, AllHour
<1>2. loop'.step = "idle" /\ loop'.ticked = FALSE
    BY <1>1, CompanionTyped DEF LoopType
<1>3. RecapHour' = RecapHour /\ RecapHour \in 91..137
    BY <1>1, CompanionTyped, FeatureStays DEF RecapHour
<1>4. Day(hour) \in Int /\ Day(hour + 1) \in Int /\ Weekday(Day(hour)) \in 0..6
      /\ WeekHour(hour) \in 0..167
    BY CompanionTyped, DayAndHour, WeekAndDay
<1>5. WeekHour(hour + 1) <= RecapHour => NoneThisWeek(fired, hour + 1)
    <2>1. CASE HourOfDay(hour + 1) = 0 /\ Weekday(Day(hour + 1)) = Monday
        <3>1. Day(hour + 1) = Day(hour) + 1
            BY <2>1, CompanionTyped, NextHour
        <3>2. \A r \in fired : r.day \in Nat /\ r.day <= Day(hour)
            BY DEF KeysArePast, CompanionTypeOK
        <3> QED
            BY <1>4, <2>1, <3>1, <3>2 DEF NoneThisWeek, Monday
    <2>2. CASE ~ (HourOfDay(hour + 1) = 0 /\ Weekday(Day(hour + 1)) = Monday)
        <3>1. WeekHour(hour + 1) = WeekHour(hour) + 1
            BY <2>2, CompanionTyped, WeekHourIs
        <3>2. Day(hour + 1) - Weekday(Day(hour + 1)) = Day(hour) - Weekday(Day(hour))
            <4>1. IF HourOfDay(hour + 1) = 0 THEN Day(hour + 1) = Day(hour) + 1
                  ELSE Day(hour + 1) = Day(hour)
                BY CompanionTyped, NextHour
            <4>2. IF Weekday(Day(hour) + 1) = 0 THEN Weekday(Day(hour)) = 6
                  ELSE Weekday(Day(hour) + 1) = Weekday(Day(hour)) + 1
                BY <1>4, DayAfter
            <4> QED
                BY <1>4, <2>2, <4>1, <4>2 DEF Monday
        <3> QED
            BY <1>3, <1>4, <3>1, <3>2 DEF RecapReaches, NoneThisWeek
    <2> QED
        BY <2>1, <2>2
<1>6. WeekHour(hour + 1) \in Int
    BY CompanionTyped, WeekHourIs
<1>7. WeekHour(hour)' = WeekHour(hour + 1) /\ NoneThisWeek(fired, hour)' = NoneThisWeek(fired, hour + 1)
    BY <1>1 DEF WeekHour, NoneThisWeek
<1>8. WeekHour(hour + 1) = RecapHour => ~ Spent'
    BY <1>2, <1>3, <1>7 DEF Spent
<1>9. \A r \in fired' : r.id = RecapKey(r.day)
    BY <1>1 DEF RecapReaches
<1> QED
    BY <1>1, <1>2, <1>3, <1>5, <1>6, <1>7, <1>8, <1>9 DEF RecapReaches, Sends

LEMMA FindReaches ==
    ASSUME CompanionInv, RecapReaches, Find, feature = "weekly_recap"
    PROVE  RecapReaches'
<1> USE DEF CompanionInv
<1>1. /\ feature' = feature /\ zone' = zone /\ hour' = hour /\ fired' = fired
      /\ reminded' = reminded /\ loop.step = "idle" /\ Window /\ ~ loop.ticked
    BY DEF Find, AllHour
<1>2. PICK R \in SUBSET Sending.rows :
         loop' = [loop EXCEPT !.step = "check", !.rows = R, !.now = hour]
         /\ steady' = (steady /\ R # {})
    BY DEF Find
<1>3. loop'.step = "check" /\ loop'.rows = R /\ loop'.ticked = loop.ticked
    BY <1>2, CompanionTyped DEF LoopType
<1>4. WeekHour(hour) = RecapHour /\ RecapHour' = RecapHour /\ ~ Spent
    BY <1>1, RecapIsAtItsHour, CompanionTyped, FeatureStays DEF Spent
<1>5. steady' => steady /\ ~ Spent'
    BY <1>1, <1>2, <1>3, <1>4, CompanionTyped DEF Spent
<1> QED
    BY <1>1, <1>3, <1>4, <1>5, CompanionTyped DEF RecapReaches, Sends

LEMMA CheckReaches ==
    ASSUME CompanionInv, RecapReaches, Check, feature = "weekly_recap"
    PROVE  RecapReaches'
<1> USE DEF CompanionInv
<1>1. /\ feature' = feature /\ zone' = zone /\ hour' = hour /\ fired' = fired
      /\ reminded' = reminded /\ steady' = steady /\ loop.step = "check"
    BY DEF Check
<1>2. loop.now = hour /\ WeekHour(hour) = RecapHour /\ RecapHour' = RecapHour
    BY <1>1, RecapUnderWay, FeatureStays
<1>3. ~ loop.ticked
    BY <1>1 DEF RecapReaches
<1>4. CASE loop.rows = {}
    <2>1. loop'.step = "idle"
        BY <1>4 DEF Check, IdleLoop
    <2>2. Spent
        BY <1>1, <1>4 DEF Spent
    <2>3. Spent'
        <3>1. loop'.ticked = TRUE
            BY <1>2, <1>4 DEF Check, IdleLoop
        <3> QED
            BY <2>1, <3>1 DEF Spent
    <2> QED
        BY <1>1, <1>2, <2>1, <2>2, <2>3 DEF RecapReaches, Sends
<1>5. CASE loop.rows # {}
    <2> DEFINE id == TriggerID(1, Day(hour + zone))
    <2>1. loop.rows = {1}
        BY <1>5 DEF RecapOnce
    <2>2. Sending.clock = "user"
        BY DEF Sending, WeeklyRecap, EveningPing
    <2>3. loop' = [loop EXCEPT !.rows = loop.rows \ {1},
                     !.row = IF ShouldFire(id) THEN 1 ELSE 0,
                     !.date = IF ShouldFire(id) THEN Day(hour) ELSE 0,
                     !.step = IF ShouldFire(id) THEN "send" ELSE "check"]
        BY <1>2, <1>5, <2>1, <2>2 DEF Check
    <2>4. /\ loop'.step = (IF ShouldFire(id) THEN "send" ELSE "check")
          /\ loop'.date = (IF ShouldFire(id) THEN Day(hour) ELSE 0)
          /\ loop'.rows = {} /\ loop'.ticked = FALSE
        BY <1>3, <2>1, <2>3, CompanionTyped DEF LoopType
    <2>5. ~ Spent
        BY <1>1, <1>2, <2>1, CompanionTyped DEF Spent
    <2>6. ASSUME steady, ~ ShouldFire(id)
          PROVE  RecapReached(fired, reminded, Day(hour + zone))
        <3> DEFINE start == Day(hour) - Weekday(Day(hour))
        <3>1. NoneThisWeek(fired, hour)
            BY <1>2, <2>5, <2>6 DEF RecapReaches
        <3>2. Day(hour) \in Nat /\ Weekday(Day(hour)) \in 0..6 /\ start \in Int
            BY CompanionTyped, WeekAndDay
        <3>3. \A r \in fired : r.day \in Nat /\ r.day < start
            BY <3>1 DEF NoneThisWeek, CompanionTypeOK
        <3>4. FiredSince(start) = 0
            <4>1. Since(fired, start) = 0
                BY <3>2, <3>3, NoneSince
            <4> QED
                BY <4>1 DEF Since, FiredSince
        <3>5. MaxPerDay = 0 /\ MaxPerWeek = 1
            BY DEF MaxPerDay, MaxPerWeek
        <3>6. PICK r \in fired : r.id = id
            BY <2>6, <3>4, <3>5 DEF ShouldFire
        <3>7. Day(hour + zone) = start + 4
            BY <1>2, CompanionTyped, RecapDay DEF RecapHour
        <3>8. r.id = RecapKey(r.day) /\ r.id = RecapKey(Day(hour + zone))
            BY <3>6, RecapKeyIs DEF RecapReaches
        <3>9. r.day \in Int /\ Day(hour + zone) \in Int /\ r.day < Day(hour + zone)
            BY <3>2, <3>3, <3>6, <3>7
        <3>10. r.day <= Day(hour + zone) - 28
            BY <3>8, <3>9, SameKeyIsOld
        <3> QED
            BY <3>6, <3>8, <3>10 DEF RecapReached
    <2>7. Spent' <=> ~ ShouldFire(id)
        BY <1>1, <1>2, <2>4, CompanionTyped DEF Spent
    <2>8. steady /\ ShouldFire(id) => NoneThisWeek(fired, hour)
        BY <1>2, <2>5 DEF RecapReaches
    <2> QED
        BY <1>1, <1>2, <2>4, <2>6, <2>7, <2>8, CompanionTyped DEF RecapReaches, Sends
<1> QED
    BY <1>4, <1>5

LEMMA DeliveryReaches ==
    ASSUME CompanionInv, RecapReaches, feature = "weekly_recap",
           Send \/ SendAnswerIsLost
    PROVE  RecapReaches'
<1> USE DEF CompanionInv
<1>1. /\ feature' = feature /\ zone' = zone /\ hour' = hour /\ fired' = fired
      /\ steady' = steady /\ loop.step = "send" /\ reminded' = Day(hour + zone)
    BY DEF Send, SendAnswerIsLost, Delivered, Local
<1>2. WeekHour(hour) = RecapHour /\ RecapHour' = RecapHour
    BY <1>1, RecapUnderWay, FeatureStays
<1>3. loop.rows = {} /\ ~ loop.ticked /\ loop.date = Day(hour)
    BY <1>1 DEF RecapOnce, RecapReaches, Sends
<1>4. \/ loop'.step = "record" /\ loop'.date = loop.date /\ loop'.ticked = loop.ticked
      \/ loop'.step = "check" /\ loop'.rows = {} /\ loop'.ticked = loop.ticked
    <2>1. CASE Send
        BY <2>1, CompanionTyped DEF Send, LoopType
    <2>2. CASE SendAnswerIsLost
        BY <1>3, <2>2, NextRowIs DEF SendAnswerIsLost
    <2> QED
        BY <2>1, <2>2
<1>5. Spent'
    BY <1>4 DEF Spent
<1>6. RecapReached(fired', reminded', Day(hour' + zone'))
    BY <1>1 DEF RecapReached
<1> QED
    BY <1>1, <1>2, <1>3, <1>4, <1>5, <1>6, CompanionTyped DEF RecapReaches, Sends

LEMMA RecordReaches ==
    ASSUME CompanionInv, RecapReaches, RecordFired, feature = "weekly_recap"
    PROVE  RecapReaches'
<1> USE DEF CompanionInv
<1>1. /\ feature' = feature /\ zone' = zone /\ hour' = hour /\ steady' = steady
      /\ loop.step = "record" /\ reminded' = reminded /\ NextRow
    BY DEF RecordFired
<1>2. WeekHour(hour) = RecapHour /\ RecapHour' = RecapHour
    BY <1>1, RecapUnderWay, FeatureStays
<1>3. loop.rows = {} /\ ~ loop.ticked /\ loop.date = Day(hour)
    BY <1>1 DEF RecapOnce, RecapReaches, Sends
<1>4. loop'.step = "check" /\ loop'.rows = {} /\ ~ loop'.ticked
    BY <1>1, <1>3, NextRowIs
<1>5. \/ fired' = fired
      \/ fired' = fired \cup {[id |-> RecapKey(Day(hour)), day |-> Day(hour)]}
    BY <1>3, RecapKeyIs DEF RecordFired
<1>6. Spent /\ Spent'
    BY <1>1, <1>4 DEF Spent
<1>7. \A r \in fired' : r.id = RecapKey(r.day)
    BY <1>5 DEF RecapReaches
<1>8. steady => RecapReached(fired', reminded', Day(hour' + zone'))
    BY <1>1, <1>2, <1>5, <1>6 DEF RecapReaches, RecapReached
<1> QED
    BY <1>1, <1>2, <1>4, <1>6, <1>7, <1>8, CompanionTyped DEF RecapReaches, Sends

LEMMA GivingUpReaches ==
    ASSUME CompanionInv, RecapReaches, feature = "weekly_recap",
           SendAborts \/ CompanionCrash
    PROVE  RecapReaches'
<1> USE DEF CompanionInv
<1>1. /\ feature' = feature /\ zone' = zone /\ hour' = hour /\ fired' = fired
      /\ steady' = FALSE /\ loop.step # "idle"
    BY DEF SendAborts, CompanionCrash
<1>2. WeekHour(hour) = RecapHour /\ RecapHour' = RecapHour
    BY <1>1, RecapUnderWay, FeatureStays
<1>3. loop'.step \notin Sends /\ (loop'.step # "idle" => ~ loop'.ticked)
    <2>1. CASE SendAborts
        BY <2>1, <1>1, NextRowIs DEF SendAborts, RecapReaches, Sends
    <2>2. CASE CompanionCrash
        BY <2>2 DEF CompanionCrash, IdleLoop, Sends
    <2> QED
        BY <2>1, <2>2
<1> QED
    BY <1>1, <1>2, <1>3, CompanionTyped DEF RecapReaches

LEMMA RecapReachesStep ==
    CompanionInv /\ RecapReaches /\ [CompanionNext]_companionVars => RecapReaches'
<1> SUFFICES ASSUME CompanionInv, RecapReaches, [CompanionNext]_companionVars
             PROVE  RecapReaches'
    OBVIOUS
<1>1. CASE feature # "weekly_recap"
    <2>1. feature' = feature
        BY DEF CompanionNext, companionVars, Hour, Find, Check, Send, SendAborts,
               SendAnswerIsLost, RecordFired, CompanionCrash
    <2> QED
        BY <1>1, <2>1 DEF RecapReaches
<1>2. CASE feature = "weekly_recap" /\ UNCHANGED companionVars
    <2>1. /\ feature' = feature /\ zone' = zone /\ hour' = hour /\ fired' = fired
          /\ loop' = loop /\ steady' = steady /\ reminded' = reminded
        BY <1>2 DEF companionVars
    <2>2. Spent' = Spent /\ RecapHour' = RecapHour
        BY <2>1, FeatureStays DEF Spent
    <2> QED
        BY <2>1, <2>2 DEF RecapReaches
<1> QED
    BY <1>1, <1>2, HourReaches, FindReaches, CheckReaches, DeliveryReaches,
       RecordReaches, GivingUpReaches DEF CompanionNext

(* In every zone and over any number of weeks of the model's calendar: on  *)
(* a Friday on which the tick of 18:00 ran and found the user, the weekly  *)
(* recap goes out unless the day of the month names a record of at least   *)
(* four weeks ago.                                                         *)
THEOREM OnlyOldKeysHoldRecapsBack == CompanionSpec => []RecapUnlessKeyTaken
<1>1. CompanionInv /\ RecapReaches => RecapUnlessKeyTaken
    <2> SUFFICES ASSUME CompanionInv, RecapReaches, feature = "weekly_recap",
                        WeeklyRecapDue, loop.ticked, steady
                 PROVE  RecapReached(fired, reminded, Day(Local))
        BY RecapKeyIs DEF RecapUnlessKeyTaken, RecapReached
    <2>1. Window
        BY DEF Window
    <2>2. WeekHour(hour) = RecapHour
        BY <2>1, RecapIsAtItsHour DEF CompanionInv
    <2>3. Spent
        BY DEF RecapReaches, Spent
    <2> QED
        BY <2>2, <2>3 DEF RecapReaches, Local
<1> QED
    BY <1>1, CompanionInitInv, CompanionInvStep, RecapReachesInit, RecapReachesStep, PTL
    DEF CompanionSpec

\* The bound of the model on the hours.
WithinHorizon == hour = 0 \/ hour < 24 * Horizon[feature]

(* Of four weeks no Friday is without its recap, for no record can be that *)
(* old: the design's promise fails by the keys of an earlier month alone.  *)
THEOREM FourWeeksOfRecaps ==
    ASSUME Horizon["weekly_recap"] <= 28
    PROVE  CompanionSpec => []RecapEveryFriday
<1>1. CompanionInit => WithinHorizon
    BY DEF CompanionInit, WithinHorizon
<1>2. WithinHorizon /\ [CompanionNext]_companionVars => WithinHorizon'
    BY DEF CompanionNext, companionVars, Hour, Find, Check, Send, SendAborts,
           SendAnswerIsLost, RecordFired, CompanionCrash, WithinHorizon
<1>3. CompanionTypeOK /\ WithinHorizon /\ RecapUnlessKeyTaken => RecapEveryFriday
    <2> SUFFICES ASSUME CompanionTypeOK, WithinHorizon, RecapUnlessKeyTaken,
                        feature = "weekly_recap", WeeklyRecapDue, loop.ticked, steady,
                        reminded # Day(Local)
                 PROVE  FALSE
        BY DEF RecapEveryFriday
    <2>1. PICK r \in fired : r.day <= Day(Local) - 28
        BY DEF RecapUnlessKeyTaken
    <2>2. r.day \in Nat /\ hour \in Nat /\ zone \in -23..23
        BY CompanionTyped DEF CompanionTypeOK
    <2>3. Horizon["weekly_recap"] \in Nat /\ hour < 24 * 28
        BY <2>2, CompanionAssumption DEF WithinHorizon, Feature
    <2>4. Day(hour + zone) >= 28 /\ Day(hour + zone) \in Int
        BY <2>1, <2>2, DayAndHour DEF Local
    <2>5. Day(hour + zone) = 28
        <3>1. hour + zone = 24 * Day(hour + zone) + HourOfDay(hour + zone)
              /\ HourOfDay(hour + zone) \in Nat
            BY <2>2, DayAndHour
        <3> QED
            BY <2>2, <2>3, <2>4, <3>1
    <2>6. Weekday(28) = 0
        BY DEF Weekday
    <2> QED
        BY <2>5, <2>6 DEF WeeklyRecapDue, Local, Friday
<1> QED
    BY <1>1, <1>2, <1>3, CompanionTyping, OnlyOldKeysHoldRecapsBack, PTL
    DEF CompanionSpec

-----------------------------------------------------------------------------
(* The worker.                                                             *)

\* A behaviour of the worker is one of each loop, of which two rest.
LEMMA WorkerInitLoops ==
  WorkerInit => NotificationsInit /\ RecapsInit /\ CompanionInit
BY DEF WorkerInit

LEMMA WorkerStepLoops ==
  [WorkerNext]_workerVars =>
    /\ [NotificationsNext]_nudgeVars
    /\ [RecapsNext]_recapVars
    /\ [CompanionNext]_companionVars
<1> SUFFICES ASSUME [WorkerNext]_workerVars
             PROVE  /\ [NotificationsNext]_nudgeVars
                    /\ [RecapsNext]_recapVars
                    /\ [CompanionNext]_companionVars
  OBVIOUS
<1>1. CASE WorkerNext
  BY <1>1 DEF WorkerNext
<1>2. CASE UNCHANGED workerVars
  BY <1>2 DEF workerVars
<1> QED
  BY <1>1, <1>2

(* The worker runs three loops that share no table: each of its behaviours *)
(* is one of every loop, so that what was proved of a loop alone holds of  *)
(* it in the process.                                                      *)
THEOREM WorkerRunsItsLoops ==
  WorkerSpec => NotificationsSpec /\ RecapsSpec /\ CompanionSpec
BY WorkerInitLoops, WorkerStepLoops, PTL
DEF WorkerSpec, NotificationsSpec, RecapsSpec, CompanionSpec

(* The tables and the loops of the worker keep their types together.       *)
THEOREM WorkerTyping == WorkerSpec => []WorkerTypeOK
<1>1. NotificationsTypeOK /\ RecapsTypeOK /\ CompanionTypeOK => WorkerTypeOK
  BY DEF WorkerTypeOK
<1> QED
  BY <1>1, WorkerRunsItsLoops, NotificationsTyping, RecapsTyping, CompanionTyping, PTL

=============================================================================
