-------------------------- MODULE ServicesProofs ---------------------------
(***************************************************************************)
(* Proofs about what an account has besides goals: its sessions, its       *)
(* places in spaces and initiatives, its link to a chat, for every number  *)
(* of accounts, tokens, goals and requests; and at the end about all the   *)
(* services together.                                                      *)
(* The sessions take most of it.  A refresh hangs a new token under the    *)
(* old one, so a login is the root of a tree, and the claim is about its   *)
(* leaves. Ancestors is defined by climbing as often as there are tokens;  *)
(* the first section shows that this reaches the least set closed under    *)
(* parents.                                                                *)
(***************************************************************************)
EXTENDS MCServices, CirclesProofs, TeamsProofs, ObligationsProofs, FiniteSetTheorems,
        WellFoundedInduction, TLAPS

-----------------------------------------------------------------------------
(* What climbing from a token reaches.                                     *)

\* Induction is replaced by the smallest counterexample.
LEMMA Smallest ==
  ASSUME NEW T \in SUBSET Nat, T # {}
  PROVE  \E n \in T : \A m \in T : n <= m
<1> DEFINE R == OpToRel(<, Nat)
<1>1. IsWellFoundedOn(R, Nat)
  BY NatLessThanWellFounded, Zenon
<1>2. \A x, y \in Nat : x < y => <<x, y>> \in R
  BY DEF OpToRel
<1> HIDE DEF R
<1>3. PICK n \in T : \A m \in T : ~ (<<m, n>> \in R)
  BY <1>1, WFMin
<1>4. \A m \in T : ~ (m < n)
  BY <1>2, <1>3
<1>5. \A m \in T : n <= m
  BY <1>4
<1> QED
  BY <1>5

TokenTable == [Token -> [status : {"absent", "live", "revoked"}, parent : Token \cup {NoToken}]]

\* One step up from all of A.
Above(T, A) == A \cup ({T[a].parent : a \in A} \ {NoToken})

\* g counts k steps up from t.
Climbs(T, t, g, k) ==
    g = [n \in 0..k |-> IF n = 0 THEN {t} ELSE Above(T, g[n - 1])]

\* The function that the definition of Ancestors chooses, and its last set.
Climb(T, t) == CHOOSE g : Climbs(T, t, g, Cardinality(Token))

Reached(T, t) == Climb(T, t)[Cardinality(Token)]

LEMMA AncestorsAreReached ==
  ASSUME NEW t
  PROVE  Ancestors(t) = Reached(tokens, t)
BY DEF Ancestors, Reached, Climb, Climbs, Above

LEMMA AncestorsAreReachedNext ==
  ASSUME NEW t
  PROVE  Ancestors(t)' = Reached(tokens', t)
BY DEF Ancestors, Reached, Climb, Climbs, Above

\* There is such a function: the functions on an initial segment, extended
\* one step at a time.
LEMMA ClimbExists ==
  ASSUME NEW T, NEW t, NEW N \in Nat
  PROVE  \E g : Climbs(T, t, g, N)
<1> DEFINE bad == {k \in Nat : ~ \E g : Climbs(T, t, g, k)}
<1> SUFFICES bad = {}
  OBVIOUS
<1> SUFFICES ASSUME bad # {} PROVE FALSE
  OBVIOUS
<1>1. PICK k \in bad : \A m \in bad : k <= m
  <2>1. bad \in SUBSET Nat
    OBVIOUS
  <2> HIDE DEF bad
  <2> QED
    BY <2>1, Smallest
<1>2. CASE k = 0
  <2>1. Climbs(T, t, [n \in 0..0 |-> {t}], 0)
    BY DEF Climbs
  <2> QED
    BY <1>1, <1>2, <2>1
<1>3. CASE k # 0
  <2>1. k \in Nat /\ k - 1 \in Nat /\ k - 1 < k
    BY <1>1, <1>3
  <2>2. k - 1 \notin bad
    BY <1>1, <2>1
  <2>3. PICK g : Climbs(T, t, g, k - 1)
    BY <2>1, <2>2
  <2> DEFINE h == [n \in 0..k |-> IF n < k THEN g[n] ELSE Above(T, g[k - 1])]
  <2>4. ASSUME NEW n \in 0..k
        PROVE  h[n] = IF n = 0 THEN {t} ELSE Above(T, h[n - 1])
    <3>1. CASE n < k
      <4>1. n \in 0..(k - 1)
        BY <2>1, <3>1
      <4>2. g[n] = IF n = 0 THEN {t} ELSE Above(T, g[n - 1])
        BY <2>3, <4>1 DEF Climbs
      <4>3. n # 0 => n - 1 \in 0..k /\ n - 1 < k
        BY <2>1, <3>1
      <4>4. h[n] = g[n] /\ (n # 0 => h[n - 1] = g[n - 1])
        BY <3>1, <4>3
      <4> QED
        BY <4>2, <4>4
    <3>2. CASE n = k
      <4>1. n # 0 /\ k - 1 \in 0..k /\ k - 1 < k
        BY <1>3, <2>1, <3>2
      <4>2. h[n] = Above(T, g[k - 1]) /\ h[n - 1] = g[k - 1]
        BY <2>1, <3>2, <4>1
      <4> QED
        BY <4>1, <4>2
    <3> QED
      BY <2>1, <3>1, <3>2
  <2>5. h = [n \in 0..k |-> h[n]]
    OBVIOUS
  <2> HIDE DEF h
  <2>6. Climbs(T, t, h, k)
    BY <2>4, <2>5 DEF Climbs
  <2> QED
    BY <1>1, <2>6
<1> QED
  BY <1>2, <1>3

LEMMA CountingUp ==
  ASSUME NEW N \in Nat, NEW S, 0 \in S, \A n \in 1..N : n - 1 \in S => n \in S
  PROVE  0..N \subseteq S
<1> DEFINE bad == 0..N \ S
<1> SUFFICES ASSUME bad # {} PROVE FALSE
  OBVIOUS
<1>1. PICK k \in bad : \A m \in bad : k <= m
  <2>1. bad \in SUBSET Nat
    OBVIOUS
  <2> HIDE DEF bad
  <2> QED
    BY <2>1, Smallest
<1>2. k \in 1..N
  BY <1>1
<1>3. k - 1 \in 0..N /\ ~ (k <= k - 1)
  BY <1>2
<1>4. k - 1 \in S
  BY <1>1, <1>3
<1> QED
  BY <1>1, <1>2, <1>4

LEMMA TokensAreCounted == Cardinality(Token) \in Nat
BY SessionsAssumption, FS_CardinalityType

LEMMA ClimbSteps ==
  ASSUME NEW T, NEW t
  PROVE  /\ Climb(T, t)[0] = {t}
         /\ \A n \in 1..Cardinality(Token) :
              Climb(T, t)[n] = Above(T, Climb(T, t)[n - 1])
<1> DEFINE N == Cardinality(Token)  up == Climb(T, t)
<1>1. N \in Nat
  BY TokensAreCounted
<1>2. Climbs(T, t, up, N)
  BY <1>1, ClimbExists DEF Climb
<1> HIDE DEF N, up
<1>3. \A n \in 0..N : up[n] = IF n = 0 THEN {t} ELSE Above(T, up[n - 1])
  BY <1>2 DEF Climbs
<1>4. up[0] = {t}
  BY <1>1, <1>3
<1>5. \A n \in 1..N : up[n] = Above(T, up[n - 1])
  BY <1>1, <1>3
<1> QED
  BY <1>4, <1>5 DEF N, up

\* Climbing as often as there are tokens reaches everything above.
LEMMA ReachedIsClosed ==
  ASSUME NEW T \in TokenTable, NEW t \in Token
  PROVE  /\ t \in Reached(T, t)
         /\ Reached(T, t) \subseteq Token
         /\ Above(T, Reached(T, t)) = Reached(T, t)
<1> DEFINE N == Cardinality(Token)  up == Climb(T, t)
           S == {n \in 0..N : /\ t \in up[n]
                              /\ up[n] \subseteq Token
                              /\ \/ Above(T, up[n]) = up[n]
                                 \/ Cardinality(up[n]) >= n + 1}
<1>1. N \in Nat
  BY TokensAreCounted
<1>2. up[0] = {t} /\ \A n \in 1..N : up[n] = Above(T, up[n - 1])
  BY ClimbSteps
<1>3. 0 \in S
  <2>1. Cardinality({t}) = 1
    BY FS_Singleton
  <2> QED
    BY <1>1, <1>2, <2>1
<1>4. ASSUME NEW n \in 1..N, n - 1 \in S PROVE n \in S
  <2> DEFINE A == up[n - 1]  B == up[n]
  <2>1. n \in 0..N /\ n - 1 \in 0..N
    BY <1>1
  <2>2. B = Above(T, A) /\ t \in A /\ A \subseteq Token
    BY <1>2, <1>4
  <2>3. t \in B /\ B \subseteq Token
    BY <2>2 DEF Above, TokenTable
  <2>4. Above(T, A) = A \/ Cardinality(A) >= n
    BY <1>4, <2>1
  <2> SUFFICES Above(T, B) = B \/ Cardinality(B) >= n + 1
    BY <2>1, <2>3
  <2> HIDE DEF A, B, S
  <2>5. CASE A = B
    BY <2>2, <2>5
  <2>6. CASE A # B
    <3>1. IsFiniteSet(B) /\ A \subseteq B
      BY <2>2, <2>3, SessionsAssumption, FS_Subset DEF Above
    <3>2. Cardinality(A) \in Nat /\ Cardinality(B) \in Nat
      BY <3>1, FS_Subset, FS_CardinalityType
    <3>3. /\ Cardinality(A) <= Cardinality(B)
          /\ Cardinality(A) # Cardinality(B)
      BY <2>6, <3>1, FS_Subset
    <3>4. Cardinality(A) >= n
      BY <2>2, <2>4, <2>6
    <3> QED
      BY <1>1, <3>2, <3>3, <3>4
  <2> QED
    BY <2>5, <2>6
<1>5. N \in S
  <2> HIDE DEF S
  <2>1. 0..N \subseteq S
    BY <1>1, <1>3, <1>4, CountingUp
  <2> QED
    BY <1>1, <2>1
<1>6. up[N] \subseteq Token => Cardinality(up[N]) <= N /\ Cardinality(up[N]) \in Nat
  <2> HIDE DEF up
  <2> QED
    BY SessionsAssumption, FS_Subset, FS_CardinalityType
<1>7. t \in up[N] /\ up[N] \subseteq Token /\ Above(T, up[N]) = up[N]
  BY <1>1, <1>5, <1>6
<1> QED
  BY <1>7 DEF Reached

\* What is reached lies in every set that is closed under parents.
LEMMA ReachedIsLeast ==
  ASSUME NEW T \in TokenTable, NEW t \in Token, NEW C, t \in C, Above(T, C) \subseteq C
  PROVE  Reached(T, t) \subseteq C
<1> DEFINE N == Cardinality(Token)  up == Climb(T, t)
           S == {n \in 0..N : up[n] \subseteq C}
<1>1. N \in Nat
  BY TokensAreCounted
<1>2. up[0] = {t} /\ \A n \in 1..N : up[n] = Above(T, up[n - 1])
  BY ClimbSteps
<1>3. 0 \in S
  BY <1>1, <1>2
<1>4. ASSUME NEW n \in 1..N, n - 1 \in S PROVE n \in S
  <2>1. up[n] = Above(T, up[n - 1]) /\ up[n - 1] \subseteq C
    BY <1>2, <1>4
  <2>2. up[n] \subseteq C
    BY <2>1 DEF Above
  <2> QED
    BY <1>1, <2>2
<1>5. N \in S
  <2> HIDE DEF S
  <2>1. 0..N \subseteq S
    BY <1>1, <1>3, <1>4, CountingUp
  <2> QED
    BY <1>1, <2>1
<1> QED
  BY <1>5 DEF Reached


\* Ancestors of ancestors are ancestors.
LEMMA ReachedIsTransitive ==
  ASSUME NEW T \in TokenTable, NEW t \in Token, NEW a \in Reached(T, t)
  PROVE  Reached(T, a) \subseteq Reached(T, t)
<1>1. a \in Token /\ Above(T, Reached(T, t)) = Reached(T, t)
  BY ReachedIsClosed
<1> QED
  BY <1>1, ReachedIsLeast

\* Only the parents matter.
LEMMA ReachedByParents ==
  ASSUME NEW T \in TokenTable, NEW U \in TokenTable,
         \A t \in Token : U[t].parent = T[t].parent
  PROVE  \A t \in Token : Reached(U, t) = Reached(T, t)
<1>1. \A A \in SUBSET Token : Above(U, A) = Above(T, A)
  BY DEF Above
<1>2. ASSUME NEW t \in Token PROVE Reached(U, t) = Reached(T, t)
  <2>1. t \in Reached(T, t) /\ Reached(T, t) \subseteq Token
        /\ Above(T, Reached(T, t)) = Reached(T, t)
    BY ReachedIsClosed
  <2>2. t \in Reached(U, t) /\ Reached(U, t) \subseteq Token
        /\ Above(U, Reached(U, t)) = Reached(U, t)
    BY ReachedIsClosed
  <2>3. Reached(U, t) \subseteq Reached(T, t)
    BY <1>1, <2>1, ReachedIsLeast
  <2>4. Reached(T, t) \subseteq Reached(U, t)
    BY <1>1, <2>2, ReachedIsLeast
  <2> QED
    BY <2>3, <2>4
<1> QED
  BY <1>2

\* A new leaf c under p: nobody else's ancestors change.
LEMMA ReachedWithChild ==
  ASSUME NEW T \in TokenTable, NEW U \in TokenTable, NEW c \in Token, NEW p \in Token,
         c # p, U[c].parent = p, \A t \in Token : T[t].parent # c,
         \A t \in Token \ {c} : U[t].parent = T[t].parent
  PROVE  /\ \A t \in Token \ {c} : c \notin Reached(T, t) /\ Reached(U, t) = Reached(T, t)
         /\ Reached(U, c) = {c} \cup Reached(T, p)
<1> DEFINE R == Token \ {c}
<1>0. p # NoToken /\ c # NoToken
  BY SessionsAssumption
<1>1. \A A \in SUBSET R : Above(U, A) = Above(T, A)
  BY DEF Above
<1>2. Above(T, R) \subseteq R
  <2>1. ASSUME NEW x \in Above(T, R) PROVE x \in R
    BY DEF Above, TokenTable
  <2> QED
    BY <2>1
<1>3. Above(U, R) \subseteq R
  BY <1>1, <1>2
<1>4. ASSUME NEW t \in R
      PROVE  c \notin Reached(T, t) /\ Reached(U, t) = Reached(T, t)
  <2>1. t \in Reached(T, t) /\ Reached(T, t) \subseteq R
        /\ Above(T, Reached(T, t)) = Reached(T, t)
    BY <1>2, ReachedIsClosed, ReachedIsLeast
  <2>2. t \in Reached(U, t) /\ Reached(U, t) \subseteq R
        /\ Above(U, Reached(U, t)) = Reached(U, t)
    BY <1>3, ReachedIsClosed, ReachedIsLeast
  <2>3. Reached(U, t) \subseteq Reached(T, t)
    BY <1>1, <2>1, ReachedIsLeast
  <2>4. Reached(T, t) \subseteq Reached(U, t)
    BY <1>1, <2>2, ReachedIsLeast
  <2> QED
    BY <2>1, <2>3, <2>4
<1>5. Reached(U, p) = Reached(T, p)
  BY <1>4
<1>6. p \in Reached(U, p) /\ Reached(U, p) \subseteq Token
      /\ Above(U, Reached(U, p)) = Reached(U, p)
  BY ReachedIsClosed
<1>7. c \in Reached(U, c) /\ Above(U, Reached(U, c)) = Reached(U, c)
  BY ReachedIsClosed
<1>8. Above(U, {c} \cup Reached(U, p)) \subseteq {c} \cup Reached(U, p)
  BY <1>6 DEF Above
<1>9. Reached(U, c) \subseteq {c} \cup Reached(U, p)
  BY <1>8, ReachedIsLeast
<1>10. p \in Reached(U, c)
  BY <1>0, <1>7 DEF Above
<1>11. Reached(U, p) \subseteq Reached(U, c)
  BY <1>10, ReachedIsTransitive
<1> QED
  BY <1>4, <1>5, <1>7, <1>9, <1>11

-----------------------------------------------------------------------------
(* Sessions: the tables and the requests.                                  *)

\* The table is a forest of lines: a row that is not there has no parent, and
\* a parent is there.
TreeOK(T) ==
    /\ T \in TokenTable
    /\ \A t \in Token : T[t].status = "absent" => T[t].parent = NoToken
    /\ \A t \in Token : T[t].parent # NoToken => T[T[t].parent].status # "absent"

\* r is the login that t comes from.
Heads(T, r, t) == r \in Reached(T, t) /\ T[r].parent = NoToken

\* Every token belongs to one line.
OneLine(T) ==
    \A t \in Token : \E r \in Token :
        Heads(T, r, t) /\ \A q \in Token : Heads(T, q, t) => q = r

\* A token nobody has refreshed.
Leaf(T, x) == T[x].status = "live" /\ \A y \in Token : T[y].parent # x

\* Every line that was not closed has a token to go on with.
OpenLinesLive(T, C) ==
    \A r \in Token : T[r].status # "absent" /\ T[r].parent = NoToken /\ r \notin C
        => \E x \in Token : r \in Reached(T, x) /\ Leaf(T, x)

SessionRow ==
    [step : {"idle", "register", "issue", "mint", "revoke", "reuse", "logout"},
     token : Token \cup {NoToken}]

\* A request acts on a token that is there, and revokes it, in a refresh, only
\* once it has a child.
SessionRequestOK(r, T) ==
    /\ r \in SessionRow
    /\ r.step \in {"mint", "revoke", "reuse", "logout"} =>
         r.token \in Token /\ T[r.token].status # "absent"
    /\ r.step = "revoke" => \E y \in Token : T[y].parent = r.token

SessionRequestsOK ==
    /\ sreq \in [SessionSlot -> SessionRow]
    /\ \A s \in SessionSlot : SessionRequestOK(sreq[s], tokens)

SessionInv ==
    /\ registered \in BOOLEAN /\ expired \in SUBSET Token /\ closed \in SUBSET Token
    /\ TreeOK(tokens)
    /\ OneLine(tokens)
    /\ OpenLinesLive(tokens, closed)
    /\ SessionRequestsOK

LEMMA SessionInvGivesTypes == SessionInv => SessionsTypeOK
BY DEF SessionInv, TreeOK, TokenTable, SessionRequestsOK, SessionRow, SessionsTypeOK

LEMMA SessionInvInit == SessionsInit => SessionInv
<1> SUFFICES ASSUME SessionsInit PROVE SessionInv
  OBVIOUS
<1>1. TreeOK(tokens)
  BY DEF SessionsInit, TreeOK, TokenTable, NoTokenRow
<1>2. OneLine(tokens)
  <2>1. ASSUME NEW t \in Token PROVE Reached(tokens, t) = {t}
    <3>1. Above(tokens, {t}) \subseteq {t}
      BY DEF SessionsInit, NoTokenRow, Above
    <3> QED
      BY <1>1, <3>1, ReachedIsClosed, ReachedIsLeast DEF TreeOK
  <2>2. \A t \in Token : tokens[t].parent = NoToken
    BY DEF SessionsInit, NoTokenRow
  <2> QED
    BY <2>1, <2>2 DEF OneLine, Heads
<1>3. OpenLinesLive(tokens, closed)
  BY DEF SessionsInit, NoTokenRow, OpenLinesLive
<1>4. SessionRequestsOK
  BY DEF SessionsInit, SessionRequestsOK, SessionRequestOK, SessionRow, IdleSessionRequest
<1> QED
  BY <1>1, <1>2, <1>3, <1>4 DEF SessionInv, SessionsInit

\* Rows are added and revoked, never taken away or moved.
Grows(T, U) ==
    \A t \in Token : /\ T[t].status # "absent" => U[t].status # "absent"
                     /\ T[t].parent # NoToken => U[t].parent = T[t].parent

LEMMA SessionRequestStays ==
  ASSUME NEW T, NEW U, Grows(T, U), NEW r, SessionRequestOK(r, T)
  PROVE  SessionRequestOK(r, U)
BY SessionsAssumption DEF Grows, SessionRequestOK

LEMMA SessionRequestMoves ==
  ASSUME SessionRequestsOK, Grows(tokens, tokens'), NEW s \in SessionSlot,
         NEW r, SessionRequestOK(r, tokens'), sreq' = [sreq EXCEPT ![s] = r]
  PROVE  SessionRequestsOK'
<1>1. sreq' \in [SessionSlot -> SessionRow]
  BY DEF SessionRequestsOK, SessionRequestOK
<1>2. ASSUME NEW u \in SessionSlot PROVE SessionRequestOK(sreq'[u], tokens')
  <2>1. CASE u = s
    BY <2>1 DEF SessionRequestsOK
  <2>2. CASE u # s
    BY <2>2, SessionRequestStays DEF SessionRequestsOK
  <2> QED
    BY <2>1, <2>2
<1> QED
  BY <1>1, <1>2 DEF SessionRequestsOK

LEMMA IdleSessionIsOK == ASSUME NEW T PROVE SessionRequestOK(IdleSessionRequest, T)
BY DEF SessionRequestOK, SessionRow, IdleSessionRequest

\* Revoking leaves every line with its leaf, but for those that are closed.
LEMMA RevokeMoves ==
  ASSUME SessionInv, NEW X \in SUBSET Token, tokens' = Revoked(X),
         closed' \in SUBSET Token, closed \subseteq closed',
         \A x \in X, r \in Token : Leaf(tokens, x) /\ Heads(tokens, r, x) => r \in closed'
  PROVE  /\ Grows(tokens, tokens') /\ TreeOK(tokens') /\ OneLine(tokens')
         /\ OpenLinesLive(tokens', closed')
<1>0. tokens \in TokenTable
  BY DEF SessionInv, TreeOK
<1>1. tokens' \in TokenTable
  BY <1>0 DEF Revoked, TokenTable
<1>2. \A t \in Token : tokens'[t].parent = tokens[t].parent
  BY <1>0 DEF Revoked, TokenTable
<1>3. \A t \in Token : tokens'[t].status = "absent" <=> tokens[t].status = "absent"
  BY <1>0 DEF Revoked, TokenTable
<1>4. Grows(tokens, tokens')
  BY <1>2, <1>3 DEF Grows
<1>5. TreeOK(tokens')
  BY <1>0, <1>1, <1>2, <1>3 DEF SessionInv, TreeOK, TokenTable
<1>6. \A t \in Token : Reached(tokens', t) = Reached(tokens, t)
  BY <1>0, <1>1, <1>2, ReachedByParents
<1>7. OneLine(tokens')
  BY <1>2, <1>6 DEF SessionInv, OneLine, Heads
<1>8. OpenLinesLive(tokens', closed')
  <2>1. ASSUME NEW r \in Token, tokens[r].status # "absent", tokens[r].parent = NoToken,
               r \notin closed'
        PROVE  \E x \in Token : r \in Reached(tokens, x) /\ Leaf(tokens', x)
    <3>1. PICK x \in Token : r \in Reached(tokens, x) /\ Leaf(tokens, x)
      BY <2>1 DEF SessionInv, OpenLinesLive
    <3>2. x \notin X
      BY <2>1, <3>1 DEF Heads
    <3>3. tokens'[x].status = "live"
      BY <3>1, <3>2 DEF Revoked, Leaf
    <3> QED
      BY <1>2, <3>1, <3>3 DEF Leaf
  <2> QED
    BY <1>2, <1>3, <1>6, <2>1 DEF OpenLinesLive
<1> QED
  BY <1>4, <1>5, <1>7, <1>8

LEMMA LineIsTheHead ==
  ASSUME TreeOK(tokens), OneLine(tokens), NEW t \in Token
  PROVE  /\ Line(t) \in Token /\ Heads(tokens, Line(t), t)
         /\ \A r \in Token : Heads(tokens, r, t) => r = Line(t)
<1>1. Ancestors(t) = Reached(tokens, t) /\ Reached(tokens, t) \subseteq Token
  BY AncestorsAreReached, ReachedIsClosed DEF TreeOK
<1>2. PICK r \in Token : Heads(tokens, r, t) /\ \A q \in Token : Heads(tokens, q, t) => q = r
  BY DEF OneLine
<1>3. \E q \in Ancestors(t) : tokens[q].parent = NoToken
  BY <1>1, <1>2 DEF Heads
<1>4. Line(t) \in Ancestors(t) /\ tokens[Line(t)].parent = NoToken
  BY <1>3 DEF Line
<1> QED
  BY <1>1, <1>2, <1>4 DEF Heads

\* What a step leaves alone.
LEMMA SessionTablesStay ==
  ASSUME SessionInv, UNCHANGED <<tokens, closed>>, registered' \in BOOLEAN,
         expired' \in SUBSET Token, SessionRequestsOK'
  PROVE  SessionInv'
BY DEF SessionInv

LEMMA SessionBegins ==
  ASSUME SessionInv, NEW s \in SessionSlot, NEW r, SessionRequestOK(r, tokens),
         sreq' = [sreq EXCEPT ![s] = r],
         UNCHANGED <<tokens, expired, closed>>, registered' \in BOOLEAN
  PROVE  SessionInv'
<1>1. Grows(tokens, tokens') /\ SessionRequestOK(r, tokens')
  BY DEF Grows
<1>2. SessionRequestsOK'
  BY <1>1, SessionRequestMoves DEF SessionInv
<1> QED
  BY <1>2, SessionTablesStay DEF SessionInv

LEMMA SessionRevokes ==
  ASSUME SessionInv, NEW s \in SessionSlot, NEW X \in SUBSET Token, tokens' = Revoked(X),
         closed' \in SUBSET Token, closed \subseteq closed',
         \A x \in X, r \in Token : Leaf(tokens, x) /\ Heads(tokens, r, x) => r \in closed',
         EndSession(s), UNCHANGED <<registered, expired>>
  PROVE  SessionInv'
<1>1. /\ Grows(tokens, tokens') /\ TreeOK(tokens') /\ OneLine(tokens')
      /\ OpenLinesLive(tokens', closed')
  BY RevokeMoves
<1>2. SessionRequestsOK'
  BY <1>1, SessionRequestMoves, IdleSessionIsOK DEF SessionInv, EndSession
<1> QED
  BY <1>1, <1>2 DEF SessionInv

\* A login starts a line of its own.
LEMMA IssueKeepsInv ==
  ASSUME SessionInv, NEW s \in SessionSlot, NEW t \in Token, IssueTokens(s, t)
  PROVE  SessionInv'
<1>1. tokens \in TokenTable /\ tokens[t] = NoTokenRow
  BY DEF SessionInv, TreeOK, IssueTokens
<1>2. tokens' = [tokens EXCEPT ![t] = [status |-> "live", parent |-> NoToken]]
  <2>1. [tokens[t] EXCEPT !.status = "live"] = [status |-> "live", parent |-> NoToken]
    BY <1>1 DEF NoTokenRow
  <2>2. tokens' = [tokens EXCEPT ![t] = [tokens[t] EXCEPT !.status = "live"]]
    BY DEF IssueTokens
  <2> QED
    BY <2>1, <2>2
<1>3. tokens' \in TokenTable /\ \A u \in Token : tokens'[u].parent = tokens[u].parent
  BY <1>1, <1>2 DEF TokenTable, NoTokenRow
<1>4. /\ tokens'[t].status = "live"
      /\ \A u \in Token \ {t} : tokens'[u].status = tokens[u].status
  BY <1>1, <1>2 DEF TokenTable
<1>5. Grows(tokens, tokens')
  BY <1>3, <1>4 DEF Grows
<1>6. TreeOK(tokens')
  BY <1>1, <1>3, <1>4 DEF SessionInv, TreeOK, TokenTable, NoTokenRow
<1>7. \A u \in Token : Reached(tokens', u) = Reached(tokens, u)
  BY <1>1, <1>3, ReachedByParents
<1>8. OneLine(tokens')
  BY <1>3, <1>7 DEF SessionInv, OneLine, Heads
<1>9. OpenLinesLive(tokens', closed')
  <2>1. ASSUME NEW r \in Token, tokens'[r].status # "absent", tokens[r].parent = NoToken,
               r \notin closed
        PROVE  \E x \in Token : r \in Reached(tokens, x) /\ Leaf(tokens', x)
    <3>1. CASE r = t
      <4>1. t \in Reached(tokens, t)
        BY <1>1, ReachedIsClosed
      <4>2. \A y \in Token : tokens[y].parent # t
        BY <1>1, SessionsAssumption DEF SessionInv, TreeOK, NoTokenRow
      <4> QED
        BY <1>3, <1>4, <3>1, <4>1, <4>2 DEF Leaf
    <3>2. CASE r # t
      <4>1. PICK x \in Token : r \in Reached(tokens, x) /\ Leaf(tokens, x)
        BY <1>4, <2>1, <3>2 DEF SessionInv, OpenLinesLive
      <4>2. x # t
        BY <1>1, <4>1 DEF Leaf, NoTokenRow
      <4> QED
        BY <1>3, <1>4, <4>1, <4>2 DEF Leaf
    <3> QED
      BY <3>1, <3>2
  <2> QED
    BY <1>3, <1>7, <2>1 DEF OpenLinesLive, IssueTokens
<1>10. SessionRequestsOK'
  BY <1>5, SessionRequestMoves, IdleSessionIsOK DEF SessionInv, IssueTokens, EndSession
<1> QED
  BY <1>6, <1>8, <1>9, <1>10 DEF SessionInv, IssueTokens

\* A refresh adds a leaf to its line.
LEMMA MintKeepsInv ==
  ASSUME SessionInv, NEW s \in SessionSlot, NEW c \in Token, MintChild(s, c)
  PROVE  SessionInv'
<1> DEFINE p == sreq[s].token
<1>1. tokens \in TokenTable /\ tokens[c] = NoTokenRow
  BY DEF SessionInv, TreeOK, MintChild
<1>2. p \in Token /\ tokens[p].status # "absent" /\ p # c
  BY <1>1 DEF SessionInv, SessionRequestsOK, SessionRequestOK, MintChild, NoTokenRow
<1>3. tokens' = [tokens EXCEPT ![c] = [status |-> "live", parent |-> p]]
  BY DEF MintChild
<1>4. sreq' = [sreq EXCEPT ![s] = [step |-> "revoke", token |-> p]]
  <2>1. sreq[s] \in SessionRow
    BY DEF SessionInv, SessionRequestsOK
  <2>2. [sreq[s] EXCEPT !.step = "revoke"] = [step |-> "revoke", token |-> p]
    BY <2>1 DEF SessionRow
  <2>3. sreq' = [sreq EXCEPT ![s] = [sreq[s] EXCEPT !.step = "revoke"]]
    BY DEF MintChild, SessionAt
  <2> QED
    BY <2>2, <2>3
<1> HIDE DEF p
<1>5. tokens' \in TokenTable
  BY <1>1, <1>2, <1>3 DEF TokenTable
<1>6. tokens'[c].status = "live" /\ tokens'[c].parent = p
  BY <1>1, <1>3 DEF TokenTable
<1>7. \A u \in Token \ {c} : tokens'[u] = tokens[u]
  BY <1>1, <1>3 DEF TokenTable
<1>8. \A u \in Token : tokens[u].parent # c
  BY <1>1, SessionsAssumption DEF SessionInv, TreeOK, NoTokenRow
<1>9. Grows(tokens, tokens')
  BY <1>1, <1>6, <1>7 DEF Grows, NoTokenRow
<1>10. TreeOK(tokens')
  <2>1. ASSUME NEW u \in Token, tokens'[u].parent # NoToken
        PROVE  tokens'[tokens'[u].parent].status # "absent"
    <3>1. CASE u = c
      BY <1>2, <1>6, <1>7, <3>1
    <3>2. CASE u # c
      <4>1. tokens'[u].parent = tokens[u].parent /\ tokens[u].parent \in Token \ {c}
        BY <1>1, <1>7, <1>8, <2>1, <3>2 DEF TokenTable
      <4> QED
        BY <1>7, <2>1, <4>1, <3>2 DEF SessionInv, TreeOK
    <3> QED
      BY <3>1, <3>2
  <2>2. \A u \in Token : tokens'[u].status = "absent" => tokens'[u].parent = NoToken
    BY <1>6, <1>7 DEF SessionInv, TreeOK
  <2> QED
    BY <1>5, <2>1, <2>2 DEF TreeOK
<1>11. /\ \A t \in Token \ {c} :
            c \notin Reached(tokens, t) /\ Reached(tokens', t) = Reached(tokens, t)
       /\ Reached(tokens', c) = {c} \cup Reached(tokens, p)
  <2>1. \A t \in Token \ {c} : tokens'[t].parent = tokens[t].parent
    BY <1>7
  <2> QED
    BY <1>1, <1>2, <1>5, <1>6, <1>8, <2>1, ReachedWithChild
<1>12. \A t \in Token \ {c}, r \in Token : Heads(tokens', r, t) <=> Heads(tokens, r, t)
  BY <1>7, <1>11 DEF Heads
<1>13. \A r \in Token : Heads(tokens', r, c) <=> Heads(tokens, r, p)
  BY <1>2, <1>6, <1>7, <1>11, SessionsAssumption DEF Heads
<1>14. OneLine(tokens')
  BY <1>2, <1>12, <1>13 DEF SessionInv, OneLine
<1>15. OpenLinesLive(tokens', closed)
  <2>1. ASSUME NEW r \in Token, tokens'[r].status # "absent", tokens'[r].parent = NoToken,
               r \notin closed
        PROVE  \E x \in Token : r \in Reached(tokens', x) /\ Leaf(tokens', x)
    <3>1. r # c
      BY <1>2, <1>6, <2>1, SessionsAssumption
    <3>2. PICK x \in Token : r \in Reached(tokens, x) /\ Leaf(tokens, x)
      BY <1>7, <2>1, <3>1 DEF SessionInv, OpenLinesLive
    <3>3. x # c
      BY <1>1, <3>2 DEF Leaf, NoTokenRow
    <3>4. CASE x = p
      <4>1. Leaf(tokens', c)
        BY <1>2, <1>6, <1>7, <1>8 DEF Leaf
      <4> QED
        BY <1>11, <3>2, <3>4, <4>1
    <3>5. CASE x # p
      <4>1. Leaf(tokens', x)
        BY <1>6, <1>7, <3>2, <3>3, <3>5 DEF Leaf
      <4> QED
        BY <1>11, <3>2, <3>3, <4>1
    <3> QED
      BY <3>4, <3>5
  <2> QED
    BY <2>1 DEF OpenLinesLive
<1>16. SessionRequestsOK'
  <2> DEFINE r == [step |-> "revoke", token |-> p]
  <2>1. SessionRequestOK(r, tokens')
    BY <1>2, <1>6, <1>7 DEF SessionRequestOK, SessionRow
  <2> HIDE DEF r
  <2>2. sreq' = [sreq EXCEPT ![s] = r]
    BY <1>4 DEF r
  <2> QED
    BY <1>9, <2>1, <2>2, SessionRequestMoves DEF SessionInv
<1> QED
  BY <1>10, <1>14, <1>15, <1>16 DEF SessionInv, MintChild

LEMMA SessionInvStep == SessionInv /\ [SessionsNext]_sessionVars => SessionInv'
<1> SUFFICES ASSUME SessionInv, [SessionsNext]_sessionVars PROVE SessionInv'
  OBVIOUS
<1>0. \A s \in SessionSlot : SessionRequestOK(sreq[s], tokens) /\ sreq[s] \in SessionRow
  BY DEF SessionInv, SessionRequestsOK
<1>1. ASSUME NEW t \in Token, TokenExpires(t) PROVE SessionInv'
  <2>1. SessionRequestsOK'
    BY <1>1 DEF TokenExpires, SessionInv, SessionRequestsOK
  <2> QED
    BY <1>1, <2>1, SessionTablesStay DEF TokenExpires, SessionInv
<1>2. ASSUME NEW s \in SessionSlot, RegisterLoad(s) PROVE SessionInv'
  <2>1. SessionRequestOK([step |-> "register", token |-> NoToken], tokens)
    BY DEF SessionRequestOK, SessionRow
  <2> QED
    BY <1>2, <2>1, SessionBegins DEF RegisterLoad, BeginSession, SessionInv
<1>3. ASSUME NEW s \in SessionSlot, CreateUser(s) PROVE SessionInv'
  <2>1. SessionRequestOK([sreq[s] EXCEPT !.step = "issue"], tokens)
    BY <1>0 DEF SessionRequestOK, SessionRow
  <2>2. sreq' = [sreq EXCEPT ![s] = [sreq[s] EXCEPT !.step = "issue"]]
    BY <1>3 DEF CreateUser, SessionAt
  <2> QED
    BY <1>3, <2>1, <2>2, SessionBegins DEF CreateUser, SessionInv
<1>4. ASSUME NEW s \in SessionSlot, Login(s) PROVE SessionInv'
  <2>1. SessionRequestOK([step |-> "issue", token |-> NoToken], tokens)
    BY DEF SessionRequestOK, SessionRow
  <2> QED
    BY <1>4, <2>1, SessionBegins DEF Login, BeginSession, SessionInv
<1>5. ASSUME NEW s \in SessionSlot, Revoke(s) PROVE SessionInv'
  <2>1. sreq[s].token \in Token /\ ~ Leaf(tokens, sreq[s].token)
    BY <1>0, <1>5 DEF SessionRequestOK, Revoke, Leaf
  <2> QED
    BY <1>5, <2>1, SessionRevokes DEF Revoke, SessionInv
<1>6. ASSUME NEW s \in SessionSlot, RevokeChain(s) PROVE SessionInv'
  <2> DEFINE t == sreq[s].token  X == Ancestors(t) \cup Descendants(t)
  <2>1. t \in Token
    BY <1>0, <1>6 DEF SessionRequestOK, RevokeChain
  <2>2. tokens \in TokenTable
    BY DEF SessionInv, TreeOK
  <2>3. /\ Line(t) \in Token /\ Heads(tokens, Line(t), t)
        /\ \A r \in Token : Heads(tokens, r, t) => r = Line(t)
    BY <2>1, LineIsTheHead DEF SessionInv
  <2>4. Ancestors(t) = Reached(tokens, t) /\ Reached(tokens, t) \subseteq Token
    BY <2>1, <2>2, AncestorsAreReached, ReachedIsClosed
  <2>5. ASSUME NEW x \in X, NEW r \in Token, Heads(tokens, r, x) PROVE r = Line(t)
    <3>1. CASE x \in Ancestors(t)
      <4>1. Reached(tokens, x) \subseteq Reached(tokens, t)
        BY <2>1, <2>2, <2>4, <3>1, ReachedIsTransitive
      <4> QED
        BY <2>3, <2>5, <4>1 DEF Heads
    <3>2. CASE x \in Descendants(t)
      <4>1. x \in Token /\ t \in Reached(tokens, x)
        BY <3>2, AncestorsAreReached DEF Descendants
      <4>2. Heads(tokens, Line(t), x)
        BY <2>2, <2>3, <4>1, ReachedIsTransitive DEF Heads
      <4> QED
        BY <2>3, <2>5, <4>1, <4>2 DEF SessionInv, OneLine
    <3> QED
      BY <3>1, <3>2
  <2>6. X \in SUBSET Token
    BY <2>4 DEF Descendants
  <2>7. /\ tokens' = Revoked(X) /\ closed' = closed \cup {Line(t)}
        /\ EndSession(s) /\ UNCHANGED <<registered, expired>>
    BY <1>6 DEF RevokeChain
  <2> HIDE DEF X, t
  <2>8. closed' \in SUBSET Token /\ closed \subseteq closed'
    BY <2>3, <2>7 DEF SessionInv
  <2>9. \A x \in X, r \in Token : Leaf(tokens, x) /\ Heads(tokens, r, x) => r \in closed'
    BY <2>5, <2>7
  <2> QED
    BY <2>6, <2>7, <2>8, <2>9, SessionRevokes
<1>7. ASSUME NEW s \in SessionSlot, Logout(s) PROVE SessionInv'
  <2> DEFINE t == sreq[s].token
  <2>1. t \in Token
    BY <1>0, <1>7 DEF SessionRequestOK, Logout
  <2>2. Line(t) \in Token /\ \A r \in Token : Heads(tokens, r, t) => r = Line(t)
    BY <2>1, LineIsTheHead DEF SessionInv
  <2>3. /\ tokens' = Revoked({t}) /\ closed' = closed \cup {Line(t)}
        /\ EndSession(s) /\ UNCHANGED <<registered, expired>>
    BY <1>7 DEF Logout
  <2> HIDE DEF t
  <2>4. closed' \in SUBSET Token /\ closed \subseteq closed' /\ {t} \in SUBSET Token
    BY <2>1, <2>2, <2>3 DEF SessionInv
  <2> QED
    BY <2>2, <2>3, <2>4, SessionRevokes
<1>8. ASSUME NEW s \in SessionSlot, SessionRequestFails(s) PROVE SessionInv'
  BY <1>8, SessionBegins, IdleSessionIsOK DEF SessionRequestFails, EndSession, SessionInv
<1>9. ASSUME NEW s \in SessionSlot, NEW t \in Token, IssueTokens(s, t) PROVE SessionInv'
  BY <1>9, IssueKeepsInv
<1>10. ASSUME NEW s \in SessionSlot, NEW t \in Token, FindToken(s, t) PROVE SessionInv'
  <2>1. ASSUME NEW step \in {"reuse", "mint"}
        PROVE  SessionRequestOK([step |-> step, token |-> t], tokens)
    BY <1>10 DEF SessionRequestOK, SessionRow, FindToken
  <2> QED
    BY <1>10, <2>1, SessionBegins DEF FindToken, BeginSession, SessionInv
<1>11. ASSUME NEW s \in SessionSlot, NEW t \in Token, MintChild(s, t) PROVE SessionInv'
  BY <1>11, MintKeepsInv
<1>12. ASSUME NEW s \in SessionSlot, NEW t \in Token, LogoutLoad(s, t) PROVE SessionInv'
  <2>1. SessionRequestOK([step |-> "logout", token |-> t], tokens)
    BY <1>12 DEF SessionRequestOK, SessionRow, LogoutLoad
  <2> QED
    BY <1>12, <2>1, SessionBegins DEF LogoutLoad, BeginSession, SessionInv
<1>13. CASE UNCHANGED sessionVars
  BY <1>13 DEF sessionVars, SessionInv, SessionRequestsOK
<1> QED
  BY <1>1, <1>2, <1>3, <1>4, <1>5, <1>6, <1>7, <1>8, <1>9, <1>10, <1>11, <1>12, <1>13
  DEF SessionsNext

(* Tokens and the requests on them keep their types, and every token comes *)
(* from one login.                                                         *)
THEOREM SessionsTyping == SessionsSpec => []SessionsTypeOK
BY SessionInvInit, SessionInvStep, SessionInvGivesTypes, PTL DEF SessionsSpec

(* However many refreshes of a line overlap, fail or are repeated, a line  *)
(* that was neither logged out of nor given a revoked token keeps a live   *)
(* token: its newest, which no refresh has used, is revoked by nobody.     *)
THEOREM RotationIsSafe == SessionsSpec => []RotationKeepsALiveToken
<1>1. SessionInv => RotationKeepsALiveToken
  <2> SUFFICES ASSUME SessionInv, NEW r \in Lines, r \notin closed PROVE LiveIn(r) # {}
    BY DEF RotationKeepsALiveToken
  <2>1. PICK x \in Token : r \in Reached(tokens, x) /\ Leaf(tokens, x)
    BY DEF SessionInv, OpenLinesLive, Lines
  <2> QED
    BY <2>1, AncestorsAreReached DEF LiveIn, Descendants, Leaf
<1> QED
  BY <1>1, SessionInvInit, SessionInvStep, PTL DEF SessionsSpec

\* A line nobody can revive: none of its tokens is live or being refreshed.
Dead(T, Q, r) ==
    \A x \in Token : r \in Reached(T, x) =>
        /\ T[x].status # "live"
        /\ \A s \in SessionSlot : Q[s].step \in {"mint", "revoke"} => Q[s].token # x

LEMMA DeadIsDead ==
  ASSUME NEW r \in Token
  PROVE  /\ LiveIn(r) = {} /\ InFlightOn(r) = {} <=> Dead(tokens, sreq, r)
         /\ LiveIn(r)' = {} /\ InFlightOn(r)' = {} <=> Dead(tokens', sreq', r)
<1>1. \A x : Ancestors(x) = Reached(tokens, x) /\ Ancestors(x)' = Reached(tokens', x)
  BY AncestorsAreReached, AncestorsAreReachedNext
<1>2. /\ Descendants(r) = {x \in Token : r \in Reached(tokens, x)}
      /\ Descendants(r)' = {x \in Token : r \in Reached(tokens', x)}
  BY <1>1 DEF Descendants
<1>3. LiveIn(r) = {} /\ InFlightOn(r) = {} <=> Dead(tokens, sreq, r)
  BY <1>2 DEF LiveIn, InFlightOn, Dead
<1>4. LiveIn(r)' = {} /\ InFlightOn(r)' = {} <=> Dead(tokens', sreq', r)
  BY <1>2 DEF LiveIn, InFlightOn, Dead
<1> QED
  BY <1>3, <1>4

\* A step that mints nothing and starts no refresh of the line.
LEMMA DeadStays ==
  ASSUME SessionInv, NEW r \in Token, Dead(tokens, sreq, r), tokens' \in TokenTable,
         \A t \in Token : tokens'[t].parent = tokens[t].parent,
         \A t \in Token : tokens'[t].status = "live" =>
            tokens[t].status = "live" \/ ~ (r \in Reached(tokens, t)),
         \A s \in SessionSlot : sreq'[s].step \in {"mint", "revoke"} =>
            \/ sreq[s].step \in {"mint", "revoke"} /\ sreq'[s].token = sreq[s].token
            \/ ~ (r \in Reached(tokens, sreq'[s].token))
  PROVE  Dead(tokens', sreq', r)
<1>1. \A t \in Token : Reached(tokens', t) = Reached(tokens, t)
  BY ReachedByParents DEF SessionInv, TreeOK
<1> QED
  BY <1>1 DEF Dead

\* A refresh of another line.
LEMMA MintKeepsDead ==
  ASSUME SessionInv, NEW r \in Token, Dead(tokens, sreq, r), tokens[r].status # "absent",
         NEW s \in SessionSlot, NEW c \in Token, MintChild(s, c)
  PROVE  Dead(tokens', sreq', r)
<1> DEFINE p == sreq[s].token
<1>1. tokens \in TokenTable /\ tokens[c] = NoTokenRow /\ r # c
  BY DEF SessionInv, TreeOK, MintChild, NoTokenRow
<1>2. p \in Token /\ tokens[p].status # "absent" /\ p # c /\ sreq[s].step = "mint"
  BY <1>1 DEF SessionInv, SessionRequestsOK, SessionRequestOK, MintChild, NoTokenRow
<1>3. tokens' = [tokens EXCEPT ![c] = [status |-> "live", parent |-> p]]
  BY DEF MintChild
<1>4. \A u \in SessionSlot : sreq'[u].token = sreq[u].token /\ (u # s => sreq'[u] = sreq[u])
  BY DEF MintChild, SessionAt, SessionInv, SessionRequestsOK, SessionRow
<1>5. \A u \in SessionSlot : sreq'[u].step \in {"mint", "revoke"} =>
        sreq[u].step \in {"mint", "revoke"}
  BY <1>2, <1>4
<1>6. ~ (r \in Reached(tokens, p))
  BY <1>2 DEF Dead
<1> HIDE DEF p
<1>7. tokens' \in TokenTable
  BY <1>1, <1>2, <1>3 DEF TokenTable
<1>8. tokens'[c].parent = p /\ \A u \in Token \ {c} : tokens'[u] = tokens[u]
  BY <1>1, <1>3 DEF TokenTable
<1>9. \A u \in Token : tokens[u].parent # c
  BY <1>1, SessionsAssumption DEF SessionInv, TreeOK, NoTokenRow
<1>10. /\ \A t \in Token \ {c} : Reached(tokens', t) = Reached(tokens, t)
       /\ Reached(tokens', c) = {c} \cup Reached(tokens, p)
  <2>1. \A t \in Token \ {c} : tokens'[t].parent = tokens[t].parent
    BY <1>8
  <2> QED
    BY <1>1, <1>2, <1>7, <1>8, <1>9, <2>1, ReachedWithChild
<1> QED
  BY <1>1, <1>4, <1>5, <1>6, <1>8, <1>10 DEF Dead

LEMMA DeadStep ==
  ASSUME SessionInv, [SessionsNext]_sessionVars, NEW r \in Token,
         tokens[r].status # "absent", tokens[r].parent = NoToken, Dead(tokens, sreq, r)
  PROVE  Dead(tokens', sreq', r)
<1>0. /\ tokens \in TokenTable /\ sreq \in [SessionSlot -> SessionRow]
      /\ \A X \in SUBSET Token : tokens' = Revoked(X) =>
           /\ tokens' \in TokenTable
           /\ \A t \in Token : tokens'[t].parent = tokens[t].parent
           /\ \A t \in Token : tokens'[t].status = "live" => tokens[t].status = "live"
  BY DEF SessionInv, TreeOK, SessionRequestsOK, Revoked, TokenTable
<1>1. ASSUME UNCHANGED tokens,
             \A s \in SessionSlot : sreq'[s].step \in {"mint", "revoke"} =>
               \/ sreq[s].step \in {"mint", "revoke"} /\ sreq'[s].token = sreq[s].token
               \/ ~ (r \in Reached(tokens, sreq'[s].token))
      PROVE  Dead(tokens', sreq', r)
  BY <1>0, <1>1, DeadStays
<1>2. ASSUME NEW s \in SessionSlot, NEW X \in SUBSET Token, tokens' = Revoked(X),
             EndSession(s)
      PROVE  Dead(tokens', sreq', r)
  <2>1. \A u \in SessionSlot : sreq'[u].step \in {"mint", "revoke"} =>
          sreq[u].step \in {"mint", "revoke"} /\ sreq'[u].token = sreq[u].token
    BY <1>0, <1>2 DEF EndSession, IdleSessionRequest
  <2> QED
    BY <1>0, <1>2, <2>1, DeadStays
<1>3. ASSUME NEW t \in Token, TokenExpires(t) PROVE Dead(tokens', sreq', r)
  BY <1>1, <1>3 DEF TokenExpires
<1>4. ASSUME NEW s \in SessionSlot,
             RegisterLoad(s) \/ CreateUser(s) \/ Login(s) \/ SessionRequestFails(s)
      PROVE  Dead(tokens', sreq', r)
  <2>1. \A u \in SessionSlot : sreq'[u].step \in {"mint", "revoke"} =>
          sreq[u].step \in {"mint", "revoke"} /\ sreq'[u].token = sreq[u].token
    BY <1>0, <1>4 DEF RegisterLoad, CreateUser, Login, SessionRequestFails, BeginSession,
                      SessionAt, EndSession, IdleSessionRequest, SessionRow
  <2> QED
    BY <1>1, <1>4, <2>1 DEF RegisterLoad, CreateUser, Login, SessionRequestFails
<1>5. ASSUME NEW s \in SessionSlot, Revoke(s) PROVE Dead(tokens', sreq', r)
  <2>1. sreq[s].token \in Token
    BY <1>5 DEF Revoke, SessionInv, SessionRequestsOK, SessionRequestOK
  <2> QED
    BY <1>2, <1>5, <2>1 DEF Revoke
<1>6. ASSUME NEW s \in SessionSlot, RevokeChain(s) PROVE Dead(tokens', sreq', r)
  <2>1. sreq[s].token \in Token
    BY <1>6 DEF RevokeChain, SessionInv, SessionRequestsOK, SessionRequestOK
  <2>2. Ancestors(sreq[s].token) \cup Descendants(sreq[s].token) \in SUBSET Token
    BY <1>0, <2>1, AncestorsAreReached, ReachedIsClosed DEF Descendants
  <2> QED
    BY <1>2, <1>6, <2>2 DEF RevokeChain
<1>7. ASSUME NEW s \in SessionSlot, Logout(s) PROVE Dead(tokens', sreq', r)
  <2>1. sreq[s].token \in Token
    BY <1>7 DEF Logout, SessionInv, SessionRequestsOK, SessionRequestOK
  <2> QED
    BY <1>2, <1>7, <2>1 DEF Logout
<1>8. ASSUME NEW s \in SessionSlot, NEW t \in Token, IssueTokens(s, t)
      PROVE  Dead(tokens', sreq', r)
  <2>1. tokens[t] = NoTokenRow /\ r # t
    BY <1>8 DEF IssueTokens, NoTokenRow
  <2>2. tokens' \in TokenTable /\ \A u \in Token : tokens'[u].parent = tokens[u].parent
    BY <1>0, <1>8 DEF IssueTokens, TokenTable
  <2>3. \A u \in Token \ {t} : tokens'[u].status = tokens[u].status
    BY <1>0, <1>8 DEF IssueTokens, TokenTable
  <2>4. ~ (r \in Reached(tokens, t))
    <3>1. Above(tokens, {t}) \subseteq {t}
      BY <2>1 DEF Above, NoTokenRow
    <3> QED
      BY <1>0, <2>1, <3>1, ReachedIsLeast
  <2>5. \A u \in SessionSlot : sreq'[u].step \in {"mint", "revoke"} =>
          sreq[u].step \in {"mint", "revoke"} /\ sreq'[u].token = sreq[u].token
    BY <1>0, <1>8 DEF IssueTokens, EndSession, IdleSessionRequest
  <2> QED
    BY <2>2, <2>3, <2>4, <2>5, DeadStays
<1>9. ASSUME NEW s \in SessionSlot, NEW t \in Token, FindToken(s, t) \/ LogoutLoad(s, t)
      PROVE  Dead(tokens', sreq', r)
  <2>1. \A u \in SessionSlot \ {s} : sreq'[u] = sreq[u]
    BY <1>0, <1>9 DEF FindToken, LogoutLoad, BeginSession
  <2>2. sreq'[s].step \in {"mint", "revoke"} =>
          sreq'[s].token = t /\ tokens[t].status = "live"
    BY <1>0, <1>9 DEF FindToken, LogoutLoad, BeginSession, TokenTable
  <2>3. tokens[t].status = "live" => ~ (r \in Reached(tokens, t))
    BY DEF Dead
  <2> QED
    BY <1>1, <1>9, <2>1, <2>2, <2>3 DEF FindToken, LogoutLoad
<1>10. ASSUME NEW s \in SessionSlot, NEW t \in Token, MintChild(s, t)
       PROVE  Dead(tokens', sreq', r)
  BY <1>10, MintKeepsDead
<1>11. CASE UNCHANGED sessionVars
  BY <1>1, <1>11 DEF sessionVars
<1> QED
  BY <1>3, <1>4, <1>5, <1>6, <1>7, <1>8, <1>9, <1>10, <1>11 DEF SessionsNext

(* A line without a live token stays without one, once the refreshes that  *)
(* had found one are over, for every number of tokens and requests.        *)
THEOREM DeadLinesAreFinal == SessionsSpec => DeadLineStaysDead
<1>1. SessionInv /\ [SessionsNext]_sessionVars =>
        [\A root \in Lines :
           LiveIn(root) = {} /\ InFlightOn(root) = {}
           => LiveIn(root)' = {} /\ InFlightOn(root)' = {}]_sessionVars
  <2> SUFFICES ASSUME SessionInv, [SessionsNext]_sessionVars, NEW r \in Lines,
                      LiveIn(r) = {} /\ InFlightOn(r) = {}
               PROVE  LiveIn(r)' = {} /\ InFlightOn(r)' = {}
    OBVIOUS
  <2>1. r \in Token /\ tokens[r].status # "absent" /\ tokens[r].parent = NoToken
    BY DEF Lines
  <2>2. Dead(tokens, sreq, r)
    BY <2>1, DeadIsDead
  <2>3. Dead(tokens', sreq', r)
    BY <2>1, <2>2, DeadStep
  <2> QED
    BY <2>1, <2>3, DeadIsDead
<1> QED
  BY <1>1, SessionInvInit, SessionInvStep, PTL DEF SessionsSpec, DeadLineStaysDead

-----------------------------------------------------------------------------
(* Spaces and initiatives.                                                 *)

\* Holds in parts P: what a request has seen is still the user's goal.
SeenOK(r, P) ==
    r.step = "insert" => r.seen = NoPart \/ P[r.seen] = [owner |-> r.user, of |-> r.of]

PartRow == [owner : Fellow, of : Initiative] \cup {NoPart}

\* The unique index, and what was answered.
PartsOK(P, T) ==
    /\ P \in [Part -> PartRow]
    /\ T \in [Fellow \X Initiative -> SUBSET Part]
    /\ \A p, q \in Part : P[p] = P[q] /\ P[p] # NoPart => p = q
    /\ \A u \in Fellow, i \in Initiative :
         \A p \in T[<<u, i>>] : P[p] = [owner |-> u, of |-> i]

\* Every join in flight has seen what is there.
SpaceRequestsOK ==
    /\ spreq \in [SpaceSlot -> SpaceRequest]
    /\ \A s \in SpaceSlot : SeenOK(spreq[s], parts)

SpacesInv ==
    /\ \A c \in DOMAIN slugs : c \in Community /\ slugs[c] \in Slug
    /\ roll \in [Space -> SUBSET Fellow]
    /\ initiatives \in [Initiative -> Space \cup {NoPart}]
    /\ PartsOK(parts, told)
    /\ SpaceRequestsOK

LEMMA SpacesInvGivesTypes == SpacesInv => SpacesTypeOK
BY DEF SpacesInv, PartsOK, PartRow, SpaceRequestsOK, SpacesTypeOK

LEMMA NoPartIsNoRow ==
  ASSUME NEW u \in Fellow, NEW i \in Initiative
  PROVE  NoPart # [owner |-> u, of |-> i]
BY SpacesAssumption

LEMMA SpacesInvInit == SpacesInit => SpacesInv
<1> SUFFICES ASSUME SpacesInit PROVE SpacesInv
  OBVIOUS
<1>1. \A c \in DOMAIN slugs : c \in Community /\ slugs[c] \in Slug
  BY DEF SpacesInit
<1>2. roll \in [Space -> SUBSET Fellow]
  BY DEF SpacesInit, Space
<1>3. PartsOK(parts, told)
  BY DEF SpacesInit, PartsOK, PartRow
<1>4. SpaceRequestsOK
  BY DEF SpacesInit, SpaceRequestsOK, SeenOK, SpaceRequest, IdleSpaceRequest
<1> QED
  BY <1>1, <1>2, <1>3, <1>4 DEF SpacesInv, SpacesInit

\* No row of the table is ever changed.
PartsStay == \A p \in Part : parts[p] # NoPart => parts'[p] = parts[p]

LEMMA SpaceRequestMoves ==
  ASSUME SpaceRequestsOK, PartsStay, NEW s \in SpaceSlot, NEW r \in SpaceRequest,
         SeenOK(r, parts'), spreq' = [spreq EXCEPT ![s] = r]
  PROVE  SpaceRequestsOK'
<1>1. spreq' \in [SpaceSlot -> SpaceRequest]
  BY DEF SpaceRequestsOK
<1>2. ASSUME NEW t \in SpaceSlot PROVE SeenOK(spreq'[t], parts')
  <2>1. CASE t = s
    BY <2>1 DEF SpaceRequestsOK
  <2>2. CASE t # s
    <3> DEFINE q == spreq[t]
    <3>1. spreq'[t] = q /\ SeenOK(q, parts) /\ q \in SpaceRequest
      BY <2>2 DEF SpaceRequestsOK
    <3> HIDE DEF q
    <3>2. q.step = "insert" =>
            q.user \in Fellow /\ q.of \in Initiative /\ q.seen \in Part \cup {NoPart}
      BY <3>1 DEF SpaceRequest
    <3>3. q.step = "insert" /\ q.seen # NoPart =>
            parts'[q.seen] = [owner |-> q.user, of |-> q.of]
      BY <3>1, <3>2, NoPartIsNoRow DEF SeenOK, PartsStay
    <3> QED
      BY <3>1, <3>3 DEF SeenOK
  <2> QED
    BY <2>1, <2>2
<1> QED
  BY <1>1, <1>2 DEF SpaceRequestsOK

LEMMA IdleSpaceIsOK ==
  ASSUME NEW P PROVE IdleSpaceRequest \in SpaceRequest /\ SeenOK(IdleSpaceRequest, P)
BY DEF IdleSpaceRequest, SpaceRequest, SeenOK

\* A request that goes on without an answer.
LEMMA SpaceRequestGoesOn ==
  ASSUME SpacesInv, NEW s \in SpaceSlot, NEW r \in SpaceRequest, SeenOK(r, parts),
         SpaceRequestAt(s, r), UNCHANGED <<slugs, roll, initiatives, parts, told>>
  PROVE  SpacesInv'
<1>1. PartsStay /\ SeenOK(r, parts')
  BY DEF PartsStay
<1>2. SpaceRequestsOK'
  BY <1>1, SpaceRequestMoves DEF SpacesInv, SpaceRequestAt
<1> QED
  BY <1>2 DEF SpacesInv

LEMMA SpaceRequestEnds ==
  ASSUME SpacesInv, PartsStay, NEW s \in SpaceSlot, EndSpaceRequest(s)
  PROVE  SpaceRequestsOK'
BY SpaceRequestMoves, IdleSpaceIsOK DEF SpacesInv, EndSpaceRequest, SpaceRequestAt

\* The unique index lets a goal in only where there is none.
LEMMA InsertKeepsParts ==
  ASSUME SpacesInv, NEW s \in SpaceSlot, NEW p \in Part, InsertPart(s, p)
  PROVE  PartsStay /\ PartsOK(parts', told')
<1> DEFINE u == spreq[s].user  i == spreq[s].of
<1>1. u \in Fellow /\ i \in Initiative
  BY DEF InsertPart, SpacesInv, SpaceRequestsOK, SpaceRequest
<1>2. /\ parts' = [parts EXCEPT ![p] = [owner |-> u, of |-> i]]
      /\ told' = [told EXCEPT ![<<u, i>>] = told[<<u, i>>] \cup {p}]
      /\ parts[p] = NoPart /\ PartsOf(u, i) = {}
  BY DEF InsertPart
<1> HIDE DEF u, i
<1>3. PartsOK(parts, told)
  BY DEF SpacesInv
<1>4. parts' \in [Part -> PartRow] /\ told' \in [Fellow \X Initiative -> SUBSET Part]
  BY <1>1, <1>2, <1>3 DEF PartsOK, PartRow
<1>5. /\ parts'[p] = [owner |-> u, of |-> i]
      /\ \A q \in Part \ {p} : parts'[q] = parts[q] /\ parts[q] # [owner |-> u, of |-> i]
  BY <1>2, <1>3 DEF PartsOK, PartsOf
<1>6. PartsStay
  BY <1>2, <1>5 DEF PartsStay
<1>7. \A q, r \in Part : parts'[q] = parts'[r] /\ parts'[q] # NoPart => q = r
  BY <1>3, <1>5 DEF PartsOK
<1>8. ASSUME NEW v \in Fellow, NEW j \in Initiative, NEW q \in told'[<<v, j>>]
      PROVE  parts'[q] = [owner |-> v, of |-> j]
  <2>1. CASE v = u /\ j = i
    <3>1. q \in told[<<u, i>>] \cup {p}
      BY <1>1, <1>2, <1>3, <2>1 DEF PartsOK
    <3>2. q \in told[<<u, i>>] => q \in Part /\ parts[q] = [owner |-> u, of |-> i]
      BY <1>1, <1>3 DEF PartsOK
    <3> QED
      BY <1>5, <2>1, <3>1, <3>2
  <2>2. CASE ~ (v = u /\ j = i)
    <3>1. told'[<<v, j>>] = told[<<v, j>>]
      BY <1>1, <1>2, <1>3, <2>2 DEF PartsOK
    <3>2. q \in Part /\ parts[q] = [owner |-> v, of |-> j]
      BY <1>3, <3>1 DEF PartsOK
    <3> QED
      BY <1>6, <3>2, NoPartIsNoRow DEF PartsStay
  <2> QED
    BY <2>1, <2>2
<1> QED
  BY <1>4, <1>6, <1>7, <1>8 DEF PartsOK

\* An answer names the goal that the request has read or inserted.
LEMMA ReturnKeepsParts ==
  ASSUME SpacesInv, NEW s \in SpaceSlot, ReturnPart(s)
  PROVE  PartsStay /\ PartsOK(parts', told')
<1> DEFINE u == spreq[s].user  i == spreq[s].of  seen == spreq[s].seen
<1>1. u \in Fellow /\ i \in Initiative /\ seen \in Part \cup {NoPart}
  BY DEF ReturnPart, SpacesInv, SpaceRequestsOK, SpaceRequest
<1>2. seen = NoPart \/ parts[seen] = [owner |-> u, of |-> i]
  BY DEF ReturnPart, SpacesInv, SpaceRequestsOK, SeenOK
<1>3. told' = [told EXCEPT ![<<u, i>>] = told[<<u, i>>] \cup ({seen} \ {NoPart})]
      /\ parts' = parts
  BY DEF ReturnPart
<1> HIDE DEF u, i, seen
<1>4. PartsOK(parts, told)
  BY DEF SpacesInv
<1>5. told' \in [Fellow \X Initiative -> SUBSET Part]
  BY <1>1, <1>3, <1>4 DEF PartsOK
<1>6. ASSUME NEW v \in Fellow, NEW j \in Initiative, NEW q \in told'[<<v, j>>]
      PROVE  parts'[q] = [owner |-> v, of |-> j]
  <2>1. CASE v = u /\ j = i
    <3>1. q \in told[<<u, i>>] \cup ({seen} \ {NoPart})
      BY <1>1, <1>3, <1>4, <2>1 DEF PartsOK
    <3> QED
      BY <1>1, <1>2, <1>3, <1>4, <2>1, <3>1 DEF PartsOK
  <2>2. CASE ~ (v = u /\ j = i)
    <3>1. told'[<<v, j>>] = told[<<v, j>>]
      BY <1>1, <1>3, <1>4, <2>2 DEF PartsOK
    <3> QED
      BY <1>3, <1>4, <3>1 DEF PartsOK
  <2> QED
    BY <2>1, <2>2
<1> QED
  BY <1>3, <1>4, <1>5, <1>6 DEF PartsOK, PartsStay

LEMMA SpacesInvStep == SpacesInv /\ [SpacesNext]_spaceVars => SpacesInv'
<1> SUFFICES ASSUME SpacesInv, [SpacesNext]_spaceVars PROVE SpacesInv'
  OBVIOUS
<1> USE DEF SpaceRequest
<1>0. \A s \in SpaceSlot : spreq[s] \in SpaceRequest
  BY DEF SpacesInv, SpaceRequestsOK
<1>1. ASSUME NEW t \in Teamspace, NEW u \in Fellow, TeamspaceChanges(t, u) PROVE SpacesInv'
  <2>1. roll' \in [Space -> SUBSET Fellow]
    BY <1>1 DEF TeamspaceChanges, SpacesInv, Space
  <2>2. SpaceRequestsOK'
    BY <1>1 DEF TeamspaceChanges, SpacesInv, SpaceRequestsOK
  <2> QED
    BY <1>1, <2>1, <2>2 DEF TeamspaceChanges, SpacesInv
<1>2. ASSUME NEW s \in SpaceSlot, NEW u \in Fellow, NEW g \in Slug, CommunityCreateLoad(s, u, g)
      PROVE  SpacesInv'
  BY <1>2, SpaceRequestGoesOn DEF CommunityCreateLoad, SeenOK
<1>3. ASSUME NEW s \in SpaceSlot, NEW u \in Fellow, NEW c \in Community,
             JoinCommunityLoad(s, u, c)
      PROVE  SpacesInv'
  BY <1>3, SpaceRequestGoesOn DEF JoinCommunityLoad, SeenOK, Space
<1>4. ASSUME NEW s \in SpaceSlot, NEW u \in Fellow, NEW sp \in Space,
             InitiativeCreateLoad(s, u, sp)
      PROVE  SpacesInv'
  BY <1>4, SpaceRequestGoesOn DEF InitiativeCreateLoad, SeenOK
<1>5. ASSUME NEW s \in SpaceSlot, NEW u \in Fellow, NEW i \in Initiative, JoinLoad(s, u, i)
      PROVE  SpacesInv'
  BY <1>5, SpaceRequestGoesOn DEF JoinLoad, SeenOK
<1>6. ASSUME NEW s \in SpaceSlot, NEW c \in Community, CreateCommunity(s, c) PROVE SpacesInv'
  <2>1. spreq[s].slug \in Slug /\ spreq[s].user \in Fellow
    BY <1>0, <1>6 DEF CreateCommunity
  <2>2. \A d \in DOMAIN slugs' : d \in Community /\ slugs'[d] \in Slug
    BY <1>6, <2>1 DEF CreateCommunity, SpacesInv
  <2>3. roll' \in [Space -> SUBSET Fellow]
    BY <1>6, <2>1 DEF CreateCommunity, SpacesInv
  <2>4. PartsStay /\ EndSpaceRequest(s)
    BY <1>6 DEF CreateCommunity, PartsStay
  <2>5. SpaceRequestsOK'
    BY <2>4, SpaceRequestEnds
  <2> QED
    BY <1>6, <2>2, <2>3, <2>5 DEF CreateCommunity, SpacesInv
<1>7. ASSUME NEW s \in SpaceSlot, GetCommunityMembership(s) PROVE SpacesInv'
  <2> DEFINE r == [spreq[s] EXCEPT !.step = "add"]
  <2>1. r \in SpaceRequest /\ SeenOK(r, parts)
    BY <1>0, <1>7 DEF GetCommunityMembership, SeenOK
  <2>2. SpaceRequestAt(s, r) \/ SpaceRequestAt(s, IdleSpaceRequest)
    BY <1>7 DEF GetCommunityMembership, EndSpaceRequest
  <2> HIDE DEF r
  <2> QED
    BY <1>7, <2>1, <2>2, SpaceRequestGoesOn, IdleSpaceIsOK DEF GetCommunityMembership
<1>8. ASSUME NEW s \in SpaceSlot, AddMember(s) PROVE SpacesInv'
  <2>1. roll' \in [Space -> SUBSET Fellow]
    BY <1>0, <1>8 DEF AddMember, SpacesInv
  <2>2. PartsStay /\ EndSpaceRequest(s)
    BY <1>8 DEF AddMember, PartsStay
  <2>3. SpaceRequestsOK'
    BY <2>2, SpaceRequestEnds
  <2> QED
    BY <1>8, <2>1, <2>3 DEF AddMember, SpacesInv
<1>9. ASSUME NEW s \in SpaceSlot, NEW i \in Initiative, CreateInitiative(s, i) PROVE SpacesInv'
  <2>1. initiatives' \in [Initiative -> Space \cup {NoPart}]
    BY <1>0, <1>9 DEF CreateInitiative, SpacesInv
  <2>2. PartsStay /\ EndSpaceRequest(s)
    BY <1>9 DEF CreateInitiative, PartsStay
  <2>3. SpaceRequestsOK'
    BY <2>2, SpaceRequestEnds
  <2> QED
    BY <1>9, <2>1, <2>3 DEF CreateInitiative, SpacesInv
<1>10. ASSUME NEW s \in SpaceSlot, CheckSpaceMembership(s) PROVE SpacesInv'
  <2> DEFINE r == [spreq[s] EXCEPT !.step = "join"]
  <2>1. r \in SpaceRequest /\ SeenOK(r, parts)
    BY <1>0, <1>10 DEF CheckSpaceMembership, SeenOK
  <2>2. SpaceRequestAt(s, r) \/ SpaceRequestAt(s, IdleSpaceRequest)
    BY <1>10 DEF CheckSpaceMembership, EndSpaceRequest
  <2> HIDE DEF r
  <2> QED
    BY <1>10, <2>1, <2>2, SpaceRequestGoesOn, IdleSpaceIsOK DEF CheckSpaceMembership
<1>11. ASSUME NEW s \in SpaceSlot, JoinSnapshot(s) PROVE SpacesInv'
  <2> DEFINE u == spreq[s].user  i == spreq[s].of
  <2>1. u \in Fellow /\ i \in Initiative
    BY <1>0, <1>11 DEF JoinSnapshot
  <2>2. PICK seen \in IF PartsOf(u, i) = {} THEN {NoPart} ELSE PartsOf(u, i) :
          SpaceRequestAt(s, [step |-> "insert", user |-> u, of |-> i, seen |-> seen])
    BY <1>11 DEF JoinSnapshot
  <2> DEFINE r == [step |-> "insert", user |-> u, of |-> i, seen |-> seen]
  <2>3. r \in SpaceRequest /\ SeenOK(r, parts)
    BY <2>1, <2>2 DEF SeenOK, PartsOf
  <2>4. SpaceRequestAt(s, r)
    BY <2>2
  <2> HIDE DEF r
  <2> QED
    BY <1>11, <2>3, <2>4, SpaceRequestGoesOn DEF JoinSnapshot
<1>12. ASSUME NEW s \in SpaceSlot, NEW p \in Part, InsertPart(s, p) PROVE SpacesInv'
  <2>1. PartsStay /\ PartsOK(parts', told')
    BY <1>12, InsertKeepsParts
  <2>2. SpaceRequestsOK'
    BY <1>12, <2>1, SpaceRequestEnds DEF InsertPart
  <2> QED
    BY <1>12, <2>1, <2>2 DEF InsertPart, SpacesInv
<1>13. ASSUME NEW s \in SpaceSlot, ReturnPart(s) PROVE SpacesInv'
  <2>1. PartsStay /\ PartsOK(parts', told')
    BY <1>13, ReturnKeepsParts
  <2>2. SpaceRequestsOK'
    BY <1>13, <2>1, SpaceRequestEnds DEF ReturnPart
  <2> QED
    BY <1>13, <2>1, <2>2 DEF ReturnPart, SpacesInv
<1>14. ASSUME NEW s \in SpaceSlot, SpaceRequestFails(s) PROVE SpacesInv'
  BY <1>14, SpaceRequestGoesOn, IdleSpaceIsOK DEF SpaceRequestFails, EndSpaceRequest
<1>15. CASE UNCHANGED spaceVars
  BY <1>15 DEF spaceVars, SpacesInv, SpaceRequestsOK
<1> QED
  BY <1>1, <1>2, <1>3, <1>4, <1>5, <1>6, <1>7, <1>8, <1>9, <1>10, <1>11, <1>12, <1>13,
     <1>14, <1>15
  DEF SpacesNext

(* Communities, spaces, initiatives and joins keep their types.            *)
THEOREM SpacesTyping == SpacesSpec => []SpacesTypeOK
BY SpacesInvInit, SpacesInvStep, SpacesInvGivesTypes, PTL DEF SpacesSpec

LEMMA AtMostOne ==
  ASSUME NEW S, \A x, y \in S : x = y
  PROVE  Cardinality(S) <= 1
<1>1. CASE S = {}
  BY <1>1, FS_EmptySet
<1>2. CASE S # {}
  <2>1. PICK x : S = {x}
    BY <1>2
  <2> QED
    BY <2>1, FS_Singleton
<1> QED
  BY <1>1, <1>2

(* However many joins of a user overlap, fail and are repeated, the user   *)
(* has one goal in an initiative at most, and every answer has named it.   *)
THEOREM JoiningIsIdempotent == SpacesSpec => []OneGoalPerParticipant
<1>1. SpacesInv => OneGoalPerParticipant
  <2> SUFFICES ASSUME SpacesInv, NEW u \in Fellow, NEW i \in Initiative
               PROVE  told[<<u, i>>] \subseteq PartsOf(u, i) /\ Cardinality(PartsOf(u, i)) <= 1
    BY DEF OneGoalPerParticipant
  <2>1. told[<<u, i>>] \subseteq PartsOf(u, i)
    BY DEF SpacesInv, PartsOK, PartsOf
  <2>2. \A p, q \in PartsOf(u, i) : p = q
    BY NoPartIsNoRow DEF SpacesInv, PartsOK, PartsOf
  <2> QED
    BY <2>1, <2>2, AtMostOne
<1> QED
  BY <1>1, SpacesInvInit, SpacesInvStep, PTL DEF SpacesSpec

-----------------------------------------------------------------------------
(* The link to a chat.                                                     *)

PendingRow == [status : {"undrawn", "deleted"}]
              \cup [status : {"pending", "expired"}, user : Account]

LinkRow == [status : {"none"}] \cup [status : {"active", "disconnected"}, chat : Chat]

\* A token that was redeemed is gone for good.
LinkInv ==
    /\ TelegramLinksTypeOK
    /\ \A t \in redeemed : pending[t].status = "deleted"

LEMMA LinkInvInit == TelegramLinksInit => LinkInv
BY DEF TelegramLinksInit, LinkInv, TelegramLinksTypeOK, NoLink, IdleLinkRequest,
       LinkRequest

\* By steps: only a new token, which has never been redeemed, is pending.
LEMMA LinkInvStep == LinkInv /\ [TelegramLinksNext]_linkVars => LinkInv'
<1> SUFFICES ASSUME LinkInv, [TelegramLinksNext]_linkVars PROVE LinkInv'
  OBVIOUS
<1> USE DEF LinkInv, TelegramLinksTypeOK, LinkRequest, IdleLinkRequest
<1>1. ASSUME NEW t \in LinkToken, NEW u \in Account, GenerateToken(t, u) PROVE LinkInv'
  BY <1>1 DEF GenerateToken
<1>2. ASSUME NEW t \in LinkToken, LinkTokenExpires(t) PROVE LinkInv'
  <2>1. [pending[t] EXCEPT !.status = "expired"] \in [status : {"expired"}, user : Account]
    BY <1>2 DEF LinkTokenExpires
  <2>2. pending' = [pending EXCEPT ![t] = [pending[t] EXCEPT !.status = "expired"]]
    BY <1>2 DEF LinkTokenExpires
  <2> QED
    BY <1>2, <2>1, <2>2 DEF LinkTokenExpires
<1>3. ASSUME NEW t \in LinkToken, NEW s \in LinkSlot, NEW c \in Chat,
             RedeemPendingToken(s, t, c)
      PROVE  LinkInv'
  <2>1. pending[t].user \in Account
    BY <1>3 DEF RedeemPendingToken
  <2> QED
    BY <1>3, <2>1 DEF RedeemPendingToken
<1>4. ASSUME NEW u \in Account, DeleteTelegramLink(u) PROVE LinkInv'
  <2>1. [links[u] EXCEPT !.status = "disconnected"]
          \in [status : {"disconnected"}, chat : Chat]
    BY <1>4 DEF DeleteTelegramLink
  <2>2. links' = [links EXCEPT ![u] = [links[u] EXCEPT !.status = "disconnected"]]
    BY <1>4 DEF DeleteTelegramLink
  <2> QED
    BY <1>4, <2>1, <2>2 DEF DeleteTelegramLink
<1>5. ASSUME NEW s \in LinkSlot, CreateTelegramLink(s) PROVE LinkInv'
  <2>1. lreq[s].user \in Account /\ lreq[s].chat \in Chat
    BY <1>5 DEF CreateTelegramLink
  <2> QED
    BY <1>5, <2>1 DEF CreateTelegramLink
<1>6. ASSUME NEW s \in LinkSlot, LinkRequestFails(s) PROVE LinkInv'
  BY <1>6 DEF LinkRequestFails
<1>7. CASE UNCHANGED linkVars
  BY <1>7 DEF linkVars
<1> QED
  BY <1>1, <1>2, <1>3, <1>4, <1>5, <1>6, <1>7 DEF TelegramLinksNext

(* Tokens, links and redemptions in flight keep their types.               *)
THEOREM TelegramLinksTyping == TelegramLinksSpec => []TelegramLinksTypeOK
<1>1. LinkInv => TelegramLinksTypeOK
  BY DEF LinkInv
<1> QED
  BY <1>1, LinkInvInit, LinkInvStep, PTL DEF TelegramLinksSpec

\* What could end a cut-off is a token of the account, live or being redeemed,
\* and a cut-off account has none; the only step that makes one is its own.
LEMMA CutOffStep ==
  ASSUME LinkInv, [TelegramLinksNext]_linkVars, NEW u \in Account, CutOff(u)
  PROVE  CutOff(u)' \/ \E t \in LinkToken : GenerateToken(t, u)
<1> USE DEF CutOff
<1>1. ASSUME NEW t \in LinkToken, NEW v \in Account, GenerateToken(t, v), u # v
      PROVE  CutOff(u)'
  BY <1>1 DEF GenerateToken, LinkInv, TelegramLinksTypeOK
<1>2. ASSUME NEW t \in LinkToken, LinkTokenExpires(t) PROVE CutOff(u)'
  BY <1>2 DEF LinkTokenExpires, LinkInv, TelegramLinksTypeOK
<1>3. ASSUME NEW t \in LinkToken, NEW s \in LinkSlot, NEW c \in Chat,
             RedeemPendingToken(s, t, c)
      PROVE  CutOff(u)'
  <2>1. t \notin redeemed /\ pending[t].user # u
    BY <1>3 DEF RedeemPendingToken, LinkInv
  <2>2. lreq'[s].user # u
    BY <1>3, <2>1 DEF RedeemPendingToken, LinkInv, TelegramLinksTypeOK
  <2> QED
    BY <1>3, <2>2 DEF RedeemPendingToken, LinkInv, TelegramLinksTypeOK
<1>4. ASSUME NEW v \in Account, DeleteTelegramLink(v) PROVE CutOff(u)'
  BY <1>4 DEF DeleteTelegramLink, LinkInv, TelegramLinksTypeOK
<1>5. ASSUME NEW s \in LinkSlot, CreateTelegramLink(s) PROVE CutOff(u)'
  <2>1. lreq[s].user # u
    BY <1>5 DEF CreateTelegramLink
  <2>2. links'[u] = links[u]
    BY <1>5, <2>1 DEF CreateTelegramLink, LinkInv, TelegramLinksTypeOK
  <2> QED
    BY <1>5, <2>2 DEF CreateTelegramLink, LinkInv, TelegramLinksTypeOK, IdleLinkRequest
<1>6. ASSUME NEW s \in LinkSlot, LinkRequestFails(s) PROVE CutOff(u)'
  BY <1>6 DEF LinkRequestFails, LinkInv, TelegramLinksTypeOK, IdleLinkRequest
<1>7. CASE UNCHANGED linkVars
  BY <1>7 DEF linkVars
<1> QED
  BY <1>1, <1>2, <1>3, <1>4, <1>5, <1>6, <1>7 DEF TelegramLinksNext

(* Once an account is disconnected and what was on its way has ended, no   *)
(* old token, repeated update, late request or other account's link brings *)
(* the bot back to it: for every number of accounts, tokens and chats.     *)
THEOREM DisconnectionIsFinal == TelegramLinksSpec => CutOffStaysCutOff
<1>1. LinkInv /\ [TelegramLinksNext]_linkVars =>
        [\A u \in Account : CutOff(u) =>
           CutOff(u)' \/ \E t \in LinkToken : GenerateToken(t, u)]_linkVars
  BY CutOffStep
<1> QED
  BY <1>1, LinkInvInit, LinkInvStep, PTL DEF TelegramLinksSpec, CutOffStaysCutOff

-----------------------------------------------------------------------------
(***************************************************************************)
(* The services together.  MCServices sends requests to one of them, the   *)
(* focus, while the others rest; here it is shown that this adds nothing   *)
(* to what a service can do alone, so that what was proved of each holds   *)
(* in the process.                                                         *)
(***************************************************************************)

\* The steps of one service, with every other at rest.
LEMMA ServiceSteps ==
  ASSUME [ServicesNext]_servicesVars
  PROVE  /\ [CirclesNext]_circleVars
         /\ [ObligationsNext]_dutyVars
         /\ [SessionsNext]_sessionVars
         /\ [PersonalizationNext]_promptVars
         /\ [SpacesNext]_spaceVars
         /\ [TelegramLinksNext]_linkVars
<1>1. CASE UNCHANGED servicesVars
  BY <1>1 DEF servicesVars
<1>2. CASE ServicesNext
  <2>1. DutyFocus => ObligationsNext
    BY DEF DutyFocus, ObligationsNext
  <2> QED
    BY <1>2, <2>1, Zenon DEF ServicesNext
<1> QED
  BY <1>1, <1>2

\* Roles change by requests of the team.
LEMMA RolesChangeByTeam == RolesChange => TeamsNext
BY Zenon DEF RolesChange, TeamsNext, Role

LEMMA TeamSteps == [ServicesNext]_servicesVars => [TeamsNext]_teamVars /\ [AllNext]_allVars
<1> SUFFICES ASSUME [ServicesNext]_servicesVars
             PROVE  [TeamsNext]_teamVars /\ [AllNext]_allVars
  OBVIOUS
<1>1. CASE UNCHANGED <<teamVars, proofVars>>
  BY <1>1 DEF allVars
<1>2. CASE TeamsNext /\ UNCHANGED proofVars
  BY <1>2 DEF AllNext
<1>3. CASE TeamProofNext /\ UNCHANGED teamVars
  BY <1>3 DEF AllNext
<1>4. \/ UNCHANGED <<teamVars, proofVars>>
      \/ TeamsNext /\ UNCHANGED proofVars
      \/ TeamProofNext /\ UNCHANGED teamVars
  <2>1. CASE UNCHANGED servicesVars
    BY <2>1 DEF servicesVars
  <2>2. CASE ServicesNext
    <3>1. \/ SubmissionsNext \/ ReviewsNext \/ \E s \in ProofSlot : ProofRequestFails(s)
          <=> TeamProofNext
      BY DEF TeamProofNext
    <3> QED
      BY <2>2, <3>1, RolesChangeByTeam, Zenon DEF ServicesNext
  <2> QED
    BY <2>1, <2>2
<1> QED
  BY <1>1, <1>2, <1>3, <1>4

\* A team that was formed and proofs that were submitted before the run are
\* such as the invariants of teams and proofs describe.
LEMMA FormedTeamInv == FormedTeam => TeamsInv
<1> SUFFICES ASSUME FormedTeam PROVE TeamsInv
  OBVIOUS
<1>1. /\ lead \in Mate /\ crew \in [Mate -> {"lead", "trusted_approver", "left"}]
      /\ Leads = {lead} /\ archived = FALSE /\ held = {}
      /\ treq = [s \in TeamSlot |-> IdleTeamRequest]
  BY DEF FormedTeam
<1>2. TeamsTypeOK
  BY <1>1 DEF TeamsTypeOK, TeamRequest, IdleTeamRequest, Role, Seat
<1>3. \A s \in TeamSlot : treq[s].step = "idle"
  BY <1>1 DEF IdleTeamRequest
<1>4. \A u \in Mate : crew[u] = "lead" <=> u = lead
  BY <1>1 DEF Leads
<1> QED
  BY <1>1, <1>2, <1>3, <1>4, TeamsAssumption
  DEF TeamsInv, LockedByJoin, PlaceIsFree, OnlyCreatorLeads, LeadIsSafe, ArchivedIsClosed

LEMMA SubmittedProofsInv == SubmittedProofs => ProofInv
<1> SUFFICES ASSUME SubmittedProofs PROVE ProofInv
  OBVIOUS
<1> USE DEF SubmittedProofs
<1>1. \A p \in Proof : proofs[p] = [status |-> "submitted", role |-> "none"]
  BY DEF NoRow
<1>2. TeamProofTypeOK
  BY DEF TeamProofTypeOK, ProofRequest, IdleProofRequest, NoRow
<1> QED
  BY <1>1, <1>2
  DEF ProofInv, DecisionsAreReady, ProofDecisionOnRecord, EntryInOneProof,
      IdleProofRequest, Decided

LEMMA TeamsInitInv == ServicesInit => TeamsInv /\ ProofInv
BY FormedTeamInv, SubmittedProofsInv, InitInv, ProofInitInv DEF ServicesInit

LEMMA PromptTypesStay ==
  PersonalizationTypeOK /\ [PersonalizationNext]_promptVars => PersonalizationTypeOK'
<1> SUFFICES ASSUME PersonalizationTypeOK, [PersonalizationNext]_promptVars
             PROVE  PersonalizationTypeOK'
  OBVIOUS
<1> USE PersonalizationAssumption DEF PersonalizationTypeOK
<1>1. CASE UNCHANGED promptVars
  BY <1>1 DEF promptVars
<1>2. ASSUME NEW state \in {"closed", "open", "later"}, SetBreaker(state)
      PROVE  PersonalizationTypeOK'
  BY <1>2 DEF SetBreaker
<1>3. CASE BreakerExpires
  BY <1>3 DEF BreakerExpires, SetBreaker
<1>4. ASSUME NEW c \in Caller, Ask(c) \/ CheckCircuit(c) \/ Recover(c) \/ CheckBudget(c)
      PROVE  PersonalizationTypeOK'
  BY <1>4 DEF Ask, CheckCircuit, Recover, CheckBudget, CallAt, EndCall, IdleCall
<1>5. ASSUME NEW c \in Caller, Prompt(c) \/ Increment(c) \/ CallFails(c)
      PROVE  PersonalizationTypeOK'
  BY <1>5 DEF Prompt, Increment, CallFails, EndCall, IdleCall
<1>6. ASSUME NEW c \in Caller, TokensMislaid(c)
      PROVE  PersonalizationTypeOK'
  BY <1>6 DEF TokensMislaid, Mislay, EndCall, IdleCall
<1> QED
  BY <1>1, <1>2, <1>3, <1>4, <1>5, <1>6 DEF PersonalizationNext

(* Nothing of a budget or a breaker is of another type, whatever fails.    *)
THEOREM PromptTyping == PersonalizationSpec => []PersonalizationTypeOK
<1>1. PersonalizationInit => PersonalizationTypeOK
  BY PersonalizationAssumption
  DEF PersonalizationInit, PersonalizationTypeOK, IdleCall
<1> QED
  BY <1>1, PromptTypesStay, PTL DEF PersonalizationSpec

(* Every behaviour of the API process, as the run has it, is a behaviour   *)
(* of each of the services that share nothing: what is proved of circles,  *)
(* obligations, sessions, budgets, spaces and links alone holds in it.     *)
THEOREM ServicesRunServices ==
  ServicesSpec => /\ CirclesSpec /\ ObligationsSpec /\ SessionsSpec
                  /\ PersonalizationSpec /\ SpacesSpec /\ TelegramLinksSpec
<1>1. ServicesInit => /\ CirclesInit /\ ObligationsInit /\ SessionsInit
                      /\ PersonalizationInit /\ SpacesInit /\ TelegramLinksInit
  BY DEF ServicesInit, RestingSpaces
<1> QED
  BY <1>1, ServiceSteps, PTL
  DEF ServicesSpec, CirclesSpec, ObligationsSpec, SessionsSpec, PersonalizationSpec,
      SpacesSpec, TelegramLinksSpec

(* Teams and their proofs, which share the roles of the members, keep the  *)
(* invariants of their own proofs also from a team that others formed and  *)
(* from proofs that were submitted before: one lead, and no entry of the   *)
(* daily log in two proofs.                                                *)
THEOREM FormedTeamsGoOn == ServicesSpec => [](OneLead /\ EntryInOneProof)
<1>1. ServicesSpec => [](TeamsInv /\ ProofInv)
  BY TeamsInitInv, TeamSteps, StepInv, ProofStepInv, PTL DEF ServicesSpec
<1>2. TeamsInv /\ ProofInv => OneLead /\ EntryInOneProof
  BY DEF TeamsInv, TeamsTypeOK, OnlyCreatorLeads, OneLead, Leads, ProofInv
<1> QED
  BY <1>1, <1>2, PTL

(* The tables of every service and the requests on them keep their types   *)
(* in all of the run's behaviours.                                         *)
THEOREM ServicesTyping == ServicesSpec => []ServicesTypeOK
<1>1. ServicesSpec => [](TeamsTypeOK /\ TeamProofTypeOK)
  <2>1. TeamsInv /\ ProofInv => TeamsTypeOK /\ TeamProofTypeOK
    BY DEF TeamsInv, ProofInv
  <2> QED
    BY <2>1, TeamsInitInv, TeamSteps, StepInv, ProofStepInv, PTL DEF ServicesSpec
<1> DEFINE Focused == focus \in {"circles", "teams", "submissions", "reviews", "stakes",
                 "milestones", "contracts", "sessions", "prompts", "spaces", "links"}
<1>2. ServicesSpec => []Focused
  <2>1. ServicesInit => Focused
    BY DEF ServicesInit
  <2>2. Focused /\ [ServicesNext]_servicesVars => Focused'
    BY DEF ServicesNext, servicesVars
  <2> QED
    BY <2>1, <2>2, PTL DEF ServicesSpec
<1>3. /\ Focused
      /\ TeamsTypeOK /\ TeamProofTypeOK /\ CirclesTypeOK /\ ObligationsTypeOK
      /\ SessionsTypeOK /\ PersonalizationTypeOK /\ SpacesTypeOK /\ TelegramLinksTypeOK
      => ServicesTypeOK
  BY DEF ServicesTypeOK
<1> HIDE DEF Focused
<1> QED
  BY <1>1, <1>2, <1>3, ServicesRunServices, CirclesTyping, ObligationsTyping,
     SessionsTyping, PromptTyping, SpacesTyping, TelegramLinksTyping, PTL

=============================================================================
