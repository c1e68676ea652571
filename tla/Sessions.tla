------------------------------ MODULE Sessions -------------------------------
(***************************************************************************)
(* An account and its refresh tokens.  Each refresh inserts a child of the *)
(* token it was given and then revokes that token; a token that is given a *)
(* second time takes its line of descent with it.                          *)
(***************************************************************************)
EXTENDS Naturals, FiniteSets

CONSTANTS
    Token,        \* ids of refresh tokens
    SessionSlot,  \* requests of this service that can be in flight
    NoToken       \* NULL

ASSUME SessionsAssumption == IsFiniteSet(Token) /\ NoToken \notin Token

VARIABLES
    registered,   \* the account exists
    tokens,       \* refresh_tokens: parent_id and revoked_at
    expired,      \* tokens past their expires_at
    closed,       \* lines (by their first token) that were logged out of, or
                  \* given a revoked token (history)
    sreq          \* what each in-flight request has read and will do next

sessionVars == <<registered, tokens, expired, closed, sreq>>

NoTokenRow == [status |-> "absent", parent |-> NoToken]

IdleSessionRequest == [step |-> "idle", token |-> NoToken]

SessionsTypeOK ==
    /\ registered \in BOOLEAN
    /\ tokens \in [Token -> [status : {"absent", "live", "revoked"},
                             parent : Token \cup {NoToken}]]
    /\ expired \in SUBSET Token
    /\ closed \in SUBSET Token
    /\ sreq \in [SessionSlot -> [step : {"idle", "register", "issue", "mint",
                                         "revoke", "reuse", "logout"},
                                 token : Token \cup {NoToken}]]

SessionsInit ==
    /\ registered = FALSE
    /\ tokens = [t \in Token |-> NoTokenRow]
    /\ expired = {}
    /\ closed = {}
    /\ sreq = [s \in SessionSlot |-> IdleSessionRequest]

-----------------------------------------------------------------------------
(* Helpers.                                                                *)

BeginSession(s, step, t) ==
    /\ sreq[s].step = "idle"
    /\ sreq' = [sreq EXCEPT ![s] = [step |-> step, token |-> t]]

SessionAt(s, step) == sreq' = [sreq EXCEPT ![s].step = step]

EndSession(s) == sreq' = [sreq EXCEPT ![s] = IdleSessionRequest]

\* parent_id steps up from t, the whole way: recursive in the code's CTE.
Ancestors(t) ==
    LET up[n \in 0..Cardinality(Token)] ==
          IF n = 0 THEN {t}
          ELSE up[n - 1] \cup ({tokens[a].parent : a \in up[n - 1]} \ {NoToken})
    IN  up[Cardinality(Token)]

Descendants(t) == {d \in Token : t \in Ancestors(d)}

Line(t) == CHOOSE root \in Ancestors(t) : tokens[root].parent = NoToken

Revoked(T) ==
    [t \in Token |-> IF t \in T /\ tokens[t].status = "live"
                     THEN [tokens[t] EXCEPT !.status = "revoked"] ELSE tokens[t]]

-----------------------------------------------------------------------------
(* Register and Login.                                                     *)

\* FindByEmail: to register there must be no account, to log in there must.
RegisterLoad(s) ==
    /\ ~ registered
    /\ BeginSession(s, "register", NoToken)
    /\ UNCHANGED <<registered, tokens, expired, closed>>

\* The address is unique: a second insert is an error.
CreateUser(s) ==
    /\ sreq[s].step = "register"
    /\ ~ registered
    /\ registered' = TRUE
    /\ SessionAt(s, "issue")
    /\ UNCHANGED <<tokens, expired, closed>>

Login(s) ==
    /\ registered
    /\ BeginSession(s, "issue", NoToken)
    /\ UNCHANGED <<registered, tokens, expired, closed>>

\* issueTokens: the access session, then the first token of a line.
IssueTokens(s, t) ==
    /\ sreq[s].step = "issue"
    /\ tokens[t] = NoTokenRow
    /\ tokens' = [tokens EXCEPT ![t].status = "live"]
    /\ EndSession(s)
    /\ UNCHANGED <<registered, expired, closed>>

-----------------------------------------------------------------------------
(* Refresh.                                                                *)

\* Mutant: a token that was revoked is taken like any other.
FindTokenTakesRevoked(s, t) ==
    /\ tokens[t].status # "absent"
    /\ t \notin expired
    /\ BeginSession(s, "mint", t)
    /\ UNCHANGED <<registered, tokens, expired, closed>>

\* A revoked token leads to its line being revoked, whether it has expired
\* or not; an expired one is refused.
FindToken(s, t) ==
    /\ tokens[t].status # "absent"
    /\ tokens[t].status = "live" => t \notin expired
    /\ BeginSession(s, IF tokens[t].status = "revoked" THEN "reuse" ELSE "mint", t)
    /\ UNCHANGED <<registered, tokens, expired, closed>>

\* Mutant: the old token is revoked before its child exists.
MintChildRevokesFirst(s, child) ==
    LET t == sreq[s].token IN
    /\ sreq[s].step = "mint"
    /\ tokens[child] = NoTokenRow
    /\ tokens' = IF tokens[t].status = "live" THEN Revoked({t})
                 ELSE [tokens EXCEPT ![child] = [status |-> "live", parent |-> t]]
    /\ SessionAt(s, IF tokens[t].status = "live" THEN "mint" ELSE "revoke")
    /\ UNCHANGED <<registered, expired, closed>>

\* The new access session and the child token: the old one is still good.
MintChild(s, child) ==
    /\ sreq[s].step = "mint"
    /\ tokens[child] = NoTokenRow
    /\ tokens' = [tokens EXCEPT ![child] = [status |-> "live", parent |-> sreq[s].token]]
    /\ SessionAt(s, "revoke")
    /\ UNCHANGED <<registered, expired, closed>>

\* WHERE revoked_at IS NULL
Revoke(s) ==
    /\ sreq[s].step = "revoke"
    /\ tokens' = Revoked({sreq[s].token})
    /\ EndSession(s)
    /\ UNCHANGED <<registered, expired, closed>>

\* One statement over the ancestors and the descendants of the token.
RevokeChain(s) ==
    LET t == sreq[s].token IN
    /\ sreq[s].step = "reuse"
    /\ tokens' = Revoked(Ancestors(t) \cup Descendants(t))
    /\ closed' = closed \cup {Line(t)}
    /\ EndSession(s)
    /\ UNCHANGED <<registered, expired>>

-----------------------------------------------------------------------------

\* Logout: the token that was found live.
LogoutLoad(s, t) ==
    /\ tokens[t].status = "live"
    /\ BeginSession(s, "logout", t)
    /\ UNCHANGED <<registered, tokens, expired, closed>>

Logout(s) ==
    /\ sreq[s].step = "logout"
    /\ tokens' = Revoked({sreq[s].token})
    /\ closed' = closed \cup {Line(sreq[s].token)}
    /\ EndSession(s)
    /\ UNCHANGED <<registered, expired>>

TokenExpires(t) ==
    /\ tokens[t].status # "absent" /\ t \notin expired
    /\ expired' = expired \cup {t}
    /\ UNCHANGED <<registered, tokens, closed, sreq>>

SessionRequestFails(s) ==
    /\ sreq[s].step # "idle"
    /\ EndSession(s)
    /\ UNCHANGED <<registered, tokens, expired, closed>>

SessionsNext ==
    \/ \E t \in Token : TokenExpires(t)
    \/ \E s \in SessionSlot :
         \/ RegisterLoad(s)
         \/ CreateUser(s)
         \/ Login(s)
         \/ Revoke(s)
         \/ RevokeChain(s)
         \/ Logout(s)
         \/ SessionRequestFails(s)
         \/ \E t \in Token : \/ IssueTokens(s, t)
                             \/ FindToken(s, t)
                             \/ MintChild(s, t)
                             \/ LogoutLoad(s, t)

SessionsSpec == SessionsInit /\ [][SessionsNext]_sessionVars

-----------------------------------------------------------------------------
(* Properties.                                                             *)

Lines == {t \in Token : tokens[t].status # "absent" /\ tokens[t].parent = NoToken}

LiveIn(root) == {t \in Descendants(root) : tokens[t].status = "live"}

InFlightOn(root) ==
    {s \in SessionSlot : sreq[s].step \in {"mint", "revoke"}
                         /\ sreq[s].token \in Descendants(root)}

(* The new pair is minted before the old token is revoked, so a refresh    *)
(* that fails anywhere, or overlaps another one, never burns the only live *)
(* token: a line without one was logged out of, or given a revoked token.  *)
RotationKeepsALiveToken ==
    \A root \in Lines : root \in closed \/ LiveIn(root) # {}

(* A line without a live token stays without one, once the refreshes that  *)
(* had found one are over: only a login starts a new line.                 *)
DeadLineStaysDead ==
    [][\A root \in Lines :
         LiveIn(root) = {} /\ InFlightOn(root) = {}
         => LiveIn(root)' = {} /\ InFlightOn(root)' = {}]_sessionVars

=============================================================================
