----------------------------- MODULE TelegramLinks ----------------------------
(***************************************************************************)
(* How an account and a chat come together.  The web API hands its user a  *)
(* token that lives ten minutes; /start with that token redeems it in one  *)
(* statement and links the chat in a second one.  The row of a user is     *)
(* never deleted: disconnecting marks it, linking again overwrites it.     *)
(* Telegram repeats an update that it saw no answer to, so a token can be  *)
(* presented any number of times, also to two requests at once.            *)
(***************************************************************************)
CONSTANTS
    Account,    \* user ids
    Chat,       \* telegram_chat_id
    LinkToken,  \* tokens GenerateToken can draw
    LinkSlot    \* webhook requests that can be in flight

VARIABLES
    pending,   \* telegram_link_pending, by token
    links,     \* telegram_links: the row of each account
    lreq,      \* what each webhook request does next
    redeemed   \* tokens that some request has redeemed (history)

linkVars == <<pending, links, lreq, redeemed>>

NoLink == [status |-> "none"]

IdleLinkRequest == [step |-> "idle"]

LinkRequest ==
    [step : {"idle"}] \cup [step : {"link"}, user : Account, chat : Chat]

TelegramLinksTypeOK ==
    /\ pending \in [LinkToken -> [status : {"undrawn", "deleted"}]
                                \cup [status : {"pending", "expired"}, user : Account]]
    /\ links \in [Account -> [status : {"none"}]
                             \cup [status : {"active", "disconnected"}, chat : Chat]]
    /\ lreq \in [LinkSlot -> LinkRequest]
    /\ redeemed \subseteq LinkToken

TelegramLinksInit ==
    /\ pending = [t \in LinkToken |-> [status |-> "undrawn"]]
    /\ links = [u \in Account |-> NoLink]
    /\ lreq = [s \in LinkSlot |-> IdleLinkRequest]
    /\ redeemed = {}

\* The accounts whose row, active or not, holds the chat: UNIQUE (telegram_chat_id).
Holders(c) == {u \in Account : links[u].status # "none" /\ links[u].chat = c}

-----------------------------------------------------------------------------

\* The settings page asks for a token.
GenerateToken(t, u) ==
    /\ pending[t].status = "undrawn"
    /\ pending' = [pending EXCEPT ![t] = [status |-> "pending", user |-> u]]
    /\ UNCHANGED <<links, lreq, redeemed>>

\* expires_at passes; the row stays.
LinkTokenExpires(t) ==
    /\ pending[t].status = "pending"
    /\ pending' = [pending EXCEPT ![t].status = "expired"]
    /\ UNCHANGED <<links, lreq, redeemed>>

\* Mutant: a token is looked up, and deleted by nobody.
RedeemKeepsToken(s, t, c) ==
    /\ lreq[s].step = "idle"
    /\ pending[t].status = "pending"
    /\ lreq' = [lreq EXCEPT ![s] =
                  [step |-> "link", user |-> pending[t].user, chat |-> c]]
    /\ redeemed' = redeemed \cup {t}
    /\ UNCHANGED <<pending, links>>

\* /start link_<token> in chat c: DELETE ... RETURNING.  Any other token is
\* answered with a refusal and changes nothing.
RedeemPendingToken(s, t, c) ==
    /\ lreq[s].step = "idle"
    /\ pending[t].status = "pending"
    /\ pending' = [pending EXCEPT ![t] = [status |-> "deleted"]]
    /\ lreq' = [lreq EXCEPT ![s] =
                  [step |-> "link", user |-> pending[t].user, chat |-> c]]
    /\ redeemed' = redeemed \cup {t}
    /\ UNCHANGED links

\* The upsert by user; a chat that another account's row holds is an error,
\* and the token is spent all the same.
CreateTelegramLink(s) ==
    /\ lreq[s].step = "link"
    /\ LET r == lreq[s] IN
         IF Holders(r.chat) \subseteq {r.user}
         THEN links' = [links EXCEPT ![r.user] = [status |-> "active", chat |-> r.chat]]
         ELSE UNCHANGED links
    /\ lreq' = [lreq EXCEPT ![s] = IdleLinkRequest]
    /\ UNCHANGED <<pending, redeemed>>

\* DELETE /telegram/link.
DeleteTelegramLink(u) ==
    /\ links[u].status = "active"
    /\ links' = [links EXCEPT ![u].status = "disconnected"]
    /\ UNCHANGED <<pending, lreq, redeemed>>

\* An error of the second statement, or a killed process.
LinkRequestFails(s) ==
    /\ lreq[s].step # "idle"
    /\ lreq' = [lreq EXCEPT ![s] = IdleLinkRequest]
    /\ UNCHANGED <<pending, links, redeemed>>

TelegramLinksNext ==
    \/ \E t \in LinkToken :
         \/ \E u \in Account : GenerateToken(t, u)
         \/ LinkTokenExpires(t)
         \/ \E s \in LinkSlot, c \in Chat : RedeemPendingToken(s, t, c)
    \/ \E u \in Account : DeleteTelegramLink(u)
    \/ \E s \in LinkSlot : CreateTelegramLink(s) \/ LinkRequestFails(s)

TelegramLinksSpec == TelegramLinksInit /\ [][TelegramLinksNext]_linkVars

-----------------------------------------------------------------------------
(* Properties.                                                             *)

\* An account without a link, and without an unredeemed token or a request
\* that could give it one.
CutOff(u) ==
    /\ links[u].status # "active"
    /\ \A t \in LinkToken :
         pending[t].status = "pending" /\ pending[t].user = u => t \in redeemed
    /\ \A s \in LinkSlot : lreq[s].step = "link" => lreq[s].user # u

(* Once an account is disconnected and what was on its way has ended, the  *)
(* bot stays cut off from it until its own user asks for a new token: no   *)
(* token that expired or was redeemed before, no repeated update, no late  *)
(* request and no other account's link reaches it.                         *)
CutOffStaysCutOff ==
    [][\A u \in Account : CutOff(u) =>
         CutOff(u)' \/ \E t \in LinkToken : GenerateToken(t, u)]_linkVars

=============================================================================
