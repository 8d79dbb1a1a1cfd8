-------------------------- MODULE BrokerConnection --------------------------
(***************************************************************************)
(* The Kernel's connection to Robinhood: OAuth flows, the one encrypted    *)
(* record that holds the tokens AND the account a person confirmed, the    *)
(* transports that refresh the tokens, and the activation that makes the   *)
(* confirmed account the one the process serves.                           *)
(*                                                                         *)
(* The record is a single row of agent_secret.  Every writer reads it,     *)
(* changes its own part and puts the whole row back, and nothing joins the *)
(* read to the write: no transaction, no version, and one mutex per        *)
(* transport while every handler makes a transport of its own.  A client   *)
(* below is one such transport with the request that uses it.              *)
(*                                                                         *)
(* Tokens are numbered in the order the provider issues them.  Time is not *)
(* modelled: a loaded token may turn out fresh or within five minutes of   *)
(* its end.                                                                *)
(***************************************************************************)
EXTENDS Naturals

CONSTANTS
    Clients,    \* requests in flight, each with its own MCP client
    Listed,   \* accounts the provider lists as active and agentic
    Flows,      \* OAuth flows (bound on their number)
    MaxTokens,  \* bound: tokens the provider issues
    Unbound     \* no account

ASSUME ConnectionAssumption == MaxTokens \in Nat /\ Unbound \notin Listed

VARIABLES
    flow,        \* [Flows -> status]: rows of robinhood_oauth_flow
    connection,  \* the stored record; token 0 means there is none
    issued,      \* tokens issued by the provider so far
    served,      \* s.robinhoodAccountID, in memory
    baseline,    \* the account whose snapshot activated M3A, durable
    phase,       \* "starting", "up" or "down": the process
    request,     \* [Clients -> the request in flight]
    newest,      \* history: the token the last token writer stored
    chosen,      \* history: the account the last binding stored
    confirmed,   \* history: every account a person has bound
    crossed,     \* history: some save was based on a record no longer stored
    exchanges    \* history: [Flows -> codes exchanged for the flow]

connectionVars == <<flow, connection, issued, served, baseline, phase, request,
                    newest, chosen, confirmed, crossed, exchanges>>
histories == <<newest, chosen, confirmed, crossed, exchanges>>

NoConnection == [token |-> 0, bound |-> Unbound]
Holder == Listed \cup {Unbound}
Record == [token : 0..MaxTokens, bound : Holder]

NoRequest == [kind |-> "none", at |-> "idle", conn |-> NoConnection,
         base |-> NoConnection, token |-> 0, flow |-> {}, account |-> Unbound]

ConnectionTypeOK ==
    /\ flow \in [Flows -> {"none", "pending", "consumed", "expired"}]
    /\ connection \in Record
    /\ issued \in 0..MaxTokens
    /\ {served, baseline, chosen} \subseteq Holder
    /\ phase \in {"starting", "up", "down"}
    /\ newest \in 0..MaxTokens
    /\ confirmed \subseteq Listed
    /\ crossed \in BOOLEAN
    /\ \A c \in Clients :
        /\ request[c].kind \in {"none", "read", "callback", "bind", "activate", "startup"}
        /\ {request[c].conn, request[c].base} \subseteq Record

-----------------------------------------------------------------------------
\* Startup: activateRobinhood and activateM3AIfNeeded run before anything is served.

Startup(c) == [d \in Clients |-> IF d = c
                                 THEN [NoRequest EXCEPT !.kind = "startup", !.at = "activate"]
                                 ELSE NoRequest]

ConnectionInit ==
    /\ flow = [f \in Flows |-> "none"]
    /\ connection = NoConnection
    /\ issued = 0
    /\ served = Unbound
    /\ baseline = Unbound
    /\ phase = "starting"
    /\ \E c \in Clients : request = Startup(c)
    /\ newest = 0 /\ chosen = Unbound /\ confirmed = {} /\ crossed = FALSE
    /\ exchanges = [f \in Flows |-> 0]

\* The process dies and comes back: requests and the served account are lost.
RestartConnection ==
    /\ served' = Unbound
    /\ phase' = "starting"
    /\ \E c \in Clients : request' = Startup(c)
    /\ UNCHANGED <<flow, connection, issued, baseline, histories>>

-----------------------------------------------------------------------------
\* Helpers: the step of a request, its end, and the whole-record put.

AtStep(c, step) == request[c].at = step /\ phase # "down"
Free(c) == phase = "up" /\ request[c].kind = "none"
Begins(c, new) == request' = [request EXCEPT ![c] = new]
Moves(c, step) == request' = [request EXCEPT ![c].at = step]

\* A finished startup opens the process to requests.
Ends(c) ==
    /\ request' = [request EXCEPT ![c] = NoRequest]
    /\ phase' = IF request[c].kind = "startup" THEN "up" ELSE phase

\* PutAgentSecret: the whole row is replaced by one that was built from read.
Puts(record, read) ==
    /\ connection' = record
    /\ crossed' = (crossed \/ read # connection)

-----------------------------------------------------------------------------
\* OAuth flows.

\* postRobinhoodConnect: the provider registers a client, the flow row is stored.
StartFlow(f) ==
    /\ phase = "up"
    /\ flow[f] = "none"
    /\ flow' = [flow EXCEPT ![f] = "pending"]
    /\ UNCHANGED <<connection, issued, served, baseline, phase, request, histories>>

\* Ten minutes pass: expires_at is no longer in the future.
ExpireFlow(f) ==
    /\ flow[f] = "pending"
    /\ flow' = [flow EXCEPT ![f] = "expired"]
    /\ UNCHANGED <<connection, issued, served, baseline, phase, request, histories>>

\* Mutant: the status is not part of the claim.
ConsumableAgain(f) == flow[f] \in {"pending", "consumed"}

\* The WHERE of ConsumeRobinhoodOAuthFlow.
Consumable(f) == flow[f] = "pending"

\* getRobinhoodCallback, first step: one statement claims the state.  A replayed,
\* expired or unknown state claims nothing and the handler stops.
ConsumeFlow(c, f) ==
    /\ Free(c)
    /\ Consumable(f)
    /\ flow' = [flow EXCEPT ![f] = "consumed"]
    /\ Begins(c, [NoRequest EXCEPT !.kind = "callback", !.at = "exchange", !.flow = {f}])
    /\ UNCHANGED <<connection, issued, served, baseline, phase, histories>>

\* exchangeCode: the provider trades the code for a first token.
ExchangeCode(c) ==
    /\ AtStep(c, "exchange")
    /\ issued < MaxTokens
    /\ issued' = issued + 1
    /\ request' = [request EXCEPT ![c].token = issued + 1, ![c].at = "merge"]
    /\ exchanges' = [f \in Flows |-> exchanges[f] + IF f \in request[c].flow THEN 1 ELSE 0]
    /\ UNCHANGED <<flow, connection, served, baseline, phase, newest, chosen,
                   confirmed, crossed>>

\* The callback reads the record only for the account in it, and takes an error
\* (no record, or a database that did not answer) for an empty binding.
LoadExisting(c) ==
    /\ AtStep(c, "merge")
    /\ \E found \in {connection, NoConnection} :
        request' = [request EXCEPT ![c].conn = found, ![c].at = "store"]
    /\ UNCHANGED <<flow, connection, issued, served, baseline, phase, histories>>

\* Mutant: a new authorization starts from an empty record.
BindingForgotten(c) == Unbound

\* connection.BoundAccountID = existing.BoundAccountID.
BindingKept(c) == request[c].conn.bound

StoreAuthorization(c) ==
    /\ AtStep(c, "store")
    /\ Puts([token |-> request[c].token, bound |-> BindingKept(c)], request[c].conn)
    /\ newest' = request[c].token
    /\ Ends(c)
    /\ UNCHANGED <<flow, issued, served, baseline, chosen, confirmed, exchanges>>

-----------------------------------------------------------------------------
\* StoredTokenTransport.RoundTrip, used by every request that asks the provider.

\* A console read or a served client's call; both need a stored record.
BeginRead(c) ==
    /\ Free(c)
    /\ connection # NoConnection
    /\ Begins(c, [NoRequest EXCEPT !.kind = "read", !.at = "call"])
    /\ UNCHANGED <<flow, connection, issued, served, baseline, phase, histories>>

LoadToken(c) ==
    /\ AtStep(c, "call")
    /\ connection # NoConnection
    /\ request' = [request EXCEPT ![c].token = connection.token, ![c].at = "loaded"]
    /\ UNCHANGED <<flow, connection, issued, served, baseline, phase, histories>>

\* More than five minutes left: the request goes out with the loaded token.
TokenFresh(c) ==
    /\ AtStep(c, "loaded")
    /\ Moves(c, "answered")
    /\ UNCHANGED <<flow, connection, issued, served, baseline, phase, histories>>

\* refreshOAuthToken: the provider issues a token for the loaded one.
RefreshToken(c) ==
    /\ AtStep(c, "loaded")
    /\ issued < MaxTokens
    /\ issued' = issued + 1
    /\ request' = [request EXCEPT ![c].token = issued + 1, ![c].at = "refreshed"]
    /\ UNCHANGED <<flow, connection, served, baseline, phase, histories>>

\* SaveOAuthToken, its read: the record as it is now, for the binding in it.
RereadConnection(c) ==
    /\ AtStep(c, "refreshed")
    /\ connection # NoConnection
    /\ request' = [request EXCEPT ![c].base = connection, ![c].at = "saving"]
    /\ UNCHANGED <<flow, connection, issued, served, baseline, phase, histories>>

\* SaveOAuthToken, its write; the request then goes out and is answered.
SaveToken(c) ==
    /\ AtStep(c, "saving")
    /\ Puts([request[c].base EXCEPT !.token = request[c].token], request[c].base)
    /\ newest' = request[c].token
    /\ Moves(c, "answered")
    /\ UNCHANGED <<flow, issued, served, baseline, phase, chosen, confirmed, exchanges>>

AnswerRead(c) ==
    /\ AtStep(c, "answered")
    /\ request[c].kind = "read"
    /\ Ends(c)
    /\ UNCHANGED <<flow, connection, issued, served, baseline, histories>>

-----------------------------------------------------------------------------
\* postRobinhoodBind: load the record, list the accounts, store, activate.

BeginBind(c) ==
    /\ Free(c)
    /\ connection # NoConnection
    /\ Begins(c, [NoRequest EXCEPT !.kind = "bind", !.at = "call", !.conn = connection])
    /\ UNCHANGED <<flow, connection, issued, served, baseline, phase, histories>>

\* The account is one the provider listed; the record is the one loaded BEFORE
\* the provider was asked.
StoreBinding(c, account) ==
    /\ AtStep(c, "answered")
    /\ request[c].kind = "bind"
    /\ Puts([request[c].conn EXCEPT !.bound = account], request[c].conn)
    /\ chosen' = account
    /\ confirmed' = confirmed \cup {account}
    /\ request' = [request EXCEPT ![c] = [NoRequest EXCEPT !.kind = "activate", !.at = "activate"]]
    /\ UNCHANGED <<flow, issued, served, baseline, phase, newest, exchanges>>

\* activateRobinhood: the record again, then the provider with a client of its own.
BeginActivate(c) ==
    /\ AtStep(c, "activate")
    /\ connection.bound # Unbound
    /\ request' = [request EXCEPT ![c].conn = connection, ![c].at = "call"]
    /\ UNCHANGED <<flow, connection, issued, served, baseline, phase, histories>>

\* The provider confirmed the account: all capabilities are swapped under providerMu.
ServeAccount(c) ==
    /\ AtStep(c, "answered")
    /\ request[c].kind \in {"activate", "startup"}
    /\ served' = request[c].conn.bound
    /\ Moves(c, "marker")
    /\ UNCHANGED <<flow, connection, issued, baseline, phase, histories>>

\* activateM3AIfNeeded: done already, or the snapshot of the account served NOW.
CheckMarker(c) ==
    /\ AtStep(c, "marker")
    /\ IF baseline # Unbound
       THEN Ends(c)
       ELSE /\ request' = [request EXCEPT ![c].account = served, ![c].at = "snapshot"]
            /\ UNCHANGED phase
    /\ UNCHANGED <<flow, connection, issued, served, baseline, histories>>

\* ActivateM3A: under its lock the first snapshot wins, a later one changes nothing.
ActivateM3A(c) ==
    /\ AtStep(c, "snapshot")
    /\ baseline' = IF baseline = Unbound THEN request[c].account ELSE baseline
    /\ Ends(c)
    /\ UNCHANGED <<flow, connection, issued, served, histories>>

\* A provider or database error, a refusal or a deadline at any step: the handler
\* returns.  A failed startup ends the process (live mode, or no baseline) or
\* leaves it up without a provider (read-only).
Abandon(c) ==
    /\ request[c].kind # "none"
    /\ phase # "down"
    /\ request' = [request EXCEPT ![c] = NoRequest]
    /\ phase' \in IF request[c].kind # "startup" THEN {phase}
                  ELSE {"down"} \cup IF request[c].at \in {"marker", "snapshot"} THEN {} ELSE {"up"}
    /\ UNCHANGED <<flow, connection, issued, served, baseline, histories>>

-----------------------------------------------------------------------------
ConnectionStep(c) ==
    \/ \E f \in Flows : ConsumeFlow(c, f)
    \/ ExchangeCode(c) \/ LoadExisting(c) \/ StoreAuthorization(c)
    \/ BeginRead(c) \/ LoadToken(c) \/ TokenFresh(c) \/ RefreshToken(c)
    \/ RereadConnection(c) \/ SaveToken(c) \/ AnswerRead(c)
    \/ BeginBind(c) \/ (\E account \in Listed : StoreBinding(c, account))
    \/ BeginActivate(c) \/ ServeAccount(c) \/ CheckMarker(c) \/ ActivateM3A(c)
    \/ Abandon(c)

ConnectionNext ==
    \/ \E f \in Flows : StartFlow(f) \/ ExpireFlow(f)
    \/ \E c \in Clients : ConnectionStep(c)
    \/ RestartConnection

ConnectionSpec == ConnectionInit /\ [][ConnectionNext]_connectionVars

-----------------------------------------------------------------------------
\* A code is exchanged at most once however often its callback is delivered and
\* however many handlers run; the process serves, and took its baseline from,
\* only accounts a person confirmed; and while every save was built from the
\* record it replaced, the record holds both the last stored token and the last
\* confirmed account, whichever writer came last.
ConnectionSafe ==
    /\ ConnectionTypeOK
    /\ \A f \in Flows : exchanges[f] <= 1
    /\ {served, baseline} \subseteq confirmed \cup {Unbound}
    /\ crossed \/ (connection.token = newest /\ connection.bound = chosen)

=============================================================================
