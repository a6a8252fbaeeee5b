------------------------------- MODULE OAuth -------------------------------
(***************************************************************************)
(* The OAuth connection of an MCP server: mcp_oauth_connect and            *)
(* mcp_oauth_cancel of the IPC router, and the authorization-code and      *)
(* device-code flows of desktop_oauth.cpp between discovery and the token. *)
(*                                                                         *)
(* Both commands run on the dispatcher's one background lane, in the order *)
(* they were asked.  The loopback listener is a thread of its own, and a   *)
(* browser tab opened by an earlier flow can still call the port: the      *)
(* number of a flow stands for its random `state`, and the code a tab      *)
(* brings back is the number of the flow that opened the tab.  What        *)
(* becomes of the token (store_connected_bundle) is module Secrets.        *)
(***************************************************************************)
EXTENDS Naturals, Sequences

CONSTANTS OAuthServers,     \* MCP servers configured for OAuth over HTTP
          DeviceServers,    \* those configured for the device-code flow
          DpopServers,      \* those configured for DPoP proofs
          MaxConnects,         \* commands waiting on the background lane
          MaxFlows,         \* flows begun: a bound of the model
          MaxDevicePolls,   \* kMaxDevicePolls
          Lifetime,         \* kDeviceMaxLifetimeSeconds, in poll steps
          MaxPause          \* the ceiling of the polling interval

ASSUME OAuthAssumption ==
    /\ DeviceServers \subseteq OAuthServers /\ DpopServers \subseteq OAuthServers
    /\ {MaxConnects, MaxFlows, MaxDevicePolls, Lifetime, MaxPause} \subseteq Nat \ {0}

VARIABLES wanted,      \* the background lane's queue of OAuth commands
          flows,      \* oauth_flows_: servers with a flow in flight
          cancels,    \* servers whose flow's cancel token is set
          flow,       \* the connect command on the lane
          slot,       \* CallbackSlot
          listener,   \* the LoopbackCallback server and its thread
          tabs,       \* flows whose page the browser still shows
          clients,    \* servers whose row holds a client id
          bundles     \* token bundles handed to store_connected_bundle

oauthVars == <<wanted, flows, cancels, flow, slot, listener, tabs, clients, bundles>>

NoFlow == [id |-> 0, server |-> "", at |-> "none", register |-> FALSE, code |-> 0,
           nonce |-> 0, polls |-> 0, pause |-> 0, left |-> 0]
EmptySlot == [ready |-> FALSE, code |-> 0]

OAuthInit ==
    /\ wanted = <<>> /\ flows = {} /\ cancels = {} /\ flow = NoFlow
    /\ slot = EmptySlot /\ listener = "off" /\ tabs = {}
    /\ clients \in SUBSET OAuthServers /\ bundles = {}

At(step) == flow.at = step
Go(step) == flow' = [flow EXCEPT !.at = step]

\* The user asks the window to connect a server, or to stop waiting for it.
AskOAuth(kind, s) ==
    /\ Len(wanted) < MaxConnects
    /\ wanted' = Append(wanted, [kind |-> kind, server |-> s])
    /\ UNCHANGED <<flows, cancels, flow, slot, listener, tabs, clients, bundles>>

\* mcp_oauth_connect registers the flow's cancel token and enters oauth_connect.
mcp_oauth_connect ==
    /\ At("none") /\ wanted # <<>> /\ Head(wanted).kind = "connect"
    /\ flow.id < MaxFlows /\ Head(wanted).server \notin flows
    /\ wanted' = Tail(wanted)
    /\ flows' = flows \union {Head(wanted).server}
    /\ flow' = [NoFlow EXCEPT !.id = flow.id + 1, !.server = Head(wanted).server, !.at = "discover"]
    /\ UNCHANGED <<cancels, slot, listener, tabs, clients, bundles>>

\* mcp_oauth_cancel sets the token of a registered flow, or answers `accepted: false`.
mcp_oauth_cancel ==
    /\ At("none") /\ wanted # <<>> /\ Head(wanted).kind = "cancel"
    /\ wanted' = Tail(wanted)
    /\ cancels' = cancels \union ({Head(wanted).server} \cap flows)
    /\ UNCHANGED <<flows, flow, slot, listener, tabs, clients, bundles>>

\* FlowGuard removes the registry entry however the flow ended.
FlowGuard ==
    /\ At("return")
    /\ flows' = flows \ {flow.server} /\ cancels' = cancels \ {flow.server}
    /\ flow' = [NoFlow EXCEPT !.id = flow.id]
    /\ UNCHANGED <<wanted, slot, listener, tabs, clients, bundles>>

is_cancelled == flow.server \in cancels

\* discover_resource_issuer names the issuer of a row that has none.
discover_resource_issuer ==
    /\ At("discover")
    /\ \E ok \in BOOLEAN : Go(IF ok THEN "metadata" ELSE "return")
    /\ UNCHANGED <<wanted, flows, cancels, slot, listener, tabs, clients, bundles>>

\* authorization_code_flow binds the loopback listener and starts its thread.
authorization_code_flow == listener' = "starting" /\ slot' = EmptySlot

\* discover reads the authorization server's metadata; a device flow also needs
\* the device endpoint in it.
discover ==
    /\ At("metadata")
    /\ \/ Go("return") /\ UNCHANGED <<listener, slot>>
       \/ /\ \E registration \in BOOLEAN :
               flow' = [flow EXCEPT !.register = registration, !.at = "client"]
          /\ IF flow.server \in DeviceServers
             THEN UNCHANGED <<listener, slot>> ELSE authorization_code_flow
    /\ UNCHANGED <<wanted, flows, cancels, tabs, clients, bundles>>

\* listener.thread reaches the accept loop.
ListenerRuns ==
    /\ listener = "starting" /\ listener' = "running"
    /\ UNCHANGED <<wanted, flows, cancels, flow, slot, tabs, clients, bundles>>

\* httplib::Server::stop reaches only a server whose accept loop is running.
Stopped(l) == IF l = "running" THEN "stopped" ELSE l

\* Leaving a flow by an exception: a code flow's listener is stopped and joined.
Leaving == IF listener = "off" THEN "return" ELSE "join"

\* register_client, whose client id persist_oauth saves with the row.
register_client == flow.register

\* resolve_client_id, then resolve_client_auth: no client id and no registration,
\* a refused registration or an unreadable client secret ends the flow.
resolve_client_id ==
    /\ At("client")
    /\ \/ /\ flow.server \in clients \/ register_client
          /\ clients' = clients \union {flow.server}
          /\ Go(IF flow.server \in DeviceServers THEN "device" ELSE "open")
          /\ listener' = listener
       \/ /\ clients' = clients \/ (register_client /\ clients' = clients \union {flow.server})
          /\ Go(Leaving) /\ listener' = Stopped(listener)
    /\ UNCHANGED <<wanted, flows, cancels, slot, tabs, bundles>>

\* open_browser on the authorization URL, which carries this flow's state.
open_browser ==
    /\ At("open")
    /\ \/ /\ tabs' = tabs \union {flow.id} /\ Go("wait") /\ listener' = listener
       \/ /\ tabs' = tabs /\ Go(Leaving) /\ listener' = Stopped(listener)
    /\ UNCHANGED <<wanted, flows, cancels, slot, clients, bundles>>

\* Mutant of CallbackCode: the handler takes the code of any request.
CallbackCodeAny(state, code) == code

\* What the /callback handler makes of a request: a code only with this flow's state.
CallbackCode(state, code) == IF state = flow.id THEN code ELSE 0

\* The handler, for a tab that comes back with a code, or with an error (0).
\* The first request fills the slot; later ones are only answered.
Callback(tab, code) ==
    /\ listener = "running" /\ flow.at \in {"client", "open", "wait"}
    /\ slot' = IF slot.ready THEN slot
               ELSE [ready |-> TRUE, code |-> CallbackCode(tab, code)]
    /\ tabs' = tabs \ {tab}
    /\ UNCHANGED <<wanted, flows, cancels, flow, listener, clients, bundles>>

\* wait_for_callback ends with the slot, a cancellation or the timeout, reads the
\* slot and stops the listener.
wait_for_callback ==
    /\ At("wait")
    /\ flow' = [flow EXCEPT !.at = "join",
                            !.code = IF slot.ready /\ ~is_cancelled THEN slot.code ELSE 0]
    /\ listener' = Stopped(listener)
    /\ UNCHANGED <<wanted, flows, cancels, slot, tabs, clients, bundles>>

\* listener.thread.join, by wait_for_callback or by ~LoopbackCallback.
JoinListener ==
    /\ At("join") /\ listener = "stopped"
    /\ listener' = "off" /\ Go(IF flow.code = 0 THEN "return" ELSE "exchange")
    /\ UNCHANGED <<wanted, flows, cancels, slot, tabs, clients, bundles>>

\* dpop_nonce: a challenge is obeyed once, and only when it is news.
dpop_nonce(challenge) == flow.server \in DpopServers /\ challenge # flow.nonce
post_token_form(challenge, again) ==
    /\ dpop_nonce(challenge)
    /\ flow' = [flow EXCEPT !.nonce = challenge, !.at = again]
    /\ UNCHANGED bundles

\* token_bundle of a response that names an access token of the expected type.
token_bundle(grant) == [flow |-> flow.id, grant |-> grant]

\* finish_token_attempt: the grant becomes a bundle, or the flow fails.
finish_token_attempt(grant) ==
    /\ Go("return")
    /\ bundles' \in {bundles, bundles \union {token_bundle(grant)}}

\* request_token exchanges the code, at most twice.
request_token ==
    /\ \/ At("exchange") /\ (finish_token_attempt(flow.code) \/ \E n \in 1..2 : post_token_form(n, "again"))
       \/ At("again") /\ finish_token_attempt(flow.code)
    /\ UNCHANGED <<wanted, flows, cancels, slot, listener, tabs, clients>>

\* request_device_authorization: a device code with a lifetime and an interval,
\* both clamped.
request_device_authorization(life, pause) ==
    flow' = [flow EXCEPT !.at = "poll", !.left = life, !.pause = pause]

\* device_code_flow up to its polling: the device code, the prompt event and the
\* browser, each of which may fail.
device_code_flow ==
    /\ At("device")
    /\ \/ Go("return")
       \/ \E life \in 1..Lifetime, pause \in 1..MaxPause : request_device_authorization(life, pause)
    /\ UNCHANGED <<wanted, flows, cancels, slot, listener, tabs, clients, bundles>>

Least2(a, b) == IF a < b THEN a ELSE b

\* sleep_or_cancel before a poll, within the budget and the deadline.
sleep_or_cancel ==
    /\ At("poll")
    /\ flow' = IF flow.polls >= MaxDevicePolls \/ flow.left = 0 \/ is_cancelled
               THEN [flow EXCEPT !.at = "return"]
               ELSE [flow EXCEPT !.at = "ask", !.left = @ - Least2(flow.pause, @)]
    /\ UNCHANGED <<wanted, flows, cancels, slot, listener, tabs, clients, bundles>>

\* poll_device_token: pending, slow_down, a refusal, a nonce challenge, or the grant.
poll_device_token ==
    /\ flow.at \in {"ask", "asked"}
    /\ \/ /\ \E pause \in {flow.pause, Least2(flow.pause + 1, MaxPause)} :
               flow' = [flow EXCEPT !.at = "poll", !.polls = @ + 1, !.pause = pause]
          /\ UNCHANGED bundles
       \/ At("ask") /\ \E n \in 1..2 : post_token_form(n, "asked")
       \/ is_cancelled /\ Go("return") /\ UNCHANGED bundles
       \/ ~is_cancelled /\ finish_token_attempt(flow.id)
    /\ UNCHANGED <<wanted, flows, cancels, slot, listener, tabs, clients>>

OAuthNext ==
    \/ \E kind \in {"connect", "cancel"}, s \in OAuthServers : AskOAuth(kind, s)
    \/ mcp_oauth_connect \/ mcp_oauth_cancel \/ FlowGuard
    \/ discover_resource_issuer \/ discover \/ ListenerRuns \/ resolve_client_id \/ open_browser
    \/ \E tab \in tabs : \E code \in {0, tab} : Callback(tab, code)
    \/ wait_for_callback \/ JoinListener \/ request_token
    \/ device_code_flow \/ sleep_or_cancel \/ poll_device_token

OAuthSpec == OAuthInit /\ [][OAuthNext]_oauthVars

----------------------------------------------------------------------------
FlowRecords ==
    [id : 0..MaxFlows, server : OAuthServers \union {""}, register : BOOLEAN,
     at : {"none", "discover", "metadata", "client", "open", "wait", "join", "exchange",
           "again", "device", "poll", "ask", "asked", "return"},
     code : 0..MaxFlows, nonce : 0..2, polls : 0..MaxDevicePolls,
     pause : 0..MaxPause, left : 0..Lifetime]

OAuthTypeOK ==
    /\ wanted \in Seq([kind : {"connect", "cancel"}, server : OAuthServers])
    /\ flows \subseteq OAuthServers /\ cancels \subseteq flows /\ clients \subseteq OAuthServers
    /\ flow \in FlowRecords
    /\ slot \in [ready : BOOLEAN, code : 0..MaxFlows]
    /\ listener \in {"off", "starting", "running", "stopped"}
    /\ tabs \subseteq 1..MaxFlows
    /\ bundles \subseteq [flow : 1..MaxFlows, grant : 1..MaxFlows]

\* A token is obtained only with the consent given to its own flow: a code a
\* browser tab of an earlier, abandoned flow brings back to the listener is never
\* exchanged, whatever order the tabs, the timeout and the lane run in; and a
\* flow gets at most one token.
TokenIsConsented ==
    \A b, c \in bundles : b.grant = b.flow /\ (b.flow = c.flow => b = c)

\* Does not hold (README, section 6): what ipc_router.hpp says of the cancel token,
\* that mcp_oauth_cancel runs on another thread while mcp_oauth_connect waits: no cancel waits behind the flow it
\* is meant to stop.
CancelRunsBesideConnect ==
    \A i \in DOMAIN wanted :
        wanted[i] = [kind |-> "cancel", server |-> flow.server] => flow.at \notin {"wait", "poll"}
=============================================================================
