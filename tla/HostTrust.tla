------------------------------ MODULE HostTrust ------------------------------
(***************************************************************************)
(* Which SSH host the desktop believes it is talking to.                   *)
(*                                                                         *)
(* The user probes a server, sees the fingerprint its endpoint presented   *)
(* and confirms it; the confirmation carries the probe's one-shot ticket,  *)
(* and the fingerprint is pinned for the endpoint in known_hosts           *)
(* (ipc_router.cpp, host_trust.cpp).  Every SSH session resolves the       *)
(* server's endpoint and its pin first (desktop_target.cpp), looks the     *)
(* host up on a detached thread of a small pool, dials, and compares the   *)
(* key presented with the pin before it sends a credential (ssh.cpp).      *)
(* Router commands are serial on the background lane; sessions of host     *)
(* tools, transfers and terminals run on threads of their own.             *)
(***************************************************************************)
EXTENDS Naturals, Sequences, FiniteSets

CONSTANTS
  Hosts,          \* the configured servers
  Endpoints,      \* host and port pairs
  Keys,           \* host key fingerprints
  Certified,      \* the keys whose certificate the authority signed
  Visitors,       \* threads that open SSH sessions
  RouterLane,     \* the background lane, which probes and checks connections
  Resolvers,      \* kMaxBackgroundResolvers
  MaxProbes,      \* bound: host key probes that are answered
  MaxKeyChanges   \* bound: times an endpoint changes its key

ASSUME HostTrustAssumption ==
  /\ Certified \subseteq Keys /\ Keys # {} /\ Endpoints # {}
  /\ RouterLane \notin Visitors
  /\ Resolvers \in Nat \ {0}
  /\ MaxProbes \in Nat
  /\ MaxKeyChanges \in Nat

NoKey == "none"

\* The trust source of a server with a host certificate authority.
Authority == "authority"

VARIABLES
  endpointOf,   \* servers.host and servers.port
  authorities,  \* the servers with a host certificate authority configured
  presents,     \* the key each endpoint really presents
  pins,         \* known_hosts: Endpoints -> Keys \cup {NoKey}
  issued,       \* the probes answered: what the user was shown, in order
  heldTickets,      \* probe_tickets_: indices of issued that are still held
  overdue,      \* the held tickets whose five minutes are over
  confirmed,    \* the pairs of endpoint and key the user has confirmed
  visit,        \* per thread, the SSH session it is establishing
  resolving,    \* active_background_resolvers()
  lingering,       \* resolver threads whose caller gave up on them
  leaving,      \* resolver threads with a result that still hold their slot
  status,       \* servers.status
  changes       \* key changes so far

settingVars == <<endpointOf, authorities>>
worldVars == <<presents, changes>>
probeVars == <<issued, heldTickets, overdue, confirmed>>
resolverVars == <<resolving, lingering, leaving>>

trustVars == <<settingVars, worldVars, probeVars, resolverVars, pins, visit,
               status>>

Callers == Visitors \cup {RouterLane}

NoVisit == [at |-> "idle", kind |-> "none", host |-> "none",
            endpoint |-> "none", pin |-> NoKey, key |-> NoKey]

HostTrustInit ==
  /\ endpointOf = [h \in Hosts |-> CHOOSE e \in Endpoints : TRUE]
  /\ authorities = {}
  /\ presents = [e \in Endpoints |-> CHOOSE k \in Keys : TRUE]
  /\ pins = [e \in Endpoints |-> NoKey]
  /\ issued = <<>>
  /\ heldTickets = {} /\ overdue = {} /\ confirmed = {}
  /\ visit = [v \in Callers |-> NoVisit]
  /\ resolving = 0 /\ lingering = 0 /\ leaving = 0
  /\ status = [h \in Hosts |-> "disconnected"]
  /\ changes = 0

LaneFree == visit[RouterLane].at = "idle"

(***************************************************************************)
(* What changes around the desktop.                                        *)
(***************************************************************************)
\* The endpoint is rebuilt, or another machine answers at its address.
KeyChanges(e, k) ==
  /\ changes < MaxKeyChanges
  /\ presents[e] # k
  /\ presents' = [presents EXCEPT ![e] = k]
  /\ changes' = changes + 1
  /\ UNCHANGED <<settingVars, probeVars, resolverVars, pins, visit, status>>

TicketExpires(i) ==
  /\ i \in heldTickets \ overdue
  /\ overdue' = overdue \cup {i}
  /\ UNCHANGED <<settingVars, worldVars, resolverVars, pins, issued, heldTickets,
                 confirmed, visit, status>>

\* server_update points the server at another endpoint, or removes or adds its
\* authority; pins, tickets and sessions under way are left alone.
server_update(h, e, ca) ==
  /\ LaneFree
  /\ endpointOf' = [endpointOf EXCEPT ![h] = e]
  /\ authorities' = IF ca THEN authorities \cup {h} ELSE authorities \ {h}
  /\ UNCHANGED <<worldVars, probeVars, resolverVars, pins, visit, status>>

(***************************************************************************)
(* Establishing a session, or only a handshake for a probe.                *)
(***************************************************************************)
\* A probe needs an endpoint; a session also needs a trust source: a
\* configured authority, or a pin for the endpoint as it is now.
build_trust_source(h) ==
  IF h \in authorities THEN Authority ELSE pins[endpointOf[h]]

supports_ssh_service_target(h) ==
  build_trust_source(h) # NoKey

resolve_ssh_service_target(h, kind) ==
  [at |-> "resolve", kind |-> kind, host |-> h, endpoint |-> endpointOf[h],
   pin |-> build_trust_source(h), key |-> NoKey]

resolve_ssh_service_probe_target(h) ==
  [at |-> "resolve", kind |-> "probe", host |-> h, endpoint |-> endpointOf[h],
   pin |-> NoKey, key |-> NoKey]

OpenSession(v, h, kind) ==
  /\ visit[v].at = "idle"
  /\ kind = IF v = RouterLane THEN "check" ELSE "session"
  /\ supports_ssh_service_target(h)
  /\ visit' = [visit EXCEPT ![v] = resolve_ssh_service_target(h, kind)]
  /\ UNCHANGED <<settingVars, worldVars, probeVars, resolverVars, pins,
                 status>>

run_host_key_probe(h) ==
  /\ LaneFree
  /\ Len(issued) < MaxProbes
  /\ visit' = [visit EXCEPT ![RouterLane] = resolve_ssh_service_probe_target(h)]
  /\ UNCHANGED <<settingVars, worldVars, probeVars, resolverVars, pins,
                 status>>

\* A numeric address is dialled at once; a name takes a resolver slot, and
\* without one the session fails as resolver_busy (Fail below).
reserve_resolver_slot == resolving < Resolvers

resolve_address_list(v, numeric) ==
  /\ visit[v].at = "resolve"
  /\ \/ numeric /\ visit' = [visit EXCEPT ![v].at = "dial"]
                /\ UNCHANGED resolving
     \/ /\ ~numeric /\ reserve_resolver_slot
        /\ visit' = [visit EXCEPT ![v].at = "lookup"]
        /\ resolving' = resolving + 1
  /\ UNCHANGED <<settingVars, worldVars, probeVars, pins, lingering, leaving,
                 status>>

\* The resolver thread delivers: the caller goes on, the thread still has to
\* give its slot back.
LookupDone(v) ==
  /\ visit[v].at = "lookup"
  /\ visit' = [visit EXCEPT ![v].at = "dial"]
  /\ leaving' = leaving + 1
  /\ UNCHANGED <<settingVars, worldVars, probeVars, pins, resolving, lingering,
                 status>>

\* The thread of an abandoned lookup comes back and frees its result.
StrayReturns ==
  /\ lingering > 0
  /\ lingering' = lingering - 1 /\ leaving' = leaving + 1
  /\ UNCHANGED <<settingVars, worldVars, probeVars, pins, visit, resolving,
                 status>>

SlotReturned ==
  /\ leaving > 0
  /\ leaving' = leaving - 1 /\ resolving' = resolving - 1
  /\ UNCHANGED <<settingVars, worldVars, probeVars, pins, visit, lingering,
                 status>>

\* connect_socket and the key exchange: whatever answers presents its key.
Handshake(v) ==
  /\ visit[v].at = "dial"
  /\ visit' = [visit EXCEPT ![v].at = "verify",
                            ![v].key = presents[visit[v].endpoint]]
  /\ UNCHANGED <<settingVars, worldVars, probeVars, resolverVars, pins,
                 status>>

\* Mutant of HostKeyVerified: a plain key of an authority's host is compared
\* with nothing.
HostKeyVerifiedPlain(s) ==
  s.pin = Authority \/ s.key = s.pin

\* With an authority only its certificate counts, otherwise only the pin the
\* session resolved before it dialled.
HostKeyVerified(s) ==
  IF s.pin = Authority THEN s.key \in Certified ELSE s.key = s.pin

connect_authenticated(v) ==
  /\ visit[v].at = "verify" /\ visit[v].kind # "probe"
  /\ HostKeyVerified(visit[v])
  /\ visit' = [visit EXCEPT ![v].at = "auth"]
  /\ UNCHANGED <<settingVars, worldVars, probeVars, resolverVars, pins,
                 status>>

\* The password, the private key or the agent's identities are offered and one
\* is accepted.
Authenticated(v) ==
  /\ visit[v].at = "auth"
  /\ visit' = [visit EXCEPT ![v].at = "open"]
  /\ UNCHANGED <<settingVars, worldVars, probeVars, resolverVars, pins,
                 status>>

\* A thread's session is used and closed.
CloseSession(v) ==
  /\ v \in Visitors /\ visit[v].at = "open"
  /\ visit' = [visit EXCEPT ![v] = NoVisit]
  /\ UNCHANGED <<settingVars, worldVars, probeVars, resolverVars, pins,
                 status>>

\* server_connect succeeded: the status is written, or the write fails.
server_connect(wrote) ==
  LET s == visit[RouterLane] IN
  /\ s.kind = "check" /\ s.at = "open"
  /\ status' = IF wrote THEN [status EXCEPT ![s.host] = "connected"] ELSE status
  /\ visit' = [visit EXCEPT ![RouterLane] = NoVisit]
  /\ UNCHANGED <<settingVars, worldVars, probeVars, resolverVars, pins>>

\* The deadline, a busy resolver, an unreachable host, a host key that does not
\* verify, a refused credential.  The resolver thread of a lookup that is
\* given up stays behind; a connection check records the error, when it can.
Fail(v, wrote) ==
  LET s == visit[v] IN
  /\ s.at # "idle"
  /\ visit' = [visit EXCEPT ![v] = NoVisit]
  /\ lingering' = IF s.at = "lookup" THEN lingering + 1 ELSE lingering
  /\ status' = IF s.kind = "check" /\ wrote
                 THEN [status EXCEPT ![s.host] = "error"] ELSE status
  /\ UNCHANGED <<settingVars, worldVars, probeVars, pins, resolving, leaving>>

server_disconnect(h) ==
  /\ LaneFree
  /\ status[h] # "disconnected"
  /\ status' = [status EXCEPT ![h] = "disconnected"]
  /\ UNCHANGED <<settingVars, worldVars, probeVars, resolverVars, pins,
                 visit>>

(***************************************************************************)
(* Probing, confirming, forgetting.                                        *)
(***************************************************************************)
\* A new ticket; the expired ones are swept.
issue_probe_ticket(s) ==
  /\ issued' = Append(issued, [host |-> s.host, endpoint |-> s.endpoint,
                               key |-> s.key])
  /\ heldTickets' = (heldTickets \ overdue) \cup {Len(issued) + 1}
  /\ overdue' = {}

server_host_key_probe ==
  LET s == visit[RouterLane] IN
  /\ s.kind = "probe" /\ s.at = "verify"
  /\ issue_probe_ticket(s)
  /\ visit' = [visit EXCEPT ![RouterLane] = NoVisit]
  /\ UNCHANGED <<settingVars, worldVars, resolverVars, pins, confirmed,
                 status>>

\* Mutant of Claims: the endpoint may have changed since the probe.
ClaimsServer(i, h, k) ==
  /\ i \in heldTickets \ overdue
  /\ issued[i].host = h
  /\ issued[i].key = k

\* claim_probe_ticket: the ticket is spent whatever the outcome.
Claims(i, h, k) ==
  /\ i \in heldTickets \ overdue
  /\ issued[i].host = h
  /\ issued[i].endpoint = endpointOf[h]
  /\ issued[i].key = k

\* Mutant of MayPin: the latest confirmation wins.
MayPinLatest(e, k) == TRUE

\* A pin is never overwritten.
MayPin(e, k) == pins[e] \in {NoKey, k}

\* known_hosts is replaced whole by a rename, or kept.
write_atomic(entries, wrote) == IF wrote THEN entries ELSE pins

pin(e, k, wrote) == write_atomic([pins EXCEPT ![e] = k], wrote)

forget(e, wrote) == write_atomic([pins EXCEPT ![e] = NoKey], wrote)

server_host_key_trust(i, h, k, wrote) ==
  /\ LaneFree
  /\ i \in 1..Len(issued)
  /\ confirmed' = confirmed \cup {<<issued[i].endpoint, issued[i].key>>}
  /\ heldTickets' = heldTickets \ {i} /\ overdue' = overdue \ {i}
  /\ pins' = IF Claims(i, h, k) /\ MayPin(endpointOf[h], k)
               THEN pin(endpointOf[h], k, wrote) ELSE pins
  /\ UNCHANGED <<settingVars, worldVars, resolverVars, issued, visit, status>>

server_host_key_forget(h, wrote) ==
  /\ LaneFree
  /\ pins[endpointOf[h]] # NoKey
  /\ pins' = forget(endpointOf[h], wrote)
  /\ UNCHANGED <<settingVars, worldVars, probeVars, resolverVars, visit,
                 status>>

HostTrustNext ==
  \/ \E e \in Endpoints, k \in Keys : KeyChanges(e, k)
  \/ \E i \in 1..MaxProbes : TicketExpires(i)
  \/ \E h \in Hosts, e \in Endpoints, ca \in BOOLEAN : server_update(h, e, ca)
  \/ \E v \in Callers, h \in Hosts, kind \in {"check", "session"} :
       OpenSession(v, h, kind)
  \/ \E h \in Hosts : run_host_key_probe(h)
  \/ \E v \in Callers, numeric \in BOOLEAN : resolve_address_list(v, numeric)
  \/ \E v \in Callers : LookupDone(v)
  \/ StrayReturns
  \/ SlotReturned
  \/ \E v \in Callers : Handshake(v)
  \/ \E v \in Callers : connect_authenticated(v)
  \/ \E v \in Callers : Authenticated(v)
  \/ \E v \in Callers : CloseSession(v)
  \/ \E wrote \in BOOLEAN : server_connect(wrote)
  \/ \E v \in Callers, wrote \in BOOLEAN : Fail(v, wrote)
  \/ \E h \in Hosts : server_disconnect(h)
  \/ server_host_key_probe
  \/ \E i \in 1..MaxProbes, h \in Hosts, k \in Keys, wrote \in BOOLEAN :
       server_host_key_trust(i, h, k, wrote)
  \/ \E h \in Hosts, wrote \in BOOLEAN : server_host_key_forget(h, wrote)

HostTrustSpec == HostTrustInit /\ [][HostTrustNext]_trustVars

(***************************************************************************)
(* Properties.                                                             *)
(***************************************************************************)
\* Types; the resolver counter counts the resolver threads, abandoned ones
\* included, and respects its limit (ssh.cpp).
HostTrustTypeOK ==
  /\ endpointOf \in [Hosts -> Endpoints]
  /\ authorities \subseteq Hosts
  /\ presents \in [Endpoints -> Keys]
  /\ pins \in [Endpoints -> Keys \cup {NoKey}]
  /\ heldTickets \subseteq 1..Len(issued)
  /\ overdue \subseteq heldTickets
  /\ status \in [Hosts -> {"connected", "disconnected", "error"}]
  /\ resolving = Cardinality({v \in Callers : visit[v].at = "lookup"}) + lingering + leaving
  /\ resolving <= Resolvers

\* A credential is sent only to a host whose key the user confirmed for the
\* very endpoint that was dialled, or whose certificate the configured
\* authority signed: neither an endpoint edited between the probe and the
\* confirmation, a ticket used twice or late, a known_hosts write that failed,
\* nor a host that changes its key while a session is being established gets
\* around the check (claim_probe_ticket, connect_authenticated).
CredentialsGoToConfirmed ==
  \A v \in Callers :
    visit[v].at \in {"auth", "open"} =>
      IF visit[v].pin = Authority
        THEN visit[v].key \in Certified
        ELSE <<visit[v].endpoint, visit[v].key>> \in confirmed

\* A pin is replaced only by way of forgetting it: a second confirmation, of a
\* probe taken before or after the first, never moves it to another key
\* (server_host_key_trust).
PinIsStable ==
  \A e \in Endpoints : pins[e] # NoKey => pins'[e] \in {pins[e], NoKey}

\* Trust in a host is the user's: it is given to one key of one endpoint, moves only by way
\* of forgetting it, and decides who is sent a credential.
TrustIsKept == [][CredentialsGoToConfirmed' /\ PinIsStable]_trustVars
=============================================================================
