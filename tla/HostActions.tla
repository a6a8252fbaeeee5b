----------------------------- MODULE HostActions -----------------------------
(***************************************************************************)
(* How the desktop host lets an Agent act on a server: the ledger of       *)
(* one-shot approval tickets (in memory), the ledger of tool calls (in the *)
(* database) and the requests that need both.  A ticket is minted by the   *)
(* sidecar's event, answered by the user, consumed by a host worker; the   *)
(* call is claimed before the ticket is consumed and finished by a second  *)
(* request, after the sidecar has run the action.  The host may end at any *)
(* point between, and so may the sidecar.                                  *)
(***************************************************************************)
EXTENDS Naturals, FiniteSets

CONSTANTS
  Offers,        \* sets of calls an Agent makes in one behaviour, with what they are bound to
  ActionWorkers, \* host request workers
  MaxTickets,    \* kMaxTickets
  MaxObserved,   \* kMaxObservedApprovals
  MaxReplays,    \* kMaxHostToolReplayCache
  MaxAsked,      \* bound: approval events in a behaviour
  MaxServed,     \* bound: tool requests in a behaviour
  MaxEnds        \* bound: ends of the host or of its sidecar

ToolCalls == UNION Offers
Calls == {r.call : r \in ToolCalls}
ApprovalIds == {r.approval : r \in ToolCalls}

\* A call: its id (with the trace), its approval id, what it would do, whether it names a task,
\* plan and step, whether it changes anything, and the route it takes.
ASSUME HostActionsAssumption ==
  /\ \A r \in ToolCalls :
       /\ r.plan \in BOOLEAN /\ r.effect \in BOOLEAN
       /\ r.via \in {"service", "execute", "mcp"} /\ (r.via = "service" => r.effect)
       /\ \A q \in ToolCalls : r.action = q.action => r.via = q.via /\ r.effect = q.effect
  /\ Calls \subseteq Nat /\ IsFiniteSet(Calls) /\ Offers # {}
  /\ {MaxTickets, MaxObserved, MaxReplays, MaxAsked, MaxServed, MaxEnds} \subseteq Nat

VARIABLES
  offered,   \* the calls of this behaviour, one of Offers
  tickets,   \* HostApprovalLedger: entries by approval id
  observed,  \* HostApprovalLedger: approvals the sidecar owns, by id
  minting,   \* the reader thread inside record_auto_approved_event, or 0
  answer,    \* the approval response in progress
  calls,     \* the rows of host_tool_calls, by call id
  replays,   \* responses kept in memory, by call id
  worker,    \* what each host worker is in the middle of
  handed,    \* calls whose target was handed to the sidecar
  effects,   \* history: how often each call acted
  granted,   \* history: calls approved by the user or by the run's automatic mode
  replied,   \* history: calls answered from memory as completed
  asked, served, ends

ticketVars == <<tickets, observed, minting, answer, granted, asked>>
callVars == <<calls, replays, replied>>
actionVars == <<offered, ticketVars, callVars, worker, handed, effects, served, ends>>

NoTicket == [phase |-> "none"]
NoCall == [status |-> "none"]
Idle == [at |-> "idle"]
Blocking == {"running", "success", "uncertain"}

HostActionsInit ==
  /\ offered \in Offers
  /\ tickets = [a \in ApprovalIds |-> NoTicket]
  /\ observed = [a \in ApprovalIds |-> "none"]
  /\ minting = Idle /\ answer = Idle
  /\ calls = [c \in Calls |-> NoCall] /\ replays = [c \in Calls |-> "none"]
  /\ worker = [w \in ActionWorkers |-> Idle]
  /\ handed = {} /\ effects = [r \in ToolCalls |-> 0]
  /\ granted = {} /\ replied = {}
  /\ asked = 0 /\ served = 0 /\ ends = 0

----------------------------------------------------------------------------
(* Approval tickets *)

\* Entries past their deadline are dropped before a new one is recorded.
Purged == [a \in ApprovalIds |-> IF tickets[a].phase # "none" /\ tickets[a].late
                                 THEN NoTicket ELSE tickets[a]]
Held(t) == {a \in ApprovalIds : t[a].phase # "none"}

\* record_waiting_event: an id keeps the call it was first bound to; a pending one may be
\* announced again.  Anything else mints nothing, except that expired entries are gone.
record_waiting_event(r) ==
  LET a == r.approval IN
  tickets' = IF Purged[a].phase = "none" /\ Cardinality(Held(Purged)) < MaxTickets
             THEN [Purged EXCEPT ![a] = [phase |-> "pending", call |-> r, late |-> FALSE]]
             ELSE Purged

\* Did the event mint or renew the ticket, so that record_auto_approved_event goes on?
Recorded(r) ==
  LET a == r.approval IN
  \/ Purged[a].phase = "none" /\ Cardinality(Held(Purged)) < MaxTickets
  \/ Purged[a].phase = "pending" /\ Purged[a].call = r

\* The notification sink, for the tools that need a host ticket (is_host_approval_tool_name).
AskApproval(r) ==
  /\ asked < MaxAsked /\ asked' = asked + 1
  /\ minting = Idle /\ r.effect /\ r.via # "mcp"
  /\ record_waiting_event(r)
  /\ UNCHANGED <<observed, minting, answer, granted, callVars, worker, handed, effects, served, ends>>

\* record_auto_approved_event takes the lock twice; this is the first time.
AutoRecord(r) ==
  /\ asked < MaxAsked /\ asked' = asked + 1
  /\ minting = Idle /\ r.effect /\ r.via # "mcp"
  /\ record_waiting_event(r)
  /\ minting' = IF Recorded(r) THEN [at |-> "auto", call |-> r] ELSE Idle
  /\ UNCHANGED <<observed, answer, granted, callVars, worker, handed, effects, served, ends>>

\* The second: only a ticket nobody is answering becomes approved.
AutoApprove ==
  /\ minting.at = "auto"
  /\ LET a == minting.call.approval IN
     IF tickets[a].phase = "pending"
     THEN /\ tickets' = [tickets EXCEPT ![a].phase = "approved"]
          /\ granted' = granted \union {tickets[a].call}
     ELSE UNCHANGED <<tickets, granted>>
  /\ minting' = Idle
  /\ UNCHANGED <<observed, answer, asked, callVars, worker, handed, effects, served, ends>>

\* record_sidecar_approval: the host only remembers that the sidecar announced it.  At the
\* limit an entry makes room.
ObserveApproval(r) ==
  /\ asked < MaxAsked /\ asked' = asked + 1
  /\ minting = Idle /\ r.via = "mcp"
  /\ LET fresh == [a \in ApprovalIds |-> IF observed[a] = "late" THEN "none" ELSE observed[a]]
         held == {a \in ApprovalIds : fresh[a] # "none"} \ {r.approval}
     IN  \E gone \in IF Cardinality(held) >= MaxObserved /\ fresh[r.approval] = "none"
                     THEN {{a} : a \in held} ELSE {{}} :
           observed' = [a \in ApprovalIds |-> IF a = r.approval THEN "live"
                                              ELSE IF a \in gone THEN "none" ELSE fresh[a]]
  /\ UNCHANGED <<tickets, minting, answer, granted, callVars, worker, handed, effects, served, ends>>

\* The clock passes the deadline of a ticket or of an observation.
Expire(a) ==
  /\ \/ /\ tickets[a].phase # "none" /\ ~tickets[a].late
        /\ tickets' = [tickets EXCEPT ![a].late = TRUE] /\ UNCHANGED observed
     \/ /\ observed[a] = "live"
        /\ observed' = [observed EXCEPT ![a] = "late"] /\ UNCHANGED tickets
  /\ UNCHANGED <<minting, answer, granted, asked, callVars, worker, handed, effects, served, ends>>

\* begin_response, called by agent_approval_respond: the ticket is parked while the sidecar is
\* asked; an approval of the sidecar's own is only forwarded, one nobody announced is refused.
BeginResponse(a, approve) ==
  /\ answer = Idle
  /\ \/ /\ tickets[a].phase = "none" /\ observed[a] = "live"
        /\ answer' = [at |-> "forward", id |-> a] /\ UNCHANGED <<tickets, observed>>
     \/ /\ tickets[a].phase = "none" /\ observed[a] = "late"
        /\ observed' = [observed EXCEPT ![a] = "none"] /\ UNCHANGED <<tickets, answer>>
     \/ /\ tickets[a].phase # "none" /\ tickets[a].late
        /\ tickets' = [tickets EXCEPT ![a] = NoTicket] /\ UNCHANGED <<observed, answer>>
     \/ /\ tickets[a].phase = "pending" /\ ~tickets[a].late
        /\ tickets' = [tickets EXCEPT ![a].phase = "responding"]
        /\ answer' = [at |-> "ticket", id |-> a, approve |-> approve] /\ UNCHANGED observed
  /\ UNCHANGED <<minting, granted, asked, callVars, worker, handed, effects, served, ends>>

\* Mutant of AcceptedBy: the user's decision is not looked at.
AcceptedByAny(accepted) == accepted /\ ~tickets[answer.id].late

\* finish_response: what turns a parked ticket into an approved one.
AcceptedBy(accepted) == accepted /\ answer.approve /\ ~tickets[answer.id].late

\* The sidecar accepted the response, refused it, or did not answer in time.
FinishResponse(accepted) ==
  /\ answer # Idle
  /\ IF answer.at = "forward" THEN UNCHANGED <<tickets, granted>>
     ELSE IF tickets[answer.id].phase # "responding" THEN UNCHANGED <<tickets, granted>>
     ELSE IF AcceptedBy(accepted)
     THEN /\ tickets' = [tickets EXCEPT ![answer.id].phase = "approved"]
          /\ granted' = IF answer.approve THEN granted \union {tickets[answer.id].call} ELSE granted
     ELSE /\ tickets' = [tickets EXCEPT ![answer.id] = NoTicket] /\ UNCHANGED granted
  /\ answer' = Idle
  /\ UNCHANGED <<observed, minting, asked, callVars, worker, handed, effects, served, ends>>

----------------------------------------------------------------------------
(* The ledger of calls *)

\* host_tool_requires_idempotency: effects, and observations bound to a plan step unless the
\* plan is sampling in its observation window.
host_tool_requires_idempotency(r, sampling) ==
  r.effect \/ (r.plan /\ r.via = "execute" /\ ~sampling)

\* claim_host_tool_call: another call of the same plan action that is not known to have failed.
OtherClaims(r) ==
  {c \in Calls : /\ r.plan /\ calls[c].status \in Blocking
                 /\ calls[c].call.plan /\ calls[c].call.action = r.action}

\* Mutant of FoundClaims: a row of the same call id is written over.
FoundClaimsOther(r) == OtherClaims(r)

\* The rows the claim gives way to: such a call, or else the row of the same call id.
FoundClaims(r) ==
  IF OtherClaims(r) # {} THEN OtherClaims(r)
  ELSE IF calls[r.call].status # "none" THEN {r.call} ELSE {}

\* Mutant of SameRequest: a call id alone identifies the request.
SameRequestById(row, r) == row.call.call = r.call

\* host_tool_request_fingerprint covers everything a request says.
SameRequest(row, r) == row.call = r

\* Mutant of EndedStatus: a command that failed may be tried again.
EndedStatusRetry(outcome) ==
  CASE outcome = "success" -> "success"
    [] outcome \in {"transport", "cancelled"} -> "uncertain"
    [] OTHER -> "failed"

\* host_tool_response_status: a failure that may have acted is uncertain.
EndedStatus(outcome) ==
  CASE outcome = "success" -> "success"
    [] outcome \in {"transport", "timeout", "cancelled", "execution_failed"} -> "uncertain"
    [] OTHER -> "failed"

\* A request is taken up, and claimed first if the ledger is to know of it.
TakeUp(w, r, claimed) ==
  /\ worker[w] = Idle /\ served < MaxServed /\ served' = served + 1
  /\ worker' = [worker EXCEPT ![w] =
       [at |-> IF claimed THEN "claim" ELSE "run", call |-> r, token |-> claimed]]
  /\ UNCHANGED <<ticketVars, callVars, handed, effects, ends>>

\* handle_ssh_effectful_action_target, for a request that passed its checks (server, scope,
\* deny list, guardrails, plan); a check that refuses leaves nothing behind.
ServeAction(w, r) == r.via = "service" /\ TakeUp(w, r, TRUE)

\* host_tool_execute_command, likewise; an effect needs a durable plan here.
ServeTool(w, r) ==
  /\ r.via # "service" /\ (r.effect => r.plan)
  /\ \E sampling \in BOOLEAN : TakeUp(w, r, host_tool_requires_idempotency(r, sampling))

\* prepare_host_tool_call.  A call that is not claimed is answered from memory if it is the
\* same request, and refused otherwise.
ClaimCall(w) ==
  /\ worker[w].at = "claim"
  /\ LET r == worker[w].call
         found == FoundClaims(r)
     IN  IF found = {}
         THEN /\ calls' = [calls EXCEPT ![r.call] = [status |-> "running", call |-> r]]
              /\ worker' = [worker EXCEPT ![w].at = IF r.effect /\ r.via # "mcp" THEN "consume"
                                                    ELSE "run"]
              /\ UNCHANGED replied
         ELSE /\ \E c \in found :
                   replied' = IF SameRequest(calls[c], r) /\ replays[r.call] = "success"
                              THEN replied \union {r} ELSE replied
              /\ worker' = [worker EXCEPT ![w] = Idle]
              /\ UNCHANGED calls
  /\ UNCHANGED <<ticketVars, replays, handed, effects, served, ends>>

Cached == {c \in Calls : replays[c] # "none"}
Least(s) == CHOOSE c \in s : \A d \in s : c <= d

\* finish_host_tool_call: the row first, then the memory, which drops its least key at the limit.
EndCall(w, outcome) ==
  LET r == worker[w].call IN
  IF ~worker[w].token \/ calls[r.call].status # "running"
  THEN /\ worker' = [worker EXCEPT ![w] = Idle] /\ UNCHANGED calls
  ELSE /\ calls' = [calls EXCEPT ![r.call].status = EndedStatus(outcome)]
       /\ worker' = [worker EXCEPT ![w] =
            IF EndedStatus(outcome) = "uncertain" THEN Idle
            ELSE [at |-> "keep", call |-> r, status |-> EndedStatus(outcome)]]

KeepResponse(w) ==
  /\ worker[w].at = "keep"
  /\ LET c == worker[w].call.call
         full == Cardinality(Cached) >= MaxReplays /\ c \notin Cached
     IN  replays' = [d \in Calls |-> CASE d = c -> worker[w].status
                                       [] full /\ d = Least(Cached) -> "none"
                                       [] OTHER -> replays[d]]
  /\ worker' = [worker EXCEPT ![w] = Idle]
  /\ UNCHANGED <<ticketVars, calls, replied, handed, effects, served, ends>>

----------------------------------------------------------------------------
(* Using a ticket *)

\* Mutant of Matches: the plan binding is not compared.
MatchesCallOnly(a, r) == tickets[a].call.call = r.call

\* Binding::matches
Matches(a, r) == tickets[a].call = r

\* HostApprovalLedger::consume.  A ticket being answered is waited for, at most as long as a
\* ticket can live; whatever the end, the ticket is not there for a second call.
ConsumeTicket(w) ==
  /\ worker[w].at = "consume"
  /\ LET r == worker[w].call  a == r.approval  t == tickets[a] IN
     \/ /\ t.phase = "none" \/ (t.phase = "pending" /\ ~t.late)
        /\ EndCall(w, "denied_by_policy") /\ UNCHANGED tickets
     \/ /\ t.phase # "none" /\ t.late
        /\ tickets' = [tickets EXCEPT ![a] = NoTicket] /\ EndCall(w, "denied_by_policy")
     \/ /\ t.phase = "responding" /\ ~t.late
        /\ tickets' = [tickets EXCEPT ![a] = NoTicket] /\ EndCall(w, "denied_by_policy")
     \/ /\ t.phase = "approved" /\ ~t.late
        /\ tickets' = [tickets EXCEPT ![a] = NoTicket]
        /\ IF Matches(a, r)
           THEN worker' = [worker EXCEPT ![w].at = "run"] /\ UNCHANGED calls
           ELSE EndCall(w, "denied_by_policy")
  /\ UNCHANGED <<observed, minting, answer, granted, asked, replays, replied, handed, effects, served, ends>>

\* handle_ssh_effectful_action_target, its end: the target is resolved and handed out.  One
\* that turns out to be another server's is kept back, and the call is left running.
HandTarget(w) ==
  /\ worker[w].at = "run" /\ worker[w].call.via = "service"
  /\ \/ handed' = handed \union {worker[w].call}
        /\ worker' = [worker EXCEPT ![w] = Idle] /\ UNCHANGED calls
     \/ UNCHANGED handed /\ worker' = [worker EXCEPT ![w] = Idle] /\ UNCHANGED calls
     \/ EndCall(w, "transport") /\ UNCHANGED handed
  /\ UNCHANGED <<ticketVars, replays, replied, effects, served, ends>>

\* default_host_tool_run: an observation over SSH, put in order by the sidecar.
RunObservation(w) ==
  /\ worker[w].at = "run" /\ worker[w].call.via = "execute" /\ ~worker[w].call.effect
  /\ \E o \in {"success", "transport", "cancelled", "execution_failed"} : EndCall(w, o)
  /\ UNCHANGED <<ticketVars, replays, replied, handed, effects, served, ends>>

\* An action has a route of its own and is refused here, its ticket spent.
RefuseEffect(w) ==
  /\ worker[w].at = "run" /\ worker[w].call.via = "execute" /\ worker[w].call.effect
  /\ EndCall(w, "unsupported_route")
  /\ UNCHANGED <<ticketVars, replays, replied, handed, effects, served, ends>>

\* A tool of an MCP server runs there and may have acted when the call fails.
RunMcpTool(w) ==
  /\ worker[w].at = "run" /\ worker[w].call.via = "mcp"
  /\ \E acted \in BOOLEAN, o \in {"success", "mcp_call_failed", "cancelled"} :
       /\ o = "success" => acted
       /\ effects' = [effects EXCEPT ![worker[w].call] = IF acted THEN @ + 1 ELSE @]
       /\ EndCall(w, o)
  /\ UNCHANGED <<ticketVars, replays, replied, handed, served, ends>>

\* The sidecar runs the action over SSH, at most once for each target it was handed.
Act(r) ==
  /\ r \in handed /\ handed' = handed \ {r}
  /\ effects' = [effects EXCEPT ![r] = @ + 1]
  /\ UNCHANGED <<ticketVars, callVars, worker, served, ends>>

\* handle_ssh_effectful_action_finished: the sidecar reports what became of the action, or
\* gives up before it started.  A report for a call that is not running changes nothing.
ReportEnd(w, r) ==
  /\ worker[w] = Idle /\ served < MaxServed /\ served' = served + 1
  /\ r.via = "service"
  /\ calls[r.call].status = "running" /\ calls[r.call].call = r
  /\ \/ /\ effects[r] > 0 /\ UNCHANGED handed
        /\ \E o \in {"success", "execution_failed", "transport"} :
             worker' = [worker EXCEPT ![w] = [at |-> "report", call |-> r, outcome |-> o, token |-> TRUE]]
     \/ /\ r \in handed /\ handed' = handed \ {r}
        /\ worker' = [worker EXCEPT ![w] =
             [at |-> "report", call |-> r, outcome |-> "transport", token |-> TRUE]]
  /\ UNCHANGED <<ticketVars, callVars, effects, ends>>

FinishReported(w) ==
  /\ worker[w].at = "report"
  /\ EndCall(w, worker[w].outcome)
  /\ UNCHANGED <<ticketVars, replays, replied, handed, effects, served, ends>>

----------------------------------------------------------------------------
(* The host ends and starts again; or the sidecar does *)

HostEnds ==
  /\ ends < MaxEnds /\ ends' = ends + 1
  /\ tickets' = [a \in ApprovalIds |-> NoTicket]
  /\ observed' = [a \in ApprovalIds |-> "none"]
  /\ minting' = Idle /\ answer' = Idle
  /\ replays' = [c \in Calls |-> "none"]
  /\ worker' = [w \in ActionWorkers |-> Idle]
  /\ handed' = {}
  /\ UNCHANGED <<calls, replied, effects, granted, asked, served>>

SidecarEnds ==
  /\ ends < MaxEnds /\ ends' = ends + 1
  /\ handed # {} /\ handed' = {}
  /\ UNCHANGED <<ticketVars, callVars, worker, effects, served>>

HostActionsStep ==
  \/ \E r \in offered : AskApproval(r) \/ AutoRecord(r) \/ ObserveApproval(r) \/ Act(r)
  \/ AutoApprove
  \/ \E a \in ApprovalIds : Expire(a) \/ \E b \in BOOLEAN : BeginResponse(a, b)
  \/ \E b \in BOOLEAN : FinishResponse(b)
  \/ \E w \in ActionWorkers :
       \/ ClaimCall(w) \/ KeepResponse(w) \/ ConsumeTicket(w) \/ HandTarget(w)
       \/ RunObservation(w) \/ RefuseEffect(w) \/ RunMcpTool(w) \/ FinishReported(w)
       \/ \E r \in offered : ServeAction(w, r) \/ ServeTool(w, r) \/ ReportEnd(w, r)
  \/ HostEnds \/ SidecarEnds

HostActionsNext == HostActionsStep /\ UNCHANGED offered

HostActionsSpec == HostActionsInit /\ [][HostActionsNext]_actionVars

----------------------------------------------------------------------------
(* Properties *)

\* Types, and the limits of the three stores.
HostActionsTypeOK ==
  /\ \A a \in ApprovalIds : tickets[a].phase \in {"none", "pending", "responding", "approved"}
  /\ Cardinality(Held(tickets)) <= MaxTickets
  /\ observed \in [ApprovalIds -> {"none", "live", "late"}]
  /\ Cardinality({a \in ApprovalIds : observed[a] # "none"}) <= MaxObserved
  /\ \A c \in Calls : calls[c].status \in {"none", "running", "success", "failed", "uncertain"}
  /\ Cardinality(Cached) <= MaxReplays
  /\ offered \in Offers
  /\ handed \subseteq ToolCalls /\ granted \subseteq ToolCalls /\ replied \subseteq ToolCalls

\* An action over SSH runs only for a call whose exact binding was approved, however events,
\* answers, deadlines and requests are interleaved (consume, finish_response).
EffectIsGranted == \A r \in ToolCalls : effects[r] > 0 /\ r.via = "service" => r \in granted

\* A call id acts at most once: not after a replay, a restart of the host or a second ticket
\* for the same call (claim_host_tool_call before consume).  An MCP tool of low risk is no action.
CallActsOnce ==
  \A r, q \in {c \in ToolCalls : c.effect} :
    r.call = q.call => (effects[r] <= 1 /\ (r # q => effects[r] = 0 \/ effects[q] = 0))

\* The action of a plan step acts at most once over SSH, whatever call ids a resumed Agent
\* gives it and wherever the host or the sidecar ended.
ActionActsOnce ==
  \A r, q \in ToolCalls :
    /\ r.plan /\ q.plan /\ r.action = q.action /\ r.via = "service"
    /\ effects[r] > 0 /\ effects[q] > 0
    => r = q /\ effects[r] = 1

\* A call answered from memory as completed really acted, as that very call.
CompletedActed == \A r \in replied : r.effect /\ r.via # "execute" => effects[r] > 0

\* The host acts for the Agent only as approved and only once: the binding was granted, a call
\* id and a plan step's action are spent when they acted, and a reply from memory is of a call
\* that acted (consume, claim_host_tool_call, finish_host_tool_call, the replay cache).
ActsAsApproved == EffectIsGranted /\ CallActsOnce /\ ActionActsOnce /\ CompletedActed

\* Does not hold (README, section 6): "block an action that is still running, already succeeded,
\* or whose remote effect is uncertain" (database.cpp, claim_host_tool_call).  A tool of an MCP
\* server that failed after it acted is claimed again under another call id.
NoActionActsTwice ==
  \A r, q \in ToolCalls :
    r # q /\ r.plan /\ q.plan /\ r.action = q.action => effects[r] = 0 \/ effects[q] = 0
=============================================================================
