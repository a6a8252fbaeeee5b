----------------------------- MODULE ControlPlane -----------------------------
(***************************************************************************)
(* The control plane's task broker for one node:                            *)
(* services/control-plane/src/yukinal_control_plane/service.py with the      *)
(* node channel of channel.py.  Tasks of different nodes meet only in the    *)
(* approvals and the policy of their tenant, so one node is enough.          *)
(*                                                                         *)
(* Every request and every channel message is one database transaction at   *)
(* READ COMMITTED: what it reads is one action, what it writes and commits   *)
(* another, and anybody may commit in between.  The handlers of the node      *)
(* channel and of heartbeats update the node's row first, which keeps them    *)
(* apart from each other (node_row), but not from the HTTP requests.         *)
(***************************************************************************)
EXTENDS Naturals, Sequences, FiniteSets

CONSTANTS
  Tasks,        \* bound: task ids
  Approvals,    \* bound: approval ids
  Effectful,    \* exact actions of ALWAYS_EFFECTFUL_TASK_KINDS
  Custom,       \* exact actions of a kind the tenant may declare
  Tables,       \* tier tables somebody tries to store, by name
  Risks,        \* risk levels somebody declares for the custom kind
  Requests,     \* HTTP requests under way at a time
  Connections,  \* channels of the node, old and new
  Reports,      \* bound: the statuses callers ask for
  MaxUses       \* bound: uses a requester may ask for; 100 in the code

ASSUME ActionAssump == Effectful \cap Custom = {}
ASSUME ProcAssump   == Requests \cap Connections = {}
ASSUME TableAssump  == Tables \subseteq {"production", "development", "locked", "open"}
ASSUME RiskAssump   == Risks \subseteq {"read", "low", "medium", "high", "critical"}
ASSUME ReportAssump == Reports \subseteq {"running", "succeeded", "failed", "cancelled", "unknown"}
ASSUME UsesAssump   == MaxUses \in Nat \ {0}
ASSUME TaskAssump   == IsFiniteSet(Tasks)

VARIABLES
  status,       \* task -> status, "absent" before it exists
  action,       \* task -> its kind, node and payload, i.e. its fingerprint
  approval_of,  \* task -> approval_id
  approval,     \* approval -> row
  decided,      \* approvals by decided_at, oldest first
  policy,       \* the tenant's tier table and declared risk
  proc,         \* what each request or channel handler is doing
  node_row,     \* who holds the row lock of the node
  link,         \* connection -> "closed", "open", "closing"
  handed,       \* history variable: task -> connections it was assigned over
  resumed       \* history variable: tasks a status request has running

taskVars   == <<status, action, approval_of>>
ghostVars  == <<handed, resumed>>
vars == <<taskVars, approval, decided, policy, proc, node_row, link, ghostVars>>

None     == "none"
Procs    == Requests \cup Connections
Actions  == Effectful \cup Custom
Active   == {"queued", "running"}
Terminal == {"succeeded", "failed", "cancelled"}
Statuses == Active \cup Terminal \cup {"unknown"}

\* NULL in a column is no id and no action.
ASSUME NullAssump == None \notin Tasks \cup Approvals \cup Procs \cup Actions

NoApproval == [state |-> "absent", action |-> None, uses |-> 0, max_uses |-> 0,
               lapsed |-> FALSE]
DefaultPolicy == [table |-> "production", declared |-> None]
NoCall == [at |-> "idle", task |-> None, to |-> None, action |-> None, approval |-> None,
           policy |-> DefaultPolicy, running |-> {}]

Init ==
  /\ status = [t \in Tasks |-> "absent"]
  /\ action = [t \in Tasks |-> None]
  /\ approval_of = [t \in Tasks |-> None]
  /\ approval = [a \in Approvals |-> NoApproval]
  /\ decided = <<>>
  /\ policy = DefaultPolicy
  /\ proc = [p \in Procs |-> NoCall]
  /\ node_row = None
  /\ link = [c \in Connections |-> "closed"]
  /\ handed = [t \in Tasks |-> {}]
  /\ resumed = {}

-----------------------------------------------------------------------------
(* Policy: actions.py                                                      *)

Modes(r, w, d) == [read |-> r, write |-> w, dangerous |-> d]

\* The built-in tables, and two a tenant might write itself.
tier_modes(table) ==
  CASE table = "production"  -> Modes("auto", "ask", "ask")
    [] table = "development" -> Modes("auto", "auto", "ask")
    [] table = "locked"      -> Modes("auto", "deny", "deny")
    [] table = "open"        -> Modes("auto", "auto", "auto")

validate_tier_modes(table) == tier_modes(table).dangerous # "auto"

tier_of(risk) ==
  CASE risk \in {"read", "low"} -> "read"
    [] risk = "medium" -> "write"
    [] OTHER -> "dangerous"

effective_risk(a, declared) ==
  IF a \in Custom /\ declared # None THEN declared ELSE "high"

action_mode(a, pol) == tier_modes(pol.table)[tier_of(effective_risk(a, pol.declared))]

\* upsert_tenant_policy; delete_tenant_policy falls back to production.
PutTenantPolicy(table) ==
  /\ validate_tier_modes(table)
  /\ policy' = [policy EXCEPT !.table = table]
  /\ UNCHANGED <<taskVars, approval, decided, proc, node_row, link, ghostVars>>

DeleteTenantPolicy ==
  /\ policy' = [policy EXCEPT !.table = "production"]
  /\ UNCHANGED <<taskVars, approval, decided, proc, node_row, link, ghostVars>>

\* upsert_tool_policy and delete_tool_policy, for the kind that may be declared.
SetToolPolicy(risk) ==
  /\ policy' = [policy EXCEPT !.declared = risk]
  /\ UNCHANGED <<taskVars, approval, decided, proc, node_row, link, ghostVars>>

-----------------------------------------------------------------------------
(* Approvals: every change is one conditional statement                    *)

\* _decision_is_live, and the same test in SQL.
Live(a) == approval[a].state = "approved" /\ ~approval[a].lapsed

RequestApproval(a, act, uses) ==
  /\ approval[a].state = "absent"
  /\ approval' = [approval EXCEPT ![a] = [NoApproval EXCEPT !.state = "pending",
                                          !.action = act, !.max_uses = uses]]
  /\ UNCHANGED <<taskVars, decided, policy, proc, node_row, link, ghostVars>>

\* A decider may narrow the use count.
DecideApproval(a, decision, uses) ==
  /\ approval[a].state = "pending"
  /\ uses <= approval[a].max_uses
  /\ approval' = [approval EXCEPT ![a].state = decision, ![a].max_uses = uses]
  /\ decided' = Append(decided, a)
  /\ UNCHANGED <<taskVars, policy, proc, node_row, link, ghostVars>>

RevokeApproval(a) ==
  /\ approval[a].state \in {"pending", "approved"}
  /\ approval' = [approval EXCEPT ![a].state = "revoked"]
  /\ UNCHANGED <<taskVars, decided, policy, proc, node_row, link, ghostVars>>

\* The clock passes expires_at.
Lapse(a) ==
  /\ Live(a)
  /\ approval' = [approval EXCEPT ![a].lapsed = TRUE]
  /\ UNCHANGED <<taskVars, decided, policy, proc, node_row, link, ghostVars>>

Swept(rows) ==
  [a \in Approvals |-> IF rows[a].state = "approved" /\ rows[a].lapsed
                       THEN [rows[a] EXCEPT !.state = "expired"] ELSE rows[a]]

\* expire_stale_approvals, by a listing or on request.
ExpireStaleApprovals ==
  /\ approval' = Swept(approval)
  /\ UNCHANGED <<taskVars, decided, policy, proc, node_row, link, ghostVars>>

-----------------------------------------------------------------------------
(* Transactions                                                            *)

Idle(p) == proc[p].at = "idle"

\* The first write of a handler of the node locks the node's row until it commits
\* or rolls back; HTTP requests about tasks write no node.
Locks(p, wanted) ==
  IF wanted THEN node_row = None /\ node_row' = p ELSE UNCHANGED node_row
Unlocked(p) == IF node_row = p THEN None ELSE node_row

\* Commit or rollback.
Finish(p) ==
  /\ proc' = [proc EXCEPT ![p] = NoCall]
  /\ node_row' = Unlocked(p)

\* A channel handler belongs to an open connection.
MayCall(p) == Idle(p) /\ (p \in Connections => link[p] = "open")

\* uq_tasks_active_per_node
Conflicts(t) == \E u \in Tasks \ {t} : status[u] \in Active

-----------------------------------------------------------------------------
(* create_task                                                             *)

\* The newest of some decisions, given by their places in `decided`.
Newest(places) ==
  IF places = {} THEN None ELSE decided[CHOOSE i \in places : \A j \in places : j <= i]

\* Mutant of available_approval: the fingerprint is not compared.
available_approval_unbound(act) ==
  Newest({i \in DOMAIN decided : LET a == decided[i] IN
            Live(a) /\ approval[a].uses < approval[a].max_uses})

\* The newest decision for exactly this action that has a use left.
available_approval(act) ==
  Newest({i \in DOMAIN decided : LET a == decided[i] IN
            /\ Live(a) /\ approval[a].uses < approval[a].max_uses
            /\ approval[a].action = act})

\* require_action_approval, when it does not refuse.
CreateRead(p, act) ==
  /\ p \in Requests /\ Idle(p)
  /\ LET mode == action_mode(act, policy)
         a    == IF mode = "ask" THEN available_approval(act) ELSE None
     IN  /\ mode = "auto" \/ (mode = "ask" /\ a # None)
         /\ proc' = [proc EXCEPT ![p].at = "create", ![p].action = act,
                                 ![p].approval = a]
  /\ UNCHANGED <<taskVars, approval, decided, policy, node_row, link, ghostVars>>

\* Mutant of Consumable: the lookup is trusted for the use count.
ConsumableByLookup(a) == Live(a)

\* consume_approval's condition.
Consumable(a) == Live(a) /\ approval[a].uses < approval[a].max_uses

CreateWrite(p, t) ==
  /\ proc[p].at = "create"
  /\ status[t] = "absent"
  /\ ~Conflicts(t)
  /\ LET a == proc[p].approval
     IN  /\ a # None => Consumable(a)
         /\ approval' = IF a = None THEN approval
                        ELSE Swept([approval EXCEPT ![a].uses = @ + 1])
         /\ approval_of' = [approval_of EXCEPT ![t] = a]
  /\ action' = [action EXCEPT ![t] = proc[p].action]
  /\ status' = [status EXCEPT ![t] = "queued"]
  /\ Finish(p)
  /\ UNCHANGED <<decided, policy, link, ghostVars>>

\* No use left, or the node already has an active task.
CreateRefused(p) ==
  /\ proc[p].at = "create"
  /\ \/ proc[p].approval # None /\ ~Consumable(proc[p].approval)
     \/ \E u \in Tasks : status[u] \in Active
  /\ Finish(p)
  /\ UNCHANGED <<taskVars, approval, decided, policy, link, ghostVars>>

-----------------------------------------------------------------------------
(* Status changes: transition_task, transition_node_task                    *)

Transitions(s) ==
  CASE s = "queued"  -> {"running", "cancelled"}
    [] s = "running" -> {"succeeded", "failed", "cancelled", "unknown"}
    [] s = "unknown" -> {"running", "succeeded", "failed", "cancelled"}
    [] OTHER -> {}

\* task_authorisation_problem
Problem(t, pol) ==
  LET mode == action_mode(action[t], pol)
      a    == approval_of[t]
  IN  CASE mode = "auto" -> None
        [] mode = "deny" -> "policy_denied"
        [] mode = "ask" /\ a = None -> "approval_required"
        [] mode = "ask" /\ a # None /\ ~Live(a) -> "approval_dead"
        [] OTHER -> None

\* _apply_transition reads the task and checks the edge, ...
MoveRead(p, t, to) ==
  /\ MayCall(p)
  /\ status[t] # "absent"
  /\ to \in Transitions(status[t])
  /\ Locks(p, p \in Connections)
  /\ proc' = [proc EXCEPT ![p].at = IF to = "running" THEN "check" ELSE "write",
                          ![p].task = t, ![p].to = to]
  /\ UNCHANGED <<taskVars, approval, decided, policy, link, ghostVars>>

\* ... asks whether a task that is to run may, ...
MoveCheck(p) ==
  /\ proc[p].at = "check"
  /\ IF Problem(proc[p].task, policy) = None
     THEN proc' = [proc EXCEPT ![p].at = "write"] /\ UNCHANGED node_row
     ELSE Finish(p)
  /\ UNCHANGED <<taskVars, approval, decided, policy, link, ghostVars>>

\* ... and writes the new status, whatever the row says by now.
MoveWrite(p) ==
  /\ proc[p].at = "write"
  /\ proc[p].to = "running" => ~Conflicts(proc[p].task)
  /\ status' = [status EXCEPT ![proc[p].task] = proc[p].to]
  /\ resumed' = IF proc[p].to = "running" THEN resumed \cup {proc[p].task}
                ELSE resumed \ {proc[p].task}
  /\ Finish(p)
  /\ UNCHANGED <<action, approval_of, approval, decided, policy, link, handed>>

\* The index refuses a second active task; a channel does not survive that.
MoveRefused(p) ==
  /\ proc[p].at = "write"
  /\ proc[p].to = "running" /\ Conflicts(proc[p].task)
  /\ link' = IF p \in Connections THEN [link EXCEPT ![p] = "closing"] ELSE link
  /\ Finish(p)
  /\ UNCHANGED <<taskVars, approval, decided, policy, ghostVars>>

-----------------------------------------------------------------------------
(* assign_queued_tasks, on connecting and on `sync`                         *)

AssignBegins(c) ==
  /\ Locks(c, TRUE)
  /\ proc' = [proc EXCEPT ![c].at = "assign", ![c].policy = policy]

Connect(c) ==
  /\ link[c] = "closed"
  /\ link' = [link EXCEPT ![c] = "open"]
  /\ AssignBegins(c)
  /\ UNCHANGED <<taskVars, approval, decided, policy, ghostVars>>

Sync(c) ==
  /\ MayCall(c)
  /\ AssignBegins(c)
  /\ UNCHANGED <<taskVars, approval, decided, policy, link, ghostVars>>

\* The queued task, if any, is selected and its authorisation looked up, under the
\* policy read at the start; one with a problem is reported as waiting.
AssignCheck(c) ==
  /\ proc[c].at = "assign"
  /\ \/ \E t \in Tasks :
          /\ status[t] = "queued" /\ Problem(t, proc[c].policy) = None
          /\ proc' = [proc EXCEPT ![c].at = "claim", ![c].task = t,
                                  ![c].approval = approval_of[t],
                                  ![c].policy = DefaultPolicy]
          /\ UNCHANGED node_row
     \/ /\ \A t \in Tasks : status[t] = "queued" => Problem(t, proc[c].policy) # None
        /\ Finish(c)
  /\ UNCHANGED <<taskVars, approval, decided, policy, link, ghostVars>>

\* Mutant of Claimable: the status that was selected is not asked for again.
ClaimableAnyStatus(t, a) == a # None => Live(a) /\ approval[a].action = action[t]

\* Mutant of Claimable: the authorisation check before the claim is trusted.
ClaimableByCheck(t, a) == status[t] = "queued"

\* The WHERE clause of claim_queued_task.
Claimable(t, a) ==
  /\ status[t] = "queued"
  /\ a # None => Live(a) /\ approval[a].action = action[t]

Claim(c) ==
  /\ proc[c].at = "claim"
  /\ LET t == proc[c].task
     IN  IF Claimable(t, proc[c].approval)
         THEN /\ status' = [status EXCEPT ![t] = "running"]
              /\ handed' = [handed EXCEPT ![t] = @ \cup {c}]
         ELSE UNCHANGED <<status, handed>>
  /\ Finish(c)
  /\ UNCHANGED <<action, approval_of, approval, decided, policy, link, resumed>>

-----------------------------------------------------------------------------
(* _mark_running_unknown, and the end of a connection                       *)

MarkBegins(p) ==
  /\ Locks(p, TRUE)
  /\ proc' = [proc EXCEPT ![p].at = "mark",
                          ![p].running = {t \in Tasks : status[t] = "running"}]

\* heartbeat(restarted), the `close` message, and the finally clause of run_channel.
Heartbeat(p) ==
  /\ p \in Requests /\ Idle(p)
  /\ MarkBegins(p)
  /\ UNCHANGED <<taskVars, approval, decided, policy, link, ghostVars>>

Bye(c) ==
  /\ MayCall(c)
  /\ MarkBegins(c)
  /\ UNCHANGED <<taskVars, approval, decided, policy, link, ghostVars>>

\* Mutant of RecordDisconnect: only what the node said goodbye to is marked.
RecordDisconnectSilently(c) ==
  /\ link[c] = "closing" /\ Idle(c)
  /\ link' = [link EXCEPT ![c] = "closed"]
  /\ UNCHANGED <<taskVars, approval, decided, policy, proc, node_row, ghostVars>>

RecordDisconnect(c) ==
  /\ link[c] = "closing" /\ Idle(c)
  /\ MarkBegins(c)
  /\ UNCHANGED <<taskVars, approval, decided, policy, link, ghostVars>>

\* What was running when it was looked at becomes unknown.  After `close` the
\* finally clause is still to come.
MarkWrite(p) ==
  /\ proc[p].at = "mark"
  /\ status' = [t \in Tasks |-> IF t \in proc[p].running THEN "unknown" ELSE status[t]]
  /\ link' = [c \in Connections |->
                IF c # p THEN link[c] ELSE IF link[c] = "open" THEN "closing" ELSE "closed"]
  /\ resumed' = resumed \ proc[p].running
  /\ Finish(p)
  /\ UNCHANGED <<action, approval_of, approval, decided, policy, handed>>

\* The socket drops, or the server shuts down and cancels the handler at whatever
\* it awaits: its transaction is rolled back, and the shielded finally clause runs.
Drop(c) ==
  /\ link[c] = "open"
  /\ link' = [link EXCEPT ![c] = "closing"]
  /\ Finish(c)
  /\ UNCHANGED <<taskVars, approval, decided, policy, ghostVars>>

-----------------------------------------------------------------------------
Policy ==
  \/ \E table \in Tables : PutTenantPolicy(table)
  \/ DeleteTenantPolicy
  \/ \E risk \in Risks \cup {None} : SetToolPolicy(risk)

Decisions ==
  \/ \E a \in Approvals :
       \/ \E act \in Actions, uses \in 1 .. MaxUses : RequestApproval(a, act, uses)
       \/ \E decision \in {"approved", "rejected"}, uses \in 1 .. MaxUses :
            DecideApproval(a, decision, uses)
       \/ RevokeApproval(a) \/ Lapse(a)
  \/ ExpireStaleApprovals

Request(p) ==
  \/ \E act \in Actions : CreateRead(p, act)
  \/ \E t \in Tasks : CreateWrite(p, t)
  \/ CreateRefused(p) \/ Heartbeat(p)

Move(p) ==
  \/ \E t \in Tasks, to \in Reports : MoveRead(p, t, to)
  \/ MoveCheck(p) \/ MoveWrite(p) \/ MoveRefused(p)

Channel(c) ==
  Connect(c) \/ Sync(c) \/ AssignCheck(c) \/ Claim(c) \/ Bye(c) \/ Drop(c) \/ RecordDisconnect(c)

Next ==
  \/ Policy \/ Decisions
  \/ \E p \in Requests : Request(p)
  \/ \E p \in Procs : Move(p) \/ MarkWrite(p)
  \/ \E c \in Connections : Channel(c)

Spec == Init /\ [][Next]_vars

-----------------------------------------------------------------------------
(* Properties                                                              *)

Rows == [state : {"absent", "pending", "approved", "rejected", "revoked", "expired"},
         action : Actions \cup {None}, uses : 0 .. MaxUses, max_uses : 0 .. MaxUses,
         lapsed : BOOLEAN]

Policies == [table : {"production", "development", "locked"}, declared : Risks \cup {None}]

Calls == [at : {"idle", "create", "check", "write", "assign", "claim", "mark"},
          task : Tasks \cup {None}, to : Statuses \cup {None},
          action : Actions \cup {None}, approval : Approvals \cup {None},
          policy : Policies, running : SUBSET Tasks]

TypeOK ==
  /\ status \in [Tasks -> Statuses \cup {"absent"}]
  /\ action \in [Tasks -> Actions \cup {None}]
  /\ approval_of \in [Tasks -> Approvals \cup {None}]
  /\ approval \in [Approvals -> Rows]
  /\ decided \in Seq(Approvals)
  /\ policy \in Policies
  /\ proc \in [Procs -> Calls]
  /\ node_row \in Procs \cup {None}
  /\ link \in [Connections -> {"closed", "open", "closing"}]
  /\ handed \in [Tasks -> SUBSET Connections]
  /\ resumed \subseteq Tasks

\* Two requests that both found a use available do not both spend it: a decision
\* has authorised exactly as many tasks as it counts, and no more than it allows,
\* although a task's failure to be stored gives its use back.
UsesAreTasks ==
  \A a \in Approvals :
    /\ approval[a].uses = Cardinality({t \in Tasks : approval_of[t] = a})
    /\ approval[a].uses <= approval[a].max_uses

\* A task of a kind the host always treats as effectful is on record only with a
\* decision that was made, for exactly its kind, node and payload, whatever the
\* tenant's policy was or became.
EffectIsDecided ==
  \A t \in Tasks : action[t] \in Effectful =>
    /\ approval_of[t] # None
    /\ approval[approval_of[t]].action = action[t]
    /\ approval[approval_of[t]].state \in {"approved", "expired", "revoked"}

\* claim_queued_task hands out a task under a decision only while that decision
\* stands, although it was checked before the claim and may be revoked since.
ClaimIsAuthorised ==
  [][\A t \in Tasks : handed'[t] # handed[t] /\ approval_of[t] # None =>
       Live(approval_of[t])]_vars

\* A task that was cancelled while assign_queued_tasks looked at it is not handed
\* to the node.
CancelledIsNotHanded ==
  [][\A t \in Tasks : handed'[t] # handed[t] => status[t] \notin Terminal]_vars

\* A task the control plane says is running has a connection that was given it and
\* has not ended, or somebody put it there by a status request: however connections
\* close, drop, overlap and reopen, their end is recorded.
RunningIsWatched ==
  \A t \in Tasks : status[t] = "running" =>
    t \in resumed \/ \E c \in handed[t] : link[c] # "closed"

\* Does not hold (README, section 6).  Stated by the comment of _TRANSITIONS
\* (service.py:35-36): "A terminal state has no outgoing edges, so a completed task is
\* never silently moved back to a live state."
TerminalStays ==
  [][\A t \in Tasks : status[t] \in Terminal => status'[t] \notin Active]_vars
=============================================================================
