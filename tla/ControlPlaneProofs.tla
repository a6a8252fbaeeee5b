-------------------------- MODULE ControlPlaneProofs --------------------------
(***************************************************************************)
(* The task broker's promises, for any number of tasks, approvals, requests *)
(* and connections, and whatever policies a tenant stores.                  *)
(*                                                                         *)
(* None of the properties is inductive: a request writes what it decided    *)
(* from rows it read in an earlier statement.  Each part of the invariant   *)
(* says what still holds of those rows when the write comes: Settled of a   *)
(* task and its decision, InHand of what a handler carries, Locked of the   *)
(* node's row and what was running when a handler locked it.                *)
(***************************************************************************)
EXTENDS ControlPlane, FiniteSetTheorems, WellFoundedInduction, TLAPS

USE DEF taskVars, ghostVars

-----------------------------------------------------------------------------
(* The operators                                                           *)

\* A nonempty set of places in a sequence has a last one, so that Newest returns one of them.
LEMMA NewestIsOne ==
  ASSUME NEW places \in SUBSET (1 .. Len(decided)), decided \in Seq(Approvals), places # {}
  PROVE  \E i \in places : Newest(places) = decided[i]
<1> DEFINE n == Len(decided)
           from == {m \in Nat : \E i \in places : m = n - i}
<1>1. n \in Nat OBVIOUS
<1>2. from \subseteq Nat /\ from # {}
  <2>1. PICK i \in places : TRUE OBVIOUS
  <2>2. n - i \in Nat BY <1>1, <2>1
  <2>3. QED BY <2>1, <2>2
<1>3. PICK d \in from : \A e \in from : ~ (<<e, d>> \in OpToRel(<, Nat))
  <2> HIDE DEF from
  <2>1. QED BY <1>2, NatLessThanWellFounded, WFMin
<1>4. \A e \in from : d <= e
  <2> HIDE DEF from
  <2> TAKE e \in from
  <2>1. e \in Nat /\ d \in Nat BY <1>2, <1>3
  <2>2. ~(e < d) BY <1>3, <2>1 DEF OpToRel
  <2>3. QED BY <2>1, <2>2
<1>5. PICK i \in places : d = n - i BY <1>3
<1>6. \A j \in places : j <= i
  <2> TAKE j \in places
  <2>1. n - j \in from BY <1>1
  <2>2. n - i <= n - j BY <1>4, <1>5, <2>1
  <2>3. QED BY <1>1, <2>2
<1>7. PICK k \in places : Newest(places) = decided[k] BY <1>6 DEF Newest
<1>8. QED BY <1>7

\* available_approval returns nothing, or a live decision for exactly this action.
LEMMA AvailableIsLive ==
  ASSUME TypeOK, NEW act \in Actions, available_approval(act) # None
  PROVE  /\ available_approval(act) \in Approvals
         /\ Live(available_approval(act))
         /\ approval[available_approval(act)].action = act
<1> DEFINE places == {i \in DOMAIN decided : LET a == decided[i] IN
                        /\ Live(a) /\ approval[a].uses < approval[a].max_uses
                        /\ approval[a].action = act}
<1>1. decided \in Seq(Approvals) /\ places \subseteq 1 .. Len(decided) BY DEF TypeOK
<1>2. available_approval(act) = Newest(places) BY DEF available_approval
<1>3. places # {} BY <1>2 DEF Newest
<1>4. PICK i \in places : Newest(places) = decided[i] BY <1>1, <1>3, NewestIsOne
<1>5. decided[i] \in Approvals BY <1>1, <1>4
<1>6. QED BY <1>2, <1>4, <1>5

\* Under every policy a tenant can store, an effectful action is asked about or denied.
LEMMA EffectNeedsDecision ==
  ASSUME NEW act \in Effectful, NEW pol \in Policies
  PROVE  action_mode(act, pol) \in {"ask", "deny"}
BY ActionAssump DEF action_mode, effective_risk, tier_of, tier_modes, Modes, Policies

\* Finish leaves a typed handler and lock.
LEMMA FinishTyped ==
  ASSUME TypeOK, NEW p \in Procs, Finish(p)
  PROVE  proc' \in [Procs -> Calls] /\ node_row' \in Procs \cup {None}
<1>1. NoCall \in Calls
  BY TableAssump, RiskAssump DEF NoCall, Calls, DefaultPolicy, Policies
<1>2. QED BY <1>1 DEF TypeOK, Finish, Unlocked

-----------------------------------------------------------------------------
(* The invariant                                                           *)

\* A task without a row has no decision and no action; a decision nobody made has no use.
Settled ==
  /\ \A t \in Tasks : status[t] = "absent" => approval_of[t] = None /\ action[t] = None
  /\ \A a \in Approvals : approval[a].state \in {"absent", "pending"} => approval[a].uses = 0

\* The states of a decision that was made and not rejected.
Past == {"approved", "expired", "revoked"}

\* What a handler carries from the statement that read it.
Carries(p) ==
  /\ proc[p].at = "create" =>
       /\ proc[p].action \in Actions
       /\ proc[p].action \in Effectful => proc[p].approval # None
       /\ proc[p].approval # None =>
            /\ approval[proc[p].approval].state \in Past
            /\ approval[proc[p].approval].action = proc[p].action
  /\ proc[p].at \in {"check", "write"} => proc[p].to \in Statuses
  /\ proc[p].at = "claim" =>
       /\ proc[p].task \in Tasks /\ status[proc[p].task] # "absent"
       /\ proc[p].approval = approval_of[proc[p].task]

InHand == \A p \in Procs : Carries(p)

\* A handler of the node that assigns or marks holds the node's row, so that no other hands a
\* task out meanwhile: what runs is what it saw running, or was resumed by a request.
Holds(p) ==
  /\ proc[p].at \in {"assign", "claim", "mark"} => node_row = p
  /\ proc[p].at \in {"assign", "claim"} => p \in Connections /\ link[p] = "open"
  /\ proc[p].at = "mark" =>
       \A t \in Tasks : status[t] = "running" => t \in proc[p].running \cup resumed

Locked == \A p \in Procs : Holds(p)

HandlerStep(p) ==
  Request(p) \/ Move(p) \/ MarkWrite(p) \/ (p \in Connections /\ Channel(p))

Broker ==
  /\ TypeOK /\ Settled /\ InHand /\ Locked
  /\ UsesAreTasks /\ EffectIsDecided /\ RunningIsWatched

-----------------------------------------------------------------------------
(* Types                                                                   *)

\* Every field a handler notes between two statements of its transaction has its type.
LEMMA CallsKept ==
  ASSUME NEW c \in Calls
  PROVE  /\ \A act \in Actions, a \in Approvals \cup {None} :
              [c EXCEPT !.at = "create", !.action = act, !.approval = a] \in Calls
         /\ \A t \in Tasks, to \in Statuses, at \in {"check", "write"} :
              [c EXCEPT !.at = at, !.task = t, !.to = to] \in Calls
         /\ [c EXCEPT !.at = "write"] \in Calls
         /\ \A pol \in Policies : [c EXCEPT !.at = "assign", !.policy = pol] \in Calls
         /\ \A t \in Tasks, a \in Approvals \cup {None} :
              [c EXCEPT !.at = "claim", !.task = t, !.approval = a, !.policy = DefaultPolicy] \in Calls
         /\ \A run \in SUBSET Tasks : [c EXCEPT !.at = "mark", !.running = run] \in Calls
<1>1. DefaultPolicy \in Policies BY DEF DefaultPolicy, Policies
<1>2. QED BY <1>1 DEF Calls

\* No table that validate_tier_modes lets through leaves dangerous actions unasked.
LEMMA TypedPolicy ==
  ASSUME TypeOK, Policy
  PROVE  TypeOK'
<1> USE DEF TypeOK
<1>1. policy' \in Policies
  BY TableAssump DEF Policy, PutTenantPolicy, DeleteTenantPolicy, SetToolPolicy, Policies,
     validate_tier_modes, tier_modes, Modes
<1>2. QED BY <1>1 DEF Policy, PutTenantPolicy, DeleteTenantPolicy, SetToolPolicy

\* expire_stale_approvals keeps every row a row.
LEMMA SweptTyped ==
  ASSUME NEW rows \in [Approvals -> Rows]
  PROVE  Swept(rows) \in [Approvals -> Rows]
BY DEF Swept, Rows

\* Every change of a decision's row yields a row.
LEMMA RowsKept ==
  ASSUME NEW r \in Rows
  PROVE  /\ \A act \in Actions, uses \in 1 .. MaxUses :
              [NoApproval EXCEPT !.state = "pending", !.action = act, !.max_uses = uses] \in Rows
         /\ \A decision \in {"approved", "rejected"}, uses \in 1 .. MaxUses :
              [r EXCEPT !.state = decision, !.max_uses = uses] \in Rows
         /\ [r EXCEPT !.state = "revoked"] \in Rows
         /\ [r EXCEPT !.lapsed = TRUE] \in Rows
         /\ r.uses < r.max_uses => [r EXCEPT !.uses = @ + 1] \in Rows
<1> USE UsesAssump DEF Rows
<1>1. \A act \in Actions, uses \in 1 .. MaxUses :
        [NoApproval EXCEPT !.state = "pending", !.action = act, !.max_uses = uses] \in Rows
  <2> TAKE act \in Actions, uses \in 1 .. MaxUses
  <2>1. uses \in 0 .. MaxUses /\ 0 \in 0 .. MaxUses OBVIOUS
  <2>2. QED BY <2>1 DEF NoApproval
<1>2. \A decision \in {"approved", "rejected"}, uses \in 1 .. MaxUses :
        [r EXCEPT !.state = decision, !.max_uses = uses] \in Rows
  <2> TAKE decision \in {"approved", "rejected"}, uses \in 1 .. MaxUses
  <2>1. uses \in 0 .. MaxUses OBVIOUS
  <2>2. QED BY <2>1
<1>3. [r EXCEPT !.state = "revoked"] \in Rows /\ [r EXCEPT !.lapsed = TRUE] \in Rows OBVIOUS
<1>4. r.uses < r.max_uses => [r EXCEPT !.uses = @ + 1] \in Rows OBVIOUS
<1>5. QED BY <1>1, <1>2, <1>3, <1>4

\* Asking, deciding, revoking, lapsing and sweeping keep the types.
LEMMA TypedDecisions ==
  ASSUME TypeOK, Decisions
  PROVE  TypeOK'
<1> USE UsesAssump
<1>1. ASSUME NEW a \in Approvals, NEW act \in Actions, NEW uses \in 1 .. MaxUses,
             RequestApproval(a, act, uses)
      PROVE  TypeOK'
  <2>1. approval' \in [Approvals -> Rows] BY <1>1, RowsKept DEF RequestApproval, TypeOK
  <2>2. QED BY <1>1, <2>1 DEF RequestApproval, TypeOK
<1>2. ASSUME NEW a \in Approvals, NEW decision \in {"approved", "rejected"},
             NEW uses \in 1 .. MaxUses, DecideApproval(a, decision, uses)
      PROVE  TypeOK'
  <2>1. approval' \in [Approvals -> Rows] BY <1>2, RowsKept DEF DecideApproval, TypeOK
  <2>2. decided' \in Seq(Approvals) BY <1>2 DEF DecideApproval, TypeOK
  <2>3. QED BY <1>2, <2>1, <2>2 DEF DecideApproval, TypeOK
<1>3. ASSUME NEW a \in Approvals, RevokeApproval(a) \/ Lapse(a)
      PROVE  TypeOK'
  <2>1. approval[a] \in Rows BY DEF TypeOK
  <2>2. [approval[a] EXCEPT !.state = "revoked"] \in Rows /\ [approval[a] EXCEPT !.lapsed = TRUE] \in Rows
    BY <2>1, RowsKept
  <2>3. approval' \in [Approvals -> Rows] BY <1>3, <2>2 DEF RevokeApproval, Lapse, TypeOK
  <2>4. QED BY <1>3, <2>3 DEF RevokeApproval, Lapse, TypeOK
<1>4. CASE ExpireStaleApprovals
  BY <1>4, SweptTyped DEF ExpireStaleApprovals, TypeOK
<1>5. QED BY <1>1, <1>2, <1>3, <1>4 DEF Decisions

\* The handlers carry what InHand says, or MoveWrite could store no status.
LEMMA TypedHandler ==
  ASSUME TypeOK, InHand, NEW p \in Procs, HandlerStep(p)
  PROVE  TypeOK'
<1>1. proc[p] \in Calls BY DEF TypeOK
<1>2. ASSUME NEW act \in Actions, CreateRead(p, act)
      PROVE  TypeOK'
  <2> DEFINE a == IF action_mode(act, policy) = "ask" THEN available_approval(act) ELSE None
  <2>1. a \in Approvals \cup {None} BY AvailableIsLive
  <2>2. [proc[p] EXCEPT !.at = "create", !.action = act, !.approval = a] \in Calls
    BY <1>1, <2>1, CallsKept
  <2>3. proc' = [proc EXCEPT ![p] = [proc[p] EXCEPT !.at = "create", !.action = act, !.approval = a]]
    BY <1>2 DEF CreateRead, TypeOK
  <2>4. proc' \in [Procs -> Calls] BY <2>2, <2>3 DEF TypeOK
  <2>5. QED BY <1>2, <2>4 DEF CreateRead, TypeOK
<1>3. ASSUME NEW t \in Tasks, CreateWrite(p, t)
      PROVE  TypeOK'
  <2>1. proc' \in [Procs -> Calls] /\ node_row' \in Procs \cup {None}
    BY <1>3, FinishTyped DEF CreateWrite
  <2>2. proc[p].approval \in Approvals \cup {None} /\ proc[p].action \in Actions
    BY <1>1, <1>3 DEF CreateWrite, Calls, InHand, Carries
  <2>3. ASSUME proc[p].approval # None
        PROVE  [approval EXCEPT ![proc[p].approval].uses = @ + 1] \in [Approvals -> Rows]
    BY <1>3, <2>2, <2>3, RowsKept DEF CreateWrite, Consumable, TypeOK
  <2>4. approval' \in [Approvals -> Rows]
    BY <1>3, <2>3, SweptTyped DEF CreateWrite, TypeOK
  <2>5. /\ status' \in [Tasks -> Statuses \cup {"absent"}]
        /\ action' \in [Tasks -> Actions \cup {None}]
        /\ approval_of' \in [Tasks -> Approvals \cup {None}]
    BY <1>3, <2>2 DEF CreateWrite, TypeOK, Statuses, Active
  <2>6. QED BY <1>3, <2>1, <2>4, <2>5 DEF CreateWrite, TypeOK
<1>4. CASE CreateRefused(p)
  BY <1>4, FinishTyped DEF CreateRefused, TypeOK
<1>5. ASSUME MarkBegins(p), UNCHANGED <<taskVars, approval, decided, policy, link, ghostVars>>
      PROVE  TypeOK'
  <2>1. [proc[p] EXCEPT !.at = "mark", !.running = {t \in Tasks : status[t] = "running"}] \in Calls
    BY <1>1, CallsKept
  <2>2. proc' \in [Procs -> Calls] BY <1>5, <2>1 DEF MarkBegins, TypeOK
  <2>3. node_row' \in Procs \cup {None} BY <1>5 DEF MarkBegins, Locks, TypeOK
  <2>4. QED BY <1>5, <2>2, <2>3 DEF TypeOK
<1>6. CASE Request(p)
  BY <1>2, <1>3, <1>4, <1>5, <1>6 DEF Request, Heartbeat
<1>7. ASSUME NEW t \in Tasks, NEW to \in Reports, MoveRead(p, t, to)
      PROVE  TypeOK'
  <2>1. to \in Statuses BY ReportAssump DEF Statuses, Active, Terminal
  <2>2. \A at \in {"check", "write"} : [proc[p] EXCEPT !.at = at, !.task = t, !.to = to] \in Calls
    BY <1>1, <2>1, CallsKept
  <2>3. proc' \in [Procs -> Calls] BY <1>7, <2>2 DEF MoveRead, TypeOK
  <2>4. node_row' \in Procs \cup {None} BY <1>7 DEF MoveRead, Locks, TypeOK
  <2>5. QED BY <1>7, <2>3, <2>4 DEF MoveRead, TypeOK
<1>8. CASE MoveCheck(p)
  <2>1. [proc[p] EXCEPT !.at = "write"] \in Calls BY <1>1, CallsKept
  <2>2. proc' \in [Procs -> Calls] /\ node_row' \in Procs \cup {None}
    BY <1>8, <2>1, FinishTyped DEF MoveCheck, TypeOK
  <2>3. QED BY <1>8, <2>2 DEF MoveCheck, TypeOK
<1>9. CASE MoveWrite(p)
  <2>1. proc[p].to \in Statuses BY <1>9 DEF MoveWrite, InHand, Carries
  <2>2. proc[p].task \in Tasks \cup {None} BY <1>1 DEF Calls
  <2>3. status' \in [Tasks -> Statuses \cup {"absent"}] BY <1>9, <2>1 DEF MoveWrite, TypeOK
  <2>4. QED BY <1>9, <2>2, <2>3, FinishTyped DEF MoveWrite, TypeOK
<1>10. CASE MoveRefused(p)
  <2>1. link' \in [Connections -> {"closed", "open", "closing"}] BY <1>10 DEF MoveRefused, TypeOK
  <2>2. QED BY <1>10, <2>1, FinishTyped DEF MoveRefused, TypeOK
<1>11. CASE Move(p) BY <1>7, <1>8, <1>9, <1>10, <1>11 DEF Move
<1>12. CASE MarkWrite(p)
  <2>1. link' \in [Connections -> {"closed", "open", "closing"}] BY <1>12 DEF MarkWrite, TypeOK
  <2>2. status' \in [Tasks -> Statuses \cup {"absent"}] BY <1>12 DEF MarkWrite, TypeOK, Statuses
  <2>3. QED BY <1>12, <2>1, <2>2, FinishTyped DEF MarkWrite, TypeOK
<1>13. ASSUME AssignBegins(p), UNCHANGED <<taskVars, approval, decided, policy, ghostVars>>,
              link' \in [Connections -> {"closed", "open", "closing"}]
       PROVE  TypeOK'
  <2>1. [proc[p] EXCEPT !.at = "assign", !.policy = policy] \in Calls
    BY <1>1, CallsKept DEF TypeOK
  <2>2. proc' \in [Procs -> Calls] BY <1>13, <2>1 DEF AssignBegins, TypeOK
  <2>3. node_row' \in Procs \cup {None} BY <1>13 DEF AssignBegins, Locks, TypeOK
  <2>4. QED BY <1>13, <2>2, <2>3 DEF TypeOK
<1>14. CASE AssignCheck(p)
  <2>1. CASE Finish(p) BY <1>14, <2>1, FinishTyped DEF AssignCheck, TypeOK
  <2>2. ASSUME NEW t \in Tasks, UNCHANGED node_row,
               proc' = [proc EXCEPT ![p].at = "claim", ![p].task = t,
                                    ![p].approval = approval_of[t], ![p].policy = DefaultPolicy]
        PROVE  TypeOK'
    <3>1. [proc[p] EXCEPT !.at = "claim", !.task = t, !.approval = approval_of[t],
                          !.policy = DefaultPolicy] \in Calls
      BY <1>1, CallsKept DEF TypeOK
    <3>2. proc' \in [Procs -> Calls] BY <2>2, <3>1 DEF TypeOK
    <3>3. QED BY <1>14, <2>2, <3>2 DEF AssignCheck, TypeOK
  <2>3. QED BY <1>14, <2>1, <2>2 DEF AssignCheck
<1>15. ASSUME p \in Connections, Claim(p)
       PROVE  TypeOK'
  <2>1. status' \in [Tasks -> Statuses \cup {"absent"}] /\ handed' \in [Tasks -> SUBSET Connections]
    <3>1. CASE Claimable(proc[p].task, proc[p].approval)
      <4>1. handed[proc[p].task] \cup {p} \in SUBSET Connections
        BY <1>15, <3>1 DEF Claim, InHand, Carries, TypeOK
      <4>2. QED BY <1>15, <3>1, <4>1 DEF Claim, TypeOK, Statuses, Active
    <3>2. CASE ~Claimable(proc[p].task, proc[p].approval) BY <1>15, <3>2 DEF Claim, TypeOK
    <3>3. QED BY <3>1, <3>2
  <2>2. QED BY <1>15, <2>1, FinishTyped DEF Claim, TypeOK
<1>16. ASSUME p \in Connections, Drop(p)
       PROVE  TypeOK'
  <2>1. link' \in [Connections -> {"closed", "open", "closing"}] BY <1>16 DEF Drop, TypeOK
  <2>2. QED BY <1>16, <2>1, FinishTyped DEF Drop, TypeOK
<1>17. ASSUME p \in Connections, Channel(p)
       PROVE  TypeOK'
  <2>1. CASE Connect(p) BY <1>13, <1>17, <2>1 DEF Connect, TypeOK
  <2>2. CASE Sync(p) BY <1>13, <1>17, <2>2 DEF Sync, TypeOK
  <2>3. CASE Bye(p) \/ RecordDisconnect(p) BY <1>5, <2>3 DEF Bye, RecordDisconnect
  <2>4. QED BY <1>14, <1>15, <1>16, <1>17, <2>1, <2>2, <2>3 DEF Channel
<1>18. QED BY <1>6, <1>11, <1>12, <1>17 DEF HandlerStep

-----------------------------------------------------------------------------
(* What no step takes back                                                 *)

\* A task keeps its row, its action and its decision; a decision that was made stays made,
\* for the same action.
Steady ==
  /\ \A t \in Tasks : status[t] # "absent" =>
       status'[t] # "absent" /\ approval_of'[t] = approval_of[t] /\ action'[t] = action[t]
  /\ \A a \in Approvals : approval[a].state \in Past =>
       approval'[a].state \in Past /\ approval'[a].action = approval[a].action

\* expire_stale_approvals changes nothing but `approved` to `expired`.
LEMMA SweptSteady ==
  ASSUME NEW rows \in [Approvals -> Rows], NEW a \in Approvals
  PROVE  /\ Swept(rows)[a].state \in Past <=> rows[a].state \in Past
         /\ Swept(rows)[a].state \in {"absent", "pending"} <=> rows[a].state \in {"absent", "pending"}
         /\ Swept(rows)[a].action = rows[a].action
         /\ Swept(rows)[a].uses = rows[a].uses
         /\ Swept(rows)[a].max_uses = rows[a].max_uses
BY DEF Swept, Rows, Past

\* Policies touch neither tasks nor decisions.
LEMMA PolicyLeaves == Policy => UNCHANGED <<taskVars, approval, decided, proc, node_row, link, ghostVars>>
BY DEF Policy, PutTenantPolicy, DeleteTenantPolicy, SetToolPolicy

\* No decision request takes back a decision that was made, and none touches a task.
LEMMA DecisionsSteady ==
  ASSUME TypeOK, Decisions
  PROVE  Steady /\ UNCHANGED <<taskVars, proc, node_row, link, ghostVars>>
<1> USE DEF Steady, Past
<1>1. ASSUME NEW a \in Approvals, NEW act \in Actions, NEW uses \in 1 .. MaxUses,
             RequestApproval(a, act, uses)
      PROVE  Steady /\ UNCHANGED <<taskVars, proc, node_row, link, ghostVars>>
  BY <1>1 DEF RequestApproval, TypeOK
<1>2. ASSUME NEW a \in Approvals, NEW decision \in {"approved", "rejected"},
             NEW uses \in 1 .. MaxUses, DecideApproval(a, decision, uses)
      PROVE  Steady /\ UNCHANGED <<taskVars, proc, node_row, link, ghostVars>>
  BY <1>2 DEF DecideApproval, TypeOK
<1>3. ASSUME NEW a \in Approvals, RevokeApproval(a) \/ Lapse(a)
      PROVE  Steady /\ UNCHANGED <<taskVars, proc, node_row, link, ghostVars>>
  <2>1. DOMAIN approval = Approvals /\ approval[a] \in Rows BY DEF TypeOK
  <2>2. CASE RevokeApproval(a) BY <2>1, <2>2 DEF RevokeApproval, Rows
  <2>3. CASE Lapse(a) BY <2>1, <2>3 DEF Lapse, Rows
  <2>4. QED BY <1>3, <2>2, <2>3
<1>4. CASE ExpireStaleApprovals
  BY <1>4, SweptSteady DEF ExpireStaleApprovals, TypeOK
<1>5. QED BY <1>1, <1>2, <1>3, <1>4 DEF Decisions

\* No task handler takes back a task's row or a decision that was made.
LEMMA HandlerSteady ==
  ASSUME TypeOK, InHand, NEW p \in Procs, HandlerStep(p)
  PROVE  Steady
<1> USE DEF Steady
<1>1. proc[p] \in Calls BY DEF TypeOK
<1>2. ASSUME NEW t \in Tasks, CreateWrite(p, t)
      PROVE  Steady
  <2>1. \A u \in Tasks : status[u] # "absent" =>
          status'[u] # "absent" /\ approval_of'[u] = approval_of[u] /\ action'[u] = action[u]
    BY <1>2 DEF CreateWrite, TypeOK
  <2> DEFINE a == proc[p].approval
             counted == [approval EXCEPT ![a].uses = @ + 1]
  <2>2. CASE a = None BY <1>2, <2>1, <2>2 DEF CreateWrite
  <2>3. CASE a # None
    <3>1. a \in Approvals BY <1>1, <2>3 DEF Calls
    <3>2. counted \in [Approvals -> Rows]
      BY <1>2, <2>3, <3>1, RowsKept DEF CreateWrite, Consumable, TypeOK
    <3>3. \A b \in Approvals : counted[b].state = approval[b].state /\ counted[b].action = approval[b].action
      BY <3>1 DEF TypeOK, Rows
    <3>4. approval' = Swept(counted) BY <1>2, <2>3 DEF CreateWrite
    <3>5. QED BY <2>1, <3>2, <3>3, <3>4, SweptSteady
  <2>4. QED BY <2>2, <2>3
<1>3. CASE MoveWrite(p)
  <2>1. proc[p].to # "absent"
    BY <1>3 DEF MoveWrite, InHand, Carries, Statuses, Active, Terminal
  <2>2. QED BY <1>3, <2>1 DEF MoveWrite, TypeOK
<1>4. CASE MarkWrite(p) BY <1>4 DEF MarkWrite, TypeOK
<1>5. ASSUME Claim(p)
      PROVE  Steady
  BY <1>5 DEF Claim, TypeOK
<1>6. ASSUME UNCHANGED <<taskVars, approval>>
      PROVE  Steady
  BY <1>6
<1>7. CASE Request(p) BY <1>2, <1>6, <1>7 DEF Request, CreateRead, CreateRefused, Heartbeat
<1>8. CASE Move(p) BY <1>3, <1>6, <1>8 DEF Move, MoveRead, MoveCheck, MoveRefused
<1>9. CASE Channel(p)
  BY <1>5, <1>6, <1>9 DEF Channel, Connect, Sync, AssignCheck, Bye, Drop, RecordDisconnect
<1>10. QED BY <1>4, <1>7, <1>8, <1>9 DEF HandlerStep

\* A handler changes its own connection and its own place, and takes no lock from another.
LEMMA OnlyItsOwn ==
  ASSUME TypeOK, NEW p \in Procs, HandlerStep(p), NEW q \in Procs, q # p
  PROVE  /\ proc'[q] = proc[q]
         /\ q \in Connections => link'[q] = link[q]
         /\ node_row = q => node_row' = q
<1>1. DOMAIN proc = Procs /\ DOMAIN link = Connections /\ q # None BY NullAssump DEF TypeOK
<1> USE <1>1 DEF Finish, Unlocked, Locks, MarkBegins, AssignBegins
<1>2. CASE Request(p)
  <2>1. ASSUME NEW act \in Actions, CreateRead(p, act)
        PROVE  proc'[q] = proc[q] /\ UNCHANGED <<link, node_row>>
    BY <2>1 DEF CreateRead
  <2>2. ASSUME (\E t \in Tasks : CreateWrite(p, t)) \/ CreateRefused(p)
        PROVE  proc'[q] = proc[q] /\ link' = link /\ (node_row = q => node_row' = q)
    BY <2>2 DEF CreateWrite, CreateRefused
  <2>3. CASE Heartbeat(p) BY <2>3 DEF Heartbeat
  <2>4. QED BY <1>2, <2>1, <2>2, <2>3 DEF Request
<1>3. CASE Move(p) BY <1>3 DEF Move, MoveRead, MoveCheck, MoveWrite, MoveRefused
<1>4. CASE MarkWrite(p) BY <1>4 DEF MarkWrite
<1>5. CASE Channel(p)
  <2>1. CASE Connect(p) \/ Sync(p) BY <2>1 DEF Connect, Sync
  <2>2. CASE AssignCheck(p)
    <3>1. CASE Finish(p) BY <2>2, <3>1 DEF AssignCheck
    <3>2. CASE ~Finish(p)
      <4>1. PICK t \in Tasks :
               proc' = [proc EXCEPT ![p].at = "claim", ![p].task = t,
                                    ![p].approval = approval_of[t], ![p].policy = DefaultPolicy]
        BY <2>2, <3>2 DEF AssignCheck
      <4>2. QED BY <2>2, <3>2, <4>1 DEF AssignCheck
    <3>3. QED BY <3>1, <3>2
  <2>3. CASE Claim(p) \/ Drop(p) BY <2>3 DEF Claim, Drop
  <2>4. CASE Bye(p) \/ RecordDisconnect(p) BY <2>4 DEF Bye, RecordDisconnect
  <2>5. QED BY <1>5, <2>1, <2>2, <2>3, <2>4 DEF Channel
<1>6. QED BY <1>2, <1>3, <1>4, <1>5 DEF HandlerStep

-----------------------------------------------------------------------------
(* What a handler carries and what it holds                                *)

\* What a waiting handler read is still so after another's commit.
LEMMA StillCarries ==
  ASSUME TypeOK, Steady, NEW q \in Procs, Carries(q), proc'[q] = proc[q]
  PROVE  Carries(q)'
<1>1. proc[q] \in Calls BY DEF TypeOK
<1>2. proc[q].approval \in Approvals \cup {None} BY <1>1 DEF Calls
<1>3. QED BY <1>2 DEF Steady, Carries

\* A handler that commits or rolls back carries and holds nothing.
LEMMA FinishIsIdle ==
  ASSUME TypeOK, NEW p \in Procs, Finish(p)
  PROVE  Carries(p)' /\ Holds(p)'
<1>1. proc'[p].at = "idle" BY DEF Finish, NoCall, TypeOK
<1>2. QED BY <1>1 DEF Carries, Holds

\* What a handler carries out of its own step is what it just read: a live decision for the
\* action it creates, an edge of the table, the decision of the task it is about to claim.
LEMMA OwnCarries ==
  ASSUME TypeOK, InHand, NEW p \in Procs, HandlerStep(p)
  PROVE  Carries(p)'
<1>1. /\ proc[p] \in Calls /\ DOMAIN proc = Procs
      /\ DOMAIN proc[p] = {"at", "task", "to", "action", "approval", "policy", "running"}
  BY DEF TypeOK, Calls
<1>2. Carries(p) BY DEF InHand
<1>3. ASSUME NEW act \in Actions, CreateRead(p, act)
      PROVE  Carries(p)'
  <2> DEFINE mode == action_mode(act, policy)
             a == IF mode = "ask" THEN available_approval(act) ELSE None
  <2>1. mode = "auto" \/ (mode = "ask" /\ a # None) BY <1>3 DEF CreateRead
  <2>2. act \in Effectful => a # None BY <2>1, EffectNeedsDecision DEF TypeOK
  <2>3. a # None => approval[a].state \in Past /\ approval[a].action = act
    BY AvailableIsLive DEF Live, Past
  <2>4. proc'[p].at = "create" /\ proc'[p].action = act /\ proc'[p].approval = a /\ approval' = approval
    BY <1>1, <1>3 DEF CreateRead
  <2> HIDE DEF a
  <2>5. QED BY <2>2, <2>3, <2>4 DEF Carries
<1>4. ASSUME MarkBegins(p) PROVE Carries(p)'
  <2>1. proc'[p].at = "mark" BY <1>1, <1>4 DEF MarkBegins
  <2>2. QED BY <2>1 DEF Carries
<1>5. CASE Request(p)
  BY <1>3, <1>4, <1>5, FinishIsIdle DEF Request, CreateWrite, CreateRefused, Heartbeat
<1>6. ASSUME NEW t \in Tasks, NEW to \in Reports, MoveRead(p, t, to)
      PROVE  Carries(p)'
  <2>1. proc'[p].at \in {"check", "write"} /\ proc'[p].to = to BY <1>1, <1>6 DEF MoveRead
  <2>2. to \in Statuses BY ReportAssump DEF Statuses, Active, Terminal
  <2>3. QED BY <2>1, <2>2 DEF Carries
<1>7. CASE MoveCheck(p)
  <2>1. CASE Finish(p) BY <2>1, FinishIsIdle
  <2>2. CASE proc' = [proc EXCEPT ![p].at = "write"]
    <3>1. proc'[p].at = "write" /\ proc'[p].to = proc[p].to /\ proc[p].at = "check"
      BY <1>1, <1>7, <2>2 DEF MoveCheck
    <3>2. QED BY <1>2, <3>1 DEF Carries
  <2>3. QED BY <1>7, <2>1, <2>2 DEF MoveCheck
<1>8. CASE Move(p) BY <1>6, <1>7, <1>8, FinishIsIdle DEF Move, MoveWrite, MoveRefused
<1>9. CASE MarkWrite(p) BY <1>9, FinishIsIdle DEF MarkWrite
<1>10. ASSUME AssignBegins(p) PROVE Carries(p)'
  <2>1. proc'[p].at = "assign" BY <1>1, <1>10 DEF AssignBegins
  <2>2. QED BY <2>1 DEF Carries
<1>11. CASE AssignCheck(p)
  <2>1. CASE Finish(p) BY <2>1, FinishIsIdle
  <2>2. ASSUME NEW t \in Tasks, status[t] = "queued",
               proc' = [proc EXCEPT ![p].at = "claim", ![p].task = t,
                                    ![p].approval = approval_of[t], ![p].policy = DefaultPolicy]
        PROVE  Carries(p)'
    <3>1. proc'[p].at = "claim" /\ proc'[p].task = t /\ proc'[p].approval = approval_of[t]
      BY <1>1, <2>2
    <3>2. UNCHANGED <<status, approval_of>> BY <1>11 DEF AssignCheck
    <3>3. QED BY <2>2, <3>1, <3>2 DEF Carries
  <2>3. QED BY <1>11, <2>1, <2>2 DEF AssignCheck
<1>12. CASE Channel(p)
  BY <1>4, <1>10, <1>11, <1>12, FinishIsIdle
  DEF Channel, Connect, Sync, Claim, Bye, Drop, RecordDisconnect
<1>13. QED BY <1>5, <1>8, <1>9, <1>12 DEF HandlerStep

\* While a handler holds the node's row nobody hands a task out: another's step makes a task
\* run only by a status request.
LEMMA MarkedStays ==
  ASSUME TypeOK, InHand, Locked, NEW p \in Procs, HandlerStep(p),
         NEW q \in Procs, q # p, proc[q].at = "mark",
         NEW t \in Tasks, status'[t] = "running"
  PROVE  t \in proc[q].running \cup resumed'
<1>1. Holds(p) /\ Holds(q) BY DEF Locked
<1>2. node_row = q BY <1>1 DEF Holds
<1>3. status[t] = "running" => t \in proc[q].running \cup resumed BY <1>1 DEF Holds
<1>4. proc[p].at \notin {"claim", "mark"} BY <1>1, <1>2 DEF Holds
<1>5. CASE Request(p)
  BY <1>3, <1>5 DEF Request, CreateRead, CreateWrite, CreateRefused, Heartbeat, TypeOK
<1>6. CASE Move(p)
  BY <1>3, <1>6 DEF Move, MoveRead, MoveCheck, MoveWrite, MoveRefused, TypeOK
<1>7. CASE MarkWrite(p) BY <1>4, <1>7 DEF MarkWrite
<1>8. CASE Channel(p)
  BY <1>3, <1>4, <1>8 DEF Channel, Connect, Sync, AssignCheck, Claim, Bye, Drop, RecordDisconnect
<1>9. QED BY <1>5, <1>6, <1>7, <1>8 DEF HandlerStep

\* A handler's own step leaves it the row it locked, or done with it.
LEMMA OwnHolds ==
  ASSUME TypeOK, InHand, Locked, NEW p \in Procs, HandlerStep(p)
  PROVE  Holds(p)'
<1>1. /\ proc[p] \in Calls /\ DOMAIN proc = Procs
      /\ DOMAIN proc[p] = {"at", "task", "to", "action", "approval", "policy", "running"}
  BY DEF TypeOK, Calls
<1>2. Holds(p) BY DEF Locked
<1>3. ASSUME NEW act \in Actions, CreateRead(p, act)
      PROVE  Holds(p)'
  <2>1. proc'[p].at = "create" BY <1>1, <1>3 DEF CreateRead
  <2>2. QED BY <2>1 DEF Holds
<1>4. ASSUME MarkBegins(p), UNCHANGED status PROVE Holds(p)'
  <2>1. /\ proc'[p].at = "mark" /\ node_row' = p
        /\ proc'[p].running = {t \in Tasks : status[t] = "running"}
    BY <1>1, <1>4 DEF MarkBegins, Locks
  <2>2. QED BY <1>4, <2>1 DEF Holds
<1>5. CASE Request(p)
  BY <1>3, <1>4, <1>5, FinishIsIdle DEF Request, CreateWrite, CreateRefused, Heartbeat
<1>6. ASSUME proc'[p].at \in {"check", "write"} PROVE Holds(p)'
  BY <1>6 DEF Holds
<1>7. CASE Move(p)
  <2>1. ASSUME NEW t \in Tasks, NEW to \in Reports, MoveRead(p, t, to)
        PROVE  proc'[p].at \in {"check", "write"}
    BY <1>1, <2>1 DEF MoveRead
  <2>2. ASSUME MoveCheck(p), ~Finish(p) PROVE proc'[p].at = "write"
    BY <1>1, <2>2 DEF MoveCheck
  <2>3. QED BY <1>6, <1>7, <2>1, <2>2, FinishIsIdle DEF Move, MoveWrite, MoveRefused
<1>8. CASE MarkWrite(p) BY <1>8, FinishIsIdle DEF MarkWrite
<1>9. ASSUME p \in Connections, AssignBegins(p), link'[p] = "open" PROVE Holds(p)'
  <2>1. proc'[p].at = "assign" /\ node_row' = p BY <1>1, <1>9 DEF AssignBegins, Locks
  <2>2. QED BY <1>9, <2>1 DEF Holds
<1>10. CASE AssignCheck(p)
  <2>1. CASE Finish(p) BY <2>1, FinishIsIdle
  <2>2. ASSUME NEW t \in Tasks, UNCHANGED node_row,
               proc' = [proc EXCEPT ![p].at = "claim", ![p].task = t,
                                    ![p].approval = approval_of[t], ![p].policy = DefaultPolicy]
        PROVE  Holds(p)'
    <3>1. proc'[p].at = "claim" /\ proc[p].at = "assign" /\ UNCHANGED link
      BY <1>1, <1>10, <2>2 DEF AssignCheck
    <3>2. QED BY <1>2, <2>2, <3>1 DEF Holds
  <2>3. QED BY <1>10, <2>1, <2>2 DEF AssignCheck
<1>11. ASSUME p \in Connections, Channel(p)
       PROVE  Holds(p)'
  <2>1. CASE Connect(p) BY <1>9, <1>11, <2>1 DEF Connect, TypeOK
  <2>2. CASE Sync(p) BY <1>9, <1>11, <2>2 DEF Sync, MayCall
  <2>3. CASE Bye(p) \/ RecordDisconnect(p) BY <1>4, <2>3 DEF Bye, RecordDisconnect
  <2>4. CASE Claim(p) \/ Drop(p) BY <2>4, FinishIsIdle DEF Claim, Drop
  <2>5. QED BY <1>10, <1>11, <2>1, <2>2, <2>3, <2>4 DEF Channel
<1>12. QED BY <1>5, <1>7, <1>8, <1>11 DEF HandlerStep

\* InHand and Locked after a handler's step.
LEMMA HandlersKept ==
  ASSUME TypeOK, InHand, Locked, NEW p \in Procs, HandlerStep(p)
  PROVE  InHand' /\ Locked'
<1>1. ASSUME NEW q \in Procs PROVE Carries(q)'
  <2>1. CASE q = p BY <2>1, OwnCarries
  <2>2. CASE q # p
    <3>1. proc'[q] = proc[q] BY <2>2, OnlyItsOwn
    <3>2. Carries(q) BY DEF InHand
    <3>3. QED BY <3>1, <3>2, HandlerSteady, StillCarries
  <2>3. QED BY <2>1, <2>2
<1>2. ASSUME NEW q \in Procs PROVE Holds(q)'
  <2>1. CASE q = p BY <2>1, OwnHolds
  <2>2. CASE q # p
    <3>1. proc'[q] = proc[q] /\ (q \in Connections => link'[q] = link[q]) /\ (node_row = q => node_row' = q)
      BY <2>2, OnlyItsOwn
    <3>2. Holds(q) BY DEF Locked
    <3>3. proc[q].at = "mark" =>
            \A t \in Tasks : status'[t] = "running" => t \in proc[q].running \cup resumed'
      BY <2>2, MarkedStays
    <3>4. QED BY <3>1, <3>2, <3>3 DEF Holds
  <2>3. QED BY <2>1, <2>2
<1>3. QED BY <1>1, <1>2 DEF InHand, Locked

-----------------------------------------------------------------------------
(* The properties, step by step                                            *)

\* A task that is stored for the first time adds itself to the tasks of its decision.
LEMMA OneMoreTask ==
  ASSUME TypeOK, NEW t \in Tasks, approval_of[t] = None, NEW a \in Approvals,
         approval_of' = [approval_of EXCEPT ![t] = a]
  PROVE  Cardinality({u \in Tasks : approval_of'[u] = a})
           = Cardinality({u \in Tasks : approval_of[u] = a}) + 1
<1> DEFINE S == {u \in Tasks : approval_of[u] = a}
<1>1. {u \in Tasks : approval_of'[u] = a} = S \cup {t} BY DEF TypeOK
<1>2. t \notin S BY NullAssump
<1>3. IsFiniteSet(S) BY TaskAssump, FS_Subset
<1>4. Cardinality(S \cup {t}) = Cardinality(S) + 1 BY <1>2, <1>3, FS_AddElement
<1>5. QED BY <1>1, <1>4

\* create_task stores a task under the decision it consumed: the row's use and the task go
\* together, and the decision is the one that was looked up for this action.
LEMMA CreateKept ==
  ASSUME Broker, NEW p \in Procs, NEW t \in Tasks, CreateWrite(p, t)
  PROVE  Settled' /\ UsesAreTasks' /\ EffectIsDecided' /\ RunningIsWatched'
<1> DEFINE a == proc[p].approval
           counted == [approval EXCEPT ![a].uses = @ + 1]
<1>1. TypeOK /\ Settled /\ UsesAreTasks /\ EffectIsDecided /\ RunningIsWatched /\ Carries(p)
  BY DEF Broker, InHand
<1>2. proc[p] \in Calls BY <1>1 DEF TypeOK
<1>3. a \in Approvals \cup {None} BY <1>2 DEF Calls
<1>4. status[t] = "absent" /\ approval_of[t] = None BY <1>1 DEF CreateWrite, Settled
<1>5. ASSUME a # None
      PROVE  /\ counted \in [Approvals -> Rows] /\ approval' = Swept(counted)
             /\ \A b \in Approvals :
                  /\ counted[b].state = approval[b].state /\ counted[b].action = approval[b].action
                  /\ counted[b].max_uses = approval[b].max_uses
                  /\ counted[b].uses = IF b = a THEN approval[b].uses + 1 ELSE approval[b].uses
             /\ approval[a].state \notin {"absent", "pending"} /\ approval[a].uses < approval[a].max_uses
  <2>1. counted \in [Approvals -> Rows] BY <1>1, <1>3, <1>5, RowsKept DEF CreateWrite, Consumable, TypeOK
  <2>2. \A b \in Approvals : approval[b] \in Rows BY <1>1 DEF TypeOK
  <2>3. DOMAIN approval = Approvals BY <1>1 DEF TypeOK
  <2>4. ASSUME NEW b \in Approvals
        PROVE  /\ counted[b].state = approval[b].state /\ counted[b].action = approval[b].action
               /\ counted[b].max_uses = approval[b].max_uses
               /\ counted[b].uses = IF b = a THEN approval[b].uses + 1 ELSE approval[b].uses
    BY <1>3, <1>5, <2>2, <2>3 DEF Rows
  <2>5. QED BY <1>5, <2>1, <2>4 DEF CreateWrite, Consumable, Live
<1> HIDE DEF counted
<1>6. \A b \in Approvals :
        /\ approval'[b].state \in {"absent", "pending"} <=> approval[b].state \in {"absent", "pending"}
        /\ approval'[b].state \in Past <=> approval[b].state \in Past
        /\ approval'[b].action = approval[b].action /\ approval'[b].max_uses = approval[b].max_uses
        /\ approval'[b].uses = IF b = a THEN approval[b].uses + 1 ELSE approval[b].uses
  <2>1. CASE a # None
    <3> TAKE b \in Approvals
    <3>1. /\ approval'[b].state \in Past <=> counted[b].state \in Past
          /\ approval'[b].state \in {"absent", "pending"} <=> counted[b].state \in {"absent", "pending"}
          /\ approval'[b].action = counted[b].action
          /\ approval'[b].uses = counted[b].uses
          /\ approval'[b].max_uses = counted[b].max_uses
      BY <1>5, <2>1, SweptSteady
    <3>2. QED BY <1>5, <2>1, <3>1
  <2>2. CASE a = None
    <3>1. approval' = approval /\ \A b \in Approvals : b # a BY <2>2, NullAssump DEF CreateWrite
    <3>2. QED BY <3>1
  <2>3. QED BY <2>1, <2>2
<1>7. /\ DOMAIN status = Tasks /\ DOMAIN approval_of = Tasks /\ DOMAIN action = Tasks
      /\ \A b \in Approvals : approval[b].uses \in Nat /\ approval[b].max_uses \in Nat
  BY <1>1, UsesAssump DEF TypeOK, Rows
<1>8. Settled'
  <2>1. \A u \in Tasks : status'[u] = "absent" => approval_of'[u] = None /\ action'[u] = None
    BY <1>1, <1>7 DEF CreateWrite, Settled
  <2>2. ASSUME NEW b \in Approvals, approval'[b].state \in {"absent", "pending"}
        PROVE  approval'[b].uses = 0
    <3>1. approval[b].state \in {"absent", "pending"} BY <1>6, <2>2
    <3>2. b # a BY <1>5, <3>1, NullAssump
    <3>3. approval[b].uses = 0 BY <1>1, <3>1 DEF Settled
    <3>4. QED BY <1>6, <3>2, <3>3
  <2>3. QED BY <2>1, <2>2 DEF Settled
<1>9. UsesAreTasks'
  <2> SUFFICES ASSUME NEW b \in Approvals
               PROVE  /\ approval'[b].uses = Cardinality({u \in Tasks : approval_of'[u] = b})
                      /\ approval'[b].uses <= approval'[b].max_uses
    BY DEF UsesAreTasks
  <2>1. approval[b].uses = Cardinality({u \in Tasks : approval_of[u] = b})
    BY <1>1 DEF UsesAreTasks
  <2>2. approval[b].uses <= approval[b].max_uses BY <1>1 DEF UsesAreTasks
  <2>3. approval_of' = [approval_of EXCEPT ![t] = a] BY DEF CreateWrite
  <2>4. CASE b = a
    <3>1. Cardinality({u \in Tasks : approval_of'[u] = b}) = approval[b].uses + 1
      BY <1>1, <1>4, <2>1, <2>3, <2>4, OneMoreTask
    <3>2. approval[b].uses < approval[b].max_uses BY <1>5, <2>4, NullAssump
    <3>3. QED BY <1>6, <1>7, <2>4, <3>1, <3>2
  <2>5. CASE b # a
    <3>1. {u \in Tasks : approval_of'[u] = b} = {u \in Tasks : approval_of[u] = b}
      BY <1>4, <1>7, <2>3, <2>5, NullAssump
    <3>2. QED BY <1>6, <2>1, <2>2, <2>5, <3>1
  <2>6. QED BY <2>4, <2>5
<1>10. EffectIsDecided'
  <2> SUFFICES ASSUME NEW u \in Tasks, action'[u] \in Effectful
               PROVE  /\ approval_of'[u] # None
                      /\ approval'[approval_of'[u]].action = action'[u]
                      /\ approval'[approval_of'[u]].state \in Past
    BY DEF EffectIsDecided, Past
  <2>1. CASE u = t
    <3>1. approval_of'[u] = a /\ action'[u] = proc[p].action BY <1>7, <2>1 DEF CreateWrite
    <3>2. a # None /\ approval[a].state \in Past /\ approval[a].action = proc[p].action
      BY <1>1, <3>1 DEF Carries, CreateWrite
    <3>3. QED BY <1>3, <1>6, <3>1, <3>2
  <2>2. CASE u # t
    <3>1. approval_of'[u] = approval_of[u] /\ action'[u] = action[u] BY <1>7, <2>2 DEF CreateWrite
    <3>2. /\ approval_of[u] # None /\ approval[approval_of[u]].action = action[u]
          /\ approval[approval_of[u]].state \in Past
      BY <1>1, <3>1 DEF EffectIsDecided, Past
    <3>3. approval_of[u] \in Approvals BY <1>1, <3>2 DEF TypeOK
    <3>4. QED BY <1>6, <3>1, <3>2, <3>3
  <2>3. QED BY <2>1, <2>2
<1>11. RunningIsWatched'
  BY <1>1, <1>7 DEF CreateWrite, RunningIsWatched
<1>12. QED BY <1>8, <1>9, <1>10, <1>11

\* Asking, deciding, revoking, lapsing and sweeping give no decision a use, and touch no task.
LEMMA DecisionsKept ==
  ASSUME Broker, Decisions
  PROVE  Settled' /\ UsesAreTasks' /\ EffectIsDecided'
<1>1. TypeOK /\ Settled /\ UsesAreTasks /\ EffectIsDecided BY DEF Broker
<1>2. Steady /\ UNCHANGED <<taskVars, proc, node_row, link, ghostVars>> BY <1>1, DecisionsSteady
<1>3. /\ DOMAIN approval = Approvals
      /\ \A b \in Approvals : approval[b].uses \in Nat /\ approval[b].max_uses \in Nat
      /\ \A b \in Approvals : DOMAIN approval[b] = {"state", "action", "uses", "max_uses", "lapsed"}
  BY <1>1, UsesAssump DEF TypeOK, Rows
<1>4. \A b \in Approvals :
        /\ approval'[b].uses = approval[b].uses
        /\ approval'[b].uses <= approval'[b].max_uses
        /\ approval'[b].state \in {"absent", "pending"} => approval'[b].uses = 0
  <2>1. \A b \in Approvals : approval[b].uses <= approval[b].max_uses BY <1>1 DEF UsesAreTasks
  <2>2. \A b \in Approvals : approval[b].state \in {"absent", "pending"} => approval[b].uses = 0
    BY <1>1 DEF Settled
  <2>3. ASSUME NEW a \in Approvals, NEW act \in Actions, NEW uses \in 1 .. MaxUses,
               RequestApproval(a, act, uses), NEW b \in Approvals
        PROVE  /\ approval'[b].uses = approval[b].uses /\ approval'[b].uses <= approval'[b].max_uses
               /\ approval'[b].state \in {"absent", "pending"} => approval'[b].uses = 0
    <3>1. CASE b = a
      <4>1. approval'[b].uses = 0 /\ approval'[b].max_uses = uses
        BY <1>3, <2>3, <3>1 DEF RequestApproval, NoApproval
      <4>2. approval[b].uses = 0 BY <2>2, <2>3, <3>1 DEF RequestApproval
      <4>3. QED BY <4>1, <4>2, UsesAssump
    <3>2. CASE b # a
      <4>1. approval'[b] = approval[b] BY <1>3, <2>3, <3>2 DEF RequestApproval
      <4>2. QED BY <2>1, <2>2, <4>1
    <3>3. QED BY <3>1, <3>2
  <2>4. ASSUME NEW a \in Approvals, NEW decision \in {"approved", "rejected"},
               NEW uses \in 1 .. MaxUses, DecideApproval(a, decision, uses), NEW b \in Approvals
        PROVE  /\ approval'[b].uses = approval[b].uses /\ approval'[b].uses <= approval'[b].max_uses
               /\ approval'[b].state \in {"absent", "pending"} => approval'[b].uses = 0
    <3>1. CASE b = a
      <4>1. approval'[b].uses = approval[b].uses /\ approval'[b].max_uses = uses
        BY <1>3, <2>4, <3>1 DEF DecideApproval
      <4>2. approval[b].uses = 0 BY <2>2, <2>4, <3>1 DEF DecideApproval
      <4>3. QED BY <4>1, <4>2, UsesAssump
    <3>2. CASE b # a
      <4>1. approval'[b] = approval[b] BY <1>3, <2>4, <3>2 DEF DecideApproval
      <4>2. QED BY <2>1, <2>2, <4>1
    <3>3. QED BY <3>1, <3>2
  <2>5. ASSUME NEW a \in Approvals, RevokeApproval(a) \/ Lapse(a), NEW b \in Approvals
        PROVE  /\ approval'[b].uses = approval[b].uses /\ approval'[b].uses <= approval'[b].max_uses
               /\ approval'[b].state \in {"absent", "pending"} => approval'[b].uses = 0
    <3>1. approval'[b].uses = approval[b].uses /\ approval'[b].max_uses = approval[b].max_uses
      <4>1. CASE RevokeApproval(a) BY <1>3, <4>1 DEF RevokeApproval
      <4>2. CASE Lapse(a) BY <1>3, <4>2 DEF Lapse
      <4>3. QED BY <2>5, <4>1, <4>2
    <3>2. approval'[b].state \in {"absent", "pending"} => approval[b].state \in {"absent", "pending"}
      <4>1. CASE RevokeApproval(a) BY <1>3, <4>1 DEF RevokeApproval
      <4>2. CASE Lapse(a) BY <1>3, <4>2 DEF Lapse
      <4>3. QED BY <2>5, <4>1, <4>2
    <3>3. QED BY <2>1, <2>2, <3>1, <3>2
  <2>6. CASE ExpireStaleApprovals
    BY <1>1, <2>1, <2>2, <2>6, SweptSteady DEF ExpireStaleApprovals, TypeOK
  <2>7. QED BY <2>3, <2>4, <2>5, <2>6 DEF Decisions
<1>5. Settled' BY <1>1, <1>2, <1>4 DEF Settled
<1>6. UsesAreTasks'
  <2>1. \A b \in Approvals : Cardinality({u \in Tasks : approval_of'[u] = b})
                               = Cardinality({u \in Tasks : approval_of[u] = b})
    BY <1>2
  <2>2. QED BY <1>1, <1>4, <2>1 DEF UsesAreTasks
<1>7. EffectIsDecided'
  <2> SUFFICES ASSUME NEW u \in Tasks, action'[u] \in Effectful
               PROVE  /\ approval_of'[u] # None
                      /\ approval'[approval_of'[u]].action = action'[u]
                      /\ approval'[approval_of'[u]].state \in Past
    BY DEF EffectIsDecided, Past
  <2>1. approval_of'[u] = approval_of[u] /\ action'[u] = action[u] BY <1>2
  <2>2. /\ approval_of[u] # None /\ approval[approval_of[u]].action = action[u]
        /\ approval[approval_of[u]].state \in Past
    BY <1>1, <2>1 DEF EffectIsDecided, Past
  <2>3. approval_of[u] \in Approvals BY <1>1, <2>2 DEF TypeOK
  <2>4. QED BY <1>2, <2>1, <2>2, <2>3 DEF Steady
<1>8. QED BY <1>5, <1>6, <1>7

\* However a connection ends or a handler is cancelled, a task that runs has somebody: a claim
\* is made over the connection that holds the row, and its end marks what was claimed.
LEMMA WatchKept ==
  ASSUME Broker, NEW p \in Procs, HandlerStep(p), \A t \in Tasks : ~CreateWrite(p, t)
  PROVE  RunningIsWatched'
<1>1. TypeOK /\ RunningIsWatched /\ Holds(p) /\ Carries(p) BY DEF Broker, Locked, InHand
<1>2. /\ DOMAIN status = Tasks /\ DOMAIN link = Connections /\ DOMAIN handed = Tasks
      /\ \A t \in Tasks : handed[t] \subseteq Connections
  BY <1>1 DEF TypeOK
<1>3. ASSUME UNCHANGED <<status, handed, resumed>>,
             \A c \in Connections : link[c] # "closed" => link'[c] # "closed"
      PROVE  RunningIsWatched'
  BY <1>1, <1>2, <1>3 DEF RunningIsWatched
<1>4. CASE Request(p)
  BY <1>3, <1>4 DEF Request, CreateRead, CreateRefused, Heartbeat
<1>5. CASE MoveWrite(p)
  BY <1>1, <1>2, <1>5 DEF MoveWrite, RunningIsWatched
<1>6. CASE MoveRefused(p)
  <2>1. \A c \in Connections : link[c] # "closed" => link'[c] # "closed" BY <1>2, <1>6 DEF MoveRefused
  <2>2. QED BY <1>3, <1>6, <2>1 DEF MoveRefused
<1>7. CASE Move(p)
  BY <1>3, <1>5, <1>6, <1>7 DEF Move, MoveRead, MoveCheck
<1>8. CASE MarkWrite(p)
  <2> SUFFICES ASSUME NEW t \in Tasks, status'[t] = "running"
               PROVE  t \in resumed' \/ \E c \in handed'[t] : link'[c] # "closed"
    BY DEF RunningIsWatched
  <2>1. t \notin proc[p].running /\ status[t] = "running" BY <1>2, <1>8 DEF MarkWrite
  <2>2. t \in resumed BY <1>1, <1>8, <2>1 DEF MarkWrite, Holds
  <2>3. QED BY <1>8, <2>1, <2>2 DEF MarkWrite
<1>9. ASSUME p \in Connections, Claim(p)
      PROVE  RunningIsWatched'
  <2>1. link[p] = "open" /\ link' = link BY <1>1, <1>9 DEF Claim, Holds
  <2>2. proc[p].task \in Tasks BY <1>1, <1>9 DEF Claim, Carries
  <2>3. CASE Claimable(proc[p].task, proc[p].approval)
    BY <1>1, <1>2, <1>9, <2>1, <2>2, <2>3 DEF Claim, RunningIsWatched
  <2>4. CASE ~Claimable(proc[p].task, proc[p].approval)
    BY <1>3, <1>9, <2>1, <2>4 DEF Claim
  <2>5. QED BY <2>3, <2>4
<1>10. ASSUME p \in Connections, Channel(p)
       PROVE  RunningIsWatched'
  <2>1. CASE Connect(p)
    <3>1. \A c \in Connections : link[c] # "closed" => link'[c] # "closed" BY <1>2, <2>1 DEF Connect
    <3>2. QED BY <1>3, <2>1, <3>1 DEF Connect
  <2>2. CASE Drop(p)
    <3>1. \A c \in Connections : link[c] # "closed" => link'[c] # "closed" BY <1>2, <2>2 DEF Drop
    <3>2. QED BY <1>3, <2>2, <3>1 DEF Drop
  <2>3. QED BY <1>3, <1>9, <1>10, <2>1, <2>2 DEF Channel, Sync, AssignCheck, Bye, RecordDisconnect
<1>11. QED BY <1>4, <1>7, <1>8, <1>10 DEF HandlerStep

\* Nothing but create_task changes a task's decision or counts a use.
LEMMA RecordsKept ==
  ASSUME Broker, NEW p \in Procs, HandlerStep(p), \A t \in Tasks : ~CreateWrite(p, t)
  PROVE  Settled' /\ UsesAreTasks' /\ EffectIsDecided'
<1>1. TypeOK /\ InHand /\ Settled /\ UsesAreTasks /\ EffectIsDecided BY DEF Broker
<1>2. UNCHANGED <<action, approval_of, approval>>
  <2>1. CASE Request(p) BY <2>1 DEF Request, CreateRead, CreateRefused, Heartbeat
  <2>2. CASE Move(p) BY <2>2 DEF Move, MoveRead, MoveCheck, MoveWrite, MoveRefused
  <2>3. CASE MarkWrite(p) BY <2>3 DEF MarkWrite
  <2>4. CASE Channel(p)
    BY <2>4 DEF Channel, Connect, Sync, AssignCheck, Claim, Bye, Drop, RecordDisconnect
  <2>5. QED BY <2>1, <2>2, <2>3, <2>4 DEF HandlerStep
<1>3. \A t \in Tasks : status[t] # "absent" => status'[t] # "absent"
  BY <1>1, HandlerSteady DEF Steady
<1>4. QED BY <1>1, <1>2, <1>3 DEF Settled, UsesAreTasks, EffectIsDecided

-----------------------------------------------------------------------------
(* The theorems                                                            *)

\* The broker starts with no task, no decision, no handler and nobody connected.
LEMMA BrokerInit == Init => Broker
<1> SUFFICES ASSUME Init PROVE Broker OBVIOUS
<1>1. NoCall \in Calls BY DEF NoCall, Calls, DefaultPolicy, Policies
<1>2. NoApproval \in Rows BY UsesAssump DEF NoApproval, Rows
<1>3. TypeOK
  BY <1>1, <1>2 DEF Init, TypeOK, DefaultPolicy, Policies
<1>4. Settled BY DEF Init, Settled, NoApproval
<1>5. InHand /\ Locked BY DEF Init, InHand, Locked, Carries, Holds, NoCall
<1>6. UsesAreTasks
  <2> SUFFICES ASSUME NEW a \in Approvals
               PROVE  /\ approval[a].uses = Cardinality({t \in Tasks : approval_of[t] = a})
                      /\ approval[a].uses <= approval[a].max_uses
    BY DEF UsesAreTasks
  <2>1. {t \in Tasks : approval_of[t] = a} = {} BY NullAssump DEF Init
  <2>2. approval[a].uses = 0 /\ approval[a].max_uses = 0 BY DEF Init, NoApproval
  <2>3. QED BY <2>1, <2>2, FS_EmptySet
<1>7. EffectIsDecided BY NullAssump DEF Init, EffectIsDecided, Actions
<1>8. RunningIsWatched BY DEF Init, RunningIsWatched
<1>9. QED BY <1>3, <1>4, <1>5, <1>6, <1>7, <1>8 DEF Broker

\* Every request, channel message, decision, policy change and disconnect preserves the broker's invariant.
LEMMA BrokerStep == Broker /\ [Next]_vars => Broker'
<1> SUFFICES ASSUME Broker, [Next]_vars PROVE Broker' OBVIOUS
<1>1. /\ TypeOK /\ Settled /\ InHand /\ Locked
      /\ UsesAreTasks /\ EffectIsDecided /\ RunningIsWatched
  BY DEF Broker
<1>2. ASSUME UNCHANGED <<taskVars, approval, proc, node_row, link, ghostVars>>
      PROVE  Settled' /\ InHand' /\ Locked' /\ UsesAreTasks' /\ EffectIsDecided' /\ RunningIsWatched'
  <2>1. Settled' /\ UsesAreTasks' /\ EffectIsDecided' /\ RunningIsWatched'
    BY <1>1, <1>2 DEF Settled, UsesAreTasks, EffectIsDecided, RunningIsWatched
  <2>2. InHand' /\ Locked' BY <1>1, <1>2 DEF InHand, Locked, Carries, Holds
  <2>3. QED BY <2>1, <2>2
<1>3. CASE Policy
  BY <1>1, <1>2, <1>3, TypedPolicy, PolicyLeaves DEF Broker
<1>4. CASE Decisions
  <2>1. Steady /\ UNCHANGED <<taskVars, proc, node_row, link, ghostVars>> BY <1>1, <1>4, DecisionsSteady
  <2>2. InHand' BY <1>1, <2>1, StillCarries DEF InHand
  <2>3. Locked' /\ RunningIsWatched' BY <1>1, <2>1 DEF Locked, Holds, RunningIsWatched
  <2>4. QED BY <1>1, <1>4, <2>2, <2>3, TypedDecisions, DecisionsKept DEF Broker
<1>5. ASSUME NEW p \in Procs, HandlerStep(p)
      PROVE  Broker'
  <2>1. TypeOK' /\ InHand' /\ Locked' BY <1>1, <1>5, TypedHandler, HandlersKept
  <2>2. CASE \E t \in Tasks : CreateWrite(p, t) BY <2>1, <2>2, CreateKept DEF Broker
  <2>3. CASE \A t \in Tasks : ~CreateWrite(p, t)
    BY <1>5, <2>1, <2>3, RecordsKept, WatchKept DEF Broker
  <2>4. QED BY <2>2, <2>3
<1>6. CASE UNCHANGED vars
  <2>1. TypeOK' BY <1>1, <1>6 DEF TypeOK, vars
  <2>2. QED BY <1>2, <1>6, <2>1 DEF Broker, vars
<1>7. QED BY <1>3, <1>4, <1>5, <1>6 DEF Next, HandlerStep, Procs

\* The broker's invariant holds in every reachable state.
THEOREM BrokerInvariant == Spec => []Broker
BY BrokerInit, BrokerStep, PTL DEF Spec

\* consume_approval and the task go into one transaction: a decision has authorised exactly as
\* many tasks as it counts, and no more than it allows, whoever else found the same use.
THEOREM UsesTheorem == Spec => []UsesAreTasks
<1>1. Broker => UsesAreTasks BY DEF Broker
<1>2. QED BY <1>1, BrokerInvariant, PTL

\* An effectful task is on record only under a decision that was made for exactly its action,
\* whatever table or risk the tenant stored before or since.
THEOREM EffectTheorem == Spec => []EffectIsDecided
<1>1. Broker => EffectIsDecided BY DEF Broker
<1>2. QED BY <1>1, BrokerInvariant, PTL

\* A running task has an unfinished connection that was given it, or a request put it there.
THEOREM WatchTheorem == Spec => []RunningIsWatched
<1>1. Broker => RunningIsWatched BY DEF Broker
<1>2. QED BY <1>1, BrokerInvariant, PTL

\* Only claim_queued_task hands a task out, and its WHERE clause asks again for what
\* assign_queued_tasks looked at before.
LEMMA HandedIsClaimed ==
  ASSUME Broker, [Next]_vars, NEW t \in Tasks, handed'[t] # handed[t]
  PROVE  status[t] = "queued" /\ (approval_of[t] # None => Live(approval_of[t]))
<1>1. TypeOK /\ InHand BY DEF Broker
<1>2. PICK c \in Connections : Claim(c)
  <2>1. ~Policy BY PolicyLeaves
  <2>2. ~Decisions BY <1>1, DecisionsSteady
  <2>3. \A p \in Procs : ~Request(p)
    BY DEF Request, CreateRead, CreateWrite, CreateRefused, Heartbeat
  <2>4. \A p \in Procs : ~Move(p) /\ ~MarkWrite(p)
    BY DEF Move, MoveRead, MoveCheck, MoveWrite, MoveRefused, MarkWrite
  <2>5. PICK c \in Connections : Channel(c) BY <2>1, <2>2, <2>3, <2>4 DEF Next, vars, Procs
  <2>6. Claim(c)
    BY <2>5 DEF Channel, Connect, Sync, AssignCheck, Bye, Drop, RecordDisconnect
  <2>7. QED BY <2>6
<1>3. Carries(c) BY <1>1, <1>2 DEF InHand, Procs
<1>4. Claimable(proc[c].task, proc[c].approval) /\ handed' = [handed EXCEPT ![proc[c].task] = @ \cup {c}]
  BY <1>2 DEF Claim
<1>5. t = proc[c].task BY <1>1, <1>4 DEF TypeOK
<1>6. proc[c].approval = approval_of[t] BY <1>2, <1>3, <1>5 DEF Claim, Carries
<1>7. QED BY <1>4, <1>5, <1>6 DEF Claimable

\* A task under a decision is handed to the node only while that decision stands, although it
\* was checked in an earlier statement and may have been revoked or have lapsed since.
THEOREM ClaimTheorem == Spec => ClaimIsAuthorised
<1>1. Broker /\ [Next]_vars =>
        [\A t \in Tasks : handed'[t] # handed[t] /\ approval_of[t] # None => Live(approval_of[t])]_vars
  BY HandedIsClaimed
<1>2. QED BY <1>1, BrokerInvariant, PTL DEF ClaimIsAuthorised, Spec

\* A task that was cancelled between the selection and the claim is not handed out.
THEOREM CancelledTheorem == Spec => CancelledIsNotHanded
<1>1. Broker /\ [Next]_vars => [\A t \in Tasks : handed'[t] # handed[t] => status[t] \notin Terminal]_vars
  BY HandedIsClaimed DEF Terminal
<1>2. QED BY <1>1, BrokerInvariant, PTL DEF CancelledIsNotHanded, Spec
=============================================================================
