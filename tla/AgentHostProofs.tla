--------------------------- MODULE AgentHostProofs ---------------------------
(***************************************************************************)
(* What the parts of the desktop host that serve the Agent keep, for every *)
(* set of calls, tickets, backups, sessions and schedules and every bound: *)
(* one inductive invariant per part, proved of the part running by itself, *)
(* and the theorem that the run of module MCAgentHost is a run of each.    *)
(***************************************************************************)
EXTENDS MCAgentHost, TLAPS

----------------------------------------------------------------------------
(* Host actions: the host acts only as approved, and once *)

Tickets ==
  {NoTicket} \union [phase : {"pending", "responding", "approved"}, call : ToolCalls, late : BOOLEAN]
CallRows ==
  {NoCall} \union [status : {"running", "success", "failed", "uncertain"}, call : ToolCalls]
ServingWorkers == [at : {"claim", "consume", "run"}, call : ToolCalls, token : BOOLEAN]
KeepingWorkers == [at : {"keep"}, call : ToolCalls, status : {"success", "failed"}]
ReportingWorkers ==
  [at : {"report"}, call : ToolCalls, outcome : {"success", "execution_failed", "transport"},
   token : {TRUE}]

ActionsTyped ==
  /\ offered \in Offers
  /\ tickets \in [ApprovalIds -> Tickets]
  /\ minting = Idle \/ minting \in [at : {"auto"}, call : ToolCalls]
  /\ answer = Idle \/ answer.at = "forward"
       \/ answer \in [at : {"ticket"}, id : ApprovalIds, approve : BOOLEAN]
  /\ calls \in [Calls -> CallRows]
  /\ replays \in [Calls -> {"none", "success", "failed"}]
  /\ worker \in [ActionWorkers -> {Idle} \union ServingWorkers \union KeepingWorkers \union ReportingWorkers]
  /\ handed \subseteq ToolCalls /\ granted \subseteq ToolCalls /\ replied \subseteq ToolCalls
  /\ effects \in [ToolCalls -> Nat]

\* Whoever approved a ticket granted its binding.
TicketIsGranted(a) == tickets[a].phase = "approved" => tickets[a].call \in granted

\* The row of a call id is bound to one call for good ...
IsRow(r) == calls[r.call].status # "none" /\ calls[r.call].call = r
RowIsNamed(c) == calls[c].status # "none" => calls[c].call.call = c

\* ... and blocks every other call of its plan action until it is known to have failed.
Blocks(r) == IsRow(r) /\ calls[r.call].status \in Blocking
BlockingIsOne ==
  \A c, d \in Calls :
    /\ calls[c].status \in Blocking /\ calls[d].status \in Blocking
    /\ calls[c].call.plan /\ calls[d].call.plan /\ calls[c].call.action = calls[d].call.action
    => c = d

\* A worker that claimed its call and has not let it act yet.
Holding(w) == worker[w].at \in {"consume", "run"} /\ worker[w].token

\* An action that has acted is the one its row is bound to.
Acted(r) == r.effect /\ r.via # "execute" => effects[r] > 0

WorkerStands(w) ==
  LET r == worker[w].call IN
  /\ worker[w].at = "claim" => worker[w].token
  /\ worker[w].at = "consume" => worker[w].token /\ r.effect /\ r.via # "mcp"
  /\ worker[w].at = "run" =>
       /\ r.via = "service" => r \in granted
       /\ r.effect => worker[w].token
  /\ Holding(w) =>
       /\ calls[r.call].status = "running" /\ calls[r.call].call = r
       /\ r \notin handed /\ (r.effect => effects[r] = 0)
       /\ \A v \in ActionWorkers : v # w /\ Holding(v) => worker[v].call.call # r.call
  /\ worker[w].at = "report" =>
       /\ r.via = "service" /\ Blocks(r)
       /\ worker[w].outcome = "success" => effects[r] > 0
       /\ \A v \in ActionWorkers : Holding(v) => worker[v].call.call # r.call
  /\ worker[w].at = "keep" => IsRow(r) /\ (worker[w].status = "success" => Acted(r))

CallStands(r) ==
  /\ r \in handed => r.via = "service" /\ r \in granted /\ Blocks(r) /\ effects[r] = 0
  /\ r.effect /\ effects[r] > 0 =>
       /\ effects[r] = 1 /\ IsRow(r)
       /\ r.via = "service" => r \in granted /\ Blocks(r)
  /\ r \in replied => Acted(r)

ReplayStands(c) == replays[c] = "success" => calls[c].status # "none" /\ Acted(calls[c].call)

Licensed ==
  /\ ActionsTyped /\ BlockingIsOne
  /\ \A a \in ApprovalIds : TicketIsGranted(a)
  /\ \A c \in Calls : RowIsNamed(c) /\ ReplayStands(c)
  /\ \A w \in ActionWorkers : WorkerStands(w)
  /\ \A r \in ToolCalls : CallStands(r)

Workers == {Idle} \union ServingWorkers \union KeepingWorkers \union ReportingWorkers

\* A worker's stage tells its record.
LEMMA WorkerKinds ==
  ASSUME NEW x \in Workers
  PROVE  /\ x.at \in {"idle", "claim", "consume", "run", "keep", "report"}
         /\ x.at = "idle" => x = Idle
         /\ x.at \in {"claim", "consume", "run"} =>
              x \in ServingWorkers /\ x.call \in ToolCalls /\ x.token \in BOOLEAN
         /\ x.at = "keep" => x \in KeepingWorkers /\ x.call \in ToolCalls /\ x.status \in {"success", "failed"}
         /\ x.at = "report" => /\ x \in ReportingWorkers /\ x.call \in ToolCalls /\ x.token
                               /\ x.outcome \in {"success", "execution_failed", "transport"}
<1>1. CASE x = Idle
  BY <1>1 DEF Idle
<1>2. CASE x \in ServingWorkers
  BY <1>2 DEF ServingWorkers
<1>3. CASE x \in KeepingWorkers
  BY <1>3 DEF KeepingWorkers
<1>4. CASE x \in ReportingWorkers
  BY <1>4 DEF ReportingWorkers
<1> QED  BY <1>1, <1>2, <1>3, <1>4 DEF Workers

\* The ids and the bindings of a call.
LEMMA CallFacts ==
  ASSUME NEW r \in ToolCalls
  PROVE  r.call \in Calls /\ r.approval \in ApprovalIds /\ (r.via = "service" => r.effect)
         /\ r.via \in {"service", "execute", "mcp"} /\ r.plan \in BOOLEAN /\ r.effect \in BOOLEAN
BY HostActionsAssumption DEF Calls, ApprovalIds

\* A row is empty or bound.
LEMMA RowKinds ==
  ASSUME NEW x \in CallRows
  PROVE  /\ x.status \in {"none", "running", "success", "failed", "uncertain"}
         /\ x.status # "none" => x.call \in ToolCalls
BY DEF CallRows, NoCall

\* What the ledger writes at the end of a call.
LEMMA EndedFacts ==
  ASSUME NEW outcome
  PROVE  /\ EndedStatus(outcome) \in {"success", "uncertain", "failed"}
         /\ EndedStatus(outcome) = "success" => outcome = "success"
         /\ outcome \in {"success", "execution_failed", "transport"} =>
              EndedStatus(outcome) \in {"success", "uncertain"}
BY DEF EndedStatus

\* A ticket is minted, announced, answered or expires: the ledger of calls does not move.
LEMMA LicensedTickets ==
  ASSUME Licensed, UNCHANGED <<offered, callVars, worker, handed, effects>>,
         tickets' \in [ApprovalIds -> Tickets], \A a \in ApprovalIds : TicketIsGranted(a)',
         granted \subseteq granted', granted' \subseteq ToolCalls,
         minting' = Idle \/ minting' \in [at : {"auto"}, call : ToolCalls],
         answer' = Idle \/ answer'.at = "forward"
           \/ answer' \in [at : {"ticket"}, id : ApprovalIds, approve : BOOLEAN]
  PROVE  Licensed'
<1>1. ActionsTyped'
  BY DEF Licensed, ActionsTyped, callVars
<1>2. BlockingIsOne' /\ \A c \in Calls : RowIsNamed(c)' /\ ReplayStands(c)'
  BY DEF Licensed, BlockingIsOne, RowIsNamed, ReplayStands, Acted, callVars
<1>3. ASSUME NEW w \in ActionWorkers PROVE WorkerStands(w)'
  BY DEF Licensed, WorkerStands, Holding, Blocks, IsRow, Acted, callVars
<1>4. ASSUME NEW r \in ToolCalls PROVE CallStands(r)'
  BY DEF Licensed, CallStands, Blocks, IsRow, Acted, callVars
<1> QED  BY <1>1, <1>2, <1>3, <1>4 DEF Licensed

\* A worker moves, and the ledger of calls and the effects stay as they are.
LEMMA LicensedMoves ==
  ASSUME Licensed, NEW w \in ActionWorkers, NEW new \in Workers, worker' = [worker EXCEPT ![w] = new],
         UNCHANGED <<offered, minting, answer, granted, calls, effects>>,
         tickets' \in [ApprovalIds -> Tickets], \A a \in ApprovalIds : TicketIsGranted(a)',
         replays' \in [Calls -> {"none", "success", "failed"}], \A c \in Calls : ReplayStands(c)',
         replied' \subseteq ToolCalls, \A r \in replied' : Acted(r),
         \A r \in handed' : \/ r \in handed
                            \/ /\ Holding(w) /\ r = worker[w].call /\ r \in ToolCalls
                               /\ r.via = "service" /\ r \in granted,
         Holding(w)' => Holding(w) /\ new.call.call = worker[w].call.call,
         Holding(w)' => new.call \notin handed',
         WorkerStands(w)'
  PROVE  Licensed'
<1>1. worker \in [ActionWorkers -> Workers] /\ handed \subseteq ToolCalls
  BY DEF Licensed, ActionsTyped, Workers
<1>2. /\ worker' \in [ActionWorkers -> Workers] /\ worker'[w] = new
      /\ \A v \in ActionWorkers : v # w => worker'[v] = worker[v]
  BY <1>1
<1>3. ActionsTyped'
  BY <1>1, <1>2 DEF Licensed, ActionsTyped, Workers
<1>4. BlockingIsOne' /\ \A c \in Calls : RowIsNamed(c)'
  BY DEF Licensed, BlockingIsOne, RowIsNamed
<1>5. \A v \in ActionWorkers : v # w => (Holding(v)' <=> Holding(v))
  BY <1>2 DEF Holding
<1>6. ASSUME NEW v \in ActionWorkers, v # w PROVE WorkerStands(v)'
  <2>1. WorkerStands(v) /\ WorkerStands(w)
    BY DEF Licensed
  <2>2. Holding(v) => worker[v].call \notin handed'
    BY <1>6, <2>1 DEF WorkerStands
  <2>3. /\ Holding(v) => \A u \in ActionWorkers : u # v /\ Holding(u)' => worker'[u].call.call # worker[v].call.call
        /\ worker[v].at = "report" => \A u \in ActionWorkers : Holding(u)' => worker'[u].call.call # worker[v].call.call
    BY <1>2, <1>5, <1>6, <2>1 DEF WorkerStands
  <2> QED  BY <1>2, <1>5, <1>6, <2>1, <2>2, <2>3 DEF WorkerStands, Blocks, IsRow, Acted
<1>7. ASSUME NEW r \in ToolCalls PROVE CallStands(r)'
  <2>1. CallStands(r) /\ WorkerStands(w)
    BY DEF Licensed
  <2>2. r \in handed' => r.via = "service" /\ r \in granted /\ Blocks(r) /\ effects[r] = 0
    <3>1. CASE r \in handed
      BY <2>1, <3>1 DEF CallStands
    <3>2. CASE Holding(w) /\ r = worker[w].call /\ r.via = "service" /\ r \in granted
      BY <2>1, <3>2, CallFacts DEF WorkerStands, Blocks, IsRow, Blocking
    <3> QED  BY <3>1, <3>2
  <2> QED  BY <2>1, <2>2 DEF CallStands, Blocks, IsRow, Acted
<1> QED  BY <1>3, <1>4, <1>6, <1>7 DEF Licensed

\* What finish_host_tool_call does to the row and the worker.
LEMMA EndFacts ==
  ASSUME ActionsTyped, NEW w \in ActionWorkers, NEW outcome, EndCall(w, outcome),
         worker[w].at \in {"consume", "run", "report"}
  PROVE  \E new \in Workers :
           /\ worker' = [worker EXCEPT ![w] = new]
           /\ \/ new = Idle
              \/ /\ new.at = "keep" /\ new.call = worker[w].call /\ worker[w].token
                 /\ new.status = EndedStatus(outcome)
                 /\ calls[worker[w].call.call].status = "running"
           /\ \/ calls' = calls /\ new = Idle
                 /\ (~worker[w].token \/ calls[worker[w].call.call].status # "running")
              \/ /\ worker[w].token /\ calls[worker[w].call.call].status = "running"
                 /\ calls' = [calls EXCEPT ![worker[w].call.call].status = EndedStatus(outcome)]
<1>1. worker[w] \in Workers /\ worker[w].call \in ToolCalls
  BY WorkerKinds DEF ActionsTyped, Workers
<1>2. EndedStatus(outcome) \in {"success", "uncertain", "failed"}
  BY EndedFacts
<1>3. CASE ~worker[w].token \/ calls[worker[w].call.call].status # "running"
  <2>1. worker' = [worker EXCEPT ![w] = Idle] /\ calls' = calls
    BY <1>3 DEF EndCall
  <2>2. Idle \in Workers
    BY DEF Workers
  <2> QED  BY <1>3, <2>1, <2>2
<1>4. CASE worker[w].token /\ calls[worker[w].call.call].status = "running"
  <2>1. calls' = [calls EXCEPT ![worker[w].call.call].status = EndedStatus(outcome)]
    BY <1>4 DEF EndCall
  <2> DEFINE new == IF EndedStatus(outcome) = "uncertain" THEN Idle
                    ELSE [at |-> "keep", call |-> worker[w].call, status |-> EndedStatus(outcome)]
  <2>2. worker' = [worker EXCEPT ![w] = new]
    BY <1>4 DEF EndCall
  <2>3. CASE EndedStatus(outcome) = "uncertain"
    <3>1. new = Idle /\ Idle \in Workers
      BY <2>3 DEF Workers
    <3> QED  BY <1>4, <2>1, <2>2, <3>1
  <2>4. CASE EndedStatus(outcome) # "uncertain"
    <3>1. /\ new \in KeepingWorkers /\ new.at = "keep" /\ new.call = worker[w].call
          /\ new.status = EndedStatus(outcome)
      BY <1>1, <1>2, <2>4 DEF KeepingWorkers
    <3>2. new \in Workers
      BY <3>1 DEF Workers
    <3> HIDE DEF new
    <3> QED  BY <1>4, <2>1, <2>2, <3>1, <3>2
  <2> QED  BY <2>3, <2>4
<1> QED  BY <1>3, <1>4

\* A call ends: its worker held it, ran an observation nobody claimed, or reports what the sidecar did.
LEMMA LicensedEnds ==
  ASSUME Licensed, NEW w \in ActionWorkers, NEW outcome, EndCall(w, outcome),
         NEW q \in ToolCalls, q = worker[w].call,
         Holding(w) \/ worker[w].at = "report" \/ (worker[w].at = "run" /\ ~worker[w].token),
         worker[w].at = "report" => outcome = worker[w].outcome,
         outcome = "success" => Acted(q)',
         UNCHANGED <<offered, minting, answer, granted, replays, replied, handed>>,
         tickets' \in [ApprovalIds -> Tickets], \A a \in ApprovalIds : TicketIsGranted(a)',
         effects' \in [ToolCalls -> Nat],
         \A r \in ToolCalls : r # q => effects'[r] = effects[r],
         \/ effects' = effects
         \/ worker[w].at = "run" /\ q.via = "mcp" /\ effects'[q] = effects[q] + 1
  PROVE  Licensed'
<1>1. /\ worker \in [ActionWorkers -> Workers] /\ handed \subseteq ToolCalls /\ calls \in [Calls -> CallRows]
      /\ effects \in [ToolCalls -> Nat] /\ replied \subseteq ToolCalls
  BY DEF Licensed, ActionsTyped, Workers
<1>2. /\ worker[w].at \in {"consume", "run", "report"} /\ worker[w] \in Workers
      /\ q.call \in Calls
  BY <1>1, WorkerKinds, CallFacts DEF Holding
<1>3. PICK new \in Workers :
        /\ worker' = [worker EXCEPT ![w] = new]
        /\ \/ new = Idle
           \/ /\ new.at = "keep" /\ new.call = q /\ worker[w].token
              /\ new.status = EndedStatus(outcome)
              /\ calls[q.call].status = "running"
        /\ \/ calls' = calls /\ new = Idle /\ (~worker[w].token \/ calls[q.call].status # "running")
           \/ /\ worker[w].token /\ calls[q.call].status = "running"
              /\ calls' = [calls EXCEPT ![q.call].status = EndedStatus(outcome)]
  BY <1>2, EndFacts DEF Licensed
<1>4. /\ worker' \in [ActionWorkers -> Workers] /\ worker'[w] = new
      /\ \A v \in ActionWorkers : v # w => worker'[v] = worker[v]
  BY <1>1, <1>3
<1>5. WorkerStands(w) /\ CallStands(q)
  BY <1>2 DEF Licensed
<1>6. /\ \A c \in Calls : c # q.call => calls'[c] = calls[c]
      /\ calls' \in [Calls -> CallRows]
      /\ calls[q.call].status # "none" =>
           calls'[q.call].status # "none" /\ calls'[q.call].call = calls[q.call].call
      /\ calls[q.call].status = "none" => calls'[q.call] = calls[q.call]
      /\ calls'[q.call].status \in Blocking => calls[q.call].status \in Blocking
  <2>1. CASE calls' = calls
    BY <1>1, <2>1
  <2>2. CASE /\ calls[q.call].status = "running"
             /\ calls' = [calls EXCEPT ![q.call].status = EndedStatus(outcome)]
    <3> DEFINE x == calls[q.call]
               y == [x EXCEPT !.status = EndedStatus(outcome)]
    <3>1. x \in CallRows /\ x.status = "running" /\ EndedStatus(outcome) \in {"success", "uncertain", "failed"}
      BY <1>1, <1>2, <2>2, EndedFacts
    <3>2. y \in CallRows /\ y.status = EndedStatus(outcome) /\ y.call = x.call
      <4> HIDE DEF x
      <4> QED  BY <3>1 DEF CallRows, NoCall
    <3>3. calls' = [calls EXCEPT ![q.call] = y]
      BY <1>1, <1>2, <2>2
    <3> HIDE DEF y
    <3>4. /\ calls' \in [Calls -> CallRows] /\ calls'[q.call] = y
          /\ \A c \in Calls : c # q.call => calls'[c] = calls[c]
      BY <1>1, <1>2, <3>2, <3>3
    <3> QED  BY <3>1, <3>2, <3>4 DEF Blocking
  <2> QED  BY <1>3, <2>1, <2>2
<1>7. \A v \in ActionWorkers : Holding(v)' => v # w /\ Holding(v)
  BY <1>3, <1>4 DEF Holding, Idle
<1>8. \A r \in ToolCalls : r.call = q.call /\ Holding(w) /\ IsRow(r) => r = q
  BY <1>5 DEF WorkerStands, IsRow
<1>9. ActionsTyped'
  BY <1>4, <1>6 DEF Licensed, ActionsTyped, Workers
<1>10. /\ BlockingIsOne' /\ \A c \in Calls : RowIsNamed(c)'
  <2>1. \A c \in Calls : calls'[c].status \in Blocking =>
          calls[c].status \in Blocking /\ calls'[c].call = calls[c].call
    BY <1>6 DEF Blocking
  <2>2. BlockingIsOne'
    BY <2>1 DEF Licensed, BlockingIsOne
  <2>3. \A c \in Calls : RowIsNamed(c)'
    BY <1>6 DEF Licensed, RowIsNamed
  <2> QED  BY <2>2, <2>3
<1>11. \A r \in ToolCalls : Acted(r) => Acted(r)'
  BY <1>1, <1>2 DEF Acted
<1>12. \A r \in ToolCalls : IsRow(r) => IsRow(r)'
  BY <1>6, CallFacts DEF IsRow
<1>13. \A r \in ToolCalls : Blocks(r) /\ (r.call = q.call => ~Holding(w)) => Blocks(r)'
  <2> SUFFICES ASSUME NEW r \in ToolCalls, Blocks(r), r.call = q.call => ~Holding(w) PROVE Blocks(r)'
    OBVIOUS
  <2>1. IsRow(r)' /\ r.call \in Calls
    BY <1>12, CallFacts DEF Blocks
  <2>2. CASE r.call # q.call
    BY <1>6, <2>1, <2>2 DEF Blocks
  <2>3. CASE calls' = calls
    BY <2>1, <2>3 DEF Blocks
  <2>4. CASE worker[w].at = "report" /\ calls' = [calls EXCEPT ![q.call].status = EndedStatus(outcome)]
    <3>1. EndedStatus(outcome) \in {"success", "uncertain"}
      BY <1>2, <2>4, EndedFacts, WorkerKinds
    <3>2. calls'[q.call].status = EndedStatus(outcome)
      BY <1>1, <1>2, <2>4
    <3> QED  BY <2>1, <2>2, <3>1, <3>2 DEF Blocks, Blocking
  <2> QED  BY <1>3, <2>2, <2>3, <2>4 DEF Holding
<1>14. ASSUME NEW c \in Calls PROVE ReplayStands(c)'
  <2>1. ReplayStands(c) /\ calls[c] \in CallRows
    BY <1>1 DEF Licensed
  <2>2. replays[c] = "success" => calls[c].status # "none" /\ calls[c].call \in ToolCalls /\ Acted(calls[c].call)
    BY <2>1, RowKinds DEF ReplayStands
  <2>3. calls[c].status # "none" => calls'[c].status # "none" /\ calls'[c].call = calls[c].call
    BY <1>6
  <2> QED  BY <1>11, <2>2, <2>3 DEF ReplayStands, Acted
<1>15. ASSUME NEW r \in ToolCalls PROVE CallStands(r)'
  <2>1. CallStands(r)
    BY DEF Licensed
  <2>2. r \in handed => r.via = "service" /\ r \in granted /\ Blocks(r)' /\ effects'[r] = 0
    <3>1. r \in handed => Blocks(r) /\ r.via = "service" /\ r \in granted /\ effects[r] = 0
      BY <2>1 DEF CallStands
    <3>2. r \in handed /\ Holding(w) => r.call # q.call
      BY <1>5, <1>8, <3>1 DEF WorkerStands, Blocks
    <3>3. r \in handed => effects'[r] = effects[r]
      BY <3>1
    <3>4. r \in handed => Blocks(r)'
      BY <1>13, <3>1, <3>2
    <3> QED  BY <3>1, <3>3, <3>4
  <2>3. r.effect /\ effects'[r] > 0 =>
          /\ effects'[r] = 1 /\ IsRow(r)'
          /\ r.via = "service" => r \in granted /\ Blocks(r)'
    <3>1. CASE effects'[r] = effects[r]
      <4>1. r.effect /\ effects[r] > 0 /\ Holding(w) => r.call # q.call
        BY <1>5, <1>8, <2>1 DEF WorkerStands, CallStands
      <4> QED  BY <1>12, <1>13, <2>1, <3>1, <4>1 DEF CallStands
    <3>2. CASE r = q /\ worker[w].at = "run" /\ q.via = "mcp" /\ effects'[q] = effects[q] + 1
      <4>1. q.effect => Holding(w) /\ effects[q] = 0 /\ IsRow(q)
        BY <1>5, <3>2 DEF WorkerStands, Holding, IsRow
      <4>2. q.effect => effects'[q] = 1
        BY <1>1, <1>2, <3>2, <4>1
      <4>3. q.effect => IsRow(q)'
        BY <1>2, <1>12, <4>1
      <4>4. r = q /\ q.via # "service"
        BY <3>2
      <4> QED  BY <4>2, <4>3, <4>4
    <3> QED  BY <3>1, <3>2
  <2> QED  BY <1>11, <2>1, <2>2, <2>3 DEF CallStands
<1>16. ASSUME NEW v \in ActionWorkers, v # w PROVE WorkerStands(v)'
  <2>1. WorkerStands(v) /\ worker'[v] = worker[v] /\ worker[v] \in Workers
    BY <1>1, <1>4, <1>16 DEF Licensed
  <2>2. Holding(v) =>
          \A r : r = worker[v].call =>
          /\ calls'[r.call].status = "running" /\ calls'[r.call].call = r
          /\ r \notin handed /\ (r.effect => effects'[r] = 0)
          /\ \A u \in ActionWorkers : u # v /\ Holding(u)' => worker'[u].call.call # r.call
    <3> SUFFICES ASSUME Holding(v), NEW r, r = worker[v].call
                 PROVE  /\ calls'[r.call].status = "running" /\ calls'[r.call].call = r
                        /\ r \notin handed /\ (r.effect => effects'[r] = 0)
                        /\ \A u \in ActionWorkers : u # v /\ Holding(u)' => worker'[u].call.call # r.call
      OBVIOUS
    <3>1. r \in ToolCalls /\ r.call \in Calls
      BY <2>1, WorkerKinds, CallFacts DEF Holding
    <3>2. (Holding(w) \/ worker[w].at = "report") => r.call # q.call
      BY <1>5, <1>16, <2>1 DEF WorkerStands
    <3>3. calls' = calls \/ r.call # q.call
      BY <1>3, <3>2 DEF Holding
    <3>4. r.effect => effects'[r] = effects[r]
      <4>1. worker[w].at = "run" /\ ~worker[w].token => ~q.effect
        BY <1>5 DEF WorkerStands
      <4>2. r.effect /\ r = q => Holding(w) \/ worker[w].at = "report"
        BY <1>2, <4>1 DEF Holding
      <4> QED  BY <3>1, <3>2, <4>2
    <3>5. calls'[r.call] = calls[r.call]
      BY <1>6, <3>1, <3>3
    <3>6. \A u \in ActionWorkers : u # v /\ Holding(u)' => worker'[u].call.call # r.call
      BY <1>4, <1>7, <2>1 DEF WorkerStands
    <3> QED  BY <2>1, <3>4, <3>5, <3>6 DEF WorkerStands
  <2>3. worker[v].at = "report" =>
          \A r : r = worker[v].call =>
          /\ r.via = "service" /\ Blocks(r)'
          /\ worker[v].outcome = "success" => effects'[r] > 0
          /\ \A u \in ActionWorkers : Holding(u)' => worker'[u].call.call # r.call
    <3> SUFFICES ASSUME worker[v].at = "report", NEW r, r = worker[v].call
                 PROVE  /\ r.via = "service" /\ Blocks(r)'
                        /\ worker[v].outcome = "success" => effects'[r] > 0
                        /\ \A u \in ActionWorkers : Holding(u)' => worker'[u].call.call # r.call
      OBVIOUS
    <3>1. r \in ToolCalls
      BY <2>1, WorkerKinds
    <3>2. Holding(w) => q.call # r.call
      BY <2>1 DEF WorkerStands
    <3>3. r.via = "service" /\ Blocks(r)
      BY <2>1 DEF WorkerStands
    <3>4. effects'[r] = effects[r] \/ effects'[r] = effects[r] + 1
      BY <1>2, <3>1
    <3>5. Blocks(r)'
      BY <1>13, <3>1, <3>2, <3>3
    <3>6. \A u \in ActionWorkers : Holding(u)' => worker'[u].call.call # r.call
      BY <1>4, <1>7, <2>1 DEF WorkerStands
    <3>7. effects[r] > 0 => effects'[r] > 0
      BY <1>1, <3>1, <3>4
    <3> QED  BY <2>1, <3>3, <3>5, <3>6, <3>7 DEF WorkerStands
  <2>4. worker[v].at = "keep" =>
          \A r : r = worker[v].call => IsRow(r)' /\ (worker[v].status = "success" => Acted(r)')
    BY <1>11, <1>12, <2>1, WorkerKinds DEF WorkerStands
  <2> QED  BY <1>4, <1>16, <2>1, <2>2, <2>3, <2>4 DEF WorkerStands, Holding, Blocks, IsRow, Acted
<1>17. WorkerStands(w)'
  <2>1. CASE new = Idle
    BY <1>4, <2>1 DEF WorkerStands, Holding, Idle
  <2>2. CASE /\ new.at = "keep" /\ new.call = q /\ new.status = EndedStatus(outcome)
             /\ calls[q.call].status = "running" /\ worker[w].token
    <3>1. calls[q.call].call = q
      BY <1>2, <1>5, <2>2 DEF WorkerStands, Holding, Blocks, IsRow
    <3>2. IsRow(q)'
      BY <1>2, <1>12, <2>2, <3>1 DEF IsRow
    <3>3. new.status = "success" => Acted(q)'
      BY <2>2, EndedFacts
    <3> QED  BY <1>4, <2>2, <3>2, <3>3 DEF WorkerStands, Holding, IsRow, Acted
  <2> QED  BY <1>3, <2>1, <2>2
<1> QED  BY <1>9, <1>10, <1>14, <1>15, <1>16, <1>17 DEF Licensed

\* Minting keeps every approved ticket that is not dropped, and approves none.
LEMMA RecordedTickets ==
  ASSUME Licensed, NEW r \in ToolCalls, record_waiting_event(r), granted' = granted
  PROVE  tickets' \in [ApprovalIds -> Tickets] /\ \A a \in ApprovalIds : TicketIsGranted(a)'
<1>1. tickets \in [ApprovalIds -> Tickets] /\ r.approval \in ApprovalIds
  BY CallFacts DEF Licensed, ActionsTyped
<1>2. NoTicket \in Tickets /\ NoTicket.phase = "none"
  BY DEF Tickets, NoTicket
<1>3. /\ Purged \in [ApprovalIds -> Tickets]
      /\ \A a \in ApprovalIds : Purged[a] = tickets[a] \/ Purged[a] = NoTicket
  BY <1>1, <1>2 DEF Purged
<1> DEFINE new == [phase |-> "pending", call |-> r, late |-> FALSE]
<1>4. new \in Tickets /\ new.phase = "pending"
  BY DEF Tickets
<1>5. tickets' = Purged \/ tickets' = [Purged EXCEPT ![r.approval] = new]
  BY DEF record_waiting_event
<1> HIDE DEF new
<1>6. tickets' \in [ApprovalIds -> Tickets]
  BY <1>1, <1>3, <1>4, <1>5
<1>7. \A a \in ApprovalIds : tickets'[a] \in {tickets[a], NoTicket, new}
  BY <1>1, <1>3, <1>5
<1>8. ASSUME NEW a \in ApprovalIds PROVE TicketIsGranted(a)'
  <2>1. TicketIsGranted(a)
    BY DEF Licensed
  <2> QED  BY <1>2, <1>4, <1>7, <2>1 DEF TicketIsGranted
<1> QED  BY <1>6, <1>8

\* One ticket changes: what it becomes is typed, and a grant if it is approved.
LEMMA ChangedTicket ==
  ASSUME Licensed, NEW a, NEW new \in Tickets, tickets' = [tickets EXCEPT ![a] = new],
         granted \subseteq granted', a \in ApprovalIds /\ new.phase = "approved" => new.call \in granted'
  PROVE  tickets' \in [ApprovalIds -> Tickets] /\ \A b \in ApprovalIds : TicketIsGranted(b)'
<1>1. tickets \in [ApprovalIds -> Tickets]
  BY DEF Licensed, ActionsTyped
<1>2. /\ tickets' \in [ApprovalIds -> Tickets]
      /\ \A b \in ApprovalIds : tickets'[b] = IF b = a THEN new ELSE tickets[b]
  BY <1>1
<1>3. ASSUME NEW b \in ApprovalIds PROVE TicketIsGranted(b)'
  <2>1. TicketIsGranted(b)
    BY DEF Licensed
  <2> QED  BY <1>2, <2>1 DEF TicketIsGranted
<1> QED  BY <1>2, <1>3

\* The fields of a ticket that is there.
LEMMA TicketFacts ==
  ASSUME NEW t \in Tickets, t.phase # "none", NEW phase \in {"pending", "responding", "approved"}
  PROVE  /\ t.call \in ToolCalls
         /\ [t EXCEPT !.phase = phase] \in Tickets /\ [t EXCEPT !.phase = phase].phase = phase
         /\ [t EXCEPT !.phase = phase].call = t.call
         /\ [t EXCEPT !.late = TRUE] \in Tickets
         /\ [t EXCEPT !.late = TRUE].phase = t.phase /\ [t EXCEPT !.late = TRUE].call = t.call
<1>1. t \in [phase : {"pending", "responding", "approved"}, call : ToolCalls, late : BOOLEAN]
  BY DEF Tickets, NoTicket
<1>2. /\ [t EXCEPT !.phase = phase] \in [phase : {"pending", "responding", "approved"}, call : ToolCalls, late : BOOLEAN]
      /\ [t EXCEPT !.late = TRUE] \in [phase : {"pending", "responding", "approved"}, call : ToolCalls, late : BOOLEAN]
  BY <1>1
<1> QED  BY <1>1, <1>2 DEF Tickets

\* The ticket actions keep the invariant.
LEMMA LicensedAsks ==
  ASSUME Licensed, NEW r \in ToolCalls, UNCHANGED offered, AskApproval(r) \/ AutoRecord(r) \/ ObserveApproval(r)
  PROVE  Licensed'
<1>1. CASE AskApproval(r)
  <2>1. record_waiting_event(r) /\ UNCHANGED <<minting, answer, granted, callVars, worker, handed, effects>>
    BY <1>1 DEF AskApproval
  <2>2. tickets' \in [ApprovalIds -> Tickets] /\ \A a \in ApprovalIds : TicketIsGranted(a)'
    BY <2>1, RecordedTickets
  <2> QED  BY <2>1, <2>2, LicensedTickets DEF Licensed, ActionsTyped
<1>2. CASE AutoRecord(r)
  <2>1. record_waiting_event(r) /\ UNCHANGED <<answer, granted, callVars, worker, handed, effects>>
    BY <1>2 DEF AutoRecord
  <2>2. tickets' \in [ApprovalIds -> Tickets] /\ \A a \in ApprovalIds : TicketIsGranted(a)'
    BY <2>1, RecordedTickets
  <2>3. minting' = Idle \/ minting' \in [at : {"auto"}, call : ToolCalls]
    BY <1>2 DEF AutoRecord
  <2> QED  BY <2>1, <2>2, <2>3, LicensedTickets DEF Licensed, ActionsTyped
<1>3. CASE ObserveApproval(r)
  <2>1. UNCHANGED <<tickets, minting, answer, granted, callVars, worker, handed, effects>>
    BY <1>3 DEF ObserveApproval
  <2>2. tickets' \in [ApprovalIds -> Tickets] /\ \A a \in ApprovalIds : TicketIsGranted(a)'
    BY <2>1 DEF Licensed, ActionsTyped, TicketIsGranted
  <2> QED  BY <2>1, <2>2, LicensedTickets DEF Licensed, ActionsTyped
<1> QED  BY <1>1, <1>2, <1>3

\* So does the clock, and the automatic approval of a ticket.
LEMMA LicensedClock ==
  ASSUME Licensed, UNCHANGED offered, AutoApprove \/ \E a \in ApprovalIds : Expire(a)
  PROVE  Licensed'
<1>1. tickets \in [ApprovalIds -> Tickets] /\ granted \subseteq ToolCalls
  BY DEF Licensed, ActionsTyped
<1>2. CASE AutoApprove
  <2>1. PICK a : a = minting.call.approval
    OBVIOUS
  <2>2. UNCHANGED <<answer, callVars, worker, handed, effects>> /\ minting' = Idle
    BY <1>2 DEF AutoApprove
  <2>3. a \in ApprovalIds
    BY <1>2, <2>1, CallFacts DEF AutoApprove, Licensed, ActionsTyped, Idle
  <2>4. CASE tickets[a].phase = "pending"
    <3> DEFINE new == [tickets[a] EXCEPT !.phase = "approved"]
    <3>1. tickets' = [tickets EXCEPT ![a] = new] /\ granted' = granted \union {tickets[a].call}
      BY <1>1, <1>2, <2>1, <2>3, <2>4 DEF AutoApprove
    <3>2. new \in Tickets /\ new.call = tickets[a].call /\ tickets[a].call \in ToolCalls
      BY <1>1, <2>3, <2>4, TicketFacts
    <3> HIDE DEF new
    <3>3. tickets' \in [ApprovalIds -> Tickets] /\ \A b \in ApprovalIds : TicketIsGranted(b)'
      BY <3>1, <3>2, ChangedTicket
    <3> QED  BY <1>1, <2>2, <3>1, <3>2, <3>3, LicensedTickets DEF Licensed, ActionsTyped
  <2>5. CASE tickets[a].phase # "pending"
    <3>1. UNCHANGED <<tickets, granted>>
      BY <1>2, <2>1, <2>5 DEF AutoApprove
    <3>2. tickets' \in [ApprovalIds -> Tickets] /\ \A b \in ApprovalIds : TicketIsGranted(b)'
      BY <3>1 DEF Licensed, ActionsTyped, TicketIsGranted
    <3> QED  BY <2>2, <3>1, <3>2, LicensedTickets DEF Licensed, ActionsTyped
  <2> QED  BY <2>4, <2>5
<1>3. ASSUME NEW a \in ApprovalIds, Expire(a) PROVE Licensed'
  <2>1. UNCHANGED <<minting, answer, granted, callVars, worker, handed, effects>>
    BY <1>3 DEF Expire
  <2>2. CASE tickets[a].phase # "none" /\ tickets' = [tickets EXCEPT ![a].late = TRUE]
    <3> DEFINE new == [tickets[a] EXCEPT !.late = TRUE]
    <3>1. tickets' = [tickets EXCEPT ![a] = new]
      BY <1>1, <2>2
    <3>2. new \in Tickets /\ new.phase = tickets[a].phase /\ new.call = tickets[a].call
      BY <1>1, <2>2, TicketFacts
    <3>3. TicketIsGranted(a)
      BY DEF Licensed
    <3> HIDE DEF new
    <3>4. tickets' \in [ApprovalIds -> Tickets] /\ \A b \in ApprovalIds : TicketIsGranted(b)'
      BY <2>1, <3>1, <3>2, <3>3, ChangedTicket DEF TicketIsGranted
    <3> QED  BY <2>1, <3>4, LicensedTickets DEF Licensed, ActionsTyped
  <2>3. CASE UNCHANGED tickets
    <3>1. tickets' \in [ApprovalIds -> Tickets] /\ \A b \in ApprovalIds : TicketIsGranted(b)'
      BY <2>1, <2>3 DEF Licensed, ActionsTyped, TicketIsGranted
    <3> QED  BY <2>1, <3>1, LicensedTickets DEF Licensed, ActionsTyped
  <2> QED  BY <1>3, <2>2, <2>3 DEF Expire
<1> QED  BY <1>2, <1>3

\* And the user's answer, when it is parked and when the sidecar has taken it.
LEMMA LicensedAnswers ==
  ASSUME Licensed, UNCHANGED offered,
         (\E a \in ApprovalIds, b \in BOOLEAN : BeginResponse(a, b)) \/ \E b \in BOOLEAN : FinishResponse(b)
  PROVE  Licensed'
<1>1. tickets \in [ApprovalIds -> Tickets] /\ granted \subseteq ToolCalls
  BY DEF Licensed, ActionsTyped
<1>2. NoTicket \in Tickets /\ NoTicket.phase = "none"
  BY DEF Tickets, NoTicket
<1>3. tickets' = tickets /\ granted' = granted =>
        tickets' \in [ApprovalIds -> Tickets] /\ \A b \in ApprovalIds : TicketIsGranted(b)'
  BY DEF Licensed, ActionsTyped, TicketIsGranted
<1>4. ASSUME NEW a \in ApprovalIds, NEW b \in BOOLEAN, BeginResponse(a, b) PROVE Licensed'
  <2>1. UNCHANGED <<minting, granted, callVars, worker, handed, effects>>
    BY <1>4 DEF BeginResponse
  <2>2. answer' = answer \/ answer'.at = "forward" \/ answer' \in [at : {"ticket"}, id : ApprovalIds, approve : BOOLEAN]
    BY <1>4 DEF BeginResponse
  <2>3. tickets' \in [ApprovalIds -> Tickets] /\ \A c \in ApprovalIds : TicketIsGranted(c)'
    <3>1. CASE UNCHANGED tickets
      BY <1>3, <2>1, <3>1
    <3>2. CASE tickets' = [tickets EXCEPT ![a] = NoTicket]
      BY <1>2, <2>1, <3>2, ChangedTicket
    <3>3. CASE tickets[a].phase = "pending" /\ tickets' = [tickets EXCEPT ![a].phase = "responding"]
      <4> DEFINE new == [tickets[a] EXCEPT !.phase = "responding"]
      <4>1. tickets' = [tickets EXCEPT ![a] = new]
        BY <1>1, <3>3
      <4>2. new \in Tickets /\ new.phase = "responding"
        BY <1>1, <3>3, TicketFacts
      <4> HIDE DEF new
      <4> QED  BY <2>1, <4>1, <4>2, ChangedTicket
    <3> QED  BY <1>4, <3>1, <3>2, <3>3 DEF BeginResponse
  <2> QED  BY <2>1, <2>2, <2>3, LicensedTickets DEF Licensed, ActionsTyped
<1>5. ASSUME NEW b \in BOOLEAN, FinishResponse(b) PROVE Licensed'
  <2>1. UNCHANGED <<minting, callVars, worker, handed, effects>> /\ answer' = Idle
    BY <1>5 DEF FinishResponse
  <2>2. /\ tickets' \in [ApprovalIds -> Tickets] /\ \A c \in ApprovalIds : TicketIsGranted(c)'
        /\ granted \subseteq granted' /\ granted' \subseteq ToolCalls
    <3>1. CASE UNCHANGED <<tickets, granted>>
      BY <1>1, <1>3, <3>1
    <3> PICK a : a = answer.id
      OBVIOUS
    <3>2. CASE tickets' = [tickets EXCEPT ![a] = NoTicket] /\ granted' = granted
      BY <1>1, <1>2, <3>2, ChangedTicket
    <3>3. CASE /\ answer # Idle /\ answer.at # "forward" /\ tickets[a].phase = "responding"
               /\ tickets' = [tickets EXCEPT ![a].phase = "approved"]
               /\ granted' = granted \union {tickets[a].call}
      <4> DEFINE new == [tickets[a] EXCEPT !.phase = "approved"]
      <4>1. a \in ApprovalIds
        BY <3>3 DEF Licensed, ActionsTyped
      <4>2. tickets' = [tickets EXCEPT ![a] = new]
        BY <1>1, <3>3, <4>1
      <4>3. new \in Tickets /\ new.call = tickets[a].call /\ tickets[a].call \in ToolCalls
        BY <1>1, <3>3, <4>1, TicketFacts
      <4> HIDE DEF new
      <4>4. tickets' \in [ApprovalIds -> Tickets] /\ \A c \in ApprovalIds : TicketIsGranted(c)'
        BY <3>3, <4>2, <4>3, ChangedTicket
      <4> QED  BY <1>1, <3>3, <4>3, <4>4
    <3> QED  BY <1>5, <3>1, <3>2, <3>3 DEF FinishResponse, AcceptedBy
  <2> QED  BY <2>1, <2>2, LicensedTickets DEF Licensed, ActionsTyped
<1> QED  BY <1>4, <1>5

\* A request is taken up; a read from memory changes nothing but the worker.
LEMMA LicensedTakesUp ==
  ASSUME Licensed, NEW w \in ActionWorkers, NEW r \in ToolCalls, UNCHANGED offered,
         ServeAction(w, r) \/ ServeTool(w, r)
  PROVE  Licensed'
<1>1. PICK claimed \in BOOLEAN : TakeUp(w, r, claimed) /\ (r.effect => claimed) /\ (r.via = "service" => claimed)
  BY CallFacts DEF ServeAction, ServeTool, host_tool_requires_idempotency
<1> DEFINE new == [at |-> IF claimed THEN "claim" ELSE "run", call |-> r, token |-> claimed]
<1>2. /\ new \in ServingWorkers /\ new.call = r /\ new.token = claimed
      /\ new.at = IF claimed THEN "claim" ELSE "run"
  BY DEF ServingWorkers
<1>3. worker' = [worker EXCEPT ![w] = new] /\ worker[w] = Idle
      /\ UNCHANGED <<ticketVars, callVars, handed, effects>>
  BY <1>1 DEF TakeUp
<1> HIDE DEF new
<1>4. new \in Workers /\ worker \in [ActionWorkers -> Workers]
  BY <1>2 DEF Workers, Licensed, ActionsTyped
<1>5. worker'[w] = new
  BY <1>3, <1>4
<1>6. ~Holding(w)' /\ WorkerStands(w)'
  BY <1>1, <1>2, <1>5 DEF Holding, WorkerStands
<1>7. /\ UNCHANGED <<minting, answer, granted, calls, effects, tickets, replays, replied, handed>>
      /\ tickets \in [ApprovalIds -> Tickets] /\ replays \in [Calls -> {"none", "success", "failed"}]
      /\ replied \subseteq ToolCalls
  BY <1>3 DEF ticketVars, callVars, Licensed, ActionsTyped
<1>8. (\A a \in ApprovalIds : TicketIsGranted(a)') /\ \A c \in Calls : ReplayStands(c)'
  BY <1>7 DEF Licensed, TicketIsGranted, ReplayStands, Acted
<1>9. \A q \in replied : Acted(q)
  BY <1>7 DEF Licensed, CallStands
<1> QED  BY <1>3, <1>4, <1>6, <1>7, <1>8, <1>9, LicensedMoves

\* What stays put when only workers, targets or the memory of responses change.
LEMMA StillStands ==
  ASSUME Licensed, UNCHANGED <<tickets, granted>>
  PROVE  /\ tickets' \in [ApprovalIds -> Tickets] /\ \A a \in ApprovalIds : TicketIsGranted(a)'
         /\ replays \in [Calls -> {"none", "success", "failed"}] /\ replied \subseteq ToolCalls
         /\ \A q \in replied : Acted(q)
         /\ UNCHANGED <<replays, calls, effects>> => \A c \in Calls : ReplayStands(c)'
<1>1. tickets \in [ApprovalIds -> Tickets] /\ replied \subseteq ToolCalls
      /\ replays \in [Calls -> {"none", "success", "failed"}]
  BY DEF Licensed, ActionsTyped
<1>2. \A a \in ApprovalIds : TicketIsGranted(a)'
  BY DEF Licensed, TicketIsGranted
<1>3. \A q \in replied : Acted(q)
  BY <1>1 DEF Licensed, CallStands
<1>4. UNCHANGED <<replays, calls, effects>> => \A c \in Calls : ReplayStands(c)'
  BY DEF Licensed, ReplayStands, Acted
<1> QED  BY <1>1, <1>2, <1>3, <1>4

\* A worker becomes idle and nothing else changes but what is kept of responses.
LEMMA LicensedRests ==
  ASSUME Licensed, NEW w \in ActionWorkers, worker' = [worker EXCEPT ![w] = Idle],
         UNCHANGED <<offered, minting, answer, granted, tickets, calls, effects>>,
         replays' \in [Calls -> {"none", "success", "failed"}], \A c \in Calls : ReplayStands(c)',
         replied' \subseteq ToolCalls, \A r \in replied' : Acted(r),
         \A r \in handed' : \/ r \in handed
                            \/ /\ Holding(w) /\ r = worker[w].call /\ r \in ToolCalls
                               /\ r.via = "service" /\ r \in granted
  PROVE  Licensed'
<1>1. Idle \in Workers /\ worker \in [ActionWorkers -> Workers]
  BY DEF Workers, Licensed, ActionsTyped
<1>2. worker'[w] = Idle
  BY <1>1
<1>3. ~Holding(w)' /\ WorkerStands(w)'
  BY <1>2 DEF Holding, WorkerStands, Idle
<1>4. tickets' \in [ApprovalIds -> Tickets] /\ \A a \in ApprovalIds : TicketIsGranted(a)'
  BY StillStands
<1> QED  BY <1>1, <1>3, <1>4, LicensedMoves

\* A response is kept in memory for as long as there is room.
LEMMA LicensedKeeps ==
  ASSUME Licensed, NEW w \in ActionWorkers, KeepResponse(w), UNCHANGED offered
  PROVE  Licensed'
<1>1. worker[w].at = "keep" /\ worker[w] \in Workers /\ WorkerStands(w)
  BY DEF KeepResponse, Licensed, ActionsTyped, Workers
<1>2. /\ worker' = [worker EXCEPT ![w] = Idle]
      /\ UNCHANGED <<ticketVars, calls, replied, handed, effects>>
  BY DEF KeepResponse
<1>3. UNCHANGED <<tickets, minting, answer, granted>>
  BY <1>2 DEF ticketVars
<1> PICK r \in ToolCalls : r = worker[w].call
  BY <1>1, WorkerKinds
<1> PICK s \in {"success", "failed"} : s = worker[w].status
  BY <1>1, WorkerKinds
<1>4. IsRow(r) /\ (s = "success" => Acted(r))
  BY <1>1 DEF WorkerStands
<1>5. /\ replays' \in [Calls -> {"none", "success", "failed"}]
      /\ \A c \in Calls : replays'[c] = "success" => replays[c] = "success" \/ (c = r.call /\ s = "success")
  <2>1. replays \in [Calls -> {"none", "success", "failed"}]
    BY DEF Licensed, ActionsTyped
  <2> DEFINE gone(d) == (Cardinality(Cached) >= MaxReplays /\ r.call \notin Cached) /\ d = Least(Cached)
             kept(d) == CASE d = r.call -> s
                          [] gone(d) -> "none"
                          [] OTHER -> replays[d]
  <2>2. replays' = [d \in Calls |-> kept(d)]
    BY DEF KeepResponse
  <2>3. ASSUME NEW d \in Calls
        PROVE  /\ kept(d) \in {"none", "success", "failed"}
               /\ kept(d) = "success" => replays[d] = "success" \/ (d = r.call /\ s = "success")
    <3> HIDE DEF gone
    <3> QED  BY <2>1
  <2> HIDE DEF kept
  <2> QED  BY <2>2, <2>3
<1>6. ASSUME NEW c \in Calls PROVE ReplayStands(c)'
  <2>1. ReplayStands(c)
    BY DEF Licensed
  <2> QED  BY <1>2, <1>4, <1>5, <2>1 DEF ReplayStands, IsRow, Acted
<1>7. replied \subseteq ToolCalls /\ \A q \in replied : Acted(q)
  BY <1>3, StillStands
<1> QED  BY <1>2, <1>3, <1>5, <1>6, <1>7, LicensedRests

\* The target of an approved action is handed out, kept back or not reached.
LEMMA LicensedHands ==
  ASSUME Licensed, NEW w \in ActionWorkers, HandTarget(w), UNCHANGED offered
  PROVE  Licensed'
<1>1. worker[w].at = "run" /\ worker[w] \in Workers /\ WorkerStands(w)
  BY DEF HandTarget, Licensed, ActionsTyped, Workers
<1> PICK r \in ToolCalls : r = worker[w].call
  BY <1>1, WorkerKinds
<1>2. UNCHANGED <<tickets, minting, answer, granted, replays, replied, effects>>
  BY DEF HandTarget, ticketVars
<1>3. r.via = "service" /\ r.effect /\ Holding(w) /\ r \in granted
  BY <1>1, CallFacts DEF HandTarget, Holding, WorkerStands
<1>4. /\ tickets' \in [ApprovalIds -> Tickets] /\ \A a \in ApprovalIds : TicketIsGranted(a)'
      /\ replays \in [Calls -> {"none", "success", "failed"}] /\ replied \subseteq ToolCalls
      /\ \A q \in replied : Acted(q)
      /\ UNCHANGED calls => \A c \in Calls : ReplayStands(c)'
  BY <1>2, StillStands
<1>5. CASE worker' = [worker EXCEPT ![w] = Idle] /\ UNCHANGED calls /\ handed' \in {handed, handed \union {r}}
  BY <1>2, <1>3, <1>4, <1>5, LicensedRests
<1>6. CASE EndCall(w, "transport") /\ UNCHANGED handed
  <2>1. effects \in [ToolCalls -> Nat]
    BY DEF Licensed, ActionsTyped
  <2>2. PICK o : o = "transport"
    OBVIOUS
  <2> QED  BY <1>1, <1>2, <1>3, <1>4, <1>6, <2>1, LicensedEnds
<1> QED  BY <1>5, <1>6 DEF HandTarget

\* A ticket is spent: on the call it is bound to, or to refuse any other.
LEMMA LicensedConsumes ==
  ASSUME Licensed, NEW w \in ActionWorkers, ConsumeTicket(w), UNCHANGED offered
  PROVE  Licensed'
<1>1. worker[w].at = "consume" /\ worker[w] \in Workers /\ WorkerStands(w)
      /\ tickets \in [ApprovalIds -> Tickets] /\ worker \in [ActionWorkers -> Workers]
      /\ effects \in [ToolCalls -> Nat]
  BY DEF ConsumeTicket, Licensed, ActionsTyped, Workers
<1> PICK r \in ToolCalls : r = worker[w].call
  BY <1>1, WorkerKinds
<1> PICK a \in ApprovalIds : a = r.approval
  BY CallFacts
<1>2. UNCHANGED <<minting, answer, granted, replays, replied, handed, effects>>
  BY DEF ConsumeTicket
<1>3. Holding(w) /\ worker[w].token /\ r.effect /\ r.via # "mcp"
  BY <1>1 DEF Holding, WorkerStands
<1>4. tickets' \in [ApprovalIds -> Tickets] /\ \A b \in ApprovalIds : TicketIsGranted(b)'
  <2>1. NoTicket \in Tickets /\ NoTicket.phase = "none"
    BY DEF Tickets, NoTicket
  <2>2. UNCHANGED tickets \/ tickets' = [tickets EXCEPT ![a] = NoTicket]
    BY DEF ConsumeTicket
  <2> QED  BY <1>2, <2>1, <2>2, ChangedTicket, StillStands
<1>5. CASE EndCall(w, "denied_by_policy")
  <2>1. PICK o : o = "denied_by_policy"
    OBVIOUS
  <2> QED  BY <1>1, <1>2, <1>3, <1>4, <1>5, <2>1, LicensedEnds
<1>6. CASE /\ tickets[a].phase = "approved" /\ Matches(a, r)
           /\ worker' = [worker EXCEPT ![w].at = "run"] /\ UNCHANGED calls
  <2> DEFINE new == [worker[w] EXCEPT !.at = "run"]
  <2>1. worker' = [worker EXCEPT ![w] = new]
    BY <1>1, <1>6
  <2>2. /\ new \in ServingWorkers /\ new.at = "run" /\ new.call = r /\ new.token
    <3>1. worker[w] \in ServingWorkers
      BY <1>1, WorkerKinds
    <3> QED  BY <1>3, <3>1 DEF ServingWorkers
  <2>3. new \in Workers
    BY <2>2 DEF Workers
  <2> HIDE DEF new
  <2>4. worker'[w] = new /\ \A v \in ActionWorkers : v # w => worker'[v] = worker[v]
    BY <1>1, <2>1, <2>3
  <2>5. r \in granted
    BY <1>6 DEF Licensed, TicketIsGranted, Matches
  <2>6. /\ calls[r.call].status = "running" /\ calls[r.call].call = r
        /\ r \notin handed /\ effects[r] = 0
        /\ \A v \in ActionWorkers : v # w /\ Holding(v) => worker[v].call.call # r.call
    BY <1>1, <1>3 DEF WorkerStands
  <2>7. WorkerStands(w)'
    <3>1. \A v \in ActionWorkers : v # w /\ Holding(v)' => worker'[v].call.call # r.call
      BY <2>4, <2>6 DEF Holding
    <3>2. /\ calls' = calls /\ effects' = effects /\ handed' = handed /\ granted' = granted
          /\ worker'[w].at = "run" /\ worker'[w].call = r /\ worker'[w].token
      BY <1>2, <1>6, <2>2, <2>4
    <3> QED  BY <2>5, <2>6, <3>1, <3>2 DEF WorkerStands
  <2>8. \A c \in Calls : ReplayStands(c)'
    BY <1>2, <1>6 DEF Licensed, ReplayStands, Acted
  <2>9. /\ replays \in [Calls -> {"none", "success", "failed"}] /\ replied \subseteq ToolCalls
        /\ \A q \in replied : Acted(q)
    BY DEF Licensed, ActionsTyped, CallStands
  <2> QED  BY <1>2, <1>3, <1>4, <1>6, <2>1, <2>2, <2>3, <2>6, <2>7, <2>8, <2>9, LicensedMoves
<1> QED  BY <1>5, <1>6 DEF ConsumeTicket

\* An observation ran, an action came by the wrong route, or a report is entered in the ledger.
LEMMA LicensedFinishes ==
  ASSUME Licensed, NEW w \in ActionWorkers, UNCHANGED offered,
         RunObservation(w) \/ RefuseEffect(w) \/ FinishReported(w)
  PROVE  Licensed'
<1>1. /\ worker[w] \in Workers /\ WorkerStands(w) /\ effects \in [ToolCalls -> Nat]
      /\ worker[w].at \in {"run", "report"}
  BY DEF Licensed, ActionsTyped, Workers, RunObservation, RefuseEffect, FinishReported
<1> PICK r \in ToolCalls : r = worker[w].call
  BY <1>1, WorkerKinds
<1>2. UNCHANGED <<minting, answer, granted, tickets, replays, replied, handed, effects>>
  BY DEF RunObservation, RefuseEffect, FinishReported, ticketVars
<1>3. tickets' \in [ApprovalIds -> Tickets] /\ \A b \in ApprovalIds : TicketIsGranted(b)'
  BY <1>2, StillStands
<1>4. Holding(w) \/ worker[w].at = "report" \/ (worker[w].at = "run" /\ ~worker[w].token)
  BY <1>1 DEF Holding
<1>5. PICK o : /\ EndCall(w, o)
               /\ worker[w].at = "report" => o = worker[w].outcome
               /\ worker[w].at = "run" => r.via = "execute" /\ (o = "success" => ~r.effect)
  BY <1>1 DEF RunObservation, RefuseEffect, FinishReported
<1>6. o = "success" => Acted(r)'
  BY <1>1, <1>2, <1>5 DEF Acted, WorkerStands
<1> QED  BY <1>1, <1>2, <1>3, <1>4, <1>5, <1>6, LicensedEnds

\* A tool of an MCP server may have acted, whatever the server answered.
LEMMA LicensedRuns ==
  ASSUME Licensed, NEW w \in ActionWorkers, RunMcpTool(w), UNCHANGED offered
  PROVE  Licensed'
<1>1. /\ worker[w] \in Workers /\ WorkerStands(w) /\ effects \in [ToolCalls -> Nat]
      /\ worker[w].at = "run"
  BY DEF Licensed, ActionsTyped, Workers, RunMcpTool
<1> PICK r \in ToolCalls : r = worker[w].call
  BY <1>1, WorkerKinds
<1>2. UNCHANGED <<minting, answer, granted, tickets, replays, replied, handed>> /\ r.via = "mcp"
  BY DEF RunMcpTool, ticketVars
<1>3. tickets' \in [ApprovalIds -> Tickets] /\ \A b \in ApprovalIds : TicketIsGranted(b)'
  BY <1>2, StillStands
<1>4. PICK acted \in BOOLEAN, o \in {"success", "mcp_call_failed", "cancelled"} :
        /\ o = "success" => acted
        /\ effects' = [effects EXCEPT ![r] = IF acted THEN @ + 1 ELSE @]
        /\ EndCall(w, o)
  BY DEF RunMcpTool
<1>5. /\ effects' \in [ToolCalls -> Nat] /\ \A q \in ToolCalls : q # r => effects'[q] = effects[q]
      /\ effects' = effects \/ effects'[r] = effects[r] + 1
      /\ acted => effects'[r] = effects[r] + 1
  <2>1. effects[r] \in Nat /\ effects[r] + 1 \in Nat
    BY <1>1
  <2>2. CASE acted
    <3>1. effects' = [effects EXCEPT ![r] = effects[r] + 1]
      BY <1>4, <2>2
    <3> QED  BY <1>1, <2>1, <3>1
  <2>3. CASE ~acted
    <3>1. effects' = [effects EXCEPT ![r] = effects[r]]
      BY <1>4, <2>3
    <3> QED  BY <1>1, <2>3, <3>1
  <2> QED  BY <2>2, <2>3
<1>6. o = "success" => Acted(r)'
  BY <1>1, <1>4, <1>5 DEF Acted
<1> QED  BY <1>1, <1>2, <1>3, <1>4, <1>5, <1>6, LicensedEnds DEF Holding

\* A claim finds a row in its way, or enters the one row its call id will ever have.
LEMMA LicensedClaims ==
  ASSUME Licensed, NEW w \in ActionWorkers, ClaimCall(w), UNCHANGED offered
  PROVE  Licensed'
<1>1. /\ worker[w] \in Workers /\ WorkerStands(w) /\ worker[w].at = "claim"
      /\ worker \in [ActionWorkers -> Workers] /\ calls \in [Calls -> CallRows]
      /\ replied \subseteq ToolCalls
  BY DEF Licensed, ActionsTyped, Workers, ClaimCall
<1> PICK r \in ToolCalls : r = worker[w].call
  BY <1>1, WorkerKinds
<1>2. r.call \in Calls
  BY CallFacts
<1>3. UNCHANGED <<minting, answer, granted, tickets, replays, handed, effects>>
  BY DEF ClaimCall, ticketVars
<1>4. worker[w].token /\ ~Holding(w) /\ worker[w] \in ServingWorkers
  BY <1>1, WorkerKinds DEF WorkerStands, Holding
<1>5. CASE FoundClaims(r) # {}
  <2>1. PICK c \in FoundClaims(r) :
          replied' = IF SameRequest(calls[c], r) /\ replays[r.call] = "success"
                     THEN replied \union {r} ELSE replied
    BY <1>5 DEF ClaimCall
  <2>2. worker' = [worker EXCEPT ![w] = Idle] /\ UNCHANGED calls
    BY <1>5 DEF ClaimCall
  <2>3. c \in Calls /\ calls[c].status # "none"
    BY <1>2, <2>1 DEF FoundClaims, OtherClaims, Blocking
  <2>4. SameRequest(calls[c], r) => c = r.call /\ calls[r.call].call = r
    BY <2>3 DEF Licensed, RowIsNamed, SameRequest
  <2>5. SameRequest(calls[c], r) /\ replays[r.call] = "success" => Acted(r)
    BY <1>2, <2>4 DEF Licensed, ReplayStands
  <2>6. replied' \subseteq ToolCalls /\ \A q \in replied' : Acted(q)
    BY <1>1, <2>1, <2>5 DEF Licensed, CallStands
  <2> QED  BY <1>3, <2>2, <2>6, StillStands, LicensedRests
<1>6. CASE FoundClaims(r) = {}
  <2> DEFINE row == [status |-> "running", call |-> r]
             new == [worker[w] EXCEPT !.at = IF r.effect /\ r.via # "mcp" THEN "consume" ELSE "run"]
  <2>1. /\ calls' = [calls EXCEPT ![r.call] = row] /\ replied' = replied
        /\ worker' = [worker EXCEPT ![w] = new]
    BY <1>1, <1>6 DEF ClaimCall
  <2>2. row \in CallRows /\ row.status = "running" /\ row.call = r
    BY DEF CallRows
  <2>3. /\ new \in ServingWorkers /\ new.call = r /\ new.token
        /\ new.at = IF r.effect /\ r.via # "mcp" THEN "consume" ELSE "run"
    BY <1>4 DEF ServingWorkers
  <2>4. new \in Workers
    BY <2>3 DEF Workers
  <2> HIDE DEF row, new
  <2>5. /\ calls' \in [Calls -> CallRows] /\ calls'[r.call] = row
        /\ \A c \in Calls : c # r.call => calls'[c] = calls[c]
    BY <1>1, <1>2, <2>1, <2>2
  <2>6. /\ worker' \in [ActionWorkers -> Workers] /\ worker'[w] = new
        /\ \A v \in ActionWorkers : v # w => worker'[v] = worker[v]
    BY <1>1, <2>1, <2>4
  <2>7. calls[r.call].status = "none"
    BY <1>2, <1>6 DEF FoundClaims
  <2>8. \A c \in Calls : r.plan /\ calls[c].status \in Blocking /\ calls[c].call.plan => calls[c].call.action # r.action
    BY <1>6 DEF FoundClaims, OtherClaims
  <2>9. \A q \in ToolCalls : IsRow(q) => q.call # r.call /\ IsRow(q)' /\ calls'[q.call] = calls[q.call]
    BY <2>5, <2>7, CallFacts DEF IsRow
  <2>10. \A v \in ActionWorkers : Holding(v) => v # w /\ worker[v].call.call # r.call
    BY <1>4, <2>7 DEF Licensed, WorkerStands
  <2>11. ActionsTyped'
    BY <1>3, <2>1, <2>5, <2>6 DEF Licensed, ActionsTyped, Workers
  <2>12. BlockingIsOne'
    BY <2>2, <2>5, <2>7, <2>8 DEF Licensed, BlockingIsOne, Blocking
  <2>13. \A c \in Calls : RowIsNamed(c)'
    BY <2>2, <2>5 DEF Licensed, RowIsNamed
  <2>14. ASSUME NEW c \in Calls PROVE ReplayStands(c)'
    <3>1. ReplayStands(c)
      BY DEF Licensed
    <3> QED  BY <1>3, <2>5, <2>7, <3>1 DEF ReplayStands, Acted
  <2>15. ASSUME NEW q \in ToolCalls PROVE CallStands(q)'
    <3>1. CallStands(q)
      BY DEF Licensed
    <3> QED  BY <1>3, <2>1, <2>9, <3>1 DEF CallStands, Blocks, IsRow, Acted
  <2>16. WorkerStands(w)'
    <3>1. r.via = "service" => r.effect
      BY CallFacts
    <3>2. CallStands(r) /\ ~IsRow(r)
      BY <2>9 DEF Licensed
    <3>3. effects \in [ToolCalls -> Nat]
      BY DEF Licensed, ActionsTyped
    <3>4. r \notin handed' /\ (r.effect => effects'[r] = 0)
      BY <1>3, <3>2, <3>3 DEF CallStands, Blocks
    <3>5. \A v \in ActionWorkers : v # w /\ Holding(v)' => worker'[v].call.call # r.call
      BY <2>6, <2>10 DEF Holding
    <3>6. worker'[w].call = r /\ worker'[w].token /\ calls'[r.call].status = "running" /\ calls'[r.call].call = r
      BY <2>2, <2>3, <2>5, <2>6
    <3>7. worker'[w].at = IF r.effect /\ r.via # "mcp" THEN "consume" ELSE "run"
      BY <2>3, <2>6
    <3> QED  BY <3>1, <3>4, <3>5, <3>6, <3>7 DEF WorkerStands
  <2>17. ASSUME NEW v \in ActionWorkers, v # w PROVE WorkerStands(v)'
    <3>1. WorkerStands(v) /\ worker'[v] = worker[v] /\ worker[v] \in Workers
      BY <1>1, <2>6, <2>17 DEF Licensed
    <3>2. \A q \in ToolCalls : Blocks(q) => Blocks(q)' /\ q.call # r.call
      BY <2>9 DEF Blocks
    <3>3. Holding(v) =>
            \A q : q = worker[v].call =>
              /\ calls'[q.call].status = "running" /\ calls'[q.call].call = q
              /\ q \notin handed /\ (q.effect => effects[q] = 0)
              /\ \A u \in ActionWorkers : u # v /\ Holding(u)' => worker'[u].call.call # q.call
      <4> SUFFICES ASSUME Holding(v), NEW q, q = worker[v].call
                   PROVE  /\ calls'[q.call].status = "running" /\ calls'[q.call].call = q
                          /\ q \notin handed /\ (q.effect => effects[q] = 0)
                          /\ \A u \in ActionWorkers : u # v /\ Holding(u)' => worker'[u].call.call # q.call
        OBVIOUS
      <4>1. q \in ToolCalls /\ q.call \in Calls /\ q.call # r.call
        BY <2>10, <3>1, WorkerKinds, CallFacts DEF Holding
      <4>2. calls'[q.call] = calls[q.call]
        BY <2>5, <4>1
      <4>3. \A u \in ActionWorkers : u # v /\ Holding(u)' => worker'[u].call.call # q.call
        BY <2>3, <2>6, <3>1, <4>1 DEF Holding, WorkerStands
      <4> QED  BY <3>1, <4>2, <4>3 DEF WorkerStands
    <3>4. worker[v].at = "report" =>
            \A q : q = worker[v].call =>
              /\ q.via = "service" /\ Blocks(q)'
              /\ worker[v].outcome = "success" => effects[q] > 0
              /\ \A u \in ActionWorkers : Holding(u)' => worker'[u].call.call # q.call
      <4> SUFFICES ASSUME worker[v].at = "report", NEW q, q = worker[v].call
                   PROVE  /\ q.via = "service" /\ Blocks(q)'
                          /\ worker[v].outcome = "success" => effects[q] > 0
                          /\ \A u \in ActionWorkers : Holding(u)' => worker'[u].call.call # q.call
        OBVIOUS
      <4>1. q \in ToolCalls /\ q.via = "service" /\ Blocks(q)
        BY <3>1, WorkerKinds DEF WorkerStands
      <4>2. Blocks(q)' /\ q.call # r.call
        BY <3>2, <4>1
      <4>3. \A u \in ActionWorkers : Holding(u)' => worker'[u].call.call # q.call
        BY <2>3, <2>6, <3>1, <4>2 DEF Holding, WorkerStands
      <4> QED  BY <3>1, <4>1, <4>2, <4>3 DEF WorkerStands
    <3>5. worker[v].at = "keep" =>
            \A q : q = worker[v].call => IsRow(q)' /\ (worker[v].status = "success" => Acted(q))
      BY <2>9, <3>1, WorkerKinds DEF WorkerStands
    <3> QED  BY <1>3, <3>1, <3>3, <3>4, <3>5 DEF WorkerStands, Holding, Blocks, IsRow, Acted
  <2>18. \A a \in ApprovalIds : TicketIsGranted(a)'
    BY <1>3, StillStands
  <2> QED  BY <2>11, <2>12, <2>13, <2>14, <2>15, <2>16, <2>17, <2>18 DEF Licensed
<1> QED  BY <1>5, <1>6

\* The sidecar reports an action that acted, or one it gives up.
LEMMA LicensedReports ==
  ASSUME Licensed, NEW w \in ActionWorkers, NEW r \in ToolCalls, ReportEnd(w, r), UNCHANGED offered
  PROVE  Licensed'
<1>1. worker \in [ActionWorkers -> Workers] /\ effects \in [ToolCalls -> Nat] /\ CallStands(r)
  BY DEF Licensed, ActionsTyped, Workers
<1>2. /\ UNCHANGED <<minting, answer, granted, tickets, calls, replays, replied, effects>>
      /\ worker[w] = Idle /\ r.via = "service" /\ handed' \subseteq handed
  BY DEF ReportEnd, ticketVars, callVars
<1>3. r.effect
  BY <1>2, CallFacts
<1>4. PICK o \in {"success", "execution_failed", "transport"} :
        /\ worker' = [worker EXCEPT ![w] = [at |-> "report", call |-> r, outcome |-> o, token |-> TRUE]]
        /\ effects[r] > 0 \/ (r \in handed /\ o = "transport")
  BY DEF ReportEnd
<1> DEFINE new == [at |-> "report", call |-> r, outcome |-> o, token |-> TRUE]
<1>5. new \in ReportingWorkers /\ new.at = "report" /\ new.call = r /\ new.outcome = o
  BY DEF ReportingWorkers
<1>6. new \in Workers
  BY <1>5 DEF Workers
<1>7. worker' = [worker EXCEPT ![w] = new]
  BY <1>4
<1> HIDE DEF new
<1>8. worker'[w] = new /\ \A v \in ActionWorkers : v # w => worker'[v] = worker[v]
  BY <1>1, <1>6, <1>7
<1>9. Blocks(r)
  BY <1>1, <1>2, <1>3, <1>4 DEF CallStands
<1>10. ASSUME NEW v \in ActionWorkers, Holding(v), worker[v].call.call = r.call PROVE FALSE
  <2>1. WorkerStands(v)
    BY DEF Licensed
  <2>2. worker[v].call = r
    BY <1>9, <1>10, <2>1 DEF WorkerStands, Blocks, IsRow
  <2> QED  BY <1>1, <1>3, <1>4, <1>10, <2>1, <2>2 DEF WorkerStands
<1>11. ~Holding(w)'
  BY <1>5, <1>8 DEF Holding
<1>12. WorkerStands(w)'
  <2>1. \A v \in ActionWorkers : Holding(v)' => worker'[v].call.call # r.call
    BY <1>8, <1>10, <1>11 DEF Holding
  <2>2. Blocks(r)' /\ (o = "success" => effects'[r] > 0) /\ r.via = "service"
    BY <1>2, <1>4, <1>9 DEF Blocks, IsRow
  <2>3. worker'[w].at = "report" /\ worker'[w].call = r /\ worker'[w].outcome = o
    BY <1>5, <1>8
  <2> QED  BY <1>11, <2>1, <2>2, <2>3 DEF WorkerStands
<1> QED  BY <1>2, <1>6, <1>7, <1>11, <1>12, StillStands, LicensedMoves

\* The sidecar acts once on a target it was handed.
LEMMA LicensedActs ==
  ASSUME Licensed, NEW r \in ToolCalls, Act(r), UNCHANGED offered
  PROVE  Licensed'
<1>1. /\ r \in handed /\ handed' = handed \ {r} /\ effects \in [ToolCalls -> Nat] /\ CallStands(r)
      /\ worker \in [ActionWorkers -> Workers]
  BY DEF Licensed, ActionsTyped, Act, Workers
<1>2. /\ r.via = "service" /\ r \in granted /\ Blocks(r) /\ effects[r] = 0
  BY <1>1 DEF CallStands
<1>3. /\ effects' \in [ToolCalls -> Nat] /\ effects'[r] = 1
      /\ \A q \in ToolCalls : q # r => effects'[q] = effects[q]
  BY <1>1, <1>2 DEF Act
<1>4. UNCHANGED <<minting, answer, granted, tickets, calls, replays, replied, worker>>
  BY DEF Act, ticketVars, callVars
<1>5. ActionsTyped'
  BY <1>1, <1>3, <1>4 DEF Licensed, ActionsTyped
<1>6. BlockingIsOne' /\ \A c \in Calls : RowIsNamed(c)'
  BY <1>4 DEF Licensed, BlockingIsOne, RowIsNamed
<1>7. \A a \in ApprovalIds : TicketIsGranted(a)'
  BY <1>4, StillStands
<1>8. \A q \in ToolCalls : Acted(q) => Acted(q)'
  BY <1>3 DEF Acted
<1>9. ASSUME NEW c \in Calls PROVE ReplayStands(c)'
  <2>1. ReplayStands(c) /\ calls[c] \in CallRows
    BY DEF Licensed, ActionsTyped
  <2> QED  BY <1>4, <1>8, <2>1, RowKinds DEF ReplayStands, Acted
<1>10. ASSUME NEW q \in ToolCalls PROVE CallStands(q)'
  <2>1. CallStands(q)
    BY DEF Licensed
  <2>2. CASE q = r
    <3>1. r \notin handed' /\ effects'[r] = 1 /\ Blocks(r)' /\ IsRow(r)' /\ r \in granted'
      BY <1>1, <1>2, <1>3, <1>4 DEF Blocks, IsRow
    <3>2. Acted(r)'
      BY <3>1 DEF Acted
    <3> QED  BY <2>2, <3>1, <3>2 DEF CallStands
  <2>3. CASE q # r
    BY <1>1, <1>3, <1>4, <2>1, <2>3 DEF CallStands, Blocks, IsRow, Acted
  <2> QED  BY <2>2, <2>3
<1>11. ASSUME NEW v \in ActionWorkers PROVE WorkerStands(v)'
  <2>1. WorkerStands(v) /\ worker[v] \in Workers
    BY <1>1 DEF Licensed
  <2>2. Holding(v) => worker[v].call \in ToolCalls /\ worker[v].call # r
    BY <1>1, <2>1, WorkerKinds DEF WorkerStands, Holding
  <2>3. worker[v].at = "report" => worker[v].call \in ToolCalls /\ (effects[worker[v].call] > 0 => effects'[worker[v].call] > 0)
    BY <1>3, <2>1, WorkerKinds
  <2>4. worker[v].at = "keep" => worker[v].call \in ToolCalls /\ (Acted(worker[v].call) => \A q : q = worker[v].call => Acted(q)')
    BY <1>8, <2>1, WorkerKinds
  <2>5. Holding(v) => worker[v].call \notin handed' /\ effects'[worker[v].call] = effects[worker[v].call]
    BY <1>1, <1>3, <2>1, <2>2 DEF WorkerStands
  <2> QED  BY <1>4, <2>1, <2>3, <2>4, <2>5 DEF WorkerStands, Holding, Blocks, IsRow, Acted
<1> QED  BY <1>5, <1>6, <1>7, <1>9, <1>10, <1>11 DEF Licensed

\* An end of the host forgets tickets, workers, targets and responses; one of the sidecar, targets.
LEMMA LicensedForgets ==
  ASSUME Licensed, HostEnds \/ SidecarEnds, UNCHANGED offered
  PROVE  Licensed'
<1>1. UNCHANGED <<calls, replied, effects, granted>> /\ handed' = {}
  BY DEF HostEnds, SidecarEnds, ticketVars, callVars
<1>2. CASE HostEnds
  <2>1. /\ tickets' = [a \in ApprovalIds |-> NoTicket] /\ minting' = Idle /\ answer' = Idle
        /\ replays' = [c \in Calls |-> "none"] /\ worker' = [w \in ActionWorkers |-> Idle]
    BY <1>2 DEF HostEnds
  <2>2. NoTicket \in Tickets /\ NoTicket.phase = "none"
    BY DEF Tickets, NoTicket
  <2>3. /\ tickets' \in [ApprovalIds -> Tickets] /\ \A a \in ApprovalIds : tickets'[a] = NoTicket
    BY <2>1, <2>2
  <2>4. /\ replays' \in [Calls -> {"none", "success", "failed"}] /\ \A c \in Calls : replays'[c] = "none"
        /\ worker' \in [ActionWorkers -> {Idle} \union ServingWorkers \union KeepingWorkers \union ReportingWorkers]
        /\ \A w \in ActionWorkers : worker'[w] = Idle
    BY <2>1
  <2>5. ActionsTyped'
    BY <1>1, <2>1, <2>3, <2>4 DEF Licensed, ActionsTyped
  <2>6. /\ BlockingIsOne' /\ \A c \in Calls : RowIsNamed(c)' /\ ReplayStands(c)'
        /\ \A a \in ApprovalIds : TicketIsGranted(a)'
    BY <1>1, <2>2, <2>3, <2>4 DEF Licensed, BlockingIsOne, RowIsNamed, ReplayStands, TicketIsGranted
  <2>7. \A w \in ActionWorkers : WorkerStands(w)'
    BY <2>4 DEF WorkerStands, Holding, Idle
  <2>8. \A r \in ToolCalls : CallStands(r)'
    BY <1>1 DEF Licensed, CallStands, Blocks, IsRow, Acted
  <2> QED  BY <2>5, <2>6, <2>7, <2>8 DEF Licensed
<1>3. CASE SidecarEnds
  <2>1. UNCHANGED <<tickets, minting, answer, replays, worker>>
    BY <1>3 DEF SidecarEnds, ticketVars, callVars
  <2>2. ActionsTyped'
    BY <1>1, <2>1 DEF Licensed, ActionsTyped
  <2>3. /\ BlockingIsOne' /\ \A c \in Calls : RowIsNamed(c)' /\ ReplayStands(c)'
        /\ \A a \in ApprovalIds : TicketIsGranted(a)'
    BY <1>1, <2>1 DEF Licensed, BlockingIsOne, RowIsNamed, ReplayStands, TicketIsGranted, Acted
  <2>4. \A w \in ActionWorkers : WorkerStands(w)'
    BY <1>1, <2>1 DEF Licensed, WorkerStands, Holding, Blocks, IsRow, Acted
  <2>5. \A r \in ToolCalls : CallStands(r)'
    BY <1>1 DEF Licensed, CallStands, Blocks, IsRow, Acted
  <2> QED  BY <2>2, <2>3, <2>4, <2>5 DEF Licensed
<1> QED  BY <1>2, <1>3

\* Nothing has been asked, claimed or handed out yet.
LEMMA LicensedInit == HostActionsInit => Licensed
<1> SUFFICES ASSUME HostActionsInit PROVE Licensed
  OBVIOUS
<1>1. /\ offered \in Offers /\ handed = {} /\ granted = {} /\ replied = {} /\ minting = Idle /\ answer = Idle
      /\ tickets = [a \in ApprovalIds |-> NoTicket] /\ calls = [c \in Calls |-> NoCall]
      /\ replays = [c \in Calls |-> "none"] /\ worker = [w \in ActionWorkers |-> Idle]
      /\ effects = [r \in ToolCalls |-> 0]
  BY DEF HostActionsInit
<1>2. /\ NoTicket \in Tickets /\ NoTicket.phase = "none" /\ NoCall \in CallRows /\ NoCall.status = "none"
      /\ Idle.at = "idle"
  BY DEF Tickets, NoTicket, CallRows, NoCall, Idle
<1>3. /\ \A a \in ApprovalIds : tickets[a] = NoTicket
      /\ \A c \in Calls : calls[c] = NoCall /\ replays[c] = "none"
      /\ \A w \in ActionWorkers : worker[w] = Idle
      /\ \A r \in ToolCalls : effects[r] = 0
  BY <1>1
<1>4. ActionsTyped
  <2>1. effects \in [ToolCalls -> Nat]
    BY <1>1
  <2>2. tickets \in [ApprovalIds -> Tickets] /\ calls \in [Calls -> CallRows]
    BY <1>1, <1>2
  <2>3. /\ worker \in [ActionWorkers -> {Idle} \union ServingWorkers \union KeepingWorkers \union ReportingWorkers]
        /\ replays \in [Calls -> {"none", "success", "failed"}]
    BY <1>1
  <2> QED  BY <1>1, <2>1, <2>2, <2>3 DEF ActionsTyped
<1>5. /\ BlockingIsOne /\ \A c \in Calls : RowIsNamed(c) /\ ReplayStands(c)
      /\ \A a \in ApprovalIds : TicketIsGranted(a)
  BY <1>2, <1>3 DEF BlockingIsOne, Blocking, RowIsNamed, ReplayStands, TicketIsGranted
<1>6. \A w \in ActionWorkers : WorkerStands(w)
  BY <1>2, <1>3 DEF WorkerStands, Holding
<1>7. \A r \in ToolCalls : CallStands(r)
  BY <1>1, <1>3 DEF CallStands
<1> QED  BY <1>4, <1>5, <1>6, <1>7 DEF Licensed

\* Every step keeps it.
LEMMA LicensedNext == Licensed /\ [HostActionsNext]_actionVars => Licensed'
<1> SUFFICES ASSUME Licensed, [HostActionsNext]_actionVars PROVE Licensed'
  OBVIOUS
<1>1. offered \subseteq ToolCalls
  BY DEF Licensed, ActionsTyped, ToolCalls
<1>2. CASE UNCHANGED actionVars
  <2>1. UNCHANGED <<offered, tickets, minting, answer, granted, callVars, worker, handed, effects>>
    BY <1>2 DEF actionVars, ticketVars
  <2> QED  BY <2>1, StillStands, LicensedTickets DEF Licensed, ActionsTyped
<1>3. CASE HostActionsNext
  <2>1. UNCHANGED offered /\ HostActionsStep
    BY <1>3 DEF HostActionsNext
  <2>2. ASSUME NEW r \in offered, AskApproval(r) \/ AutoRecord(r) \/ ObserveApproval(r) PROVE Licensed'
    BY <1>1, <2>1, <2>2, LicensedAsks
  <2>3. ASSUME NEW r \in offered, Act(r) PROVE Licensed'
    BY <1>1, <2>1, <2>3, LicensedActs
  <2>4. CASE AutoApprove \/ \E a \in ApprovalIds : Expire(a)
    BY <2>1, <2>4, LicensedClock
  <2>5. CASE (\E a \in ApprovalIds, b \in BOOLEAN : BeginResponse(a, b)) \/ \E b \in BOOLEAN : FinishResponse(b)
    BY <2>1, <2>5, LicensedAnswers
  <2>6. ASSUME NEW w \in ActionWorkers, ClaimCall(w) PROVE Licensed'
    BY <2>1, <2>6, LicensedClaims
  <2>7. ASSUME NEW w \in ActionWorkers, KeepResponse(w) PROVE Licensed'
    BY <2>1, <2>7, LicensedKeeps
  <2>8. ASSUME NEW w \in ActionWorkers, ConsumeTicket(w) PROVE Licensed'
    BY <2>1, <2>8, LicensedConsumes
  <2>9. ASSUME NEW w \in ActionWorkers, HandTarget(w) PROVE Licensed'
    BY <2>1, <2>9, LicensedHands
  <2>10. ASSUME NEW w \in ActionWorkers, RunObservation(w) \/ RefuseEffect(w) \/ FinishReported(w) PROVE Licensed'
    BY <2>1, <2>10, LicensedFinishes
  <2>11. ASSUME NEW w \in ActionWorkers, RunMcpTool(w) PROVE Licensed'
    BY <2>1, <2>11, LicensedRuns
  <2>12. ASSUME NEW w \in ActionWorkers, NEW r \in offered, ServeAction(w, r) \/ ServeTool(w, r) PROVE Licensed'
    BY <1>1, <2>1, <2>12, LicensedTakesUp
  <2>13. ASSUME NEW w \in ActionWorkers, NEW r \in offered, ReportEnd(w, r) PROVE Licensed'
    BY <1>1, <2>1, <2>13, LicensedReports
  <2>14. CASE HostEnds \/ SidecarEnds
    BY <2>1, <2>14, LicensedForgets
  <2> QED
    BY <2>1, <2>2, <2>3, <2>4, <2>5, <2>6, <2>7, <2>8, <2>9, <2>10, <2>11, <2>12, <2>13, <2>14 DEF HostActionsStep
<1> QED  BY <1>2, <1>3

\* Every state of the requests, tickets and rows is one the inductive invariant describes.
THEOREM LicensedInvariant == HostActionsSpec => []Licensed
<1>1. HostActionsInit => Licensed
  BY LicensedInit
<1>2. Licensed /\ [HostActionsNext]_actionVars => Licensed'
  BY LicensedNext
<1> QED  BY <1>1, <1>2, PTL DEF HostActionsSpec

\* The host acts for the Agent only as approved and only once: the binding was granted, a call id
\* and the action of a plan step are spent when they acted, and a reply from memory is of a call
\* that acted (consume, claim_host_tool_call, finish_host_tool_call, the replay cache).
THEOREM ActsTheorem == HostActionsSpec => []ActsAsApproved
<1>1. ASSUME Licensed PROVE ActsAsApproved
  <2>1. /\ effects \in [ToolCalls -> Nat] /\ BlockingIsOne /\ replied \subseteq ToolCalls
        /\ \A r \in ToolCalls : CallStands(r) /\ r.call \in Calls /\ (r.via = "service" => r.effect)
    BY <1>1, CallFacts DEF Licensed, ActionsTyped
  <2>2. \A r \in ToolCalls : effects[r] \in Nat
    BY <2>1
  <2>3. \A r \in ToolCalls : r.effect /\ effects[r] > 0 => effects[r] = 1 /\ IsRow(r)
    BY <2>1 DEF CallStands
  <2>4. EffectIsGranted
    BY <2>1 DEF EffectIsGranted, CallStands
  <2>5. CallActsOnce
    <3> SUFFICES ASSUME NEW r \in ToolCalls, NEW q \in ToolCalls, r.effect, q.effect, r.call = q.call
                 PROVE  effects[r] <= 1 /\ (r # q => effects[r] = 0 \/ effects[q] = 0)
      BY DEF CallActsOnce
    <3>1. effects[r] \in {0, 1} /\ effects[q] \in {0, 1}
      BY <2>2, <2>3
    <3>2. effects[r] = 1 /\ effects[q] = 1 => r = q
      BY <2>3 DEF IsRow
    <3> QED  BY <3>1, <3>2
  <2>6. ActionActsOnce
    <3> SUFFICES ASSUME NEW r \in ToolCalls, NEW q \in ToolCalls, r.plan, q.plan, r.action = q.action,
                        r.via = "service", effects[r] > 0, effects[q] > 0
                 PROVE  r = q /\ effects[r] = 1
      BY DEF ActionActsOnce
    <3>1. q.via = "service"
      BY HostActionsAssumption
    <3>2. Blocks(r) /\ Blocks(q) /\ effects[r] = 1
      BY <2>1, <3>1 DEF CallStands
    <3>3. r.call = q.call
      BY <2>1, <3>2 DEF BlockingIsOne, Blocks, IsRow
    <3> QED  BY <3>2, <3>3 DEF Blocks, IsRow
  <2>7. CompletedActed
    BY <2>1 DEF CompletedActed, CallStands, Acted
  <2> QED  BY <2>4, <2>5, <2>6, <2>7 DEF ActsAsApproved
<1> QED  BY <1>1, LicensedInvariant, PTL

----------------------------------------------------------------------------
(* Backups: the ledger agrees with the server *)

BackupRows == {NoBackup} \union [status : {"available", "restored", "deleted"}, owner : Owners]
BackupJobs ==
  [op : {"backup", "restore", "cleanup"}, at : {"target", "report", "mark"}, task : Owners,
   items : SUBSET Files, batch : BOOLEAN]

BackupsTyped ==
  /\ ledger \in [Files -> BackupRows] /\ remote \subseteq Files /\ jobs \subseteq BackupJobs
  /\ scanned \in [Owners -> SUBSET Files]

\* A removal is of a row that is there, and is reported when the file is gone.
RemovalStands(j) ==
  \A b \in j.items : ledger[b].status # "none" /\ (j.at # "target" => b \notin remote)

\* A backup has the path to itself until its row is written.
JobStands(j) ==
  /\ j.items # {}
  /\ j.op = "backup" => \A b \in j.items : /\ ledger[b].status = "none"
                                           /\ \A k \in jobs : k.op = "backup" /\ b \in k.items => k = j
  /\ j.op = "cleanup" => RemovalStands(j)

Accounted == BackupsTyped /\ DeletedIsGone /\ \A j \in jobs : JobStands(j)

\* Rows and files stay, and no backup begins.
LEMMA AccountedMoves ==
  ASSUME Accounted, UNCHANGED <<ledger, remote>>, scanned' \in [Owners -> SUBSET Files],
         \A k \in jobs' : \/ k \in jobs
                          \/ /\ k \in BackupJobs /\ k.items # {} /\ k.op # "backup"
                             /\ k.op = "cleanup" => RemovalStands(k)
  PROVE  Accounted'
<1>1. BackupsTyped' /\ DeletedIsGone'
  BY DEF Accounted, BackupsTyped, DeletedIsGone
<1>2. ASSUME NEW k \in jobs' PROVE JobStands(k)'
  <2>1. CASE k \in jobs
    <3>1. JobStands(k)
      BY <2>1 DEF Accounted
    <3> QED  BY <3>1 DEF JobStands, RemovalStands
  <2>2. CASE k \notin jobs
    BY <1>2, <2>2 DEF JobStands, RemovalStands
  <2> QED  BY <2>1, <2>2
<1> QED  BY <1>1, <1>2 DEF Accounted

\* A job that only moves on keeps its fields.
LEMMA SteppedJob ==
  ASSUME NEW j \in BackupJobs, NEW at \in {"target", "report", "mark"}
  PROVE  /\ [j EXCEPT !.at = at] \in BackupJobs /\ [j EXCEPT !.at = at].at = at
         /\ [j EXCEPT !.at = at].op = j.op /\ [j EXCEPT !.at = at].items = j.items
BY DEF BackupJobs

\* A job ends, or restores, or a removal is checked again.
LEMMA AccountedSteps ==
  ASSUME Accounted, NEW j \in jobs,
         RestoreDone(j) \/ RestoreReport(j) \/ CleanupReport(j) \/ JobLost(j)
  PROVE  Accounted'
<1>1. UNCHANGED <<ledger, remote, scanned>> /\ scanned \in [Owners -> SUBSET Files]
      /\ j \in BackupJobs /\ JobStands(j)
  BY DEF RestoreDone, RestoreReport, CleanupReport, JobLost, Accounted, BackupsTyped
<1>2. CASE Drop(j)
  BY <1>1, <1>2, AccountedMoves DEF Drop
<1>3. ASSUME NEW at \in {"report", "mark"}, Step(j, at),
             j.op = "restore" \/ (j.op = "cleanup" /\ j.at = "report")
      PROVE  Accounted'
  <2> DEFINE new == [j EXCEPT !.at = at]
  <2>1. /\ new \in BackupJobs /\ new.at = at /\ new.op = j.op /\ new.items = j.items
    <3>1. at \in {"target", "report", "mark"}
      BY <1>3
    <3> QED  BY <1>1, <3>1, SteppedJob
  <2>2. jobs' = (jobs \ {j}) \union {new}
    BY <1>3 DEF Step
  <2> HIDE DEF new
  <2>3. new.items # {} /\ new.op # "backup" /\ (new.op = "cleanup" => RemovalStands(new))
    BY <1>1, <1>3, <2>1 DEF JobStands, RemovalStands
  <2> QED  BY <1>1, <2>1, <2>2, <2>3, AccountedMoves
<1> QED  BY <1>2, <1>3 DEF RestoreDone, RestoreReport, CleanupReport, JobLost

\* Calls begin, plans move and lists are read.
LEMMA AccountedBegins ==
  ASSUME Accounted, NEW t \in Owners,
         \/ RetentionScan(t) \/ ListQuery(t)
         \/ \E items \in SUBSET Files : PlanMoves(t, items) \/ \E b \in BOOLEAN : CleanupTarget(t, items, b)
         \/ \E b \in Files : RestoreTarget(t, b)
  PROVE  Accounted'
<1>1. UNCHANGED <<ledger, remote>> /\ scanned \in [Owners -> SUBSET Files]
  BY DEF RetentionScan, ListQuery, PlanMoves, CleanupTarget, RestoreTarget, Accounted, BackupsTyped
<1>2. CASE RetentionScan(t) \/ ListQuery(t)
  <2>1. UNCHANGED jobs /\ \E newest \in SUBSET Files : scanned' = [scanned EXCEPT ![t] = newest]
    BY <1>2 DEF RetentionScan, ListQuery, Available
  <2>2. scanned' \in [Owners -> SUBSET Files]
    BY <1>1, <2>1
  <2> QED  BY <1>1, <2>1, <2>2, AccountedMoves
<1>3. ASSUME NEW items \in SUBSET Files, PlanMoves(t, items) PROVE Accounted'
  BY <1>1, <1>3, AccountedMoves DEF PlanMoves
<1>4. ASSUME NEW items \in SUBSET Files, NEW b \in BOOLEAN, CleanupTarget(t, items, b) PROVE Accounted'
  <2> DEFINE ready == {c \in items : MayClean(t, c, b)}
             new == [op |-> "cleanup", at |-> "target", task |-> t, items |-> ready, batch |-> b]
  <2>1. jobs' = jobs \union {new} /\ UNCHANGED scanned /\ ready # {}
    BY <1>4 DEF CleanupTarget, Begin
  <2>2. ready \in SUBSET Files /\ \A c \in ready : ledger[c].status # "none"
    BY DEF MayClean, Available
  <2> HIDE DEF ready
  <2>3. new \in BackupJobs /\ new.items = ready /\ new.op = "cleanup" /\ new.at = "target"
    BY <2>2 DEF BackupJobs
  <2> HIDE DEF new
  <2>4. RemovalStands(new)
    BY <2>2, <2>3 DEF RemovalStands
  <2> QED  BY <1>1, <2>1, <2>3, <2>4, AccountedMoves
<1>5. ASSUME NEW b \in Files, RestoreTarget(t, b) PROVE Accounted'
  <2> DEFINE new == [op |-> "restore", at |-> "target", task |-> t, items |-> {b}, batch |-> FALSE]
  <2>1. jobs' = jobs \union {new} /\ UNCHANGED scanned
    BY <1>5 DEF RestoreTarget, Begin
  <2>2. new \in BackupJobs /\ new.items # {} /\ new.op = "restore"
    BY DEF BackupJobs
  <2> HIDE DEF new
  <2> QED  BY <1>1, <2>1, <2>2, AccountedMoves
<1> QED  BY <1>2, <1>3, <1>4, <1>5

\* A backup gets a path that neither the ledger, the server nor another call knows, and copies to it.
LEMMA AccountedCopies ==
  ASSUME Accounted, \/ \E t \in Owners, b \in Files : BackupTarget(t, b)
                    \/ \E j \in jobs : BackupCopied(j)
  PROVE  Accounted'
<1>1. BackupsTyped /\ DeletedIsGone
  BY DEF Accounted
<1>2. ASSUME NEW t \in Owners, NEW b \in Files, BackupTarget(t, b) PROVE Accounted'
  <2> DEFINE new == [op |-> "backup", at |-> "target", task |-> t, items |-> {b}, batch |-> FALSE]
  <2>1. jobs' = jobs \union {new} /\ UNCHANGED <<ledger, remote, scanned>> /\ NewPath(b)
    BY <1>2 DEF BackupTarget, Begin
  <2>2. new \in BackupJobs /\ new.items = {b} /\ new.op = "backup"
    BY DEF BackupJobs
  <2> HIDE DEF new
  <2>3. BackupsTyped' /\ DeletedIsGone'
    BY <1>1, <2>1, <2>2 DEF BackupsTyped, DeletedIsGone
  <2>4. ledger[b].status = "none" /\ \A k \in jobs : b \notin k.items
    BY <2>1 DEF NewPath
  <2>5. ASSUME NEW k \in jobs PROVE JobStands(k)'
    <3>1. JobStands(k)
      BY DEF Accounted
    <3> QED  BY <2>1, <2>2, <2>4, <3>1 DEF JobStands, RemovalStands
  <2>6. JobStands(new)'
    <3>1. \A k \in jobs' : b \in k.items => k = new
      BY <2>1, <2>4
    <3> QED  BY <2>1, <2>2, <2>4, <3>1 DEF JobStands
  <2> QED  BY <2>1, <2>3, <2>5, <2>6 DEF Accounted
<1>3. ASSUME NEW j \in jobs, BackupCopied(j) PROVE Accounted'
  <2> DEFINE new == [j EXCEPT !.at = "report"]
  <2>1. jobs' = (jobs \ {j}) \union {new} /\ remote' = remote \union j.items
        /\ UNCHANGED <<ledger, scanned>> /\ j.op = "backup" /\ j \in BackupJobs /\ JobStands(j)
    BY <1>1, <1>3 DEF BackupCopied, Step, BackupsTyped, Accounted
  <2>2. new \in BackupJobs /\ new.items = j.items /\ new.op = "backup"
    BY <2>1, SteppedJob
  <2> HIDE DEF new
  <2>3. j.items \subseteq Files /\ \A b \in j.items : ledger[b].status = "none"
    BY <2>1 DEF BackupJobs, JobStands
  <2>4. BackupsTyped' /\ DeletedIsGone'
    BY <1>1, <2>1, <2>2, <2>3 DEF BackupsTyped, DeletedIsGone
  <2>5. \A k \in jobs : k # j /\ k.op = "backup" => \A b \in k.items : b \notin j.items
    BY <2>1 DEF JobStands
  <2>6. ASSUME NEW k \in jobs, k # j PROVE JobStands(k)'
    <3>1. JobStands(k)
      BY DEF Accounted
    <3>2. k.op = "cleanup" => RemovalStands(k)'
      BY <2>1, <2>3, <3>1 DEF JobStands, RemovalStands
    <3>3. k.op = "backup" => \A b \in k.items : \A l \in jobs' : l.op = "backup" /\ b \in l.items => l = k
      BY <2>1, <2>2, <2>5, <2>6, <3>1 DEF JobStands
    <3> QED  BY <2>1, <3>1, <3>2, <3>3 DEF JobStands
  <2>7. JobStands(new)'
    <3>1. \A b \in j.items : \A l \in jobs' : l.op = "backup" /\ b \in l.items => l = new
      BY <2>1, <2>5
    <3> QED  BY <2>1, <2>2, <2>3, <3>1 DEF JobStands
  <2> QED  BY <2>1, <2>4, <2>6, <2>7 DEF Accounted
<1> QED  BY <1>2, <1>3

\* The new row of a backup, and the status of a spent one.
LEMMA BackupRowFacts ==
  ASSUME NEW x \in BackupRows
  PROVE  /\ x.status \in {"none", "available", "restored", "deleted"}
         /\ x.status = "available" => \A s \in {"restored", "deleted"} :
              [x EXCEPT !.status = s] \in BackupRows /\ [x EXCEPT !.status = s].status = s
BY DEF BackupRows, NoBackup

\* Rows are written: a new one of a backup that is done, the end of one that is spent.
LEMMA AccountedRows ==
  ASSUME Accounted, NEW j \in jobs, Drop(j), UNCHANGED <<remote, scanned>>,
         NEW b \in j.items, NEW row \in BackupRows, ledger' = [ledger EXCEPT ![b] = row],
         row.status # "none", row.status = "deleted" => b \notin remote,
         ledger[b].status = "none" => j.op = "backup"
  PROVE  Accounted'
<1>1. BackupsTyped /\ DeletedIsGone /\ JobStands(j) /\ b \in Files
  BY DEF Accounted, BackupsTyped, BackupJobs
<1>2. ledger' \in [Files -> BackupRows] /\ \A c \in Files : ledger'[c] = IF c = b THEN row ELSE ledger[c]
  BY <1>1 DEF BackupsTyped
<1>3. jobs' \subseteq jobs /\ j \notin jobs'
  BY DEF Drop
<1>4. BackupsTyped' /\ DeletedIsGone'
  BY <1>1, <1>2, <1>3 DEF BackupsTyped, DeletedIsGone
<1>5. ASSUME NEW k \in jobs' PROVE JobStands(k)'
  <2>1. k \in jobs /\ k # j /\ JobStands(k) /\ k.items \subseteq Files
    BY <1>1, <1>3 DEF Accounted, BackupsTyped, BackupJobs
  <2>2. k.op = "backup" => b \notin k.items
    <3>1. CASE ledger[b].status = "none"
      BY <1>1, <2>1, <3>1 DEF JobStands
    <3>2. CASE ledger[b].status # "none"
      BY <2>1, <3>2 DEF JobStands
    <3> QED  BY <3>1, <3>2
  <2>3. k.op = "cleanup" => RemovalStands(k)'
    BY <1>2, <2>1 DEF JobStands, RemovalStands
  <2>4. k.op = "backup" => \A c \in k.items : /\ ledger'[c].status = "none"
                                              /\ \A l \in jobs' : l.op = "backup" /\ c \in l.items => l = k
    BY <1>2, <1>3, <2>1, <2>2 DEF JobStands
  <2> QED  BY <2>1, <2>3, <2>4 DEF JobStands
<1> QED  BY <1>4, <1>5 DEF Accounted

\* The end of a job drops it and leaves the rest.
LEMMA AccountedDrops ==
  ASSUME Accounted, NEW j \in jobs, Drop(j), UNCHANGED <<ledger, remote, scanned>>
  PROVE  Accounted'
<1>1. jobs' \subseteq jobs /\ scanned \in [Owners -> SUBSET Files]
  BY DEF Drop, Accounted, BackupsTyped
<1> QED  BY <1>1, AccountedMoves

\* The reports of a backup, a restore and a removal keep the invariant.
LEMMA AccountedReports ==
  ASSUME Accounted, NEW j \in jobs, BackupRegister(j) \/ RestoreMark(j) \/ CleanupMark(j)
  PROVE  Accounted'
<1>1. /\ Drop(j) /\ UNCHANGED <<remote, scanned>> /\ JobStands(j) /\ j \in BackupJobs
      /\ ledger \in [Files -> BackupRows]
  BY DEF BackupRegister, RestoreMark, CleanupMark, Accounted, BackupsTyped
<1>2. PICK b \in j.items : b \in Files
  BY <1>1 DEF JobStands, BackupJobs
<1>3. ledger[b] \in BackupRows
  BY <1>1, <1>2
<1>4. CASE UNCHANGED ledger
  BY <1>1, <1>4, AccountedDrops
<1>5. CASE BackupRegister(j) /\ ledger' # ledger
  <2> DEFINE row == [status |-> "available", owner |-> j.task]
  <2>1. row \in BackupRows /\ row.status = "available"
    BY <1>1 DEF BackupRows, BackupJobs
  <2>2. ledger' = [ledger EXCEPT ![b] = row] /\ j.op = "backup"
    BY <1>2, <1>5 DEF BackupRegister, insert_filesystem_backup
  <2> HIDE DEF row
  <2> QED  BY <1>1, <1>2, <2>1, <2>2, AccountedRows
<1>6. ASSUME NEW s \in {"restored", "deleted"}, Consume(b, s), ledger' # ledger,
             s = "deleted" => b \notin remote
      PROVE  Accounted'
  <2> DEFINE row == [ledger[b] EXCEPT !.status = s]
  <2>1. ledger[b].status = "available" /\ ledger' = [ledger EXCEPT ![b] = row]
    BY <1>1, <1>6 DEF Consume, Available
  <2>2. row \in BackupRows /\ row.status = s
    BY <1>3, <2>1, BackupRowFacts
  <2> HIDE DEF row
  <2> QED  BY <1>1, <1>2, <1>6, <2>1, <2>2, AccountedRows
<1>7. CASE RestoreMark(j)
  BY <1>2, <1>4, <1>6, <1>7 DEF RestoreMark
<1>8. CASE CleanupMark(j)
  <2>1. b \notin remote
    BY <1>1, <1>2, <1>8 DEF CleanupMark, JobStands, RemovalStands
  <2> QED  BY <1>2, <1>4, <1>6, <1>8, <2>1 DEF CleanupMark
<1> QED  BY <1>4, <1>5, <1>7, <1>8

\* The server removes a file, and its report is a job of its own.
LEMMA AccountedRemoves ==
  ASSUME Accounted, NEW j \in jobs, NEW b \in j.items, CleanupRemoves(j, b)
  PROVE  Accounted'
<1>1. /\ BackupsTyped /\ DeletedIsGone /\ JobStands(j) /\ j \in BackupJobs
      /\ j.op = "cleanup" /\ j.at = "target" /\ b \in remote /\ remote' = remote \ {b}
      /\ UNCHANGED <<ledger, scanned>> /\ b \in Files
  BY DEF CleanupRemoves, Accounted, BackupsTyped, BackupJobs
<1> DEFINE rest == [j EXCEPT !.items = @ \ {b}]
           done == [j EXCEPT !.at = "report", !.items = {b}]
<1>2. /\ rest \in BackupJobs /\ rest.items = j.items \ {b} /\ rest.op = "cleanup" /\ rest.at = "target"
      /\ done \in BackupJobs /\ done.items = {b} /\ done.op = "cleanup" /\ done.at = "report"
  BY <1>1 DEF BackupJobs
<1>3. rest.items = {} => rest = [j EXCEPT !.items = {}]
  BY <1>1, <1>2 DEF BackupJobs
<1>4. /\ jobs' = (jobs \ {j}) \union ({rest} \ {[j EXCEPT !.items = {}]}) \union {done}
  BY DEF CleanupRemoves
<1> HIDE DEF rest, done
<1>5. /\ \A k \in jobs' : k \in jobs \/ (k = rest /\ rest.items # {}) \/ k = done
  BY <1>3, <1>4
<1>6. BackupsTyped' /\ DeletedIsGone'
  BY <1>1, <1>2, <1>5 DEF BackupsTyped, DeletedIsGone
<1>7. ASSUME NEW k \in jobs' PROVE JobStands(k)'
  <2>1. CASE k \in jobs
    <3>1. JobStands(k)
      BY <2>1 DEF Accounted
    <3>2. k.op = "cleanup" => RemovalStands(k)'
      BY <1>1, <3>1 DEF JobStands, RemovalStands
    <3>3. k.op = "backup" => \A c \in k.items : \A l \in jobs' : l.op = "backup" /\ c \in l.items => l = k
      BY <1>2, <1>5, <3>1 DEF JobStands
    <3> QED  BY <1>1, <3>1, <3>2, <3>3 DEF JobStands
  <2>2. CASE (k = rest /\ rest.items # {}) \/ k = done
    BY <1>1, <1>2, <2>2 DEF JobStands, RemovalStands
  <2> QED  BY <1>5, <2>1, <2>2
<1> QED  BY <1>6, <1>7 DEF Accounted

\* Every step keeps the invariant.
LEMMA AccountedNext == Accounted /\ [BackupsNext]_backupVars => Accounted'
<1> SUFFICES ASSUME Accounted, [BackupsNext]_backupVars PROVE Accounted'
  OBVIOUS
<1>1. CASE UNCHANGED backupVars
  BY <1>1, AccountedMoves DEF backupVars, Accounted, BackupsTyped
<1>2. CASE BackupsNext
  <2>1. ASSUME NEW t \in Owners,
               \/ RetentionScan(t) \/ ListQuery(t)
               \/ \E items \in SUBSET Files :
                    PlanMoves(t, items) \/ \E b \in BOOLEAN : CleanupTarget(t, items, b)
               \/ \E b \in Files : RestoreTarget(t, b)
        PROVE  Accounted'
    BY <2>1, AccountedBegins
  <2>2. ASSUME NEW t \in Owners, NEW b \in Files, BackupTarget(t, b) PROVE Accounted'
    BY <2>2, AccountedCopies
  <2>3. ASSUME NEW j \in jobs, BackupCopied(j) PROVE Accounted'
    BY <2>3, AccountedCopies
  <2>4. ASSUME NEW j \in jobs, RestoreDone(j) \/ RestoreReport(j) \/ CleanupReport(j) \/ JobLost(j)
        PROVE  Accounted'
    BY <2>4, AccountedSteps
  <2>5. ASSUME NEW j \in jobs, BackupRegister(j) \/ RestoreMark(j) \/ CleanupMark(j) PROVE Accounted'
    BY <2>5, AccountedReports
  <2>6. ASSUME NEW j \in jobs, NEW b \in j.items, CleanupRemoves(j, b) PROVE Accounted'
    BY <2>6, AccountedRemoves
  <2> QED  BY <1>2, <2>1, <2>2, <2>3, <2>4, <2>5, <2>6 DEF BackupsNext
<1> QED  BY <1>1, <1>2

\* Every state of the ledger, the server and the calls is one the inductive invariant describes.
THEOREM AccountedInvariant == BackupsSpec => []Accounted
<1>1. BackupsInit => Accounted
  BY DEF BackupsInit, Accounted, BackupsTyped, BackupRows, NoBackup, DeletedIsGone
<1> QED  BY <1>1, AccountedNext, PTL DEF BackupsSpec

\* A row is written in two places, and neither writes one that is spent.
LEMMA SpentStays ==
  ASSUME Accounted, BackupsNext
  PROVE  SpendsOnce
<1>1. ledger \in [Files -> BackupRows] /\ \A j \in jobs : JobStands(j)
  BY DEF Accounted, BackupsTyped
<1>2. CASE UNCHANGED ledger
  BY <1>2 DEF SpendsOnce
<1>3. ASSUME NEW j \in jobs, BackupRegister(j), ledger' # ledger PROVE SpendsOnce
  <2>1. PICK b \in j.items : ledger' = [ledger EXCEPT ![b] = [status |-> "available", owner |-> j.task]]
                             /\ ledger[b].status = "none"
    BY <1>1, <1>3 DEF BackupRegister, insert_filesystem_backup, JobStands
  <2> QED  BY <1>1, <2>1 DEF SpendsOnce
<1>4. ASSUME NEW j \in jobs, RestoreMark(j) \/ CleanupMark(j), ledger' # ledger PROVE SpendsOnce
  <2>1. PICK b \in j.items, s \in {"restored", "deleted"} :
          ledger' = [ledger EXCEPT ![b].status = s] /\ ledger[b].status = "available"
    BY <1>1, <1>4 DEF RestoreMark, CleanupMark, Consume, Available, JobStands
  <2> QED  BY <1>1, <2>1 DEF SpendsOnce
<1>5. UNCHANGED ledger \/ \E j \in jobs : BackupRegister(j) \/ RestoreMark(j) \/ CleanupMark(j)
  <2>1. ASSUME NEW t \in Owners,
               \/ RetentionScan(t) \/ ListQuery(t)
               \/ \E items \in SUBSET Files :
                    PlanMoves(t, items) \/ \E b \in BOOLEAN : CleanupTarget(t, items, b)
               \/ \E b \in Files : BackupTarget(t, b) \/ RestoreTarget(t, b)
        PROVE  UNCHANGED ledger
    BY <2>1 DEF RetentionScan, ListQuery, PlanMoves, CleanupTarget, BackupTarget, RestoreTarget
  <2>2. ASSUME NEW j \in jobs, BackupCopied(j) \/ RestoreDone(j) \/ RestoreReport(j)
        PROVE  UNCHANGED ledger
    BY <2>2 DEF BackupCopied, RestoreDone, RestoreReport
  <2>3. ASSUME NEW j \in jobs, CleanupReport(j) \/ JobLost(j) \/ \E b \in j.items : CleanupRemoves(j, b)
        PROVE  UNCHANGED ledger
    <3>1. CASE CleanupReport(j)
      BY <3>1 DEF CleanupReport
    <3>2. CASE JobLost(j)
      BY <3>2 DEF JobLost
    <3>3. ASSUME NEW b \in j.items, CleanupRemoves(j, b) PROVE UNCHANGED ledger
      BY <3>3 DEF CleanupRemoves
    <3> QED  BY <2>3, <3>1, <3>2, <3>3
  <2> QED  BY <2>1, <2>2, <2>3 DEF BackupsNext
<1> QED  BY <1>2, <1>3, <1>4, <1>5

\* The ledger of backups agrees with the server: a row says deleted only of a file that is gone, and
\* one that is spent stays as it is, whatever calls of two tasks, revised plans and lost answers
\* come between (insert_filesystem_backup, the conditional UPDATEs, handle_filesystem_backup_deleted).
THEOREM BackupTheorem == BackupsSpec => BackupLedgerIsTrue
<1>1. Accounted /\ Accounted' /\ [BackupsNext]_backupVars => [DeletedIsGone' /\ SpendsOnce]_backupVars
  <2> SUFFICES ASSUME Accounted, Accounted', BackupsNext PROVE DeletedIsGone' /\ SpendsOnce
    OBVIOUS
  <2>1. DeletedIsGone'
    BY DEF Accounted
  <2> QED  BY <2>1, SpentStays
<1> QED  BY <1>1, AccountedInvariant, PTL DEF BackupsSpec, BackupLedgerIsTrue

----------------------------------------------------------------------------
(* Sessions of MCP servers: each has somebody who ends it and somebody who wakes its callers *)

McpRows == [saved : BOOLEAN, enabled : BOOLEAN, allowed : SUBSET Tools]
Sessions ==
  [server : Servers \union {"none"}, alive : BOOLEAN, running : BOOLEAN, allowed : SUBSET Tools,
   tools : SUBSET Tools, pending : SUBSET McpThreads, reader : {"none", "reading", "notify", "done"}]
Asking == [at : {"ensure", "join"}, server : Servers, row : McpRows]
Attempts == [at : {"stale", "spawn", "handshake", "register", "publish"}, server : Servers,
             row : McpRows, session : 0..MaxSessions]
Stopping == [at : {"stop"}, server : Servers]
Shutting == [at : {"shutdown"}, server : Servers, session : 0..MaxSessions]
Calling == [at : {"request", "waiting"}, session : 0..MaxSessions, tool : Tools]
ThreadStates == {AtRest} \union Asking \union Attempts \union Stopping \union Shutting \union Calling

McpTyped ==
  /\ mcpRow \in [Servers -> McpRows] /\ session \in [SessionIds -> Sessions]
  /\ mapped \in [Servers -> 0..MaxSessions] /\ starting \in [Servers -> BOOLEAN]
  /\ lifecycle \in [Servers -> McpThreads \union {Nobody}]
  /\ mcpThread \in [McpThreads -> ThreadStates]

\* The thread that starts a server, and the one that shuts its session down.
Attempting(t) == mcpThread[t].at \in {"stale", "spawn", "handshake", "register", "publish"}
Handling(t) == Attempting(t) \/ mcpThread[t].at = "shutdown"

\* What it holds while it does: the attempt or the lock, and the server's place in the map.
HandlerStands(t) ==
  LET s == mcpThread[t].server IN
  /\ Attempting(t) => starting[s]
  /\ mcpThread[t].at = "shutdown" => ~starting[s] /\ lifecycle[s] = t
  /\ Handling(t) => mapped[s] = IF mcpThread[t].at = "publish" THEN mcpThread[t].session ELSE 0
  /\ OwnedBy(t) => mcpThread[t].session \in SessionIds /\ session[mcpThread[t].session].server = s
HandlerIsAlone ==
  \A t, u \in McpThreads :
    Handling(t) /\ Handling(u) /\ mcpThread[t].server = mcpThread[u].server => t = u

MappedStands(s) == mapped[s] # 0 => session[mapped[s]].server = s
ProcessStands(k) ==
  /\ session[k].alive => session[k].server \in Servers
  /\ session[k].alive /\ ~IsHttp(k) =>
       \/ mapped[session[k].server] = k
       \/ \E t \in McpThreads : OwnedBy(t) /\ mcpThread[t].session = k

Handled ==
  /\ HandlerIsAlone /\ \A t \in McpThreads : HandlerStands(t)
  /\ \A s \in Servers : MappedStands(s)
  /\ \A k \in SessionIds : ProcessStands(k)

\* Callers wait where they are registered, and as long as they do the reader is there.
PendingStands(k) ==
  /\ session[k].running => session[k].reader \in {"none", "reading"}
  /\ IsHttp(k) => session[k].reader = "none"
  /\ \A t \in session[k].pending : mcpThread[t].at = "waiting" /\ mcpThread[t].session = k
CallerStands(t) ==
  mcpThread[t].at = "waiting" =>
    LET k == mcpThread[t].session IN
    k \in SessionIds /\ t \in session[k].pending /\ session[k].reader # "done"

Awaited == (\A k \in SessionIds : PendingStands(k)) /\ \A t \in McpThreads : CallerStands(t)

\* A call is of a session that got through its handshake.
CallIsApart(u) ==
  mcpThread[u].at \in {"request", "waiting"} =>
    LET k == mcpThread[u].session IN
    /\ k \in SessionIds /\ session[k].server \in Servers
    /\ \A t \in McpThreads : mcpThread[t].at \in {"handshake", "register"} => mcpThread[t].session # k
Called == \A u \in McpThreads : CallIsApart(u)

Supervised == McpTyped /\ Handled /\ Awaited /\ Called

\* A thread's stage tells its record.
LEMMA ThreadKinds ==
  ASSUME NEW x \in ThreadStates
  PROVE  /\ x.at \in {"ensure", "join"} => x \in Asking /\ x.server \in Servers /\ x.row \in McpRows
         /\ x.at \in {"stale", "spawn", "handshake", "register", "publish"} =>
              x \in Attempts /\ x.server \in Servers /\ x.row \in McpRows /\ x.session \in 0..MaxSessions
         /\ x.at = "stop" => x.server \in Servers
         /\ x.at = "shutdown" => x.server \in Servers /\ x.session \in 0..MaxSessions
         /\ x.at \in {"request", "waiting"} => x \in Calling /\ x.session \in 0..MaxSessions
<1>1. CASE x = AtRest
  BY <1>1 DEF AtRest
<1>2. CASE x \in Asking
  BY <1>2 DEF Asking
<1>3. CASE x \in Attempts
  BY <1>3 DEF Attempts
<1>4. CASE x \in Stopping
  BY <1>4 DEF Stopping
<1>5. CASE x \in Shutting
  BY <1>5 DEF Shutting
<1>6. CASE x \in Calling
  BY <1>6 DEF Calling
<1> QED  BY <1>1, <1>2, <1>3, <1>4, <1>5, <1>6 DEF ThreadStates

\* Servers keep their handlers when processes only go and callers only move.
LEMMA HandledKeeps ==
  ASSUME Supervised, UNCHANGED <<mapped, starting, lifecycle>>,
         \A k \in SessionIds :
           session'[k].server = session[k].server /\ (session'[k].alive => session[k].alive),
         \A t \in McpThreads :
           \/ mcpThread'[t] = mcpThread[t]
           \/ ~Handling(t) /\ ~Handling(t)'
           \/ /\ mcpThread[t].at = "handshake" /\ mcpThread'[t].at = "register"
              /\ mcpThread'[t].server = mcpThread[t].server /\ mcpThread'[t].session = mcpThread[t].session
  PROVE  Handled'
<1>1. \A t \in McpThreads : HandlerStands(t)
  BY DEF Supervised, Handled
<1>2. \A t \in McpThreads :
        /\ Handling(t)' <=> Handling(t)
        /\ Handling(t) => mcpThread'[t].server = mcpThread[t].server
        /\ OwnedBy(t) => OwnedBy(t)' /\ mcpThread'[t].session = mcpThread[t].session
  BY DEF Handling, Attempting, OwnedBy
<1>3. HandlerIsAlone'
  BY <1>2 DEF Supervised, Handled, HandlerIsAlone
<1>4. ASSUME NEW t \in McpThreads PROVE HandlerStands(t)'
  <2>1. CASE mcpThread'[t] = mcpThread[t]
    BY <1>1, <2>1 DEF HandlerStands, Attempting, Handling, OwnedBy
  <2>2. CASE ~Handling(t)'
    BY <2>2 DEF HandlerStands, Attempting, Handling, OwnedBy
  <2>3. CASE /\ mcpThread[t].at = "handshake" /\ mcpThread'[t].at = "register"
             /\ mcpThread'[t].server = mcpThread[t].server /\ mcpThread'[t].session = mcpThread[t].session
    BY <1>1, <2>3 DEF HandlerStands, Attempting, Handling, OwnedBy
  <2> QED  BY <2>1, <2>2, <2>3
<1>5. ASSUME NEW s \in Servers PROVE MappedStands(s)'
  BY SMT DEF Supervised, McpTyped, Handled, MappedStands, SessionIds
<1>6. ASSUME NEW k \in SessionIds PROVE ProcessStands(k)'
  BY <1>2 DEF Supervised, Handled, ProcessStands, IsHttp
<1> QED  BY <1>3, <1>4, <1>5, <1>6 DEF Handled

\* A handler lets go of its server, or begins again after a stale session: what it had is gone,
\* over HTTP, or in the map.
LEMMA HandledEnds ==
  ASSUME Supervised, NEW t \in McpThreads, Handling(t), NEW s, s = mcpThread[t].server, UNCHANGED mapped,
         \A k \in SessionIds :
           session'[k].server = session[k].server /\ (session'[k].alive => session[k].alive),
         \A u \in McpThreads : u # t => mcpThread'[u] = mcpThread[u] \/ (~Handling(u) /\ ~Handling(u)'),
         \/ ~Handling(t)'
         \/ /\ mcpThread[t].at = "stale" /\ mcpThread'[t].at = "spawn" /\ mcpThread'[t].server = s
            /\ UNCHANGED <<starting, lifecycle>>,
         \A k \in SessionIds : OwnedBy(t) /\ k = mcpThread[t].session =>
           ~session'[k].alive \/ IsHttp(k) \/ mapped[session[k].server] = k,
         \A r \in Servers : r # s => starting'[r] = starting[r] /\ lifecycle'[r] = lifecycle[r]
  PROVE  Handled'
<1>1. (\A u \in McpThreads : HandlerStands(u)) /\ HandlerIsAlone
      /\ mcpThread \in [McpThreads -> ThreadStates] /\ mapped \in [Servers -> 0..MaxSessions]
  BY DEF Supervised, Handled, McpTyped
<1>2. \A u \in McpThreads : u # t => /\ Handling(u)' <=> Handling(u)
                                     /\ Handling(u) => mcpThread'[u] = mcpThread[u]
                                     /\ OwnedBy(u) => OwnedBy(u)' /\ mcpThread'[u] = mcpThread[u]
  BY DEF Handling, Attempting, OwnedBy
<1>3. HandlerIsAlone'
  BY <1>1, <1>2 DEF HandlerIsAlone
<1>4. ASSUME NEW u \in McpThreads PROVE HandlerStands(u)'
  <2>1. CASE ~Handling(u)'
    BY <2>1 DEF HandlerStands, Attempting, Handling, OwnedBy
  <2>2. CASE u = t /\ Handling(u)'
    BY <1>1, <2>2 DEF HandlerStands, Attempting, Handling, OwnedBy
  <2>3. CASE u # t /\ Handling(u)'
    <3>1. mcpThread'[u] = mcpThread[u] /\ Handling(u) /\ HandlerStands(u)
      BY <1>1, <1>2, <2>3
    <3>2. mcpThread[u].server \in Servers /\ mcpThread[u].server # s
      <4>1. mcpThread[u] \in ThreadStates
        BY <1>1
      <4>2. mcpThread[u].server \in Servers
        BY <3>1, <4>1, ThreadKinds DEF Handling, Attempting
      <4> QED  BY <1>1, <2>3, <3>1, <4>2 DEF HandlerIsAlone
    <3> QED  BY <3>1, <3>2 DEF HandlerStands, Attempting, Handling, OwnedBy
  <2> QED  BY <2>1, <2>2, <2>3
<1>5. ASSUME NEW r \in Servers PROVE MappedStands(r)'
  BY SMT DEF Supervised, McpTyped, Handled, MappedStands, SessionIds
<1>6. ASSUME NEW k \in SessionIds PROVE ProcessStands(k)'
  BY <1>2 DEF Supervised, Handled, ProcessStands, IsHttp
<1> QED  BY <1>3, <1>4, <1>5, <1>6 DEF Handled

\* Callers stay registered when nobody is woken.
LEMMA AwaitedKeeps ==
  ASSUME Supervised,
         \A k \in SessionIds :
           /\ session'[k].server = session[k].server /\ session'[k].pending = session[k].pending
           /\ session'[k].reader = session[k].reader /\ (session'[k].running => session[k].running),
         \A t \in McpThreads :
           /\ mcpThread'[t].at = "waiting" <=> mcpThread[t].at = "waiting"
           /\ mcpThread[t].at = "waiting" => mcpThread'[t].session = mcpThread[t].session
  PROVE  Awaited'
<1>1. \A k \in SessionIds : PendingStands(k) /\ session[k] \in Sessions
  BY DEF Supervised, Awaited, McpTyped
<1>2. \A t \in McpThreads : CallerStands(t)
  BY DEF Supervised, Awaited
<1>3. ASSUME NEW k \in SessionIds PROVE PendingStands(k)'
  <2>1. session[k].pending \subseteq McpThreads
    BY <1>1 DEF Sessions
  <2> QED  BY <1>1, <2>1 DEF PendingStands, IsHttp
<1>4. ASSUME NEW t \in McpThreads PROVE CallerStands(t)'
  BY <1>2 DEF CallerStands
<1> QED  BY <1>3, <1>4 DEF Awaited

\* The callers of a local session are all woken when its reader is done.
LEMMA AwaitedWakes ==
  ASSUME Supervised, NEW k \in SessionIds, ~IsHttp(k),
         \A j \in SessionIds : j # k => session'[j] = session[j],
         session'[k].server = session[k].server, session'[k].pending = {}, ~session'[k].running,
         \A t \in McpThreads :
           /\ mcpThread'[t].at = "waiting" => mcpThread[t].at = "waiting" /\ t \notin session[k].pending
           /\ mcpThread[t].at = "waiting" /\ t \notin session[k].pending =>
                mcpThread'[t].at = "waiting" /\ mcpThread'[t].session = mcpThread[t].session
  PROVE  Awaited'
<1>1. \A j \in SessionIds : PendingStands(j) /\ session[j] \in Sessions
  BY DEF Supervised, Awaited, McpTyped
<1>2. \A t \in McpThreads : CallerStands(t)
  BY DEF Supervised, Awaited
<1>3. ASSUME NEW j \in SessionIds PROVE PendingStands(j)'
  <2>1. session[j].pending \subseteq McpThreads
    BY <1>1 DEF Sessions
  <2>2. CASE j = k
    BY <2>2 DEF PendingStands, IsHttp
  <2>3. CASE j # k
    BY <1>1, <2>1, <2>3 DEF PendingStands, IsHttp
  <2> QED  BY <2>2, <2>3
<1>4. ASSUME NEW t \in McpThreads PROVE CallerStands(t)'
  BY <1>2 DEF CallerStands
<1> QED  BY <1>3, <1>4 DEF Awaited

\* Calls stay apart from attempts when neither begins.
LEMMA CalledKeeps ==
  ASSUME Supervised,
         \A k \in SessionIds : session'[k].server = session[k].server,
         \A t \in McpThreads :
           /\ mcpThread'[t].at \in {"request", "waiting"} =>
                mcpThread[t].at \in {"request", "waiting"} /\ mcpThread'[t].session = mcpThread[t].session
           /\ mcpThread'[t].at \in {"handshake", "register"} =>
                mcpThread[t].at \in {"handshake", "register"} /\ mcpThread'[t].session = mcpThread[t].session
  PROVE  Called'
<1> SUFFICES ASSUME NEW u \in McpThreads PROVE CallIsApart(u)'
  BY DEF Called
<1>1. CallIsApart(u)
  BY DEF Supervised, Called
<1> QED  BY <1>1 DEF CallIsApart

\* One session changes: the others stay, and the table stays typed.
LEMMA ChangedSession ==
  ASSUME McpTyped, NEW k \in SessionIds, NEW new \in Sessions, session' = [session EXCEPT ![k] = new]
  PROVE  /\ session' \in [SessionIds -> Sessions] /\ session'[k] = new
         /\ \A j \in SessionIds : j # k => session'[j] = session[j]
BY DEF McpTyped

\* One thread moves.
LEMMA MovedThread ==
  ASSUME McpTyped, NEW t \in McpThreads, NEW new \in ThreadStates, mcpThread' = [mcpThread EXCEPT ![t] = new]
  PROVE  /\ mcpThread' \in [McpThreads -> ThreadStates] /\ mcpThread'[t] = new
         /\ \A u \in McpThreads : u # t => mcpThread'[u] = mcpThread[u]
BY DEF McpTyped

\* What shutdown leaves of a session: over HTTP it is only marked.
LEMMA EndedSession ==
  ASSUME McpTyped, NEW k \in SessionIds, session' \in Ended(k)
  PROVE  /\ session' \in [SessionIds -> Sessions]
         /\ \A j \in SessionIds : j # k => session'[j] = session[j]
         /\ session'[k].server = session[k].server /\ (session'[k].alive => session[k].alive)
         /\ ~session'[k].running
         /\ IsHttp(k) => session'[k].pending = session[k].pending /\ session'[k].reader = session[k].reader
         /\ ~IsHttp(k) => session'[k].pending = {} /\ ~session'[k].alive
<1>1. session[k] \in Sessions /\ session \in [SessionIds -> Sessions]
  BY DEF McpTyped
<1>2. CASE IsHttp(k)
  <2>1. PICK b \in BOOLEAN : /\ session' = [session EXCEPT ![k].running = FALSE, ![k].alive = b]
                             /\ b => session[k].alive
    BY <1>1, <1>2 DEF Ended, Sessions
  <2> DEFINE new == [session[k] EXCEPT !.running = FALSE, !.alive = b]
  <2>2. session' = [session EXCEPT ![k] = new]
    BY <1>1, <2>1
  <2>3. /\ new \in Sessions /\ new.server = session[k].server /\ new.alive = b /\ ~new.running
        /\ new.pending = session[k].pending /\ new.reader = session[k].reader
    BY <1>1 DEF Sessions
  <2> HIDE DEF new
  <2> QED  BY <1>2, <2>1, <2>2, <2>3, ChangedSession
<1>3. CASE ~IsHttp(k)
  <2> DEFINE new == [session[k] EXCEPT !.alive = FALSE, !.running = FALSE, !.reader = "done", !.pending = {}]
  <2>1. session' = [session EXCEPT ![k] = new]
    BY <1>1, <1>3 DEF Ended
  <2>2. new \in Sessions /\ new.server = session[k].server /\ ~new.alive /\ ~new.running /\ new.pending = {}
    BY <1>1 DEF Sessions
  <2> HIDE DEF new
  <2> QED  BY <1>3, <2>1, <2>2, ChangedSession
<1> QED  BY <1>2, <1>3

\* A session is shut down, and its callers are woken unless it is one over HTTP.
LEMMA ShutSession ==
  ASSUME Supervised, NEW k \in SessionIds, session' \in Ended(k),
         NEW threads \in [McpThreads -> ThreadStates], mcpThread' = WakesCallers(k, threads),
         \A u \in McpThreads : /\ threads[u].at = "waiting" <=> mcpThread[u].at = "waiting"
                               /\ mcpThread[u].at = "waiting" => threads[u] = mcpThread[u]
  PROVE  /\ mcpThread' \in [McpThreads -> ThreadStates] /\ session' \in [SessionIds -> Sessions]
         /\ \A u \in McpThreads : \/ mcpThread'[u] = threads[u]
                                  \/ threads[u] = mcpThread[u] /\ mcpThread[u].at = "waiting" /\ mcpThread'[u] = AtRest
         /\ Awaited'
<1>1. McpTyped /\ AtRest \in ThreadStates /\ AtRest.at = "idle" /\ PendingStands(k)
  BY DEF Supervised, ThreadStates, AtRest, Awaited
<1>2. /\ session' \in [SessionIds -> Sessions]
      /\ \A j \in SessionIds : j # k => session'[j] = session[j]
      /\ session'[k].server = session[k].server /\ (session'[k].alive => session[k].alive)
      /\ ~session'[k].running
      /\ IsHttp(k) => session'[k].pending = session[k].pending /\ session'[k].reader = session[k].reader
      /\ ~IsHttp(k) => session'[k].pending = {} /\ ~session'[k].alive
  BY <1>1, EndedSession
<1>3. /\ mcpThread' \in [McpThreads -> ThreadStates]
      /\ \A u \in McpThreads : mcpThread'[u] = IF u \in session[k].pending /\ ~IsHttp(k) THEN AtRest ELSE threads[u]
  BY <1>1 DEF WakesCallers
<1>4. \A u \in McpThreads : u \in session[k].pending => mcpThread[u].at = "waiting" /\ mcpThread[u].session = k
  BY <1>1 DEF PendingStands
<1>5. Awaited'
  <2>1. CASE IsHttp(k)
    <3>1. \A u \in McpThreads : mcpThread'[u] = threads[u]
      BY <1>3, <2>1
    <3>2. \A j \in SessionIds :
            /\ session'[j].server = session[j].server /\ session'[j].pending = session[j].pending
            /\ session'[j].reader = session[j].reader /\ (session'[j].running => session[j].running)
      BY <1>2, <2>1
    <3> QED  BY <3>1, <3>2, AwaitedKeeps
  <2>2. CASE ~IsHttp(k)
    <3>1. \A u \in McpThreads :
            /\ mcpThread'[u].at = "waiting" => mcpThread[u].at = "waiting" /\ u \notin session[k].pending
            /\ mcpThread[u].at = "waiting" /\ u \notin session[k].pending =>
                 mcpThread'[u].at = "waiting" /\ mcpThread'[u].session = mcpThread[u].session
      BY <1>1, <1>3, <2>2
    <3> QED  BY <1>2, <2>2, <3>1, AwaitedWakes
  <2> QED  BY <2>1, <2>2
<1> QED  BY <1>1, <1>2, <1>3, <1>4, <1>5

\* A thread that handles no server and waits for nobody moves to another such stage.
LEMMA SupervisedIdles ==
  ASSUME Supervised, NEW t \in McpThreads, NEW new \in ThreadStates, Move(t, new),
         mcpThread[t].at \in {"idle", "ensure", "join", "stop", "request"},
         new.at \in {"idle", "ensure", "join", "stop", "request"},
         mcpRow' \in [Servers -> McpRows], UNCHANGED <<session, mapped, starting, lifecycle>>,
         new.at = "request" => /\ new.session \in SessionIds /\ session[new.session].server \in Servers
                               /\ \A u \in McpThreads : mcpThread[u].at \in {"handshake", "register"} =>
                                    mcpThread[u].session # new.session
  PROVE  Supervised'
<1>1. McpTyped /\ mcpThread' = [mcpThread EXCEPT ![t] = new]
  BY DEF Supervised, Move
<1>2. /\ mcpThread' \in [McpThreads -> ThreadStates] /\ mcpThread'[t] = new
      /\ \A u \in McpThreads : u # t => mcpThread'[u] = mcpThread[u]
  BY <1>1, MovedThread
<1>3. McpTyped'
  BY <1>1, <1>2 DEF McpTyped
<1>4. \A u \in McpThreads : mcpThread'[u] = mcpThread[u] \/ (~Handling(u) /\ ~Handling(u)')
  BY <1>2 DEF Handling, Attempting
<1>5. Handled'
  BY <1>4, HandledKeeps
<1>6. Awaited'
  BY <1>2, AwaitedKeeps
<1>7. ASSUME NEW u \in McpThreads PROVE CallIsApart(u)'
  <2>1. CallIsApart(u)
    BY DEF Supervised, Called
  <2>2. \A v \in McpThreads : mcpThread'[v].at \in {"handshake", "register"} =>
          mcpThread[v].at \in {"handshake", "register"} /\ mcpThread'[v].session = mcpThread[v].session
    BY <1>2
  <2>3. CASE u = t
    BY <1>2, <2>2, <2>3 DEF CallIsApart
  <2>4. CASE u # t
    BY <1>2, <2>1, <2>2, <2>4 DEF CallIsApart
  <2> QED  BY <2>3, <2>4
<1> QED  BY <1>3, <1>5, <1>6, <1>7 DEF Supervised, Called

\* The commands and calls that begin.
LEMMA SupervisedAsks ==
  ASSUME Supervised, NEW s \in Servers,
         \/ \E b \in BOOLEAN : mcp_server_save(s, b)
         \/ \E a \in SUBSET Tools : mcp_server_review(s, a)
         \/ mcp_server_delete(s) \/ AskStart(s) \/ AskStop(s)
         \/ \E w \in McpWorkers : AskCatalog(w, s) \/ \E x \in Tools : call(w, s, x)
  PROVE  Supervised'
<1>1. McpTyped /\ AtRest \in ThreadStates /\ AtRest.at = "idle" /\ Lane \in McpThreads
      /\ McpWorkers \subseteq McpThreads /\ mcpRow \in [Servers -> McpRows]
  BY DEF Supervised, McpTyped, ThreadStates, AtRest, McpThreads
<1>2. mcpRow[s] \in McpRows
  BY <1>1
<1>3. ASSUME NEW row \in McpRows, mcpRow' = [mcpRow EXCEPT ![s] = row], Asks(Lane, AtRest),
             UNCHANGED <<session, mapped, starting, lifecycle>>
      PROVE  Supervised'
  <2>1. mcpRow' \in [Servers -> McpRows]
    BY <1>1, <1>3
  <2> QED  BY <1>1, <1>3, <2>1, SupervisedIdles DEF Asks
<1>4. ASSUME NEW b \in BOOLEAN, mcp_server_save(s, b) PROVE Supervised'
  <2> DEFINE row == [saved |-> TRUE, enabled |-> b, allowed |-> mcpRow[s].allowed]
  <2>1. row \in McpRows
    BY <1>2 DEF McpRows
  <2>2. mcpRow' = [mcpRow EXCEPT ![s] = row]
    BY <1>1, <1>4 DEF mcp_server_save
  <2> HIDE DEF row
  <2> QED  BY <1>3, <1>4, <2>1, <2>2 DEF mcp_server_save
<1>5. ASSUME NEW a \in SUBSET Tools, mcp_server_review(s, a) PROVE Supervised'
  <2> DEFINE row == [mcpRow[s] EXCEPT !.allowed = a]
  <2>1. row \in McpRows
    BY <1>2 DEF McpRows
  <2>2. mcpRow' = [mcpRow EXCEPT ![s] = row]
    BY <1>1, <1>5 DEF mcp_server_review
  <2> HIDE DEF row
  <2> QED  BY <1>3, <1>5, <2>1, <2>2 DEF mcp_server_review
<1>6. ASSUME mcp_server_delete(s) PROVE Supervised'
  <2>1. NoServer \in McpRows
    BY DEF NoServer, McpRows
  <2> QED  BY <1>3, <1>6, <2>1 DEF mcp_server_delete
<1>7. ASSUME NEW t \in McpThreads, NEW new \in ThreadStates, new.at \in {"ensure", "stop"}, Asks(t, new),
             UNCHANGED <<mcpRow, session, mapped, starting, lifecycle>>
      PROVE  Supervised'
  BY <1>1, <1>7, SupervisedIdles DEF Asks
<1>8. [at |-> "ensure", server |-> s, row |-> mcpRow[s]] \in ThreadStates
  BY <1>2 DEF ThreadStates, Asking
<1>9. CASE AskStart(s) \/ \E w \in McpWorkers : AskCatalog(w, s)
  <2> DEFINE new == [at |-> "ensure", server |-> s, row |-> mcpRow[s]]
  <2>1. new.at = "ensure" /\ \E t \in McpThreads : Asks(t, new)
    BY <1>1, <1>9 DEF AskStart, AskCatalog
  <2>2. UNCHANGED <<mcpRow, session, mapped, starting, lifecycle>>
    BY <1>9 DEF AskStart, AskCatalog
  <2> HIDE DEF new
  <2> QED  BY <1>7, <1>8, <2>1, <2>2 DEF new
<1>10. CASE AskStop(s)
  <2> DEFINE new == [at |-> "stop", server |-> s]
  <2>1. new \in ThreadStates /\ new.at = "stop"
    BY DEF ThreadStates, Stopping
  <2>2. Asks(Lane, new) /\ UNCHANGED <<mcpRow, session, mapped, starting, lifecycle>>
    BY <1>10 DEF AskStop
  <2> HIDE DEF new
  <2> QED  BY <1>1, <1>7, <2>1, <2>2
<1>11. ASSUME NEW w \in McpWorkers, NEW x \in Tools, call(w, s, x) PROVE Supervised'
  <2> DEFINE new == [at |-> "request", session |-> mapped[s], tool |-> x]
  <2>1. mapped[s] \in 0..MaxSessions
    BY <1>1 DEF McpTyped
  <2>2. new \in ThreadStates /\ new.at = "request"
    BY <2>1 DEF ThreadStates, Calling
  <2>3. Asks(w, new) /\ UNCHANGED <<mcpRow, session, mapped, starting, lifecycle>> /\ w \in McpThreads
        /\ new.session = mapped[s] /\ mapped[s] # 0
    BY <1>1, <1>11 DEF call
  <2>4. mapped[s] \in SessionIds /\ session[mapped[s]].server = s
    BY <2>1, <2>3 DEF SessionIds, Supervised, Handled, MappedStands
  <2>5. ASSUME NEW u \in McpThreads, mcpThread[u].at \in {"handshake", "register"} PROVE mcpThread[u].session # mapped[s]
    BY <2>3, <2>4, <2>5 DEF Supervised, Handled, HandlerStands, Handling, Attempting, OwnedBy
  <2> HIDE DEF new
  <2>6. mcpThread[w] = AtRest /\ Move(w, new)
    BY <2>3 DEF Asks
  <2> QED  BY <1>1, <2>2, <2>3, <2>4, <2>5, <2>6, SupervisedIdles
<1> QED  BY <1>4, <1>5, <1>6, <1>9, <1>10, <1>11

\* An attempt is joined or found unnecessary.
LEMMA SupervisedJoins ==
  ASSUME Supervised, NEW t \in McpThreads, Join(t) \/ Reuse(t)
  PROVE  Supervised'
<1>1. mcpThread[t].at = "ensure" /\ mcpThread[t] \in ThreadStates /\ mcpRow \in [Servers -> McpRows]
      /\ UNCHANGED <<mcpRow, session, mapped, starting, lifecycle>>
  BY DEF Supervised, McpTyped, Join, Reuse
<1>2. CASE Join(t)
  <2> DEFINE new == [mcpThread[t] EXCEPT !.at = "join"]
  <2>1. new \in Asking /\ new.at = "join"
    BY <1>1, ThreadKinds DEF Asking
  <2>2. Move(t, new)
    BY <1>2 DEF Join
  <2> HIDE DEF new
  <2> QED  BY <1>1, <2>1, <2>2, SupervisedIdles DEF ThreadStates
<1>3. CASE Reuse(t)
  <2>1. AtRest \in ThreadStates /\ AtRest.at = "idle" /\ Move(t, AtRest)
    BY <1>3 DEF Reuse, ThreadStates, AtRest
  <2> QED  BY <1>1, <2>1, SupervisedIdles
<1> QED  BY <1>2, <1>3

\* A thread takes a server nobody handles, and its session out of the map.
LEMMA SupervisedTakes ==
  ASSUME Supervised, NEW t \in McpThreads, NEW s \in Servers, NEW new \in ThreadStates, Move(t, new),
         mcpThread[t].at \in {"ensure", "stop"}, MayLock(s), ~starting[s],
         new.at \in {"stale", "spawn", "shutdown"}, new.server = s, new.session = mapped[s],
         new.at # "spawn" => mapped[s] # 0, new.at = "spawn" => mapped[s] = 0,
         mapped' = [mapped EXCEPT ![s] = 0], UNCHANGED <<mcpRow, session>>,
         starting' \in [Servers -> BOOLEAN], lifecycle' \in [Servers -> McpThreads \union {Nobody}],
         \A r \in Servers : r # s => starting'[r] = starting[r] /\ lifecycle'[r] = lifecycle[r],
         IF new.at = "shutdown" THEN ~starting'[s] /\ lifecycle'[s] = t ELSE starting'[s]
  PROVE  Supervised'
<1>1. McpTyped /\ mcpThread' = [mcpThread EXCEPT ![t] = new] /\ mapped \in [Servers -> 0..MaxSessions]
      /\ HandlerIsAlone /\ (\A u \in McpThreads : HandlerStands(u)) /\ MappedStands(s)
  BY DEF Supervised, Handled, McpTyped, Move
<1>2. /\ mcpThread' \in [McpThreads -> ThreadStates] /\ mcpThread'[t] = new
      /\ \A u \in McpThreads : u # t => mcpThread'[u] = mcpThread[u]
  BY <1>1, MovedThread
<1>3. /\ mapped' \in [Servers -> 0..MaxSessions] /\ mapped'[s] = 0
      /\ \A r \in Servers : r # s => mapped'[r] = mapped[r]
  BY <1>1, McpAssumption
<1>4. McpTyped'
  BY <1>1, <1>2, <1>3 DEF McpTyped
<1>5. \A u \in McpThreads : Handling(u) => mcpThread[u].server \in Servers /\ mcpThread[u].server # s
  <2> SUFFICES ASSUME NEW u \in McpThreads, Handling(u) PROVE mcpThread[u].server \in Servers /\ mcpThread[u].server # s
    OBVIOUS
  <2>1. HandlerStands(u) /\ mcpThread[u] \in ThreadStates
    BY <1>1 DEF McpTyped
  <2>2. u # Nobody
    BY McpAssumption DEF Nobody, McpThreads
  <2> QED  BY <2>1, <2>2, ThreadKinds DEF HandlerStands, Handling, Attempting, MayLock
<1>6. ~Handling(t) /\ ~OwnedBy(t)
  BY DEF Handling, Attempting, OwnedBy
<1>7. HandlerIsAlone'
  <2>1. \A u \in McpThreads : u # t => /\ Handling(u)' <=> Handling(u)
                                       /\ mcpThread'[u] = mcpThread[u]
    BY <1>2 DEF Handling, Attempting
  <2> QED  BY <1>1, <1>2, <1>5, <2>1 DEF HandlerIsAlone
<1>8. ASSUME NEW u \in McpThreads PROVE HandlerStands(u)'
  <2>1. CASE u = t
    <3>1. mapped[s] # 0 => mapped[s] \in SessionIds /\ session[mapped[s]].server = s
      BY <1>1 DEF MappedStands, SessionIds
    <3> QED  BY <1>2, <1>3, <2>1, <3>1 DEF HandlerStands, Attempting, Handling, OwnedBy
  <2>2. CASE u # t /\ Handling(u)
    BY <1>1, <1>2, <1>3, <1>5, <2>2 DEF HandlerStands, Attempting, Handling, OwnedBy
  <2>3. CASE u # t /\ ~Handling(u)
    BY <1>2, <2>3 DEF HandlerStands, Attempting, Handling, OwnedBy
  <2> QED  BY <2>1, <2>2, <2>3
<1>9. ASSUME NEW r \in Servers PROVE MappedStands(r)'
  BY <1>3 DEF Supervised, Handled, MappedStands
<1>10. ASSUME NEW k \in SessionIds PROVE ProcessStands(k)'
  <2> SUFFICES ASSUME session[k].alive, ~IsHttp(k)
               PROVE  \/ mapped'[session[k].server] = k
                      \/ \E u \in McpThreads : OwnedBy(u)' /\ mcpThread'[u].session = k
    BY DEF Supervised, Handled, ProcessStands, IsHttp
  <2>1. \/ mapped[session[k].server] = k
        \/ \E u \in McpThreads : OwnedBy(u) /\ mcpThread[u].session = k
    BY DEF Supervised, Handled, ProcessStands
  <2>2. CASE mapped[s] = k
    <3>1. new.at \in {"stale", "shutdown"}
      BY <2>2 DEF SessionIds
    <3> QED  BY <1>2, <2>2, <3>1 DEF OwnedBy
  <2>3. CASE mapped[session[k].server] = k /\ session[k].server # s
    <3>1. mapped' = [mapped EXCEPT ![s] = 0] /\ k # 0
      BY DEF SessionIds
    <3> QED  BY <1>1, <2>3, <3>1
  <2>4. ASSUME NEW u \in McpThreads, OwnedBy(u), mcpThread[u].session = k
        PROVE  OwnedBy(u)' /\ mcpThread'[u].session = k
    BY <1>2, <1>6, <2>4 DEF OwnedBy
  <2> QED  BY <2>1, <2>2, <2>3, <2>4
<1>11. Awaited'
  BY <1>2, AwaitedKeeps
<1>12. Called'
  BY <1>2, CalledKeeps
<1> QED  BY <1>4, <1>7, <1>8, <1>9, <1>10, <1>11, <1>12 DEF Supervised, Handled

\* An attempt is opened, or a stop takes the session and the lock.
LEMMA SupervisedOpens ==
  ASSUME Supervised, NEW t \in McpThreads, OpenAttempt(t) \/ stop_server(t)
  PROVE  Supervised'
<1>1. McpTyped /\ mcpThread[t] \in ThreadStates /\ mapped \in [Servers -> 0..MaxSessions]
      /\ starting \in [Servers -> BOOLEAN] /\ lifecycle \in [Servers -> McpThreads \union {Nobody}]
  BY DEF Supervised, McpTyped
<1> PICK s \in Servers : s = mcpThread[t].server
  BY <1>1, ThreadKinds DEF OpenAttempt, stop_server
<1>2. mapped[s] \in 0..MaxSessions
  BY <1>1
<1>3. CASE OpenAttempt(t)
  <2> DEFINE new == [at |-> IF mapped[s] = 0 THEN "spawn" ELSE "stale", server |-> s,
                     row |-> mcpThread[t].row, session |-> mapped[s]]
  <2>1. mcpThread[t].row \in McpRows
    BY <1>1, <1>3, ThreadKinds DEF OpenAttempt
  <2>2. /\ new \in Attempts /\ new.at = (IF mapped[s] = 0 THEN "spawn" ELSE "stale") /\ new.server = s
        /\ new.session = mapped[s]
    BY <1>2, <2>1 DEF Attempts
  <2>3. Move(t, new) /\ MayLock(s) /\ ~starting[s] /\ mcpThread[t].at = "ensure"
        /\ starting' = [starting EXCEPT ![s] = TRUE] /\ mapped' = [mapped EXCEPT ![s] = 0]
        /\ UNCHANGED <<mcpRow, session, lifecycle>>
    BY <1>3 DEF OpenAttempt
  <2> HIDE DEF new
  <2>4. starting' \in [Servers -> BOOLEAN] /\ starting'[s] /\ \A r \in Servers : r # s => starting'[r] = starting[r]
    BY <1>1, <2>3
  <2>5. new \in ThreadStates
    BY <2>2 DEF ThreadStates
  <2> QED  BY <1>1, <2>2, <2>3, <2>4, <2>5, SupervisedTakes
<1>4. CASE stop_server(t) /\ mapped[s] = 0
  <2>1. AtRest \in ThreadStates /\ AtRest.at = "idle" /\ Move(t, AtRest) /\ mcpThread[t].at = "stop"
        /\ UNCHANGED <<mcpRow, session, mapped, starting, lifecycle>> /\ mcpRow \in [Servers -> McpRows]
    BY <1>1, <1>4 DEF stop_server, ThreadStates, AtRest, McpTyped
  <2> QED  BY <2>1, SupervisedIdles
<1>5. CASE stop_server(t) /\ mapped[s] # 0
  <2> DEFINE new == [at |-> "shutdown", server |-> s, session |-> mapped[s]]
  <2>1. new \in Shutting /\ new.at = "shutdown" /\ new.server = s /\ new.session = mapped[s]
    BY <1>2 DEF Shutting
  <2>2. Move(t, new) /\ MayLock(s) /\ ~starting[s] /\ mcpThread[t].at = "stop"
        /\ lifecycle' = [lifecycle EXCEPT ![s] = t] /\ mapped' = [mapped EXCEPT ![s] = 0]
        /\ UNCHANGED <<mcpRow, session, starting>>
    BY <1>5 DEF stop_server
  <2> HIDE DEF new
  <2>3. /\ lifecycle' \in [Servers -> McpThreads \union {Nobody}] /\ lifecycle'[s] = t
        /\ \A r \in Servers : r # s => lifecycle'[r] = lifecycle[r]
    BY <1>1, <2>2
  <2>4. new \in ThreadStates
    BY <2>1 DEF ThreadStates
  <2> QED  BY <1>1, <1>5, <2>1, <2>2, <2>3, <2>4, SupervisedTakes
<1> QED  BY <1>3, <1>4, <1>5

\* The end of an attempt, for its thread and for those that joined it.
LEMMA PublishedThreads ==
  ASSUME McpTyped, NEW t \in McpThreads, NEW s, mcpThread' = Publish(s, [mcpThread EXCEPT ![t] = AtRest])
  PROVE  /\ mcpThread' \in [McpThreads -> ThreadStates] /\ mcpThread'[t] = AtRest
         /\ \A u \in McpThreads : u # t =>
              mcpThread'[u] = mcpThread[u] \/ (mcpThread[u].at = "join" /\ mcpThread'[u] = AtRest)
<1>1. AtRest \in ThreadStates /\ AtRest.at = "idle" /\ mcpThread \in [McpThreads -> ThreadStates]
  BY DEF McpTyped, ThreadStates, AtRest
<1> DEFINE threads == [mcpThread EXCEPT ![t] = AtRest]
<1>2. /\ threads \in [McpThreads -> ThreadStates] /\ threads[t] = AtRest
      /\ \A u \in McpThreads : u # t => threads[u] = mcpThread[u]
  BY <1>1
<1> HIDE DEF threads
<1>3. mcpThread' = [u \in McpThreads |-> IF threads[u].at = "join" /\ threads[u].server = s THEN AtRest ELSE threads[u]]
  BY DEF Publish, threads
<1> QED  BY <1>1, <1>2, <1>3

\* A session that is marked: who runs it, waits for it and handles it stays.
LEMMA MarkedSession ==
  ASSUME McpTyped, NEW k \in SessionIds, NEW new \in Sessions, session' = [session EXCEPT ![k] = new],
         new.server = session[k].server, new.pending = session[k].pending, new.reader = session[k].reader,
         new.running => session[k].running, new.alive => session[k].alive
  PROVE  /\ session' \in [SessionIds -> Sessions]
         /\ \A j \in SessionIds :
              /\ session'[j].server = session[j].server /\ session'[j].pending = session[j].pending
              /\ session'[j].reader = session[j].reader /\ (session'[j].running => session[j].running)
              /\ session'[j].alive => session[j].alive
<1>1. /\ session' \in [SessionIds -> Sessions] /\ session'[k] = new
      /\ \A j \in SessionIds : j # k => session'[j] = session[j]
  BY ChangedSession
<1> QED  BY <1>1

\* A stale session is shut down before the attempt goes on, and a stopped one under the lock.
LEMMA SupervisedShuts ==
  ASSUME Supervised, NEW t \in McpThreads, ShutStale(t) \/ shutdown(t)
  PROVE  Supervised'
<1>1. McpTyped /\ HandlerStands(t) /\ mcpThread[t] \in ThreadStates /\ mcpThread \in [McpThreads -> ThreadStates]
      /\ mcpThread[t].at \in {"stale", "shutdown"} /\ lifecycle \in [Servers -> McpThreads \union {Nobody}]
  BY DEF Supervised, Handled, McpTyped, ShutStale, shutdown
<1> PICK k : k = mcpThread[t].session
  OBVIOUS
<1> PICK s \in Servers : s = mcpThread[t].server
  BY <1>1, ThreadKinds
<1>2. k \in SessionIds /\ OwnedBy(t) /\ Handling(t)
  BY <1>1 DEF HandlerStands, OwnedBy, Handling, Attempting
<1>3. session' \in Ended(k) /\ UNCHANGED <<mcpRow, mapped, starting>>
  BY DEF ShutStale, shutdown
<1>4. PICK new \in ThreadStates :
        /\ mcpThread' = WakesCallers(k, [mcpThread EXCEPT ![t] = new])
        /\ \/ new.at = "idle"
           \/ mcpThread[t].at = "stale" /\ new.at = "spawn" /\ new.server = s /\ UNCHANGED lifecycle
  <2>1. CASE ShutStale(t)
    <3> DEFINE new == [mcpThread[t] EXCEPT !.at = "spawn"]
    <3>1. mcpThread[t].at = "stale" /\ mcpThread[t] \in Attempts
      BY <1>1, <2>1, ThreadKinds DEF ShutStale
    <3>2. new \in Attempts /\ new.at = "spawn" /\ new.server = s
      BY <3>1 DEF Attempts
    <3>3. [mcpThread EXCEPT ![t].at = "spawn"] = [mcpThread EXCEPT ![t] = new]
      BY <1>1
    <3> HIDE DEF new
    <3>4. mcpThread' = WakesCallers(k, [mcpThread EXCEPT ![t] = new]) /\ UNCHANGED lifecycle
      BY <2>1, <3>3 DEF ShutStale
    <3> QED  BY <3>1, <3>2, <3>4 DEF ThreadStates
  <2>2. CASE shutdown(t)
    <3>1. AtRest \in ThreadStates /\ AtRest.at = "idle"
      BY DEF ThreadStates, AtRest
    <3>2. mcpThread' = WakesCallers(k, [mcpThread EXCEPT ![t] = AtRest])
      BY <2>2 DEF shutdown
    <3> QED  BY <3>1, <3>2
  <2> QED  BY <2>1, <2>2
<1> DEFINE threads == [mcpThread EXCEPT ![t] = new]
<1>5. /\ threads \in [McpThreads -> ThreadStates] /\ threads[t] = new
      /\ \A u \in McpThreads : u # t => threads[u] = mcpThread[u]
  BY <1>1
<1> HIDE DEF threads
<1>6. \A u \in McpThreads : /\ threads[u].at = "waiting" <=> mcpThread[u].at = "waiting"
                            /\ mcpThread[u].at = "waiting" => threads[u] = mcpThread[u]
  BY <1>1, <1>4, <1>5
<1>7. /\ mcpThread' \in [McpThreads -> ThreadStates] /\ session' \in [SessionIds -> Sessions]
      /\ \A u \in McpThreads : \/ mcpThread'[u] = threads[u]
                               \/ threads[u] = mcpThread[u] /\ mcpThread[u].at = "waiting" /\ mcpThread'[u] = AtRest
      /\ Awaited'
  BY <1>2, <1>3, <1>4, <1>5, <1>6, ShutSession DEF threads
<1>8. mcpThread'[t] = new /\ \A u \in McpThreads : u # t =>
        mcpThread'[u] = mcpThread[u] \/ (mcpThread[u].at = "waiting" /\ mcpThread'[u] = AtRest)
  BY <1>1, <1>5, <1>7
<1>9. /\ \A j \in SessionIds : session'[j].server = session[j].server /\ (session'[j].alive => session[j].alive)
      /\ ~session'[k].alive \/ IsHttp(k)
  BY <1>1, <1>2, <1>3, EndedSession
<1>10. /\ lifecycle' \in [Servers -> McpThreads \union {Nobody}]
       /\ \A r \in Servers : r # s => lifecycle'[r] = lifecycle[r]
  BY <1>1 DEF ShutStale, shutdown
<1>11. McpTyped'
  BY <1>1, <1>3, <1>7, <1>10 DEF McpTyped
<1>12. \A u \in McpThreads : u # t => mcpThread'[u] = mcpThread[u] \/ (~Handling(u) /\ ~Handling(u)')
  BY <1>8 DEF Handling, Attempting, AtRest
<1>13. ~Handling(t)' \/ (mcpThread[t].at = "stale" /\ mcpThread'[t].at = "spawn" /\ mcpThread'[t].server = s
                          /\ UNCHANGED <<starting, lifecycle>>)
  BY <1>3, <1>4, <1>8 DEF Handling, Attempting
<1>14. Handled'
  BY <1>2, <1>3, <1>9, <1>10, <1>12, <1>13, HandledEnds
<1>15. Called'
  <2>1. AtRest.at = "idle"
    BY DEF AtRest
  <2> QED  BY <1>4, <1>8, <1>9, <2>1, CalledKeeps
<1> QED  BY <1>7, <1>11, <1>14, <1>15 DEF Supervised

\* A handshake goes on, or the attempt ends: with an error, or with the session in the map.
LEMMA SupervisedLists ==
  ASSUME Supervised, NEW t \in McpThreads, NEW tools \in SUBSET Tools, handshake_and_list(t, tools)
  PROVE  Supervised'
<1>1. McpTyped /\ HandlerStands(t) /\ mcpThread[t] \in ThreadStates /\ mcpThread[t].at = "handshake"
      /\ mcpThread \in [McpThreads -> ThreadStates]
  BY DEF Supervised, Handled, McpTyped, handshake_and_list
<1> PICK k \in SessionIds : k = mcpThread[t].session
  BY <1>1 DEF HandlerStands, OwnedBy
<1>2. session[k] \in Sessions /\ session \in [SessionIds -> Sessions]
  BY <1>1 DEF McpTyped
<1> DEFINE listed == [session[k] EXCEPT !.tools = tools]
<1>3. session' = [session EXCEPT ![k] = listed]
  BY <1>2 DEF handshake_and_list
<1>4. /\ listed \in Sessions /\ listed.server = session[k].server /\ listed.pending = session[k].pending
      /\ listed.reader = session[k].reader /\ listed.running = session[k].running /\ listed.alive = session[k].alive
  BY <1>2 DEF Sessions
<1> HIDE DEF listed
<1>5. /\ session' \in [SessionIds -> Sessions]
      /\ \A j \in SessionIds :
           /\ session'[j].server = session[j].server /\ session'[j].pending = session[j].pending
           /\ session'[j].reader = session[j].reader /\ (session'[j].running => session[j].running)
           /\ session'[j].alive => session[j].alive
  BY <1>1, <1>3, <1>4, MarkedSession
<1> DEFINE new == [mcpThread[t] EXCEPT !.at = "register"]
<1>6. new \in Attempts /\ new.at = "register" /\ new.server = mcpThread[t].server /\ new.session = k
  BY <1>1, ThreadKinds DEF Attempts
<1>7. new \in ThreadStates /\ mcpThread' = [mcpThread EXCEPT ![t] = new]
  BY <1>6 DEF ThreadStates, handshake_and_list, Move
<1> HIDE DEF new
<1>8. /\ mcpThread' \in [McpThreads -> ThreadStates] /\ mcpThread'[t] = new
      /\ \A u \in McpThreads : u # t => mcpThread'[u] = mcpThread[u]
  BY <1>1, <1>7, MovedThread
<1>9. UNCHANGED <<mcpRow, mapped, starting, lifecycle>>
  BY DEF handshake_and_list
<1>10. McpTyped'
  BY <1>1, <1>5, <1>8, <1>9 DEF McpTyped
<1>11. Handled'
  BY <1>1, <1>5, <1>6, <1>8, <1>9, HandledKeeps
<1>12. Awaited'
  BY <1>1, <1>5, <1>6, <1>8, AwaitedKeeps
<1>13. Called'
  BY <1>1, <1>5, <1>6, <1>8, CalledKeeps
<1> QED  BY <1>10, <1>11, <1>12, <1>13 DEF Supervised

\* An attempt ends without a session: none was created, or the one it had is ended.
LEMMA SupervisedFails ==
  ASSUME Supervised, NEW t \in McpThreads, HandshakeFails(t) \/ AttemptDone(t)
  PROVE  Supervised'
<1>1. McpTyped /\ HandlerStands(t) /\ mcpThread[t] \in ThreadStates /\ mcpThread \in [McpThreads -> ThreadStates]
      /\ mcpThread[t].at \in {"spawn", "handshake", "publish"} /\ starting \in [Servers -> BOOLEAN]
  BY DEF Supervised, Handled, McpTyped, HandshakeFails, AttemptDone
<1> PICK k : k = mcpThread[t].session
  OBVIOUS
<1> PICK s \in Servers : s = mcpThread[t].server
  BY <1>1, ThreadKinds
<1>2. Handling(t) /\ (mcpThread[t].at # "spawn" => OwnedBy(t) /\ k \in SessionIds /\ session[k].server = s)
  BY <1>1 DEF HandlerStands, OwnedBy, Handling, Attempting
<1>3. /\ mcpThread' = Publish(s, [mcpThread EXCEPT ![t] = AtRest])
      /\ starting' = [starting EXCEPT ![s] = FALSE] /\ UNCHANGED <<mcpRow, mapped, lifecycle>>
  BY DEF HandshakeFails, AttemptDone
<1>4. /\ mcpThread' \in [McpThreads -> ThreadStates] /\ mcpThread'[t] = AtRest
      /\ \A u \in McpThreads : u # t =>
           mcpThread'[u] = mcpThread[u] \/ (mcpThread[u].at = "join" /\ mcpThread'[u] = AtRest)
  BY <1>1, <1>3, PublishedThreads
<1>5. starting' \in [Servers -> BOOLEAN] /\ \A r \in Servers : r # s => starting'[r] = starting[r]
  BY <1>1, <1>3
<1>6. AtRest.at = "idle"
  BY DEF AtRest
<1>7. /\ ~Handling(t)'
      /\ \A u \in McpThreads : u # t => mcpThread'[u] = mcpThread[u] \/ (~Handling(u) /\ ~Handling(u)')
  BY <1>4, <1>6 DEF Handling, Attempting
<1>8. \A u \in McpThreads :
        /\ mcpThread'[u].at = "waiting" <=> mcpThread[u].at = "waiting"
        /\ mcpThread[u].at = "waiting" => mcpThread'[u].session = mcpThread[u].session
        /\ mcpThread'[u].at \in {"request", "waiting"} =>
             mcpThread[u].at \in {"request", "waiting"} /\ mcpThread'[u].session = mcpThread[u].session
        /\ mcpThread'[u].at \in {"handshake", "register"} =>
             mcpThread[u].at \in {"handshake", "register"} /\ mcpThread'[u].session = mcpThread[u].session
  BY <1>1, <1>4, <1>6
<1>9. ASSUME session' \in [SessionIds -> Sessions], Awaited',
             \A j \in SessionIds : session'[j].server = session[j].server /\ (session'[j].alive => session[j].alive),
             mcpThread[t].at # "spawn" => ~session'[k].alive \/ IsHttp(k) \/ mapped[s] = k
      PROVE  Supervised'
  <2>1. McpTyped'
    BY <1>1, <1>3, <1>4, <1>5, <1>9 DEF McpTyped
  <2>2. Handled'
    <3>1. \A j \in SessionIds : OwnedBy(t) /\ j = mcpThread[t].session =>
            ~session'[j].alive \/ IsHttp(j) \/ mapped[session[j].server] = j
      BY <1>2, <1>9 DEF OwnedBy
    <3> QED  BY <1>2, <1>3, <1>5, <1>7, <1>9, <3>1, HandledEnds
  <2>3. Called'
    BY <1>8, <1>9, CalledKeeps
  <2> QED  BY <1>9, <2>1, <2>2, <2>3 DEF Supervised
<1>10. CASE UNCHANGED session /\ mcpThread[t].at \in {"spawn", "publish"}
  <2>1. session' \in [SessionIds -> Sessions]
    BY <1>1, <1>10 DEF McpTyped
  <2>2. Awaited'
    BY <1>8, <1>10, AwaitedKeeps
  <2>3. mcpThread[t].at # "spawn" => mapped[s] = k
    BY <1>1, <1>2, <1>10 DEF HandlerStands
  <2> QED  BY <1>9, <1>10, <2>1, <2>2, <2>3
<1>11. CASE mcpThread[t].at = "handshake" /\ IsHttp(k) /\ session' = [session EXCEPT ![k].running = FALSE]
  <2>1. session[k] \in Sessions /\ session \in [SessionIds -> Sessions] /\ k \in SessionIds
    BY <1>1, <1>2, <1>11 DEF McpTyped
  <2> DEFINE new == [session[k] EXCEPT !.running = FALSE]
  <2>2. session' = [session EXCEPT ![k] = new]
    BY <1>11, <2>1
  <2>3. /\ new \in Sessions /\ new.server = session[k].server /\ new.pending = session[k].pending
        /\ new.reader = session[k].reader /\ ~new.running /\ new.alive = session[k].alive
    BY <2>1 DEF Sessions
  <2> HIDE DEF new
  <2>4. /\ session' \in [SessionIds -> Sessions]
        /\ \A j \in SessionIds :
             /\ session'[j].server = session[j].server /\ session'[j].pending = session[j].pending
             /\ session'[j].reader = session[j].reader /\ (session'[j].running => session[j].running)
             /\ session'[j].alive => session[j].alive
    BY <1>1, <2>1, <2>2, <2>3, MarkedSession
  <2>5. Awaited'
    BY <1>8, <2>4, AwaitedKeeps
  <2> QED  BY <1>9, <1>11, <2>4, <2>5
<1>12. CASE mcpThread[t].at = "handshake" /\ ~IsHttp(k) /\ session' \in Ended(k)
  <2>1. k \in SessionIds /\ PendingStands(k) /\ session[k] \in Sessions
    BY <1>1, <1>2, <1>12 DEF Supervised, Awaited, McpTyped
  <2>2. /\ session' \in [SessionIds -> Sessions]
        /\ \A j \in SessionIds : j # k => session'[j] = session[j]
        /\ session'[k].server = session[k].server
        /\ ~session'[k].running /\ session'[k].pending = {} /\ ~session'[k].alive
    BY <1>1, <1>12, <2>1, EndedSession
  <2>3. session[k].pending = {}
    <3> SUFFICES ASSUME NEW u \in session[k].pending PROVE FALSE
      OBVIOUS
    <3>1. u \in McpThreads /\ mcpThread[u].at = "waiting" /\ mcpThread[u].session = k
      BY <2>1 DEF PendingStands, Sessions
    <3>2. CallIsApart(u)
      BY <3>1 DEF Supervised, Called
    <3> QED  BY <1>12, <3>1, <3>2 DEF CallIsApart
  <2>4. Awaited'
    BY <1>8, <1>12, <2>1, <2>2, <2>3, AwaitedWakes
  <2>5. \A j \in SessionIds : session'[j].server = session[j].server /\ (session'[j].alive => session[j].alive)
    BY <2>2
  <2> QED  BY <1>9, <2>2, <2>4, <2>5
<1> QED  BY <1>10, <1>11, <1>12 DEF HandshakeFails, AttemptDone

\* A process is created, or the record of an HTTP session; no caller knows it yet.
LEMMA SupervisedSpawns ==
  ASSUME Supervised, NEW t \in McpThreads, spawn_process(t) \/ start_http_server(t)
  PROVE  Supervised'
<1>1. McpTyped /\ (\A u \in McpThreads : HandlerStands(u) /\ mcpThread[u] \in ThreadStates)
      /\ mcpThread[t].at = "spawn" /\ HandlerIsAlone
      /\ mcpThread \in [McpThreads -> ThreadStates] /\ session \in [SessionIds -> Sessions]
  BY DEF Supervised, Handled, McpTyped, spawn_process, start_http_server
<1>2. mcpThread[t] \in Attempts /\ mcpThread[t].row \in McpRows
  BY <1>1, ThreadKinds
<1> PICK s \in Servers : s = mcpThread[t].server
  BY <1>1, ThreadKinds
<1>3. PICK k \in FreeSessions, reader \in {"none", "reading"} :
        /\ session' = [session EXCEPT ![k] =
             [server |-> s, alive |-> TRUE, running |-> TRUE,
              allowed |-> mcpThread[t].row.allowed, tools |-> {}, pending |-> {}, reader |-> reader]]
        /\ Move(t, [mcpThread[t] EXCEPT !.at = "handshake", !.session = k])
        /\ s \in HttpServers => reader = "none"
        /\ UNCHANGED <<mcpRow, mapped, starting, lifecycle>>
  <2> DEFINE Opened(k, reader) ==
               /\ session' = [session EXCEPT ![k] =
                    [server |-> mcpThread[t].server, alive |-> TRUE, running |-> TRUE,
                     allowed |-> mcpThread[t].row.allowed, tools |-> {}, pending |-> {}, reader |-> reader]]
               /\ Move(t, [mcpThread[t] EXCEPT !.at = "handshake", !.session = k])
  <2>1. UNCHANGED <<mcpRow, mapped, starting, lifecycle>>
    BY Zenon DEF spawn_process, start_http_server, NewSession
  <2>2. \E k \in FreeSessions, reader \in {"none", "reading"} :
          Opened(k, reader) /\ (s \in HttpServers => reader = "none")
    <3>1. CASE spawn_process(t)
      <4>1. PICK k \in FreeSessions : Opened(k, "reading")
        BY <3>1, Zenon DEF spawn_process, NewSession
      <4>2. s \notin HttpServers
        BY <3>1 DEF spawn_process
      <4> QED  BY <4>1, <4>2, Zenon
    <3>2. CASE start_http_server(t)
      <4>1. PICK k \in FreeSessions : Opened(k, "none")
        BY <3>2, Zenon DEF start_http_server, NewSession
      <4> QED  BY <4>1, Zenon
    <3> QED  BY <3>1, <3>2, Zenon
  <2>3. \A k, reader : Opened(k, reader) =>
          /\ session' = [session EXCEPT ![k] =
               [server |-> s, alive |-> TRUE, running |-> TRUE,
                allowed |-> mcpThread[t].row.allowed, tools |-> {}, pending |-> {}, reader |-> reader]]
          /\ Move(t, [mcpThread[t] EXCEPT !.at = "handshake", !.session = k])
    OBVIOUS
  <2> HIDE DEF Opened
  <2> QED  BY <2>1, <2>2, <2>3, Zenon
<1> DEFINE new == [server |-> s, alive |-> TRUE, running |-> TRUE,
                   allowed |-> mcpThread[t].row.allowed, tools |-> {}, pending |-> {}, reader |-> reader]
           moved == [mcpThread[t] EXCEPT !.at = "handshake", !.session = k]
<1>4. k \in SessionIds /\ session[k] = NoSession /\ k \in 0..MaxSessions
  BY McpAssumption DEF FreeSessions, SessionIds
<1>5. new \in Sessions /\ new.server = s /\ new.alive /\ new.running /\ new.pending = {} /\ new.reader = reader
  <2>1. mcpThread[t].row.allowed \in SUBSET Tools
    BY <1>2 DEF McpRows
  <2> QED  BY <2>1 DEF Sessions
<1>6. /\ moved \in Attempts /\ moved.at = "handshake" /\ moved.server = s /\ moved.session = k
  BY <1>2, <1>4 DEF Attempts
<1>7. session' = [session EXCEPT ![k] = new] /\ mcpThread' = [mcpThread EXCEPT ![t] = moved]
  BY <1>3 DEF Move
<1> HIDE DEF new, moved
<1>8. /\ session' \in [SessionIds -> Sessions] /\ session'[k] = new
      /\ \A j \in SessionIds : j # k => session'[j] = session[j]
  BY <1>1, <1>4, <1>5, <1>7, ChangedSession
<1>9. moved \in ThreadStates
  BY <1>6 DEF ThreadStates
<1>10. /\ mcpThread' \in [McpThreads -> ThreadStates] /\ mcpThread'[t] = moved
       /\ \A u \in McpThreads : u # t => mcpThread'[u] = mcpThread[u]
  BY <1>1, <1>7, <1>9, MovedThread
<1>11. McpTyped'
  BY <1>1, <1>3, <1>8, <1>10 DEF McpTyped
\* Nobody owns, maps, calls or waits for a session that is free.
<1>12. session[k].server \notin Servers /\ session[k].pending = {} /\ ~session[k].alive /\ ~session[k].running
  BY <1>4, McpAssumption DEF NoSession
<1>13. \A u \in McpThreads : OwnedBy(u) => mcpThread[u].session # k
  <2> SUFFICES ASSUME NEW u \in McpThreads, OwnedBy(u) PROVE mcpThread[u].session # k
    OBVIOUS
  <2>1. mcpThread[u].server \in Servers
    BY <1>1, ThreadKinds DEF OwnedBy
  <2> QED  BY <1>1, <1>12, <2>1 DEF HandlerStands
<1>14. \A r \in Servers : mapped[r] # k
  BY <1>4, <1>12 DEF Supervised, Handled, MappedStands, SessionIds
<1>15. \A u \in McpThreads : mcpThread[u].at \in {"request", "waiting"} =>
         /\ mcpThread[u].session # k /\ mcpThread[u].session \in SessionIds
         /\ \A v \in McpThreads : mcpThread'[v].at \in {"handshake", "register"} =>
              mcpThread'[v].session # mcpThread[u].session
  <2> SUFFICES ASSUME NEW u \in McpThreads, mcpThread[u].at \in {"request", "waiting"}
               PROVE  /\ mcpThread[u].session # k /\ mcpThread[u].session \in SessionIds
                      /\ \A v \in McpThreads : mcpThread'[v].at \in {"handshake", "register"} =>
                           mcpThread'[v].session # mcpThread[u].session
    OBVIOUS
  <2>1. CallIsApart(u)
    BY DEF Supervised, Called
  <2>2. mcpThread[u].session # k /\ mcpThread[u].session \in SessionIds
    BY <1>12, <2>1 DEF CallIsApart
  <2> QED  BY <1>6, <1>10, <2>1, <2>2 DEF CallIsApart
<1>16. HandlerIsAlone'
  <2>1. \A u \in McpThreads : (Handling(u)' <=> Handling(u)) /\ (Handling(u) => mcpThread'[u].server = mcpThread[u].server)
    BY <1>1, <1>6, <1>10 DEF Handling, Attempting
  <2> QED  BY <1>1, <2>1 DEF HandlerIsAlone
<1>17. ASSUME NEW u \in McpThreads PROVE HandlerStands(u)'
  <2>1. HandlerStands(u) /\ HandlerStands(t)
    BY <1>1
  <2>2. CASE u = t
    BY <1>1, <1>3, <1>4, <1>5, <1>6, <1>8, <1>10, <2>1, <2>2 DEF HandlerStands, Attempting, Handling, OwnedBy
  <2>3. CASE u # t
    BY <1>3, <1>8, <1>10, <1>13, <2>1, <2>3 DEF HandlerStands, Attempting, Handling, OwnedBy
  <2> QED  BY <2>2, <2>3
<1>18. ASSUME NEW r \in Servers PROVE MappedStands(r)'
  <2>1. mapped[r] # 0 => mapped[r] \in SessionIds /\ session[mapped[r]].server = r
    BY DEF Supervised, Handled, MappedStands, McpTyped, SessionIds
  <2> QED  BY <1>3, <1>8, <1>14, <2>1 DEF MappedStands
<1>19. ASSUME NEW j \in SessionIds PROVE ProcessStands(j)'
  <2>1. CASE j = k
    BY <1>5, <1>6, <1>8, <1>10, <2>1 DEF ProcessStands, OwnedBy
  <2>2. CASE j # k
    <3>1. \A u \in McpThreads : OwnedBy(u) => OwnedBy(u)' /\ mcpThread'[u].session = mcpThread[u].session
      BY <1>1, <1>10 DEF OwnedBy
    <3> QED  BY <1>3, <1>8, <2>2, <3>1 DEF Supervised, Handled, ProcessStands, IsHttp
  <2> QED  BY <2>1, <2>2
<1>20. ASSUME NEW j \in SessionIds PROVE PendingStands(j)'
  <2>1. PendingStands(j) /\ session[j].pending \subseteq McpThreads
    BY <1>1 DEF Supervised, Awaited, Sessions
  <2>2. CASE j = k
    BY <1>3, <1>5, <1>8, <2>2 DEF PendingStands, IsHttp
  <2>3. CASE j # k
    BY <1>1, <1>8, <1>10, <2>1, <2>3 DEF PendingStands, IsHttp
  <2> QED  BY <2>2, <2>3
<1>21. ASSUME NEW u \in McpThreads PROVE CallerStands(u)' /\ CallIsApart(u)'
  <2>1. CallerStands(u) /\ CallIsApart(u)
    BY DEF Supervised, Awaited, Called
  <2>2. mcpThread'[u].at \in {"request", "waiting"} => mcpThread'[u] = mcpThread[u]
    BY <1>6, <1>10
  <2>3. mcpThread'[u].at \in {"request", "waiting"} =>
          session'[mcpThread[u].session] = session[mcpThread[u].session]
    BY <1>8, <1>15, <2>2
  <2>4. CallerStands(u)'
    BY <1>15, <2>1, <2>2, <2>3 DEF CallerStands
  <2>5. CallIsApart(u)'
    BY <1>15, <2>1, <2>2, <2>3 DEF CallIsApart
  <2> QED  BY <2>4, <2>5
<1> QED
  BY <1>11, <1>16, <1>17, <1>18, <1>19, <1>20, <1>21 DEF Supervised, Handled, Awaited, Called

\* The session of a finished handshake enters the map.
LEMMA SupervisedRegisters ==
  ASSUME Supervised, NEW t \in McpThreads, Register(t)
  PROVE  Supervised'
<1>1. McpTyped /\ (\A u \in McpThreads : HandlerStands(u) /\ mcpThread[u] \in ThreadStates)
      /\ mcpThread[t].at = "register" /\ HandlerIsAlone
      /\ mcpThread \in [McpThreads -> ThreadStates] /\ mapped \in [Servers -> 0..MaxSessions]
  BY DEF Supervised, Handled, McpTyped, Register
<1> PICK s \in Servers : s = mcpThread[t].server
  BY <1>1, ThreadKinds
<1> PICK k \in SessionIds : k = mcpThread[t].session
  BY <1>1 DEF HandlerStands, OwnedBy
<1>2. session[k].server = s /\ mcpThread[t] \in Attempts /\ k \in 0..MaxSessions /\ mapped[s] = 0
  BY <1>1, ThreadKinds DEF HandlerStands, OwnedBy, Handling, Attempting
<1> DEFINE new == [mcpThread[t] EXCEPT !.at = "publish"]
<1>3. new \in Attempts /\ new.at = "publish" /\ new.server = s /\ new.session = k
  BY <1>2 DEF Attempts
<1>4. mcpThread' = [mcpThread EXCEPT ![t] = new] /\ mapped' = [mapped EXCEPT ![s] = k]
      /\ UNCHANGED <<mcpRow, session, starting, lifecycle>>
  BY DEF Register, Move
<1> HIDE DEF new
<1>5. new \in ThreadStates
  BY <1>3 DEF ThreadStates
<1>6. /\ mcpThread' \in [McpThreads -> ThreadStates] /\ mcpThread'[t] = new
      /\ \A u \in McpThreads : u # t => mcpThread'[u] = mcpThread[u]
  BY <1>1, <1>4, <1>5, MovedThread
<1>7. /\ mapped' \in [Servers -> 0..MaxSessions] /\ mapped'[s] = k
      /\ \A r \in Servers : r # s => mapped'[r] = mapped[r]
  BY <1>1, <1>2, <1>4
<1>8. McpTyped'
  BY <1>1, <1>4, <1>6, <1>7 DEF McpTyped
<1>9. \A u \in McpThreads : u # t /\ Handling(u) => mcpThread[u].server \in Servers /\ mcpThread[u].server # s
  <2>1. Handling(t)
    BY <1>1 DEF Handling, Attempting
  <2> QED  BY <1>1, <2>1, ThreadKinds DEF HandlerIsAlone, Handling, Attempting
<1>10. HandlerIsAlone'
  <2>1. \A u \in McpThreads : (Handling(u)' <=> Handling(u)) /\ mcpThread'[u].server = mcpThread[u].server
    <3>1. Handling(t)' /\ Handling(t) /\ mcpThread'[t].server = mcpThread[t].server
      BY <1>1, <1>3, <1>6 DEF Handling, Attempting
    <3>2. \A u \in McpThreads : u # t => (Handling(u)' <=> Handling(u)) /\ mcpThread'[u].server = mcpThread[u].server
      BY <1>6 DEF Handling, Attempting
    <3> QED  BY <3>1, <3>2
  <2> QED  BY <1>1, <2>1 DEF HandlerIsAlone
<1>11. ASSUME NEW u \in McpThreads PROVE HandlerStands(u)'
  <2>1. HandlerStands(u) /\ HandlerStands(t)
    BY <1>1
  <2>2. CASE u = t
    BY <1>1, <1>2, <1>3, <1>4, <1>6, <1>7, <2>1, <2>2 DEF HandlerStands, Attempting, Handling, OwnedBy
  <2>3. CASE u # t
    BY <1>4, <1>6, <1>7, <1>9, <2>1, <2>3 DEF HandlerStands, Attempting, Handling, OwnedBy
  <2> QED  BY <2>2, <2>3
<1>12. ASSUME NEW r \in Servers PROVE MappedStands(r)'
  BY <1>2, <1>4, <1>7 DEF Supervised, Handled, MappedStands
<1>13. ASSUME NEW j \in SessionIds PROVE ProcessStands(j)'
  <2> SUFFICES ASSUME session[j].alive, ~IsHttp(j)
               PROVE  \/ mapped'[session[j].server] = j
                      \/ \E u \in McpThreads : OwnedBy(u)' /\ mcpThread'[u].session = j
    BY <1>4 DEF Supervised, Handled, ProcessStands, IsHttp
  <2>1. \/ mapped[session[j].server] = j
        \/ \E u \in McpThreads : OwnedBy(u) /\ mcpThread[u].session = j
    BY DEF Supervised, Handled, ProcessStands
  <2>2. CASE mapped[session[j].server] = j
    <3>1. session[j].server # s /\ mapped' = [mapped EXCEPT ![s] = k]
      BY <1>2, <1>4, <2>2 DEF SessionIds
    <3> QED  BY <1>1, <2>2, <3>1
  <2>3. ASSUME NEW u \in McpThreads, OwnedBy(u), mcpThread[u].session = j
        PROVE  OwnedBy(u)' /\ mcpThread'[u].session = j
    BY <1>3, <1>6, <2>3 DEF OwnedBy
  <2> QED  BY <2>1, <2>2, <2>3
<1>14. Awaited'
  BY <1>1, <1>3, <1>4, <1>6, AwaitedKeeps
<1>15. Called'
  BY <1>1, <1>3, <1>4, <1>6, CalledKeeps
<1> QED  BY <1>8, <1>10, <1>11, <1>12, <1>13, <1>14, <1>15 DEF Supervised, Handled

\* A request is registered with a running session; the thread waits for the answer.
LEMMA SupervisedRequests ==
  ASSUME Supervised, NEW w \in McpThreads, request(w)
  PROVE  Supervised'
<1>1. /\ McpTyped /\ mcpThread[w].at = "request" /\ mcpThread[w] \in ThreadStates /\ CallIsApart(w)
      /\ AtRest \in ThreadStates /\ AtRest.at = "idle"
  BY DEF Supervised, McpTyped, Called, request, ThreadStates, AtRest
<1> PICK k \in SessionIds : k = mcpThread[w].session
  BY <1>1 DEF CallIsApart
<1>2. CASE ~MayRequest(k)
  <2>1. Move(w, AtRest) /\ UNCHANGED <<mcpRow, session, mapped, starting, lifecycle>>
    BY <1>2 DEF request
  <2> QED  BY <1>1, <2>1, SupervisedIdles DEF McpTyped
<1>3. CASE MayRequest(k)
  <2> DEFINE now == [session[k] EXCEPT !.pending = @ \union {w}]
             new == [mcpThread[w] EXCEPT !.at = "waiting"]
  <2>1. session[k] \in Sessions /\ mcpThread[w] \in Calling
    BY <1>1, ThreadKinds DEF McpTyped
  <2>2. /\ now \in Sessions /\ now.server = session[k].server /\ now.alive = session[k].alive
        /\ now.running = session[k].running /\ now.reader = session[k].reader
        /\ now.pending = session[k].pending \union {w}
    BY <2>1 DEF Sessions
  <2>3. new \in ThreadStates /\ new.at = "waiting" /\ new.session = k
    BY <2>1 DEF Calling, ThreadStates
  <2>4. session' = [session EXCEPT ![k] = now] /\ mcpThread' = [mcpThread EXCEPT ![w] = new]
        /\ UNCHANGED <<mcpRow, mapped, starting, lifecycle>>
    BY <1>1, <1>3 DEF request, Move, McpTyped
  <2> HIDE DEF now, new
  <2>5. /\ session' \in [SessionIds -> Sessions] /\ session'[k] = now
        /\ \A j \in SessionIds : j # k => session'[j] = session[j]
    BY <1>1, <2>2, <2>4, ChangedSession
  <2>6. /\ mcpThread' \in [McpThreads -> ThreadStates] /\ mcpThread'[w] = new
        /\ \A u \in McpThreads : u # w => mcpThread'[u] = mcpThread[u]
    BY <1>1, <2>3, <2>4, MovedThread
  <2>7. McpTyped'
    BY <1>1, <2>4, <2>5, <2>6 DEF McpTyped
  <2>8. Handled'
    <3>1. \A u \in McpThreads : mcpThread'[u] = mcpThread[u] \/ (~Handling(u) /\ ~Handling(u)')
      BY <1>1, <2>3, <2>6 DEF Handling, Attempting
    <3>2. \A j \in SessionIds : session'[j].server = session[j].server /\ (session'[j].alive => session[j].alive)
      BY <2>2, <2>5
    <3> QED  BY <2>4, <3>1, <3>2, HandledKeeps
  <2>9. Called'
    BY <1>1, <2>2, <2>3, <2>5, <2>6, CalledKeeps
  <2>10. ASSUME NEW j \in SessionIds PROVE PendingStands(j)'
    <3>1. PendingStands(j) /\ session[j].pending \subseteq McpThreads
      BY <1>1 DEF Supervised, Awaited, McpTyped, Sessions
    <3>2. \A u \in session[j].pending : mcpThread'[u] = mcpThread[u]
      BY <1>1, <2>6, <3>1 DEF PendingStands
    <3>3. CASE j = k
      BY <2>2, <2>3, <2>5, <2>6, <3>1, <3>2, <3>3 DEF PendingStands, IsHttp
    <3>4. CASE j # k
      BY <2>5, <3>1, <3>2, <3>4 DEF PendingStands, IsHttp
    <3> QED  BY <3>3, <3>4
  <2>11. ASSUME NEW u \in McpThreads PROVE CallerStands(u)'
    <3>1. CallerStands(u)
      BY DEF Supervised, Awaited
    <3>2. session[k].reader # "done"
      BY <1>3 DEF Supervised, Awaited, PendingStands, MayRequest
    <3>3. CASE u = w
      BY <2>2, <2>3, <2>5, <2>6, <3>2, <3>3 DEF CallerStands
    <3>4. CASE u # w
      <4>1. \A j \in SessionIds : session'[j].reader = session[j].reader /\ session[j].pending \subseteq session'[j].pending
        BY <2>2, <2>5
      <4> QED  BY <2>6, <3>1, <3>4, <4>1 DEF CallerStands
    <3> QED  BY <3>3, <3>4
  <2> QED  BY <2>7, <2>8, <2>9, <2>10, <2>11 DEF Supervised, Awaited
<1> QED  BY <1>2, <1>3

\* A caller gets its answer, or stops waiting for it.
LEMMA SupervisedAnswers ==
  ASSUME Supervised, NEW w \in McpThreads, process_line(w) \/ RequestGivenUp(w) \/ http_send(w)
  PROVE  Supervised'
<1>1. /\ McpTyped /\ mcpThread[w].at = "waiting" /\ CallerStands(w)
      /\ AtRest \in ThreadStates /\ AtRest.at = "idle"
  BY DEF Supervised, McpTyped, Awaited, process_line, RequestGivenUp, http_send, Answered, ThreadStates, AtRest
<1> PICK k \in SessionIds : k = mcpThread[w].session
  BY <1>1 DEF CallerStands
<1>2. session[k] \in Sessions /\ session \in [SessionIds -> Sessions]
  BY <1>1 DEF McpTyped
<1>3. PICK now \in Sessions :
        /\ session' = [session EXCEPT ![k] = now]
        /\ now.server = session[k].server /\ now.alive = session[k].alive /\ now.reader = session[k].reader
        /\ (now.running => session[k].running) /\ now.pending = session[k].pending \ {w}
  <2>1. CASE process_line(w) \/ RequestGivenUp(w)
    <3> DEFINE now == [session[k] EXCEPT !.pending = @ \ {w}]
    <3>1. session' = [session EXCEPT ![k] = now]
      BY <1>2, <2>1 DEF process_line, RequestGivenUp
    <3>2. /\ now \in Sessions
          /\ now.server = session[k].server /\ now.alive = session[k].alive /\ now.reader = session[k].reader
          /\ (now.running => session[k].running) /\ now.pending = session[k].pending \ {w}
      BY <1>2 DEF Sessions
    <3> HIDE DEF now
    <3> QED  BY <3>1, <3>2
  <2>2. CASE http_send(w)
    <3> DEFINE now == [session[k] EXCEPT !.pending = @ \ {w}, !.running = @ /\ session[k].alive]
    <3>1. session' = [session EXCEPT ![k] = now]
      BY <1>2, <2>2 DEF http_send
    <3>2. /\ now \in Sessions
          /\ now.server = session[k].server /\ now.alive = session[k].alive /\ now.reader = session[k].reader
          /\ (now.running => session[k].running) /\ now.pending = session[k].pending \ {w}
      BY <1>2 DEF Sessions
    <3> HIDE DEF now
    <3> QED  BY <3>1, <3>2
  <2> QED  BY <2>1, <2>2
<1>4. mcpThread' = [mcpThread EXCEPT ![w] = AtRest] /\ UNCHANGED <<mcpRow, mapped, starting, lifecycle>>
  BY DEF process_line, RequestGivenUp, http_send, Answered, Move
<1>5. /\ session' \in [SessionIds -> Sessions] /\ session'[k] = now
      /\ \A j \in SessionIds : j # k => session'[j] = session[j]
  BY <1>1, <1>3, ChangedSession
<1>6. /\ mcpThread' \in [McpThreads -> ThreadStates] /\ mcpThread'[w] = AtRest
      /\ \A u \in McpThreads : u # w => mcpThread'[u] = mcpThread[u]
  BY <1>1, <1>4, MovedThread
<1>7. McpTyped'
  BY <1>1, <1>4, <1>5, <1>6 DEF McpTyped
<1>8. Handled'
  <2>1. \A u \in McpThreads : mcpThread'[u] = mcpThread[u] \/ (~Handling(u) /\ ~Handling(u)')
    BY <1>1, <1>6 DEF Handling, Attempting
  <2>2. \A j \in SessionIds : session'[j].server = session[j].server /\ (session'[j].alive => session[j].alive)
    BY <1>3, <1>5
  <2> QED  BY <1>4, <2>1, <2>2, HandledKeeps
<1>9. Called'
  BY <1>1, <1>3, <1>5, <1>6, CalledKeeps
<1>10. ASSUME NEW j \in SessionIds PROVE PendingStands(j)'
  <2>1. PendingStands(j) /\ session[j].pending \subseteq McpThreads
    BY <1>1 DEF Supervised, Awaited, McpTyped, Sessions
  <2>2. CASE j = k
    BY <1>3, <1>5, <1>6, <2>1, <2>2 DEF PendingStands, IsHttp
  <2>3. CASE j # k
    BY <1>5, <1>6, <2>1, <2>3 DEF PendingStands, IsHttp
  <2> QED  BY <2>2, <2>3
<1>11. ASSUME NEW u \in McpThreads PROVE CallerStands(u)'
  <2>1. CallerStands(u)
    BY DEF Supervised, Awaited
  <2>2. CASE u = w
    BY <1>1, <1>6, <2>2 DEF CallerStands
  <2>3. CASE u # w
    <3>1. \A j \in SessionIds : session'[j].reader = session[j].reader /\ session[j].pending \ {w} \subseteq session'[j].pending
      BY <1>3, <1>5
    <3> QED  BY <1>6, <2>1, <2>3, <3>1 DEF CallerStands
  <2> QED  BY <2>2, <2>3
<1> QED  BY <1>7, <1>8, <1>9, <1>10, <1>11 DEF Supervised, Awaited

\* A server ends, its reader sees it, and then wakes the callers.
LEMMA SupervisedExits ==
  ASSUME Supervised, NEW k \in SessionIds, ProcessExit(k) \/ reader_loop(k) \/ notify_pending(k)
  PROVE  Supervised'
<1>1. /\ McpTyped /\ session[k] \in Sessions /\ session \in [SessionIds -> Sessions] /\ PendingStands(k)
      /\ mcpThread \in [McpThreads -> ThreadStates] /\ UNCHANGED <<mcpRow, mapped, starting, lifecycle>>
  BY DEF Supervised, McpTyped, Awaited, ProcessExit, reader_loop, notify_pending
<1>2. PICK now \in Sessions :
        /\ session' = [session EXCEPT ![k] = now]
        /\ now.server = session[k].server /\ (now.alive => session[k].alive) /\ (now.running => session[k].running)
        /\ \/ UNCHANGED mcpThread /\ now.pending = session[k].pending /\ now.reader = session[k].reader
           \/ /\ UNCHANGED mcpThread /\ now.pending = session[k].pending /\ ~now.running
              /\ session[k].reader = "reading" /\ now.reader = "notify"
           \/ /\ session[k].reader = "notify" /\ now.pending = {} /\ mcpThread' = WakesCallers(k, mcpThread)
  <2>1. CASE ProcessExit(k)
    <3> DEFINE now == [session[k] EXCEPT !.alive = FALSE]
    <3>1. session' = [session EXCEPT ![k] = now] /\ UNCHANGED mcpThread
      BY <1>1, <2>1 DEF ProcessExit
    <3>2. /\ now \in Sessions /\ now.server = session[k].server /\ ~now.alive /\ now.running = session[k].running
          /\ now.pending = session[k].pending /\ now.reader = session[k].reader
      BY <1>1 DEF Sessions
    <3> HIDE DEF now
    <3> QED  BY <3>1, <3>2
  <2>2. CASE reader_loop(k)
    <3> DEFINE now == [session[k] EXCEPT !.running = FALSE, !.reader = "notify"]
    <3>1. session' = [session EXCEPT ![k] = now] /\ UNCHANGED mcpThread /\ session[k].reader = "reading"
      BY <1>1, <2>2 DEF reader_loop
    <3>2. /\ now \in Sessions /\ now.server = session[k].server /\ now.alive = session[k].alive /\ ~now.running
          /\ now.pending = session[k].pending /\ now.reader = "notify"
      BY <1>1 DEF Sessions
    <3> HIDE DEF now
    <3> QED  BY <3>1, <3>2
  <2>3. CASE notify_pending(k)
    <3> DEFINE now == [session[k] EXCEPT !.pending = {}, !.reader = "done"]
    <3>1. session' = [session EXCEPT ![k] = now] /\ mcpThread' = WakesCallers(k, mcpThread) /\ session[k].reader = "notify"
      BY <1>1, <2>3 DEF notify_pending
    <3>2. /\ now \in Sessions /\ now.server = session[k].server /\ now.alive = session[k].alive
          /\ now.running = session[k].running /\ now.pending = {}
      BY <1>1 DEF Sessions
    <3> HIDE DEF now
    <3> QED  BY <3>1, <3>2
  <2> QED  BY <2>1, <2>2, <2>3
<1>3. /\ session' \in [SessionIds -> Sessions] /\ session'[k] = now
      /\ \A j \in SessionIds : j # k => session'[j] = session[j]
  BY <1>1, <1>2, ChangedSession
<1>4. \A j \in SessionIds : session'[j].server = session[j].server /\ (session'[j].alive => session[j].alive)
  BY <1>2, <1>3
<1>5. CASE session[k].reader = "notify" /\ now.pending = {} /\ mcpThread' = WakesCallers(k, mcpThread)
  <2>1. ~IsHttp(k) /\ ~session[k].running
    BY <1>1, <1>5 DEF PendingStands
  <2>2. \A u \in McpThreads : mcpThread'[u] = IF u \in session[k].pending THEN AtRest ELSE mcpThread[u]
    BY <1>1, <1>5, <2>1 DEF WakesCallers
  <2>3. AtRest \in ThreadStates /\ AtRest.at = "idle"
    BY DEF ThreadStates, AtRest
  <2>4. \A u \in McpThreads : u \in session[k].pending => mcpThread[u].at = "waiting"
    BY <1>1 DEF PendingStands
  <2>5. McpTyped'
    <3>1. mcpThread' \in [McpThreads -> ThreadStates]
      BY <1>1, <1>5, <2>3 DEF WakesCallers
    <3> QED  BY <1>1, <1>3, <3>1 DEF McpTyped
  <2>6. Handled'
    <3>1. \A u \in McpThreads : mcpThread'[u] = mcpThread[u] \/ (~Handling(u) /\ ~Handling(u)')
      BY <2>2, <2>3, <2>4 DEF Handling, Attempting
    <3> QED  BY <1>1, <1>4, <3>1, HandledKeeps
  <2>7. Called'
    BY <1>4, <2>2, <2>3, CalledKeeps
  <2>8. Awaited'
    <3>1. \A u \in McpThreads :
            /\ mcpThread'[u].at = "waiting" => mcpThread[u].at = "waiting" /\ u \notin session[k].pending
            /\ mcpThread[u].at = "waiting" /\ u \notin session[k].pending =>
                 mcpThread'[u].at = "waiting" /\ mcpThread'[u].session = mcpThread[u].session
      BY <2>2, <2>3
    <3> QED  BY <1>2, <1>3, <1>5, <2>1, <3>1, AwaitedWakes
  <2> QED  BY <2>5, <2>6, <2>7, <2>8 DEF Supervised
<1>6. CASE /\ UNCHANGED mcpThread /\ now.pending = session[k].pending
           /\ \/ now.reader = session[k].reader
              \/ session[k].reader = "reading" /\ now.reader = "notify" /\ ~now.running
  <2>1. McpTyped'
    BY <1>1, <1>3, <1>6 DEF McpTyped
  <2>2. Handled'
    BY <1>1, <1>4, <1>6, HandledKeeps
  <2>3. Called'
    BY <1>4, <1>6, CalledKeeps
  <2>4. ASSUME NEW j \in SessionIds PROVE PendingStands(j)'
    <3>1. PendingStands(j)
      BY DEF Supervised, Awaited
    <3>2. CASE j = k
      BY <1>2, <1>3, <1>6, <3>1, <3>2 DEF PendingStands, IsHttp
    <3>3. CASE j # k
      BY <1>3, <1>6, <3>1, <3>3 DEF PendingStands, IsHttp
    <3> QED  BY <3>2, <3>3
  <2>5. ASSUME NEW u \in McpThreads PROVE CallerStands(u)'
    <3>1. CallerStands(u)
      BY DEF Supervised, Awaited
    <3>2. \A j \in SessionIds : session'[j].pending = session[j].pending
                                /\ (session[j].reader # "done" => session'[j].reader # "done")
      BY <1>2, <1>3, <1>6
    <3> QED  BY <1>6, <3>1, <3>2 DEF CallerStands
  <2> QED  BY <2>1, <2>2, <2>3, <2>4, <2>5 DEF Supervised, Awaited
<1> QED  BY <1>2, <1>5, <1>6

LEMMA SupervisedInit == McpInit => Supervised
<1> SUFFICES ASSUME McpInit PROVE Supervised
  OBVIOUS
<1>1. /\ \A k \in SessionIds : session[k] = NoSession
      /\ \A t \in McpThreads : mcpThread[t] = AtRest
      /\ \A s \in Servers : mapped[s] = 0
  BY DEF McpInit
<1>2. NoSession \in Sessions /\ ~NoSession.alive /\ ~NoSession.running /\ NoSession.pending = {}
      /\ NoSession.server = "none" /\ NoSession.reader = "none"
  BY DEF NoSession, Sessions
<1>3. AtRest \in ThreadStates /\ AtRest.at = "idle"
  BY DEF AtRest, ThreadStates
<1>4. McpTyped
  <2>1. NoServer \in McpRows /\ [saved |-> TRUE, enabled |-> TRUE, allowed |-> Tools] \in McpRows
    BY DEF NoServer, McpRows
  <2>2. mcpRow \in [Servers -> McpRows] /\ session \in [SessionIds -> Sessions]
    BY <1>2, <2>1 DEF McpInit
  <2>3. mapped \in [Servers -> 0..MaxSessions] /\ starting \in [Servers -> BOOLEAN]
        /\ lifecycle \in [Servers -> McpThreads \union {Nobody}]
    BY McpAssumption DEF McpInit
  <2>4. mcpThread \in [McpThreads -> ThreadStates]
    BY <1>3 DEF McpInit
  <2> QED  BY <2>2, <2>3, <2>4 DEF McpTyped
<1>5. Handled
  BY <1>1, <1>2, <1>3 DEF Handled, HandlerIsAlone, HandlerStands, Handling, Attempting, OwnedBy,
    MappedStands, ProcessStands
<1>6. Awaited
  BY <1>1, <1>2, <1>3 DEF Awaited, PendingStands, CallerStands
<1>7. Called
  BY <1>1, <1>3 DEF Called, CallIsApart
<1> QED  BY <1>4, <1>5, <1>6, <1>7 DEF Supervised

LEMMA SupervisedNext == Supervised /\ [McpNext]_mcpVars => Supervised'
<1> SUFFICES ASSUME Supervised, [McpNext]_mcpVars PROVE Supervised'
  OBVIOUS
<1>1. CASE UNCHANGED mcpVars
  <2>1. Handled'
    BY <1>1, HandledKeeps DEF mcpVars
  <2>2. Awaited' /\ Called'
    BY <1>1, AwaitedKeeps, CalledKeeps DEF mcpVars
  <2> QED  BY <1>1, <2>1, <2>2 DEF Supervised, McpTyped, mcpVars
<1>2. CASE \E s \in Servers :
             \/ \E b \in BOOLEAN : mcp_server_save(s, b)
             \/ \E a \in SUBSET Tools : mcp_server_review(s, a)
             \/ mcp_server_delete(s) \/ AskStart(s) \/ AskStop(s)
             \/ \E w \in McpWorkers : AskCatalog(w, s) \/ \E x \in Tools : call(w, s, x)
  BY <1>2, SupervisedAsks
<1>3. CASE \E t \in McpThreads : Join(t) \/ Reuse(t) \/ OpenAttempt(t) \/ stop_server(t)
  BY <1>3, SupervisedJoins, SupervisedOpens
<1>4. CASE \E t \in McpThreads : ShutStale(t) \/ shutdown(t) \/ HandshakeFails(t) \/ AttemptDone(t)
  BY <1>4, SupervisedShuts, SupervisedFails
<1>5. CASE \E t \in McpThreads : spawn_process(t) \/ start_http_server(t) \/ Register(t)
  BY <1>5, SupervisedSpawns, SupervisedRegisters
<1>6. CASE \E t \in McpThreads : \E x \in SUBSET Tools : handshake_and_list(t, x)
  BY <1>6, SupervisedLists
<1>7. CASE \E t \in McpThreads : request(t) \/ process_line(t) \/ RequestGivenUp(t) \/ http_send(t)
  BY <1>7, SupervisedRequests, SupervisedAnswers
<1>8. CASE \E k \in SessionIds : ProcessExit(k) \/ reader_loop(k) \/ notify_pending(k)
  BY <1>8, SupervisedExits
<1> QED  BY <1>1, <1>2, <1>3, <1>4, <1>5, <1>6, <1>7, <1>8 DEF McpNext

\* The records of the supervisor, of its threads and of the sessions fit together in every state.
THEOREM SupervisedInvariant == McpSpec => []Supervised
BY SupervisedInit, SupervisedNext, PTL DEF McpSpec

\* However starts, stops, exits and calls interleave, a local server has one process, somebody will
\* end it, and a caller that waits will be woken (ensure_started, stop_server, start_server, request,
\* reader_loop, notify_pending).
THEOREM OwnershipTheorem == McpSpec => []SessionsAreOwned
<1>1. ASSUME Supervised PROVE SessionsAreOwned
  <2>1. /\ \A k \in SessionIds : ProcessStands(k)
        /\ \A t \in McpThreads : HandlerStands(t) /\ CallerStands(t) /\ mcpThread[t] \in ThreadStates
        /\ HandlerIsAlone
    BY <1>1 DEF Supervised, Handled, Awaited, McpTyped
  <2>2. ASSUME NEW t \in McpThreads, OwnedBy(t)
        PROVE  /\ mcpThread[t].server \in Servers /\ session[mcpThread[t].session].server = mcpThread[t].server
               /\ Handling(t)
               /\ mapped[mcpThread[t].server] \in {0, mcpThread[t].session}
    BY <2>1, <2>2, ThreadKinds DEF HandlerStands, Handling, Attempting, OwnedBy
  <2>3. ASSUME NEW j \in SessionIds, NEW k \in SessionIds, session[j].server = session[k].server, ~IsHttp(j),
               session[j].alive, session[k].alive
        PROVE  j = k
    <3>1. ~IsHttp(k)
      BY <2>3 DEF IsHttp
    <3>2. j # 0 /\ k # 0
      BY McpAssumption DEF SessionIds
    <3>3. CASE mapped[session[j].server] = j /\ mapped[session[k].server] = k
      BY <2>3, <3>3
    <3>4. ASSUME NEW a \in {j, k}, NEW b \in {j, k}, mapped[session[a].server] = a,
                 NEW t \in McpThreads, OwnedBy(t), mcpThread[t].session = b
          PROVE  a = b
      <4>1. mapped[mcpThread[t].server] = a
        BY <2>2, <2>3, <3>4
      <4> QED  BY <2>2, <3>2, <3>4, <4>1
    <3>5. ASSUME NEW t \in McpThreads, OwnedBy(t), mcpThread[t].session = j,
                 NEW u \in McpThreads, OwnedBy(u), mcpThread[u].session = k
          PROVE  j = k
      <4>1. t = u
        BY <2>1, <2>2, <2>3, <3>5 DEF HandlerIsAlone
      <4> QED  BY <3>5, <4>1
    <3> QED  BY <2>1, <2>3, <3>1, <3>3, <3>4, <3>5 DEF ProcessStands
  <2>4. OneOwnedProcess
    BY <2>1, <2>3 DEF OneOwnedProcess, ProcessStands
  <2>5. CallerIsWoken
    BY <2>1 DEF CallerIsWoken, CallerStands, McpThreads
  <2> QED  BY <2>4, <2>5 DEF SessionsAreOwned
<1> QED  BY <1>1, SupervisedInvariant, PTL

----------------------------------------------------------------------------
(* Watches: an inspection at work has its slot, or was being admitted when a stop was answered *)

RowStates == {"none", "claimed", "running", "skipped", "succeeded", "failed", "interrupted"}
Frames == [op : {"start", "stop"}, id : Inspections, waited : BOOLEAN]
Endings == {"succeeded", "failed", "interrupted"}
Replies == [kind : {"reply"}, id : {"none"}, value : {"started", "error", "accepted", "unknown"},
            waited : BOOLEAN]
Events == [kind : {"event"}, id : Inspections, value : Endings, waited : {FALSE}]
Ticks ==
  {Resting} \union [at : {"check", "admit"}, todo : SUBSET Inspections]
  \union [at : {"stop"}, id : Inspections, todo : SUBSET Inspections, next : {"check", "admit"},
          status : {"interrupted", "failed"}]
  \union [at : {"start"}, id : Inspections, todo : SUBSET Inspections]
Readings == {Resting} \union [at : {"event"}, id : Inspections, status : Endings]
SlotRecords ==
  {NoSlot} \union [deadline : Nat \ {0},
    stopping : {"none", "schedule_paused", "task_stopped", "inspection_timeout", "inspection_start_unknown"}]

WatchTyped ==
  /\ clock \in 0..MaxTime /\ schedule \in [Schedules -> [status : {"none", "active", "paused", "revoked"},
                                                         next : Nat, last : Nat]]
  /\ runRow \in [Inspections -> RowStates] /\ slots \in [Inspections -> SlotRecords]
  /\ tick \in Ticks /\ reading \in Readings
  /\ toAgent \in Seq(Frames) /\ fromAgent \in Seq(Replies \union Events)
  /\ admitting \subseteq [id : Inspections, waited : BOOLEAN] /\ inspecting \subseteq Inspections

\* Where a run is between the frame that asks for it and the event that reports its end.
Asked(id) == \E p \in DOMAIN toAgent : toAgent[p].op = "start" /\ toAgent[p].id = id
Admitting(id) == \E a \in admitting : a.id = id
AtWork(id) == Asked(id) \/ Admitting(id) \/ id \in inspecting
Reported(id) ==
  \/ \E p \in DOMAIN fromAgent : fromAgent[p].kind = "event" /\ fromAgent[p].id = id
  \/ reading.at = "event" /\ reading.id = id

\* A run is asked for once, is at one place at a time, and has a slot until its end is reported,
\* except for a stray.
RunStands(id) ==
  /\ runRow[id] \in {"none", "claimed"} => ~AtWork(id) /\ ~Reported(id)
  /\ Asked(id) => ~Admitting(id) /\ id \notin inspecting /\ ~Reported(id)
  /\ Admitting(id) => id \notin inspecting /\ ~Reported(id)
  /\ id \in inspecting => ~Reported(id)
  /\ AtWork(id) => id \in InSlots \union strays
AskedOnce ==
  \A p, q \in DOMAIN toAgent :
    toAgent[p].op = "start" /\ toAgent[q].op = "start" /\ toAgent[p].id = toAgent[q].id => p = q
AdmittedOnce == \A a, b \in admitting : a.id = b.id => a = b
RunsStand == (\A id \in Inspections : RunStands(id)) /\ AskedOnce /\ AdmittedOnce
SlotsApart == \A i, j \in InSlots : TaskOf(i) = TaskOf(j) => i = j

\* The tick waits for one answer.  Its frame is the last one, and the run that is unknown to the
\* Agent when a stop is answered is a stray if it ever shows again.
Gone(id) == ~Asked(id) /\ (Admitting(id) \/ id \in inspecting => id \in strays)
NoAnswer == \A p \in DOMAIN fromAgent : ~fromAgent[p].waited
FrameWaits ==
  \A p \in DOMAIN toAgent : toAgent[p].waited =>
    /\ p = Len(toAgent) /\ tick.at = toAgent[p].op /\ tick.id = toAgent[p].id
    /\ NoAnswer /\ \A a \in admitting : ~a.waited
AdmissionWaits ==
  \A a \in admitting : a.waited => tick.at = "start" /\ tick.id = a.id /\ NoAnswer
AnswerWaits ==
  \A p \in DOMAIN fromAgent : fromAgent[p].waited =>
    /\ tick.at \in {"start", "stop"}
    /\ tick.at = "stop" /\ fromAgent[p].value = "unknown" => Gone(tick.id)
    /\ \A q \in DOMAIN fromAgent : fromAgent[q].waited => p = q

Waits == FrameWaits /\ AdmissionWaits /\ AnswerWaits

Tracked == WatchTyped /\ RunsStand /\ SlotsApart /\ Waits

\* What a frame sent, or taken, makes of a queue.
LEMMA SentFrame ==
  ASSUME NEW S, NEW q \in Seq(S), NEW e \in S
  PROVE  /\ Append(q, e) \in Seq(S) /\ Len(q) \in Nat /\ Len(Append(q, e)) = Len(q) + 1
         /\ DOMAIN q = 1..Len(q) /\ DOMAIN Append(q, e) = 1..(Len(q) + 1)
         /\ \A p \in DOMAIN q : p \in DOMAIN Append(q, e) /\ p # Len(q) + 1 /\ Append(q, e)[p] = q[p] /\ q[p] \in S
         /\ \A p \in DOMAIN Append(q, e) : p = Len(q) + 1 \/ p \in DOMAIN q
         /\ Append(q, e)[Len(q) + 1] = e
OBVIOUS

LEMMA QueuedFrame ==
  ASSUME NEW S, NEW q \in Seq(S)
  PROVE  Len(q) \in Nat /\ DOMAIN q = 1..Len(q) /\ \A p \in DOMAIN q : q[p] \in S
OBVIOUS

LEMMA TwoMoreFrames ==
  ASSUME NEW S, NEW q \in Seq(S), NEW a \in S, NEW b \in S
  PROVE  /\ q \o <<a, b>> \in Seq(S) /\ Len(q \o <<a, b>>) = Len(q) + 2
         /\ DOMAIN (q \o <<a, b>>) = 1..(Len(q) + 2)
         /\ \A p \in 1..Len(q) : (q \o <<a, b>>)[p] = q[p]
         /\ (q \o <<a, b>>)[Len(q) + 1] = a /\ (q \o <<a, b>>)[Len(q) + 2] = b
<1>1. <<a, b>> \in Seq(S) /\ Len(<<a, b>>) = 2 /\ Len(q) \in Nat
  OBVIOUS
<1>2. q \o <<a, b>> \in Seq(S) /\ Len(q \o <<a, b>>) = Len(q) + 2
  BY <1>1
<1>3. \A p \in 1..Len(q) : (q \o <<a, b>>)[p] = q[p]
  BY <1>1
<1>4. (q \o <<a, b>>)[Len(q) + 1] = a /\ (q \o <<a, b>>)[Len(q) + 2] = b
  BY <1>1
<1> QED  BY <1>2, <1>3, <1>4

LEMMA TakenFrame ==
  ASSUME NEW S, NEW q \in Seq(S), q # <<>>
  PROVE  /\ Tail(q) \in Seq(S) /\ Len(q) \in Nat \ {0} /\ Len(Tail(q)) = Len(q) - 1
         /\ Head(q) = q[1] /\ q[1] \in S /\ 1 \in DOMAIN q
         /\ \A p \in DOMAIN Tail(q) : p \in Nat /\ p + 1 \in DOMAIN q /\ p + 1 # 1 /\ Tail(q)[p] = q[p + 1]
OBVIOUS

\* The bucket of a due run is one of those there are.
LEMMA DueRun ==
  ASSUME WatchTyped, NEW s \in Due
  PROVE  DueId(s) \in Inspections
<1>1. /\ s \in Schedules /\ schedule[s].next \in Nat /\ schedule[s].next <= MaxTime + Interval
      /\ MaxTime + Interval \in Nat /\ Window \in Nat \ {0}
  BY WatchAssumption DEF WatchTyped, Due
<1>2. \A a, b \in Nat : a <= b => a \div Window \in 0..(b \div Window)
  BY <1>1
<1> QED  BY <1>1, <1>2 DEF DueId, Inspections, Buckets

\* Where the tick stands tells its record.
LEMMA TickKinds ==
  ASSUME NEW x \in Ticks
  PROVE  /\ x.at \in {"check", "admit"} => x.todo \in SUBSET Inspections /\ x = [at |-> x.at, todo |-> x.todo]
         /\ x.at = "stop" => /\ x.id \in Inspections /\ x.todo \in SUBSET Inspections
                             /\ x.next \in {"check", "admit"} /\ x.status \in {"interrupted", "failed"}
         /\ x.at = "start" => x.id \in Inspections /\ x.todo \in SUBSET Inspections
<1>1. CASE x = Resting
  BY <1>1 DEF Resting
<1>2. CASE x \in [at : {"check", "admit"}, todo : SUBSET Inspections]
  BY <1>2
<1>3. CASE x \in [at : {"stop"}, id : Inspections, todo : SUBSET Inspections, next : {"check", "admit"},
                  status : {"interrupted", "failed"}]
  BY <1>3
<1>4. CASE x \in [at : {"start"}, id : Inspections, todo : SUBSET Inspections]
  BY <1>4
<1> QED  BY <1>1, <1>2, <1>3, <1>4 DEF Ticks

\* Nobody waits for an answer outside a request.
NobodyWaits ==
  NoAnswer /\ (\A p \in DOMAIN toAgent : ~toAgent[p].waited) /\ \A a \in admitting : ~a.waited
LEMMA WaitsNot == ASSUME WatchTyped, Waits, tick.at \notin {"start", "stop"} PROVE NobodyWaits
<1>1. \A p \in DOMAIN toAgent : toAgent[p] \in Frames
  BY QueuedFrame DEF WatchTyped
<1>2. \A p \in DOMAIN toAgent : toAgent[p].op \in {"start", "stop"}
  BY <1>1 DEF Frames
<1> QED  BY <1>2 DEF Waits, FrameWaits, AdmissionWaits, AnswerWaits, NobodyWaits, NoAnswer
LEMMA WaitsForNobody == ASSUME NobodyWaits' PROVE Waits'
BY DEF NobodyWaits, NoAnswer, Waits, FrameWaits, AdmissionWaits, AnswerWaits

\* Runs keep their places, or leave them, and their slots while they have a place.
LEMMA RunsKeep ==
  ASSUME RunsStand, AskedOnce', AdmittedOnce', inspecting' \subseteq inspecting, strays \subseteq strays',
         \A id \in Inspections :
           /\ Asked(id)' => Asked(id)
           /\ Admitting(id)' => Admitting(id)
           /\ Reported(id)' => Reported(id)
           /\ id \in InSlots /\ AtWork(id)' => id \in InSlots' \union strays'
           /\ runRow'[id] \in {"none", "claimed"} => runRow[id] \in {"none", "claimed"}
  PROVE  RunsStand'
<1> SUFFICES ASSUME NEW id \in Inspections PROVE RunStands(id)'
  BY DEF RunsStand
<1>1. RunStands(id)
  BY DEF RunsStand
<1>2. AtWork(id)' => AtWork(id)
  BY DEF AtWork
<1> QED  BY <1>1, <1>2 DEF RunStands

\* Slots are only freed.
LEMMA ApartKeeps == ASSUME SlotsApart, InSlots' \subseteq InSlots PROVE SlotsApart'
BY DEF SlotsApart, TaskOf

LEMMA TrackedStutters ==
  ASSUME Tracked, UNCHANGED <<clock, rowVars, slots, tick, agentVars, reading>> PROVE Tracked'
<1>1. WatchTyped' /\ InSlots' = InSlots
  BY DEF Tracked, WatchTyped, rowVars, agentVars, InSlots
<1>2. RunsStand'
  <2>1. \A id \in Inspections : Asked(id)' = Asked(id) /\ Admitting(id)' = Admitting(id) /\ Reported(id)' = Reported(id)
    BY DEF Asked, Admitting, Reported, agentVars
  <2>2. AskedOnce' /\ AdmittedOnce'
    BY DEF Tracked, RunsStand, AskedOnce, AdmittedOnce, agentVars
  <2> QED  BY <1>1, <2>1, <2>2, RunsKeep DEF Tracked, agentVars, rowVars
<1>3. SlotsApart'
  BY <1>1, ApartKeeps DEF Tracked
<1>4. FrameWaits' /\ AdmissionWaits'
  BY DEF Tracked, Waits, FrameWaits, AdmissionWaits, NoAnswer, agentVars
<1>5. AnswerWaits'
  BY DEF Tracked, Waits, AnswerWaits, Gone, Asked, Admitting, agentVars
<1> QED  BY <1>1, <1>2, <1>3, <1>4, <1>5 DEF Tracked, Waits

\* A tick that waits for nobody moves on, or rows, schedules, tasks and the time change.
LEMMA TrackedRests ==
  ASSUME Tracked, UNCHANGED <<agentVars, reading, slots>>, tick.at \notin {"start", "stop"},
         clock' \in 0..MaxTime, schedule' \in [Schedules -> [status : {"none", "active", "paused", "revoked"},
                                                             next : Nat, last : Nat]],
         runRow' \in [Inspections -> RowStates], tick' \in Ticks,
         \A id \in Inspections : runRow'[id] \in {"none", "claimed"} => runRow[id] \in {"none", "claimed"}
  PROVE  Tracked'
<1>1. WatchTyped'
  BY DEF Tracked, WatchTyped, agentVars
<1>2. InSlots' = InSlots
  BY DEF InSlots
<1>3. RunsStand'
  <2>1. \A id \in Inspections : Asked(id)' = Asked(id) /\ Admitting(id)' = Admitting(id) /\ Reported(id)' = Reported(id)
    BY DEF Asked, Admitting, Reported, agentVars
  <2>2. AskedOnce' /\ AdmittedOnce'
    BY DEF Tracked, RunsStand, AskedOnce, AdmittedOnce, agentVars
  <2> QED  BY <1>2, <2>1, <2>2, RunsKeep DEF Tracked, agentVars
<1>4. SlotsApart'
  BY <1>2, ApartKeeps DEF Tracked
<1>5. Waits'
  <2>1. NobodyWaits'
    BY WaitsNot DEF Tracked, NobodyWaits, NoAnswer, agentVars
  <2> QED  BY <2>1 DEF NobodyWaits, NoAnswer, Waits, FrameWaits, AdmissionWaits, AnswerWaits
<1> QED  BY <1>1, <1>3, <1>4, <1>5 DEF Tracked

\* A claim makes rows of runs that had none, and leaves the rows of the others.
LEMMA ClaimFacts ==
  ASSUME WatchTyped, claim_due_investigation_schedule_runs
  PROVE  /\ schedule' \in [Schedules -> [status : {"none", "active", "paused", "revoked"}, next : Nat, last : Nat]]
         /\ runRow' \in [Inspections -> RowStates]
         /\ \A id \in Inspections : runRow'[id] = runRow[id] \/ runRow[id] = "none"
<1>1. /\ clock \in Nat /\ clock + Interval \in Nat /\ runRow \in [Inspections -> RowStates]
      /\ \A s \in Schedules : schedule[s].last \in Nat /\ schedule[s] \in [status : {"none", "active", "paused", "revoked"}, next : Nat, last : Nat]
  BY WatchAssumption DEF WatchTyped
<1>2. ASSUME NEW s \in Schedules
      PROVE  schedule'[s] \in [status : {"none", "active", "paused", "revoked"}, next : Nat, last : Nat]
  <2>1. CASE s \notin Due
    BY <1>1, <2>1 DEF claim_due_investigation_schedule_runs
  <2>2. CASE s \in Due
    <3> DEFINE status == IF watched[WatchTask[s]] = "ended" THEN "revoked" ELSE "active"
               last == IF ~Existing(s) /\ Refusal(s) = "none" THEN clock ELSE schedule[s].last
    <3>1. status \in {"none", "active", "paused", "revoked"} /\ last \in Nat
      BY <1>1
    <3>2. schedule'[s] = [status |-> status, next |-> clock + Interval, last |-> last]
      BY <2>2 DEF claim_due_investigation_schedule_runs
    <3> HIDE DEF status, last
    <3> QED  BY <1>1, <3>1, <3>2
  <2> QED  BY <2>1, <2>2
<1>3. \A id \in Inspections : /\ runRow'[id] = runRow[id] \/ (runRow[id] = "none" /\ runRow'[id] \in {"claimed", "skipped"})
  BY <1>1 DEF claim_due_investigation_schedule_runs, Existing
<1>4. schedule' \in [Schedules -> [status : {"none", "active", "paused", "revoked"}, next : Nat, last : Nat]]
  <2>1. schedule' = [s \in Schedules |-> schedule'[s]]
    BY DEF claim_due_investigation_schedule_runs
  <2> QED  BY <1>2, <2>1
<1>5. runRow' \in [Inspections -> RowStates]
  <2>1. runRow' = [id \in Inspections |-> runRow'[id]]
    BY DEF claim_due_investigation_schedule_runs
  <2> QED  BY <1>1, <1>3, <2>1 DEF RowStates
<1> QED  BY <1>3, <1>4, <1>5

\* The user's commands, the clock, and the steps of a tick between its requests.
LEMMA TrackedCommands ==
  ASSUME Tracked,
         \/ \E s \in Schedules :
              \/ CreateSchedule(s)
              \/ \E status \in {"active", "paused", "revoked"}, next \in {schedule[s].next, clock} :
                   UpdateSchedule(s, status, next)
         \/ \E t \in WatchTasks, to \in {"runnable", "held", "ended"} : TaskMoves(t, to)
         \/ TickCommand \/ BeginTick \/ ClaimDue \/ EndTick \/ Passes
  PROVE  Tracked'
<1> DEFINE Rows == [status : {"none", "active", "paused", "revoked"}, next : Nat, last : Nat]
<1>1. WatchTyped /\ clock \in 0..MaxTime /\ clock \in Nat /\ schedule \in [Schedules -> Rows]
      /\ runRow \in [Inspections -> RowStates] /\ tick \in Ticks
      /\ Resting \in Ticks /\ Resting.at = "rest"
  BY WatchAssumption DEF Tracked, WatchTyped, Ticks, Resting
<1>2. ASSUME NEW s \in Schedules, CreateSchedule(s) PROVE Tracked'
  <2>1. schedule' \in [Schedules -> Rows]
    BY <1>1, <1>2 DEF CreateSchedule, create_investigation_schedule
  <2> QED  BY <1>1, <1>2, <2>1, TrackedRests DEF CreateSchedule
<1>3. ASSUME NEW s \in Schedules, NEW status \in {"active", "paused", "revoked"},
             NEW next \in {schedule[s].next, clock}, UpdateSchedule(s, status, next)
      PROVE  Tracked'
  <2> DEFINE new == [schedule[s] EXCEPT !.status = status, !.next = next]
  <2>1. schedule' = [schedule EXCEPT ![s] = new]
    BY <1>1, <1>3 DEF UpdateSchedule, update_investigation_schedule
  <2>2. new \in Rows
    BY <1>1
  <2> HIDE DEF new
  <2>3. schedule' \in [Schedules -> Rows]
    BY <1>1, <2>1, <2>2
  <2> QED  BY <1>1, <1>3, <2>3, TrackedRests DEF UpdateSchedule
<1>4. ASSUME NEW t \in WatchTasks, NEW to \in {"runnable", "held", "ended"}, TaskMoves(t, to) PROVE Tracked'
  BY <1>4, TrackedStutters DEF TaskMoves
<1>5. CASE TickCommand
  BY <1>1, <1>5, ClaimFacts, TrackedRests DEF TickCommand
<1>6. CASE BeginTick
  <2>1. tick' \in Ticks
    BY <1>6 DEF BeginTick, Ticks, InSlots
  <2>2. runRow' \in [Inspections -> RowStates]
        /\ \A id \in Inspections : runRow'[id] \in {"none", "claimed"} => runRow[id] \in {"none", "claimed"}
    <3>1. CASE UNCHANGED runRow
      BY <1>1, <3>1
    <3>2. CASE recover_investigation_schedule_runs
      BY <1>1, <3>2 DEF recover_investigation_schedule_runs, RowStates, Open
    <3> QED  BY <1>6, <3>1, <3>2 DEF BeginTick
  <2> QED  BY <1>1, <1>6, <2>1, <2>2, TrackedRests DEF BeginTick
<1>7. CASE ClaimDue
  <2>1. Claimed \subseteq Inspections
    BY <1>1, DueRun DEF Claimed
  <2>2. tick' \in Ticks
    BY <1>7, <2>1 DEF ClaimDue, Ticks
  <2> QED  BY <1>1, <1>7, <2>2, ClaimFacts, TrackedRests DEF ClaimDue
<1>8. CASE EndTick \/ Passes
  <2>1. clock' \in 0..MaxTime
    BY <1>1, <1>8, WatchAssumption DEF EndTick, Passes
  <2> QED  BY <1>1, <1>8, <2>1, TrackedRests DEF EndTick, Passes, rowVars
<1> QED  BY <1>2, <1>3, <1>4, <1>5, <1>6, <1>7, <1>8

\* Slots that are marked, freed and given.
LEMMA MarkedSlot ==
  ASSUME slots \in [Inspections -> SlotRecords], NEW id \in InSlots,
         NEW why \in {"schedule_paused", "task_stopped", "inspection_timeout", "inspection_start_unknown"},
         slots' = [slots EXCEPT ![id].stopping = why]
  PROVE  slots' \in [Inspections -> SlotRecords] /\ InSlots' = InSlots
<1>1. id \in Inspections /\ slots[id] \in SlotRecords /\ slots[id] # NoSlot
  BY DEF InSlots
<1> DEFINE new == [slots[id] EXCEPT !.stopping = why]
<1>2. slots' = [slots EXCEPT ![id] = new]
  BY <1>1
<1>3. new \in SlotRecords /\ new.stopping = why
  BY <1>1 DEF SlotRecords
<1>4. NoSlot.stopping = "none"
  BY DEF NoSlot
<1> HIDE DEF new
<1>5. new # NoSlot
  BY <1>3, <1>4
<1> QED  BY <1>1, <1>2, <1>3, <1>5 DEF InSlots

LEMMA FreedSlot ==
  ASSUME slots \in [Inspections -> SlotRecords], NEW id \in Inspections, slots' = [slots EXCEPT ![id] = NoSlot]
  PROVE  slots' \in [Inspections -> SlotRecords] /\ InSlots' = InSlots \ {id}
<1>1. NoSlot \in SlotRecords
  BY DEF SlotRecords
<1> QED  BY <1>1 DEF InSlots

LEMMA GivenSlot ==
  ASSUME WatchTyped, NEW id \in Inspections,
         slots' = [slots EXCEPT ![id] = [deadline |-> clock + MaxRun, stopping |-> "none"]]
  PROVE  slots' \in [Inspections -> SlotRecords] /\ InSlots' = InSlots \union {id}
<1> DEFINE new == [deadline |-> clock + MaxRun, stopping |-> "none"]
<1>1. clock + MaxRun \in Nat \ {0} /\ slots \in [Inspections -> SlotRecords]
  BY WatchAssumption DEF WatchTyped
<1>2. new \in SlotRecords /\ new.deadline # 0
  BY <1>1 DEF SlotRecords
<1>3. NoSlot.deadline = 0
  BY DEF NoSlot
<1> HIDE DEF new
<1>4. new # NoSlot
  BY <1>2, <1>3
<1> QED  BY <1>1, <1>2, <1>4 DEF InSlots, new

LEMMA EndedRow ==
  ASSUME WatchTyped, NEW id \in Inspections, NEW status \in Endings \union {"skipped"}, EndRow(id, status)
  PROVE  /\ runRow' \in [Inspections -> RowStates]
         /\ \A j \in Inspections : runRow'[j] \in {"none", "claimed"} => runRow[j] \in {"none", "claimed"}
BY DEF WatchTyped, EndRow, RowStates, Endings

\* The end of a run frees its slot, if it has one and its row takes the end.
LEMMA FinishFacts ==
  ASSUME WatchTyped, NEW id \in Inspections, NEW status \in Endings, finish(id, status)
  PROVE  /\ runRow' \in [Inspections -> RowStates] /\ slots' \in [Inspections -> SlotRecords]
         /\ InSlots' \subseteq InSlots /\ InSlots \ {id} \subseteq InSlots'
         /\ \A j \in Inspections : runRow'[j] \in {"none", "claimed"} => runRow[j] \in {"none", "claimed"}
<1>1. runRow \in [Inspections -> RowStates] /\ slots \in [Inspections -> SlotRecords]
  BY DEF WatchTyped
<1>2. CASE id \in InSlots /\ TakesEnd(id)
  <2>1. EndRow(id, status) /\ slots' = [slots EXCEPT ![id] = NoSlot]
    BY <1>2 DEF finish
  <2> QED  BY <1>1, <2>1, EndedRow, FreedSlot
<1>3. CASE UNCHANGED <<runRow, slots>>
  BY <1>1, <1>3 DEF InSlots
<1> QED  BY <1>2, <1>3 DEF finish

\* The tick sends the stop of a run and waits for its answer.
LEMMA TrackedStops ==
  ASSUME Tracked, NEW id \in Inspections,
         toAgent' = Append(toAgent, [op |-> "stop", id |-> id, waited |-> TRUE]),
         fromAgent' \in Seq(Replies \union Events), tick' \in Ticks, tick'.at = "stop", tick'.id = id,
         slots' \in [Inspections -> SlotRecords], InSlots' = InSlots,
         UNCHANGED <<clock, rowVars, admitting, inspecting, strays, reading>>,
         \A p \in DOMAIN toAgent : ~toAgent[p].waited, \A a \in admitting : ~a.waited, NoAnswer',
         \A j \in Inspections : Reported(j)' => Reported(j)
  PROVE  Tracked'
<1> DEFINE e == [op |-> "stop", id |-> id, waited |-> TRUE]
<1>1. e \in Frames /\ e.op = "stop" /\ e.id = id /\ toAgent \in Seq(Frames) /\ toAgent' = Append(toAgent, e)
  BY DEF Frames, Tracked, WatchTyped
<1> HIDE DEF e
<1>2. /\ Len(toAgent) \in Nat /\ toAgent' \in Seq(Frames) /\ Len(toAgent') = Len(toAgent) + 1
      /\ toAgent'[Len(toAgent) + 1] = e
      /\ \A p \in DOMAIN toAgent' : p = Len(toAgent) + 1 \/ (p \in DOMAIN toAgent /\ toAgent'[p] = toAgent[p])
  <2>1. /\ Len(toAgent) \in Nat /\ Append(toAgent, e) \in Seq(Frames)
        /\ Len(Append(toAgent, e)) = Len(toAgent) + 1 /\ Append(toAgent, e)[Len(toAgent) + 1] = e
        /\ \A p \in DOMAIN toAgent : Append(toAgent, e)[p] = toAgent[p]
        /\ \A p \in DOMAIN Append(toAgent, e) : p = Len(toAgent) + 1 \/ p \in DOMAIN toAgent
    BY <1>1, SentFrame
  <2> QED  BY <1>1, <2>1
<1>3. WatchTyped'
  BY <1>2 DEF Tracked, WatchTyped, rowVars
<1>4. RunsStand'
  <2>1. AskedOnce'
    BY <1>1, <1>2 DEF Tracked, RunsStand, AskedOnce
  <2>2. \A j \in Inspections : Asked(j)' => Asked(j)
    BY <1>1, <1>2 DEF Asked
  <2>3. AdmittedOnce' /\ \A j \in Inspections : Admitting(j)' = Admitting(j)
    BY DEF Tracked, RunsStand, AdmittedOnce, Admitting
  <2> QED  BY <2>1, <2>2, <2>3, RunsKeep DEF Tracked, rowVars
<1>5. SlotsApart'
  BY ApartKeeps DEF Tracked
<1>6. FrameWaits'
  BY <1>1, <1>2 DEF FrameWaits
<1>7. AdmissionWaits' /\ AnswerWaits'
  BY DEF AdmissionWaits, AnswerWaits, NoAnswer
<1> QED  BY <1>3, <1>4, <1>5, <1>6, <1>7 DEF Tracked, Waits

LEMMA TrackedChecks ==
  ASSUME Tracked, tick.at = "check", NEW id \in tick.todo, CheckSlot(id)
  PROVE  Tracked'
<1>1. WatchTyped /\ tick \in Ticks /\ tick.todo \in SUBSET Inspections /\ id \in Inspections
      /\ tick = [at |-> "check", todo |-> tick.todo] /\ NobodyWaits
      /\ slots \in [Inspections -> SlotRecords]
  BY TickKinds, WaitsNot DEF Tracked, WatchTyped
<1>2. CASE id \notin InSlots \/ StopReason(id) = "none"
  <2>1. tick' = [tick EXCEPT !.todo = @ \ {id}] /\ UNCHANGED <<clock, rowVars, slots, agentVars, reading>>
    BY <1>2 DEF CheckSlot, agentVars
  <2>2. tick' = [at |-> "check", todo |-> tick.todo \ {id}]
    BY <1>1, <2>1
  <2>3. tick' \in Ticks
    BY <1>1, <2>2 DEF Ticks
  <2> QED  BY <1>1, <2>1, <2>3, TrackedRests DEF Tracked, WatchTyped, rowVars
<1>3. CASE id \in InSlots /\ StopReason(id) # "none"
  <2> PICK why : why = StopReason(id)
    OBVIOUS
  <2>1. why \in {"schedule_paused", "task_stopped", "inspection_timeout", "inspection_start_unknown"}
    <3>1. slots[id] \in SlotRecords /\ NoSlot.stopping = "none"
      BY <1>1 DEF NoSlot
    <3>2. slots[id].stopping \in {"none", "schedule_paused", "task_stopped", "inspection_timeout", "inspection_start_unknown"}
      BY <3>1 DEF SlotRecords
    <3> QED  BY <1>3, <3>2 DEF StopReason
  <2>2. slots' = [slots EXCEPT ![id].stopping = why]
        /\ toAgent' = Append(toAgent, [op |-> "stop", id |-> id, waited |-> TRUE])
        /\ tick' = [at |-> "stop", id |-> id, todo |-> tick.todo \ {id}, next |-> "check", status |-> "interrupted"]
        /\ UNCHANGED <<clock, rowVars, admitting, inspecting, fromAgent, strays, reading>>
    BY <1>3 DEF CheckSlot, Send
  <2>3. slots' \in [Inspections -> SlotRecords] /\ InSlots' = InSlots
    BY <1>1, <1>3, <2>1, <2>2, MarkedSlot
  <2>4. tick' \in Ticks /\ tick'.at = "stop" /\ tick'.id = id
    BY <1>1, <2>2 DEF Ticks
  <2>5. NoAnswer' /\ fromAgent' \in Seq(Replies \union Events) /\ \A j \in Inspections : Reported(j)' => Reported(j)
    BY <1>1, <2>2 DEF NobodyWaits, NoAnswer, Reported, WatchTyped
  <2> QED  BY <1>1, <2>2, <2>3, <2>4, <2>5, TrackedStops DEF NobodyWaits
<1> QED  BY <1>2, <1>3

\* A claimed run is passed over, skipped, or asked for once it has a slot.
LEMMA TrackedAdmits ==
  ASSUME Tracked, tick.at = "admit", NEW id \in tick.todo, NEW other \in BOOLEAN, Admit(id, other)
  PROVE  Tracked'
<1>1. WatchTyped /\ tick \in Ticks /\ tick.todo \in SUBSET Inspections /\ id \in Inspections
      /\ tick = [at |-> "admit", todo |-> tick.todo] /\ NobodyWaits
      /\ runRow \in [Inspections -> RowStates] /\ toAgent \in Seq(Frames)
  BY TickKinds, WaitsNot DEF Tracked, WatchTyped
<1>2. UNCHANGED <<clock, schedule, admitting, inspecting, fromAgent, strays, reading>>
  BY DEF Admit
<1>3. CASE tick' = [tick EXCEPT !.todo = @ \ {id}] /\ UNCHANGED <<slots, toAgent>>
           /\ (UNCHANGED runRow \/ EndRow(id, "skipped"))
  <2>1. tick' = [at |-> "admit", todo |-> tick.todo \ {id}]
    BY <1>1, <1>3
  <2>2. tick' \in Ticks
    BY <1>1, <2>1 DEF Ticks
  <2>3. /\ runRow' \in [Inspections -> RowStates]
        /\ \A j \in Inspections : runRow'[j] \in {"none", "claimed"} => runRow[j] \in {"none", "claimed"}
    BY <1>1, <1>3, EndedRow
  <2> QED  BY <1>1, <1>2, <1>3, <2>2, <2>3, TrackedRests DEF Tracked, WatchTyped, agentVars
<1>4. CASE /\ id \notin InSlots /\ ~TaskBusy(id, other)
           /\ start_investigation_schedule_run(id)
           /\ slots' = [slots EXCEPT ![id] = [deadline |-> clock + MaxRun, stopping |-> "none"]]
           /\ Send("start", id)
           /\ tick' = [at |-> "start", id |-> id, todo |-> tick.todo \ {id}]
  <2> DEFINE e == [op |-> "start", id |-> id, waited |-> TRUE]
  <2>1. e \in Frames /\ e.op = "start" /\ e.id = id /\ toAgent' = Append(toAgent, e)
    BY <1>1, <1>4 DEF Frames, Send
  <2> HIDE DEF e
  <2>2. /\ Len(toAgent) \in Nat /\ toAgent' \in Seq(Frames) /\ Len(toAgent') = Len(toAgent) + 1
        /\ toAgent'[Len(toAgent) + 1] = e
        /\ \A p \in DOMAIN toAgent' : p = Len(toAgent) + 1 \/ (p \in DOMAIN toAgent /\ toAgent'[p] = toAgent[p])
    <3>1. /\ Len(toAgent) \in Nat /\ Append(toAgent, e) \in Seq(Frames)
          /\ Len(Append(toAgent, e)) = Len(toAgent) + 1 /\ Append(toAgent, e)[Len(toAgent) + 1] = e
          /\ \A p \in DOMAIN toAgent : Append(toAgent, e)[p] = toAgent[p]
          /\ \A p \in DOMAIN Append(toAgent, e) : p = Len(toAgent) + 1 \/ p \in DOMAIN toAgent
      BY <1>1, <2>1, SentFrame
    <3> QED  BY <2>1, <3>1
  <2>3. slots' \in [Inspections -> SlotRecords] /\ InSlots' = InSlots \union {id}
    BY <1>1, <1>4, GivenSlot
  <2>4. tick' \in Ticks /\ tick'.at = "start" /\ tick'.id = id
    BY <1>1, <1>4 DEF Ticks
  <2>5. runRow[id] = "claimed" /\ runRow' \in [Inspections -> RowStates] /\ runRow'[id] = "running"
        /\ \A j \in Inspections : j # id => runRow'[j] = runRow[j]
    BY <1>1, <1>4 DEF start_investigation_schedule_run, RowStates
  <2>6. WatchTyped'
    BY <1>2, <2>2, <2>3, <2>4, <2>5 DEF Tracked, WatchTyped
  \* The run was at no place yet.
  <2>7. \A j \in Inspections : RunStands(j)
    BY DEF Tracked, RunsStand
  <2>8. ~Asked(id) /\ ~Admitting(id) /\ id \notin inspecting /\ ~Reported(id)
    BY <1>1, <2>5, <2>7 DEF RunStands, AtWork
  <2>9. \A j \in Inspections : /\ Admitting(j)' = Admitting(j) /\ Reported(j)' = Reported(j)
                               /\ Asked(j)' => Asked(j) \/ j = id
    BY <1>2, <2>1, <2>2 DEF Admitting, Reported, Asked
  <2>10. ASSUME NEW j \in Inspections PROVE RunStands(j)'
    <3>1. CASE j = id
      BY <1>2, <2>3, <2>5, <2>8, <2>9, <3>1 DEF RunStands, AtWork
    <3>2. CASE j # id
      BY <1>2, <2>3, <2>5, <2>7, <2>9, <3>2 DEF RunStands, AtWork
    <3> QED  BY <3>1, <3>2
  <2>11. AskedOnce'
    <3> SUFFICES ASSUME NEW p \in DOMAIN toAgent', NEW q \in DOMAIN toAgent',
                        toAgent'[p].op = "start", toAgent'[q].op = "start", toAgent'[p].id = toAgent'[q].id
                 PROVE  p = q
      BY DEF AskedOnce
    <3>1. \A r \in DOMAIN toAgent : toAgent[r].op = "start" => toAgent[r].id # id
      BY <2>8 DEF Asked
    <3> QED  BY <2>1, <2>2, <3>1 DEF Tracked, RunsStand, AskedOnce
  <2>12. AdmittedOnce'
    BY <1>2 DEF Tracked, RunsStand, AdmittedOnce
  <2>13. SlotsApart'
    BY <1>1, <1>4, <2>3 DEF Tracked, SlotsApart, TaskBusy, TaskOf
  <2>14. FrameWaits'
    BY <1>1, <1>2, <2>1, <2>2, <2>4 DEF FrameWaits, NobodyWaits, NoAnswer
  <2>15. AdmissionWaits' /\ AnswerWaits'
    BY <1>1, <1>2 DEF AdmissionWaits, AnswerWaits, NobodyWaits, NoAnswer
  <2> QED  BY <2>6, <2>10, <2>11, <2>12, <2>13, <2>14, <2>15 DEF Tracked, RunsStand, Waits
<1> QED  BY <1>3, <1>4 DEF Admit

\* The next frame of the Agent is read.
LEMMA ReadFrame ==
  ASSUME WatchTyped, fromAgent # <<>>, fromAgent' = Tail(fromAgent)
  PROVE  /\ Head(fromAgent) \in Replies \union Events /\ fromAgent' \in Seq(Replies \union Events)
         /\ 1 \in DOMAIN fromAgent /\ Head(fromAgent) = fromAgent[1]
         /\ \A p \in DOMAIN fromAgent' :
              p \in Nat /\ p + 1 \in DOMAIN fromAgent /\ p + 1 # 1 /\ fromAgent'[p] = fromAgent[p + 1]
<1>1. fromAgent \in Seq(Replies \union Events)
  BY DEF WatchTyped
<1>2. /\ Tail(fromAgent) \in Seq(Replies \union Events)
      /\ Head(fromAgent) = fromAgent[1] /\ fromAgent[1] \in Replies \union Events /\ 1 \in DOMAIN fromAgent
      /\ \A p \in DOMAIN Tail(fromAgent) : p \in Nat /\ p + 1 \in DOMAIN fromAgent /\ p + 1 # 1
                                           /\ Tail(fromAgent)[p] = fromAgent[p + 1]
  BY <1>1, TakenFrame
<1> QED  BY <1>2

\* A run that is nowhere, or a stray, loses its slot.
LEMMA TrackedFrees ==
  ASSUME Tracked, NEW id \in Inspections, NEW status \in Endings, finish(id, status),
         AtWork(id) => id \in strays,
         UNCHANGED <<clock, schedule, toAgent, admitting, inspecting, strays>>,
         fromAgent' \in Seq(Replies \union Events), tick' \in Ticks, reading' \in Readings, Waits',
         \A j \in Inspections : Reported(j)' => Reported(j)
  PROVE  Tracked'
<1>1. /\ runRow' \in [Inspections -> RowStates] /\ slots' \in [Inspections -> SlotRecords]
      /\ InSlots' \subseteq InSlots /\ InSlots \ {id} \subseteq InSlots'
      /\ \A j \in Inspections : runRow'[j] \in {"none", "claimed"} => runRow[j] \in {"none", "claimed"}
  BY FinishFacts DEF Tracked
<1>2. WatchTyped'
  BY <1>1 DEF Tracked, WatchTyped
<1>3. RunsStand'
  <2>1. \A j \in Inspections : Asked(j)' = Asked(j) /\ Admitting(j)' = Admitting(j) /\ AtWork(j)' = AtWork(j)
    BY DEF Asked, Admitting, AtWork
  <2>2. AskedOnce' /\ AdmittedOnce'
    BY DEF Tracked, RunsStand, AskedOnce, AdmittedOnce
  <2> QED  BY <1>1, <2>1, <2>2, RunsKeep DEF Tracked
<1>4. SlotsApart'
  BY <1>1, ApartKeeps DEF Tracked
<1> QED  BY <1>2, <1>3, <1>4 DEF Tracked

\* What was going on goes on, while the tick learns its answer or stops waiting for it.
LEMMA TrackedStays ==
  ASSUME Tracked, slots' \in [Inspections -> SlotRecords], InSlots' = InSlots,
         UNCHANGED <<clock, rowVars, inspecting, strays>>,
         toAgent' \in Seq(Frames), fromAgent' \in Seq(Replies \union Events), AskedOnce', AdmittedOnce',
         admitting' \subseteq [id : Inspections, waited : BOOLEAN],
         tick' \in Ticks, reading' \in Readings, Waits',
         \A j \in Inspections : /\ Reported(j)' => Reported(j)
                                /\ Asked(j)' => Asked(j)
                                /\ Admitting(j)' => Admitting(j)
  PROVE  Tracked'
<1>1. WatchTyped'
  BY DEF Tracked, WatchTyped, rowVars
<1>2. RunsStand'
  <2>1. \A j \in Inspections : AtWork(j)' => AtWork(j)
    BY DEF AtWork
  <2>2. \A j \in Inspections : RunStands(j)
    BY DEF Tracked, RunsStand
  <2> QED  BY <2>1, <2>2, RunsKeep DEF Tracked, rowVars
<1>3. SlotsApart'
  BY ApartKeeps DEF Tracked
<1> QED  BY <1>1, <1>2, <1>3 DEF Tracked

\* The answer the tick waits for: its stop or its start is over.
LEMMA StopIsOver ==
  ASSUME Tracked, NEW value, StopAnswered(value), value = "unknown" => Gone(tick.id),
         UNCHANGED <<clock, schedule, inspecting, strays, reading>>,
         toAgent' \in Seq(Frames), fromAgent' \in Seq(Replies \union Events), AskedOnce', AdmittedOnce',
         admitting' \subseteq [id : Inspections, waited : BOOLEAN], NobodyWaits',
         value = "unknown" => UNCHANGED <<toAgent, admitting>>,
         \A j \in Inspections : /\ Reported(j)' => Reported(j)
                                /\ Asked(j)' => Asked(j)
                                /\ Admitting(j)' => Admitting(j)
  PROVE  Tracked'
<1>1. WatchTyped /\ tick \in Ticks /\ tick.at = "stop" /\ slots \in [Inspections -> SlotRecords]
      /\ reading' \in Readings
  BY DEF Tracked, WatchTyped, StopAnswered
<1> PICK id \in Inspections : id = tick.id
  BY <1>1, TickKinds
<1>2. tick.status \in Endings /\ tick' \in Ticks
  <2>1. tick.status \in {"interrupted", "failed"} /\ tick.next \in {"check", "admit"} /\ tick.todo \in SUBSET Inspections
    BY <1>1, TickKinds
  <2> QED  BY <2>1 DEF StopAnswered, Resume, Ticks, Endings
<1>3. Waits'
  BY WaitsForNobody
<1>4. CASE value = "unknown"
  <2>1. finish(id, tick.status) /\ (AtWork(id) => id \in strays)
    BY <1>4 DEF StopAnswered, MayFree, Gone, AtWork
  <2> QED  BY <1>1, <1>2, <1>3, <1>4, <2>1, TrackedFrees
<1>5. CASE value # "unknown"
  <2>1. UNCHANGED rowVars
    BY <1>5 DEF StopAnswered, MayFree, rowVars
  <2>2. slots' \in [Inspections -> SlotRecords] /\ InSlots' = InSlots
    <3>1. CASE UNCHANGED slots
      BY <1>1, <3>1 DEF InSlots
    <3>2. CASE id \in InSlots /\ slots' = [slots EXCEPT ![id].stopping = "inspection_start_unknown"]
      BY <1>1, <3>2, MarkedSlot
    <3> QED  BY <1>5, <3>1, <3>2 DEF StopAnswered, MayFree
  <2> QED  BY <1>1, <1>2, <1>3, <2>1, <2>2, TrackedStays
<1> QED  BY <1>4, <1>5

\* A reply is read: of a request nobody waits for any more, or the one the tick waits for.
LEMMA TrackedReplies ==
  ASSUME Tracked, ReadReply
  PROVE  Tracked'
<1>1. /\ WatchTyped /\ tick \in Ticks /\ slots \in [Inspections -> SlotRecords] /\ reading \in Readings
      /\ fromAgent # <<>> /\ fromAgent' = Tail(fromAgent) /\ toAgent \in Seq(Frames)
      /\ admitting \subseteq [id : Inspections, waited : BOOLEAN]
      /\ UNCHANGED <<clock, schedule, admitting, inspecting, strays, reading>>
  BY DEF ReadReply, Tracked, WatchTyped
<1>2. /\ fromAgent' \in Seq(Replies \union Events) /\ 1 \in DOMAIN fromAgent /\ Head(fromAgent) = fromAgent[1]
      /\ \A p \in DOMAIN fromAgent' :
           p \in Nat /\ p + 1 \in DOMAIN fromAgent /\ p + 1 # 1 /\ fromAgent'[p] = fromAgent[p + 1]
  BY <1>1, ReadFrame
<1>3. \A j \in Inspections : Reported(j)' => Reported(j)
  BY <1>1, <1>2 DEF Reported
<1>4. AskedOnce /\ AdmittedOnce /\ AdmittedOnce'
  BY <1>1 DEF Tracked, RunsStand, AdmittedOnce
<1>5. CASE ~Head(fromAgent).waited
  <2>1. UNCHANGED <<tick, rowVars, slots, toAgent>>
    BY <1>1, <1>5 DEF ReadReply, rowVars
  <2>2. AskedOnce' /\ InSlots' = InSlots
    BY <1>4, <2>1 DEF AskedOnce, InSlots
  <2>3. \A j \in Inspections : Asked(j)' = Asked(j) /\ Admitting(j)' = Admitting(j)
    BY <1>1, <2>1 DEF Asked, Admitting
  <2>4. FrameWaits' /\ AdmissionWaits'
    BY <1>1, <1>2, <2>1 DEF Tracked, Waits, FrameWaits, AdmissionWaits, NoAnswer
  <2>5. AnswerWaits'
    <3> SUFFICES ASSUME NEW p \in DOMAIN fromAgent', fromAgent'[p].waited
                 PROVE  /\ tick.at \in {"start", "stop"}
                        /\ tick.at = "stop" /\ fromAgent'[p].value = "unknown" => Gone(tick.id)'
                        /\ \A q \in DOMAIN fromAgent' : fromAgent'[q].waited => p = q
      BY <2>1 DEF AnswerWaits
    <3>1. /\ tick.at \in {"start", "stop"}
          /\ tick.at = "stop" /\ fromAgent[p + 1].value = "unknown" => Gone(tick.id)
          /\ \A q \in DOMAIN fromAgent : fromAgent[q].waited => p + 1 = q
      BY <1>2 DEF Tracked, Waits, AnswerWaits
    <3>2. Gone(tick.id) => Gone(tick.id)'
      BY <1>1, <2>1 DEF Gone, Asked, Admitting
    <3> QED  BY <1>2, <3>1, <3>2
  <2> QED  BY <1>1, <1>2, <1>3, <1>4, <2>1, <2>2, <2>3, <2>4, <2>5, TrackedStays DEF Waits
<1>6. CASE Head(fromAgent).waited
  <2>1. /\ \A q \in DOMAIN fromAgent : fromAgent[q].waited => q = 1
        /\ tick.at = "stop" /\ Head(fromAgent).value = "unknown" => Gone(tick.id)
        /\ ~NoAnswer
    BY <1>2, <1>6 DEF Tracked, Waits, AnswerWaits, NoAnswer
  <2>2. /\ \A p \in DOMAIN toAgent : ~toAgent[p].waited
        /\ \A a \in admitting : ~a.waited
    BY <2>1 DEF Tracked, Waits, FrameWaits, AdmissionWaits
  <2>3. NoAnswer'
    BY <1>2, <2>1 DEF NoAnswer
  <2>4. CASE /\ UNCHANGED toAgent
             /\ \/ StopAnswered(Head(fromAgent).value)
                \/ tick.at = "start" /\ tick' = [at |-> "admit", todo |-> tick.todo] /\ UNCHANGED <<runRow, slots>>
    <3>1. NobodyWaits'
      BY <1>1, <2>2, <2>3, <2>4 DEF NobodyWaits
    <3>2. AskedOnce' /\ \A j \in Inspections : Asked(j)' = Asked(j) /\ Admitting(j)' = Admitting(j)
      BY <1>1, <1>4, <2>4 DEF AskedOnce, Asked, Admitting
    <3>3. CASE StopAnswered(Head(fromAgent).value)
      <4>1. tick.at = "stop"
        BY <3>3 DEF StopAnswered
      <4> QED  BY <1>1, <1>2, <1>3, <1>4, <2>1, <2>4, <3>1, <3>2, <3>3, <4>1, StopIsOver
    <3>4. CASE tick.at = "start" /\ tick' = [at |-> "admit", todo |-> tick.todo] /\ UNCHANGED <<runRow, slots>>
      <4>1. tick' \in Ticks
        <5>1. tick.todo \in SUBSET Inspections
          BY <1>1, <3>4, TickKinds
        <5> QED  BY <3>4, <5>1 DEF Ticks
      <4>2. Waits' /\ InSlots' = InSlots
        BY <3>1, <3>4, WaitsForNobody DEF InSlots
      <4> QED  BY <1>1, <1>2, <1>3, <1>4, <2>4, <3>2, <3>4, <4>1, <4>2, TrackedStays DEF rowVars
    <3> QED  BY <2>4, <3>3, <3>4
  <2>5. CASE tick.at = "start" /\ Send("stop", tick.id)
             /\ tick' = [at |-> "stop", id |-> tick.id, todo |-> tick.todo, next |-> "admit", status |-> "failed"]
             /\ UNCHANGED <<runRow, slots>>
    <3> PICK id \in Inspections : id = tick.id
      BY <1>1, <2>5, TickKinds
    <3>1. tick' \in Ticks /\ tick'.at = "stop" /\ tick'.id = id
      <4>1. tick.todo \in SUBSET Inspections
        BY <1>1, <2>5, TickKinds
      <4> QED  BY <2>5, <4>1 DEF Ticks
    <3>2. toAgent' = Append(toAgent, [op |-> "stop", id |-> id, waited |-> TRUE]) /\ UNCHANGED rowVars
          /\ slots' \in [Inspections -> SlotRecords] /\ InSlots' = InSlots
      BY <1>1, <2>5 DEF Send, rowVars, InSlots
    <3> QED  BY <1>1, <1>2, <1>3, <2>2, <2>3, <3>1, <3>2, TrackedStops
  <2> QED  BY <1>6, <2>4, <2>5 DEF ReadReply, StartAnswered
<1> QED  BY <1>5, <1>6

\* The reader takes an event, and finishes the run it is of.
LEMMA TrackedEvents ==
  ASSUME Tracked, ReadEvent
  PROVE  Tracked'
<1>1. /\ WatchTyped /\ tick \in Ticks /\ slots \in [Inspections -> SlotRecords] /\ reading = Resting
      /\ fromAgent # <<>> /\ fromAgent' = Tail(fromAgent) /\ toAgent \in Seq(Frames)
      /\ admitting \subseteq [id : Inspections, waited : BOOLEAN] /\ Head(fromAgent).kind = "event"
      /\ UNCHANGED <<clock, rowVars, slots, tick, toAgent, admitting, inspecting, strays>>
  BY DEF ReadEvent, Tracked, WatchTyped
<1>2. /\ fromAgent' \in Seq(Replies \union Events) /\ 1 \in DOMAIN fromAgent /\ Head(fromAgent) = fromAgent[1]
      /\ Head(fromAgent) \in Replies \union Events
      /\ \A p \in DOMAIN fromAgent' :
           p \in Nat /\ p + 1 \in DOMAIN fromAgent /\ p + 1 # 1 /\ fromAgent'[p] = fromAgent[p + 1]
  BY <1>1, ReadFrame
<1>3. Head(fromAgent) \in Events
  BY <1>1, <1>2 DEF Replies
<1>4. Head(fromAgent).id \in Inspections /\ Head(fromAgent).value \in Endings
  BY <1>3 DEF Events
<1>5. reading' = Resting
      \/ reading' = [at |-> "event", id |-> Head(fromAgent).id,
                     status |-> IF slots[Head(fromAgent).id].stopping # "none" THEN "interrupted"
                                ELSE Head(fromAgent).value]
  BY DEF ReadEvent
<1>6. reading' \in Readings /\ (reading'.at = "event" => reading'.id = Head(fromAgent).id)
  <2>1. CASE reading' = Resting
    BY <2>1 DEF Readings, Resting
  <2>2. CASE reading' # Resting
    <3> PICK status : status = IF slots[Head(fromAgent).id].stopping # "none" THEN "interrupted"
                               ELSE Head(fromAgent).value
      OBVIOUS
    <3>1. status \in Endings
      BY <1>4 DEF Endings
    <3>2. reading' = [at |-> "event", id |-> Head(fromAgent).id, status |-> status]
      BY <1>5, <2>2
    <3> QED  BY <1>4, <3>1, <3>2 DEF Readings
  <2> QED  BY <2>1, <2>2
<1>7. \A j \in Inspections : Reported(j)' => Reported(j)
  BY <1>1, <1>2, <1>6 DEF Reported
<1>8. \A j \in Inspections : Asked(j)' = Asked(j) /\ Admitting(j)' = Admitting(j)
  BY <1>1 DEF Asked, Admitting
<1>9. AskedOnce' /\ AdmittedOnce' /\ InSlots' = InSlots
  BY <1>1 DEF Tracked, RunsStand, AskedOnce, AdmittedOnce, InSlots
<1>10. FrameWaits' /\ AdmissionWaits'
  BY <1>1, <1>2 DEF Tracked, Waits, FrameWaits, AdmissionWaits, NoAnswer
<1>11. AnswerWaits'
  <2> SUFFICES ASSUME NEW p \in DOMAIN fromAgent', fromAgent'[p].waited
               PROVE  /\ tick.at \in {"start", "stop"}
                      /\ tick.at = "stop" /\ fromAgent'[p].value = "unknown" => Gone(tick.id)'
                      /\ \A q \in DOMAIN fromAgent' : fromAgent'[q].waited => p = q
    BY <1>1 DEF AnswerWaits
  <2>1. /\ tick.at \in {"start", "stop"}
        /\ tick.at = "stop" /\ fromAgent[p + 1].value = "unknown" => Gone(tick.id)
        /\ \A q \in DOMAIN fromAgent : fromAgent[q].waited => p + 1 = q
    BY <1>2 DEF Tracked, Waits, AnswerWaits
  <2>2. Gone(tick.id) => Gone(tick.id)'
    BY <1>1 DEF Gone, Asked, Admitting
  <2> QED  BY <1>2, <2>1, <2>2
<1> QED  BY <1>1, <1>2, <1>6, <1>7, <1>8, <1>9, <1>10, <1>11, TrackedStays DEF Waits

LEMMA TrackedFinishes ==
  ASSUME Tracked, FinishEvent
  PROVE  Tracked'
<1>1. /\ WatchTyped /\ reading \in Readings /\ reading.at = "event" /\ tick \in Ticks
      /\ fromAgent \in Seq(Replies \union Events)
      /\ reading' = Resting /\ UNCHANGED <<clock, schedule, tick, agentVars>>
      /\ finish(reading.id, reading.status)
  BY DEF FinishEvent, Tracked, WatchTyped
<1>2. reading.id \in Inspections /\ reading.status \in Endings
  BY <1>1 DEF Readings, Resting
<1> PICK id \in Inspections : id = reading.id
  BY <1>2
<1>3. ~AtWork(id)
  <2>1. Reported(id)
    BY <1>1 DEF Reported
  <2> QED  BY <2>1 DEF Tracked, RunsStand, RunStands, AtWork
<1>4. Waits'
  <2>1. FrameWaits' /\ AdmissionWaits'
    BY <1>1 DEF Tracked, Waits, FrameWaits, AdmissionWaits, NoAnswer, agentVars
  <2>2. AnswerWaits'
    BY <1>1 DEF Tracked, Waits, AnswerWaits, Gone, Asked, Admitting, agentVars
  <2> QED  BY <2>1, <2>2 DEF Waits
<1>5. \A j \in Inspections : Reported(j)' => Reported(j)
  BY <1>1 DEF Reported, Resting, agentVars
<1>6. Resting \in Readings /\ tick' \in Ticks /\ fromAgent' \in Seq(Replies \union Events)
      /\ UNCHANGED <<toAgent, admitting, inspecting, strays>>
  BY <1>1 DEF Readings, agentVars
<1> QED  BY <1>1, <1>2, <1>3, <1>4, <1>5, <1>6, TrackedFrees

\* A queue nobody waits for any more.
LEMMA UnwaitedFrames ==
  ASSUME NEW S, NEW q \in Seq(S), \A x \in S : [x EXCEPT !.waited = FALSE] \in S
  PROVE  /\ Unwaited(q) \in Seq(S) /\ DOMAIN Unwaited(q) = DOMAIN q /\ Len(Unwaited(q)) = Len(q)
         /\ \A p \in DOMAIN q : Unwaited(q)[p] = [q[p] EXCEPT !.waited = FALSE]
BY DEF Unwaited

\* A request that failed: what was on its way still is, and nobody waits for it.
LEMMA TrackedFails ==
  ASSUME Tracked, RequestFails
  PROVE  Tracked'
<1>1. /\ WatchTyped /\ tick \in Ticks /\ slots \in [Inspections -> SlotRecords] /\ reading \in Readings
      /\ toAgent \in Seq(Frames) /\ fromAgent \in Seq(Replies \union Events)
      /\ admitting \subseteq [id : Inspections, waited : BOOLEAN]
      /\ admitting' = {[a EXCEPT !.waited = FALSE] : a \in admitting}
      /\ fromAgent' = Unwaited(fromAgent)
      /\ UNCHANGED <<clock, schedule, inspecting, strays, reading>>
  BY DEF RequestFails, Tracked, WatchTyped
<1>2. /\ \A x \in Frames : [x EXCEPT !.waited = FALSE] \in Frames
      /\ \A x \in Replies \union Events : [x EXCEPT !.waited = FALSE] \in Replies \union Events
  BY DEF Frames, Replies, Events
<1>3. /\ fromAgent' \in Seq(Replies \union Events) /\ DOMAIN fromAgent' = DOMAIN fromAgent
      /\ \A p \in DOMAIN fromAgent : fromAgent'[p] = [fromAgent[p] EXCEPT !.waited = FALSE]
  <2>1. /\ Unwaited(fromAgent) \in Seq(Replies \union Events) /\ DOMAIN Unwaited(fromAgent) = DOMAIN fromAgent
        /\ \A p \in DOMAIN fromAgent : Unwaited(fromAgent)[p] = [fromAgent[p] EXCEPT !.waited = FALSE]
    BY <1>1, <1>2, UnwaitedFrames
  <2> QED  BY <1>1, <2>1
<1>4. /\ Unwaited(toAgent) \in Seq(Frames) /\ DOMAIN Unwaited(toAgent) = DOMAIN toAgent
      /\ Len(Unwaited(toAgent)) = Len(toAgent)
      /\ \A p \in DOMAIN toAgent : Unwaited(toAgent)[p] = [toAgent[p] EXCEPT !.waited = FALSE]
  BY <1>1, <1>2, UnwaitedFrames
<1>5. \A p \in DOMAIN toAgent : LET x == Unwaited(toAgent)[p] IN
        x.op = toAgent[p].op /\ x.id = toAgent[p].id /\ ~x.waited
  <2>1. \A x \in Frames : LET y == [x EXCEPT !.waited = FALSE] IN y.op = x.op /\ y.id = x.id /\ ~y.waited
    BY DEF Frames
  <2>2. \A p \in DOMAIN toAgent : toAgent[p] \in Frames
    BY <1>1, QueuedFrame
  <2> QED  BY <1>4, <2>1, <2>2
<1>6. \A p \in DOMAIN fromAgent :
        fromAgent'[p].kind = fromAgent[p].kind /\ fromAgent'[p].id = fromAgent[p].id /\ ~fromAgent'[p].waited
  <2>1. \A x \in Replies \union Events : LET y == [x EXCEPT !.waited = FALSE] IN
          y.kind = x.kind /\ y.id = x.id /\ ~y.waited
    BY DEF Replies, Events
  <2>2. \A p \in DOMAIN fromAgent : fromAgent[p] \in Replies \union Events
    BY <1>1, QueuedFrame
  <2> QED  BY <1>3, <2>1, <2>2
<1>7. /\ admitting' \subseteq [id : Inspections, waited : BOOLEAN] /\ \A a \in admitting' : ~a.waited
      /\ \A j \in Inspections : Admitting(j)' => Admitting(j)
      /\ AdmittedOnce'
  <2>1. \A a \in admitting : LET y == [a EXCEPT !.waited = FALSE] IN
          y \in [id : Inspections, waited : BOOLEAN] /\ y.id = a.id /\ ~y.waited
    BY <1>1
  <2>2. \A b \in admitting' : \E a \in admitting : b = [a EXCEPT !.waited = FALSE]
    BY <1>1
  <2> QED  BY <2>1, <2>2 DEF Admitting, AdmittedOnce, Tracked, RunsStand
<1>8. NoAnswer' /\ \A j \in Inspections : Reported(j)' => Reported(j)
  BY <1>1, <1>3, <1>6 DEF NoAnswer, Reported
<1>9. CASE StopAnswered("error") /\ toAgent' = Unwaited(toAgent)
  <2>1. /\ toAgent' \in Seq(Frames) /\ DOMAIN toAgent' = DOMAIN toAgent
        /\ \A p \in DOMAIN toAgent :
             toAgent'[p].op = toAgent[p].op /\ toAgent'[p].id = toAgent[p].id /\ ~toAgent'[p].waited
    BY <1>4, <1>5, <1>9
  <2>2. AskedOnce' /\ \A j \in Inspections : Asked(j)' => Asked(j)
    BY <2>1 DEF AskedOnce, Asked, Tracked, RunsStand
  <2>3. NobodyWaits'
    BY <1>7, <1>8, <2>1 DEF NobodyWaits
  <2> QED  BY <1>1, <1>3, <1>7, <1>8, <1>9, <2>1, <2>2, <2>3, StopIsOver
<1>10. CASE /\ tick.at = "start"
            /\ LET stop == [op |-> "stop", id |-> tick.id, waited |-> FALSE] IN
               toAgent' = Unwaited(toAgent) \o <<stop, [stop EXCEPT !.waited = TRUE]>>
            /\ tick' = [at |-> "stop", id |-> tick.id, todo |-> tick.todo, next |-> "admit", status |-> "failed"]
            /\ UNCHANGED <<runRow, slots>>
  <2>1. tick.id \in Inspections /\ tick.todo \in SUBSET Inspections
    BY <1>1, <1>10, TickKinds
  <2> PICK id \in Inspections : id = tick.id
    BY <2>1
  <2>2. tick' \in Ticks /\ tick'.at = "stop" /\ tick'.id = id
    BY <1>10, <2>1 DEF Ticks
  <2> DEFINE cancel == [op |-> "stop", id |-> id, waited |-> FALSE]
             stop == [cancel EXCEPT !.waited = TRUE]
  <2>3. /\ cancel \in Frames /\ cancel.op = "stop" /\ ~cancel.waited
        /\ stop \in Frames /\ stop.op = "stop" /\ stop.id = id
        /\ toAgent' = Unwaited(toAgent) \o <<cancel, stop>>
    <3>1. toAgent' = Unwaited(toAgent) \o <<cancel, stop>>
      BY <1>10, Zenon
    <3>2. cancel \in Frames /\ cancel.op = "stop" /\ ~cancel.waited
      BY DEF Frames
    <3>3. stop \in Frames /\ stop.op = "stop" /\ stop.id = id
      BY DEF Frames
    <3> QED  BY <3>1, <3>2, <3>3
  <2> HIDE DEF cancel, stop
  <2> DEFINE q == Unwaited(toAgent)
             n == Len(toAgent)
  <2>4. n \in Nat /\ q \in Seq(Frames) /\ Len(q) = n /\ DOMAIN toAgent = 1..n
    BY <1>1, <1>4, QueuedFrame
  <2>5. /\ q \o <<cancel, stop>> \in Seq(Frames) /\ Len(q \o <<cancel, stop>>) = n + 2
        /\ DOMAIN (q \o <<cancel, stop>>) = 1..(n + 2)
        /\ \A p \in 1..n : (q \o <<cancel, stop>>)[p] = q[p]
        /\ (q \o <<cancel, stop>>)[n + 1] = cancel /\ (q \o <<cancel, stop>>)[n + 2] = stop
    <3> HIDE DEF q, n
    <3> QED  BY <2>3, <2>4, TwoMoreFrames
  <2>6. /\ toAgent' \in Seq(Frames) /\ Len(toAgent') = n + 2 /\ DOMAIN toAgent' = 1..(n + 2)
        /\ \A p \in DOMAIN toAgent : p \in DOMAIN toAgent' /\ toAgent'[p] = q[p]
        /\ toAgent'[n + 1] = cancel /\ toAgent'[n + 2] = stop
        /\ \A p \in DOMAIN toAgent' : p \in DOMAIN toAgent \/ p = n + 1 \/ p = n + 2
    <3>1. toAgent' = q \o <<cancel, stop>>
      BY <2>3
    <3> HIDE DEF q, n
    <3>2. /\ toAgent' \in Seq(Frames) /\ Len(toAgent') = n + 2 /\ DOMAIN toAgent' = 1..(n + 2)
          /\ \A p \in 1..n : toAgent'[p] = q[p]
          /\ toAgent'[n + 1] = cancel /\ toAgent'[n + 2] = stop
      BY <2>5, <3>1, Zenon
    <3> QED  BY <2>4, <3>2
  <2>7. \A p \in DOMAIN toAgent' :
          \/ /\ p \in DOMAIN toAgent /\ toAgent'[p].op = toAgent[p].op /\ toAgent'[p].id = toAgent[p].id
             /\ ~toAgent'[p].waited
          \/ p = n + 1 /\ toAgent'[p].op = "stop" /\ ~toAgent'[p].waited
          \/ p = n + 2 /\ toAgent'[p].op = "stop" /\ toAgent'[p].id = id
    <3> HIDE DEF n
    <3> QED  BY <1>5, <2>3, <2>6
  <2>8. AskedOnce' /\ \A j \in Inspections : Asked(j)' => Asked(j)
    BY <2>7 DEF AskedOnce, Asked, Tracked, RunsStand
  <2>9. Waits'
    BY <1>7, <1>8, <2>2, <2>6, <2>7 DEF Waits, FrameWaits, AdmissionWaits, AnswerWaits, NoAnswer
  <2>10. slots' \in [Inspections -> SlotRecords] /\ InSlots' = InSlots /\ UNCHANGED rowVars /\ reading' \in Readings
    BY <1>1, <1>10 DEF InSlots, rowVars
  <2> QED  BY <1>1, <1>3, <1>7, <1>8, <2>2, <2>6, <2>8, <2>9, <2>10, TrackedStays
<1> QED  BY <1>9, <1>10 DEF RequestFails

\* The Agent takes a start, which reserves the run, or answers a stop.
LEMMA TrackedTakes ==
  ASSUME Tracked, AgentTakes
  PROVE  Tracked'
<1> PICK f : f = Head(toAgent)
  OBVIOUS
<1>1. /\ WatchTyped /\ tick \in Ticks /\ slots \in [Inspections -> SlotRecords] /\ reading \in Readings
      /\ toAgent \in Seq(Frames) /\ fromAgent \in Seq(Replies \union Events) /\ toAgent # <<>>
      /\ admitting \subseteq [id : Inspections, waited : BOOLEAN] /\ toAgent' = Tail(toAgent)
      /\ UNCHANGED <<clock, rowVars, slots, tick, inspecting, reading>>
      /\ \A j \in Inspections : RunStands(j)
      /\ AskedOnce /\ AdmittedOnce
  BY DEF AgentTakes, Tracked, WatchTyped, RunsStand
<1>2. /\ toAgent' \in Seq(Frames) /\ Len(toAgent) \in Nat \ {0} /\ Len(toAgent') = Len(toAgent) - 1
      /\ f = toAgent[1] /\ f \in Frames /\ 1 \in DOMAIN toAgent
      /\ \A p \in DOMAIN toAgent' :
           p \in Nat /\ p + 1 \in DOMAIN toAgent /\ p + 1 # 1 /\ toAgent'[p] = toAgent[p + 1]
  <2>1. /\ Tail(toAgent) \in Seq(Frames) /\ Len(toAgent) \in Nat \ {0} /\ Len(Tail(toAgent)) = Len(toAgent) - 1
        /\ Head(toAgent) = toAgent[1] /\ toAgent[1] \in Frames /\ 1 \in DOMAIN toAgent
        /\ \A p \in DOMAIN Tail(toAgent) : p \in Nat /\ p + 1 \in DOMAIN toAgent /\ p + 1 # 1
                                           /\ Tail(toAgent)[p] = toAgent[p + 1]
    BY <1>1, TakenFrame
  <2> QED  BY <1>1, <2>1
<1>3. f.id \in Inspections /\ f.waited \in BOOLEAN /\ f.op \in {"start", "stop"}
  BY <1>2 DEF Frames
<1>4. AskedOnce' /\ \A j \in Inspections : Asked(j)' => Asked(j)
  BY <1>1, <1>2 DEF AskedOnce, Asked
\* A frame that is waited for was the only one.
<1>5. f.waited => /\ \A p \in DOMAIN toAgent' : FALSE
                  /\ tick.at = f.op /\ tick.id = f.id /\ NoAnswer /\ \A a \in admitting : ~a.waited
  <2>1. f.waited => /\ Len(toAgent) = 1
                    /\ tick.at = f.op /\ tick.id = f.id /\ NoAnswer /\ \A a \in admitting : ~a.waited
    BY <1>2 DEF Tracked, Waits, FrameWaits
  <2>2. DOMAIN toAgent' = 1..Len(toAgent')
    BY <1>2, QueuedFrame
  <2>3. f.waited => DOMAIN toAgent' = 1..0
    BY <1>2, <2>1, <2>2
  <2> QED  BY <2>1, <2>3
\* The frames behind keep their claims.
<1>6. \A p \in DOMAIN toAgent' : toAgent'[p].waited =>
        /\ p = Len(toAgent') /\ tick.at = toAgent'[p].op /\ tick.id = toAgent'[p].id
        /\ NoAnswer /\ (\A a \in admitting : ~a.waited) /\ ~f.waited
  BY <1>2, <1>5 DEF Tracked, Waits, FrameWaits
<1>7. InSlots' = InSlots /\ SlotsApart'
  <2>1. InSlots' = InSlots
    BY <1>1 DEF InSlots
  <2> QED  BY <2>1, ApartKeeps DEF Tracked
<1>8. CASE /\ f.op = "start" /\ admitting' = admitting \union {[id |-> f.id, waited |-> f.waited]}
           /\ UNCHANGED <<fromAgent, strays>>
  <2> DEFINE new == [id |-> f.id, waited |-> f.waited]
  <2>1. new \in [id : Inspections, waited : BOOLEAN] /\ new.id = f.id /\ new.waited = f.waited
        /\ admitting' = admitting \union {new}
    BY <1>3, <1>8
  <2> HIDE DEF new
  <2>2. WatchTyped'
    BY <1>1, <1>2, <1>8, <2>1 DEF WatchTyped, rowVars
  <2>3. Asked(f.id) /\ ~Asked(f.id)'
    <3>1. Asked(f.id)
      BY <1>2, <1>8 DEF Asked
    <3>2. \A p \in DOMAIN toAgent' : toAgent'[p].op = "start" => toAgent'[p].id # f.id
      BY <1>1, <1>2, <1>8 DEF AskedOnce
    <3> QED  BY <3>1, <3>2 DEF Asked
  <2>4. \A j \in Inspections : Reported(j)' = Reported(j) /\ (Admitting(j)' => Admitting(j) \/ j = f.id)
    BY <1>1, <1>8, <2>1 DEF Reported, Admitting
  <2>5. ASSUME NEW j \in Inspections PROVE RunStands(j)'
    <3>1. CASE j = f.id
      BY <1>1, <1>3, <1>7, <1>8, <2>3, <2>4, <3>1 DEF RunStands, AtWork, rowVars
    <3>2. CASE j # f.id
      BY <1>1, <1>4, <1>7, <1>8, <2>4, <3>2 DEF RunStands, AtWork, rowVars
    <3> QED  BY <3>1, <3>2
  <2>6. ~Admitting(f.id)
    BY <1>1, <1>3, <2>3 DEF RunStands
  <2>7. AdmittedOnce'
    BY <1>1, <2>1, <2>6 DEF AdmittedOnce, Admitting
  <2>8. NoAnswer' = NoAnswer
    BY <1>8 DEF NoAnswer
  <2>9. FrameWaits'
    BY <1>1, <1>6, <2>1, <2>8 DEF FrameWaits
  <2>10. AdmissionWaits'
    BY <1>1, <1>5, <1>8, <2>1, <2>8 DEF AdmissionWaits, Tracked, Waits
  <2>11. AnswerWaits'
    <3> SUFFICES ASSUME NEW p \in DOMAIN fromAgent, fromAgent[p].waited
                 PROVE  /\ tick.at \in {"start", "stop"}
                        /\ tick.at = "stop" /\ fromAgent[p].value = "unknown" => Gone(tick.id)'
                        /\ \A q \in DOMAIN fromAgent : fromAgent[q].waited => p = q
      BY <1>1, <1>8 DEF AnswerWaits
    <3>1. /\ tick.at \in {"start", "stop"}
          /\ tick.at = "stop" /\ fromAgent[p].value = "unknown" => Gone(tick.id)
          /\ \A q \in DOMAIN fromAgent : fromAgent[q].waited => p = q
      BY DEF Tracked, Waits, AnswerWaits
    <3>2. ASSUME tick.at = "stop", Gone(tick.id) PROVE Gone(tick.id)'
      <4>1. tick.id \in Inspections /\ tick.id # f.id
        BY <1>1, <2>3, <3>2, TickKinds DEF Gone
      <4> PICK x \in Inspections : x = tick.id
        BY <4>1
      <4>2. ~Asked(x)' /\ (Admitting(x)' => Admitting(x))
        BY <1>4, <2>4, <3>2, <4>1 DEF Gone
      <4>3. Gone(x)'
        BY <1>1, <1>8, <3>2, <4>2 DEF Gone
      <4> QED  BY <1>1, <4>3 DEF Gone
    <3> QED  BY <3>1, <3>2
  <2> QED  BY <1>4, <1>7, <2>2, <2>5, <2>7, <2>9, <2>10, <2>11 DEF Tracked, RunsStand, Waits
<1>9. CASE /\ f.op = "stop" /\ Say(Reply(IF f.id \in inspecting THEN "accepted" ELSE "unknown", f.waited))
           /\ strays' = strays \union ({f.id} \cap {a.id : a \in admitting}) /\ UNCHANGED admitting
  <2> DEFINE e == Reply(IF f.id \in inspecting THEN "accepted" ELSE "unknown", f.waited)
  <2>1. /\ e \in Replies \union Events /\ e.kind = "reply" /\ e.waited = f.waited
        /\ e.value = "unknown" => f.id \notin inspecting
        /\ fromAgent' = Append(fromAgent, e)
    BY <1>3, <1>9 DEF Reply, Replies, Say
  <2> HIDE DEF e
  <2> DEFINE n == Len(fromAgent)
  <2>2. /\ fromAgent' \in Seq(Replies \union Events) /\ n \in Nat /\ fromAgent'[n + 1] = e
        /\ \A p \in DOMAIN fromAgent : p # n + 1 /\ fromAgent'[p] = fromAgent[p]
        /\ \A p \in DOMAIN fromAgent' : p = n + 1 \/ p \in DOMAIN fromAgent
    <3>1. /\ Append(fromAgent, e) \in Seq(Replies \union Events) /\ Len(fromAgent) \in Nat
          /\ Append(fromAgent, e)[Len(fromAgent) + 1] = e
          /\ \A p \in DOMAIN fromAgent : p # Len(fromAgent) + 1 /\ Append(fromAgent, e)[p] = fromAgent[p]
          /\ \A p \in DOMAIN Append(fromAgent, e) : p = Len(fromAgent) + 1 \/ p \in DOMAIN fromAgent
      BY <1>1, <2>1, SentFrame
    <3> QED  BY <2>1, <3>1
  <2> HIDE DEF n
  <2>3. WatchTyped'
    BY <1>1, <1>2, <1>9, <2>2 DEF WatchTyped, rowVars
  <2>4. \A j \in Inspections : (Reported(j)' => Reported(j)) /\ Admitting(j)' = Admitting(j)
    BY <1>1, <1>9, <2>1, <2>2 DEF Reported, Admitting
  <2>5. strays \subseteq strays' /\ (Admitting(f.id) => f.id \in strays')
    BY <1>9 DEF Admitting
  <2>6. AdmittedOnce'
    BY <1>1, <1>9 DEF AdmittedOnce
  <2>7. RunsStand'
    BY <1>1, <1>4, <1>7, <2>4, <2>5, <2>6, RunsKeep DEF Tracked, rowVars
  <2>8. FrameWaits'
    BY <1>1, <1>6, <1>9, <2>1, <2>2 DEF FrameWaits, NoAnswer
  <2>9. AdmissionWaits'
    BY <1>1, <1>5, <1>9, <2>1, <2>2 DEF AdmissionWaits, NoAnswer, Tracked, Waits
  <2>10. ASSUME NEW j \in Inspections, Gone(j) PROVE Gone(j)'
    BY <1>1, <1>4, <1>9, <2>4, <2>5, <2>10 DEF Gone
  <2>11. AnswerWaits'
    <3> SUFFICES ASSUME NEW p \in DOMAIN fromAgent', fromAgent'[p].waited
                 PROVE  /\ tick.at \in {"start", "stop"}
                        /\ tick.at = "stop" /\ fromAgent'[p].value = "unknown" => Gone(tick.id)'
                        /\ \A q \in DOMAIN fromAgent' : fromAgent'[q].waited => p = q
      BY <1>1 DEF AnswerWaits
    <3>1. CASE f.waited
      <4>1. tick.at = "stop" /\ tick.id = f.id /\ p = n + 1
            /\ \A q \in DOMAIN fromAgent' : fromAgent'[q].waited => q = n + 1
        BY <1>5, <1>9, <2>1, <2>2, <3>1 DEF NoAnswer
      <4>2. ASSUME e.value = "unknown" PROVE Gone(f.id)'
        <5>1. ~Asked(f.id)'
          BY <1>5, <3>1 DEF Asked
        <5> QED  BY <1>1, <1>3, <2>1, <2>4, <2>5, <4>2, <5>1 DEF Gone
      <4>3. e.value = "unknown" => Gone(tick.id)'
        BY <1>1, <4>1, <4>2 DEF Gone
      <4> QED  BY <2>2, <4>1, <4>3
    <3>2. CASE ~f.waited
      <4>1. p \in DOMAIN fromAgent /\ fromAgent[p].waited /\ fromAgent'[p] = fromAgent[p]
            /\ \A q \in DOMAIN fromAgent' : fromAgent'[q].waited => q \in DOMAIN fromAgent /\ fromAgent[q].waited
        BY <2>1, <2>2, <3>2
      <4>2. /\ tick.at \in {"start", "stop"}
            /\ tick.at = "stop" /\ fromAgent[p].value = "unknown" => Gone(tick.id)
            /\ \A q \in DOMAIN fromAgent : fromAgent[q].waited => p = q
        BY <4>1 DEF Tracked, Waits, AnswerWaits
      <4>3. tick.at = "stop" => tick.id \in Inspections
        BY <1>1, TickKinds
      <4>4. ASSUME tick.at = "stop", Gone(tick.id) PROVE Gone(tick.id)'
        <5> PICK x \in Inspections : x = tick.id
          BY <4>3, <4>4
        <5>1. Gone(x)'
          BY <2>10, <4>4
        <5> QED  BY <1>1, <5>1 DEF Gone
      <4> QED  BY <4>1, <4>2, <4>4
    <3> QED  BY <3>1, <3>2
  <2> QED  BY <1>7, <2>3, <2>7, <2>8, <2>9, <2>11 DEF Tracked, Waits
<1> QED  BY <1>8, <1>9 DEF AgentTakes

\* A run that was being admitted gets its task, or is refused.
LEMMA TrackedAdmissions ==
  ASSUME Tracked, NEW a \in admitting, NEW admitted \in BOOLEAN, AgentAdmits(a, admitted)
  PROVE  Tracked'
<1>1. /\ WatchTyped /\ tick \in Ticks /\ toAgent \in Seq(Frames) /\ fromAgent \in Seq(Replies \union Events)
      /\ admitting \subseteq [id : Inspections, waited : BOOLEAN] /\ admitting' = admitting \ {a}
      /\ UNCHANGED <<clock, rowVars, slots, tick, toAgent, strays, reading>>
      /\ \A j \in Inspections : RunStands(j)
      /\ AskedOnce /\ AdmittedOnce
  BY DEF AgentAdmits, Tracked, WatchTyped, RunsStand
<1> PICK id \in Inspections : id = a.id
  BY <1>1
<1>2. a.waited \in BOOLEAN /\ inspecting' \in {inspecting, inspecting \union {id}}
  BY <1>1 DEF AgentAdmits
<1> DEFINE e == Reply(IF admitted THEN "started" ELSE "error", a.waited)
<1>3. /\ e \in Replies \union Events /\ e.kind = "reply" /\ e.waited = a.waited /\ e.value # "unknown"
      /\ fromAgent' = Append(fromAgent, e)
  BY <1>2 DEF AgentAdmits, Reply, Replies, Say
<1> HIDE DEF e
<1> DEFINE n == Len(fromAgent)
<1>4. /\ fromAgent' \in Seq(Replies \union Events) /\ n \in Nat /\ fromAgent'[n + 1] = e
      /\ \A p \in DOMAIN fromAgent : p # n + 1 /\ fromAgent'[p] = fromAgent[p]
      /\ \A p \in DOMAIN fromAgent' : p = n + 1 \/ p \in DOMAIN fromAgent
  <2>1. /\ Append(fromAgent, e) \in Seq(Replies \union Events) /\ Len(fromAgent) \in Nat
        /\ Append(fromAgent, e)[Len(fromAgent) + 1] = e
        /\ \A p \in DOMAIN fromAgent : p # Len(fromAgent) + 1 /\ Append(fromAgent, e)[p] = fromAgent[p]
        /\ \A p \in DOMAIN Append(fromAgent, e) : p = Len(fromAgent) + 1 \/ p \in DOMAIN fromAgent
    BY <1>1, <1>3, SentFrame
  <2> QED  BY <1>3, <2>1
<1> HIDE DEF n
<1>5. WatchTyped'
  BY <1>1, <1>2, <1>4 DEF WatchTyped, rowVars
<1>6. /\ Admitting(id) /\ ~Admitting(id)'
      /\ \A j \in Inspections : /\ j # id => Admitting(j)' = Admitting(j)
                                /\ Asked(j)' = Asked(j) /\ (Reported(j)' => Reported(j))
  <2>1. Admitting(id) /\ ~Admitting(id)' /\ \A j \in Inspections : j # id => Admitting(j)' = Admitting(j)
    BY <1>1 DEF Admitting, AdmittedOnce
  <2>2. \A j \in Inspections : Asked(j)' = Asked(j) /\ (Reported(j)' => Reported(j))
    BY <1>1, <1>3, <1>4 DEF Asked, Reported
  <2> QED  BY <2>1, <2>2
<1>7. InSlots' = InSlots /\ SlotsApart'
  <2>1. InSlots' = InSlots
    BY <1>1 DEF InSlots
  <2> QED  BY <2>1, ApartKeeps DEF Tracked
<1>8. ASSUME NEW j \in Inspections PROVE RunStands(j)'
  <2>1. CASE j = id
    BY <1>1, <1>2, <1>6, <1>7, <2>1 DEF RunStands, AtWork, rowVars
  <2>2. CASE j # id
    BY <1>1, <1>2, <1>6, <1>7, <2>2 DEF RunStands, AtWork, rowVars
  <2> QED  BY <2>1, <2>2
<1>9. AskedOnce' /\ AdmittedOnce'
  BY <1>1 DEF AskedOnce, AdmittedOnce
<1>10. FrameWaits'
  BY <1>1, <1>3, <1>4 DEF FrameWaits, NoAnswer, Tracked, Waits
<1>11. a.waited => /\ tick.at = "start" /\ NoAnswer /\ \A b \in admitting' : ~b.waited
  BY <1>1 DEF AdmissionWaits, AdmittedOnce, Tracked, Waits
<1>12. AdmissionWaits'
  BY <1>1, <1>3, <1>4, <1>11 DEF AdmissionWaits, NoAnswer, Tracked, Waits
<1>13. ASSUME NEW j \in Inspections, Gone(j) PROVE Gone(j)'
  <2>1. CASE j = id
    BY <1>1, <1>6, <1>13, <2>1 DEF Gone
  <2>2. CASE j # id
    BY <1>1, <1>2, <1>6, <1>13, <2>2 DEF Gone
  <2> QED  BY <2>1, <2>2
<1>14. AnswerWaits'
  <2> SUFFICES ASSUME NEW p \in DOMAIN fromAgent', fromAgent'[p].waited
               PROVE  /\ tick.at \in {"start", "stop"}
                      /\ tick.at = "stop" /\ fromAgent'[p].value = "unknown" => Gone(tick.id)'
                      /\ \A q \in DOMAIN fromAgent' : fromAgent'[q].waited => p = q
    BY <1>1 DEF AnswerWaits
  <2>1. CASE a.waited
    BY <1>3, <1>4, <1>11, <2>1 DEF NoAnswer
  <2>2. CASE ~a.waited
    <3>1. p \in DOMAIN fromAgent /\ fromAgent[p].waited /\ fromAgent'[p] = fromAgent[p]
          /\ \A q \in DOMAIN fromAgent' : fromAgent'[q].waited => q \in DOMAIN fromAgent /\ fromAgent[q].waited
      BY <1>3, <1>4, <2>2
    <3>2. /\ tick.at \in {"start", "stop"}
          /\ tick.at = "stop" /\ fromAgent[p].value = "unknown" => Gone(tick.id)
          /\ \A q \in DOMAIN fromAgent : fromAgent[q].waited => p = q
      BY <3>1 DEF Tracked, Waits, AnswerWaits
    <3>3. ASSUME tick.at = "stop", Gone(tick.id) PROVE Gone(tick.id)'
      <4> PICK x \in Inspections : x = tick.id
        BY <1>1, <3>3, TickKinds
      <4>1. Gone(x)'
        BY <1>13, <3>3
      <4> QED  BY <1>1, <4>1 DEF Gone
    <3> QED  BY <3>1, <3>2, <3>3
  <2> QED  BY <2>1, <2>2
<1> QED  BY <1>5, <1>7, <1>8, <1>9, <1>10, <1>12, <1>14 DEF Tracked, RunsStand, Waits

\* An inspection ends; its event is on its way.
LEMMA TrackedEnds ==
  ASSUME Tracked, NEW id \in inspecting, NEW how \in Endings, AgentEnds(id, how)
  PROVE  Tracked'
<1>1. /\ WatchTyped /\ tick \in Ticks /\ fromAgent \in Seq(Replies \union Events) /\ id \in Inspections
      /\ inspecting' = inspecting \ {id}
      /\ UNCHANGED <<clock, rowVars, slots, tick, toAgent, admitting, strays, reading>>
      /\ \A j \in Inspections : RunStands(j)
      /\ AskedOnce /\ AdmittedOnce
  BY DEF AgentEnds, Tracked, WatchTyped, RunsStand
<1> DEFINE e == [kind |-> "event", id |-> id, value |-> how, waited |-> FALSE]
<1>2. /\ e \in Replies \union Events /\ e.id = id /\ ~e.waited /\ fromAgent' = Append(fromAgent, e)
  BY <1>1 DEF AgentEnds, Events, Say
<1> HIDE DEF e
<1> DEFINE n == Len(fromAgent)
<1>3. /\ fromAgent' \in Seq(Replies \union Events) /\ n \in Nat /\ fromAgent'[n + 1] = e
      /\ \A p \in DOMAIN fromAgent : p # n + 1 /\ fromAgent'[p] = fromAgent[p]
      /\ \A p \in DOMAIN fromAgent' : p = n + 1 \/ p \in DOMAIN fromAgent
  <2>1. /\ Append(fromAgent, e) \in Seq(Replies \union Events) /\ Len(fromAgent) \in Nat
        /\ Append(fromAgent, e)[Len(fromAgent) + 1] = e
        /\ \A p \in DOMAIN fromAgent : p # Len(fromAgent) + 1 /\ Append(fromAgent, e)[p] = fromAgent[p]
        /\ \A p \in DOMAIN Append(fromAgent, e) : p = Len(fromAgent) + 1 \/ p \in DOMAIN fromAgent
    BY <1>1, <1>2, SentFrame
  <2> QED  BY <1>2, <2>1
<1> HIDE DEF n
<1>4. WatchTyped'
  BY <1>1, <1>3 DEF WatchTyped, rowVars
<1>5. \A j \in Inspections : /\ Asked(j)' = Asked(j) /\ Admitting(j)' = Admitting(j)
                             /\ Reported(j)' => Reported(j) \/ j = id
  BY <1>1, <1>2, <1>3 DEF Asked, Admitting, Reported
<1>6. InSlots' = InSlots /\ SlotsApart'
  <2>1. InSlots' = InSlots
    BY <1>1 DEF InSlots
  <2> QED  BY <2>1, ApartKeeps DEF Tracked
<1>7. ASSUME NEW j \in Inspections PROVE RunStands(j)'
  <2>1. CASE j = id
    BY <1>1, <1>5, <1>6, <2>1 DEF RunStands, AtWork, rowVars
  <2>2. CASE j # id
    BY <1>1, <1>5, <1>6, <2>2 DEF RunStands, AtWork, rowVars
  <2> QED  BY <2>1, <2>2
<1>8. AskedOnce' /\ AdmittedOnce'
  BY <1>1 DEF AskedOnce, AdmittedOnce
<1>9. NoAnswer' <=> NoAnswer
  BY <1>2, <1>3 DEF NoAnswer
<1>10. FrameWaits' /\ AdmissionWaits'
  BY <1>1, <1>9 DEF FrameWaits, AdmissionWaits, Tracked, Waits
<1>11. AnswerWaits'
  <2>1. \A p \in DOMAIN fromAgent' : fromAgent'[p].waited =>
          p \in DOMAIN fromAgent /\ fromAgent[p].waited /\ fromAgent'[p] = fromAgent[p]
    BY <1>2, <1>3
  <2> QED  BY <1>1, <2>1 DEF AnswerWaits, Gone, Asked, Admitting, Tracked, Waits
<1> QED  BY <1>4, <1>6, <1>7, <1>8, <1>10, <1>11 DEF Tracked, RunsStand, Waits

\* The Agent ends, by itself or with the host, and nothing is on its way any more.
LEMMA TrackedDies ==
  ASSUME Tracked, AgentDies \/ WatchHostEnds
  PROVE  Tracked'
<1>1. /\ toAgent' = <<>> /\ fromAgent' = <<>> /\ admitting' = {} /\ inspecting' = {}
      /\ UNCHANGED <<clock, rowVars, strays>> /\ reading' = Resting /\ tick' = Resting
      /\ slots' = slots \/ slots' = [id \in Inspections |-> NoSlot]
  BY DEF AgentDies, WatchHostEnds
<1>2. /\ <<>> \in Seq(Frames) /\ <<>> \in Seq(Replies \union Events) /\ Resting \in Readings /\ Resting \in Ticks
      /\ Resting.at = "rest" /\ NoSlot \in SlotRecords
  BY DEF Readings, Ticks, Resting, SlotRecords
<1>3. WatchTyped'
  BY <1>1, <1>2 DEF Tracked, WatchTyped, rowVars
<1>4. \A j \in Inspections : ~AtWork(j)' /\ ~Reported(j)'
  BY <1>1, <1>2 DEF AtWork, Asked, Admitting, Reported
<1>5. RunsStand'
  BY <1>1, <1>4 DEF RunsStand, RunStands, AtWork, AskedOnce, AdmittedOnce
<1>6. SlotsApart'
  <2>1. InSlots' \subseteq InSlots
    BY <1>1 DEF InSlots
  <2> QED  BY <2>1, ApartKeeps DEF Tracked
<1>7. Waits'
  BY <1>1 DEF Waits, FrameWaits, AdmissionWaits, AnswerWaits
<1> QED  BY <1>3, <1>5, <1>6, <1>7 DEF Tracked

LEMMA TrackedInit == WatchInit => Tracked
<1> SUFFICES ASSUME WatchInit PROVE Tracked
  OBVIOUS
<1>1. /\ <<>> \in Seq(Frames) /\ <<>> \in Seq(Replies \union Events) /\ Resting \in Readings /\ Resting \in Ticks
      /\ Resting.at = "rest" /\ NoSlot \in SlotRecords
  BY DEF Readings, Ticks, Resting, SlotRecords
<1>2. WatchTyped
  BY <1>1, WatchAssumption DEF WatchInit, WatchTyped, RowStates
<1>3. RunsStand
  BY <1>1 DEF WatchInit, RunsStand, RunStands, AtWork, Asked, Admitting, Reported, AskedOnce, AdmittedOnce
<1>4. SlotsApart
  BY DEF WatchInit, SlotsApart, InSlots
<1>5. Waits
  BY DEF WatchInit, Waits, FrameWaits, AdmissionWaits, AnswerWaits
<1> QED  BY <1>2, <1>3, <1>4, <1>5 DEF Tracked

LEMMA TrackedNext == Tracked /\ [WatchNext]_watchVars => Tracked'
<1> SUFFICES ASSUME Tracked, [WatchNext]_watchVars PROVE Tracked'
  OBVIOUS
<1>1. CASE UNCHANGED watchVars
  BY <1>1, TrackedStutters DEF watchVars
<1>2. CASE \/ \E s \in Schedules :
                \/ CreateSchedule(s)
                \/ \E status \in {"active", "paused", "revoked"}, next \in {schedule[s].next, clock} :
                     UpdateSchedule(s, status, next)
           \/ \E t \in WatchTasks, to \in {"runnable", "held", "ended"} : TaskMoves(t, to)
           \/ TickCommand \/ BeginTick \/ ClaimDue \/ EndTick \/ Passes
  BY <1>2, TrackedCommands
<1>3. CASE tick.at = "check" /\ \E id \in tick.todo : CheckSlot(id)
  BY <1>3, TrackedChecks
<1>4. CASE tick.at = "admit" /\ \E id \in tick.todo, other \in BOOLEAN : Admit(id, other)
  BY <1>4, TrackedAdmits
<1>5. CASE \/ AgentTakes \/ AgentDies \/ WatchHostEnds
           \/ \E a \in admitting, b \in BOOLEAN : AgentAdmits(a, b)
           \/ \E id \in inspecting, how \in Endings : AgentEnds(id, how)
  BY <1>5, TrackedTakes, TrackedDies, TrackedAdmissions, TrackedEnds
<1>6. CASE ReadReply \/ ReadEvent \/ FinishEvent \/ RequestFails
  BY <1>6, TrackedReplies, TrackedEvents, TrackedFinishes, TrackedFails
<1> QED  BY <1>1, <1>2, <1>3, <1>4, <1>5, <1>6, Zenon DEF WatchNext, Endings

\* Slots, rows, the frames on their way and the Agent's runs fit together in every state.
THEOREM TrackedInvariant == WatchSpec => []Tracked
BY TrackedInit, TrackedNext, PTL DEF WatchSpec

\* Every way to write a row leaves the rows that have ended.
LEMMA EndStays ==
  ASSUME Tracked, WatchNext PROVE EndsOnce
<1>1. runRow \in [Inspections -> RowStates]
  BY DEF Tracked, WatchTyped
<1>2. ASSUME UNCHANGED runRow PROVE EndsOnce
  BY <1>2 DEF EndsOnce
<1>3. ASSUME NEW id, NEW status, EndRow(id, status) PROVE EndsOnce
  BY <1>1, <1>3 DEF EndRow, TakesEnd, EndsOnce
<1>4. ASSUME NEW id, NEW status, finish(id, status) PROVE EndsOnce
  BY <1>2, <1>3, <1>4 DEF finish
<1>5. ASSUME NEW value, StopAnswered(value) PROVE EndsOnce
  BY <1>2, <1>4, <1>5 DEF StopAnswered
<1>6. ASSUME claim_due_investigation_schedule_runs PROVE EndsOnce
  <2>1. \A id \in Inspections : runRow'[id] = runRow[id] \/ runRow[id] = "none"
    BY <1>6, ClaimFacts DEF Tracked
  <2> QED  BY <2>1 DEF EndsOnce
<1>7. CASE \/ \E s \in Schedules :
                \/ CreateSchedule(s)
                \/ \E status \in {"active", "paused", "revoked"}, next \in {schedule[s].next, clock} :
                     UpdateSchedule(s, status, next)
           \/ \E t \in WatchTasks, to \in {"runnable", "held", "ended"} : TaskMoves(t, to)
           \/ EndTick \/ Passes \/ AgentTakes \/ AgentDies \/ WatchHostEnds \/ ReadEvent
           \/ \E a \in admitting, b \in BOOLEAN : AgentAdmits(a, b)
           \/ \E id \in inspecting, how \in {"succeeded", "failed", "interrupted"} : AgentEnds(id, how)
  <2>1. UNCHANGED runRow
    BY <1>7 DEF CreateSchedule, UpdateSchedule, TaskMoves, EndTick, Passes, AgentTakes, AgentDies, WatchHostEnds,
      ReadEvent, AgentAdmits, AgentEnds, rowVars
  <2> QED  BY <1>2, <2>1
<1>8. CASE TickCommand \/ ClaimDue
  BY <1>6, <1>8 DEF TickCommand, ClaimDue
<1>9. CASE BeginTick
  <2>1. CASE recover_investigation_schedule_runs
    BY <1>1, <2>1 DEF recover_investigation_schedule_runs, EndsOnce
  <2> QED  BY <1>2, <1>9, <2>1 DEF BeginTick
<1>10. ASSUME tick.at = "check", NEW id \in tick.todo, CheckSlot(id) PROVE EndsOnce
  <2>1. UNCHANGED runRow
    BY <1>10 DEF CheckSlot, rowVars
  <2> QED  BY <1>2, <2>1
<1>11. ASSUME tick.at = "admit", NEW id \in tick.todo, NEW other \in BOOLEAN, Admit(id, other) PROVE EndsOnce
  <2>1. CASE start_investigation_schedule_run(id)
    BY <1>1, <2>1 DEF start_investigation_schedule_run, EndsOnce, Open
  <2> QED  BY <1>2, <1>3, <1>11, <2>1 DEF Admit
<1>12. CASE ReadReply \/ RequestFails
  <2>1. UNCHANGED runRow \/ \E value : StopAnswered(value)
    BY <1>12 DEF ReadReply, RequestFails, StartAnswered
  <2> QED  BY <1>2, <1>5, <2>1
<1>13. CASE FinishEvent
  BY <1>4, <1>13 DEF FinishEvent
<1> QED  BY <1>7, <1>8, <1>9, <1>10, <1>11, <1>12, <1>13, Zenon DEF WatchNext

\* Two inspections of one task are at work only if one was being admitted when a stop of it was
\* answered, and the row of a run keeps its first ending (WatchScheduler::tick, stop_, on_event,
\* finish_investigation_schedule_run, _run_stop).
THEOREM TrackingTheorem == WatchSpec => InspectionsAreTracked
<1>1. ASSUME Tracked PROVE OnlyAdmissionEscapes
  <2> SUFFICES ASSUME NEW i \in inspecting, NEW j \in inspecting, TaskOf(i) = TaskOf(j), i # j
               PROVE  {i, j} \cap strays # {}
    BY DEF OnlyAdmissionEscapes
  <2>1. i \in Inspections /\ j \in Inspections
    BY <1>1 DEF Tracked, WatchTyped
  <2>2. i \in InSlots \union strays /\ j \in InSlots \union strays
    BY <1>1, <2>1 DEF Tracked, RunsStand, RunStands, AtWork
  <2> QED  BY <1>1, <2>2 DEF Tracked, SlotsApart
<1>2. Tracked /\ Tracked' /\ [WatchNext]_watchVars => [OnlyAdmissionEscapes' /\ EndsOnce]_watchVars
  <2>1. Tracked' => OnlyAdmissionEscapes'
    BY <1>1, PTL
  <2> QED  BY <2>1, EndStays
<1> QED  BY <1>2, TrackedInvariant, PTL DEF WatchSpec, InspectionsAreTracked

----------------------------------------------------------------------------
(* The parts beside each other *)

\* The parts that serve the Agent share no state: a behaviour of module MCAgentHost is one of each
\* of them, so what was proved of a part holds there.
THEOREM AgentHostParts == AgentHostSpec => HostActionsSpec /\ BackupsSpec /\ McpSpec /\ WatchSpec
<1>1. AgentHostInit => HostActionsInit /\ BackupsInit /\ McpInit /\ WatchInit
  BY DEF AgentHostInit
<1>2. [AgentHostNext]_<<part, actionVars, backupVars, mcpVars, watchVars>> =>
        /\ [HostActionsNext]_actionVars /\ [BackupsNext]_backupVars
        /\ [McpNext]_mcpVars /\ [WatchNext]_watchVars
  BY DEF AgentHostNext
<1> QED  BY <1>1, <1>2, PTL DEF AgentHostSpec, HostActionsSpec, BackupsSpec, McpSpec, WatchSpec
=============================================================================
