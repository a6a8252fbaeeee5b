---------------------------- MODULE Investigation ----------------------------
(***************************************************************************)
(* One durable investigation task of the desktop host: its Agent runs, its *)
(* plan revisions and the step results, decisions and recoveries that move *)
(* them.  Host requests of the sidecar are served by several worker        *)
(* threads, user commands by one lane and Agent events by the reader       *)
(* thread.  The database lock covers one call, so every handler is split   *)
(* where it reads a row and where it writes it back.                       *)
(***************************************************************************)
EXTENDS Naturals, Sequences, FiniteSets

CONSTANTS
  Plans,        \* plan ids, numbers ordered as the ids are
  Forms,        \* the tasks looked at: what they and their plans are created with
  MaxAttempts,  \* attempts of a step
  Workers,      \* host request workers
  Outcomes      \* outcomes of step result calls, of "success", "retryable" and "fatal"

Terminal == {"completed", "failed", "stopped", "expired"}
Statuses == Terminal \union {"pending", "investigating", "waiting_user", "executing", "verifying"}

\* A plan that is watched ends with its verification (validate_observation_window).
ASSUME InvestigationAssumption ==
  /\ Plans \subseteq Nat \ {0} /\ IsFiniteSet(Plans)
  /\ MaxAttempts \in Nat \ {0}
  /\ \A f \in Forms :
       /\ f.kinds \in Seq({"evidence", "decision", "action", "verification"}) /\ f.kinds # <<>>
       /\ f.watched => f.kinds[Len(f.kinds)] = "verification"
       /\ f.watched \in BOOLEAN /\ f.runs \in Nat /\ f.ids \subseteq Plans
       /\ f.commands \in Nat /\ f.requests \in Nat
       /\ f.automation \in {"readonly", "propose", "auto"} /\ f.statuses \subseteq Statuses

VARIABLES
  form,      \* the task's fixed part, one of Forms
  task,      \* the row of investigation_tasks
  runs,      \* the rows of investigation_runs, by attempt
  plans,     \* the rows of investigation_plans
  baseline,  \* the baseline artifact of each plan
  verified,  \* plans with a succeeded verification artifact
  brief,     \* the plan the recorded decision brief describes, or 0
  agents,    \* runs the sidecar was started with
  host,      \* what each host worker is in the middle of
  event,     \* the ended run whose plan is still to be blocked, or 0
  lane,      \* the user command in progress
  commands,  \* user commands so far
  requests,  \* plan and result requests so far
  decided    \* history: the user's approval of each plan, stale after a recovery

taskRows == <<form, task, runs>>
planRows == <<plans, baseline, verified, brief, decided>>
agentVars == <<agents, event>>
hostVars == <<host, requests>>
laneVars == <<lane, commands>>
vars == <<taskRows, planRows, agentVars, hostVars, laneVars>>

Kinds == form.kinds            \* the kinds of a plan's steps, in order
Watched == form.watched        \* do plans declare an observation window?
Automation == form.automation  \* the task's automation level
MaxRuns == form.runs           \* the task's attempt budget
MaxCommands == form.commands   \* bound: user commands in a behaviour
MaxRequests == form.requests   \* bound: plan and result requests in a behaviour
Steps == 1 .. Len(Kinds)
OpenRun == {"admitted", "running", "waiting_user"}
Free == [at |-> "free"]

----------------------------------------------------------------------------
(* Rows *)

NoPlan == [status |-> "absent", revision |-> 0, current |-> 0,
           approval |-> "pending", window |-> "pending",
           steps |-> [k \in Steps |-> [status |-> "pending", attempts |-> 0, last |-> <<>>]]]

\* latest_investigation_plan: the highest revision that is not superseded; 0 if there is none.
latest_investigation_plan ==
  LET live == {p \in Plans : plans[p].status \in {"active", "completed"}}
      above(p, q) == \/ plans[p].revision > plans[q].revision
                     \/ plans[p].revision = plans[q].revision /\ p >= q
  IN  IF live = {} THEN 0 ELSE CHOOSE p \in live : \A q \in live : above(p, q)

\* save_investigation_plan: a known id is overwritten whole, a new one supersedes the others.
save_investigation_plan(p, plan) ==
  plans' = [q \in Plans |->
              CASE q = p -> plan
                [] q # p /\ plans[p].status = "absent" /\ plans[q].status = "active"
                     -> [plans[q] EXCEPT !.status = "superseded"]
                [] OTHER -> plans[q]]

\* update_investigation_task_progress and set_investigation_task_status ask for nothing but the id.
update_investigation_task_progress(status, run, failure) ==
  task' = [status |-> status, run |-> run, failure |-> failure]
set_investigation_task_status(status) == task' = [task EXCEPT !.status = status]

create_investigation_run(bound) == runs' = Append(runs, [status |-> "admitted", bound |-> bound])

baseline_artifact_matches_plan(p, plan) ==
  /\ baseline[p] = "ready"
  /\ \E k \in Steps : Kinds[k] = "evidence" /\ plan.steps[k].status = "succeeded"

\* task_can_transition: the edges a step result may take.
task_can_transition(from, to) ==
  \/ from = to
  \/ to \in CASE from = "pending" -> {"investigating", "stopped", "expired"}
              [] from = "investigating" -> {"waiting_user", "executing", "verifying", "completed",
                                            "failed", "stopped", "expired"}
              [] from = "waiting_user" -> {"investigating", "executing", "stopped", "expired"}
              [] from = "executing" -> {"verifying", "failed", "stopped", "expired"}
              [] from = "verifying" -> {"waiting_user", "completed", "failed", "stopped", "expired"}
              [] OTHER -> {}

Init ==
  /\ form \in Forms
  /\ task = [status |-> "pending", run |-> 0, failure |-> "none"]
  /\ runs = <<>>
  /\ plans = [p \in Plans |-> NoPlan]
  /\ baseline = [p \in Plans |-> "none"]
  /\ verified = {} /\ brief = 0 /\ agents = {}
  /\ host = [w \in Workers |-> Free]
  /\ event = 0
  /\ lane = Free /\ commands = 0 /\ requests = 0
  /\ decided = [p \in Plans |-> "never"]

----------------------------------------------------------------------------
(* Host requests: plans and artifacts *)

\* A worker takes up a request.
Receive(w) == host[w] = Free /\ requests < MaxRequests /\ requests' = requests + 1

\* Mutant of NewPlan: the approval of the previous revision is kept.
NewPlanApproved(p, sameWindow) ==
  LET prior == latest_investigation_plan
  IN  IF prior = p THEN plans[p]
      ELSE [NoPlan EXCEPT !.status = "active", !.current = 1,
              !.approval = IF prior = 0 THEN @ ELSE plans[prior].approval,
              !.revision = IF prior = 0 THEN 1 ELSE plans[prior].revision + 1]

\* merge_plan_runtime: an id is only accepted again with the definition it has (plan_definition),
\* so the merged plan is the stored one.
merge_plan_runtime(p) == plans[p]

\* handle_plan_record up to the save.  A known id keeps its runtime state, a new one starts
\* over; the window of the previous plan is carried over when it declares the same one.
NewPlan(p, sameWindow) ==
  LET prior == latest_investigation_plan
      started == [NoPlan EXCEPT !.status = "active", !.current = 1,
                    !.revision = IF prior = 0 THEN 1 ELSE plans[prior].revision + 1]
  IN  IF prior = p THEN merge_plan_runtime(p)
      ELSE IF prior # 0 /\ Watched /\ sameWindow
           THEN [started EXCEPT !.window = plans[prior].window] ELSE started

RecordRead(w, p) ==
  /\ Receive(w) /\ p \in form.ids
  /\ plans[p].status = "absent" \/ latest_investigation_plan = p
  /\ \E sameWindow \in BOOLEAN :
       host' = [host EXCEPT ![w] = [at |-> "record", plan |-> p, copy |-> NewPlan(p, sameWindow)]]
  /\ UNCHANGED <<taskRows, planRows, agentVars, laneVars>>

RecordSave(w) ==
  /\ host[w].at = "record"
  /\ save_investigation_plan(host[w].plan, host[w].copy)
  /\ host' = [host EXCEPT ![w] = Free]
  /\ UNCHANGED <<taskRows, agentVars, laneVars, baseline, verified, brief, requests, decided>>

\* handle_artifact_record, for the two kinds a plan's progress depends on; the Agent binds an
\* artifact to the current step.
RecordArtifact(p) ==
  /\ plans[p].current # 0
  /\ \/ /\ Kinds[plans[p].current] = "evidence" /\ baseline[p] # "ready"
        /\ baseline' = [baseline EXCEPT ![p] = "ready"] /\ UNCHANGED verified
     \/ /\ Kinds[plans[p].current] = "verification" /\ p \notin verified
        /\ verified' = verified \union {p} /\ UNCHANGED baseline
  /\ UNCHANGED <<taskRows, agentVars, hostVars, laneVars, plans, brief, decided>>

\* handle_brief_record: a brief describes the current plan.
RecordBrief ==
  /\ latest_investigation_plan \notin {0, brief}
  /\ brief' = latest_investigation_plan
  /\ UNCHANGED <<taskRows, agentVars, hostVars, laneVars, plans, baseline, verified, decided>>

\* check_plan_for_tool, for an effectful tool the current step allows.
ActionAllowed(plan, p) ==
  /\ plan.current # 0
  /\ LET k == plan.current IN
     /\ Kinds[k] = "action"
     /\ plan.steps[k].status \in {"pending", "running"}
     /\ plan.steps[k].attempts < MaxAttempts
     /\ ~(Watched /\ plan.window = "running")
     /\ Automation # "readonly"
     /\ Automation = "propose" => plan.approval = "approved"
     /\ baseline_artifact_matches_plan(p, plan)

----------------------------------------------------------------------------
(* Host requests: step results *)

\* handle_plan_step_result reads the plan by its id, superseded or not.
ResultRead(w, p, k, c, outcome) ==
  /\ Receive(w)
  /\ plans[p].status # "absent"
  /\ host' = [host EXCEPT ![w] =
                [at |-> "judge", plan |-> p, step |-> k, call |-> <<c, outcome>>,
                 copy |-> plans[p]]]
  /\ UNCHANGED <<taskRows, planRows, agentVars, laneVars>>

Replayed(plan, k, call) == plan.steps[k].last # <<>> /\ plan.steps[k].last[1] = call[1]

\* Mutant of Witnessed: only actions are asked for their artifact.
WitnessedActions(p, plan, k) ==
  Kinds[k] = "action" => baseline_artifact_matches_plan(p, plan)

Witnessed(p, plan, k) ==
  /\ Kinds[k] = "action" => baseline_artifact_matches_plan(p, plan)
  /\ Kinds[k] = "verification" => p \in verified

\* The observation window: a verification result is a sample until the deadline has passed.
WindowBlocks(plan, k, ok) ==
  Watched /\ Kinds[k] = "verification" /\ ok /\ plan.window \in {"failed", "cancelled"}
WindowFails(plan, k, ok) ==
  Watched /\ Kinds[k] = "verification" /\ ~ok /\ plan.window = "running"
\* Mutant of WindowSamples: the first result is not taken for a sample.
WindowSamplesRunning(plan, k, ok, late) ==
  Watched /\ Kinds[k] = "verification" /\ ok /\ plan.window = "running" /\ ~late
WindowSamples(plan, k, ok, late) ==
  /\ Watched /\ Kinds[k] = "verification" /\ ok
  /\ \/ plan.window = "pending"
     \/ plan.window = "running" /\ ~late

\* The plan after a result of its current step: the step ends, the next one runs.
Advanced(plan, k, call) ==
  LET done == [plan EXCEPT !.steps[k] = [status |-> "succeeded", attempts |-> @.attempts + 1,
                                         last |-> call],
                           !.window = IF Kinds[k] = "verification" /\ @ = "running"
                                      THEN "succeeded" ELSE @]
  IN  IF k = Len(Kinds) THEN [done EXCEPT !.current = 0, !.status = "completed"]
      ELSE [done EXCEPT !.current = k + 1, !.steps[k + 1].status = "running"]

Setback(plan, k, call) ==
  LET spent == plan.steps[k].attempts + 1
      next == IF call[2] = "fatal" \/ spent >= MaxAttempts THEN "blocked" ELSE "pending"
  IN  [plan EXCEPT !.steps[k] = [status |-> next, attempts |-> spent, last |-> call]]

\* The status a result asks for, by the kind of the step that is next.
DesiredStatus(plan, k) ==
  CASE plan.status = "completed" /\ Kinds[k] = "verification" -> "completed"
    [] plan.current # 0 /\ Kinds[plan.current] = "action" -> "executing"
    [] plan.current # 0 /\ Kinds[plan.current] = "verification" -> "verifying"
    [] plan.current # 0 /\ Kinds[plan.current] = "evidence" -> "investigating"
    [] OTHER -> "waiting_user"

\* What is to be done with the task after the save, judged by the row read before it: nothing,
\* <<status>>, or <<status, run>> when a failure is stored with the run that was active.
Follow(plan, k, failing) ==
  LET to == IF failing = "" THEN DesiredStatus(plan, k) ELSE failing
  IN  IF ~task_can_transition(task.status, to) THEN <<>>
      ELSE IF failing # "" THEN <<to, task.run>>
      ELSE IF task.status = to THEN <<>> ELSE <<to>>

\* Mutant of Refused: the result need not be the current step's.
RefusedAnyStep(h) ==
  LET ok == h.call[2] = "success" IN
  \/ Replayed(h.copy, h.step, h.call)
  \/ ok /\ ~Witnessed(h.plan, h.copy, h.step)
  \/ WindowBlocks(h.copy, h.step, ok)

\* Results that change nothing: replays, other steps, a success without its artifact.
Refused(h) ==
  LET ok == h.call[2] = "success" IN
  \/ Replayed(h.copy, h.step, h.call)
  \/ h.copy.current # h.step
  \/ ok /\ ~Witnessed(h.plan, h.copy, h.step)
  \/ WindowBlocks(h.copy, h.step, ok)

\* The checks of the result against the copy of the plan, the task and the artifacts.
ResultJudge(w) ==
  /\ host[w].at = "judge"
  /\ LET h == host[w]  plan == h.copy  k == h.step  ok == h.call[2] = "success"
         keep(new, follow) ==
           host' = [host EXCEPT ![w] = [at |-> "save", plan |-> h.plan, copy |-> new,
                                        move |-> follow]]
     IN  \/ /\ Refused(h)
            /\ host' = [host EXCEPT ![w] = Free]
         \/ /\ ~Refused(h) /\ WindowFails(plan, k, ok)
            /\ LET new == [plan EXCEPT !.window = "failed", !.steps[k].last = h.call]
               IN  keep(new, Follow(new, k, "waiting_user"))
         \/ \E late \in BOOLEAN :
              /\ ~Refused(h) /\ WindowSamples(plan, k, ok, late)
              /\ keep([plan EXCEPT !.window = "running", !.steps[k].last = h.call], <<>>)
         \/ \E late \in BOOLEAN :
              /\ ~Refused(h) /\ ~WindowFails(plan, k, ok) /\ ~WindowSamples(plan, k, ok, late)
              /\ IF plan.steps[k].status \notin {"pending", "running"}
                 THEN host' = [host EXCEPT ![w] = Free]
                 ELSE LET new == IF ok THEN Advanced(plan, k, h.call) ELSE Setback(plan, k, h.call)
                          stuck == new.steps[k].status = "blocked"
                      IN  keep(new, Follow(new, k, IF stuck THEN "failed" ELSE ""))
  /\ UNCHANGED <<taskRows, planRows, agentVars, laneVars, requests>>

ResultSave(w) ==
  /\ host[w].at = "save"
  /\ save_investigation_plan(host[w].plan, host[w].copy)
  /\ host' = [host EXCEPT ![w] = IF @.move = <<>> THEN Free
                                 ELSE [at |-> "move", plan |-> @.plan, move |-> @.move]]
  /\ UNCHANGED <<taskRows, agentVars, laneVars, baseline, verified, brief, requests, decided>>

\* The task is moved as judged then, whatever its row says now.
MoveTask(w) ==
  /\ host[w].at = "move"
  /\ LET m == host[w].move
     IN  IF Len(m) = 2 THEN update_investigation_task_progress(m[1], m[2], "none")
         ELSE set_investigation_task_status(m[1])
  /\ host' = [host EXCEPT ![w] = Free]
  /\ UNCHANGED <<planRows, agentVars, laneVars, form, runs, requests>>

----------------------------------------------------------------------------
(* Agent events *)

ProgressApplies(r, st) ==
  /\ task.run = r
  /\ runs[r].status \in OpenRun \ {st}
  /\ st = "running" => runs[r].status = "admitted"
  /\ task.status \in Terminal => st \in {"completed", "failed", "cancelled"}

\* apply_investigation_run_progress: only the owning run moves the task, in one transaction.
apply_investigation_run_progress(r, st, failure) ==
  LET ends == st \in {"completed", "failed", "cancelled"}
      next == IF task.status \in Terminal THEN task.status
              ELSE CASE st \in {"waiting_user", "completed"} -> "waiting_user"
                     [] st = "failed" -> "failed"
                     [] st = "cancelled" -> "stopped"
                     [] OTHER -> task.status
  IN  /\ runs' = [runs EXCEPT ![r].status = st]
      /\ update_investigation_task_progress(next, IF ends THEN 0 ELSE r,
           IF task.status \notin Terminal /\ st \in {"failed", "cancelled"}
           THEN failure ELSE task.failure)

AgentEvent(r, st) ==
  /\ event = 0 /\ r \in agents
  /\ ProgressApplies(r, st)
  /\ \E failure \in IF st = "failed" THEN {"none", "unknown"} ELSE {"none"} :
       apply_investigation_run_progress(r, st, failure)
  /\ event' = IF st \in {"failed", "cancelled"} THEN r ELSE 0
  /\ UNCHANGED <<planRows, hostVars, laneVars, form, agents>>

\* Mutant of Interrupted: later runs are not looked for.
InterruptedByOld(r) ==
  LET p == latest_investigation_plan  bound == runs[r].bound IN
  /\ runs[r].status \in {"failed", "cancelled"} /\ task.status # "completed"
  /\ bound # <<>> /\ p # 0
  /\ plans[p].status = "active"
  /\ bound = <<p, plans[p].revision, plans[p].current, plans[p].steps[plans[p].current]>>
  /\ bound[4].status = "running"

\* block_interrupted_investigation_plan: the step the run was bound to, if nothing moved since.
Interrupted(r) ==
  LET p == latest_investigation_plan  bound == runs[r].bound IN
  /\ runs[r].status \in {"failed", "cancelled"}
  /\ task.run = 0 /\ task.status # "completed"
  /\ Len(runs) = r
  /\ bound # <<>> /\ p # 0
  /\ plans[p].status = "active"
  /\ bound = <<p, plans[p].revision, plans[p].current, plans[p].steps[plans[p].current]>>
  /\ bound[4].status = "running"

BlockInterrupted ==
  /\ event # 0
  /\ LET p == latest_investigation_plan IN
       IF Interrupted(event)
       THEN plans' = [plans EXCEPT ![p].steps[plans[p].current].status = "blocked"]
       ELSE UNCHANGED plans
  /\ event' = 0
  /\ UNCHANGED <<taskRows, hostVars, laneVars, baseline, verified, brief, agents, decided>>

----------------------------------------------------------------------------
(* User commands, one at a time *)

\* A new command is taken up once the lane is free.
Take == lane = Free /\ commands < MaxCommands /\ commands' = commands + 1

RequiresRecovery(failure) == failure \in {"unknown", "recovered"}

\* autonomous_task_recovery_plan_conflict: a recovered task may only take up a reading step.
RecoveryConflict(failure, plan) ==
  /\ RequiresRecovery(failure) /\ plan.status # "absent"
  /\ ~( /\ plan.status = "active"
        /\ plan.current # 0
        /\ plan.steps[plan.current].status \in {"pending", "running"}
        /\ plan.steps[plan.current].attempts < MaxAttempts
        /\ Kinds[plan.current] \in {"evidence", "verification"} )

LatestCopy == IF latest_investigation_plan = 0 THEN NoPlan ELSE plans[latest_investigation_plan]

StartCheck ==
  /\ Take
  /\ task.status \notin Terminal
  /\ task.run # 0 => runs[task.run].status \notin OpenRun
  /\ ~RecoveryConflict(task.failure, LatestCopy)
  /\ lane' = [at |-> "admit", plan |-> latest_investigation_plan, copy |-> LatestCopy]
  /\ UNCHANGED <<taskRows, planRows, agentVars, hostVars>>

\* The run is created with the step it is bound to; past the budget the command ends here.
StartAdmit ==
  /\ lane.at = "admit"
  /\ IF Len(runs) < MaxRuns
     THEN LET c == lane.copy
              runnable == /\ c.status = "active" /\ c.current # 0
                          /\ c.steps[c.current].status \in {"pending", "running"}
          IN  /\ create_investigation_run(
                   IF runnable THEN <<lane.plan, c.revision, c.current, c.steps[c.current]>> ELSE <<>>)
              /\ lane' = [at |-> "launch"]
     ELSE lane' = Free /\ UNCHANGED runs
  /\ UNCHANGED <<planRows, agentVars, hostVars, form, task, commands>>

StartLaunch ==
  /\ lane.at = "launch"
  /\ update_investigation_task_progress("investigating", Len(runs), "none")
  /\ lane' = [at |-> "sidecar"]
  /\ UNCHANGED <<planRows, agentVars, hostVars, form, runs, commands>>

\* agent.run.start is answered, or fails and the admitted run with it; a request that timed
\* out may have been carried out all the same.  A missing server ends the command, nothing more.
StartSidecar ==
  /\ lane.at = "sidecar"
  /\ \E reached, failed \in BOOLEAN :
       /\ agents' = IF reached THEN agents \union {Len(runs)} ELSE agents
       /\ IF failed /\ ProgressApplies(Len(runs), "failed")
          THEN apply_investigation_run_progress(Len(runs), "failed", "none")
          ELSE UNCHANGED <<runs, task>>
  /\ lane' = Free
  /\ UNCHANGED <<planRows, hostVars, form, event, commands>>

RecoverRead(option) ==
  /\ Take
  /\ task.status \notin {"completed", "expired"}
  /\ task.failure = "unknown" => option # "none"
  /\ lane' = [at |-> "invalidate", failure |-> task.failure,
              then |-> CASE option = "stop" -> "stopped"
                         [] option \in {"rollback", "wait_user"} -> "waiting_user"
                         [] OTHER -> "",
              plan |-> latest_investigation_plan, copy |-> LatestCopy]
  /\ UNCHANGED <<taskRows, planRows, agentVars, hostVars>>

\* invalidate_plan_after_recovery
Invalidated(plan) ==
  [plan EXCEPT !.approval = "pending",
               !.window = IF @ = "running" THEN "cancelled" ELSE @]

RecoverInvalidate ==
  /\ lane.at = "invalidate"
  /\ lane' = [lane EXCEPT !.at = "recover", !.copy = Invalidated(@)]
  /\ IF lane.plan = 0 THEN UNCHANGED <<plans, baseline, decided>>
     ELSE /\ baseline' = [baseline EXCEPT ![lane.plan] = IF @ = "ready" THEN "superseded" ELSE @]
          /\ save_investigation_plan(lane.plan, Invalidated(lane.copy))
          /\ decided' = [decided EXCEPT ![lane.plan] = IF @ = "fresh" THEN "stale" ELSE @]
  /\ UNCHANGED <<taskRows, agentVars, hostVars, verified, brief, commands>>

\* Mutant of NeedsReview: the plan is not compared with the one that was invalidated.
NeedsReviewOnConflict(failure) == RecoveryConflict(failure, lane.copy)

\* A plan that changed since it was invalidated, or cannot be taken up, needs a review.
NeedsReview(failure) ==
  \/ RecoveryConflict(failure, lane.copy)
  \/ latest_investigation_plan # lane.plan
  \/ lane.plan # 0 /\ plans[lane.plan] # lane.copy

\* recover_investigation_task: one transaction over the task and its open runs.
RecoverTask ==
  /\ lane.at = "recover"
  /\ LET failure == IF lane.failure = "unknown" THEN "unknown" ELSE "recovered"
     IN  IF task.status \in {"completed", "expired"}
         THEN lane' = Free /\ UNCHANGED <<task, runs>>
         ELSE /\ task' = [status |-> IF NeedsReview(failure) THEN "waiting_user" ELSE "investigating",
                          run |-> 0, failure |-> failure]
              /\ runs' = [r \in DOMAIN runs |->
                            IF runs[r].status \in OpenRun
                            THEN [runs[r] EXCEPT !.status = "interrupted"] ELSE runs[r]]
              /\ lane' = IF lane.then = "" THEN Free ELSE [at |-> "set", to |-> lane.then]
  /\ UNCHANGED <<planRows, agentVars, hostVars, form, commands>>

\* investigation_brief_select: start_plan approves the plan the brief describes if it is still
\* the current one; stop stops the task.
SelectBrief(continuation) ==
  /\ Take /\ brief # 0
  /\ task.status \notin Terminal
  /\ CASE continuation = "start_plan" ->
            /\ latest_investigation_plan = brief
            /\ lane' = [at |-> "approve", plan |-> brief, copy |-> plans[brief]]
       [] continuation = "stop" -> lane' = [at |-> "set", to |-> "stopped"]
  /\ UNCHANGED <<taskRows, planRows, agentVars, hostVars>>

ApprovePlan ==
  /\ lane.at = "approve"
  /\ save_investigation_plan(lane.plan, [lane.copy EXCEPT !.approval = "approved"])
  /\ decided' = [decided EXCEPT ![lane.plan] = "fresh"]
  /\ lane' = Free
  /\ UNCHANGED <<taskRows, agentVars, hostVars, baseline, verified, brief, commands>>

\* investigation_task_stop: reads the task, asks the Agent to stop, then stores the stop.
StopTask ==
  /\ Take
  /\ task.status \notin Terminal
  /\ lane' = [at |-> "set", to |-> "stopped"]
  /\ UNCHANGED <<taskRows, planRows, agentVars, hostVars>>

SetStatus ==
  /\ lane.at = "set"
  /\ set_investigation_task_status(lane.to)
  /\ lane' = Free
  /\ UNCHANGED <<planRows, agentVars, hostVars, form, runs, commands>>

\* investigation_task_status_update stores any status.
UpdateStatus(s) ==
  /\ Take /\ task.status # s
  /\ set_investigation_task_status(s)
  /\ UNCHANGED <<planRows, agentVars, hostVars, form, runs, lane>>

\* The application ends: the rows stay, every handler and the sidecar are gone.
Restart ==
  /\ host # [w \in Workers |-> Free] \/ lane # Free \/ event # 0 \/ agents # {}
  /\ host' = [w \in Workers |-> Free] /\ lane' = Free /\ event' = 0 /\ agents' = {}
  /\ UNCHANGED <<taskRows, planRows, commands, requests>>

HostRequest(w) ==
  \/ \E p \in Plans : RecordRead(w, p)
  \/ RecordSave(w)
  \/ \E p \in Plans, k \in Steps, c \in form.calls, outcome \in Outcomes :
       ResultRead(w, p, k, c, outcome)
  \/ ResultJudge(w) \/ ResultSave(w) \/ MoveTask(w)

UserCommand ==
  \/ StartCheck \/ StartAdmit \/ StartLaunch \/ StartSidecar
  \/ \E option \in {"none", "retry", "stop", "rollback", "wait_user"} : RecoverRead(option)
  \/ RecoverInvalidate \/ RecoverTask
  \/ \E continuation \in {"start_plan", "stop"} : SelectBrief(continuation)
  \/ ApprovePlan \/ StopTask \/ SetStatus
  \/ \E s \in form.statuses : UpdateStatus(s)

Next ==
  \/ \E w \in Workers : HostRequest(w)
  \/ \E p \in Plans : RecordArtifact(p)
  \/ RecordBrief
  \/ \E r \in DOMAIN runs, st \in {"running", "waiting_user", "completed", "failed", "cancelled"} :
       AgentEvent(r, st)
  \/ BlockInterrupted
  \/ UserCommand
  \/ Restart

Spec == Init /\ [][Next]_vars

----------------------------------------------------------------------------
(* Properties *)

PlanRow ==
  [status : {"absent", "active", "completed", "superseded"}, revision : Nat,
   current : {0} \union Steps, approval : {"pending", "approved"},
   window : {"pending", "running", "succeeded", "failed", "cancelled"},
   steps : [Steps -> [status : {"pending", "running", "succeeded", "blocked"},
                      attempts : 0 .. MaxAttempts,
                      last : {<<>>} \union (form.calls \X Outcomes)]]]

\* The shape of the rows; attempts never pass a step's budget.
TypeOK ==
  /\ task \in [status : Statuses, run : 0 .. MaxRuns, failure : {"none", "unknown", "recovered"}]
  /\ Len(runs) <= MaxRuns
  /\ \A r \in DOMAIN runs :
       runs[r].status \in OpenRun \union {"completed", "failed", "cancelled", "interrupted"}
  /\ plans \in [Plans -> PlanRow]
  /\ baseline \in [Plans -> {"none", "ready", "superseded"}]
  /\ verified \subseteq Plans /\ brief \in {0} \union Plans
  /\ agents \subseteq DOMAIN runs /\ event \in 0 .. MaxRuns
  /\ decided \in [Plans -> {"never", "fresh", "stale"}]

\* Steps are taken in order: whatever copies of a plan were written back late, everything
\* before the current step has succeeded, nothing after it was begun, and a plan without a
\* current step has succeeded in all of them.
PlanInOrder ==
  \A p \in Plans : plans[p].status # "absent" =>
    \A k \in Steps :
      LET before == plans[p].current = 0 \/ k < plans[p].current
          after == plans[p].current # 0 /\ k > plans[p].current
      IN  /\ before => plans[p].steps[k].status = "succeeded"
          /\ after => plans[p].steps[k] = NoPlan.steps[k]

\* Apart from the user, only a verified plan completes a task; an Agent's own word never does
\* (the comment in apply_investigation_run_progress).
CompletedIsVerified ==
  [][ task'.status = "completed" /\ task.status # "completed" /\ commands' = commands
      => \E w \in Workers : host[w].at = "move" /\ host[w].plan \in verified ]_vars

\* In proposal mode no action is let through on a revision the user never approved, whatever
\* earlier revisions were approved for.
ActionWasChosen ==
  \A p \in Plans :
    Automation = "propose" /\ ActionAllowed(plans[p], p) => decided[p] # "never"

\* A plan whose window is declared ends its verification only with a succeeded window.
VerificationWasWatched ==
  Watched => \A p \in Plans : plans[p].status = "completed" => plans[p].window = "succeeded"

\* What a plan may do was decided for this very revision: its action by the user, the end of
\* its verification by a window that was watched.
PlanIsAuthorised == ActionWasChosen /\ VerificationWasWatched

\* A recovery that lets the task go on leaves a plan with no approval, no open window and no
\* baseline from before: what changed after it was invalidated sends the task to the user.
RecoveryIsReviewed ==
  lane.at = "recover" /\ lane' # lane /\ task' # task /\ task'.status = "investigating"
  => \/ latest_investigation_plan = 0
     \/ LET plan == plans[latest_investigation_plan]
        IN  plan.approval = "pending" /\ plan.window # "running"

\* The end of a run blocks a step only while no other run has the task.
InterruptSparesNewer ==
  event # 0 /\ event' = 0 /\ plans' # plans
  => task.run = 0 /\ \A r \in DOMAIN runs : runs[r].status \in OpenRun => r < event

\* What one run or recovery leaves behind does not reach into the next: neither an approval, a
\* window or a baseline (recover_investigation_task), nor the end of an earlier run
\* (block_interrupted_investigation_plan).
RunsDoNotCross == [][RecoveryIsReviewed /\ InterruptSparesNewer]_vars

\* Does not hold (README, section 6): only a command of the user takes a task out of a stop.
StopIsAuthoritative ==
  [][ task.status = "stopped" /\ task'.status # "stopped" => host' = host ]_vars

\* Does not hold (README, section 6): a plan is approved only by a decision made after its
\* last recovery.
ApprovalIsFresh ==
  \A p \in Plans : plans[p].approval = "approved" => decided[p] = "fresh"
=============================================================================
