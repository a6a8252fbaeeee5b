-------------------------------- MODULE Watch --------------------------------
(***************************************************************************)
(* The watch scheduler of the desktop host: schedules and their runs in    *)
(* the database, a tick on the command lane that claims what is due and    *)
(* asks the Agent for an inspection, and the reader thread that learns how *)
(* an inspection ended.  A slot in memory stands for an inspection that    *)
(* may be going on.  The Agent takes its frames in order but answers a     *)
(* start only after it has admitted the run, and may answer others first.  *)
(***************************************************************************)
EXTENDS Naturals, FiniteSets, Sequences

CONSTANTS
  Schedules,     \* schedule ids
  WatchTask,     \* the task of each schedule
  Interval,      \* intervalSeconds
  Window,        \* dedupeWindowSeconds
  Cooldown,      \* cooldownSeconds
  MaxConcurrent, \* maxConcurrentRuns
  MaxRun,        \* the budget's maxRunMs
  MaxTime,       \* bound: the clock
  MaxUpdates,    \* bound: changes the user makes
  MaxTicks,      \* bound: ticks of the scheduler
  MaxFrames      \* bound: frames to the Agent not yet taken

WatchTasks == {WatchTask[s] : s \in Schedules}
Buckets == 0..((MaxTime + Interval) \div Window)
Inspections == Schedules \X Buckets
TaskOf(id) == WatchTask[id[1]]

ASSUME WatchAssumption ==
  /\ {Interval, Window, MaxConcurrent, MaxRun} \subseteq Nat \ {0}
  /\ {Cooldown, MaxTime, MaxUpdates, MaxTicks, MaxFrames} \subseteq Nat
  /\ IsFiniteSet(Schedules) /\ DOMAIN WatchTask = Schedules

VARIABLES
  clock,
  schedule,   \* investigation_schedules: status, next and last run
  runRow,     \* investigation_schedule_runs: status by schedule and dedupe bucket
  watched,    \* status of each task: runnable, held or ended
  slots,      \* active_: the slot of each run, or NoSlot
  recovered,  \* recovered_
  tick,       \* where the tick is
  toAgent,    \* frames written to the Agent
  admitting,  \* starts the Agent has not answered, with whether someone waits for the answer
  inspecting, \* runs with a live task in the Agent
  fromAgent,  \* frames of the Agent not yet read
  reading,    \* the event the reader thread is in the middle of
  strays,     \* history: runs a stop was answered for while the Agent was still admitting them
  updates,    \* changes so far
  ticks       \* ticks so far

rowVars == <<schedule, runRow>>
agentVars == <<toAgent, admitting, inspecting, fromAgent, strays>>
watchVars == <<clock, rowVars, watched, slots, recovered, tick, agentVars, reading, updates, ticks>>

NoSlot == [deadline |-> 0, stopping |-> "none"]
Resting == [at |-> "rest"]
Open == {"claimed", "running"}
InSlots == {id \in Inspections : slots[id] # NoSlot}

WatchInit ==
  /\ clock = 0
  /\ schedule = [s \in Schedules |-> [status |-> "none", next |-> 0, last |-> 0]]
  /\ runRow = [id \in Inspections |-> "none"]
  /\ watched = [t \in WatchTasks |-> "runnable"]
  /\ slots = [id \in Inspections |-> NoSlot]
  /\ recovered = FALSE /\ tick = Resting /\ reading = Resting
  /\ toAgent = <<>> /\ fromAgent = <<>> /\ strays = {}
  /\ admitting = {} /\ inspecting = {} /\ updates = 0 /\ ticks = 0

----------------------------------------------------------------------------
(* Commands of the user, on the lane the tick also uses *)

\* A new schedule is active and due at once.
create_investigation_schedule(s) ==
  schedule' = [schedule EXCEPT ![s] = [status |-> "active", next |-> clock, last |-> 0]]

update_investigation_schedule(s, status, next) ==
  schedule' = [schedule EXCEPT ![s].status = status, ![s].next = next]

\* investigation_schedule_create; an interval, window and limits within their bounds.
CreateSchedule(s) ==
  /\ tick = Resting /\ schedule[s].status = "none" /\ watched[WatchTask[s]] # "ended"
  /\ create_investigation_schedule(s)
  /\ UNCHANGED <<clock, runRow, watched, slots, recovered, tick, agentVars, reading, updates, ticks>>

\* investigation_schedule_update: the row as it was read, with what the input names.
UpdateSchedule(s, status, next) ==
  /\ tick = Resting /\ schedule[s].status # "none"
  /\ updates < MaxUpdates /\ updates' = updates + 1
  /\ status # "revoked" => watched[WatchTask[s]] # "ended" /\ schedule[s].status # "revoked"
  /\ update_investigation_schedule(s, status, next)
  /\ UNCHANGED <<clock, runRow, watched, slots, recovered, tick, agentVars, reading, ticks>>

\* A task moves, by the user or by the Agent's requests; one that ended stays so.
TaskMoves(t, to) ==
  /\ watched[t] \notin {to, "ended"} /\ updates < MaxUpdates /\ updates' = updates + 1
  /\ watched' = [watched EXCEPT ![t] = to]
  /\ UNCHANGED <<clock, rowVars, slots, recovered, tick, agentVars, reading, ticks>>

----------------------------------------------------------------------------
(* claim_due_investigation_schedule_runs, one transaction *)

Due == {s \in Schedules : schedule[s].status = "active" /\ schedule[s].next <= clock}
DueId(s) == <<s, schedule[s].next \div Window>>
Existing(s) == runRow[DueId(s)] # "none"
OpenRuns(s) == {id \in Inspections : id[1] = s /\ runRow[id] \in Open}

\* Why a new trigger is skipped, if it is.
Refusal(s) ==
  CASE watched[WatchTask[s]] = "ended" -> "task_terminal"
    [] watched[WatchTask[s]] = "held" -> "task_not_readonly_or_waiting_user"
    [] schedule[s].last > 0 /\ clock - schedule[s].last < Cooldown -> "cooldown"
    [] Cardinality(OpenRuns(s)) >= MaxConcurrent -> "concurrency_limit"
    [] OTHER -> "none"

\* A run of the same bucket that is still open is handed out again.
Claimed ==
  {DueId(s) : s \in {d \in Due : IF Existing(d) THEN runRow[DueId(d)] \in Open
                                 ELSE Refusal(d) = "none"}}

claim_due_investigation_schedule_runs ==
  /\ runRow' = [id \in Inspections |->
       IF \E s \in Due : id = DueId(s) /\ ~Existing(s)
       THEN IF Refusal(id[1]) = "none" THEN "claimed" ELSE "skipped"
       ELSE runRow[id]]
  /\ schedule' = [s \in Schedules |->
       IF s \notin Due THEN schedule[s]
       ELSE [status |-> IF watched[WatchTask[s]] = "ended" THEN "revoked" ELSE "active",
             next |-> clock + Interval,
             last |-> IF ~Existing(s) /\ Refusal(s) = "none" THEN clock ELSE schedule[s].last]]

\* investigation_schedule_tick claims and leaves the rest to the next tick of the scheduler.
TickCommand ==
  /\ tick = Resting /\ Due # {}
  /\ updates < MaxUpdates /\ updates' = updates + 1
  /\ claim_due_investigation_schedule_runs
  /\ UNCHANGED <<clock, watched, slots, recovered, tick, agentVars, reading, ticks>>

----------------------------------------------------------------------------
(* WatchScheduler::tick *)

\* Mutant of TakesEnd: the end of a run is written whatever the row says.
TakesEndAny(id) == runRow[id] # "none"

\* finish_investigation_schedule_run: only an open row takes a terminal status.
TakesEnd(id) == runRow[id] \in Open

EndRow(id, status) ==
  runRow' = IF TakesEnd(id) THEN [runRow EXCEPT ![id] = status] ELSE runRow

\* finish: a row that did not take the status keeps its slot.
finish(id, status) ==
  IF id \in InSlots /\ TakesEnd(id)
  THEN /\ EndRow(id, status)
       /\ slots' = [slots EXCEPT ![id] = NoSlot]
  ELSE UNCHANGED <<runRow, slots>>

recover_investigation_schedule_runs ==
  runRow' = [id \in Inspections |-> IF runRow[id] \in Open THEN "interrupted" ELSE runRow[id]]

start_investigation_schedule_run(id) ==
  /\ runRow[id] = "claimed"
  /\ runRow' = [runRow EXCEPT ![id] = "running"]

\* The first tick of a process interrupts what its predecessor left open.
BeginTick ==
  /\ tick = Resting /\ ticks < MaxTicks /\ ticks' = ticks + 1
  /\ recovered' = TRUE
  /\ IF recovered THEN UNCHANGED runRow ELSE recover_investigation_schedule_runs
  /\ tick' = [at |-> "check", todo |-> InSlots]
  /\ UNCHANGED <<clock, schedule, watched, slots, agentVars, reading, updates>>

\* Why a run should not go on.
StopReason(id) ==
  CASE schedule[id[1]].status # "active" -> "schedule_paused"
    [] watched[TaskOf(id)] # "runnable" -> "task_stopped"
    [] slots[id].deadline <= clock -> "inspection_timeout"
    [] OTHER -> slots[id].stopping

Send(op, id) ==
  toAgent' = Append(toAgent, [op |-> op, id |-> id, waited |-> TRUE])

\* A run that should not go on is marked, and its stop is asked for.
CheckSlot(id) ==
  /\ tick.at = "check" /\ id \in tick.todo
  /\ IF id \notin InSlots \/ StopReason(id) = "none"
     THEN /\ tick' = [tick EXCEPT !.todo = @ \ {id}]
          /\ UNCHANGED <<slots, toAgent>>
     ELSE /\ slots' = [slots EXCEPT ![id].stopping = StopReason(id)]
          /\ Len(toAgent) < MaxFrames /\ Send("stop", id)
          /\ tick' = [at |-> "stop", id |-> id, todo |-> tick.todo \ {id}, next |-> "check",
                      status |-> "interrupted"]
  /\ UNCHANGED <<clock, rowVars, watched, recovered, admitting, inspecting, fromAgent, strays,
                 reading, updates, ticks>>

ClaimDue ==
  /\ tick.at = "check" /\ tick.todo = {}
  /\ claim_due_investigation_schedule_runs
  /\ tick' = [at |-> "admit", todo |-> Claimed]
  /\ UNCHANGED <<clock, watched, slots, recovered, agentVars, reading, updates, ticks>>

\* Another slot of the task, or an investigation of the task under way.
TaskBusy(id, other) == other \/ \E o \in InSlots : TaskOf(o) = TaskOf(id)

\* A claimed run is skipped, passed over, or gets a slot and is asked for.
Admit(id, other) ==
  /\ tick.at = "admit" /\ id \in tick.todo
  /\ LET pass == tick' = [tick EXCEPT !.todo = @ \ {id}] IN
     \/ /\ watched[TaskOf(id)] # "runnable"
        /\ EndRow(id, "skipped") /\ pass /\ UNCHANGED <<slots, toAgent>>
     \/ /\ watched[TaskOf(id)] = "runnable" /\ id \in InSlots
        /\ pass /\ UNCHANGED <<runRow, slots, toAgent>>
     \/ /\ watched[TaskOf(id)] = "runnable" /\ id \notin InSlots /\ TaskBusy(id, other)
        /\ EndRow(id, "skipped") /\ pass /\ UNCHANGED <<slots, toAgent>>
     \/ /\ watched[TaskOf(id)] = "runnable" /\ id \notin InSlots /\ ~TaskBusy(id, other)
        /\ runRow[id] # "claimed"
        /\ pass /\ UNCHANGED <<runRow, slots, toAgent>>
     \/ /\ watched[TaskOf(id)] = "runnable" /\ id \notin InSlots /\ ~TaskBusy(id, other)
        /\ Len(toAgent) < MaxFrames /\ start_investigation_schedule_run(id)
        /\ slots' = [slots EXCEPT ![id] = [deadline |-> clock + MaxRun, stopping |-> "none"]]
        /\ Send("start", id)
        /\ tick' = [at |-> "start", id |-> id, todo |-> tick.todo \ {id}]
  /\ UNCHANGED <<clock, schedule, watched, recovered, admitting, inspecting, fromAgent, strays,
                 reading, updates, ticks>>

Resume == tick' = [at |-> tick.next, todo |-> tick.todo]

\* Mutant of MayFree: an accepted cancellation is taken for the end of the run.
MayFreeAccepted(answer) == answer # "error"

\* The stop callback: only an Agent that knows no such run frees the slot.
MayFree(answer) == answer = "unknown"

StopAnswered(answer) ==
  /\ tick.at = "stop"
  /\ IF MayFree(answer) THEN finish(tick.id, tick.status)
     ELSE /\ UNCHANGED runRow
          /\ slots' = IF tick.next = "admit" /\ tick.id \in InSlots
                      THEN [slots EXCEPT ![tick.id].stopping = "inspection_start_unknown"]
                      ELSE slots
  /\ Resume

\* A start that was not answered as started is stopped.
StartAnswered(answer) ==
  /\ tick.at = "start"
  /\ IF answer = "started"
     THEN /\ tick' = [at |-> "admit", todo |-> tick.todo] /\ UNCHANGED toAgent
     ELSE /\ Len(toAgent) < MaxFrames /\ Send("stop", tick.id)
          /\ tick' = [at |-> "stop", id |-> tick.id, todo |-> tick.todo, next |-> "admit",
                      status |-> "failed"]
  /\ UNCHANGED <<runRow, slots>>

Unwaited(q) == [i \in DOMAIN q |-> [q[i] EXCEPT !.waited = FALSE]]

\* The request timed out or could not be written.  The answer will find nobody; a start that
\* timed out sends a stop of its own, whose answer nobody awaits either (cancel_timed_out_run).
RequestFails ==
  /\ tick.at \in {"stop", "start"}
  /\ admitting' = {[a EXCEPT !.waited = FALSE] : a \in admitting}
  /\ fromAgent' = Unwaited(fromAgent)
  /\ \/ /\ tick.at = "stop" /\ toAgent' = Unwaited(toAgent)
        /\ StopAnswered("error")
     \/ /\ tick.at = "start" /\ Len(toAgent) + 2 <= MaxFrames
        /\ LET stop == [op |-> "stop", id |-> tick.id, waited |-> FALSE] IN
           toAgent' = Unwaited(toAgent) \o <<stop, [stop EXCEPT !.waited = TRUE]>>
        /\ tick' = [at |-> "stop", id |-> tick.id, todo |-> tick.todo, next |-> "admit",
                    status |-> "failed"]
        /\ UNCHANGED <<runRow, slots>>
  /\ UNCHANGED <<clock, schedule, watched, recovered, inspecting, strays, reading, updates, ticks>>

\* The database may fail between two runs; what was claimed is left for a later tick.
EndTick ==
  /\ tick.at = "admit" \/ (tick.at = "check" /\ tick.todo # {})
  /\ tick' = Resting
  /\ UNCHANGED <<clock, rowVars, watched, slots, recovered, agentVars, reading, updates, ticks>>

----------------------------------------------------------------------------
(* The Agent *)

Say(frame) == fromAgent' = Append(fromAgent, frame)
Reply(value, waited) == [kind |-> "reply", id |-> "none", value |-> value, waited |-> waited]

\* _run_start reserves the run and goes on to its first await; _run_stop answers at once, from
\* the runs that have a task.
AgentTakes ==
  /\ toAgent # <<>> /\ toAgent' = Tail(toAgent)
  /\ LET f == Head(toAgent) IN
     \/ /\ f.op = "start"
        /\ admitting' = admitting \union {[id |-> f.id, waited |-> f.waited]}
        /\ UNCHANGED <<fromAgent, strays>>
     \/ /\ f.op = "stop"
        /\ Say(Reply(IF f.id \in inspecting THEN "accepted" ELSE "unknown", f.waited))
        /\ strays' = strays \union ({f.id} \cap {a.id : a \in admitting})
        /\ UNCHANGED admitting
  /\ UNCHANGED <<clock, rowVars, watched, slots, recovered, tick, inspecting, reading, updates, ticks>>

\* _admit_run ends: the run gets its task and the caller its answer, or the run is refused.
AgentAdmits(a, admitted) ==
  /\ a \in admitting /\ admitting' = admitting \ {a}
  /\ inspecting' = IF admitted THEN inspecting \union {a.id} ELSE inspecting
  /\ Say(Reply(IF admitted THEN "started" ELSE "error", a.waited))
  /\ UNCHANGED <<clock, rowVars, watched, slots, recovered, tick, toAgent, strays, reading, updates, ticks>>

\* An inspection ends, by itself or cancelled, and its last event is written.
AgentEnds(id, how) ==
  /\ id \in inspecting /\ inspecting' = inspecting \ {id}
  /\ Say([kind |-> "event", id |-> id, value |-> how, waited |-> FALSE])
  /\ UNCHANGED <<clock, rowVars, watched, slots, recovered, tick, toAgent, admitting, strays,
                 reading, updates, ticks>>

\* The Agent ends with all it was doing; a request in flight is answered by an error.
AgentDies ==
  /\ tick = Resting /\ reading = Resting /\ inspecting # {}
  /\ toAgent' = <<>> /\ admitting' = {} /\ inspecting' = {} /\ fromAgent' = <<>>
  /\ UNCHANGED <<clock, rowVars, watched, slots, recovered, tick, strays, reading, updates, ticks>>

----------------------------------------------------------------------------
(* The reader thread *)

ReadReply ==
  /\ reading = Resting /\ fromAgent # <<>> /\ Head(fromAgent).kind = "reply"
  /\ fromAgent' = Tail(fromAgent)
  /\ IF Head(fromAgent).waited
     THEN \/ StopAnswered(Head(fromAgent).value) /\ UNCHANGED toAgent
          \/ StartAnswered(Head(fromAgent).value)
     ELSE UNCHANGED <<tick, runRow, slots, toAgent>>
  /\ UNCHANGED <<clock, schedule, watched, recovered, admitting, inspecting, strays, reading, updates, ticks>>

\* on_event reads the slot under the lock ...
ReadEvent ==
  /\ reading = Resting /\ fromAgent # <<>> /\ Head(fromAgent).kind = "event"
  /\ fromAgent' = Tail(fromAgent)
  /\ LET e == Head(fromAgent) IN
     reading' = IF e.id \notin InSlots THEN Resting
                ELSE [at |-> "event", id |-> e.id,
                      status |-> IF slots[e.id].stopping # "none" THEN "interrupted" ELSE e.value]
  /\ UNCHANGED <<clock, rowVars, watched, slots, recovered, tick, toAgent, admitting, inspecting,
                 strays, updates, ticks>>

\* ... and finishes the run when it has let go of it.
FinishEvent ==
  /\ reading.at = "event"
  /\ finish(reading.id, reading.status)
  /\ reading' = Resting
  /\ UNCHANGED <<clock, schedule, watched, recovered, tick, agentVars, updates, ticks>>

\* A tick works with the time it began at.
Passes == tick = Resting /\ clock < MaxTime /\ clock' = clock + 1
          /\ UNCHANGED <<rowVars, watched, slots, recovered, tick, agentVars, reading, updates, ticks>>

\* The host ends; its Agent ends with it.
WatchHostEnds ==
  /\ recovered /\ recovered' = FALSE
  /\ slots' = [id \in Inspections |-> NoSlot]
  /\ tick' = Resting /\ reading' = Resting
  /\ toAgent' = <<>> /\ admitting' = {} /\ inspecting' = {} /\ fromAgent' = <<>>
  /\ updates < MaxUpdates /\ updates' = updates + 1
  /\ UNCHANGED <<clock, rowVars, watched, strays, ticks>>

WatchNext ==
  \/ \E s \in Schedules :
       \/ CreateSchedule(s)
       \/ \E status \in {"active", "paused", "revoked"}, next \in {schedule[s].next, clock} :
            UpdateSchedule(s, status, next)
  \/ \E t \in WatchTasks, to \in {"runnable", "held", "ended"} : TaskMoves(t, to)
  \/ TickCommand \/ BeginTick \/ ClaimDue \/ RequestFails \/ EndTick
  \/ tick.at = "check" /\ \E id \in tick.todo : CheckSlot(id)
  \/ tick.at = "admit" /\ \E id \in tick.todo, other \in BOOLEAN : Admit(id, other)
  \/ AgentTakes \/ AgentDies
  \/ \E a \in admitting, b \in BOOLEAN : AgentAdmits(a, b)
  \/ \E id \in inspecting, how \in {"succeeded", "failed", "interrupted"} : AgentEnds(id, how)
  \/ ReadReply \/ ReadEvent \/ FinishEvent
  \/ Passes \/ WatchHostEnds

WatchSpec == WatchInit /\ [][WatchNext]_watchVars

----------------------------------------------------------------------------
(* Properties *)

WatchTypeOK ==
  /\ clock \in 0..MaxTime
  /\ \A s \in Schedules : schedule[s].status \in {"none", "active", "paused", "revoked"}
  /\ runRow \in [Inspections -> {"none", "claimed", "running", "skipped", "succeeded", "failed",
                                 "interrupted"}]
  /\ inspecting \subseteq Inspections /\ Len(toAgent) <= MaxFrames

\* Does not hold (README, section 6): "Read plans belong to a task, so even separate schedules
\* cannot race its plan." (watch_scheduler.cpp, tick), i.e. a task never has two inspections
\* at work in the Agent.
OneInspectionPerTask ==
  \A i, j \in inspecting : TaskOf(i) = TaskOf(j) => i = j

\* The only way to a second inspection of a task is a stop answered while the Agent was still
\* admitting the first (stop_ and _run_stop); a late event, a lost answer, a paused schedule,
\* a repeated claim or a restart of the host do not get there.
OnlyAdmissionEscapes ==
  \A i, j \in inspecting : TaskOf(i) = TaskOf(j) /\ i # j => {i, j} \cap strays # {}

\* The end of a run is written once: a run that a stop or a restart interrupted is not
\* reported as succeeded by the event that was on its way (finish_investigation_schedule_run).
EndsOnce ==
  \A id \in Inspections :
    runRow[id] \notin Open \union {"none"} => runRow'[id] = runRow[id]

\* The scheduler loses track of an inspection only as OnlyAdmissionEscapes says, and the row
\* of a run keeps its first ending.
InspectionsAreTracked == [][OnlyAdmissionEscapes' /\ EndsOnce]_watchVars
=============================================================================
