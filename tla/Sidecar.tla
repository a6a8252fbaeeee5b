------------------------------- MODULE Sidecar -------------------------------
(***************************************************************************)
(* SidecarClient: the Python Agent as a child process, with JSON-RPC both  *)
(* ways over its pipes.  The background lane of the dispatcher starts,     *)
(* stops and asks the process; a monitor waits for its exit; a reader      *)
(* takes its frames; host workers serve what the Agent asks, and may ask   *)
(* the Agent in turn.  The process may exit, or stop reading, at any time. *)
(***************************************************************************)
EXTENDS Naturals, Sequences, FiniteSets

CONSTANTS
  HostWorkers,   \* kHostWorkerCount threads, 1 .. N in the order they are joined
  MaxSpawns,     \* bound: processes in a behaviour
  MaxIds,        \* bound: requests of the host in a behaviour
  MaxAsks,       \* bound: requests of the Agent in a behaviour
  CanWedge       \* may the process stop reading its stdin without exiting?

ASSUME SidecarAssumption ==
  /\ HostWorkers \subseteq Nat \ {0} /\ IsFiniteSet(HostWorkers) /\ CanWedge \in BOOLEAN
  /\ {MaxSpawns, MaxIds, MaxAsks} \subseteq Nat

Lane == 0
Callers == {Lane} \union HostWorkers

VARIABLES
  spawned,        \* processes so far; the number of the current one
  alive, wedged,  \* the process, and whether it still reads
  stdin,          \* the process stdin_write leads to, or 0
  running, exited, process_started, host_shutdown,
  monitor,        \* monitor_thread
  reader,         \* stdout_thread
  life,           \* where the lane is in start or stop, and what follows the stop
  nextId, pending, \* next_request_id and the pending requests
  call,           \* the request each thread is in
  ioHolder,       \* the thread blocked in a write with io_mutex held, if any
  inbox, outbox,  \* frames on their way to and from the process
  hostQueue,      \* host_queue
  serving,        \* what each host worker is doing
  tokens,         \* cancellations: requests of the Agent in flight
  asks,           \* requests of the Agent so far
  replies         \* history: who asked and which process the reply was written to

procVars == <<spawned, alive, wedged>>
flagVars == <<running, exited, process_started, host_shutdown>>
rpcVars == <<nextId, pending, call>>
hostVars == <<hostQueue, serving, tokens, replies>>
pipeVars == <<stdin, ioHolder, inbox, outbox>>
sidecarVars == <<procVars, flagVars, monitor, reader, life, rpcVars, hostVars, pipeVars, asks>>

NoCall == [at |-> "none"]
Waiting == [at |-> "idle"]
Gone == [at |-> "gone"]

SidecarInit ==
  /\ spawned = 0 /\ alive = FALSE /\ wedged = FALSE
  /\ running = FALSE /\ exited = TRUE /\ process_started = FALSE /\ host_shutdown = FALSE
  /\ monitor = "none" /\ reader = "none" /\ life = [at |-> "idle", then |-> "idle"]
  /\ nextId = 1 /\ pending = {} 
  /\ call = [c \in Callers |-> NoCall]
  /\ stdin = 0 /\ ioHolder = {} /\ inbox = {} /\ outbox = {}
  /\ hostQueue = <<>> /\ serving = [w \in HostWorkers |-> Gone] /\ tokens = {} /\ asks = 0
  /\ replies = {}

----------------------------------------------------------------------------
(* request, and cancel_timed_out_run with its own request *)

\* Mutant of MayRegister: it looks for the process instead of the published flag.
MayRegisterAlways == process_started /\ nextId <= MaxIds

\* Under the mutex, with running.
MayRegister == running /\ nextId <= MaxIds

Register(c, kind) ==
  /\ MayRegister
  /\ nextId' = nextId + 1 /\ pending' = pending \union {nextId}
  /\ call' = [call EXCEPT ![c] = [at |-> "write", id |-> nextId, kind |-> kind, result |-> "none"]]

\* The lane asks when it is idle or initialises a process it has started; a worker from its handler.
MayAsk(c) ==
  /\ call[c] = NoCall
  /\ IF c = Lane THEN life.at \in {"idle", "initialize", "tools"} ELSE serving[c].at = "handle"

Request(c) ==
  /\ MayAsk(c)
  /\ \E kind \in IF c = Lane /\ life.at = "idle" THEN {"plain", "run"} ELSE {"plain"} : Register(c, kind)
  /\ UNCHANGED <<procVars, flagVars, monitor, reader, life, hostVars, pipeVars, asks>>

\* A request ends; start() goes on to its second request, returns, or stops what it started.
Return(c, ok) ==
  /\ call' = [call EXCEPT ![c] = NoCall]
  /\ life' = IF c # Lane \/ life.at \notin {"initialize", "tools"} THEN life
             ELSE [at |-> CASE ok /\ life.at = "initialize" -> "tools" [] ok -> "idle"
                            [] OTHER -> "close", then |-> "idle"]

\* write_line holds io_mutex.  The pipe of a process that does not read blocks the writer; a
\* closed stdin or an exited process fails the request.
WriteRequest(c) ==
  /\ call[c].at = "write" /\ ioHolder = {}
  /\ \/ /\ stdin = 0 \/ ~alive
        /\ pending' = pending \ {call[c].id} /\ Return(c, FALSE) /\ UNCHANGED <<inbox, ioHolder>>
     \/ /\ stdin # 0 /\ alive /\ ~wedged
        /\ inbox' = inbox \union {call[c].id}
        /\ call' = [call EXCEPT ![c].at = "wait"] /\ UNCHANGED <<pending, ioHolder, life>>
     \/ /\ stdin # 0 /\ alive /\ wedged
        /\ ioHolder' = {c}
        /\ call' = [call EXCEPT ![c].at = "blocked"] /\ UNCHANGED <<pending, inbox, life>>
  /\ UNCHANGED <<procVars, flagVars, monitor, reader, nextId, hostVars, stdin, outbox, asks>>

\* The process ends under a blocked write of a request or of a host worker's reply.
WriteBreaks(c) ==
  /\ ioHolder = {c} /\ ~alive /\ ioHolder' = {}
  /\ \/ /\ call[c].at = "blocked"
        /\ pending' = pending \ {call[c].id} /\ Return(c, FALSE) /\ UNCHANGED serving
     \/ /\ call[c] = NoCall /\ serving' = [serving EXCEPT ![c] = Waiting]
        /\ UNCHANGED <<pending, call, life>>
  /\ UNCHANGED <<procVars, flagVars, monitor, reader, nextId, hostQueue, tokens, replies,
                 stdin, inbox, outbox, asks>>

\* The deadline passes before an answer: the entry is withdrawn; a run that timed out is
\* stopped by a request of its own, if the process still runs.
TimeOut(c) ==
  /\ call[c].at = "wait" /\ call[c].result = "none"
  /\ pending' = pending \ {call[c].id}
  /\ IF call[c].kind = "run" THEN call' = [call EXCEPT ![c] = [at |-> "cancel"]] /\ UNCHANGED life
     ELSE Return(c, FALSE)
  /\ UNCHANGED <<procVars, flagVars, monitor, reader, nextId, hostVars, pipeVars, asks>>

CancelRun(c) ==
  /\ call[c].at = "cancel"
  /\ \/ Register(c, "stop")
     \/ ~MayRegister /\ call' = [call EXCEPT ![c] = NoCall] /\ UNCHANGED <<nextId, pending>>
  /\ UNCHANGED <<procVars, flagVars, monitor, reader, life, hostVars, pipeVars, asks>>

Woken(c) ==
  /\ call[c].at = "wait" /\ call[c].result # "none"
  /\ Return(c, call[c].result = "answer")
  /\ UNCHANGED <<procVars, flagVars, monitor, reader, nextId, pending, hostVars, pipeVars, asks>>

Awaits(c, ids) == call[c].at \in {"write", "blocked", "wait"} /\ call[c].id \in ids
Resolve(ids, how) ==
  /\ pending' = pending \ ids
  /\ call' = [c \in Callers |-> IF Awaits(c, ids \cap pending) THEN [call[c] EXCEPT !.result = how]
                                ELSE call[c]]

----------------------------------------------------------------------------
(* The process and the threads that watch it *)

Answer(id) ==
  /\ alive /\ ~wedged /\ id \in inbox
  /\ inbox' = inbox \ {id} /\ outbox' = outbox \union {[type |-> "answer", id |-> id]}
  /\ UNCHANGED <<procVars, flagVars, monitor, reader, life, rpcVars, hostVars, stdin, ioHolder, asks>>

\* The Agent asks the host for something, or to give up an earlier request.
AgentAsks(cancels) ==
  /\ alive /\ asks < MaxAsks /\ asks' = asks + 1
  /\ cancels \in 0 .. asks + 1
  /\ outbox' = outbox \union {[type |-> "ask", id |-> asks + 1, from |-> spawned, cancels |-> cancels]}
  /\ UNCHANGED <<procVars, flagVars, monitor, reader, life, rpcVars, hostVars, stdin, ioHolder, inbox>>

Wedge ==
  /\ CanWedge /\ alive /\ ~wedged /\ wedged' = TRUE
  /\ UNCHANGED <<spawned, alive, flagVars, monitor, reader, life, rpcVars, hostVars, pipeVars, asks>>

\* On its own, or because its stdin was closed.
ProcessExits ==
  /\ alive /\ alive' = FALSE /\ inbox' = {}
  /\ UNCHANGED <<spawned, wedged, flagVars, monitor, reader, life, rpcVars, hostVars, stdin, ioHolder,
                 outbox, asks>>

\* monitor_process: the exit is published, then the requests that wait are failed.
MonitorExit ==
  /\ monitor = "wait" /\ ~alive
  /\ running' = FALSE /\ exited' = TRUE /\ monitor' = "notify"
  /\ UNCHANGED <<procVars, process_started, host_shutdown, reader, life, rpcVars, hostVars, pipeVars, asks>>

notify_pending_of_exit ==
  /\ monitor = "notify" /\ monitor' = "ended"
  /\ Resolve(pending, "exit")
  /\ UNCHANGED <<procVars, flagVars, reader, life, nextId, hostVars, pipeVars, asks>>

\* process_frame_line: an answer completes its request if it is still pending, a request of the
\* Agent is queued unless the host shuts down.
complete_request(f) ==
  /\ f.type = "answer"
  /\ Resolve({f.id}, "answer") /\ UNCHANGED hostQueue
enqueue_host_request(f) ==
  /\ f.type = "ask"
  /\ hostQueue' = IF host_shutdown THEN hostQueue ELSE Append(hostQueue, f)
  /\ UNCHANGED <<pending, call>>

ReadFrame(f) ==
  /\ reader = "read" /\ f \in outbox /\ outbox' = outbox \ {f}
  /\ complete_request(f) \/ enqueue_host_request(f)
  /\ UNCHANGED <<procVars, flagVars, monitor, reader, life, nextId, serving, tokens, replies, stdin,
                 ioHolder, inbox, asks>>

ReadEnd ==
  /\ reader = "read" /\ ~alive /\ outbox = {} /\ reader' = "ended"
  /\ UNCHANGED <<procVars, flagVars, monitor, life, rpcVars, hostVars, pipeVars, asks>>

----------------------------------------------------------------------------
(* Host workers *)

TakeAsk(w) ==
  /\ serving[w] = Waiting /\ hostQueue # <<>>
  /\ serving' = [serving EXCEPT ![w] = [at |-> "take", ask |-> Head(hostQueue)]]
  /\ hostQueue' = Tail(hostQueue)
  /\ UNCHANGED <<procVars, flagVars, monitor, reader, life, rpcVars, tokens, replies, pipeVars, asks>>

WorkerEnds(w) ==
  /\ serving[w] = Waiting /\ host_shutdown /\ hostQueue = <<>>
  /\ serving' = [serving EXCEPT ![w] = Gone]
  /\ UNCHANGED <<procVars, flagVars, monitor, reader, life, rpcVars, hostQueue, tokens, replies, pipeVars, asks>>

\* handle_host_frame: a cancel takes the token of the request it names, if it is registered by
\* now; any other request registers its own and goes to the handler.
BeginHandle(w) ==
  /\ serving[w].at = "take"
  /\ LET ask == serving[w].ask IN
     IF ask.cancels > 0
     THEN tokens' = tokens \ {ask.cancels} /\ serving' = [serving EXCEPT ![w].at = "reply"]
     ELSE tokens' = tokens \union {ask.id} /\ serving' = [serving EXCEPT ![w].at = "handle"]
  /\ UNCHANGED <<procVars, flagVars, monitor, reader, life, rpcVars, hostQueue, replies, pipeVars, asks>>

\* The handler returns or throws, and its token is forgotten.
HandlerEnds(w) ==
  /\ serving[w].at = "handle" /\ call[w] = NoCall
  /\ serving' = [serving EXCEPT ![w].at = "reply"]
  /\ tokens' = tokens \ {serving[w].ask.id}
  /\ UNCHANGED <<procVars, flagVars, monitor, reader, life, rpcVars, hostQueue, replies, pipeVars, asks>>

\* A handler that needs the Agent calls ensure_started.  If the process is gone that is start(),
\* and start() is stop() first: from one of the threads that stop() is going to join.
WorkerStops(w) ==
  /\ serving[w].at = "handle" /\ call[w] = NoCall
  /\ ~running /\ process_started /\ ioHolder = {}
  /\ stdin' = 0 /\ host_shutdown' = TRUE
  /\ serving' = [serving EXCEPT ![w].at = "join"]
  /\ UNCHANGED <<procVars, running, exited, process_started, monitor, reader, life, rpcVars, hostQueue,
                 tokens, replies, ioHolder, inbox, outbox, asks>>

\* The workers before it end; joining itself is an error, which the handler reports.
WorkerJoinsItself(w) ==
  /\ serving[w].at = "join" /\ monitor \in {"none", "ended"}
  /\ \A v \in HostWorkers : v < w => serving[v] = Gone
  /\ serving' = [serving EXCEPT ![w].at = "reply"]
  /\ tokens' = tokens \ {serving[w].ask.id}
  /\ UNCHANGED <<procVars, flagVars, monitor, reader, life, rpcVars, hostQueue, replies, pipeVars, asks>>

WriteReply(w) ==
  /\ serving[w].at = "reply" /\ ioHolder = {}
  /\ IF stdin # 0 /\ alive /\ wedged
     THEN ioHolder' = {w} /\ serving' = [serving EXCEPT ![w].at = "blocked"] /\ UNCHANGED replies
     ELSE /\ serving' = [serving EXCEPT ![w] = Waiting] /\ UNCHANGED ioHolder
          /\ replies' = IF stdin # 0 /\ alive THEN replies \union {<<serving[w].ask.from, stdin>>} ELSE replies
  /\ UNCHANGED <<procVars, flagVars, monitor, reader, life, rpcVars, hostQueue, tokens, stdin, inbox, outbox, asks>>

----------------------------------------------------------------------------
(* start and stop, on the lane *)

LaneFree == life.at = "idle" /\ call[Lane] = NoCall

\* agent_kill, and the router's end.
BeginStop ==
  /\ LaneFree /\ running
  /\ life' = [at |-> "close", then |-> "idle"]
  /\ UNCHANGED <<procVars, flagVars, monitor, reader, rpcVars, hostVars, pipeVars, asks>>

BeginStart ==
  /\ LaneFree /\ ~running /\ spawned < MaxSpawns
  /\ life' = IF process_started \/ monitor # "none" THEN [at |-> "close", then |-> "spawn"]
             ELSE [at |-> "spawn", then |-> "idle"]
  /\ UNCHANGED <<procVars, flagVars, monitor, reader, rpcVars, hostVars, pipeVars, asks>>

StopCloses ==
  /\ life.at = "close" /\ ioHolder = {}
  /\ stdin' = 0 /\ life' = [life EXCEPT !.at = "wait"]
  /\ UNCHANGED <<procVars, flagVars, monitor, reader, rpcVars, hostVars, ioHolder, inbox, outbox, asks>>

\* Mutant of StopWaits: the wait has no deadline.
StopWaitsForExit ==
  /\ life.at = "wait" /\ exited
  /\ life' = [life EXCEPT !.at = "shutdown"]
  /\ UNCHANGED <<procVars, flagVars, monitor, reader, rpcVars, hostVars, pipeVars, asks>>

\* The wait ends with the exit or with its deadline; then the process is killed.
StopWaits ==
  /\ life.at = "wait"
  /\ life' = [life EXCEPT !.at = IF exited THEN "shutdown" ELSE "kill"]
  /\ UNCHANGED <<procVars, flagVars, monitor, reader, rpcVars, hostVars, pipeVars, asks>>

StopKills ==
  /\ life.at = "kill"
  /\ alive' = FALSE /\ inbox' = {} /\ life' = [life EXCEPT !.at = "killed"]
  /\ UNCHANGED <<spawned, wedged, flagVars, monitor, reader, rpcVars, hostVars, stdin, ioHolder, outbox, asks>>

\* force_exited_state when the monitor has not published the exit in time.
StopForces ==
  /\ life.at = "killed"
  /\ running' = FALSE /\ exited' = TRUE /\ life' = [life EXCEPT !.at = "shutdown"]
  /\ UNCHANGED <<procVars, process_started, host_shutdown, monitor, reader, rpcVars, hostVars, pipeVars, asks>>

StopShutsDown ==
  /\ life.at = "shutdown"
  /\ host_shutdown' = TRUE /\ life' = [life EXCEPT !.at = "join"]
  /\ UNCHANGED <<procVars, running, exited, process_started, monitor, reader, rpcVars, hostVars, pipeVars, asks>>

\* Mutant of Joined: the host workers are not waited for.
JoinedThreads == monitor \in {"none", "ended"} /\ reader \in {"none", "ended"}

Joined ==
  /\ monitor \in {"none", "ended"} /\ reader \in {"none", "ended"}
  /\ \A w \in HostWorkers : serving[w] = Gone

\* The threads are joined and the handles cleaned up.
StopJoins ==
  /\ life.at = "join" /\ Joined
  /\ running' = FALSE /\ process_started' = FALSE
  /\ monitor' = "none" /\ reader' = "none"
  /\ life' = [at |-> life.then, then |-> "idle"]
  /\ UNCHANGED <<procVars, exited, host_shutdown, rpcVars, hostVars, pipeVars, asks>>

\* spawn_process fails and leaves the client stopped (abort_start) ...
SpawnFails ==
  /\ life.at = "spawn"
  /\ running' = FALSE /\ exited' = TRUE /\ process_started' = FALSE /\ host_shutdown' = TRUE
  /\ stdin' = 0 /\ hostQueue' = <<>> /\ life' = [life EXCEPT !.at = "idle"]
  /\ UNCHANGED <<procVars, monitor, reader, rpcVars, serving, tokens, replies, ioHolder, inbox, outbox, asks>>

\* ... or there is a process, its flags are published and its threads started.
Spawn ==
  /\ life.at = "spawn" /\ spawned < MaxSpawns
  /\ spawned' = spawned + 1 /\ alive' = TRUE /\ wedged' = FALSE /\ stdin' = spawned + 1
  /\ running' = TRUE /\ exited' = FALSE /\ host_shutdown' = FALSE /\ process_started' = TRUE
  /\ monitor' = "wait" /\ reader' = "read"
  /\ hostQueue' = <<>>
  /\ serving' = [w \in HostWorkers |-> IF serving[w] = Gone THEN Waiting ELSE serving[w]]
  /\ life' = [at |-> "initialize", then |-> "idle"]
  /\ UNCHANGED <<rpcVars, tokens, replies, ioHolder, inbox, outbox, asks>>

\* The process has exited before start() could ask it.
StartRefused ==
  /\ life.at \in {"initialize", "tools"} /\ call[Lane] = NoCall /\ ~MayRegister
  /\ life' = [at |-> "close", then |-> "idle"]
  /\ UNCHANGED <<procVars, flagVars, monitor, reader, rpcVars, hostVars, pipeVars, asks>>

CallStep(c) == WriteRequest(c) \/ WriteBreaks(c) \/ TimeOut(c) \/ CancelRun(c) \/ Woken(c)
MonitorStep == MonitorExit \/ notify_pending_of_exit
ReaderStep == ReadEnd \/ \E f \in outbox : ReadFrame(f)
WorkerStep(w) ==
  \/ TakeAsk(w) \/ WorkerEnds(w) \/ BeginHandle(w) \/ HandlerEnds(w) \/ WriteReply(w)
  \/ WorkerJoinsItself(w)
StopStep == StopCloses \/ StopWaits \/ StopKills \/ StopForces \/ StopShutsDown \/ StopJoins

SidecarNext ==
  \/ \E c \in Callers : Request(c) \/ CallStep(c)
  \/ \E id \in inbox : Answer(id)
  \/ \E n \in 0 .. MaxAsks : AgentAsks(n)
  \/ Wedge \/ ProcessExits \/ MonitorStep \/ ReaderStep
  \/ \E w \in HostWorkers : WorkerStep(w) \/ WorkerStops(w)
  \/ BeginStop \/ BeginStart \/ StopStep \/ SpawnFails \/ Spawn \/ StartRefused

\* The host's threads are scheduled and the handlers' remote calls have deadlines; nothing is
\* asked of the process.
SidecarFairness ==
  /\ \A c \in Callers : WF_sidecarVars(CallStep(c))
  /\ WF_sidecarVars(MonitorStep) /\ WF_sidecarVars(ReaderStep)
  /\ \A w \in HostWorkers : WF_sidecarVars(WorkerStep(w))
  /\ WF_sidecarVars(StopStep)

SidecarSpec == SidecarInit /\ [][SidecarNext]_sidecarVars /\ SidecarFairness

----------------------------------------------------------------------------
(* Properties *)

SidecarTypeOK ==
  /\ monitor \in {"none", "wait", "notify", "ended"} /\ reader \in {"none", "read", "ended"}
  /\ stdin \in 0 .. MaxSpawns /\ ioHolder \subseteq Callers
  /\ pending \subseteq 1 .. MaxIds /\ \A f \in outbox : f.type \in {"ask", "answer"}
  /\ \A w \in HostWorkers : serving[w].at \in {"gone", "idle", "take", "handle", "join", "reply", "blocked"}

\* Nobody is left waiting on a process that is gone: once the monitor has failed what was
\* pending, nothing is, however the last requests and the exit interleaved.
NoRequestStranded == monitor \in {"none", "ended"} => pending = {}

\* A host worker's answer goes to the process that asked, not to its successor, which numbers
\* its requests from one again (stop joins the workers before another process is spawned).
ReplyReachesAsker == \A r \in replies : r[1] = r[2]

\* "a failed or wedged spawn must never leave stop() blocked forever" (SidecarClient::stop).
StopReturns == life.at = "close" ~> life.at \in {"idle", "spawn"}

\* Every request of the host and of the Agent ends with its own asker: answered or failed, and
\* never by another process of the sidecar.
AnswersFindAskers == NoRequestStranded /\ ReplyReachesAsker
=============================================================================
