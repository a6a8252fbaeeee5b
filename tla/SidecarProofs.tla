---------------------------- MODULE SidecarProofs ----------------------------
(***************************************************************************)
(* Requests of the host and of the Agent end with their own askers, for     *)
(* any number of host workers, processes and requests, wedged processes     *)
(* included.  `Attended` says why: whatever is on its way or being served   *)
(* comes from the process that runs now, because a successor is spawned     *)
(* only when the reader has drained its predecessor's pipe and every host   *)
(* worker has ended; and a thread that is blocked in a write is known by    *)
(* what it was doing, so a write that breaks revives no joined worker.      *)
(* Requests of the windows are counted and answered once (`Dispatched`):    *)
(* each waits at one place of its lane, a job counts what its waiters sent, *)
(* and a completion is called of one who then waits nowhere.                *)
(***************************************************************************)
EXTENDS MCSidecar, SequenceTheorems, FiniteSetTheorems, WellFoundedInduction, TLAPS

USE DEF procVars, flagVars, rpcVars, hostVars, pipeVars

AgentAsk == [type : {"ask"}, id : Nat, from : Nat, cancels : Nat]
Busy == [at : {"take", "handle", "join", "reply", "blocked"}, ask : AgentAsk]
Calling == [at : {"write", "blocked", "wait"}, id : Nat, kind : {"plain", "run", "stop"},
            result : {"none", "answer", "exit"}]
LifePlaces == {"idle", "close", "wait", "kill", "killed", "shutdown", "join", "spawn", "initialize",
               "tools"}

SidecarShape ==
  /\ spawned \in Nat /\ nextId \in Nat /\ asks \in Nat
  /\ serving \in [HostWorkers -> {Gone, Waiting} \union Busy]
  /\ call \in [Callers -> {NoCall, [at |-> "cancel"]} \union Calling]
  /\ life \in [at : LifePlaces, then : {"idle", "spawn"}]
  /\ monitor \in {"none", "wait", "notify", "ended"} /\ reader \in {"none", "read", "ended"}

\* Nothing of an earlier process is left anywhere.
OwnAsk(a) == a \in AgentAsk /\ a.from = spawned
OfThisProcess ==
  /\ \A f \in outbox : f.type = "ask" => OwnAsk(f)
  /\ hostQueue \in Seq(AgentAsk) /\ \A i \in 1 .. Len(hostQueue) : OwnAsk(hostQueue[i])
  /\ \A w \in HostWorkers : serving[w] \in Busy => OwnAsk(serving[w].ask)
  /\ stdin # 0 => stdin = spawned

\* Between two processes every thread has been joined.
AtRest == reader = "none" /\ monitor = "none" /\ \A w \in HostWorkers : serving[w] = Gone
Watched ==
  /\ reader # "read" => ~alive /\ outbox = {}
  /\ life.at = "spawn" \/ ~process_started => AtRest
  /\ running => monitor = "wait" /\ process_started

\* A thread in a write is known by what it was doing.
WriterIsKnown ==
  \A c \in ioHolder : /\ c \in Callers
                      /\ call[c].at = "blocked" \/ (c \in HostWorkers /\ serving[c].at = "blocked")

Attended == SidecarShape /\ OfThisProcess /\ Watched /\ WriterIsKnown /\ AnswersFindAskers

-----------------------------------------------------------------------------
(* Frames                                                                  *)

\* A worker that is busy is neither gone nor idle.
LEMMA BusyIsBusy ==
  /\ Gone \notin Busy /\ Waiting \notin Busy /\ NoCall \notin Calling /\ [at |-> "cancel"] \notin Calling
  /\ Gone # Waiting /\ Gone.at = "gone" /\ Waiting.at = "idle" /\ NoCall.at = "none"
BY DEF Gone, Waiting, NoCall, Busy, Calling

\* What is said of the asks depends on these variables only.
LEMMA OfThisProcessStays ==
  ASSUME OfThisProcess, UNCHANGED <<spawned, outbox, hostQueue, serving, stdin>>
  PROVE  OfThisProcess'
BY DEF OfThisProcess, OwnAsk

\* A step of the calls alone: no thread in a write is touched, and nothing is registered unless
\* the process runs.
LEMMA CallsStep ==
  ASSUME Attended,
         call' \in [Callers -> {NoCall, [at |-> "cancel"]} \union Calling], nextId' \in Nat,
         life' \in [at : LifePlaces, then : {"idle", "spawn"}], life'.at = "spawn" => life.at = "spawn",
         pending' \subseteq pending \/ running,
         \A c \in ioHolder' : /\ c \in Callers
                              /\ c \in ioHolder \/ call'[c].at = "blocked"
                              /\ call[c].at = "blocked" => call'[c].at = "blocked",
         UNCHANGED <<procVars, flagVars, monitor, reader, hostVars, stdin, outbox, asks>>
  PROVE  Attended'
<1>0. SidecarShape /\ OfThisProcess /\ Watched /\ WriterIsKnown /\ AnswersFindAskers BY DEF Attended
<1>1. SidecarShape' BY <1>0 DEF SidecarShape
<1>2. OfThisProcess' BY <1>0, OfThisProcessStays
<1>3. Watched' BY <1>0 DEF Watched, AtRest
<1>4. WriterIsKnown' BY <1>0 DEF WriterIsKnown
<1>5. AnswersFindAskers'
  <2>1. running => monitor = "wait" BY <1>0 DEF Watched
  <2>2. QED BY <1>0, <2>1 DEF AnswersFindAskers, NoRequestStranded, ReplyReachesAsker
<1>6. QED BY <1>1, <1>2, <1>3, <1>4, <1>5 DEF Attended

\* A step of one worker: what it serves then is of this process, and it is not revived.
LEMMA WorkerMoves ==
  ASSUME Attended, NEW w \in HostWorkers, serving[w] # Gone,
         NEW s \in {Gone, Waiting} \union Busy, serving' = [serving EXCEPT ![w] = s],
         s \in Busy => OwnAsk(s.ask),
         hostQueue' \in Seq(AgentAsk), \A i \in 1 .. Len(hostQueue') : OwnAsk(hostQueue'[i]),
         stdin' \in {0, stdin},
         ioHolder' = ioHolder \/ ioHolder' = {} \/ (ioHolder' = {w} /\ s.at = "blocked"),
         serving[w].at # "blocked" \/ ioHolder' = {},
         \A r \in replies' : r \in replies \/ r[1] = r[2],
         UNCHANGED <<procVars, running, exited, process_started, monitor, reader, life, rpcVars, outbox,
                     asks>>
  PROVE  Attended'
<1>0. SidecarShape /\ OfThisProcess /\ Watched /\ WriterIsKnown /\ AnswersFindAskers BY DEF Attended
<1>1. serving'[w] = s /\ \A v \in HostWorkers \ {w} : serving'[v] = serving[v] BY <1>0 DEF SidecarShape
<1>2. SidecarShape' BY <1>0, <1>1 DEF SidecarShape
<1>3. OfThisProcess'
  <2>1. \A v \in HostWorkers : serving'[v] \in Busy => OwnAsk(serving'[v].ask) BY <1>0, <1>1 DEF OfThisProcess
  <2>2. QED BY <1>0, <2>1 DEF OfThisProcess, OwnAsk
<1>4. Watched' BY <1>0 DEF Watched, AtRest
<1>5. WriterIsKnown' BY <1>0, <1>1 DEF WriterIsKnown, Callers
<1>6. AnswersFindAskers' BY <1>0 DEF AnswersFindAskers, NoRequestStranded, ReplyReachesAsker
<1>7. QED BY <1>2, <1>3, <1>4, <1>5, <1>6 DEF Attended

\* The call of one thread ends or goes on; the others' stay.
LEMMA CallUpdate ==
  ASSUME SidecarShape, NEW c \in Callers, NEW r \in {NoCall, [at |-> "cancel"]} \union Calling,
         call' = [call EXCEPT ![c] = r]
  PROVE  /\ call' \in [Callers -> {NoCall, [at |-> "cancel"]} \union Calling]
         /\ call'[c] = r /\ \A d \in Callers \ {c} : call'[d] = call[d]
BY DEF SidecarShape

\* A request ends; start() goes on, returns, or stops what it started.
LEMMA Returns ==
  ASSUME SidecarShape, NEW c \in Callers, NEW ok \in BOOLEAN, Return(c, ok)
  PROVE  /\ call' \in [Callers -> {NoCall, [at |-> "cancel"]} \union Calling]
         /\ \A d \in Callers \ {c} : call'[d] = call[d]
         /\ life' \in [at : LifePlaces, then : {"idle", "spawn"}]
         /\ life'.at = "spawn" => life.at = "spawn"
<1>1. call' = [call EXCEPT ![c] = NoCall] BY DEF Return
<1>2. life' = life \/ \E p \in {"tools", "idle", "close"} : life' = [at |-> p, then |-> "idle"]
  BY DEF Return
<1>3. life' \in [at : LifePlaces, then : {"idle", "spawn"}] /\ (life'.at = "spawn" => life.at = "spawn")
  BY <1>2 DEF SidecarShape, LifePlaces
<1>4. QED BY <1>1, <1>3, CallUpdate

\* A result is left for the requests that await one; nobody's place in a request changes.
LEMMA Resolved ==
  ASSUME SidecarShape, NEW ids, NEW how \in {"answer", "exit"}, Resolve(ids, how)
  PROVE  /\ call' \in [Callers -> {NoCall, [at |-> "cancel"]} \union Calling]
         /\ \A c \in Callers : call'[c].at = call[c].at
         /\ pending' = pending \ ids
<1> DEFINE next(c) == IF Awaits(c, ids \cap pending) THEN [call[c] EXCEPT !.result = how] ELSE call[c]
<1>1. pending' = pending \ ids /\ call' = [c \in Callers |-> next(c)] BY DEF Resolve
<1>2. ASSUME NEW c \in Callers
      PROVE  next(c) \in {NoCall, [at |-> "cancel"]} \union Calling /\ next(c).at = call[c].at
  <2>1. call[c] \in {NoCall, [at |-> "cancel"]} \union Calling BY DEF SidecarShape
  <2>2. CASE Awaits(c, ids \cap pending)
    <3>1. call[c] \in Calling BY <2>1, <2>2, BusyIsBusy DEF Awaits
    <3>2. /\ [call[c] EXCEPT !.result = how] \in Calling
          /\ [call[c] EXCEPT !.result = how].at = call[c].at
      BY <3>1 DEF Calling
    <3>3. QED BY <2>2, <3>2
  <2>3. CASE ~Awaits(c, ids \cap pending) BY <2>1, <2>3
  <2>4. QED BY <2>2, <2>3
<1> HIDE DEF next
<1>3. QED BY <1>1, <1>2

\* What holds of everything in a queue and of what is appended holds of everything in it then.
LEMMA QueueGrows ==
  ASSUME NEW q \in Seq(AgentAsk), \A i \in 1 .. Len(q) : OwnAsk(q[i]), NEW a, OwnAsk(a)
  PROVE  Append(q, a) \in Seq(AgentAsk) /\ \A i \in 1 .. Len(Append(q, a)) : OwnAsk(Append(q, a)[i])
<1>1. a \in AgentAsk BY DEF OwnAsk
<1>2. /\ Append(q, a) \in Seq(AgentAsk) /\ Len(Append(q, a)) = Len(q) + 1 /\ Len(q) \in Nat
      /\ \A i \in 1 .. Len(q) : Append(q, a)[i] = q[i]
      /\ Append(q, a)[Len(q) + 1] = a
  BY <1>1, AppendProperties, LenProperties
<1>3. \A i \in 1 .. Len(q) + 1 : i \in 1 .. Len(q) \/ i = Len(q) + 1 BY <1>2
<1>4. QED BY <1>2, <1>3

\* The first of a queue and the rest of it are what the queue held.
LEMMA QueueShrinks ==
  ASSUME NEW q \in Seq(AgentAsk), \A i \in 1 .. Len(q) : OwnAsk(q[i]), q # <<>>
  PROVE  /\ OwnAsk(Head(q)) /\ Tail(q) \in Seq(AgentAsk)
         /\ \A i \in 1 .. Len(Tail(q)) : OwnAsk(Tail(q)[i])
<1>1. Len(q) \in Nat /\ Len(q) # 0 BY EmptySeq, LenProperties
<1>2. /\ Tail(q) \in Seq(AgentAsk) /\ Len(Tail(q)) = Len(q) - 1 /\ Head(q) = q[1]
      /\ \A i \in 1 .. Len(Tail(q)) : Tail(q)[i] = q[i + 1]
  BY HeadTailProperties
<1>3. 1 \in 1 .. Len(q) /\ \A i \in 1 .. Len(q) - 1 : i + 1 \in 1 .. Len(q) BY <1>1
<1>4. QED BY <1>1, <1>2, <1>3

-----------------------------------------------------------------------------
(* Every step keeps Attended                                               *)

\* Requests of the host: registered while the process runs, written, answered, failed, given up.
LEMMA AttendedCall ==
  ASSUME Attended, NEW c \in Callers, Request(c) \/ CallStep(c)
  PROVE  Attended'
<1>0. SidecarShape /\ OfThisProcess /\ Watched /\ WriterIsKnown BY DEF Attended
<1>1. call[c] \in {NoCall, [at |-> "cancel"]} \union Calling /\ nextId \in Nat /\ nextId + 1 \in Nat
  BY <1>0 DEF SidecarShape
<1> DEFINE new(kind) == [at |-> "write", id |-> nextId, kind |-> kind, result |-> "none"]
<1>2. \A kind \in {"plain", "run", "stop"} : new(kind) \in Calling BY <1>1 DEF Calling
<1>3. CASE Request(c)
  <2>1. PICK kind \in {"plain", "run"} : Register(c, kind) BY <1>3 DEF Request
  <2>2. /\ call[c] = NoCall /\ call' = [call EXCEPT ![c] = new(kind)] /\ running /\ nextId' = nextId + 1
        /\ UNCHANGED <<procVars, flagVars, monitor, reader, life, hostVars, pipeVars, asks>>
    BY <1>3, <2>1 DEF Request, Register, MayRegister, MayAsk
  <2> HIDE DEF new
  <2>3. /\ call' \in [Callers -> {NoCall, [at |-> "cancel"]} \union Calling]
        /\ \A d \in Callers \ {c} : call'[d] = call[d]
    BY <1>0, <1>2, <2>2, CallUpdate
  <2>4. call[c].at # "blocked" BY <2>2, BusyIsBusy
  <2>5. ioHolder' = ioHolder /\ ioHolder \subseteq Callers BY <1>0, <2>2 DEF WriterIsKnown
  <2>6. QED BY <1>0, <1>1, <2>2, <2>3, <2>4, <2>5, CallsStep DEF SidecarShape
<1>4. CASE WriteRequest(c)
  <2>1. /\ call[c].at = "write" /\ ioHolder = {}
        /\ UNCHANGED <<procVars, flagVars, monitor, reader, nextId, hostVars, stdin, outbox, asks>>
    BY <1>4 DEF WriteRequest
  <2>2. call[c] \in Calling BY <1>1, <2>1, BusyIsBusy
  <2>3. CASE pending' = pending \ {call[c].id} /\ Return(c, FALSE) /\ UNCHANGED <<inbox, ioHolder>>
    BY <1>0, <1>1, <2>1, <2>3, Returns, CallsStep
  <2>4. CASE call' = [call EXCEPT ![c].at = "wait"] /\ UNCHANGED <<pending, ioHolder, life>>
    <3>1. [call[c] EXCEPT !.at = "wait"] \in Calling BY <2>2 DEF Calling
    <3>2. call' \in [Callers -> {NoCall, [at |-> "cancel"]} \union Calling]
      BY <1>0, <2>4, <3>1, CallUpdate
    <3>3. QED BY <1>0, <1>1, <2>1, <2>4, <3>2, CallsStep DEF SidecarShape
  <2>5. CASE ioHolder' = {c} /\ call' = [call EXCEPT ![c].at = "blocked"] /\ UNCHANGED <<pending, inbox, life>>
    <3>1. [call[c] EXCEPT !.at = "blocked"] \in Calling /\ [call[c] EXCEPT !.at = "blocked"].at = "blocked"
      BY <2>2 DEF Calling
    <3>2. /\ call' \in [Callers -> {NoCall, [at |-> "cancel"]} \union Calling]
          /\ call'[c] = [call[c] EXCEPT !.at = "blocked"]
      BY <1>0, <2>5, <3>1, CallUpdate
    <3>3. call'[c].at = "blocked" BY <3>1, <3>2
    <3>4. QED BY <1>0, <1>1, <2>1, <2>5, <3>2, <3>3, CallsStep DEF SidecarShape
  <2>6. QED BY <1>4, <2>3, <2>4, <2>5 DEF WriteRequest
<1>5. CASE WriteBreaks(c)
  <2>1. ioHolder = {c} /\ ioHolder' = {} BY <1>5 DEF WriteBreaks
  <2>2. CASE call[c].at = "blocked" /\ pending' = pending \ {call[c].id} /\ Return(c, FALSE) /\ UNCHANGED serving
    <3>1. UNCHANGED <<procVars, flagVars, monitor, reader, nextId, hostVars, stdin, outbox, asks>>
      BY <1>5, <2>2 DEF WriteBreaks
    <3>2. QED BY <1>0, <1>1, <2>1, <2>2, <3>1, Returns, CallsStep
  <2>3. CASE /\ call[c] = NoCall /\ serving' = [serving EXCEPT ![c] = Waiting]
             /\ UNCHANGED <<pending, call, life>>
    <3>1. c \in HostWorkers /\ serving[c].at = "blocked" BY <1>0, <2>1, <2>3, BusyIsBusy DEF WriterIsKnown
    <3>2. serving[c] # Gone /\ Waiting \notin Busy BY <3>1, BusyIsBusy
    <3>3. UNCHANGED <<procVars, flagVars, monitor, reader, nextId, hostQueue, replies, stdin, outbox, asks>>
      BY <1>5 DEF WriteBreaks
    <3>4. hostQueue \in Seq(AgentAsk) /\ \A i \in 1 .. Len(hostQueue) : OwnAsk(hostQueue[i])
      BY <1>0 DEF OfThisProcess
    <3>5. QED BY <2>1, <2>3, <3>1, <3>2, <3>3, <3>4, WorkerMoves
  <2>4. QED BY <1>5, <2>2, <2>3 DEF WriteBreaks
<1>6. CASE TimeOut(c)
  <2>1. /\ call[c].at = "wait" /\ pending' = pending \ {call[c].id}
        /\ UNCHANGED <<procVars, flagVars, monitor, reader, nextId, hostVars, pipeVars, asks>>
        /\ \/ call' = [call EXCEPT ![c] = [at |-> "cancel"]] /\ UNCHANGED life
           \/ Return(c, FALSE)
    BY <1>6 DEF TimeOut
  <2>2. ioHolder' = ioHolder /\ ioHolder \subseteq Callers BY <1>0, <2>1 DEF WriterIsKnown
  <2>3. CASE Return(c, FALSE) BY <1>0, <1>1, <2>1, <2>2, <2>3, Returns, CallsStep
  <2>4. CASE call' = [call EXCEPT ![c] = [at |-> "cancel"]] /\ UNCHANGED life
    <3>1. /\ call' \in [Callers -> {NoCall, [at |-> "cancel"]} \union Calling]
          /\ \A d \in Callers \ {c} : call'[d] = call[d]
      BY <1>0, <2>4, CallUpdate
    <3>2. QED BY <1>0, <1>1, <2>1, <2>2, <2>4, <3>1, CallsStep DEF SidecarShape
  <2>5. QED BY <2>1, <2>3, <2>4
<1>7. CASE CancelRun(c)
  <2>1. /\ call[c].at = "cancel"
        /\ UNCHANGED <<procVars, flagVars, monitor, reader, life, hostVars, pipeVars, asks>>
    BY <1>7 DEF CancelRun
  <2>2. ioHolder' = ioHolder /\ ioHolder \subseteq Callers BY <1>0, <2>1 DEF WriterIsKnown
  <2>3. CASE Register(c, "stop")
    <3>1. call' = [call EXCEPT ![c] = new("stop")] /\ running /\ nextId' = nextId + 1
      BY <2>3 DEF Register, MayRegister
    <3> HIDE DEF new
    <3>2. /\ call' \in [Callers -> {NoCall, [at |-> "cancel"]} \union Calling]
          /\ \A d \in Callers \ {c} : call'[d] = call[d]
      BY <1>0, <1>2, <3>1, CallUpdate
    <3>3. QED BY <1>0, <1>1, <2>1, <2>2, <3>1, <3>2, CallsStep DEF SidecarShape
  <2>4. CASE call' = [call EXCEPT ![c] = NoCall] /\ UNCHANGED <<nextId, pending>>
    <3>1. /\ call' \in [Callers -> {NoCall, [at |-> "cancel"]} \union Calling]
          /\ \A d \in Callers \ {c} : call'[d] = call[d]
      BY <1>0, <2>4, CallUpdate
    <3>2. QED BY <1>0, <1>1, <2>1, <2>2, <2>4, <3>1, CallsStep DEF SidecarShape
  <2>5. QED BY <1>7, <2>3, <2>4 DEF CancelRun
<1>8. CASE Woken(c)
  <2>1. /\ call[c].at = "wait" /\ Return(c, call[c].result = "answer")
        /\ UNCHANGED <<procVars, flagVars, monitor, reader, nextId, pending, hostVars, pipeVars, asks>>
    BY <1>8 DEF Woken
  <2>2. ioHolder' = ioHolder /\ ioHolder \subseteq Callers BY <1>0, <2>1 DEF WriterIsKnown
  <2>3. PICK ok \in BOOLEAN : ok = (call[c].result = "answer") OBVIOUS
  <2>4. Return(c, ok) BY <2>1, <2>3
  <2>5. QED BY <1>0, <1>1, <2>1, <2>2, <2>4, Returns, CallsStep
<1>9. QED BY <1>3, <1>4, <1>5, <1>6, <1>7, <1>8 DEF CallStep

\* The process answers, asks, wedges or exits; its monitor publishes the exit and fails what waits.
LEMMA AttendedProcess ==
  ASSUME Attended,
         \/ \E id \in inbox : Answer(id)
         \/ \E n \in 0 .. MaxAsks : AgentAsks(n)
         \/ Wedge \/ ProcessExits \/ MonitorStep
  PROVE  Attended'
<1>0. SidecarShape /\ OfThisProcess /\ Watched /\ WriterIsKnown /\ AnswersFindAskers BY DEF Attended
<1>1. ASSUME NEW id \in inbox, Answer(id) PROVE Attended'
  <2>1. /\ alive /\ outbox' = outbox \union {[type |-> "answer", id |-> id]}
        /\ UNCHANGED <<procVars, flagVars, monitor, reader, life, rpcVars, hostVars, stdin, ioHolder, asks>>
    BY <1>1 DEF Answer
  <2>2. SidecarShape' BY <1>0, <2>1 DEF SidecarShape
  <2>3. OfThisProcess'
    <3>1. \A f \in outbox' : f.type = "ask" => OwnAsk(f) BY <1>0, <2>1 DEF OfThisProcess
    <3>2. QED BY <1>0, <2>1, <3>1 DEF OfThisProcess, OwnAsk
  <2>4. Watched' BY <1>0, <2>1 DEF Watched, AtRest
  <2>5. WriterIsKnown' BY <1>0, <2>1 DEF WriterIsKnown
  <2>6. AnswersFindAskers' BY <1>0, <2>1 DEF AnswersFindAskers, NoRequestStranded, ReplyReachesAsker
  <2>7. QED BY <2>2, <2>3, <2>4, <2>5, <2>6 DEF Attended
<1>2. ASSUME NEW n \in 0 .. MaxAsks, AgentAsks(n) PROVE Attended'
  <2> DEFINE ask == [type |-> "ask", id |-> asks + 1, from |-> spawned, cancels |-> n]
  <2>1. /\ alive /\ asks' = asks + 1 /\ n \in Nat /\ outbox' = outbox \union {ask}
        /\ UNCHANGED <<procVars, flagVars, monitor, reader, life, rpcVars, hostVars, stdin, ioHolder>>
    BY <1>2, SidecarAssumption DEF AgentAsks
  <2>2. OwnAsk(ask) BY <1>0, <2>1 DEF OwnAsk, AgentAsk, SidecarShape
  <2> HIDE DEF ask
  <2>3. SidecarShape' BY <1>0, <2>1 DEF SidecarShape
  <2>4. OfThisProcess'
    <3>1. \A f \in outbox' : f.type = "ask" => OwnAsk(f) BY <1>0, <2>1, <2>2 DEF OfThisProcess
    <3>2. QED BY <1>0, <2>1, <3>1 DEF OfThisProcess, OwnAsk
  <2>5. Watched' BY <1>0, <2>1 DEF Watched, AtRest
  <2>6. WriterIsKnown' BY <1>0, <2>1 DEF WriterIsKnown
  <2>7. AnswersFindAskers' BY <1>0, <2>1 DEF AnswersFindAskers, NoRequestStranded, ReplyReachesAsker
  <2>8. QED BY <2>3, <2>4, <2>5, <2>6, <2>7 DEF Attended
<1>3. CASE Wedge \/ ProcessExits
  <2>1. /\ ~alive => ~alive'
        /\ UNCHANGED <<spawned, flagVars, monitor, reader, life, rpcVars, hostVars, stdin, ioHolder, outbox, asks>>
    BY <1>3 DEF Wedge, ProcessExits
  <2>2. SidecarShape' BY <1>0, <2>1 DEF SidecarShape
  <2>3. OfThisProcess' BY <1>0, <2>1, OfThisProcessStays
  <2>4. Watched' BY <1>0, <2>1 DEF Watched, AtRest
  <2>5. WriterIsKnown' BY <1>0, <2>1 DEF WriterIsKnown
  <2>6. AnswersFindAskers' BY <1>0, <2>1 DEF AnswersFindAskers, NoRequestStranded, ReplyReachesAsker
  <2>7. QED BY <2>2, <2>3, <2>4, <2>5, <2>6 DEF Attended
<1>4. CASE MonitorExit
  <2>1. /\ monitor = "wait" /\ running' = FALSE /\ monitor' = "notify"
        /\ UNCHANGED <<procVars, process_started, host_shutdown, reader, life, rpcVars, hostVars, pipeVars, asks>>
    BY <1>4 DEF MonitorExit
  <2>2. SidecarShape' BY <1>0, <2>1 DEF SidecarShape
  <2>3. OfThisProcess' BY <1>0, <2>1, OfThisProcessStays
  <2>4. Watched' BY <1>0, <2>1 DEF Watched, AtRest
  <2>5. WriterIsKnown' BY <1>0, <2>1 DEF WriterIsKnown
  <2>6. AnswersFindAskers' BY <1>0, <2>1 DEF AnswersFindAskers, NoRequestStranded, ReplyReachesAsker
  <2>7. QED BY <2>2, <2>3, <2>4, <2>5, <2>6 DEF Attended
<1>5. CASE notify_pending_of_exit
  <2>1. /\ monitor = "notify" /\ monitor' = "ended" /\ Resolve(pending, "exit")
        /\ UNCHANGED <<procVars, flagVars, reader, life, nextId, hostVars, pipeVars, asks>>
    BY <1>5 DEF notify_pending_of_exit
  <2>2. /\ call' \in [Callers -> {NoCall, [at |-> "cancel"]} \union Calling]
        /\ \A c \in Callers : call'[c].at = call[c].at
        /\ pending' = pending \ pending
    BY <1>0, <2>1, Resolved
  <2>3. SidecarShape' BY <1>0, <2>1, <2>2 DEF SidecarShape
  <2>4. OfThisProcess' BY <1>0, <2>1, OfThisProcessStays
  <2>5. Watched' BY <1>0, <2>1 DEF Watched, AtRest
  <2>6. WriterIsKnown' BY <1>0, <2>1, <2>2 DEF WriterIsKnown
  <2>7. AnswersFindAskers' BY <1>0, <2>1, <2>2 DEF AnswersFindAskers, NoRequestStranded, ReplyReachesAsker
  <2>8. QED BY <2>3, <2>4, <2>5, <2>6, <2>7 DEF Attended
<1>6. QED BY <1>1, <1>2, <1>3, <1>4, <1>5 DEF MonitorStep

\* The reader: an answer completes its request, an ask is queued or refused, and the end of the
\* pipe is reached only when nothing is left in it.
LEMMA AttendedReader ==
  ASSUME Attended, ReaderStep
  PROVE  Attended'
<1>0. SidecarShape /\ OfThisProcess /\ Watched /\ WriterIsKnown /\ AnswersFindAskers BY DEF Attended
<1>1. CASE ReadEnd
  <2>1. /\ ~alive /\ outbox = {} /\ reader' = "ended"
        /\ UNCHANGED <<procVars, flagVars, monitor, life, rpcVars, hostVars, pipeVars, asks>>
        /\ reader = "read"
    BY <1>1 DEF ReadEnd
  <2>2. SidecarShape' BY <1>0, <2>1 DEF SidecarShape
  <2>3. OfThisProcess' BY <1>0, <2>1, OfThisProcessStays
  <2>4. Watched' BY <1>0, <2>1 DEF Watched, AtRest
  <2>5. WriterIsKnown' BY <1>0, <2>1 DEF WriterIsKnown
  <2>6. AnswersFindAskers' BY <1>0, <2>1 DEF AnswersFindAskers, NoRequestStranded, ReplyReachesAsker
  <2>7. QED BY <2>2, <2>3, <2>4, <2>5, <2>6 DEF Attended
<1>2. ASSUME NEW f \in outbox, ReadFrame(f) PROVE Attended'
  <2>1. /\ reader = "read" /\ outbox' = outbox \ {f}
        /\ UNCHANGED <<procVars, flagVars, monitor, reader, life, nextId, serving, tokens, replies, stdin,
                       ioHolder, inbox, asks>>
        /\ complete_request(f) \/ enqueue_host_request(f)
    BY <1>2 DEF ReadFrame
  <2>2. /\ call' \in [Callers -> {NoCall, [at |-> "cancel"]} \union Calling]
        /\ \A c \in Callers : call'[c].at = call[c].at
        /\ pending' \subseteq pending
    <3>1. CASE complete_request(f)
      <4>1. Resolve({f.id}, "answer") BY <3>1 DEF complete_request
      <4>2. QED BY <1>0, <4>1, Resolved
    <3>2. CASE enqueue_host_request(f) BY <1>0, <3>2 DEF enqueue_host_request, SidecarShape
    <3>3. QED BY <2>1, <3>1, <3>2
  <2>3. hostQueue' \in Seq(AgentAsk) /\ \A i \in 1 .. Len(hostQueue') : OwnAsk(hostQueue'[i])
    <3>1. CASE hostQueue' = hostQueue BY <1>0, <3>1 DEF OfThisProcess
    <3>2. CASE f.type = "ask" /\ hostQueue' = Append(hostQueue, f)
      <4>1. OwnAsk(f) BY <1>0, <1>2, <3>2 DEF OfThisProcess
      <4>2. QED BY <1>0, <3>2, <4>1, QueueGrows DEF OfThisProcess
    <3>3. QED BY <2>1, <3>1, <3>2 DEF complete_request, enqueue_host_request
  <2>4. SidecarShape' BY <1>0, <2>1, <2>2 DEF SidecarShape
  <2>5. OfThisProcess'
    <3>1. \A g \in outbox' : g.type = "ask" => OwnAsk(g) BY <1>0, <2>1 DEF OfThisProcess
    <3>2. QED BY <1>0, <2>1, <2>3, <3>1 DEF OfThisProcess, OwnAsk
  <2>6. Watched' BY <1>0, <2>1 DEF Watched, AtRest
  <2>7. WriterIsKnown' BY <1>0, <2>1, <2>2 DEF WriterIsKnown
  <2>8. AnswersFindAskers' BY <1>0, <2>1, <2>2 DEF AnswersFindAskers, NoRequestStranded, ReplyReachesAsker
  <2>9. QED BY <2>4, <2>5, <2>6, <2>7, <2>8 DEF Attended
<1>3. QED BY <1>1, <1>2 DEF ReaderStep

\* A worker takes an ask, handles it, replies, ends, or tries to stop the sidecar itself.
LEMMA AttendedWorker ==
  ASSUME Attended, NEW w \in HostWorkers, WorkerStep(w) \/ WorkerStops(w)
  PROVE  Attended'
<1>0. SidecarShape /\ OfThisProcess /\ Watched /\ WriterIsKnown BY DEF Attended
<1>1. serving[w] \in {Gone, Waiting} \union Busy /\ (serving[w] \in Busy => OwnAsk(serving[w].ask))
  BY <1>0 DEF SidecarShape, OfThisProcess
<1>2. hostQueue \in Seq(AgentAsk) /\ \A i \in 1 .. Len(hostQueue) : OwnAsk(hostQueue[i])
  BY <1>0 DEF OfThisProcess
<1>3. ASSUME NEW p \in {"handle", "join", "reply", "blocked"}, serving[w].at \notin {"gone", "idle"}
      PROVE  /\ serving[w] \in Busy /\ serving[w] # Gone
             /\ [serving[w] EXCEPT !.at = p] \in Busy
             /\ OwnAsk([serving[w] EXCEPT !.at = p].ask) /\ [serving[w] EXCEPT !.at = p].at = p
  <2>1. serving[w] \in Busy /\ serving[w] # Gone BY <1>1, <1>3, BusyIsBusy
  <2>2. /\ [serving[w] EXCEPT !.at = p] \in Busy /\ [serving[w] EXCEPT !.at = p].ask = serving[w].ask
        /\ [serving[w] EXCEPT !.at = p].at = p
    BY <2>1 DEF Busy
  <2>3. QED BY <1>1, <2>1, <2>2
<1>4. CASE TakeAsk(w)
  <2> DEFINE s == [at |-> "take", ask |-> Head(hostQueue)]
  <2>1. /\ serving[w] = Waiting /\ hostQueue # <<>> /\ serving' = [serving EXCEPT ![w] = s]
        /\ hostQueue' = Tail(hostQueue)
        /\ UNCHANGED <<procVars, flagVars, monitor, reader, life, rpcVars, replies, pipeVars, asks>>
    BY <1>4 DEF TakeAsk
  <2>2. /\ OwnAsk(Head(hostQueue)) /\ hostQueue' \in Seq(AgentAsk)
        /\ \A i \in 1 .. Len(hostQueue') : OwnAsk(hostQueue'[i])
    BY <1>2, <2>1, QueueShrinks
  <2>3. s \in Busy /\ s.ask = Head(hostQueue) BY <2>2 DEF Busy, OwnAsk
  <2>4. serving[w] # Gone /\ serving[w].at # "blocked" BY <2>1, BusyIsBusy
  <2> HIDE DEF s
  <2>5. QED BY <2>1, <2>2, <2>3, <2>4, WorkerMoves
<1>5. CASE WorkerEnds(w)
  <2>1. /\ serving[w] = Waiting /\ serving' = [serving EXCEPT ![w] = Gone]
        /\ UNCHANGED <<procVars, flagVars, monitor, reader, life, rpcVars, hostQueue, replies, pipeVars, asks>>
    BY <1>5 DEF WorkerEnds
  <2>2. serving[w] # Gone /\ serving[w].at # "blocked" /\ Gone \notin Busy BY <2>1, BusyIsBusy
  <2>3. QED BY <1>2, <2>1, <2>2, WorkerMoves
<1>6. CASE \E p \in {"handle", "join", "reply"} :
             /\ serving[w].at \in {"take", "handle", "join"} /\ serving' = [serving EXCEPT ![w].at = p]
             /\ stdin' \in {0, stdin}
             /\ UNCHANGED <<procVars, running, exited, process_started, monitor, reader, life, rpcVars,
                            hostQueue, replies, ioHolder, inbox, outbox, asks>>
  <2>1. PICK p \in {"handle", "join", "reply"} :
             /\ serving[w].at \in {"take", "handle", "join"} /\ serving' = [serving EXCEPT ![w].at = p]
             /\ stdin' \in {0, stdin}
             /\ UNCHANGED <<procVars, running, exited, process_started, monitor, reader, life, rpcVars,
                            hostQueue, replies, ioHolder, inbox, outbox, asks>>
    BY <1>6
  <2> DEFINE s == [serving[w] EXCEPT !.at = p]
  <2>2. s \in Busy /\ OwnAsk(s.ask) /\ serving[w] # Gone BY <1>3, <2>1
  <2>3. serving' = [serving EXCEPT ![w] = s] BY <2>1
  <2> HIDE DEF s
  <2>4. QED BY <1>2, <2>1, <2>2, <2>3, WorkerMoves
<1>7. CASE WriteReply(w)
  <2>1. /\ serving[w].at = "reply" /\ ioHolder = {}
        /\ UNCHANGED <<procVars, flagVars, monitor, reader, life, rpcVars, hostQueue, stdin, inbox, outbox, asks>>
    BY <1>7 DEF WriteReply
  <2>2. CASE ioHolder' = {w} /\ serving' = [serving EXCEPT ![w].at = "blocked"] /\ UNCHANGED replies
    <3> DEFINE s == [serving[w] EXCEPT !.at = "blocked"]
    <3>1. s \in Busy /\ OwnAsk(s.ask) /\ serving[w] # Gone /\ s.at = "blocked" BY <1>3, <2>1
    <3>2. serving' = [serving EXCEPT ![w] = s] BY <2>2
    <3> HIDE DEF s
    <3>3. QED BY <1>2, <2>1, <2>2, <3>1, <3>2, WorkerMoves
  <2>3. CASE /\ serving' = [serving EXCEPT ![w] = Waiting] /\ UNCHANGED ioHolder
             /\ replies' = IF stdin # 0 /\ alive THEN replies \union {<<serving[w].ask.from, stdin>>} ELSE replies
    <3>1. serving[w] \in Busy /\ serving[w] # Gone /\ Waiting \notin Busy BY <1>1, <2>1, BusyIsBusy
    <3>2. stdin # 0 => serving[w].ask.from = stdin BY <1>0, <1>1, <3>1 DEF OfThisProcess, OwnAsk
    <3>3. \A r \in replies' : r \in replies \/ r[1] = r[2] BY <2>3, <3>2
    <3>4. QED BY <1>2, <2>1, <2>3, <3>1, <3>3, WorkerMoves
  <2>4. QED BY <1>7, <2>2, <2>3 DEF WriteReply
<1>8. BeginHandle(w) \/ HandlerEnds(w) \/ WorkerJoinsItself(w) \/ WorkerStops(w) => Attended'
  BY <1>6 DEF BeginHandle, HandlerEnds, WorkerJoinsItself, WorkerStops
<1>9. QED BY <1>4, <1>5, <1>7, <1>8 DEF WorkerStep

\* A step of start() or stop() up to the join: the process may end, stdin may be closed, running may
\* be withdrawn, and no place but the join leads to the spawn.
LEMMA LaneStep ==
  ASSUME Attended,
         life' \in [at : LifePlaces, then : {"idle", "spawn"}], life'.at = "spawn" => AtRest,
         ~alive => ~alive', stdin' \in {0, stdin}, running' => running,
         UNCHANGED <<spawned, process_started, monitor, reader, rpcVars, hostVars, ioHolder, outbox, asks>>
  PROVE  Attended'
<1>0. SidecarShape /\ OfThisProcess /\ Watched /\ WriterIsKnown /\ AnswersFindAskers BY DEF Attended
<1>1. SidecarShape' BY <1>0 DEF SidecarShape
<1>2. OfThisProcess' BY <1>0 DEF OfThisProcess, OwnAsk
<1>3. AtRest <=> AtRest' BY DEF AtRest
<1>4. Watched' BY <1>0, <1>3 DEF Watched
<1>5. WriterIsKnown' BY <1>0 DEF WriterIsKnown
<1>6. AnswersFindAskers' BY <1>0 DEF AnswersFindAskers, NoRequestStranded, ReplyReachesAsker
<1>7. QED BY <1>1, <1>2, <1>4, <1>5, <1>6 DEF Attended

\* start() and stop() on the lane: a process is spawned only when all its predecessor's threads
\* have been joined.
LEMMA AttendedLane ==
  ASSUME Attended, BeginStop \/ BeginStart \/ StopStep \/ SpawnFails \/ Spawn \/ StartRefused
  PROVE  Attended'
<1>0. SidecarShape /\ OfThisProcess /\ Watched /\ WriterIsKnown /\ AnswersFindAskers BY DEF Attended
<1>1. life \in [at : LifePlaces, then : {"idle", "spawn"}] BY <1>0 DEF SidecarShape
<1>2. ASSUME NEW p \in LifePlaces
      PROVE  [life EXCEPT !.at = p] \in [at : LifePlaces, then : {"idle", "spawn"}]
             /\ [life EXCEPT !.at = p].at = p
  BY <1>1
<1>3. ASSUME NEW p \in LifePlaces, NEW q \in {"idle", "spawn"}
      PROVE  [at |-> p, then |-> q] \in [at : LifePlaces, then : {"idle", "spawn"}]
  OBVIOUS
<1>4. {"idle", "close", "wait", "kill", "killed", "shutdown", "join", "spawn", "initialize"} \subseteq LifePlaces
  BY DEF LifePlaces
<1>5. CASE BeginStop \/ StartRefused
  <2>1. /\ life' = [at |-> "close", then |-> "idle"]
        /\ UNCHANGED <<procVars, flagVars, monitor, reader, rpcVars, hostVars, pipeVars, asks>>
    BY <1>5 DEF BeginStop, StartRefused
  <2>2. life' \in [at : LifePlaces, then : {"idle", "spawn"}] /\ life'.at # "spawn" BY <1>3, <1>4, <2>1
  <2>3. QED BY <2>1, <2>2, LaneStep
<1>6. CASE BeginStart
  <2>1. UNCHANGED <<procVars, flagVars, monitor, reader, rpcVars, hostVars, pipeVars, asks>>
    BY <1>6 DEF BeginStart
  <2>2. \/ life' = [at |-> "close", then |-> "spawn"]
        \/ ~process_started /\ life' = [at |-> "spawn", then |-> "idle"]
    BY <1>6 DEF BeginStart
  <2>3. life' \in [at : LifePlaces, then : {"idle", "spawn"}] BY <1>3, <1>4, <2>2
  <2>4. life'.at = "spawn" => AtRest BY <1>0, <2>2 DEF Watched
  <2>5. QED BY <2>1, <2>3, <2>4, LaneStep
<1>7. ASSUME NEW p \in {"wait", "shutdown", "kill", "killed", "join"}, life' = [life EXCEPT !.at = p],
             ~alive => ~alive', stdin' \in {0, stdin}, running' => running,
             UNCHANGED <<spawned, process_started, monitor, reader, rpcVars, hostVars, ioHolder, outbox, asks>>
      PROVE  Attended'
  <2>1. life' \in [at : LifePlaces, then : {"idle", "spawn"}] /\ life'.at # "spawn" BY <1>2, <1>4, <1>7
  <2>2. QED BY <1>7, <2>1, LaneStep
<1>8. CASE StopCloses BY <1>7, <1>8 DEF StopCloses
<1>9. CASE StopWaits BY <1>7, <1>9 DEF StopWaits
<1>10. CASE StopKills BY <1>7, <1>10 DEF StopKills
<1>11. CASE StopForces BY <1>7, <1>11 DEF StopForces
<1>12. CASE StopShutsDown BY <1>7, <1>12 DEF StopShutsDown
<1>13. CASE StopJoins
  <2>1. /\ monitor \in {"none", "ended"} /\ \A w \in HostWorkers : serving[w] = Gone
        /\ reader # "read" /\ running' = FALSE /\ monitor' = "none" /\ reader' = "none"
        /\ life' = [at |-> life.then, then |-> "idle"]
        /\ UNCHANGED <<procVars, exited, host_shutdown, rpcVars, hostVars, pipeVars, asks>>
    BY <1>13 DEF StopJoins, Joined
  <2>2. life' \in [at : LifePlaces, then : {"idle", "spawn"}] BY <1>1, <1>4, <2>1
  <2>3. SidecarShape' BY <1>0, <2>1, <2>2 DEF SidecarShape
  <2>4. OfThisProcess' BY <1>0, <2>1, OfThisProcessStays
  <2>5. AtRest' BY <2>1 DEF AtRest
  <2>6. Watched' BY <1>0, <2>1, <2>5 DEF Watched
  <2>7. WriterIsKnown' BY <1>0, <2>1 DEF WriterIsKnown
  <2>8. AnswersFindAskers' BY <1>0, <2>1 DEF AnswersFindAskers, NoRequestStranded, ReplyReachesAsker
  <2>9. QED BY <2>3, <2>4, <2>6, <2>7, <2>8 DEF Attended
<1>14. CASE SpawnFails
  <2>1. /\ life.at = "spawn" /\ running' = FALSE /\ stdin' = 0 /\ hostQueue' = <<>>
        /\ life' = [life EXCEPT !.at = "idle"]
        /\ UNCHANGED <<procVars, monitor, reader, rpcVars, serving, tokens, replies, ioHolder, inbox,
                       outbox, asks>>
    BY <1>14 DEF SpawnFails
  <2>2. life' \in [at : LifePlaces, then : {"idle", "spawn"}] BY <1>2, <1>4, <2>1
  <2>3. SidecarShape' BY <1>0, <2>1, <2>2 DEF SidecarShape
  <2>4. hostQueue' \in Seq(AgentAsk) /\ \A i \in 1 .. Len(hostQueue') : OwnAsk(hostQueue'[i])
    BY <2>1, EmptySeq
  <2>5. OfThisProcess' BY <1>0, <2>1, <2>4 DEF OfThisProcess, OwnAsk
  <2>6. AtRest' BY <1>0, <2>1 DEF Watched, AtRest
  <2>7. Watched' BY <1>0, <2>1, <2>6 DEF Watched
  <2>8. WriterIsKnown' BY <1>0, <2>1 DEF WriterIsKnown
  <2>9. AnswersFindAskers' BY <1>0, <2>1 DEF AnswersFindAskers, NoRequestStranded, ReplyReachesAsker
  <2>10. QED BY <2>3, <2>5, <2>7, <2>8, <2>9 DEF Attended
<1>15. CASE Spawn
  <2>1. /\ life.at = "spawn" /\ spawned' = spawned + 1 /\ stdin' = spawned + 1 /\ hostQueue' = <<>>
        /\ process_started' = TRUE /\ monitor' = "wait" /\ reader' = "read"
        /\ serving' = [w \in HostWorkers |-> IF serving[w] = Gone THEN Waiting ELSE serving[w]]
        /\ life' = [at |-> "initialize", then |-> "idle"]
        /\ UNCHANGED <<rpcVars, tokens, replies, ioHolder, inbox, outbox, asks>>
    BY <1>15 DEF Spawn
  <2>2. AtRest /\ outbox = {} BY <1>0, <2>1 DEF Watched, AtRest
  <2>3. \A w \in HostWorkers : serving'[w] = Waiting BY <2>1, <2>2 DEF AtRest
  <2>4. life' \in [at : LifePlaces, then : {"idle", "spawn"}] /\ life'.at # "spawn" BY <1>3, <1>4, <2>1
  <2>5. serving' \in [HostWorkers -> {Gone, Waiting} \union Busy] BY <2>1, <2>3
  <2>6. SidecarShape' BY <1>0, <2>1, <2>4, <2>5 DEF SidecarShape
  <2>7. hostQueue' \in Seq(AgentAsk) /\ \A i \in 1 .. Len(hostQueue') : OwnAsk(hostQueue'[i])
    BY <2>1, EmptySeq
  <2>8. OfThisProcess' BY <2>1, <2>2, <2>3, <2>7, BusyIsBusy DEF OfThisProcess
  <2>9. Watched' BY <2>1, <2>4 DEF Watched
  <2>10. WriterIsKnown' BY <1>0, <2>1, <2>2, BusyIsBusy DEF WriterIsKnown, AtRest
  <2>11. AnswersFindAskers' BY <1>0, <2>1 DEF AnswersFindAskers, NoRequestStranded, ReplyReachesAsker
  <2>12. QED BY <2>6, <2>8, <2>9, <2>10, <2>11 DEF Attended
<1>16. QED BY <1>5, <1>6, <1>8, <1>9, <1>10, <1>11, <1>12, <1>13, <1>14, <1>15 DEF StopStep

\* Every step of the sidecar, its process and its callers.
LEMMA AttendedNext ==
  ASSUME Attended, [SidecarNext]_sidecarVars
  PROVE  Attended'
<1>1. CASE UNCHANGED sidecarVars
  <2>0. SidecarShape /\ OfThisProcess /\ Watched /\ WriterIsKnown /\ AnswersFindAskers BY DEF Attended
  <2>1. /\ UNCHANGED <<spawned, alive, running, process_started, monitor, reader, life, nextId, pending, call>>
        /\ UNCHANGED <<hostQueue, serving, replies, stdin, ioHolder, outbox, asks>>
    BY <1>1 DEF sidecarVars
  <2>2. SidecarShape' BY <2>0, <2>1 DEF SidecarShape
  <2>3. OfThisProcess' BY <2>0, <2>1, OfThisProcessStays
  <2>4. Watched' BY <2>0, <2>1 DEF Watched, AtRest
  <2>5. WriterIsKnown' BY <2>0, <2>1 DEF WriterIsKnown
  <2>6. AnswersFindAskers' BY <2>0, <2>1 DEF AnswersFindAskers, NoRequestStranded, ReplyReachesAsker
  <2>7. QED BY <2>2, <2>3, <2>4, <2>5, <2>6 DEF Attended
<1>2. CASE SidecarNext
  BY <1>2, AttendedCall, AttendedProcess, AttendedReader, AttendedWorker, AttendedLane DEF SidecarNext
<1>3. QED BY <1>1, <1>2

-----------------------------------------------------------------------------
(* Theorems                                                                *)

\* Whatever is queued, served or on its way comes from the process that runs now, between two
\* processes every thread has been joined, and a thread in a write is known (start, stop,
\* monitor_process, the reader and the host workers of SidecarClient).
THEOREM AttendedInvariant == SidecarSpec => []Attended
<1>1. SidecarInit => Attended
  <2> SUFFICES ASSUME SidecarInit PROVE Attended OBVIOUS
  <2>1. serving = [w \in HostWorkers |-> Gone] /\ call = [c \in Callers |-> NoCall] BY DEF SidecarInit
  <2>2. life \in [at : LifePlaces, then : {"idle", "spawn"}] BY DEF SidecarInit, LifePlaces
  <2>3. SidecarShape BY <2>1, <2>2 DEF SidecarInit, SidecarShape
  <2>4. hostQueue \in Seq(AgentAsk) /\ \A i \in 1 .. Len(hostQueue) : OwnAsk(hostQueue[i])
    BY EmptySeq DEF SidecarInit
  <2>5. OfThisProcess BY <2>1, <2>4, BusyIsBusy DEF SidecarInit, OfThisProcess
  <2>6. Watched BY <2>1 DEF SidecarInit, Watched, AtRest
  <2>7. WriterIsKnown BY DEF SidecarInit, WriterIsKnown
  <2>8. AnswersFindAskers BY DEF SidecarInit, AnswersFindAskers, NoRequestStranded, ReplyReachesAsker
  <2>9. QED BY <2>3, <2>5, <2>6, <2>7, <2>8 DEF Attended
<1>2. Attended /\ [SidecarNext]_sidecarVars => Attended' BY AttendedNext
<1>3. QED BY <1>1, <1>2, PTL DEF SidecarSpec

\* Once the exit has been published nobody is left waiting, and a host worker's reply goes to the
\* process that asked and never to its successor, which numbers its requests from one again.
THEOREM AnswersTheorem == SidecarSpec => []AnswersFindAskers
<1>1. Attended => AnswersFindAskers BY DEF Attended
<1>2. QED BY <1>1, AttendedInvariant, PTL

-----------------------------------------------------------------------------
(* The dispatcher: sums of bytes.  The fold that adds up the bytes of a set *)
(* of requests takes one request off at a time, in an order of its own; it  *)
(* is shown to be a sum by looking at the smallest set for which it is not. *)

\* The sum; the function the fold defines it by, of all subsets of a set; the one it takes off.
BytesOf(S) == MapThenSumSet(LAMBDA r : r.bytes, S)
Head1(S) == CHOOSE x \in S : TRUE
Sums(g, D) == g = [S \in D |-> IF S = {} THEN 0 ELSE Head1(S).bytes + g[S \ {Head1(S)}]]
Chosen(S) == CHOOSE g : Sums(g, SUBSET S)

\* Of the sets of requests with some property one has no smaller one with it.
LEMMA SmallestSet ==
  ASSUME NEW bad \in SUBSET (SUBSET Requests), bad # {}
  PROVE  \E S \in bad : \A T \in SUBSET S : T # S => T \notin bad
<1>1. IsFiniteSet(Requests) BY DispatcherAssumption
<1>2. IsWellFoundedOn(StrictSubsetOrdering(Requests), SUBSET Requests)
  BY <1>1, FS_StrictSubsetOrderingWellFounded, FS_FiniteSubsetsOfFinite
<1>3. \A T \in bad : T \subseteq Requests OBVIOUS
<1>4. bad \subseteq SUBSET Requests OBVIOUS
<1>5. PICK S \in bad : \A T \in bad : ~(<<T, S>> \in StrictSubsetOrdering(Requests))
  BY <1>2, <1>4, WFMin
<1>6. ASSUME NEW T \in SUBSET S, T # S, T \in bad PROVE FALSE
  <2>1. <<T, S>> \in StrictSubsetOrdering(Requests) BY <1>3, <1>6 DEF StrictSubsetOrdering
  <2>2. QED BY <1>5, <1>6, <2>1
<1>7. QED BY <1>6

\* Two functions that add up the subsets of two sets agree on what is a subset of both.
LEMMA SumsAgree ==
  ASSUME NEW S \in SUBSET Requests, NEW T \in SUBSET Requests, NEW g, NEW h,
         Sums(g, SUBSET S), Sums(h, SUBSET T), NEW U \in SUBSET S, U \subseteq T
  PROVE  g[U] = h[U]
<1> DEFINE bad == {V \in SUBSET Requests : V \subseteq S /\ V \subseteq T /\ g[V] # h[V]}
<1>1. SUFFICES ASSUME bad # {} PROVE FALSE BY DEF bad
<1>2. PICK V \in bad : \A W \in SUBSET V : W # V => W \notin bad BY <1>1, SmallestSet
<1>3. V \in SUBSET S /\ V \in SUBSET T /\ g[V] # h[V] OBVIOUS
<1>4. /\ g[V] = IF V = {} THEN 0 ELSE Head1(V).bytes + g[V \ {Head1(V)}]
      /\ h[V] = IF V = {} THEN 0 ELSE Head1(V).bytes + h[V \ {Head1(V)}]
  <2>1. g[V] = IF V = {} THEN 0 ELSE Head1(V).bytes + g[V \ {Head1(V)}] BY <1>3 DEF Sums
  <2>2. h[V] = IF V = {} THEN 0 ELSE Head1(V).bytes + h[V \ {Head1(V)}] BY <1>3 DEF Sums
  <2>3. QED BY <2>1, <2>2
<1>5. V # {} BY <1>3, <1>4
<1>6. Head1(V) \in V BY <1>5 DEF Head1
<1> DEFINE W == V \ {Head1(V)}
<1>7. W \in SUBSET V /\ W # V BY <1>6
<1>8. W \notin bad BY <1>2, <1>7
<1>9. g[W] = h[W] BY <1>3, <1>7, <1>8
<1>10. QED BY <1>3, <1>4, <1>5, <1>9

\* Every set of requests has a function that adds up its subsets.
LEMMA SumsExist ==
  ASSUME NEW S \in SUBSET Requests
  PROVE  Sums(Chosen(S), SUBSET S)
<1> DEFINE bad == {T \in SUBSET Requests : ~Sums(Chosen(T), SUBSET T)}
<1>1. SUFFICES ASSUME bad # {} PROVE FALSE OBVIOUS
<1>2. PICK T \in bad : \A U \in SUBSET T : U # T => U \notin bad BY <1>1, SmallestSet
<1>3. \A U \in SUBSET T : U # T => Sums(Chosen(U), SUBSET U) BY <1>2
<1> DEFINE sum(U) == Chosen(U)[U]
           g == [U \in SUBSET T |-> IF U = T THEN IF T = {} THEN 0 ELSE Head1(T).bytes + sum(T \ {Head1(T)})
                                    ELSE sum(U)]
<1>4. ASSUME NEW U \in SUBSET T, U # T
      PROVE  sum(U) = IF U = {} THEN 0 ELSE Head1(U).bytes + sum(U \ {Head1(U)})
  <2>1. Sums(Chosen(U), SUBSET U) BY <1>3, <1>4
  <2>2. Chosen(U)[U] = IF U = {} THEN 0 ELSE Head1(U).bytes + Chosen(U)[U \ {Head1(U)}]
    BY <2>1 DEF Sums
  <2>3. CASE U = {} BY <2>2, <2>3
  <2>4. CASE U # {}
    <3> DEFINE V == U \ {Head1(U)}
    <3>1. Head1(U) \in U BY <2>4 DEF Head1
    <3>2. V \in SUBSET T /\ V # T /\ V \in SUBSET U BY <3>1
    <3>3. Sums(Chosen(V), SUBSET V) BY <1>3, <3>2
    <3> HIDE DEF V
    <3>4. U \in SUBSET Requests /\ V \in SUBSET Requests /\ V \subseteq V BY <3>2
    <3>5. Chosen(U)[V] = Chosen(V)[V] BY ONLY <2>1, <3>2, <3>3, <3>4, SumsAgree
    <3> USE DEF V
    <3>6. QED BY <2>2, <2>4, <3>5
  <2>5. QED BY <2>3, <2>4
<1>5. Sums(g, SUBSET T)
  <2>1. ASSUME NEW U \in SUBSET T
        PROVE  g[U] = IF U = {} THEN 0 ELSE Head1(U).bytes + g[U \ {Head1(U)}]
    <3>1. U # {} => Head1(U) \in U BY DEF Head1
    <3>2. U # {} => U \ {Head1(U)} \in SUBSET T /\ U \ {Head1(U)} # T BY <3>1
    <3> HIDE DEF sum
    <3>3. U # {} => g[U \ {Head1(U)}] = sum(U \ {Head1(U)}) BY <3>2
    <3>4. CASE U = T BY <3>3, <3>4
    <3>5. CASE U # T
      <4>1. g[U] = sum(U) BY <3>5
      <4>2. QED BY <1>4, <3>3, <3>5, <4>1
    <3>6. QED BY <3>4, <3>5
  <2>2. g = [U \in SUBSET T |-> g[U]] OBVIOUS
  <2> HIDE DEF g
  <2>3. QED BY <2>1, <2>2 DEF Sums
<1> HIDE DEF g
<1>6. Sums(Chosen(T), SUBSET T) BY <1>5 DEF Chosen
<1>7. QED BY <1>2, <1>6

\* What the fold computes: nothing for no request, and one request at a time.
LEMMA BytesStep ==
  ASSUME NEW S \in SUBSET Requests
  PROVE  BytesOf(S) = IF S = {} THEN 0 ELSE Head1(S).bytes + BytesOf(S \ {Head1(S)})
<1>1. \A T : BytesOf(T) = Chosen(T)[T] BY DEF BytesOf, MapThenSumSet, MapThenFoldSet, Chosen, Sums, Head1
<1>2. Sums(Chosen(S), SUBSET S) BY SumsExist
<1>3. Chosen(S)[S] = IF S = {} THEN 0 ELSE Head1(S).bytes + Chosen(S)[S \ {Head1(S)}] BY <1>2 DEF Sums
<1>4. Sums(Chosen(S \ {Head1(S)}), SUBSET (S \ {Head1(S)})) BY SumsExist
<1>5. Chosen(S)[S \ {Head1(S)}] = Chosen(S \ {Head1(S)})[S \ {Head1(S)}]
  <2> DEFINE W == S \ {Head1(S)}
  <2>1. W \in SUBSET S /\ W \in SUBSET Requests /\ W \subseteq W OBVIOUS
  <2>2. Sums(Chosen(W), SUBSET W) BY <1>4
  <2> HIDE DEF W
  <2>3. Chosen(S)[W] = Chosen(W)[W] BY ONLY <1>2, <2>1, <2>2, SumsAgree, S \in SUBSET Requests
  <2>4. QED BY <2>3 DEF W
<1>6. QED BY <1>1, <1>3, <1>5

\* The bytes of some requests are a number.
LEMMA BytesAreNumbers ==
  ASSUME NEW S \in SUBSET Requests
  PROVE  BytesOf(S) \in Nat
<1> DEFINE bad == {T \in SUBSET Requests : BytesOf(T) \notin Nat}
<1>1. SUFFICES ASSUME bad # {} PROVE FALSE OBVIOUS
<1>2. bad \in SUBSET (SUBSET Requests) OBVIOUS
<1>3. PICK T \in bad : \A U \in SUBSET T : U # T => U \notin bad
  <2> HIDE DEF bad
  <2>1. QED BY <1>1, <1>2, SmallestSet
<1>4. T \in SUBSET Requests /\ BytesOf(T) \notin Nat OBVIOUS
<1>5. BytesOf(T) = IF T = {} THEN 0 ELSE Head1(T).bytes + BytesOf(T \ {Head1(T)})
  BY <1>4, BytesStep
<1>6. CASE T = {} BY <1>4, <1>5, <1>6
<1>7. CASE T # {}
  <2>1. Head1(T) \in T BY <1>7 DEF Head1
  <2>2. Head1(T).bytes \in Nat BY <1>4, <2>1, DispatcherAssumption
  <2>3. BytesOf(T \ {Head1(T)}) \in Nat BY <1>3, <1>4, <2>1
  <2>4. QED BY <1>4, <1>5, <1>7, <2>2, <2>3
<1>8. QED BY <1>6, <1>7

\* Whichever request is taken off, its bytes are.
LEMMA BytesOfOneMore ==
  ASSUME NEW S \in SUBSET Requests, NEW r \in S
  PROVE  BytesOf(S) = r.bytes + BytesOf(S \ {r})
<1> DEFINE bad == {T \in SUBSET Requests : \E q \in T : BytesOf(T) # q.bytes + BytesOf(T \ {q})}
<1>1. SUFFICES ASSUME bad # {} PROVE FALSE OBVIOUS
<1>2. bad \in SUBSET (SUBSET Requests) OBVIOUS
<1>3. PICK T \in bad : \A U \in SUBSET T : U # T => U \notin bad
  <2> HIDE DEF bad
  <2>1. QED BY <1>1, <1>2, SmallestSet
<1>4. T \in SUBSET Requests OBVIOUS
<1>5. PICK q \in T : BytesOf(T) # q.bytes + BytesOf(T \ {q}) OBVIOUS
<1> DEFINE h == Head1(T)
<1>6. h \in T BY DEF Head1
<1>7. BytesOf(T) = h.bytes + BytesOf(T \ {h}) BY <1>4, <1>5, BytesStep
<1>8. q # h BY <1>5, <1>7
<1> DEFINE U == T \ {h}
           V == T \ {q}
           W == U \ {q}
<1>9. U \notin bad /\ V \notin bad
  <2>1. U \in SUBSET T /\ U # T /\ V \in SUBSET T /\ V # T BY <1>6
  <2> HIDE DEF bad
  <2>2. QED BY <1>3, <2>1
<1>10. U \in SUBSET Requests /\ V \in SUBSET Requests /\ q \in U /\ h \in V /\ V \ {h} = W
  BY <1>4, <1>6, <1>8
<1>11. BytesOf(U) = q.bytes + BytesOf(W) BY <1>9, <1>10
<1>12. BytesOf(V) = h.bytes + BytesOf(V \ {h}) BY <1>9, <1>10
<1>13. q.bytes \in Nat /\ h.bytes \in Nat BY <1>4, <1>6, DispatcherAssumption
<1>14. BytesOf(W) \in Nat BY <1>10, BytesAreNumbers
<1>15. BytesOf(V) = h.bytes + BytesOf(W) BY <1>10, <1>12
<1> HIDE DEF U, V, W, h
<1>16. BytesOf(T) = h.bytes + BytesOf(U) /\ BytesOf(T) # q.bytes + BytesOf(V)
  BY <1>5, <1>7 DEF U, V
<1>17. QED BY <1>11, <1>13, <1>14, <1>15, <1>16

\* The bytes of requests that are not the same add up.
LEMMA BytesOfBoth ==
  ASSUME NEW S \in SUBSET Requests, NEW R \in SUBSET Requests, S \cap R = {}
  PROVE  BytesOf(S \union R) = BytesOf(S) + BytesOf(R)
<1> DEFINE bad == {T \in SUBSET Requests : T \subseteq S /\ BytesOf(T \union R) # BytesOf(T) + BytesOf(R)}
<1>1. SUFFICES ASSUME bad # {} PROVE FALSE OBVIOUS
<1>2. bad \in SUBSET (SUBSET Requests) OBVIOUS
<1>3. PICK T \in bad : \A U \in SUBSET T : U # T => U \notin bad
  <2> HIDE DEF bad
  <2>1. QED BY <1>1, <1>2, SmallestSet
<1>4. T \in SUBSET Requests /\ T \subseteq S /\ BytesOf(T \union R) # BytesOf(T) + BytesOf(R) OBVIOUS
<1>5. BytesOf(R) \in Nat BY BytesAreNumbers
<1>6. CASE T = {}
  <2>1. BytesOf(T) = 0 BY <1>6, BytesStep
  <2>2. T \union R = R BY <1>6
  <2>3. QED BY <1>4, <1>5, <2>1, <2>2
<1>7. CASE T # {}
  <2>1. PICK q \in T : TRUE BY <1>7
  <2> DEFINE U == T \ {q}
  <2>2. U \in SUBSET T /\ U # T /\ U \in SUBSET Requests /\ U \subseteq S BY <1>4, <2>1
  <2>3. BytesOf(U \union R) = BytesOf(U) + BytesOf(R) BY <1>3, <2>2
  <2>4. BytesOf(T) = q.bytes + BytesOf(U) BY <1>4, BytesOfOneMore
  <2>5. T \union R \in SUBSET Requests /\ q \in T \union R /\ (T \union R) \ {q} = U \union R
    BY <1>4, <2>1
  <2>6. BytesOf(T \union R) = q.bytes + BytesOf((T \union R) \ {q}) BY <2>5, BytesOfOneMore
  <2>7. q.bytes \in Nat BY <1>4, DispatcherAssumption
  <2>8. BytesOf(U) \in Nat BY <2>2, BytesAreNumbers
  <2>9. BytesOf(T \union R) = q.bytes + BytesOf(U \union R) BY <2>5, <2>6
  <2> HIDE DEF U
  <2>10. BytesOf(T \union R) = q.bytes + (BytesOf(U) + BytesOf(R)) BY <2>3, <2>9
  <2>11. QED BY ONLY <1>4, <1>5, <2>4, <2>7, <2>8, <2>10
<1>8. QED BY <1>6, <1>7

-----------------------------------------------------------------------------
(* The dispatcher: where a request waits                                    *)

Keys == {"none"} \union {r.key : r \in Requests}
Jobs == [key : Keys, waiting : Seq(Requests), bytes : Nat]
Waited(job) == {job.waiting[k] : k \in DOMAIN job.waiting}

DispatcherShape ==
  /\ queues \in [Lanes -> Seq(Jobs)]
  /\ inHand \in [Lanes -> [at : {"free", "invoke", "answer", "answering"}, job : Jobs]]
  /\ stopping \in BOOLEAN /\ fate \in [Requests -> {"new", "accepted", "refused"}]
  /\ completed \in [Requests -> Nat]

\* The places of a lane: 0 is its worker, the others are the queue's.
Places(l) == 0 .. Len(queues[l])
JobAt(l, i) == IF i = 0 THEN inHand[l].job ELSE queues[l][i]
Pending(l, i) == i # 0 \/ inHand[l].at = "invoke"

\* Who waits at a place is of that lane, was accepted, waits there once and is not answered; what
\* the job counts is what its waiters sent, until close() drops the counts.
PlaceIsSound(l, i) ==
  LET job == JobAt(l, i) IN
  /\ \A r \in Waited(job) : r.lane = l /\ fate[r] = "accepted" /\ completed[r] = 0
  /\ \A k, m \in DOMAIN job.waiting : job.waiting[k] = job.waiting[m] => k = m
  /\ ~stopping /\ Pending(l, i) => job.bytes = BytesOf(Waited(job))

PlacesDiffer(l, i, j) == i # j => Waited(JobAt(l, i)) \cap Waited(JobAt(l, j)) = {}

Lined == \A l \in Lanes : \A i \in Places(l) :
           PlaceIsSound(l, i) /\ \A j \in Places(l) : PlacesDiffer(l, i, j)
Dispatched == DispatcherShape /\ Lined /\ CompletedOnce /\ BytesConserved

\* What a job is.
LEMMA JobFacts ==
  ASSUME NEW job \in Jobs
  PROVE  /\ job.key \in Keys /\ job.waiting \in Seq(Requests) /\ job.bytes \in Nat
         /\ Len(job.waiting) \in Nat /\ DOMAIN job.waiting = 1 .. Len(job.waiting)
         /\ Waited(job) \in SUBSET Requests
<1>1. job.key \in Keys /\ job.waiting \in Seq(Requests) /\ job.bytes \in Nat BY DEF Jobs
<1>2. Len(job.waiting) \in Nat /\ DOMAIN job.waiting = 1 .. Len(job.waiting) BY <1>1, LenProperties
<1>3. \A k \in 1 .. Len(job.waiting) : job.waiting[k] \in Requests BY <1>1, ElementOfSeq
<1>4. QED BY <1>1, <1>2, <1>3 DEF Waited

\* A job nobody waits for yet.
LEMMA EmptyJob == NoJob \in Jobs /\ Waited(NoJob) = {} /\ NoJob.bytes = 0 /\ NoJob.waiting = <<>>
<1>1. <<>> \in Seq(Requests) BY EmptySeq
<1>2. QED BY <1>1 DEF NoJob, Jobs, Keys, Waited

\* A request that joins a job waits there once, and the job counts it.
LEMMA WaiterJoins ==
  ASSUME NEW job \in Jobs, NEW r \in Requests, r \notin Waited(job)
  PROVE  /\ WithWaiter(job, r) \in Jobs
         /\ Waited(WithWaiter(job, r)) = Waited(job) \union {r}
         /\ WithWaiter(job, r).bytes = job.bytes + r.bytes
         /\ (\A k, m \in DOMAIN job.waiting : job.waiting[k] = job.waiting[m] => k = m)
              => \A k, m \in DOMAIN WithWaiter(job, r).waiting :
                   WithWaiter(job, r).waiting[k] = WithWaiter(job, r).waiting[m] => k = m
<1>1. job.key \in Keys /\ job.waiting \in Seq(Requests) /\ job.bytes \in Nat
      /\ Len(job.waiting) \in Nat /\ DOMAIN job.waiting = 1 .. Len(job.waiting) BY JobFacts
<1>2. r.bytes \in Nat BY DispatcherAssumption
<1> DEFINE w == Append(job.waiting, r)
           joined == WithWaiter(job, r)
<1>3. w \in Seq(Requests) /\ Len(w) = Len(job.waiting) + 1
      /\ \A k \in 1 .. Len(w) : w[k] = IF k <= Len(job.waiting) THEN job.waiting[k] ELSE r
  BY <1>1, AppendProperties
<1> HIDE DEF w
<1>4. joined = [job EXCEPT !.waiting = w, !.bytes = @ + r.bytes] BY DEF WithWaiter, w
<1>5. job.bytes + r.bytes \in Nat BY <1>1, <1>2
<1>6. joined.waiting = w /\ joined.bytes = job.bytes + r.bytes BY <1>4 DEF Jobs
<1>7. joined \in Jobs BY <1>3, <1>4, <1>5 DEF Jobs
<1>8. DOMAIN w = 1 .. Len(job.waiting) + 1 BY <1>1, <1>3, LenProperties
<1>9. \A k \in 1 .. Len(job.waiting) : w[k] = job.waiting[k] BY <1>1, <1>3
<1>10. w[Len(job.waiting) + 1] = r BY <1>1, <1>3
<1> HIDE DEF joined
<1>11. Waited(joined) = Waited(job) \union {r}
  <2>1. \A x : x \in Waited(joined) <=> \E k \in 1 .. Len(job.waiting) + 1 : x = w[k]
    BY <1>6, <1>8 DEF Waited
  <2>2. \A x : x \in Waited(job) <=> \E k \in 1 .. Len(job.waiting) : x = job.waiting[k]
    BY <1>1 DEF Waited
  <2>3. QED BY <1>1, <1>9, <1>10, <2>1, <2>2
<1>12. ASSUME \A k, m \in DOMAIN job.waiting : job.waiting[k] = job.waiting[m] => k = m,
              NEW k \in DOMAIN w, NEW m \in DOMAIN w, w[k] = w[m]
       PROVE  k = m
  <2>1. \A i \in 1 .. Len(job.waiting) : job.waiting[i] # r BY <1>1 DEF Waited
  <2>2. QED BY <1>1, <1>8, <1>9, <1>10, <1>12, <2>1
<1>13. QED BY <1>6, <1>7, <1>11, <1>12 DEF joined

\* What stands at a place of a lane is a job.
LEMMA PlaceFacts ==
  ASSUME DispatcherShape, NEW l \in Lanes
  PROVE  /\ queues[l] \in Seq(Jobs) /\ Len(queues[l]) \in Nat /\ DOMAIN queues[l] = 1 .. Len(queues[l])
         /\ inHand[l] \in [at : {"free", "invoke", "answer", "answering"}, job : Jobs]
         /\ inHand[l].job \in Jobs
         /\ \A i \in Places(l) : i \in Nat /\ JobAt(l, i) \in Jobs
<1>1. queues[l] \in Seq(Jobs) /\ inHand[l] \in [at : {"free", "invoke", "answer", "answering"}, job : Jobs]
  BY DEF DispatcherShape
<1>2. Len(queues[l]) \in Nat /\ DOMAIN queues[l] = 1 .. Len(queues[l]) BY <1>1, LenProperties
<1>3. inHand[l].job \in Jobs BY <1>1
<1>4. ASSUME NEW i \in Places(l) PROVE i \in Nat /\ JobAt(l, i) \in Jobs
  <2>1. i \in Nat /\ (i # 0 => i \in 1 .. Len(queues[l])) BY <1>2, <1>4 DEF Places
  <2>2. i # 0 => queues[l][i] \in Jobs BY <1>1, <2>1, ElementOfSeq
  <2>3. QED BY <1>3, <2>1, <2>2 DEF JobAt
<1>5. QED BY <1>1, <1>2, <1>3, <1>4

\* The requests of jobs that are queued or invoked, by their places.
InPlaces ==
  {r \in Requests : \E l \in Lanes : \E i \in Places(l) : Pending(l, i) /\ r \in Waited(JobAt(l, i))}

\* ... are the ones the specification speaks of, before a step and after it.
LEMMA JobsArePlaces == DispatcherShape => InJobs = InPlaces
<1> SUFFICES ASSUME DispatcherShape PROVE InJobs = InPlaces OBVIOUS
<1>1. ASSUME NEW r \in Requests, NEW l \in Lanes
      PROVE  (\/ \E i \in DOMAIN queues[l] : \E k \in DOMAIN queues[l][i].waiting : queues[l][i].waiting[k] = r
              \/ inHand[l].at = "invoke" /\ \E k \in DOMAIN inHand[l].job.waiting : inHand[l].job.waiting[k] = r)
             <=> \E i \in Places(l) : Pending(l, i) /\ r \in Waited(JobAt(l, i))
  <2>1. Len(queues[l]) \in Nat /\ DOMAIN queues[l] = 1 .. Len(queues[l]) BY PlaceFacts
  <2>2. 0 \in Places(l) /\ \A i : i \in DOMAIN queues[l] <=> i \in Places(l) /\ i # 0 BY <2>1 DEF Places
  <2>3. \A i \in DOMAIN queues[l] : r \in Waited(JobAt(l, i))
                                    <=> \E k \in DOMAIN queues[l][i].waiting : queues[l][i].waiting[k] = r
    BY <2>2 DEF Waited, JobAt
  <2>4. r \in Waited(JobAt(l, 0))
        <=> \E k \in DOMAIN inHand[l].job.waiting : inHand[l].job.waiting[k] = r
    BY DEF Waited, JobAt
  <2>5. QED BY <2>2, <2>3, <2>4 DEF Pending
<1>2. QED BY <1>1 DEF InJobs, InPlaces

LEMMA JobsArePlacesThen == (DispatcherShape => InJobs = InPlaces)'
BY JobsArePlaces, PTL

\* pending_bytes in terms of this sum, before a step and after it.
LEMMA BytesAre == BytesConserved <=> pendingBytes = IF stopping THEN 0 ELSE BytesOf(InJobs)
BY DEF BytesConserved, BytesOf

LEMMA BytesAreThen == BytesConserved' <=> pendingBytes' = IF stopping' THEN 0 ELSE BytesOf(InJobs')
BY DEF BytesConserved, BytesOf, MapThenSumSet, MapThenFoldSet

\* No request has no bytes.
LEMMA NoBytes == BytesOf({}) = 0
<1>1. {} \in SUBSET Requests OBVIOUS
<1>2. QED BY <1>1, BytesStep

\* The places hold jobs, before a step and after it.
LEMMA PlacesAreJobs ==
  DispatcherShape => \A l \in Lanes : \A i \in Places(l) : i \in Nat /\ JobAt(l, i) \in Jobs
BY PlaceFacts

LEMMA PlacesAreJobsThen ==
  (DispatcherShape => \A l \in Lanes : \A i \in Places(l) : i \in Nat /\ JobAt(l, i) \in Jobs)'
BY PlacesAreJobs, PTL

\* A new request comes to one place: into the job there, or into a job of its own.
LEMMA JoinKept ==
  ASSUME Dispatched, DispatcherShape', NEW r \in Requests, fate[r] = "new", ~stopping, Accept(r),
         NEW i \in Places(r.lane)', Pending(r.lane, i)', NEW job \in Jobs,
         JobAt(r.lane, i)' = WithWaiter(job, r),
         \/ i \in Places(r.lane) /\ Pending(r.lane, i) /\ job = JobAt(r.lane, i)
         \/ i \notin Places(r.lane) /\ job.bytes = 0 /\ job.waiting = <<>>,
         \A l \in Lanes : \A j \in Nat : l # r.lane \/ j # i =>
           /\ j \in Places(l)' <=> j \in Places(l)
           /\ (j \in Places(l) => JobAt(l, j)' = JobAt(l, j)) /\ (Pending(l, j)' <=> Pending(l, j))
  PROVE  Dispatched'
<1> DEFINE l == r.lane
           joined == WithWaiter(job, r)
<1>1. l \in Lanes /\ r.bytes \in Nat BY DispatcherAssumption
<1>2. \A m \in Lanes : \A j \in Places(m) :
        /\ j \in Nat /\ JobAt(m, j) \in Jobs /\ PlaceIsSound(m, j)
        /\ \A k \in Places(m) : PlacesDiffer(m, j, k)
  BY PlacesAreJobs DEF Dispatched, Lined
<1>3. \A m \in Lanes : \A j \in Places(m) : r \notin Waited(JobAt(m, j))
  BY <1>2 DEF PlaceIsSound
<1>4. r \notin Waited(job)
  <2>1. job.waiting = <<>> => Waited(job) = {} BY DEF Waited
  <2>2. QED BY <1>1, <1>3, <2>1
<1>5. /\ joined \in Jobs /\ Waited(joined) = Waited(job) \union {r}
      /\ joined.bytes = job.bytes + r.bytes
      /\ (\A k, m \in DOMAIN job.waiting : job.waiting[k] = job.waiting[m] => k = m)
           => \A k, m \in DOMAIN joined.waiting : joined.waiting[k] = joined.waiting[m] => k = m
  BY <1>4, WaiterJoins
<1> HIDE DEF joined, l
<1>6. job.bytes = BytesOf(Waited(job)) /\ (\A q \in Waited(job) : q.lane = l /\ fate[q] = "accepted" /\ completed[q] = 0)
      /\ (\A k, m \in DOMAIN job.waiting : job.waiting[k] = job.waiting[m] => k = m)
  <2>1. CASE i \in Places(l) /\ Pending(l, i) /\ job = JobAt(l, i) BY <1>1, <1>2, <2>1 DEF PlaceIsSound
  <2>2. CASE job.bytes = 0 /\ job.waiting = <<>>
    <3>1. Waited(job) = {} /\ DOMAIN job.waiting = {} BY <2>2 DEF Waited
    <3>2. QED BY <2>2, <3>1, NoBytes
  <2>3. QED BY <2>1, <2>2 DEF l
<1>7. \A q \in Waited(job) : q \in Requests BY JobFacts
<1>8. stopping' = stopping /\ completed' = completed
      /\ \A q \in Requests : fate'[q] = IF q = r THEN "accepted" ELSE fate[q]
  BY DEF Accept, Dispatched, DispatcherShape
<1>9. completed[r] = 0 BY DEF Dispatched, CompletedOnce
<1>10. PlaceIsSound(l, i)'
  <2>1. joined.bytes = BytesOf(Waited(joined))
    <3>1. Waited(joined) \in SUBSET Requests /\ r \in Waited(joined) /\ Waited(joined) \ {r} = Waited(job)
      BY <1>4, <1>5, <1>7
    <3>2. BytesOf(Waited(joined)) = r.bytes + BytesOf(Waited(joined) \ {r}) BY <3>1, BytesOfOneMore
    <3>3. BytesOf(Waited(joined)) = r.bytes + job.bytes BY <1>6, <3>1, <3>2
    <3>4. job.bytes \in Nat BY JobFacts
    <3>5. QED BY <1>1, <1>5, <3>3, <3>4
  <2>2. \A q \in Waited(joined) : q.lane = l /\ fate'[q] = "accepted" /\ completed'[q] = 0
    BY <1>5, <1>6, <1>7, <1>8, <1>9 DEF l
  <2>3. JobAt(l, i)' = joined BY DEF joined, l
  <2>4. QED BY <1>5, <1>6, <2>1, <2>2, <2>3 DEF PlaceIsSound
<1>11. \A m \in Lanes : \A j \in Nat : m # l \/ j # i =>
         /\ j \in Places(m)' <=> j \in Places(m)
         /\ (j \in Places(m) => JobAt(m, j)' = JobAt(m, j)) /\ (Pending(m, j)' <=> Pending(m, j))
  BY DEF l
<1>12. ASSUME NEW m \in Lanes, NEW j \in Places(m), m # l \/ j # i
       PROVE  PlaceIsSound(m, j)'
  <2>1. j \in Nat /\ JobAt(m, j) \in Jobs /\ PlaceIsSound(m, j) BY <1>2, <1>12
  <2>2. JobAt(m, j)' = JobAt(m, j) /\ (Pending(m, j)' <=> Pending(m, j)) BY <1>11, <1>12, <2>1
  <2>3. \A q \in Waited(JobAt(m, j)) : q \in Requests BY <2>1, JobFacts
  <2>4. QED BY <1>8, <2>1, <2>2, <2>3 DEF PlaceIsSound
<1>13. ASSUME NEW m \in Lanes, NEW j \in Places(m)', NEW k \in Places(m)', j # k
       PROVE  Waited(JobAt(m, j)') \cap Waited(JobAt(m, k)') = {}
  <2>1. j \in Nat /\ k \in Nat BY <1>13, PlacesAreJobsThen
  <2>2. ASSUME NEW n \in Nat, n \in Places(m), m = l /\ n # i
        PROVE  Waited(JobAt(m, n)) \cap Waited(joined) = {}
    <3>1. Waited(JobAt(m, n)) \cap Waited(job) = {}
      <4>1. CASE i \in Places(l) /\ Pending(l, i) /\ job = JobAt(l, i)
        BY <1>1, <1>2, <2>2, <4>1 DEF PlacesDiffer
      <4>2. CASE job.waiting = <<>> BY <4>2 DEF Waited
      <4>3. QED BY <4>1, <4>2 DEF l
    <3>2. QED BY <1>3, <1>5, <2>2, <3>1
  <2>3. JobAt(l, i)' = joined BY DEF joined, l
  <2>4. CASE m = l /\ j = i
    <3>1. k \in Places(m) /\ JobAt(m, k)' = JobAt(m, k) BY <1>11, <1>13, <2>1, <2>4
    <3>2. QED BY <1>13, <2>1, <2>2, <2>3, <2>4, <3>1
  <2>5. CASE m = l /\ k = i
    <3>1. j \in Places(m) /\ JobAt(m, j)' = JobAt(m, j) BY <1>11, <1>13, <2>1, <2>5
    <3>2. QED BY <1>13, <2>1, <2>2, <2>3, <2>5, <3>1
  <2>6. CASE m # l \/ (j # i /\ k # i)
    <3>1. /\ j \in Places(m) /\ JobAt(m, j)' = JobAt(m, j)
          /\ k \in Places(m) /\ JobAt(m, k)' = JobAt(m, k)
      BY <1>11, <1>13, <2>1, <2>6
    <3>2. QED BY <1>2, <1>13, <3>1 DEF PlacesDiffer
  <2>7. QED BY <2>4, <2>5, <2>6
<1>14. Lined'
  <2>1. ASSUME NEW m \in Lanes, NEW j \in Places(m)' PROVE PlaceIsSound(m, j)'
    <3>1. j \in Nat BY <2>1, PlacesAreJobsThen
    <3>2. CASE m = l /\ j = i BY <1>10, <3>2
    <3>3. CASE m # l \/ j # i BY <1>11, <1>12, <2>1, <3>1, <3>3
    <3>4. QED BY <3>2, <3>3
  <2>2. QED BY <1>13, <2>1 DEF Lined, PlacesDiffer, Waited
<1>15. InJobs' = InJobs \union {r} /\ r \notin InJobs /\ InJobs \in SUBSET Requests
  <2>1. InJobs = InPlaces /\ InJobs' = InPlaces' BY JobsArePlaces, JobsArePlacesThen DEF Dispatched
  <2>2. \A x : x \in InPlaces <=> x \in Requests /\ \E m \in Lanes : \E j \in Places(m) :
                                   Pending(m, j) /\ x \in Waited(JobAt(m, j))
    BY DEF InPlaces
  <2>3. \A x : x \in InPlaces' <=> x \in Requests /\ \E m \in Lanes : \E j \in Places(m)' :
                                   Pending(m, j)' /\ x \in Waited(JobAt(m, j)')
    BY DEF InPlaces, Waited
  <2>4. ASSUME NEW x \in InPlaces PROVE x \in InPlaces'
    <3>0. PICK m \in Lanes : \E j \in Places(m) : Pending(m, j) /\ x \in Waited(JobAt(m, j)) BY <2>2, <2>4
    <3>1. PICK j \in Places(m) : Pending(m, j) /\ x \in Waited(JobAt(m, j)) BY <3>0
    <3>2. CASE m = l /\ j = i
      <4>1. job = JobAt(m, j) BY <3>1, <3>2 DEF l
      <4>2. x \in Waited(JobAt(l, i)') /\ Pending(l, i)' /\ i \in Places(l)'
        BY <1>5, <3>1, <4>1 DEF joined, l
      <4>3. QED BY <1>1, <2>2, <2>3, <2>4, <4>2
    <3>3. CASE m # l \/ j # i
      <4>1. j \in Places(m)' /\ JobAt(m, j)' = JobAt(m, j) /\ Pending(m, j)'
        BY <1>2, <1>11, <3>1, <3>3
      <4>2. QED BY <2>2, <2>3, <2>4, <3>1, <4>1
    <3>4. QED BY <3>2, <3>3
  <2>5. r \in InPlaces'
    <3>1. r \in Waited(JobAt(l, i)') /\ Pending(l, i)' /\ i \in Places(l)' BY <1>5 DEF joined, l
    <3>2. QED BY <1>1, <2>3, <3>1
  <2>6. ASSUME NEW x \in InPlaces', x # r PROVE x \in InPlaces
    <3>0. PICK m \in Lanes : \E j \in Places(m)' : Pending(m, j)' /\ x \in Waited(JobAt(m, j)')
      BY <2>3, <2>6
    <3>1. PICK j \in Places(m)' : Pending(m, j)' /\ x \in Waited(JobAt(m, j)') BY <3>0
    <3>2. j \in Nat BY PlacesAreJobsThen
    <3>3. CASE m = l /\ j = i
      <4>1. x \in Waited(job) BY <1>5, <2>6, <3>1, <3>3 DEF joined, l
      <4>2. job.waiting # <<>> BY <4>1 DEF Waited
      <4>3. i \in Places(l) /\ Pending(l, i) /\ job = JobAt(l, i) BY <4>2 DEF l
      <4>4. QED BY <1>1, <2>2, <2>3, <2>6, <4>1, <4>3
    <3>4. CASE m # l \/ j # i
      <4>1. j \in Places(m) /\ JobAt(m, j)' = JobAt(m, j) /\ Pending(m, j) BY <1>11, <3>1, <3>2, <3>4
      <4>2. QED BY <2>2, <2>3, <2>6, <3>1, <4>1
    <3>5. QED BY <3>3, <3>4
  <2>7. r \notin InPlaces BY <1>3, <2>2
  <2>8. QED BY <2>1, <2>2, <2>4, <2>5, <2>6, <2>7
<1>16. BytesConserved'
  <2>1. pendingBytes = BytesOf(InJobs) BY BytesAre DEF Dispatched
  <2>2. pendingBytes' = pendingBytes + r.bytes BY DEF Accept
  <2>3. InJobs' \in SUBSET Requests /\ r \in InJobs' /\ InJobs' \ {r} = InJobs BY <1>15
  <2>4. BytesOf(InJobs') = r.bytes + BytesOf(InJobs' \ {r}) BY <2>3, BytesOfOneMore
  <2>5. BytesOf(InJobs) \in Nat BY <1>15, BytesAreNumbers
  <2>6. BytesOf(InJobs') = r.bytes + BytesOf(InJobs) BY <2>3, <2>4
  <2>7. pendingBytes' = BytesOf(InJobs') BY <1>1, <2>1, <2>2, <2>5, <2>6
  <2>8. QED BY <1>8, <2>7, BytesAreThen
<1>17. CompletedOnce' BY <1>8 DEF Dispatched, CompletedOnce
<1>18. QED BY <1>14, <1>16, <1>17 DEF Dispatched

\* A request joins a reading that is queued.
LEMMA JoinsQueuedKept ==
  ASSUME Dispatched, NEW r \in Requests, SubmitJoinsQueued(r)
  PROVE  Dispatched'
<1> DEFINE l == r.lane
<1>1. l \in Lanes BY DispatcherAssumption
<1>2. DispatcherShape BY DEF Dispatched
<1>3. PICK i \in Queued(r) : queues' = [queues EXCEPT ![l][i] = WithWaiter(@, r)]
  BY DEF SubmitJoinsQueued
<1>4. /\ queues[l] \in Seq(Jobs) /\ Len(queues[l]) \in Nat /\ DOMAIN queues[l] = 1 .. Len(queues[l])
      /\ \A m \in Lanes : \A j \in Places(m) : j \in Nat /\ JobAt(m, j) \in Jobs
  BY <1>1, <1>2, PlaceFacts
<1>5. i \in 1 .. Len(queues[l]) /\ i \in Nat /\ i # 0 /\ i \in Places(l) BY <1>4 DEF Queued, Places
<1> DEFINE job == queues[l][i]
           joined == WithWaiter(job, r)
<1>6. job = JobAt(l, i) /\ job \in Jobs BY <1>4, <1>5, ElementOfSeq DEF JobAt
<1>7. r \notin Waited(job)
  BY <1>1, <1>5, <1>6 DEF SubmitJoinsQueued, Dispatched, Lined, PlaceIsSound
<1>8. joined \in Jobs BY <1>6, <1>7, WaiterJoins
<1>9. /\ queues' = [queues EXCEPT ![l] = [queues[l] EXCEPT ![i] = joined]]
      /\ inHand' = inHand
  BY <1>1, <1>2, <1>3 DEF DispatcherShape, SubmitJoinsQueued
<1> HIDE DEF joined, job, l
<1>10. /\ [queues[l] EXCEPT ![i] = joined] \in Seq(Jobs)
       /\ Len([queues[l] EXCEPT ![i] = joined]) = Len(queues[l])
       /\ \A j \in 1 .. Len(queues[l]) : [queues[l] EXCEPT ![i] = joined][j] = IF j = i THEN joined ELSE queues[l][j]
  BY <1>4, <1>5, <1>8, ExceptSeq
<1>11. \A m \in Lanes : queues'[m] = IF m = l THEN [queues[l] EXCEPT ![i] = joined] ELSE queues[m]
  BY <1>1, <1>2, <1>9 DEF DispatcherShape
<1>12. queues' \in [Lanes -> Seq(Jobs)] BY <1>2, <1>9, <1>10 DEF DispatcherShape
<1>13. Accept(r) /\ fate[r] = "new" /\ ~stopping BY DEF SubmitJoinsQueued
<1>14. DispatcherShape'
  BY <1>2, <1>9, <1>12, <1>13 DEF DispatcherShape, Accept
<1>15. \A m \in Lanes : Len(queues'[m]) = Len(queues[m]) BY <1>10, <1>11
<1>16. \A m \in Lanes : Places(m)' = Places(m) BY <1>15 DEF Places
<1>17. \A m \in Lanes : \A j \in Nat : (Pending(m, j)' <=> Pending(m, j)) BY <1>9 DEF Pending
<1>18. JobAt(l, i)' = joined
  BY <1>1, <1>5, <1>10, <1>11 DEF JobAt
<1>19. \A m \in Lanes : \A j \in Nat : m # l \/ j # i =>
         (j \in Places(m)' <=> j \in Places(m)) /\ (j \in Places(m) => JobAt(m, j)' = JobAt(m, j))
  <2>1. ASSUME NEW m \in Lanes, NEW j \in Places(m), m # l \/ j # i PROVE JobAt(m, j)' = JobAt(m, j)
    <3>1. CASE j = 0 BY <1>9, <3>1 DEF JobAt
    <3>2. CASE m # l BY <1>11, <3>2, <1>9 DEF JobAt
    <3>3. CASE m = l /\ j # 0
      <4>1. j \in 1 .. Len(queues[l]) BY <1>4, <2>1, <3>3 DEF Places
      <4>2. QED BY <1>1, <1>10, <1>11, <2>1, <3>3, <4>1 DEF JobAt
    <3>4. QED BY <3>1, <3>2, <3>3
  <2>2. QED BY <1>16, <2>1
<1>20. Pending(l, i)' /\ Pending(l, i) /\ i \in Places(l)' BY <1>1, <1>5, <1>16 DEF Pending
<1>21. JobAt(r.lane, i)' = WithWaiter(job, r) BY <1>18 DEF joined, l
<1>22. /\ i \in Places(r.lane)' /\ Pending(r.lane, i)' /\ i \in Places(r.lane) /\ Pending(r.lane, i)
       /\ job = JobAt(r.lane, i) /\ job \in Jobs
  BY <1>5, <1>6, <1>20 DEF l
<1>23. \A m \in Lanes : \A j \in Nat : m # r.lane \/ j # i =>
         /\ j \in Places(m)' <=> j \in Places(m)
         /\ (j \in Places(m) => JobAt(m, j)' = JobAt(m, j)) /\ (Pending(m, j)' <=> Pending(m, j))
  BY <1>17, <1>19 DEF l
<1>24. QED BY <1>13, <1>14, <1>21, <1>22, <1>23, JoinKept

\* A request joins the reading the worker is invoking.
LEMMA JoinsInvokedKept ==
  ASSUME Dispatched, NEW r \in Requests, SubmitJoinsInvoked(r)
  PROVE  Dispatched'
<1> DEFINE l == r.lane
           job == inHand[l].job
           joined == WithWaiter(job, r)
<1>1. l \in Lanes BY DispatcherAssumption
<1>2. DispatcherShape BY DEF Dispatched
<1>3. /\ Len(queues[l]) \in Nat /\ inHand[l].job \in Jobs
      /\ inHand[l] \in [at : {"free", "invoke", "answer", "answering"}, job : Jobs]
  BY <1>1, <1>2, PlaceFacts
<1>4. 0 \in Places(l) /\ job = JobAt(l, 0) BY <1>3 DEF Places, JobAt
<1>5. r \notin Waited(job)
  BY <1>1, <1>4 DEF SubmitJoinsInvoked, Dispatched, Lined, PlaceIsSound
<1>6. joined \in Jobs BY <1>3, <1>5, WaiterJoins
<1>7. inHand' = [inHand EXCEPT ![l] = [inHand[l] EXCEPT !.job = joined]] /\ queues' = queues
  BY <1>1, <1>2 DEF DispatcherShape, SubmitJoinsInvoked
<1>8. inHand[l].at = "invoke" BY DEF SubmitJoinsInvoked, JoinsInvoked, Invoked
<1> HIDE DEF joined, job, l
<1>9. /\ [inHand[l] EXCEPT !.job = joined] \in [at : {"free", "invoke", "answer", "answering"}, job : Jobs]
      /\ [inHand[l] EXCEPT !.job = joined].at = "invoke" /\ [inHand[l] EXCEPT !.job = joined].job = joined
  BY <1>3, <1>6, <1>8
<1>10. \A m \in Lanes : inHand'[m] = IF m = l THEN [inHand[l] EXCEPT !.job = joined] ELSE inHand[m]
  BY <1>1, <1>2, <1>7 DEF DispatcherShape
<1>11. inHand' \in [Lanes -> [at : {"free", "invoke", "answer", "answering"}, job : Jobs]]
  BY <1>2, <1>7, <1>9 DEF DispatcherShape
<1>12. Accept(r) /\ fate[r] = "new" /\ ~stopping BY DEF SubmitJoinsInvoked
<1>13. DispatcherShape' BY <1>2, <1>7, <1>11, <1>12 DEF DispatcherShape, Accept
<1>14. \A m \in Lanes : Places(m)' = Places(m) BY <1>7 DEF Places
<1>15. \A m \in Lanes : \A j \in Nat : (Pending(m, j)' <=> Pending(m, j))
  BY <1>1, <1>8, <1>9, <1>10 DEF Pending
<1>16. JobAt(r.lane, 0)' = WithWaiter(job, r) BY <1>1, <1>9, <1>10 DEF JobAt, joined, l
<1>17. \A m \in Lanes : \A j \in Nat : m # l \/ j # 0 => JobAt(m, j)' = JobAt(m, j)
  BY <1>7, <1>10 DEF JobAt
<1>18. Pending(l, 0) /\ Pending(l, 0)' /\ 0 \in Places(l)' BY <1>1, <1>4, <1>8, <1>14, <1>15 DEF Pending
<1>19. \A m \in Lanes : \A j \in Nat : m # r.lane \/ j # 0 =>
         /\ j \in Places(m)' <=> j \in Places(m)
         /\ (j \in Places(m) => JobAt(m, j)' = JobAt(m, j)) /\ (Pending(m, j)' <=> Pending(m, j))
  BY <1>14, <1>15, <1>17 DEF l
<1>20. job \in Jobs /\ job = JobAt(r.lane, 0) /\ 0 \in Places(r.lane) /\ Pending(r.lane, 0)
       /\ 0 \in Places(r.lane)' /\ Pending(r.lane, 0)'
  BY <1>3, <1>4, <1>18 DEF job, l
<1>21. QED BY <1>12, <1>13, <1>16, <1>19, <1>20, JoinKept

\* A request starts a job of its own.
LEMMA SubmitJobKept ==
  ASSUME Dispatched, NEW r \in Requests, SubmitJob(r)
  PROVE  Dispatched'
<1> DEFINE l == r.lane
           job == [NoJob EXCEPT !.key = r.key]
           joined == WithWaiter(job, r)
<1>1. l \in Lanes BY DispatcherAssumption
<1>2. DispatcherShape BY DEF Dispatched
<1>3. queues[l] \in Seq(Jobs) /\ Len(queues[l]) \in Nat BY <1>1, <1>2, PlaceFacts
<1>4. <<>> \in Seq(Requests) BY EmptySeq
<1> PICK i \in Nat : i = Len(queues[l]) + 1 BY <1>3
<1>5. job \in Jobs /\ job.bytes = 0 /\ job.waiting = <<>> BY <1>4 DEF Jobs, Keys, NoJob
<1>6. r \notin Waited(job) BY <1>5 DEF Waited
<1> HIDE DEF job
<1>7. joined \in Jobs BY <1>5, <1>6, WaiterJoins
<1>8. queues' = [queues EXCEPT ![l] = Append(queues[l], joined)] /\ inHand' = inHand
  BY <1>1, <1>2 DEF SubmitJob, DispatcherShape, job
<1> HIDE DEF joined, l
<1>9. /\ Append(queues[l], joined) \in Seq(Jobs) /\ Len(Append(queues[l], joined)) = i
      /\ \A j \in 1 .. Len(queues[l]) : Append(queues[l], joined)[j] = queues[l][j]
      /\ Append(queues[l], joined)[i] = joined
  BY <1>3, <1>7, AppendProperties
<1>10. \A m \in Lanes : queues'[m] = IF m = l THEN Append(queues[l], joined) ELSE queues[m]
  BY <1>1, <1>2, <1>8 DEF DispatcherShape
<1>11. queues' \in [Lanes -> Seq(Jobs)] BY <1>2, <1>8, <1>9 DEF DispatcherShape
<1>12. Accept(r) /\ fate[r] = "new" /\ ~stopping BY DEF SubmitJob
<1>13. DispatcherShape' BY <1>2, <1>8, <1>11, <1>12 DEF DispatcherShape, Accept
<1>14. i \in Nat /\ i # 0 /\ i \notin Places(l) BY <1>3 DEF Places
<1>15a. /\ \A m \in Lanes : Len(queues[m]) \in Nat
      /\ \A m \in Lanes : Len(queues'[m]) = IF m = l THEN i ELSE Len(queues[m])
  BY <1>2, <1>9, <1>10, PlaceFacts
<1>15. i \in Places(l)' BY <1>1, <1>3, <1>15a DEF Places
<1>16. \A m \in Lanes : \A j \in Nat : m # l \/ j # i => (j \in Places(m)' <=> j \in Places(m))
  <2> TAKE m \in Lanes
  <2> TAKE j \in Nat
  <2>1. Places(m)' = 0 .. Len(queues'[m]) /\ Places(m) = 0 .. Len(queues[m]) BY DEF Places
  <2>2. QED BY <1>3, <1>15a, <2>1
<1>17. \A m \in Lanes : \A j \in Nat : (Pending(m, j)' <=> Pending(m, j)) BY <1>8 DEF Pending
<1>18. JobAt(l, i)' = joined BY <1>1, <1>9, <1>10, <1>14 DEF JobAt
<1>19. ASSUME NEW m \in Lanes, NEW j \in Places(m), m # l \/ j # i PROVE JobAt(m, j)' = JobAt(m, j)
  <2>1. CASE j = 0 BY <1>8, <2>1 DEF JobAt
  <2>2. CASE m # l BY <1>8, <1>10, <2>2 DEF JobAt
  <2>3. CASE m = l /\ j # 0
    <3>1. j \in 1 .. Len(queues[l]) BY <1>3, <1>19, <2>3 DEF Places
    <3>2. QED BY <1>1, <1>9, <1>10, <2>3, <3>1 DEF JobAt
  <2>4. QED BY <2>1, <2>2, <2>3
<1>20. Pending(l, i)' BY <1>14 DEF Pending
<1>21. \A m \in Lanes : \A j \in Nat : m # r.lane \/ j # i =>
         /\ j \in Places(m)' <=> j \in Places(m)
         /\ (j \in Places(m) => JobAt(m, j)' = JobAt(m, j)) /\ (Pending(m, j)' <=> Pending(m, j))
  BY <1>16, <1>17, <1>19 DEF l
<1>22. JobAt(r.lane, i)' = WithWaiter(job, r) BY <1>18 DEF joined, l
<1>23. i \in Places(r.lane)' /\ Pending(r.lane, i)' /\ i \notin Places(r.lane)
  BY <1>14, <1>15, <1>20 DEF l
<1>24. QED BY <1>5, <1>12, <1>13, <1>21, <1>22, <1>23, JoinKept

\* A step after which nobody waits where he did not.
LEMMA ShrinkKept ==
  ASSUME Dispatched, DispatcherShape', stopping => stopping',
         \A q \in Requests : fate[q] = "accepted" => fate'[q] = "accepted",
         \A l \in Lanes : \A j \in Places(l)' :
           /\ j \in Places(l)
           /\ Waited(JobAt(l, j))' \subseteq Waited(JobAt(l, j))
           /\ \A k, m \in DOMAIN JobAt(l, j)'.waiting :
                JobAt(l, j)'.waiting[k] = JobAt(l, j)'.waiting[m] => k = m
           /\ \A q \in Waited(JobAt(l, j))' : completed'[q] = 0
           /\ ~stopping' /\ Pending(l, j)' => Pending(l, j) /\ JobAt(l, j)' = JobAt(l, j)
  PROVE  Lined'
<1>1. ASSUME NEW l \in Lanes, NEW j \in Places(l)' PROVE PlaceIsSound(l, j)'
  <2>1. j \in Places(l) BY <1>1
  <2>2. JobAt(l, j) \in Jobs /\ PlaceIsSound(l, j) BY <2>1, PlacesAreJobs DEF Dispatched, Lined
  <2>3. \A q \in Waited(JobAt(l, j)) : q \in Requests BY <2>2, JobFacts
  <2>4. \A q \in Waited(JobAt(l, j)') : q.lane = l /\ fate'[q] = "accepted" /\ completed'[q] = 0
    BY <1>1, <2>2, <2>3 DEF PlaceIsSound
  <2>5. ~stopping' /\ Pending(l, j)' => JobAt(l, j)'.bytes = BytesOf(Waited(JobAt(l, j)'))
    BY <1>1, <2>2 DEF PlaceIsSound
  <2>6. QED BY <1>1, <2>4, <2>5 DEF PlaceIsSound
<1>2. ASSUME NEW l \in Lanes, NEW j \in Places(l)', NEW k \in Places(l)' PROVE PlacesDiffer(l, j, k)'
  <2>1. PlacesDiffer(l, j, k) BY <1>2 DEF Dispatched, Lined
  <2>2. QED BY <1>2, <2>1 DEF PlacesDiffer
<1>3. QED BY <1>1, <1>2 DEF Lined

\* A step that moves no job and answers nobody.
LEMMA StillKept ==
  ASSUME Dispatched, DispatcherShape', UNCHANGED <<queues, inHand, pendingBytes, stopping, completed>>,
         \A q \in Requests : fate[q] = "accepted" => fate'[q] = "accepted"
  PROVE  Dispatched'
<1>1. /\ \A l \in Lanes : Places(l)' = Places(l)
      /\ \A l \in Lanes, j \in Nat : JobAt(l, j)' = JobAt(l, j) /\ (Pending(l, j)' <=> Pending(l, j))
  BY DEF Places, JobAt, Pending
<1>2. ASSUME NEW l \in Lanes, NEW j \in Places(l)
      PROVE  j \in Nat /\ PlaceIsSound(l, j) /\ \A q \in Waited(JobAt(l, j)) : completed[q] = 0
  BY PlacesAreJobs DEF Dispatched, Lined, PlaceIsSound
<1>3. Lined'
  <2>1. ASSUME NEW l \in Lanes, NEW j \in Places(l)'
        PROVE  /\ j \in Places(l) /\ JobAt(l, j)' = JobAt(l, j) /\ (Pending(l, j)' <=> Pending(l, j))
               /\ Waited(JobAt(l, j))' = Waited(JobAt(l, j))
               /\ \A q \in Waited(JobAt(l, j)) : completed'[q] = 0
               /\ \A k, m \in DOMAIN JobAt(l, j).waiting :
                    JobAt(l, j).waiting[k] = JobAt(l, j).waiting[m] => k = m
    <3>1. j \in Places(l) /\ j \in Nat BY <1>1, <1>2, <2>1
    <3>2. JobAt(l, j)' = JobAt(l, j) BY <1>1, <3>1
    <3>3. Waited(JobAt(l, j))' = Waited(JobAt(l, j)) BY <3>2 DEF Waited
    <3>4. PlaceIsSound(l, j) /\ \A q \in Waited(JobAt(l, j)) : completed[q] = 0 BY <1>2, <3>1
    <3>5. \A k, m \in DOMAIN JobAt(l, j).waiting : JobAt(l, j).waiting[k] = JobAt(l, j).waiting[m] => k = m
      BY <3>4 DEF PlaceIsSound
    <3>6. QED BY <1>1, <3>1, <3>2, <3>3, <3>4, <3>5
  <2>2. QED BY <2>1, ShrinkKept
<1>4. InJobs' = InJobs BY DEF InJobs
<1>5. BytesConserved' BY <1>4, BytesAre, BytesAreThen DEF Dispatched
<1>6. CompletedOnce' BY DEF Dispatched, CompletedOnce
<1>7. QED BY <1>3, <1>5, <1>6 DEF Dispatched

\* A refusal changes nothing else.
LEMMA RefusedKept ==
  ASSUME Dispatched, NEW r \in Requests, SubmitRefused(r)
  PROVE  Dispatched'
<1>1. DispatcherShape' /\ UNCHANGED <<queues, inHand, pendingBytes, stopping, completed>>
  BY DEF SubmitRefused, Dispatched, DispatcherShape
<1>2. \A q \in Requests : fate[q] = "accepted" => fate'[q] = "accepted"
  BY DEF SubmitRefused, Dispatched, DispatcherShape
<1>3. QED BY <1>1, <1>2, StillKept

\* Replies and windows are no business of the lanes.
LEMMA WindowsKept ==
  ASSUME Dispatched, (\E r \in Requests : ShowReply(r)) \/ \E w \in Windows : CloseWindow(w)
  PROVE  Dispatched'
<1>1. UNCHANGED <<queues, inHand, pendingBytes, stopping, completed, fate>>
  BY DEF ShowReply, CloseWindow
<1>2. DispatcherShape' BY <1>1 DEF Dispatched, DispatcherShape
<1>3. QED BY <1>1, <1>2, StillKept

\* A job leaves the queue and is invoked: everything moves up one place.
LEMMA TakeJobKept ==
  ASSUME Dispatched, NEW l \in Lanes, TakeJob(l)
  PROVE  Dispatched'
<1>1. DispatcherShape BY DEF Dispatched
<1>2. /\ \A m \in Lanes : queues[m] \in Seq(Jobs) /\ Len(queues[m]) \in Nat
      /\ DOMAIN queues[l] = 1 .. Len(queues[l])
  BY <1>1, PlaceFacts
<1>3. queues[l] # <<>> /\ inHand[l] = Free /\ ~stopping BY DEF TakeJob
<1>4. /\ Head(queues[l]) \in Jobs /\ Tail(queues[l]) \in Seq(Jobs)
      /\ Len(Tail(queues[l])) = Len(queues[l]) - 1
      /\ \A j \in 1 .. Len(Tail(queues[l])) : Tail(queues[l])[j] = queues[l][j + 1]
  BY <1>2, <1>3, HeadTailProperties
<1>5. Head(queues[l]) = queues[l][1] BY <1>2, <1>3
<1> DEFINE hand == [at |-> "invoke", job |-> Head(queues[l])]
<1>6. hand \in [at : {"free", "invoke", "answer", "answering"}, job : Jobs]
      /\ hand.at = "invoke" /\ hand.job = queues[l][1]
  BY <1>4, <1>5
<1>7. inHand' = [inHand EXCEPT ![l] = hand] /\ queues' = [queues EXCEPT ![l] = Tail(queues[l])]
  BY DEF TakeJob
<1> HIDE DEF hand
<1>8. /\ \A m \in Lanes : inHand'[m] = IF m = l THEN hand ELSE inHand[m]
      /\ \A m \in Lanes : queues'[m] = IF m = l THEN Tail(queues[l]) ELSE queues[m]
  BY <1>1, <1>7 DEF DispatcherShape
<1>9. DispatcherShape' BY <1>1, <1>4, <1>6, <1>7 DEF DispatcherShape, TakeJob
<1>10. stopping' = stopping /\ fate' = fate /\ completed' = completed /\ pendingBytes' = pendingBytes
  BY DEF TakeJob
<1>11. Len(queues[l]) > 0 BY <1>2, <1>3, EmptySeq
<1>12. /\ Places(l)' = 0 .. Len(queues[l]) - 1 /\ Places(l) = 0 .. Len(queues[l])
       /\ \A m \in Lanes : m # l => Places(m)' = Places(m)
  BY <1>4, <1>8 DEF Places
<1>13. \A j \in Places(l)' : j + 1 \in Places(l) /\ JobAt(l, j)' = JobAt(l, j + 1) /\ Pending(l, j)'
  <2> TAKE j \in Places(l)'
  <2>1. j \in Nat /\ j + 1 \in Places(l) /\ j + 1 # 0 BY <1>2, <1>12
  <2>2. CASE j = 0 BY <1>6, <1>8, <2>1, <2>2 DEF JobAt, Pending
  <2>3. CASE j # 0
    <3>1. j \in 1 .. Len(Tail(queues[l])) BY <1>2, <1>4, <1>12, <2>1, <2>3
    <3>2. queues'[l][j] = queues[l][j + 1] BY <1>4, <1>8, <3>1
    <3>3. QED BY <2>1, <2>3, <3>2 DEF JobAt, Pending
  <2>4. QED BY <2>2, <2>3
<1>14. \A m \in Lanes : m # l => \A j \in Places(m) :
         JobAt(m, j)' = JobAt(m, j) /\ (Pending(m, j)' <=> Pending(m, j))
  BY <1>8 DEF JobAt, Pending
<1>15. \A m \in Lanes : \A j \in Places(m) : j \in Nat /\ PlaceIsSound(m, j) /\ \A k \in Places(m) : PlacesDiffer(m, j, k)
  BY <1>1, PlacesAreJobs DEF Dispatched, Lined
<1>16. Lined'
  <2>1. ASSUME NEW m \in Lanes, NEW j \in Places(m)' PROVE PlaceIsSound(m, j)'
    <3>1. CASE m # l BY <1>10, <1>12, <1>14, <1>15, <2>1, <3>1 DEF PlaceIsSound
    <3>2. CASE m = l
      <4>1. j + 1 \in Places(l) /\ JobAt(l, j)' = JobAt(l, j + 1) BY <1>13, <2>1, <3>2
      <4>2. PlaceIsSound(l, j + 1) /\ Pending(l, j + 1)
        <5>1. j \in Nat BY <1>9, <2>1, PlacesAreJobsThen
        <5>2. QED BY <1>15, <4>1, <5>1 DEF Pending
      <4>3. QED BY <1>10, <3>2, <4>1, <4>2 DEF PlaceIsSound
    <3>3. QED BY <3>1, <3>2
  <2>2. ASSUME NEW m \in Lanes, NEW j \in Places(m)', NEW k \in Places(m)' PROVE PlacesDiffer(m, j, k)'
    <3>1. CASE m # l BY <1>12, <1>14, <1>15, <2>2, <3>1 DEF PlacesDiffer
    <3>2. CASE m = l
      <4>1. /\ j + 1 \in Places(l) /\ JobAt(l, j)' = JobAt(l, j + 1)
            /\ k + 1 \in Places(l) /\ JobAt(l, k)' = JobAt(l, k + 1)
            /\ j \in Nat /\ k \in Nat
        BY <1>9, <1>13, <2>2, <3>2, PlacesAreJobsThen
      <4>2. PlacesDiffer(l, j + 1, k + 1) BY <1>15, <4>1
      <4>3. j # k => j + 1 # k + 1 BY <4>1
      <4>4. QED BY <3>2, <4>1, <4>2, <4>3 DEF PlacesDiffer
    <3>3. QED BY <3>1, <3>2
  <2>3. QED BY <2>1, <2>2 DEF Lined
<1>17. InJobs' = InJobs
  <2>1. InJobs = InPlaces /\ InJobs' = InPlaces' BY <1>1, <1>9, JobsArePlaces, JobsArePlacesThen
  <2>2. \A x : x \in InPlaces <=> x \in Requests /\ \E m \in Lanes : \E j \in Places(m) :
                                   Pending(m, j) /\ x \in Waited(JobAt(m, j))
    BY DEF InPlaces
  <2>3. \A x : x \in InPlaces' <=> x \in Requests /\ \E m \in Lanes : \E j \in Places(m)' :
                                   Pending(m, j)' /\ x \in Waited(JobAt(m, j)')
    BY DEF InPlaces, Waited
  <2>4. ASSUME NEW x, NEW m \in Lanes
        PROVE  (\E j \in Places(m)' : Pending(m, j)' /\ x \in Waited(JobAt(m, j)'))
               <=> \E j \in Places(m) : Pending(m, j) /\ x \in Waited(JobAt(m, j))
    <3>1. CASE m # l BY <1>12, <1>14, <3>1
    <3>2. CASE m = l
      <4>1. ASSUME NEW j \in Places(l)', x \in Waited(JobAt(l, j)')
            PROVE  \E k \in Places(l) : Pending(l, k) /\ x \in Waited(JobAt(l, k))
        <5>1. j \in Nat BY <1>9, PlacesAreJobsThen
        <5>2. j + 1 \in Places(l) /\ x \in Waited(JobAt(l, j + 1)) /\ Pending(l, j + 1)
          BY <1>13, <4>1, <5>1 DEF Pending
        <5>3. QED BY <5>2
      <4>2. ASSUME NEW k \in Places(l), Pending(l, k), x \in Waited(JobAt(l, k))
            PROVE  \E j \in Places(l)' : Pending(l, j)' /\ x \in Waited(JobAt(l, j)')
        <5>1. k # 0 BY <1>3, <4>2 DEF Pending, Free
        <5>2. k - 1 \in Places(l)' /\ (k - 1) + 1 = k BY <1>2, <1>12, <1>15, <5>1
        <5>3. QED BY <1>13, <4>2, <5>2
      <4>3. QED BY <3>2, <4>1, <4>2
    <3>3. QED BY <3>1, <3>2
  <2>5. \A x : x \in InPlaces' <=> x \in InPlaces BY <2>2, <2>3, <2>4
  <2>6. QED BY <2>1, <2>5
<1>18. BytesConserved' BY <1>10, <1>17, BytesAre, BytesAreThen DEF Dispatched
<1>19. CompletedOnce' BY <1>10 DEF Dispatched, CompletedOnce
<1>20. QED BY <1>9, <1>16, <1>18, <1>19 DEF Dispatched

Hands == [at : {"free", "invoke", "answer", "answering"}, job : Jobs]

\* What changes when only the job in a worker's hand does.
LEMMA HandMoves ==
  ASSUME DispatcherShape, NEW l \in Lanes, NEW h \in Hands,
         inHand' = [inHand EXCEPT ![l] = h], queues' = queues
  PROVE  /\ inHand' \in [Lanes -> Hands]
         /\ \A m \in Lanes : Places(m)' = Places(m)
         /\ JobAt(l, 0)' = h.job /\ (Pending(l, 0)' <=> h.at = "invoke")
         /\ \A m \in Lanes : \A j \in Nat : m # l \/ j # 0 =>
              JobAt(m, j)' = JobAt(m, j) /\ (Pending(m, j)' <=> Pending(m, j))
         /\ inHand[l].at # "invoke" /\ h.at # "invoke" => InJobs' = InJobs
<1>1. inHand' \in [Lanes -> Hands] BY DEF DispatcherShape, Hands
<1>2. inHand'[l] = h /\ \A m \in Lanes : m # l => inHand'[m] = inHand[m] BY DEF DispatcherShape
<1>3. ASSUME inHand[l].at # "invoke", h.at # "invoke" PROVE InJobs' = InJobs
  <2>1. inHand'[l].at # "invoke" BY <1>2, <1>3
  <2>2. ASSUME NEW m \in Lanes, NEW r \in Requests
        PROVE  (inHand'[m].at = "invoke" /\ \E k \in DOMAIN inHand'[m].job.waiting : inHand'[m].job.waiting[k] = r)
               <=> (inHand[m].at = "invoke" /\ \E k \in DOMAIN inHand[m].job.waiting : inHand[m].job.waiting[k] = r)
    <3>1. CASE m = l BY <1>3, <2>1, <3>1
    <3>2. CASE m # l BY <1>2, <3>2
    <3>3. QED BY <3>1, <3>2
  <2>3. QED BY <2>2 DEF InJobs
<1>4. \A m \in Lanes : Places(m)' = Places(m) BY DEF Places
<1>5. JobAt(l, 0)' = h.job /\ (Pending(l, 0)' <=> h.at = "invoke") BY <1>2 DEF JobAt, Pending
<1>6. \A m \in Lanes : \A j \in Nat : m # l \/ j # 0 =>
        JobAt(m, j)' = JobAt(m, j) /\ (Pending(m, j)' <=> Pending(m, j))
  BY <1>2 DEF JobAt, Pending
<1>7. QED BY <1>1, <1>3, <1>4, <1>5, <1>6

\* The invoke has returned, the completions begin, one is called, or they end: whoever still
\* waits did wait, and what leaves the pending jobs is taken off.
LEMMA HandKept ==
  ASSUME Dispatched, NEW l \in Lanes, NEW h \in Hands, NEW gone \in SUBSET Waited(inHand[l].job),
         inHand' = [inHand EXCEPT ![l] = h], queues' = queues, stopping' = stopping, fate' = fate,
         h.at # "invoke", Waited(h.job) = Waited(inHand[l].job) \ gone \/ Waited(h.job) = {},
         \A k, m \in DOMAIN h.job.waiting : h.job.waiting[k] = h.job.waiting[m] => k = m,
         completed' = [r \in Requests |-> IF r \in gone THEN 1 ELSE completed[r]]
  PROVE  DispatcherShape' /\ Lined' /\ CompletedOnce'
<1>1. DispatcherShape BY DEF Dispatched
<1>2. /\ inHand' \in [Lanes -> Hands]
      /\ \A m \in Lanes : Places(m)' = Places(m)
      /\ JobAt(l, 0)' = h.job /\ ~Pending(l, 0)'
      /\ \A m \in Lanes : \A j \in Nat : m # l \/ j # 0 =>
           JobAt(m, j)' = JobAt(m, j) /\ (Pending(m, j)' <=> Pending(m, j))
  BY <1>1, HandMoves
<1>3. completed \in [Requests -> Nat] BY <1>1 DEF DispatcherShape
<1>4. completed' \in [Requests -> Nat] BY <1>3
<1>5. DispatcherShape' BY <1>1, <1>2, <1>4 DEF DispatcherShape, Hands
<1>6. 0 \in Places(l) /\ JobAt(l, 0) = inHand[l].job BY <1>1, PlaceFacts DEF Places, JobAt
<1>7. \A m \in Lanes : \A j \in Places(m) :
        /\ j \in Nat /\ JobAt(m, j) \in Jobs /\ PlaceIsSound(m, j)
        /\ \A k \in Places(m) : PlacesDiffer(m, j, k)
  BY <1>1, PlacesAreJobs DEF Dispatched, Lined
<1>8. \A q \in gone : q \in Requests /\ q.lane = l /\ completed[q] = 0 /\ fate[q] = "accepted"
  <2>1. inHand[l].job \in Jobs BY <1>1, PlaceFacts
  <2>2. Waited(inHand[l].job) \in SUBSET Requests BY <2>1, JobFacts
  <2>3. QED BY <1>6, <1>7, <2>2 DEF PlaceIsSound
<1>9. ASSUME NEW m \in Lanes, NEW j \in Places(m)'
      PROVE  /\ j \in Places(m)
             /\ Waited(JobAt(m, j))' \subseteq Waited(JobAt(m, j))
             /\ \A k, i \in DOMAIN JobAt(m, j)'.waiting :
                  JobAt(m, j)'.waiting[k] = JobAt(m, j)'.waiting[i] => k = i
             /\ \A q \in Waited(JobAt(m, j))' : completed'[q] = 0
             /\ ~stopping' /\ Pending(m, j)' => Pending(m, j) /\ JobAt(m, j)' = JobAt(m, j)
  <2>1. j \in Places(m) /\ j \in Nat BY <1>2, <1>7, <1>9
  <2>2. PlaceIsSound(m, j) /\ JobAt(m, j) \in Jobs BY <1>7, <2>1
  <2>3. \A q \in Waited(JobAt(m, j)) : q \in Requests BY <2>2, JobFacts
  <2>4. Waited(JobAt(m, j))' = Waited(JobAt(m, j)') BY DEF Waited
  <2>5. CASE m = l /\ j = 0
    <3>1. JobAt(m, j)' = h.job /\ ~Pending(m, j)' /\ Waited(JobAt(m, j)') \subseteq Waited(JobAt(m, j)) \ gone
      BY <1>2, <1>6, <2>5
    <3>2. \A q \in Waited(JobAt(m, j)') : completed'[q] = 0
      BY <2>2, <2>3, <3>1 DEF PlaceIsSound
    <3>3. QED BY <2>1, <2>4, <3>1, <3>2
  <2>6. CASE m # l \/ j # 0
    <3>1. JobAt(m, j)' = JobAt(m, j) /\ (Pending(m, j)' <=> Pending(m, j)) BY <1>2, <2>1, <2>6
    <3>2. \A q \in Waited(JobAt(m, j)) : q \notin gone
      <4>1. CASE m # l BY <1>8, <2>2, <4>1 DEF PlaceIsSound
      <4>2. CASE m = l /\ j # 0
        <5>1. PlacesDiffer(l, j, 0) BY <1>6, <1>7, <2>1, <4>2
        <5>2. QED BY <1>6, <4>2, <5>1 DEF PlacesDiffer
      <4>3. QED BY <2>6, <4>1, <4>2
    <3>3. \A q \in Waited(JobAt(m, j)) : completed'[q] = 0 BY <2>2, <2>3, <3>2 DEF PlaceIsSound
    <3>4. \A k, i \in DOMAIN JobAt(m, j).waiting : JobAt(m, j).waiting[k] = JobAt(m, j).waiting[i] => k = i
      BY <2>2 DEF PlaceIsSound
    <3>5. QED BY <2>1, <2>4, <3>1, <3>3, <3>4
  <2>7. QED BY <2>5, <2>6
<1>10. Lined' BY <1>5, <1>9, ShrinkKept
<1>11. CompletedOnce'
  <2> SUFFICES ASSUME NEW q \in Requests
               PROVE  completed'[q] <= 1 /\ (fate'[q] # "accepted" => completed'[q] = 0)
    BY DEF CompletedOnce
  <2>1. completed[q] <= 1 /\ (fate[q] # "accepted" => completed[q] = 0) BY DEF Dispatched, CompletedOnce
  <2>2. QED BY <1>8, <2>1
<1>12. QED BY <1>5, <1>10, <1>11

\* Nobody is told anything, so nobody leaves.
LEMMA NobodyGone ==
  ASSUME DispatcherShape, completed' = completed
  PROVE  completed' = [r \in Requests |-> IF r \in {} THEN 1 ELSE completed[r]]
BY DEF DispatcherShape

\* A worker without a job.
LEMMA FreeHand == Free \in Hands /\ Free.at = "free" /\ Free.job = NoJob
BY EmptyJob DEF Free, Hands

\* What the worker has in hand is a sound place of its lane.
LEMMA HandFacts ==
  ASSUME Dispatched, NEW l \in Lanes
  PROVE  /\ inHand[l] \in Hands /\ inHand[l].job \in Jobs
         /\ \A k, m \in DOMAIN inHand[l].job.waiting :
              inHand[l].job.waiting[k] = inHand[l].job.waiting[m] => k = m
         /\ PlaceIsSound(l, 0) /\ 0 \in Places(l) /\ JobAt(l, 0) = inHand[l].job
<1>1. inHand[l] \in Hands /\ inHand[l].job \in Jobs /\ 0 \in Places(l) /\ JobAt(l, 0) = inHand[l].job
  BY PlaceFacts DEF Dispatched, Hands, Places, JobAt
<1>2. PlaceIsSound(l, 0) BY <1>1 DEF Dispatched, Lined
<1>3. QED BY <1>1, <1>2 DEF PlaceIsSound

\* The invoke returns: what its job counted is taken off, once.
LEMMA InvokeReturnsKept ==
  ASSUME Dispatched, NEW l \in Lanes, InvokeReturns(l)
  PROVE  Dispatched'
<1>1. DispatcherShape BY DEF Dispatched
<1>2. /\ inHand[l].at = "invoke" /\ queues' = queues /\ stopping' = stopping /\ fate' = fate
      /\ completed' = completed
  BY DEF InvokeReturns
<1>3. completed' = [r \in Requests |-> IF r \in {} THEN 1 ELSE completed[r]] BY <1>1, <1>2, NobodyGone
<1>4. {} \in SUBSET Waited(inHand[l].job) OBVIOUS
<1>5. CASE stopping
  <2>1. inHand' = [inHand EXCEPT ![l] = Free] /\ pendingBytes' = pendingBytes BY <1>5 DEF InvokeReturns
  <2>2. /\ Free \in Hands /\ Free.at # "invoke" /\ Waited(Free.job) = {} /\ DOMAIN Free.job.waiting = {}
    BY FreeHand, EmptyJob
  <2>3. DispatcherShape' /\ Lined' /\ CompletedOnce' BY <1>2, <1>3, <1>4, <2>1, <2>2, HandKept
  <2>4. BytesConserved' BY <1>2, <1>5, <2>1, BytesAre, BytesAreThen DEF Dispatched
  <2>5. QED BY <2>3, <2>4 DEF Dispatched
<1>6. CASE ~stopping
  <2> DEFINE h == [inHand[l] EXCEPT !.at = "answer"]
  <2>1. inHand[l] \in Hands /\ inHand[l].job \in Jobs
        /\ (\A k, m \in DOMAIN inHand[l].job.waiting :
              inHand[l].job.waiting[k] = inHand[l].job.waiting[m] => k = m)
        /\ PlaceIsSound(l, 0) /\ 0 \in Places(l) /\ JobAt(l, 0) = inHand[l].job
    BY HandFacts
  <2>2. h \in Hands /\ h.at = "answer" /\ h.job = inHand[l].job BY <2>1 DEF Hands
  <2>3. inHand' = [inHand EXCEPT ![l] = h] /\ pendingBytes' = pendingBytes - inHand[l].job.bytes
    BY <1>1, <1>6 DEF InvokeReturns, DispatcherShape
  <2> HIDE DEF h
  <2>4. DispatcherShape' /\ Lined' /\ CompletedOnce'
    <3>1. Waited(h.job) = Waited(inHand[l].job) \ {} BY <2>2
    <3>2. \A k, m \in DOMAIN h.job.waiting : h.job.waiting[k] = h.job.waiting[m] => k = m BY <2>1, <2>2
    <3>3. h.at # "invoke" BY <2>2
    <3>4. QED BY <1>2, <1>3, <1>4, <2>2, <2>3, <3>1, <3>2, <3>3, HandKept
  <2>5. /\ \A m \in Lanes : Places(m)' = Places(m)
        /\ JobAt(l, 0)' = h.job /\ (Pending(l, 0)' <=> h.at = "invoke")
        /\ \A m \in Lanes : \A j \in Nat : m # l \/ j # 0 =>
             JobAt(m, j)' = JobAt(m, j) /\ (Pending(m, j)' <=> Pending(m, j))
    BY <1>1, <1>2, <2>2, <2>3, HandMoves
  <2>6. InJobs = InJobs' \union Waited(inHand[l].job) /\ InJobs' \cap Waited(inHand[l].job) = {}
        /\ InJobs' \in SUBSET Requests /\ Waited(inHand[l].job) \in SUBSET Requests
    <3>1. InJobs = InPlaces /\ InJobs' = InPlaces' BY <1>1, <2>4, JobsArePlaces, JobsArePlacesThen
    <3>2. \A x : x \in InPlaces <=> x \in Requests /\ \E m \in Lanes : \E j \in Places(m) :
                                     Pending(m, j) /\ x \in Waited(JobAt(m, j))
      BY DEF InPlaces
    <3>3. \A x : x \in InPlaces' <=> x \in Requests /\ \E m \in Lanes : \E j \in Places(m)' :
                                     Pending(m, j)' /\ x \in Waited(JobAt(m, j)')
      BY DEF InPlaces, Waited
    <3>4. Waited(inHand[l].job) \in SUBSET Requests BY <2>1, JobFacts
    <3>5. ASSUME NEW x \in Waited(inHand[l].job) PROVE x \in InPlaces /\ x \notin InPlaces'
      <4>1. x \in InPlaces BY <1>2, <2>1, <3>2, <3>4, <3>5 DEF Pending
      <4>2. ASSUME x \in InPlaces' PROVE FALSE
        <5>1. PICK m \in Lanes : \E j \in Places(m)' : Pending(m, j)' /\ x \in Waited(JobAt(m, j)')
          BY <3>3, <4>2
        <5>2. PICK j \in Places(m)' : Pending(m, j)' /\ x \in Waited(JobAt(m, j)') BY <5>1
        <5>3. j \in Places(m) /\ j \in Nat BY <1>1, <2>5, PlacesAreJobs
        <5>4. m # l \/ j # 0 BY <2>2, <2>5, <5>2
        <5>5. x \in Waited(JobAt(m, j)) BY <2>5, <5>2, <5>3, <5>4
        <5>6. PlaceIsSound(m, j) /\ (m = l => PlacesDiffer(l, j, 0)) BY <2>1, <5>3 DEF Dispatched, Lined
        <5>7. CASE m = l BY <2>1, <3>5, <5>4, <5>5, <5>6, <5>7 DEF PlacesDiffer
        <5>8. CASE m # l BY <2>1, <3>5, <5>5, <5>6, <5>8 DEF PlaceIsSound
        <5>9. QED BY <5>7, <5>8
      <4>3. QED BY <4>1, <4>2
    <3>6. ASSUME NEW x \in InPlaces' PROVE x \in InPlaces
      <4>1. PICK m \in Lanes : \E j \in Places(m)' : Pending(m, j)' /\ x \in Waited(JobAt(m, j)')
        BY <3>3, <3>6
      <4>2. PICK j \in Places(m)' : Pending(m, j)' /\ x \in Waited(JobAt(m, j)') BY <4>1
      <4>3. j \in Places(m) /\ j \in Nat BY <1>1, <2>5, PlacesAreJobs
      <4>4. m # l \/ j # 0 BY <2>2, <2>5, <4>2
      <4>5. x \in Waited(JobAt(m, j)) /\ Pending(m, j) BY <2>5, <4>2, <4>3, <4>4
      <4>6. QED BY <3>2, <3>3, <3>6, <4>3, <4>5
    <3>7. ASSUME NEW x \in InPlaces, x \notin Waited(inHand[l].job) PROVE x \in InPlaces'
      <4>1. PICK m \in Lanes : \E j \in Places(m) : Pending(m, j) /\ x \in Waited(JobAt(m, j)) BY <3>2, <3>7
      <4>2. PICK j \in Places(m) : Pending(m, j) /\ x \in Waited(JobAt(m, j)) BY <4>1
      <4>3. m # l \/ j # 0 BY <2>1, <3>7, <4>2
      <4>4. j \in Nat /\ j \in Places(m)' BY <1>1, <2>5, PlacesAreJobs
      <4>5. x \in Waited(JobAt(m, j)') /\ Pending(m, j)' BY <2>5, <4>2, <4>3, <4>4
      <4>6. QED BY <3>2, <3>3, <3>7, <4>4, <4>5
    <3>8. \A x : x \in InPlaces' => x \in Requests BY <3>3
    <3>9. QED BY <3>1, <3>4, <3>5, <3>6, <3>7, <3>8
  <2>7. BytesConserved'
    <3>1. BytesOf(InJobs) = BytesOf(InJobs') + BytesOf(Waited(inHand[l].job)) BY <2>6, BytesOfBoth
    <3>2. pendingBytes = BytesOf(InJobs) BY <1>6, BytesAre DEF Dispatched
    <3>3. inHand[l].job.bytes = BytesOf(Waited(inHand[l].job))
      BY <1>2, <1>6, <2>1 DEF PlaceIsSound, Pending
    <3>4. BytesOf(InJobs') \in Nat /\ BytesOf(Waited(inHand[l].job)) \in Nat BY <2>6, BytesAreNumbers
    <3>5. pendingBytes' = BytesOf(InJobs') BY <2>3, <3>1, <3>2, <3>3, <3>4
    <3>6. QED BY <1>2, <1>6, <3>5, BytesAreThen
  <2>8. QED BY <2>4, <2>7 DEF Dispatched
<1>7. QED BY <1>5, <1>6

\* The completions begin or end.
LEMMA AnswersKept ==
  ASSUME Dispatched, NEW l \in Lanes, BeginAnswers(l) \/ EndAnswers(l)
  PROVE  Dispatched'
<1>1. DispatcherShape BY DEF Dispatched
<1>2. /\ queues' = queues /\ stopping' = stopping /\ fate' = fate /\ pendingBytes' = pendingBytes
      /\ completed' = completed /\ inHand[l].at # "invoke"
  BY DEF BeginAnswers, EndAnswers, Answering
<1>3. completed' = [r \in Requests |-> IF r \in {} THEN 1 ELSE completed[r]] BY <1>1, <1>2, NobodyGone
<1>4. {} \in SUBSET Waited(inHand[l].job) OBVIOUS
<1>5. inHand[l] \in Hands /\ inHand[l].job \in Jobs
      /\ (\A k, m \in DOMAIN inHand[l].job.waiting :
            inHand[l].job.waiting[k] = inHand[l].job.waiting[m] => k = m)
  BY HandFacts
<1>6. PICK h \in Hands :
        /\ inHand' = [inHand EXCEPT ![l] = h] /\ h.at # "invoke"
        /\ Waited(h.job) = Waited(inHand[l].job) \ {} \/ Waited(h.job) = {}
        /\ \A k, m \in DOMAIN h.job.waiting : h.job.waiting[k] = h.job.waiting[m] => k = m
  <2>1. CASE EndAnswers(l)
    <3>1. inHand' = [inHand EXCEPT ![l] = Free] BY <2>1 DEF EndAnswers
    <3>2. Free \in Hands /\ Free.at # "invoke" /\ Waited(Free.job) = {} /\ DOMAIN Free.job.waiting = {}
      BY FreeHand, EmptyJob
    <3>3. QED BY <3>1, <3>2
  <2>2. CASE BeginAnswers(l)
    <3> DEFINE h == [inHand[l] EXCEPT !.at = "answering"]
    <3>1. h \in Hands /\ h.at = "answering" /\ h.job = inHand[l].job BY <1>5 DEF Hands
    <3>2. inHand' = [inHand EXCEPT ![l] = h] BY <1>1, <2>2 DEF BeginAnswers, DispatcherShape
    <3> HIDE DEF h
    <3>3. h.at # "invoke" /\ Waited(h.job) = Waited(inHand[l].job) \ {}
          /\ \A k, m \in DOMAIN h.job.waiting : h.job.waiting[k] = h.job.waiting[m] => k = m
      BY <1>5, <3>1
    <3>4. QED BY <3>1, <3>2, <3>3
  <2>3. QED BY <2>1, <2>2
<1>7. DispatcherShape' /\ Lined' /\ CompletedOnce' BY <1>2, <1>3, <1>4, <1>6, HandKept
<1>8. InJobs' = InJobs BY <1>1, <1>2, <1>6, HandMoves
<1>9. BytesConserved' BY <1>2, <1>8, BytesAre, BytesAreThen DEF Dispatched
<1>10. QED BY <1>7, <1>9 DEF Dispatched

\* One completion is called, of somebody who then no longer waits.
LEMMA AnswerOneKept ==
  ASSUME Dispatched, NEW l \in Lanes, AnswerOne(l)
  PROVE  Dispatched'
<1>1. DispatcherShape BY DEF Dispatched
<1>2. /\ queues' = queues /\ stopping' = stopping /\ fate' = fate /\ pendingBytes' = pendingBytes
      /\ inHand[l].at = "answering" /\ inHand[l].job.waiting # <<>>
  BY DEF AnswerOne, Answering, MayAnswer
<1> DEFINE w == inHand[l].job.waiting
<1>3. /\ inHand[l] \in Hands /\ inHand[l].job \in Jobs /\ w \in Seq(Requests) /\ Len(w) \in Nat
      /\ DOMAIN w = 1 .. Len(w) /\ PlaceIsSound(l, 0) /\ JobAt(l, 0) = inHand[l].job
      /\ (\A k, m \in DOMAIN w : w[k] = w[m] => k = m)
  BY HandFacts, JobFacts
<1>4. /\ Head(w) \in Requests /\ Tail(w) \in Seq(Requests) /\ Len(Tail(w)) = Len(w) - 1
      /\ \A j \in 1 .. Len(Tail(w)) : Tail(w)[j] = w[j + 1]
  BY <1>2, <1>3, HeadTailProperties
<1>5. Head(w) = w[1] /\ Len(w) > 0 BY <1>2, <1>3, EmptySeq
<1> DEFINE r == Head(w)
           job == [inHand[l].job EXCEPT !.waiting = Tail(w)]
           h == [inHand[l] EXCEPT !.job = job]
<1>6. job \in Jobs /\ job.waiting = Tail(w) BY <1>3, <1>4 DEF Jobs
<1>7. completed' = [completed EXCEPT ![r] = @ + 1] BY DEF AnswerOne
<1>8. inHand' = [inHand EXCEPT ![l] = h] BY <1>1 DEF AnswerOne, DispatcherShape
<1> HIDE DEF job
<1>9. h \in Hands /\ h.at = "answering" /\ h.job = job BY <1>2, <1>3, <1>6 DEF Hands
<1> HIDE DEF h
<1>10. DOMAIN Tail(w) = 1 .. Len(w) - 1 BY <1>3, <1>4, LenProperties
<1>11. Waited(job) = Waited(inHand[l].job) \ {r}
  <2>0. DOMAIN job.waiting = 1 .. Len(w) - 1 /\ \A k \in 1 .. Len(w) - 1 : job.waiting[k] = w[k + 1]
    BY <1>3, <1>4, <1>6, <1>10
  <2>1. \A x : x \in Waited(job) <=> \E k \in 1 .. Len(w) - 1 : x = w[k + 1]
    BY <2>0 DEF Waited
  <2>2. \A x : x \in Waited(inHand[l].job) <=> \E k \in 1 .. Len(w) : x = w[k] BY <1>3 DEF Waited
  <2>3. r = w[1] /\ 1 \in DOMAIN w BY <1>3, <1>5
  <2> HIDE DEF w, r
  <2>4. ASSUME NEW x \in Waited(job) PROVE x \in Waited(inHand[l].job) /\ x # r
    <3>1. PICK k \in 1 .. Len(w) - 1 : x = w[k + 1] BY <2>1, <2>4
    <3>2. k + 1 \in DOMAIN w /\ k + 1 \in 1 .. Len(w) /\ k + 1 # 1 BY <1>3
    <3>3. QED BY <1>3, <2>2, <2>3, <3>1, <3>2
  <2>5. ASSUME NEW x \in Waited(inHand[l].job), x # r PROVE x \in Waited(job)
    <3>1. PICK k \in 1 .. Len(w) : x = w[k] BY <2>2, <2>5
    <3>2. k # 1 BY <2>3, <2>5, <3>1
    <3>3. k - 1 \in 1 .. Len(w) - 1 /\ (k - 1) + 1 = k BY <1>3, <3>2
    <3>4. QED BY <2>1, <3>1, <3>3
  <2>6. QED BY <2>4, <2>5
<1>12. \A k, m \in DOMAIN job.waiting : job.waiting[k] = job.waiting[m] => k = m
  <2> TAKE k, m \in DOMAIN job.waiting
  <2>1. k \in 1 .. Len(w) - 1 /\ m \in 1 .. Len(w) - 1 BY <1>6, <1>10
  <2>2. k \in Nat /\ m \in Nat /\ k + 1 \in DOMAIN w /\ m + 1 \in DOMAIN w BY <1>3, <2>1
  <2>3. job.waiting[k] = w[k + 1] /\ job.waiting[m] = w[m + 1] BY <1>3, <1>4, <1>6, <2>1
  <2>4. w[k + 1] = w[m + 1] => k + 1 = m + 1 BY <1>3, <2>2
  <2> HIDE DEF w
  <2>5. QED BY <2>2, <2>3, <2>4
<1>13. r \in Waited(inHand[l].job)
  <2>1. 1 \in DOMAIN w BY <1>3, <1>5
  <2>2. QED BY <1>5, <2>1 DEF Waited
<1>14. completed[r] = 0 BY <1>3, <1>13 DEF PlaceIsSound
<1>15. completed' = [q \in Requests |-> IF q \in {r} THEN 1 ELSE completed[q]]
  <2>1. completed \in [Requests -> Nat] /\ r \in Requests BY <1>1, <1>4 DEF DispatcherShape
  <2>2. completed' = [completed EXCEPT ![r] = 1]
    <3>1. completed[r] + 1 = 1 BY <1>14
    <3>2. QED BY <1>7, <3>1
  <2> HIDE DEF r, w
  <2>3. QED BY <2>1, <2>2
<1>16. DispatcherShape' /\ Lined' /\ CompletedOnce'
  <2>1. {r} \in SUBSET Waited(inHand[l].job) BY <1>13
  <2>2. Waited(h.job) = Waited(inHand[l].job) \ {r} BY <1>9, <1>11
  <2>3. \A k, m \in DOMAIN h.job.waiting : h.job.waiting[k] = h.job.waiting[m] => k = m BY <1>9, <1>12
  <2>4. h.at # "invoke" BY <1>9
  <2> HIDE DEF r, w
  <2>5. QED BY <1>2, <1>8, <1>9, <1>15, <2>1, <2>2, <2>3, <2>4, HandKept
<1>17. InJobs' = InJobs BY <1>1, <1>2, <1>8, <1>9, HandMoves
<1>18. BytesConserved' BY <1>2, <1>17, BytesAre, BytesAreThen DEF Dispatched
<1>19. QED BY <1>16, <1>18 DEF Dispatched

\* close(): the queues go, with the readings that are being invoked.
LEMMA CloseKept ==
  ASSUME Dispatched, CloseDispatcher
  PROVE  Dispatched'
<1>1. DispatcherShape BY DEF Dispatched
<1>2. /\ stopping' = TRUE /\ queues' = [l \in Lanes |-> <<>>] /\ pendingBytes' = 0
      /\ fate' = fate /\ completed' = completed
  BY DEF CloseDispatcher
<1>3. <<>> \in Seq(Jobs) /\ <<>> \in Seq(Requests) /\ Len(<<>>) = 0 BY EmptySeq
<1> DEFINE emptied(l) == [inHand[l] EXCEPT !.job.waiting = <<>>]
<1>4. \A l \in Lanes : inHand'[l] = emptied(l) \/ inHand'[l] = inHand[l] BY DEF CloseDispatcher
<1>5. inHand' = [l \in Lanes |-> inHand'[l]] BY DEF CloseDispatcher
<1>6. ASSUME NEW l \in Lanes
      PROVE  /\ inHand'[l] \in Hands
             /\ inHand'[l].job = inHand[l].job \/ inHand'[l].job.waiting = <<>>
  <2>1. inHand[l] \in Hands /\ inHand[l].job \in Jobs BY <1>1, PlaceFacts DEF Hands
  <2> DEFINE job == [inHand[l].job EXCEPT !.waiting = <<>>]
  <2>2. job \in Jobs /\ job.waiting = <<>> BY <1>3, <2>1 DEF Jobs
  <2>3. emptied(l) = [inHand[l] EXCEPT !.job = job] OBVIOUS
  <2> HIDE DEF job
  <2>4. emptied(l) \in Hands /\ emptied(l).job = job BY <2>1, <2>2, <2>3 DEF Hands
  <2> HIDE DEF emptied
  <2>5. QED BY <1>4, <2>1, <2>2, <2>4
<1>7. inHand' \in [Lanes -> Hands] BY <1>5, <1>6
<1>8. queues' \in [Lanes -> Seq(Jobs)] BY <1>2, <1>3
<1>9. DispatcherShape' BY <1>1, <1>2, <1>7, <1>8 DEF DispatcherShape, Hands
<1>10. \A l \in Lanes : Places(l)' = {0}
  <2> TAKE l \in Lanes
  <2>1. Len(queues'[l]) = 0 BY <1>2, <1>3
  <2>2. QED BY <2>1 DEF Places
<1>11. ASSUME NEW l \in Lanes, NEW j \in Places(l)'
       PROVE  /\ j \in Places(l)
              /\ Waited(JobAt(l, j))' \subseteq Waited(JobAt(l, j))
              /\ \A k, m \in DOMAIN JobAt(l, j)'.waiting :
                   JobAt(l, j)'.waiting[k] = JobAt(l, j)'.waiting[m] => k = m
              /\ \A q \in Waited(JobAt(l, j))' : completed'[q] = 0
              /\ ~stopping' /\ Pending(l, j)' => Pending(l, j) /\ JobAt(l, j)' = JobAt(l, j)
  <2>1. j = 0 BY <1>10, <1>11
  <2>2. PlaceIsSound(l, 0) /\ 0 \in Places(l) /\ JobAt(l, 0) = inHand[l].job BY HandFacts
  <2>3. JobAt(l, 0)' = inHand'[l].job BY DEF JobAt
  <2>4. CASE inHand'[l].job = inHand[l].job
    <3>1. JobAt(l, 0)' = JobAt(l, 0) /\ Waited(JobAt(l, 0))' = Waited(JobAt(l, 0))
      BY <2>2, <2>3, <2>4 DEF Waited
    <3>2. QED BY <1>2, <2>1, <2>2, <3>1 DEF PlaceIsSound
  <2>5. CASE inHand'[l].job.waiting = <<>>
    <3>1. DOMAIN JobAt(l, 0)'.waiting = {} /\ Waited(JobAt(l, 0))' = {} BY <2>3, <2>5 DEF Waited
    <3>2. QED BY <1>2, <2>1, <2>2, <3>1
  <2>6. QED BY <1>6, <2>4, <2>5
<1>12. Lined'
  <2>1. stopping => stopping' BY <1>2
  <2>2. \A q \in Requests : fate[q] = "accepted" => fate'[q] = "accepted" BY <1>2
  <2>3. QED BY <1>9, <1>11, <2>1, <2>2, ShrinkKept
<1>13. BytesConserved' BY <1>2, BytesAreThen
<1>14. CompletedOnce' BY <1>2 DEF Dispatched, CompletedOnce
<1>15. QED BY <1>9, <1>12, <1>13, <1>14 DEF Dispatched

\* Nothing waits at the start.
LEMMA DispatchedInit == DispatcherInit => Dispatched
<1> SUFFICES ASSUME DispatcherInit PROVE Dispatched OBVIOUS
<1>1. /\ queues = [l \in Lanes |-> <<>>] /\ inHand = [l \in Lanes |-> Free] /\ pendingBytes = 0
      /\ stopping = FALSE /\ fate = [r \in Requests |-> "new"] /\ completed = [r \in Requests |-> 0]
  BY DEF DispatcherInit
<1>2. <<>> \in Seq(Jobs) /\ Len(<<>>) = 0 BY EmptySeq
<1>3. Free \in Hands /\ Free.at = "free" /\ Free.job = NoJob /\ Waited(NoJob) = {} /\ NoJob.waiting = <<>>
  BY FreeHand, EmptyJob
<1>4. DispatcherShape BY <1>1, <1>2, <1>3 DEF DispatcherShape, Hands
<1>5. ASSUME NEW l \in Lanes
      PROVE  Places(l) = {0} /\ JobAt(l, 0) = NoJob /\ ~Pending(l, 0)
  <2>1. Len(queues[l]) = 0 /\ inHand[l] = Free BY <1>1, <1>2
  <2>2. QED BY <1>3, <2>1 DEF Places, JobAt, Pending
<1>6. Lined
  <2>1. ASSUME NEW l \in Lanes, NEW i \in Places(l) PROVE PlaceIsSound(l, i)
    <3>1. i = 0 /\ JobAt(l, i) = NoJob /\ ~Pending(l, i) BY <1>5, <2>1
    <3>2. DOMAIN NoJob.waiting = {} BY <1>3
    <3>3. QED BY <1>3, <3>1, <3>2 DEF PlaceIsSound
  <2>2. ASSUME NEW l \in Lanes, NEW i \in Places(l), NEW j \in Places(l) PROVE PlacesDiffer(l, i, j)
    BY <1>5, <2>2 DEF PlacesDiffer
  <2>3. QED BY <2>1, <2>2 DEF Lined
<1>7. InJobs = {}
  <2>1. InJobs = InPlaces BY <1>4, JobsArePlaces
  <2>2. \A r \in InPlaces : FALSE BY <1>5 DEF InPlaces
  <2>3. QED BY <2>1, <2>2
<1>8. BytesConserved BY <1>1, <1>7, NoBytes, BytesAre
<1>9. CompletedOnce BY <1>1 DEF CompletedOnce
<1>10. QED BY <1>4, <1>6, <1>8, <1>9 DEF Dispatched

\* One step per action.
LEMMA DispatchedNext == Dispatched /\ [DispatcherNext]_dispatchVars => Dispatched'
<1> SUFFICES ASSUME Dispatched, [DispatcherNext]_dispatchVars PROVE Dispatched' OBVIOUS
<1>1. ASSUME NEW r \in Requests, SubmitJoinsQueued(r) PROVE Dispatched' BY <1>1, JoinsQueuedKept
<1>2. ASSUME NEW r \in Requests, SubmitJoinsInvoked(r) PROVE Dispatched' BY <1>2, JoinsInvokedKept
<1>3. ASSUME NEW r \in Requests, SubmitJob(r) PROVE Dispatched' BY <1>3, SubmitJobKept
<1>4. ASSUME NEW r \in Requests, SubmitRefused(r) PROVE Dispatched' BY <1>4, RefusedKept
<1>5. ASSUME NEW l \in Lanes, TakeJob(l) PROVE Dispatched' BY <1>5, TakeJobKept
<1>6. ASSUME NEW l \in Lanes, InvokeReturns(l) PROVE Dispatched' BY <1>6, InvokeReturnsKept
<1>7. ASSUME NEW l \in Lanes, BeginAnswers(l) \/ EndAnswers(l) PROVE Dispatched' BY <1>7, AnswersKept
<1>8. ASSUME NEW l \in Lanes, AnswerOne(l) PROVE Dispatched' BY <1>8, AnswerOneKept
<1>9. CASE (\E r \in Requests : ShowReply(r)) \/ \E w \in Windows : CloseWindow(w) BY <1>9, WindowsKept
<1>10. CASE CloseDispatcher BY <1>10, CloseKept
<1>11. CASE UNCHANGED dispatchVars
  <2>1. UNCHANGED <<queues, inHand, pendingBytes, stopping, fate, completed>> BY <1>11 DEF dispatchVars
  <2>2. DispatcherShape' BY <2>1 DEF Dispatched, DispatcherShape
  <2>3. QED BY <2>1, <2>2, StillKept
<1>12. QED
  BY <1>1, <1>2, <1>3, <1>4, <1>5, <1>6, <1>7, <1>8, <1>9, <1>10, <1>11 DEF DispatcherNext, DispatcherWork

\* Where each request waits, and what is counted, whatever submits, workers and close() do.
THEOREM DispatchedInvariant == DispatcherSpec => []Dispatched
BY DispatchedInit, DispatchedNext, PTL DEF DispatcherSpec

\* For any requests, lanes and limits: pending_bytes is the sum over the requests of the jobs
\* that are queued or invoked, joined readings included, and a completion is called at most
\* once, and only of a request that was accepted (submit, run, close).
THEOREM CountsOnceTheorem == DispatcherSpec => []EverythingCountsOnce
<1>1. Dispatched => EverythingCountsOnce BY DEF Dispatched, EverythingCountsOnce
<1>2. QED BY <1>1, DispatchedInvariant, PTL

\* Once close() has returned no completion is called: of all steps only AnswerOne calls one, and
\* under completion_mutex it sees the flag.
THEOREM ClosedTheorem == DispatcherSpec => NoAnswerAfterClose
<1>1. [DispatcherNext]_dispatchVars => [stopping => completed' = completed]_dispatchVars
  <2> SUFFICES ASSUME DispatcherNext, stopping PROVE completed' = completed BY DEF dispatchVars
  <2>1. ASSUME NEW l \in Lanes, AnswerOne(l) PROVE completed' = completed
    BY <2>1 DEF AnswerOne, MayAnswer
  <2>2. ASSUME NEW l \in Lanes, TakeJob(l) \/ InvokeReturns(l) \/ BeginAnswers(l) \/ EndAnswers(l)
        PROVE  completed' = completed
    BY <2>2 DEF TakeJob, InvokeReturns, BeginAnswers, EndAnswers
  <2>3. ASSUME NEW r \in Requests,
               SubmitJoinsQueued(r) \/ SubmitJoinsInvoked(r) \/ SubmitJob(r) \/ SubmitRefused(r)
        PROVE  completed' = completed
    BY <2>3 DEF SubmitJoinsQueued, SubmitJoinsInvoked, SubmitJob, SubmitRefused
  <2>4. CASE (\E r \in Requests : ShowReply(r)) \/ (\E w \in Windows : CloseWindow(w)) \/ CloseDispatcher
    BY <2>4 DEF ShowReply, CloseWindow, CloseDispatcher
  <2>5. QED BY <2>1, <2>2, <2>3, <2>4 DEF DispatcherNext, DispatcherWork
<1>2. QED BY <1>1, PTL DEF DispatcherSpec, NoAnswerAfterClose

-----------------------------------------------------------------------------
(* The run                                                                  *)

\* The composed specification implements that of each part.
THEOREM SidecarParts == Spec => SidecarSpec /\ DispatcherSpec
<1>1. Init => SidecarInit /\ DispatcherInit BY DEF Init
<1>2. [Next]_mcVars => [SidecarNext]_sidecarVars /\ [DispatcherNext]_dispatchVars
  BY DEF Next, mcVars, sidecarVars, dispatchVars
<1>3. QED BY <1>1, <1>2, PTL DEF Spec, SidecarSpec, DispatcherSpec
=============================================================================
