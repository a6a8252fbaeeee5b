--------------------------------- MODULE Mcp ---------------------------------
(***************************************************************************)
(* The supervisor of MCP servers.  The IPC background lane starts and      *)
(* stops servers and edits their rows; the host workers of the Agent ask   *)
(* for the catalog, which starts servers too, and call tools.  A server's  *)
(* process may exit at any point.  Per server a lifecycle lock orders      *)
(* starts and stops; a start runs outside it and is shared by the callers  *)
(* that come while it lasts.                                               *)
(***************************************************************************)
EXTENDS Naturals, FiniteSets

CONSTANTS
  Servers,        \* ids of MCP servers
  HttpServers,    \* the ones reached over HTTP; the others are child processes
  Tools,          \* tool names a server may offer
  Lane,           \* the background lane
  McpWorkers,     \* host workers
  MaxSessions,    \* bound: sessions in a behaviour
  MaxRequests     \* bound: commands and calls in a behaviour

ASSUME McpAssumption ==
  /\ HttpServers \subseteq Servers /\ Lane \notin McpWorkers
  /\ "none" \notin Servers /\ "nobody" \notin McpWorkers \union {Lane}
  /\ MaxSessions \in Nat /\ MaxRequests \in Nat

McpThreads == McpWorkers \union {Lane}
SessionIds == 1..MaxSessions

VARIABLES
  mcpRow,      \* mcp_servers: enabled and the reviewed tools, or NoServer
  session,     \* Impl::Session, by number
  mapped,      \* Impl::sessions: the session of each server, 0 for none
  starting,    \* Lifecycle::starting: whether an attempt of the server is in progress
  lifecycle,   \* who holds Lifecycle::mutex across a shutdown
  mcpThread,   \* what each thread is doing
  requests     \* commands and calls so far

mcpVars == <<mcpRow, session, mapped, starting, lifecycle, mcpThread, requests>>

NoServer == [saved |-> FALSE, enabled |-> FALSE, allowed |-> {}]
NoSession == [server |-> "none", alive |-> FALSE, running |-> FALSE, allowed |-> {}, tools |-> {},
              pending |-> {}, reader |-> "none"]
Nobody == "nobody"
AtRest == [at |-> "idle"]

McpInit ==
  /\ mcpRow \in [Servers -> {NoServer, [saved |-> TRUE, enabled |-> TRUE, allowed |-> Tools]}]
  /\ session = [k \in SessionIds |-> NoSession]
  /\ mapped = [s \in Servers |-> 0]
  /\ starting = [s \in Servers |-> FALSE]
  /\ lifecycle = [s \in Servers |-> Nobody]
  /\ mcpThread = [t \in McpThreads |-> AtRest]
  /\ requests = 0

Move(t, state) == mcpThread' = [mcpThread EXCEPT ![t] = state]
Asks(t, state) ==
  /\ mcpThread[t] = AtRest /\ requests < MaxRequests
  /\ requests' = requests + 1 /\ Move(t, state)

----------------------------------------------------------------------------
(* Rows *)

\* mcp_server_save keeps the review of a row that exists.
mcp_server_save(s, enabled) ==
  /\ Asks(Lane, AtRest)
  /\ mcpRow' = [mcpRow EXCEPT ![s] = [saved |-> TRUE, enabled |-> enabled, allowed |-> @.allowed]]
  /\ UNCHANGED <<session, mapped, starting, lifecycle>>

\* mcp_server_review changes the row alone; a running session keeps the tools it started with.
mcp_server_review(s, allowed) ==
  /\ mcpRow[s].saved /\ Asks(Lane, AtRest)
  /\ mcpRow' = [mcpRow EXCEPT ![s].allowed = allowed]
  /\ UNCHANGED <<session, mapped, starting, lifecycle>>

\* mcp_server_delete leaves a running session where it is.
mcp_server_delete(s) ==
  /\ mcpRow[s].saved /\ Asks(Lane, AtRest)
  /\ mcpRow' = [mcpRow EXCEPT ![s] = NoServer]
  /\ UNCHANGED <<session, mapped, starting, lifecycle>>

----------------------------------------------------------------------------
(* Start *)

\* mcp_server_start, from the lane.
AskStart(s) ==
  /\ mcpRow[s].saved
  /\ Asks(Lane, [at |-> "ensure", server |-> s, row |-> mcpRow[s]])
  /\ UNCHANGED <<mcpRow, session, mapped, starting, lifecycle>>

\* catalog, from a host worker: the enabled rows with a reviewed tool, one after the other.
AskCatalog(w, s) ==
  /\ mcpRow[s].enabled /\ mcpRow[s].allowed # {}
  /\ Asks(w, [at |-> "ensure", server |-> s, row |-> mcpRow[s]])
  /\ UNCHANGED <<mcpRow, session, mapped, starting, lifecycle>>

MayLock(s) == lifecycle[s] = Nobody

\* ensure_started finds an attempt and waits for it.
Join(t) ==
  /\ mcpThread[t].at = "ensure" /\ MayLock(mcpThread[t].server) /\ starting[mcpThread[t].server]
  /\ Move(t, [mcpThread[t] EXCEPT !.at = "join"])
  /\ UNCHANGED <<mcpRow, session, mapped, starting, lifecycle, requests>>

\* ensure_started finds a running session.
Reuse(t) ==
  LET s == mcpThread[t].server IN
  /\ mcpThread[t].at = "ensure" /\ MayLock(s) /\ ~starting[s]
  /\ mapped[s] # 0 /\ session[mapped[s]].running
  /\ Move(t, AtRest)
  /\ UNCHANGED <<mcpRow, session, mapped, starting, lifecycle, requests>>

\* ensure_started opens an attempt; a session that no longer runs is unmapped and then shut down.
OpenAttempt(t) ==
  LET s == mcpThread[t].server IN
  /\ mcpThread[t].at = "ensure" /\ MayLock(s) /\ ~starting[s]
  /\ mapped[s] # 0 => ~session[mapped[s]].running
  /\ starting' = [starting EXCEPT ![s] = TRUE]
  /\ mapped' = [mapped EXCEPT ![s] = 0]
  /\ Move(t, [at |-> IF mapped[s] = 0 THEN "spawn" ELSE "stale", server |-> s,
              row |-> mcpThread[t].row, session |-> mapped[s]])
  /\ UNCHANGED <<mcpRow, session, lifecycle, requests>>

IsHttp(k) == session[k].server \in HttpServers

\* shutdown of a child process: its input is closed, it is waited for and then terminated, and
\* its reader, which wakes the callers that still wait, is joined.  Over HTTP the session is
\* marked, the remote end told if it ran, which may fail, and calls in flight are left alone.
Ended(k) ==
  IF IsHttp(k)
  THEN {[session EXCEPT ![k].running = FALSE, ![k].alive = b] :
          b \in {session[k].alive, session[k].alive /\ ~session[k].running}}
  ELSE {[session EXCEPT ![k].alive = FALSE, ![k].running = FALSE, ![k].reader = "done",
                        ![k].pending = {}]}
WakesCallers(k, threads) ==
  [t \in McpThreads |-> IF t \in session[k].pending /\ ~IsHttp(k) THEN AtRest ELSE threads[t]]

ShutStale(t) ==
  LET k == mcpThread[t].session IN
  /\ mcpThread[t].at = "stale"
  /\ session' \in Ended(k)
  /\ mcpThread' = WakesCallers(k, [mcpThread EXCEPT ![t].at = "spawn"])
  /\ UNCHANGED <<mcpRow, mapped, starting, lifecycle, requests>>

FreeSessions == {k \in SessionIds : session[k] = NoSession}

\* A session starts with a copy of the row's reviewed tools.
NewSession(t, reader) ==
  /\ mcpThread[t].at = "spawn"
  /\ \E k \in FreeSessions :
     /\ \A j \in FreeSessions : k <= j
     /\ session' = [session EXCEPT ![k] =
          [server |-> mcpThread[t].server, alive |-> TRUE, running |-> TRUE,
           allowed |-> mcpThread[t].row.allowed, tools |-> {}, pending |-> {}, reader |-> reader]]
     /\ Move(t, [mcpThread[t] EXCEPT !.at = "handshake", !.session = k])
  /\ UNCHANGED <<mcpRow, mapped, starting, lifecycle, requests>>

\* start_server: the process and its readers.
spawn_process(t) == mcpThread[t].at = "spawn" /\ mcpThread[t].server \notin HttpServers /\ NewSession(t, "reading")

\* start_http_server: no process, but the headers and the token source.
start_http_server(t) == mcpThread[t].at = "spawn" /\ mcpThread[t].server \in HttpServers /\ NewSession(t, "none")

\* handshake_and_list: initialize, then the pages of tools/list.
handshake_and_list(t, tools) ==
  /\ mcpThread[t].at = "handshake" /\ session[mcpThread[t].session].alive
  /\ session' = [session EXCEPT ![mcpThread[t].session].tools = tools]
  /\ Move(t, [mcpThread[t] EXCEPT !.at = "register"])
  /\ UNCHANGED <<mcpRow, mapped, starting, lifecycle, requests>>

\* The attempt's end wakes the callers that joined it, whatever attempt follows.
Publish(s, threads) ==
  [t \in McpThreads |->
     IF threads[t].at = "join" /\ threads[t].server = s THEN AtRest ELSE threads[t]]

\* The handshake fails, times out or finds the process gone: a child process is shut down, an
\* HTTP session only marked, and the attempt ends with the error.  So it does when no process
\* could be created.
HandshakeFails(t) ==
  LET k == mcpThread[t].session IN
  /\ mcpThread[t].at \in {"spawn", "handshake"}
  /\ CASE mcpThread[t].at = "spawn" -> UNCHANGED session
       [] OTHER -> IF IsHttp(k) THEN session' = [session EXCEPT ![k].running = FALSE]
                                ELSE session' \in Ended(k)
  /\ starting' = [starting EXCEPT ![mcpThread[t].server] = FALSE]
  /\ mcpThread' = Publish(mcpThread[t].server, [mcpThread EXCEPT ![t] = AtRest])
  /\ UNCHANGED <<mcpRow, mapped, lifecycle, requests>>

\* The session enters the map; a process that exited meanwhile is found stale by the next caller.
Register(t) ==
  /\ mcpThread[t].at = "register"
  /\ mapped' = [mapped EXCEPT ![mcpThread[t].server] = mcpThread[t].session]
  /\ Move(t, [mcpThread[t] EXCEPT !.at = "publish"])
  /\ UNCHANGED <<mcpRow, session, starting, lifecycle, requests>>

AttemptDone(t) ==
  /\ mcpThread[t].at = "publish"
  /\ starting' = [starting EXCEPT ![mcpThread[t].server] = FALSE]
  /\ mcpThread' = Publish(mcpThread[t].server, [mcpThread EXCEPT ![t] = AtRest])
  /\ UNCHANGED <<mcpRow, session, mapped, lifecycle, requests>>

----------------------------------------------------------------------------
(* Stop *)

\* mcp_server_stop, and mcp_oauth_connect once the new token is stored.
AskStop(s) ==
  /\ Asks(Lane, [at |-> "stop", server |-> s])
  /\ UNCHANGED <<mcpRow, session, mapped, starting, lifecycle>>

\* Mutant of stop_server: the lock is released before the process has been shut down.
stop_server_unlocked(t) ==
  LET s == mcpThread[t].server IN
  /\ mcpThread[t].at = "stop" /\ MayLock(s) /\ ~starting[s]
  /\ IF mapped[s] = 0
     THEN Move(t, AtRest) /\ UNCHANGED <<mapped, lifecycle>>
     ELSE /\ mapped' = [mapped EXCEPT ![s] = 0]
          /\ Move(t, [at |-> "shutdown", server |-> s, session |-> mapped[s]])
          /\ UNCHANGED lifecycle
  /\ UNCHANGED <<mcpRow, session, starting, requests>>

\* stop_server waits for an attempt to end, unmaps the session and keeps the lock to shut it down.
stop_server(t) ==
  LET s == mcpThread[t].server IN
  /\ mcpThread[t].at = "stop" /\ MayLock(s) /\ ~starting[s]
  /\ IF mapped[s] = 0
     THEN Move(t, AtRest) /\ UNCHANGED <<mapped, lifecycle>>
     ELSE /\ mapped' = [mapped EXCEPT ![s] = 0]
          /\ lifecycle' = [lifecycle EXCEPT ![s] = t]
          /\ Move(t, [at |-> "shutdown", server |-> s, session |-> mapped[s]])
  /\ UNCHANGED <<mcpRow, session, starting, requests>>

shutdown(t) ==
  /\ mcpThread[t].at = "shutdown"
  /\ session' \in Ended(mcpThread[t].session)
  /\ lifecycle' = [lifecycle EXCEPT ![mcpThread[t].server] = Nobody]
  /\ mcpThread' = WakesCallers(mcpThread[t].session, [mcpThread EXCEPT ![t] = AtRest])
  /\ UNCHANGED <<mcpRow, mapped, starting, requests>>

----------------------------------------------------------------------------
(* Calls *)

\* call: the first running session of that name, and a tool it listed and its row had reviewed.
call(w, s, tool) ==
  /\ mapped[s] # 0 /\ session[mapped[s]].running
  /\ tool \in session[mapped[s]].tools \cap session[mapped[s]].allowed
  /\ Asks(w, [at |-> "request", session |-> mapped[s], tool |-> tool])
  /\ UNCHANGED <<mcpRow, session, mapped, starting, lifecycle>>

\* Mutant of MayRequest: the request is registered with a session that no longer runs.
MayRequestAlways(k) == TRUE

MayRequest(k) == session[k].running

\* request and http_request register with a running session; otherwise the call fails.
request(w) ==
  LET k == mcpThread[w].session IN
  /\ mcpThread[w].at = "request"
  /\ IF MayRequest(k)
     THEN /\ session' = [session EXCEPT ![k].pending = @ \union {w}]
          /\ Move(w, [mcpThread[w] EXCEPT !.at = "waiting"])
     ELSE Move(w, AtRest) /\ UNCHANGED session
  /\ UNCHANGED <<mcpRow, mapped, starting, lifecycle, requests>>

Answered(w) ==
  /\ mcpThread[w].at = "waiting" /\ Move(w, AtRest)
  /\ UNCHANGED <<mcpRow, mapped, starting, lifecycle, requests>>

\* process_line: an answer or an error reaches the caller it names.
process_line(w) ==
  /\ Answered(w) /\ ~IsHttp(mcpThread[w].session) /\ session[mcpThread[w].session].alive
  /\ session' = [session EXCEPT ![mcpThread[w].session].pending = @ \ {w}]

\* The caller stops waiting: its write failed, it was cancelled or it timed out.
RequestGivenUp(w) ==
  /\ Answered(w) /\ ~IsHttp(mcpThread[w].session)
  /\ session' = [session EXCEPT ![mcpThread[w].session].pending = @ \ {w}]

\* http_send: the response to the POST, whatever it is; a session the server has forgotten (404)
\* no longer runs.
http_send(w) ==
  LET k == mcpThread[w].session IN
  /\ Answered(w) /\ IsHttp(k)
  /\ session' = [session EXCEPT ![k].pending = @ \ {w}, ![k].running = @ /\ session[k].alive]

----------------------------------------------------------------------------
(* The server *)

\* A child process exits, or an HTTP server forgets the session.
ProcessExit(k) ==
  /\ session[k].alive
  /\ session' = [session EXCEPT ![k].alive = FALSE]
  /\ UNCHANGED <<mcpRow, mapped, starting, lifecycle, mcpThread, requests>>

\* reader_loop sees the end of the output and marks the session ...
reader_loop(k) ==
  /\ session[k].reader = "reading" /\ ~session[k].alive
  /\ session' = [session EXCEPT ![k].running = FALSE, ![k].reader = "notify"]
  /\ UNCHANGED <<mcpRow, mapped, starting, lifecycle, mcpThread, requests>>

\* ... and then wakes the callers.
notify_pending(k) ==
  /\ session[k].reader = "notify"
  /\ session' = [session EXCEPT ![k].pending = {}, ![k].reader = "done"]
  /\ mcpThread' = WakesCallers(k, mcpThread)
  /\ UNCHANGED <<mcpRow, mapped, starting, lifecycle, requests>>

McpNext ==
  \/ \E s \in Servers :
       \/ \E b \in BOOLEAN : mcp_server_save(s, b)
       \/ \E a \in SUBSET Tools : mcp_server_review(s, a)
       \/ mcp_server_delete(s) \/ AskStart(s) \/ AskStop(s)
       \/ \E w \in McpWorkers : AskCatalog(w, s) \/ \E x \in Tools : call(w, s, x)
  \/ \E t \in McpThreads :
       \/ Join(t) \/ Reuse(t) \/ OpenAttempt(t) \/ ShutStale(t)
       \/ spawn_process(t) \/ start_http_server(t)
       \/ (\E x \in SUBSET Tools : handshake_and_list(t, x))
       \/ HandshakeFails(t) \/ Register(t) \/ AttemptDone(t)
       \/ stop_server(t) \/ shutdown(t) \/ request(t)
       \/ process_line(t) \/ RequestGivenUp(t) \/ http_send(t)
  \/ \E k \in SessionIds : ProcessExit(k) \/ reader_loop(k) \/ notify_pending(k)

McpSpec == McpInit /\ [][McpNext]_mcpVars

----------------------------------------------------------------------------
(* Properties *)

McpTypeOK ==
  /\ mapped \in [Servers -> 0..MaxSessions] /\ starting \in [Servers -> BOOLEAN]
  /\ \A k \in SessionIds : session[k].pending \subseteq McpWorkers
  /\ requests \in 0..MaxRequests

\* A local server has one process at most, and every process is mapped or in the hands of the thread
\* that starts it or shuts it down: neither a failed start nor a restart during a stop leaves a
\* second one behind (ensure_started, stop_server, start_server).
OwnedBy(t) == mcpThread[t].at \in {"stale", "handshake", "register", "publish", "shutdown"}
OneOwnedProcess ==
  /\ \A j, k \in SessionIds :
       /\ session[j].server = session[k].server /\ ~IsHttp(j)
       /\ session[j].alive /\ session[k].alive
       => j = k
  /\ \A k \in SessionIds : session[k].alive /\ ~IsHttp(k) =>
       \/ mapped[session[k].server] = k
       \/ \E t \in McpThreads : OwnedBy(t) /\ mcpThread[t].session = k

\* A caller that waits for an answer waits on a session whose reader will still wake it: none is
\* registered after the reader has woken the others (request, reader_loop, notify_pending).
CallerIsWoken ==
  \A t \in McpWorkers :
    mcpThread[t].at = "waiting" => session[mcpThread[t].session].reader # "done"

\* A session of an MCP server always has somebody who will end it, and somebody who will wake
\* its callers, whatever starts, stops, exits of the server and calls interleave.
SessionsAreOwned == OneOwnedProcess /\ CallerIsWoken
=============================================================================
