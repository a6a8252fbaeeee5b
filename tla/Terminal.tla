------------------------------ MODULE Terminal ------------------------------
(***************************************************************************)
(* Terminal sessions of the desktop host.  A session owns a child process  *)
(* (the SSH service), a thread that reads its frames, and a slot of a      *)
(* bounded number.  Sessions are opened, and questions of the server       *)
(* answered, on the background lane; a session is closed on the control    *)
(* lane, or on the background lane when its question is cancelled.  Both   *)
(* the reader and the thread that stops a session wait for the process,    *)
(* with the process id in a field they share without a lock.               *)
(***************************************************************************)
EXTENDS Naturals, FiniteSets, Sequences

CONSTANTS
  Terminals,    \* session ids; each is used once
  MaxTerminals, \* kMaxTerminalSessions
  MaxPrompts,   \* bound: questions of the servers
  MaxPending    \* bound: frames of a child not yet read

ASSUME TerminalAssumption == IsFiniteSet(Terminals) /\ MaxTerminals \in Nat \ {0}

VARIABLES
  tracked,    \* sessions_: ids that are not in the map, in it, or taken out
  child,      \* none, running, zombie or reaped
  pid,        \* whether the field holds the id of the child
  flagged,    \* closed
  frames,     \* frames the child has written
  readerAt,   \* where the reader thread is
  hands,      \* what each lane is doing
  slotHeld,   \* slot_held
  live,       \* live_sessions
  challenges, \* questions waiting for an answer, with the session that asked
  prompts     \* questions so far

terminalVars == <<tracked, child, pid, flagged, frames, readerAt, hands, slotHeld, live, challenges,
                  prompts>>

Lanes == {"background", "control"}
Free == [at |-> "free"]
Processes == {t \in Terminals : child[t] \in {"running", "zombie"}}
Zombies == {t \in Terminals : child[t] = "zombie"}

TerminalInit ==
  /\ tracked = [t \in Terminals |-> "none"]
  /\ child = [t \in Terminals |-> "none"]
  /\ pid = [t \in Terminals |-> FALSE] /\ flagged = [t \in Terminals |-> FALSE]
  /\ frames = [t \in Terminals |-> <<>>]
  /\ readerAt = [t \in Terminals |-> "none"]
  /\ hands = [l \in Lanes |-> Free]
  /\ slotHeld = [t \in Terminals |-> FALSE] /\ live = 0
  /\ challenges = {} /\ prompts = 0

----------------------------------------------------------------------------
(* Slots *)

\* Mutant of Release: the counter goes down whether or not the slot was still held.
ReleaseAgain(t) ==
  /\ slotHeld' = [slotHeld EXCEPT ![t] = FALSE]
  /\ live' = IF live > 0 THEN live - 1 ELSE 0

\* release_session_slot: whoever comes first gives the slot back.
Release(t) ==
  /\ slotHeld' = [slotHeld EXCEPT ![t] = FALSE]
  /\ live' = IF slotHeld[t] THEN live - 1 ELSE live

----------------------------------------------------------------------------
(* open_session *)

\* The slot is claimed before there is a process.
ClaimSlot(t) ==
  /\ hands["background"] = Free /\ tracked[t] = "none" /\ child[t] = "none"
  /\ live < MaxTerminals
  /\ live' = live + 1 /\ slotHeld' = [slotHeld EXCEPT ![t] = TRUE]
  /\ hands' = [hands EXCEPT !["background"] = [at |-> "spawn", t |-> t]]
  /\ UNCHANGED <<tracked, child, pid, flagged, frames, readerAt, challenges, prompts>>

\* The target is resolved, the configuration written and the process started, or the claim is
\* given back (SessionSlot).
spawn ==
  /\ hands["background"].at = "spawn"
  /\ LET t == hands["background"].t IN
     \/ /\ child' = [child EXCEPT ![t] = "running"]
        /\ pid' = [pid EXCEPT ![t] = TRUE]
        /\ hands' = [hands EXCEPT !["background"] = [at |-> "register", t |-> t]]
        /\ UNCHANGED <<tracked, slotHeld, live>>
     \/ /\ Release(t) /\ hands' = [hands EXCEPT !["background"] = Free]
        /\ tracked' = [tracked EXCEPT ![t] = "gone"]
        /\ UNCHANGED <<child, pid>>
  /\ UNCHANGED <<flagged, frames, readerAt, challenges, prompts>>

\* The session is registered and its reader started; if that fails the process is stopped.
Registered ==
  /\ hands["background"].at = "register"
  /\ LET t == hands["background"].t IN
     \/ /\ tracked' = [tracked EXCEPT ![t] = "open"]
        /\ readerAt' = [readerAt EXCEPT ![t] = "read"]
        /\ hands' = [hands EXCEPT !["background"] = Free]
     \/ /\ tracked' = [tracked EXCEPT ![t] = "gone"]
        /\ hands' = [hands EXCEPT !["background"] = [at |-> "stop", t |-> t]]
        /\ UNCHANGED readerAt
  /\ UNCHANGED <<child, pid, flagged, frames, slotHeld, live, challenges, prompts>>

----------------------------------------------------------------------------
(* The child process: a question, the end of the remote shell, and its own end at any time *)

ChildSays(t, frame) ==
  /\ child[t] = "running" /\ Len(frames[t]) < MaxPending
  /\ frames' = [frames EXCEPT ![t] = Append(@, frame)]
  /\ IF frame = "prompt" THEN prompts < MaxPrompts /\ prompts' = prompts + 1 ELSE UNCHANGED prompts
  /\ UNCHANGED <<tracked, child, pid, flagged, readerAt, hands, slotHeld, live, challenges>>

ChildExits(t) ==
  /\ child[t] = "running" /\ child' = [child EXCEPT ![t] = "zombie"]
  /\ UNCHANGED <<tracked, pid, flagged, frames, readerAt, hands, slotHeld, live, challenges,
                 prompts>>

----------------------------------------------------------------------------
(* reader_loop *)

\* handle_frame: a frame of a session that is no longer in the map is dropped.
handle_frame(t) ==
  /\ readerAt[t] = "read" /\ frames[t] # <<>>
  /\ frames' = [frames EXCEPT ![t] = Tail(@)]
  /\ flagged' = [flagged EXCEPT ![t] = @ \/ (tracked[t] = "open" /\ Head(frames[t]) = "closed")]
  /\ readerAt' = [readerAt EXCEPT ![t] =
       IF tracked[t] = "open" /\ Head(frames[t]) = "prompt" THEN "prompt" ELSE "read"]
  /\ UNCHANGED <<tracked, child, pid, hands, slotHeld, live, challenges, prompts>>

\* AuthChallenges::begin, for the session found before.
BeginChallenge(t) ==
  /\ readerAt[t] = "prompt"
  /\ challenges' = challenges \union {[auth |-> prompts, session |-> t]}
  /\ readerAt' = [readerAt EXCEPT ![t] = "read"]
  /\ UNCHANGED <<tracked, child, pid, flagged, frames, hands, slotHeld, live, prompts>>

\* The output has ended; the reader waits for the process if the field still has its id.
ReaderWaits(t) ==
  /\ readerAt[t] = "read" /\ frames[t] = <<>> /\ child[t] \in {"zombie", "reaped"}
  /\ readerAt' = [readerAt EXCEPT ![t] = IF pid[t] THEN "wait" ELSE "tell"]
  /\ UNCHANGED <<tracked, child, pid, flagged, frames, hands, slotHeld, live, challenges,
                 prompts>>

\* waitpid returns the process, or fails when somebody else has reaped it.  The result is
\* compared with the field, which the stopping thread may have set to -1 in the meantime.
ReaderReaps(t) ==
  /\ readerAt[t] = "wait" /\ readerAt' = [readerAt EXCEPT ![t] = "tell"]
  /\ \/ /\ child[t] = "zombie" /\ child' = [child EXCEPT ![t] = "reaped"]
        /\ pid' = [pid EXCEPT ![t] = FALSE]
        /\ Release(t)
     \/ /\ child[t] = "reaped" /\ pid[t] /\ UNCHANGED <<child, pid, slotHeld, live>>
     \/ /\ child[t] = "reaped" /\ ~pid[t] /\ Release(t) /\ UNCHANGED <<child, pid>>
  /\ UNCHANGED <<tracked, flagged, frames, hands, challenges, prompts>>

\* terminal.closed is sent.
ReaderTells(t) ==
  /\ readerAt[t] = "tell" /\ readerAt' = [readerAt EXCEPT ![t] = "done"]
  /\ flagged' = [flagged EXCEPT ![t] = TRUE]
  /\ UNCHANGED <<tracked, child, pid, frames, hands, slotHeld, live, challenges, prompts>>

----------------------------------------------------------------------------
(* close and stop_session *)

\* The session is taken out of the map by whoever closes it first.
Close(l, t) ==
  /\ hands[l] = Free /\ tracked[t] = "open"
  /\ tracked' = [tracked EXCEPT ![t] = "gone"]
  /\ hands' = [hands EXCEPT ![l] = [at |-> "stop", t |-> t]]

terminal_close(t) ==
  /\ Close("control", t)
  /\ UNCHANGED <<child, pid, flagged, frames, readerAt, slotHeld, live, challenges, prompts>>

\* The child is told to close and its input ends; then it is waited for.
StopSession(l) ==
  /\ hands[l].at = "stop"
  /\ hands' = [hands EXCEPT ![l].at = IF pid[hands[l].t] THEN "poll" ELSE "join"]
  /\ UNCHANGED <<tracked, child, pid, flagged, frames, readerAt, slotHeld, live, challenges,
                 prompts>>

\* waitpid of whatever the field holds: the session's process, or with -1 any child at all.
Reaps(t, c) == c \in Zombies /\ (pid[t] => c = t)
NothingToReap(t) == IF pid[t] THEN child[t] = "reaped" ELSE Processes = {}

\* waitpid(pid, WNOHANG) == pid, up to forty times.  When the reader was first the field is -1:
\* the call then takes any child that has ended, and the loop goes on.
Poll(l, c) ==
  /\ hands[l].at = "poll"
  /\ LET t == hands[l].t IN
     \/ /\ Reaps(t, c)
        /\ child' = [child EXCEPT ![c] = "reaped"]
        /\ IF pid[t]
           THEN pid' = [pid EXCEPT ![t] = FALSE] /\ hands' = [hands EXCEPT ![l].at = "join"]
           ELSE UNCHANGED <<pid, hands>>
     \/ /\ ~pid[t] /\ NothingToReap(t)
        /\ hands' = [hands EXCEPT ![l].at = "join"] /\ UNCHANGED <<child, pid>>
  /\ UNCHANGED <<tracked, flagged, frames, readerAt, slotHeld, live, challenges, prompts>>

\* Two seconds have passed; a process whose id is still in the field gets SIGTERM.
GiveUp(l) ==
  /\ hands[l].at = "poll"
  /\ LET t == hands[l].t IN
     hands' = [hands EXCEPT ![l].at = IF pid[t] THEN "block" ELSE "join"]
  /\ UNCHANGED <<tracked, child, pid, flagged, frames, readerAt, slotHeld, live, challenges, prompts>>

\* waitpid after SIGTERM, without a limit.
Block(l, c) ==
  /\ hands[l].at = "block"
  /\ LET t == hands[l].t IN
     /\ \/ Reaps(t, c) /\ child' = [child EXCEPT ![c] = "reaped"]
        \/ NothingToReap(t) /\ UNCHANGED child
     /\ pid' = [pid EXCEPT ![t] = FALSE]
  /\ hands' = [hands EXCEPT ![l].at = "join"]
  /\ UNCHANGED <<tracked, flagged, frames, readerAt, slotHeld, live, challenges, prompts>>

\* Mutant of ReaderGone: the session is given up without waiting for its reader.
ReaderGoneAlways(t) == TRUE

\* The reader is joined.
ReaderGone(t) == readerAt[t] \in {"none", "done"}

JoinReader(l) ==
  /\ hands[l].at = "join" /\ ReaderGone(hands[l].t)
  /\ Release(hands[l].t)
  /\ hands' = [hands EXCEPT ![l].at = "forget"]
  /\ UNCHANGED <<tracked, child, pid, flagged, frames, readerAt, challenges, prompts>>

\* forget_session: questions of a session that is gone are dropped.
forget_session(l) ==
  /\ hands[l].at = "forget"
  /\ challenges' = {q \in challenges : q.session # hands[l].t}
  /\ hands' = [hands EXCEPT ![l] = Free]
  /\ UNCHANGED <<tracked, child, pid, flagged, frames, readerAt, slotHeld, live, prompts>>

----------------------------------------------------------------------------
(* server_auth_respond and server_auth_cancel *)

\* The question is consumed by an answer with as many strings as it asked for; whether the
\* session still takes it changes nothing here.  A question that expired is dropped likewise.
respond_auth(q) ==
  /\ hands["background"] = Free /\ q \in challenges
  /\ challenges' = challenges \ {q}
  /\ UNCHANGED <<tracked, child, pid, flagged, frames, readerAt, hands, slotHeld, live, prompts>>

\* A cancelled question closes its session, if that is still there.
cancel_auth(q) ==
  /\ hands["background"] = Free /\ q \in challenges
  /\ challenges' = challenges \ {q}
  /\ IF tracked[q.session] = "open" THEN Close("background", q.session)
     ELSE UNCHANGED <<tracked, hands>>
  /\ UNCHANGED <<child, pid, flagged, frames, readerAt, slotHeld, live, prompts>>

server_auth(q) == respond_auth(q) \/ cancel_auth(q)

TerminalNext ==
  \/ \E t \in Terminals :
       \/ ClaimSlot(t) \/ ChildExits(t) \/ handle_frame(t) \/ BeginChallenge(t)
       \/ ReaderWaits(t) \/ ReaderReaps(t) \/ ReaderTells(t) \/ terminal_close(t)
       \/ \E frame \in {"prompt", "closed"} : ChildSays(t, frame)
  \/ spawn \/ Registered
  \/ \E l \in Lanes :
       \/ StopSession(l) \/ GiveUp(l) \/ JoinReader(l) \/ forget_session(l)
       \/ \E c \in Terminals : Poll(l, c) \/ Block(l, c)
  \/ \E q \in challenges : server_auth(q)

TerminalSpec == TerminalInit /\ [][TerminalNext]_terminalVars

----------------------------------------------------------------------------
(* Properties *)

TerminalTypeOK ==
  /\ tracked \in [Terminals -> {"none", "open", "gone"}]
  /\ child \in [Terminals -> {"none", "running", "zombie", "reaped"}]
  /\ readerAt \in [Terminals -> {"none", "read", "prompt", "wait", "tell", "done"}]
  /\ live \in 0..MaxTerminals

\* "Counting until the reap (not until `close`) is what keeps the bound real under open/close
\* churn": processes that exist never outnumber the slots counted, whoever reaps them and
\* however often their slot is given back (release_session_slot, reader_loop, stop_session).
SlotsCoverProcesses == Cardinality(Processes) <= live

\* A question can be answered only while the session that asked is in the map or being
\* stopped: none outlives its session (close joins the reader before it forgets).
NoDeadQuestion ==
  \A q \in challenges :
    tracked[q.session] = "open" \/ \E l \in Lanes : hands[l] # Free /\ hands[l].t = q.session

\* Sessions are counted while their process exists, and questions answerable while their
\* session does, through every order of close, exit, reap and the stop of all sessions.
SessionsAreCounted == SlotsCoverProcesses /\ NoDeadQuestion

\* Does not hold (README, section 6): "Only a reaped process frees its slot [...] otherwise an
\* exhausted cap could outlive the processes it was protecting" (reader_loop), i.e. once the reader of an open session has ended
\* and its process is reaped, the session counts no more.
SlotFollowsReap ==
  \A t \in Terminals :
    tracked[t] = "open" /\ child[t] = "reaped" /\ readerAt[t] = "done" => ~slotHeld[t]
=============================================================================
