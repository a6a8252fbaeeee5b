------------------------------ MODULE Dispatcher ------------------------------
(***************************************************************************)
(* IpcDispatcher and IpcReplyTarget: requests of the windows are queued on *)
(* two lanes, each with one worker; equal readings of a server share one   *)
(* job; the answers go back to the UI thread through a gate per window.    *)
(* Submitting, working, answering, closing a window and closing the        *)
(* dispatcher are concurrent.                                              *)
(***************************************************************************)
EXTENDS Naturals, Sequences, FiniteSetsExt

CONSTANTS
  Requests,      \* requests: id, window, lane, collection key (or "none") and bytes
  Lanes,         \* background and terminal_control
  QueueLimit,    \* background_queue, terminal_queue
  ByteLimit,     \* pending_bytes
  WaiterLimit    \* collection_waiters

Windows == {r.window : r \in Requests}

ASSUME DispatcherAssumption ==
  /\ IsFiniteSet(Requests)
  /\ \A r \in Requests : r.lane \in Lanes /\ r.bytes \in Nat \ {0}
  /\ {ByteLimit, WaiterLimit} \subseteq Nat \ {0} /\ QueueLimit \in [Lanes -> Nat \ {0}]

VARIABLES
  queues,        \* jobs waiting, by lane
  inHand,        \* the job each lane's worker has, and how far it is
  pendingBytes,  \* pending_bytes
  stopping,      \* close() was called
  fate,          \* history: what submit answered to each request
  completed,     \* history: how often the completion of each request was called
  posted,        \* replies on the UI thread's queue
  gate,          \* IpcReplyTarget::alive, by window
  shown          \* replies returned to their windows

dispatchVars == <<queues, inHand, pendingBytes, stopping, fate, completed, posted, gate, shown>>

NoJob == [key |-> "none", waiting |-> <<>>, bytes |-> 0]
Free == [at |-> "free", job |-> NoJob]

DispatcherInit ==
  /\ queues = [l \in Lanes |-> <<>>] /\ inHand = [l \in Lanes |-> Free]
  /\ pendingBytes = 0 /\ stopping = FALSE
  /\ fate = [r \in Requests |-> "new"] /\ completed = [r \in Requests |-> 0]
  /\ posted = {} /\ gate = [w \in Windows |-> TRUE] /\ shown = {}

----------------------------------------------------------------------------
(* submit *)

\* Mutant of WithWaiter: the bytes of a request that joins are not the job's.
WithWaiterOnly(job, r) ==
  [job EXCEPT !.waiting = Append(@, r), !.bytes = IF job.waiting = <<>> THEN r.bytes ELSE @]

\* A completion more for the job, and its bytes.
WithWaiter(job, r) == [job EXCEPT !.waiting = Append(@, r), !.bytes = @ + r.bytes]

\* Does the request fit under the limit on all pending bytes?
Fits(r) == r.bytes <= ByteLimit /\ r.bytes <= ByteLimit - pendingBytes

\* collections: the job of this key that is queued, or that the worker is invoking.
Queued(r) == {i \in DOMAIN queues[r.lane] : r.key # "none" /\ queues[r.lane][i].key = r.key}
Invoked(r) == r.key # "none" /\ inHand[r.lane].at = "invoke" /\ inHand[r.lane].job.key = r.key

\* A reading that is under way takes the request as one more waiter, or is full.
JoinsQueued(r) == \E i \in Queued(r) : Len(queues[r.lane][i].waiting) < WaiterLimit
JoinsInvoked(r) == Invoked(r) /\ Len(inHand[r.lane].job.waiting) < WaiterLimit
StartsJob(r) == Queued(r) = {} /\ ~Invoked(r) /\ Len(queues[r.lane]) < QueueLimit[r.lane]

Accept(r) ==
  /\ pendingBytes' = pendingBytes + r.bytes
  /\ fate' = [fate EXCEPT ![r] = "accepted"]
  /\ UNCHANGED <<stopping, completed, posted, gate, shown>>

SubmitJoinsQueued(r) ==
  /\ fate[r] = "new" /\ ~stopping /\ Fits(r) /\ JoinsQueued(r)
  /\ \E i \in Queued(r) : queues' = [queues EXCEPT ![r.lane][i] = WithWaiter(@, r)]
  /\ Accept(r) /\ UNCHANGED inHand

SubmitJoinsInvoked(r) ==
  /\ fate[r] = "new" /\ ~stopping /\ Fits(r) /\ JoinsInvoked(r)
  /\ inHand' = [inHand EXCEPT ![r.lane].job = WithWaiter(@, r)]
  /\ Accept(r) /\ UNCHANGED queues

SubmitJob(r) ==
  /\ fate[r] = "new" /\ ~stopping /\ Fits(r) /\ StartsJob(r)
  /\ queues' = [queues EXCEPT ![r.lane] = Append(@, WithWaiter([NoJob EXCEPT !.key = r.key], r))]
  /\ Accept(r) /\ UNCHANGED inHand

\* closed, or busy.
SubmitRefused(r) ==
  /\ fate[r] = "new"
  /\ stopping \/ ~Fits(r) \/ ~(JoinsQueued(r) \/ JoinsInvoked(r) \/ StartsJob(r))
  /\ fate' = [fate EXCEPT ![r] = "refused"]
  /\ UNCHANGED <<queues, inHand, pendingBytes, stopping, completed, posted, gate, shown>>

----------------------------------------------------------------------------
(* run *)

\* Mutant of TakeJob: the job that is taken stays at the head of the queue.
TakeJobTwice(l) ==
  /\ inHand[l] = Free /\ ~stopping /\ queues[l] # <<>>
  /\ inHand' = [inHand EXCEPT ![l] = [at |-> "invoke", job |-> Head(queues[l])]]
  /\ UNCHANGED <<queues, pendingBytes, stopping, fate, completed, posted, gate, shown>>

TakeJob(l) ==
  /\ inHand[l] = Free /\ ~stopping /\ queues[l] # <<>>
  /\ inHand' = [inHand EXCEPT ![l] = [at |-> "invoke", job |-> Head(queues[l])]]
  /\ queues' = [queues EXCEPT ![l] = Tail(@)]
  /\ UNCHANGED <<pendingBytes, stopping, fate, completed, posted, gate, shown>>

\* The invoke returns or throws; under the mutex the job is taken out of the collections and
\* its completions are moved out, unless the dispatcher has been closed.
InvokeReturns(l) ==
  /\ inHand[l].at = "invoke"
  /\ IF stopping
     THEN inHand' = [inHand EXCEPT ![l] = Free] /\ UNCHANGED pendingBytes
     ELSE /\ inHand' = [inHand EXCEPT ![l].at = "answer"]
          /\ pendingBytes' = pendingBytes - inHand[l].job.bytes
  /\ UNCHANGED <<queues, stopping, fate, completed, posted, gate, shown>>

\* completion_mutex is held by one worker for all the completions of its job.
Answering(l) == inHand[l].at = "answering"
BeginAnswers(l) ==
  /\ inHand[l].at = "answer" /\ \A k \in Lanes : ~Answering(k)
  /\ inHand' = [inHand EXCEPT ![l].at = "answering"]
  /\ UNCHANGED <<queues, pendingBytes, stopping, fate, completed, posted, gate, shown>>

\* Mutant of MayAnswer: stopping is not looked at between two completions.
MayAnswerAlways(l) == inHand[l].job.waiting # <<>>

MayAnswer(l) == ~stopping /\ inHand[l].job.waiting # <<>>

\* One completion: IpcReplyTarget::complete posts the reply while the window's gate is open.
AnswerOne(l) ==
  /\ Answering(l) /\ MayAnswer(l)
  /\ LET r == Head(inHand[l].job.waiting) IN
     /\ completed' = [completed EXCEPT ![r] = @ + 1]
     /\ posted' = IF gate[r.window] THEN posted \union {r} ELSE posted
  /\ inHand' = [inHand EXCEPT ![l].job.waiting = Tail(@)]
  /\ UNCHANGED <<queues, pendingBytes, stopping, fate, gate, shown>>

\* Mutant of EndAnswers: a completion that throws ends the loop.
EndAnswersEarly(l) ==
  /\ Answering(l)
  /\ inHand' = [inHand EXCEPT ![l] = Free]
  /\ UNCHANGED <<queues, pendingBytes, stopping, fate, completed, posted, gate, shown>>

EndAnswers(l) ==
  /\ Answering(l) /\ ~MayAnswer(l)
  /\ inHand' = [inHand EXCEPT ![l] = Free]
  /\ UNCHANGED <<queues, pendingBytes, stopping, fate, completed, posted, gate, shown>>

\* The UI thread runs a posted reply; the gate is looked at again.
ShowReply(r) ==
  /\ r \in posted /\ posted' = posted \ {r}
  /\ shown' = IF gate[r.window] THEN shown \union {r} ELSE shown
  /\ UNCHANGED <<queues, inHand, pendingBytes, stopping, fate, completed, gate>>

----------------------------------------------------------------------------
(* Closing *)

\* close(), from the UI thread: it waits for completion_mutex.
CloseDispatcher ==
  /\ ~stopping /\ stopping' = TRUE
  /\ \A l \in Lanes : ~Answering(l)
  /\ queues' = [l \in Lanes |-> <<>>] /\ pendingBytes' = 0
  /\ inHand' = [l \in Lanes |-> IF inHand[l].at = "invoke" /\ inHand[l].job.key # "none"
                                THEN [inHand[l] EXCEPT !.job.waiting = <<>>] ELSE inHand[l]]
  /\ UNCHANGED <<fate, completed, posted, gate, shown>>

\* destroy_bridge_window
CloseWindow(w) ==
  /\ gate[w] /\ gate' = [gate EXCEPT ![w] = FALSE]
  /\ UNCHANGED <<queues, inHand, pendingBytes, stopping, fate, completed, posted, shown>>

DispatcherWork ==
  \/ \E l \in Lanes : TakeJob(l) \/ InvokeReturns(l) \/ BeginAnswers(l) \/ AnswerOne(l) \/ EndAnswers(l)
  \/ \E r \in Requests : ShowReply(r)

DispatcherNext ==
  \/ \E r \in Requests :
       SubmitJoinsQueued(r) \/ SubmitJoinsInvoked(r) \/ SubmitJob(r) \/ SubmitRefused(r)
  \/ DispatcherWork
  \/ CloseDispatcher
  \/ \E w \in Windows : CloseWindow(w)

\* The two workers are scheduled, an invoke has its deadlines, and completion_mutex goes to
\* whoever waits for it.
DispatcherFairness ==
  \A l \in Lanes :
    /\ WF_dispatchVars(TakeJob(l)) /\ WF_dispatchVars(InvokeReturns(l))
    /\ SF_dispatchVars(BeginAnswers(l)) /\ WF_dispatchVars(AnswerOne(l)) /\ WF_dispatchVars(EndAnswers(l))

DispatcherSpec == DispatcherInit /\ [][DispatcherNext]_dispatchVars /\ DispatcherFairness

----------------------------------------------------------------------------
(* Properties *)

DispatcherTypeOK ==
  /\ \A l \in Lanes : inHand[l].at \in {"free", "invoke", "answer", "answering"}
  /\ \A l \in Lanes : Len(queues[l]) <= QueueLimit[l]
  /\ pendingBytes \in 0 .. ByteLimit
  /\ fate \in [Requests -> {"new", "accepted", "refused"}]
  /\ completed \in [Requests -> 0 .. 1] /\ posted \subseteq Requests

\* Requests of jobs that are queued or being invoked.
InJobs ==
  {r \in Requests : \E l \in Lanes :
     \/ \E i \in DOMAIN queues[l] : \E k \in DOMAIN queues[l][i].waiting : queues[l][i].waiting[k] = r
     \/ inHand[l].at = "invoke" /\ \E k \in DOMAIN inHand[l].job.waiting : inHand[l].job.waiting[k] = r}

\* pending_bytes is what the jobs that are queued or invoked add up to, joined readings
\* included, and is not taken off twice around close() (run, submit, close).
BytesConserved ==
  pendingBytes = IF stopping THEN 0 ELSE MapThenSumSet(LAMBDA r : r.bytes, InJobs)

\* No completion is called twice, and none of a request that was refused: a reading that several
\* requests share answers each of them, the ones that joined late included, and is run once.
CompletedOnce ==
  \A r \in Requests : completed[r] <= 1 /\ (fate[r] # "accepted" => completed[r] = 0)

\* Whatever joins whatever, and whenever close() comes, nothing that submit accepted is counted
\* or answered twice, and nothing it refused is counted or answered at all.
EverythingCountsOnce == BytesConserved /\ CompletedOnce

\* Once close() has returned no completion is called, not even of a job whose completions had
\* already been moved out (run takes completion_mutex and looks again).
NoAnswerAfterClose == [][stopping => completed' = completed]_dispatchVars

\* An accepted request is answered, exactly once, unless the dispatcher is closed; also one
\* that joined a reading after its invoke had begun.
AcceptedIsAnswered ==
  \A r \in Requests : fate[r] = "accepted" ~> (completed[r] = 1 \/ stopping)

\* The dispatcher answers everything it accepted until it is closed, and nothing after.
AnsweredUntilClosed == AcceptedIsAnswered /\ NoAnswerAfterClose
=============================================================================
