------------------------------ MODULE MCSidecar ------------------------------
(* The sidecar client and the dispatcher, one of them in each behaviour. *)
EXTENDS Sidecar, Dispatcher

VARIABLE part
mcVars == <<part, sidecarVars, dispatchVars>>

Ask(i, w, l, k, b) == [id |-> i, window |-> w, lane |-> l, key |-> k, bytes |-> b]
MCRequests == {Ask(1, "main", "background", "logs", 1), Ask(2, "aux", "background", "logs", 1),
               Ask(3, "main", "background", "none", 2), Ask(4, "main", "terminal", "none", 1)}
MCLanes == {"background", "terminal"}
MCQueueLimit == [l \in MCLanes |-> 1]

Init == part \in {"sidecar", "dispatcher"} /\ SidecarInit /\ DispatcherInit

Next ==
  /\ UNCHANGED part
  /\ \/ part = "sidecar" /\ SidecarNext /\ UNCHANGED dispatchVars
     \/ part = "dispatcher" /\ DispatcherNext /\ UNCHANGED sidecarVars

Spec == Init /\ [][Next]_mcVars /\ SidecarFairness /\ DispatcherFairness

\* The types of both.
TypeOK == SidecarTypeOK /\ DispatcherTypeOK
=============================================================================
