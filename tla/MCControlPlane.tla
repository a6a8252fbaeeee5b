--------------------------- MODULE MCControlPlane ---------------------------
(***************************************************************************)
(* TLC instance of ControlPlane.  Two questions share the run: `scope`      *)
(* bounds a behaviour either to one connection and single-use decisions,    *)
(* with the kind a tenant may declare, or to the effectful kind, with two   *)
(* connections, resumes and decisions of several uses.                      *)
(***************************************************************************)
EXTENDS ControlPlane, TLC

VARIABLE scope

\* Requests, connections and task ids are interchangeable.
Symmetry == Permutations(Requests) \cup Permutations(Connections) \cup Permutations(Tasks)

ApprovalsOnly ==
  /\ \A a \in Approvals : approval'[a].max_uses <= 1
  /\ \A c, d \in Connections : link'[c] # "closed" /\ c # d =>
       link'[d] = "closed" /\ \A t \in Tasks : d \notin handed'[t]
  /\ \A p \in Procs : proc'[p].to # "running"
  /\ policy'.table # "locked"

ChannelsOnly ==
  /\ policy'.declared = None
  /\ \A a \in Approvals : approval'[a].action \notin Custom
  /\ \A t \in Tasks : action'[t] \notin Custom
  /\ \A p \in Procs : proc'[p].action \notin Custom

ScopedInit == Init /\ scope \in {"approvals", "channels"}

ScopedNext ==
  /\ Next
  /\ scope = "approvals" => ApprovalsOnly
  /\ scope = "channels" => ChannelsOnly
  /\ UNCHANGED scope

ScopedSpec == ScopedInit /\ [][ScopedNext]_<<vars, scope>>
=============================================================================
