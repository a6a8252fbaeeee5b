---------------------------- MODULE DesktopProofs ----------------------------
(***************************************************************************)
(* What the components of the desktop host keep, for every set of servers, *)
(* sessions, stages and secrets and every bound: one inductive invariant   *)
(* per component, proved of the component running by itself, and the       *)
(* theorem that the run of module MCDesktop, which starts them all and     *)
(* moves one, is a run of each.                                            *)
(***************************************************************************)
EXTENDS MCDesktop, FiniteSetTheorems, TLAPS

----------------------------------------------------------------------------
(* OAuth: a token comes from the consent given to its own flow *)

\* The bounds of the OAuth host are positive numbers.
LEMMA OAuthBounds ==
  /\ MaxConnects \in Nat /\ MaxFlows \in Nat /\ MaxDevicePolls \in Nat
  /\ Lifetime \in Nat /\ MaxPause \in Nat /\ MaxFlows > 0 /\ MaxPause > 0
  BY OAuthAssumption

\* Zero and what is positive lie within a bound.
LEMMA Within ==
  ASSUME NEW n \in Nat
  PROVE  0 \in 0..n /\ \A i \in 1..n : i \in 0..n
  OBVIOUS

CodeSteps == {"client", "open", "wait"}

\* Where a flow can stand: it has a number, only a code flow waits for the browser, and a
\* device flow polls within its budget.
FlowIsPlaced ==
  /\ flow.at # "none" => flow.id > 0
  /\ flow.at \notin {"none", "return"} => flow.server \in OAuthServers
  /\ flow.at \in {"open", "wait"} => flow.server \notin DeviceServers
  /\ flow.at \in {"ask", "asked"} => flow.polls < MaxDevicePolls

\* What the slot of a code flow and the flow itself hold is nothing or the flow's own code.
CodeIsOwn ==
  /\ flow.at \in CodeSteps /\ flow.server \notin DeviceServers /\ slot.ready
       => slot.code \in {0, flow.id}
  /\ flow.code \in {0, flow.id}
  /\ flow.at \in {"exchange", "again"} => flow.code = flow.id

\* A bundle is of a flow begun, and of the present one only once that has ended.
BundlesAreEarned ==
  \A b \in bundles :
    /\ b.grant = b.flow /\ b.flow <= flow.id
    /\ b.flow = flow.id => flow.at \in {"return", "none"}

Requests0 == [kind : {"connect", "cancel"}, server : OAuthServers]

\* The parts of the type, as the actions disturb them.
LaneTyped ==
  /\ wanted \in Seq(Requests0)
  /\ flows \subseteq OAuthServers /\ cancels \subseteq flows /\ clients \subseteq OAuthServers
ReplyTyped ==
  /\ slot \in [ready : BOOLEAN, code : 0..MaxFlows]
  /\ listener \in {"off", "starting", "running", "stopped"}
  /\ tabs \subseteq 1..MaxFlows
BundlesTyped == bundles \subseteq [flow : 1..MaxFlows, grant : 1..MaxFlows]

Consent == /\ LaneTyped /\ flow \in FlowRecords /\ ReplyTyped /\ BundlesTyped
           /\ FlowIsPlaced /\ CodeIsOwn /\ BundlesAreEarned

\* The fields of a flow, and what they are as numbers.
LEMMA FlowFields ==
  ASSUME flow \in FlowRecords
  PROVE  /\ flow.id \in 0..MaxFlows /\ flow.server \in OAuthServers \union {""}
         /\ flow.code \in 0..MaxFlows /\ flow.polls \in 0..MaxDevicePolls
         /\ flow.pause \in 0..MaxPause /\ flow.left \in 0..Lifetime
  BY DEF FlowRecords

LEMMA FlowNumbers ==
  ASSUME flow \in FlowRecords
  PROVE  /\ flow.id \in Nat /\ flow.id <= MaxFlows
         /\ flow.polls \in Nat /\ flow.pause \in Nat /\ flow.left \in Nat
         /\ flow.polls <= MaxDevicePolls /\ flow.pause <= MaxPause /\ flow.left <= Lifetime
<1>1. flow.id \in 0..MaxFlows /\ flow.polls \in 0..MaxDevicePolls
  BY FlowFields
<1>2. flow.pause \in 0..MaxPause /\ flow.left \in 0..Lifetime
  BY FlowFields
<1>3. flow.id \in Nat /\ flow.id <= MaxFlows /\ flow.polls \in Nat /\ flow.polls <= MaxDevicePolls
  BY <1>1, OAuthBounds
<1>4. flow.pause \in Nat /\ flow.left \in Nat /\ flow.pause <= MaxPause /\ flow.left <= Lifetime
  BY <1>2, OAuthBounds
<1> QED  BY <1>3, <1>4

\* A flow that only moves.
LEMMA FlowGoes ==
  ASSUME flow \in FlowRecords, NEW step, flow' = [flow EXCEPT !.at = step],
         step \in {"none", "discover", "metadata", "client", "open", "wait", "join", "exchange",
                  "again", "device", "poll", "ask", "asked", "return"}
  PROVE  /\ flow' \in FlowRecords /\ flow'.at = step /\ flow'.id = flow.id
         /\ flow'.server = flow.server /\ flow'.code = flow.code /\ flow'.polls = flow.polls
  BY DEF FlowRecords

\* The flow of a lane that has none.
LEMMA NoFlowTyped == NoFlow \in FlowRecords
<1>1. 0 \in 0..MaxFlows /\ 0 \in 0..MaxDevicePolls /\ 0 \in 0..MaxPause /\ 0 \in 0..Lifetime
  BY OAuthBounds
<1> QED  BY <1>1 DEF FlowRecords, NoFlow

LEMMA NoFlowFields == NoFlow.at = "none" /\ NoFlow.code = 0
  BY DEF NoFlow

\* The flow between two commands.
LEMMA RestingFlow ==
  ASSUME NEW n \in 0..MaxFlows, flow' = [NoFlow EXCEPT !.id = n]
  PROVE  flow' \in FlowRecords /\ flow'.id = n /\ flow'.at = "none" /\ flow'.code = 0
  BY NoFlowTyped, NoFlowFields DEF FlowRecords

\* The flow a connect command begins.
LEMMA NewFlow ==
  ASSUME NEW n \in 0..MaxFlows, NEW s \in OAuthServers,
         flow' = [NoFlow EXCEPT !.id = n, !.server = s, !.at = "discover"]
  PROVE  /\ flow' \in FlowRecords /\ flow'.id = n /\ flow'.at = "discover" /\ flow'.code = 0
         /\ flow'.server = s
  BY NoFlowTyped, NoFlowFields DEF FlowRecords

\* Nothing is obtained, held or placed when the host starts.
LEMMA ConsentInit == OAuthInit => Consent
<1> SUFFICES ASSUME OAuthInit PROVE Consent
  OBVIOUS
<1>1. LaneTyped
  BY DEF OAuthInit, LaneTyped
<1>2. flow \in FlowRecords
  BY NoFlowTyped DEF OAuthInit
<1>3. ReplyTyped /\ BundlesTyped
  BY OAuthBounds DEF OAuthInit, ReplyTyped, BundlesTyped, EmptySlot
<1>4. FlowIsPlaced /\ CodeIsOwn /\ BundlesAreEarned
  BY DEF OAuthInit, FlowIsPlaced, CodeIsOwn, BundlesAreEarned, NoFlow, CodeSteps
<1> QED  BY <1>1, <1>2, <1>3, <1>4 DEF Consent

\* The commands of the lane's queue: asking, beginning, cancelling and ending a flow.
LEMMA ConsentLane ==
  ASSUME Consent,
         \/ \E kind \in {"connect", "cancel"}, s \in OAuthServers : AskOAuth(kind, s)
         \/ mcp_oauth_connect \/ mcp_oauth_cancel \/ FlowGuard
  PROVE  Consent'
<1>0. /\ LaneTyped /\ flow \in FlowRecords /\ ReplyTyped /\ BundlesTyped
      /\ FlowIsPlaced /\ CodeIsOwn /\ BundlesAreEarned
  BY DEF Consent
<1>00. /\ flow.id \in Nat /\ flow.id <= MaxFlows
       /\ flow.polls \in Nat /\ flow.pause \in Nat /\ flow.left \in Nat
       /\ flow.polls <= MaxDevicePolls /\ flow.pause <= MaxPause /\ flow.left <= Lifetime
  BY <1>0, FlowNumbers
<1>000. flow.server \in OAuthServers \union {""}
  BY <1>0, FlowFields
<1> USE DEF At, Go
<1>1. CASE \E kind \in {"connect", "cancel"}, s \in OAuthServers : AskOAuth(kind, s)
  <2> USE DEF AskOAuth
  <2>0. flow' = flow /\ flow' \in FlowRecords
    BY <1>0, <1>1
  <2>b. PICK kind \in {"connect", "cancel"}, s \in OAuthServers : AskOAuth(kind, s)
    BY <1>1
  <2>c. [kind |-> kind, server |-> s] \in Requests0
    BY DEF Requests0
  <2>d. wanted' \in Seq(Requests0)
    BY <1>0, <2>b, <2>c DEF LaneTyped
  <2>1. LaneTyped'
    BY <1>0, <1>000, <1>1, <2>d DEF LaneTyped, FlowIsPlaced
  <2>3. ReplyTyped'
    BY <1>0, <1>00, OAuthBounds, <1>1 DEF ReplyTyped, FlowIsPlaced
  <2>4. BundlesTyped' /\ BundlesAreEarned'
    BY <1>0, <1>00, OAuthBounds, <1>1, <2>0
    DEF BundlesTyped, BundlesAreEarned, FlowIsPlaced, CodeIsOwn
  <2>5. FlowIsPlaced'
    BY <1>0, <1>00, <1>000, <1>1, <2>0 DEF FlowIsPlaced
  <2>6. CodeIsOwn'
    BY <1>0, <1>00, <1>1, <2>0 DEF CodeIsOwn, FlowIsPlaced, CodeSteps, ReplyTyped
  <2> QED  BY <2>0, <2>1, <2>3, <2>4, <2>5, <2>6 DEF Consent
<1>2. CASE mcp_oauth_connect
  <2> USE DEF mcp_oauth_connect
  <2>a. Head(wanted) \in Requests0 /\ Tail(wanted) \in Seq(Requests0)
    BY <1>0, <1>2 DEF LaneTyped
  <2>b. Head(wanted).server \in OAuthServers /\ flow.id + 1 \in 0..MaxFlows
    BY <1>00, <1>2, OAuthBounds, <2>a DEF Requests0
  <2>0. /\ flow' \in FlowRecords /\ flow'.at = "discover" /\ flow'.id = flow.id + 1
        /\ flow'.code = 0 /\ flow'.server = Head(wanted).server
    BY <1>2, <2>b, NewFlow
  <2>1. LaneTyped'
    BY <1>0, <1>000, <1>2, <2>a, <2>b DEF LaneTyped, FlowIsPlaced
  <2>3. ReplyTyped'
    BY <1>0, <1>00, OAuthBounds, <1>2 DEF ReplyTyped, FlowIsPlaced
  <2>4. BundlesTyped' /\ BundlesAreEarned'
    BY <1>0, <1>00, OAuthBounds, <1>2, <2>0
    DEF BundlesTyped, BundlesAreEarned, FlowIsPlaced, CodeIsOwn
  <2>5. FlowIsPlaced'
    BY <1>00, <2>0, <2>b DEF FlowIsPlaced
  <2>6. CodeIsOwn'
    BY <1>0, <1>00, <1>2, <2>0 DEF CodeIsOwn, FlowIsPlaced, CodeSteps, ReplyTyped
  <2> QED  BY <2>0, <2>1, <2>3, <2>4, <2>5, <2>6 DEF Consent
<1>3. CASE mcp_oauth_cancel
  <2> USE DEF mcp_oauth_cancel
  <2>0. flow' = flow /\ flow' \in FlowRecords
    BY <1>0, <1>3
  <2>a. Tail(wanted) \in Seq(Requests0)
    BY <1>0, <1>3 DEF LaneTyped
  <2>1. LaneTyped'
    BY <1>0, <1>000, <1>3, <2>a DEF LaneTyped, FlowIsPlaced
  <2>3. ReplyTyped'
    BY <1>0, <1>00, OAuthBounds, <1>3 DEF ReplyTyped, FlowIsPlaced
  <2>4. BundlesTyped' /\ BundlesAreEarned'
    BY <1>0, <1>00, OAuthBounds, <1>3, <2>0
    DEF BundlesTyped, BundlesAreEarned, FlowIsPlaced, CodeIsOwn
  <2>5. FlowIsPlaced'
    BY <1>0, <1>00, <1>000, <1>3, <2>0 DEF FlowIsPlaced
  <2>6. CodeIsOwn'
    BY <1>0, <1>00, <1>3, <2>0 DEF CodeIsOwn, FlowIsPlaced, CodeSteps, ReplyTyped
  <2> QED  BY <2>0, <2>1, <2>3, <2>4, <2>5, <2>6 DEF Consent
<1>4. CASE FlowGuard
  <2> USE DEF FlowGuard
  <2>a. flow.id \in 0..MaxFlows
    BY <1>0, FlowFields
  <2>0. /\ flow' \in FlowRecords /\ flow'.at = "none" /\ flow'.id = flow.id /\ flow'.code = 0
    BY <1>4, <2>a, RestingFlow
  <2>1. LaneTyped'
    BY <1>0, <1>000, <1>4 DEF LaneTyped, FlowIsPlaced
  <2>3. ReplyTyped'
    BY <1>0, <1>00, OAuthBounds, <1>4 DEF ReplyTyped, FlowIsPlaced
  <2>4. BundlesTyped' /\ BundlesAreEarned'
    BY <1>0, <1>00, OAuthBounds, <1>4, <2>0
    DEF BundlesTyped, BundlesAreEarned, FlowIsPlaced, CodeIsOwn
  <2>5. FlowIsPlaced'
    BY <1>0, <1>00, <1>000, <1>4, <2>0 DEF FlowIsPlaced
  <2>6. CodeIsOwn'
    BY <1>0, <1>00, <1>4, <2>0 DEF CodeIsOwn, FlowIsPlaced, CodeSteps, ReplyTyped
  <2> QED  BY <2>0, <2>1, <2>3, <2>4, <2>5, <2>6 DEF Consent
<1> QED  BY <1>1, <1>2, <1>3, <1>4

\* The steps from discovery to the browser, and the listener beside them.
LEMMA ConsentOpens ==
  ASSUME Consent,
         \/ discover_resource_issuer \/ discover \/ ListenerRuns \/ resolve_client_id
         \/ open_browser
  PROVE  Consent'
<1>0. /\ LaneTyped /\ flow \in FlowRecords /\ ReplyTyped /\ BundlesTyped
      /\ FlowIsPlaced /\ CodeIsOwn /\ BundlesAreEarned
  BY DEF Consent
<1>00. /\ flow.id \in Nat /\ flow.id <= MaxFlows
       /\ flow.polls \in Nat /\ flow.pause \in Nat /\ flow.left \in Nat
       /\ flow.polls <= MaxDevicePolls /\ flow.pause <= MaxPause /\ flow.left <= Lifetime
  BY <1>0, FlowNumbers
<1>000. flow.server \in OAuthServers \union {""}
  BY <1>0, FlowFields
<1> USE DEF At, Go
<1>1. CASE discover_resource_issuer
  <2> USE DEF discover_resource_issuer
  <2>0. /\ flow' \in FlowRecords /\ flow'.at \in {"metadata", "return"} /\ flow'.id = flow.id
        /\ flow'.server = flow.server /\ flow'.code = flow.code /\ flow'.polls = flow.polls
    BY <1>0, <1>1, FlowGoes
  <2>1. LaneTyped'
    BY <1>0, <1>000, <1>1 DEF LaneTyped, FlowIsPlaced
  <2>3. ReplyTyped'
    BY <1>0, <1>00, OAuthBounds, <1>1 DEF ReplyTyped, FlowIsPlaced
  <2>4. BundlesTyped' /\ BundlesAreEarned'
    BY <1>0, <1>00, OAuthBounds, <1>1, <2>0
    DEF BundlesTyped, BundlesAreEarned, FlowIsPlaced, CodeIsOwn
  <2>5. FlowIsPlaced'
    BY <1>0, <1>00, <1>000, <1>1, <2>0 DEF FlowIsPlaced
  <2>6. CodeIsOwn'
    BY <1>0, <1>00, <1>1, <2>0 DEF CodeIsOwn, FlowIsPlaced, CodeSteps, ReplyTyped
  <2> QED  BY <2>0, <2>1, <2>3, <2>4, <2>5, <2>6 DEF Consent
<1>2. CASE discover
  <2> USE DEF discover, authorization_code_flow
  <2>0. /\ flow' \in FlowRecords /\ flow'.at \in {"client", "return"} /\ flow'.id = flow.id
        /\ flow'.server = flow.server /\ flow'.code = flow.code
    BY <1>0, <1>2 DEF FlowRecords
  <2>b. EmptySlot \in [ready : BOOLEAN, code : 0..MaxFlows]
    <3>1. 0 \in 0..MaxFlows
      BY OAuthBounds, Within
    <3> QED  BY <3>1 DEF EmptySlot
  <2>c. flow'.at = "client" /\ flow.server \notin DeviceServers => slot' = EmptySlot
    BY <1>0, <1>2 DEF FlowRecords
  <2>d. EmptySlot.ready = FALSE
    BY DEF EmptySlot
  <2>1. LaneTyped'
    BY <1>0, <1>000, <1>2 DEF LaneTyped, FlowIsPlaced
  <2>3. ReplyTyped'
    BY <1>0, <1>00, OAuthBounds, <1>2, <2>b DEF ReplyTyped, FlowIsPlaced
  <2>4. BundlesTyped' /\ BundlesAreEarned'
    BY <1>0, <1>00, OAuthBounds, <1>2, <2>0
    DEF BundlesTyped, BundlesAreEarned, FlowIsPlaced, CodeIsOwn
  <2>5. FlowIsPlaced'
    BY <1>0, <1>00, <1>000, <1>2, <2>0 DEF FlowIsPlaced
  <2>6. CodeIsOwn'
    BY <1>0, <1>00, <2>0, <2>c, <2>d DEF CodeIsOwn, CodeSteps
  <2> QED  BY <2>0, <2>1, <2>3, <2>4, <2>5, <2>6 DEF Consent
<1>3. CASE ListenerRuns
  <2> USE DEF ListenerRuns
  <2>0. flow' = flow /\ flow' \in FlowRecords
    BY <1>0, <1>3
  <2>1. LaneTyped'
    BY <1>0, <1>000, <1>3 DEF LaneTyped, FlowIsPlaced
  <2>3. ReplyTyped'
    BY <1>0, <1>00, OAuthBounds, <1>3 DEF ReplyTyped, FlowIsPlaced
  <2>4. BundlesTyped' /\ BundlesAreEarned'
    BY <1>0, <1>00, OAuthBounds, <1>3, <2>0
    DEF BundlesTyped, BundlesAreEarned, FlowIsPlaced, CodeIsOwn
  <2>5. FlowIsPlaced'
    BY <1>0, <1>00, <1>000, <1>3, <2>0 DEF FlowIsPlaced
  <2>6. CodeIsOwn'
    BY <1>0, <1>00, <1>3, <2>0 DEF CodeIsOwn, FlowIsPlaced, CodeSteps, ReplyTyped
  <2> QED  BY <2>0, <2>1, <2>3, <2>4, <2>5, <2>6 DEF Consent
<1>4. CASE resolve_client_id
  <2> USE DEF resolve_client_id, register_client, Leaving, Stopped
  <2>0. /\ flow' \in FlowRecords /\ flow'.at \in {"device", "open", "return", "join"} /\ flow'.id = flow.id
        /\ flow'.server = flow.server /\ flow'.code = flow.code /\ flow'.polls = flow.polls
        /\ flow'.at = "open" => flow.server \notin DeviceServers
    BY <1>0, <1>4, FlowGoes
  <2>1. LaneTyped'
    BY <1>0, <1>000, <1>4 DEF LaneTyped, FlowIsPlaced
  <2>3. ReplyTyped'
    BY <1>0, <1>00, OAuthBounds, <1>4 DEF ReplyTyped, FlowIsPlaced
  <2>4. BundlesTyped' /\ BundlesAreEarned'
    BY <1>0, <1>00, OAuthBounds, <1>4, <2>0
    DEF BundlesTyped, BundlesAreEarned, FlowIsPlaced, CodeIsOwn
  <2>5. FlowIsPlaced'
    BY <1>0, <1>00, <1>000, <1>4, <2>0 DEF FlowIsPlaced
  <2>6. CodeIsOwn'
    BY <1>0, <1>00, <1>4, <2>0 DEF CodeIsOwn, FlowIsPlaced, CodeSteps, ReplyTyped
  <2> QED  BY <2>0, <2>1, <2>3, <2>4, <2>5, <2>6 DEF Consent
<1>5. CASE open_browser
  <2> USE DEF open_browser, Leaving, Stopped
  <2>0. /\ flow' \in FlowRecords /\ flow'.at \in {"wait", "return", "join"} /\ flow'.id = flow.id
        /\ flow'.server = flow.server /\ flow'.code = flow.code /\ flow'.polls = flow.polls
    BY <1>0, <1>5, FlowGoes
  <2>1. LaneTyped'
    BY <1>0, <1>000, <1>5 DEF LaneTyped, FlowIsPlaced
  <2>3. ReplyTyped'
    BY <1>0, <1>00, OAuthBounds, <1>5 DEF ReplyTyped, FlowIsPlaced
  <2>4. BundlesTyped' /\ BundlesAreEarned'
    BY <1>0, <1>00, OAuthBounds, <1>5, <2>0
    DEF BundlesTyped, BundlesAreEarned, FlowIsPlaced, CodeIsOwn
  <2>5. FlowIsPlaced'
    BY <1>0, <1>00, <1>000, <1>5, <2>0 DEF FlowIsPlaced
  <2>6. CodeIsOwn'
    BY <1>0, <1>00, <1>5, <2>0 DEF CodeIsOwn, FlowIsPlaced, CodeSteps, ReplyTyped
  <2> QED  BY <2>0, <2>1, <2>3, <2>4, <2>5, <2>6 DEF Consent
<1> QED  BY <1>1, <1>2, <1>3, <1>4, <1>5

\* A request to the listener, whichever tab makes it, and the end of the wait for one.
LEMMA ConsentReturns ==
  ASSUME Consent,
         \/ \E tab \in tabs : \E code \in {0, tab} : Callback(tab, code)
         \/ wait_for_callback \/ JoinListener
  PROVE  Consent'
<1>0. /\ LaneTyped /\ flow \in FlowRecords /\ ReplyTyped /\ BundlesTyped
      /\ FlowIsPlaced /\ CodeIsOwn /\ BundlesAreEarned
  BY DEF Consent
<1>00. /\ flow.id \in Nat /\ flow.id <= MaxFlows
       /\ flow.polls \in Nat /\ flow.pause \in Nat /\ flow.left \in Nat
       /\ flow.polls <= MaxDevicePolls /\ flow.pause <= MaxPause /\ flow.left <= Lifetime
  BY <1>0, FlowNumbers
<1>000. flow.server \in OAuthServers \union {""}
  BY <1>0, FlowFields
<1> USE DEF At, Go
<1>1. CASE \E tab \in tabs : \E code \in {0, tab} : Callback(tab, code)
  <2> USE DEF Callback, CallbackCode
  <2>0. flow' = flow /\ flow' \in FlowRecords
    BY <1>0, <1>1
  <2>1. LaneTyped'
    BY <1>0, <1>000, <1>1 DEF LaneTyped, FlowIsPlaced
  <2>3. ReplyTyped'
    BY <1>0, <1>00, OAuthBounds, <1>1 DEF ReplyTyped, FlowIsPlaced
  <2>4. BundlesTyped' /\ BundlesAreEarned'
    BY <1>0, <1>00, OAuthBounds, <1>1, <2>0
    DEF BundlesTyped, BundlesAreEarned, FlowIsPlaced, CodeIsOwn
  <2>5. FlowIsPlaced'
    BY <1>0, <1>00, <1>000, <1>1, <2>0 DEF FlowIsPlaced
  <2>6. CodeIsOwn'
    BY <1>0, <1>00, <1>1, <2>0 DEF CodeIsOwn, FlowIsPlaced, CodeSteps, ReplyTyped
  <2> QED  BY <2>0, <2>1, <2>3, <2>4, <2>5, <2>6 DEF Consent
<1>2. CASE wait_for_callback
  <2> USE DEF wait_for_callback, is_cancelled, Stopped
  <2>a. slot.code \in 0..MaxFlows /\ 0 \in 0..MaxFlows
    BY <1>0, OAuthBounds DEF ReplyTyped
  <2>0. /\ flow' \in FlowRecords /\ flow'.at = "join" /\ flow'.id = flow.id
        /\ flow'.server = flow.server
        /\ flow'.code = IF slot.ready /\ ~is_cancelled THEN slot.code ELSE 0
    BY <1>0, <1>2, <2>a DEF FlowRecords
  <2>1. LaneTyped'
    BY <1>0, <1>000, <1>2 DEF LaneTyped, FlowIsPlaced
  <2>3. ReplyTyped'
    BY <1>0, <1>00, OAuthBounds, <1>2 DEF ReplyTyped, FlowIsPlaced
  <2>4. BundlesTyped' /\ BundlesAreEarned'
    BY <1>0, <1>00, OAuthBounds, <1>2, <2>0
    DEF BundlesTyped, BundlesAreEarned, FlowIsPlaced, CodeIsOwn
  <2>5. FlowIsPlaced'
    BY <1>0, <1>00, <1>000, <1>2, <2>0 DEF FlowIsPlaced
  <2>6. CodeIsOwn'
    BY <1>0, <1>00, <1>2, <2>0 DEF CodeIsOwn, FlowIsPlaced, CodeSteps, ReplyTyped
  <2> QED  BY <2>0, <2>1, <2>3, <2>4, <2>5, <2>6 DEF Consent
<1>3. CASE JoinListener
  <2> USE DEF JoinListener
  <2>0. /\ flow' \in FlowRecords /\ flow'.at \in {"return", "exchange"} /\ flow'.id = flow.id
        /\ flow'.server = flow.server /\ flow'.code = flow.code
        /\ flow'.at = "exchange" => flow.code # 0
    BY <1>0, <1>3, FlowGoes
  <2>1. LaneTyped'
    BY <1>0, <1>000, <1>3 DEF LaneTyped, FlowIsPlaced
  <2>3. ReplyTyped'
    BY <1>0, <1>00, OAuthBounds, <1>3 DEF ReplyTyped, FlowIsPlaced
  <2>4. BundlesTyped' /\ BundlesAreEarned'
    BY <1>0, <1>00, OAuthBounds, <1>3, <2>0
    DEF BundlesTyped, BundlesAreEarned, FlowIsPlaced, CodeIsOwn
  <2>5. FlowIsPlaced'
    BY <1>0, <1>00, <1>000, <1>3, <2>0 DEF FlowIsPlaced
  <2>6. CodeIsOwn'
    BY <1>0, <1>00, <1>3, <2>0 DEF CodeIsOwn, FlowIsPlaced, CodeSteps, ReplyTyped
  <2> QED  BY <2>0, <2>1, <2>3, <2>4, <2>5, <2>6 DEF Consent
<1> QED  BY <1>1, <1>2, <1>3

\* The exchange of the code, and the polling of a device flow.
LEMMA ConsentGrants ==
  ASSUME Consent,
         request_token \/ device_code_flow \/ sleep_or_cancel \/ poll_device_token
  PROVE  Consent'
<1>0. /\ LaneTyped /\ flow \in FlowRecords /\ ReplyTyped /\ BundlesTyped
      /\ FlowIsPlaced /\ CodeIsOwn /\ BundlesAreEarned
  BY DEF Consent
<1>00. /\ flow.id \in Nat /\ flow.id <= MaxFlows
       /\ flow.polls \in Nat /\ flow.pause \in Nat /\ flow.left \in Nat
       /\ flow.polls <= MaxDevicePolls /\ flow.pause <= MaxPause /\ flow.left <= Lifetime
  BY <1>0, FlowNumbers
<1>000. flow.server \in OAuthServers \union {""}
  BY <1>0, FlowFields
<1> USE DEF At, Go
<1>1. CASE request_token
  <2> USE DEF request_token, finish_token_attempt, post_token_form, dpop_nonce, token_bundle
  <2>a. 1 \in 0..2 /\ 2 \in 0..2 /\ 1..2 = {1, 2}
    OBVIOUS
  <2>0. /\ flow' \in FlowRecords /\ flow'.at \in {"return", "again"} /\ flow'.id = flow.id
        /\ flow'.server = flow.server /\ flow'.code = flow.code
        /\ flow'.at = "again" => bundles' = bundles
    BY <1>0, <1>1, <2>a DEF FlowRecords
  <2>1. LaneTyped'
    BY <1>0, <1>000, <1>1 DEF LaneTyped, FlowIsPlaced
  <2>3. ReplyTyped'
    BY <1>0, <1>00, OAuthBounds, <1>1 DEF ReplyTyped, FlowIsPlaced
  <2>4. BundlesTyped' /\ BundlesAreEarned'
    BY <1>0, <1>00, OAuthBounds, <1>1, <2>0
    DEF BundlesTyped, BundlesAreEarned, FlowIsPlaced, CodeIsOwn
  <2>5. FlowIsPlaced'
    BY <1>0, <1>00, <1>000, <1>1, <2>0 DEF FlowIsPlaced
  <2>6. CodeIsOwn'
    BY <1>0, <1>00, <1>1, <2>0 DEF CodeIsOwn, FlowIsPlaced, CodeSteps, ReplyTyped
  <2> QED  BY <2>0, <2>1, <2>3, <2>4, <2>5, <2>6 DEF Consent
<1>2. CASE device_code_flow
  <2> USE DEF device_code_flow, request_device_authorization
  <2>a. /\ \A life \in 1..Lifetime : life \in 0..Lifetime
        /\ \A pause \in 1..MaxPause : pause \in 0..MaxPause
    <3>1. \A life \in 1..Lifetime : life \in 0..Lifetime
      BY OAuthBounds, Within
    <3>2. \A pause \in 1..MaxPause : pause \in 0..MaxPause
      BY OAuthBounds, Within
    <3> QED  BY <3>1, <3>2
  <2>0. /\ flow' \in FlowRecords /\ flow'.at \in {"return", "poll"} /\ flow'.id = flow.id
        /\ flow'.server = flow.server /\ flow'.code = flow.code
    BY <1>0, <1>2, <2>a DEF FlowRecords
  <2>1. LaneTyped'
    BY <1>0, <1>000, <1>2 DEF LaneTyped, FlowIsPlaced
  <2>3. ReplyTyped'
    BY <1>0, <1>00, OAuthBounds, <1>2 DEF ReplyTyped, FlowIsPlaced
  <2>4. BundlesTyped' /\ BundlesAreEarned'
    BY <1>0, <1>00, OAuthBounds, <1>2, <2>0
    DEF BundlesTyped, BundlesAreEarned, FlowIsPlaced, CodeIsOwn
  <2>5. FlowIsPlaced'
    BY <1>0, <1>00, <1>000, <1>2, <2>0 DEF FlowIsPlaced
  <2>6. CodeIsOwn'
    BY <1>0, <1>00, <1>2, <2>0 DEF CodeIsOwn, FlowIsPlaced, CodeSteps, ReplyTyped
  <2> QED  BY <2>0, <2>1, <2>3, <2>4, <2>5, <2>6 DEF Consent
<1>3. CASE sleep_or_cancel
  <2> USE DEF sleep_or_cancel, is_cancelled
  <2>a. flow.left - Least2(flow.pause, flow.left) \in 0..Lifetime
    BY <1>00, OAuthBounds DEF Least2
  <2>0. /\ flow' \in FlowRecords /\ flow'.at \in {"return", "ask"} /\ flow'.id = flow.id
        /\ flow'.server = flow.server /\ flow'.code = flow.code /\ flow'.polls = flow.polls
        /\ flow'.at = "ask" => ~(flow.polls >= MaxDevicePolls)
    BY <1>0, <1>3, <2>a DEF FlowRecords
  <2>1. LaneTyped'
    BY <1>0, <1>000, <1>3 DEF LaneTyped, FlowIsPlaced
  <2>3. ReplyTyped'
    BY <1>0, <1>00, OAuthBounds, <1>3 DEF ReplyTyped, FlowIsPlaced
  <2>4. BundlesTyped' /\ BundlesAreEarned'
    BY <1>0, <1>00, OAuthBounds, <1>3, <2>0
    DEF BundlesTyped, BundlesAreEarned, FlowIsPlaced, CodeIsOwn
  <2>5. FlowIsPlaced'
    <3>1. flow'.at = "ask" => flow'.polls < MaxDevicePolls
      BY <1>00, <2>0, OAuthBounds
    <3> QED  BY <1>0, <1>3, <1>000, <2>0, <3>1 DEF FlowIsPlaced
  <2>6. CodeIsOwn'
    BY <1>0, <1>00, <1>3, <2>0 DEF CodeIsOwn, FlowIsPlaced, CodeSteps, ReplyTyped
  <2> QED  BY <2>0, <2>1, <2>3, <2>4, <2>5, <2>6 DEF Consent
<1>4. CASE poll_device_token
  <2> USE DEF poll_device_token, finish_token_attempt, post_token_form, dpop_nonce,
              token_bundle, is_cancelled
  <2>a. 1 \in 0..2 /\ 2 \in 0..2 /\ 1..2 = {1, 2}
    OBVIOUS
  <2>b. /\ flow.polls + 1 \in 0..MaxDevicePolls
        /\ flow.pause \in 0..MaxPause /\ Least2(flow.pause + 1, MaxPause) \in 0..MaxPause
    BY <1>0, <1>00, <1>4, OAuthBounds DEF Least2, FlowIsPlaced
  <2>0. /\ flow' \in FlowRecords /\ flow'.at \in {"return", "poll", "asked"} /\ flow'.id = flow.id
        /\ flow'.server = flow.server /\ flow'.code = flow.code
        /\ flow'.at = "asked" => flow'.polls = flow.polls
        /\ flow'.at # "return" => bundles' = bundles
    <3>1. CASE \E pause \in {flow.pause, Least2(flow.pause + 1, MaxPause)} :
                 /\ flow' = [flow EXCEPT !.at = "poll", !.polls = @ + 1, !.pause = pause]
                 /\ UNCHANGED bundles
      <4>1. PICK pause \in {flow.pause, Least2(flow.pause + 1, MaxPause)} :
              flow' = [flow EXCEPT !.at = "poll", !.polls = flow.polls + 1, !.pause = pause]
        BY <3>1
      <4>2. pause \in 0..MaxPause
        BY <2>b
      <4> QED  BY <1>0, <3>1, <4>1, <4>2, <2>b DEF FlowRecords
    <3>2. CASE At("ask") /\ \E n \in 1..2 : post_token_form(n, "asked")
      BY <1>0, <3>2, <2>a DEF FlowRecords
    <3>3. CASE flow' = [flow EXCEPT !.at = "return"]
      BY <1>0, <3>3 DEF FlowRecords
    <3> QED  BY <1>4, <3>1, <3>2, <3>3
  <2>1. LaneTyped'
    BY <1>0, <1>000, <1>4 DEF LaneTyped, FlowIsPlaced
  <2>3. ReplyTyped'
    BY <1>0, <1>00, OAuthBounds, <1>4 DEF ReplyTyped, FlowIsPlaced
  <2>4. BundlesTyped' /\ BundlesAreEarned'
    BY <1>0, <1>00, OAuthBounds, <1>4, <2>0
    DEF BundlesTyped, BundlesAreEarned, FlowIsPlaced, CodeIsOwn
  <2>5. FlowIsPlaced'
    BY <1>0, <1>00, <1>000, <1>4, <2>0 DEF FlowIsPlaced
  <2>6. CodeIsOwn'
    BY <1>0, <1>00, <1>4, <2>0 DEF CodeIsOwn, FlowIsPlaced, CodeSteps, ReplyTyped
  <2> QED  BY <2>0, <2>1, <2>3, <2>4, <2>5, <2>6 DEF Consent
<1> QED  BY <1>1, <1>2, <1>3, <1>4

\* What a step of other components leaves.
LEMMA ConsentStutter ==
  ASSUME Consent, UNCHANGED oauthVars
  PROVE  Consent'
  BY DEF Consent, LaneTyped, ReplyTyped, BundlesTyped, FlowIsPlaced, CodeIsOwn,
         BundlesAreEarned, oauthVars

\* Consent is an invariant of the OAuth host.
THEOREM ConsentInvariant == OAuthSpec => []Consent
<1>1. Consent /\ [OAuthNext]_oauthVars => Consent'
  BY ConsentLane, ConsentOpens, ConsentReturns, ConsentGrants, ConsentStutter DEF OAuthNext
<1> QED  BY <1>1, ConsentInit, PTL DEF OAuthSpec

\* A token is obtained only with the consent given to its own flow, and a flow gets at most
\* one (CallbackCode, wait_for_callback, finish_token_attempt), for every number of flows and
\* tabs.
THEOREM ConsentTheorem == OAuthSpec => []TokenIsConsented
<1>1. Consent => TokenIsConsented
  <2> SUFFICES ASSUME Consent, NEW b \in bundles, NEW c \in bundles
               PROVE  b.grant = b.flow /\ (b.flow = c.flow => b = c)
    BY DEF TokenIsConsented
  <2>1. b.grant = b.flow /\ c.grant = c.flow
    BY DEF Consent, BundlesAreEarned
  <2>2. /\ b \in [flow : 1..MaxFlows, grant : 1..MaxFlows]
        /\ c \in [flow : 1..MaxFlows, grant : 1..MaxFlows]
    BY DEF Consent, BundlesTyped
  <2> QED  BY <2>1, <2>2
<1> QED  BY <1>1, ConsentInvariant, PTL

\* The types of the OAuth host, for every bound.
THEOREM OAuthTyped == OAuthSpec => []OAuthTypeOK
<1>1. Consent => OAuthTypeOK
  BY DEF Consent, LaneTyped, ReplyTyped, BundlesTyped, Requests0, OAuthTypeOK
<1> QED  BY <1>1, ConsentInvariant, PTL

----------------------------------------------------------------------------
(* Credential store: the kernel's copy is the service's value *)

\* The shapes of a write at work.
WriterPlaced ==
  \/ writer = AtEase \/ writer = [at |-> "clear"]
  \/ writer \in [at : {"set", "store", "restore"}, value : Versions, previous : Values]

\* While nothing clouds the copy: outside the two calls of a write the copy is the service's
\* value or none, between them it is the new value, and what an undo would put back is
\* something the service still holds.
CopyFollows ==
  ~clouded =>
    /\ writer.at \in {"ease", "set"} => copy \in {0, service}
    /\ writer.at \in {"set", "store", "restore"} => writer.previous \in {0, service}
    /\ writer.at = "store" => copy = writer.value
    /\ writer.at = "clear" => copy = 0

ReaderPlaced ==
  reader = AtEase \/ reader = [at |-> "lookup"] \/ reader \in [at : {"refill"}, value : Values]

Mirrored == copy \in Values /\ service \in Values /\ WriterPlaced /\ ReaderPlaced /\ CopyFollows

\* An empty store mirrors the service.
LEMMA MirroredInit == CredentialStoreInit => Mirrored
<1> SUFFICES ASSUME CredentialStoreInit PROVE Mirrored
  OBVIOUS
<1>1. copy = 0 /\ service = 0 /\ writer = AtEase /\ reader = AtEase
  BY DEF CredentialStoreInit
<1>2. AtEase.at = "ease"
  BY DEF AtEase
<1> QED  BY <1>1, <1>2 DEF Mirrored, WriterPlaced, ReaderPlaced, CopyFollows, Values

\* The steps of a write, whichever call fails.
LEMMA MirroredWrite ==
  ASSUME Mirrored,
         \/ \E v \in Versions : BeginSet(v)
         \/ linux_keyutils_set \/ secret_password_store \/ restore_linux_keyutils
         \/ linux_keyutils_erase \/ secret_password_clear
  PROVE  Mirrored'
<1> USE DEF Mirrored, WriterPlaced, ReaderPlaced, CopyFollows, AtEase, Values
<1>1. CASE \E v \in Versions : BeginSet(v)
  BY <1>1 DEF BeginSet
<1>2. CASE linux_keyutils_set
  BY <1>2 DEF linux_keyutils_set
<1>3. CASE secret_password_store
  BY <1>3 DEF secret_password_store
<1>4. CASE restore_linux_keyutils
  <2>1. CASE copy' = Restored(writer.previous) /\ UNCHANGED clouded
    BY <1>4, <2>1 DEF restore_linux_keyutils, Restored
  <2>2. CASE clouded' = TRUE /\ UNCHANGED copy
    BY <1>4, <2>2 DEF restore_linux_keyutils
  <2> QED  BY <1>4, <2>1, <2>2 DEF restore_linux_keyutils
<1>5. CASE linux_keyutils_erase
  BY <1>5 DEF linux_keyutils_erase
<1>6. CASE secret_password_clear
  BY <1>6 DEF secret_password_clear
<1> QED  BY <1>1, <1>2, <1>3, <1>4, <1>5, <1>6

\* The steps of a read, which may come between those of a write, and the end of the session.
LEMMA MirroredRead ==
  ASSUME Mirrored, linux_keyutils_get \/ secret_password_lookup \/ Refill \/ SessionEnds
  PROVE  Mirrored'
<1> USE DEF Mirrored, WriterPlaced, ReaderPlaced, CopyFollows, AtEase, Values
<1>1. CASE linux_keyutils_get \/ secret_password_lookup
  BY <1>1 DEF linux_keyutils_get, secret_password_lookup
<1>2. CASE Refill
  <2>1. reader.value \in Values /\ reader' = AtEase /\ UNCHANGED <<service, writer>>
    BY <1>2 DEF Refill
  <2>2. CASE UNCHANGED <<copy, clouded>>
    BY <2>1, <2>2
  <2>3. CASE copy' = reader.value /\ clouded' = (clouded \/ Overtaken)
    <3>1. ~clouded' => ~clouded /\ reader.value = service /\ writer.at \notin {"store", "clear"}
      BY <2>3 DEF Overtaken
    <3>2. CopyFollows'
      BY <2>1, <2>3, <3>1
    <3> QED  BY <2>1, <2>3, <3>2
  <2> QED  BY <1>2, <2>2, <2>3 DEF Refill
<1>3. CASE SessionEnds
  BY <1>3 DEF SessionEnds
<1> QED  BY <1>1, <1>2, <1>3

\* What a step of other components leaves.
LEMMA MirroredStutter ==
  ASSUME Mirrored, UNCHANGED storeVars
  PROVE  Mirrored'
  BY DEF Mirrored, WriterPlaced, ReaderPlaced, CopyFollows, storeVars

\* Mirrored is an invariant of the credential store.
THEOREM MirroredInvariant == CredentialStoreSpec => []Mirrored
<1>1. Mirrored /\ [CredentialStoreNext]_storeVars => Mirrored'
  BY MirroredWrite, MirroredRead, MirroredStutter DEF CredentialStoreNext
<1> QED  BY <1>1, MirroredInit, PTL DEF CredentialStoreSpec

\* With no write under way the copy a read trusts is the value of the service, after every
\* sequence of refused writes, undone writes, erasures and reads between their steps
\* (secret_password_store, restore_linux_keyutils, Refill), for every set of values.
THEOREM CopyTheorem == CredentialStoreSpec => []CopyIsTruthful
<1>1. Mirrored => CopyIsTruthful
  BY DEF Mirrored, CopyFollows, CopyIsTruthful, AtEase
<1> QED  BY <1>1, MirroredInvariant, PTL

----------------------------------------------------------------------------
(* Terminal sessions: slots cover processes, and no question outlives its session *)

Hands == {Free} \union [at : {"spawn", "register", "stop", "poll", "block", "join", "forget"},
                        t : Terminals]

SessionsTyped ==
  /\ tracked \in [Terminals -> {"none", "open", "gone"}]
  /\ child \in [Terminals -> {"none", "running", "zombie", "reaped"}]
  /\ pid \in [Terminals -> BOOLEAN]
  /\ readerAt \in [Terminals -> {"none", "read", "prompt", "wait", "tell", "done"}]
  /\ hands \in [Lanes -> Hands]
  /\ slotHeld \in [Terminals -> BOOLEAN]
  /\ \A q \in challenges : q.session \in Terminals

\* The sessions that hold a slot.
Holders == {t \in Terminals : slotHeld[t]}

\* The counter is the number of slots held, and a process that exists holds one.
SlotsAreHeld ==
  /\ live = Cardinality(Holders)
  /\ \A t \in Terminals : child[t] \in {"running", "zombie"} => slotHeld[t]

\* Where a lane's hand on a session finds it: before the process there is none, a session being
\* stopped is out of the map, and past the wait its process is reaped.  A field without an id
\* means a process that is not there, and a slot of a session not yet in the map is that of the
\* session being opened.
Grip(l) ==
  /\ hands[l].at = "spawn" =>
       child[hands[l].t] = "none" /\ slotHeld[hands[l].t] /\ tracked[hands[l].t] = "none"
  /\ hands[l].at = "register" => tracked[hands[l].t] = "none"
  /\ hands[l].at \in {"stop", "poll", "block", "join", "forget"} => tracked[hands[l].t] = "gone"
  /\ hands[l].at \in {"join", "forget"} => child[hands[l].t] \notin {"running", "zombie"}
HandsAreSure ==
  /\ \A l \in Lanes : Grip(l)
  /\ hands["control"].at \notin {"spawn", "register"}
  /\ \A t \in Terminals : ~pid[t] => child[t] \notin {"running", "zombie"}
  /\ \A t \in Terminals : slotHeld[t] /\ tracked[t] = "none" =>
       hands["background"].at \in {"spawn", "register"} /\ hands["background"].t = t

\* A lane stops the session, with its reader still to be joined.
Joining(t) ==
  \E l \in Lanes : hands[l].at \in {"stop", "poll", "block", "join"} /\ hands[l].t = t
\* A lane stops the session, with its questions still to be forgotten.
Stopping(t) ==
  \E l \in Lanes : hands[l].at \in {"stop", "poll", "block", "join", "forget"} /\ hands[l].t = t

\* A reader at work, and a question that waits, belong to a session in the map or being stopped.
ReadersAreKept ==
  \A t \in Terminals : readerAt[t] \notin {"none", "done"} => tracked[t] = "open" \/ Joining(t)
QuestionsAreKept ==
  \A q \in challenges : tracked[q.session] = "open" \/ Stopping(q.session)

Counted == SessionsTyped /\ SlotsAreHeld /\ HandsAreSure /\ ReadersAreKept /\ QuestionsAreKept

\* A hand that holds a session names it.
LEMMA HandFields ==
  ASSUME SessionsTyped, NEW l \in Lanes, hands[l].at # "free"
  PROVE  /\ hands[l].t \in Terminals
         /\ hands[l] \in [at : {"spawn", "register", "stop", "poll", "block", "join", "forget"},
                          t : Terminals]
<1>1. hands[l] \in Hands
  BY DEF SessionsTyped
<1>2. Free.at = "free"
  BY DEF Free
<1> QED  BY <1>1, <1>2 DEF Hands

\* A hand that goes on with its session.
LEMMA HandMoves ==
  ASSUME SessionsTyped, NEW l \in Lanes, hands[l].at # "free", NEW step,
         step \in {"stop", "poll", "block", "join", "forget"},
         hands' = [hands EXCEPT ![l].at = step]
  PROVE  /\ hands' \in [Lanes -> Hands] /\ hands'[l].at = step /\ hands'[l].t = hands[l].t
         /\ \A m \in Lanes \ {l} : hands'[m] = hands[m]
<1> DEFINE new == [hands[l] EXCEPT !.at = step]
<1>1. new \in [at : {"spawn", "register", "stop", "poll", "block", "join", "forget"}, t : Terminals]
      /\ new.at = step /\ new.t = hands[l].t
  BY HandFields
<1>2. hands \in [Lanes -> Hands] /\ hands' = [hands EXCEPT ![l] = new]
  BY DEF SessionsTyped
<1>3. new \in Hands
  BY <1>1 DEF Hands
<1> HIDE DEF new
<1> QED  BY <1>1, <1>2, <1>3

\* A hand that takes a session up.
LEMMA HandTakes ==
  ASSUME SessionsTyped, NEW l \in Lanes, NEW t \in Terminals, NEW step,
         step \in {"spawn", "register", "stop"},
         hands' = [hands EXCEPT ![l] = [at |-> step, t |-> t]]
  PROVE  /\ hands' \in [Lanes -> Hands] /\ hands'[l].at = step /\ hands'[l].t = t
         /\ \A m \in Lanes \ {l} : hands'[m] = hands[m]
<1> DEFINE new == [at |-> step, t |-> t]
<1>1. new \in Hands /\ new.at = step /\ new.t = t
  BY DEF Hands
<1>2. hands \in [Lanes -> Hands] /\ hands' = [hands EXCEPT ![l] = new]
  BY DEF SessionsTyped
<1> HIDE DEF new
<1> QED  BY <1>1, <1>2

\* A hand that lets go.
LEMMA HandFrees ==
  ASSUME SessionsTyped, NEW l \in Lanes, hands' = [hands EXCEPT ![l] = Free]
  PROVE  /\ hands' \in [Lanes -> Hands] /\ hands'[l].at = "free"
         /\ \A m \in Lanes \ {l} : hands'[m] = hands[m]
<1>1. Free \in Hands /\ Free.at = "free"
  BY DEF Hands, Free
<1>2. hands \in [Lanes -> Hands]
  BY DEF SessionsTyped
<1> QED  BY <1>1, <1>2

\* There are finitely many slots.
LEMMA HoldersFinite == IsFiniteSet(Holders)
<1>1. IsFiniteSet(Terminals)
  BY TerminalAssumption
<1>2. Holders \in SUBSET Terminals
  BY DEF Holders
<1> HIDE DEF Holders
<1> QED  BY <1>1, <1>2, FS_Subset

\* release_session_slot counts a slot once.
LEMMA Releases ==
  ASSUME SessionsTyped, SlotsAreHeld, NEW t \in Terminals, Release(t)
  PROVE  /\ live' = Cardinality(Holders') /\ slotHeld' \in [Terminals -> BOOLEAN]
         /\ \A u \in Terminals \ {t} : slotHeld'[u] = slotHeld[u]
<1>1. IsFiniteSet(Holders)
  BY HoldersFinite
<1>2. Holders' = Holders \ {t}
  BY DEF Holders, Release, SessionsTyped
<1>3. Cardinality(Holders \ {t}) = IF t \in Holders THEN Cardinality(Holders) - 1
                                   ELSE Cardinality(Holders)
  BY <1>1, FS_RemoveElement
<1>4. slotHeld[t] <=> t \in Holders
  BY DEF Holders
<1>5. live' = IF t \in Holders THEN live - 1 ELSE live
  BY <1>4 DEF Release
<1>6. live = Cardinality(Holders)
  BY DEF SlotsAreHeld
<1>7. slotHeld' \in [Terminals -> BOOLEAN] /\ \A u \in Terminals \ {t} : slotHeld'[u] = slotHeld[u]
  BY DEF Release, SessionsTyped
<1> QED  BY <1>2, <1>3, <1>5, <1>6, <1>7

\* Both lanes.
LEMMA LanesAre == Lanes = {"background", "control"} /\ Free.at = "free"
  BY DEF Lanes, Free

\* No session is open when the host starts.
LEMMA CountedInit == TerminalInit => Counted
<1> SUFFICES ASSUME TerminalInit PROVE Counted
  OBVIOUS
<1>1. SessionsTyped
  BY DEF TerminalInit, SessionsTyped, Hands
<1>2. SlotsAreHeld
  <2>1. Holders = {}
    BY DEF TerminalInit, Holders
  <2> QED  BY <2>1, FS_EmptySet DEF TerminalInit, SlotsAreHeld
<1>3. \A l \in Lanes : hands[l].at = "free"
  BY LanesAre DEF TerminalInit
<1>4. HandsAreSure /\ ReadersAreKept /\ QuestionsAreKept
  BY <1>3, LanesAre DEF TerminalInit, HandsAreSure, Grip, ReadersAreKept, QuestionsAreKept
<1> QED  BY <1>1, <1>2, <1>4 DEF Counted

\* A slot is claimed before there is a process, and only for a session that holds none.
LEMMA CountedClaim ==
  ASSUME Counted, NEW t \in Terminals, ClaimSlot(t)
  PROVE  Counted'
<1>1. /\ hands["background"] = Free /\ tracked[t] = "none" /\ child[t] = "none"
      /\ live' = live + 1 /\ slotHeld' = [slotHeld EXCEPT ![t] = TRUE]
      /\ hands' = [hands EXCEPT !["background"] = [at |-> "spawn", t |-> t]]
      /\ UNCHANGED <<tracked, child, pid, readerAt, challenges>>
  BY DEF ClaimSlot
<1>2. SessionsTyped /\ SlotsAreHeld /\ HandsAreSure /\ ReadersAreKept /\ QuestionsAreKept
  BY DEF Counted
<1>3. /\ hands' \in [Lanes -> Hands] /\ hands'["background"].at = "spawn"
      /\ hands'["background"].t = t /\ \A m \in Lanes \ {"background"} : hands'[m] = hands[m]
  BY <1>1, <1>2, LanesAre, HandTakes
<1>4. ~slotHeld[t] /\ hands["background"].at = "free"
  BY <1>1, <1>2, LanesAre DEF HandsAreSure
<1>5. SessionsTyped'
  BY <1>1, <1>2, <1>3 DEF SessionsTyped
<1>6. SlotsAreHeld'
  <2>1. Holders' = Holders \union {t} /\ t \notin Holders
    BY <1>1, <1>2, <1>4 DEF Holders, SessionsTyped
  <2>2. IsFiniteSet(Holders)
    BY HoldersFinite
  <2>3. Cardinality(Holders') = Cardinality(Holders) + 1
    BY <2>1, <2>2, FS_AddElement
  <2> QED  BY <1>1, <1>2, <2>3 DEF SlotsAreHeld, SessionsTyped
<1>7. HandsAreSure'
  <2>1. slotHeld'[t] /\ \A u \in Terminals \ {t} : slotHeld'[u] = slotHeld[u]
    BY <1>1, <1>2 DEF SessionsTyped
  <2>2. Grip("background")' /\ Grip("control")'
    BY <1>1, <1>2, <1>3, <2>1, LanesAre DEF Grip, HandsAreSure
  <2>3. \A u \in Terminals : slotHeld'[u] /\ tracked'[u] = "none" => u = t
    BY <1>1, <1>2, <1>4, <2>1 DEF HandsAreSure
  <2> QED  BY <1>1, <1>2, <1>3, <2>2, <2>3, LanesAre DEF HandsAreSure
<1>8. ReadersAreKept' /\ QuestionsAreKept'
  BY <1>1, <1>2, <1>3, <1>4, LanesAre DEF ReadersAreKept, QuestionsAreKept, Joining, Stopping
<1> QED  BY <1>5, <1>6, <1>7, <1>8 DEF Counted

\* A session that could not be started gives its slot back; one that was holds it.
LEMMA CountedSpawn ==
  ASSUME Counted, spawn
  PROVE  Counted'
<1> DEFINE t == hands["background"].t
<1>1. SessionsTyped /\ SlotsAreHeld /\ HandsAreSure /\ ReadersAreKept /\ QuestionsAreKept
  BY DEF Counted
<1>2. hands["background"].at = "spawn" /\ UNCHANGED <<readerAt, challenges>>
  BY DEF spawn
<1>3. t \in Terminals /\ child[t] = "none" /\ slotHeld[t] /\ tracked[t] = "none"
  BY <1>1, <1>2, LanesAre, HandFields DEF HandsAreSure, Grip
<1>4. hands["control"].at \in {"stop", "poll", "block", "join", "forget"} => hands["control"].t # t
  BY <1>1, <1>3, LanesAre DEF HandsAreSure, Grip
<1>5. CASE /\ child' = [child EXCEPT ![t] = "running"] /\ pid' = [pid EXCEPT ![t] = TRUE]
           /\ hands' = [hands EXCEPT !["background"] = [at |-> "register", t |-> t]]
           /\ UNCHANGED <<tracked, slotHeld, live>>
  <2> HIDE DEF t
  <2>1. /\ hands' \in [Lanes -> Hands] /\ hands'["background"].at = "register"
        /\ hands'["background"].t = t /\ hands'["control"] = hands["control"]
    BY <1>1, <1>3, <1>5, LanesAre, HandTakes
  <2>2. SessionsTyped'
    BY <1>1, <1>2, <1>5, <2>1 DEF SessionsTyped
  <2>3. /\ child'[t] = "running" /\ pid'[t]
        /\ \A u \in Terminals \ {t} : child'[u] = child[u] /\ pid'[u] = pid[u]
    BY <1>1, <1>3, <1>5 DEF SessionsTyped
  <2>4. SlotsAreHeld'
    <3>1. Holders' = Holders
      BY <1>5 DEF Holders
    <3> QED  BY <1>1, <1>3, <1>5, <2>3, <3>1 DEF SlotsAreHeld
  <2>5. Grip("background")'
    BY <1>3, <1>5, <2>1 DEF Grip
  <2>6. Grip("control")'
    <3>1. Grip("control") /\ hands["control"].at \notin {"spawn", "register"}
      BY <1>1, LanesAre DEF HandsAreSure
    <3>2. hands["control"].at # "free" => hands["control"].t \in Terminals
      BY <1>1, LanesAre, HandFields
    <3> QED  BY <1>4, <1>5, <2>1, <2>3, <3>1, <3>2 DEF Grip
  <2>7. HandsAreSure'
    BY <1>1, <1>2, <1>3, <1>5, <2>1, <2>3, <2>5, <2>6, LanesAre DEF HandsAreSure, t
  <2>8. ReadersAreKept' /\ QuestionsAreKept'
    BY <1>1, <1>2, <1>5, <2>1, LanesAre DEF ReadersAreKept, QuestionsAreKept, Joining, Stopping
  <2> QED  BY <2>2, <2>4, <2>7, <2>8 DEF Counted
<1>6. CASE /\ Release(t) /\ hands' = [hands EXCEPT !["background"] = Free]
           /\ tracked' = [tracked EXCEPT ![t] = "gone"] /\ UNCHANGED <<child, pid>>
  <2> HIDE DEF t
  <2>1. /\ hands' \in [Lanes -> Hands] /\ hands'["background"].at = "free"
        /\ hands'["control"] = hands["control"]
    BY <1>1, <1>6, LanesAre, HandFrees
  <2>2. /\ live' = Cardinality(Holders') /\ slotHeld' \in [Terminals -> BOOLEAN]
        /\ \A u \in Terminals \ {t} : slotHeld'[u] = slotHeld[u]
    BY <1>1, <1>3, <1>6, Releases
  <2>3. /\ tracked' \in [Terminals -> {"none", "open", "gone"}] /\ tracked'[t] = "gone"
        /\ \A u \in Terminals \ {t} : tracked'[u] = tracked[u]
    BY <1>1, <1>3, <1>6 DEF SessionsTyped
  <2>4. SessionsTyped'
    BY <1>1, <1>2, <1>6, <2>1, <2>2, <2>3 DEF SessionsTyped
  <2>5. SlotsAreHeld'
    BY <1>1, <1>3, <1>6, <2>2 DEF SlotsAreHeld
  <2>6. Grip("background")'
    BY <2>1 DEF Grip
  <2>7. Grip("control")'
    <3>1. Grip("control") /\ hands["control"].at \notin {"spawn", "register"}
      BY <1>1, LanesAre DEF HandsAreSure
    <3>2. hands["control"].at # "free" => hands["control"].t \in Terminals
      BY <1>1, LanesAre, HandFields
    <3> QED  BY <1>4, <1>6, <2>1, <2>3, <3>1, <3>2 DEF Grip
  <2>8. HandsAreSure'
    <3>1. \A u \in Terminals : ~(slotHeld'[u] /\ tracked'[u] = "none")
      BY <1>1, <1>2, <2>2, <2>3 DEF HandsAreSure, t
    <3> QED  BY <1>1, <1>6, <2>1, <2>6, <2>7, <3>1, LanesAre DEF HandsAreSure
  <2>9. ReadersAreKept' /\ QuestionsAreKept'
    BY <1>1, <1>2, <1>3, <2>1, <2>3, LanesAre
    DEF ReadersAreKept, QuestionsAreKept, Joining, Stopping, SessionsTyped
  <2> QED  BY <2>4, <2>5, <2>8, <2>9 DEF Counted
<1> QED  BY <1>5, <1>6 DEF spawn

\* A session enters the map with its reader, or is stopped at once.
LEMMA CountedRegistered ==
  ASSUME Counted, Registered
  PROVE  Counted'
<1> DEFINE t == hands["background"].t
<1>1. SessionsTyped /\ SlotsAreHeld /\ HandsAreSure /\ ReadersAreKept /\ QuestionsAreKept
  BY DEF Counted
<1>2. hands["background"].at = "register" /\ UNCHANGED <<child, pid, slotHeld, live, challenges>>
  BY DEF Registered
<1>3. t \in Terminals /\ tracked[t] = "none"
  BY <1>1, <1>2, LanesAre, HandFields DEF HandsAreSure, Grip
<1>4. hands["control"].at \in {"stop", "poll", "block", "join", "forget"} => hands["control"].t # t
  BY <1>1, <1>3, LanesAre DEF HandsAreSure, Grip
<1>5. SlotsAreHeld'
  BY <1>1, <1>2 DEF SlotsAreHeld, Holders
<1>6. /\ tracked' \in [Terminals -> {"none", "open", "gone"}] /\ tracked'[t] \in {"open", "gone"}
      /\ \A u \in Terminals \ {t} : tracked'[u] = tracked[u]
  BY <1>1, <1>3 DEF Registered, SessionsTyped
<1>7. /\ hands' \in [Lanes -> Hands] /\ hands'["control"] = hands["control"]
      /\ \/ hands'["background"].at = "free" /\ tracked'[t] = "open"
            /\ readerAt' = [readerAt EXCEPT ![t] = "read"]
         \/ hands'["background"].at = "stop" /\ hands'["background"].t = t /\ tracked'[t] = "gone"
            /\ readerAt' = readerAt
  <2>1. CASE /\ tracked' = [tracked EXCEPT ![t] = "open"]
             /\ readerAt' = [readerAt EXCEPT ![t] = "read"]
             /\ hands' = [hands EXCEPT !["background"] = Free]
    <3> HIDE DEF t
    <3>1. /\ hands' \in [Lanes -> Hands] /\ hands'["background"].at = "free"
          /\ hands'["control"] = hands["control"]
      BY <1>1, <2>1, LanesAre, HandFrees
    <3> QED  BY <1>1, <1>3, <2>1, <3>1 DEF SessionsTyped
  <2>2. CASE /\ tracked' = [tracked EXCEPT ![t] = "gone"]
             /\ hands' = [hands EXCEPT !["background"] = [at |-> "stop", t |-> t]]
             /\ UNCHANGED readerAt
    <3> HIDE DEF t
    <3>1. /\ hands' \in [Lanes -> Hands] /\ hands'["background"].at = "stop"
          /\ hands'["background"].t = t /\ hands'["control"] = hands["control"]
      BY <1>1, <1>3, <2>2, LanesAre, HandTakes
    <3> QED  BY <1>1, <1>3, <2>2, <3>1 DEF SessionsTyped
  <2> QED  BY <2>1, <2>2 DEF Registered
<1> HIDE DEF t
<1>8. SessionsTyped'
  BY <1>1, <1>2, <1>3, <1>6, <1>7 DEF SessionsTyped
<1>9. HandsAreSure'
  <2>1. Grip("background")'
    BY <1>7 DEF Grip
  <2>2. Grip("control")'
    <3>1. Grip("control") /\ hands["control"].at \notin {"spawn", "register"}
      BY <1>1, LanesAre DEF HandsAreSure
    <3>2. hands["control"].at # "free" => hands["control"].t \in Terminals
      BY <1>1, LanesAre, HandFields
    <3> QED  BY <1>2, <1>4, <1>6, <1>7, <3>1, <3>2 DEF Grip
  <2>3. \A u \in Terminals : ~(slotHeld'[u] /\ tracked'[u] = "none")
    BY <1>1, <1>2, <1>6 DEF HandsAreSure, t
  <2> QED  BY <1>1, <1>2, <1>7, <2>1, <2>2, <2>3, LanesAre DEF HandsAreSure
<1>10. ReadersAreKept' /\ QuestionsAreKept'
  BY <1>1, <1>2, <1>3, <1>6, <1>7, LanesAre
  DEF ReadersAreKept, QuestionsAreKept, Joining, Stopping, SessionsTyped
<1> QED  BY <1>5, <1>8, <1>9, <1>10 DEF Counted

\* The child's own steps: frames and prompts are nobody's state here, and a child that exits
\* keeps its slot.
LEMMA CountedChild ==
  ASSUME Counted, NEW t \in Terminals, (\E frame \in {"prompt", "closed"} : ChildSays(t, frame)) \/ ChildExits(t)
  PROVE  Counted'
<1>1. SessionsTyped /\ SlotsAreHeld /\ HandsAreSure /\ ReadersAreKept /\ QuestionsAreKept
  BY DEF Counted
<1>2. /\ UNCHANGED <<tracked, pid, readerAt, hands, slotHeld, live, challenges>>
      /\ child' \in [Terminals -> {"none", "running", "zombie", "reaped"}]
      /\ \A u \in Terminals : child'[u] = child[u] \/ (child[u] = "running" /\ child'[u] = "zombie")
  BY <1>1 DEF ChildSays, ChildExits, SessionsTyped
<1>3. SessionsTyped'
  BY <1>1, <1>2 DEF SessionsTyped
<1>4. SlotsAreHeld'
  BY <1>1, <1>2 DEF SlotsAreHeld, Holders
<1>5. \A l \in Lanes : Grip(l)'
  <2> SUFFICES ASSUME NEW l \in Lanes PROVE Grip(l)'
    OBVIOUS
  <2>1. Grip(l) /\ (hands[l].at # "free" => hands[l].t \in Terminals)
    BY <1>1, HandFields DEF HandsAreSure
  <2> QED  BY <1>2, <2>1 DEF Grip
<1>6. HandsAreSure'
  BY <1>1, <1>2, <1>5 DEF HandsAreSure
<1>7. ReadersAreKept' /\ QuestionsAreKept'
  BY <1>1, <1>2 DEF ReadersAreKept, QuestionsAreKept, Joining, Stopping
<1> QED  BY <1>3, <1>4, <1>6, <1>7 DEF Counted

\* The reader's steps on frames: its place changes, and a question is put for a session whose
\* reader has not been joined.
LEMMA CountedReader ==
  ASSUME Counted, NEW t \in Terminals,
         handle_frame(t) \/ BeginChallenge(t) \/ ReaderWaits(t) \/ ReaderTells(t)
  PROVE  Counted'
<1>1. SessionsTyped /\ SlotsAreHeld /\ HandsAreSure /\ ReadersAreKept /\ QuestionsAreKept
  BY DEF Counted
<1>2. /\ UNCHANGED <<tracked, child, pid, hands, slotHeld, live>>
      /\ readerAt' \in [Terminals -> {"none", "read", "prompt", "wait", "tell", "done"}]
      /\ \A u \in Terminals : readerAt'[u] \notin {"none", "done"} => readerAt[u] \notin {"none", "done"}
  BY <1>1 DEF handle_frame, BeginChallenge, ReaderWaits, ReaderTells, SessionsTyped
<1>3. \A q \in challenges' : q \in challenges \/ (q.session = t /\ readerAt[t] = "prompt")
  BY DEF handle_frame, BeginChallenge, ReaderWaits, ReaderTells
<1>4. SessionsTyped'
  BY <1>1, <1>2, <1>3 DEF SessionsTyped
<1>5. SlotsAreHeld' /\ HandsAreSure'
  BY <1>1, <1>2 DEF SlotsAreHeld, Holders, HandsAreSure, Grip
<1>6. ReadersAreKept'
  BY <1>1, <1>2 DEF ReadersAreKept, Joining
<1>7. QuestionsAreKept'
  <2>1. readerAt[t] = "prompt" => tracked[t] = "open" \/ Stopping(t)
    BY <1>1 DEF ReadersAreKept, Joining, Stopping
  <2>2. \A u \in Terminals : Stopping(u) <=> Stopping(u)'
    BY <1>2 DEF Stopping
  <2> QED  BY <1>1, <1>2, <1>3, <2>1, <2>2 DEF QuestionsAreKept, SessionsTyped
<1> QED  BY <1>4, <1>5, <1>6, <1>7 DEF Counted

\* The reader waits for the process: it gives the slot back only of a process that is reaped.
LEMMA CountedReaps ==
  ASSUME Counted, NEW t \in Terminals, ReaderReaps(t)
  PROVE  Counted'
<1>1. SessionsTyped /\ SlotsAreHeld /\ HandsAreSure /\ ReadersAreKept /\ QuestionsAreKept
  BY DEF Counted
<1>2. /\ readerAt[t] = "wait" /\ readerAt' = [readerAt EXCEPT ![t] = "tell"]
      /\ UNCHANGED <<tracked, hands, challenges>>
  BY DEF ReaderReaps
<1>3. /\ child' \in [Terminals -> {"none", "running", "zombie", "reaped"}]
      /\ pid' \in [Terminals -> BOOLEAN]
      /\ child'[t] = "reaped" /\ (pid[t] = FALSE => pid'[t] = FALSE)
      /\ \A u \in Terminals \ {t} : child'[u] = child[u] /\ pid'[u] = pid[u]
  BY <1>1 DEF ReaderReaps, SessionsTyped
<1>4. /\ live' = Cardinality(Holders') /\ slotHeld' \in [Terminals -> BOOLEAN]
      /\ \A u \in Terminals \ {t} : slotHeld'[u] = slotHeld[u]
      /\ slotHeld'[t] => slotHeld[t]
  <2>1. CASE Release(t)
    <3>1. ~slotHeld'[t]
      BY <1>1, <2>1 DEF Release, SessionsTyped
    <3> QED  BY <1>1, <2>1, <3>1, Releases
  <2>2. CASE UNCHANGED <<slotHeld, live>>
    BY <1>1, <2>2 DEF SlotsAreHeld, SessionsTyped, Holders
  <2> QED  BY <2>1, <2>2 DEF ReaderReaps
<1>5. SessionsTyped'
  BY <1>1, <1>2, <1>3, <1>4 DEF SessionsTyped
<1>6. SlotsAreHeld'
  BY <1>1, <1>3, <1>4 DEF SlotsAreHeld
<1>7. HandsAreSure'
  <2>1. \A l \in Lanes : Grip(l)'
    <3> SUFFICES ASSUME NEW l \in Lanes PROVE Grip(l)'
      OBVIOUS
    <3>1. Grip(l) /\ (hands[l].at # "free" => hands[l].t \in Terminals)
      BY <1>1, HandFields DEF HandsAreSure
    <3>2. hands[l].at = "spawn" => hands[l].t # t
      BY <1>1, <1>2, <3>1 DEF ReadersAreKept, Grip, Joining, HandsAreSure
    <3> QED  BY <1>2, <1>3, <1>4, <3>1, <3>2 DEF Grip
  <2> QED  BY <1>1, <1>2, <1>3, <1>4, <2>1 DEF HandsAreSure
<1>8. ReadersAreKept' /\ QuestionsAreKept'
  BY <1>1, <1>2 DEF ReadersAreKept, QuestionsAreKept, Joining, Stopping, SessionsTyped
<1> QED  BY <1>5, <1>6, <1>7, <1>8 DEF Counted

\* Whoever closes a session takes it out of the map and stops it.
LEMMA CountedClose ==
  ASSUME Counted, NEW l \in Lanes, NEW t \in Terminals, Close(l, t),
         UNCHANGED <<child, pid, readerAt, slotHeld, live>>, challenges' \subseteq challenges
  PROVE  Counted'
<1>1. SessionsTyped /\ SlotsAreHeld /\ HandsAreSure /\ ReadersAreKept /\ QuestionsAreKept
  BY DEF Counted
<1>2. /\ hands[l] = Free /\ tracked[t] = "open" /\ tracked' = [tracked EXCEPT ![t] = "gone"]
      /\ hands' = [hands EXCEPT ![l] = [at |-> "stop", t |-> t]]
  BY DEF Close
<1>3. /\ hands' \in [Lanes -> Hands] /\ hands'[l].at = "stop" /\ hands'[l].t = t
      /\ \A m \in Lanes \ {l} : hands'[m] = hands[m]
  BY <1>1, <1>2, HandTakes
<1>4. /\ tracked' \in [Terminals -> {"none", "open", "gone"}] /\ tracked'[t] = "gone"
      /\ \A u \in Terminals \ {t} : tracked'[u] = tracked[u]
  BY <1>1, <1>2 DEF SessionsTyped
<1>5. SessionsTyped'
  BY <1>1, <1>3, <1>4 DEF SessionsTyped
<1>6. SlotsAreHeld'
  BY <1>1 DEF SlotsAreHeld, Holders
<1>7. hands[l].at = "free"
  BY <1>2, LanesAre
<1>8. HandsAreSure'
  <2>1. \A m \in Lanes : Grip(m)'
    <3> SUFFICES ASSUME NEW m \in Lanes PROVE Grip(m)'
      OBVIOUS
    <3>1. Grip(m) /\ (hands[m].at # "free" => hands[m].t \in Terminals)
      BY <1>1, HandFields DEF HandsAreSure
    <3>2. CASE m = l
      BY <1>3, <1>4, <3>2 DEF Grip
    <3>3. CASE m # l
      BY <1>2, <1>3, <1>4, <3>1, <3>3 DEF Grip
    <3> QED  BY <3>2, <3>3
  <2>2. \A u \in Terminals : slotHeld'[u] /\ tracked'[u] = "none" =>
          hands'["background"].at \in {"spawn", "register"} /\ hands'["background"].t = u
    BY <1>1, <1>3, <1>4, <1>7, LanesAre DEF HandsAreSure
  <2>3. hands'["control"].at \notin {"spawn", "register"}
    BY <1>1, <1>3, LanesAre DEF HandsAreSure
  <2> QED  BY <1>1, <2>1, <2>2, <2>3 DEF HandsAreSure
<1>9. \A u \in Terminals : (Joining(u) => Joining(u)') /\ (Stopping(u) => Stopping(u)')
  BY <1>3, <1>7 DEF Joining, Stopping
<1>10. Joining(t)' /\ Stopping(t)'
  BY <1>3 DEF Joining, Stopping
<1>11. ReadersAreKept' /\ QuestionsAreKept'
  BY <1>1, <1>4, <1>9, <1>10 DEF ReadersAreKept, QuestionsAreKept, SessionsTyped
<1> QED  BY <1>5, <1>6, <1>8, <1>11 DEF Counted

\* A hand that goes on with its session, whatever it reaped: it comes to the join only with the
\* session's process gone, and to forgetting only with the reader gone.
LEMMA CountedHand ==
  ASSUME Counted, NEW l \in Lanes, hands[l].at \in {"stop", "poll", "block", "join"},
         NEW step \in {"poll", "block", "join", "forget"},
         hands' = [hands EXCEPT ![l].at = step],
         UNCHANGED <<tracked, readerAt, challenges>>,
         child' \in [Terminals -> {"none", "running", "zombie", "reaped"}],
         pid' \in [Terminals -> BOOLEAN], slotHeld' \in [Terminals -> BOOLEAN],
         \A u \in Terminals : child'[u] = child[u] \/ (child[u] = "zombie" /\ child'[u] = "reaped"),
         \A u \in Terminals : ~pid'[u] => child'[u] \notin {"running", "zombie"},
         \A u \in Terminals : slotHeld'[u] = slotHeld[u]
                              \/ (child'[u] \notin {"running", "zombie"} /\ ~slotHeld'[u]
                                  /\ tracked[u] # "none"),
         live' = Cardinality(Holders'),
         step \in {"join", "forget"} => child'[hands[l].t] \notin {"running", "zombie"},
         step = "forget" => readerAt[hands[l].t] \in {"none", "done"}
  PROVE  Counted'
<1>1. SessionsTyped /\ SlotsAreHeld /\ HandsAreSure /\ ReadersAreKept /\ QuestionsAreKept
  BY DEF Counted
<1>2. /\ hands' \in [Lanes -> Hands] /\ hands'[l].at = step /\ hands'[l].t = hands[l].t
      /\ \A m \in Lanes \ {l} : hands'[m] = hands[m]
  BY <1>1, HandMoves
<1>3. SessionsTyped'
  BY <1>1, <1>2 DEF SessionsTyped
<1>4. SlotsAreHeld'
  BY <1>1 DEF SlotsAreHeld
<1>5. hands[l].t \in Terminals
  BY <1>1, HandFields
<1>6. HandsAreSure'
  <2>1. \A m \in Lanes : Grip(m)'
    <3> SUFFICES ASSUME NEW m \in Lanes PROVE Grip(m)'
      OBVIOUS
    <3>1. Grip(m) /\ (hands[m].at # "free" => hands[m].t \in Terminals)
      BY <1>1, HandFields DEF HandsAreSure
    <3>2. CASE m = l
      BY <1>2, <3>1, <3>2 DEF Grip
    <3>3. CASE m # l
      BY <1>2, <3>1, <3>3 DEF Grip
    <3> QED  BY <3>2, <3>3
  <2>2. l = "background" => ~(\E u \in Terminals : slotHeld[u] /\ tracked[u] = "none")
    BY <1>1 DEF HandsAreSure
  <2>3. \A u \in Terminals : slotHeld'[u] /\ tracked'[u] = "none" =>
          hands'["background"].at \in {"spawn", "register"} /\ hands'["background"].t = u
    BY <1>1, <1>2, <2>2, LanesAre DEF HandsAreSure
  <2>4. hands'["control"].at \notin {"spawn", "register"}
    BY <1>1, <1>2, LanesAre DEF HandsAreSure
  <2> QED  BY <1>1, <2>1, <2>3, <2>4 DEF HandsAreSure
<1>7. \A u \in Terminals : Stopping(u) => Stopping(u)'
  BY <1>2 DEF Stopping
<1>8. \A u \in Terminals : readerAt[u] \notin {"none", "done"} /\ Joining(u) => Joining(u)'
  BY <1>2 DEF Joining
<1>9. ReadersAreKept' /\ QuestionsAreKept'
  BY <1>1, <1>7, <1>8 DEF ReadersAreKept, QuestionsAreKept, SessionsTyped
<1> QED  BY <1>3, <1>4, <1>6, <1>9 DEF Counted

\* The end of the stop: the hand waits for the process, joins the reader and gives the slot back.
LEMMA CountedStop ==
  ASSUME Counted, NEW l \in Lanes, StopSession(l) \/ GiveUp(l) \/ JoinReader(l)
  PROVE  Counted'
<1> DEFINE t == hands[l].t
<1>1. SessionsTyped /\ SlotsAreHeld /\ HandsAreSure
  BY DEF Counted
<1>2. hands[l].at \in {"stop", "poll", "join"}
  BY DEF StopSession, GiveUp, JoinReader
<1>3. t \in Terminals /\ tracked[t] = "gone"
  BY <1>1, <1>2, HandFields DEF HandsAreSure, Grip
<1>4. /\ child \in [Terminals -> {"none", "running", "zombie", "reaped"}]
      /\ pid \in [Terminals -> BOOLEAN] /\ slotHeld \in [Terminals -> BOOLEAN]
      /\ live = Cardinality(Holders)
      /\ \A u \in Terminals : ~pid[u] => child[u] \notin {"running", "zombie"}
  BY <1>1 DEF SessionsTyped, SlotsAreHeld, HandsAreSure
<1>5. CASE StopSession(l) \/ GiveUp(l)
  <2>1. UNCHANGED <<tracked, readerAt, challenges, child, pid, slotHeld, live>>
    BY <1>5 DEF StopSession, GiveUp
  <2>2. PICK step \in {"poll", "block", "join"} :
          hands' = [hands EXCEPT ![l].at = step] /\ (step = "join" => ~pid[t])
    BY <1>5 DEF StopSession, GiveUp
  <2>3. Holders' = Holders
    BY <2>1 DEF Holders
  <2> HIDE DEF t
  <2>4. step = "join" => child'[t] \notin {"running", "zombie"}
    BY <1>3, <1>4, <2>1, <2>2
  <2> QED  BY <1>2, <1>4, <2>1, <2>2, <2>3, <2>4, CountedHand DEF t
<1>6. CASE JoinReader(l)
  <2>1. /\ hands[l].at = "join" /\ readerAt[t] \in {"none", "done"} /\ Release(t)
        /\ hands' = [hands EXCEPT ![l].at = "forget"]
        /\ UNCHANGED <<tracked, child, pid, readerAt, challenges>>
    BY <1>6 DEF JoinReader, ReaderGone
  <2>2. child[t] \notin {"running", "zombie"}
    BY <1>1, <2>1 DEF HandsAreSure, Grip
  <2>3. /\ live' = Cardinality(Holders') /\ slotHeld' \in [Terminals -> BOOLEAN]
        /\ \A u \in Terminals \ {t} : slotHeld'[u] = slotHeld[u]
    BY <1>1, <1>3, <2>1, Releases
  <2>4. ~slotHeld'[t]
    BY <1>3, <1>4, <2>1 DEF Release
  <2> HIDE DEF t
  <2>5. \A u \in Terminals : slotHeld'[u] = slotHeld[u]
                             \/ (child'[u] \notin {"running", "zombie"} /\ ~slotHeld'[u]
                                 /\ tracked[u] # "none")
    BY <1>3, <2>1, <2>2, <2>3, <2>4
  <2> QED  BY <1>4, <2>1, <2>2, <2>3, <2>5, CountedHand DEF t
<1> QED  BY <1>5, <1>6

\* Another session's child is reaped by a call made with -1: its slot stays counted.
LEMMA CountedStray ==
  ASSUME Counted, NEW c \in Terminals, child[c] = "zombie",
         child' = [child EXCEPT ![c] = "reaped"],
         UNCHANGED <<tracked, pid, readerAt, hands, slotHeld, live, challenges>>
  PROVE  Counted'
<1>1. SessionsTyped /\ SlotsAreHeld /\ HandsAreSure /\ ReadersAreKept /\ QuestionsAreKept
  BY DEF Counted
<1>2. /\ child' \in [Terminals -> {"none", "running", "zombie", "reaped"}] /\ child'[c] = "reaped"
      /\ \A u \in Terminals \ {c} : child'[u] = child[u]
  BY <1>1 DEF SessionsTyped
<1>3. SessionsTyped'
  BY <1>1, <1>2 DEF SessionsTyped
<1>4. SlotsAreHeld'
  BY <1>1, <1>2 DEF SlotsAreHeld, Holders
<1>5. \A l \in Lanes : Grip(l)'
  <2> SUFFICES ASSUME NEW l \in Lanes PROVE Grip(l)'
    OBVIOUS
  <2>1. Grip(l) /\ (hands[l].at # "free" => hands[l].t \in Terminals)
    BY <1>1, HandFields DEF HandsAreSure
  <2> QED  BY <1>2, <2>1 DEF Grip
<1>6. HandsAreSure'
  BY <1>1, <1>2, <1>5 DEF HandsAreSure
<1>7. ReadersAreKept' /\ QuestionsAreKept'
  BY <1>1 DEF ReadersAreKept, QuestionsAreKept, Joining, Stopping
<1> QED  BY <1>3, <1>4, <1>6, <1>7 DEF Counted

\* waitpid in the stop, with the id of the session's child or with -1.
LEMMA CountedWaits ==
  ASSUME Counted, NEW l \in Lanes, NEW c \in Terminals, Poll(l, c) \/ Block(l, c)
  PROVE  Counted'
<1> DEFINE t == hands[l].t
<1>1. SessionsTyped /\ SlotsAreHeld /\ HandsAreSure
  BY DEF Counted
<1>2. hands[l].at \in {"poll", "block"} /\ UNCHANGED <<tracked, readerAt, slotHeld, live, challenges>>
  BY DEF Poll, Block
<1>3. t \in Terminals
  BY <1>1, <1>2, HandFields
<1>4. /\ child \in [Terminals -> {"none", "running", "zombie", "reaped"}]
      /\ pid \in [Terminals -> BOOLEAN] /\ slotHeld \in [Terminals -> BOOLEAN]
      /\ live = Cardinality(Holders)
      /\ \A u \in Terminals : ~pid[u] => child[u] \notin {"running", "zombie"}
  BY <1>1 DEF SessionsTyped, SlotsAreHeld, HandsAreSure
<1>5. Holders' = Holders
  BY <1>2 DEF Holders
<1>6. CASE /\ hands' = [hands EXCEPT ![l].at = "join"]
           /\ \/ child' = [child EXCEPT ![c] = "reaped"] /\ child[c] = "zombie" /\ (pid[t] => c = t)
              \/ child' = child /\ (pid[t] => child[t] = "reaped")
           /\ \/ pid' = [pid EXCEPT ![t] = FALSE]
              \/ pid' = pid /\ ~pid[t]
  <2> HIDE DEF t
  <2>1. /\ child' \in [Terminals -> {"none", "running", "zombie", "reaped"}]
        /\ \A u \in Terminals : child'[u] = child[u] \/ (child[u] = "zombie" /\ child'[u] = "reaped")
    BY <1>4, <1>6
  <2>2. pid' \in [Terminals -> BOOLEAN] /\ \A u \in Terminals \ {t} : pid'[u] = pid[u]
    BY <1>4, <1>6
  <2>3. child'[t] \notin {"running", "zombie"}
    BY <1>3, <1>4, <1>6
  <2>4. \A u \in Terminals : ~pid'[u] => child'[u] \notin {"running", "zombie"}
    BY <1>4, <2>1, <2>2, <2>3
  <2> QED  BY <1>2, <1>4, <1>5, <1>6, <2>1, <2>2, <2>3, <2>4, CountedHand DEF t
<1>7. CASE /\ child' = [child EXCEPT ![c] = "reaped"] /\ child[c] = "zombie"
           /\ UNCHANGED <<pid, hands>>
  BY <1>2, <1>7, CountedStray
<1>8. ASSUME NothingToReap(t) PROVE pid[t] => child[t] = "reaped"
  BY <1>8 DEF NothingToReap
<1>9. ASSUME Reaps(t, c) PROVE child[c] = "zombie" /\ (pid[t] => c = t)
  BY <1>9 DEF Reaps, Zombies
<1>10. CASE Poll(l, c)
  <2>1. CASE Reaps(t, c) /\ child' = [child EXCEPT ![c] = "reaped"]
    BY <1>6, <1>7, <1>9, <1>10, <2>1 DEF Poll
  <2>2. CASE ~pid[t] /\ hands' = [hands EXCEPT ![l].at = "join"] /\ UNCHANGED <<child, pid>>
    BY <1>6, <2>2
  <2> QED  BY <1>10, <2>1, <2>2 DEF Poll
<1>11. CASE Block(l, c)
  <2>1. hands' = [hands EXCEPT ![l].at = "join"] /\ pid' = [pid EXCEPT ![t] = FALSE]
    BY <1>11 DEF Block
  <2>2. CASE Reaps(t, c) /\ child' = [child EXCEPT ![c] = "reaped"]
    BY <1>6, <1>9, <2>1, <2>2
  <2>3. CASE NothingToReap(t) /\ UNCHANGED child
    BY <1>6, <1>8, <2>1, <2>3
  <2> QED  BY <1>11, <2>2, <2>3 DEF Block
<1> QED  BY <1>10, <1>11

\* The last step of a stop drops the session's questions with it.
LEMMA CountedForgets ==
  ASSUME Counted, NEW l \in Lanes, forget_session(l)
  PROVE  Counted'
<1>1. SessionsTyped /\ SlotsAreHeld /\ HandsAreSure /\ ReadersAreKept /\ QuestionsAreKept
  BY DEF Counted
<1>2. /\ hands[l].at = "forget" /\ challenges' = {q \in challenges : q.session # hands[l].t}
      /\ hands' = [hands EXCEPT ![l] = Free]
      /\ UNCHANGED <<tracked, child, pid, readerAt, slotHeld, live>>
  BY DEF forget_session
<1>3. /\ hands' \in [Lanes -> Hands] /\ hands'[l].at = "free"
      /\ \A m \in Lanes \ {l} : hands'[m] = hands[m]
  BY <1>1, <1>2, HandFrees
<1>4. SessionsTyped'
  BY <1>1, <1>2, <1>3 DEF SessionsTyped
<1>5. SlotsAreHeld'
  BY <1>1, <1>2 DEF SlotsAreHeld, Holders
<1>6. HandsAreSure'
  <2>1. \A m \in Lanes : Grip(m)'
    <3> SUFFICES ASSUME NEW m \in Lanes PROVE Grip(m)'
      OBVIOUS
    <3>1. Grip(m)
      BY <1>1 DEF HandsAreSure
    <3>2. CASE m = l
      BY <1>3, <3>2 DEF Grip
    <3>3. CASE m # l
      BY <1>2, <1>3, <3>1, <3>3 DEF Grip
    <3> QED  BY <3>2, <3>3
  <2>2. l = "background" => ~(\E u \in Terminals : slotHeld[u] /\ tracked[u] = "none")
    BY <1>1, <1>2 DEF HandsAreSure
  <2> QED  BY <1>1, <1>2, <1>3, <2>1, <2>2, LanesAre DEF HandsAreSure
<1>7. ReadersAreKept'
  BY <1>1, <1>2, <1>3 DEF ReadersAreKept, Joining
<1>8. QuestionsAreKept'
  <2>1. \A u \in Terminals : Stopping(u) /\ u # hands[l].t => Stopping(u)'
    BY <1>3 DEF Stopping
  <2> QED  BY <1>1, <1>2, <2>1 DEF QuestionsAreKept, SessionsTyped
<1> QED  BY <1>4, <1>5, <1>6, <1>7, <1>8 DEF Counted

\* Answering a question, or cancelling it and with it the session.
LEMMA CountedAnswers ==
  ASSUME Counted, NEW q \in challenges, server_auth(q)
  PROVE  Counted'
<1>1. /\ challenges' \subseteq challenges
      /\ UNCHANGED <<child, pid, readerAt, slotHeld, live>>
  BY DEF server_auth, respond_auth, cancel_auth
<1>2. CASE Close("background", q.session)
  <2>1. q.session \in Terminals
    BY DEF Counted, SessionsTyped
  <2> QED  BY <1>1, <1>2, <2>1, CountedClose, LanesAre
<1>3. CASE UNCHANGED <<tracked, hands>>
  <2>1. SlotsAreHeld' /\ HandsAreSure' /\ ReadersAreKept'
    BY <1>1, <1>3 DEF Counted, SlotsAreHeld, Holders, HandsAreSure, Grip, ReadersAreKept, Joining
  <2>2. SessionsTyped'
    BY <1>1, <1>3 DEF Counted, SessionsTyped
  <2>3. QuestionsAreKept'
    BY <1>1, <1>3 DEF Counted, QuestionsAreKept, Stopping
  <2> QED  BY <2>1, <2>2, <2>3 DEF Counted
<1> QED  BY <1>2, <1>3 DEF server_auth, respond_auth, cancel_auth

\* What a step of other components leaves.
LEMMA CountedStutter ==
  ASSUME Counted, UNCHANGED terminalVars
  PROVE  Counted'
<1>1. UNCHANGED <<tracked, child, pid, readerAt, hands, slotHeld, live, challenges>>
  BY DEF terminalVars
<1>2. SessionsTyped'
  BY <1>1 DEF Counted, SessionsTyped
<1>3. SlotsAreHeld' /\ HandsAreSure' /\ ReadersAreKept' /\ QuestionsAreKept'
  BY <1>1 DEF Counted, SlotsAreHeld, Holders, HandsAreSure, Grip, ReadersAreKept,
              QuestionsAreKept, Joining, Stopping
<1> QED  BY <1>2, <1>3 DEF Counted

\* Counted is an invariant of the terminal sessions.
THEOREM CountedInvariant == TerminalSpec => []Counted
<1>1. Counted /\ [TerminalNext]_terminalVars => Counted'
  <2> SUFFICES ASSUME Counted, [TerminalNext]_terminalVars PROVE Counted'
    OBVIOUS
  <2>1. ASSUME NEW t \in Terminals, terminal_close(t) PROVE Counted'
    BY <2>1, CountedClose, LanesAre DEF terminal_close
  <2> QED  BY <2>1, CountedClaim, CountedSpawn, CountedRegistered, CountedChild, CountedReader,
              CountedReaps, CountedStop, CountedWaits, CountedForgets, CountedAnswers,
              CountedStutter
           DEF TerminalNext
<1> QED  BY <1>1, CountedInit, PTL DEF TerminalSpec

\* Processes that exist never outnumber the slots counted, whoever reaps them, and no question
\* outlives the session that asked it (release_session_slot, stop_session, forget_session), for
\* every number of sessions, lanes' interleavings and children reaped by a call made with -1.
THEOREM SessionsTheorem == TerminalSpec => []SessionsAreCounted
<1>1. Counted => SessionsAreCounted
  <2> SUFFICES ASSUME Counted PROVE SessionsAreCounted
    OBVIOUS
  <2>1. Processes \in SUBSET Holders
    BY DEF Counted, SlotsAreHeld, Processes, Holders
  <2>2. Cardinality(Processes) <= Cardinality(Holders)
    BY <2>1, HoldersFinite, FS_Subset
  <2>3. SlotsCoverProcesses
    BY <2>2 DEF Counted, SlotsAreHeld, SlotsCoverProcesses
  <2>4. NoDeadQuestion
    <3>1. \A l \in Lanes : hands[l].at \in {"stop", "poll", "block", "join", "forget"} => hands[l] # Free
      BY LanesAre
    <3> QED  BY <3>1 DEF Counted, QuestionsAreKept, Stopping, NoDeadQuestion
  <2> QED  BY <2>3, <2>4 DEF SessionsAreCounted
<1> QED  BY <1>1, CountedInvariant, PTL

----------------------------------------------------------------------------
(* Local files: a pick serves one upload, a stage lives while it is needed *)

\* What was uploaded is no longer registered, and picks to come have other numbers.
UploadsAreSpent ==
  /\ picks \in Nat
  /\ \A h \in handles : h.pick \in Nat /\ h.pick <= picks
  /\ \A u \in uploads : /\ u.times = 1 /\ u.handle \notin handles
                        /\ u.handle.pick \in Nat /\ u.handle.pick <= picks

\* The command, the tickets, the drag and what was kept have different stages, none of them a
\* fresh one.
OwnersDiffer ==
  /\ preparing.stage \cap (prepared \union active \union kept) = {}
  /\ prepared \cap (active \union kept) = {} /\ active \cap kept = {}
  /\ fresh \cap (preparing.stage \union prepared \union active \union kept) = {}
  /\ lapsed \subseteq prepared /\ fresh \subseteq Stages

\* A download writes into the stage of the command that waits for it, or into one that was kept.
WritersAreOwned ==
  /\ writers \subseteq preparing.stage \union kept
  /\ preparing.at \in {"idle", "start", "check"} => writers \cap preparing.stage = {}
  /\ preparing.at = "idle" => preparing.stage = {}
  /\ preparing \in [at : {"idle", "start", "wait", "grace", "check"}, stage : SUBSET Stages]

\* What exists while the store is open has an owner, and what is in use exists; before the
\* store is open nothing has one.
StagesExist ==
  /\ writers \union prepared \union preparing.stage \subseteq disk
  /\ opened => disk \subseteq preparing.stage \union prepared \union active \union kept
  /\ ~opened => writers = {} /\ prepared = {} /\ preparing = Resting0 /\ active = {} /\ kept = {}

Owned == OwnersDiffer /\ WritersAreOwned /\ StagesExist

\* Nothing is registered or staged when the host starts.
LEMMA LocalInit == LocalFilesInit => UploadsAreSpent /\ Owned
<1> SUFFICES ASSUME LocalFilesInit PROVE UploadsAreSpent /\ Owned
  OBVIOUS
<1>1. Resting0.at = "idle" /\ Resting0.stage = {}
      /\ Resting0 \in [at : {"idle", "start", "wait", "grace", "check"}, stage : SUBSET Stages]
  BY DEF Resting0
<1>2. UploadsAreSpent
  BY DEF LocalFilesInit, UploadsAreSpent
<1>3. Owned
  BY <1>1 DEF LocalFilesInit, Owned, OwnersDiffer, WritersAreOwned, StagesExist
<1> QED  BY <1>2, <1>3

\* Picks, uploads, expiry and changes on disk.
LEMMA SpentPaths ==
  ASSUME UploadsAreSpent, LocalPathsNext
  PROVE  UploadsAreSpent'
<1>1. ASSUME NEW chosen \in SUBSET Paths, local_path_pick(chosen) PROVE UploadsAreSpent'
  <2>1. picks' = picks + 1 /\ uploads' = uploads
    BY <1>1 DEF local_path_pick
  <2>2. \A h \in handles' : h \in handles \/ h.pick = picks'
    BY <1>1 DEF local_path_pick, register_paths, prune_locked
  <2> QED  BY <2>1, <2>2 DEF UploadsAreSpent
<1>2. ASSUME NEW sources \in SUBSET handles, file_transfer_upload(sources) PROVE UploadsAreSpent'
  <2>1. CASE take_upload_sources(sources)
    <3>1. picks' = picks /\ handles' \subseteq handles /\ handles' \cap sources = {}
      BY <1>2, <2>1 DEF file_transfer_upload, Spent, prune_locked
    <3>2. \A u \in uploads' : u \in uploads \/ (u.handle \in sources /\ u.times = 1)
      BY <1>2, <2>1 DEF file_transfer_upload, UploadsAreSpent
    <3> QED  BY <3>1, <3>2 DEF UploadsAreSpent
  <2>2. CASE ~take_upload_sources(sources)
    BY <1>2, <2>2 DEF file_transfer_upload, prune_locked, UploadsAreSpent
  <2> QED  BY <2>1, <2>2
<1>3. CASE file_transfer_download \/ local_file_preview
  BY <1>3 DEF file_transfer_download, local_file_preview, take_download_directory, read_preview,
              prune_locked, UploadsAreSpent
<1>4. CASE \/ \E h \in handles : HandleExpires(h)
           \/ \E p \in Paths, kind \in FileKinds : PathChanges(p, kind)
  BY <1>4 DEF HandleExpires, PathChanges, UploadsAreSpent
<1> QED  BY <1>1, <1>2, <1>3, <1>4 DEF LocalPathsNext

\* The drags leave the handles alone; the end of the process drops them.
LEMMA SpentDrags ==
  ASSUME UploadsAreSpent, RemoteDragNext
  PROVE  UploadsAreSpent'
<1>1. picks' = picks /\ uploads' = uploads /\ handles' \subseteq handles
  BY DEF RemoteDragNext, ensure_remote_drag_store, remote_drag_prepare_command, StartDownload,
         wait_for_transfer_terminal, GraceEnds, RegisterTicket, DownloadEnds, TicketLapses,
         DragEnded, remote_drag_start_command, ProcessEnds, handleVars
<1> QED  BY <1>1 DEF UploadsAreSpent

\* The command that prepares a drag, to the end of its download.
LEMMA OwnedPrepare ==
  ASSUME Owned,
         \/ ensure_remote_drag_store \/ remote_drag_prepare_command \/ StartDownload
         \/ wait_for_transfer_terminal \/ GraceEnds
         \/ \E d \in Stages : DownloadEnds(d)
  PROVE  Owned'
<1> USE DEF Owned, OwnersDiffer, WritersAreOwned, StagesExist
<1>0. Resting0.at = "idle" /\ Resting0.stage = {}
      /\ Resting0 \in [at : {"idle", "start", "wait", "grace", "check"}, stage : SUBSET Stages]
  BY DEF Resting0
<1>1. CASE ensure_remote_drag_store
  BY <1>0, <1>1 DEF ensure_remote_drag_store, sweep_stale_directories
<1>2. CASE remote_drag_prepare_command
  <2>1. PICK d \in fresh : create_stage(d) /\ preparing' = [at |-> "start", stage |-> {d}]
    BY <1>2 DEF remote_drag_prepare_command
  <2>2. opened /\ preparing.stage = {}
        /\ UNCHANGED <<writers, prepared, lapsed, kept, active, opened>>
    BY <1>2 DEF remote_drag_prepare_command
  <2>3. preparing'.at = "start" /\ preparing'.stage = {d}
    BY <2>1
  <2>4. fresh' = fresh \ {d} /\ disk' = disk \union {d}
    BY <2>1 DEF create_stage
  <2>5. d \in Stages
    BY <2>1
  <2>6. preparing' \in [at : {"idle", "start", "wait", "grace", "check"}, stage : SUBSET Stages]
    BY <2>1, <2>5
  <2>7. OwnersDiffer' /\ StagesExist'
    BY <2>2, <2>3, <2>4
  <2>8. WritersAreOwned'
    BY <2>2, <2>3, <2>4, <2>6
  <2> QED  BY <2>7, <2>8
<1>3. CASE StartDownload
  <2>1. CASE remove_now /\ UNCHANGED writers
    BY <1>0, <1>3, <2>1 DEF StartDownload, remove_now
  <2>2. CASE /\ writers' = writers \union preparing.stage
             /\ preparing' = [preparing EXCEPT !.at = "wait"] /\ UNCHANGED <<disk, kept>>
    BY <1>0, <1>3, <2>2 DEF StartDownload
  <2> QED  BY <1>3, <2>1, <2>2 DEF StartDownload
<1>4. CASE wait_for_transfer_terminal
  BY <1>0, <1>4 DEF wait_for_transfer_terminal, Ended0
<1>5. CASE GraceEnds
  <2>1. CASE Ended0 /\ remove_now
    BY <1>0, <1>5, <2>1 DEF GraceEnds, remove_now, Ended0
  <2>2. CASE keep
    BY <1>0, <1>5, <2>2 DEF GraceEnds, keep
  <2> QED  BY <1>5, <2>1, <2>2 DEF GraceEnds
<1>6. CASE \E d \in Stages : DownloadEnds(d)
  BY <1>0, <1>6 DEF DownloadEnds
<1> QED  BY <1>1, <1>2, <1>3, <1>4, <1>5, <1>6

\* The tickets, the drags and the end of the process.
LEMMA OwnedDrag ==
  ASSUME Owned,
         \/ RegisterTicket \/ ProcessEnds
         \/ \E d \in Stages : TicketLapses(d) \/ DragEnded(d)
         \/ \E d \in prepared, started \in BOOLEAN : remote_drag_start_command(d, started)
  PROVE  Owned'
<1> USE DEF Owned, OwnersDiffer, WritersAreOwned, StagesExist
<1>0. Resting0.at = "idle" /\ Resting0.stage = {}
      /\ Resting0 \in [at : {"idle", "start", "wait", "grace", "check"}, stage : SUBSET Stages]
  BY DEF Resting0
<1>1. CASE RegisterTicket
  <2>1. /\ preparing.at = "check" /\ preparing' = Resting0
        /\ UNCHANGED <<writers, kept, active, opened, fresh>>
    BY <1>1 DEF RegisterTicket
  <2>2. PICK ticket, dropped :
          /\ ticket \in {preparing.stage, {}} /\ dropped \subseteq lapsed
          /\ prepared' = (prepared \ dropped) \union ticket
          /\ disk' = disk \ (dropped \union (preparing.stage \ ticket))
          /\ lapsed' = lapsed \ dropped
    BY <1>1 DEF RegisterTicket
  <2> QED  BY <1>0, <2>1, <2>2
<1>2. CASE ProcessEnds
  BY <1>0, <1>2 DEF ProcessEnds
<1>3. CASE \E d \in Stages : TicketLapses(d) \/ DragEnded(d)
  BY <1>3 DEF TicketLapses, DragEnded
<1>4. ASSUME NEW d \in prepared, NEW started \in BOOLEAN, remote_drag_start_command(d, started)
      PROVE  Owned'
  <2>1. /\ opened /\ prepared' = prepared \ (lapsed \union {d}) /\ lapsed' = {}
        /\ UNCHANGED <<writers, preparing, kept, opened, fresh>>
    BY <1>4 DEF remote_drag_start_command, take
  <2>2. CASE d \in lapsed
    <3>1. active' = active /\ disk' = disk \ lapsed
      BY <1>4, <2>2 DEF remote_drag_start_command
    <3> QED  BY <2>1, <2>2, <3>1
  <2>3. CASE d \notin lapsed /\ started
    <3>1. active' = {d} /\ disk' = disk \ (lapsed \union active)
      BY <1>4, <2>3 DEF remote_drag_start_command
    <3> QED  BY <2>1, <2>3, <3>1
  <2>4. CASE d \notin lapsed /\ ~started
    <3>1. active' = {} /\ disk' = disk \ (lapsed \union active \union {d})
      BY <1>4, <2>4 DEF remote_drag_start_command
    <3> QED  BY <2>1, <2>4, <3>1
  <2> QED  BY <2>2, <2>3, <2>4
<1> QED  BY <1>1, <1>2, <1>3, <1>4

\* The picks leave the stages alone, and so does a step of other components.
LEMMA OwnedPaths ==
  ASSUME Owned, UNCHANGED dragVars
  PROVE  Owned'
  BY DEF Owned, OwnersDiffer, WritersAreOwned, StagesExist, dragVars

LEMMA PathsLeaveDrags ==
  ASSUME LocalPathsNext
  PROVE  UNCHANGED dragVars
  BY DEF LocalPathsNext, local_path_pick, file_transfer_upload, file_transfer_download,
         local_file_preview, HandleExpires, PathChanges

\* What was uploaded is spent, and stages have their owners, whatever order picks, uploads,
\* downloads, timeouts, drags and restarts come in.
THEOREM LocalInvariant == LocalFilesSpec => [](UploadsAreSpent /\ Owned)
<1>1. ASSUME UploadsAreSpent, Owned, [LocalPathsNext \/ RemoteDragNext]_localVars
      PROVE  UploadsAreSpent' /\ Owned'
  <2>1. CASE LocalPathsNext
    BY <1>1, <2>1, SpentPaths, OwnedPaths, PathsLeaveDrags
  <2>2. CASE RemoteDragNext
    BY <1>1, <2>2, SpentDrags, OwnedPrepare, OwnedDrag DEF RemoteDragNext
  <2>3. CASE UNCHANGED localVars
    BY <1>1, <2>3, OwnedPaths DEF localVars, dragVars, UploadsAreSpent
  <2> QED  BY <1>1, <2>1, <2>2, <2>3
<1> QED  BY <1>1, LocalInit, PTL DEF LocalFilesSpec

\* A picked path serves one upload, and a stage exists while a download writes into it or a
\* ticket can use it and, once the store is open, only while it has an owner
\* (take_upload_sources, StagedRemoteDrag, RemoteDragStore), for every set of paths and stages
\* and both registries moving.
THEOREM LocalTheorem == LocalFilesSpec => []LocalFilesAreOwned
<1>1. UploadsAreSpent /\ Owned => LocalFilesAreOwned
  BY DEF UploadsAreSpent, Owned, StagesExist, LocalFilesAreOwned, StagesAreOwned, UploadedOnce
<1> QED  BY <1>1, LocalInvariant, PTL

----------------------------------------------------------------------------
(* Host trust: a credential goes to a key that was confirmed *)

Visits ==
  [at : {"idle", "resolve", "lookup", "dial", "verify", "auth", "open"},
   kind : {"none", "check", "session", "probe"}, host : Hosts \union {"none"},
   endpoint : Endpoints \union {"none"}, pin : Keys \union {NoKey, Authority},
   key : Keys \union {NoKey}]

TrustTyped ==
  /\ endpointOf \in [Hosts -> Endpoints] /\ presents \in [Endpoints -> Keys]
  /\ pins \in [Endpoints -> Keys \union {NoKey}]
  /\ visit \in [Callers -> Visits]

\* What known_hosts pins the user confirmed for that endpoint.
PinsAreConfirmed == \A e \in Endpoints : pins[e] # NoKey => <<e, pins[e]>> \in confirmed

\* A session carries the trust source it started from, and past the check the key it verified.
VisitIsTrusted(s) ==
  /\ s.at # "idle" => s.endpoint \in Endpoints
  /\ s.at # "idle" /\ s.kind # "probe" => s.pin = Authority \/ <<s.endpoint, s.pin>> \in confirmed
  /\ s.at \in {"auth", "open"} =>
       s.kind # "probe" /\ (IF s.pin = Authority THEN s.key \in Certified ELSE s.key = s.pin)

Trusted == TrustTyped /\ PinsAreConfirmed /\ \A v \in Callers : VisitIsTrusted(visit[v])

\* The host starts without pins and sessions.
LEMMA TrustedInit == HostTrustInit => Trusted
<1> SUFFICES ASSUME HostTrustInit PROVE Trusted
  OBVIOUS
<1>1. (CHOOSE e \in Endpoints : TRUE) \in Endpoints /\ (CHOOSE k \in Keys : TRUE) \in Keys
  BY HostTrustAssumption
<1>2. NoVisit \in Visits /\ NoVisit.at = "idle"
  BY DEF NoVisit, Visits
<1>3. TrustTyped
  BY <1>1, <1>2 DEF HostTrustInit, TrustTyped
<1>4. PinsAreConfirmed /\ \A v \in Callers : VisitIsTrusted(visit[v])
  BY <1>2 DEF HostTrustInit, PinsAreConfirmed, VisitIsTrusted
<1> QED  BY <1>3, <1>4 DEF Trusted

\* One session changes, into one that is trusted.
LEMMA TrustedVisit ==
  ASSUME Trusted, NEW v \in Callers, NEW new \in Visits, VisitIsTrusted(new),
         visit' = [visit EXCEPT ![v] = new],
         UNCHANGED <<endpointOf, presents, pins, confirmed>>
  PROVE  Trusted'
<1>1. visit \in [Callers -> Visits]
  BY DEF Trusted, TrustTyped
<1>2. visit' \in [Callers -> Visits] /\ visit'[v] = new /\ \A u \in Callers \ {v} : visit'[u] = visit[u]
  BY <1>1
<1>3. TrustTyped'
  BY <1>2 DEF Trusted, TrustTyped
<1>4. PinsAreConfirmed'
  BY DEF Trusted, PinsAreConfirmed
<1>5. \A u \in Callers : VisitIsTrusted(visit[u])'
  BY <1>2 DEF Trusted, VisitIsTrusted
<1> QED  BY <1>3, <1>4, <1>5 DEF Trusted

\* A session ends.
LEMMA TrustedEnds ==
  ASSUME Trusted, NEW v \in Callers, visit' = [visit EXCEPT ![v] = NoVisit],
         UNCHANGED <<endpointOf, presents, pins, confirmed>>
  PROVE  Trusted'
<1>1. NoVisit \in Visits /\ VisitIsTrusted(NoVisit)
  BY DEF NoVisit, Visits, VisitIsTrusted
<1> QED  BY <1>1, TrustedVisit

\* A session goes on: it keeps its endpoint and its pin, and passes the check only with a key
\* that verifies.
LEMMA TrustedGoes ==
  ASSUME Trusted, NEW v \in Callers, NEW step, visit[v].at # "idle",
         \/ step \in {"lookup", "dial"}
         \/ step = "auth" /\ visit[v].kind # "probe" /\ HostKeyVerified(visit[v])
         \/ step = "open" /\ visit[v].at = "auth",
         visit' = [visit EXCEPT ![v].at = step],
         UNCHANGED <<endpointOf, presents, pins, confirmed>>
  PROVE  Trusted'
<1> DEFINE s == visit[v]
           new == [s EXCEPT !.at = step]
<1>1. s \in Visits /\ VisitIsTrusted(s)
  BY DEF Trusted, TrustTyped
<1>2. /\ new \in Visits /\ new.at = step /\ new.kind = s.kind /\ new.endpoint = s.endpoint
      /\ new.pin = s.pin /\ new.key = s.key
  <2> HIDE DEF s
  <2> QED  BY <1>1 DEF Visits
<1>3. VisitIsTrusted(new)
  <2> HIDE DEF new
  <2> QED  BY <1>1, <1>2 DEF VisitIsTrusted, HostKeyVerified
<1>4. visit' = [visit EXCEPT ![v] = new]
  BY DEF Trusted, TrustTyped
<1> HIDE DEF new
<1> QED  BY <1>2, <1>3, <1>4, TrustedVisit

\* The key exchange: whatever answers at the endpoint presents its key.
LEMMA TrustedHandshake ==
  ASSUME Trusted, NEW v \in Callers, Handshake(v)
  PROVE  Trusted'
<1> DEFINE s == visit[v]
           k == presents[s.endpoint]
           new == [s EXCEPT !.at = "verify", !.key = k]
<1>1. s \in Visits /\ VisitIsTrusted(s) /\ s.at = "dial"
  BY DEF Trusted, TrustTyped, Handshake
<1>2. k \in Keys
  BY <1>1 DEF Trusted, TrustTyped, VisitIsTrusted
<1>3. /\ new \in Visits /\ new.at = "verify" /\ new.kind = s.kind /\ new.endpoint = s.endpoint
      /\ new.pin = s.pin
  <2> HIDE DEF s, k
  <2> QED  BY <1>1, <1>2 DEF Visits
<1>4. VisitIsTrusted(new)
  <2> HIDE DEF new
  <2> QED  BY <1>1, <1>3 DEF VisitIsTrusted
<1>5. visit' = [visit EXCEPT ![v] = new] /\ UNCHANGED <<endpointOf, presents, pins, confirmed>>
  BY DEF Trusted, TrustTyped, Handshake, settingVars, worldVars, probeVars
<1> HIDE DEF new
<1> QED  BY <1>3, <1>4, <1>5, TrustedVisit

\* A session starts from the pin of its endpoint as it is now, or from an authority.
LEMMA TrustedOpens ==
  ASSUME Trusted, NEW v \in Callers, NEW h \in Hosts, NEW kind \in {"check", "session"},
         OpenSession(v, h, kind)
  PROVE  Trusted'
<1> DEFINE new == resolve_ssh_service_target(h, kind)
<1>1. endpointOf[h] \in Endpoints /\ build_trust_source(h) \in Keys \union {NoKey, Authority}
  BY DEF Trusted, TrustTyped, build_trust_source
<1>2. /\ build_trust_source(h) = Authority
         \/ <<endpointOf[h], build_trust_source(h)>> \in confirmed
  BY <1>1 DEF Trusted, PinsAreConfirmed, OpenSession, supports_ssh_service_target,
              build_trust_source
<1>3. new \in Visits /\ new.at = "resolve" /\ new.endpoint = endpointOf[h]
      /\ new.pin = build_trust_source(h)
  BY <1>1 DEF resolve_ssh_service_target, Visits
<1>4. VisitIsTrusted(new)
  <2> HIDE DEF new
  <2> QED  BY <1>1, <1>2, <1>3 DEF VisitIsTrusted
<1>5. visit' = [visit EXCEPT ![v] = new] /\ UNCHANGED <<endpointOf, presents, pins, confirmed>>
  BY DEF OpenSession, settingVars, worldVars, probeVars
<1> HIDE DEF new
<1> QED  BY <1>3, <1>4, <1>5, TrustedVisit

\* A probe needs no trust, and is never sent a credential.
LEMMA TrustedProbes ==
  ASSUME Trusted, NEW h \in Hosts, run_host_key_probe(h)
  PROVE  Trusted'
<1> DEFINE new == resolve_ssh_service_probe_target(h)
<1>1. endpointOf[h] \in Endpoints
  BY DEF Trusted, TrustTyped
<1>2. new \in Visits /\ new.at = "resolve" /\ new.endpoint = endpointOf[h] /\ new.kind = "probe"
  BY <1>1 DEF resolve_ssh_service_probe_target, Visits
<1>3. VisitIsTrusted(new)
  <2> HIDE DEF new
  <2> QED  BY <1>1, <1>2 DEF VisitIsTrusted
<1>4. visit' = [visit EXCEPT ![RouterLane] = new] /\ UNCHANGED <<endpointOf, presents, pins, confirmed>>
  BY DEF run_host_key_probe, settingVars, worldVars, probeVars
<1>5. RouterLane \in Callers
  BY DEF Callers
<1> HIDE DEF new
<1> QED  BY <1>2, <1>3, <1>4, <1>5, TrustedVisit

\* Sessions stay as they are: pins are pinned with a confirmation, or forgotten, and settings
\* and the world change.
LEMMA TrustedPins ==
  ASSUME Trusted, visit' = visit, confirmed \subseteq confirmed',
         endpointOf' \in [Hosts -> Endpoints], presents' \in [Endpoints -> Keys],
         pins' \in [Endpoints -> Keys \union {NoKey}],
         \A e \in Endpoints : pins'[e] \in {pins[e], NoKey} \/ <<e, pins'[e]>> \in confirmed'
  PROVE  Trusted'
<1>1. TrustTyped'
  BY DEF Trusted, TrustTyped
<1>2. PinsAreConfirmed'
  BY DEF Trusted, PinsAreConfirmed
<1>3. \A v \in Callers : VisitIsTrusted(visit[v])'
  BY DEF Trusted, VisitIsTrusted
<1> QED  BY <1>1, <1>2, <1>3 DEF Trusted

\* A pin moves only to nothing, or from nothing to a key just confirmed.
LEMMA TrustPins ==
  ASSUME Trusted, NEW i, NEW h \in Hosts, NEW k \in Keys, NEW wrote \in BOOLEAN,
         server_host_key_trust(i, h, k, wrote)
  PROVE  Trusted' /\ PinIsStable
<1>1. endpointOf[h] \in Endpoints /\ pins \in [Endpoints -> Keys \union {NoKey}]
  BY DEF Trusted, TrustTyped
<1>2. /\ confirmed' = confirmed \union {<<issued[i].endpoint, issued[i].key>>}
      /\ UNCHANGED <<endpointOf, presents, visit>>
  BY DEF server_host_key_trust, settingVars, worldVars
<1>3. CASE pins' = pins
  <2>1. Trusted'
    BY <1>1, <1>2, <1>3, TrustedPins DEF Trusted, TrustTyped
  <2> QED  BY <2>1, <1>3 DEF PinIsStable
<1>4. CASE /\ Claims(i, h, k) /\ MayPin(endpointOf[h], k)
           /\ pins' = [pins EXCEPT ![endpointOf[h]] = k]
  <2>1. <<endpointOf[h], k>> \in confirmed' /\ pins[endpointOf[h]] \in {NoKey, k}
    BY <1>2, <1>4 DEF Claims, MayPin
  <2>2. /\ pins' \in [Endpoints -> Keys \union {NoKey}] /\ pins'[endpointOf[h]] = k
        /\ \A e \in Endpoints : e # endpointOf[h] => pins'[e] = pins[e]
    BY <1>1, <1>4
  <2>3. Trusted'
    BY <1>2, <2>1, <2>2, TrustedPins DEF Trusted, TrustTyped
  <2> QED  BY <2>1, <2>2, <2>3 DEF PinIsStable
<1> QED  BY <1>3, <1>4 DEF server_host_key_trust, pin, write_atomic

\* Every step keeps the trust and moves no pin to another key.
LEMMA TrustedNext ==
  ASSUME Trusted, HostTrustNext
  PROVE  Trusted' /\ PinIsStable
<1>0. RouterLane \in Callers /\ Visitors \subseteq Callers
  BY DEF Callers
<1> USE DEF settingVars, worldVars, probeVars, resolverVars
<1>s. ASSUME pins' = pins PROVE PinIsStable
  BY <1>s DEF PinIsStable
<1>1. ASSUME NEW e \in Endpoints, NEW k \in Keys, KeyChanges(e, k) PROVE Trusted' /\ PinIsStable
  BY <1>1, <1>s, TrustedPins DEF KeyChanges, Trusted, TrustTyped
<1>2. ASSUME NEW i, TicketExpires(i) PROVE Trusted' /\ PinIsStable
  BY <1>2, <1>s, TrustedPins DEF TicketExpires, Trusted, TrustTyped
<1>3. ASSUME NEW h \in Hosts, NEW e \in Endpoints, NEW ca \in BOOLEAN, server_update(h, e, ca)
      PROVE  Trusted' /\ PinIsStable
  BY <1>3, <1>s, TrustedPins DEF server_update, Trusted, TrustTyped
<1>4. ASSUME NEW v \in Callers, NEW h \in Hosts, NEW kind \in {"check", "session"},
             OpenSession(v, h, kind)
      PROVE  Trusted' /\ PinIsStable
  BY <1>4, <1>s, TrustedOpens DEF OpenSession
<1>5. ASSUME NEW h \in Hosts, run_host_key_probe(h) PROVE Trusted' /\ PinIsStable
  BY <1>5, <1>s, TrustedProbes DEF run_host_key_probe
<1>6. ASSUME NEW v \in Callers, NEW numeric \in BOOLEAN, resolve_address_list(v, numeric)
      PROVE  Trusted' /\ PinIsStable
  <2>1. PICK step \in {"dial", "lookup"} : visit' = [visit EXCEPT ![v].at = step]
    BY <1>6 DEF resolve_address_list
  <2>2. visit[v].at # "idle" /\ UNCHANGED <<endpointOf, presents, pins, confirmed>>
    BY <1>6 DEF resolve_address_list
  <2> QED  BY <2>1, <2>2, <1>s, TrustedGoes
<1>7. ASSUME NEW v \in Callers, LookupDone(v) PROVE Trusted' /\ PinIsStable
  BY <1>7, <1>s, TrustedGoes DEF LookupDone
<1>8. CASE StrayReturns \/ SlotReturned
  BY <1>8, <1>s, TrustedPins DEF StrayReturns, SlotReturned, Trusted, TrustTyped
<1>9. ASSUME NEW v \in Callers, Handshake(v) PROVE Trusted' /\ PinIsStable
  BY <1>9, <1>s, TrustedHandshake DEF Handshake
<1>10. ASSUME NEW v \in Callers, connect_authenticated(v) PROVE Trusted' /\ PinIsStable
  BY <1>10, <1>s, TrustedGoes DEF connect_authenticated
<1>11. ASSUME NEW v \in Callers, Authenticated(v) PROVE Trusted' /\ PinIsStable
  BY <1>11, <1>s, TrustedGoes DEF Authenticated
<1>12. ASSUME NEW v \in Callers, CloseSession(v) PROVE Trusted' /\ PinIsStable
  BY <1>12, <1>s, TrustedEnds DEF CloseSession
<1>13. ASSUME NEW wrote \in BOOLEAN, server_connect(wrote) PROVE Trusted' /\ PinIsStable
  BY <1>0, <1>13, <1>s, TrustedEnds DEF server_connect
<1>14. ASSUME NEW v \in Callers, NEW wrote \in BOOLEAN, Fail(v, wrote) PROVE Trusted' /\ PinIsStable
  BY <1>14, <1>s, TrustedEnds DEF Fail
<1>15. ASSUME NEW h \in Hosts, server_disconnect(h) PROVE Trusted' /\ PinIsStable
  BY <1>15, <1>s, TrustedPins DEF server_disconnect, Trusted, TrustTyped
<1>16. CASE server_host_key_probe
  BY <1>0, <1>16, <1>s, TrustedEnds DEF server_host_key_probe
<1>17. ASSUME NEW h \in Hosts, NEW wrote \in BOOLEAN, server_host_key_forget(h, wrote)
       PROVE  Trusted' /\ PinIsStable
  <2>1. pins \in [Endpoints -> Keys \union {NoKey}] /\ endpointOf[h] \in Endpoints
    BY DEF Trusted, TrustTyped
  <2>2. /\ pins' \in [Endpoints -> Keys \union {NoKey}]
        /\ \A e \in Endpoints : pins'[e] \in {pins[e], NoKey}
    BY <1>17, <2>1 DEF server_host_key_forget, forget, write_atomic
  <2>3. UNCHANGED <<endpointOf, presents, confirmed, visit>>
    BY <1>17 DEF server_host_key_forget
  <2>4. Trusted'
    BY <2>2, <2>3, TrustedPins DEF Trusted, TrustTyped
  <2> QED  BY <2>2, <2>4 DEF PinIsStable
<1> QED
  BY <1>1, <1>2, <1>3, <1>4, <1>5, <1>6, <1>7, <1>8, <1>9, <1>10, <1>11, <1>12, <1>13, <1>14,
     <1>15, <1>16, <1>17, TrustPins
  DEF HostTrustNext

\* What a step of other components leaves.
LEMMA TrustedStutter ==
  ASSUME Trusted, UNCHANGED trustVars
  PROVE  Trusted'
<1>1. UNCHANGED <<endpointOf, presents, pins, confirmed, visit>>
  BY DEF trustVars, settingVars, worldVars, probeVars
<1> QED  BY <1>1, TrustedPins DEF Trusted, TrustTyped

\* Trusted is an invariant of host trust.
THEOREM TrustedInvariant == HostTrustSpec => []Trusted
<1>1. Trusted /\ [HostTrustNext]_trustVars => Trusted'
  BY TrustedNext, TrustedStutter
<1> QED  BY <1>1, TrustedInit, PTL DEF HostTrustSpec

\* A credential is sent only to a key the user confirmed for the endpoint dialled, or one the
\* configured authority certified, and a pin moves to another key only by way of forgetting it
\* (claim_probe_ticket, connect_authenticated, server_host_key_trust), for every set of hosts,
\* endpoints, keys and threads and any number of probes and key changes.
THEOREM TrustTheorem == HostTrustSpec => TrustIsKept
<1>2. Trusted /\ Trusted' /\ [HostTrustNext]_trustVars
        => [CredentialsGoToConfirmed' /\ PinIsStable]_trustVars
  <2> SUFFICES ASSUME Trusted, Trusted', HostTrustNext
               PROVE  CredentialsGoToConfirmed' /\ PinIsStable
    OBVIOUS
  <2>1. CredentialsGoToConfirmed'
    BY DEF Trusted, VisitIsTrusted, CredentialsGoToConfirmed
  <2> QED  BY <2>1, TrustedNext
<1> QED  BY <1>2, TrustedInvariant, PTL DEF HostTrustSpec, TrustIsKept

----------------------------------------------------------------------------
(* Guarded replacement: whole contents, an honest report, no unseen contents lost *)

Edits ==
  [at : {"read", "inspect", "create", "write", "seal", "failed", "before", "verify", "recheck",
         "rename", "renaming", "published", "done"},
   base : Contents \union {Absent}, mtime : Nat, new : Contents \union {Absent},
   created : BOOLEAN,
   outcome : {"none", "concurrent_change", "replace_unsupported", "timeout", "sftp_error",
              "metadata_not_preserved", "completed"}]

ReplaceTyped ==
  /\ destination \in [content : Contents, mtime : Nat]
  /\ stageFile \in [Editors -> Contents \union {Partial, Absent}]
  /\ edit \in [Editors -> Edits]
  /\ inFlight \subseteq Editors /\ published \subseteq Editors

\* The stage of a call that has written it is whole, and stays so while a rename is in flight.
StageIsWhole(e) ==
  /\ edit[e].at # "read" => edit[e].new \in Contents
  /\ edit[e].at \in {"seal", "before", "verify", "recheck", "rename"} => stageFile[e] = edit[e].new
  /\ e \in inFlight => stageFile[e] \in Contents

\* Where a call whose rename was sent can stand, and what it can have reported.
RenameIsPlaced(e) ==
  /\ edit[e].at # "done" => edit[e].outcome = "none"
  /\ e \in inFlight => /\ edit[e].at \in {"renaming", "done"} /\ e \notin published
                       /\ edit[e].outcome \in {"none", "timeout"}
  /\ e \in published => /\ edit[e].at \in {"renaming", "published", "done"}
                        /\ stageFile[e] = Absent
                        /\ edit[e].outcome \notin {"replace_unsupported", "metadata_not_preserved"}
  /\ edit[e].at = "published" \/ edit[e].outcome = "completed" => e \in published

\* What the content check saw is still there, or the call's target was disturbed.
CheckHolds(e) ==
  edit[e].at \in {"recheck", "rename"} \/ e \in inFlight =>
    destination.content = edit[e].base \/ e \in disturbed

Guarded ==
  /\ ReplaceTyped
  /\ \A e \in Editors : StageIsWhole(e) /\ RenameIsPlaced(e) /\ CheckHolds(e)

\* A file that was read by nobody is guarded.
LEMMA GuardedInit == GuardedReplaceInit => Guarded
<1> SUFFICES ASSUME GuardedReplaceInit PROVE Guarded
  OBVIOUS
<1>1. (CHOOSE c \in Short : TRUE) \in Contents
  BY GuardedReplaceAssumption
<1>2. NoEdit \in Edits /\ NoEdit.at = "read" /\ NoEdit.outcome = "none"
  BY DEF NoEdit, Edits
<1>3. ReplaceTyped
  BY <1>1, <1>2 DEF GuardedReplaceInit, ReplaceTyped
<1>4. \A e \in Editors : StageIsWhole(e) /\ RenameIsPlaced(e) /\ CheckHolds(e)
  BY <1>2 DEF GuardedReplaceInit, StageIsWhole, RenameIsPlaced, CheckHolds
<1> QED  BY <1>3, <1>4 DEF Guarded

\* One call moves, and perhaps its stage; the target and the other calls stay.
LEMMA GuardedCall ==
  ASSUME Guarded, NEW e \in Editors, NEW new \in Edits, NEW stage \in Contents \union {Partial, Absent},
         edit' = [edit EXCEPT ![e] = new], stageFile' = [stageFile EXCEPT ![e] = stage],
         UNCHANGED <<destination, published>>,
         inFlight' \subseteq inFlight \union {e}, \A o \in Editors \ {e} : o \in inFlight => o \in inFlight',
         \A o \in Editors \ {e} : o \in disturbed => o \in disturbed',
         StageIsWhole(e)' /\ RenameIsPlaced(e)' /\ CheckHolds(e)'
  PROVE  Guarded'
<1>1. /\ edit \in [Editors -> Edits] /\ stageFile \in [Editors -> Contents \union {Partial, Absent}]
      /\ destination \in [content : Contents, mtime : Nat] /\ inFlight \subseteq Editors
      /\ published \subseteq Editors
  BY DEF Guarded, ReplaceTyped
<1>2. /\ edit' \in [Editors -> Edits] /\ stageFile' \in [Editors -> Contents \union {Partial, Absent}]
      /\ \A o \in Editors \ {e} : edit'[o] = edit[o] /\ stageFile'[o] = stageFile[o]
  BY <1>1
<1>3. ReplaceTyped'
  BY <1>1, <1>2 DEF ReplaceTyped
<1>4. ASSUME NEW o \in Editors, o # e PROVE (StageIsWhole(o) /\ RenameIsPlaced(o) /\ CheckHolds(o))'
  <2>1. StageIsWhole(o) /\ RenameIsPlaced(o) /\ CheckHolds(o)
    BY DEF Guarded
  <2>2. edit'[o] = edit[o] /\ stageFile'[o] = stageFile[o] /\ (o \in inFlight <=> o \in inFlight')
    BY <1>2, <1>4
  <2> QED  BY <1>4, <2>1, <2>2 DEF StageIsWhole, RenameIsPlaced, CheckHolds
<1> QED  BY <1>3, <1>4 DEF Guarded

\* A call that only moves, at a place where nothing of it is in flight.
LEMMA GuardedMoves ==
  ASSUME Guarded, NEW e \in Editors, NEW step,
         \/ edit[e].at \in {"inspect"} /\ step = "create"
         \/ edit[e].at \in {"seal"} /\ step \in {"failed", "before"}
         \/ edit[e].at = "before" /\ step = "verify"
         \/ edit[e].at = "verify" /\ step = "recheck" /\ destination.content = edit[e].base
         \/ edit[e].at = "recheck" /\ step = "rename"
         \/ edit[e].at = "renaming" /\ step = "published" /\ e \in published,
         MoveTo(e, step), UNCHANGED <<destination, stageFile, inFlight, published>>,
         disturbed' \subseteq disturbed, disturbed \subseteq disturbed' \union {e},
         step # "recheck" => disturbed' = disturbed
  PROVE  Guarded'
<1> DEFINE old == edit[e]
           new == [old EXCEPT !.at = step]
<1>1. old \in Edits /\ stageFile \in [Editors -> Contents \union {Partial, Absent}]
      /\ edit \in [Editors -> Edits]
  BY DEF Guarded, ReplaceTyped
<1>2. /\ new \in Edits /\ new.at = step /\ new.base = old.base /\ new.new = old.new
      /\ new.outcome = old.outcome
  <2> HIDE DEF old
  <2> QED  BY <1>1 DEF Edits
<1>3. edit' = [edit EXCEPT ![e] = new]
  BY <1>1 DEF MoveTo
<1>4. edit'[e] = new /\ stageFile' = [stageFile EXCEPT ![e] = stageFile[e]]
  BY <1>1, <1>3
<1>5. StageIsWhole(e) /\ RenameIsPlaced(e) /\ CheckHolds(e)
  BY DEF Guarded
<1> HIDE DEF new
<1>6. StageIsWhole(e)' /\ RenameIsPlaced(e)'
  BY <1>2, <1>4, <1>5 DEF StageIsWhole, RenameIsPlaced
<1>7. CheckHolds(e)'
  BY <1>2, <1>4, <1>5 DEF CheckHolds, RenameIsPlaced
<1>8. stageFile[e] \in Contents \union {Partial, Absent}
  BY <1>1
<1> QED  BY <1>2, <1>3, <1>4, <1>6, <1>7, <1>8, GuardedCall

\* A call ends: it removes its stage only when no rename of it is in flight.
LEMMA GuardedEnds ==
  ASSUME Guarded, NEW e \in Editors, NEW outcome, NEW cleaned \in BOOLEAN, Ends(e, outcome, cleaned),
         edit[e].at \notin {"read", "done"},
         \/ outcome \in {"concurrent_change", "timeout", "sftp_error"}
         \/ outcome \in {"replace_unsupported", "metadata_not_preserved"} /\ e \notin published
         \/ outcome = "completed" /\ e \in published,
         e \in inFlight => outcome = "timeout"
  PROVE  Guarded'
<1> DEFINE old == edit[e]
           new == [old EXCEPT !.at = "done", !.outcome = outcome]
           stage == IF stageFile' = stageFile THEN stageFile[e] ELSE Absent
<1>1. old \in Edits /\ stageFile \in [Editors -> Contents \union {Partial, Absent}]
      /\ edit \in [Editors -> Edits]
  BY DEF Guarded, ReplaceTyped
<1>2. new \in Edits /\ new.at = "done" /\ new.new = old.new /\ new.outcome = outcome /\ new.base = old.base
  <2> HIDE DEF old
  <2> QED  BY <1>1 DEF Edits
<1>3. edit' = [edit EXCEPT ![e] = new]
  BY <1>1 DEF Ends
<1>4. edit'[e] = new
  BY <1>1, <1>3
<1>5. \/ stageFile' = stageFile
      \/ stageFile' = [stageFile EXCEPT ![e] = Absent] /\ e \notin inFlight
  BY DEF Ends, Cleans
<1>6. /\ stageFile' = [stageFile EXCEPT ![e] = stage] /\ stage \in Contents \union {Partial, Absent}
      /\ stageFile'[e] = stage
  BY <1>1, <1>5
<1>7. UNCHANGED <<destination, inFlight, published, disturbed>>
  BY DEF Ends
<1>8. StageIsWhole(e) /\ RenameIsPlaced(e) /\ CheckHolds(e)
  BY DEF Guarded
<1>9. stageFile'[e] = stageFile[e] \/ (stageFile'[e] = Absent /\ e \notin inFlight)
  BY <1>1, <1>5
<1> HIDE DEF new, stage
<1>10. StageIsWhole(e)' /\ RenameIsPlaced(e)' /\ CheckHolds(e)'
  BY <1>2, <1>4, <1>7, <1>8, <1>9 DEF StageIsWhole, RenameIsPlaced, CheckHolds
<1> QED  BY <1>2, <1>3, <1>6, <1>7, <1>10, GuardedCall

\* The target changes: whoever had checked its contents is disturbed.
LEMMA GuardedTarget ==
  ASSUME Guarded, NEW except \in SUBSET Editors, NEW target \in [content : Contents, mtime : Nat],
         destination' = target, Disturb(except), edit' = edit,
         inFlight' = inFlight \ except, published' = published \union except,
         stageFile' \in [Editors -> Contents \union {Partial, Absent}],
         \A o \in Editors \ except : stageFile'[o] = stageFile[o],
         \A e \in except : e \in inFlight /\ stageFile'[e] = Absent
  PROVE  Guarded'
<1>1. ReplaceTyped'
  BY DEF Guarded, ReplaceTyped
<1>2. ASSUME NEW o \in Editors PROVE (StageIsWhole(o) /\ RenameIsPlaced(o) /\ CheckHolds(o))'
  <2>1. StageIsWhole(o) /\ RenameIsPlaced(o) /\ CheckHolds(o)
    BY DEF Guarded
  <2>2. CASE o \in except
    BY <2>1, <2>2 DEF StageIsWhole, RenameIsPlaced, CheckHolds
  <2>3. CASE o \notin except
    <3>1. edit[o].at \in {"recheck", "rename"} \/ o \in inFlight => o \in disturbed'
      BY <2>3 DEF Disturb
    <3>2. stageFile'[o] = stageFile[o] /\ (o \in inFlight' <=> o \in inFlight)
          /\ (o \in published' <=> o \in published)
      BY <2>3
    <3> QED  BY <2>1, <3>1, <3>2 DEF StageIsWhole, RenameIsPlaced, CheckHolds
  <2> QED  BY <2>2, <2>3
<1> QED  BY <1>1, <1>2 DEF Guarded

\* Another program writes, or the server executes a rename, perhaps of a caller that gave up.
LEMMA GuardedWorld ==
  ASSUME Guarded,
         \/ \E c \in Contents, tick \in 0..1 : RemoteWrite(c, tick)
         \/ \E e \in Editors : ServerRenames(e)
  PROVE  Guarded'
<1>0. /\ destination \in [content : Contents, mtime : Nat] /\ edit \in [Editors -> Edits]
      /\ stageFile \in [Editors -> Contents \union {Partial, Absent}]
  BY DEF Guarded, ReplaceTyped
<1>1. ASSUME NEW c \in Contents, NEW tick \in 0..1, RemoteWrite(c, tick) PROVE Guarded'
  <2> DEFINE target == [content |-> c, mtime |-> destination.mtime + tick]
  <2>1. destination.mtime + tick \in Nat
    <3>1. destination.mtime \in Nat
      BY <1>0
    <3> QED  BY <3>1
  <2>2. target \in [content : Contents, mtime : Nat]
    BY <2>1
  <2>3. /\ destination' = target /\ Disturb({}) /\ edit' = edit /\ inFlight' = inFlight \ {}
        /\ published' = published \union {} /\ stageFile' = stageFile
    BY <1>1 DEF RemoteWrite
  <2> HIDE DEF target
  <2> QED  BY <1>0, <2>2, <2>3, GuardedTarget
<1>2. ASSUME NEW e \in Editors, ServerRenames(e) PROVE Guarded'
  <2> DEFINE target == [content |-> stageFile[e], mtime |-> Carried(e)]
  <2>1. stageFile[e] \in Contents /\ e \in inFlight
    BY <1>2 DEF ServerRenames, Guarded, StageIsWhole
  <2>2. Carried(e) \in Nat
    BY <1>0 DEF Carried, Edits
  <2>3. target \in [content : Contents, mtime : Nat]
    BY <2>1, <2>2
  <2>4. /\ destination' = target /\ Disturb({e}) /\ edit' = edit /\ inFlight' = inFlight \ {e}
        /\ published' = published \union {e} /\ stageFile' = [stageFile EXCEPT ![e] = Absent]
    BY <1>2 DEF ServerRenames
  <2>5. /\ stageFile' \in [Editors -> Contents \union {Partial, Absent}] /\ stageFile'[e] = Absent
        /\ \A o \in Editors \ {e} : stageFile'[o] = stageFile[o]
    BY <1>0, <2>4
  <2> HIDE DEF target
  <2> QED  BY <2>1, <2>3, <2>4, <2>5, GuardedTarget
<1> QED  BY <1>1, <1>2

\* The caller has read the file; its stage is created, answered or not, and written.
LEMMA GuardedStages ==
  ASSUME Guarded, NEW e \in Editors,
         \/ \E c \in Contents : Read(e, c)
         \/ \E answer \in {"refused", "created", "lost"} : CreateStage(e, answer)
         \/ \E whole \in BOOLEAN : WriteStage(e, whole)
  PROVE  Guarded'
<1> DEFINE old == edit[e]
<1>0. /\ destination \in [content : Contents, mtime : Nat] /\ edit \in [Editors -> Edits]
      /\ stageFile \in [Editors -> Contents \union {Partial, Absent}]
      /\ old \in Edits /\ stageFile[e] \in Contents \union {Partial, Absent}
  BY DEF Guarded, ReplaceTyped
<1>00. StageIsWhole(e) /\ RenameIsPlaced(e) /\ CheckHolds(e)
  BY DEF Guarded
<1>1. ASSUME NEW c \in Contents, Read(e, c) PROVE Guarded'
  <2> DEFINE new == [NoEdit EXCEPT !.at = "inspect", !.base = destination.content,
                                   !.mtime = destination.mtime, !.new = c]
  <2>1. destination.content \in Contents /\ destination.mtime \in Nat
    BY <1>0
  <2>2. new \in Edits /\ new.at = "inspect" /\ new.new = c /\ new.outcome = "none"
    BY <2>1 DEF NoEdit, Edits
  <2>3. /\ edit' = [edit EXCEPT ![e] = new] /\ old.at = "read"
        /\ UNCHANGED <<destination, stageFile, inFlight, published, disturbed>>
    BY <1>1 DEF Read, Stands
  <2> HIDE DEF new
  <2>4. edit'[e] = new /\ stageFile' = [stageFile EXCEPT ![e] = stageFile[e]]
    BY <1>0, <2>3
  <2>5. StageIsWhole(e)' /\ RenameIsPlaced(e)' /\ CheckHolds(e)'
    BY <1>00, <2>2, <2>3, <2>4 DEF StageIsWhole, RenameIsPlaced, CheckHolds
  <2> QED  BY <1>0, <2>2, <2>3, <2>4, <2>5, GuardedCall
<1>2. ASSUME NEW answer \in {"refused", "created", "lost"}, CreateStage(e, answer) PROVE Guarded'
  <2>0. old.at = "create" /\ e \notin inFlight /\ e \notin published
    BY <1>00, <1>2 DEF CreateStage, Stands, RenameIsPlaced
  <2>1. CASE Ends(e, "replace_unsupported", FALSE)
    BY <2>0, <2>1, GuardedEnds
  <2>2. CASE /\ stageFile' = [stageFile EXCEPT ![e] = Partial]
             /\ \/ edit' = [edit EXCEPT ![e].at = "write", ![e].created = TRUE]
                \/ edit' = [edit EXCEPT ![e].at = "done", ![e].outcome = "timeout"]
             /\ UNCHANGED <<destination, inFlight, published, disturbed>>
    <3>1. PICK new :
            /\ edit' = [edit EXCEPT ![e] = new]
            /\ \/ new = [old EXCEPT !.at = "write", !.created = TRUE]
               \/ new = [old EXCEPT !.at = "done", !.outcome = "timeout"]
      BY <1>0, <2>2
    <3> HIDE DEF old
    <3>2. /\ new \in Edits /\ new.new = old.new
          /\ \/ new.at = "write" /\ new.outcome = old.outcome
             \/ new.at = "done" /\ new.outcome = "timeout"
      BY <1>0, <3>1 DEF Edits
    <3>3. edit'[e] = new /\ stageFile'[e] = Partial
      BY <1>0, <2>2, <3>1
    <3>4. StageIsWhole(e)' /\ RenameIsPlaced(e)' /\ CheckHolds(e)'
      BY <1>00, <2>0, <2>2, <3>2, <3>3 DEF StageIsWhole, RenameIsPlaced, CheckHolds, old
    <3> QED  BY <2>2, <3>1, <3>2, <3>4, GuardedCall
  <2> QED  BY <1>2, <2>1, <2>2 DEF CreateStage
<1>3. ASSUME NEW whole \in BOOLEAN, WriteStage(e, whole) PROVE Guarded'
  <2>0. old.at = "write" /\ e \notin inFlight /\ e \notin published /\ old.new \in Contents
    BY <1>00, <1>3 DEF WriteStage, Stands, RenameIsPlaced, StageIsWhole
  <2> DEFINE step == IF whole THEN "seal" ELSE "failed"
             stage == IF whole THEN old.new ELSE Partial
             new == [old EXCEPT !.at = step]
  <2>1. /\ edit' = [edit EXCEPT ![e] = new] /\ stageFile' = [stageFile EXCEPT ![e] = stage]
        /\ UNCHANGED <<destination, inFlight, published, disturbed>>
    BY <1>0, <1>3 DEF WriteStage
  <2>2. /\ step \in {"seal", "failed"} /\ (step = "seal" => stage = old.new)
        /\ stage \in Contents \union {Partial, Absent}
    BY <2>0
  <2> HIDE DEF step, stage
  <2>3. new \in Edits /\ new.at = step /\ new.new = old.new /\ new.outcome = old.outcome
    <3> HIDE DEF old
    <3> QED  BY <1>0, <2>2 DEF Edits
  <2> HIDE DEF new
  <2>4. edit'[e] = new /\ stageFile'[e] = stage
    BY <1>0, <2>1
  <2>5. StageIsWhole(e)' /\ RenameIsPlaced(e)' /\ CheckHolds(e)'
    BY <1>00, <2>0, <2>1, <2>2, <2>3, <2>4 DEF StageIsWhole, RenameIsPlaced, CheckHolds
  <2> QED  BY <2>1, <2>2, <2>3, <2>5, GuardedCall
<1> QED  BY <1>1, <1>2, <1>3

\* The rename is sent, or refused by a server that has done nothing.
LEMMA GuardedSends ==
  ASSUME Guarded, NEW e \in Editors,
         SendRename(e) \/ \E cleaned \in BOOLEAN : RenameRefused(e, cleaned)
  PROVE  Guarded'
<1> DEFINE old == edit[e]
<1>0. /\ edit \in [Editors -> Edits] /\ stageFile \in [Editors -> Contents \union {Partial, Absent}]
      /\ old \in Edits /\ stageFile[e] \in Contents \union {Partial, Absent}
  BY DEF Guarded, ReplaceTyped
<1>00. StageIsWhole(e) /\ RenameIsPlaced(e) /\ CheckHolds(e)
  BY DEF Guarded
<1>1. CASE SendRename(e)
  <2> DEFINE new == [old EXCEPT !.at = "renaming"]
  <2>1. /\ edit' = [edit EXCEPT ![e] = new] /\ old.at = "rename" /\ inFlight' = inFlight \union {e}
        /\ UNCHANGED <<destination, stageFile, published, disturbed>>
    BY <1>0, <1>1 DEF SendRename, MoveTo, Stands
  <2>2. /\ new \in Edits /\ new.at = "renaming" /\ new.new = old.new /\ new.outcome = old.outcome
        /\ new.base = old.base
    <3> HIDE DEF old
    <3> QED  BY <1>0 DEF Edits
  <2> HIDE DEF new
  <2>3. edit'[e] = new /\ stageFile' = [stageFile EXCEPT ![e] = stageFile[e]]
    BY <1>0, <2>1
  <2>4. StageIsWhole(e)' /\ RenameIsPlaced(e)' /\ CheckHolds(e)'
    BY <1>00, <2>1, <2>2, <2>3 DEF StageIsWhole, RenameIsPlaced, CheckHolds
  <2> QED  BY <1>0, <2>1, <2>2, <2>3, <2>4, GuardedCall
<1>2. ASSUME NEW cleaned \in BOOLEAN, RenameRefused(e, cleaned) PROVE Guarded'
  <2> DEFINE new == [old EXCEPT !.at = "done", !.outcome = "replace_unsupported"]
             stage == IF cleaned THEN Absent ELSE stageFile[e]
  <2>1. /\ edit' = [edit EXCEPT ![e] = new] /\ old.at = "renaming" /\ e \in inFlight
        /\ inFlight' = inFlight \ {e} /\ UNCHANGED <<destination, published, disturbed>>
    BY <1>0, <1>2 DEF RenameRefused, Stands
  <2>2. new \in Edits /\ new.at = "done" /\ new.new = old.new /\ new.outcome = "replace_unsupported"
    <3> HIDE DEF old
    <3> QED  BY <1>0 DEF Edits
  <2>3. /\ stageFile' = [stageFile EXCEPT ![e] = stage]
        /\ stage \in Contents \union {Partial, Absent}
    BY <1>0, <1>2 DEF RenameRefused
  <2> HIDE DEF new, stage
  <2>4. edit'[e] = new
    BY <1>0, <2>1
  <2>5. StageIsWhole(e)' /\ RenameIsPlaced(e)' /\ CheckHolds(e)'
    BY <1>00, <2>1, <2>2, <2>4 DEF StageIsWhole, RenameIsPlaced, CheckHolds
  <2> QED  BY <2>1, <2>2, <2>3, <2>5, GuardedCall
<1> QED  BY <1>1, <1>2

\* A check of the metadata lets the call go on, or ends it.
LEMMA GuardedChecks ==
  ASSUME Guarded, NEW e \in Editors, NEW cleaned \in BOOLEAN, NEW step, NEW next,
         \/ step = "inspect" /\ next = "create"
         \/ step = "before" /\ next = "verify"
         \/ step = "recheck" /\ next = "rename",
         Checks(e, step, next, cleaned)
  PROVE  Guarded'
<1>1. RenameIsPlaced(e) /\ edit[e].at = step
  BY DEF Guarded, Checks, Stands
<1>2. e \notin inFlight /\ edit[e].at \notin {"read", "done"}
  BY <1>1 DEF RenameIsPlaced
<1>3. CASE MoveTo(e, next) /\ UNCHANGED <<destination, stageFile, inFlight, published, disturbed>>
  BY <1>1, <1>3, GuardedMoves
<1>4. CASE Ends(e, "concurrent_change", cleaned)
  BY <1>2, <1>4, GuardedEnds
<1> QED  BY <1>3, <1>4 DEF Checks

\* The steps of a call that move it or end it and touch nothing else of the remote host.
LEMMA GuardedSteps ==
  ASSUME Guarded, NEW e \in Editors,
         \/ \E cleaned \in BOOLEAN : StageFailed(e, cleaned)
         \/ \E synced, preserved, cleaned \in BOOLEAN : SealStage(e, synced, preserved, cleaned)
         \/ \E cleaned \in BOOLEAN : VerifyContent(e, cleaned)
         \/ RenameAnswered(e)
         \/ \E cleaned \in BOOLEAN : RenameUnanswered(e, cleaned)
         \/ VerifyPublished(e)
         \/ \E cleaned \in BOOLEAN : TimesOut(e, cleaned)
  PROVE  Guarded'
<1>0. RenameIsPlaced(e)
  BY DEF Guarded
<1>1. ASSUME NEW cleaned \in BOOLEAN, StageFailed(e, cleaned) PROVE Guarded'
  <2>1. edit[e].at = "failed" /\ Ends(e, "sftp_error", cleaned)
    BY <1>1 DEF StageFailed, Stands
  <2> QED  BY <1>0, <2>1, GuardedEnds DEF RenameIsPlaced
<1>2. ASSUME NEW synced \in BOOLEAN, NEW preserved \in BOOLEAN, NEW cleaned \in BOOLEAN,
             SealStage(e, synced, preserved, cleaned)
      PROVE  Guarded'
  <2>1. edit[e].at = "seal" /\ e \notin inFlight /\ e \notin published
    BY <1>0, <1>2 DEF SealStage, Stands, RenameIsPlaced
  <2>2. CASE MoveTo(e, "failed") /\ UNCHANGED <<destination, stageFile, inFlight, published, disturbed>>
    BY <2>1, <2>2, GuardedMoves
  <2>3. CASE MoveTo(e, "before") /\ UNCHANGED <<destination, stageFile, inFlight, published, disturbed>>
    BY <2>1, <2>3, GuardedMoves
  <2>4. CASE Ends(e, "metadata_not_preserved", cleaned)
    BY <2>1, <2>4, GuardedEnds
  <2> QED  BY <1>2, <2>2, <2>3, <2>4 DEF SealStage
<1>3. ASSUME NEW cleaned \in BOOLEAN, VerifyContent(e, cleaned) PROVE Guarded'
  <2>1. edit[e].at = "verify" /\ e \notin inFlight
    BY <1>0, <1>3 DEF VerifyContent, Stands, RenameIsPlaced
  <2>2. CASE /\ DigestMatches(e) /\ MoveTo(e, "recheck") /\ disturbed' = disturbed \ {e}
             /\ UNCHANGED <<destination, stageFile, inFlight, published>>
    BY <2>1, <2>2, GuardedMoves DEF DigestMatches
  <2>3. CASE Ends(e, "concurrent_change", cleaned)
    BY <2>1, <2>3, GuardedEnds
  <2> QED  BY <1>3, <2>2, <2>3 DEF VerifyContent
<1>4. CASE RenameAnswered(e)
  BY <1>4, GuardedMoves DEF RenameAnswered, Stands
<1>5. ASSUME NEW cleaned \in BOOLEAN, RenameUnanswered(e, cleaned) PROVE Guarded'
  BY <1>5, GuardedEnds DEF RenameUnanswered, Stands, Unconfirmed
<1>6. CASE VerifyPublished(e)
  <2>1. edit[e].at = "published" /\ e \in published /\ e \notin inFlight
    BY <1>0, <1>6 DEF VerifyPublished, Stands, RenameIsPlaced
  <2>2. Ends(e, "completed", FALSE) \/ Ends(e, "concurrent_change", FALSE)
    BY <1>6 DEF VerifyPublished
  <2>3. CASE Ends(e, "completed", FALSE)
    BY <2>1, <2>3, GuardedEnds
  <2>4. CASE Ends(e, "concurrent_change", FALSE)
    BY <2>1, <2>4, GuardedEnds
  <2> QED  BY <2>2, <2>3, <2>4
<1>7. ASSUME NEW cleaned \in BOOLEAN, TimesOut(e, cleaned) PROVE Guarded'
  BY <1>7, GuardedEnds DEF TimesOut
<1> QED  BY <1>1, <1>2, <1>3, <1>4, <1>5, <1>6, <1>7

\* Nothing moves.
LEMMA GuardedStutter ==
  ASSUME Guarded, UNCHANGED replaceVars
  PROVE  Guarded'
BY DEF replaceVars, Guarded, ReplaceTyped, StageIsWhole, RenameIsPlaced, CheckHolds

\* Every step of the remote host and of the calls keeps the invariant.
LEMMA GuardedNext ==
  ASSUME Guarded, GuardedReplaceNext
  PROVE  Guarded'
<1>1. CASE \/ \E c \in Contents, tick \in 0..1 : RemoteWrite(c, tick)
           \/ \E e \in Editors : ServerRenames(e)
  BY <1>1, GuardedWorld
<1>2. ASSUME NEW e \in Editors,
             \/ \E c \in Contents : Read(e, c)
             \/ \E answer \in {"refused", "created", "lost"} : CreateStage(e, answer)
             \/ \E whole \in BOOLEAN : WriteStage(e, whole)
      PROVE  Guarded'
  BY <1>2, GuardedStages
<1>3. ASSUME NEW e \in Editors,
             SendRename(e) \/ \E cleaned \in BOOLEAN : RenameRefused(e, cleaned)
      PROVE  Guarded'
  BY <1>3, GuardedSends
<1>4. ASSUME NEW e \in Editors, NEW cleaned \in BOOLEAN,
             Inspect(e, cleaned) \/ BeforeRead(e, cleaned) \/ AfterRead(e, cleaned)
      PROVE  Guarded'
  <2>1. CASE Inspect(e, cleaned)
    BY <2>1, GuardedChecks DEF Inspect
  <2>2. CASE BeforeRead(e, cleaned)
    BY <2>2, GuardedChecks DEF BeforeRead
  <2>3. CASE AfterRead(e, cleaned)
    BY <2>3, GuardedChecks DEF AfterRead
  <2> QED  BY <1>4, <2>1, <2>2, <2>3
<1>5. ASSUME NEW e \in Editors,
             \/ \E cleaned \in BOOLEAN : StageFailed(e, cleaned)
             \/ \E synced, preserved, cleaned \in BOOLEAN : SealStage(e, synced, preserved, cleaned)
             \/ \E cleaned \in BOOLEAN : VerifyContent(e, cleaned)
             \/ RenameAnswered(e)
             \/ \E cleaned \in BOOLEAN : RenameUnanswered(e, cleaned)
             \/ VerifyPublished(e)
             \/ \E cleaned \in BOOLEAN : TimesOut(e, cleaned)
      PROVE  Guarded'
  BY <1>5, GuardedSteps
<1> QED  BY <1>1, <1>2, <1>3, <1>4, <1>5 DEF GuardedReplaceNext

\* A rename is executed by the server only, and of a call whose content check holds or whose
\* target was disturbed since.
LEMMA GuardedChecked ==
  ASSUME Guarded, [GuardedReplaceNext]_replaceVars
  PROVE  ReplacesChecked
<1> SUFFICES ASSUME NEW e \in Editors, e \in published', e \notin published
             PROVE  destination.content = edit[e].base \/ e \in disturbed
  BY DEF ReplacesChecked
<1>0. published' # published
  OBVIOUS
<1>e. ASSUME NEW o \in Editors, NEW outcome, NEW cleaned, Ends(o, outcome, cleaned) PROVE FALSE
  BY <1>0, <1>e DEF Ends
<1>c. ASSUME NEW o \in Editors, NEW step, NEW next, NEW cleaned, Checks(o, step, next, cleaned) PROVE FALSE
  BY <1>0, <1>c, <1>e DEF Checks
<1>1. \E o \in Editors : ServerRenames(o)
  <2>1. GuardedReplaceNext
    BY <1>0 DEF replaceVars
  <2>2. ASSUME NEW o \in Editors, NEW cleaned,
               \/ Inspect(o, cleaned) \/ BeforeRead(o, cleaned) \/ AfterRead(o, cleaned)
               \/ StageFailed(o, cleaned) \/ VerifyContent(o, cleaned)
               \/ RenameUnanswered(o, cleaned) \/ VerifyPublished(o) \/ TimesOut(o, cleaned)
        PROVE  FALSE
    BY <1>0, <1>c, <1>e, <2>2 DEF Inspect, BeforeRead, AfterRead, StageFailed, VerifyContent,
         RenameUnanswered, VerifyPublished, TimesOut
  <2>3. ASSUME NEW o \in Editors, NEW c, NEW synced, NEW preserved, NEW cleaned,
               \/ Read(o, c) \/ CreateStage(o, c) \/ WriteStage(o, c)
               \/ SealStage(o, synced, preserved, cleaned)
        PROVE  FALSE
    BY <1>0, <1>e, <2>3 DEF Read, CreateStage, WriteStage, SealStage
  <2>4. ASSUME NEW o \in Editors, NEW cleaned,
               SendRename(o) \/ RenameRefused(o, cleaned) \/ RenameAnswered(o)
        PROVE  FALSE
    BY <1>0, <2>4 DEF SendRename, RenameRefused, RenameAnswered
  <2>5. ASSUME NEW c, NEW tick, RemoteWrite(c, tick) PROVE FALSE
    BY <1>0, <2>5 DEF RemoteWrite
  <2> QED  BY <2>1, <2>2, <2>3, <2>4, <2>5 DEF GuardedReplaceNext
<1>2. e \in inFlight
  BY <1>1 DEF ServerRenames
<1> QED  BY <1>2 DEF Guarded, CheckHolds

\* The invariant of guarded replacement holds in every state: the stage a rename publishes is whole,
\* a call whose rename was sent reports nothing that denies it, and the content check is not stale
\* unnoticed (sftp_replace_guarded_impl).
THEOREM GuardedInvariant == GuardedReplaceSpec => []Guarded
<1>1. Guarded /\ [GuardedReplaceNext]_replaceVars => Guarded'
  BY GuardedNext, GuardedStutter
<1> QED  BY <1>1, GuardedInit, PTL DEF GuardedReplaceSpec

\* sftp_replace_guarded never tears the target, reports honestly what it published, and replaces
\* only contents its caller had read, unless they changed after the content check.
THEOREM GuardTheorem == GuardedReplaceSpec => ReplaceIsGuarded
<1>1. Guarded => ReplaceIsHonest
  <2> SUFFICES ASSUME Guarded PROVE ReplaceIsHonest
    OBVIOUS
  <2>1. destination.content # Partial
    BY GuardedReplaceAssumption DEF Guarded, ReplaceTyped, Partial
  <2>2. ASSUME NEW e \in Editors
        PROVE  /\ edit[e].outcome = "completed" => e \in published /\ stageFile[e] = Absent
               /\ edit[e].outcome \in {"replace_unsupported", "metadata_not_preserved"}
                    => e \notin published \union inFlight
    BY DEF Guarded, RenameIsPlaced
  <2> QED  BY <2>1, <2>2 DEF ReplaceIsHonest
<1>2. Guarded /\ Guarded' /\ [GuardedReplaceNext]_replaceVars
        => [ReplaceIsHonest' /\ ReplacesChecked]_replaceVars
  <2>1. Guarded' => ReplaceIsHonest'
    BY <1>1, PTL
  <2> QED  BY <2>1, GuardedChecked
<1> QED  BY <1>2, GuardedInvariant, PTL DEF GuardedReplaceSpec, ReplaceIsGuarded

----------------------------------------------------------------------------
(* Stored secrets: rows and the credential store agree *)

ServerCommands ==
  [op : {"server"}, server : LoginServers, left : 0..2, staged : SUBSET Nat]
ReclaimCommands == [op : {"reclaim"}, server : LoginServers, left : SUBSET Nat]
StagedCommands == [op : {"proxy", "key", "bundle"}, staged : SUBSET Nat]
CleanCommands == [op : {"clean"}, todo : SUBSET Nat]
HeaderRows ==
  [saved : BOOLEAN, headers : SUBSET Nat, client : SUBSET Nat, key : SUBSET Nat,
   token : SUBSET Nat]
McpCommands ==
  [op : {"mcp"}, left : Nat, client : BOOLEAN, staged : SUBSET Nat, row : HeaderRows]

\* What a command in progress holds: InHand of a command.
HandOf(c) ==
  CASE c.op \in {"server", "proxy", "mcp", "key", "bundle"} -> c.staged
    [] c.op = "clean" -> c.todo
    [] OTHER -> {}

\* What the rows name, once every server's identity is in the identities table.
NamedBy(ids, refs, row) == (UNION ids) \union refs \union RowRefs(row)
Names == NamedBy(identities, proxy, headerRow)

CommandTyped ==
  \/ command = LaneResting \/ command = [op |-> "flow"]
  \/ command \in ServerCommands \union ReclaimCommands
  \/ command \in StagedCommands \union CleanCommands
  \/ command \in McpCommands

SecretsTyped ==
  /\ stagedUpTo \in Nat /\ headerRow \in HeaderRows
  /\ CommandTyped
  /\ identities \subseteq SUBSET Nat
  /\ Names \subseteq 1..stagedUpTo /\ queue \subseteq 1..stagedUpTo
  /\ HandOf(command) \subseteq 1..stagedUpTo

\* No two rows name one secret, except servers that share an identity.
RowsAreApart ==
  /\ \A s \in DOMAIN login : login[s] \in identities
  /\ \A i, j \in identities : \A r \in i : r \in j => i = j
  /\ \A i \in identities : \A r \in i : r \notin proxy /\ r \notin RowRefs(headerRow)
  /\ \A r \in proxy : r \notin RowRefs(headerRow)
  /\ \A r \in headerRow.token :
       r \notin headerRow.headers /\ r \notin headerRow.client /\ r \notin headerRow.key

\* What is to be erased, or not yet named, no row names.
HandIsUnnamed ==
  /\ (queue \union HandOf(command)) \intersect Names = {}
  /\ command.op # "clean" =>
       HandOf(command) \subseteq keyring /\ HandOf(command) \intersect queue = {}

\* The row a command will save, and the identity a command will reclaim.
PlanFits ==
  /\ command.op = "mcp" =>
       /\ command.staged \subseteq RowRefs(command.row)
       /\ command.row.token \subseteq headerRow.token
       /\ command.row.headers \union command.row.client \union command.row.key \subseteq
            headerRow.headers \union headerRow.client \union headerRow.key \union command.staged
       /\ command.client => command.row.client = {}
  /\ command.op = "key" => headerRow.key = {}
  /\ command.op = "reclaim" =>
       /\ command.left \in identities
       /\ command.server \in DOMAIN login => login[command.server] # command.left

Secured ==
  /\ SecretsTyped /\ RowsAreApart /\ HandIsUnnamed /\ PlanFits
  /\ Names \subseteq keyring
  /\ keyring \subseteq Names \union queue \union HandOf(command) \union leaked

\* What a command holds, by its kind.
LEMMA HandFacts ==
  ASSUME NEW c
  PROVE  /\ c.op \in {"server", "proxy", "mcp", "key", "bundle"} => HandOf(c) = c.staged
         /\ c.op = "clean" => HandOf(c) = c.todo
         /\ c.op \in {"none", "flow", "reclaim"} => HandOf(c) = {}
BY DEF HandOf

\* The kind of a command tells its record.
LEMMA CommandKinds ==
  ASSUME CommandTyped
  PROVE  /\ command.op \in {"none", "flow", "server", "reclaim", "proxy", "key", "bundle", "clean", "mcp"}
         /\ command.op = "server" => command \in ServerCommands
         /\ command.op = "reclaim" => command \in ReclaimCommands
         /\ command.op \in {"proxy", "key", "bundle"} => command \in StagedCommands
         /\ command.op = "clean" => command \in CleanCommands
         /\ command.op = "mcp" => command \in McpCommands
<1>1. /\ LaneResting.op = "none" /\ [op |-> "flow"].op = "flow"
  BY DEF LaneResting
<1>2. ASSUME command \in ServerCommands PROVE command.op = "server"
  BY <1>2 DEF ServerCommands
<1>3. ASSUME command \in ReclaimCommands PROVE command.op = "reclaim"
  BY <1>3 DEF ReclaimCommands
<1>4. ASSUME command \in StagedCommands PROVE command.op \in {"proxy", "key", "bundle"}
  BY <1>4 DEF StagedCommands
<1>5. ASSUME command \in CleanCommands PROVE command.op = "clean"
  BY <1>5 DEF CleanCommands
<1>6. ASSUME command \in McpCommands PROVE command.op = "mcp"
  BY <1>6 DEF McpCommands
<1> QED  BY <1>1, <1>2, <1>3, <1>4, <1>5, <1>6 DEF CommandTyped

\* A command goes on to clean up, or is over.
LEMMA CleanFacts ==
  ASSUME NEW refs \in SUBSET Nat, Clean(refs)
  PROVE  /\ CommandTyped' /\ HandOf(command') = refs /\ command'.op \in {"none", "clean"}
         /\ command'.op # "clean" => refs = {}
<1>1. CASE refs = {}
  <2>1. command' = LaneResting /\ command'.op = "none"
    BY <1>1 DEF Clean, LaneResting
  <2> QED  BY <1>1, <2>1, HandFacts DEF CommandTyped
<1>2. CASE refs # {}
  <2>1. command' = [op |-> "clean", todo |-> refs]
    BY <1>2 DEF Clean
  <2>2. command'.op = "clean" /\ command'.todo = refs /\ command' \in CleanCommands
    BY <2>1 DEF CleanCommands
  <2> QED  BY <2>2, HandFacts DEF CommandTyped
<1> QED  BY <1>1, <1>2

\* The next account was never used.
LEMMA FreshIsNew ==
  ASSUME NEW n \in Nat
  PROVE  /\ n + 1 \in 1..(n + 1) /\ n + 1 \in Nat /\ n + 1 \notin 1..n
         /\ \A r \in 1..n : r \in 1..(n + 1)
OBVIOUS

\* A command moves, stages one more secret or hands its secrets to the clean-up, and the rows
\* stay as they are.
LEMMA SecuredLane ==
  ASSUME Secured, NEW new,
         UNCHANGED databaseVars, CommandTyped', PlanFits',
         \/ new = {} /\ stagedUpTo' = stagedUpTo
         \/ new = {Fresh} /\ stagedUpTo' = Fresh,
         keyring \subseteq keyring', new \subseteq keyring',
         keyring' \subseteq keyring \union new \union leaked', leaked \subseteq leaked',
         new \subseteq HandOf(command'),
         \A r \in HandOf(command') :
           \/ r \in HandOf(command) /\ (command.op = "clean" => command'.op = "clean")
           \/ r \in new
           \/ r \in queue /\ command'.op = "clean",
         \A r \in HandOf(command) : \/ r \in HandOf(command') \/ r \in leaked'
                                    \/ r \in queue \/ r \in Names
  PROVE  Secured'
<1>1. Names' = Names /\ queue' = queue /\ headerRow' = headerRow /\ identities' = identities
      /\ login' = login /\ proxy' = proxy
  BY DEF databaseVars, Names
<1>2. /\ stagedUpTo \in Nat /\ headerRow \in HeaderRows /\ identities \subseteq SUBSET Nat
      /\ Names \subseteq 1..stagedUpTo /\ queue \subseteq 1..stagedUpTo
      /\ HandOf(command) \subseteq 1..stagedUpTo
  BY DEF Secured, SecretsTyped
<1>3. /\ stagedUpTo' \in Nat /\ \A r \in 1..stagedUpTo : r \in 1..stagedUpTo'
      /\ \A r \in new : r \in 1..stagedUpTo' /\ r \notin 1..stagedUpTo
  <2>1. CASE new = {} /\ stagedUpTo' = stagedUpTo
    BY <1>2, <2>1
  <2>2. CASE new = {Fresh} /\ stagedUpTo' = Fresh
    BY <1>2, <2>2, FreshIsNew DEF Fresh
  <2> QED  BY <2>1, <2>2
<1>4. /\ (queue \union HandOf(command)) \intersect Names = {}
      /\ command.op # "clean" =>
           HandOf(command) \subseteq keyring /\ HandOf(command) \intersect queue = {}
      /\ Names \subseteq keyring
      /\ keyring \subseteq Names \union queue \union HandOf(command) \union leaked
  BY DEF Secured, HandIsUnnamed
<1>5. SecretsTyped'
  BY <1>1, <1>2, <1>3 DEF SecretsTyped
<1>6. RowsAreApart'
  BY <1>1 DEF Secured, RowsAreApart
<1>7. HandIsUnnamed'
  <2>1. \A r \in HandOf(command') : r \notin Names
    BY <1>2, <1>3, <1>4
  <2>2. command'.op # "clean" => \A r \in HandOf(command') : r \in keyring' /\ r \notin queue
    BY <1>2, <1>3, <1>4
  <2> QED  BY <1>1, <1>4, <2>1, <2>2 DEF HandIsUnnamed
<1>8. Names' \subseteq keyring' /\ keyring' \subseteq (Names \union queue \union HandOf(command) \union leaked)'
  BY <1>1, <1>4
<1> QED  BY <1>5, <1>6, <1>7, <1>8 DEF Secured

\* A row is saved or deleted: it names what the command held, and what it no longer names goes
\* to the clean-up, is erased, or was given up.
LEMMA SecuredSave ==
  ASSUME Secured, command.op # "clean", CommandTyped', PlanFits', RowsAreApart',
         headerRow' \in HeaderRows, identities' \subseteq SUBSET Nat,
         UNCHANGED <<queue, stagedUpTo>>, leaked \subseteq leaked',
         keyring' \subseteq keyring, \A r \in Names' : r \in keyring => r \in keyring',
         \A r \in Names' : r \in Names \/ r \in HandOf(command),
         \A r \in HandOf(command') :
           command'.op = "clean" /\ r \notin Names' /\ (r \in Names \/ r \in HandOf(command)),
         \A r \in keyring' : r \in Names \/ r \in HandOf(command) =>
           r \in Names' \/ r \in HandOf(command') \/ r \in leaked'
  PROVE  Secured'
<1>2. /\ stagedUpTo \in Nat
      /\ Names \subseteq 1..stagedUpTo /\ queue \subseteq 1..stagedUpTo
      /\ HandOf(command) \subseteq 1..stagedUpTo
  BY DEF Secured, SecretsTyped
<1>4. /\ (queue \union HandOf(command)) \intersect Names = {}
      /\ HandOf(command) \subseteq keyring /\ HandOf(command) \intersect queue = {}
      /\ Names \subseteq keyring
      /\ keyring \subseteq Names \union queue \union HandOf(command) \union leaked
  BY DEF Secured, HandIsUnnamed
<1>5. SecretsTyped'
  BY <1>2 DEF SecretsTyped
<1>7. HandIsUnnamed'
  <2>1. \A r \in queue : r \notin Names'
    BY <1>4
  <2> QED  BY <1>4, <2>1 DEF HandIsUnnamed
<1>8. Names' \subseteq keyring' /\ keyring' \subseteq (Names \union queue \union HandOf(command) \union leaked)'
  BY <1>4
<1> QED  BY <1>5, <1>7, <1>8 DEF Secured

\* Most commands have no row and no identity to fit.
LEMMA PlanIsIdle ==
  ASSUME command'.op \notin {"mcp", "key", "reclaim"}
  PROVE  PlanFits'
BY DEF PlanFits

\* A command that only waits holds nothing.
LEMMA RestingFacts ==
  /\ LaneResting.op = "none" /\ HandOf(LaneResting) = {}
  /\ [op |-> "flow"].op = "flow" /\ HandOf([op |-> "flow"]) = {}
BY HandFacts DEF LaneResting

\* A failure hands what the command holds to the clean-up.
LEMMA SecuredCleans ==
  ASSUME Secured, Clean(HandOf(command)), UNCHANGED <<keyring, stagedUpTo, databaseVars, leaked>>
  PROVE  Secured'
<1>1. HandOf(command) \in SUBSET Nat
  BY DEF Secured, SecretsTyped
<1>2. /\ CommandTyped' /\ HandOf(command') = HandOf(command) /\ command'.op \in {"none", "clean"}
      /\ command'.op # "clean" => HandOf(command) = {}
  BY <1>1, CleanFacts
<1>3. PlanFits'
  BY <1>2, PlanIsIdle
<1>4. /\ \A r \in HandOf(command') : r \in HandOf(command) /\ command'.op = "clean"
      /\ \A r \in HandOf(command) : r \in HandOf(command')
  BY <1>2
<1> DEFINE new == {}
<1>5. CommandTyped' /\ new = {}
  BY <1>2
<1> HIDE DEF new
<1>6. /\ UNCHANGED databaseVars /\ stagedUpTo' = stagedUpTo /\ keyring' = keyring
      /\ leaked' = leaked
  OBVIOUS
<1> QED  BY <1>3, <1>4, <1>5, <1>6, SecuredLane

\* The command is over without having held anything, or gives up what it held.
LEMMA SecuredRests ==
  ASSUME Secured, command' = LaneResting \/ command' = [op |-> "flow"],
         UNCHANGED <<keyring, stagedUpTo, databaseVars>>,
         leaked \subseteq leaked', \A r \in HandOf(command) : r \in leaked'
  PROVE  Secured'
<1>1. CommandTyped' /\ PlanFits' /\ HandOf(command') = {}
  BY RestingFacts, PlanIsIdle DEF CommandTyped
<1> QED  BY <1>1, SecuredLane

\* server_add and server_update: the new identity is staged, or its secrets are cleaned up.
LEMMA SecuredLogin ==
  ASSUME Secured,
         \/ \E s \in LoginServers, method \in {"password", "certificate", "agent"}, n \in 0..2 :
              BeginServer(s, method, n)
         \/ StageLogin
  PROVE  Secured'
<1>0. CommandTyped
  BY DEF Secured, SecretsTyped
<1>1. ASSUME NEW s \in LoginServers, NEW method \in {"password", "certificate", "agent"}, NEW n \in 0..2,
             BeginServer(s, method, n)
      PROVE  Secured'
  <2> DEFINE c == [op |-> "server", server |-> s, left |-> n, staged |-> {}]
  <2>1. c \in ServerCommands /\ c.op = "server" /\ c.staged = {}
    BY DEF ServerCommands
  <2>2. /\ command' = c /\ command = LaneResting
        /\ UNCHANGED <<keyring, stagedUpTo, databaseVars, leaked>>
    BY <1>1 DEF BeginServer
  <2> HIDE DEF c
  <2>3. CommandTyped' /\ PlanFits' /\ HandOf(command') = {} /\ HandOf(command) = {}
    BY <2>1, <2>2, RestingFacts, HandFacts, PlanIsIdle DEF CommandTyped
  <2> QED  BY <2>2, <2>3, SecuredLane
<1>2. CASE StageLogin
  <2>1. command.op = "server" /\ command.left > 0
    BY <1>2 DEF StageLogin
  <2>2. command \in ServerCommands /\ HandOf(command) = command.staged
    BY <1>0, <2>1, CommandKinds, HandFacts
  <2>3. CASE Stage /\ command' = [command EXCEPT !.left = @ - 1, !.staged = @ \union {Fresh}]
             /\ UNCHANGED <<databaseVars, leaked>>
    <3> DEFINE c == [command EXCEPT !.left = @ - 1, !.staged = @ \union {Fresh}]
    <3>1. stagedUpTo \in Nat /\ Fresh \in Nat
      BY DEF Secured, SecretsTyped, Fresh
    <3>2. command.left \in 0..2 /\ command.staged \in SUBSET Nat /\ command.server \in LoginServers
      BY <2>2 DEF ServerCommands
    <3>3. command.left - 1 \in 0..2
      BY <2>1, <3>2
    <3>4. c \in ServerCommands /\ c.op = "server" /\ c.staged = command.staged \union {Fresh}
      BY <2>2, <3>1, <3>2, <3>3 DEF ServerCommands
    <3>5. command' = c
      BY <2>3
    <3> HIDE DEF c
    <3>6. CommandTyped' /\ PlanFits' /\ HandOf(command') = HandOf(command) \union {Fresh}
      BY <2>2, <3>4, <3>5, HandFacts, PlanIsIdle DEF CommandTyped
    <3>7. stagedUpTo' = Fresh /\ keyring' = keyring \union {Fresh}
      BY <2>3 DEF Stage
    <3> QED  BY <2>1, <2>3, <3>6, <3>7, SecuredLane
  <2>4. CASE Clean(command.staged) /\ UNCHANGED <<keyring, stagedUpTo, databaseVars, leaked>>
    BY <2>2, <2>4, SecuredCleans
  <2> QED  BY <1>2, <2>3, <2>4 DEF StageLogin
<1> QED  BY <1>1, <1>2

\* What rows name, row by row.
LEMMA NamedFacts ==
  ASSUME NEW ids, NEW refs, NEW row, NEW r
  PROVE  r \in NamedBy(ids, refs, row) <=> (\E i \in ids : r \in i) \/ r \in refs \/ r \in RowRefs(row)
BY DEF NamedBy

\* The identity a server leaves is to be reclaimed, if it has secrets.
LEMMA LeaveFacts ==
  ASSUME NEW s \in LoginServers, NEW i \in SUBSET Nat, Leave(s, i)
  PROVE  /\ CommandTyped' /\ HandOf(command') = {} /\ command'.op \in {"none", "reclaim"}
         /\ command'.op = "reclaim" => command'.server = s /\ command'.left = i /\ i # {}
<1>1. CASE i = {}
  BY <1>1, RestingFacts DEF Leave, CommandTyped
<1>2. CASE i # {}
  <2>1. command' = [op |-> "reclaim", server |-> s, left |-> i]
    BY <1>2 DEF Leave
  <2>2. /\ command'.op = "reclaim" /\ command'.server = s /\ command'.left = i
        /\ command' \in ReclaimCommands
    BY <2>1 DEF ReclaimCommands
  <2> QED  BY <1>2, <2>2, HandFacts DEF CommandTyped
<1> QED  BY <1>1, <1>2

\* A server's row comes to name an identity that is new or in the table, and leaves the one it had.
LEMMA SecuredLogins ==
  ASSUME Secured, NEW s \in LoginServers, NEW identity \in SUBSET Nat, command.op \in {"none", "server"},
         HandOf(command) = identity \/ (HandOf(command) = {} /\ identity \in identities),
         LoginOf(s) # identity \/ LoginOf(s) = {},
         identities' = identities \union {identity}, login' = Saved(s, identity), Leave(s, LoginOf(s)),
         UNCHANGED <<keyring, stagedUpTo, proxy, headerRow, queue, leaked>>
  PROVE  Secured'
<1>1. /\ headerRow \in HeaderRows /\ identities \subseteq SUBSET Nat
      /\ \A o \in DOMAIN login : login[o] \in identities
      /\ \A r \in HandOf(command) : r \notin Names
      /\ RowsAreApart
  BY DEF Secured, SecretsTyped, RowsAreApart, HandIsUnnamed
<1>2. LoginOf(s) = {} \/ LoginOf(s) \in identities
  BY <1>1 DEF LoginOf
<1>3. /\ CommandTyped' /\ HandOf(command') = {} /\ command'.op \in {"none", "reclaim"}
      /\ command'.op = "reclaim" => /\ command'.server = s /\ command'.left = LoginOf(s)
                                    /\ LoginOf(s) # {}
  BY <1>1, <1>2, LeaveFacts
<1>4. /\ \A o \in DOMAIN login' : login'[o] = identity \/ (o \in DOMAIN login /\ login'[o] = login[o])
      /\ s \in DOMAIN login' => login'[s] = identity
  BY DEF Saved
<1>5. \A r : r \in Names' <=> r \in Names \/ r \in identity
  BY DEF Names, NamedBy
<1>n. \A r : r \notin Names => r \notin proxy /\ r \notin RowRefs(headerRow) /\ \A i \in identities : r \notin i
  BY NamedFacts DEF Names
<1>6. \A i \in identities : \A r \in i : r \in identity => i = identity
  <2>1. CASE HandOf(command) = identity
    BY <1>1, <1>n, <2>1
  <2>2. CASE identity \in identities
    BY <1>1, <2>2 DEF RowsAreApart
  <2> QED  BY <2>1, <2>2
<1>7. RowsAreApart'
  <2>1. \A o \in DOMAIN login' : login'[o] \in identities'
    BY <1>1, <1>4
  <2>2. \A i, j \in identities' : \A r \in i : r \in j => i = j
    BY <1>1, <1>6 DEF RowsAreApart
  <2>3. \A r \in identity : r \notin proxy /\ r \notin RowRefs(headerRow)
    <3>1. CASE HandOf(command) = identity
      BY <1>1, <1>n, <3>1
    <3>2. CASE identity \in identities
      BY <1>1, <3>2 DEF RowsAreApart
    <3> QED  BY <3>1, <3>2
  <2>4. \A i \in identities' : \A r \in i : r \notin proxy' /\ r \notin RowRefs(headerRow')
    BY <1>1, <2>3 DEF RowsAreApart
  <2> QED  BY <1>1, <2>1, <2>2, <2>4 DEF RowsAreApart
<1>8. PlanFits'
  BY <1>2, <1>3, <1>4 DEF PlanFits
<1>9. identities' \subseteq SUBSET Nat
  BY <1>1
<1>10. /\ \A r \in Names' : r \in Names \/ r \in HandOf(command)
       /\ \A r : r \in Names \/ r \in HandOf(command) => r \in Names'
  BY <1>5 DEF Names, NamedBy
<1> QED  BY <1>1, <1>3, <1>7, <1>8, <1>9, <1>10, SecuredSave

\* server_add, server_update and server_delete save or delete the row.
LEMMA SecuredServer ==
  ASSUME Secured,
         \/ SaveServer
         \/ \E s \in LoginServers : server_delete(s) \/ \E i \in identities : ReuseIdentity(s, i)
  PROVE  Secured'
<1>1. /\ CommandTyped /\ headerRow \in HeaderRows /\ identities \subseteq SUBSET Nat
      /\ \A o \in DOMAIN login : login[o] \in identities
      /\ (\A r \in HandOf(command) : r \notin Names) /\ RowsAreApart
  BY DEF Secured, SecretsTyped, RowsAreApart, HandIsUnnamed
<1>2. CASE SaveServer
  <2>1. command.op = "server" /\ command \in ServerCommands /\ HandOf(command) = command.staged
    BY <1>1, <1>2, CommandKinds, HandFacts DEF SaveServer
  <2>2. command.server \in LoginServers /\ command.staged \in SUBSET Nat
    BY <2>1 DEF ServerCommands
  <2>3. CASE update_server(command.server, command.staged) /\ Leave(command.server, LoginOf(command.server))
             /\ UNCHANGED <<keyring, stagedUpTo, proxy, headerRow, queue, leaked>>
    <3>1. /\ identities' = identities \union {command.staged}
          /\ login' = Saved(command.server, command.staged)
      BY <2>3 DEF update_server
    <3>2. LoginOf(command.server) # command.staged \/ LoginOf(command.server) = {}
      BY <1>1, <2>1 DEF LoginOf, Names, NamedBy
    <3> QED  BY <2>1, <2>2, <2>3, <3>1, <3>2, SecuredLogins
  <2>4. CASE /\ Clean(command.staged) /\ UNCHANGED <<identities, login>>
             /\ UNCHANGED <<keyring, stagedUpTo, proxy, headerRow, queue, leaked>>
    BY <2>1, <2>4, SecuredCleans DEF databaseVars
  <2> QED  BY <1>2, <2>3, <2>4 DEF SaveServer
<1>3. ASSUME NEW s \in LoginServers, NEW i \in identities, ReuseIdentity(s, i) PROVE Secured'
  <2>1. /\ command = LaneResting /\ LoginOf(s) # i /\ login' = Saved(s, i) /\ Leave(s, LoginOf(s))
        /\ UNCHANGED <<keyring, stagedUpTo, identities, proxy, headerRow, queue, leaked>>
    BY <1>3 DEF ReuseIdentity
  <2>2. command.op = "none" /\ HandOf(command) = {} /\ identities' = identities \union {i}
    BY <2>1, RestingFacts
  <2> QED  BY <1>1, <2>1, <2>2, SecuredLogins
<1>4. ASSUME NEW s \in LoginServers, server_delete(s) PROVE Secured'
  <2>1. /\ command = LaneResting /\ s \in DOMAIN login /\ Leave(s, login[s])
        /\ login' = [o \in DOMAIN login \ {s} |-> login[o]]
        /\ UNCHANGED <<keyring, stagedUpTo, identities, proxy, headerRow, queue, leaked>>
    BY <1>4 DEF server_delete
  <2>2. login[s] \in SUBSET Nat /\ login[s] \in identities /\ command.op = "none" /\ HandOf(command) = {}
    BY <1>1, <2>1, RestingFacts
  <2>3. /\ CommandTyped' /\ HandOf(command') = {} /\ command'.op \in {"none", "reclaim"}
        /\ command'.op = "reclaim" => command'.server = s /\ command'.left = login[s]
    BY <2>1, <2>2, LeaveFacts
  <2>4. Names' = Names
    BY <2>1 DEF Names
  <2>5. RowsAreApart'
    BY <1>1, <2>1 DEF RowsAreApart
  <2>6. PlanFits'
    BY <2>1, <2>2, <2>3 DEF PlanFits
  <2> QED  BY <1>1, <2>1, <2>2, <2>3, <2>4, <2>5, <2>6, SecuredSave
<1> QED  BY <1>2, <1>3, <1>4

\* The identity a server left is deleted with its secrets, unless another server shares it.
LEMMA SecuredReclaim ==
  ASSUME Secured, Reclaim
  PROVE  Secured'
<1>1. /\ CommandTyped /\ headerRow \in HeaderRows /\ identities \subseteq SUBSET Nat
      /\ RowsAreApart /\ PlanFits /\ command.op = "reclaim"
  BY DEF Secured, SecretsTyped, Reclaim
<1>2. /\ HandOf(command) = {} /\ command.left \in identities /\ command.left \in SUBSET Nat
      /\ command.server \in DOMAIN login => login[command.server] # command.left
  BY <1>1, HandFacts DEF PlanFits
<1>3. UNCHANGED <<keyring, stagedUpTo, login, proxy, headerRow, queue, leaked>>
  BY DEF Reclaim
<1>4. CASE command' = LaneResting /\ identities' = identities
  BY <1>2, <1>3, <1>4, SecuredRests DEF databaseVars
<1>5. CASE /\ SharedBy(command.left, command.server) = {} /\ identities' = identities \ {command.left}
           /\ Clean(command.left)
  <2>1. /\ CommandTyped' /\ HandOf(command') = command.left /\ command'.op \in {"none", "clean"}
        /\ command'.op # "clean" => command.left = {}
    BY <1>2, <1>5, CleanFacts
  <2>2. \A o \in DOMAIN login : login[o] # command.left
    BY <1>2, <1>5 DEF SharedBy
  <2>3. RowsAreApart'
    BY <1>1, <1>3, <1>5, <2>2 DEF RowsAreApart
  <2>4. ASSUME NEW r \in command.left PROVE r \notin Names'
    <3>1. r \notin proxy /\ r \notin RowRefs(headerRow) /\ \A i \in identities : r \in i => i = command.left
      BY <1>1, <1>2 DEF RowsAreApart
    <3>2. \A i \in identities' : r \notin i
      BY <1>5, <3>1
    <3>3. r \in Names' => (\E i \in identities' : r \in i) \/ r \in proxy' \/ r \in RowRefs(headerRow')
      BY NamedFacts DEF Names
    <3> QED  BY <1>3, <3>1, <3>2, <3>3
  <2>5. /\ \A r \in Names' : r \in Names
        /\ \A r \in Names : r \in Names' \/ r \in command.left
        /\ \A r \in command.left : r \in Names
    BY <1>2, <1>3, <1>5 DEF Names, NamedBy
  <2>6. PlanFits'
    BY <2>1, PlanIsIdle
  <2>7. identities' \subseteq SUBSET Nat /\ command.op # "clean"
    BY <1>1, <1>5
  <2>8. \A r \in HandOf(command') : command'.op = "clean" /\ r \notin Names' /\ r \in Names
    BY <2>1, <2>4, <2>5
  <2> QED  BY <1>1, <1>2, <1>3, <2>1, <2>3, <2>5, <2>6, <2>7, <2>8, SecuredSave
<1> QED  BY <1>4, <1>5 DEF Reclaim, delete_identity_if_unshared

\* A command that holds one new secret starts.
LEMMA SecuredStages ==
  ASSUME Secured, HandOf(command) = {}, Stage, UNCHANGED <<databaseVars, leaked>>,
         NEW kind \in {"proxy", "key", "bundle"}, kind = "key" => headerRow.key = {},
         command' = [op |-> kind, staged |-> {Fresh}]
  PROVE  Secured'
<1>1. stagedUpTo \in Nat /\ Fresh \in Nat
  BY DEF Secured, SecretsTyped, Fresh
<1>2. command' \in StagedCommands /\ command'.op = kind /\ command'.staged = {Fresh}
  BY <1>1 DEF StagedCommands
<1>3. CommandTyped' /\ HandOf(command') = {Fresh}
  BY <1>2, HandFacts DEF CommandTyped
<1>4. PlanFits'
  BY <1>2 DEF PlanFits, databaseVars
<1>5. stagedUpTo' = Fresh /\ keyring' = keyring \union {Fresh}
  BY DEF Stage
<1>6. \A r \in HandOf(command') : r \in {Fresh}
  BY <1>3
<1> QED  BY <1>3, <1>4, <1>5, <1>6, SecuredLane

\* The network proxy is saved, and its former credential cleaned up.
LEMMA SecuredProxy ==
  ASSUME Secured, SaveProxy \/ \E clear \in BOOLEAN : BeginProxy(clear)
  PROVE  Secured'
<1>1. /\ CommandTyped /\ headerRow \in HeaderRows /\ identities \subseteq SUBSET Nat
      /\ (\A r \in HandOf(command) : r \notin Names) /\ RowsAreApart
      /\ Names \subseteq 1..stagedUpTo /\ stagedUpTo \in Nat
  BY DEF Secured, SecretsTyped, HandIsUnnamed
<1>2. \A r : r \in Names <=> (\E i \in identities : r \in i) \/ r \in proxy \/ r \in RowRefs(headerRow)
  BY NamedFacts DEF Names
<1>3. proxy \in SUBSET Nat
  <2>1. \A r \in proxy : r \in 1..stagedUpTo
    BY <1>1, <1>2
  <2> QED  BY <1>1, <2>1
<1>4. ASSUME NEW clear \in BOOLEAN, BeginProxy(clear) PROVE Secured'
  <2>1. command = LaneResting /\ HandOf(command) = {} /\ UNCHANGED <<databaseVars, leaked>>
    BY <1>4, RestingFacts DEF BeginProxy
  <2>2. CASE clear
    <3>1. command' = [op |-> "proxy", staged |-> {}] /\ UNCHANGED <<keyring, stagedUpTo>>
      BY <1>4, <2>2 DEF BeginProxy
    <3>2. command' \in StagedCommands /\ command'.op = "proxy" /\ command'.staged = {}
      BY <3>1 DEF StagedCommands
    <3>3. CommandTyped' /\ HandOf(command') = {} /\ PlanFits'
      BY <3>2, HandFacts, PlanIsIdle DEF CommandTyped
    <3> QED  BY <2>1, <3>1, <3>3, SecuredLane
  <2>3. CASE ~clear
    <3>1. Stage /\ command' = [op |-> "proxy", staged |-> {Fresh}]
      BY <1>4, <2>3 DEF BeginProxy
    <3> QED  BY <2>1, <3>1, SecuredStages
  <2> QED  BY <2>2, <2>3
<1>5. CASE SaveProxy
  <2>1. command.op = "proxy" /\ HandOf(command) = command.staged
    BY <1>5, HandFacts DEF SaveProxy
  <2>2. UNCHANGED <<keyring, stagedUpTo, identities, login, headerRow, queue, leaked>>
    BY <1>5 DEF SaveProxy
  <2>3. CASE proxy' = command.staged /\ Clean(proxy)
    <3>1. /\ CommandTyped' /\ HandOf(command') = proxy /\ command'.op \in {"none", "clean"}
          /\ command'.op # "clean" => proxy = {}
      BY <1>3, <2>3, CleanFacts
    <3>2. \A r : r \in Names' <=> (\E i \in identities : r \in i) \/ r \in HandOf(command)
                                    \/ r \in RowRefs(headerRow)
      BY <2>1, <2>2, <2>3, NamedFacts DEF Names
    <3>3. RowsAreApart'
      BY <1>1, <1>2, <2>1, <2>2, <2>3 DEF RowsAreApart
    <3>4. \A r \in proxy : r \notin Names' /\ r \in Names
      BY <1>1, <1>2, <3>2 DEF RowsAreApart
    <3>5. /\ \A r \in Names' : r \in Names \/ r \in HandOf(command)
          /\ \A r : r \in Names \/ r \in HandOf(command) => r \in Names' \/ r \in proxy
      BY <1>2, <3>2
    <3>6. \A r \in HandOf(command') : command'.op = "clean" /\ r \notin Names' /\ r \in Names
      BY <3>1, <3>4
    <3>7. PlanFits'
      BY <3>1, PlanIsIdle
    <3> QED  BY <1>1, <2>1, <2>2, <3>1, <3>3, <3>5, <3>6, <3>7, SecuredSave
  <2>4. CASE Clean(command.staged) /\ proxy' = proxy
    BY <2>1, <2>2, <2>4, SecuredCleans DEF databaseVars
  <2> QED  BY <1>5, <2>3, <2>4 DEF SaveProxy, save_network_proxy_config
<1> QED  BY <1>4, <1>5

\* The MCP server's row is saved, its parts being former or staged ones.
LEMMA SecuredRow ==
  ASSUME Secured, command.op # "clean", NEW row \in HeaderRows, headerRow' = row,
         UNCHANGED <<stagedUpTo, identities, login, proxy, queue>>,
         \A r \in RowRefs(row) : r \in RowRefs(headerRow) \/ r \in HandOf(command),
         \A r \in row.token : r \notin row.headers /\ r \notin row.client /\ r \notin row.key,
         CommandTyped', command'.op \in {"none", "clean", "flow"},
         HandOf(command') # {} => command'.op = "clean",
         \A r \in HandOf(command') : r \in RowRefs(headerRow) /\ r \notin RowRefs(row),
         leaked \subseteq leaked', keyring' \subseteq keyring,
         \A r \in keyring : r \in keyring' \/ (r \in RowRefs(headerRow) /\ r \notin RowRefs(row)),
         \A r \in keyring' : r \in RowRefs(headerRow) \/ r \in HandOf(command) =>
           r \in RowRefs(row) \/ r \in HandOf(command') \/ r \in leaked'
  PROVE  Secured'
<1>1. /\ identities \subseteq SUBSET Nat
      /\ (\A r \in HandOf(command) : r \notin Names) /\ RowsAreApart
  BY DEF Secured, SecretsTyped, HandIsUnnamed
<1>2. \A r : r \in Names <=> (\E i \in identities : r \in i) \/ r \in proxy \/ r \in RowRefs(headerRow)
  BY NamedFacts DEF Names
<1>3. \A r : r \in Names' <=> (\E i \in identities : r \in i) \/ r \in proxy \/ r \in RowRefs(row)
  BY NamedFacts DEF Names
<1>4. \A r \in RowRefs(row) : r \notin proxy /\ \A i \in identities : r \notin i
  BY <1>1, <1>2 DEF RowsAreApart
<1>5. RowsAreApart'
  BY <1>1, <1>4 DEF RowsAreApart
<1>6. \A r \in RowRefs(headerRow) : r \notin RowRefs(row) => r \notin Names' /\ r \in Names
  BY <1>1, <1>2, <1>3 DEF RowsAreApart
<1>7. PlanFits'
  BY PlanIsIdle
<1>8. \A r \in Names' : (r \in Names \/ r \in HandOf(command)) /\ (r \in keyring => r \in keyring')
  BY <1>2, <1>3, <1>6
<1>9. \A r \in HandOf(command') : command'.op = "clean" /\ r \notin Names' /\ r \in Names
  BY <1>6
<1>10. \A r \in keyring' : r \in Names \/ r \in HandOf(command) =>
         r \in Names' \/ r \in HandOf(command') \/ r \in leaked'
  BY <1>2, <1>3
<1> QED  BY <1>1, <1>5, <1>7, <1>8, <1>9, <1>10, SecuredSave

\* The parts of the MCP server's row are sets of references.
LEMMA RowFacts ==
  ASSUME NEW row \in HeaderRows
  PROVE  /\ row.saved \in BOOLEAN /\ row.headers \in SUBSET Nat /\ row.client \in SUBSET Nat
         /\ row.key \in SUBSET Nat /\ row.token \in SUBSET Nat
         /\ RowRefs(row) \in SUBSET Nat
         /\ \A r : r \in RowRefs(row) <=> \/ r \in row.headers \/ r \in row.client
                                          \/ r \in row.key \/ r \in row.token
BY DEF HeaderRows, RowRefs

\* mcp_server_save begins: what the row keeps comes from the saved row.
LEMMA SecuredBegin ==
  ASSUME Secured, NEW retained \in SUBSET headerRow.headers, NEW headers \in 0..MaxHeaders,
         NEW oauth \in {"none", "same", "other"}, NEW client \in {"carried", "new", "dropped"},
         BeginMcp(retained, headers, oauth, client)
  PROVE  Secured'
<1> DEFINE row == [saved |-> TRUE, headers |-> retained,
                   client |-> IF client = "carried" THEN headerRow.client ELSE {},
                   key |-> IF oauth = "same" THEN headerRow.key ELSE {},
                   token |-> IF oauth = "same" THEN headerRow.token ELSE {}]
           c == [op |-> "mcp", left |-> headers, client |-> client = "new", staged |-> {}, row |-> row]
<1>1. headerRow \in HeaderRows /\ MaxHeaders \in Nat
  BY SecretsAssumption DEF Secured, SecretsTyped
<1>2. /\ command = LaneResting /\ command' = c /\ UNCHANGED <<databaseVars, leaked>>
      /\ UNCHANGED <<keyring, stagedUpTo>>
  BY DEF BeginMcp
<1>3. /\ row \in HeaderRows /\ row.headers = retained
      /\ \A r \in row.client : r \in headerRow.client
      /\ \A r \in row.key : r \in headerRow.key
      /\ \A r \in row.token : r \in headerRow.token
      /\ client = "new" => row.client = {}
  BY <1>1 DEF HeaderRows
<1> HIDE DEF row
<1>4. /\ c \in McpCommands /\ c.op = "mcp" /\ c.staged = {} /\ c.row = row /\ c.client = (client = "new")
  <2>1. headers \in Nat /\ (client = "new") \in BOOLEAN
    BY <1>1
  <2> QED  BY <1>3, <2>1 DEF McpCommands
<1> HIDE DEF c
<1>5. CommandTyped' /\ HandOf(command') = {} /\ HandOf(command) = {}
  BY <1>2, <1>4, HandFacts, RestingFacts DEF CommandTyped
<1>6. headerRow' = headerRow
  BY <1>2 DEF databaseVars
<1>7. PlanFits'
  BY <1>2, <1>3, <1>4, <1>6 DEF PlanFits
<1> QED  BY <1>2, <1>5, <1>7, SecuredLane

\* mcp_server_save stages new headers and the client secret.
LEMMA SecuredHeaders ==
  ASSUME Secured, StageHeader \/ resolve_oauth_config
  PROVE  Secured'
<1>1. /\ CommandTyped /\ command.op = "mcp" /\ UNCHANGED databaseVars
  BY DEF Secured, SecretsTyped, StageHeader, resolve_oauth_config
<1>2. command \in McpCommands /\ HandOf(command) = command.staged
  BY <1>1, CommandKinds, HandFacts
<1>3. /\ command.left \in Nat /\ command.staged \in SUBSET Nat /\ command.row \in HeaderRows
      /\ command.client \in BOOLEAN
  BY <1>2 DEF McpCommands
<1>4. PlanFits /\ stagedUpTo \in Nat /\ Fresh \in Nat
  BY DEF Secured, SecretsTyped, Fresh
<1>5. ASSUME NEW row \in HeaderRows, NEW client \in BOOLEAN, Stage, leaked' = leaked,
             command' \in McpCommands, command'.op = "mcp", command'.row = row,
             command'.client = client, command'.staged = command.staged \union {Fresh},
             row.token = command.row.token, Fresh \in RowRefs(row),
             \A r \in RowRefs(command.row) : r \in RowRefs(row),
             \A r \in row.headers \union row.client \union row.key :
               r = Fresh \/ r \in command.row.headers \union command.row.client \union command.row.key,
             client => row.client = {}
      PROVE  Secured'
  <2>2. CommandTyped' /\ HandOf(command') = HandOf(command) \union {Fresh}
    BY <1>2, <1>5, HandFacts DEF CommandTyped
  <2>3. headerRow' = headerRow
    BY <1>1 DEF databaseVars
  <2>4. /\ command'.staged \subseteq RowRefs(row)
        /\ row.token \subseteq headerRow.token
        /\ \A r \in row.headers \union row.client \union row.key :
             r \in headerRow.headers \union headerRow.client \union headerRow.key \union command'.staged
    BY <1>1, <1>4, <1>5 DEF PlanFits
  <2>5. PlanFits'
    BY <1>5, <2>3, <2>4 DEF PlanFits
  <2>6. stagedUpTo' = Fresh /\ keyring' = keyring \union {Fresh}
    BY <1>5 DEF Stage
  <2> QED  BY <1>1, <1>5, <2>2, <2>5, <2>6, SecuredLane
<1>6. CASE StageHeader
  <2>1. command.left > 0
    BY <1>6 DEF StageHeader
  <2>2. CASE /\ Stage /\ leaked' = leaked
             /\ command' = [command EXCEPT !.left = @ - 1, !.staged = @ \union {Fresh},
                                           !.row.headers = @ \union {Fresh}]
    <3> DEFINE old == command.row
               row == [old EXCEPT !.headers = @ \union {Fresh}]
    <3>1. /\ row \in HeaderRows /\ row.headers = old.headers \union {Fresh} /\ row.client = old.client
          /\ row.key = old.key /\ row.token = old.token
      <4>1. old \in HeaderRows
        BY <1>3
      <4> HIDE DEF old
      <4> QED  BY <1>4, <4>1 DEF HeaderRows
    <3>2. command.left - 1 \in Nat
      BY <1>3, <2>1
    <3>3. /\ command' \in McpCommands /\ command'.op = "mcp" /\ command'.row = row
          /\ command'.client = command.client /\ command'.staged = command.staged \union {Fresh}
      <4> HIDE DEF row
      <4>1. command' = [command EXCEPT !.left = command.left - 1,
                                       !.staged = command.staged \union {Fresh}, !.row = row]
        BY <1>2, <2>2 DEF McpCommands, row
      <4> QED  BY <1>2, <1>3, <1>4, <3>1, <3>2, <4>1 DEF McpCommands
    <3> HIDE DEF row
    <3>4. /\ Fresh \in RowRefs(row) /\ \A r \in RowRefs(old) : r \in RowRefs(row)
          /\ command.client => row.client = {}
      BY <1>1, <1>4, <3>1 DEF RowRefs, PlanFits
    <3>5. /\ Stage /\ leaked' = leaked /\ row.token = command.row.token
          /\ \A r \in row.headers \union row.client \union row.key :
               r = Fresh \/ r \in command.row.headers \union command.row.client \union command.row.key
      BY <2>2, <3>1
    <3>6. \A r \in RowRefs(command.row) : r \in RowRefs(row)
      BY <3>4
    <3> QED  BY <1>3, <1>5, <3>2, <3>1, <3>3, <3>4, <3>5, <3>6
  <2>3. CASE /\ command' = LaneResting /\ leaked' = leaked \union command.staged
             /\ UNCHANGED <<keyring, stagedUpTo>>
    BY <1>1, <1>2, <2>3, SecuredRests
  <2> QED  BY <1>6, <2>2, <2>3 DEF StageHeader
<1>7. CASE resolve_oauth_config
  <2>1. command.client /\ leaked' = leaked
    BY <1>7 DEF resolve_oauth_config
  <2>2. CASE Stage /\ command' = [command EXCEPT !.client = FALSE, !.staged = @ \union {Fresh},
                                                 !.row.client = {Fresh}]
    <3> DEFINE old == command.row
               row == [old EXCEPT !.client = {Fresh}]
    <3>1. /\ row \in HeaderRows /\ row.headers = old.headers /\ row.client = {Fresh}
          /\ row.key = old.key /\ row.token = old.token
      <4>1. old \in HeaderRows
        BY <1>3
      <4> HIDE DEF old
      <4> QED  BY <1>4, <4>1 DEF HeaderRows
    <3>3. /\ command' \in McpCommands /\ command'.op = "mcp" /\ command'.row = row
          /\ command'.client = FALSE /\ command'.staged = command.staged \union {Fresh}
      <4> HIDE DEF row
      <4>1. command' = [command EXCEPT !.client = FALSE,
                                       !.staged = command.staged \union {Fresh}, !.row = row]
        BY <1>2, <2>2 DEF McpCommands, row
      <4> QED  BY <1>2, <1>3, <1>4, <3>1, <4>1 DEF McpCommands
    <3> HIDE DEF row
    <3>4. Fresh \in RowRefs(row) /\ \A r \in RowRefs(old) : r \in RowRefs(row)
      BY <1>1, <1>4, <2>1, <3>1 DEF RowRefs, PlanFits
    <3>5. /\ Stage /\ leaked' = leaked /\ row.token = command.row.token
          /\ \A r \in row.headers \union row.client \union row.key :
               r = Fresh \/ r \in command.row.headers \union command.row.client \union command.row.key
      BY <2>1, <2>2, <3>1
    <3>6. \A r \in RowRefs(command.row) : r \in RowRefs(row)
      BY <3>4
    <3> QED  BY <1>3, <1>5, <3>1, <3>3, <3>4, <3>5, <3>6
  <2>3. CASE Clean(command.staged) /\ UNCHANGED <<keyring, stagedUpTo>>
    BY <1>1, <1>2, <2>1, <2>3, SecuredCleans
  <2> QED  BY <1>7, <2>2, <2>3 DEF resolve_oauth_config
<1> QED  BY <1>6, <1>7

\* mcp_server_save ends with the row, mcp_server_delete without it: what it named is cleaned up.
LEMMA SecuredMcp ==
  ASSUME Secured, SaveMcp \/ delete_mcp_server
  PROVE  Secured'
<1>1. /\ CommandTyped /\ headerRow \in HeaderRows /\ RowsAreApart /\ PlanFits
  BY DEF Secured, SecretsTyped
<1>2. RowRefs(headerRow) \in SUBSET Nat
  BY <1>1, RowFacts
<1>3. CASE SaveMcp
  <2>1. command.op = "mcp"
    BY <1>3 DEF SaveMcp
  <2>2. command \in McpCommands /\ HandOf(command) = command.staged
    BY <1>1, <2>1, CommandKinds, HandFacts
  <2>3. command.row \in HeaderRows
    BY <2>2 DEF McpCommands
  <2>4. UNCHANGED <<keyring, stagedUpTo, identities, login, proxy, queue, leaked>>
    BY <1>3 DEF SaveMcp
  <2>5. CASE headerRow' = command.row /\ Clean(Retired(command.row))
    <3>1. /\ Retired(command.row) \in SUBSET Nat
          /\ \A r : r \in Retired(command.row) <=> r \in RowRefs(headerRow) /\ r \notin RowRefs(command.row)
      BY <1>2 DEF Retired
    <3>2. /\ CommandTyped' /\ HandOf(command') = Retired(command.row) /\ command'.op \in {"none", "clean"}
          /\ command'.op # "clean" => Retired(command.row) = {}
      BY <2>5, <3>1, CleanFacts
    <3>3. \A r \in RowRefs(command.row) : r \in RowRefs(headerRow) \/ r \in HandOf(command)
      BY <1>1, <2>1, <2>2, <2>3, RowFacts DEF PlanFits
    <3>4. \A r \in command.staged : r \in RowRefs(command.row) /\ r \notin RowRefs(headerRow)
      <4>1. \A r \in command.staged : r \notin Names
        BY <2>2 DEF Secured, HandIsUnnamed
      <4> QED  BY <1>1, <2>1, <4>1, NamedFacts DEF Names, PlanFits
    <3>5. \A r \in command.row.token :
            r \notin command.row.headers /\ r \notin command.row.client /\ r \notin command.row.key
      <4>1. \A r \in command.row.token : r \in headerRow.token /\ r \in RowRefs(headerRow)
        BY <1>1, <2>1, RowFacts DEF PlanFits
      <4>2. \A r \in command.row.headers \union command.row.client \union command.row.key :
              r \in headerRow.headers \union headerRow.client \union headerRow.key \union command.staged
        BY <1>1, <2>1 DEF PlanFits
      <4> QED  BY <1>1, <3>4, <4>1, <4>2 DEF RowsAreApart
    <3>6. \A r \in HandOf(command') : r \in RowRefs(headerRow) /\ r \notin RowRefs(command.row)
      BY <3>1, <3>2
    <3>7. \A r \in keyring' : r \in RowRefs(headerRow) \/ r \in HandOf(command) =>
            r \in RowRefs(command.row) \/ r \in HandOf(command') \/ r \in leaked'
      BY <2>2, <3>1, <3>2, <3>4
    <3> QED  BY <2>1, <2>3, <2>4, <2>5, <3>2, <3>3, <3>5, <3>6, <3>7, SecuredRow
  <2>6. CASE Clean(command.staged) /\ headerRow' = headerRow
    BY <2>2, <2>4, <2>6, SecuredCleans DEF databaseVars
  <2> QED  BY <1>3, <2>5, <2>6 DEF SaveMcp, upsert_mcp_server
<1>4. CASE delete_mcp_server
  <2>1. /\ command.op = "none" /\ HandOf(command) = {} /\ headerRow' = NoRow
        /\ Clean(RowRefs(headerRow))
        /\ UNCHANGED <<keyring, stagedUpTo, identities, login, proxy, queue, leaked>>
    BY <1>4, RestingFacts DEF delete_mcp_server
  <2>2. /\ CommandTyped' /\ HandOf(command') = RowRefs(headerRow) /\ command'.op \in {"none", "clean"}
        /\ command'.op # "clean" => RowRefs(headerRow) = {}
    BY <1>2, <2>1, CleanFacts
  <2>3. NoRow \in HeaderRows /\ RowRefs(NoRow) = {} /\ NoRow.token = {}
    BY DEF NoRow, HeaderRows, RowRefs
  <2> QED  BY <2>1, <2>2, <2>3, SecuredRow
<1> QED  BY <1>3, <1>4

\* oauth_connect stores a key, obtains a token and stores it; the former token is erased.
LEMMA SecuredConnect ==
  ASSUME Secured,
         \/ \E b \in BOOLEAN : BeginConnect(b) \/ FlowEnds(b)
         \/ persist_oauth \/ store_connected_bundle
  PROVE  Secured'
<1>1. /\ CommandTyped /\ headerRow \in HeaderRows /\ RowsAreApart /\ PlanFits
      /\ \A r \in HandOf(command) : r \notin RowRefs(headerRow)
  BY NamedFacts DEF Secured, SecretsTyped, HandIsUnnamed, Names
<1>2. ASSUME NEW dpop \in BOOLEAN, BeginConnect(dpop) PROVE Secured'
  <2>1. HandOf(command) = {} /\ UNCHANGED <<databaseVars, leaked>>
    BY <1>2, RestingFacts DEF BeginConnect
  <2>2. CASE headerRow.key = {} /\ Stage /\ command' = [op |-> "key", staged |-> {Fresh}]
    BY <2>1, <2>2, SecuredStages
  <2>3. CASE command' = [op |-> "flow"] /\ UNCHANGED <<keyring, stagedUpTo>>
    BY <2>1, <2>3, SecuredRests
  <2> QED  BY <1>2, <2>2, <2>3 DEF BeginConnect
<1>3. ASSUME NEW obtained \in BOOLEAN, FlowEnds(obtained) PROVE Secured'
  <2>1. HandOf(command) = {} /\ UNCHANGED <<databaseVars, leaked>>
    BY <1>3, HandFacts DEF FlowEnds
  <2>2. CASE Stage /\ command' = [op |-> "bundle", staged |-> {Fresh}]
    BY <2>1, <2>2, SecuredStages
  <2>3. CASE command' = LaneResting /\ UNCHANGED <<keyring, stagedUpTo>>
    BY <2>1, <2>3, SecuredRests
  <2> QED  BY <1>3, <2>2, <2>3 DEF FlowEnds
<1>4. CASE persist_oauth
  <2>1. command.op = "key" /\ UNCHANGED <<keyring, stagedUpTo, identities, login, proxy, queue>>
    BY <1>4 DEF persist_oauth
  <2>2. command.staged \in SUBSET Nat /\ HandOf(command) = command.staged /\ headerRow.key = {}
    BY <1>1, <2>1, CommandKinds, HandFacts DEF StagedCommands, PlanFits
  <2>3. CASE /\ headerRow' = [headerRow EXCEPT !.key = command.staged] /\ command' = [op |-> "flow"]
             /\ leaked' = leaked
    <3> DEFINE row == [headerRow EXCEPT !.key = command.staged]
    <3>1. /\ row \in HeaderRows /\ row.headers = headerRow.headers /\ row.client = headerRow.client
          /\ row.key = command.staged /\ row.token = headerRow.token
      BY <1>1, <2>2 DEF HeaderRows
    <3>2. headerRow' = row
      BY <2>3
    <3> HIDE DEF row
    <3>3. CommandTyped' /\ command'.op = "flow" /\ HandOf(command') = {}
      BY <2>3, RestingFacts DEF CommandTyped
    <3>4. /\ \A r : r \in RowRefs(row) <=> r \in RowRefs(headerRow) \/ r \in HandOf(command)
          /\ \A r \in headerRow.token : r \in RowRefs(headerRow)
      BY <1>1, <2>2, <3>1, RowFacts
    <3>5. \A r \in row.token : r \notin row.headers /\ r \notin row.client /\ r \notin row.key
      BY <1>1, <2>2, <3>1, <3>4 DEF RowsAreApart
    <3> QED  BY <2>1, <2>3, <3>1, <3>2, <3>3, <3>4, <3>5, SecuredRow
  <2>4. CASE leaked' = leaked \union command.staged /\ command' = LaneResting /\ headerRow' = headerRow
    BY <2>1, <2>2, <2>4, SecuredRests DEF databaseVars
  <2> QED  BY <1>4, <2>3, <2>4 DEF persist_oauth, upsert_mcp_server
<1>5. CASE store_connected_bundle
  <2>1. /\ command.op = "bundle" /\ UNCHANGED <<stagedUpTo, identities, login, proxy, queue>>
        /\ command' = LaneResting
    BY <1>5 DEF store_connected_bundle
  <2>2. command.staged \in SUBSET Nat /\ HandOf(command) = command.staged
    BY <1>1, <2>1, CommandKinds, HandFacts DEF StagedCommands
  <2>3. CommandTyped' /\ command'.op = "none" /\ HandOf(command') = {}
    BY <2>1, RestingFacts DEF CommandTyped
  <2>4. CASE headerRow' = [headerRow EXCEPT !.token = command.staged] /\ EraseOrForget(headerRow.token)
    <3> DEFINE row == [headerRow EXCEPT !.token = command.staged]
    <3>1. /\ row \in HeaderRows /\ row.headers = headerRow.headers /\ row.client = headerRow.client
          /\ row.key = headerRow.key /\ row.token = command.staged
      BY <1>1, <2>2 DEF HeaderRows
    <3>2. headerRow' = row
      BY <2>4
    <3> HIDE DEF row
    <3>3. /\ \A r \in RowRefs(row) : r \in RowRefs(headerRow) \/ r \in HandOf(command)
          /\ \A r \in HandOf(command) : r \in RowRefs(row)
          /\ \A r \in RowRefs(headerRow) : r \notin headerRow.token => r \in RowRefs(row)
      BY <1>1, <2>2, <3>1, RowFacts
    <3>4. \A r \in row.token : r \notin row.headers /\ r \notin row.client /\ r \notin row.key
      BY <1>1, <2>2, <3>1, RowFacts
    <3>5. \A r \in headerRow.token : r \in RowRefs(headerRow) /\ r \notin RowRefs(row)
      BY <1>1, <2>2, <3>1, RowFacts DEF RowsAreApart
    <3>6. /\ leaked \subseteq leaked' /\ keyring' \subseteq keyring
          /\ \A r \in keyring : r \in keyring' \/ r \in headerRow.token
          /\ \A r \in keyring' : r \in headerRow.token => r \in leaked'
      BY <2>4 DEF EraseOrForget
    <3> QED  BY <2>1, <2>3, <3>1, <3>2, <3>3, <3>4, <3>5, <3>6, SecuredRow
  <2>5. CASE EraseOrForget(command.staged) /\ headerRow' = headerRow
    <3>1. /\ Names' = Names /\ identities' \subseteq SUBSET Nat /\ PlanFits' /\ RowsAreApart'
          /\ \A r \in Names : r \notin HandOf(command)
      BY <1>1, <2>1, <2>3, <2>5, PlanIsIdle DEF Names, RowsAreApart, Secured, SecretsTyped, HandIsUnnamed
    <3>2. /\ leaked \subseteq leaked' /\ keyring' \subseteq keyring
          /\ \A r \in keyring : r \in keyring' \/ r \in HandOf(command)
          /\ \A r \in keyring' : r \in HandOf(command) => r \in leaked'
      BY <2>2, <2>5 DEF EraseOrForget
    <3> QED  BY <1>1, <2>1, <2>3, <2>5, <3>1, <3>2, SecuredSave
  <2> QED  BY <1>5, <2>4, <2>5 DEF store_connected_bundle, upsert_mcp_server
<1> QED  BY <1>2, <1>3, <1>4, <1>5

\* One secret is erased, or queued again, or given up; no row names it.
LEMMA SecuredErase ==
  ASSUME Secured, command.op = "clean", NEW ref \in command.todo, clean_credential_reference(ref)
  PROVE  Secured'
<1>1. /\ CommandTyped /\ Names \subseteq 1..stagedUpTo /\ queue \subseteq 1..stagedUpTo
      /\ HandOf(command) \subseteq 1..stagedUpTo /\ HandOf(command) \subseteq Nat
      /\ (\A r \in HandOf(command) : r \notin Names) /\ (\A r \in queue : r \notin Names)
      /\ Names \subseteq keyring
      /\ keyring \subseteq Names \union queue \union HandOf(command) \union leaked
  BY DEF Secured, SecretsTyped, HandIsUnnamed
<1>2. HandOf(command) = command.todo
  BY HandFacts
<1>3. /\ CommandTyped' /\ HandOf(command') = command.todo \ {ref} /\ command'.op \in {"none", "clean"}
      /\ command'.op # "clean" => command.todo \ {ref} = {}
  <2>1. command.todo \ {ref} \in SUBSET Nat /\ Clean(command.todo \ {ref})
    BY <1>1, <1>2 DEF clean_credential_reference
  <2> QED  BY <2>1, CleanFacts
<1>4. UNCHANGED <<stagedUpTo, identities, login, proxy, headerRow>> /\ Names' = Names
  BY DEF clean_credential_reference, Names
<1>5. \/ keyring' = keyring \ {ref} /\ queue' = queue \ {ref} /\ leaked' = leaked
      \/ keyring' = keyring /\ queue' = queue \union {ref} /\ leaked' = leaked
      \/ keyring' = keyring /\ queue' = queue /\ leaked' = leaked \union {ref}
  BY DEF clean_credential_reference, AfterFailedErase
<1>6. ref \notin Names /\ ref \in 1..stagedUpTo
  BY <1>1, <1>2
<1>7. SecretsTyped'
  <2>1. queue' \subseteq 1..stagedUpTo /\ HandOf(command') \subseteq 1..stagedUpTo
    BY <1>1, <1>2, <1>3, <1>5, <1>6
  <2> QED  BY <1>3, <1>4, <2>1 DEF Secured, SecretsTyped
<1>8. RowsAreApart' /\ PlanFits'
  BY <1>3, <1>4, PlanIsIdle DEF Secured, RowsAreApart
<1>9. HandIsUnnamed'
  <2>1. \A r \in queue' : r \notin Names'
    BY <1>1, <1>4, <1>5, <1>6
  <2>2. \A r \in HandOf(command') : r \notin Names' /\ command'.op = "clean"
    BY <1>1, <1>2, <1>3, <1>4
  <2> QED  BY <2>1, <2>2 DEF HandIsUnnamed
<1>10. Names' \subseteq keyring' /\ keyring' \subseteq (Names \union queue \union HandOf(command) \union leaked)'
  <2>1. Names' \subseteq keyring'
    BY <1>1, <1>4, <1>5, <1>6
  <2>2. ASSUME NEW r \in keyring'
        PROVE  r \in Names' \/ r \in queue' \/ r \in HandOf(command') \/ r \in leaked'
    BY <1>1, <1>2, <1>3, <1>4, <1>5
  <2> QED  BY <2>1, <2>2
<1> QED  BY <1>7, <1>8, <1>9, <1>10 DEF Secured

\* A session starts, reads its token, or stores the refreshed one, whatever became of it.
LEMMA SecuredSession ==
  ASSUME Secured, StartSession \/ token_inner \/ persist
  PROVE  Secured'
<1>1. /\ UNCHANGED <<stagedUpTo, databaseVars, command>>
      /\ keyring \subseteq keyring' /\ leaked \subseteq leaked'
      /\ \A r \in keyring' : r \in keyring \/ r \in leaked'
  BY DEF StartSession, token_inner, persist
<1>2. HandOf(command') = HandOf(command) /\ CommandTyped' /\ PlanFits'
  BY <1>1 DEF Secured, SecretsTyped, CommandTyped, PlanFits, databaseVars
<1> DEFINE new == {}
<1>3. new = {} /\ new \subseteq keyring' /\ new \subseteq HandOf(command')
  OBVIOUS
<1> HIDE DEF new
<1>4. /\ UNCHANGED databaseVars /\ stagedUpTo' = stagedUpTo /\ command' = command
      /\ keyring' \subseteq keyring \union new \union leaked'
  BY <1>1
<1>5. /\ \A r \in HandOf(command') : r \in HandOf(command) /\ (command.op = "clean" => command'.op = "clean")
      /\ \A r \in HandOf(command) : r \in HandOf(command')
  BY <1>2, <1>4
<1> QED  BY <1>1, <1>2, <1>3, <1>4, <1>5, SecuredLane

\* The program ends and starts again: what the command held is given up unless a row or the queue
\* names it, and the queue is worked off.
LEMMA SecuredRestart ==
  ASSUME Secured, Restart
  PROVE  Secured'
<1>1. /\ queue \subseteq 1..stagedUpTo /\ stagedUpTo \in Nat
      /\ \A s \in DOMAIN login : login[s] \in identities
  BY DEF Secured, SecretsTyped, RowsAreApart
<1>2. queue \in SUBSET Nat
  BY <1>1
<1>3. Clean(queue) /\ leaked' = leaked \union (InHand \ (Named \union queue))
      /\ UNCHANGED <<keyring, stagedUpTo, databaseVars>>
  BY DEF Restart
<1>4. /\ CommandTyped' /\ HandOf(command') = queue /\ command'.op \in {"none", "clean"}
      /\ command'.op # "clean" => queue = {}
  BY <1>2, <1>3, CleanFacts
<1>5. Named = Names
  BY <1>1 DEF Named, Names, NamedBy
<1>6. InHand = HandOf(command)
  BY DEF InHand, HandOf
<1>7. \A r \in HandOf(command) : r \in queue \/ r \in Names \/ r \in leaked'
  BY <1>3, <1>5, <1>6
<1>8. \A r \in HandOf(command') : r \in queue /\ command'.op = "clean"
  BY <1>4
<1>9. PlanFits'
  BY <1>4, PlanIsIdle
<1> DEFINE new == {}
<1>10. new = {} /\ new \subseteq HandOf(command')
  OBVIOUS
<1> HIDE DEF new
<1>11. /\ UNCHANGED databaseVars /\ stagedUpTo' = stagedUpTo /\ keyring' = keyring
       /\ leaked \subseteq leaked'
  BY <1>3
<1> QED  BY <1>4, <1>7, <1>8, <1>9, <1>10, <1>11, SecuredLane

\* Nothing is stored or named at first.
LEMMA SecuredInit == SecretsInit => Secured
<1> SUFFICES ASSUME SecretsInit PROVE Secured
  OBVIOUS
<1>1. /\ NoRow \in HeaderRows /\ RowRefs(NoRow) = {} /\ NoRow.token = {}
  BY DEF NoRow, HeaderRows, RowRefs
<1>2. /\ keyring = {} /\ stagedUpTo = 0 /\ identities = {} /\ DOMAIN login = {} /\ proxy = {}
      /\ headerRow = NoRow /\ queue = {} /\ command = LaneResting /\ leaked = {}
  BY DEF SecretsInit
<1>3. Names = {} /\ HandOf(command) = {}
  BY <1>1, <1>2, RestingFacts DEF Names, NamedBy
<1>4. SecretsTyped
  BY <1>1, <1>2, <1>3 DEF SecretsTyped, CommandTyped
<1>5. RowsAreApart /\ HandIsUnnamed
  BY <1>1, <1>2, <1>3 DEF RowsAreApart, HandIsUnnamed
<1>6. PlanFits
  BY <1>2, RestingFacts DEF PlanFits
<1> QED  BY <1>2, <1>3, <1>4, <1>5, <1>6 DEF Secured

\* Nothing moves.
LEMMA SecuredStutter ==
  ASSUME Secured, UNCHANGED secretVars
  PROVE  Secured'
BY DEF secretVars, databaseVars, Secured, SecretsTyped, CommandTyped, RowsAreApart, HandIsUnnamed,
       PlanFits, Names

\* Every step of the commands, the sessions and the program keeps the invariant.
LEMMA SecuredNext ==
  ASSUME Secured, SecretsNext
  PROVE  Secured'
<1>1. CASE \/ \E s \in LoginServers, method \in {"password", "certificate", "agent"}, n \in 0..2 :
                BeginServer(s, method, n)
           \/ StageLogin
  BY <1>1, SecuredLogin
<1>2. CASE \/ SaveServer
           \/ \E s \in LoginServers : server_delete(s) \/ \E i \in identities : ReuseIdentity(s, i)
  BY <1>2, SecuredServer
<1>3. CASE Reclaim
  BY <1>3, SecuredReclaim
<1>4. CASE SaveProxy \/ \E clear \in BOOLEAN : BeginProxy(clear)
  BY <1>4, SecuredProxy
<1>5. CASE \E retained \in SUBSET headerRow.headers, headers \in 0..MaxHeaders,
              oauth \in {"none", "same", "other"}, client \in {"carried", "new", "dropped"} :
             BeginMcp(retained, headers, oauth, client)
  BY <1>5, SecuredBegin
<1>6. CASE StageHeader \/ resolve_oauth_config
  BY <1>6, SecuredHeaders
<1>7. CASE SaveMcp \/ delete_mcp_server
  BY <1>7, SecuredMcp
<1>8. CASE \/ \E b \in BOOLEAN : BeginConnect(b) \/ FlowEnds(b)
           \/ persist_oauth \/ store_connected_bundle
  BY <1>8, SecuredConnect
<1>9. CASE command.op = "clean" /\ \E ref \in command.todo : clean_credential_reference(ref)
  BY <1>9, SecuredErase
<1>10. CASE StartSession \/ token_inner \/ persist
  BY <1>10, SecuredSession
<1>11. CASE Restart
  BY <1>11, SecuredRestart
<1> QED  BY <1>1, <1>2, <1>3, <1>4, <1>5, <1>6, <1>7, <1>8, <1>9, <1>10, <1>11 DEF SecretsNext

\* The invariant of the stored secrets holds in every state: no two rows name one secret, what is
\* to be erased no row names, and every secret is accounted for (desktop_host's commands).
THEOREM SecuredInvariant == SecretsSpec => []Secured
<1>1. Secured /\ [SecretsNext]_secretVars => Secured'
  BY SecuredNext, SecuredStutter
<1> QED  BY <1>1, SecuredInit, PTL DEF SecretsSpec

\* A row finds the secret it names, and a secret no row names is queued, in the hands of the command
\* at work, or was given up on a path that records none.
LEMMA SecuredKeeps ==
  ASSUME Secured
  PROVE  RowsHaveSecrets /\ LostSecretsAreQueued
<1>1. \A s \in DOMAIN login : login[s] \in identities
  BY DEF Secured, RowsAreApart
<1>2. Named = Names /\ InHand = HandOf(command)
  BY <1>1 DEF Named, Names, NamedBy, InHand, HandOf
<1> QED  BY <1>2 DEF Secured, RowsHaveSecrets, LostSecretsAreQueued

----------------------------------------------------------------------------
(* The desktop host of module MCDesktop *)

\* The components that share no state run beside each other: a behaviour of the desktop host is
\* one of each of its components, so what was proved of a component holds of the host.
THEOREM DesktopParts ==
  DesktopSpec => /\ SecretsSpec /\ CredentialStoreSpec /\ TerminalSpec /\ OAuthSpec
                 /\ LocalFilesSpec /\ HostTrustSpec /\ GuardedReplaceSpec
<1>1. DesktopInit => /\ SecretsInit /\ CredentialStoreInit /\ TerminalInit /\ OAuthInit
                     /\ LocalFilesInit /\ HostTrustInit /\ GuardedReplaceInit
  BY DEF DesktopInit
<1>2. [DesktopNext]_desktopVars =>
        /\ [SecretsNext]_secretVars /\ [CredentialStoreNext]_storeVars /\ [TerminalNext]_terminalVars
        /\ [OAuthNext]_oauthVars /\ [LocalPathsNext \/ RemoteDragNext]_localVars
        /\ [HostTrustNext]_trustVars /\ [GuardedReplaceNext]_replaceVars
  BY DEF DesktopNext, desktopVars
<1> QED  BY <1>1, <1>2, PTL DEF DesktopSpec, SecretsSpec, CredentialStoreSpec, TerminalSpec, OAuthSpec,
           LocalFilesSpec, HostTrustSpec, GuardedReplaceSpec

\* Rows, queue and credential store of the desktop host agree, through failures, crashes and shared
\* identities, and the kernel's copy of a secret is the service's (clean_credential_references,
\* delete_identity_if_unshared, KernelCredentialStore).
THEOREM SecretsTheorem == DesktopSpec => []SecretsAreKept
<1>1. Secured => RowsHaveSecrets /\ LostSecretsAreQueued
  BY SecuredKeeps
<1>2. DesktopSpec => []Secured /\ []CopyIsTruthful
  BY DesktopParts, SecuredInvariant, CopyTheorem
<1>3. Secured /\ CopyIsTruthful => SecretsAreKept
  BY <1>1 DEF SecretsAreKept
<1> QED  BY <1>2, <1>3, PTL
=============================================================================
