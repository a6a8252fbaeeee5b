------------------------- MODULE InvestigationProofs -------------------------
(***************************************************************************)
(* What holds of an investigation however many workers, revisions and runs  *)
(* it has.  A plan row is judged in one step and written in another, so it  *)
(* is not enough that the rows are in order: `Kept` says it of every copy a *)
(* worker or the user's lane may still write back, and that a copy carries  *)
(* an approval only if its plan was once decided on.  What a plan must be   *)
(* like (`Sound`) speaks of one record, whoever holds it, which is why a    *)
(* late write cannot break it.                                              *)
(***************************************************************************)
EXTENDS Investigation, SequenceTheorems, FiniteSetTheorems, WellFoundedInduction, TLAPS

USE DEF taskRows, planRows, agentVars, hostVars, laneVars

-----------------------------------------------------------------------------
(* The invariant; f is the task's form, d the decisions, v the verified     *)

StepsOf(f) == 1 .. Len(f.kinds)
StepRow(f) == [status : {"pending", "running", "succeeded", "blocked"}, attempts : 0 .. MaxAttempts,
               last : {<<>>} \union (f.calls \X Outcomes)]
Row(f) ==
  [status : {"absent", "active", "completed", "superseded"}, revision : Nat,
   current : {0} \union StepsOf(f), approval : {"pending", "approved"},
   window : {"pending", "running", "succeeded", "failed", "cancelled"},
   steps : [StepsOf(f) -> StepRow(f)]]

\* Before the current step all has succeeded, after it nothing was begun, and what may still be
\* tried has an attempt left.
Ordered(f, plan) ==
  \A k \in StepsOf(f) :
    /\ plan.current = 0 \/ k < plan.current => plan.steps[k].status = "succeeded"
    /\ plan.current # 0 /\ k > plan.current
         => plan.steps[k] = [status |-> "pending", attempts |-> 0, last |-> <<>>]
    /\ plan.steps[k].status \in {"pending", "running"} => plan.steps[k].attempts < MaxAttempts

\* A verification that was to be watched has succeeded only under a succeeded window.
SeenThrough(f, plan) ==
  f.watched => \A k \in StepsOf(f) :
    f.kinds[k] = "verification" /\ plan.steps[k].status = "succeeded" => plan.window = "succeeded"

Sound(f, plan) ==
  /\ plan \in Row(f) /\ plan.status # "absent"
  /\ plan.status = "completed" => plan.current = 0
  /\ Ordered(f, plan) /\ SeenThrough(f, plan)
Chosen(d, p, plan) == plan.approval = "approved" => d[p] # "never"

Empty(f) == [status |-> "absent", revision |-> 0, current |-> 0, approval |-> "pending",
             window |-> "pending",
             steps |-> [k \in StepsOf(f) |-> [status |-> "pending", attempts |-> 0, last |-> <<>>]]]
PlansKept(f, d, rows) ==
  /\ rows \in [Plans -> Row(f)]
  /\ \A p \in Plans : rows[p] = Empty(f) \/ (Sound(f, rows[p]) /\ Chosen(d, p, rows[p]))

\* What a worker holds may be written back at any time; it completes the task only for a plan
\* whose verification artifact exists.
WorkerKept(f, d, v, h) ==
  /\ h.at \in {"free", "record", "judge", "save", "move"}
  /\ h.at \in {"record", "judge", "save"} => h.plan \in Plans /\ Sound(f, h.copy) /\ Chosen(d, h.plan, h.copy)
  /\ h.at = "judge" => h.step \in StepsOf(f) /\ h.call \in f.calls \X Outcomes
  /\ h.at \in {"save", "move"} => (h.move # <<>> /\ h.move[1] = "completed" => h.plan \in v)
HostKept(f, d, v, hs) == hs = [w \in Workers |-> hs[w]] /\ \A w \in Workers : WorkerKept(f, d, v, hs[w])

\* So may what the user's lane holds; after an invalidation it has no approval and no open window.
LaneKept(f, d, l) ==
  /\ l.at \in {"free", "admit", "launch", "sidecar", "invalidate", "recover", "approve", "set"}
  /\ l.at \in {"admit", "invalidate", "recover", "approve"} =>
       /\ l.plan \in {0} \union Plans /\ l.copy \in Row(f)
       /\ l.plan # 0 => Sound(f, l.copy) /\ Chosen(d, l.plan, l.copy)
  /\ l.at = "approve" => l.plan # 0
  /\ l.at = "recover" => l.copy.approval = "pending" /\ l.copy.window # "running"
  /\ l.at \in {"invalidate", "recover"} => l.then # "completed"
  /\ l.at = "invalidate" => {"at", "plan", "copy", "then"} \subseteq DOMAIN l
  /\ l.at = "set" => l.to # "completed"

\* A run is bound to a step of a plan or to none.
RunRow(f) ==
  [status : OpenRun \union {"completed", "failed", "cancelled", "interrupted"},
   bound : {<<>>} \union (({0} \union Plans) \X Nat \X StepsOf(f) \X StepRow(f))]

Decisions == [Plans -> {"never", "fresh", "stale"}]

Kept ==
  /\ form \in Forms /\ commands \in Nat
  /\ decided \in Decisions /\ verified \subseteq Plans /\ brief \in {0} \union Plans
  /\ runs \in Seq(RunRow(form))
  /\ PlansKept(form, decided, plans)
  /\ HostKept(form, decided, verified, host)
  /\ LaneKept(form, decided, lane)

\* What moves a task has a status of a task and a run within the budget, wherever it is held.
Failures == {"none", "unknown", "recovered"}
TaskRow(f) == [status : Statuses, run : 0 .. f.runs, failure : Failures]
MoveRowed(f, m) == m[1] \in Statuses /\ (Len(m) = 2 => m[2] \in 0 .. f.runs)
WorkerRowed(f, h) ==
  /\ h.at \in {"save", "move"} /\ h.move # <<>> => MoveRowed(f, h.move)
  /\ h.at = "move" => h.move # <<>>
LaneRowed(rows, l) ==
  /\ l.at \in {"launch", "sidecar"} => rows # <<>>
  /\ l.at \in {"invalidate", "recover"} => l.failure \in Failures /\ "failure" \in DOMAIN l
                                          /\ l.then \in {"stopped", "waiting_user", ""}
  /\ l.at = "set" => l.to \in {"stopped", "waiting_user"}

Rowed ==
  /\ task \in TaskRow(form)
  /\ Len(runs) <= form.runs /\ agents \subseteq DOMAIN runs /\ event \in 0 .. form.runs
  /\ baseline \in [Plans -> {"none", "ready", "superseded"}]
  /\ \A w \in Workers : WorkerRowed(form, host[w])
  /\ LaneRowed(runs, lane)

-----------------------------------------------------------------------------
(* Rows and copies                                                         *)

\* A task's plans have steps, and one that is watched ends with its verification.
LEMMA StepsAreNumbered ==
  ASSUME NEW f \in Forms
  PROVE  /\ Len(f.kinds) \in Nat \ {0} /\ Len(f.kinds) \in StepsOf(f)
         /\ f.watched => f.kinds[Len(f.kinds)] = "verification"
<1>1. f.kinds \in Seq({"evidence", "decision", "action", "verification"}) /\ f.kinds # <<>>
  BY InvestigationAssumption
<1>2. Len(f.kinds) \in Nat \ {0} BY <1>1, EmptySeq, LenProperties
<1>3. f.watched => f.kinds[Len(f.kinds)] = "verification" BY InvestigationAssumption
<1>4. QED BY <1>2, <1>3 DEF StepsOf

\* A plan that is not there yet has the shape of a row, and nothing of it was begun.
LEMMA EmptyIsRow ==
  ASSUME NEW f \in Forms
  PROVE  Empty(f) \in Row(f) /\ Empty(f).approval = "pending" /\ Empty(f).status = "absent"
<1>1. 0 \in 0 .. MaxAttempts BY InvestigationAssumption
<1> DEFINE fresh == [status |-> "pending", attempts |-> 0, last |-> <<>>]
<1>2. fresh \in StepRow(f) BY <1>1 DEF StepRow
<1> HIDE DEF fresh
<1>3. [k \in StepsOf(f) |-> fresh] \in [StepsOf(f) -> StepRow(f)] BY <1>2
<1>4. Empty(f) = [status |-> "absent", revision |-> 0, current |-> 0, approval |-> "pending",
                  window |-> "pending", steps |-> [k \in StepsOf(f) |-> fresh]]
  BY DEF Empty, fresh
<1>5. QED BY <1>3, <1>4 DEF Row

\* What the state calls a plan's start, its steps and its kinds are those of the task's form.
LEMMA FormNames ==
  /\ NoPlan = Empty(form) /\ Steps = StepsOf(form) /\ Kinds = form.kinds /\ Watched = form.watched
BY DEF NoPlan, Empty, Steps, StepsOf, Kinds, Watched

Above(rows, p, q) == \/ rows[p].revision > rows[q].revision
                     \/ rows[p].revision = rows[q].revision /\ p >= q

\* Of any plans that are there one is the latest.
LEMMA LatestExists ==
  ASSUME NEW f, NEW rows \in [Plans -> Row(f)], NEW S \in SUBSET Plans, S # {}
  PROVE  \E p \in S : \A q \in S : Above(rows, p, q)
<1> DEFINE Headed(X) == \E p \in X : \A q \in X : Above(rows, p, q)
           bare == {X \in SUBSET S : X # {} /\ ~Headed(X)}
<1>0. IsFiniteSet(S) /\ Plans \subseteq Nat BY InvestigationAssumption, FS_Subset
<1>1. \A p \in S : rows[p].revision \in Nat /\ p \in Nat BY <1>0 DEF Row
<1>2. SUFFICES ASSUME bare # {} PROVE FALSE OBVIOUS
<1>3. IsWellFoundedOn(StrictSubsetOrdering(S), SUBSET S)
  BY <1>0, FS_StrictSubsetOrderingWellFounded, FS_FiniteSubsetsOfFinite
<1>4. bare \subseteq SUBSET S OBVIOUS
<1>5. PICK X \in bare : \A Y \in bare : ~(<<Y, X>> \in StrictSubsetOrdering(S))
  <2> HIDE DEF bare
  <2>1. QED BY <1>2, <1>3, <1>4, WFMin
<1>6. X \subseteq S /\ X # {} /\ ~Headed(X) OBVIOUS
<1>7. PICK x \in X : TRUE BY <1>6
<1> DEFINE Y == X \ {x}
<1>8. Y \subseteq S /\ Y \subseteq X /\ Y # X BY <1>6, <1>7
<1>9. Y \notin bare
  <2>1. <<Y, X>> \in StrictSubsetOrdering(S) BY <1>6, <1>8 DEF StrictSubsetOrdering
  <2>2. QED BY <1>5, <2>1
<1>10. Above(rows, x, x) BY <1>1, <1>6, <1>7 DEF Above
<1>11. CASE Y = {} BY <1>6, <1>7, <1>10, <1>11
<1>12. CASE Y # {}
  <2>1. PICK y \in Y : \A q \in Y : Above(rows, y, q) BY <1>8, <1>9, <1>12
  <2>2. CASE Above(rows, x, y)
    <3>1. \A q \in Y : Above(rows, x, q) BY <1>1, <1>6, <1>7, <1>8, <2>1, <2>2 DEF Above
    <3>2. \A q \in X : Above(rows, x, q) BY <1>10, <3>1
    <3>3. QED BY <1>6, <1>7, <3>2
  <2>3. CASE ~Above(rows, x, y)
    <3>1. Above(rows, y, x) BY <1>1, <1>6, <1>7, <1>8, <2>1, <2>3 DEF Above
    <3>2. \A q \in X : Above(rows, y, q) BY <2>1, <3>1
    <3>3. QED BY <1>6, <1>8, <3>2
  <2>4. QED BY <2>2, <2>3
<1>13. QED BY <1>11, <1>12

\* The latest plan, if there is one, is neither absent nor superseded.
LEMMA LatestIsLive ==
  ASSUME NEW f, plans \in [Plans -> Row(f)]
  PROVE  \/ latest_investigation_plan = 0
         \/ /\ latest_investigation_plan \in Plans
            /\ plans[latest_investigation_plan].status \in {"active", "completed"}
<1> DEFINE live == {p \in Plans : plans[p].status \in {"active", "completed"}}
<1>1. latest_investigation_plan = IF live = {} THEN 0
                                  ELSE CHOOSE p \in live : \A q \in live : Above(plans, p, q)
  BY DEF latest_investigation_plan, Above
<1>2. CASE live = {} BY <1>1, <1>2
<1>3. CASE live # {}
  <2>1. \E p \in live : \A q \in live : Above(plans, p, q) BY <1>3, LatestExists
  <2>2. latest_investigation_plan \in live
    <3> HIDE DEF live
    <3>1. QED BY <1>1, <1>3, <2>1
  <2>3. QED BY <2>2
<1>4. QED BY <1>2, <1>3

\* The latest plan's row is sound and chosen; with none the copy is that of a plan not there.
LEMMA LatestIsSound ==
  ASSUME form \in Forms, PlansKept(form, decided, plans)
  PROVE  /\ LatestCopy \in Row(form) /\ latest_investigation_plan \in {0} \union Plans
         /\ latest_investigation_plan # 0 =>
              /\ latest_investigation_plan \in Plans /\ LatestCopy = plans[latest_investigation_plan]
              /\ LatestCopy.status \in {"active", "completed"}
              /\ Sound(form, LatestCopy) /\ Chosen(decided, latest_investigation_plan, LatestCopy)
<1>1. plans \in [Plans -> Row(form)] BY DEF PlansKept
<1>2. CASE latest_investigation_plan = 0 BY <1>2, FormNames, EmptyIsRow DEF LatestCopy
<1>3. CASE latest_investigation_plan # 0
  <2>1. /\ latest_investigation_plan \in Plans /\ LatestCopy = plans[latest_investigation_plan]
        /\ plans[latest_investigation_plan].status \in {"active", "completed"}
    BY <1>1, <1>3, LatestIsLive DEF LatestCopy
  <2>2. LatestCopy # Empty(form) BY <2>1, EmptyIsRow
  <2>3. QED BY <1>1, <2>1, <2>2 DEF PlansKept
<1>4. QED BY <1>2, <1>3

-----------------------------------------------------------------------------
(* What the handlers make of a plan                                        *)

\* A row whose status, window or approval changes is as sound as before, if it was not completed
\* and a window that was seen through stays so.
LEMMA Relabelled ==
  ASSUME NEW f, NEW plan, NEW new, Sound(f, plan), new \in Row(f),
         new.status # "absent", new.current = plan.current, new.steps = plan.steps,
         new.status = plan.status \/ new.status # "completed",
         plan.window = "succeeded" => new.window = "succeeded"
  PROVE  Sound(f, new)
<1>1. Ordered(f, new) BY DEF Sound, Ordered
<1>2. SeenThrough(f, new) BY DEF Sound, SeenThrough
<1>3. QED BY <1>1, <1>2 DEF Sound

\* A new revision starts at its first step with nothing done; a window is carried over only with
\* its steps undone.
LEMMA NewPlanSound ==
  ASSUME form \in Forms, PlansKept(form, decided, plans), NEW p \in Plans, NEW same \in BOOLEAN,
         plans[p].status = "absent" \/ latest_investigation_plan = p
  PROVE  Sound(form, NewPlan(p, same)) /\ Chosen(decided, p, NewPlan(p, same))
<1> DEFINE prior == latest_investigation_plan
           started == [NoPlan EXCEPT !.status = "active", !.current = 1,
                         !.revision = IF prior = 0 THEN 1 ELSE plans[prior].revision + 1]
           carried == [started EXCEPT !.window = plans[prior].window]
<1>0. p # 0 /\ plans \in [Plans -> Row(form)] BY InvestigationAssumption DEF PlansKept
<1>1. CASE prior = p
  <2>1. NewPlan(p, same) = LatestCopy BY <1>0, <1>1 DEF NewPlan, merge_plan_runtime, LatestCopy
  <2>2. QED BY <1>0, <1>1, <2>1, LatestIsSound
<1>2. CASE prior # p
  <2>1. NewPlan(p, same) = started \/ (prior # 0 /\ NewPlan(p, same) = carried)
    BY <1>2 DEF NewPlan
  <2>2. (IF prior = 0 THEN 1 ELSE plans[prior].revision + 1) \in Nat
    BY <1>0, LatestIsSound DEF Row
  <2>3. NoPlan = Empty(form) /\ NoPlan \in Row(form) /\ NoPlan.approval = "pending"
    BY FormNames, EmptyIsRow
  <2>4. 1 \in StepsOf(form) BY StepsAreNumbered DEF StepsOf
  <2> HIDE DEF prior
  <2>5. /\ started \in Row(form) /\ started.approval = "pending" /\ started.status = "active"
        /\ started.current = 1 /\ started.steps = NoPlan.steps
    BY <2>2, <2>3, <2>4 DEF Row
  <2> HIDE DEF started
  <2>6. prior # 0 => /\ carried \in Row(form) /\ carried.approval = "pending" /\ carried.status = "active"
                     /\ carried.current = 1 /\ carried.steps = NoPlan.steps
    <3>1. prior # 0 => plans[prior] \in Row(form) BY <1>0, LatestIsSound DEF prior
    <3>2. QED BY <2>5, <3>1 DEF Row
  <2> HIDE DEF carried
  <2>7. ASSUME NEW new \in Row(form), new.approval = "pending", new.status = "active", new.current = 1,
               new.steps = NoPlan.steps
        PROVE  Sound(form, new) /\ Chosen(decided, p, new)
    <3>1. \A k \in StepsOf(form) :
            new.steps[k] = [status |-> "pending", attempts |-> 0, last |-> <<>>]
      BY <2>3, <2>7 DEF Empty
    <3>2. \A k \in StepsOf(form) : ~(k < 1) BY DEF StepsOf
    <3>3. 0 < MaxAttempts BY InvestigationAssumption
    <3>4. Ordered(form, new) BY <2>7, <3>1, <3>2, <3>3 DEF Ordered
    <3>5. SeenThrough(form, new) BY <3>1 DEF SeenThrough
    <3>6. QED BY <2>7, <3>4, <3>5 DEF Sound, Chosen
  <2>8. QED BY <2>1, <2>5, <2>6, <2>7
<1>3. QED BY <1>1, <1>2

\* The current step of a sound plan has an attempt left while it may be tried.
LEMMA CurrentStep ==
  ASSUME NEW f \in Forms, NEW plan, Sound(f, plan), NEW k \in StepsOf(f), plan.current = k
  PROVE  /\ plan.steps \in [StepsOf(f) -> StepRow(f)] /\ plan.steps[k] \in StepRow(f)
         /\ k \in Nat /\ k # 0 /\ k <= Len(f.kinds) /\ Len(f.kinds) \in Nat
         /\ plan.steps[k].status \in {"pending", "running"} => plan.steps[k].attempts + 1 \in 0 .. MaxAttempts
         /\ plan.status # "completed" /\ MaxAttempts \in Nat /\ plan.steps[k].attempts \in Nat
<1>1. /\ plan.steps \in [StepsOf(f) -> StepRow(f)] /\ plan.steps[k] \in StepRow(f)
  BY DEF Sound, Row
<1>2. k \in Nat /\ k # 0 /\ k <= Len(f.kinds) /\ Len(f.kinds) \in Nat BY StepsAreNumbered DEF StepsOf
<1>3. MaxAttempts \in Nat /\ plan.steps[k].attempts \in 0 .. MaxAttempts
  BY <1>1, InvestigationAssumption DEF StepRow
<1>4. plan.steps[k].status \in {"pending", "running"} => plan.steps[k].attempts < MaxAttempts
  BY DEF Sound, Ordered
<1>5. QED BY <1>1, <1>2, <1>3, <1>4 DEF Sound

\* A successful result of the current step ends it and begins the next one; the last step ends the
\* plan, and with a watched verification only under a succeeded window.
LEMMA AdvancedSound ==
  ASSUME form \in Forms, NEW plan, Sound(form, plan), NEW k \in StepsOf(form), plan.current = k,
         plan.steps[k].status \in {"pending", "running"}, NEW call \in form.calls \X Outcomes,
         Watched /\ Kinds[k] = "verification" => plan.window \in {"running", "succeeded"}
  PROVE  /\ Sound(form, Advanced(plan, k, call))
         /\ Advanced(plan, k, call).approval = plan.approval
         /\ Advanced(plan, k, call).steps[k].status = "succeeded"
<1> DEFINE step == [status |-> "succeeded", attempts |-> plan.steps[k].attempts + 1, last |-> call]
           window == IF Kinds[k] = "verification" /\ plan.window = "running" THEN "succeeded" ELSE plan.window
           done == [plan EXCEPT !.steps[k] = step, !.window = window]
           next == [done.steps[k + 1] EXCEPT !.status = "running"]
           new == Advanced(plan, k, call)
<1>1. /\ plan.steps \in [StepsOf(form) -> StepRow(form)] /\ plan.steps[k] \in StepRow(form)
      /\ k \in Nat /\ k # 0 /\ k <= Len(form.kinds) /\ Len(form.kinds) \in Nat
      /\ plan.steps[k].attempts + 1 \in 0 .. MaxAttempts /\ plan.status # "completed"
  BY CurrentStep
<1>2. plan \in Row(form) /\ Ordered(form, plan) /\ SeenThrough(form, plan) BY DEF Sound
<1>3. step \in StepRow(form) BY <1>1 DEF StepRow
<1>5. new = IF k = Len(Kinds) THEN [done EXCEPT !.current = 0, !.status = "completed"]
            ELSE [done EXCEPT !.current = k + 1, !.steps[k + 1].status = "running"]
  BY DEF Advanced
<1>6. window \in {"pending", "running", "succeeded", "failed", "cancelled"} BY <1>2 DEF Row
<1>7. /\ done \in Row(form) /\ done.steps[k] = step /\ done.window = window
      /\ done.approval = plan.approval /\ done.status = plan.status
      /\ \A j \in StepsOf(form) \ {k} : done.steps[j] = plan.steps[j]
      /\ done.steps \in [StepsOf(form) -> StepRow(form)]
  <2> HIDE DEF step, window
  <2>1. QED BY <1>1, <1>2, <1>3, <1>6 DEF Row
<1>8. step.status = "succeeded" OBVIOUS
<1>9. Watched /\ Kinds[k] = "verification" => window = "succeeded" OBVIOUS
<1>10. plan.window = "succeeded" => window = "succeeded" OBVIOUS
<1> HIDE DEF step, window, done, new
<1>11. CASE k = Len(Kinds)
  <2>1. new = [done EXCEPT !.current = 0, !.status = "completed"] BY <1>5, <1>11
  <2>2. /\ new \in Row(form) /\ new.status = "completed" /\ new.current = 0 /\ new.steps = done.steps
        /\ new.window = done.window /\ new.approval = done.approval
    BY <1>7, <2>1 DEF Row
  <2>3. \A j \in StepsOf(form) : new.steps[j].status = "succeeded"
    <3>1. \A j \in StepsOf(form) \ {k} : j < k BY <1>1, <1>11, FormNames DEF StepsOf
    <3>2. QED BY <1>2, <1>7, <1>8, <2>2, <3>1 DEF Ordered
  <2>4. Ordered(form, new) BY <2>2, <2>3 DEF Ordered
  <2>5. SeenThrough(form, new)
    BY <1>2, <1>7, <1>9, <1>10, <2>2, FormNames DEF SeenThrough
  <2>6. QED BY <1>7, <2>2, <2>3, <2>4, <2>5 DEF Sound, new
<1>12. CASE k # Len(Kinds)
  <2>1. new = [done EXCEPT !.current = k + 1, !.steps[k + 1].status = "running"] BY <1>5, <1>12
  <2>2. k + 1 \in StepsOf(form) /\ k + 1 # k BY <1>1, <1>12, FormNames DEF StepsOf
  <2>3. plan.steps[k + 1] = [status |-> "pending", attempts |-> 0, last |-> <<>>]
    BY <1>1, <1>2, <2>2 DEF Ordered
  <2>4. /\ next \in StepRow(form) /\ next.status = "running" /\ next.attempts = 0
    BY <1>7, <2>2, <2>3 DEF StepRow
  <2>5. new = [done EXCEPT !.current = k + 1, !.steps = [done.steps EXCEPT ![k + 1] = next]]
    BY <2>1
  <2> HIDE DEF next
  <2>6. /\ new \in Row(form) /\ new.status = done.status /\ new.current = k + 1
        /\ new.window = done.window /\ new.approval = done.approval
        /\ new.steps[k + 1] = next /\ \A j \in StepsOf(form) \ {k + 1} : new.steps[j] = done.steps[j]
    BY <1>7, <2>2, <2>4, <2>5 DEF Row
  <2>7. Ordered(form, new)
    <3> SUFFICES ASSUME NEW j \in StepsOf(form)
                 PROVE  /\ j < k + 1 => new.steps[j].status = "succeeded"
                        /\ j > k + 1 => new.steps[j] = [status |-> "pending", attempts |-> 0, last |-> <<>>]
                        /\ new.steps[j].status \in {"pending", "running"} => new.steps[j].attempts < MaxAttempts
      BY <1>1, <2>6 DEF Ordered
    <3>0. j \in Nat BY DEF StepsOf
    <3>1. CASE j = k BY <1>1, <1>7, <1>8, <2>2, <2>6, <3>1
    <3>2. CASE j = k + 1
      <4>1. 0 < MaxAttempts BY InvestigationAssumption
      <4>2. ~(j < k + 1) /\ ~(j > k + 1) BY <1>1, <3>2
      <4>3. QED BY <2>4, <2>6, <3>2, <4>1, <4>2
    <3>3. CASE j # k /\ j # k + 1
      <4>1. new.steps[j] = plan.steps[j] BY <1>7, <2>6, <3>3
      <4>2. (j < k + 1 => j < k) /\ (j > k + 1 => j > k) BY <1>1, <3>0, <3>3
      <4>3. QED BY <1>1, <1>2, <4>1, <4>2 DEF Ordered
    <3>4. QED BY <3>1, <3>2, <3>3
  <2>8. SeenThrough(form, new)
    <3> SUFFICES ASSUME form.watched, NEW j \in StepsOf(form), form.kinds[j] = "verification",
                        new.steps[j].status = "succeeded"
                 PROVE  new.window = "succeeded"
      BY DEF SeenThrough
    <3>1. j # k + 1 BY <2>4, <2>6
    <3>2. CASE j = k BY <1>7, <1>9, <2>6, <3>2, FormNames
    <3>3. CASE j # k BY <1>2, <1>7, <1>10, <2>6, <3>1, <3>3 DEF SeenThrough
    <3>4. QED BY <3>2, <3>3
  <2>9. new.steps[k].status = "succeeded" BY <1>7, <1>8, <2>2, <2>6
  <2>10. new.status # "absent" /\ new.status # "completed" BY <1>1, <1>7, <2>6 DEF Sound
  <2>11. QED BY <1>7, <2>6, <2>7, <2>8, <2>9, <2>10 DEF Sound, new
<1>13. QED BY <1>11, <1>12

\* A change of the current step that leaves it unfinished, and may mark the window.
LEMMA CurrentChanges ==
  ASSUME NEW f \in Forms, NEW plan, Sound(f, plan), NEW k \in StepsOf(f), plan.current = k,
         NEW s \in StepRow(f), s.status = "succeeded" => plan.steps[k].status = "succeeded",
         s.status \in {"pending", "running"} => s.attempts < MaxAttempts,
         NEW new \in Row(f), new.steps = [plan.steps EXCEPT ![k] = s],
         new.status = plan.status, new.current = plan.current,
         plan.window = "succeeded" => new.window = "succeeded"
  PROVE  Sound(f, new)
<1>1. /\ plan.steps \in [StepsOf(f) -> StepRow(f)] /\ k \in Nat /\ k # 0 /\ plan.status # "completed"
  BY CurrentStep
<1>2. new.steps[k] = s /\ \A j \in StepsOf(f) \ {k} : new.steps[j] = plan.steps[j] BY <1>1
<1>3. Ordered(f, new)
  <2> SUFFICES ASSUME NEW j \in StepsOf(f)
               PROVE  /\ j < k => new.steps[j].status = "succeeded"
                      /\ j > k => new.steps[j] = [status |-> "pending", attempts |-> 0, last |-> <<>>]
                      /\ new.steps[j].status \in {"pending", "running"} => new.steps[j].attempts < MaxAttempts
    BY <1>1 DEF Ordered
  <2>1. CASE j = k BY <1>1, <1>2, <2>1
  <2>2. CASE j # k BY <1>1, <1>2, <2>2 DEF Sound, Ordered
  <2>3. QED BY <2>1, <2>2
<1>4. SeenThrough(f, new) BY <1>2 DEF Sound, SeenThrough
<1>5. QED BY <1>1, <1>3, <1>4 DEF Sound

\* A failed result spends an attempt: the step may be tried again only while one is left.
LEMMA SetbackSound ==
  ASSUME form \in Forms, NEW plan, Sound(form, plan), NEW k \in StepsOf(form), plan.current = k,
         plan.steps[k].status \in {"pending", "running"}, NEW call \in form.calls \X Outcomes
  PROVE  /\ Sound(form, Setback(plan, k, call)) /\ Setback(plan, k, call).approval = plan.approval
<1> DEFINE spent == plan.steps[k].attempts + 1
           mark == IF call[2] = "fatal" \/ spent >= MaxAttempts THEN "blocked" ELSE "pending"
           s == [status |-> mark, attempts |-> spent, last |-> call]
           new == [plan EXCEPT !.steps[k] = s]
<1>1. /\ plan.steps \in [StepsOf(form) -> StepRow(form)] /\ spent \in 0 .. MaxAttempts /\ MaxAttempts \in Nat
  BY CurrentStep
<1>2. s \in StepRow(form) /\ s.status # "succeeded" BY <1>1 DEF StepRow
<1>3. s.status \in {"pending", "running"} => s.attempts < MaxAttempts BY <1>1
<1>4. Setback(plan, k, call) = new BY DEF Setback
<1> HIDE DEF s
<1>5. /\ new \in Row(form) /\ new.steps = [plan.steps EXCEPT ![k] = s] /\ new.status = plan.status
      /\ new.current = plan.current /\ new.window = plan.window /\ new.approval = plan.approval
  BY <1>1, <1>2 DEF Sound, Row
<1> HIDE DEF new
<1>6. Sound(form, new) BY <1>2, <1>3, <1>5, CurrentChanges
<1>7. QED BY <1>4, <1>5, <1>6

\* A sample marks the window and remembers its call; the step stays as it was.
Sampled(plan, k, call, window) == [plan EXCEPT !.window = window, !.steps[k].last = call]

LEMMA SampleSound ==
  ASSUME form \in Forms, NEW plan, Sound(form, plan), NEW k \in StepsOf(form), plan.current = k,
         NEW call \in form.calls \X Outcomes, NEW window \in {"running", "failed"},
         plan.window # "succeeded"
  PROVE  /\ Sound(form, Sampled(plan, k, call, window))
         /\ Sampled(plan, k, call, window).approval = plan.approval
<1> DEFINE s == [plan.steps[k] EXCEPT !.last = call]
           new == [plan EXCEPT !.window = window, !.steps[k] = s]
<1>1. /\ plan.steps \in [StepsOf(form) -> StepRow(form)] /\ plan.steps[k] \in StepRow(form)
  BY CurrentStep
<1>2. s \in StepRow(form) /\ s.status = plan.steps[k].status /\ s.attempts = plan.steps[k].attempts
  BY <1>1 DEF StepRow
<1>3. s.status \in {"pending", "running"} => s.attempts < MaxAttempts BY <1>2 DEF Sound, Ordered
<1>4. Sampled(plan, k, call, window) = new BY DEF Sampled
<1> HIDE DEF s
<1>5. /\ new \in Row(form) /\ new.steps = [plan.steps EXCEPT ![k] = s] /\ new.status = plan.status
      /\ new.current = plan.current /\ new.approval = plan.approval
  BY <1>1, <1>2 DEF Sound, Row
<1> HIDE DEF new
<1>6. Sound(form, new) BY <1>2, <1>3, <1>5, CurrentChanges
<1>7. QED BY <1>4, <1>5, <1>6

\* The end of a run blocks the step that was running.
LEMMA BlockedSound ==
  ASSUME NEW f \in Forms, NEW plan, Sound(f, plan), NEW k \in StepsOf(f), plan.current = k
  PROVE  LET new == [plan EXCEPT !.steps[k].status = "blocked"]
         IN  Sound(f, new) /\ new.approval = plan.approval
<1> DEFINE s == [plan.steps[k] EXCEPT !.status = "blocked"]
           new == [plan EXCEPT !.steps[k] = s]
<1>1. /\ plan.steps \in [StepsOf(f) -> StepRow(f)] /\ plan.steps[k] \in StepRow(f)
  BY CurrentStep
<1>2. s \in StepRow(f) /\ s.status = "blocked" BY <1>1 DEF StepRow
<1>3. [plan EXCEPT !.steps[k].status = "blocked"] = new OBVIOUS
<1> HIDE DEF s
<1>4. /\ new \in Row(f) /\ new.steps = [plan.steps EXCEPT ![k] = s] /\ new.status = plan.status
      /\ new.current = plan.current /\ new.window = plan.window /\ new.approval = plan.approval
  BY <1>1, <1>2 DEF Sound, Row
<1> HIDE DEF new
<1>5. Sound(f, new) BY <1>2, <1>4, CurrentChanges
<1>6. QED BY <1>3, <1>4, <1>5

\* A recovery takes the approval and closes an open window; the steps stay.
LEMMA InvalidatedSound ==
  ASSUME NEW f, NEW plan \in Row(f)
  PROVE  /\ Invalidated(plan) \in Row(f) /\ Invalidated(plan).approval = "pending"
         /\ Invalidated(plan).window # "running"
         /\ Sound(f, plan) => Sound(f, Invalidated(plan))
<1> DEFINE window == IF plan.window = "running" THEN "cancelled" ELSE plan.window
           new == [plan EXCEPT !.approval = "pending", !.window = window]
<1>1. Invalidated(plan) = new BY DEF Invalidated
<1>2. window \in {"pending", "succeeded", "failed", "cancelled"} BY DEF Row
<1>3. plan.window = "succeeded" => window = "succeeded" OBVIOUS
<1> HIDE DEF window
<1>4. /\ new \in Row(f) /\ new.approval = "pending" /\ new.window = window
      /\ new.status = plan.status /\ new.current = plan.current /\ new.steps = plan.steps
  BY <1>2 DEF Row
<1> HIDE DEF new
<1>5. Sound(f, plan) => Sound(f, new) BY <1>3, <1>4, Relabelled DEF Sound
<1>6. QED BY <1>1, <1>2, <1>4, <1>5

\* A sound copy is written back whole, and a new revision supersedes the others.
LEMMA SaveKeeps ==
  ASSUME form \in Forms, PlansKept(form, decided, plans), NEW p \in Plans, NEW plan,
         Sound(form, plan), NEW d \in Decisions, Chosen(d, p, plan),
         \A q \in Plans : decided[q] # "never" => d[q] # "never",
         save_investigation_plan(p, plan)
  PROVE  PlansKept(form, d, plans')
<1> DEFINE aside(q) == [plans[q] EXCEPT !.status = "superseded"]
           value(q) == CASE q = p -> plan
                         [] q # p /\ plans[p].status = "absent" /\ plans[q].status = "active" -> aside(q)
                         [] OTHER -> plans[q]
<1>1. plans' = [q \in Plans |-> value(q)] BY DEF save_investigation_plan
<1>2. plans \in [Plans -> Row(form)] BY DEF PlansKept
<1>3. ASSUME NEW q \in Plans
      PROVE  value(q) \in Row(form) /\ (value(q) = Empty(form) \/ (Sound(form, value(q)) /\ Chosen(d, q, value(q))))
  <2>1. CASE q = p
    <3>1. value(q) = plan BY <2>1
    <3> HIDE DEF value
    <3>2. QED BY <2>1, <3>1 DEF Sound
  <2>2. CASE q # p /\ plans[p].status = "absent" /\ plans[q].status = "active"
    <3>1. value(q) = aside(q) BY <2>2
    <3> HIDE DEF value
    <3>2. plans[q] \in Row(form) /\ plans[q] # Empty(form) BY <1>2, <2>2 DEF Empty
    <3>3. Sound(form, plans[q]) /\ Chosen(decided, q, plans[q]) BY <3>2 DEF PlansKept
    <3>4. /\ aside(q) \in Row(form) /\ aside(q).status = "superseded" /\ aside(q).current = plans[q].current
          /\ aside(q).steps = plans[q].steps /\ aside(q).window = plans[q].window
          /\ aside(q).approval = plans[q].approval
      BY <3>2 DEF Row
    <3> HIDE DEF aside
    <3>5. Sound(form, aside(q)) BY <3>3, <3>4, Relabelled
    <3>6. QED BY <3>1, <3>3, <3>4, <3>5 DEF Chosen
  <2>3. CASE q # p /\ ~(plans[p].status = "absent" /\ plans[q].status = "active")
    <3>1. value(q) = plans[q] BY <2>3
    <3> HIDE DEF value
    <3>2. QED BY <1>2, <3>1 DEF PlansKept, Chosen
  <2>4. QED BY <2>1, <2>2, <2>3
<1> HIDE DEF value
<1>4. QED BY <1>1, <1>3 DEF PlansKept

-----------------------------------------------------------------------------
(* Who holds a copy                                                        *)

\* What is kept of copies and rows stays when decisions are made and artifacts recorded.
LEMMA MoreIsKept ==
  ASSUME NEW f, NEW d, NEW d2, NEW v, NEW v2, \A p \in Plans : d[p] # "never" => d2[p] # "never",
         v \subseteq v2
  PROVE  /\ \A rows : PlansKept(f, d, rows) => PlansKept(f, d2, rows)
         /\ \A hs : HostKept(f, d, v, hs) => HostKept(f, d2, v2, hs)
         /\ \A l : LaneKept(f, d, l) => LaneKept(f, d2, l)
<1>1. \A rows : PlansKept(f, d, rows) => PlansKept(f, d2, rows) BY DEF PlansKept, Chosen
<1>2. \A h : WorkerKept(f, d, v, h) => WorkerKept(f, d2, v2, h) BY DEF WorkerKept, Chosen
<1>3. \A hs : HostKept(f, d, v, hs) => HostKept(f, d2, v2, hs) BY <1>2 DEF HostKept
<1>4. \A l : LaneKept(f, d, l) => LaneKept(f, d2, l)
  <2> SUFFICES ASSUME NEW l, LaneKept(f, d, l) PROVE LaneKept(f, d2, l) OBVIOUS
  <2>1. l.at \in {"admit", "invalidate", "recover", "approve"} =>
          (l.plan # 0 => Sound(f, l.copy) /\ Chosen(d2, l.plan, l.copy))
    BY DEF LaneKept, Chosen
  <2>2. QED BY <2>1 DEF LaneKept
<1>5. QED BY <1>1, <1>3, <1>4

\* A worker takes up something that may be written back.
LEMMA WorkerTakes ==
  ASSUME NEW f, NEW d, NEW v, HostKept(f, d, v, host), NEW w \in Workers, NEW h, WorkerKept(f, d, v, h),
         host' = [host EXCEPT ![w] = h]
  PROVE  HostKept(f, d, v, host')
<1>1. host' = [u \in Workers |-> IF u = w THEN h ELSE host[u]] BY DEF HostKept
<1>2. \A u \in Workers : host'[u] = IF u = w THEN h ELSE host[u] BY <1>1
<1>3. host' = [u \in Workers |-> host'[u]] BY <1>1
<1>4. QED BY <1>2, <1>3 DEF HostKept

\* A worker between requests holds nothing.
LEMMA FreeIsKept ==
  ASSUME NEW f, NEW d, NEW v
  PROVE  WorkerKept(f, d, v, Free) /\ LaneKept(f, d, Free)
BY DEF Free, WorkerKept, LaneKept

\* Steps of the workers that take up a copy, or put one down: rows, runs and the lane stay.
LEMMA HostStep ==
  ASSUME Kept, NEW w \in Workers, NEW h, WorkerKept(form, decided, verified, h),
         host' = [host EXCEPT ![w] = h],
         PlansKept(form, decided, plans'),
         UNCHANGED <<form, runs, laneVars, verified, brief, decided>>
  PROVE  Kept'
<1>1. HostKept(form, decided, verified, host') BY WorkerTakes DEF Kept
<1>2. QED BY <1>1 DEF Kept

\* handle_plan_record: a copy is made of the latest plan or of a new revision, and saved.
LEMMA RecordKept ==
  ASSUME Kept, NEW w \in Workers, (\E p \in Plans : RecordRead(w, p)) \/ RecordSave(w)
  PROVE  Kept'
<1>1. PlansKept(form, decided, plans) /\ form \in Forms /\ WorkerKept(form, decided, verified, host[w])
  BY DEF Kept, HostKept
<1>2. ASSUME NEW p \in Plans, RecordRead(w, p) PROVE Kept'
  <2>1. PICK same \in BOOLEAN :
          host' = [host EXCEPT ![w] = [at |-> "record", plan |-> p, copy |-> NewPlan(p, same)]]
    BY <1>2 DEF RecordRead
  <2> DEFINE h == [at |-> "record", plan |-> p, copy |-> NewPlan(p, same)]
  <2>2. plans[p].status = "absent" \/ latest_investigation_plan = p BY <1>2 DEF RecordRead
  <2>3. Sound(form, NewPlan(p, same)) /\ Chosen(decided, p, NewPlan(p, same)) BY <1>1, <2>2, NewPlanSound
  <2>4. WorkerKept(form, decided, verified, h) BY <2>3 DEF WorkerKept
  <2>5. UNCHANGED <<taskRows, planRows, agentVars, laneVars>> BY <1>2 DEF RecordRead
  <2> HIDE DEF h
  <2>6. host' = [host EXCEPT ![w] = h] BY <2>1 DEF h
  <2>7. QED BY <1>1, <2>4, <2>5, <2>6, HostStep
<1>3. CASE RecordSave(w)
  <2>1. /\ host[w].at = "record" /\ save_investigation_plan(host[w].plan, host[w].copy)
        /\ host' = [host EXCEPT ![w] = Free]
        /\ UNCHANGED <<taskRows, agentVars, laneVars, baseline, verified, brief, requests, decided>>
    BY <1>3 DEF RecordSave
  <2>2. /\ host[w].plan \in Plans /\ Sound(form, host[w].copy)
        /\ Chosen(decided, host[w].plan, host[w].copy)
    BY <1>1, <2>1 DEF WorkerKept
  <2>3. PlansKept(form, decided, plans') BY <1>1, <2>1, <2>2, SaveKeeps DEF Kept
  <2>4. QED BY <2>1, <2>3, FreeIsKept, HostStep
<1>4. QED BY <1>2, <1>3

\* The status a judged result asks for: completed only of a verification that has its artifact.
LEMMA FollowIsVerified ==
  ASSUME NEW plan, NEW k, NEW failing \in {"", "waiting_user", "failed"},
         Follow(plan, k, failing) # <<>>, Follow(plan, k, failing)[1] = "completed"
  PROVE  failing = "" /\ plan.status = "completed" /\ Kinds[k] = "verification"
<1> DEFINE to == IF failing = "" THEN DesiredStatus(plan, k) ELSE failing
<1>1. Follow(plan, k, failing) \in {<<>>, <<to, task.run>>, <<to>>} BY DEF Follow
<1>2. to = "completed"
  <2> HIDE DEF to
  <2>1. <<to, task.run>>[1] = to /\ <<to>>[1] = to OBVIOUS
  <2>2. Follow(plan, k, failing)[1] = to BY <1>1, <2>1, Zenon
  <2>3. QED BY <2>2
<1>3. failing = "" /\ DesiredStatus(plan, k) = "completed" BY <1>2 DEF to
<1>4. QED BY <1>3 DEF DesiredStatus

\* handle_plan_step_result, up to its judgement: a result that counts is the current step's, and
\* what it makes of the copy is sound.
LEMMA ResultJudged ==
  ASSUME Kept, NEW w \in Workers, ResultJudge(w)
  PROVE  Kept'
<1>1. PlansKept(form, decided, plans) /\ form \in Forms /\ WorkerKept(form, decided, verified, host[w])
  BY DEF Kept, HostKept
<1> DEFINE h == host[w]  plan == h.copy  k == h.step  ok == h.call[2] = "success"
           saving(new, follow) == [at |-> "save", plan |-> h.plan, copy |-> new, move |-> follow]
<1>2. /\ h.at = "judge" /\ UNCHANGED <<taskRows, planRows, agentVars, laneVars, requests>>
  BY DEF ResultJudge
<1>3. /\ h.plan \in Plans /\ Sound(form, plan) /\ Chosen(decided, h.plan, plan)
      /\ k \in StepsOf(form) /\ h.call \in form.calls \X Outcomes
  BY <1>1, <1>2 DEF WorkerKept
<1>4. CASE host' = [host EXCEPT ![w] = Free] BY <1>1, <1>2, <1>4, FreeIsKept, HostStep
<1>5. ASSUME NEW new, NEW follow, host' = [host EXCEPT ![w] = saving(new, follow)], Sound(form, new),
             new.approval = plan.approval,
             follow # <<>> /\ follow[1] = "completed" => h.plan \in verified
      PROVE  Kept'
  <2>1. WorkerKept(form, decided, verified, saving(new, follow)) BY <1>3, <1>5 DEF WorkerKept, Chosen
  <2> HIDE DEF saving
  <2>2. QED BY <1>1, <1>2, <1>5, <2>1, HostStep
<1>6. ~Refused(h) => plan.current = k /\ (ok => Witnessed(h.plan, plan, k)) /\ ~WindowBlocks(plan, k, ok)
  BY DEF Refused
<1>7. CASE /\ ~Refused(h) /\ WindowFails(plan, k, ok)
           /\ LET new == [plan EXCEPT !.window = "failed", !.steps[k].last = h.call]
              IN  host' = [host EXCEPT ![w] = saving(new, Follow(new, k, "waiting_user"))]
  <2> DEFINE new == [plan EXCEPT !.window = "failed", !.steps[k].last = h.call]
  <2>1. plan.current = k /\ plan.window # "succeeded" BY <1>6, <1>7 DEF WindowFails
  <2>2. Sound(form, new) /\ new.approval = plan.approval
    <3>1. new = Sampled(plan, k, h.call, "failed") BY DEF Sampled
    <3> HIDE DEF new
    <3>2. QED BY <1>1, <1>3, <2>1, <3>1, SampleSound
  <2>3. host' = [host EXCEPT ![w] = saving(new, Follow(new, k, "waiting_user"))] BY <1>7
  <2> HIDE DEF new, saving
  <2>4. ~(Follow(new, k, "waiting_user") # <<>> /\ Follow(new, k, "waiting_user")[1] = "completed")
    BY FollowIsVerified
  <2>5. QED BY <1>5, <2>2, <2>3, <2>4
<1>8. ASSUME NEW late \in BOOLEAN, ~Refused(h), WindowSamples(plan, k, ok, late),
             host' = [host EXCEPT ![w] =
                        saving([plan EXCEPT !.window = "running", !.steps[k].last = h.call], <<>>)]
      PROVE  Kept'
  <2> DEFINE new == [plan EXCEPT !.window = "running", !.steps[k].last = h.call]
  <2>1. plan.current = k /\ plan.window # "succeeded" BY <1>6, <1>8 DEF WindowSamples
  <2>2. Sound(form, new) /\ new.approval = plan.approval
    <3>1. new = Sampled(plan, k, h.call, "running") BY DEF Sampled
    <3> HIDE DEF new
    <3>2. QED BY <1>1, <1>3, <2>1, <3>1, SampleSound
  <2>3. host' = [host EXCEPT ![w] = saving(new, <<>>)] BY <1>8
  <2> HIDE DEF new, saving
  <2>4. QED BY <1>5, <2>2, <2>3
<1>9. ASSUME NEW late \in BOOLEAN, ~Refused(h), ~WindowFails(plan, k, ok), ~WindowSamples(plan, k, ok, late),
             plan.steps[k].status \in {"pending", "running"},
             LET new == IF ok THEN Advanced(plan, k, h.call) ELSE Setback(plan, k, h.call)
                 stuck == new.steps[k].status = "blocked"
             IN  host' = [host EXCEPT ![w] = saving(new, Follow(new, k, IF stuck THEN "failed" ELSE ""))]
      PROVE  Kept'
  <2> DEFINE new == IF ok THEN Advanced(plan, k, h.call) ELSE Setback(plan, k, h.call)
             failing == IF new.steps[k].status = "blocked" THEN "failed" ELSE ""
  <2>1. host' = [host EXCEPT ![w] = saving(new, Follow(new, k, failing))] BY <1>9
  <2>2. ok /\ Watched /\ Kinds[k] = "verification" => plan.window \in {"running", "succeeded"}
    <3>1. plan.window \in {"pending", "running", "succeeded", "failed", "cancelled"} BY <1>3 DEF Sound, Row
    <3>2. QED BY <1>6, <1>9, <3>1 DEF WindowBlocks, WindowSamples
  <2>3. CASE ok
    <3>1. new = Advanced(plan, k, h.call) BY <2>3
    <3>2. Sound(form, new) /\ new.approval = plan.approval
      BY <1>1, <1>3, <1>6, <1>9, <2>2, <2>3, <3>1, AdvancedSound
    <3>3. Kinds[k] = "verification" => h.plan \in verified BY <1>6, <1>9, <2>3 DEF Witnessed
    <3> HIDE DEF new, saving
    <3>4. failing \in {"", "failed"} OBVIOUS
    <3> HIDE DEF failing
    <3>5. ASSUME Follow(new, k, failing) # <<>>, Follow(new, k, failing)[1] = "completed"
          PROVE  h.plan \in verified
      <4>1. Kinds[k] = "verification" BY <3>4, <3>5, FollowIsVerified
      <4>2. QED BY <3>3, <4>1
    <3>6. QED BY <1>5, <2>1, <3>2, <3>5
  <2>4. CASE ~ok
    <3>1. new = Setback(plan, k, h.call) BY <2>4
    <3>2. Sound(form, new) /\ new.approval = plan.approval /\ new.status # "completed"
      <4>1. Sound(form, new) /\ new.approval = plan.approval BY <1>1, <1>3, <1>6, <1>9, <3>1, SetbackSound
      <4>2. new.current = plan.current BY <1>3, <3>1 DEF Setback, Sound, Row
      <4>3. plan.current = k /\ k # 0
        <5>1. plan.current = k BY <1>6, <1>9
        <5>2. k # 0 BY <1>3 DEF StepsOf
        <5>3. QED BY <5>1, <5>2
      <4>4. QED BY <4>1, <4>2, <4>3 DEF Sound
    <3> HIDE DEF new, saving
    <3>3. failing \in {"", "failed"} OBVIOUS
    <3> HIDE DEF failing
    <3>4. ~(Follow(new, k, failing) # <<>> /\ Follow(new, k, failing)[1] = "completed")
      BY <3>2, <3>3, FollowIsVerified
    <3>5. QED BY <1>5, <2>1, <3>2, <3>4
  <2>5. QED BY <2>3, <2>4
<1>10. QED BY <1>4, <1>7, <1>8, <1>9 DEF ResultJudge

\* handle_plan_step_result reads a plan, superseded or not, and writes back what was made of it; the
\* task is moved as judged then.
LEMMA ResultKept ==
  ASSUME Kept, NEW w \in Workers,
         \/ \E p \in Plans, k \in Steps, c \in form.calls, outcome \in Outcomes :
              ResultRead(w, p, k, c, outcome)
         \/ ResultSave(w) \/ MoveTask(w)
  PROVE  Kept'
<1>1. PlansKept(form, decided, plans) /\ form \in Forms /\ WorkerKept(form, decided, verified, host[w])
  BY DEF Kept, HostKept
<1>2. ASSUME NEW p \in Plans, NEW k \in Steps, NEW c \in form.calls, NEW outcome \in Outcomes,
             ResultRead(w, p, k, c, outcome)
      PROVE  Kept'
  <2> DEFINE h == [at |-> "judge", plan |-> p, step |-> k, call |-> <<c, outcome>>, copy |-> plans[p]]
  <2>1. /\ plans[p].status # "absent" /\ host' = [host EXCEPT ![w] = h]
        /\ UNCHANGED <<taskRows, planRows, agentVars, laneVars>>
    BY <1>2 DEF ResultRead
  <2>2. Sound(form, plans[p]) /\ Chosen(decided, p, plans[p]) BY <1>1, <2>1, EmptyIsRow DEF PlansKept
  <2>3. WorkerKept(form, decided, verified, h) BY <2>2, FormNames DEF WorkerKept
  <2> HIDE DEF h
  <2>4. QED BY <1>1, <2>1, <2>3, HostStep
<1>3. CASE ResultSave(w)
  <2> DEFINE h == [at |-> "move", plan |-> host[w].plan, move |-> host[w].move]
  <2>1. /\ host[w].at = "save" /\ save_investigation_plan(host[w].plan, host[w].copy)
        /\ UNCHANGED <<taskRows, agentVars, laneVars, baseline, verified, brief, requests, decided>>
    BY <1>3 DEF ResultSave
  <2>2. host' = [host EXCEPT ![w] = IF host[w].move = <<>> THEN Free ELSE h] BY <1>3 DEF ResultSave
  <2>3. /\ host[w].plan \in Plans /\ Sound(form, host[w].copy)
        /\ Chosen(decided, host[w].plan, host[w].copy)
    BY <1>1, <2>1 DEF WorkerKept
  <2>4. PlansKept(form, decided, plans') BY <1>1, <2>1, <2>3, SaveKeeps DEF Kept
  <2>5. WorkerKept(form, decided, verified, h) BY <1>1, <2>1 DEF WorkerKept
  <2> HIDE DEF h
  <2>6. WorkerKept(form, decided, verified, IF host[w].move = <<>> THEN Free ELSE h)
    BY <2>5, FreeIsKept
  <2>7. QED BY <2>1, <2>2, <2>4, <2>6, HostStep
<1>4. CASE MoveTask(w)
  <2>1. /\ host' = [host EXCEPT ![w] = Free]
        /\ UNCHANGED <<planRows, agentVars, laneVars, form, runs, requests>>
    BY <1>4 DEF MoveTask
  <2>2. QED BY <1>1, <2>1, FreeIsKept, HostStep
<1>5. QED BY <1>2, <1>3, <1>4

-----------------------------------------------------------------------------
(* Agent events, artifacts and the end of the application                  *)

\* The status of one run changes; the rows stay a sequence of runs.
LEMMA RunChanges ==
  ASSUME NEW f, NEW rows \in Seq(RunRow(f)), NEW r \in DOMAIN rows,
         NEW st \in OpenRun \union {"completed", "failed", "cancelled", "interrupted"}
  PROVE  [rows EXCEPT ![r].status = st] \in Seq(RunRow(f))
<1>1. rows[r] \in RunRow(f) BY ElementOfSeq
<1>2. [rows[r] EXCEPT !.status = st] \in RunRow(f) BY <1>1 DEF RunRow
<1> DEFINE row == [rows[r] EXCEPT !.status = st]
<1> HIDE DEF row
<1>3. [rows EXCEPT ![r] = row] \in Seq(RunRow(f)) BY <1>2, ExceptSeq DEF row
<1>4. QED BY <1>3 DEF row

\* An event of the Agent moves the run and the task, never a plan.
LEMMA EventKept ==
  ASSUME Kept, \E r \in DOMAIN runs, st \in {"running", "waiting_user", "completed", "failed", "cancelled"} :
                 AgentEvent(r, st)
  PROVE  Kept'
<1>1. PICK r \in DOMAIN runs, st \in {"running", "waiting_user", "completed", "failed", "cancelled"} :
        AgentEvent(r, st)
  OBVIOUS
<1>2. /\ runs' = [runs EXCEPT ![r].status = st]
      /\ UNCHANGED <<planRows, hostVars, laneVars, form, agents>>
  BY <1>1 DEF AgentEvent, apply_investigation_run_progress
<1>3. runs' \in Seq(RunRow(form)) BY <1>2, RunChanges DEF Kept, OpenRun
<1>4. QED BY <1>2, <1>3 DEF Kept

\* The end of a run blocks the step it was bound to, which is the current one.
LEMMA BlockKept ==
  ASSUME Kept, BlockInterrupted
  PROVE  Kept'
<1> DEFINE p == latest_investigation_plan  k == plans[p].current
           new == [plans[p] EXCEPT !.steps[k].status = "blocked"]
<1>1. /\ form \in Forms /\ PlansKept(form, decided, plans) /\ runs \in Seq(RunRow(form))
      /\ UNCHANGED <<taskRows, hostVars, laneVars, baseline, verified, brief, agents, decided>>
  BY DEF BlockInterrupted, Kept
<1>2. CASE UNCHANGED plans BY <1>1, <1>2 DEF Kept
<1>3. CASE event # 0 /\ Interrupted(event) /\ plans' = [plans EXCEPT ![p].steps[k].status = "blocked"]
  <2>1. /\ Len(runs) = event /\ p # 0 /\ runs[event].bound # <<>>
        /\ runs[event].bound = <<p, plans[p].revision, k, plans[p].steps[k]>>
    BY <1>3 DEF Interrupted
  <2>2. event \in DOMAIN runs
    <3>1. Len(runs) \in Nat /\ DOMAIN runs = 1 .. Len(runs) BY <1>1, LenProperties
    <3>2. QED BY <1>3, <2>1, <3>1
  <2>3. runs[event] \in RunRow(form) BY <1>1, <2>2, ElementOfSeq
  <2>4. runs[event].bound \in ({0} \union Plans) \X Nat \X StepsOf(form) \X StepRow(form)
    BY <2>1, <2>3 DEF RunRow
  <2>5. k \in StepsOf(form) BY <2>1, <2>4
  <2>6. /\ p \in Plans /\ Sound(form, plans[p]) /\ Chosen(decided, p, plans[p])
    BY <1>1, <2>1, LatestIsSound
  <2>7. Sound(form, new) /\ new.approval = plans[p].approval BY <1>1, <2>5, <2>6, BlockedSound
  <2>8. plans' = [plans EXCEPT ![p] = new] BY <1>3
  <2> HIDE DEF new
  <2>9. PlansKept(form, decided, plans')
    <3>1. plans \in [Plans -> Row(form)] /\ new \in Row(form) BY <1>1, <2>7 DEF PlansKept, Sound
    <3>2. plans' \in [Plans -> Row(form)] BY <2>8, <3>1
    <3>3. \A q \in Plans : plans'[q] = IF q = p THEN new ELSE plans[q] BY <2>6, <2>8, <3>1
    <3>4. Chosen(decided, p, new) BY <2>6, <2>7 DEF Chosen
    <3>5. QED BY <1>1, <2>7, <3>2, <3>3, <3>4 DEF PlansKept
  <2>10. QED BY <1>1, <2>9 DEF Kept
<1>4. QED BY <1>1, <1>2, <1>3 DEF BlockInterrupted

\* Artifacts and briefs are recorded.
LEMMA ArtifactKept ==
  ASSUME Kept, (\E p \in Plans : RecordArtifact(p)) \/ RecordBrief
  PROVE  Kept'
<1>1. /\ UNCHANGED <<taskRows, agentVars, hostVars, laneVars, plans, decided>>
      /\ verified \subseteq verified' /\ verified' \subseteq Plans /\ brief' \in {0} \union Plans
  <2>1. ASSUME NEW p \in Plans, RecordArtifact(p)
        PROVE  /\ UNCHANGED <<taskRows, agentVars, hostVars, laneVars, plans, brief, decided>>
               /\ verified' = verified \/ verified' = verified \union {p}
    BY <2>1 DEF RecordArtifact
  <2>2. CASE RecordBrief
    <3>1. latest_investigation_plan \in {0} \union Plans BY LatestIsSound DEF Kept
    <3>2. QED BY <2>2, <3>1 DEF RecordBrief, Kept
  <2>3. QED BY <2>1, <2>2 DEF Kept
<1>2. HostKept(form, decided, verified', host) BY <1>1, MoreIsKept DEF Kept
<1>3. QED BY <1>1, <1>2 DEF Kept

\* The application ends: nobody holds a copy any more.
LEMMA RestartKept ==
  ASSUME Kept, Restart
  PROVE  Kept'
<1>1. /\ host' = [w \in Workers |-> Free] /\ lane' = Free
      /\ UNCHANGED <<taskRows, planRows, commands>>
  BY DEF Restart
<1>2. HostKept(form, decided, verified, host') BY <1>1, FreeIsKept DEF HostKept
<1>3. QED BY <1>1, <1>2, FreeIsKept DEF Kept

-----------------------------------------------------------------------------
(* User commands                                                           *)

\* Commands that change neither a plan nor what a worker holds.
LEMMA LaneStep ==
  ASSUME Kept, LaneKept(form, decided, lane'), commands' \in Nat, runs' \in Seq(RunRow(form)),
         UNCHANGED <<form, planRows, hostVars>>
  PROVE  Kept'
BY DEF Kept

\* investigation_task_start: the run is bound to the step its copy of the plan is at.
LEMMA StartKept ==
  ASSUME Kept, StartCheck \/ StartAdmit \/ StartLaunch \/ StartSidecar
  PROVE  Kept'
<1>1. /\ form \in Forms /\ PlansKept(form, decided, plans) /\ LaneKept(form, decided, lane)
      /\ runs \in Seq(RunRow(form)) /\ commands \in Nat
  BY DEF Kept
<1>2. CASE StartCheck
  <2> DEFINE l == [at |-> "admit", plan |-> latest_investigation_plan, copy |-> LatestCopy]
  <2>1. lane' = l /\ commands' = commands + 1 /\ UNCHANGED <<taskRows, planRows, agentVars, hostVars>>
    BY <1>2 DEF StartCheck, Take
  <2>2. LaneKept(form, decided, l) BY <1>1, LatestIsSound DEF LaneKept
  <2> HIDE DEF l
  <2>3. QED BY <1>1, <2>1, <2>2, LaneStep
<1>3. CASE StartAdmit
  <2> DEFINE c == lane.copy
             runnable == /\ c.status = "active" /\ c.current # 0
                         /\ c.steps[c.current].status \in {"pending", "running"}
             bound == IF runnable THEN <<lane.plan, c.revision, c.current, c.steps[c.current]>> ELSE <<>>
  <2>1. /\ lane.at = "admit" /\ UNCHANGED <<planRows, agentVars, hostVars, form, task, commands>>
        /\ lane' \in {Free, [at |-> "launch"]}
        /\ runs' = runs \/ runs' = Append(runs, [status |-> "admitted", bound |-> bound])
    BY <1>3 DEF StartAdmit, create_investigation_run
  <2>2. lane.plan \in {0} \union Plans /\ c \in Row(form) BY <1>1, <2>1 DEF LaneKept
  <2>3. runnable => c.revision \in Nat /\ c.current \in StepsOf(form) /\ c.steps[c.current] \in StepRow(form)
    BY <2>2 DEF Row
  <2>4. bound \in {<<>>} \union (({0} \union Plans) \X Nat \X StepsOf(form) \X StepRow(form))
    BY <2>2, <2>3
  <2> HIDE DEF bound
  <2>5. [status |-> "admitted", bound |-> bound] \in RunRow(form) BY <2>4 DEF RunRow, OpenRun
  <2>6. runs' \in Seq(RunRow(form)) BY <1>1, <2>1, <2>5, AppendProperties
  <2>7. LaneKept(form, decided, lane')
    <3>1. LaneKept(form, decided, [at |-> "launch"]) BY DEF LaneKept
    <3>2. QED BY <2>1, <3>1, FreeIsKept
  <2>8. QED BY <1>1, <2>1, <2>6, <2>7, LaneStep
<1>4. CASE StartLaunch
  <2>1. lane' = [at |-> "sidecar"] /\ UNCHANGED <<planRows, agentVars, hostVars, form, runs, commands>>
    BY <1>4 DEF StartLaunch
  <2>2. LaneKept(form, decided, lane') BY <2>1 DEF LaneKept
  <2>3. QED BY <1>1, <2>1, <2>2, LaneStep
<1>5. CASE StartSidecar
  <2>1. /\ lane' = Free /\ UNCHANGED <<planRows, hostVars, form, event, commands>>
        /\ runs' = runs \/ (runs[Len(runs)].status \in OpenRun
                            /\ runs' = [runs EXCEPT ![Len(runs)].status = "failed"])
    BY <1>5 DEF StartSidecar, apply_investigation_run_progress, ProgressApplies
  <2>2. runs' \in Seq(RunRow(form))
    <3>1. CASE runs = <<>>
      <4>1. [runs EXCEPT ![Len(runs)].status = "failed"] = runs BY <3>1
      <4>2. QED BY <1>1, <2>1, <4>1
    <3>2. CASE runs # <<>>
      <4>1. Len(runs) \in DOMAIN runs BY <1>1, <3>2, EmptySeq, LenProperties
      <4>2. [runs EXCEPT ![Len(runs)].status = "failed"] \in Seq(RunRow(form)) BY <1>1, <4>1, RunChanges
      <4>3. QED BY <1>1, <2>1, <4>2
    <3>3. QED BY <3>1, <3>2
  <2>3. QED BY <1>1, <2>1, <2>2, FreeIsKept, LaneStep
<1>6. QED BY <1>2, <1>3, <1>4, <1>5

\* investigation_task_recover: the plan is invalidated and saved, then the task and its open runs are
\* moved in a transaction of their own.
LEMMA RecoverKept ==
  ASSUME Kept,
         \/ \E option \in {"none", "retry", "stop", "rollback", "wait_user"} : RecoverRead(option)
         \/ RecoverInvalidate \/ RecoverTask
  PROVE  Kept'
<1>1. /\ form \in Forms /\ PlansKept(form, decided, plans) /\ LaneKept(form, decided, lane)
      /\ runs \in Seq(RunRow(form)) /\ commands \in Nat /\ decided \in Decisions
  BY DEF Kept
<1>2. ASSUME NEW option \in {"none", "retry", "stop", "rollback", "wait_user"}, RecoverRead(option)
      PROVE  Kept'
  <2>1. commands' = commands + 1 /\ UNCHANGED <<taskRows, planRows, agentVars, hostVars>>
    BY <1>2 DEF RecoverRead, Take
  <2>2. commands' \in Nat /\ runs' \in Seq(RunRow(form)) /\ UNCHANGED <<form, planRows, hostVars>>
    BY <1>1, <2>1
  <2>3. PICK to \in {"stopped", "waiting_user", ""} :
          lane' = [at |-> "invalidate", failure |-> task.failure, then |-> to,
                   plan |-> latest_investigation_plan, copy |-> LatestCopy]
    BY <1>2 DEF RecoverRead
  <2>4. LaneKept(form, decided, lane') BY <1>1, <2>3, LatestIsSound DEF LaneKept
  <2>5. QED BY <2>2, <2>4, LaneStep
<1>3. CASE RecoverInvalidate
  <2> DEFINE new == Invalidated(lane.copy)
             l == [lane EXCEPT !.at = "recover", !.copy = Invalidated(@)]
  <2>1. /\ lane.at = "invalidate" /\ lane' = l
        /\ UNCHANGED <<taskRows, agentVars, hostVars, verified, brief, commands>>
    BY <1>3 DEF RecoverInvalidate
  <2>2. /\ lane.plan \in {0} \union Plans /\ lane.copy \in Row(form) /\ lane.then # "completed"
        /\ lane.plan # 0 => Sound(form, lane.copy)
    BY <1>1, <2>1 DEF LaneKept
  <2>3. /\ new \in Row(form) /\ new.approval = "pending" /\ new.window # "running"
        /\ lane.plan # 0 => Sound(form, new)
    BY <2>2, InvalidatedSound
  <2>4. /\ decided' \in Decisions /\ \A q \in Plans : decided[q] # "never" => decided'[q] # "never"
        /\ PlansKept(form, decided', plans')
    <3>1. CASE lane.plan = 0 BY <1>1, <1>3, <3>1 DEF RecoverInvalidate
    <3>2. CASE lane.plan # 0
      <4>1. /\ save_investigation_plan(lane.plan, new) /\ lane.plan \in Plans
            /\ decided' = [decided EXCEPT ![lane.plan] = IF @ = "fresh" THEN "stale" ELSE @]
        BY <1>3, <2>2, <3>2 DEF RecoverInvalidate
      <4>2. decided' \in Decisions /\ \A q \in Plans : decided[q] # "never" => decided'[q] # "never"
        BY <1>1, <4>1 DEF Decisions
      <4>3. Chosen(decided', lane.plan, new) BY <2>3 DEF Chosen
      <4> HIDE DEF new
      <4>4. PlansKept(form, decided', plans') BY <1>1, <2>3, <3>2, <4>1, <4>2, <4>3, SaveKeeps
      <4>5. QED BY <4>2, <4>4
    <3>3. QED BY <3>1, <3>2
  <2>5. LaneKept(form, decided', l)
    <3>1. l.at = "recover" /\ l.plan = lane.plan /\ l.copy = new /\ l.then = lane.then
      <4>1. {"at", "plan", "copy", "then"} \subseteq DOMAIN lane BY <1>1, <2>1 DEF LaneKept
      <4>2. QED BY <4>1
    <3> HIDE DEF l, new
    <3>2. QED BY <2>2, <2>3, <3>1 DEF LaneKept, Chosen
  <2>6. HostKept(form, decided', verified, host) BY <2>4, MoreIsKept DEF Kept
  <2> HIDE DEF l, new
  <2>7. QED BY <1>1, <2>1, <2>4, <2>5, <2>6 DEF Kept
<1>4. CASE RecoverTask
  <2>1. /\ lane.at = "recover" /\ UNCHANGED <<planRows, agentVars, hostVars, form, commands>>
        /\ lane' = Free \/ lane' = [at |-> "set", to |-> lane.then]
        /\ \/ runs' = runs
           \/ runs' = [r \in DOMAIN runs |-> IF runs[r].status \in OpenRun
                                             THEN [runs[r] EXCEPT !.status = "interrupted"] ELSE runs[r]]
    BY <1>4 DEF RecoverTask
  <2>2. lane.then # "completed" BY <1>1, <2>1 DEF LaneKept
  <2>3. LaneKept(form, decided, lane') BY <2>1, <2>2, FreeIsKept DEF LaneKept
  <2>4. runs' \in Seq(RunRow(form))
    <3>1. ASSUME NEW r \in DOMAIN runs
          PROVE  /\ runs[r] \in RunRow(form)
                 /\ [runs[r] EXCEPT !.status = "interrupted"] \in RunRow(form)
      <4>1. runs[r] \in RunRow(form) BY <1>1, ElementOfSeq
      <4>2. QED BY <4>1 DEF RunRow
    <3>2. Len(runs) \in Nat /\ DOMAIN runs = 1 .. Len(runs) BY <1>1, LenProperties
    <3>3. CASE runs' = runs BY <1>1, <3>3
    <3>4. CASE runs' = [r \in DOMAIN runs |-> IF runs[r].status \in OpenRun
                                              THEN [runs[r] EXCEPT !.status = "interrupted"] ELSE runs[r]]
      <4>1. runs' \in [1 .. Len(runs) -> RunRow(form)] BY <3>1, <3>2, <3>4
      <4>2. QED BY <3>2, <4>1, SeqDef
    <3>5. QED BY <2>1, <3>3, <3>4
  <2>5. QED BY <1>1, <2>1, <2>3, <2>4, LaneStep
<1>5. QED BY <1>2, <1>3, <1>4

\* investigation_brief_select, the stops and the status update: only an approval touches a plan, and
\* the decision is recorded with it.
LEMMA DecideKept ==
  ASSUME Kept,
         \/ \E continuation \in {"start_plan", "stop"} : SelectBrief(continuation)
         \/ ApprovePlan \/ StopTask \/ SetStatus
         \/ \E s \in form.statuses : UpdateStatus(s)
  PROVE  Kept'
<1>1. /\ form \in Forms /\ PlansKept(form, decided, plans) /\ LaneKept(form, decided, lane)
      /\ runs \in Seq(RunRow(form)) /\ commands \in Nat /\ decided \in Decisions
      /\ brief \in {0} \union Plans /\ plans \in [Plans -> Row(form)]
  BY DEF Kept, PlansKept
<1>2. ASSUME NEW continuation \in {"start_plan", "stop"}, SelectBrief(continuation) PROVE Kept'
  <2>1. /\ commands' = commands + 1 /\ UNCHANGED <<taskRows, planRows, agentVars, hostVars>> /\ brief # 0
        /\ \/ latest_investigation_plan = brief
              /\ lane' = [at |-> "approve", plan |-> brief, copy |-> plans[brief]]
           \/ lane' = [at |-> "set", to |-> "stopped"]
    BY <1>2 DEF SelectBrief, Take
  <2>2. LaneKept(form, decided, lane')
    <3>1. CASE lane' = [at |-> "set", to |-> "stopped"] BY <3>1 DEF LaneKept
    <3>2. CASE /\ latest_investigation_plan = brief
               /\ lane' = [at |-> "approve", plan |-> brief, copy |-> plans[brief]]
      <4>1. Sound(form, plans[brief]) /\ Chosen(decided, brief, plans[brief]) /\ plans[brief] \in Row(form)
        BY <1>1, <2>1, <3>2, LatestIsSound
      <4>2. QED BY <1>1, <2>1, <3>2, <4>1 DEF LaneKept
    <3>3. QED BY <2>1, <3>1, <3>2
  <2>3. commands' \in Nat /\ runs' \in Seq(RunRow(form)) /\ UNCHANGED <<form, planRows, hostVars>>
    BY <1>1, <2>1
  <2>4. QED BY <2>2, <2>3, LaneStep
<1>3. CASE ApprovePlan
  <2> DEFINE new == [lane.copy EXCEPT !.approval = "approved"]
  <2>1. /\ lane.at = "approve" /\ save_investigation_plan(lane.plan, new)
        /\ decided' = [decided EXCEPT ![lane.plan] = "fresh"] /\ lane' = Free
        /\ UNCHANGED <<taskRows, agentVars, hostVars, baseline, verified, brief, commands>>
    BY <1>3 DEF ApprovePlan
  <2>2. lane.plan \in Plans /\ Sound(form, lane.copy) BY <1>1, <2>1 DEF LaneKept
  <2>3. /\ new \in Row(form) /\ new.status = lane.copy.status /\ new.current = lane.copy.current
        /\ new.steps = lane.copy.steps /\ new.window = lane.copy.window
    BY <2>2 DEF Sound, Row
  <2> HIDE DEF new
  <2>4. Sound(form, new) BY <2>2, <2>3, Relabelled DEF Sound
  <2>5. /\ decided' \in Decisions /\ decided'[lane.plan] = "fresh"
        /\ \A q \in Plans : decided[q] # "never" => decided'[q] # "never"
    BY <1>1, <2>1, <2>2 DEF Decisions
  <2>6. PlansKept(form, decided', plans')
    <3>1. Chosen(decided', lane.plan, new) BY <2>5 DEF Chosen
    <3>2. QED BY <1>1, <2>1, <2>2, <2>4, <2>5, <3>1, SaveKeeps
  <2>7. HostKept(form, decided', verified, host) BY <2>5, MoreIsKept DEF Kept
  <2>8. QED BY <1>1, <2>1, <2>5, <2>6, <2>7, FreeIsKept DEF Kept
<1>4. CASE StopTask
  <2>1. /\ commands' = commands + 1 /\ UNCHANGED <<taskRows, planRows, agentVars, hostVars>>
        /\ lane' = [at |-> "set", to |-> "stopped"]
    BY <1>4 DEF StopTask, Take
  <2>2. LaneKept(form, decided, lane') BY <2>1 DEF LaneKept
  <2>3. QED BY <1>1, <2>1, <2>2, LaneStep
<1>5. CASE SetStatus
  <2>1. lane' = Free /\ UNCHANGED <<planRows, agentVars, hostVars, form, runs, commands>>
    BY <1>5 DEF SetStatus
  <2>2. QED BY <1>1, <2>1, FreeIsKept, LaneStep
<1>6. ASSUME NEW s \in form.statuses, UpdateStatus(s) PROVE Kept'
  <2>1. commands' = commands + 1 /\ UNCHANGED <<planRows, agentVars, hostVars, form, runs, lane>>
    BY <1>6 DEF UpdateStatus, Take
  <2>2. QED BY <1>1, <2>1, LaneStep
<1>7. QED BY <1>2, <1>3, <1>4, <1>5, <1>6

\* Every step of the workers, the Agent and the user.
LEMMA KeptNext ==
  ASSUME Kept, [Next]_vars
  PROVE  Kept'
<1>1. CASE UNCHANGED vars BY <1>1 DEF Kept, vars
<1>2. ASSUME NEW w \in Workers, HostRequest(w) PROVE Kept'
  BY <1>2, RecordKept, ResultJudged, ResultKept DEF HostRequest
<1>3. CASE UserCommand BY <1>3, StartKept, RecoverKept, DecideKept DEF UserCommand
<1>4. CASE Next BY <1>2, <1>3, <1>4, ArtifactKept, EventKept, BlockKept, RestartKept DEF Next
<1>5. QED BY <1>1, <1>4

-----------------------------------------------------------------------------
(* Theorems                                                                *)

\* Every row and every copy on its way back to one is in order, seen through and chosen
\* (handle_plan_record, handle_plan_step_result, invalidate_plan_after_recovery and the rest).
THEOREM KeptInvariant == Spec => []Kept
<1>1. Init => Kept
  <2> SUFFICES ASSUME Init PROVE Kept OBVIOUS
  <2>1. form \in Forms /\ plans = [p \in Plans |-> Empty(form)] BY FormNames DEF Init
  <2>2. PlansKept(form, decided, plans) BY <2>1, EmptyIsRow DEF PlansKept
  <2>3. HostKept(form, decided, verified, host) BY FreeIsKept DEF Init, HostKept
  <2>4. runs \in Seq(RunRow(form)) BY EmptySeq DEF Init
  <2>5. decided \in Decisions BY DEF Init, Decisions
  <2>6. QED BY <2>1, <2>2, <2>3, <2>4, <2>5, FreeIsKept DEF Init, Kept
<1>2. Kept /\ [Next]_vars => Kept' BY KeptNext
<1>3. QED BY <1>1, <1>2, PTL DEF Spec

\* Steps are taken in order, whatever copies of a plan are written back late.
THEOREM OrderTheorem == Spec => []PlanInOrder
<1>1. Kept => PlanInOrder
  <2> SUFFICES ASSUME Kept, NEW p \in Plans, plans[p].status # "absent", NEW k \in Steps
               PROVE  /\ plans[p].current = 0 \/ k < plans[p].current => plans[p].steps[k].status = "succeeded"
                      /\ plans[p].current # 0 /\ k > plans[p].current => plans[p].steps[k] = NoPlan.steps[k]
    BY DEF PlanInOrder
  <2>1. form \in Forms /\ Sound(form, plans[p]) BY EmptyIsRow DEF Kept, PlansKept
  <2>2. k \in StepsOf(form) /\ NoPlan.steps[k] = [status |-> "pending", attempts |-> 0, last |-> <<>>]
    BY FormNames DEF Empty
  <2>3. QED BY <2>1, <2>2 DEF Sound, Ordered
<1>2. QED BY <1>1, KeptInvariant, PTL

\* An action is let through only on a revision the user decided on, and a watched plan ends only with
\* a window that was seen through.
THEOREM AuthorisedTheorem == Spec => []PlanIsAuthorised
<1>1. Kept => PlanIsAuthorised
  <2> SUFFICES ASSUME Kept PROVE ActionWasChosen /\ VerificationWasWatched BY DEF PlanIsAuthorised
  <2>1. form \in Forms /\ PlansKept(form, decided, plans) BY DEF Kept
  <2>2. ActionWasChosen
    <3> SUFFICES ASSUME NEW p \in Plans, Automation = "propose", ActionAllowed(plans[p], p)
                 PROVE  decided[p] # "never"
      BY DEF ActionWasChosen
    <3>1. plans[p].approval = "approved" BY DEF ActionAllowed
    <3>2. QED BY <2>1, <3>1, EmptyIsRow DEF PlansKept, Chosen
  <2>3. VerificationWasWatched
    <3> SUFFICES ASSUME Watched, NEW p \in Plans, plans[p].status = "completed"
                 PROVE  plans[p].window = "succeeded"
      BY DEF VerificationWasWatched
    <3>1. Sound(form, plans[p]) BY <2>1, EmptyIsRow DEF PlansKept
    <3>2. Len(form.kinds) \in StepsOf(form) /\ form.kinds[Len(form.kinds)] = "verification"
      BY <2>1, StepsAreNumbered, FormNames
    <3>3. plans[p].steps[Len(form.kinds)].status = "succeeded" BY <3>1, <3>2 DEF Sound, Ordered
    <3>4. QED BY <3>1, <3>2, <3>3, FormNames DEF Sound, SeenThrough
  <2>4. QED BY <2>2, <2>3
<1>2. QED BY <1>1, KeptInvariant, PTL

-----------------------------------------------------------------------------
(* The task's row, its runs and who moves them                             *)

\* A move of a status alone is not taken for one of a status and a run.
LEMMA AloneIsShort == \A x : Len(<<x>>) # 2
<1> SUFFICES ASSUME NEW x PROVE Len(<<x>>) # 2 OBVIOUS
<1>1. Len(<<x>>) = 1 OBVIOUS
<1>2. QED BY <1>1

\* The status a judged result asks for is a task's, and its run the one that was active.
LEMMA FollowIsStatus ==
  ASSUME NEW plan, NEW k, NEW failing \in {"", "waiting_user", "failed"}, task \in TaskRow(form)
  PROVE  Follow(plan, k, failing) # <<>> => MoveRowed(form, Follow(plan, k, failing))
<1> DEFINE to == IF failing = "" THEN DesiredStatus(plan, k) ELSE failing
           move == Follow(plan, k, failing)
<1>1. move \in {<<>>, <<to, task.run>>, <<to>>} BY DEF Follow
<1>2. to \in Statuses BY DEF DesiredStatus, Statuses, Terminal
<1>3. task.run \in 0 .. form.runs BY DEF TaskRow
<1> HIDE DEF to, move
<1>4. /\ <<to, task.run>>[1] = to /\ <<to, task.run>>[2] = task.run
      /\ <<to>>[1] = to /\ Len(<<to>>) # 2
  <2>1. <<to, task.run>>[1] = to OBVIOUS
  <2>2. <<to, task.run>>[2] = task.run OBVIOUS
  <2>3. <<to>>[1] = to OBVIOUS
  <2>4. Len(<<to>>) # 2 BY AloneIsShort, Zenon
  <2>5. QED BY <2>1, <2>2, <2>3, <2>4
<1>5. MoveRowed(form, <<to, task.run>>) /\ MoveRowed(form, <<to>>)
  <2>1. MoveRowed(form, <<to, task.run>>) BY <1>2, <1>3, <1>4, Zenon DEF MoveRowed
  <2>2. MoveRowed(form, <<to>>) BY <1>2, <1>4, Zenon DEF MoveRowed
  <2>3. QED BY <2>1, <2>2
<1>6. QED BY <1>1, <1>5 DEF move

\* A worker takes up something else; the task, its runs and the lane stay.
LEMMA WorkerMoves ==
  ASSUME Kept, Rowed, NEW w \in Workers, NEW h, WorkerRowed(form, h), host' = [host EXCEPT ![w] = h],
         UNCHANGED <<form, runs, agents, event, baseline, lane>>, task' \in TaskRow(form)
  PROVE  Rowed'
<1>1. host' = [u \in Workers |-> IF u = w THEN h ELSE host[u]] BY DEF Kept, HostKept
<1>2. \A u \in Workers : WorkerRowed(form, host'[u]) BY <1>1 DEF Rowed
<1>3. QED BY <1>2 DEF Rowed

LEMMA FreeIsRowed ==
  ASSUME NEW f, NEW rows
  PROVE  WorkerRowed(f, Free) /\ LaneRowed(rows, Free)
BY DEF WorkerRowed, LaneRowed, Free

\* Requests of the workers.
LEMMA HostRowed ==
  ASSUME Kept, Rowed, NEW w \in Workers, HostRequest(w)
  PROVE  Rowed'
<1>1. task \in TaskRow(form) /\ WorkerRowed(form, host[w]) BY DEF Rowed
<1>2. ASSUME NEW p \in Plans, RecordRead(w, p) PROVE Rowed'
  <2>1. PICK same \in BOOLEAN :
          host' = [host EXCEPT ![w] = [at |-> "record", plan |-> p, copy |-> NewPlan(p, same)]]
    BY <1>2 DEF RecordRead
  <2>2. WorkerRowed(form, [at |-> "record", plan |-> p, copy |-> NewPlan(p, same)]) BY DEF WorkerRowed
  <2>3. QED BY <1>1, <1>2, <2>1, <2>2, WorkerMoves DEF RecordRead
<1>3. CASE RecordSave(w) BY <1>1, <1>3, FreeIsRowed, WorkerMoves DEF RecordSave
<1>4. ASSUME NEW p \in Plans, NEW k \in Steps, NEW c \in form.calls, NEW outcome \in Outcomes,
             ResultRead(w, p, k, c, outcome)
      PROVE  Rowed'
  <2>1. WorkerRowed(form, [at |-> "judge", plan |-> p, step |-> k, call |-> <<c, outcome>>,
                           copy |-> plans[p]])
    BY DEF WorkerRowed
  <2>2. QED BY <1>1, <1>4, <2>1, WorkerMoves DEF ResultRead
<1>5. CASE ResultJudge(w)
  <2> DEFINE saving(new, follow) == [at |-> "save", plan |-> host[w].plan, copy |-> new, move |-> follow]
  <2>1. UNCHANGED <<taskRows, planRows, agentVars, laneVars, requests>> BY <1>5 DEF ResultJudge
  <2>2. ASSUME NEW new, NEW follow, follow # <<>> => MoveRowed(form, follow),
               host' = [host EXCEPT ![w] = saving(new, follow)]
        PROVE  Rowed'
    <3>1. WorkerRowed(form, saving(new, follow)) BY <2>2 DEF WorkerRowed
    <3>2. QED BY <1>1, <2>1, <2>2, <3>1, WorkerMoves
  <2>3. \/ host' = [host EXCEPT ![w] = Free]
        \/ \E new : host' = [host EXCEPT ![w] = saving(new, <<>>)]
        \/ \E new, k : \E failing \in {"", "waiting_user", "failed"} :
             host' = [host EXCEPT ![w] = saving(new, Follow(new, k, failing))]
    <3> DEFINE h == host[w]  k == h.step  ok == h.call[2] = "success"
               failed == [h.copy EXCEPT !.window = "failed", !.steps[k].last = h.call]
               sample == [h.copy EXCEPT !.window = "running", !.steps[k].last = h.call]
               next == IF ok THEN Advanced(h.copy, k, h.call) ELSE Setback(h.copy, k, h.call)
               failing == IF next.steps[k].status = "blocked" THEN "failed" ELSE ""
    <3>1. \/ host' = [host EXCEPT ![w] = Free]
          \/ host' = [host EXCEPT ![w] = saving(failed, Follow(failed, k, "waiting_user"))]
          \/ host' = [host EXCEPT ![w] = saving(sample, <<>>)]
          \/ host' = [host EXCEPT ![w] = saving(next, Follow(next, k, failing))]
      BY <1>5 DEF ResultJudge
    <3>2. failing \in {"", "waiting_user", "failed"} OBVIOUS
    <3> HIDE DEF failed, sample, next, failing, saving
    <3>3. QED BY <3>1, <3>2
  <2> HIDE DEF saving
  <2>4. CASE host' = [host EXCEPT ![w] = Free] BY <1>1, <2>1, <2>4, FreeIsRowed, WorkerMoves
  <2>5. CASE \E new : host' = [host EXCEPT ![w] = saving(new, <<>>)] BY <2>2, <2>5
  <2>6. CASE \E new, k : \E failing \in {"", "waiting_user", "failed"} :
               host' = [host EXCEPT ![w] = saving(new, Follow(new, k, failing))]
    BY <1>1, <2>2, <2>6, FollowIsStatus
  <2>7. QED BY <2>3, <2>4, <2>5, <2>6
<1>6. CASE ResultSave(w)
  <2> DEFINE h == [at |-> "move", plan |-> host[w].plan, move |-> host[w].move]
  <2>1. /\ host[w].at = "save" /\ host' = [host EXCEPT ![w] = IF host[w].move = <<>> THEN Free ELSE h]
        /\ UNCHANGED <<taskRows, agentVars, laneVars, baseline>>
    BY <1>6 DEF ResultSave
  <2>2. host[w].move # <<>> => WorkerRowed(form, h) BY <1>1, <2>1 DEF WorkerRowed
  <2> HIDE DEF h
  <2>3. WorkerRowed(form, IF host[w].move = <<>> THEN Free ELSE h) BY <2>2, FreeIsRowed
  <2>4. QED BY <1>1, <2>1, <2>3, WorkerMoves
<1>7. CASE MoveTask(w)
  <2>1. /\ host[w].at = "move" /\ host' = [host EXCEPT ![w] = Free]
        /\ UNCHANGED <<planRows, agentVars, laneVars, form, runs>>
        /\ \/ /\ Len(host[w].move) = 2
              /\ task' = [status |-> host[w].move[1], run |-> host[w].move[2], failure |-> "none"]
           \/ task' = [task EXCEPT !.status = host[w].move[1]]
    BY <1>7 DEF MoveTask, update_investigation_task_progress, set_investigation_task_status
  <2>2. MoveRowed(form, host[w].move) BY <1>1, <2>1 DEF WorkerRowed
  <2>3. task' \in TaskRow(form) BY <1>1, <2>1, <2>2 DEF MoveRowed, TaskRow, Failures
  <2>4. QED BY <2>1, <2>3, FreeIsRowed, WorkerMoves
<1>8. QED BY <1>2, <1>3, <1>4, <1>5, <1>6, <1>7 DEF HostRequest

\* Rows of which only the status changes stay where they are.
LEMMA RunsStay ==
  ASSUME Kept, runs' \in Seq(RunRow(form)), DOMAIN runs' = DOMAIN runs
  PROVE  Len(runs') = Len(runs) /\ (runs # <<>> => runs' # <<>>)
<1>1. /\ Len(runs) \in Nat /\ DOMAIN runs = 1 .. Len(runs)
      /\ Len(runs') \in Nat /\ DOMAIN runs' = 1 .. Len(runs')
  BY LenProperties DEF Kept
<1>2. Len(runs') = Len(runs)
  <2> DEFINE m == Len(runs)  n == Len(runs')
  <2>1. m \in Nat /\ n \in Nat /\ 1 .. m = 1 .. n BY <1>1
  <2> HIDE DEF m, n
  <2>2. m = 0 \/ m \in 1 .. n BY <2>1
  <2>3. n = 0 \/ n \in 1 .. m BY <2>1
  <2>4. m = n BY <2>1, <2>2, <2>3
  <2>5. QED BY <2>4 DEF m, n
<1>3. ASSUME runs # <<>>, runs' = <<>> PROVE FALSE
  <2>1. Len(runs) # 0 BY <1>3, EmptySeq DEF Kept
  <2>2. Len(runs') = 0 BY <1>3, EmptySeq
  <2>3. QED BY <1>2, <2>1, <2>2
<1>4. QED BY <1>2, <1>3

\* An Agent event moves the task only to what its kind says, with the run it is of.
LEMMA ProgressRowed ==
  ASSUME Kept, Rowed, NEW r \in DOMAIN runs,
         NEW st \in {"running", "waiting_user", "completed", "failed", "cancelled"},
         NEW failure \in {"none", "unknown"}, apply_investigation_run_progress(r, st, failure)
  PROVE  /\ task' \in TaskRow(form) /\ (task'.status = "completed" => task.status = "completed")
         /\ runs' \in Seq(RunRow(form)) /\ DOMAIN runs' = DOMAIN runs /\ r \in 0 .. form.runs
<1>1. r \in 0 .. form.runs
  <2>1. DOMAIN runs = 1 .. Len(runs) /\ Len(runs) \in Nat BY LenProperties DEF Kept
  <2>2. form.runs \in Nat BY InvestigationAssumption DEF Kept
  <2>3. Len(runs) <= form.runs BY DEF Rowed
  <2>4. QED BY <2>1, <2>2, <2>3
<1>2. runs' = [runs EXCEPT ![r].status = st] BY DEF apply_investigation_run_progress
<1>3. runs' \in Seq(RunRow(form)) BY <1>2, RunChanges DEF Kept, OpenRun
<1>4. DOMAIN runs' = DOMAIN runs BY <1>2
<1>5. task \in TaskRow(form) BY DEF Rowed
<1>6. PICK next, run, fail :
        /\ task' = [status |-> next, run |-> run, failure |-> fail]
        /\ next \in {task.status, "waiting_user", "failed", "stopped"}
        /\ run \in {0, r} /\ fail \in {failure, task.failure}
  <2> DEFINE ends == st \in {"completed", "failed", "cancelled"}
             next == IF task.status \in Terminal THEN task.status
                     ELSE CASE st \in {"waiting_user", "completed"} -> "waiting_user"
                            [] st = "failed" -> "failed"
                            [] st = "cancelled" -> "stopped"
                            [] OTHER -> task.status
             run == IF ends THEN 0 ELSE r
             fail == IF task.status \notin Terminal /\ st \in {"failed", "cancelled"}
                     THEN failure ELSE task.failure
  <2>1. task' = [status |-> next, run |-> run, failure |-> fail]
    BY DEF apply_investigation_run_progress, update_investigation_task_progress
  <2>2. next \in {task.status, "waiting_user", "failed", "stopped"} OBVIOUS
  <2>3. run \in {0, r} /\ fail \in {failure, task.failure} OBVIOUS
  <2> HIDE DEF next, run, fail
  <2>4. QED BY <2>1, <2>2, <2>3
<1>7. next \in Statuses /\ run \in 0 .. form.runs /\ fail \in Failures
      /\ (next = "completed" => task.status = "completed")
  <2>1. 0 \in 0 .. form.runs BY InvestigationAssumption DEF Kept
  <2>2. QED BY <1>1, <1>5, <1>6, <2>1 DEF TaskRow, Statuses, Terminal, Failures
<1>8. task' \in TaskRow(form) /\ task'.status = next BY <1>6, <1>7 DEF TaskRow
<1>9. QED BY <1>1, <1>3, <1>4, <1>7, <1>8

\* Agent events, artifacts and the end of the application.
LEMMA EventRowed ==
  ASSUME Kept, Rowed,
         \/ \E p \in Plans : RecordArtifact(p)
         \/ RecordBrief \/ BlockInterrupted \/ Restart
         \/ \E r \in DOMAIN runs, st \in {"running", "waiting_user", "completed", "failed", "cancelled"} :
              AgentEvent(r, st)
  PROVE  Rowed'
<1>1. ASSUME NEW p \in Plans, RecordArtifact(p) PROVE Rowed'
  <2>1. baseline' = baseline \/ baseline' = [baseline EXCEPT ![p] = "ready"] BY <1>1 DEF RecordArtifact
  <2>2. baseline' \in [Plans -> {"none", "ready", "superseded"}] BY <2>1 DEF Rowed
  <2>3. UNCHANGED <<taskRows, agentVars, hostVars, laneVars>> BY <1>1 DEF RecordArtifact
  <2>4. QED BY <2>2, <2>3 DEF Rowed
<1>2. CASE RecordBrief
  <2>1. UNCHANGED <<taskRows, agentVars, hostVars, laneVars, baseline>> BY <1>2 DEF RecordBrief
  <2>2. QED BY <2>1 DEF Rowed
<1>3. CASE BlockInterrupted
  <2>1. UNCHANGED <<taskRows, agents, hostVars, laneVars, baseline>> /\ event' = 0
    BY <1>3 DEF BlockInterrupted
  <2>2. event' \in 0 .. form.runs BY <2>1, InvestigationAssumption DEF Kept
  <2>3. QED BY <2>1, <2>2 DEF Rowed
<1>4. CASE Restart
  <2>1. /\ host' = [w \in Workers |-> Free] /\ lane' = Free /\ event' = 0 /\ agents' = {}
        /\ UNCHANGED <<taskRows, planRows>>
    BY <1>4 DEF Restart
  <2>2. event' \in 0 .. form.runs BY <2>1, InvestigationAssumption DEF Kept
  <2>3. \A w \in Workers : WorkerRowed(form, host'[w]) BY <2>1, FreeIsRowed
  <2>4. LaneRowed(runs, lane') BY <2>1, FreeIsRowed
  <2>5. QED BY <2>1, <2>2, <2>3, <2>4 DEF Rowed
<1>5. ASSUME NEW r \in DOMAIN runs,
             NEW st \in {"running", "waiting_user", "completed", "failed", "cancelled"}, AgentEvent(r, st)
      PROVE  Rowed'
  <2>1. PICK failure \in {"none", "unknown"} : apply_investigation_run_progress(r, st, failure)
    BY <1>5 DEF AgentEvent
  <2>2. /\ task' \in TaskRow(form) /\ runs' \in Seq(RunRow(form)) /\ DOMAIN runs' = DOMAIN runs
        /\ r \in 0 .. form.runs
    BY <2>1, ProgressRowed
  <2>3. Len(runs') = Len(runs) /\ (runs # <<>> => runs' # <<>>) BY <2>2, RunsStay
  <2>4. UNCHANGED <<planRows, hostVars, laneVars, form, agents>> /\ event' \in {0, r}
    BY <1>5 DEF AgentEvent
  <2>5. event' \in 0 .. form.runs BY <2>2, <2>4, InvestigationAssumption DEF Kept
  <2>6. LaneRowed(runs', lane') BY <2>3, <2>4 DEF Rowed, LaneRowed
  <2>7. QED BY <2>2, <2>3, <2>4, <2>5, <2>6 DEF Rowed
<1>6. QED BY <1>1, <1>2, <1>3, <1>4, <1>5

\* Commands that leave the workers alone.
LEMMA LaneMoves ==
  ASSUME Kept, Rowed, task' \in TaskRow(form), LaneRowed(runs', lane'),
         Len(runs') <= form.runs, agents' \subseteq DOMAIN runs',
         baseline' \in [Plans -> {"none", "ready", "superseded"}],
         UNCHANGED <<form, host, event>>
  PROVE  Rowed'
BY DEF Rowed

LEMMA RowsOfTask ==
  ASSUME Kept, Rowed
  PROVE  /\ task \in TaskRow(form) /\ LaneRowed(runs, lane) /\ Len(runs) <= form.runs
         /\ agents \subseteq DOMAIN runs /\ baseline \in [Plans -> {"none", "ready", "superseded"}]
         /\ 0 \in 0 .. form.runs /\ Len(runs) \in 0 .. form.runs /\ Len(runs) \in Nat
         /\ DOMAIN runs = 1 .. Len(runs)
<1>1. form.runs \in Nat /\ Len(runs) \in Nat /\ DOMAIN runs = 1 .. Len(runs)
  BY InvestigationAssumption, LenProperties DEF Kept
<1>2. QED BY <1>1 DEF Rowed

\* investigation_task_start.
LEMMA StartRowed ==
  ASSUME Kept, Rowed, StartCheck \/ StartAdmit \/ StartLaunch \/ StartSidecar
  PROVE  Rowed'
<1>1. /\ task \in TaskRow(form) /\ LaneRowed(runs, lane) /\ Len(runs) <= form.runs
      /\ agents \subseteq DOMAIN runs /\ baseline \in [Plans -> {"none", "ready", "superseded"}]
      /\ 0 \in 0 .. form.runs /\ Len(runs) \in 0 .. form.runs /\ Len(runs) \in Nat
      /\ DOMAIN runs = 1 .. Len(runs)
  BY RowsOfTask
<1>2. CASE StartCheck
  <2>1. LaneRowed(runs, lane') BY <1>2 DEF StartCheck, LaneRowed
  <2>2. QED BY <1>1, <1>2, <2>1, LaneMoves DEF StartCheck
<1>3. CASE StartAdmit
  <2>1. UNCHANGED <<planRows, agentVars, hostVars, form, task>> BY <1>3 DEF StartAdmit
  <2>2. CASE lane' = Free /\ UNCHANGED runs BY <1>1, <2>1, <2>2, FreeIsRowed, LaneMoves
  <2>3. CASE Len(runs) < form.runs /\ lane' = [at |-> "launch"]
             /\ \E bound : runs' = Append(runs, [status |-> "admitted", bound |-> bound])
    <3>1. PICK bound : runs' = Append(runs, [status |-> "admitted", bound |-> bound]) BY <2>3
    <3> DEFINE row == [status |-> "admitted", bound |-> bound]
               wide == RunRow(form) \union {row}
    <3>2. row \in wide /\ runs' = Append(runs, row) BY <3>1
    <3> HIDE DEF row
    <3>3. runs \in Seq(wide)
      <4>1. RunRow(form) \subseteq wide OBVIOUS
      <4> HIDE DEF wide
      <4>2. QED BY <4>1, SeqMonotonic DEF Kept
    <3> HIDE DEF wide
    <3>4. Len(runs') = Len(runs) + 1 /\ runs' # <<>> /\ runs' \in Seq(wide)
      BY <3>2, <3>3, AppendProperties
    <3>5. DOMAIN runs' = 1 .. Len(runs') BY <3>4, LenProperties
    <3>6. form.runs \in Nat BY InvestigationAssumption DEF Kept
    <3>7. Len(runs') <= form.runs /\ DOMAIN runs \subseteq DOMAIN runs'
      BY <1>1, <2>3, <3>4, <3>5, <3>6
    <3>8. LaneRowed(runs', lane') BY <2>3, <3>4 DEF LaneRowed
    <3>9. QED BY <1>1, <2>1, <3>7, <3>8, LaneMoves
  <2>4. QED BY <1>3, <2>2, <2>3 DEF StartAdmit, create_investigation_run, MaxRuns
<1>4. CASE StartLaunch
  <2>1. /\ lane.at = "launch" /\ lane' = [at |-> "sidecar"]
        /\ task' = [status |-> "investigating", run |-> Len(runs), failure |-> "none"]
        /\ UNCHANGED <<planRows, agentVars, hostVars, form, runs>>
    BY <1>4 DEF StartLaunch, update_investigation_task_progress
  <2>2. task' \in TaskRow(form) BY <1>1, <2>1 DEF TaskRow, Statuses, Failures
  <2>3. LaneRowed(runs', lane') BY <1>1, <2>1 DEF LaneRowed
  <2>4. QED BY <1>1, <2>1, <2>2, <2>3, LaneMoves
<1>5. CASE StartSidecar
  <2>1. /\ lane.at = "sidecar" /\ lane' = Free /\ UNCHANGED <<planRows, hostVars, form, event>>
        /\ agents' \in {agents, agents \union {Len(runs)}}
        /\ \/ UNCHANGED <<runs, task>>
           \/ apply_investigation_run_progress(Len(runs), "failed", "none")
    BY <1>5 DEF StartSidecar
  <2>2. runs # <<>> BY <1>1, <2>1 DEF LaneRowed
  <2>3. Len(runs) \in DOMAIN runs
    <3>1. Len(runs) # 0 BY <2>2, EmptySeq DEF Kept
    <3>2. QED BY <1>1, <3>1
  <2>4. task' \in TaskRow(form) /\ DOMAIN runs' = DOMAIN runs /\ Len(runs') = Len(runs)
    <3>1. CASE UNCHANGED <<runs, task>> BY <1>1, <3>1
    <3>2. CASE apply_investigation_run_progress(Len(runs), "failed", "none")
      BY <2>3, <3>2, ProgressRowed, RunsStay
    <3>3. QED BY <2>1, <3>1, <3>2
  <2>5. LaneRowed(runs', lane') BY <2>1, FreeIsRowed
  <2>6. QED BY <1>1, <2>1, <2>3, <2>4, <2>5, LaneMoves
<1>6. QED BY <1>2, <1>3, <1>4, <1>5

\* A recovery carries the failure it read and the status it will set.
LEMMA RecoverRowed ==
  ASSUME Kept, Rowed,
         \/ \E option \in {"none", "retry", "stop", "rollback", "wait_user"} : RecoverRead(option)
         \/ RecoverInvalidate \/ RecoverTask
  PROVE  Rowed'
<1>1. /\ task \in TaskRow(form) /\ LaneRowed(runs, lane) /\ Len(runs) <= form.runs
      /\ agents \subseteq DOMAIN runs /\ baseline \in [Plans -> {"none", "ready", "superseded"}]
      /\ 0 \in 0 .. form.runs /\ LaneKept(form, decided, lane)
  BY RowsOfTask DEF Kept
<1>2. ASSUME NEW option \in {"none", "retry", "stop", "rollback", "wait_user"}, RecoverRead(option)
      PROVE  Rowed'
  <2>1. UNCHANGED <<taskRows, planRows, agentVars, hostVars>> BY <1>2 DEF RecoverRead
  <2>2. PICK to \in {"stopped", "waiting_user", ""} :
          lane' = [at |-> "invalidate", failure |-> task.failure, then |-> to,
                   plan |-> latest_investigation_plan, copy |-> LatestCopy]
    BY <1>2 DEF RecoverRead
  <2>3. task.failure \in Failures BY <1>1 DEF TaskRow
  <2>4. LaneRowed(runs, lane') BY <2>2, <2>3 DEF LaneRowed
  <2>5. QED BY <1>1, <2>1, <2>4, LaneMoves
<1>3. CASE RecoverInvalidate
  <2>1. /\ lane.at = "invalidate" /\ lane' = [lane EXCEPT !.at = "recover", !.copy = Invalidated(@)]
        /\ UNCHANGED <<taskRows, agentVars, hostVars>>
        /\ \/ baseline' = baseline
           \/ baseline' = [baseline EXCEPT ![lane.plan] = IF @ = "ready" THEN "superseded" ELSE @]
    BY <1>3 DEF RecoverInvalidate
  <2>2. baseline' \in [Plans -> {"none", "ready", "superseded"}] BY <1>1, <2>1
  <2>3. {"at", "copy", "then", "failure"} \subseteq DOMAIN lane BY <1>1, <2>1 DEF LaneKept, LaneRowed
  <2>4. lane'.at = "recover" /\ lane'.failure = lane.failure /\ lane'.then = lane.then
        /\ "failure" \in DOMAIN lane'
    BY <2>1, <2>3
  <2>5. LaneRowed(runs, lane') BY <1>1, <2>1, <2>4 DEF LaneRowed
  <2>6. QED BY <1>1, <2>1, <2>2, <2>5, LaneMoves
<1>4. CASE RecoverTask
  <2> DEFINE fail == IF lane.failure = "unknown" THEN "unknown" ELSE "recovered"
             to == IF NeedsReview(fail) THEN "waiting_user" ELSE "investigating"
  <2>1. /\ lane.at = "recover" /\ UNCHANGED <<planRows, agentVars, hostVars, form, commands>>
        /\ \/ lane' = Free /\ UNCHANGED <<task, runs>>
           \/ /\ task' = [status |-> to, run |-> 0, failure |-> fail]
              /\ runs' = [r \in DOMAIN runs |-> IF runs[r].status \in OpenRun
                                                THEN [runs[r] EXCEPT !.status = "interrupted"] ELSE runs[r]]
              /\ lane' = IF lane.then = "" THEN Free ELSE [at |-> "set", to |-> lane.then]
    BY <1>4 DEF RecoverTask
  <2>2. fail \in Failures /\ to \in Statuses BY DEF Failures, Statuses
  <2> HIDE DEF fail, to
  <2>3. task' \in TaskRow(form)
    <3>1. task' = task \/ task' = [status |-> to, run |-> 0, failure |-> fail] BY <2>1
    <3>2. [status |-> to, run |-> 0, failure |-> fail] \in TaskRow(form) BY <1>1, <2>2 DEF TaskRow
    <3>3. QED BY <1>1, <3>1, <3>2
  <2>4. DOMAIN runs' = DOMAIN runs BY <2>1
  <2>5. runs' \in Seq(RunRow(form)) /\ form' = form BY <1>4, <2>1, RecoverKept DEF Kept
  <2>6. Len(runs') = Len(runs) BY <2>4, <2>5, RunsStay
  <2>7. lane.then \in {"stopped", "waiting_user", ""} BY <1>1, <2>1 DEF LaneRowed
  <2>8. LaneRowed(runs', lane')
    <3>1. CASE lane' = Free BY <3>1, FreeIsRowed
    <3>2. CASE lane.then # "" /\ lane' = [at |-> "set", to |-> lane.then]
      BY <2>7, <3>2 DEF LaneRowed
    <3>3. QED BY <2>1, <3>1, <3>2
  <2>9. QED BY <1>1, <2>1, <2>3, <2>4, <2>6, <2>8, LaneMoves
<1>5. QED BY <1>2, <1>3, <1>4

\* The user's decisions set a status the command has checked.
LEMMA DecideRowed ==
  ASSUME Kept, Rowed,
         \/ \E continuation \in {"start_plan", "stop"} : SelectBrief(continuation)
         \/ ApprovePlan \/ StopTask \/ SetStatus
         \/ \E s \in form.statuses : UpdateStatus(s)
  PROVE  Rowed'
<1>1. /\ task \in TaskRow(form) /\ LaneRowed(runs, lane) /\ Len(runs) <= form.runs
      /\ agents \subseteq DOMAIN runs /\ baseline \in [Plans -> {"none", "ready", "superseded"}]
  BY RowsOfTask
<1>2. ASSUME NEW continuation \in {"start_plan", "stop"}, SelectBrief(continuation) PROVE Rowed'
  <2>1. UNCHANGED <<taskRows, planRows, agentVars, hostVars>>
        /\ \/ lane' = [at |-> "approve", plan |-> brief, copy |-> plans[brief]]
           \/ lane' = [at |-> "set", to |-> "stopped"]
    BY <1>2 DEF SelectBrief
  <2>2. LaneRowed(runs, lane')
    <3>1. LaneRowed(runs, [at |-> "approve", plan |-> brief, copy |-> plans[brief]]) BY DEF LaneRowed
    <3>2. LaneRowed(runs, [at |-> "set", to |-> "stopped"]) BY DEF LaneRowed
    <3>3. QED BY <2>1, <3>1, <3>2
  <2>3. QED BY <1>1, <2>1, <2>2, LaneMoves
<1>3. CASE ApprovePlan
  <2>1. lane' = Free /\ UNCHANGED <<taskRows, agentVars, hostVars, baseline>> BY <1>3 DEF ApprovePlan
  <2>2. QED BY <1>1, <2>1, FreeIsRowed, LaneMoves
<1>4. CASE StopTask
  <2>1. lane' = [at |-> "set", to |-> "stopped"] /\ UNCHANGED <<taskRows, planRows, agentVars, hostVars>>
    BY <1>4 DEF StopTask
  <2>2. LaneRowed(runs, lane') BY <2>1 DEF LaneRowed
  <2>3. QED BY <1>1, <2>1, <2>2, LaneMoves
<1>5. CASE SetStatus
  <2>1. /\ lane.at = "set" /\ lane' = Free /\ task' = [task EXCEPT !.status = lane.to]
        /\ UNCHANGED <<planRows, agentVars, hostVars, form, runs>>
    BY <1>5 DEF SetStatus, set_investigation_task_status
  <2>2. lane.to \in Statuses BY <1>1, <2>1 DEF LaneRowed, Statuses, Terminal
  <2>3. task' \in TaskRow(form) BY <1>1, <2>1, <2>2 DEF TaskRow
  <2>4. QED BY <1>1, <2>1, <2>3, FreeIsRowed, LaneMoves
<1>6. ASSUME NEW s \in form.statuses, UpdateStatus(s) PROVE Rowed'
  <2>1. /\ task' = [task EXCEPT !.status = s]
        /\ UNCHANGED <<planRows, agentVars, hostVars, form, runs, lane>>
    BY <1>6 DEF UpdateStatus, set_investigation_task_status
  <2>2. s \in Statuses BY InvestigationAssumption DEF Kept
  <2>3. task' \in TaskRow(form) BY <1>1, <2>1, <2>2 DEF TaskRow
  <2>4. QED BY <1>1, <2>1, <2>3, LaneMoves
<1>7. QED BY <1>2, <1>3, <1>4, <1>5, <1>6

LEMMA RowedNext ==
  ASSUME Kept, Rowed, [Next]_vars
  PROVE  Rowed'
<1>1. CASE UNCHANGED vars BY <1>1 DEF Rowed, vars
<1>2. CASE UserCommand BY <1>2, StartRowed, RecoverRowed, DecideRowed DEF UserCommand
<1>3. CASE Next BY <1>2, <1>3, HostRowed, EventRowed DEF Next
<1>4. QED BY <1>1, <1>3

\* The task's row and its runs, whoever writes them.
THEOREM RowedInvariant == Spec => []Rowed
<1>1. Init => Rowed
  <2> SUFFICES ASSUME Init PROVE Rowed OBVIOUS
  <2>1. form.runs \in Nat BY InvestigationAssumption DEF Init
  <2>2. task \in TaskRow(form) BY <2>1 DEF Init, TaskRow, Statuses, Failures
  <2>3. Len(runs) = 0 BY EmptySeq DEF Init
  <2>4. \A w \in Workers : WorkerRowed(form, host[w]) BY FreeIsRowed DEF Init
  <2>5. LaneRowed(runs, lane) BY FreeIsRowed DEF Init
  <2>6. QED BY <2>1, <2>2, <2>3, <2>4, <2>5 DEF Init, Rowed
<1>2. Kept /\ Rowed /\ [Next]_vars => Rowed' BY RowedNext
<1>3. QED BY <1>1, <1>2, KeptInvariant, PTL DEF Spec

\* Every row has its shape, no step is tried more often than its budget allows, and no task is
\* given more runs than its own.
THEOREM TypeCorrect == Spec => []TypeOK
<1>1. Kept /\ Rowed => TypeOK
  <2> SUFFICES ASSUME Kept, Rowed PROVE TypeOK OBVIOUS
  <2>1. plans \in [Plans -> PlanRow]
    BY FormNames DEF Kept, PlansKept, Row, StepRow, PlanRow
  <2>2. \A r \in DOMAIN runs :
          runs[r].status \in OpenRun \union {"completed", "failed", "cancelled", "interrupted"}
    <3> SUFFICES ASSUME NEW r \in DOMAIN runs PROVE runs[r] \in RunRow(form) BY DEF RunRow
    <3>1. QED BY LenProperties, ElementOfSeq DEF Kept
  <2>3. QED BY <2>1, <2>2 DEF Kept, Rowed, TypeOK, TaskRow, Failures, Decisions, MaxRuns
<1>2. QED BY <1>1, KeptInvariant, RowedInvariant, PTL

-----------------------------------------------------------------------------
(* Who completes a task, and what one run leaves to the next               *)

\* recover_investigation_task moves the task to the user, or on with the plan it has compared.
LEMMA RecoveredTask ==
  ASSUME RecoverTask
  PROVE  \/ task' = task
         \/ task'.status = "waiting_user"
         \/ task'.status = "investigating" /\ \E failure : ~NeedsReview(failure)
<1> DEFINE fail == IF lane.failure = "unknown" THEN "unknown" ELSE "recovered"
           to == IF NeedsReview(fail) THEN "waiting_user" ELSE "investigating"
<1>1. task' = task \/ task' = [status |-> to, run |-> 0, failure |-> fail] BY DEF RecoverTask
<1>2. to = "waiting_user" \/ (to = "investigating" /\ \E failure : ~NeedsReview(failure)) OBVIOUS
<1> HIDE DEF to, fail
<1>3. task' = task \/ task'.status = to BY <1>1
<1>4. QED BY <1>2, <1>3

\* The tasks' statuses that a step other than a judged result or a status command leaves.
LEMMA UserCompletesNothing ==
  ASSUME Kept, Rowed, UserCommand, commands' = commands, task'.status = "completed"
  PROVE  task.status = "completed"
<1>1. task \in TaskRow(form) /\ LaneRowed(runs, lane) /\ commands \in Nat BY DEF Rowed, Kept
<1>2. ASSUME Take PROVE FALSE BY <1>1, <1>2 DEF Take
<1>3. CASE StartCheck BY <1>2, <1>3 DEF StartCheck
<1>4. CASE StartAdmit BY <1>4 DEF StartAdmit
<1>5. CASE StartLaunch
  <2>1. task'.status = "investigating" BY <1>5 DEF StartLaunch, update_investigation_task_progress
  <2>2. QED BY <2>1
<1>6. CASE StartSidecar
  <2>1. UNCHANGED task \/ apply_investigation_run_progress(Len(runs), "failed", "none")
    BY <1>6 DEF StartSidecar
  <2>2. lane.at = "sidecar" BY <1>6 DEF StartSidecar
  <2>3. Len(runs) \in DOMAIN runs
    <3>1. runs # <<>> BY <1>1, <2>2 DEF LaneRowed
    <3>2. Len(runs) # 0 BY <3>1, EmptySeq DEF Kept
    <3>3. QED BY <3>2, RowsOfTask
  <2>4. QED BY <2>1, <2>3, ProgressRowed
<1>7. ASSUME NEW option \in {"none", "retry", "stop", "rollback", "wait_user"}, RecoverRead(option) PROVE FALSE
  BY <1>2, <1>7 DEF RecoverRead
<1>8. CASE RecoverInvalidate BY <1>8 DEF RecoverInvalidate
<1>9. CASE RecoverTask
  <2>1. task' = task \/ task'.status \in {"waiting_user", "investigating"} BY <1>9, RecoveredTask
  <2>2. QED BY <2>1
<1>10. ASSUME NEW continuation \in {"start_plan", "stop"}, SelectBrief(continuation) PROVE FALSE
  BY <1>2, <1>10 DEF SelectBrief
<1>11. CASE ApprovePlan BY <1>11 DEF ApprovePlan
<1>12. CASE StopTask BY <1>2, <1>12 DEF StopTask
<1>13. CASE SetStatus
  <2>1. lane.at = "set" /\ task' = [task EXCEPT !.status = lane.to]
    BY <1>13 DEF SetStatus, set_investigation_task_status
  <2>2. lane.to # "completed" BY <1>1, <2>1 DEF LaneRowed
  <2>3. task'.status = lane.to BY <1>1, <2>1 DEF TaskRow
  <2>4. QED BY <2>2, <2>3
<1>14. ASSUME NEW s \in form.statuses, UpdateStatus(s) PROVE FALSE BY <1>2, <1>14 DEF UpdateStatus
<1>15. QED BY <1>3, <1>4, <1>5, <1>6, <1>7, <1>8, <1>9, <1>10, <1>11, <1>12, <1>13, <1>14 DEF UserCommand

\* handle_plan_step_result: apart from the user, only the judged result of a plan that has its
\* verification artifact completes a task, however late the worker gets to it.
THEOREM CompletedTheorem == Spec => CompletedIsVerified
<1> DEFINE A == task'.status = "completed" /\ task.status # "completed" /\ commands' = commands
                => \E w \in Workers : host[w].at = "move" /\ host[w].plan \in verified
<1>1. ASSUME Kept, Rowed, [Next]_vars PROVE [A]_vars
  <2>1. task \in TaskRow(form) BY <1>1 DEF Rowed
  <2>2. ASSUME NEW w \in Workers, HostRequest(w) PROVE A
    <3>1. WorkerKept(form, decided, verified, host[w]) /\ WorkerRowed(form, host[w])
      BY <1>1 DEF Kept, HostKept, Rowed
    <3>2. CASE MoveTask(w)
      <4>1. /\ host[w].at = "move"
            /\ \/ task' = [status |-> host[w].move[1], run |-> host[w].move[2], failure |-> "none"]
               \/ task' = [task EXCEPT !.status = host[w].move[1]]
        BY <3>2 DEF MoveTask, update_investigation_task_progress, set_investigation_task_status
      <4>2. task'.status = host[w].move[1] BY <2>1, <4>1 DEF TaskRow
      <4>3. host[w].move # <<>> BY <3>1, <4>1 DEF WorkerRowed
      <4>4. host[w].move[1] = "completed" => host[w].plan \in verified BY <3>1, <4>1, <4>3 DEF WorkerKept
      <4>5. QED BY <4>1, <4>2, <4>4
    <3>3. CASE \E p \in Plans : RecordRead(w, p) BY <3>3 DEF RecordRead
    <3>4. CASE RecordSave(w) BY <3>4 DEF RecordSave
    <3>5. CASE \E p \in Plans, k \in Steps, c \in form.calls, outcome \in Outcomes :
                 ResultRead(w, p, k, c, outcome)
      BY <3>5 DEF ResultRead
    <3>6. CASE ResultJudge(w) BY <3>6 DEF ResultJudge
    <3>7. CASE ResultSave(w) BY <3>7 DEF ResultSave
    <3>8. QED BY <2>2, <3>2, <3>3, <3>4, <3>5, <3>6, <3>7 DEF HostRequest
  <2>3. CASE UserCommand BY <1>1, <2>3, UserCompletesNothing
  <2>4. CASE \E p \in Plans : RecordArtifact(p) BY <2>4 DEF RecordArtifact
  <2>5. CASE RecordBrief BY <2>5 DEF RecordBrief
  <2>6. CASE BlockInterrupted BY <2>6 DEF BlockInterrupted
  <2>7. CASE Restart BY <2>7 DEF Restart
  <2>8. ASSUME NEW r \in DOMAIN runs,
               NEW st \in {"running", "waiting_user", "completed", "failed", "cancelled"}, AgentEvent(r, st)
        PROVE  A
    <3>1. PICK failure \in {"none", "unknown"} : apply_investigation_run_progress(r, st, failure)
      BY <2>8 DEF AgentEvent
    <3>2. QED BY <1>1, <3>1, ProgressRowed
  <2>9. CASE UNCHANGED vars BY <2>9
  <2> HIDE DEF A
  <2>10. QED BY <1>1, <2>2, <2>3, <2>4, <2>5, <2>6, <2>7, <2>8, <2>9 DEF Next
<1>2. QED BY <1>1, KeptInvariant, RowedInvariant, PTL DEF Spec, CompletedIsVerified

\* recover_investigation_task: what it lets go on is the copy it invalidated.
LEMMA RecoveryReviewed ==
  ASSUME Kept, RecoverTask
  PROVE  RecoveryIsReviewed
<1> SUFFICES ASSUME task' # task, task'.status = "investigating", latest_investigation_plan # 0
             PROVE  /\ plans[latest_investigation_plan].approval = "pending"
                    /\ plans[latest_investigation_plan].window # "running"
  BY DEF RecoveryIsReviewed
<1>1. lane.at = "recover" /\ \E failure : ~NeedsReview(failure) BY RecoveredTask DEF RecoverTask
<1>2. latest_investigation_plan = lane.plan /\ (lane.plan # 0 => plans[lane.plan] = lane.copy)
  BY <1>1 DEF NeedsReview
<1>3. lane.copy.approval = "pending" /\ lane.copy.window # "running" BY <1>1 DEF Kept, LaneKept
<1>4. QED BY <1>2, <1>3

\* block_interrupted_investigation_plan: the run that ended is the task's last.
LEMMA NewerSpared ==
  ASSUME Kept, BlockInterrupted
  PROVE  InterruptSparesNewer
<1> SUFFICES ASSUME plans' # plans
             PROVE  task.run = 0 /\ \A r \in DOMAIN runs : runs[r].status \in OpenRun => r < event
  BY DEF InterruptSparesNewer
<1>1. Interrupted(event) BY DEF BlockInterrupted
<1>2. task.run = 0 /\ Len(runs) = event /\ runs[event].status \in {"failed", "cancelled"}
  BY <1>1 DEF Interrupted
<1>3. ASSUME NEW r \in DOMAIN runs, runs[r].status \in OpenRun PROVE r < event
  <2>1. r # event BY <1>2, <1>3 DEF OpenRun
  <2>2. Len(runs) \in Nat /\ DOMAIN runs = 1 .. Len(runs) BY LenProperties DEF Kept
  <2>3. QED BY <1>2, <1>3, <2>1, <2>2
<1>4. QED BY <1>2, <1>3

\* What one run or recovery leaves behind does not reach into the next: the plan a recovered task
\* goes on with has no approval or window from before (recover_investigation_task), and the end of a
\* run blocks a step only of the task's last run (block_interrupted_investigation_plan).
THEOREM RunsTheorem == Spec => RunsDoNotCross
<1> DEFINE A == RecoveryIsReviewed /\ InterruptSparesNewer
<1>1. ASSUME Kept, [Next]_vars PROVE [A]_vars
  <2>1. ASSUME task' = task \/ lane' = lane \/ lane.at # "recover" PROVE RecoveryIsReviewed
    BY <2>1 DEF RecoveryIsReviewed
  <2>2. ASSUME plans' = plans \/ event' = event \/ event = 0 PROVE InterruptSparesNewer
    BY <2>2 DEF InterruptSparesNewer
  <2>3. ASSUME NEW w \in Workers, HostRequest(w) PROVE UNCHANGED <<lane, event>>
    BY <2>3 DEF HostRequest, RecordRead, RecordSave, ResultRead, ResultJudge, ResultSave, MoveTask
  <2>4. CASE (\E p \in Plans : RecordArtifact(p)) \/ RecordBrief
    BY <2>1, <2>2, <2>4 DEF RecordArtifact, RecordBrief
  <2>5. CASE \E r \in DOMAIN runs, st \in {"running", "waiting_user", "completed", "failed", "cancelled"} :
               AgentEvent(r, st)
    BY <2>1, <2>2, <2>5 DEF AgentEvent
  <2>6. CASE BlockInterrupted
    <3>1. RecoveryIsReviewed BY <2>1, <2>6 DEF BlockInterrupted
    <3>2. QED BY <1>1, <2>6, <3>1, NewerSpared
  <2>7. CASE Restart BY <2>1, <2>2, <2>7 DEF Restart
  <2>8. CASE UserCommand
    <3>1. event' = event
      BY <2>8 DEF UserCommand, StartCheck, StartAdmit, StartLaunch, StartSidecar, RecoverRead,
                  RecoverInvalidate, RecoverTask, SelectBrief, ApprovePlan, StopTask, SetStatus, UpdateStatus
    <3>2. ASSUME Take PROVE RecoveryIsReviewed BY <2>1, <3>2 DEF Take, Free
    <3>3. ASSUME \/ StartCheck \/ StopTask
                 \/ \E option \in {"none", "retry", "stop", "rollback", "wait_user"} : RecoverRead(option)
                 \/ \E continuation \in {"start_plan", "stop"} : SelectBrief(continuation)
                 \/ \E s \in form.statuses : UpdateStatus(s)
          PROVE  RecoveryIsReviewed
      BY <3>2, <3>3 DEF StartCheck, StopTask, RecoverRead, SelectBrief, UpdateStatus
    <3>4. ASSUME StartAdmit \/ StartLaunch \/ StartSidecar \/ RecoverInvalidate \/ ApprovePlan \/ SetStatus
          PROVE  RecoveryIsReviewed
      <4>1. task' = task \/ lane.at # "recover"
        BY <3>4 DEF StartAdmit, StartLaunch, StartSidecar, RecoverInvalidate, ApprovePlan, SetStatus
      <4>2. QED BY <2>1, <4>1
    <3>5. ASSUME RecoverTask PROVE RecoveryIsReviewed BY <1>1, <3>5, RecoveryReviewed
    <3>6. RecoveryIsReviewed BY <2>8, <3>3, <3>4, <3>5 DEF UserCommand
    <3>7. QED BY <2>2, <3>1, <3>6
  <2>9. CASE UNCHANGED vars BY <2>9
  <2> HIDE DEF A
  <2>10. QED BY <1>1, <2>1, <2>2, <2>3, <2>4, <2>5, <2>6, <2>7, <2>8, <2>9 DEF Next, A
<1>2. QED BY <1>1, KeptInvariant, PTL DEF Spec, RunsDoNotCross
=============================================================================
