----------------------- MODULE EvidenceRetentionProofs -----------------------
(***************************************************************************)
(* Theorems about EvidenceRetention, for any number of pages, runs, plans, *)
(* contents, requests and faults: payloads keep their rows and files,      *)
(* cancellation is prompt, and the evidence of an ended run is frozen.     *)
(***************************************************************************)
EXTENDS EvidenceRetention, FiniteSetTheorems, SequenceTheorems, TLAPS

\* Where an executor is after it has begun the run and before it has settled it.
Working == {"next", "picked", "opened", "visit", "stored", "counting", "stopping"}

\* What holds of a run next to its job, its executor and its observations: a run with an active
\* job has a domain, one without a job has no evidence; whoever has stored a payload still owns the job; an
\* executor at work that owns its job works on a run under way.
RunsInv ==
  \A r \in Runs :
    /\ ActiveJob(r) => run[r].domain \in Domains
    /\ run[r].job = "none" => \A p \in Pages : obs[r][p].payload = NoPayload
    /\ exec[r].at = "stored" => run[r].job = "running" /\ exec[r].payload \in Payloads
    /\ exec[r].at \in Working /\ run[r].job = "running" => run[r].status = "running"

\* A page visited late is the one that was about to be visited, and no other follows.
LateInv ==
  \A r \in Runs :
    /\ late[r] <= 1
    /\ late[r] # 0 => run[r].cancel /\ exec[r].at # "picked"

\* A payload between its file and its row has the file, and whatever a deletion may unlink or
\* sweep and is, or is about to be, referred to again was written under it.
DeletionInv ==
  /\ del.pc # "idle" => del.domain \in Domains
  /\ \A r \in Runs : exec[r].at = "stored" =>
       LET d == run[r].domain
           x == exec[r].payload
       IN <<d, x>> \in raced \/
            /\ x \in files[d]
            /\ d = del.domain => del.kind # "gc" /\ (del.pc = "unlink" => x \notin del.files)
  /\ del.pc = "unlink" =>
       \A x \in rows[del.domain] \cap del.files : <<del.domain, x>> \in raced
  /\ del.pc = "checked" /\ del.kind = "gc" =>
       \A x \in rows[del.domain] \ del.files : <<del.domain, x>> \in raced

IInv == TypeOK /\ RunsInv /\ LateInv /\ DeletionInv /\ PayloadsKept

-----------------------------------------------------------------------------
(* Type correctness.                                                       *)

RunRows ==
  [domain: Domains \cup {"none"}, status: JobStatuses \cup {"none", "deleted"},
   job: JobStatuses \cup {"none"}, cancel: BOOLEAN, targets: SUBSET Pages,
   attempted: Nat, ready: Nat, failed: Nat, skipped: Nat]

Observations == [state: ObsStates, payload: Payloads \cup {NoPayload}]

Executors == [at: Phases, todo: SUBSET Pages, streak: Nat, payload: Payloads \cup {NoPayload}]

\* The same, conjunct by conjunct.
LEMMA RunsTypes ==
  RunsTypeOK <=> /\ run \in [Runs -> RunRows]
                 /\ obs \in [Runs -> [Pages -> Observations]]
                 /\ exec \in [Runs -> Executors]
                 /\ rows \in [Domains -> SUBSET Payloads]
                 /\ files \in [Domains -> SUBSET Payloads]
                 /\ late \in [Runs -> Nat]
                 /\ spent \in [requests: 0 .. MaxRequests, faults: 0 .. MaxFaults]
  BY DEF RunsTypeOK, RunRows, Observations, Executors

LEMMA RunsTypesNext ==
  ASSUME run' \in [Runs -> RunRows], obs' \in [Runs -> [Pages -> Observations]],
         exec' \in [Runs -> Executors],
         rows' \in [Domains -> SUBSET Payloads], files' \in [Domains -> SUBSET Payloads],
         late' \in [Runs -> Nat],
         spent' \in [requests: 0 .. MaxRequests, faults: 0 .. MaxFaults]
  PROVE  RunsTypeOK'
  BY DEF RunsTypeOK, RunRows, Observations, Executors

LEMMA Changed ==
  ASSUME NEW S, NEW T, NEW f \in [S -> T], NEW s, NEW v \in T
  PROVE  [f EXCEPT ![s] = v] \in [S -> T]
  OBVIOUS

\* The rows of runs that the actions write are rows of runs.
LEMMA RowStatus ==
  ASSUME NEW row \in RunRows, NEW st \in JobStatuses, NEW j \in JobStatuses
  PROVE  /\ [row EXCEPT !.status = st] \in RunRows
         /\ [row EXCEPT !.job = j] \in RunRows
         /\ [row EXCEPT !.job = j, !.status = st] \in RunRows
         /\ [row EXCEPT !.cancel = TRUE] \in RunRows
         /\ [row EXCEPT !.job = j, !.cancel = TRUE] \in RunRows
         /\ [row EXCEPT !.job = j, !.cancel = TRUE, !.status = st] \in RunRows
  BY DEF RunRows

LEMMA EndingType ==
  ASSUME NEW row
  PROVE  Ending(row) \in JobStatuses \cap Terminal
  BY DEF Ending, JobStatuses, Terminal

LEMMA CancelledRowType ==
  ASSUME NEW row \in RunRows
  PROVE  CancelledRow(row) \in RunRows
  <1>1. "cancelled" \in JobStatuses
    BY DEF JobStatuses, Terminal
  <1>2. CASE row.job = "queued" /\ row.status = "queued"
    BY <1>1, <1>2 DEF CancelledRow, RunRows
  <1>3. CASE row.job = "queued" /\ row.status # "queued"
    BY <1>1, <1>3 DEF CancelledRow, RunRows
  <1>4. CASE row.job # "queued"
    BY <1>4 DEF CancelledRow, RunRows
  <1> QED
    BY <1>2, <1>3, <1>4

LEMMA CancelledAsType ==
  ASSUME NEW row \in RunRows, NEW seen
  PROVE  CancelledAs(row, seen) \in RunRows
  <1>1. "cancelled" \in JobStatuses
    BY DEF JobStatuses, Terminal
  <1>2. CASE seen.job = "queued" /\ seen.status = "queued"
    BY <1>1, <1>2 DEF CancelledAs, RunRows
  <1>3. CASE seen.job = "queued" /\ seen.status # "queued"
    BY <1>1, <1>3 DEF CancelledAs, RunRows
  <1>4. CASE seen.job # "queued"
    BY <1>4 DEF CancelledAs, RunRows
  <1> QED
    BY <1>2, <1>3, <1>4

LEMMA SettledType ==
  ASSUME NEW row \in RunRows
  PROVE  Settled(row) \in RunRows
  <1>1. "cancelled" \in JobStatuses
    BY DEF JobStatuses, Terminal
  <1> QED
    BY <1>1, EndingType DEF Settled, RunRows

LEMMA NewRunType ==
  ASSUME NEW d \in Domains, NEW targets \in SUBSET Pages
  PROVE  NewRun(d, targets) \in RunRows /\ DeletedRun \in RunRows
  BY DEF NewRun, DeletedRun, NoRun, RunRows, JobStatuses, Active, Terminal

\* Counts of observations are numbers.
LEMMA CountTypes ==
  ASSUME NEW r \in Runs, NEW S
  PROVE  InState(r, S) \in Nat /\ Failures(r) \in Nat
  <1>1. \A T : Cardinality({p \in Pages : obs[r][p].state \in T}) \in Nat
    BY CollectionAssumption, FS_Subset, FS_CardinalityType
  <1> QED
    BY <1>1 DEF InState, Failures

\* What the actions do to an executor and to an observation.
LEMMA RestingType == Resting \in Executors
  BY DEF Resting, Executors, Phases

LEMMA GotoType ==
  ASSUME exec \in [Runs -> Executors], NEW r \in Runs, NEW phase \in Phases, Goto(r, phase)
  PROVE  exec' \in [Runs -> Executors]
  <1>1. [exec[r] EXCEPT !.at = phase] \in Executors
    BY DEF Executors
  <1>2. exec' = [exec EXCEPT ![r] = [exec[r] EXCEPT !.at = phase]]
    BY DEF Goto
  <1> QED
    BY <1>1, <1>2, Changed

LEMMA StateType ==
  ASSUME obs \in [Runs -> [Pages -> Observations]], NEW r \in Runs, NEW p, NEW st \in ObsStates,
         obs' = [obs EXCEPT ![r][p].state = st]
  PROVE  obs' \in [Runs -> [Pages -> Observations]]
  <1> DEFINE os == [obs[r] EXCEPT ![p].state = st]
  <1>0. obs[r] \in [Pages -> Observations]
    OBVIOUS
  <1>1. os \in [Pages -> Observations]
    <2>1. CASE p \in Pages
      <3>1. obs[r][p] \in Observations
        BY <1>0, <2>1
      <3>2. [obs[r][p] EXCEPT !.state = st] \in Observations
        BY <3>1 DEF Observations
      <3> QED
        BY <1>0, <3>2, Changed
    <2>2. CASE p \notin Pages
      BY <1>0, <2>2
    <2> QED
      BY <2>1, <2>2
  <1>2. obs' = [obs EXCEPT ![r] = os]
    OBVIOUS
  <1> QED
    BY <1>1, <1>2, Changed

LEMMA ObserveTypes ==
  ASSUME obs \in [Runs -> [Pages -> Observations]], exec \in [Runs -> Executors],
         NEW r \in Runs, NEW st \in ObsStates, NEW x \in Payloads \cup {NoPayload}, NEW n \in Nat,
         Observe(r, st, x, n)
  PROVE  obs' \in [Runs -> [Pages -> Observations]] /\ exec' \in [Runs -> Executors]
  <1>1. [state |-> st, payload |-> x] \in Observations
    BY DEF Observations
  <1>2. [at |-> "counting", todo |-> exec[r].todo, payload |-> NoPayload, streak |-> n] \in Executors
    BY DEF Executors, Phases
  <1> DEFINE os == [obs[r] EXCEPT ![Visiting(r)] = [state |-> st, payload |-> x]]
  <1>3. os \in [Pages -> Observations]
    BY <1>1, Changed
  <1>4. obs' = [obs EXCEPT ![r] = os]
    BY DEF Observe
  <1> QED
    BY <1>2, <1>3, <1>4, Changed DEF Observe

LEMMA SpentTypes ==
  ASSUME spent \in [requests: 0 .. MaxRequests, faults: 0 .. MaxFaults], Ask \/ Fault
  PROVE  spent' \in [requests: 0 .. MaxRequests, faults: 0 .. MaxFaults]
  BY CollectionAssumption DEF Ask, Fault

\* Each step of an executor, and each mishap, keeps the types.
LEMMA ExecuteTypes ==
  ASSUME RunsTypeOK, RunsInv, NEW r \in Runs, Execute(r) \/ Mishap(r)
  PROVE  RunsTypeOK'
  <1> USE RunsTypes, RunsTypesNext
  <1>a. run[r] \in RunRows /\ exec[r] \in Executors /\ obs[r] \in [Pages -> Observations]
    OBVIOUS
  <1>b. {"queued", "running", "completed", "failed", "cancelled", "interrupted"} \subseteq JobStatuses
    BY DEF JobStatuses, Active, Terminal
  <1>c. {"none", "ready", "failed", "capturing", "skipped", "cancelled", "interrupted"} \subseteq ObsStates
    BY DEF ObsStates, RenderStates
  <1>1. CASE Claim(r)
    <2>1. run' = [run EXCEPT ![r] = [run[r] EXCEPT !.job = "running"]]
      BY <1>1 DEF Claim
    <2>2. run' \in [Runs -> RunRows]
      BY <2>1, <1>a, <1>b, RowStatus, Changed
    <2>3. exec' \in [Runs -> Executors]
      BY <1>1, GotoType DEF Claim, Phases
    <2> QED
      BY <1>1, <2>2, <2>3 DEF Claim
  <1>2. CASE Begin(r)
    <2>1. CASE run[r].status \in Returned(run[r].domain)
      <3>1. exec' \in [Runs -> Executors]
        BY <1>2, <2>1, GotoType DEF Begin, Phases
      <3> QED
        BY <1>2, <2>1, <3>1 DEF Begin
    <2>2. CASE run[r].status \notin Returned(run[r].domain)
      <3>1. run' = [run EXCEPT ![r] = [run[r] EXCEPT !.status = "running"]]
        BY <1>2, <2>2 DEF Begin
      <3>2. run' \in [Runs -> RunRows]
        BY <3>1, <1>a, <1>b, RowStatus, Changed
      <3>3. exec' = [exec EXCEPT ![r] = [exec[r] EXCEPT !.at = "next", !.todo = run[r].targets]]
        BY <1>2, <2>2 DEF Begin
      <3>4. [exec[r] EXCEPT !.at = "next", !.todo = run[r].targets] \in Executors
        BY <1>a DEF Executors, RunRows, Phases
      <3> QED
        BY <1>2, <2>2, <3>2, <3>3, <3>4, Changed DEF Begin
    <2> QED
      BY <2>1, <2>2
  <1>3. CASE CheckCancel(r)
    <2>1. exec' \in [Runs -> Executors]
      BY <1>3, GotoType DEF CheckCancel, Phases
    <2>2. late' \in [Runs -> Nat]
      BY <1>3 DEF CheckCancel
    <2> QED
      BY <1>3, <2>1, <2>2 DEF CheckCancel
  <1>4. CASE Open(r)
    <2>1. exec' \in [Runs -> Executors]
      BY <1>4, GotoType DEF Open, Phases
    <2>2. late' \in [Runs -> Nat]
      BY <1>4 DEF Open
    <2>3. obs' \in [Runs -> [Pages -> Observations]]
      BY <1>4, <1>c, StateType DEF Open
    <2> QED
      BY <1>4, <2>1, <2>2, <2>3 DEF Open
  <1>5. CASE Attempt(r)
    <2>1. exec' \in [Runs -> Executors]
      BY <1>5, GotoType DEF Attempt, Phases
    <2>0. run[r].attempted + 1 \in Nat
      BY <1>a DEF RunRows
    <2>2. [run[r] EXCEPT !.attempted = @ + 1] \in RunRows
      BY <1>a, <2>0 DEF RunRows
    <2>3. run' = [run EXCEPT ![r] = [run[r] EXCEPT !.attempted = @ + 1]]
      BY <1>5 DEF Attempt
    <2>4. run' \in [Runs -> RunRows]
      BY <2>2, <2>3, Changed
    <2> QED
      BY <1>5, <2>1, <2>4 DEF Attempt
  <1>6. CASE Skip(r)
    <2>1. exec' \in [Runs -> Executors]
      BY <1>6, GotoType DEF Skip, Phases
    <2>2. obs' \in [Runs -> [Pages -> Observations]]
      BY <1>6, <1>c, StateType DEF Skip
    <2> QED
      BY <1>6, <2>1, <2>2 DEF Skip
  <1>7. CASE Persist(r)
    <2>1. exec[r].payload \in Payloads
      BY <1>7 DEF Persist, RunsInv
    <2>2. obs' \in [Runs -> [Pages -> Observations]] /\ exec' \in [Runs -> Executors]
      BY <1>7, <2>1, <1>c, ObserveTypes DEF Persist
    <2>3. rows' \in [Domains -> SUBSET Payloads]
      BY <1>7, <2>1 DEF Persist
    <2> QED
      BY <1>7, <2>2, <2>3 DEF Persist
  <1>8. CASE PersistFailure(r)
    <2>1. exec[r].streak + 1 \in Nat
      BY <1>a DEF Executors
    <2>2. obs' \in [Runs -> [Pages -> Observations]] /\ exec' \in [Runs -> Executors]
      BY <1>8, <2>1, <1>c, ObserveTypes DEF PersistFailure
    <2> QED
      BY <1>8, <2>2 DEF PersistFailure
  <1>9. CASE CancelObservation(r)
    <2>1. exec' \in [Runs -> Executors]
      BY <1>9, GotoType DEF CancelObservation, Phases
    <2>2. obs' \in [Runs -> [Pages -> Observations]]
      BY <1>9, <1>c, StateType DEF CancelObservation
    <2> QED
      BY <1>9, <2>1, <2>2 DEF CancelObservation
  <1>10. CASE WaitCancelled(r)
    <2>1. exec' \in [Runs -> Executors]
      BY <1>10, GotoType DEF WaitCancelled, Phases
    <2> QED
      BY <1>10, <2>1 DEF WaitCancelled
  <1>11. CASE Count(r)
    <2> DEFINE row == [run[r] EXCEPT !.ready = InState(r, {"ready"}), !.failed = Failures(r),
                                     !.skipped = InState(r, {"skipped"})]
               e == [exec[r] EXCEPT !.at = "next", !.todo = @ \ {Visiting(r)}]
    <2>1. row \in RunRows
      BY <1>a, CountTypes DEF RunRows
    <2>2. e \in Executors
      BY <1>a DEF Executors, Phases
    <2>3. run' = [run EXCEPT ![r] = row] /\ exec' = [exec EXCEPT ![r] = e]
      BY <1>11 DEF Count
    <2> QED
      BY <1>11, <2>1, <2>2, <2>3, Changed DEF Count
  <1>12. CASE Stop(r)
    <2>1. run' = [run EXCEPT ![r] = [run[r] EXCEPT !.status = "cancelled"]]
      BY <1>12 DEF Stop
    <2>2. run' \in [Runs -> RunRows]
      BY <2>1, <1>a, <1>b, RowStatus, Changed
    <2>3. exec' \in [Runs -> Executors]
      BY <1>12, GotoType DEF Stop, Phases
    <2> QED
      BY <1>12, <2>2, <2>3 DEF Stop
  <1>13. CASE Finish(r)
    <2>1. run' = [run EXCEPT ![r] = [run[r] EXCEPT !.status = Ending(run[r])]]
      BY <1>13 DEF Finish
    <2>2. run' \in [Runs -> RunRows]
      <3>1. [run[r] EXCEPT !.status = Ending(run[r])] \in RunRows
        BY <1>a, EndingType, RowStatus
      <3> QED
        BY <2>1, <3>1, Changed
    <2>3. exec' \in [Runs -> Executors]
      BY <1>13, GotoType DEF Finish, Phases
    <2> QED
      BY <1>13, <2>2, <2>3 DEF Finish
  <1>14. CASE Settle(r)
    BY <1>14, <1>a, SettledType, RestingType, Changed DEF Settle
  <1>15. CASE LoseLease(r)
    BY <1>15, RestingType, Changed DEF LoseLease
  <1>16. CASE Fail(r)
    <2>1. run' = [run EXCEPT ![r] = [run[r] EXCEPT !.job = "failed", !.status = "failed"]]
      BY <1>16 DEF Fail
    <2>2. run' \in [Runs -> RunRows]
      BY <2>1, <1>a, <1>b, RowStatus, Changed
    <2>3. exec' \in [Runs -> Executors]
      BY <1>16, RestingType, Changed DEF Fail
    <2> QED
      BY <1>16, <2>2, <2>3, SpentTypes DEF Fail
  <1>17. CASE Crash(r)
    <2>1. exec' \in [Runs -> Executors]
      BY <1>17, RestingType, Changed DEF Crash
    <2> QED
      BY <1>17, <2>1, SpentTypes DEF Crash
  <1>18. CASE Recover(r)
    <2>1. spent' \in [requests: 0 .. MaxRequests, faults: 0 .. MaxFaults]
      BY <1>18, SpentTypes DEF Recover
    <2>2. CASE run[r].status \in Terminal
      <3>1. run[r].status \in JobStatuses
        BY <2>2 DEF JobStatuses
      <3>2. run' = [run EXCEPT ![r] = [run[r] EXCEPT !.job = run[r].status]]
        BY <1>18, <2>2 DEF Recover
      <3>3. run' \in [Runs -> RunRows]
        <4>1. [run[r] EXCEPT !.job = run[r].status] \in RunRows
          BY <1>a, <3>1, RowStatus
        <4> QED
          BY <3>2, <4>1, Changed
      <3> QED
        BY <1>18, <2>1, <2>2, <3>3 DEF Recover
    <2>3. CASE run[r].status \notin Terminal
      <3> DEFINE row == [run[r] EXCEPT !.job = "interrupted", !.status = InterruptedStatus(run[r].domain)]
                 os == [p \in Pages |-> IF obs[r][p].state = "capturing"
                                        THEN [obs[r][p] EXCEPT !.state = "interrupted"] ELSE obs[r][p]]
      <3>1. row \in RunRows
        BY <1>a, <1>b, RowStatus DEF InterruptedStatus
      <3>2. os \in [Pages -> Observations]
        BY <1>a, <1>c DEF Observations
      <3>3. run' = [run EXCEPT ![r] = row] /\ obs' = [obs EXCEPT ![r] = os]
        BY <1>18, <2>3 DEF Recover
      <3> QED
        BY <1>18, <2>1, <3>1, <3>2, <3>3, Changed DEF Recover
    <2> QED
      BY <2>2, <2>3
  <1> QED
    BY <1>1, <1>2, <1>3, <1>4, <1>5, <1>6, <1>7, <1>8, <1>9, <1>10, <1>11, <1>12, <1>13, <1>14, <1>15,
       <1>16, <1>17, <1>18 DEF Execute, Mishap

\* Requests that create or cancel a run.
LEMMA CreateTypes ==
  ASSUME RunsTypeOK, NEW d \in Domains, NEW targets \in SUBSET Pages, CreateRun(d, targets)
  PROVE  RunsTypeOK'
  <1> USE RunsTypes
  <1>1. PICK q \in Runs : run' = [run EXCEPT ![q] = NewRun(d, targets)]
    BY DEF CreateRun
  <1>2. run' \in [Runs -> RunRows]
    BY <1>1, NewRunType, Changed
  <1>3. spent' \in [requests: 0 .. MaxRequests, faults: 0 .. MaxFaults]
    BY SpentTypes DEF CreateRun
  <1> QED
    BY <1>2, <1>3, RunsTypesNext DEF CreateRun

LEMMA RequestTypes ==
  ASSUME RunsTypeOK, Request
  PROVE  RunsTypeOK'
  <1> USE RunsTypes
  <1>0. "render" \in Domains /\ Selections \subseteq SUBSET Pages
    BY CollectionAssumption
  <1>1. ASSUME NEW d \in Domains, NEW targets \in Selections, CreateRun(d, targets)
        PROVE  RunsTypeOK'
    BY <1>0, <1>1, CreateTypes
  <1>2. ASSUME NEW source \in Runs, NEW targets \in Selections, CreateRerender(source, targets)
        PROVE  RunsTypeOK'
    BY <1>0, <1>2, CreateTypes DEF CreateRerender
  <1>3. ASSUME NEW targets \in Selections, CreateScanRenderRun(targets)
        PROVE  RunsTypeOK'
    BY <1>0, <1>3, CreateTypes DEF CreateScanRenderRun
  <1>4. ASSUME NEW r \in Runs, CancelRun(r)
        PROVE  RunsTypeOK'
    <2>1. CancelledRow(run[r]) \in RunRows
      BY CancelledRowType
    <2>2. run' = [run EXCEPT ![r] = CancelledRow(run[r])]
      BY <1>4 DEF CancelRun
    <2>3. run' \in [Runs -> RunRows]
      BY <2>1, <2>2, Changed
    <2>4. spent' \in [requests: 0 .. MaxRequests, faults: 0 .. MaxFaults]
      BY <1>4, SpentTypes DEF CancelRun
    <2> QED
      BY <1>4, <2>3, <2>4, RunsTypesNext DEF CancelRun
  <1> QED
    BY <1>1, <1>2, <1>3, <1>4 DEF Request

\* Plans.
PlanRows ==
  [domain: Domains \cup {"none"}, mode: Modes \cup {"none"}, batches: Seq(Runs \cup {Gone}),
   targets: SUBSET Pages, cancelled: BOOLEAN]

LEMMA PlansTypes == PlansTypeOK <=> plan \in [Plans -> PlanRows] /\ call.plan \in Plans \cup {0}
  BY DEF PlansTypeOK, PlanRows

LEMMA PlansTypesNext ==
  ASSUME plan' \in [Plans -> PlanRows], call'.plan \in Plans \cup {0}
  PROVE  PlansTypeOK'
  BY DEF PlansTypeOK, PlanRows

LEMMA BatchTypes ==
  ASSUME NEW d \in Domains, NEW mode
  PROVE  /\ Selection(d, mode) \in SUBSET Pages
         /\ BatchCount(Selection(d, mode), BatchSize[d]) \in Nat
  <1>1. Selection(d, mode) \in SUBSET Pages
    BY DEF Selection
  <1>2. Cardinality(Selection(d, mode)) \in Nat
    BY <1>1, CollectionAssumption, FS_Subset, FS_CardinalityType
  <1>3. BatchSize[d] \in Nat \ {0}
    BY PlanAssumption
  <1>4. \A a \in Nat : \A b \in Nat \ {0} : (a + b - 1) \div b \in Nat
    OBVIOUS
  <1> QED
    BY <1>1, <1>2, <1>3, <1>4 DEF BatchCount

LEMMA CreatePlanTypes ==
  ASSUME RunsTypeOK, PlansTypeOK, NEW i \in Plans, NEW d \in Domains, NEW mode \in Modes,
         CreatePlan(i, d, mode)
  PROVE  RunsTypeOK' /\ PlansTypeOK'
  <1> USE RunsTypes, PlansTypes
  <1> DEFINE S == Selection(d, mode)
             n == BatchCount(S, BatchSize[d])
  <1>1. S \in SUBSET Pages /\ n \in Nat
    BY BatchTypes
  <1>2. PICK f \in Fresh(n) :
          /\ plan' = [plan EXCEPT ![i] = [domain |-> d, mode |-> mode, batches |-> f,
                                          targets |-> S, cancelled |-> FALSE]]
          /\ run' = [r \in Runs |->
                       IF \E k \in 1 .. n : f[k] = r
                       THEN NewRun(d, Batch(CHOOSE k \in 1 .. n : f[k] = r, S, BatchSize[d]))
                       ELSE run[r]]
    BY DEF CreatePlan
  <1>3. f \in Seq(Runs \cup {Gone})
    <2>1. f \in [1 .. n -> Runs \cup {Gone}]
      BY DEF Fresh
    <2> HIDE DEF n
    <2> QED
      BY <1>1, <2>1, SeqDef
  <1>4. [domain |-> d, mode |-> mode, batches |-> f, targets |-> S, cancelled |-> FALSE] \in PlanRows
    BY <1>1, <1>3 DEF PlanRows
  <1>5. plan' \in [Plans -> PlanRows]
    BY <1>2, <1>4, Changed
  <1>6. \A k : Batch(k, S, BatchSize[d]) \in SUBSET Pages
    BY <1>1 DEF Batch
  <1>7. \A k : NewRun(d, Batch(k, S, BatchSize[d])) \in RunRows
    BY <1>6, NewRunType
  <1>8. run' \in [Runs -> RunRows]
    BY <1>2, <1>7
  <1>9. spent' \in [requests: 0 .. MaxRequests, faults: 0 .. MaxFaults]
    BY SpentTypes DEF CreatePlan
  <1>10. RunsTypeOK'
    BY <1>8, <1>9, RunsTypesNext DEF CreatePlan
  <1>11. PlansTypeOK'
    BY <1>5, PlansTypesNext DEF CreatePlan
  <1> QED
    BY <1>10, <1>11

LEMMA CancelPlanTypes ==
  ASSUME RunsTypeOK, PlansTypeOK, CancelPlanWrite \/ \E i \in Plans : CancelPlanRead(i)
  PROVE  RunsTypeOK' /\ PlansTypeOK'
  <1> USE RunsTypes, PlansTypes
  <1>1. CASE CancelPlanWrite
    <2>1. call'.plan = 0
      BY <1>1 DEF CancelPlanWrite, NoCall
    <2>2. \A r \in Runs : \A seen : CancelledAs(run[r], seen) \in RunRows
      BY CancelledAsType
    <2>3. run' \in [Runs -> RunRows]
      <3> DEFINE mine == plan[call.plan].batches
                 seen(r) == call.seen[CHOOSE k \in DOMAIN mine : mine[k] = r]
                 written == [r \in Runs |-> IF \E k \in DOMAIN mine : mine[k] = r
                                            THEN CancelledAs(run[r], seen(r)) ELSE run[r]]
      <3>1. run' = run \/ run' = written
        BY <1>1 DEF CancelPlanWrite
      <3>2. \A r \in Runs : CancelledAs(run[r], seen(r)) \in RunRows
        BY <2>2
      <3>3. written \in [Runs -> RunRows]
        BY <3>2
      <3> QED
        BY <3>1, <3>3
    <2>4. plan' \in [Plans -> PlanRows]
      <3>1. plan' = plan \/ plan' = [plan EXCEPT ![call.plan].cancelled = TRUE]
        BY <1>1 DEF CancelPlanWrite
      <3>2. \A q \in PlanRows : [q EXCEPT !.cancelled = TRUE] \in PlanRows
        BY DEF PlanRows
      <3> QED
        BY <3>1, <3>2
    <2> QED
      BY <1>1, <2>1, <2>3, <2>4, RunsTypesNext, PlansTypesNext DEF CancelPlanWrite
  <1>2. ASSUME NEW i \in Plans, CancelPlanRead(i)
        PROVE  RunsTypeOK' /\ PlansTypeOK'
    <2>1. call'.plan \in Plans \cup {0}
      BY <1>2 DEF CancelPlanRead
    <2>2. spent' \in [requests: 0 .. MaxRequests, faults: 0 .. MaxFaults]
      BY <1>2, SpentTypes DEF CancelPlanRead
    <2> QED
      BY <1>2, <2>1, <2>2, RunsTypesNext, PlansTypesNext DEF CancelPlanRead
  <1> QED
    BY <1>1, <1>2

\* Deletions.
Deletions ==
  [pc: {"idle", "guarded", "checked", "unlink"},
   kind: {"none", "observation", "run", "purge", "gc"}, domain: Domains \cup {"none"},
   runs: SUBSET Runs, seen: SUBSET Pages, blobs: SUBSET Payloads, files: SUBSET Payloads]

LEMMA DeletionTypes ==
  /\ TypeOK <=> RunsTypeOK /\ PlansTypeOK /\ del \in Deletions
                /\ raced \in SUBSET (Domains \X Payloads)
  /\ NoDeletion \in Deletions
  BY DEF TypeOK, Deletions, NoDeletion

LEMMA DeletionTypesNext ==
  ASSUME RunsTypeOK', PlansTypeOK', del' \in Deletions, raced' \in SUBSET (Domains \X Payloads)
  PROVE  TypeOK'
  BY DEF TypeOK, Deletions

\* Rows that a step leaves alone keep their types.
LEMMA SameRuns ==
  ASSUME RunsTypeOK, UNCHANGED <<run, obs, exec, late>>,
         rows' \in [Domains -> SUBSET Payloads], files' \in [Domains -> SUBSET Payloads],
         spent' \in [requests: 0 .. MaxRequests, faults: 0 .. MaxFaults]
  PROVE  RunsTypeOK'
  BY RunsTypes, RunsTypesNext

LEMMA SamePlans ==
  ASSUME PlansTypeOK, UNCHANGED planVars
  PROVE  PlansTypeOK'
  BY PlansTypes, PlansTypesNext DEF planVars

LEMMA SameTypes ==
  ASSUME TypeOK, UNCHANGED vars
  PROVE  TypeOK'
  BY DeletionTypes, DeletionTypesNext, SamePlans, SameRuns, RunsTypes DEF vars, runVars

\* What a deletion starts with.
LEMMA CheckedTypes ==
  ASSUME TypeOK, NEW kind \in {"observation", "run", "purge"}, NEW d \in Domains,
         NEW rs \in SUBSET Runs, NEW ps \in SUBSET Pages, NEW blobs \in SUBSET Payloads,
         Checked(kind, d, rs, ps, blobs)
  PROVE  TypeOK'
  <1>1. del' = [NoDeletion EXCEPT !.pc = "checked", !.kind = kind, !.domain = d, !.runs = rs,
                                  !.seen = ps, !.blobs = blobs]
    BY DEF Checked
  <1>2. del' \in Deletions
    BY <1>1 DEF Deletions, NoDeletion
  <1>3. spent' \in [requests: 0 .. MaxRequests, faults: 0 .. MaxFaults]
    BY RunsTypes, DeletionTypes, SpentTypes DEF Checked
  <1>4. RunsTypeOK'
    BY <1>3, RunsTypes, DeletionTypes, SameRuns DEF Checked
  <1> QED
    BY <1>2, <1>4, DeletionTypes, DeletionTypesNext, SamePlans DEF Checked

LEMMA ReferenceTypes ==
  ASSUME RunsTypeOK
  PROVE  /\ \A r \in Runs : PayloadsOf(r) \in SUBSET Payloads
         /\ \A r \in Runs, p \in Pages : {obs[r][p].payload} \ {NoPayload} \in SUBSET Payloads
         /\ \A d : References(d) \in SUBSET Payloads
  <1>1. \A r \in Runs, p \in Pages : obs[r][p].payload \in Payloads \cup {NoPayload}
    BY RunsTypes DEF Observations
  <1> QED
    BY <1>1 DEF PayloadsOf, References

LEMMA DomainTypes ==
  ASSUME TypeOK
  PROVE  /\ "none" \notin Domains /\ "render" \in Domains
         /\ \A r \in Runs : run[r].domain # "none" => run[r].domain \in Domains
         /\ \A r \in Runs : Deletable(r) \/ DeletableRender(r) => run[r].domain \in Domains
  <1>1. "none" \notin Domains /\ "render" \in Domains
    BY CollectionAssumption
  <1>2. \A r \in Runs : run[r].domain # "none" => run[r].domain \in Domains
    BY RunsTypes, DeletionTypes DEF RunRows
  <1> QED
    BY <1>1, <1>2 DEF Deletable, DeletableRender

LEMMA CheckTypes ==
  ASSUME TypeOK,
         \/ \E r \in Runs, p \in Pages : DeleteObservation(r, p) \/ DeleteTarget(r, p)
         \/ \E r \in Runs : DeleteRun(r) \/ DeleteRenderRun(r)
         \/ \E d \in Domains : Purge(d)
         \/ PurgeRenders
  PROVE  TypeOK'
  <1>0. RunsTypeOK
    BY DeletionTypes
  <1>1. ASSUME NEW r \in Runs, NEW p \in Pages, DeleteObservation(r, p) \/ DeleteTarget(r, p)
        PROVE  TypeOK'
    <2>1. run[r].domain \in Domains
      BY <1>1, DomainTypes DEF DeleteObservation, DeleteTarget
    <2>2. Checked("observation", run[r].domain, {r}, {p}, {obs[r][p].payload} \ {NoPayload})
      BY <1>1 DEF DeleteObservation, DeleteTarget, CheckedObservation
    <2>3. {r} \in SUBSET Runs /\ {p} \in SUBSET Pages
      OBVIOUS
    <2> QED
      BY <1>0, <2>1, <2>2, <2>3, ReferenceTypes, CheckedTypes
  <1>2. ASSUME NEW r \in Runs, DeleteRun(r) \/ DeleteRenderRun(r)
        PROVE  TypeOK'
    <2>1. run[r].domain \in Domains
      BY <1>2, DomainTypes DEF DeleteRun, DeleteRenderRun
    <2>2. Checked("run", run[r].domain, {r}, {}, PayloadsOf(r))
      BY <1>2 DEF DeleteRun, DeleteRenderRun, CheckedRun
    <2>3. {r} \in SUBSET Runs /\ {} \in SUBSET Pages
      OBVIOUS
    <2> QED
      BY <1>0, <2>1, <2>2, <2>3, ReferenceTypes, CheckedTypes
  <1>3. ASSUME NEW d \in Domains, CheckedPurge(d)
        PROVE  TypeOK'
    BY <1>0, <1>3, ReferenceTypes, CheckedTypes DEF CheckedPurge
  <1> QED
    BY <1>1, <1>2, <1>3, DomainTypes DEF Purge, PurgeRenders

LEMMA DeleteRowsTypes ==
  ASSUME TypeOK, DeletionInv, DeleteRows
  PROVE  TypeOK'
  <1> DEFINE kept == [r \in Runs |-> KeptObs(r)]
  <1> USE RunsTypes, PlansTypes, DeletionTypes
  <1>1. obs' \in [Runs -> [Pages -> Observations]]
    <2>1. Unobserved \in Observations
      BY DEF Unobserved, Observations, ObsStates
    <2>2. \A r \in Runs : KeptObs(r) \in [Pages -> Observations]
      BY <2>1 DEF KeptObs
    <2> QED
      BY <2>2 DEF DeleteRows
  <1>2. Orphaned(kept) \in SUBSET Payloads
    BY DEF Orphaned, Deletions
  <1>3. rows' \in [Domains -> SUBSET Payloads]
    <2>1. rows' = [rows EXCEPT ![del.domain] = @ \ Orphaned(kept)]
      BY DEF DeleteRows
    <2>2. del.domain \in Domains
      BY DEF DeletionInv, DeleteRows
    <2> QED
      BY <2>1, <2>2
  <1>4. del' \in Deletions
    <2>1. del' = [del EXCEPT !.pc = "unlink", !.files = Orphaned(kept)]
      BY DEF DeleteRows
    <2> QED
      BY <1>2, <2>1 DEF Deletions
  <1>5. run' \in [Runs -> RunRows]
    <2>1. DeletedRun \in RunRows
      BY DEF DeletedRun, NoRun, RunRows
    <2> QED
      BY <2>1 DEF DeleteRows
  <1>6. late' \in [Runs -> Nat]
    BY DEF DeleteRows
  <1>7. plan' \in [Plans -> PlanRows]
    <2>1. ASSUME NEW i \in Plans
          PROVE  [plan[i] EXCEPT !.batches =
                    [k \in DOMAIN @ |-> IF @[k] \in Doomed THEN Gone ELSE @[k]]] \in PlanRows
      <3> DEFINE b == plan[i].batches
                 c == [k \in DOMAIN b |-> IF b[k] \in Doomed THEN Gone ELSE b[k]]
      <3>1. plan[i] \in PlanRows /\ b \in Seq(Runs \cup {Gone})
        BY <2>1 DEF PlanRows
      <3>2. PICK n \in Nat : b \in [1 .. n -> Runs \cup {Gone}]
        BY <3>1, SeqDef
      <3>3. c \in [1 .. n -> Runs \cup {Gone}]
        BY <3>2
      <3>4. c \in Seq(Runs \cup {Gone})
        BY <3>3, SeqDef
      <3> HIDE DEF c
      <3>5. [plan[i] EXCEPT !.batches = c] \in PlanRows
        BY <3>1, <3>4 DEF PlanRows
      <3> QED
        BY <3>5 DEF c
    <2> QED
      BY <2>1 DEF DeleteRows
  <1>8. RunsTypeOK'
    BY <1>1, <1>3, <1>5, <1>6, RunsTypesNext DEF DeleteRows
  <1>9. PlansTypeOK'
    BY <1>7, PlansTypesNext DEF DeleteRows
  <1> QED
    BY <1>4, <1>8, <1>9, DeletionTypesNext DEF DeleteRows

LEMMA CollectTypes ==
  ASSUME TypeOK, DeletionInv,
         \/ \E d \in Domains : Collect(d)
         \/ CollectRead \/ CollectSweep \/ Unlink \/ CrashDeleting
  PROVE  TypeOK'
  <1> USE RunsTypes, DeletionTypes
  <1>1. ASSUME NEW d \in Domains, Collect(d)
        PROVE  TypeOK'
    <2>1. del' = [NoDeletion EXCEPT !.pc = "guarded", !.kind = "gc", !.domain = d]
      BY <1>1 DEF Collect
    <2>2. del' \in Deletions
      BY <2>1 DEF Deletions, NoDeletion
    <2>3. RunsTypeOK'
      BY <1>1, SpentTypes, SameRuns DEF Collect
    <2> QED
      BY <1>1, <2>2, <2>3, SamePlans, DeletionTypesNext DEF Collect
  <1>2. CASE CollectRead
    <2>1. del.domain \in Domains
      BY <1>2 DEF CollectRead, DeletionInv
    <2>2. rows[del.domain] \in SUBSET Payloads
      BY <2>1
    <2>3. del' = [del EXCEPT !.pc = "checked", !.blobs = rows[del.domain] \ References(del.domain),
                             !.files = rows[del.domain]]
      BY <1>2 DEF CollectRead
    <2>4. del' \in Deletions
      BY <2>2, <2>3 DEF Deletions
    <2>5. RunsTypeOK'
      BY <1>2, SameRuns DEF CollectRead, runVars
    <2> QED
      BY <1>2, <2>4, <2>5, SamePlans, DeletionTypesNext DEF CollectRead
  <1>3. CASE CollectSweep
    <2>1. del.domain \in Domains
      BY <1>3 DEF CollectSweep, DeletionInv
    <2>2. rows' \in [Domains -> SUBSET Payloads]
      BY <1>3, <2>1 DEF CollectSweep
    <2>3. del' \in Deletions
      <3>1. \/ del' = NoDeletion
            \/ del' = [del EXCEPT !.pc = "unlink",
                                  !.files = del.blobs \cup (files[del.domain] \ del.files)]
        BY <1>3 DEF CollectSweep
      <3>2. del.blobs \cup (files[del.domain] \ del.files) \in SUBSET Payloads
        BY <2>1 DEF Deletions
      <3> QED
        BY <3>1, <3>2 DEF Deletions
    <2>4. RunsTypeOK'
      BY <1>3, <2>2, SameRuns DEF CollectSweep
    <2> QED
      BY <1>3, <2>3, <2>4, SamePlans, DeletionTypesNext DEF CollectSweep
  <1>4. CASE Unlink
    <2>1. del.domain \in Domains
      BY <1>4 DEF Unlink, DeletionInv
    <2>2. files' \in [Domains -> SUBSET Payloads]
      BY <1>4, <2>1 DEF Unlink
    <2>3. RunsTypeOK'
      BY <1>4, <2>2, SameRuns DEF Unlink
    <2> QED
      BY <1>4, <2>3, SamePlans, DeletionTypesNext DEF Unlink
  <1>5. CASE CrashDeleting
    <2>1. RunsTypeOK'
      BY <1>5, SpentTypes, SameRuns DEF CrashDeleting
    <2> QED
      BY <1>5, <2>1, SamePlans, DeletionTypesNext DEF CrashDeleting
  <1> QED
    BY <1>1, <1>2, <1>3, <1>4, <1>5

LEMMA StoreTypes ==
  ASSUME TypeOK, RunsInv, NEW r \in Runs, StoreNext(r)
  PROVE  TypeOK'
  <1> USE RunsTypes, DeletionTypes
  <1>1. run[r].domain \in Domains
    BY DEF StoreNext, Store, Owns, RunsInv, ActiveJob, Active
  <1>2. PICK x \in Payloads :
          /\ exec' = [exec EXCEPT ![r].at = "stored", ![r].payload = x]
          /\ files' = IF x \in rows[run[r].domain] THEN files
                      ELSE [files EXCEPT ![run[r].domain] = @ \cup {x}]
    BY DEF StoreNext, Store
  <1>3. exec' = [exec EXCEPT ![r] = [exec[r] EXCEPT !.at = "stored", !.payload = x]]
    BY <1>2
  <1>4. [exec[r] EXCEPT !.at = "stored", !.payload = x] \in Executors
    BY DEF Executors, Phases
  <1>5. exec' \in [Runs -> Executors] /\ exec'[r].payload = x
    <2>1. exec' \in [Runs -> Executors]
      BY <1>3, <1>4, Changed
    <2>2. exec'[r].payload = x
      BY <1>3 DEF Executors
    <2> QED
      BY <2>1, <2>2
  <1>6. files' \in [Domains -> SUBSET Payloads]
    BY <1>1, <1>2
  <1>7. RunsTypeOK'
    BY <1>5, <1>6, RunsTypesNext DEF StoreNext, Store
  <1>8. raced' \in SUBSET (Domains \X Payloads)
    BY <1>1, <1>5 DEF StoreNext
  <1> QED
    BY <1>7, <1>8, SamePlans, DeletionTypesNext DEF StoreNext

\* Every step keeps the types.
LEMMA NextTypes ==
  ASSUME TypeOK, RunsInv, DeletionInv, Next
  PROVE  TypeOK'
  <1> USE DeletionTypes
  <1>1. CASE RunsNext /\ UNCHANGED <<planVars, del, raced>>
    <2>1. RunsTypeOK'
      BY <1>1, RequestTypes, ExecuteTypes DEF RunsNext
    <2> QED
      BY <1>1, <2>1, SamePlans, DeletionTypesNext
  <1>2. CASE \E r \in Runs : StoreNext(r)
    BY <1>2, StoreTypes
  <1>3. CASE PlansNext /\ UNCHANGED <<del, raced>>
    <2>1. RunsTypeOK' /\ PlansTypeOK'
      BY <1>3, CreatePlanTypes, CancelPlanTypes DEF PlansNext
    <2> QED
      BY <1>3, <2>1, DeletionTypesNext
  <1>4. CASE DeletionNext
    BY <1>4, CheckTypes, CollectTypes, DeleteRowsTypes DEF DeletionNext
  <1> QED
    BY <1>1, <1>2, <1>3, <1>4 DEF Next

-----------------------------------------------------------------------------
(* The invariant.                                                          *)

\* What a step does to a run when it neither stores nor persists a payload for it: nothing, or
\* it adds no reference, and frees or keeps what a deletion of another run looks at.
Harmless(r) ==
  \/ run'[r] = run[r] /\ exec'[r] = exec[r] /\ obs'[r] = obs[r] /\ late'[r] = late[r]
  \/ /\ exec'[r].at # "stored"
     /\ run'[r].domain = run[r].domain \/ \A p \in Pages : obs'[r][p].payload = NoPayload
     /\ run'[r].job \in Active => run'[r].domain \in Domains
     /\ run'[r].job = "none" => \A p \in Pages : obs'[r][p].payload = NoPayload
     /\ \A p \in Pages : obs'[r][p].payload \in {obs[r][p].payload, NoPayload}
     /\ run[r].status \in Terminal => \A p \in Pages : obs'[r][p] \in {obs[r][p], Unobserved}
     /\ exec'[r].at \in Working /\ run'[r].job = "running" => run'[r].status = "running"
     /\ late'[r] # 0 => late'[r] = 1 /\ run'[r].cancel /\ exec'[r].at # "picked"

Frozen ==
  \A r \in Runs : run[r].status \in Terminal =>
    \A p \in Pages : obs'[r][p] \in {obs[r][p], Unobserved}

LEMMA HarmlessRuns ==
  ASSUME RunsInv, LateInv, \A r \in Runs : Harmless(r)
  PROVE  RunsInv' /\ LateInv' /\ Frozen
  <1>1. ASSUME NEW r \in Runs
        PROVE  /\ ActiveJob(r)' => run'[r].domain \in Domains
               /\ run'[r].job = "none" => \A p \in Pages : obs'[r][p].payload = NoPayload
               /\ exec'[r].at = "stored" => run'[r].job = "running" /\ exec'[r].payload \in Payloads
               /\ exec'[r].at \in Working /\ run'[r].job = "running" => run'[r].status = "running"
    BY DEF Harmless, RunsInv, ActiveJob
  <1>2. ASSUME NEW r \in Runs
        PROVE  late'[r] <= 1 /\ (late'[r] # 0 => run'[r].cancel /\ exec'[r].at # "picked")
    <2>1. Harmless(r)
      OBVIOUS
    <2>2. CASE run'[r] = run[r] /\ exec'[r] = exec[r] /\ late'[r] = late[r]
      BY <2>2 DEF LateInv
    <2>3. CASE late'[r] # 0 => late'[r] = 1 /\ run'[r].cancel /\ exec'[r].at # "picked"
      BY <2>3
    <2> QED
      BY <2>1, <2>2, <2>3 DEF Harmless
  <1>3. Frozen
    BY DEF Frozen, Harmless
  <1> QED
    BY <1>1, <1>2, <1>3 DEF RunsInv, LateInv

\* References by run and page.
LEMMA Referenced ==
  /\ PayloadsKept <=>
       /\ \A r \in Runs, p \in Pages :
            run[r].domain \in Domains /\ obs[r][p].payload # NoPayload
              => obs[r][p].payload \in rows[run[r].domain]
       /\ \A d \in Domains : \A x : x \in rows[d] => x \in files[d] \/ <<d, x>> \in raced
  BY DEF PayloadsKept, References

LEMMA ReferencedNext ==
  ASSUME \A r \in Runs, p \in Pages :
           run'[r].domain \in Domains /\ obs'[r][p].payload # NoPayload
             => obs'[r][p].payload \in rows'[run'[r].domain],
         \A d \in Domains : \A x : x \in rows'[d] => x \in files'[d] \/ <<d, x>> \in raced'
  PROVE  PayloadsKept'
  BY DEF PayloadsKept, References

LEMMA HarmlessReferences ==
  ASSUME PayloadsKept, \A r \in Runs : Harmless(r), NEW r \in Runs, NEW p \in Pages,
         run'[r].domain \in Domains, obs'[r][p].payload # NoPayload
  PROVE  /\ run'[r].domain = run[r].domain
         /\ obs'[r][p].payload = obs[r][p].payload
         /\ obs'[r][p].payload \in rows[run[r].domain]
  <1>1. run'[r].domain = run[r].domain /\ obs'[r][p].payload = obs[r][p].payload
    BY DEF Harmless
  <1> QED
    BY <1>1, Referenced

\* A harmless step next to no deletion step keeps the payloads.
LEMMA HarmlessPayloads ==
  ASSUME DeletionInv, PayloadsKept, \A r \in Runs : Harmless(r), UNCHANGED <<rows, files, del, raced>>
  PROVE  DeletionInv' /\ PayloadsKept'
  <1>1. PayloadsKept'
    BY HarmlessReferences, Referenced, ReferencedNext
  <1>2. ASSUME NEW r \in Runs, exec'[r].at = "stored"
        PROVE  run'[r] = run[r] /\ exec'[r] = exec[r]
    BY <1>2 DEF Harmless
  <1>3. DeletionInv'
    BY <1>2 DEF DeletionInv
  <1> QED
    BY <1>1, <1>3

\* A step of the executor of a run, or a mishap of it, changes that run only.
LEMMA Elsewhere ==
  ASSUME RunsTypeOK, NEW r \in Runs, Execute(r) \/ Mishap(r), NEW s \in Runs, s # r
  PROVE  run'[s] = run[s] /\ exec'[s] = exec[s] /\ obs'[s] = obs[s] /\ late'[s] = late[s]
  <1> USE RunsTypes
  <1>1. CASE Claim(r)
    BY <1>1 DEF Claim, Goto
  <1>2. CASE Begin(r)
    BY <1>2 DEF Begin, Goto
  <1>3. CASE CheckCancel(r)
    BY <1>3 DEF CheckCancel, Goto
  <1>4. CASE Open(r)
    BY <1>4 DEF Open, Goto
  <1>5. CASE Attempt(r)
    BY <1>5 DEF Attempt, Goto
  <1>6. CASE Skip(r)
    BY <1>6 DEF Skip, Goto
  <1>7. CASE Persist(r)
    BY <1>7 DEF Persist, Observe
  <1>8. CASE PersistFailure(r)
    BY <1>8 DEF PersistFailure, Observe
  <1>9. CASE CancelObservation(r)
    BY <1>9 DEF CancelObservation, Goto
  <1>10. CASE WaitCancelled(r)
    BY <1>10 DEF WaitCancelled, Goto
  <1>11. CASE Count(r)
    BY <1>11 DEF Count
  <1>12. CASE Stop(r)
    BY <1>12 DEF Stop, Goto
  <1>13. CASE Finish(r)
    BY <1>13 DEF Finish, Goto
  <1>14. CASE Settle(r)
    BY <1>14 DEF Settle
  <1>15. CASE LoseLease(r)
    BY <1>15 DEF LoseLease
  <1>16. CASE Fail(r)
    BY <1>16 DEF Fail
  <1>17. CASE Crash(r)
    BY <1>17 DEF Crash
  <1>18. CASE Recover(r)
    BY <1>18 DEF Recover
  <1> QED
    BY <1>1, <1>2, <1>3, <1>4, <1>5, <1>6, <1>7, <1>8, <1>9, <1>10, <1>11, <1>12,
       <1>13, <1>14, <1>15, <1>16, <1>17, <1>18 DEF Execute, Mishap

LEMMA LateValue ==
  ASSUME RunsTypeOK, LateInv, NEW r \in Runs
  PROVE  late[r] # 0 => late[r] = 1 /\ run[r].cancel
  <1>1. late[r] \in Nat
    BY RunsTypes
  <1>2. late[r] <= 1 /\ (late[r] # 0 => run[r].cancel)
    BY DEF LateInv
  <1> QED
    BY <1>1, <1>2

\* What a step leaves to show when it keeps the observations of a run ...
LEMMA Quiet ==
  ASSUME RunsTypeOK, RunsInv, LateInv, NEW r \in Runs,
         obs'[r] = obs[r], late'[r] = late[r],
         exec'[r].at \notin {"stored", "picked"},
         run'[r].domain = run[r].domain, run'[r].cancel = run[r].cancel,
         run'[r].job \in Active => run[r].job \in Active,
         run'[r].job = "none" => run[r].job = "none",
         exec'[r].at \in Working /\ run'[r].job = "running" => run'[r].status = "running"
  PROVE  Harmless(r)
  <1>1. late'[r] # 0 => late'[r] = 1 /\ run'[r].cancel
    BY LateValue
  <1> QED
    BY <1>1 DEF Harmless, RunsInv, ActiveJob

\* ... and when its owner notes one.
LEMMA Noting ==
  ASSUME RunsTypeOK, RunsInv, NEW r \in Runs, run'[r] = run[r],
         run[r].job = "running", exec[r].at \in Working,
         exec'[r].at \in Working \ {"stored", "picked"},
         \A p \in Pages : obs'[r][p].payload \in {obs[r][p].payload, NoPayload},
         late'[r] # 0 => late'[r] = 1 /\ run[r].cancel
  PROVE  Harmless(r)
  <1>1. run[r].status = "running" /\ run[r].domain \in Domains
    BY DEF RunsInv, ActiveJob, Active
  <1> QED
    BY <1>1 DEF Harmless, Terminal

LEMMA StatePayload ==
  ASSUME obs \in [Runs -> [Pages -> Observations]], NEW r \in Runs, NEW p, NEW st,
         obs' = [obs EXCEPT ![r][p].state = st]
  PROVE  \A q \in Pages : obs'[r][q].payload \in {obs[r][q].payload, NoPayload}
  BY DEF Observations

LEMMA GotoAt ==
  ASSUME exec \in [Runs -> Executors], NEW r \in Runs, NEW phase, Goto(r, phase)
  PROVE  exec'[r].at = phase
  BY DEF Executors, Goto

LEMMA ExecuteHarmless ==
  ASSUME RunsTypeOK, RunsInv, LateInv, NEW r \in Runs, Execute(r) \/ Mishap(r), ~Persist(r)
  PROVE  Harmless(r)
  <1> USE RunsTypes
  <1>a. run[r] \in RunRows /\ exec[r] \in Executors /\ obs[r] \in [Pages -> Observations]
    OBVIOUS
  <1>b. late[r] # 0 => late[r] = 1 /\ run[r].cancel
    BY LateValue
  <1>c. exec[r].at \in Working /\ run[r].job = "running" => run[r].status = "running"
    BY DEF RunsInv
  <1>1. CASE Claim(r)
    <2>1. exec'[r].at = "start"
      BY <1>1, GotoAt DEF Claim
    <2>2. run'[r] = [run[r] EXCEPT !.job = "running"]
      BY <1>1 DEF Claim
    <2> QED
      BY <1>1, <1>a, <2>1, <2>2, Quiet DEF Claim, RunRows, Active, Working
  <1>2. CASE Begin(r)
    <2>1. CASE run[r].status \in Returned(run[r].domain)
      <3>1. exec'[r].at = "done"
        BY <1>2, <2>1, GotoAt DEF Begin
      <3> QED
        BY <1>2, <2>1, <3>1, Quiet DEF Begin, Working
    <2>2. CASE run[r].status \notin Returned(run[r].domain)
      <3>1. run'[r] = [run[r] EXCEPT !.status = "running"]
        BY <1>2, <2>2 DEF Begin
      <3>2. exec'[r].at = "next"
        BY <1>2, <2>2 DEF Begin, Executors
      <3> QED
        BY <1>2, <1>a, <3>1, <3>2, Quiet DEF Begin, RunRows
    <2> QED
      BY <2>1, <2>2
  <1>3. CASE CheckCancel(r)
    <2>1. CASE run[r].cancel
      <3>1. exec'[r].at = "stopping" /\ late'[r] = late[r]
        BY <1>3, <2>1, GotoAt DEF CheckCancel, SeesCancel
      <3> QED
        BY <1>3, <1>c, <3>1, Quiet DEF CheckCancel, Working
    <2>2. CASE ~run[r].cancel
      <3>1. exec'[r].at \in {"picked", "visit"} /\ late'[r] = late[r]
        BY <1>3, <2>2, GotoAt DEF CheckCancel, SeesCancel
      <3>2. late'[r] = 0
        BY <1>b, <2>2, <3>1
      <3>3. exec[r].at \in Working /\ exec'[r].at # "stored"
        BY <1>3, <3>1 DEF CheckCancel, Working
      <3> QED
        BY <1>3, <1>c, <3>2, <3>3 DEF CheckCancel, Harmless, RunsInv, ActiveJob
    <2> QED
      BY <2>1, <2>2
  <1>4. CASE Open(r)
    <2>1. exec'[r].at = "opened"
      BY <1>4, GotoAt DEF Open
    <2>2. late[r] = 0
      BY <1>4 DEF Open, LateInv
    <2>3. late'[r] = IF run[r].cancel THEN 1 ELSE 0
      BY <1>4, <2>2 DEF Open
    <2>4. \A p \in Pages : obs'[r][p].payload \in {obs[r][p].payload, NoPayload}
      BY <1>4, StatePayload DEF Open
    <2> QED
      BY <1>4, <2>1, <2>3, <2>4, Noting DEF Open, Owns, Working
  <1>5. CASE Attempt(r)
    <2>1. exec'[r].at = "visit"
      BY <1>5, GotoAt DEF Attempt
    <2>2. run'[r] = [run[r] EXCEPT !.attempted = @ + 1]
      BY <1>5 DEF Attempt
    <2>3. /\ run'[r].domain = run[r].domain /\ run'[r].cancel = run[r].cancel
          /\ run'[r].job = run[r].job /\ run'[r].status = run[r].status
      BY <1>a, <2>2 DEF RunRows
    <2> QED
      BY <1>5, <1>c, <2>1, <2>3, Quiet DEF Attempt, Working
  <1>6. CASE Skip(r)
    <2>1. exec'[r].at = "counting"
      BY <1>6, GotoAt DEF Skip
    <2>2. \A p \in Pages : obs'[r][p].payload \in {obs[r][p].payload, NoPayload}
      BY <1>6, StatePayload DEF Skip
    <2> QED
      BY <1>6, <1>b, <2>1, <2>2, Noting DEF Skip, Owns, Working
  <1>7. CASE PersistFailure(r)
    <2>1. PICK n : Observe(r, "failed", NoPayload, n)
      BY <1>7 DEF PersistFailure
    <2>2. exec'[r].at = "counting"
      BY <2>1 DEF Observe
    <2>3. \A p \in Pages : obs'[r][p].payload \in {obs[r][p].payload, NoPayload}
      BY <2>1 DEF Observe
    <2> QED
      BY <1>7, <1>b, <2>2, <2>3, Noting DEF PersistFailure, Owns, Working
  <1>8. CASE CancelObservation(r)
    <2>1. exec'[r].at = "stopping"
      BY <1>8, GotoAt DEF CancelObservation
    <2>2. \A p \in Pages : obs'[r][p].payload \in {obs[r][p].payload, NoPayload}
      BY <1>8, StatePayload DEF CancelObservation
    <2> QED
      BY <1>8, <1>b, <2>1, <2>2, Noting DEF CancelObservation, Owns, Working
  <1>9. CASE WaitCancelled(r)
    <2>1. exec'[r].at = "stopping"
      BY <1>9, GotoAt DEF WaitCancelled
    <2> QED
      BY <1>9, <1>c, <2>1, Quiet DEF WaitCancelled, Working
  <1>10. CASE Count(r)
    <2>1. exec'[r].at = "next"
      BY <1>10 DEF Count, Executors
    <2>2. run'[r] = [run[r] EXCEPT !.ready = InState(r, {"ready"}), !.failed = Failures(r),
                                   !.skipped = InState(r, {"skipped"})]
      BY <1>10 DEF Count
    <2>3. /\ run'[r].domain = run[r].domain /\ run'[r].cancel = run[r].cancel
          /\ run'[r].job = run[r].job /\ run'[r].status = run[r].status
      BY <1>a, <2>2 DEF RunRows
    <2> QED
      BY <1>10, <1>c, <2>1, <2>3, Quiet DEF Count, Working
  <1>11. CASE Stop(r) \/ Finish(r)
    <2>1. exec'[r].at = "done"
      BY <1>11, GotoAt DEF Stop, Finish
    <2>2. PICK st : run'[r] = [run[r] EXCEPT !.status = st]
      BY <1>11 DEF Stop, Finish
    <2>3. /\ run'[r].domain = run[r].domain /\ run'[r].cancel = run[r].cancel
          /\ run'[r].job = run[r].job
      BY <1>a, <2>2 DEF RunRows
    <2> QED
      BY <1>11, <2>1, <2>3, Quiet DEF Stop, Finish, Working
  <1>12. CASE Settle(r)
    <2>1. exec'[r].at = "idle"
      BY <1>12 DEF Settle, Resting
    <2>2. run'[r] = Settled(run[r])
      BY <1>12 DEF Settle
    <2>3. /\ run'[r].domain = run[r].domain /\ run'[r].cancel = run[r].cancel
          /\ run'[r].job \in {"cancelled", "completed", "completed_with_errors"}
      BY <1>a, <2>2 DEF RunRows, Settled, Ending
    <2> QED
      BY <1>12, <2>1, <2>3, Quiet DEF Settle, Working, Active
  <1>13. CASE LoseLease(r) \/ Crash(r)
    <2>1. exec'[r].at = "idle"
      BY <1>13 DEF LoseLease, Crash, Resting
    <2> QED
      BY <1>13, <2>1, Quiet DEF LoseLease, Crash, Working
  <1>14. CASE Fail(r)
    <2>1. exec'[r].at = "idle"
      BY <1>14 DEF Fail, Resting
    <2>2. run'[r] = [run[r] EXCEPT !.job = "failed", !.status = "failed"]
      BY <1>14 DEF Fail
    <2>3. /\ run'[r].domain = run[r].domain /\ run'[r].cancel = run[r].cancel
          /\ run'[r].job = "failed"
      BY <1>a, <2>2 DEF RunRows
    <2> QED
      BY <1>14, <2>1, <2>3, Quiet DEF Fail, Working, Active
  <1>15. CASE Recover(r)
    <2>1. exec'[r] = exec[r] /\ exec[r].at # "stored" /\ late'[r] = late[r]
      BY <1>15 DEF Recover, Unlocked
    <2>2. late'[r] # 0 => exec[r].at # "picked"
      BY <2>1 DEF LateInv
    <2>3. CASE run[r].status \in Terminal
      <3>1. run'[r] = [run[r] EXCEPT !.job = run[r].status] /\ obs' = obs
        BY <1>15, <2>3 DEF Recover
      <3>2. run'[r].domain = run[r].domain /\ run'[r].cancel = run[r].cancel
            /\ run'[r].job = run[r].status
        BY <1>a, <3>1 DEF RunRows
      <3>3. run'[r].job \notin Active \cup {"none"}
        BY <2>3, <3>2 DEF Active, Terminal
      <3> QED
        BY <1>b, <2>1, <2>2, <3>1, <3>2, <3>3 DEF Harmless, Active
    <2>4. CASE run[r].status \notin Terminal
      <3> DEFINE os == [p \in Pages |-> IF obs[r][p].state = "capturing"
                                        THEN [obs[r][p] EXCEPT !.state = "interrupted"] ELSE obs[r][p]]
      <3>1. obs'[r] = os
        BY <1>15, <2>4 DEF Recover
      <3>2. run'[r] = [run[r] EXCEPT !.job = "interrupted", !.status = InterruptedStatus(run[r].domain)]
        BY <1>15, <2>4 DEF Recover
      <3>3. run'[r].domain = run[r].domain /\ run'[r].cancel = run[r].cancel
            /\ run'[r].job = "interrupted"
        BY <1>a, <3>2 DEF RunRows
      <3>4. \A p \in Pages : os[p].payload = obs[r][p].payload
        <4> TAKE p \in Pages
        <4>1. obs[r][p] \in Observations
          BY <1>a
        <4> QED
          BY <4>1 DEF Observations
      <3> HIDE DEF os
      <3> QED
        BY <1>b, <2>1, <2>2, <2>4, <3>1, <3>3, <3>4 DEF Harmless, Active
    <2> QED
      BY <2>3, <2>4
  <1> QED
    BY <1>1, <1>2, <1>3, <1>4, <1>5, <1>6, <1>7, <1>8, <1>9, <1>10, <1>11, <1>12, <1>13, <1>14, <1>15
       DEF Execute, Mishap

\* Requests find nobody between a file and its row.
LEMMA CreateHarmless ==
  ASSUME RunsTypeOK, RunsInv, LateInv, NEW d \in Domains, NEW targets, CreateRun(d, targets)
  PROVE  \A r \in Runs : Harmless(r)
  <1> USE RunsTypes
  <1>1. PICK q \in Runs : Unused(q) /\ run' = [run EXCEPT ![q] = NewRun(d, targets)]
    BY DEF CreateRun, NextRun
  <1>2. UNCHANGED <<obs, exec, late>> /\ exec[q].at # "stored"
    BY DEF CreateRun, Unlocked
  <1>3. run[q].job = "none" /\ run[q].cancel = FALSE /\ run[q].status = "none"
    BY <1>1 DEF Unused, NoRun
  <1>4. run'[q] = NewRun(d, targets)
    BY <1>1
  <1>5. run'[q].job = "queued" /\ run'[q].domain = d
    BY <1>4 DEF NewRun, NoRun
  <1>6. \A p \in Pages : obs[q][p].payload = NoPayload
    BY <1>3 DEF RunsInv
  <1>7. late[q] = 0
    BY <1>3 DEF LateInv
  <1>8. Harmless(q)
    BY <1>2, <1>3, <1>5, <1>6, <1>7 DEF Harmless
  <1>9. \A r \in Runs : r # q => Harmless(r)
    BY <1>1, <1>2 DEF Harmless
  <1> QED
    BY <1>8, <1>9

LEMMA CancelHarmless ==
  ASSUME RunsTypeOK, RunsInv, LateInv, NEW r \in Runs, Unlocked, UNCHANGED <<obs, exec, late>>,
         \/ run'[r] = run[r]
         \/ run'[r] = CancelledRow(run[r])
         \/ \E seen : run'[r] = CancelledAs(run[r], seen)
  PROVE  Harmless(r)
  <1>1. CASE run'[r] = run[r]
    BY <1>1 DEF Harmless
  <1>2. CASE run'[r] # run[r]
    <2>0. run[r] \in RunRows
      BY RunsTypes
    <2>1. /\ run'[r].domain = run[r].domain /\ (run[r].cancel => run'[r].cancel)
          /\ \/ run'[r].job = run[r].job /\ run'[r].status = run[r].status
             \/ run'[r].job = "cancelled"
      BY <1>2, <2>0 DEF RunRows, CancelledRow, CancelledAs
    <2>2. exec[r].at # "stored"
      BY DEF Unlocked
    <2>3. late'[r] # 0 => late'[r] = 1 /\ run'[r].cancel /\ exec'[r].at # "picked"
      BY <2>1, LateValue DEF LateInv
    <2>4. run'[r].job \in Active => run[r].job \in Active
      BY <2>1 DEF Active
    <2>5. run'[r].job = "none" => run[r].job = "none"
      BY <2>1
    <2>6. exec'[r].at \in Working /\ run'[r].job = "running" => run'[r].status = "running"
      BY <2>1 DEF RunsInv
    <2> QED
      BY <2>1, <2>2, <2>3, <2>4, <2>5, <2>6 DEF Harmless, RunsInv, ActiveJob
  <1> QED
    BY <1>1, <1>2

LEMMA RequestHarmless ==
  ASSUME RunsTypeOK, RunsInv, LateInv, Request
  PROVE  \A r \in Runs : Harmless(r)
  <1> USE RunsTypes
  <1>0. "render" \in Domains
    BY CollectionAssumption
  <1>1. ASSUME NEW d \in Domains, NEW targets \in Selections, CreateRun(d, targets)
        PROVE  \A r \in Runs : Harmless(r)
    BY <1>1, CreateHarmless
  <1>2. ASSUME NEW source \in Runs, NEW targets \in Selections, CreateRerender(source, targets)
        PROVE  \A r \in Runs : Harmless(r)
    BY <1>0, <1>2, CreateHarmless DEF CreateRerender
  <1>3. ASSUME NEW targets \in Selections, CreateScanRenderRun(targets)
        PROVE  \A r \in Runs : Harmless(r)
    BY <1>0, <1>3, CreateHarmless DEF CreateScanRenderRun
  <1>4. ASSUME NEW q \in Runs, CancelRun(q)
        PROVE  \A r \in Runs : Harmless(r)
    <2>1. Unlocked /\ UNCHANGED <<obs, exec, late>>
      BY <1>4 DEF CancelRun
    <2>2. \A r \in Runs : run'[r] = run[r] \/ run'[r] = CancelledRow(run[r])
      BY <1>4 DEF CancelRun
    <2> QED
      BY <2>1, <2>2, CancelHarmless
  <1> QED
    BY <1>1, <1>2, <1>3, <1>4 DEF Request

LEMMA PlansHarmless ==
  ASSUME RunsTypeOK, RunsInv, LateInv, PlansNext
  PROVE  \A r \in Runs : Harmless(r)
  <1> USE RunsTypes
  <1>1. ASSUME NEW i \in Plans, NEW d \in Domains, NEW mode \in Modes, CreatePlan(i, d, mode)
        PROVE  \A r \in Runs : Harmless(r)
    <2>1. Unlocked /\ UNCHANGED <<obs, exec, late>>
      BY <1>1 DEF CreatePlan
    <2> DEFINE n == BatchCount(Selection(d, mode), BatchSize[d])
    <2>2. PICK f \in Fresh(n) :
            run' = [r \in Runs |->
                     IF \E k \in 1 .. n : f[k] = r
                     THEN NewRun(d, Batch(CHOOSE k \in 1 .. n : f[k] = r, Selection(d, mode), BatchSize[d]))
                     ELSE run[r]]
      BY <1>1 DEF CreatePlan
    <2>3. ASSUME NEW r \in Runs, Unused(r), NEW targets, run'[r] = NewRun(d, targets)
          PROVE  Harmless(r)
      <3>1. run[r].job = "none" /\ run[r].cancel = FALSE /\ run[r].status = "none"
        BY <2>3 DEF Unused, NoRun
      <3>2. run'[r].job = "queued" /\ run'[r].domain = d
        BY <2>3 DEF NewRun, NoRun
      <3>3. (\A p \in Pages : obs[r][p].payload = NoPayload) /\ late[r] = 0
        BY <3>1 DEF RunsInv, LateInv
      <3>4. exec[r].at # "stored"
        BY <2>1 DEF Unlocked
      <3> QED
        BY <2>1, <3>1, <3>2, <3>3, <3>4 DEF Harmless
    <2>4. ASSUME NEW r \in Runs
          PROVE  Harmless(r)
      <3>1. CASE \E k \in 1 .. n : f[k] = r
        <4>1. Unused(r)
          BY <3>1 DEF Fresh
        <4> QED
          BY <2>2, <2>3, <3>1, <4>1
      <3>2. CASE ~\E k \in 1 .. n : f[k] = r
        BY <2>1, <2>2, <3>2 DEF Harmless
      <3> QED
        BY <3>1, <3>2
    <2> QED
      BY <2>4
  <1>2. ASSUME NEW i \in Plans, CancelPlanRead(i)
        PROVE  \A r \in Runs : Harmless(r)
    BY <1>2 DEF CancelPlanRead, Harmless
  <1>3. CASE CancelPlanWrite
    <2>1. Unlocked /\ UNCHANGED <<obs, exec, late>>
      BY <1>3 DEF CancelPlanWrite
    <2> DEFINE mine == plan[call.plan].batches
               seen(r) == call.seen[CHOOSE k \in DOMAIN mine : mine[k] = r]
               written == [r \in Runs |-> IF \E k \in DOMAIN mine : mine[k] = r
                                          THEN CancelledAs(run[r], seen(r)) ELSE run[r]]
    <2>2. run' = run \/ run' = written
      BY <1>3 DEF CancelPlanWrite
    <2>3. \A r \in Runs : run'[r] = run[r] \/ run'[r] = CancelledAs(run[r], seen(r))
      BY <2>2
    <2> QED
      BY <2>1, <2>3, CancelHarmless
  <1> QED
    BY <1>1, <1>2, <1>3 DEF PlansNext

\* Persisting adds a row whose file is there, or was written under a deletion.
LEMMA PersistKeeps ==
  ASSUME IInv, NEW r \in Runs, Persist(r), UNCHANGED <<del, raced>>
  PROVE  RunsInv' /\ LateInv' /\ DeletionInv' /\ PayloadsKept' /\ Frozen
  <1> DEFINE d == run[r].domain
             x == exec[r].payload
  <1> USE RunsTypes, DeletionTypes
  <1>0. RunsTypeOK /\ RunsInv /\ LateInv /\ DeletionInv /\ PayloadsKept
    BY DEF IInv
  <1>1. exec[r].at = "stored" /\ UNCHANGED <<run, files, late>>
    BY DEF Persist
  <1>2. run[r].job = "running" /\ run[r].status = "running" /\ x \in Payloads /\ d \in Domains
    BY <1>0, <1>1 DEF RunsInv, Working, ActiveJob, Active
  <1>3. exec'[r].at = "counting"
    BY <1>0 DEF Persist, Observe
  <1>4. \A p \in Pages : obs'[r][p].payload \in {obs[r][p].payload, x}
    BY <1>0 DEF Persist, Observe
  <1>5. \A s \in Runs : s # r => exec'[s] = exec[s] /\ obs'[s] = obs[s]
    BY <1>0, Elsewhere DEF Execute
  <1>6. rows' = [rows EXCEPT ![d] = @ \cup {x}]
    BY DEF Persist
  <1>7. RunsInv'
    <2>1. ASSUME NEW s \in Runs
          PROVE  /\ ActiveJob(s)' => run'[s].domain \in Domains
                 /\ run'[s].job = "none" => \A p \in Pages : obs'[s][p].payload = NoPayload
                 /\ exec'[s].at = "stored" => run'[s].job = "running" /\ exec'[s].payload \in Payloads
                 /\ exec'[s].at \in Working /\ run'[s].job = "running" => run'[s].status = "running"
      <3>1. CASE s = r
        BY <1>1, <1>2, <1>3, <3>1 DEF ActiveJob
      <3>2. CASE s # r
        BY <1>0, <1>1, <1>5, <3>2 DEF RunsInv, ActiveJob
      <3> QED
        BY <3>1, <3>2
    <2> QED
      BY <2>1 DEF RunsInv
  <1>8. LateInv'
    BY <1>0, <1>1, <1>3, <1>5 DEF LateInv
  <1>9. Frozen
    <2>1. run[r].status \notin Terminal
      BY <1>2 DEF Terminal
    <2> QED
      BY <1>5, <2>1 DEF Frozen
  <1>10. x \in files[d] \/ <<d, x>> \in raced
    BY <1>0, <1>1 DEF DeletionInv
  <1>11. PayloadsKept'
    <2>1. ASSUME NEW s \in Runs, NEW p \in Pages, run[s].domain \in Domains, obs'[s][p].payload # NoPayload
          PROVE  obs'[s][p].payload \in rows'[run[s].domain]
      <3>1. rows[run[s].domain] \subseteq rows'[run[s].domain] /\ x \in rows'[d]
        BY <1>0, <1>2, <1>6, <2>1
      <3>2. CASE obs'[s][p].payload = obs[s][p].payload
        BY <1>0, <2>1, <3>1, <3>2, Referenced
      <3>3. CASE s = r /\ obs'[s][p].payload = x
        BY <3>1, <3>3
      <3> QED
        BY <1>4, <1>5, <3>2, <3>3
    <2>2. ASSUME NEW e \in Domains, NEW y, y \in rows'[e]
          PROVE  y \in files'[e] \/ <<e, y>> \in raced'
      <3>1. y \in rows[e] \/ (e = d /\ y = x)
        BY <1>0, <1>6, <2>2
      <3> QED
        BY <1>0, <1>1, <1>10, <3>1, Referenced
    <2> QED
      BY <1>1, <2>1, <2>2, ReferencedNext
  <1>12. DeletionInv'
    <2>1. ASSUME NEW s \in Runs, exec'[s].at = "stored"
          PROVE  exec'[s] = exec[s]
      BY <1>3, <1>5, <2>1
    <2>2. del.pc = "unlink" => \A y \in rows'[del.domain] \cap del.files : <<del.domain, y>> \in raced
      BY <1>0, <1>1, <1>6 DEF DeletionInv
    <2>3. del.pc = "checked" /\ del.kind = "gc" =>
            \A y \in rows'[del.domain] \ del.files : <<del.domain, y>> \in raced
      BY <1>0, <1>1, <1>6 DEF DeletionInv
    <2> QED
      BY <1>0, <1>1, <2>1, <2>2, <2>3 DEF DeletionInv
  <1> QED
    BY <1>7, <1>8, <1>9, <1>11, <1>12

\* Storing leaves a file that is not unlinked, or one that is known to be raced.
LEMMA StoreKeeps ==
  ASSUME IInv, NEW r \in Runs, StoreNext(r)
  PROVE  RunsInv' /\ LateInv' /\ DeletionInv' /\ PayloadsKept' /\ Frozen
  <1> DEFINE d == run[r].domain
  <1> USE RunsTypes, DeletionTypes
  <1>0. RunsTypeOK /\ RunsInv /\ LateInv /\ DeletionInv /\ PayloadsKept
    BY DEF IInv
  <1>1. PICK x \in Payloads :
          /\ exec' = [exec EXCEPT ![r].at = "stored", ![r].payload = x]
          /\ files' = IF x \in rows[d] THEN files ELSE [files EXCEPT ![d] = @ \cup {x}]
    BY DEF StoreNext, Store
  <1>2. UNCHANGED <<run, obs, rows, late, del>>
    BY DEF StoreNext, Store
  <1>3. /\ exec[r].at = "visit" /\ run[r].job = "running" /\ run[r].status = "running" /\ d \in Domains
        /\ \A s \in Runs : exec[s].at # "stored"
    BY <1>0 DEF StoreNext, Store, Owns, Unlocked, RunsInv, Working, ActiveJob, Active
  <1>4. exec'[r].at = "stored" /\ exec'[r].payload = x /\ \A s \in Runs : s # r => exec'[s] = exec[s]
    <2>1. exec[r] \in Executors
      BY <1>0
    <2> QED
      BY <1>0, <1>1, <2>1 DEF Executors
  <1>5. raced \subseteq raced' /\ (d = del.domain => <<d, x>> \in raced')
    BY <1>4 DEF StoreNext
  <1>6. \A e \in Domains : files[e] \subseteq files'[e]
    BY <1>0, <1>1
  <1>7. x \in files'[d] \/ <<d, x>> \in raced'
    BY <1>0, <1>1, <1>3, <1>5, Referenced
  <1>8. RunsInv'
    BY <1>0, <1>2, <1>3, <1>4 DEF RunsInv, ActiveJob
  <1>9. LateInv'
    BY <1>0, <1>2, <1>4 DEF LateInv
  <1>10. Frozen
    BY <1>2 DEF Frozen
  <1>11. PayloadsKept'
    BY <1>0, <1>2, <1>5, <1>6, Referenced, ReferencedNext
  <1>12. DeletionInv'
    <2>1. ASSUME NEW s \in Runs, exec'[s].at = "stored"
          PROVE  s = r
      BY <1>3, <1>4, <2>1
    <2>2. <<d, x>> \in raced' \/ (x \in files'[d] /\ d # del.domain)
      BY <1>5, <1>7
    <2>3. del.pc = "unlink" => \A y \in rows[del.domain] \cap del.files : <<del.domain, y>> \in raced'
      BY <1>0, <1>5 DEF DeletionInv
    <2>4. del.pc = "checked" /\ del.kind = "gc" =>
            \A y \in rows[del.domain] \ del.files : <<del.domain, y>> \in raced'
      BY <1>0, <1>5 DEF DeletionInv
    <2> QED
      BY <1>0, <1>2, <1>4, <2>1, <2>2, <2>3, <2>4 DEF DeletionInv
  <1> QED
    BY <1>8, <1>9, <1>10, <1>11, <1>12

LEMMA SameKeeps ==
  ASSUME RunsInv, LateInv, UNCHANGED <<run, obs, exec, late>>
  PROVE  RunsInv' /\ LateInv' /\ Frozen
  <1>1. \A r \in Runs : Harmless(r)
    BY DEF Harmless
  <1> QED
    BY <1>1, HarmlessRuns

LEMMA SamePayloads ==
  ASSUME PayloadsKept, UNCHANGED <<run, obs, rows, files, raced>>
  PROVE  PayloadsKept'
  BY Referenced, ReferencedNext

\* A deletion that has only been checked has nothing to remove yet.
LEMMA CheckedKeeps ==
  ASSUME IInv, NEW kind \in {"observation", "run", "purge"}, NEW d \in Domains, NEW rs, NEW ps, NEW blobs,
         Checked(kind, d, rs, ps, blobs)
  PROVE  RunsInv' /\ LateInv' /\ DeletionInv' /\ PayloadsKept' /\ Frozen
  <1>1. del' = [NoDeletion EXCEPT !.pc = "checked", !.kind = kind, !.domain = d, !.runs = rs,
                                  !.seen = ps, !.blobs = blobs]
    BY DEF Checked
  <1>2. del'.pc = "checked" /\ del'.kind = kind /\ del'.domain = d
    BY <1>1 DEF NoDeletion
  <1>3. UNCHANGED <<run, obs, exec, rows, files, late, raced>> /\ del = NoDeletion
    BY DEF Checked
  <1>4. ASSUME NEW r \in Runs, exec[r].at = "stored"
        PROVE  <<run[r].domain, exec[r].payload>> \in raced \/ exec[r].payload \in files[run[r].domain]
    BY <1>4 DEF IInv, DeletionInv
  <1>5. DeletionInv'
    BY <1>2, <1>3, <1>4 DEF DeletionInv
  <1> QED
    BY <1>3, <1>5, SameKeeps, SamePayloads DEF IInv

LEMMA CheckKeeps ==
  ASSUME IInv,
         \/ \E r \in Runs, p \in Pages : DeleteObservation(r, p) \/ DeleteTarget(r, p)
         \/ \E r \in Runs : DeleteRun(r) \/ DeleteRenderRun(r)
         \/ \E d \in Domains : Purge(d)
         \/ PurgeRenders
  PROVE  RunsInv' /\ LateInv' /\ DeletionInv' /\ PayloadsKept' /\ Frozen
  <1> DEFINE Kept == RunsInv' /\ LateInv' /\ DeletionInv' /\ PayloadsKept' /\ Frozen
  <1>0. TypeOK
    BY DEF IInv
  <1>1. ASSUME NEW r \in Runs, NEW p \in Pages, DeleteObservation(r, p) \/ DeleteTarget(r, p)
        PROVE  Kept
    <2>1. run[r].domain \in Domains
      BY <1>0, <1>1, DomainTypes DEF DeleteObservation, DeleteTarget
    <2> QED
      BY <1>1, <2>1, CheckedKeeps DEF DeleteObservation, DeleteTarget, CheckedObservation
  <1>2. ASSUME NEW r \in Runs, DeleteRun(r) \/ DeleteRenderRun(r)
        PROVE  Kept
    <2>1. run[r].domain \in Domains
      BY <1>0, <1>2, DomainTypes DEF DeleteRun, DeleteRenderRun
    <2> QED
      BY <1>2, <2>1, CheckedKeeps DEF DeleteRun, DeleteRenderRun, CheckedRun
  <1>3. ASSUME NEW d \in Domains, CheckedPurge(d)
        PROVE  Kept
    BY <1>3, CheckedKeeps DEF CheckedPurge
  <1> QED
    BY <1>0, <1>1, <1>2, <1>3, DomainTypes DEF Purge, PurgeRenders

\* The rows of a deletion go together with every reference to them.
LEMMA DeleteRowsKeeps ==
  ASSUME IInv, DeleteRows
  PROVE  RunsInv' /\ LateInv' /\ DeletionInv' /\ PayloadsKept' /\ Frozen
  <1> DEFINE kept == [r \in Runs |-> KeptObs(r)]
  <1> USE RunsTypes, DeletionTypes
  <1>0. TypeOK /\ RunsTypeOK /\ RunsInv /\ LateInv /\ DeletionInv /\ PayloadsKept
    BY DEF IInv
  <1>1. /\ obs' = kept
        /\ rows' = [rows EXCEPT ![del.domain] = @ \ Orphaned(kept)]
        /\ del' = [del EXCEPT !.pc = "unlink", !.files = Orphaned(kept)]
        /\ \A r \in Runs : exec[r].at # "stored"
        /\ UNCHANGED <<exec, files, raced>>
        /\ del.pc = "checked"
    BY DEF DeleteRows, Unlocked
  <1>2. del.domain \in Domains
    BY <1>0, <1>1 DEF DeletionInv
  <1>3. \A r \in Runs, p \in Pages : obs'[r][p] \in {obs[r][p], Unobserved}
    BY <1>1 DEF KeptObs
  <1>4. \A r \in Doomed, p \in Pages : r \in Runs => obs'[r][p] = Unobserved
    BY <1>1 DEF KeptObs
  <1>5. ASSUME NEW r \in Runs
        PROVE  Harmless(r)
    <2>1. \A p \in Pages : obs'[r][p].payload \in {obs[r][p].payload, NoPayload}
      BY <1>3 DEF Unobserved
    <2>2. CASE r \in Doomed
      <3>1. run'[r] = DeletedRun /\ late'[r] = 0
        BY <2>2 DEF DeleteRows
      <3>2. run'[r].job = "none"
        BY <3>1 DEF DeletedRun, NoRun
      <3>3. \A p \in Pages : obs'[r][p].payload = NoPayload
        BY <1>4, <2>2 DEF Unobserved
      <3> QED
        BY <1>1, <1>3, <2>1, <3>1, <3>2, <3>3 DEF Harmless, Active
    <2>3. CASE r \notin Doomed
      <3>1. run'[r] = run[r] /\ late'[r] = late[r]
        BY <2>3 DEF DeleteRows
      <3>2. late'[r] # 0 => late'[r] = 1 /\ run'[r].cancel /\ exec'[r].at # "picked"
        BY <1>0, <1>1, <3>1, LateValue DEF LateInv
      <3>3. run'[r].job = "none" => \A p \in Pages : obs'[r][p].payload = NoPayload
        BY <1>0, <2>1, <3>1 DEF RunsInv
      <3>4. run'[r].job \in Active => run'[r].domain \in Domains
        BY <1>0, <3>1 DEF RunsInv, ActiveJob
      <3>5. exec'[r].at \in Working /\ run'[r].job = "running" => run'[r].status = "running"
        BY <1>0, <1>1, <3>1 DEF RunsInv
      <3> QED
        BY <1>1, <1>3, <2>1, <3>1, <3>2, <3>3, <3>4, <3>5 DEF Harmless
    <2> QED
      BY <2>2, <2>3
  <1>6. RunsInv' /\ LateInv' /\ Frozen
    BY <1>0, <1>5, HarmlessRuns
  <1>7. PayloadsKept'
    <2>1. ASSUME NEW r \in Runs, NEW p \in Pages, run'[r].domain \in Domains, obs'[r][p].payload # NoPayload
          PROVE  obs'[r][p].payload \in rows'[run'[r].domain]
      <3>1. /\ run'[r].domain = run[r].domain /\ obs'[r][p].payload \in rows[run[r].domain]
        BY <1>0, <1>5, <2>1, HarmlessReferences
      <3>2. run[r].domain = del.domain => obs'[r][p].payload \notin Orphaned(kept)
        BY <1>1 DEF Orphaned
      <3> QED
        BY <1>0, <1>1, <2>1, <3>1, <3>2
    <2>2. ASSUME NEW d \in Domains, NEW x, x \in rows'[d]
          PROVE  x \in files'[d] \/ <<d, x>> \in raced'
      <3>1. x \in rows[d]
        BY <1>0, <1>1, <2>2
      <3> QED
        BY <1>0, <1>1, <3>1, Referenced
    <2> QED
      BY <2>1, <2>2, ReferencedNext
  <1>8. DeletionInv'
    <2>1. del'.pc = "unlink" /\ del'.files = Orphaned(kept) /\ del'.domain = del.domain
      BY <1>0, <1>1 DEF Deletions
    <2>2. rows'[del.domain] \cap Orphaned(kept) = {}
      BY <1>0, <1>1, <1>2
    <2> QED
      BY <1>1, <1>2, <2>1, <2>2 DEF DeletionInv
  <1> QED
    BY <1>6, <1>7, <1>8

\* The collection of payloads looks at domains without an active job only, sweeps what is still
\* unreferenced, and unlinks files whose rows are gone.
LEMMA CollectKeeps ==
  ASSUME IInv,
         \/ \E d \in Domains : Collect(d)
         \/ CollectRead \/ CollectSweep \/ Unlink \/ CrashDeleting
  PROVE  RunsInv' /\ LateInv' /\ DeletionInv' /\ PayloadsKept' /\ Frozen
  <1> USE RunsTypes, DeletionTypes
  <1>0. TypeOK /\ RunsTypeOK /\ RunsInv /\ LateInv /\ DeletionInv /\ PayloadsKept
    BY DEF IInv
  <1>a. UNCHANGED <<run, obs, exec, late, raced>>
    BY DEF Collect, CollectRead, CollectSweep, Unlink, CrashDeleting, runVars
  <1>b. RunsInv' /\ LateInv' /\ Frozen
    BY <1>0, <1>a, SameKeeps
  <1>c. ASSUME NEW r \in Runs, exec[r].at = "stored"
        PROVE  /\ run[r].job \in Active /\ run[r].domain \in Domains
               /\ \/ <<run[r].domain, exec[r].payload>> \in raced
                  \/ /\ exec[r].payload \in files[run[r].domain]
                     /\ run[r].domain = del.domain =>
                          del.kind # "gc" /\ (del.pc = "unlink" => exec[r].payload \notin del.files)
    BY <1>0, <1>c DEF RunsInv, DeletionInv, ActiveJob, Active
  <1>1. ASSUME NEW d \in Domains, Collect(d)
        PROVE  DeletionInv' /\ PayloadsKept'
    <2>1. UNCHANGED <<rows, files>>
      BY <1>1 DEF Collect
    <2>2. del'.pc = "guarded" /\ del'.domain = d
      BY <1>1 DEF Collect, NoDeletion
    <2>3. \A r \in Runs : exec[r].at = "stored" => run[r].domain # d
      BY <1>c, <1>1 DEF Collect, DomainIdle, ActiveJob
    <2>4. DeletionInv'
      BY <1>a, <1>c, <2>1, <2>2, <2>3 DEF DeletionInv
    <2> QED
      BY <1>0, <1>a, <2>1, <2>4, SamePayloads
  <1>2. CASE CollectRead
    <2>1. UNCHANGED <<rows, files>>
      BY <1>2 DEF CollectRead, runVars
    <2>2. /\ del'.pc = "checked" /\ del'.domain = del.domain /\ del'.kind = del.kind
          /\ del'.files = rows[del.domain]
      BY <1>0, <1>2 DEF CollectRead, Deletions
    <2>3. del.domain \in Domains
      BY <1>0, <1>2 DEF CollectRead, DeletionInv
    <2>4. DeletionInv'
      BY <1>a, <1>c, <2>1, <2>2, <2>3 DEF DeletionInv
    <2> QED
      BY <1>0, <1>a, <1>b, <2>1, <2>4, SamePayloads
  <1>3. CASE CollectSweep
    <2>0. /\ \A r \in Runs : exec[r].at # "stored"
          /\ del.domain \in Domains /\ UNCHANGED files
      BY <1>0, <1>3 DEF CollectSweep, Unlocked, DeletionInv
    <2>1. CASE del.blobs \cap References(del.domain) # {}
      <3>1. del' = NoDeletion /\ UNCHANGED rows
        BY <1>3, <2>1 DEF CollectSweep
      <3>2. DeletionInv'
        BY <1>a, <2>0, <3>1 DEF DeletionInv, NoDeletion
      <3> QED
        BY <1>0, <1>a, <1>b, <2>0, <3>1, <3>2, SamePayloads
    <2>2. CASE del.blobs \cap References(del.domain) = {}
      <3>1. /\ rows' = [rows EXCEPT ![del.domain] = @ \ del.blobs]
            /\ del' = [del EXCEPT !.pc = "unlink",
                                  !.files = del.blobs \cup (files[del.domain] \ del.files)]
        BY <1>3, <2>2 DEF CollectSweep
      <3>2. /\ del'.pc = "unlink" /\ del'.domain = del.domain
            /\ del'.files = del.blobs \cup (files[del.domain] \ del.files)
        BY <1>0, <3>1 DEF Deletions
      <3>3. rows'[del.domain] = rows[del.domain] \ del.blobs
        BY <1>0, <2>0, <3>1
      <3>4. \A x \in rows[del.domain] \ del.files : <<del.domain, x>> \in raced
        BY <1>0, <1>3 DEF CollectSweep, DeletionInv
      <3>5. DeletionInv'
        BY <1>a, <2>0, <3>2, <3>3, <3>4 DEF DeletionInv
      <3>6. ASSUME NEW r \in Runs, NEW p \in Pages, run[r].domain \in Domains, obs[r][p].payload # NoPayload
            PROVE  obs[r][p].payload \in rows'[run[r].domain]
        <4>1. obs[r][p].payload \in rows[run[r].domain]
          BY <1>0, <3>6, Referenced
        <4>2. run[r].domain = del.domain => obs[r][p].payload \notin del.blobs
          BY <2>2, <3>6 DEF References
        <4> QED
          BY <1>0, <2>0, <3>1, <3>6, <4>1, <4>2
      <3>7. \A d \in Domains : rows'[d] \subseteq rows[d]
        BY <1>0, <2>0, <3>1
      <3>8. PayloadsKept'
        BY <1>0, <1>a, <2>0, <3>6, <3>7, Referenced, ReferencedNext
      <3> QED
        BY <1>b, <3>5, <3>8
    <2> QED
      BY <2>1, <2>2
  <1>4. CASE Unlink
    <2>1. /\ del.pc = "unlink" /\ UNCHANGED rows /\ del' = NoDeletion
          /\ files' = [files EXCEPT ![del.domain] = @ \ del.files]
      BY <1>4 DEF Unlink
    <2>2. del.domain \in Domains
      BY <1>0, <2>1 DEF DeletionInv
    <2>3. \A d \in Domains : \A x : x \in files[d] /\ ~(d = del.domain /\ x \in del.files) => x \in files'[d]
      BY <1>0, <2>1, <2>2
    <2>4. del'.pc = "idle" /\ del'.domain = "none"
      BY <2>1 DEF NoDeletion
    <2>5. \A x \in rows[del.domain] \cap del.files : <<del.domain, x>> \in raced
      BY <1>0, <2>1 DEF DeletionInv
    <2>6. "none" \notin Domains
      BY <1>0, DomainTypes
    <2>7. ASSUME NEW r \in Runs, exec[r].at = "stored"
          PROVE  /\ run[r].domain # "none"
                 /\ <<run[r].domain, exec[r].payload>> \in raced \/ exec[r].payload \in files'[run[r].domain]
      BY <1>c, <2>1, <2>3, <2>6, <2>7
    <2>8. DeletionInv'
      BY <1>a, <2>1, <2>4, <2>7 DEF DeletionInv
    <2>9. PayloadsKept'
      <3>1. \A d \in Domains : \A x : x \in rows[d] => x \in files'[d] \/ <<d, x>> \in raced
        BY <1>0, <2>3, <2>5, Referenced
      <3> QED
        BY <1>0, <1>a, <2>1, <3>1, Referenced, ReferencedNext
    <2> QED
      BY <1>b, <2>8, <2>9
  <1>5. CASE CrashDeleting
    <2>1. del' = NoDeletion /\ UNCHANGED <<rows, files>>
      BY <1>5 DEF CrashDeleting
    <2>2. del'.pc = "idle" /\ del'.domain = "none" /\ "none" \notin Domains
      BY <1>0, <2>1, DomainTypes DEF NoDeletion
    <2>3. DeletionInv'
      BY <1>a, <1>c, <2>1, <2>2 DEF DeletionInv
    <2> QED
      BY <1>0, <1>a, <1>b, <2>1, <2>3, SamePayloads
  <1> QED
    BY <1>b, <1>1, <1>2, <1>3, <1>4, <1>5

-----------------------------------------------------------------------------
(* The theorems.                                                           *)

LEMMA InitInv == Init => IInv
  <1> SUFFICES ASSUME Init PROVE IInv
    OBVIOUS
  <1>1. RunsTypeOK
    BY CollectionAssumption
       DEF Init, RunsInit, RunsTypeOK, NoRun, Unobserved, Resting, ObsStates, Phases
  <1>2. PlansTypeOK
    <2>1. NoPlan \in PlanRows
      BY EmptySeq DEF NoPlan, PlanRows
    <2> QED
      BY <2>1, PlansTypes DEF Init, PlansInit, NoCall
  <1>3. TypeOK
    BY <1>1, <1>2, DeletionTypes DEF Init
  <1>4. RunsInv
    BY DEF Init, RunsInit, RunsInv, NoRun, Unobserved, Resting, ActiveJob, Active, Working
  <1>5. LateInv
    BY DEF Init, RunsInit, LateInv
  <1>6. DeletionInv
    BY DEF Init, RunsInit, DeletionInv, NoDeletion, Resting
  <1>7. PayloadsKept
    BY DEF Init, RunsInit, PayloadsKept, References, NoRun, Unobserved
  <1> QED
    BY <1>3, <1>4, <1>5, <1>6, <1>7 DEF IInv

LEMMA StepInv == IInv /\ [Next]_vars => IInv' /\ Frozen
  <1> DEFINE Kept == RunsInv' /\ LateInv' /\ DeletionInv' /\ PayloadsKept' /\ Frozen
  <1> SUFFICES ASSUME IInv, [Next]_vars PROVE Kept
    <2>1. ASSUME IInv, [Next]_vars PROVE TypeOK'
      BY <2>1, NextTypes, SameTypes DEF IInv
    <2> QED
      BY <2>1 DEF IInv
  <1>0. TypeOK /\ RunsTypeOK /\ RunsInv /\ LateInv /\ DeletionInv /\ PayloadsKept
    BY DeletionTypes DEF IInv
  <1>1. ASSUME \A r \in Runs : Harmless(r), UNCHANGED <<rows, files, del, raced>>
        PROVE  Kept
    BY <1>0, <1>1, HarmlessRuns, HarmlessPayloads
  <1>2. CASE RunsNext /\ UNCHANGED <<planVars, del, raced>>
    <2>1. CASE Request
      <3>1. UNCHANGED <<rows, files>>
        BY <2>1 DEF Request, CreateRun, CreateRerender, CreateScanRenderRun, CancelRun
      <3> QED
        BY <1>0, <1>1, <1>2, <2>1, <3>1, RequestHarmless
    <2>2. ASSUME NEW r \in Runs, Execute(r) \/ Mishap(r), ~Persist(r)
          PROVE  Kept
      <3>1. UNCHANGED <<rows, files>>
        BY <2>2 DEF Execute, Mishap, Claim, Begin, CheckCancel, Open, Attempt, Skip, PersistFailure,
             CancelObservation, WaitCancelled, Count, Stop, Finish, Settle, LoseLease, Fail, Crash, Recover
      <3>2. ASSUME NEW s \in Runs
            PROVE  Harmless(s)
        <4>1. CASE s = r
          BY <1>0, <2>2, <4>1, ExecuteHarmless
        <4>2. CASE s # r
          BY <1>0, <2>2, <4>2, Elsewhere DEF Harmless
        <4> QED
          BY <4>1, <4>2
      <3> QED
        BY <1>1, <1>2, <3>1, <3>2
    <2>3. ASSUME NEW r \in Runs, Persist(r)
          PROVE  Kept
      BY <1>2, <2>3, PersistKeeps
    <2> QED
      BY <1>2, <2>1, <2>2, <2>3 DEF RunsNext
  <1>3. CASE \E r \in Runs : StoreNext(r)
    BY <1>3, StoreKeeps
  <1>4. CASE PlansNext /\ UNCHANGED <<del, raced>>
    <2>1. UNCHANGED <<rows, files>>
      BY <1>4 DEF PlansNext, CreatePlan, CancelPlanRead, CancelPlanWrite
    <2> QED
      BY <1>0, <1>1, <1>4, <2>1, PlansHarmless
  <1>5. CASE DeletionNext
    BY <1>5, CheckKeeps, DeleteRowsKeeps, CollectKeeps DEF DeletionNext
  <1>6. CASE UNCHANGED vars
    <2>1. UNCHANGED <<run, obs, exec, rows, files, late, del, raced>>
      BY <1>6 DEF vars, runVars
    <2>2. \A r \in Runs : Harmless(r)
      BY <2>1 DEF Harmless
    <2> QED
      BY <1>1, <2>1, <2>2
  <1> QED
    BY <1>2, <1>3, <1>4, <1>5, <1>6 DEF Next

LEMMA Invariant == Spec => []IInv
  BY InitInv, StepInv, PTL DEF Spec

\* The types of all variables, whatever is collected, cancelled, lost and deleted.
THEOREM TypeCorrect == Spec => []TypeOK
  <1>1. IInv => TypeOK
    BY DEF IInv
  <1> QED
    BY <1>1, Invariant, PTL

\* A payload that an observation refers to keeps its row, and its file unless the file was written
\* while a deletion of that kind of evidence was under way.
THEOREM PayloadsAreKept == Spec => []PayloadsKept
  <1>1. IInv => PayloadsKept
    BY DEF IInv
  <1> QED
    BY <1>1, Invariant, PTL

\* After a cancellation was requested a run visits at most the page it was about to visit.
THEOREM CancellationIsPrompt == Spec => []CancelPrompt
  <1>1. IInv => CancelPrompt
    BY DEF IInv, LateInv, CancelPrompt
  <1> QED
    BY <1>1, Invariant, PTL

\* The evidence of an ended run is only ever deleted.
THEOREM EndedRunsAreFrozen == Spec => EndedRunFrozen
  <1>1. IInv /\ [Next]_vars => [Frozen]_vars
    BY StepInv
  <1>2. [Frozen]_vars <=> [\A r \in Runs : run[r].status \in Terminal =>
                            \A p \in Pages : obs'[r][p] \in {obs[r][p], Unobserved}]_vars
    BY DEF Frozen
  <1> QED
    BY <1>1, <1>2, Invariant, PTL DEF Spec, EndedRunFrozen
=============================================================================
