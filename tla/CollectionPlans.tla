--------------------------- MODULE CollectionPlans ---------------------------
(***************************************************************************)
(* Collection plans: the pages that lack current evidence of a kind (or    *)
(* all of them) are frozen, split into batches, and collected by one run   *)
(* per batch.  A plan has no execution state of its own: its status is     *)
(* derived from the jobs of its batches.  Creation holds the write lock    *)
(* from before its first read; cancellation acts on rows read earlier.     *)
(***************************************************************************)
EXTENDS CollectionRuns, Sequences

CONSTANTS
  MaxPlans,   \* bound on plans created
  BatchSize   \* pages of a batch, by domain

ASSUME PlanAssumption ==
  /\ MaxPlans \in Nat
  /\ BatchSize \in [Domains -> Nat \ {0}]

VARIABLES
  plan,  \* the plans created so far
  call   \* a cancellation under way: the plan and its batches as they were read

planVars == <<plan, call>>

Plans == 1 .. MaxPlans

Modes == {"missing_current", "refresh_current"}

\* A batch whose run was deleted.
Gone == 0

NoPlan == [domain |-> "none", mode |-> "none", batches |-> <<>>, targets |-> {},
           cancelled |-> FALSE]

\* What a cancellation knows of a batch without a job.
Unread == [job |-> "none", status |-> "none"]

NoCall == [plan |-> 0, seen |-> <<>>]

PlansTypeOK ==
  /\ plan \in [Plans -> [domain: Domains \cup {"none"}, mode: Modes \cup {"none"},
                         batches: Seq(Runs \cup {Gone}),
                         targets: SUBSET Pages, cancelled: BOOLEAN]]
  /\ call.plan \in Plans \cup {0}

PlansInit ==
  /\ plan = [i \in Plans |-> NoPlan]
  /\ call = NoCall

-----------------------------------------------------------------------------
(* Selection.                                                              *)

\* Pages with a current answer; a skip, a cancellation or an open capture is none.
Covered(d) ==
  {p \in Pages : \E r \in Runs : run[r].domain = d /\ obs[r][p].state \in Answered}

\* Mutant of InFlight: a run that a worker has claimed is not in flight.
InFlightQueued(d) == UNION {run[r].targets : r \in {s \in Runs : run[s].domain = d /\ run[s].job = "queued"}}

\* Pages some active job is about to collect.
InFlight(d) == UNION {run[r].targets : r \in {s \in Runs : run[s].domain = d /\ ActiveJob(s)}}

Selection(d, mode) ==
  (IF mode = "missing_current" THEN Pages \ Covered(d) ELSE Pages) \ InFlight(d)

Batches(i) == {plan[i].batches[k] : k \in DOMAIN plan[i].batches}

\* A plan for the same evidence that still has work.
EquivalentActive(d, mode) ==
  \E i \in Plans : /\ plan[i].domain = d /\ plan[i].mode = mode
                   /\ \E r \in Batches(i) \ {Gone} : ActiveJob(r)

Rank(p, S) == Cardinality({q \in S : q < p})

BatchCount(S, size) == (Cardinality(S) + size - 1) \div size

\* batch_target_counts: full batches, and what remains.
Batch(k, S, size) == {p \in S : Rank(p, S) \div size = k - 1}

\* The n lowest runs not in use yet, in their order.
Fresh(n) ==
  {f \in [1 .. n -> {r \in Runs : Unused(r)}] :
     /\ \A i, j \in 1 .. n : i < j => f[i] < f[j]
     /\ \A q \in Runs : Unused(q) => f[n] < q \/ \E k \in 1 .. n : f[k] = q}

CreatePlan(i, d, mode) ==
  /\ Ask
  /\ Unlocked
  /\ plan[i] = NoPlan
  /\ \A j \in Plans : j < i => plan[j] # NoPlan
  /\ ~EquivalentActive(d, mode)
  /\ Selection(d, mode) # {}
  /\ LET S == Selection(d, mode)
         n == BatchCount(S, BatchSize[d])
     IN \E f \in Fresh(n) :
          /\ plan' = [plan EXCEPT ![i] = [domain |-> d, mode |-> mode, batches |-> f,
                                          targets |-> S, cancelled |-> FALSE]]
          /\ run' = [r \in Runs |->
                       IF \E k \in 1 .. n : f[k] = r
                       THEN NewRun(d, Batch(CHOOSE k \in 1 .. n : f[k] = r, S, BatchSize[d]))
                       ELSE run[r]]
  /\ UNCHANGED <<obs, exec, rows, files, late, call>>

-----------------------------------------------------------------------------
(* Status and cancellation.                                                *)

BatchStatus(r) == IF r = Gone THEN "missing" ELSE run[r].job

\* Mutant of PlanStatus: a batch whose job is gone does not count.
PlanStatusOfPresent(i) ==
  LET is == {BatchStatus(r) : r \in Batches(i)}
  IN CASE "running" \in is -> IF plan[i].cancelled THEN "cancelling" ELSE "running"
       [] "running" \notin is /\ "queued" \in is ->
            IF plan[i].cancelled THEN "cancelling" ELSE "queued"
       [] is \cap Active = {} /\ is \cap {"failed", "interrupted", "completed_with_errors"} # {} ->
            "completed_with_errors"
       [] is \cap (Active \cup {"failed", "interrupted", "completed_with_errors"}) = {} /\ "cancelled" \in is ->
            "cancelled"
       [] OTHER -> "completed"

\* plan_status
PlanStatus(i) ==
  LET is == {BatchStatus(r) : r \in Batches(i)}
      bad == {"failed", "interrupted", "missing", "completed_with_errors"}
  IN CASE "running" \in is -> IF plan[i].cancelled THEN "cancelling" ELSE "running"
       [] "running" \notin is /\ "queued" \in is ->
            IF plan[i].cancelled THEN "cancelling" ELSE "queued"
       [] is \cap Active = {} /\ is \cap bad # {} -> "completed_with_errors"
       [] is \cap (Active \cup bad) = {} /\ "cancelled" \in is -> "cancelled"
       [] OTHER -> "completed"

\* The request reads the plan with its jobs and runs ...
CancelPlanRead(i) ==
  /\ Ask
  /\ call = NoCall
  /\ plan[i] # NoPlan
  /\ PlanStatus(i) \in {"queued", "running", "cancelling"}
  /\ call' = [plan |-> i, seen |-> [k \in DOMAIN plan[i].batches |->
                LET r == plan[i].batches[k]
                IN IF r = Gone THEN Unread ELSE [job |-> run[r].job, status |-> run[r].status]]]
  /\ UNCHANGED <<run, obs, exec, rows, files, late, plan>>

\* A row of the batch as the request changes it: its decisions rest on what it read.
CancelledAs(row, seen) ==
  CASE seen.job = "queued"  -> [row EXCEPT !.job = "cancelled", !.cancel = TRUE,
                                   !.status = IF seen.status = "queued" THEN "cancelled" ELSE @]
    [] seen.job = "running" -> [row EXCEPT !.cancel = TRUE]
    [] OTHER                -> row

\* ... and changes them later; rows deleted in between fail the request.
CancelPlanWrite ==
  /\ Unlocked
  /\ call # NoCall
  /\ LET i == call.plan
         mine == plan[i].batches
         SeenActive(k) == call.seen[k].job \in Active
     IN IF \E k \in DOMAIN mine : SeenActive(k) /\ mine[k] = Gone
        THEN UNCHANGED <<run, plan>>
        ELSE /\ plan' = [plan EXCEPT ![i].cancelled = TRUE]
             /\ run' = [r \in Runs |->
                          IF \E k \in DOMAIN mine : mine[k] = r
                          THEN CancelledAs(run[r], call.seen[CHOOSE k \in DOMAIN mine : mine[k] = r])
                          ELSE run[r]]
  /\ call' = NoCall
  /\ UNCHANGED <<obs, exec, rows, files, late, spent>>

PlansNext ==
  \/ \E i \in Plans, d \in Domains, mode \in Modes : CreatePlan(i, d, mode)
  \/ \E i \in Plans : CancelPlanRead(i)
  \/ CancelPlanWrite
=============================================================================
