------------------------------ MODULE JobQueue ------------------------------
(***************************************************************************)
(* The durable job queue: the API enqueues, cancels and requeues jobs, the *)
(* task slots of the workers claim, execute and settle them, and each      *)
(* worker recovers the jobs whose lease ran out.                           *)
(*                                                                         *)
(* An action is one database transaction.  A session holds SQLite's write  *)
(* lock from its first INSERT, UPDATE or DELETE to its commit, so whatever *)
(* it does in between is one step; what it SELECTs before that is a step   *)
(* of its own, and its result may be stale when it is used.                *)
(*                                                                         *)
(* Time is left out: a lease that runs has expired or not, and expires at  *)
(* any moment unless its holder renews it.                                 *)
(***************************************************************************)
EXTENDS Naturals, FiniteSets, JobLifecycle

CONSTANTS
  Jobs,        \* rows of background_jobs
  Types,       \* the job types they may have
  Slots,       \* asyncio tasks that execute jobs, all workers together
  Workers,     \* worker processes
  WorkerOf,    \* the worker each slot belongs to
  Clients,     \* API requests that read a job some time before they cancel it
  NoJob,       \* no job
  MaxTokens,   \* bound on lease tokens issued
  MaxFaults    \* bound on worker crashes and aborted recovery passes

ASSUME QueueAssumption ==
  /\ Types \subseteq JobTypes
  /\ WorkerOf \in [Slots -> Workers]
  /\ NoJob \notin Jobs
  /\ MaxTokens \in Nat
  /\ MaxFaults \in Nat

VARIABLES
  job,        \* the rows: type, status, lease token, lease, cancellation flag
  domain,     \* status of the record each job works on
  staged,     \* whether the job's required follow-ups have been created
  exec,       \* what each slot is doing
  pass,       \* what each worker's recovery pass is doing
  call,       \* cancellation requests under way
  nextToken,  \* the next fresh lease token; 0 is "no token"
  faults      \* worker crashes and aborted recovery passes so far

vars == <<job, domain, staged, exec, pass, call, nextToken, faults>>

-----------------------------------------------------------------------------
Leases == {"none", "live", "expired"}

Phases == {"idle", "claiming", "claimed", "working", "returned", "persisting",
           "cancelling", "failing", "interrupting"}

Idle == [pc |-> "idle", job |-> NoJob, token |-> 0, seen |-> FALSE, outcome |-> "none"]

NoPlan == [status |-> "none", domain |-> "none"]

NoPass == [pc |-> "idle", token |-> 0, todo |-> {}, plan |-> [j \in Jobs |-> NoPlan]]

NoCall == [job |-> NoJob, status |-> "none", domain |-> "none"]

JobRows == [type: Types, status: JobStatuses \cup {"absent"}, token: Nat, lease: Leases,
            cancel: BOOLEAN]

SlotStates == [pc: Phases, job: Jobs \cup {NoJob}, token: Nat, seen: BOOLEAN,
               outcome: Terminal \cup {"none"}]

Plans == [status: JobStatuses \cup {"none"}, domain: DomainStatuses]

PassStates == [pc: {"idle", "looping", "flushing", "error"}, token: Nat, todo: SUBSET Jobs,
               plan: [Jobs -> Plans]]

Calls == [job: Jobs \cup {NoJob}, status: JobStatuses \cup {"none"}, domain: DomainStatuses]

TypeOK ==
  /\ job \in [Jobs -> JobRows]
  /\ domain \in [Jobs -> DomainStatuses]
  /\ staged \in [Jobs -> BOOLEAN]
  /\ exec \in [Slots -> SlotStates]
  /\ pass \in [Workers -> PassStates]
  /\ call \in [Clients -> Calls]
  /\ nextToken \in Nat
  /\ faults \in Nat

Init ==
  /\ \E t \in [Jobs -> Types] :
       job = [j \in Jobs |-> [type |-> t[j], status |-> "absent", token |-> 0,
                              lease |-> "none", cancel |-> FALSE]]
  /\ domain = [j \in Jobs |-> "none"]
  /\ staged = [j \in Jobs |-> FALSE]
  /\ exec = [s \in Slots |-> Idle]
  /\ pass = [w \in Workers |-> NoPass]
  /\ call = [c \in Clients |-> NoCall]
  /\ nextToken = 1
  /\ faults = 0

-----------------------------------------------------------------------------
\* The row the slot works on, and its type.
Held(s) == exec[s].job
TypeHeld(s) == job[Held(s)].type

\* Mutants of Owns: no token in the WHERE clause; no check at all.
OwnsByStatus(s) == Held(s) \in Jobs /\ job[Held(s)].status = "running"

OwnsUnchecked(s) == Held(s) \in Jobs

\* The ownership check: WHERE id = .. AND status = 'running' AND lease_token = ..
Owns(s) ==
  /\ Held(s) \in Jobs
  /\ job[Held(s)].status = "running"
  /\ job[Held(s)].token = exec[s].token

Renewed(row) == [row EXCEPT !.lease = "live"]

\* Mutant of Leased: no lease_expires_at until the first heartbeat.
LeasedLater(row) == [row EXCEPT !.status = "running", !.token = nextToken]

\* What a claim writes.
Leased(row) == [row EXCEPT !.status = "running", !.token = nextToken, !.lease = "live"]

\* complete_job and fail_job: the token stays in the row.
Settled(row, st) == [row EXCEPT !.status = st, !.lease = "none"]

Goto(s, phase) == exec' = [exec EXCEPT ![s].pc = phase]

Release(s) == exec' = [exec EXCEPT ![s] = Idle]

-----------------------------------------------------------------------------
(***************************************************************************)
(* The API.                                                                *)
(***************************************************************************)

\* The domain record and its job are created in one transaction.
Enqueue(j) ==
  /\ job[j].status = "absent"
  /\ job' = [job EXCEPT ![j].status = "queued"]
  /\ domain' = [domain EXCEPT ![j] = Initial(job[j].type)]
  /\ UNCHANGED <<staged, exec, pass, call, nextToken, faults>>

\* Mutant of Cancel: the record of a queued job forgotten.
CancelJobOnly(j, st, d) ==
  /\ job' = [job EXCEPT ![j].cancel = TRUE,
                        ![j].status = IF st = "queued" THEN "cancelled" ELSE @]
  /\ UNCHANGED domain

\* Mutant of Cancel: the job ends only if it is still queued, its record ends regardless.
CancelRecordOnly(j, st, d) ==
  /\ job' = [job EXCEPT ![j].cancel = TRUE,
                        ![j].status = IF st = "queued" /\ @ = "queued" THEN "cancelled" ELSE @]
  /\ domain' = [domain EXCEPT ![j] =
                  IF st = "queued" /\ d \in QueuedCancelFrom(job[j].type) THEN "cancelled"
                                                                          ELSE @]

\* request_cancellation, when the row and its record were read as st and d: the flag, and
\* for a queued job the job's and the record's terminal states.
Cancel(j, st, d) ==
  /\ job' = [job EXCEPT ![j].cancel = TRUE,
                        ![j].status = IF st = "queued" THEN "cancelled" ELSE @]
  /\ domain' = [domain EXCEPT ![j] =
                  IF st = "queued" /\ d \in QueuedCancelFrom(job[j].type) THEN "cancelled"
                                                                          ELSE @]

\* A cancellation that nothing overtakes; request_cancellation takes a job of any type.
CancelNow(j) ==
  /\ job[j].status \in Active
  /\ Cancel(j, job[j].status, domain[j])
  /\ UNCHANGED <<staged, exec, pass, call, nextToken, faults>>

\* Types the API has a cancellation route for; a collection plan cancels its structured jobs.
Cancellable ==
  (RunTypes \ {"category_rule_evaluation"})
    \cup {"scan_comparison_build", "structured_content_build"}

\* The route's SELECT: the record first, then the row.  A row read as queued has a record
\* that nothing has touched yet, so the two reads are one step.
CancelRead(c, j) ==
  /\ call[c] = NoCall
  /\ job[j].type \in Cancellable
  /\ job[j].status \in Active
  /\ call' = [call EXCEPT ![c] = [job |-> j, status |-> job[j].status, domain |-> domain[j]]]
  /\ UNCHANGED <<job, domain, staged, exec, pass, nextToken, faults>>

\* The record's present status, where it is read after the row.
Latest(j) == IF job[j].type = "scan_comparison_build" THEN {domain[j]} ELSE {}

\* The flush writes by primary key, whatever has become of the row.  A comparison's
\* build is read as it was with the row, or later.
CancelWrite(c) ==
  LET j == call[c].job
  IN /\ call[c] # NoCall
     /\ \E d \in {call[c].domain} \cup Latest(j) :
          Cancel(j, call[c].status, d)
     /\ call' = [call EXCEPT ![c] = NoCall]
     /\ UNCHANGED <<staged, exec, pass, nextToken, faults>>

\* requeue_finding_evaluation_job, under BEGIN IMMEDIATE.
Requeue(j) ==
  /\ job[j].type = "finding_evaluation"
  /\ job[j].status \in {"failed", "cancelled", "interrupted"}
  /\ domain[j] \in {"failed", "cancelled"}
  /\ job' = [job EXCEPT ![j] = [@ EXCEPT !.status = "queued", !.token = 0, !.lease = "none",
                                         !.cancel = FALSE]]
  /\ domain' = [domain EXCEPT ![j] = "queued"]
  /\ UNCHANGED <<staged, exec, pass, call, nextToken, faults>>

-----------------------------------------------------------------------------
(***************************************************************************)
(* Claiming and the lease.                                                 *)
(***************************************************************************)

\* The candidate is read first.  The worker loop claims for one slot at a time, and not
\* while it recovers.
ClaimRead(s, j) ==
  /\ exec[s].pc = "idle"
  /\ pass[WorkerOf[s]].pc = "idle"
  /\ \A o \in Slots : WorkerOf[o] = WorkerOf[s] => exec[o].pc # "claiming"
  /\ job[j].status = "queued"
  /\ exec' = [exec EXCEPT ![s] = [Idle EXCEPT !.pc = "claiming", !.job = j,
                                              !.seen = job[j].cancel]]
  /\ UNCHANGED <<job, domain, staged, pass, call, nextToken, faults>>

\* Mutant of StillQueued: UPDATE .. WHERE id = .. alone.
ClaimByIdAlone(s) == TRUE

\* UPDATE .. WHERE status = 'queued'.
StillQueued(s) == job[Held(s)].status = "queued"

\* The slot keeps the flag it read with the candidate.
ClaimWon(s) ==
  /\ exec[s].pc = "claiming"
  /\ StillQueued(s)
  /\ nextToken <= MaxTokens
  /\ job' = [job EXCEPT ![Held(s)] = Leased(@)]
  /\ exec' = [exec EXCEPT ![s].pc = "claimed", ![s].token = nextToken]
  /\ nextToken' = nextToken + 1
  /\ UNCHANGED <<domain, staged, pass, call, faults>>

ClaimLost(s) ==
  /\ exec[s].pc = "claiming"
  /\ ~StillQueued(s)
  /\ Release(s)
  /\ UNCHANGED <<job, domain, staged, pass, call, nextToken, faults>>

\* heartbeat_job and update_progress: a holder renews its lease, even one that has expired
\* as long as no recovery has acted on it.
Heartbeat(s) ==
  /\ exec[s].pc \in {"claimed", "working"}
  /\ Owns(s)
  /\ job[Held(s)].lease = "expired"
  /\ job' = [job EXCEPT ![Held(s)] = Renewed(@)]
  /\ UNCHANGED <<domain, staged, exec, pass, call, nextToken, faults>>

LeaseExpires(j) ==
  /\ job[j].status = "running"
  /\ job[j].lease = "live"
  /\ job' = [job EXCEPT ![j].lease = "expired"]
  /\ UNCHANGED <<domain, staged, exec, pass, call, nextToken, faults>>

-----------------------------------------------------------------------------
(***************************************************************************)
(* Execution: the handler's commits on the record, each fenced in its own  *)
(* transaction.  Where the fence fails the execution just stops.           *)
(***************************************************************************)

\* The flag that came with the claim, or the one a scan and a refresh look up at once.
StartCancelled(s) ==
  /\ exec[s].pc = "claimed"
  /\ exec[s].seen \/ (TypeHeld(s) \in {"scan", "source_refresh"} /\ job[Held(s)].cancel)
  /\ Goto(s, "cancelling")
  /\ UNCHANGED <<job, domain, staged, pass, call, nextToken, faults>>

\* The handler's first commit.  A comparison without both projections is left waiting, and
\* its handler raises.
HandlerStart(s) ==
  /\ exec[s].pc = "claimed"
  /\ ~exec[s].seen
  /\ Owns(s)
  /\ \E d \in StartStatuses(TypeHeld(s)) :
       /\ domain' = [domain EXCEPT ![Held(s)] = d]
       /\ Goto(s, IF d = "waiting_for_projections" THEN "failing" ELSE "working")
  /\ job' = [job EXCEPT ![Held(s)] = Renewed(@)]
  /\ UNCHANGED <<staged, pass, call, nextToken, faults>>

\* Structured content has no record, and an evaluation's is written at its end only.
HandlerEnter(s) ==
  /\ exec[s].pc = "claimed"
  /\ ~exec[s].seen
  /\ StartStatuses(TypeHeld(s)) = {}
  /\ Goto(s, "working")
  /\ UNCHANGED <<job, domain, staged, pass, call, nextToken, faults>>

\* check_cancelled reads the row by its id.
SeeCancel(s) ==
  /\ exec[s].pc = "working"
  /\ job[Held(s)].cancel
  /\ ~exec[s].seen
  /\ exec' = [exec EXCEPT ![s].seen = TRUE,
                          ![s].pc = IF EndStatuses(TypeHeld(s)) = {} THEN "cancelling" ELSE @]
  /\ UNCHANGED <<job, domain, staged, pass, call, nextToken, faults>>

\* Where a handler that has just ended its record in status d goes on.
Ended(t, d) ==
  CASE t \in {"scan", "source_refresh"} -> [pc |-> "returned", outcome |-> d]
    [] t \notin {"scan", "source_refresh"} /\ d = "cancelled" ->
         [pc |-> "cancelling", outcome |-> "none"]
    [] t \in BuildTypes /\ d = "failed" -> [pc |-> "failing", outcome |-> "none"]
    [] t \in BuildTypes /\ d = "ready"  -> [pc |-> "returned", outcome |-> "completed"]
    [] OTHER                            -> [pc |-> "returned", outcome |-> d]

HandlerEnd(s) ==
  /\ exec[s].pc = "working"
  /\ Owns(s)
  /\ \E d \in EndStatuses(TypeHeld(s)) :
       /\ d = "cancelled" <=> exec[s].seen
       /\ domain' = [domain EXCEPT ![Held(s)] = d]
       /\ exec' = [exec EXCEPT ![s].pc = Ended(TypeHeld(s), d).pc,
                               ![s].outcome = Ended(TypeHeld(s), d).outcome]
  /\ job' = [job EXCEPT ![Held(s)] = Renewed(@)]
  /\ UNCHANGED <<staged, pass, call, nextToken, faults>>

\* The structured content handler returns without a last commit.
HandlerReturn(s) ==
  /\ exec[s].pc = "working"
  /\ TypeHeld(s) = "structured_content_build"
  /\ \E o \in {"completed", "completed_with_errors"} :
       exec' = [exec EXCEPT ![s].pc = "returned", ![s].outcome = o]
  /\ UNCHANGED <<job, domain, staged, pass, call, nextToken, faults>>

\* Guard, evaluation and job completion in one transaction.
FindingRun(s) ==
  /\ exec[s].pc = "working"
  /\ TypeHeld(s) = "finding_evaluation"
  /\ Owns(s)
  /\ domain' = [domain EXCEPT ![Held(s)] = "completed"]
  /\ job' = [job EXCEPT ![Held(s)] = Settled(@, "completed")]
  /\ Release(s)
  /\ UNCHANGED <<staged, pass, call, nextToken, faults>>

\* Any other exception of the handler.
HandlerRaise(s) ==
  /\ exec[s].pc = "working" \/ (exec[s].pc = "claimed" /\ ~exec[s].seen)
  /\ Goto(s, "failing")
  /\ UNCHANGED <<job, domain, staged, pass, call, nextToken, faults>>

\* The task is cancelled at an await.
Shutdown(s) ==
  /\ exec[s].pc \in {"claimed", "working"}
  /\ Goto(s, "interrupting")
  /\ UNCHANGED <<job, domain, staged, pass, call, nextToken, faults>>

\* A heartbeat, progress report or fence that matches no row ends the execution.
LoseLease(s) ==
  /\ exec[s].pc \in {"claimed", "working"}
  /\ ~Owns(s)
  /\ Release(s)
  /\ UNCHANGED <<job, domain, staged, pass, call, nextToken, faults>>

-----------------------------------------------------------------------------
(***************************************************************************)
(* Settling the job.                                                       *)
(***************************************************************************)

\* The follow-ups that are due may turn out to exist already, or for a projection or a
\* category run to be none.
NothingToStage(s) ==
  \/ ~FollowupsDue(TypeHeld(s), domain[Held(s)])
  \/ staged[Held(s)]
  \/ TypeHeld(s) # "scan"

\* Creating follow-ups takes the write lock, and the ownership check after it is in the
\* same transaction as the status.
PersistFollowups(s) ==
  /\ exec[s].pc = "returned"
  /\ FollowupsDue(TypeHeld(s), domain[Held(s)])
  /\ Owns(s)
  /\ staged' = [staged EXCEPT ![Held(s)] = TRUE]
  /\ job' = [job EXCEPT ![Held(s)] = Settled(@, exec[s].outcome)]
  /\ Release(s)
  /\ UNCHANGED <<domain, pass, call, nextToken, faults>>

\* With nothing to create, the ownership check is a SELECT ...
PersistCheck(s) ==
  /\ exec[s].pc = "returned"
  /\ NothingToStage(s)
  /\ Owns(s)
  /\ Goto(s, "persisting")
  /\ staged' = [staged EXCEPT ![Held(s)] = @ \/ FollowupsDue(TypeHeld(s), domain[Held(s)])]
  /\ UNCHANGED <<job, domain, pass, call, nextToken, faults>>

\* ... and the flush that follows writes by primary key.
PersistWrite(s) ==
  /\ exec[s].pc = "persisting"
  /\ job' = [job EXCEPT ![Held(s)] = Settled(@, exec[s].outcome)]
  /\ Release(s)
  /\ UNCHANGED <<domain, staged, pass, call, nextToken, faults>>

PersistStale(s) ==
  /\ exec[s].pc = "returned"
  /\ ~Owns(s)
  /\ Release(s)
  /\ UNCHANGED <<job, domain, staged, pass, call, nextToken, faults>>

\* RequiredFollowupPersistenceError: the job is left to lease recovery.
FollowupsFail(s) ==
  /\ exec[s].pc = "returned"
  /\ FollowupsDue(TypeHeld(s), domain[Held(s)])
  /\ Release(s)
  /\ UNCHANGED <<job, domain, staged, pass, call, nextToken, faults>>

\* complete_job or fail_job cannot get the write lock: an exception like any other.
PersistLocked(s) ==
  /\ exec[s].pc = "persisting"
  /\ Goto(s, "failing")
  /\ UNCHANGED <<job, domain, staged, pass, call, nextToken, faults>>

\* _terminalize_cancelled_job, _failed_job and _interrupted_job: guard, record and job in
\* one transaction.
Terminalize(s, phase, hook, st, Hook(_, _)) ==
  /\ exec[s].pc = phase
  /\ Owns(s)
  /\ domain' = [domain EXCEPT ![Held(s)] = Hook(TypeHeld(s), @)]
  /\ staged' = [staged EXCEPT ![Held(s)] = @ \/ StagesFollowups(TypeHeld(s), hook)]
  /\ job' = [job EXCEPT ![Held(s)] = Settled(@, st)]
  /\ Release(s)
  /\ UNCHANGED <<pass, call, nextToken, faults>>

ShutDown(t, d) == Interrupted(t, d, "worker_shutdown")

TerminalizeCancelled(s) == Terminalize(s, "cancelling", "cancelled", "cancelled", Cancelled)

TerminalizeFailed(s) == Terminalize(s, "failing", "failed", "failed", Failed)

TerminalizeInterrupted(s) ==
  Terminalize(s, "interrupting", "worker_shutdown", "interrupted", ShutDown)

\* The guard matches no row ...
TerminalizeStale(s) ==
  /\ exec[s].pc \in {"cancelling", "failing", "interrupting"}
  /\ ~Owns(s)
  /\ Release(s)
  /\ UNCHANGED <<job, domain, staged, pass, call, nextToken, faults>>

\* ... or the write lock cannot be had, and the exception ends the task, as it does when the
\* start of the execution cannot be logged.  Either way the job is left as it is.
TerminalizeLocked(s) ==
  /\ exec[s].pc \in {"claimed", "cancelling", "failing", "interrupting"}
  /\ Owns(s)
  /\ Release(s)
  /\ UNCHANGED <<job, domain, staged, pass, call, nextToken, faults>>

-----------------------------------------------------------------------------
(***************************************************************************)
(* Recovery of expired leases.                                             *)
(***************************************************************************)

Expired == {j \in Jobs : job[j].status = "running" /\ job[j].lease = "expired"}

\* What reconcile_job_with_domain would settle, as the job and its record are now.
Reconcilable(j) == Reconciled(job[j].type, domain[j]) # "none"

Stamped(row) == [row EXCEPT !.token = nextToken]

\* Mutants of Planned: every reconciled job completed; the record left out.
PlannedCompleted(j) ==
  [status |-> IF Reconcilable(j) THEN "completed" ELSE "interrupted",
   domain |-> IF Reconcilable(j) THEN domain[j]
                                 ELSE Interrupted(job[j].type, domain[j], "lease_expired")]

PlannedJobOnly(j) ==
  [status |-> IF Reconcilable(j) THEN Reconciled(job[j].type, domain[j]) ELSE "interrupted",
   domain |-> domain[j]]

\* What recovery makes of the job and its record, as they are now.
Planned(j) ==
  IF Reconcilable(j)
  THEN [status |-> Reconciled(job[j].type, domain[j]), domain |-> domain[j]]
  ELSE [status |-> "interrupted",
        domain |-> Interrupted(job[j].type, domain[j], "lease_expired")]

\* A reconciliation creates the follow-ups of the record, an interruption does not.
StagedBy(j, plan) ==
  plan.status \notin {"none", "interrupted"} /\ FollowupsDue(job[j].type, plan.domain)

WorkerIdle(w) == \A s \in Slots : WorkerOf[s] = w => exec[s].pc = "idle"

\* One UPDATE stamps every expired row and holds the write lock, until the first row that
\* is reconciled commits; that commit covers the rows before it too.  The rows after it are
\* still to do.
RecoverStamp(w) ==
  /\ pass[w].pc = "idle"
  /\ WorkerIdle(w)
  /\ Expired # {}
  /\ nextToken <= MaxTokens
  /\ \E first \in SUBSET {j \in Expired : ~Reconcilable(j)}, last \in SUBSET Expired :
       /\ last \subseteq {j \in Expired : Reconcilable(j)}
       /\ IF \E j \in Expired : Reconcilable(j)
          THEN Cardinality(last) = 1
          ELSE last = {} /\ first = Expired
       /\ job' = [j \in Jobs |->
                    CASE j \in first -> [Stamped(job[j]) EXCEPT !.status = "interrupted"]
                      [] j \in last  -> Settled(Stamped(job[j]), Planned(j).status)
                      [] j \in Expired \ (first \cup last) -> Stamped(job[j])
                      [] OTHER      -> job[j]]
       /\ domain' = [j \in Jobs |-> IF j \in first THEN Planned(j).domain ELSE domain[j]]
       /\ staged' = [j \in Jobs |-> staged[j] \/ (j \in last /\ StagedBy(j, Planned(j)))]
       /\ pass' = [pass EXCEPT ![w] =
                     IF Expired = first \cup last
                     THEN NoPass
                     ELSE [NoPass EXCEPT !.pc = "looping", !.token = nextToken,
                                         !.todo = Expired \ (first \cup last)]]
  /\ nextToken' = nextToken + 1
  /\ UNCHANGED <<exec, call, faults>>

\* The loop reads the next row again, without the write lock.
RecoverRead(w, j) ==
  /\ pass[w].pc = "looping"
  /\ j \in pass[w].todo
  /\ Planned(j).status \in LegalTransitions[job[j].status]
  /\ pass' = [pass EXCEPT ![w].todo = @ \ {j},
                          ![w].pc = IF Reconcilable(j) THEN "flushing" ELSE @,
                          ![w].plan[j] = Planned(j)]
  /\ UNCHANGED <<job, domain, staged, exec, call, nextToken, faults>>

\* ensure_transition refuses a row that has ended meanwhile, or is queued again; the pass and
\* its worker end.
RecoverError(w, j) ==
  /\ pass[w].pc = "looping"
  /\ j \in pass[w].todo
  /\ Planned(j).status \notin LegalTransitions[job[j].status]
  /\ pass' = [pass EXCEPT ![w] = [NoPass EXCEPT !.pc = "error"]]
  /\ UNCHANGED <<job, domain, staged, exec, call, nextToken, faults>>

\* The commit of a reconciled row, or of the whole pass at its end, flushes what is planned.
RecoverCommit(w) ==
  /\ \/ pass[w].pc = "flushing"
     \/ pass[w].pc = "looping" /\ pass[w].todo = {}
  /\ LET plan == pass[w].plan
         due == {j \in Jobs : plan[j] # NoPlan}
         New(j) == IF plan[j].status = "interrupted"
                   THEN [job[j] EXCEPT !.status = "interrupted"]
                   ELSE Settled(job[j], plan[j].status)
     IN /\ job' = [j \in Jobs |-> IF j \in due THEN New(j) ELSE job[j]]
        /\ domain' = [j \in Jobs |-> IF j \in due THEN plan[j].domain ELSE domain[j]]
        /\ staged' = [j \in Jobs |-> staged[j] \/ StagedBy(j, plan[j])]
  /\ pass' = [pass EXCEPT ![w] = IF @.todo = {} THEN NoPass
                                 ELSE [@ EXCEPT !.pc = "looping", !.plan = NoPass.plan]]
  /\ UNCHANGED <<exec, call, nextToken, faults>>

\* A pass that cannot get the write lock, or fails to create follow-ups, is rolled back.
RecoverAbort(w) ==
  /\ faults < MaxFaults
  /\ pass[w].pc \in {"looping", "flushing"}
  /\ faults' = faults + 1
  /\ pass' = [pass EXCEPT ![w] = NoPass]
  /\ UNCHANGED <<job, domain, staged, exec, call, nextToken>>

\* A worker process dies with everything it holds in memory, and is started again.
Crash(w) ==
  /\ faults < MaxFaults
  /\ faults' = faults + 1
  /\ exec' = [s \in Slots |-> IF WorkerOf[s] = w THEN Idle ELSE exec[s]]
  /\ pass' = [pass EXCEPT ![w] = NoPass]
  /\ UNCHANGED <<job, domain, staged, call, nextToken>>

\* A worker whose recovery pass failed is started again.
Restart(w) ==
  /\ pass[w].pc = "error"
  /\ pass' = [pass EXCEPT ![w] = NoPass]
  /\ UNCHANGED <<job, domain, staged, exec, call, nextToken, faults>>

-----------------------------------------------------------------------------
Execute(s) ==
  \/ StartCancelled(s) \/ HandlerStart(s) \/ HandlerEnter(s) \/ SeeCancel(s)
  \/ HandlerEnd(s) \/ HandlerReturn(s) \/ FindingRun(s) \/ LoseLease(s)

Settle(s) ==
  \/ PersistFollowups(s) \/ PersistCheck(s) \/ PersistWrite(s) \/ PersistStale(s)
  \/ TerminalizeCancelled(s) \/ TerminalizeFailed(s) \/ TerminalizeInterrupted(s)
  \/ TerminalizeStale(s)

\* What goes wrong in an execution.
Mishap(s) ==
  \/ HandlerRaise(s) \/ Shutdown(s) \/ FollowupsFail(s) \/ PersistLocked(s)
  \/ TerminalizeLocked(s)

Claim(s) == (\E j \in Jobs : ClaimRead(s, j)) \/ ClaimWon(s) \/ ClaimLost(s)

Recover(w) ==
  \/ RecoverStamp(w)
  \/ \E j \in Jobs : RecoverRead(w, j) \/ RecoverError(w, j)
  \/ RecoverCommit(w)

Request ==
  \/ \E j \in Jobs : Enqueue(j) \/ CancelNow(j) \/ Requeue(j)
  \/ \E c \in Clients : CancelWrite(c) \/ \E j \in Jobs : CancelRead(c, j)

Next ==
  \/ Request
  \/ \E j \in Jobs : LeaseExpires(j)
  \/ \E s \in Slots : Claim(s) \/ Heartbeat(s) \/ Execute(s) \/ Settle(s) \/ Mishap(s)
  \/ \E w \in Workers : Recover(w) \/ RecoverAbort(w) \/ Restart(w) \/ Crash(w)

Spec == Init /\ [][Next]_vars

\* No execution works on the job, so nothing renews its lease.
Abandoned(j) == \A s \in Slots : Held(s) # j

\* The event loops keep running: a slot goes on claiming, a handler comes to its end, an
\* idle worker keeps looking for expired leases and is restarted when a pass kills it, and
\* a lease nobody renews runs out.  Nothing is assumed of users, failures or crashes.
Fairness ==
  /\ \A s \in Slots : WF_vars(Claim(s)) /\ WF_vars(Execute(s)) /\ WF_vars(Settle(s))
  /\ \A w \in Workers : WF_vars(Recover(w)) /\ WF_vars(Restart(w))
  /\ \A j \in Jobs : WF_vars(Abandoned(j) /\ LeaseExpires(j))
  /\ \A c \in Clients : WF_vars(CancelWrite(c))

FairSpec == Spec /\ Fairness
-----------------------------------------------------------------------------
(***************************************************************************)
(* Properties.                                                             *)
(***************************************************************************)

\* At most one execution holds the current lease of a job, whatever zombies are still
\* running with older tokens: claim, recovery and requeue never leave a token valid for two.
SingleOwner == \A s, o \in Slots : Owns(s) /\ Owns(o) /\ Held(s) = Held(o) => s = o

\* An execution that has lost its lease does not get it back: its token is never valid again,
\* however the row is recovered, requeued and claimed.
LostLeaseStaysLost ==
  [][\A s \in Slots :
       /\ ~Owns(s)
       /\ exec[s].pc \notin {"idle", "claiming"}
       /\ Held(s)' = Held(s)
       => ~Owns(s)']_vars

\* A job that has ended with a lease behind it has its required follow-ups: whichever of
\* the handler, a terminalization or recovery ended it, and wherever it crashed in between.
\* Scans that recovery interrupts (their row keeps its lease) are the exception the code
\* makes.
FollowupsStaged ==
  \A j \in Jobs :
    /\ job[j].status \in Terminal
    /\ job[j].token # 0
    /\ FollowupsDue(job[j].type, domain[j])
    /\ ~(job[j].status = "interrupted" /\ job[j].lease # "none")
    => staged[j]

\* A job reported as completed or cancelled has a record that says so too.
OutcomeAgrees ==
  \A j \in Jobs :
    /\ job[j].status \in {"completed", "completed_with_errors", "cancelled"}
    /\ job[j].type # "structured_content_build"
    => Reconciled(job[j].type, domain[j]) = job[j].status

\* No job ends and leaves its record active, with nothing to end it: through crashes,
\* recovery and failed terminalizations.  The interruption of a category run at worker
\* shutdown is the exception the code makes.
NoOrphanRecord ==
  \A j \in Jobs :
    /\ job[j].status \in Terminal
    /\ ~(job[j].type = "category_rule_evaluation" /\ job[j].status = "interrupted")
    => domain[j] \notin Active \cup ActiveBuild

\* The record of a job that has ended is not touched again by a zombie or a late recovery.
\* An evaluation is the exception: it is requeued in the same row, and a recovery pass that
\* had planned its end still writes it, over whatever became of it since.
EndedRecordFrozen ==
  [][\A j \in Jobs :
       job[j].type # "finding_evaluation" /\ job[j].status \in Terminal =>
         domain'[j] = domain[j]]_vars

\* Every change of the status of a job with a run or a build of its own is one
\* LEGAL_TRANSITIONS allows, also where the table is not asked: a claim, a late completion, a
\* cancellation and a recovery pass never make one of an ended job, or two of one.
LegalSteps ==
  [][\A j \in Jobs :
       job[j].type \in RunTypes \cup BuildTypes =>
         \/ job'[j].status = job[j].status
         \/ job[j].status = "absent" /\ job'[j].status = "queued"
         \/ job[j].status # "absent" /\ job'[j].status \in LegalTransitions[job[j].status]]_vars

\* Who holds the current lease of what.
Holdings == {p \in Slots \X Jobs : Owns(p[1]) /\ Held(p[1]) = p[2]}

\* How far an execution is: before the handler's first commit, at work, past its last one.
StageOf(phase) ==
  CASE phase \in {"idle", "claiming", "claimed"} -> 0
    [] phase = "working"                         -> 1
    [] OTHER                                     -> 2

Lease == INSTANCE JobLease WITH
           Statuses <- DomainStatuses, holds <- Holdings, record <- domain,
           stage <- [s \in Slots |-> StageOf(exec[s].pc)]

\* A record that is held is written by its holder alone, once as the handler starts and once
\* as it ends.  Any other writer of a record ends the holder's lease in the same step: no
\* cancellation, recovery or zombie changes a record under an execution that goes on.
ImplementsLease == Lease!Spec

\* An interrupted job is not completed, failed or cancelled by its former holder.
RecoveryWins ==
  [][\A j \in Jobs :
       job[j].status = "interrupted" => job'[j].status \in {"interrupted", "queued"}]_vars

\* A cancellation of a running job stores the flag and leaves the status to the handler.
RunningJobOnlyFlagged ==
  [][\A c \in Clients, j \in Jobs :
       CancelWrite(c) /\ job[j].status = "running" => job'[j].status = "running"]_vars

\* Every queued job comes to an end, whatever crashes, lock timeouts and failed passes it
\* meets on the way (as long as the bound on tokens is not what stops it).
EveryJobSettles ==
  \A j \in Jobs :
    job[j].status = "queued" ~> job[j].status \in Terminal \/ nextToken > MaxTokens
=============================================================================
