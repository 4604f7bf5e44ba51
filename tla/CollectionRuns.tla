--------------------------- MODULE CollectionRuns ---------------------------
(***************************************************************************)
(* The three collections of evidence about selected pages - Render,       *)
(* Performance and Accessibility runs - as one state machine: a run is     *)
(* created with its job, its executor visits the selected pages one by     *)
(* one, stores a payload and an observation for each, and settles the run  *)
(* and then the job.  The job itself is modelled in JobQueue; here it is   *)
(* claimed once, may be cancelled, and is recovered when its lease runs    *)
(* out, while the executor that lost it may still be at work.              *)
(*                                                                         *)
(* An action is one database transaction of one session.  Storing a        *)
(* payload file is a step of its own, inside a transaction that already    *)
(* holds the write lock.  A page stands for one request of the run: its    *)
(* provider, its dimension and its profile are left out.  A job is executed *)
(* at most once, so that no page is found observed already.                *)
(***************************************************************************)
EXTENDS Naturals, FiniteSets, JobLifecycle

CONSTANTS
  Pages,       \* the active pages of the site; numbers, in the order of their ids
  Selections,  \* the selections of pages a user makes
  MaxRuns,     \* bound on runs created
  Domains,     \* the kinds of evidence collected
  Payloads,    \* contents a payload or an artifact may have
  NoPayload,   \* no payload
  Threshold,   \* rate limited captures in a row that open the host's circuit
  MaxExecutors, \* bound on executors at work at once
  MaxRequests, \* bound on requests that create, cancel or delete
  MaxFaults    \* bound on crashes, lost leases and errors

ASSUME CollectionAssumption ==
  /\ Pages \subseteq Nat /\ IsFiniteSet(Pages)
  /\ Selections \subseteq SUBSET Pages
  /\ "render" \in Domains /\ Domains \subseteq {"render", "performance", "accessibility"}
  /\ NoPayload \notin Payloads
  /\ MaxRuns \in Nat /\ Threshold \in Nat \ {0} /\ MaxExecutors \in Nat /\ MaxRequests \in Nat /\ MaxFaults \in Nat

VARIABLES
  run,     \* the runs created so far with their jobs and counters
  obs,     \* the observations of each run, by page
  exec,    \* the executor of each run
  rows,    \* payload rows, by domain
  files,   \* payload files, by domain
  late,    \* pages visited after the run's cancellation was requested
  spent    \* requests, and crashes, lost leases and errors, so far

runVars == <<run, obs, exec, rows, files, late, spent>>

-----------------------------------------------------------------------------
Runs == 1 .. MaxRuns

\* Outcomes of an observation by kind; "unavailable" is a failed answer of a provider here.
RenderStates == {"capturing", "ready", "failed", "skipped", "cancelled", "interrupted"}
PerformanceOutcomes == {"ready", "failed"}
AccessibilityOutcomes == {"ready", "failed"}

\* Outcomes that answer for a page.
Answered == PerformanceOutcomes \cup AccessibilityOutcomes

ObsStates == {"none"} \cup RenderStates \cup Answered

Unobserved == [state |-> "none", payload |-> NoPayload]

Resting == [at |-> "idle", todo |-> {}, payload |-> NoPayload, streak |-> 0]

Phases == {"idle", "start", "next", "picked", "opened", "visit", "stored", "counting",
           "stopping", "done"}

NoRun == [domain |-> "none", status |-> "none", job |-> "none", cancel |-> FALSE,
          targets |-> {}, attempted |-> 0, ready |-> 0, failed |-> 0, skipped |-> 0]

\* The rows of a deleted run are gone; its number is not used again.
DeletedRun == [NoRun EXCEPT !.status = "deleted"]

RunsTypeOK ==
  /\ run \in [Runs -> [domain: Domains \cup {"none"}, status: JobStatuses \cup {"none", "deleted"},
                       job: JobStatuses \cup {"none"}, cancel: BOOLEAN, targets: SUBSET Pages,
                       attempted: Nat, ready: Nat, failed: Nat, skipped: Nat]]
  /\ obs \in [Runs -> [Pages -> [state: ObsStates, payload: Payloads \cup {NoPayload}]]]
  /\ exec \in [Runs -> [at: Phases, todo: SUBSET Pages, streak: Nat,
                        payload: Payloads \cup {NoPayload}]]
  /\ rows \in [Domains -> SUBSET Payloads]
  /\ files \in [Domains -> SUBSET Payloads]
  /\ late \in [Runs -> Nat]
  /\ spent \in [requests: 0 .. MaxRequests, faults: 0 .. MaxFaults]

RunsInit ==
  /\ run = [r \in Runs |-> NoRun]
  /\ obs = [r \in Runs |-> [p \in Pages |-> Unobserved]]
  /\ exec = [r \in Runs |-> Resting]
  /\ rows = [d \in Domains |-> {}]
  /\ files = [d \in Domains |-> {}]
  /\ late = [r \in Runs |-> 0]
  /\ spent = [requests |-> 0, faults |-> 0]

-----------------------------------------------------------------------------
Least(S) == CHOOSE p \in S : \A q \in S : p <= q

Visiting(r) == Least(exec[r].todo)

ActiveJob(r) == run[r].job \in Active

\* Nobody is between its first write and its commit.
Unlocked == \A r \in Runs : exec[r].at # "stored"

Goto(r, phase) == exec' = [exec EXCEPT ![r].at = phase]

\* Mutant of Owns: a session that writes without the fence.
OwnsUnfenced(r) == Unlocked

\* fence_domain_mutation: the job is still running under this executor's lease.
Owns(r) == Unlocked /\ run[r].job = "running"

-----------------------------------------------------------------------------
(* Requests.                                                               *)

Ask == spent.requests < MaxRequests /\ spent' = [spent EXCEPT !.requests = @ + 1]

NewRun(d, targets) ==
  [NoRun EXCEPT !.domain = d, !.status = "queued", !.job = "queued", !.targets = targets]

Unused(r) == run[r] = NoRun

\* Runs are numbered as they are created.
NextRun(r) == Unused(r) /\ \A q \in Runs : Unused(q) => r <= q

\* A run for the selected pages, with its job.
CreateRun(d, targets) ==
  /\ Ask
  /\ Unlocked
  /\ targets # {}
  /\ \E r \in Runs : NextRun(r) /\ run' = [run EXCEPT ![r] = NewRun(d, targets)]
  /\ UNCHANGED <<obs, exec, rows, files, late>>

\* A render run of targets of an earlier one.
CreateRerender(source, targets) ==
  /\ run[source].domain = "render"
  /\ targets \subseteq run[source].targets
  /\ CreateRun("render", targets)

\* A run whose job is still queued ends with it; a running one is asked to stop.
CancelledRow(row) ==
  CASE row.job = "queued"  -> [row EXCEPT !.job = "cancelled", !.cancel = TRUE,
                                  !.status = IF @ = "queued" THEN "cancelled" ELSE @]
    [] row.job = "running" -> [row EXCEPT !.cancel = TRUE]
    [] OTHER               -> row

CancelRun(r) ==
  /\ Ask
  /\ Unlocked
  /\ ActiveJob(r) /\ ~run[r].cancel
  /\ run' = [run EXCEPT ![r] = CancelledRow(@)]
  /\ UNCHANGED <<obs, exec, rows, files, late>>

-----------------------------------------------------------------------------
(* The executor.                                                           *)

Claim(r) ==
  /\ Unlocked
  /\ run[r].job = "queued" /\ exec[r].at = "idle"
  /\ Cardinality({s \in Runs : exec[s].at # "idle"}) < MaxExecutors
  /\ run' = [run EXCEPT ![r].job = "running"]
  /\ Goto(r, "start")
  /\ UNCHANGED <<obs, rows, files, late, spent>>

\* Statuses in which execution returns the run as it is.
Returned(d) ==
  IF d = "render" THEN Terminal ELSE {"completed", "completed_with_errors", "cancelled"}

Begin(r) ==
  /\ exec[r].at = "start"
  /\ Owns(r)
  /\ IF run[r].status \in Returned(run[r].domain)
     THEN Goto(r, "done") /\ UNCHANGED run
     ELSE /\ run' = [run EXCEPT ![r].status = "running"]
          /\ exec' = [exec EXCEPT ![r].at = "next", ![r].todo = run[r].targets]
  /\ UNCHANGED <<obs, rows, files, late, spent>>

\* Mutant of SeesCancel: looked at only before the first page.
SeesCancelOnce(r) == run[r].cancel /\ exec[r].todo = run[r].targets

SeesCancel(r) == run[r].cancel

\* should_cancel, read before each page.
CheckCancel(r) ==
  /\ exec[r].at = "next" /\ exec[r].todo # {}
  /\ Goto(r, IF SeesCancel(r) THEN "stopping"
             ELSE IF run[r].domain = "render" THEN "picked" ELSE "visit")
  /\ late' = [late EXCEPT ![r] = IF run[r].cancel /\ ~SeesCancel(r) THEN @ + 1 ELSE @]
  /\ UNCHANGED <<run, obs, rows, files, spent>>

\* A render run commits the observation before the browser opens the page ...
Open(r) ==
  /\ exec[r].at = "picked"
  /\ Owns(r)
  /\ obs' = [obs EXCEPT ![r][Visiting(r)].state = "capturing"]
  /\ Goto(r, "opened")
  /\ late' = [late EXCEPT ![r] = IF run[r].cancel THEN @ + 1 ELSE @]
  /\ UNCHANGED <<run, rows, files, spent>>

Tripped(r) == exec[r].streak >= Threshold

\* ... and then the attempt.
Attempt(r) ==
  /\ exec[r].at = "opened" /\ ~Tripped(r)
  /\ Owns(r)
  /\ run' = [run EXCEPT ![r].attempted = @ + 1]
  /\ Goto(r, "visit")
  /\ UNCHANGED <<obs, rows, files, late, spent>>

\* The circuit of a host that kept answering "too many requests" stays open: its pages are
\* skipped.
Skip(r) ==
  /\ exec[r].at = "opened" /\ Tripped(r)
  /\ Owns(r)
  /\ obs' = [obs EXCEPT ![r][Visiting(r)].state = "skipped"]
  /\ Goto(r, "counting")
  /\ UNCHANGED <<run, rows, files, late, spent>>

\* put, for the content a visit returned: content whose row exists is not written again; a
\* file is replaced atomically.
Store(r) ==
  /\ exec[r].at = "visit"
  /\ Owns(r)
  /\ \E x \in Payloads :
       /\ exec' = [exec EXCEPT ![r].at = "stored", ![r].payload = x]
       /\ files' = IF x \in rows[run[r].domain] THEN files
                   ELSE [files EXCEPT ![run[r].domain] = @ \cup {x}]
  /\ UNCHANGED <<run, obs, rows, late, spent>>

Observe(r, state, payload, streak) ==
  /\ obs' = [obs EXCEPT ![r][Visiting(r)] = [state |-> state, payload |-> payload]]
  /\ exec' = [exec EXCEPT ![r] = [at |-> "counting", todo |-> exec[r].todo,
                                  payload |-> NoPayload, streak |-> streak]]

\* The observation and its payload row in one commit.
Persist(r) ==
  /\ exec[r].at = "stored"
  /\ Observe(r, "ready", exec[r].payload, 0)
  /\ rows' = [rows EXCEPT ![run[r].domain] = @ \cup {exec[r].payload}]
  /\ UNCHANGED <<run, files, late, spent>>

\* A visit without evidence; HostRateLimitCircuitBreaker counts the rate limited ones in a row.
PersistFailure(r) ==
  /\ exec[r].at = "visit"
  /\ Owns(r)
  /\ \/ Observe(r, "failed", NoPayload, 0)
     \/ run[r].domain = "render" /\ Observe(r, "failed", NoPayload, exec[r].streak + 1)
  /\ UNCHANGED <<run, rows, files, late, spent>>

\* A capture polls for the cancellation while it waits ...
CancelObservation(r) ==
  /\ exec[r].at = "visit" /\ run[r].domain = "render"
  /\ run[r].cancel
  /\ Owns(r)
  /\ obs' = [obs EXCEPT ![r][Visiting(r)].state = "cancelled"]
  /\ Goto(r, "stopping")
  /\ UNCHANGED <<run, rows, files, late, spent>>

\* ... and so does the wait for the provider's quota.
WaitCancelled(r) ==
  /\ exec[r].at = "visit" /\ run[r].domain = "performance"
  /\ run[r].cancel
  /\ Goto(r, "stopping")
  /\ UNCHANGED <<run, obs, rows, files, late, spent>>

InState(r, S) == Cardinality({p \in Pages : obs[r][p].state \in S})

\* Mutant of Failures: whatever did not succeed, skipped pages included.
FailuresOrSkips(r) == InState(r, ObsStates \ {"none", "ready"})

\* Mutant of Failures: the attempts without success.
FailuresOfAttempts(r) == run[r].attempted - InState(r, {"ready"})

\* A render run counts as failed every observation it does not count otherwise.
Failures(r) ==
  IF run[r].domain = "render" THEN InState(r, ObsStates \ {"none", "ready", "skipped"})
                              ELSE InState(r, {"failed"})

\* The counters are recomputed from the observations after each page.
Count(r) ==
  /\ exec[r].at = "counting"
  /\ Owns(r)
  /\ run' = [run EXCEPT ![r] = [@ EXCEPT !.ready = InState(r, {"ready"}),
                                         !.failed = Failures(r),
                                         !.skipped = InState(r, {"skipped"})]]
  /\ exec' = [exec EXCEPT ![r].at = "next", ![r].todo = @ \ {Visiting(r)}]
  /\ UNCHANGED <<obs, rows, files, late, spent>>

\* _mark_cancelled
Stop(r) ==
  /\ exec[r].at = "stopping"
  /\ Owns(r)
  /\ run' = [run EXCEPT ![r].status = "cancelled"]
  /\ Goto(r, "done")
  /\ UNCHANGED <<obs, rows, files, late, spent>>

WithErrors(row) == row.failed > 0 \/ row.skipped > 0

Ending(row) == IF WithErrors(row) THEN "completed_with_errors" ELSE "completed"

Finish(r) ==
  /\ exec[r].at = "next" /\ exec[r].todo = {}
  /\ Owns(r)
  /\ run' = [run EXCEPT ![r].status = Ending(run[r])]
  /\ Goto(r, "done")
  /\ UNCHANGED <<obs, rows, files, late, spent>>

Settled(row) ==
  [row EXCEPT !.job = IF row.status = "cancelled" THEN "cancelled" ELSE Ending(row)]

\* The handler's result settles the job.
Settle(r) ==
  /\ exec[r].at = "done"
  /\ Owns(r)
  /\ run' = [run EXCEPT ![r] = Settled(@)]
  /\ exec' = [exec EXCEPT ![r] = Resting]
  /\ UNCHANGED <<obs, rows, files, late, spent>>

\* An executor whose lease is lost, or whose rows are gone, writes nothing more.
LoseLease(r) ==
  /\ exec[r].at # "idle" /\ run[r].job # "running"
  /\ exec' = [exec EXCEPT ![r] = Resting]
  /\ UNCHANGED <<run, obs, rows, files, late, spent>>

-----------------------------------------------------------------------------
(* Errors, crashes and recovery.                                           *)

Fault == spent.faults < MaxFaults /\ spent' = [spent EXCEPT !.faults = @ + 1]

\* An exception of the handler fails the run and the job; an open capture stays open.
Fail(r) ==
  /\ Fault
  /\ exec[r].at \notin {"idle", "done"}
  /\ Unlocked \/ exec[r].at = "stored"
  /\ run[r].job = "running"
  /\ run' = [run EXCEPT ![r].job = "failed", ![r].status = "failed"]
  /\ exec' = [exec EXCEPT ![r] = Resting]
  /\ UNCHANGED <<obs, rows, files, late>>

\* What is not committed is lost; a file written is not.
Crash(r) ==
  /\ Fault
  /\ exec[r].at # "idle"
  /\ exec' = [exec EXCEPT ![r] = Resting]
  /\ UNCHANGED <<run, obs, rows, files, late>>

InterruptedStatus(d) == IF d = "performance" THEN "failed" ELSE "interrupted"

\* The run as it stands settles the job; a run under way ends with it, as do the captures of
\* a render run that are still open.
Recover(r) ==
  /\ Unlocked
  /\ run[r].job = "running"
  /\ IF exec[r].at = "idle" THEN UNCHANGED spent ELSE Fault
  /\ IF run[r].status \in Terminal
     THEN run' = [run EXCEPT ![r].job = run[r].status] /\ UNCHANGED obs
     ELSE /\ run' = [run EXCEPT ![r].job = "interrupted",
                                ![r].status = InterruptedStatus(run[r].domain)]
          /\ obs' = [obs EXCEPT ![r] = [p \in Pages |->
                       IF obs[r][p].state = "capturing"
                       THEN [obs[r][p] EXCEPT !.state = "interrupted"] ELSE obs[r][p]]]
  /\ UNCHANGED <<exec, rows, files, late>>

-----------------------------------------------------------------------------
Execute(r) ==
  \/ Claim(r) \/ Begin(r) \/ CheckCancel(r) \/ Open(r) \/ Attempt(r) \/ Skip(r)
  \/ Persist(r) \/ PersistFailure(r) \/ CancelObservation(r) \/ WaitCancelled(r)
  \/ Count(r) \/ Stop(r) \/ Finish(r) \/ Settle(r) \/ LoseLease(r)

Mishap(r) == Fail(r) \/ Crash(r) \/ Recover(r)

\* A scan starts a render run for the pages it selects.
CreateScanRenderRun(targets) == CreateRun("render", targets)

Request ==
  \/ \E d \in Domains, targets \in Selections : CreateRun(d, targets)
  \/ \E source \in Runs, targets \in Selections : CreateRerender(source, targets)
  \/ \E targets \in Selections : CreateScanRenderRun(targets)
  \/ \E r \in Runs : CancelRun(r)

\* Store is left to the module that knows what is being deleted meanwhile.
RunsNext == Request \/ \E r \in Runs : Execute(r) \/ Mishap(r)
=============================================================================
