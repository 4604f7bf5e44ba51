------------------------------ MODULE Findings ------------------------------
(***************************************************************************)
(* The Findings of one Site: evaluations that freeze what they look at,    *)
(* the jobs that run them, what they make of each finding, and the users   *)
(* who acknowledge, delete and reset.                                      *)
(*                                                                         *)
(* An evaluation runs in the transaction of its job                        *)
(* (FindingEvaluationJobHandler), which holds the write lock from          *)
(* guard_terminalization on, and what creates, deletes or resets takes the *)
(* same lock first: each is one action here.  The lease of the job is      *)
(* JobQueue's concern.  SQLite gives the id of a deleted row that was the  *)
(* highest to the next one, of scans and evaluations alike.                *)
(*                                                                         *)
(* Times are evidence times: a clock that each scan and each refresh moves *)
(* on.  All snapshots of a scan carry one time, all refreshes of a tree    *)
(* another, and scans end in the order they were created.                  *)
(***************************************************************************)
EXTENDS FindingDetectors

CONSTANTS
  Pages,           \* resource ids of the Site's pages
  Roots,           \* sitemap sources that no index discovered
  Detectors,       \* the detectors told apart
  Crawls,          \* what a scan may have observed
  Trees,           \* what a refresh of a root may have brought
  MaxScans, MaxRefreshes, MaxEvaluations, MaxSwitches, MaxRetries \* bounds

ASSUME FindingsAssumption ==
  /\ Detectors \subseteq CurrentFindingDetectors
  /\ \A n \in {MaxScans, MaxRefreshes, MaxEvaluations, MaxSwitches, MaxRetries} : n \in Nat

VARIABLES
  clock,      \* the latest evidence time
  scan,       \* retained scans by id
  refresh,    \* refreshes of roots, oldest first
  source,     \* the roots
  active,     \* pages in the active workspace
  evaluation, \* finding_evaluations by id
  job,        \* status of each evaluation's job
  finding,    \* findings by detector and page
  switches, retries \* bounds' counters

vars == <<clock, scan, refresh, source, active, evaluation, job, finding, switches, retries>>

ScanIds == 1..MaxScans
EvaluationIds == 1..MaxEvaluations
Keys == Detectors \X Pages
None == 0  \* no time, no id

Times == 0..(MaxScans + MaxRefreshes)

Paths == {m.path : m \in UNION {t.nodes : t \in Trees}}

NoScan == [at |-> None]
NoEvaluation == [status |-> "none"]
NoFinding == [state |-> "none"]

ActiveStatuses == {"queued", "running"}

Retained == {i \in ScanIds : scan[i] # NoScan}
Evaluated == {e \in EvaluationIds : evaluation[e] # NoEvaluation}

\* The id a new row gets.
NextId(ids) == 1 + Max(ids \cup {0})

Outcomes == {"none", "detected", "clear", "unknown"}

IsEvaluation(e) ==
  /\ e.status \in {"queued", "completed", "failed", "cancelled"}
  /\ e.scan \in ScanIds /\ e.kept \in BOOLEAN
  /\ e.universe \subseteq Pages /\ e.horizon \in Times
  /\ DOMAIN e.roots \subseteq Roots /\ \A r \in DOMAIN e.roots : e.roots[r] \in 0..MaxRefreshes

IsFinding(f) ==
  /\ f.state \in {"detected", "resolved", "unknown"}
  /\ f.severity \in Severities \cup {"none"}
  /\ {f.last, f.evaluated, f.resolved, f.reopened} \subseteq Times
  /\ f.acknowledged \in BOOLEAN
  /\ f.assessed \in [EvaluationIds -> Outcomes]
  /\ f.current \in EvaluationIds

TypeOK ==
  /\ clock \in Times
  /\ \A i \in Retained : scan[i].at \in Times /\ scan[i].crawl \in Crawls
  /\ \A n \in 1..Len(refresh) : /\ refresh[n].root \in Roots /\ refresh[n].at \in Times
                                /\ refresh[n].tree \in Trees /\ refresh[n].gone \subseteq refresh[n].tree.nodes
  /\ source \in [Roots -> {"active", "inactive", "deleted"}]
  /\ active \subseteq Pages
  /\ \A e \in Evaluated : IsEvaluation(evaluation[e])
  /\ job \in [EvaluationIds -> ActiveStatuses \cup {"none", "completed", "failed", "cancelled", "interrupted"}]
  /\ \A k \in Keys : finding[k] = NoFinding \/ IsFinding(finding[k])
  /\ \A k \in Keys : finding[k] # NoFinding => (finding[k].severity # "none" <=> finding[k].state = "detected")
  /\ switches \in 0..MaxSwitches /\ retries \in 0..MaxRetries

Init ==
  /\ clock = None
  /\ scan = [i \in ScanIds |-> NoScan]
  /\ refresh = <<>>
  /\ source = [r \in Roots |-> "active"]
  /\ active = Pages
  /\ evaluation = [e \in EvaluationIds |-> NoEvaluation]
  /\ job = [e \in EvaluationIds |-> "none"]
  /\ finding = [k \in Keys |-> NoFinding]
  /\ switches = 0 /\ retries = 0

Switch == switches < MaxSwitches /\ switches' = switches + 1

------------------------------------------------------------------------------
(* Evidence comes and goes.                                                *)

ScanEnds(crawl) ==
  /\ NextId(Retained) \in ScanIds /\ clock < MaxScans + MaxRefreshes
  /\ clock' = clock + 1
  /\ scan' = [scan EXCEPT ![NextId(Retained)] = [at |-> clock', crawl |-> crawl]]
  /\ UNCHANGED <<refresh, source, active, evaluation, job, finding, switches, retries>>

\* The foreign key of the evaluations is set to null.
DeleteScan(i) ==
  /\ i \in Retained /\ Switch
  /\ scan' = [scan EXCEPT ![i] = NoScan]
  /\ evaluation' = [e \in EvaluationIds |->
       IF e \in Evaluated /\ evaluation[e].scan = i THEN [evaluation[e] EXCEPT !.kept = FALSE]
       ELSE evaluation[e]]
  /\ UNCHANGED <<clock, refresh, source, active, job, finding, retries>>

Refresh(r, tree) ==
  /\ source[r] # "deleted" /\ Len(refresh) < MaxRefreshes /\ clock < MaxScans + MaxRefreshes
  /\ clock' = clock + 1
  /\ refresh' = Append(refresh, [root |-> r, at |-> clock', tree |-> tree, gone |-> {}])
  /\ UNCHANGED <<scan, source, active, evaluation, job, finding, switches, retries>>

SwitchSource(r, state) ==
  /\ source[r] # "deleted" /\ source[r] # state /\ Switch
  /\ source' = [source EXCEPT ![r] = state]
  /\ UNCHANGED <<clock, scan, refresh, active, evaluation, job, finding, retries>>

\* A source that an index discovered takes its refreshes with it, and those of what it discovered;
\* the refreshes of the index still name them.
DeleteChild(r, path) ==
  /\ path # <<>> /\ source[r] # "deleted" /\ Switch
  /\ refresh' = [n \in 1..Len(refresh) |->
       IF refresh[n].root # r THEN refresh[n]
       ELSE [refresh[n] EXCEPT !.gone = @ \cup {m \in refresh[n].tree.nodes : IsPrefix(path, m.path)}]]
  /\ refresh' # refresh
  /\ UNCHANGED <<clock, scan, source, active, evaluation, job, finding, retries>>

SwitchPage(p) ==
  /\ Switch
  /\ active' = IF p \in active THEN active \ {p} ELSE active \cup {p}
  /\ UNCHANGED <<clock, scan, refresh, source, evaluation, job, finding, retries>>

------------------------------------------------------------------------------
(* create_evaluation                                                       *)

EligibleStatuses == {"completed", "completed_with_errors"}

Latest(r) == Max({n \in 1..Len(refresh) : refresh[n].root = r} \cup {None})

\* selected_tree: the latest refresh that ended, if it is of use.
Selected(r) ==
  IF Latest(r) # None /\ refresh[Latest(r)].tree.status \in EligibleStatuses THEN Latest(r) ELSE None

Manifest == [r \in {r \in Roots : source[r] = "active"} |-> Selected(r)]

Current == Max(Retained)

Horizon == Max({scan[Current].at} \cup {refresh[Manifest[r]].at : r \in {r \in DOMAIN Manifest : Manifest[r] # None}})

Frozen == [status |-> "queued", scan |-> Current, kept |-> TRUE, roots |-> Manifest,
           universe |-> active, horizon |-> Horizon]

SameInput(e) ==
  /\ e \in Evaluated
  /\ evaluation[e].scan = Current
  /\ evaluation[e].roots = Manifest
  /\ evaluation[e].universe = active

Same == {e \in EvaluationIds : SameInput(e)}

\* enqueue_finding_evaluation_job: an ended job of the key refuses.
CreateEvaluation ==
  /\ Same = {}
  /\ NextId(Evaluated) \in EvaluationIds
  /\ job[NextId(Evaluated)] = "none"
  /\ evaluation' = [evaluation EXCEPT ![NextId(Evaluated)] = Frozen]
  /\ job' = [job EXCEPT ![NextId(Evaluated)] = "queued"]
  /\ UNCHANGED retries

\* requeue_finding_evaluation_job
Requeue(e) ==
  /\ evaluation[e].status \in {"failed", "cancelled"}
  /\ job[e] \in {"failed", "cancelled", "interrupted"}
  /\ retries < MaxRetries /\ retries' = retries + 1
  /\ evaluation' = [evaluation EXCEPT ![e].status = "queued"]
  /\ job' = [job EXCEPT ![e] = "queued"]

\* _build_evidence_manifest refuses a tree some of whose refreshes are no longer there.
NothingMissing == \A r \in DOMAIN Manifest : Manifest[r] # None => refresh[Manifest[r]].gone = {}

\* post_finding_evaluation; an evaluation of the same input that is under way or done is its answer.
RequestEvaluation ==
  /\ Retained # {} /\ NothingMissing
  /\ CreateEvaluation \/ \E e \in Same : Requeue(e)
  /\ UNCHANGED <<clock, scan, refresh, source, active, finding, switches>>

------------------------------------------------------------------------------
(* execute_evaluation                                                      *)

Claim(e) ==
  /\ job[e] = "queued"
  /\ job' = [job EXCEPT ![e] = "running"]
  /\ UNCHANGED <<clock, scan, refresh, source, active, evaluation, finding, switches, retries>>

\* Nodes of a tree are told apart by their paths; _collect_usable_sitemap_leaves goes into the
\* children of an index that passes.
Passes(node) ==
  /\ node.status \in EligibleStatuses
  /\ \/ node.type = "urlset" /\ node.materialized
     \/ node.type = "sitemapindex" /\ ~node.materialized /\ ~node.rejected

Reached(tree, node) ==
  \A above \in tree.nodes : IsStrictPrefix(above.path, node.path) => Passes(above)

UsableLeaves(tree) == {n \in tree.nodes : n.type = "urlset" /\ Reached(tree, n) /\ Passes(n)}

AllUsable(tree) == \A n \in tree.nodes : Passes(n)

\* A root that was deleted has taken its refreshes with it.
Present(r, n) == n # None /\ source[r] # "deleted"

\* The tree that an evaluation finds, beside the one that was frozen.
Remaining(n) ==
  [refresh[n].tree EXCEPT !.nodes = {IF m \in refresh[n].gone THEN [m EXCEPT !.status = "gone"] ELSE m : m \in @}]

Leaves(x) == UNION {UsableLeaves(Remaining(x.roots[r])) :
                      r \in {r \in DOMAIN x.roots : Present(r, x.roots[r])}}

Complete(x) ==
  /\ DOMAIN x.roots # {}
  /\ \A r \in DOMAIN x.roots : Present(r, x.roots[r]) /\ AllUsable(Remaining(x.roots[r]))

Declarations(x, p) ==
  SetToSeq(UNION {{d[2] : d \in {d \in n.entries : d[1] = p}} : n \in Leaves(x)})

Context(x) ==
  LET crawl == scan[x.scan].crawl
  IN [snapshots |-> crawl.snapshots, order |-> crawl.order, links |-> crawl.links,
      roots |-> DOMAIN x.roots, complete |-> Complete(x),
      declared |-> [p \in Pages |-> Declarations(x, p)]]

RefreshTimes(x) ==
  {refresh[x.roots[r]].at : r \in {r \in DOMAIN x.roots : Present(r, x.roots[r])}}

SnapshotTimes(x, p) == IF scan[x.scan].crawl.snapshots[p] = Missing THEN {} ELSE {scan[x.scan].at}

\* _detector_observed_at: refreshes count for the sitemap detectors alone.
ObservedAt(x, k) ==
  LET times == SnapshotTimes(x, k[2]) \cup (IF k[1] \in SitemapDetectors THEN RefreshTimes(x) ELSE {})
  IN IF times = {} THEN x.horizon ELSE Max(times)

StateForOutcome(o) == CASE o = "detected" -> "detected" [] o = "clear" -> "resolved" [] OTHER -> "unknown"

SeverityOf(result) == IF result \in Severities THEN result ELSE "none"

NewFinding(result, at) ==
  [state |-> "detected", severity |-> result, last |-> at, evaluated |-> at, resolved |-> None,
   reopened |-> None, acknowledged |-> FALSE, assessed |-> [e \in EvaluationIds |-> "none"],
   current |-> 1]

IsReopen(f, outcome) == outcome = "detected" /\ f.resolved # None /\ f.resolved >= f.last

\* The loop over the candidates, for one finding.
Assessed(f, e, result, at) ==
  LET outcome == Outcome(result)
      reopen  == IsReopen(f, outcome)
  IN [f EXCEPT
        !.state = StateForOutcome(outcome),
        !.severity = SeverityOf(result),
        !.evaluated = at,
        !.last = IF outcome = "detected" THEN at ELSE @,
        !.resolved = IF outcome = "clear" /\ f.state # "resolved" THEN at ELSE @,
        !.reopened = IF reopen THEN at ELSE @,
        !.acknowledged = @ /\ ~reopen,
        !.assessed[e] = outcome,
        !.current = e]

Reconciled(e, k) ==
  LET x == evaluation[e]
      f == finding[k]
      result == Evaluate(k[1], Context(x), k[2])
  IN IF k[2] \notin x.universe \/ (f = NoFinding /\ Outcome(result) # "detected") THEN f
     ELSE Assessed(IF f = NoFinding THEN NewFinding(result, ObservedAt(x, k)) ELSE f,
                   e, result, ObservedAt(x, k))

\* Mutant: no guard.
SupersededNever(e) == FALSE

\* The guard against a manifest that is older than one already applied.
Superseded(e) == \E n \in Evaluated : n > e /\ evaluation[n].status = "completed"

Runnable(e) == evaluation[e].kept /\ ~Superseded(e)

Execute(e) ==
  /\ job[e] = "running" /\ e \in Evaluated /\ Runnable(e)
  /\ finding' = [k \in Keys |-> Reconciled(e, k)]
  /\ evaluation' = [evaluation EXCEPT ![e].status = "completed"]
  /\ job' = [job EXCEPT ![e] = "completed"]
  /\ UNCHANGED <<clock, scan, refresh, source, active, switches, retries>>

\* Mutant: the job ends alone.
MarkedTerminalNever(e, status) == evaluation

\* mark_evaluation_terminal
MarkedTerminal(e, status) ==
  IF e \in Evaluated /\ evaluation[e].status # "completed"
  THEN [evaluation EXCEPT ![e].status = status] ELSE evaluation

EndJob(e, jobStatus, status) ==
  /\ job' = [job EXCEPT ![e] = jobStatus]
  /\ evaluation' = MarkedTerminal(e, status)
  /\ UNCHANGED <<clock, scan, refresh, source, active, finding, switches, retries>>

\* What execute_evaluation raises is _fail_finding's; recovery and shutdown are _interrupt_finding's.
Fail(e) == job[e] = "running" /\ ~Runnable(e) /\ EndJob(e, "failed", "failed")

Interrupt(e) == job[e] = "running" /\ retries < MaxRetries /\ EndJob(e, "interrupted", "failed")

\* Queued, or seen by the handler before it starts.
Cancel(e) == job[e] \in ActiveStatuses /\ retries < MaxRetries /\ EndJob(e, "cancelled", "cancelled")

------------------------------------------------------------------------------
(* What users do to findings.                                              *)

\* set_acknowledged
Acknowledge(k, value) ==
  /\ finding[k] # NoFinding /\ finding[k].acknowledged # value
  /\ Switch
  /\ finding' = [finding EXCEPT ![k].acknowledged = value]
  /\ UNCHANGED <<clock, scan, refresh, source, active, evaluation, job, retries>>

\* _raise_if_active_finding_work
NoActiveWork ==
  \A e \in EvaluationIds : job[e] \notin ActiveStatuses /\ evaluation[e].status # "queued"

DeleteFinding(k) ==
  /\ finding[k] # NoFinding /\ NoActiveWork /\ Switch
  /\ finding' = [finding EXCEPT ![k] = NoFinding]
  /\ UNCHANGED <<clock, scan, refresh, source, active, evaluation, job, retries>>

\* reset_site_findings
Reset ==
  /\ Evaluated # {} /\ NoActiveWork /\ Switch
  /\ finding' = [k \in Keys |-> NoFinding]
  /\ evaluation' = [e \in EvaluationIds |-> NoEvaluation]
  /\ job' = [e \in EvaluationIds |-> "none"]
  /\ UNCHANGED <<clock, scan, refresh, source, active, retries>>

Next ==
  \/ \E crawl \in Crawls : ScanEnds(crawl)
  \/ \E i \in ScanIds : DeleteScan(i)
  \/ \E r \in Roots, tree \in Trees : Refresh(r, tree)
  \/ \E r \in Roots, state \in {"active", "inactive", "deleted"} : SwitchSource(r, state)
  \/ \E r \in Roots, path \in Paths : DeleteChild(r, path)
  \/ \E p \in Pages : SwitchPage(p)
  \/ RequestEvaluation
  \/ \E e \in EvaluationIds : Claim(e) \/ Execute(e) \/ Fail(e) \/ Interrupt(e) \/ Cancel(e)
  \/ \E k \in Keys, value \in BOOLEAN : Acknowledge(k, value)
  \/ \E k \in Keys : DeleteFinding(k)
  \/ Reset

Fairness == \A e \in EvaluationIds : WF_vars(Claim(e)) /\ WF_vars(Execute(e) \/ Fail(e))

Spec == Init /\ [][Next]_vars /\ Fairness

------------------------------------------------------------------------------
(* Properties.                                                             *)

\* An older manifest that is run late, again or never cannot undo a newer one: what a finding says
\* is what the newest evaluation that was applied to its page made of it, and none in between is
\* missing from its history (finding_evaluations.py, the loop over the candidates).
AppliedTo(k) == {e \in Evaluated : evaluation[e].status = "completed" /\ k[2] \in evaluation[e].universe}

NewestApplied ==
  \A k \in Keys : finding[k] # NoFinding =>
    LET f == finding[k]
        assessed == {e \in EvaluationIds : f.assessed[e] # "none"}
    IN /\ f.current = Max(AppliedTo(k))
       /\ f.state = StateForOutcome(f.assessed[f.current])
       /\ assessed = {e \in AppliedTo(k) : \E first \in assessed : first <= e}

\* No Site is left with work that nobody does, which would refuse every deletion and reset of its
\* findings: once requests cease, no evaluation and no job is under way (finding_deletion.py,
\* _raise_if_active_finding_work).
WorkEnds == <>[]NoActiveWork
==============================================================================
