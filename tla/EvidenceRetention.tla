-------------------------- MODULE EvidenceRetention --------------------------
(***************************************************************************)
(* Deletion of collected evidence and collection of payloads, next to the  *)
(* runs and plans that collect it.  A deletion checks first, deletes rows  *)
(* in one transaction later, and removes files after that; nothing stops   *)
(* a collection from starting in between.  A payload is stored once per    *)
(* content and shared by the observations that refer to it.                *)
(***************************************************************************)
EXTENDS CollectionPlans

VARIABLES
  del,    \* the deletion under way
  raced   \* payload files written while a deletion of their domain was under way

vars == <<runVars, planVars, del, raced>>

NoDeletion == [pc |-> "idle", kind |-> "none", domain |-> "none", runs |-> {}, seen |-> {},
               blobs |-> {}, files |-> {}]

TypeOK ==
  /\ RunsTypeOK
  /\ PlansTypeOK
  /\ del \in [pc: {"idle", "guarded", "checked", "unlink"},
              kind: {"none", "observation", "run", "purge", "gc"}, domain: Domains \cup {"none"},
              runs: SUBSET Runs, seen: SUBSET Pages, blobs: SUBSET Payloads,
              files: SUBSET Payloads]
  /\ raced \in SUBSET (Domains \X Payloads)

Init ==
  /\ RunsInit
  /\ PlansInit
  /\ del = NoDeletion
  /\ raced = {}

-----------------------------------------------------------------------------
DomainIdle(d) == \A r \in Runs : run[r].domain = d => ~ActiveJob(r)

\* Any active job of the kind blocks the deletion of one of its runs ...
Deletable(r) ==
  /\ run[r].domain \in {"performance", "accessibility"}
  /\ run[r].status \in Terminal
  /\ DomainIdle(run[r].domain)

\* ... but a render run is guarded by its own job only.
DeletableRender(r) ==
  /\ run[r].domain = "render"
  /\ run[r].status \in Terminal
  /\ ~ActiveJob(r)

References(d) ==
  {obs[r][p].payload : r \in {s \in Runs : run[s].domain = d}, p \in Pages} \ {NoPayload}

PayloadsOf(r) == {obs[r][p].payload : p \in Pages} \ {NoPayload}

\* A deletion that passed its checks, with the payloads its observations refer to.
Checked(kind, d, rs, ps, blobs) ==
  /\ Ask
  /\ del = NoDeletion
  /\ del' = [NoDeletion EXCEPT !.pc = "checked", !.kind = kind, !.domain = d, !.runs = rs,
                               !.seen = ps, !.blobs = blobs]
  /\ UNCHANGED <<run, obs, exec, rows, files, late, planVars, raced>>

CheckedObservation(r, p) ==
  /\ obs[r][p].state # "none"
  /\ Checked("observation", run[r].domain, {r}, {p}, {obs[r][p].payload} \ {NoPayload})

CheckedRun(r) == Checked("run", run[r].domain, {r}, {}, PayloadsOf(r))

CheckedPurge(d) ==
  /\ \E r \in Runs : run[r].domain = d
  /\ Checked("purge", d, {}, {}, References(d))

DeleteObservation(r, p) == Deletable(r) /\ CheckedObservation(r, p)

DeleteRun(r) == Deletable(r) /\ CheckedRun(r)

Purge(d) ==
  /\ \A r \in Runs : run[r].domain = d => Deletable(r)
  /\ CheckedPurge(d)

DeleteTarget(r, p) == DeletableRender(r) /\ CheckedObservation(r, p)

DeleteRenderRun(r) == DeletableRender(r) /\ CheckedRun(r)

PurgeRenders ==
  /\ \A r \in Runs : run[r].domain = "render" => DeletableRender(r)
  /\ CheckedPurge("render")

-----------------------------------------------------------------------------
\* A purge selects the runs of the site again when it deletes.
Doomed ==
  IF del.kind = "purge" THEN {r \in Runs : run[r].domain = del.domain}
  ELSE IF del.kind = "run" THEN del.runs ELSE {}

KeptObs(r) ==
  [p \in Pages |-> IF r \in Doomed \/ (del.kind = "observation" /\ r \in del.runs /\ p \in del.seen)
                   THEN Unobserved ELSE obs[r][p]]

\* Mutant of Orphaned: the payloads of the deleted observations, shared or not.
OrphanedOrShared(kept) == del.blobs

\* _delete_unreferenced_payload_blobs: of the payloads referred to, those no row of the domain
\* refers to any more.
Orphaned(kept) ==
  del.blobs \ {kept[r][p].payload : r \in {s \in Runs : run[s].domain = del.domain}, p \in Pages}

\* The rows go in one transaction: runs, jobs, observations, and payloads left without any.
\* What a plan knows of a deleted run is set to null.
DeleteRows ==
  /\ Unlocked
  /\ del.pc = "checked" /\ del.kind # "gc"
  /\ LET kept == [r \in Runs |-> KeptObs(r)]
     IN /\ obs' = kept
        /\ rows' = [rows EXCEPT ![del.domain] = @ \ Orphaned(kept)]
        /\ del' = [del EXCEPT !.pc = "unlink", !.files = Orphaned(kept)]
  /\ run' = [r \in Runs |-> IF r \in Doomed THEN DeletedRun ELSE run[r]]
  /\ late' = [r \in Runs |-> IF r \in Doomed THEN 0 ELSE late[r]]
  /\ plan' = [i \in Plans |-> [plan[i] EXCEPT !.batches =
                [k \in DOMAIN @ |-> IF @[k] \in Doomed THEN Gone ELSE @[k]]]]
  /\ UNCHANGED <<exec, files, spent, call, raced>>

-----------------------------------------------------------------------------
(* Collection of payloads no observation refers to.                        *)

Collect(d) ==
  /\ Ask
  /\ del = NoDeletion
  /\ d # "render"
  /\ DomainIdle(d)
  /\ del' = [NoDeletion EXCEPT !.pc = "guarded", !.kind = "gc", !.domain = d]
  /\ UNCHANGED <<run, obs, exec, rows, files, late, planVars, raced>>

CollectRead ==
  /\ del.pc = "guarded"
  /\ del' = [del EXCEPT !.pc = "checked", !.blobs = rows[del.domain] \ References(del.domain),
                        !.files = rows[del.domain]]
  /\ UNCHANGED <<runVars, planVars, raced>>

\* The files are listed before the rows go; a payload referred to again fails the deletion.
CollectSweep ==
  /\ Unlocked
  /\ del.pc = "checked" /\ del.kind = "gc"
  /\ IF del.blobs \cap References(del.domain) # {}
     THEN del' = NoDeletion /\ UNCHANGED rows
     ELSE /\ rows' = [rows EXCEPT ![del.domain] = @ \ del.blobs]
          /\ del' = [del EXCEPT !.pc = "unlink",
                                !.files = del.blobs \cup (files[del.domain] \ del.files)]
  /\ UNCHANGED <<run, obs, exec, files, late, spent, planVars, raced>>

-----------------------------------------------------------------------------
\* Files are removed after the commit; a crash before leaves them to the next collection.
Unlink ==
  /\ del.pc = "unlink"
  /\ files' = [files EXCEPT ![del.domain] = @ \ del.files]
  /\ del' = NoDeletion
  /\ UNCHANGED <<run, obs, exec, rows, late, spent, planVars, raced>>

CrashDeleting ==
  /\ Fault
  /\ del # NoDeletion
  /\ del' = NoDeletion
  /\ UNCHANGED <<run, obs, exec, rows, files, late, planVars, raced>>

\* Store, and whether it wrote the file under a deletion.
StoreNext(r) ==
  /\ Store(r)
  /\ raced' = IF del.domain = run[r].domain
              THEN raced \cup {<<del.domain, exec'[r].payload>>} ELSE raced
  /\ UNCHANGED <<planVars, del>>

DeletionNext ==
  \/ \E r \in Runs, p \in Pages : DeleteObservation(r, p) \/ DeleteTarget(r, p)
  \/ \E r \in Runs : DeleteRun(r) \/ DeleteRenderRun(r)
  \/ \E d \in Domains : Purge(d) \/ Collect(d)
  \/ PurgeRenders
  \/ DeleteRows \/ CollectRead \/ CollectSweep \/ Unlink \/ CrashDeleting

Next ==
  \/ RunsNext /\ UNCHANGED <<planVars, del, raced>>
  \/ \E r \in Runs : StoreNext(r)
  \/ PlansNext /\ UNCHANGED <<del, raced>>
  \/ DeletionNext

Spec == Init /\ [][Next]_vars

-----------------------------------------------------------------------------
(* Properties.                                                             *)

\* A run that completed has recorded an answer for each of its pages, its counters add up to
\* them, and it says "with errors" exactly when one of them failed or was skipped.
CountsAgree ==
  \A r \in Runs : run[r].status \in {"completed", "completed_with_errors"} =>
    /\ run[r].ready + run[r].failed + run[r].skipped = Cardinality(run[r].targets)
    /\ run[r].domain = "render" =>
         run[r].attempted = Cardinality(run[r].targets) - run[r].skipped
    /\ \A p \in run[r].targets : obs[r][p].state \in Answered \cup {"skipped", "none"}
    /\ run[r].status = "completed" =>
         \A p \in run[r].targets : obs[r][p].state \in {"ready", "none"}

\* Two batches of plans that are still active never collect the same page for the same kind
\* of evidence, whatever else was created, cancelled or deleted meanwhile.
CollectedOnce ==
  \A i, j \in Plans : \A r \in Batches(i) \ {Gone}, s \in Batches(j) \ {Gone} :
    r # s /\ run[r].domain = run[s].domain /\ ActiveJob(r) /\ ActiveJob(s)
      => run[r].targets \cap run[s].targets = {}

\* A plan that reports "completed" has collected every page it selected, and still has the
\* runs that did.
PlanTruthful ==
  \A i \in Plans : plan[i] # NoPlan /\ PlanStatus(i) = "completed" =>
    /\ UNION {run[r].targets : r \in Batches(i) \ {Gone}} = plan[i].targets
    /\ \A r \in Batches(i) \ {Gone} : run[r].ready = Cardinality(run[r].targets)

\* After a cancellation was requested a run visits at most the page it was about to visit.
CancelPrompt == \A r \in Runs : late[r] <= 1

\* A payload that some observation refers to keeps its row and its file, unless the file was
\* written while a deletion of that kind of evidence was between its check and its last file.
PayloadsKept ==
  \A d \in Domains :
    /\ References(d) \subseteq rows[d]
    /\ \A x \in rows[d] \ files[d] : <<d, x>> \in raced

\* Evidence of a run that has ended is never added to or changed by an executor that lost its
\* lease, was cancelled or crashed: it can only be deleted.
EndedRunFrozen ==
  [][\A r \in Runs : run[r].status \in Terminal =>
       \A p \in Pages : obs'[r][p] \in {obs[r][p], Unobserved}]_vars
=============================================================================
