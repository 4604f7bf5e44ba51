---------------------------- MODULE JobLifecycle ----------------------------
(***************************************************************************)
(* The job status table and the lifecycle registry: what each job type's   *)
(* hooks do to the domain record (Scan, SourceRefresh, projection build,   *)
(* ...) that a background job works on.                                    *)
(*                                                                         *)
(* A hook is "move the record to this status, unless its present status    *)
(* excludes it": each hook is therefore given by the set of statuses it    *)
(* acts from and the status it moves them to.  Timestamps and messages are *)
(* left out.                                                               *)
(***************************************************************************)

Active == {"queued", "running"}

Terminal == {"completed", "completed_with_errors", "failed", "cancelled", "interrupted"}

JobStatuses == Active \cup Terminal

\* Statuses a job may move to, by the status it is in.
LegalTransitions ==
  [s \in JobStatuses |->
     CASE s = "queued"  -> {"running", "cancelled"}
       [] s = "running" -> Terminal \cup {"queued"}
       [] s = "failed"  -> {"queued"}
       [] OTHER         -> {}]

-----------------------------------------------------------------------------
\* Records of these types carry a job status of their own.
RunTypes == {"scan", "source_refresh", "category_rule_evaluation", "performance_run",
             "accessibility_run", "render_run"}

BuildTypes == {"scan_projection_build", "scan_comparison_build"}

JobTypes == RunTypes \cup BuildTypes \cup {"structured_content_build", "finding_evaluation"}

\* "none" is the status of a job type without a domain record.
DomainStatuses == JobStatuses \cup {"none", "waiting_for_projections", "building", "ready",
                                    "superseded"}

\* ACTIVE_BUILD_STATUSES and ACTIVE_COMPARISON_BUILD_STATUSES.
ActiveBuild == {"queued", "waiting_for_projections", "building"}

\* The status a record has when its job is enqueued.
Initial(t) == IF t = "structured_content_build" THEN "none" ELSE "queued"

-----------------------------------------------------------------------------
\* mark_projection_build_terminal and mark_comparison_build_terminal act on active builds,
\* mark_evaluation_terminal on anything but a completed evaluation.
Guarded(t) ==
  CASE t \in BuildTypes           -> ActiveBuild
    [] t = "finding_evaluation"   -> DomainStatuses \ {"completed"}
    [] OTHER                      -> {}

\* queued_cancel: a run is cancelled only while it is itself still queued.
QueuedCancelFrom(t) == IF t \in RunTypes THEN {"queued"} ELSE Guarded(t)

\* mark_cancelled and mark_failed: unconditional for the runs, except that a category run
\* that has ended is left alone.
TerminalizeFrom(t) ==
  CASE t = "category_rule_evaluation" -> DomainStatuses \ Terminal
    [] t \in RunTypes \ {"category_rule_evaluation"} -> DomainStatuses
    [] OTHER -> Guarded(t)

\* mark_interrupted, by the reason of the interruption.
InterruptFrom(t, reason) ==
  CASE t = "category_rule_evaluation" /\ reason = "worker_shutdown" -> {}
    [] t \in RunTypes /\ reason = "lease_expired"                   -> DomainStatuses \ Terminal
    [] OTHER                                                        -> TerminalizeFrom(t)

InterruptTo(t) ==
  IF t \in BuildTypes \cup {"performance_run", "finding_evaluation"} THEN "failed"
                                                                     ELSE "interrupted"

\* A hook applied to a record in status d.
Move(from, to, d) == IF d \in from THEN to ELSE d

\* Mutant of Cancelled: trust the handler to have marked the record.
CancelledByHandler(t, d) == d

Cancelled(t, d) == Move(TerminalizeFrom(t), "cancelled", d)

Failed(t, d) == Move(TerminalizeFrom(t), "failed", d)

Interrupted(t, d, reason) == Move(InterruptFrom(t, reason), InterruptTo(t), d)

-----------------------------------------------------------------------------
\* Mutant of Reconciled: a build's own status taken for a job status.
ReconciledAsIs(t, d) ==
  IF d \in Terminal \/ (t \in BuildTypes /\ d \notin ActiveBuild) THEN d ELSE "none"

\* reconcile_domain_status: the job status the record's status stands for; "none" when it
\* settles nothing.
Reconciled(t, d) ==
  CASE t \in RunTypes /\ d \in Terminal                               -> d
    [] t \in BuildTypes /\ d = "ready"                                -> "completed"
    [] t \in BuildTypes /\ d \in {"failed", "cancelled"}              -> d
    [] t = "finding_evaluation" /\ d \in {"completed", "cancelled"}   -> d
    [] OTHER                                                          -> "none"

\* ensure_followups: whether the hook of this type goes on to create the follow-up work when
\* the record is in status d.
FollowupsDue(t, d) ==
  CASE t = "scan"                      -> d \in Terminal
    [] t = "scan_projection_build"     -> d = "ready"
    [] t = "category_rule_evaluation"  -> d = "completed"
    [] OTHER                           -> FALSE

\* Mutant of StagesFollowups: the failure hook without them.
StagesFollowupsNotOnFailure(t, hook) == t = "scan" /\ hook \in {"cancelled", "worker_shutdown"}

\* Hooks that end with the follow-ups of the record they have just moved; of the types only
\* the scan's do.
StagesFollowups(t, hook) == t = "scan" /\ hook \in {"cancelled", "failed", "worker_shutdown"}

-----------------------------------------------------------------------------
\* What a handler commits, each under the fence: the status it starts a record with ...
StartStatuses(t) ==
  CASE t = "scan_projection_build"    -> {"building"}
    [] t = "scan_comparison_build"    -> {"building", "waiting_for_projections"}
    [] t \in RunTypes                 -> {"running"}
    [] OTHER                          -> {}

\* ... and the statuses it can end it in.
EndStatuses(t) ==
  CASE t \in {"scan", "source_refresh"} -> Terminal \ {"interrupted"}
    [] t = "category_rule_evaluation"   -> {"completed", "cancelled"}
    [] t \in BuildTypes                 -> {"ready", "failed", "cancelled"}
    [] t \in {"performance_run", "accessibility_run", "render_run"} ->
                                           {"completed", "completed_with_errors", "cancelled"}
    [] OTHER                            -> {}
=============================================================================
