---------------------------- MODULE CategoryRules ----------------------------
(***************************************************************************)
(* Page category rules of one Site and one category: what users do to      *)
(* rules, exclusions, manual assignments and pages, and the background     *)
(* runs that bring the automatic assignments into line with the rules.     *)
(*                                                                         *)
(* As in JobQueue an action is what one session does from its first write  *)
(* to its commit.  queue_evaluation looks for a job under way with a       *)
(* SELECT; where its caller has already written (a rule created, edited or *)
(* deleted, an exclusion removed) that is the same step, where it has not  *)
(* (a rule switched, a category archived, an exclusion set, a              *)
(* recalculation) the look and the write are two, and a job may start or   *)
(* end between them.                                                       *)
(*                                                                         *)
(* A rule is the set of pages its conditions match.  A rule moved to       *)
(* another category is to this one as if it were disabled, one moved here  *)
(* as if it were enabled.  A category that is archived differs from one    *)
(* without active rules only in what the API refuses, and is not told      *)
(* apart from it.                                                          *)
(***************************************************************************)
EXTENDS Naturals, Sequences, FiniteSets, SequencesExt

CONSTANTS
  Pages,      \* ids of the site's pages, in the order the batches read them
  Rules,      \* rule ids
  Conditions, \* conditions: the pages a pattern fits, and whether it is negated
  Manual,     \* the support that is no rule
  Clients,    \* requests that look for a job before they hold the write lock
  RunIds,     \* runs; the id of a run that has ended is used again
  NoRun,      \* no run
  Gone,       \* a run that has ended
  BatchSize,  \* PAGE_BATCH_SIZE
  MaxEdits,   \* bound on user operations
  MaxStops    \* bound on runs that end otherwise than completed

ASSUME CategoryAssumption ==
  /\ Pages \subseteq Nat
  /\ Conditions \subseteq [fits: SUBSET Pages, negate: BOOLEAN]
  /\ Manual \notin Rules
  /\ {NoRun, Gone} \cap RunIds = {} /\ NoRun # Gone
  /\ BatchSize \in Nat \ {0}
  /\ IsFiniteSet(Pages) /\ IsFiniteSet(Clients)
  /\ IsFiniteSet(RunIds) /\ Cardinality(RunIds) > Cardinality(Clients)
  /\ MaxEdits \in Nat /\ MaxStops \in Nat

VARIABLES
  rule,        \* is_active and the pages matched, by rule
  suppressed,  \* pages that are not in the active workspace
  excluded,    \* pages with an automatic exclusion
  assigned,    \* pages with a row in page_category_assignments
  supports,    \* the supports of those rows: pairs of a page and a rule or Manual
  run,         \* the runs and their jobs
  order,       \* the runs under way, oldest first
  call,        \* requests that have looked for a job
  tidying,     \* pages a metadata update has read as assigned without a support
  excused,     \* history: pages that something known to be missed has happened to
  edits, stops \* operations and stopped runs so far

vars == <<rule, suppressed, excluded, assigned, supports, run, order, call, tidying, excused,
          edits, stops>>

\* condition_matches and resource_matches, for all pages at once.
Holds(c) == IF c.negate THEN Pages \ c.fits ELSE c.fits

Matched(mode, conditions) ==
  {p \in Pages : IF mode = "all" THEN \A c \in conditions : p \in Holds(c)
                                 ELSE \E c \in conditions : p \in Holds(c)}

\* What a rule may match: it has a condition at least.
Matches == {Matched(mode, cs) : mode \in {"all", "any"}, cs \in (SUBSET Conditions) \ {{}}}

RuleSupports == Pages \X Rules

\* Rows of page_category_rules and page_category_assignment_supports.
RuleRows == [state: {"absent", "active", "disabled"}, match: SUBSET Pages]

SupportRows == Pages \X (Rules \cup {Manual})

\* A run, its job and what its session has read.
Runs == [pc: {"free", "queued", "claimed", "reading", "writing", "finishing", "returned",
              "settling"},
         rerun: BOOLEAN, loaded: SUBSET Rules, desired: SUBSET RuleSupports,
         total: 0..Cardinality(Pages), offset: Nat,
         window: SUBSET Pages, excluded: SUBSET Pages, assigned: SUBSET Pages,
         seen: SUBSET RuleSupports, unsupported: SUBSET Pages]

Free == [pc |-> "free", rerun |-> FALSE, loaded |-> {}, desired |-> {}, total |-> 0,
         offset |-> 0, window |-> {}, excluded |-> {}, assigned |-> {}, seen |-> {},
         unsupported |-> {}]

Queued == [Free EXCEPT !.pc = "queued"]

\* The job's status as the row has it.
Status(r) == IF run[r].pc = "queued" THEN "queued" ELSE "running"

NoCall == [kind |-> "none", arg |-> NoRun, target |-> NoRun, seen |-> "none"]

Kinds == {"none", "enable", "disable", "archive", "exclude", "recalculate"}

TypeOK ==
  /\ rule \in [Rules -> RuleRows]
  /\ suppressed \subseteq Pages /\ excluded \subseteq Pages /\ assigned \subseteq Pages
  /\ supports \subseteq SupportRows
  /\ \A s \in supports : s[1] \in assigned
  /\ run \in [RunIds -> Runs]
  /\ ToSet(order) = {r \in RunIds : run[r].pc # "free"} /\ IsInjective(order)
  /\ \A c \in Clients : /\ call[c].kind \in Kinds
                        /\ call[c].target \in RunIds \cup {NoRun, Gone}
                        /\ call[c].seen \in {"none", "queued", "running"}
  /\ tidying \subseteq Pages /\ excused \subseteq Pages
  /\ edits \in 0..MaxEdits /\ stops \in 0..MaxStops

Absent == [state |-> "absent", match |-> {}]

\* A site at rest: no rule yet, or rules whose evaluation is done.
Init ==
  /\ rule \in [Rules -> {Absent} \cup [state: {"active"}, match: Matches]]
  /\ suppressed = {} /\ excluded = {}
  /\ supports = {s \in RuleSupports : s[1] \in rule[s[2]].match}
  /\ assigned = {s[1] : s \in supports}
  /\ run = [r \in RunIds |-> Free]
  /\ order = <<>>
  /\ call = [c \in Clients |-> NoCall]
  /\ tidying = {} /\ excused = {}
  /\ edits = 0 /\ stops = 0

-----------------------------------------------------------------------------
(***************************************************************************)
(* queue_evaluation.                                                       *)
(***************************************************************************)

\* Mutant of ActiveJob: only a job that is still queued counts.
ActiveJobQueued ==
  LET waiting == SelectSeq(order, LAMBDA r : Status(r) = "queued")
  IN IF waiting = <<>> THEN NoRun ELSE Last(waiting)

\* The job under way, the latest where there are several.
ActiveJob == IF order = <<>> THEN NoRun ELSE Last(order)

StatusOf(r) == IF r = NoRun THEN "none" ELSE Status(r)

\* Mutant of Coalesced: no rerun is asked of a job that is running.
CoalescedAlways(target, seen) == [run EXCEPT ![target].rerun = FALSE]

\* rerun_requested = (status == "running"), of the status that was read.
Coalesced(target, seen) == [run EXCEPT ![target].rerun = (seen = "running")]

\* Runs that go on with the rules they loaded before this trigger.
Deaf(target, seen) ==
  {r \in ToSet(order) :
     /\ run[r].pc \notin {"queued", "claimed"}
     /\ ~(r = target /\ seen = "running" /\ run[r].pc # "settling")}

NewRun == CHOOSE r \in RunIds : run[r].pc = "free"

\* The write of queue_evaluation, when the job was read as target in status seen.
QueueEvaluation(target, seen) ==
  /\ CASE target = NoRun -> /\ run' = [run EXCEPT ![NewRun] = Queued]
                            /\ order' = Append(order, NewRun)
       [] target = Gone -> UNCHANGED <<run, order>>
       [] OTHER -> run' = Coalesced(target, seen) /\ UNCHANGED order
  /\ excused' = IF Deaf(target, seen) # {} \/ (target = Gone /\ order = <<>>)
                THEN Pages ELSE excused

Edit == edits < MaxEdits /\ edits' = edits + 1

-----------------------------------------------------------------------------
(***************************************************************************)
(* Rules.  These requests write before they look for a job.                *)
(***************************************************************************)

CreateRule(q, m) ==
  /\ Edit
  /\ rule[q].state = "absent"
  /\ \E s \in {"active", "disabled"} : rule' = [rule EXCEPT ![q] = [state |-> s, match |-> m]]
  /\ QueueEvaluation(ActiveJob, StatusOf(ActiveJob))
  /\ UNCHANGED <<suppressed, excluded, assigned, supports, call, tidying, stops>>

\* update_rule with conditions.
UpdateConditions(q, m) ==
  /\ Edit
  /\ rule[q].state # "absent" /\ rule[q].match # m
  /\ rule' = [rule EXCEPT ![q].match = m]
  /\ QueueEvaluation(ActiveJob, StatusOf(ActiveJob))
  /\ UNCHANGED <<suppressed, excluded, assigned, supports, call, tidying, stops>>

\* The rule's supports go with it; an assignment they leave unsupported stays for the run.
DeleteRule(q) ==
  /\ Edit
  /\ rule[q].state # "absent"
  /\ rule' = [rule EXCEPT ![q] = Absent]
  /\ supports' = {s \in supports : s[2] # q}
  /\ QueueEvaluation(ActiveJob, StatusOf(ActiveJob))
  /\ UNCHANGED <<suppressed, excluded, assigned, call, tidying, stops>>

\* Everything of the category goes with it, and no evaluation is queued.
DeleteCategory ==
  /\ Edit
  /\ rule' = [q \in Rules |-> Absent]
  /\ excluded' = {} /\ assigned' = {} /\ supports' = {}
  /\ UNCHANGED <<suppressed, run, order, call, tidying, excused, stops>>

RemoveExclusion(p) ==
  /\ Edit
  /\ p \in excluded
  /\ excluded' = excluded \ {p}
  /\ QueueEvaluation(ActiveJob, StatusOf(ActiveJob))
  /\ UNCHANGED <<rule, suppressed, assigned, supports, call, tidying, stops>>

\* The follow-up of a scan that has ended.
ScanEnded ==
  /\ Edit
  /\ \E q \in Rules : rule[q].state = "active"
  /\ QueueEvaluation(ActiveJob, StatusOf(ActiveJob))
  /\ UNCHANGED <<rule, suppressed, excluded, assigned, supports, call, tidying, stops>>

-----------------------------------------------------------------------------
(***************************************************************************)
(* Requests that look for a job first.                                     *)
(***************************************************************************)

Look(c, kind, arg) ==
  /\ Edit
  /\ call[c] = NoCall
  /\ call' = [call EXCEPT ![c] = [kind |-> kind, arg |-> arg, target |-> ActiveJob,
                                  seen |-> StatusOf(ActiveJob)]]
  /\ UNCHANGED <<rule, suppressed, excluded, assigned, supports, run, order, tidying, excused,
                 stops>>

LookSwitch(c, q) ==
  \/ rule[q].state = "disabled" /\ Look(c, "enable", q)
  \/ rule[q].state = "active" /\ Look(c, "disable", q)

\* disable_rules_for_category queues an evaluation only if it disables a rule.
LookArchive(c) ==
  /\ \E q \in Rules : rule[q].state = "active"
  /\ Look(c, "archive", NoRun)

LookExclude(c, p) == p \notin excluded /\ Look(c, "exclude", p)

LookRecalculate(c) == Look(c, "recalculate", NoRun)

Switched(q, s) == [rule EXCEPT ![q].state = s]

\* The flush and commit.  A rule deleted meanwhile fails the request.
Commit(c) ==
  LET k == call[c].kind
      q == call[c].arg
  IN /\ k # "none"
     /\ call' = [call EXCEPT ![c] = NoCall]
     /\ IF k \in {"enable", "disable"} /\ rule[q].state = "absent"
        THEN UNCHANGED <<rule, excluded, run, order, excused>>
        ELSE /\ rule' = CASE k = "enable"  -> Switched(q, "active")
                          [] k = "disable" -> Switched(q, "disabled")
                          [] k = "archive" ->
                               [x \in Rules |-> IF rule[x].state = "active"
                                                THEN [rule[x] EXCEPT !.state = "disabled"]
                                                ELSE rule[x]]
                          [] OTHER         -> rule
             /\ excluded' = IF k = "exclude" THEN excluded \cup {q} ELSE excluded
             /\ QueueEvaluation(call[c].target, call[c].seen)
  /\ UNCHANGED <<suppressed, assigned, supports, tidying, edits, stops>>

-----------------------------------------------------------------------------
(***************************************************************************)
(* Pages: manual assignment, metadata, workspace state.                    *)
(***************************************************************************)

AssignManually(p) ==
  /\ Edit
  /\ <<p, Manual>> \notin supports
  /\ assigned' = assigned \cup {p}
  /\ supports' = supports \cup {<<p, Manual>>}
  /\ UNCHANGED <<rule, suppressed, excluded, run, order, call, tidying, excused, stops>>

\* The assignment goes with its last support.
UnassignManually(p) ==
  /\ Edit
  /\ <<p, Manual>> \in supports
  /\ supports' = supports \ {<<p, Manual>>}
  /\ assigned' = IF \E q \in Rules : <<p, q>> \in supports THEN assigned ELSE assigned \ {p}
  /\ UNCHANGED <<rule, suppressed, excluded, run, order, call, tidying, excused, stops>>

Unsupported(rows, sup) == {p \in rows : \A s \in sup : s[1] # p}

\* update_page_metadata with the manual categories as they are: it writes nothing before it
\* reads which of the page's assignments have no support ...
TidyRead(p) ==
  /\ Edit
  /\ p \in Unsupported(assigned, supports) \ tidying
  /\ tidying' = tidying \cup {p}
  /\ UNCHANGED <<rule, suppressed, excluded, assigned, supports, run, order, call, excused,
                 stops>>

\* ... and deletes them, with what supports they have by then.
TidyWrite(p) ==
  /\ p \in tidying
  /\ tidying' = tidying \ {p}
  /\ assigned' = assigned \ {p}
  /\ supports' = {s \in supports : s[1] # p}
  /\ excused' = excused \cup {p}
  /\ UNCHANGED <<rule, suppressed, excluded, run, order, call, edits, stops>>

\* A page leaves or rejoins the workspace.  No evaluation is queued, and a run under way
\* finds its batches moved.
SetWorkspaceState(p) ==
  /\ Edit
  /\ suppressed' = IF p \in suppressed THEN suppressed \ {p} ELSE suppressed \cup {p}
  /\ excused' = IF order = <<>> THEN excused \cup {p} ELSE Pages
  /\ UNCHANGED <<rule, excluded, assigned, supports, run, order, call, tidying, stops>>

-----------------------------------------------------------------------------
(***************************************************************************)
(* A run: reconcile_site, and the end of its job.                          *)
(***************************************************************************)

Claim(r) ==
  /\ run[r].pc = "queued"
  /\ run' = [run EXCEPT ![r].pc = "claimed"]
  /\ UNCHANGED <<rule, suppressed, excluded, assigned, supports, order, call, tidying, excused,
                 edits, stops>>

ActivePages == Pages \ suppressed

\* The active rules, their matches and the number of pages, read once for all batches.
Load(r) ==
  /\ run[r].pc = "claimed"
  /\ run' = [run EXCEPT
               ![r].pc = IF ActivePages = {} THEN "finishing" ELSE "reading",
               ![r].loaded = {q \in Rules : rule[q].state = "active"},
               ![r].desired = {s \in RuleSupports : /\ rule[s[2]].state = "active"
                                                    /\ s[1] \in rule[s[2]].match},
               ![r].total = Cardinality(ActivePages)]
  /\ UNCHANGED <<rule, suppressed, excluded, assigned, supports, order, call, tidying, excused,
                 edits, stops>>

\* How many pages come before p.
Position(p) == Cardinality({o \in ActivePages : o < p})

\* ORDER BY id LIMIT PAGE_BATCH_SIZE OFFSET offset, over the pages active now.
Window(offset) ==
  {p \in ActivePages : offset <= Position(p) /\ Position(p) < offset + BatchSize}

\* What a batch reads before it writes.
BatchRead(r) ==
  /\ run[r].pc = "reading"
  /\ LET w == Window(run[r].offset)
     IN run' = [run EXCEPT ![r].pc = "writing",
                           ![r].window = w,
                           ![r].excluded = excluded \cap w,
                           ![r].assigned = assigned \cap w,
                           ![r].seen = {s \in supports : s[1] \in w /\ s[2] # Manual},
                           ![r].unsupported = Unsupported(assigned \cap w, supports)]
  /\ UNCHANGED <<rule, suppressed, excluded, assigned, supports, order, call, tidying, excused,
                 edits, stops>>

\* Mutant of Wanted: the exclusions ignored.
WantedRegardless(b) == {s \in b.desired : s[1] \in b.window}

\* The rule supports the pages of a batch should have.
Wanted(b) == {s \in b.desired : s[1] \in b.window \ b.excluded}

MissingRows(b) == {s[1] : s \in Wanted(b)} \ b.assigned

\* Mutant of SeenSupports: manual supports not told apart from those of rules.
SeenSupportsAll(b) ==
  IF MissingRows(b) # {} THEN {s \in supports : s[1] \in b.window}
                         ELSE {s \in supports : s[1] \in b.assigned}

\* Rows that are missing are inserted first, and what follows is read under the lock.
SeenSupports(b) ==
  IF MissingRows(b) # {} THEN {s \in supports : s[1] \in b.window /\ s[2] # Manual}
                         ELSE b.seen

AfterBatch(b) == IF b.offset + BatchSize < b.total THEN "reading" ELSE "finishing"

\* An insert that meets its row already there, or a support whose rule or assignment has
\* gone meanwhile.
Conflicts(b) ==
  \/ MissingRows(b) \cap assigned # {}
  \/ \E s \in Wanted(b) \ SeenSupports(b) :
       \/ s \in supports
       \/ s[1] \notin assigned \cup MissingRows(b)
       \/ rule[s[2]].state = "absent"

\* The batch's inserts and deletes, and their commit.
BatchWrite(r) ==
  LET b       == run[r]
      stale   == SeenSupports(b) \ Wanted(b)
      missing == Wanted(b) \ SeenSupports(b)
      rows    == assigned \cup MissingRows(b)
      after   == (supports \ stale) \cup missing
      wrote   == MissingRows(b) # {} \/ stale # {} \/ missing # {}
      dropped == IF wrote THEN Unsupported(rows \cap b.window, after) ELSE b.unsupported
  IN /\ b.pc = "writing"
     /\ ~Conflicts(b)
     /\ assigned' = rows \ dropped
     /\ supports' = {s \in after : s[1] \notin dropped}
     /\ run' = [run EXCEPT ![r] = [Free EXCEPT !.pc = AfterBatch(b), !.rerun = b.rerun,
                                               !.loaded = b.loaded, !.desired = b.desired,
                                               !.total = b.total,
                                               !.offset = b.offset + BatchSize]]
     /\ UNCHANGED <<rule, suppressed, excluded, order, call, tidying, excused, edits, stops>>

\* A rule the run has loaded has been deleted: the UPDATE of its counters meets no row.
RuleGone(b) == \E q \in b.loaded : rule[q].state = "absent"

\* The counters of the rules that were loaded and the run's record are written, and the handler
\* returns.
Finish(r) ==
  /\ run[r].pc = "finishing" /\ ~RuleGone(run[r])
  /\ run' = [run EXCEPT ![r] = [Free EXCEPT !.pc = "returned", !.rerun = run[r].rerun]]
  /\ UNCHANGED <<rule, suppressed, excluded, assigned, supports, order, call, tidying, excused,
                 edits, stops>>

\* The calls that have read the job write to a row that has ended.
Forgotten(r) ==
  [c \in Clients |-> IF call[c].target = r THEN [call[c] EXCEPT !.target = Gone] ELSE call[c]]

\* Mutant of Followup: the rerun is asked for again by the rerun itself.
FollowupAgain == [Queued EXCEPT !.rerun = TRUE]

\* create_followup_evaluation: a run of its own, and nothing asked of it yet.
Followup == Queued

\* The runs under way but for one that has ended.
Others(r) == RemoveAt(order, CHOOSE i \in DOMAIN order : order[i] = r)

\* ensure_category_rerun, with the completion of the job in the same transaction; the
\* follow-up takes the ended run's id.
PersistRerun(r) ==
  /\ run[r].pc = "returned" /\ run[r].rerun
  /\ run' = [run EXCEPT ![r] = Followup]
  /\ order' = Append(Others(r), r)
  /\ call' = Forgotten(r)
  /\ UNCHANGED <<rule, suppressed, excluded, assigned, supports, tidying, excused, edits, stops>>

\* Without a rerun the payload is read in one step and the job completed in another.
PersistRead(r) ==
  /\ run[r].pc = "returned" /\ ~run[r].rerun
  /\ run' = [run EXCEPT ![r].pc = "settling"]
  /\ UNCHANGED <<rule, suppressed, excluded, assigned, supports, order, call, tidying, excused,
                 edits, stops>>

PersistWrite(r) ==
  /\ run[r].pc = "settling"
  /\ run' = [run EXCEPT ![r] = Free]
  /\ order' = Others(r)
  /\ call' = Forgotten(r)
  /\ UNCHANGED <<rule, suppressed, excluded, assigned, supports, tidying, excused, edits, stops>>

\* Nothing is lost with a run whose batches are written and whose rerun nobody has asked for.
Spent(b) == b.pc \in {"finishing", "returned", "settling"} /\ ~b.rerun

\* A run that fails, is cancelled or loses its lease.  What it has committed stays, its batch
\* is rolled back, and a rerun that was asked of it is dropped.
Stop(r) ==
  /\ run[r].pc # "free"
  /\ run' = [run EXCEPT ![r] = Free]
  /\ order' = Others(r)
  /\ call' = Forgotten(r)
  /\ excused' = IF Spent(run[r]) THEN excused ELSE Pages
  /\ UNCHANGED <<rule, suppressed, excluded, assigned, supports, tidying, edits>>

\* A constraint that is violated or a rule that is missed ends a run for certain ...
Fail(r) ==
  /\ \/ run[r].pc = "writing" /\ Conflicts(run[r])
     \/ run[r].pc = "finishing" /\ RuleGone(run[r])
  /\ stops' = stops
  /\ Stop(r)

\* ... anything else may.
Fault(r) == stops < MaxStops /\ stops' = stops + 1 /\ Stop(r)

-----------------------------------------------------------------------------
Step(r) ==
  \/ Claim(r) \/ Load(r) \/ BatchRead(r) \/ BatchWrite(r) \/ Fail(r)
  \/ Finish(r) \/ PersistRerun(r) \/ PersistRead(r) \/ PersistWrite(r)

Next ==
  \/ \E q \in Rules : DeleteRule(q) \/ \E m \in Matches : CreateRule(q, m) \/ UpdateConditions(q, m)
  \/ \E p \in Pages : RemoveExclusion(p) \/ AssignManually(p) \/ UnassignManually(p)
                        \/ TidyRead(p) \/ TidyWrite(p) \/ SetWorkspaceState(p)
  \/ ScanEnded \/ DeleteCategory
  \/ \E c \in Clients : \/ \E q \in Rules : LookSwitch(c, q)
                        \/ \E p \in Pages : LookExclude(c, p)
                        \/ LookArchive(c) \/ LookRecalculate(c) \/ Commit(c)
  \/ \E r \in RunIds : Step(r) \/ Fault(r)

Spec == Init /\ [][Next]_vars

\* Workers go on with the jobs they have (JobQueue's EveryJobSettles); users need not.
Fairness == \A r \in RunIds : WF_vars(Step(r))

FairSpec == Spec /\ Fairness

-----------------------------------------------------------------------------
(***************************************************************************)
(* Properties.                                                             *)
(***************************************************************************)

Idle == order = <<>> /\ \A c \in Clients : call[c] = NoCall

\* The supports page p should have by the rules as they are.
Due(p) == {q \in Rules : rule[q].state = "active" /\ p \in rule[q].match /\ p \notin excluded}

\* Once nothing is under way every page of the workspace has exactly the rule supports that
\* the active rules and the exclusions give it, and is assigned just if it has a support:
\* whatever order rules, exclusions and manual assignments were edited in while runs were
\* reading and writing.  Excused are the pages of the cases the code misses: a trigger that
\* no run under way takes up, a run that ends before its batches are written or with a rerun
\* still asked of it (as when a rule it has loaded is deleted), pages moved in or out of the
\* workspace, and an assignment that a metadata update deleted.
AgreesWhenIdle ==
  Idle => \A p \in Pages \ (suppressed \cup excused) :
            /\ {q \in Rules : <<p, q>> \in supports} = Due(p)
            /\ p \in assigned <=> \E s \in supports : s[1] = p

\* docs/page-category-rules.md:84-87 and :102: deleting a rule leads to a full reconciliation,
\* by the follow-up of the run under way if there is one, and that removes the assignments left
\* without support.  Violated without any fault: the run fails for want of the deleted rule,
\* and the follow-up asked of it is dropped.
DeletionReconciled ==
  Idle => \A p \in assigned \ suppressed : \E s \in supports : s[1] = p

\* A manual assignment goes only when the user takes it away, or with an assignment that was
\* read without any support before the user made it: no run takes it for one of its own.
ManualKept ==
  [][\A p \in Pages :
       <<p, Manual>> \in supports /\ <<p, Manual>> \notin supports' =>
         \/ edits' = edits + 1
         \/ p \in tidying
         \/ \E r \in RunIds : p \in run[r].unsupported]_vars

\* Triggers coalesce: the jobs under way for a site are never more than one, and one for each
\* request that found no job when it looked.
TriggersCoalesce == Len(order) <= 1 + Cardinality(Clients)

\* Reruns come to an end: when users have stopped, so have the runs.
ComesToRest == <>[](order = <<>>)
=============================================================================
