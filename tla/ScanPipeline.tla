----------------------------- MODULE ScanPipeline -----------------------------
(***************************************************************************)
(* What follows a scan: its projection is built, and comparisons of two    *)
(* scans are built from the projections of both.  Builds are created by    *)
(* requests, by jobs that end and by the command line; a build under way   *)
(* is unique per scan or comparison; a comparison without projections      *)
(* waits, without a job, for the job of a projection to queue it.          *)
(*                                                                         *)
(* An action is what one session does from its first write to its commit.  *)
(* create_*_build looks with SELECTs and inserts in a savepoint: where     *)
(* nothing was written before, the savepoint's release is a commit of its  *)
(* own, so the build is there before its job.  A build's two kinds differ  *)
(* by their owner, a scan or a comparison, and go through one set of       *)
(* actions.  Leases, fencing and lost ownership are JobQueue's matter.     *)
(***************************************************************************)
EXTENDS PageChanges, Sequences

CONSTANTS
  Scans,       \* scan ids
  Historic,    \* scans that ended long ago, before there were projections
  Previous,    \* the scan before a scan, where there is one: a function
  Comparisons, \* pairs of a baseline and a target scan
  Pages,       \* resource ids
  Evidence,    \* what a scan has observed of a page: immutable once it has ended
  Links,       \* what a scan has observed of the links between two pages, by the pair
  Workers,     \* worker task slots
  Clients,     \* requests
  Cli,         \* the command line tools
  None,        \* no build, no job
  MaxBuilds,   \* bound on the builds of one owner
  MaxRequests, \* bound on requests and commands
  MaxFaults    \* bound on crashes and failures

Owners == Scans \cup Comparisons
Builds == Owners \X (1..MaxBuilds)
Processes == Workers \cup Clients \cup {Cli}

\* The tables a build fills, one commit each; edges stands for resources as well.
Parts == <<"pages", "edges", "summary">>
AllParts == {"pages", "edges", "summary"}

ASSUME PipelineAssumption ==
  /\ Comparisons \subseteq Scans \X Scans /\ \A c \in Comparisons : c[1] # c[2]
  /\ Historic \subseteq Scans
  /\ DOMAIN Previous \subseteq Scans /\ \A s \in DOMAIN Previous : <<Previous[s], s>> \in Comparisons
  /\ Evidence \in [Scans -> [Pages -> Observations \cup {Unseen}]]
  /\ Links \in [Scans -> [Pages \X Pages -> Values \cup {Unseen}]]
  /\ {MaxBuilds, MaxRequests, MaxFaults} \subseteq Nat
  /\ None \notin Builds \cup Owners /\ Scans \cap (Comparisons \cup Builds) = {}
  /\ Workers \cap Clients = {} /\ Cli \notin Workers \cup Clients
  /\ IsFiniteSet(Pages)

VARIABLES
  scan,      \* status of the scan and of its job
  build,     \* rows of scan_projection_builds and scan_comparison_builds, and their jobs
  current,   \* scan_projection_states and scan_comparisons.current_build_id
  known,     \* rows of scan_comparisons
  proc,      \* what each worker slot, request and command is doing
  missed,    \* history: waiting comparisons whose wake-up was over, or is nobody's task
  requests, faults

vars == <<scan, build, current, known, proc, missed, requests, faults>>

ActiveStatuses == {"queued", "waiting", "building"}

Rows == {NoRow} \cup Presences \X
        {"not_applicable", "substantive_change", "metadata_change", "technical_change",
         "normalization_only", "no_tracked_change", "indeterminate", "changed"}

\* What a comparison has stored: rows of pages and of edges, the pages' counts of edges and
\* the summary's counts.
Results == [pages: [Pages -> Rows], edges: [Pages \X Pages -> Rows],
            topology: [Pages -> [EdgeLabels -> [out: Nat, in: Nat]]],
            counts: Seq([Presences -> Nat])]

\* A build, what it has staged, its job; history: whether a command has executed it, whether
\* its status was written over after it had gone on from waiting, and whether it was given up
\* after it had been activated.
BuildRows == [status: {"none", "queued", "waiting", "building", "ready", "superseded", "failed",
                       "cancelled"},
              active: BOOLEAN, rows: SUBSET AllParts, commanded: BOOLEAN, overwritten: BOOLEAN,
              withdrawn: BOOLEAN, result: Results,
              pins: {<<>>} \cup Builds \X Builds,
              job: {"none", "queued", "running", "ended"}, flagged: BOOLEAN]

NoTopology == [label \in EdgeLabels |-> [out |-> 0, in |-> 0]]
NoResult == [pages |-> [p \in Pages |-> NoRow], edges |-> [e \in Pages \X Pages |-> NoRow],
             topology |-> [p \in Pages |-> NoTopology], counts |-> <<>>]

Unbuilt == [status |-> "none", active |-> FALSE, rows |-> {}, commanded |-> FALSE, overwritten |-> FALSE,
            withdrawn |-> FALSE, result |-> NoResult, pins |-> <<>>, job |-> "none", flagged |-> FALSE]

Idle == [pc |-> "idle", job |-> None, owner |-> None, build |-> None, status |-> "none",
         outcome |-> "none", pins |-> <<>>, wake |-> {}]

TypeOK ==
  /\ scan \in [Scans -> [status: {"running", "completed", "unsuccessful"},
                         job: {"running", "ended", "interrupted"}]]
  /\ build \in [Builds -> BuildRows]
  /\ \A o \in Owners : Cardinality({b \in Builds : b[1] = o /\ build[b].active}) <= 1
  /\ current \in [Owners -> Builds \cup {None}] /\ \A o \in Owners : current[o] # None => current[o][1] = o
  /\ known \subseteq Comparisons
  /\ missed \subseteq Comparisons
  /\ requests \in 0..MaxRequests /\ faults \in 0..MaxFaults

IsProjection(b) == b[1] \in Scans

\* current_projection_build, current_comparison_build.
Ready(o) == current[o] # None /\ build[current[o]].status = "ready"

Terminal(s) == scan[s].status # "running"

ActiveBuilds(o) == {b \in Builds : b[1] = o /\ build[b].active}

Fresh(o) == {b \in Builds : b[1] = o /\ build[b].status = "none"
                            /\ \A n \in 1..(b[2] - 1) : build[<<o, n>>].status # "none"}

Waiting(c) == \E b \in ActiveBuilds(c) : build[b].status = "waiting"

BothReady(c) == Ready(c[1]) /\ Ready(c[2])

StatusFor(o) == IF o \in Comparisons /\ ~BothReady(o) THEN "waiting" ELSE "queued"

\* A command has executed a build that a job is there for as well.
Shared(b) == build[b].commanded /\ build[b].job # "none"

Init ==
  /\ scan = [s \in Scans |-> IF s \in Historic THEN [status |-> "completed", job |-> "ended"]
                                             ELSE [status |-> "running", job |-> "running"]]
  /\ build = [b \in Builds |-> Unbuilt]
  /\ current = [o \in Owners |-> None]
  /\ known = {}
  /\ proc = [x \in Processes |-> Idle]
  /\ missed = {}
  /\ requests = 0 /\ faults = 0

Become(x, r) == proc' = [proc EXCEPT ![x] = r]

------------------------------------------------------------------------------
(* create_projection_build and create_comparison_build                      *)

\* What the SELECTs before the insert say.
Looked(r, o, force) ==
  IF ActiveBuilds(o) # {}
  THEN LET b == CHOOSE b \in ActiveBuilds(o) : TRUE
       IN [r EXCEPT !.pc = "enqueue", !.owner = o, !.build = b, !.status = build[b].status]
  ELSE IF Ready(o) /\ ~force
  THEN [r EXCEPT !.pc = "enqueue", !.owner = o, !.build = current[o], !.status = "ready"]
  ELSE [r EXCEPT !.pc = "insert", !.owner = o, !.status = StatusFor(o)]

\* Mutant: no unique active key.
InsertedBesides(rows, o, status) ==
  [b \in Builds |-> IF b \in Fresh(o) THEN [Unbuilt EXCEPT !.status = status, !.active = TRUE]
                    ELSE rows[b]]

\* The row with its unique active key; nothing where there is a rival.
Inserted(rows, o, status) ==
  [b \in Builds |-> IF ActiveBuilds(o) = {} /\ b \in Fresh(o)
                    THEN [Unbuilt EXCEPT !.status = status, !.active = TRUE]
                    ELSE rows[b]]

\* On with the build that is active now, the new row or the rival's.
AtActive(r, o) ==
  LET b == CHOOSE b \in Builds : b[1] = o /\ build'[b].active
  IN [r EXCEPT !.pc = "enqueue", !.owner = o, !.build = b, !.status = build'[b].status]

Insert(x) ==
  LET r == proc[x]  o == r.owner IN
  /\ r.pc = "insert"
  /\ ActiveBuilds(o) # {} \/ Fresh(o) # {}
  /\ build' = Inserted(build, o, r.status)
  /\ Become(x, AtActive(r, o))
  /\ missed' = IF o \in Comparisons /\ ActiveBuilds(o) = {} /\ r.status = "waiting" /\ BothReady(o)
               THEN missed \cup {o} ELSE missed
  /\ UNCHANGED <<scan, current, known, requests, faults>>

\* _enqueue_job for the builds of a set: a job that has not ended serves.
Enqueued(rows, bs) ==
  [b \in Builds |-> IF b \in bs /\ rows[b].job = "none" THEN [rows[b] EXCEPT !.job = "queued"] ELSE rows[b]]

\* Scans of a comparison that lack a projection: _queue_dependencies looks at both, the
\* follow-up of a projection at the baseline.
Dependencies(x, o) ==
  {s \in (IF o \in Comparisons THEN IF x \in Workers THEN {o[1]} ELSE {o[1], o[2]} ELSE {}) : ~Ready(s)}

\* The rows with projections created and enqueued for scans without one.
WithProjections(rows, ss) ==
  LET created == [b \in Builds |-> IF b[1] \in ss THEN Inserted(rows, b[1], "queued")[b] ELSE rows[b]]
  IN Enqueued(created, {b \in Builds : /\ b[1] \in ss
                                       /\ created[b].active /\ created[b].status = "queued"})

\* The job whose follow-up this was ends with it; it is a scan's or a projection's.
JobEnded(rows, x) ==
  IF proc[x].job \in Builds THEN [rows EXCEPT ![proc[x].job].job = "ended"] ELSE rows

ScanJobEnded(x) ==
  IF proc[x].job \in Scans THEN [scan EXCEPT ![proc[x].job].job = "ended"] ELSE scan

\* The jobs, with the projections a comparison lacks, and the commit.
Enqueue(x) ==
  LET r     == proc[x]
      mine  == IF r.status = "queued" THEN {r.build} ELSE {}
      rows  == WithProjections(build, Dependencies(x, r.owner))
  IN /\ r.pc = "enqueue" /\ x # Cli
     /\ \A b \in mine : build[b].job # "ended"
     /\ build' = JobEnded(Enqueued(rows, mine), x)
     /\ scan' = ScanJobEnded(x)
     /\ Become(x, Idle)
     /\ UNCHANGED <<current, known, missed, requests, faults>>

\* _enqueue_job refuses: the job of a build has ended since the look.  A request fails; the
\* follow-ups of a job are left to recovery.
Refused(x) ==
  /\ \/ /\ proc[x].pc = "enqueue" /\ proc[x].status = "queued" /\ x # Cli
        /\ build[proc[x].build].job = "ended"
     \/ proc[x].pc = "settle" /\ \E b \in proc[x].wake : build[b].job = "ended"
  /\ Become(x, Idle)
  /\ UNCHANGED <<scan, build, current, known, missed, requests, faults>>

\* All of it under the write lock: the build where it is needed, projections and jobs.
WithComparison(rows, x, c) ==
  LET created == WithProjections(IF Ready(c) THEN rows ELSE Inserted(rows, c, StatusFor(c)),
                                 Dependencies(x, c))
  IN Enqueued(created, {b \in Builds : /\ b[1] = c /\ created[b].active
                                       /\ created[b].status = "queued"})

\* A comparison that is new is flushed first.
CreateComparison(x, c) ==
  /\ known' = known \cup {c}
  /\ build' = JobEnded(WithComparison(build, x, c), x)

Eligible(o) == IF o \in Comparisons THEN Terminal(o[1]) /\ Terminal(o[2]) ELSE Terminal(o)

\* A request for a build, or a command; the latter prepares the scans before a comparison, and
\* commits a comparison that is new with its build and no job.
Ask(x, o, force) ==
  /\ proc[x] = Idle /\ requests < MaxRequests /\ Eligible(o)
  /\ requests' = requests + 1
  /\ \/ /\ o \in Comparisons \ known /\ x # Cli /\ ~force
        /\ CreateComparison(x, o)
        /\ UNCHANGED proc
     \/ /\ o \in Comparisons \ known /\ x = Cli /\ ~force /\ BothReady(o)
        /\ Fresh(o) # {}
        /\ known' = known \cup {o}
        /\ build' = Inserted(build, o, "queued")
        /\ Become(x, AtActive(Idle, o))
     \/ /\ o \in Scans \cup known /\ (o \in Comparisons /\ x = Cli => BothReady(o))
        /\ Become(x, Looked(Idle, o, force))
        /\ UNCHANGED <<known, build>>
  /\ UNCHANGED <<scan, current, missed, faults>>

\* A projection that is given up loses its rows, a comparison keeps what it has.
KeptRows(b) == IF IsProjection(b) THEN {} ELSE build[b].rows

\* Cancellation of the job of a build; a waiting one has none.
Cancel(b) ==
  /\ requests < MaxRequests /\ build[b].job \in {"queued", "running"} /\ ~build[b].flagged
  /\ requests' = requests + 1
  /\ build' = [build EXCEPT ![b] = IF @.job = "running" THEN [@ EXCEPT !.flagged = TRUE]
                                   ELSE IF @.status \in ActiveStatuses
                                   THEN [@ EXCEPT !.job = "ended", !.status = "cancelled",
                                                  !.active = FALSE,
                                                  !.rows = KeptRows(b)]
                                   ELSE [@ EXCEPT !.job = "ended"]]
  /\ UNCHANGED <<scan, current, known, proc, missed, faults>>

\* The process that serves a request, or a command, goes away.
Die(x) ==
  /\ x \in Clients \cup {Cli} /\ proc[x] # Idle /\ faults < MaxFaults
  /\ faults' = faults + 1
  /\ Become(x, Idle)
  /\ UNCHANGED <<scan, build, current, known, missed, requests>>

------------------------------------------------------------------------------
(* Executions: execute_projection_build, execute_comparison_build           *)

Claim(x, b) ==
  /\ x \in Workers /\ proc[x] = Idle /\ build[b].job = "queued"
  /\ build' = [build EXCEPT ![b].job = "running"]
  /\ Become(x, [Idle EXCEPT !.pc = "start", !.job = b, !.build = b])
  /\ UNCHANGED <<scan, current, known, missed, requests, faults>>

\* A command executes the build it was given, its own or not, without a job.
CommandExecutes(x) ==
  /\ x = Cli /\ proc[x].pc = "enqueue"
  /\ Become(x, IF proc[x].status = "ready" THEN Idle
               ELSE [Idle EXCEPT !.pc = "start", !.build = proc[x].build])
  /\ UNCHANGED <<scan, build, current, known, missed, requests, faults>>

Started(row, x) == [row EXCEPT !.status = "building", !.commanded = @ \/ x = Cli]

StartProjection(x) ==
  LET b == proc[x].build IN
  /\ proc[x].pc = "start" /\ IsProjection(b)
  /\ build' = [build EXCEPT ![b] = Started(@, x)]
  /\ Become(x, [proc[x] EXCEPT !.pc = "clear"])
  /\ UNCHANGED <<scan, current, known, missed, requests, faults>>

\* The projections are read before the first write of the session.
StartComparison(x) ==
  LET b == proc[x].build  c == b[1] IN
  /\ proc[x].pc = "start" /\ ~IsProjection(b)
  /\ \/ /\ BothReady(c)
        /\ Become(x, [proc[x] EXCEPT !.pc = "pin", !.pins = <<current[c[1]], current[c[2]]>>])
        /\ UNCHANGED build
     \/ /\ ~BothReady(c)
        /\ build' = [build EXCEPT ![b].status = "waiting", ![b].commanded = @ \/ x = Cli]
        /\ Become(x, [proc[x] EXCEPT !.pc = "failed"])
  /\ UNCHANGED <<scan, current, known, missed, requests, faults>>

\* _pin_projection_provenance.
Pin(x) ==
  /\ proc[x].pc = "pin"
  /\ build' = [build EXCEPT ![proc[x].build] = [Started(@, x) EXCEPT !.pins = proc[x].pins]]
  /\ Become(x, [proc[x] EXCEPT !.pc = "clear"])
  /\ UNCHANGED <<scan, current, known, missed, requests, faults>>

\* _clear_staged_rows.
Clear(x) ==
  /\ proc[x].pc = "clear"
  /\ build' = [build EXCEPT ![proc[x].build].rows = {}, ![proc[x].build].result = NoResult]
  /\ Become(x, [proc[x] EXCEPT !.pc = Parts[1]])
  /\ UNCHANGED <<scan, current, known, missed, requests, faults>>

Flagged(x) == proc[x].job \in Builds /\ build[proc[x].job].flagged

\* What a projection has of a page or an edge, as far as it has rows; the rows of edges are
\* made from the pages' links.
ProjectedPage(b, p) == IF "pages" \in build[b].rows THEN Evidence[b[1]][p] ELSE Unseen

ProjectedEdge(b, e) ==
  IF "edges" \in build[b].rows /\ Evidence[b[1]][e[1]] # Unseen THEN Links[b[1]][e] ELSE Unseen

\* The rows of a comparison after one more table; topology is for pages that have a row.
Filled(result, part, before, after) ==
  CASE part = "pages" ->
         [result EXCEPT !.pages = [p \in Pages |-> PageRow(ProjectedPage(before, p), ProjectedPage(after, p))]]
    [] part = "edges" ->
         LET edges == [e \in Pages \X Pages |-> FieldRow(ProjectedEdge(before, e), ProjectedEdge(after, e))]
         IN [result EXCEPT !.edges = edges,
                           !.topology = [p \in Pages |-> IF result.pages[p] = NoRow THEN NoTopology
                                                         ELSE Topology(edges, p)]]
    [] part = "summary" ->
         [result EXCEPT !.counts = <<ResultCounts(result.pages), ResultCounts(result.edges)>>]

\* A projection's summary comes with its activation.
After(b, n) == IF n = 3 \/ (n = 2 /\ IsProjection(b)) THEN "activate" ELSE Parts[n + 1]

\* _insert_batches for one table, with a look for a cancellation except before the summary;
\* the unique key of its rows refuses a second time.
InsertRows(x, n) ==
  LET b == proc[x].build IN
  /\ proc[x].pc = Parts[n] /\ (n = 3 \/ ~Flagged(x))
  /\ \/ /\ Parts[n] \notin build[b].rows
        /\ build' = [build EXCEPT ![b].rows = @ \cup {Parts[n]},
                                  ![b].result = IF IsProjection(b) THEN @ ELSE Filled(@, Parts[n], proc[x].pins[1], proc[x].pins[2])]
        /\ Become(x, [proc[x] EXCEPT !.pc = After(b, n)])
     \/ /\ Parts[n] \in build[b].rows
        /\ Become(x, [proc[x] EXCEPT !.pc = "failing", !.outcome = "failed"])
        /\ UNCHANGED build
  /\ UNCHANGED <<scan, current, known, missed, requests, faults>>

\* _validate_build counts what is stored.
Valid(b) == {"pages", "edges"} \subseteq build[b].rows

\* Mutant: the rows of the build that is replaced are not kept.
SupersededEmptied(o, b) ==
  IF current[o] \in Builds \ {b}
  THEN [build EXCEPT ![current[o]].status = "superseded", ![current[o]].rows = {}] ELSE build

Superseded(o, b) ==
  IF current[o] \in Builds \ {b} THEN [build EXCEPT ![current[o]].status = "superseded"] ELSE build

\* The pointer and both builds' statuses are one commit, with the summary of a projection.
Activate(x) ==
  LET b == proc[x].build  o == b[1] IN
  /\ proc[x].pc = "activate" /\ ~Flagged(x) /\ Valid(b)
  /\ build' = [Superseded(o, b) EXCEPT ![b].status = "ready", ![b].active = FALSE,
                                        ![b].rows = IF IsProjection(b) THEN AllParts ELSE @]
  /\ current' = [current EXCEPT ![o] = b]
  /\ Become(x, [proc[x] EXCEPT !.pc = "published"])
  /\ missed' = IF x = Cli THEN missed \cup {c \in Comparisons : o \in {c[1], c[2]} /\ Waiting(c)} ELSE missed
  /\ UNCHANGED <<scan, known, requests, faults>>

\* Progress is reported and the build read again, after the commit: then it is returned.
Return(x) ==
  /\ proc[x].pc = "published"
  /\ Become(x, IF x = Cli THEN Idle ELSE [proc[x] EXCEPT !.pc = "returned"])
  /\ UNCHANGED <<scan, build, current, known, missed, requests, faults>>

\* A cancellation is seen, the validation fails or anything else does: also after the commit
\* that has activated the build, which goes the way of every failed build all the same.
Stop(x) ==
  /\ \/ /\ proc[x].pc \in {"pages", "edges", "activate"} /\ Flagged(x)
        /\ Become(x, [proc[x] EXCEPT !.pc = "failing", !.outcome = "cancelled"])
        /\ UNCHANGED <<build, faults>>
     \/ /\ proc[x].pc = "activate" /\ ~Flagged(x) /\ ~Valid(proc[x].build)
        /\ Become(x, [proc[x] EXCEPT !.pc = "failing", !.outcome = "failed"])
        /\ UNCHANGED <<build, faults>>
     \/ /\ proc[x].pc \in AllParts \cup {"activate"} /\ faults < MaxFaults /\ faults' = faults + 1
        /\ Become(x, [proc[x] EXCEPT !.pc = "failing", !.outcome = "failed"])
        /\ UNCHANGED build
     \/ /\ proc[x].pc = "published" /\ faults < MaxFaults /\ faults' = faults + 1
        /\ Become(x, [proc[x] EXCEPT !.pc = "failing", !.outcome = "failed"])
        /\ build' = [build EXCEPT ![proc[x].build].withdrawn = TRUE]
  /\ UNCHANGED <<scan, current, known, missed, requests>>

\* _finish_failed_build, which asks for no status: a projection's rows go in a commit of their own.
RemoveStaged(x) ==
  LET b == proc[x].build IN
  /\ proc[x].pc = "failing" /\ IsProjection(b)
  /\ build' = [build EXCEPT ![b].rows = {}]
  /\ Become(x, [proc[x] EXCEPT !.pc = "marking"])
  /\ UNCHANGED <<scan, current, known, missed, requests, faults>>

MarkFailed(x) ==
  LET b == proc[x].build IN
  /\ proc[x].pc \in {"failing", "marking"} /\ (proc[x].pc = "marking" <=> IsProjection(b))
  /\ build' = [build EXCEPT ![b].status = proc[x].outcome, ![b].active = FALSE]
  /\ Become(x, IF x = Cli THEN Idle ELSE [proc[x] EXCEPT !.pc = "failed"])
  /\ UNCHANGED <<scan, current, known, missed, requests, faults>>

\* mark_projection_build_terminal, mark_comparison_build_terminal: for a build under way only.
MarkedTerminal(b, status) ==
  [build EXCEPT ![b] = [IF @.status \in ActiveStatuses
                        THEN [@ EXCEPT !.status = status, !.active = FALSE,
                                       !.rows = KeptRows(b)]
                        ELSE @ EXCEPT !.job = "ended"]]

\* An execution has raised: _terminalize_failed_job, _terminalize_cancelled_job; a command
\* just ends.
Terminalize(x) ==
  /\ proc[x].pc = "failed"
  /\ build' = IF x = Cli THEN build
              ELSE MarkedTerminal(proc[x].build,
                                  IF proc[x].outcome = "cancelled" THEN "cancelled" ELSE "failed")
  /\ Become(x, Idle)
  /\ UNCHANGED <<scan, current, known, missed, requests, faults>>

------------------------------------------------------------------------------
(* Ends of jobs: _persist_handler_result with ensure_projection_followups   *)

\* Mutant: only comparisons that have the scan as their target.
AwaitingAsTarget(s) == {c \in Comparisons : s = c[2] /\ Waiting(c) /\ BothReady(c)}

\* The comparisons that queue_waiting_comparisons_for_scan finds.
Awaiting(s) == {c \in Comparisons : s \in {c[1], c[2]} /\ Waiting(c) /\ BothReady(c)}

SettleRead(x) ==
  LET b == proc[x].job IN
  /\ proc[x].pc = "returned"
  /\ \/ /\ IsProjection(b) /\ build[b].status = "ready"
        /\ Become(x, [proc[x] EXCEPT !.pc = "settle",
                       !.wake = UNION {ActiveBuilds(c) : c \in Awaiting(b[1])}])
        /\ UNCHANGED build
     \/ /\ IsProjection(b) => build[b].status # "ready"
        /\ build' = [build EXCEPT ![b].job = "ended"]
        /\ Become(x, Idle)
  /\ UNCHANGED <<scan, current, known, missed, requests, faults>>

\* The comparison with the scan before, if both have ended well and this one is prepared.
Adjacent(s) ==
  IF s \in DOMAIN Previous /\ scan[s].status = "completed" /\ Ready(s)
     /\ scan[Previous[s]].status = "completed"
  THEN {<<Previous[s], s>>} ELSE {}

\* queue_waiting_comparisons_for_scan writes the statuses of the builds it has read.
Woken(x) ==
  Enqueued([b \in Builds |-> IF b \in proc[x].wake
                             THEN [build[b] EXCEPT !.status = "queued",
                                                   !.overwritten = @ \/ build[b].status # "waiting"]
                             ELSE build[b]],
           proc[x].wake)

\* The waiting comparisons are written; from then on the lock is held, so that the comparison
\* with the scan before is looked at and created in the same transaction.
SettleWoken(x) ==
  LET cs == Adjacent(proc[x].job[1]) \ {b[1] : b \in proc[x].wake} IN
  /\ proc[x].pc = "settle" /\ proc[x].wake # {}
  /\ \A b \in proc[x].wake : build[b].job # "ended"
  /\ known' = known \cup cs
  /\ build' = JobEnded(IF cs = {} THEN Woken(x)
                       ELSE WithComparison(Woken(x), x, CHOOSE c \in cs : TRUE), x)
  /\ Become(x, Idle)
  /\ UNCHANGED <<scan, current, missed, requests, faults>>

\* Nothing waits: the comparison with the scan before is new, or is looked at.
SettleAdjacent(x) ==
  LET s == proc[x].job[1] IN
  /\ proc[x].pc = "settle" /\ proc[x].wake = {}
  /\ \/ /\ Adjacent(s) = {}
        /\ build' = JobEnded(build, x)
        /\ Become(x, Idle)
        /\ UNCHANGED known
     \/ \E c \in Adjacent(s) \ known :
           /\ CreateComparison(x, c)
           /\ Become(x, Idle)
     \/ \E c \in Adjacent(s) \cap known :
           /\ Become(x, Looked(proc[x], c, FALSE))
           /\ UNCHANGED <<build, known>>
  /\ UNCHANGED <<scan, current, missed, requests, faults>>

\* A scan ends and its job's follow-up looks for a projection.
ScanEnds(x, s) ==
  /\ x \in Workers /\ proc[x] = Idle /\ scan[s].status = "running"
  /\ \E status \in {"completed", "unsuccessful"} : scan' = [scan EXCEPT ![s].status = status]
  /\ Become(x, [Idle EXCEPT !.pc = "followup", !.job = s])
  /\ UNCHANGED <<build, current, known, missed, requests, faults>>

ScanFollowup(x) ==
  /\ proc[x].pc = "followup"
  /\ Become(x, Looked(proc[x], proc[x].job, FALSE))
  /\ UNCHANGED <<scan, build, current, known, missed, requests, faults>>

------------------------------------------------------------------------------
(* Crashes of workers, and recovery of their jobs                           *)

Crash(x) ==
  /\ x \in Workers /\ proc[x] # Idle /\ faults < MaxFaults
  /\ faults' = faults + 1
  /\ Become(x, Idle)
  /\ UNCHANGED <<scan, build, current, known, missed, requests>>

Held(j) == \E y \in Workers : proc[y].job = j

\* A projection or comparison that is ready gets its follow-ups, one under way is interrupted.
RecoverBuild(x, b) ==
  /\ x \in Workers /\ proc[x] = Idle /\ build[b].job = "running" /\ ~Held(b)
  /\ \/ /\ build[b].status = "ready"
        /\ Become(x, [Idle EXCEPT !.pc = "returned", !.job = b, !.build = b])
        /\ UNCHANGED build
     \/ /\ build[b].status # "ready"
        /\ build' = MarkedTerminal(b, "failed")
        /\ UNCHANGED proc
  /\ UNCHANGED <<scan, current, known, missed, requests, faults>>

\* A scan that had ended gets its follow-ups, one that had not is interrupted without.
RecoverScan(x, s) ==
  /\ x \in Workers /\ proc[x] = Idle /\ scan[s].job = "running" /\ ~Held(s)
  /\ \/ /\ Terminal(s)
        /\ Become(x, [Idle EXCEPT !.pc = "followup", !.job = s])
        /\ UNCHANGED <<scan, faults>>
     \/ /\ ~Terminal(s) /\ faults < MaxFaults /\ faults' = faults + 1
        /\ scan' = [scan EXCEPT ![s] = [status |-> "unsuccessful", job |-> "interrupted"]]
        /\ UNCHANGED proc
  /\ UNCHANGED <<build, current, known, missed, requests>>

Create(x) == Insert(x) \/ Enqueue(x) \/ Refused(x)

Execute(x) ==
  \/ CommandExecutes(x) \/ StartProjection(x) \/ StartComparison(x) \/ Pin(x) \/ Clear(x)
  \/ (\E n \in 1..3 : InsertRows(x, n)) \/ Activate(x) \/ Return(x) \/ RemoveStaged(x) \/ MarkFailed(x)
  \/ Terminalize(x)
  \/ (Stop(x) /\ UNCHANGED faults)

Settle(x) == SettleRead(x) \/ SettleWoken(x) \/ SettleAdjacent(x) \/ ScanFollowup(x)

Work(x) ==
  \/ Create(x) \/ Execute(x) \/ Settle(x)
  \/ (\E b \in Builds : Claim(x, b) \/ RecoverBuild(x, b))
  \/ (\E s \in Scans : RecoverScan(x, s) /\ UNCHANGED faults)

Next ==
  \/ \E x \in Processes : Create(x) \/ Execute(x) \/ Settle(x) \/ Stop(x) \/ Die(x) \/ Crash(x)
  \/ \E x \in Workers, b \in Builds : Claim(x, b) \/ RecoverBuild(x, b)
  \/ \E x \in Workers, s \in Scans : ScanEnds(x, s) \/ RecoverScan(x, s)
  \/ \E x \in Clients \cup {Cli}, o \in Owners, force \in BOOLEAN : Ask(x, o, force)
  \/ \E b \in Builds : Cancel(b)

Fairness == \A x \in Processes : WF_vars(Work(x))

Spec == Init /\ [][Next]_vars /\ Fairness

------------------------------------------------------------------------------
(* Properties                                                               *)

\* What a comparison stores, as it follows from the evidence of its scans alone.
Expected == [c \in Comparisons |->
  LET Seen(s)  == {p \in Pages : Evidence[s][p] # Unseen}
      Edges(s) == {e \in Seen(s) \X Pages : Links[s][e] # Unseen}
      Sets(old, new) == [observed_in_both |-> old \cap new, newly_observed |-> new \ old,
                         not_observed_in_target |-> old \ new]
      pages   == Sets(Seen(c[1]), Seen(c[2]))
      edges   == Sets(Edges(c[1]), Edges(c[2]))
      changed == {e \in edges.observed_in_both : Links[c[1]][e] # Links[c[2]][e]}
  IN [pages |-> [p \in Pages |-> IF p \notin Seen(c[1]) \cup Seen(c[2]) THEN NoRow
                                 ELSE <<CHOOSE st \in Presences : p \in pages[st],
                                        Meaning(Evidence[c[1]][p], Evidence[c[2]][p])>>],
      topology |-> [p \in Pages |-> [label \in EdgeLabels |->
                      LET es == IF label = "changed" THEN changed ELSE edges[label]
                          row == p \in Seen(c[1]) \cup Seen(c[2])
                      IN [out |-> Cardinality({e \in es : row /\ e[1] = p}),
                          in  |-> Cardinality({e \in es : row /\ e[2] = p})]]],
      counts |-> <<[st \in Presences |-> Cardinality(pages[st])],
                   [st \in Presences |-> Cardinality(edges[st])]>>]]

\* Nobody has interfered with it, nor with the projections it was made from, and none of them
\* was given up after its activation.
Undisturbed(b) ==
  /\ ~Shared(b) /\ ~build[b].overwritten /\ ~build[b].withdrawn
  /\ build[b].pins # <<>> => \A i \in 1..2 : ~Shared(build[b].pins[i]) /\ ~build[build[b].pins[i]].withdrawn

\* What readers are shown is whole (execute_projection_build, execute_comparison_build): the
\* pointer of a scan or comparison selects a ready build and no other build is ready; it has
\* all its rows; a comparison says of every page what the evidence of the two scans says, even
\* if a projection was rebuilt, superseded, cancelled or failed meanwhile; a projection that
\* has failed has left nothing.  Excepted is what both a job and a command are for, what was
\* written over by a settlement that had read it as waiting, and what an execution gave up
\* after it had activated it, though docs/scan-comparisons.md:77-78 and docs/scan-projections.md:101-103
\* have the build before that one stay current and readable.
ReadyIsWhole ==
  \A b \in Builds : Undisturbed(b) =>
    /\ build[b].status = "ready" <=> current[b[1]] = b
    /\ build[b].status = "ready" => build[b].rows = AllParts /\ ~build[b].active
    /\ build[b].status \in {"ready", "superseded"} /\ ~IsProjection(b) =>
         \A part \in {"pages", "topology", "counts"} : build[b].result[part] = Expected[b[1]][part]
    /\ build[b].status \in {"failed", "cancelled"} /\ IsProjection(b) => build[b].rows = {}

\* A build under way that nobody will go on with, as its request or command has died.
Stranded(b) ==
  /\ build[b].active /\ build[b].status # "waiting" /\ build[b].job \in {"none", "ended"}
  /\ \A x \in Processes : proc[x].build # b

\* A scan that has ended has its projection, its job's follow-up done.
Prepared(s) ==
  Terminal(s) /\ s \notin Historic /\ scan[s].job # "interrupted" =>
    \/ Ready(s) /\ scan[s].job = "ended"
    \/ \E b \in Builds : /\ b[1] = s
                         /\ build[b].status \in {"failed", "cancelled"} \/ Stranded(b) \/ Shared(b)

\* A comparison does not wait for projections that are there.
Queued(c) ==
  Waiting(c) /\ BothReady(c) => c \in missed \/ \E b \in Builds : b[1] \in {c[1], c[2]} /\ Shared(b)

\* In the end every scan that ended has its projection, and no comparison waits for projections
\* that are there (ensure_terminal_scan_followups, queue_waiting_comparisons_for_scan), whatever
\* crashed in between: unless the scan was interrupted by recovery, which prepares nothing, a build
\* has failed, was stranded or shared with a command, or the waiting row was inserted on a look
\* that an activation had overtaken.
NothingLeftBehind == <>[]((\A s \in Scans : Prepared(s)) /\ (\A c \in Comparisons : Queued(c)))
==============================================================================
