-------------------------- MODULE IdentityMigration --------------------------
(***************************************************************************)
(* The migration of a live database to the current URL identities: an      *)
(* operator's tool that backs up, checks, rewrites, rebuilds and activates  *)
(* in steps of its own, next to the API and a worker that only look at the  *)
(* identity state when a request arrives, a job is claimed or a resource is *)
(* looked up; the tool may die between any two steps, and what it left is   *)
(* rolled back from the backup.                                            *)
(*                                                                         *)
(* One request and one job stand for all of them.                          *)
(***************************************************************************)
EXTENDS IdentityReconciliation

CONSTANTS
  Resource, Row, Page,  \* what the historical database holds, by number
  Decisions,    \* the decisions operators make about a page
  Owners,       \* whom a page may belong to
  NewUrls,      \* the spellings added while this goes on
  MaxApplies,   \* bound on migrations attempted
  MaxWrites,    \* bound on requests
  MaxStarts,    \* bound on worker starts
  MaxCrashes    \* bound on deaths of the tool

Kinds == {"plain", "listed", "seed", "origin"}

\* The historical database: what refers to a row or a resource refers to one that is there, what
\* repeats a URL repeats that of its resource, and a seed was requested by its URL.  What is
\* added is accepted by either normalization.
ASSUME MigrationAssumption ==
  /\ Resource \in [Ids -> {NoResource} \cup [version : {"V1"}, url : Urls]]
  /\ Row \in [Rows -> {NoRow} \cup [kind : Kinds, raw : Urls, url : Urls \cup {NoUrl},
                                   resource : Ids \cup {0}, seed : Rows \cup {0}]]
  /\ \A x \in Used(Row, NoRow) :
       IF Row[x].kind = "origin" THEN Row[x].seed \in Used(Row, NoRow) /\ Row[Row[x].seed].kind = "seed"
       ELSE /\ Row[x].resource \in Used(Resource, NoResource)
            /\ Row[x].kind \in {"listed", "seed"} => Row[x].url = Resource[Row[x].resource].url
            /\ Row[x].kind = "seed" => Row[x].raw = Row[x].url
  /\ \A u \in NewUrls : u \in Urls /\ V1[u] # NoUrl /\ V2[u] # NoUrl
  /\ {MaxApplies, MaxWrites, MaxStarts, MaxCrashes} \subseteq Nat

VARIABLES
  db,        \* the database
  backup,    \* the backup of each attempt
  manifest,  \* the operator's manifest
  op,        \* the tool
  client,    \* a request under way
  owed,      \* rows accepted while no migration or rollback was under way
  slipped,   \* identities were added between the last validation and the rewriting
  spent      \* attempts, requests, worker starts and deaths so far

vars == <<db, backup, manifest, op, client, owed, slipped, spent>>

Attempts == 1 .. MaxApplies

-----------------------------------------------------------------------------
\* What _domain_fingerprint is taken of: everything but the identity state.
Domain(d) == <<d.resource, d.row, d.page, d.derived, d.job, d.worker>>

\* inspect_url_identity_state: a state that is none of these is under maintenance.
Historical(d) == d.active = "V1" /\ d.required
Current(d) == d.active = "V2" /\ ~d.required

Maintenance(d) ==
  ~(\/ d.migration = 0 /\ (Historical(d) \/ Current(d))
    \/ d.migration # 0 /\ d.status = "completed" /\ Current(d))

ActiveJobs(d) == d.job # "none"

HealthyWorkers(d) == d.worker = "online"

Normal(d, raw) == IF d.active = "V1" THEN V1[raw] ELSE V2[raw]

Named(d, url) == {r \in Resources(d) : d.resource[r] = [version |-> d.active, url |-> url]}

\* get_or_create_resource, and the row that refers to it.  A scan's row is projected.
WithRow(d, kind, raw) ==
  LET url == Normal(d, raw)
      r == IF Named(d, url) # {} THEN Min(Named(d, url)) ELSE Min(Free(d.resource, NoResource))
      row == Min(Free(d.row, NoRow))
  IN [d EXCEPT !.resource[r] = [version |-> d.active, url |-> url],
               !.row[row] = [kind |-> kind, raw |-> raw, url |-> IF kind = "plain" THEN NoUrl ELSE url,
                             resource |-> r, seed |-> 0],
               !.derived = IF kind = "plain" THEN @ \cup {r} ELSE @]

Room(d) == Cardinality(Free(d.resource, NoResource)) > 2 /\ Cardinality(Free(d.row, NoRow)) > 1

-----------------------------------------------------------------------------
InitialDatabase ==
  LET d == [resource |-> Resource, row |-> Row, page |-> Page, derived |-> {}, job |-> "none",
            worker |-> "stopped", active |-> "V1", required |-> TRUE, migration |-> 0,
            status |-> "none", fingerprint |-> <<>>]
  IN [d EXCEPT !.derived = Projected(d)]

Idle == [pc |-> "idle", attempt |-> 0, before |-> <<>>]

Init ==
  /\ db = InitialDatabase
  /\ backup = [n \in Attempts |-> <<>>]
  /\ \E d \in Decisions : manifest = [Exported(db) EXCEPT !.decision = [p \in Pages |-> d]]
  /\ op = Idle
  /\ client = "idle"
  /\ owed = {}
  /\ slipped = FALSE
  /\ spent = [applies |-> 0, writes |-> 0, starts |-> 0, crashes |-> 0]

Goto(pc) == op' = [op EXCEPT !.pc = pc]

\* The tool is at work, or what it left has to be rolled back.
Underway == op.pc # "idle" \/ Maintenance(db)

-----------------------------------------------------------------------------
(* The API and the worker.                                                 *)

\* The middleware looks at the identity state in a session of its own.
Admit ==
  /\ client = "idle" /\ ~Maintenance(db)
  /\ spent.writes < MaxWrites
  /\ client' = "admitted"
  /\ spent' = [spent EXCEPT !.writes = @ + 1]
  /\ UNCHANGED <<db, backup, manifest, op, owed, slipped>>

Answer(done) ==
  /\ client = "admitted" /\ client' = "idle"
  /\ db' = done
  /\ UNCHANGED <<backup, manifest, op, spent>>

Recorded(kind, raw) ==
  /\ owed' = IF Underway THEN owed ELSE owed \cup {Min(Free(db.row, NoRow))}
  /\ slipped' = (slipped \/ op.pc \in {"planned", "based"})

\* A URL added by hand: its identity is looked up under the state as it is by then.
AddUrl(raw) ==
  /\ Room(db)
  /\ ~Maintenance(db)
  /\ Recorded("listed", raw)
  /\ Answer(WithRow(db, "listed", raw))

\* Other writes do not look again ...
EditPage(p) ==
  /\ p \in Workspace(db)
  /\ \E owner \in Owners : Answer([db EXCEPT !.page[p].owner = owner])
  /\ UNCHANGED <<owed, slipped>>

\* ... nor does a request that enqueues a job.
Enqueue ==
  /\ db.job = "none"
  /\ Answer([db EXCEPT !.job = "queued"])
  /\ UNCHANGED <<owed, slipped>>

\* UrlIdentityMaintenanceRequired
Refused ==
  /\ Maintenance(db)
  /\ Answer(db)
  /\ UNCHANGED <<owed, slipped>>

WorkerStart ==
  /\ db.worker = "stopped"
  /\ spent.starts < MaxStarts
  /\ db' = [db EXCEPT !.worker = "online"]
  /\ spent' = [spent EXCEPT !.starts = @ + 1]
  /\ UNCHANGED <<backup, manifest, op, client, owed, slipped>>

WorkerStop ==
  /\ db.worker = "online" /\ db.job # "running"
  /\ db' = [db EXCEPT !.worker = "stopped"]
  /\ UNCHANGED <<backup, manifest, op, client, owed, slipped, spent>>

\* claim_next_job
Claim ==
  /\ db.worker = "online" /\ db.job = "queued"
  /\ ~Maintenance(db)
  /\ db' = [db EXCEPT !.job = "running"]
  /\ UNCHANGED <<backup, manifest, op, client, owed, slipped, spent>>

\* The job finds a page, or fails because it may not look up its identity.
Work ==
  /\ db.job = "running"
  /\ IF Maintenance(db) \/ ~Room(db)
     THEN db' = [db EXCEPT !.job = "none"] /\ UNCHANGED <<owed, slipped>>
     ELSE \E raw \in NewUrls :
            db' = [WithRow(db, "plain", raw) EXCEPT !.job = "none"] /\ Recorded("plain", raw)
  /\ UNCHANGED <<backup, manifest, op, client, spent>>

-----------------------------------------------------------------------------
(* apply_migration                                                         *)

\* The operator's decisions are carried over to the database as it is now.
Rebase ==
  /\ op = Idle
  /\ manifest' = Rebased(manifest, db)
  /\ manifest' # manifest
  /\ UNCHANGED <<db, backup, op, client, owed, slipped, spent>>

\* verified_backup comes first, whatever the checks are going to say.
BackUp ==
  /\ op = Idle
  /\ spent.applies < MaxApplies
  /\ spent' = [spent EXCEPT !.applies = @ + 1]
  /\ backup' = [backup EXCEPT ![spent.applies + 1] = <<db>>]
  /\ op' = [Idle EXCEPT !.pc = "backed", !.attempt = spent.applies + 1]
  /\ UNCHANGED <<db, manifest, client, owed, slipped>>

\* _preflight
Passes ==
  /\ Historical(db) /\ db.migration = 0
  /\ ~ActiveJobs(db) /\ ~HealthyWorkers(db)
  /\ ValidManifest(manifest, db)
  /\ \A r \in Resources(db) : db.resource[r].version = "V1"

Preflight ==
  /\ op.pc = "backed"
  /\ Goto(IF Passes THEN "guarded" ELSE "failing")
  /\ UNCHANGED <<db, backup, manifest, client, owed, slipped, spent>>

\* operation_plan validates the manifest once more.
Plan ==
  /\ op.pc = "guarded"
  /\ Goto(IF ValidManifest(manifest, db) THEN "planned" ELSE "failing")
  /\ UNCHANGED <<db, backup, manifest, client, owed, slipped, spent>>

\* invariant_snapshot
Baselined ==
  /\ op.pc = "planned"
  /\ op' = [op EXCEPT !.pc = "based", !.before = Counts(db)]
  /\ UNCHANGED <<db, backup, manifest, client, owed, slipped, spent>>

\* _execute_core: one exclusive transaction.
Core ==
  /\ op.pc = "based"
  /\ LET done == Applied(manifest, db)
     IN IF done = Failed \/ ~Verified(manifest, op.before, db, done)
        THEN Goto("failing") /\ UNCHANGED db
        ELSE /\ Goto("rebuilding")
             /\ db' = [done EXCEPT !.migration = op.attempt, !.status = "rebuilding"]
  /\ UNCHANGED <<backup, manifest, client, owed, slipped, spent>>

\* _rebuild_derivatives: processes of their own project the affected scans again.
Rebuild ==
  /\ op.pc = "rebuilding"
  /\ \/ Goto("rebuilt") /\ db' = [db EXCEPT !.derived = Projected(db)]
     \/ Goto("failing") /\ UNCHANGED db
  /\ UNCHANGED <<backup, manifest, client, owed, slipped, spent>>

Finalized(d) ==
  [d EXCEPT !.active = "V2", !.required = FALSE, !.status = "completed", !.fingerprint = Domain(d)]

\* _finalize
Finalize ==
  /\ op.pc = "rebuilt"
  /\ db' = Finalized(db)
  /\ op' = Idle
  /\ UNCHANGED <<backup, manifest, client, owed, slipped, spent>>

\* Whatever failed, the backup replaces the database; what was written meanwhile is gone.
Restore ==
  /\ op.pc = "failing"
  /\ db' = backup[op.attempt][1]
  /\ op' = Idle
  /\ UNCHANGED <<backup, manifest, client, owed, slipped, spent>>

Crash ==
  /\ op # Idle
  /\ spent.crashes < MaxCrashes
  /\ spent' = [spent EXCEPT !.crashes = @ + 1]
  /\ op' = Idle
  /\ UNCHANGED <<db, backup, manifest, client, owed, slipped>>

-----------------------------------------------------------------------------
(* rollback_migration                                                      *)

\* Mutant of Reversible: only what was completed can be rolled back.
ReversibleCompleted == db.status = "completed"

Reversible == db.status \in {"rebuilding", "completed"}

\* Mutant of Unwritten: writes since the activation do not count.
UnwrittenNever == TRUE

Unwritten == db.status = "completed" => Domain(db) = db.fingerprint

RollbackCheck ==
  /\ op = Idle
  /\ db.migration # 0 /\ Reversible
  /\ ~ActiveJobs(db) /\ ~HealthyWorkers(db)
  /\ Unwritten
  /\ op' = [Idle EXCEPT !.pc = "restoring", !.attempt = db.migration]
  /\ UNCHANGED <<db, backup, manifest, client, owed, slipped, spent>>

RollbackRestore ==
  /\ op.pc = "restoring"
  /\ db' = backup[op.attempt][1]
  /\ op' = Idle
  /\ UNCHANGED <<backup, manifest, client, owed, slipped, spent>>

-----------------------------------------------------------------------------
Request == Admit \/ (\E raw \in NewUrls : AddUrl(raw)) \/ (\E p \in Pages : EditPage(p)) \/ Enqueue \/ Refused

Worker == WorkerStart \/ WorkerStop \/ Claim \/ Work

Apply == Preflight \/ Plan \/ Baselined \/ Core \/ Rebuild \/ Finalize \/ Restore

Rollback == RollbackCheck \/ RollbackRestore

Next == Request \/ Worker \/ Rebase \/ BackUp \/ Apply \/ Crash \/ Rollback

\* Under maintenance the tool goes on until it dies, a job ends, and operators stop the
\* worker and roll back.
Fairness ==
  /\ WF_vars(Maintenance(db) /\ (Preflight \/ Rebuild \/ Finalize \/ Restore))
  /\ WF_vars(RollbackRestore)
  /\ WF_vars(Maintenance(db) /\ RollbackCheck)
  /\ WF_vars(Maintenance(db) /\ WorkerStop)
  /\ WF_vars(Maintenance(db) /\ Work)

Spec == Init /\ [][Next]_vars /\ Fairness

-----------------------------------------------------------------------------
(* Properties.                                                             *)

\* The URL an origin or a row was attributed to.
Attribution(row) == db.resource[ResourceOf(db, row)].url

\* Once the migration is active, no two resources are the same; every row of a current
\* resource belongs to the one its own spelling names, and repeats its URL if it repeats one;
\* and the projections list what the rows refer to.  A tool that let identities in between
\* its validation and its transaction is not held to this.
IdentityAgrees ==
  db.status = "completed" /\ ~slipped =>
    /\ Current(db)
    /\ Unique(db)
    /\ db.derived = Projected(db)
    /\ \A row \in Evidence(db) :
         LET url == V2[db.row[row].raw] IN
         url # NoUrl /\ db.resource[ResourceOf(db, row)].version = "V2" =>
           /\ Attribution(row) = url
           /\ db.row[row].kind \in {"listed", "seed"} => db.row[row].url = url

\* A row accepted while neither a migration nor a rollback was under way is there for good:
\* no backup from before it is ever put back over it.
WritesKept == owed \subseteq Evidence(db)

\* A database left in the middle of a migration comes back into service, unless a job that
\* nobody will claim any more stands in the way.
MaintenanceEnds == Maintenance(db) ~> (~Maintenance(db) \/ db.job = "queued")
=============================================================================
