-------------------------- MODULE ScanPipelineProofs --------------------------
(***************************************************************************)
(* What readers are shown is whole, for any scans, comparisons, evidence   *)
(* and links, and any number of workers, requests and builds.              *)
(*                                                                         *)
(* A build is calm as long as no command and job share it, nothing that    *)
(* had read it as waiting has written over it and nobody has given it up   *)
(* after its activation.  Whoever is past the start of a calm build has it *)
(* for itself: a worker has the job, and a command excludes a job.  So its *)
(* rows and results are those of the step that the execution is at; and    *)
(* what a comparison reads of its projections is there, because a calm     *)
(* projection that was ready once has all its rows, replaced or not.       *)
(***************************************************************************)
EXTENDS ScanPipeline, FiniteSetTheorems, TLAPS

-----------------------------------------------------------------------------
(***************************************************************************)
(* The inductive invariant.                                                *)
(***************************************************************************)

Statuses == {"none", "queued", "waiting", "building", "ready", "superseded", "failed", "cancelled"}

\* Steps of an execution that has the build for itself, and all of them.
Filling == {"clear", "pages", "edges", "summary", "activate"}
AtWork == Filling \cup {"failing", "marking"}
Executing == AtWork \cup {"start", "pin", "published", "failed"}

Pcs == Executing \cup {"idle", "insert", "enqueue", "returned", "settle", "followup"}

PinRows == {<<>>} \cup Builds \X Builds

ProcRows ==
  [pc: Pcs, job: Scans \cup Builds \cup {None}, owner: Owners \cup {None}, build: Builds \cup {None},
   status: Statuses, outcome: {"none", "failed", "cancelled"}, pins: PinRows,
   wake: SUBSET Builds]

RestTyped ==
  /\ scan \in [Scans -> [status: {"running", "completed", "unsuccessful"},
                         job: {"running", "ended", "interrupted"}]]
  /\ current \in [Owners -> Builds \cup {None}]
  /\ \A o \in Owners : current[o] # None => current[o][1] = o
  /\ known \subseteq Comparisons /\ missed \subseteq Comparisons
  /\ requests \in 0..MaxRequests /\ faults \in 0..MaxFaults

Typed == RestTyped /\ build \in [Builds -> BuildRows] /\ proc \in [Processes -> ProcRows]

\* The projections that a comparison was given are its scans'.
PinsFit(c, pins) == pins \in Builds \X Builds /\ pins[1][1] = c[1] /\ pins[2][1] = c[2]

RowOK(b) ==
  /\ build[b].status = "none" => build[b] = Unbuilt
  /\ build[b].pins # <<>> => ~IsProjection(b) /\ PinsFit(b[1], build[b].pins)
  /\ build[b].overwritten => ~IsProjection(b) /\ build[b].job # "none"
  /\ build[b].withdrawn => ~build[b].active /\ (build[b].commanded \/ build[b].job # "none")

OneActive == \A b, d \in Builds : b[1] = d[1] /\ build[b].active /\ build[d].active => b = d

\* What a process says of the builds it is at.
Shape(x) ==
  LET r == proc[x] IN
  /\ r.job \in Builds => x \in Workers /\ build[r.job].job = "running"
  /\ x \notin Workers => r.job = None
  /\ r.pc = "insert" => r.owner \in Owners /\ r.status \in {"queued", "waiting"}
  /\ r.pc = "enqueue" => r.build \in Builds /\ r.owner = r.build[1] /\ build[r.build].status # "none"
  /\ r.pc \in Executing =>
       /\ r.build \in Builds /\ build[r.build].status # "none"
       /\ x \notin Clients /\ (x \in Workers => r.job = r.build)
       /\ r.pc = "pin" \/ (r.pc \in Filling /\ ~IsProjection(r.build)) =>
            ~IsProjection(r.build) /\ PinsFit(r.build[1], r.pins)
       /\ r.pc = "summary" => ~IsProjection(r.build)
       /\ r.pc = "marking" => IsProjection(r.build)
       /\ r.pc \in {"failing", "marking"} => r.outcome # "none"
       /\ r.pc = "published" => ~build[r.build].active
  /\ r.pc \in {"returned", "settle"} => r.job \in Builds
  /\ r.pc = "settle" =>
       IsProjection(r.job) /\ \A b \in r.wake : ~IsProjection(b) /\ build[b].status # "none"
  /\ r.pc = "followup" => r.job \in Scans

OneHolder == \A x, y \in Processes : proc[x].job \in Builds /\ proc[x].job = proc[y].job => x = y

Structure ==
  /\ Typed /\ OneActive /\ OneHolder
  /\ \A b \in Builds : RowOK(b)
  /\ \A x \in Processes : Shape(x)

-----------------------------------------------------------------------------
(* What a calm build is.                                                   *)

\* A command and a job share it, or it was given up after it had been activated.
Lost(b) == Shared(b) \/ build[b].withdrawn

Calm(b) == ~Lost(b) /\ ~build[b].overwritten

Settled == {"ready", "superseded"}

\* The projections are there, but for what was lost.
PinsThere(pins) == \A i \in 1..2 : Lost(pins[i]) \/ build[pins[i]].status \in Settled

PinsSound(pins) == \A i \in 1..2 : ~Lost(pins[i])

\* What a comparison has to store, as the steps of an execution come to it.
SeenEdge(s, e) == IF Evidence[s][e[1]] # Unseen THEN Links[s][e] ELSE Unseen

PagesOf(c) == [p \in Pages |-> PageRow(Evidence[c[1]][p], Evidence[c[2]][p])]

EdgeRowsOf(c) == [e \in Pages \X Pages |-> FieldRow(SeenEdge(c[1], e), SeenEdge(c[2], e))]

TopologyOf(c) == [p \in Pages |-> IF PagesOf(c)[p] = NoRow THEN NoTopology ELSE Topology(EdgeRowsOf(c), p)]

CountsOf(c) == <<ResultCounts(PagesOf(c)), ResultCounts(EdgeRowsOf(c))>>

PagesDone(b) == build[b].result.pages = PagesOf(b[1])
EdgesDone(b) == build[b].result.edges = EdgeRowsOf(b[1]) /\ build[b].result.topology = TopologyOf(b[1])
CountsDone(b) == build[b].result.counts = CountsOf(b[1])

AllDone(b) == PagesDone(b) /\ EdgesDone(b) /\ CountsDone(b)

\* A calm build between executions.
CalmOK(b) ==
  LET row == build[b] IN
  Calm(b) =>
    /\ row.active => row.status \in ActiveStatuses
    /\ row.status = "ready" <=> current[b[1]] = b
    /\ row.status \in Settled => row.rows = AllParts /\ ~row.active
    /\ row.status \in {"failed", "cancelled"} /\ IsProjection(b) => row.rows = {}
    /\ ~row.commanded /\ row.job = "none" => row.status \in {"none", "queued", "waiting"}
    /\ ~row.commanded /\ row.job = "queued" => row.status = "queued"
    /\ row.pins # <<>> => PinsThere(row.pins)
    /\ row.status \in Settled /\ ~IsProjection(b) =>
         row.pins # <<>> /\ (PinsSound(row.pins) => AllDone(b))

\* The rows that are there at each step.
RowsAt(pc, b, rows) ==
  /\ pc = "pages" => rows = {}
  /\ pc = "edges" => rows = {"pages"}
  /\ pc = "summary" => rows = {"pages", "edges"}
  /\ pc = "activate" => rows = IF IsProjection(b) THEN {"pages", "edges"} ELSE AllParts
  /\ pc = "marking" => rows = {}

DoneAt(pc, b) ==
  /\ pc \in {"edges", "summary", "activate"} => PagesDone(b)
  /\ pc \in {"summary", "activate"} => EdgesDone(b)
  /\ pc = "activate" => CountsDone(b)

\* A process at a calm build: a worker has its job; a command, no job, from the start on.
ExecOK(x) ==
  LET r == proc[x]  b == r.build  row == build[b] IN
  /\ r.pc = "enqueue" /\ r.status = "queued" /\ ~row.commanded /\ row.job = "none" => row.status = "queued"
  /\ r.pc = "enqueue" /\ x = Cli /\ r.status # "ready" /\ row.job = "none" =>
       row.status \in ActiveStatuses /\ ~row.withdrawn
  /\ r.pc \in {"start", "pin"} /\ x = Cli /\ row.job = "none" => row.status \in ActiveStatuses /\ ~row.withdrawn
  /\ r.pc \in {"start", "pin"} /\ x # Cli /\ Calm(b) => row.status = "queued"
  /\ r.pc = "pin" => PinsThere(r.pins)
  /\ r.pc \in AtWork \cup {"published"} /\ x = Cli => row.commanded
  /\ r.pc \in AtWork /\ Calm(b) =>
       /\ row.status = "building" /\ RowsAt(r.pc, b, row.rows)
       /\ r.pc \in Filling /\ ~IsProjection(b) =>
            /\ row.pins = r.pins
            /\ PinsSound(row.pins) => DoneAt(r.pc, b)

IInv ==
  /\ Structure
  /\ \A b \in Builds : CalmOK(b)
  /\ \A x \in Processes : ExecOK(x)

-----------------------------------------------------------------------------
(***************************************************************************)
(* Builds, processes and their types.                                      *)
(***************************************************************************)

LEMMA Names ==
  ASSUME NEW b \in Builds
  PROVE  /\ b[1] \in Owners /\ b[2] \in 1..MaxBuilds /\ b = <<b[1], b[2]>>
         /\ b # None /\ b \notin Scans
         /\ IsProjection(b) <=> b[1] \notin Comparisons
  BY PipelineAssumption DEF Builds, Owners, IsProjection

LEMMA Pair ==
  ASSUME NEW c \in Comparisons
  PROVE  c[1] \in Scans /\ c[2] \in Scans /\ c \in Owners /\ c \notin Scans /\ c # None /\ c = <<c[1], c[2]>>
  BY PipelineAssumption DEF Owners

LEMMA Actors ==
  ASSUME NEW x \in Processes
  PROVE  /\ x \in Workers \/ x \in Clients \/ x = Cli
         /\ ~(x \in Workers /\ x \in Clients) /\ ~(x \in Workers /\ x = Cli) /\ ~(x \in Clients /\ x = Cli)
  BY PipelineAssumption DEF Processes

LEMMA ProcFields ==
  ASSUME Typed, NEW x \in Processes
  PROVE  /\ proc[x] \in ProcRows
         /\ proc[x].pc \in Pcs /\ proc[x].job \in Scans \cup Builds \cup {None}
         /\ proc[x].owner \in Owners \cup {None} /\ proc[x].build \in Builds \cup {None}
         /\ proc[x].status \in Statuses /\ proc[x].outcome \in {"none", "failed", "cancelled"}
         /\ proc[x].pins \in PinRows /\ proc[x].wake \subseteq Builds
  <1>1. proc[x] \in ProcRows
    BY DEF Typed
  <1>2. QED
    BY <1>1 DEF ProcRows

Jobs == {"none", "queued", "running", "ended"}

LEMMA BuildFields ==
  ASSUME NEW r \in BuildRows
  PROVE  /\ r.status \in Statuses /\ r.active \in BOOLEAN /\ r.rows \in SUBSET AllParts
         /\ r.commanded \in BOOLEAN /\ r.overwritten \in BOOLEAN /\ r.withdrawn \in BOOLEAN /\ r.result \in Results
         /\ r.pins \in PinRows /\ r.job \in Jobs /\ r.flagged \in BOOLEAN
  BY DEF BuildRows, Statuses, PinRows, Jobs

LEMMA UnbuiltTyped == Unbuilt \in BuildRows
  <1>1. NoRow \in Rows
    BY DEF Rows
  <1>2. NoTopology \in [EdgeLabels -> [out: Nat, in: Nat]]
    BY DEF NoTopology
  <1>3. <<>> \in Seq([Presences -> Nat])
    OBVIOUS
  <1>4. NoResult \in Results
    BY <1>1, <1>2, <1>3 DEF NoResult, Results
  <1>5. QED
    BY <1>4 DEF Unbuilt, BuildRows, AllParts

LEMMA IdleTyped == Idle \in ProcRows /\ Idle.pc = "idle" /\ Idle.job = None
  BY DEF Idle, ProcRows, Pcs, Statuses, PinRows

LEMMA FreshOne ==
  ASSUME Typed, NEW o, NEW b \in Fresh(o), NEW d \in Fresh(o)
  PROVE  b = d /\ b \in Builds /\ b[1] = o /\ build[b].status = "none"
  <1>1. /\ b \in Builds /\ b[1] = o /\ build[b].status = "none"
        /\ \A n \in 1..(b[2] - 1) : build[<<o, n>>].status # "none"
    BY DEF Fresh
  <1>2. /\ d \in Builds /\ d[1] = o /\ build[d].status = "none"
        /\ \A n \in 1..(d[2] - 1) : build[<<o, n>>].status # "none"
    BY DEF Fresh
  <1>3. /\ b = <<o, b[2]>> /\ d = <<o, d[2]>> /\ b[2] \in Nat /\ d[2] \in Nat /\ b[2] >= 1 /\ d[2] >= 1
    BY <1>1, <1>2, Names, PipelineAssumption
  <1>4. ~ b[2] < d[2]
    <2>1. SUFFICES ASSUME b[2] < d[2] PROVE FALSE
      OBVIOUS
    <2>2. b[2] \in 1..(d[2] - 1)
      BY <2>1, <1>3
    <2>3. build[<<o, b[2]>>].status # "none"
      BY <2>2, <1>2
    <2>4. QED
      BY <2>3, <1>1, <1>3
  <1>5. ~ d[2] < b[2]
    <2>1. SUFFICES ASSUME d[2] < b[2] PROVE FALSE
      OBVIOUS
    <2>2. d[2] \in 1..(b[2] - 1)
      BY <2>1, <1>3
    <2>3. build[<<o, d[2]>>].status # "none"
      BY <2>2, <1>1
    <2>4. QED
      BY <2>3, <1>2, <1>3
  <1>6. b[2] = d[2]
    BY <1>3, <1>4, <1>5
  <1>7. QED
    BY <1>1, <1>3, <1>6

-----------------------------------------------------------------------------
(***************************************************************************)
(* What every step leaves as it was: a lost build stays lost, one that     *)
(* was written over stays so, and a projection that was ready once stays   *)
(* ready or superseded unless it gets lost.                                *)
(***************************************************************************)

Onward ==
  \A b \in Builds :
    /\ Lost(b) => Lost(b)'
    /\ (build[b].overwritten => build'[b].overwritten) /\ (build[b].withdrawn => build'[b].withdrawn)
    /\ IsProjection(b) /\ build[b].status \in Settled => Lost(b)' \/ build'[b].status \in Settled

LEMMA CalmBack ==
  ASSUME Onward, NEW b \in Builds, Calm(b)'
  PROVE  /\ Calm(b) /\ ~Lost(b) /\ ~build[b].overwritten /\ ~Lost(b)' /\ ~build'[b].overwritten
         /\ ~build[b].withdrawn /\ ~build'[b].withdrawn
  BY DEF Onward, Calm, Lost

LEMMA PinsOnward ==
  ASSUME Onward, NEW c \in Comparisons, NEW pins, PinsFit(c, pins)
  PROVE  /\ PinsThere(pins) => PinsThere(pins)'
         /\ PinsSound(pins)' => PinsSound(pins)
  <1>1. pins[1] \in Builds /\ pins[2] \in Builds
    BY DEF PinsFit
  <1>2. IsProjection(pins[1]) /\ IsProjection(pins[2])
    BY Pair DEF PinsFit, IsProjection
  <1>3. \A i \in 1..2 : pins[i] \in Builds /\ IsProjection(pins[i])
    <2>1. \A i \in 1..2 : i = 1 \/ i = 2
      OBVIOUS
    <2>2. QED
      BY <1>1, <1>2, <2>1
  <1>4. ASSUME PinsThere(pins) PROVE PinsThere(pins)'
    <2>1. ASSUME NEW i \in 1..2 PROVE Lost(pins[i])' \/ build'[pins[i]].status \in Settled
      <3>1. Lost(pins[i]) \/ build[pins[i]].status \in Settled
        BY <1>4 DEF PinsThere
      <3>2. QED
        BY <3>1, <1>3 DEF Onward
    <2>2. QED
      BY <2>1 DEF PinsThere
  <1>5. ASSUME PinsSound(pins)' PROVE PinsSound(pins)
    <2>1. ASSUME NEW i \in 1..2 PROVE ~Lost(pins[i])
      BY <1>3, <1>5 DEF Onward, PinsSound
    <2>2. QED
      BY <2>1 DEF PinsSound
  <1>6. QED
    BY <1>4, <1>5

\* The pins of a build that has some.
LEMMA PinsOf ==
  ASSUME NEW b \in Builds, RowOK(b), build[b].pins # <<>>
  PROVE  b[1] \in Comparisons /\ ~IsProjection(b) /\ PinsFit(b[1], build[b].pins)
  BY Names DEF RowOK

-----------------------------------------------------------------------------
(***************************************************************************)
(* Builds and processes that a step leaves as they were.                   *)
(***************************************************************************)

LEMMA CalmKept ==
  ASSUME Onward, NEW b \in Builds, RowOK(b), CalmOK(b),
         build'[b].status = build[b].status, build'[b].active = build[b].active,
         build'[b].rows = build[b].rows, build'[b].pins = build[b].pins,
         build'[b].result = build[b].result, build'[b].commanded = build[b].commanded,
         build'[b].job = "none" => build[b].job = "none",
         Calm(b) /\ ~build[b].commanded /\ build'[b].job = "queued" => build[b].status = "queued",
         current'[b[1]] = b <=> current[b[1]] = b
  PROVE  CalmOK(b)'
  <1>1. SUFFICES ASSUME Calm(b)' PROVE CalmOK(b)'
    BY DEF CalmOK
  <1>2. Calm(b)
    BY <1>1, CalmBack
  <1>3. build[b].pins # <<>> => /\ PinsThere(build[b].pins)'
                                /\ PinsSound(build[b].pins)' => PinsSound(build[b].pins)
    BY <1>2, PinsOf, PinsOnward DEF CalmOK
  <1>4. AllDone(b) => AllDone(b)'
    BY DEF AllDone, PagesDone, EdgesDone, CountsDone
  <1>5. /\ build'[b].active => build'[b].status \in ActiveStatuses
        /\ build'[b].status = "ready" <=> current'[b[1]] = b
        /\ build'[b].status \in Settled => build'[b].rows = AllParts /\ ~build'[b].active
        /\ build'[b].status \in {"failed", "cancelled"} /\ IsProjection(b) => build'[b].rows = {}
    BY <1>2 DEF CalmOK
  <1>6. /\ ~build'[b].commanded /\ build'[b].job = "none" => build'[b].status \in {"none", "queued", "waiting"}
        /\ ~build'[b].commanded /\ build'[b].job = "queued" => build'[b].status = "queued"
    BY <1>2 DEF CalmOK
  <1>7. build'[b].pins # <<>> => PinsThere(build[b].pins)'
    BY <1>3
  <1>8. build'[b].status \in Settled /\ ~IsProjection(b) =>
          build'[b].pins # <<>> /\ (PinsSound(build[b].pins)' => AllDone(b)')
    BY <1>2, <1>3, <1>4 DEF CalmOK
  <1>9. QED
    BY <1>5, <1>6, <1>7, <1>8 DEF CalmOK

LEMMA ExecKept ==
  ASSUME Onward, Structure, NEW y \in Processes, proc'[y] = proc[y], ExecOK(y), NEW b \in Builds, proc[y].build = b,
         build'[b].job = "none" => \/ build'[b] = build[b] \/ (y # Cli /\ build'[b].commanded)
                                  \/ /\ build[b].status = "ready" \/ (build[b].withdrawn /\ build[b].commanded)
                                     /\ build[b].job = "none" /\ build'[b].commanded = build[b].commanded,
         build[b].commanded => build'[b].commanded,
         y # Cli /\ proc[y].pc \in {"start", "pin"} /\ Calm(b)' =>
           build'[b].status = "queued" \/ (Calm(b) /\ build'[b].status = build[b].status),
         proc[y].pc \in AtWork /\ Calm(b)' => /\ build'[b].status = build[b].status /\ build'[b].rows = build[b].rows
                                              /\ build'[b].pins = build[b].pins /\ build'[b].result = build[b].result
  PROVE  ExecOK(y)'
  <1> DEFINE pc == proc[y].pc
  <1>1. /\ pc = "enqueue" /\ proc[y].status = "queued" /\ ~build'[b].commanded /\ build'[b].job = "none" =>
             build'[b].status = "queued"
        /\ pc = "enqueue" /\ y = Cli /\ proc[y].status # "ready" /\ build'[b].job = "none" =>
             build'[b].status \in ActiveStatuses /\ ~build'[b].withdrawn
        /\ pc \in {"start", "pin"} /\ y = Cli /\ build'[b].job = "none" =>
             build'[b].status \in ActiveStatuses /\ ~build'[b].withdrawn
    BY DEF ExecOK, ActiveStatuses
  <1>2. pc \in {"start", "pin"} /\ y # Cli /\ Calm(b)' => build'[b].status = "queued"
    BY DEF ExecOK
  <1>3. ASSUME pc \in Executing, pc = "pin" \/ (pc \in Filling /\ ~IsProjection(b))
        PROVE  b[1] \in Comparisons /\ PinsFit(b[1], proc[y].pins)
    BY <1>3, Names DEF Structure, Shape
  <1>4. pc = "pin" => PinsThere(proc[y].pins)'
    <2>1. SUFFICES ASSUME pc = "pin" PROVE PinsThere(proc[y].pins)'
      OBVIOUS
    <2>2. PinsThere(proc[y].pins)
      BY <2>1 DEF ExecOK
    <2>3. b[1] \in Comparisons /\ PinsFit(b[1], proc[y].pins)
      BY <1>3, <2>1 DEF Executing
    <2>4. ASSUME NEW pins, pins = proc[y].pins PROVE PinsThere(pins)'
      BY <2>2, <2>3, <2>4, PinsOnward
    <2>5. ASSUME NEW pins, pins = proc[y].pins
          PROVE  \A i \in 1..2 : Lost(proc[y].pins[i])' \/ build'[proc[y].pins[i]].status \in Settled
      BY <2>4, <2>5 DEF PinsThere, Lost, Shared
    <2>6. QED
      BY <2>5 DEF PinsThere
  <1>5. pc \in AtWork \cup {"published"} /\ y = Cli => build'[b].commanded
    BY DEF ExecOK
  <1>6. ASSUME pc \in AtWork, Calm(b)'
        PROVE  /\ build'[b].status = "building" /\ RowsAt(pc, b, build'[b].rows)
               /\ pc \in Filling /\ ~IsProjection(b) =>
                    /\ build'[b].pins = proc[y].pins
                    /\ PinsSound(build[b].pins)' => DoneAt(pc, b)'
    <2>1. Calm(b)
      BY <1>6, CalmBack
    <2>2. /\ build[b].status = "building" /\ RowsAt(pc, b, build[b].rows)
          /\ pc \in Filling /\ ~IsProjection(b) => /\ build[b].pins = proc[y].pins
                                                   /\ PinsSound(build[b].pins) => DoneAt(pc, b)
      BY <2>1, <1>6 DEF ExecOK
    <2>3. ASSUME pc \in Filling, ~IsProjection(b), PinsSound(build[b].pins)'
          PROVE  DoneAt(pc, b)'
      <3>1. b[1] \in Comparisons /\ PinsFit(b[1], proc[y].pins)
        BY <1>3, <2>3 DEF Executing, AtWork
      <3>2. PinsSound(build[b].pins)
        BY <2>2, <2>3, <3>1, <1>6, PinsOnward
      <3>3. DoneAt(pc, b)
        BY <2>2, <2>3, <3>2
      <3>4. QED
        BY <3>3, <1>6 DEF DoneAt, PagesDone, EdgesDone, CountsDone
    <2>4. QED
      BY <2>2, <2>3, <1>6
  <1>7. QED
    BY <1>1, <1>2, <1>4, <1>5, <1>6 DEF ExecOK

LEMMA ShapeKept ==
  ASSUME Structure, NEW y \in Processes, proc'[y] = proc[y],
         proc[y].job \in Builds => build'[proc[y].job].job = "running",
         \A b \in Builds : build[b].status # "none" => /\ build'[b].status # "none"
                                                       /\ build'[b].active => build[b].active
  PROVE  Shape(y)'
  <1>1. Shape(y) /\ proc[y].wake \subseteq Builds
    BY ProcFields DEF Structure
  <1>2. QED
    BY <1>1 DEF Shape, PinsFit, IsProjection

\* A process that is at no build yet, and not at an enqueue, is at nothing.
LEMMA IdleOK ==
  ASSUME NEW x, proc'[x].pc \notin {"enqueue"} \cup Executing
  PROVE  ExecOK(x)'
  BY DEF ExecOK, AtWork, Executing, Filling

\* Whoever is at a build has one.
LEMMA AtBuild ==
  ASSUME Structure, NEW x \in Processes, proc[x].pc \in {"enqueue"} \cup Executing
  PROVE  proc[x].build \in Builds /\ build[proc[x].build].status # "none"
  BY DEF Structure, Shape

-----------------------------------------------------------------------------
(***************************************************************************)
(* What requests, follow-ups, recovery and the queue do to a build that    *)
(* others may be at: every one of their steps moves each build in one of   *)
(* these ways, x being the process that takes the step.                    *)
(***************************************************************************)

Unheld(x, b) == \A y \in Processes \ {x} : proc[y].job # b

Enqueuing(b) ==
  /\ build[b].job = "none" /\ build[b].status # "none"
  /\ ~build[b].commanded => build[b].status = "queued"
  /\ build'[b] = [build[b] EXCEPT !.job = "queued"]

Beginning(b) ==
  /\ b \in Fresh(b[1]) /\ ActiveBuilds(b[1]) = {}
  /\ \E status \in {"queued", "waiting"}, job \in {"none", "queued"} :
       /\ job = "queued" => status = "queued"
       /\ build'[b] = [Unbuilt EXCEPT !.status = status, !.active = TRUE, !.job = job]

Claiming(b) == build[b].job = "queued" /\ build'[b] = [build[b] EXCEPT !.job = "running"]

Flagging(b) == build[b].job # "none" /\ build'[b] = [build[b] EXCEPT !.flagged = TRUE]

Ending(x, b) ==
  build[b].job \in {"queued", "running"} /\ Unheld(x, b) /\ build'[b] = [build[b] EXCEPT !.job = "ended"]

Giving(x, b) ==
  /\ build[b].job \in {"queued", "running"} /\ Unheld(x, b) /\ build[b].status \in ActiveStatuses
  /\ \E status \in {"failed", "cancelled"} :
       build'[b] = [build[b] EXCEPT !.status = status, !.active = FALSE, !.job = "ended", !.rows = KeptRows(b)]

Waking(b) ==
  /\ ~IsProjection(b) /\ build[b].status # "none"
  /\ build'[b] = [build[b] EXCEPT !.status = "queued", !.overwritten = @ \/ build[b].status # "waiting",
                                  !.job = IF @ = "none" THEN "queued" ELSE @]

Withdrawing(x, b) ==
  /\ build[b].status # "none" /\ ~build[b].active /\ (build[b].job = "none" => x = Cli /\ build[b].commanded)
  /\ build'[b] = [build[b] EXCEPT !.withdrawn = TRUE]

Move(x, b) ==
  \/ build'[b] = build[b] \/ Enqueuing(b) \/ Beginning(b) \/ Claiming(b) \/ Flagging(b)
  \/ Ending(x, b) \/ Giving(x, b) \/ Waking(b) \/ Withdrawing(x, b)

\* Fields that no move touches once a build is there, and those that only grow.
LEMMA MoveTyped ==
  ASSUME Structure, NEW x, NEW b \in Builds, Move(x, b)
  PROVE  build'[b] \in BuildRows
  <1>1. build[b] \in BuildRows
    BY DEF Structure, Typed
  <1>2. /\ build[b].status \in Statuses /\ build[b].active \in BOOLEAN /\ build[b].rows \in SUBSET AllParts
        /\ build[b].commanded \in BOOLEAN /\ build[b].overwritten \in BOOLEAN /\ build[b].job \in Jobs
    BY <1>1, BuildFields
  <1>3. CASE build'[b] = build[b]
    BY <1>1, <1>3
  <1>4. CASE Enqueuing(b)
    BY <1>1, <1>4 DEF Enqueuing, BuildRows
  <1>5. CASE Beginning(b)
    BY UnbuiltTyped, <1>5 DEF Beginning, BuildRows
  <1>6. CASE Claiming(b)
    BY <1>1, <1>6 DEF Claiming, BuildRows
  <1>7. CASE Flagging(b)
    BY <1>1, <1>7 DEF Flagging, BuildRows
  <1>8. CASE Ending(x, b)
    BY <1>1, <1>8 DEF Ending, BuildRows
  <1>9. CASE Giving(x, b)
    <2>1. KeptRows(b) \in SUBSET AllParts
      BY <1>2 DEF KeptRows
    <2>2. QED
      BY <1>1, <1>9, <2>1 DEF Giving, BuildRows
  <1>10. CASE Waking(b)
    BY <1>1, <1>2, <1>10 DEF Waking, BuildRows
  <1>11. CASE Withdrawing(x, b)
    BY <1>1, <1>11 DEF Withdrawing, BuildRows
  <1>12. QED
    BY <1>3, <1>4, <1>5, <1>6, <1>7, <1>8, <1>9, <1>10, <1>11 DEF Move

LEMMA UnbuiltFields ==
  /\ Unbuilt.status = "none" /\ Unbuilt.active = FALSE /\ Unbuilt.commanded = FALSE /\ Unbuilt.rows = {}
  /\ Unbuilt.overwritten = FALSE /\ Unbuilt.withdrawn = FALSE /\ Unbuilt.job = "none" /\ Unbuilt.pins = <<>>
  BY DEF Unbuilt

LEMMA MoveFacts ==
  ASSUME Structure, NEW x, NEW b \in Builds, Move(x, b)
  PROVE  /\ build'[b].pins = build[b].pins /\ build'[b].result = build[b].result
         /\ build'[b].commanded = build[b].commanded
         /\ (build[b].overwritten => build'[b].overwritten) /\ (build[b].withdrawn => build'[b].withdrawn)
         /\ build'[b].overwritten => build[b].overwritten \/ (~IsProjection(b) /\ build'[b].job # "none")
         /\ build[b].job # "none" => build'[b].job # "none"
         /\ build[b].status # "none" => build'[b].status # "none"
         /\ build'[b].status = "none" => build'[b] = build[b]
         /\ build'[b].active => build[b].active \/ (b \in Fresh(b[1]) /\ ActiveBuilds(b[1]) = {})
         /\ build[b].status \in Settled /\ IsProjection(b) => build'[b].status = build[b].status
         /\ build'[b].job = "none" /\ build[b].status # "none" =>
              build'[b] = build[b] \/ (x = Cli /\ build'[b].commanded)
         /\ build'[b].withdrawn => \/ build[b].withdrawn
                                   \/ /\ build[b].status # "none" /\ ~build[b].active
                                      /\ build'[b].commanded \/ build'[b].job # "none"
  <1>1. build[b] \in BuildRows /\ build'[b] \in BuildRows
    BY MoveTyped DEF Structure, Typed
  <1>2. RowOK(b)
    BY DEF Structure
  <1>3. CASE build'[b] = build[b]
    BY <1>3
  <1>4. CASE Enqueuing(b)
    BY <1>1, <1>4 DEF Enqueuing, BuildRows
  <1>5. CASE Beginning(b)
    <2>1. build[b] = Unbuilt
      BY <1>2, <1>5, FreshOne DEF Beginning, RowOK, Structure
    <2>2. PICK status \in {"queued", "waiting"}, job \in {"none", "queued"} :
             build'[b] = [Unbuilt EXCEPT !.status = status, !.active = TRUE, !.job = job]
      BY <1>5 DEF Beginning
    <2>3. /\ build'[b].status = status /\ build'[b].job = job /\ build'[b].pins = Unbuilt.pins
          /\ build'[b].result = Unbuilt.result /\ build'[b].commanded = Unbuilt.commanded
          /\ build'[b].overwritten = Unbuilt.overwritten /\ build'[b].withdrawn = Unbuilt.withdrawn
      BY <2>2, UnbuiltTyped DEF BuildRows
    <2>4. QED
      BY <2>1, <2>3, UnbuiltFields, <1>5 DEF Beginning, Settled
  <1>6. CASE Claiming(b)
    BY <1>1, <1>2, <1>6, UnbuiltFields DEF Claiming, BuildRows, RowOK
  <1>7. CASE Flagging(b)
    BY <1>1, <1>2, <1>7, UnbuiltFields DEF Flagging, BuildRows, RowOK
  <1>8. CASE Ending(x, b)
    BY <1>1, <1>2, <1>8, UnbuiltFields DEF Ending, BuildRows, RowOK
  <1>9. CASE Giving(x, b)
    BY <1>1, <1>9 DEF Giving, BuildRows, ActiveStatuses, Settled
  <1>10. CASE Waking(b)
    BY <1>1, <1>10 DEF Waking, BuildRows
  <1>11. CASE Withdrawing(x, b)
    BY <1>1, <1>11 DEF Withdrawing, BuildRows
  <1>12. QED
    BY <1>3, <1>4, <1>5, <1>6, <1>7, <1>8, <1>9, <1>10, <1>11 DEF Move

LEMMA MoveOnward ==
  ASSUME Structure, NEW x, \A b \in Builds : Move(x, b)
  PROVE  Onward
  <1>1. SUFFICES ASSUME NEW b \in Builds
                 PROVE  /\ Lost(b) => Lost(b)'
                        /\ (build[b].overwritten => build'[b].overwritten) /\ (build[b].withdrawn => build'[b].withdrawn)
                        /\ IsProjection(b) /\ build[b].status \in Settled => build'[b].status \in Settled
    BY DEF Onward
  <1>2. Move(x, b)
    OBVIOUS
  <1>3. QED
    BY <1>2, MoveFacts DEF Lost, Shared

\* A build that somebody else has a job for, or is at without one.
LEMMA MoveHeld ==
  ASSUME Structure, NEW x, NEW b \in Builds, Move(x, b),
         NEW y \in Processes, y # x, proc[y].job = b
  PROVE  /\ build[b].job = "running" /\ build'[b].job = "running"
         /\ \/ /\ build'[b].status = build[b].status /\ build'[b].rows = build[b].rows
            \/ /\ build'[b].status = "queued"
               /\ build'[b].overwritten \/ build[b].status = "waiting"
  <1>1. build[b] \in BuildRows /\ build'[b] \in BuildRows
    BY MoveTyped DEF Structure, Typed
  <1>2. RowOK(b) /\ build[b].job = "running"
    BY DEF Structure, Shape
  <1>3. CASE build'[b] = build[b]
    BY <1>2, <1>3
  <1>4. ~Enqueuing(b) /\ ~Claiming(b)
    BY <1>2 DEF Enqueuing, Claiming
  <1>5. ~Beginning(b)
    BY <1>2, FreshOne, UnbuiltFields DEF Beginning, RowOK, Structure
  <1>6. ~Ending(x, b) /\ ~Giving(x, b)
    BY DEF Ending, Giving, Unheld
  <1>7. CASE Flagging(b)
    BY <1>1, <1>2, <1>7 DEF Flagging, BuildRows
  <1>8. CASE Waking(b)
    BY <1>1, <1>2, <1>8 DEF Waking, BuildRows
  <1>9. CASE Withdrawing(x, b)
    BY <1>1, <1>2, <1>9 DEF Withdrawing, BuildRows
  <1>10. QED
    BY <1>3, <1>4, <1>5, <1>6, <1>7, <1>8, <1>9 DEF Move

LEMMA MoveCalm ==
  ASSUME Structure, Onward, NEW x, NEW b \in Builds, Move(x, b), CalmOK(b), current' = current
  PROVE  CalmOK(b)'
  <1>1. build[b] \in BuildRows /\ build'[b] \in BuildRows
    BY MoveTyped DEF Structure, Typed
  <1>2. RowOK(b)
    BY DEF Structure
  <1>3. CASE build'[b] = build[b]
    <2>1. Calm(b) /\ ~build[b].commanded /\ build'[b].job = "queued" => build[b].status = "queued"
      BY <1>3 DEF CalmOK
    <2>2. QED
      BY <2>1, <1>2, <1>3, CalmKept
  <1>4. CASE Enqueuing(b)
    <2>1. build'[b] = [build[b] EXCEPT !.job = "queued"]
      BY <1>4 DEF Enqueuing
    <2>2. /\ build'[b].status = build[b].status /\ build'[b].active = build[b].active
          /\ build'[b].rows = build[b].rows /\ build'[b].pins = build[b].pins
          /\ build'[b].result = build[b].result /\ build'[b].commanded = build[b].commanded
          /\ build'[b].job = "queued"
      BY <2>1, <1>1 DEF BuildRows
    <2>3. ~build[b].commanded => build[b].status = "queued"
      BY <1>4 DEF Enqueuing
    <2>4. QED
      BY <2>2, <2>3, <1>2, CalmKept
  <1>5. CASE Beginning(b)
    <2>1. build[b] = Unbuilt
      BY <1>2, <1>5, FreshOne DEF Beginning, RowOK, Structure
    <2>2. PICK status \in {"queued", "waiting"}, job \in {"none", "queued"} :
             /\ job = "queued" => status = "queued"
             /\ build'[b] = [Unbuilt EXCEPT !.status = status, !.active = TRUE, !.job = job]
      BY <1>5 DEF Beginning
    <2>3. /\ build'[b].status = status /\ build'[b].job = job /\ build'[b].pins = <<>>
          /\ build'[b].active = TRUE
      BY <2>2, UnbuiltTyped, UnbuiltFields DEF BuildRows
    <2>4. Calm(b)
      BY <2>1, UnbuiltFields DEF Calm, Lost, Shared
    <2>5. current[b[1]] # b
      BY <2>4, <2>1, UnbuiltFields DEF CalmOK
    <2>6. QED
      BY <2>2, <2>3, <2>5 DEF CalmOK, Settled, ActiveStatuses
  <1>6. CASE Claiming(b)
    <2>1. /\ build'[b].status = build[b].status /\ build'[b].active = build[b].active
          /\ build'[b].rows = build[b].rows /\ build'[b].pins = build[b].pins
          /\ build'[b].result = build[b].result /\ build'[b].commanded = build[b].commanded
          /\ build'[b].job = "running"
      BY <1>1, <1>6 DEF Claiming, BuildRows
    <2>2. QED
      BY <2>1, <1>2, CalmKept
  <1>7. CASE Flagging(b)
    <2>1. /\ build'[b].status = build[b].status /\ build'[b].active = build[b].active
          /\ build'[b].rows = build[b].rows /\ build'[b].pins = build[b].pins
          /\ build'[b].result = build[b].result /\ build'[b].commanded = build[b].commanded
          /\ build'[b].job = build[b].job
      BY <1>1, <1>7 DEF Flagging, BuildRows
    <2>2. Calm(b) /\ ~build[b].commanded /\ build'[b].job = "queued" => build[b].status = "queued"
      BY <2>1 DEF CalmOK
    <2>3. QED
      BY <2>1, <2>2, <1>2, CalmKept
  <1>8. CASE Ending(x, b)
    <2>1. /\ build'[b].status = build[b].status /\ build'[b].active = build[b].active
          /\ build'[b].rows = build[b].rows /\ build'[b].pins = build[b].pins
          /\ build'[b].result = build[b].result /\ build'[b].commanded = build[b].commanded
          /\ build'[b].job = "ended"
      BY <1>1, <1>8 DEF Ending, BuildRows
    <2>2. QED
      BY <2>1, <1>2, CalmKept
  <1>9. CASE Giving(x, b)
    <2>1. PICK status \in {"failed", "cancelled"} :
            build'[b] = [build[b] EXCEPT !.status = status, !.active = FALSE, !.job = "ended",
                                         !.rows = KeptRows(b)]
      BY <1>9 DEF Giving
    <2>2. /\ build'[b].status = status /\ build'[b].active = FALSE /\ build'[b].job = "ended"
          /\ IsProjection(b) => build'[b].rows = {}
          /\ build'[b].pins = build[b].pins /\ build'[b].commanded = build[b].commanded
      BY <2>1, <1>1 DEF BuildRows, KeptRows
    <2>3. SUFFICES ASSUME Calm(b)' PROVE CalmOK(b)'
      BY DEF CalmOK
    <2>4. Calm(b)
      BY <2>3, CalmBack
    <2>5. current[b[1]] # b
      BY <2>4, <1>9 DEF CalmOK, Giving, ActiveStatuses
    <2>6. build'[b].pins # <<>> => PinsThere(build[b].pins)'
      BY <2>2, <2>4, <1>2, PinsOf, PinsOnward DEF CalmOK
    <2>7. QED
      BY <2>2, <2>5, <2>6 DEF CalmOK, Settled
  <1>10. CASE Waking(b)
    <2>1. build'[b] = [build[b] EXCEPT !.status = "queued", !.overwritten = @ \/ build[b].status # "waiting",
                                       !.job = IF @ = "none" THEN "queued" ELSE @]
      BY <1>10 DEF Waking
    <2>2. /\ build'[b].status = "queued" /\ build'[b].active = build[b].active
          /\ build'[b].job = IF build[b].job = "none" THEN "queued" ELSE build[b].job
          /\ build'[b].pins = build[b].pins /\ build'[b].commanded = build[b].commanded
          /\ ~build'[b].overwritten => build[b].status = "waiting"
      BY <2>1, <1>1 DEF BuildRows
    <2>3. SUFFICES ASSUME Calm(b)' PROVE CalmOK(b)'
      BY DEF CalmOK
    <2>4. Calm(b) /\ build[b].status = "waiting"
      BY <2>2, <2>3, CalmBack
    <2>5. current[b[1]] # b
      BY <2>4 DEF CalmOK
    <2>6. build'[b].pins # <<>> => PinsThere(build[b].pins)'
      BY <2>2, <2>4, <1>2, PinsOf, PinsOnward DEF CalmOK
    <2>7. build'[b].job # "none"
      BY <2>2
    <2>8. QED
      BY <2>2, <2>5, <2>6, <2>7 DEF CalmOK, Settled, ActiveStatuses
  <1>11. CASE Withdrawing(x, b)
    <2>1. build'[b].withdrawn
      BY <1>1, <1>11 DEF Withdrawing, BuildRows
    <2>2. QED
      BY <2>1 DEF CalmOK, Calm, Lost
  <1>12. QED
    BY <1>3, <1>4, <1>5, <1>6, <1>7, <1>8, <1>9, <1>10, <1>11 DEF Move

\* A process that does not take the step.
LEMMA MoveExec ==
  ASSUME Structure, Onward, NEW x, NEW y \in Processes, y # x, proc'[y] = proc[y], ExecOK(y),
         \A b \in Builds : Move(x, b)
  PROVE  ExecOK(y)'
  <1>1. CASE proc[y].pc \notin {"enqueue"} \cup Executing
    BY <1>1, IdleOK
  <1>2. CASE proc[y].pc \in {"enqueue"} \cup Executing
    <2>1. PICK b \in Builds : b = proc[y].build /\ build[b].status # "none"
      BY <1>2, AtBuild
    <2>2. Move(x, b)
      OBVIOUS
    <2>3. build'[b].job = "none" => build'[b] = build[b] \/ (y # Cli /\ build'[b].commanded)
      BY <2>1, <2>2, MoveFacts
    <2>4. /\ build[b].commanded => build'[b].commanded
          /\ build'[b].pins = build[b].pins /\ build'[b].result = build[b].result
      BY <2>2, MoveFacts
    <2>5. proc[y].pc \in Executing => y = Cli \/ proc[y].job = b
      BY <2>1, Actors DEF Structure, Shape
    <2>6. ASSUME y # Cli, proc[y].pc \in {"start", "pin"}, Calm(b)'
          PROVE  build'[b].status = "queued" \/ (Calm(b) /\ build'[b].status = build[b].status)
      <3>1. proc[y].job = b
        BY <2>5, <2>6 DEF Executing
      <3>2. QED
        BY <3>1, <2>2, <2>6, MoveHeld, CalmBack
    <2>7. ASSUME proc[y].pc \in AtWork, Calm(b)'
          PROVE  build'[b].status = build[b].status /\ build'[b].rows = build[b].rows
      <3>1. Calm(b)
        BY <2>7, CalmBack
      <3>2. build[b].status = "building"
        BY <3>1, <2>1, <2>7 DEF ExecOK
      <3>3. CASE y = Cli
        <4>1. build'[b].commanded
          BY <3>3, <2>1, <2>4, <2>7 DEF ExecOK
        <4>2. build'[b].job = "none"
          BY <4>1, <2>7 DEF Calm, Lost, Shared
        <4>3. QED
          BY <3>3, <4>2, <2>3
      <3>4. CASE y # Cli
        <4>1. proc[y].job = b
          BY <3>4, <2>5, <2>7 DEF Executing
        <4>2. ~build'[b].overwritten
          BY <2>7, CalmBack
        <4>3. QED
          BY <4>1, <4>2, <2>2, <3>2, MoveHeld
      <3>5. QED
        BY <3>3, <3>4
    <2>8. QED
      BY <2>1, <2>3, <2>4, <2>6, <2>7, ExecKept
  <1>3. QED
    BY <1>1, <1>2

\* Everything but what is said of the process that takes the step.
OthersOK(x) ==
  /\ OneActive /\ build \in [Builds -> BuildRows]
  /\ \A b \in Builds : RowOK(b) /\ CalmOK(b)
  /\ \A y \in Processes \ {x} : Shape(y) /\ ExecOK(y)

LEMMA Moved ==
  ASSUME IInv, NEW x, \A b \in Builds : Move(x, b), DOMAIN build' = Builds, build' = [b \in Builds |-> build'[b]],
         \A y \in Processes \ {x} : proc'[y] = proc[y], current' = current
  PROVE  Onward /\ OthersOK(x)'
  <1>1. Structure /\ OneActive
    BY DEF IInv, Structure
  <1>2. Onward
    BY <1>1, MoveOnward
  <1>3. build' \in [Builds -> BuildRows]
    <2>1. \A b \in Builds : build'[b] \in BuildRows
      BY <1>1, MoveTyped
    <2>2. QED
      BY <2>1
  <1>4. ASSUME NEW b \in Builds PROVE RowOK(b)' /\ CalmOK(b)'
    <2>1. Move(x, b) /\ CalmOK(b) /\ RowOK(b)
      BY <1>1 DEF IInv, Structure
    <2>2. CalmOK(b)'
      BY <1>1, <1>2, <2>1, MoveCalm
    <2>3. RowOK(b)'
      <3>1. /\ build'[b].status = "none" => build'[b] = Unbuilt
            /\ build'[b].pins # <<>> => ~IsProjection(b) /\ PinsFit(b[1], build'[b].pins)
            /\ build'[b].overwritten => ~IsProjection(b) /\ build'[b].job # "none"
        BY <1>1, <2>1, MoveFacts DEF RowOK
      <3>2. build'[b].withdrawn => ~build'[b].active /\ (build'[b].commanded \/ build'[b].job # "none")
        BY <1>1, <2>1, MoveFacts, UnbuiltFields DEF RowOK, Fresh
      <3>3. QED
        BY <3>1, <3>2 DEF RowOK, PinsFit, IsProjection
    <2>4. QED
      BY <2>2, <2>3
  <1>5. OneActive'
    <2>1. SUFFICES ASSUME NEW b \in Builds, NEW d \in Builds, b[1] = d[1], build'[b].active, build'[d].active
                   PROVE  b = d
      BY DEF OneActive
    <2>2. /\ build[b].active \/ (b \in Fresh(b[1]) /\ ActiveBuilds(b[1]) = {})
          /\ build[d].active \/ (d \in Fresh(d[1]) /\ ActiveBuilds(d[1]) = {})
      BY <1>1, <2>1, MoveFacts
    <2>3. CASE build[b].active /\ build[d].active
      BY <2>3, <2>1, <1>1 DEF OneActive
    <2>4. CASE b \in Fresh(b[1]) /\ d \in Fresh(d[1])
      BY <2>4, <2>1, <1>1, FreshOne DEF Structure
    <2>5. ~(build[b].active /\ ActiveBuilds(b[1]) = {}) /\ ~(build[d].active /\ ActiveBuilds(d[1]) = {})
      BY DEF ActiveBuilds
    <2>6. QED
      BY <2>1, <2>2, <2>3, <2>4, <2>5 DEF ActiveBuilds
  <1>6. ASSUME NEW y \in Processes \ {x} PROVE Shape(y)' /\ ExecOK(y)'
    <2>1. proc'[y] = proc[y] /\ y # x /\ ExecOK(y)
      BY DEF IInv
    <2>2. ExecOK(y)'
      BY <1>1, <1>2, <2>1, MoveExec
    <2>3. proc[y].job \in Builds => build'[proc[y].job].job = "running"
      BY <1>1, <2>1, MoveHeld
    <2>4. \A b \in Builds : build[b].status # "none" => /\ build'[b].status # "none"
                                                        /\ build'[b].active => build[b].active
      BY <1>1, MoveFacts DEF Fresh
    <2>5. Shape(y)'
      BY <1>1, <2>1, <2>3, <2>4, ShapeKept
    <2>6. QED
      BY <2>2, <2>5
  <1>7. QED
    BY <1>2, <1>3, <1>4, <1>5, <1>6 DEF OthersOK

-----------------------------------------------------------------------------
(***************************************************************************)
(* Steps of requests, follow-ups, recovery and the queue.                  *)
(***************************************************************************)

\* What is left to show of a step of x, when the builds and the others are all right.
LEMMA Together ==
  ASSUME IInv, NEW x \in Processes, NEW r \in ProcRows, proc' = [proc EXCEPT ![x] = r],
         OthersOK(x)', Shape(x)', ExecOK(x)', RestTyped',
         r.job \in Builds => r.job = proc[x].job \/ Unheld(x, r.job)
  PROVE  IInv'
  <1>1. /\ proc \in [Processes -> ProcRows] /\ OneHolder
        /\ \A y \in Processes : Shape(y) /\ ExecOK(y)
    BY DEF IInv, Structure, Typed
  <1>2. /\ proc' \in [Processes -> ProcRows] /\ proc'[x] = r
        /\ \A y \in Processes \ {x} : proc'[y] = proc[y]
    BY <1>1
  <1>3. OneHolder'
    <2>1. SUFFICES ASSUME NEW y \in Processes, NEW z \in Processes,
                          proc'[y].job \in Builds, proc'[y].job = proc'[z].job, y # z
                   PROVE  FALSE
      BY DEF OneHolder
    <2>2. CASE y # x /\ z # x
      BY <2>1, <2>2, <1>1, <1>2 DEF OneHolder
    <2>3. CASE y = x \/ z = x
      <3>1. PICK w \in Processes \ {x} : r.job \in Builds /\ proc[w].job = r.job
        BY <2>1, <2>3, <1>2
      <3>2. r.job = proc[x].job
        BY <3>1 DEF Unheld
      <3>3. QED
        BY <3>1, <3>2, <1>1 DEF OneHolder
    <2>4. QED
      BY <2>2, <2>3
  <1>4. \A y \in Processes : Shape(y)' /\ ExecOK(y)'
    BY DEF OthersOK
  <1>5. Typed' /\ OneActive' /\ \A b \in Builds : RowOK(b)' /\ CalmOK(b)'
    BY <1>2 DEF OthersOK, Typed
  <1>6. QED
    BY <1>3, <1>4, <1>5 DEF IInv, Structure

LEMMA Still ==
  ASSUME IInv, NEW x, build' = build, current' = current, \A y \in Processes \ {x} : proc'[y] = proc[y]
  PROVE  OthersOK(x)'
  <1>1. DOMAIN build' = Builds /\ build' = [b \in Builds |-> build'[b]]
    BY DEF IInv, Structure, Typed
  <1>2. \A b \in Builds : Move(x, b)
    BY DEF Move
  <1>3. QED
    BY <1>1, <1>2, Moved

LEMMA Parts0 ==
  ASSUME IInv
  PROVE  /\ Structure /\ Typed /\ RestTyped /\ build \in [Builds -> BuildRows] /\ proc \in [Processes -> ProcRows]
         /\ OneActive /\ OneHolder /\ \A b \in Builds : RowOK(b) /\ CalmOK(b)
         /\ \A x \in Processes : Shape(x) /\ ExecOK(x)
  BY DEF IInv, Structure, Typed

\* Going back to idle.
LEMMA Resting ==
  ASSUME IInv, NEW x \in Processes, proc' = [proc EXCEPT ![x] = Idle], OthersOK(x)', RestTyped'
  PROVE  IInv'
  <1>1. proc'[x] = Idle
    BY Parts0
  <1>2. Shape(x)' /\ ExecOK(x)'
    BY <1>1, IdleTyped, IdleOK, PipelineAssumption DEF Shape, Executing, AtWork, Filling
  <1>3. QED
    BY <1>2, IdleTyped, PipelineAssumption, Together

AtEnqueue(r, o, b, status) == [r EXCEPT !.pc = "enqueue", !.owner = o, !.build = b, !.status = status]

AtInsert(r, o, status) == [r EXCEPT !.pc = "insert", !.owner = o, !.status = status]

LEMMA ToEnqueue ==
  ASSUME NEW r \in ProcRows, NEW o \in Owners, NEW b \in Builds, NEW status \in Statuses
  PROVE  LET s == AtEnqueue(r, o, b, status)
         IN s \in ProcRows /\ s.job = r.job /\ s.pc = "enqueue" /\ s.owner = o /\ s.build = b /\ s.status = status
  <1>1. "enqueue" \in Pcs
    BY DEF Pcs
  <1>2. QED
    BY <1>1 DEF ProcRows, AtEnqueue

LEMMA ToInsert ==
  ASSUME NEW r \in ProcRows, NEW o \in Owners, NEW status \in Statuses
  PROVE  LET s == AtInsert(r, o, status)
         IN s \in ProcRows /\ s.job = r.job /\ s.pc = "insert" /\ s.owner = o /\ s.status = status
  <1>1. "insert" \in Pcs
    BY DEF Pcs
  <1>2. QED
    BY <1>1 DEF ProcRows, AtInsert

\* A look at what is there for a scan or comparison.
LEMMA LookedOK ==
  ASSUME IInv, NEW x \in Processes, NEW r \in ProcRows, r.job = proc[x].job,
         NEW o \in Owners, NEW force \in BOOLEAN, build' = build, current' = current,
         proc'[x] = Looked(r, o, force)
  PROVE  Looked(r, o, force) \in ProcRows /\ Looked(r, o, force).job = r.job /\ Shape(x)' /\ ExecOK(x)'
  <1>1. /\ r.job \in Builds => x \in Workers /\ build[r.job].job = "running"
        /\ x \notin Workers => r.job = None
    BY Parts0 DEF Shape
  <1>2. CASE ActiveBuilds(o) # {}
    <2> DEFINE b == CHOOSE b \in ActiveBuilds(o) : TRUE
    <2>1. b \in Builds /\ b[1] = o /\ build[b].active
      BY <1>2 DEF ActiveBuilds
    <2> HIDE DEF b
    <2>2. Looked(r, o, force) = AtEnqueue(r, o, b, build[b].status)
      BY <1>2 DEF Looked, b, AtEnqueue
    <2>3. build[b].status # "none"
      BY <2>1, Parts0, UnbuiltFields DEF RowOK
    <2>4. build[b].job = "none" => build[b].status \in ActiveStatuses /\ ~build[b].withdrawn
      BY <2>1, Parts0 DEF CalmOK, Calm, Lost, Shared, RowOK
    <2>5. build[b].status \in Statuses
      BY <2>1, Parts0, BuildFields
    <2>6. /\ proc'[x] \in ProcRows /\ proc'[x].job = r.job /\ proc'[x].pc = "enqueue" /\ proc'[x].owner = o
          /\ proc'[x].build = b /\ proc'[x].status = build[b].status
      BY <2>1, <2>2, <2>5, ToEnqueue
    <2>7. Shape(x)'
      BY <1>1, <2>1, <2>3, <2>6 DEF Shape, Executing, AtWork, Filling
    <2>8. ExecOK(x)'
      BY <2>4, <2>6 DEF ExecOK, AtWork, Filling
    <2>9. QED
      BY <2>6, <2>7, <2>8
  <1>3. CASE ActiveBuilds(o) = {} /\ Ready(o) /\ ~force
    <2> DEFINE b == current[o]
    <2>1. b \in Builds /\ b[1] = o /\ build[b].status = "ready"
      BY <1>3, Parts0 DEF Ready, RestTyped
    <2> HIDE DEF b
    <2>2. /\ Looked(r, o, force) = AtEnqueue(r, o, b, "ready")
          /\ "ready" \in Statuses
      BY <1>3 DEF Looked, b, AtEnqueue, Statuses
    <2>3. /\ proc'[x] \in ProcRows /\ proc'[x].job = r.job /\ proc'[x].pc = "enqueue" /\ proc'[x].owner = o
          /\ proc'[x].build = b /\ proc'[x].status = "ready"
      BY <2>1, <2>2, ToEnqueue
    <2>4. Shape(x)'
      BY <1>1, <2>1, <2>3 DEF Shape, Executing, AtWork, Filling
    <2>5. ExecOK(x)'
      BY <2>3 DEF ExecOK, AtWork, Filling
    <2>6. QED
      BY <2>3, <2>4, <2>5
  <1>4. CASE ActiveBuilds(o) = {} /\ ~(Ready(o) /\ ~force)
    <2>1. Looked(r, o, force) = AtInsert(r, o, StatusFor(o))
      BY <1>4 DEF Looked, AtInsert
    <2>2. StatusFor(o) \in {"queued", "waiting"} /\ StatusFor(o) \in Statuses
      BY DEF StatusFor, Statuses
    <2>3. /\ proc'[x] \in ProcRows /\ proc'[x].job = r.job /\ proc'[x].pc = "insert" /\ proc'[x].owner = o
          /\ proc'[x].status = StatusFor(o)
      BY <2>1, <2>2, ToInsert
    <2>4. Shape(x)'
      BY <1>1, <2>2, <2>3 DEF Shape, Executing, AtWork, Filling
    <2>5. ExecOK(x)'
      BY <2>3, IdleOK DEF Executing, AtWork, Filling
    <2>6. QED
      BY <2>3, <2>4, <2>5
  <1>5. QED
    BY <1>2, <1>3, <1>4

\* A step that no process is at the end of.
LEMMA Nobody == \E z : z \notin Processes
  <1> DEFINE z == {y \in Processes : y \notin y}
  <1>1. z \notin Processes
    OBVIOUS
  <1>2. QED
    BY <1>1

LEMMA Unattended ==
  ASSUME IInv, NEW z, z \notin Processes, OthersOK(z)', RestTyped', proc' = proc
  PROVE  IInv'
  <1>1. OneHolder'
    BY Parts0 DEF OneHolder
  <1>2. proc' \in [Processes -> ProcRows]
    BY Parts0
  <1>3. \A y \in Processes : Shape(y)' /\ ExecOK(y)'
    BY DEF OthersOK
  <1>4. Typed' /\ OneActive' /\ \A b \in Builds : RowOK(b)' /\ CalmOK(b)'
    BY <1>2 DEF OthersOK, Typed
  <1>5. QED
    BY <1>1, <1>3, <1>4 DEF IInv, Structure

LEMMA GoesIdle ==
  ASSUME IInv, NEW x \in Processes, Refused(x) \/ Die(x) \/ Crash(x)
  PROVE  IInv'
  <1>1. proc' = [proc EXCEPT ![x] = Idle] /\ UNCHANGED <<scan, build, current, known, missed, requests>>
    BY DEF Refused, Die, Crash, Become
  <1>2. faults' \in 0..MaxFaults
    BY Parts0, PipelineAssumption DEF Refused, Die, Crash, RestTyped
  <1>3. RestTyped'
    BY <1>1, <1>2, Parts0 DEF RestTyped
  <1>4. OthersOK(x)'
    BY <1>1, Parts0, Still
  <1>5. QED
    BY <1>1, <1>3, <1>4, Resting

LEMMA ScanFollowupStep ==
  ASSUME IInv, NEW x \in Processes, ScanFollowup(x)
  PROVE  IInv'
  <1> DEFINE r == Looked(proc[x], proc[x].job, FALSE)
  <1>1. /\ proc' = [proc EXCEPT ![x] = r] /\ UNCHANGED <<scan, build, current, known, missed, requests, faults>>
        /\ proc[x].job \in Scans /\ proc[x] \in ProcRows
    BY Parts0, ProcFields DEF ScanFollowup, Become, Shape
  <1>2. proc[x].job \in Owners /\ proc'[x] = r
    BY <1>1, Parts0 DEF Owners
  <1>3. r \in ProcRows /\ r.job = proc[x].job /\ Shape(x)' /\ ExecOK(x)'
    BY <1>1, <1>2, LookedOK
  <1>4. OthersOK(x)' /\ RestTyped'
    BY <1>1, Parts0, Still DEF RestTyped
  <1> HIDE DEF r
  <1>5. QED
    BY <1>1, <1>3, <1>4, Together

\* A worker takes a scan's follow-up.
AtFollowup(s) == [Idle EXCEPT !.pc = "followup", !.job = s]

LEMMA ToFollowup ==
  ASSUME IInv, NEW x \in Workers, NEW s \in Scans, proc' = [proc EXCEPT ![x] = AtFollowup(s)],
         build' = build, current' = current, RestTyped'
  PROVE  IInv'
  <1>1. "followup" \in Pcs
    BY DEF Pcs
  <1>2. AtFollowup(s) \in ProcRows /\ AtFollowup(s).pc = "followup" /\ AtFollowup(s).job = s
    BY <1>1, IdleTyped DEF AtFollowup, ProcRows
  <1>3. x \in Processes /\ s \notin Builds
    BY PipelineAssumption DEF Processes
  <1>4. proc'[x] = AtFollowup(s) /\ \A y \in Processes \ {x} : proc'[y] = proc[y]
    BY <1>3, Parts0
  <1>5. OthersOK(x)'
    BY <1>4, Still
  <1>6. Shape(x)' /\ ExecOK(x)'
    BY <1>2, <1>3, <1>4, IdleOK DEF Shape, Executing, AtWork, Filling
  <1>7. QED
    BY <1>2, <1>3, <1>5, <1>6, Together

LEMMA ScanEndsStep ==
  ASSUME IInv, NEW x \in Workers, NEW s \in Scans, ScanEnds(x, s)
  PROVE  IInv'
  <1>1. PICK status \in {"completed", "unsuccessful"} : scan' = [scan EXCEPT ![s].status = status]
    BY DEF ScanEnds
  <1>2. /\ proc' = [proc EXCEPT ![x] = AtFollowup(s)]
        /\ UNCHANGED <<build, current, known, missed, requests, faults>>
    BY DEF ScanEnds, Become, AtFollowup
  <1>3. scan' \in [Scans -> [status: {"running", "completed", "unsuccessful"},
                             job: {"running", "ended", "interrupted"}]]
    BY <1>1, Parts0 DEF RestTyped
  <1>4. RestTyped'
    BY <1>2, <1>3, Parts0 DEF RestTyped
  <1>5. QED
    BY <1>2, <1>4, ToFollowup

LEMMA RecoverScanStep ==
  ASSUME IInv, NEW x \in Workers, NEW s \in Scans, RecoverScan(x, s)
  PROVE  IInv'
  <1>1. UNCHANGED <<build, current, known, missed, requests>>
    BY DEF RecoverScan
  <1>2. CASE proc' = [proc EXCEPT ![x] = AtFollowup(s)] /\ UNCHANGED <<scan, faults>>
    <2>1. RestTyped'
      BY <1>1, <1>2, Parts0 DEF RestTyped
    <2>2. QED
      BY <1>1, <1>2, <2>1, ToFollowup
  <1>3. CASE /\ faults < MaxFaults /\ faults' = faults + 1 /\ UNCHANGED proc
             /\ scan' = [scan EXCEPT ![s] = [status |-> "unsuccessful", job |-> "interrupted"]]
    <2>1. scan' \in [Scans -> [status: {"running", "completed", "unsuccessful"},
                               job: {"running", "ended", "interrupted"}]]
      BY <1>3, Parts0 DEF RestTyped
    <2>2. faults' \in 0..MaxFaults
      BY <1>3, Parts0, PipelineAssumption DEF RestTyped
    <2>3. RestTyped'
      BY <1>1, <2>1, <2>2, Parts0 DEF RestTyped
    <2>4. PICK z : z \notin Processes
      BY Nobody
    <2>5. OthersOK(z)'
      BY <1>1, <1>3, Still
    <2>6. QED
      BY <1>3, <2>3, <2>4, <2>5, Unattended
  <1>4. QED
    BY <1>2, <1>3 DEF RecoverScan, Become, AtFollowup

LEMMA CommandExecutesStep ==
  ASSUME IInv, NEW x \in Processes, CommandExecutes(x)
  PROVE  IInv'
  <1> DEFINE b == proc[x].build
             r == [Idle EXCEPT !.pc = "start", !.build = b]
  <1>1. /\ x = Cli /\ proc[x].pc = "enqueue" /\ UNCHANGED <<scan, build, current, known, missed, requests, faults>>
        /\ b \in Builds /\ build[b].status # "none"
    BY Parts0, AtBuild DEF CommandExecutes
  <1>2. OthersOK(x)' /\ RestTyped'
    <2>1. \A y \in Processes \ {x} : proc'[y] = proc[y]
      BY Parts0 DEF CommandExecutes, Become
    <2>2. QED
      BY <1>1, <2>1, Parts0, Still DEF RestTyped
  <1>3. CASE proc' = [proc EXCEPT ![x] = Idle]
    BY <1>2, <1>3, Resting
  <1>4. CASE proc[x].status # "ready" /\ proc' = [proc EXCEPT ![x] = r]
    <2>1. "start" \in Pcs
      BY DEF Pcs, Executing
    <2>2. r \in ProcRows /\ r.pc = "start" /\ r.job = None /\ r.build = b
      BY <1>1, <2>1, IdleTyped DEF ProcRows
    <2>3. proc'[x] = r
      BY <1>4, Parts0
    <2>4. build[b].job = "none" => build[b].status \in ActiveStatuses /\ ~build[b].withdrawn
      BY <1>1, <1>4, Parts0 DEF ExecOK
    <2>5. None \notin Builds /\ Cli \notin Clients /\ Cli \notin Workers
      BY PipelineAssumption
    <2> HIDE DEF r, b
    <2>6. Shape(x)'
      BY <1>1, <2>2, <2>3, <2>5 DEF Shape, Executing, AtWork, Filling
    <2>7. ExecOK(x)'
      BY <1>1, <2>2, <2>3, <2>4 DEF ExecOK, AtWork, Filling
    <2>8. QED
      BY <1>2, <1>4, <2>2, <2>5, <2>6, <2>7, Together
  <1>5. QED
    BY <1>3, <1>4 DEF CommandExecutes, Become

\* A step that changes one build.
LEMMA OneMove ==
  ASSUME IInv, NEW x, NEW b \in Builds, NEW row, build' = [build EXCEPT ![b] = row], Move(x, b), current' = current,
         \A y \in Processes \ {x} : proc'[y] = proc[y]
  PROVE  OthersOK(x)' /\ build'[b] = row
  <1>1. DOMAIN build' = Builds /\ build' = [d \in Builds |-> build'[d]] /\ build'[b] = row
    BY Parts0
  <1>2. \A d \in Builds : Move(x, d)
    BY Parts0 DEF Move
  <1>3. QED
    BY <1>1, <1>2, Moved

\* A job that is queued is nobody's, one that is not held is no process's.
LEMMA QueuedUnheld ==
  ASSUME IInv, NEW x, NEW b \in Builds, build[b].job = "queued" \/ ~Held(b)
  PROVE  Unheld(x, b) /\ \A y \in Processes : proc[y].job # b
  BY Parts0, Names DEF Unheld, Shape, Held

LEMMA CancelStep ==
  ASSUME IInv, NEW b \in Builds, Cancel(b)
  PROVE  IInv'
  <1> DEFINE row == IF build[b].job = "running" THEN [build[b] EXCEPT !.flagged = TRUE]
                    ELSE IF build[b].status \in ActiveStatuses
                         THEN [build[b] EXCEPT !.job = "ended", !.status = "cancelled", !.active = FALSE,
                                               !.rows = KeptRows(b)]
                         ELSE [build[b] EXCEPT !.job = "ended"]
  <1>1. /\ build[b].job \in {"queued", "running"} /\ UNCHANGED <<scan, current, known, proc, missed, faults>>
        /\ requests < MaxRequests /\ requests' = requests + 1 /\ build' = [build EXCEPT ![b] = row]
    BY DEF Cancel
  <1>2. RestTyped'
    BY <1>1, Parts0, PipelineAssumption DEF RestTyped
  <1>3. PICK z : z \notin Processes
    BY Nobody
  <1>4. build'[b] = row /\ build[b] \in BuildRows
    BY <1>1, Parts0
  <1>5. Move(z, b)
    <2>1. CASE build[b].job = "running"
      BY <1>4, <2>1 DEF Move, Flagging
    <2>2. CASE build[b].job = "queued" /\ build[b].status \in ActiveStatuses
      <3>1. build'[b] = [build[b] EXCEPT !.status = "cancelled", !.active = FALSE, !.job = "ended",
                                         !.rows = KeptRows(b)]
        BY <1>4, <2>2 DEF BuildRows
      <3>2. Giving(z, b)
        BY <2>2, <3>1, QueuedUnheld DEF Giving
      <3>3. QED
        BY <3>2 DEF Move
    <2>3. CASE build[b].job = "queued" /\ build[b].status \notin ActiveStatuses
      BY <1>4, <2>3, QueuedUnheld DEF Move, Ending
    <2>4. QED
      BY <1>1, <2>1, <2>2, <2>3
  <1> HIDE DEF row
  <1>6. OthersOK(z)'
    BY <1>1, <1>5, OneMove
  <1>7. QED
    BY <1>1, <1>2, <1>3, <1>6, Unattended

LEMMA ClaimStep ==
  ASSUME IInv, NEW x \in Workers, NEW b \in Builds, Claim(x, b)
  PROVE  IInv'
  <1> DEFINE r == [Idle EXCEPT !.pc = "start", !.job = b, !.build = b]
             row == [build[b] EXCEPT !.job = "running"]
  <1>1. /\ build[b].job = "queued" /\ UNCHANGED <<scan, current, known, missed, requests, faults>>
        /\ build' = [build EXCEPT ![b] = row] /\ proc' = [proc EXCEPT ![x] = r]
    BY DEF Claim, Become
  <1>2. x \in Processes /\ x # Cli /\ x \notin Clients /\ build[b] \in BuildRows
    BY Parts0, PipelineAssumption DEF Processes
  <1>3. build'[b] = row /\ row.job = "running" /\ row.status = build[b].status
    BY <1>1, <1>2, Parts0 DEF BuildRows
  <1>4. "start" \in Pcs
    BY DEF Pcs, Executing
  <1>5. r \in ProcRows /\ r.pc = "start" /\ r.job = b /\ r.build = b
    BY <1>4, IdleTyped DEF ProcRows
  <1>6. proc'[x] = r /\ \A y \in Processes \ {x} : proc'[y] = proc[y]
    BY <1>1, <1>2, Parts0
  <1>7. Move(x, b)
    BY <1>1, <1>3 DEF Move, Claiming
  <1> HIDE DEF r, row
  <1>8. OthersOK(x)'
    BY <1>1, <1>6, <1>7, OneMove
  <1>9. build[b].status # "none"
    BY <1>1, Parts0, UnbuiltFields DEF RowOK
  <1>10. Shape(x)'
    BY <1>2, <1>3, <1>5, <1>6, <1>9 DEF Shape, Executing, AtWork, Filling
  <1>11. Calm(b)' => build'[b].status = "queued"
    <2>1. SUFFICES ASSUME Calm(b)' PROVE build[b].status = "queued"
      BY <1>3
    <2>2. ~build[b].commanded /\ ~build[b].overwritten /\ ~build[b].withdrawn
      BY <1>1, <1>2, <1>3, <2>1 DEF Calm, Lost, Shared, row, BuildRows
    <2>3. Calm(b)
      BY <2>2 DEF Calm, Lost, Shared
    <2>4. QED
      BY <2>2, <2>3, <1>1, Parts0 DEF CalmOK
  <1>12. ExecOK(x)'
    BY <1>2, <1>5, <1>6, <1>11 DEF ExecOK, AtWork, Filling
  <1>13. RestTyped'
    BY <1>1, Parts0 DEF RestTyped
  <1>14. Unheld(x, b)
    BY <1>1, QueuedUnheld
  <1>15. QED
    BY <1>1, <1>2, <1>5, <1>8, <1>10, <1>12, <1>13, <1>14, Together

\* A worker has a build's job and comes to its end, or finds it at its end.
AtReturned(b) == [Idle EXCEPT !.pc = "returned", !.job = b, !.build = b]

LEMMA MarkedMove ==
  ASSUME IInv, NEW x, NEW b \in Builds, NEW status \in {"failed", "cancelled"}, build[b].job = "running", Unheld(x, b),
         build' = MarkedTerminal(b, status)
  PROVE  Move(x, b) /\ \E row : build' = [build EXCEPT ![b] = row]
  <1>1. build[b] \in BuildRows
    BY Parts0
  <1>2. CASE build[b].status \in ActiveStatuses
    <2> DEFINE row == [build[b] EXCEPT !.status = status, !.active = FALSE, !.job = "ended", !.rows = KeptRows(b)]
    <2>1. build' = [build EXCEPT ![b] = row]
      BY <1>1, <1>2 DEF MarkedTerminal, BuildRows
    <2>2. build'[b] = row
      BY <2>1, Parts0
    <2>3. QED
      BY <1>2, <2>1, <2>2 DEF Move, Giving
  <1>3. CASE build[b].status \notin ActiveStatuses
    <2> DEFINE row == [build[b] EXCEPT !.job = "ended"]
    <2>1. build' = [build EXCEPT ![b] = row]
      BY <1>3 DEF MarkedTerminal
    <2>2. build'[b] = row
      BY <2>1, Parts0
    <2>3. QED
      BY <1>3, <2>1, <2>2 DEF Move, Ending
  <1>4. QED
    BY <1>2, <1>3

LEMMA RecoverBuildStep ==
  ASSUME IInv, NEW x \in Workers, NEW b \in Builds, RecoverBuild(x, b)
  PROVE  IInv'
  <1>1. /\ build[b].job = "running" /\ ~Held(b) /\ UNCHANGED <<scan, current, known, missed, requests, faults>>
        /\ x \in Processes
    BY DEF RecoverBuild, Processes
  <1>2. RestTyped'
    BY <1>1, Parts0 DEF RestTyped
  <1>3. CASE build[b].status = "ready" /\ proc' = [proc EXCEPT ![x] = AtReturned(b)] /\ UNCHANGED build
    <2> DEFINE r == AtReturned(b)
    <2>1. "returned" \in Pcs
      BY DEF Pcs
    <2>2. r \in ProcRows /\ r.pc = "returned" /\ r.job = b
      BY <2>1, IdleTyped DEF ProcRows, AtReturned
    <2>3. proc'[x] = r /\ \A y \in Processes \ {x} : proc'[y] = proc[y]
      BY <1>1, <1>3, Parts0
    <2> HIDE DEF r
    <2>4. Shape(x)' /\ ExecOK(x)'
      BY <1>1, <1>3, <2>2, <2>3, IdleOK, Names DEF Shape, Executing, AtWork, Filling
    <2>5. OthersOK(x)' /\ Unheld(x, b)
      BY <1>1, <1>3, <2>3, Still, QueuedUnheld
    <2>6. QED
      BY <1>1, <1>2, <1>3, <2>2, <2>4, <2>5, Together DEF r
  <1>4. CASE build' = MarkedTerminal(b, "failed") /\ UNCHANGED proc
    <2>1. PICK z : z \notin Processes
      BY Nobody
    <2>2. Unheld(z, b)
      BY <1>1, QueuedUnheld
    <2>3. PICK row : build' = [build EXCEPT ![b] = row] /\ Move(z, b)
      BY <1>1, <1>4, <2>2, MarkedMove
    <2>4. OthersOK(z)'
      BY <1>1, <1>4, <2>3, OneMove
    <2>5. QED
      BY <1>2, <1>4, <2>1, <2>4, Unattended
  <1>5. QED
    BY <1>3, <1>4 DEF RecoverBuild, Become, AtReturned

LEMMA TerminalizeStep ==
  ASSUME IInv, NEW x \in Processes, Terminalize(x)
  PROVE  IInv'
  <1> DEFINE b == proc[x].build
  <1>1. /\ proc[x].pc = "failed" /\ proc' = [proc EXCEPT ![x] = Idle]
        /\ UNCHANGED <<scan, current, known, missed, requests, faults>>
    BY DEF Terminalize, Become
  <1>2. RestTyped'
    BY <1>1, Parts0 DEF RestTyped
  <1>3. \A y \in Processes \ {x} : proc'[y] = proc[y]
    BY <1>1, Parts0
  <1>4. CASE x = Cli
    <2>1. build' = build
      BY <1>4 DEF Terminalize
    <2>2. QED
      BY <1>1, <1>2, <1>3, <2>1, Still, Resting
  <1>5. CASE x # Cli
    <2>1. PICK status \in {"failed", "cancelled"} : build' = MarkedTerminal(b, status)
      BY <1>5 DEF Terminalize
    <2>2. b \in Builds /\ proc[x].job = b /\ build[b].job = "running"
      BY <1>1, <1>5, Parts0, Actors DEF Shape, Executing
    <2>3. Unheld(x, b)
      BY <2>2, Parts0 DEF Unheld, OneHolder
    <2> HIDE DEF b
    <2>4. PICK row : build' = [build EXCEPT ![b] = row] /\ Move(x, b)
      BY <2>1, <2>2, <2>3, MarkedMove
    <2>5. OthersOK(x)'
      BY <1>1, <1>3, <2>2, <2>4, OneMove
    <2>6. QED
      BY <1>1, <1>2, <2>5, Resting
  <1>6. QED
    BY <1>4, <1>5

LEMMA SettleReadStep ==
  ASSUME IInv, NEW x \in Processes, SettleRead(x)
  PROVE  IInv'
  <1> DEFINE b == proc[x].job
             wake == UNION {ActiveBuilds(c) : c \in Awaiting(b[1])}
             r == [proc[x] EXCEPT !.pc = "settle", !.wake = wake]
  <1>1. /\ proc[x].pc = "returned" /\ UNCHANGED <<scan, current, known, missed, requests, faults>>
        /\ b \in Builds /\ build[b].job = "running" /\ x \in Workers
    BY Parts0 DEF SettleRead, Shape
  <1>2. RestTyped'
    BY <1>1, Parts0 DEF RestTyped
  <1>3. CASE IsProjection(b) /\ proc' = [proc EXCEPT ![x] = r] /\ UNCHANGED build
    <2>1. \A d \in wake : d \in Builds /\ d[1] \in Comparisons /\ build[d].active
      BY DEF ActiveBuilds, Awaiting
    <2>2. \A d \in wake : ~IsProjection(d) /\ build[d].status # "none"
      BY <2>1, Names, Parts0, UnbuiltFields DEF RowOK
    <2>3. "settle" \in Pcs /\ wake \in SUBSET Builds
      BY <2>1 DEF Pcs
    <2> HIDE DEF wake
    <2>4. r \in ProcRows /\ r.pc = "settle" /\ r.job = b /\ r.wake = wake
      BY <2>3, Parts0, ProcFields DEF ProcRows
    <2>5. proc'[x] = r /\ \A y \in Processes \ {x} : proc'[y] = proc[y]
      BY <1>3, Parts0
    <2>6. OthersOK(x)'
      BY <1>1, <1>3, <2>5, Still
    <2> HIDE DEF r
    <2>7. Shape(x)' /\ ExecOK(x)'
      BY <1>1, <1>3, <2>2, <2>4, <2>5, IdleOK DEF Shape, Executing, AtWork, Filling, IsProjection
    <2>8. QED
      BY <1>2, <1>3, <2>4, <2>6, <2>7, Together
  <1>4. CASE build' = [build EXCEPT ![b].job = "ended"] /\ proc' = [proc EXCEPT ![x] = Idle]
    <2>1. \A y \in Processes \ {x} : proc'[y] = proc[y]
      BY <1>4, Parts0
    <2> HIDE DEF b
    <2> DEFINE row == [build[b] EXCEPT !.job = "ended"]
    <2>2. build' = [build EXCEPT ![b] = row] /\ build'[b] = row
      BY <1>1, <1>4, Parts0
    <2>3. Unheld(x, b)
      BY <1>1, Parts0 DEF Unheld, OneHolder, b
    <2>4. Move(x, b)
      BY <1>1, <2>2, <2>3 DEF Move, Ending
    <2>5. OthersOK(x)'
      BY <1>1, <2>1, <2>2, <2>4, OneMove
    <2>6. QED
      BY <1>2, <1>4, <2>5, Resting
  <1>5. QED
    BY <1>3, <1>4 DEF SettleRead, Become

-----------------------------------------------------------------------------
(***************************************************************************)
(* The creation of builds and their jobs.                                  *)
(***************************************************************************)

\* Where a build may be after it was looked at, created, given a job or woken.
Reached(b, row) ==
  \/ row = build[b]
  \/ /\ build[b].job = "none" /\ build[b].status # "none"
     /\ ~build[b].commanded => build[b].status = "queued"
     /\ row = [build[b] EXCEPT !.job = "queued"]
  \/ /\ b \in Fresh(b[1]) /\ ActiveBuilds(b[1]) = {}
     /\ \E status \in {"queued", "waiting"}, job \in {"none", "queued"} :
          /\ job = "queued" => status = "queued"
          /\ row = [Unbuilt EXCEPT !.status = status, !.active = TRUE, !.job = job]
  \/ /\ ~IsProjection(b) /\ build[b].status # "none"
     /\ row = [build[b] EXCEPT !.status = "queued", !.overwritten = @ \/ build[b].status # "waiting",
                               !.job = IF @ = "none" THEN "queued" ELSE @]

LEMMA ReachedMove ==
  ASSUME NEW x, NEW b, Reached(b, build'[b])
  PROVE  Move(x, b)
  <1>1. CASE build'[b] = build[b]
    BY <1>1 DEF Move
  <1>2. CASE Enqueuing(b)
    BY <1>2 DEF Move
  <1>3. CASE Beginning(b)
    BY <1>3 DEF Move
  <1>4. CASE Waking(b)
    BY <1>4 DEF Move
  <1>5. QED
    BY <1>1, <1>2, <1>3, <1>4 DEF Reached, Enqueuing, Beginning, Waking

\* Rows as a function, which Reached says nothing of.
IsTable(rows) == rows = [b \in Builds |-> rows[b]]

NewRow(status) == [Unbuilt EXCEPT !.status = status, !.active = TRUE]

WithJob(row) == [row EXCEPT !.job = "queued"]

Wanting(row) == row.active /\ row.status = "queued"

Creatable(b) == ActiveBuilds(b[1]) = {} /\ b \in Fresh(b[1])

\* A build with a row of its own, and then a job where it is queued and has none.
LEMMA QueuedReached ==
  ASSUME IInv, NEW b \in Builds, NEW status \in {"queued", "waiting"}, NEW created, NEW row,
         Creatable(b) => created = NewRow(status), ~Creatable(b) => created = build[b],
         Wanting(created) /\ created.job = "none" => row = WithJob(created),
         ~(Wanting(created) /\ created.job = "none") => row = created
  PROVE  Reached(b, row)
  <1>1. CASE Creatable(b)
    <2>1. created = [Unbuilt EXCEPT !.status = status, !.active = TRUE]
      BY <1>1 DEF NewRow
    <2>2. created.status = status /\ created.active = TRUE /\ created.job = "none"
      BY <2>1 DEF Unbuilt
    <2>3. CASE status = "queued"
      <3>1. row = [Unbuilt EXCEPT !.status = "queued", !.active = TRUE, !.job = "queued"]
        BY <2>1, <2>2, <2>3 DEF Unbuilt, Wanting, WithJob
      <3>2. QED
        BY <1>1, <3>1 DEF Reached, Creatable
    <2>4. CASE status = "waiting"
      <3>1. row = [Unbuilt EXCEPT !.status = "waiting", !.active = TRUE, !.job = "none"]
        BY <2>1, <2>2, <2>4 DEF Unbuilt, Wanting
      <3>2. QED
        BY <1>1, <3>1 DEF Reached, Creatable
    <2>5. QED
      BY <2>3, <2>4
  <1>2. CASE ~Creatable(b)
    <2>1. created = build[b]
      BY <1>2
    <2>2. CASE Wanting(build[b]) /\ build[b].job = "none"
      <3>1. row = [build[b] EXCEPT !.job = "queued"] /\ build[b].status = "queued" /\ build[b].job = "none"
        BY <2>1, <2>2 DEF WithJob, Wanting
      <3>2. QED
        BY <3>1 DEF Reached
    <2>3. CASE ~(Wanting(build[b]) /\ build[b].job = "none")
      BY <2>1, <2>3 DEF Reached
    <2>4. QED
      BY <2>2, <2>3
  <1>3. QED
    BY <1>1, <1>2

LEMMA InsertedRow ==
  ASSUME NEW rows, NEW o, NEW status, NEW b \in Builds
  PROVE  /\ b[1] = o /\ Creatable(b) => Inserted(rows, o, status)[b] = NewRow(status)
         /\ b[1] # o \/ ~Creatable(b) => Inserted(rows, o, status)[b] = rows[b]
  BY DEF Inserted, Creatable, NewRow, Fresh

LEMMA EnqueuedRow ==
  ASSUME NEW rows, NEW bs, NEW b \in Builds
  PROVE  /\ b \in bs /\ rows[b].job = "none" => Enqueued(rows, bs)[b] = WithJob(rows[b])
         /\ ~(b \in bs /\ rows[b].job = "none") => Enqueued(rows, bs)[b] = rows[b]
  BY DEF Enqueued, WithJob

LEMMA ProjectionsReached ==
  ASSUME IInv, NEW rows, NEW ss \in SUBSET Scans, \A b \in Builds : IsProjection(b) => rows[b] = build[b]
  PROVE  LET new == WithProjections(rows, ss)
         IN IsTable(new) /\ \A b \in Builds : /\ b[1] \in ss => Reached(b, new[b])
                                              /\ b[1] \notin ss => new[b] = rows[b]
  <1> DEFINE created == [b \in Builds |-> IF b[1] \in ss THEN Inserted(rows, b[1], "queued")[b] ELSE rows[b]]
             bs == {b \in Builds : b[1] \in ss /\ Wanting(created[b])}
             new == Enqueued(created, bs)
  <1>1. WithProjections(rows, ss) = new
    BY DEF WithProjections, Wanting
  <1>2. IsTable(new)
    BY DEF Enqueued, IsTable
  <1>3. ASSUME NEW b \in Builds, b[1] \in ss PROVE Reached(b, new[b])
    <2>1. rows[b] = build[b]
      BY <1>3 DEF IsProjection
    <2>2. created[b] = Inserted(rows, b[1], "queued")[b]
      BY <1>3
    <2>3. /\ Creatable(b) => created[b] = NewRow("queued")
          /\ ~Creatable(b) => created[b] = build[b]
      BY <2>1, <2>2, InsertedRow
    <2>4. b \in bs <=> Wanting(created[b])
      BY <1>3
    <2> HIDE DEF bs, created
    <2>5. /\ Wanting(created[b]) /\ created[b].job = "none" => new[b] = WithJob(created[b])
          /\ ~(Wanting(created[b]) /\ created[b].job = "none") => new[b] = created[b]
      BY <2>4, EnqueuedRow
    <2> HIDE DEF new
    <2>6. "queued" \in {"queued", "waiting"}
      OBVIOUS
    <2>7. QED
      BY <2>3, <2>5, <2>6, QueuedReached
  <1>4. ASSUME NEW b \in Builds, b[1] \notin ss PROVE new[b] = rows[b]
    <2>1. created[b] = rows[b] /\ b \notin bs
      BY <1>4
    <2> HIDE DEF bs, created
    <2>2. QED
      BY <2>1, EnqueuedRow
  <1> HIDE DEF new
  <1>5. QED
    BY <1>1, <1>2, <1>3, <1>4

LEMMA DependenciesAreScans ==
  ASSUME NEW x, NEW o
  PROVE  Dependencies(x, o) \in SUBSET Scans /\ (o \notin Comparisons => Dependencies(x, o) = {})
  BY Pair DEF Dependencies

LEMMA ComparisonReached ==
  ASSUME IInv, NEW rows, NEW x, NEW c \in Comparisons,
         \A b \in Builds : IsProjection(b) \/ b[1] = c => rows[b] = build[b]
  PROVE  LET new == WithComparison(rows, x, c)
         IN IsTable(new) /\ \A b \in Builds : Reached(b, new[b]) \/ new[b] = rows[b]
  <1> DEFINE base == IF Ready(c) THEN rows ELSE Inserted(rows, c, StatusFor(c))
             created == WithProjections(base, Dependencies(x, c))
             bs == {b \in Builds : b[1] = c /\ Wanting(created[b])}
             new == Enqueued(created, bs)
  <1>1. WithComparison(rows, x, c) = new
    BY DEF WithComparison, Wanting
  <1>2. IsTable(new)
    BY DEF Enqueued, IsTable
  <1>3. Dependencies(x, c) \in SUBSET Scans /\ c \notin Scans
    BY DependenciesAreScans, Pair
  <1>4. ASSUME NEW b \in Builds, b[1] # c PROVE base[b] = rows[b]
    <2>1. Inserted(rows, c, StatusFor(c))[b] = rows[b]
      BY <1>4, InsertedRow
    <2>2. QED
      BY <2>1
  <1>5. \A b \in Builds : IsProjection(b) => base[b] = build[b]
    BY <1>3, <1>4 DEF IsProjection
  <1> HIDE DEF base
  <1>6. ASSUME NEW b \in Builds
        PROVE  /\ b[1] \in Dependencies(x, c) => Reached(b, created[b])
               /\ b[1] \notin Dependencies(x, c) => created[b] = base[b]
    BY <1>3, <1>5, ProjectionsReached
  <1> HIDE DEF created
  <1>7. ASSUME NEW b \in Builds, b[1] # c PROVE Reached(b, new[b]) \/ new[b] = rows[b]
    <2>1. b \notin bs
      BY <1>7
    <2>2. new[b] = created[b]
      BY <2>1, EnqueuedRow
    <2>3. QED
      BY <2>2, <1>4, <1>6, <1>7
  <1>8. ASSUME NEW b \in Builds, b[1] = c PROVE Reached(b, new[b])
    <2>1. created[b] = base[b] /\ rows[b] = build[b]
      BY <1>3, <1>6, <1>8
    <2>2. b \in bs <=> Wanting(created[b])
      BY <1>8
    <2> HIDE DEF bs
    <2>3. /\ Wanting(created[b]) /\ created[b].job = "none" => new[b] = WithJob(created[b])
          /\ ~(Wanting(created[b]) /\ created[b].job = "none") => new[b] = created[b]
      BY <2>2, EnqueuedRow
    <2> HIDE DEF new
    <2>4. CASE Ready(c)
      <3>1. created[b] = build[b]
        BY <2>1, <2>4 DEF base
      <3>2. CASE Wanting(build[b]) /\ build[b].job = "none"
        <4>1. /\ new[b] = [build[b] EXCEPT !.job = "queued"] /\ build[b].status = "queued"
              /\ build[b].job = "none"
          BY <2>3, <3>1, <3>2 DEF WithJob, Wanting
        <4>2. QED
          BY <4>1 DEF Reached
      <3>3. CASE ~(Wanting(build[b]) /\ build[b].job = "none")
        BY <2>3, <3>1, <3>3 DEF Reached
      <3>4. QED
        BY <3>2, <3>3
    <2>5. CASE ~Ready(c)
      <3>1. /\ Creatable(b) => created[b] = NewRow(StatusFor(c))
            /\ ~Creatable(b) => created[b] = build[b]
        BY <2>1, <2>5, <1>8, InsertedRow DEF base
      <3>2. StatusFor(c) \in {"queued", "waiting"}
        BY DEF StatusFor
      <3>3. QED
        BY <2>3, <3>1, <3>2, QueuedReached
    <2>6. QED
      BY <2>4, <2>5
  <1> HIDE DEF new
  <1>9. QED
    BY <1>1, <1>2, <1>7, <1>8

\* The job at whose end this was done ends with it.
LEMMA EndedMoves ==
  ASSUME IInv, NEW x \in Processes, NEW rows, IsTable(rows), \A b \in Builds : Reached(b, rows[b]),
         proc[x].job \in Builds => rows[proc[x].job] = build[proc[x].job],
         build' = JobEnded(rows, x), current' = current, \A y \in Processes \ {x} : proc'[y] = proc[y]
  PROVE  OthersOK(x)'
  <1> DEFINE j == proc[x].job
  <1>1. CASE j \notin Builds
    <2>1. build' = rows
      BY <1>1 DEF JobEnded
    <2>2. \A b \in Builds : Move(x, b)
      BY <2>1, ReachedMove
    <2>3. DOMAIN build' = Builds /\ build' = [b \in Builds |-> build'[b]]
      BY <2>1 DEF IsTable
    <2>4. QED
      BY <2>2, <2>3, Moved
  <1>2. CASE j \in Builds
    <2>1. build' = [rows EXCEPT ![j].job = "ended"]
      BY <1>2 DEF JobEnded
    <2>2. build[j].job = "running" /\ Unheld(x, j) /\ rows[j] = build[j]
      BY <1>2, Parts0 DEF Shape, Unheld, OneHolder
    <2> HIDE DEF j
    <2>3. DOMAIN rows = Builds
      BY DEF IsTable
    <2>4. /\ DOMAIN build' = Builds /\ build' = [b \in Builds |-> build'[b]]
          /\ build'[j] = [build[j] EXCEPT !.job = "ended"]
          /\ \A b \in Builds \ {j} : build'[b] = rows[b]
      BY <1>2, <2>1, <2>2, <2>3
    <2>5. Move(x, j)
      BY <2>2, <2>4 DEF Move, Ending
    <2>6. \A b \in Builds : Move(x, b)
      BY <2>4, <2>5, ReachedMove
    <2>7. QED
      BY <2>4, <2>6, Moved
  <1>3. QED
    BY <1>1, <1>2

LEMMA ScanJobEndedTyped ==
  ASSUME IInv, NEW x \in Processes
  PROVE  ScanJobEnded(x) \in [Scans -> [status: {"running", "completed", "unsuccessful"},
                                        job: {"running", "ended", "interrupted"}]]
  <1>1. scan \in [Scans -> [status: {"running", "completed", "unsuccessful"},
                            job: {"running", "ended", "interrupted"}]]
    BY Parts0 DEF RestTyped
  <1>2. CASE proc[x].job \in Scans
    <2>1. ScanJobEnded(x) = [scan EXCEPT ![proc[x].job].job = "ended"]
      BY <1>2 DEF ScanJobEnded
    <2>2. QED
      BY <1>1, <1>2, <2>1
  <1>3. CASE proc[x].job \notin Scans
    BY <1>1, <1>3 DEF ScanJobEnded
  <1>4. QED
    BY <1>2, <1>3

\* A row that is running is not one that was created or given a job.
LEMMA RunningReached ==
  ASSUME IInv, NEW b \in Builds, NEW row, build[b].job = "running", IsProjection(b), Reached(b, row)
  PROVE  row = build[b]
  <1>1. ~(b \in Fresh(b[1]))
    BY Parts0, FreshOne, UnbuiltFields DEF RowOK
  <1>2. QED
    BY <1>1 DEF Reached

LEMMA EnqueueStep ==
  ASSUME IInv, NEW x \in Processes, Enqueue(x)
  PROVE  IInv'
  <1> DEFINE o == proc[x].owner
             b == proc[x].build
             mine == IF proc[x].status = "queued" THEN {b} ELSE {}
             rows == WithProjections(build, Dependencies(x, o))
             new == Enqueued(rows, mine)
  <1>1. /\ proc[x].pc = "enqueue" /\ build' = JobEnded(new, x) /\ scan' = ScanJobEnded(x)
        /\ proc' = [proc EXCEPT ![x] = Idle] /\ UNCHANGED <<current, known, missed, requests, faults>>
    BY DEF Enqueue, Become
  <1>2. b \in Builds /\ o = b[1] /\ build[b].status # "none"
    BY <1>1, Parts0 DEF Shape
  <1>3. Dependencies(x, o) \in SUBSET Scans /\ b[1] \notin Dependencies(x, o)
    BY <1>2, DependenciesAreScans, Pair
  <1>4. \A d \in Builds : /\ d[1] \in Dependencies(x, o) => Reached(d, rows[d])
                          /\ d[1] \notin Dependencies(x, o) => rows[d] = build[d]
    BY <1>3, ProjectionsReached
  <1>5. ExecOK(x)
    BY Parts0
  <1>6. \A y \in Processes \ {x} : proc'[y] = proc[y]
    BY <1>1, Parts0
  <1>7. mine = {} \/ (mine = {b} /\ proc[x].status = "queued")
    OBVIOUS
  <1> HIDE DEF rows, mine, b, o
  <1>8. ASSUME NEW d \in Builds PROVE Reached(d, new[d])
    <2>1. CASE d \in mine /\ rows[d].job = "none"
      <3>1. d = b /\ rows[d] = build[d] /\ new[d] = [build[d] EXCEPT !.job = "queued"] /\ build[d].job = "none"
        BY <1>3, <1>4, <1>7, <2>1, EnqueuedRow DEF WithJob
      <3>2. ~build[d].commanded => build[d].status = "queued"
        BY <1>1, <1>5, <1>7, <2>1, <3>1 DEF ExecOK, b
      <3>3. QED
        BY <1>2, <3>1, <3>2 DEF Reached
    <2>2. CASE ~(d \in mine /\ rows[d].job = "none")
      <3>1. new[d] = rows[d]
        BY <2>2, EnqueuedRow
      <3>2. QED
        BY <1>4, <3>1 DEF Reached
    <2>3. QED
      BY <2>1, <2>2
  <1>9. IsTable(new)
    BY DEF Enqueued, IsTable
  <1> HIDE DEF new
  <1>10. ASSUME NEW j, j = proc[x].job, j \in Builds PROVE new[j] = build[j]
    <2>1. build[j].job = "running"
      BY <1>10, Parts0 DEF Shape
    <2>2. CASE IsProjection(j)
      BY <1>8, <1>10, <2>1, <2>2, RunningReached
    <2>3. CASE ~IsProjection(j)
      <3>1. rows[j] = build[j]
        BY <1>3, <1>4, <1>10, <2>3 DEF IsProjection
      <3>2. new[j] = rows[j]
        BY <1>10, <2>1, <3>1, EnqueuedRow DEF new
      <3>3. QED
        BY <3>1, <3>2
    <2>4. QED
      BY <2>2, <2>3
  <1>11. OthersOK(x)'
    BY <1>1, <1>6, <1>8, <1>9, <1>10, EndedMoves
  <1>12. RestTyped'
    BY <1>1, Parts0, ScanJobEndedTyped DEF RestTyped
  <1>13. QED
    BY <1>1, <1>11, <1>12, Resting

LEMMA NewRowForm ==
  ASSUME NEW status \in {"queued", "waiting"}
  PROVE  NewRow(status) = [Unbuilt EXCEPT !.status = status, !.active = TRUE, !.job = "none"]
  <1>1. NewRow(status) \in BuildRows /\ NewRow(status).job = "none"
    BY UnbuiltTyped, UnbuiltFields DEF NewRow, BuildRows
  <1>2. [NewRow(status) EXCEPT !.job = "none"] = NewRow(status)
    BY <1>1 DEF BuildRows
  <1>3. [NewRow(status) EXCEPT !.job = "none"] = [Unbuilt EXCEPT !.status = status, !.active = TRUE, !.job = "none"]
    BY DEF NewRow
  <1>4. QED
    BY <1>2, <1>3

\* A process inserts a row, or finds its rival, and is at the build that is active then.
LEMMA InsertedStep ==
  ASSUME IInv, NEW x \in Processes, NEW r0 \in ProcRows, r0.job = proc[x].job,
         NEW o \in Owners, NEW status \in {"queued", "waiting"}, ActiveBuilds(o) # {} \/ Fresh(o) # {},
         build' = Inserted(build, o, status), current' = current,
         proc' = [proc EXCEPT ![x] = AtActive(r0, o)], RestTyped'
  PROVE  IInv'
  <1> DEFINE one == CHOOSE b \in Builds : b[1] = o /\ build'[b].active
  <1>1. current' = current /\ build' = Inserted(build, o, status)
    OBVIOUS
  <1>2. o \in Owners /\ status \in {"queued", "waiting"} /\ r0 \in ProcRows
    OBVIOUS
  <1>3. proc' = [proc EXCEPT ![x] = AtEnqueue(r0, o, one, build'[one].status)]
    BY DEF AtActive, AtEnqueue
  <1>4. \A y \in Processes \ {x} : proc'[y] = proc[y]
    BY <1>3, Parts0
  <1>5. \A d \in Builds : /\ d[1] = o /\ Creatable(d) => build'[d] = NewRow(status)
                          /\ d[1] # o \/ ~Creatable(d) => build'[d] = build[d]
    BY <1>1, InsertedRow
  <1>6. \A d \in Builds : Move(x, d)
    <2>1. SUFFICES ASSUME NEW d \in Builds, d[1] = o, Creatable(d) PROVE Move(x, d)
      BY <1>5 DEF Move
    <2>2. build'[d] = [Unbuilt EXCEPT !.status = status, !.active = TRUE, !.job = "none"]
      BY <1>2, <1>5, <2>1, NewRowForm
    <2>3. Beginning(d)
      BY <1>2, <2>1, <2>2 DEF Beginning, Creatable
    <2>4. QED
      BY <2>3 DEF Move
  <1>7. DOMAIN build' = Builds /\ build' = [d \in Builds |-> build'[d]]
    BY <1>1 DEF Inserted
  <1>8. OthersOK(x)'
    BY <1>1, <1>4, <1>6, <1>7, Moved
  <1>9. \E d \in Builds : d[1] = o /\ build'[d].active
    <2>1. CASE ActiveBuilds(o) # {}
      <3>1. PICK d \in Builds : d[1] = o /\ build[d].active
        BY <2>1 DEF ActiveBuilds
      <3>2. ~Creatable(d)
        BY <3>1 DEF Creatable, ActiveBuilds
      <3>3. QED
        BY <1>5, <3>1, <3>2
    <2>2. CASE ActiveBuilds(o) = {} /\ Fresh(o) # {}
      <3>1. PICK d \in Builds : d[1] = o /\ d \in Fresh(o)
        BY <2>2 DEF Fresh
      <3>2. build'[d] = NewRow(status)
        BY <1>5, <2>2, <3>1 DEF Creatable
      <3>3. QED
        BY <3>1, <3>2, UnbuiltTyped DEF NewRow, BuildRows
    <2>3. QED
      BY <2>1, <2>2
  <1>10. PICK b \in Builds : b = one /\ b[1] = o /\ build'[b].active
    BY <1>9
  <1> HIDE DEF one
  <1> DEFINE r == AtEnqueue(r0, o, b, build'[b].status)
  <1>11. build'[b] \in BuildRows /\ RowOK(b)' /\ CalmOK(b)'
    BY <1>8, <1>10 DEF OthersOK
  <1>12. build'[b].status # "none" /\ build'[b].status \in Statuses
    BY <1>10, <1>11, UnbuiltFields, BuildFields DEF RowOK
  <1>13. r \in ProcRows /\ r.job = proc[x].job /\ r.pc = "enqueue" /\ r.owner = o /\ r.build = b
         /\ r.status = build'[b].status
    BY <1>2, <1>10, <1>12, ToEnqueue
  <1>14. proc' = [proc EXCEPT ![x] = r] /\ proc'[x] = r
    BY <1>3, <1>10, Parts0
  <1>15. build'[b].job = "none" => build'[b].status \in ActiveStatuses /\ ~build'[b].withdrawn
    BY <1>10, <1>11 DEF CalmOK, Calm, Lost, Shared, RowOK
  <1>16. proc[x].job \in Builds => x \in Workers /\ build'[proc[x].job].job = "running"
    <2>1. SUFFICES ASSUME proc[x].job \in Builds PROVE x \in Workers /\ build'[proc[x].job].job = "running"
      OBVIOUS
    <2>2. x \in Workers /\ build[proc[x].job].job = "running"
      BY <2>1, Parts0 DEF Shape
    <2>3. ~Creatable(proc[x].job)
      BY <2>1, <2>2, Parts0, FreshOne, UnbuiltFields DEF Creatable, RowOK
    <2>4. QED
      BY <1>5, <2>1, <2>2, <2>3
  <1>17. x \notin Workers => proc[x].job = None
    BY Parts0 DEF Shape
  <1> HIDE DEF r
  <1>18. Shape(x)'
    BY <1>10, <1>12, <1>13, <1>14, <1>16, <1>17 DEF Shape, Executing, AtWork, Filling
  <1>19. ExecOK(x)'
    BY <1>13, <1>14, <1>15 DEF ExecOK, AtWork, Filling
  <1>20. QED
    BY <1>8, <1>13, <1>14, <1>18, <1>19, Together

LEMMA InsertStep ==
  ASSUME IInv, NEW x \in Processes, Insert(x)
  PROVE  IInv'
  <1> DEFINE o == proc[x].owner
             status == proc[x].status
  <1>1. /\ proc[x].pc = "insert" /\ (ActiveBuilds(o) # {} \/ Fresh(o) # {})
        /\ build' = Inserted(build, o, status) /\ UNCHANGED <<scan, current, known, requests, faults>>
        /\ proc' = [proc EXCEPT ![x] = AtActive(proc[x], o)]
    BY DEF Insert, Become
  <1>2. o \in Owners /\ status \in {"queued", "waiting"} /\ proc[x] \in ProcRows
    BY <1>1, Parts0, ProcFields DEF Shape
  <1>3. RestTyped'
    BY <1>1, Parts0 DEF RestTyped, Insert
  <1>4. QED
    BY <1>1, <1>2, <1>3, InsertedStep

LEMMA AdjacentIs ==
  ASSUME NEW s
  PROVE  Adjacent(s) \in SUBSET Comparisons
  BY PipelineAssumption DEF Adjacent

\* A new comparison with what it needs, in one commit.
LEMMA CreateOthers ==
  ASSUME IInv, NEW x \in Processes, NEW rows, IsTable(rows), \A b \in Builds : Reached(b, rows[b]),
         NEW c \in Comparisons, \A b \in Builds : IsProjection(b) \/ b[1] = c => rows[b] = build[b],
         proc[x].job \in Builds => IsProjection(proc[x].job),
         build' = JobEnded(WithComparison(rows, x, c), x), current' = current,
         \A y \in Processes \ {x} : proc'[y] = proc[y]
  PROVE  OthersOK(x)'
  <1> DEFINE new == WithComparison(rows, x, c)
  <1>1. IsTable(new) /\ \A b \in Builds : Reached(b, new[b]) \/ new[b] = rows[b]
    BY ComparisonReached
  <1> HIDE DEF new
  <1>2. \A b \in Builds : Reached(b, new[b])
    BY <1>1
  <1>3. ASSUME NEW j, j = proc[x].job, j \in Builds PROVE new[j] = build[j]
    BY <1>2, <1>3, Parts0, RunningReached DEF Shape
  <1>4. build' = JobEnded(new, x)
    BY DEF new
  <1>5. QED
    BY <1>1, <1>2, <1>3, <1>4, EndedMoves

LEMMA BuildTable ==
  ASSUME IInv
  PROVE  IsTable(build) /\ \A b \in Builds : Reached(b, build[b])
  BY Parts0 DEF IsTable, Reached

LEMMA AskStep ==
  ASSUME IInv, NEW x \in Processes, NEW o \in Owners, NEW force \in BOOLEAN, Ask(x, o, force)
  PROVE  IInv'
  <1>1. /\ proc[x] = Idle /\ requests < MaxRequests /\ requests' = requests + 1
        /\ UNCHANGED <<scan, current, missed, faults>>
    BY DEF Ask
  <1>2. proc[x].job = None /\ None \notin Builds
    BY <1>1, IdleTyped, PipelineAssumption
  <1>3. requests' \in 0..MaxRequests
    BY <1>1, Parts0, PipelineAssumption DEF RestTyped
  <1>4. CASE o \in Comparisons /\ CreateComparison(x, o) /\ UNCHANGED proc
    <2>1. known' = known \cup {o} /\ build' = JobEnded(WithComparison(build, x, o), x)
      BY <1>4 DEF CreateComparison
    <2>2. OthersOK(x)'
      BY <1>1, <1>2, <1>4, <2>1, BuildTable, CreateOthers
    <2>3. RestTyped'
      BY <1>1, <1>3, <1>4, <2>1, Parts0 DEF RestTyped
    <2>4. proc' = [proc EXCEPT ![x] = Idle]
      BY <1>1, <1>4, Parts0
    <2>5. QED
      BY <2>2, <2>3, <2>4, Resting
  <1>5. CASE proc' = [proc EXCEPT ![x] = Looked(Idle, o, force)] /\ UNCHANGED <<known, build>>
    <2> DEFINE r == Looked(Idle, o, force)
    <2>1. proc'[x] = r /\ \A y \in Processes \ {x} : proc'[y] = proc[y]
      BY <1>5, Parts0
    <2>2. r \in ProcRows /\ r.job = None /\ Shape(x)' /\ ExecOK(x)'
      BY <1>1, <1>2, <1>5, <2>1, IdleTyped, LookedOK
    <2>3. OthersOK(x)'
      BY <1>1, <1>5, <2>1, Still
    <2>4. RestTyped'
      BY <1>1, <1>3, <1>5, Parts0 DEF RestTyped
    <2> HIDE DEF r
    <2>5. QED
      BY <1>2, <1>5, <2>2, <2>3, <2>4, Together DEF r
  <1>6. CASE /\ o \in Comparisons /\ Fresh(o) # {} /\ known' = known \cup {o}
             /\ build' = Inserted(build, o, "queued") /\ proc' = [proc EXCEPT ![x] = AtActive(Idle, o)]
    <2>1. RestTyped'
      BY <1>1, <1>3, <1>6, Parts0 DEF RestTyped
    <2>2. Idle \in ProcRows /\ Idle.job = proc[x].job
      BY <1>1, IdleTyped
    <2>3. "queued" \in {"queued", "waiting"} /\ current' = current
      BY <1>1
    <2>4. QED
      BY <1>6, <2>1, <2>2, <2>3, InsertedStep
  <1>7. QED
    BY <1>4, <1>5, <1>6 DEF Ask, Become

\* The waiting builds that a settlement writes.
LEMMA WokenReached ==
  ASSUME IInv, NEW x \in Processes, proc[x].pc = "settle"
  PROVE  /\ IsTable(Woken(x))
         /\ \A b \in Builds : Reached(b, Woken(x)[b])
         /\ \A b \in Builds : b \notin proc[x].wake => Woken(x)[b] = build[b]
         /\ \A b \in proc[x].wake : ~IsProjection(b) /\ b \in Builds
  <1> DEFINE wake == proc[x].wake
             written == [b \in Builds |-> IF b \in wake
                                          THEN [build[b] EXCEPT !.status = "queued",
                                                                !.overwritten = @ \/ build[b].status # "waiting"]
                                          ELSE build[b]]
  <1>1. Woken(x) = Enqueued(written, wake)
    BY DEF Woken
  <1>2. \A b \in wake : b \in Builds /\ ~IsProjection(b) /\ build[b].status # "none"
    BY Parts0, ProcFields DEF Shape
  <1>3. ASSUME NEW b \in Builds, b \notin wake PROVE Woken(x)[b] = build[b]
    <2>1. written[b] = build[b]
      BY <1>3
    <2> HIDE DEF written
    <2>2. QED
      BY <1>1, <1>3, <2>1, EnqueuedRow
  <1>4. ASSUME NEW b \in Builds, b \in wake PROVE Reached(b, Woken(x)[b])
    <2> DEFINE row == [build[b] EXCEPT !.status = "queued", !.overwritten = @ \/ build[b].status # "waiting"]
    <2>1. written[b] = row
      BY <1>4
    <2> HIDE DEF written
    <2>2. build[b] \in BuildRows /\ row.job = build[b].job
      BY Parts0 DEF BuildRows
    <2>3. [row EXCEPT !.job = IF build[b].job = "none" THEN "queued" ELSE build[b].job]
            = [build[b] EXCEPT !.status = "queued", !.overwritten = @ \/ build[b].status # "waiting",
                               !.job = IF @ = "none" THEN "queued" ELSE @]
      BY <2>2 DEF BuildRows
    <2>4. Woken(x)[b] = [row EXCEPT !.job = IF build[b].job = "none" THEN "queued" ELSE build[b].job]
      <3>1. row \in BuildRows
        BY <2>2, BuildFields DEF BuildRows
      <3> HIDE DEF row
      <3>2. CASE row.job = "none"
        <4>1. Woken(x)[b] = [row EXCEPT !.job = "queued"]
          BY <1>1, <1>4, <2>1, <3>2, EnqueuedRow DEF WithJob
        <4>2. QED
          BY <2>2, <3>2, <4>1
      <3>3. CASE row.job # "none"
        <4>1. Woken(x)[b] = row
          BY <1>1, <2>1, <3>3, EnqueuedRow
        <4>2. [row EXCEPT !.job = row.job] = row
          BY <3>1 DEF BuildRows
        <4>3. QED
          BY <2>2, <3>3, <4>1, <4>2
      <3>4. QED
        BY <3>2, <3>3
    <2> HIDE DEF row
    <2>5. QED
      BY <1>2, <1>4, <2>3, <2>4 DEF Reached
  <1>5. IsTable(Woken(x))
    BY <1>1 DEF Enqueued, IsTable
  <1>6. \A b \in Builds : Reached(b, Woken(x)[b])
    BY <1>3, <1>4 DEF Reached
  <1>7. QED
    BY <1>2, <1>3, <1>5, <1>6

LEMMA SettleWokenStep ==
  ASSUME IInv, NEW x \in Processes, SettleWoken(x)
  PROVE  IInv'
  <1> DEFINE cs == Adjacent(proc[x].job[1]) \ {b[1] : b \in proc[x].wake}
             rows == Woken(x)
  <1>1. /\ proc[x].pc = "settle" /\ known' = known \cup cs /\ proc' = [proc EXCEPT ![x] = Idle]
        /\ build' = JobEnded(IF cs = {} THEN rows ELSE WithComparison(rows, x, CHOOSE c \in cs : TRUE), x)
        /\ UNCHANGED <<scan, current, missed, requests, faults>>
    BY DEF SettleWoken, Become
  <1>2. cs \in SUBSET Comparisons
    BY AdjacentIs
  <1>3. /\ IsTable(rows) /\ \A b \in Builds : Reached(b, rows[b])
        /\ \A b \in Builds : b \notin proc[x].wake => rows[b] = build[b]
        /\ \A b \in proc[x].wake : ~IsProjection(b) /\ b \in Builds
    BY <1>1, WokenReached
  <1>4. proc[x].job \in Builds /\ IsProjection(proc[x].job)
    BY <1>1, Parts0 DEF Shape
  <1>5. \A y \in Processes \ {x} : proc'[y] = proc[y]
    BY <1>1, Parts0
  <1>6. RestTyped'
    BY <1>1, <1>2, Parts0 DEF RestTyped
  <1> HIDE DEF rows
  <1>7. OthersOK(x)'
    <2>1. CASE cs = {}
      <3>1. rows[proc[x].job] = build[proc[x].job] /\ build' = JobEnded(rows, x)
        BY <1>1, <1>3, <1>4, <2>1
      <3>2. QED
        BY <1>1, <1>3, <1>5, <3>1, EndedMoves
    <2>2. CASE cs # {}
      <3>1. PICK c \in Comparisons : c \in cs /\ build' = JobEnded(WithComparison(rows, x, c), x)
        BY <1>1, <1>2, <2>2
      <3>2. \A b \in Builds : IsProjection(b) \/ b[1] = c => rows[b] = build[b]
        BY <1>3, <3>1
      <3> HIDE DEF cs
      <3>3. QED
        BY <1>1, <1>3, <1>4, <1>5, <3>1, <3>2, CreateOthers
    <2>3. QED
      BY <2>1, <2>2
  <1>8. QED
    BY <1>1, <1>6, <1>7, Resting

LEMMA SettleAdjacentStep ==
  ASSUME IInv, NEW x \in Processes, SettleAdjacent(x)
  PROVE  IInv'
  <1>1. proc[x].pc = "settle" /\ UNCHANGED <<scan, current, missed, requests, faults>>
    BY DEF SettleAdjacent
  <1>2. proc[x].job \in Builds /\ IsProjection(proc[x].job) /\ proc[x] \in ProcRows
    BY <1>1, Parts0, ProcFields DEF Shape
  <1>3. CASE build' = JobEnded(build, x) /\ proc' = [proc EXCEPT ![x] = Idle] /\ UNCHANGED known
    <2>1. \A y \in Processes \ {x} : proc'[y] = proc[y]
      BY <1>3, Parts0
    <2>2. OthersOK(x)'
      BY <1>1, <1>3, <2>1, BuildTable, EndedMoves
    <2>3. RestTyped'
      BY <1>1, <1>3, Parts0 DEF RestTyped
    <2>4. QED
      BY <1>3, <2>2, <2>3, Resting
  <1>4. ASSUME NEW c \in Comparisons, CreateComparison(x, c), proc' = [proc EXCEPT ![x] = Idle] PROVE IInv'
    <2>1. known' = known \cup {c} /\ build' = JobEnded(WithComparison(build, x, c), x)
      BY <1>4 DEF CreateComparison
    <2>2. \A y \in Processes \ {x} : proc'[y] = proc[y]
      BY <1>4, Parts0
    <2>3. OthersOK(x)'
      BY <1>1, <1>2, <2>1, <2>2, BuildTable, CreateOthers
    <2>4. RestTyped'
      BY <1>1, <2>1, Parts0 DEF RestTyped
    <2>5. QED
      BY <1>4, <2>3, <2>4, Resting
  <1>5. ASSUME NEW c \in Comparisons, proc' = [proc EXCEPT ![x] = Looked(proc[x], c, FALSE)], UNCHANGED <<build, known>>
        PROVE  IInv'
    <2> DEFINE r == Looked(proc[x], c, FALSE)
    <2>1. proc'[x] = r /\ \A y \in Processes \ {x} : proc'[y] = proc[y]
      BY <1>5, Parts0
    <2>2. c \in Owners /\ build' = build /\ current' = current
      BY <1>1, <1>5, Pair
    <2>3. r \in ProcRows /\ r.job = proc[x].job /\ Shape(x)' /\ ExecOK(x)'
      BY <1>2, <2>1, <2>2, LookedOK
    <2>4. OthersOK(x)'
      BY <1>1, <1>5, <2>1, Still
    <2>5. RestTyped'
      BY <1>1, <1>5, Parts0 DEF RestTyped
    <2> HIDE DEF r
    <2>6. QED
      BY <1>5, <2>3, <2>4, <2>5, Together DEF r
  <1>6. QED
    BY <1>3, <1>4, <1>5, AdjacentIs DEF SettleAdjacent, Become

-----------------------------------------------------------------------------
(***************************************************************************)
(* Steps of executions.  x is at b, and what it does to b is for the       *)
(* theorems of each step; here is why nobody else notices.                 *)
(***************************************************************************)

Begun == {"start", "pin"} \cup AtWork

LEMMA Workplace ==
  ASSUME IInv, NEW x \in Processes, proc[x].pc \in Begun, NEW b, b = proc[x].build
  PROVE  /\ b \in Builds /\ build[b].status # "none" /\ x \notin Clients
         /\ x # Cli => x \in Workers /\ proc[x].job = b /\ build[b].job = "running"
         /\ Calm(b) /\ (x = Cli => build[b].job = "none") =>
              build[b].status \in ActiveStatuses /\ current[b[1]] # b
  <1>1. proc[x].pc \in Executing
    BY DEF Begun, Executing
  <1>2. /\ b \in Builds /\ build[b].status # "none" /\ x \notin Clients
        /\ x # Cli => x \in Workers /\ proc[x].job = b /\ build[b].job = "running"
    BY <1>1, Parts0, Actors DEF Shape
  <1>4. ASSUME Calm(b), x = Cli => build[b].job = "none"
        PROVE  build[b].status \in ActiveStatuses
    <2>1. CASE proc[x].pc \in {"start", "pin"}
      BY <1>4, <2>1, Parts0 DEF ExecOK, ActiveStatuses
    <2>2. CASE proc[x].pc \in AtWork
      <3>1. build[b].status = "building"
        BY <1>4, <2>2, Parts0 DEF ExecOK
      <3>2. QED
        BY <3>1 DEF ActiveStatuses
    <2>3. QED
      BY <2>1, <2>2 DEF Begun
  <1>5. Calm(b) /\ build[b].status \in ActiveStatuses => current[b[1]] # b
    BY <1>2, Parts0 DEF CalmOK, ActiveStatuses
  <1>6. QED
    BY <1>2, <1>4, <1>5

\* The same of one that has activated its build.
LEMMA Seat ==
  ASSUME IInv, NEW x \in Processes, proc[x].pc \in Begun \cup {"published"}, NEW b, b = proc[x].build
  PROVE  /\ b \in Builds /\ build[b] \in BuildRows /\ build[b].status # "none" /\ proc[x] \in ProcRows
         /\ x \notin Clients
         /\ x # Cli => x \in Workers /\ proc[x].job = b /\ build[b].job = "running"
  <1>1. proc[x].pc \in Executing
    BY DEF Begun, Executing
  <1>2. QED
    BY <1>1, Parts0, Actors DEF Shape

\* What the steps of executions have in common: row is what becomes of b.
Worked(x, b, row) ==
  /\ DOMAIN build' = Builds /\ build' = [d \in Builds |-> build'[d]] /\ build'[b] = row
  /\ \A d \in Builds \ {b} :
       \/ build'[d] = build[d]
       \/ (Calm(d) => build[d].status = "ready") /\ build'[d] = [build[d] EXCEPT !.status = "superseded"]
  /\ \A d \in Builds \ {b} : Calm(d) => (build'[d].status = "ready" <=> current'[d[1]] = d)
  /\ \A y \in Processes \ {x} : proc'[y] = proc[y]
  /\ row.job = build[b].job /\ row.overwritten = build[b].overwritten /\ row.withdrawn = build[b].withdrawn
  /\ build[b].commanded \/ x = Cli => row.commanded
  /\ row.active => build[b].active
  /\ row.status # "none"
  /\ row.pins = build[b].pins \/ (~IsProjection(b) /\ PinsFit(b[1], row.pins))

LEMMA SupersededRow ==
  ASSUME NEW r \in BuildRows, NEW s, s = [r EXCEPT !.status = "superseded"]
  PROVE  /\ s \in BuildRows /\ s.status = "superseded" /\ s.active = r.active /\ s.rows = r.rows
         /\ s.commanded = r.commanded /\ s.overwritten = r.overwritten
         /\ s.withdrawn = r.withdrawn /\ s.result = r.result
         /\ s.pins = r.pins /\ s.job = r.job
  BY DEF BuildRows

LEMMA OthersRow ==
  ASSUME IInv, NEW x, NEW b, NEW row, Worked(x, b, row), NEW d \in Builds \ {b}
  PROVE  /\ build'[d] \in BuildRows /\ build'[d].active = build[d].active /\ build'[d].rows = build[d].rows
         /\ build'[d].commanded = build[d].commanded /\ build'[d].overwritten = build[d].overwritten
         /\ build'[d].withdrawn = build[d].withdrawn
         /\ build'[d].result = build[d].result /\ build'[d].pins = build[d].pins /\ build'[d].job = build[d].job
         /\ \/ build'[d] = build[d]
            \/ (Calm(d) => build[d].status = "ready") /\ build'[d].status = "superseded"
  <1>1. build[d] \in BuildRows
    BY Parts0
  <1>2. build'[d] = build[d] \/ ((Calm(d) => build[d].status = "ready") /\ build'[d] = [build[d] EXCEPT !.status = "superseded"])
    BY DEF Worked
  <1>3. QED
    BY <1>1, <1>2, SupersededRow

LEMMA WorkedOnward ==
  ASSUME IInv, NEW x \in Processes, proc[x].pc \in Begun, NEW b, b = proc[x].build, NEW row, Worked(x, b, row)
  PROVE  Onward
  <1>1. b \in Builds
    BY Workplace
  <1>2. Lost(b) => Lost(b)'
    BY DEF Worked, Lost, Shared
  <1>3. ASSUME IsProjection(b), build[b].status \in Settled PROVE Lost(b)'
    <2>1. ~build[b].overwritten /\ build[b].status \notin ActiveStatuses
      BY <1>1, <1>3, Parts0 DEF RowOK, ActiveStatuses, Settled
    <2>2. CASE x = Cli /\ build[b].job # "none"
      BY <2>2 DEF Worked, Lost, Shared
    <2>3. CASE ~(x = Cli /\ build[b].job # "none")
      <3>1. ~Calm(b)
        BY <2>1, <2>3, Workplace
      <3>2. Lost(b)
        BY <2>1, <3>1 DEF Calm
      <3>3. QED
        BY <1>2, <3>2
    <2>4. QED
      BY <2>2, <2>3
  <1>4. ASSUME NEW d \in Builds, d # b
        PROVE  /\ Lost(d) => Lost(d)'
               /\ build[d].overwritten => build'[d].overwritten
               /\ build[d].status \in Settled => build'[d].status \in Settled
    BY <1>4, OthersRow DEF Lost, Shared, Settled
  <1>5. (build[b].overwritten => build'[b].overwritten) /\ (build[b].withdrawn => build'[b].withdrawn)
    BY DEF Worked
  <1>6. ASSUME NEW d \in Builds
        PROVE  /\ Lost(d) => Lost(d)'
               /\ (build[d].overwritten => build'[d].overwritten) /\ (build[d].withdrawn => build'[d].withdrawn)
               /\ IsProjection(d) /\ build[d].status \in Settled => Lost(d)' \/ build'[d].status \in Settled
    <2>1. CASE d = b
      BY <1>2, <1>3, <1>5, <2>1
    <2>2. CASE d # b
      BY <1>4, <2>2, OthersRow
    <2>3. QED
      BY <2>1, <2>2
  <1>7. QED
    BY <1>6 DEF Onward

\* Two processes at one build are a command and the worker that has its job.
LEMMA Company ==
  ASSUME IInv, NEW x \in Processes, proc[x].pc \in Begun, NEW b, b = proc[x].build,
         NEW y \in Processes, y # x, proc[y].pc \in Begun, proc[y].build = b
  PROVE  (x = Cli /\ y # Cli) \/ (x # Cli /\ y = Cli)
  BY Workplace, Parts0 DEF OneHolder

LEMMA WorkedExec ==
  ASSUME IInv, NEW x \in Processes, proc[x].pc \in Begun, NEW b, b = proc[x].build, NEW row, Worked(x, b, row),
         Onward, NEW y \in Processes, y # x
  PROVE  ExecOK(y)'
  <1>1. proc'[y] = proc[y] /\ ExecOK(y) /\ Structure
    BY Parts0 DEF Worked
  <1>2. CASE proc[y].pc \notin {"enqueue"} \cup Executing
    BY <1>1, <1>2, IdleOK
  <1>3. CASE proc[y].pc \in {"enqueue"} \cup Executing
    <2>1. PICK d \in Builds : d = proc[y].build
      BY <1>1, <1>3, AtBuild
    <2>2. CASE d # b
      <3>1. /\ build'[d].rows = build[d].rows /\ build'[d].commanded = build[d].commanded
            /\ build'[d].result = build[d].result /\ build'[d].pins = build[d].pins /\ build'[d].job = build[d].job
            /\ build'[d] = build[d] \/ ((Calm(d) => build[d].status = "ready") /\ build'[d].status = "superseded")
        BY <2>2, OthersRow
      <3>2. build'[d].job = "none" => \/ build'[d] = build[d] \/ (y # Cli /\ build'[d].commanded)
                                      \/ /\ build[d].status = "ready" \/ (build[d].withdrawn /\ build[d].commanded)
                                         /\ build[d].job = "none" /\ build'[d].commanded = build[d].commanded
        BY <3>1, Parts0 DEF RowOK, Calm, Lost, Shared
      <3>3. y # Cli /\ proc[y].pc \in {"start", "pin"} /\ Calm(d)' =>
              build'[d].status = "queued" \/ (Calm(d) /\ build'[d].status = build[d].status)
        BY <1>1, <2>1, <3>1, CalmBack DEF ExecOK
      <3>4. proc[y].pc \in AtWork /\ Calm(d)' => build'[d].status = build[d].status
        BY <1>1, <2>1, <3>1, CalmBack DEF ExecOK
      <3>5. QED
        BY <1>1, <2>1, <3>1, <3>2, <3>3, <3>4, ExecKept
    <2>3. CASE d = b
      <3>1. /\ row.job = build[b].job /\ build'[b] = row
            /\ build[b].commanded \/ x = Cli => row.commanded
        BY DEF Worked
      <3>2. x # Cli => build[b].job = "running"
        BY Workplace
      <3>3. build'[b].job = "none" => y # Cli /\ build'[b].commanded
        BY <3>1, <3>2
      <3>4. proc[y].pc \in AtWork \/ (y # Cli /\ proc[y].pc \in {"start", "pin"}) => ~Calm(b)'
        <4>1. SUFFICES ASSUME proc[y].pc \in Begun, y # Cli \/ proc[y].pc \in AtWork PROVE Lost(b)'
          BY DEF Calm, Begun
        <4>2. (x = Cli /\ y # Cli) \/ (x # Cli /\ y = Cli)
          BY <2>1, <2>3, <4>1, Company
        <4>3. CASE x = Cli /\ y # Cli
          <5>1. build[b].job = "running"
            BY <2>1, <2>3, <4>1, <4>3, Workplace
          <5>2. QED
            BY <3>1, <4>3, <5>1 DEF Lost, Shared
        <4>4. CASE x # Cli /\ y = Cli /\ proc[y].pc \in AtWork
          BY <1>1, <2>1, <2>3, <3>1, <3>2, <4>4 DEF ExecOK, Lost, Shared
        <4>5. QED
          BY <4>1, <4>2, <4>3, <4>4
      <3>5. QED
        BY <1>1, <2>1, <2>3, <3>1, <3>3, <3>4, ExecKept
    <2>4. QED
      BY <2>2, <2>3
  <1>4. QED
    BY <1>2, <1>3

\* What is left to show of a step of an execution: its build, and itself.
LEMMA Executed ==
  ASSUME IInv, NEW x \in Processes, proc[x].pc \in Begun, NEW b, b = proc[x].build,
         NEW row \in BuildRows, Worked(x, b, row), Onward => CalmOK(b)'
  PROVE  Onward /\ OthersOK(x)'
  <1>1. Onward /\ b \in Builds
    BY WorkedOnward, Workplace
  <1>a. /\ build' = [d \in Builds |-> build'[d]] /\ build'[b] = row /\ row.job = build[b].job
        /\ row.active => build[b].active
        /\ row.status # "none"
    BY DEF Worked
  <1>b. ASSUME NEW d \in Builds
        PROVE  /\ build'[d] \in BuildRows /\ build'[d].job = build[d].job
               /\ build'[d].active => build[d].active
               /\ build[d].status # "none" => build'[d].status # "none"
    <2>1. CASE d = b
      BY <1>a, <2>1
    <2>2. CASE d # b
      <3>1. d \in Builds \ {b}
        BY <2>2
      <3>2. QED
        BY <3>1, OthersRow
    <2>3. QED
      BY <2>1, <2>2
  <1>2. build' \in [Builds -> BuildRows]
    BY <1>a, <1>b
  <1>3. OneActive'
    BY <1>b, Parts0 DEF OneActive
  <1>4. ASSUME NEW d \in Builds PROVE RowOK(d)' /\ CalmOK(d)'
    <2>1. CASE d = b
      <3>1. RowOK(b)'
        BY <1>1, Parts0 DEF Worked, RowOK, PinsFit, IsProjection
      <3>2. QED
        BY <1>1, <2>1, <3>1
    <2>2. CASE d # b
      <3>1. /\ build'[d].active = build[d].active /\ build'[d].rows = build[d].rows
            /\ build'[d].commanded = build[d].commanded /\ build'[d].overwritten = build[d].overwritten
            /\ build'[d].withdrawn = build[d].withdrawn
            /\ build'[d].result = build[d].result /\ build'[d].pins = build[d].pins
            /\ build'[d].job = build[d].job
            /\ build'[d] = build[d] \/ ((Calm(d) => build[d].status = "ready") /\ build'[d].status = "superseded")
        BY <2>2, OthersRow
      <3>2. RowOK(d) /\ CalmOK(d)
        BY Parts0
      <3>3. RowOK(d)'
        BY <3>1, <3>2 DEF RowOK, PinsFit, IsProjection
      <3>4. SUFFICES ASSUME Calm(d)' PROVE CalmOK(d)'
        BY <3>3 DEF CalmOK
      <3>5. Calm(d)
        BY <1>1, <3>4, CalmBack
      <3>6. build'[d].status = "ready" <=> current'[d[1]] = d
        BY <2>2, <3>5 DEF Worked
      <3>7. build'[d].pins # <<>> => /\ PinsThere(build[d].pins)'
                                     /\ PinsSound(build[d].pins)' => PinsSound(build[d].pins)
        BY <1>1, <3>1, <3>2, <3>5, PinsOf, PinsOnward DEF CalmOK
      <3>8. AllDone(d) => AllDone(d)'
        BY <3>1 DEF AllDone, PagesDone, EdgesDone, CountsDone
      <3>9. /\ build'[d].active => build'[d].status \in ActiveStatuses
            /\ build'[d].status \in Settled => build'[d].rows = AllParts /\ ~build'[d].active
            /\ build'[d].status \in {"failed", "cancelled"} /\ IsProjection(d) => build'[d].rows = {}
            /\ ~build'[d].commanded /\ build'[d].job = "none" => build'[d].status \in {"none", "queued", "waiting"}
            /\ ~build'[d].commanded /\ build'[d].job = "queued" => build'[d].status = "queued"
        BY <3>1, <3>2, <3>5 DEF CalmOK, Settled, ActiveStatuses
      <3>10. build'[d].status \in Settled /\ ~IsProjection(d) =>
               build'[d].pins # <<>> /\ (PinsSound(build[d].pins)' => AllDone(d)')
        BY <3>1, <3>2, <3>5, <3>7, <3>8 DEF CalmOK, Settled
      <3>11. QED
        BY <3>6, <3>7, <3>9, <3>10 DEF CalmOK
    <2>3. QED
      BY <2>1, <2>2
  <1>5. ASSUME NEW y \in Processes \ {x} PROVE Shape(y)' /\ ExecOK(y)'
    <2>1. proc'[y] = proc[y]
      BY DEF Worked
    <2>2. proc[y].job \in Builds => build'[proc[y].job].job = "running"
      <3>1. proc[y].job \in Builds => build[proc[y].job].job = "running"
        BY Parts0 DEF Shape
      <3>2. QED
        BY <1>b, <3>1
    <2>3. \A d \in Builds : build[d].status # "none" => /\ build'[d].status # "none"
                                                        /\ build'[d].active => build[d].active
      BY <1>b
    <2>4. Shape(y)'
      BY <2>1, <2>2, <2>3, Parts0, ShapeKept
    <2>5. ExecOK(y)'
      BY <1>1, WorkedExec
    <2>6. QED
      BY <2>4, <2>5
  <1>6. QED
    BY <1>1, <1>2, <1>3, <1>4, <1>5 DEF OthersOK

\* A step that touches no other build and no pointer.
LEMMA WorkedAlone ==
  ASSUME IInv, NEW x \in Processes, proc[x].pc \in Begun, NEW b, b = proc[x].build, NEW row,
         build' = [build EXCEPT ![b] = row], current' = current, \A y \in Processes \ {x} : proc'[y] = proc[y],
         row.job = build[b].job, row.overwritten = build[b].overwritten, row.withdrawn = build[b].withdrawn,
         build[b].commanded \/ x = Cli => row.commanded,
         row.active => build[b].active, row.status # "none",
         row.pins = build[b].pins \/ (~IsProjection(b) /\ PinsFit(b[1], row.pins))
  PROVE  Worked(x, b, row)
  <1>1. b \in Builds
    BY Workplace
  <1>2. /\ DOMAIN build' = Builds /\ build' = [d \in Builds |-> build'[d]] /\ build'[b] = row
        /\ \A d \in Builds \ {b} : build'[d] = build[d]
    BY <1>1, Parts0
  <1>3. \A d \in Builds \ {b} : Calm(d) => (build'[d].status = "ready" <=> current'[d[1]] = d)
    BY <1>2, Parts0 DEF CalmOK
  <1>4. QED
    BY <1>2, <1>3 DEF Worked

\* A build that is being worked on, or has just failed.
BusyRow(b, row) ==
  Calm(b) =>
    /\ row.status \notin Settled /\ (row.active => row.status \in ActiveStatuses)
    /\ row.status \in {"failed", "cancelled"} /\ IsProjection(b) => row.rows = {}
    /\ row.pins # <<>> => PinsThere(row.pins)

LEMMA BusyCalm ==
  ASSUME IInv, NEW x \in Processes, proc[x].pc \in Begun, NEW b, b = proc[x].build,
         NEW row, Worked(x, b, row), Onward, current' = current,
         BusyRow(b, row)
  PROVE  CalmOK(b)'
  <1>1. SUFFICES ASSUME Calm(b)' PROVE CalmOK(b)'
    BY DEF CalmOK
  <1>2. b \in Builds /\ Calm(b)
    BY <1>1, Workplace, CalmBack
  <1>3. build'[b] = row /\ row.job = build[b].job /\ (x = Cli => row.commanded)
    BY DEF Worked
  <1>4. x = Cli => build[b].job = "none"
    BY <1>1, <1>3 DEF Calm, Lost, Shared
  <1>5. current[b[1]] # b
    BY <1>2, <1>4, Workplace
  <1>6. ~row.commanded => row.job = "running"
    BY <1>3, Workplace
  <1>7. ASSUME NEW pins, pins = row.pins, pins # <<>> PROVE PinsThere(pins)'
    <2>1. b[1] \in Comparisons /\ PinsFit(b[1], pins)
      BY <1>2, <1>7, Names, Parts0, PinsOf DEF Worked
    <2>2. PinsThere(pins)
      BY <1>2, <1>7 DEF BusyRow
    <2>3. QED
      BY <2>1, <2>2, PinsOnward
  <1>8. row.pins # <<>> => PinsThere(row.pins)'
    BY <1>7
  <1>9. /\ row.status \notin Settled /\ (row.active => row.status \in ActiveStatuses)
        /\ row.status \in {"failed", "cancelled"} /\ IsProjection(b) => row.rows = {}
    BY <1>2 DEF BusyRow
  <1>10. QED
    BY <1>2, <1>3, <1>5, <1>6, <1>8, <1>9 DEF CalmOK, Settled

\* What such a step may do to its build.
WorkOn(x, b, row) ==
  /\ build' = [build EXCEPT ![b] = row]
  /\ row.job = build[b].job /\ row.overwritten = build[b].overwritten /\ row.withdrawn = build[b].withdrawn
  /\ build[b].commanded \/ x = Cli => row.commanded
  /\ row.active => build[b].active
  /\ row.status # "none"
  /\ row.pins = build[b].pins \/ (~IsProjection(b) /\ PinsFit(b[1], row.pins))

Elsewhere == UNCHANGED <<scan, current, known, missed, requests>>

LEMMA Busied ==
  ASSUME IInv, NEW x \in Processes, proc[x].pc \in Begun, NEW b, b = proc[x].build,
         NEW row \in BuildRows, WorkOn(x, b, row), BusyRow(b, row), current' = current,
         NEW r, proc' = [proc EXCEPT ![x] = r]
  PROVE  Onward /\ OthersOK(x)'
  <1>1. \A y \in Processes \ {x} : proc'[y] = proc[y]
    BY Parts0
  <1>2. Worked(x, b, row)
    BY <1>1, WorkedAlone DEF WorkOn
  <1>3. Onward => CalmOK(b)'
    BY <1>2, BusyCalm
  <1>4. QED
    BY <1>2, <1>3, Executed

\* What a process says of its build when it goes on.
Going(x, b, r) ==
  /\ r.job = proc[x].job /\ r.build = b /\ r.pc \in AtWork
  /\ r.pc \in Filling /\ ~IsProjection(b) => PinsFit(b[1], r.pins)
  /\ r.pc = "summary" => ~IsProjection(b)
  /\ r.pc = "marking" => IsProjection(b)
  /\ r.pc \in {"failing", "marking"} => r.outcome # "none"

\* Where it has got to.
Got(b, r) ==
  /\ build[b].status = "building" /\ RowsAt(r.pc, b, build[b].rows)
  /\ r.pc \in Filling /\ ~IsProjection(b) =>
       /\ build[b].pins = r.pins
       /\ PinsSound(r.pins) => DoneAt(r.pc, b)

LEMMA GoesOn ==
  ASSUME IInv, NEW x \in Processes, proc[x].pc \in Begun \cup {"published"}, NEW b, b = proc[x].build,
         NEW r \in ProcRows, proc' = [proc EXCEPT ![x] = r], Going(x, b, r), OthersOK(x)', RestTyped',
         build'[b].job = build[b].job, build'[b].status # "none", x = Cli => build'[b].commanded,
         Calm(b)' => Got(b, r)'
  PROVE  IInv'
  <1>1. proc'[x] = r
    BY Parts0
  <1>2. /\ b \in Builds /\ b # None /\ x \notin Clients /\ (x # Cli => x \in Workers /\ proc[x].job = b /\ build[b].job = "running")
        /\ x \in Workers => x # Cli
    BY Seat, Names, Actors
  <1>3. x \notin Workers => proc[x].job = None
    BY Parts0 DEF Shape
  <1>4. r.pc \in Executing /\ r.pc \notin {"insert", "enqueue", "returned", "settle", "followup", "pin", "start", "published", "failed"}
    BY DEF Going, AtWork, Filling, Executing
  <1>5. Shape(x)'
    <2>1. /\ r.job \in Builds => x \in Workers /\ build'[r.job].job = "running"
          /\ x \notin Workers => r.job = None
      BY <1>2, <1>3, PipelineAssumption, Actors DEF Going
    <2>2. /\ r.build \in Builds /\ build'[r.build].status # "none"
          /\ x \notin Clients /\ (x \in Workers => r.job = r.build)
      BY <1>2 DEF Going
    <2>3. r.pc \in Filling /\ ~IsProjection(r.build) => ~IsProjection(r.build) /\ PinsFit(r.build[1], r.pins)
      BY DEF Going
    <2>4. /\ r.pc = "summary" => ~IsProjection(r.build)
          /\ r.pc = "marking" => IsProjection(r.build)
          /\ r.pc \in {"failing", "marking"} => r.outcome # "none"
      BY DEF Going
    <2>5. QED
      BY <1>1, <1>4, <2>1, <2>2, <2>3, <2>4 DEF Shape, PinsFit, IsProjection
  <1>6. ExecOK(x)'
    <2>1. ASSUME Calm(b)'
          PROVE  /\ build'[b].status = "building" /\ RowsAt(r.pc, b, build'[b].rows)
                 /\ r.pc \in Filling /\ ~IsProjection(b) =>
                      /\ build'[b].pins = r.pins
                      /\ PinsSound(build[b].pins)' => DoneAt(r.pc, b)'
      BY <2>1 DEF Got, PinsSound, RowsAt
    <2>2. r.build = b
      BY DEF Going
    <2>3. \A d : d = b => Calm(d)' = Calm(b)' /\ DoneAt(r.pc, d)' = DoneAt(r.pc, b)'
      OBVIOUS
    <2>4. QED
      BY <1>1, <1>4, <2>1, <2>2, Names, <1>2 DEF ExecOK, DoneAt, PagesDone, EdgesDone, CountsDone, Calm, Lost, Shared
  <1>7. QED
    BY <1>5, <1>6, Together DEF Going

\* It has failed: a worker goes on to the end of its job.
LEMMA GivesUp ==
  ASSUME IInv, NEW x \in Processes, proc[x].pc \in Begun, NEW b, b = proc[x].build,
         NEW r \in ProcRows, proc' = [proc EXCEPT ![x] = r], OthersOK(x)', RestTyped',
         r.job = proc[x].job, r.build = b, r.pc = "failed",
         build'[b].job = build[b].job, build'[b].status # "none"
  PROVE  IInv'
  <1>1. proc'[x] = r
    BY Parts0
  <1>2. b \in Builds /\ x \notin Clients /\ (x # Cli => x \in Workers /\ proc[x].job = b /\ build[b].job = "running")
    BY Workplace
  <1>3. x \notin Workers => proc[x].job = None
    BY Parts0 DEF Shape
  <1>4. Shape(x)'
    BY <1>1, <1>2, <1>3, PipelineAssumption, Actors DEF Shape, Executing, AtWork, Filling
  <1>5. ExecOK(x)'
    BY <1>1 DEF ExecOK, AtWork, Filling
  <1>6. QED
    BY <1>4, <1>5, Together

StartedRow(b, x) == [build[b] EXCEPT !.status = "building", !.commanded = build[b].commanded \/ x = Cli]

LEMMA StartedForm ==
  ASSUME NEW b \in Builds, NEW x, build \in [Builds -> BuildRows]
  PROVE  /\ [build EXCEPT ![b] = Started(@, x)] = [build EXCEPT ![b] = StartedRow(b, x)]
         /\ Started(build[b], x) = StartedRow(b, x)
         /\ LET row == StartedRow(b, x)
            IN /\ row \in BuildRows /\ row.status = "building" /\ row.commanded = (build[b].commanded \/ x = Cli)
               /\ row.active = build[b].active /\ row.rows = build[b].rows /\ row.overwritten = build[b].overwritten
               /\ row.withdrawn = build[b].withdrawn
               /\ row.result = build[b].result /\ row.pins = build[b].pins /\ row.job = build[b].job
  <1>1. build[b] \in BuildRows
    OBVIOUS
  <1>2. Started(build[b], x) = StartedRow(b, x)
    BY DEF Started, StartedRow
  <1>3. [build EXCEPT ![b] = Started(@, x)] = [build EXCEPT ![b] = StartedRow(b, x)]
    BY <1>2
  <1>4. (build[b].commanded \/ x = Cli) \in BOOLEAN
    OBVIOUS
  <1>5. QED
    BY <1>1, <1>2, <1>3, <1>4 DEF StartedRow, BuildRows

LEMMA StartProjectionStep ==
  ASSUME IInv, NEW x \in Processes, StartProjection(x)
  PROVE  IInv'
  <1>1. PICK b : b = proc[x].build
    OBVIOUS
  <1>a. PICK r : r = [proc[x] EXCEPT !.pc = "clear"]
    OBVIOUS
  <1>2. /\ proc[x].pc = "start" /\ IsProjection(b) /\ build' = [build EXCEPT ![b] = Started(@, x)]
        /\ proc' = [proc EXCEPT ![x] = r] /\ UNCHANGED <<scan, current, known, missed, requests, faults>>
    BY <1>1, <1>a DEF StartProjection, Become
  <1>3. proc[x].pc \in Begun /\ proc[x].pc \notin Filling
    BY <1>2 DEF Begun, Filling
  <1>4. /\ b \in Builds /\ build[b] \in BuildRows /\ build[b].status # "none"
        /\ RowOK(b) /\ proc[x] \in ProcRows
    BY <1>1, <1>3, Workplace, Parts0
  <1>5. PICK row \in BuildRows : row = StartedRow(b, x)
    BY <1>4, Parts0, StartedForm
  <1>6. /\ build' = [build EXCEPT ![b] = row] /\ build'[b] = row
        /\ row.status = "building" /\ row.commanded = (build[b].commanded \/ x = Cli)
        /\ row.active = build[b].active /\ row.overwritten = build[b].overwritten
        /\ row.withdrawn = build[b].withdrawn
        /\ row.pins = build[b].pins /\ row.job = build[b].job
    BY <1>2, <1>4, <1>5, Parts0, StartedForm
  <1>7. WorkOn(x, b, row) /\ BusyRow(b, row)
    BY <1>2, <1>4, <1>6 DEF WorkOn, BusyRow, Settled, ActiveStatuses, RowOK
  <1>8. OthersOK(x)'
    BY <1>1, <1>2, <1>3, <1>6, <1>7, Busied
  <1>9. r \in ProcRows /\ r.pc = "clear" /\ r.job = proc[x].job /\ r.build = b
    BY <1>1, <1>4, <1>a DEF ProcRows, Pcs, Executing, AtWork, Filling
  <1>10. RestTyped'
    BY <1>2, Parts0 DEF RestTyped
  <1>11. Going(x, b, r)
    BY <1>2, <1>9 DEF Going, AtWork, Filling
  <1>12. Calm(b)' => Got(b, r)'
    BY <1>2, <1>6, <1>9 DEF Got, RowsAt, IsProjection
  <1>13. QED
    BY <1>1, <1>2, <1>3, <1>6, <1>8, <1>9, <1>10, <1>11, <1>12, GoesOn

\* The projections of a comparison, when both are there.
LEMMA Projected ==
  ASSUME IInv, NEW c \in Comparisons, BothReady(c)
  PROVE  LET pins == <<current[c[1]], current[c[2]]>>
         IN PinsFit(c, pins) /\ PinsThere(pins) /\ pins \in PinRows
  <1> DEFINE pins == <<current[c[1]], current[c[2]]>>
  <1>1. c[1] \in Owners /\ c[2] \in Owners
    BY Pair DEF Owners
  <1>2. /\ current[c[1]] # None /\ build[current[c[1]]].status = "ready"
        /\ current[c[2]] # None /\ build[current[c[2]]].status = "ready"
    BY DEF BothReady, Ready
  <1>3. /\ current[c[1]] \in Builds /\ current[c[1]][1] = c[1]
        /\ current[c[2]] \in Builds /\ current[c[2]][1] = c[2]
    BY <1>1, <1>2, Parts0 DEF RestTyped
  <1>4. /\ pins[1] = current[c[1]] /\ pins[2] = current[c[2]] /\ pins \in Builds \X Builds
        /\ \A i \in 1..2 : i = 1 \/ i = 2
    BY <1>3
  <1> HIDE DEF pins
  <1>5. \A i \in 1..2 : build[pins[i]].status \in Settled
    BY <1>2, <1>4 DEF Settled
  <1>6. QED
    BY <1>3, <1>4, <1>5 DEF PinsFit, PinsThere, PinRows, pins

LEMMA StartComparisonStep ==
  ASSUME IInv, NEW x \in Processes, StartComparison(x)
  PROVE  IInv'
  <1>1. PICK b : b = proc[x].build
    OBVIOUS
  <1>2. /\ proc[x].pc = "start" /\ ~IsProjection(b)
        /\ UNCHANGED <<scan, current, known, missed, requests, faults>>
    BY <1>1 DEF StartComparison
  <1>3. proc[x].pc \in Begun
    BY <1>2 DEF Begun
  <1>4. /\ b \in Builds /\ build[b] \in BuildRows /\ build[b].status # "none" /\ b[1] \in Comparisons
        /\ RowOK(b) /\ CalmOK(b) /\ proc[x] \in ProcRows /\ Shape(x) /\ ExecOK(x)
        /\ x \notin Clients /\ (x # Cli => x \in Workers /\ proc[x].job = b /\ build[b].job = "running")
    BY <1>1, <1>2, <1>3, Workplace, Parts0, Names
  <1>5. RestTyped'
    BY <1>2, Parts0 DEF RestTyped
  <1>6. ASSUME BothReady(b[1]), UNCHANGED build,
               proc' = [proc EXCEPT ![x] = [proc[x] EXCEPT !.pc = "pin", !.pins = <<current[b[1][1]], current[b[1][2]]>>]]
        PROVE  IInv'
    <2>1. PICK pins : pins = <<current[b[1][1]], current[b[1][2]]>>
      OBVIOUS
    <2>2. PinsFit(b[1], pins) /\ PinsThere(pins) /\ pins \in PinRows
      BY <1>4, <1>6, <2>1, Projected
    <2>3. PICK r : r = [proc[x] EXCEPT !.pc = "pin", !.pins = pins]
      OBVIOUS
    <2>4. /\ r \in ProcRows /\ r.pc = "pin" /\ r.pins = pins /\ r.job = proc[x].job /\ r.build = b
      BY <1>1, <1>4, <2>2, <2>3 DEF ProcRows, Pcs, Executing
    <2>5. proc' = [proc EXCEPT ![x] = r] /\ proc'[x] = r /\ \A y \in Processes \ {x} : proc'[y] = proc[y]
      BY <1>6, <2>1, <2>3, Parts0
    <2>6. OthersOK(x)'
      BY <1>2, <1>6, <2>5, Still
    <2>7. /\ r.job \in Builds => x \in Workers /\ build[r.job].job = "running"
          /\ x \notin Workers => r.job = None
          /\ x \in Workers => r.job = b
      BY <1>4, <2>4, Actors DEF Shape
    <2>8. Shape(x)'
      BY <1>2, <1>4, <1>6, <2>2, <2>4, <2>5, <2>7 DEF Shape, Executing, AtWork, Filling, PinsFit, IsProjection
    <2>9. PinsThere(pins)'
      BY <1>6, <2>2 DEF PinsThere, Lost, Shared
    <2>10. /\ x = Cli /\ build'[b].job = "none" => build'[b].status \in ActiveStatuses /\ ~build'[b].withdrawn
           /\ x # Cli /\ Calm(b)' => build'[b].status = "queued"
      BY <1>1, <1>2, <1>4, <1>6 DEF ExecOK, Calm, Lost, Shared
    <2>11. ExecOK(x)'
      BY <2>4, <2>5, <2>9, <2>10 DEF ExecOK, AtWork, Filling, PinsThere, Lost, Shared, Calm
    <2>12. QED
      BY <1>5, <2>4, <2>5, <2>6, <2>8, <2>11, Together
  <1>7. ASSUME build' = [build EXCEPT ![b].status = "waiting", ![b].commanded = @ \/ x = Cli],
               proc' = [proc EXCEPT ![x] = [proc[x] EXCEPT !.pc = "failed"]]
        PROVE  IInv'
    <2>1. PICK row : row = [build[b] EXCEPT !.status = "waiting", !.commanded = build[b].commanded \/ x = Cli]
      OBVIOUS
    <2>2. build' = [build EXCEPT ![b] = row] /\ build'[b] = row
      BY <1>4, <1>7, <2>1, Parts0
    <2>3. /\ row \in BuildRows /\ row.status = "waiting" /\ row.commanded = (build[b].commanded \/ x = Cli)
          /\ row.active = build[b].active /\ row.overwritten = build[b].overwritten
          /\ row.withdrawn = build[b].withdrawn
          /\ row.pins = build[b].pins /\ row.job = build[b].job
      BY <1>4, <2>1 DEF BuildRows
    <2>4. WorkOn(x, b, row)
      BY <2>2, <2>3 DEF WorkOn
    <2>5. BusyRow(b, row)
      BY <1>4, <2>3 DEF BusyRow, Settled, ActiveStatuses, CalmOK
    <2>6. PICK r : r = [proc[x] EXCEPT !.pc = "failed"]
      OBVIOUS
    <2>7. r \in ProcRows /\ r.pc = "failed" /\ r.job = proc[x].job /\ r.build = b
      BY <1>1, <1>4, <2>6 DEF ProcRows, Pcs, Executing
    <2>8. proc' = [proc EXCEPT ![x] = r]
      BY <1>7, <2>6
    <2>9. OthersOK(x)'
      BY <1>1, <1>2, <1>3, <2>3, <2>4, <2>5, <2>8, Busied
    <2>10. QED
      BY <1>1, <1>3, <1>5, <2>2, <2>3, <2>7, <2>8, <2>9, GivesUp
  <1>8. QED
    BY <1>1, <1>6, <1>7 DEF StartComparison, Become

LEMMA PinStep ==
  ASSUME IInv, NEW x \in Processes, Pin(x)
  PROVE  IInv'
  <1>1. PICK b : b = proc[x].build
    OBVIOUS
  <1>2. /\ proc[x].pc = "pin" /\ UNCHANGED <<scan, current, known, missed, requests, faults>>
        /\ build' = [build EXCEPT ![b] = [Started(@, x) EXCEPT !.pins = proc[x].pins]]
        /\ proc' = [proc EXCEPT ![x] = [proc[x] EXCEPT !.pc = "clear"]]
    BY <1>1 DEF Pin, Become
  <1>3. proc[x].pc \in Begun
    BY <1>2 DEF Begun
  <1>4. /\ b \in Builds /\ build[b] \in BuildRows /\ proc[x] \in ProcRows /\ ExecOK(x)
        /\ proc[x].pins \in PinRows /\ ~IsProjection(b) /\ PinsFit(b[1], proc[x].pins) /\ PinsThere(proc[x].pins)
    BY <1>1, <1>2, <1>3, Workplace, Parts0, ProcFields DEF ExecOK, Shape, Executing
  <1>s. PICK s : s = StartedRow(b, x)
    OBVIOUS
  <1>a. /\ s \in BuildRows /\ s = StartedRow(b, x) /\ s.status = "building" /\ s.commanded = (build[b].commanded \/ x = Cli)
          /\ s.active = build[b].active /\ s.overwritten = build[b].overwritten
          /\ s.withdrawn = build[b].withdrawn /\ s.job = build[b].job
    BY <1>4, <1>s, Parts0, StartedForm
  <1>5. PICK row : row = [s EXCEPT !.pins = proc[x].pins]
    OBVIOUS
  <1>6. [build EXCEPT ![b] = [Started(@, x) EXCEPT !.pins = proc[x].pins]] = [build EXCEPT ![b] = row]
    BY <1>4, <1>5, <1>a, Parts0, StartedForm
  <1>7. /\ row \in BuildRows /\ row.status = "building" /\ row.commanded = (build[b].commanded \/ x = Cli)
        /\ row.active = build[b].active /\ row.overwritten = build[b].overwritten
        /\ row.withdrawn = build[b].withdrawn
        /\ row.pins = proc[x].pins /\ row.job = build[b].job
    BY <1>4, <1>5, <1>a DEF BuildRows, PinRows
  <1>8. build' = [build EXCEPT ![b] = row] /\ build'[b] = row
    BY <1>2, <1>4, <1>6, Parts0
  <1>9. WorkOn(x, b, row) /\ BusyRow(b, row)
    BY <1>4, <1>7, <1>8 DEF WorkOn, BusyRow, Settled, ActiveStatuses
  <1>10. PICK r : r = [proc[x] EXCEPT !.pc = "clear"]
    OBVIOUS
  <1>11. proc' = [proc EXCEPT ![x] = r]
    BY <1>2, <1>10
  <1>12. OthersOK(x)'
    BY <1>1, <1>2, <1>3, <1>7, <1>9, <1>11, Busied
  <1>13. r \in ProcRows /\ r.pc = "clear" /\ r.job = proc[x].job /\ r.build = b /\ r.pins = proc[x].pins
    BY <1>1, <1>4, <1>10 DEF ProcRows, Pcs, Executing, AtWork, Filling
  <1>14. RestTyped'
    BY <1>2, Parts0 DEF RestTyped
  <1>15. Going(x, b, r)
    BY <1>4, <1>13 DEF Going, AtWork, Filling
  <1>16. Calm(b)' => Got(b, r)'
    BY <1>7, <1>8, <1>13 DEF Got, RowsAt, DoneAt
  <1>17. QED
    BY <1>1, <1>3, <1>7, <1>8, <1>11, <1>12, <1>13, <1>14, <1>15, <1>16, GoesOn

\* Where a process has got to, as ExecOK says it.
LEMMA Here ==
  ASSUME IInv, NEW x \in Processes, proc[x].pc \in AtWork, NEW b, b = proc[x].build
  PROVE  /\ proc[x].pc \in Begun /\ proc[x].pc \in Executing
         /\ b \in Builds /\ build[b] \in BuildRows /\ build[b].status # "none" /\ proc[x] \in ProcRows
         /\ RowOK(b) /\ CalmOK(b) /\ (x = Cli => build[b].commanded)
         /\ Calm(b) => Got(b, proc[x])
         /\ Going(x, b, proc[x])
  <1>1. proc[x].pc \in Begun /\ proc[x].pc \in Executing
    BY DEF Begun, Executing
  <1>2. /\ b \in Builds /\ build[b].status # "none" /\ proc[x] \in ProcRows /\ Shape(x) /\ ExecOK(x)
        /\ build[b] \in BuildRows /\ RowOK(b) /\ CalmOK(b)
    BY <1>1, Workplace, Parts0
  <1>3. /\ x = Cli => build[b].commanded
        /\ Calm(b) => Got(b, proc[x])
    BY <1>2 DEF ExecOK, Got
  <1>4. Going(x, b, proc[x])
    BY <1>1, <1>2 DEF Going, Shape
  <1>5. QED
    BY <1>1, <1>2, <1>3, <1>4

\* A row that somebody is at work on, with other rows, results or status.
LEMMA BusyStill ==
  ASSUME IInv, NEW x \in Processes, proc[x].pc \in AtWork, NEW b, b = proc[x].build, NEW row,
         row.status = build[b].status, row.active = build[b].active, row.pins = build[b].pins
  PROVE  BusyRow(b, row)
  <1>1. SUFFICES ASSUME Calm(b) PROVE BusyRow(b, row)
    BY DEF BusyRow
  <1>2. row.status = "building"
    BY <1>1, Here DEF Got
  <1>3. row.pins # <<>> => PinsThere(row.pins)
    BY <1>1, Here DEF CalmOK
  <1>4. QED
    BY <1>2, <1>3 DEF BusyRow, Settled, ActiveStatuses

LEMMA ClearStep ==
  ASSUME IInv, NEW x \in Processes, Clear(x)
  PROVE  IInv'
  <1>1. PICK b : b = proc[x].build
    OBVIOUS
  <1>2. PICK r : r = [proc[x] EXCEPT !.pc = "pages"]
    OBVIOUS
  <1>3. /\ proc[x].pc = "clear" /\ UNCHANGED <<scan, current, known, missed, requests, faults>>
        /\ build' = [build EXCEPT ![b].rows = {}, ![b].result = NoResult]
        /\ proc' = [proc EXCEPT ![x] = r]
    BY <1>1, <1>2 DEF Clear, Become, Parts
  <1>4. proc[x].pc \in AtWork /\ proc[x].pc \in Filling /\ proc[x].pc \in Begun
    BY <1>3 DEF AtWork, Filling, Begun
  <1>5. /\ b \in Builds /\ build[b] \in BuildRows /\ build[b].status # "none" /\ proc[x] \in ProcRows
        /\ x = Cli => build[b].commanded
        /\ Calm(b) => Got(b, proc[x])
        /\ Going(x, b, proc[x])
    BY <1>1, <1>4, Here
  <1>6. PICK row : row = [build[b] EXCEPT !.rows = {}, !.result = NoResult]
    OBVIOUS
  <1>7. build' = [build EXCEPT ![b] = row] /\ build'[b] = row
    BY <1>3, <1>5, <1>6, Parts0
  <1>8. NoResult \in Results
    BY UnbuiltTyped, BuildFields DEF Unbuilt
  <1>9. /\ row \in BuildRows /\ row.status = build[b].status /\ row.active = build[b].active
        /\ row.rows = {} /\ row.commanded = build[b].commanded /\ row.overwritten = build[b].overwritten
        /\ row.withdrawn = build[b].withdrawn
        /\ row.pins = build[b].pins /\ row.job = build[b].job
    BY <1>5, <1>6, <1>8 DEF BuildRows
  <1>10. WorkOn(x, b, row) /\ BusyRow(b, row)
    BY <1>1, <1>4, <1>5, <1>7, <1>9, BusyStill DEF WorkOn
  <1>11. Onward /\ OthersOK(x)'
    BY <1>1, <1>3, <1>4, <1>9, <1>10, Busied
  <1>12. r \in ProcRows /\ r.pc = "pages" /\ r.job = proc[x].job /\ r.build = b /\ r.pins = proc[x].pins
    BY <1>1, <1>2, <1>5 DEF ProcRows, Pcs, Executing, AtWork, Filling
  <1>13. RestTyped'
    BY <1>3, Parts0 DEF RestTyped
  <1>14. Going(x, b, r)
    BY <1>4, <1>5, <1>12 DEF Going, AtWork, Filling
  <1>15. ASSUME Calm(b)' PROVE Got(b, r)'
    <2>1. Got(b, proc[x])
      BY <1>5, <1>11, <1>15, CalmBack
    <2>2. /\ build[b].status = "building"
          /\ ~IsProjection(b) => build[b].pins = proc[x].pins
      BY <1>4, <2>1 DEF Got
    <2>3. QED
      BY <1>7, <1>9, <1>12, <2>2 DEF Got, RowsAt, DoneAt, IsProjection
  <1>16. QED
    BY <1>1, <1>3, <1>4, <1>5, <1>7, <1>9, <1>11, <1>12, <1>13, <1>14, <1>15, GoesOn

\* An execution that stops leaves the builds as they are.
LEMMA Failing ==
  ASSUME IInv, NEW x \in Processes, proc[x].pc \in AtWork, NEW outcome \in {"failed", "cancelled"},
         proc' = [proc EXCEPT ![x] = [proc[x] EXCEPT !.pc = "failing", !.outcome = outcome]],
         UNCHANGED <<build, current>>, RestTyped'
  PROVE  IInv'
  <1>1. PICK b : b = proc[x].build
    OBVIOUS
  <1>2. PICK r : r = [proc[x] EXCEPT !.pc = "failing", !.outcome = outcome]
    OBVIOUS
  <1>3. proc' = [proc EXCEPT ![x] = r] /\ \A y \in Processes \ {x} : proc'[y] = proc[y]
    BY <1>2, Parts0
  <1>4. /\ b \in Builds /\ build[b].status # "none" /\ proc[x] \in ProcRows /\ proc[x].pc \in Begun
        /\ x = Cli => build[b].commanded
        /\ Calm(b) => Got(b, proc[x])
    BY <1>1, Here
  <1>5. r \in ProcRows /\ r.pc = "failing" /\ r.job = proc[x].job /\ r.build = b /\ r.outcome = outcome
    BY <1>1, <1>2, <1>4 DEF ProcRows, Pcs, Executing, AtWork
  <1>6. Going(x, b, r)
    BY <1>5 DEF Going, AtWork, Filling
  <1>7. OthersOK(x)'
    BY <1>3, Still
  <1>8. Calm(b)' => Got(b, r)'
    BY <1>4, <1>5 DEF Got, RowsAt, Filling, Calm, Lost, Shared
  <1>9. QED
    BY <1>1, <1>3, <1>4, <1>5, <1>6, <1>7, <1>8, GoesOn

\* One that has activated its build gives it up all the same.
LEMMA Withdrawn ==
  ASSUME IInv, NEW x \in Processes, proc[x].pc = "published",
         proc' = [proc EXCEPT ![x] = [proc[x] EXCEPT !.pc = "failing", !.outcome = "failed"]],
         build' = [build EXCEPT ![proc[x].build].withdrawn = TRUE], current' = current, RestTyped'
  PROVE  IInv'
  <1>1. PICK b : b = proc[x].build
    OBVIOUS
  <1>2. PICK r : r = [proc[x] EXCEPT !.pc = "failing", !.outcome = "failed"]
    OBVIOUS
  <1>3. PICK row : row = [build[b] EXCEPT !.withdrawn = TRUE]
    OBVIOUS
  <1>4. /\ b \in Builds /\ build[b] \in BuildRows /\ build[b].status # "none" /\ proc[x] \in ProcRows
        /\ x # Cli => build[b].job = "running"
    BY <1>1, Seat
  <1>5. proc' = [proc EXCEPT ![x] = r] /\ \A y \in Processes \ {x} : proc'[y] = proc[y]
    BY <1>2, Parts0
  <1>6. build' = [build EXCEPT ![b] = row]
    BY <1>1, <1>3
  <1>7. /\ row \in BuildRows /\ row.withdrawn /\ row.status = build[b].status /\ row.job = build[b].job
        /\ row.commanded = build[b].commanded
    BY <1>3, <1>4 DEF BuildRows
  <1>8. build'[b] = row
    BY <1>4, <1>6, Parts0
  <1>9. ~build[b].active /\ (x = Cli => build[b].commanded)
    <2>1. "published" \in Executing /\ "published" \in AtWork \cup {"published"} /\ Shape(x) /\ ExecOK(x)
      BY Parts0 DEF Executing
    <2>2. ~build[b].active
      BY <1>1, <2>1 DEF Shape
    <2>3. x = Cli => build[b].commanded
      BY <1>1, <2>1 DEF ExecOK
    <2>4. QED
      BY <2>2, <2>3
  <1>10. Move(x, b)
    BY <1>3, <1>4, <1>8, <1>9 DEF Move, Withdrawing
  <1>11. OthersOK(x)'
    BY <1>4, <1>5, <1>6, <1>10, OneMove
  <1>12. r \in ProcRows /\ r.pc = "failing" /\ r.job = proc[x].job /\ r.build = b /\ r.outcome = "failed"
    BY <1>1, <1>2, <1>4 DEF ProcRows, Pcs, Executing, AtWork
  <1>13. Going(x, b, r)
    BY <1>12 DEF Going, AtWork, Filling
  <1>14. Calm(b)' => Got(b, r)'
    BY <1>7, <1>8 DEF Calm, Lost
  <1>15. QED
    BY <1>1, <1>4, <1>5, <1>7, <1>8, <1>9, <1>11, <1>12, <1>13, <1>14, GoesOn

LEMMA StopStep ==
  ASSUME IInv, NEW x \in Processes, Stop(x)
  PROVE  IInv'
  <1>1. UNCHANGED <<scan, current, known, missed, requests>>
    BY DEF Stop
  <1>2. faults' = faults \/ (faults < MaxFaults /\ faults' = faults + 1)
    BY DEF Stop
  <1>3. RestTyped'
    BY <1>1, <1>2, Parts0, PipelineAssumption DEF RestTyped
  <1>4. CASE /\ proc[x].pc \in AllParts \cup {"activate"} /\ UNCHANGED build
             /\ \E outcome \in {"failed", "cancelled"} :
                  proc' = [proc EXCEPT ![x] = [proc[x] EXCEPT !.pc = "failing", !.outcome = outcome]]
    <2>1. proc[x].pc \in AtWork
      BY <1>4 DEF AtWork, Filling, AllParts
    <2>2. QED
      BY <1>1, <1>3, <1>4, <2>1, Failing
  <1>5. CASE /\ proc[x].pc = "published" /\ build' = [build EXCEPT ![proc[x].build].withdrawn = TRUE]
             /\ proc' = [proc EXCEPT ![x] = [proc[x] EXCEPT !.pc = "failing", !.outcome = "failed"]]
    BY <1>1, <1>3, <1>5, Withdrawn
  <1>6. QED
    BY <1>4, <1>5 DEF Stop, Become, AllParts

LEMMA RemoveStagedStep ==
  ASSUME IInv, NEW x \in Processes, RemoveStaged(x)
  PROVE  IInv'
  <1>1. PICK b : b = proc[x].build
    OBVIOUS
  <1>2. PICK r : r = [proc[x] EXCEPT !.pc = "marking"]
    OBVIOUS
  <1>3. /\ proc[x].pc = "failing" /\ IsProjection(b) /\ UNCHANGED <<scan, current, known, missed, requests, faults>>
        /\ build' = [build EXCEPT ![b].rows = {}]
        /\ proc' = [proc EXCEPT ![x] = r]
    BY <1>1, <1>2 DEF RemoveStaged, Become
  <1>4. proc[x].pc \in AtWork /\ proc[x].pc \in Begun
    BY <1>3 DEF AtWork, Begun
  <1>5. /\ b \in Builds /\ build[b] \in BuildRows /\ build[b].status # "none" /\ proc[x] \in ProcRows
        /\ x = Cli => build[b].commanded
        /\ Calm(b) => Got(b, proc[x])
        /\ Going(x, b, proc[x])
    BY <1>1, <1>4, Here
  <1>6. PICK row : row = [build[b] EXCEPT !.rows = {}]
    OBVIOUS
  <1>7. build' = [build EXCEPT ![b] = row] /\ build'[b] = row
    BY <1>3, <1>5, <1>6, Parts0
  <1>8. /\ row \in BuildRows /\ row.status = build[b].status /\ row.active = build[b].active
        /\ row.rows = {} /\ row.commanded = build[b].commanded /\ row.overwritten = build[b].overwritten
        /\ row.withdrawn = build[b].withdrawn
        /\ row.pins = build[b].pins /\ row.job = build[b].job
    BY <1>5, <1>6 DEF BuildRows
  <1>9. WorkOn(x, b, row) /\ BusyRow(b, row)
    BY <1>1, <1>4, <1>5, <1>7, <1>8, BusyStill DEF WorkOn
  <1>10. Onward /\ OthersOK(x)'
    BY <1>1, <1>3, <1>4, <1>8, <1>9, Busied
  <1>11. r \in ProcRows /\ r.pc = "marking" /\ r.job = proc[x].job /\ r.build = b /\ r.outcome = proc[x].outcome
    BY <1>1, <1>2, <1>5 DEF ProcRows, Pcs, Executing, AtWork, Filling
  <1>12. RestTyped'
    BY <1>3, Parts0 DEF RestTyped
  <1>13. Going(x, b, r)
    BY <1>3, <1>5, <1>11 DEF Going, AtWork, Filling
  <1>14. ASSUME Calm(b)' PROVE Got(b, r)'
    <2>1. build[b].status = "building"
      BY <1>5, <1>10, <1>14, CalmBack DEF Got
    <2>2. QED
      BY <1>7, <1>8, <1>11, <2>1 DEF Got, RowsAt, Filling
  <1>15. QED
    BY <1>1, <1>3, <1>4, <1>5, <1>7, <1>8, <1>10, <1>11, <1>12, <1>13, <1>14, GoesOn

LEMMA MarkFailedStep ==
  ASSUME IInv, NEW x \in Processes, MarkFailed(x)
  PROVE  IInv'
  <1>1. PICK b : b = proc[x].build
    OBVIOUS
  <1>2. /\ proc[x].pc \in {"failing", "marking"} /\ (proc[x].pc = "marking" <=> IsProjection(b))
        /\ UNCHANGED <<scan, current, known, missed, requests, faults>>
        /\ build' = [build EXCEPT ![b].status = proc[x].outcome, ![b].active = FALSE]
        /\ proc' = [proc EXCEPT ![x] = IF x = Cli THEN Idle ELSE [proc[x] EXCEPT !.pc = "failed"]]
    BY <1>1 DEF MarkFailed, Become
  <1>3. proc[x].pc \in AtWork /\ proc[x].pc \in Begun
    BY <1>2 DEF AtWork, Begun
  <1>4. /\ b \in Builds /\ build[b] \in BuildRows /\ proc[x] \in ProcRows /\ CalmOK(b)
        /\ x = Cli => build[b].commanded
        /\ Calm(b) => Got(b, proc[x])
        /\ Going(x, b, proc[x])
    BY <1>1, <1>3, Here
  <1>5. proc[x].outcome \in {"failed", "cancelled"}
    BY <1>2, <1>4 DEF Going, ProcRows
  <1>6. PICK row : row = [build[b] EXCEPT !.status = proc[x].outcome, !.active = FALSE]
    OBVIOUS
  <1>7. build' = [build EXCEPT ![b] = row] /\ build'[b] = row
    BY <1>2, <1>4, <1>6, Parts0
  <1>8. /\ row \in BuildRows /\ row.status = proc[x].outcome /\ row.active = FALSE
        /\ row.rows = build[b].rows /\ row.commanded = build[b].commanded
        /\ row.overwritten = build[b].overwritten /\ row.withdrawn = build[b].withdrawn
        /\ row.pins = build[b].pins /\ row.job = build[b].job
    BY <1>4, <1>5, <1>6 DEF BuildRows
  <1>9. WorkOn(x, b, row)
    BY <1>4, <1>5, <1>7, <1>8 DEF WorkOn
  <1>10. ASSUME Calm(b) PROVE row.rows = {} \/ ~IsProjection(b)
    BY <1>2, <1>4, <1>8, <1>10 DEF Got, RowsAt
  <1>11. BusyRow(b, row)
    BY <1>4, <1>5, <1>8, <1>10 DEF BusyRow, Settled, CalmOK
  <1>12. RestTyped'
    BY <1>2, Parts0 DEF RestTyped
  <1>13. PICK r : r = IF x = Cli THEN Idle ELSE [proc[x] EXCEPT !.pc = "failed"]
    OBVIOUS
  <1>14. proc' = [proc EXCEPT ![x] = r]
    BY <1>2, <1>13
  <1>15. OthersOK(x)'
    BY <1>1, <1>2, <1>3, <1>8, <1>9, <1>11, <1>14, Busied
  <1>16. CASE x = Cli
    <2>1. proc' = [proc EXCEPT ![x] = Idle]
      BY <1>2, <1>16
    <2>2. QED
      BY <1>12, <1>15, <2>1, Resting
  <1>17. CASE x # Cli
    <2>1. r \in ProcRows /\ r.pc = "failed" /\ r.job = proc[x].job /\ r.build = b
      BY <1>1, <1>4, <1>13, <1>17 DEF ProcRows, Pcs, Executing
    <2>2. build'[b].job = build[b].job /\ build'[b].status # "none"
      BY <1>5, <1>7, <1>8
    <2>3. QED
      BY <1>1, <1>3, <1>12, <1>14, <1>15, <2>1, <2>2, GivesUp
  <1>18. QED
    BY <1>16, <1>17

-----------------------------------------------------------------------------
(***************************************************************************)
(* What the tables of a comparison are filled with.                        *)
(***************************************************************************)

LEMMA RowsTyped ==
  /\ \A before, after : PageRow(before, after) \in Rows
  /\ \A before, after : FieldRow(before, after) \in Rows
  /\ NoRow \in Rows
  <1>1. ASSUME NEW before, NEW after PROVE Presence(before, after) \in Presences
    BY DEF Presence, Presences
  <1>2. ASSUME NEW before, NEW after
        PROVE  PrimaryChangeClass(before, after) \in
                 {"not_applicable", "substantive_change", "metadata_change", "technical_change",
                  "normalization_only", "no_tracked_change", "indeterminate", "changed"}
    BY DEF PrimaryChangeClass
  <1>3. ASSUME NEW before, NEW after PROVE PageRow(before, after) \in Rows
    BY <1>1, <1>2 DEF PageRow, Rows
  <1>4. ASSUME NEW before, NEW after PROVE FieldRow(before, after) \in Rows
    BY <1>1 DEF FieldRow, Rows
  <1>5. NoRow \in Rows
    BY DEF Rows
  <1>6. QED
    BY <1>3, <1>4, <1>5

LEMMA FinitePairs ==
  ASSUME NEW S, S \subseteq Pages \/ S \subseteq Pages \X Pages
  PROVE  IsFiniteSet(S) /\ Cardinality(S) \in Nat
  <1>1. IsFiniteSet(Pages) /\ IsFiniteSet(Pages \X Pages)
    BY FS_Product, PipelineAssumption
  <1>2. IsFiniteSet(S)
    BY <1>1, FS_Subset
  <1>3. QED
    BY <1>2, FS_CardinalityType

LEMMA TopologyTyped ==
  ASSUME NEW edges, DOMAIN edges = Pages \X Pages, NEW p
  PROVE  Topology(edges, p) \in [EdgeLabels -> [out: Nat, in: Nat]]
  <1>1. ASSUME NEW label
        PROVE  /\ Cardinality({e \in DOMAIN edges : e[1] = p /\ Label(edges[e]) = label}) \in Nat
               /\ Cardinality({e \in DOMAIN edges : e[2] = p /\ Label(edges[e]) = label}) \in Nat
    <2>1. /\ {e \in DOMAIN edges : e[1] = p /\ Label(edges[e]) = label} \subseteq Pages \X Pages
          /\ {e \in DOMAIN edges : e[2] = p /\ Label(edges[e]) = label} \subseteq Pages \X Pages
      OBVIOUS
    <2>2. QED
      BY <2>1, FinitePairs
  <1>2. QED
    BY <1>1 DEF Topology

LEMMA CountsTyped ==
  ASSUME NEW rows, DOMAIN rows = Pages \/ DOMAIN rows = Pages \X Pages
  PROVE  ResultCounts(rows) \in [Presences -> Nat]
  <1>1. ASSUME NEW state PROVE Cardinality({k \in DOMAIN rows : rows[k][1] = state}) \in Nat
    <2>1. {k \in DOMAIN rows : rows[k][1] = state} \subseteq DOMAIN rows
      OBVIOUS
    <2>2. QED
      BY <2>1, FinitePairs
  <1>2. QED
    BY <1>1 DEF ResultCounts

LEMMA ResultFields ==
  ASSUME NEW result \in Results
  PROVE  /\ result.pages \in [Pages -> Rows] /\ result.edges \in [Pages \X Pages -> Rows]
         /\ result.topology \in [Pages -> [EdgeLabels -> [out: Nat, in: Nat]]]
         /\ result.counts \in Seq([Presences -> Nat])
  BY DEF Results

\* The three steps of filling, each leaving the rest of the result.
PagesRead(before, after) == [p \in Pages |-> PageRow(ProjectedPage(before, p), ProjectedPage(after, p))]
EdgesRead(before, after) ==
  [e \in Pages \X Pages |-> FieldRow(ProjectedEdge(before, e), ProjectedEdge(after, e))]
TopologyRead(pages, edges) == [p \in Pages |-> IF pages[p] = NoRow THEN NoTopology ELSE Topology(edges, p)]

LEMMA FilledPages ==
  ASSUME NEW result \in Results, NEW before, NEW after, NEW q, q = Filled(result, "pages", before, after)
  PROVE  /\ q \in Results /\ q.pages = PagesRead(before, after) /\ q.edges = result.edges
         /\ q.topology = result.topology /\ q.counts = result.counts
  <1>1. q = [result EXCEPT !.pages = PagesRead(before, after)]
    BY DEF Filled, PagesRead
  <1>2. PagesRead(before, after) \in [Pages -> Rows]
    BY RowsTyped DEF PagesRead
  <1>3. QED
    BY <1>1, <1>2 DEF Results

LEMMA FilledEdges ==
  ASSUME NEW result \in Results, NEW before, NEW after, NEW q, q = Filled(result, "edges", before, after)
  PROVE  /\ q \in Results /\ q.pages = result.pages /\ q.edges = EdgesRead(before, after)
         /\ q.topology = TopologyRead(result.pages, EdgesRead(before, after)) /\ q.counts = result.counts
  <1>1. q = [result EXCEPT !.edges = EdgesRead(before, after),
                           !.topology = TopologyRead(result.pages, EdgesRead(before, after))]
    BY DEF Filled, EdgesRead, TopologyRead
  <1>2. EdgesRead(before, after) \in [Pages \X Pages -> Rows]
    BY RowsTyped DEF EdgesRead
  <1>3. TopologyRead(result.pages, EdgesRead(before, after)) \in [Pages -> [EdgeLabels -> [out: Nat, in: Nat]]]
    <2>1. NoTopology \in [EdgeLabels -> [out: Nat, in: Nat]]
      BY DEF NoTopology
    <2>2. \A p \in Pages : Topology(EdgesRead(before, after), p) \in [EdgeLabels -> [out: Nat, in: Nat]]
      BY TopologyTyped DEF EdgesRead
    <2>3. QED
      BY <2>1, <2>2 DEF TopologyRead
  <1>4. QED
    BY <1>1, <1>2, <1>3 DEF Results

LEMMA FilledSummary ==
  ASSUME NEW result \in Results, NEW before, NEW after, NEW q, q = Filled(result, "summary", before, after)
  PROVE  /\ q \in Results /\ q.pages = result.pages /\ q.edges = result.edges /\ q.topology = result.topology
         /\ q.counts = <<ResultCounts(result.pages), ResultCounts(result.edges)>>
  <1>1. q = [result EXCEPT !.counts = <<ResultCounts(result.pages), ResultCounts(result.edges)>>]
    BY DEF Filled
  <1>2. ResultCounts(result.pages) \in [Presences -> Nat] /\ ResultCounts(result.edges) \in [Presences -> Nat]
    BY ResultFields, CountsTyped
  <1>3. <<ResultCounts(result.pages), ResultCounts(result.edges)>> \in Seq([Presences -> Nat])
    BY <1>2
  <1>4. QED
    BY <1>1, <1>3 DEF Results

\* With all rows of both projections there, what is read is what the scans have seen.
LEMMA ReadAll ==
  ASSUME NEW c \in Comparisons, NEW pins, PinsFit(c, pins),
         \A i \in 1..2 : build[pins[i]].rows = AllParts
  PROVE  PagesRead(pins[1], pins[2]) = PagesOf(c) /\ EdgesRead(pins[1], pins[2]) = EdgeRowsOf(c)
  <1>1. /\ build[pins[1]].rows = AllParts /\ build[pins[2]].rows = AllParts
        /\ pins[1][1] = c[1] /\ pins[2][1] = c[2]
    BY DEF PinsFit
  <1>2. \A p : ProjectedPage(pins[1], p) = Evidence[c[1]][p] /\ ProjectedPage(pins[2], p) = Evidence[c[2]][p]
    BY <1>1 DEF ProjectedPage, AllParts
  <1>3. \A e : ProjectedEdge(pins[1], e) = SeenEdge(c[1], e) /\ ProjectedEdge(pins[2], e) = SeenEdge(c[2], e)
    BY <1>1 DEF ProjectedEdge, SeenEdge, AllParts
  <1>4. QED
    BY <1>2, <1>3 DEF PagesRead, EdgesRead, PagesOf, EdgeRowsOf

\* Projections that are there, and that nobody shares, have all their rows.
LEMMA PinsWhole ==
  ASSUME IInv, NEW c \in Comparisons, NEW pins, PinsFit(c, pins), PinsThere(pins), PinsSound(pins)
  PROVE  \A i \in 1..2 : build[pins[i]].rows = AllParts
  <1>1. SUFFICES ASSUME NEW i \in 1..2 PROVE build[pins[i]].rows = AllParts
    OBVIOUS
  <1>2. pins[1] \in Builds /\ pins[2] \in Builds /\ pins[1][1] = c[1] /\ pins[2][1] = c[2]
    BY DEF PinsFit
  <1>3. IsProjection(pins[1]) /\ IsProjection(pins[2]) /\ (i = 1 \/ i = 2)
    BY <1>2, Pair DEF IsProjection
  <1>4. PICK d \in Builds : d = pins[i] /\ IsProjection(d)
    BY <1>2, <1>3
  <1>5. ~Lost(d) /\ build[d].status \in Settled
    BY <1>4 DEF PinsThere, PinsSound
  <1>6. ~build[d].overwritten /\ CalmOK(d)
    BY <1>4, Parts0 DEF RowOK
  <1>7. build[d].rows = AllParts
    BY <1>5, <1>6 DEF CalmOK, Calm
  <1>8. QED
    BY <1>4, <1>7

\* One more table of a comparison is right if those before it are.
LEMMA OneMore ==
  ASSUME NEW c \in Comparisons, NEW pins, PinsFit(c, pins), \A i \in 1..2 : build[pins[i]].rows = AllParts,
         NEW result \in Results, NEW part \in AllParts, NEW q, q = Filled(result, part, pins[1], pins[2])
  PROVE  /\ part = "pages" => q.pages = PagesOf(c)
         /\ part = "edges" /\ result.pages = PagesOf(c) =>
              q.pages = PagesOf(c) /\ q.edges = EdgeRowsOf(c) /\ q.topology = TopologyOf(c)
         /\ part = "summary" /\ result.pages = PagesOf(c) /\ result.edges = EdgeRowsOf(c) =>
              /\ q.pages = PagesOf(c) /\ q.edges = EdgeRowsOf(c) /\ q.topology = result.topology
              /\ q.counts = CountsOf(c)
  <1>1. PagesRead(pins[1], pins[2]) = PagesOf(c) /\ EdgesRead(pins[1], pins[2]) = EdgeRowsOf(c)
    BY ReadAll
  <1>2. ASSUME part = "pages" PROVE q.pages = PagesOf(c)
    BY <1>1, <1>2, FilledPages
  <1>3. ASSUME part = "edges", result.pages = PagesOf(c)
        PROVE  q.pages = PagesOf(c) /\ q.edges = EdgeRowsOf(c) /\ q.topology = TopologyOf(c)
    <2>1. /\ q.pages = PagesOf(c) /\ q.edges = EdgeRowsOf(c)
          /\ q.topology = TopologyRead(PagesOf(c), EdgeRowsOf(c))
      BY <1>1, <1>3, FilledEdges
    <2>2. TopologyRead(PagesOf(c), EdgeRowsOf(c)) = TopologyOf(c)
      BY DEF TopologyRead, TopologyOf
    <2>3. QED
      BY <2>1, <2>2
  <1>4. ASSUME part = "summary", result.pages = PagesOf(c), result.edges = EdgeRowsOf(c)
        PROVE  /\ q.pages = PagesOf(c) /\ q.edges = EdgeRowsOf(c) /\ q.topology = result.topology
               /\ q.counts = CountsOf(c)
    BY <1>4, FilledSummary DEF CountsOf
  <1>5. QED
    BY <1>2, <1>3, <1>4

\* The row of a build with one more table, and the step after it.
FilledRow(b, part, pins) ==
  [build[b] EXCEPT !.rows = build[b].rows \cup {part},
                   !.result = IF IsProjection(b) THEN build[b].result
                              ELSE Filled(build[b].result, part, pins[1], pins[2])]

LEMMA FilledRowFields ==
  ASSUME NEW b \in Builds, build[b] \in BuildRows, NEW part \in AllParts, NEW pins,
         NEW row, row = FilledRow(b, part, pins)
  PROVE  /\ row \in BuildRows /\ row.status = build[b].status /\ row.active = build[b].active
         /\ row.rows = build[b].rows \cup {part} /\ row.commanded = build[b].commanded
         /\ row.overwritten = build[b].overwritten
         /\ row.withdrawn = build[b].withdrawn /\ row.pins = build[b].pins /\ row.job = build[b].job
         /\ ~IsProjection(b) => row.result = Filled(build[b].result, part, pins[1], pins[2])
  <1>1. build[b].result \in Results /\ build[b].rows \in SUBSET AllParts
    BY BuildFields
  <1>2. PICK q : q = IF IsProjection(b) THEN build[b].result
                     ELSE Filled(build[b].result, part, pins[1], pins[2])
    OBVIOUS
  <1>3. q \in Results
    <2>1. CASE IsProjection(b)
      BY <1>1, <1>2, <2>1
    <2>2. CASE ~IsProjection(b)
      <3>1. q = Filled(build[b].result, part, pins[1], pins[2])
        BY <1>2, <2>2
      <3>2. part = "pages" \/ part = "edges" \/ part = "summary"
        BY DEF AllParts
      <3>3. CASE part = "pages"
        BY <1>1, <3>1, <3>3, FilledPages
      <3>4. CASE part = "edges"
        BY <1>1, <3>1, <3>4, FilledEdges
      <3>5. CASE part = "summary"
        BY <1>1, <3>1, <3>5, FilledSummary
      <3>6. QED
        BY <3>2, <3>3, <3>4, <3>5
    <2>3. QED
      BY <2>1, <2>2
  <1>4. row = [build[b] EXCEPT !.rows = build[b].rows \cup {part}, !.result = q]
    BY <1>2 DEF FilledRow
  <1>5. build[b].rows \cup {part} \in SUBSET AllParts
    BY <1>1
  <1>6. QED
    BY <1>2, <1>3, <1>4, <1>5 DEF BuildRows

LEMMA NextStep ==
  ASSUME NEW n \in 1..3, NEW b, n = 3 => ~IsProjection(b)
  PROVE  /\ Parts[n] \in AllParts /\ Parts[n] \in Filling /\ Parts[n] \in AtWork /\ After(b, n) \in Filling
         /\ After(b, n) \in {"edges", "summary", "activate"}
         /\ After(b, n) = "edges" <=> n = 1
         /\ After(b, n) = "summary" <=> n = 2 /\ ~IsProjection(b)
         /\ After(b, n) = "activate" <=> n = 3 \/ (n = 2 /\ IsProjection(b))
         /\ n = 1 => Parts[n] = "pages"
         /\ n = 2 => Parts[n] = "edges"
         /\ n = 3 => Parts[n] = "summary"
  <1>1. Parts[1] = "pages" /\ Parts[2] = "edges" /\ Parts[3] = "summary"
    BY DEF Parts
  <1>2. n = 1 \/ n = 2 \/ n = 3
    OBVIOUS
  <1>3. CASE n = 1
    BY <1>1, <1>3 DEF After, AllParts, Filling, AtWork
  <1>4. CASE n = 2
    BY <1>1, <1>4 DEF After, AllParts, Filling, AtWork
  <1>5. CASE n = 3
    BY <1>1, <1>5 DEF After, AllParts, Filling, AtWork
  <1>6. QED
    BY <1>2, <1>3, <1>4, <1>5

LEMMA InsertRowsStep ==
  ASSUME IInv, NEW x \in Processes, NEW n \in 1..3, InsertRows(x, n)
  PROVE  IInv'
  <1>1. PICK b : b = proc[x].build
    OBVIOUS
  <1>2. PICK part, pins, next : part = Parts[n] /\ pins = proc[x].pins /\ next = After(b, n)
    OBVIOUS
  <1>3. proc[x].pc = part /\ UNCHANGED <<scan, current, known, missed, requests, faults>>
    BY <1>2 DEF InsertRows
  <1>4. n \in 1..3 => part \in {"pages", "edges", "summary"} /\ (n = 3 <=> part = "summary")
    BY <1>2 DEF Parts
  <1>5. proc[x].pc \in AtWork /\ proc[x].pc \in Filling /\ proc[x].pc \in Begun
    BY <1>3, <1>4 DEF AtWork, Filling, Begun
  <1>6. /\ b \in Builds /\ build[b] \in BuildRows /\ build[b].status # "none" /\ proc[x] \in ProcRows
        /\ RowOK(b) /\ CalmOK(b)
        /\ x = Cli => build[b].commanded
        /\ Calm(b) => Got(b, proc[x])
        /\ Going(x, b, proc[x])
    BY <1>1, <1>5, Here
  <1>7. n = 3 => ~IsProjection(b)
    BY <1>3, <1>4, <1>6 DEF Going
  <1>8. RestTyped'
    BY <1>3, Parts0 DEF RestTyped
  <1>9. ASSUME part \notin build[b].rows,
               build' = [build EXCEPT ![b] = FilledRow(b, part, pins)],
               proc' = [proc EXCEPT ![x] = [proc[x] EXCEPT !.pc = next]]
        PROVE  IInv'
    <2>1. PICK row : row = FilledRow(b, part, pins)
      OBVIOUS
    <2>2. /\ row \in BuildRows /\ row.status = build[b].status /\ row.active = build[b].active
          /\ row.rows = build[b].rows \cup {part} /\ row.commanded = build[b].commanded
          /\ row.overwritten = build[b].overwritten
          /\ row.withdrawn = build[b].withdrawn /\ row.pins = build[b].pins /\ row.job = build[b].job
          /\ ~IsProjection(b) => row.result = Filled(build[b].result, part, pins[1], pins[2])
      BY <1>2, <1>6, <1>7, <2>1, NextStep, FilledRowFields
    <2>3. build' = [build EXCEPT ![b] = row] /\ build'[b] = row
      BY <1>6, <1>9, <2>1, Parts0
    <2>4. PICK r : r = [proc[x] EXCEPT !.pc = next]
      OBVIOUS
    <2>5. proc' = [proc EXCEPT ![x] = r]
      BY <1>9, <2>4
    <2>6. next \in Filling /\ next \in Pcs
      BY <1>2, <1>7, NextStep DEF Pcs, Executing, AtWork
    <2>7. r \in ProcRows /\ r.pc = next /\ r.job = proc[x].job /\ r.build = b /\ r.pins = pins
      BY <1>1, <1>2, <1>6, <2>4, <2>6 DEF ProcRows
    <2>8. WorkOn(x, b, row) /\ BusyRow(b, row)
      BY <1>1, <1>5, <1>6, <2>2, <2>3, BusyStill DEF WorkOn
    <2>9. Onward /\ OthersOK(x)'
      BY <1>1, <1>3, <1>5, <2>2, <2>5, <2>8, Busied
    <2>10. next = "summary" => ~IsProjection(b)
      BY <1>2, <1>7, NextStep
    <2>11. Going(x, b, r)
      BY <1>2, <1>5, <1>6, <2>6, <2>7, <2>10 DEF Going, AtWork, Filling
    <2>12. ASSUME Calm(b)' PROVE Got(b, r)'
      <3>1. Calm(b) /\ Got(b, proc[x])
        BY <1>6, <2>9, <2>12, CalmBack
      <3>2. /\ build[b].status = "building" /\ RowsAt(part, b, build[b].rows)
            /\ ~IsProjection(b) => /\ build[b].pins = pins
                                   /\ PinsSound(pins) => DoneAt(part, b)
        BY <1>2, <1>3, <1>5, <3>1 DEF Got
      <3>3. RowsAt(next, b, row.rows)
        <4>1. CASE n = 1
          BY <1>2, <1>7, <2>2, <3>2, <4>1, NextStep DEF RowsAt
        <4>2. CASE n = 2
          BY <1>2, <1>7, <2>2, <3>2, <4>2, NextStep DEF RowsAt
        <4>3. CASE n = 3
          BY <1>2, <1>7, <2>2, <3>2, <4>3, NextStep DEF RowsAt, AllParts
        <4>4. QED
          BY <4>1, <4>2, <4>3
      <3>4. ASSUME ~IsProjection(b), PinsSound(pins)' PROVE DoneAt(next, b)'
        <4>1. PICK c \in Comparisons : c = b[1]
          BY <1>6, <3>4, Names
        <4>2. PinsFit(c, pins)
          BY <1>2, <1>5, <1>6, <3>4, <4>1 DEF Going
        <4>3. PinsThere(pins)
          <5>1. pins # <<>>
            BY <4>2 DEF PinsFit
          <5>2. QED
            BY <1>6, <3>1, <3>2, <3>4, <5>1 DEF CalmOK
        <4>4. PinsSound(pins)
          BY <2>9, <3>4, <4>2, PinsOnward
        <4>5. \A i \in 1..2 : build[pins[i]].rows = AllParts
          BY <4>2, <4>3, <4>4, PinsWhole
        <4>6. DoneAt(part, b)
          BY <3>2, <3>4, <4>4
        <4>7. PICK result \in Results : result = build[b].result
          BY <1>6, BuildFields
        <4>8. row.result = Filled(result, part, pins[1], pins[2]) /\ part \in AllParts
          BY <1>2, <1>7, <2>2, <3>4, <4>7, NextStep
        <4>9. /\ part = "pages" => row.result.pages = PagesOf(c)
              /\ part = "edges" /\ result.pages = PagesOf(c) =>
                   /\ row.result.pages = PagesOf(c) /\ row.result.edges = EdgeRowsOf(c)
                   /\ row.result.topology = TopologyOf(c)
              /\ part = "summary" /\ result.pages = PagesOf(c) /\ result.edges = EdgeRowsOf(c) =>
                   /\ row.result.pages = PagesOf(c) /\ row.result.edges = EdgeRowsOf(c)
                   /\ row.result.topology = result.topology /\ row.result.counts = CountsOf(c)
          BY <4>2, <4>5, <4>8, OneMore
        <4>10. CASE n = 1
          <5>1. part = "pages" /\ next = "edges"
            BY <1>2, <1>7, <4>10, NextStep
          <5>2. QED
            BY <2>3, <4>1, <4>9, <5>1 DEF DoneAt, PagesDone
        <4>11. CASE n = 2
          <5>1. part = "edges" /\ next = "summary"
            BY <1>2, <1>7, <3>4, <4>11, NextStep
          <5>2. result.pages = PagesOf(c)
            BY <4>1, <4>6, <4>7, <5>1 DEF DoneAt, PagesDone
          <5>3. QED
            BY <2>3, <4>1, <4>9, <5>1, <5>2 DEF DoneAt, PagesDone, EdgesDone
        <4>12. CASE n = 3
          <5>1. part = "summary" /\ next = "activate"
            BY <1>2, <1>7, <4>12, NextStep
          <5>2. result.pages = PagesOf(c) /\ result.edges = EdgeRowsOf(c) /\ result.topology = TopologyOf(c)
            BY <4>1, <4>6, <4>7, <5>1 DEF DoneAt, PagesDone, EdgesDone
          <5>3. QED
            BY <2>3, <4>1, <4>9, <5>1, <5>2 DEF DoneAt, PagesDone, EdgesDone, CountsDone
        <4>13. QED
          BY <4>10, <4>11, <4>12
      <3>5. build'[b].status = "building" /\ RowsAt(r.pc, b, build[b].rows)'
        BY <2>2, <2>3, <2>7, <3>2, <3>3 DEF RowsAt, IsProjection
      <3>6. ~IsProjection(b) => build'[b].pins = r.pins /\ (PinsSound(r.pins)' => DoneAt(r.pc, b)')
        BY <2>2, <2>3, <2>7, <3>2, <3>4
      <3>7. QED
        BY <3>5, <3>6 DEF Got, IsProjection
    <2>13. build'[b].job = build[b].job /\ build'[b].status # "none" /\ (x = Cli => build'[b].commanded)
      BY <1>6, <2>2, <2>3
    <2>14. QED
      BY <1>1, <1>5, <1>8, <2>5, <2>7, <2>9, <2>11, <2>12, <2>13, GoesOn
  <1>10. ASSUME UNCHANGED build,
                proc' = [proc EXCEPT ![x] = [proc[x] EXCEPT !.pc = "failing", !.outcome = "failed"]]
         PROVE  IInv'
    BY <1>3, <1>5, <1>8, <1>10, Failing
  <1>11. [build EXCEPT ![b].rows = @ \cup {part},
                       ![b].result = IF IsProjection(b) THEN @ ELSE Filled(@, part, pins[1], pins[2])]
           = [build EXCEPT ![b] = FilledRow(b, part, pins)]
    BY <1>6, Parts0 DEF FilledRow
  <1>12. \/ /\ part \notin build[b].rows
            /\ build' = [build EXCEPT ![b].rows = @ \cup {part},
                           ![b].result = IF IsProjection(b) THEN @ ELSE Filled(@, part, pins[1], pins[2])]
            /\ proc' = [proc EXCEPT ![x] = [proc[x] EXCEPT !.pc = next]]
         \/ /\ UNCHANGED build
            /\ proc' = [proc EXCEPT ![x] = [proc[x] EXCEPT !.pc = "failing", !.outcome = "failed"]]
    BY <1>1, <1>2 DEF InsertRows, Become
  <1>13. QED
    BY <1>9, <1>10, <1>11, <1>12

ReadyRow(b) ==
  [build[b] EXCEPT !.status = "ready", !.active = FALSE, !.rows = IF IsProjection(b) THEN AllParts ELSE build[b].rows]

LEMMA ActivateBuild ==
  ASSUME IInv, NEW b \in Builds,
         build' = [Superseded(b[1], b) EXCEPT ![b].status = "ready", ![b].active = FALSE,
                                              ![b].rows = IF IsProjection(b) THEN AllParts ELSE @]
  PROVE  /\ DOMAIN build' = Builds /\ build' = [d \in Builds |-> build'[d]] /\ build'[b] = ReadyRow(b)
         /\ \A d \in Builds \ {b} :
              /\ d # current[b[1]] => build'[d] = build[d]
              /\ d = current[b[1]] => build'[d] = [build[d] EXCEPT !.status = "superseded"]
  <1>1. build \in [Builds -> BuildRows]
    BY Parts0
  <1>2. CASE current[b[1]] \in Builds \ {b}
    <2>1. PICK e \in Builds \ {b} : e = current[b[1]]
      BY <1>2
    <2>2. Superseded(b[1], b) = [build EXCEPT ![e].status = "superseded"]
      BY <2>1 DEF Superseded
    <2>3. PICK table : table = [build EXCEPT ![e].status = "superseded"]
      OBVIOUS
    <2>4. build' = [table EXCEPT ![b].status = "ready", ![b].active = FALSE,
                                 ![b].rows = IF IsProjection(b) THEN AllParts ELSE @]
      BY <2>2, <2>3
    <2>5. /\ DOMAIN table = Builds /\ table = [d \in Builds |-> table[d]] /\ table[b] = build[b]
          /\ table[e] = [build[e] EXCEPT !.status = "superseded"]
          /\ \A d \in Builds \ {b, e} : table[d] = build[d]
      BY <1>1, <2>1, <2>3
    <2>6. /\ DOMAIN build' = Builds /\ build' = [d \in Builds |-> build'[d]]
          /\ build'[b] = [table[b] EXCEPT !.status = "ready", !.active = FALSE,
                                          !.rows = IF IsProjection(b) THEN AllParts ELSE table[b].rows]
          /\ \A d \in Builds \ {b} : build'[d] = table[d]
      BY <2>4, <2>5
    <2>7. QED
      BY <2>1, <2>5, <2>6 DEF ReadyRow
  <1>3. CASE current[b[1]] \notin Builds \ {b}
    <2>1. Superseded(b[1], b) = build
      BY <1>3 DEF Superseded
    <2>2. build' = [build EXCEPT ![b].status = "ready", ![b].active = FALSE,
                                 ![b].rows = IF IsProjection(b) THEN AllParts ELSE @]
      BY <2>1
    <2>3. /\ DOMAIN build' = Builds /\ build' = [d \in Builds |-> build'[d]] /\ build'[b] = ReadyRow(b)
          /\ \A d \in Builds \ {b} : build'[d] = build[d]
      BY <1>1, <2>2 DEF ReadyRow
    <2>4. QED
      BY <1>3, <2>3
  <1>4. QED
    BY <1>2, <1>3

LEMMA ActivateStep ==
  ASSUME IInv, NEW x \in Processes, Activate(x)
  PROVE  IInv'
  <1>1. PICK b : b = proc[x].build
    OBVIOUS
  <1>2. /\ proc[x].pc = "activate" /\ UNCHANGED <<scan, known, requests, faults>>
        /\ build' = [Superseded(b[1], b) EXCEPT ![b].status = "ready", ![b].active = FALSE,
                                              ![b].rows = IF IsProjection(b) THEN AllParts ELSE @]
        /\ current' = [current EXCEPT ![b[1]] = b]
        /\ proc' = [proc EXCEPT ![x] = [proc[x] EXCEPT !.pc = "published"]]
        /\ missed' \in SUBSET (missed \cup Comparisons)
    BY <1>1 DEF Activate, Become
  <1>3. proc[x].pc \in AtWork /\ proc[x].pc \in Filling /\ proc[x].pc \in Begun
    BY <1>2 DEF AtWork, Filling, Begun
  <1>4. /\ b \in Builds /\ build[b] \in BuildRows /\ proc[x] \in ProcRows
        /\ RowOK(b) /\ CalmOK(b)
        /\ x = Cli => build[b].commanded
        /\ Calm(b) => Got(b, proc[x])
        /\ Going(x, b, proc[x])
    BY <1>1, <1>3, Here
  <1>5. PICK row : row = ReadyRow(b)
    OBVIOUS
  <1>6. /\ row \in BuildRows /\ row.status = "ready" /\ row.active = FALSE
        /\ row.rows = IF IsProjection(b) THEN AllParts ELSE build[b].rows
        /\ row.commanded = build[b].commanded /\ row.overwritten = build[b].overwritten
        /\ row.withdrawn = build[b].withdrawn
        /\ row.pins = build[b].pins /\ row.job = build[b].job /\ row.result = build[b].result
    <2>1. (IF IsProjection(b) THEN AllParts ELSE build[b].rows) \in SUBSET AllParts
      BY <1>4, BuildFields
    <2>2. QED
      BY <1>4, <1>5, <2>1 DEF ReadyRow, BuildRows
  <1>7. /\ DOMAIN build' = Builds /\ build' = [d \in Builds |-> build'[d]] /\ build'[b] = row
        /\ \A d \in Builds \ {b} :
              /\ d # current[b[1]] => build'[d] = build[d]
              /\ d = current[b[1]] => build'[d] = [build[d] EXCEPT !.status = "superseded"]
    BY <1>2, <1>4, <1>5, ActivateBuild
  <1>8. /\ current'[b[1]] = b /\ \A o \in Owners : o # b[1] => current'[o] = current[o]
        /\ current' \in [Owners -> Builds \cup {None}]
    BY <1>2, <1>4, Names, Parts0 DEF RestTyped
  <1>9. \A y \in Processes \ {x} : proc'[y] = proc[y]
    BY <1>2, Parts0
  <1>10. ASSUME NEW d \in Builds \ {b}
         PROVE  /\ \/ build'[d] = build[d]
                   \/ (Calm(d) => build[d].status = "ready") /\ build'[d] = [build[d] EXCEPT !.status = "superseded"]
                /\ Calm(d) => (build'[d].status = "ready" <=> current'[d[1]] = d)
    <2>1. /\ Calm(d) => (build[d].status = "ready" <=> current[d[1]] = d)
          /\ build[d] \in BuildRows /\ d[1] \in Owners
      BY Parts0, Names DEF CalmOK
    <2>2. CASE d = current[b[1]]
      <3>1. d[1] = b[1]
        BY <1>4, <2>2, Names, Parts0 DEF RestTyped
      <3>2. build'[d] = [build[d] EXCEPT !.status = "superseded"]
        BY <1>7, <2>2
      <3>3. build'[d].status = "superseded"
        BY <2>1, <3>2, SupersededRow
      <3>4. Calm(d) => build[d].status = "ready"
        BY <2>1, <2>2, <3>1
      <3>5. current'[d[1]] # d
        BY <1>8, <3>1
      <3>6. QED
        BY <3>2, <3>3, <3>4, <3>5
    <2>3. CASE d # current[b[1]]
      <3>1. build'[d] = build[d]
        BY <1>7, <2>3
      <3>2. current'[d[1]] = d <=> current[d[1]] = d
        BY <1>8, <2>1, <2>3
      <3>3. QED
        BY <2>1, <3>1, <3>2
    <2>4. QED
      BY <2>2, <2>3
  <1>11. Worked(x, b, row)
    BY <1>4, <1>6, <1>7, <1>9, <1>10 DEF Worked
  <1>12. ASSUME Onward, Calm(b)' PROVE CalmOK(b)'
    <2>1. Calm(b) /\ Got(b, proc[x])
      BY <1>4, <1>12, CalmBack
    <2>2. row.rows = AllParts
      BY <1>2, <1>6, <2>1 DEF Got, RowsAt
    <2>3. ~row.commanded => row.job = "running"
      BY <1>1, <1>3, <1>4, <1>6, Workplace
    <2>4. ASSUME NEW pins, pins = row.pins, pins # <<>>
          PROVE  /\ PinsThere(pins)'
                 /\ PinsSound(pins)' => PinsSound(pins)
      <3>1. b[1] \in Comparisons /\ PinsFit(b[1], pins) /\ PinsThere(pins)
        BY <1>4, <1>6, <2>1, <2>4, PinsOf DEF CalmOK
      <3>2. QED
        BY <1>12, <3>1, PinsOnward
    <2>5. ASSUME ~IsProjection(b)
          PROVE  row.pins # <<>> /\ (PinsSound(row.pins)' => AllDone(b)')
      <3>1. /\ row.pins = proc[x].pins /\ PinsFit(b[1], proc[x].pins)
            /\ PinsSound(row.pins) => DoneAt("activate", b)
        BY <1>2, <1>3, <1>4, <1>6, <2>1, <2>5 DEF Got, Going
      <3>2. row.pins # <<>>
        BY <3>1 DEF PinsFit
      <3>3. DoneAt("activate", b) => AllDone(b)
        BY DEF DoneAt, AllDone
      <3>4. AllDone(b) => AllDone(b)'
        BY <1>6, <1>7 DEF AllDone, PagesDone, EdgesDone, CountsDone
      <3>5. QED
        BY <2>4, <3>1, <3>2, <3>3, <3>4
    <2>6. row.pins # <<>> => PinsThere(row.pins)'
      BY <2>4
    <2>7. build'[b] = row /\ current'[b[1]] = b
      BY <1>7, <1>8
    <2>8. QED
      BY <1>6, <2>2, <2>3, <2>5, <2>6, <2>7 DEF CalmOK, IsProjection
  <1>13. OthersOK(x)'
    <2>1. Onward => CalmOK(b)'
      BY <1>12 DEF CalmOK
    <2>2. QED
      BY <1>1, <1>3, <1>6, <1>11, <2>1, Executed
  <1>14. RestTyped'
    <2>1. \A o \in Owners : current'[o] # None => current'[o][1] = o
      BY <1>4, <1>8, Parts0 DEF RestTyped
    <2>2. QED
      BY <1>2, <1>8, <2>1, Parts0 DEF RestTyped
  <1>15. PICK r : r = [proc[x] EXCEPT !.pc = "published"]
    OBVIOUS
  <1>16. r \in ProcRows /\ r.pc = "published" /\ r.job = proc[x].job /\ r.build = b
    BY <1>1, <1>4, <1>15 DEF ProcRows, Pcs, Executing
  <1>17. proc' = [proc EXCEPT ![x] = r] /\ proc'[x] = r
    BY <1>2, <1>15, Parts0
  <1>18. x \notin Clients /\ (x # Cli => x \in Workers /\ proc[x].job = b /\ build[b].job = "running")
    BY <1>1, <1>3, Workplace
  <1>19. Shape(x)'
    <2>1. /\ r.job \in Builds => x \in Workers /\ build'[r.job].job = "running"
          /\ x \notin Workers => r.job = None
          /\ x \in Workers => r.job = r.build
      BY <1>6, <1>7, <1>16, <1>18, Parts0, Actors, PipelineAssumption DEF Shape
    <2>2. r.build \in Builds /\ build'[r.build].status # "none" /\ ~build'[r.build].active
      BY <1>4, <1>6, <1>7, <1>16
    <2>3. QED
      BY <1>16, <1>17, <1>18, <2>1, <2>2 DEF Shape, Executing, AtWork, Filling
  <1>20. ExecOK(x)'
    BY <1>4, <1>6, <1>7, <1>16, <1>17 DEF ExecOK, AtWork, Filling
  <1>21. QED
    BY <1>13, <1>14, <1>16, <1>17, <1>19, <1>20, Together

LEMMA ReturnStep ==
  ASSUME IInv, NEW x \in Processes, Return(x)
  PROVE  IInv'
  <1>1. /\ proc[x].pc = "published" /\ UNCHANGED <<scan, build, current, known, missed, requests, faults>>
        /\ proc' = [proc EXCEPT ![x] = IF x = Cli THEN Idle ELSE [proc[x] EXCEPT !.pc = "returned"]]
    BY DEF Return, Become
  <1>2. RestTyped' /\ OthersOK(x)'
    <2>1. \A y \in Processes \ {x} : proc'[y] = proc[y]
      BY <1>1, Parts0
    <2>2. QED
      BY <1>1, <2>1, Parts0, Still DEF RestTyped
  <1>3. CASE x = Cli
    <2>1. proc' = [proc EXCEPT ![x] = Idle]
      BY <1>1, <1>3
    <2>2. QED
      BY <1>2, <2>1, Resting
  <1>4. CASE x # Cli
    <2>1. PICK r : r = [proc[x] EXCEPT !.pc = "returned"]
      OBVIOUS
    <2>2. PICK b : b = proc[x].build
      OBVIOUS
    <2>3. b \in Builds /\ proc[x] \in ProcRows /\ x \in Workers /\ proc[x].job = b /\ build[b].job = "running"
      BY <1>1, <1>4, <2>2, Seat
    <2>4. r \in ProcRows /\ r.pc = "returned" /\ r.job = proc[x].job
      BY <2>1, <2>3 DEF ProcRows, Pcs
    <2>5. proc' = [proc EXCEPT ![x] = r] /\ proc'[x] = r
      BY <1>1, <1>4, <2>1, Parts0
    <2>6. Shape(x)'
      BY <1>1, <2>3, <2>4, <2>5 DEF Shape, Executing, AtWork, Filling
    <2>7. ExecOK(x)'
      BY <2>4, <2>5, IdleOK DEF Executing, AtWork, Filling
    <2>8. QED
      BY <1>2, <2>4, <2>5, <2>6, <2>7, Together
  <1>5. QED
    BY <1>3, <1>4

-----------------------------------------------------------------------------
(***************************************************************************)
(* What a comparison has to say, as the evidence of its scans has it.      *)
(***************************************************************************)

\* The classes mean what differs.
LEMMA ClassIsMeaning ==
  ASSUME NEW before \in Observations \cup {Unseen}, NEW after \in Observations \cup {Unseen},
         ~(before = Unseen /\ after = Unseen)
  PROVE  PrimaryChangeClass(before, after) = Meaning(before, after)
  <1>1. CASE before = Unseen \/ after = Unseen
    BY <1>1 DEF PrimaryChangeClass, Presence, Meaning
  <1>2. CASE before # Unseen /\ after # Unseen
    <2>1. Presence(before, after) = "observed_in_both" /\ Unseen \notin {before, after}
      BY <1>2 DEF Presence
    <2>2. before \in Observations /\ after \in Observations
      BY <1>2
    <2>3. PICK D : D = Differing(before, after)
      OBVIOUS
    <2>4. /\ "text" \in D <=> before.text # after.text
          /\ "volatile" \in D <=> before.volatile # after.volatile
          /\ "version" \in D <=> before.version # after.version
          /\ "rest" \in D <=> before.rest # after.rest
          /\ "meta" \in D <=> before.meta # after.meta
          /\ "wire" \in D <=> before.wire # after.wire
          /\ D \subseteq {"text", "volatile", "version", "rest", "meta", "wire"}
      BY <2>3 DEF Differing
    <2>5. Source(before) = Source(after) <=>
            ~("text" \in D \/ "volatile" \in D \/ "version" \in D \/ "rest" \in D \/ "meta" \in D)
      BY <2>4 DEF Source
    <2>6. NormalizedSource(before) = NormalizedSource(after) <=>
            ~("text" \in D \/ "version" \in D \/ "rest" \in D \/ "meta" \in D)
      BY <2>4 DEF NormalizedSource
    <2>7. WithoutVersions(before) = WithoutVersions(after) <=>
            ~("text" \in D \/ "rest" \in D \/ "meta" \in D)
      BY <2>4 DEF WithoutVersions
    <2>8. CASE Analysed(before, after)
      <3>1. "nothing" \notin {before.kept, after.kept}
        BY <2>8 DEF Analysed
      <3>2. /\ DocumentState(before, after) = (IF "text" \in D THEN "changed" ELSE "same")
            /\ NormalizedState(before, after) = (IF NormalizedSource(before) = NormalizedSource(after)
                                                 THEN "same" ELSE "changed")
            /\ EqualityState(before, after) = (IF Source(before) = Source(after) THEN "same" ELSE "changed")
            /\ MetadataChanged(before, after) <=> "meta" \in D
        BY <2>4, <2>8, <3>1 DEF DocumentState, NormalizedState, SourceState, EqualityState, MetadataChanged
      <3>3. SourceDifferences(before, after) # {} <=>
              \/ "version" \in D
              \/ /\ NormalizedSource(before) # NormalizedSource(after)
                 /\ WithoutVersions(before) # WithoutVersions(after)
                 /\ "text" \notin D /\ "meta" \notin D
        <4>1. "dependency" \in SourceDifferences(before, after) <=> "version" \in D
          BY <2>4, <2>8 DEF SourceDifferences
        <4>2. "unclassified" \in SourceDifferences(before, after) <=>
                /\ NormalizedSource(before) # NormalizedSource(after)
                /\ WithoutVersions(before) # WithoutVersions(after)
                /\ "text" \notin D /\ "meta" \notin D
          BY <2>8, <3>2 DEF SourceDifferences
        <4>3. SourceDifferences(before, after) \subseteq {"dependency", "unclassified"}
          BY DEF SourceDifferences
        <4>4. QED
          BY <4>1, <4>2, <4>3
      <3>4. TechnicalChanged(before, after) <=> "wire" \in D \/ SourceDifferences(before, after) # {}
        BY <2>4 DEF TechnicalChanged
      <3>5. D = {"volatile"} <=> "volatile" \in D /\ ~("text" \in D \/ "version" \in D \/ "rest" \in D
                                                       \/ "meta" \in D \/ "wire" \in D)
        BY <2>4
      <3>6. D \cap {"version", "rest", "wire"} # {} <=> "version" \in D \/ "rest" \in D \/ "wire" \in D
        OBVIOUS
      <3>7. Meaning(before, after) =
              IF "text" \in D THEN "substantive_change"
              ELSE IF "meta" \in D THEN "metadata_change"
              ELSE IF "version" \in D \/ "rest" \in D \/ "wire" \in D THEN "technical_change"
              ELSE IF "volatile" \in D THEN "normalization_only" ELSE "no_tracked_change"
        BY <2>1, <2>3, <2>8, <3>5, <3>6 DEF Meaning
      <3>8. PrimaryChangeClass(before, after) =
              IF "text" \in D THEN "substantive_change"
              ELSE IF "meta" \in D THEN "metadata_change"
              ELSE IF "version" \in D \/ "rest" \in D \/ "wire" \in D THEN "technical_change"
              ELSE IF "volatile" \in D THEN "normalization_only" ELSE "no_tracked_change"
        BY <2>1, <2>5, <2>6, <2>7, <3>2, <3>3, <3>4 DEF PrimaryChangeClass
      <3>9. QED
        BY <3>7, <3>8
    <2>9. CASE ~Analysed(before, after)
      <3>1. SourceDifferences(before, after) = {}
        BY <2>9 DEF SourceDifferences
      <3>2. TechnicalChanged(before, after) <=> "wire" \in D
        BY <2>4, <3>1 DEF TechnicalChanged
      <3>3. MetadataChanged(before, after) <=> "meta" \in D
        BY <2>4 DEF MetadataChanged
      <3>4. /\ DocumentState(before, after) # "changed"
            /\ NormalizedState(before, after) = "same" <=> EqualityState(before, after) = "same"
        BY <2>9 DEF DocumentState, NormalizedState, SourceState
      <3>5. EqualityState(before, after) = "same" <=>
              Source(before) = Source(after) /\ "nothing" \notin {before.kept, after.kept}
        BY DEF EqualityState
      <3>6. D \ {"wire"} = {} <=>
              ~("text" \in D \/ "volatile" \in D \/ "version" \in D \/ "rest" \in D \/ "meta" \in D)
        BY <2>4
      <3>7. Meaning(before, after) =
              IF "meta" \in D THEN "metadata_change"
              ELSE IF "wire" \in D THEN "technical_change"
              ELSE IF Source(before) = Source(after) /\ "nothing" \notin {before.kept, after.kept}
                   THEN "no_tracked_change" ELSE "indeterminate"
        BY <2>1, <2>3, <2>5, <2>9, <3>6 DEF Meaning
      <3>8. PrimaryChangeClass(before, after) =
              IF "meta" \in D THEN "metadata_change"
              ELSE IF "wire" \in D THEN "technical_change"
              ELSE IF Source(before) = Source(after) /\ "nothing" \notin {before.kept, after.kept}
                   THEN "no_tracked_change" ELSE "indeterminate"
        BY <2>1, <3>2, <3>3, <3>4, <3>5 DEF PrimaryChangeClass
      <3>9. QED
        BY <3>7, <3>8
    <2>10. QED
      BY <2>8, <2>9
  <1>3. QED
    BY <1>1, <1>2

\* The sets that Expected is made of.
SeenIn(s) == {p \in Pages : Evidence[s][p] # Unseen}
EdgesIn(s) == {e \in SeenIn(s) \X Pages : Links[s][e] # Unseen}
Split(old, new) ==
  [observed_in_both |-> old \cap new, newly_observed |-> new \ old, not_observed_in_target |-> old \ new]

Labelled(c, label) ==
  IF label = "changed"
  THEN {e \in EdgesIn(c[1]) \cap EdgesIn(c[2]) : Links[c[1]][e] # Links[c[2]][e]}
  ELSE Split(EdgesIn(c[1]), EdgesIn(c[2]))[label]

ExpectedPage(c, p) ==
  IF p \notin SeenIn(c[1]) \cup SeenIn(c[2]) THEN NoRow
  ELSE <<CHOOSE st \in Presences : p \in Split(SeenIn(c[1]), SeenIn(c[2]))[st],
         Meaning(Evidence[c[1]][p], Evidence[c[2]][p])>>

ExpectedTopology(c, p) ==
  [label \in EdgeLabels |->
     [out |-> Cardinality({e \in Labelled(c, label) : p \in SeenIn(c[1]) \cup SeenIn(c[2]) /\ e[1] = p}),
      in  |-> Cardinality({e \in Labelled(c, label) : p \in SeenIn(c[1]) \cup SeenIn(c[2]) /\ e[2] = p})]]

LEMMA ExpectedForm ==
  ASSUME NEW c \in Comparisons
  PROVE  /\ Expected[c].pages = [p \in Pages |-> ExpectedPage(c, p)]
         /\ Expected[c].topology = [p \in Pages |-> ExpectedTopology(c, p)]
         /\ Expected[c].counts =
              <<[st \in Presences |-> Cardinality(Split(SeenIn(c[1]), SeenIn(c[2]))[st])],
                [st \in Presences |-> Cardinality(Split(EdgesIn(c[1]), EdgesIn(c[2]))[st])]>>
  BY DEF Expected, SeenIn, EdgesIn, Split, Labelled, ExpectedPage, ExpectedTopology

LEMMA PresenceIs ==
  ASSUME NEW before, NEW after
  PROVE  LET row == PageRow(before, after)  edge == FieldRow(before, after)
         IN /\ before = Unseen /\ after = Unseen => row = NoRow /\ edge = NoRow
            /\ ~(before = Unseen /\ after = Unseen) =>
                 /\ row[1] = Presence(before, after) /\ edge[1] = Presence(before, after)
                 /\ edge[2] = (IF before = Unseen \/ after = Unseen THEN "not_applicable"
                               ELSE IF before # after THEN "changed" ELSE "no_tracked_change")
                 /\ row # NoRow
            /\ row[1] = "observed_in_both" <=> before # Unseen /\ after # Unseen
            /\ row[1] = "newly_observed" <=> before = Unseen /\ after # Unseen
            /\ row[1] = "not_observed_in_target" <=> before # Unseen /\ after = Unseen
            /\ edge[1] = row[1]
  BY DEF PageRow, FieldRow, Presence, NoRow

LEMMA PagesExpected ==
  ASSUME NEW c \in Comparisons
  PROVE  Expected[c].pages = PagesOf(c)
  <1>1. ASSUME NEW p \in Pages
        PROVE  PagesOf(c)[p] = ExpectedPage(c, p)
    <2>1. PICK before, after : before = Evidence[c[1]][p] /\ after = Evidence[c[2]][p]
      OBVIOUS
    <2>2. before \in Observations \cup {Unseen} /\ after \in Observations \cup {Unseen}
      BY <1>1, <2>1, Pair, PipelineAssumption
    <2>3. /\ p \in SeenIn(c[1]) <=> before # Unseen
          /\ p \in SeenIn(c[2]) <=> after # Unseen
          /\ PagesOf(c)[p] = PageRow(before, after)
      BY <2>1 DEF SeenIn, PagesOf
    <2>4. CASE before = Unseen /\ after = Unseen
      BY <2>3, <2>4, PresenceIs DEF ExpectedPage
    <2>5. CASE ~(before = Unseen /\ after = Unseen)
      <3>1. PagesOf(c)[p] = <<Presence(before, after), Meaning(before, after)>>
        BY <2>2, <2>3, <2>5, ClassIsMeaning DEF PageRow
      <3>2. PICK sets : sets = Split(SeenIn(c[1]), SeenIn(c[2]))
        OBVIOUS
      <3>3. /\ Presence(before, after) \in Presences
            /\ \A st \in Presences : p \in sets[st] <=> st = Presence(before, after)
        BY <2>3, <2>5, <3>2 DEF Split, Presences, Presence
      <3>4. (CHOOSE st \in Presences : p \in sets[st]) = Presence(before, after)
        BY <3>3
      <3>5. QED
        BY <2>1, <2>3, <2>5, <3>1, <3>2, <3>4 DEF ExpectedPage
    <2>6. QED
      BY <2>4, <2>5
  <1>2. PagesOf(c) = [p \in Pages |-> PagesOf(c)[p]]
    BY DEF PagesOf
  <1>3. QED
    BY <1>1, <1>2, ExpectedForm

\* The presences of pages and of edges, as sets.
LEMMA RowsOfSets ==
  ASSUME NEW c \in Comparisons, NEW st \in Presences
  PROVE  /\ {p \in Pages : PagesOf(c)[p][1] = st} = Split(SeenIn(c[1]), SeenIn(c[2]))[st]
         /\ {e \in Pages \X Pages : EdgeRowsOf(c)[e][1] = st} = Split(EdgesIn(c[1]), EdgesIn(c[2]))[st]
  <1>1. ASSUME NEW p \in Pages
        PROVE  PagesOf(c)[p][1] = st <=> p \in Split(SeenIn(c[1]), SeenIn(c[2]))[st]
    <2>1. PICK before, after : before = Evidence[c[1]][p] /\ after = Evidence[c[2]][p]
      OBVIOUS
    <2>2. /\ p \in SeenIn(c[1]) <=> before # Unseen
          /\ p \in SeenIn(c[2]) <=> after # Unseen
          /\ PagesOf(c)[p] = PageRow(before, after)
      BY <2>1 DEF SeenIn, PagesOf
    <2>3. PICK row : row = PageRow(before, after)
      OBVIOUS
    <2>4. /\ row[1] = "observed_in_both" <=> before # Unseen /\ after # Unseen
          /\ row[1] = "newly_observed" <=> before = Unseen /\ after # Unseen
          /\ row[1] = "not_observed_in_target" <=> before # Unseen /\ after = Unseen
      BY <2>3, PresenceIs
    <2>5. PICK old, new : old = SeenIn(c[1]) /\ new = SeenIn(c[2])
      OBVIOUS
    <2>6. row[1] = st <=> p \in Split(old, new)[st]
      BY <2>2, <2>4, <2>5 DEF Split, Presences
    <2>7. QED
      BY <2>2, <2>3, <2>5, <2>6
  <1>2. ASSUME NEW e \in Pages \X Pages
        PROVE  EdgeRowsOf(c)[e][1] = st <=> e \in Split(EdgesIn(c[1]), EdgesIn(c[2]))[st]
    <2>1. PICK before, after : before = SeenEdge(c[1], e) /\ after = SeenEdge(c[2], e)
      OBVIOUS
    <2>2. /\ e \in EdgesIn(c[1]) <=> before # Unseen
          /\ e \in EdgesIn(c[2]) <=> after # Unseen
          /\ EdgeRowsOf(c)[e] = FieldRow(before, after)
      BY <2>1 DEF SeenIn, EdgesIn, EdgeRowsOf, SeenEdge
    <2>3. PICK row : row = FieldRow(before, after)
      OBVIOUS
    <2>4. /\ row[1] = "observed_in_both" <=> before # Unseen /\ after # Unseen
          /\ row[1] = "newly_observed" <=> before = Unseen /\ after # Unseen
          /\ row[1] = "not_observed_in_target" <=> before # Unseen /\ after = Unseen
      BY <2>3, PresenceIs
    <2>5. PICK old, new : old = EdgesIn(c[1]) /\ new = EdgesIn(c[2])
      OBVIOUS
    <2>6. row[1] = st <=> e \in Split(old, new)[st]
      BY <2>2, <2>4, <2>5 DEF Split, Presences
    <2>7. QED
      BY <2>2, <2>3, <2>5, <2>6
  <1>3. /\ Split(SeenIn(c[1]), SeenIn(c[2]))[st] \subseteq Pages
        /\ Split(EdgesIn(c[1]), EdgesIn(c[2]))[st] \subseteq Pages \X Pages
    BY DEF Split, SeenIn, EdgesIn, Presences
  <1>4. QED
    BY <1>1, <1>2, <1>3

LEMMA CountsExpected ==
  ASSUME NEW c \in Comparisons
  PROVE  Expected[c].counts = CountsOf(c)
  <1>1. DOMAIN PagesOf(c) = Pages /\ DOMAIN EdgeRowsOf(c) = Pages \X Pages
    BY DEF PagesOf, EdgeRowsOf
  <1>2. ResultCounts(PagesOf(c)) = [st \in Presences |-> Cardinality(Split(SeenIn(c[1]), SeenIn(c[2]))[st])]
    BY <1>1, RowsOfSets DEF ResultCounts
  <1>3. ResultCounts(EdgeRowsOf(c)) = [st \in Presences |-> Cardinality(Split(EdgesIn(c[1]), EdgesIn(c[2]))[st])]
    BY <1>1, RowsOfSets DEF ResultCounts
  <1>4. QED
    BY <1>2, <1>3, ExpectedForm DEF CountsOf

\* The edges that count under a label.
LEMMA LabelledRows ==
  ASSUME NEW c \in Comparisons, NEW label \in EdgeLabels
  PROVE  {e \in Pages \X Pages : Label(EdgeRowsOf(c)[e]) = label} = Labelled(c, label)
  <1>1. ASSUME NEW e \in Pages \X Pages
        PROVE  Label(EdgeRowsOf(c)[e]) = label <=> e \in Labelled(c, label)
    <2>1. PICK before, after : before = SeenEdge(c[1], e) /\ after = SeenEdge(c[2], e)
      OBVIOUS
    <2>2. /\ e \in EdgesIn(c[1]) <=> before # Unseen
          /\ e \in EdgesIn(c[2]) <=> after # Unseen
          /\ EdgeRowsOf(c)[e] = FieldRow(before, after)
          /\ before # Unseen => before = Links[c[1]][e]
          /\ after # Unseen => after = Links[c[2]][e]
      BY <2>1 DEF SeenIn, EdgesIn, EdgeRowsOf, SeenEdge
    <2>3. PICK row : row = FieldRow(before, after)
      OBVIOUS
    <2>4. Label(row) = label <=>
            \/ label = "newly_observed" /\ before = Unseen /\ after # Unseen
            \/ label = "not_observed_in_target" /\ before # Unseen /\ after = Unseen
            \/ label = "changed" /\ before # Unseen /\ after # Unseen /\ before # after
      BY <2>3 DEF Label, EdgeLabels, FieldRow, Presence, NoRow
    <2>5. e \in Labelled(c, label) <=>
            \/ label = "newly_observed" /\ before = Unseen /\ after # Unseen
            \/ label = "not_observed_in_target" /\ before # Unseen /\ after = Unseen
            \/ label = "changed" /\ before # Unseen /\ after # Unseen /\ before # after
      BY <2>2 DEF Labelled, Split, EdgeLabels
    <2>6. QED
      BY <2>2, <2>3, <2>4, <2>5
  <1>2. Labelled(c, label) \subseteq Pages \X Pages
    BY DEF Labelled, Split, EdgesIn, SeenIn, EdgeLabels
  <1>3. QED
    BY <1>1, <1>2

LEMMA TopologyExpected ==
  ASSUME NEW c \in Comparisons
  PROVE  Expected[c].topology = TopologyOf(c)
  <1>1. ASSUME NEW p \in Pages
        PROVE  TopologyOf(c)[p] = ExpectedTopology(c, p)
    <2>1. PagesOf(c)[p] = NoRow <=> p \notin SeenIn(c[1]) \cup SeenIn(c[2])
      <3>1. PICK before, after : before = Evidence[c[1]][p] /\ after = Evidence[c[2]][p]
        OBVIOUS
      <3>2. /\ p \in SeenIn(c[1]) <=> before # Unseen
            /\ p \in SeenIn(c[2]) <=> after # Unseen
            /\ PagesOf(c)[p] = PageRow(before, after)
        BY <3>1 DEF SeenIn, PagesOf
      <3>3. PageRow(before, after) = NoRow <=> before = Unseen /\ after = Unseen
        BY PresenceIs
      <3>4. QED
        BY <3>2, <3>3
    <2>2. CASE p \notin SeenIn(c[1]) \cup SeenIn(c[2])
      <3>1. TopologyOf(c)[p] = NoTopology
        BY <2>1, <2>2 DEF TopologyOf
      <3>2. \A label : /\ {e \in Labelled(c, label) : p \in SeenIn(c[1]) \cup SeenIn(c[2]) /\ e[1] = p} = {}
                       /\ {e \in Labelled(c, label) : p \in SeenIn(c[1]) \cup SeenIn(c[2]) /\ e[2] = p} = {}
        BY <2>2
      <3>3. Cardinality({}) = 0
        BY FS_EmptySet
      <3>4. QED
        BY <3>1, <3>2, <3>3 DEF NoTopology, ExpectedTopology
    <2>3. CASE p \in SeenIn(c[1]) \cup SeenIn(c[2])
      <3>1. TopologyOf(c)[p] = Topology(EdgeRowsOf(c), p) /\ DOMAIN EdgeRowsOf(c) = Pages \X Pages
        BY <2>1, <2>3 DEF TopologyOf, EdgeRowsOf
      <3>2. ASSUME NEW label \in EdgeLabels
            PROVE  /\ {e \in Pages \X Pages : e[1] = p /\ Label(EdgeRowsOf(c)[e]) = label}
                        = {e \in Labelled(c, label) : p \in SeenIn(c[1]) \cup SeenIn(c[2]) /\ e[1] = p}
                   /\ {e \in Pages \X Pages : e[2] = p /\ Label(EdgeRowsOf(c)[e]) = label}
                        = {e \in Labelled(c, label) : p \in SeenIn(c[1]) \cup SeenIn(c[2]) /\ e[2] = p}
        BY <2>3, LabelledRows
      <3>3. QED
        BY <3>1, <3>2 DEF Topology, ExpectedTopology
    <2>4. QED
      BY <2>2, <2>3
  <1>2. TopologyOf(c) = [p \in Pages |-> TopologyOf(c)[p]]
    BY DEF TopologyOf
  <1>3. QED
    BY <1>1, <1>2, ExpectedForm

-----------------------------------------------------------------------------
(***************************************************************************)
(* The invariant holds at first, is kept, and says what readers are shown. *)
(***************************************************************************)

LEMMA InitInv == Init => IInv
  <1>1. SUFFICES ASSUME Init PROVE IInv
    OBVIOUS
  <1>2. /\ \A b \in Builds : build[b] = Unbuilt
        /\ \A x \in Processes : proc[x] = Idle
        /\ \A o \in Owners : current[o] = None
    BY <1>1 DEF Init
  <1>3. RestTyped
    <2>1. scan \in [Scans -> [status: {"running", "completed", "unsuccessful"},
                              job: {"running", "ended", "interrupted"}]]
      BY <1>1 DEF Init
    <2>2. current \in [Owners -> Builds \cup {None}] /\ known = {} /\ missed = {} /\ requests = 0 /\ faults = 0
      BY <1>1 DEF Init
    <2>3. 0 \in 0..MaxRequests /\ 0 \in 0..MaxFaults
      BY PipelineAssumption
    <2>4. QED
      BY <1>2, <2>1, <2>2, <2>3 DEF RestTyped
  <1>4. Typed
    BY <1>1, <1>3, UnbuiltTyped, IdleTyped DEF Init, Typed
  <1>5. OneActive
    BY <1>2, UnbuiltFields DEF OneActive
  <1>6. OneHolder
    BY <1>2, IdleTyped, PipelineAssumption DEF OneHolder
  <1>7. ASSUME NEW b \in Builds PROVE RowOK(b) /\ CalmOK(b)
    <2>1. build[b] = Unbuilt /\ current[b[1]] # b
      BY <1>2, Names
    <2>2. QED
      BY <2>1, UnbuiltFields DEF RowOK, CalmOK, Settled
  <1>8. ASSUME NEW x \in Processes PROVE Shape(x) /\ ExecOK(x)
    <2>1. proc[x].pc = "idle" /\ proc[x].job = None
      BY <1>2, IdleTyped
    <2>2. QED
      BY <2>1, PipelineAssumption DEF Shape, ExecOK, Executing, AtWork, Filling
  <1>9. QED
    BY <1>4, <1>5, <1>6, <1>7, <1>8 DEF IInv, Structure

LEMMA ProcessStep ==
  ASSUME IInv, NEW x \in Processes, Create(x) \/ Execute(x) \/ Settle(x) \/ Stop(x) \/ Die(x) \/ Crash(x)
  PROVE  IInv'
  <1>1. CASE Create(x)
    BY <1>1, InsertStep, EnqueueStep, GoesIdle DEF Create
  <1>2. CASE Execute(x)
    <2>1. CASE CommandExecutes(x) \/ Terminalize(x) \/ Stop(x)
      BY <2>1, CommandExecutesStep, TerminalizeStep, StopStep
    <2>2. CASE StartProjection(x) \/ StartComparison(x) \/ Pin(x) \/ Clear(x)
      BY <2>2, StartProjectionStep, StartComparisonStep, PinStep, ClearStep
    <2>3. CASE \E n \in 1..3 : InsertRows(x, n)
      BY <2>3, InsertRowsStep
    <2>4. CASE Activate(x) \/ Return(x) \/ RemoveStaged(x) \/ MarkFailed(x)
      BY <2>4, ActivateStep, ReturnStep, RemoveStagedStep, MarkFailedStep
    <2>5. QED
      BY <1>2, <2>1, <2>2, <2>3, <2>4 DEF Execute
  <1>3. CASE Settle(x)
    BY <1>3, SettleReadStep, SettleWokenStep, SettleAdjacentStep, ScanFollowupStep DEF Settle
  <1>4. CASE Stop(x)
    BY <1>4, StopStep
  <1>5. CASE Die(x) \/ Crash(x)
    BY <1>5, GoesIdle
  <1>6. QED
    BY <1>1, <1>2, <1>3, <1>4, <1>5

LEMMA Stutter ==
  ASSUME IInv, UNCHANGED vars
  PROVE  IInv'
  <1>1. UNCHANGED <<scan, build, current, known, proc, missed, requests, faults>>
    BY DEF vars
  <1>2. PICK z : z \notin Processes
    BY Nobody
  <1>3. OthersOK(z)'
    BY <1>1, Still
  <1>4. RestTyped'
    BY <1>1, Parts0 DEF RestTyped
  <1>5. QED
    BY <1>1, <1>2, <1>3, <1>4, Unattended

LEMMA NextInv == IInv /\ [Next]_vars => IInv'
  <1>1. SUFFICES ASSUME IInv, [Next]_vars PROVE IInv'
    OBVIOUS
  <1>2. CASE \E x \in Processes : Create(x) \/ Execute(x) \/ Settle(x) \/ Stop(x) \/ Die(x) \/ Crash(x)
    BY <1>1, <1>2, ProcessStep
  <1>3. CASE \E x \in Workers, b \in Builds : Claim(x, b) \/ RecoverBuild(x, b)
    BY <1>1, <1>3, ClaimStep, RecoverBuildStep
  <1>4. CASE \E x \in Workers, s \in Scans : ScanEnds(x, s) \/ RecoverScan(x, s)
    BY <1>1, <1>4, ScanEndsStep, RecoverScanStep
  <1>5. CASE \E x \in Clients \cup {Cli}, o \in Owners, force \in BOOLEAN : Ask(x, o, force)
    <2>1. Clients \cup {Cli} \subseteq Processes
      BY DEF Processes
    <2>2. QED
      BY <1>1, <1>5, <2>1, AskStep
  <1>6. CASE \E b \in Builds : Cancel(b)
    BY <1>1, <1>6, CancelStep
  <1>7. CASE UNCHANGED vars
    BY <1>1, <1>7, Stutter
  <1>8. QED
    BY <1>1, <1>2, <1>3, <1>4, <1>5, <1>6, <1>7 DEF Next

LEMMA TypeFromInv == IInv => TypeOK
  <1>1. SUFFICES ASSUME IInv PROVE TypeOK
    OBVIOUS
  <1>2. RestTyped /\ build \in [Builds -> BuildRows]
    BY <1>1, Parts0
  <1>3. ASSUME NEW o \in Owners
        PROVE  Cardinality({b \in Builds : b[1] = o /\ build[b].active}) <= 1
    <2>1. CASE {b \in Builds : b[1] = o /\ build[b].active} = {}
      BY <2>1, FS_EmptySet
    <2>2. CASE {b \in Builds : b[1] = o /\ build[b].active} # {}
      <3>1. PICK b \in Builds : b[1] = o /\ build[b].active
        BY <2>2
      <3>2. {d \in Builds : d[1] = o /\ build[d].active} = {b}
        BY <1>1, <3>1, Parts0 DEF OneActive
      <3>3. Cardinality({b}) = 1
        BY FS_Singleton
      <3>4. QED
        BY <3>2, <3>3
    <2>3. QED
      BY <2>1, <2>2
  <1>4. QED
    BY <1>2, <1>3 DEF RestTyped, TypeOK

LEMMA WholeFromInv == IInv => ReadyIsWhole
  <1>1. SUFFICES ASSUME IInv, NEW b \in Builds, Undisturbed(b)
                 PROVE  /\ build[b].status = "ready" <=> current[b[1]] = b
                        /\ build[b].status = "ready" => build[b].rows = AllParts /\ ~build[b].active
                        /\ build[b].status \in {"ready", "superseded"} /\ ~IsProjection(b) =>
                             \A part \in {"pages", "topology", "counts"} :
                               build[b].result[part] = Expected[b[1]][part]
                        /\ build[b].status \in {"failed", "cancelled"} /\ IsProjection(b) => build[b].rows = {}
    BY DEF ReadyIsWhole
  <1>2. Calm(b) /\ CalmOK(b)
    BY <1>1, Parts0 DEF Undisturbed, Calm, Lost
  <1>3. /\ build[b].status = "ready" <=> current[b[1]] = b
        /\ build[b].status = "ready" => build[b].rows = AllParts /\ ~build[b].active
        /\ build[b].status \in {"failed", "cancelled"} /\ IsProjection(b) => build[b].rows = {}
    BY <1>2 DEF CalmOK, Settled
  <1>4. ASSUME build[b].status \in {"ready", "superseded"}, ~IsProjection(b), NEW part \in {"pages", "topology", "counts"}
        PROVE  build[b].result[part] = Expected[b[1]][part]
    <2>1. b[1] \in Comparisons
      BY <1>4, Names
    <2>2. build[b].pins # <<>> /\ (PinsSound(build[b].pins) => AllDone(b))
      BY <1>2, <1>4 DEF CalmOK, Settled
    <2>3. PinsSound(build[b].pins)
      BY <1>1, <2>2 DEF Undisturbed, PinsSound, Lost
    <2>4. /\ build[b].result.pages = PagesOf(b[1]) /\ build[b].result.topology = TopologyOf(b[1])
          /\ build[b].result.counts = CountsOf(b[1])
      BY <2>2, <2>3 DEF AllDone, PagesDone, EdgesDone, CountsDone
    <2>5. /\ Expected[b[1]].pages = PagesOf(b[1]) /\ Expected[b[1]].topology = TopologyOf(b[1])
          /\ Expected[b[1]].counts = CountsOf(b[1])
      BY <2>1, PagesExpected, TopologyExpected, CountsExpected
    <2>6. part = "pages" \/ part = "topology" \/ part = "counts"
      BY <1>4
    <2>7. QED
      BY <2>4, <2>5, <2>6
  <1>5. QED
    BY <1>3, <1>4

\* Builds, pointers, processes and their bounds are what the tables may hold, and no scan and no
\* comparison has two builds under way (the unique active key of a build).
THEOREM PipelineTypeCorrect == Spec => []TypeOK
  BY InitInv, NextInv, TypeFromInv, PTL DEF Spec

\* What readers are shown is whole (execute_projection_build, execute_comparison_build): of every
\* build that no command and job share and nobody gave up after its activation, made from
\* projections of which that is true as well, the pointer selects it exactly if it is ready, all
\* its rows are there, and a comparison says of every page, of the edges of every page and in its
\* counts what the evidence of its two scans says; a failed projection has left no row.
THEOREM WhatIsShownIsWhole == Spec => []ReadyIsWhole
  BY InitInv, NextInv, WholeFromInv, PTL DEF Spec

===============================================================================
