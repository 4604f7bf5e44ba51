-------------------------- MODULE CollectionProofs --------------------------
(***************************************************************************)
(* More theorems about EvidenceRetention, for any number of pages, runs,   *)
(* plans, contents, requests and faults: the counters of a completed run   *)
(* add up, plans collect a page once, and a plan that says "completed" is. *)
(*                                                                         *)
(* Two invariants carry them.  The first is about one run, its evidence    *)
(* and its executor, and knows of nothing else.  The second is about       *)
(* plans, and knows of runs only what they are for, whether their jobs are *)
(* active, and that a completed job collected every page.                  *)
(***************************************************************************)
EXTENDS EvidenceRetentionProofs, WellFoundedInduction

-----------------------------------------------------------------------------
(* One run.                                                                *)

\* The pages an executor is through with.
Seen(row, e) == row.targets \ e.todo

Final == {"ready", "failed", "skipped"}

With(o, S, states) == {p \in S : o[p].state \in states}

\* No evidence, and nothing counted.
Blank(row, o) ==
  /\ \A p \in Pages : o[p].state = "none"
  /\ row.attempted = 0 /\ row.ready = 0 /\ row.failed = 0 /\ row.skipped = 0

\* The counters are those of the pages of S.
Counts(row, o, S) ==
  /\ row.ready = Cardinality(With(o, S, {"ready"}))
  /\ row.failed = Cardinality(With(o, S, {"failed"}))
  /\ row.skipped = Cardinality(With(o, S, {"skipped"}))

\* The page an executor is at, and what it knows of it by then.
AtPage(o, e) ==
  e.todo # {} =>
    LET p == Least(e.todo)
    IN CASE e.at \in {"next", "picked"} -> o[p].state = "none"
         [] e.at = "counting" -> o[p].state \in Final
         [] OTHER -> TRUE

\* The page an executor is at has been attempted.
Tried(o, e) ==
  \/ e.at \in {"visit", "stored"}
  \/ e.at = "counting" /\ o[Least(e.todo)].state # "skipped"

\* Attempts of a render run: a page that was not skipped was attempted.
Attempted(row, o, e) ==
  LET tried == Cardinality(With(o, Seen(row, e), {"ready", "failed"}))
  IN row.attempted = IF Tried(o, e) THEN tried + 1 ELSE tried

\* An executor at work: the pages behind it are answered and counted, those before it are not.
AtWork(row, o, e) ==
  /\ e.todo \subseteq row.targets
  /\ e.at # "next" => e.todo # {}
  /\ \A p \in Seen(row, e) : o[p].state \in Final
  /\ \A p \in Pages \ row.targets : o[p].state = "none"
  /\ \A p \in e.todo : (\E q \in e.todo : q < p) => o[p].state = "none"
  /\ AtPage(o, e)
  /\ Counts(row, o, Seen(row, e))
  /\ row.domain = "render" => Attempted(row, o, e)

\* A run that completed.
Counted(row, o) ==
  /\ row.ready + row.failed + row.skipped = Cardinality(row.targets)
  /\ row.domain = "render" => row.attempted = Cardinality(row.targets) - row.skipped
  /\ \A p \in row.targets : o[p].state \in Final \cup {"none"}

Completed == {"completed", "completed_with_errors"}

RunOK(row, o, e) ==
  /\ row = NoRun \/ row.job = "queued" \/ (row.job = "running" /\ e.at = "start") => Blank(row, o)
  /\ row.job = "queued" \/ (row.job = "running" /\ e.at = "start") => row.status = "queued"
  /\ row.job = "running" /\ e.at \in Working \ {"stopping"} => AtWork(row, o, e)
  /\ row.job = "running" /\ e.at = "done" => row.status \in Completed \cup {"cancelled"}
  /\ row.status \in Completed => Counted(row, o)
  /\ row.status = "completed" => /\ ~WithErrors(row)
                                 /\ \A p \in row.targets : o[p].state \in {"ready", "none"}
  /\ row.job = "completed" => row.ready = Cardinality(row.targets)

RunsOK == \A r \in Runs : RunOK(run[r], obs[r], exec[r])

\* Observations are deleted of runs that have ended; a deletion that has only been guarded
\* collects payloads.
EndedOnly ==
  /\ del.pc = "checked" /\ del.kind = "observation" => \A r \in del.runs : run[r].status \in Terminal
  /\ del.pc = "guarded" => del.kind = "gc"

-----------------------------------------------------------------------------
(* Plans.                                                                  *)

\* A batch is a run of the plan's, and no other run's; together the batches have the plan's pages.
PlanOK(i) ==
  /\ \A r \in Batches(i) \ {Gone} :
       /\ run[r].job # "none"
       /\ run[r].domain = plan[i].domain
  /\ Gone \in Batches(i) \/ UNION {run[r].targets : r \in Batches(i)} = plan[i].targets

PlansOK == CollectedOnce /\ \A i \in Plans : PlanOK(i)

-----------------------------------------------------------------------------
CInv == RunsOK /\ EndedOnly /\ PlansOK

-----------------------------------------------------------------------------
(* The pages of a run.                                                     *)

\* The page visited next is the first of those left.
LEMMA LeastIsFirst ==
  ASSUME NEW S, S \subseteq Nat, S # {}
  PROVE  Least(S) \in S /\ \A q \in S : Least(S) <= q
  <1>1. PICK n \in S : \A m \in S : <<m, n>> \notin OpToRel(<, Nat)
    BY WFMin, NatLessThanWellFounded, Zenon
  <1>2. \A m \in S : ~(m < n)
    BY <1>1, Zenon DEF OpToRel
  <1>3. \A m \in S : n <= m
    BY <1>2
  <1> QED
    BY <1>3 DEF Least

\* Types of a run, its evidence and its executor.
Typed(b, o, e) == b \in RunRows /\ o \in [Pages -> Observations] /\ e \in Executors

LEMMA TypedFields ==
  ASSUME NEW b, NEW o, NEW e, Typed(b, o, e)
  PROVE  /\ b.targets \subseteq Pages /\ e.todo \subseteq Pages
         /\ \A p \in Pages : o[p].state \in ObsStates
         /\ b.ready \in Nat /\ b.failed \in Nat /\ b.skipped \in Nat /\ b.attempted \in Nat
         /\ Pages \subseteq Nat /\ IsFiniteSet(Pages)
  BY CollectionAssumption DEF Typed, RunRows, Observations, Executors

LEMMA WithFinite ==
  ASSUME NEW o, NEW S, S \subseteq Pages, NEW states
  PROVE  /\ With(o, S, states) \subseteq S /\ IsFiniteSet(With(o, S, states)) /\ IsFiniteSet(S)
         /\ Cardinality(With(o, S, states)) \in Nat
  <1>1. With(o, S, states) \subseteq S
    BY DEF With
  <1>2. IsFiniteSet(S)
    BY FS_Subset, CollectionAssumption
  <1> QED
    BY <1>1, <1>2, FS_Subset, FS_CardinalityType

\* Pages with one of two states.
LEMMA WithBoth ==
  ASSUME NEW o, NEW S, S \subseteq Pages, NEW T, NEW U, T \cap U = {}
  PROVE  Cardinality(With(o, S, T \cup U)) = Cardinality(With(o, S, T)) + Cardinality(With(o, S, U))
  <1> DEFINE A == With(o, S, T)
             B == With(o, S, U)
  <1>1. With(o, S, T \cup U) = A \cup B /\ A \cap B = {}
    BY DEF With
  <1>2. IsFiniteSet(A) /\ IsFiniteSet(B) /\ Cardinality(A) \in Nat /\ Cardinality(B) \in Nat
    BY WithFinite
  <1>3. Cardinality(A \cup B) = Cardinality(A) + Cardinality(B) - Cardinality(A \cap B)
    BY <1>2, FS_Union
  <1>4. Cardinality(A \cap B) = 0
    BY <1>1, FS_EmptySet
  <1> HIDE DEF A, B
  <1>5. Cardinality(A \cup B) = Cardinality(A) + Cardinality(B)
    BY <1>2, <1>3, <1>4
  <1> QED
    BY <1>1, <1>5 DEF A, B

\* What is behind an executor that is through with all pages.
LEMMA AllAnswered ==
  ASSUME NEW o, NEW S, S \subseteq Pages, \A p \in S : o[p].state \in Final
  PROVE  /\ Cardinality(With(o, S, {"ready"})) + Cardinality(With(o, S, {"failed"}))
              + Cardinality(With(o, S, {"skipped"})) = Cardinality(S)
         /\ Cardinality(With(o, S, {"ready", "failed"}))
              = Cardinality(S) - Cardinality(With(o, S, {"skipped"}))
  <1>1. S = With(o, S, {"ready", "failed"} \cup {"skipped"})
    BY DEF With, Final
  <1>2. Cardinality(S) = Cardinality(With(o, S, {"ready", "failed"})) + Cardinality(With(o, S, {"skipped"}))
    <2>1. Cardinality(With(o, S, {"ready", "failed"} \cup {"skipped"}))
            = Cardinality(With(o, S, {"ready", "failed"})) + Cardinality(With(o, S, {"skipped"}))
      BY WithBoth
    <2> QED
      BY <1>1, <2>1
  <1>3. Cardinality(With(o, S, {"ready", "failed"}))
          = Cardinality(With(o, S, {"ready"})) + Cardinality(With(o, S, {"failed"}))
    <2>1. {"ready", "failed"} = {"ready"} \cup {"failed"}
      OBVIOUS
    <2>2. Cardinality(With(o, S, {"ready"} \cup {"failed"}))
            = Cardinality(With(o, S, {"ready"})) + Cardinality(With(o, S, {"failed"}))
      BY WithBoth
    <2> QED
      BY <2>1, <2>2
  <1>4. /\ Cardinality(With(o, S, {"ready"})) \in Nat /\ Cardinality(With(o, S, {"failed"})) \in Nat
        /\ Cardinality(With(o, S, {"skipped"})) \in Nat /\ Cardinality(With(o, S, {"ready", "failed"})) \in Nat
    BY WithFinite
  <1> QED
    BY <1>2, <1>3, <1>4

\* Nothing behind, nothing counted.
LEMMA NothingSeen ==
  ASSUME NEW o, NEW states
  PROVE  With(o, {}, states) = {} /\ Cardinality(With(o, {}, states)) = 0
  BY FS_EmptySet DEF With

\* Rows and observations that differ in nothing that was counted, and in one page.
SameCounters(b, b1) ==
  /\ b1.targets = b.targets /\ b1.domain = b.domain
  /\ b1.ready = b.ready /\ b1.failed = b.failed /\ b1.skipped = b.skipped

SameButAt(o, o1, l) == \A p \in Pages : p # l => o1[p].state = o[p].state

\* An attempt is counted as it is made.
SameAttempts(b, o, e, b1, o1, e1) ==
  \/ b1.attempted = b.attempted /\ (Tried(o1, e1) <=> Tried(o, e))
  \/ b1.attempted = b.attempted + 1 /\ Tried(o1, e1) /\ ~Tried(o, e)

\* An executor that looks at its page, or notes something of it, knows of the others what it knew.
LEMMA PageNoted ==
  ASSUME NEW b, NEW o, NEW e, Typed(b, o, e), AtWork(b, o, e), e.todo # {},
         NEW b1, NEW o1, NEW e1, e1.todo = e.todo, AtPage(o1, e1),
         SameCounters(b, b1), SameButAt(o, o1, Least(e.todo)),
         b.domain = "render" => SameAttempts(b, o, e, b1, o1, e1)
  PROVE  AtWork(b1, o1, e1)
  <1>1. /\ b.targets \subseteq Pages /\ e.todo \subseteq Nat /\ e.todo \subseteq Pages /\ b.attempted \in Nat
    BY TypedFields
  <1>2. Least(e.todo) \in e.todo /\ \A q \in e.todo : Least(e.todo) <= q
    BY <1>1, LeastIsFirst
  <1>3. Seen(b1, e1) = Seen(b, e) /\ Seen(b, e) \subseteq Pages /\ Least(e.todo) \notin Seen(b, e)
    BY <1>1, <1>2 DEF Seen, SameCounters
  <1>4. \A p \in Seen(b, e) : o1[p].state = o[p].state
    BY <1>3 DEF SameButAt
  <1>5. \A states : With(o1, Seen(b1, e1), states) = With(o, Seen(b, e), states)
    <2> HIDE DEF Seen
    <2> QED
      BY <1>3, <1>4 DEF With
  <1>6. /\ e1.todo \subseteq b1.targets /\ e1.todo # {}
        /\ \A p \in Seen(b1, e1) : o1[p].state \in Final
    BY <1>3, <1>4 DEF AtWork, SameCounters
  <1>7. \A p \in Pages \ b1.targets : o1[p].state = "none"
    BY <1>2 DEF AtWork, SameCounters, SameButAt
  <1>8. \A p \in e1.todo : (\E q \in e1.todo : q < p) => o1[p].state = "none"
    <2> SUFFICES ASSUME NEW p \in e.todo, NEW q \in e.todo, q < p PROVE o1[p].state = "none"
      OBVIOUS
    <2>1. p # Least(e.todo)
      BY <1>1, <1>2
    <2> QED
      BY <1>1, <2>1 DEF AtWork, SameButAt
  <1>9. Counts(b1, o1, Seen(b1, e1))
    BY <1>5 DEF AtWork, Counts, SameCounters
  <1>10. ASSUME b.domain = "render" PROVE Attempted(b1, o1, e1)
    <2> DEFINE tried == Cardinality(With(o, Seen(b, e), {"ready", "failed"}))
    <2>1. tried \in Nat
      BY <1>3, WithFinite
    <2>2. b.attempted = IF Tried(o, e) THEN tried + 1 ELSE tried
      BY <1>10 DEF AtWork, Attempted
    <2>3. SameAttempts(b, o, e, b1, o1, e1)
      BY <1>10
    <2>4. Attempted(b1, o1, e1) <=> b1.attempted = IF Tried(o1, e1) THEN tried + 1 ELSE tried
      BY <1>5 DEF Attempted
    <2> HIDE DEF tried
    <2>5. b1.attempted = IF Tried(o1, e1) THEN tried + 1 ELSE tried
      BY <1>1, <2>1, <2>2, <2>3 DEF SameAttempts
    <2> QED
      BY <2>4, <2>5
  <1> QED
    BY <1>6, <1>7, <1>8, <1>9, <1>10 DEF AtWork, SameCounters

\* An executor that begins has all pages before it.
LEMMA Begins ==
  ASSUME NEW b, NEW o, NEW e, Typed(b, o, e), Blank(b, o), e.at = "next", e.todo = b.targets
  PROVE  AtWork(b, o, e)
  <1>1. Seen(b, e) = {} /\ b.targets \subseteq Nat /\ b.targets \subseteq Pages
    BY TypedFields DEF Seen
  <1>2. AtPage(o, e)
    <2>1. e.todo # {} => Least(e.todo) \in Pages
      BY <1>1, LeastIsFirst
    <2> QED
      BY <2>1 DEF AtPage, Blank
  <1>3. Counts(b, o, Seen(b, e)) /\ Attempted(b, o, e)
    <2> HIDE DEF Seen
    <2> QED
      BY <1>1, NothingSeen DEF Counts, Attempted, Tried, Blank
  <1> QED
    BY <1>1, <1>2, <1>3 DEF AtWork, Blank

\* A counter recomputed is that of the pages behind, and of the one just left.
LEMMA CountsAnew ==
  ASSUME NEW b, NEW o, NEW e, Typed(b, o, e), AtWork(b, o, e), e.at = "counting",
         NEW e1, e1.todo = e.todo \ {Least(e.todo)}
  PROVE  /\ Seen(b, e1) = Seen(b, e) \cup {Least(e.todo)}
         /\ \A p \in Seen(b, e1) : o[p].state \in Final
         /\ \A p \in Pages \ Seen(b, e1) : o[p].state = "none"
         /\ \A states : "none" \notin states =>
              {p \in Pages : o[p].state \in states} = With(o, Seen(b, e1), states \cap Final)
  <1>1. /\ b.targets \subseteq Pages /\ e.todo \subseteq Nat /\ e.todo \subseteq b.targets /\ e.todo # {}
    BY TypedFields DEF AtWork
  <1>2. Least(e.todo) \in e.todo /\ \A q \in e.todo : Least(e.todo) <= q
    BY <1>1, LeastIsFirst
  <1>3. Seen(b, e1) = Seen(b, e) \cup {Least(e.todo)}
    BY <1>1, <1>2 DEF Seen
  <1>4. o[Least(e.todo)].state \in Final
    BY <1>1 DEF AtWork, AtPage
  <1>5. \A p \in Seen(b, e1) : o[p].state \in Final
    BY <1>3, <1>4 DEF AtWork
  <1>6. ASSUME NEW p \in Pages \ Seen(b, e1) PROVE o[p].state = "none"
    <2>1. CASE p \notin b.targets
      BY <2>1 DEF AtWork
    <2>2. CASE p \in b.targets
      <3>1. p \in e.todo /\ p # Least(e.todo)
        BY <1>1, <1>2, <1>3, <2>2 DEF Seen
      <3>2. Least(e.todo) < p
        BY <1>1, <1>2, <3>1
      <3> QED
        BY <1>2, <3>1, <3>2 DEF AtWork
    <2> QED
      BY <2>1, <2>2
  <1>7. ASSUME NEW states, "none" \notin states
        PROVE  {p \in Pages : o[p].state \in states} = With(o, Seen(b, e1), states \cap Final)
    <2>1. Seen(b, e1) \subseteq Pages
      BY <1>1 DEF Seen
    <2> HIDE DEF Seen, Final
    <2> QED
      BY <1>5, <1>6, <1>7, <2>1 DEF With
  <1> QED
    BY <1>3, <1>5, <1>6, <1>7

\* After a page the counters are recomputed from the observations.
LEMMA CountOK ==
  ASSUME NEW b, NEW o, NEW e, Typed(b, o, e), AtWork(b, o, e), e.at = "counting",
         NEW b1, b1.targets = b.targets, b1.domain = b.domain, b1.attempted = b.attempted,
         b1.ready = Cardinality({p \in Pages : o[p].state \in {"ready"}}),
         b1.failed = Cardinality({p \in Pages : o[p].state \in
                       IF b.domain = "render" THEN ObsStates \ {"none", "ready", "skipped"} ELSE {"failed"}}),
         b1.skipped = Cardinality({p \in Pages : o[p].state \in {"skipped"}}),
         NEW e1, e1.todo = e.todo \ {Least(e.todo)}, e1.at = "next"
  PROVE  AtWork(b1, o, e1)
  <1> DEFINE l == Least(e.todo)
             S == Seen(b, e)
             S1 == Seen(b, e1)
  <1>1. /\ b.targets \subseteq Pages /\ e.todo \subseteq Nat /\ e.todo \subseteq b.targets /\ e.todo # {}
        /\ \A p \in Pages : o[p].state \in ObsStates
    BY TypedFields DEF AtWork
  <1>2. l \in e.todo /\ \A q \in e.todo : l <= q
    BY <1>1, LeastIsFirst
  <1>3. /\ S1 = S \cup {l} /\ S \subseteq Pages /\ l \in Pages /\ l \notin S /\ S1 \subseteq Pages
        /\ Seen(b1, e1) = S1
    BY <1>1, <1>2, CountsAnew DEF Seen
  <1>4. /\ \A p \in S1 : o[p].state \in Final
        /\ \A p \in Pages \ S1 : o[p].state = "none"
        /\ \A states : "none" \notin states =>
             {p \in Pages : o[p].state \in states} = With(o, S1, states \cap Final)
    BY CountsAnew
  <1> HIDE DEF S, S1, l
  <1>5. Counts(b1, o, S1)
    <2>1. {p \in Pages : o[p].state \in {"ready"}} = With(o, S1, {"ready"})
          /\ {p \in Pages : o[p].state \in {"skipped"}} = With(o, S1, {"skipped"})
          /\ {p \in Pages : o[p].state \in {"failed"}} = With(o, S1, {"failed"})
      <3>1. /\ {"ready"} \cap Final = {"ready"} /\ {"skipped"} \cap Final = {"skipped"}
            /\ {"failed"} \cap Final = {"failed"}
        BY DEF Final
      <3> QED
        BY <1>4, <3>1
    <2>2. {p \in Pages : o[p].state \in ObsStates \ {"none", "ready", "skipped"}} = With(o, S1, {"failed"})
      <3>1. (ObsStates \ {"none", "ready", "skipped"}) \cap Final = {"failed"}
        BY DEF ObsStates, RenderStates, Final
      <3>2. "none" \notin ObsStates \ {"none", "ready", "skipped"}
        OBVIOUS
      <3> HIDE DEF ObsStates
      <3> QED
        BY <1>4, <3>1, <3>2
    <2> QED
      BY <2>1, <2>2 DEF Counts
  <1>6. ASSUME b.domain = "render" PROVE Attempted(b1, o, e1)
    <2> DEFINE tried(s) == Cardinality(With(o, s, {"ready", "failed"}))
    <2>1. b.attempted = IF o[l].state # "skipped" THEN tried(S) + 1 ELSE tried(S)
      BY <1>6 DEF AtWork, Attempted, Tried, S, l
    <2>2. tried(S1) = IF o[l].state # "skipped" THEN tried(S) + 1 ELSE tried(S)
      <3>1. CASE o[l].state = "skipped"
        <4>1. With(o, S1, {"ready", "failed"}) = With(o, S, {"ready", "failed"})
          BY <1>3, <3>1 DEF With
        <4> QED
          BY <3>1, <4>1
      <3>2. CASE o[l].state # "skipped"
        <4>1. o[l].state \in {"ready", "failed"}
          BY <1>3, <1>4, <3>2 DEF Final
        <4>2. With(o, S1, {"ready", "failed"}) = With(o, S, {"ready", "failed"}) \cup {l}
          BY <1>3, <4>1 DEF With
        <4>3. l \notin With(o, S, {"ready", "failed"}) /\ IsFiniteSet(With(o, S, {"ready", "failed"}))
          BY <1>3, WithFinite DEF With
        <4> QED
          BY <3>2, <4>2, <4>3, FS_AddElement
      <3> QED
        BY <3>1, <3>2
    <2>3. Attempted(b1, o, e1) <=> b1.attempted = tried(S1)
      BY <1>3 DEF Attempted, Tried
    <2> QED
      BY <2>1, <2>2, <2>3
  <1>7. AtPage(o, e1)
    <2> SUFFICES ASSUME e1.todo # {} PROVE o[Least(e1.todo)].state = "none"
      BY DEF AtPage
    <2>1. Least(e1.todo) \in e1.todo
      BY <1>1, LeastIsFirst
    <2>2. e1.todo = e.todo \ {l}
      BY DEF l
    <2> QED
      BY <1>1, <1>3, <1>4, <2>1, <2>2 DEF S1, Seen
  <1>8. \A p \in e1.todo : (\E q \in e1.todo : q < p) => o[p].state = "none"
    BY <1>1 DEF AtWork
  <1>9. \A p \in Pages \ b1.targets : o[p].state = "none"
    BY DEF AtWork
  <1> QED
    BY <1>1, <1>3, <1>4, <1>5, <1>6, <1>7, <1>8, <1>9 DEF AtWork

\* A run whose pages are all behind its executor.
LEMMA FinishOK ==
  ASSUME NEW b, NEW o, NEW e, Typed(b, o, e), AtWork(b, o, e), e.at = "next", e.todo = {}
  PROVE  Counted(b, o) /\ (~WithErrors(b) => \A p \in b.targets : o[p].state = "ready")
  <1>1. Seen(b, e) = b.targets /\ b.targets \subseteq Pages
    BY TypedFields DEF Seen
  <1>2. /\ \A p \in b.targets : o[p].state \in Final
        /\ Counts(b, o, b.targets)
        /\ b.domain = "render" => b.attempted = Cardinality(With(o, b.targets, {"ready", "failed"}))
    BY <1>1 DEF AtWork, Attempted, Tried
  <1>3. Counted(b, o)
    BY <1>1, <1>2, AllAnswered DEF Counts, Counted
  <1>4. ASSUME ~WithErrors(b), NEW p \in b.targets PROVE o[p].state = "ready"
    <2>1. Cardinality(With(o, b.targets, {"failed"})) = 0 /\ Cardinality(With(o, b.targets, {"skipped"})) = 0
      <3>1. b.failed \in Nat /\ b.skipped \in Nat
        BY TypedFields
      <3> QED
        BY <1>2, <1>4, <3>1 DEF Counts, WithErrors
    <2>2. With(o, b.targets, {"failed"}) = {} /\ With(o, b.targets, {"skipped"}) = {}
      BY <1>1, <2>1, WithFinite, FS_EmptySet
    <2> QED
      BY <1>2, <2>2 DEF With, Final
  <1> QED
    BY <1>3, <1>4

-----------------------------------------------------------------------------
(* The steps of one run.                                                   *)

\* A run under way is right if its executor is at work, or about to stop.
LEMMA UnderWayOK ==
  ASSUME NEW b, NEW o, NEW e, b.job = "running", b.status = "running",
         e.at \in Working, e.at # "stopping" => AtWork(b, o, e)
  PROVE  RunOK(b, o, e)
  <1>1. b # NoRun /\ e.at \notin {"start", "done"}
    BY DEF NoRun, Working
  <1> QED
    BY <1>1 DEF RunOK, Completed

\* A run that did not complete has nothing to answer for.
LEMMA EndedOK ==
  ASSUME NEW b, NEW o, NEW e, b.job \in {"failed", "cancelled", "interrupted"}, b.status \notin Completed
  PROVE  RunOK(b, o, e)
  <1>1. b # NoRun
    BY DEF NoRun
  <1> QED
    BY <1>1 DEF RunOK, Completed

\* Each step of an executor but the storing of a payload, which changes nothing here.
LEMMA ExecuteOK ==
  ASSUME RunsTypeOK, RunsInv, NEW r \in Runs, RunOK(run[r], obs[r], exec[r]), Execute(r)
  PROVE  RunOK(run'[r], obs'[r], exec'[r])
  <1> DEFINE b == run[r]
             o == obs[r]
             e == exec[r]
             l == Least(e.todo)
  <1>0. /\ Typed(b, o, e) /\ run \in [Runs -> RunRows] /\ exec \in [Runs -> Executors]
        /\ obs \in [Runs -> [Pages -> Observations]]
    BY RunsTypes DEF Typed
  <1>a. /\ b.targets \subseteq Pages /\ e.todo \subseteq Pages /\ e.todo \subseteq Nat
        /\ b.attempted \in Nat
    BY <1>0, TypedFields
  <1>b. ASSUME b.job = "running", e.at \in Working \ {"stopping"}
        PROVE  AtWork(b, o, e) /\ b.status = "running"
    BY <1>b DEF RunOK, RunsInv
  <1>c. ASSUME AtWork(b, o, e), e.todo # {}
        PROVE  l \in e.todo /\ l \in Pages
    BY <1>a, <1>c, LeastIsFirst
  <1>1. CASE Claim(r)
    <2>1. exec'[r].at = "start"
      BY <1>0, <1>1, GotoAt DEF Claim
    <2>2. run'[r] = [b EXCEPT !.job = "running"] /\ b.job = "queued" /\ obs' = obs
      BY <1>0, <1>1 DEF Claim
    <2>3. Blank(b, o) /\ b.status = "queued"
      BY <2>2 DEF RunOK
    <2>4. run'[r].job = "running" /\ run'[r].status = "queued" /\ Blank(run'[r], o)
      BY <1>0, <2>2, <2>3 DEF Typed, RunRows, Blank
    <2> QED
      BY <2>1, <2>2, <2>4 DEF RunOK, Completed, Working
  <1>2. CASE Begin(r)
    <2>1. b.job = "running" /\ e.at = "start" /\ obs' = obs
      BY <1>2 DEF Begin, Owns
    <2>2. Blank(b, o) /\ b.status = "queued"
      BY <2>1 DEF RunOK
    <2>3. b.status \notin Returned(b.domain)
      BY <2>2 DEF Returned, Terminal
    <2>4. /\ run'[r] = [b EXCEPT !.status = "running"]
          /\ exec'[r] = [e EXCEPT !.at = "next", !.todo = b.targets]
      BY <1>0, <1>2, <2>3 DEF Begin
    <2>5. /\ Typed(run'[r], o, exec'[r]) /\ Blank(run'[r], o) /\ exec'[r].at = "next"
          /\ exec'[r].todo = run'[r].targets /\ run'[r].job = "running" /\ run'[r].status = "running"
      BY <1>0, <1>a, <2>1, <2>2, <2>4 DEF Typed, RunRows, Executors, Blank, JobStatuses, Active, Phases
    <2> QED
      BY <2>1, <2>5, Begins, UnderWayOK DEF Working
  <1>3. CASE CheckCancel(r)
    <2>1. e.at = "next" /\ e.todo # {} /\ run' = run /\ obs' = obs
      BY <1>3 DEF CheckCancel
    <2>2. PICK phase \in {"stopping", "picked", "visit"} :
            Goto(r, phase) /\ (phase = "visit" => b.domain # "render")
      BY <1>3 DEF CheckCancel
    <2>3. exec'[r] = [e EXCEPT !.at = phase]
      BY <1>0, <2>2 DEF Goto
    <2>4. exec'[r].at = phase /\ exec'[r].todo = e.todo
      BY <1>0, <2>3 DEF Typed, Executors
    <2>5. CASE b.job = "running"
      <3>1. AtWork(b, o, e) /\ b.status = "running"
        BY <1>b, <2>1, <2>5 DEF Working
      <3>2. AtPage(o, exec'[r])
        <4>1. o[l].state = "none"
          BY <2>1, <3>1 DEF AtWork, AtPage
        <4> QED
          BY <2>2, <2>4, <4>1 DEF AtPage
      <3>3. ASSUME phase # "stopping" PROVE AtWork(b, o, exec'[r])
        <4>1. b.domain = "render" => SameAttempts(b, o, e, b, o, exec'[r])
          BY <2>1, <2>2, <2>4, <3>3 DEF SameAttempts, Tried
        <4>2. SameCounters(b, b) /\ SameButAt(o, o, l)
          BY DEF SameCounters, SameButAt
        <4> HIDE DEF b, o, e
        <4> QED
          BY <1>0, <2>1, <2>4, <3>1, <3>2, <4>1, <4>2, PageNoted
      <3> QED
        BY <2>1, <2>2, <2>4, <2>5, <3>1, <3>3, UnderWayOK DEF Working
    <2>6. CASE b.job # "running"
      BY <2>1, <2>2, <2>6 DEF RunOK
    <2> QED
      BY <2>5, <2>6
  <1>4. CASE Open(r)
    <2>1. /\ b.job = "running" /\ e.at = "picked" /\ run' = run
          /\ obs' = [obs EXCEPT ![r][Visiting(r)].state = "capturing"]
      BY <1>4 DEF Open, Owns
    <2>2. AtWork(b, o, e) /\ b.status = "running"
      BY <1>b, <2>1 DEF Working
    <2>3. exec'[r] = [e EXCEPT !.at = "opened"]
      BY <1>0, <1>4 DEF Open, Goto
    <2>4. exec'[r].at = "opened" /\ exec'[r].todo = e.todo /\ e.todo # {}
      BY <1>0, <2>1, <2>2, <2>3 DEF Typed, Executors, AtWork
    <2>5. \A p \in Pages : p # l => obs'[r][p].state = o[p].state
      BY <1>0, <2>1 DEF Visiting
    <2>6. AtPage(obs'[r], exec'[r])
      BY <2>4 DEF AtPage
    <2>7. AtWork(b, obs'[r], exec'[r])
      <3>1. b.domain = "render" => SameAttempts(b, o, e, b, obs'[r], exec'[r])
        BY <2>1, <2>4, <2>5 DEF SameAttempts, Tried
      <3>2. SameCounters(b, b) /\ SameButAt(o, obs'[r], l)
        BY <2>5 DEF SameCounters, SameButAt
      <3> HIDE DEF b, o, e
      <3> QED
        BY <1>0, <2>2, <2>4, <2>6, <3>1, <3>2, PageNoted
    <2> QED
      BY <2>1, <2>2, <2>4, <2>7, UnderWayOK DEF Working
  <1>5. CASE Attempt(r)
    <2>1. b.job = "running" /\ e.at = "opened" /\ obs' = obs
      BY <1>5 DEF Attempt, Owns
    <2>2. AtWork(b, o, e) /\ b.status = "running"
      BY <1>b, <2>1 DEF Working
    <2>3. exec'[r] = [e EXCEPT !.at = "visit"] /\ run'[r] = [b EXCEPT !.attempted = b.attempted + 1]
      BY <1>0, <1>5 DEF Attempt, Goto
    <2>4. exec'[r].at = "visit" /\ exec'[r].todo = e.todo /\ e.todo # {}
      BY <1>0, <2>1, <2>2, <2>3 DEF Typed, Executors, AtWork
    <2>5. /\ run'[r].targets = b.targets /\ run'[r].domain = b.domain /\ run'[r].ready = b.ready
          /\ run'[r].failed = b.failed /\ run'[r].skipped = b.skipped
          /\ run'[r].attempted = b.attempted + 1
          /\ run'[r].job = "running" /\ run'[r].status = "running"
      BY <1>0, <2>1, <2>2, <2>3 DEF Typed, RunRows
    <2>6. AtPage(o, exec'[r])
      BY <2>4 DEF AtPage
    <2>7. AtWork(run'[r], o, exec'[r])
      <3>1. SameAttempts(b, o, e, run'[r], o, exec'[r])
        BY <2>1, <2>4, <2>5 DEF SameAttempts, Tried
      <3>2. SameCounters(b, run'[r]) /\ SameButAt(o, o, l)
        BY <2>5 DEF SameCounters, SameButAt
      <3> HIDE DEF b, o, e
      <3> QED
        BY <1>0, <2>2, <2>4, <2>6, <3>1, <3>2, PageNoted
    <2> QED
      BY <2>1, <2>4, <2>5, <2>7, UnderWayOK DEF Working
  <1>6. CASE Skip(r)
    <2>1. /\ b.job = "running" /\ e.at = "opened" /\ run' = run
          /\ obs' = [obs EXCEPT ![r][Visiting(r)].state = "skipped"]
      BY <1>6 DEF Skip, Owns
    <2>2. AtWork(b, o, e) /\ b.status = "running"
      BY <1>b, <2>1 DEF Working
    <2>3. exec'[r] = [e EXCEPT !.at = "counting"]
      BY <1>0, <1>6 DEF Skip, Goto
    <2>4. exec'[r].at = "counting" /\ exec'[r].todo = e.todo /\ e.todo # {}
      BY <1>0, <2>1, <2>2, <2>3 DEF Typed, Executors, AtWork
    <2>5. (\A p \in Pages : p # l => obs'[r][p].state = o[p].state) /\ obs'[r][l].state = "skipped"
      BY <1>0, <1>c, <2>1, <2>2, <2>4 DEF Visiting, Observations
    <2>6. AtPage(obs'[r], exec'[r])
      BY <2>4, <2>5 DEF AtPage, Final
    <2>7. AtWork(b, obs'[r], exec'[r])
      <3>1. b.domain = "render" => SameAttempts(b, o, e, b, obs'[r], exec'[r])
        BY <2>1, <2>4, <2>5 DEF SameAttempts, Tried
      <3>2. SameCounters(b, b) /\ SameButAt(o, obs'[r], l)
        BY <2>5 DEF SameCounters, SameButAt
      <3> HIDE DEF b, o, e
      <3> QED
        BY <1>0, <2>2, <2>4, <2>6, <3>1, <3>2, PageNoted
    <2> QED
      BY <2>1, <2>2, <2>4, <2>7, UnderWayOK DEF Working
  <1>7. CASE Persist(r) \/ PersistFailure(r)
    <2>1. b.job = "running" /\ e.at \in {"visit", "stored"} /\ run' = run
      BY <1>7 DEF Persist, PersistFailure, Owns, RunsInv
    <2>2. AtWork(b, o, e) /\ b.status = "running" /\ e.todo # {}
      BY <1>b, <2>1 DEF Working, AtWork
    <2>a. PICK st \in {"ready", "failed"} : \E x, n : Observe(r, st, x, n)
      BY <1>7 DEF Persist, PersistFailure
    <2>3. PICK x, n : Observe(r, st, x, n)
      BY <2>a
    <2>4. exec'[r].at = "counting" /\ exec'[r].todo = e.todo
      BY <1>0, <2>3 DEF Observe
    <2>5. (\A p \in Pages : p # l => obs'[r][p].state = o[p].state) /\ obs'[r][l].state = st
      BY <1>0, <1>c, <2>2, <2>3 DEF Visiting, Observe
    <2>6. AtPage(obs'[r], exec'[r])
      BY <2>3, <2>4, <2>5 DEF AtPage, Final
    <2>7. AtWork(b, obs'[r], exec'[r])
      <3>1. b.domain = "render" => SameAttempts(b, o, e, b, obs'[r], exec'[r])
        BY <2>1, <2>3, <2>4, <2>5 DEF SameAttempts, Tried
      <3>2. SameCounters(b, b) /\ SameButAt(o, obs'[r], l)
        BY <2>5 DEF SameCounters, SameButAt
      <3> HIDE DEF b, o, e
      <3> QED
        BY <1>0, <2>2, <2>4, <2>6, <3>1, <3>2, PageNoted
    <2> QED
      BY <2>1, <2>2, <2>4, <2>7, UnderWayOK DEF Working
  <1>8. CASE CancelObservation(r) \/ WaitCancelled(r)
    <2>1. e.at = "visit" /\ run' = run
      BY <1>8 DEF CancelObservation, WaitCancelled
    <2>2. exec'[r].at = "stopping"
      BY <1>0, <1>8, GotoAt DEF CancelObservation, WaitCancelled
    <2>3. CASE b.job = "running"
      BY <1>b, <2>1, <2>2, <2>3, UnderWayOK DEF Working
    <2>4. CASE b.job # "running"
      <3>1. obs' = obs
        BY <1>8, <2>4 DEF CancelObservation, WaitCancelled, Owns
      <3> QED
        BY <2>1, <2>4, <3>1 DEF RunOK
    <2> QED
      BY <2>3, <2>4
  <1>9. CASE Count(r)
    <2>1. b.job = "running" /\ e.at = "counting" /\ obs' = obs
      BY <1>9 DEF Count, Owns
    <2>2. AtWork(b, o, e) /\ b.status = "running"
      BY <1>b, <2>1 DEF Working
    <2>3. /\ exec'[r] = [e EXCEPT !.at = "next", !.todo = e.todo \ {l}]
          /\ run'[r] = [b EXCEPT !.ready = InState(r, {"ready"}), !.failed = Failures(r),
                                 !.skipped = InState(r, {"skipped"})]
      BY <1>0, <1>9 DEF Count, Visiting
    <2>4. exec'[r].at = "next" /\ exec'[r].todo = e.todo \ {l}
      BY <1>0, <2>3 DEF Typed, Executors
    <2>5. /\ run'[r].targets = b.targets /\ run'[r].domain = b.domain /\ run'[r].attempted = b.attempted
          /\ run'[r].ready = InState(r, {"ready"}) /\ run'[r].failed = Failures(r)
          /\ run'[r].skipped = InState(r, {"skipped"})
          /\ run'[r].job = "running" /\ run'[r].status = "running"
      BY <1>0, <2>1, <2>2, <2>3 DEF Typed, RunRows
    <2>6. AtWork(run'[r], o, exec'[r])
      <3>1. /\ run'[r].ready = Cardinality({p \in Pages : o[p].state \in {"ready"}})
            /\ run'[r].failed = Cardinality({p \in Pages : o[p].state \in
                 IF b.domain = "render" THEN ObsStates \ {"none", "ready", "skipped"} ELSE {"failed"}})
            /\ run'[r].skipped = Cardinality({p \in Pages : o[p].state \in {"skipped"}})
        <4> HIDE DEF ObsStates
        <4> QED
          BY <2>5 DEF InState, Failures
      <3>2. run'[r].targets = b.targets /\ run'[r].domain = b.domain /\ run'[r].attempted = b.attempted
        BY <2>5
      <3>3. /\ e.at = "counting" /\ exec'[r].todo = e.todo \ {Least(e.todo)} /\ exec'[r].at = "next"
            /\ Typed(b, o, e) /\ AtWork(b, o, e)
        BY <1>0, <2>1, <2>2, <2>4
      <3> HIDE DEF b, o, e
      <3> QED
        BY <3>1, <3>2, <3>3, CountOK, Zenon
    <2> QED
      BY <2>1, <2>4, <2>5, <2>6, UnderWayOK DEF Working
  <1>10. CASE Stop(r)
    <2>1. b.job = "running" /\ run'[r] = [b EXCEPT !.status = "cancelled"] /\ exec'[r].at = "done"
      BY <1>0, <1>10, GotoAt DEF Stop, Owns
    <2>2. run'[r].job = "running" /\ run'[r].status = "cancelled"
      BY <1>0, <2>1 DEF Typed, RunRows
    <2> QED
      BY <2>1, <2>2 DEF RunOK, Completed, Working, NoRun
  <1>11. CASE Finish(r)
    <2>1. /\ b.job = "running" /\ e.at = "next" /\ e.todo = {} /\ obs' = obs
          /\ run'[r] = [b EXCEPT !.status = Ending(b)] /\ exec'[r].at = "done"
      BY <1>0, <1>11, GotoAt DEF Finish, Owns
    <2>2. Counted(b, o) /\ (~WithErrors(b) => \A p \in b.targets : o[p].state = "ready")
      BY <1>0, <1>b, <2>1, FinishOK DEF Working
    <2>3. /\ run'[r].job = "running" /\ run'[r].status = Ending(b)
          /\ run'[r].targets = b.targets /\ run'[r].domain = b.domain /\ run'[r].ready = b.ready
          /\ run'[r].failed = b.failed /\ run'[r].skipped = b.skipped /\ run'[r].attempted = b.attempted
      BY <1>0, <2>1 DEF Typed, RunRows
    <2>4. Ending(b) \in Completed /\ (Ending(b) = "completed" => ~WithErrors(b))
      BY DEF Ending, Completed
    <2>5. Counted(run'[r], o) /\ (WithErrors(run'[r]) <=> WithErrors(b))
      BY <2>2, <2>3 DEF Counted, WithErrors
    <2>6. run'[r] # NoRun
      BY <2>3 DEF NoRun
    <2> QED
      BY <2>1, <2>2, <2>3, <2>4, <2>5, <2>6 DEF RunOK, Working
  <1>12. CASE Settle(r)
    <2>1. b.job = "running" /\ e.at = "done" /\ run'[r] = Settled(b) /\ exec'[r] = Resting /\ obs' = obs
      BY <1>0, <1>12 DEF Settle, Owns
    <2>2. b.status \in Completed \cup {"cancelled"}
      BY <2>1 DEF RunOK
    <2>3. /\ run'[r].job = (IF b.status = "cancelled" THEN "cancelled" ELSE Ending(b))
          /\ run'[r].status = b.status
          /\ run'[r].targets = b.targets /\ run'[r].domain = b.domain /\ run'[r].ready = b.ready
          /\ run'[r].failed = b.failed /\ run'[r].skipped = b.skipped /\ run'[r].attempted = b.attempted
      BY <1>0, <2>1 DEF Typed, RunRows, Settled
    <2>4. run'[r].job \in Completed \cup {"cancelled"}
      BY <2>3 DEF Ending, Completed
    <2>5. b.status \in Completed => Counted(b, o) /\ Counted(run'[r], o)
      BY <2>3 DEF RunOK, Counted
    <2>6. run'[r].job = "completed" => run'[r].ready = Cardinality(run'[r].targets)
      <3> SUFFICES ASSUME run'[r].job = "completed" PROVE b.ready = Cardinality(b.targets)
        BY <2>3
      <3>1. b.status \in Completed /\ ~WithErrors(b)
        BY <2>2, <2>3 DEF Ending
      <3>2. b.failed \in Nat /\ b.skipped \in Nat /\ b.ready \in Nat
        BY <1>0, TypedFields
      <3> QED
        BY <2>5, <3>1, <3>2 DEF Counted, WithErrors
    <2>7. run'[r] # NoRun /\ (WithErrors(run'[r]) <=> WithErrors(b))
      BY <2>3, <2>4 DEF NoRun, Completed, WithErrors
    <2> QED
      BY <2>1, <2>3, <2>4, <2>5, <2>6, <2>7 DEF RunOK, Completed
  <1>13. CASE LoseLease(r)
    <2>1. run' = run /\ obs' = obs /\ b.job # "running"
      BY <1>13 DEF LoseLease
    <2> QED
      BY <2>1 DEF RunOK
  <1> QED
    BY <1>1, <1>2, <1>3, <1>4, <1>5, <1>6, <1>7, <1>8, <1>9, <1>10, <1>11, <1>12, <1>13 DEF Execute

\* Rows that agree in their pages and counters.
SameTally(b, b1) == SameCounters(b, b1) /\ b1.attempted = b.attempted

LEMMA SameTallies ==
  ASSUME NEW b, NEW b1, SameTally(b, b1), NEW o, NEW e
  PROVE  /\ AtWork(b, o, e) => AtWork(b1, o, e)
         /\ Counted(b, o) => Counted(b1, o)
         /\ Blank(b, o) => Blank(b1, o)
         /\ WithErrors(b1) <=> WithErrors(b)
  <1>1. Seen(b1, e) = Seen(b, e)
    BY DEF Seen, SameTally, SameCounters
  <1>2. (Counts(b, o, Seen(b, e)) => Counts(b1, o, Seen(b, e))) /\ (Attempted(b, o, e) => Attempted(b1, o, e))
    BY <1>1 DEF Counts, Attempted, SameTally, SameCounters
  <1>3. AtWork(b, o, e) => AtWork(b1, o, e)
    BY <1>1, <1>2 DEF AtWork, SameTally, SameCounters
  <1>4. (Counted(b, o) => Counted(b1, o)) /\ (Blank(b, o) => Blank(b1, o)) /\ (WithErrors(b1) <=> WithErrors(b))
    BY DEF Counted, Blank, WithErrors, SameTally, SameCounters
  <1> QED
    BY <1>3, <1>4

\* An executor that is gone says nothing about its run.
LEMMA AtRestOK ==
  ASSUME NEW b, NEW o, NEW e, RunOK(b, o, e), NEW e1, e1.at = "idle"
  PROVE  RunOK(b, o, e1)
  BY DEF RunOK, Working

\* Storing a payload.
LEMMA StoreOK ==
  ASSUME RunsTypeOK, RunsInv, NEW r \in Runs, RunOK(run[r], obs[r], exec[r]), Store(r)
  PROVE  RunOK(run'[r], obs'[r], exec'[r])
  <1> DEFINE b == run[r]
             o == obs[r]
             e == exec[r]
  <1>0. Typed(b, o, e) /\ exec \in [Runs -> Executors]
    BY RunsTypes DEF Typed
  <1>1. b.job = "running" /\ e.at = "visit" /\ run' = run /\ obs' = obs
    BY DEF Store, Owns
  <1>2. AtWork(b, o, e) /\ b.status = "running"
    BY <1>1 DEF RunOK, RunsInv, Working
  <1>3. PICK x : exec' = [exec EXCEPT ![r].at = "stored", ![r].payload = x]
    BY DEF Store
  <1>4. exec'[r].at = "stored" /\ exec'[r].todo = e.todo /\ e.todo # {}
    BY <1>0, <1>1, <1>2, <1>3 DEF Executors, AtWork
  <1>5. AtPage(o, exec'[r])
    BY <1>4 DEF AtPage
  <1>6. AtWork(b, o, exec'[r])
    <2>1. SameAttempts(b, o, e, b, o, exec'[r])
      BY <1>1, <1>4 DEF SameAttempts, Tried
    <2>2. SameCounters(b, b) /\ SameButAt(o, o, Least(e.todo))
      BY DEF SameCounters, SameButAt
    <2> HIDE DEF b, o, e
    <2> QED
      BY <1>0, <1>2, <1>4, <1>5, <2>1, <2>2, PageNoted
  <1> QED
    BY <1>1, <1>2, <1>4, <1>6, UnderWayOK DEF Working

\* A run that fails, or whose executor crashed, and its recovery.
LEMMA MishapOK ==
  ASSUME RunsTypeOK, NEW r \in Runs, RunOK(run[r], obs[r], exec[r]), Mishap(r)
  PROVE  RunOK(run'[r], obs'[r], exec'[r])
  <1> DEFINE b == run[r]
             o == obs[r]
             e == exec[r]
  <1>0. Typed(b, o, e) /\ run \in [Runs -> RunRows] /\ exec \in [Runs -> Executors]
    BY RunsTypes DEF Typed
  <1>1. CASE Fail(r)
    <2>1. run'[r] = [b EXCEPT !.job = "failed", !.status = "failed"]
      BY <1>0, <1>1 DEF Fail
    <2>2. run'[r].job = "failed" /\ run'[r].status = "failed"
      BY <1>0, <2>1 DEF Typed, RunRows
    <2> QED
      BY <2>2, EndedOK DEF Completed
  <1>2. CASE Crash(r)
    <2>1. run' = run /\ obs' = obs /\ exec'[r].at = "idle"
      BY <1>0, <1>2 DEF Crash, Resting
    <2> QED
      BY <2>1, AtRestOK
  <1>3. CASE Recover(r) /\ b.status \in Terminal
    <2>1. run'[r] = [b EXCEPT !.job = b.status] /\ obs' = obs /\ exec' = exec
      BY <1>0, <1>3 DEF Recover
    <2>2. run'[r].job = b.status /\ run'[r].status = b.status /\ SameTally(b, run'[r])
      BY <1>0, <2>1 DEF Typed, RunRows, SameTally, SameCounters
    <2>3. run'[r] # NoRun /\ run'[r].job \notin Active
      BY <1>3, <2>2 DEF NoRun, Terminal, Active
    <2>4. b.status \in Completed => Counted(b, o) /\ Counted(run'[r], o)
      BY <2>2, SameTallies DEF RunOK
    <2>5. (WithErrors(run'[r]) <=> WithErrors(b)) /\ run'[r].targets = b.targets /\ run'[r].ready = b.ready
      BY <2>2, SameTallies DEF SameTally, SameCounters
    <2>6. b.status = "completed" => b.ready = Cardinality(b.targets)
      <3> SUFFICES ASSUME b.status = "completed" PROVE b.ready = Cardinality(b.targets)
        OBVIOUS
      <3>1. ~WithErrors(b) /\ Counted(b, o)
        BY DEF RunOK, Completed
      <3>2. b.failed \in Nat /\ b.skipped \in Nat /\ b.ready \in Nat
        BY <1>0, TypedFields
      <3> QED
        BY <3>1, <3>2 DEF Counted, WithErrors
    <2>7. b.status = "completed" => ~WithErrors(b) /\ \A p \in b.targets : o[p].state \in {"ready", "none"}
      BY DEF RunOK
    <2> HIDE DEF b, o, e
    <2> QED
      BY <2>1, <2>2, <2>3, <2>4, <2>5, <2>6, <2>7 DEF RunOK, Active, o
  <1>4. CASE Recover(r) /\ b.status \notin Terminal
    <2>1. run'[r] = [b EXCEPT !.job = "interrupted", !.status = InterruptedStatus(b.domain)]
      BY <1>0, <1>4 DEF Recover
    <2>2. run'[r].job = "interrupted" /\ run'[r].status \notin Completed
      BY <1>0, <2>1 DEF Typed, RunRows, InterruptedStatus, Completed
    <2> QED
      BY <2>2, EndedOK
  <1> QED
    BY <1>1, <1>2, <1>3, <1>4 DEF Mishap

\* What a request makes of a run that it does not leave alone.
AskedOf(r) ==
  \/ run'[r] = run[r]
  \/ Unused(r) /\ \E d \in Domains, targets \in SUBSET Pages : run'[r] = NewRun(d, targets)
  \/ run'[r] = CancelledRow(run[r])
  \/ \E seen : run'[r] = CancelledAs(run[r], seen)

\* What a cancellation writes.
LEMMA CancelledTo ==
  ASSUME NEW b \in RunRows, NEW b1, b1 = CancelledRow(b) \/ \E seen : b1 = CancelledAs(b, seen)
  PROVE  /\ SameTally(b, b1)
         /\ \/ b1 = b
            \/ b1.cancel /\ b1.job = b.job /\ b1.status = b.status
            \/ b1.job = "cancelled" /\ b1.status \in {"cancelled", b.status}
  <1>1. CASE b1 = b
    BY <1>1 DEF SameTally, SameCounters
  <1>2. CASE b1 = [b EXCEPT !.cancel = TRUE]
    BY <1>2 DEF SameTally, SameCounters, RunRows
  <1>3. CASE \E st \in {"cancelled", b.status} : b1 = [b EXCEPT !.job = "cancelled", !.cancel = TRUE, !.status = st]
    BY <1>3 DEF SameTally, SameCounters, RunRows
  <1> QED
    BY <1>1, <1>2, <1>3 DEF CancelledRow, CancelledAs

LEMMA AskedOK ==
  ASSUME RunsTypeOK, NEW r \in Runs, RunOK(run[r], obs[r], exec[r]), AskedOf(r),
         obs'[r] = obs[r], exec'[r] = exec[r]
  PROVE  RunOK(run'[r], obs'[r], exec'[r])
  <1> DEFINE b == run[r]
             o == obs[r]
             e == exec[r]
             b1 == run'[r]
  <1>0. b \in RunRows
    BY RunsTypes
  <1>1. CASE b1 = b
    BY <1>1
  <1>2. ASSUME Unused(r), NEW d \in Domains, NEW targets \in SUBSET Pages, b1 = NewRun(d, targets)
        PROVE  RunOK(b1, o, e)
    <2>1. Blank(b, o)
      BY <1>2 DEF Unused, RunOK
    <2>2. b1.job = "queued" /\ b1.status = "queued" /\ Blank(b1, o)
      BY <1>2, <2>1 DEF NewRun, NoRun, Blank
    <2> QED
      BY <2>2 DEF RunOK, Completed
  <1>3. CASE b1 = CancelledRow(b) \/ \E seen : b1 = CancelledAs(b, seen)
    <2> SUFFICES RunOK(b1, o, e)
      OBVIOUS
    <2>1. /\ SameTally(b, b1)
          /\ \/ b1 = b
             \/ b1.cancel /\ b1.job = b.job /\ b1.status = b.status
             \/ b1.job = "cancelled" /\ b1.status \in {"cancelled", b.status}
      <3> HIDE DEF b, b1
      <3> QED
        BY <1>0, <1>3, CancelledTo
    <2>2. /\ AtWork(b, o, e) => AtWork(b1, o, e)
          /\ Counted(b, o) => Counted(b1, o)
          /\ Blank(b, o) => Blank(b1, o)
          /\ WithErrors(b1) <=> WithErrors(b)
      <3> HIDE DEF b, o, e, b1
      <3> QED
        BY <2>1, SameTallies
    <2>3. b1.targets = b.targets /\ b1.ready = b.ready
      BY <2>1 DEF SameTally, SameCounters
    <2>4. b1.cancel \/ b1.job = "cancelled" => b1 # NoRun
      BY DEF NoRun
    <2>5. RunOK(b, o, e)
      OBVIOUS
    <2> HIDE DEF b, o, e, b1
    <2>6. CASE b1 = b
      BY <2>5, <2>6
    <2>7. CASE b1.cancel /\ b1.job = b.job /\ b1.status = b.status
      BY <2>2, <2>3, <2>4, <2>5, <2>7 DEF RunOK
    <2>8. CASE b1.job = "cancelled" /\ b1.status \in {"cancelled", b.status}
      BY <2>2, <2>3, <2>4, <2>5, <2>8 DEF RunOK, Completed
    <2> QED
      BY <2>1, <2>6, <2>7, <2>8
  <1> QED
    BY <1>1, <1>2, <1>3 DEF AskedOf

\* The evidence of an ended run may go.
LEMMA ThinnedOK ==
  ASSUME NEW b, NEW o, NEW e, RunOK(b, o, e), b.status \in Terminal,
         e.at \in Working /\ b.job = "running" => b.status = "running",
         NEW o1, \A p \in Pages : o1[p].state \in {o[p].state, "none"}, b.targets \subseteq Pages
  PROVE  RunOK(b, o1, e)
  <1>1. b # NoRun /\ b.status \notin {"queued", "running"}
    BY DEF NoRun, Terminal
  <1>2. Counted(b, o) => Counted(b, o1)
    BY DEF Counted
  <1> QED
    BY <1>1, <1>2 DEF RunOK, Terminal

\* Requests change rows of runs, and nothing else of them.
LEMMA AskedRuns ==
  ASSUME RunsTypeOK, Request \/ PlansNext
  PROVE  UNCHANGED <<obs, exec>> /\ \A r \in Runs : AskedOf(r)
  <1>0. "render" \in Domains /\ Selections \subseteq SUBSET Pages /\ run \in [Runs -> RunRows]
    BY RunsTypes, CollectionAssumption
  <1>1. ASSUME NEW d \in Domains, NEW targets \in Selections, CreateRun(d, targets)
        PROVE  UNCHANGED <<obs, exec>> /\ \A r \in Runs : AskedOf(r)
    <2>1. PICK q \in Runs : Unused(q) /\ run' = [run EXCEPT ![q] = NewRun(d, targets)]
      BY <1>1 DEF CreateRun, NextRun
    <2>2. ASSUME NEW r \in Runs PROVE AskedOf(r)
      <3>1. run'[r] = run[r] \/ (Unused(r) /\ run'[r] = NewRun(d, targets))
        BY <1>0, <2>1
      <3>2. targets \in SUBSET Pages
        BY <1>0
      <3> QED
        BY <3>1, <3>2 DEF AskedOf
    <2> QED
      BY <1>1, <2>2 DEF CreateRun
  <1>2. ASSUME NEW q \in Runs, CancelRun(q)
        PROVE  UNCHANGED <<obs, exec>> /\ \A r \in Runs : AskedOf(r)
    <2>1. run' = [run EXCEPT ![q] = CancelledRow(run[q])]
      BY <1>2 DEF CancelRun
    <2>2. \A r \in Runs : run'[r] = run[r] \/ run'[r] = CancelledRow(run[r])
      BY <1>0, <2>1
    <2> QED
      BY <1>2, <2>2 DEF CancelRun, AskedOf
  <1>3. CASE Request
    BY <1>0, <1>1, <1>2, <1>3 DEF Request, CreateRerender, CreateScanRenderRun
  <1>4. ASSUME NEW i \in Plans, NEW d \in Domains, NEW mode \in Modes, CreatePlan(i, d, mode)
        PROVE  UNCHANGED <<obs, exec>> /\ \A r \in Runs : AskedOf(r)
    <2> DEFINE S == Selection(d, mode)
               n == BatchCount(S, BatchSize[d])
    <2>1. PICK f \in Fresh(n) :
            run' = [r \in Runs |->
                     IF \E k \in 1 .. n : f[k] = r
                     THEN NewRun(d, Batch(CHOOSE k \in 1 .. n : f[k] = r, S, BatchSize[d]))
                     ELSE run[r]]
      BY <1>4 DEF CreatePlan
    <2>2. ASSUME NEW r \in Runs PROVE AskedOf(r)
      <3>1. CASE \E k \in 1 .. n : f[k] = r
        <4>1. Unused(r)
          BY <3>1 DEF Fresh
        <4>2. S \subseteq Pages
          BY BatchTypes
        <4>3. Batch(CHOOSE k \in 1 .. n : f[k] = r, S, BatchSize[d]) \in SUBSET Pages
          <5> HIDE DEF S, n
          <5> QED
            BY <4>2 DEF Batch
        <4>4. run'[r] = NewRun(d, Batch(CHOOSE k \in 1 .. n : f[k] = r, S, BatchSize[d]))
          <5> HIDE DEF S, n
          <5> QED
            BY <2>1, <3>1
        <4> HIDE DEF S, n
        <4> QED
          BY <4>1, <4>3, <4>4 DEF AskedOf
      <3>2. CASE ~\E k \in 1 .. n : f[k] = r
        BY <2>1, <3>2 DEF AskedOf
      <3> QED
        BY <3>1, <3>2
    <2> QED
      BY <1>4, <2>2 DEF CreatePlan
  <1>5. ASSUME NEW i \in Plans, CancelPlanRead(i)
        PROVE  UNCHANGED <<obs, exec>> /\ \A r \in Runs : AskedOf(r)
    BY <1>5 DEF CancelPlanRead, AskedOf
  <1>6. CASE CancelPlanWrite
    <2> DEFINE mine == plan[call.plan].batches
               seen(r) == call.seen[CHOOSE k \in DOMAIN mine : mine[k] = r]
               written == [r \in Runs |-> IF \E k \in DOMAIN mine : mine[k] = r
                                          THEN CancelledAs(run[r], seen(r)) ELSE run[r]]
    <2>1. run' = run \/ run' = written
      BY <1>6 DEF CancelPlanWrite
    <2>2. \A r \in Runs : run'[r] = run[r] \/ run'[r] = CancelledAs(run[r], seen(r))
      BY <2>1
    <2> HIDE DEF seen
    <2>3. \A r \in Runs : AskedOf(r)
      BY <2>2 DEF AskedOf
    <2> QED
      BY <1>6, <2>3 DEF CancelPlanWrite
  <1> QED
    BY <1>3, <1>4, <1>5, <1>6 DEF PlansNext

\* Deletions, but for the one step that deletes rows, look at runs only.
LEMMA DeletionLooks ==
  ASSUME DeletionNext, ~DeleteRows
  PROVE  UNCHANGED <<run, obs, exec, plan>>
  BY DEF DeletionNext, DeleteObservation, DeleteTarget, DeleteRun, DeleteRenderRun, Purge, PurgeRenders,
         CheckedObservation, CheckedRun, CheckedPurge, Checked, Collect, CollectRead, CollectSweep,
         Unlink, CrashDeleting, runVars, planVars

\* What deleting rows does to a run: it is gone, or it keeps its row and loses evidence that
\* had ended.
LEMMA DeletedRuns ==
  ASSUME DeleteRows, EndedOnly, NEW r \in Runs
  PROVE  \/ r \in Doomed /\ run'[r] = DeletedRun
         \/ /\ r \notin Doomed /\ run'[r] = run[r] /\ exec'[r] = exec[r]
            /\ \/ \A p \in Pages : obs'[r][p] = obs[r][p]
               \/ /\ run[r].status \in Terminal
                  /\ \A p \in Pages : obs'[r][p].state \in {obs[r][p].state, "none"}
  <1>1. obs'[r] = KeptObs(r) /\ exec' = exec
    BY DEF DeleteRows
  <1>2. run'[r] = IF r \in Doomed THEN DeletedRun ELSE run[r]
    BY DEF DeleteRows
  <1>3. ASSUME r \notin Doomed
        PROVE  \/ \A p \in Pages : obs'[r][p] = obs[r][p]
               \/ /\ run[r].status \in Terminal
                  /\ \A p \in Pages : obs'[r][p].state \in {obs[r][p].state, "none"}
    <2>1. CASE del.kind = "observation" /\ r \in del.runs
      BY <1>1, <2>1 DEF EndedOnly, DeleteRows, KeptObs, Unobserved
    <2>2. CASE ~(del.kind = "observation" /\ r \in del.runs)
      BY <1>1, <1>3, <2>2 DEF KeptObs
    <2> QED
      BY <2>1, <2>2
  <1> QED
    BY <1>1, <1>2, <1>3

\* A run about whose pages nothing changes.
LEMMA SameStatesOK ==
  ASSUME NEW b, NEW o, NEW e, RunOK(b, o, e), NEW o1, \A p \in Pages : o1[p] = o[p],
         b.targets \subseteq Pages, e.todo \subseteq Pages
  PROVE  RunOK(b, o1, e)
  <1>1. Blank(b, o) => Blank(b, o1)
    BY DEF Blank
  <1>2. Counted(b, o) => Counted(b, o1)
    BY DEF Counted
  <1>3. \A S \in SUBSET Pages : \A states : With(o1, S, states) = With(o, S, states)
    BY DEF With
  <1>4. Seen(b, e) \in SUBSET Pages
    BY DEF Seen
  <1>5. e.todo # {} => Least(e.todo) \in e.todo
    BY LeastIsFirst, CollectionAssumption
  <1>6. AtWork(b, o, e) => AtWork(b, o1, e)
    <2> SUFFICES ASSUME AtWork(b, o, e) PROVE AtWork(b, o1, e)
      OBVIOUS
    <2>1. Counts(b, o1, Seen(b, e))
      BY <1>3, <1>4 DEF AtWork, Counts
    <2>2. AtPage(o1, e)
      BY <1>5 DEF AtWork, AtPage
    <2>3. b.domain = "render" => Attempted(b, o1, e)
      <3>1. e.at = "counting" => (o1[Least(e.todo)] = o[Least(e.todo)])
        BY <1>5 DEF AtWork
      <3>2. Tried(o1, e) <=> Tried(o, e)
        BY <3>1 DEF Tried
      <3> QED
        BY <1>3, <1>4, <3>2 DEF AtWork, Attempted
    <2>4. \A p \in Seen(b, e) : o1[p] = o[p]
      BY <1>4
    <2> QED
      BY <2>1, <2>2, <2>3, <2>4 DEF AtWork
  <1> QED
    BY <1>1, <1>2, <1>6 DEF RunOK

LEMMA DeleteRowsOK ==
  ASSUME RunsTypeOK, RunsInv, RunsOK, EndedOnly, DeleteRows
  PROVE  RunsOK'
  <1> SUFFICES ASSUME NEW r \in Runs PROVE RunOK(run'[r], obs'[r], exec'[r])
    BY DEF RunsOK
  <1>0. RunOK(run[r], obs[r], exec[r]) /\ run[r].targets \subseteq Pages /\ exec[r].todo \subseteq Pages
    BY RunsTypes, TypedFields DEF RunsOK, Typed
  <1>1. CASE run'[r] = DeletedRun
    <2>1. run'[r] # NoRun /\ run'[r].job = "none" /\ run'[r].status = "deleted"
      BY <1>1 DEF DeletedRun, NoRun
    <2> QED
      BY <2>1 DEF RunOK, Completed
  <1>2. CASE run'[r] = run[r] /\ exec'[r] = exec[r] /\ \A p \in Pages : obs'[r][p] = obs[r][p]
    BY <1>0, <1>2, SameStatesOK
  <1>3. CASE /\ run'[r] = run[r] /\ exec'[r] = exec[r] /\ run[r].status \in Terminal
             /\ \A p \in Pages : obs'[r][p].state \in {obs[r][p].state, "none"}
    BY <1>0, <1>3, ThinnedOK DEF RunsInv
  <1> QED
    BY <1>1, <1>2, <1>3, DeletedRuns

\* Every run stays right.
LEMMA RunsStayOK ==
  ASSUME RunsTypeOK, RunsInv, RunsOK, EndedOnly, [Next]_vars
  PROVE  RunsOK'
  <1>0. \A r \in Runs : RunOK(run[r], obs[r], exec[r])
    BY DEF RunsOK
  <1>1. CASE RunsNext /\ UNCHANGED <<planVars, del, raced>>
    <2>1. CASE Request
      BY <1>0, <2>1, AskedRuns, AskedOK DEF RunsOK
    <2>2. ASSUME NEW r \in Runs, Execute(r) \/ Mishap(r) PROVE RunsOK'
      <3>1. RunOK(run'[r], obs'[r], exec'[r])
        BY <1>0, <2>2, ExecuteOK, MishapOK
      <3>2. \A s \in Runs : s # r => run'[s] = run[s] /\ obs'[s] = obs[s] /\ exec'[s] = exec[s]
        BY <2>2, Elsewhere
      <3> QED
        BY <1>0, <3>1, <3>2 DEF RunsOK
    <2> QED
      BY <1>1, <2>1, <2>2 DEF RunsNext
  <1>2. ASSUME NEW r \in Runs, StoreNext(r) PROVE RunsOK'
    <2>1. Store(r)
      BY <1>2 DEF StoreNext
    <2>2. RunOK(run'[r], obs'[r], exec'[r])
      BY <1>0, <2>1, StoreOK
    <2>3. \A s \in Runs : s # r => run'[s] = run[s] /\ obs'[s] = obs[s] /\ exec'[s] = exec[s]
      BY <2>1, RunsTypes DEF Store
    <2> QED
      BY <1>0, <2>2, <2>3 DEF RunsOK
  <1>3. CASE PlansNext
    BY <1>0, <1>3, AskedRuns, AskedOK DEF RunsOK
  <1>4. CASE DeleteRows
    BY <1>4, DeleteRowsOK
  <1>5. CASE DeletionNext /\ ~DeleteRows
    BY <1>0, <1>5, DeletionLooks DEF RunsOK
  <1>6. CASE UNCHANGED vars
    BY <1>0, <1>6 DEF RunsOK, vars, runVars
  <1> QED
    BY <1>1, <1>2, <1>3, <1>4, <1>5, <1>6 DEF Next

-----------------------------------------------------------------------------
(* Runs as plans and deletions see them.                                   *)

\* A run that has a job keeps it, and what it is for; a job that has ended stays so.
Follows(r) ==
  run[r].job # "none" =>
    /\ run'[r].job # "none"
    /\ run'[r].domain = run[r].domain /\ run'[r].targets = run[r].targets
    /\ run'[r].job \in Active => run[r].job \in Active

StaysEnded(r) == run[r].status \in Terminal => run'[r].status \in Terminal

LEMMA ExecuteFollows ==
  ASSUME RunsTypeOK, NEW r \in Runs, RunOK(run[r], obs[r], exec[r]), Execute(r) \/ Mishap(r) \/ Store(r)
  PROVE  Follows(r) /\ StaysEnded(r)
  <1> DEFINE b == run[r]
  <1>0. b \in RunRows /\ run \in [Runs -> RunRows]
    BY RunsTypes
  <1>1. CASE run' = run
    BY <1>1 DEF Follows, StaysEnded
  <1>2. ASSUME NEW j, b.job \in Active, j # "none", run'[r] = [b EXCEPT !.job = j]
        PROVE  Follows(r) /\ StaysEnded(r)
    BY <1>0, <1>2 DEF Follows, StaysEnded, RunRows
  <1>3. ASSUME NEW st, run'[r] = [b EXCEPT !.status = st], st \in Terminal \/ b.status \notin Terminal
        PROVE  Follows(r) /\ StaysEnded(r)
    BY <1>0, <1>3 DEF Follows, StaysEnded, RunRows
  <1>4. ASSUME b.job \in Active, run'[r].job \in Terminal, run'[r].status \in Terminal,
               run'[r].domain = b.domain, run'[r].targets = b.targets
        PROVE  Follows(r) /\ StaysEnded(r)
    BY <1>4 DEF Follows, StaysEnded, Terminal
  <1>5. CASE Claim(r)
    BY <1>0, <1>2, <1>5 DEF Claim, Active
  <1>6. CASE Begin(r)
    <2>1. b.job = "running" /\ exec[r].at = "start"
      BY <1>6 DEF Begin, Owns
    <2>2. b.status \notin Terminal
      BY <2>1 DEF RunOK, Terminal
    <2>3. run' = run \/ run'[r] = [b EXCEPT !.status = "running"]
      BY <1>0, <1>6 DEF Begin
    <2> QED
      BY <1>1, <1>3, <2>2, <2>3
  <1>7. CASE Attempt(r)
    <2>1. run'[r] = [b EXCEPT !.attempted = b.attempted + 1]
      BY <1>0, <1>7 DEF Attempt
    <2> QED
      BY <1>0, <2>1 DEF Follows, StaysEnded, RunRows
  <1>8. CASE Count(r)
    <2>1. run'[r] = [b EXCEPT !.ready = InState(r, {"ready"}), !.failed = Failures(r),
                              !.skipped = InState(r, {"skipped"})]
      BY <1>0, <1>8 DEF Count
    <2> QED
      BY <1>0, <2>1 DEF Follows, StaysEnded, RunRows
  <1>9. CASE Stop(r)
    BY <1>0, <1>3, <1>9 DEF Stop, Terminal
  <1>10. CASE Finish(r)
    <2>1. Ending(b) \in Terminal
      BY EndingType
    <2> QED
      BY <1>0, <1>3, <1>10, <2>1 DEF Finish
  <1>11. CASE Settle(r)
    <2>1. run'[r] = Settled(b) /\ b.job = "running"
      BY <1>0, <1>11 DEF Settle, Owns
    <2> DEFINE j == IF b.status = "cancelled" THEN "cancelled" ELSE Ending(b)
    <2>2. run'[r] = [b EXCEPT !.job = j] /\ j # "none"
      BY <2>1 DEF Settled, Ending
    <2>3. b.job \in Active
      BY <2>1 DEF Active
    <2> HIDE DEF j
    <2> QED
      BY <1>2, <2>2, <2>3
  <1>12. CASE Fail(r)
    <2>1. b.job = "running" /\ run'[r] = [b EXCEPT !.job = "failed", !.status = "failed"]
      BY <1>0, <1>12 DEF Fail
    <2>2. /\ run'[r].job = "failed" /\ run'[r].status = "failed"
          /\ run'[r].domain = b.domain /\ run'[r].targets = b.targets
      BY <1>0, <2>1 DEF RunRows
    <2> QED
      BY <1>4, <2>1, <2>2 DEF Active, Terminal
  <1>13. CASE Recover(r)
    <2>1. b.job = "running"
      BY <1>13 DEF Recover
    <2>2. CASE b.status \in Terminal
      <3>1. run'[r] = [b EXCEPT !.job = b.status] /\ b.status # "none"
        BY <1>0, <1>13, <2>2 DEF Recover, Terminal
      <3>2. /\ run'[r].job = b.status /\ run'[r].status = b.status
            /\ run'[r].domain = b.domain /\ run'[r].targets = b.targets
        BY <1>0, <3>1 DEF RunRows
      <3> QED
        BY <2>1, <3>1, <3>2 DEF Follows, StaysEnded, Active
    <2>3. CASE b.status \notin Terminal
      <3>1. run'[r] = [b EXCEPT !.job = "interrupted", !.status = InterruptedStatus(b.domain)]
        BY <1>0, <1>13, <2>3 DEF Recover
      <3>2. InterruptedStatus(b.domain) \in Terminal
        BY DEF InterruptedStatus, Terminal
      <3>3. /\ run'[r].job = "interrupted" /\ run'[r].status = InterruptedStatus(b.domain)
            /\ run'[r].domain = b.domain /\ run'[r].targets = b.targets
        BY <1>0, <3>1 DEF RunRows
      <3> QED
        BY <1>4, <2>1, <3>2, <3>3 DEF Active, Terminal
    <2> QED
      BY <2>2, <2>3
  <1> QED
    BY <1>1, <1>5, <1>6, <1>7, <1>8, <1>9, <1>10, <1>11, <1>12, <1>13
       DEF Execute, Mishap, CheckCancel, Open, Skip, Persist, PersistFailure, CancelObservation,
           WaitCancelled, LoseLease, Crash, Store

LEMMA AskedFollows ==
  ASSUME RunsTypeOK, NEW r \in Runs, AskedOf(r)
  PROVE  Follows(r) /\ StaysEnded(r)
  <1>0. run[r] \in RunRows
    BY RunsTypes
  <1>1. CASE run'[r] = run[r]
    BY <1>1 DEF Follows, StaysEnded
  <1>2. CASE Unused(r)
    BY <1>2 DEF Unused, NoRun, Follows, StaysEnded, Terminal
  <1>3. CASE run'[r] = CancelledRow(run[r]) \/ \E seen : run'[r] = CancelledAs(run[r], seen)
    <2>1. /\ SameTally(run[r], run'[r])
          /\ \/ run'[r] = run[r]
             \/ run'[r].cancel /\ run'[r].job = run[r].job /\ run'[r].status = run[r].status
             \/ run'[r].job = "cancelled" /\ run'[r].status \in {"cancelled", run[r].status}
      BY <1>0, <1>3, CancelledTo
    <2> QED
      BY <2>1 DEF Follows, StaysEnded, SameTally, SameCounters, Terminal, Active
  <1> QED
    BY <1>1, <1>2, <1>3 DEF AskedOf

\* Each step but the deletion of rows.
LEMMA RunsFollow ==
  ASSUME RunsTypeOK, RunsOK, [Next]_vars, ~DeleteRows
  PROVE  \A r \in Runs : Follows(r) /\ StaysEnded(r)
  <1>0. \A r \in Runs : run'[r] = run[r] => Follows(r) /\ StaysEnded(r)
    BY DEF Follows, StaysEnded
  <1>1. ASSUME NEW r \in Runs, Execute(r) \/ Mishap(r) \/ Store(r), NEW s \in Runs
        PROVE  Follows(s) /\ StaysEnded(s)
    <2>1. CASE s = r
      BY <1>1, <2>1, ExecuteFollows DEF RunsOK
    <2>2. CASE s # r
      <3>1. run'[s] = run[s]
        BY <1>1, <2>2, Elsewhere DEF Store
      <3> QED
        BY <1>0, <3>1
    <2> QED
      BY <2>1, <2>2
  <1>2. CASE Request \/ PlansNext
    BY <1>2, AskedRuns, AskedFollows
  <1>3. CASE DeletionNext
    BY <1>0, <1>3, DeletionLooks
  <1>4. CASE UNCHANGED vars
    BY <1>0, <1>4 DEF vars, runVars
  <1> QED
    BY <1>1, <1>2, <1>3, <1>4 DEF Next, RunsNext, StoreNext

\* What a deletion of observations was checked for stays true until it deletes them.
LEMMA EndedStays ==
  ASSUME TypeOK, RunsOK, EndedOnly, [Next]_vars
  PROVE  EndedOnly'
  <1>0. RunsTypeOK /\ del \in Deletions
    BY DeletionTypes
  <1>1. CASE DeleteRows
    <2>1. del'.pc = "unlink"
      BY <1>0, <1>1 DEF DeleteRows, Deletions
    <2> QED
      BY <2>1 DEF EndedOnly
  <1>2. CASE ~DeleteRows
    <2>1. \A r \in Runs : StaysEnded(r)
      BY <1>0, <1>2, RunsFollow
    <2>2. CASE del' = del
      <3>1. del.runs \subseteq Runs
        BY <1>0 DEF Deletions
      <3> QED
        BY <2>1, <2>2, <3>1 DEF EndedOnly, StaysEnded
    <2>3. ASSUME NEW r \in Runs, NEW p \in Pages, DeleteObservation(r, p) \/ DeleteTarget(r, p)
          PROVE  EndedOnly'
      <3>1. run'[r].status \in Terminal
        BY <2>3 DEF DeleteObservation, DeleteTarget, CheckedObservation, Checked, Deletable, DeletableRender
      <3>2. del'.runs = {r} /\ del'.pc = "checked"
        BY <2>3 DEF DeleteObservation, DeleteTarget, CheckedObservation, Checked, NoDeletion
      <3> QED
        BY <3>1, <3>2 DEF EndedOnly
    <2>4. ASSUME NEW kind, kind # "observation", NEW d, NEW rs, NEW ps, NEW blobs,
                 Checked(kind, d, rs, ps, blobs)
          PROVE  EndedOnly'
      <3>1. del'.kind = kind /\ del'.pc = "checked"
        BY <2>4 DEF Checked, NoDeletion
      <3> QED
        BY <2>4, <3>1 DEF EndedOnly
    <2>5. CASE \/ \E r \in Runs : DeleteRun(r) \/ DeleteRenderRun(r)
               \/ \E d \in Domains : Purge(d)
               \/ PurgeRenders
      BY <2>4, <2>5 DEF DeleteRun, DeleteRenderRun, CheckedRun, Purge, PurgeRenders, CheckedPurge
    <2>6. CASE (\E d \in Domains : Collect(d)) \/ Unlink \/ CrashDeleting
      <3>1. ASSUME NEW d \in Domains, Collect(d)
            PROVE  del'.pc = "guarded" /\ del'.kind = "gc"
        BY <3>1 DEF Collect, NoDeletion
      <3>2. CASE Unlink \/ CrashDeleting
        BY <3>2 DEF Unlink, CrashDeleting, NoDeletion, EndedOnly
      <3> QED
        BY <2>6, <3>1, <3>2 DEF EndedOnly
    <2>7. CASE CollectRead
      <3>1. del'.kind = "gc" /\ del'.pc = "checked"
        BY <1>0, <2>7 DEF CollectRead, EndedOnly, Deletions
      <3> QED
        BY <3>1 DEF EndedOnly
    <2>8. CASE CollectSweep
      <3> DEFINE gone == del.blobs \cup (files[del.domain] \ del.files)
      <3>1. del' = NoDeletion \/ del' = [del EXCEPT !.pc = "unlink", !.files = gone]
        BY <2>8 DEF CollectSweep
      <3> HIDE DEF gone
      <3>2. CASE del' = NoDeletion
        BY <3>2 DEF NoDeletion, EndedOnly
      <3>3. CASE del' = [del EXCEPT !.pc = "unlink", !.files = gone]
        <4>1. del'.pc = "unlink"
          BY <1>0, <3>3 DEF Deletions
        <4> QED
          BY <4>1 DEF EndedOnly
      <3> QED
        BY <3>1, <3>2, <3>3
    <2> QED
      BY <1>2, <2>2, <2>3, <2>5, <2>6, <2>7, <2>8 DEF Next, DeletionNext, StoreNext, vars
  <1> QED
    BY <1>1, <1>2

-----------------------------------------------------------------------------
(* The steps of plans.                                                     *)

LEMMA BatchMembers ==
  ASSUME PlansTypeOK, NEW i \in Plans
  PROVE  Batches(i) \subseteq Runs \cup {Gone}
  <1>1. plan[i].batches \in Seq(Runs \cup {Gone})
    BY PlansTypes DEF PlanRows
  <1> HIDE DEF Runs, Gone
  <1>2. \A k \in DOMAIN plan[i].batches : plan[i].batches[k] \in Runs \cup {Gone}
    BY <1>1
  <1> QED
    BY <1>2 DEF Batches

\* A step that keeps what plans are made of.
LEMMA PlansFollow ==
  ASSUME PlansTypeOK, PlansOK, \A r \in Runs : Follows(r),
         \A i \in Plans : /\ plan'[i].batches = plan[i].batches
                          /\ plan'[i].domain = plan[i].domain /\ plan'[i].targets = plan[i].targets
  PROVE  PlansOK'
  <1>1. \A i \in Plans : Batches(i)' = Batches(i)
    BY DEF Batches
  <1>2. ASSUME NEW i \in Plans, NEW r \in Batches(i) \ {Gone}
        PROVE  /\ r \in Runs /\ run[r].job # "none" /\ run'[r].job # "none"
               /\ run'[r].domain = run[r].domain /\ run'[r].targets = run[r].targets
               /\ run'[r].job \in Active => run[r].job \in Active
    <2>1. r \in Runs
      BY <1>2, BatchMembers
    <2>2. run[r].job # "none"
      BY <1>2 DEF PlansOK, PlanOK
    <2>3. Follows(r)
      BY <2>1
    <2> QED
      BY <2>1, <2>2, <2>3 DEF Follows
  <1>3. ASSUME NEW i \in Plans PROVE PlanOK(i)'
    <2>1. ASSUME NEW r \in Batches(i) \ {Gone} PROVE run'[r].job # "none" /\ run'[r].domain = plan'[i].domain
      BY <1>2, <2>1 DEF PlansOK, PlanOK
    <2>2. CASE Gone \in Batches(i)
      BY <1>1, <2>1, <2>2 DEF PlanOK
    <2>3. CASE Gone \notin Batches(i)
      <3>1. UNION {run'[r].targets : r \in Batches(i)} = UNION {run[r].targets : r \in Batches(i)}
        BY <1>2, <2>3
      <3>2. UNION {run[r].targets : r \in Batches(i)} = plan[i].targets
        BY <2>3 DEF PlansOK, PlanOK
      <3> QED
        BY <1>1, <2>1, <3>1, <3>2 DEF PlanOK
    <2> QED
      BY <2>2, <2>3
  <1>4. CollectedOnce'
    <2> SUFFICES ASSUME NEW i \in Plans, NEW j \in Plans,
                        NEW r \in Batches(i)' \ {Gone}, NEW s \in Batches(j)' \ {Gone},
                        r # s, run'[r].domain = run'[s].domain,
                        run'[r].job \in Active, run'[s].job \in Active
                 PROVE  run'[r].targets \cap run'[s].targets = {}
      BY DEF CollectedOnce, ActiveJob
    <2>1. r \in Batches(i) \ {Gone} /\ s \in Batches(j) \ {Gone}
      BY <1>1
    <2>2. /\ run[r].job \in Active /\ run[s].job \in Active /\ run[r].domain = run[s].domain
          /\ run'[r].targets = run[r].targets /\ run'[s].targets = run[s].targets
      BY <1>2, <2>1
    <2>3. run[r].targets \cap run[s].targets = {}
      BY <2>1, <2>2 DEF PlansOK, CollectedOnce, ActiveJob
    <2> QED
      BY <2>2, <2>3
  <1> QED
    BY <1>3, <1>4 DEF PlansOK

\* What a step leaves of the plans.
LEMMA SamePlanRows ==
  ASSUME PlansTypeOK, [Next]_vars, ~DeleteRows,
         ~\E i \in Plans, d \in Domains, mode \in Modes : CreatePlan(i, d, mode)
  PROVE  \A i \in Plans : /\ plan'[i].batches = plan[i].batches
                          /\ plan'[i].domain = plan[i].domain /\ plan'[i].targets = plan[i].targets
  <1>1. CASE CancelPlanWrite
    <2>1. plan' = plan \/ plan' = [plan EXCEPT ![call.plan].cancelled = TRUE]
      BY <1>1 DEF CancelPlanWrite
    <2>2. plan \in [Plans -> PlanRows]
      BY PlansTypes
    <2>3. ASSUME NEW i \in Plans, plan' = [plan EXCEPT ![call.plan].cancelled = TRUE]
          PROVE  plan'[i] = plan[i] \/ plan'[i] = [plan[i] EXCEPT !.cancelled = TRUE]
      BY <2>2, <2>3
    <2>4. ASSUME NEW i \in Plans
          PROVE  plan'[i] = plan[i] \/ plan'[i] = [plan[i] EXCEPT !.cancelled = TRUE]
      BY <2>1, <2>3, <2>4
    <2>5. ASSUME NEW row \in PlanRows, NEW row1, row1 = [row EXCEPT !.cancelled = TRUE]
          PROVE  row1.batches = row.batches /\ row1.domain = row.domain /\ row1.targets = row.targets
      BY <2>5 DEF PlanRows
    <2> QED
      BY <2>2, <2>4, <2>5
  <1>2. CASE plan' = plan
    BY <1>2
  <1>3. plan' = plan \/ CancelPlanWrite
    <2>1. CASE PlansNext
      BY <2>1 DEF PlansNext, CancelPlanRead
    <2>2. CASE ~PlansNext
      BY <2>2, DeletionLooks DEF Next, StoreNext, vars, planVars
    <2> QED
      BY <2>1, <2>2
  <1> QED
    BY <1>1, <1>2, <1>3

\* A batch that lost its run says so, and the others are as they were.
LEMMA DeleteRowsPlans ==
  ASSUME PlansTypeOK, PlansOK, DeleteRows
  PROVE  PlansOK'
  <1>1. plan \in [Plans -> PlanRows]
    BY PlansTypes
  <1>2. run' = [r \in Runs |-> IF r \in Doomed THEN DeletedRun ELSE run[r]]
    BY DEF DeleteRows
  <1>3. ASSUME NEW i \in Plans
        PROVE  /\ plan'[i].domain = plan[i].domain /\ plan'[i].targets = plan[i].targets
               /\ plan'[i].batches = [k \in DOMAIN plan[i].batches |->
                    IF plan[i].batches[k] \in Doomed THEN Gone ELSE plan[i].batches[k]]
    <2> DEFINE new == [k \in DOMAIN plan[i].batches |->
                        IF plan[i].batches[k] \in Doomed THEN Gone ELSE plan[i].batches[k]]
    <2>1. plan'[i] = [plan[i] EXCEPT !.batches = new]
      BY DEF DeleteRows
    <2> HIDE DEF new
    <2>2. plan'[i].domain = plan[i].domain /\ plan'[i].targets = plan[i].targets /\ plan'[i].batches = new
      BY <1>1, <2>1 DEF PlanRows
    <2> QED
      BY <2>2 DEF new
  <1>4. ASSUME NEW i \in Plans
        PROVE  Batches(i)' = {IF r \in Doomed THEN Gone ELSE r : r \in Batches(i)}
    <2>1. \A f : LET g == [k \in DOMAIN f |-> IF f[k] \in Doomed THEN Gone ELSE f[k]]
                IN {g[k] : k \in DOMAIN g} = {IF r \in Doomed THEN Gone ELSE r : r \in {f[k] : k \in DOMAIN f}}
      OBVIOUS
    <2>2. plan'[i].batches = [k \in DOMAIN plan[i].batches |->
            IF plan[i].batches[k] \in Doomed THEN Gone ELSE plan[i].batches[k]]
      BY <1>3
    <2>3. Batches(i)' = {plan'[i].batches[k] : k \in DOMAIN plan'[i].batches}
      BY DEF Batches
    <2> QED
      BY <2>1, <2>2, <2>3 DEF Batches
  <1>5. ASSUME NEW i \in Plans, NEW r \in Batches(i)' \ {Gone}
        PROVE  r \in Batches(i) \ {Gone} /\ run'[r] = run[r]
    <2>1. r \in Batches(i) /\ r \notin Doomed
      BY <1>4, <1>5
    <2> QED
      BY <1>2, <2>1, BatchMembers
  <1>6. ASSUME NEW i \in Plans PROVE PlanOK(i)'
    <2>1. ASSUME NEW r \in Batches(i)' \ {Gone} PROVE run'[r].job # "none" /\ run'[r].domain = plan'[i].domain
      <3>1. r \in Batches(i) \ {Gone} /\ run'[r] = run[r]
        BY <1>5, <2>1
      <3>2. plan'[i].domain = plan[i].domain
        BY <1>3
      <3> QED
        BY <3>1, <3>2 DEF PlansOK, PlanOK
    <2>2. ASSUME Gone \notin Batches(i)'
          PROVE  UNION {run'[r].targets : r \in Batches(i)'} = plan'[i].targets
      <3>1. Batches(i)' = Batches(i)
        BY <1>4, <2>2
      <3>2. \A r \in Batches(i) : run'[r] = run[r]
        BY <1>5, <2>2, <3>1
      <3>3. UNION {run[r].targets : r \in Batches(i)} = plan[i].targets
        BY <2>2, <3>1 DEF PlansOK, PlanOK
      <3>4. plan'[i].targets = plan[i].targets
        BY <1>3
      <3>5. UNION {run'[r].targets : r \in Batches(i)} = UNION {run[r].targets : r \in Batches(i)}
        BY <3>2
      <3> QED
        BY <3>1, <3>3, <3>4, <3>5
    <2> QED
      BY <2>1, <2>2 DEF PlanOK
  <1>7. CollectedOnce'
    <2> SUFFICES ASSUME NEW i \in Plans, NEW j \in Plans,
                        NEW r \in Batches(i)' \ {Gone}, NEW s \in Batches(j)' \ {Gone},
                        r # s, run'[r].domain = run'[s].domain,
                        run'[r].job \in Active, run'[s].job \in Active
                 PROVE  run'[r].targets \cap run'[s].targets = {}
      BY DEF CollectedOnce, ActiveJob
    <2> QED
      BY <1>5 DEF PlansOK, CollectedOnce, ActiveJob
  <1> QED
    BY <1>6, <1>7 DEF PlansOK

\* The pages of a plan are split into batches that share none and leave none out.
LEMMA BatchesSplit ==
  ASSUME NEW S \in SUBSET Pages, NEW size \in Nat \ {0}
  PROVE  /\ \A k, m \in Nat : k # m => Batch(k, S, size) \cap Batch(m, S, size) = {}
         /\ \A p \in S : \E k \in 1 .. BatchCount(S, size) : p \in Batch(k, S, size)
  <1>0. S \subseteq Nat /\ IsFiniteSet(S) /\ Cardinality(S) \in Nat
    BY CollectionAssumption, FS_Subset, FS_CardinalityType
  <1>1. ASSUME NEW k \in Nat, NEW m \in Nat, k # m
        PROVE  Batch(k, S, size) \cap Batch(m, S, size) = {}
    <2> SUFFICES ASSUME NEW p, p \in Batch(k, S, size), p \in Batch(m, S, size) PROVE FALSE
      OBVIOUS
    <2>1. Rank(p, S) \div size = k - 1 /\ Rank(p, S) \div size = m - 1
      BY DEF Batch
    <2> QED
      BY <1>1, <2>1
  <1>2. ASSUME NEW p \in S
        PROVE  \E k \in 1 .. BatchCount(S, size) : p \in Batch(k, S, size)
    <2> DEFINE before == {q \in S : q < p}
               c == Cardinality(S)
               a == Rank(p, S)
    <2>1. before \subseteq S /\ p \notin before /\ IsFiniteSet(before)
      BY <1>0, FS_Subset
    <2>2. a \in Nat /\ a < c
      <3>1. IsFiniteSet(before \cup {p}) /\ Cardinality(before \cup {p}) = Cardinality(before) + 1
        BY <2>1, FS_AddElement
      <3>2. before \cup {p} \subseteq S
        BY <2>1
      <3>3. Cardinality(before \cup {p}) <= c
        BY <1>0, <3>2, FS_Subset
      <3>4. Cardinality(before) \in Nat
        BY <2>1, FS_CardinalityType
      <3> QED
        BY <1>0, <3>1, <3>3, <3>4 DEF Rank
    <2>3. c \in Nat
      BY <1>0
    <2> HIDE DEF a, c
    <2>4. a \div size + 1 <= (c + size - 1) \div size /\ a \div size \in Nat /\ (c + size - 1) \div size \in Nat
      BY <2>2, <2>3
    <2>5. a \div size + 1 \in 1 .. BatchCount(S, size)
      BY <2>4 DEF BatchCount, c
    <2>6. p \in Batch(a \div size + 1, S, size)
      BY <2>4 DEF Batch, a
    <2> QED
      BY <2>5, <2>6
  <1> QED
    BY <1>1, <1>2

\* A new plan has new runs, for pages nobody is collecting.
LEMMA CreatePlanOK ==
  ASSUME RunsTypeOK, PlansTypeOK, PlansOK,
         NEW i \in Plans, NEW d \in Domains, NEW mode \in Modes, CreatePlan(i, d, mode)
  PROVE  PlansOK'
  <1> DEFINE S == Selection(d, mode)
             size == BatchSize[d]
             n == BatchCount(S, size)
             T(k) == Batch(k, S, size)
             Nth(f, r) == CHOOSE k \in 1 .. n : f[k] = r
  <1>0. S \in SUBSET Pages /\ size \in Nat \ {0} /\ n \in Nat
    BY BatchTypes, PlanAssumption
  <1>1. PICK f \in Fresh(n) :
          /\ plan' = [plan EXCEPT ![i] = [domain |-> d, mode |-> mode, batches |-> f,
                                          targets |-> S, cancelled |-> FALSE]]
          /\ run' = [r \in Runs |-> IF \E k \in 1 .. n : f[k] = r THEN NewRun(d, T(Nth(f, r))) ELSE run[r]]
    BY DEF CreatePlan
  <1>2. plan[i] = NoPlan
    BY DEF CreatePlan
  <1>3. S \cap InFlight(d) = {}
    BY DEF Selection
  <1>4. /\ \A k, m \in 1 .. n : k # m => T(k) \cap T(m) = {}
        /\ \A p \in S : \E k \in 1 .. n : p \in T(k)
    <2> HIDE DEF S, size
    <2> QED
      BY <1>0, BatchesSplit
  <1>5. \A k : T(k) \subseteq S
    <2> HIDE DEF S, size
    <2> QED
      BY DEF Batch
  <1> HIDE DEF S, size, n, T
  <1>6. /\ f \in [1 .. n -> {r \in Runs : Unused(r)}]
        /\ \A k, m \in 1 .. n : k < m => f[k] < f[m]
    BY DEF Fresh
  <1>7. \A k \in 1 .. n : f[k] \in Runs /\ Unused(f[k])
    BY <1>6
  <1>8. ASSUME NEW k \in 1 .. n, NEW m \in 1 .. n, f[k] = f[m] PROVE k = m
    <2>1. f[k] \in Nat /\ f[m] \in Nat
      BY <1>7, CollectionAssumption DEF Runs
    <2>2. ~(f[k] < f[m]) /\ ~(f[m] < f[k])
      BY <1>8, <2>1
    <2> QED
      BY <1>0, <1>6, <2>2
  <1>9. ASSUME NEW k \in 1 .. n
        PROVE  /\ run'[f[k]].job = "queued" /\ run'[f[k]].domain = d /\ run'[f[k]].targets = T(k)
    <2>1. Nth(f, f[k]) = k
      BY <1>8
    <2>2. run'[f[k]] = NewRun(d, T(k))
      BY <1>1, <1>7, <2>1
    <2> QED
      BY <2>2 DEF NewRun, NoRun
  <1>10. Batches(i)' = {f[k] : k \in 1 .. n} /\ plan'[i].domain = d /\ plan'[i].targets = S
    <2>1. plan \in [Plans -> PlanRows]
      BY PlansTypes
    <2>2. plan'[i] = [domain |-> d, mode |-> mode, batches |-> f, targets |-> S, cancelled |-> FALSE]
      BY <1>1, <2>1
    <2>3. plan'[i].batches = f /\ plan'[i].domain = d /\ plan'[i].targets = S
      BY <2>2
    <2>4. DOMAIN f = 1 .. n
      BY <1>6
    <2> QED
      BY <2>3, <2>4 DEF Batches
  <1>11. ASSUME NEW j \in Plans, j # i
         PROVE  plan'[j] = plan[j] /\ Batches(j)' = Batches(j)
    <2>1. plan \in [Plans -> PlanRows]
      BY PlansTypes
    <2>2. plan'[j] = plan[j]
      BY <1>1, <1>11, <2>1
    <2> QED
      BY <2>2 DEF Batches
  <1>12. ASSUME NEW j \in Plans, j # i, NEW r \in Batches(j) \ {Gone}
         PROVE  run'[r] = run[r] /\ r \in Runs /\ run[r].job # "none"
    <2>1. r \in Runs
      BY <1>12, BatchMembers
    <2>2. run[r].job # "none"
      BY <1>12 DEF PlansOK, PlanOK
    <2>3. ~\E k \in 1 .. n : f[k] = r
      BY <1>7, <2>2 DEF Unused, NoRun
    <2> QED
      BY <1>1, <2>1, <2>2, <2>3
  <1>13. PlanOK(i)'
    <2>1. \A r \in Batches(i)' : run'[r].job # "none" /\ run'[r].domain = plan'[i].domain
      BY <1>9, <1>10
    <2>2. UNION {run'[r].targets : r \in Batches(i)'} = UNION {T(k) : k \in 1 .. n}
      BY <1>9, <1>10
    <2>3. UNION {T(k) : k \in 1 .. n} = S
      BY <1>4, <1>5
    <2> QED
      BY <1>10, <2>1, <2>2, <2>3 DEF PlanOK
  <1>14. ASSUME NEW j \in Plans, j # i PROVE PlanOK(j)'
    <2>1. plan'[j] = plan[j] /\ Batches(j)' = Batches(j)
      BY <1>11, <1>14
    <2>2. \A r \in Batches(j) \ {Gone} : run'[r] = run[r]
      BY <1>12, <1>14
    <2>3. PlanOK(j)
      BY DEF PlansOK
    <2>4. ASSUME Gone \notin Batches(j)
          PROVE  UNION {run'[r].targets : r \in Batches(j)} = plan[j].targets
      <3>1. UNION {run'[r].targets : r \in Batches(j)} = UNION {run[r].targets : r \in Batches(j)}
        BY <2>2, <2>4
      <3> QED
        BY <2>3, <2>4, <3>1 DEF PlanOK
    <2> QED
      BY <2>1, <2>2, <2>3, <2>4 DEF PlanOK
  <1>15. CollectedOnce'
    <2> SUFFICES ASSUME NEW j \in Plans, NEW l \in Plans,
                        NEW r \in Batches(j)' \ {Gone}, NEW s \in Batches(l)' \ {Gone},
                        r # s, run'[r].domain = run'[s].domain,
                        run'[r].job \in Active, run'[s].job \in Active
                 PROVE  run'[r].targets \cap run'[s].targets = {}
      BY DEF CollectedOnce, ActiveJob
    <2>1. CASE j = i /\ l = i
      <3>1. PICK k \in 1 .. n, m \in 1 .. n : r = f[k] /\ s = f[m]
        BY <1>10, <2>1
      <3>2. k # m
        BY <3>1
      <3> QED
        BY <1>4, <1>9, <3>1, <3>2
    <2>2. ASSUME NEW j1 \in Plans, j1 # i, NEW k \in 1 .. n, NEW q \in Batches(j1) \ {Gone},
                 run'[q].domain = d, run'[q].job \in Active
          PROVE  run'[f[k]].targets \cap run'[q].targets = {}
      <3>1. run'[q] = run[q] /\ q \in Runs
        BY <1>12, <2>2
      <3>2. run[q].targets \subseteq InFlight(d)
        BY <2>2, <3>1 DEF InFlight, ActiveJob
      <3>3. run'[f[k]].targets \subseteq S
        BY <1>5, <1>9
      <3> QED
        BY <1>3, <3>1, <3>2, <3>3
    <2>3. CASE j = i /\ l # i
      <3>1. PICK k \in 1 .. n : r = f[k]
        BY <1>10, <2>3
      <3>2. s \in Batches(l) \ {Gone} /\ run'[s].domain = d
        BY <1>9, <1>11, <2>3, <3>1
      <3> QED
        BY <2>2, <2>3, <3>1, <3>2
    <2>4. CASE j # i /\ l = i
      <3>1. PICK k \in 1 .. n : s = f[k]
        BY <1>10, <2>4
      <3>2. r \in Batches(j) \ {Gone} /\ run'[r].domain = d
        BY <1>9, <1>11, <2>4, <3>1
      <3>3. run'[f[k]].targets \cap run'[r].targets = {}
        BY <2>2, <2>4, <3>2
      <3> QED
        BY <3>1, <3>3
    <2>5. CASE j # i /\ l # i
      <3>1. r \in Batches(j) \ {Gone} /\ s \in Batches(l) \ {Gone}
        BY <1>11, <2>5
      <3>2. run'[r] = run[r] /\ run'[s] = run[s]
        BY <1>12, <2>5, <3>1
      <3> QED
        BY <3>1, <3>2 DEF PlansOK, CollectedOnce, ActiveJob
    <2> QED
      BY <2>1, <2>3, <2>4, <2>5
  <1> QED
    BY <1>13, <1>14, <1>15 DEF PlansOK

-----------------------------------------------------------------------------
(* The theorems.                                                           *)

LEMMA InitCInv == Init => CInv
  <1> SUFFICES ASSUME Init PROVE CInv
    OBVIOUS
  <1>1. RunsOK
    BY DEF Init, RunsInit, RunsOK, RunOK, Blank, NoRun, Unobserved, Resting, Completed
  <1>2. EndedOnly
    BY DEF Init, EndedOnly, NoDeletion
  <1>3. \A i \in Plans : Batches(i) = {} /\ plan[i].targets = {}
    BY DEF Init, PlansInit, NoPlan, Batches
  <1>4. PlansOK
    BY <1>3 DEF PlansOK, PlanOK, CollectedOnce
  <1> QED
    BY <1>1, <1>2, <1>4 DEF CInv

LEMMA StepCInv == IInv /\ CInv /\ [Next]_vars => CInv'
  <1> SUFFICES ASSUME IInv, CInv, [Next]_vars PROVE CInv'
    OBVIOUS
  <1>0. TypeOK /\ RunsTypeOK /\ PlansTypeOK /\ RunsInv /\ RunsOK /\ EndedOnly /\ PlansOK
    BY DeletionTypes DEF IInv, CInv
  <1>1. RunsOK' /\ EndedOnly'
    BY <1>0, RunsStayOK, EndedStays
  <1>2. PlansOK'
    <2>1. CASE DeleteRows
      BY <1>0, <2>1, DeleteRowsPlans
    <2>2. CASE \E i \in Plans, d \in Domains, mode \in Modes : CreatePlan(i, d, mode)
      BY <1>0, <2>2, CreatePlanOK
    <2>3. CASE /\ ~DeleteRows
               /\ ~\E i \in Plans, d \in Domains, mode \in Modes : CreatePlan(i, d, mode)
      BY <1>0, <2>3, RunsFollow, SamePlanRows, PlansFollow
    <2> QED
      BY <2>1, <2>2, <2>3
  <1> QED
    BY <1>1, <1>2 DEF CInv

LEMMA CollectionInvariant == Spec => [](IInv /\ CInv)
  <1>1. Init => IInv /\ CInv
    BY InitInv, InitCInv
  <1>2. (IInv /\ CInv) /\ [Next]_vars => (IInv /\ CInv)'
    BY StepInv, StepCInv
  <1> QED
    BY <1>1, <1>2, PTL DEF Spec

\* A run that completed has an answer for each of its pages, unless the answer was deleted, its
\* counters add up to its pages, and it says "with errors" when one of them failed or was skipped.
THEOREM CompletedRunsAddUp == Spec => []CountsAgree
  <1>1. RunsOK => CountsAgree
    BY DEF RunsOK, RunOK, Completed, Counted, Final, CountsAgree, Answered, PerformanceOutcomes,
           AccessibilityOutcomes
  <1> QED
    BY <1>1, CollectionInvariant, PTL DEF CInv

\* Active batches of plans never collect a page twice, whatever is created, cancelled or deleted
\* meanwhile.
THEOREM PagesAreCollectedOnce == Spec => []CollectedOnce
  <1>1. PlansOK => CollectedOnce
    BY DEF PlansOK
  <1> QED
    BY <1>1, CollectionInvariant, PTL DEF CInv

\* A plan that says "completed" has each of its batches, and they collected each of its pages.
THEOREM PlansAreTruthful == Spec => []PlanTruthful
  <1>1. PlansTypeOK /\ RunsTypeOK /\ RunsOK /\ PlansOK => PlanTruthful
    <2> SUFFICES ASSUME PlansTypeOK, RunsTypeOK, RunsOK, PlansOK, NEW i \in Plans, PlanStatus(i) = "completed"
                 PROVE  /\ UNION {run[r].targets : r \in Batches(i) \ {Gone}} = plan[i].targets
                        /\ \A r \in Batches(i) \ {Gone} : run[r].ready = Cardinality(run[r].targets)
      BY DEF PlanTruthful
    <2> DEFINE is == {BatchStatus(r) : r \in Batches(i)}
               bad == {"failed", "interrupted", "missing", "completed_with_errors"}
    <2>1. is \cap (Active \cup bad \cup {"cancelled"}) = {}
      <3> HIDE DEF is
      <3>1. PlanStatus(i) =
              CASE "running" \in is -> IF plan[i].cancelled THEN "cancelling" ELSE "running"
                [] "running" \notin is /\ "queued" \in is ->
                     IF plan[i].cancelled THEN "cancelling" ELSE "queued"
                [] is \cap Active = {} /\ is \cap bad # {} -> "completed_with_errors"
                [] is \cap (Active \cup bad) = {} /\ "cancelled" \in is -> "cancelled"
                [] OTHER -> "completed"
        BY DEF PlanStatus, is
      <3>2. "running" \notin is /\ "queued" \notin is
        BY <3>1
      <3>3. is \cap Active = {}
        BY <3>2 DEF Active
      <3>4. is \cap bad = {}
        BY <3>1, <3>2, <3>3
      <3>5. "cancelled" \notin is
        BY <3>1, <3>2, <3>3, <3>4
      <3> QED
        BY <3>3, <3>4, <3>5
    <2>2. Gone \notin Batches(i)
      BY <2>1 DEF BatchStatus
    <2>3. ASSUME NEW r \in Batches(i) PROVE r \in Runs /\ run[r].job = "completed"
      <3>1. r \in Runs /\ r # Gone
        BY <2>2, BatchMembers
      <3>2. run[r].job \in is
        BY <3>1 DEF BatchStatus
      <3>3. run[r].job \in JobStatuses
        BY <3>1, RunsTypes DEF RunRows, PlansOK, PlanOK
      <3> QED
        BY <2>1, <3>1, <3>2, <3>3 DEF JobStatuses, Terminal
    <2>4. \A r \in Batches(i) : run[r].ready = Cardinality(run[r].targets)
      BY <2>3 DEF RunsOK, RunOK
    <2>5. Batches(i) \ {Gone} = Batches(i) /\ UNION {run[r].targets : r \in Batches(i)} = plan[i].targets
      BY <2>2 DEF PlansOK, PlanOK
    <2> QED
      BY <2>4, <2>5
  <1>2. IInv => PlansTypeOK /\ RunsTypeOK
    BY DeletionTypes DEF IInv
  <1> QED
    BY <1>1, <1>2, CollectionInvariant, PTL DEF CInv

=============================================================================
