----------------------- MODULE IdentityMigrationProofs -----------------------
(***************************************************************************)
(* The migration keeps what was written, and what it makes agrees with the *)
(* spellings, for any historical database and any two normalizations of    *)
(* which the current one is idempotent.                                    *)
(***************************************************************************)
EXTENDS IdentityMigration, FiniteSetTheorems, FunctionTheorems, WellFoundedInduction, TLAPS

-----------------------------------------------------------------------------
(* The inductive invariant.                                                *)

\* A database has its columns, and so has a row.
IsDatabase(d) ==
  d = [resource |-> d.resource, row |-> d.row, page |-> d.page, derived |-> d.derived, job |-> d.job,
       worker |-> d.worker, active |-> d.active, required |-> d.required, migration |-> d.migration,
       status |-> d.status, fingerprint |-> d.fingerprint]

IsRow(x) ==
  /\ x = [kind |-> x.kind, raw |-> x.raw, url |-> x.url, resource |-> x.resource, seed |-> x.seed]
  /\ x.kind \in Kinds

RowsShaped(row) ==
  /\ row = [x \in Rows |-> row[x]]
  /\ \A x \in Rows : row[x] = NoRow \/ IsRow(row[x])

Shaped(d) == IsDatabase(d) /\ DOMAIN d.resource = Ids /\ RowsShaped(d.row)

Before(n) == backup[n][1]

\* What the backup of a database's migration has of the rows that are owed: all of them before
\* the activation, and afterwards those that were there then.
KeptBy(d) ==
  d.migration # 0 =>
    /\ d.migration \in 1 .. spent.applies /\ d.status \in {"rebuilding", "completed"}
    /\ Before(d.migration).migration = 0
    /\ d.status = "rebuilding" => owed \subseteq Evidence(Before(d.migration))
    /\ d.status = "completed" =>
         /\ Used(d.fingerprint[2], NoRow) \subseteq Evidence(d)
         /\ owed \cap Used(d.fingerprint[2], NoRow) \subseteq Evidence(Before(d.migration))

Steps == {"idle", "backed", "guarded", "planned", "based", "rebuilding", "rebuilt", "failing", "restoring"}

Control ==
  /\ spent.applies \in 0 .. MaxApplies
  /\ spent = [applies |-> spent.applies, writes |-> spent.writes, starts |-> spent.starts,
              crashes |-> spent.crashes]
  /\ op = [pc |-> op.pc, attempt |-> op.attempt, before |-> op.before] /\ op.pc \in Steps
  /\ op.pc = "idle" <=> op = Idle
  /\ backup = [n \in Attempts |-> backup[n]]
  /\ \A n \in 1 .. spent.applies : Shaped(Before(n))

\* The tool at each of its steps.
AtStep ==
  op.pc # "idle" =>
    /\ op.attempt \in 1 .. spent.applies
    /\ owed \subseteq Evidence(Before(op.attempt)) /\ KeptBy(Before(op.attempt))
    /\ op.pc = "backed" => Before(op.attempt).migration = db.migration
    /\ op.pc \in {"guarded", "planned", "based"} => db.migration = 0 /\ Before(op.attempt).migration = 0
    /\ op.pc \in {"planned", "based"} =>
         DOMAIN manifest.resource = Ids /\ Evidence(manifest) \subseteq Evidence(db)
    /\ op.pc \in {"rebuilding", "rebuilt"} => db.migration = op.attempt /\ db.status = "rebuilding"

KeptInv == Control /\ AtStep /\ Shaped(db) /\ KeptBy(db) /\ WritesKept

-----------------------------------------------------------------------------
(* What agrees.                                                            *)

ResourceRows == [version : {"V1", "V2"}, url : Urls]

RowRows == [kind : Kinds, raw : Urls, url : Urls \cup {NoUrl}, resource : Ids \cup {0}, seed : Rows \cup {0}]

Typed(d) ==
  /\ IsDatabase(d)
  /\ d.resource \in [Ids -> {NoResource} \cup ResourceRows]
  /\ d.row \in [Rows -> {NoRow} \cup RowRows]

\* What is referred to is there.
Refers(d, x) ==
  IF d.row[x].kind = "origin" THEN d.row[x].seed \in Evidence(d) /\ d.row[d.row[x].seed].kind = "seed"
  ELSE d.row[x].resource \in Resources(d)

\* A row of a historical database.
HistoricRow(d, x) ==
  /\ d.row[x].kind \in {"listed", "seed"} => d.row[x].url = d.resource[d.row[x].resource].url
  /\ d.row[x].kind = "seed" => d.row[x].raw = d.row[x].url

\* A row that has been migrated: an origin and its seed are spelled alike.
AgreeingRow(d, x) ==
  V2[d.row[x].raw] # NoUrl /\ d.resource[ResourceOf(d, x)].version = "V2" =>
    IF d.row[x].kind = "origin" THEN V2[d.row[x].raw] = V2[d.row[d.row[x].seed].raw]
    ELSE /\ d.resource[d.row[x].resource].url = V2[d.row[x].raw]
         /\ d.row[x].kind \in {"listed", "seed"} => d.row[x].url = V2[d.row[x].raw]

Historic(d) ==
  /\ d.active = "V1" /\ d.required = TRUE /\ d.status = "none"
  /\ \A r \in Resources(d) : d.resource[r].version = "V1"
  /\ \A x \in Evidence(d) : HistoricRow(d, x)

Migrated(d) ==
  /\ Unique(d)
  /\ \A x \in Evidence(d) : AgreeingRow(d, x)
  /\ d.status \in {"rebuilding", "completed"}
  /\ d.status = "completed" => Current(d) /\ d.derived = Projected(d)

Agrees(d) ==
  /\ Typed(d)
  /\ \A x \in Evidence(d) : Refers(d, x)
  /\ d.migration = 0 => Historic(d)
  /\ d.migration # 0 => Migrated(d)

\* What validate_manifest found.
Sound(m, d) ==
  /\ m.resource = d.resource /\ m.row = d.row
  /\ OfClass(m, {"candidate_v2_merge"}) = {}
  /\ \A p \in SplitPages(m) : ResolvedPage(m, p)

AgreeInv ==
  ~slipped =>
    /\ Agrees(db)
    /\ \A n \in 1 .. spent.applies : Agrees(Before(n))
    /\ op.pc \in {"planned", "based"} => Sound(manifest, db)
    /\ op.pc = "rebuilt" => db.derived = Projected(db)

IInv == KeptInv /\ AgreeInv

-----------------------------------------------------------------------------
(***************************************************************************)
(* Least and greatest numbers, and what is done in the order of numbers.   *)
(***************************************************************************)

LEMMA FirstOf ==
  ASSUME NEW S, S \subseteq Nat, S # {}
  PROVE  \E n \in S : \A m \in S : n <= m
  <1>1. PICK n \in S : \A m \in S : <<m, n>> \notin OpToRel(<, Nat)
    BY WFMin, NatLessThanWellFounded, Zenon
  <1>2. \A m \in S : ~(m < n)
    BY <1>1, Zenon DEF OpToRel
  <1> QED
    BY <1>2

LEMMA Least ==
  ASSUME NEW S, S \subseteq Nat, S # {}
  PROVE  Min(S) \in S /\ \A x \in S : Min(S) <= x
  BY FirstOf DEF Min

LEMMA OneLess ==
  ASSUME NEW S, IsFiniteSet(S), NEW x \in S
  PROVE  /\ IsFiniteSet(S \ {x}) /\ Cardinality(S \ {x}) = Cardinality(S) - 1
         /\ Cardinality(S) \in Nat /\ Cardinality(S) > 0 /\ Cardinality(S \ {x}) \in Nat
  <1>1. /\ IsFiniteSet(S \ {x}) /\ Cardinality(S \ {x}) = Cardinality(S) - 1
        /\ Cardinality(S) \in Nat /\ Cardinality(S \ {x}) \in Nat
    BY FS_RemoveElement, FS_CardinalityType
  <1> QED
    BY <1>1

LEMMA Greatest ==
  ASSUME NEW S, IsFiniteSet(S), S \subseteq Nat, S # {}
  PROVE  Max(S) \in S /\ \A x \in S : Max(S) >= x
  <1> DEFINE Top(T) == \E x \in T : \A y \in T : x >= y
             Without == {n \in Nat : \E T \in SUBSET S : T # {} /\ Cardinality(T) = n /\ ~Top(T)}
  <1>1. Without = {}
    <2>1. SUFFICES ASSUME Without # {} PROVE FALSE
      OBVIOUS
    <2>2. PICK n \in Without : \A k \in Without : n <= k
      <3>1. Without \subseteq Nat
        OBVIOUS
      <3> HIDE DEF Without
      <3> QED
        BY <2>1, <3>1, FirstOf
    <2>3. PICK T \in SUBSET S : T # {} /\ Cardinality(T) = n /\ ~Top(T)
      OBVIOUS
    <2>4. PICK x \in T : TRUE
      BY <2>3
    <2>5. IsFiniteSet(T)
      BY <2>3, FS_Subset
    <2> DEFINE U == T \ {x}
    <2>6. Cardinality(U) = n - 1 /\ n - 1 \in Nat
      BY <2>3, <2>5, OneLess
    <2>7. U # {}
      <3>1. ASSUME U = {} PROVE FALSE
        <4>1. T = {x} /\ x >= x
          BY <3>1, <2>3
        <4> QED
          BY <2>3, <4>1
      <3> QED
        BY <3>1
    <2>8. Top(U)
      <3>1. n - 1 \notin Without
        BY <2>2, <2>6
      <3> QED
        BY <2>6, <2>7, <3>1
    <2>9. PICK y \in U : \A z \in U : y >= z
      BY <2>8
    <2>10. x \in Nat /\ y \in Nat /\ \A z \in T : z \in Nat /\ (z = x \/ z \in U)
      OBVIOUS
    <2>11. CASE x >= y
      <3>1. \A z \in T : x >= z
        BY <2>9, <2>10, <2>11
      <3> QED
        BY <2>3, <3>1
    <2>12. CASE y >= x
      <3>1. \A z \in T : y >= z
        BY <2>9, <2>10, <2>12
      <3> QED
        BY <2>3, <3>1
    <2> QED
      BY <2>10, <2>11, <2>12
  <1>2. Cardinality(S) \in Nat
    BY FS_CardinalityType
  <1>3. Top(S)
    BY <1>1, <1>2
  <1> QED
    BY <1>3 DEF Max

UpToSize(S, n) == {s \in SUBSET S : Cardinality(s) <= n}

\* h is what becomes of the rows, for every set of origins moved.
Moved(h, start, number, D) ==
  h = [s \in D |-> IF s = {} THEN start ELSE OriginMoved(h[s \ {Max(s)}], Max(s), number)]

LEMMA MovesExist ==
  ASSUME NEW start, NEW number, NEW S, IsFiniteSet(S), S \subseteq Nat
  PROVE  \E h : Moved(h, start, number, SUBSET S)
  <1> DEFINE Without == {n \in Nat : ~\E h : Moved(h, start, number, UpToSize(S, n))}
  <1>1. \A s \in SUBSET S : IsFiniteSet(s) /\ Cardinality(s) \in Nat /\ Cardinality(s) <= Cardinality(S)
    BY FS_Subset, FS_CardinalityType
  <1>2. Without = {}
    <2>1. SUFFICES ASSUME Without # {} PROVE FALSE
      OBVIOUS
    <2>2. PICK n \in Without : \A k \in Without : n <= k
      <3>1. Without \subseteq Nat
        OBVIOUS
      <3> HIDE DEF Without
      <3> QED
        BY <2>1, <3>1, FirstOf
    <2>3. n \in Nat /\ ~\E h : Moved(h, start, number, UpToSize(S, n))
      OBVIOUS
    <2>4. CASE n = 0
      <3>1. UpToSize(S, 0) = {{}}
        BY <1>1, FS_EmptySet DEF UpToSize
      <3> DEFINE f == [s \in {{}} |-> start]
      <3>2. Moved(f, start, number, {{}})
        <4>1. f = [s \in {{}} |-> IF s = {} THEN start ELSE OriginMoved(f[s \ {Max(s)}], Max(s), number)]
          <5>1. \A s \in {{}} : start = IF s = {} THEN start ELSE OriginMoved(f[s \ {Max(s)}], Max(s), number)
            OBVIOUS
          <5> QED
            BY <5>1, Zenon
        <4> HIDE DEF f
        <4> QED
          BY <4>1 DEF Moved
      <3> HIDE DEF f
      <3> QED
        BY <2>3, <2>4, <3>1, <3>2
    <2>5. CASE n # 0
      <3>1. n - 1 \in Nat /\ ~(n <= n - 1)
        BY <2>3, <2>5
      <3>2. PICK h : Moved(h, start, number, UpToSize(S, n - 1))
        BY <2>2, <3>1
      <3> DEFINE g == [s \in UpToSize(S, n) |-> IF s = {} THEN start ELSE OriginMoved(h[s \ {Max(s)}], Max(s), number)]
      <3>3. ASSUME NEW s \in UpToSize(S, n), s # {}
            PROVE  g[s \ {Max(s)}] = h[s \ {Max(s)}]
        <4> DEFINE t == s \ {Max(s)}
        <4>1. s \in SUBSET S /\ Cardinality(s) <= n /\ IsFiniteSet(s)
          BY <1>1 DEF UpToSize
        <4>2. Max(s) \in s
          BY <3>3, <4>1, Greatest
        <4>3. Cardinality(t) = Cardinality(s) - 1 /\ Cardinality(s) \in Nat
          BY <4>1, <4>2, OneLess
        <4>4. t \subseteq S /\ n \in Nat
          BY <4>1
        <4> HIDE DEF t, Without
        <4>5. Cardinality(t) <= n - 1 /\ Cardinality(t) <= n
          BY <4>1, <4>3, <4>4
        <4>6. t \in UpToSize(S, n - 1) /\ t \in UpToSize(S, n)
          BY <4>4, <4>5 DEF UpToSize
        <4>7. h[t] = IF t = {} THEN start ELSE OriginMoved(h[t \ {Max(t)}], Max(t), number)
          BY <3>2, <4>6, Zenon DEF Moved
        <4>8. g[t] = IF t = {} THEN start ELSE OriginMoved(h[t \ {Max(t)}], Max(t), number)
          BY <4>6, Zenon
        <4> QED
          BY <4>7, <4>8 DEF t
      <3>4. Moved(g, start, number, UpToSize(S, n))
        <4>1. g = [s \in UpToSize(S, n) |-> IF s = {} THEN start ELSE OriginMoved(g[s \ {Max(s)}], Max(s), number)]
          <5>1. \A s \in UpToSize(S, n) :
                  (IF s = {} THEN start ELSE OriginMoved(h[s \ {Max(s)}], Max(s), number))
                    = IF s = {} THEN start ELSE OriginMoved(g[s \ {Max(s)}], Max(s), number)
            BY <3>3, Zenon
          <5> QED
            BY <5>1, Zenon
        <4> HIDE DEF g
        <4> QED
          BY <4>1 DEF Moved
      <3> HIDE DEF g
      <3> QED
        BY <2>3, <3>4
    <2> QED
      BY <2>4, <2>5
  <1>3. Cardinality(S) \in Nat
    BY FS_CardinalityType
  <1>4. UpToSize(S, Cardinality(S)) = SUBSET S
    BY <1>1 DEF UpToSize
  <1>5. Cardinality(S) \notin Without
    BY <1>2
  <1> QED
    BY <1>3, <1>4, <1>5

\* h is what becomes of the database, for every set of groups.
Grouped(h, start, m, D) ==
  h = [s \in D |-> IF s = {} THEN start ELSE GroupApplied(m, h[s \ {Max(s)}], Max(s))]

LEMMA GroupsExist ==
  ASSUME NEW start, NEW m, NEW S, IsFiniteSet(S), S \subseteq Nat
  PROVE  \E h : Grouped(h, start, m, SUBSET S)
  <1> DEFINE Without == {n \in Nat : ~\E h : Grouped(h, start, m, UpToSize(S, n))}
  <1>1. \A s \in SUBSET S : IsFiniteSet(s) /\ Cardinality(s) \in Nat /\ Cardinality(s) <= Cardinality(S)
    BY FS_Subset, FS_CardinalityType
  <1>2. Without = {}
    <2>1. SUFFICES ASSUME Without # {} PROVE FALSE
      OBVIOUS
    <2>2. PICK n \in Without : \A k \in Without : n <= k
      <3>1. Without \subseteq Nat
        OBVIOUS
      <3> HIDE DEF Without
      <3> QED
        BY <2>1, <3>1, FirstOf
    <2>3. n \in Nat /\ ~\E h : Grouped(h, start, m, UpToSize(S, n))
      OBVIOUS
    <2>4. CASE n = 0
      <3>1. UpToSize(S, 0) = {{}}
        BY <1>1, FS_EmptySet DEF UpToSize
      <3> DEFINE f == [s \in {{}} |-> start]
      <3>2. Grouped(f, start, m, {{}})
        <4>1. f = [s \in {{}} |-> IF s = {} THEN start ELSE GroupApplied(m, f[s \ {Max(s)}], Max(s))]
          <5>1. \A s \in {{}} : start = IF s = {} THEN start ELSE GroupApplied(m, f[s \ {Max(s)}], Max(s))
            OBVIOUS
          <5> QED
            BY <5>1, Zenon
        <4> HIDE DEF f
        <4> QED
          BY <4>1 DEF Grouped
      <3> HIDE DEF f
      <3> QED
        BY <2>3, <2>4, <3>1, <3>2
    <2>5. CASE n # 0
      <3>1. n - 1 \in Nat /\ ~(n <= n - 1)
        BY <2>3, <2>5
      <3>2. PICK h : Grouped(h, start, m, UpToSize(S, n - 1))
        BY <2>2, <3>1
      <3> DEFINE g == [s \in UpToSize(S, n) |-> IF s = {} THEN start ELSE GroupApplied(m, h[s \ {Max(s)}], Max(s))]
      <3>3. ASSUME NEW s \in UpToSize(S, n), s # {}
            PROVE  g[s \ {Max(s)}] = h[s \ {Max(s)}]
        <4> DEFINE t == s \ {Max(s)}
        <4>1. s \in SUBSET S /\ Cardinality(s) <= n /\ IsFiniteSet(s)
          BY <1>1 DEF UpToSize
        <4>2. Max(s) \in s
          BY <3>3, <4>1, Greatest
        <4>3. Cardinality(t) = Cardinality(s) - 1 /\ Cardinality(s) \in Nat
          BY <4>1, <4>2, OneLess
        <4>4. t \subseteq S /\ n \in Nat
          BY <4>1
        <4> HIDE DEF t, Without
        <4>5. Cardinality(t) <= n - 1 /\ Cardinality(t) <= n
          BY <4>1, <4>3, <4>4
        <4>6. t \in UpToSize(S, n - 1) /\ t \in UpToSize(S, n)
          BY <4>4, <4>5 DEF UpToSize
        <4>7. h[t] = IF t = {} THEN start ELSE GroupApplied(m, h[t \ {Max(t)}], Max(t))
          BY <3>2, <4>6, Zenon DEF Grouped
        <4>8. g[t] = IF t = {} THEN start ELSE GroupApplied(m, h[t \ {Max(t)}], Max(t))
          BY <4>6, Zenon
        <4> QED
          BY <4>7, <4>8 DEF t
      <3>4. Grouped(g, start, m, UpToSize(S, n))
        <4>1. g = [s \in UpToSize(S, n) |-> IF s = {} THEN start ELSE GroupApplied(m, g[s \ {Max(s)}], Max(s))]
          <5>1. \A s \in UpToSize(S, n) :
                  (IF s = {} THEN start ELSE GroupApplied(m, h[s \ {Max(s)}], Max(s)))
                    = IF s = {} THEN start ELSE GroupApplied(m, g[s \ {Max(s)}], Max(s))
            BY <3>3, Zenon
          <5> QED
            BY <5>1, Zenon
        <4> HIDE DEF g
        <4> QED
          BY <4>1 DEF Grouped
      <3> HIDE DEF g
      <3> QED
        BY <2>3, <3>4
    <2> QED
      BY <2>4, <2>5
  <1>3. Cardinality(S) \in Nat
    BY FS_CardinalityType
  <1>4. UpToSize(S, Cardinality(S)) = SUBSET S
    BY <1>1 DEF UpToSize
  <1>5. Cardinality(S) \notin Without
    BY <1>2
  <1> QED
    BY <1>3, <1>4, <1>5

LEMMA MovesChosen ==
  ASSUME NEW start, NEW S, NEW number
  PROVE  OriginsMoved(start, S, number) = (CHOOSE h : Moved(h, start, number, SUBSET S))[S]
  BY DEF OriginsMoved, InOrder, MapThenFoldSet, Moved

LEMMA GroupsChosen ==
  ASSUME NEW m, NEW start, NEW S
  PROVE  GroupsApplied(m, start, S) = (CHOOSE h : Grouped(h, start, m, SUBSET S))[S]
  BY DEF GroupsApplied, InOrder, MapThenFoldSet, Grouped

LEMMA OriginsAreMoved ==
  ASSUME NEW start, NEW S, NEW number, IsFiniteSet(S), S \subseteq Nat
  PROVE  \E h : Moved(h, start, number, SUBSET S) /\ OriginsMoved(start, S, number) = h[S]
  <1> DEFINE f == CHOOSE h : Moved(h, start, number, SUBSET S)
  <1>1. Moved(f, start, number, SUBSET S)
    BY MovesExist, Zenon
  <1> QED
    BY <1>1, MovesChosen, Zenon

LEMMA GroupsAreApplied ==
  ASSUME NEW m, NEW start, NEW S, IsFiniteSet(S), S \subseteq Nat
  PROVE  \E h : Grouped(h, start, m, SUBSET S) /\ GroupsApplied(m, start, S) = h[S]
  <1> DEFINE f == CHOOSE h : Grouped(h, start, m, SUBSET S)
  <1>1. Grouped(f, start, m, SUBSET S)
    BY GroupsExist, Zenon
  <1> QED
    BY <1>1, GroupsChosen, Zenon

-----------------------------------------------------------------------------
(***************************************************************************)
(* The transaction keeps every row.                                        *)
(***************************************************************************)

\* Everything but the rows, the resources and the pages is as it was.
SameRest(d, e) ==
  /\ e.derived = d.derived /\ e.job = d.job /\ e.worker = d.worker /\ e.active = d.active
  /\ e.required = d.required /\ e.migration = d.migration /\ e.status = d.status
  /\ e.fingerprint = d.fingerprint

Rewrite(d, resource, row, page) == [d EXCEPT !.resource = resource, !.row = row, !.page = page]

LEMMA Rewritten ==
  ASSUME NEW d, IsDatabase(d), NEW a, NEW b, NEW c, NEW e, e = Rewrite(d, a, b, c)
  PROVE  IsDatabase(e) /\ e.resource = a /\ e.row = b /\ e.page = c /\ SameRest(d, e)
  <1>1. e = [resource |-> a, row |-> b, page |-> c, derived |-> d.derived, job |-> d.job,
             worker |-> d.worker, active |-> d.active, required |-> d.required,
             migration |-> d.migration, status |-> d.status, fingerprint |-> d.fingerprint]
    BY DEF IsDatabase, Rewrite
  <1> QED
    BY <1>1 DEF IsDatabase, SameRest

LEMMA Databases ==
  ASSUME NEW d, IsDatabase(d)
  PROVE  d # Failed
  <1>1. DOMAIN d = {"resource", "row", "page", "derived", "job", "worker", "active", "required",
                    "migration", "status", "fingerprint"}
    BY DEF IsDatabase
  <1>2. DOMAIN Failed = {"error"}
    BY DEF Failed
  <1> QED
    BY <1>1, <1>2

\* A row that is one is not nothing.
LEMMA RowsAreSomething ==
  ASSUME NEW x, IsRow(x)
  PROVE  x # NoRow
  BY DEF IsRow, NoRow, Kinds

LEMMA UsedRows ==
  ASSUME NEW row, RowsShaped(row)
  PROVE  /\ DOMAIN row = Rows /\ Used(row, NoRow) \subseteq Rows /\ Free(row, NoRow) \subseteq Rows
         /\ \A x \in Used(row, NoRow) : IsRow(row[x])
         /\ \A x \in Rows : IsRow(row[x]) => x \in Used(row, NoRow)
  <1>1. DOMAIN row = Rows
    BY DEF RowsShaped
  <1> QED
    BY <1>1, RowsAreSomething DEF RowsShaped, Used, Free

\* A row with another resource and URL, and with another seed.
Attribute(x, resource, url) == [x EXCEPT !.resource = resource, !.url = url]

Seed(x, seed) == [x EXCEPT !.seed = seed]

LEMMA SeedEdited ==
  ASSUME NEW x, IsRow(x), NEW s
  PROVE  /\ IsRow(Seed(x, s)) /\ Seed(x, s).kind = x.kind /\ Seed(x, s).raw = x.raw
         /\ Seed(x, s).url = x.url /\ Seed(x, s).resource = x.resource /\ Seed(x, s).seed = s
  <1>1. Seed(x, s) = [kind |-> x.kind, raw |-> x.raw, url |-> x.url, resource |-> x.resource, seed |-> s]
    BY DEF IsRow, Seed
  <1> QED
    BY <1>1 DEF IsRow

LEMMA RowAttributed ==
  ASSUME NEW x, IsRow(x), NEW a, NEW b
  PROVE  /\ IsRow(Attribute(x, a, b)) /\ Attribute(x, a, b).kind = x.kind /\ Attribute(x, a, b).raw = x.raw
         /\ Attribute(x, a, b).url = b /\ Attribute(x, a, b).resource = a /\ Attribute(x, a, b).seed = x.seed
  <1>1. PICK y : y = [x EXCEPT !.resource = a]
    OBVIOUS
  <1>2. y = [kind |-> x.kind, raw |-> x.raw, url |-> x.url, resource |-> a, seed |-> x.seed]
    BY <1>1 DEF IsRow
  <1>3. y = [kind |-> y.kind, raw |-> y.raw, url |-> y.url, resource |-> y.resource, seed |-> y.seed]
    BY <1>2
  <1>4. [y EXCEPT !.url = b]
          = [kind |-> y.kind, raw |-> y.raw, url |-> b, resource |-> y.resource, seed |-> y.seed]
    BY ONLY <1>3
  <1>5. Attribute(x, a, b) = [y EXCEPT !.url = b]
    BY <1>1, Zenon DEF Attribute
  <1> QED
    BY <1>2, <1>4, <1>5 DEF IsRow

\* A row of the table with another seed.
SeedOf(row, o, s) == [row EXCEPT ![o].seed = s]

\* The rows that can be read have followed their spelling.
Following(row, e, rows, number) ==
  /\ RowsShaped(e) /\ Used(e, NoRow) = Used(row, NoRow)
  /\ \A x \in Used(e, NoRow) : e[x].kind = row[x].kind /\ e[x].raw = row[x].raw /\ e[x].seed = row[x].seed
  /\ \A x \in Used(e, NoRow) :
       (x \notin rows \/ row[x].kind = "origin" \/ V2[row[x].raw] = NoUrl) => e[x] = row[x]
  /\ \A x \in rows : row[x].kind # "origin" /\ V2[row[x].raw] # NoUrl =>
       /\ e[x].resource = number[V2[row[x].raw]]
       /\ e[x].url = IF row[x].kind = "plain" THEN row[x].url ELSE V2[row[x].raw]

LEMMA RowsAttributed ==
  ASSUME NEW row, RowsShaped(row), NEW rows, rows \subseteq Used(row, NoRow), NEW number,
         NEW e, e = Attributed(row, rows, number)
  PROVE  Following(row, e, rows, number)
  <1> DEFINE follows(x) == x \in rows /\ row[x].kind # "origin" /\ V2[row[x].raw] # NoUrl
             url(x) == V2[row[x].raw]
             made(x) == Attribute(row[x], number[url(x)], IF row[x].kind = "plain" THEN row[x].url ELSE url(x))
  <1>1. e = [x \in Rows |-> e[x]] /\ \A x \in Rows : e[x] = IF follows(x) THEN made(x) ELSE row[x]
    BY DEF Attributed, Attribute
  <1>2. DOMAIN e = Rows /\ DOMAIN row = Rows
    BY <1>1, UsedRows
  <1>3. \A x \in Used(row, NoRow) : x \in Rows /\ IsRow(row[x])
    BY UsedRows
  <1>4. ASSUME NEW x \in Rows, follows(x)
        PROVE  /\ IsRow(e[x]) /\ e[x].kind = row[x].kind /\ e[x].raw = row[x].raw /\ e[x].seed = row[x].seed
               /\ e[x].resource = number[url(x)]
               /\ e[x].url = IF row[x].kind = "plain" THEN row[x].url ELSE url(x)
    <2>1. IsRow(row[x]) /\ e[x] = made(x)
      BY <1>1, <1>3, <1>4
    <2> HIDE DEF follows, url
    <2> QED
      BY <2>1, RowAttributed
  <1>5. ASSUME NEW x \in Rows, ~follows(x)
        PROVE  e[x] = row[x]
    BY <1>1, <1>5
  <1>6. RowsShaped(e)
    <2>1. \A x \in Rows : e[x] = NoRow \/ IsRow(e[x])
      BY <1>4, <1>5 DEF RowsShaped
    <2> QED
      BY <1>1, <2>1 DEF RowsShaped
  <1>7. \A x \in Rows : x \in Used(e, NoRow) <=> x \in Used(row, NoRow)
    <2> TAKE x \in Rows
    <2>1. CASE follows(x)
      BY <1>2, <1>4, <2>1, RowsAreSomething DEF Used
    <2>2. CASE ~follows(x)
      BY <1>2, <1>5, <2>2 DEF Used
    <2> QED
      BY <2>1, <2>2
  <1>8. Used(e, NoRow) = Used(row, NoRow)
    BY <1>2, <1>7 DEF Used
  <1> QED
    BY <1>3, <1>4, <1>5, <1>6, <1>8 DEF Following

\* One row is given a seed, and the rest is what it was.
LEMMA SeedGiven ==
  ASSUME NEW row, RowsShaped(row), NEW o, o \in Used(row, NoRow), NEW s,
         NEW e, e = SeedOf(row, o, s)
  PROVE  /\ RowsShaped(e) /\ Used(e, NoRow) = Used(row, NoRow)
         /\ \A x \in Used(e, NoRow) \ {o} : e[x] = row[x]
         /\ e[o].kind = row[o].kind /\ e[o].raw = row[o].raw /\ e[o].url = row[o].url
         /\ e[o].resource = row[o].resource /\ e[o].seed = s
  <1>1. DOMAIN row = Rows /\ o \in Rows /\ IsRow(row[o])
    BY UsedRows
  <1>2. PICK y : y = Seed(row[o], s)
    OBVIOUS
  <1>3. /\ IsRow(y) /\ y.kind = row[o].kind /\ y.raw = row[o].raw /\ y.url = row[o].url
        /\ y.resource = row[o].resource /\ y.seed = s
    BY <1>1, <1>2, SeedEdited
  <1>4. e = [row EXCEPT ![o] = y]
    BY <1>2 DEF SeedOf, Seed
  <1>5. e = [x \in Rows |-> e[x]] /\ \A x \in Rows : e[x] = IF x = o THEN y ELSE row[x]
    BY <1>1, <1>4
  <1>6. RowsShaped(e)
    BY <1>3, <1>5 DEF RowsShaped
  <1>7. Used(e, NoRow) = Used(row, NoRow)
    <2>1. DOMAIN e = Rows /\ y # NoRow
      BY <1>3, <1>5, RowsAreSomething
    <2> QED
      BY <2>1, <1>1, <1>5 DEF Used
  <1> QED
    BY <1>3, <1>5, <1>6, <1>7, <1>1 DEF Used

\* A row is written where there may have been none.
Write(row, n, r) == [row EXCEPT ![n] = r]

LEMMA RowWritten ==
  ASSUME NEW row, RowsShaped(row), NEW n, NEW r, IsRow(r),
         NEW e, e = Write(row, n, r)
  PROVE  /\ RowsShaped(e) /\ Used(row, NoRow) \subseteq Used(e, NoRow)
         /\ \A x \in Rows \ {n} : e[x] = row[x]
         /\ n \in Rows => e[n] = r /\ Used(e, NoRow) = Used(row, NoRow) \cup {n}
  <1>1. DOMAIN row = Rows
    BY UsedRows
  <1>2. e = [x \in Rows |-> e[x]] /\ \A x \in Rows : e[x] = IF x = n THEN r ELSE row[x]
    BY <1>1 DEF Write
  <1>3. RowsShaped(e)
    BY <1>2 DEF RowsShaped
  <1>4. DOMAIN e = Rows /\ r # NoRow
    BY <1>2, RowsAreSomething
  <1> QED
    BY <1>1, <1>2, <1>3, <1>4 DEF Used

LEMMA OriginKept ==
  ASSUME NEW row, RowsShaped(row), NEW o, o \in Used(row, NoRow), NEW number
  PROVE  RowsShaped(OriginMoved(row, o, number)) /\ Used(row, NoRow) \subseteq Used(OriginMoved(row, o, number), NoRow)
  <1> DEFINE url == V2[row[o].raw]
             seeds == {x \in Used(row, NoRow) : row[x].kind = "seed" /\ row[x].url = url}
             r == [kind |-> "seed", raw |-> url, url |-> url, resource |-> number[url], seed |-> 0]
  <1>1. CASE seeds # {}
    <2>1. OriginMoved(row, o, number) = SeedOf(row, o, Min(seeds))
      BY <1>1 DEF OriginMoved, SeedOf
    <2> HIDE DEF seeds
    <2> QED
      BY <2>1, SeedGiven
  <1>2. CASE seeds = {}
    <2>1. PICK n : n = Min(Free(row, NoRow))
      OBVIOUS
    <2>2. PICK w : w = Write(row, n, r)
      OBVIOUS
    <2>3. OriginMoved(row, o, number) = SeedOf(w, o, n)
      BY <1>2, <2>1, <2>2 DEF OriginMoved, SeedOf, Write
    <2>4. IsRow(r)
      BY DEF IsRow, Kinds
    <2> HIDE DEF r
    <2>5. RowsShaped(w) /\ Used(row, NoRow) \subseteq Used(w, NoRow)
      BY <2>2, <2>4, RowWritten
    <2> QED
      BY <2>3, <2>5, SeedGiven
  <1> QED
    BY <1>1, <1>2

\* What holds of the empty set, and of a set if it does without any one element, holds of all.
LEMMA Descent ==
  ASSUME NEW S, IsFiniteSet(S), NEW B, B \subseteq SUBSET S, B # {}
  PROVE  \E T \in B : \A x \in T : T \ {x} \notin B
  <1> DEFINE sizes == {Cardinality(T) : T \in B}
  <1>1. \A T \in B : IsFiniteSet(T) /\ Cardinality(T) \in Nat
    BY FS_Subset, FS_CardinalityType
  <1>2. sizes \subseteq Nat /\ sizes # {}
    BY <1>1
  <1>3. PICK n \in sizes : \A k \in sizes : n <= k
    <2> HIDE DEF sizes
    <2> QED
      BY <1>2, FirstOf
  <1>4. PICK T \in B : Cardinality(T) = n
    OBVIOUS
  <1>5. ASSUME NEW x \in T, T \ {x} \in B PROVE FALSE
    <2>1. Cardinality(T \ {x}) = Cardinality(T) - 1
      BY <1>1, OneLess
    <2>2. Cardinality(T \ {x}) \in sizes
      BY <1>5
    <2>3. n <= Cardinality(T \ {x}) /\ n \in Nat
      BY <2>2, <1>3, <1>2
    <2> QED
      BY <1>4, <2>1, <2>3
  <1> QED
    BY <1>5

LEMMA Numbers ==
  /\ \A s \in SUBSET Rows : IsFiniteSet(s) /\ s \subseteq Nat
  /\ \A s \in SUBSET Ids : IsFiniteSet(s) /\ s \subseteq Nat
  <1>1. Rows \subseteq Nat /\ IsFiniteSet(Rows) /\ Ids \subseteq Nat /\ IsFiniteSet(Ids)
    BY ReconciliationAssumption
  <1> QED
    BY <1>1, FS_Subset

\* The rows h makes are rows, and keep those there were.
RowsKept(start, row) == RowsShaped(row) /\ Used(start, NoRow) \subseteq Used(row, NoRow)

LEMMA OriginsKept ==
  ASSUME NEW start, RowsShaped(start), NEW S, S \subseteq Used(start, NoRow), NEW number
  PROVE  RowsKept(start, OriginsMoved(start, S, number))
  <1>1. IsFiniteSet(S) /\ S \subseteq Nat
    BY Numbers, UsedRows
  <1>2. PICK h : Moved(h, start, number, SUBSET S) /\ OriginsMoved(start, S, number) = h[S]
    BY <1>1, OriginsAreMoved
  <1>3. \A s \in SUBSET S : h[s] = IF s = {} THEN start ELSE OriginMoved(h[s \ {Max(s)}], Max(s), number)
    BY <1>2, Zenon DEF Moved
  <1> DEFINE B == {s \in SUBSET S : ~RowsKept(start, h[s])}
  <1>4. B = {}
    <2>1. SUFFICES ASSUME B # {} PROVE FALSE
      OBVIOUS
    <2>2. PICK T \in B : \A x \in T : T \ {x} \notin B
      <3>1. B \subseteq SUBSET S
        OBVIOUS
      <3> HIDE DEF B
      <3> QED
        BY <1>1, <2>1, <3>1, Descent
    <2>3. T \subseteq S /\ ~RowsKept(start, h[T])
      OBVIOUS
    <2>4. T # {}
      BY <1>3, <2>3 DEF RowsKept
    <2>5. Max(T) \in T
      <3>1. IsFiniteSet(T) /\ T \subseteq Nat
        BY <1>1, <2>3, FS_Subset
      <3> QED
        BY <2>4, <3>1, Greatest
    <2> DEFINE u == T \ {Max(T)}
    <2>6. RowsKept(start, h[u])
      <3>1. u \in SUBSET S /\ u \notin B
        BY <2>2, <2>3, <2>5
      <3> QED
        BY <3>1
    <2>7. h[T] = OriginMoved(h[u], Max(T), number)
      BY <1>3, <2>3, <2>4
    <2>8. Max(T) \in Used(h[u], NoRow)
      BY <2>3, <2>5, <2>6 DEF RowsKept
    <2> HIDE DEF u, B
    <2>9. RowsKept(start, h[T])
      BY <2>6, <2>7, <2>8, OriginKept DEF RowsKept
    <2> QED
      BY <2>3, <2>9
  <1>5. RowsKept(start, h[S])
    BY <1>4
  <1> QED
    BY <1>2, <1>5

\* A group, and so all of them, keeps the rows.
Kept(d, e) == Shaped(e) /\ Evidence(d) \subseteq Evidence(e) /\ SameRest(d, e)

LEMMA GroupKept ==
  ASSUME NEW d, Shaped(d), NEW m, NEW r, Evidence(m) \subseteq Evidence(d), GroupApplied(m, d, r) # Failed
  PROVE  Kept(d, GroupApplied(m, d, r))
  <1>1. PICK rows : rows = RowsOf(m, r)
    OBVIOUS
  <1>2. PICK origins : origins = Origins(m, rows)
    OBVIOUS
  <1>3. rows \subseteq Used(d.row, NoRow) /\ origins \subseteq Used(d.row, NoRow)
    BY <1>1, <1>2 DEF RowsOf, Origins, Evidence
  <1>4. \E number, page :
          GroupApplied(m, d, r) = [d EXCEPT !.resource = Renamed(d.resource, number),
                                            !.row = OriginsMoved(Attributed(d.row, rows, number), origins, number),
                                            !.page = page]
    BY <1>1, <1>2, Zenon DEF GroupApplied
  <1>5. PICK number, page :
          GroupApplied(m, d, r) = [d EXCEPT !.resource = Renamed(d.resource, number),
                                            !.row = OriginsMoved(Attributed(d.row, rows, number), origins, number),
                                            !.page = page]
    BY <1>4
  <1>6. PICK row : row = Attributed(d.row, rows, number)
    OBVIOUS
  <1>7. PICK after : after = OriginsMoved(row, origins, number)
    OBVIOUS
  <1>8. PICK resource : resource = Renamed(d.resource, number)
    OBVIOUS
  <1>9. PICK e : e = GroupApplied(m, d, r)
    OBVIOUS
  <1>10. e = Rewrite(d, resource, after, page)
    BY <1>5, <1>6, <1>7, <1>8, <1>9 DEF Rewrite
  <1>11. IsDatabase(d) /\ DOMAIN d.resource = Ids
    BY DEF Shaped
  <1>12. PICK old : old = d.row
    OBVIOUS
  <1>13. RowsShaped(old) /\ rows \subseteq Used(old, NoRow) /\ row = Attributed(old, rows, number)
    BY <1>3, <1>6, <1>12 DEF Shaped
  <1>14. IsDatabase(e) /\ e.resource = resource /\ e.row = after /\ SameRest(d, e)
    BY <1>10, <1>11, Rewritten
  <1>15. RowsShaped(row) /\ Used(row, NoRow) = Used(d.row, NoRow)
    BY <1>12, <1>13, RowsAttributed DEF Following
  <1>16. RowsShaped(after) /\ Used(d.row, NoRow) \subseteq Used(after, NoRow)
    BY <1>3, <1>7, <1>15, OriginsKept DEF RowsKept
  <1>17. DOMAIN resource = Ids
    BY <1>8 DEF Renamed
  <1> QED
    BY <1>9, <1>14, <1>16, <1>17 DEF Kept, Shaped, Evidence

LEMMA KeptTransitive ==
  ASSUME NEW a, NEW b, NEW c, Kept(a, b), Kept(b, c)
  PROVE  Kept(a, c)
  BY DEF Kept, SameRest

LEMMA GroupsKept ==
  ASSUME NEW start, Shaped(start), NEW m, NEW S, S \subseteq Ids, Evidence(m) \subseteq Evidence(start),
         GroupsApplied(m, start, S) # Failed
  PROVE  Kept(start, GroupsApplied(m, start, S))
  <1>1. IsFiniteSet(S) /\ S \subseteq Nat
    BY Numbers
  <1>2. PICK h : Grouped(h, start, m, SUBSET S) /\ GroupsApplied(m, start, S) = h[S]
    BY <1>1, GroupsAreApplied
  <1>3. \A s \in SUBSET S : h[s] = IF s = {} THEN start ELSE GroupApplied(m, h[s \ {Max(s)}], Max(s))
    BY <1>2, Zenon DEF Grouped
  <1> DEFINE B == {s \in SUBSET S : h[s] # Failed /\ ~Kept(start, h[s])}
  <1>4. B = {}
    <2>1. SUFFICES ASSUME B # {} PROVE FALSE
      OBVIOUS
    <2>2. PICK T \in B : \A x \in T : T \ {x} \notin B
      <3>1. B \subseteq SUBSET S
        OBVIOUS
      <3> HIDE DEF B
      <3> QED
        BY <1>1, <2>1, <3>1, Descent
    <2>3. T \subseteq S /\ h[T] # Failed /\ ~Kept(start, h[T])
      OBVIOUS
    <2>4. T # {}
      BY <1>3, <2>3 DEF Kept, SameRest
    <2>5. Max(T) \in T
      <3>1. IsFiniteSet(T) /\ T \subseteq Nat
        BY <1>1, <2>3, FS_Subset
      <3> QED
        BY <2>4, <3>1, Greatest
    <2> DEFINE u == T \ {Max(T)}
    <2>6. h[T] = GroupApplied(m, h[u], Max(T))
      BY <1>3, <2>3, <2>4
    <2>7. h[u] # Failed
      <3>1. GroupApplied(m, Failed, Max(T)) = Failed
        BY Zenon DEF GroupApplied
      <3> QED
        BY <2>3, <2>6, <3>1
    <2>8. Kept(start, h[u])
      <3>1. u \in SUBSET S /\ u \notin B
        BY <2>2, <2>3, <2>5
      <3> QED
        BY <3>1, <2>7
    <2>9. Shaped(h[u]) /\ Evidence(m) \subseteq Evidence(h[u])
      BY <2>8 DEF Kept
    <2> HIDE DEF u, B
    <2>10. Kept(h[u], h[T])
      BY <2>3, <2>6, <2>9, GroupKept
    <2>11. Kept(start, h[T])
      BY <2>8, <2>10, KeptTransitive
    <2> QED
      BY <2>3, <2>11
  <1>5. h[S] # Failed => Kept(start, h[S])
    BY <1>4
  <1> QED
    BY <1>2, <1>5

LEMMA AppliedKept ==
  ASSUME NEW d, Shaped(d), NEW m, DOMAIN m.resource = Ids, Evidence(m) \subseteq Evidence(d),
         Applied(m, d) # Failed
  PROVE  LET done == Applied(m, d) IN
         /\ Shaped(done) /\ Evidence(d) \subseteq Evidence(done)
         /\ done.job = d.job /\ done.worker = d.worker /\ done.active = d.active /\ done.required = d.required
         /\ done.migration = d.migration /\ done.status = d.status /\ done.fingerprint = d.fingerprint
  <1>1. PICK start : start = Relabelled(m, d)
    OBVIOUS
  <1> DEFINE other == Affected(m) \cup OfClass(m, {"insufficient_provenance"})
             relabelled == [r \in Ids |-> IF d.resource[r].version = "V1" /\ r \notin other
                                         THEN [d.resource[r] EXCEPT !.version = "V2"] ELSE d.resource[r]]
  <1>2. start = [d EXCEPT !.resource = relabelled] /\ DOMAIN relabelled = Ids
    BY <1>1 DEF Relabelled
  <1> HIDE DEF relabelled
  <1>3. PICK resource : start = [d EXCEPT !.resource = resource] /\ DOMAIN resource = Ids
    BY <1>2
  <1>4. IsDatabase(d) /\ RowsShaped(d.row)
    BY DEF Shaped
  <1>5. start = [resource |-> resource, row |-> d.row, page |-> d.page, derived |-> d.derived, job |-> d.job,
                 worker |-> d.worker, active |-> d.active, required |-> d.required, migration |-> d.migration,
                 status |-> d.status, fingerprint |-> d.fingerprint]
    BY <1>3, <1>4 DEF IsDatabase
  <1>6. Kept(d, start)
    BY <1>3, <1>4, <1>5 DEF Kept, Shaped, IsDatabase, Evidence, SameRest
  <1>7. Affected(m) \subseteq Ids
    BY DEF Affected, OfClass, Resources, Used
  <1>8. PICK all : all = GroupsApplied(m, start, Affected(m))
    OBVIOUS
  <1>9. all # Failed /\ Applied(m, d) = [all EXCEPT !.derived = all.derived \ Affected(m)]
    BY <1>1, <1>8 DEF Applied
  <1>10. Kept(start, all)
    BY <1>6, <1>7, <1>8, <1>9, GroupsKept DEF Kept
  <1>11. Kept(d, all)
    BY <1>6, <1>10, KeptTransitive
  <1>12. PICK done : done = Applied(m, d)
    OBVIOUS
  <1>13. done = [resource |-> all.resource, row |-> all.row, page |-> all.page,
                 derived |-> all.derived \ Affected(m), job |-> all.job,
                 worker |-> all.worker, active |-> all.active, required |-> all.required,
                 migration |-> all.migration, status |-> all.status, fingerprint |-> all.fingerprint]
    BY <1>9, <1>11, <1>12 DEF Kept, Shaped, IsDatabase
  <1>14. /\ Shaped(done) /\ Evidence(d) \subseteq Evidence(done)
         /\ done.job = d.job /\ done.worker = d.worker /\ done.active = d.active /\ done.required = d.required
         /\ done.migration = d.migration /\ done.status = d.status /\ done.fingerprint = d.fingerprint
    BY <1>11, <1>13 DEF Kept, Shaped, IsDatabase, Evidence, SameRest
  <1> QED
    BY <1>12, <1>14

-----------------------------------------------------------------------------
(***************************************************************************)
(* What the other steps make of a database.                                *)
(***************************************************************************)

\* What says who is who and where the migration is.
SameData(d, e) ==
  /\ IsDatabase(e)
  /\ e.resource = d.resource /\ e.row = d.row /\ e.active = d.active /\ e.required = d.required
  /\ e.migration = d.migration /\ e.status = d.status /\ e.fingerprint = d.fingerprint

LEMMA OtherEdits ==
  ASSUME NEW d, IsDatabase(d), NEW a
  PROVE  /\ SameData(d, [d EXCEPT !.page = a]) /\ [d EXCEPT !.page = a].derived = d.derived
         /\ SameData(d, [d EXCEPT !.job = a]) /\ [d EXCEPT !.job = a].derived = d.derived
         /\ SameData(d, [d EXCEPT !.worker = a]) /\ [d EXCEPT !.worker = a].derived = d.derived
         /\ SameData(d, [d EXCEPT !.derived = a]) /\ [d EXCEPT !.derived = a].derived = a
  <1>1. SameData(d, [d EXCEPT !.page = a]) /\ [d EXCEPT !.page = a].derived = d.derived
    BY DEF SameData, IsDatabase
  <1>2. SameData(d, [d EXCEPT !.job = a]) /\ [d EXCEPT !.job = a].derived = d.derived
    BY DEF SameData, IsDatabase
  <1>3. SameData(d, [d EXCEPT !.worker = a]) /\ [d EXCEPT !.worker = a].derived = d.derived
    BY DEF SameData, IsDatabase
  <1>4. SameData(d, [d EXCEPT !.derived = a]) /\ [d EXCEPT !.derived = a].derived = a
    BY DEF SameData, IsDatabase
  <1> QED
    BY <1>1, <1>2, <1>3, <1>4

LEMMA RoomLeft ==
  ASSUME NEW d, Shaped(d), Room(d)
  PROVE  /\ Min(Free(d.row, NoRow)) \in Rows \ Evidence(d)
         /\ Min(Free(d.resource, NoResource)) \in Ids \ Resources(d)
  <1>1. Free(d.row, NoRow) # {} /\ Free(d.resource, NoResource) # {}
    BY FS_EmptySet DEF Room
  <1>2. Free(d.row, NoRow) = Rows \ Evidence(d) /\ Free(d.resource, NoResource) = Ids \ Resources(d)
    BY UsedRows DEF Free, Evidence, Resources, Shaped
  <1>3. Free(d.row, NoRow) \subseteq Nat /\ Free(d.resource, NoResource) \subseteq Nat
    BY <1>2, ReconciliationAssumption
  <1> QED
    BY <1>1, <1>2, <1>3, Least

\* The resource a new row refers to.
ResourceNamed(d, url) ==
  IF Named(d, url) # {} THEN Min(Named(d, url)) ELSE Min(Free(d.resource, NoResource))

\* The row that is added.
Added(d, kind, raw) ==
  [kind |-> kind, raw |-> raw, url |-> IF kind = "plain" THEN NoUrl ELSE Normal(d, raw),
   resource |-> ResourceNamed(d, Normal(d, raw)), seed |-> 0]

CurrentResource(d, url) == [version |-> d.active, url |-> url]

IsAdded(d, e, kind, raw, n) ==
  /\ Shaped(e)
  /\ n \in Rows \ Evidence(d) /\ Evidence(e) = Evidence(d) \cup {n}
  /\ e.row[n] = Added(d, kind, raw) /\ \A x \in Rows \ {n} : e.row[x] = d.row[x]
  /\ ResourceNamed(d, Normal(d, raw)) \in Ids /\ e.resource = [r \in Ids |-> e.resource[r]]
  /\ \A r \in Ids : e.resource[r] = IF r = ResourceNamed(d, Normal(d, raw)) THEN CurrentResource(d, Normal(d, raw))
                                    ELSE d.resource[r]
  /\ e.active = d.active /\ e.required = d.required /\ e.migration = d.migration /\ e.status = d.status
  /\ e.fingerprint = d.fingerprint
  /\ e.derived = IF kind = "plain" THEN d.derived \cup {ResourceNamed(d, Normal(d, raw))} ELSE d.derived

LEMMA RowAdded ==
  ASSUME NEW d, Shaped(d), Room(d), NEW kind \in Kinds, NEW raw,
         NEW n, n = Min(Free(d.row, NoRow)), NEW e, e = WithRow(d, kind, raw)
  PROVE  IsAdded(d, e, kind, raw, n)
  <1>1. PICK url : url = Normal(d, raw)
    OBVIOUS
  <1>2. PICK r : r = ResourceNamed(d, url)
    OBVIOUS
  <1>3. r \in Ids
    <2>1. CASE Named(d, url) # {}
      <3>1. Named(d, url) \subseteq Ids
        BY DEF Named, Resources, Used, Shaped
      <3>2. Named(d, url) \subseteq Nat
        BY <3>1, ReconciliationAssumption
      <3> QED
        BY <1>2, <2>1, <3>1, <3>2, Least DEF ResourceNamed
    <2>2. CASE Named(d, url) = {}
      BY <1>2, <2>2, RoomLeft DEF ResourceNamed
    <2> QED
      BY <2>1, <2>2
  <1>4. PICK resource : resource = [d.resource EXCEPT ![r] = CurrentResource(d, url)]
    OBVIOUS
  <1>5. PICK new : new = Added(d, kind, raw)
    OBVIOUS
  <1>6. PICK row : row = [d.row EXCEPT ![n] = new]
    OBVIOUS
  <1>7. PICK derived : derived = IF kind = "plain" THEN d.derived \cup {r} ELSE d.derived
    OBVIOUS
  <1>8. IsDatabase(d) /\ RowsShaped(d.row) /\ DOMAIN d.resource = Ids
    BY DEF Shaped
  <1>9. e = [d EXCEPT !.resource = resource, !.row = row, !.derived = derived]
    <2>1. resource = [d.resource EXCEPT ![r] = [version |-> d.active, url |-> url]]
      BY <1>4 DEF CurrentResource
    <2>2. new = [kind |-> kind, raw |-> raw, url |-> IF kind = "plain" THEN NoUrl ELSE url,
                 resource |-> r, seed |-> 0]
      BY <1>1, <1>2, <1>5 DEF Added
    <2>3. r = IF Named(d, url) # {} THEN Min(Named(d, url)) ELSE Min(Free(d.resource, NoResource))
      BY <1>2 DEF ResourceNamed
    <2> QED
      BY <1>1, <1>6, <1>7, <2>1, <2>2, <2>3 DEF WithRow
  <1>10. e = [resource |-> resource, row |-> row, page |-> d.page, derived |-> derived, job |-> d.job,
              worker |-> d.worker, active |-> d.active, required |-> d.required, migration |-> d.migration,
              status |-> d.status, fingerprint |-> d.fingerprint]
    BY <1>8, <1>9 DEF IsDatabase
  <1>11. IsRow(new)
    BY <1>5 DEF Added, IsRow
  <1>12. n \in Rows \ Evidence(d)
    BY RoomLeft
  <1>13. /\ RowsShaped(row) /\ Used(row, NoRow) = Used(d.row, NoRow) \cup {n}
         /\ row[n] = new /\ \A x \in Rows \ {n} : row[x] = d.row[x]
    <2>1. PICK old : old = d.row
      OBVIOUS
    <2>2. RowsShaped(old) /\ n \in Rows /\ row = Write(old, n, new)
      BY <2>1, <1>6, <1>8, <1>12 DEF Write
    <2>3. /\ RowsShaped(row) /\ Used(row, NoRow) = Used(old, NoRow) \cup {n}
          /\ row[n] = new /\ \A x \in Rows \ {n} : row[x] = old[x]
      BY <2>2, <1>11, RowWritten
    <2> QED
      BY <2>1, <2>3
  <1>14. resource = [s \in Ids |-> resource[s]] /\ \A s \in Ids : resource[s] = IF s = r THEN CurrentResource(d, url) ELSE d.resource[s]
    BY <1>3, <1>4, <1>8
  <1>15. Shaped(e)
    BY <1>10, <1>13, <1>14 DEF Shaped, IsDatabase
  <1>16. e.row = row /\ e.resource = resource
    BY <1>10
  <1> QED
    BY <1>1, <1>2, <1>3, <1>5, <1>7, <1>10, <1>12, <1>13, <1>14, <1>15, <1>16 DEF Evidence, IsAdded

-----------------------------------------------------------------------------
(***************************************************************************)
(* What was written is kept.                                               *)
(***************************************************************************)

LEMMA KeptAtFirst ==
  ASSUME Init
  PROVE  KeptInv
  <1>1. /\ db = [resource |-> Resource, row |-> Row, page |-> Page, derived |-> db.derived, job |-> "none",
                 worker |-> "stopped", active |-> "V1", required |-> TRUE, migration |-> 0,
                 status |-> "none", fingerprint |-> <<>>]
    BY DEF Init, InitialDatabase
  <1>2. IsDatabase(db) /\ db.resource = Resource /\ db.row = Row /\ db.migration = 0
    BY <1>1 DEF IsDatabase
  <1>3. RowsShaped(Row) /\ DOMAIN Resource = Ids
    <2>1. \A x \in Rows : Row[x] = NoRow \/ IsRow(Row[x])
      BY MigrationAssumption DEF IsRow
    <2>2. Row = [x \in Rows |-> Row[x]] /\ DOMAIN Resource = Ids
      BY MigrationAssumption
    <2> QED
      BY <2>1, <2>2 DEF RowsShaped
  <1>4. Shaped(db) /\ KeptBy(db) /\ WritesKept
    BY <1>2, <1>3 DEF Shaped, KeptBy, WritesKept, Init
  <1>5. Control
    <2>1. MaxApplies \in Nat
      BY MigrationAssumption
    <2>2. /\ spent = [applies |-> 0, writes |-> 0, starts |-> 0, crashes |-> 0] /\ op = Idle
          /\ backup = [n \in Attempts |-> <<>>]
      BY DEF Init
    <2>3. spent.applies = 0 /\ op.pc = "idle"
      BY <2>2 DEF Idle
    <2> QED
      BY <2>1, <2>2, <2>3 DEF Control, Idle, Steps
  <1>6. AtStep
    BY DEF AtStep, Init, Idle
  <1> QED
    BY <1>4, <1>5, <1>6 DEF KeptInv

\* Something was spent, but no attempt.
Spends ==
  /\ spent'.applies = spent.applies
  /\ spent' = [applies |-> spent'.applies, writes |-> spent'.writes, starts |-> spent'.starts,
               crashes |-> spent'.crashes]

LEMMA Spending ==
  ASSUME Control
  PROVE  /\ spent' = spent => Spends
         /\ spent' = [spent EXCEPT !.writes = spent.writes + 1] => Spends
         /\ spent' = [spent EXCEPT !.starts = spent.starts + 1] => Spends
         /\ spent' = [spent EXCEPT !.crashes = spent.crashes + 1] => Spends
  <1>1. spent = [applies |-> spent.applies, writes |-> spent.writes, starts |-> spent.starts,
                 crashes |-> spent.crashes]
    BY DEF Control
  <1>2. ASSUME spent' = [spent EXCEPT !.writes = spent.writes + 1] PROVE Spends
    BY <1>1, <1>2 DEF Spends
  <1>3. ASSUME spent' = [spent EXCEPT !.starts = spent.starts + 1] PROVE Spends
    BY <1>1, <1>3 DEF Spends
  <1>4. ASSUME spent' = [spent EXCEPT !.crashes = spent.crashes + 1] PROVE Spends
    BY <1>1, <1>4 DEF Spends
  <1>5. ASSUME spent' = spent PROVE Spends
    BY <1>1, <1>5 DEF Spends
  <1> QED
    BY <1>2, <1>3, <1>4, <1>5

\* The tool and its backups are where they were.
LEMMA ControlKept ==
  ASSUME Control, UNCHANGED <<backup, op>>, Spends
  PROVE  Control' /\ \A n \in 1 .. spent.applies : Before(n)' = Before(n)
  <1>1. spent'.applies = spent.applies /\ backup' = backup /\ op' = op
    BY DEF Spends
  <1>2. \A n \in 1 .. spent.applies : Shaped(Before(n)) /\ Before(n)' = Before(n)
    BY <1>1 DEF Control, Before
  <1>3. \A n \in 1 .. spent'.applies : Shaped(Before(n)')
    BY <1>1, <1>2
  <1> QED
    BY <1>1, <1>2, <1>3 DEF Control, Spends

LEMMA OtherStepsKeep ==
  ASSUME KeptInv, SameData(db, db'), UNCHANGED <<backup, manifest, op, owed>>, Spends
  PROVE  KeptInv'
  <1>1. Control' /\ \A n \in 1 .. spent.applies : Before(n)' = Before(n)
    BY ControlKept DEF KeptInv
  <1>2. Shaped(db)' /\ Evidence(db)' = Evidence(db)
    BY DEF KeptInv, Shaped, SameData, Evidence
  <1>3. KeptBy(db)'
    BY <1>1, <1>2 DEF KeptInv, KeptBy, SameData, Spends
  <1>4. ASSUME op.pc # "idle" PROVE KeptBy(Before(op.attempt))'
    <2>1. op.attempt \in 1 .. spent.applies /\ KeptBy(Before(op.attempt))
      BY <1>4 DEF KeptInv, AtStep
    <2>2. Before(op.attempt)' = Before(op.attempt)
      BY <1>1, <2>1 DEF Spends
    <2> QED
      BY <1>1, <2>1, <2>2 DEF KeptBy, Spends
  <1>5. AtStep'
    <2>1. ASSUME op.pc # "idle"
          PROVE  Before(op.attempt)' = Before(op.attempt)
      BY <1>1, <2>1 DEF KeptInv, AtStep
    <2> QED
      BY <1>2, <1>4, <2>1 DEF KeptInv, AtStep, SameData, Spends
  <1>6. WritesKept'
    BY <1>2 DEF KeptInv, WritesKept
  <1> QED
    BY <1>1, <1>2, <1>3, <1>5, <1>6 DEF KeptInv

LEMMA AddingKeeps ==
  ASSUME KeptInv, Room(db), ~Maintenance(db), NEW kind \in Kinds, NEW raw, NEW e, e = WithRow(db, kind, raw),
         SameData(e, db'), Recorded(kind, raw), UNCHANGED <<backup, manifest, op>>, Spends
  PROVE  KeptInv'
  <1>1. Control' /\ \A n \in 1 .. spent.applies : Before(n)' = Before(n)
    BY ControlKept DEF KeptInv
  <1>2. PICK n : n = Min(Free(db.row, NoRow))
    OBVIOUS
  <1>3. PICK d : d = db
    OBVIOUS
  <1>4. Shaped(d) /\ Room(d) /\ e = WithRow(d, kind, raw) /\ n = Min(Free(d.row, NoRow))
    BY <1>2, <1>3 DEF KeptInv
  <1>5. IsAdded(d, e, kind, raw, n)
    BY <1>4, RowAdded
  <1>6. /\ Shaped(e) /\ n \in Rows \ Evidence(d) /\ Evidence(e) = Evidence(d) \cup {n}
        /\ e.active = d.active /\ e.required = d.required /\ e.migration = d.migration /\ e.status = d.status
        /\ e.fingerprint = d.fingerprint
    BY <1>5 DEF IsAdded
  <1>7. /\ Shaped(db') /\ n \notin Evidence(db) /\ Evidence(db') = Evidence(db) \cup {n}
        /\ db'.active = db.active /\ db'.required = db.required /\ db'.migration = db.migration
        /\ db'.status = db.status /\ db'.fingerprint = db.fingerprint
    BY <1>3, <1>6 DEF SameData, Shaped, Evidence
  <1>8. owed' = IF op.pc # "idle" THEN owed ELSE owed \cup {n}
    BY <1>2 DEF Recorded, Underway
  <1>9. WritesKept'
    BY <1>7, <1>8 DEF KeptInv, WritesKept
  <1>10. KeptBy(db)'
    <2>1. SUFFICES ASSUME db.migration # 0
                   PROVE  KeptBy(db)'
      BY <1>7 DEF KeptBy
    <2>2. db.status = "completed"
      BY <2>1 DEF Maintenance
    <2>3. /\ Used(db.fingerprint[2], NoRow) \subseteq Evidence(db)
          /\ owed \cap Used(db.fingerprint[2], NoRow) \subseteq Evidence(Before(db.migration))
          /\ db.migration \in 1 .. spent.applies /\ Before(db.migration).migration = 0
      BY <2>1, <2>2 DEF KeptInv, KeptBy
    <2>4. Before(db.migration)' = Before(db.migration)
      BY <1>1, <1>7, <2>3
    <2>5. owed' \cap Used(db.fingerprint[2], NoRow) \subseteq owed \cap Used(db.fingerprint[2], NoRow)
      BY <1>7, <1>8, <2>3
    <2> QED
      BY <1>7, <2>2, <2>3, <2>4, <2>5 DEF KeptBy, Spends
  <1>11. ASSUME op.pc # "idle"
         PROVE  Before(op.attempt)' = Before(op.attempt) /\ KeptBy(Before(op.attempt))' /\ owed' = owed
    <2>1. op.attempt \in 1 .. spent.applies /\ KeptBy(Before(op.attempt))
      BY <1>11 DEF KeptInv, AtStep
    <2>2. Before(op.attempt)' = Before(op.attempt) /\ owed' = owed
      BY <1>1, <1>8, <1>11, <2>1 DEF Spends
    <2> QED
      BY <1>1, <2>1, <2>2 DEF KeptBy, Spends
  <1>12. AtStep'
    BY <1>7, <1>11 DEF KeptInv, AtStep, Spends
  <1> QED
    BY <1>1, <1>7, <1>9, <1>10, <1>12 DEF KeptInv

\* Steps of the tool that leave the database alone, or only project it again.
LEMMA ToolStepsKeep ==
  ASSUME KeptInv, SameData(db, db'), UNCHANGED <<backup, manifest, owed, spent>>,
         op' = [pc |-> op'.pc, attempt |-> op'.attempt, before |-> op'.before], op'.attempt = op.attempt,
         op.pc # "idle", op'.pc \in Steps \ {"idle"},
         \/ op'.pc = "failing"
         \/ op.pc = "backed" /\ op'.pc = "guarded" /\ db.migration = 0
         \/ op.pc = "guarded" /\ op'.pc = "planned" /\ manifest.resource = db.resource /\ manifest.row = db.row
         \/ op.pc = "planned" /\ op'.pc = "based"
         \/ op.pc = "rebuilding" /\ op'.pc = "rebuilt"
  PROVE  KeptInv'
  <1>1. \A n : Before(n)' = Before(n)
    BY DEF Before
  <1>2. \A n \in 1 .. spent.applies : Shaped(Before(n)')
    BY <1>1 DEF KeptInv, Control
  <1>3. op' # Idle /\ op'.pc # "idle" /\ op'.pc \in Steps
    BY DEF Idle
  <1>4. Control' /\ \A n : Before(n)' = Before(n)
    BY <1>1, <1>2, <1>3 DEF KeptInv, Control
  <1>5. Shaped(db)' /\ Evidence(db)' = Evidence(db) /\ DOMAIN db.resource = Ids
    BY DEF KeptInv, Shaped, SameData, Evidence
  <1>6. KeptBy(db)'
    BY <1>4, <1>5 DEF KeptInv, KeptBy, SameData
  <1>7. KeptBy(Before(op.attempt))'
    BY <1>4 DEF KeptInv, AtStep, KeptBy
  <1>8. Evidence(manifest)' = Evidence(manifest)
    BY DEF Evidence
  <1>9. manifest.row = db.row => Evidence(manifest) = Evidence(db)
    BY DEF Evidence
  <1>10. AtStep'
    BY <1>4, <1>5, <1>7, <1>8, <1>9 DEF KeptInv, AtStep, SameData
  <1>11. WritesKept'
    BY <1>5 DEF KeptInv, WritesKept
  <1> QED
    BY <1>4, <1>5, <1>6, <1>10, <1>11 DEF KeptInv

LEMMA BackUpKeeps ==
  ASSUME KeptInv, BackUp
  PROVE  KeptInv'
  <1>1. PICK n : n = spent.applies + 1
    OBVIOUS
  <1>2. n \in Attempts /\ spent.applies \in Nat /\ n \notin 1 .. spent.applies
    BY <1>1, MigrationAssumption DEF KeptInv, Control, BackUp, Attempts
  <1>3. /\ spent' = [applies |-> n, writes |-> spent.writes, starts |-> spent.starts, crashes |-> spent.crashes]
        /\ backup' = [backup EXCEPT ![n] = <<db>>] /\ UNCHANGED <<db, manifest, owed>>
        /\ op' = [pc |-> "backed", attempt |-> n, before |-> <<>>]
    BY <1>1 DEF KeptInv, Control, BackUp, Idle
  <1>4. /\ backup' = [k \in Attempts |-> backup'[k]]
        /\ \A k \in Attempts : backup'[k] = IF k = n THEN <<db>> ELSE backup[k]
    BY <1>2, <1>3 DEF KeptInv, Control
  <1>5. Before(n)' = db /\ \A k \in 1 .. spent.applies : Before(k)' = Before(k)
    BY <1>2, <1>4, MigrationAssumption DEF Before, KeptInv, Control, Attempts
  <1>6. spent'.applies = n /\ \A k \in 1 .. n : k \in 1 .. spent.applies \/ k = n
    BY <1>1, <1>2, <1>3
  <1>7. \A k \in 1 .. spent'.applies : Shaped(Before(k)')
    BY <1>5, <1>6 DEF KeptInv, Control
  <1>8. Control'
    BY <1>1, <1>2, <1>3, <1>4, <1>6, <1>7 DEF Control, KeptInv, Steps, Idle, Attempts
  <1>9. KeptBy(db)'
    BY <1>1, <1>2, <1>3, <1>5, <1>6 DEF KeptBy, KeptInv
  <1>10. AtStep'
    <2>1. op'.attempt = n /\ op'.pc = "backed"
      BY <1>3
    <2>2. Before(op.attempt)' = db
      BY <1>5, <2>1
    <2>3. KeptBy(Before(op.attempt))'
      BY <1>3, <1>9, <2>2 DEF KeptBy
    <2>4. op'.attempt \in 1 .. spent'.applies
      BY <1>1, <1>2, <1>6, <2>1
    <2> QED
      BY <1>3, <2>1, <2>2, <2>3, <2>4 DEF AtStep, KeptInv, WritesKept
  <1>11. WritesKept' /\ Shaped(db)'
    BY <1>3 DEF KeptInv, WritesKept
  <1> QED
    BY <1>8, <1>9, <1>10, <1>11 DEF KeptInv

LEMMA CoreKeeps ==
  ASSUME KeptInv, op.pc = "based", Applied(manifest, db) # Failed,
         db' = [Applied(manifest, db) EXCEPT !.migration = op.attempt, !.status = "rebuilding"],
         op' = [op EXCEPT !.pc = "rebuilding"], UNCHANGED <<backup, manifest, owed, spent>>
  PROVE  KeptInv'
  <1>1. PICK done : done = Applied(manifest, db)
    OBVIOUS
  <1>2. PICK d, m : d = db /\ m = manifest
    OBVIOUS
  <1>3. Shaped(d) /\ DOMAIN m.resource = Ids /\ Evidence(m) \subseteq Evidence(d) /\ Applied(m, d) # Failed
    BY <1>2 DEF KeptInv, AtStep
  <1>4. Shaped(done) /\ Evidence(d) \subseteq Evidence(done)
    BY <1>1, <1>2, <1>3, AppliedKept
  <1>5. db' = [resource |-> done.resource, row |-> done.row, page |-> done.page, derived |-> done.derived,
               job |-> done.job, worker |-> done.worker, active |-> done.active, required |-> done.required,
               migration |-> op.attempt, status |-> "rebuilding", fingerprint |-> done.fingerprint]
    BY <1>1, <1>4 DEF Shaped, IsDatabase
  <1>6. Shaped(db') /\ Evidence(db) \subseteq Evidence(db') /\ db'.migration = op.attempt /\ db'.status = "rebuilding"
    <2>1. PICK e : e = db'
      OBVIOUS
    <2>2. /\ e.resource = done.resource /\ e.row = done.row /\ e.page = done.page /\ e.derived = done.derived
          /\ e.job = done.job /\ e.worker = done.worker /\ e.active = done.active
          /\ e.required = done.required /\ e.migration = op.attempt /\ e.status = "rebuilding"
          /\ e.fingerprint = done.fingerprint
      BY <1>5, <2>1
    <2>3. IsDatabase(e)
      BY <1>5, <2>1, <2>2 DEF IsDatabase
    <2>4. /\ IsDatabase(db') /\ db'.resource = done.resource /\ db'.row = done.row
          /\ db'.migration = op.attempt /\ db'.status = "rebuilding"
      BY <2>1, <2>2, <2>3
    <2> QED
      BY <1>2, <1>4, <2>4 DEF Shaped, Evidence
  <1>7. op'.pc = "rebuilding" /\ op'.attempt = op.attempt
        /\ op' = [pc |-> op'.pc, attempt |-> op'.attempt, before |-> op'.before]
    BY DEF KeptInv, Control
  <1>8. \A k : Before(k)' = Before(k)
    BY DEF Before
  <1>9. Control'
    <2>1. \A n \in 1 .. spent.applies : Shaped(Before(n)')
      BY <1>8 DEF KeptInv, Control
    <2>2. op' # Idle /\ op'.pc # "idle" /\ op'.pc \in Steps
      BY <1>7 DEF Idle, Steps
    <2> QED
      BY <1>7, <2>1, <2>2 DEF KeptInv, Control
  <1>10. KeptBy(db)'
    BY <1>6, <1>8 DEF KeptBy, KeptInv, AtStep
  <1>11. KeptBy(Before(op.attempt))'
    BY <1>7, <1>8 DEF KeptInv, AtStep, KeptBy
  <1>12. AtStep'
    BY <1>6, <1>7, <1>8, <1>11 DEF KeptInv, AtStep
  <1>13. WritesKept'
    BY <1>6 DEF KeptInv, WritesKept
  <1> QED
    BY <1>6, <1>9, <1>10, <1>12, <1>13 DEF KeptInv

\* A backup takes the database's place.
LEMMA RestoringKeeps ==
  ASSUME KeptInv, op.pc # "idle", db' = backup[op.attempt][1], op' = Idle,
         UNCHANGED <<backup, manifest, owed, spent>>
  PROVE  KeptInv'
  <1>1. op.attempt \in 1 .. spent.applies /\ db' = Before(op.attempt)
    BY DEF KeptInv, AtStep, Before
  <1>2. Shaped(db') /\ owed \subseteq Evidence(db') /\ KeptBy(Before(op.attempt))
    BY <1>1 DEF KeptInv, Control, AtStep
  <1>3. \A k : Before(k)' = Before(k)
    BY DEF Before
  <1>4. KeptBy(db)'
    BY <1>1, <1>2, <1>3 DEF KeptBy
  <1>5. \A n \in 1 .. spent.applies : Shaped(Before(n)')
    BY <1>3 DEF KeptInv, Control
  <1>6. Control' /\ AtStep'
    BY <1>5 DEF KeptInv, Control, AtStep, Idle, Steps
  <1>7. WritesKept'
    BY <1>2 DEF WritesKept
  <1> QED
    BY <1>2, <1>4, <1>6, <1>7 DEF KeptInv

\* The tool dies, or starts or ends with a database it leaves alone.
LEMMA CrashKeeps ==
  ASSUME KeptInv, Spends, op' = Idle, UNCHANGED <<db, backup, manifest, owed>>
  PROVE  KeptInv'
  <1>1. spent'.applies = spent.applies /\ \A k : Before(k)' = Before(k)
    BY DEF Spends, Before
  <1>2. \A n \in 1 .. spent'.applies : Shaped(Before(n)')
    BY <1>1 DEF KeptInv, Control
  <1>3. Control' /\ AtStep'
    BY <1>1, <1>2 DEF KeptInv, Control, AtStep, Idle, Steps, Spends
  <1>4. KeptBy(db)'
    BY <1>1 DEF KeptInv, KeptBy
  <1> QED
    BY <1>3, <1>4 DEF KeptInv, WritesKept

LEMMA FinalizeKeeps ==
  ASSUME KeptInv, Finalize
  PROVE  KeptInv'
  <1>1. /\ db' = [resource |-> db.resource, row |-> db.row, page |-> db.page, derived |-> db.derived,
                  job |-> db.job, worker |-> db.worker, active |-> "V2", required |-> FALSE,
                  migration |-> db.migration, status |-> "completed", fingerprint |-> Domain(db)]
        /\ op' = Idle /\ UNCHANGED <<backup, manifest, owed, spent>>
    BY DEF Finalize, Finalized, KeptInv, Shaped, IsDatabase
  <1>2. Shaped(db') /\ Evidence(db') = Evidence(db) /\ db'.migration = db.migration /\ db'.status = "completed"
        /\ db'.fingerprint[2] = db.row
    BY <1>1 DEF KeptInv, Shaped, IsDatabase, Evidence, Domain
  <1>3. \A k : Before(k)' = Before(k)
    BY <1>1 DEF Before
  <1>4. \A n \in 1 .. spent.applies : Shaped(Before(n)')
    BY <1>3 DEF KeptInv, Control
  <1>5. Control' /\ AtStep'
    BY <1>1, <1>4 DEF KeptInv, Control, AtStep, Idle, Steps
  <1>6. /\ db.migration = op.attempt /\ op.attempt \in 1 .. spent.applies /\ KeptBy(db)
        /\ owed \subseteq Evidence(Before(op.attempt))
    BY DEF KeptInv, AtStep, Finalize
  <1>7. Used(db'.fingerprint[2], NoRow) = Evidence(db)
    BY <1>2 DEF Evidence
  <1>8. KeptBy(db)'
    BY <1>1, <1>2, <1>3, <1>6, <1>7 DEF KeptBy
  <1>9. WritesKept'
    BY <1>1, <1>2 DEF KeptInv, WritesKept
  <1> QED
    BY <1>2, <1>5, <1>8, <1>9 DEF KeptInv

LEMMA RollbackCheckKeeps ==
  ASSUME KeptInv, RollbackCheck
  PROVE  KeptInv'
  <1>1. /\ op' = [pc |-> "restoring", attempt |-> db.migration, before |-> <<>>]
        /\ UNCHANGED <<db, backup, manifest, owed, spent>>
    BY DEF RollbackCheck, Idle
  <1>2. /\ db.migration \in 1 .. spent.applies /\ Before(db.migration).migration = 0
        /\ db.status \in {"rebuilding", "completed"}
    BY DEF RollbackCheck, KeptInv, KeptBy
  <1>3. owed \subseteq Evidence(Before(db.migration))
    <2>1. CASE db.status = "rebuilding"
      BY <2>1 DEF RollbackCheck, KeptInv, KeptBy
    <2>2. CASE db.status = "completed"
      <3>1. db.fingerprint[2] = db.row
        BY <2>2 DEF RollbackCheck, Unwritten, Domain
      <3>2. owed \subseteq Used(db.fingerprint[2], NoRow)
        BY <3>1 DEF KeptInv, WritesKept, Evidence
      <3>3. owed \cap Used(db.fingerprint[2], NoRow) \subseteq Evidence(Before(db.migration))
        BY <2>2 DEF RollbackCheck, KeptInv, KeptBy
      <3> QED
        BY <3>2, <3>3
    <2> QED
      BY <1>2, <2>1, <2>2
  <1>4. \A k : Before(k)' = Before(k)
    BY <1>1 DEF Before
  <1>5. \A n \in 1 .. spent.applies : Shaped(Before(n)')
    BY <1>4 DEF KeptInv, Control
  <1>6. op'.pc = "restoring" /\ op'.attempt = db.migration /\ op'.before = <<>>
    BY <1>1
  <1>7. Control'
    BY <1>1, <1>5, <1>6 DEF KeptInv, Control, Idle, Steps
  <1>8. KeptBy(db)'
    BY <1>1, <1>4 DEF KeptInv, KeptBy
  <1>9. KeptBy(Before(op.attempt))'
    BY <1>2, <1>4, <1>6 DEF KeptBy
  <1>10. AtStep'
    BY <1>1, <1>2, <1>3, <1>4, <1>6, <1>9 DEF AtStep
  <1> QED
    BY <1>1, <1>7, <1>8, <1>10 DEF KeptInv, WritesKept

LEMMA RequestsKeep ==
  ASSUME KeptInv, Request
  PROVE  KeptInv'
  <1>1. IsDatabase(db) /\ SameData(db, db) /\ Control
    BY DEF KeptInv, Shaped, SameData
  <1>2. CASE Admit
    <2>1. Spends /\ SameData(db, db') /\ UNCHANGED <<backup, manifest, op, owed>>
      BY <1>1, <1>2, Spending DEF Admit, SameData
    <2> QED
      BY <2>1, OtherStepsKeep
  <1>3. ASSUME NEW raw \in NewUrls, AddUrl(raw)
        PROVE  KeptInv'
    <2>1. PICK e : e = WithRow(db, "listed", raw)
      OBVIOUS
    <2>2. db' = e /\ Room(db) /\ ~Maintenance(db) /\ Recorded("listed", raw) /\ UNCHANGED <<backup, manifest, op, spent>>
      BY <1>3, <2>1 DEF AddUrl, Answer
    <2>3. PICK d : d = db
      OBVIOUS
    <2>4. Shaped(d) /\ Room(d) /\ e = WithRow(d, "listed", raw) /\ "listed" \in Kinds
      BY <2>1, <2>2, <2>3 DEF KeptInv, Kinds
    <2>5. IsAdded(d, e, "listed", raw, Min(Free(d.row, NoRow)))
      BY <2>4, RowAdded
    <2>6. SameData(e, db')
      BY <2>2, <2>5 DEF IsAdded, Shaped, SameData
    <2> QED
      BY <1>1, <2>1, <2>2, <2>4, <2>6, Spending, AddingKeeps
  <1>4. ASSUME NEW p \in Pages, EditPage(p)
        PROVE  KeptInv'
    <2>1. PICK owner \in Owners : db' = [db EXCEPT !.page[p].owner = owner]
      BY <1>4 DEF EditPage, Answer
    <2>2. PICK page : page = [db.page EXCEPT ![p].owner = owner]
      OBVIOUS
    <2>3. db' = [db EXCEPT !.page = page]
      BY <2>1, <2>2
    <2>4. SameData(db, db')
      BY <1>1, <2>3 DEF SameData, IsDatabase
    <2>5. Spends /\ UNCHANGED <<backup, manifest, op, owed>>
      BY <1>1, <1>4, Spending DEF EditPage, Answer
    <2> QED
      BY <2>4, <2>5, OtherStepsKeep
  <1>5. CASE Enqueue
    <2>1. SameData(db, db')
      BY <1>1, <1>5 DEF Enqueue, Answer, SameData, IsDatabase
    <2>2. Spends /\ UNCHANGED <<backup, manifest, op, owed>>
      BY <1>1, <1>5, Spending DEF Enqueue, Answer
    <2> QED
      BY <2>1, <2>2, OtherStepsKeep
  <1>6. CASE Refused
    <2>1. Spends /\ SameData(db, db') /\ UNCHANGED <<backup, manifest, op, owed>>
      BY <1>1, <1>6, Spending DEF Refused, Answer, SameData
    <2> QED
      BY <2>1, OtherStepsKeep
  <1> QED
    BY <1>2, <1>3, <1>4, <1>5, <1>6 DEF Request

LEMMA WorkersKeep ==
  ASSUME KeptInv, Worker
  PROVE  KeptInv'
  <1>1. IsDatabase(db) /\ Control
    BY DEF KeptInv, Shaped
  <1>2. CASE WorkerStart
    <2>1. SameData(db, db')
      BY <1>1, <1>2 DEF WorkerStart, SameData, IsDatabase
    <2>2. Spends /\ UNCHANGED <<backup, manifest, op, owed>>
      BY <1>1, <1>2, Spending DEF WorkerStart
    <2> QED
      BY <2>1, <2>2, OtherStepsKeep
  <1>3. CASE WorkerStop
    <2>1. SameData(db, db')
      BY <1>1, <1>3 DEF WorkerStop, SameData, IsDatabase
    <2>2. Spends /\ UNCHANGED <<backup, manifest, op, owed>>
      BY <1>1, <1>3, Spending DEF WorkerStop
    <2> QED
      BY <2>1, <2>2, OtherStepsKeep
  <1>4. CASE Claim
    <2>1. SameData(db, db')
      BY <1>1, <1>4 DEF Claim, SameData, IsDatabase
    <2>2. Spends /\ UNCHANGED <<backup, manifest, op, owed>>
      BY <1>1, <1>4, Spending DEF Claim
    <2> QED
      BY <2>1, <2>2, OtherStepsKeep
  <1>5. CASE Work
    <2>1. CASE Maintenance(db) \/ ~Room(db)
      <3>1. SameData(db, db')
        BY <1>1, <1>5, <2>1 DEF Work, SameData, IsDatabase
      <3>2. Spends /\ UNCHANGED <<backup, manifest, op, owed>>
        BY <1>1, <1>5, <2>1, Spending DEF Work
      <3> QED
        BY <3>1, <3>2, OtherStepsKeep
    <2>2. CASE ~(Maintenance(db) \/ ~Room(db))
      <3>1. PICK raw \in NewUrls : db' = [WithRow(db, "plain", raw) EXCEPT !.job = "none"] /\ Recorded("plain", raw)
        BY <1>5, <2>2 DEF Work
      <3>2. PICK e : e = WithRow(db, "plain", raw)
        OBVIOUS
      <3>3. PICK d : d = db
        OBVIOUS
      <3>4. Shaped(d) /\ Room(d) /\ e = WithRow(d, "plain", raw) /\ "plain" \in Kinds
        BY <2>2, <3>2, <3>3 DEF KeptInv, Kinds
      <3>5. IsAdded(d, e, "plain", raw, Min(Free(d.row, NoRow)))
        BY <3>4, RowAdded
      <3>6. IsDatabase(e) /\ db' = [e EXCEPT !.job = "none"]
        BY <3>1, <3>2, <3>5 DEF IsAdded, Shaped
      <3>7. SameData(e, db')
        BY <3>6 DEF SameData, IsDatabase
      <3>8. UNCHANGED <<backup, manifest, op, spent>>
        BY <1>5 DEF Work
      <3> QED
        BY <1>1, <2>2, <3>1, <3>2, <3>4, <3>7, <3>8, Spending, AddingKeeps
    <2> QED
      BY <2>1, <2>2
  <1> QED
    BY <1>2, <1>3, <1>4, <1>5 DEF Worker

\* A step of the tool to another of its own.
Going(pc) ==
  op' = [pc |-> op'.pc, attempt |-> op'.attempt, before |-> op'.before] /\ op'.pc = pc /\ op'.attempt = op.attempt

LEMMA GoneTo ==
  ASSUME KeptInv, NEW pc, Goto(pc)
  PROVE  Going(pc)
  BY DEF KeptInv, Control, Goto, Going

LEMMA ApplyKeeps ==
  ASSUME KeptInv, Apply
  PROVE  KeptInv'
  <1>1. SameData(db, db)
    BY DEF KeptInv, Shaped, SameData
  <1>2. CASE Preflight
    <2>1. /\ op.pc = "backed" /\ SameData(db, db') /\ UNCHANGED <<backup, manifest, owed, spent>>
          /\ Goto(IF Passes THEN "guarded" ELSE "failing")
      BY <1>1, <1>2 DEF Preflight, SameData
    <2>2. (Going("guarded") /\ Passes) \/ Going("failing")
      BY <2>1, GoneTo
    <2> QED
      BY <2>1, <2>2, ToolStepsKeep DEF Going, Passes, Steps
  <1>3. CASE Plan
    <2>1. /\ op.pc = "guarded" /\ SameData(db, db') /\ UNCHANGED <<backup, manifest, owed, spent>>
          /\ Goto(IF ValidManifest(manifest, db) THEN "planned" ELSE "failing")
      BY <1>1, <1>3 DEF Plan, SameData
    <2>2. (Going("planned") /\ ValidManifest(manifest, db)) \/ Going("failing")
      BY <2>1, GoneTo
    <2> QED
      BY <2>1, <2>2, ToolStepsKeep DEF Going, ValidManifest, Steps
  <1>4. CASE Baselined
    <2>1. op.pc = "planned" /\ SameData(db, db') /\ UNCHANGED <<backup, manifest, owed, spent>>
      BY <1>1, <1>4 DEF Baselined, SameData
    <2>2. Going("based")
      BY <1>4 DEF Baselined, Going, KeptInv, Control
    <2> QED
      BY <2>1, <2>2, ToolStepsKeep DEF Going, Steps
  <1>5. CASE Core
    <2>1. op.pc = "based" /\ UNCHANGED <<backup, manifest, owed, spent>>
      BY <1>5 DEF Core
    <2>2. CASE Goto("failing") /\ UNCHANGED db
      <3>1. Going("failing") /\ SameData(db, db')
        BY <1>1, <2>2, GoneTo DEF SameData
      <3> QED
        BY <2>1, <3>1, ToolStepsKeep DEF Going, Steps
    <2>3. CASE ~(Goto("failing") /\ UNCHANGED db)
      <3>1. /\ Applied(manifest, db) # Failed /\ Goto("rebuilding")
            /\ db' = [Applied(manifest, db) EXCEPT !.migration = op.attempt, !.status = "rebuilding"]
        BY <1>5, <2>3 DEF Core
      <3> QED
        BY <2>1, <3>1, CoreKeeps DEF Goto
    <2> QED
      BY <2>2, <2>3
  <1>6. CASE Rebuild
    <2>1. op.pc = "rebuilding" /\ UNCHANGED <<backup, manifest, owed, spent>>
      BY <1>6 DEF Rebuild
    <2>2. CASE Goto("rebuilt") /\ db' = [db EXCEPT !.derived = Projected(db)]
      <3>1. Going("rebuilt")
        BY <2>2, GoneTo
      <3>2. SameData(db, db')
        BY <2>2 DEF KeptInv, Shaped, SameData, IsDatabase
      <3> QED
        BY <2>1, <3>1, <3>2, ToolStepsKeep DEF Going, Steps
    <2>3. CASE Goto("failing") /\ UNCHANGED db
      <3>1. Going("failing") /\ SameData(db, db')
        BY <1>1, <2>3, GoneTo DEF SameData
      <3> QED
        BY <2>1, <3>1, ToolStepsKeep DEF Going, Steps
    <2> QED
      BY <1>6, <2>2, <2>3 DEF Rebuild
  <1>7. CASE Finalize
    BY <1>7, FinalizeKeeps
  <1>8. CASE Restore
    BY <1>8, RestoringKeeps DEF Restore
  <1> QED
    BY <1>2, <1>3, <1>4, <1>5, <1>6, <1>7, <1>8 DEF Apply

LEMMA StepsKeep ==
  ASSUME KeptInv, [Next]_vars
  PROVE  KeptInv'
  <1>1. Control /\ SameData(db, db)
    BY DEF KeptInv, Shaped, SameData
  <1>2. CASE Request
    BY <1>2, RequestsKeep
  <1>3. CASE Worker
    BY <1>3, WorkersKeep
  <1>4. CASE Rebase
    <2>1. op = Idle /\ op' = Idle /\ Spends /\ UNCHANGED <<db, backup, owed>>
      BY <1>1, <1>4, Spending DEF Rebase
    <2>2. Control' /\ \A n \in 1 .. spent.applies : Before(n)' = Before(n)
      BY <1>1, <2>1, ControlKept
    <2>3. KeptBy(db)'
      BY <2>1, <2>2 DEF KeptInv, KeptBy, Spends
    <2> QED
      BY <2>1, <2>2, <2>3 DEF KeptInv, AtStep, Idle, WritesKept
  <1>5. CASE BackUp
    BY <1>5, BackUpKeeps
  <1>6. CASE Apply
    BY <1>6, ApplyKeeps
  <1>7. CASE Crash
    BY <1>1, <1>7, Spending, CrashKeeps DEF Crash
  <1>8. CASE Rollback
    <2>1. CASE RollbackCheck
      BY <2>1, RollbackCheckKeeps
    <2>2. CASE RollbackRestore
      BY <2>2, RestoringKeeps DEF RollbackRestore
    <2> QED
      BY <1>8, <2>1, <2>2 DEF Rollback
  <1>9. CASE UNCHANGED vars
    <2>1. Spends /\ SameData(db, db') /\ UNCHANGED <<backup, manifest, op, owed>>
      BY <1>1, <1>9, Spending DEF vars, SameData
    <2> QED
      BY <2>1, OtherStepsKeep
  <1> QED
    BY <1>2, <1>3, <1>4, <1>5, <1>6, <1>7, <1>8, <1>9 DEF Next

\* A row accepted while neither a migration nor a rollback was under way is there for good:
\* a backup from before it is only put back where its rows are all there still, or by a tool
\* that was at work already.
THEOREM WhatIsWrittenIsKept == Spec => []WritesKept
  <1>1. Init => KeptInv
    BY KeptAtFirst
  <1>2. KeptInv /\ [Next]_vars => KeptInv'
    BY StepsKeep
  <1>3. KeptInv => WritesKept
    BY DEF KeptInv
  <1> QED
    BY <1>1, <1>2, <1>3, PTL DEF Spec

-----------------------------------------------------------------------------
(***************************************************************************)
(* The transaction attributes every row to what it spells: first the       *)
(* origins of a group.                                                     *)
(***************************************************************************)

RowsTyped(row) == row \in [Rows -> {NoRow} \cup RowRows]

LEMMA TypedRows ==
  ASSUME NEW row, RowsTyped(row)
  PROVE  RowsShaped(row) /\ \A x \in Used(row, NoRow) : x \in Rows /\ row[x] \in RowRows
  <1>1. DOMAIN row = Rows /\ \A x \in Rows : row[x] \in {NoRow} \cup RowRows
    BY DEF RowsTyped
  <1>2. \A y \in RowRows : IsRow(y)
    BY DEF RowRows, IsRow
  <1>3. row = [x \in Rows |-> row[x]]
    BY DEF RowsTyped
  <1> QED
    BY <1>1, <1>2, <1>3 DEF RowsShaped, Used

\* A seed's URL is what was asked for, or what that is normalized to.
SeedsTold(row) ==
  \A x \in Used(row, NoRow) : row[x].kind = "seed" => row[x].url \in Urls /\ V2[row[x].url] = V2[row[x].raw]

\* An origin is at a seed that is spelled as it is.
AtItsSeed(row, o) ==
  /\ row[o].seed \in Used(row, NoRow) /\ row[row[o].seed].kind = "seed"
  /\ V2[row[row[o].seed].raw] = V2[row[o].raw]

NewSeed(url, resource) == [kind |-> "seed", raw |-> url, url |-> url, resource |-> resource, seed |-> 0]

\* The rows that are new are seeds of candidates.
SeedsAdded(row, e, number) ==
  \A x \in Used(e, NoRow) \ Used(row, NoRow) : \E c \in DOMAIN number : e[x] = NewSeed(c, number[c])

SameSpelling(row, e, x) == e[x].kind = row[x].kind /\ e[x].raw = row[x].raw

\* The numbers of a group's candidates, which are URLs in the current normalization.
Numbering(number) ==
  /\ DOMAIN number \subseteq Urls /\ NoUrl \notin DOMAIN number
  /\ \A c \in DOMAIN number : V2[c] = c /\ number[c] \in Ids

\* The row of an origin, and the rows afterwards.
OriginDone(row, e, o, number) ==
  /\ RowsTyped(e) /\ SeedsTold(e) /\ Used(row, NoRow) \subseteq Used(e, NoRow)
  /\ \A x \in Used(row, NoRow) \ {o} : e[x] = row[x]
  /\ SameSpelling(row, e, o) /\ AtItsSeed(e, o)
  /\ SeedsAdded(row, e, number)

LEMMA FreeRows ==
  ASSUME NEW row, RowsTyped(row)
  PROVE  /\ Free(row, NoRow) = Rows \ Used(row, NoRow) /\ Used(row, NoRow) \subseteq Rows
         /\ IsFiniteSet(Free(row, NoRow)) /\ Cardinality(Free(row, NoRow)) \in Nat
         /\ Free(row, NoRow) \subseteq Nat
  <1>1. DOMAIN row = Rows
    BY DEF RowsTyped
  <1>2. Free(row, NoRow) = Rows \ Used(row, NoRow) /\ Used(row, NoRow) \subseteq Rows
    BY <1>1 DEF Free, Used
  <1>3. Free(row, NoRow) \in SUBSET Rows
    BY <1>2
  <1>4. IsFiniteSet(Free(row, NoRow)) /\ Free(row, NoRow) \subseteq Nat
    BY <1>3, Numbers
  <1> QED
    BY <1>2, <1>4, FS_CardinalityType

\* The origin goes to a seed there is.
LEMMA OriginToSeed ==
  ASSUME NEW row, RowsTyped(row), SeedsTold(row), NEW o \in Used(row, NoRow), row[o].kind = "origin",
         NEW s \in Used(row, NoRow), row[s].kind = "seed", row[s].url = V2[row[o].raw],
         NEW number, Numbering(number), V2[row[o].raw] \in DOMAIN number,
         NEW e, e = SeedOf(row, o, s)
  PROVE  OriginDone(row, e, o, number) /\ Used(e, NoRow) = Used(row, NoRow)
  <1>1. RowsShaped(row) /\ o \in Rows /\ s \in Rows /\ row[o] \in RowRows /\ o # s
    BY TypedRows
  <1>2. /\ RowsShaped(e) /\ Used(e, NoRow) = Used(row, NoRow)
        /\ \A x \in Used(e, NoRow) \ {o} : e[x] = row[x]
        /\ e[o].kind = row[o].kind /\ e[o].raw = row[o].raw /\ e[o].url = row[o].url
        /\ e[o].resource = row[o].resource /\ e[o].seed = s
    BY <1>1, SeedGiven
  <1>3. e[o] \in RowRows
    <2>1. e[o] = [kind |-> row[o].kind, raw |-> row[o].raw, url |-> row[o].url, resource |-> row[o].resource,
                  seed |-> s]
      BY <1>1, <1>2, UsedRows DEF IsRow
    <2> QED
      BY <1>1, <2>1 DEF RowRows
  <1>4. RowsTyped(e)
    <2>1. e = [x \in Rows |-> e[x]]
      BY <1>2 DEF RowsShaped
    <2>2. \A x \in Rows : e[x] \in {NoRow} \cup RowRows
      <3> TAKE x \in Rows
      <3>1. CASE x \in Used(e, NoRow)
        BY <1>2, <1>3, <3>1, TypedRows
      <3>2. CASE x \notin Used(e, NoRow)
        BY <2>1, <3>2 DEF Used
      <3> QED
        BY <3>1, <3>2
    <2> QED
      BY <2>1, <2>2 DEF RowsTyped
  <1>5. SeedsTold(e)
    BY <1>2 DEF SeedsTold
  <1>6. AtItsSeed(e, o)
    <2>1. e[s] = row[s]
      BY <1>1, <1>2
    <2>2. V2[row[s].raw] = V2[row[s].url]
      BY DEF SeedsTold
    <2>3. V2[row[s].url] = V2[row[o].raw]
      BY DEF Numbering
    <2> QED
      BY <1>2, <2>1, <2>2, <2>3 DEF AtItsSeed
  <1>7. SeedsAdded(row, e, number)
    BY <1>2 DEF SeedsAdded
  <1> QED
    BY <1>2, <1>4, <1>5, <1>6, <1>7 DEF OriginDone, SameSpelling

\* A seed is made where there is no row.
LEMMA SeedMade ==
  ASSUME NEW row, RowsTyped(row), SeedsTold(row), NEW n \in Rows \ Used(row, NoRow),
         NEW number, Numbering(number), NEW c \in DOMAIN number,
         NEW e, e = Write(row, n, NewSeed(c, number[c]))
  PROVE  /\ RowsTyped(e) /\ SeedsTold(e) /\ Used(e, NoRow) = Used(row, NoRow) \cup {n}
         /\ \A x \in Used(row, NoRow) : e[x] = row[x]
         /\ e[n] = NewSeed(c, number[c]) /\ e[n].kind = "seed" /\ e[n].url = c
  <1>1. RowsShaped(row) /\ Used(row, NoRow) \subseteq Rows
    BY TypedRows
  <1>2. NewSeed(c, number[c]) \in RowRows /\ IsRow(NewSeed(c, number[c]))
    BY DEF NewSeed, RowRows, Numbering, IsRow, Kinds
  <1>3. PICK r : r = NewSeed(c, number[c])
    OBVIOUS
  <1>4. /\ RowsShaped(e) /\ \A x \in Rows \ {n} : e[x] = row[x]
        /\ e[n] = r /\ Used(e, NoRow) = Used(row, NoRow) \cup {n}
    <2>1. IsRow(r) /\ e = Write(row, n, r) /\ n \in Rows
      BY <1>2, <1>3
    <2> QED
      BY <1>1, <2>1, RowWritten
  <1>5. RowsTyped(e)
    <2>1. e = [x \in Rows |-> e[x]]
      BY <1>4 DEF RowsShaped
    <2>2. \A x \in Rows : e[x] \in {NoRow} \cup RowRows
      BY <1>2, <1>3, <1>4 DEF RowsTyped
    <2> QED
      BY <2>1, <2>2 DEF RowsTyped
  <1>6. r.kind = "seed" /\ r.url = c /\ r.raw = c /\ c \in Urls
    BY <1>3 DEF NewSeed, Numbering
  <1>7. SeedsTold(e)
    BY <1>1, <1>4, <1>6 DEF SeedsTold
  <1> QED
    BY <1>1, <1>3, <1>4, <1>5, <1>6, <1>7

LEMMA OriginIsDone ==
  ASSUME NEW row, RowsTyped(row), SeedsTold(row), NEW o \in Used(row, NoRow), row[o].kind = "origin",
         NEW number, Numbering(number), V2[row[o].raw] \in DOMAIN number, Free(row, NoRow) # {},
         NEW e, e = OriginMoved(row, o, number)
  PROVE  /\ OriginDone(row, e, o, number)
         /\ Cardinality(Free(e, NoRow)) + 1 >= Cardinality(Free(row, NoRow))
  <1> DEFINE url == V2[row[o].raw]
             seeds == {x \in Used(row, NoRow) : row[x].kind = "seed" /\ row[x].url = url}
  <1>1. seeds \subseteq Used(row, NoRow) /\ Used(row, NoRow) \subseteq Nat
    BY FreeRows, ReconciliationAssumption
  <1>2. CASE seeds # {}
    <2>1. e = SeedOf(row, o, Min(seeds))
      BY <1>2 DEF OriginMoved, SeedOf
    <2>2. Min(seeds) \in seeds
      <3> HIDE DEF seeds
      <3> QED
        BY <1>1, <1>2, Least
    <2>3. OriginDone(row, e, o, number) /\ Used(e, NoRow) = Used(row, NoRow)
      BY <2>1, <2>2, OriginToSeed
    <2>4. RowsTyped(e)
      BY <2>3 DEF OriginDone
    <2>5. Free(e, NoRow) = Free(row, NoRow)
      BY <2>3, <2>4, FreeRows
    <2>6. Cardinality(Free(row, NoRow)) \in Nat
      BY FreeRows
    <2> QED
      BY <2>3, <2>5, <2>6
  <1>3. CASE seeds = {}
    <2>1. PICK n : n = Min(Free(row, NoRow))
      OBVIOUS
    <2>2. n \in Free(row, NoRow) /\ n \in Rows \ Used(row, NoRow)
      BY <2>1, FreeRows, Least
    <2>3. PICK w : w = Write(row, n, NewSeed(url, number[url]))
      OBVIOUS
    <2>4. e = SeedOf(w, o, n)
      BY <1>3, <2>1, <2>3 DEF OriginMoved, SeedOf, Write, NewSeed
    <2>5. /\ RowsTyped(w) /\ SeedsTold(w) /\ Used(w, NoRow) = Used(row, NoRow) \cup {n}
          /\ \A x \in Used(row, NoRow) : w[x] = row[x]
          /\ w[n] = NewSeed(url, number[url]) /\ w[n].kind = "seed" /\ w[n].url = url
      BY <2>2, <2>3, SeedMade
    <2>6. OriginDone(w, e, o, number) /\ Used(e, NoRow) = Used(w, NoRow)
      <3>1. /\ o \in Used(w, NoRow) /\ w[o] = row[o] /\ n \in Used(w, NoRow)
        BY <2>5
      <3>2. w[n].url = V2[w[o].raw] /\ V2[w[o].raw] \in DOMAIN number /\ w[o].kind = "origin"
        BY <2>5, <3>1
      <3> HIDE DEF url, seeds
      <3> QED
        BY <2>4, <2>5, <3>1, <3>2, OriginToSeed
    <2> HIDE DEF url
    <2>7. OriginDone(row, e, o, number)
      <3>1. \A x \in Used(row, NoRow) \ {o} : e[x] = row[x]
        BY <2>5, <2>6 DEF OriginDone
      <3>2. SameSpelling(row, e, o)
        BY <2>5, <2>6 DEF OriginDone, SameSpelling
      <3>3. SeedsAdded(row, e, number)
        <4>1. \A x \in Used(e, NoRow) \ Used(row, NoRow) : x = n /\ n # o
          BY <2>2, <2>5, <2>6
        <4>2. n # o => e[n] = w[n]
          BY <2>5, <2>6 DEF OriginDone
        <4>3. url \in DOMAIN number
          BY DEF url
        <4> QED
          BY <2>5, <4>1, <4>2, <4>3 DEF SeedsAdded
      <3> QED
        BY <2>5, <2>6, <3>1, <3>2, <3>3 DEF OriginDone
    <2>8. Free(e, NoRow) = Free(row, NoRow) \ {n}
      <3>1. RowsTyped(e)
        BY <2>6 DEF OriginDone
      <3> QED
        BY <3>1, <2>5, <2>6, FreeRows
    <2>9. IsFiniteSet(Free(row, NoRow))
      BY FreeRows
    <2>10. /\ Cardinality(Free(row, NoRow)) \in Nat
           /\ Cardinality(Free(e, NoRow)) = Cardinality(Free(row, NoRow)) - 1
      BY <2>2, <2>8, <2>9, OneLess
    <2> QED
      BY <2>7, <2>10
  <1> QED
    BY <1>2, <1>3

\* All of a group's origins.
OriginsDone(row, e, S, number) ==
  /\ RowsTyped(e) /\ SeedsTold(e) /\ Used(row, NoRow) \subseteq Used(e, NoRow)
  /\ \A x \in Used(row, NoRow) \ S : e[x] = row[x]
  /\ \A o \in S : SameSpelling(row, e, o) /\ AtItsSeed(e, o)
  /\ SeedsAdded(row, e, number)

LEMMA OneMoreOrigin ==
  ASSUME NEW start, NEW row, NEW e, NEW T, NEW o \in T, T \subseteq Used(start, NoRow), NEW number,
         start[o].kind = "origin", OriginsDone(start, row, T \ {o}, number), OriginDone(row, e, o, number)
  PROVE  OriginsDone(start, e, T, number)
  <1>1. row[o] = start[o]
    BY DEF OriginsDone
  <1>2. /\ RowsTyped(e) /\ SeedsTold(e) /\ Used(start, NoRow) \subseteq Used(e, NoRow)
    BY DEF OriginsDone, OriginDone
  <1>3. \A x \in Used(start, NoRow) \ T : e[x] = start[x]
    BY DEF OriginsDone, OriginDone
  <1>4. SameSpelling(start, e, o) /\ AtItsSeed(e, o)
    BY <1>1 DEF OriginDone, SameSpelling
  <1>5. ASSUME NEW q \in T, q # o
        PROVE  SameSpelling(start, e, q) /\ AtItsSeed(e, q)
    <2>1. q \in Used(row, NoRow) /\ SameSpelling(start, row, q) /\ AtItsSeed(row, q)
      BY <1>5 DEF OriginsDone
    <2>2. e[q] = row[q]
      BY <1>5, <2>1 DEF OriginDone
    <2>3. row[q].seed # o
      BY <1>1, <2>1 DEF AtItsSeed
    <2>4. e[row[q].seed] = row[row[q].seed] /\ row[q].seed \in Used(e, NoRow)
      BY <2>1, <2>3 DEF OriginDone, AtItsSeed
    <2> QED
      BY <2>1, <2>2, <2>4 DEF SameSpelling, AtItsSeed
  <1>6. SeedsAdded(start, e, number)
    <2>1. \A x \in Used(row, NoRow) \ Used(start, NoRow) : e[x] = row[x]
      BY DEF OriginDone
    <2> QED
      BY <2>1 DEF SeedsAdded, OriginsDone, OriginDone
  <1> QED
    BY <1>2, <1>3, <1>4, <1>5, <1>6 DEF OriginsDone

LEMMA OriginsAreDone ==
  ASSUME NEW start, RowsTyped(start), SeedsTold(start), NEW S, S \subseteq Used(start, NoRow), NEW number,
         Numbering(number), \A o \in S : start[o].kind = "origin" /\ V2[start[o].raw] \in DOMAIN number,
         Cardinality(S) <= Cardinality(Free(start, NoRow))
  PROVE  OriginsDone(start, OriginsMoved(start, S, number), S, number)
  <1>1. IsFiniteSet(S) /\ S \subseteq Nat /\ Cardinality(S) \in Nat
    BY Numbers, FreeRows, FS_CardinalityType
  <1>2. PICK h : Moved(h, start, number, SUBSET S) /\ OriginsMoved(start, S, number) = h[S]
    BY <1>1, OriginsAreMoved
  <1>3. \A s \in SUBSET S : h[s] = IF s = {} THEN start ELSE OriginMoved(h[s \ {Max(s)}], Max(s), number)
    BY <1>2, Zenon DEF Moved
  <1> DEFINE left(row) == Cardinality(Free(row, NoRow))
             good(s) == OriginsDone(start, h[s], s, number) /\ left(h[s]) + Cardinality(s) >= left(start)
             B == {s \in SUBSET S : ~good(s)}
  <1>4. B = {}
    <2>1. SUFFICES ASSUME B # {} PROVE FALSE
      OBVIOUS
    <2>2. PICK T \in B : \A x \in T : T \ {x} \notin B
      <3>1. B \subseteq SUBSET S
        OBVIOUS
      <3> HIDE DEF B
      <3> QED
        BY <1>1, <2>1, <3>1, Descent
    <2>3. T \subseteq S /\ ~good(T)
      OBVIOUS
    <2>4. T # {}
      <3>1. ASSUME T = {} PROVE FALSE
        <4>1. h[T] = start /\ Cardinality(T) = 0
          BY <1>3, <3>1, FS_EmptySet
        <4>2. OriginsDone(start, start, {}, number)
          BY DEF OriginsDone, SeedsAdded
        <4>3. left(start) \in Nat
          BY FreeRows
        <4> QED
          BY <2>3, <3>1, <4>1, <4>2, <4>3
      <3> QED
        BY <3>1
    <2>5. Max(T) \in T /\ IsFiniteSet(T)
      <3>1. IsFiniteSet(T) /\ T \subseteq Nat
        BY <1>1, <2>3, FS_Subset
      <3> QED
        BY <2>4, <3>1, Greatest
    <2> DEFINE o == Max(T)
               u == T \ {o}
    <2>6. good(u)
      <3>1. u \in SUBSET S /\ u \notin B
        BY <2>2, <2>3, <2>5
      <3> QED
        BY <3>1
    <2>7. h[T] = OriginMoved(h[u], o, number)
      BY <1>3, <2>3, <2>4
    <2>8. Cardinality(T) \in Nat /\ Cardinality(u) = Cardinality(T) - 1 /\ Cardinality(T) <= Cardinality(S)
      BY <1>1, <2>3, <2>5, OneLess, FS_Subset
    <2>9. RowsTyped(h[u]) /\ SeedsTold(h[u])
      BY <2>6 DEF OriginsDone
    <2>10. left(h[u]) \in Nat /\ left(start) \in Nat
      BY <2>9, FreeRows
    <2> HIDE DEF B, o
    <2>11. left(h[u]) # 0
      <3> HIDE DEF left
      <3> QED
        BY <1>1, <2>6, <2>8, <2>10 DEF left
    <2>12. Free(h[u], NoRow) # {}
      BY <2>11, FS_EmptySet
    <2>13. o \in T /\ o \in Used(start, NoRow) /\ start[o].kind = "origin"
      BY <2>3, <2>5 DEF o
    <2>14. o \in Used(h[u], NoRow) /\ h[u][o] = start[o] /\ V2[start[o].raw] \in DOMAIN number
      BY <2>3, <2>6, <2>13 DEF OriginsDone
    <2>15. OriginDone(h[u], h[T], o, number) /\ left(h[T]) + 1 >= left(h[u])
      <3>1. PICK row : row = h[u]
        OBVIOUS
      <3>2. /\ RowsTyped(row) /\ SeedsTold(row) /\ o \in Used(row, NoRow) /\ row[o].kind = "origin"
            /\ V2[row[o].raw] \in DOMAIN number /\ Free(row, NoRow) # {} /\ h[T] = OriginMoved(row, o, number)
        BY <2>7, <2>9, <2>12, <2>13, <2>14, <3>1
      <3>3. OriginDone(row, h[T], o, number) /\ left(h[T]) + 1 >= left(row)
        BY <3>2, OriginIsDone
      <3> QED
        BY <3>1, <3>3
    <2>16. OriginsDone(start, h[T], T, number)
      <3>1. T \subseteq Used(start, NoRow) /\ OriginsDone(start, h[u], u, number)
        BY <2>3, <2>6
      <3> QED
        BY <3>1, <2>13, <2>15, OneMoreOrigin
    <2>17. left(h[T]) \in Nat
      <3>1. RowsTyped(h[T])
        BY <2>16 DEF OriginsDone
      <3> QED
        BY <3>1, FreeRows
    <2>18. left(h[T]) + Cardinality(T) >= left(start)
      <3>1. left(h[u]) + Cardinality(u) >= left(start) /\ left(h[T]) + 1 >= left(h[u])
        BY <2>6, <2>15
      <3> HIDE DEF left, u
      <3> QED
        BY <3>1, <2>8, <2>10, <2>17
    <2> QED
      BY <2>3, <2>16, <2>18
  <1>5. good(S)
    BY <1>4
  <1> QED
    BY <1>2, <1>5

-----------------------------------------------------------------------------
(***************************************************************************)
(* A group's candidates and their numbers.                                 *)
(***************************************************************************)

LEMMA InjectionExists ==
  ASSUME NEW S, IsFiniteSet(S), NEW T, IsFiniteSet(T), Cardinality(S) <= Cardinality(T)
  PROVE  Injection(S, T) # {}
  <1>1. PICK n, k : n = Cardinality(S) /\ k = Cardinality(T)
    OBVIOUS
  <1>2. n \in Nat /\ k \in Nat /\ n <= k /\ ExistsBijection(1 .. n, S) /\ ExistsBijection(1 .. k, T)
    BY <1>1, FS_CardinalityType
  <1>3. PICK f \in Bijection(1 .. n, S) : TRUE
    BY <1>2 DEF ExistsBijection
  <1>4. PICK g \in Bijection(S, 1 .. n) : TRUE
    BY Fun_BijInverse
  <1>5. PICK h \in Bijection(1 .. k, T) : TRUE
    BY <1>2 DEF ExistsBijection
  <1>6. g \in [S -> 1 .. n] /\ \A a, b \in S : g[a] = g[b] => a = b
    BY Fun_BijectionProperties
  <1>7. h \in [1 .. k -> T] /\ \A a, b \in 1 .. k : h[a] = h[b] => a = b
    BY Fun_BijectionProperties
  <1> DEFINE j == [s \in S |-> h[g[s]]]
  <1>8. \A s \in S : g[s] \in 1 .. k
    BY <1>2, <1>6
  <1>9. j \in [S -> T] /\ \A a, b \in S : j[a] = j[b] => a = b
    BY <1>6, <1>7, <1>8
  <1>10. j \in Injection(S, T)
    BY <1>9, Fun_IsInj
  <1> QED
    BY <1>10

\* The manifest of a historical database that passed the validation.
Ground(m) ==
  /\ m.resource \in [Ids -> {NoResource} \cup ResourceRows] /\ RowsTyped(m.row)
  /\ \A r \in Resources(m) : m.resource[r].version = "V1"
  /\ \A x \in Evidence(m) : Refers(m, x) /\ HistoricRow(m, x)
  /\ OfClass(m, {"candidate_v2_merge"}) = {}
  /\ \A p \in SplitPages(m) : ResolvedPage(m, p)

LEMMA GroundResources ==
  ASSUME NEW m, Ground(m)
  PROVE  /\ DOMAIN m.resource = Ids
         /\ \A r \in Resources(m) : r \in Ids /\ m.resource[r].url \in Urls /\ m.resource[r].version = "V1"
         /\ \A x \in Evidence(m) : x \in Rows /\ m.row[x] \in RowRows /\ m.row[x].raw \in Urls
         /\ \A x \in Evidence(m) : ResourceOf(m, x) \in Resources(m)
         /\ IsFiniteSet(Evidence(m))
  <1>1. DOMAIN m.resource = Ids /\ \A r \in Ids : m.resource[r] \in {NoResource} \cup ResourceRows
    BY DEF Ground
  <1>2. \A r \in Resources(m) : r \in Ids /\ m.resource[r].url \in Urls /\ m.resource[r].version = "V1"
    BY <1>1 DEF Resources, Used, ResourceRows, Ground
  <1>3. \A x \in Evidence(m) : x \in Rows /\ m.row[x] \in RowRows /\ m.row[x].raw \in Urls
    <2>1. PICK row : row = m.row
      OBVIOUS
    <2>2. \A x \in Used(row, NoRow) : x \in Rows /\ row[x] \in RowRows
      BY <2>1, TypedRows DEF Ground
    <2> QED
      BY <2>1, <2>2 DEF Evidence, RowRows
  <1>4. \A x \in Evidence(m) : ResourceOf(m, x) \in Resources(m)
    <2> SUFFICES ASSUME NEW x \in Evidence(m) PROVE ResourceOf(m, x) \in Resources(m)
      OBVIOUS
    <2>1. CASE m.row[x].kind = "origin"
      <3>1. m.row[x].seed \in Evidence(m) /\ m.row[m.row[x].seed].kind = "seed"
        BY <2>1 DEF Ground, Refers
      <3>2. m.row[m.row[x].seed].resource \in Resources(m)
        BY <3>1 DEF Ground, Refers
      <3> QED
        BY <2>1, <3>2 DEF ResourceOf
    <2>2. CASE m.row[x].kind # "origin"
      BY <2>2 DEF Ground, Refers, ResourceOf
    <2> QED
      BY <2>1, <2>2
  <1>5. IsFiniteSet(Evidence(m))
    <2>1. Evidence(m) \in SUBSET Rows
      BY <1>3
    <2> QED
      BY <2>1, Numbers
  <1> QED
    BY <1>1, <1>2, <1>3, <1>4, <1>5

LEMMA ObservedUrls ==
  ASSUME NEW m, Ground(m), NEW r
  PROVE  /\ IsFiniteSet(Observed(m, r)) /\ Observed(m, r) \subseteq Urls /\ NoUrl \notin Observed(m, r)
         /\ \A c \in Observed(m, r) : V2[c] = c
         /\ \A x \in RowsOf(m, r) : V2[m.row[x].raw] # NoUrl => V2[m.row[x].raw] \in Observed(m, r)
  <1>1. RowsOf(m, r) \subseteq Evidence(m)
    BY DEF RowsOf
  <1>2. \A x \in RowsOf(m, r) : m.row[x].raw \in Urls
    BY <1>1, GroundResources
  <1>3. \A u \in Urls : V2[u] \in Urls \cup {NoUrl} /\ (V2[u] # NoUrl => V2[V2[u]] = V2[u])
    BY ReconciliationAssumption
  <1>4. Observed(m, r) \subseteq Urls /\ NoUrl \notin Observed(m, r) /\ \A c \in Observed(m, r) : V2[c] = c
    BY <1>2, <1>3 DEF Observed
  <1>5. IsFiniteSet(Observed(m, r))
    <2> DEFINE f == [x \in RowsOf(m, r) |-> V2[m.row[x].raw]]
    <2>1. IsFiniteSet(RowsOf(m, r))
      BY <1>1, GroundResources, FS_Subset
    <2>2. PICK T : f \in [RowsOf(m, r) -> T]
      <3>1. f \in [RowsOf(m, r) -> {f[x] : x \in RowsOf(m, r)}]
        OBVIOUS
      <3> HIDE DEF f
      <3> QED
        BY <3>1
    <2>3. f \in Surjection(RowsOf(m, r), Range(f))
      <3> HIDE DEF f
      <3> QED
        BY <2>2, Fun_RangeProperties
    <2>4. IsFiniteSet(Range(f))
      BY <2>1, <2>3, FS_Surjection
    <2>5. Observed(m, r) \subseteq Range(f)
      BY DEF Observed, Range
    <2> QED
      BY <2>4, <2>5, FS_Subset
  <1> QED
    BY <1>4, <1>5 DEF Observed

LEMMA CandidateUrls ==
  ASSUME NEW m, Ground(m), NEW r \in Affected(m)
  PROVE  /\ r \in Resources(m) /\ r \in Ids
         /\ IsFiniteSet(Candidates(m, r)) /\ Candidates(m, r) # {}
         /\ Candidates(m, r) \subseteq Urls /\ NoUrl \notin Candidates(m, r)
         /\ \A c \in Candidates(m, r) : V2[c] = c
         /\ \A x \in RowsOf(m, r) : V2[m.row[x].raw] # NoUrl => V2[m.row[x].raw] \in Candidates(m, r)
  <1>1. r \in Resources(m) /\ Class(m, r) \in {"rekey", "split"}
    BY DEF Affected, OfClass
  <1>2. r \in Ids /\ m.resource[r].url \in Urls
    BY <1>1, GroundResources
  <1>3. CASE Observed(m, r) = {}
    <2>1. Baseline(m, r) # NoUrl
      <3>1. Cardinality(Observed(m, r)) = 0
        BY <1>3, FS_EmptySet
      <3> QED
        BY <1>1, <3>1 DEF Class
    <2>2. Baseline(m, r) \in Urls /\ V2[Baseline(m, r)] = Baseline(m, r)
      BY <1>2, <2>1, ReconciliationAssumption DEF Baseline
    <2>3. Candidates(m, r) = {Baseline(m, r)}
      BY <1>3 DEF Candidates
    <2>4. IsFiniteSet(Candidates(m, r))
      BY <2>3, FS_Singleton
    <2>5. \A x \in RowsOf(m, r) : V2[m.row[x].raw] = NoUrl
      BY <1>3, ObservedUrls
    <2> QED
      BY <1>1, <1>2, <2>1, <2>2, <2>3, <2>4, <2>5
  <1>4. CASE Observed(m, r) # {}
    <2>1. Candidates(m, r) = Observed(m, r)
      BY <1>4 DEF Candidates
    <2> QED
      BY <1>1, <1>2, <1>4, <2>1, ObservedUrls
  <1> QED
    BY <1>3, <1>4

\* A resource that is neither affected nor without provenance is called what it is called, and
\* so are its rows.
LEMMA Unaffected ==
  ASSUME NEW m, Ground(m), NEW r \in Resources(m), r \notin Affected(m),
         r \notin OfClass(m, {"insufficient_provenance"})
  PROVE  /\ V2[m.resource[r].url] = m.resource[r].url
         /\ \A x \in RowsOf(m, r) : V2[m.row[x].raw] # NoUrl => V2[m.row[x].raw] = m.resource[r].url
  <1>1. /\ Class(m, r) # "rekey" /\ Class(m, r) # "split" /\ Class(m, r) # "insufficient_provenance"
        /\ Class(m, r) # "candidate_v2_merge"
    BY DEF Affected, OfClass, Ground
  <1>2. Baseline(m, r) = m.resource[r].url /\ Observed(m, r) \subseteq {Baseline(m, r)}
    BY <1>1, Zenon DEF Class
  <1> QED
    BY <1>2, ObservedUrls DEF Baseline

\* A candidate of its own number each: the primary one the group's, the others free ones.
NumbersOf(number, d, r, C) ==
  /\ DOMAIN number = C /\ Numbering(number)
  /\ \A c \in C : number[c] = r \/ number[c] \in Ids \ Resources(d)
  /\ \A b, c \in C : number[b] = number[c] => b = c
  /\ \E c \in C : number[c] = r

LEMMA NumberedOnce ==
  ASSUME NEW m, Ground(m), NEW r \in Affected(m), NEW d, DOMAIN d.resource = Ids, r \in Resources(d),
         NEW C, C = Candidates(m, r), NEW primary \in C,
         Cardinality(C) <= Cardinality(Free(d.resource, NoResource)) + 1,
         NEW number, number = Numbered(d, r, primary, C)
  PROVE  NumbersOf(number, d, r, C)
  <1>1. /\ IsFiniteSet(C) /\ C \subseteq Urls /\ NoUrl \notin C /\ \A c \in C : V2[c] = c
        /\ r \in Ids
    BY CandidateUrls
  <1>2. Free(d.resource, NoResource) = Ids \ Resources(d)
    BY DEF Free, Resources
  <1>3. PICK free : free = Free(d.resource, NoResource)
    OBVIOUS
  <1>4. PICK new : new = C \ {primary}
    OBVIOUS
  <1>5. IsFiniteSet(free) /\ Cardinality(free) \in Nat
    <2>1. free \in SUBSET Ids
      BY <1>2, <1>3
    <2> QED
      BY <2>1, Numbers, FS_CardinalityType
  <1>6. IsFiniteSet(new) /\ Cardinality(new) = Cardinality(C) - 1 /\ Cardinality(C) \in Nat
    BY <1>1, <1>4, OneLess
  <1>7. Cardinality(new) <= Cardinality(free)
    BY <1>3, <1>5, <1>6
  <1>8. PICK f : f = Fresh(d.resource, NoResource, new)
    OBVIOUS
  <1>9. f \in Injection(new, free)
    BY <1>3, <1>5, <1>6, <1>7, <1>8, InjectionExists DEF Fresh
  <1>10. f \in [new -> free] /\ \A b, c \in new : f[b] = f[c] => b = c
    BY <1>9, Fun_InjectionProperties
  <1>11. DOMAIN number = C /\ \A c \in C : number[c] = IF c = primary THEN r ELSE f[c]
    BY <1>4, <1>8 DEF Numbered
  <1>12. \A c \in C \ {primary} : f[c] \in Ids \ Resources(d)
    BY <1>2, <1>3, <1>4, <1>10
  <1>13. Numbering(number)
    BY <1>1, <1>11, <1>12 DEF Numbering
  <1>14. \A b, c \in C : number[b] = number[c] => b = c
    BY <1>4, <1>10, <1>11, <1>12
  <1> QED
    BY <1>11, <1>12, <1>13, <1>14 DEF NumbersOf

\* A resource whose number a candidate has is called by it, and the others are what they were.
LEMMA RenamedOnce ==
  ASSUME NEW number, NEW d, NEW r, NEW C, NumbersOf(number, d, r, C), NEW resource,
         NEW e, e = Renamed(resource, number)
  PROVE  /\ DOMAIN e = Ids
         /\ \A c \in C : e[number[c]] = [version |-> "V2", url |-> c]
         /\ \A i \in Resources(d) \cap Ids : i # r => e[i] = resource[i]
         /\ \A i \in Ids : e[i] = resource[i] \/ e[i] \in [version : {"V2"}, url : Urls]
         /\ \A c \in C : number[c] \in Ids /\ e[number[c]] # NoResource
  <1>1. DOMAIN number = C /\ C \subseteq Urls /\ \A c \in C : number[c] \in Ids
    BY DEF NumbersOf, Numbering
  <1>2. \A i \in Ids : e[i] = IF \E c \in C : number[c] = i
                              THEN [version |-> "V2", url |-> CHOOSE c \in C : number[c] = i]
                              ELSE resource[i]
    BY <1>1 DEF Renamed
  <1>3. \A i \in Ids : (~\E c \in C : number[c] = i) => e[i] = resource[i]
    BY <1>2, Zenon
  <1>4. ASSUME NEW c \in C
        PROVE  e[number[c]] = [version |-> "V2", url |-> c]
    <2>1. (CHOOSE b \in C : number[b] = number[c]) = c
      BY DEF NumbersOf
    <2>2. e[number[c]] = [version |-> "V2", url |-> CHOOSE b \in C : number[b] = number[c]]
      BY <1>1, <1>2, Zenon
    <2> QED
      BY <2>1, <2>2
  <1>5. \A i \in Resources(d) \cap Ids : i # r => e[i] = resource[i]
    BY <1>3 DEF NumbersOf
  <1>6. ASSUME NEW i \in Ids
        PROVE  e[i] = resource[i] \/ e[i] \in [version : {"V2"}, url : Urls]
    <2>1. ASSUME NEW c \in C, number[c] = i
          PROVE  e[i] \in [version : {"V2"}, url : Urls]
      <3>1. e[i] = [version |-> "V2", url |-> c] /\ c \in Urls
        BY <1>1, <1>4, <2>1
      <3> QED
        BY <3>1
    <2> QED
      BY <1>3, <2>1
  <1>7. \A c \in C : e[number[c]] # NoResource
    <2>1. ASSUME NEW c \in C PROVE e[number[c]].version = "V2"
      <3>1. e[number[c]] = [version |-> "V2", url |-> c]
        BY <1>4
      <3> QED
        BY <3>1
    <2>2. NoResource.version = "none"
      BY DEF NoResource
    <2> QED
      BY <2>1, <2>2
  <1>8. DOMAIN e = Ids
    BY DEF Renamed
  <1> QED
    BY <1>1, <1>4, <1>5, <1>6, <1>7, <1>8

-----------------------------------------------------------------------------
(***************************************************************************)
(* One group after the other.                                              *)
(***************************************************************************)

\* A row refers to the current resource of its spelling, and repeats its URL if it repeats one.
Placed(d, x) ==
  /\ d.row[x].resource \in Ids
  /\ d.resource[d.row[x].resource] = [version |-> "V2", url |-> V2[d.row[x].raw]]
  /\ d.row[x].kind \in {"listed", "seed"} => d.row[x].url = V2[d.row[x].raw]

Readable(m, x) == V2[m.row[x].raw] # NoUrl

\* What the groups s of the manifest have made of the relabelled database.
ResourcesDone(m, start, e, s) ==
  /\ e.resource \in [Ids -> {NoResource} \cup ResourceRows]
  /\ \A r \in Resources(m) : r \in Resources(e) /\ (r \notin s => e.resource[r] = start.resource[r])

RowsLeft(m, e, s) ==
  /\ RowsTyped(e.row) /\ Evidence(m) \subseteq Evidence(e)
  /\ \A x \in Evidence(m) : SameSpelling(m.row, e.row, x)
  /\ \A x \in Evidence(m) : ResourceOf(m, x) \notin s \/ ~Readable(m, x) => e.row[x] = m.row[x]

RowsDone(m, e, s) ==
  \A x \in Evidence(m) :
    ResourceOf(m, x) \in s /\ Readable(m, x) =>
      IF m.row[x].kind = "origin" THEN AtItsSeed(e.row, x) ELSE Placed(e, x)

RowsMade(m, e) ==
  \A x \in Evidence(e) \ Evidence(m) : e.row[x].kind = "seed" /\ Placed(e, x) /\ e.row[x].url = e.row[x].raw

GroupsDone(m, start, e, s) ==
  ResourcesDone(m, start, e, s) /\ RowsLeft(m, e, s) /\ RowsDone(m, e, s) /\ RowsMade(m, e)

LEMMA SeedsAreTold ==
  ASSUME NEW m, Ground(m), NEW start, NEW e, NEW s, GroupsDone(m, start, e, s)
  PROVE  SeedsTold(e.row)
  <1> SUFFICES ASSUME NEW x \in Used(e.row, NoRow), e.row[x].kind = "seed"
               PROVE  e.row[x].url \in Urls /\ V2[e.row[x].url] = V2[e.row[x].raw]
    BY DEF SeedsTold
  <1>1. x \in Evidence(e)
    BY DEF Evidence
  <1>2. e.row[x].raw \in Urls
    <2>1. PICK row : row = e.row
      OBVIOUS
    <2>2. row[x] \in RowRows
      BY <2>1, TypedRows DEF GroupsDone, RowsLeft
    <2> QED
      BY <2>1, <2>2 DEF RowRows
  <1>3. CASE x \notin Evidence(m)
    BY <1>1, <1>2, <1>3 DEF GroupsDone, RowsMade
  <1>4. CASE x \in Evidence(m) /\ (ResourceOf(m, x) \notin s \/ ~Readable(m, x))
    <2>1. e.row[x] = m.row[x]
      BY <1>4 DEF GroupsDone, RowsLeft
    <2> QED
      BY <1>2, <1>4, <2>1 DEF Ground, HistoricRow
  <1>5. CASE x \in Evidence(m) /\ ResourceOf(m, x) \in s /\ Readable(m, x)
    <2>1. SameSpelling(m.row, e.row, x)
      BY <1>5 DEF GroupsDone, RowsLeft
    <2>2. Placed(e, x) /\ V2[e.row[x].raw] # NoUrl
      BY <1>5, <2>1 DEF GroupsDone, RowsDone, SameSpelling, Readable
    <2>3. V2[e.row[x].raw] \in Urls /\ V2[V2[e.row[x].raw]] = V2[e.row[x].raw]
      BY <1>2, <2>2, ReconciliationAssumption
    <2> QED
      BY <2>2, <2>3 DEF Placed
  <1> QED
    BY <1>3, <1>4, <1>5

\* The attributions of a group leave rows whose seeds tell.
LEMMA AttributedTyped ==
  ASSUME NEW row, RowsTyped(row), SeedsTold(row), NEW rows, rows \subseteq Used(row, NoRow),
         NEW number, Numbering(number),
         \A x \in rows : V2[row[x].raw] # NoUrl => V2[row[x].raw] \in DOMAIN number,
         NEW e, e = Attributed(row, rows, number)
  PROVE  RowsTyped(e) /\ SeedsTold(e)
  <1>1. RowsShaped(row) /\ \A x \in Used(row, NoRow) : x \in Rows /\ row[x] \in RowRows
    BY TypedRows
  <1>2. /\ RowsShaped(e) /\ Used(e, NoRow) = Used(row, NoRow)
        /\ \A x \in Used(e, NoRow) : e[x].kind = row[x].kind /\ e[x].raw = row[x].raw /\ e[x].seed = row[x].seed
        /\ \A x \in Used(e, NoRow) :
             (x \notin rows \/ row[x].kind = "origin" \/ V2[row[x].raw] = NoUrl) => e[x] = row[x]
        /\ \A x \in rows : row[x].kind # "origin" /\ V2[row[x].raw] # NoUrl =>
             /\ e[x].resource = number[V2[row[x].raw]]
             /\ e[x].url = IF row[x].kind = "plain" THEN row[x].url ELSE V2[row[x].raw]
    BY <1>1, RowsAttributed DEF Following
  <1> DEFINE follows(x) == x \in rows /\ row[x].kind # "origin" /\ V2[row[x].raw] # NoUrl
  <1>3. ASSUME NEW x \in Used(e, NoRow), follows(x)
        PROVE  e[x] \in RowRows /\ (e[x].kind = "seed" => e[x].url \in Urls /\ V2[e[x].url] = V2[e[x].raw])
    <2>1. V2[row[x].raw] \in Urls /\ V2[V2[row[x].raw]] = V2[row[x].raw] /\ number[V2[row[x].raw]] \in Ids
      BY <1>3 DEF Numbering
    <2>2. x \in Used(row, NoRow) /\ row[x] \in RowRows
      BY <1>1, <1>2
    <2>3. /\ row[x].kind \in Kinds /\ row[x].raw \in Urls /\ row[x].url \in Urls \cup {NoUrl}
          /\ row[x].seed \in Rows \cup {0}
      BY <2>2 DEF RowRows
    <2>4. /\ e[x].kind = row[x].kind /\ e[x].raw = row[x].raw /\ e[x].seed = row[x].seed
          /\ e[x].resource = number[V2[row[x].raw]]
          /\ e[x].url = IF row[x].kind = "plain" THEN row[x].url ELSE V2[row[x].raw]
      BY <1>2, <1>3
    <2>5. e[x] = [kind |-> e[x].kind, raw |-> e[x].raw, url |-> e[x].url, resource |-> e[x].resource,
                  seed |-> e[x].seed]
      BY <1>2, UsedRows DEF IsRow
    <2>6. e[x].kind \in Kinds /\ e[x].raw \in Urls /\ e[x].url \in Urls \cup {NoUrl}
          /\ e[x].resource \in Ids \cup {0} /\ e[x].seed \in Rows \cup {0}
      BY <2>1, <2>3, <2>4
    <2>7. e[x] \in RowRows
      BY <2>5, <2>6 DEF RowRows
    <2> QED
      BY <2>1, <2>4, <2>7
  <1>4. ASSUME NEW x \in Used(e, NoRow), ~follows(x)
        PROVE  e[x] = row[x] /\ row[x] \in RowRows /\ x \in Used(row, NoRow)
    BY <1>1, <1>2, <1>4
  <1>5. RowsTyped(e)
    <2>1. e = [x \in Rows |-> e[x]]
      BY <1>2 DEF RowsShaped
    <2>2. \A x \in Rows : e[x] \in {NoRow} \cup RowRows
      <3> TAKE x \in Rows
      <3>1. CASE x \in Used(e, NoRow)
        BY <1>3, <1>4, <3>1
      <3>2. CASE x \notin Used(e, NoRow)
        BY <2>1, <3>2 DEF Used
      <3> QED
        BY <3>1, <3>2
    <2> QED
      BY <2>1, <2>2 DEF RowsTyped
  <1>6. SeedsTold(e)
    <2> SUFFICES ASSUME NEW x \in Used(e, NoRow), e[x].kind = "seed"
                 PROVE  e[x].url \in Urls /\ V2[e[x].url] = V2[e[x].raw]
      BY DEF SeedsTold
    <2>1. CASE follows(x)
      BY <1>3, <2>1
    <2>2. CASE ~follows(x)
      <3>1. e[x] = row[x] /\ x \in Used(row, NoRow)
        BY <1>4, <2>2
      <3> QED
        BY <3>1 DEF SeedsTold
    <2> QED
      BY <2>1, <2>2
  <1> QED
    BY <1>5, <1>6

\* What one group makes of the rows and resources.
GroupMade(m, e, f, r, number) ==
  LET rows == RowsOf(m, r)
      row == Attributed(e.row, rows, number)
  IN /\ f.resource = Renamed(e.resource, number)
     /\ f.row = OriginsMoved(row, Origins(m, rows), number)

LEMMA PrimaryIsOne ==
  ASSUME NEW m, Ground(m), NEW r \in Affected(m)
  PROVE  LET chosen == Primaries(m, r)
             primary == IF Class(m, r) = "split" /\ chosen # {} THEN CHOOSE c \in chosen : TRUE
                        ELSE CHOOSE c \in Candidates(m, r) : TRUE
         IN primary \in Candidates(m, r)
  <1>1. Candidates(m, r) # {}
    BY CandidateUrls
  <1>2. ASSUME Class(m, r) = "split", NEW c \in Primaries(m, r)
        PROVE  c \in Candidates(m, r)
    <2>1. PICK p \in PagesAt(m, r) : c = m.decision[p].primary
      BY <1>2 DEF Primaries
    <2>2. p \in SplitPages(m) /\ m.page[p].resource = r
      BY <1>2, <2>1 DEF PagesAt, SplitPages
    <2>3. ResolvedPage(m, p)
      BY <2>2 DEF Ground
    <2> QED
      BY <2>1, <2>2, <2>3 DEF ResolvedPage
  <1> QED
    BY <1>1, <1>2

LEMMA GroupIsMade ==
  ASSUME NEW m, Ground(m), NEW r \in Affected(m), NEW e, Shaped(e), r \in Resources(e), Evidence(m) \subseteq Evidence(e),
         NEW f, f = GroupApplied(m, e, r), f # Failed
  PROVE  \E number : /\ NumbersOf(number, e, r, Candidates(m, r)) /\ GroupMade(m, e, f, r, number)
                     /\ Cardinality(Origins(m, RowsOf(m, r))) <= Cardinality(Free(e.row, NoRow))
  <1>1. PICK C : C = Candidates(m, r)
    OBVIOUS
  <1>2. PICK primary : primary = IF Class(m, r) = "split" /\ Primaries(m, r) # {}
                                 THEN CHOOSE c \in Primaries(m, r) : TRUE
                                 ELSE CHOOSE c \in Candidates(m, r) : TRUE
    OBVIOUS
  <1>3. primary \in C
    BY <1>1, <1>2, PrimaryIsOne
  <1>4. PICK number : number = Numbered(e, r, primary, C)
    OBVIOUS
  <1>5. PICK origins : origins = Origins(m, RowsOf(m, r))
    OBVIOUS
  <1>6. PICK page : page = IF Class(m, r) = "split"
                           THEN PagesSplit(e.page, m, PagesAt(m, r), number)
                           ELSE e.page
    OBVIOUS
  <1>7. PICK row : row = OriginsMoved(Attributed(e.row, RowsOf(m, r), number), origins, number)
    OBVIOUS
  <1>8. PICK resource : resource = Renamed(e.resource, number)
    OBVIOUS
  <1>9. Fits(e, C, origins) /\ f = Rewrite(e, resource, row, page)
    BY <1>1, <1>2, <1>4, <1>5, <1>6, <1>7, <1>8 DEF GroupApplied, Rewrite
  <1>10. IsDatabase(e)
    BY DEF Shaped
  <1>11. f.resource = resource /\ f.row = row
    BY <1>9, <1>10, Rewritten
  <1>12. GroupMade(m, e, f, r, number)
    BY <1>5, <1>7, <1>8, <1>11 DEF GroupMade
  <1>13. /\ Cardinality(C) <= Cardinality(Free(e.resource, NoResource)) + 1
         /\ Cardinality(origins) <= Cardinality(Free(e.row, NoRow))
    BY <1>9 DEF Fits
  <1>14. DOMAIN e.resource = Ids
    BY DEF Shaped
  <1>15. NumbersOf(number, e, r, C)
    BY <1>1, <1>3, <1>4, <1>13, <1>14, NumberedOnce
  <1> QED
    BY <1>1, <1>5, <1>12, <1>13, <1>15

\* A resource in use that is not the group's is left alone.
LEMMA OthersKept ==
  ASSUME NEW m, NEW e, NEW f, NEW r, NEW number, NEW C, NumbersOf(number, e, r, C),
         DOMAIN e.resource = Ids, e.resource[r].version = "V1", GroupMade(m, e, f, r, number),
         NEW k \in Ids, NEW url, e.resource[k] = [version |-> "V2", url |-> url]
  PROVE  f.resource[k] = e.resource[k]
  <1>1. e.resource[k].version = "V2" /\ NoResource.version = "none"
    BY DEF NoResource
  <1>2. k # r /\ k \in Resources(e)
    BY <1>1 DEF Resources, Used
  <1>3. f.resource = Renamed(e.resource, number)
    BY DEF GroupMade
  <1>4. \A i \in Resources(e) \cap Ids : i # r => f.resource[i] = e.resource[i]
    BY <1>3, RenamedOnce
  <1> QED
    BY <1>2, <1>4

\* The rows of a group, before and after its origins have moved.
RowsMoved(m, row, after, rows, number) ==
  /\ RowsTyped(after) /\ Used(row, NoRow) \subseteq Used(after, NoRow)
  /\ \A x \in Used(row, NoRow) : x \notin rows \/ ~Readable(m, x) => after[x] = row[x]
  /\ \A x \in rows : Readable(m, x) =>
       /\ SameSpelling(row, after, x)
       /\ IF m.row[x].kind = "origin" THEN AtItsSeed(after, x)
          ELSE /\ after[x].resource = number[V2[row[x].raw]]
               /\ row[x].kind # "plain" => after[x].url = V2[row[x].raw]
  /\ \A x \in Used(row, NoRow) : SameSpelling(row, after, x)
  /\ SeedsAdded(row, after, number)

LEMMA RowsAreMoved ==
  ASSUME NEW m, Ground(m), NEW start, NEW e, NEW s, GroupsDone(m, start, e, s), NEW r \in Affected(m),
         NEW f, NEW number, NumbersOf(number, e, r, Candidates(m, r)), GroupMade(m, e, f, r, number),
         Cardinality(Origins(m, RowsOf(m, r))) <= Cardinality(Free(e.row, NoRow))
  PROVE  RowsMoved(m, e.row, f.row, RowsOf(m, r), number)
  <1>1. PICK row : row = e.row
    OBVIOUS
  <1>2. PICK rows : rows = RowsOf(m, r)
    OBVIOUS
  <1>3. PICK origins : origins = Origins(m, rows)
    OBVIOUS
  <1>4. PICK mid : mid = Attributed(row, rows, number)
    OBVIOUS
  <1>5. PICK after : after = f.row
    OBVIOUS
  <1>6. after = OriginsMoved(mid, origins, number)
    BY <1>1, <1>2, <1>3, <1>4, <1>5 DEF GroupMade
  <1>7. RowsTyped(row) /\ SeedsTold(row)
    BY <1>1, SeedsAreTold DEF GroupsDone, RowsLeft
  <1>8. /\ rows \subseteq Used(row, NoRow) /\ rows \subseteq Evidence(m)
        /\ \A x \in Evidence(m) : SameSpelling(m.row, row, x) /\ x \in Used(row, NoRow)
    BY <1>1, <1>2 DEF GroupsDone, RowsLeft, RowsOf, Evidence
  <1>9. Numbering(number) /\ DOMAIN number = Candidates(m, r)
    BY DEF NumbersOf
  <1>10. \A x \in rows : V2[row[x].raw] # NoUrl => V2[row[x].raw] \in DOMAIN number
    BY <1>2, <1>8, <1>9, CandidateUrls DEF SameSpelling
  <1>11. RowsTyped(mid) /\ SeedsTold(mid)
    BY <1>4, <1>7, <1>8, <1>9, <1>10, AttributedTyped
  <1>12. /\ Used(mid, NoRow) = Used(row, NoRow)
         /\ \A x \in Used(row, NoRow) : SameSpelling(row, mid, x)
         /\ \A x \in Used(row, NoRow) :
              (x \notin rows \/ row[x].kind = "origin" \/ V2[row[x].raw] = NoUrl) => mid[x] = row[x]
         /\ \A x \in rows : row[x].kind # "origin" /\ V2[row[x].raw] # NoUrl =>
              /\ mid[x].resource = number[V2[row[x].raw]]
              /\ mid[x].url = IF row[x].kind = "plain" THEN row[x].url ELSE V2[row[x].raw]
    <2>1. RowsShaped(row)
      BY <1>7, TypedRows
    <2>2. rows \subseteq Used(row, NoRow)
      BY <1>8
    <2>3. Following(row, mid, rows, number)
      BY <2>1, <2>2, <1>4, RowsAttributed
    <2> QED
      BY <2>3 DEF SameSpelling, Following
  <1>13. \A x \in origins : x \in rows /\ m.row[x].kind = "origin" /\ Readable(m, x)
    BY <1>3 DEF Origins, Readable
  <1>14. /\ origins \subseteq Used(mid, NoRow)
         /\ \A o \in origins : mid[o].kind = "origin" /\ V2[mid[o].raw] \in DOMAIN number
    BY <1>8, <1>10, <1>12, <1>13 DEF SameSpelling, Readable
  <1>15. Cardinality(origins) <= Cardinality(Free(mid, NoRow))
    <2>1. Free(mid, NoRow) = Free(row, NoRow)
      BY <1>7, <1>11, <1>12, FreeRows
    <2> QED
      BY <1>1, <1>2, <1>3, <2>1
  <1>16. OriginsDone(mid, after, origins, number)
    BY <1>6, <1>9, <1>11, <1>14, <1>15, OriginsAreDone
  <1>17. \A x \in Used(row, NoRow) \ origins : after[x] = mid[x]
    BY <1>12, <1>16 DEF OriginsDone
  <1>18. \A x \in Used(row, NoRow) : SameSpelling(row, after, x)
    <2> TAKE x \in Used(row, NoRow)
    <2>1. CASE x \in origins
      BY <1>12, <1>16, <2>1 DEF OriginsDone, SameSpelling
    <2>2. CASE x \notin origins
      BY <1>12, <1>17, <2>2 DEF SameSpelling
    <2> QED
      BY <2>1, <2>2
  <1>19. \A x \in Used(row, NoRow) : x \notin rows \/ ~Readable(m, x) => after[x] = row[x]
    <2> SUFFICES ASSUME NEW x \in Used(row, NoRow), x \notin rows \/ ~Readable(m, x)
                 PROVE  after[x] = row[x]
      OBVIOUS
    <2>1. x \notin origins
      BY <1>13
    <2>2. x \in rows => V2[row[x].raw] = NoUrl
      BY <1>8 DEF SameSpelling, Readable
    <2> QED
      BY <1>12, <1>17, <2>1, <2>2
  <1>20. ASSUME NEW x \in rows, Readable(m, x)
         PROVE  IF m.row[x].kind = "origin" THEN AtItsSeed(after, x)
                ELSE /\ after[x].resource = number[V2[row[x].raw]]
                     /\ row[x].kind # "plain" => after[x].url = V2[row[x].raw]
    <2>1. CASE m.row[x].kind = "origin"
      <3>1. x \in origins
        BY <1>3, <1>20, <2>1 DEF Origins, Readable
      <3> QED
        BY <1>16, <2>1, <3>1 DEF OriginsDone
    <2>2. CASE m.row[x].kind # "origin"
      <3>1. x \notin origins /\ row[x].kind # "origin" /\ V2[row[x].raw] # NoUrl /\ x \in Used(row, NoRow)
        BY <1>8, <1>13, <1>20, <2>2 DEF SameSpelling, Readable
      <3>2. after[x] = mid[x]
        BY <1>17, <3>1
      <3> QED
        BY <1>12, <2>2, <3>1, <3>2
    <2> QED
      BY <2>1, <2>2
  <1>21. RowsTyped(after) /\ Used(row, NoRow) \subseteq Used(after, NoRow) /\ SeedsAdded(row, after, number)
    BY <1>12, <1>16 DEF OriginsDone, SeedsAdded
  <1>22. RowsMoved(m, row, after, rows, number)
    BY <1>8, <1>18, <1>19, <1>20, <1>21 DEF RowsMoved
  <1> QED
    BY <1>1, <1>2, <1>5, <1>22

LEMMA ResourcesStep ==
  ASSUME NEW m, Ground(m), NEW start, NEW e, NEW s, ResourcesDone(m, start, e, s), NEW r \in Affected(m),
         NEW f, NEW number, NumbersOf(number, e, r, Candidates(m, r)), GroupMade(m, e, f, r, number)
  PROVE  ResourcesDone(m, start, f, s \cup {r})
  <1>1. PICK C : C = Candidates(m, r)
    OBVIOUS
  <1>2. PICK old, new : old = e.resource /\ new = f.resource
    OBVIOUS
  <1>3. new = Renamed(old, number) /\ NumbersOf(number, e, r, C)
    BY <1>1, <1>2 DEF GroupMade
  <1>4. /\ DOMAIN new = Ids
        /\ \A c \in C : number[c] \in Ids /\ new[number[c]] # NoResource
        /\ \A i \in Resources(e) \cap Ids : i # r => new[i] = old[i]
        /\ \A i \in Ids : new[i] = old[i] \/ new[i] \in [version : {"V2"}, url : Urls]
    BY <1>3, RenamedOnce
  <1>5. new \in [Ids -> {NoResource} \cup ResourceRows]
    <2>1. \A i \in Ids : old[i] \in {NoResource} \cup ResourceRows
      BY <1>2 DEF ResourcesDone
    <2>2. [version : {"V2"}, url : Urls] \subseteq ResourceRows
      BY DEF ResourceRows
    <2>3. \A i \in Ids : new[i] \in {NoResource} \cup ResourceRows
      BY <1>4, <2>1, <2>2
    <2>4. new = [i \in Ids |-> new[i]]
      BY <1>3 DEF Renamed
    <2> QED
      BY <2>3, <2>4
  <1>6. ASSUME NEW k \in Resources(m)
        PROVE  k \in Used(new, NoResource) /\ (k \notin s \cup {r} => new[k] = start.resource[k])
    <2>1. k \in Resources(e) /\ k \in Ids /\ k \in Used(old, NoResource)
      BY <1>2, GroundResources DEF ResourcesDone, Resources
    <2>2. CASE k = r
      <3>1. PICK c \in C : number[c] = r
        BY <1>3 DEF NumbersOf
      <3> QED
        BY <1>4, <2>1, <2>2, <3>1 DEF Used
    <2>3. CASE k # r
      <3>1. new[k] = old[k]
        BY <1>4, <2>1, <2>3
      <3> QED
        BY <1>2, <1>4, <2>1, <2>3, <3>1 DEF Used, ResourcesDone
    <2> QED
      BY <2>2, <2>3
  <1> QED
    BY <1>2, <1>5, <1>6 DEF ResourcesDone, Resources

\* What was placed stays so.
LEMMA StillPlaced ==
  ASSUME NEW m, NEW e, NEW f, NEW r, NEW number, NEW C, NumbersOf(number, e, r, C),
         DOMAIN e.resource = Ids, e.resource[r].version = "V1", GroupMade(m, e, f, r, number),
         NEW x, Placed(e, x), f.row[x] = e.row[x]
  PROVE  Placed(f, x)
  <1>1. e.row[x].resource \in Ids
        /\ e.resource[e.row[x].resource] = [version |-> "V2", url |-> V2[e.row[x].raw]]
    BY DEF Placed
  <1>2. f.resource[e.row[x].resource] = e.resource[e.row[x].resource]
    BY <1>1, OthersKept
  <1> QED
    BY <1>2 DEF Placed

LEMMA GroupStep ==
  ASSUME NEW m, Ground(m), NEW start, NEW e, Shaped(e), NEW s, GroupsDone(m, start, e, s),
         NEW r \in Affected(m), r \notin s, start.resource[r] = m.resource[r],
         NEW f, f = GroupApplied(m, e, r), f # Failed
  PROVE  GroupsDone(m, start, f, s \cup {r})
  <1>1. r \in Resources(m) /\ m.resource[r].version = "V1"
    BY CandidateUrls, GroundResources
  <1>2. r \in Resources(e) /\ e.resource[r].version = "V1" /\ DOMAIN e.resource = Ids
    BY <1>1 DEF GroupsDone, ResourcesDone, Shaped
  <1>3. PICK C : C = Candidates(m, r)
    OBVIOUS
  <1>4. PICK number : /\ NumbersOf(number, e, r, Candidates(m, r)) /\ GroupMade(m, e, f, r, number)
                      /\ Cardinality(Origins(m, RowsOf(m, r))) <= Cardinality(Free(e.row, NoRow))
    <2>1. Evidence(m) \subseteq Evidence(e)
      BY DEF GroupsDone, RowsLeft
    <2> QED
      BY <1>2, <2>1, GroupIsMade
  <1>5. ResourcesDone(m, start, f, s \cup {r})
    BY <1>4, ResourcesStep DEF GroupsDone
  <1>6. PICK rows : rows = RowsOf(m, r)
    OBVIOUS
  <1>7. RowsMoved(m, e.row, f.row, rows, number)
    BY <1>4, <1>6, RowsAreMoved
  <1>8. \A x \in Evidence(m) : x \in Evidence(e) /\ x \in Used(e.row, NoRow) /\ SameSpelling(m.row, e.row, x)
                               /\ (x \in rows <=> ResourceOf(m, x) = r)
    BY <1>6 DEF GroupsDone, RowsLeft, RowsOf, Evidence
  <1>9. \A x \in Evidence(m) : SameSpelling(m.row, f.row, x)
    BY <1>7, <1>8 DEF RowsMoved, SameSpelling
  <1>10. RowsLeft(m, f, s \cup {r})
    <2>1. Evidence(m) \subseteq Evidence(f) /\ RowsTyped(f.row)
      BY <1>7, <1>8 DEF RowsMoved, Evidence
    <2>2. ASSUME NEW x \in Evidence(m), ResourceOf(m, x) \notin s \cup {r} \/ ~Readable(m, x)
          PROVE  f.row[x] = m.row[x]
      <3>1. f.row[x] = e.row[x]
        BY <1>7, <1>8, <2>2 DEF RowsMoved
      <3>2. e.row[x] = m.row[x]
        BY <2>2 DEF GroupsDone, RowsLeft
      <3> QED
        BY <3>1, <3>2
    <2> QED
      BY <1>9, <2>1, <2>2 DEF RowsLeft
  <1>11. RowsDone(m, f, s \cup {r})
    <2> SUFFICES ASSUME NEW x \in Evidence(m), ResourceOf(m, x) \in s \cup {r}, Readable(m, x)
                 PROVE  IF m.row[x].kind = "origin" THEN AtItsSeed(f.row, x) ELSE Placed(f, x)
      BY DEF RowsDone
    <2>1. CASE ResourceOf(m, x) = r
      <3>1. x \in rows /\ SameSpelling(e.row, f.row, x) /\ SameSpelling(m.row, e.row, x)
        BY <1>7, <1>8, <2>1 DEF RowsMoved
      <3>2. CASE m.row[x].kind = "origin"
        BY <1>7, <3>1, <3>2 DEF RowsMoved
      <3>3. CASE m.row[x].kind # "origin"
        <4>1. /\ f.row[x].resource = number[V2[e.row[x].raw]]
              /\ e.row[x].kind # "plain" => f.row[x].url = V2[e.row[x].raw]
          BY <1>7, <3>1, <3>3 DEF RowsMoved
        <4>2. V2[e.row[x].raw] \in C /\ V2[e.row[x].raw] = V2[f.row[x].raw] /\ f.row[x].kind = e.row[x].kind
          BY <1>3, <1>6, <3>1, CandidateUrls DEF SameSpelling, Readable
        <4>3. /\ number[V2[e.row[x].raw]] \in Ids
              /\ f.resource[number[V2[e.row[x].raw]]] = [version |-> "V2", url |-> V2[e.row[x].raw]]
          <5> DEFINE c == V2[e.row[x].raw]
          <5>1. NumbersOf(number, e, r, C) /\ f.resource = Renamed(e.resource, number)
            BY <1>3, <1>4 DEF GroupMade
          <5>2. PICK u : u = c
            OBVIOUS
          <5>3. u \in C
            BY <4>2, <5>2
          <5>4. number[u] \in Ids /\ f.resource[number[u]] = [version |-> "V2", url |-> u]
            BY <5>1, <5>3, RenamedOnce
          <5> QED
            BY <5>2, <5>4
        <4> QED
          BY <3>3, <4>1, <4>2, <4>3 DEF Placed
      <3> QED
        BY <3>2, <3>3
    <2>2. CASE ResourceOf(m, x) # r
      <3>1. ResourceOf(m, x) \in s /\ f.row[x] = e.row[x]
        BY <1>7, <1>8, <2>2 DEF RowsMoved
      <3>2. CASE m.row[x].kind = "origin"
        <4>1. AtItsSeed(e.row, x)
          BY <3>1, <3>2 DEF GroupsDone, RowsDone
        <4>2. SameSpelling(e.row, f.row, e.row[x].seed) /\ e.row[x].seed \in Used(f.row, NoRow)
          BY <1>7, <4>1 DEF RowsMoved, AtItsSeed
        <4> QED
          BY <3>1, <3>2, <4>1, <4>2 DEF AtItsSeed, SameSpelling
      <3>3. CASE m.row[x].kind # "origin"
        <4>1. Placed(e, x)
          BY <3>1, <3>3 DEF GroupsDone, RowsDone
        <4>2. NumbersOf(number, e, r, C)
          BY <1>3, <1>4
        <4>3. Placed(f, x)
          BY <1>2, <1>4, <3>1, <4>1, <4>2, StillPlaced
        <4> QED
          BY <3>3, <4>3
      <3> QED
        BY <3>2, <3>3
    <2> QED
      BY <2>1, <2>2
  <1>12. RowsMade(m, f)
    <2> SUFFICES ASSUME NEW x \in Evidence(f), x \notin Evidence(m)
                 PROVE  f.row[x].kind = "seed" /\ Placed(f, x) /\ f.row[x].url = f.row[x].raw
      BY DEF RowsMade
    <2>1. CASE x \in Evidence(e)
      <3>1. x \notin rows /\ x \in Used(e.row, NoRow)
        BY <1>6, <2>1 DEF RowsOf, Evidence
      <3>2. f.row[x] = e.row[x]
        BY <1>7, <3>1 DEF RowsMoved
      <3>3. e.row[x].kind = "seed" /\ Placed(e, x) /\ e.row[x].url = e.row[x].raw
        BY <2>1 DEF GroupsDone, RowsMade
      <3>4. NumbersOf(number, e, r, C)
        BY <1>3, <1>4
      <3>5. Placed(f, x)
        BY <1>2, <1>4, <3>2, <3>3, <3>4, StillPlaced
      <3> QED
        BY <3>2, <3>3, <3>5
    <2>2. CASE x \notin Evidence(e)
      <3>1. PICK c \in DOMAIN number : f.row[x] = NewSeed(c, number[c])
        BY <1>7, <2>2 DEF RowsMoved, SeedsAdded, Evidence
      <3>2. DOMAIN number = C /\ V2[c] = c /\ NumbersOf(number, e, r, C) /\ f.resource = Renamed(e.resource, number)
        BY <1>3, <1>4 DEF NumbersOf, Numbering, GroupMade
      <3>3. number[c] \in Ids /\ f.resource[number[c]] = [version |-> "V2", url |-> c]
        BY <3>2, RenamedOnce
      <3>4. f.row[x].kind = "seed" /\ f.row[x].url = c /\ f.row[x].raw = c /\ f.row[x].resource = number[c]
        BY <3>1 DEF NewSeed
      <3> QED
        BY <3>2, <3>3, <3>4 DEF Placed
    <2> QED
      BY <2>1, <2>2
  <1> QED
    BY <1>5, <1>10, <1>11, <1>12 DEF GroupsDone

LEMMA NothingDone ==
  ASSUME NEW m, Ground(m), NEW start, start.row = m.row,
         start.resource \in [Ids -> {NoResource} \cup ResourceRows], Resources(m) \subseteq Resources(start)
  PROVE  GroupsDone(m, start, start, {})
  <1>1. Evidence(start) = Evidence(m) /\ RowsTyped(start.row)
    BY DEF Evidence, Ground
  <1>2. ResourcesDone(m, start, start, {})
    BY DEF ResourcesDone
  <1>3. RowsLeft(m, start, {})
    BY <1>1 DEF RowsLeft, SameSpelling
  <1> QED
    BY <1>1, <1>2, <1>3 DEF GroupsDone, RowsDone, RowsMade

LEMMA GroupsAreDone ==
  ASSUME NEW m, Ground(m), NEW start, Shaped(start), start.row = m.row,
         start.resource \in [Ids -> {NoResource} \cup ResourceRows], Resources(m) \subseteq Resources(start),
         \A r \in Affected(m) : start.resource[r] = m.resource[r],
         NEW done, done = GroupsApplied(m, start, Affected(m)), done # Failed
  PROVE  GroupsDone(m, start, done, Affected(m)) /\ Kept(start, done)
  <1>1. PICK S : S = Affected(m)
    OBVIOUS
  <1>2. S \subseteq Ids /\ IsFiniteSet(S) /\ S \subseteq Nat
    <2>1. S \subseteq Ids
      BY <1>1, CandidateUrls
    <2> QED
      BY <2>1, Numbers
  <1>3. PICK h : Grouped(h, start, m, SUBSET S) /\ GroupsApplied(m, start, S) = h[S]
    BY <1>2, GroupsAreApplied
  <1>4. \A s \in SUBSET S : h[s] = IF s = {} THEN start ELSE GroupApplied(m, h[s \ {Max(s)}], Max(s))
    BY <1>3, Zenon DEF Grouped
  <1>5. Kept(start, start)
    BY DEF Kept, SameRest
  <1>6. Evidence(m) \subseteq Evidence(start)
    BY DEF Evidence
  <1> DEFINE Is(s) == GroupsDone(m, start, h[s], s) /\ Kept(start, h[s])
             B == {s \in SUBSET S : h[s] # Failed /\ ~Is(s)}
  <1>7. B = {}
    <2>1. SUFFICES ASSUME B # {} PROVE FALSE
      OBVIOUS
    <2>2. PICK T \in B : \A x \in T : T \ {x} \notin B
      <3>1. B \subseteq SUBSET S
        OBVIOUS
      <3> HIDE DEF B
      <3> QED
        BY <1>2, <2>1, <3>1, Descent
    <2>3. T \subseteq S /\ h[T] # Failed /\ ~Is(T)
      OBVIOUS
    <2>4. T # {}
      <3>1. ASSUME T = {} PROVE FALSE
        <4>1. h[T] = start
          BY <1>4, <3>1
        <4>2. GroupsDone(m, start, start, {})
          BY NothingDone
        <4> QED
          BY <1>5, <2>3, <3>1, <4>1, <4>2
      <3> QED
        BY <3>1
    <2>5. Max(T) \in T
      <3>1. IsFiniteSet(T) /\ T \subseteq Nat
        BY <1>2, <2>3, FS_Subset
      <3> QED
        BY <2>4, <3>1, Greatest
    <2>6. PICK u, r : u = T \ {Max(T)} /\ r = Max(T)
      OBVIOUS
    <2>7. h[T] = GroupApplied(m, h[u], r)
      BY <1>4, <2>3, <2>4, <2>6
    <2>8. h[u] # Failed
      <3>1. GroupApplied(m, Failed, r) = Failed
        BY Zenon DEF GroupApplied
      <3> QED
        BY <2>3, <2>7, <3>1
    <2>9. Is(u)
      <3>1. u \in SUBSET S /\ u \notin B
        BY <2>2, <2>3, <2>5, <2>6
      <3> QED
        BY <3>1, <2>8
    <2>10. r \in Affected(m) /\ r \notin u /\ u \cup {r} = T
      BY <1>1, <2>3, <2>5, <2>6
    <2> HIDE DEF B
    <2>11. PICK e, f : e = h[u] /\ f = h[T]
      OBVIOUS
    <2>12. GroupsDone(m, start, e, u) /\ Kept(start, e) /\ f = GroupApplied(m, e, r) /\ f # Failed
      BY <2>3, <2>7, <2>9, <2>11
    <2>13. Shaped(e) /\ Evidence(m) \subseteq Evidence(e)
      BY <1>6, <2>12 DEF Kept
    <2>14. Kept(e, f)
      BY <2>12, <2>13, GroupKept
    <2>15. Kept(start, f)
      BY <2>12, <2>14, KeptTransitive
    <2>16. GroupsDone(m, start, f, u \cup {r})
      BY <2>10, <2>12, <2>13, GroupStep
    <2> QED
      BY <2>3, <2>10, <2>11, <2>15, <2>16
  <1>8. S \in SUBSET S /\ h[S] = done
    BY <1>1, <1>3
  <1>9. Is(S)
    BY <1>7, <1>8
  <1> QED
    BY <1>1, <1>8, <1>9

-----------------------------------------------------------------------------
(***************************************************************************)
(* What the transaction makes agrees.                                      *)
(***************************************************************************)

\* A row in order, whatever it is.
InOrderRow(d, x) == Refers(d, x) /\ AgreeingRow(d, x)

LEMMA PlacedAgrees ==
  ASSUME NEW d, NEW x, DOMAIN d.resource = Ids, Placed(d, x), d.row[x].kind # "origin"
  PROVE  InOrderRow(d, x)
  <1>1. PICK r : r = d.row[x].resource
    OBVIOUS
  <1>2. PICK u : u = V2[d.row[x].raw]
    OBVIOUS
  <1>3. /\ r \in Ids /\ d.resource[r] = [version |-> "V2", url |-> u]
        /\ d.row[x].kind \in {"listed", "seed"} => d.row[x].url = u
    BY <1>1, <1>2 DEF Placed
  <1>4. d.resource[r].version = "V2" /\ d.resource[r].url = u
    BY <1>3
  <1>5. r \in Resources(d)
    <2>1. NoResource.version = "none"
      BY DEF NoResource
    <2>2. d.resource[r] # NoResource
      BY <1>4, <2>1
    <2> QED
      BY <1>3, <2>2 DEF Resources, Used
  <1> QED
    BY <1>1, <1>2, <1>3, <1>4, <1>5 DEF InOrderRow, Refers, AgreeingRow

LEMMA AtItsSeedAgrees ==
  ASSUME NEW d, NEW x, d.row[x].kind = "origin", AtItsSeed(d.row, x)
  PROVE  InOrderRow(d, x)
  BY DEF InOrderRow, Refers, AgreeingRow, AtItsSeed, Evidence

\* The resources before the first group.
LEMMA RelabelledResources ==
  ASSUME NEW m, NEW d, Typed(d), NEW start, start = Relabelled(m, d)
  PROVE  /\ IsDatabase(start) /\ SameRest(d, start) /\ start.row = d.row
         /\ start.resource \in [Ids -> {NoResource} \cup ResourceRows]
         /\ Resources(d) \subseteq Resources(start)
         /\ \A r \in Affected(m) \cap Ids : start.resource[r] = d.resource[r]
         /\ \A r \in Resources(d) : start.resource[r].url = d.resource[r].url
         /\ \A r \in Resources(d) : r \in OfClass(m, {"insufficient_provenance"}) => start.resource[r] = d.resource[r]
  <1>1. PICK other : other = Affected(m) \cup OfClass(m, {"insufficient_provenance"})
    OBVIOUS
  <1>2. PICK old : old = d.resource
    OBVIOUS
  <1>3. PICK new : new = [r \in Ids |-> IF old[r].version = "V1" /\ r \notin other
                                       THEN [old[r] EXCEPT !.version = "V2"] ELSE old[r]]
    OBVIOUS
  <1>4. start = [d EXCEPT !.resource = new]
    BY <1>1, <1>2, <1>3 DEF Relabelled
  <1>5. start = [resource |-> new, row |-> d.row, page |-> d.page, derived |-> d.derived, job |-> d.job,
                 worker |-> d.worker, active |-> d.active, required |-> d.required, migration |-> d.migration,
                 status |-> d.status, fingerprint |-> d.fingerprint]
    BY <1>4 DEF IsDatabase, Typed
  <1>6. IsDatabase(start) /\ SameRest(d, start) /\ start.row = d.row /\ start.resource = new
    BY <1>5 DEF IsDatabase, SameRest
  <1>7. old \in [Ids -> {NoResource} \cup ResourceRows]
    BY <1>2 DEF Typed
  <1>8. ASSUME NEW r \in Ids
        PROVE  /\ new[r] \in {NoResource} \cup ResourceRows
               /\ new[r].url = old[r].url /\ (old[r] # NoResource => new[r] # NoResource)
               /\ r \in other => new[r] = old[r]
    <2>1. old[r] \in {NoResource} \cup ResourceRows
      BY <1>7
    <2>2. CASE old[r].version = "V1" /\ r \notin other
      <3>1. new[r] = [old[r] EXCEPT !.version = "V2"]
        BY <1>3, <2>2
      <3>2. old[r] \in ResourceRows
        BY <2>1, <2>2 DEF NoResource
      <3>3. new[r] = [version |-> "V2", url |-> old[r].url] /\ old[r].url \in Urls
        BY <3>1, <3>2 DEF ResourceRows
      <3> QED
        BY <2>2, <3>3 DEF ResourceRows, NoResource
    <2>3. CASE ~(old[r].version = "V1" /\ r \notin other)
      <3>1. new[r] = old[r]
        BY <1>3, <2>3
      <3> QED
        BY <2>1, <3>1
    <2> QED
      BY <2>2, <2>3
  <1>9. new \in [Ids -> {NoResource} \cup ResourceRows]
    <2>1. new = [r \in Ids |-> new[r]]
      BY <1>3
    <2>2. \A r \in Ids : new[r] \in {NoResource} \cup ResourceRows
      BY <1>8
    <2> QED
      BY <2>1, <2>2
  <1>10. Used(old, NoResource) \subseteq Ids /\ Used(old, NoResource) \subseteq Used(new, NoResource)
    <2>1. DOMAIN old = Ids /\ DOMAIN new = Ids
      BY <1>7, <1>9
    <2> QED
      BY <1>8, <2>1 DEF Used
  <1> QED
    BY <1>1, <1>2, <1>6, <1>8, <1>9, <1>10 DEF Resources

\* A row of a resource that is not affected stays with it, and it is called as the row is.
LEMMA RowsNotAffected ==
  ASSUME NEW m, Ground(m), NEW start, NEW all, GroupsDone(m, start, all, Affected(m)),
         \A r \in Resources(m) : start.resource[r].url = m.resource[r].url,
         \A r \in Resources(m) : r \in OfClass(m, {"insufficient_provenance"}) => start.resource[r] = m.resource[r],
         NEW x \in Evidence(m), ResourceOf(m, x) \notin Affected(m) \/ ~Readable(m, x)
  PROVE  InOrderRow(all, x)
  <1>1. all.row[x] = m.row[x]
    BY DEF GroupsDone, RowsLeft
  <1>2. \A y \in Evidence(m) : y \in Evidence(all) /\ all.row[y].kind = m.row[y].kind /\ all.row[y].raw = m.row[y].raw
    BY DEF GroupsDone, RowsLeft, SameSpelling
  <1>3. Resources(m) \subseteq Resources(all)
    BY DEF GroupsDone, ResourcesDone
  <1>4. Refers(m, x) /\ HistoricRow(m, x)
    BY DEF Ground
  <1>5. Refers(all, x)
    BY <1>1, <1>2, <1>3, <1>4 DEF Refers
  <1>6. AgreeingRow(all, x)
    <2> SUFFICES ASSUME V2[m.row[x].raw] # NoUrl, all.resource[ResourceOf(all, x)].version = "V2"
                 PROVE  IF all.row[x].kind = "origin" THEN V2[all.row[x].raw] = V2[all.row[all.row[x].seed].raw]
                        ELSE /\ all.resource[all.row[x].resource].url = V2[all.row[x].raw]
                             /\ all.row[x].kind \in {"listed", "seed"} => all.row[x].url = V2[all.row[x].raw]
      BY <1>1 DEF AgreeingRow
    <2>1. PICK r : r = ResourceOf(m, x)
      OBVIOUS
    <2>2. r \in Resources(m) /\ r \notin Affected(m) /\ x \in RowsOf(m, r)
      BY <2>1, GroundResources DEF Readable, RowsOf
    <2>3. ResourceOf(all, x) = r
      <3>1. CASE m.row[x].kind = "origin"
        <4>1. m.row[x].seed \in Evidence(m) /\ m.row[m.row[x].seed].kind = "seed"
          BY <1>4, <3>1 DEF Refers
        <4>2. ResourceOf(m, m.row[x].seed) = r
          BY <2>1, <3>1, <4>1 DEF ResourceOf
        <4>3. all.row[m.row[x].seed] = m.row[m.row[x].seed]
          BY <2>2, <4>1, <4>2 DEF GroupsDone, RowsLeft
        <4> QED
          BY <1>1, <2>1, <3>1, <4>3 DEF ResourceOf
      <3>2. CASE m.row[x].kind # "origin"
        BY <1>1, <2>1, <3>2 DEF ResourceOf
      <3> QED
        BY <3>1, <3>2
    <2>4. all.resource[r] = start.resource[r] /\ start.resource[r].version = "V2"
      BY <2>2, <2>3 DEF GroupsDone, ResourcesDone
    <2>5. r \notin OfClass(m, {"insufficient_provenance"})
      BY <2>2, <2>4, GroundResources
    <2>6. V2[m.resource[r].url] = m.resource[r].url /\ V2[m.row[x].raw] = m.resource[r].url
          /\ all.resource[r].url = m.resource[r].url
      BY <2>2, <2>4, <2>5, Unaffected
    <2>7. CASE m.row[x].kind = "origin"
      <3>1. PICK o : o = m.row[x].seed
        OBVIOUS
      <3>2. o \in Evidence(m) /\ m.row[o].kind = "seed" /\ m.row[o].resource = r
        BY <1>4, <2>1, <2>7, <3>1 DEF Refers, ResourceOf
      <3>3. m.row[o].raw = m.resource[r].url
        <4>1. HistoricRow(m, o)
          BY <3>2 DEF Ground
        <4> QED
          BY <3>2, <4>1 DEF HistoricRow
      <3>4. all.row[o].raw = m.row[o].raw
        BY <1>2, <3>2
      <3> QED
        BY <1>1, <2>6, <2>7, <3>1, <3>3, <3>4
    <2>8. CASE m.row[x].kind # "origin"
      <3>1. m.row[x].resource = r
        BY <2>1, <2>8 DEF ResourceOf
      <3>2. m.row[x].kind \in {"listed", "seed"} => m.row[x].url = m.resource[r].url
        BY <1>4, <3>1 DEF HistoricRow
      <3> QED
        BY <1>1, <2>6, <2>8, <3>1, <3>2
    <2> QED
      BY <2>7, <2>8
  <1> QED
    BY <1>5, <1>6 DEF InOrderRow

LEMMA AppliedAgrees ==
  ASSUME NEW m, Ground(m), NEW d, Typed(d), m.resource = d.resource, m.row = d.row,
         NEW done, done = Applied(m, d), done # Failed
  PROVE  Typed(done) /\ Unique(done) /\ \A x \in Evidence(done) : InOrderRow(done, x)
  <1>1. PICK start : start = Relabelled(m, d)
    OBVIOUS
  <1>2. PICK all : all = GroupsApplied(m, start, Affected(m))
    OBVIOUS
  <1>3. all # Failed /\ Unique(all) /\ done = [all EXCEPT !.derived = all.derived \ Affected(m)]
    BY <1>1, <1>2 DEF Applied
  <1>4. Resources(m) = Resources(d) /\ Evidence(m) = Evidence(d)
    BY DEF Resources, Evidence
  <1>5. /\ IsDatabase(start) /\ start.row = m.row
        /\ start.resource \in [Ids -> {NoResource} \cup ResourceRows]
        /\ Resources(m) \subseteq Resources(start)
        /\ \A r \in Affected(m) \cap Ids : start.resource[r] = m.resource[r]
        /\ \A r \in Resources(m) : start.resource[r].url = m.resource[r].url
        /\ \A r \in Resources(m) : r \in OfClass(m, {"insufficient_provenance"}) => start.resource[r] = m.resource[r]
    BY <1>1, <1>4, RelabelledResources
  <1>6. Shaped(start)
    <2>1. RowsShaped(start.row)
      BY <1>5, TypedRows DEF Ground
    <2>2. DOMAIN start.resource = Ids
      BY <1>5
    <2> QED
      BY <1>5, <2>1, <2>2 DEF Shaped
  <1>7. \A r \in Affected(m) : r \in Ids
    BY CandidateUrls
  <1>8. GroupsDone(m, start, all, Affected(m)) /\ Kept(start, all)
    BY <1>2, <1>3, <1>5, <1>6, <1>7, GroupsAreDone
  <1>9. all.resource \in [Ids -> {NoResource} \cup ResourceRows] /\ RowsTyped(all.row)
    BY <1>8 DEF GroupsDone, ResourcesDone, RowsLeft
  <1>10. ASSUME NEW x \in Evidence(all)
         PROVE  InOrderRow(all, x)
    <2>1. DOMAIN all.resource = Ids
      BY <1>9
    <2>2. CASE x \notin Evidence(m)
      <3>1. all.row[x].kind = "seed" /\ Placed(all, x)
        BY <1>8, <1>10, <2>2 DEF GroupsDone, RowsMade
      <3> QED
        BY <2>1, <3>1, PlacedAgrees
    <2>3. CASE x \in Evidence(m) /\ (ResourceOf(m, x) \notin Affected(m) \/ ~Readable(m, x))
      BY <1>5, <1>8, <2>3, RowsNotAffected
    <2>4. CASE x \in Evidence(m) /\ ResourceOf(m, x) \in Affected(m) /\ Readable(m, x)
      <3>1. all.row[x].kind = m.row[x].kind
        BY <1>8, <2>4 DEF GroupsDone, RowsLeft, SameSpelling
      <3>2. IF m.row[x].kind = "origin" THEN AtItsSeed(all.row, x) ELSE Placed(all, x)
        BY <1>8, <2>4 DEF GroupsDone, RowsDone
      <3>3. CASE m.row[x].kind = "origin"
        BY <3>1, <3>2, <3>3, AtItsSeedAgrees
      <3>4. CASE m.row[x].kind # "origin"
        BY <2>1, <3>1, <3>2, <3>4, PlacedAgrees
      <3> QED
        BY <3>3, <3>4
    <2> QED
      BY <2>2, <2>3, <2>4
  <1>11. IsDatabase(all)
    BY <1>8 DEF Kept, Shaped
  <1>12. IsDatabase(done) /\ done.resource = all.resource /\ done.row = all.row
    BY <1>3, <1>11 DEF IsDatabase
  <1>13. Evidence(done) = Evidence(all) /\ Resources(done) = Resources(all)
    BY <1>12 DEF Evidence, Resources
  <1>14. \A x \in Evidence(done) : InOrderRow(done, x)
    BY <1>10, <1>12, <1>13 DEF InOrderRow, Refers, AgreeingRow, ResourceOf
  <1>15. Unique(done)
    BY <1>3, <1>12, <1>13 DEF Unique
  <1>16. Typed(done)
    BY <1>9, <1>12 DEF Typed, RowsTyped
  <1> QED
    BY <1>14, <1>15, <1>16

-----------------------------------------------------------------------------
(***************************************************************************)
(* Every step keeps a database in agreement.                               *)
(***************************************************************************)

LEMMA SameAgrees ==
  ASSUME NEW d, NEW e, Agrees(d), SameData(d, e), d.status = "completed" => e.derived = d.derived
  PROVE  Agrees(e)
  <1>1. Evidence(e) = Evidence(d) /\ Resources(e) = Resources(d)
    BY DEF SameData, Evidence, Resources
  <1>2. Typed(e)
    BY DEF Agrees, Typed, SameData
  <1>3. \A x \in Evidence(e) : Refers(e, x)
    BY <1>1 DEF Agrees, Refers, SameData
  <1>4. Historic(d) => Historic(e)
    BY <1>1 DEF Historic, HistoricRow, SameData
  <1>5. Projected(e) = Projected(d)
    BY <1>1 DEF Projected, SameData
  <1>6. Migrated(d) => Migrated(e)
    <2>1. Unique(d) => Unique(e)
      BY <1>1 DEF Unique, SameData
    <2>2. \A x \in Evidence(d) : AgreeingRow(d, x) => AgreeingRow(e, x)
      BY DEF AgreeingRow, ResourceOf, SameData
    <2> QED
      BY <1>1, <1>5, <2>1, <2>2 DEF Migrated, Current, SameData
  <1> QED
    BY <1>2, <1>3, <1>4, <1>6 DEF Agrees, SameData

\* The database the tool validated the manifest of is historical.
LEMMA SoundGround ==
  ASSUME NEW m, NEW d, Agrees(d), d.migration = 0, Sound(m, d)
  PROVE  Ground(m)
  <1>1. m.resource = d.resource /\ m.row = d.row /\ Resources(m) = Resources(d) /\ Evidence(m) = Evidence(d)
    BY DEF Sound, Resources, Evidence
  <1>2. m.resource \in [Ids -> {NoResource} \cup ResourceRows] /\ RowsTyped(m.row)
    BY <1>1 DEF Agrees, Typed, RowsTyped
  <1>3. \A r \in Resources(m) : m.resource[r].version = "V1"
    BY <1>1 DEF Agrees, Historic
  <1>4. \A x \in Evidence(m) : Refers(m, x) /\ HistoricRow(m, x)
    BY <1>1 DEF Agrees, Historic, Refers, HistoricRow
  <1> QED
    BY <1>2, <1>3, <1>4 DEF Ground, Sound

LEMMA SameRows ==
  ASSUME NEW d, NEW e, e.resource = d.resource, e.row = d.row, NEW x
  PROVE  (Refers(d, x) => Refers(e, x)) /\ (AgreeingRow(d, x) => AgreeingRow(e, x))
  <1>1. Evidence(e) = Evidence(d) /\ Resources(e) = Resources(d)
    BY DEF Evidence, Resources
  <1>2. ResourceOf(e, x) = ResourceOf(d, x)
    BY DEF ResourceOf
  <1>3. Refers(d, x) => Refers(e, x)
    BY <1>1 DEF Refers
  <1>4. AgreeingRow(d, x) => AgreeingRow(e, x)
    BY <1>2 DEF AgreeingRow
  <1> QED
    BY <1>3, <1>4

LEMMA CoreAgrees ==
  ASSUME NEW m, NEW d, Agrees(d), d.migration = 0, Sound(m, d), Applied(m, d) # Failed, NEW n, n # 0,
         NEW e, e = [Applied(m, d) EXCEPT !.migration = n, !.status = "rebuilding"]
  PROVE  Agrees(e)
  <1>1. PICK done : done = Applied(m, d)
    OBVIOUS
  <1>2. Typed(done) /\ Unique(done) /\ \A x \in Evidence(done) : InOrderRow(done, x)
    <2>1. Ground(m)
      BY SoundGround
    <2> QED
      BY <1>1, <2>1, AppliedAgrees DEF Agrees, Sound
  <1>3. e = [done EXCEPT !.migration = n, !.status = "rebuilding"] /\ IsDatabase(done)
    BY <1>1, <1>2 DEF Typed
  <1>4. IsDatabase(e) /\ e.resource = done.resource /\ e.row = done.row /\ e.migration = n /\ e.status = "rebuilding"
    BY <1>3 DEF IsDatabase
  <1>5. Evidence(e) = Evidence(done) /\ Resources(e) = Resources(done)
    BY <1>4 DEF Evidence, Resources
  <1>6. Typed(e) /\ Unique(e)
    BY <1>2, <1>4, <1>5 DEF Typed, Unique
  <1>7. \A x \in Evidence(e) : Refers(e, x) /\ AgreeingRow(e, x)
    BY <1>2, <1>4, <1>5, SameRows DEF InOrderRow
  <1> QED
    BY <1>4, <1>6, <1>7 DEF Agrees, Migrated

LEMMA FinalizeAgrees ==
  ASSUME NEW d, Agrees(d), d.migration # 0, d.derived = Projected(d), NEW e, e = Finalized(d)
  PROVE  Agrees(e)
  <1>1. IsDatabase(d)
    BY DEF Agrees, Typed
  <1>2. PICK f : f = Domain(d)
    OBVIOUS
  <1>3. e = [d EXCEPT !.active = "V2", !.required = FALSE, !.status = "completed", !.fingerprint = f]
    BY <1>2 DEF Finalized
  <1>4. /\ IsDatabase(e) /\ e.resource = d.resource /\ e.row = d.row /\ e.derived = d.derived
        /\ e.migration = d.migration /\ e.active = "V2" /\ e.required = FALSE /\ e.status = "completed"
    BY <1>1, <1>3 DEF IsDatabase
  <1>5. Evidence(e) = Evidence(d) /\ Resources(e) = Resources(d) /\ Projected(e) = Projected(d)
    BY <1>4 DEF Evidence, Resources, Projected
  <1>6. Typed(e) /\ Unique(e)
    BY <1>4, <1>5 DEF Agrees, Migrated, Typed, Unique
  <1>7. \A x \in Evidence(e) : Refers(e, x) /\ AgreeingRow(e, x)
    BY <1>4, <1>5 DEF Agrees, Migrated, Refers, AgreeingRow, ResourceOf
  <1> QED
    BY <1>4, <1>5, <1>6, <1>7 DEF Agrees, Migrated, Current

\* A resource is what a row added calls it, or is one that was not there.
LEMMA ResourceOfAdded ==
  ASSUME NEW d, Shaped(d), ~Maintenance(d), Room(d), NEW kind \in {"plain", "listed"}, NEW raw \in NewUrls, NEW n,
         NEW e, IsAdded(d, e, kind, raw, n), d.resource \in [Ids -> {NoResource} \cup ResourceRows],
         NEW url, url = Normal(d, raw), NEW r, r = ResourceNamed(d, url)
  PROVE  /\ url \in Urls /\ r \in Ids /\ d.active \in {"V1", "V2"}
         /\ e.resource[r] = CurrentResource(d, url) /\ CurrentResource(d, url) \in ResourceRows
         /\ d.resource[r] = CurrentResource(d, url) \/ (r \notin Resources(d) /\ Named(d, url) = {})
         /\ Resources(e) = Resources(d) \cup {r} /\ \A k \in Resources(d) : e.resource[k] = d.resource[k]
         /\ e.resource \in [Ids -> {NoResource} \cup ResourceRows]
  <1>1. d.active \in {"V1", "V2"}
    BY DEF Maintenance, Historical, Current
  <1>2. url \in Urls
    BY ReconciliationAssumption, MigrationAssumption DEF Normal
  <1>3. r \in Ids /\ \A k \in Ids : e.resource[k] = IF k = r THEN CurrentResource(d, url) ELSE d.resource[k]
    BY DEF IsAdded
  <1>4. e.resource[r] = CurrentResource(d, url) /\ \A k \in Ids \ {r} : e.resource[k] = d.resource[k]
    BY <1>3
  <1>5. CurrentResource(d, url) \in ResourceRows /\ CurrentResource(d, url) # NoResource
    BY <1>1, <1>2 DEF CurrentResource, ResourceRows, NoResource
  <1>6. d.resource[r] = CurrentResource(d, url) \/ (r \notin Resources(d) /\ Named(d, url) = {})
    <2>1. CASE Named(d, url) # {}
      <3>1. Named(d, url) \subseteq Ids
        BY DEF Named, Resources, Used, Shaped
      <3>2. Named(d, url) \subseteq Nat
        BY <3>1, ReconciliationAssumption
      <3>3. r \in Named(d, url)
        BY <2>1, <3>1, <3>2, Least DEF ResourceNamed
      <3> QED
        BY <3>3 DEF Named, CurrentResource
    <2>2. CASE Named(d, url) = {}
      BY <2>2, RoomLeft DEF ResourceNamed
    <2> QED
      BY <2>1, <2>2
  <1>7. Resources(d) \subseteq Ids /\ DOMAIN e.resource = Ids /\ DOMAIN d.resource = Ids
    BY DEF Resources, Used, Shaped, IsAdded
  <1>8. \A k \in Resources(d) : e.resource[k] = d.resource[k]
    BY <1>4, <1>6, <1>7
  <1>9. Resources(e) = Resources(d) \cup {r}
    BY <1>3, <1>4, <1>5, <1>7 DEF Resources, Used
  <1>10. e.resource \in [Ids -> {NoResource} \cup ResourceRows]
    <2>1. e.resource = [k \in Ids |-> e.resource[k]]
      BY DEF IsAdded
    <2>2. \A k \in Ids : e.resource[k] \in {NoResource} \cup ResourceRows
      BY <1>4, <1>5
    <2> QED
      BY <2>1, <2>2
  <1> QED
    BY <1>1, <1>2, <1>3, <1>4, <1>5, <1>6, <1>8, <1>9, <1>10

LEMMA AddedAgrees ==
  ASSUME NEW d, Agrees(d), Shaped(d), ~Maintenance(d), Room(d), NEW kind \in {"plain", "listed"},
         NEW raw \in NewUrls, NEW n, NEW e, IsAdded(d, e, kind, raw, n)
  PROVE  Agrees(e)
  <1>1. PICK url : url = Normal(d, raw)
    OBVIOUS
  <1>2. PICK r : r = ResourceNamed(d, url)
    OBVIOUS
  <1>3. d.resource \in [Ids -> {NoResource} \cup ResourceRows] /\ RowsTyped(d.row)
    BY DEF Agrees, Typed, RowsTyped
  <1>4. /\ url \in Urls /\ r \in Ids /\ d.active \in {"V1", "V2"}
        /\ e.resource[r] = CurrentResource(d, url)
        /\ d.resource[r] = CurrentResource(d, url) \/ (r \notin Resources(d) /\ Named(d, url) = {})
        /\ Resources(e) = Resources(d) \cup {r} /\ \A k \in Resources(d) : e.resource[k] = d.resource[k]
        /\ e.resource \in [Ids -> {NoResource} \cup ResourceRows]
    BY <1>1, <1>2, <1>3, ResourceOfAdded
  <1>5. /\ IsDatabase(e) /\ RowsShaped(e.row) /\ n \notin Evidence(d) /\ n \in Rows
        /\ Evidence(e) = Evidence(d) \cup {n} /\ \A x \in Rows \ {n} : e.row[x] = d.row[x]
        /\ e.active = d.active /\ e.required = d.required /\ e.migration = d.migration /\ e.status = d.status
    BY DEF IsAdded, Shaped
  <1>6. e.row[n] = [kind |-> kind, raw |-> raw, url |-> IF kind = "plain" THEN NoUrl ELSE url,
                    resource |-> r, seed |-> 0]
    BY <1>1, <1>2 DEF IsAdded, Added
  <1>7. /\ e.row[n].kind = kind /\ e.row[n].raw = raw /\ e.row[n].resource = r
        /\ kind = "listed" => e.row[n].url = url
    BY <1>6
  <1>8. Evidence(d) \subseteq Rows \ {n}
    BY <1>3, <1>5, TypedRows DEF Evidence
  <1>9. \A x \in Evidence(d) : e.row[x] = d.row[x]
    BY <1>5, <1>8
  <1>10. Typed(e)
    <2>1. e.row[n] \in RowRows
      BY <1>4, <1>6, MigrationAssumption DEF RowRows, Kinds
    <2>2. PICK row, old : row = e.row /\ old = d.row
      OBVIOUS
    <2>3. \A x \in Rows : row[x] \in {NoRow} \cup RowRows
      BY <1>3, <1>5, <2>1, <2>2 DEF RowsTyped
    <2>4. row = [x \in Rows |-> row[x]]
      BY <1>5, <2>2 DEF RowsShaped
    <2>5. row \in [Rows -> {NoRow} \cup RowRows]
      BY <2>3, <2>4
    <2> QED
      BY <1>4, <1>5, <2>2, <2>5 DEF Typed
  <1>11. ASSUME NEW x \in Evidence(e)
         PROVE  Refers(e, x)
    <2>1. CASE x = n
      BY <1>4, <1>7, <2>1 DEF Refers
    <2>2. CASE x # n
      <3>1. x \in Evidence(d) /\ e.row[x] = d.row[x]
        BY <1>5, <1>9, <2>2
      <3>2. Refers(d, x)
        BY <3>1 DEF Agrees
      <3> QED
        BY <1>4, <1>5, <1>9, <3>1, <3>2 DEF Refers
    <2> QED
      BY <2>1, <2>2
  <1>12. CASE d.migration = 0
    <2>1. Historic(d)
      BY <1>12 DEF Agrees
    <2>2. e.resource[r].version = "V1" /\ e.resource[r].url = url
      BY <1>4, <2>1 DEF Historic, CurrentResource
    <2>3. \A k \in Resources(e) : e.resource[k].version = "V1"
      BY <1>4, <2>1, <2>2 DEF Historic
    <2>4. ASSUME NEW x \in Evidence(e)
          PROVE  HistoricRow(e, x)
      <3>1. CASE x = n
        BY <1>7, <2>2, <3>1 DEF HistoricRow
      <3>2. CASE x # n
        <4>1. x \in Evidence(d) /\ e.row[x] = d.row[x] /\ HistoricRow(d, x) /\ Refers(d, x)
          BY <1>5, <1>9, <2>1, <3>2 DEF Agrees, Historic
        <4>2. d.row[x].kind # "origin" => e.resource[d.row[x].resource] = d.resource[d.row[x].resource]
          BY <1>4, <4>1 DEF Refers
        <4> QED
          BY <4>1, <4>2 DEF HistoricRow
      <3> QED
        BY <3>1, <3>2
    <2>5. Historic(e)
      BY <1>5, <2>1, <2>3, <2>4 DEF Historic
    <2> QED
      BY <1>5, <1>10, <1>11, <1>12, <2>5 DEF Agrees
  <1>13. CASE d.migration # 0
    <2>1. Migrated(d) /\ d.status = "completed" /\ Current(d)
      BY <1>13 DEF Agrees, Maintenance
    <2>2. e.resource[r].version = "V2" /\ e.resource[r].url = url /\ url = V2[raw]
      BY <1>1, <1>4, <2>1 DEF Current, CurrentResource, Normal
    <2>3. Unique(e)
      <3> SUFFICES ASSUME NEW j \in Resources(e), NEW k \in Resources(e), j # k
                   PROVE  e.resource[j] # e.resource[k]
        BY DEF Unique
      <3>1. CASE r \in Resources(d)
        <4>1. j \in Resources(d) /\ k \in Resources(d) /\ e.resource[j] = d.resource[j] /\ e.resource[k] = d.resource[k]
          BY <1>4, <3>1
        <4> QED
          BY <2>1, <4>1 DEF Migrated, Unique
      <3>2. CASE r \notin Resources(d)
        <4>1. \A i \in Resources(d) : e.resource[i] # e.resource[r]
          <5>1. Named(d, url) = {} \/ d.resource[r] = CurrentResource(d, url)
            BY <1>4
          <5>2. Named(d, url) = {}
            <6>1. CurrentResource(d, url).version # "none"
              BY <1>4 DEF CurrentResource
            <6>2. NoResource.version = "none"
              BY DEF NoResource
            <6>3. d.resource[r] = NoResource
              BY <1>3, <1>4, <3>2 DEF Resources, Used
            <6> QED
              BY <5>1, <6>1, <6>2, <6>3
          <5>3. \A i \in Resources(d) : d.resource[i] # CurrentResource(d, url)
            BY <5>2 DEF Named, CurrentResource
          <5> QED
            BY <1>4, <5>3
        <4>2. j \in Resources(d) \cup {r} /\ k \in Resources(d) \cup {r}
          BY <1>4
        <4>3. CASE j \in Resources(d) /\ k \in Resources(d)
          BY <1>4, <2>1, <4>3 DEF Migrated, Unique
        <4> QED
          BY <4>1, <4>2, <4>3
      <3> QED
        BY <3>1, <3>2
    <2>4. ASSUME NEW x \in Evidence(e)
          PROVE  AgreeingRow(e, x)
      <3>1. CASE x = n
        BY <1>7, <2>2, <3>1 DEF AgreeingRow, ResourceOf
      <3>2. CASE x # n
        <4>1. x \in Evidence(d) /\ e.row[x] = d.row[x] /\ AgreeingRow(d, x) /\ Refers(d, x)
          BY <1>5, <1>9, <2>1, <3>2 DEF Agrees, Migrated
        <4>2. CASE d.row[x].kind = "origin"
          <5>1. d.row[x].seed \in Evidence(d) /\ d.row[d.row[x].seed].kind = "seed"
            BY <4>1, <4>2 DEF Refers
          <5>2. e.row[d.row[x].seed] = d.row[d.row[x].seed] /\ d.row[d.row[x].seed].resource \in Resources(d)
            BY <1>9, <5>1 DEF Agrees, Refers
          <5>3. ResourceOf(e, x) = ResourceOf(d, x) /\ e.resource[ResourceOf(d, x)] = d.resource[ResourceOf(d, x)]
            BY <1>4, <4>1, <4>2, <5>2 DEF ResourceOf
          <5> QED
            BY <4>1, <4>2, <5>2, <5>3 DEF AgreeingRow
        <4>3. CASE d.row[x].kind # "origin"
          <5>1. d.row[x].resource \in Resources(d) /\ e.resource[d.row[x].resource] = d.resource[d.row[x].resource]
            BY <1>4, <4>1, <4>3 DEF Refers
          <5> QED
            BY <4>1, <4>3, <5>1 DEF AgreeingRow, ResourceOf
        <4> QED
          BY <4>2, <4>3
      <3> QED
        BY <3>1, <3>2
    <2>5. e.derived = Projected(e)
      <3>1. d.derived = Projected(d) /\ e.derived = IF kind = "plain" THEN d.derived \cup {r} ELSE d.derived
        BY <1>1, <1>2, <2>1 DEF Migrated, IsAdded
      <3>2. kind = "plain" => Projected(e) = Projected(d) \cup {r}
        BY <1>5, <1>7, <1>9 DEF Projected
      <3>3. kind # "plain" => Projected(e) = Projected(d)
        BY <1>5, <1>7, <1>9 DEF Projected
      <3> QED
        BY <3>1, <3>2, <3>3
    <2>6. Migrated(e)
      BY <1>5, <2>1, <2>3, <2>4, <2>5 DEF Migrated, Current
    <2> QED
      BY <1>5, <1>10, <1>11, <1>13, <2>6 DEF Agrees
  <1> QED
    BY <1>12, <1>13

LEMMA AgreesAtFirst ==
  ASSUME Init
  PROVE  AgreeInv
  <1>1. /\ db = [resource |-> Resource, row |-> Row, page |-> Page, derived |-> db.derived, job |-> "none",
                 worker |-> "stopped", active |-> "V1", required |-> TRUE, migration |-> 0,
                 status |-> "none", fingerprint |-> <<>>]
    BY DEF Init, InitialDatabase
  <1>2. /\ IsDatabase(db) /\ db.resource = Resource /\ db.row = Row /\ db.migration = 0
        /\ db.active = "V1" /\ db.required = TRUE /\ db.status = "none"
    BY <1>1 DEF IsDatabase
  <1>3. Resources(db) = Used(Resource, NoResource) /\ Evidence(db) = Used(Row, NoRow)
    BY <1>2 DEF Resources, Evidence
  <1>4. Resource \in [Ids -> {NoResource} \cup ResourceRows] /\ \A r \in Resources(db) : Resource[r].version = "V1"
    <2>1. \A r \in Ids : Resource[r] \in {NoResource} \cup [version : {"V1"}, url : Urls]
      BY MigrationAssumption
    <2>2. [version : {"V1"}, url : Urls] \subseteq ResourceRows
      BY DEF ResourceRows
    <2>3. DOMAIN Resource = Ids /\ Resource = [r \in Ids |-> Resource[r]]
      BY MigrationAssumption
    <2>4. Resource \in [Ids -> {NoResource} \cup ResourceRows]
      BY <2>1, <2>2, <2>3
    <2> QED
      BY <1>3, <2>1, <2>3, <2>4 DEF Used
  <1>5. Row \in [Rows -> {NoRow} \cup RowRows]
    BY MigrationAssumption DEF RowRows
  <1>6. ASSUME NEW x \in Evidence(db)
        PROVE  Refers(db, x) /\ HistoricRow(db, x)
    <2>1. IF Row[x].kind = "origin" THEN Row[x].seed \in Used(Row, NoRow) /\ Row[Row[x].seed].kind = "seed"
          ELSE /\ Row[x].resource \in Used(Resource, NoResource)
               /\ Row[x].kind \in {"listed", "seed"} => Row[x].url = Resource[Row[x].resource].url
               /\ Row[x].kind = "seed" => Row[x].raw = Row[x].url
      BY <1>3, <1>6, MigrationAssumption
    <2> QED
      BY <1>2, <1>3, <2>1 DEF Refers, HistoricRow
  <1>7. Agrees(db)
    BY <1>2, <1>4, <1>5, <1>6 DEF Agrees, Typed, Historic
  <1>8. spent.applies = 0 /\ op.pc = "idle"
    BY DEF Init, Idle
  <1>9. \A n \in 1 .. spent.applies : Agrees(Before(n))
    BY <1>8
  <1> QED
    BY <1>7, <1>8, <1>9 DEF AgreeInv

\* Nothing more was attempted, and no backup is another one.
SameBackups == UNCHANGED backup /\ spent'.applies = spent.applies

LEMMA BackupsAgree ==
  ASSUME AgreeInv, ~slipped, SameBackups
  PROVE  \A n \in 1 .. spent'.applies : Agrees(Before(n)')
  <1>1. \A n : Before(n)' = Before(n)
    BY DEF Before, SameBackups
  <1> QED
    BY <1>1 DEF AgreeInv, SameBackups

\* Steps that leave alone what the databases are about.
LEMMA OtherStepsAgree ==
  ASSUME AgreeInv, SameData(db, db'), SameBackups, UNCHANGED <<manifest, slipped>>,
         op'.pc = op.pc \/ op'.pc \notin {"planned", "based", "rebuilt"}
           \/ (op.pc = "planned" /\ op'.pc = "based"),
         db.status = "completed" \/ op'.pc = "rebuilt" => db'.derived = db.derived
  PROVE  AgreeInv'
  <1> SUFFICES ASSUME ~slipped PROVE AgreeInv'
    BY DEF AgreeInv
  <1>1. Agrees(db')
    BY SameAgrees DEF AgreeInv
  <1>2. \A n \in 1 .. spent'.applies : Agrees(Before(n)')
    BY BackupsAgree
  <1>3. ASSUME op'.pc \in {"planned", "based"}
        PROVE  Sound(manifest, db)'
    <2>1. Sound(manifest, db)
      BY <1>3 DEF AgreeInv
    <2>2. Sound(manifest, db') /\ manifest' = manifest
      BY <2>1 DEF Sound, SameData
    <2> QED
      BY <2>2 DEF Sound
  <1>4. ASSUME op'.pc = "rebuilt"
        PROVE  db'.derived = Projected(db')
    <2>1. db.derived = Projected(db) /\ db'.derived = db.derived
      BY <1>4 DEF AgreeInv
    <2>2. Projected(db') = Projected(db)
      BY DEF Projected, Evidence, SameData
    <2> QED
      BY <2>1, <2>2
  <1>5. (db.derived = Projected(db))' <=> db'.derived = Projected(db')
    BY DEF Projected, Evidence
  <1> QED
    BY <1>1, <1>2, <1>3, <1>4, <1>5 DEF AgreeInv

LEMMA AddingAgrees ==
  ASSUME KeptInv, AgreeInv, Room(db), ~Maintenance(db), NEW kind \in {"plain", "listed"}, NEW raw \in NewUrls,
         NEW e, e = WithRow(db, kind, raw), SameData(e, db'), db'.derived = e.derived,
         Recorded(kind, raw), SameBackups, UNCHANGED <<manifest, op>>
  PROVE  AgreeInv'
  <1> SUFFICES ASSUME ~slipped' PROVE AgreeInv'
    BY DEF AgreeInv
  <1>1. ~slipped /\ op.pc \notin {"planned", "based"}
    BY DEF Recorded
  <1>2. PICK d : d = db
    OBVIOUS
  <1>3. Shaped(d) /\ Room(d) /\ ~Maintenance(d) /\ Agrees(d) /\ e = WithRow(d, kind, raw) /\ kind \in Kinds
    BY <1>1, <1>2 DEF KeptInv, AgreeInv, Kinds
  <1>4. IsAdded(d, e, kind, raw, Min(Free(d.row, NoRow)))
    BY <1>3, RowAdded
  <1>5. Agrees(e)
    BY <1>3, <1>4, AddedAgrees
  <1>6. Agrees(db')
    BY <1>5, SameAgrees
  <1>7. \A n \in 1 .. spent'.applies : Agrees(Before(n)')
    BY <1>1, BackupsAgree
  <1>8. op'.pc # "rebuilt"
    <2>1. ASSUME op.pc = "rebuilt" PROVE FALSE
      <3>1. db.migration = op.attempt /\ db.status = "rebuilding" /\ op.attempt \in 1 .. spent.applies
        BY <2>1 DEF KeptInv, AtStep
      <3>2. db.migration # 0
        BY <3>1 DEF KeptInv, Control
      <3> QED
        BY <3>1, <3>2 DEF Maintenance
    <2> QED
      BY <2>1
  <1> QED
    BY <1>1, <1>6, <1>7, <1>8 DEF AgreeInv

LEMMA RequestsAgree ==
  ASSUME KeptInv, AgreeInv, Request
  PROVE  AgreeInv'
  <1>1. IsDatabase(db) /\ Control /\ SameData(db, db)
    BY DEF KeptInv, Shaped, SameData
  <1>2. CASE Admit
    <2>1. SameData(db, db') /\ db' = db /\ SameBackups /\ UNCHANGED <<manifest, op, slipped>>
      BY <1>1, <1>2, Spending DEF Admit, SameData, SameBackups, Spends
    <2> QED
      BY <2>1, OtherStepsAgree
  <1>3. ASSUME NEW raw \in NewUrls, AddUrl(raw)
        PROVE  AgreeInv'
    <2>1. PICK e : e = WithRow(db, "listed", raw)
      OBVIOUS
    <2>2. db' = e /\ Room(db) /\ ~Maintenance(db) /\ Recorded("listed", raw) /\ UNCHANGED <<backup, manifest, op, spent>>
      BY <1>3, <2>1 DEF AddUrl, Answer
    <2>3. PICK d : d = db
      OBVIOUS
    <2>4. Shaped(d) /\ Room(d) /\ e = WithRow(d, "listed", raw) /\ "listed" \in Kinds
      BY <2>1, <2>2, <2>3 DEF KeptInv, Kinds
    <2>5. IsAdded(d, e, "listed", raw, Min(Free(d.row, NoRow)))
      BY <2>4, RowAdded
    <2>6. SameData(e, db') /\ db'.derived = e.derived /\ SameBackups
      BY <2>2, <2>5 DEF IsAdded, Shaped, SameData, SameBackups
    <2> QED
      BY <2>1, <2>2, <2>6, AddingAgrees
  <1>4. ASSUME NEW p \in Pages, EditPage(p)
        PROVE  AgreeInv'
    <2>1. PICK owner \in Owners : db' = [db EXCEPT !.page[p].owner = owner]
      BY <1>4 DEF EditPage, Answer
    <2>2. PICK page : page = [db.page EXCEPT ![p].owner = owner]
      OBVIOUS
    <2>3. db' = [db EXCEPT !.page = page]
      BY <2>1, <2>2
    <2>4. SameData(db, db') /\ db'.derived = db.derived
      BY <1>1, <2>3 DEF SameData, IsDatabase
    <2>5. SameBackups /\ UNCHANGED <<manifest, op, slipped>>
      BY <1>4 DEF EditPage, Answer, SameBackups
    <2> QED
      BY <2>4, <2>5, OtherStepsAgree
  <1>5. CASE Enqueue
    <2>1. SameData(db, db') /\ db'.derived = db.derived
      BY <1>1, <1>5 DEF Enqueue, Answer, SameData, IsDatabase
    <2>2. SameBackups /\ UNCHANGED <<manifest, op, slipped>>
      BY <1>5 DEF Enqueue, Answer, SameBackups
    <2> QED
      BY <2>1, <2>2, OtherStepsAgree
  <1>6. CASE Refused
    <2>1. SameData(db, db') /\ db' = db /\ SameBackups /\ UNCHANGED <<manifest, op, slipped>>
      BY <1>1, <1>6 DEF Refused, Answer, SameData, SameBackups
    <2> QED
      BY <2>1, OtherStepsAgree
  <1> QED
    BY <1>2, <1>3, <1>4, <1>5, <1>6 DEF Request

LEMMA WorkersAgree ==
  ASSUME KeptInv, AgreeInv, Worker
  PROVE  AgreeInv'
  <1>1. IsDatabase(db) /\ Control
    BY DEF KeptInv, Shaped
  <1>2. CASE WorkerStart
    <2>1. SameData(db, db') /\ db'.derived = db.derived
      BY <1>1, <1>2 DEF WorkerStart, SameData, IsDatabase
    <2>2. SameBackups /\ UNCHANGED <<manifest, op, slipped>>
      BY <1>1, <1>2, Spending DEF WorkerStart, SameBackups, Spends
    <2> QED
      BY <2>1, <2>2, OtherStepsAgree
  <1>3. CASE WorkerStop
    <2>1. SameData(db, db') /\ db'.derived = db.derived
      BY <1>1, <1>3 DEF WorkerStop, SameData, IsDatabase
    <2>2. SameBackups /\ UNCHANGED <<manifest, op, slipped>>
      BY <1>3 DEF WorkerStop, SameBackups
    <2> QED
      BY <2>1, <2>2, OtherStepsAgree
  <1>4. CASE Claim
    <2>1. SameData(db, db') /\ db'.derived = db.derived
      BY <1>1, <1>4 DEF Claim, SameData, IsDatabase
    <2>2. SameBackups /\ UNCHANGED <<manifest, op, slipped>>
      BY <1>4 DEF Claim, SameBackups
    <2> QED
      BY <2>1, <2>2, OtherStepsAgree
  <1>5. CASE Work
    <2>1. CASE Maintenance(db) \/ ~Room(db)
      <3>1. SameData(db, db') /\ db'.derived = db.derived
        BY <1>1, <1>5, <2>1 DEF Work, SameData, IsDatabase
      <3>2. SameBackups /\ UNCHANGED <<manifest, op, slipped>>
        BY <1>5, <2>1 DEF Work, SameBackups
      <3> QED
        BY <3>1, <3>2, OtherStepsAgree
    <2>2. CASE ~(Maintenance(db) \/ ~Room(db))
      <3>1. PICK raw \in NewUrls : db' = [WithRow(db, "plain", raw) EXCEPT !.job = "none"] /\ Recorded("plain", raw)
        BY <1>5, <2>2 DEF Work
      <3>2. PICK e : e = WithRow(db, "plain", raw)
        OBVIOUS
      <3>3. PICK d : d = db
        OBVIOUS
      <3>4. Shaped(d) /\ Room(d) /\ e = WithRow(d, "plain", raw) /\ "plain" \in Kinds
        BY <2>2, <3>2, <3>3 DEF KeptInv, Kinds
      <3>5. IsAdded(d, e, "plain", raw, Min(Free(d.row, NoRow)))
        BY <3>4, RowAdded
      <3>6. IsDatabase(e) /\ db' = [e EXCEPT !.job = "none"]
        BY <3>1, <3>2, <3>5 DEF IsAdded, Shaped
      <3>7. SameData(e, db') /\ db'.derived = e.derived
        BY <3>6 DEF SameData, IsDatabase
      <3>8. SameBackups /\ UNCHANGED <<manifest, op>>
        BY <1>5 DEF Work, SameBackups
      <3> QED
        BY <2>2, <3>1, <3>2, <3>7, <3>8, AddingAgrees
    <2> QED
      BY <2>1, <2>2
  <1> QED
    BY <1>2, <1>3, <1>4, <1>5 DEF Worker

LEMMA BackUpAgrees ==
  ASSUME KeptInv, AgreeInv, BackUp
  PROVE  AgreeInv'
  <1> SUFFICES ASSUME ~slipped PROVE AgreeInv'
    BY DEF AgreeInv, BackUp
  <1>1. PICK n : n = spent.applies + 1
    OBVIOUS
  <1>2. n \in Attempts /\ spent.applies \in Nat /\ n \notin 1 .. spent.applies
    BY <1>1, MigrationAssumption DEF KeptInv, Control, BackUp, Attempts
  <1>3. /\ spent'.applies = n /\ backup' = [backup EXCEPT ![n] = <<db>>] /\ UNCHANGED <<db, manifest>>
        /\ op'.pc = "backed"
    BY <1>1 DEF KeptInv, Control, BackUp, Idle
  <1>4. /\ backup' = [k \in Attempts |-> backup'[k]]
        /\ \A k \in Attempts : backup'[k] = IF k = n THEN <<db>> ELSE backup[k]
    BY <1>2, <1>3 DEF KeptInv, Control
  <1>5. Before(n)' = db /\ \A k \in 1 .. spent.applies : Before(k)' = Before(k)
    BY <1>2, <1>4, MigrationAssumption DEF Before, KeptInv, Control, Attempts
  <1>6. \A k \in 1 .. spent'.applies : k \in 1 .. spent.applies \/ k = n
    BY <1>1, <1>2, <1>3
  <1>7. \A k \in 1 .. spent'.applies : Agrees(Before(k)')
    BY <1>5, <1>6 DEF AgreeInv
  <1>8. Agrees(db')
    BY <1>3 DEF AgreeInv
  <1> QED
    BY <1>3, <1>7, <1>8 DEF AgreeInv

LEMMA RestoringAgrees ==
  ASSUME KeptInv, AgreeInv, op.pc # "idle", db' = backup[op.attempt][1], op' = Idle, SameBackups,
         UNCHANGED slipped
  PROVE  AgreeInv'
  <1> SUFFICES ASSUME ~slipped PROVE AgreeInv'
    BY DEF AgreeInv
  <1>1. op.attempt \in 1 .. spent.applies /\ db' = Before(op.attempt)
    BY DEF KeptInv, AtStep, Before
  <1>2. Agrees(db')
    BY <1>1 DEF AgreeInv
  <1>3. \A n \in 1 .. spent'.applies : Agrees(Before(n)')
    BY BackupsAgree
  <1>4. op'.pc = "idle"
    BY DEF Idle
  <1> QED
    BY <1>2, <1>3, <1>4 DEF AgreeInv

\* The tool makes a database that agrees, and goes on.
LEMMA MadeAgrees ==
  ASSUME AgreeInv, ~slipped, Agrees(db'), SameBackups, op'.pc \notin {"planned", "based"},
         op'.pc = "rebuilt" => db'.derived = Projected(db')
  PROVE  AgreeInv'
  <1>1. \A n \in 1 .. spent'.applies : Agrees(Before(n)')
    BY BackupsAgree
  <1>2. (db.derived = Projected(db))' <=> db'.derived = Projected(db')
    BY DEF Projected, Evidence
  <1> QED
    BY <1>1, <1>2 DEF AgreeInv

LEMMA ApplyAgrees ==
  ASSUME KeptInv, AgreeInv, Apply
  PROVE  AgreeInv'
  <1> SUFFICES ASSUME ~slipped PROVE AgreeInv'
    BY DEF AgreeInv, Apply, Preflight, Plan, Baselined, Core, Rebuild, Finalize, Restore
  <1>1. IsDatabase(db) /\ SameData(db, db)
    BY DEF KeptInv, Shaped, SameData
  <1>2. CASE Preflight
    <2>1. /\ db' = db /\ SameData(db, db') /\ SameBackups /\ UNCHANGED <<manifest, slipped>>
          /\ Goto(IF Passes THEN "guarded" ELSE "failing")
      BY <1>1, <1>2 DEF Preflight, SameData, SameBackups
    <2>2. Going("guarded") \/ Going("failing")
      BY <2>1, GoneTo
    <2> QED
      BY <2>1, <2>2, OtherStepsAgree DEF Going
  <1>3. CASE Plan
    <2>1. /\ db' = db /\ SameData(db, db') /\ SameBackups /\ UNCHANGED <<manifest, slipped>>
          /\ Goto(IF ValidManifest(manifest, db) THEN "planned" ELSE "failing")
      BY <1>1, <1>3 DEF Plan, SameData, SameBackups
    <2>2. (Going("planned") /\ ValidManifest(manifest, db)) \/ Going("failing")
      BY <2>1, GoneTo
    <2>3. CASE Going("failing")
      BY <2>1, <2>3, OtherStepsAgree DEF Going
    <2>4. CASE Going("planned") /\ ValidManifest(manifest, db)
      <3>1. Sound(manifest, db)
        BY <2>4 DEF ValidManifest, Sound
      <3>2. Sound(manifest, db)'
        <4>1. Sound(manifest', db')
          BY <2>1, <3>1
        <4> QED
          BY <4>1 DEF Sound
      <3>3. Agrees(db') /\ \A n \in 1 .. spent'.applies : Agrees(Before(n)')
        BY <2>1, BackupsAgree DEF AgreeInv
      <3> QED
        BY <2>4, <3>2, <3>3 DEF AgreeInv, Going
    <2> QED
      BY <2>2, <2>3, <2>4
  <1>4. CASE Baselined
    <2>1. db' = db /\ SameData(db, db') /\ SameBackups /\ UNCHANGED <<manifest, slipped>> /\ op.pc = "planned"
      BY <1>1, <1>4 DEF Baselined, SameData, SameBackups
    <2>2. op'.pc = "based"
      BY <1>4 DEF Baselined, KeptInv, Control
    <2> QED
      BY <2>1, <2>2, OtherStepsAgree
  <1>5. CASE Core
    <2>1. op.pc = "based" /\ SameBackups /\ UNCHANGED <<manifest, slipped>>
      BY <1>5 DEF Core, SameBackups
    <2>2. CASE Goto("failing") /\ UNCHANGED db
      <3>1. Going("failing") /\ SameData(db, db') /\ db' = db
        BY <1>1, <2>2, GoneTo DEF SameData
      <3> QED
        BY <2>1, <3>1, OtherStepsAgree DEF Going
    <2>3. CASE ~(Goto("failing") /\ UNCHANGED db)
      <3>1. /\ Applied(manifest, db) # Failed /\ Goto("rebuilding")
            /\ db' = [Applied(manifest, db) EXCEPT !.migration = op.attempt, !.status = "rebuilding"]
        BY <1>5, <2>3 DEF Core
      <3>2. PICK d, m, n : d = db /\ m = manifest /\ n = op.attempt
        OBVIOUS
      <3>3. PICK e : e = db'
        OBVIOUS
      <3>4. Agrees(d) /\ Sound(m, d)
        BY <2>1, <3>2 DEF AgreeInv
      <3>5. d.migration = 0 /\ n # 0
        BY <2>1, <3>2 DEF KeptInv, AtStep
      <3>6. Applied(m, d) # Failed /\ e = [Applied(m, d) EXCEPT !.migration = n, !.status = "rebuilding"]
        BY <3>1, <3>2, <3>3
      <3>7. Agrees(db')
        BY <3>3, <3>4, <3>5, <3>6, CoreAgrees
      <3>8. op'.pc = "rebuilding"
        BY <3>1 DEF Goto, KeptInv, Control
      <3> QED
        BY <2>1, <3>7, <3>8, MadeAgrees
    <2> QED
      BY <2>2, <2>3
  <1>6. CASE Rebuild
    <2>1. op.pc = "rebuilding" /\ SameBackups /\ UNCHANGED <<manifest, slipped>>
      BY <1>6 DEF Rebuild, SameBackups
    <2>2. CASE Goto("rebuilt") /\ db' = [db EXCEPT !.derived = Projected(db)]
      <3>1. SameData(db, db') /\ db'.derived = Projected(db) /\ Going("rebuilt")
        BY <1>1, <2>2, GoneTo DEF SameData, IsDatabase
      <3>2. Projected(db') = Projected(db)
        BY <3>1 DEF Projected, Evidence, SameData
      <3>3. db.status # "completed"
        BY <2>1 DEF KeptInv, AtStep
      <3>4. Agrees(db')
        BY <3>1, <3>3, SameAgrees DEF AgreeInv
      <3> QED
        BY <2>1, <3>1, <3>2, <3>4, MadeAgrees DEF Going
    <2>3. CASE Goto("failing") /\ UNCHANGED db
      <3>1. Going("failing") /\ SameData(db, db') /\ db' = db
        BY <1>1, <2>3, GoneTo DEF SameData
      <3> QED
        BY <2>1, <3>1, OtherStepsAgree DEF Going
    <2> QED
      BY <1>6, <2>2, <2>3 DEF Rebuild
  <1>7. CASE Finalize
    <2>1. op.pc = "rebuilt" /\ db' = Finalized(db) /\ op' = Idle /\ SameBackups
      BY <1>7 DEF Finalize, SameBackups
    <2>2. Agrees(db) /\ db.derived = Projected(db) /\ db.migration # 0
      BY <2>1 DEF AgreeInv, KeptInv, AtStep
    <2>3. Agrees(db')
      BY <2>1, <2>2, FinalizeAgrees
    <2> QED
      BY <2>1, <2>3, MadeAgrees DEF Idle
  <1>8. CASE Restore
    BY <1>8, RestoringAgrees DEF Restore, SameBackups
  <1> QED
    BY <1>2, <1>3, <1>4, <1>5, <1>6, <1>7, <1>8 DEF Apply

LEMMA StepsAgree ==
  ASSUME KeptInv, AgreeInv, [Next]_vars
  PROVE  AgreeInv'
  <1>1. Control /\ SameData(db, db)
    BY DEF KeptInv, Shaped, SameData
  <1>2. CASE Request
    BY <1>2, RequestsAgree
  <1>3. CASE Worker
    BY <1>3, WorkersAgree
  <1>4. CASE Rebase
    <2>1. op.pc = "idle" /\ op' = op /\ db' = db /\ SameBackups /\ UNCHANGED slipped
      BY <1>4 DEF Rebase, SameBackups, Idle
    <2>2. ~slipped => Agrees(db') /\ op'.pc \notin {"planned", "based", "rebuilt"}
      BY <2>1 DEF AgreeInv
    <2>3. slipped => AgreeInv'
      BY <2>1 DEF AgreeInv
    <2> QED
      BY <2>1, <2>2, <2>3, MadeAgrees
  <1>5. CASE BackUp
    BY <1>5, BackUpAgrees
  <1>6. CASE Apply
    BY <1>6, ApplyAgrees
  <1>7. CASE Crash
    <2>1. db' = db /\ SameData(db, db') /\ SameBackups /\ UNCHANGED <<manifest, slipped>>
      BY <1>1, <1>7, Spending DEF Crash, SameBackups, Spends, SameData
    <2>2. op'.pc = "idle"
      BY <1>7 DEF Crash, Idle
    <2> QED
      BY <2>1, <2>2, OtherStepsAgree
  <1>8. CASE Rollback
    <2>1. CASE RollbackCheck
      <3>1. db' = db /\ SameData(db, db') /\ SameBackups /\ UNCHANGED <<manifest, slipped>> /\ op'.pc = "restoring"
        BY <1>1, <2>1 DEF RollbackCheck, SameBackups, Idle, SameData
      <3> QED
        BY <3>1, OtherStepsAgree
    <2>2. CASE RollbackRestore
      BY <2>2, RestoringAgrees DEF RollbackRestore, SameBackups
    <2> QED
      BY <1>8, <2>1, <2>2 DEF Rollback
  <1>9. CASE UNCHANGED vars
    <2>1. db' = db /\ SameData(db, db') /\ SameBackups /\ UNCHANGED <<manifest, op, slipped>>
      BY <1>1, <1>9 DEF vars, SameBackups, SameData
    <2> QED
      BY <2>1, OtherStepsAgree
  <1> QED
    BY <1>2, <1>3, <1>4, <1>5, <1>6, <1>7, <1>8, <1>9 DEF Next

\* An origin belongs to the resource its seed was attributed to, which is its own.
LEMMA AgreementShows ==
  ASSUME KeptInv, AgreeInv
  PROVE  IdentityAgrees
  <1> SUFFICES ASSUME db.status = "completed", ~slipped
               PROVE  /\ Current(db) /\ Unique(db) /\ db.derived = Projected(db)
                      /\ \A row \in Evidence(db) :
                           LET url == V2[db.row[row].raw] IN
                           url # NoUrl /\ db.resource[ResourceOf(db, row)].version = "V2" =>
                             /\ Attribution(row) = url
                             /\ db.row[row].kind \in {"listed", "seed"} => db.row[row].url = url
    BY DEF IdentityAgrees
  <1>1. Agrees(db) /\ Migrated(db)
    BY DEF AgreeInv, Agrees, Historic
  <1>2. Current(db) /\ Unique(db) /\ db.derived = Projected(db)
    BY <1>1 DEF Migrated
  <1>3. ASSUME NEW row \in Evidence(db), V2[db.row[row].raw] # NoUrl,
               db.resource[ResourceOf(db, row)].version = "V2"
        PROVE  /\ Attribution(row) = V2[db.row[row].raw]
               /\ db.row[row].kind \in {"listed", "seed"} => db.row[row].url = V2[db.row[row].raw]
    <2>1. AgreeingRow(db, row) /\ Refers(db, row)
      BY <1>1, <1>3 DEF Agrees, Migrated
    <2>2. CASE db.row[row].kind = "origin"
      <3>1. PICK seed : seed = db.row[row].seed
        OBVIOUS
      <3>2. seed \in Evidence(db) /\ db.row[seed].kind = "seed" /\ V2[db.row[row].raw] = V2[db.row[seed].raw]
        BY <1>3, <2>1, <2>2, <3>1 DEF Refers, AgreeingRow
      <3>3. ResourceOf(db, row) = db.row[seed].resource /\ ResourceOf(db, seed) = db.row[seed].resource
        BY <2>2, <3>1, <3>2 DEF ResourceOf
      <3>4. AgreeingRow(db, seed)
        BY <1>1, <3>2 DEF Migrated
      <3>5. db.resource[db.row[seed].resource].url = V2[db.row[seed].raw]
        BY <1>3, <3>2, <3>3, <3>4 DEF AgreeingRow
      <3> QED
        BY <2>2, <3>2, <3>3, <3>5 DEF Attribution
    <2>3. CASE db.row[row].kind # "origin"
      BY <1>3, <2>1, <2>3 DEF AgreeingRow, Attribution, ResourceOf
    <2> QED
      BY <2>2, <2>3
  <1> QED
    BY <1>2, <1>3

\* Once the migration is active, every row belongs to the resource of its own spelling, which
\* is one: the validation left nothing to merge, the transaction gave every candidate a number
\* of its own and every row its candidate, and what is added later is looked up first.
THEOREM WhatIsMigratedAgrees == Spec => []IdentityAgrees
  <1>1. Init => IInv
    BY KeptAtFirst, AgreesAtFirst DEF IInv
  <1>2. IInv /\ [Next]_vars => IInv'
    BY StepsKeep, StepsAgree DEF IInv
  <1>3. IInv => IdentityAgrees
    BY AgreementShows DEF IInv
  <1> QED
    BY <1>1, <1>2, <1>3, PTL DEF Spec

=============================================================================
