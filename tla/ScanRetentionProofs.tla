------------------------ MODULE ScanRetentionProofs ------------------------
(***************************************************************************)
(* What the runs check of inventory, crawl and the deletion of scans, for   *)
(* every value of the constants: types, counters, complete crawls, files    *)
(* and retired entries.                                                     *)
(***************************************************************************)
EXTENDS ScanRetention, FiniteSetTheorems, FunctionTheorems, WellFoundedInduction, TLAPS

-----------------------------------------------------------------------------
(* The invariant.  Types first.                                            *)

ScanRows == [status: JobStatuses \cup {"none", "deleted"}, cancel: BOOLEAN, stop: StopReasons,
             discovered: Nat, fetched: Nat, failed: Nat, attempts: Nat, retries: Nat, exhausted: Nat]

Snapshots == [state: Outcomes \cup {"none"}, body: Contents \cup {NoBody}, parsed: BOOLEAN,
              depth: 0 .. MaxDepth, attempts: 0 .. MaxAttempts]

Items == [page: InScope, depth: 0 .. MaxDepth, attempt: 0 .. MaxAttempts]

Answers == [state: Outcomes \cup {"none"}, body: Contents \cup {NoBody}, row: BOOLEAN, parsed: BOOLEAN]

Crawlers == [at: CrawlPhases, queue: Seq(Items), retry: Seq(Items), seen: SUBSET InScope, fetched: SUBSET InScope,
             touched: SUBSET Pages, item: Items, candidate: BOOLEAN, answer: Answers]

RefreshRows == [source: Sources \cup {"none"}, status: JobStatuses \cup {"none", "deleted"}, cancel: BOOLEAN,
                at: RefreshPhases, doc: DocumentShape]

\* A refresh at work has a source, and from its fetch on a document of it.
RefreshOK(row) ==
  /\ row.status \notin {"none", "deleted"} => row.source \in Sources
  /\ row.at # "idle" => row.source \in Sources
  /\ row.at \in {"fetched", "writing"} => row.doc \in Documents[row.source]

InventoryInv ==
  /\ InventoryTypeOK
  /\ refresh \in [Refreshes -> RefreshRows]
  /\ \A r \in Refreshes : RefreshOK(refresh[r])

CrawlTyped ==
  /\ scan \in [Scans -> ScanRows]
  /\ seed \in [Scans -> [Pages -> SeedStates]]
  /\ snap \in [Scans -> [Pages -> Snapshots]]
  /\ crawl \in [Scans -> Crawlers]
  /\ rows \subseteq Contents /\ files \subseteq Contents
  /\ artifacts \subseteq rows \X Pages

DeletionTyped ==
  /\ del \in [at: {"idle", "read", "unlink"}, scan: Scans \cup {0}, contents: SUBSET Contents]
  /\ del.at # "idle" => del.scan \in Scans
  /\ raced \subseteq Contents

-----------------------------------------------------------------------------
(* Files.                                                                  *)

\* What an answer published and no row names yet is there, or was known to be lost.
PublishedKept ==
  \A s \in Scans :
    crawl[s].at = "answered" /\ ~crawl[s].answer.row /\ crawl[s].answer.body # NoBody =>
      /\ crawl[s].answer.body \in files \cup raced
      /\ del.at = "unlink" /\ crawl[s].answer.body \in del.contents => crawl[s].answer.body \in raced

UnlinkedGone == del.at = "unlink" => rows \cap del.contents \subseteq raced

\* A deletion is of an ended scan.
DeletedEnded == del.at # "idle" => scan[del.scan].status \in Terminal \cup {"deleted"}

SnapsParsed == \A s \in Scans : \A p \in Pages : snap[s][p].parsed <=> snap[s][p].body # NoBody

FilesInv == FilesKept /\ PublishedKept /\ UnlinkedGone /\ DeletedEnded /\ SnapsParsed

-----------------------------------------------------------------------------
(* One scan: its row, its seeds, its snapshots and its crawler.             *)

Visited(sn) == {p \in Pages : sn[p].state \in Outcomes}

FailedPages(sn) == {p \in Pages : sn[p].state \in Failing}

GivenUp(sn) == {p \in Pages : sn[p].state \in Transient /\ sn[p].attempts = MaxAttempts}

Attempted(sn) == MapThenSumSet(LAMBDA p : sn[p].attempts, Visited(sn))

\* RowsAgree of one scan; a page not visited has no attempt.
Tallied(row, sd, sn) ==
  /\ row.failed = Cardinality(FailedPages(sn))
  /\ row.attempts = Attempted(sn)
  /\ row.retries = row.attempts - Cardinality(Visited(sn))
  /\ row.exhausted = Cardinality(GivenUp(sn))
  /\ \A p \in Pages :
       /\ sd[p] = "failed" => sn[p].state \in Failing
       /\ sd[p] = "fetched" => sn[p].state \in Outcomes \ Failing
       /\ sn[p].state = "none" => sn[p].attempts = 0

\* The pages a crawler still has to do with, one of them in hand.
HasInHand(c) == c.at \in {"waiting", "picked", "asked", "answered"}

InHand(c) == IF HasInHand(c) THEN {c.item.page} ELSE {}

Pending(c) == PagesOf(c.queue) \cup PagesOf(c.retry) \cup InHand(c)

Distinct(items) == \A i, j \in DOMAIN items : items[i].page = items[j].page => i = j

\* An item is the first attempt at a page without a snapshot, or the next after a temporary failure.
FirstAttempt(i, sn) == i.attempt = 1 /\ sn[i.page].state = "none"

NextAttempt(i, sn) ==
  i.attempt > 1 /\ sn[i.page].attempts = i.attempt - 1 /\ sn[i.page].state \in Transient

\* Every page met is fetched, or pending in one place.
Partition(c) ==
  /\ c.seen = c.fetched \cup Pending(c)
  /\ Distinct(c.queue) /\ Distinct(c.retry)
  /\ PagesOf(c.queue) \cap PagesOf(c.retry) = {}
  /\ InHand(c) \cap (PagesOf(c.queue) \cup PagesOf(c.retry)) = {}
  /\ c.fetched \cap Pending(c) = {}

Attempts(c, sn) ==
  /\ \A i \in DOMAIN c.queue : FirstAttempt(c.queue[i], sn)
  /\ \A i \in DOMAIN c.retry : NextAttempt(c.retry[i], sn)
  /\ HasInHand(c) => FirstAttempt(c.item, sn) \/ NextAttempt(c.item, sn)

SnapsFit(c, sn) ==
  /\ \A p \in Pages \ c.seen : sn[p].state = "none"
  /\ \A p \in c.fetched : /\ sn[p].state \in Outcomes
                          /\ sn[p].state \in Transient => sn[p].attempts = MaxAttempts

\* Below the page limit every link that counts has been met.
LinksMet(row, c, sn) ==
  row.discovered < MaxPages =>
    \A p \in c.fetched : sn[p].state = "fetched" /\ sn[p].depth < MaxDepth => Links[p] \cap InScope \subseteq c.seen

WorkOK(row, sd, sn, c) ==
  /\ Partition(c) /\ Attempts(c, sn) /\ SnapsFit(c, sn)
  /\ \A p \in Pages : sd[p] = "queued" => p \in Pending(c)
  /\ row.discovered = Cardinality(c.seen)
  /\ LinksMet(row, c, sn)

AnswerOK(a) ==
  /\ a.state \in Outcomes
  /\ a.state = "fetched" => a.body = PageBody
  /\ a.state \in Failing => a.body = NoBody
  /\ a.state = "busy" => a.body = ErrorBody
  /\ a.row => a.body # NoBody

Complete(row, sd, sn) ==
  /\ \A p \in Pages : sd[p] # "queued"
  /\ \A p \in Pages : sn[p].state \in Transient => sn[p].attempts = MaxAttempts
  /\ row.discovered < MaxPages =>
       \A p \in Pages : sn[p].state = "fetched" /\ sn[p].depth < MaxDepth => Links[p] \cap InScope \subseteq Visited(sn)

\* At work, on its way out, or put down.
CrawlerOK(row, sd, sn, c) ==
  /\ c.at \in {"next", "waiting", "picked", "asked", "answered"} => WorkOK(row, sd, sn, c)
  /\ c.at = "ending" => row.cancel \/ WorkOK(row, sd, sn, c)

NotBegun(sd, sn) == /\ \A p \in Pages : sn[p] = Unvisited
                    /\ \A p \in Pages : sd[p] \notin {"failed", "fetched"}

SeedsFit(sd) ==
  /\ sd[Start] = "queued"
  /\ {p \in Pages : sd[p] = "queued"} \subseteq InScope
  /\ Cardinality({p \in Pages : sd[p] = "queued"}) <= MaxPages

ScanOK(row, sd, sn, c) ==
  /\ row.status \notin {"none", "deleted"} => Tallied(row, sd, sn)
  /\ row.status \in {"none", "deleted"} => NotBegun(sd, sn)
  /\ row.status = "none" => row = NoScan
  /\ row.status = "queued" => NotBegun(sd, sn) /\ SeedsFit(sd)
  /\ row.status = "running" => CrawlerOK(row, sd, sn, c)
  /\ row.status \notin Terminal => row.stop = "none"
  /\ row.stop = "queue_exhausted" => Complete(row, sd, sn)
  /\ c.at = "answered" => AnswerOK(c.answer)
  /\ Cardinality(c.seen) <= MaxPages
  /\ c.fetched \subseteq c.seen

ScansOK == \A s \in Scans : ScanOK(scan[s], seed[s], snap[s], crawl[s])

IInv == InventoryInv /\ CrawlTyped /\ DeletionTyped /\ FilesInv /\ ScansOK

-----------------------------------------------------------------------------
(* Sets of numbers.                                                        *)

\* What is true of some number is true of a first one.
LEMMA FirstOf ==
  ASSUME NEW S, S \subseteq Nat, S # {}
  PROVE  \E n \in S : \A m \in S : n <= m
  <1>1. PICK n \in S : \A m \in S : <<m, n>> \notin OpToRel(<, Nat)
    BY WFMin, NatLessThanWellFounded, Zenon
  <1>2. \A m \in S : ~(m < n)
    BY <1>1, Zenon DEF OpToRel
  <1> QED
    BY <1>2

LEMMA UpTo ==
  ASSUME NEW n \in Nat
  PROVE  IsFiniteSet(0 .. n - 1) /\ Cardinality(0 .. n - 1) = n
  <1>1. 0 \in Int /\ n - 1 \in Int
    OBVIOUS
  <1>2. IsFiniteSet(0 .. n - 1) /\ Cardinality(0 .. n - 1) = IF 0 > n - 1 THEN 0 ELSE (n - 1) - 0 + 1
    BY <1>1, FS_Interval, Zenon
  <1> QED
    BY <1>2

LEMMA BeforeNat ==
  ASSUME NEW S, IsFiniteSet(S), S \subseteq Nat, NEW p \in S
  PROVE  Before(p, S) \in 0 .. Cardinality(S) - 1
  <1> DEFINE less == {q \in S : q < p}
  <1>1. /\ IsFiniteSet(S \ {p}) /\ Cardinality(S \ {p}) = Cardinality(S) - 1
        /\ Cardinality(S) \in Nat
    BY FS_RemoveElement, FS_CardinalityType
  <1>2. less \in SUBSET (S \ {p})
    OBVIOUS
  <1>3. Cardinality(less) \in Nat /\ Cardinality(less) <= Cardinality(S) - 1
    <2> HIDE DEF less
    <2> QED
      BY <1>1, <1>2, FS_Subset, FS_CardinalityType
  <1> QED
    BY <1>1, <1>3 DEF Before

\* Two elements of a set have different ranks.
LEMMA BeforeLess ==
  ASSUME NEW S, IsFiniteSet(S), S \subseteq Nat, NEW p \in S, NEW q \in S, p < q
  PROVE  Before(p, S) < Before(q, S)
  <1> DEFINE A == {r \in S : r < p}
             B == {r \in S : r < q}
  <1>1. IsFiniteSet(A) /\ IsFiniteSet(B)
    BY FS_Subset
  <1>2. p \notin A /\ A \cup {p} \subseteq B
    <2>1. p \in Int /\ q \in Int /\ \A r \in S : r \in Int
      OBVIOUS
    <2>2. ~(p < p) /\ \A r \in S : r < p => r < q
      BY <2>1
    <2> QED
      BY <2>2
  <1>3. Cardinality(A) + 1 <= Cardinality(B) /\ Cardinality(A) \in Nat /\ Cardinality(B) \in Nat
    <2> HIDE DEF A, B
    <2> QED
      BY <1>1, <1>2, FS_AddElement, FS_Subset, FS_CardinalityType
  <1> QED
    BY <1>3 DEF Before

LEMMA RanksDiffer ==
  ASSUME NEW S, IsFiniteSet(S), S \subseteq Nat, NEW p \in S, NEW q \in S, Before(p, S) = Before(q, S)
  PROVE  p = q
  <1>1. Before(p, S) \in 0 .. Cardinality(S) - 1
    BY BeforeNat
  <1>2. CASE p < q
    <2>1. Before(p, S) < Before(q, S)
      BY <1>2, BeforeLess
    <2> QED
      BY <1>1, <2>1
  <1>3. CASE q < p
    <2>1. Before(q, S) < Before(p, S)
      BY <1>3, BeforeLess
    <2> QED
      BY <1>1, <2>1
  <1>4. CASE ~(p < q) /\ ~(q < p)
    <2>1. p \in Int /\ q \in Int
      OBVIOUS
    <2> QED
      BY <1>4, <2>1
  <1> QED
    BY <1>2, <1>3, <1>4

LEMMA EveryRank ==
  ASSUME NEW S, IsFiniteSet(S), S \subseteq Nat, NEW i \in 1 .. Cardinality(S)
  PROVE  \E p \in S : Before(p, S) = i - 1
  <1> DEFINE n == Cardinality(S)
             T == 0 .. n - 1
             f == [p \in S |-> Before(p, S)]
  <1>1. n \in Nat
    BY FS_CardinalityType
  <1>2. f \in [S -> T]
    BY BeforeNat
  <1>3. f \in Injection(S, T)
    BY <1>2, RanksDiffer DEF Injection, IsInjective
  <1>4. IsFiniteSet(T) /\ Cardinality(T) = n
    BY <1>1, UpTo
  <1>5. f \in Surjection(S, T)
    <2> HIDE DEF f, T
    <2> QED
      BY <1>3, <1>4, FS_Injection
  <1>6. i - 1 \in T
    BY <1>1
  <1>7. PICK p \in S : f[p] = i - 1
    <2> HIDE DEF f, T
    <2> QED
      BY <1>5, <1>6 DEF Surjection
  <1> QED
    BY <1>7

\* Sorted(S) lists the elements of S, each once.
LEMMA SortedLists ==
  ASSUME NEW S, IsFiniteSet(S), S \subseteq Nat
  PROVE  /\ Sorted(S) \in Seq(S) /\ Len(Sorted(S)) = Cardinality(S)
         /\ Cardinality(S) \in Nat
         /\ \A i, j \in 1 .. Cardinality(S) : Sorted(S)[i] = Sorted(S)[j] => i = j
         /\ \A p \in S : \E i \in 1 .. Cardinality(S) : Sorted(S)[i] = p
  <1> DEFINE n == Cardinality(S)
             s == Sorted(S)
  <1>1. n \in Nat
    BY FS_CardinalityType
  <1>2. \A i \in 1 .. n : s[i] \in S /\ Before(s[i], S) = i - 1
    <2> TAKE i \in 1 .. n
    <2>1. s[i] = CHOOSE p \in S : Before(p, S) = i - 1
      BY DEF Sorted
    <2> QED
      BY <2>1, EveryRank
  <1>3. s = [i \in 1 .. n |-> s[i]]
    BY DEF Sorted
  <1> HIDE DEF s
  <1>4. s \in Seq(S) /\ Len(s) = n
    BY <1>1, <1>2, <1>3
  <1>5. ASSUME NEW p \in S
        PROVE  \E i \in 1 .. n : s[i] = p
    <2> DEFINE i == Before(p, S) + 1
    <2>0. Before(p, S) \in 0 .. Cardinality(S) - 1
      BY BeforeNat
    <2>1. i \in 1 .. n /\ i - 1 = Before(p, S)
      BY <1>1, <2>0
    <2>2. s[i] \in S /\ Before(s[i], S) = Before(p, S)
      <3> HIDE DEF i
      <3> QED
        BY <1>2, <2>1
    <2>3. s[i] = p
      BY <2>2, RanksDiffer
    <2> QED
      BY <2>1, <2>3
  <1>6. \A i, j \in 1 .. n : s[i] = s[j] => i = j
    BY <1>2
  <1> QED
    BY <1>1, <1>4, <1>5, <1>6 DEF s

\* The first elements of a set, by rank, are at most as many as the ranks.
LEMMA FewOfRank ==
  ASSUME NEW S, IsFiniteSet(S), S \subseteq Nat, NEW n \in Nat
  PROVE  LET A == {p \in S : Before(p, S) < n} IN IsFiniteSet(A) /\ Cardinality(A) <= n
  <1> DEFINE A == {p \in S : Before(p, S) < n}
             T == 0 .. n - 1
             f == [p \in A |-> Before(p, S)]
  <1>0. \A p \in A : Before(p, S) \in 0 .. Cardinality(S) - 1
    BY BeforeNat
  <1>1. f \in [A -> T]
    <2>1. \A p \in A : Before(p, S) < n
      OBVIOUS
    <2> HIDE DEF A
    <2>2. \A p \in A : Before(p, S) \in 0 .. n - 1
      BY <1>0, <2>1
    <2> QED
      BY <2>2
  <1>2. f \in Injection(A, T)
    BY <1>1, RanksDiffer DEF Injection, IsInjective
  <1>3. IsFiniteSet(T) /\ Cardinality(T) = n
    BY UpTo
  <1>4. IsFiniteSet(A) /\ Cardinality(A) <= n
    <2> HIDE DEF f, T, A
    <2> QED
      BY <1>2, <1>3, FS_Injection
  <1> QED
    BY <1>4

-----------------------------------------------------------------------------
(* Sums.  The fold that RowsAgree adds attempts up with is a recursive      *)
(* function on the subsets of a finite set: there is one, there is only    *)
(* one, and it may take the elements in any order.                         *)

AttemptsOf(sn, S) == MapThenSumSet(LAMBDA p : sn[p].attempts, S)

OneOf(s) == CHOOSE x \in s : TRUE

\* h adds up every set of D.
Sums(h, sn, D) ==
  h = [s \in D |-> IF s = {} THEN 0 ELSE sn[OneOf(s)].attempts + h[s \ {OneOf(s)}]]

LEMMA AttemptsChosen ==
  ASSUME NEW sn, NEW S
  PROVE  AttemptsOf(sn, S) = (CHOOSE h : Sums(h, sn, SUBSET S))[S]
  BY DEF AttemptsOf, MapThenSumSet, MapThenFoldSet, Sums, OneOf

UpToSize(S, n) == {s \in SUBSET S : Cardinality(s) <= n}

LEMMA OneLess ==
  ASSUME NEW S, IsFiniteSet(S), S # {}, NEW x \in S
  PROVE  /\ IsFiniteSet(S \ {x}) /\ Cardinality(S \ {x}) = Cardinality(S) - 1
         /\ Cardinality(S) \in Nat /\ Cardinality(S) > 0 /\ Cardinality(S \ {x}) \in Nat
  <1>1. /\ IsFiniteSet(S \ {x}) /\ Cardinality(S \ {x}) = Cardinality(S) - 1
        /\ Cardinality(S) \in Nat /\ Cardinality(S \ {x}) \in Nat
    BY FS_RemoveElement, FS_CardinalityType
  <1> QED
    BY <1>1

LEMMA SumsExist ==
  ASSUME NEW sn, NEW S, IsFiniteSet(S)
  PROVE  \E h : Sums(h, sn, SUBSET S)
  <1> DEFINE Without == {n \in Nat : ~\E h : Sums(h, sn, UpToSize(S, n))}
  <1>1. \A s \in SUBSET S : IsFiniteSet(s) /\ Cardinality(s) \in Nat /\ Cardinality(s) <= Cardinality(S)
    BY FS_Subset, FS_CardinalityType
  <1>2. Without = {}
    <2>1. SUFFICES ASSUME Without # {} PROVE FALSE
      OBVIOUS
    <2>2. PICK n \in Without : \A m \in Without : n <= m
      <3>1. Without \subseteq Nat
        OBVIOUS
      <3> HIDE DEF Without
      <3> QED
        BY <2>1, <3>1, FirstOf
    <2>3. n \in Nat /\ ~\E h : Sums(h, sn, UpToSize(S, n))
      OBVIOUS
    <2>4. CASE n = 0
      <3>1. UpToSize(S, 0) = {{}}
        BY <1>1, FS_EmptySet DEF UpToSize
      <3>2. Sums([s \in {{}} |-> 0], sn, {{}})
        BY DEF Sums
      <3> QED
        BY <2>3, <2>4, <3>1, <3>2
    <2>5. CASE n # 0
      <3>1. n - 1 \in Nat /\ ~(n <= n - 1)
        BY <2>3, <2>5
      <3>2. PICK h : Sums(h, sn, UpToSize(S, n - 1))
        BY <2>2, <3>1
      <3> DEFINE g == [s \in UpToSize(S, n) |-> IF s = {} THEN 0 ELSE sn[OneOf(s)].attempts + h[s \ {OneOf(s)}]]
      <3>3. ASSUME NEW s \in UpToSize(S, n), s # {}
            PROVE  g[s \ {OneOf(s)}] = h[s \ {OneOf(s)}]
        <4> DEFINE t == s \ {OneOf(s)}
        <4>1. OneOf(s) \in s
          BY <3>3 DEF OneOf
        <4>2. s \in SUBSET S /\ Cardinality(s) <= n /\ IsFiniteSet(s)
          BY <1>1 DEF UpToSize
        <4>3. Cardinality(t) = Cardinality(s) - 1 /\ Cardinality(s) \in Nat
          BY <3>3, <4>1, <4>2, OneLess
        <4>4. t \in UpToSize(S, n - 1) /\ t \in UpToSize(S, n)
          BY <2>3, <4>2, <4>3 DEF UpToSize
        <4> HIDE DEF t
        <4>5. h[t] = IF t = {} THEN 0 ELSE sn[OneOf(t)].attempts + h[t \ {OneOf(t)}]
          BY <3>2, <4>4 DEF Sums
        <4>6. g[t] = IF t = {} THEN 0 ELSE sn[OneOf(t)].attempts + h[t \ {OneOf(t)}]
          BY <4>4
        <4> QED
          BY <4>5, <4>6 DEF t
      <3>4. Sums(g, sn, UpToSize(S, n))
        <4>1. g = [s \in UpToSize(S, n) |-> IF s = {} THEN 0 ELSE sn[OneOf(s)].attempts + g[s \ {OneOf(s)}]]
          <5>1. \A s \in UpToSize(S, n) :
                  (IF s = {} THEN 0 ELSE sn[OneOf(s)].attempts + h[s \ {OneOf(s)}])
                    = IF s = {} THEN 0 ELSE sn[OneOf(s)].attempts + g[s \ {OneOf(s)}]
            BY <3>3, Zenon
          <5> QED
            BY <5>1, Zenon
        <4> HIDE DEF g
        <4> QED
          BY <4>1 DEF Sums
      <3> HIDE DEF g
      <3> QED
        BY <2>3, <3>4
    <2> QED
      BY <2>4, <2>5
  <1>3. Cardinality(S) \in Nat
    BY FS_CardinalityType
  <1>4. UpToSize(S, Cardinality(S)) = SUBSET S
    BY <1>1 DEF UpToSize
  <1>5. Cardinality(S) \notin Without
    BY <1>2
  <1> QED
    BY <1>3, <1>4, <1>5

\* Two records of snapshots that give the elements of a set the same attempts.
SameAttempts(sn, sm, S) == \A p \in S : sn[p].attempts = sm[p].attempts

\* Two such functions agree on a set whose elements they give the same attempts.
LEMMA SumsAgree ==
  ASSUME NEW sn, NEW sm, NEW S, NEW T, IsFiniteSet(S), NEW h, NEW g,
         Sums(h, sn, SUBSET S), Sums(g, sm, SUBSET T), S \subseteq T,
         SameAttempts(sn, sm, S)
  PROVE  h[S] = g[S]
  <1> DEFINE Apart == {n \in Nat : \E s \in SUBSET S : Cardinality(s) = n /\ h[s] # g[s]}
  <1>1. Apart = {}
    <2>1. SUFFICES ASSUME Apart # {} PROVE FALSE
      OBVIOUS
    <2>2. PICK n \in Apart : \A m \in Apart : n <= m
      <3>1. Apart \subseteq Nat
        OBVIOUS
      <3> HIDE DEF Apart
      <3> QED
        BY <2>1, <3>1, FirstOf
    <2>3. PICK s \in SUBSET S : Cardinality(s) = n /\ h[s] # g[s]
      OBVIOUS
    <2>4. h[s] = IF s = {} THEN 0 ELSE sn[OneOf(s)].attempts + h[s \ {OneOf(s)}]
      BY <2>3 DEF Sums
    <2>5. g[s] = IF s = {} THEN 0 ELSE sm[OneOf(s)].attempts + g[s \ {OneOf(s)}]
      BY <2>3 DEF Sums
    <2>6. s # {}
      BY <2>3, <2>4, <2>5
    <2>7. OneOf(s) \in s
      BY <2>6 DEF OneOf
    <2>8. h[s \ {OneOf(s)}] # g[s \ {OneOf(s)}]
      BY <2>3, <2>4, <2>5, <2>6, <2>7 DEF SameAttempts
    <2>9. IsFiniteSet(s)
      BY <2>3, FS_Subset
    <2>10. Cardinality(s \ {OneOf(s)}) = n - 1 /\ n - 1 \in Nat
      BY <2>3, <2>6, <2>7, <2>9, OneLess
    <2>11. n - 1 \in Apart
      BY <2>8, <2>10, <2>3
    <2>12. n \in Nat /\ n <= n - 1
      BY <2>2, <2>11
    <2> QED
      BY <2>12
  <1>2. Cardinality(S) \in Nat
    BY FS_CardinalityType
  <1> QED
    BY <1>1, <1>2

LEMMA AttemptsSum ==
  ASSUME NEW sn, NEW S, IsFiniteSet(S)
  PROVE  \E h : Sums(h, sn, SUBSET S) /\ AttemptsOf(sn, S) = h[S]
  <1> DEFINE f == CHOOSE h : Sums(h, sn, SUBSET S)
  <1>1. Sums(f, sn, SUBSET S)
    BY SumsExist, Zenon
  <1> QED
    BY <1>1, AttemptsChosen, Zenon

LEMMA AttemptsSame ==
  ASSUME NEW sn, NEW sm, NEW S, IsFiniteSet(S), \A p \in S : sn[p].attempts = sm[p].attempts
  PROVE  AttemptsOf(sn, S) = AttemptsOf(sm, S)
  <1>1. PICK h : Sums(h, sn, SUBSET S) /\ AttemptsOf(sn, S) = h[S]
    BY AttemptsSum
  <1>2. PICK g : Sums(g, sm, SUBSET S) /\ AttemptsOf(sm, S) = g[S]
    BY AttemptsSum
  <1>3. h[S] = g[S]
    <2>1. SameAttempts(sn, sm, S) /\ S \subseteq S
      BY DEF SameAttempts
    <2> QED
      BY <1>1, <1>2, <2>1, SumsAgree
  <1> QED
    BY <1>1, <1>2, <1>3, Zenon

LEMMA AttemptsNone ==
  ASSUME NEW sn
  PROVE  AttemptsOf(sn, {}) = 0
  <1>1. PICK h : Sums(h, sn, SUBSET {}) /\ AttemptsOf(sn, {}) = h[{}]
    BY AttemptsSum, FS_EmptySet
  <1> QED
    BY <1>1 DEF Sums

\* By the definition, the element that comes first is the one that was picked ...
LEMMA AttemptsPicked ==
  ASSUME NEW sn, NEW S, IsFiniteSet(S), S # {}
  PROVE  /\ OneOf(S) \in S
         /\ AttemptsOf(sn, S) = sn[OneOf(S)].attempts + AttemptsOf(sn, S \ {OneOf(S)})
  <1> DEFINE T == S \ {OneOf(S)}
  <1>1. OneOf(S) \in S
    BY DEF OneOf
  <1>2. IsFiniteSet(T)
    BY FS_RemoveElement
  <1>3. PICK h : Sums(h, sn, SUBSET S) /\ AttemptsOf(sn, S) = h[S]
    BY AttemptsSum
  <1>4. PICK g : Sums(g, sn, SUBSET T) /\ AttemptsOf(sn, T) = g[T]
    <2> HIDE DEF T
    <2> QED
      BY <1>2, AttemptsSum
  <1>5. h[T] = g[T]
    <2>1. T \subseteq S
      OBVIOUS
    <2>2. T \in SUBSET S
      OBVIOUS
    <2> HIDE DEF T
    <2> DEFINE k == [s \in SUBSET T |-> h[s]]
    <2>3. Sums(k, sn, SUBSET T)
      <3>1. ASSUME NEW s \in SUBSET T
            PROVE  h[s] = IF s = {} THEN 0 ELSE sn[OneOf(s)].attempts + k[s \ {OneOf(s)}]
        <4>1. h[s] = IF s = {} THEN 0 ELSE sn[OneOf(s)].attempts + h[s \ {OneOf(s)}]
          BY <1>3, <2>1 DEF Sums
        <4>2. s \ {OneOf(s)} \in SUBSET T
          OBVIOUS
        <4> QED
          BY <4>1, <4>2
      <3>2. k = [s \in SUBSET T |-> IF s = {} THEN 0 ELSE sn[OneOf(s)].attempts + k[s \ {OneOf(s)}]]
        BY <3>1, Zenon
      <3> HIDE DEF k
      <3> QED
        BY <3>2 DEF Sums
    <2>4. k[T] = h[T]
      OBVIOUS
    <2> HIDE DEF k
    <2>5. k[T] = g[T]
      <3>1. SameAttempts(sn, sn, T) /\ T \subseteq T
        BY DEF SameAttempts
      <3> QED
        BY <1>2, <1>4, <2>3, <3>1, SumsAgree
    <2> QED
      BY <2>4, <2>5
  <1>6. h[S] = sn[OneOf(S)].attempts + h[S \ {OneOf(S)}]
    BY <1>3 DEF Sums
  <1> QED
    BY <1>1, <1>3, <1>4, <1>5, <1>6

\* ... but any other could: attempts are numbers.
LEMMA AttemptsWithout ==
  ASSUME NEW sn, NEW S, IsFiniteSet(S), \A p \in S : sn[p].attempts \in Nat, NEW x \in S
  PROVE  /\ AttemptsOf(sn, S \ {x}) \in Nat
         /\ AttemptsOf(sn, S) = sn[x].attempts + AttemptsOf(sn, S \ {x})
  <1> DEFINE Good(s) == /\ AttemptsOf(sn, s) \in Nat
                        /\ \A y \in s : AttemptsOf(sn, s) = sn[y].attempts + AttemptsOf(sn, s \ {y})
             Bad == {n \in Nat : \E s \in SUBSET S : Cardinality(s) = n /\ ~Good(s)}
  <1>1. Bad = {}
    <2>1. SUFFICES ASSUME Bad # {} PROVE FALSE
      OBVIOUS
    <2>2. PICK n \in Bad : \A m \in Bad : n <= m
      <3>1. Bad \subseteq Nat
        OBVIOUS
      <3> HIDE DEF Bad
      <3> QED
        BY <2>1, <3>1, FirstOf
    <2>3. PICK s \in SUBSET S : Cardinality(s) = n /\ ~Good(s)
      OBVIOUS
    <2>4. ASSUME NEW t \in SUBSET S, Cardinality(t) = n - 1, n - 1 \in Nat
          PROVE  Good(t)
      <3>1. n \in Nat /\ ~(n <= n - 1)
        BY <2>4
      <3>2. n - 1 \notin Bad
        BY <2>2, <3>1
      <3> HIDE DEF Good
      <3> QED
        BY <2>4, <3>2
    <2>5. IsFiniteSet(s)
      BY FS_Subset
    <2>6. ASSUME NEW y \in s
          PROVE  s \ {y} \in SUBSET S /\ Good(s \ {y}) /\ n - 1 \in Nat
      <3>1. Cardinality(s \ {y}) = n - 1 /\ n - 1 \in Nat
        BY <2>3, <2>5, OneLess
      <3>2. s \ {y} \in SUBSET S
        OBVIOUS
      <3> HIDE DEF Good
      <3> QED
        BY <2>4, <3>1, <3>2
    <2>7. CASE s = {}
      BY <2>3, <2>7, AttemptsNone
    <2>8. CASE s # {}
      <3> DEFINE z == OneOf(s)
      <3>1. z \in s /\ AttemptsOf(sn, s) = sn[z].attempts + AttemptsOf(sn, s \ {z})
        BY <2>5, <2>8, AttemptsPicked
      <3> HIDE DEF z
      <3>2. sn[z].attempts \in Nat /\ AttemptsOf(sn, s \ {z}) \in Nat
        BY <2>6, <3>1
      <3>3. ASSUME NEW y \in s
            PROVE  AttemptsOf(sn, s) = sn[y].attempts + AttemptsOf(sn, s \ {y})
        <4>1. CASE y = z
          BY <3>1, <4>1
        <4>2. CASE y # z
          <5>1. y \in s \ {z} /\ z \in s \ {y}
            BY <3>1, <4>2
          <5>2. AttemptsOf(sn, s \ {z}) = sn[y].attempts + AttemptsOf(sn, (s \ {z}) \ {y})
            BY <2>6, <3>1, <5>1
          <5>3. AttemptsOf(sn, s \ {y}) = sn[z].attempts + AttemptsOf(sn, (s \ {y}) \ {z})
            BY <2>6, <5>1
          <5>4. (s \ {z}) \ {y} = (s \ {y}) \ {z}
            OBVIOUS
          <5>5. (s \ {z}) \ {y} \in SUBSET S /\ Cardinality((s \ {z}) \ {y}) \in Nat
            BY <2>5, FS_RemoveElement, FS_CardinalityType
          <5>6. AttemptsOf(sn, (s \ {z}) \ {y}) \in Int /\ sn[y].attempts \in Nat
            <6>1. AttemptsOf(sn, s \ {z}) \in Nat /\ AttemptsOf(sn, s \ {y}) \in Nat
              BY <2>6, <3>1
            <6>2. IsFiniteSet(s \ {z}) /\ s \ {z} \in SUBSET S /\ s \ {z} # {}
              BY <2>5, <5>1, FS_RemoveElement
            <6>3. sn[y].attempts \in Nat
              OBVIOUS
            <6>4. Cardinality((s \ {z}) \ {y}) \in Nat /\ Cardinality((s \ {z}) \ {y}) = n - 2
              <7>1. Cardinality(s \ {z}) = n - 1
                BY <2>3, <2>5, <3>1, OneLess
              <7>2. Cardinality((s \ {z}) \ {y}) = Cardinality(s \ {z}) - 1 /\ Cardinality((s \ {z}) \ {y}) \in Nat
                BY <5>1, <6>2, OneLess
              <7>3. n \in Nat
                OBVIOUS
              <7> QED
                BY <7>1, <7>2, <7>3
            <6>5. n - 2 \notin Bad /\ n - 2 \in Nat
              <7>1. n \in Nat
                OBVIOUS
              <7>2. ~(n <= n - 2) /\ n - 2 \in Nat
                BY <6>4, <7>1
              <7> QED
                BY <2>2, <7>2
            <6>6. Good((s \ {z}) \ {y})
              <7> HIDE DEF Good
              <7> QED
                BY <5>5, <6>4, <6>5
            <6> QED
              BY <6>3, <6>6
          <5> DEFINE a == sn[z].attempts
                     b == sn[y].attempts
                     c == AttemptsOf(sn, (s \ {z}) \ {y})
          <5>7. a \in Int /\ b \in Int /\ c \in Int
            BY <3>2, <5>6
          <5>8. AttemptsOf(sn, s) = a + (b + c) /\ AttemptsOf(sn, s \ {y}) = a + c
            BY <3>1, <5>2, <5>3, <5>4, Zenon
          <5> HIDE DEF a, b, c
          <5>9. a + (b + c) = b + (a + c)
            BY <5>7
          <5> QED
            BY <5>8, <5>9 DEF b
        <4> QED
          BY <4>1, <4>2
      <3> QED
        BY <2>3, <3>1, <3>2, <3>3
    <2> QED
      BY <2>7, <2>8
  <1>2. ASSUME NEW s \in SUBSET S PROVE Good(s)
    <2>1. Cardinality(s) \in Nat
      BY FS_Subset, FS_CardinalityType
    <2> HIDE DEF Good
    <2> QED
      BY <1>1, <2>1
  <1>3. Good(S) /\ Good(S \ {x})
    <2> HIDE DEF Good
    <2> QED
      BY <1>2
  <1> QED
    BY <1>3

\* One element comes, goes, or stays.
LEMMA CountReplaced ==
  ASSUME NEW A, NEW B, IsFiniteSet(A), NEW p, B \ {p} = A \ {p}
  PROVE  /\ IsFiniteSet(B) /\ Cardinality(A) \in Nat /\ Cardinality(B) \in Nat
         /\ Cardinality(B) = Cardinality(A) + Number(p \in B) - Number(p \in A)
         /\ Cardinality(A) >= Number(p \in A)
  <1> DEFINE C == A \ {p}
  <1>1. IsFiniteSet(C) /\ Cardinality(C) \in Nat /\ Cardinality(A) \in Nat
    BY FS_RemoveElement, FS_CardinalityType
  <1>2. p \notin C
    OBVIOUS
  <1>3. A = (IF p \in A THEN C \cup {p} ELSE C) /\ B = IF p \in B THEN C \cup {p} ELSE C
    OBVIOUS
  <1> HIDE DEF C
  <1>4. IsFiniteSet(C \cup {p}) /\ Cardinality(C \cup {p}) = Cardinality(C) + 1
    BY <1>1, <1>2, FS_AddElement
  <1>5. Cardinality(A) = Cardinality(C) + Number(p \in A)
    BY <1>1, <1>3, <1>4 DEF Number
  <1>6. IsFiniteSet(B) /\ Cardinality(B) = Cardinality(C) + Number(p \in B)
    <2>1. CASE p \in B
      <3>1. B = C \cup {p}
        BY <1>3, <2>1, Zenon
      <3> QED
        BY <1>1, <1>4, <2>1, <3>1 DEF Number
    <2>2. CASE p \notin B
      <3>1. B = C
        BY <1>3, <2>2, Zenon
      <3> QED
        BY <1>1, <2>2, <3>1 DEF Number
    <2> QED
      BY <2>1, <2>2
  <1> QED
    BY <1>1, <1>5, <1>6 DEF Number

\* The attempts of one page change.
LEMMA AttemptsReplaced ==
  ASSUME NEW sn, NEW sm, NEW S, IsFiniteSet(S), NEW p,
         \A q \in S \cup {p} : sn[q].attempts \in Nat /\ sm[q].attempts \in Nat,
         \A q \in S \ {p} : sn[q].attempts = sm[q].attempts
  PROVE  /\ AttemptsOf(sn, S) \in Nat
         /\ AttemptsOf(sm, S \cup {p}) = AttemptsOf(sn, S) - (IF p \in S THEN sn[p].attempts ELSE 0) + sm[p].attempts
  <1> DEFINE C == S \ {p}
             D == S \cup {p}
  <1>1. IsFiniteSet(C) /\ IsFiniteSet(D)
    BY FS_RemoveElement, FS_AddElement
  <1>2. p \in D /\ D \ {p} = C /\ (p \in S => S \ {p} = C) /\ (p \notin S => S = C)
    OBVIOUS
  <1>3. AttemptsOf(sn, C) = AttemptsOf(sm, C)
    <2>1. \A q \in C : sn[q].attempts = sm[q].attempts
      OBVIOUS
    <2> HIDE DEF C
    <2> QED
      BY <1>1, <2>1, AttemptsSame
  <1>4. AttemptsOf(sm, C) \in Nat /\ AttemptsOf(sm, D) = sm[p].attempts + AttemptsOf(sm, C)
    <2>1. \A q \in D : sm[q].attempts \in Nat
      OBVIOUS
    <2> HIDE DEF C, D
    <2> QED
      BY <1>1, <1>2, <2>1, AttemptsWithout
  <1>5. CASE p \in S
    <2>1. AttemptsOf(sn, S) = sn[p].attempts + AttemptsOf(sn, C)
      BY <1>5, AttemptsWithout
    <2>2. sn[p].attempts \in Nat /\ sm[p].attempts \in Nat
      OBVIOUS
    <2> HIDE DEF C, D
    <2>3. AttemptsOf(sm, D) = AttemptsOf(sn, S) - sn[p].attempts + sm[p].attempts /\ AttemptsOf(sn, S) \in Nat
      BY <1>3, <1>4, <2>1, <2>2
    <2> QED
      BY <1>5, <2>3 DEF D
  <1>6. CASE p \notin S
    <2>1. AttemptsOf(sn, S) = AttemptsOf(sn, C)
      BY <1>2, <1>6
    <2>2. sm[p].attempts \in Nat
      OBVIOUS
    <2> HIDE DEF C, D
    <2>3. AttemptsOf(sm, D) = AttemptsOf(sn, S) - 0 + sm[p].attempts /\ AttemptsOf(sn, S) \in Nat
      BY <1>3, <1>4, <2>1, <2>2
    <2> QED
      BY <1>6, <2>3 DEF D
  <1> QED
    BY <1>5, <1>6

-----------------------------------------------------------------------------
(* The inventory's types.                                                  *)

LEMMA NoRefreshTyped ==
  NoRefresh \in RefreshRows /\ NoRefresh.at = "idle" /\ NoDocument \in DocumentShape
  BY DEF NoRefresh, NoDocument, RefreshRows, DocumentShape, RefreshPhases

LEMMA InventoryStart == InventoryInit => InventoryInv
  <1> SUFFICES ASSUME InventoryInit PROVE InventoryInv
    OBVIOUS
  <1> USE InventoryAssumption
  <1>1. NoRefresh \in RefreshRows /\ NoDocument \in DocumentShape
    BY NoRefreshTyped
  <1>2. refresh \in [Refreshes -> RefreshRows] /\ \A r \in Refreshes : RefreshOK(refresh[r])
    BY <1>1 DEF InventoryInit, RefreshOK, NoRefresh
  <1>3. InventoryTypeOK
    <2>1. source \in [Sources -> [known: BOOLEAN, active: BOOLEAN, parent: Sources \cup {"none"},
                                  last: JobStatuses \cup {"none"}]]
      BY DEF InventoryInit, Unknown, Discovered
    <2>2. spent \in [requests: 0 .. MaxRequests, faults: 0 .. MaxFaults]
      BY DEF InventoryInit
    <2> QED
      BY <1>2, <2>1, <2>2 DEF InventoryInit, InventoryTypeOK, RefreshRows
  <1> QED
    BY <1>2, <1>3 DEF InventoryInv

SourceRows == [known: BOOLEAN, active: BOOLEAN, parent: Sources \cup {"none"}, last: JobStatuses \cup {"none"}]

\* InventoryInv in parts.
LEMMA InventoryParts ==
  InventoryInv <=>
    /\ source \in [Sources -> SourceRows]
    /\ entry \in [Sources -> [Pages -> {"none", "current", "past"}]]
    /\ suppressed \subseteq Pages
    /\ refresh \in [Refreshes -> RefreshRows]
    /\ \A r \in Refreshes : RefreshOK(refresh[r])
    /\ spent \in [requests: 0 .. MaxRequests, faults: 0 .. MaxFaults]
  <1>1. refresh \in [Refreshes -> RefreshRows] =>
          \A r \in Refreshes :
             /\ refresh[r].source \in Sources \cup {"none"}
             /\ refresh[r].status \in JobStatuses \cup {"none", "deleted"}
             /\ refresh[r].cancel \in BOOLEAN /\ refresh[r].at \in RefreshPhases
             /\ refresh[r].doc \in DocumentShape
    BY DEF RefreshRows
  <1> QED
    BY <1>1 DEF InventoryInv, InventoryTypeOK, SourceRows

LEMMA SpentTyped ==
  ASSUME spent \in [requests: 0 .. MaxRequests, faults: 0 .. MaxFaults], Ask \/ Fault \/ UNCHANGED spent
  PROVE  spent' \in [requests: 0 .. MaxRequests, faults: 0 .. MaxFaults]
  <1> USE InventoryAssumption
  <1>1. CASE Ask
    BY <1>1 DEF Ask
  <1>2. CASE Fault
    BY <1>2 DEF Fault
  <1> QED
    BY <1>1, <1>2

LEMMA LastTyped ==
  ASSUME source \in [Sources -> SourceRows], NEW x, NEW st \in JobStatuses
  PROVE  LastOf(x, st) \in [Sources -> SourceRows]
  <1>1. CASE x \in Sources
    <2>1. [source[x] EXCEPT !.last = st] \in SourceRows
      BY <1>1 DEF SourceRows
    <2>2. LastOf(x, st) = [source EXCEPT ![x] = [source[x] EXCEPT !.last = st]]
      BY DEF LastOf
    <2> QED
      BY <1>1, <2>1, <2>2
  <1>2. CASE x \notin Sources
    BY <1>2 DEF LastOf
  <1> QED
    BY <1>1, <1>2

LEMMA InventoryRequestKeeps ==
  ASSUME InventoryInv, InventoryRequest
  PROVE  InventoryInv'
  <1> USE InventoryAssumption
  <1> DEFINE EntryOK == entry' \in [Sources -> [Pages -> {"none", "current", "past"}]]
             RefreshesOK == refresh' \in [Refreshes -> RefreshRows] /\ \A r \in Refreshes : RefreshOK(refresh'[r])
             SourceOK == source' \in [Sources -> SourceRows]
  <1>1. /\ source \in [Sources -> SourceRows]
        /\ entry \in [Sources -> [Pages -> {"none", "current", "past"}]]
        /\ suppressed \subseteq Pages
        /\ refresh \in [Refreshes -> RefreshRows]
        /\ \A r \in Refreshes : RefreshOK(refresh[r])
        /\ spent \in [requests: 0 .. MaxRequests, faults: 0 .. MaxFaults]
    BY InventoryParts
  <1>2. SUFFICES EntryOK /\ RefreshesOK /\ SourceOK /\ suppressed' \subseteq Pages /\ Ask
    <2>1. Ask => spent' \in [requests: 0 .. MaxRequests, faults: 0 .. MaxFaults]
      BY <1>1, SpentTyped
    <2>2. (/\ source' \in [Sources -> SourceRows]
           /\ entry' \in [Sources -> [Pages -> {"none", "current", "past"}]]
           /\ suppressed' \subseteq Pages
           /\ refresh' \in [Refreshes -> RefreshRows]
           /\ \A r \in Refreshes : RefreshOK(refresh[r])'
           /\ spent' \in [requests: 0 .. MaxRequests, faults: 0 .. MaxFaults]) => InventoryInv'
      BY DEF InventoryInv, InventoryTypeOK, SourceRows, RefreshRows
    <2>3. RefreshesOK => \A r \in Refreshes : RefreshOK(refresh[r])'
      BY DEF RefreshOK
    <2> HIDE DEF EntryOK, SourceOK
    <2> QED
      BY <2>1, <2>2, <2>3 DEF EntryOK, SourceOK
  <1>3. Discovered("none") \in SourceRows /\ Unknown \in SourceRows
    BY DEF Discovered, Unknown, SourceRows
  <1>4. ASSUME NEW ps \in Selections, AddManualUrls(ps)
        PROVE  EntryOK /\ RefreshesOK /\ SourceOK /\ suppressed' \subseteq Pages /\ Ask
    BY <1>1, <1>3, <1>4 DEF AddManualUrls, Upserted
  <1>5. ASSUME NEW ps \in Selections, Suppress(ps)
        PROVE  EntryOK /\ RefreshesOK /\ SourceOK /\ suppressed' \subseteq Pages /\ Ask
    BY <1>1, <1>5 DEF Suppress
  <1>6. ASSUME NEW ps \in Selections, Restore(ps)
        PROVE  EntryOK /\ RefreshesOK /\ SourceOK /\ suppressed' \subseteq Pages /\ Ask
    BY <1>1, <1>6 DEF Restore
  <1>7. ASSUME NEW ps \in Selections, DeleteEntries(ps)
        PROVE  EntryOK /\ RefreshesOK /\ SourceOK /\ suppressed' \subseteq Pages /\ Ask
    BY <1>1, <1>7 DEF DeleteEntries, Retired
  <1>8. ASSUME NEW p \in Pages, RemoveManualEntry(p)
        PROVE  EntryOK /\ RefreshesOK /\ SourceOK /\ suppressed' \subseteq Pages /\ Ask
    BY <1>1, <1>8 DEF RemoveManualEntry
  <1>9. ASSUME NEW s \in Sources, CreateSource(s)
        PROVE  EntryOK /\ RefreshesOK /\ SourceOK /\ suppressed' \subseteq Pages /\ Ask
    BY <1>1, <1>3, <1>9 DEF CreateSource
  <1>10. ASSUME NEW s \in Sources, NEW active \in BOOLEAN, SetActive(s, active)
         PROVE  EntryOK /\ RefreshesOK /\ SourceOK /\ suppressed' \subseteq Pages /\ Ask
    <2>1. [source[s] EXCEPT !.active = active] \in SourceRows
      BY <1>1 DEF SourceRows
    <2>2. source' = [source EXCEPT ![s] = [source[s] EXCEPT !.active = active]]
      BY <1>10 DEF SetActive
    <2>3. SourceOK
      BY <1>1, <2>1, <2>2
    <2> QED
      BY <1>1, <1>10, <2>3 DEF SetActive
  <1>11. ASSUME NEW s \in Sources, DeleteSource(s)
         PROVE  EntryOK /\ RefreshesOK /\ SourceOK /\ suppressed' \subseteq Pages /\ Ask
    <2>1. EntryOK
      BY <1>1, <1>11 DEF DeleteSource
    <2>2. SourceOK
      BY <1>1, <1>3, <1>11 DEF DeleteSource
    <2>3. ASSUME NEW r \in Refreshes
          PROVE  [refresh[r] EXCEPT !.status = "deleted"] \in RefreshRows /\ RefreshOK([refresh[r] EXCEPT !.status = "deleted"])
      BY <1>1 DEF RefreshRows, RefreshOK
    <2>4. RefreshesOK
      BY <1>1, <1>11, <2>3 DEF DeleteSource
    <2> QED
      BY <1>1, <1>11, <2>1, <2>2, <2>4 DEF DeleteSource
  <1>12. ASSUME NEW s \in Sources, RequestRefresh(s)
         PROVE  EntryOK /\ RefreshesOK /\ SourceOK /\ suppressed' \subseteq Pages /\ Ask
    <2>1. Queued(s) \in RefreshRows /\ RefreshOK(Queued(s))
      <3>1. NoRefresh \in RefreshRows /\ NoRefresh.at = "idle"
        BY NoRefreshTyped
      <3>2. "queued" \in JobStatuses
        BY DEF JobStatuses, Active
      <3> QED
        BY <3>1, <3>2 DEF Queued, RefreshRows, RefreshOK
    <2>2. RefreshesOK
      BY <1>1, <1>12, <2>1 DEF RequestRefresh
    <2>3. SourceOK
      <3>1. source' = LastOf(s, "queued") /\ "queued" \in JobStatuses
        BY <1>12 DEF RequestRefresh, LastOf, JobStatuses, Active
      <3> QED
        BY <1>1, <3>1, LastTyped
    <2> QED
      BY <1>1, <1>12, <2>2, <2>3 DEF RequestRefresh
  <1>13. ASSUME NEW r \in Refreshes, CancelRefresh(r)
         PROVE  EntryOK /\ RefreshesOK /\ SourceOK /\ suppressed' \subseteq Pages /\ Ask
    <2>1. refresh[r] \in RefreshRows /\ RefreshOK(refresh[r]) /\ refresh[r].status \in Active
      BY <1>1, <1>13 DEF CancelRefresh
    <2> DEFINE row == [refresh[r] EXCEPT !.cancel = TRUE, !.status = IF @ = "queued" THEN "cancelled" ELSE @]
    <2>2. row \in RefreshRows /\ RefreshOK(row)
      BY <2>1 DEF RefreshRows, RefreshOK, JobStatuses, Terminal, Active
    <2>3. refresh' = [refresh EXCEPT ![r] = row]
      BY <1>1, <1>13 DEF CancelRefresh
    <2>4. RefreshesOK
      <3> HIDE DEF row
      <3> QED
        BY <1>1, <2>2, <2>3
    <2>5. SourceOK
      <3>1. "cancelled" \in JobStatuses
        BY DEF JobStatuses, Terminal
      <3>2. source' = LastOf(refresh[r].source, "cancelled") \/ source' = source
        BY <1>13 DEF CancelRefresh, LastOf
      <3> QED
        BY <1>1, <3>1, <3>2, LastTyped
    <2> QED
      BY <1>1, <1>13, <2>4, <2>5 DEF CancelRefresh
  <1> HIDE DEF EntryOK, RefreshesOK, SourceOK
  <1> QED
    BY <1>4, <1>5, <1>6, <1>7, <1>8, <1>9, <1>10, <1>11, <1>12, <1>13 DEF InventoryRequest, RequestBulkRefresh

LEMMA RefreshEnds ==
  ASSUME NEW r \in Refreshes, refresh \in [Refreshes -> RefreshRows], \A q \in Refreshes : RefreshOK(refresh[q]),
         refresh[r].at # "idle", NEW st \in Terminal, Ended(r, st)
  PROVE  /\ refresh' \in [Refreshes -> RefreshRows] /\ \A q \in Refreshes : RefreshOK(refresh'[q])
         /\ refresh[r].source \in Sources
  <1> DEFINE row == [refresh[r] EXCEPT !.status = st, !.at = "idle", !.doc = NoDocument]
  <1>1. refresh' = [refresh EXCEPT ![r] = row]
    BY DEF Ended
  <1>2. refresh[r] \in RefreshRows /\ RefreshOK(refresh[r])
    OBVIOUS
  <1>3. st \in JobStatuses /\ "idle" \in RefreshPhases /\ NoDocument \in DocumentShape
    BY NoRefreshTyped DEF JobStatuses, RefreshPhases
  <1>4. row \in RefreshRows
    BY <1>2, <1>3 DEF RefreshRows
  <1>5. row.at = "idle" /\ row.source = refresh[r].source /\ refresh[r].source \in Sources
    BY <1>2 DEF RefreshRows, RefreshOK
  <1>6. RefreshOK(row)
    <2> HIDE DEF row
    <2> QED
      BY <1>5 DEF RefreshOK
  <1> HIDE DEF row
  <1> QED
    BY <1>1, <1>4, <1>5, <1>6

LEMMA EntriesTyped ==
  ASSUME NEW l \in [Pages -> {"none", "current", "past"}], NEW d, NEW n
  PROVE  Materialized(l, d, n) \in [Pages -> {"none", "current", "past"}]
  <1>1. \A S : Upserted(l, S) \in [Pages -> {"none", "current", "past"}]
    BY DEF Upserted
  <1>2. \A S : \A m \in [Pages -> {"none", "current", "past"}] : Retired(m, S) \in [Pages -> {"none", "current", "past"}]
    BY DEF Retired
  <1> QED
    BY <1>1, <1>2 DEF Materialized

LEMMA FoundTyped ==
  ASSUME source \in [Sources -> SourceRows], NEW s \in Sources, NEW cs
  PROVE  Found(s, cs) \in [Sources -> SourceRows]
  <1>1. Discovered(s) \in SourceRows
    BY DEF Discovered, SourceRows
  <1> QED
    BY <1>1 DEF Found

\* The reading of an index, without the ways in which it may go.
LEMMA IndexReads ==
  ASSUME NEW r, WriteIndex(r)
  PROVE  \E visited, broken, end, doc, caught, taken :
           /\ end \in {"completed", "cancelled", "failed"}
           /\ Fault \/ UNCHANGED spent
           /\ visited \cap {refresh[r].source} \subseteq broken
           /\ \A c \in visited \ broken : doc[c] \in Documents[c]
           /\ IndexRead(r, visited, end, broken, doc, caught, taken)
  <1> DEFINE children == refresh[r].doc.children
             s == refresh[r].source
             Reading(k, end) ==
               LET visited == ToSet(SubSeq(children, 1, k))
                   caught == Caught(r, k, end)
               IN \E broken \in SUBSET visited : \E doc \in Read(visited, broken), taken \in Taken(caught) :
                    /\ visited \cap {s} \subseteq broken
                    /\ IF end = "failed" \/ ~(broken \subseteq caught \cup {s}) THEN Fault ELSE UNCHANGED spent
                    /\ IndexRead(r, visited, end, broken, doc, caught, taken)
  <1>1. PICK k \in 0 .. Len(children) : \E end \in Endings(r, k, Len(children)) : Reading(k, end)
    BY Zenon DEF WriteIndex
  <1> HIDE DEF Reading
  <1>2. PICK end \in Endings(r, k, Len(children)) : Reading(k, end)
    BY <1>1, Zenon
  <1> DEFINE visited == ToSet(SubSeq(children, 1, k))
             caught == Caught(r, k, end)
  <1>3. PICK broken \in SUBSET visited : \E doc \in Read(visited, broken), taken \in Taken(caught) :
          /\ visited \cap {s} \subseteq broken
          /\ IF end = "failed" \/ ~(broken \subseteq caught \cup {s}) THEN Fault ELSE UNCHANGED spent
          /\ IndexRead(r, visited, end, broken, doc, caught, taken)
    BY <1>2, Zenon DEF Reading
  <1>4. PICK doc \in Read(visited, broken), taken \in Taken(caught) :
          /\ visited \cap {s} \subseteq broken
          /\ IF end = "failed" \/ ~(broken \subseteq caught \cup {s}) THEN Fault ELSE UNCHANGED spent
          /\ IndexRead(r, visited, end, broken, doc, caught, taken)
    BY <1>3, Zenon
  <1>5. end \in {"completed", "cancelled", "failed"}
    BY DEF Endings
  <1>6. \A c \in visited \ broken : doc[c] \in Documents[c]
    BY <1>4 DEF Read
  <1>7. Fault \/ UNCHANGED spent
    BY <1>4, Zenon
  <1> HIDE DEF visited, caught
  <1> QED
    BY <1>4, <1>5, <1>6, <1>7

\* What a refresh may do to the inventory.
LEMMA RefreshKeeps ==
  ASSUME InventoryInv, NEW r \in Refreshes, RefreshLooks(r) \/ RefreshWrites(r) \/ RefreshFaults(r)
  PROVE  InventoryInv'
  <1> USE InventoryAssumption
  <1> DEFINE EntryOK == entry' \in [Sources -> [Pages -> {"none", "current", "past"}]]
             RefreshesOK == refresh' \in [Refreshes -> RefreshRows] /\ \A q \in Refreshes : RefreshOK(refresh'[q])
             SourceOK == source' \in [Sources -> SourceRows]
             Goal == EntryOK /\ RefreshesOK /\ SourceOK /\ suppressed' = suppressed /\ (Fault \/ UNCHANGED spent)
  <1>1. /\ source \in [Sources -> SourceRows]
        /\ entry \in [Sources -> [Pages -> {"none", "current", "past"}]]
        /\ suppressed \subseteq Pages
        /\ refresh \in [Refreshes -> RefreshRows]
        /\ \A q \in Refreshes : RefreshOK(refresh[q])
        /\ spent \in [requests: 0 .. MaxRequests, faults: 0 .. MaxFaults]
    BY InventoryParts
  <1>2. SUFFICES Goal
    <2>1. Fault \/ UNCHANGED spent => spent' \in [requests: 0 .. MaxRequests, faults: 0 .. MaxFaults]
      BY <1>1, SpentTyped
    <2>2. (/\ source' \in [Sources -> SourceRows]
           /\ entry' \in [Sources -> [Pages -> {"none", "current", "past"}]]
           /\ suppressed' \subseteq Pages
           /\ refresh' \in [Refreshes -> RefreshRows]
           /\ \A q \in Refreshes : RefreshOK(refresh[q])'
           /\ spent' \in [requests: 0 .. MaxRequests, faults: 0 .. MaxFaults]) => InventoryInv'
      BY DEF InventoryInv, InventoryTypeOK, SourceRows, RefreshRows
    <2>3. RefreshesOK => \A q \in Refreshes : RefreshOK(refresh[q])'
      BY DEF RefreshOK
    <2> HIDE DEF EntryOK, SourceOK
    <2> QED
      BY <1>1, <2>1, <2>2, <2>3 DEF EntryOK, SourceOK
  <1>3. refresh[r] \in RefreshRows /\ RefreshOK(refresh[r])
    BY <1>1
  <1>4. {"failed", "interrupted", "cancelled", "completed", "completed_with_errors"} \subseteq Terminal
        /\ Terminal \subseteq JobStatuses
    BY DEF Terminal, JobStatuses
  <1>5. ASSUME NEW st \in Terminal, EndEmpty(r, st), refresh[r].at # "idle", Fault \/ UNCHANGED spent
        PROVE  Goal
    <2>1. RefreshesOK
      BY <1>1, <1>5, RefreshEnds DEF EndEmpty
    <2>2. SourceOK
      BY <1>1, <1>4, <1>5, LastTyped DEF EndEmpty
    <2> QED
      BY <1>1, <1>5, <2>1, <2>2 DEF EndEmpty
  <1>6. ASSUME NEW row \in RefreshRows, RefreshOK(row), refresh' = [refresh EXCEPT ![r] = row]
        PROVE  RefreshesOK
    BY <1>1, <1>6
  <1>7. CASE StartRefresh(r)
    <2> DEFINE row == [refresh[r] EXCEPT !.status = "running", !.at = "fetching"]
    <2>1. row \in RefreshRows /\ RefreshOK(row)
      BY <1>3, <1>7 DEF StartRefresh, RefreshRows, RefreshOK, RefreshPhases, JobStatuses, Active
    <2>2. refresh' = [refresh EXCEPT ![r] = row]
      BY <1>1, <1>7 DEF StartRefresh
    <2>3. RefreshesOK
      BY <1>6, <2>1, <2>2
    <2>4. SourceOK
      <3>1. "running" \in JobStatuses /\ source' = LastOf(refresh[r].source, "running")
        BY <1>7 DEF StartRefresh, LastOf, JobStatuses, Active
      <3> QED
        BY <1>1, <3>1, LastTyped
    <2> QED
      BY <1>1, <1>7, <2>3, <2>4 DEF StartRefresh
  <1>8. CASE FetchDocument(r)
    <2>1. PICK d \in Documents[refresh[r].source] :
            refresh' = [refresh EXCEPT ![r].at = "fetched", ![r].doc = d]
      BY <1>8 DEF FetchDocument
    <2> DEFINE row == [refresh[r] EXCEPT !.at = "fetched", !.doc = d]
    <2>2. refresh[r].source \in Sources /\ d \in DocumentShape
      BY <1>3, <1>8 DEF FetchDocument, Running, RefreshOK
    <2>3. row \in RefreshRows
      BY <1>3, <2>2 DEF RefreshRows, RefreshPhases
    <2>4. RefreshOK(row)
      BY <1>3, <2>1, <2>2 DEF RefreshOK, RefreshRows
    <2>5. refresh' = [refresh EXCEPT ![r] = row]
      BY <1>1, <2>1
    <2>6. RefreshesOK
      <3> HIDE DEF row
      <3> QED
        BY <1>6, <2>3, <2>4, <2>5
    <2> QED
      BY <1>1, <1>8, <2>6 DEF FetchDocument
  <1>9. CASE GoOn(r)
    <2> DEFINE row == [refresh[r] EXCEPT !.at = "writing"]
    <2>1. row \in RefreshRows /\ RefreshOK(row)
      BY <1>3, <1>9 DEF GoOn, Running, RefreshRows, RefreshOK, RefreshPhases
    <2>2. refresh' = [refresh EXCEPT ![r] = row]
      BY <1>9 DEF GoOn
    <2>3. RefreshesOK
      BY <1>6, <2>1, <2>2
    <2> QED
      BY <1>1, <1>9, <2>3 DEF GoOn
  <1>10. CASE RefreshGone(r)
    <2> DEFINE row == [refresh[r] EXCEPT !.at = "idle", !.doc = NoDocument]
    <2>1. row \in RefreshRows
      BY <1>3, NoRefreshTyped DEF RefreshRows, RefreshPhases
    <2>2. RefreshOK(row)
      BY <1>3 DEF RefreshOK, RefreshRows
    <2>3. refresh' = [refresh EXCEPT ![r] = row]
      BY <1>10 DEF RefreshGone
    <2>4. RefreshesOK
      <3> HIDE DEF row
      <3> QED
        BY <1>6, <2>1, <2>2, <2>3
    <2> QED
      BY <1>1, <1>10, <2>4 DEF RefreshGone
  <1>11. CASE CancelBeforeWriting(r)
    <2>1. refresh[r].at # "idle" /\ EndEmpty(r, "cancelled") /\ UNCHANGED spent
      BY <1>11 DEF CancelBeforeWriting, Running
    <2> HIDE DEF Goal
    <2> QED
      BY <1>4, <1>5, <2>1
  <1>12. CASE RefreshManual(r)
    <2>1. refresh[r].at # "idle" /\ EndEmpty(r, "completed") /\ UNCHANGED spent
      BY <1>12 DEF RefreshManual, Running
    <2> HIDE DEF Goal
    <2> QED
      BY <1>4, <1>5, <2>1
  <1>13. CASE FetchFailed(r)
    <2>1. refresh[r].at # "idle" /\ EndEmpty(r, "failed") /\ Fault
      BY <1>13 DEF FetchFailed, Running
    <2> HIDE DEF Goal
    <2> QED
      BY <1>4, <1>5, <2>1
  <1>14. CASE RefreshMishap(r)
    <2>1. PICK st \in {"failed", "interrupted"} : EndEmpty(r, st)
      BY <1>14 DEF RefreshMishap
    <2>2. refresh[r].at # "idle" /\ Fault
      BY <1>14 DEF RefreshMishap
    <2> HIDE DEF Goal
    <2> QED
      BY <1>4, <1>5, <2>1, <2>2
  <1>15. ASSUME NEW st \in Terminal, Ended(r, st), refresh[r].at # "idle"
         PROVE  RefreshesOK /\ refresh[r].source \in Sources
    BY <1>1, <1>15, RefreshEnds
  <1>16. CASE WriteUrlset(r)
    <2> DEFINE s == refresh[r].source
               d == refresh[r].doc
    <2>1. PICK upto \in 0 .. Len(d.urls) :
            LET status == IF upto = Len(d.urls) THEN ListStatus(d) ELSE "cancelled"
            IN /\ entry' = [entry EXCEPT ![s] = Materialized(entry[s], d, upto)]
               /\ Ended(r, status)
               /\ source' = LastOf(s, status)
      BY <1>16, Zenon DEF WriteUrlset
    <2> DEFINE status == IF upto = Len(d.urls) THEN ListStatus(d) ELSE "cancelled"
    <2>2. status \in Terminal
      BY <1>4 DEF ListStatus
    <2>3. /\ refresh[r].at # "idle" /\ Ended(r, status) /\ source' = LastOf(s, status)
          /\ entry' = [entry EXCEPT ![s] = Materialized(entry[s], d, upto)]
          /\ UNCHANGED <<suppressed, spent>>
      BY <1>16, <2>1, Zenon DEF WriteUrlset, Running
    <2> HIDE DEF status, Goal
    <2>4. RefreshesOK /\ s \in Sources
      BY <1>15, <2>2, <2>3
    <2>5. SourceOK
      BY <1>1, <1>4, <2>2, <2>3, LastTyped
    <2>6. Materialized(entry[s], d, upto) \in [Pages -> {"none", "current", "past"}]
      BY <1>1, <2>4, EntriesTyped
    <2>7. EntryOK
      BY <1>1, <2>3, <2>6
    <2> QED
      BY <2>3, <2>4, <2>5, <2>7 DEF Goal
  <1>17. CASE WriteRobots(r)
    <2> DEFINE s == refresh[r].source
               children == refresh[r].doc.children
    <2>1. PICK k \in 0 .. Len(children) : \E end \in Endings(r, k, Len(children)) :
            /\ IF end = "failed" THEN Fault ELSE UNCHANGED spent
            /\ Ended(r, end)
            /\ source' = [Found(s, ToSet(SubSeq(children, 1, k))) EXCEPT ![s].last = end]
      BY <1>17, Zenon DEF WriteRobots
    <2>2. PICK end \in Endings(r, k, Len(children)) :
            /\ IF end = "failed" THEN Fault ELSE UNCHANGED spent
            /\ Ended(r, end)
            /\ source' = [Found(s, ToSet(SubSeq(children, 1, k))) EXCEPT ![s].last = end]
      BY <2>1, Zenon
    <2> DEFINE found == Found(s, ToSet(SubSeq(children, 1, k)))
    <2>3. end \in Terminal
      BY <1>4 DEF Endings
    <2>4. /\ refresh[r].at # "idle" /\ Ended(r, end) /\ source' = [found EXCEPT ![s].last = end]
          /\ UNCHANGED <<entry, suppressed>> /\ (Fault \/ UNCHANGED spent)
      BY <1>17, <2>2, Zenon DEF WriteRobots, Running
    <2> HIDE DEF Goal
    <2>5. RefreshesOK /\ s \in Sources
      BY <1>15, <2>3, <2>4
    <2>6. found \in [Sources -> SourceRows]
      BY <1>1, <2>5, FoundTyped
    <2> HIDE DEF found
    <2>7. SourceOK
      <3>1. [found[s] EXCEPT !.last = end] \in SourceRows
        BY <1>4, <2>3, <2>5, <2>6 DEF SourceRows
      <3> QED
        BY <2>4, <2>5, <2>6, <3>1
    <2> QED
      BY <1>1, <2>4, <2>5, <2>7 DEF Goal
  <1>18. CASE WriteIndex(r)
    <2> DEFINE s == refresh[r].source
    <2>1. PICK visited, broken, end, doc, caught, taken :
            /\ end \in {"completed", "cancelled", "failed"}
            /\ Fault \/ UNCHANGED spent
            /\ IndexRead(r, visited, end, broken, doc, caught, taken)
      BY <1>18, IndexReads
    <2> DEFINE status == IF end = "completed" /\ broken # {} THEN "completed_with_errors" ELSE end
               listing == visited \ broken
               found == [c \in Sources |-> IF c \in broken THEN [Found(s, visited)[c] EXCEPT !.last = "failed"]
                                           ELSE IF c \in listing
                                           THEN [Found(s, visited)[c] EXCEPT !.last = ListStatus(doc[c])]
                                           ELSE source[c]]
    <2>2. /\ entry' = [c \in Sources |-> IF c \in listing THEN Materialized(entry[c], doc[c], Len(doc[c].urls))
                                         ELSE IF c \in broken \cap caught THEN Upserted(entry[c], taken)
                                         ELSE entry[c]]
          /\ Ended(r, status)
          /\ source' = [found EXCEPT ![s].last = status]
      BY <2>1, Zenon DEF IndexRead
    <2>3. status \in Terminal /\ refresh[r].at # "idle" /\ UNCHANGED suppressed
      BY <1>4, <1>18, <2>1 DEF WriteIndex, Running
    <2>4. \A x : ListStatus(x) \in JobStatuses
      BY DEF ListStatus, JobStatuses, Terminal
    <2> HIDE DEF status, listing, Goal
    <2>5. RefreshesOK /\ s \in Sources
      BY <1>15, <2>2, <2>3
    <2>6. Found(s, visited) \in [Sources -> SourceRows]
      BY <1>1, <2>5, FoundTyped
    <2>7. found \in [Sources -> SourceRows]
      <3>1. ASSUME NEW c \in Sources, NEW st \in JobStatuses
            PROVE  [Found(s, visited)[c] EXCEPT !.last = st] \in SourceRows
        BY <2>6 DEF SourceRows
      <3>2. "failed" \in JobStatuses
        BY <1>4
      <3> QED
        BY <1>1, <2>4, <3>1, <3>2
    <2> HIDE DEF found
    <2>8. SourceOK
      <3>1. [found[s] EXCEPT !.last = status] \in SourceRows
        BY <1>4, <2>3, <2>5, <2>7 DEF SourceRows
      <3> QED
        BY <2>2, <2>5, <2>7, <3>1
    <2>9. EntryOK
      <3>1. ASSUME NEW c \in Sources
            PROVE  /\ Materialized(entry[c], doc[c], Len(doc[c].urls)) \in [Pages -> {"none", "current", "past"}]
                   /\ Upserted(entry[c], taken) \in [Pages -> {"none", "current", "past"}]
        BY <1>1, EntriesTyped DEF Upserted
      <3> QED
        BY <1>1, <2>2, <3>1
    <2> QED
      BY <2>1, <2>3, <2>5, <2>8, <2>9 DEF Goal
  <1> HIDE DEF Goal
  <1> QED
    BY <1>7, <1>8, <1>9, <1>10, <1>11, <1>12, <1>13, <1>14, <1>16, <1>17, <1>18
       DEF RefreshLooks, RefreshWrites, RefreshFaults

-----------------------------------------------------------------------------
(* Entries that are retired.                                               *)

\* Only the end of a list retires anything, and then the list is what is current.
LEMMA WholeList ==
  ASSUME NEW l \in [Pages -> {"none", "current", "past"}], NEW d \in DocumentShape, NEW n, NEW p \in Pages,
         l[p] = "current", Materialized(l, d, n)[p] = "past"
  PROVE  n = Len(d.urls) /\ CurrentOf(Materialized(l, d, n)) = Urls(d)
  <1> DEFINE seen == ToSet(SubSeq(d.urls, 1, n))
  <1>1. n = Len(d.urls)
    <2>1. SUFFICES ASSUME n # Len(d.urls) PROVE FALSE
      OBVIOUS
    <2>2. Materialized(l, d, n) = Upserted(l, seen)
      BY <2>1 DEF Materialized
    <2> QED
      BY <2>2 DEF Upserted
  <1>2. d.urls \in Seq(Pages)
    BY DEF DocumentShape
  <1>3. SubSeq(d.urls, 1, n) = d.urls
    BY <1>1, <1>2
  <1>4. seen = Urls(d) /\ Urls(d) \subseteq Pages
    <2>1. seen = Urls(d)
      BY <1>3, Zenon DEF Urls
    <2>2. \A i \in DOMAIN d.urls : d.urls[i] \in Pages
      BY <1>2
    <2> QED
      BY <2>1, <2>2 DEF Urls, ToSet
  <1>5. Materialized(l, d, n) = Retired(Upserted(l, Urls(d)), Urls(d))
    BY <1>1, <1>4 DEF Materialized
  <1> QED
    BY <1>1, <1>4, <1>5 DEF CurrentOf, Retired, Upserted

\* RetiredByWholeList, of one step.
RetiresRightly ==
  \A s \in Sources :
    (\E p \in Pages : entry[s][p] = "current" /\ entry'[s][p] = "past") =>
       \/ spent'.requests > spent.requests
       \/ /\ \E d \in Documents[s] : CurrentOf(entry'[s]) = Urls(d)
          /\ source'[s].last \in {"completed", "completed_with_errors"}

LEMMA RefreshRetires ==
  ASSUME InventoryInv, NEW r \in Refreshes, RefreshLooks(r) \/ RefreshWrites(r) \/ RefreshFaults(r),
         NEW s \in Sources, NEW p \in Pages, entry[s][p] = "current", entry'[s][p] = "past"
  PROVE  /\ \E d \in Documents[s] : CurrentOf(entry'[s]) = Urls(d)
         /\ source'[s].last \in {"completed", "completed_with_errors"}
  <1> USE InventoryAssumption
  <1>1. /\ source \in [Sources -> SourceRows]
        /\ entry \in [Sources -> [Pages -> {"none", "current", "past"}]]
        /\ refresh[r] \in RefreshRows /\ RefreshOK(refresh[r])
    BY InventoryParts
  <1>2. CASE WriteUrlset(r)
    <2> DEFINE q == refresh[r].source
               d == refresh[r].doc
    <2>1. PICK upto \in 0 .. Len(d.urls) :
            /\ entry' = [entry EXCEPT ![q] = Materialized(entry[q], d, upto)]
            /\ source' = LastOf(q, IF upto = Len(d.urls) THEN ListStatus(d) ELSE "cancelled")
      BY <1>2, Zenon DEF WriteUrlset
    <2>2. q \in Sources /\ d \in Documents[q] /\ d \in DocumentShape
      BY <1>1, <1>2 DEF WriteUrlset, Running, RefreshOK, RefreshRows
    <2>3. ListStatus(d) \in {"completed", "completed_with_errors"}
      BY DEF ListStatus
    <2> HIDE DEF d
    <2>4. s = q
      BY <1>1, <2>1, <2>2
    <2>5. entry'[s] = Materialized(entry[s], d, upto)
      BY <1>1, <2>1, <2>2, <2>4
    <2>6. upto = Len(d.urls) /\ CurrentOf(entry'[s]) = Urls(d)
      <3>1. entry[s] \in [Pages -> {"none", "current", "past"}] /\ Materialized(entry[s], d, upto)[p] = "past"
        BY <1>1, <2>5
      <3> QED
        BY <2>2, <2>5, <3>1, WholeList
    <2>7. source'[s].last = ListStatus(d)
      BY <1>1, <2>1, <2>2, <2>4, <2>6 DEF LastOf, SourceRows
    <2> QED
      BY <2>2, <2>3, <2>4, <2>6, <2>7
  <1>3. CASE WriteIndex(r)
    <2> DEFINE q == refresh[r].source
    <2>1. PICK visited, broken, end, doc, caught, taken :
            /\ visited \cap {q} \subseteq broken
            /\ \A c \in visited \ broken : doc[c] \in Documents[c]
            /\ IndexRead(r, visited, end, broken, doc, caught, taken)
      BY <1>3, IndexReads
    <2> DEFINE status == IF end = "completed" /\ broken # {} THEN "completed_with_errors" ELSE end
               listing == visited \ broken
               found == [c \in Sources |-> IF c \in broken THEN [Found(q, visited)[c] EXCEPT !.last = "failed"]
                                           ELSE IF c \in listing
                                           THEN [Found(q, visited)[c] EXCEPT !.last = ListStatus(doc[c])]
                                           ELSE source[c]]
    <2>2. /\ entry' = [c \in Sources |-> IF c \in listing THEN Materialized(entry[c], doc[c], Len(doc[c].urls))
                                         ELSE IF c \in broken \cap caught THEN Upserted(entry[c], taken)
                                         ELSE entry[c]]
          /\ source' = [found EXCEPT ![q].last = status]
      BY <2>1, Zenon DEF IndexRead
    <2>3. ListStatus(doc[s]) \in {"completed", "completed_with_errors"}
      BY DEF ListStatus
    <2>4. s \in listing /\ entry'[s] = Materialized(entry[s], doc[s], Len(doc[s].urls))
      <3>1. Upserted(entry[s], taken)[p] # "past"
        BY <1>1 DEF Upserted
      <3> HIDE DEF listing
      <3> QED
        BY <1>1, <2>2, <3>1
    <2>5. s \notin broken /\ s # q /\ doc[s] \in Documents[s] /\ doc[s] \in DocumentShape
      BY <2>1, <2>4
    <2>6. q \in Sources
      BY <1>1, <1>3 DEF WriteIndex, Running, RefreshOK
    <2> HIDE DEF status
    <2>7. CurrentOf(entry'[s]) = Urls(doc[s])
      BY <1>1, <2>4, <2>5, WholeList
    <2>8. Found(q, visited) \in [Sources -> SourceRows]
      BY <1>1, <2>6, FoundTyped
    <2>9. source'[s].last = ListStatus(doc[s])
      <3>1. source'[s] = [Found(q, visited)[s] EXCEPT !.last = ListStatus(doc[s])]
        BY <2>2, <2>4, <2>5
      <3> QED
        BY <2>8, <3>1 DEF SourceRows
    <2> QED
      BY <2>3, <2>5, <2>7, <2>9
  <1>4. CASE ~WriteUrlset(r) /\ ~WriteIndex(r)
    <2>1. UNCHANGED entry
      BY <1>4 DEF RefreshLooks, RefreshWrites, RefreshFaults, FetchDocument, GoOn, RefreshGone, StartRefresh,
                  CancelBeforeWriting, RefreshManual, WriteRobots, FetchFailed, RefreshMishap, EndEmpty
    <2> QED
      BY <1>1, <2>1
  <1> QED
    BY <1>2, <1>3, <1>4

LEMMA AskCounts ==
  ASSUME InventoryInv, Ask
  PROVE  spent'.requests > spent.requests
  BY InventoryParts, InventoryAssumption DEF Ask

LEMMA StepRetires ==
  ASSUME InventoryInv, [Next]_vars
  PROVE  RetiresRightly
  <1>1. SUFFICES ASSUME NEW s \in Sources, NEW p \in Pages, entry[s][p] = "current", entry'[s][p] = "past"
                 PROVE  \/ spent'.requests > spent.requests
                        \/ /\ \E d \in Documents[s] : CurrentOf(entry'[s]) = Urls(d)
                           /\ source'[s].last \in {"completed", "completed_with_errors"}
    BY DEF RetiresRightly
  <1>2. CASE InventoryRequest
    <2>1. Ask
      BY <1>2 DEF InventoryRequest, AddManualUrls, Suppress, Restore, DeleteEntries, RemoveManualEntry, CreateSource,
                  DeleteSource, RequestRefresh, RequestBulkRefresh, SetActive, CancelRefresh
    <2> QED
      BY <2>1, AskCounts
  <1>3. ASSUME NEW r \in Refreshes, RefreshLooks(r) \/ RefreshWrites(r) \/ RefreshFaults(r)
        PROVE  /\ \E d \in Documents[s] : CurrentOf(entry'[s]) = Urls(d)
               /\ source'[s].last \in {"completed", "completed_with_errors"}
    BY <1>1, <1>3, RefreshRetires
  <1>4. CASE UNCHANGED entry
    BY <1>1, <1>4
  <1>5. InventoryRequest \/ UNCHANGED entry \/ \E r \in Refreshes : RefreshLooks(r) \/ RefreshWrites(r) \/ RefreshFaults(r)
    <2>1. CASE Request
      BY <2>1 DEF Request, DeleteRead, inventoryVars
    <2>2. CASE Failure
      BY <2>2 DEF Failure, inventoryVars
    <2>3. CASE DeleteRefused \/ DeleteCommit \/ Unlink
      BY <2>3, Zenon DEF DeleteRefused, DeleteCommit, Unlink, inventoryVars
    <2>4. CASE \E r \in Refreshes : RefreshStep(r)
      BY <2>4 DEF RefreshStep
    <2>5. CASE \E t \in Scans : CrawlNow(t) \/ AnswerNow(t) \/ Recovery(t)
      BY <2>5, Zenon DEF CrawlNow, AnswerNow, Recovery, inventoryVars
    <2>6. CASE UNCHANGED vars
      BY <2>6 DEF vars, inventoryVars
    <2> QED
      BY <2>1, <2>2, <2>3, <2>4, <2>5, <2>6 DEF Next
  <1> QED
    BY <1>2, <1>3, <1>4, <1>5

-----------------------------------------------------------------------------
(* The start of the invariant, and what most steps leave as it was.        *)

LEMMA AsleepTyped ==
  /\ Asleep \in Crawlers /\ Asleep.at = "idle" /\ Asleep.seen = {} /\ Asleep.fetched = {}
  /\ NoItem \in Items /\ NoAnswer \in Answers /\ Unvisited \in Snapshots /\ NoScan \in ScanRows
  <1> USE CrawlAssumption
  <1>1. NoItem \in Items /\ NoAnswer \in Answers
    BY DEF NoItem, Item, Items, NoAnswer, Answers
  <1>2. Unvisited \in Snapshots /\ NoScan \in ScanRows
    BY DEF Unvisited, Snapshots, NoScan, ScanRows, StopReasons
  <1>3. <<>> \in Seq(Items) /\ "idle" \in CrawlPhases
    BY DEF CrawlPhases
  <1> QED
    BY <1>1, <1>2, <1>3 DEF Asleep, Crawlers

LEMMA PagesFinite ==
  ASSUME NEW S \in SUBSET Pages
  PROVE  IsFiniteSet(S) /\ Cardinality(S) \in Nat /\ S \subseteq Nat
  BY InventoryAssumption, FS_Subset, FS_CardinalityType

\* Nothing visited, nothing counted.
LEMMA NothingTallied ==
  ASSUME NEW row, NEW sd, NEW sn, NotBegun(sd, sn),
         row.failed = 0, row.attempts = 0, row.retries = 0, row.exhausted = 0
  PROVE  Tallied(row, sd, sn)
  <1>1. \A p \in Pages : sn[p].state = "none" /\ sn[p].attempts = 0
    BY DEF NotBegun, Unvisited
  <1>2. Visited(sn) = {} /\ FailedPages(sn) = {} /\ GivenUp(sn) = {}
    BY <1>1 DEF Visited, FailedPages, GivenUp, Outcomes, Failing, Transient
  <1>3. Attempted(sn) = AttemptsOf(sn, Visited(sn))
    BY DEF Attempted, AttemptsOf
  <1>4. AttemptsOf(sn, {}) = 0
    BY AttemptsNone
  <1>5. Cardinality({}) = 0
    BY FS_EmptySet
  <1>6. Attempted(sn) = 0
    BY <1>2, <1>3, <1>4, Zenon
  <1>7. \A p \in Pages : sd[p] # "failed" /\ sd[p] # "fetched"
    BY DEF NotBegun
  <1> QED
    BY <1>1, <1>2, <1>5, <1>6, <1>7 DEF Tallied

\* Of the row the tally reads four counters.
LEMMA TallyKept ==
  ASSUME NEW row, NEW sd, NEW sn, NEW row1, Tallied(row, sd, sn),
         row1.failed = row.failed, row1.attempts = row.attempts, row1.retries = row.retries,
         row1.exhausted = row.exhausted
  PROVE  Tallied(row1, sd, sn)
  BY Zenon DEF Tallied

\* The steps of one scan.
LEMMA OneScan ==
  ASSUME ScansOK, NEW s \in Scans, ScanOK(scan'[s], seed'[s], snap'[s], crawl'[s]),
         \A t \in Scans \ {s} : /\ scan'[t] = scan[t] /\ seed'[t] = seed[t]
                                /\ snap'[t] = snap[t] /\ crawl'[t] = crawl[t]
  PROVE  ScansOK'
  <1>1. SUFFICES ASSUME NEW t \in Scans PROVE ScanOK(scan'[t], seed'[t], snap'[t], crawl'[t])
    BY DEF ScansOK
  <1>2. CASE t = s
    BY <1>2, Zenon
  <1>3. CASE t # s
    BY <1>3, Zenon DEF ScansOK
  <1> QED
    BY <1>2, <1>3

\* Steps that write no content and receive none.
LEMMA FilesStill ==
  ASSUME FilesInv, DeletionTyped, UNCHANGED <<snap, rows, artifacts, files, raced, del>>,
         \A s \in Scans : crawl'[s].at = "answered" => crawl[s].at = "answered" /\ crawl'[s].answer = crawl[s].answer,
         \A s \in Scans : scan[s].status \in Terminal \cup {"deleted"} => scan'[s].status \in Terminal \cup {"deleted"}
  PROVE  FilesInv'
  <1>1. FilesKept'
    BY DEF FilesInv, FilesKept, ReferredTo
  <1>2. PublishedKept'
    BY DEF FilesInv, PublishedKept
  <1>3. UnlinkedGone' /\ SnapsParsed'
    BY DEF FilesInv, UnlinkedGone, SnapsParsed
  <1>4. DeletedEnded'
    BY DEF FilesInv, DeletedEnded, DeletionTyped
  <1> QED
    BY <1>1, <1>2, <1>3, <1>4 DEF FilesInv

LEMMA StartOK == Init => IInv
  <1> SUFFICES ASSUME Init PROVE IInv
    OBVIOUS
  <1> USE CrawlAssumption
  <1>1. InventoryInv
    BY InventoryStart DEF Init
  <1>2. CrawlTyped
    <2>1. scan \in [Scans -> ScanRows] /\ snap \in [Scans -> [Pages -> Snapshots]] /\ crawl \in [Scans -> Crawlers]
      BY AsleepTyped DEF Init, CrawlInit
    <2>2. seed \in [Scans -> [Pages -> SeedStates]]
      BY DEF Init, CrawlInit, SeedStates
    <2> QED
      BY <2>1, <2>2 DEF Init, CrawlInit, CrawlTyped
  <1>3. DeletionTyped
    BY DEF Init, NoDeletion, DeletionTyped
  <1>4. FilesInv
    <2>1. \A s \in Scans : ReferredTo(s) = {} /\ \A p \in Pages : ~snap[s][p].parsed /\ snap[s][p].body = NoBody
      BY DEF Init, CrawlInit, ReferredTo, Unvisited
    <2>2. \A s \in Scans : crawl[s].at # "answered"
      BY AsleepTyped DEF Init, CrawlInit
    <2> QED
      BY <2>1, <2>2 DEF FilesInv, FilesKept, PublishedKept, UnlinkedGone, DeletedEnded, SnapsParsed, Init, NoDeletion, CrawlInit
  <1>5. ScansOK
    <2> SUFFICES ASSUME NEW s \in Scans PROVE ScanOK(scan[s], seed[s], snap[s], crawl[s])
      BY DEF ScansOK
    <2>1. scan[s] = NoScan /\ crawl[s] = Asleep /\ NotBegun(seed[s], snap[s])
      BY DEF Init, CrawlInit, NotBegun
    <2>2. scan[s].status = "none" /\ scan[s].stop = "none"
      BY <2>1 DEF NoScan
    <2>3. Cardinality({}) = 0
      BY FS_EmptySet
    <2> QED
      BY <2>1, <2>2, <2>3, AsleepTyped DEF ScanOK, Terminal
  <1> QED
    BY <1>1, <1>2, <1>3, <1>4, <1>5 DEF IInv

-----------------------------------------------------------------------------
(* Steps of a crawler that write no snapshot.                              *)

CrawlInv == CrawlTyped /\ DeletionTyped /\ FilesInv /\ ScansOK

LEMMA ScanParts ==
  ASSUME CrawlInv, NEW s \in Scans
  PROVE  /\ scan[s] \in ScanRows /\ seed[s] \in [Pages -> SeedStates] /\ snap[s] \in [Pages -> Snapshots]
         /\ crawl[s] \in Crawlers
         /\ ScanOK(scan[s], seed[s], snap[s], crawl[s])
  BY DEF CrawlInv, CrawlTyped, ScansOK

\* A step of one scan that changes its row and its crawler.
LEMMA MoveKeeps ==
  ASSUME CrawlInv, NEW s \in Scans, NEW row \in ScanRows, NEW c \in Crawlers,
         scan' = [scan EXCEPT ![s] = row], crawl' = [crawl EXCEPT ![s] = c],
         UNCHANGED <<seed, snap, rows, artifacts, files, del, raced>>,
         c.at = "answered" => crawl[s].at = "answered" /\ c.answer = crawl[s].answer,
         scan[s].status \in Terminal \cup {"deleted"} => row.status \in Terminal \cup {"deleted"},
         ScanOK(row, seed[s], snap[s], c)
  PROVE  CrawlInv'
  <1>1. scan \in [Scans -> ScanRows] /\ crawl \in [Scans -> Crawlers]
    BY DEF CrawlInv, CrawlTyped
  <1>2. scan'[s] = row /\ crawl'[s] = c /\ \A t \in Scans \ {s} : scan'[t] = scan[t] /\ crawl'[t] = crawl[t]
    BY <1>1
  <1>3. CrawlTyped'
    BY <1>1 DEF CrawlInv, CrawlTyped
  <1>4. DeletionTyped'
    BY DEF CrawlInv, DeletionTyped
  <1>5. FilesInv'
    <2>1. \A t \in Scans : crawl'[t].at = "answered" => crawl[t].at = "answered" /\ crawl'[t].answer = crawl[t].answer
      <3> TAKE t \in Scans
      <3>1. CASE t = s
        BY <1>2, <3>1, Zenon
      <3>2. CASE t # s
        BY <1>2, <3>2, Zenon
      <3> QED
        BY <3>1, <3>2
    <2>2. \A t \in Scans : scan[t].status \in Terminal \cup {"deleted"} => scan'[t].status \in Terminal \cup {"deleted"}
      <3> TAKE t \in Scans
      <3>1. CASE t = s
        BY <1>2, <3>1, Zenon
      <3>2. CASE t # s
        BY <1>2, <3>2, Zenon
      <3> QED
        BY <3>1, <3>2
    <2> QED
      BY <2>1, <2>2, FilesStill DEF CrawlInv
  <1>6. ScansOK'
    <2>1. ScanOK(scan'[s], seed'[s], snap'[s], crawl'[s])
      BY <1>2, Zenon
    <2>2. \A t \in Scans \ {s} : /\ scan'[t] = scan[t] /\ seed'[t] = seed[t]
                                 /\ snap'[t] = snap[t] /\ crawl'[t] = crawl[t]
      BY <1>2
    <2> QED
      BY <2>1, <2>2, OneScan DEF CrawlInv
  <1> QED
    BY <1>3, <1>4, <1>5, <1>6 DEF CrawlInv

\* What is pending, and where it stands, is all the work there is.
LEMMA SameWork ==
  ASSUME NEW row, NEW sd, NEW sn, NEW c, NEW c1, WorkOK(row, sd, sn, c),
         c1.queue = c.queue, c1.retry = c.retry, c1.seen = c.seen, c1.fetched = c.fetched, InHand(c1) = InHand(c),
         HasInHand(c1) => FirstAttempt(c1.item, sn) \/ NextAttempt(c1.item, sn)
  PROVE  WorkOK(row, sd, sn, c1)
  <1>1. Pending(c1) = Pending(c)
    BY DEF Pending
  <1>2. Partition(c1) /\ SnapsFit(c1, sn)
    BY <1>1 DEF WorkOK, Partition, SnapsFit
  <1>3. Attempts(c1, sn)
    BY DEF WorkOK, Attempts
  <1>4. LinksMet(row, c1, sn)
    BY DEF WorkOK, LinksMet
  <1> QED
    BY <1>1, <1>2, <1>3, <1>4 DEF WorkOK

\* The crawler of a scan moves, and the scan's row stays.
LEMMA ScanMoves ==
  ASSUME NEW row, NEW sd, NEW sn, NEW c, NEW c1, ScanOK(row, sd, sn, c),
         row.status = "running" => CrawlerOK(row, sd, sn, c1),
         c1.at = "answered" => AnswerOK(c1.answer),
         Cardinality(c1.seen) <= MaxPages, c1.fetched \subseteq c1.seen
  PROVE  ScanOK(row, sd, sn, c1)
  BY Zenon DEF ScanOK

LEMMA CrawlerMoves ==
  ASSUME CrawlInv, NEW s \in Scans, NEW c \in Crawlers, crawl' = [crawl EXCEPT ![s] = c],
         UNCHANGED <<scan, seed, snap, rows, artifacts, files, del, raced>>,
         c.at # "answered",
         scan[s].status = "running" => CrawlerOK(scan[s], seed[s], snap[s], c),
         Cardinality(c.seen) <= MaxPages, c.fetched \subseteq c.seen
  PROVE  CrawlInv'
  <1>1. ScanOK(scan[s], seed[s], snap[s], crawl[s]) /\ scan[s] \in ScanRows
    BY ScanParts
  <1>2. ScanOK(scan[s], seed[s], snap[s], c)
    BY <1>1, ScanMoves
  <1>3. scan' = [scan EXCEPT ![s] = scan[s]]
    BY DEF CrawlInv, CrawlTyped
  <1> QED
    BY <1>1, <1>2, <1>3, MoveKeeps

\* A crawler that is put down.
LEMMA PutDown ==
  ASSUME NEW row, NEW sd, NEW sn
  PROVE  CrawlerOK(row, sd, sn, Asleep) /\ Asleep.at # "answered" /\ Asleep \in Crawlers
         /\ Cardinality(Asleep.seen) <= MaxPages /\ Asleep.fetched \subseteq Asleep.seen
  <1>1. Cardinality({}) = 0 /\ 0 <= MaxPages
    BY FS_EmptySet, CrawlAssumption
  <1> QED
    BY <1>1, AsleepTyped DEF CrawlerOK

LEMMA CrashKeeps ==
  ASSUME CrawlInv, NEW s \in Scans, CrawlCrash(s) \/ ScanLost(s), UNCHANGED <<del, raced>>
  PROVE  CrawlInv'
  <1>1. /\ crawl' = [crawl EXCEPT ![s] = Asleep]
        /\ UNCHANGED <<scan, seed, snap, rows, artifacts, files, del, raced>>
    BY DEF CrawlCrash, ScanLost
  <1> QED
    BY <1>1, PutDown, CrawlerMoves

\* A crawler that goes on with what it has, or lets go of it.
LEMMA PhaseKeeps ==
  ASSUME CrawlInv, NEW s \in Scans, NEW phase \in CrawlPhases, NEW candidate \in BOOLEAN,
         crawl' = [crawl EXCEPT ![s] = [crawl[s] EXCEPT !.at = phase, !.candidate = candidate]],
         UNCHANGED <<scan, seed, snap, rows, artifacts, files, del, raced>>,
         \/ phase \in {"idle", "broken"}
         \/ (phase = "ending" /\ (crawl[s].at = "next" \/ scan[s].cancel))
         \/ (phase \in {"picked", "asked"} /\ HasInHand(crawl[s]))
  PROVE  CrawlInv'
  <1> DEFINE c == crawl[s]
             c1 == [crawl[s] EXCEPT !.at = phase, !.candidate = candidate]
  <1>1. c \in Crawlers /\ ScanOK(scan[s], seed[s], snap[s], c)
    BY ScanParts
  <1>2. c1 \in Crawlers
    BY <1>1 DEF Crawlers
  <1>3. /\ c1.queue = c.queue /\ c1.retry = c.retry /\ c1.seen = c.seen /\ c1.fetched = c.fetched
        /\ c1.item = c.item /\ c1.at = phase
    BY <1>1 DEF Crawlers
  <1> HIDE DEF c1
  <1>4. ASSUME scan[s].status = "running", phase \notin {"idle", "broken"}, ~(phase = "ending" /\ scan[s].cancel)
        PROVE  WorkOK(scan[s], seed[s], snap[s], c1)
    <2>1. (phase = "ending" /\ c.at = "next") \/ (phase \in {"picked", "asked"} /\ HasInHand(c))
      BY <1>4
    <2>2. WorkOK(scan[s], seed[s], snap[s], c)
      BY <1>1, <1>4, <2>1 DEF ScanOK, CrawlerOK, HasInHand
    <2>3. InHand(c1) = InHand(c)
      BY <1>3, <2>1 DEF InHand, HasInHand
    <2>4. HasInHand(c1) => FirstAttempt(c1.item, snap[s]) \/ NextAttempt(c1.item, snap[s])
      <3>1. HasInHand(c1) => HasInHand(c)
        BY <1>3, <2>1 DEF HasInHand
      <3> QED
        BY <1>3, <2>2, <3>1 DEF WorkOK, Attempts
    <2> QED
      BY <1>3, <2>2, <2>3, <2>4, SameWork
  <1>5. scan[s].status = "running" => CrawlerOK(scan[s], seed[s], snap[s], c1)
    BY <1>3, <1>4 DEF CrawlerOK
  <1>6. Cardinality(c1.seen) <= MaxPages /\ c1.fetched \subseteq c1.seen /\ c1.at # "answered"
    BY <1>1, <1>3 DEF ScanOK
  <1>7. crawl' = [crawl EXCEPT ![s] = c1]
    BY DEF c1
  <1> QED
    BY <1>2, <1>5, <1>6, <1>7, CrawlerMoves

LEMMA LeaveKeeps ==
  ASSUME CrawlInv, NEW s \in Scans, Leave(s) \/ Wait(s) \/ Send(s) \/ StoreFails(s), UNCHANGED <<del, raced>>
  PROVE  CrawlInv'
  <1>1. crawl[s] \in Crawlers
    BY ScanParts
  <1>2. \A phase : [crawl EXCEPT ![s].at = phase] =
                     [crawl EXCEPT ![s] = [crawl[s] EXCEPT !.at = phase, !.candidate = crawl[s].candidate]]
    BY <1>1 DEF CrawlInv, CrawlTyped, Crawlers
  <1>3. crawl[s].candidate \in BOOLEAN
    BY <1>1 DEF Crawlers
  <1>4. CASE Leave(s)
    <2>1. crawl' = [crawl EXCEPT ![s] = [crawl[s] EXCEPT !.at = "ending", !.candidate = crawl[s].candidate]]
      BY <1>2, <1>4 DEF Leave, Goto
    <2>2. crawl[s].at = "next" /\ UNCHANGED <<scan, seed, snap, rows, artifacts, files, del, raced>>
      BY <1>4 DEF Leave
    <2> QED
      BY <1>3, <2>1, <2>2, PhaseKeeps DEF CrawlPhases
  <1>5. CASE Wait(s)
    <2>1. PICK phase \in {"ending", "picked"} :
            /\ crawl' = [crawl EXCEPT ![s] = [crawl[s] EXCEPT !.at = phase, !.candidate = crawl[s].candidate]]
            /\ phase = "ending" => scan[s].cancel
      BY <1>2, <1>5 DEF Wait, Goto
    <2>2. HasInHand(crawl[s]) /\ UNCHANGED <<scan, seed, snap, rows, artifacts, files, del, raced>>
      BY <1>5 DEF Wait, HasInHand
    <2> QED
      BY <1>3, <2>1, <2>2, PhaseKeeps DEF CrawlPhases
  <1>6. CASE Send(s)
    <2>1. crawl' = [crawl EXCEPT ![s] = [crawl[s] EXCEPT !.at = "asked", !.candidate = Candidate(crawl[s].item.page)]]
      BY <1>6 DEF Send
    <2>2. HasInHand(crawl[s]) /\ UNCHANGED <<scan, seed, snap, rows, artifacts, files, del, raced>>
      BY <1>6 DEF Send, HasInHand
    <2>3. Candidate(crawl[s].item.page) \in BOOLEAN
      BY DEF Candidate
    <2> QED
      BY <2>1, <2>2, <2>3, PhaseKeeps DEF CrawlPhases
  <1>7. CASE StoreFails(s)
    <2>1. crawl' = [crawl EXCEPT ![s] = [crawl[s] EXCEPT !.at = "broken", !.candidate = crawl[s].candidate]]
      BY <1>2, <1>7 DEF StoreFails, Goto
    <2>2. UNCHANGED <<scan, seed, snap, rows, artifacts, files, del, raced>>
      BY <1>7 DEF StoreFails
    <2> QED
      BY <1>3, <2>1, <2>2, PhaseKeeps DEF CrawlPhases
  <1> QED
    BY <1>4, <1>5, <1>6, <1>7

\* The first of a list is taken off it.
LEMMA HeadTail ==
  ASSUME NEW q \in Seq(Items), q # <<>>, Distinct(q)
  PROVE  /\ Head(q) \in Items /\ Tail(q) \in Seq(Items) /\ Head(q) = q[1] /\ 1 \in DOMAIN q
         /\ PagesOf(q) = PagesOf(Tail(q)) \cup {Head(q).page} /\ Head(q).page \notin PagesOf(Tail(q))
         /\ Distinct(Tail(q))
         /\ \A i \in DOMAIN Tail(q) : \E j \in DOMAIN q : Tail(q)[i] = q[j]
  <1> DEFINE t == Tail(q)
  <1>1. Len(q) \in Nat \ {0} /\ DOMAIN q = 1 .. Len(q) /\ Head(q) = q[1] /\ 1 \in DOMAIN q
    OBVIOUS
  <1>2. t \in Seq(Items) /\ DOMAIN t = 1 .. Len(q) - 1 /\ \A i \in DOMAIN t : t[i] = q[i + 1]
    OBVIOUS
  <1>3. \A i \in DOMAIN t : i + 1 \in DOMAIN q /\ i + 1 # 1
    BY <1>1, <1>2
  <1>4. \A j \in DOMAIN q : j # 1 => j - 1 \in DOMAIN t /\ (j - 1) + 1 = j
    BY <1>1, <1>2
  <1> HIDE DEF t
  <1>5. PagesOf(q) = PagesOf(t) \cup {Head(q).page}
    <2>1. \A x \in PagesOf(t) : x \in PagesOf(q)
      BY <1>2, <1>3 DEF PagesOf
    <2>2. Head(q).page \in PagesOf(q)
      BY <1>1 DEF PagesOf
    <2>3. ASSUME NEW x \in PagesOf(q), x # Head(q).page
          PROVE  x \in PagesOf(t)
      <3>1. PICK j \in DOMAIN q : x = q[j].page
        BY DEF PagesOf
      <3>2. j # 1
        BY <1>1, <2>3, <3>1
      <3>3. j - 1 \in DOMAIN t /\ t[j - 1] = q[j]
        BY <1>2, <1>4, <3>2
      <3> QED
        BY <3>1, <3>3 DEF PagesOf
    <2> QED
      BY <2>1, <2>2, <2>3
  <1>6. Head(q).page \notin PagesOf(t)
    <2>1. \A i \in DOMAIN t : q[1].page # q[i + 1].page
      BY <1>1, <1>3 DEF Distinct
    <2> QED
      BY <1>1, <1>2, <2>1 DEF PagesOf
  <1>7. Distinct(t)
    <2>1. \A i, j \in DOMAIN t : q[i + 1].page = q[j + 1].page => i + 1 = j + 1
      BY <1>3 DEF Distinct
    <2>2. \A i, j \in DOMAIN t : i + 1 = j + 1 => i = j
      BY <1>2
    <2> QED
      BY <1>2, <2>1, <2>2 DEF Distinct
  <1>8. q[1] \in Items
    BY <1>1
  <1>9. \A i \in DOMAIN t : \E j \in DOMAIN q : t[i] = q[j]
    BY <1>2, <1>3
  <1> QED
    BY <1>1, <1>2, <1>5, <1>6, <1>7, <1>8, <1>9 DEF t

\* A page is taken in hand.
LEMMA PopWork ==
  ASSUME NEW row, NEW sd, NEW sn, NEW c \in Crawlers, NEW c1, WorkOK(row, sd, sn, c), ~HasInHand(c), HasInHand(c1),
         \/ /\ c.queue # <<>> /\ c1.item = Head(c.queue)
            /\ c1.queue = Tail(c.queue) /\ c1.retry = c.retry
         \/ /\ c.retry # <<>> /\ c1.item = Head(c.retry)
            /\ c1.queue = c.queue /\ c1.retry = Tail(c.retry),
         c1.seen = c.seen, c1.fetched = c.fetched
  PROVE  WorkOK(row, sd, sn, c1) /\ c1.item \in Items /\ c1.queue \in Seq(Items) /\ c1.retry \in Seq(Items)
  <1>1. c.queue \in Seq(Items) /\ c.retry \in Seq(Items)
    BY DEF Crawlers
  <1>2. Partition(c) /\ Attempts(c, sn)
    BY DEF WorkOK
  <1>3. InHand(c) = {} /\ InHand(c1) = {c1.item.page}
    BY DEF InHand
  <1>4. /\ c1.item \in Items /\ c1.queue \in Seq(Items) /\ c1.retry \in Seq(Items)
        /\ PagesOf(c.queue) \cup PagesOf(c.retry) = PagesOf(c1.queue) \cup PagesOf(c1.retry) \cup {c1.item.page}
        /\ Distinct(c1.queue) /\ Distinct(c1.retry)
        /\ PagesOf(c1.queue) \cap PagesOf(c1.retry) = {}
        /\ c1.item.page \notin PagesOf(c1.queue) \cup PagesOf(c1.retry)
        /\ \A i \in DOMAIN c1.queue : FirstAttempt(c1.queue[i], sn)
        /\ \A i \in DOMAIN c1.retry : NextAttempt(c1.retry[i], sn)
        /\ FirstAttempt(c1.item, sn) \/ NextAttempt(c1.item, sn)
    <2>1. CASE c.queue # <<>> /\ c1.item = Head(c.queue) /\ c1.queue = Tail(c.queue) /\ c1.retry = c.retry
      <3>1. Distinct(c.queue)
        BY <1>2 DEF Partition
      <3>2. /\ Head(c.queue) \in Items /\ Tail(c.queue) \in Seq(Items) /\ Head(c.queue) = c.queue[1] /\ 1 \in DOMAIN c.queue
            /\ PagesOf(c.queue) = PagesOf(Tail(c.queue)) \cup {Head(c.queue).page}
            /\ Head(c.queue).page \notin PagesOf(Tail(c.queue))
            /\ Distinct(Tail(c.queue))
            /\ \A i \in DOMAIN Tail(c.queue) : \E j \in DOMAIN c.queue : Tail(c.queue)[i] = c.queue[j]
        BY <1>1, <2>1, <3>1, HeadTail
      <3>3. \A i \in DOMAIN c1.queue : \E j \in DOMAIN c.queue : c1.queue[i] = c.queue[j]
        BY <2>1, <3>2, Zenon
      <3>4. /\ \A i \in DOMAIN c1.queue : FirstAttempt(c1.queue[i], sn)
            /\ \A i \in DOMAIN c1.retry : NextAttempt(c1.retry[i], sn)
            /\ FirstAttempt(c1.item, sn)
        BY <1>2, <2>1, <3>2, <3>3, Zenon DEF Attempts
      <3> QED
        BY <1>1, <1>2, <2>1, <3>2, <3>4 DEF Partition
    <2>2. CASE c.retry # <<>> /\ c1.item = Head(c.retry) /\ c1.queue = c.queue /\ c1.retry = Tail(c.retry)
      <3>1. Distinct(c.retry)
        BY <1>2 DEF Partition
      <3>2. /\ Head(c.retry) \in Items /\ Tail(c.retry) \in Seq(Items) /\ Head(c.retry) = c.retry[1] /\ 1 \in DOMAIN c.retry
            /\ PagesOf(c.retry) = PagesOf(Tail(c.retry)) \cup {Head(c.retry).page}
            /\ Head(c.retry).page \notin PagesOf(Tail(c.retry))
            /\ Distinct(Tail(c.retry))
            /\ \A i \in DOMAIN Tail(c.retry) : \E j \in DOMAIN c.retry : Tail(c.retry)[i] = c.retry[j]
        BY <1>1, <2>2, <3>1, HeadTail
      <3>3. \A i \in DOMAIN c1.retry : \E j \in DOMAIN c.retry : c1.retry[i] = c.retry[j]
        BY <2>2, <3>2, Zenon
      <3>4. /\ \A i \in DOMAIN c1.queue : FirstAttempt(c1.queue[i], sn)
            /\ \A i \in DOMAIN c1.retry : NextAttempt(c1.retry[i], sn)
            /\ NextAttempt(c1.item, sn)
        BY <1>2, <2>2, <3>2, <3>3, Zenon DEF Attempts
      <3> QED
        BY <1>1, <1>2, <2>2, <3>2, <3>4 DEF Partition
    <2> QED
      BY <2>1, <2>2, Zenon
  <1>5. Pending(c1) = Pending(c)
    BY <1>3, <1>4 DEF Pending
  <1>6. Partition(c1)
    BY <1>2, <1>3, <1>4, <1>5 DEF Partition
  <1>7. Attempts(c1, sn)
    BY <1>4 DEF Attempts
  <1>8. SnapsFit(c1, sn) /\ LinksMet(row, c1, sn)
    BY DEF WorkOK, SnapsFit, LinksMet
  <1>9. WorkOK(row, sd, sn, c1)
    BY <1>5, <1>6, <1>7, <1>8 DEF WorkOK
  <1> QED
    BY <1>4, <1>9

LEMMA PopKeeps ==
  ASSUME CrawlInv, NEW s \in Scans, Pop(s), UNCHANGED <<del, raced>>
  PROVE  CrawlInv'
  <1> DEFINE c == crawl[s]
             retrying == c.queue = <<>>
             c1 == [c EXCEPT !.at = IF retrying THEN "waiting" ELSE "picked",
                             !.item = Head(IF retrying THEN c.retry ELSE c.queue),
                             !.queue = IF retrying THEN c.queue ELSE Tail(c.queue),
                             !.retry = IF retrying THEN Tail(c.retry) ELSE c.retry]
  <1>1. c \in Crawlers /\ ScanOK(scan[s], seed[s], snap[s], c)
    BY ScanParts
  <1>2. /\ c.at = "next" /\ Owned(s) /\ ~(c.queue = <<>> /\ c.retry = <<>>)
        /\ crawl' = [crawl EXCEPT ![s] = c1]
        /\ UNCHANGED <<scan, seed, snap, rows, artifacts, files, del, raced>>
    BY DEF Pop, Exhausted
  <1>3. WorkOK(scan[s], seed[s], snap[s], c) /\ ~HasInHand(c)
    BY <1>1, <1>2 DEF ScanOK, CrawlerOK, Owned, HasInHand
  <1>4. /\ c1.seen = c.seen /\ c1.fetched = c.fetched /\ c1.at = (IF retrying THEN "waiting" ELSE "picked")
        /\ c1.item = Head(IF retrying THEN c.retry ELSE c.queue)
        /\ c1.queue = (IF retrying THEN c.queue ELSE Tail(c.queue))
        /\ c1.retry = (IF retrying THEN Tail(c.retry) ELSE c.retry)
        /\ c1.touched = c.touched /\ c1.candidate = c.candidate /\ c1.answer = c.answer
    BY <1>1 DEF Crawlers
  <1> HIDE DEF c1
  <1>6. HasInHand(c1) /\ c1.at \in {"waiting", "picked"}
    BY <1>4 DEF HasInHand
  <1>7. \/ /\ c.queue # <<>> /\ c1.item = Head(c.queue)
           /\ c1.queue = Tail(c.queue) /\ c1.retry = c.retry
        \/ /\ c.retry # <<>> /\ c1.item = Head(c.retry)
           /\ c1.queue = c.queue /\ c1.retry = Tail(c.retry)
    BY <1>2, <1>4, Zenon
  <1>8. /\ WorkOK(scan[s], seed[s], snap[s], c1)
        /\ c1.item \in Items /\ c1.queue \in Seq(Items) /\ c1.retry \in Seq(Items)
    BY <1>1, <1>3, <1>4, <1>6, <1>7, PopWork
  <1>9. c1 \in Crawlers
    <2> DEFINE at == IF retrying THEN "waiting" ELSE "picked"
               item == Head(IF retrying THEN c.retry ELSE c.queue)
               queue == IF retrying THEN c.queue ELSE Tail(c.queue)
               retry == IF retrying THEN Tail(c.retry) ELSE c.retry
    <2>1. item \in Items /\ queue \in Seq(Items) /\ retry \in Seq(Items)
      BY <1>4, <1>8, Zenon
    <2>2. at \in CrawlPhases
      BY DEF CrawlPhases
    <2>3. c1 = [c EXCEPT !.at = at, !.item = item, !.queue = queue, !.retry = retry]
      BY Zenon DEF c1
    <2> HIDE DEF at, item, queue, retry
    <2> QED
      BY <1>1, <2>1, <2>2, <2>3 DEF Crawlers
  <1>10. CrawlerOK(scan[s], seed[s], snap[s], c1)
    BY <1>8 DEF CrawlerOK
  <1>11. Cardinality(c1.seen) <= MaxPages /\ c1.fetched \subseteq c1.seen /\ c1.at # "answered"
    BY <1>1, <1>4, <1>6 DEF ScanOK
  <1> QED
    BY <1>2, <1>9, <1>10, <1>11, CrawlerMoves

-----------------------------------------------------------------------------
(* The ends of a scan.                                                     *)

\* Nothing pending: what was met is settled.
LEMMA ExhaustedComplete ==
  ASSUME NEW row, NEW sd, NEW sn \in [Pages -> Snapshots], NEW c, NEW row1, WorkOK(row, sd, sn, c), ~HasInHand(c),
         c.queue = <<>>, c.retry = <<>>, row1.discovered = row.discovered
  PROVE  Complete(row1, sd, sn)
  <1>1. Pending(c) = {}
    BY DEF Pending, InHand, PagesOf
  <1>2. c.seen = c.fetched
    BY <1>1 DEF WorkOK, Partition
  <1>3. \A p \in Pages : sd[p] # "queued"
    BY <1>1 DEF WorkOK
  <1>4. \A p \in Pages \ c.fetched : sn[p].state = "none"
    BY <1>2 DEF WorkOK, SnapsFit
  <1>5. \A p \in c.fetched : /\ sn[p].state \in Outcomes
                             /\ sn[p].state \in Transient => sn[p].attempts = MaxAttempts
    BY DEF WorkOK, SnapsFit
  <1>6. \A p \in Pages : sn[p].state \in Transient => sn[p].attempts = MaxAttempts
    BY <1>4, <1>5 DEF Transient
  <1>7. ASSUME row1.discovered < MaxPages, NEW p \in Pages, sn[p].state = "fetched", sn[p].depth < MaxDepth
        PROVE  Links[p] \cap InScope \subseteq Visited(sn)
    <2>1. p \in c.fetched
      BY <1>4, <1>7
    <2>2. Links[p] \cap InScope \subseteq c.fetched
      BY <1>2, <1>7, <2>1 DEF WorkOK, LinksMet
    <2>3. InScope \subseteq Pages
      BY InventoryAssumption
    <2> QED
      BY <1>5, <2>2, <2>3 DEF Visited
  <1> QED
    BY <1>3, <1>6, <1>7 DEF Complete

LEMMA FinishKeeps ==
  ASSUME CrawlInv, NEW s \in Scans, Finish(s), UNCHANGED <<del, raced>>
  PROVE  CrawlInv'
  <1> DEFINE c == crawl[s]
             stop == StopReason(s)
             status == IF scan[s].cancel THEN "cancelled"
                       ELSE IF HadErrors(s) THEN "completed_with_errors" ELSE "completed"
             row == [scan[s] EXCEPT !.stop = stop, !.status = status]
  <1>1. /\ scan[s] \in ScanRows /\ snap[s] \in [Pages -> Snapshots] /\ c \in Crawlers
        /\ ScanOK(scan[s], seed[s], snap[s], c)
    BY ScanParts
  <1>2. /\ c.at = "ending" /\ scan[s].status = "running"
        /\ scan' = [scan EXCEPT ![s] = row] /\ crawl' = [crawl EXCEPT ![s] = Asleep]
        /\ UNCHANGED <<seed, snap, rows, artifacts, files, del, raced>>
    BY DEF Finish, Owned
  <1>3. status \in Terminal /\ stop \in StopReasons
    BY DEF Terminal, StopReason, StopReasons
  <1>4. stop = "queue_exhausted" => ~scan[s].cancel /\ c.queue = <<>> /\ c.retry = <<>>
    BY DEF StopReason, Exhausted
  <1> HIDE DEF stop, status
  <1>5. row \in ScanRows
    BY <1>1, <1>3 DEF ScanRows, JobStatuses
  <1>6. /\ row.status = status /\ row.stop = stop /\ row.discovered = scan[s].discovered
        /\ row.failed = scan[s].failed /\ row.attempts = scan[s].attempts /\ row.retries = scan[s].retries
        /\ row.exhausted = scan[s].exhausted
    BY <1>1 DEF ScanRows
  <1>7. Tallied(scan[s], seed[s], snap[s])
    BY <1>1, <1>2 DEF ScanOK
  <1> HIDE DEF row
  <1>8. Tallied(row, seed[s], snap[s])
    BY <1>6, <1>7, TallyKept
  <1>9. row.stop = "queue_exhausted" => Complete(row, seed[s], snap[s])
    <2>1. SUFFICES ASSUME stop = "queue_exhausted" PROVE Complete(row, seed[s], snap[s])
      BY <1>6
    <2>2. WorkOK(scan[s], seed[s], snap[s], c) /\ ~HasInHand(c)
      BY <1>1, <1>2, <1>4, <2>1 DEF ScanOK, CrawlerOK, HasInHand
    <2> QED
      BY <1>1, <1>4, <1>6, <2>1, <2>2, ExhaustedComplete
  <1>10. ScanOK(row, seed[s], snap[s], Asleep)
    <2>1. row.status \in Terminal
      BY <1>3, <1>6
    <2> QED
      BY <1>8, <1>9, <2>1, PutDown DEF ScanOK, Terminal
  <1>11. row.status \in Terminal
    BY <1>3, <1>6
  <1> QED
    BY <1>2, <1>5, <1>10, <1>11, PutDown, MoveKeeps

\* A row whose scan ends without a verdict, or is asked to.
LEMMA RowMoves ==
  ASSUME CrawlInv, NEW s \in Scans, NEW row \in ScanRows, NEW c \in Crawlers,
         row.failed = scan[s].failed, row.attempts = scan[s].attempts, row.retries = scan[s].retries,
         row.exhausted = scan[s].exhausted,
         scan[s].status \in Active, row.stop # "queue_exhausted", row.status \in Terminal,
         c = crawl[s] \/ c = Asleep,
         scan' = [scan EXCEPT ![s] = row], crawl' = [crawl EXCEPT ![s] = c],
         UNCHANGED <<seed, snap, rows, artifacts, files, del, raced>>
  PROVE  CrawlInv'
  <1>1. ScanOK(scan[s], seed[s], snap[s], crawl[s])
    BY ScanParts
  <1>2. Tallied(scan[s], seed[s], snap[s])
    BY <1>1 DEF ScanOK, Active
  <1>3. Tallied(row, seed[s], snap[s])
    BY <1>2, TallyKept
  <1>4. c.at = "answered" => crawl[s].at = "answered" /\ c.answer = crawl[s].answer
    BY PutDown
  <1>5. /\ c.at = "answered" => AnswerOK(c.answer)
        /\ Cardinality(c.seen) <= MaxPages /\ c.fetched \subseteq c.seen
    BY <1>1, PutDown DEF ScanOK
  <1>6. ScanOK(row, seed[s], snap[s], c)
    BY <1>3, <1>5 DEF ScanOK, Terminal
  <1> QED
    BY <1>4, <1>6, MoveKeeps

LEMMA BreakKeeps ==
  ASSUME CrawlInv, NEW s \in Scans, Break(s), UNCHANGED <<del, raced>>
  PROVE  CrawlInv'
  <1> DEFINE row == [scan[s] EXCEPT !.status = "failed"]
  <1>1. scan[s] \in ScanRows /\ ScanOK(scan[s], seed[s], snap[s], crawl[s])
    BY ScanParts
  <1>2. /\ scan[s].status = "running"
        /\ scan' = [scan EXCEPT ![s] = row] /\ crawl' = [crawl EXCEPT ![s] = Asleep]
        /\ UNCHANGED <<seed, snap, rows, artifacts, files, del, raced>>
    BY DEF Break, Owned
  <1>3. scan[s].stop = "none"
    BY <1>1, <1>2 DEF ScanOK, Terminal
  <1>4. /\ row \in ScanRows /\ row.status \in Terminal /\ row.stop # "queue_exhausted"
        /\ row.failed = scan[s].failed /\ row.attempts = scan[s].attempts /\ row.retries = scan[s].retries
        /\ row.exhausted = scan[s].exhausted
    BY <1>1, <1>3 DEF ScanRows, JobStatuses, Terminal
  <1> HIDE DEF row
  <1> QED
    BY <1>2, <1>4, PutDown, RowMoves DEF Active

LEMMA RecoverKeeps ==
  ASSUME CrawlInv, NEW s \in Scans, RecoverScan(s), UNCHANGED <<del, raced>>
  PROVE  CrawlInv'
  <1> DEFINE row == [scan[s] EXCEPT !.status = "interrupted", !.stop = "worker_lease_expired"]
  <1>1. scan[s] \in ScanRows /\ crawl[s] \in Crawlers
    BY ScanParts
  <1>2. /\ scan[s].status = "running"
        /\ scan' = [scan EXCEPT ![s] = row] /\ crawl' = [crawl EXCEPT ![s] = crawl[s]]
        /\ UNCHANGED <<seed, snap, rows, artifacts, files, del, raced>>
    BY DEF RecoverScan, Owned, CrawlInv, CrawlTyped
  <1>3. /\ row \in ScanRows /\ row.status \in Terminal /\ row.stop # "queue_exhausted"
        /\ row.failed = scan[s].failed /\ row.attempts = scan[s].attempts /\ row.retries = scan[s].retries
        /\ row.exhausted = scan[s].exhausted
    BY <1>1 DEF ScanRows, JobStatuses, Terminal, StopReasons
  <1> HIDE DEF row
  <1> QED
    BY <1>1, <1>2, <1>3, RowMoves DEF Active

LEMMA CancelKeeps ==
  ASSUME CrawlInv, NEW s \in Scans, CancelScan(s), UNCHANGED <<del, raced>>
  PROVE  CrawlInv'
  <1>1. scan[s] \in ScanRows /\ crawl[s] \in Crawlers /\ ScanOK(scan[s], seed[s], snap[s], crawl[s])
    BY ScanParts
  <1>2. /\ scan[s].status \in Active /\ crawl' = [crawl EXCEPT ![s] = crawl[s]]
        /\ UNCHANGED <<seed, snap, rows, artifacts, files, del, raced>>
    BY DEF CancelScan, CrawlInv, CrawlTyped
  <1>3. CASE scan[s].status = "queued"
    <2> DEFINE row == [scan[s] EXCEPT !.cancel = TRUE, !.status = "cancelled", !.stop = "cancelled_by_user"]
    <2>1. scan' = [scan EXCEPT ![s] = row]
      BY <1>3 DEF CancelScan
    <2>2. /\ row \in ScanRows /\ row.status \in Terminal /\ row.stop # "queue_exhausted"
          /\ row.failed = scan[s].failed /\ row.attempts = scan[s].attempts /\ row.retries = scan[s].retries
          /\ row.exhausted = scan[s].exhausted
      BY <1>1 DEF ScanRows, JobStatuses, Terminal, StopReasons
    <2> HIDE DEF row
    <2> QED
      BY <1>1, <1>2, <2>1, <2>2, RowMoves
  <1>4. CASE scan[s].status = "running"
    <2> DEFINE row == [scan[s] EXCEPT !.cancel = TRUE]
    <2>1. scan' = [scan EXCEPT ![s] = row]
      BY <1>4 DEF CancelScan
    <2>2. /\ row \in ScanRows /\ row.status = scan[s].status /\ row.stop = scan[s].stop /\ row.cancel
          /\ row.failed = scan[s].failed /\ row.attempts = scan[s].attempts /\ row.retries = scan[s].retries
          /\ row.exhausted = scan[s].exhausted /\ row.discovered = scan[s].discovered
      BY <1>1 DEF ScanRows
    <2> HIDE DEF row
    <2>3. Tallied(row, seed[s], snap[s])
      BY <1>1, <1>4, <2>2, TallyKept DEF ScanOK
    <2>4. CrawlerOK(row, seed[s], snap[s], crawl[s])
      <3>1. CrawlerOK(scan[s], seed[s], snap[s], crawl[s])
        BY <1>1, <1>4 DEF ScanOK
      <3>2. WorkOK(scan[s], seed[s], snap[s], crawl[s]) => WorkOK(row, seed[s], snap[s], crawl[s])
        BY <2>2, Zenon DEF WorkOK, LinksMet
      <3> QED
        BY <2>2, <3>1, <3>2 DEF CrawlerOK
    <2>5. ScanOK(row, seed[s], snap[s], crawl[s])
      BY <1>1, <1>4, <2>2, <2>3, <2>4 DEF ScanOK, Terminal
    <2>6. scan[s].status \notin Terminal \cup {"deleted"}
      BY <1>4 DEF Terminal
    <2> QED
      BY <1>1, <1>2, <2>1, <2>2, <2>5, <2>6, MoveKeeps
  <1> QED
    BY <1>2, <1>3, <1>4 DEF Active

-----------------------------------------------------------------------------
(* The start of a scan.                                                    *)

QueuedSeeds(sd) == {p \in Pages : sd[p] = "queued"}

\* The queue a scan begins with: its queued seeds, each once, at its first attempt.
LEMMA SeededLists ==
  ASSUME NEW s \in Scans, SeedsFit(seed[s])
  PROVE  /\ Seeded(s) \in Seq(Items) /\ Distinct(Seeded(s))
         /\ PagesOf(Seeded(s)) = QueuedSeeds(seed[s])
         /\ Len(Seeded(s)) = Cardinality(QueuedSeeds(seed[s]))
         /\ \A i \in DOMAIN Seeded(s) : Seeded(s)[i].attempt = 1
  <1> USE InventoryAssumption, CrawlAssumption
  <1> DEFINE others == {p \in Pages \ {Start} : seed[s][p] = "queued"}
             n == Cardinality(others)
             t == [i \in 1 .. n |-> Item(Sorted(others)[i], 0, 1)]
             q == <<Item(Start, 0, 1)>> \o t
             srt == Sorted(others)
  <1>1. IsFiniteSet(others) /\ others \subseteq Nat /\ n \in Nat
    <2>1. others \in SUBSET Pages
      OBVIOUS
    <2> HIDE DEF others
    <2> QED
      BY <2>1, PagesFinite
  <1>2. Start \in InScope /\ others \subseteq InScope /\ Start \notin others /\ Start \in Pages
        /\ QueuedSeeds(seed[s]) = others \cup {Start}
    BY DEF SeedsFit, QueuedSeeds
  <1>3. Seeded(s) = q
    BY DEF Seeded
  <1> HIDE DEF others
  <1>4. /\ srt \in Seq(others) /\ Len(srt) = n
        /\ \A i, j \in 1 .. n : srt[i] = srt[j] => i = j
        /\ \A p \in others : \E i \in 1 .. n : srt[i] = p
    BY <1>1, SortedLists
  <1> HIDE DEF n
  <1>5. \A i \in 1 .. n : srt[i] \in others
    BY <1>1, <1>4
  <1> HIDE DEF srt
  <1>6. \A p \in InScope : Item(p, 0, 1) \in Items /\ Item(p, 0, 1).page = p /\ Item(p, 0, 1).attempt = 1
    BY DEF Item, Items
  <1>7. \A i \in 1 .. n : t[i] \in Items /\ t[i].page = srt[i] /\ t[i].attempt = 1
    BY <1>2, <1>5, <1>6 DEF srt
  <1>8. t \in Seq(Items) /\ Len(t) = n
    BY <1>1, <1>7
  <1> DEFINE x == Item(Start, 0, 1)
  <1>9. x \in Items /\ x.page = Start /\ x.attempt = 1
    BY <1>2, <1>6
  <1> HIDE DEF t, x
  <1>10. q \in Seq(Items) /\ Len(q) = n + 1 /\ q[1] = x /\ \A i \in 1 .. n : q[i + 1] = t[i]
    BY <1>1, <1>8, <1>9 DEF x
  <1> HIDE DEF q
  <1>11. DOMAIN q = 1 .. n + 1
    BY <1>10
  <1>12. \A i \in DOMAIN q : i = 1 \/ (i - 1 \in 1 .. n /\ q[i] = t[i - 1])
    <2> TAKE i \in DOMAIN q
    <2>1. i \in 1 .. n + 1
      BY <1>11
    <2>2. i # 1 => i - 1 \in 1 .. n /\ (i - 1) + 1 = i
      BY <1>1, <2>1
    <2> QED
      BY <1>10, <2>2
  <1>13. \A i \in DOMAIN q : q[i].attempt = 1
    BY <1>7, <1>9, <1>10, <1>12
  <1>14. PagesOf(q) = others \cup {Start}
    <2>1. ASSUME NEW p \in others \cup {Start}
          PROVE  p \in PagesOf(q)
      <3>1. CASE p = Start
        BY <1>1, <1>9, <1>10, <1>11, <3>1 DEF PagesOf
      <3>2. CASE p \in others
        <4>1. PICK i \in 1 .. n : srt[i] = p
          BY <1>4, <3>2
        <4>2. i + 1 \in DOMAIN q
          BY <1>1, <1>11
        <4>3. q[i + 1] = t[i] /\ t[i].page = p
          BY <1>7, <1>10, <4>1
        <4> QED
          BY <4>2, <4>3 DEF PagesOf
      <3> QED
        BY <3>1, <3>2
    <2>2. \A i \in DOMAIN q : q[i].page \in others \cup {Start}
      BY <1>5, <1>7, <1>9, <1>10, <1>12
    <2> QED
      BY <2>1, <2>2 DEF PagesOf
  <1>15. Distinct(q)
    <2>1. SUFFICES ASSUME NEW i \in DOMAIN q, NEW j \in DOMAIN q, q[i].page = q[j].page PROVE i = j
      BY DEF Distinct
    <2>2. \A k \in DOMAIN q : k # 1 => k - 1 \in 1 .. n /\ q[k].page = srt[k - 1] /\ srt[k - 1] \in others
      BY <1>5, <1>7, <1>12
    <2>3. CASE i = 1 \/ j = 1
      BY <1>2, <1>9, <1>10, <2>1, <2>2, <2>3
    <2>4. CASE i # 1 /\ j # 1
      <3>1. i - 1 = j - 1
        BY <1>4, <2>1, <2>2, <2>4
      <3>2. i \in Int /\ j \in Int
        BY <1>1, <1>11
      <3> QED
        BY <3>1, <3>2
    <2> QED
      BY <2>3, <2>4
  <1>16. Cardinality(others \cup {Start}) = n + 1
    BY <1>1, <1>2, FS_AddElement DEF n
  <1> QED
    BY <1>2, <1>3, <1>10, <1>13, <1>14, <1>15, <1>16

LEMMA BeginKeeps ==
  ASSUME CrawlInv, NEW s \in Scans, Begin(s), UNCHANGED <<del, raced>>
  PROVE  CrawlInv'
  <1> USE InventoryAssumption, CrawlAssumption
  <1> DEFINE q == Seeded(s)
             c == [Asleep EXCEPT !.at = "next", !.queue = q, !.seen = PagesOf(q)]
             row == [scan[s] EXCEPT !.status = "running", !.discovered = Len(q)]
             S == QueuedSeeds(seed[s])
  <1>1. scan[s] \in ScanRows /\ ScanOK(scan[s], seed[s], snap[s], crawl[s])
    BY ScanParts
  <1>2. /\ scan[s].status = "queued" /\ scan' = [scan EXCEPT ![s] = row] /\ crawl' = [crawl EXCEPT ![s] = c]
        /\ UNCHANGED <<seed, snap, rows, artifacts, files, del, raced>>
    BY DEF Begin
  <1>3. NotBegun(seed[s], snap[s]) /\ SeedsFit(seed[s]) /\ scan[s].stop = "none"
    BY <1>1, <1>2 DEF ScanOK, Terminal
  <1>4. /\ q \in Seq(Items) /\ Distinct(q) /\ PagesOf(q) = S /\ Len(q) = Cardinality(S)
        /\ \A i \in DOMAIN q : q[i].attempt = 1
    BY <1>3, SeededLists
  <1>5. S \in SUBSET InScope /\ Cardinality(S) <= MaxPages /\ Cardinality(S) \in Nat /\ S \subseteq Pages
    <2>1. S \in SUBSET Pages
      BY DEF QueuedSeeds
    <2>2. Cardinality(S) \in Nat
      BY <2>1, PagesFinite
    <2> QED
      BY <1>3, <2>1, <2>2 DEF SeedsFit, QueuedSeeds
  <1> HIDE DEF q
  <1>6. Asleep \in Crawlers /\ Asleep.retry = <<>> /\ Asleep.fetched = {}
    BY AsleepTyped DEF Asleep
  <1>7. c \in Crawlers
    BY <1>4, <1>5, <1>6 DEF Crawlers, CrawlPhases
  <1>8. c.at = "next" /\ c.queue = q /\ c.retry = <<>> /\ c.seen = S /\ c.fetched = {}
    BY <1>4, <1>6 DEF Crawlers
  <1>9. row \in ScanRows
    BY <1>1, <1>4, <1>5 DEF ScanRows, JobStatuses, Active
  <1>10. /\ row.status = "running" /\ row.stop = "none" /\ row.discovered = Cardinality(S)
         /\ row.failed = scan[s].failed /\ row.attempts = scan[s].attempts /\ row.retries = scan[s].retries
         /\ row.exhausted = scan[s].exhausted
    BY <1>1, <1>3, <1>4 DEF ScanRows
  <1> HIDE DEF c, row, S
  <1>11. Tallied(row, seed[s], snap[s])
    BY <1>1, <1>2, <1>10, TallyKept DEF ScanOK
  <1>12. WorkOK(row, seed[s], snap[s], c)
    <2>1. InHand(c) = {} /\ ~HasInHand(c)
      BY <1>8 DEF InHand, HasInHand
    <2>2. PagesOf(<<>>) = {} /\ Distinct(<<>>)
      BY DEF PagesOf, Distinct
    <2>3. Pending(c) = S
      BY <1>4, <1>8, <2>1, <2>2 DEF Pending
    <2>4. Partition(c)
      BY <1>4, <1>8, <2>1, <2>2, <2>3 DEF Partition
    <2>5. \A p \in Pages : snap[s][p].state = "none"
      BY <1>3 DEF NotBegun, Unvisited
    <2>6. Attempts(c, snap[s])
      <3>1. \A i \in DOMAIN q : q[i].page \in PagesOf(q)
        BY DEF PagesOf
      <3>2. \A i \in DOMAIN q : FirstAttempt(q[i], snap[s])
        BY <1>4, <1>5, <2>5, <3>1 DEF FirstAttempt
      <3>3. DOMAIN <<>> = {}
        OBVIOUS
      <3>4. \A i \in DOMAIN c.retry : NextAttempt(c.retry[i], snap[s])
        BY <1>8, <3>3, Zenon
      <3> QED
        BY <1>8, <2>1, <3>2, <3>4, Zenon DEF Attempts
    <2>7. SnapsFit(c, snap[s]) /\ LinksMet(row, c, snap[s])
      BY <1>8, <2>5 DEF SnapsFit, LinksMet
    <2>8. \A p \in Pages : seed[s][p] = "queued" => p \in S
      BY DEF S, QueuedSeeds
    <2> QED
      BY <1>8, <1>10, <2>3, <2>4, <2>6, <2>7, <2>8 DEF WorkOK
  <1>13. ScanOK(row, seed[s], snap[s], c)
    BY <1>5, <1>8, <1>10, <1>11, <1>12 DEF ScanOK, CrawlerOK, Terminal
  <1> QED
    BY <1>2, <1>7, <1>8, <1>9, <1>13, MoveKeeps DEF Terminal

\* The base URL is queued, and as many of the others as the page limit leaves room for.
LEMMA SeedsLimited ==
  ASSUME NEW listed \in SUBSET Pages, NEW sd, sd = [p \in Pages |-> SeedState(p, listed)]
  PROVE  /\ sd \in [Pages -> SeedStates] /\ \A p \in Pages : sd[p] \notin {"failed", "fetched"}
         /\ SeedsFit(sd)
  <1> USE InventoryAssumption, CrawlAssumption
  <1> DEFINE counted == (listed \cap InScope) \ {Start}
             A == {p \in counted : Before(p, counted) < MaxPages - 1}
             S == {p \in Pages : sd[p] = "queued"}
  <1>1. \A p : /\ SeedState(p, listed) \in SeedStates \ {"failed", "fetched"}
               /\ p = Start => SeedState(p, listed) = "queued"
               /\ SeedState(p, listed) = "queued" => p = Start \/ (p \in counted /\ Before(p, counted) + 1 < MaxPages)
    <2> TAKE p
    <2> DEFINE room == Before(p, counted) + 1 < MaxPages
    <2>1. SeedState(p, listed) = IF p = Start THEN "queued"
                                 ELSE IF p \notin listed THEN "none"
                                 ELSE IF p \notin InScope THEN "rejected"
                                 ELSE IF room THEN "queued" ELSE "not_queued_page_limit"
      BY DEF SeedState
    <2>2. Start \in Pages
      OBVIOUS
    <2> HIDE DEF room
    <2>3. CASE p = Start
      BY <2>1, <2>3 DEF SeedStates
    <2>4. CASE p # Start /\ p \notin listed
      BY <2>1, <2>4 DEF SeedStates
    <2>5. CASE p # Start /\ p \in listed /\ p \notin InScope
      BY <2>1, <2>5 DEF SeedStates
    <2>6. CASE p # Start /\ p \in listed /\ p \in InScope
      BY <2>1, <2>6 DEF SeedStates, room
    <2> QED
      BY <2>3, <2>4, <2>5, <2>6
  <1>2. Start \in Pages /\ InScope \subseteq Pages /\ Start \in InScope
    OBVIOUS
  <1>3. IsFiniteSet(counted) /\ counted \subseteq Nat
    <2>1. counted \in SUBSET Pages
      OBVIOUS
    <2> HIDE DEF counted
    <2> QED
      BY <2>1, PagesFinite
  <1>4. MaxPages - 1 \in Nat
    OBVIOUS
  <1>5. \A p \in counted : Before(p, counted) + 1 < MaxPages => p \in A
    <2>1. \A p \in counted : Before(p, counted) \in 0 .. Cardinality(counted) - 1
      <3> HIDE DEF counted
      <3> QED
        BY <1>3, BeforeNat
    <2> HIDE DEF counted
    <2> QED
      BY <2>1
  <1>6. \A p \in Pages : sd[p] = SeedState(p, listed)
    OBVIOUS
  <1>7. S \subseteq A \cup {Start} /\ S \subseteq InScope /\ sd[Start] = "queued"
    <2>1. ASSUME NEW p \in S
          PROVE  p \in A \cup {Start} /\ p \in InScope
      <3>1. p = Start \/ (p \in counted /\ Before(p, counted) + 1 < MaxPages)
        BY <1>1, <1>6
      <3>2. p \in counted => p \in InScope
        OBVIOUS
      <3> HIDE DEF A, counted, S
      <3> QED
        BY <1>2, <1>5, <3>1, <3>2
    <2>2. sd[Start] = "queued"
      BY <1>1, <1>2, <1>6
    <2> QED
      BY <2>1, <2>2
  <1>8. IsFiniteSet(A) /\ Cardinality(A) <= MaxPages - 1 /\ Start \notin A
    <2>1. Start \notin A
      OBVIOUS
    <2> HIDE DEF counted
    <2>2. LET B == {p \in counted : Before(p, counted) < MaxPages - 1} IN IsFiniteSet(B) /\ Cardinality(B) <= MaxPages - 1
      BY <1>3, <1>4, FewOfRank
    <2> QED
      BY <2>1, <2>2
  <1> HIDE DEF A, S
  <1>9. Cardinality(S) <= MaxPages
    <2>1. IsFiniteSet(A \cup {Start}) /\ Cardinality(A \cup {Start}) = Cardinality(A) + 1 /\ Cardinality(A) \in Nat
      BY <1>8, FS_AddElement, FS_CardinalityType
    <2>2. Cardinality(S) <= Cardinality(A \cup {Start}) /\ IsFiniteSet(S)
      BY <1>7, <2>1, FS_Subset
    <2>3. Cardinality(S) \in Nat
      BY <2>2, FS_CardinalityType
    <2> QED
      BY <1>4, <1>8, <2>1, <2>2, <2>3
  <1>10. sd \in [Pages -> SeedStates] /\ \A p \in Pages : sd[p] \notin {"failed", "fetched"}
    BY <1>1
  <1> QED
    BY <1>7, <1>9, <1>10 DEF SeedsFit, S

LEMMA CreateKeeps ==
  ASSUME CrawlInv, NEW chosen \in SeedChoices, CreateScan(chosen), UNCHANGED <<del, raced>>
  PROVE  CrawlInv'
  <1> DEFINE sd == [p \in Pages |-> SeedState(p, Inventory(chosen))]
  <1>1. PICK s \in Scans : /\ scan[s] = NoScan
                           /\ scan' = [scan EXCEPT ![s].status = "queued"]
                           /\ seed' = [seed EXCEPT ![s] = sd]
    BY DEF CreateScan
  <1>2. UNCHANGED <<snap, crawl, rows, artifacts, files, del, raced>>
    BY DEF CreateScan
  <1>3. sd \in [Pages -> SeedStates] /\ (\A p \in Pages : sd[p] \notin {"failed", "fetched"}) /\ SeedsFit(sd)
    <2>1. Inventory(chosen) \in SUBSET Pages
      BY DEF Inventory
    <2> QED
      BY <2>1, SeedsLimited
  <1> HIDE DEF sd
  <1> DEFINE row == [NoScan EXCEPT !.status = "queued"]
  <1>4. /\ scan \in [Scans -> ScanRows] /\ seed \in [Scans -> [Pages -> SeedStates]]
        /\ snap \in [Scans -> [Pages -> Snapshots]] /\ crawl \in [Scans -> Crawlers]
    BY DEF CrawlInv, CrawlTyped
  <1>5. scan' = [scan EXCEPT ![s] = row]
    BY <1>1
  <1>6. row \in ScanRows
    BY AsleepTyped DEF ScanRows, JobStatuses, Active
  <1>7. /\ row.status = "queued" /\ row.stop = "none" /\ row.failed = 0 /\ row.attempts = 0 /\ row.retries = 0
        /\ row.exhausted = 0
    BY DEF NoScan
  <1> HIDE DEF row
  <1>8. CrawlTyped'
    BY <1>1, <1>2, <1>3, <1>4, <1>5, <1>6 DEF CrawlInv, CrawlTyped
  <1>9. DeletionTyped'
    BY <1>2 DEF CrawlInv, DeletionTyped
  <1>10. FilesInv'
    <2>1. \A t \in Scans : scan[t].status \in Terminal \cup {"deleted"} => scan'[t].status \in Terminal \cup {"deleted"}
      <3> TAKE t \in Scans
      <3>1. CASE t = s
        BY <1>1, <3>1 DEF NoScan, Terminal
      <3>2. CASE t # s
        <4>1. scan'[t] = scan[t]
          BY <1>4, <1>5, <3>2
        <4> QED
          BY <4>1, Zenon
      <3> QED
        BY <3>1, <3>2
    <2>2. \A t \in Scans : crawl'[t].at = "answered" => crawl[t].at = "answered" /\ crawl'[t].answer = crawl[t].answer
      BY <1>2
    <2> QED
      BY <1>2, <2>1, <2>2, FilesStill DEF CrawlInv
  <1>11. ScanOK(scan[s], seed[s], snap[s], crawl[s])
    BY ScanParts
  <1>12. NotBegun(sd, snap[s])
    BY <1>1, <1>3, <1>11 DEF ScanOK, NotBegun, NoScan
  <1>13. Tallied(row, sd, snap[s])
    BY <1>7, <1>12, NothingTallied
  <1>14. ScanOK(row, sd, snap[s], crawl[s])
    BY <1>3, <1>7, <1>11, <1>12, <1>13 DEF ScanOK, Terminal
  <1>15. ScansOK'
    <2>1. /\ scan'[s] = row /\ seed'[s] = sd /\ snap'[s] = snap[s] /\ crawl'[s] = crawl[s]
          /\ \A t \in Scans \ {s} : /\ scan'[t] = scan[t] /\ seed'[t] = seed[t]
                                    /\ snap'[t] = snap[t] /\ crawl'[t] = crawl[t]
      BY <1>1, <1>2, <1>4, <1>5
    <2>2. ScanOK(scan'[s], seed'[s], snap'[s], crawl'[s])
      BY <1>14, <2>1, Zenon
    <2> QED
      BY <2>1, <2>2, OneScan DEF CrawlInv
  <1> QED
    BY <1>8, <1>9, <1>10, <1>15 DEF CrawlInv

-----------------------------------------------------------------------------
(* Answers.                                                                *)

\* An answer comes, and with it perhaps a file.
LEMMA AnswerKeeps ==
  ASSUME CrawlInv, NEW s \in Scans, HasInHand(crawl[s]), NEW phase \in {"answered", "broken"},
         NEW a \in Answers, AnswerOK(a),
         crawl' = [crawl EXCEPT ![s] = [crawl[s] EXCEPT !.at = phase, !.answer = a]],
         UNCHANGED <<scan, seed, snap, rows, artifacts, del>>,
         files \subseteq files', files' \subseteq Contents, raced \subseteq raced', raced' \subseteq Contents,
         phase = "answered" /\ ~a.row /\ a.body # NoBody =>
           /\ a.body \in files'
           /\ del.at = "unlink" /\ a.body \in del.contents => a.body \in raced'
  PROVE  CrawlInv'
  <1> DEFINE c == crawl[s]
             c1 == [crawl[s] EXCEPT !.at = phase, !.answer = a]
  <1>1. c \in Crawlers /\ ScanOK(scan[s], seed[s], snap[s], c)
    BY ScanParts
  <1>2. c1 \in Crawlers
    BY <1>1 DEF Crawlers, CrawlPhases
  <1>3. /\ c1.queue = c.queue /\ c1.retry = c.retry /\ c1.seen = c.seen /\ c1.fetched = c.fetched
        /\ c1.item = c.item /\ c1.at = phase /\ c1.answer = a
    BY <1>1 DEF Crawlers
  <1>4. crawl' = [crawl EXCEPT ![s] = c1]
    OBVIOUS
  <1> HIDE DEF c1
  <1>5. crawl \in [Scans -> Crawlers]
    BY DEF CrawlInv, CrawlTyped
  <1>6. crawl'[s] = c1 /\ \A t \in Scans \ {s} : crawl'[t] = crawl[t]
    BY <1>4, <1>5
  <1>7. CrawlTyped'
    BY <1>2, <1>4, <1>5 DEF CrawlInv, CrawlTyped
  <1>8. DeletionTyped'
    BY DEF CrawlInv, DeletionTyped
  <1>9. FilesInv'
    <2>1. FilesKept'
      BY DEF CrawlInv, FilesInv, FilesKept, ReferredTo
    <2>2. PublishedKept'
      <3>1. SUFFICES ASSUME NEW t \in Scans, crawl'[t].at = "answered", ~crawl'[t].answer.row, crawl'[t].answer.body # NoBody
                     PROVE  /\ crawl'[t].answer.body \in files' \cup raced'
                            /\ del.at = "unlink" /\ crawl'[t].answer.body \in del.contents => crawl'[t].answer.body \in raced'
        BY DEF PublishedKept
      <3>2. CASE t = s
        <4>1. crawl'[t].at = phase /\ crawl'[t].answer = a
          BY <1>3, <1>6, <3>2
        <4> QED
          BY <3>1, <4>1
      <3>3. CASE t # s
        <4>1. crawl'[t] = crawl[t]
          BY <1>6, <3>3
        <4>2. /\ crawl[t].answer.body \in files \cup raced
              /\ del.at = "unlink" /\ crawl[t].answer.body \in del.contents => crawl[t].answer.body \in raced
          BY <3>1, <4>1 DEF CrawlInv, FilesInv, PublishedKept
        <4> QED
          BY <4>1, <4>2
      <3> QED
        BY <3>2, <3>3
    <2>3. UnlinkedGone' /\ SnapsParsed' /\ DeletedEnded'
      BY DEF CrawlInv, FilesInv, UnlinkedGone, SnapsParsed, DeletedEnded
    <2> QED
      BY <2>1, <2>2, <2>3 DEF FilesInv
  <1>10. scan[s].status = "running" => CrawlerOK(scan[s], seed[s], snap[s], c1)
    <2>1. CASE phase = "broken"
      BY <1>3, <2>1 DEF CrawlerOK
    <2>2. CASE phase = "answered"
      <3>1. SUFFICES ASSUME scan[s].status = "running" PROVE WorkOK(scan[s], seed[s], snap[s], c1)
        BY DEF CrawlerOK
      <3>2. WorkOK(scan[s], seed[s], snap[s], c)
        BY <1>1, <3>1 DEF ScanOK, CrawlerOK, HasInHand
      <3>3. InHand(c1) = InHand(c)
        BY <1>3, <2>2 DEF InHand, HasInHand
      <3>4. FirstAttempt(c1.item, snap[s]) \/ NextAttempt(c1.item, snap[s])
        BY <1>3, <3>2 DEF WorkOK, Attempts
      <3> QED
        BY <1>3, <3>2, <3>3, <3>4, SameWork
    <2> QED
      BY <2>1, <2>2
  <1>11. Cardinality(c1.seen) <= MaxPages /\ c1.fetched \subseteq c1.seen
    BY <1>1, <1>3 DEF ScanOK
  <1>12. ScanOK(scan[s], seed[s], snap[s], c1)
    BY <1>1, <1>3, <1>10, <1>11, ScanMoves
  <1>13. ScansOK'
    <2>1. ScanOK(scan'[s], seed'[s], snap'[s], crawl'[s])
      BY <1>6, <1>12, Zenon
    <2>2. \A t \in Scans \ {s} : /\ scan'[t] = scan[t] /\ seed'[t] = seed[t]
                                 /\ snap'[t] = snap[t] /\ crawl'[t] = crawl[t]
      BY <1>6
    <2> QED
      BY <2>1, <2>2, OneScan DEF CrawlInv
  <1> QED
    BY <1>7, <1>8, <1>9, <1>13 DEF CrawlInv

LEMMA NotModifiedKeeps ==
  ASSUME CrawlInv, NEW s \in Scans, NotModified(s), UNCHANGED <<del, raced>>
  PROVE  CrawlInv'
  <1> DEFINE parsed == <<PageBody, crawl[s].item.page>> \in artifacts
             a == [state |-> "fetched", body |-> PageBody, row |-> TRUE, parsed |-> parsed]
             phase == IF parsed \/ PageBody \in files THEN "answered" ELSE "broken"
  <1>1. HasInHand(crawl[s]) /\ UNCHANGED <<scan, seed, snap, rows, artifacts, files, del, raced>>
    BY DEF NotModified, HasInHand
  <1>2. crawl' = [crawl EXCEPT ![s] = [crawl[s] EXCEPT !.at = phase, !.answer = a]]
    BY DEF NotModified
  <1>3. a \in Answers /\ a.row
    BY DEF Answers, Outcomes, Contents
  <1>4. AnswerOK(a)
    BY CrawlAssumption DEF AnswerOK, Outcomes, Failing
  <1>5. phase \in {"answered", "broken"}
    OBVIOUS
  <1>6. files \subseteq Contents /\ raced \subseteq Contents
    BY DEF CrawlInv, CrawlTyped, DeletionTyped
  <1> HIDE DEF a, phase
  <1>7. files \subseteq files' /\ files' \subseteq Contents /\ raced \subseteq raced' /\ raced' \subseteq Contents
        /\ UNCHANGED <<scan, seed, snap, rows, artifacts, del>>
    BY <1>1, <1>6
  <1> QED
    BY <1>1, <1>2, <1>3, <1>4, <1>5, <1>7, AnswerKeeps

LEMMA AnswerNowKeeps ==
  ASSUME CrawlInv, NEW s \in Scans, AnswerNow(s)
  PROVE  CrawlInv'
  <1> USE CrawlAssumption
  <1>1. PICK state \in Outcomes : \E body \in Contents \cup {NoBody} :
          /\ Receive(s, state, body)
          /\ state = "fetched" => body = PageBody
          /\ state \in Failing => body = NoBody
          /\ state = "busy" => body = ErrorBody
    <2>1. Answer(s)
      BY DEF AnswerNow
    <2>2. CASE Receive(s, "fetched", PageBody)
      BY <2>2 DEF Outcomes, Failing, Contents
    <2>3. CASE Receive(s, "busy", ErrorBody)
      BY <2>3 DEF Outcomes, Failing, Contents
    <2>4. ASSUME NEW st \in Failing, Receive(s, st, NoBody)
          PROVE  \E state \in Outcomes : \E body \in Contents \cup {NoBody} :
                    /\ Receive(s, state, body)
                    /\ state = "fetched" => body = PageBody
                    /\ state \in Failing => body = NoBody
                    /\ state = "busy" => body = ErrorBody
      BY <2>4 DEF Outcomes, Failing, Contents
    <2> QED
      BY <2>1, <2>2, <2>3, <2>4, Zenon DEF Answer
  <1>2. PICK body \in Contents \cup {NoBody} :
          /\ Receive(s, state, body)
          /\ state = "fetched" => body = PageBody
          /\ state \in Failing => body = NoBody
          /\ state = "busy" => body = ErrorBody
    BY <1>1
  <1> DEFINE parsed == <<body, crawl[s].item.page>> \in artifacts
             row == body \in rows
             a == [state |-> state, body |-> body, row |-> row, parsed |-> parsed]
  <1>3. /\ HasInHand(crawl[s]) /\ UNCHANGED <<scan, seed, snap, rows, artifacts, del>>
    BY DEF AnswerNow, Answer, HasInHand
  <1>4. crawl' = [crawl EXCEPT ![s] = [crawl[s] EXCEPT !.at = "answered", !.answer = a]]
    BY <1>2 DEF Receive
  <1>5. rows \subseteq Contents /\ files \subseteq Contents /\ raced \subseteq Contents /\ NoBody \notin Contents
        /\ crawl \in [Scans -> Crawlers]
    BY DEF CrawlInv, CrawlTyped, DeletionTyped, Contents
  <1>6. a \in Answers /\ a.state = state /\ a.body = body /\ a.row = row
    BY DEF Answers
  <1>7. AnswerOK(a)
    BY <1>2, <1>5, <1>6 DEF AnswerOK
  <1>8. crawl'[s].answer.row = row /\ crawl'[s].answer.body = body
    <2>1. crawl'[s] = [crawl[s] EXCEPT !.at = "answered", !.answer = a]
      BY <1>4, <1>5
    <2>2. crawl'[s].answer = a
      BY <1>5, <2>1 DEF Crawlers
    <2> QED
      BY <2>2
  <1>9. raced' = IF del.at = "unlink" /\ ~row THEN raced \cup (del.contents \cap {body}) ELSE raced
    BY <1>8, Zenon DEF AnswerNow
  <1>10. files' = IF body \in rows \cup {NoBody} THEN files ELSE files \cup {body}
    BY <1>2 DEF Receive
  <1>11. files \subseteq files' /\ files' \subseteq Contents
    BY <1>5, <1>10
  <1>12. del.contents \subseteq Contents
    BY DEF CrawlInv, DeletionTyped
  <1>13. raced \subseteq raced' /\ raced' \subseteq Contents
    BY <1>5, <1>9, <1>12
  <1>14. ~row /\ body # NoBody => /\ body \in files'
                                  /\ del.at = "unlink" /\ body \in del.contents => body \in raced'
    BY <1>9, <1>10
  <1> HIDE DEF a
  <1> QED
    BY <1>3, <1>4, <1>6, <1>7, <1>11, <1>13, <1>14, AnswerKeeps

-----------------------------------------------------------------------------
(* Deletions.                                                              *)

\* Steps that change no scan.
LEMMA ScansStill ==
  ASSUME CrawlInv, UNCHANGED <<scan, seed, snap, crawl>>
  PROVE  ScansOK'
  BY DEF CrawlInv, ScansOK

LEMMA CrawlStill ==
  ASSUME CrawlInv, UNCHANGED <<crawlVars, del, raced>>
  PROVE  CrawlInv'
  <1>1. UNCHANGED <<scan, seed, snap, crawl, rows, artifacts, files, del, raced>>
    BY DEF crawlVars
  <1>2. CrawlTyped' /\ DeletionTyped'
    BY <1>1 DEF CrawlInv, CrawlTyped, DeletionTyped
  <1>3. FilesInv'
    BY <1>1, FilesStill DEF CrawlInv
  <1> QED
    BY <1>1, <1>2, <1>3, ScansStill DEF CrawlInv

\* What is deletable with a scan no other scan refers to.
LEMMA DeletableOwn ==
  ASSUME CrawlTyped, NEW s \in Scans
  PROVE  /\ Deletable(s) \subseteq Contents
         /\ \A t \in Scans \ {s} : ReferredTo(t) \cap Deletable(s) = {}
  <1>1. \A p \in Pages : snap[s][p].body \in Contents \cup {NoBody}
    BY DEF CrawlTyped, Snapshots
  <1>2. ReferredTo(s) \subseteq Contents
    BY <1>1 DEF ReferredTo
  <1> QED
    BY <1>2 DEF Deletable

LEMMA DeleteReadKeeps ==
  ASSUME CrawlInv, NEW s \in Scans, DeleteRead(s)
  PROVE  CrawlInv'
  <1>1. /\ del' = [at |-> "read", scan |-> s, contents |-> Deletable(s)] /\ scan[s].status \in Terminal
        /\ UNCHANGED <<scan, seed, snap, crawl, rows, artifacts, files, raced>>
    BY DEF DeleteRead, crawlVars
  <1>2. CrawlTyped' /\ DeletionTyped'
    <2>1. Deletable(s) \subseteq Contents
      BY DeletableOwn DEF CrawlInv
    <2> QED
      BY <1>1, <2>1 DEF CrawlInv, CrawlTyped, DeletionTyped
  <1>3. FilesInv'
    <2>1. FilesKept' /\ SnapsParsed'
      BY <1>1 DEF CrawlInv, FilesInv, FilesKept, ReferredTo, SnapsParsed
    <2>2. PublishedKept' /\ UnlinkedGone' /\ DeletedEnded'
      BY <1>1 DEF CrawlInv, FilesInv, PublishedKept, UnlinkedGone, DeletedEnded
    <2> QED
      BY <2>1, <2>2 DEF FilesInv
  <1> QED
    BY <1>1, <1>2, <1>3, ScansStill DEF CrawlInv

LEMMA DeleteRefusedKeeps ==
  ASSUME CrawlInv, DeleteRefused
  PROVE  CrawlInv'
  <1>1. /\ del' = NoDeletion
        /\ UNCHANGED <<scan, seed, snap, crawl, rows, artifacts, files, raced>>
    BY DEF DeleteRefused, crawlVars
  <1>2. CrawlTyped' /\ DeletionTyped'
    BY <1>1 DEF CrawlInv, CrawlTyped, DeletionTyped, NoDeletion
  <1>3. FilesInv'
    <2>1. FilesKept' /\ SnapsParsed'
      BY <1>1 DEF CrawlInv, FilesInv, FilesKept, ReferredTo, SnapsParsed
    <2>2. PublishedKept' /\ UnlinkedGone' /\ DeletedEnded'
      BY <1>1 DEF CrawlInv, FilesInv, PublishedKept, UnlinkedGone, DeletedEnded, NoDeletion
    <2> QED
      BY <2>1, <2>2 DEF FilesInv
  <1> QED
    BY <1>1, <1>2, <1>3, ScansStill DEF CrawlInv

\* The files of the contents a deletion has removed the rows of.
LEMMA UnlinkKeeps ==
  ASSUME CrawlInv, Unlink
  PROVE  CrawlInv'
  <1>1. /\ del.at = "unlink" /\ files' = files \ del.contents /\ del' = NoDeletion
        /\ UNCHANGED <<scan, seed, snap, crawl, rows, artifacts, raced>>
    BY DEF Unlink
  <1>2. CrawlTyped' /\ DeletionTyped'
    BY <1>1 DEF CrawlInv, CrawlTyped, DeletionTyped, NoDeletion
  <1>3. FilesInv'
    <2>1. FilesKept'
      <3>1. rows \subseteq files \cup raced /\ rows \cap del.contents \subseteq raced
        BY <1>1 DEF CrawlInv, FilesInv, FilesKept, UnlinkedGone
      <3>2. rows' \subseteq files' \cup raced'
        BY <1>1, <3>1
      <3> QED
        BY <1>1, <3>2 DEF CrawlInv, FilesInv, FilesKept, ReferredTo
    <2>2. PublishedKept'
      <3>1. \A t \in Scans :
              crawl[t].at = "answered" /\ ~crawl[t].answer.row /\ crawl[t].answer.body # NoBody =>
                /\ crawl[t].answer.body \in files \cup raced
                /\ crawl[t].answer.body \in del.contents => crawl[t].answer.body \in raced
        BY <1>1 DEF CrawlInv, FilesInv, PublishedKept
      <3> QED
        BY <1>1, <3>1 DEF PublishedKept, NoDeletion
    <2>3. SnapsParsed' /\ UnlinkedGone' /\ DeletedEnded'
      BY <1>1 DEF CrawlInv, FilesInv, SnapsParsed, UnlinkedGone, DeletedEnded, NoDeletion
    <2> QED
      BY <2>1, <2>2, <2>3 DEF FilesInv
  <1> QED
    BY <1>1, <1>2, <1>3, ScansStill DEF CrawlInv

LEMMA DeleteCommitKeeps ==
  ASSUME CrawlInv, DeleteCommit
  PROVE  CrawlInv'
  <1> DEFINE s == del.scan
             none == [p \in Pages |-> "none"]
             blank == [p \in Pages |-> Unvisited]
  <1>1. /\ del.at = "read" /\ del.contents \subseteq Deletable(s)
        /\ scan' = [scan EXCEPT ![s] = DeletedScan] /\ seed' = [seed EXCEPT ![s] = none]
        /\ snap' = [snap EXCEPT ![s] = blank]
        /\ rows' = rows \ del.contents /\ artifacts' = StillParsed(s)
        /\ del' = [del EXCEPT !.at = "unlink"]
        /\ raced' = raced \cup (del.contents \cap Published)
        /\ UNCHANGED <<crawl, files>>
    BY DEF DeleteCommit
  <1>2. /\ scan \in [Scans -> ScanRows] /\ seed \in [Scans -> [Pages -> SeedStates]]
        /\ snap \in [Scans -> [Pages -> Snapshots]] /\ crawl \in [Scans -> Crawlers]
        /\ rows \subseteq Contents /\ files \subseteq Contents /\ artifacts \subseteq rows \X Pages
    BY DEF CrawlInv, CrawlTyped
  <1>3. s \in Scans /\ del.contents \subseteq Contents /\ raced \subseteq Contents
    BY <1>1 DEF CrawlInv, DeletionTyped
  <1>4. DeletedScan \in ScanRows /\ DeletedScan.status = "deleted" /\ DeletedScan.stop = "none"
    BY AsleepTyped DEF DeletedScan, NoScan, ScanRows
  <1>5. none \in [Pages -> SeedStates] /\ blank \in [Pages -> Snapshots]
    BY AsleepTyped DEF SeedStates
  <1>6. NotBegun(none, blank) /\ \A p \in Pages : ~blank[p].parsed /\ blank[p].body = NoBody
    BY DEF NotBegun, Unvisited
  <1>7. \A t \in Scans \ {s} : ReferredTo(t) \subseteq rows'
    BY <1>1, <1>2, <1>3, DeletableOwn DEF CrawlInv, FilesInv, FilesKept
  <1> HIDE DEF s, none, blank
  <1>8. /\ scan'[s] = DeletedScan /\ seed'[s] = none /\ snap'[s] = blank
        /\ \A t \in Scans \ {s} : scan'[t] = scan[t] /\ seed'[t] = seed[t] /\ snap'[t] = snap[t]
    BY <1>1, <1>2, <1>3
  <1>9. ASSUME NEW t \in Scans \ {s}, NEW p \in Pages, snap[t][p].parsed
        PROVE  snap[t][p].body \in ReferredTo(t)
    <2>1. snap[t][p].body # NoBody
      BY <1>9 DEF CrawlInv, FilesInv, SnapsParsed
    <2> QED
      BY <2>1 DEF ReferredTo
  <1>10. artifacts' \subseteq rows' \X Pages
    <2>1. SUFFICES ASSUME NEW x \in artifacts' PROVE x \in rows' \X Pages
      OBVIOUS
    <2>2. PICK t \in Scans \ {s} : snap[t][x[2]].parsed /\ snap[t][x[2]].body = x[1]
      BY <1>1, <2>1 DEF StillParsed
    <2>3. x \in rows \X Pages
      BY <1>1, <1>2, <2>1 DEF StillParsed
    <2>4. x[1] \in rows' /\ x[2] \in Pages
      BY <1>7, <1>9, <2>2, <2>3
    <2> QED
      BY <2>3, <2>4
  <1>11. CrawlTyped'
    BY <1>1, <1>2, <1>3, <1>4, <1>5, <1>10 DEF CrawlTyped
  <1>12. DeletionTyped'
    BY <1>1, <1>3 DEF CrawlInv, DeletionTyped
  <1>13. FilesKept'
    <2>1. rows' \subseteq files' \cup raced'
      BY <1>1 DEF CrawlInv, FilesInv, FilesKept
    <2>2. ASSUME NEW t \in Scans
          PROVE  /\ ReferredTo(t)' \subseteq rows'
                 /\ \A p \in Pages : snap'[t][p].parsed => <<snap'[t][p].body, p>> \in artifacts'
      <3>1. CASE t = s
        BY <1>6, <1>8, <3>1 DEF ReferredTo
      <3>2. CASE t # s
        <4>1. snap'[t] = snap[t]
          BY <1>8, <3>2
        <4>2. ReferredTo(t)' \subseteq rows'
          BY <1>7, <3>2, <4>1 DEF ReferredTo
        <4>3. ASSUME NEW p \in Pages, snap[t][p].parsed
              PROVE  <<snap[t][p].body, p>> \in artifacts'
          <5> DEFINE x == <<snap[t][p].body, p>>
          <5>1. x \in artifacts /\ x[1] = snap[t][p].body /\ x[2] = p
            BY <4>3 DEF CrawlInv, FilesInv, FilesKept
          <5> HIDE DEF x
          <5> QED
            BY <1>1, <3>2, <4>3, <5>1 DEF StillParsed, x
        <4> QED
          BY <4>1, <4>2, <4>3
      <3> QED
        BY <3>1, <3>2
    <2> QED
      BY <2>1, <2>2 DEF FilesKept
  <1>14. PublishedKept'
    <2>1. SUFFICES ASSUME NEW t \in Scans, crawl[t].at = "answered", ~crawl[t].answer.row, crawl[t].answer.body # NoBody
                   PROVE  /\ crawl[t].answer.body \in files' \cup raced'
                          /\ crawl[t].answer.body \in del'.contents => crawl[t].answer.body \in raced'
      BY <1>1 DEF PublishedKept
    <2>2. crawl[t].answer.body \in files \cup raced
      BY <2>1 DEF CrawlInv, FilesInv, PublishedKept
    <2>3. crawl[t].answer.body \in Published
      BY <2>1 DEF Published
    <2>4. del'.contents = del.contents
      BY <1>1 DEF CrawlInv, DeletionTyped
    <2> QED
      BY <1>1, <2>2, <2>3, <2>4
  <1>15. UnlinkedGone' /\ DeletedEnded'
    <2>1. del'.contents = del.contents /\ del'.scan = s
      BY <1>1 DEF CrawlInv, DeletionTyped, s
    <2> QED
      BY <1>1, <1>4, <1>8, <2>1 DEF UnlinkedGone, DeletedEnded
  <1>16. SnapsParsed'
    <2>1. SUFFICES ASSUME NEW t \in Scans, NEW p \in Pages PROVE snap'[t][p].parsed <=> snap'[t][p].body # NoBody
      BY DEF SnapsParsed
    <2>2. CASE t = s
      BY <1>6, <1>8, <2>2
    <2>3. CASE t # s
      <3>1. snap'[t] = snap[t]
        BY <1>8, <2>3
      <3> QED
        BY <3>1 DEF CrawlInv, FilesInv, SnapsParsed
    <2> QED
      BY <2>2, <2>3
  <1>17. ScansOK'
    <2>1. ScanOK(scan[s], seed[s], snap[s], crawl[s])
      BY <1>3, ScanParts
    <2>2. ScanOK(DeletedScan, none, blank, crawl[s])
      BY <1>4, <1>6, <2>1 DEF ScanOK, Terminal
    <2>3. ScanOK(scan'[s], seed'[s], snap'[s], crawl'[s])
      BY <1>1, <1>8, <2>2, Zenon
    <2> QED
      BY <1>1, <1>3, <1>8, <2>3, OneScan DEF CrawlInv
  <1> QED
    BY <1>11, <1>12, <1>13, <1>14, <1>15, <1>16, <1>17 DEF CrawlInv, FilesInv

-----------------------------------------------------------------------------
(* A snapshot is stored.                                                   *)

LEMMA MinOfTwo ==
  ASSUME NEW a \in Int, NEW b \in Int
  PROVE  Min({a, b}) = IF a <= b THEN a ELSE b
  <1> DEFINE m == IF a <= b THEN a ELSE b
  <1>1. m \in {a, b} /\ \A y \in {a, b} : m <= y
    OBVIOUS
  <1>2. \A x \in {a, b} : (\A y \in {a, b} : x <= y) => x = m
    OBVIOUS
  <1> HIDE DEF m
  <1>3. Min({a, b}) = m
    BY <1>1, <1>2 DEF Min
  <1> QED
    BY <1>3 DEF m

\* The beginning of a list of different things.
LEMMA Beginning ==
  ASSUME NEW T, NEW q \in Seq(T), NEW m \in Nat, m <= Len(q),
         \A i, j \in 1 .. Len(q) : q[i] = q[j] => i = j
  PROVE  LET f == SubSeq(q, 1, m)
         IN /\ f \in Seq(T) /\ Len(f) = m /\ DOMAIN f = 1 .. m
            /\ \A i \in 1 .. m : f[i] = q[i]
            /\ \A i, j \in 1 .. m : f[i] = f[j] => i = j
            /\ IsFiniteSet(ToSet(f)) /\ Cardinality(ToSet(f)) = m
  <1> DEFINE f == SubSeq(q, 1, m)
  <1>1. f \in Seq(T) /\ Len(f) = m /\ DOMAIN f = 1 .. m /\ \A i \in 1 .. m : f[i] = q[i]
    OBVIOUS
  <1> HIDE DEF f
  <1>2. \A i \in 1 .. m : i \in 1 .. Len(q)
    OBVIOUS
  <1>3. \A i, j \in 1 .. m : f[i] = f[j] => i = j
    BY <1>1, <1>2
  <1>4. IsFiniteSet(ToSet(f)) /\ Cardinality(ToSet(f)) = m
    <2> DEFINE D == 1 .. m
               S == ToSet(f)
               g == [i \in D |-> f[i]]
    <2>1. IsFiniteSet(D) /\ Cardinality(D) = m
      <3>1. 1 \in Int /\ m \in Int
        OBVIOUS
      <3>2. IsFiniteSet(D) /\ Cardinality(D) = IF 1 > m THEN 0 ELSE m - 1 + 1
        BY <3>1, FS_Interval, Zenon
      <3> QED
        BY <3>2
    <2>2. S = {f[i] : i \in D}
      BY <1>1 DEF ToSet
    <2>3. g \in [D -> S] /\ \A i, j \in D : g[i] = g[j] => i = j
      BY <1>3, <2>2
    <2>4. \A x \in S : \E i \in D : g[i] = x
      BY <2>2
    <2> HIDE DEF D, S, g
    <2>5. g \in Injection(D, S) /\ g \in Surjection(D, S)
      BY <2>3, <2>4 DEF Injection, IsInjective, Surjection
    <2>6. g \in Bijection(D, S)
      BY <2>5 DEF Bijection
    <2>7. IsFiniteSet(S) /\ Cardinality(S) = Cardinality(D)
      BY <2>1, <2>6, FS_Bijection DEF ExistsBijection
    <2> QED
      BY <2>1, <2>7 DEF S
  <1> QED
    BY <1>1, <1>3, <1>4 DEF f

\* What is followed: links not met yet, each once, as far as the limit goes, and then all of them.
LEMMA FollowedLists ==
  ASSUME NEW s, crawl[s] \in Crawlers, Cardinality(crawl[s].seen) <= MaxPages, NEW a
  PROVE  LET c == crawl[s]
             f == Followed(s, a)
         IN /\ Len(f) \in Nat /\ DOMAIN f = 1 .. Len(f)
            /\ \A i \in DOMAIN f : f[i] \in InScope \ c.seen
            /\ \A i, j \in DOMAIN f : f[i] = f[j] => i = j
            /\ IsFiniteSet(ToSet(f)) /\ Cardinality(ToSet(f)) = Len(f)
            /\ Cardinality(c.seen) + Len(f) <= MaxPages
            /\ f # <<>> => c.item.depth < MaxDepth
            /\ Cardinality(c.seen) + Len(f) < MaxPages /\ a.body = PageBody /\ c.item.depth < MaxDepth =>
                 Links[c.item.page] \cap InScope \subseteq c.seen \cup ToSet(f)
  <1> USE InventoryAssumption, CrawlAssumption
  <1> DEFINE c == crawl[s]
             new == IF a.body = PageBody /\ c.item.depth < MaxDepth
                    THEN (Links[c.item.page] \cap InScope) \ c.seen ELSE {}
             n == Cardinality(new)
             k == Cardinality(c.seen)
             m == Min({n, MaxPages - k})
             q == Sorted(new)
             f == SubSeq(q, 1, m)
  <1>1. Followed(s, a) = f
    BY DEF Followed
  <1>2. new \in SUBSET (InScope \ c.seen) /\ c.seen \in SUBSET InScope /\ InScope \subseteq Pages
        /\ new \in SUBSET Pages
    BY DEF Crawlers
  <1>3. /\ a.body = PageBody /\ c.item.depth < MaxDepth => Links[c.item.page] \cap InScope \subseteq c.seen \cup new
        /\ new # {} => c.item.depth < MaxDepth
    OBVIOUS
  <1> HIDE DEF new
  <1>4. IsFiniteSet(new) /\ n \in Nat /\ new \subseteq Nat /\ k \in Nat
    <2>1. c.seen \in SUBSET Pages
      BY <1>2
    <2> QED
      BY <1>2, <2>1, PagesFinite
  <1>5. /\ q \in Seq(new) /\ Len(q) = n
        /\ \A i, j \in 1 .. n : q[i] = q[j] => i = j
        /\ \A p \in new : \E i \in 1 .. n : q[i] = p
    BY <1>4, SortedLists
  <1> HIDE DEF n, k, q
  <1>6. k <= MaxPages
    BY DEF k
  <1>7. m = IF n <= MaxPages - k THEN n ELSE MaxPages - k
    <2>1. n \in Int /\ MaxPages - k \in Int
      BY <1>4
    <2> QED
      BY <2>1, MinOfTwo
  <1> HIDE DEF m
  <1>8. m \in Nat /\ m <= n /\ k + m <= MaxPages /\ (k + m < MaxPages => m = n)
    BY <1>4, <1>6, <1>7
  <1>9. /\ f \in Seq(new) /\ Len(f) = m /\ DOMAIN f = 1 .. m
        /\ \A i \in 1 .. m : f[i] = q[i]
        /\ \A i, j \in 1 .. m : f[i] = f[j] => i = j
        /\ IsFiniteSet(ToSet(f)) /\ Cardinality(ToSet(f)) = m
    BY <1>5, <1>8, Beginning
  <1> HIDE DEF f
  <1>10. \A i \in 1 .. m : f[i] \in new
    BY <1>9
  <1>11. \A i \in DOMAIN f : f[i] \in InScope \ c.seen
    BY <1>2, <1>9, <1>10
  <1>12. f # <<>> => c.item.depth < MaxDepth
    <2>1. new = {} => f = <<>>
      BY <1>9
    <2> QED
      BY <1>3, <2>1
  <1>13. k + m < MaxPages => new \subseteq ToSet(f)
    <2>1. SUFFICES ASSUME k + m < MaxPages, NEW p \in new PROVE p \in ToSet(f)
      OBVIOUS
    <2>2. m = n
      BY <1>8, <2>1
    <2>3. PICK i \in 1 .. n : q[i] = p
      BY <1>5
    <2>4. i \in DOMAIN f /\ f[i] = p
      BY <1>9, <2>2, <2>3
    <2> QED
      BY <2>4 DEF ToSet
  <1> QED
    BY <1>1, <1>3, <1>8, <1>9, <1>11, <1>12, <1>13 DEF k

\* An outcome follows the one before it, a row counts it, and the seeds say it.
NextOutcome(old, new) ==
  \/ old.state = "none" /\ new.attempts = 1
  \/ old.state \in Transient /\ new.attempts > 1 /\ old.attempts = new.attempts - 1

RowFollows(row, row1, old, new) ==
  /\ row1.failed = row.failed + Number(new.state \in Failing) - Number(old.state \in Failing)
  /\ row1.attempts = row.attempts + 1
  /\ row1.retries = row.retries + Number(new.attempts > 1)
  /\ row1.exhausted = row.exhausted + Number(new.state \in Transient /\ new.attempts = MaxAttempts)

SeedsFollow(sd, sd1, p, new) ==
  /\ \A q \in Pages \ {p} : sd1[q] = sd[q]
  /\ sd1[p] = "failed" => new.state \in Failing
  /\ sd1[p] = "fetched" => new.state \in Outcomes \ Failing

\* The counters after one page's outcome is written or replaced.
LEMMA StoreTallies ==
  ASSUME NEW row \in ScanRows, NEW sd, NEW sn \in [Pages -> Snapshots], NEW row1, NEW sd1, NEW p \in Pages,
         NEW new \in Snapshots, Tallied(row, sd, sn), new.state \in Outcomes,
         NextOutcome(sn[p], new), RowFollows(row, row1, sn[p], new), SeedsFollow(sd, sd1, p, new)
  PROVE  /\ Tallied(row1, sd1, [sn EXCEPT ![p] = new])
         /\ row1.failed \in Nat /\ row1.attempts \in Nat /\ row1.retries \in Nat /\ row1.exhausted \in Nat
  <1> USE DEF NextOutcome, RowFollows, SeedsFollow
  <1> DEFINE sm == [sn EXCEPT ![p] = new]
  <1>1. sm \in [Pages -> Snapshots] /\ sm[p] = new /\ \A q \in Pages \ {p} : sm[q] = sn[q]
    OBVIOUS
  <1> HIDE DEF sm
  <1>2. /\ row.failed \in Nat /\ row.attempts \in Nat /\ row.retries \in Nat /\ row.exhausted \in Nat
    BY DEF ScanRows
  <1>3. /\ \A q \in Pages : sn[q].attempts \in Nat /\ sm[q].attempts \in Nat
        /\ new.attempts \in Nat /\ sn[p].attempts \in Nat /\ new.attempts <= MaxAttempts
        /\ MaxAttempts \in Nat
    BY <1>1, CrawlAssumption DEF Snapshots
  <1>4. sn[p].state = "none" => sn[p].attempts = 0
    BY DEF Tallied
  <1>5. "none" \notin Outcomes /\ "none" \notin Failing /\ "none" \notin Transient
        /\ Transient \subseteq Outcomes /\ Failing \subseteq Outcomes
    BY DEF Outcomes, Failing, Transient
  <1>6. row1.failed = Cardinality(FailedPages(sm)) /\ row1.failed \in Nat
    <2> DEFINE A == FailedPages(sn)
               B == FailedPages(sm)
    <2>1. A \in SUBSET Pages /\ B \ {p} = A \ {p}
      BY <1>1 DEF FailedPages
    <2>2. (p \in B <=> new.state \in Failing) /\ (p \in A <=> sn[p].state \in Failing)
      BY <1>1 DEF FailedPages
    <2>3. row.failed = Cardinality(A)
      BY DEF Tallied
    <2> HIDE DEF A, B
    <2>4. IsFiniteSet(A)
      BY <2>1, PagesFinite
    <2>5. /\ Cardinality(A) \in Nat /\ Cardinality(B) \in Nat
          /\ Cardinality(B) = Cardinality(A) + Number(p \in B) - Number(p \in A)
      BY <2>1, <2>4, CountReplaced
    <2>6. Number(p \in B) = Number(new.state \in Failing) /\ Number(p \in A) = Number(sn[p].state \in Failing)
      BY <2>2 DEF Number
    <2>7. Cardinality(B) = row1.failed
      BY <2>3, <2>5, <2>6
    <2> QED
      BY <2>5, <2>7 DEF B
  <1>7. row1.exhausted = Cardinality(GivenUp(sm)) /\ row1.exhausted \in Nat
    <2> DEFINE A == GivenUp(sn)
               B == GivenUp(sm)
    <2>1. A \in SUBSET Pages /\ B \ {p} = A \ {p}
      BY <1>1 DEF GivenUp
    <2>2. p \in B <=> new.state \in Transient /\ new.attempts = MaxAttempts
      BY <1>1 DEF GivenUp
    <2>3. p \notin A
      BY <1>3, <1>5 DEF GivenUp
    <2>4. row.exhausted = Cardinality(A)
      BY DEF Tallied
    <2> HIDE DEF A, B
    <2>5. IsFiniteSet(A)
      BY <2>1, PagesFinite
    <2>6. /\ Cardinality(A) \in Nat /\ Cardinality(B) \in Nat
          /\ Cardinality(B) = Cardinality(A) + Number(p \in B) - Number(p \in A)
      BY <2>1, <2>5, CountReplaced
    <2>7. Number(p \in B) = Number(new.state \in Transient /\ new.attempts = MaxAttempts) /\ Number(p \in A) = 0
          /\ Number(p \in B) \in Nat
      BY <2>2, <2>3 DEF Number
    <2>8. Cardinality(B) = row1.exhausted
      BY <2>4, <2>6, <2>7
    <2> QED
      BY <2>6, <2>8 DEF B
  <1> DEFINE A == Visited(sn)
             B == Visited(sm)
  <1>8. A \in SUBSET Pages /\ B = A \cup {p}
    BY <1>1 DEF Visited
  <1>9. p \in A <=> new.attempts > 1
    BY <1>3, <1>5 DEF Visited
  <1>10. \A q \in A \ {p} : sn[q].attempts = sm[q].attempts
    BY <1>1, <1>8
  <1>11. Attempted(sn) = AttemptsOf(sn, A) /\ Attempted(sm) = AttemptsOf(sm, B)
    BY DEF Attempted, AttemptsOf
  <1> HIDE DEF A, B
  <1>12. IsFiniteSet(A)
    BY <1>8, PagesFinite
  <1>13. row1.attempts = Attempted(sm) /\ row1.attempts \in Nat
    <2>1. \A q \in A \cup {p} : sn[q].attempts \in Nat /\ sm[q].attempts \in Nat
      BY <1>3, <1>8
    <2>2. /\ AttemptsOf(sn, A) \in Nat
          /\ AttemptsOf(sm, A \cup {p}) = AttemptsOf(sn, A) - (IF p \in A THEN sn[p].attempts ELSE 0) + sm[p].attempts
      BY <1>10, <1>12, <2>1, AttemptsReplaced
    <2>3. sm[p].attempts = new.attempts /\ (p \in A => sn[p].attempts = new.attempts - 1) /\ (p \notin A => new.attempts = 1)
      BY <1>1, <1>3, <1>9
    <2>4. row.attempts = AttemptsOf(sn, A)
      BY <1>11 DEF Tallied
    <2>5. AttemptsOf(sm, A \cup {p}) = row.attempts + 1
      BY <1>2, <1>3, <2>2, <2>3, <2>4
    <2>6. AttemptsOf(sm, B) = row.attempts + 1
      BY <1>8, <2>5, Zenon
    <2> QED
      BY <1>2, <1>11, <2>6
  <1>14. row1.retries = row1.attempts - Cardinality(B) /\ row1.retries \in Nat
    <2>1. p \in B /\ B \ {p} = A \ {p}
      BY <1>8
    <2>2. /\ Cardinality(A) \in Nat /\ Cardinality(B) \in Nat
          /\ Cardinality(B) = Cardinality(A) + Number(p \in B) - Number(p \in A)
      BY <1>12, <2>1, CountReplaced
    <2>3. Number(p \in B) = 1 /\ Number(p \in A) = Number(new.attempts > 1) /\ Number(p \in A) \in Nat
      BY <1>9, <2>1 DEF Number
    <2>4. row.retries = row.attempts - Cardinality(A)
      BY DEF Tallied, A
    <2> QED
      BY <1>2, <2>2, <2>3, <2>4
  <1>15. ASSUME NEW q \in Pages
         PROVE  /\ sd1[q] = "failed" => sm[q].state \in Failing
                /\ sd1[q] = "fetched" => sm[q].state \in Outcomes \ Failing
                /\ sm[q].state = "none" => sm[q].attempts = 0
    <2>1. CASE q = p
      BY <1>1, <1>5, <2>1
    <2>2. CASE q # p
      <3>1. sd1[q] = sd[q] /\ sm[q] = sn[q]
        BY <1>1, <2>2
      <3> QED
        BY <3>1 DEF Tallied
    <2> QED
      BY <2>1, <2>2
  <1>16. Tallied(row1, sd1, sm)
    BY <1>6, <1>7, <1>13, <1>14, <1>15 DEF Tallied, B
  <1> QED
    BY <1>6, <1>7, <1>13, <1>14, <1>16 DEF sm

\* Two lists of items, one after the other.
LEMMA JoinedLists ==
  ASSUME NEW q \in Seq(Items), NEW t \in Seq(Items), Distinct(q), Distinct(t), PagesOf(q) \cap PagesOf(t) = {}
  PROVE  /\ q \o t \in Seq(Items) /\ Distinct(q \o t) /\ PagesOf(q \o t) = PagesOf(q) \cup PagesOf(t)
         /\ \A i \in DOMAIN (q \o t) : (\E j \in DOMAIN q : (q \o t)[i] = q[j]) \/ (\E j \in DOMAIN t : (q \o t)[i] = t[j])
  <1> DEFINE r == q \o t
             m == Len(q)
             n == Len(t)
  <1>1. m \in Nat /\ n \in Nat /\ DOMAIN q = 1 .. m /\ DOMAIN t = 1 .. n
    OBVIOUS
  <1>2. r \in Seq(Items) /\ DOMAIN r = 1 .. m + n
    OBVIOUS
  <1>3. /\ \A i \in 1 .. m : r[i] = q[i]
        /\ \A i \in 1 .. m + n : i > m => r[i] = t[i - m]
    OBVIOUS
  <1> HIDE DEF r, m, n
  <1>4. ASSUME NEW i \in DOMAIN r
        PROVE  \/ i \in DOMAIN q /\ r[i] = q[i]
               \/ i - m \in DOMAIN t /\ r[i] = t[i - m] /\ i \in Int /\ m \in Int
    <2>1. CASE i <= m
      <3>1. i \in 1 .. m
        BY <1>1, <1>2, <2>1
      <3> QED
        BY <1>1, <1>3, <3>1
    <2>2. CASE ~(i <= m)
      <3>1. i - m \in 1 .. n /\ i > m /\ i \in 1 .. m + n
        BY <1>1, <1>2, <2>2
      <3> QED
        BY <1>1, <1>3, <3>1
    <2> QED
      BY <2>1, <2>2
  <1>5. ASSUME NEW j \in DOMAIN t
        PROVE  j + m \in DOMAIN r /\ r[j + m] = t[j]
    <2>1. j + m \in 1 .. m + n /\ j + m > m /\ (j + m) - m = j
      BY <1>1
    <2> QED
      BY <1>2, <1>3, <2>1
  <1>6. \A i \in DOMAIN q : i \in DOMAIN r /\ r[i] = q[i]
    BY <1>1, <1>2, <1>3
  <1>7. PagesOf(r) = PagesOf(q) \cup PagesOf(t)
    <2>1. \A x \in PagesOf(r) : x \in PagesOf(q) \cup PagesOf(t)
      BY <1>4 DEF PagesOf
    <2>2. \A x \in PagesOf(q) : x \in PagesOf(r)
      BY <1>6 DEF PagesOf
    <2>3. \A x \in PagesOf(t) : x \in PagesOf(r)
      BY <1>5 DEF PagesOf
    <2> QED
      BY <2>1, <2>2, <2>3
  <1>8. Distinct(r)
    <2>1. SUFFICES ASSUME NEW i \in DOMAIN r, NEW j \in DOMAIN r, r[i].page = r[j].page PROVE i = j
      BY DEF Distinct
    <2>2. \A k \in DOMAIN q : q[k].page \in PagesOf(q)
      BY DEF PagesOf
    <2>3. \A k \in DOMAIN t : t[k].page \in PagesOf(t)
      BY DEF PagesOf
    <2>4. CASE i \in DOMAIN q /\ r[i] = q[i] /\ j \in DOMAIN q /\ r[j] = q[j]
      BY <2>1, <2>4 DEF Distinct
    <2>5. CASE i - m \in DOMAIN t /\ r[i] = t[i - m] /\ j - m \in DOMAIN t /\ r[j] = t[j - m] /\ i \in Int /\ j \in Int /\ m \in Int
      <3>1. i - m = j - m
        BY <2>1, <2>5 DEF Distinct
      <3> QED
        BY <2>5, <3>1
    <2>6. CASE i \in DOMAIN q /\ r[i] = q[i] /\ j - m \in DOMAIN t /\ r[j] = t[j - m]
      BY <2>1, <2>2, <2>3, <2>6
    <2>7. CASE j \in DOMAIN q /\ r[j] = q[j] /\ i - m \in DOMAIN t /\ r[i] = t[i - m]
      BY <2>1, <2>2, <2>3, <2>7
    <2> QED
      BY <1>4, <2>4, <2>5, <2>6, <2>7
  <1>9. \A i \in DOMAIN r : (\E j \in DOMAIN q : r[i] = q[j]) \/ (\E j \in DOMAIN t : r[i] = t[j])
    BY <1>4
  <1> QED
    BY <1>2, <1>7, <1>8, <1>9 DEF r

\* The page in hand.
LEMMA ItemInHand ==
  ASSUME NEW c \in Crawlers, NEW row, NEW sd, NEW sn, WorkOK(row, sd, sn, c), HasInHand(c)
  PROVE  LET p == c.item.page
         IN /\ p \in Pages /\ p \in InScope /\ p \in c.seen /\ p \notin c.fetched
            /\ p \notin PagesOf(c.queue) /\ p \notin PagesOf(c.retry)
            /\ Pending(c) = PagesOf(c.queue) \cup PagesOf(c.retry) \cup {p}
            /\ c.seen = c.fetched \cup Pending(c)
            /\ FirstAttempt(c.item, sn) \/ NextAttempt(c.item, sn)
            /\ c.queue \in Seq(Items) /\ c.retry \in Seq(Items)
            /\ c.item \in Items /\ c.item.attempt \in Nat /\ c.item.depth \in Nat /\ c.item.attempt >= 1
  <1>1. c.item \in Items /\ c.queue \in Seq(Items) /\ c.retry \in Seq(Items)
    BY DEF Crawlers
  <1>2. InHand(c) = {c.item.page}
    BY DEF InHand
  <1>3. FirstAttempt(c.item, sn) \/ NextAttempt(c.item, sn)
    BY DEF WorkOK, Attempts
  <1>4. c.item.page \in InScope /\ c.item.attempt \in Nat /\ c.item.depth \in Nat
    BY <1>1, CrawlAssumption DEF Items
  <1>5. c.item.attempt >= 1
    BY <1>3, <1>4 DEF FirstAttempt, NextAttempt
  <1>6. Partition(c)
    BY DEF WorkOK
  <1>7. Pending(c) = PagesOf(c.queue) \cup PagesOf(c.retry) \cup {c.item.page} /\ c.seen = c.fetched \cup Pending(c)
    BY <1>2, <1>6 DEF Partition, Pending
  <1>8. /\ c.item.page \in c.seen /\ c.item.page \notin c.fetched
        /\ c.item.page \notin PagesOf(c.queue) /\ c.item.page \notin PagesOf(c.retry)
    BY <1>2, <1>6, <1>7 DEF Partition
  <1>9. c.item.page \in Pages
    BY <1>4, InventoryAssumption
  <1> QED
    BY <1>1, <1>3, <1>4, <1>5, <1>7, <1>8, <1>9

\* Appending is joining a list of one.
LEMMA AppendedLists ==
  ASSUME NEW S, NEW q \in Seq(S), NEW x \in S
  PROVE  Append(q, x) = q \o <<x>>
  OBVIOUS

\* What a crawler becomes that puts an item off, or has settled it and goes on with what it found.
PutOff(c, c1) ==
  /\ ~HasInHand(c1) /\ c1.queue = c.queue /\ c1.seen = c.seen /\ c1.fetched = c.fetched
  /\ c1.retry = Append(c.retry, Item(c.item.page, c.item.depth, c.item.attempt + 1))

SameFound(row, row1) == row1.discovered = row.discovered

Repeated(c, new) == new.state \in Transient /\ new.attempts = c.item.attempt /\ c.item.attempt < MaxAttempts

GoneOn(c, c1, f) ==
  /\ ~HasInHand(c1) /\ c1.retry = c.retry
  /\ c1.queue = c.queue \o [i \in DOMAIN f |-> Item(f[i], c.item.depth + 1, 1)]
  /\ c1.seen = c.seen \cup ToSet(f) /\ c1.fetched = c.fetched \cup {c.item.page}

NewPages(f, seen) ==
  /\ Len(f) \in Nat /\ DOMAIN f = 1 .. Len(f)
  /\ \A i \in DOMAIN f : f[i] \in InScope \ seen
  /\ \A i, j \in DOMAIN f : f[i] = f[j] => i = j
  /\ IsFiniteSet(ToSet(f)) /\ Cardinality(ToSet(f)) = Len(f)
  /\ Cardinality(seen) + Len(f) <= MaxPages

AllLinks(c, f, new) ==
  Cardinality(c.seen) + Len(f) < MaxPages /\ new.state = "fetched" /\ new.depth < MaxDepth =>
     Links[c.item.page] \cap InScope \subseteq c.seen \cup ToSet(f)

\* An attempt that is repeated leaves the work as it was, with the page at the end of the retries.
LEMMA PutOffWork ==
  ASSUME NEW row, NEW sd, NEW sn \in [Pages -> Snapshots], NEW c \in Crawlers, WorkOK(row, sd, sn, c),
         NEW p, p = c.item.page, HasInHand(c), NEW new \in Snapshots, Repeated(c, new),
         NEW c1, PutOff(c, c1), NEW row1, SameFound(row, row1), NEW sd1, SeedsFollow(sd, sd1, p, new)
  PROVE  WorkOK(row1, sd1, [sn EXCEPT ![p] = new], c1) /\ c1.retry \in Seq(Items)
  <1> USE DEF PutOff, Repeated, SameFound, SeedsFollow
  <1> DEFINE sm == [sn EXCEPT ![p] = new]
             i == Item(p, c.item.depth, c.item.attempt + 1)
  <1>1. /\ p \in Pages /\ p \in InScope /\ p \in c.seen /\ p \notin c.fetched
        /\ p \notin PagesOf(c.queue) /\ p \notin PagesOf(c.retry)
        /\ Pending(c) = PagesOf(c.queue) \cup PagesOf(c.retry) \cup {p}
        /\ c.seen = c.fetched \cup Pending(c)
        /\ c.queue \in Seq(Items) /\ c.retry \in Seq(Items)
        /\ c.item \in Items /\ c.item.attempt \in Nat /\ c.item.depth \in Nat /\ c.item.attempt >= 1
    BY ItemInHand
  <1>2. i \in Items /\ i.page = p /\ i.attempt = c.item.attempt + 1
    BY <1>1, CrawlAssumption DEF Item, Items
  <1>3. sm[p] = new /\ \A q \in Pages \ {p} : sm[q] = sn[q]
    BY <1>1
  <1>4. c1.retry = c.retry \o <<i>>
    BY <1>1, <1>2, AppendedLists
  <1>5. c.seen \subseteq Pages
    BY InventoryAssumption DEF Crawlers
  <1> HIDE DEF sm, i
  <1>6. <<i>> \in Seq(Items) /\ Distinct(<<i>>) /\ PagesOf(<<i>>) = {p} /\ \A j \in DOMAIN <<i>> : <<i>>[j] = i
    <2>1. <<i>> \in Seq(Items) /\ DOMAIN <<i>> = {1} /\ <<i>>[1] = i
      BY <1>2
    <2> QED
      BY <1>2, <2>1 DEF Distinct, PagesOf
  <1>7. Partition(c) /\ Attempts(c, sn) /\ SnapsFit(c, sn) /\ LinksMet(row, c, sn)
    BY DEF WorkOK
  <1>8. /\ c1.retry \in Seq(Items) /\ Distinct(c1.retry) /\ PagesOf(c1.retry) = PagesOf(c.retry) \cup {p}
        /\ \A k \in DOMAIN c1.retry : (\E j \in DOMAIN c.retry : c1.retry[k] = c.retry[j]) \/ c1.retry[k] = i
    <2>1. Distinct(c.retry) /\ PagesOf(c.retry) \cap PagesOf(<<i>>) = {}
      BY <1>1, <1>6, <1>7 DEF Partition
    <2>2. /\ c.retry \o <<i>> \in Seq(Items) /\ Distinct(c.retry \o <<i>>)
          /\ PagesOf(c.retry \o <<i>>) = PagesOf(c.retry) \cup PagesOf(<<i>>)
          /\ \A k \in DOMAIN (c.retry \o <<i>>) : \/ \E j \in DOMAIN c.retry : (c.retry \o <<i>>)[k] = c.retry[j]
                                                  \/ \E j \in DOMAIN <<i>> : (c.retry \o <<i>>)[k] = <<i>>[j]
      BY <1>1, <1>6, <2>1, JoinedLists
    <2> QED
      BY <1>4, <1>6, <2>2
  <1>9. InHand(c1) = {}
    BY DEF InHand
  <1>10. Pending(c1) = Pending(c)
    BY <1>1, <1>8, <1>9 DEF Pending
  <1>11. Partition(c1)
    BY <1>1, <1>7, <1>8, <1>9, <1>10 DEF Partition
  <1>12. Attempts(c1, sm)
    <2>1. ASSUME NEW j \in DOMAIN c1.queue
          PROVE  FirstAttempt(c1.queue[j], sm)
      <3>1. c.queue[j].page \in PagesOf(c.queue) /\ FirstAttempt(c.queue[j], sn)
        BY <1>7, <2>1 DEF PagesOf, Attempts
      <3>2. sm[c.queue[j].page] = sn[c.queue[j].page]
        BY <1>1, <1>3, <1>5, <3>1
      <3> QED
        BY <3>1, <3>2 DEF FirstAttempt
    <2>2. ASSUME NEW k \in DOMAIN c1.retry
          PROVE  NextAttempt(c1.retry[k], sm)
      <3>1. CASE c1.retry[k] = i
        <4>1. sm[i.page] = new /\ new.state \in Transient /\ new.attempts = c.item.attempt
          BY <1>2, <1>3
        <4>2. i.attempt > 1 /\ i.attempt - 1 = c.item.attempt
          BY <1>1, <1>2
        <4> QED
          BY <3>1, <4>1, <4>2 DEF NextAttempt
      <3>2. ASSUME NEW j \in DOMAIN c.retry, c1.retry[k] = c.retry[j]
            PROVE  NextAttempt(c1.retry[k], sm)
        <4>1. c.retry[j].page \in PagesOf(c.retry) /\ NextAttempt(c.retry[j], sn)
          BY <1>7 DEF PagesOf, Attempts
        <4>2. sm[c.retry[j].page] = sn[c.retry[j].page]
          BY <1>1, <1>3, <1>5, <4>1
        <4> QED
          BY <3>2, <4>1, <4>2 DEF NextAttempt
      <3> QED
        BY <1>8, <3>1, <3>2
    <2> QED
      BY <2>1, <2>2 DEF Attempts
  <1>13. SnapsFit(c1, sm)
    <2>1. \A q \in Pages \ c.seen : sm[q].state = "none"
      BY <1>1, <1>3, <1>7 DEF SnapsFit
    <2>2. \A q \in c.fetched : sm[q] = sn[q]
      BY <1>1, <1>3, <1>5
    <2> QED
      BY <1>7, <2>1, <2>2 DEF SnapsFit
  <1>14. LinksMet(row1, c1, sm)
    <2>1. \A q \in c.fetched : sm[q] = sn[q]
      BY <1>1, <1>3, <1>5
    <2> QED
      BY <1>7, <2>1 DEF LinksMet
  <1>15. \A q \in Pages : sd1[q] = "queued" => q \in Pending(c1)
    BY <1>1, <1>10 DEF WorkOK
  <1>16. row1.discovered = Cardinality(c1.seen)
    BY DEF WorkOK
  <1> QED
    BY <1>8, <1>11, <1>12, <1>13, <1>14, <1>15, <1>16 DEF WorkOK, sm

\* An attempt that is the last settles the page, and adds what it links to to the queue.
LEMMA SettledWork ==
  ASSUME NEW row, NEW sd, NEW sn \in [Pages -> Snapshots], NEW c \in Crawlers, NEW p, p = c.item.page,
         WorkOK(row, sd, sn, c), HasInHand(c),
         NEW new \in Snapshots, new.state \in Outcomes, new.state \in Transient => new.attempts = MaxAttempts,
         NEW f, NewPages(f, c.seen), f # <<>> => c.item.depth < MaxDepth, AllLinks(c, f, new),
         NEW c1, GoneOn(c, c1, f),
         NEW row1, row1.discovered = row.discovered + Len(f),
         NEW sd1, sd1[p] # "queued", SeedsFollow(sd, sd1, p, new)
  PROVE  /\ WorkOK(row1, sd1, [sn EXCEPT ![p] = new], c1)
         /\ c1.queue \in Seq(Items) /\ c1.seen \subseteq InScope
         /\ Cardinality(c1.seen) <= MaxPages /\ c1.fetched \subseteq c1.seen
  <1> USE DEF SeedsFollow, NewPages, AllLinks, GoneOn
  <1> DEFINE n == Len(f)
             sm == [sn EXCEPT ![p] = new]
             t == [i \in DOMAIN f |-> Item(f[i], c.item.depth + 1, 1)]
  <1>1. /\ p \in Pages /\ p \in InScope /\ p \in c.seen /\ p \notin c.fetched
        /\ p \notin PagesOf(c.queue) /\ p \notin PagesOf(c.retry)
        /\ Pending(c) = PagesOf(c.queue) \cup PagesOf(c.retry) \cup {p}
        /\ c.seen = c.fetched \cup Pending(c)
        /\ c.queue \in Seq(Items) /\ c.retry \in Seq(Items)
        /\ c.item \in Items /\ c.item.depth \in Nat
    BY ItemInHand
  <1>2. sm[p] = new /\ \A q \in Pages \ {p} : sm[q] = sn[q]
    BY <1>1
  <1>3. c.seen \subseteq InScope /\ c.seen \subseteq Pages /\ InScope \subseteq Pages /\ IsFiniteSet(c.seen)
    <2>1. c.seen \subseteq InScope /\ InScope \subseteq Pages
      BY InventoryAssumption DEF Crawlers
    <2> QED
      BY <2>1, PagesFinite
  <1>4. Partition(c) /\ Attempts(c, sn) /\ SnapsFit(c, sn) /\ LinksMet(row, c, sn)
        /\ row.discovered = Cardinality(c.seen)
        /\ \A q \in Pages : sd[q] = "queued" => q \in Pending(c)
    BY DEF WorkOK
  <1>5. \A x \in ToSet(f) : x \in InScope /\ x \in Pages /\ x \notin c.seen /\ x # p
    BY <1>1, <1>3 DEF ToSet
  <1>6. /\ t \in Seq(Items) /\ DOMAIN t = DOMAIN f
        /\ \A i \in DOMAIN f : t[i].page = f[i] /\ t[i].attempt = 1
    <2>1. \A i \in DOMAIN f : Item(f[i], c.item.depth + 1, 1) \in Items
      <3>1. ASSUME NEW i \in DOMAIN f
            PROVE  Item(f[i], c.item.depth + 1, 1) \in Items
        <4>1. f[i] \in InScope /\ c.item.depth < MaxDepth
          BY <3>1
        <4>2. c.item.depth + 1 \in 0 .. MaxDepth /\ 1 \in 0 .. MaxAttempts
          BY <1>1, <4>1, CrawlAssumption
        <4> QED
          BY <4>1, <4>2 DEF Item, Items
      <3> QED
        BY <3>1
    <2>2. \A i \in DOMAIN f : t[i] = Item(f[i], c.item.depth + 1, 1)
      OBVIOUS
    <2>3. t \in [1 .. n -> Items]
      BY <2>1
    <2>4. t \in Seq(Items)
      BY <2>3
    <2> QED
      BY <2>2, <2>4 DEF Item
  <1>7. c1.queue = c.queue \o t
    OBVIOUS
  <1> HIDE DEF t, n, sm
  <1>8. Distinct(t) /\ PagesOf(t) = ToSet(f)
    <2>1. DOMAIN t = DOMAIN f /\ \A i \in DOMAIN f : t[i].page = f[i]
      BY <1>6
    <2>2. Distinct(t)
      <3> SUFFICES ASSUME NEW i \in DOMAIN t, NEW j \in DOMAIN t, t[i].page = t[j].page PROVE i = j
        BY DEF Distinct
      <3>1. f[i] = f[j] /\ i \in DOMAIN f /\ j \in DOMAIN f
        BY <2>1
      <3> QED
        BY <3>1
    <2>3. ASSUME NEW x \in PagesOf(t) PROVE x \in ToSet(f)
      <3>1. PICK i \in DOMAIN t : x = t[i].page
        BY <2>3 DEF PagesOf
      <3> QED
        BY <2>1, <3>1 DEF ToSet
    <2>4. ASSUME NEW x \in ToSet(f) PROVE x \in PagesOf(t)
      <3>1. PICK i \in DOMAIN f : x = f[i]
        BY <2>4 DEF ToSet
      <3> QED
        BY <2>1, <3>1 DEF PagesOf
    <2> QED
      BY <2>2, <2>3, <2>4
  <1>9. /\ c1.queue \in Seq(Items) /\ Distinct(c1.queue) /\ PagesOf(c1.queue) = PagesOf(c.queue) \cup ToSet(f)
        /\ \A k \in DOMAIN c1.queue : (\E j \in DOMAIN c.queue : c1.queue[k] = c.queue[j])
                                      \/ (\E j \in DOMAIN t : c1.queue[k] = t[j])
    <2>1. Distinct(c.queue) /\ PagesOf(c.queue) \cap PagesOf(t) = {}
      BY <1>1, <1>4, <1>5, <1>8 DEF Partition
    <2>2. /\ c.queue \o t \in Seq(Items) /\ Distinct(c.queue \o t)
          /\ PagesOf(c.queue \o t) = PagesOf(c.queue) \cup PagesOf(t)
          /\ \A k \in DOMAIN (c.queue \o t) : \/ \E j \in DOMAIN c.queue : (c.queue \o t)[k] = c.queue[j]
                                              \/ \E j \in DOMAIN t : (c.queue \o t)[k] = t[j]
      BY <1>1, <1>6, <1>8, <2>1, JoinedLists
    <2>3. c1.queue \in Seq(Items) /\ Distinct(c1.queue)
      BY <1>7, <2>2
    <2>4. PagesOf(c1.queue) = PagesOf(c.queue) \cup ToSet(f)
      BY <1>7, <1>8, <2>2
    <2>5. \A k \in DOMAIN c1.queue : (\E j \in DOMAIN c.queue : c1.queue[k] = c.queue[j])
                                     \/ (\E j \in DOMAIN t : c1.queue[k] = t[j])
      <3> TAKE k \in DOMAIN c1.queue
      <3>1. k \in DOMAIN (c.queue \o t) /\ c1.queue[k] = (c.queue \o t)[k]
        BY <1>7
      <3>2. \/ \E j \in DOMAIN c.queue : (c.queue \o t)[k] = c.queue[j]
            \/ \E j \in DOMAIN t : (c.queue \o t)[k] = t[j]
        BY <2>2, <3>1
      <3> QED
        BY <3>1, <3>2
    <2> QED
      BY <2>3, <2>4, <2>5
  <1>10. InHand(c1) = {}
    BY DEF InHand
  <1>11. Pending(c1) = (Pending(c) \ {p}) \cup ToSet(f)
    <2>1. Pending(c1) = PagesOf(c.queue) \cup ToSet(f) \cup PagesOf(c.retry)
      BY <1>9, <1>10 DEF Pending
    <2> QED
      BY <1>1, <2>1
  <1>12. Partition(c1)
    <2>1. c1.seen = c1.fetched \cup Pending(c1)
      BY <1>1, <1>11
    <2>2. c1.fetched \cap Pending(c1) = {}
      BY <1>1, <1>4, <1>5, <1>11 DEF Partition
    <2>3. PagesOf(c1.queue) \cap PagesOf(c1.retry) = {}
      BY <1>1, <1>4, <1>5, <1>9 DEF Partition
    <2>4. Distinct(c1.retry)
      BY <1>4 DEF Partition
    <2> QED
      BY <1>9, <1>10, <2>1, <2>2, <2>3, <2>4 DEF Partition
  <1>13. Attempts(c1, sm)
    <2>1. ASSUME NEW k \in DOMAIN c1.queue
          PROVE  FirstAttempt(c1.queue[k], sm)
      <3>1. ASSUME NEW j \in DOMAIN c.queue, c1.queue[k] = c.queue[j]
            PROVE  FirstAttempt(c1.queue[k], sm)
        <4>1. c.queue[j].page \in PagesOf(c.queue) /\ FirstAttempt(c.queue[j], sn)
          BY <1>4 DEF PagesOf, Attempts
        <4>2. sm[c.queue[j].page] = sn[c.queue[j].page]
          BY <1>1, <1>2, <1>3, <4>1
        <4> QED
          BY <3>1, <4>1, <4>2 DEF FirstAttempt
      <3>2. ASSUME NEW j \in DOMAIN t, c1.queue[k] = t[j]
            PROVE  FirstAttempt(c1.queue[k], sm)
        <4>1. t[j].page \in ToSet(f) /\ t[j].attempt = 1
          BY <1>6 DEF ToSet
        <4>2. sn[t[j].page].state = "none" /\ sm[t[j].page] = sn[t[j].page]
          BY <1>2, <1>4, <1>5, <4>1 DEF SnapsFit
        <4> QED
          BY <3>2, <4>1, <4>2 DEF FirstAttempt
      <3> QED
        BY <1>9, <3>1, <3>2
    <2>2. ASSUME NEW k \in DOMAIN c1.retry
          PROVE  NextAttempt(c1.retry[k], sm)
      <3>1. c.retry[k].page \in PagesOf(c.retry) /\ NextAttempt(c.retry[k], sn)
        BY <1>4, <2>2 DEF PagesOf, Attempts
      <3>2. sm[c.retry[k].page] = sn[c.retry[k].page]
        BY <1>1, <1>2, <1>3, <3>1
      <3> QED
        BY <3>1, <3>2 DEF NextAttempt
    <2> QED
      BY <2>1, <2>2 DEF Attempts
  <1>14. SnapsFit(c1, sm)
    <2>1. \A q \in Pages \ c1.seen : sm[q].state = "none"
      BY <1>1, <1>2, <1>4 DEF SnapsFit
    <2>2. ASSUME NEW q \in c1.fetched
          PROVE  sm[q].state \in Outcomes /\ (sm[q].state \in Transient => sm[q].attempts = MaxAttempts)
      <3>1. CASE q = p
        BY <1>2, <3>1
      <3>2. CASE q # p
        <4>1. q \in c.fetched /\ q \in Pages
          BY <1>1, <1>3, <2>2, <3>2
        <4> QED
          BY <1>2, <1>4, <3>2, <4>1 DEF SnapsFit
      <3> QED
        BY <3>1, <3>2
    <2> QED
      BY <2>1, <2>2 DEF SnapsFit
  <1>15. Cardinality(c1.seen) = Cardinality(c.seen) + n /\ Cardinality(c.seen) \in Nat
    <2>1. c.seen \cap ToSet(f) = {}
      BY <1>5
    <2>2. Cardinality({}) = 0 /\ Cardinality(c.seen) \in Nat
      BY <1>3, FS_EmptySet, FS_CardinalityType
    <2>3. Cardinality(c.seen \cup ToSet(f)) =
            Cardinality(c.seen) + Cardinality(ToSet(f)) - Cardinality(c.seen \cap ToSet(f))
      BY <1>3, FS_Union
    <2>4. Cardinality(c.seen \cup ToSet(f)) = Cardinality(c.seen) + Len(f)
      <3>1. Cardinality(c.seen \cap ToSet(f)) = 0
        BY <2>1, <2>2
      <3> QED
        BY <2>2, <2>3, <3>1
    <2>5. Cardinality(c1.seen) = Cardinality(c.seen \cup ToSet(f))
      OBVIOUS
    <2> QED
      BY <2>2, <2>4, <2>5 DEF n
  <1>16. LinksMet(row1, c1, sm)
    <2>1. SUFFICES ASSUME row1.discovered < MaxPages, NEW q \in c1.fetched, sm[q].state = "fetched",
                          sm[q].depth < MaxDepth
                   PROVE  Links[q] \cap InScope \subseteq c1.seen
      BY DEF LinksMet
    <2>2. CASE q = p
      <3>1. Cardinality(c.seen) + Len(f) < MaxPages
        BY <1>4, <2>1
      <3>2. new.state = "fetched" /\ new.depth < MaxDepth
        BY <1>2, <2>1, <2>2
      <3>3. Links[p] \cap InScope \subseteq c.seen \cup ToSet(f)
        BY <3>1, <3>2
      <3> QED
        BY <2>2, <3>3
    <2>3. CASE q # p
      <3>1. q \in c.fetched /\ q \in Pages
        BY <1>1, <1>3, <2>1, <2>3
      <3>2. row.discovered < MaxPages
        BY <1>4, <1>15, <2>1, CrawlAssumption
      <3>3. sn[q].state = "fetched" /\ sn[q].depth < MaxDepth
        BY <1>2, <2>1, <2>3, <3>1
      <3>4. Links[q] \cap InScope \subseteq c.seen
        BY <1>4, <3>1, <3>2, <3>3 DEF LinksMet
      <3> QED
        BY <3>4
    <2> QED
      BY <2>2, <2>3
  <1>17. \A q \in Pages : sd1[q] = "queued" => q \in Pending(c1)
    BY <1>4, <1>11
  <1>18. row1.discovered = Cardinality(c1.seen)
    BY <1>4, <1>15 DEF n
  <1>19. c1.seen \subseteq InScope /\ Cardinality(c1.seen) <= MaxPages /\ c1.fetched \subseteq c1.seen
    BY <1>1, <1>3, <1>5, <1>15 DEF n
  <1> QED
    BY <1>9, <1>12, <1>13, <1>14, <1>16, <1>17, <1>18, <1>19 DEF WorkOK, sm

\* Nothing is joined.
LEMMA NothingJoined ==
  ASSUME NEW S, NEW q \in Seq(S), NEW t, DOMAIN t = {}
  PROVE  q \o t = q
  <1>1. Len(t) = 0 /\ t \in Seq(S)
    <2>1. t = [i \in 1 .. 0 |-> q]
      OBVIOUS
    <2> QED
      BY <2>1
  <1>2. q \o t \in Seq(S) /\ DOMAIN (q \o t) = 1 .. Len(q) /\ \A i \in 1 .. Len(q) : (q \o t)[i] = q[i]
    BY <1>1
  <1> QED
    BY <1>2

\* What the writing of an outcome makes of the snapshot, the seed and the crawler.
StoredAs(s, new, sd1, c1) ==
  LET c == crawl[s]
      p == c.item.page
      again == Repeats(s, c.answer)
      found == IF again THEN <<>> ELSE Followed(s, c.answer)
  IN /\ new.state = c.answer.state /\ new.depth = c.item.depth /\ new.attempts = c.item.attempt
     /\ \A q \in Pages \ {p} : sd1[q] = seed[s][q]
     /\ sd1[p] # "queued" \/ again
     /\ sd1[p] = "failed" => new.state \in Failing
     /\ sd1[p] = "fetched" => new.state \in Outcomes \ Failing
     /\ c1.at = "next"
     /\ c1.seen = c.seen \cup ToSet(found)
     /\ c1.queue = c.queue \o [i \in DOMAIN found |-> Item(found[i], c.item.depth + 1, 1)]
     /\ c1.retry = IF again THEN Append(c.retry, Item(p, c.item.depth, c.item.attempt + 1)) ELSE c.retry
     /\ c1.fetched = IF again THEN c.fetched ELSE c.fetched \cup {p}

\* What a scan becomes when the outcome of the page in hand is written.
LEMMA StoredScan ==
  ASSUME NEW s \in Scans, scan[s] \in ScanRows, seed[s] \in [Pages -> SeedStates], snap[s] \in [Pages -> Snapshots],
         crawl[s] \in Crawlers, ScanOK(scan[s], seed[s], snap[s], crawl[s]),
         crawl[s].at = "answered", scan[s].status = "running",
         NEW new \in Snapshots, NEW sd1, NEW c1, StoredAs(s, new, sd1, c1)
  PROVE  /\ Counted(s, crawl[s].answer) \in ScanRows
         /\ Counted(s, crawl[s].answer).status = "running"
         /\ ScanOK(Counted(s, crawl[s].answer), sd1, [snap[s] EXCEPT ![crawl[s].item.page] = new], c1)
         /\ c1.queue \in Seq(Items) /\ c1.retry \in Seq(Items) /\ c1.seen \subseteq InScope
         /\ c1.fetched \subseteq InScope
  <1> DEFINE c == crawl[s]
             p == c.item.page
             a == crawl[s].answer
             again == Repeats(s, a)
             found == IF again THEN <<>> ELSE Followed(s, a)
             row == scan[s]
             sd == seed[s]
             sn == snap[s]
             row1 == Counted(s, a)
             sm == [sn EXCEPT ![p] = new]
  <1>1. HasInHand(c) /\ WorkOK(row, sd, sn, c) /\ Tallied(row, sd, sn) /\ AnswerOK(a) /\ row.stop = "none"
        /\ Cardinality(c.seen) <= MaxPages /\ c.fetched \subseteq c.seen
    BY DEF ScanOK, CrawlerOK, HasInHand, Terminal
  <1>2. /\ p \in Pages /\ p \in InScope /\ p \in c.seen
        /\ FirstAttempt(c.item, sn) \/ NextAttempt(c.item, sn)
        /\ c.queue \in Seq(Items) /\ c.retry \in Seq(Items)
        /\ c.item \in Items /\ c.item.attempt \in Nat
    BY <1>1, ItemInHand
  <1>3. /\ Len(found) \in Nat /\ DOMAIN found = 1 .. Len(found)
        /\ again => found = <<>> /\ Len(found) = 0 /\ ToSet(found) = {}
    <2>1. CASE again
      BY <2>1 DEF ToSet
    <2>2. CASE ~again
      BY <1>1, <2>2, FollowedLists
    <2> QED
      BY <2>1, <2>2
  <1>4. /\ row1.failed = row.failed + Number(new.state \in Failing) - Number(sn[p].state \in Failing)
        /\ row1.attempts = row.attempts + 1
        /\ row1.retries = row.retries + Number(new.attempts > 1)
        /\ row1.exhausted = row.exhausted + Number(new.state \in Transient /\ ~again)
        /\ row1.discovered = row.discovered + Number(~again) * Len(Followed(s, a))
        /\ row1.status = "running" /\ row1.stop = "none"
    BY <1>1 DEF Counted, ScanRows, StoredAs
  <1>5. Number(~again) * Len(Followed(s, a)) = Len(found) /\ Number(~again) \in Nat
    <2>1. Len(Followed(s, a)) \in Nat
      BY <1>1, FollowedLists
    <2>2. CASE again
      BY <1>3, <2>1, <2>2 DEF Number
    <2>3. CASE ~again
      BY <2>1, <2>3 DEF Number
    <2> QED
      BY <2>2, <2>3
  <1>6. row1.discovered = row.discovered + Len(found)
    BY <1>4, <1>5
  <1>7. (new.state \in Transient /\ ~again) <=> (new.state \in Transient /\ new.attempts = MaxAttempts)
    <2>1. c.item.attempt \in 0 .. MaxAttempts /\ MaxAttempts \in Nat
      BY <1>2, CrawlAssumption DEF Items
    <2>2. again <=> a.state \in Transient /\ c.item.attempt < MaxAttempts
      BY DEF Repeats
    <2>3. new.state = a.state /\ new.attempts = c.item.attempt
      BY DEF StoredAs
    <2> HIDE DEF again
    <2> QED
      BY <2>1, <2>2, <2>3
  <1>8. row1.exhausted = row.exhausted + Number(new.state \in Transient /\ new.attempts = MaxAttempts)
    BY <1>4, <1>7 DEF Number
  <1>9. \/ sn[p].state = "none" /\ new.attempts = 1
        \/ sn[p].state \in Transient /\ new.attempts > 1 /\ sn[p].attempts = new.attempts - 1
    BY <1>2 DEF FirstAttempt, NextAttempt, StoredAs
  <1>10. new.state \in Outcomes
    BY <1>1 DEF AnswerOK, StoredAs
  <1> HIDE DEF again, row1
  <1>15. /\ c \in Crawlers /\ row \in ScanRows /\ sn \in [Pages -> Snapshots]
         /\ SeedsFollow(sd, sd1, p, new) /\ \A q \in Pages \ {p} : sd1[q] = sd[q]
    BY DEF SeedsFollow, StoredAs
  <1>16. /\ p = c.item.page /\ new.depth = c.item.depth /\ new.attempts = c.item.attempt /\ sm = [sn EXCEPT ![p] = new]
         /\ c1.seen = c.seen \cup ToSet(found)
         /\ c1.queue = c.queue \o [i \in DOMAIN found |-> Item(found[i], c.item.depth + 1, 1)]
         /\ ~again => sd1[p] # "queued"
    BY DEF again, StoredAs
  <1>18. /\ c \in Crawlers /\ sn \in [Pages -> Snapshots] /\ WorkOK(row, sd, sn, c) /\ HasInHand(c)
         /\ SeedsFollow(sd, sd1, p, new) /\ p = c.item.page /\ new.attempts = c.item.attempt
    BY <1>1, <1>15, <1>16
  <1>17. NextOutcome(sn[p], new) /\ RowFollows(row, row1, sn[p], new)
    BY <1>4, <1>8, <1>9 DEF NextOutcome, RowFollows
  <1>11. /\ Tallied(row1, sd1, sm)
         /\ row1.failed \in Nat /\ row1.attempts \in Nat /\ row1.retries \in Nat /\ row1.exhausted \in Nat
    <2> HIDE DEF c, a, found, row, sd, sn
    <2> QED
      BY <1>1, <1>2, <1>10, <1>15, <1>16, <1>17, StoreTallies
  <1>12. /\ WorkOK(row1, sd1, sm, c1)
         /\ c1.queue \in Seq(Items) /\ c1.retry \in Seq(Items) /\ c1.seen \subseteq InScope
         /\ Cardinality(c1.seen) <= MaxPages /\ c1.fetched \subseteq c1.seen
    <2>1. ~HasInHand(c1)
      BY DEF HasInHand, StoredAs
    <2>2. CASE again
      <3>1. new.state \in Transient /\ c.item.attempt < MaxAttempts
        BY <2>2 DEF Repeats, again, StoredAs
      <3> DEFINE t == [i \in DOMAIN found |-> Item(found[i], c.item.depth + 1, 1)]
      <3>2. c1.queue = c.queue \o t /\ DOMAIN t = {}
        <4>1. DOMAIN found = {}
          BY <1>3, <2>2
        <4> HIDE DEF found
        <4> QED
          BY <1>16, <4>1
      <3> HIDE DEF t
      <3>3. c1.queue = c.queue
        BY <1>2, <3>2, NothingJoined
      <3>4. c1.seen = c.seen /\ c1.fetched = c.fetched /\ row1.discovered = row.discovered
        <4>1. row.discovered \in Nat
          BY DEF ScanRows
        <4> QED
          BY <1>3, <1>6, <2>2, <4>1 DEF again, StoredAs
      <3>5. c1.retry = Append(c.retry, Item(c.item.page, c.item.depth, c.item.attempt + 1))
        BY <2>2 DEF again, StoredAs
      <3>7. PutOff(c, c1)
        BY <2>1, <3>3, <3>4, <3>5 DEF PutOff
      <3> HIDE DEF found, c, p, a, row, sd, sn
      <3>8. SameFound(row, row1) /\ Repeated(c, new)
        BY <1>18, <3>1, <3>4 DEF Repeated, SameFound
      <3>6. WorkOK(row1, sd1, sm, c1) /\ c1.retry \in Seq(Items)
        BY <1>18, <3>7, <3>8, PutOffWork
      <3> QED
        BY <1>1, <1>2, <1>15, <3>3, <3>4, <3>6 DEF Crawlers
    <2>3. CASE ~again
      <3> DEFINE f == Followed(s, a)
      <3>1. found = f
        BY <2>3
      <3>2. /\ c1.seen = c.seen \cup ToSet(f) /\ c1.fetched = c.fetched \cup {p} /\ c1.retry = c.retry
            /\ c1.queue = c.queue \o [i \in DOMAIN f |-> Item(f[i], c.item.depth + 1, 1)]
        BY <2>3 DEF again, StoredAs
      <3>3. row1.discovered = row.discovered + Len(f) /\ sd1[p] # "queued"
        BY <1>6, <2>3, <3>1 DEF again, StoredAs
      <3>4. new.state \in Transient => new.attempts = MaxAttempts
        BY <1>7, <2>3
      <3>5. /\ NewPages(f, c.seen)
            /\ f # <<>> => c.item.depth < MaxDepth
            /\ Cardinality(c.seen) + Len(f) < MaxPages /\ a.body = PageBody /\ c.item.depth < MaxDepth =>
                 Links[c.item.page] \cap InScope \subseteq c.seen \cup ToSet(f)
        BY <1>1, FollowedLists DEF NewPages
      <3>6. new.state = "fetched" => a.body = PageBody
        BY <1>1 DEF AnswerOK, StoredAs
      <3> HIDE DEF f, found, c, p, a, row, sd, sn
      <3>7. AllLinks(c, f, new)
        BY <1>16, <3>5, <3>6 DEF AllLinks
      <3>9. GoneOn(c, c1, f)
        BY <1>16, <2>1, <3>2, <3>3 DEF GoneOn
      <3>8. /\ WorkOK(row1, sd1, sm, c1)
            /\ c1.queue \in Seq(Items) /\ c1.seen \subseteq InScope
            /\ Cardinality(c1.seen) <= MaxPages /\ c1.fetched \subseteq c1.seen
        BY <1>10, <1>18, <3>3, <3>4, <3>5, <3>7, <3>9, SettledWork
      <3> QED
        BY <1>2, <1>15, <3>2, <3>8
    <2> QED
      BY <2>2, <2>3
  <1>13. row1 \in ScanRows
    <2>1. row.fetched + Number(~again) \in Nat /\ row1.discovered \in Nat
      <3>1. row.fetched \in Nat /\ row.discovered \in Nat
        BY DEF ScanRows
      <3> HIDE DEF found
      <3> QED
        BY <1>3, <1>5, <1>6, <3>1
    <2>2. row1 = [row EXCEPT !.failed = row1.failed, !.attempts = row1.attempts, !.retries = row1.retries,
                            !.exhausted = row1.exhausted, !.fetched = row.fetched + Number(~again),
                            !.discovered = row1.discovered]
      BY DEF Counted, ScanRows, row1, again
    <2> QED
      BY <1>11, <2>1, <2>2 DEF ScanRows
  <1>14. ScanOK(row1, sd1, sm, c1)
    <2>1. CrawlerOK(row1, sd1, sm, c1)
      BY <1>12 DEF CrawlerOK, StoredAs
    <2> QED
      BY <1>4, <1>11, <1>12, <2>1 DEF ScanOK, Terminal, StoredAs
  <1> QED
    BY <1>4, <1>12, <1>13, <1>14 DEF row1, sm

\* What is written has its row and its artifact, and its file unless a deletion was unlinking it.
LEMMA StoredFiles ==
  ASSUME CrawlTyped, FilesInv, DeletionTyped, NEW s \in Scans, NEW p \in Pages, NEW new \in Snapshots,
         crawl[s].at = "answered", scan[s].status = "running", AnswerOK(crawl[s].answer),
         ~Dangling(crawl[s].answer, p), new.body = crawl[s].answer.body, new.parsed = (new.body # NoBody),
         snap' = [snap EXCEPT ![s] = [snap[s] EXCEPT ![p] = new]],
         rows' = rows \cup ({new.body} \ {NoBody}),
         artifacts' = artifacts \cup {<<b, p>> : b \in {new.body} \ {NoBody}},
         scan'[s].status = "running", crawl'[s].at # "answered",
         \A t \in Scans \ {s} : scan'[t] = scan[t] /\ crawl'[t] = crawl[t],
         UNCHANGED <<files, del, raced>>
  PROVE  FilesInv'
  <1> DEFINE b == new.body
  <1>1. /\ rows \subseteq Contents /\ rows \subseteq files \cup raced /\ artifacts \subseteq rows \X Pages
        /\ NoBody \notin Contents
    BY CrawlAssumption DEF CrawlTyped, FilesInv, FilesKept, Contents
  <1>2. /\ b # NoBody /\ b \notin rows => b \in files \cup raced
        /\ b # NoBody /\ b \notin rows /\ del.at = "unlink" /\ b \in del.contents => b \in raced
    <2>1. b # NoBody /\ b \notin rows => ~crawl[s].answer.row
      BY DEF Dangling
    <2> QED
      BY <2>1 DEF FilesInv, PublishedKept
  <1>3. \A t \in Scans : \A q \in Pages : snap'[t][q] = IF t = s /\ q = p THEN new ELSE snap[t][q]
    <2> TAKE t \in Scans
    <2> TAKE q \in Pages
    <2>1. snap \in [Scans -> [Pages -> Snapshots]]
      BY DEF CrawlTyped
    <2>2. CASE t = s
      <3>1. snap'[t] = [snap[s] EXCEPT ![p] = new]
        BY <2>1, <2>2
      <3> QED
        BY <2>1, <2>2, <3>1
    <2>3. CASE t # s
      <3>1. snap'[t] = snap[t]
        BY <2>1, <2>3
      <3> QED
        BY <2>3, <3>1
    <2> QED
      BY <2>2, <2>3
  <1>4. FilesKept'
    <2>1. rows' \subseteq files' \cup raced'
      BY <1>1, <1>2
    <2>2. ASSUME NEW t \in Scans, NEW q \in Pages, snap'[t][q].body # NoBody
          PROVE  snap'[t][q].body \in rows'
      <3>1. CASE t = s /\ q = p
        BY <1>3, <2>2, <3>1
      <3>2. CASE ~(t = s /\ q = p)
        <4>1. snap'[t][q] = snap[t][q]
          BY <1>3, <3>2
        <4>2. snap[t][q].body \in ReferredTo(t)
          BY <2>2, <4>1 DEF ReferredTo
        <4> QED
          BY <4>1, <4>2 DEF FilesInv, FilesKept
      <3> QED
        BY <3>1, <3>2
    <2>3. \A t \in Scans : ReferredTo(t)' \subseteq rows'
      BY <2>2 DEF ReferredTo
    <2>4. ASSUME NEW t \in Scans, NEW q \in Pages, snap'[t][q].parsed
          PROVE  <<snap'[t][q].body, q>> \in artifacts'
      <3>1. CASE t = s /\ q = p
        <4>1. snap'[t][q] = new /\ new.body # NoBody
          BY <1>3, <2>4, <3>1
        <4> QED
          BY <3>1, <4>1
      <3>2. CASE ~(t = s /\ q = p)
        <4>1. snap'[t][q] = snap[t][q]
          BY <1>3, <3>2
        <4>2. <<snap[t][q].body, q>> \in artifacts
          BY <2>4, <4>1 DEF FilesInv, FilesKept
        <4> QED
          BY <4>1, <4>2
      <3> QED
        BY <3>1, <3>2
    <2> QED
      BY <2>1, <2>3, <2>4 DEF FilesKept
  <1>5. PublishedKept'
    <2>1. SUFFICES ASSUME NEW t \in Scans, crawl'[t].at = "answered", ~crawl'[t].answer.row, crawl'[t].answer.body # NoBody
                   PROVE  /\ crawl'[t].answer.body \in files' \cup raced'
                          /\ del'.at = "unlink" /\ crawl'[t].answer.body \in del'.contents => crawl'[t].answer.body \in raced'
      BY DEF PublishedKept
    <2>2. t # s /\ crawl'[t] = crawl[t]
      BY <2>1
    <2> QED
      BY <2>1, <2>2 DEF FilesInv, PublishedKept
  <1>6. UnlinkedGone'
    <2>1. del.at = "unlink" => rows \cap del.contents \subseteq raced
      BY DEF FilesInv, UnlinkedGone
    <2> QED
      BY <1>2, <2>1 DEF UnlinkedGone
  <1>7. DeletedEnded'
    <2>1. SUFFICES ASSUME del.at # "idle" PROVE scan'[del.scan].status \in Terminal \cup {"deleted"}
      BY DEF DeletedEnded
    <2>2. scan[del.scan].status \in Terminal \cup {"deleted"} /\ del.scan \in Scans
      BY <2>1 DEF FilesInv, DeletedEnded, DeletionTyped
    <2>3. del.scan # s
      BY <2>2 DEF Terminal
    <2> QED
      BY <2>2, <2>3
  <1>8. SnapsParsed'
    <2>1. SUFFICES ASSUME NEW t \in Scans, NEW q \in Pages
                   PROVE  snap'[t][q].parsed <=> snap'[t][q].body # NoBody
      BY DEF SnapsParsed
    <2>2. CASE t = s /\ q = p
      <3>1. snap'[t][q] = new
        BY <1>3, <2>2
      <3> QED
        BY <3>1, Zenon
    <2>3. CASE ~(t = s /\ q = p)
      <3>1. snap'[t][q] = snap[t][q]
        BY <1>3, <2>3
      <3>2. snap[t][q].parsed <=> snap[t][q].body # NoBody
        BY DEF FilesInv, SnapsParsed
      <3> QED
        BY <3>1, <3>2
    <2> QED
      BY <2>2, <2>3
  <1> QED
    BY <1>4, <1>5, <1>6, <1>7, <1>8 DEF FilesInv

LEMMA StoreKeeps ==
  ASSUME CrawlInv, NEW s \in Scans, Store(s), UNCHANGED <<del, raced>>
  PROVE  CrawlInv'
  <1> DEFINE c == crawl[s]
             p == c.item.page
             a == c.answer
             again == Repeats(s, a)
             found == IF again THEN <<>> ELSE Followed(s, a)
             new == [state |-> a.state, body |-> a.body, parsed |-> a.body # NoBody, depth |-> c.item.depth,
                     attempts |-> c.item.attempt]
             state == IF again THEN "queued" ELSE IF a.state \in Failing THEN "failed" ELSE "fetched"
             sd1 == IF seed[s][p] = "none" THEN seed[s] ELSE [seed[s] EXCEPT ![p] = state]
             row1 == Counted(s, a)
             touched1 == c.touched \cup {p} \cup (IF again \/ a.body # PageBody THEN {} ELSE Links[p])
             seen1 == c.seen \cup ToSet(found)
             queue1 == c.queue \o [i \in DOMAIN found |-> Item(found[i], c.item.depth + 1, 1)]
             retry1 == IF again THEN Append(c.retry, Item(p, c.item.depth, c.item.attempt + 1)) ELSE c.retry
             fetched1 == IF again THEN c.fetched ELSE c.fetched \cup {p}
             c1 == [c EXCEPT !.at = "next", !.answer = NoAnswer, !.item = NoItem, !.candidate = FALSE,
                             !.touched = touched1, !.seen = seen1, !.queue = queue1, !.retry = retry1,
                             !.fetched = fetched1]
  <1>1. /\ scan \in [Scans -> ScanRows] /\ seed \in [Scans -> [Pages -> SeedStates]]
        /\ snap \in [Scans -> [Pages -> Snapshots]] /\ crawl \in [Scans -> Crawlers]
        /\ rows \subseteq Contents /\ artifacts \subseteq rows \X Pages
    BY DEF CrawlInv, CrawlTyped
  <1>2. /\ scan[s] \in ScanRows /\ seed[s] \in [Pages -> SeedStates] /\ snap[s] \in [Pages -> Snapshots]
        /\ c \in Crawlers /\ ScanOK(scan[s], seed[s], snap[s], c)
    BY ScanParts
  <1>3. c.at = "answered" /\ scan[s].status = "running" /\ ~Dangling(a, p) /\ UNCHANGED <<files, del, raced>>
    BY DEF Store, Owned
  <1>4. /\ snap' = [snap EXCEPT ![s] = [snap[s] EXCEPT ![p] = new]]
        /\ rows' = rows \cup ({a.body} \ {NoBody})
        /\ artifacts' = artifacts \cup {<<b, p>> : b \in {a.body} \ {NoBody}}
        /\ scan' = [scan EXCEPT ![s] = row1]
    BY <1>1 DEF Store
  <1>5. seed' = [seed EXCEPT ![s] = sd1]
    <2>1. seed' = Marked(s, p, state)
      BY DEF Store
    <2>2. CASE seed[s][p] = "none"
      BY <1>1, <2>1, <2>2 DEF Marked
    <2>3. CASE seed[s][p] # "none"
      BY <1>1, <2>1, <2>3 DEF Marked
    <2> QED
      BY <2>2, <2>3
  <1>6. crawl' = [crawl EXCEPT ![s] = c1]
    BY DEF Store
  <1>7. p \in InScope /\ p \in Pages /\ c.item \in Items /\ a \in Answers
    BY <1>2, InventoryAssumption DEF Crawlers, Items
  <1>8. AnswerOK(a)
    BY <1>2, <1>3 DEF ScanOK
  <1>9. /\ new.state = a.state /\ new.body = a.body /\ new.parsed = (a.body # NoBody)
        /\ new.depth = c.item.depth /\ new.attempts = c.item.attempt
    OBVIOUS
  <1>10. new \in Snapshots
    BY <1>7 DEF Snapshots, Answers, Items
  <1> HIDE DEF new
  <1>11. sd1 \in [Pages -> SeedStates]
    BY <1>2 DEF SeedStates
  <1>12. /\ \A q \in Pages \ {p} : sd1[q] = seed[s][q]
         /\ (sd1[p] = seed[s][p] /\ seed[s][p] = "none") \/ sd1[p] = state
    BY <1>2, <1>7
  <1>13. /\ c1.at = "next" /\ c1.answer = NoAnswer /\ c1.item = NoItem /\ c1.candidate = FALSE
         /\ c1.touched = touched1 /\ c1.seen = seen1 /\ c1.queue = queue1 /\ c1.retry = retry1
         /\ c1.fetched = fetched1
    BY <1>2 DEF Crawlers
  <1>14. /\ sd1[p] # "queued" \/ again
         /\ sd1[p] = "failed" => new.state \in Failing
         /\ sd1[p] = "fetched" => new.state \in Outcomes \ Failing
    <2>1. new.state \in Outcomes
      BY <1>8, <1>9 DEF AnswerOK
    <2> HIDE DEF sd1
    <2> QED
      BY <1>9, <1>12, <2>1
  <1> HIDE DEF sd1, c1
  <1>15. StoredAs(s, new, sd1, c1)
    BY <1>9, <1>12, <1>13, <1>14, Zenon DEF StoredAs
  <1>16. /\ row1 \in ScanRows /\ row1.status = "running"
         /\ ScanOK(row1, sd1, [snap[s] EXCEPT ![p] = new], c1)
         /\ c1.queue \in Seq(Items) /\ c1.retry \in Seq(Items) /\ c1.seen \subseteq InScope
         /\ c1.fetched \subseteq InScope
    BY <1>2, <1>3, <1>10, <1>15, StoredScan
  <1> HIDE DEF row1
  <1>17. touched1 \in SUBSET Pages
    BY <1>2, <1>7, CrawlAssumption DEF Crawlers
  <1>18. NoItem \in Items /\ NoAnswer \in Answers
    BY AsleepTyped DEF Asleep, Crawlers
  <1>19. c1 \in Crawlers
    <2>1. queue1 \in Seq(Items) /\ retry1 \in Seq(Items) /\ seen1 \in SUBSET InScope /\ fetched1 \in SUBSET InScope
      BY <1>13, <1>16, Zenon
    <2> HIDE DEF queue1, retry1, seen1, fetched1, touched1
    <2> QED
      BY <1>2, <1>17, <1>18, <2>1 DEF c1, Crawlers, CrawlPhases
  <1> HIDE DEF found, again, state, touched1, seen1, queue1, retry1, fetched1
  <1>20. /\ scan'[s] = row1 /\ seed'[s] = sd1 /\ snap'[s] = [snap[s] EXCEPT ![p] = new] /\ crawl'[s] = c1
         /\ \A t \in Scans \ {s} : /\ scan'[t] = scan[t] /\ seed'[t] = seed[t]
                                   /\ snap'[t] = snap[t] /\ crawl'[t] = crawl[t]
    BY <1>1, <1>4, <1>5, <1>6
  <1>21. CrawlTyped'
    <2>1. [snap[s] EXCEPT ![p] = new] \in [Pages -> Snapshots]
      BY <1>2, <1>7, <1>10
    <2>2. rows' \subseteq Contents /\ artifacts' \subseteq rows' \X Pages /\ files' \subseteq Contents
      <3>1. a.body \in Contents \cup {NoBody} /\ files \subseteq Contents
        BY <1>7 DEF Answers, CrawlInv, CrawlTyped
      <3> QED
        BY <1>1, <1>3, <1>4, <1>7, <3>1
    <2>3. scan' \in [Scans -> ScanRows] /\ crawl' \in [Scans -> Crawlers]
      BY <1>1, <1>4, <1>6, <1>16, <1>19
    <2>4. seed' \in [Scans -> [Pages -> SeedStates]]
      BY <1>1, <1>5, <1>11
    <2>5. snap' \in [Scans -> [Pages -> Snapshots]]
      BY <1>1, <1>4, <2>1
    <2> QED
      BY <2>2, <2>3, <2>4, <2>5 DEF CrawlTyped
  <1>22. DeletionTyped'
    BY <1>3 DEF CrawlInv, DeletionTyped
  <1>23. FilesInv'
    <2>1. CrawlTyped /\ FilesInv /\ DeletionTyped
      BY DEF CrawlInv
    <2>2. /\ rows' = rows \cup ({new.body} \ {NoBody})
          /\ artifacts' = artifacts \cup {<<b, p>> : b \in {new.body} \ {NoBody}}
          /\ new.parsed = (new.body # NoBody)
      BY <1>4, <1>9, Zenon
    <2>3. scan'[s].status = "running" /\ crawl'[s].at # "answered"
      BY <1>13, <1>16, <1>20
    <2>4. \A t \in Scans \ {s} : scan'[t] = scan[t] /\ crawl'[t] = crawl[t]
      BY <1>20
    <2> QED
      BY <1>3, <1>4, <1>7, <1>8, <1>9, <1>10, <2>1, <2>2, <2>3, <2>4, StoredFiles
  <1>24. ScansOK'
    <2>1. ScanOK(scan'[s], seed'[s], snap'[s], crawl'[s])
      BY <1>16, <1>20, Zenon
    <2> QED
      BY <1>20, <2>1, OneScan DEF CrawlInv
  <1> QED
    BY <1>21, <1>22, <1>23, <1>24 DEF CrawlInv

-----------------------------------------------------------------------------
(* The invariant is kept, and says what the runs check.                     *)

LEMMA InventoryStill ==
  ASSUME InventoryInv, UNCHANGED inventoryVars, Ask \/ Fault \/ UNCHANGED spent
  PROVE  InventoryInv'
  <1>1. spent \in [requests: 0 .. MaxRequests, faults: 0 .. MaxFaults]
    BY DEF InventoryInv, InventoryTypeOK
  <1>2. spent' \in [requests: 0 .. MaxRequests, faults: 0 .. MaxFaults]
    BY <1>1, SpentTyped
  <1> QED
    BY <1>2 DEF InventoryInv, InventoryTypeOK, inventoryVars

LEMMA CrawlStepKeeps ==
  ASSUME CrawlInv, NEW s \in Scans, CrawlStep(s), UNCHANGED <<del, raced>>
  PROVE  CrawlInv'
  <1>1. CASE Begin(s)
    BY <1>1, BeginKeeps
  <1>2. CASE Leave(s) \/ Wait(s) \/ Send(s) \/ StoreFails(s)
    BY <1>2, LeaveKeeps
  <1>3. CASE Pop(s)
    BY <1>3, PopKeeps
  <1>4. CASE NotModified(s)
    BY <1>4, NotModifiedKeeps
  <1>5. CASE Store(s)
    BY <1>5, StoreKeeps
  <1>6. CASE Finish(s)
    BY <1>6, FinishKeeps
  <1>7. CASE Break(s)
    BY <1>7, BreakKeeps
  <1>8. CASE ScanLost(s)
    BY <1>8, CrashKeeps
  <1> QED
    BY <1>1, <1>2, <1>3, <1>4, <1>5, <1>6, <1>7, <1>8, Zenon DEF CrawlStep

LEMMA StepKeeps ==
  ASSUME IInv, [Next]_vars
  PROVE  IInv'
  <1>1. InventoryInv /\ CrawlInv
    BY DEF IInv, CrawlInv
  <1>2. SUFFICES InventoryInv' /\ CrawlInv'
    BY DEF IInv, CrawlInv
  <1>3. CASE InventoryRequest /\ UNCHANGED <<crawlVars, del, raced>>
    BY <1>1, <1>3, InventoryRequestKeeps, CrawlStill
  <1>4. ASSUME NEW chosen \in SeedChoices, CreateScan(chosen), UNCHANGED <<inventoryVars, del, raced>>
        PROVE  InventoryInv' /\ CrawlInv'
    <2>1. Ask /\ UNCHANGED inventoryVars
      BY <1>4 DEF CreateScan
    <2> QED
      BY <1>1, <1>4, <2>1, InventoryStill, CreateKeeps
  <1>5. ASSUME NEW s \in Scans, CancelScan(s), UNCHANGED <<inventoryVars, del, raced>>
        PROVE  InventoryInv' /\ CrawlInv'
    <2>1. Ask /\ UNCHANGED inventoryVars
      BY <1>5 DEF CancelScan
    <2> QED
      BY <1>1, <1>5, <2>1, InventoryStill, CancelKeeps
  <1>6. ASSUME NEW s \in Scans, DeleteRead(s)
        PROVE  InventoryInv' /\ CrawlInv'
    <2>1. Ask /\ UNCHANGED inventoryVars
      BY <1>6 DEF DeleteRead
    <2> QED
      BY <1>1, <1>6, <2>1, InventoryStill, DeleteReadKeeps
  <1>7. CASE Request
    BY <1>3, <1>4, <1>5, <1>6, <1>7, Zenon DEF Request, CrawlRequest
  <1>8. ASSUME NEW r \in Refreshes, RefreshLooks(r) \/ RefreshWrites(r) \/ RefreshFaults(r),
               UNCHANGED <<crawlVars, del, raced>>
        PROVE  InventoryInv' /\ CrawlInv'
    BY <1>1, <1>8, RefreshKeeps, CrawlStill
  <1>9. ASSUME NEW s \in Scans, CrawlCrash(s), UNCHANGED <<inventoryVars, del, raced>>
        PROVE  InventoryInv' /\ CrawlInv'
    <2>1. Fault /\ UNCHANGED inventoryVars
      BY <1>9 DEF CrawlCrash
    <2> QED
      BY <1>1, <1>9, <2>1, InventoryStill, CrashKeeps
  <1>10. CASE Failure
    BY <1>8, <1>9, <1>10, Zenon DEF Failure
  <1>11. CASE DeleteRefused
    <2>1. UNCHANGED spent /\ UNCHANGED inventoryVars
      BY <1>11 DEF DeleteRefused
    <2> QED
      BY <1>1, <1>11, <2>1, InventoryStill, DeleteRefusedKeeps
  <1>12. CASE DeleteCommit
    <2>1. UNCHANGED spent /\ UNCHANGED inventoryVars
      BY <1>12 DEF DeleteCommit
    <2> QED
      BY <1>1, <1>12, <2>1, InventoryStill, DeleteCommitKeeps
  <1>13. CASE Unlink
    <2>1. UNCHANGED spent /\ UNCHANGED inventoryVars
      BY <1>13 DEF Unlink
    <2> QED
      BY <1>1, <1>13, <2>1, InventoryStill, UnlinkKeeps
  <1>14. ASSUME NEW r \in Refreshes, RefreshStep(r)
         PROVE  InventoryInv' /\ CrawlInv'
    BY <1>8, <1>14, Zenon DEF RefreshStep
  <1>15. ASSUME NEW s \in Scans, CrawlNow(s)
         PROVE  InventoryInv' /\ CrawlInv'
    <2>1. UNCHANGED spent /\ UNCHANGED inventoryVars /\ CrawlStep(s) /\ UNCHANGED <<del, raced>>
      BY <1>15 DEF CrawlNow
    <2> QED
      BY <1>1, <2>1, InventoryStill, CrawlStepKeeps
  <1>16. ASSUME NEW s \in Scans, AnswerNow(s)
         PROVE  InventoryInv' /\ CrawlInv'
    <2>1. (Fault \/ UNCHANGED spent) /\ UNCHANGED inventoryVars
      BY <1>16 DEF AnswerNow, Answer
    <2> QED
      BY <1>1, <1>16, <2>1, InventoryStill, AnswerNowKeeps
  <1>17. ASSUME NEW s \in Scans, Recovery(s)
         PROVE  InventoryInv' /\ CrawlInv'
    <2>1. (Fault \/ UNCHANGED spent) /\ UNCHANGED inventoryVars /\ RecoverScan(s) /\ UNCHANGED <<del, raced>>
      BY <1>17 DEF Recovery, RecoverScan
    <2> QED
      BY <1>1, <2>1, InventoryStill, RecoverKeeps
  <1>18. CASE UNCHANGED vars
    <2>1. UNCHANGED inventoryVars /\ UNCHANGED spent /\ UNCHANGED <<crawlVars, del, raced>>
      BY <1>18 DEF vars
    <2> QED
      BY <1>1, <2>1, InventoryStill, CrawlStill
  <1> QED
    BY <1>7, <1>10, <1>11, <1>12, <1>13, <1>14, <1>15, <1>16, <1>17, <1>18, Zenon DEF Next

LEMMA Always == Spec => []IInv
  <1>1. Init => IInv
    BY StartOK
  <1>2. IInv /\ [Next]_vars => IInv'
    BY StepKeeps
  <1> QED
    BY <1>1, <1>2, PTL DEF Spec

\* Every variable of inventory, crawl and deletion stays within its type; a crawl meets pages in
\* scope only, and never more than the page limit.
THEOREM TypeCorrect == Spec => []TypeOK
  <1>1. IInv => TypeOK
    <2> SUFFICES ASSUME IInv PROVE TypeOK
      OBVIOUS
    <2>1. InventoryTypeOK
      BY DEF IInv, InventoryInv
    <2>2. del.at \in {"idle", "read", "unlink"} /\ del.scan \in Scans \cup {0} /\ del.contents \subseteq Contents
          /\ raced \subseteq Contents
      BY DEF IInv, DeletionTyped
    <2>3. CrawlTypeOK
      <3>1. ASSUME NEW s \in Scans
            PROVE  /\ crawl[s].at \in CrawlPhases
                   /\ crawl[s].seen \subseteq InScope /\ crawl[s].fetched \subseteq crawl[s].seen
                   /\ Cardinality(crawl[s].seen) <= MaxPages
        <4>1. crawl[s] \in Crawlers /\ ScanOK(scan[s], seed[s], snap[s], crawl[s])
          BY DEF IInv, CrawlTyped, ScansOK
        <4> QED
          BY <4>1 DEF Crawlers, ScanOK
      <3> QED
        BY <3>1 DEF IInv, CrawlTyped, CrawlTypeOK, ScanRows, Snapshots
    <2> QED
      BY <2>1, <2>2, <2>3 DEF TypeOK
  <1> QED
    BY <1>1, Always, PTL

\* The counters of a scan are those of its snapshots, and a seed says what its page's snapshot
\* says, through retries, crashes, recoveries and deletions: what _replace_snapshot_outcome takes back
\* of a failed attempt is what the attempt before it counted.
THEOREM CountersOfSnapshots == Spec => []RowsAgree
  <1>1. IInv => RowsAgree
    <2> SUFFICES ASSUME IInv PROVE RowsAgree
      OBVIOUS
    <2>1. SUFFICES ASSUME NEW s \in Scans, Kept(s)
                   PROVE  LET visited == PagesIn(s, Outcomes)
                          IN /\ scan[s].failed = Cardinality(PagesIn(s, Failing))
                             /\ scan[s].attempts = MapThenSumSet(LAMBDA p : snap[s][p].attempts, visited)
                             /\ scan[s].retries = scan[s].attempts - Cardinality(visited)
                             /\ scan[s].exhausted =
                                  Cardinality({p \in PagesIn(s, Transient) : snap[s][p].attempts = MaxAttempts})
                             /\ \A p \in Pages :
                                  /\ seed[s][p] = "failed" => snap[s][p].state \in Failing
                                  /\ seed[s][p] = "fetched" => snap[s][p].state \in Outcomes \ Failing
      BY Zenon DEF RowsAgree
    <2>2. Tallied(scan[s], seed[s], snap[s])
      BY <2>1 DEF IInv, ScansOK, ScanOK, Kept
    <2>3. PagesIn(s, Outcomes) = Visited(snap[s]) /\ PagesIn(s, Failing) = FailedPages(snap[s])
      BY DEF PagesIn, Visited, FailedPages
    <2>4. {p \in PagesIn(s, Transient) : snap[s][p].attempts = MaxAttempts} = GivenUp(snap[s])
      BY DEF PagesIn, GivenUp
    <2>5. MapThenSumSet(LAMBDA p : snap[s][p].attempts, PagesIn(s, Outcomes)) = Attempted(snap[s])
      BY <2>3, Zenon DEF Attempted
    <2> QED
      BY <2>2, <2>3, <2>4, <2>5, Zenon DEF Tallied
  <1> QED
    BY <1>1, Always, PTL

\* A scan that says its queue was exhausted is complete: no seed is left queued, no temporary error
\* was given up before the last attempt, and below the page limit every link that counts was followed.
THEOREM CompleteWhenExhausted == Spec => []CrawlComplete
  <1>1. IInv => CrawlComplete
    <2> SUFFICES ASSUME IInv, NEW s \in Scans, scan[s].stop = "queue_exhausted"
                 PROVE  /\ \A p \in Pages : seed[s][p] # "queued"
                        /\ \A p \in PagesIn(s, Transient) : snap[s][p].attempts = MaxAttempts
                        /\ scan[s].discovered < MaxPages =>
                             \A p \in PagesIn(s, {"fetched"}) : snap[s][p].depth < MaxDepth =>
                                Links[p] \cap InScope \subseteq PagesIn(s, Outcomes)
      BY DEF CrawlComplete
    <2>1. Complete(scan[s], seed[s], snap[s])
      BY DEF IInv, ScansOK, ScanOK
    <2>2. PagesIn(s, Outcomes) = Visited(snap[s])
      BY DEF PagesIn, Visited
    <2> QED
      BY <2>1, <2>2 DEF Complete, PagesIn
  <1> QED
    BY <1>1, Always, PTL

\* No deletion takes the row, the artifact or the file of content a remaining scan refers to, except
\* for a file that was published while its predecessor was waiting to be unlinked.
THEOREM FilesOfSnapshots == Spec => []FilesKept
  <1>1. IInv => FilesKept
    BY DEF IInv, FilesInv
  <1> QED
    BY <1>1, Always, PTL

\* A refresh retires an entry only by a whole list that leaves the page out, and is over by then.
THEOREM RetiredOnlyByLists == Spec => RetiredByWholeList
  <1>1. IInv /\ [Next]_vars => [RetiresRightly]_vars
    BY StepRetires DEF IInv
  <1>2. Spec => [][RetiresRightly]_vars
    BY <1>1, Always, PTL DEF Spec
  <1> QED
    BY <1>2 DEF RetiredByWholeList, RetiresRightly

=============================================================================
