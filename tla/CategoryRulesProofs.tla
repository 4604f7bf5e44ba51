------------------------ MODULE CategoryRulesProofs -------------------------
(***************************************************************************)
(* The automatic assignments of CategoryRules, for any finite number of    *)
(* pages, requests and runs, and any rules: at rest they agree with the    *)
(* rules, a manual assignment is kept, and triggers coalesce.              *)
(*                                                                         *)
(* Work is owed to a page whose supports do not agree with the rules.      *)
(* Either a run under way will read the rules as they are now, or one that *)
(* has read them comes to the page, or it is at the page and what it has   *)
(* read about it is not so old as to be misled.                            *)
(***************************************************************************)
EXTENDS CategoryRules, FiniteSetTheorems, SequenceTheorems, TLAPS

-----------------------------------------------------------------------------
(***************************************************************************)
(* The inductive invariant.                                                *)
(***************************************************************************)

Calls == [kind: Kinds, arg: Rules \cup Pages \cup {NoRun}, target: RunIds \cup {NoRun, Gone},
          seen: {"none", "queued", "running"}]

\* Requests whose commit will queue a run of its own.
Queueing == {c \in Clients : call[c].kind # "none" /\ call[c].target = NoRun}

DataOK ==
  /\ rule \in [Rules -> RuleRows]
  /\ suppressed \subseteq Pages /\ excluded \subseteq Pages /\ assigned \subseteq Pages
  /\ supports \subseteq SupportRows
  /\ \A s \in supports : s[1] \in assigned
  /\ tidying \subseteq Pages /\ excused \subseteq Pages
  /\ edits \in 0..MaxEdits /\ stops \in 0..MaxStops

OrderOK ==
  /\ run \in [RunIds -> Runs]
  /\ order \in Seq(RunIds)
  /\ ToSet(order) = {r \in RunIds : run[r].pc # "free"}
  /\ IsInjective(order)

CallsOK ==
  /\ call \in [Clients -> Calls]
  /\ \A c \in Clients : /\ call[c].kind \in {"enable", "disable"} => call[c].arg \in Rules
                        /\ call[c].kind = "exclude" => call[c].arg \in Pages

\* TypeOK, and what the fields of a request are for its kind.
Typed == DataOK /\ OrderOK /\ CallsOK

\* A request refers to no run that has ended: its id may be used again.
TargetsLive == \A c \in Clients : call[c].target \in RunIds => run[call[c].target].pc # "free"

\* Only a request that finds no run queues one.
FewRuns == Len(order) + Cardinality(Queueing) <= 1 + Cardinality(Clients)

\* The foreign key of a support.
RulesExist == \A s \in supports : s[2] \in Rules => rule[s[2]].state # "absent"

\* Rules of page p among a set of supports.
Of(S, p) == {q \in Rules : <<p, q>> \in S}

\* The rules that match p, its exclusion aside.
Matching(p) == {q \in Rules : rule[q].state = "active" /\ p \in rule[q].match}

\* What is due, and otherwise only what cannot be inserted any more.
Faithful(S, p, due) ==
  /\ due \subseteq Of(S, p)
  /\ \A q \in Of(S, p) \ due : rule[q].state = "absent"

\* A run that nobody has asked to start over works with the rules and exclusions as they are.
FaithfulRun(r) ==
  \A p \in Pages \ excused :
    /\ run[r].pc \in {"reading", "writing"} /\ ~run[r].rerun =>
         Faithful(run[r].desired, p, Matching(p))
    /\ run[r].pc = "writing" /\ ~run[r].rerun /\ p \in run[r].window =>
         Faithful(Wanted(run[r]), p, Due(p))

\* Batches page through the pages as they are.
WholeRun(r) ==
  Pages \ excused # {} =>
    /\ run[r].pc \in {"reading", "writing"} => run[r].total = Cardinality(ActivePages)
    /\ run[r].pc = "writing" => run[r].window = Window(run[r].offset)

\* A run starts with the first page, and what a batch has read is of its pages; what it read
\* as unsupported was read without a support of a rule.
OrderlyRun(r) ==
  /\ run[r].pc \in {"queued", "claimed"} => run[r].offset = 0
  /\ run[r].pc = "writing" =>
       /\ run[r].unsupported \subseteq run[r].window
       /\ \A p \in run[r].unsupported : Of(run[r].seen, p) = {}
       /\ \A s \in run[r].seen : s[1] \in run[r].window

RunsFaithful == \A r \in RunIds : FaithfulRun(r)
BatchesWhole == \A r \in RunIds : WholeRun(r)
RunsOrderly == \A r \in RunIds : OrderlyRun(r)

\* The run will read the rules as they are.
StartsOver(r) ==
  \/ run[r].pc \in {"queued", "claimed"}
  \/ run[r].rerun /\ run[r].pc \in {"reading", "writing", "finishing", "returned"}

Pending == \E r \in RunIds : StartsOver(r)

Ahead(r, p) ==
  \/ run[r].pc = "reading" /\ run[r].offset <= Position(p)
  \/ run[r].pc = "writing" /\ run[r].offset + BatchSize <= Position(p)

\* What the batch of r does to p puts it right.
Fixes(r, p) ==
  /\ run[r].pc = "writing" /\ p \in run[r].window
  /\ MissingRows(run[r]) = {} =>
       /\ Of(supports, p) \ Due(p) \subseteq Of(run[r].seen, p)
       /\ Due(p) \cap Of(run[r].seen, p) \subseteq Of(supports, p)
       /\ p \in Unsupported(assigned, supports) => p \in run[r].unsupported

Agreed(p) ==
  /\ Of(supports, p) = Due(p)
  /\ p \in assigned <=> \E s \in supports : s[1] = p

WorkOwed ==
  \A p \in Pages \ (suppressed \cup excused) :
    Agreed(p) \/ Pending \/ \E r \in RunIds : Ahead(r, p) \/ Fixes(r, p)

IInv ==
  /\ Typed /\ TargetsLive /\ FewRuns
  /\ RulesExist /\ RunsFaithful /\ BatchesWhole /\ RunsOrderly /\ WorkOwed

-----------------------------------------------------------------------------
(***************************************************************************)
(* The runs under way: their order, and a new one.                         *)
(***************************************************************************)

\* The order as a sequence.
LEMMA OrderParts ==
  ASSUME order \in Seq(RunIds)
  PROVE  /\ Len(order) \in Nat /\ DOMAIN order = 1 .. Len(order)
         /\ \A i \in 1 .. Len(order) : order[i] \in RunIds
         /\ order = <<>> <=> Len(order) = 0
  BY LenProperties, ElementOfSeq, EmptySeq

\* The run that has ended leaves the order, the others keep theirs.
LEMMA OthersStay ==
  ASSUME Typed, NEW r \in RunIds, run[r].pc # "free"
  PROVE  /\ Others(r) \in Seq(RunIds)
         /\ Len(Others(r)) = Len(order) - 1
         /\ ToSet(Others(r)) = ToSet(order) \ {r}
         /\ IsInjective(Others(r))
  <1> DEFINE k == CHOOSE i \in DOMAIN order : order[i] = r
             n == Len(order)
             before == SubSeq(order, 1, k - 1)
             after == SubSeq(order, k + 1, n)
  <1>1. n \in Nat /\ DOMAIN order = 1 .. n /\ \A i \in 1 .. n : order[i] \in RunIds
    BY OrderParts DEF Typed, OrderOK
  <1>2. k \in 1 .. n /\ order[k] = r
    BY <1>1 DEF Typed, DataOK, OrderOK, ToSet
  <1>3. \A i, j \in 1 .. n : order[i] = order[j] => i = j
    BY <1>1 DEF Typed, DataOK, OrderOK, IsInjective
  <1> HIDE DEF k, n
  <1>4. /\ before \in Seq(RunIds) /\ Len(before) = k - 1
        /\ \A i \in 1 .. k - 1 : before[i] = order[i]
    <2>1. \A i \in 1 .. k - 1 : order[i] \in RunIds
      BY <1>1, <1>2
    <2>2. 1 \in Int /\ k - 1 \in Int
      BY <1>1, <1>2
    <2>3. /\ before \in Seq(RunIds)
          /\ Len(before) = IF 1 <= k - 1 THEN k - 1 - 1 + 1 ELSE 0
          /\ \A i \in 1 .. k - 1 - 1 + 1 : before[i] = order[1 + i - 1]
      BY <2>1, <2>2, SubSeqProperties
    <2> QED
      BY <2>2, <2>3, <1>1, <1>2
  <1>5. /\ after \in Seq(RunIds) /\ Len(after) = n - k
        /\ \A i \in 1 .. n - k : after[i] = order[k + i]
    <2>1. \A i \in k + 1 .. n : order[i] \in RunIds
      BY <1>1, <1>2
    <2>2. k + 1 \in Int /\ n \in Int
      BY <1>1, <1>2
    <2>3. /\ after \in Seq(RunIds)
          /\ Len(after) = IF k + 1 <= n THEN n - (k + 1) + 1 ELSE 0
          /\ \A i \in 1 .. n - (k + 1) + 1 : after[i] = order[k + 1 + i - 1]
      BY <2>1, <2>2, SubSeqProperties
    <2> QED
      BY <2>2, <2>3, <1>1, <1>2
  <1>6. Others(r) = before \o after
    BY DEF Others, RemoveAt, k, n
  <1> HIDE DEF before, after
  <1>7. /\ Others(r) \in Seq(RunIds)
        /\ Len(Others(r)) = k - 1 + (n - k)
        /\ \A i \in 1 .. k - 1 + (n - k) :
             Others(r)[i] = IF i <= k - 1 THEN before[i] ELSE after[i - (k - 1)]
    <2>1. /\ before \o after \in Seq(RunIds)
          /\ Len(before \o after) = Len(before) + Len(after)
          /\ \A i \in 1 .. Len(before) + Len(after) :
               (before \o after)[i] = IF i <= Len(before) THEN before[i]
                                                        ELSE after[i - Len(before)]
      BY <1>4, <1>5, ConcatProperties
    <2> HIDE DEF Others
    <2> QED
      BY <2>1, <1>4, <1>5, <1>6
  <1>8. /\ Len(Others(r)) = n - 1
        /\ DOMAIN Others(r) = 1 .. n - 1
        /\ \A i \in 1 .. n - 1 : Others(r)[i] = IF i < k THEN order[i] ELSE order[i + 1]
    <2>1. k - 1 + (n - k) = n - 1
      BY <1>1, <1>2
    <2>2. DOMAIN Others(r) = 1 .. n - 1
      BY <2>1, <1>7, LenProperties
    <2>3. ASSUME NEW i \in 1 .. n - 1
          PROVE  Others(r)[i] = IF i < k THEN order[i] ELSE order[i + 1]
      <3>1. CASE i < k
        BY <3>1, <2>1, <1>1, <1>2, <1>4, <1>7
      <3>2. CASE ~(i < k)
        <4>1. i - (k - 1) \in 1 .. n - k /\ k + (i - (k - 1)) = i + 1 /\ ~(i <= k - 1)
          BY <3>2, <1>1, <1>2
        <4>2. Others(r)[i] = after[i - (k - 1)]
          BY <4>1, <2>1, <1>7
        <4> QED
          BY <3>2, <4>1, <4>2, <1>5
      <3> QED
        BY <3>1, <3>2
    <2> QED
      BY <2>1, <2>2, <2>3, <1>7
  <1>9. ToSet(Others(r)) = ToSet(order) \ {r}
    <2>1. ASSUME NEW i \in 1 .. n - 1 PROVE Others(r)[i] \in ToSet(order) \ {r}
      <3>1. PICK l \in 1 .. n : l # k /\ Others(r)[i] = order[l]
        <4>1. CASE i < k
          BY <4>1, <1>1, <1>2, <1>8
        <4>2. CASE ~(i < k)
          BY <4>2, <1>1, <1>2, <1>8
        <4> QED
          BY <4>1, <4>2
      <3>2. order[l] \in ToSet(order) /\ order[l] # r
        BY <3>1, <1>1, <1>2, <1>3 DEF ToSet
      <3> QED
        BY <3>1, <3>2
    <2>2. ASSUME NEW i \in 1 .. n, order[i] # r PROVE order[i] \in ToSet(Others(r))
      <3>1. CASE i < k
        BY <3>1, <1>1, <1>2, <1>8 DEF ToSet
      <3>2. CASE i > k
        <4>1. i - 1 \in 1 .. n - 1 /\ ~(i - 1 < k) /\ (i - 1) + 1 = i
          BY <3>2, <1>1, <1>2
        <4> QED
          BY <4>1, <1>8 DEF ToSet
      <3> QED
        BY <2>2, <3>1, <3>2, <1>1, <1>2
    <2> QED
      BY <2>1, <2>2, <1>1, <1>8 DEF ToSet
  <1>10. IsInjective(Others(r))
    <2> SUFFICES ASSUME NEW i \in 1 .. n - 1, NEW j \in 1 .. n - 1, Others(r)[i] = Others(r)[j]
                 PROVE  i = j
      BY <1>8 DEF IsInjective
    <2> QED
      BY <1>1, <1>2, <1>3, <1>8
  <1> QED
    BY <1>7, <1>8, <1>9, <1>10 DEF n

\* What appending a run to an order without it gives.
LEMMA Appended ==
  ASSUME NEW s \in Seq(RunIds), NEW r \in RunIds, r \notin ToSet(s), IsInjective(s)
  PROVE  /\ Append(s, r) \in Seq(RunIds)
         /\ Len(Append(s, r)) = Len(s) + 1
         /\ ToSet(Append(s, r)) = ToSet(s) \cup {r}
         /\ IsInjective(Append(s, r))
  <1>1. Len(s) \in Nat /\ DOMAIN s = 1 .. Len(s)
    BY LenProperties
  <1>2. /\ Append(s, r) \in Seq(RunIds) /\ Len(Append(s, r)) = Len(s) + 1
        /\ DOMAIN Append(s, r) = 1 .. Len(s) + 1
        /\ \A i \in 1 .. Len(s) : Append(s, r)[i] = s[i]
        /\ Append(s, r)[Len(s) + 1] = r
    BY <1>1, AppendProperties, LenProperties
  <1>3. ToSet(Append(s, r)) = ToSet(s) \cup {r}
    BY <1>1, <1>2 DEF ToSet
  <1>4. IsInjective(Append(s, r))
    BY <1>1, <1>2 DEF IsInjective, ToSet
  <1> QED
    BY <1>2, <1>3, <1>4

\* While a request that found no run may still queue one, there is a free id.
LEMMA RunFree ==
  ASSUME CategoryAssumption, Typed, Len(order) <= Cardinality(Clients)
  PROVE  NewRun \in RunIds /\ run[NewRun].pc = "free"
  <1>1. Len(order) \in Nat /\ DOMAIN order = 1 .. Len(order)
    BY OrderParts DEF Typed, OrderOK
  <1>2. Cardinality(Clients) \in Nat /\ Cardinality(RunIds) \in Nat
    BY FS_CardinalityType DEF CategoryAssumption
  <1>3. \E r \in RunIds : run[r].pc = "free"
    <2> SUFFICES ASSUME \A r \in RunIds : run[r].pc # "free" PROVE FALSE
      OBVIOUS
    <2>1. ToSet(order) = RunIds
      BY DEF Typed, DataOK, OrderOK
    <2>2. order \in [1 .. Len(order) -> RunIds]
      BY LenProperties DEF Typed, OrderOK
    <2>3. order \in Surjection(1 .. Len(order), RunIds)
      BY <2>1, <2>2, <1>1 DEF Surjection, ToSet
    <2>4. Cardinality(RunIds) <= Len(order)
      BY <2>3, <1>1, FS_SurjCardinalityBound DEF ExistsSurjection
    <2> QED
      BY <2>4, <1>1, <1>2 DEF CategoryAssumption
  <1> QED
    BY <1>3 DEF NewRun

-----------------------------------------------------------------------------
(***************************************************************************)
(* What a trigger does to the runs.                                        *)
(***************************************************************************)

\* Runs under way are at most asked to start over.
OnlyAsked ==
  \A r \in RunIds :
    \/ run[r].pc # "free" /\ \E b \in BOOLEAN : run'[r] = [run[r] EXCEPT !.rerun = b]
    \/ run[r].pc = "free" /\ run'[r] \in {run[r], Queued}

\* Nobody who has read the rules is left without having been asked, and somebody will read
\* them again; otherwise every page is excused.
Heard ==
  \/ excused' = Pages
  \/ /\ excused' = excused
     /\ Pending'
     /\ \A r \in RunIds :
          run'[r].pc \in {"reading", "writing", "finishing", "returned"} => run'[r].rerun

Asks == OnlyAsked /\ Heard

\* The types of a run's fields.
LEMMA RunFields ==
  ASSUME NEW b \in Runs
  PROVE  /\ b.pc \in {"free", "queued", "claimed", "reading", "writing", "finishing",
                      "returned", "settling"}
         /\ b.rerun \in BOOLEAN /\ b.loaded \subseteq Rules /\ b.desired \subseteq RuleSupports
         /\ b.total \in 0 .. Cardinality(Pages) /\ b.offset \in Nat
         /\ b.window \subseteq Pages /\ b.excluded \subseteq Pages /\ b.assigned \subseteq Pages
         /\ b.seen \subseteq RuleSupports /\ b.unsupported \subseteq Pages
  BY DEF Runs

\* A free and a queued run.
LEMMA FreeTyped ==
  ASSUME CategoryAssumption
  PROVE  Free \in Runs /\ Queued \in Runs /\ Free.pc = "free" /\ Queued.pc = "queued"
  <1>1. Cardinality(Pages) \in Nat
    BY FS_CardinalityType DEF CategoryAssumption
  <1>2. 0 \in 0 .. Cardinality(Pages)
    BY <1>1
  <1> QED
    BY <1>2 DEF Free, Queued, Runs

\* A run asked to start over, or not, is otherwise as it was.
LEMMA RerunSet ==
  ASSUME NEW c \in Runs, NEW b \in BOOLEAN
  PROVE  LET d == [c EXCEPT !.rerun = b] IN d \in Runs /\ d.pc = c.pc /\ d.rerun = b
  BY DEF Runs

\* queue_evaluation's write, whoever makes it.
LEMMA Asked ==
  ASSUME CategoryAssumption, Typed,
         NEW t \in RunIds \cup {NoRun, Gone}, NEW seen \in {"none", "queued", "running"},
         t \in RunIds => run[t].pc # "free",
         t = NoRun => Len(order) <= Cardinality(Clients),
         QueueEvaluation(t, seen)
  PROVE  /\ OrderOK'
         /\ Len(order') = IF t = NoRun THEN Len(order) + 1 ELSE Len(order)
         /\ Asks
         /\ excused' \subseteq Pages
  <1>1. run \in [RunIds -> Runs] /\ order \in Seq(RunIds) /\ IsInjective(order)
    BY DEF Typed, DataOK, OrderOK
  <1>2. \A r \in RunIds : r \in ToSet(order) <=> run[r].pc # "free"
    BY DEF Typed, DataOK, OrderOK
  <1>3. ToSet(order) = {r \in RunIds : run[r].pc # "free"}
    BY DEF Typed, DataOK, OrderOK
  <1>4. NoRun \notin RunIds /\ Gone \notin RunIds /\ NoRun # Gone
    BY DEF CategoryAssumption
  <1>5. excused' = (IF Deaf(t, seen) # {} \/ (t = Gone /\ order = <<>>) THEN Pages ELSE excused)
    BY DEF QueueEvaluation
  <1>6. \A r \in RunIds : run[r].pc # "free" /\ r \notin Deaf(t, seen) =>
          \/ run[r].pc \in {"queued", "claimed"}
          \/ r = t /\ seen = "running" /\ run[r].pc # "settling"
    BY <1>2 DEF Deaf
  <1>7. excused' \subseteq Pages
    BY <1>5 DEF Typed, DataOK, OrderOK
  <1>8. CASE t = NoRun
    <2> DEFINE n == NewRun
    <2>1. n \in RunIds /\ run[n].pc = "free"
      BY <1>8, RunFree
    <2> HIDE DEF n
    <2>2. run' = [run EXCEPT ![n] = Queued] /\ order' = Append(order, n)
      BY <1>8 DEF QueueEvaluation, n
    <2>3. /\ order' \in Seq(RunIds) /\ Len(order') = Len(order) + 1
          /\ ToSet(order') = ToSet(order) \cup {n} /\ IsInjective(order')
      BY <1>1, <1>2, <2>1, <2>2, Appended
    <2>4. run' \in [RunIds -> Runs] /\ run'[n].pc = "queued"
          /\ \A r \in RunIds \ {n} : run'[r] = run[r]
      BY <1>1, <2>1, <2>2, FreeTyped
    <2>5. ToSet(order') = {r \in RunIds : run'[r].pc # "free"}
      BY <1>3, <2>1, <2>3, <2>4
    <2>6. OnlyAsked
      <3> SUFFICES ASSUME NEW r \in RunIds
                   PROVE  \/ run[r].pc # "free" /\ \E b \in BOOLEAN :
                               run'[r] = [run[r] EXCEPT !.rerun = b]
                          \/ run[r].pc = "free" /\ run'[r] \in {run[r], Queued}
        BY DEF OnlyAsked
      <3>1. run[r] = [run[r] EXCEPT !.rerun = run[r].rerun] /\ run[r].rerun \in BOOLEAN
        BY <1>1 DEF Runs
      <3> QED
        BY <1>1, <2>1, <2>2, <2>4, <3>1
    <2>7. Heard
      <3> SUFFICES ASSUME excused' # Pages PROVE Heard
        BY DEF Heard
      <3>1. Deaf(t, seen) = {} /\ excused' = excused
        BY <1>5
      <3>2. Pending'
        BY <2>1, <2>4 DEF Pending, StartsOver
      <3>3. \A r \in RunIds : run'[r].pc \notin {"reading", "writing", "finishing", "returned"}
        BY <1>4, <1>6, <1>8, <2>4, <3>1
      <3> QED
        BY <3>1, <3>2, <3>3 DEF Heard
    <2> QED
      BY <1>7, <1>8, <2>3, <2>4, <2>5, <2>6, <2>7 DEF OrderOK, Asks
  <1>9. CASE t # NoRun
    <2>1. order' = order
      BY <1>4, <1>9 DEF QueueEvaluation
    <2>2. run' = IF t = Gone THEN run ELSE [run EXCEPT ![t].rerun = (seen = "running")]
      BY <1>4, <1>9 DEF QueueEvaluation, Coalesced
    <2>3. \A r \in RunIds :
            /\ run'[r] \in Runs /\ run'[r].pc = run[r].pc
            /\ \E b \in BOOLEAN : run'[r] = [run[r] EXCEPT !.rerun = b]
            /\ r = t => run'[r].rerun = (seen = "running")
            /\ run[r].pc = "free" => run'[r] = run[r]
      <3> TAKE r \in RunIds
      <3>1. run[r] = [run[r] EXCEPT !.rerun = run[r].rerun] /\ run[r].rerun \in BOOLEAN
        BY <1>1 DEF Runs
      <3>2. CASE r = t
        <4>1. PICK b \in BOOLEAN : b = (seen = "running")
          OBVIOUS
        <4>2. run'[r] = [run[r] EXCEPT !.rerun = b]
          <5>1. run' = [run EXCEPT ![r].rerun = b]
            <6>1. run' = [run EXCEPT ![r].rerun = (seen = "running")]
              BY <1>4, <2>2, <3>2
            <6> QED
              BY <4>1, <6>1, Zenon
          <5> QED
            BY <1>1, <5>1
        <4>3. run'[r] \in Runs /\ run'[r].pc = run[r].pc /\ run'[r].rerun = b
          BY <1>1, <4>2, RerunSet
        <4> QED
          BY <3>2, <4>1, <4>2, <4>3
      <3>3. CASE r # t
        <4>1. run'[r] = run[r]
          BY <1>1, <1>4, <2>2, <3>3
        <4> QED
          BY <1>1, <3>1, <3>3, <4>1
      <3> QED
        BY <3>2, <3>3
    <2>4. run' \in [RunIds -> Runs]
      BY <1>1, <2>2, <2>3
    <2>5. OrderOK'
      BY <1>1, <1>3, <2>1, <2>3, <2>4 DEF OrderOK
    <2>6. OnlyAsked
      BY <2>3 DEF OnlyAsked
    <2>7. Heard
      <3> SUFFICES ASSUME excused' # Pages PROVE Heard
        BY DEF Heard
      <3>1. Deaf(t, seen) = {} /\ excused' = excused /\ ~(t = Gone /\ order = <<>>)
        BY <1>5
      <3>2. PICK r \in RunIds : run[r].pc # "free"
        <4>1. CASE t = Gone
          <5>1. Len(order) \in Nat /\ Len(order) # 0
            BY <3>1, <4>1, OrderParts DEF Typed, OrderOK
          <5>2. order[1] \in ToSet(order) /\ order[1] \in RunIds
            BY <5>1, OrderParts DEF ToSet, Typed, OrderOK
          <5> QED
            BY <5>2, <1>2
        <4>2. CASE t # Gone
          BY <4>2, <1>9
        <4> QED
          BY <4>1, <4>2
      <3>3. StartsOver(r)'
        <4>1. run[r].pc \in {"queued", "claimed"} \/ (r = t /\ seen = "running" /\ run[r].pc # "settling")
          BY <1>6, <3>1, <3>2
        <4>2. run[r].pc \in {"queued", "claimed", "reading", "writing", "finishing", "returned",
                             "settling"}
          BY <1>1, <3>2, RunFields
        <4> QED
          BY <2>3, <4>1, <4>2 DEF StartsOver
      <3>4. Pending'
        BY <3>3 DEF Pending
      <3>5. \A x \in RunIds :
              run'[x].pc \in {"reading", "writing", "finishing", "returned"} => run'[x].rerun
        BY <1>6, <2>3, <3>1
      <3> QED
        BY <3>1, <3>4, <3>5 DEF Heard
    <2> QED
      BY <1>7, <1>9, <2>1, <2>5, <2>6, <2>7 DEF Asks
  <1> QED
    BY <1>8, <1>9

\* What a trigger leaves of a run.
LEMMA AskedStay ==
  ASSUME OrderOK, OnlyAsked, NEW r \in RunIds, run[r].pc # "free"
  PROVE  run'[r].pc = run[r].pc
  <1>1. PICK b \in BOOLEAN : run'[r] = [run[r] EXCEPT !.rerun = b]
    BY DEF OnlyAsked
  <1>2. run[r] \in Runs
    BY DEF OrderOK
  <1> QED
    BY <1>1, <1>2 DEF Runs

\* A trigger leaves what a run has read, or makes it a new run.
LEMMA AskedReads ==
  ASSUME OrderOK, OnlyAsked, NEW r \in RunIds
  PROVE  \/ /\ run'[r].pc = run[r].pc /\ run'[r].total = run[r].total
            /\ run'[r].offset = run[r].offset /\ run'[r].window = run[r].window
            /\ run'[r].seen = run[r].seen /\ run'[r].unsupported = run[r].unsupported
         \/ run'[r].pc = "queued" /\ run'[r].offset = 0
  <1>1. run[r] \in Runs
    BY DEF OrderOK
  <1>2. CASE run[r].pc # "free"
    <2>1. PICK b \in BOOLEAN : run'[r] = [run[r] EXCEPT !.rerun = b]
      BY <1>2 DEF OnlyAsked
    <2> QED
      BY <1>1, <2>1 DEF Runs
  <1>3. CASE run[r].pc = "free"
    BY <1>3 DEF OnlyAsked, Queued, Free
  <1> QED
    BY <1>2, <1>3

\* A trigger owes every page a run that reads the rules as they are now.
LEMMA AsksKeeps ==
  ASSUME Typed, BatchesWhole, RunsOrderly, Asks, UNCHANGED suppressed, excused' \subseteq Pages
  PROVE  RunsFaithful' /\ BatchesWhole' /\ RunsOrderly' /\ WorkOwed'
  <1>1. OrderOK /\ OnlyAsked
    BY DEF Typed, Asks
  <1>3. excused' # Pages => /\ excused' = excused /\ Pending'
                            /\ \A r \in RunIds :
                                 run'[r].pc \in {"reading", "writing"} => run'[r].rerun
    BY DEF Asks, Heard
  <1>4. Pages \ excused' # {} => excused' # Pages
    OBVIOUS
  <1>5. RunsFaithful'
    BY <1>3, <1>4 DEF RunsFaithful, FaithfulRun
  <1>6. BatchesWhole'
    BY <1>1, <1>3, <1>4, AskedReads DEF BatchesWhole, WholeRun, Window, Position, ActivePages
  <1>7. RunsOrderly'
    BY <1>1, AskedReads DEF RunsOrderly, OrderlyRun, Of
  <1>8. WorkOwed'
    BY <1>3, <1>4 DEF WorkOwed
  <1> QED
    BY <1>5, <1>6, <1>7, <1>8

\* The job that is looked for is one under way, the last of them.
LEMMA ActiveJobLive ==
  ASSUME CategoryAssumption, Typed
  PROVE  /\ ActiveJob \in RunIds \cup {NoRun}
         /\ ActiveJob \in RunIds => run[ActiveJob].pc # "free"
         /\ ActiveJob = NoRun => order = <<>>
         /\ StatusOf(ActiveJob) \in {"none", "queued", "running"}
  <1>1. /\ Len(order) \in Nat /\ DOMAIN order = 1 .. Len(order)
        /\ \A i \in 1 .. Len(order) : order[i] \in RunIds
        /\ order = <<>> <=> Len(order) = 0
    BY OrderParts DEF Typed, OrderOK
  <1>2. NoRun \notin RunIds
    BY DEF CategoryAssumption
  <1>3. StatusOf(ActiveJob) \in {"none", "queued", "running"}
    BY DEF StatusOf, Status
  <1>4. CASE order = <<>>
    BY <1>2, <1>3, <1>4 DEF ActiveJob
  <1>5. CASE order # <<>>
    <2>1. Len(order) \in 1 .. Len(order) /\ ActiveJob = order[Len(order)]
      BY <1>1, <1>5 DEF ActiveJob, Last
    <2>2. ActiveJob \in RunIds /\ ActiveJob \in ToSet(order)
      BY <1>1, <2>1 DEF ToSet
    <2> QED
      BY <1>2, <1>3, <2>2 DEF Typed, OrderOK
  <1> QED
    BY <1>4, <1>5

\* How many requests can be about to queue a run.
LEMMA QueueingCount ==
  ASSUME CategoryAssumption
  PROVE  /\ IsFiniteSet(Queueing) /\ Cardinality(Clients) \in Nat
         /\ Cardinality(Queueing) \in 0 .. Cardinality(Clients)
  BY FS_Subset, FS_CardinalityType DEF CategoryAssumption, Queueing

-----------------------------------------------------------------------------
(***************************************************************************)
(* Requests.                                                               *)
(***************************************************************************)

\* A trigger that looks for a job under the lock.
LEMMA TriggerKeeps ==
  ASSUME CategoryAssumption, IInv,
         QueueEvaluation(ActiveJob, StatusOf(ActiveJob)),
         UNCHANGED <<suppressed, assigned, call, tidying, stops>>, Edit,
         rule' \in [Rules -> RuleRows], excluded' \subseteq Pages, supports' \subseteq supports,
         RulesExist'
  PROVE  IInv'
  <1>1. Typed /\ TargetsLive /\ FewRuns /\ BatchesWhole /\ RunsOrderly
    BY DEF IInv
  <1>2. /\ ActiveJob \in RunIds \cup {NoRun}
        /\ ActiveJob \in RunIds => run[ActiveJob].pc # "free"
        /\ ActiveJob = NoRun => order = <<>>
        /\ StatusOf(ActiveJob) \in {"none", "queued", "running"}
    BY <1>1, ActiveJobLive
  <1>3. /\ IsFiniteSet(Queueing) /\ Cardinality(Clients) \in Nat
        /\ Cardinality(Queueing) \in 0 .. Cardinality(Clients)
        /\ Len(order) \in Nat /\ (order = <<>> => Len(order) = 0)
    BY <1>1, QueueingCount, OrderParts DEF Typed, OrderOK
  <1> HIDE DEF ActiveJob, StatusOf
  <1>4. /\ OrderOK'
        /\ Len(order') = IF ActiveJob = NoRun THEN Len(order) + 1 ELSE Len(order)
        /\ Asks
        /\ excused' \subseteq Pages
    BY <1>1, <1>2, <1>3, Asked
  <1>5. DataOK'
    BY <1>1, <1>4 DEF Typed, DataOK, Edit, CategoryAssumption
  <1>6. CallsOK'
    BY <1>1 DEF Typed, CallsOK
  <1>7. TargetsLive'
    <2> SUFFICES ASSUME NEW c \in Clients, call[c].target \in RunIds
                 PROVE  run'[call[c].target].pc # "free"
      BY DEF TargetsLive
    <2>1. run[call[c].target].pc # "free"
      BY <1>1 DEF TargetsLive
    <2> QED
      BY <1>1, <1>4, <2>1, AskedStay DEF Asks, Typed
  <1>8. FewRuns'
    <2>1. Queueing' = Queueing
      BY DEF Queueing
    <2> QED
      BY <1>1, <1>2, <1>3, <1>4, <2>1 DEF FewRuns
  <1>9. RunsFaithful' /\ BatchesWhole' /\ RunsOrderly' /\ WorkOwed'
    BY <1>1, <1>4, AsksKeeps
  <1> QED
    BY <1>4, <1>5, <1>6, <1>7, <1>8, <1>9 DEF IInv, Typed

\* What a rule matches are pages.
LEMMA MatchesTyped == ASSUME NEW m \in Matches PROVE m \subseteq Pages
  BY DEF Matches, Matched

\* A request that writes before it looks for a job.
LEMMA TriggersKeep ==
  ASSUME CategoryAssumption, IInv,
         \/ \E q \in Rules : DeleteRule(q) \/ \E m \in Matches : CreateRule(q, m) \/ UpdateConditions(q, m)
         \/ \E p \in Pages : RemoveExclusion(p)
         \/ ScanEnded
  PROVE  IInv'
  <1>0. /\ rule \in [Rules -> RuleRows] /\ excluded \subseteq Pages
        /\ supports \subseteq SupportRows /\ RulesExist /\ Manual \notin Rules
    BY DEF IInv, Typed, DataOK, CategoryAssumption
  <1>1. ASSUME NEW q \in Rules, DeleteRule(q) PROVE IInv'
    <2>1. rule' \in [Rules -> RuleRows]
      BY <1>0, <1>1 DEF DeleteRule, Absent, RuleRows
    <2>2. supports' \subseteq supports
      BY <1>1 DEF DeleteRule
    <2>3. RulesExist'
      BY <1>0, <1>1 DEF DeleteRule, RulesExist
    <2> QED
      BY <1>0, <1>1, <2>1, <2>2, <2>3, TriggerKeeps DEF DeleteRule
  <1>2. ASSUME NEW q \in Rules, NEW m \in Matches, CreateRule(q, m) PROVE IInv'
    <2>1. PICK s \in {"active", "disabled"} : rule' = [rule EXCEPT ![q] = [state |-> s, match |-> m]]
      BY <1>2 DEF CreateRule
    <2>2. rule' \in [Rules -> RuleRows]
      BY <1>0, <2>1, MatchesTyped DEF RuleRows
    <2>3. supports' = supports /\ excluded' = excluded
      BY <1>2 DEF CreateRule
    <2>4. RulesExist'
      BY <1>0, <2>1, <2>3 DEF RulesExist
    <2> QED
      BY <1>0, <1>2, <2>2, <2>3, <2>4, TriggerKeeps DEF CreateRule
  <1>3. ASSUME NEW q \in Rules, NEW m \in Matches, UpdateConditions(q, m) PROVE IInv'
    <2>1. rule' = [rule EXCEPT ![q].match = m] /\ supports' = supports /\ excluded' = excluded
      BY <1>3 DEF UpdateConditions
    <2>2. /\ rule' \in [Rules -> RuleRows]
          /\ \A x \in Rules : rule'[x].state = rule[x].state
      BY <1>0, <2>1, MatchesTyped DEF RuleRows
    <2>3. RulesExist'
      BY <1>0, <2>1, <2>2 DEF RulesExist
    <2> QED
      BY <1>0, <1>3, <2>1, <2>2, <2>3, TriggerKeeps DEF UpdateConditions
  <1>4. ASSUME NEW p \in Pages, RemoveExclusion(p) PROVE IInv'
    <2>1. supports' = supports /\ rule' = rule /\ excluded' \subseteq Pages
      BY <1>0, <1>4 DEF RemoveExclusion
    <2>2. RulesExist'
      BY <1>0, <2>1 DEF RulesExist
    <2> QED
      BY <1>0, <1>4, <2>1, <2>2, TriggerKeeps DEF RemoveExclusion
  <1>5. ASSUME ScanEnded PROVE IInv'
    <2>1. supports' = supports /\ rule' = rule /\ excluded' = excluded
      BY <1>5 DEF ScanEnded
    <2>2. RulesExist'
      BY <1>0, <2>1 DEF RulesExist
    <2> QED
      BY <1>0, <1>5, <2>1, <2>2, TriggerKeeps DEF ScanEnded
  <1> QED
    BY <1>1, <1>2, <1>3, <1>4, <1>5

\* Nothing the runs, or the agreement of pages, depend on changes.
QuietRuns == UNCHANGED <<rule, suppressed, excluded, assigned, supports, run, order, excused>>

\* Where neither runs nor what they work on changes, only requests do.
LEMMA QuietKeeps ==
  ASSUME IInv, QuietRuns
  PROVE  /\ RulesExist' /\ RunsFaithful' /\ BatchesWhole' /\ RunsOrderly' /\ WorkOwed' /\ OrderOK'
  <1>1. RulesExist' /\ RunsOrderly' /\ OrderOK'
    BY DEF IInv, Typed, QuietRuns, RulesExist, RunsOrderly, OrderlyRun, OrderOK, Of
  <1>2. BatchesWhole'
    BY DEF IInv, QuietRuns, BatchesWhole, WholeRun, ActivePages, Window, Position
  <1>3. \A p \in Pages : Due(p)' = Due(p) /\ Matching(p)' = Matching(p)
    BY DEF QuietRuns, Due, Matching
  <1>4. RunsFaithful'
    BY <1>3 DEF IInv, QuietRuns, RunsFaithful, FaithfulRun, Faithful, Of, Wanted
  <1>5. \A p \in Pages : /\ Agreed(p)' = Agreed(p)
                        /\ \A r \in RunIds : Ahead(r, p)' = Ahead(r, p) /\ Fixes(r, p)' = Fixes(r, p)
    BY <1>3 DEF QuietRuns, Agreed, Ahead, Position, Fixes, Of, ActivePages, MissingRows, Wanted,
                Unsupported
  <1>6. Pending' = Pending
    BY DEF QuietRuns, Pending, StartsOver
  <1>7. WorkOwed'
    BY <1>5, <1>6 DEF IInv, QuietRuns, WorkOwed
  <1> QED
    BY <1>1, <1>2, <1>4, <1>7

\* A request that looks for a job.
LEMMA LookKeeps ==
  ASSUME CategoryAssumption, IInv, NEW c \in Clients, NEW kind \in Kinds \ {"none"},
         NEW arg \in Rules \cup Pages \cup {NoRun},
         kind \in {"enable", "disable"} => arg \in Rules,
         kind = "exclude" => arg \in Pages,
         Look(c, kind, arg)
  PROVE  IInv'
  <1>1. Typed /\ TargetsLive /\ FewRuns /\ QuietRuns
    BY DEF IInv, Look, QuietRuns
  <1>2. /\ ActiveJob \in RunIds \cup {NoRun}
        /\ ActiveJob \in RunIds => run[ActiveJob].pc # "free"
        /\ ActiveJob = NoRun => order = <<>>
        /\ StatusOf(ActiveJob) \in {"none", "queued", "running"}
    BY <1>1, ActiveJobLive
  <1>3. /\ IsFiniteSet(Queueing) /\ Cardinality(Clients) \in Nat
        /\ Cardinality(Queueing) \in 0 .. Cardinality(Clients)
        /\ IsFiniteSet(Queueing') /\ Cardinality(Queueing') \in 0 .. Cardinality(Clients)
        /\ Len(order) \in Nat /\ (order = <<>> => Len(order) = 0)
    <2>1. /\ IsFiniteSet(Queueing') /\ Cardinality(Queueing') \in 0 .. Cardinality(Clients)
      BY FS_Subset, FS_CardinalityType DEF CategoryAssumption, Queueing
    <2> QED
      BY <1>1, <2>1, QueueingCount, OrderParts DEF Typed, OrderOK
  <1> DEFINE looked == [kind |-> kind, arg |-> arg, target |-> ActiveJob, seen |-> StatusOf(ActiveJob)]
  <1>4. /\ call' = [call EXCEPT ![c] = looked] /\ looked \in Calls
        /\ call \in [Clients -> Calls] /\ call[c] = NoCall
    BY <1>1, <1>2 DEF Look, Calls, Typed, CallsOK
  <1>5. /\ looked.kind = kind /\ looked.arg = arg /\ looked.target = ActiveJob
    OBVIOUS
  <1> HIDE DEF ActiveJob, looked
  <1>6. CallsOK'
    BY <1>1, <1>4, <1>5 DEF Typed, CallsOK
  <1>7. DataOK'
    BY <1>1 DEF Typed, DataOK, Look, Edit, CategoryAssumption
  <1>8. TargetsLive'
    BY <1>1, <1>2, <1>4, <1>5 DEF TargetsLive, QuietRuns
  <1>9. FewRuns'
    <2>1. order' = order /\ Len(order) + Cardinality(Queueing) <= 1 + Cardinality(Clients)
      BY <1>1 DEF FewRuns, QuietRuns
    <2>2. CASE ActiveJob = NoRun
      BY <1>2, <1>3, <2>1, <2>2 DEF FewRuns
    <2>3. CASE ActiveJob # NoRun
      <3>1. Queueing' \subseteq Queueing
        BY <1>4, <1>5, <2>3 DEF Queueing
      <3>2. Cardinality(Queueing') <= Cardinality(Queueing)
        BY <1>3, <3>1, FS_Subset
      <3> QED
        BY <1>3, <2>1, <3>2 DEF FewRuns
    <2> QED
      BY <2>2, <2>3
  <1> QED
    BY <1>1, <1>6, <1>7, <1>8, <1>9, QuietKeeps DEF IInv, Typed

\* No request.
LEMMA NoCallTyped ==
  /\ NoCall.kind = "none" /\ NoCall.target = NoRun
  /\ NoCall \in Calls
  BY DEF NoCall, Calls, Kinds

\* A request that wrote only after it had looked.
LEMMA CommitKeeps ==
  ASSUME CategoryAssumption, IInv, NEW c \in Clients, Commit(c)
  PROVE  IInv'
  <1> DEFINE k == call[c].kind
             q == call[c].arg
             t == call[c].target
             seen == call[c].seen
             refused == k \in {"enable", "disable"} /\ rule[q].state = "absent"
  <1>1. Typed /\ TargetsLive /\ FewRuns /\ RulesExist /\ BatchesWhole /\ RunsOrderly
    BY DEF IInv
  <1>2. /\ call \in [Clients -> Calls] /\ call' = [call EXCEPT ![c] = NoCall]
        /\ k # "none"
        /\ UNCHANGED <<suppressed, assigned, supports, tidying, edits, stops>>
    BY <1>1 DEF Typed, CallsOK, Commit
  <1>3. /\ t \in RunIds \cup {NoRun, Gone} /\ seen \in {"none", "queued", "running"}
        /\ t \in RunIds => run[t].pc # "free"
        /\ k \in {"enable", "disable"} => q \in Rules
        /\ k = "exclude" => q \in Pages
    BY <1>1, <1>2 DEF Typed, CallsOK, Calls, TargetsLive
  <1>4. /\ IsFiniteSet(Queueing) /\ Cardinality(Clients) \in Nat
        /\ Cardinality(Queueing) \in Nat /\ Len(order) \in Nat
        /\ Len(order) + Cardinality(Queueing) <= 1 + Cardinality(Clients)
    BY <1>1, QueueingCount, OrderParts DEF Typed, OrderOK, FewRuns
  <1>5. Queueing' = Queueing \ {c} /\ (t = NoRun <=> c \in Queueing)
    BY <1>2, NoCallTyped DEF Queueing
  <1>6. /\ Cardinality(Queueing') \in Nat
        /\ Cardinality(Queueing') = IF t = NoRun THEN Cardinality(Queueing) - 1
                                                 ELSE Cardinality(Queueing)
        /\ t = NoRun => Len(order) <= Cardinality(Clients)
    <2>1. /\ IsFiniteSet(Queueing')
          /\ Cardinality(Queueing') = IF c \in Queueing THEN Cardinality(Queueing) - 1
                                                        ELSE Cardinality(Queueing)
      BY <1>4, <1>5, FS_RemoveElement
    <2>2. Cardinality(Queueing') \in Nat
      BY <2>1, FS_CardinalityType
    <2> QED
      BY <1>4, <1>5, <2>1, <2>2
  <1>7. CallsOK'
    BY <1>1, <1>2, NoCallTyped DEF Typed, CallsOK
  <1>8. CASE refused
    <2>1. UNCHANGED <<rule, excluded, run, order, excused>>
      BY <1>8 DEF Commit
    <2>2. QuietRuns
      BY <1>2, <2>1 DEF QuietRuns
    <2>3. DataOK'
      BY <1>1, <1>2, <2>1 DEF Typed, DataOK
    <2>4. TargetsLive'
      BY <1>1, <1>2, <2>1, NoCallTyped DEF TargetsLive, CategoryAssumption
    <2>5. FewRuns'
      BY <1>4, <1>6, <2>1 DEF FewRuns
    <2> QED
      BY <1>7, <2>2, <2>3, <2>4, <2>5, QuietKeeps DEF IInv, Typed
  <1>9. CASE ~refused
    <2>1. /\ QueueEvaluation(t, seen)
          /\ rule' = CASE k = "enable"  -> Switched(q, "active")
                       [] k = "disable" -> Switched(q, "disabled")
                       [] k = "archive" -> [x \in Rules |-> IF rule[x].state = "active"
                                                            THEN [rule[x] EXCEPT !.state = "disabled"]
                                                            ELSE rule[x]]
                       [] OTHER         -> rule
          /\ excluded' = IF k = "exclude" THEN excluded \cup {q} ELSE excluded
      BY <1>9 DEF Commit
    <2>2. /\ OrderOK'
          /\ Len(order') = IF t = NoRun THEN Len(order) + 1 ELSE Len(order)
          /\ Asks
          /\ excused' \subseteq Pages
      <3> HIDE DEF t, seen
      <3> QED
        BY <1>1, <1>3, <1>6, <2>1, Asked
    <2>3. rule \in [Rules -> RuleRows]
      BY <1>1 DEF Typed, DataOK
    <2>4. /\ rule' \in [Rules -> RuleRows]
          /\ \A x \in Rules : rule[x].state # "absent" => rule'[x].state # "absent"
      <3>1. CASE k \in {"enable", "disable"}
        <4>1. PICK s \in {"active", "disabled"} : rule' = [rule EXCEPT ![q].state = s]
          BY <2>1, <3>1 DEF Switched
        <4> HIDE DEF k, q
        <4> QED
          BY <1>3, <2>3, <3>1, <4>1 DEF RuleRows
      <3>2. CASE k = "archive"
        <4>1. rule' = [x \in Rules |-> IF rule[x].state = "active"
                                       THEN [rule[x] EXCEPT !.state = "disabled"] ELSE rule[x]]
          BY <2>1, <3>2
        <4> QED
          BY <2>3, <4>1 DEF RuleRows
      <3>3. CASE k \notin {"enable", "disable", "archive"}
        BY <2>1, <2>3, <3>3
      <3> QED
        BY <3>1, <3>2, <3>3
    <2>5. excluded' \subseteq Pages
      BY <1>1, <1>3, <2>1 DEF Typed, DataOK
    <2>6. DataOK'
      BY <1>1, <1>2, <2>2, <2>4, <2>5 DEF Typed, DataOK
    <2>7. RulesExist'
      BY <1>1, <1>2, <2>4 DEF RulesExist
    <2>8. TargetsLive'
      <3> SUFFICES ASSUME NEW x \in Clients, call'[x].target \in RunIds
                   PROVE  run'[call'[x].target].pc # "free"
        BY DEF TargetsLive
      <3>1. x # c /\ call'[x] = call[x]
        BY <1>2, NoCallTyped DEF CategoryAssumption
      <3>2. run[call[x].target].pc # "free"
        BY <1>1, <3>1 DEF TargetsLive
      <3> QED
        BY <1>1, <2>2, <3>1, <3>2, AskedStay DEF Asks, Typed
    <2>9. FewRuns'
      BY <1>4, <1>6, <2>2 DEF FewRuns
    <2>10. RunsFaithful' /\ BatchesWhole' /\ RunsOrderly' /\ WorkOwed'
      BY <1>1, <1>2, <2>2, AsksKeeps
    <2> QED
      BY <1>7, <2>2, <2>6, <2>7, <2>8, <2>9, <2>10 DEF IInv, Typed
  <1> QED
    BY <1>8, <1>9

\* The requests that look before they write.
LEMMA ClientsKeep ==
  ASSUME CategoryAssumption, IInv, NEW c \in Clients,
         \/ \E q \in Rules : LookSwitch(c, q)
         \/ \E p \in Pages : LookExclude(c, p)
         \/ LookArchive(c) \/ LookRecalculate(c) \/ Commit(c)
  PROVE  IInv'
  BY LookKeeps, CommitKeeps DEF LookSwitch, LookExclude, LookArchive, LookRecalculate, Kinds

-----------------------------------------------------------------------------
(***************************************************************************)
(* Pages, and the category itself.                                         *)
(***************************************************************************)

\* A step that leaves runs and requests alone.
LEMMA RunsStay ==
  ASSUME IInv, UNCHANGED <<run, order, call>>
  PROVE  OrderOK' /\ CallsOK' /\ TargetsLive' /\ FewRuns' /\ RunsOrderly' /\ Pending' = Pending
  <1>1. OrderOK' /\ CallsOK' /\ TargetsLive' /\ RunsOrderly' /\ Pending' = Pending
    BY DEF IInv, Typed, OrderOK, CallsOK, TargetsLive, RunsOrderly, OrderlyRun, Of, Pending, StartsOver
  <1>2. Queueing' = Queueing
    BY DEF Queueing
  <1> QED
    BY <1>1, <1>2 DEF IInv, FewRuns

\* Nothing changes but assignments and supports, and not the supports of rules.
LEMMA AssignmentsKeep ==
  ASSUME CategoryAssumption, IInv, UNCHANGED <<rule, suppressed, excluded, run, order, call, stops>>,
         excused \subseteq excused', DataOK',
         \A x \in Pages \ excused' :
           /\ Of(supports', x) = Of(supports, x)
           /\ Agreed(x) => (x \in assigned' <=> \E s \in supports' : s[1] = x)
           /\ x \in Unsupported(assigned', supports') => x \in Unsupported(assigned, supports),
         \A s \in supports' : s[2] \in Rules => s \in supports
  PROVE  IInv'
  <1>1. OrderOK' /\ CallsOK' /\ TargetsLive' /\ FewRuns' /\ RunsOrderly' /\ Pending' = Pending
    BY RunsStay
  <1>2. RulesExist'
    BY DEF IInv, RulesExist
  <1>3. \A p \in Pages : Due(p)' = Due(p) /\ Matching(p)' = Matching(p)
    BY DEF Due, Matching
  <1>4. RunsFaithful'
    BY <1>3 DEF IInv, RunsFaithful, FaithfulRun, Faithful, Of, Wanted
  <1>5. BatchesWhole'
    BY DEF IInv, BatchesWhole, WholeRun, Window, Position, ActivePages
  <1>6. WorkOwed'
    <2> SUFFICES ASSUME NEW x \in Pages \ (suppressed \cup excused')
                 PROVE  Agreed(x)' \/ Pending' \/ \E r \in RunIds : Ahead(r, x)' \/ Fixes(r, x)'
      BY DEF WorkOwed
    <2>1. Agreed(x) \/ Pending \/ \E r \in RunIds : Ahead(r, x) \/ Fixes(r, x)
      BY DEF IInv, WorkOwed
    <2>2. Of(supports', x) = Of(supports, x) /\ Due(x)' = Due(x)
      BY <1>3
    <2>3. Agreed(x) => Agreed(x)'
      BY <2>2 DEF Agreed, Of
    <2>4. \A r \in RunIds : Ahead(r, x) => Ahead(r, x)'
      BY DEF Ahead, Position, ActivePages
    <2>5. ASSUME NEW r \in RunIds, Fixes(r, x) PROVE Fixes(r, x)'
      <3>1. MissingRows(run[r])' = MissingRows(run[r])
        BY DEF MissingRows, Wanted
      <3>2. Unsupported(assigned, supports)' = Unsupported(assigned', supports')
        BY DEF Unsupported
      <3>3. Of(supports, x)' = Of(supports', x) /\ Of(run[r].seen, x)' = Of(run[r].seen, x)
        BY DEF Of
      <3> HIDE DEF MissingRows, Unsupported, Of, Due
      <3> QED
        BY <2>2, <2>5, <3>1, <3>2, <3>3 DEF Fixes
    <2> QED
      BY <1>1, <2>1, <2>3, <2>4, <2>5
  <1> QED
    BY <1>1, <1>2, <1>4, <1>5, <1>6 DEF IInv, Typed

\* The count of user operations.
LEMMA EditTyped ==
  ASSUME CategoryAssumption, DataOK, Edit
  PROVE  edits' \in 0..MaxEdits
  BY DEF DataOK, Edit, CategoryAssumption

\* Manual assignments and metadata.
LEMMA PagesKeep ==
  ASSUME CategoryAssumption, IInv, NEW p \in Pages,
         \/ AssignManually(p) \/ UnassignManually(p) \/ TidyRead(p) \/ TidyWrite(p)
  PROVE  IInv'
  <1>1. /\ DataOK /\ Manual \notin Rules
        /\ supports \subseteq SupportRows /\ \A s \in supports : s[1] \in assigned
    BY DEF IInv, Typed, DataOK, CategoryAssumption
  <1>2. ASSUME AssignManually(p) PROVE IInv'
    <2>1. supports' = supports \cup {<<p, Manual>>} /\ assigned' = assigned \cup {p}
      BY <1>2 DEF AssignManually
    <2>2. DataOK'
      <3>1. edits' \in 0..MaxEdits
        BY <1>1, <1>2, EditTyped DEF AssignManually
      <3>2. supports' \subseteq SupportRows /\ assigned' \subseteq Pages
        BY <1>1, <2>1 DEF DataOK, SupportRows
      <3>3. \A s \in supports' : s[1] \in assigned'
        BY <1>1, <2>1
      <3> QED
        BY <1>1, <1>2, <3>1, <3>2, <3>3 DEF DataOK, AssignManually
    <2>3. \A s \in supports' : s[2] \in Rules => s \in supports
      BY <1>1, <2>1
    <2>4. ASSUME NEW x \in Pages
          PROVE  /\ Of(supports', x) = Of(supports, x)
                 /\ Agreed(x) => (x \in assigned' <=> \E s \in supports' : s[1] = x)
                 /\ x \in Unsupported(assigned', supports') => x \in Unsupported(assigned, supports)
      <3>1. Of(supports', x) = Of(supports, x)
        BY <1>1, <2>1 DEF Of
      <3>2. CASE x = p
        <4>1. <<p, Manual>> \in supports' /\ <<p, Manual>>[1] = x /\ x \in assigned'
          BY <2>1, <3>2
        <4> QED
          BY <3>1, <4>1 DEF Unsupported
      <3>3. CASE x # p
        <4>1. (\E s \in supports' : s[1] = x) <=> (\E s \in supports : s[1] = x)
          BY <2>1, <3>3
        <4> QED
          BY <2>1, <3>1, <3>3, <4>1 DEF Unsupported, Agreed
      <3> QED
        BY <3>2, <3>3
    <2> QED
      BY <1>2, <2>2, <2>3, <2>4, AssignmentsKeep DEF AssignManually
  <1>3. ASSUME UnassignManually(p) PROVE IInv'
    <2>1. /\ supports' = supports \ {<<p, Manual>>}
          /\ assigned' = IF \E q \in Rules : <<p, q>> \in supports THEN assigned ELSE assigned \ {p}
      BY <1>3 DEF UnassignManually
    <2>2. \A s \in supports' : s[1] = p => s = <<p, s[2]>> /\ s[2] \in Rules
      BY <1>1, <2>1 DEF SupportRows
    <2>3. \A s \in supports' : s[1] \in assigned'
      BY <1>1, <2>1, <2>2
    <2>4. DataOK'
      <3>1. edits' \in 0..MaxEdits
        BY <1>1, <1>3, EditTyped DEF UnassignManually
      <3>2. supports' \subseteq SupportRows /\ assigned' \subseteq Pages
        BY <1>1, <2>1 DEF DataOK
      <3> QED
        BY <1>1, <1>3, <2>3, <3>1, <3>2 DEF DataOK, UnassignManually
    <2>5. \A s \in supports' : s[2] \in Rules => s \in supports
      BY <2>1
    <2>6. ASSUME NEW x \in Pages
          PROVE  /\ Of(supports', x) = Of(supports, x)
                 /\ Agreed(x) => (x \in assigned' <=> \E s \in supports' : s[1] = x)
                 /\ x \in Unsupported(assigned', supports') => x \in Unsupported(assigned, supports)
      <3>1. Of(supports', x) = Of(supports, x)
        BY <1>1, <2>1 DEF Of
      <3>2. CASE x = p
        <4>1. CASE \E q \in Rules : <<p, q>> \in supports
          <5>1. PICK q \in Rules : <<p, q>> \in supports
            BY <4>1
          <5>2. <<p, q>> \in supports' /\ <<p, q>>[1] = x
            BY <1>1, <2>1, <3>2, <5>1
          <5>3. x \in assigned'
            BY <2>3, <5>2
          <5> QED
            BY <3>1, <5>2, <5>3 DEF Unsupported
        <4>2. CASE ~\E q \in Rules : <<p, q>> \in supports
          <5>1. x \notin assigned'
            BY <2>1, <3>2, <4>2
          <5>2. \A s \in supports' : s[1] # x
            BY <2>3, <5>1
          <5> QED
            BY <3>1, <5>1, <5>2 DEF Unsupported
        <4> QED
          BY <4>1, <4>2
      <3>3. CASE x # p
        <4>1. (\E s \in supports' : s[1] = x) <=> (\E s \in supports : s[1] = x)
          BY <2>1, <3>3
        <4> QED
          BY <2>1, <3>1, <3>3, <4>1 DEF Unsupported, Agreed
      <3> QED
        BY <3>2, <3>3
    <2> QED
      BY <1>3, <2>4, <2>5, <2>6, AssignmentsKeep DEF UnassignManually
  <1>4. ASSUME TidyRead(p) PROVE IInv'
    <2>1. DataOK'
      BY <1>1, <1>4 DEF DataOK, TidyRead, Edit, CategoryAssumption
    <2> QED
      BY <1>4, <2>1, AssignmentsKeep DEF TidyRead, Agreed
  <1>5. ASSUME TidyWrite(p) PROVE IInv'
    <2>1. /\ assigned' = assigned \ {p} /\ supports' = {s \in supports : s[1] # p}
          /\ excused' = excused \cup {p}
      BY <1>5 DEF TidyWrite
    <2>2. DataOK'
      BY <1>1, <1>5, <2>1 DEF DataOK, TidyWrite
    <2>3. ASSUME NEW x \in Pages \ excused'
          PROVE  /\ Of(supports', x) = Of(supports, x)
                 /\ Agreed(x) => (x \in assigned' <=> \E s \in supports' : s[1] = x)
                 /\ x \in Unsupported(assigned', supports') => x \in Unsupported(assigned, supports)
      <3>1. Of(supports', x) = Of(supports, x)
        BY <2>1 DEF Of
      <3>2. (\E s \in supports' : s[1] = x) <=> (\E s \in supports : s[1] = x)
        BY <2>1
      <3> QED
        BY <2>1, <3>1, <3>2 DEF Unsupported, Agreed
    <2> QED
      BY <1>5, <2>1, <2>2, <2>3, AssignmentsKeep DEF TidyWrite
  <1> QED
    BY <1>2, <1>3, <1>4, <1>5

\* At rest no run has anything to do.
LEMMA AtRest ==
  ASSUME CategoryAssumption, Typed, order = <<>>
  PROVE  /\ \A r \in RunIds : run[r].pc = "free"
         /\ ~Pending /\ \A r \in RunIds, p \in Pages : ~Ahead(r, p) /\ ~Fixes(r, p)
  <1>1. ToSet(order) = {}
    BY DEF ToSet
  <1>2. \A r \in RunIds : run[r].pc = "free"
    BY <1>1 DEF Typed, OrderOK
  <1> QED
    BY <1>2 DEF Pending, StartsOver, Ahead, Fixes

\* A page that leaves or rejoins the workspace.
LEMMA SetWorkspaceStateKeeps ==
  ASSUME CategoryAssumption, IInv, NEW p \in Pages, SetWorkspaceState(p)
  PROVE  IInv'
  <1>1. /\ Typed /\ suppressed \subseteq Pages /\ excused \subseteq Pages
    BY DEF IInv, Typed, DataOK
  <1>2. OrderOK' /\ CallsOK' /\ TargetsLive' /\ FewRuns' /\ RunsOrderly' /\ Pending' = Pending
    BY RunsStay DEF SetWorkspaceState
  <1>3. /\ suppressed' = IF p \in suppressed THEN suppressed \ {p} ELSE suppressed \cup {p}
        /\ excused' = IF order = <<>> THEN excused \cup {p} ELSE Pages
        /\ UNCHANGED <<rule, excluded, assigned, supports, run, order>>
    BY DEF SetWorkspaceState
  <1>4. DataOK'
    BY <1>1, <1>3 DEF Typed, DataOK, SetWorkspaceState, Edit, CategoryAssumption
  <1>5. RulesExist'
    BY <1>3 DEF IInv, RulesExist
  <1>6. CASE order = <<>>
    <2>1. /\ \A r \in RunIds : run[r].pc = "free"
          /\ ~Pending /\ \A r \in RunIds, x \in Pages : ~Ahead(r, x) /\ ~Fixes(r, x)
      BY <1>1, <1>6, AtRest
    <2>2. RunsFaithful' /\ BatchesWhole'
      BY <1>3, <2>1 DEF RunsFaithful, BatchesWhole, FaithfulRun, WholeRun
    <2>3. WorkOwed'
      <3> SUFFICES ASSUME NEW x \in Pages \ (suppressed' \cup excused') PROVE Agreed(x)'
        BY DEF WorkOwed
      <3>1. x \in Pages \ (suppressed \cup excused)
        BY <1>3, <1>6
      <3>2. Agreed(x)
        BY <2>1, <3>1 DEF IInv, WorkOwed
      <3> QED
        BY <1>3, <3>2 DEF Agreed, Of, Due
    <2> QED
      BY <1>2, <1>4, <1>5, <2>2, <2>3 DEF IInv, Typed
  <1>7. CASE order # <<>>
    BY <1>2, <1>3, <1>4, <1>5, <1>7 DEF IInv, Typed, RunsFaithful, BatchesWhole, FaithfulRun, WholeRun, WorkOwed
  <1> QED
    BY <1>6, <1>7

\* A category deleted under its runs.
LEMMA DeleteCategoryKeeps ==
  ASSUME CategoryAssumption, IInv, DeleteCategory
  PROVE  IInv'
  <1>1. OrderOK' /\ CallsOK' /\ TargetsLive' /\ FewRuns' /\ RunsOrderly' /\ Pending' = Pending
    BY RunsStay DEF DeleteCategory
  <1>2. /\ rule' = [q \in Rules |-> Absent] /\ excluded' = {} /\ assigned' = {} /\ supports' = {}
        /\ UNCHANGED <<suppressed, run, order, excused>>
    BY DEF DeleteCategory
  <1>3. DataOK'
    BY <1>2 DEF IInv, Typed, DataOK, DeleteCategory, Edit, CategoryAssumption, RuleRows, Absent
  <1>4. RulesExist'
    BY <1>2 DEF RulesExist
  <1>5. \A q \in Rules : rule'[q].state = "absent"
    BY <1>2 DEF Absent
  <1>6. \A x \in Pages : Due(x)' = {} /\ Matching(x)' = {}
    BY <1>5 DEF Due, Matching
  <1>7. RunsFaithful'
    BY <1>5, <1>6 DEF RunsFaithful, FaithfulRun, Faithful, Of
  <1>8. BatchesWhole'
    BY <1>2 DEF IInv, BatchesWhole, WholeRun, Window, Position, ActivePages
  <1>9. WorkOwed'
    BY <1>2, <1>6 DEF WorkOwed, Agreed, Of
  <1> QED
    BY <1>1, <1>3, <1>4, <1>7, <1>8, <1>9 DEF IInv, Typed

-----------------------------------------------------------------------------
(***************************************************************************)
(* A run's own steps: its place among the runs.                            *)
(***************************************************************************)

\* A run that stays under way.
LEMMA UnderWay ==
  ASSUME IInv, NEW r \in RunIds, run[r].pc # "free", NEW b \in Runs, b.pc # "free",
         run' = [run EXCEPT ![r] = b], UNCHANGED <<order, call>>
  PROVE  OrderOK' /\ CallsOK' /\ TargetsLive' /\ FewRuns'
  <1>1. Queueing' = Queueing
    BY DEF Queueing
  <1>2. /\ run \in [RunIds -> Runs] /\ run'[r] = b /\ \A x \in RunIds \ {r} : run'[x] = run[x]
    BY DEF IInv, Typed, OrderOK
  <1>3. \A x \in RunIds : run'[x].pc # "free" <=> run[x].pc # "free"
    BY <1>2
  <1> QED
    BY <1>1, <1>2, <1>3 DEF IInv, Typed, OrderOK, CallsOK, TargetsLive, FewRuns

\* Requests forget a run that has ended.
LEMMA ForgottenCalls ==
  ASSUME CategoryAssumption, CallsOK, NEW r \in RunIds, call' = Forgotten(r)
  PROVE  /\ CallsOK'
         /\ Queueing' = Queueing
         /\ \A c \in Clients : call'[c].target # r
         /\ \A c \in Clients : call'[c].target \in RunIds => call'[c].target = call[c].target
  <1>1. ASSUME NEW c \in Clients
        PROVE  /\ call'[c] \in Calls
               /\ call'[c].kind = call[c].kind /\ call'[c].arg = call[c].arg
               /\ call'[c].target = IF call[c].target = r THEN Gone ELSE call[c].target
    <2>1. call'[c] = IF call[c].target = r THEN [call[c] EXCEPT !.target = Gone] ELSE call[c]
      BY DEF Forgotten
    <2>2. call[c] \in Calls
      BY DEF CallsOK
    <2> QED
      BY <2>1, <2>2 DEF Calls
  <1>2. call' \in [Clients -> Calls]
    BY <1>1 DEF Forgotten
  <1>3. CallsOK'
    BY <1>1, <1>2 DEF CallsOK
  <1>4. NoRun # r /\ Gone # NoRun /\ Gone # r /\ Gone \notin RunIds
    BY DEF CategoryAssumption
  <1>5. Queueing' = Queueing
    BY <1>1, <1>4 DEF Queueing
  <1> QED
    BY <1>1, <1>3, <1>4, <1>5

\* A run that ends.
LEMMA Over ==
  ASSUME CategoryAssumption, IInv, NEW r \in RunIds, run[r].pc # "free",
         run' = [run EXCEPT ![r] = Free], order' = Others(r), call' = Forgotten(r)
  PROVE  OrderOK' /\ CallsOK' /\ TargetsLive' /\ FewRuns'
  <1>1. Typed /\ TargetsLive /\ FewRuns
    BY DEF IInv
  <1>2. /\ run \in [RunIds -> Runs] /\ run'[r] = Free /\ \A x \in RunIds \ {r} : run'[x] = run[x]
        /\ run' \in [RunIds -> Runs] /\ Free.pc = "free"
    BY <1>1, FreeTyped DEF Typed, OrderOK
  <1>3. /\ order' \in Seq(RunIds) /\ Len(order') = Len(order) - 1
        /\ ToSet(order') = ToSet(order) \ {r} /\ IsInjective(order')
    BY <1>1, OthersStay
  <1>4. OrderOK'
    BY <1>1, <1>2, <1>3 DEF Typed, OrderOK
  <1>5. /\ CallsOK' /\ Queueing' = Queueing
        /\ \A c \in Clients : call'[c].target # r
        /\ \A c \in Clients : call'[c].target \in RunIds => call'[c].target = call[c].target
    BY <1>1, ForgottenCalls DEF Typed
  <1>6. TargetsLive'
    BY <1>1, <1>2, <1>5 DEF TargetsLive
  <1>7. Len(order) \in Nat /\ Cardinality(Queueing) \in Nat /\ Cardinality(Clients) \in Nat
    BY <1>1, OrderParts, QueueingCount DEF Typed, OrderOK
  <1>8. FewRuns'
    BY <1>1, <1>3, <1>5, <1>7 DEF FewRuns
  <1> QED
    BY <1>4, <1>5, <1>6, <1>8

\* A run that is followed by one of its own.
LEMMA Followed ==
  ASSUME CategoryAssumption, IInv, NEW r \in RunIds, run[r].pc # "free",
         run' = [run EXCEPT ![r] = Followup], order' = Append(Others(r), r), call' = Forgotten(r)
  PROVE  OrderOK' /\ CallsOK' /\ TargetsLive' /\ FewRuns'
  <1>1. Typed /\ TargetsLive /\ FewRuns
    BY DEF IInv
  <1>2. /\ run \in [RunIds -> Runs] /\ run'[r] = Queued /\ \A x \in RunIds \ {r} : run'[x] = run[x]
        /\ run' \in [RunIds -> Runs] /\ Queued.pc = "queued"
    BY <1>1, FreeTyped DEF Typed, OrderOK, Followup
  <1>3. /\ Others(r) \in Seq(RunIds) /\ Len(Others(r)) = Len(order) - 1
        /\ ToSet(Others(r)) = ToSet(order) \ {r} /\ IsInjective(Others(r))
    BY <1>1, OthersStay
  <1> HIDE DEF Others
  <1>4. /\ order' \in Seq(RunIds) /\ Len(order') = Len(order) - 1 + 1
        /\ ToSet(order') = (ToSet(order) \ {r}) \cup {r} /\ IsInjective(order')
    BY <1>3, Appended
  <1>5. ToSet(order') = {x \in RunIds : run'[x].pc # "free"}
    BY <1>1, <1>2, <1>4 DEF Typed, OrderOK
  <1>6. OrderOK'
    BY <1>2, <1>4, <1>5 DEF OrderOK
  <1>7. /\ CallsOK' /\ Queueing' = Queueing
        /\ \A c \in Clients : call'[c].target # r
        /\ \A c \in Clients : call'[c].target \in RunIds => call'[c].target = call[c].target
    BY <1>1, ForgottenCalls DEF Typed
  <1>8. TargetsLive'
    BY <1>1, <1>2, <1>7 DEF TargetsLive
  <1>9. Len(order) \in Nat
    BY <1>1, OrderParts DEF Typed, OrderOK
  <1>10. FewRuns'
    BY <1>1, <1>4, <1>7, <1>9 DEF FewRuns
  <1> QED
    BY <1>6, <1>7, <1>8, <1>10

-----------------------------------------------------------------------------
(***************************************************************************)
(* A run's own steps: the work that is owed.                               *)
(***************************************************************************)

\* A step of r that writes no rule, assignment or support.
RunMoves(r, b) ==
  /\ UNCHANGED <<rule, suppressed, excluded, assigned, supports, tidying, edits>>
  /\ run' = [run EXCEPT ![r] = b]

\* A step of a run that touches no data.
LEMMA RunDataKeeps ==
  ASSUME IInv, NEW r \in RunIds, NEW b \in Runs, RunMoves(r, b),
         excused' = excused, stops' \in 0 .. MaxStops
  PROVE  /\ DataOK' /\ RulesExist'
         /\ \A p \in Pages : /\ Due(p)' = Due(p) /\ Matching(p)' = Matching(p)
                             /\ Position(p)' = Position(p) /\ Agreed(p)' = Agreed(p)
                             /\ Of(supports, p)' = Of(supports, p)
         /\ Unsupported(assigned, supports)' = Unsupported(assigned, supports)
         /\ ActivePages' = ActivePages
         /\ run'[r] = b /\ \A x \in RunIds \ {r} : run'[x] = run[x]
         /\ \A x \in RunIds \ {r} : FaithfulRun(x)' /\ WholeRun(x)' /\ OrderlyRun(x)'
         /\ \A x \in RunIds \ {r}, p \in Pages :
              /\ Ahead(x, p)' = Ahead(x, p) /\ Fixes(x, p)' = Fixes(x, p)
              /\ StartsOver(x)' = StartsOver(x)
  <1>1. /\ DataOK' /\ RulesExist'
    BY DEF IInv, Typed, DataOK, RulesExist, RunMoves
  <1>2. run'[r] = b /\ \A x \in RunIds \ {r} : run'[x] = run[x]
    BY DEF IInv, Typed, OrderOK, RunMoves
  <1>3. /\ \A p \in Pages : /\ Due(p)' = Due(p) /\ Matching(p)' = Matching(p)
                            /\ Position(p)' = Position(p) /\ Agreed(p)' = Agreed(p)
                            /\ Of(supports, p)' = Of(supports, p)
        /\ Unsupported(assigned, supports)' = Unsupported(assigned, supports)
        /\ ActivePages' = ActivePages
    BY DEF RunMoves, Due, Matching, Position, Agreed, Of, Unsupported, ActivePages
  <1>4. ASSUME NEW x \in RunIds \ {r} PROVE FaithfulRun(x)' /\ WholeRun(x)' /\ OrderlyRun(x)'
    <2>1. FaithfulRun(x) /\ WholeRun(x) /\ OrderlyRun(x)
      BY DEF IInv, RunsFaithful, BatchesWhole, RunsOrderly
    <2>2. FaithfulRun(x)'
      BY <1>2, <1>3, <2>1 DEF FaithfulRun, Faithful, Of, Wanted, RunMoves
    <2>3. WholeRun(x)' /\ OrderlyRun(x)'
      BY <1>2, <1>3, <2>1 DEF WholeRun, OrderlyRun, Window, Position, Of
    <2> QED
      BY <2>2, <2>3
  <1>5. ASSUME NEW x \in RunIds \ {r}, NEW p \in Pages
        PROVE  /\ Ahead(x, p)' = Ahead(x, p) /\ Fixes(x, p)' = Fixes(x, p)
               /\ StartsOver(x)' = StartsOver(x)
    <2>1. run'[x] = run[x]
      BY <1>2
    <2>2. Ahead(x, p)' = Ahead(x, p) /\ StartsOver(x)' = StartsOver(x)
      BY <1>3, <2>1 DEF Ahead, StartsOver
    <2>3. MissingRows(run[x])' = MissingRows(run[x]) /\ Of(run[x].seen, p)' = Of(run[x].seen, p)
      BY <2>1 DEF MissingRows, Wanted, Of
    <2>4. Fixes(x, p)' = Fixes(x, p)
      <3> HIDE DEF MissingRows, Of, Unsupported, Due
      <3> QED
        BY <1>3, <2>1, <2>3 DEF Fixes
    <2> QED
      BY <2>2, <2>4
  <1> QED
    BY <1>1, <1>2, <1>3, <1>4, <1>5

\* It is enough to look at r, and to see that what it was to do is still to be done.
LEMMA RunKeeps ==
  ASSUME IInv, NEW r \in RunIds, NEW b \in Runs, RunMoves(r, b),
         excused' = excused, stops' \in 0 .. MaxStops,
         OrderOK' /\ CallsOK' /\ TargetsLive' /\ FewRuns',
         FaithfulRun(r)', WholeRun(r)', OrderlyRun(r)',
         \A p \in Pages \ (suppressed \cup excused) :
           /\ StartsOver(r) => StartsOver(r)' \/ Ahead(r, p)'
           /\ Ahead(r, p) \/ Fixes(r, p) => Ahead(r, p)' \/ Fixes(r, p)'
  PROVE  IInv'
  <1>1. /\ DataOK' /\ RulesExist' /\ suppressed' = suppressed
        /\ \A p \in Pages : Agreed(p)' = Agreed(p)
        /\ \A x \in RunIds \ {r} : FaithfulRun(x)' /\ WholeRun(x)' /\ OrderlyRun(x)'
        /\ \A x \in RunIds \ {r}, p \in Pages :
             /\ Ahead(x, p)' = Ahead(x, p) /\ Fixes(x, p)' = Fixes(x, p)
             /\ StartsOver(x)' = StartsOver(x)
    BY RunDataKeeps DEF RunMoves
  <1>2. RunsFaithful' /\ BatchesWhole' /\ RunsOrderly'
    BY <1>1 DEF RunsFaithful, BatchesWhole, RunsOrderly
  <1>3. WorkOwed'
    <2> SUFFICES ASSUME NEW p \in Pages \ (suppressed \cup excused)
                 PROVE  Agreed(p)' \/ Pending' \/ \E x \in RunIds : Ahead(x, p)' \/ Fixes(x, p)'
      BY <1>1 DEF WorkOwed
    <2>1. Agreed(p) \/ Pending \/ \E x \in RunIds : Ahead(x, p) \/ Fixes(x, p)
      BY DEF IInv, WorkOwed
    <2>2. CASE Agreed(p)
      BY <1>1, <2>2
    <2>3. CASE Pending
      <3>1. PICK x \in RunIds : StartsOver(x)
        BY <2>3 DEF Pending
      <3>2. CASE x = r
        BY <3>1, <3>2 DEF Pending
      <3>3. CASE x # r
        BY <1>1, <3>1, <3>3 DEF Pending
      <3> QED
        BY <3>2, <3>3
    <2>4. CASE \E x \in RunIds : Ahead(x, p) \/ Fixes(x, p)
      <3>1. PICK x \in RunIds : Ahead(x, p) \/ Fixes(x, p)
        BY <2>4
      <3>2. CASE x = r
        BY <3>1, <3>2
      <3>3. CASE x # r
        BY <1>1, <3>1, <3>3
      <3> QED
        BY <3>2, <3>3
    <2> QED
      BY <2>1, <2>2, <2>3, <2>4
  <1> QED
    BY <1>1, <1>2, <1>3 DEF IInv, Typed

\* A run that ends otherwise than completed excuses every page, or it owed nothing any more.
LEMMA StopKeeps ==
  ASSUME CategoryAssumption, IInv, NEW r \in RunIds, Stop(r), stops' \in 0 .. MaxStops
  PROVE  IInv'
  <1>1. /\ run[r].pc # "free" /\ run' = [run EXCEPT ![r] = Free] /\ order' = Others(r)
        /\ call' = Forgotten(r) /\ excused' = IF Spent(run[r]) THEN excused ELSE Pages
        /\ UNCHANGED <<rule, suppressed, excluded, assigned, supports, tidying, edits>>
    BY DEF Stop
  <1>2. OrderOK' /\ CallsOK' /\ TargetsLive' /\ FewRuns'
    BY <1>1, Over
  <1>3. CASE Spent(run[r])
    <2>1. Free \in Runs /\ Free.pc = "free" /\ run'[r] = Free
      BY <1>1, FreeTyped DEF IInv, Typed, OrderOK
    <2>2. RunMoves(r, Free) /\ excused' = excused
      BY <1>1, <1>3 DEF RunMoves
    <2>3. FaithfulRun(r)' /\ WholeRun(r)' /\ OrderlyRun(r)'
      BY <2>1 DEF FaithfulRun, WholeRun, OrderlyRun
    <2>4. ~StartsOver(r) /\ \A p \in Pages : ~Ahead(r, p) /\ ~Fixes(r, p)
      BY <1>3 DEF Spent, StartsOver, Ahead, Fixes
    <2> QED
      BY <1>2, <2>1, <2>2, <2>3, <2>4, RunKeeps
  <1>4. CASE ~Spent(run[r])
    <2>1. excused' = Pages
      BY <1>1, <1>4
    <2>2. DataOK' /\ RulesExist'
      BY <1>1, <2>1 DEF IInv, Typed, DataOK, RulesExist
    <2>3. RunsFaithful' /\ BatchesWhole' /\ WorkOwed'
      BY <1>1, <2>1 DEF RunsFaithful, FaithfulRun, BatchesWhole, WholeRun, WorkOwed
    <2>4. RunsOrderly'
      BY <1>1, FreeTyped DEF IInv, Typed, OrderOK, RunsOrderly, OrderlyRun, Of
    <2> QED
      BY <1>2, <2>2, <2>3, <2>4 DEF IInv, Typed
  <1> QED
    BY <1>3, <1>4

\* A job claimed.
LEMMA ClaimKeeps ==
  ASSUME CategoryAssumption, IInv, NEW r \in RunIds, Claim(r)
  PROVE  IInv'
  <1> DEFINE b == [run[r] EXCEPT !.pc = "claimed"]
  <1>1. run[r] \in Runs /\ run[r].pc = "queued" /\ run' = [run EXCEPT ![r] = b]
    BY DEF IInv, Typed, OrderOK, Claim
  <1>2. b \in Runs /\ b.pc = "claimed" /\ b.offset = run[r].offset /\ run'[r] = b
    BY <1>1 DEF Runs, IInv, Typed, OrderOK
  <1> HIDE DEF b
  <1>3. /\ RunMoves(r, b) /\ excused' = excused /\ stops' \in 0 .. MaxStops
        /\ UNCHANGED <<order, call>>
    BY <1>1 DEF Claim, RunMoves, IInv, Typed, DataOK
  <1>4. OrderOK' /\ CallsOK' /\ TargetsLive' /\ FewRuns'
    BY <1>1, <1>2, <1>3, UnderWay
  <1>5. FaithfulRun(r)' /\ WholeRun(r)' /\ OrderlyRun(r)'
    BY <1>1, <1>2 DEF FaithfulRun, WholeRun, OrderlyRun, IInv, RunsOrderly
  <1>6. StartsOver(r)' /\ \A p \in Pages : ~Ahead(r, p) /\ ~Fixes(r, p)
    BY <1>1, <1>2 DEF StartsOver, Ahead, Fixes
  <1> QED
    BY <1>2, <1>3, <1>4, <1>5, <1>6, RunKeeps

\* A run that reads the rules.
LEMMA LoadKeeps ==
  ASSUME CategoryAssumption, IInv, NEW r \in RunIds, Load(r)
  PROVE  IInv'
  <1> DEFINE d == {s \in RuleSupports : /\ rule[s[2]].state = "active"
                                        /\ s[1] \in rule[s[2]].match}
             pc == IF ActivePages = {} THEN "finishing" ELSE "reading"
             l == {q \in Rules : rule[q].state = "active"}
             b == [run[r] EXCEPT !.pc = pc, !.loaded = l, !.desired = d,
                                 !.total = Cardinality(ActivePages)]
  <1>1. run[r] \in Runs /\ run[r].pc = "claimed" /\ run' = [run EXCEPT ![r] = b]
    BY DEF IInv, Typed, OrderOK, Load
  <1>2. Cardinality(ActivePages) \in 0 .. Cardinality(Pages)
    BY FS_Subset, FS_CardinalityType DEF CategoryAssumption, ActivePages
  <1>3. d \subseteq RuleSupports /\ l \subseteq Rules /\ pc \in {"finishing", "reading"}
    OBVIOUS
  <1> HIDE DEF d, l
  <1>4. /\ b \in Runs /\ b.pc = pc /\ b.offset = run[r].offset /\ b.desired = d
        /\ b.total = Cardinality(ActivePages) /\ run'[r] = b
    BY <1>1, <1>2, <1>3 DEF Runs, IInv, Typed, OrderOK
  <1> HIDE DEF b
  <1>5. /\ RunMoves(r, b) /\ excused' = excused /\ stops' \in 0 .. MaxStops
        /\ UNCHANGED <<order, call>>
    BY <1>1 DEF Load, RunMoves, IInv, Typed, DataOK
  <1>6. OrderOK' /\ CallsOK' /\ TargetsLive' /\ FewRuns'
    BY <1>1, <1>3, <1>4, <1>5, UnderWay
  <1>7. \A p \in Pages : Of(d, p) = Matching(p)
    BY DEF d, Of, Matching, RuleSupports
  <1>8. rule' = rule /\ suppressed' = suppressed /\ ActivePages' = ActivePages
    BY <1>5 DEF RunMoves, ActivePages
  <1>9. FaithfulRun(r)'
    <2>1. \A p \in Pages : Matching(p)' = Matching(p)
      BY <1>8 DEF Matching
    <2>2. run'[r].pc # "writing"
      BY <1>3, <1>4
    <2> QED
      BY <1>4, <1>7, <2>1, <2>2 DEF FaithfulRun, Faithful, Of
  <1>10. WholeRun(r)' /\ OrderlyRun(r)'
    BY <1>3, <1>4, <1>8 DEF WholeRun, OrderlyRun
  <1>11. \A p \in Pages \ suppressed : Ahead(r, p)' /\ ~Ahead(r, p) /\ ~Fixes(r, p)
    <2> TAKE p \in Pages \ suppressed
    <2>1. pc = "reading" /\ run[r].offset = 0
      BY <1>1 DEF ActivePages, IInv, RunsOrderly, OrderlyRun
    <2>2. Position(p) \in Nat /\ Position(p)' = Position(p)
      <3>1. {o \in ActivePages : o < p} \in SUBSET Pages
        BY DEF ActivePages
      <3>2. IsFiniteSet({o \in ActivePages : o < p})
        BY <3>1, FS_Subset DEF CategoryAssumption
      <3> QED
        BY <1>8, <3>2, FS_CardinalityType DEF Position
    <2> QED
      BY <1>1, <1>4, <2>1, <2>2 DEF Ahead, Fixes
  <1> QED
    BY <1>4, <1>5, <1>6, <1>9, <1>10, <1>11, RunKeeps

\* A position is a number.
LEMMA PositionNat ==
  ASSUME CategoryAssumption, NEW p \in Pages
  PROVE  Position(p) \in Nat
  <1>1. {o \in ActivePages : o < p} \in SUBSET Pages
    BY DEF ActivePages
  <1>2. IsFiniteSet({o \in ActivePages : o < p})
    BY <1>1, FS_Subset DEF CategoryAssumption
  <1> QED
    BY <1>2, FS_CardinalityType DEF Position

\* A batch that reads its pages.
LEMMA BatchReadKeeps ==
  ASSUME CategoryAssumption, IInv, NEW r \in RunIds, BatchRead(r)
  PROVE  IInv'
  <1> DEFINE w == Window(run[r].offset)
             seen == {s \in supports : s[1] \in w /\ s[2] # Manual}
             without == Unsupported(assigned \cap w, supports)
             b == [run[r] EXCEPT !.pc = "writing", !.window = w, !.excluded = excluded \cap w,
                                 !.assigned = assigned \cap w, !.seen = seen,
                                 !.unsupported = without]
  <1>1. run[r] \in Runs /\ run[r].pc = "reading" /\ run' = [run EXCEPT ![r] = b]
    BY DEF IInv, Typed, OrderOK, BatchRead
  <1>2. /\ supports \subseteq SupportRows /\ \A s \in supports : s[1] \in assigned
        /\ Manual \notin Rules /\ assigned \subseteq Pages
    BY DEF IInv, Typed, DataOK, CategoryAssumption
  <1>3. w \subseteq Pages /\ seen \subseteq RuleSupports /\ without \subseteq Pages
    BY <1>2 DEF Window, ActivePages, SupportRows, RuleSupports, Unsupported
  <1>4. /\ without \subseteq w
        /\ \A p \in without : Of(seen, p) = {}
        /\ \A p \in w : Of(seen, p) = Of(supports, p)
        /\ \A s \in seen : s[1] \in w
        /\ \A p \in w : p \in Unsupported(assigned, supports) => p \in without
    BY <1>2 DEF Unsupported, Of
  <1> HIDE DEF seen, without, w
  <1>5. /\ b \in Runs /\ b.pc = "writing" /\ b.offset = run[r].offset
        /\ b.desired = run[r].desired /\ b.rerun = run[r].rerun /\ b.total = run[r].total
        /\ b.window = w /\ b.excluded = excluded \cap w
        /\ b.seen = seen /\ b.unsupported = without /\ run'[r] = b
    BY <1>1, <1>3 DEF Runs, IInv, Typed, OrderOK
  <1> HIDE DEF b
  <1>6. /\ RunMoves(r, b) /\ excused' = excused /\ stops' \in 0 .. MaxStops
        /\ UNCHANGED <<order, call>>
    BY <1>1 DEF BatchRead, RunMoves, IInv, Typed, DataOK, b, w, seen, without
  <1>7. OrderOK' /\ CallsOK' /\ TargetsLive' /\ FewRuns'
    BY <1>1, <1>5, <1>6, UnderWay
  <1>8. /\ DataOK' /\ RulesExist'
        /\ \A p \in Pages : /\ Due(p)' = Due(p) /\ Matching(p)' = Matching(p)
                            /\ Position(p)' = Position(p)
                            /\ Of(supports, p)' = Of(supports, p)
        /\ Unsupported(assigned, supports)' = Unsupported(assigned, supports)
        /\ ActivePages' = ActivePages
        /\ rule' = rule
    BY <1>5, <1>6, RunDataKeeps DEF RunMoves
  <1>9. FaithfulRun(r)'
    <2>1. FaithfulRun(r)
      BY DEF IInv, RunsFaithful
    <2> SUFFICES ASSUME NEW p \in Pages \ excused, ~run[r].rerun
                 PROVE  /\ Faithful(run[r].desired, p, Matching(p))'
                        /\ p \in w => Faithful(Wanted(run[r]), p, Due(p))'
      <3> HIDE DEF Faithful, Matching, Due, Wanted
      <3> QED
        BY <1>5, <1>6 DEF FaithfulRun
    <2>2. Faithful(run[r].desired, p, Matching(p))
      BY <1>1, <2>1 DEF FaithfulRun
    <2>3. p \in w => Of(Wanted(b), p) = IF p \in excluded THEN {} ELSE Of(run[r].desired, p)
      BY <1>5 DEF Of, Wanted
    <2>4. Due(p) = IF p \in excluded THEN {} ELSE Matching(p)
      BY DEF Due, Matching
    <2>5. /\ Of(run[r].desired, p)' = Of(run[r].desired, p)
          /\ Of(Wanted(run[r]), p)' = Of(Wanted(b), p)
      BY <1>5 DEF Of, Wanted
    <2>6. Faithful(run[r].desired, p, Matching(p))'
      <3> HIDE DEF Of, Matching
      <3> QED
        BY <1>8, <2>2, <2>5 DEF Faithful
    <2>7. ASSUME p \in w PROVE Faithful(Wanted(run[r]), p, Due(p))'
      <3>1. Due(p) \subseteq Of(Wanted(b), p)
            /\ \A q \in Of(Wanted(b), p) \ Due(p) : rule[q].state = "absent"
        <4> HIDE DEF Of, Matching, Due
        <4> QED
          BY <2>2, <2>3, <2>4, <2>7 DEF Faithful
      <3> HIDE DEF Of, Due, Wanted
      <3> QED
        BY <1>8, <2>5, <3>1 DEF Faithful
    <2> QED
      BY <2>6, <2>7
  <1>10. WholeRun(r)'
    <2>1. WholeRun(r)
      BY DEF IInv, BatchesWhole
    <2>2. Window(run[r].offset)' = w
      BY <1>5, <1>8 DEF Window, Position, w
    <2> HIDE DEF Window
    <2> QED
      BY <1>1, <1>5, <1>6, <1>8, <2>1, <2>2 DEF WholeRun
  <1>11. OrderlyRun(r)'
    BY <1>4, <1>5 DEF OrderlyRun, Of
  <1>12. StartsOver(r) => StartsOver(r)'
    BY <1>1, <1>5 DEF StartsOver
  <1>13. ASSUME NEW p \in Pages \ (suppressed \cup excused), Ahead(r, p)
         PROVE  Ahead(r, p)' \/ Fixes(r, p)'
    <2>1. /\ run[r].offset <= Position(p) /\ run[r].offset \in Nat /\ Position(p) \in Nat
          /\ BatchSize \in Nat
      BY <1>1, <1>13, PositionNat, RunFields DEF Ahead, CategoryAssumption
    <2>2. CASE run[r].offset + BatchSize <= Position(p)
      BY <1>5, <1>8, <2>2 DEF Ahead
    <2>3. CASE Position(p) < run[r].offset + BatchSize
      <3>1. p \in w
        BY <2>1, <2>3 DEF w, Window, Position, ActivePages
      <3>2. /\ Of(supports, p)' = Of(supports, p) /\ Of(run[r].seen, p)' = Of(seen, p)
            /\ Due(p)' = Due(p)
        BY <1>5, <1>8 DEF Of
      <3>3. Of(seen, p) = Of(supports, p)
        BY <1>4, <3>1
      <3> HIDE DEF Of, Due, MissingRows, Unsupported
      <3> QED
        BY <1>4, <1>5, <1>8, <3>1, <3>2, <3>3 DEF Fixes
    <2> QED
      BY <2>1, <2>2, <2>3
  <1>14. \A p \in Pages : ~Fixes(r, p)
    BY <1>1 DEF Fixes
  <1> QED
    BY <1>5, <1>6, <1>7, <1>9, <1>10, <1>11, <1>12, <1>13, <1>14, RunKeeps

\* A run that returns and is settled.
LEMMA EndKeeps ==
  ASSUME CategoryAssumption, IInv, NEW r \in RunIds,
         Finish(r) \/ PersistRerun(r) \/ PersistRead(r) \/ PersistWrite(r)
  PROVE  IInv'
  <1>1. run[r] \in Runs /\ run \in [RunIds -> Runs] /\ stops \in 0 .. MaxStops
    BY DEF IInv, Typed, OrderOK, DataOK
  <1>2. ASSUME Finish(r) PROVE IInv'
    <2> DEFINE b == [Free EXCEPT !.pc = "returned", !.rerun = run[r].rerun]
    <2>1. run[r].pc = "finishing" /\ run' = [run EXCEPT ![r] = b]
      BY <1>2 DEF Finish
    <2>2. b \in Runs /\ b.pc = "returned" /\ b.rerun = run[r].rerun /\ run'[r] = b
      BY <1>1, <2>1, FreeTyped DEF Runs, Free
    <2> HIDE DEF b
    <2>3. /\ RunMoves(r, b) /\ excused' = excused /\ stops' \in 0 .. MaxStops
          /\ UNCHANGED <<order, call>>
      BY <1>1, <1>2, <2>1 DEF Finish, RunMoves
    <2>4. OrderOK' /\ CallsOK' /\ TargetsLive' /\ FewRuns'
      BY <2>1, <2>2, <2>3, UnderWay
    <2>5. FaithfulRun(r)' /\ WholeRun(r)' /\ OrderlyRun(r)'
      BY <2>2 DEF FaithfulRun, WholeRun, OrderlyRun
    <2>6. /\ StartsOver(r) => StartsOver(r)'
          /\ \A p \in Pages : ~Ahead(r, p) /\ ~Fixes(r, p)
      BY <2>1, <2>2 DEF StartsOver, Ahead, Fixes
    <2> QED
      BY <2>2, <2>3, <2>4, <2>5, <2>6, RunKeeps
  <1>3. ASSUME PersistRerun(r) PROVE IInv'
    <2>1. /\ run[r].pc = "returned" /\ run' = [run EXCEPT ![r] = Followup]
          /\ order' = Append(Others(r), r) /\ call' = Forgotten(r)
      BY <1>3 DEF PersistRerun
    <2>2. /\ Followup \in Runs /\ Followup.pc = "queued" /\ Followup.offset = 0
          /\ run'[r] = Followup
      BY <1>1, <2>1, FreeTyped DEF Followup, Queued, Free
    <2>3. /\ RunMoves(r, Followup) /\ excused' = excused /\ stops' \in 0 .. MaxStops
      BY <1>1, <1>3, <2>1 DEF PersistRerun, RunMoves
    <2>4. OrderOK' /\ CallsOK' /\ TargetsLive' /\ FewRuns'
      BY <2>1, Followed
    <2>5. FaithfulRun(r)' /\ WholeRun(r)' /\ OrderlyRun(r)'
      BY <2>2 DEF FaithfulRun, WholeRun, OrderlyRun
    <2>6. StartsOver(r)' /\ \A p \in Pages : ~Ahead(r, p) /\ ~Fixes(r, p)
      BY <2>1, <2>2 DEF StartsOver, Ahead, Fixes
    <2> QED
      BY <2>2, <2>3, <2>4, <2>5, <2>6, RunKeeps
  <1>4. ASSUME PersistRead(r) PROVE IInv'
    <2> DEFINE b == [run[r] EXCEPT !.pc = "settling"]
    <2>1. run[r].pc = "returned" /\ ~run[r].rerun /\ run' = [run EXCEPT ![r] = b]
      BY <1>1, <1>4 DEF PersistRead
    <2>2. b \in Runs /\ b.pc = "settling" /\ run'[r] = b
      BY <1>1, <2>1 DEF Runs
    <2> HIDE DEF b
    <2>3. /\ RunMoves(r, b) /\ excused' = excused /\ stops' \in 0 .. MaxStops
          /\ UNCHANGED <<order, call>>
      BY <1>1, <1>4, <2>1 DEF PersistRead, RunMoves
    <2>4. OrderOK' /\ CallsOK' /\ TargetsLive' /\ FewRuns'
      BY <2>1, <2>2, <2>3, UnderWay
    <2>5. FaithfulRun(r)' /\ WholeRun(r)' /\ OrderlyRun(r)'
      BY <2>2 DEF FaithfulRun, WholeRun, OrderlyRun
    <2>6. ~StartsOver(r) /\ \A p \in Pages : ~Ahead(r, p) /\ ~Fixes(r, p)
      BY <2>1 DEF StartsOver, Ahead, Fixes
    <2> QED
      BY <2>2, <2>3, <2>4, <2>5, <2>6, RunKeeps
  <1>5. ASSUME PersistWrite(r) PROVE IInv'
    <2>1. /\ run[r].pc = "settling" /\ run' = [run EXCEPT ![r] = Free]
          /\ order' = Others(r) /\ call' = Forgotten(r)
      BY <1>5 DEF PersistWrite
    <2>2. Free \in Runs /\ Free.pc = "free" /\ run'[r] = Free
      BY <1>1, <2>1, FreeTyped
    <2>3. /\ RunMoves(r, Free) /\ excused' = excused /\ stops' \in 0 .. MaxStops
      BY <1>1, <1>5, <2>1 DEF PersistWrite, RunMoves
    <2>4. OrderOK' /\ CallsOK' /\ TargetsLive' /\ FewRuns'
      BY <2>1, Over
    <2>5. FaithfulRun(r)' /\ WholeRun(r)' /\ OrderlyRun(r)'
      BY <2>2 DEF FaithfulRun, WholeRun, OrderlyRun
    <2>6. ~StartsOver(r) /\ \A p \in Pages : ~Ahead(r, p) /\ ~Fixes(r, p)
      BY <2>1 DEF StartsOver, Ahead, Fixes
    <2> QED
      BY <2>2, <2>3, <2>4, <2>5, <2>6, RunKeeps
  <1> QED
    BY <1>2, <1>3, <1>4, <1>5

-----------------------------------------------------------------------------
(***************************************************************************)
(* What a batch writes.                                                    *)
(***************************************************************************)

Stale(b) == SeenSupports(b) \ Wanted(b)

Added(b) == Wanted(b) \ SeenSupports(b)

After(b) == (supports \ Stale(b)) \cup Added(b)

Rows(b) == assigned \cup MissingRows(b)

Wrote(b) == MissingRows(b) # {} \/ Stale(b) # {} \/ Added(b) # {}

Dropped(b) == IF Wrote(b) THEN Unsupported(Rows(b) \cap b.window, After(b)) ELSE b.unsupported

\* A batch's write, by the names of its parts.
LEMMA BatchWrites ==
  ASSUME NEW r \in RunIds, BatchWrite(r)
  PROVE  /\ run[r].pc = "writing" /\ ~Conflicts(run[r])
         /\ assigned' = Rows(run[r]) \ Dropped(run[r])
         /\ supports' = {s \in After(run[r]) : s[1] \notin Dropped(run[r])}
         /\ UNCHANGED <<rule, suppressed, excluded, order, call, tidying, excused, edits, stops>>
  BY DEF BatchWrite, Rows, Dropped, After, Stale, Added, Wrote

\* A batch touches its own pages, and rows of rules that exist.
LEMMA BatchBounds ==
  ASSUME CategoryAssumption, IInv, NEW r \in RunIds, BatchWrite(r), NEW b, b = run[r]
  PROVE  /\ \A s \in Wanted(b) : s \in RuleSupports /\ s[1] \in b.window
         /\ \A s \in SeenSupports(b) : s[1] \in b.window /\ s[2] # Manual
         /\ MissingRows(b) \subseteq b.window /\ Dropped(b) \subseteq b.window
         /\ \A s \in Added(b) : /\ s \notin supports /\ rule[s[2]].state # "absent"
                                /\ s[1] \in Rows(b)
         /\ b.window \subseteq Pages
  <1>1. b \in Runs /\ b.pc = "writing" /\ OrderlyRun(r) /\ ~Conflicts(b) /\ Manual \notin Rules
    BY BatchWrites DEF IInv, Typed, OrderOK, RunsOrderly, CategoryAssumption
  <1>2. /\ b.desired \subseteq RuleSupports /\ b.seen \subseteq RuleSupports
        /\ b.window \subseteq Pages
    BY <1>1, RunFields
  <1>3. \A s \in Wanted(b) : s \in RuleSupports /\ s[1] \in b.window
    BY <1>2 DEF Wanted
  <1>4. \A s \in b.seen : s[1] \in b.window
    BY <1>1 DEF OrderlyRun
  <1>5. \A s \in SeenSupports(b) : s[1] \in b.window /\ s[2] # Manual
    <2>1. \A s \in b.seen : s[2] # Manual
      BY <1>1, <1>2 DEF RuleSupports
    <2> QED
      BY <1>4, <2>1 DEF SeenSupports
  <1>6. MissingRows(b) \subseteq b.window
    BY <1>3 DEF MissingRows
  <1>7. Dropped(b) \subseteq b.window
    BY <1>1 DEF Dropped, Unsupported, OrderlyRun
  <1>8. \A s \in Added(b) : /\ s \notin supports /\ rule[s[2]].state # "absent"
                            /\ s[1] \in Rows(b)
    BY <1>1 DEF Added, Conflicts, Rows
  <1> QED
    BY <1>2, <1>3, <1>5, <1>6, <1>7, <1>8

\* A batch leaves no support without its assignment or its rule.
LEMMA BatchDataKeeps ==
  ASSUME CategoryAssumption, IInv, NEW r \in RunIds, BatchWrite(r)
  PROVE  DataOK' /\ RulesExist'
  <1> DEFINE b == run[r]
  <1>1. /\ \A s \in Wanted(b) : s \in RuleSupports /\ s[1] \in b.window
        /\ MissingRows(b) \subseteq b.window
        /\ \A s \in Added(b) : /\ s \notin supports /\ rule[s[2]].state # "absent"
                               /\ s[1] \in Rows(b)
        /\ b.window \subseteq Pages
    BY BatchBounds
  <1>2. /\ assigned' = Rows(b) \ Dropped(b)
        /\ supports' = {s \in After(b) : s[1] \notin Dropped(b)}
        /\ UNCHANGED <<rule, suppressed, excluded, order, call, tidying, excused, edits, stops>>
    BY BatchWrites
  <1>3. DataOK /\ RulesExist
    BY DEF IInv, Typed
  <1>4. \A s \in supports' : s \in supports \/ s \in Added(b)
    BY <1>2 DEF After
  <1>5. Rows(b) \subseteq Pages /\ assigned \subseteq Rows(b)
    BY <1>1, <1>3 DEF Rows, DataOK
  <1>6. \A s \in Added(b) : s \in RuleSupports
    BY <1>1 DEF Added
  <1>7. \A s \in supports' : s \in SupportRows /\ s[1] \in assigned'
    <2> TAKE s \in supports'
    <2>1. s \in SupportRows
      BY <1>3, <1>4, <1>6 DEF DataOK, SupportRows, RuleSupports
    <2>2. s[1] \in Rows(b)
      BY <1>1, <1>3, <1>4, <1>5 DEF DataOK
    <2>3. s[1] \notin Dropped(b)
      BY <1>2
    <2> QED
      BY <1>2, <2>1, <2>2, <2>3
  <1>8. DataOK'
    BY <1>2, <1>3, <1>5, <1>7 DEF DataOK
  <1>9. RulesExist'
    BY <1>1, <1>2, <1>3, <1>4 DEF RulesExist
  <1> QED
    BY <1>8, <1>9

\* Pages of other batches keep what they have.
LEMMA BatchOutside ==
  ASSUME CategoryAssumption, IInv, NEW r \in RunIds, BatchWrite(r),
         NEW x \in Pages, x \notin run[r].window
  PROVE  /\ Of(supports', x) = Of(supports, x)
         /\ x \in assigned' <=> x \in assigned
         /\ (\E s \in supports' : s[1] = x) <=> (\E s \in supports : s[1] = x)
  <1> DEFINE b == run[r]
  <1>1. /\ \A s \in Wanted(b) : s[1] \in b.window
        /\ \A s \in SeenSupports(b) : s[1] \in b.window
        /\ MissingRows(b) \subseteq b.window /\ Dropped(b) \subseteq b.window
    BY BatchBounds
  <1>2. /\ assigned' = Rows(b) \ Dropped(b)
        /\ supports' = {s \in After(b) : s[1] \notin Dropped(b)}
    BY BatchWrites
  <1>3. \A s : s[1] = x => (s \in supports' <=> s \in supports)
    BY <1>1, <1>2 DEF After, Stale, Added
  <1>4. x \in assigned' <=> x \in assigned
    BY <1>1, <1>2 DEF Rows
  <1>5. \A q : <<x, q>>[1] = x
    OBVIOUS
  <1>6. Of(supports', x) = Of(supports, x)
    BY <1>3, <1>5 DEF Of
  <1> QED
    BY <1>3, <1>4, <1>6

\* What is left of the rule supports of a page in the batch.
LEMMA BatchOf ==
  ASSUME NEW r \in RunIds, BatchWrite(r), NEW x \in Pages
  PROVE  Of(supports', x) = IF x \in Dropped(run[r]) THEN {} ELSE Of(After(run[r]), x)
  <1>1. supports' = {s \in After(run[r]) : s[1] \notin Dropped(run[r])}
    BY BatchWrites
  <1>2. \A q : <<x, q>>[1] = x
    OBVIOUS
  <1> HIDE DEF After, Dropped
  <1> QED
    BY <1>1, <1>2 DEF Of

\* A batch that writes anything looks at all of its pages afterwards.
LEMMA BatchThorough ==
  ASSUME CategoryAssumption, IInv, NEW r \in RunIds, BatchWrite(r), Wrote(run[r]),
         NEW x \in run[r].window
  PROVE  /\ x \in assigned' <=> \E s \in supports' : s[1] = x
         /\ x \in Dropped(run[r]) => Of(After(run[r]), x) = {}
  <1> DEFINE b == run[r]
  <1>1. /\ assigned' = Rows(b) \ Dropped(b)
        /\ supports' = {s \in After(b) : s[1] \notin Dropped(b)}
    BY BatchWrites
  <1>2. Dropped(b) = {p \in Rows(b) \cap b.window : \A s \in After(b) : s[1] # p}
    BY DEF Dropped, Unsupported
  <1>3. \A s \in supports' : s[1] \in assigned'
    BY BatchDataKeeps DEF DataOK
  <1>4. x \in Dropped(b) => Of(After(b), x) = {}
    <2>1. \A q : <<x, q>>[1] = x
      OBVIOUS
    <2> HIDE DEF After
    <2> QED
      BY <1>2, <2>1 DEF Of
  <1> QED
    BY <1>1, <1>2, <1>3, <1>4

\* One that does not finds the page wanting just what it was seen to have.
LEMMA BatchIdle ==
  ASSUME CategoryAssumption, IInv, NEW r \in RunIds, BatchWrite(r), ~Wrote(run[r]),
         NEW x \in Pages
  PROVE  /\ MissingRows(run[r]) = {} /\ After(run[r]) = supports
         /\ x \in Dropped(run[r]) =>
              /\ Of(Wanted(run[r]), x) = {}
              /\ x \notin assigned' /\ \A s \in supports' : s[1] # x
         /\ x \notin Dropped(run[r]) =>
              /\ x \in assigned' <=> x \in assigned
              /\ (\E s \in supports' : s[1] = x) <=> (\E s \in supports : s[1] = x)
         /\ Dropped(run[r]) = run[r].unsupported
  <1> DEFINE b == run[r]
  <1>1. /\ assigned' = Rows(b) \ Dropped(b)
        /\ supports' = {s \in After(b) : s[1] \notin Dropped(b)}
        /\ b.pc = "writing"
    BY BatchWrites
  <1>2. /\ MissingRows(b) = {} /\ Stale(b) = {} /\ Added(b) = {}
    BY DEF Wrote
  <1>3. After(b) = supports /\ Rows(b) = assigned /\ Dropped(b) = b.unsupported
    BY <1>2 DEF After, Rows, Dropped
  <1>4. Wanted(b) \subseteq b.seen
    BY <1>2 DEF Added, SeenSupports
  <1>5. x \in b.unsupported => Of(Wanted(b), x) = {}
    <2>1. x \in b.unsupported => Of(b.seen, x) = {}
      BY <1>1 DEF IInv, RunsOrderly, OrderlyRun
    <2> HIDE DEF Wanted
    <2> QED
      BY <1>4, <2>1 DEF Of
  <1> QED
    BY <1>1, <1>2, <1>3, <1>5

\* A batch that wants what is due, and what cannot be inserted any more at most, adds nothing
\* else, removes nothing that is due, and leaves nothing else but what it did not see.
LEMMA BatchOfFaithful ==
  ASSUME CategoryAssumption, IInv, NEW r \in RunIds, BatchWrite(r),
         NEW x \in run[r].window, Faithful(Wanted(run[r]), x, Due(x))
  PROVE  /\ Of(After(run[r]), x) \ Due(x) \subseteq Of(supports, x) \ Of(SeenSupports(run[r]), x)
         /\ Due(x) \cap Of(supports, x) \subseteq Of(After(run[r]), x)
         /\ Due(x) \ Of(SeenSupports(run[r]), x) \subseteq Of(After(run[r]), x)
         /\ Of(Wanted(run[r]), x) = {} => Due(x) = {}
  <1> DEFINE b == run[r]
             S == SeenSupports(b)
             W == Wanted(b)
  <1>1. /\ \A s \in Added(b) : s \notin supports /\ rule[s[2]].state # "absent"
        /\ \A s \in supports : s[2] \in Rules => rule[s[2]].state # "absent"
    BY BatchBounds DEF IInv, RulesExist
  <1>2. /\ \A q \in Due(x) : q \in Rules /\ <<x, q>> \in W
        /\ \A q \in Rules : <<x, q>> \in W => q \in Due(x) \/ rule[q].state = "absent"
    BY DEF Faithful, Of, Due
  <1>3. \A s : s \in After(b) <=> \/ s \in supports /\ ~(s \in S /\ s \notin W)
                                  \/ s \in W /\ s \notin S
    BY DEF After, Stale, Added
  <1>4. \A s : s \in Added(b) <=> s \in W /\ s \notin S
    BY DEF Added
  <1> HIDE DEF S, W
  <1>5. ASSUME NEW q \in Rules, <<x, q>> \in After(b), q \notin Due(x)
        PROVE  <<x, q>> \in supports /\ <<x, q>> \notin S
    <2>1. <<x, q>>[2] = q
      OBVIOUS
    <2>2. <<x, q>> \notin Added(b)
      BY <1>1, <1>2, <1>4, <1>5, <2>1
    <2>3. <<x, q>> \in supports
      BY <1>3, <1>4, <1>5, <2>2
    <2>4. <<x, q>> \notin W
      BY <1>1, <1>2, <1>5, <2>1, <2>3
    <2> QED
      BY <1>3, <1>5, <2>3, <2>4
  <1> HIDE DEF Due, b
  <1> QED
    BY <1>2, <1>3, <1>5 DEF Of, S, W, b

\* What a batch does to the agreement of a page, of this batch or not, and to what others are
\* about to do to it.
LEMMA BatchAgrees ==
  ASSUME CategoryAssumption, IInv, NEW r \in RunIds, BatchWrite(r), NEW x \in Pages,
         x \in run[r].window => Faithful(Wanted(run[r]), x, Due(x))
  PROVE  /\ Agreed(x) => Agreed(x)'
         /\ Fixes(r, x) => Agreed(x)'
         /\ Of(supports', x) \ Due(x) \subseteq Of(supports, x)
         /\ Due(x) \cap Of(supports, x) \subseteq Of(supports', x)
         /\ x \in Unsupported(assigned', supports') => x \in Unsupported(assigned, supports)
  <1> DEFINE b == run[r]
             D == Due(x)
             supported == \E s \in supports : s[1] = x
             supported1 == \E s \in supports' : s[1] = x
  <1>1. Due(x)' = D /\ Of(supports, x)' = Of(supports', x)
    BY BatchWrites DEF Due, Of
  <1>2. /\ Agreed(x) <=> Of(supports, x) = D /\ (x \in assigned <=> supported)
        /\ Agreed(x)' <=> Of(supports', x) = D /\ (x \in assigned' <=> supported1)
    <2>1. /\ Agreed(x) <=> Of(supports, x) = Due(x) /\ (x \in assigned <=> \E s \in supports : s[1] = x)
          /\ Agreed(x)' <=> Of(supports, x)' = Due(x)' /\ (x \in assigned' <=> \E s \in supports' : s[1] = x)
      BY DEF Agreed
    <2> QED
      BY <1>1, <2>1
  <1>3. /\ x \in Unsupported(assigned, supports) <=> x \in assigned /\ ~supported
        /\ x \in Unsupported(assigned', supports') <=> x \in assigned' /\ ~supported1
    BY DEF Unsupported
  <1>4. supported => x \in assigned
    BY DEF IInv, Typed, DataOK
  <1> HIDE DEF D, supported, supported1
  <1>5. CASE x \notin b.window
    <2>1. /\ Of(supports', x) = Of(supports, x) /\ (x \in assigned' <=> x \in assigned)
          /\ supported1 <=> supported
      BY <1>5, BatchOutside DEF supported, supported1
    <2>2. ~Fixes(r, x)
      BY <1>5 DEF Fixes
    <2> HIDE DEF Of
    <2> QED
      BY <1>2, <1>3, <2>1, <2>2 DEF D
  <1>6. CASE x \in b.window
    <2>1. /\ Of(After(b), x) \ D \subseteq Of(supports, x) \ Of(SeenSupports(b), x)
          /\ D \cap Of(supports, x) \subseteq Of(After(b), x)
          /\ D \ Of(SeenSupports(b), x) \subseteq Of(After(b), x)
          /\ Of(Wanted(b), x) = {} => D = {}
      BY <1>6, BatchOfFaithful DEF D
    <2>2. Of(supports', x) = IF x \in Dropped(b) THEN {} ELSE Of(After(b), x)
      BY BatchOf
    <2>3. x \in Dropped(b) => D = {} \/ Of(After(b), x) = {}
      <3>1. CASE Wrote(b)
        BY <1>6, <3>1, BatchThorough
      <3>2. CASE ~Wrote(b)
        BY <2>1, <3>2, BatchIdle
      <3> QED
        BY <3>1, <3>2
    <2>4. (x \in assigned' /\ ~supported1) => (x \in assigned /\ ~supported /\ ~Wrote(b) /\ x \notin Dropped(b))
      <3>1. CASE Wrote(b)
        BY <1>6, <3>1, BatchThorough DEF supported1
      <3>2. CASE ~Wrote(b)
        BY <3>2, BatchIdle DEF supported, supported1
      <3> QED
        BY <3>1, <3>2
    <2>5. supported1 => x \in assigned'
      BY BatchDataKeeps DEF DataOK, supported1
    <2>6. Of(supports', x) \ D \subseteq Of(supports, x)
          /\ D \cap Of(supports, x) \subseteq Of(supports', x)
      <3> HIDE DEF Of, After, Dropped, SeenSupports, Wanted
      <3> QED
        BY <2>1, <2>2, <2>3
    <2>7. Agreed(x) => Agreed(x)'
      <3> HIDE DEF Of, After, Dropped, SeenSupports, Wanted
      <3> QED
        BY <1>2, <2>4, <2>5, <2>6
    <2>8. ASSUME Fixes(r, x) PROVE Agreed(x)'
      <3>1. Of(supports, x) \ D \subseteq Of(SeenSupports(b), x)
            /\ D \cap Of(SeenSupports(b), x) \subseteq Of(supports, x)
        <4>1. CASE MissingRows(b) = {}
          <5>1. SeenSupports(b) = b.seen
            BY <4>1 DEF SeenSupports
          <5> HIDE DEF Of, MissingRows
          <5> QED
            BY <2>8, <4>1, <5>1 DEF Fixes, D
        <4>2. CASE MissingRows(b) # {}
          <5>1. SeenSupports(b) = {s \in supports : s[1] \in b.window /\ s[2] # Manual}
            BY <4>2 DEF SeenSupports
          <5>2. \A q \in Rules : <<x, q>>[1] = x /\ <<x, q>>[2] = q /\ q # Manual
            BY DEF CategoryAssumption
          <5>3. Of(SeenSupports(b), x) = Of(supports, x)
            BY <1>6, <5>1, <5>2 DEF Of
          <5> QED
            BY <5>3
        <4> QED
          BY <4>1, <4>2
      <3>2. Of(After(b), x) = D
        <4>1. D \subseteq Of(After(b), x)
          <5> HIDE DEF Of, After, SeenSupports, Wanted
          <5> QED
            BY <2>1, <3>1
        <4>2. Of(After(b), x) \subseteq D
          <5> HIDE DEF Of, After, SeenSupports, Wanted
          <5> QED
            BY <2>1, <3>1
        <4> QED
          BY <4>1, <4>2
      <3>3. Of(supports', x) = D
        <4> HIDE DEF Of, After, Dropped
        <4> QED
          BY <2>2, <2>3, <3>2
      <3>4. x \in assigned' => supported1
        <4> SUFFICES ASSUME x \in assigned', ~supported1 PROVE FALSE
          OBVIOUS
        <4>1. x \in assigned /\ ~supported /\ ~Wrote(b) /\ x \notin Dropped(b)
          BY <2>4
        <4>2. MissingRows(b) = {} /\ Dropped(b) = b.unsupported
          BY <4>1, BatchIdle
        <4>3. x \in b.unsupported
          BY <2>8, <1>3, <4>1, <4>2 DEF Fixes
        <4> QED
          BY <4>1, <4>2, <4>3
      <3> QED
        BY <1>2, <2>5, <3>3, <3>4
    <2> HIDE DEF Of
    <2> QED
      BY <1>3, <2>4, <2>6, <2>7, <2>8 DEF D
  <1> QED
    BY <1>5, <1>6

\* A batch that writes.
LEMMA BatchWriteKeeps ==
  ASSUME CategoryAssumption, IInv, NEW r \in RunIds, BatchWrite(r)
  PROVE  IInv'
  <1> DEFINE b == run[r]
             n == [Free EXCEPT !.pc = AfterBatch(b), !.rerun = b.rerun, !.loaded = b.loaded,
                               !.desired = b.desired, !.total = b.total,
                               !.offset = b.offset + BatchSize]
  <1>1. /\ b.pc = "writing" /\ run' = [run EXCEPT ![r] = n]
        /\ UNCHANGED <<rule, suppressed, excluded, order, call, tidying, excused, edits, stops>>
    BY DEF BatchWrite
  <1>2. /\ run \in [RunIds -> Runs] /\ b \in Runs /\ BatchSize \in Nat
    BY DEF IInv, Typed, OrderOK, CategoryAssumption
  <1>3. AfterBatch(b) \in {"reading", "finishing"}
    BY DEF AfterBatch
  <1>4. /\ n \in Runs /\ n.pc = AfterBatch(b) /\ n.rerun = b.rerun /\ n.desired = b.desired
        /\ n.total = b.total /\ n.offset = b.offset + BatchSize
        /\ run'[r] = n /\ \A o \in RunIds \ {r} : run'[o] = run[o]
    <2>1. /\ n.pc = AfterBatch(b) /\ n.rerun = b.rerun /\ n.desired = b.desired
          /\ n.total = b.total /\ n.offset = b.offset + BatchSize
      BY DEF Free
    <2>2. /\ b.rerun \in BOOLEAN /\ b.loaded \in SUBSET Rules
          /\ b.desired \in SUBSET RuleSupports /\ b.total \in 0 .. Cardinality(Pages) /\ b.offset + BatchSize \in Nat
      BY <1>2, RunFields
    <2>3. n \in Runs
      BY <1>3, <2>2 DEF Runs, Free
    <2> HIDE DEF n
    <2>4. run'[r] = n /\ \A o \in RunIds \ {r} : run'[o] = run[o]
      BY <1>1, <1>2
    <2> QED
      BY <2>1, <2>3, <2>4
  <1> HIDE DEF n
  <1>5. OrderOK' /\ CallsOK' /\ TargetsLive' /\ FewRuns'
    BY <1>1, <1>3, <1>4, UnderWay
  <1>6. DataOK' /\ RulesExist'
    BY BatchDataKeeps
  <1>7. /\ \A x \in Pages : /\ Due(x)' = Due(x) /\ Matching(x)' = Matching(x)
                            /\ Position(x)' = Position(x)
        /\ ActivePages' = ActivePages
    BY <1>1 DEF Due, Matching, Position, ActivePages
  <1>8. RunsFaithful'
    <2> SUFFICES ASSUME NEW o \in RunIds PROVE FaithfulRun(o)'
      BY DEF RunsFaithful
    <2>1. FaithfulRun(o)
      BY DEF IInv, RunsFaithful
    <2>2. CASE o = r
      BY <1>1, <1>3, <1>4, <1>7, <2>1, <2>2 DEF FaithfulRun, Faithful, Of
    <2>3. CASE o # r
      BY <1>1, <1>4, <1>7, <2>1, <2>3 DEF FaithfulRun, Faithful, Of, Wanted
    <2> QED
      BY <2>2, <2>3
  <1>9. BatchesWhole' /\ RunsOrderly'
    <2> SUFFICES ASSUME NEW o \in RunIds PROVE WholeRun(o)' /\ OrderlyRun(o)'
      BY DEF BatchesWhole, RunsOrderly
    <2>1. WholeRun(o) /\ OrderlyRun(o)
      BY DEF IInv, BatchesWhole, RunsOrderly
    <2>2. CASE o = r
      BY <1>1, <1>3, <1>4, <1>7, <2>1, <2>2 DEF WholeRun, OrderlyRun
    <2>3. CASE o # r
      BY <1>1, <1>4, <1>7, <2>1, <2>3 DEF WholeRun, OrderlyRun, Window, Position, Of
    <2> QED
      BY <2>2, <2>3
  <1>10. WorkOwed'
    <2> SUFFICES ASSUME NEW x \in Pages \ (suppressed \cup excused)
                 PROVE  Agreed(x)' \/ Pending' \/ \E o \in RunIds : Ahead(o, x)' \/ Fixes(o, x)'
      BY <1>1 DEF WorkOwed
    <2>1. Agreed(x) \/ Pending \/ \E o \in RunIds : Ahead(o, x) \/ Fixes(o, x)
      BY DEF IInv, WorkOwed
    <2>2. CASE Pending
      <3>1. PICK o \in RunIds : StartsOver(o)
        BY <2>2 DEF Pending
      <3>2. StartsOver(o)'
        BY <1>1, <1>3, <1>4, <3>1 DEF StartsOver
      <3> QED
        BY <3>2 DEF Pending
    <2>3. CASE ~Pending
      <3>1. ~b.rerun
        BY <1>1, <2>3 DEF Pending, StartsOver
      <3>2. x \in b.window => Faithful(Wanted(b), x, Due(x))
        BY <1>1, <3>1 DEF IInv, RunsFaithful, FaithfulRun
      <3>3. /\ Agreed(x) => Agreed(x)'
            /\ Fixes(r, x) => Agreed(x)'
            /\ Of(supports', x) \ Due(x) \subseteq Of(supports, x)
            /\ Due(x) \cap Of(supports, x) \subseteq Of(supports', x)
            /\ x \in Unsupported(assigned', supports') => x \in Unsupported(assigned, supports)
        BY <3>2, BatchAgrees
      <3>4. ASSUME NEW o \in RunIds \ {r}, Fixes(o, x) PROVE Fixes(o, x)'
        <4>1. run'[o] = run[o]
          BY <1>4
        <4>2. /\ MissingRows(run[o])' = MissingRows(run[o])
              /\ Of(run[o].seen, x)' = Of(run[o].seen, x) /\ Of(supports, x)' = Of(supports', x)
              /\ Unsupported(assigned, supports)' = Unsupported(assigned', supports')
          BY <4>1 DEF MissingRows, Wanted, Of, Unsupported
        <4> HIDE DEF MissingRows, Of, Unsupported, Due
        <4> QED
          BY <1>7, <3>3, <3>4, <4>1, <4>2 DEF Fixes
      <3>5. ASSUME NEW o \in RunIds \ {r}, Ahead(o, x) PROVE Ahead(o, x)'
        BY <1>4, <1>7, <3>5 DEF Ahead
      <3>6. ASSUME Ahead(r, x) PROVE Ahead(r, x)'
        <4>1. b.offset + BatchSize <= Position(x)
          BY <1>1, <3>6 DEF Ahead
        <4>2. Position(x) < Cardinality(ActivePages)
          <5> DEFINE before == {o \in ActivePages : o < x}
          <5>1. IsFiniteSet(ActivePages) /\ before \in SUBSET ActivePages
            BY FS_Subset DEF CategoryAssumption, ActivePages
          <5>2. x \in ActivePages /\ x \in Nat
            BY DEF ActivePages, CategoryAssumption
          <5>3. before # ActivePages
            BY <5>2
          <5>4. /\ Cardinality(before) <= Cardinality(ActivePages)
                /\ Cardinality(before) # Cardinality(ActivePages)
                /\ IsFiniteSet(before)
            BY <5>1, <5>3, FS_Subset
          <5>5. Cardinality(before) \in Nat /\ Cardinality(ActivePages) \in Nat
            BY <5>1, <5>4, FS_CardinalityType
          <5> QED
            BY <5>4, <5>5 DEF Position
        <4>3. b.total = Cardinality(ActivePages)
          BY <1>1 DEF IInv, BatchesWhole, WholeRun
        <4>4. b.offset \in Nat /\ Position(x) \in Nat /\ Cardinality(ActivePages) \in Nat
          <5>1. IsFiniteSet(ActivePages)
            BY FS_Subset DEF CategoryAssumption, ActivePages
          <5> QED
            BY <1>2, <5>1, PositionNat, RunFields, FS_CardinalityType
        <4>5. AfterBatch(b) = "reading"
          BY <1>2, <4>1, <4>2, <4>3, <4>4 DEF AfterBatch
        <4> QED
          BY <1>4, <1>7, <4>1, <4>5 DEF Ahead
      <3> QED
        BY <2>1, <2>3, <3>3, <3>4, <3>5, <3>6
    <2> QED
      BY <2>2, <2>3
  <1> QED
    BY <1>5, <1>6, <1>8, <1>9, <1>10 DEF IInv, Typed

-----------------------------------------------------------------------------
(***************************************************************************)
(* The invariant.                                                          *)
(***************************************************************************)

\* The steps of a run.
LEMMA StepKeeps ==
  ASSUME CategoryAssumption, IInv, NEW r \in RunIds, Step(r) \/ Fault(r)
  PROVE  IInv'
  <1>1. ASSUME Fail(r) PROVE IInv'
    BY <1>1, StopKeeps DEF Fail, IInv, Typed, DataOK
  <1>2. ASSUME Fault(r) PROVE IInv'
    <2>1. stops' \in 0 .. MaxStops
      BY <1>2 DEF Fault, IInv, Typed, DataOK, CategoryAssumption
    <2> QED
      BY <1>2, <2>1, StopKeeps DEF Fault
  <1> QED
    BY <1>1, <1>2, ClaimKeeps, LoadKeeps, BatchReadKeeps, BatchWriteKeeps, EndKeeps DEF Step

\* A step that changes nothing.
LEMMA StutterKeeps ==
  ASSUME IInv, UNCHANGED vars
  PROVE  IInv'
  <1>1. QuietRuns
    BY DEF vars, QuietRuns
  <1>2. DataOK' /\ CallsOK' /\ TargetsLive' /\ FewRuns'
    BY DEF vars, IInv, Typed, DataOK, CallsOK, TargetsLive, FewRuns, Queueing
  <1> QED
    BY <1>1, <1>2, QuietKeeps DEF IInv, Typed

\* Every step keeps the invariant.
LEMMA NextKeeps ==
  ASSUME CategoryAssumption, IInv, [Next]_vars
  PROVE  IInv'
  <1>1. ASSUME Next PROVE IInv'
    <2>1. CASE \/ \E q \in Rules : DeleteRule(q) \/ \E m \in Matches : CreateRule(q, m) \/ UpdateConditions(q, m)
               \/ \E p \in Pages : RemoveExclusion(p)
               \/ ScanEnded
      BY <2>1, TriggersKeep
    <2>2. CASE \E p \in Pages : AssignManually(p) \/ UnassignManually(p) \/ TidyRead(p) \/ TidyWrite(p)
      BY <2>2, PagesKeep
    <2>3. CASE \E p \in Pages : SetWorkspaceState(p)
      BY <2>3, SetWorkspaceStateKeeps
    <2>4. CASE DeleteCategory
      BY <2>4, DeleteCategoryKeeps
    <2>5. CASE \E c \in Clients : \/ \E q \in Rules : LookSwitch(c, q)
                                  \/ \E p \in Pages : LookExclude(c, p)
                                  \/ LookArchive(c) \/ LookRecalculate(c) \/ Commit(c)
      BY <2>5, ClientsKeep
    <2>6. CASE \E r \in RunIds : Step(r) \/ Fault(r)
      BY <2>6, StepKeeps
    <2> QED
      BY <1>1, <2>1, <2>2, <2>3, <2>4, <2>5, <2>6 DEF Next
  <1> QED
    BY <1>1, StutterKeeps

\* The invariant holds of a site at rest.
LEMMA InitHolds ==
  ASSUME CategoryAssumption, Init
  PROVE  IInv
  <1>1. Free \in Runs /\ Free.pc = "free"
    BY FreeTyped
  <1>2. \A r \in RunIds : run[r] = Free /\ run[r].pc = "free"
    BY <1>1 DEF Init
  <1>3. OrderOK
    <2>1. run \in [RunIds -> Runs]
      BY <1>1 DEF Init
    <2>2. order \in Seq(RunIds) /\ ToSet(order) = {} /\ IsInjective(order)
      BY DEF Init, ToSet, IsInjective
    <2> QED
      BY <1>2, <2>1, <2>2 DEF OrderOK
  <1>4. CallsOK /\ TargetsLive /\ Queueing = {}
    BY NoCallTyped DEF Init, CallsOK, TargetsLive, Queueing, CategoryAssumption
  <1>5. FewRuns
    BY <1>4, QueueingCount, FS_EmptySet DEF FewRuns, Init
  <1>6. /\ rule \in [Rules -> RuleRows]
        /\ \A q \in Rules : rule[q].state = "active" \/ (rule[q].state = "absent" /\ rule[q].match = {})
    BY MatchesTyped DEF Init, Absent, RuleRows
  <1>7. DataOK
    <2>1. supports \subseteq SupportRows /\ assigned \subseteq Pages /\ \A s \in supports : s[1] \in assigned
      BY DEF Init, RuleSupports, SupportRows
    <2> QED
      BY <1>6, <2>1 DEF Init, DataOK, CategoryAssumption
  <1>8. RulesExist
    BY <1>6 DEF Init, RulesExist
  <1>9. RunsFaithful /\ BatchesWhole /\ RunsOrderly
    BY <1>2 DEF RunsFaithful, BatchesWhole, RunsOrderly, FaithfulRun, WholeRun, OrderlyRun
  <1>10. ASSUME NEW p \in Pages PROVE Agreed(p)
    <2>1. Of(supports, p) = {q \in Rules : p \in rule[q].match}
      BY DEF Init, RuleSupports, Of
    <2>2. Due(p) = {q \in Rules : p \in rule[q].match}
      BY <1>6 DEF Init, Due
    <2>3. p \in assigned <=> \E s \in supports : s[1] = p
      BY DEF Init
    <2> QED
      BY <2>1, <2>2, <2>3 DEF Agreed
  <1> QED
    BY <1>3, <1>4, <1>5, <1>7, <1>8, <1>9, <1>10 DEF IInv, Typed, WorkOwed

\* Every reachable state satisfies the invariant.
THEOREM Invariant == Spec => []IInv
  <1>1. Init => IInv
    BY InitHolds, CategoryAssumption
  <1>2. IInv /\ [Next]_vars => IInv'
    BY NextKeeps, CategoryAssumption
  <1> QED
    BY <1>1, <1>2, PTL DEF Spec

-----------------------------------------------------------------------------
(***************************************************************************)
(* What follows.                                                           *)
(***************************************************************************)

\* Type correctness, and with it that an assignment stands behind every support and that the
\* runs under way are just those of the order.
THEOREM TypeCorrect == Spec => []TypeOK
  <1>1. IInv => TypeOK
    BY DEF IInv, Typed, DataOK, OrderOK, CallsOK, Calls, TypeOK
  <1> QED
    BY <1>1, Invariant, PTL

\* queue_evaluation coalesces: however requests that look for a job and write later overlap,
\* the jobs of the site are at most one more than the requests there can be at a time.
THEOREM CoalescedForAll == Spec => []TriggersCoalesce
  <1>1. IInv => TriggersCoalesce
    <2> SUFFICES ASSUME IInv PROVE TriggersCoalesce
      OBVIOUS
    <2>1. Len(order) \in Nat
      BY OrderParts DEF IInv, Typed, OrderOK
    <2> QED
      BY <2>1, QueueingCount, CategoryAssumption DEF IInv, FewRuns, TriggersCoalesce
  <1> QED
    BY <1>1, Invariant, PTL

\* Once nothing is under way the automatic supports are those of the rules and exclusions as
\* they are, for every page that none of the cases the code misses has happened to.
THEOREM AgreesAtRest == Spec => []AgreesWhenIdle
  <1>1. IInv => AgreesWhenIdle
    <2> SUFFICES ASSUME IInv, Idle, NEW p \in Pages \ (suppressed \cup excused)
                 PROVE  /\ {q \in Rules : <<p, q>> \in supports} = Due(p)
                        /\ p \in assigned <=> \E s \in supports : s[1] = p
      BY DEF AgreesWhenIdle
    <2>1. ~Pending /\ \A r \in RunIds : ~Ahead(r, p) /\ ~Fixes(r, p)
      BY AtRest, CategoryAssumption DEF IInv, Idle
    <2>2. Agreed(p)
      BY <2>1 DEF IInv, WorkOwed
    <2> QED
      BY <2>2 DEF Agreed, Of
  <1> QED
    BY <1>1, Invariant, PTL

\* What a batch takes a manual support for.
LEMMA BatchKeepsManual ==
  ASSUME CategoryAssumption, IInv, NEW r \in RunIds, BatchWrite(r), NEW p \in Pages,
         <<p, Manual>> \in supports, <<p, Manual>> \notin supports'
  PROVE  p \in run[r].unsupported
  <1> DEFINE b == run[r]
  <1>1. <<p, Manual>>[1] = p /\ <<p, Manual>>[2] = Manual
    OBVIOUS
  <1>2. <<p, Manual>> \in After(b)
    <2>1. <<p, Manual>> \notin Stale(b)
      BY <1>1, BatchBounds DEF Stale
    <2> QED
      BY <2>1 DEF After
  <1>3. p \in Dropped(b)
    BY <1>1, <1>2, BatchWrites
  <1>4. CASE Wrote(b)
    BY <1>1, <1>2, <1>3, <1>4 DEF Dropped, Unsupported
  <1>5. CASE ~Wrote(b)
    BY <1>3, <1>5 DEF Dropped
  <1> QED
    BY <1>4, <1>5

\* A manual assignment goes only when the user takes it away, or with an assignment that was
\* read without any support before the user made it: no run takes it for one of its own.
THEOREM ManualIsKept == Spec => ManualKept
  <1>1. ASSUME IInv, [Next]_vars, NEW p \in Pages,
               <<p, Manual>> \in supports, <<p, Manual>> \notin supports'
        PROVE  edits' = edits + 1 \/ p \in tidying \/ \E r \in RunIds : p \in run[r].unsupported
    <2>1. supports' # supports
      BY <1>1
    <2>2. Next
      BY <1>1, <2>1 DEF vars
    <2>3. CASE \/ \E q \in Rules : DeleteRule(q) \/ \E m \in Matches : CreateRule(q, m) \/ UpdateConditions(q, m)
               \/ ScanEnded \/ DeleteCategory
      BY <2>3 DEF DeleteRule, CreateRule, UpdateConditions, ScanEnded, DeleteCategory, Edit
    <2>4. ASSUME NEW x \in Pages,
                 \/ RemoveExclusion(x) \/ AssignManually(x) \/ UnassignManually(x) \/ TidyRead(x)
                 \/ TidyWrite(x) \/ SetWorkspaceState(x)
          PROVE  edits' = edits + 1 \/ p \in tidying
      <3>1. CASE TidyWrite(x)
        <4>1. <<p, Manual>>[1] = p
          OBVIOUS
        <4> QED
          BY <1>1, <3>1, <4>1 DEF TidyWrite
      <3>2. CASE ~TidyWrite(x)
        BY <2>4, <3>2 DEF RemoveExclusion, AssignManually, UnassignManually, TidyRead,
                          SetWorkspaceState, Edit
      <3> QED
        BY <3>1, <3>2
    <2>5. ASSUME NEW c \in Clients,
                 \/ \E q \in Rules : LookSwitch(c, q)
                 \/ \E x \in Pages : LookExclude(c, x)
                 \/ LookArchive(c) \/ LookRecalculate(c) \/ Commit(c)
          PROVE  FALSE
      BY <2>1, <2>5 DEF LookSwitch, LookExclude, LookArchive, LookRecalculate, Look, Commit
    <2>6. ASSUME NEW r \in RunIds, Step(r) \/ Fault(r)
          PROVE  p \in run[r].unsupported
      <3>1. CASE BatchWrite(r)
        BY <1>1, <3>1, BatchKeepsManual, CategoryAssumption
      <3>2. CASE ~BatchWrite(r)
        BY <2>1, <2>6, <3>2 DEF Step, Fault, Claim, Load, BatchRead, Fail, Stop, Finish,
                                PersistRerun, PersistRead, PersistWrite
      <3> QED
        BY <3>1, <3>2
    <2> QED
      BY <2>2, <2>3, <2>4, <2>5, <2>6 DEF Next
  <1>2. IInv /\ [Next]_vars =>
          [\A p \in Pages :
             <<p, Manual>> \in supports /\ <<p, Manual>> \notin supports' =>
               \/ edits' = edits + 1
               \/ p \in tidying
               \/ \E r \in RunIds : p \in run[r].unsupported]_vars
    BY <1>1
  <1> QED
    BY <1>2, Invariant, PTL DEF Spec, ManualKept

=============================================================================
