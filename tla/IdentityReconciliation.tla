----------------------- MODULE IdentityReconciliation -----------------------
(***************************************************************************)
(* The reconciliation of a database of historical URL identities with the   *)
(* current normalization: how the retained evidence classifies a resource,  *)
(* what an operator has to decide, and what the migration makes of it.      *)
(*                                                                         *)
(* A database is a record: its resources, the rows of evidence that refer   *)
(* to them, the pages of one site with what people put there, and what is   *)
(* derived.  Rows differ by what the migration updates: "plain" rows        *)
(* refer to a resource, "listed" ones repeat its URL, a "seed" is a listed  *)
(* row of one scan, and an "origin" belongs to a seed.  Each page has one   *)
(* owner, category, exclusion and note at most, and one rule assigns the    *)
(* category.  Fingerprints are compared by what they are taken of.          *)
(***************************************************************************)
EXTENDS Naturals, FiniteSets, FiniteSetsExt, Folds, Functions, TLC

CONSTANTS
  Urls,      \* the spellings of URLs that occur
  NoUrl,     \* what no normalization accepts
  V1, V2,    \* the two normalizations, of every spelling
  WithQuery, \* the spellings with a query
  Matching,  \* the URLs the category's rule matches
  Ids,       \* resource numbers
  Rows,      \* row numbers
  Pages      \* page numbers

ASSUME ReconciliationAssumption ==
  /\ NoUrl \notin Urls
  /\ V1 \in [Urls -> Urls \cup {NoUrl}] /\ V2 \in [Urls -> Urls \cup {NoUrl}]
  /\ \A u \in Urls : V2[u] # NoUrl => V2[V2[u]] = V2[u]
  /\ WithQuery \subseteq Urls /\ Matching \subseteq Urls
  /\ \A S \in {Ids, Rows, Pages} : S \subseteq Nat \ {0} /\ IsFiniteSet(S)

-----------------------------------------------------------------------------
NoResource == [version |-> "none", url |-> NoUrl]

NoRow == [kind |-> "none", raw |-> NoUrl, url |-> NoUrl, resource |-> 0, seed |-> 0]

NoPage == [resource |-> 0, owner |-> 0, assigned |-> FALSE, manual |-> FALSE, rule |-> FALSE,
           excluded |-> FALSE, note |-> FALSE]

Used(S, nothing) == {x \in DOMAIN S : S[x] # nothing}

Resources(db) == Used(db.resource, NoResource)
Evidence(db) == Used(db.row, NoRow)
Workspace(db) == Used(db.page, NoPage)

\* An origin belongs to the resource of its seed.
ResourceOf(db, row) ==
  IF db.row[row].kind = "origin" THEN db.row[db.row[row].seed].resource ELSE db.row[row].resource

RowsOf(db, r) == {row \in Evidence(db) : ResourceOf(db, row) = r}

PagesAt(db, r) == {p \in Workspace(db) : db.page[p].resource = r}

-----------------------------------------------------------------------------
(* What the evidence says of a resource.                                   *)

\* _evidence_by_resource
Observed(db, r) == {V2[db.row[row].raw] : row \in RowsOf(db, r)} \ {NoUrl}

Unreadable(db, r) == \E row \in RowsOf(db, r) : V2[db.row[row].raw] = NoUrl

Baseline(db, r) == V2[db.resource[r].url]

Merged(db, r) ==
  Baseline(db, r) # NoUrl /\ \E s \in Resources(db) \ {r} : Baseline(db, s) = Baseline(db, r)

\* The classes of export_manifest, the first that applies.
Class(db, r) ==
  LET url == db.resource[r].url
      seen == Observed(db, r)
      base == Baseline(db, r)
  IN IF Merged(db, r) THEN "candidate_v2_merge"
     ELSE IF Cardinality(seen) > 1 THEN "split"
     ELSE IF base = NoUrl \/ (seen = {} /\ Unreadable(db, r)) THEN "insufficient_provenance"
     ELSE IF base # url \/ ~(seen \subseteq {base}) THEN "rekey"
     ELSE IF url \in WithQuery /\ seen = {} THEN "insufficient_provenance" ELSE "unchanged"

Candidates(db, r) == IF Observed(db, r) = {} THEN {Baseline(db, r)} ELSE Observed(db, r)

OfClass(db, classes) == {r \in Resources(db) : Class(db, r) \in classes}

Affected(db) == OfClass(db, {"rekey", "split"})

\* The audit's verdict over all resources; pages make a split a matter of judgement.
Severity(db) ==
  IF OfClass(db, {"candidate_v2_merge"}) # {} THEN "CANDIDATE_MERGE_REQUIRES_REVIEW"
  ELSE IF \E r \in OfClass(db, {"split"}) : PagesAt(db, r) # {} THEN "SPLIT_WITH_AMBIGUOUS_WORKSPACE_STATE"
  ELSE IF OfClass(db, {"split"}) # {} THEN "SPLIT_MECHANICALLY_RECOVERABLE"
  ELSE IF OfClass(db, {"insufficient_provenance"}) # {} THEN "INSUFFICIENT_PROVENANCE" ELSE "SAFE_TO_REKEY"

-----------------------------------------------------------------------------
(* The manifest and an operator's decisions.                               *)

Fields == {"owner", "category", "exclusion", "note"}

Verdict(action, targets) == [action |-> action, targets |-> targets]

Open == [primary |-> NoUrl, field |-> [f \in Fields |-> Verdict("UNRESOLVED", {})]]

\* What a page has to be decided about: an owner always, the rest where there is any.
ToDecide(page) ==
  {"owner"} \cup (IF page.assigned THEN {"category"} ELSE {})
            \cup (IF page.excluded THEN {"exclusion"} ELSE {})
            \cup (IF page.note THEN {"note"} ELSE {})

\* _validate_decision: a note goes somewhere.
ValidVerdict(v, candidates, f) ==
  /\ v.targets \subseteq candidates
  /\ CASE v.action = "ASSIGN"    -> Cardinality(v.targets) = 1
       [] v.action = "DUPLICATE" -> Cardinality(v.targets) > 1
       [] v.action = "RESET"     -> v.targets = {} /\ f # "note"
       [] OTHER                  -> FALSE

\* export_manifest: what the database held, and nothing decided.
Exported(db) ==
  [resource |-> db.resource, row |-> db.row, page |-> db.page, derived |-> db.derived,
   decision |-> [p \in Pages |-> Open]]

ResolvedPage(manifest, p) ==
  LET d == manifest.decision[p]
      candidates == Candidates(manifest, manifest.page[p].resource)
  IN d.primary \in candidates /\ \A f \in ToDecide(manifest.page[p]) : ValidVerdict(d.field[f], candidates, f)

SplitPages(manifest) == {p \in Workspace(manifest) : Class(manifest, manifest.page[p].resource) = "split"}

\* validate_manifest: the database is the one exported, nothing merges, and all is decided.
ValidManifest(manifest, db) ==
  /\ <<manifest.resource, manifest.row, manifest.page, manifest.derived>>
       = <<db.resource, db.row, db.page, db.derived>>
  /\ OfClass(manifest, {"candidate_v2_merge"}) = {}
  /\ \A p \in SplitPages(manifest) : ResolvedPage(manifest, p)

\* What rebase_manifest compares before it carries a decision over.
SameGroup(old, new, p) ==
  LET r == new.page[p].resource
  IN /\ old.page[p] = new.page[p] /\ old.resource[r] = new.resource[r]
     /\ Class(old, r) = Class(new, r) /\ Candidates(old, r) = Candidates(new, r)

Rebased(old, db) ==
  LET new == Exported(db)
  IN [new EXCEPT !.decision =
        [p \in Pages |-> IF p \in Workspace(new) /\ SameGroup(old, new, p) THEN old.decision[p] ELSE Open]]

-----------------------------------------------------------------------------
(* The migration of a database, in one transaction.                        *)

Failed == [error |-> "failed"]

Free(S, nothing) == DOMAIN S \ Used(S, nothing)

\* A number of a table for each new candidate.
Fresh(table, nothing, new) == CHOOSE f \in Injection(new, Free(table, nothing)) : TRUE

\* Numbers do not run out: a migration that needs more of them than there are here is taken
\* to fail.
Fits(db, candidates, origins) ==
  /\ Cardinality(candidates) <= Cardinality(Free(db.resource, NoResource)) + 1
  /\ Cardinality(origins) <= Cardinality(Free(db.row, NoRow))

\* What op makes of the elements of S one after the other, by their numbers.
InOrder(op(_, _), start, S) == MapThenFoldSet(LAMBDA x, done : op(done, x), start, LAMBDA x : x, Max, S)

\* The resource of each candidate: the primary one keeps the number, others get new ones.
Numbered(db, r, primary, candidates) ==
  LET new == Fresh(db.resource, NoResource, candidates \ {primary})
  IN [c \in candidates |-> IF c = primary THEN r ELSE new[c]]

Primaries(manifest, r) == {manifest.decision[p].primary : p \in PagesAt(manifest, r)}

Renamed(resource, number) ==
  [r \in Ids |-> IF \E c \in DOMAIN number : number[c] = r
                 THEN [version |-> "V2", url |-> CHOOSE c \in DOMAIN number : number[c] = r]
                 ELSE resource[r]]

\* _apply_attributions: rows follow their own spelling; one that cannot be read stays.
Attributed(row, rows, number) ==
  [x \in Rows |->
     LET url == IF x \in rows /\ row[x].kind # "origin" THEN V2[row[x].raw] ELSE NoUrl
     IN IF url = NoUrl THEN row[x]
        ELSE [row[x] EXCEPT !.resource = number[url],
                            !.url = IF row[x].kind = "plain" THEN @ ELSE url]]

\* Mutant of OriginMoved: an origin stays with the seed it had.
OriginStays(row, origin, number) == row

\* _reconcile_seed_origins: an origin goes to the scan's seed of its own spelling, which is
\* made if there is none.
OriginMoved(row, origin, number) ==
  LET url == V2[row[origin].raw]
      seeds == {x \in Used(row, NoRow) : row[x].kind = "seed" /\ row[x].url = url}
      new == Min(Free(row, NoRow))
  IN IF seeds # {} THEN [row EXCEPT ![origin].seed = Min(seeds)]
     ELSE [row EXCEPT ![new] = [kind |-> "seed", raw |-> url, url |-> url, resource |-> number[url], seed |-> 0],
                      ![origin].seed = new]

OriginsMoved(start, origins, number) == InOrder(LAMBDA row, o : OriginMoved(row, o, number), start, origins)

Origins(db, rows) == {row \in rows : db.row[row].kind = "origin" /\ V2[db.row[row].raw] # NoUrl}

\* _site_page_ids_for_candidates and what of the old page each new one is given.  Only manual
\* support is carried; a rule's is found again by evaluating the rule.
NewPage(manifest, p, candidate, id) ==
  LET old == manifest.page[p]
      given == {f \in Fields : candidate \in manifest.decision[p].field[f].targets}
      assigned == old.assigned /\ "category" \in given
      excluded == old.excluded /\ "exclusion" \in given
      matches == candidate \in Matching /\ ~excluded
  IN [resource |-> id, owner |-> IF "owner" \in given THEN old.owner ELSE 0,
      assigned |-> assigned \/ matches, manual |-> assigned /\ old.manual, rule |-> matches,
      excluded |-> excluded, note |-> old.note /\ "note" \in given]

SplitPage(page, manifest, p, number) ==
  LET primary == manifest.decision[p].primary
      place == (primary :> p) @@ Fresh(page, NoPage, DOMAIN number \ {primary})
  IN [q \in Pages |->
        IF \E c \in DOMAIN place : place[c] = q
        THEN LET c == CHOOSE d \in DOMAIN place : place[d] = q IN NewPage(manifest, p, c, number[c])
        ELSE page[q]]

PagesSplit(start, manifest, pages, number) ==
  InOrder(LAMBDA page, p : SplitPage(page, manifest, p, number), start, pages)

\* One group.  Nobody has to have chosen the primary candidate of a resource without pages.
GroupApplied(manifest, db, r) ==
  LET candidates == Candidates(manifest, r)
      chosen == Primaries(manifest, r)
      split == Class(manifest, r) = "split"
      rows == RowsOf(manifest, r)
      origins == Origins(manifest, rows)
      primary == IF split /\ chosen # {} THEN CHOOSE c \in chosen : TRUE ELSE CHOOSE c \in candidates : TRUE
      number == Numbered(db, r, primary, candidates)
  IN IF db = Failed \/ (split /\ Cardinality(chosen) > 1) \/ ~Fits(db, candidates, origins) THEN Failed
     ELSE [db EXCEPT
             !.resource = Renamed(db.resource, number),
             !.row = OriginsMoved(Attributed(db.row, rows, number), origins, number),
             !.page = IF split THEN PagesSplit(db.page, manifest, PagesAt(manifest, r), number) ELSE db.page]

GroupsApplied(manifest, start, S) == InOrder(LAMBDA db, r : GroupApplied(manifest, db, r), start, S)

\* All historical resources but those the manifest affects or cannot tell about keep their
\* URL and become current ones, whether or not the manifest knew them.
Relabelled(manifest, db) ==
  LET other == Affected(manifest) \cup OfClass(manifest, {"insufficient_provenance"})
  IN [db EXCEPT !.resource = [r \in Ids |-> IF db.resource[r].version = "V1" /\ r \notin other
                                            THEN [db.resource[r] EXCEPT !.version = "V2"] ELSE db.resource[r]]]

Unique(db) ==
  \A r, s \in Resources(db) : r # s => db.resource[r] # db.resource[s]

\* The rows that refer to an affected resource are deleted, to be built again.
Applied(manifest, db) ==
  LET done == GroupsApplied(manifest, Relabelled(manifest, db), Affected(manifest))
  IN IF done = Failed \/ ~Unique(done) THEN Failed
     ELSE [done EXCEPT !.derived = @ \ Affected(manifest)]

\* The scan's projection lists the resources it has snapshots of.
Projected(db) == {db.row[row].resource : row \in {x \in Evidence(db) : db.row[x].kind = "plain"}}

\* invariant_snapshot: rows of evidence, by table.
Counts(db) == [kind \in {"plain", "listed", "seed", "origin"} |->
                 Cardinality({row \in Evidence(db) : db.row[row].kind = kind})]

SeedsMade(manifest, db, done) == Counts(done)["seed"] - Counts(db)["seed"]

\* verify_simulation and the count of historical resources left.
Verified(manifest, before, db, done) ==
  /\ [before EXCEPT !["seed"] = @ + SeedsMade(manifest, db, done)] = Counts(done)
  /\ Cardinality({r \in Resources(done) : done.resource[r].version = "V1"})
       = Cardinality(OfClass(manifest, {"insufficient_provenance"}))
=============================================================================
