--------------------------- MODULE MCDocumentWalk ---------------------------
(* Refreshes of AI Document Sources over small sites: a root index and two  *)
(* more, a text in scope and one outside, and a url without an extension.   *)
EXTENDS Naturals, FiniteSets, Sequences
D == INSTANCE DocumentWalk

LOCAL INSTANCE SequencesExt

Named == [root |-> "llms.txt", a |-> "llms.txt", b |-> "llms.txt", guide |-> "md", out |-> "md", page |-> "other"]
Roomy ==
  [maxAttempts |-> 1, maxReferences |-> 9, maxDepth |-> 4, maxIndexes |-> 9, maxDocuments |-> 9, maxRetained |-> 99,
   maxNetwork |-> 99, external |-> FALSE, saveDeclared |-> TRUE]
Never == 99

Body(size, declares) == [size |-> size, sign |-> "none", titled |-> TRUE, declares |-> declares]
Answer(url, mime, body) ==
  [failure |-> "none", status |-> 200, mime |-> mime, final |-> url, body |-> body, validators |-> TRUE, unmodified |-> "no"]
Missing(url) == [Answer(url, "html", D!NoBody) EXCEPT !.status = 404]

\* A site whose three indexes declare what the arguments say.
Site(root, a, b) ==
  [name |-> Named, inScope |-> DOMAIN Named \ {"out"}, settings |-> Roomy, previous |-> <<>>, cancelAt |-> Never,
   answers |-> [root |-> <<Answer("root", "plain", Body(3, root))>>, a |-> <<Answer("a", "plain", Body(2, a))>>,
                b |-> <<Answer("b", "plain", Body(1, b))>>, guide |-> <<Answer("guide", "markdown", Body(4, <<>>))>>,
                out |-> <<Answer("out", "markdown", Body(5, <<>>))>>, page |-> <<Answer("page", "html", Body(6, <<>>))>>]]

Declaring == {<<>>, <<"a", "b">>, <<"b", "guide", "b">>, <<"root", "a">>, <<"out", "guide", D!NoUrl, "page">>}
Sites == {Site(r, a, b) : r \in Declaring, a \in Declaring, b \in Declaring}
SomeSites == {Site(<<"a", "b">>, a, b) : a \in Declaring, b \in Declaring}

NoEntries == <<>>
Entered == [url \in {"guide", "page"} |-> [current |-> TRUE, refresh |-> 0, origins |-> <<>>]]
Refreshed(c) == D!ExecuteAiDocumentRefresh(c, "root", Entered, 1)
After(c) == Refreshed(c).walk

Urls(w) == {w.snapshots[i].url : i \in DOMAIN w.snapshots}
CountOf(s, Test(_)) == Cardinality({i \in DOMAIN s : Test(s[i])})

------------------------------------------------------------------------------
\* The shortest way to a document: through indexes that were read, by declarations to be fetched.
Reachable(c, url) == url \in c.inScope \cup (IF c.settings.external THEN {"out"} ELSE {}) /\ url \notin {D!NoUrl, "page"}
Ways(c, n) ==
  {way \in [0 .. n -> {"root", "a", "b", "guide", "out"}] :
     /\ way[0] = "root"
     /\ \A i \in 0 .. n - 1 :
          /\ way[i] \in {"root", "a", "b"} /\ Reachable(c, way[i + 1])
          /\ \E k \in DOMAIN c.answers[way[i]][1].body.declares : c.answers[way[i]][1].body.declares[k] = way[i + 1]}

\* A refresh without a budget fetches each document that its root leads to, within the depth,
\* once, and at its least depth; every declaration of an index that was read is a reference, and
\* is linked to the one snapshot of its target.
ASSUME WalkReaches ==
  \A site \in Sites, settings \in {Roomy, [Roomy EXCEPT !.maxDepth = 1], [Roomy EXCEPT !.external = TRUE]} :
    LET c == [site EXCEPT !.settings = settings]
        w == After(c)
        Depths(url) == {n \in 0..3 : n =< settings.maxDepth /\ \E way \in Ways(c, n) : way[n] = url}
    IN /\ \A i, k \in DOMAIN w.snapshots : w.snapshots[i].url = w.snapshots[k].url => i = k
       /\ Urls(w) = {url \in DOMAIN Named : Depths(url) # {}}
       /\ \A i \in DOMAIN w.snapshots :
            /\ w.snapshots[i].depth \in Depths(w.snapshots[i].url)
            /\ \A n \in Depths(w.snapshots[i].url) : n >= w.snapshots[i].depth
       /\ \A r \in {w.references[i] : i \in DOMAIN w.references} :
            IF r.url \in Urls(w) THEN w.snapshots[r.child].url = r.url ELSE r.child = 0
       /\ \A i \in DOMAIN w.snapshots : LET body == w.snapshots[i].body IN
            [k \in DOMAIN body.declares |-> body.declares[k]]
              = LET own == SelectSeq(w.references, LAMBDA r : r.parent = i) IN [k \in DOMAIN own |-> own[k].url]
       /\ w.stop = "none"

\* The way by which a document was first reached: its parents, back to the root.
RECURSIVE WayTo(_, _)
WayTo(w, i) ==
  LET from == {r \in {w.references[k] : k \in DOMAIN w.references} : r.url = w.snapshots[i].url /\ r.parent < i}
      first == CHOOSE r \in from : \A q \in from : r.parent =< q.parent
  IN IF i = 1 THEN {"root"} ELSE {w.snapshots[i].url} \cup WayTo(w, first.parent)

\* A declaration forms a cycle where its target lies on the way its document was first reached by.
ASSUME CyclesOnTheWay ==
  \A c \in Sites : LET w == After(c) IN
    \A r \in {w.references[i] : i \in DOMAIN w.references} : r.cycle <=> r.url \in WayTo(w, r.parent)

\* So two indexes that declare each other, and are both declared by the root, form none.
ASSUME CycleUnseen ==
  \E c \in SomeSites : LET w == After(c) IN
    \E r, q \in {w.references[i] : i \in DOMAIN w.references} :
      /\ ~r.cycle /\ ~q.cycle
      /\ r.url = "a" /\ q.url = "b" /\ w.snapshots[r.parent].url = "b" /\ w.snapshots[q.parent].url = "a"

------------------------------------------------------------------------------
Tight ==
  {[Roomy EXCEPT !.maxDocuments = n] : n \in 1..3} \cup {[Roomy EXCEPT !.maxRetained = n] : n \in 3..5}
    \cup {[Roomy EXCEPT !.maxNetwork = n] : n \in {3, 6}} \cup {[Roomy EXCEPT !.maxIndexes = n] : n \in 1..2}
    \cup {[Roomy EXCEPT !.maxReferences = 1]}
Cuts(c) == {[c EXCEPT !.settings = s] : s \in Tight} \cup {[c EXCEPT !.cancelAt = n] : n \in 0..6}

KeptSizes(w) == {<<i, w.snapshots[i].body.size>> : i \in DOMAIN w.snapshots}
RECURSIVE Total(_)
Total(pairs) == IF pairs = {} THEN 0 ELSE LET p == CHOOSE x \in pairs : TRUE IN p[2] + Total(pairs \ {p})

\* What a limit or a cancellation cuts short has recorded, in the same order, a part of what the
\* whole refresh records; it keeps to the budgets, says why it stopped, and its counters are
\* those of its rows.
ASSUME CutShort ==
  \A site \in SomeSites : \A c \in Cuts(site) :
    LET whole == After(site)
        w == After(c)
        Rows(Test(_)) == CountOf(w.snapshots, Test)
    IN /\ \A i \in DOMAIN w.snapshots : w.snapshots[i].url \in Urls(whole)
       /\ c.settings.maxReferences = 9 /\ c.settings.maxIndexes = 9
            => [i \in DOMAIN w.snapshots |-> w.snapshots[i].url]
                 = [i \in DOMAIN w.snapshots |-> whole.snapshots[i].url]
       /\ Len(w.snapshots) =< c.settings.maxDocuments
       /\ w.retained = Total(KeptSizes(w)) /\ w.retained =< c.settings.maxRetained
       /\ w.status = "cancelled" <=> w.stop = "cancelled_by_user"
       /\ w.status = "completed" => w.stop = "none" /\ w.warnings = 0
       /\ w.stop = "none" /\ c.settings = Roomy => w.snapshots = whole.snapshots /\ w.references = whole.references
       /\ Len(w.snapshots) < Len(whole.snapshots) /\ c.settings.maxReferences = 9 /\ c.settings.maxIndexes = 9
            => w.stop # "none" /\ w.status # "completed"
       /\ w.stats.discovered = Len(w.snapshots) /\ w.stats.references = Len(w.references)
       /\ w.stats.saved = Rows(LAMBDA s : s.state = "saved")
       /\ w.stats.fetched - w.stats.saved = Rows(LAMBDA s : s.state \in {"metadata_only", "not_found", "http_error"})
       /\ w.stats.cycles = CountOf(w.references, LAMBDA r : r.cycle)

\* The limit on indexes keeps what an index declares out of the queue; those queued already are
\* read all the same.  And one index allowed means that nothing the root declares is fetched.
ASSUME IndexLimit ==
  /\ \E c \in SomeSites : After([c EXCEPT !.settings.maxIndexes = 2]).indexes > 2
  /\ \A c \in SomeSites : Urls(After([c EXCEPT !.settings.maxIndexes = 1])) = {"root"}

\* The current inventory is what this refresh declared, in scope, and that is no index; an entry
\* it did not come to is retired, also by a refresh that was cancelled or found no root.
ASSUME InventoryReplaced ==
  /\ \A site \in SomeSites : \A c \in Cuts(site) :
       LET end == Refreshed(c)
           declared == {end.walk.references[i].url : i \in DOMAIN end.walk.references}
       IN {url \in DOMAIN end.entries : end.entries[url].current} = declared \cap {"guide", "page"}
  /\ \E c \in SomeSites :
       LET cancelled == Refreshed([c EXCEPT !.cancelAt = 3])
       IN cancelled.walk.status = "cancelled" /\ Refreshed(c).entries["guide"].current /\ ~cancelled.entries["guide"].current
  /\ \A c \in SomeSites :
       LET gone == Refreshed([c EXCEPT !.answers.root = <<Missing("root")>>])
       IN \A url \in DOMAIN gone.entries : ~gone.entries[url].current

------------------------------------------------------------------------------
Unmodified(c, mimes) ==
  [c EXCEPT !.previous = After(c).snapshots,
            !.answers = [url \in DOMAIN @ |-> <<[@[url][1] EXCEPT !.unmodified = IF mimes THEN c.answers[url][1].mime ELSE "none"]>>]]

\* A site that says it is unchanged is recorded as it was, from the bodies kept before: the same
\* documents, declarations and entries, and nothing is transferred for what was kept.
ASSUME Revalidated ==
  \A c \in SomeSites :
    LET before == Refreshed(c)
        after == Refreshed(Unmodified(c, TRUE))
    IN /\ after.entries = before.entries /\ after.walk.references = before.walk.references
       /\ [i \in DOMAIN after.walk.snapshots |-> [after.walk.snapshots[i] EXCEPT !.change = "new"]] = before.walk.snapshots
       /\ \A i \in DOMAIN after.walk.snapshots : after.walk.snapshots[i].change = "unchanged" \/ after.walk.snapshots[i].state # "saved"
       /\ after.walk.network = 0 /\ after.walk.retained = before.walk.retained

\* A 304 that repeats no mime is classified by the name alone: a document whose name says nothing
\* is recorded as unchanged, and its body is not kept any more.
Unnamed(c) == [c EXCEPT !.name.guide = "txt", !.answers.guide = <<[@[1] EXCEPT !.mime = "markdown"]>>]
ASSUME BareRevalidation ==
  \A c \in {Unnamed(s) : s \in Sites} :
    LET before == After(c)
        after == After(Unmodified(c, FALSE))
    IN \A i \in DOMAIN after.snapshots : after.snapshots[i].url = "guide" =>
         /\ before.snapshots[i].state = "saved"
         /\ after.snapshots[i].change = "unchanged" /\ after.snapshots[i].state = "metadata_only"
         /\ after.snapshots[i].body = D!NoBody

\* Another answer in between is kept out of the comparison: only a body that was kept is compared.
ASSUME ComparedWithKept ==
  \A c \in SomeSites, other \in {Body(4, <<>>), Body(7, <<>>)} :
    LET lost == [c EXCEPT !.previous = After(c).snapshots, !.answers.guide = <<Missing("guide")>>]
        back == [c EXCEPT !.previous = After(c).snapshots \o After(lost).snapshots, !.answers.guide = <<[@[1] EXCEPT !.body = other]>>]
        w == After(back)
    IN \A i \in DOMAIN w.snapshots : w.snapshots[i].url = "guide" =>
         w.snapshots[i].change = IF other = Body(4, <<>>) THEN "unchanged" ELSE "changed"

Outcomes == {[Missing("guide") EXCEPT !.status = s] : s \in {404, 503}}
  \cup {Answer("guide", "markdown", Body(4, <<>>)), [Missing("guide") EXCEPT !.failure = "transport", !.status = 0]}

\* A transient failure is met with another attempt, while one is left; anything else is final.
ASSUME Retried ==
  \A first, second \in Outcomes, n \in 1..2 :
    LET c == [Site(<<"guide">>, <<>>, <<>>) EXCEPT !.answers.guide = <<first, second>>, !.settings.maxAttempts = n]
        w == After(c)
        final == IF n = 2 /\ (first.failure = "transport" \/ first.status = 503) THEN second ELSE first
    IN /\ w.snapshots[2].state = CASE final.failure = "transport" -> "failed" [] final.status = 200 -> "saved"
                                   [] final.status = 404 -> "not_found" [] OTHER -> "http_error"
       /\ w.polls = 3 + (IF final = first /\ ~(n = 2 /\ first = second /\ (first.failure = "transport" \/ first.status = 503)) THEN 1 ELSE 2)

------------------------------------------------------------------------------
\* The tree shows every document once, and counts every linked declaration at its target.
ASSUME TreeWhole ==
  \A c \in SomeSites : LET w == After(c)
                           tree == D!GetAiTree(w)
    IN /\ {tree[i].snapshot : i \in DOMAIN tree} = DOMAIN w.snapshots /\ Len(tree) = Len(w.snapshots)
       /\ \A i \in DOMAIN tree : i > 1 => w.snapshots[tree[i - 1].snapshot].depth =< w.snapshots[tree[i].snapshot].depth
       /\ Total({<<i, tree[i].parents>> : i \in DOMAIN tree}) = CountOf(w.references, LAMBDA r : r.child # 0)
       /\ \A i \in DOMAIN tree : tree[i].snapshot # 1 => tree[i].parents > 0

KeptRows == [source: {1, 2}, body: {D!NoBody, Body(1, <<>>), Body(2, <<>>)}]
\* What the preview of a deletion announces is what goes, and what stays has its body still.
ASSUME DeletionAnnounced ==
  \A rows \in SUBSET KeptRows :
    LET gone == D!OrphanBlobs(rows, 1)
        said == D!PreviewAiSourceDeletion(rows, 1)
    IN /\ said.exclusive = Cardinality(gone) /\ said.unique = said.shared + said.exclusive
       /\ said.reclaimable = Total({<<b, b.size>> : b \in gone})
       /\ \A r \in rows : r.source = 2 => r.body \notin gone

\* Every place a document may be at is asked once, under the first name it goes by, whatever else
\* names it; those configured before are told apart from the others by the url that was asked.
Homes == [links: [1..2 -> {"root", "a", "guide"} \X {"llms-txt", "none"}], hint: {"a", D!NoUrl}]
ASSUME CandidatesOnce ==
  \A home \in Homes, c \in {Site(<<>>, <<>>, <<>>), [Site(<<>>, <<>>, <<>>) EXCEPT !.answers.b = <<Missing("b")>>]} :
    LET found == D!DiscoverAiDocumentSources(c, "root", "b", home, {"root"})
        named == {home.links[i][1] : i \in {k \in 1..2 : home.links[k][2] # "none"}} \cup ({home.hint} \ {D!NoUrl})
    IN /\ {found[i].url : i \in DOMAIN found} = {"root", "b"} \cup named
       /\ \A i, k \in DOMAIN found : found[i].url = found[k].url => i = k
       /\ found[1].method = "conventional_root" /\ found[2].method = "well_known"
       /\ \A i \in DOMAIN found : found[i].configured <=> found[i].url = "root"
       /\ \A i \in DOMAIN found : found[i].status = IF found[i].url = "b" /\ c.answers.b[1].status = 404 THEN "not_found" ELSE "found"
=============================================================================
