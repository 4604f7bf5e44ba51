------------------------------- MODULE MCReads -------------------------------
(* What the read side answers, checked over small scans: a scan read from its *)
(* evidence and from its projection gives one graph, except where it does not. *)
EXTENDS PageChanges, Integers, Sequences, FiniteSets, TLC

G == INSTANCE LinkGraph
R == INSTANCE ResourceInventory
P == INSTANCE PageLists
C == INSTANCE ChangeReads

Url(r) == [of |-> r, slash |-> r = 1]

\* Four resources, the last one on another host; three were fetched.
Places == <<[url |-> 2, host |-> 1, path |-> <<>>], [url |-> 1, host |-> 1, path |-> <<1>>],
            [url |-> 3, host |-> 1, path |-> <<1, 2>>], [url |-> 4, host |-> 2, path |-> <<3>>]>>

Fetched(id, r, depth) ==
  [id |-> id, resource |-> r, requested |-> Url(r), final |-> Url(r), depth |-> depth, status |-> 200,
   state |-> "fetched", error |-> G!Null, html |-> TRUE,
   capture |-> IF id = 13 THEN "completed" ELSE "not_requested", at |-> id]

Failed(s) == [s EXCEPT !.status = G!Null, !.state = "failed", !.error = 1, !.final = G!NoUrl]

Link(id, source, target, anchor, dom) ==
  [id |-> id, source |-> source, target |-> target, inScope |-> target # 1, anchor |-> anchor,
   nofollow |-> id = 2, dom |-> dom, role |-> IF dom = {} THEN "body" ELSE "navigation"]

\* Two links of one edge, a chain, a way back, one out of the scan, one to itself, one to nothing.
AllLinks ==
  {Link(1, 13, 2, 1, {"nav", "header"}), Link(2, 13, 2, G!Null, {"main"}), Link(3, 12, 3, 1, {}),
   Link(4, 11, 1, 2, {"footer"}), Link(5, 13, 4, 1, {}), Link(6, 12, 2, 1, {"aside"}), Link(7, 12, G!Null, 2, {})}

Scan(links, third, origins) ==
  [resources |-> Places, snapshots |-> {Fetched(13, 1, 0), Fetched(12, 2, 1), third}, links |-> links,
   seeds |-> {[id |-> 1, resource |-> 1, origins |-> origins]}, start |-> Url(1)]

Thirds == {Fetched(11, 3, 1), Failed(Fetched(11, 3, 2))}
Document == [Fetched(11, 3, 1) EXCEPT !.html = FALSE]

Scans0 == {Scan(links, third, 1) : links \in SUBSET AllLinks, third \in Thirds}
\* Only HTML has links.
Wide == Scans0 \cup {Scan(links, Document, 1) : links \in SUBSET (AllLinks \ {Link(4, 11, 1, 2, {"footer"})})}

Open == [maxNodes |-> 4, maxEdges |-> 9, minDepth |-> G!Null, maxDepth |-> G!Null, host |-> G!Null,
         path |-> <<>>, status |-> "any", state |-> "any", errors |-> "any", minInbound |-> G!Null,
         minOutbound |-> G!Null, selfLinks |-> TRUE, unfetched |-> FALSE, focus |-> G!Null, hops |-> 1]

Filters ==
  {[Open EXCEPT !.maxNodes = n, !.unfetched = u] : n \in 1..4, u \in BOOLEAN} \cup
  {[Open EXCEPT !.maxEdges = n, !.selfLinks = n = 1] : n \in 1..2} \cup
  {[Open EXCEPT !.minDepth = 1], [Open EXCEPT !.maxDepth = 0], [Open EXCEPT !.path = <<1>>],
   [Open EXCEPT !.status = "none"], [Open EXCEPT !.errors = "without_errors"],
   [Open EXCEPT !.minInbound = 1, !.unfetched = TRUE], [Open EXCEPT !.minOutbound = 1],
   [Open EXCEPT !.host = 2, !.unfetched = TRUE]} \cup
  {[Open EXCEPT !.focus = 12, !.hops = h, !.maxNodes = n, !.selfLinks = h = 1] : h \in 1..2, n \in 1..3}

------------------------------------------------------------------------------
NodesOf(graph) == {graph.nodes[i] : i \in DOMAIN graph.nodes}
EdgesOf(graph) == {graph.edges[i] : i \in DOMAIN graph.edges}
SumOf(f) == LET S[D \in SUBSET DOMAIN f] == IF D = {} THEN 0 ELSE LET x == CHOOSE y \in D : TRUE IN f[x] + S[D \ {x}]
            IN S[DOMAIN f]

\* Whatever is asked of a graph: the limits hold, edges connect nodes of the answer, each occurrence is in
\* one region, and an answer that names no reason is all there is among its nodes.
Sound(e, f, graph) ==
  LET nodes == NodesOf(graph)
      edges == EdgesOf(graph)
      ids == {n.snapshot : n \in nodes}
  IN /\ Len(graph.nodes) =< f.maxNodes /\ Len(graph.edges) =< f.maxEdges
     /\ \A x \in edges :
          /\ x.source \in ids
          /\ IF x.target # G!Null THEN x.target \in ids
             ELSE \E n \in nodes : n.snapshot = G!Null /\ n.resource = x.resource
          /\ SumOf(x.dom) = x.occurrences /\ x.follow + x.nofollow = x.occurrences
          /\ x.anchors + x.empty =< x.occurrences
     /\ graph.reasons = {} =>
          \A o \in e.links :
            o.source \in ids /\ (\E n \in nodes : n.resource = o.target)
            /\ (f.selfLinks \/ \A n \in nodes : n.resource = o.target => n.snapshot # o.source)
              => \E x \in edges : x.source = o.source /\ x.resource = o.target

ASSUME GraphSound ==
  \A e \in Wide, f \in Filters :
    \A graph \in {G!DynamicGraph(e, f)} \cup G!ProjectedGraphs(e, f) : Sound(e, f, graph)

\* A projection answers what the evidence answers, but for the metrics of discovered nodes and
\* the reason that goes with them, where nothing sets the two apart: every snapshot is a page,
\* every seed has one origin, no filter by links out of pages whose links lead nowhere, no
\* filter that hides fetched pages while discovered ones are asked for, and no neighbourhood
\* larger than the graph.
Comparable(graph) ==
  [graph EXCEPT !.nodes = [i \in DOMAIN @ |-> IF @[i].snapshot = G!Null THEN [@[i] EXCEPT !.metrics = G!NoMetrics] ELSE @[i]],
                !.reasons = @ \ {"unfetched_node_limit"}]

Agree(e, f) == \E graph \in G!ProjectedGraphs(e, f) : Comparable(graph) = Comparable(G!DynamicGraph(e, f))

Unfiltered(f) == [f EXCEPT !.maxNodes = Open.maxNodes, !.maxEdges = Open.maxEdges, !.selfLinks = TRUE, !.unfetched = FALSE] = Open
OnlyPages(e) == \A s \in e.snapshots : G!IsPage(s)
OneOrigin(e) == \A d \in e.seeds : d.origins = 1
NoneShown(e, f) == f.minOutbound # G!Null => \A o \in e.links : o.target # G!Null
NoneHidden(e, f) == f.unfetched => Unfiltered(f) /\ f.maxNodes >= Cardinality(e.snapshots)

\* What is within so many links of a snapshot, by walks instead of by rounds.
Ball(e, id, hops) ==
  {t.id : t \in {x \in e.snapshots :
     \E walk \in [1..(hops + 1) -> {s.id : s \in e.snapshots}] :
       /\ walk[1] = id /\ walk[hops + 1] = x.id
       /\ \A i \in 1..hops : walk[i] = walk[i + 1] \/ \E o \in e.links :
            \/ o.source = walk[i] /\ o.target = G!Snapshot(e, walk[i + 1]).resource
            \/ o.source = walk[i + 1] /\ o.target = G!Snapshot(e, walk[i]).resource}}

NoneCut(e, f) == f.focus # G!Null => Cardinality(Ball(e, f.focus, f.hops)) < f.maxNodes

ASSUME ProjectionAgrees ==
  \A e \in Wide, f \in Filters :
    OnlyPages(e) /\ OneOrigin(e) /\ NoneShown(e, f) /\ NoneHidden(e, f) /\ NoneCut(e, f) => Agree(e, f)

\* Each of the conditions is needed: a document that was fetched, a seed that two lists name, a
\* link that leads nowhere, a resource whose page does not pass, pages that all do not pass, and
\* the one node left of a neighbourhood.
ASSUME ProjectionDiffers ==
  LET page == Fetched(11, 3, 1)
  IN /\ ~Agree(Scan({}, Document, 1), Open)
     /\ ~Agree(Scan({}, page, 2), Open)
     /\ ~Agree(Scan({Link(7, 12, G!Null, 2, {})}, page, 1), [Open EXCEPT !.minOutbound = 1])
     /\ ~Agree(Scan({Link(3, 12, 3, 1, {})}, page, 1), [Open EXCEPT !.maxDepth = 0, !.unfetched = TRUE])
     /\ ~Agree(Scan({Link(5, 13, 4, 1, {})}, page, 1), [Open EXCEPT !.minDepth = 3, !.unfetched = TRUE])
     /\ ~Agree(Scan({Link(1, 13, 2, 1, {})}, page, 1), [Open EXCEPT !.focus = 12, !.maxNodes = 1])

\* Rounds of neighbours make the ball, unless it is cut; what is cut is still around the focus.
ASSUME FocusIsBall ==
  \A e \in Wide, f \in {x \in Filters : x.focus # G!Null} :
    LET ball == Ball(e, f.focus, f.hops)
        dynamic == G!FocusSnapshotIds(e, f)
    IN /\ f.focus \in dynamic /\ dynamic \subseteq ball /\ Cardinality(dynamic) =< f.maxNodes
       /\ Cardinality(ball) =< f.maxNodes => dynamic = ball
       /\ OnlyPages(e) => \A seen \in G!ProjectedFocusIds(e, f) : seen \subseteq ball /\ (Cardinality(ball) < f.maxNodes => seen = ball)

\* The pages of an edge's occurrences, put together, are all of them, once.
ASSUME OccurrencesPaged ==
  \A e \in Scans0, size \in 1..2 :
    LET page(n) == G!EdgeOccurrences(e, 13, 2, size, n * size)
        links == G!Between(e, 13, 2)
    IN links # {} => page(0).items \o page(1).items \o page(2).items = G!EdgeOccurrences(e, 13, 2, 9, 0).items
                     /\ page(1).total = Cardinality(links) /\ page(1).edge.occurrences = Cardinality(links)

------------------------------------------------------------------------------
\* The inventory: a picture, a document linked and fetched, a file whose suffix the queries do
\* not list, and a page.
Png == [id |-> 3, kind |-> R!KindNamed("image"), listed |-> TRUE]
Pdf == [id |-> 2, kind |-> R!KindNamed("document"), listed |-> TRUE]
Bmp == [id |-> 1, kind |-> R!KindNamed("image"), listed |-> FALSE]

Files == <<[url |-> 3, host |-> 1, path |-> <<>>, ext |-> Png], [url |-> 1, host |-> 2, path |-> <<>>, ext |-> Pdf],
           [url |-> 2, host |-> 1, path |-> <<>>, ext |-> Bmp], [url |-> 4, host |-> 1, path |-> <<>>, ext |-> R!NoExt]>>

Observation(id, scan, r, kind, size) ==
  [id |-> id, scan |-> scan, resource |-> r, kind |-> R!KindNamed(kind), rule |-> R!Rule("mime"), mime |-> R!KindNamed(kind),
   size |-> size, at |-> scan, status |-> 200, ext |-> R!Null]

Reference(id, scan, from, r, kind) ==
  [id |-> id, scan |-> scan, from |-> from, target |-> r, kind |-> R!KindNamed(kind), rule |-> R!Rule("element"),
   inScope |-> r # 2, at |-> id]

Anchor(id, scan, from, r) ==
  [id |-> id, scan |-> scan, from |-> from, target |-> r, inScope |-> r # 2, at |-> id]

FileObservations == {Observation(21, 1, 2, "document", 5), Observation(22, 2, 2, "archive", R!Null),
                 Observation(23, 1, 4, "html_page", R!Null), Observation(24, 2, 1, "unknown", 3)}
References == {Reference(1, 1, 23, 1, "image"), Reference(2, 1, 23, 1, "unknown"), Reference(3, 2, 24, 3, "image")}
LinksToFiles == {Anchor(1, 1, 23, 2), Anchor(2, 1, 23, 4), Anchor(3, 2, 23, 1)}

Inventories ==
  {[resources |-> Files, snapshots |-> s, references |-> x, links |-> l] :
     s \in SUBSET FileObservations, x \in SUBSET References, l \in SUBSET LinksToFiles}

All == [kind |-> R!Null, mime |-> R!Null, ext |-> R!Null, host |-> R!Null, status |-> R!Null, evidence |-> "any",
        scope |-> "any", location |-> "any", minSize |-> R!Null, maxSize |-> R!Null, several |-> FALSE,
        sort |-> "url", direction |-> "asc", limit |-> 9, offset |-> 0]

ListFilters ==
  {[All EXCEPT !.sort = c, !.direction = "desc"] :
     c \in {"url", "kind", "mime_type", "declared_size", "occurrence_count", "observed", "first_discovered"}} \cup
  {[All EXCEPT !.kind = Png.kind], [All EXCEPT !.ext = Pdf.id], [All EXCEPT !.evidence = "discovered_only"],
   [All EXCEPT !.scope = "out_of_scope"], [All EXCEPT !.location = "external"], [All EXCEPT !.minSize = 1],
   [All EXCEPT !.limit = 1, !.offset = 1], [All EXCEPT !.several = TRUE]}

\* The list of a scan is the same from its projection, but for a filter by an extension the
\* queries do not list.
ASSUME InventoryAgrees ==
  /\ \A d \in Inventories, f \in ListFilters : R!ListDynamic(d, {1}, f, 1) = R!ListProjected(d, 1, f, 1)
  /\ \E d \in Inventories : LET f == [All EXCEPT !.ext = Bmp.id] IN R!ListDynamic(d, {2}, f, 1) # R!ListProjected(d, 2, f, 1)

\* Pages of a list put together are the list; the summary counts what the lists show.
ASSUME InventoryCounts ==
  \A d \in Inventories :
    LET page(n) == R!ListDynamic(d, {1, 2}, [All EXCEPT !.limit = 1, !.offset = n], 1).items
        whole == R!ListDynamic(d, {1, 2}, All, 1)
        summary == R!Summary(R!Rows(d, {1, 2}))
    IN /\ page(0) \o page(1) \o page(2) \o page(3) = whole.items
       /\ summary.resources = whole.total
       /\ summary.observed = R!ListDynamic(d, {1, 2}, [All EXCEPT !.evidence = "observed"], 1).total
       /\ summary.discovered = R!ListDynamic(d, {1, 2}, [All EXCEPT !.evidence = "discovered_only"], 1).total
       /\ summary.occurrences = SumOf([i \in DOMAIN whole.items |-> whole.items[i].occurrences])
       /\ SumOf(summary.kinds) = summary.resources

\* What was observed goes before what is inferred (docs/resource-inventory.md), and the newest
\* observation before the others; among inferred kinds the name decides.  A Site's counts are
\* the sums of its scans'.
ASSUME EvidencePrecedence ==
  \A d \in Inventories, r \in DOMAIN Files :
    LET site == R!Aggregate(d, {1, 2}, r)
        scan(n) == R!Aggregate(d, {n}, r)
    IN /\ (\E s \in d.snapshots : R!IsResource(s) /\ s.resource = r) =>
            \E s \in d.snapshots :
              /\ s.id = site.snapshot /\ s.kind = site.kind /\ s.size = site.size
              /\ \A t \in d.snapshots : t.resource = r /\ R!IsResource(t) => t.at =< s.at
       /\ site.occurrences = scan(1).occurrences + scan(2).occurrences
       /\ site.inScope + site.outScope = site.occurrences /\ site.anchors + site.embedded = site.occurrences
       /\ {x.entry.scan : x \in {R!History(d, {1, 2}, r)[i] : i \in DOMAIN R!History(d, {1, 2}, r)}} =
            {n \in {1, 2} : R!Rows(d, {n}) \cap {scan(n)} # {}}
       /\ Len(R!Occurrences(d, {1, 2}, r)) >= site.occurrences

\* A reference nothing is known of hides the kind another one tells.
ASSUME UnknownHides ==
  \E d \in Inventories : R!Aggregate(d, {1}, 1).kind = R!KindNamed("unknown") /\ Reference(1, 1, 23, 1, "image") \in d.references

\* A response's content type goes before all else, its name before its bytes, those before the
\* url; an unknown content type still makes it a file of some kind.
ASSUME ClassifiedInOrder ==
  \A mime, filename, signature, ext \in {R!Null, 1, 3}, given \in BOOLEAN :
    LET told == <<mime, filename, signature, ext>>
        class == R!ClassifyResponse(mime, given, filename, signature, ext)
    IN class.kind = IF \A i \in 1..4 : told[i] = R!Null THEN R!KindNamed(IF given THEN "other" ELSE "unknown")
                    ELSE told[CHOOSE i \in 1..4 : told[i] # R!Null /\ \A k \in 1..(i - 1) : told[k] = R!Null]

------------------------------------------------------------------------------
\* Lists of pages and links.
List == [limit |-> 9, offset |-> 0, direction |-> "asc"]
PageFilter ==
  List @@ [sort |-> "requested_url", status |-> P!Null, host |-> P!Null, path |-> <<>>, minDepth |-> P!Null,
           maxDepth |-> P!Null, errors |-> "any", rendered |-> "any"]
LinkFilter == List @@ [sort |-> "source_url", scope |-> "any", role |-> "any", status |-> P!Null]

PageFilters ==
  {[PageFilter EXCEPT !.sort = c] : c \in {"requested_url", "status", "depth", "inbound", "rendered_state", "error"}} \cup
  {[PageFilter EXCEPT !.errors = "with_errors"], [PageFilter EXCEPT !.rendered = "captured"],
   [PageFilter EXCEPT !.maxDepth = 0, !.minDepth = 0]}
LinkFilters ==
  {[LinkFilter EXCEPT !.sort = c] : c \in {"source_url", "source_status", "source_depth", "anchor_text"}} \cup
  {[LinkFilter EXCEPT !.scope = "out_of_scope"], [LinkFilter EXCEPT !.role = "body"], [LinkFilter EXCEPT !.status = 200]}

\* What a list shows page by page is what it shows at once.
Whole(items, of(_)) == of(0) \o of(1) \o of(2) \o of(3) \o of(4) \o of(5) \o of(6) = items

\* Whatever the order and the filters: going through the list of a scan's pages, or of the links
\* into a page, shows each once, and the other direction is the same list backwards.
ASSUME ListsPaged ==
  \A e \in Scans0 :
    /\ \A f \in PageFilters :
         LET items == P!ScanPages(e, f).items
             page(n) == P!ScanPages(e, [f EXCEPT !.limit = 1, !.offset = n]).items
         IN /\ Whole(items, page) /\ Len(items) = P!ScanPages(e, [f EXCEPT !.limit = 1]).total
            /\ P!ScanPages(e, [f EXCEPT !.direction = "desc"]).items = [i \in DOMAIN items |-> items[Len(items) + 1 - i]]
    /\ \A f \in LinkFilters, s \in e.snapshots :
         LET items == P!InboundLinks(e, s, f).items
             page(n) == P!InboundLinks(e, s, [f EXCEPT !.limit = 1, !.offset = n]).items
         IN /\ Whole(items, page)
            /\ P!InboundLinks(e, s, [f EXCEPT !.direction = "desc"]).items = [i \in DOMAIN items |-> items[Len(items) + 1 - i]]

\* The counts a page is listed with are those of its lists of links and those of its node in the
\* graph; each link is out of one page, and the sums are over the filtered list, not over the
\* part that is shown.
ASSUME LinksCounted ==
  \A e \in Scans0 :
    LET rows == P!ScanPages(e, PageFilter).items
        nodes == G!DynamicGraph(e, Open).nodes
        out(s) == P!OutgoingLinks(e, s, LinkFilter)
    IN /\ \A i \in DOMAIN rows :
            LET s == G!Snapshot(e, rows[i].id)
                into == P!InboundLinks(e, s, [LinkFilter EXCEPT !.limit = 1])
            IN /\ rows[i].inbound = into.total /\ rows[i].sources = into.summary.sources
               /\ \A k \in DOMAIN nodes : nodes[k].snapshot = s.id =>
                    /\ nodes[k].metrics.inbound = into.total /\ nodes[k].metrics.sources = into.summary.sources
                    /\ nodes[k].metrics.outbound = out(s).total
               /\ rows[i].inbound > 0 <=> rows[i].discovery # P!Null
       /\ SumOf([s \in e.snapshots |-> out(s).total]) = Cardinality(e.links)
       /\ \A f \in LinkFilters, s \in e.snapshots :
            LET into == P!InboundLinks(e, s, f)
            IN /\ SumOf(into.summary.roles) = into.total /\ Len(into.items) = into.total
               /\ into.summary.sources = Cardinality({into.items[i].source : i \in DOMAIN into.items})
               /\ into.summary.selfLinks = Cardinality({i \in DOMAIN into.items : into.items[i].selfLink})

\* Two scans of a Site: page 1 twice, page 2 once and then as a document, resource 3 only as a
\* document or not at all, page 4 never.
SitePage(id, r, owner, categories, notes) ==
  [id |-> id, resource |-> r, owner |-> owner, workflow |-> "new", state |-> IF id = 4 THEN "suppressed" ELSE "active",
   categories |-> categories, notes |-> notes]

Sites ==
  {[scans |-> <<[resources |-> Places, snapshots |-> first], [resources |-> Places, snapshots |-> second]>>,
    pages |-> {SitePage(1, 1, 1, {}, 2), SitePage(2, 2, P!Null, {7}, 0), SitePage(3, 3, 1, {}, 0), SitePage(4, 4, P!Null, {}, 1)}] :
     first \in SUBSET {Fetched(13, 1, 0), Fetched(12, 2, 1), Document},
     second \in SUBSET {[Fetched(23, 1, 0) EXCEPT !.at = 12], [Fetched(22, 2, 1) EXCEPT !.html = FALSE, !.at = 12], Failed(Fetched(21, 3, 1))}}

SiteFilter ==
  List @@ [sort |-> "url", workflow |-> "any", category |-> P!Null, uncategorized |-> FALSE, owner |-> P!Null,
           unassigned |-> FALSE, notes |-> "any", minObservations |-> P!Null, state |-> "all"]
ObservationFilter == List @@ [status |-> P!Null, errors |-> "any"]
SiteFilters ==
  {[SiteFilter EXCEPT !.sort = c, !.direction = d] :
     c \in {"url", "observations", "first_observed", "latest_observed", "owner", "categories", "notes"}, d \in {"asc", "desc"}} \cup
  {[SiteFilter EXCEPT !.state = "active", !.uncategorized = TRUE], [SiteFilter EXCEPT !.minObservations = 2],
   [SiteFilter EXCEPT !.owner = 1, !.notes = "without"], [SiteFilter EXCEPT !.unassigned = TRUE]}

\* A page of a Site is hidden only if all that was ever fetched of it is no page; it counts its
\* observations as a page, while its latest snapshot, and the list of its observations, are of
\* all kinds and may be newer than its last observation as a page.
ASSUME SitePagesTell ==
  \A site \in Sites :
    LET listed == P!SitePages(site, Places, SiteFilter)
        seen(r) == P!Observed(site, r)
    IN /\ \A p \in site.pages :
            (\E i \in DOMAIN listed.items : listed.items[i].page = p) <=>
              (seen(p.resource) # {} => \E s \in seen(p.resource) : s.html)
       /\ \A i \in DOMAIN listed.items :
            LET row == listed.items[i]
                all == P!PageObservations(site, row.page.resource, [ObservationFilter EXCEPT !.direction = "desc"])
            IN /\ all.total >= row.observations
               /\ all.total > 0 => row.latest = all.items[1]
               /\ row.first =< row.last /\ \A s \in seen(row.page.resource) : s.html => s.at =< row.last
       /\ \A f \in SiteFilters :
            LET page(n) == P!SitePages(site, Places, [f EXCEPT !.limit = 1, !.offset = n]).items
            IN Whole(P!SitePages(site, Places, f).items, page)

------------------------------------------------------------------------------
\* Changes.  Every pair of observations of a page, and histories of three scans.
Part0(values) == [text: values, volatile: values, version: {"a"}, rest: values, meta: values, wire: {"a"},
                  kept: {"blob", "hash", "nothing"}]
Seen1(o, head, status) == o @@ [head |-> head, status |-> status, final |-> 1, fits |-> TRUE, decodes |-> TRUE]
Pages0 == {Seen1(o, o.meta, n) : o \in Part0({"a", "b"}), n \in {1, 2}}
Pages1 == {Unseen} \cup {Seen1(o, "a", 1) : o \in Part0({"a"})} \cup {Seen1([o EXCEPT !.text = "b"], "a", 1) : o \in Part0({"a"})}

\* Where both sources are kept, the history of a page and the comparison of its two scans say the
\* same of the text, and nothing that a comparison calls unchanged is a change of the history;
\* where one is not, the history calls a changed hash a change of content and a comparison does
\* not know.
ASSUME HistoryAgrees ==
  \A before, after \in Pages0 :
    LET flags == C!HistoryFlags(before, after)
        class == C!PrimaryChangeClass(before, after)
    IN IF C!Analysed(before, after)
       THEN /\ "content" \in flags <=> class = "substantive_change"
            /\ "source" \in flags => class \in {"metadata_change", "technical_change", "normalization_only"}
            /\ class = "no_tracked_change" => flags \subseteq {"http_status"}
            /\ flags = {} => class = "no_tracked_change"
       ELSE "content" \in flags /\ before.meta = after.meta =>
              class = "indeterminate" /\ C!SourceDiff(before, after, "exact") # "available"

\* The difference that is shown is empty exactly where the comparison says the source, or what is
\* left of it without volatile values, is the same.
ASSUME DiffsAgree ==
  \A before, after \in Pages0 :
    C!Analysed(before, after) =>
      /\ (C!SourceDiff(before, after, "exact") = "identical") <=> C!EqualityState(before, after) = "same"
      /\ (C!SourceDiff(before, after, "meaningful") = "identical") <=> C!NormalizedState(before, after) = "same"

\* Each scan that saw the page is in its history once, in order; the scans in between are counted,
\* and the history as a whole accounts for every scan from the first to the last.
ASSUME HistoryWhole ==
  \A first, second, third \in Pages1 :
    LET seen == <<first, second, third>>
        page(n) == C!PageChangeHistory(seen, [limit |-> 1, offset |-> n]).items
        whole == C!PageChangeHistory(seen, [limit |-> 9, offset |-> 0])
        items == whole.items
    IN /\ Whole(items, page) /\ whole.total = Cardinality({i \in 1..3 : seen[i] # Unseen})
       /\ \A i \in DOMAIN items : items[i].label = "First observation" <=> i = 1
       /\ items # <<>> =>
            items[Len(items)].scan - items[1].scan + 1 = Len(items) + SumOf([i \in DOMAIN items |-> items[i].intervening])

\* Nothing is lost or counted twice between the two sides of a link, unless one is cut.
ASSUME OccurrencesMatched ==
  \A before, after \in UNION {[1..n -> 1..2] : n \in 0..3}, most \in {2, 9} :
    LET diff == C!LinkOccurrenceDiff(before, after, most, [limit |-> 9, offset |-> 0])
        page(n) == C!LinkOccurrenceDiff(before, after, most, [limit |-> 1, offset |-> n]).items
        sum(states) == SumOf([i \in {k \in DOMAIN diff.items : diff.items[k].state \in states} |-> diff.items[i].count])
    IN /\ Whole(diff.items, page) /\ diff.total = Len(diff.items)
       /\ sum({"present_in_both", "not_observed_in_target"}) = diff.before
       /\ sum({"present_in_both", "newly_observed"}) = diff.after
       /\ diff.before < Len(before) \/ diff.after < Len(after) <=> diff.truncated
       /\ (sum({"newly_observed", "not_observed_in_target"}) = 0 /\ ~diff.truncated) <=>
            \A x \in 1..2 : C!Times(before, x) = C!Times(after, x) /\ ~diff.truncated

ComparedPages ==
  {[resource |-> n, url |-> 5 - n, presence |-> presence, class |-> class, status |-> <<200, 200 + n>>,
    inbound |-> inbound, outbound |-> outbound] :
     n \in 1..2, presence \in {"observed_in_both", "newly_observed"}, class \in {"technical_change", "indeterminate"},
     inbound \in BOOLEAN, outbound \in BOOLEAN}
CompareFilter == [sort |-> "url", direction |-> "asc", limit |-> 9, offset |-> 0, changedOnly |-> FALSE, presence |-> "any",
                  statusChanged |-> "any", links |-> "any"]

\* The list of changed pages and what it leaves out make up all pages; asking for pages whose
\* links changed and asking for those whose links did not answers a page with only one of the
\* two twice.
ASSUME ChangedPagesListed ==
  \A one \in {r \in ComparedPages : r.resource = 1}, two \in {r \in ComparedPages : r.resource = 2} :
    LET total(f) == C!ComparisonPages({one, two}, f).total
        changed == total([CompareFilter EXCEPT !.changedOnly = TRUE])
        hidden == {r \in {one, two} : r.presence = "observed_in_both" /\ r.class = "indeterminate"}
        half == {r \in {one, two} : r.inbound # r.outbound}
    IN /\ changed + Cardinality(hidden) = 2
       /\ total([CompareFilter EXCEPT !.links = "yes"]) + total([CompareFilter EXCEPT !.links = "no"]) = 2 + Cardinality(half)
==============================================================================
