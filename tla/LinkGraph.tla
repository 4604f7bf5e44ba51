------------------------------ MODULE LinkGraph ------------------------------
(***************************************************************************)
(* The graph of a scan, read in two ways: from the evidence (get_scan_     *)
(* graph_dynamic) and from the rows of a projection (get_projected_graph). *)
(* The route takes the second where a ready build exists; the first is     *)
(* what the second is meant to answer.                                     *)
(*                                                                         *)
(* The evidence e of a scan is a record of                                 *)
(*   resources  [id -> [url: its place in the order of urls, host, path]]  *)
(*   snapshots  a set of [id, resource, requested, final, depth, status,   *)
(*              state, error, html], one per resource                      *)
(*   links      a set of [id, source, target, inScope, anchor, nofollow,   *)
(*              dom, role]; the target is Null where the href names none   *)
(*   seeds      a set of [id, resource, origins]                           *)
(*   start      the url of the scan                                        *)
(* A url is a resource's url with or without the slash at its end.  Texts  *)
(* are numbers in their order; letter case and titles are left out.        *)
(***************************************************************************)
EXTENDS Integers, FiniteSets, SequencesExt

Null == -1     \* NULL: no status, no error, no target, no filter
NoUrl == [of |-> Null, slash |-> FALSE]

SampleAnchorLimit == 5
Regions == <<"header", "footer", "nav", "aside", "main">>
Families == <<"1xx", "2xx", "3xx", "4xx", "5xx">>

------------------------------------------------------------------------------
\* ORDER BY several columns, and LIMIT.
Precedes(a, b) == \E i \in DOMAIN a : a[i] < b[i] /\ \A k \in 1..(i - 1) : a[k] = b[k]
Sorted(rows) == SetToSortSeq(rows, LAMBDA a, b : Precedes(a.key, b.key))
Limited(rows, n) == SubSeq(rows, 1, IF Len(rows) < n THEN Len(rows) ELSE n)

Bare(url) == [url EXCEPT !.slash = FALSE]
SameUrl(left, right) == NoUrl \notin {left, right} /\ Bare(left) = Bare(right)

Snapshot(e, id) == CHOOSE s \in e.snapshots : s.id = id
SnapshotsOf(e, r) == {s \in e.snapshots : s.resource = r}

\* A page is a snapshot known as HTML by its kind, its stored source or its content type.
IsPage(s) == s.html
PagesOf(e) == [e EXCEPT !.snapshots = {s \in @ : IsPage(s)}]

Inbound(e, r) == {o \in e.links : o.target = r}
Outbound(e, r) == {o \in e.links : Snapshot(e, o.source).resource = r}
Sources(links) == {o.source : o \in links}
Targets(links) == {o.target : o \in links} \ {Null}

------------------------------------------------------------------------------
\* The columns a filter or the ranking looks at.  The dynamic query ranks and filters by links
\* with a target, and shows the count of all of them; the projection's row has the one count.
DynamicRow(e, s) ==
  LET r == s.resource
  IN [snapshot |-> s, inbound |-> Cardinality(Inbound(e, r)), sources |-> Cardinality(Sources(Inbound(e, r))),
      outbound |-> Cardinality({o \in Outbound(e, r) : o.target # Null}),
      targets |-> Cardinality(Targets(Outbound(e, r))),
      starting |-> {e.start, Bare(e.start)} \cap {s.requested, s.final} # {}]

ProjectedRow(e, s) ==
  LET r == s.resource
  IN [snapshot |-> s, inbound |-> Cardinality(Inbound(e, r)), sources |-> Cardinality(Sources(Inbound(e, r))),
      outbound |-> Cardinality(Outbound(e, r)),
      targets |-> Cardinality(Targets(Outbound(e, r))),
      starting |-> e.start \in {s.requested, s.final}]

Family(status) == IF status = Null THEN "none" ELSE Families[status \div 100]

Passes(e, row, f) ==
  LET s == row.snapshot
      resource == e.resources[s.resource]
  IN /\ f.minDepth # Null => s.depth >= f.minDepth
     /\ f.maxDepth # Null => s.depth =< f.maxDepth
     /\ f.host # Null => resource.host = f.host
     /\ IsPrefix(f.path, resource.path)
     /\ f.status # "any" => Family(s.status) = f.status
     /\ f.state # "any" => s.state = f.state
     /\ f.errors = "with_errors" => s.error # Null
     /\ f.errors = "without_errors" => s.error = Null
     /\ f.minInbound # Null => row.inbound >= f.minInbound
     /\ f.minOutbound # Null => row.outbound >= f.minOutbound

\* The starting page first, then depth, connections, url and id.
Ranked(e, rows) ==
  Sorted({[row |-> row,
           key |-> <<IF row.starting THEN 0 ELSE 1, row.snapshot.depth, -row.sources, -row.targets,
                     e.resources[row.snapshot.resource].url, row.snapshot.id>>] : row \in rows})

------------------------------------------------------------------------------
\* The neighbourhood of a snapshot: links in both directions, one query per hop.
NeighborSnapshotIds(e, ids, selfLinks) ==
  LET within == {o \in e.links : selfLinks \/ o.target # Snapshot(e, o.source).resource}
  IN UNION {{t.id : t \in SnapshotsOf(e, o.target)} : o \in {x \in within : x.source \in ids}}
     \cup {o.source : o \in {x \in within : \E t \in SnapshotsOf(e, x.target) : t.id \in ids}}

FirstOf(ids, n) == {i \in ids : Cardinality({k \in ids : k < i}) < n}

\* Dynamic: of a hop that does not fit, the snapshots with the smallest ids.
FocusSnapshotIds(e, f) ==
  LET hop[n \in 0..f.hops] ==
        IF n = 0 THEN [seen |-> {f.focus}, frontier |-> {f.focus}]
        ELSE LET last == hop[n - 1]
                 fresh == FirstOf(NeighborSnapshotIds(e, last.frontier, f.selfLinks) \ last.seen,
                                  f.maxNodes - Cardinality(last.seen))
             IN [seen |-> last.seen \cup fresh, frontier |-> fresh]
  IN hop[f.hops].seen

\* Projected: of a hop that does not fit, whichever rows come first; the limit is looked at
\* after a snapshot was added.  The result is the set of what may be returned.
ProjectedFocusIds(e, f) ==
  LET room(seen) == IF Cardinality(seen) < f.maxNodes THEN f.maxNodes - Cardinality(seen) ELSE 1
      next(at) ==
        LET fresh == NeighborSnapshotIds(e, at.frontier, f.selfLinks) \ at.seen
        IN IF Cardinality(fresh) < room(at.seen)
           THEN {[seen |-> at.seen \cup fresh, frontier |-> fresh]}
           ELSE {[seen |-> at.seen \cup some, frontier |-> {}] : some \in kSubset(room(at.seen), fresh)}
      hop[n \in 0..f.hops] ==
        IF n = 0 THEN {[seen |-> {f.focus}, frontier |-> {f.focus}]}
        ELSE UNION {next(at) : at \in hop[n - 1]}
  IN {at.seen : at \in hop[f.hops]}

------------------------------------------------------------------------------
\* Edges: the links from one snapshot to one resource.
Region(o) ==
  IF \E i \in DOMAIN Regions : Regions[i] \in o.dom
  THEN Regions[CHOOSE i \in DOMAIN Regions : Regions[i] \in o.dom /\ \A k \in 1..(i - 1) : Regions[k] \notin o.dom]
  ELSE "body"

DomRegions(links) ==
  [region \in Range(Regions) \cup {"body"} |-> Cardinality({o \in links : Region(o) = region})]

RoleCounts(links) == [role \in {o.role : o \in links} |-> Cardinality({o \in links : o.role = role})]

Between(e, source, target) == {o \in e.links : o.source = source /\ o.target = target}

\* The anchors of an edge shown as samples: the first ones by text.
Samples(anchors) == FirstOf(anchors, SampleAnchorLimit)

\* One edge; the target is a node of its snapshot where that is among the given snapshots.
EdgeFrom(e, source, target, snapshots, samples) ==
  LET links == Between(e, source, target)
      anchors == {o.anchor : o \in links} \ {Null}
      found == {s \in snapshots : s.resource = target}
  IN [source |-> source, resource |-> target,
      target |-> IF found = {} THEN Null ELSE (CHOOSE s \in found : TRUE).id,
      occurrences |-> Cardinality(links), anchors |-> Cardinality(anchors),
      empty |-> Cardinality({o \in links : o.anchor = Null}),
      nofollow |-> Cardinality({o \in links : o.nofollow}),
      follow |-> Cardinality(links) - Cardinality({o \in links : o.nofollow}),
      selfLink |-> Snapshot(e, source).resource = target,
      inScope |-> Cardinality({o \in links : o.inScope}),
      samples |-> samples, roles |-> RoleCounts(links), dom |-> DomRegions(links)]

\* Edges in their order: source, target snapshot with those that have none last, target.
EdgesOrdered(e, pairs) ==
  Sorted({[pair |-> p,
           key |-> LET there == SnapshotsOf(e, p[2])
                   IN <<p[1], IF there = {} THEN 1 ELSE 0,
                        IF there = {} THEN Null ELSE (CHOOSE s \in there : TRUE).id, p[2]>>] : p \in pairs})

EdgePairs(e, sources, targets, selfLinks) ==
  {p \in {<<o.source, o.target>> : o \in e.links} :
     p[1] \in sources /\ p[2] \in targets /\ (selfLinks \/ Snapshot(e, p[1]).resource # p[2])}

\* The dynamic query reads the anchors of all edges at once, so many rows for all of them: an
\* edge with many anchors leaves fewer to the next.
EdgeDetails(e, pairs) ==
  LET rows == Sorted({[pair |-> <<o.source, o.target>>, anchor |-> o.anchor, key |-> <<o.source, o.target, o.anchor>>] :
                        o \in {x \in e.links : <<x.source, x.target>> \in pairs /\ x.anchor # Null}})
      read == Range(Limited(rows, Cardinality(pairs) * SampleAnchorLimit * 2))
  IN [p \in pairs |-> Samples({x.anchor : x \in {y \in read : y.pair = p}})]

------------------------------------------------------------------------------
\* Nodes.
NodeMetrics(e, r) ==
  [inbound |-> Cardinality(Inbound(e, r)), sources |-> Cardinality(Sources(Inbound(e, r))),
   outbound |-> Cardinality(Outbound(e, r)), targets |-> Cardinality(Targets(Outbound(e, r)))]

NoMetrics == [inbound |-> 0, sources |-> 0, outbound |-> 0, targets |-> 0]

\* The dynamic node counts the seeds of the resource, the projected one their origins.
DynamicNode(e, s) ==
  [snapshot |-> s.id, resource |-> s.resource, metrics |-> NodeMetrics(e, s.resource),
   seeds |-> Cardinality({d \in e.seeds : d.resource = s.resource}),
   starting |-> SameUrl(e.start, s.requested) \/ SameUrl(e.start, s.final),
   category |-> CASE s.error # Null -> "error"
                  [] s.error = Null /\ s.status = Null -> s.state
                  [] OTHER -> Family(s.status)]

ProjectedNode(e, s) ==
  [snapshot |-> s.id, resource |-> s.resource, metrics |-> NodeMetrics(e, s.resource),
   seeds |-> MapThenSumSet(LAMBDA d : d.origins, {d \in e.seeds : d.resource = s.resource}),
   starting |-> ProjectedRow(e, s).starting,
   category |-> IF s.error # Null \/ s.state = "failed" THEN "error" ELSE Family(s.status)]

\* A resource that links lead to and that was not fetched.
DiscoveredNode(r, metrics) ==
  [snapshot |-> Null, resource |-> r, metrics |-> metrics, seeds |-> 0, starting |-> FALSE, category |-> "discovered"]

\* The resources links in scope lead to, by url; known are those that are nodes already.
Discovered(e, known, remaining) ==
  LET found == {o.target : o \in {x \in e.links : x.inScope /\ x.target # Null}} \ known
      rows == Limited(Sorted({[resource |-> r, key |-> <<e.resources[r].url, r>>] : r \in found}), remaining)
  IN [i \in DOMAIN rows |-> rows[i].resource]

------------------------------------------------------------------------------
\* The answer: nodes and edges, what there was to return, and why it is not all of it.
Reasons(f, nodes, available, edges, pairs, unfetched) ==
  {r \in {"node_limit", "edge_limit", "unfetched_node_limit"} :
     \/ r = "node_limit" /\ available > Len(nodes)
     \/ r = "edge_limit" /\ Cardinality(pairs) > Len(edges)
     \/ r = "unfetched_node_limit" /\ unfetched}

Response(e, f, pages, available, discovered, pairs, edges, unfetched) ==
  [nodes |-> pages \o discovered, edges |-> edges, fetched |-> Len(pages), available |-> available,
   availableEdges |-> Cardinality(pairs),
   occurrences |-> Cardinality({o \in e.links : <<o.source, o.target>> \in pairs}),
   reasons |-> Reasons(f, pages, available, edges, pairs, unfetched)]

EmptyGraph == [nodes |-> <<>>, edges |-> <<>>, fetched |-> 0, available |-> 0, availableEdges |-> 0,
               occurrences |-> 0, reasons |-> {}]

\* get_scan_graph_dynamic.  Without a snapshot that passes, the answer is empty; a resource
\* whose snapshot does not pass counts as discovered; discovered nodes have no metrics.
DynamicGraph(e, f) ==
  LET allowed == IF f.focus = Null THEN {s.id : s \in e.snapshots} ELSE FocusSnapshotIds(e, f)
      rows == {row \in {DynamicRow(e, s) : s \in {x \in e.snapshots : x.id \in allowed}} : Passes(e, row, f)}
      ranked == Limited(Ranked(e, rows), f.maxNodes)
      chosen == [i \in DOMAIN ranked |-> ranked[i].row.snapshot]
      resources == {s.resource : s \in Range(chosen)}
      found == IF f.unfetched THEN Discovered(e, resources, f.maxNodes - Len(chosen)) ELSE <<>>
      pairs == EdgePairs(e, {s.id : s \in Range(chosen)}, resources \cup Range(found), f.selfLinks)
      ordered == Limited(EdgesOrdered(e, pairs), f.maxEdges)
      details == EdgeDetails(e, {ordered[i].pair : i \in DOMAIN ordered})
      edges == [i \in DOMAIN ordered |->
                  LET p == ordered[i].pair IN EdgeFrom(e, p[1], p[2], Range(chosen), details[p])]
  IN IF chosen = <<>> THEN EmptyGraph
     ELSE Response(e, f, [i \in DOMAIN chosen |-> DynamicNode(e, chosen[i])], Cardinality(rows),
                   [i \in DOMAIN found |-> DiscoveredNode(found[i], NoMetrics)], pairs, edges,
                   found # <<>> /\ Len(chosen) + Len(found) >= f.maxNodes)

\* get_projected_graph, for a neighbourhood its rows may give.
ProjectedGraph(e, f, allowed) ==
  LET pages == PagesOf(e)
      rows == {row \in {ProjectedRow(e, s) : s \in {x \in pages.snapshots : x.id \in allowed}} : Passes(e, row, f)}
      ranked == Limited(Ranked(e, rows), f.maxNodes)
      chosen == [i \in DOMAIN ranked |-> ranked[i].row.snapshot]
      resources == {s.resource : s \in Range(chosen)}
      found == IF f.unfetched
               THEN Discovered(e, resources \cup {s.resource : s \in pages.snapshots}, f.maxNodes - Len(chosen))
               ELSE <<>>
      pairs == EdgePairs(e, {s.id : s \in Range(chosen)}, resources \cup Range(found), f.selfLinks)
      ordered == Limited(EdgesOrdered(pages, pairs), f.maxEdges)
      edges == [i \in DOMAIN ordered |->
                  LET p == ordered[i].pair
                  IN EdgeFrom(e, p[1], p[2], pages.snapshots,
                              Samples({o.anchor : o \in Between(e, p[1], p[2])} \ {Null}))]
  IN Response(e, f, [i \in DOMAIN chosen |-> ProjectedNode(e, chosen[i])], Cardinality(rows),
              [i \in DOMAIN found |-> DiscoveredNode(found[i], [NodeMetrics(e, found[i]) EXCEPT !.outbound = 0, !.targets = 0])],
              pairs, edges, FALSE)

ProjectedGraphs(e, f) ==
  {ProjectedGraph(e, f, allowed) :
     allowed \in IF f.focus = Null THEN {{s.id : s \in e.snapshots}} ELSE ProjectedFocusIds(PagesOf(e), f)}

\* The occurrences of one edge, in a page: no filter of the graph applies, and the snapshot of
\* the target is the scan's.
EdgeOccurrences(e, source, target, limit, offset) ==
  LET links == Between(e, source, target)
      rows == Sorted({[id |-> o.id, key |-> <<o.id>>] : o \in links})
      pair == <<source, target>>
  IN [items |-> [i \in 1..(Len(Limited(rows, limit + offset)) - Len(Limited(rows, offset))) |-> rows[offset + i].id],
      total |-> Cardinality(links),
      edge |-> EdgeFrom(e, source, target, e.snapshots, EdgeDetails(e, {pair})[pair])]
==============================================================================
