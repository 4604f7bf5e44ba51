------------------------------ MODULE PageLists ------------------------------
(***************************************************************************)
(* The lists of pages and links: the pages of a scan, the links out of a   *)
(* page and into it, the pages of a Site and the observations of one page. *)
(*                                                                         *)
(* The evidence of a scan is LinkGraph's; a snapshot also has the state of *)
(* its capture by a browser and the time it was fetched.  A Site is        *)
(*   scans  [number -> the evidence of the scan]                           *)
(*   pages  a set of [id, resource, owner, workflow, state, categories,    *)
(*          notes], categories being a set and notes a count               *)
(* All scans of a Site share the resources.                                *)
(***************************************************************************)
EXTENDS LinkGraph

\* capture_state, in the order of the names; a snapshot without a capture sorts as not_requested.
CaptureStates == <<"completed", "completed_with_warnings", "failed", "interrupted", "not_requested", "skipped">>
CaptureRank(state) == CHOOSE n \in DOMAIN CaptureStates : CaptureStates[n] = state

Slice(rows, f) == SubSeq(rows, f.offset + 1, IF Len(rows) < f.offset + f.limit THEN Len(rows) ELSE f.offset + f.limit)
Turned(key, direction) == IF direction = "desc" THEN [i \in DOMAIN key |-> -key[i]] ELSE key

\* A list: what passes, in its order, from offset to limit; total is what there is.
Listing(rows, f) ==
  LET ordered == Slice(Sorted(rows), f)
  IN [items |-> [i \in DOMAIN ordered |-> ordered[i].item], total |-> Cardinality(rows)]

UrlOrder(e, url) == IF url = NoUrl THEN Null ELSE 2 * e.resources[url.of].url + (IF url.slash THEN 1 ELSE 0)

\* coalesce(final_url, requested_url)
Address(e, s) == UrlOrder(e, IF s.final # NoUrl THEN s.final ELSE s.requested)

------------------------------------------------------------------------------
\* The pages of a scan.  The evidence and a projection have the same columns, but for captures,
\* which both lists look up when they are read.
PageRow(e, s) ==
  LET inbound == Inbound(e, s.resource)
  IN [id |-> s.id, resource |-> s.resource, status |-> s.status, depth |-> s.depth, error |-> s.error,
      url |-> UrlOrder(e, s.requested), inbound |-> Cardinality(inbound), sources |-> Cardinality(Sources(inbound)),
      discovery |-> IF inbound = {} THEN Null ELSE Min({Address(e, Snapshot(e, o.source)) : o \in inbound}),
      capture |-> s.capture]

PagePasses(e, row, f) ==
  LET place == e.resources[row.resource]
  IN /\ f.status # Null => row.status = f.status
     /\ f.host # Null => place.host = f.host
     /\ IsPrefix(f.path, place.path)
     /\ f.minDepth # Null => row.depth >= f.minDepth
     /\ f.maxDepth # Null => row.depth =< f.maxDepth
     /\ f.errors = "with_errors" => row.error # Null
     /\ f.errors = "without_errors" => row.error = Null

\* The filter says captured for what the captures call completed.
RenderedPasses(capture, wanted) ==
  CASE wanted = "any" -> TRUE
    [] wanted = "captured" -> capture = "completed"
    [] wanted = "captured_with_warnings" -> capture = "completed_with_warnings"
    [] OTHER -> capture = wanted

PageColumn(row, sort) ==
  CASE sort = "requested_url" -> row.url [] sort = "status" -> row.status [] sort = "depth" -> row.depth
    [] sort = "inbound" -> row.inbound [] sort = "error" -> row.error
    [] sort = "rendered_state" -> CaptureRank(row.capture)

ScanPages(e, f) ==
  Listing({[item |-> row, key |-> Turned(<<PageColumn(row, f.sort), row.id>>, f.direction)] :
             row \in {x \in {PageRow(e, s) : s \in {t \in e.snapshots : IsPage(t)}} :
                        PagePasses(e, x, f) /\ RenderedPasses(x.capture, f.rendered)}}, f)

------------------------------------------------------------------------------
\* Links out of a snapshot and into its resource, with sums over all that pass, not over the
\* page of the list.
LinkPasses(o, f) ==
  /\ f.scope # "any" => (f.scope = "in_scope") = o.inScope
  /\ f.role # "any" => o.role = f.role

OutgoingSummary(links) ==
  [total |-> Cardinality(links), nofollow |-> Cardinality({o \in links : o.nofollow}),
   inScope |-> Cardinality({o \in links : o.inScope}), roles |-> RoleCounts(links)]

OutgoingLinks(e, s, f) ==
  LET links == {o \in e.links : o.source = s.id /\ LinkPasses(o, f)}
  IN Listing({[item |-> o.id, key |-> <<o.id>>] : o \in links}, f) @@ [summary |-> OutgoingSummary(links)]

\* Anchors without a text are no text among the distinct ones.
InboundSummary(e, s, links) ==
  [total |-> Cardinality(links), sources |-> Cardinality(Sources(links)),
   anchors |-> Cardinality({o.anchor : o \in links} \ {Null}),
   nofollow |-> Cardinality({o \in links : o.nofollow}),
   selfLinks |-> Cardinality({o \in links : o.source = s.id}), roles |-> RoleCounts(links)]

InboundPasses(e, o, f) ==
  LinkPasses(o, f) /\ (f.status # Null => Snapshot(e, o.source).status = f.status)

InboundColumn(e, o, sort) ==
  LET source == Snapshot(e, o.source)
  IN CASE sort = "source_url" -> Address(e, source) [] sort = "source_status" -> source.status
       [] sort = "source_depth" -> source.depth [] sort = "anchor_text" -> o.anchor

InboundLinks(e, s, f) ==
  LET links == {o \in Inbound(e, s.resource) : InboundPasses(e, o, f)}
      item(o) == [id |-> o.id, source |-> o.source, selfLink |-> o.source = s.id]
  IN Listing({[item |-> item(o), key |-> Turned(<<InboundColumn(e, o, f.sort), o.id>>, f.direction)] : o \in links}, f)
     @@ [summary |-> InboundSummary(e, s, links)]

------------------------------------------------------------------------------
\* The pages of a Site.  A page that was observed, but never as HTML, is not listed; its latest
\* snapshot is the latest of any kind, its times are those of its observations as a page.
Observed(site, r) == UNION {SnapshotsOf(site.scans[n], r) : n \in DOMAIN site.scans}
Newest(snapshots) == CHOOSE s \in snapshots : \A t \in snapshots \ {s} : Precedes(<<t.at, t.id>>, <<s.at, s.id>>)

SitePageRow(site, page) ==
  LET all == Observed(site, page.resource)
      pages == {s \in all : IsPage(s)}
      latest == IF all = {} THEN Null ELSE Newest(all).id
  IN [page |-> page, observations |-> Cardinality(pages), latest |-> latest,
      first |-> IF pages = {} THEN Null ELSE Min({s.at : s \in pages}),
      last |-> IF pages = {} THEN Null ELSE Max({s.at : s \in pages}),
      shown |-> all = {} \/ pages # {}]

SitePagePasses(row, f) ==
  LET page == row.page
  IN /\ f.workflow # "any" => page.workflow = f.workflow
     /\ f.category # Null => f.category \in page.categories
     /\ f.uncategorized => page.categories = {}
     /\ f.owner # Null => page.owner = f.owner
     /\ f.unassigned => page.owner = Null
     /\ f.notes # "any" => (f.notes = "with") = (page.notes > 0)
     /\ f.minObservations # Null => row.observations >= f.minObservations
     /\ f.state # "all" => page.state = f.state

\* The order turns the column only; equal values stay in the order of the pages.
SitePageColumn(resources, row, sort) ==
  CASE sort = "url" -> resources[row.page.resource].url [] sort = "observations" -> row.observations
    [] sort = "first_observed" -> row.first [] sort = "latest_observed" -> row.last
    [] sort = "owner" -> row.page.owner [] sort = "categories" -> Cardinality(row.page.categories)
    [] sort = "notes" -> row.page.notes

SitePages(site, resources, f) ==
  Listing({[item |-> row,
            key |-> Turned(<<SitePageColumn(resources, row, f.sort)>>, f.direction) \o <<row.page.id>>] :
             row \in {x \in {SitePageRow(site, p) : p \in site.pages} : x.shown /\ SitePagePasses(x, f)}}, f)

\* The observations of a page of the Site: every snapshot, of whatever kind; nothing for a
\* resource that is no page of it.  Among equal times the later snapshot comes first in both
\* directions.
PageObservations(site, r, f) ==
  LET passing == {s \in Observed(site, r) :
                    /\ f.status # Null => s.status = f.status
                    /\ f.errors = "with_errors" => s.error # Null
                    /\ f.errors = "without_errors" => s.error = Null}
  IN IF \A p \in site.pages : p.resource # r THEN [items |-> <<>>, total |-> Null]
     ELSE Listing({[item |-> s.id, key |-> Turned(<<s.at>>, f.direction) \o <<-s.id>>] : s \in passing}, f)
==============================================================================
