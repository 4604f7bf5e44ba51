-------------------------- MODULE ResourceInventory --------------------------
(***************************************************************************)
(* The resources of a scan or a Site: what was fetched and is no page, what *)
(* pages embed, and what links with a file's extension lead to, one row    *)
(* per resource.  A projection keeps the rows of a scan.                   *)
(*                                                                         *)
(* The evidence d is a record of                                           *)
(*   resources   [id -> [url, host, path, ext]], an extension being a      *)
(*               record of the kind the table of extensions gives it and   *)
(*               whether the queries' own list of suffixes has it          *)
(*   snapshots   a set of [id, scan, resource, kind, rule, mime, size, at, *)
(*               status, ext]                                              *)
(*   references  a set of [id, scan, from, target, kind, rule, inScope, at]*)
(*   links       a set of [id, scan, from, target, inScope, at]            *)
(* where from is the snapshot of the page.  Kinds and texts are numbers in *)
(* their order, which max() goes by.                                       *)
(***************************************************************************)
EXTENDS Integers, FiniteSets, SequencesExt

Null == -1
NoExt == [id |-> Null, kind |-> Null, listed |-> FALSE]

Precedes(a, b) == \E i \in DOMAIN a : a[i] < b[i] /\ \A k \in 1..(i - 1) : a[k] = b[k]
Sorted(rows) == SetToSortSeq(rows, LAMBDA a, b : Precedes(a.key, b.key))
Page(rows, limit, offset) ==
  SubSeq(rows, offset + 1, IF Len(rows) < offset + limit THEN Len(rows) ELSE offset + limit)
Greatest(values) == IF values \subseteq {Null} THEN Null ELSE Max(values \ {Null})

------------------------------------------------------------------------------
\* The kinds, numbered as their names are ordered.
KindNames == <<"archive", "audio", "document", "feed", "font", "html_page", "image", "manifest", "other",
               "script", "structured_data", "stylesheet", "unknown", "video">>
KindNamed(name) == CHOOSE n \in DOMAIN KindNames : KindNames[n] = name
Rules == <<"content_disposition_filename", "element", "extension", "fallback_unknown", "mime", "signature">>
Rule(name) == CHOOSE n \in DOMAIN Rules : Rules[n] = name

Classified(kind, rule) == [kind |-> kind, rule |-> Rule(rule)]

\* What a response is: by its content type, the name it gives the file, its first bytes, the
\* extension of its url.  Each argument is the kind it tells, Null where it tells none.
ClassifyResponse(mime, mimeGiven, filename, signature, ext) ==
  CASE mime # Null -> Classified(mime, "mime")
    [] mime = Null /\ filename # Null -> Classified(filename, "content_disposition_filename")
    [] mime = Null /\ filename = Null /\ signature # Null -> Classified(signature, "signature")
    [] mime = Null /\ filename = Null /\ signature = Null /\ ext # Null -> Classified(ext, "extension")
    [] OTHER -> Classified(KindNamed(IF mimeGiven THEN "other" ELSE "unknown"), "fallback_unknown")

\* What a reference is: by its element, where that says it; source, object and embed leave the
\* kind to the extension.
ClassifyReference(element, ext) ==
  CASE element = KindNamed("other") -> Classified(IF ext # Null THEN ext ELSE KindNamed("other"), "element")
    [] element \notin {Null, KindNamed("other")} -> Classified(element, "element")
    [] element = Null /\ ext # Null -> Classified(ext, "extension")
    [] OTHER -> Classified(KindNamed("unknown"), "fallback_unknown")

------------------------------------------------------------------------------
\* Evidence.  The kind of a link's target goes by the suffixes the query lists; pages have none.
AnchorKind(ext) == IF ext.listed THEN ext.kind ELSE KindNamed("unknown")
SuffixOf(ext) == IF ext.listed THEN ext.id ELSE Null

IsResource(s) == s.kind \notin {KindNamed("html_page"), KindNamed("unknown")}

Observed(d, scans, r) == {s \in d.snapshots : s.scan \in scans /\ s.resource = r /\ IsResource(s)}
Embedded(d, scans, r) == {x \in d.references : x.scan \in scans /\ x.target = r}
Anchors(d, scans, r) ==
  {x \in d.links : x.scan \in scans /\ x.target = r /\ AnchorKind(d.resources[r].ext) # KindNamed("unknown")}

\* The observation of row_number() = 1.
Latest(observed) ==
  CHOOSE s \in observed : \A t \in observed \ {s} : Precedes(<<t.at, t.id>>, <<s.at, s.id>>)

\* One row per resource with evidence: the kind that was observed, else the greatest of the
\* kinds that were inferred; the rule in the same way, apart from the kind.
Aggregate(d, scans, r) ==
  LET observed == Observed(d, scans, r)
      embedded == Embedded(d, scans, r)
      anchors == Anchors(d, scans, r)
      latest == Latest(observed)
      kinds == {x.kind : x \in embedded} \cup {AnchorKind(d.resources[r].ext) : x \in anchors}
      rules == {x.rule : x \in embedded} \cup {Rule("extension") : x \in anchors}
      ats == {x.at : x \in embedded} \cup {x.at : x \in anchors}
      With(column, none) == IF observed = {} THEN none ELSE column
  IN [resource |-> r,
      kind |-> With(latest.kind, Greatest(kinds)), rule |-> With(latest.rule, Greatest(rules)),
      ext |-> LET known == Greatest({s.ext : s \in observed}) IN IF known # Null THEN known ELSE SuffixOf(d.resources[r].ext),
      observations |-> Cardinality(observed),
      snapshot |-> With(latest.id, Null), mime |-> With(latest.mime, Null), size |-> With(latest.size, Null),
      status |-> With(latest.status, Null),
      occurrences |-> Cardinality(embedded) + Cardinality(anchors),
      pages |-> Cardinality({x.from : x \in embedded} \cup {x.from : x \in anchors}),
      anchors |-> Cardinality(anchors), embedded |-> Cardinality(embedded),
      inScope |-> Cardinality({x \in embedded : x.inScope}) + Cardinality({x \in anchors : x.inScope}),
      outScope |-> Cardinality({x \in embedded : ~x.inScope}) + Cardinality({x \in anchors : ~x.inScope}),
      first |-> IF ats = {} THEN Null ELSE Min(ats), last |-> Greatest(ats),
      scans |-> Cardinality({s.scan : s \in observed} \cup {x.scan : x \in embedded} \cup {x.scan : x \in anchors})]

Rows(d, scans) ==
  {Aggregate(d, scans, r) : r \in {x \in DOMAIN d.resources :
     Observed(d, scans, x) \cup Embedded(d, scans, x) \cup Anchors(d, scans, x) # {}}}

------------------------------------------------------------------------------
\* Filters and order of both lists; home is the host of the scan's or Site's url.
Passes(d, row, f, home) ==
  LET place == d.resources[row.resource]
  IN /\ f.kind # Null => row.kind = f.kind
     /\ f.mime # Null => row.mime = f.mime
     /\ f.ext # Null => row.ext = f.ext
     /\ f.host # Null => place.host = f.host
     /\ f.status # Null => row.status = f.status
     /\ f.evidence = "observed" => row.observations > 0
     /\ f.evidence = "discovered_only" => row.observations = 0
     /\ f.scope = "in_scope" => row.inScope > 0
     /\ f.scope = "out_of_scope" => row.outScope > 0
     /\ f.location = "internal" => place.host = home
     /\ f.location = "external" => place.host # home
     /\ f.minSize # Null => row.size # Null /\ row.size >= f.minSize
     /\ f.maxSize # Null => row.size # Null /\ row.size =< f.maxSize
     /\ f.several => row.pages > 1

\* A missing value comes before all others; the other direction turns the column, not the id.
Column(d, row, sort) ==
  CASE sort = "url" -> d.resources[row.resource].url [] sort = "kind" -> row.kind
    [] sort = "mime_type" -> row.mime [] sort = "http_status" -> row.status
    [] sort = "declared_size" -> row.size [] sort = "occurrence_count" -> row.occurrences
    [] sort = "source_page_count" -> row.pages [] sort = "observed" -> row.observations
    [] sort = "in_scope_count" -> row.inScope [] sort = "first_discovered" -> row.first
    [] sort = "latest_discovered" -> row.last

Ordered(d, rows, sort, direction) ==
  Sorted({[row |-> row, key |-> <<IF direction = "desc" THEN -Column(d, row, sort) ELSE Column(d, row, sort), row.resource>>] :
            row \in rows})

\* The item of a row: the extension it shows is the url's where the queries know none.
Item(d, row) ==
  [row EXCEPT !.ext = IF @ # Null THEN @ ELSE d.resources[row.resource].ext.id]

Listed(d, rows, f, home) ==
  LET passing == {row \in rows : Passes(d, row, f, home)}
      ordered == Page(Ordered(d, passing, f.sort, f.direction), f.limit, f.offset)
  IN [items |-> [i \in DOMAIN ordered |-> Item(d, ordered[i].row)], total |-> Cardinality(passing)]

ListDynamic(d, scans, f, home) == Listed(d, Rows(d, scans), f, home)

\* A projection's rows are the items of the whole list.
ProjectedRows(d, scan) == {Item(d, row) : row \in Rows(d, {scan})}
ListProjected(d, scan, f, home) == Listed(d, ProjectedRows(d, scan), f, home)

Summary(rows) ==
  [resources |-> Cardinality(rows), observed |-> Cardinality({x \in rows : x.observations > 0}),
   discovered |-> Cardinality({x \in rows : x.observations = 0}),
   occurrences |-> MapThenSumSet(LAMBDA x : x.occurrences, rows),
   kinds |-> [k \in {x.kind : x \in rows} |-> Cardinality({x \in rows : x.kind = k})]]

------------------------------------------------------------------------------
\* Where a resource occurs, oldest first: links and references, whatever the link's extension.
\* A link and a reference with the same time and number come in any order; here the link first.
Occurrences(d, scans, r) ==
  Sorted({[source |-> "anchor", id |-> x.id, key |-> <<x.at, x.id, 1>>] : x \in {y \in d.links : y.scan \in scans /\ y.target = r}}
         \cup {[source |-> "embedded", id |-> x.id, key |-> <<x.at, x.id, 2>>] : x \in Embedded(d, scans, r)})

\* What a Site's scans say of a resource, newest scan first; the columns are taken one by one,
\* the greatest of each.
History(d, scans, r) ==
  LET one(s) == [scan |-> s, observed |-> Observed(d, {s}, r) # {},
                 kind |-> IF Observed(d, {s}, r) # {} THEN Greatest({x.kind : x \in Observed(d, {s}, r)})
                          ELSE Aggregate(d, {s}, r).kind,
                 snapshot |-> Greatest({x.id : x \in Observed(d, {s}, r)}),
                 occurrences |-> Cardinality(Embedded(d, {s}, r)) + Cardinality(Anchors(d, {s}, r))]
      with == {s \in scans : Observed(d, {s}, r) \cup Embedded(d, {s}, r) \cup Anchors(d, {s}, r) # {}}
  IN Sorted({[entry |-> one(s), key |-> <<-s>>] : s \in with})
==============================================================================
