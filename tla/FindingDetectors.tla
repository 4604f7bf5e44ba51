-------------------------- MODULE FindingDetectors --------------------------
(***************************************************************************)
(* The fourteen detectors of finding_detectors.py: what each makes of one  *)
(* page's snapshot in the frozen evidence of an evaluation.                *)
(*                                                                         *)
(* A snapshot is Missing or a record of what a detector reads.  A result   *)
(* is "clear", "unknown", or the severity of what was detected; details,   *)
(* reason codes and samples of evidence are left out.  URLs are values and *)
(* Normalize gives the url each stands for, or Invalid.                    *)
(***************************************************************************)
EXTENDS Naturals, Sequences, FiniteSets, SequencesExt

CONSTANTS
  Missing,       \* no snapshot, no URL, no sitemap membership
  Invalid,       \* a URL that cannot be normalized
  Normalize(_)   \* normalize_url_for_version under the scan's settings

Severities == {"medium", "high"}
Results == Severities \cup {"clear", "unknown"}

Outcome(result) == IF result \in Severities THEN "detected" ELSE result

Usable(s) == s # Missing /\ s.fetch = "fetched" /\ s.status # "none"

UsableHtml(s) == Usable(s) /\ s.kind = "html"

\* Of a usable snapshot.
ByStatus(s) == CASE s.status = "5xx" -> "high" [] s.status = "4xx" -> "medium" [] OTHER -> "clear"

HttpError(s) == IF Usable(s) THEN ByStatus(s) ELSE "unknown"

\* An error type among STATIC_FETCH_FAILURE_ERROR_TYPES is "classified".
StaticFetchFailure(s) ==
  IF s # Missing /\ s.fetch = "failed" /\ s.error = "classified" THEN "high"
  ELSE IF Usable(s) THEN "clear" ELSE "unknown"

------------------------------------------------------------------------------
(* parse_robots_directives.  meta is the set of directives of the meta     *)
(* element; each header value is a sequence of segments, and an agent that *)
(* one names goes for the segments behind it as well.                      *)

Scoped(value, i) == \E k \in 1..i : value[k].agent # Missing

Segments(s) == UNION {{<<v, i>> : i \in 1..Len(s.header[v])} : v \in 1..Len(s.header)}

Generic(s) == {x \in Segments(s) : ~Scoped(s.header[x[1]], x[2])}

Applicable(s) == s.meta \cup UNION {s.header[x[1]][x[2]].tokens : x \in Generic(s)}

Ambiguous(s) ==
  \E x \in Segments(s) \ Generic(s) : s.header[x[1]][x[2]].tokens \cap {"index", "noindex"} # {}

ByDirectives(s, sought) ==
  IF ~UsableHtml(s) THEN "unknown"
  ELSE IF sought \subseteq Applicable(s) THEN "medium"
  ELSE IF Ambiguous(s) THEN "unknown" ELSE "clear"

Noindex(s) == ByDirectives(s, {"noindex"})
IndexabilityConflict(s) == ByDirectives(s, {"index", "noindex"})

MissingTitle(s) == IF ~UsableHtml(s) THEN "unknown" ELSE IF s.title THEN "clear" ELSE "medium"

\* head: the number of canonical links of the parsed head, Missing where it was not kept.
MultipleCanonicals(s) ==
  IF ~UsableHtml(s) \/ s.head = Missing THEN "unknown" ELSE IF s.head > 1 THEN "medium" ELSE "clear"

InvalidCanonical(s) ==
  IF ~UsableHtml(s) THEN "unknown"
  ELSE IF s.canonical # Missing /\ Normalize(s.canonical) = Invalid THEN "medium" ELSE "clear"

NonHtmlRepresentation(s) ==
  IF ~Usable(s) \/ s.kind = "unclassified" THEN "unknown"
  ELSE IF s.kind = "html" THEN "clear" ELSE "medium"

------------------------------------------------------------------------------
(* The other pages of the scan.  A context c has the snapshots by page,    *)
(* the order in which they were read, the links, the sitemap roots that    *)
(* are active, whether all their leaves are usable, and the declarations   *)
(* of each page in usable leaves.                                          *)

UrlsOf(s) == SelectSeq(<<s.requested, s.final>>, LAMBDA u : u # Missing /\ Normalize(u) # Invalid)

Answers(s, url) == s # Missing /\ \E u \in ToSet(UrlsOf(s)) : Normalize(u) = url

\* build_snapshot_url_index: the first snapshot with the URL keeps it.
AtUrl(c, url) ==
  LET pages == SelectSeq(c.order, LAMBDA p : Answers(c.snapshots[p], url))
  IN IF pages = <<>> THEN Missing ELSE c.snapshots[Head(pages)]

CanonicalTargetHttpError(s, c) ==
  IF ~UsableHtml(s) THEN "unknown"
  ELSE IF s.canonical = Missing THEN "clear"
  ELSE IF Normalize(s.canonical) = Invalid THEN "unknown"
  ELSE LET target == AtUrl(c, Normalize(s.canonical))
       IN IF ~Usable(target) THEN "unknown"
          ELSE IF target.status \in {"4xx", "5xx"} THEN "high" ELSE "clear"

\* _eligible_internal_occurrences
Eligible(c, page) ==
  {l \in c.links : /\ l.from = page /\ l.to # Missing
                   /\ l.relation = "page_link"
                   /\ l.scope \in {"crawlable", "already_seen"}
                   /\ l.role \notin {"email", "telephone", "download"}}

Target(c, l) == c.snapshots[l.to]

\* Some link is of the kind sought, or some target is not known, or all is well.
ByLinks(s, links, Found(_), Known(_), severity) ==
  CASE ~Usable(s) -> "unknown"
    [] Usable(s) /\ \E l \in links : Known(l) /\ Found(l) -> severity
    [] OTHER -> IF \E l \in links : ~Known(l) THEN "unknown" ELSE "clear"

BrokenInternalLinks(s, c, page) ==
  LET links == Eligible(c, page)
      Known(l) == Usable(Target(c, l))
      Broken(l) == Target(c, l).status \in {"4xx", "5xx"}
      Worst == IF \E l \in links : Known(l) /\ Target(c, l).status = "5xx" THEN "high" ELSE "medium"
  IN ByLinks(s, links, Broken, Known, Worst)

\* _redirect_target_state
RedirectState(l, target) ==
  IF ~target.hops THEN "direct"
  ELSE IF Missing \in {l.url, target.final} \/ Normalize(target.final) = Invalid THEN "unknown"
  ELSE IF Normalize(target.final) # l.url THEN "redirect" ELSE "direct"

InternalLinksToRedirects(s, c, page) ==
  LET State(l) == IF Usable(Target(c, l)) THEN RedirectState(l, Target(c, l)) ELSE "unknown"
  IN ByLinks(s, Eligible(c, page), LAMBDA l : State(l) = "redirect", LAMBDA l : State(l) # "unknown", "medium")

------------------------------------------------------------------------------
(* Sitemap detectors look at a page only where its declaration is proved.  *)

Membership(c, page) ==
  CASE c.roots = {} -> "not_applicable"
    [] c.roots # {} /\ c.declared[page] # <<>> -> "present"
    [] OTHER -> IF c.complete THEN "absent" ELSE "unknown"

WhereDeclared(c, page, result) ==
  CASE Membership(c, page) \in {"absent", "not_applicable"} -> "clear"
    [] Membership(c, page) = "unknown" -> "unknown"
    [] OTHER -> result

SitemapPageHttpError(s, c, page) == WhereDeclared(c, page, HttpError(s))
SitemapPageNoindex(s, c, page) == WhereDeclared(c, page, Noindex(s))

\* Against the first declaration.
RedirectedFrom(s, declared) ==
  IF ~Usable(s) THEN "unknown"
  ELSE IF ~s.hops THEN "clear"
  ELSE IF Missing \in {declared, s.final} \/ Normalize(s.final) = Invalid THEN "unknown"
  ELSE IF Normalize(s.final) # declared THEN "medium" ELSE "clear"

SitemapPageRedirect(s, c, page) ==
  IF c.declared[page] = <<>> THEN WhereDeclared(c, page, "unknown")
  ELSE WhereDeclared(c, page, RedirectedFrom(s, Head(c.declared[page])))

------------------------------------------------------------------------------

SitemapDetectors == {"sitemap_page_http_error", "sitemap_page_noindex", "sitemap_page_redirect"}

PageDetectors ==
  {"page_http_error", "page_static_fetch_failure", "page_noindex", "page_indexability_conflict",
   "page_missing_title", "page_invalid_canonical", "page_multiple_canonicals",
   "page_canonical_target_http_error", "page_non_html_representation",
   "page_broken_internal_links", "page_internal_links_to_redirects"}

CurrentFindingDetectors == PageDetectors \cup SitemapDetectors

\* CURRENT_FINDING_DETECTORS, one applied to one page.
Evaluate(detector, c, page) ==
  LET s == c.snapshots[page]
  IN CASE detector = "page_http_error"                  -> HttpError(s)
       [] detector = "page_static_fetch_failure"        -> StaticFetchFailure(s)
       [] detector = "page_noindex"                     -> Noindex(s)
       [] detector = "page_indexability_conflict"       -> IndexabilityConflict(s)
       [] detector = "page_missing_title"               -> MissingTitle(s)
       [] detector = "page_invalid_canonical"           -> InvalidCanonical(s)
       [] detector = "page_multiple_canonicals"         -> MultipleCanonicals(s)
       [] detector = "page_canonical_target_http_error" -> CanonicalTargetHttpError(s, c)
       [] detector = "page_non_html_representation"     -> NonHtmlRepresentation(s)
       [] detector = "page_broken_internal_links"       -> BrokenInternalLinks(s, c, page)
       [] detector = "page_internal_links_to_redirects" -> InternalLinksToRedirects(s, c, page)
       [] detector = "sitemap_page_http_error"          -> SitemapPageHttpError(s, c, page)
       [] detector = "sitemap_page_noindex"             -> SitemapPageNoindex(s, c, page)
       [] detector = "sitemap_page_redirect"            -> SitemapPageRedirect(s, c, page)

------------------------------------------------------------------------------
(* docs/findings.md: evidence that is missing or failed is unknown, and    *)
(* unknown evidence never resolves a Finding.  Losing the page's snapshot, *)
(* or the target's, or a leaf of a sitemap, never turns what was detected  *)
(* into clear.                                                             *)

Worse(before, after) == Outcome(before) = "detected" => Outcome(after) # "clear"

LostSnapshot(c, p) == [c EXCEPT !.snapshots[p] = Missing]
LostLeaf(c) == [c EXCEPT !.complete = FALSE, !.declared = [p \in DOMAIN c.declared |-> <<>>]]

LosingEvidenceResolvesNothing(contexts) ==
  \A c \in contexts : \A page \in DOMAIN c.snapshots, d \in CurrentFindingDetectors :
    LET before == Evaluate(d, c, page)
    IN /\ \A lost \in DOMAIN c.snapshots : Worse(before, Evaluate(d, LostSnapshot(c, lost), page))
       /\ Worse(before, Evaluate(d, LostLeaf(c), page))
==============================================================================
