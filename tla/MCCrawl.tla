------------------------------- MODULE MCCrawl -------------------------------
(* Four pages in scope and one outside: the base page links to a second and *)
(* outside, the second to a third; a fourth is only ever listed.  An index  *)
(* names a sitemap and itself; the sitemap lists one page or two.           *)
EXTENDS ScanRetention, Sequences

MCPages == 1 .. 5
MCInScope == 1 .. 4
MCLinks == [p \in MCPages |-> CASE p = 1 -> {2, 5} [] p = 2 -> {3} [] OTHER -> {}]
MCSelections == {{4, 5}}
MCSources == {"list", "robots", "index", "map"}
MCKind == [s \in MCSources |-> CASE s = "list" -> "manual" [] s = "robots" -> "robots" [] OTHER -> "sitemap"]
MCSeedChoices == {{}, MCSources}

Listing(urls) == [urls |-> urls, children |-> <<>>]
Naming(children) == [urls |-> <<>>, children |-> children]

MCDocuments ==
  [s \in MCSources |-> CASE s = "list"   -> {NoDocument}
                         [] s = "robots" -> {Naming(<<"index", "map">>)}
                         [] s = "index"  -> {Naming(<<"map", "index">>)}
                         [] s = "map"    -> {Listing(<<4, 3>>), Listing(<<5>>)}]

------------------------------------------------------------------------------
\* One fetch, over every web of three urls: b is written in two ways, c is out of scope.
F == INSTANCE ResponseFetch

Web == {"a", "b", "b/", "c"}
Normal(url) == IF url = "b/" THEN "b" ELSE url

Meets(failure, redirect, location) ==
  [failure |-> failure, redirect |-> redirect, location |-> location, mime |-> F!KindNamed("html_page"), given |-> TRUE,
   filename |-> F!Null, signature |-> F!Null, ext |-> F!Null, declared |-> F!Null, body |-> 1]
Met == {Meets("none", FALSE, F!NoUrl), Meets("read_timeout", FALSE, F!NoUrl)} \cup {Meets("none", TRUE, to) : to \in Web \cup {F!NoUrl}}

Allowed == [url \in Web |-> [ok |-> url # "c", error |-> "scope_excluded", to |-> Normal(url)]]
Limit(redirects, deadline, destinations) ==
  [maxRedirects |-> redirects, deadline |-> deadline, destinations |-> destinations, judge |-> Allowed,
   maxBytes |-> 3, metadataOnly |-> TRUE]
Limits == {Limit(n, 9, Web) : n \in 0..3} \cup {Limit(3, 2, Web), Limit(3, 9, Web \ {"b"})}

\* A fetch makes no more requests than it may follow redirects, and one; it asks for no url twice
\* unless it began at one that is not written in its normal form; what it follows was allowed
\* first, and is what the chain says; it ends with the page only where it gets to it within the
\* limit, and a loop is never mistaken for a page.
ASSUME RedirectsFollowed ==
  \A web \in [{"a", "b", "b/"} -> Met], start \in {"a", "b", "b/"}, f \in Limits :
    LET got == F!Get(web, start, f)
        asked == got.requested
    IN /\ Len(asked) =< f.maxRedirects + 1
       /\ \A i, k \in DOMAIN asked : i < k /\ asked[i] = asked[k] => FALSE
       /\ \A i, k \in DOMAIN asked : i < k /\ Normal(asked[i]) = Normal(asked[k]) => i = 1 /\ start = "b/"
       /\ \A i \in DOMAIN asked \ {1} :
            /\ asked[i] # "c" /\ asked[i] \in f.destinations
            /\ got.chain # <<>> => got.chain[i - 1].from = asked[i - 1] /\ Normal(got.chain[i - 1].to) = asked[i]
       /\ got.end.outcome = "full_html" <=>
            \E n \in 1..(f.maxRedirects + 1) :
              /\ n =< f.deadline /\ Len(asked) = n /\ Len(got.chain) = n - 1
              /\ web[asked[n]] = Meets("none", FALSE, F!NoUrl) /\ got.end.url = asked[n]
       /\ got.end.outcome = "redirect_loop" => Normal(got.chain[Len(got.chain)].to) \in {asked[i] : i \in DOMAIN asked}
       /\ got.end.outcome = "too_many_redirects" => Len(got.chain) = f.maxRedirects + 1

Bodies ==
  [failure: {"none"}, redirect: {FALSE}, location: {F!NoUrl}, mime: {F!Null, F!KindNamed("html_page"), F!KindNamed("image")},
   given: BOOLEAN, filename: {F!Null, F!KindNamed("document")}, signature: {F!Null, F!KindNamed("html_page"), F!KindNamed("image")},
   ext: {F!Null, F!KindNamed("html_page")}, declared: {F!Null, 0, 3, 4}, body: 0..5]

\* Of a page all is kept or nothing, and no more than the limit; of anything else at most the
\* first piece; and what is recorded as a page was read as one, from the same bytes.
ASSUME BodyRead ==
  \A r \in {x \in Bodies : x.mime # F!Null => x.given}, limit \in {3, 5} :
    LET read == F!ReadClassifiedResponse(r, [Limit(0, 9, Web) EXCEPT !.maxBytes = limit])
        page == F!IsHtml(F!Recorded(r, read))
    IN /\ read.kept =< limit /\ read.kept = read.transferred
       /\ read.state = "full_html" => page /\ read.kept = r.body
       /\ read.kept > F!PrefixLength => page
       /\ page /\ read.state # "response_too_large" => read.state \in {"full_html", "empty"}
       /\ F!IsHtml(F!BodyClass(r)) /\ r.body > limit => read.state = "response_too_large"
=============================================================================
