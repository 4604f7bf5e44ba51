----------------------------- MODULE MCFindings -----------------------------
(* One page, one sitemap, two of the detectors. *)
EXTENDS Findings, TLC

CONSTANTS p1, r1

Urls == {"u1", "u2", "u3", "bad"}
MCNormalize(url) == IF url = "bad" THEN Invalid ELSE url

Page == [fetch |-> "fetched", status |-> "ok", error |-> "other", kind |-> "html", meta |-> {},
         header |-> <<>>, title |-> TRUE, head |-> 0, canonical |-> Missing, requested |-> "u1",
         final |-> "u1", hops |-> FALSE]

Crawl(s) == [snapshots |-> p1 :> s, order |-> <<p1>>, links |-> {}]
MCCrawls == {Crawl([Page EXCEPT !.status = "4xx"]), Crawl(Page), Crawl(Missing)}

Index == [path |-> <<>>, status |-> "completed", type |-> "sitemapindex", materialized |-> FALSE,
          rejected |-> FALSE, entries |-> {}]
Leaf == [path |-> <<1>>, status |-> "completed", type |-> "urlset", materialized |-> TRUE,
         rejected |-> FALSE, entries |-> {<<p1, {"u1"}>>}]
Tree(status, nodes) == [status |-> status, nodes |-> nodes]
MCTrees == {Tree("completed", {Index, Leaf}), Tree("completed_with_errors", {Index, [Leaf EXCEPT !.status = "failed"]}),
            Tree("failed", {})}

\* A page that fails and stays declared.
FailingCrawl == {Crawl([Page EXCEPT !.status = "4xx"])}
DeclaringTree == {Tree("completed", {Index, Leaf})}

------------------------------------------------------------------------------
(* The detectors, on two pages that differ in everything they read.        *)

Second == [Page EXCEPT !.requested = "u2", !.final = "u2"]

Segment(agent, tokens) == [agent |-> agent, tokens |-> tokens]
Headers == {<<>>, <<<<Segment(Missing, {"noindex"})>>>>,
            <<<<Segment("bot", {"all"}), Segment(Missing, {"noindex"})>>, <<Segment(Missing, {"index"})>>>>}

Subjects ==
  {Missing, [Page EXCEPT !.fetch = "failed", !.status = "none", !.error = "classified"],
   [Page EXCEPT !.fetch = "failed", !.status = "none"], [Page EXCEPT !.status = "5xx"],
   [Page EXCEPT !.kind = "other"], [Page EXCEPT !.hops = TRUE, !.final = "u3"],
   [Page EXCEPT !.hops = TRUE, !.final = "bad"], [Page EXCEPT !.title = FALSE, !.head = Missing]} \cup
  {[Page EXCEPT !.meta = meta, !.header = header] :
     meta \in SUBSET {"index", "noindex"}, header \in Headers} \cup
  {[Page EXCEPT !.canonical = url, !.head = n] : url \in {"u2", "u3", "bad"}, n \in {1, 2}}

Targets == {Missing, Second, [Second EXCEPT !.status = "4xx"], [Second EXCEPT !.hops = TRUE, !.final = "u3"],
            [Second EXCEPT !.fetch = "skipped"]}

Link == [from |-> "one", to |-> "two", relation |-> "page_link", scope |-> "crawlable", role |-> "text", url |-> "u2"]
LinkSets == {{}, {Link}, {[Link EXCEPT !.role = "download"]}, {Link, [Link EXCEPT !.url = Missing]}}

Contexts ==
  [snapshots: {("one" :> s @@ "two" :> t) : s \in Subjects, t \in Targets},
   order: {<<"two", "one">>}, links: LinkSets, roots: {{}, {1}}, complete: BOOLEAN,
   declared: {("one" :> d @@ "two" :> <<>>) : d \in {<<>>, <<"u1">>}}]

ASSUME DetectorsSound == LosingEvidenceResolvesNothing(Contexts)

\* What the code computes by recursion over the tree: the leaves it collects, and whether all are usable.
RECURSIVE Collected(_, _), AllPass(_, _)
Children(nodes, node) == {n \in nodes : n.path # <<>> /\ Front(n.path) = node.path}
Collected(nodes, node) ==
  IF ~Passes(node) THEN {}
  ELSE IF node.type = "urlset" THEN {node} ELSE UNION {Collected(nodes, n) : n \in Children(nodes, node)}
AllPass(nodes, node) == Passes(node) /\ \A n \in Children(nodes, node) : AllPass(nodes, n)

Node(path) == {[path |-> path, status |-> "completed", type |-> type, materialized |-> m, rejected |-> FALSE, entries |-> {}] :
                 type \in {"urlset", "sitemapindex", "none"}, m \in BOOLEAN}
Forests == {{a, b, c, d} : a \in {n \in Node(<<>>) : n.type = "sitemapindex"},
            b \in {n \in Node(<<1>>) : n.type = "sitemapindex"}, c \in Node(<<1, 1>>), d \in Node(<<2>>)}

ASSUME LeavesCollected ==
  \A nodes \in Forests : LET root == CHOOSE n \in nodes : n.path = <<>>
                             tree == [status |-> "completed", nodes |-> nodes]
                         IN UsableLeaves(tree) = Collected(nodes, root) /\ AllUsable(tree) = AllPass(nodes, root)
==============================================================================
