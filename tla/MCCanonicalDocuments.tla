------------------------ MODULE MCCanonicalDocuments ------------------------
(* Documents of small bodies: up to three blocks, whose words are all       *)
(* different, within ample and within tight limits.                         *)
EXTENDS Naturals, FiniteSets, Sequences
S == INSTANCE CanonicalDocuments

LOCAL INSTANCE SequencesExt

Element(tag, text, children) ==
  [tag |-> tag, text |-> text, tail |-> <<>>, children |-> children, attributes |-> <<>>]
Tag(tag, word) == Element(tag, <<word>>, <<>>)
Tailed(e, word) == [e EXCEPT !.tail = <<word>>]
Around(tag, e) == Element(tag, <<>>, <<e>>)

\* A block of each kind, as the k-th of its body.
Block(kind, k) ==
  LET w == 10 * k
  IN CASE kind \in {"h1", "h2", "h3"} -> Tag(kind, w)
       [] kind = "p" -> Element("p", <<w>>, <<Tailed(Tag("a", w + 1), w + 2), Tag("script", w + 3)>>)
       [] kind = "list" ->
            LET under == Element("ul", <<>>, <<Tag("li", w + 1), Tag("li", w + 2)>>)
            IN Around("ul", Element("li", <<w>>, <<under>>))
       [] kind = "table" -> Around("table", Around("tbody", Element("tr", <<>>, <<Tag("th", w), Tag("td", w + 1)>>)))
       [] kind = "terms" -> Element("dl", <<>>, <<Tag("dt", w), Tag("dd", w + 1)>>)
       [] kind = "figure" -> Element("figure", <<>>, <<Element("img", <<>>, <<>>), Tag("figcaption", w)>>)
       [] kind = "quote" -> Around("blockquote", Tag("p", w))
       [] kind = "code" -> Around("pre", Tag("code", w))
       [] kind = "nav" -> Around("nav", Tag("a", w))
       [] kind = "form" -> Around("form", Tag("span", w))
       [] kind = "script" -> Tailed(Tag("script", w), w + 1)
       [] kind = "wrapped" -> Around("div", Tag("p", w))
       [] kind = "part" -> Element("div", <<>>, <<Tag("h2", w), Tag("p", w + 1)>>)
       [] kind = "framed" -> Around("form", Element("div", <<>>, <<Tag("h3", w), Tag("p", w + 1)>>))

Heads == {"h1", "h2", "h3"}
Blocks == Heads \cup {"p", "list", "table", "terms", "figure", "quote", "code", "nav", "form", "script", "wrapped"}
Bodied(kinds) == Element("body", <<>>, [k \in DOMAIN kinds |-> Block(kinds[k], k)])
BodiesOf(kinds, n) == {Bodied(f) : f \in [1..n -> kinds]}
PlainBodies == BodiesOf(Blocks, 2) \cup BodiesOf(Heads \cup {"p", "nav"}, 4)
Bodies == PlainBodies \cup BodiesOf({"h2", "p", "part", "framed"}, 3)

Ample == [nodes |-> 99, characters |-> 99, runs |-> 99, depth |-> 99, attributes |-> 9, attributeCharacters |-> 9]
DocumentOf(body) == S!ExtractCanonicalDocument(body, Ample)

\* The words of an element in the order of its source, those of excluded elements left out.
RECURSIVE SourceWords(_)
SourceWords(e) ==
  IF e.tag \in {"script", "template"} THEN <<>>
  ELSE FoldLeft(LAMBDA words, c : words \o SourceWords(c) \o c.tail, e.text, e.children)

Positions(d, Test(_)) == SelectSeq([i \in DOMAIN d.nodes |-> i], LAMBDA i : Test(d.nodes[i].node))
HeadingsIn(d) == Positions(d, LAMBDA node : node.kind = "heading")
SectionsIn(d) == Positions(d, LAMBDA node : node.kind = "section")

------------------------------------------------------------------------------
\* The text of a page whose headings stand at the top is that of its source, each word once and in
\* order, without what is excluded.
ASSUME TextKept == \A body \in PlainBodies :
  LET d == DocumentOf(body) IN d.text = SourceWords(body) /\ d.state = "ready"

\* Wherever the headings stand no word of these pages is lost or doubled.
ASSUME NothingLost == \A body \in Bodies :
  LET text == DocumentOf(body).text IN
  Len(text) = Len(SourceWords(body)) /\ ToSet(text) = ToSet(SourceWords(body))

\* A section lies in that of the last heading before its own that is of a lower level, or in none.
ASSUME SectionsNest == \A body \in PlainBodies :
  LET d == DocumentOf(body)
      heads == HeadingsIn(d)
      LevelOf(i) == d.nodes[heads[i]].node.semantic[1]
      SectionOf(i) == d.nodes[heads[i]].node.parent
  IN \A i \in DOMAIN heads :
       LET lower == {k \in 1 .. i - 1 : LevelOf(k) < LevelOf(i) /\ \A n \in k + 1 .. i - 1 : LevelOf(n) >= LevelOf(i)}
           above == {k \in 1 .. i - 1 : LevelOf(k) < LevelOf(i)}
           last == CHOOSE k \in above : \A n \in above : n =< k
       IN d.nodes[SectionOf(i)].node.parent = IF above = {} THEN S!Root ELSE SectionOf(last)

\* Rows of a document can be kept and read as a tree: parents come first, what is under a node
\* follows it without a gap, depths count the parents, and the hashes are those of the rows.
ASSUME TreeInRows == \A body \in Bodies :
  LET d == DocumentOf(body) IN
  /\ S!ValidateCanonicalDocument(d)
  /\ \A i \in DOMAIN d.nodes :
       LET x == d.nodes[i] IN
       /\ i = S!Root => x.node.parent = 0 /\ x.depth = 0
       /\ i # S!Root => x.node.parent \in 1 .. i - 1 /\ x.depth = d.nodes[x.node.parent].depth + 1
       /\ \A k \in i + 1 .. Len(d.nodes) : k =< i + x.descendants <=> \A n \in i + 1 .. k : d.nodes[n].depth > x.depth

\* The outline adds up: below the sections at the top are all others, and their words are the document's.
ASSUME OutlineAddsUp == \A body \in Bodies :
  LET d == DocumentOf(body)
      outline == S!OutlineSections(d)
      At(position) == CHOOSE s \in ToSet(outline) : s.position = position
      Sum(Which(_), Of(_)) == FoldLeft(LAMBDA sum, s : sum + Of(s), 0, SelectSeq(outline, Which))
  IN /\ \A s \in ToSet(outline) :
          /\ s.children = Cardinality({o \in ToSet(outline) : o.parent = s.position})
          /\ s.descendants = s.children + Sum(LAMBDA o : o.parent = s.position, LAMBDA o : o.descendants)
          /\ s.parent # 0 => ToSet(s.all) \subseteq ToSet(At(s.parent).all)
          /\ s.kind = "preamble" <=> s.level = 0
     /\ FoldLeft(LAMBDA words, s : IF s.parent = 0 THEN words \o s.all ELSE words, <<>>, outline) = d.text

\* Two pages with the same headings and the same text in them have one identity however their
\* blocks are wrapped, as long as no heading is.
ASSUME WrappersFlattened == \A kinds \in [1..3 -> {"h2", "h3", "p"}] :
  LET body == Bodied(kinds)
      Wrapped(e, tag) == IF e.tag = "p" THEN Around(tag, Around("div", e)) ELSE e
  IN \A tag \in {"div", "section", "main", "article"} :
       DocumentOf([body EXCEPT !.children = [k \in DOMAIN @ |-> Wrapped(@[k], tag)]]).text = DocumentOf(body).text

\* A wrapper around all of a page that starts with a heading changes what the page says: what
\* follows the heading within the wrapper goes before it, to a section of its own.
ASSUME WrapperMoves ==
  LET body == Bodied(<<"h2", "p">>)
      wrapped == DocumentOf(Element("body", <<>>, <<[body EXCEPT !.tag = "div"]>>))
  IN /\ wrapped.identity # DocumentOf(body).identity
     /\ wrapped.text # DocumentOf(body).text

------------------------------------------------------------------------------
\* Limits that cut a page of two blocks, each at a place of its own.
TightLimits ==
  {[Ample EXCEPT !.nodes = n] : n \in 1..6} \cup {[Ample EXCEPT !.characters = n] : n \in 0..3}
    \cup {[Ample EXCEPT !.runs = n] : n \in 0..4} \cup {[Ample EXCEPT !.depth = n] : n \in 0..3}
Pairs == BodiesOf(Blocks, 2)
RECURSIVE RunsIn(_)
RunsIn(runs) == FoldLeft(LAMBDA sum, run : sum + 1 + RunsIn(run.runs), 0, runs)
OfNodes(d, Count(_)) == FoldLeft(LAMBDA sum, x : sum + Count(x.node), 0, d.nodes)

\* A limit is kept to, and where it took anything away the document says that it is partial; what
\* is left is a tree of its own, and its text a part of the whole text, in the same order.  The text
\* between blocks is no run that is counted.
ASSUME LimitsKept == \A body \in Pairs, limits \in TightLimits :
  LET d == S!ExtractCanonicalDocument(body, limits)
      whole == DocumentOf(body)
  IN /\ Len(d.nodes) =< limits.nodes
     /\ OfNodes(d, LAMBDA node : Len(node.text)) =< limits.characters
     /\ OfNodes(d, LAMBDA node : RunsIn(node.inline))
          =< limits.runs + Cardinality({k \in 1..2 : body.children[k].tag = "script"})
     /\ d.state = "ready" => d.nodes = whole.nodes
     /\ S!ValidateCanonicalDocument(d)
     /\ d.text = SelectSeq(whole.text, LAMBDA w : w \in ToSet(d.text))

\* A section whose heading did not fit is a section of a heading all the same, of no level.
ASSUME HeadlessSection == \E body \in Pairs, limits \in TightLimits :
  \E s \in ToSet(S!OutlineSections(S!ExtractCanonicalDocument(body, limits))) : s.kind = "heading" /\ s.level = 0

\* The depth that is limited is that of the source's wrappers, not that of the document: a plain
\* page is cut, and sections within sections are not.
ASSUME DepthOfWrappers ==
  LET cut == S!ExtractCanonicalDocument(Bodied(<<"wrapped">>), [Ample EXCEPT !.depth = 1])
      nested == S!ExtractCanonicalDocument(Bodied(<<"h1", "h2", "h3">>), [Ample EXCEPT !.depth = 2])
  IN /\ cut.reasons = {"depth_limit"} /\ cut.text = <<>>
     /\ nested.state = "ready" /\ \E x \in ToSet(nested.nodes) : x.depth = 4

\* Attributes that are too many or too long make a document partial and change nothing else of it.
ASSUME AttributesApart == \A body \in BodiesOf(Blocks, 1), sizes \in {<<10>>, <<4, 6>>, <<1, 1, 1>>, <<5>>} :
  LET Sized(e) == [e EXCEPT !.children[1].attributes = sizes]
      d == S!ExtractCanonicalDocument(Sized(body), [Ample EXCEPT !.attributes = 2])
      added == body.children[1].tag \notin {"script", "nav", "div"}
  IN /\ d.nodes = DocumentOf(body).nodes
     /\ d.state = IF sizes # <<5>> /\ added THEN "partial" ELSE "ready"

\* Text that has no place in a block is lost, and the document is ready nevertheless: a list within
\* a wrapper in an item, the caption of a table, terms in a group, and text beside a figure's parts.
ASSUME LostSilently ==
  LET lost == {Around("ul", Element("li", <<1>>, <<Around("div", Around("ul", Tag("li", 2)))>>)),
               Element("table", <<>>, <<Tag("caption", 2), Around("tr", Tag("td", 1))>>),
               Element("dl", <<>>, <<Tag("dt", 1), Around("div", Tag("dd", 2))>>),
               Element("figure", <<>>, <<Tailed(Tag("figcaption", 1), 2)>>)}
  IN \A e \in lost : DocumentOf(Around("body", e)).state = "ready" /\ DocumentOf(Around("body", e)).text = <<1>>

\* Text after a list within an item comes before it.
ASSUME ItemsReordered ==
  DocumentOf(Around("body", Around("ul", Element("li", <<1>>, <<Tailed(Around("ul", Tag("li", 2)), 3)>>)))).text
    = <<1, 3, 2>>

\* What is excluded from prose is kept within code.
ASSUME CodeKeepsAll ==
  \A tag \in {"pre", "code"} :
    DocumentOf(Around("body", Element(tag, <<1>>, <<Tag("script", 2)>>))).text = <<1, 2>>

------------------------------------------------------------------------------
(* Preparation of three bodies.                                            *)
Blobs == <<1, 2, 3>>
Documents == <<"ready", "partial", "unavailable">>
Meeting == {"ok", "gone", "unreadable", "commit_fails", "raced"}
Begun(artifacts, stopOnError) ==
  [artifacts |-> artifacts, prepared |-> 0, failed |-> 0, stopped |-> FALSE, stopOnError |-> stopOnError]

\* A preparation comes to each body until it is stopped, replaces no document, keeps one for each
\* body that it did not fail, and counts every body it came to; what is left a next one takes up.
ASSUME PreparationResumes ==
  \A meets \in [1..3 -> Meeting], cancelAt \in 1..4, stopOnError \in BOOLEAN, early \in SUBSET {2, 3} :
    LET before == [b \in early |-> "partial"]
        end == S!BuildMissing(Begun(before, stopOnError), Blobs, meets, Documents, cancelAt)
        Fails(i) == meets[i] \in {"gone", "commit_fails"} \/ (meets[i] = "unreadable" /\ i \notin early)
        Come(i) == i < cancelAt /\ (stopOnError => \A k \in 1 .. i - 1 : ~Fails(k))
        bodies == {[resource |-> i, at |-> i, id |-> i, blob |-> i, fetched |-> TRUE] : i \in 1..3}
        next == S!BuildMissing(Begun(end.artifacts, FALSE), S!MissingBlobs(bodies, end.artifacts),
                               [i \in 1..3 |-> "ok"], Documents, 4)
    IN /\ \A b \in early : end.artifacts[b] = "partial"
       /\ DOMAIN end.artifacts = early \cup {i \in 1..3 : Come(i) /\ ~Fails(i)}
       /\ end.failed = Cardinality({i \in 1..3 : Come(i) /\ Fails(i)})
       /\ end.prepared + end.failed >= Cardinality({i \in 1..3 : Come(i)})
       /\ DOMAIN next.artifacts = 1..3 /\ \A b \in DOMAIN end.artifacts : next.artifacts[b] = end.artifacts[b]

\* A body whose commit fails is counted as prepared and as failed.
ASSUME CountedTwice ==
  LET end == S!BuildMissing(Begun(<<>>, FALSE), <<1>>, <<"commit_fails">>, Documents, 4)
  IN end.prepared + end.failed = 2 /\ end.artifacts = <<>>

Observations == [resource : {1}, at : 1..2, id : {1, 2}, blob : 0..2, fetched : BOOLEAN]

\* A page shows one body at most, that of the last fetch that kept one: not always the last fetch.
ASSUME OneBodyPerPage ==
  LET Histories == {h \in SUBSET Observations : Cardinality(h) = 2 /\ \A x, y \in h : x.id = y.id => x = y}
      Later(x, y) == x.at > y.at \/ (x.at = y.at /\ x.id > y.id)
  IN /\ \A h \in Histories :
          LET shown == S!LatestContent(h, {1}) IN
          /\ Cardinality(shown) =< 1
          /\ shown = {} <=> \A x \in h : x.blob = 0 \/ ~x.fetched
          /\ \A x \in shown : S!StructuredContentStatus(x, <<"ready">>) \in {"ready", "not_prepared"}
     /\ \E h \in Histories : \E x \in S!LatestContent(h, {1}), y \in h : y.fetched /\ Later(y, x)
=============================================================================
