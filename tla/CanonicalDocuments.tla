------------------------- MODULE CanonicalDocuments -------------------------
(* Structured content: what extract_canonical_document makes of a page's   *)
(* body within its limits, the outline that is read off it, and how the    *)
(* bodies that have no document yet are prepared.                          *)
(*                                                                         *)
(* An element is [tag, text, tail, children, attributes]: a text is a      *)
(* sequence of words, each of which counts as one character, attributes    *)
(* are the sizes of those that are kept, in the order of their names.      *)
(* White space, DOM paths, counts of words and Markdown are left out.      *)
(*                                                                         *)
(* A builder is [nodes, limits, left, runsLeft, reasons, stack, current]:  *)
(* the nodes in the order they are added, the root first; the characters   *)
(* and runs that may still be kept; why something was not; the headings    *)
(* that are open, and the section that text goes to.                       *)
EXTENDS Naturals, FiniteSets, Sequences, SequencesExt

Excluded == {"head", "script", "style", "template", "noscript", "svg"}
Regions == {"main", "article", "nav", "header", "footer", "aside", "body"}
Wrappers == {"html", "body", "section", "div"}
Inline == {"span", "small", "mark", "abbr", "cite", "q", "time", "label", "bdi", "bdo",
           "a", "img", "code", "strong", "b", "em", "i"}
Level == [h1 |-> 1, h2 |-> 2, h3 |-> 3, h4 |-> 4, h5 |-> 5, h6 |-> 6]
Root == 1
NoSection == 0

Node(kind, region, text, inline, semantic) ==
  [kind |-> kind, parent |-> 0, region |-> region, text |-> text, inline |-> inline, semantic |-> semantic]
Bare(kind, region, semantic) == Node(kind, region, <<>>, <<>>, semantic)

Reason(b, reason) == [b EXCEPT !.reasons = @ \cup {reason}]

Add(b, parent, node, depth) ==
  CASE Len(b.nodes) >= b.limits.nodes -> Reason(b, "node_limit")
    [] Len(b.nodes) < b.limits.nodes /\ depth > b.limits.depth -> Reason(b, "depth_limit")
    [] OTHER -> [b EXCEPT !.nodes = Append(@, [node EXCEPT !.parent = parent])]

Grew(before, after) == Len(after.nodes) > Len(before.nodes)

BoundedText(b, text) ==
  LET kept == SubSeq(text, 1, IF Len(text) =< b.left THEN Len(text) ELSE b.left)
      taken == [b EXCEPT !.left = @ - Len(kept)]
  IN [b |-> IF Len(kept) < Len(text) THEN Reason(taken, "character_limit") ELSE taken, text |-> kept]

\* Attributes are kept while they are few and short enough; they change no more than the reasons.
Attributed(b, e) ==
  LET Size(n) == FoldLeft(LAMBDA sum, size : sum + size, 0, SubSeq(e.attributes, 1, n))
  IN IF \E n \in DOMAIN e.attributes : n > b.limits.attributes \/ Size(n) > b.limits.attributeCharacters
     THEN Reason(b, "source_attribute_limit") ELSE b

------------------------------------------------------------------------------
(* Inline runs.  A state of their making is [b, runs].                      *)

Run(kind, text, runs) == [kind |-> kind, text |-> text, runs |-> runs]

\* All the words in an element, excluded ones too.
RECURSIVE ElementText(_)
ElementText(e) == FoldLeft(LAMBDA words, c : words \o ElementText(c) \o c.tail, e.text, e.children)

\* Text next to text is one run.
TextRun(s, words) ==
  LET t == BoundedText(s.b, words)
  IN CASE t.text = <<>> -> [s EXCEPT !.b = t.b]
       [] t.text # <<>> /\ s.runs # <<>> /\ Last(s.runs).kind = "text" ->
            [b |-> t.b, runs |-> Front(s.runs) \o <<Run("text", Last(s.runs).text \o t.text, <<>>)>>]
       [] OTHER -> [b |-> t.b, runs |-> Append(s.runs, Run("text", t.text, <<>>))]

RECURSIVE Visit(_, _, _, _), Contents(_, _, _)
Contents(s, e, skip) ==
  FoldLeft(LAMBDA acc, c : TextRun(Visit(acc, c, e.tag, skip), c.tail), TextRun(s, e.text), e.children)

\* A node within an element of tag within; everything that is no mark is seen through.
Visit(s, e, within, skip) ==
  LET Nested(kind) == LET n == Contents([b |-> s.b, runs |-> <<>>], e, {})
                      IN [b |-> n.b, runs |-> Append(s.runs, Run(kind, <<>>, n.runs))]
      Leaf(kind) == [s EXCEPT !.runs = Append(@, Run(kind, <<>>, <<>>))]
  IN CASE e.tag \in Excluded \cup skip -> s
       [] e.tag = "img" -> Leaf("image")
       [] e.tag = "br" -> Leaf("line_break")
       [] e.tag = "a" -> Nested("link")
       [] e.tag = "code" /\ within # "pre" ->
            LET t == BoundedText(s.b, ElementText(e))
            IN [b |-> t.b, runs |-> Append(s.runs, Run("inline_code", t.text, <<>>))]
       [] e.tag \in {"strong", "b"} -> Nested("strong")
       [] e.tag \in {"em", "i"} -> Nested("emphasis")
       [] OTHER -> Contents(s, e, skip)

InlineRuns(b, e, skip, wrapRoot) ==
  LET start == [b |-> b, runs |-> <<>>]
  IN IF e.tag \in {"img", "br", "code"} \/ (wrapRoot /\ e.tag \in {"a", "strong", "b", "em", "i"})
     THEN Visit(start, e, "none", {}) ELSE Contents(start, e, skip)

\* As many of the runs as there is room for, an outer one before those within.
RECURSIVE BoundedInline(_, _)
BoundedInline(b, runs) ==
  LET Keep(s, run) ==
        IF s.b.runsLeft = 0 THEN [s EXCEPT !.b = Reason(@, "inline_run_limit")]
        ELSE LET n == BoundedInline([s.b EXCEPT !.runsLeft = @ - 1], run.runs)
             IN [b |-> n.b, runs |-> Append(s.runs, [run EXCEPT !.runs = n.runs])]
  IN FoldLeft(Keep, [b |-> b, runs |-> <<>>], runs)

RECURSIVE InlineText(_)
InlineText(runs) == FoldLeft(LAMBDA words, run : words \o run.text \o InlineText(run.runs), <<>>, runs)

------------------------------------------------------------------------------
(* Blocks; at is [region, depth], what the walk has come to.               *)

Deeper(at, by) == [at EXCEPT !.depth = @ + by]

AddSimple(b, e, parent, node, at) == Add(Attributed(b, e), parent, node, at.depth)

AddInlineBlock(b, e, parent, kind, at, runs, semantic) ==
  LET kept == BoundedInline(b, runs)
  IN AddSimple(kept.b, e, parent, Node(kind, at.region, InlineText(kept.runs), kept.runs, semantic), at)

AddInline(b, e, parent, kind, at, semantic) ==
  LET s == InlineRuns(b, e, {}, FALSE) IN AddInlineBlock(s.b, e, parent, kind, at, s.runs, semantic)

\* Text and blocks at the top go to the section of the last heading, or to one before all headings.
Placed(b, parent, at) ==
  LET opened == Add(b, Root, Bare("section", at.region, <<"preamble">>), at.depth)
      preamble == [opened EXCEPT !.current = IF Grew(b, opened) THEN Len(opened.nodes) ELSE NoSection]
  IN CASE parent # Root -> [b |-> b, parent |-> parent]
       [] parent = Root /\ b.current # NoSection -> [b |-> b, parent |-> b.current]
       [] OTHER -> [b |-> preamble, parent |-> IF Grew(b, opened) THEN preamble.current ELSE Root]

AddTextParagraph(b, e, parent, text, at) ==
  LET t == BoundedText(b, text)
      p == Placed(t.b, parent, at)
  IN IF t.text = <<>> THEN t.b
     ELSE AddSimple(p.b, e, p.parent, Node("paragraph", at.region, t.text, <<Run("text", t.text, <<>>)>>, <<>>), at)

\* A heading opens a section, within the last one of a lower level, wherever it stands.
AddHeading(b, e, at) ==
  LET level == Level[e.tag]
      closed == [b EXCEPT !.stack = SelectSeq(@, LAMBDA s : s.level < level)]
      parent == IF closed.stack = <<>> THEN Root ELSE Last(closed.stack).node
      opened == Add(closed, parent, Bare("section", at.region, <<"heading", level>>), at.depth)
      section == Len(opened.nodes)
      headed == AddInline(opened, e, section, "heading", Deeper(at, 1), <<level>>)
  IN IF ~Grew(closed, opened) THEN opened
     ELSE [headed EXCEPT !.stack = Append(@, [level |-> level, node |-> section]), !.current = section]

RECURSIVE WalkContainer(_, _, _, _), WalkElement(_, _, _, _), AddList(_, _, _, _)

\* The text and the children of an element, and the text between them.
WalkContainer(b, e, parent, at) ==
  LET Next(acc, c) ==
        LET walked == WalkElement(acc, c, parent, at)
        IN IF c.tail = <<>> THEN walked ELSE AddTextParagraph(walked, e, parent, c.tail, at)
  IN FoldLeft(Next, IF e.text = <<>> THEN b ELSE AddTextParagraph(b, e, parent, e.text, at), e.children)

AddContainerBlock(b, e, parent, kind, at, semantic) ==
  LET added == AddSimple(b, e, parent, Bare(kind, at.region, semantic), at)
  IN IF Grew(b, added) THEN WalkContainer(added, e, Len(added.nodes), Deeper(at, 1)) ELSE added

\* The items of a list, each with its text and then the lists directly within it.
AddItem(b, e, list, at) ==
  LET added == AddSimple(b, e, list, Bare("list_item", at.region, <<>>), Deeper(at, 1))
      item == Len(added.nodes)
      s == InlineRuns(added, e, {"ul", "ol"}, FALSE)
      texted == IF s.runs = <<>> THEN s.b ELSE AddInlineBlock(s.b, e, item, "paragraph", Deeper(at, 2), s.runs, <<>>)
      nested == SelectSeq(e.children, LAMBDA c : c.tag \in {"ul", "ol"})
  IN IF Grew(b, added) THEN FoldLeft(LAMBDA acc, c : AddList(acc, c, item, Deeper(at, 2)), texted, nested) ELSE added

AddList(b, e, parent, at) ==
  LET added == AddSimple(b, e, parent, Bare("list", at.region, <<e.tag>>), at)
      items == SelectSeq(e.children, LAMBDA c : c.tag = "li")
  IN IF Grew(b, added) THEN FoldLeft(LAMBDA acc, c : AddItem(acc, c, Len(added.nodes), at), added, items) ELSE added

AddFigure(b, e, parent, at) ==
  LET added == AddSimple(b, e, parent, Bare("figure", at.region, <<>>), at)
      figure == Len(added.nodes)
      Part(acc, c) == CASE c.tag = "figcaption" -> AddInline(acc, c, figure, "caption", Deeper(at, 1), <<>>)
                        [] c.tag = "img" -> AddInline(acc, c, figure, "paragraph", Deeper(at, 1), <<>>)
                        [] OTHER -> WalkElement(acc, c, figure, Deeper(at, 1))
  IN IF Grew(b, added) THEN FoldLeft(Part, added, e.children) ELSE added

TableRows(e) ==
  FlattenSeq([i \in DOMAIN e.children |->
    LET c == e.children[i]
    IN CASE c.tag = "tr" -> <<c>>
         [] c.tag \in {"thead", "tbody", "tfoot"} -> SelectSeq(c.children, LAMBDA r : r.tag = "tr")
         [] OTHER -> <<>>])

AddRow(b, e, table, at) ==
  LET added == AddSimple(b, e, table, Bare("table_row", at.region, <<>>), Deeper(at, 1))
      cells == SelectSeq(e.children, LAMBDA c : c.tag \in {"th", "td"})
      Cell(acc, c) == AddInline(acc, c, Len(added.nodes), "table_cell", Deeper(at, 2), <<c.tag>>)
  IN IF Grew(b, added) THEN FoldLeft(Cell, added, cells) ELSE added

AddTable(b, e, parent, at) ==
  LET added == AddSimple(b, e, parent, Bare("table", at.region, <<>>), at)
      Row(acc, row) == AddRow(acc, row, Len(added.nodes), at)
  IN IF Grew(b, added) THEN FoldLeft(Row, added, TableRows(e)) ELSE added

AddDefinitionList(b, e, parent, at) ==
  LET added == AddSimple(b, e, parent, Bare("definition_list", at.region, <<>>), at)
      KindOf == [dt |-> "definition_term", dd |-> "definition_description"]
      Part(acc, c) == AddInline(acc, c, Len(added.nodes), KindOf[c.tag], Deeper(at, 1), <<>>)
  IN IF Grew(b, added) THEN FoldLeft(Part, added, SelectSeq(e.children, LAMBDA c : c.tag \in {"dt", "dd"})) ELSE added

\* What an element that is neither region nor heading becomes where it is placed.
AddBlock(b, e, parent, at) ==
  CASE e.tag \in Wrappers -> WalkContainer(b, e, parent, Deeper(at, 1))
    [] e.tag = "p" -> AddInline(b, e, parent, "paragraph", at, <<>>)
    [] e.tag \in {"ul", "ol"} -> AddList(b, e, parent, at)
    [] e.tag = "figure" -> AddFigure(b, e, parent, at)
    [] e.tag = "figcaption" -> AddInline(b, e, parent, "caption", at, <<>>)
    [] e.tag = "blockquote" -> AddContainerBlock(b, e, parent, "blockquote", at, <<>>)
    [] e.tag = "pre" -> LET t == BoundedText(b, ElementText(e))
                        IN AddSimple(t.b, e, parent, Node("code_block", at.region, t.text, <<>>, <<>>), at)
    [] e.tag = "table" -> AddTable(b, e, parent, at)
    [] e.tag = "dl" -> AddDefinitionList(b, e, parent, at)
    [] e.tag = "hr" -> AddSimple(b, e, parent, Bare("thematic_break", at.region, <<>>), at)
    [] e.tag \in Inline \cup {"br"} ->
         LET s == InlineRuns(b, e, {}, TRUE) IN AddInlineBlock(s.b, e, parent, "paragraph", at, s.runs, <<>>)
    [] OTHER -> AddContainerBlock(b, e, parent, "generic_block", at, <<e.tag>>)

WalkElement(b, e, parent, at) ==
  LET p == Placed(b, parent, at)
  IN CASE e.tag \in Excluded -> b
       [] e.tag \in Regions ->
            WalkContainer(b, e, IF parent = Root /\ b.current # NoSection THEN b.current ELSE parent,
                          [region |-> e.tag, depth |-> at.depth + 1])
       [] e.tag \in DOMAIN Level -> AddHeading(b, e, at)
       [] OTHER -> AddBlock(p.b, e, p.parent, at)

------------------------------------------------------------------------------
(* The document that is built.                                             *)

ChildrenOf(b, n) == SelectSeq([i \in DOMAIN b.nodes |-> i], LAMBDA k : b.nodes[k].parent = n)

\* A node with all that is under it, in reading order: its positions.
RECURSIVE Preorder(_, _)
Preorder(b, n) == FoldLeft(LAMBDA done, c : done \o Preorder(b, c), <<n>>, ChildrenOf(b, n))

\* What the hashes are taken of.
Semantic(node) == <<node.kind, node.text, node.inline, node.semantic>>
RECURSIVE Subtree(_, _)
Subtree(b, n) ==
  LET under == ChildrenOf(b, n) IN <<Semantic(b.nodes[n]), [i \in DOMAIN under |-> Subtree(b, under[i])]>>

RECURSIVE TreeDepth(_, _)
TreeDepth(b, n) == IF n = Root THEN 0 ELSE 1 + TreeDepth(b, b.nodes[n].parent)

\* The nodes in reading order with their places; parents are positions, 0 that of none.
Flattened(b) ==
  LET order == Preorder(b, Root)
      PositionOf(n) == IF n = 0 THEN 0 ELSE CHOOSE i \in DOMAIN order : order[i] = n
  IN [i \in DOMAIN order |->
        LET n == order[i]
        IN [node |-> [b.nodes[n] EXCEPT !.parent = PositionOf(@)], depth |-> TreeDepth(b, n),
            subtree |-> Subtree(b, n), descendants |-> Len(Preorder(b, n)) - 1]]

Texts == {"heading", "paragraph", "caption", "code_block", "table_cell", "definition_term", "definition_description"}
DocumentText(nodes) ==
  FoldLeft(LAMBDA words, x : IF x.node.kind \in Texts THEN words \o x.node.text ELSE words, <<>>, nodes)

ExtractCanonicalDocument(body, limits) ==
  LET start == [nodes |-> <<Bare("document", "body", <<>>)>>, limits |-> limits, left |-> limits.characters,
                runsLeft |-> limits.runs, reasons |-> {}, stack |-> <<>>, current |-> NoSection]
      b == WalkContainer(start, body, Root, [region |-> "body", depth |-> 1])
      nodes == Flattened(b)
      headings == SelectSeq(nodes, LAMBDA x : x.node.kind = "heading")
  IN [state |-> IF b.reasons = {} THEN "ready" ELSE "partial",
      profile |-> IF headings # <<>> THEN "headed" ELSE IF Len(nodes) > 1 THEN "unheaded" ELSE "empty",
      nodes |-> nodes, headings |-> headings, text |-> DocumentText(nodes), identity |-> nodes[1].subtree,
      reasons |-> b.reasons]

\* What is checked of a document before it is kept, and again of its rows after.
ValidateCanonicalDocument(d) ==
  /\ \A i \in DOMAIN d.nodes :
       /\ d.nodes[i].node.parent < i
       /\ LET under == SelectSeq([k \in DOMAIN d.nodes |-> k], LAMBDA k : d.nodes[k].node.parent = i)
          IN d.nodes[i].subtree = <<Semantic(d.nodes[i].node), [k \in DOMAIN under |-> d.nodes[under[k]].subtree]>>
  /\ d.identity = d.nodes[1].subtree

------------------------------------------------------------------------------
\* The outline of a document: its sections, with what is in them and under them.
Section(d, i) ==
  LET Under(k) == d.nodes[k].node.parent = i
      positions == [k \in DOMAIN d.nodes |-> k]
      under == SelectSeq(positions, Under)
      headings == SelectSeq(under, LAMBDA k : d.nodes[k].node.kind = "heading")
      parent == d.nodes[i].node.parent
      last == i + d.nodes[i].descendants
      Words(from) == FoldLeft(LAMBDA words, k : words \o d.nodes[k].node.text, <<>>, from)
  IN [position |-> i, kind |-> d.nodes[i].node.semantic[1],
      parent |-> IF d.nodes[parent].node.kind = "section" THEN parent ELSE 0,
      level |-> IF headings = <<>> THEN 0 ELSE d.nodes[headings[1]].node.semantic[1],
      heading |-> IF headings = <<>> THEN <<>> ELSE d.nodes[headings[1]].node.text,
      direct |-> Words(SelectSeq(under, LAMBDA k : d.nodes[k].node.kind # "heading")),
      all |-> Words(SelectSeq(positions, LAMBDA k : k >= i /\ k =< last)),
      children |-> Len(SelectSeq(under, LAMBDA k : d.nodes[k].node.kind = "section")),
      descendants |-> Len(SelectSeq(positions, LAMBDA k : d.nodes[k].node.kind = "section" /\ i < k /\ k =< last)),
      blocks |-> Len(SelectSeq(under, LAMBDA k : d.nodes[k].node.kind \notin {"section", "heading"}))]

OutlineSections(d) ==
  LET sections == SelectSeq([k \in DOMAIN d.nodes |-> k], LAMBDA k : d.nodes[k].node.kind = "section")
  IN [i \in DOMAIN sections |-> Section(d, sections[i])]

------------------------------------------------------------------------------
(* Preparation.  Bodies are blobs; snapshots are [resource, at, id, blob,   *)
(* fetched], blob being 0 where no HTML is kept.                            *)

MissingBlobs(snapshots, artifacts) ==
  SetToSortSeq({s.blob : s \in snapshots} \ ({0} \cup DOMAIN artifacts), LAMBDA x, y : x < y)

\* The latest snapshot of each page in the workspace that has its HTML.
LatestContent(snapshots, pages) ==
  {s \in snapshots :
     /\ s.resource \in pages /\ s.fetched /\ s.blob # 0
     /\ \A o \in snapshots : o.resource = s.resource /\ o.fetched /\ o.blob # 0 =>
          o.at < s.at \/ (o.at = s.at /\ o.id =< s.id)}

\* One blob of a preparation: meets says whether it is gone or cannot be read or kept by then,
\* or another preparation was faster.
Prepared(s, blob, meets, document) ==
  LET there == blob \in DOMAIN s.artifacts
      failed == meets \in {"gone", "commit_fails"} \/ (meets = "unreadable" /\ ~there)
      state == IF there THEN s.artifacts[blob] ELSE document
      kept == [x \in DOMAIN s.artifacts \cup {blob} |-> IF x = blob THEN state ELSE s.artifacts[x]]
  IN [s EXCEPT !.artifacts = IF failed THEN @ ELSE kept,
               !.prepared = @ + IF failed /\ meets # "commit_fails" THEN 0 ELSE 1,
               !.failed = @ + IF failed THEN 1 ELSE 0,
               !.stopped = failed /\ s.stopOnError]

\* All of them in order, until a cancellation is seen, or a failure is to stop it.
BuildMissing(s, blobs, meets, documents, cancelAt) ==
  LET Next(acc, i) ==
        IF acc.stopped \/ i >= cancelAt THEN acc ELSE Prepared(acc, blobs[i], meets[i], documents[blobs[i]])
  IN FoldLeft(Next, s, [i \in DOMAIN blobs |-> i])

\* What is shown of a snapshot: whether it has a document, and how whole that is.
StructuredContentStatus(snapshot, artifacts) ==
  CASE snapshot.blob = 0 -> "not_applicable"
    [] snapshot.blob # 0 /\ snapshot.blob \notin DOMAIN artifacts -> "not_prepared"
    [] OTHER -> artifacts[snapshot.blob]
=============================================================================
