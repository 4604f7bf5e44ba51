---------------------------- MODULE DocumentWalk ----------------------------
(* One refresh of an AI Document Source: the walk over the documents that   *)
(* an index declares, what is kept of them, and what becomes of the         *)
(* inventory (services/ai_document_sources.py, ai_document_persistence.py). *)
(*                                                                          *)
(* A context c of a refresh is [name, inScope, answers, settings, previous, *)
(* cancelAt]: of every url what its path ends in, whether it is in scope    *)
(* and what is answered, attempt by attempt; the Source's settings; the     *)
(* snapshots of its earlier refreshes, oldest first; and the poll from      *)
(* which a cancellation is seen.  An answer is [failure, status, mime,      *)
(* final, body, validators, unmodified]: the last says how it would answer  *)
(* a conditional request, with the mime of a 304 or with "no".  A body is   *)
(* [size, sign, titled, declares], what it declares a sequence of urls.     *)
EXTENDS Naturals, FiniteSets, Sequences, SequencesExt, FiniteSetsExt

\* No body at all: an empty one would have no title.
NoBody == [size |-> 0, sign |-> "none", titled |-> TRUE, declares |-> <<>>]
NoUrl  == "invalid"
NoSnapshot   == [url |-> NoUrl, body |-> NoBody]

Successful(status) == status \div 100 = 2 \/ status = 304
Transient == {408, 425, 429, 500, 502, 503, 504}

------------------------------------------------------------------------------
\* The first rule that holds: what the server or the name says before the mime, the mime before
\* the extension, and of a text file that an index declares that it is one.
FirstThat(rules) == rules[Min({i \in DOMAIN rules : rules[i][1]})][2]

BySignature(sign, otherwise) == IF sign = "none" THEN otherwise ELSE sign

ClassifyAiDocument(name, mime, sign, relation, parent) ==
  FirstThat(<< <<relation = "llms-txt" \/ (relation = "none" /\ name = "llms.txt"), "llms_index">>,
               <<relation = "llms-full-txt" \/ name = "llms-full.txt", "llms_full">>,
               <<mime = "html", "html_page_reference">>,
               <<mime = "markdown", "markdown_document">>,
               <<mime = "plain", "text_document">>,
               <<mime = "json", BySignature(sign, "json_document")>>,
               <<mime = "yaml", BySignature(sign, "yaml_document")>>,
               <<name = "md", "markdown_document">>,
               <<name = "json", "json_document">>,
               <<name = "yaml", "yaml_document">>,
               <<name = "txt" /\ parent = "llms_index", "text_document">>,
               <<mime = "binary", "unsupported_binary">>,
               <<TRUE, "unknown">> >>)

TextKinds == {"llms_full", "markdown_document", "text_document", "openapi_specification",
              "asyncapi_specification", "json_document", "yaml_document"}

\* What the answer is, whatever it was declared as: a page and a binary are no documents.
KindOfAnswer(c, item, answer, content) ==
  CASE answer.mime = "html"   -> "html_page_reference"
    [] answer.mime = "binary" -> "unsupported_binary"
    [] OTHER -> ClassifyAiDocument(c.name[answer.final], answer.mime, content.sign, item.relation, "none")

------------------------------------------------------------------------------
\* The Source's latest snapshot of the url that kept its body.
PreviousSnapshot(c, url) ==
  LET kept == {i \in DOMAIN c.previous : c.previous[i].url = url /\ c.previous[i].body # NoBody}
  IN IF kept = {} THEN NoSnapshot ELSE c.previous[Max(kept)]

\* What comes back at an attempt, of a conditional request where the snapshot before had validators.
Answered(c, url, attempt) ==
  LET answers == c.answers[url]
      answer == answers[Min({attempt, Len(answers)})]
      before == PreviousSnapshot(c, url)
  IN IF before # NoSnapshot /\ before.validators /\ answer.unmodified # "no"
     THEN [answer EXCEPT !.status = 304, !.mime = answer.unmodified, !.body = NoBody]
     ELSE answer

Settles(answer) == answer.failure # "transport" /\ answer.status \notin Transient

\* The attempts made for a document: until one settles it, or all are used.
Attempts(c, url) ==
  LET settled == {n \in 1 .. c.settings.maxAttempts : Settles(Answered(c, url, n))}
  IN IF settled = {} THEN c.settings.maxAttempts ELSE Min(settled)

EffectiveContent(answer, before) ==
  IF answer.status = 304 /\ before # NoSnapshot THEN [body |-> before.body, change |-> "unchanged"]
  ELSE IF answer.status \div 100 # 2 THEN [body |-> NoBody, change |-> "unknown"]
  ELSE [body |-> answer.body,
        change |-> IF before = NoSnapshot THEN "new"
                   ELSE IF answer.body = before.body THEN "unchanged" ELSE "changed"]

------------------------------------------------------------------------------
\* One declaration of an index, and whether its target is to be fetched.
Reference(c, item, parent, position, url) ==
  LET kind == ClassifyAiDocument(c.name[url], "none", "none", "none", "llms_index")
  IN IF url = NoUrl
     THEN [parent |-> parent, position |-> position, url |-> NoUrl, kind |-> "external_reference",
           inScope |-> FALSE, depth |-> item.depth + 1, cycle |-> FALSE, child |-> 0]
     ELSE [parent |-> parent, position |-> position, url |-> url, kind |-> kind,
           inScope |-> url \in c.inScope, depth |-> item.depth + 1,
           cycle |-> url \in item.ancestors \cup {item.url}, child |-> 0]

ShouldFetch(c, r) ==
  /\ r.url # NoUrl /\ ~r.cycle
  /\ r.inScope \/ c.settings.external
  /\ r.kind = "llms_index" \/ (c.settings.saveDeclared /\ r.kind \in TextKinds)

\* Eligible for the inventory: in scope, and no index or corpus.
Eligible(r) == r.inScope /\ r.kind \notin {"llms_index", "llms_full", "unsupported_binary", "external_reference"}

Item(url, depth, role, relation, ancestors) ==
  [url |-> url, depth |-> depth, role |-> role, relation |-> relation, ancestors |-> ancestors]

NestedItem(r, item) ==
  Item(r.url, r.depth, IF r.kind = "llms_index" THEN "nested_index" ELSE "declared_document", "none",
       item.ancestors \cup {item.url})

------------------------------------------------------------------------------
Counters == {"discovered", "fetched", "saved", "unchanged", "changed", "failed", "skipped", "references", "cycles"}
One(condition) == IF condition THEN 1 ELSE 0
Counted(stats, by) == [k \in Counters |-> stats[k] + IF k \in DOMAIN by THEN by[k] ELSE 0]

Start(root) ==
  [queue |-> <<Item(root, 0, "root_index", "llms-txt", {})>>, snapshots |-> <<>>, references |-> <<>>,
   indexes |-> 0, network |-> 0, retained |-> 0, warnings |-> 0, polls |-> 0,
   stop |-> "none", status |-> "running", stats |-> [k \in Counters |-> 0]]

Cancelled(w) == [w EXCEPT !.status = "cancelled", !.stop = "cancelled_by_user"]

\* An attempt that raises leaves a snapshot that says so.
FetchFailed(w, item) ==
  [w EXCEPT !.snapshots = Append(@, [url |-> item.url, depth |-> item.depth, role |-> item.role, kind |-> "unknown",
                                     state |-> "failed", change |-> "unknown", body |-> NoBody, validators |-> FALSE,
                                     parsed |-> "failed"]),
            !.warnings = @ + 1,
            !.stats = Counted(@, [discovered |-> 1, failed |-> 1])]

\* The declarations of an index that has been read, and what they add to the queue.
Indexed(c, w, item, content) ==
  LET kept == SubSeq(content.declares, 1, Min({Len(content.declares), c.settings.maxReferences}))
      declared == [i \in DOMAIN kept |-> Reference(c, item, Len(w.snapshots), i, kept[i])]
      room == item.depth < c.settings.maxDepth /\ w.indexes + 1 < c.settings.maxIndexes
      next == SelectSeq(declared, LAMBDA r : ShouldFetch(c, r) /\ room)
  IN [w EXCEPT !.indexes = @ + 1,
               !.warnings = @ + One(~content.titled),
               !.references = @ \o declared,
               !.queue = @ \o [i \in DOMAIN next |-> NestedItem(next[i], item)],
               !.stats = Counted(@, [references |-> Len(declared),
                                     cycles |-> Len(SelectSeq(declared, LAMBDA r : r.cycle))])]

\* An answer leaves a snapshot, with its body where it is a document and within the budget.
Recorded(c, w, item, answer) ==
  LET content == EffectiveContent(answer, PreviousSnapshot(c, item.url))
      kind == KindOfAnswer(c, item, answer, content.body)
      ok == Successful(answer.status)
      wanted == ok /\ kind \in TextKinds \cup {"llms_index"} /\ content.body # NoBody
      keep == wanted /\ w.retained + content.body.size =< c.settings.maxRetained
      index == ok /\ kind = "llms_index" /\ content.body # NoBody
      absentRoot == answer.status = 404 /\ item.depth = 0
      snapshot == [url |-> item.url, depth |-> item.depth, role |-> item.role, kind |-> kind,
                   state |-> CASE keep -> "saved" [] ~keep /\ answer.status = 404 -> "not_found"
                               [] ~ok /\ answer.status # 404 -> "http_error" [] OTHER -> "metadata_only",
                   change |-> content.change, body |-> IF keep THEN content.body ELSE NoBody,
                   validators |-> answer.validators, parsed |-> IF index THEN "parsed" ELSE "not_applicable"]
      saved == [w EXCEPT
        !.snapshots = Append(@, snapshot),
        !.retained = @ + IF keep THEN content.body.size ELSE 0,
        !.warnings = @ + One(answer.mime = "html") + One(wanted /\ ~keep) + One(~ok /\ ~absentRoot),
        !.stats = Counted(@, [discovered |-> 1, fetched |-> 1, saved |-> One(keep),
                              unchanged |-> One(content.change = "unchanged"),
                              changed |-> One(content.change \in {"new", "changed"}),
                              skipped |-> One(~ok \/ (~index /\ kind \in {"html_page_reference", "unsupported_binary", "unknown"})),
                              failed |-> One(~ok /\ ~absentRoot)])]
  IN IF index THEN Indexed(c, saved, item, content.body) ELSE saved

\* One round of the loop.  What is over the network budget has been transferred and is not recorded.
Round(c, w) ==
  LET item == Head(w.queue)
      popped == [w EXCEPT !.queue = Tail(@), !.polls = @ + 1]
      attempts == Attempts(c, item.url)
      asked == [popped EXCEPT !.polls = @ + attempts]
      answer == Answered(c, item.url, attempts)
      received == [asked EXCEPT !.network = @ + answer.body.size]
  IN CASE w.polls >= c.cancelAt -> Cancelled(w)
       [] w.polls < c.cancelAt /\ (\E i \in DOMAIN w.snapshots : w.snapshots[i].url = item.url) -> popped
       [] OTHER ->
            CASE w.polls + attempts >= c.cancelAt -> Cancelled(popped)
              [] w.polls + attempts < c.cancelAt /\ answer.failure # "none" -> FetchFailed(asked, item)
              [] OTHER -> IF received.network > c.settings.maxNetwork
                          THEN [received EXCEPT !.stop = "max_total_network_bytes", !.warnings = @ + 1]
                          ELSE Recorded(c, received, item, answer)

RECURSIVE Walked(_, _)
Walked(c, w) ==
  IF w.queue # <<>> /\ Len(w.snapshots) < c.settings.maxDocuments /\ w.stop = "none" THEN Walked(c, Round(c, w)) ELSE w

------------------------------------------------------------------------------
\* Every declaration whose target has a snapshot of this refresh is linked to it.
ChildOf(w, r) ==
  LET same == {k \in DOMAIN w.snapshots : w.snapshots[k].url = r.url} IN IF same = {} THEN 0 ELSE Min(same)

LinkRefreshChildren(w) ==
  [w EXCEPT !.references = [i \in DOMAIN @ |-> [@[i] EXCEPT !.child = ChildOf(w, w.references[i])]]]

\* What the refresh declared is what is current, whatever ended the walk.
Persisted(entries, refresh, references) ==
  LET seen == {references[i].url : i \in {k \in DOMAIN references : Eligible(references[k])}}
      Origins(url) == SelectSeq(references, LAMBDA r : r.url = url /\ Eligible(r))
  IN [url \in DOMAIN entries \cup seen |->
        IF url \in seen THEN [current |-> TRUE, refresh |-> refresh, origins |-> Origins(url)]
        ELSE [entries[url] EXCEPT !.current = FALSE]]

ExecuteAiDocumentRefresh(c, root, entries, refresh) ==
  LET walked == Walked(c, Start(root))
      cut == walked.queue # <<>> /\ walked.stop = "none"
      stopped == IF cut THEN [walked EXCEPT !.stop = "max_total_documents", !.warnings = @ + 1] ELSE walked
      ended == [stopped EXCEPT !.status =
                  IF @ # "running" THEN @ ELSE IF stopped.warnings > 0 THEN "completed_with_errors" ELSE "completed"]
  IN [walk |-> LinkRefreshChildren(ended), entries |-> Persisted(entries, refresh, ended.references)]

------------------------------------------------------------------------------
\* The documents of a refresh as a tree shows them, by depth, with their parents counted.
TreeNode(w, i) ==
  LET to == {k \in DOMAIN w.references : w.references[k].child = i}
  IN [snapshot |-> i, parents |-> Cardinality(to), cycle |-> \E k \in to : w.references[k].cycle]

GetAiTree(w) ==
  [i \in DOMAIN w.snapshots |->
     TreeNode(w, SetToSortSeq(DOMAIN w.snapshots, LAMBDA a, b :
       w.snapshots[a].depth < w.snapshots[b].depth \/ (w.snapshots[a].depth = w.snapshots[b].depth /\ a < b))[i])]

\* The bodies only this Source's snapshots keep go with it; rows are [source, body].
OrphanBlobs(rows, source) ==
  {r.body : r \in {x \in rows : x.source = source}} \ ({NoBody} \cup {r.body : r \in {x \in rows : x.source # source}})

PreviewAiSourceDeletion(rows, source) ==
  LET own == {r.body : r \in {x \in rows : x.source = source /\ x.body # NoBody}}
      shared == {b \in own : \E r \in rows : r.source # source /\ r.body = b}
  IN [unique |-> Cardinality(own), shared |-> Cardinality(shared), exclusive |-> Cardinality(own) - Cardinality(shared),
      reclaimable |-> MapThenSumSet(LAMBDA b : b.size, own \ shared)]

------------------------------------------------------------------------------
\* Where a Site's documents may be: two conventional places, and what its home page's headers
\* name; home is [links, hint], its links <<url, relation>>.
HeaderCandidates(home) ==
  [i \in DOMAIN SelectSeq(home.links, LAMBDA l : l[2] # "none") |->
     <<SelectSeq(home.links, LAMBDA l : l[2] # "none")[i][1], "http_link_header">>]
  \o IF home.hint = NoUrl THEN <<>> ELSE <<<<home.hint, "x_llms_txt_header">>>>

Found(answer) ==
  CASE answer.failure = "refused" -> "blocked"
    [] answer.failure = "none" /\ answer.status \div 100 = 2 -> "found"
    [] answer.failure = "none" /\ answer.status = 404 -> "not_found"
    [] OTHER -> "error"

\* Each of them once, as the first that names it did, and whether the Site has it already.
DiscoverAiDocumentSources(c, conventional, wellKnown, home, existing) ==
  LET all == <<<<conventional, "conventional_root">>, <<wellKnown, "well_known">>>> \o HeaderCandidates(home)
      first == {i \in DOMAIN all : all[i][1] # NoUrl /\ \A k \in 1 .. i - 1 : all[k][1] # all[i][1]}
      order == SetToSortSeq(first, LAMBDA a, b : a < b)
      Candidate(x) == [url |-> IF c.answers[x[1]][1].failure = "none" THEN c.answers[x[1]][1].final ELSE x[1],
                       method |-> x[2], status |-> Found(c.answers[x[1]][1]), configured |-> x[1] \in existing]
  IN [i \in DOMAIN order |-> Candidate(all[order[i]])]
=============================================================================
