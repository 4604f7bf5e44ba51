----------------------------- MODULE ChangeReads -----------------------------
(***************************************************************************)
(* What is read of changes: the lists of a comparison, the occurrences of  *)
(* a link before and after, the difference of two sources, and the history *)
(* of a page, which is not made from comparisons but from the page's       *)
(* observations.                                                           *)
(*                                                                         *)
(* A row of a page's result is PageRow's pair with the columns the lists   *)
(* look at: [resource, url, presence, class, status: its status in each    *)
(* scan, inbound, outbound: whether its links changed].                    *)
(* An observation of the history is one of PageChanges with the scan, the  *)
(* hash of its head, its status and its final url.                         *)
(***************************************************************************)
EXTENDS PageChanges, Integers, SequencesExt

Before(a, b) == \E i \in DOMAIN a : a[i] < b[i] /\ \A k \in 1..(i - 1) : a[k] = b[k]
InOrder(rows) == SetToSortSeq(rows, LAMBDA a, b : Before(a.key, b.key))
Part(items, f) == SubSeq(items, f.offset + 1, IF Len(items) < f.offset + f.limit THEN Len(items) ELSE f.offset + f.limit)

\* An order turns its column, the numbers of the rows stay as they are.
PageOfRows(rows, f) ==
  LET ordered == InOrder({[row |-> r, key |-> <<IF f.direction = "desc" THEN -r[f.sort] ELSE r[f.sort], r.resource>>] : r \in rows})
  IN [items |-> Part([i \in DOMAIN ordered |-> ordered[i].row], f), total |-> Cardinality(rows)]

Wanted(value, wanted) == wanted # "any" => value = wanted

------------------------------------------------------------------------------
\* Without a filter of its own for the class the list leaves out what did not change.
Shown(r, f) ==
  f.changedOnly => r.class \in {"substantive_change", "metadata_change", "technical_change"} \/ r.presence # "observed_in_both"

\* The filter for links asks either column for the value.
LinksChanged(r, wanted) == wanted # "any" => r.inbound = (wanted = "yes") \/ r.outbound = (wanted = "yes")

ComparisonPages(rows, f) ==
  PageOfRows({r \in rows : /\ Shown(r, f) /\ Wanted(r.presence, f.presence)
                           /\ f.statusChanged # "any" => (r.status[1] # r.status[2]) = (f.statusChanged = "yes")
                           /\ LinksChanged(r, f.links)}, f)

ComparisonResources(rows, f) ==
  PageOfRows({r \in rows : Wanted(r.presence, f.presence) /\ Wanted(r.change, f.change) /\ Wanted(r.kind, f.kind)}, f)

\* A link is asked for by the roles it has in either scan, and by how many more or fewer it has.
ComparisonLinks(rows, f) ==
  PageOfRows({r \in rows : /\ Wanted(r.presence, f.presence) /\ Wanted(r.change, f.change)
                           /\ f.role # "any" => f.role \in r.before.roles \cup r.after.roles
                           /\ Max({r.delta, -r.delta}) >= f.minDelta}, f)

------------------------------------------------------------------------------
\* The occurrences of a link in both scans, as bags of fingerprints; of each only the first so
\* many are looked at.
Looked(occurrences, most) == SubSeq(occurrences, 1, Min({Len(occurrences), most}))
Times(occurrences, x) == Cardinality({i \in DOMAIN occurrences : occurrences[i] = x})

DiffItem(state, x, count) == IF count > 0 THEN <<[state |-> state, fingerprint |-> x, count |-> count]>> ELSE <<>>

LinkOccurrenceDiff(baseline, target, most, f) ==
  LET before == Looked(baseline, most)
      after == Looked(target, most)
      fingerprints == SetToSortSeq(Range(before) \cup Range(after), LAMBDA x, y : x < y)
      items(x) ==
        LET b == Times(before, x)
            a == Times(after, x)
            common == Min({a, b})
        IN DiffItem("present_in_both", x, common) \o DiffItem("newly_observed", x, a - common)
           \o DiffItem("not_observed_in_target", x, b - common)
      all == FlattenSeq([i \in DOMAIN fingerprints |-> items(fingerprints[i])])
  IN [items |-> Part(all, f), total |-> Len(all), before |-> Len(before), after |-> Len(after),
      truncated |-> Len(baseline) > most \/ Len(target) > most]

------------------------------------------------------------------------------
\* The difference of two sources.  fits: the stored source is not too large; decodes: its file is
\* there and is text.
SourceDiff(before, after, mode) ==
  CASE before = Unseen \/ before.kept # "blob" -> "baseline_missing"
    [] after = Unseen \/ after.kept # "blob" -> "target_missing"
    [] OTHER ->
         CASE ~before.fits \/ ~after.fits -> "too_large"
           [] before.fits /\ after.fits /\ ~(before.decodes /\ after.decodes) -> "decoding_failed"
           [] OTHER ->
                LET text(o) == IF mode = "meaningful" THEN NormalizedSource(o) ELSE Source(o)
                IN IF text(before) = text(after) THEN "identical" ELSE "available"

------------------------------------------------------------------------------
\* The history of a page: its observations as a page in the order of the scans, each against the
\* one before it.  A source of which nothing is kept has no hash.
Hash(o) == IF o.kept = "nothing" THEN <<>> ELSE Source(o)

HistoryFlags(before, after) ==
  LET sources == Hash(before) # Hash(after)
      sameDocument == Analysed(before, after) /\ before.text = after.text
  IN {flag \in {"content", "source", "head_metadata", "http_status", "redirect"} :
        \/ flag = "content" /\ sources /\ ~sameDocument
        \/ flag = "source" /\ sources /\ sameDocument
        \/ flag = "head_metadata" /\ before.head # after.head
        \/ flag = "http_status" /\ before.status # after.status
        \/ flag = "redirect" /\ before.final # after.final}

HistoryLabel(flags, first) ==
  CASE first -> "First observation"
    [] ~first /\ flags = {} -> "No tracked change"
    [] ~first /\ Cardinality(flags) > 1 -> "Multiple tracked changes"
    [] OTHER -> CHOOSE flag \in flags : TRUE

\* seen is a sequence over the scans of the Site; Unseen where the scan has no such page.  What
\* comes between two observations is called unsuccessful, whatever it was.
PageChangeHistory(seen, f) ==
  LET scans == SelectSeq([i \in DOMAIN seen |-> i], LAMBDA i : seen[i] # Unseen)
      flags(n) == IF n = 1 THEN {} ELSE HistoryFlags(seen[scans[n - 1]], seen[scans[n]])
      item(n) == [scan |-> scans[n], flags |-> flags(n), label |-> HistoryLabel(flags(n), n = 1),
                  intervening |-> IF n = 1 THEN 0 ELSE scans[n] - scans[n - 1] - 1]
  IN [items |-> Part([n \in DOMAIN scans |-> item(n)], f), total |-> Len(scans)]
==============================================================================
