---------------------------- MODULE ScanRetention ----------------------------
(***************************************************************************)
(* Inventory, crawl and the deletion of scans together.  A deletion looks   *)
(* for the contents only its scan refers to, removes rows in one            *)
(* transaction, and then unlinks files that no transaction covers.          *)
(***************************************************************************)
EXTENDS StaticCrawl

VARIABLES
  del,   \* the deletion under way
  raced  \* history: contents published again before a deletion unlinked them

vars == <<inventoryVars, crawlVars, spent, del, raced>>

-----------------------------------------------------------------------------
NoDeletion == [at |-> "idle", scan |-> 0, contents |-> {}]

TypeOK ==
  /\ InventoryTypeOK /\ CrawlTypeOK
  /\ del.at \in {"idle", "read", "unlink"} /\ del.scan \in Scans \cup {0} /\ del.contents \subseteq Contents
  /\ raced \subseteq Contents

Init == InventoryInit /\ CrawlInit /\ del = NoDeletion /\ raced = {}

ReferredTo(s) == {snap[s][p].body : p \in Pages} \ {NoBody}

\* _deletion_impact: contents of the scan that no other scan's snapshots refer to.
Deletable(s) == ReferredTo(s) \ UNION {ReferredTo(t) : t \in Scans \ {s}}

DeleteRead(s) ==
  /\ Ask
  /\ del.at = "idle" /\ scan[s].status \in Terminal
  /\ del' = [at |-> "read", scan |-> s, contents |-> Deletable(s)]
  /\ UNCHANGED <<inventoryVars, crawlVars, raced>>

\* A content found exclusive may have been referred to since: its foreign key undoes it all.
DeleteRefused ==
  /\ del.at = "read" /\ Unlocked
  /\ ~(del.contents \subseteq Deletable(del.scan))
  /\ del' = NoDeletion
  /\ UNCHANGED <<inventoryVars, crawlVars, spent, raced>>

\* Content that a crawl has published and not yet recorded.
Published == {crawl[s].answer.body : s \in {t \in Scans : crawl[t].at = "answered" /\ ~crawl[t].answer.row}}

\* _delete_unreferenced_artifacts looks at every artifact, not at those of the scan.
StillParsed(s) == {x \in artifacts : \E t \in Scans \ {s} : snap[t][x[2]].parsed /\ snap[t][x[2]].body = x[1]}

DeleteCommit ==
  LET s == del.scan
  IN /\ del.at = "read" /\ Unlocked
     /\ del.contents \subseteq Deletable(s)
     /\ scan' = [scan EXCEPT ![s] = DeletedScan]
     /\ seed' = [seed EXCEPT ![s] = [p \in Pages |-> "none"]]
     /\ snap' = [snap EXCEPT ![s] = [p \in Pages |-> Unvisited]]
     /\ rows' = rows \ del.contents
     /\ artifacts' = StillParsed(s)
     /\ del' = [del EXCEPT !.at = "unlink"]
     /\ raced' = raced \cup (del.contents \cap Published)
     /\ UNCHANGED <<inventoryVars, crawl, files, spent>>

Unlink ==
  /\ del.at = "unlink"
  /\ files' = files \ del.contents
  /\ del' = NoDeletion
  /\ UNCHANGED <<inventoryVars, scan, seed, snap, crawl, rows, artifacts, spent, raced>>

\* A file of a content that is about to be unlinked is published in vain.
AnswerNow(s) ==
  /\ Answer(s)
  /\ raced' = IF del.at = "unlink" /\ ~crawl'[s].answer.row
              THEN raced \cup (del.contents \cap {crawl'[s].answer.body}) ELSE raced
  /\ UNCHANGED <<inventoryVars, del>>

-----------------------------------------------------------------------------
Request ==
  \/ InventoryRequest /\ Unlocked /\ UNCHANGED <<crawlVars, del, raced>>
  \/ CrawlRequest /\ UNCHANGED <<inventoryVars, del, raced>>
  \/ \E s \in Scans : DeleteRead(s)

RefreshStep(r) ==
  /\ RefreshLooks(r) \/ (Unlocked /\ RefreshWrites(r))
  /\ UNCHANGED <<crawlVars, del, raced>>

CrawlNow(s) == CrawlStep(s) /\ UNCHANGED <<inventoryVars, spent, del, raced>>

Recovery(s) == RecoverScan(s) /\ UNCHANGED <<inventoryVars, del, raced>>

Failure ==
  \/ \E r \in Refreshes : Unlocked /\ RefreshFaults(r) /\ UNCHANGED <<crawlVars, del, raced>>
  \/ \E s \in Scans : CrawlCrash(s) /\ UNCHANGED <<inventoryVars, del, raced>>

Next ==
  \/ Request \/ Failure
  \/ DeleteRefused \/ DeleteCommit \/ Unlink
  \/ \E r \in Refreshes : RefreshStep(r)
  \/ \E s \in Scans : CrawlNow(s) \/ AnswerNow(s) \/ Recovery(s)

\* The workers keep working, a worker that died is noticed, an unlinking goes on.
Spec ==
  /\ Init /\ [][Next]_vars
  /\ \A r \in Refreshes : WF_vars(RefreshStep(r))
  /\ \A s \in Scans :
       /\ WF_vars(CrawlNow(s) \/ AnswerNow(s))
       /\ WF_vars(crawl[s].at = "idle" /\ Recovery(s))
  /\ WF_vars(DeleteRefused \/ DeleteCommit \/ Unlink)
-----------------------------------------------------------------------------
Kept(s) == scan[s].status \notin {"none", "deleted"}

PagesIn(s, states) == {p \in Pages : snap[s][p].state \in states}

\* The counters of a scan are those of its snapshots, and a seed says what its page's snapshot
\* says: a retry takes back what the attempt before it counted, in the commit that replaces it.
RowsAgree ==
  \A s \in Scans : Kept(s) =>
    LET visited == PagesIn(s, Outcomes)
    IN /\ scan[s].failed = Cardinality(PagesIn(s, Failing))
       /\ scan[s].attempts = MapThenSumSet(LAMBDA p : snap[s][p].attempts, visited)
       /\ scan[s].retries = scan[s].attempts - Cardinality(visited)
       /\ scan[s].exhausted = Cardinality({p \in PagesIn(s, Transient) : snap[s][p].attempts = MaxAttempts})
       /\ \A p \in Pages :
            /\ seed[s][p] = "failed" => snap[s][p].state \in Failing
            /\ seed[s][p] = "fetched" => snap[s][p].state \in Outcomes \ Failing

\* A scan that says its queue was exhausted has settled every queued seed, has given up no
\* temporary error before the last attempt, and, if it met fewer pages than the page limit, has
\* a snapshot of every page in scope that its pages above the depth limit link to.
CrawlComplete ==
  \A s \in Scans : scan[s].stop = "queue_exhausted" =>
    /\ \A p \in Pages : seed[s][p] # "queued"
    /\ \A p \in PagesIn(s, Transient) : snap[s][p].attempts = MaxAttempts
    /\ scan[s].discovered < MaxPages =>
         \A p \in PagesIn(s, {"fetched"}) : snap[s][p].depth < MaxDepth =>
            Links[p] \cap InScope \subseteq PagesIn(s, Outcomes)

\* What a snapshot refers to has its row, its artifact and its file, whatever is deleted, except
\* for a file written while its predecessor was waiting to be unlinked.
FilesKept ==
  /\ rows \subseteq files \cup raced
  /\ \A s \in Scans : /\ ReferredTo(s) \subseteq rows
                       /\ \A p \in Pages : snap[s][p].parsed => <<snap[s][p].body, p>> \in artifacts

CurrentOf(listed) == {p \in Pages : listed[p] = "current"}

\* A page leaves the current entries of a source by a request, or because a refresh read a whole
\* list without it: then what is current is what that list names.
RetiredByWholeList ==
  [][\A s \in Sources :
       (\E p \in Pages : entry[s][p] = "current" /\ entry'[s][p] = "past") =>
          \/ spent'.requests > spent.requests
          \/ /\ \E d \in Documents[s] : CurrentOf(entry'[s]) = Urls(d)
             /\ source'[s].last \in {"completed", "completed_with_errors"}]_vars

Settled ==
  /\ \A s \in Scans : scan[s].status \notin Active
  /\ \A r \in Refreshes : refresh[r].status \notin Active
  /\ del.at = "idle"

\* Requests ended, every scan, refresh and deletion ends, whatever broke off.
WorkSettles == <>[]Settled
=============================================================================
