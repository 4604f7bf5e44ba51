--------------------------- MODULE SourceInventory ---------------------------
(***************************************************************************)
(* The URL inventory of one site: its sources (the manual list, robots.txt *)
(* and sitemaps), the entries each has contributed, the suppressions that   *)
(* keep URLs out of scans, and the refresh that reads a source again.       *)
(*                                                                         *)
(* An action is one transaction.  A page stands for a URL's policy key, so *)
(* that entries of one page in several sources are the group the inventory *)
(* shows.  A refresh reads its document without a lock and writes from its  *)
(* first entry, or its first child, to the single commit at its end.        *)
(* Refreshes of AI documents and of indexes within indexes are left out.    *)
(***************************************************************************)
EXTENDS Naturals, FiniteSets, Sequences, SequencesExt, JobLifecycle

CONSTANTS
  Pages,        \* URLs by policy key; numbers, in the order of their normalized URLs
  InScope,      \* those the site's scope configuration admits
  Sources,      \* sources the site may have
  Kind,         \* the kind of each
  Selections,   \* sets of pages a request may name
  Created,      \* sitemaps among them that the site has from the start
  Documents,    \* what fetching a source may return; nothing at all is always possible
  MaxRefreshes, \* bound on refreshes requested
  MaxRequests,  \* bound on requests of users
  MaxFaults     \* bound on failed fetches, errors, crashes and lost leases

\* A urlset, or the children a sitemap index or robots.txt names; here a fetch may fail too.
DocumentShape == [urls: Seq(Pages), children: Seq(Sources)]

ASSUME InventoryAssumption ==
  /\ Pages \subseteq Nat /\ IsFiniteSet(Pages) /\ InScope \subseteq Pages
  /\ Selections \subseteq (SUBSET Pages) \ {{}}
  /\ Kind \in [Sources -> {"manual", "robots", "sitemap"}]
  /\ Created \subseteq Sources /\ \E s \in Sources : Kind[s] = "manual"
  /\ \A s \in Sources : Documents[s] \subseteq DocumentShape
  /\ MaxRefreshes \in Nat /\ MaxRequests \in Nat /\ MaxFaults \in Nat

VARIABLES
  source,     \* the sources there are
  entry,      \* whether a source lists a page, did, or never has
  suppressed, \* pages kept out of scans
  refresh,    \* the refreshes requested, with their jobs
  spent       \* requests and faults so far

inventoryVars == <<source, entry, suppressed, refresh>>

-----------------------------------------------------------------------------
Refreshes == 1 .. MaxRefreshes

Unknown == [known |-> FALSE, active |-> FALSE, parent |-> "none", last |-> "none"]

\* Sources are created active.
Discovered(parent) == [known |-> TRUE, active |-> TRUE, parent |-> parent, last |-> "none"]

NoDocument == [urls |-> <<>>, children |-> <<>>]

NoRefresh == [source |-> "none", status |-> "none", cancel |-> FALSE, at |-> "idle",
              doc |-> NoDocument]

RefreshPhases == {"idle", "fetching", "fetched", "writing"}

InventoryTypeOK ==
  /\ source \in [Sources -> [known: BOOLEAN, active: BOOLEAN, parent: Sources \cup {"none"},
                             last: JobStatuses \cup {"none"}]]
  /\ entry \in [Sources -> [Pages -> {"none", "current", "past"}]]
  /\ suppressed \subseteq Pages
  /\ \A r \in Refreshes :
       /\ refresh[r].source \in Sources \cup {"none"}
       /\ refresh[r].status \in JobStatuses \cup {"none", "deleted"}
       /\ refresh[r].cancel \in BOOLEAN /\ refresh[r].at \in RefreshPhases
       /\ refresh[r].doc \in DocumentShape
  /\ spent \in [requests: 0 .. MaxRequests, faults: 0 .. MaxFaults]

Manual == CHOOSE s \in Sources : Kind[s] = "manual"

InventoryInit ==
  /\ source = [s \in Sources |-> IF Kind[s] = "sitemap" /\ s \notin Created THEN Unknown ELSE Discovered("none")]
  /\ entry = [s \in Sources |-> [p \in Pages |-> "none"]]
  /\ suppressed = {}
  /\ refresh = [r \in Refreshes |-> NoRefresh]
  /\ spent = [requests |-> 0, faults |-> 0]

Ask == spent.requests < MaxRequests /\ spent' = [spent EXCEPT !.requests = @ + 1]

Fault == spent.faults < MaxFaults /\ spent' = [spent EXCEPT !.faults = @ + 1]

-----------------------------------------------------------------------------
(* Requests on entries and suppressions.                                   *)

\* upsert_source_entry, for each page of a set: what was listed once is current again.
Upserted(listed, ps) == [p \in Pages |-> IF p \in ps THEN "current" ELSE listed[p]]

\* _mark_missing_not_current
Retired(listed, kept) ==
  [p \in Pages |-> IF listed[p] = "current" /\ p \notin kept THEN "past" ELSE listed[p]]

\* The manual source is made when it is first needed.
AddManualUrls(ps) ==
  /\ Ask
  /\ source' = IF source[Manual].known THEN source
               ELSE [source EXCEPT ![Manual] = Discovered("none")]
  /\ entry' = [entry EXCEPT ![Manual] = Upserted(@, ps)]
  /\ UNCHANGED <<suppressed, refresh>>

RemoveManualEntry(p) ==
  /\ Ask
  /\ entry[Manual][p] = "current"
  /\ entry' = [entry EXCEPT ![Manual][p] = "past"]
  /\ UNCHANGED <<source, suppressed, refresh>>

ListedAnywhere(p) == \E s \in Sources : entry[s][p] # "none"

Suppress(ps) ==
  /\ Ask
  /\ \A p \in ps : ListedAnywhere(p)
  /\ ps \ suppressed # {}
  /\ suppressed' = suppressed \cup ps
  /\ UNCHANGED <<source, entry, refresh>>

Restore(ps) ==
  /\ Ask
  /\ ps \subseteq suppressed
  /\ suppressed' = suppressed \ ps
  /\ UNCHANGED <<source, entry, refresh>>

\* Every contributor of a deleted page, and its suppression, whichever source was shown.
DeleteEntries(ps) ==
  /\ Ask
  /\ \A p \in ps : ListedAnywhere(p)
  /\ entry' = [s \in Sources |-> Retired(entry[s], Pages \ ps)]
  /\ suppressed' = suppressed \ ps
  /\ UNCHANGED <<source, refresh>>

-----------------------------------------------------------------------------
(* Requests on sources.                                                    *)

CreateSource(s) ==
  /\ Ask
  /\ ~source[s].known
  /\ source' = [source EXCEPT ![s] = Discovered("none")]
  /\ UNCHANGED <<entry, suppressed, refresh>>

SetActive(s, active) ==
  /\ Ask
  /\ source[s].known /\ source[s].active # active
  /\ source' = [source EXCEPT ![s].active = active]
  /\ UNCHANGED <<entry, suppressed, refresh>>

RefreshActive(s) == \E r \in Refreshes : refresh[r].source = s /\ refresh[r].status \in Active

ChildOf(c, s) == source[c].known /\ source[c].parent = s

\* A source goes with the sources found through it; only its own jobs are looked at.
Tree(s) == {c \in Sources : c = s \/ ChildOf(c, s) \/ \E m \in Sources : ChildOf(c, m) /\ ChildOf(m, s)}

DeleteSource(s) ==
  /\ Ask
  /\ source[s].known /\ ~RefreshActive(s)
  /\ source' = [c \in Sources |-> IF c \in Tree(s) THEN Unknown ELSE source[c]]
  /\ entry' = [c \in Sources |-> IF c \in Tree(s) THEN [p \in Pages |-> "none"] ELSE entry[c]]
  /\ refresh' = [r \in Refreshes |->
                   IF refresh[r].source \in Tree(s)
                   THEN [refresh[r] EXCEPT !.status = "deleted"] ELSE refresh[r]]
  /\ UNCHANGED suppressed

Queued(s) == [NoRefresh EXCEPT !.source = s, !.status = "queued"]

\* _start_refresh and its job.  A single request does not ask whether one is under way.
RequestRefresh(s) ==
  /\ Ask
  /\ source[s].known
  /\ \E r \in Refreshes :
       /\ refresh[r] = NoRefresh /\ \A q \in Refreshes : q < r => refresh[q] # NoRefresh
       /\ refresh' = [refresh EXCEPT ![r] = Queued(s)]
  /\ source' = [source EXCEPT ![s].last = "queued"]
  /\ UNCHANGED <<entry, suppressed>>

\* A bulk request does, for each of its sources.
RequestBulkRefresh(s) == ~RefreshActive(s) /\ RequestRefresh(s)

\* A refresh whose job is still queued ends with it; a running one is asked to stop.
CancelRefresh(r) ==
  /\ Ask
  /\ refresh[r].status \in Active /\ ~refresh[r].cancel
  /\ refresh' = [refresh EXCEPT ![r].cancel = TRUE,
                                ![r].status = IF @ = "queued" THEN "cancelled" ELSE @]
  /\ source' = IF refresh[r].status = "queued"
               THEN [source EXCEPT ![refresh[r].source].last = "cancelled"] ELSE source
  /\ UNCHANGED <<entry, suppressed>>

-----------------------------------------------------------------------------
(* The refresh.                                                            *)

Running(r, phase) == refresh[r].at = phase /\ refresh[r].status = "running"

StartRefresh(r) ==
  /\ refresh[r].status = "queued"
  /\ refresh' = [refresh EXCEPT ![r].status = "running", ![r].at = "fetching"]
  /\ source' = [source EXCEPT ![refresh[r].source].last = "running"]
  /\ UNCHANGED <<entry, suppressed, spent>>

\* Cancellation is looked at before the document is fetched, after it, and before each of
\* its items; each finding is a step here only while nothing has been written.
FetchDocument(r) ==
  /\ Running(r, "fetching") /\ ~refresh[r].cancel /\ Kind[refresh[r].source] # "manual"
  /\ \E d \in Documents[refresh[r].source] :
       refresh' = [refresh EXCEPT ![r].at = "fetched", ![r].doc = d]
  /\ UNCHANGED <<source, entry, suppressed, spent>>

GoOn(r) ==
  /\ Running(r, "fetched") /\ ~refresh[r].cancel
  /\ refresh' = [refresh EXCEPT ![r].at = "writing"]
  /\ UNCHANGED <<source, entry, suppressed, spent>>

\* _finish_source and the end of the job.
Ended(r, status) ==
  refresh' = [refresh EXCEPT ![r] = [@ EXCEPT !.status = status, !.at = "idle", !.doc = NoDocument]]

LastOf(s, status) == [source EXCEPT ![s].last = status]

EndEmpty(r, status) ==
  /\ Ended(r, status)
  /\ source' = LastOf(refresh[r].source, status)
  /\ UNCHANGED <<entry, suppressed>>

\* Mutant of CancelBeforeWriting: nobody looks before the document is fetched.
CancelAfterFetch(r) ==
  /\ Running(r, "fetched")
  /\ refresh[r].cancel
  /\ EndEmpty(r, "cancelled")
  /\ UNCHANGED spent

CancelBeforeWriting(r) ==
  /\ Running(r, "fetching") \/ Running(r, "fetched")
  /\ refresh[r].cancel
  /\ EndEmpty(r, "cancelled")
  /\ UNCHANGED spent

FetchFailed(r) ==
  /\ Running(r, "fetching")
  /\ Fault
  /\ EndEmpty(r, "failed")

\* Refreshing the manual source does nothing.
RefreshManual(r) ==
  /\ Running(r, "fetching")
  /\ Kind[refresh[r].source] = "manual" /\ ~refresh[r].cancel
  /\ EndEmpty(r, "completed")
  /\ UNCHANGED spent

Urls(d) == ToSet(d.urls)

\* Mutant of Materialized: what is missing is retired before the new list is read.
RetiredFirst(listed, d, upto) ==
  Upserted(Retired(listed, {}), ToSet(SubSeq(d.urls, 1, upto)))

\* What a source lists after the first upto URLs of a urlset: what the list does not name is
\* retired at its end only.
Materialized(listed, d, upto) ==
  LET seen == ToSet(SubSeq(d.urls, 1, upto))
  IN IF upto = Len(d.urls) THEN Retired(Upserted(listed, seen), seen) ELSE Upserted(listed, seen)

ListStatus(d) == IF Urls(d) \subseteq InScope THEN "completed" ELSE "completed_with_errors"

\* A cancellation is seen before the next item of a list, which keeps what was taken in.
WriteUrlset(r) ==
  LET s == refresh[r].source
      d == refresh[r].doc
  IN /\ Running(r, "writing") /\ Kind[s] = "sitemap" /\ d.children = <<>>
     /\ \E upto \in 0 .. Len(d.urls) :
          LET status == IF upto = Len(d.urls) THEN ListStatus(d) ELSE "cancelled"
          IN /\ upto < Len(d.urls) => refresh[r].cancel
             /\ entry' = [entry EXCEPT ![s] = Materialized(@, d, upto)]
             /\ Ended(r, status)
             /\ source' = LastOf(s, status)
     /\ UNCHANGED <<suppressed, spent>>

\* How it ends that the first k of n children were worked through: they are all of them, or the
\* next one was not begun, for a cancellation or a URL that cannot be normalized.
Endings(r, k, n) ==
  IF k = n THEN {"completed"} ELSE {"failed"} \cup (IF refresh[r].cancel THEN {"cancelled"} ELSE {})

Found(parent, cs) ==
  [c \in Sources |-> IF c \in cs /\ ~source[c].known THEN Discovered(parent) ELSE source[c]]

\* robots.txt names sitemaps: those the site does not have become its sources.
WriteRobots(r) ==
  LET s == refresh[r].source
      children == refresh[r].doc.children
  IN /\ Running(r, "writing") /\ Kind[s] = "robots"
     /\ \E k \in 0 .. Len(children) : \E end \in Endings(r, k, Len(children)) :
          /\ IF end = "failed" THEN Fault ELSE UNCHANGED spent
          /\ Ended(r, end)
          /\ source' = [Found(s, ToSet(SubSeq(children, 1, k))) EXCEPT ![s].last = end]
     /\ UNCHANGED <<entry, suppressed>>

\* A child, and whether it was read, with which document; none where it could not be.
Read(cs, broken) == {doc \in [cs \ broken -> UNION {Documents[c] : c \in Sources}] :
                       \A c \in cs \ broken : doc[c] \in Documents[c] /\ doc[c].children = <<>>}

\* The child that may have been the first to see a cancellation: it takes that for its failure.
Caught(r, k, end) ==
  IF refresh[r].cancel /\ k > 0 /\ end # "failed"
  THEN {refresh[r].doc.children[k]} \ {refresh[r].source} ELSE {}

\* What it had taken in by then.
Taken(cs) ==
  {{}} \cup UNION {{ToSet(SubSeq(d.urls, 1, n - 1)) : n \in 1 .. Len(d.urls)} : d \in UNION {Documents[c] : c \in cs}}

\* What the children that were come to, and their index, are left with.
IndexRead(r, visited, end, broken, doc, caught, taken) ==
  LET s == refresh[r].source
      listing == visited \ broken
      status == IF end = "completed" /\ broken # {} THEN "completed_with_errors" ELSE end
      found == [c \in Sources |-> IF c \in broken THEN [Found(s, visited)[c] EXCEPT !.last = "failed"]
                                  ELSE IF c \in listing
                                  THEN [Found(s, visited)[c] EXCEPT !.last = ListStatus(doc[c])]
                                  ELSE source[c]]
  IN /\ entry' = [c \in Sources |-> IF c \in listing THEN Materialized(entry[c], doc[c], Len(doc[c].urls))
                                   ELSE IF c \in broken \cap caught THEN Upserted(entry[c], taken)
                                   ELSE entry[c]]
     /\ Ended(r, status)
     /\ source' = [found EXCEPT ![s].last = status]

\* An index refreshes its children one by one; one that names itself has been seen.  A child
\* that fails is a warning.
WriteIndex(r) ==
  LET s == refresh[r].source
      children == refresh[r].doc.children
  IN /\ Running(r, "writing") /\ Kind[s] = "sitemap" /\ children # <<>>
     /\ \E k \in 0 .. Len(children) : \E end \in Endings(r, k, Len(children)) :
          LET visited == ToSet(SubSeq(children, 1, k))
              caught == Caught(r, k, end)
          IN \E broken \in SUBSET visited : \E doc \in Read(visited, broken), taken \in Taken(caught) :
               /\ visited \cap {s} \subseteq broken
               /\ IF end = "failed" \/ ~(broken \subseteq caught \cup {s}) THEN Fault ELSE UNCHANGED spent
               /\ IndexRead(r, visited, end, broken, doc, caught, taken)
     /\ UNCHANGED suppressed

\* An error of the handler, or the loss of the worker or its lease, commits nothing; the
\* record follows the job.
RefreshMishap(r) ==
  /\ refresh[r].at # "idle" /\ refresh[r].status = "running"
  /\ Fault
  /\ \E status \in {"failed", "interrupted"} : EndEmpty(r, status)

\* The source was deleted with the one it was found through.
RefreshGone(r) ==
  /\ refresh[r].at # "idle" /\ refresh[r].status # "running"
  /\ refresh' = [refresh EXCEPT ![r] = [@ EXCEPT !.at = "idle", !.doc = NoDocument]]
  /\ UNCHANGED <<source, entry, suppressed, spent>>

-----------------------------------------------------------------------------
InventoryRequest ==
  \/ \E ps \in Selections : AddManualUrls(ps) \/ Suppress(ps) \/ Restore(ps) \/ DeleteEntries(ps)
  \/ \E p \in Pages : RemoveManualEntry(p)
  \/ \E s \in Sources : CreateSource(s) \/ DeleteSource(s) \/ RequestRefresh(s) \/ RequestBulkRefresh(s)
  \/ \E s \in Sources, active \in BOOLEAN : SetActive(s, active)
  \/ \E r \in Refreshes : CancelRefresh(r)

RefreshLooks(r) == FetchDocument(r) \/ GoOn(r) \/ RefreshGone(r)

RefreshWrites(r) ==
  \/ StartRefresh(r) \/ CancelBeforeWriting(r) \/ RefreshManual(r)
  \/ WriteUrlset(r) \/ WriteRobots(r) \/ WriteIndex(r)

RefreshFaults(r) == FetchFailed(r) \/ RefreshMishap(r)
=============================================================================
