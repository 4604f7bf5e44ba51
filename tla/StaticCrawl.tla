----------------------------- MODULE StaticCrawl -----------------------------
(***************************************************************************)
(* A scan of the site: its seeds, taken from the inventory when it is       *)
(* created, and the crawl that requests page after page, retries what      *)
(* failed for the moment once nothing else is queued, follows links, and    *)
(* keeps one snapshot per page with the content it stored.                  *)
(*                                                                         *)
(* An action is one transaction, or a look at the database without one.     *)
(* The lookups before a request and before a snapshot is written hold no    *)
(* lock, except that a page first met as a seed has its resource touched,   *)
(* which keeps the write lock through the request.  Redirects, delays       *)
(* between requests, answers that are not HTML and the counters of bytes    *)
(* are left out, as is a seed deeper than the depth limit: seeds have depth *)
(* zero.  The end of the scan and of its job, apart in JobQueue, are one.   *)
(***************************************************************************)
EXTENDS SourceInventory

CONSTANTS
  Start,       \* the site's base URL
  Links,       \* the pages a page links to
  SeedChoices,     \* the sources a scan may be asked to take from; none is no inventory
  MaxPages,    \* scope_config.max_pages
  MaxDepth,    \* scope_config.max_depth
  MaxAttempts, \* scope_config.static_max_attempts
  PageBody,    \* the content of an answered page
  ErrorBody,   \* the content sent with a temporary error
  NoBody,      \* no content
  MaxScans,    \* bound on scans created
  MaxCrawlers  \* bound on scans executed at once

ASSUME CrawlAssumption ==
  /\ Start \in InScope
  /\ Links \in [Pages -> SUBSET Pages]
  /\ SeedChoices \subseteq SUBSET Sources
  /\ MaxPages \in Nat \ {0} /\ MaxDepth \in Nat /\ MaxAttempts \in Nat \ {0}
  /\ NoBody \notin {PageBody, ErrorBody}
  /\ MaxScans \in Nat /\ MaxCrawlers \in Nat

VARIABLES
  scan,      \* the scans created, with their jobs and counters
  seed,      \* the seeds of each, by page
  snap,      \* the snapshots of each, by page
  crawl,     \* the crawler of each, in memory
  rows,      \* content rows
  artifacts, \* parse artifacts, by content and page
  files      \* content files

crawlVars == <<scan, seed, snap, crawl, rows, artifacts, files>>

-----------------------------------------------------------------------------
Scans == 1 .. MaxScans

Contents == {PageBody, ErrorBody}

NoScan == [status |-> "none", cancel |-> FALSE, stop |-> "none", discovered |-> 0, fetched |-> 0,
           failed |-> 0, attempts |-> 0, retries |-> 0, exhausted |-> 0]

\* The rows of a deleted scan are gone; its number is not used again.
DeletedScan == [NoScan EXCEPT !.status = "deleted"]

StopReasons ==
  {"none", "cancelled_by_user", "page_limit_reached", "queue_exhausted", "worker_lease_expired"}

SeedStates == {"none", "queued", "rejected", "not_queued_page_limit", "fetched", "failed"}

\* "busy" is a fetched page with a temporary HTTP error, "down" a failed request worth
\* repeating, "refused" one that is not.
Outcomes == {"fetched", "busy", "down", "refused"}

Transient == {"busy", "down"}

Failing == {"down", "refused"}

Unvisited == [state |-> "none", body |-> NoBody, parsed |-> FALSE, depth |-> 0, attempts |-> 0]

Item(p, depth, attempt) == [page |-> p, depth |-> depth, attempt |-> attempt]

NoItem == Item(Start, 0, 0)

NoAnswer == [state |-> "none", body |-> NoBody, row |-> FALSE, parsed |-> FALSE]

Asleep == [at |-> "idle", queue |-> <<>>, retry |-> <<>>, seen |-> {}, fetched |-> {}, touched |-> {},
           item |-> NoItem, candidate |-> FALSE, answer |-> NoAnswer]

CrawlPhases == {"idle", "next", "waiting", "picked", "asked", "answered", "ending", "broken"}

CrawlTypeOK ==
  /\ scan \in [Scans -> [status: JobStatuses \cup {"none", "deleted"}, cancel: BOOLEAN, stop: StopReasons,
                         discovered: Nat, fetched: Nat, failed: Nat, attempts: Nat, retries: Nat,
                         exhausted: Nat]]
  /\ seed \in [Scans -> [Pages -> SeedStates]]
  /\ snap \in [Scans -> [Pages -> [state: Outcomes \cup {"none"}, body: Contents \cup {NoBody},
                                   parsed: BOOLEAN, depth: 0 .. MaxDepth, attempts: 0 .. MaxAttempts]]]
  /\ \A s \in Scans :
       /\ crawl[s].at \in CrawlPhases
       /\ crawl[s].seen \subseteq InScope /\ crawl[s].fetched \subseteq crawl[s].seen
       /\ Cardinality(crawl[s].seen) <= MaxPages
  /\ rows \subseteq Contents /\ files \subseteq Contents
  /\ artifacts \subseteq rows \X Pages

CrawlInit ==
  /\ scan = [s \in Scans |-> NoScan]
  /\ seed = [s \in Scans |-> [p \in Pages |-> "none"]]
  /\ snap = [s \in Scans |-> [p \in Pages |-> Unvisited]]
  /\ crawl = [s \in Scans |-> Asleep]
  /\ rows = {} /\ artifacts = {} /\ files = {}

\* Touching a seed's resource takes the write lock before the request is sent.
Locking(s) == crawl[s].at \in {"asked", "answered"} /\ crawl[s].item.page \notin crawl[s].touched

Unlocked == \A s \in Scans : ~Locking(s)

Goto(s, phase) == crawl' = [crawl EXCEPT ![s].at = phase]

-----------------------------------------------------------------------------
(* The seeds of a scan.                                                    *)

\* Current entries of active sources that no suppression matches.
Inventory(chosen) ==
  {p \in Pages \ suppressed :
     \E s \in chosen : source[s].known /\ source[s].active /\ entry[s][p] = "current"}

Before(p, S) == Cardinality({q \in S : q < p})

\* The base URL first, then the inventory by URL until the page limit.
SeedState(p, listed) ==
  LET counted == (listed \cap InScope) \ {Start}
  IN IF p = Start THEN "queued"
     ELSE IF p \notin listed THEN "none"
     ELSE IF p \notin InScope THEN "rejected"
     ELSE IF Before(p, counted) + 1 < MaxPages THEN "queued" ELSE "not_queued_page_limit"

\* create_scan_from_site, create_scan_seeds and the scan's job.
CreateScan(chosen) ==
  /\ Ask
  /\ Unlocked
  /\ \E s \in Scans :
       /\ scan[s] = NoScan /\ \A t \in Scans : t < s => scan[t] # NoScan
       /\ scan' = [scan EXCEPT ![s].status = "queued"]
       /\ seed' = [seed EXCEPT ![s] = [p \in Pages |-> SeedState(p, Inventory(chosen))]]
  /\ UNCHANGED <<snap, crawl, rows, artifacts, files>>

\* A scan whose job is still queued ends with it; a running one is asked to stop.
CancelScan(s) ==
  /\ Ask
  /\ Unlocked
  /\ scan[s].status \in Active /\ ~scan[s].cancel
  /\ scan' = [scan EXCEPT ![s] =
       IF @.status = "queued" THEN [@ EXCEPT !.cancel = TRUE, !.status = "cancelled", !.stop = "cancelled_by_user"]
                              ELSE [@ EXCEPT !.cancel = TRUE]]
  /\ UNCHANGED <<seed, snap, crawl, rows, artifacts, files>>

-----------------------------------------------------------------------------
(* The crawl.                                                              *)

\* fence_domain_mutation: the job is still running under this worker's lease.
Owned(s) == scan[s].status = "running"

Sorted(S) == [i \in 1 .. Cardinality(S) |-> CHOOSE p \in S : Before(p, S) = i - 1]

\* Every queued seed at depth zero, the base URL first.
Seeded(s) ==
  LET others == {p \in Pages \ {Start} : seed[s][p] = "queued"}
  IN <<Item(Start, 0, 1)>> \o [i \in 1 .. Cardinality(others) |-> Item(Sorted(others)[i], 0, 1)]

PagesOf(items) == {items[i].page : i \in DOMAIN items}

Begin(s) ==
  /\ scan[s].status = "queued" /\ Unlocked
  /\ Cardinality({t \in Scans : crawl[t].at # "idle"}) < MaxCrawlers
  /\ scan' = [scan EXCEPT ![s].status = "running", ![s].discovered = Len(Seeded(s))]
  /\ crawl' = [crawl EXCEPT ![s] = [Asleep EXCEPT !.at = "next", !.queue = Seeded(s),
                                                 !.seen = PagesOf(Seeded(s))]]
  /\ UNCHANGED <<seed, snap, rows, artifacts, files>>

\* Mutant of Exhausted: retries are forgotten.
QueueEmpty(s) == crawl[s].queue = <<>>

Exhausted(s) == crawl[s].queue = <<>> /\ crawl[s].retry = <<>>

AtLimit(s) == Cardinality(crawl[s].fetched) >= MaxPages

\* The loop ends, or is left for a cancellation.
Leave(s) ==
  /\ crawl[s].at = "next"
  /\ Exhausted(s) \/ AtLimit(s) \/ scan[s].cancel
  /\ Goto(s, "ending")
  /\ UNCHANGED <<scan, seed, snap, rows, artifacts, files>>

\* Retries wait until no page is queued.
Pop(s) ==
  LET c == crawl[s]
      retrying == c.queue = <<>>
  IN /\ c.at = "next" /\ Owned(s) /\ Unlocked
     /\ ~Exhausted(s) /\ ~AtLimit(s) /\ ~scan[s].cancel
     /\ crawl' = [crawl EXCEPT ![s] =
          [c EXCEPT !.at = IF retrying THEN "waiting" ELSE "picked",
                    !.item = Head(IF retrying THEN c.retry ELSE c.queue),
                    !.queue = IF retrying THEN c.queue ELSE Tail(c.queue),
                    !.retry = IF retrying THEN Tail(c.retry) ELSE c.retry]]
     /\ UNCHANGED <<scan, seed, snap, rows, artifacts, files>>

\* _sleep_with_cancellation
Wait(s) ==
  /\ crawl[s].at = "waiting"
  /\ Goto(s, IF scan[s].cancel THEN "ending" ELSE "picked")
  /\ UNCHANGED <<scan, seed, snap, rows, artifacts, files>>

\* find_revalidation_candidate: an earlier snapshot of the page whose content is there.
Candidate(p) == \E t \in Scans : snap[t][p].state = "fetched" /\ snap[t][p].body \in files

Send(s) ==
  /\ crawl[s].at = "picked"
  /\ Unlocked \/ crawl[s].item.page \in crawl[s].touched
  /\ crawl' = [crawl EXCEPT ![s].at = "asked", ![s].candidate = Candidate(crawl[s].item.page)]
  /\ UNCHANGED <<scan, seed, snap, rows, artifacts, files>>

\* What is found of the answer's content: a new one is published as a file at once, its row
\* comes with the snapshot.
Receive(s, state, body) ==
  /\ crawl' = [crawl EXCEPT ![s].at = "answered",
                  ![s].answer = [state |-> state, body |-> body, row |-> body \in rows,
                                 parsed |-> <<body, crawl[s].item.page>> \in artifacts]]
  /\ files' = IF body \in rows \cup {NoBody} THEN files ELSE files \cup {body}

Answer(s) ==
  /\ crawl[s].at = "asked"
  /\ \/ Receive(s, "fetched", PageBody) /\ UNCHANGED spent
     \/ Receive(s, "busy", ErrorBody) /\ Fault
     \/ \E state \in Failing : Receive(s, state, NoBody) /\ Fault
  /\ UNCHANGED <<scan, seed, snap, rows, artifacts>>

\* Not modified: the candidate's content again.  Were it not parsed it would be read, and a
\* missing file is an error.
NotModified(s) ==
  LET parsed == <<PageBody, crawl[s].item.page>> \in artifacts
  IN /\ crawl[s].at = "asked" /\ crawl[s].candidate
     /\ crawl' = [crawl EXCEPT ![s].at = IF parsed \/ PageBody \in files THEN "answered" ELSE "broken",
                     ![s].answer = [state |-> "fetched", body |-> PageBody, row |-> TRUE, parsed |-> parsed]]
     /\ UNCHANGED <<scan, seed, snap, rows, artifacts, files>>

\* Mutant of Dangling: the content found before is taken to be there.
DanglingArtifact(answer, p) == answer.parsed /\ <<answer.body, p>> \notin artifacts

\* Foreign keys: what was found must still be there when the snapshot refers to it.
Dangling(answer, p) ==
  \/ answer.row /\ answer.body \notin rows
  \/ answer.parsed /\ <<answer.body, p>> \notin artifacts

\* Mutant of Followed: the page limit counts what has been fetched.
FollowedAll(s, answer) ==
  LET item == crawl[s].item
      new == IF answer.body = PageBody /\ item.depth < MaxDepth
             THEN (Links[item.page] \cap InScope) \ crawl[s].seen ELSE {}
  IN SubSeq(Sorted(new), 1, Min({Cardinality(new), MaxPages - Cardinality(crawl[s].fetched)}))

\* Links of an answer in scope, not met yet and not too deep, as far as the page limit goes.
Followed(s, answer) ==
  LET item == crawl[s].item
      new == IF answer.body = PageBody /\ item.depth < MaxDepth
             THEN (Links[item.page] \cap InScope) \ crawl[s].seen ELSE {}
  IN SubSeq(Sorted(new), 1, Min({Cardinality(new), MaxPages - Cardinality(crawl[s].seen)}))

\* _retry_decision and the limit on attempts.
Repeats(s, answer) == answer.state \in Transient /\ crawl[s].item.attempt < MaxAttempts

Marked(s, p, state) ==
  IF seed[s][p] = "none" THEN seed ELSE [seed EXCEPT ![s][p] = state]

Number(b) == IF b THEN 1 ELSE 0

\* Mutant of Counted: a retry adds its failure to that of the attempt before.
CountedTwice(s, answer) ==
  LET again == Repeats(s, answer)
  IN [scan[s] EXCEPT !.failed = @ + Number(answer.state \in Failing),
                     !.attempts = @ + 1,
                     !.retries = @ + Number(crawl[s].item.attempt > 1),
                     !.exhausted = @ + Number(answer.state \in Transient /\ ~again),
                     !.fetched = @ + Number(~again),
                     !.discovered = @ + Number(~again) * Len(Followed(s, answer))]

\* _record_failure, _replace_snapshot_outcome, _record_attempt and the counters of the loop.
Counted(s, answer) ==
  LET p == crawl[s].item.page
      again == Repeats(s, answer)
      row == scan[s]
  IN [row EXCEPT !.failed = @ + Number(answer.state \in Failing) - Number(snap[s][p].state \in Failing),
                 !.attempts = @ + 1,
                 !.retries = @ + Number(crawl[s].item.attempt > 1),
                 !.exhausted = @ + Number(answer.state \in Transient /\ ~again),
                 !.fetched = @ + Number(~again),
                 !.discovered = @ + Number(~again) * Len(Followed(s, answer))]

\* The snapshot is written, or its outcome replaced, the page settled or put off, and its
\* links followed.
Store(s) ==
  LET c == crawl[s]
      p == c.item.page
      a == c.answer
      again == Repeats(s, a)
      found == IF again THEN <<>> ELSE Followed(s, a)
  IN /\ c.at = "answered" /\ Owned(s)
     /\ Unlocked \/ Locking(s)
     /\ ~Dangling(a, p)
     /\ snap' = [snap EXCEPT ![s][p] = [state |-> a.state, body |-> a.body, parsed |-> a.body # NoBody,
                                       depth |-> c.item.depth, attempts |-> c.item.attempt]]
     /\ rows' = rows \cup ({a.body} \ {NoBody})
     /\ artifacts' = artifacts \cup {<<b, p>> : b \in {a.body} \ {NoBody}}
     /\ scan' = [scan EXCEPT ![s] = Counted(s, a)]
     /\ seed' = Marked(s, p, IF again THEN "queued" ELSE IF a.state \in Failing THEN "failed" ELSE "fetched")
     /\ crawl' = [crawl EXCEPT ![s] =
          [c EXCEPT !.at = "next", !.answer = NoAnswer, !.item = NoItem, !.candidate = FALSE,
                    !.touched = @ \cup {p} \cup (IF again \/ a.body # PageBody THEN {} ELSE Links[p]),
                    !.seen = @ \cup ToSet(found),
                    !.queue = @ \o [i \in DOMAIN found |-> Item(found[i], c.item.depth + 1, 1)],
                    !.retry = IF again THEN Append(@, Item(p, c.item.depth, c.item.attempt + 1)) ELSE @,
                    !.fetched = IF again THEN @ ELSE @ \cup {p}]]
     /\ UNCHANGED files

StoreFails(s) ==
  /\ crawl[s].at = "answered"
  /\ Dangling(crawl[s].answer, crawl[s].item.page)
  /\ Goto(s, "broken")
  /\ UNCHANGED <<scan, seed, snap, rows, artifacts, files>>

-----------------------------------------------------------------------------
(* The end of the scan.                                                    *)

HadErrors(s) == \E p \in crawl[s].fetched : snap[s][p].state \in Failing

StopReason(s) ==
  IF scan[s].cancel THEN "cancelled_by_user"
  ELSE IF ~Exhausted(s) THEN "page_limit_reached" ELSE "queue_exhausted"

\* The cancellation is looked at once more after the crawl.
Finish(s) ==
  /\ crawl[s].at = "ending" /\ Owned(s) /\ Unlocked
  /\ scan' = [scan EXCEPT ![s].stop = StopReason(s),
                          ![s].status = IF scan[s].cancel THEN "cancelled"
                                        ELSE IF HadErrors(s) THEN "completed_with_errors" ELSE "completed"]
  /\ crawl' = [crawl EXCEPT ![s] = Asleep]
  /\ UNCHANGED <<seed, snap, rows, artifacts, files>>

\* An exception fails the job and the scan; what was committed stays.
Break(s) ==
  /\ crawl[s].at = "broken" /\ Owned(s) /\ Unlocked
  /\ scan' = [scan EXCEPT ![s].status = "failed"]
  /\ crawl' = [crawl EXCEPT ![s] = Asleep]
  /\ UNCHANGED <<seed, snap, rows, artifacts, files>>

CrawlCrash(s) ==
  /\ crawl[s].at # "idle"
  /\ Fault
  /\ crawl' = [crawl EXCEPT ![s] = Asleep]
  /\ UNCHANGED <<scan, seed, snap, rows, artifacts, files>>

\* Recovery ends the job of a worker that died, or of one that is only slow.
RecoverScan(s) ==
  /\ Owned(s) /\ Unlocked
  /\ IF crawl[s].at = "idle" THEN UNCHANGED spent ELSE Fault
  /\ scan' = [scan EXCEPT ![s].status = "interrupted", ![s].stop = "worker_lease_expired"]
  /\ UNCHANGED <<seed, snap, crawl, rows, artifacts, files>>

\* A worker that lost its job stops at its next commit.
ScanLost(s) ==
  /\ crawl[s].at # "idle" /\ ~Owned(s)
  /\ crawl' = [crawl EXCEPT ![s] = Asleep]
  /\ UNCHANGED <<scan, seed, snap, rows, artifacts, files>>

-----------------------------------------------------------------------------
CrawlRequest == (\E chosen \in SeedChoices : CreateScan(chosen)) \/ (\E s \in Scans : CancelScan(s))

CrawlFaults(s) == CrawlCrash(s) \/ RecoverScan(s)

CrawlStep(s) ==
  \/ Begin(s) \/ Leave(s) \/ Pop(s) \/ Wait(s) \/ Send(s) \/ NotModified(s)
  \/ Store(s) \/ StoreFails(s) \/ Finish(s) \/ Break(s) \/ ScanLost(s)
=============================================================================
