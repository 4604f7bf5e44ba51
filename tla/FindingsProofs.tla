---------------------------- MODULE FindingsProofs ----------------------------
(***************************************************************************)
(* What a finding says, for any pages, roots, crawls and trees and any     *)
(* number of scans, refreshes and evaluations.                             *)
(*                                                                         *)
(* NewestApplied is inductive once the tables are typed and the id of a    *)
(* new evaluation is known to be free: an evaluation that completes is not *)
(* older than any that has, as it was not superseded, and so it is the     *)
(* newest of every page of its universe.  The typing needs that evidence   *)
(* is there when it is read: the scan of an evaluation that has kept it,   *)
(* and the refreshes that its manifest names.                              *)
(***************************************************************************)
EXTENDS Findings, WellFoundedInduction, TLAPS

-----------------------------------------------------------------------------
(***************************************************************************)
(* The inductive invariant.                                                *)
(***************************************************************************)

ScanRows == [at: Times \ {None}, crawl: Crawls]

\* What a refresh has lost is a part of its tree.
RefreshRows == {x \in [root: Roots, at: Times, tree: Trees, gone: SUBSET UNION {t.nodes : t \in Trees}] :
                  x.gone \subseteq x.tree.nodes}

Manifests == UNION {[S -> 0..MaxRefreshes] : S \in SUBSET Roots}

EvaluationRows ==
  [status: {"queued", "completed", "failed", "cancelled"}, scan: ScanIds, kept: BOOLEAN,
   roots: Manifests, universe: SUBSET Pages, horizon: Times]

FindingRows ==
  [state: {"detected", "resolved", "unknown"}, severity: Severities \cup {"none"},
   last: Times, evaluated: Times, resolved: Times, reopened: Times, acknowledged: BOOLEAN,
   assessed: [EvaluationIds -> Outcomes], current: EvaluationIds]

JobStatuses == ActiveStatuses \cup {"none", "completed", "failed", "cancelled", "interrupted"}

EvidenceOK ==
  /\ clock \in Times
  /\ scan \in [ScanIds -> {NoScan} \cup ScanRows]
  /\ refresh \in Seq(RefreshRows) /\ Len(refresh) <= MaxRefreshes
  /\ source \in [Roots -> {"active", "inactive", "deleted"}]
  /\ active \in SUBSET Pages
  /\ switches \in 0..MaxSwitches /\ retries \in 0..MaxRetries

\* What an evaluation has frozen is there, unless it says otherwise.
HasEvidence(e) ==
  /\ evaluation[e].kept => evaluation[e].scan \in Retained
  /\ \A r \in DOMAIN evaluation[e].roots : evaluation[e].roots[r] <= Len(refresh)

WorkOK ==
  /\ evaluation \in [EvaluationIds -> {NoEvaluation} \cup EvaluationRows]
  /\ job \in [EvaluationIds -> JobStatuses]
  /\ \A e \in Evaluated : HasEvidence(e)

Severe(f) == f.severity # "none" <=> f.state = "detected"

FindingsOK ==
  /\ finding \in [Keys -> {NoFinding} \cup FindingRows]
  /\ \A k \in Keys : finding[k] # NoFinding => Severe(finding[k])

\* The part of NewestApplied that is about one finding.
AssessedIn(f) == {e \in EvaluationIds : f.assessed[e] # "none"}

From(E, A) == {e \in E : \E first \in A : first <= e}

Newest(f, E) ==
  /\ f.current = Max(E)
  /\ f.state = StateForOutcome(f.assessed[f.current])
  /\ AssessedIn(f) = From(E, AssessedIn(f))

IInv == EvidenceOK /\ WorkOK /\ FindingsOK /\ NewestApplied

-----------------------------------------------------------------------------
(***************************************************************************)
(* Greatest elements.                                                      *)
(***************************************************************************)

LEMMA GreatestIs ==
  ASSUME NEW S, S \subseteq Nat, NEW m \in S, \A x \in S : x <= m
  PROVE  Max(S) = m
  <1>1. m \in S /\ \A y \in S : m >= y
    OBVIOUS
  <1>2. Max(S) \in S /\ \A y \in S : Max(S) >= y
    BY <1>1 DEF Max
  <1>3. Max(S) >= m /\ m >= Max(S) /\ Max(S) \in Nat /\ m \in Nat
    BY <1>1, <1>2
  <1> QED
    BY <1>3

LEMMA Greatest ==
  ASSUME NEW n \in Nat, NEW S, S \subseteq 0..n, S # {}
  PROVE  Max(S) \in S /\ \A x \in S : x <= Max(S)
  <1> DEFINE T == {n - x : x \in S}
  <1>1. T \subseteq Nat /\ T # {}
    <2>1. \A x \in S : n - x \in Nat
      OBVIOUS
    <2> QED
      BY <2>1, Zenon
  <1>2. PICK t \in T : \A u \in T : <<u, t>> \notin OpToRel(<, Nat)
    BY <1>1, WFMin, NatLessThanWellFounded, Zenon
  <1>3. \A u \in T : ~(u < t)
    BY <1>1, <1>2, Zenon DEF OpToRel
  <1>4. PICK m \in S : t = n - m
    OBVIOUS
  <1>5. \A x \in S : x <= m
    <2> SUFFICES ASSUME NEW x \in S PROVE x <= m
      OBVIOUS
    <2>1. ~(n - x < n - m)
      BY <1>3, <1>4
    <2> QED
      BY <2>1
  <1>6. S \subseteq Nat
    OBVIOUS
  <1> HIDE DEF T
  <1>7. Max(S) = m
    BY <1>4, <1>5, <1>6, GreatestIs
  <1> QED
    BY <1>5, <1>7

-----------------------------------------------------------------------------
(***************************************************************************)
(* What a detector may answer.                                             *)
(***************************************************************************)

LEMMA LinksAnswer ==
  ASSUME NEW s, NEW links, NEW Found(_), NEW Known(_), NEW severity \in Severities
  PROVE  ByLinks(s, links, Found, Known, severity) \in Results
  <1> DEFINE Worst == \E l \in links : Known(l) /\ Found(l)
  <1>1. CASE ~Usable(s)
    BY <1>1 DEF ByLinks, Results
  <1>2. CASE Usable(s) /\ Worst
    BY <1>2 DEF ByLinks, Results
  <1>3. CASE Usable(s) /\ ~Worst
    BY <1>3 DEF ByLinks, Results
  <1> QED
    BY <1>1, <1>2, <1>3

LEMMA DeclaredAnswer ==
  ASSUME NEW c, NEW page, NEW result \in Results
  PROVE  WhereDeclared(c, page, result) \in Results
  BY DEF WhereDeclared, Results

LEMMA PageAnswers ==
  ASSUME NEW s
  PROVE  /\ HttpError(s) \in Results
         /\ Noindex(s) \in Results
         /\ IndexabilityConflict(s) \in Results
         /\ StaticFetchFailure(s) \in Results
         /\ MissingTitle(s) \in Results
         /\ InvalidCanonical(s) \in Results
         /\ MultipleCanonicals(s) \in Results
         /\ NonHtmlRepresentation(s) \in Results
  <1>1. HttpError(s) \in Results
    BY DEF HttpError, ByStatus, Results, Severities
  <1>2. Noindex(s) \in Results /\ IndexabilityConflict(s) \in Results
    BY DEF Noindex, IndexabilityConflict, ByDirectives, Results, Severities
  <1>3. StaticFetchFailure(s) \in Results /\ MissingTitle(s) \in Results
    BY DEF StaticFetchFailure, MissingTitle, Results, Severities
  <1>4. InvalidCanonical(s) \in Results /\ MultipleCanonicals(s) \in Results
    BY DEF InvalidCanonical, MultipleCanonicals, Results, Severities
  <1>5. NonHtmlRepresentation(s) \in Results
    BY DEF NonHtmlRepresentation, Results, Severities
  <1> QED
    BY <1>1, <1>2, <1>3, <1>4, <1>5

LEMMA TargetAnswers ==
  ASSUME NEW s, NEW c, NEW page
  PROVE  /\ CanonicalTargetHttpError(s, c) \in Results
         /\ BrokenInternalLinks(s, c, page) \in Results
         /\ InternalLinksToRedirects(s, c, page) \in Results
  <1>1. CanonicalTargetHttpError(s, c) \in Results
    <2> DEFINE target == AtUrl(c, Normalize(s.canonical))
    <2>1. (IF ~Usable(target) THEN "unknown"
           ELSE IF target.status \in {"4xx", "5xx"} THEN "high" ELSE "clear") \in Results
      BY DEF Results, Severities
    <2> QED
      BY <2>1 DEF CanonicalTargetHttpError, Results, Severities
  <1>2. BrokenInternalLinks(s, c, page) \in Results
    BY LinksAnswer DEF BrokenInternalLinks, Severities
  <1>3. InternalLinksToRedirects(s, c, page) \in Results
    BY LinksAnswer DEF InternalLinksToRedirects, Severities
  <1> QED
    BY <1>1, <1>2, <1>3

LEMMA SitemapAnswers ==
  ASSUME NEW s, NEW c, NEW page
  PROVE  /\ SitemapPageHttpError(s, c, page) \in Results
         /\ SitemapPageNoindex(s, c, page) \in Results
         /\ SitemapPageRedirect(s, c, page) \in Results
  <1>1. SitemapPageHttpError(s, c, page) \in Results /\ SitemapPageNoindex(s, c, page) \in Results
    BY PageAnswers, DeclaredAnswer DEF SitemapPageHttpError, SitemapPageNoindex
  <1>2. "unknown" \in Results /\ RedirectedFrom(s, Head(c.declared[page])) \in Results
    BY DEF RedirectedFrom, Results, Severities
  <1>3. SitemapPageRedirect(s, c, page) \in Results
    BY <1>2, DeclaredAnswer DEF SitemapPageRedirect
  <1> QED
    BY <1>1, <1>3

LEMMA DetectorAnswers ==
  ASSUME NEW d \in CurrentFindingDetectors, NEW c, NEW page
  PROVE  Evaluate(d, c, page) \in Results
  <1> DEFINE s == c.snapshots[page]
  <1>1. CASE d \in PageDetectors
    BY <1>1, PageAnswers, TargetAnswers DEF PageDetectors, Evaluate
  <1>2. CASE d \in SitemapDetectors
    BY <1>2, SitemapAnswers DEF SitemapDetectors, Evaluate
  <1> QED
    BY <1>1, <1>2 DEF CurrentFindingDetectors

LEMMA OutcomeKnown ==
  ASSUME NEW result \in Results
  PROVE  /\ Outcome(result) \in {"detected", "clear", "unknown"}
         /\ Outcome(result) = "detected" <=> result \in Severities
  BY DEF Outcome, Results, Severities

-----------------------------------------------------------------------------
(***************************************************************************)
(* What an evaluation makes of one finding.                                *)
(***************************************************************************)

\* The bounds are numbers, and the detectors are current ones.
LEMMA Bounds ==
  /\ MaxScans \in Nat /\ MaxRefreshes \in Nat /\ MaxEvaluations \in Nat
  /\ MaxSwitches \in Nat /\ MaxRetries \in Nat
  /\ Detectors \subseteq CurrentFindingDetectors
  BY FindingsAssumption DEF FindingsAssumption

LEMMA AssessedFinding ==
  ASSUME NEW f \in FindingRows, NEW e \in EvaluationIds, NEW result \in Results, NEW at \in Times
  PROVE  LET g == Assessed(f, e, result, at)
         IN /\ g \in FindingRows
            /\ g.current = e
            /\ g.state = StateForOutcome(Outcome(result))
            /\ g.assessed = [f.assessed EXCEPT ![e] = Outcome(result)]
            /\ Severe(g)
  <1> DEFINE o == Outcome(result)
             state == StateForOutcome(o)
             severity == SeverityOf(result)
             last == IF o = "detected" THEN at ELSE f.last
             resolved == IF o = "clear" /\ f.state # "resolved" THEN at ELSE f.resolved
             reopened == IF IsReopen(f, o) THEN at ELSE f.reopened
             acknowledged == f.acknowledged /\ ~IsReopen(f, o)
             f1 == [f EXCEPT !.state = state, !.severity = severity, !.evaluated = at]
             f2 == [f1 EXCEPT !.last = last, !.resolved = resolved, !.reopened = reopened]
             f3 == [f2 EXCEPT !.acknowledged = acknowledged, !.assessed[e] = o, !.current = e]
  <1>1. o \in {"detected", "clear", "unknown"} /\ (o = "detected" <=> result \in Severities)
    BY OutcomeKnown
  <1>2. state \in {"detected", "resolved", "unknown"} /\ (state = "detected" <=> o = "detected")
    BY <1>1 DEF StateForOutcome
  <1>3. severity \in Severities \cup {"none"} /\ (severity # "none" <=> result \in Severities)
    BY DEF SeverityOf, Severities
  <1>4. last \in Times /\ resolved \in Times /\ reopened \in Times
    BY DEF FindingRows
  <1>5. acknowledged \in BOOLEAN
    OBVIOUS
  <1>6. o \in Outcomes
    BY <1>1 DEF Outcomes
  <1>7. Assessed(f, e, result, at) = f3
    BY DEF Assessed
  <1> HIDE DEF o, state, severity, last, resolved, reopened, acknowledged
  <1>8. f1 \in FindingRows /\ f1.state = state /\ f1.severity = severity /\ f1.assessed = f.assessed
    BY <1>2, <1>3 DEF FindingRows
  <1> HIDE DEF f1
  <1>9. f2 \in FindingRows /\ f2.state = state /\ f2.severity = severity /\ f2.assessed = f.assessed
    BY <1>4, <1>8 DEF FindingRows
  <1> HIDE DEF f2
  <1>10. /\ f3 \in FindingRows /\ f3.state = state /\ f3.severity = severity
         /\ f3.assessed = [f.assessed EXCEPT ![e] = o] /\ f3.current = e
    BY <1>5, <1>6, <1>9 DEF FindingRows
  <1> HIDE DEF f3
  <1>11. Severe(f3)
    BY <1>1, <1>2, <1>3, <1>10 DEF Severe
  <1> QED
    BY <1>7, <1>10, <1>11 DEF o, state

\* Applying an evaluation that is not older than those that were makes it the newest.
LEMMA NewestGrows ==
  ASSUME NEW E, E \subseteq EvaluationIds, NEW e \in EvaluationIds, \A x \in E : x <= e,
         NEW f \in FindingRows, AssessedIn(f) = From(E, AssessedIn(f)),
         NEW o \in Outcomes \ {"none"},
         NEW g, g.assessed = [f.assessed EXCEPT ![e] = o], g.current = e,
         g.state = StateForOutcome(o)
  PROVE  Newest(g, E \cup {e})
  <1>1. EvaluationIds \subseteq Nat
    BY DEF EvaluationIds
  <1>2. f.assessed \in [EvaluationIds -> Outcomes]
    BY DEF FindingRows
  <1>3. g.assessed[e] = o /\ \A x \in EvaluationIds \ {e} : g.assessed[x] = f.assessed[x]
    BY <1>2
  <1>4. AssessedIn(g) = AssessedIn(f) \cup {e}
    BY <1>3 DEF AssessedIn
  <1>5. g.current = Max(E \cup {e})
    <2>1. E \cup {e} \subseteq Nat /\ e \in E \cup {e} /\ \A x \in E \cup {e} : x <= e
      BY <1>1
    <2> QED
      BY <2>1, GreatestIs
  <1>6. AssessedIn(g) = From(E \cup {e}, AssessedIn(g))
    <2>1. ASSUME NEW x \in AssessedIn(g) PROVE x \in From(E \cup {e}, AssessedIn(g))
      <3>1. x \in E \cup {e}
        BY <1>4 DEF From
      <3>2. x \in Nat
        BY <1>1 DEF AssessedIn
      <3>3. x <= x
        BY <3>2
      <3> QED
        BY <3>1, <3>3 DEF From
    <2>2. ASSUME NEW x \in From(E \cup {e}, AssessedIn(g)) PROVE x \in AssessedIn(g)
      <3>1. PICK first \in AssessedIn(g) : x \in E \cup {e} /\ first <= x
        BY DEF From
      <3>2. CASE x = e
        BY <1>4, <3>2
      <3>3. CASE x # e /\ first = e
        <4>1. x <= e /\ e <= x /\ x \in Nat /\ e \in Nat
          BY <1>1, <3>1, <3>3
        <4> QED
          BY <3>3, <4>1
      <3>4. CASE x # e /\ first # e
        <4>1. x \in E /\ first \in AssessedIn(f)
          BY <1>4, <3>1, <3>4
        <4> QED
          BY <1>4, <3>1, <4>1 DEF From
      <3> QED
        BY <3>2, <3>3, <3>4
    <2> QED
      BY <2>1, <2>2
  <1> QED
    BY <1>3, <1>5, <1>6 DEF Newest

-----------------------------------------------------------------------------
(***************************************************************************)
(* What an evaluation reads is there.                                      *)
(***************************************************************************)

LEMMA LatestTime ==
  ASSUME NEW T, T \subseteq Times, T # {}
  PROVE  Max(T) \in Times
  <1> DEFINE n == MaxScans + MaxRefreshes
  <1>1. n \in Nat /\ T \subseteq 0..n
    BY Bounds DEF Times
  <1> HIDE DEF n
  <1>2. Max(T) \in T
    BY <1>1, Greatest
  <1> QED
    BY <1>2

LEMMA RefreshTime ==
  ASSUME EvidenceOK, NEW n, n \in 0..MaxRefreshes, n # None, n <= Len(refresh)
  PROVE  refresh[n].at \in Times
  <1>1. n \in 1..Len(refresh)
    <2>1. n \in Nat /\ n # 0 /\ Len(refresh) \in Nat
      BY Bounds DEF EvidenceOK, None
    <2> QED
      BY <2>1
  <1>2. refresh[n] \in RefreshRows
    BY <1>1 DEF EvidenceOK
  <1> QED
    BY <1>2 DEF RefreshRows

LEMMA RetainedRow ==
  ASSUME EvidenceOK, NEW i \in Retained
  PROVE  i \in ScanIds /\ scan[i] \in ScanRows /\ scan[i].at \in Times
  BY DEF EvidenceOK, Retained, ScanRows

LEMMA ManifestRow ==
  ASSUME NEW m \in Manifests, NEW r \in DOMAIN m
  PROVE  m[r] \in 0..MaxRefreshes /\ r \in Roots
  BY DEF Manifests

LEMMA EvaluatedRow ==
  ASSUME WorkOK, NEW e \in Evaluated
  PROVE  e \in EvaluationIds /\ evaluation[e] \in EvaluationRows
  BY DEF WorkOK, Evaluated

LEMMA ObservedTime ==
  ASSUME EvidenceOK, WorkOK, NEW e \in Evaluated, evaluation[e].kept, NEW k
  PROVE  ObservedAt(evaluation[e], k) \in Times
  <1> DEFINE x == evaluation[e]
  <1>1. x \in EvaluationRows /\ HasEvidence(e)
    BY EvaluatedRow DEF WorkOK
  <1>2. SnapshotTimes(x, k[2]) \subseteq Times
    BY <1>1, RetainedRow DEF SnapshotTimes, HasEvidence
  <1>3. RefreshTimes(x) \subseteq Times
    <2> SUFFICES ASSUME NEW r \in DOMAIN x.roots, Present(r, x.roots[r])
                 PROVE  refresh[x.roots[r]].at \in Times
      BY DEF RefreshTimes
    <2>1. x.roots \in Manifests
      BY <1>1 DEF EvaluationRows
    <2>2. x.roots[r] \in 0..MaxRefreshes /\ x.roots[r] # None /\ x.roots[r] <= Len(refresh)
      BY <1>1, <2>1, ManifestRow DEF Present, HasEvidence
    <2> QED
      BY <2>2, RefreshTime
  <1>4. x.horizon \in Times
    BY <1>1 DEF EvaluationRows
  <1> HIDE DEF x
  <1> DEFINE times == SnapshotTimes(x, k[2]) \cup (IF k[1] \in SitemapDetectors THEN RefreshTimes(x) ELSE {})
  <1>5. times \subseteq Times
    BY <1>2, <1>3
  <1>6. ObservedAt(x, k) = IF times = {} THEN x.horizon ELSE Max(times)
    BY DEF ObservedAt
  <1> HIDE DEF times
  <1>7. ObservedAt(x, k) \in Times
    BY <1>4, <1>5, <1>6, LatestTime
  <1> QED
    BY <1>7 DEF x

-----------------------------------------------------------------------------
(***************************************************************************)
(* What a step leaves of the invariant.                                    *)
(***************************************************************************)

\* The same findings and the same evaluations applied to each.
SameNewest ==
  \A k \in Keys :
    /\ finding'[k] # NoFinding =>
         /\ finding[k] # NoFinding
         /\ finding'[k].current = finding[k].current /\ finding'[k].state = finding[k].state
         /\ finding'[k].assessed = finding[k].assessed
    /\ finding'[k] # NoFinding => AppliedTo(k)' = AppliedTo(k)

LEMMA NewestOf ==
  NewestApplied <=> \A k \in Keys : finding[k] # NoFinding => Newest(finding[k], AppliedTo(k))
  BY Zenon DEF NewestApplied, Newest, AssessedIn, From

LEMMA NewestOfNext ==
  NewestApplied' <=> \A k \in Keys : finding'[k] # NoFinding => Newest(finding'[k], AppliedTo(k)')
  BY Zenon DEF NewestApplied, Newest, AssessedIn, From

LEMMA NewestStays ==
  ASSUME NewestApplied, SameNewest
  PROVE  NewestApplied'
  <1> SUFFICES ASSUME NEW k \in Keys, finding'[k] # NoFinding
               PROVE  Newest(finding'[k], AppliedTo(k)')
    BY NewestOfNext
  <1>1. /\ finding[k] # NoFinding /\ AppliedTo(k)' = AppliedTo(k)
        /\ finding'[k].current = finding[k].current /\ finding'[k].state = finding[k].state
        /\ finding'[k].assessed = finding[k].assessed
    BY DEF SameNewest
  <1>2. Newest(finding[k], AppliedTo(k))
    BY <1>1, NewestOf
  <1>3. AssessedIn(finding'[k]) = AssessedIn(finding[k])
    BY <1>1 DEF AssessedIn
  <1> QED
    BY <1>1, <1>2, <1>3 DEF Newest

\* Completed evaluations stay as they are and no other completes.
SameApplied ==
  \A e \in EvaluationIds :
    \/ evaluation'[e] = evaluation[e]
    \/ /\ evaluation[e].status # "completed" /\ evaluation'[e].status # "completed"
    \/ /\ evaluation[e] # NoEvaluation /\ evaluation'[e] # NoEvaluation
       /\ evaluation'[e].status = evaluation[e].status
       /\ evaluation'[e].universe = evaluation[e].universe

LEMMA AppliedStays ==
  ASSUME SameApplied, NEW k
  PROVE  AppliedTo(k)' = AppliedTo(k)
  <1>1. AppliedTo(k) = {e \in EvaluationIds : /\ evaluation[e] # NoEvaluation /\ evaluation[e].status = "completed"
                                             /\ k[2] \in evaluation[e].universe}
    BY DEF AppliedTo, Evaluated
  <1>2. AppliedTo(k)' = {e \in EvaluationIds : /\ evaluation'[e] # NoEvaluation /\ evaluation'[e].status = "completed"
                                              /\ k[2] \in evaluation'[e].universe}
    BY DEF AppliedTo, Evaluated
  <1> QED
    BY <1>1, <1>2 DEF SameApplied

LEMMA FindingsSame ==
  ASSUME IInv, finding' = finding, SameApplied
  PROVE  FindingsOK' /\ NewestApplied'
  <1>1. FindingsOK'
    BY DEF IInv, FindingsOK
  <1>2. SameNewest
    BY AppliedStays DEF SameNewest
  <1> QED
    BY <1>1, <1>2, NewestStays DEF IInv

LEMMA WorkSame ==
  ASSUME IInv, UNCHANGED <<evaluation, job>>, Retained \subseteq Retained', Len(refresh) <= Len(refresh)',
         Len(refresh)' \in Nat
  PROVE  WorkOK' /\ SameApplied
  <1>1. SameApplied
    BY DEF SameApplied
  <1>2. Evaluated' = Evaluated
    BY DEF Evaluated
  <1>3. ASSUME NEW e \in Evaluated PROVE HasEvidence(e)'
    <2>1. HasEvidence(e) /\ evaluation[e] \in EvaluationRows
      BY EvaluatedRow DEF IInv, WorkOK
    <2>2. evaluation'[e] = evaluation[e]
      OBVIOUS
    <2>3. ASSUME NEW r \in DOMAIN evaluation[e].roots PROVE evaluation[e].roots[r] <= Len(refresh)'
      <3>1. evaluation[e].roots \in Manifests
        BY <2>1 DEF EvaluationRows
      <3>2. evaluation[e].roots[r] \in Nat
        BY <3>1, ManifestRow, Bounds
      <3>3. evaluation[e].roots[r] <= Len(refresh) /\ Len(refresh) \in Nat
        BY <2>1 DEF HasEvidence, IInv, EvidenceOK
      <3> QED
        BY <3>2, <3>3
    <2> QED
      BY <2>1, <2>2, <2>3 DEF HasEvidence
  <1>4. evaluation' \in [EvaluationIds -> {NoEvaluation} \cup EvaluationRows] /\ job' \in [EvaluationIds -> JobStatuses]
    BY DEF IInv, WorkOK
  <1> QED
    BY <1>1, <1>2, <1>3, <1>4 DEF WorkOK

-----------------------------------------------------------------------------
(***************************************************************************)
(* Evidence.                                                               *)
(***************************************************************************)

LEMMA NewId ==
  ASSUME NEW n \in Nat, NEW S, S \subseteq 1..n
  PROVE  NextId(S) \notin S /\ NextId(S) \in Nat
  <1>1. S \cup {0} \subseteq 0..n /\ S \cup {0} # {}
    OBVIOUS
  <1>2. Max(S \cup {0}) \in S \cup {0} /\ \A x \in S \cup {0} : x <= Max(S \cup {0})
    BY <1>1, Greatest
  <1>3. Max(S \cup {0}) \in Nat
    <2>1. \A x \in S \cup {0} : x \in Nat
      OBVIOUS
    <2> QED
      BY <1>2, <2>1, Zenon
  <1> DEFINE m == Max(S \cup {0})
  <1> HIDE DEF m
  <1>4. m \in Nat /\ \A x \in S : x <= m
    BY <1>2, <1>3 DEF m
  <1>5. NextId(S) = 1 + m
    BY DEF NextId, m
  <1>6. \A x \in S : x \in Nat
    OBVIOUS
  <1> QED
    BY <1>4, <1>5, <1>6

LEMMA ScanEndsKeeps ==
  ASSUME IInv, NEW crawl \in Crawls, ScanEnds(crawl)
  PROVE  IInv'
  <1> DEFINE i == NextId(Retained)
  <1>1. clock' \in Times \ {None}
    BY Bounds DEF ScanEnds, Times, None, IInv, EvidenceOK
  <1>2. scan' \in [ScanIds -> {NoScan} \cup ScanRows] /\ scan'[i] \in ScanRows
        /\ \A j \in ScanIds \ {i} : scan'[j] = scan[j]
    BY <1>1 DEF ScanEnds, ScanRows, IInv, EvidenceOK
  <1>3. NoScan \notin ScanRows
    BY DEF NoScan, ScanRows, None
  <1>4. Retained \subseteq Retained'
    BY <1>2, <1>3 DEF Retained
  <1>5. EvidenceOK'
    BY <1>1, <1>2 DEF ScanEnds, EvidenceOK, IInv
  <1>6. WorkOK' /\ SameApplied
    <2>1. UNCHANGED <<evaluation, job>> /\ Len(refresh)' = Len(refresh) /\ Len(refresh) \in Nat
      BY DEF ScanEnds, IInv, EvidenceOK
    <2> QED
      BY <1>4, <2>1, WorkSame
  <1>7. FindingsOK' /\ NewestApplied'
    BY <1>6, FindingsSame DEF ScanEnds
  <1> QED
    BY <1>5, <1>6, <1>7 DEF IInv

LEMMA SwitchKeeps ==
  ASSUME IInv, Switch
  PROVE  switches' \in 0..MaxSwitches
  BY Bounds DEF Switch, IInv, EvidenceOK

LEMMA DeleteScanKeeps ==
  ASSUME IInv, NEW i \in ScanIds, DeleteScan(i)
  PROVE  IInv'
  <1>1. EvidenceOK'
    BY SwitchKeeps DEF DeleteScan, EvidenceOK, IInv
  <1>2. \A e \in EvaluationIds :
          evaluation'[e] = IF e \in Evaluated /\ evaluation[e].scan = i THEN [evaluation[e] EXCEPT !.kept = FALSE]
                           ELSE evaluation[e]
    BY DEF DeleteScan
  <1>3. ASSUME NEW e \in Evaluated
        PROVE  /\ evaluation'[e] \in EvaluationRows /\ e \in EvaluationIds
               /\ evaluation'[e].status = evaluation[e].status
               /\ evaluation'[e].universe = evaluation[e].universe
               /\ evaluation'[e].roots = evaluation[e].roots /\ evaluation'[e].scan = evaluation[e].scan
               /\ evaluation'[e].kept => evaluation[e].kept /\ evaluation[e].scan # i
    BY <1>2, EvaluatedRow DEF EvaluationRows, IInv
  <1>4. NoEvaluation \notin EvaluationRows
    BY DEF NoEvaluation, EvaluationRows
  <1>5. Evaluated' = Evaluated
    <2>1. \A e \in EvaluationIds \ Evaluated : evaluation'[e] = evaluation[e]
      BY <1>2
    <2> QED
      BY <1>3, <1>4, <2>1 DEF Evaluated
  <1>6. Retained \ {i} \subseteq Retained'
    BY DEF DeleteScan, Retained, IInv, EvidenceOK
  <1>7. WorkOK'
    <2>1. evaluation' \in [EvaluationIds -> {NoEvaluation} \cup EvaluationRows]
      <3>1. \A e \in EvaluationIds : evaluation'[e] \in {NoEvaluation} \cup EvaluationRows
        BY <1>2, <1>3 DEF Evaluated
      <3> QED
        BY <3>1 DEF DeleteScan
    <2>2. \A e \in Evaluated : HasEvidence(e)'
      BY <1>3, <1>6 DEF HasEvidence, IInv, WorkOK, DeleteScan
    <2> QED
      BY <1>5, <2>1, <2>2 DEF WorkOK, DeleteScan, IInv
  <1>8. SameApplied
    <2> SUFFICES ASSUME NEW e \in EvaluationIds, evaluation'[e] # evaluation[e]
                 PROVE  /\ evaluation[e] # NoEvaluation /\ evaluation'[e] # NoEvaluation
                        /\ evaluation'[e].status = evaluation[e].status
                        /\ evaluation'[e].universe = evaluation[e].universe
      BY DEF SameApplied
    <2>1. e \in Evaluated
      BY <1>2
    <2> QED
      BY <1>3, <1>4, <2>1 DEF Evaluated
  <1>9. FindingsOK' /\ NewestApplied'
    BY <1>8, FindingsSame DEF DeleteScan
  <1> QED
    BY <1>1, <1>7, <1>9 DEF IInv

LEMMA RefreshKeeps ==
  ASSUME IInv, NEW r \in Roots, NEW tree \in Trees, Refresh(r, tree)
  PROVE  IInv'
  <1>1. clock' \in Times
    BY Bounds DEF Refresh, Times, IInv, EvidenceOK
  <1>2. [root |-> r, at |-> clock', tree |-> tree, gone |-> {}] \in RefreshRows
    BY <1>1 DEF RefreshRows
  <1>3. refresh' \in Seq(RefreshRows) /\ Len(refresh') = Len(refresh) + 1 /\ Len(refresh) \in Nat
    BY <1>2 DEF Refresh, IInv, EvidenceOK
  <1>4. Len(refresh') <= MaxRefreshes
    BY <1>3, Bounds DEF Refresh
  <1>5. EvidenceOK'
    BY <1>1, <1>3, <1>4 DEF Refresh, EvidenceOK, IInv
  <1>6. WorkOK' /\ SameApplied
    <2>1. UNCHANGED <<evaluation, job>> /\ Retained' = Retained
      BY DEF Refresh, Retained
    <2> QED
      BY <1>3, <2>1, WorkSame
  <1>7. FindingsOK' /\ NewestApplied'
    BY <1>6, FindingsSame DEF Refresh
  <1> QED
    BY <1>5, <1>6, <1>7 DEF IInv

LEMMA DeleteChildKeeps ==
  ASSUME IInv, NEW r \in Roots, NEW path, DeleteChild(r, path)
  PROVE  IInv'
  <1>1. refresh \in Seq(RefreshRows) /\ Len(refresh) \in Nat /\ Len(refresh) <= MaxRefreshes
    BY DEF IInv, EvidenceOK
  <1>2. ASSUME NEW n \in 1..Len(refresh) PROVE refresh'[n] \in RefreshRows
    <2> DEFINE row == refresh[n]
               lost == {m \in row.tree.nodes : IsPrefix(path, m.path)}
    <2>1. row \in RefreshRows
      BY <1>1
    <2>2. refresh'[n] = IF row.root # r THEN row ELSE [row EXCEPT !.gone = @ \cup lost]
      BY DEF DeleteChild
    <2>3. row.gone \cup lost \subseteq row.tree.nodes /\ row.tree \in Trees
      BY <2>1 DEF RefreshRows
    <2> HIDE DEF row, lost
    <2>4. [row EXCEPT !.gone = @ \cup lost] \in RefreshRows
      BY <2>1, <2>3 DEF RefreshRows
    <2> QED
      BY <2>1, <2>2, <2>4
  <1>3. DOMAIN refresh' = 1..Len(refresh)
    BY DEF DeleteChild
  <1>4. refresh' \in Seq(RefreshRows) /\ Len(refresh)' = Len(refresh)
    <2>1. refresh' = [n \in 1..Len(refresh) |-> refresh'[n]]
      BY DEF DeleteChild
    <2>2. refresh' \in [1..Len(refresh) -> RefreshRows]
      BY <1>2, <2>1
    <2> QED
      BY <1>1, <2>2
  <1>5. Switch /\ UNCHANGED <<clock, scan, source, active, evaluation, job, finding, retries>>
    BY DEF DeleteChild
  <1>6. EvidenceOK'
    BY <1>1, <1>4, <1>5, SwitchKeeps DEF EvidenceOK, IInv
  <1>7. WorkOK' /\ SameApplied
    <2>1. Retained' = Retained
      BY <1>5 DEF Retained
    <2> QED
      BY <1>1, <1>4, <1>5, <2>1, WorkSame
  <1>8. FindingsOK' /\ NewestApplied'
    BY <1>5, <1>7, FindingsSame
  <1> QED
    BY <1>6, <1>7, <1>8 DEF IInv

LEMMA SwitchesKeep ==
  ASSUME IInv,
         \/ \E r \in Roots, state \in {"active", "inactive", "deleted"} : SwitchSource(r, state)
         \/ \E p \in Pages : SwitchPage(p)
  PROVE  IInv'
  <1>1. Switch /\ UNCHANGED <<clock, scan, refresh, evaluation, job, finding, retries>>
    BY DEF SwitchSource, SwitchPage
  <1>2. source' \in [Roots -> {"active", "inactive", "deleted"}] /\ active' \in SUBSET Pages
    BY DEF SwitchSource, SwitchPage, IInv, EvidenceOK
  <1>3. EvidenceOK'
    BY <1>1, <1>2, SwitchKeeps DEF EvidenceOK, IInv
  <1>4. WorkOK' /\ SameApplied
    <2>1. Retained' = Retained /\ Len(refresh)' = Len(refresh) /\ Len(refresh) \in Nat
      BY <1>1 DEF Retained, IInv, EvidenceOK
    <2> QED
      BY <1>1, <2>1, WorkSame
  <1>5. FindingsOK' /\ NewestApplied'
    BY <1>1, <1>4, FindingsSame
  <1> QED
    BY <1>3, <1>4, <1>5 DEF IInv

-----------------------------------------------------------------------------
(***************************************************************************)
(* Evaluations are requested, run and end.                                 *)
(***************************************************************************)

LEMMA FrozenRow ==
  ASSUME IInv, Retained # {}
  PROVE  /\ Frozen \in EvaluationRows /\ Frozen.status = "queued"
         /\ Frozen.kept => Frozen.scan \in Retained
         /\ \A r \in DOMAIN Frozen.roots : Frozen.roots[r] <= Len(refresh)
  <1>1. Current \in Retained
    <2>1. Retained \subseteq 0..MaxScans /\ MaxScans \in Nat
      BY Bounds DEF Retained, ScanIds
    <2> QED
      BY <2>1, Greatest DEF Current
  <1>2. ASSUME NEW r \in Roots PROVE Selected(r) \in 0..Len(refresh)
    <2> DEFINE ns == {n \in 1..Len(refresh) : refresh[n].root = r} \cup {None}
    <2>1. ns \subseteq 0..Len(refresh) /\ ns # {} /\ Len(refresh) \in Nat
      BY DEF None, IInv, EvidenceOK
    <2>2. Latest(r) = Max(ns)
      BY DEF Latest
    <2> HIDE DEF ns
    <2>3. Latest(r) \in ns
      BY <2>1, <2>2, Greatest
    <2>4. Latest(r) \in 0..Len(refresh)
      BY <2>1, <2>3, Zenon
    <2>5. None \in 0..Len(refresh)
      BY <2>1 DEF None
    <2> QED
      BY <2>4, <2>5, Zenon DEF Selected
  <1>3. DOMAIN Manifest \subseteq Roots /\ \A r \in DOMAIN Manifest : Manifest[r] = Selected(r)
    BY DEF Manifest
  <1>4. Len(refresh) \in Nat /\ Len(refresh) <= MaxRefreshes
    BY DEF IInv, EvidenceOK
  <1>5. \A r \in DOMAIN Manifest : Manifest[r] \in 0..MaxRefreshes /\ Manifest[r] <= Len(refresh)
    BY <1>2, <1>3, <1>4, Bounds
  <1>6. Manifest \in Manifests
    <2>1. Manifest \in [DOMAIN Manifest -> 0..MaxRefreshes]
      BY <1>5 DEF Manifest
    <2> QED
      BY <1>3, <2>1 DEF Manifests
  <1>7. Horizon \in Times
    <2> DEFINE ts == {scan[Current].at} \cup {refresh[Manifest[r]].at : r \in {r \in DOMAIN Manifest : Manifest[r] # None}}
    <2>1. ts \subseteq Times
      <3>1. scan[Current].at \in Times
        BY <1>1, RetainedRow DEF IInv
      <3>2. ASSUME NEW r \in DOMAIN Manifest, Manifest[r] # None PROVE refresh[Manifest[r]].at \in Times
        BY <1>5, <3>2, RefreshTime DEF IInv
      <3> QED
        BY <3>1, <3>2
    <2>2. ts # {}
      OBVIOUS
    <2>3. Horizon = Max(ts)
      BY DEF Horizon
    <2> HIDE DEF ts
    <2> QED
      BY <2>1, <2>2, <2>3, LatestTime
  <1>8. Current \in ScanIds /\ active \in SUBSET Pages
    BY <1>1 DEF Retained, IInv, EvidenceOK
  <1>9. Frozen \in EvaluationRows
    BY <1>6, <1>7, <1>8 DEF Frozen, EvaluationRows
  <1> QED
    BY <1>1, <1>5, <1>9 DEF Frozen

\* One evaluation becomes queued, failed or cancelled; it had not completed.
LEMMA OneEvaluation ==
  ASSUME IInv, NEW e \in EvaluationIds, NEW x, NEW j \in [EvaluationIds -> JobStatuses],
         evaluation[e].status # "completed",
         x \in EvaluationRows, x.status # "completed",
         x.kept => x.scan \in Retained,
         \A r \in DOMAIN x.roots : x.roots[r] <= Len(refresh),
         evaluation' = [evaluation EXCEPT ![e] = x], job' = j,
         UNCHANGED <<clock, scan, refresh, source, active, finding, switches>>,
         retries' \in 0..MaxRetries
  PROVE  IInv'
  <1>1. EvidenceOK'
    BY DEF IInv, EvidenceOK
  <1>2. evaluation' \in [EvaluationIds -> {NoEvaluation} \cup EvaluationRows]
    BY DEF IInv, WorkOK
  <1>3. evaluation'[e] = x /\ \A y \in EvaluationIds \ {e} : evaluation'[y] = evaluation[y]
    BY DEF IInv, WorkOK
  <1>4. NoEvaluation \notin EvaluationRows
    BY DEF NoEvaluation, EvaluationRows
  <1>5. Evaluated' = Evaluated \cup {e}
    BY <1>3, <1>4 DEF Evaluated
  <1>6. Retained' = Retained
    BY DEF Retained
  <1>7. ASSUME NEW y \in Evaluated' PROVE HasEvidence(y)'
    <2>1. CASE y = e
      BY <1>3, <1>6, <2>1 DEF HasEvidence
    <2>2. CASE y # e
      <3>1. y \in Evaluated /\ HasEvidence(y) /\ y \in EvaluationIds
        BY <1>5, <2>2 DEF IInv, WorkOK, Evaluated
      <3> QED
        BY <1>3, <1>6, <2>2, <3>1 DEF HasEvidence
    <2> QED
      BY <2>1, <2>2
  <1>8. WorkOK'
    BY <1>2, <1>7 DEF WorkOK
  <1>9. SameApplied
    BY <1>3 DEF SameApplied
  <1>10. FindingsOK' /\ NewestApplied'
    BY <1>9, FindingsSame
  <1> QED
    BY <1>1, <1>8, <1>10 DEF IInv

LEMMA RequestKeeps ==
  ASSUME IInv, RequestEvaluation
  PROVE  IInv'
  <1>1. Retained # {} /\ UNCHANGED <<clock, scan, refresh, source, active, finding, switches>>
    BY DEF RequestEvaluation
  <1>2. CASE CreateEvaluation
    <2> DEFINE n == NextId(Evaluated)
    <2>1. n \notin Evaluated
      <3>1. Evaluated \subseteq 1..MaxEvaluations /\ MaxEvaluations \in Nat
        BY Bounds DEF Evaluated, EvaluationIds
      <3> QED
        BY <3>1, NewId
    <2>2. n \in EvaluationIds /\ evaluation' = [evaluation EXCEPT ![n] = Frozen]
          /\ job' = [job EXCEPT ![n] = "queued"] /\ retries' = retries
      BY <1>2 DEF CreateEvaluation
    <2> HIDE DEF n
    <2>3. job' \in [EvaluationIds -> JobStatuses]
      BY <2>2 DEF IInv, WorkOK, JobStatuses, ActiveStatuses
    <2>4. evaluation[n].status # "completed"
      BY <2>1, <2>2 DEF Evaluated, NoEvaluation
    <2>5. Frozen.status # "completed"
      BY <1>1, FrozenRow
    <2>6. retries' \in 0..MaxRetries
      BY <2>2 DEF IInv, EvidenceOK
    <2> QED
      BY <1>1, <2>2, <2>3, <2>4, <2>5, <2>6, FrozenRow, OneEvaluation
  <1>3. CASE \E e \in Same : Requeue(e)
    <2>1. PICK e \in Same : Requeue(e)
      BY <1>3
    <2> DEFINE x == [evaluation[e] EXCEPT !.status = "queued"]
    <2>2. e \in Evaluated /\ e \in EvaluationIds /\ evaluation[e] \in EvaluationRows /\ HasEvidence(e)
      BY <2>1, EvaluatedRow DEF Same, SameInput, IInv, WorkOK
    <2>3. x \in EvaluationRows /\ x.status = "queued" /\ x.kept = evaluation[e].kept
          /\ x.scan = evaluation[e].scan /\ x.roots = evaluation[e].roots
      BY <2>2 DEF EvaluationRows
    <2>4. evaluation' = [evaluation EXCEPT ![e] = x]
      BY <2>1 DEF Requeue
    <2>5. job' \in [EvaluationIds -> JobStatuses]
      BY <2>1 DEF Requeue, IInv, WorkOK, JobStatuses, ActiveStatuses
    <2>6. retries' \in 0..MaxRetries
      BY <2>1, Bounds DEF Requeue, IInv, EvidenceOK
    <2>7. evaluation[e].status # "completed"
      BY <2>1 DEF Requeue
    <2>8. x.kept => x.scan \in Retained
      BY <2>2, <2>3 DEF HasEvidence
    <2>9. \A r \in DOMAIN x.roots : x.roots[r] <= Len(refresh)
      BY <2>2, <2>3 DEF HasEvidence
    <2> HIDE DEF x
    <2>10. x.status # "completed" /\ x \in EvaluationRows
      BY <2>3
    <2> QED
      BY <1>1, <2>2, <2>4, <2>5, <2>6, <2>7, <2>8, <2>9, <2>10, OneEvaluation
  <1> QED
    BY <1>2, <1>3 DEF RequestEvaluation

LEMMA SameEvidence ==
  ASSUME IInv, UNCHANGED <<clock, scan, refresh, source, active, switches, retries>>
  PROVE  EvidenceOK' /\ Retained' = Retained
  BY DEF IInv, EvidenceOK, Retained

LEMMA ClaimKeeps ==
  ASSUME IInv, NEW e \in EvaluationIds, Claim(e)
  PROVE  IInv'
  <1>1. EvidenceOK' /\ Retained' = Retained
    BY SameEvidence DEF Claim
  <1>2. WorkOK'
    <2>1. job' \in [EvaluationIds -> JobStatuses]
      BY DEF Claim, IInv, WorkOK, JobStatuses, ActiveStatuses
    <2>2. Evaluated' = Evaluated /\ \A x \in EvaluationIds : HasEvidence(x)' <=> HasEvidence(x)
      BY <1>1 DEF Claim, Evaluated, HasEvidence
    <2> QED
      BY <2>1, <2>2 DEF Claim, IInv, WorkOK, Evaluated
  <1>3. FindingsOK' /\ NewestApplied'
    BY FindingsSame DEF Claim, SameApplied
  <1> QED
    BY <1>1, <1>2, <1>3 DEF IInv

LEMMA EndKeeps ==
  ASSUME IInv, NEW e \in EvaluationIds, NEW jobStatus \in JobStatuses, NEW status \in {"failed", "cancelled"},
         EndJob(e, jobStatus, status)
  PROVE  IInv'
  <1>1. EvidenceOK' /\ Retained' = Retained
    BY SameEvidence DEF EndJob
  <1>2. job' = [job EXCEPT ![e] = jobStatus] /\ job' \in [EvaluationIds -> JobStatuses]
    BY DEF EndJob, IInv, WorkOK
  <1>3. CASE e \in Evaluated /\ evaluation[e].status # "completed"
    <2> DEFINE x == [evaluation[e] EXCEPT !.status = status]
    <2>1. evaluation[e] \in EvaluationRows /\ HasEvidence(e)
      BY <1>3, EvaluatedRow DEF IInv, WorkOK
    <2>2. x \in EvaluationRows /\ x.status = status /\ x.kept = evaluation[e].kept
          /\ x.scan = evaluation[e].scan /\ x.roots = evaluation[e].roots
      BY <2>1 DEF EvaluationRows
    <2>3. evaluation' = [evaluation EXCEPT ![e] = x]
      BY <1>3 DEF EndJob, MarkedTerminal
    <2>4. x.kept => x.scan \in Retained
      BY <2>1, <2>2 DEF HasEvidence
    <2>5. \A r \in DOMAIN x.roots : x.roots[r] <= Len(refresh)
      BY <2>1, <2>2 DEF HasEvidence
    <2>6. x.status # "completed" /\ x \in EvaluationRows
      BY <2>2
    <2>7. UNCHANGED <<clock, scan, refresh, source, active, finding, switches>> /\ retries' \in 0..MaxRetries
      BY DEF EndJob, IInv, EvidenceOK
    <2> HIDE DEF x
    <2> QED
      BY <1>2, <1>3, <2>3, <2>4, <2>5, <2>6, <2>7, OneEvaluation
  <1>4. CASE ~(e \in Evaluated /\ evaluation[e].status # "completed")
    <2>1. evaluation' = evaluation
      BY <1>4 DEF EndJob, MarkedTerminal
    <2>2. Evaluated' = Evaluated /\ \A x \in EvaluationIds : HasEvidence(x)' <=> HasEvidence(x)
      BY <1>1, <2>1 DEF EndJob, Evaluated, HasEvidence
    <2>3. WorkOK'
      BY <1>2, <2>1, <2>2 DEF IInv, WorkOK, Evaluated
    <2>4. FindingsOK' /\ NewestApplied'
      BY <2>1, FindingsSame DEF EndJob, SameApplied
    <2> QED
      BY <1>1, <2>3, <2>4 DEF IInv
  <1> QED
    BY <1>3, <1>4

-----------------------------------------------------------------------------
(***************************************************************************)
(* An evaluation is applied.                                               *)
(***************************************************************************)

\* A finding that did not exist has not been assessed before.
LEMMA NewRow ==
  ASSUME IInv, NEW result \in Severities, NEW at \in Times, EvaluationIds # {}
  PROVE  NewFinding(result, at) \in FindingRows /\ AssessedIn(NewFinding(result, at)) = {}
  <1> DEFINE g == NewFinding(result, at)
  <1>1. 1 \in EvaluationIds
    BY Bounds DEF EvaluationIds
  <1>2. None \in Times
    BY Bounds DEF None, Times
  <1>3. g.assessed = [e \in EvaluationIds |-> "none"] /\ g.assessed \in [EvaluationIds -> Outcomes]
    BY DEF NewFinding, Outcomes
  <1>4. g \in FindingRows
    BY <1>1, <1>2, <1>3 DEF NewFinding, FindingRows
  <1> QED
    BY <1>3, <1>4 DEF AssessedIn

LEMMA ReconciledRow ==
  ASSUME IInv, NEW e \in Evaluated, evaluation[e].kept, ~Superseded(e), NEW k \in Keys
  PROVE  LET g == Reconciled(e, k)
             E == IF k[2] \in evaluation[e].universe THEN AppliedTo(k) \cup {e} ELSE AppliedTo(k)
         IN /\ g \in {NoFinding} \cup FindingRows
            /\ g # NoFinding => Severe(g) /\ Newest(g, E)
  <1> DEFINE x == evaluation[e]
             f == finding[k]
             result == Evaluate(k[1], Context(x), k[2])
             at == ObservedAt(x, k)
             f0 == IF f = NoFinding THEN NewFinding(result, at) ELSE f
             g == Reconciled(e, k)
             E == IF k[2] \in x.universe THEN AppliedTo(k) \cup {e} ELSE AppliedTo(k)
  <1>1. e \in EvaluationIds /\ x \in EvaluationRows
    BY EvaluatedRow DEF IInv
  <1>2. result \in Results
    <2>1. k[1] \in CurrentFindingDetectors
      BY Bounds DEF Keys
    <2> QED
      BY <2>1, DetectorAnswers
  <1>3. at \in Times
    BY ObservedTime DEF IInv
  <1>4. f \in {NoFinding} \cup FindingRows /\ (f # NoFinding => Severe(f) /\ Newest(f, AppliedTo(k)))
    BY NewestOf DEF IInv, FindingsOK
  <1> HIDE DEF result, at, x
  <1>5. g = IF k[2] \notin x.universe \/ (f = NoFinding /\ Outcome(result) # "detected") THEN f
            ELSE Assessed(f0, e, result, at)
    BY DEF Reconciled, result, at, x
  <1>6. CASE k[2] \notin x.universe \/ (f = NoFinding /\ Outcome(result) # "detected")
    <2>1. g = f /\ (g = NoFinding \/ k[2] \notin x.universe)
      BY <1>5, <1>6
    <2> HIDE DEF g, f
    <2> QED
      BY <1>4, <2>1 DEF g, x
  <1>7. CASE k[2] \in x.universe /\ (f = NoFinding => Outcome(result) = "detected")
    <2>1. g = Assessed(f0, e, result, at)
      BY <1>5, <1>7
    <2>2. f0 \in FindingRows /\ AssessedIn(f0) = From(AppliedTo(k), AssessedIn(f0))
      <3>1. CASE f = NoFinding
        <4>1. result \in Severities
          BY <1>2, <1>7, <3>1, OutcomeKnown
        <4>2. f0 \in FindingRows /\ AssessedIn(f0) = {}
          BY <1>1, <1>3, <3>1, <4>1, NewRow
        <4> QED
          BY <4>2 DEF From
      <3>2. CASE f # NoFinding
        BY <1>4, <3>2 DEF Newest
      <3> QED
        BY <3>1, <3>2
    <2> HIDE DEF f0, g
    <2>3. /\ g \in FindingRows /\ g.current = e /\ g.state = StateForOutcome(Outcome(result))
          /\ g.assessed = [f0.assessed EXCEPT ![e] = Outcome(result)] /\ Severe(g)
      BY <1>1, <1>2, <1>3, <2>1, <2>2, AssessedFinding
    <2>4. Outcome(result) \in Outcomes \ {"none"}
      BY <1>2, OutcomeKnown DEF Outcomes
    <2>5. AppliedTo(k) \subseteq EvaluationIds /\ \A y \in AppliedTo(k) : y <= e
      <3> SUFFICES ASSUME NEW y \in AppliedTo(k) PROVE y \in EvaluationIds /\ y <= e
        OBVIOUS
      <3>1. y \in Evaluated /\ evaluation[y].status = "completed"
        BY DEF AppliedTo
      <3>2. ~(y > e)
        BY <3>1 DEF Superseded
      <3>3. y \in EvaluationIds /\ y \in Nat /\ e \in Nat
        BY <1>1, <3>1 DEF Evaluated, EvaluationIds
      <3> QED
        BY <3>2, <3>3
    <2> DEFINE o == Outcome(result)
    <2> HIDE DEF o
    <2>6. o \in Outcomes \ {"none"} /\ g.assessed = [f0.assessed EXCEPT ![e] = o] /\ g.state = StateForOutcome(o)
      BY <2>3, <2>4 DEF o
    <2>7. Newest(g, AppliedTo(k) \cup {e})
      BY <1>1, <2>2, <2>3, <2>5, <2>6, NewestGrows
    <2> QED
      BY <1>7, <2>3, <2>7 DEF x, g
  <1> QED
    BY <1>6, <1>7 DEF x, g

LEMMA ExecuteKeeps ==
  ASSUME IInv, NEW e \in EvaluationIds, Execute(e)
  PROVE  IInv'
  <1> DEFINE x == [evaluation[e] EXCEPT !.status = "completed"]
  <1>1. e \in Evaluated /\ evaluation[e].kept /\ ~Superseded(e)
    BY DEF Execute, Runnable
  <1>2. EvidenceOK' /\ Retained' = Retained
    BY SameEvidence DEF Execute
  <1>3. evaluation[e] \in EvaluationRows /\ HasEvidence(e)
    BY <1>1, EvaluatedRow DEF IInv, WorkOK
  <1>4. x \in EvaluationRows /\ x.status = "completed" /\ x.kept = evaluation[e].kept
        /\ x.scan = evaluation[e].scan /\ x.roots = evaluation[e].roots /\ x.universe = evaluation[e].universe
    BY <1>3 DEF EvaluationRows
  <1>5. evaluation' = [evaluation EXCEPT ![e] = x] /\ refresh' = refresh
    BY DEF Execute
  <1> HIDE DEF x
  <1>6. evaluation'[e] = x /\ \A y \in EvaluationIds \ {e} : evaluation'[y] = evaluation[y]
    BY <1>5 DEF IInv, WorkOK
  <1>7. NoEvaluation \notin EvaluationRows
    BY DEF NoEvaluation, EvaluationRows
  <1>8. Evaluated' = Evaluated
    BY <1>1, <1>4, <1>6, <1>7 DEF Evaluated
  <1>9. ASSUME NEW y \in Evaluated' PROVE HasEvidence(y)'
    <2>1. CASE y = e
      BY <1>2, <1>3, <1>4, <1>5, <1>6, <2>1 DEF HasEvidence
    <2>2. CASE y # e
      <3>1. y \in Evaluated /\ HasEvidence(y) /\ y \in EvaluationIds
        BY <1>8 DEF IInv, WorkOK, Evaluated
      <3> QED
        BY <1>2, <1>5, <1>6, <2>2, <3>1 DEF HasEvidence
    <2> QED
      BY <2>1, <2>2
  <1>10. WorkOK'
    <2>1. evaluation' \in [EvaluationIds -> {NoEvaluation} \cup EvaluationRows]
      BY <1>4, <1>5 DEF IInv, WorkOK
    <2>2. job' \in [EvaluationIds -> JobStatuses]
      BY DEF Execute, IInv, WorkOK, JobStatuses
    <2> QED
      BY <1>9, <2>1, <2>2 DEF WorkOK
  <1>11. ASSUME NEW k \in Keys
         PROVE  /\ finding'[k] \in {NoFinding} \cup FindingRows
                /\ finding'[k] # NoFinding => Severe(finding'[k]) /\ Newest(finding'[k], AppliedTo(k)')
    <2>1. finding'[k] = Reconciled(e, k)
      BY DEF Execute
    <2>2. AppliedTo(k)' = IF k[2] \in evaluation[e].universe THEN AppliedTo(k) \cup {e} ELSE AppliedTo(k)
      <3>1. AppliedTo(k)' = {y \in Evaluated : evaluation'[y].status = "completed" /\ k[2] \in evaluation'[y].universe}
        BY <1>8 DEF AppliedTo
      <3>2. Evaluated \subseteq EvaluationIds
        BY DEF Evaluated
      <3>3. evaluation'[e].status = "completed" /\ evaluation'[e].universe = evaluation[e].universe
        BY <1>4, <1>6
      <3>4. \A y \in Evaluated : y \in AppliedTo(k) <=> evaluation[y].status = "completed" /\ k[2] \in evaluation[y].universe
        BY DEF AppliedTo
      <3>5. AppliedTo(k) \subseteq Evaluated
        BY DEF AppliedTo
      <3>6. \A y \in Evaluated \ {e} : y \in AppliedTo(k)' <=> y \in AppliedTo(k)
        BY <1>6, <3>1, <3>2, <3>4
      <3>7. e \in AppliedTo(k)' <=> k[2] \in evaluation[e].universe
        BY <1>1, <3>1, <3>3
      <3>8. k[2] \notin evaluation[e].universe => e \notin AppliedTo(k)
        BY <1>1, <3>4
      <3>9. AppliedTo(k)' \subseteq Evaluated
        BY <3>1
      <3> QED
        BY <1>1, <3>5, <3>6, <3>7, <3>8, <3>9
    <2> QED
      BY <1>1, <2>1, <2>2, ReconciledRow
  <1>12. FindingsOK'
    <2>1. finding' = [k \in Keys |-> Reconciled(e, k)]
      BY DEF Execute
    <2> QED
      BY <1>11, <2>1 DEF FindingsOK
  <1>13. NewestApplied'
    BY <1>11, NewestOfNext
  <1> QED
    BY <1>2, <1>10, <1>12, <1>13 DEF IInv

-----------------------------------------------------------------------------
(***************************************************************************)
(* Users.                                                                  *)
(***************************************************************************)

LEMMA UsersKeep ==
  ASSUME IInv, Switch, UNCHANGED <<clock, scan, refresh, source, active, retries>>
  PROVE  EvidenceOK' /\ Retained' = Retained
  BY SwitchKeeps DEF IInv, EvidenceOK, Retained

LEMMA WorkUnchanged ==
  ASSUME IInv, UNCHANGED <<scan, refresh, evaluation, job>>
  PROVE  WorkOK' /\ SameApplied
  <1>1. Evaluated' = Evaluated /\ \A x \in EvaluationIds : HasEvidence(x)' <=> HasEvidence(x)
    BY DEF Evaluated, HasEvidence, Retained
  <1>2. WorkOK'
    BY <1>1 DEF IInv, WorkOK, Evaluated
  <1> QED
    BY <1>2 DEF SameApplied

LEMMA AcknowledgeKeeps ==
  ASSUME IInv, NEW k \in Keys, NEW value \in BOOLEAN, Acknowledge(k, value)
  PROVE  IInv'
  <1> DEFINE g == [finding[k] EXCEPT !.acknowledged = value]
  <1>1. EvidenceOK' /\ WorkOK' /\ SameApplied
    BY UsersKeep, WorkUnchanged DEF Acknowledge
  <1>2. finding[k] # NoFinding /\ finding[k] \in FindingRows /\ Severe(finding[k])
    BY DEF Acknowledge, IInv, FindingsOK
  <1>3. /\ g \in FindingRows /\ g.state = finding[k].state /\ g.severity = finding[k].severity
        /\ g.current = finding[k].current /\ g.assessed = finding[k].assessed
    BY <1>2 DEF FindingRows
  <1>4. finding' = [finding EXCEPT ![k] = g]
    BY DEF Acknowledge
  <1> HIDE DEF g
  <1>5. finding'[k] = g /\ \A l \in Keys \ {k} : finding'[l] = finding[l]
    BY <1>4 DEF IInv, FindingsOK
  <1>6. FindingsOK'
    <2>1. finding' \in [Keys -> {NoFinding} \cup FindingRows]
      BY <1>3, <1>4 DEF IInv, FindingsOK
    <2>2. \A l \in Keys : finding'[l] # NoFinding => Severe(finding'[l])
      BY <1>2, <1>3, <1>5 DEF IInv, FindingsOK, Severe
    <2> QED
      BY <2>1, <2>2 DEF FindingsOK
  <1>7. SameNewest
    BY <1>1, <1>2, <1>3, <1>5, AppliedStays DEF SameNewest
  <1>8. NewestApplied'
    BY <1>7, NewestStays DEF IInv
  <1> QED
    BY <1>1, <1>6, <1>8 DEF IInv

LEMMA DeleteFindingKeeps ==
  ASSUME IInv, NEW k \in Keys, DeleteFinding(k)
  PROVE  IInv'
  <1>1. EvidenceOK' /\ WorkOK' /\ SameApplied
    BY UsersKeep, WorkUnchanged DEF DeleteFinding
  <1>2. finding'[k] = NoFinding /\ \A l \in Keys \ {k} : finding'[l] = finding[l]
    BY DEF DeleteFinding, IInv, FindingsOK
  <1>3. FindingsOK'
    <2>1. finding' \in [Keys -> {NoFinding} \cup FindingRows]
      BY DEF DeleteFinding, IInv, FindingsOK
    <2>2. \A l \in Keys : finding'[l] # NoFinding => Severe(finding'[l])
      BY <1>2 DEF IInv, FindingsOK
    <2> QED
      BY <2>1, <2>2 DEF FindingsOK
  <1>4. SameNewest
    BY <1>1, <1>2, AppliedStays DEF SameNewest
  <1>5. NewestApplied'
    BY <1>4, NewestStays DEF IInv
  <1> QED
    BY <1>1, <1>3, <1>5 DEF IInv

LEMMA ResetKeeps ==
  ASSUME IInv, Reset
  PROVE  IInv'
  <1>1. EvidenceOK' /\ Retained' = Retained
    BY UsersKeep DEF Reset
  <1>2. WorkOK'
    <2>1. evaluation' \in [EvaluationIds -> {NoEvaluation} \cup EvaluationRows] /\ job' \in [EvaluationIds -> JobStatuses]
      BY DEF Reset, JobStatuses
    <2>2. Evaluated' = {}
      BY DEF Reset, Evaluated
    <2> QED
      BY <2>1, <2>2 DEF WorkOK
  <1>3. \A k \in Keys : finding'[k] = NoFinding
    BY DEF Reset
  <1>4. FindingsOK'
    BY <1>3 DEF Reset, FindingsOK
  <1>5. NewestApplied'
    BY <1>3, NewestOfNext
  <1> QED
    BY <1>1, <1>2, <1>4, <1>5 DEF IInv

-----------------------------------------------------------------------------

LEMMA InitiallySo == Init => IInv
  <1> SUFFICES ASSUME Init PROVE IInv
    OBVIOUS
  <1>1. EvidenceOK
    BY Bounds DEF Init, EvidenceOK, Times, None, ScanRows
  <1>2. WorkOK
    BY DEF Init, WorkOK, Evaluated, JobStatuses
  <1>3. \A k \in Keys : finding[k] = NoFinding
    BY DEF Init
  <1>4. FindingsOK
    BY <1>3 DEF Init, FindingsOK
  <1>5. NewestApplied
    BY <1>3, NewestOf
  <1> QED
    BY <1>1, <1>2, <1>4, <1>5 DEF IInv

LEMMA StepKeeps == IInv /\ [Next]_vars => IInv'
  <1> SUFFICES ASSUME IInv, [Next]_vars PROVE IInv'
    OBVIOUS
  <1>1. CASE UNCHANGED vars
    <2>1. EvidenceOK' /\ WorkOK' /\ SameApplied
      BY <1>1, SameEvidence, WorkUnchanged DEF vars
    <2>2. FindingsOK' /\ NewestApplied'
      BY <1>1, <2>1, FindingsSame DEF vars
    <2> QED
      BY <2>1, <2>2 DEF IInv
  <1>2. CASE \E crawl \in Crawls : ScanEnds(crawl)
    BY <1>2, ScanEndsKeeps
  <1>3. CASE \E i \in ScanIds : DeleteScan(i)
    BY <1>3, DeleteScanKeeps
  <1>4. CASE \E r \in Roots, tree \in Trees : Refresh(r, tree)
    BY <1>4, RefreshKeeps
  <1>5. CASE \/ \E r \in Roots, state \in {"active", "inactive", "deleted"} : SwitchSource(r, state)
             \/ \E p \in Pages : SwitchPage(p)
    BY <1>5, SwitchesKeep
  <1>6. CASE RequestEvaluation
    BY <1>6, RequestKeeps
  <1>7. CASE \E e \in EvaluationIds : Claim(e) \/ Execute(e)
    BY <1>7, ClaimKeeps, ExecuteKeeps
  <1>8. CASE \E e \in EvaluationIds : Fail(e) \/ Interrupt(e) \/ Cancel(e)
    <2>1. PICK e \in EvaluationIds : \/ EndJob(e, "failed", "failed") \/ EndJob(e, "interrupted", "failed")
                                     \/ EndJob(e, "cancelled", "cancelled")
      BY <1>8 DEF Fail, Interrupt, Cancel
    <2>2. {"failed", "interrupted", "cancelled"} \subseteq JobStatuses
      BY DEF JobStatuses
    <2> QED
      BY <2>1, <2>2, EndKeeps
  <1>9. CASE \E k \in Keys, value \in BOOLEAN : Acknowledge(k, value)
    BY <1>9, AcknowledgeKeeps
  <1>10. CASE \E k \in Keys : DeleteFinding(k)
    BY <1>10, DeleteFindingKeeps
  <1>11. CASE Reset
    BY <1>11, ResetKeeps
  <1>12. CASE \E r \in Roots, path \in Paths : DeleteChild(r, path)
    BY <1>12, DeleteChildKeeps
  <1> QED
    BY <1>1, <1>2, <1>3, <1>4, <1>5, <1>6, <1>7, <1>8, <1>9, <1>10, <1>11, <1>12, Zenon DEF Next

LEMMA Always == Spec => []IInv
  BY InitiallySo, StepKeeps, PTL DEF Spec

\* What a finding says is what the newest evaluation that was applied to its page made of it, and
\* none in between is missing from its history.
THEOREM NewestIsApplied == Spec => []NewestApplied
  <1>1. IInv => NewestApplied
    BY DEF IInv
  <1> QED
    BY <1>1, Always, PTL

\* The tables of the Site stay typed: what an evaluation refers to is there, and a finding has a
\* severity just as long as it is detected.
THEOREM FindingsTypeCorrect == Spec => []TypeOK
  <1>1. IInv => TypeOK
    <2> SUFFICES ASSUME IInv PROVE TypeOK
      OBVIOUS
    <2>1. clock \in Times /\ active \subseteq Pages /\ switches \in 0..MaxSwitches /\ retries \in 0..MaxRetries
          /\ source \in [Roots -> {"active", "inactive", "deleted"}]
      BY DEF IInv, EvidenceOK
    <2>2. \A i \in Retained : scan[i].at \in Times /\ scan[i].crawl \in Crawls
      BY DEF IInv, EvidenceOK, Retained, ScanRows
    <2>3. ASSUME NEW n \in 1..Len(refresh)
          PROVE  /\ refresh[n].root \in Roots /\ refresh[n].at \in Times /\ refresh[n].tree \in Trees
                 /\ refresh[n].gone \subseteq refresh[n].tree.nodes
      <3>1. refresh[n] \in RefreshRows
        BY DEF IInv, EvidenceOK
      <3> QED
        BY <3>1 DEF RefreshRows
    <2>4. ASSUME NEW e \in Evaluated PROVE IsEvaluation(evaluation[e])
      <3>1. evaluation[e] \in EvaluationRows
        BY EvaluatedRow DEF IInv
      <3>2. evaluation[e].roots \in Manifests
        BY <3>1 DEF EvaluationRows
      <3>3. DOMAIN evaluation[e].roots \subseteq Roots
            /\ \A r \in DOMAIN evaluation[e].roots : evaluation[e].roots[r] \in 0..MaxRefreshes
        BY <3>2, ManifestRow
      <3> QED
        BY <3>1, <3>3 DEF EvaluationRows, IsEvaluation
    <2>5. job \in [EvaluationIds -> ActiveStatuses \cup {"none", "completed", "failed", "cancelled", "interrupted"}]
      BY DEF IInv, WorkOK, JobStatuses
    <2>6. \A k \in Keys : finding[k] = NoFinding \/ IsFinding(finding[k])
      BY DEF IInv, FindingsOK, FindingRows, IsFinding
    <2>7. \A k \in Keys : finding[k] # NoFinding => (finding[k].severity # "none" <=> finding[k].state = "detected")
      BY DEF IInv, FindingsOK, Severe
    <2> QED
      BY <2>1, <2>2, <2>3, <2>4, <2>5, <2>6, <2>7 DEF TypeOK
  <1> QED
    BY <1>1, Always, PTL

===============================================================================
