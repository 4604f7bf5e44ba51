---------------------------- MODULE MCScanPipeline ----------------------------
(* Two scans of a Site and the comparison between them. *)
EXTENDS ScanPipeline, MCReads, TLC

CONSTANTS s1, s2, p1, p2, p3, p4

MCPrevious == s2 :> s1
MCComparisons == {<<s1, s2>>}

Seen == [text |-> "a", volatile |-> "a", version |-> "a", rest |-> "a", meta |-> "a", wire |-> "a",
         kept |-> "blob"]

\* One page that only its volatile value tells apart, one whose source is not stored, one that
\* is new and one that is gone.
MCEvidence ==
  s1 :> (p1 :> Seen @@ p2 :> [Seen EXCEPT !.kept = "hash"] @@ p3 :> Unseen @@ p4 :> Seen) @@
  s2 :> (p1 :> [Seen EXCEPT !.volatile = "b"] @@ p2 :> [Seen EXCEPT !.rest = "b"] @@ p3 :> Seen @@ p4 :> Unseen)

\* Links: one changed, one gone, one new, one kept; the page that is gone had one.
MCLinks ==
  LET With(f) == [e \in {p1, p2, p3, p4} \X {p1, p2, p3, p4} |-> IF e \in DOMAIN f THEN f[e] ELSE Unseen]
  IN s1 :> With(<<p1, p2>> :> "a" @@ <<p2, p1>> :> "a" @@ <<p1, p4>> :> "a" @@ <<p4, p1>> :> "a" @@ <<p2, p2>> :> "a") @@
     s2 :> With(<<p1, p2>> :> "b" @@ <<p1, p3>> :> "a" @@ <<p3, p1>> :> "a" @@ <<p2, p1>> :> "a")

\* The classes are right for every pair of observations, not only for these pages.
ASSUME ClassesMean ==
  \A before, after \in [text: Values, volatile: Values, version: Values, rest: Values, meta: Values,
                        wire: {"a"}, kept: {"blob", "hash", "nothing"}] :
    \A wire \in Values :
      LET changed == [after EXCEPT !.wire = wire]
      IN PrimaryChangeClass(before, changed) = Meaning(before, changed)
==============================================================================
