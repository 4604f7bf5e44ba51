----------------------------- MODULE PageChanges -----------------------------
(***************************************************************************)
(* How a comparison classifies one page: what scan_comparisons.py and      *)
(* source_comparison.py make of the page's observations in the two scans.  *)
(*                                                                         *)
(* An observation is the parts of a page that are told apart: its visible  *)
(* text, the volatile value a delivery network puts into it, the versions  *)
(* of its dependencies, the rest of the source, its metadata, and the wire *)
(* (status, redirects, type, depth, counts of links).  kept says whether   *)
(* the source's bytes are stored, only their hash, or neither.             *)
(***************************************************************************)
EXTENDS Naturals, FiniteSets

CONSTANT Unseen  \* the scan has no page projection for the resource

Values == {"a", "b"}

Observations == [text: Values, volatile: Values, version: Values, rest: Values,
                 meta: Values, wire: Values, kept: {"blob", "hash", "nothing"}]

Source(o) == <<o.text, o.volatile, o.version, o.rest, o.meta>>
NormalizedSource(o) == <<o.text, o.version, o.rest, o.meta>>

\* _normalize_wordpress_dependencies takes the versions out as well.
WithoutVersions(o) == <<o.text, o.rest, o.meta>>

Presence(before, after) ==
  IF before # Unseen /\ after # Unseen THEN "observed_in_both"
  ELSE IF after # Unseen THEN "newly_observed" ELSE "not_observed_in_target"

EqualityState(before, after) ==
  IF "nothing" \in {before.kept, after.kept} THEN "unavailable"
  ELSE IF Source(before) = Source(after) THEN "same" ELSE "changed"

Analysed(before, after) == before.kept = "blob" /\ after.kept = "blob"

SourceState(before, after, equal) ==
  IF Analysed(before, after) THEN IF equal THEN "same" ELSE "changed"
  ELSE IF EqualityState(before, after) = "same" THEN "same" ELSE "unavailable"

DocumentState(before, after) == SourceState(before, after, before.text = after.text)

NormalizedState(before, after) ==
  SourceState(before, after, NormalizedSource(before) = NormalizedSource(after))

MetadataChanged(before, after) == before.meta # after.meta

\* The categories that count as technical.
SourceDifferences(before, after) ==
  IF ~Analysed(before, after) THEN {}
  ELSE {d \in {"dependency", "unclassified"} :
          \/ d = "dependency" /\ before.version # after.version
          \/ /\ d = "unclassified"
             /\ NormalizedSource(before) # NormalizedSource(after)
             /\ WithoutVersions(before) # WithoutVersions(after)
             /\ DocumentState(before, after) # "changed"
             /\ ~MetadataChanged(before, after)}

TechnicalChanged(before, after) ==
  before.wire # after.wire \/ SourceDifferences(before, after) # {}

PrimaryChangeClass(before, after) ==
  IF Presence(before, after) # "observed_in_both" THEN "not_applicable"
  ELSE IF DocumentState(before, after) = "changed" THEN "substantive_change"
  ELSE IF MetadataChanged(before, after) THEN "metadata_change"
  ELSE IF TechnicalChanged(before, after) THEN "technical_change"
  ELSE IF EqualityState(before, after) = "changed" /\ NormalizedState(before, after) = "same"
       THEN "normalization_only"
  ELSE IF EqualityState(before, after) = "same" THEN "no_tracked_change"
  ELSE "indeterminate"

------------------------------------------------------------------------------
(* Resources and link edges are compared field by field; what a page's     *)
(* edges did is counted on the page.                                       *)

Presences == {"observed_in_both", "newly_observed", "not_observed_in_target"}
NoRow == <<"none", "none">>

PageRow(before, after) ==
  IF {before, after} = {Unseen} THEN NoRow
  ELSE <<Presence(before, after), PrimaryChangeClass(before, after)>>

FieldRow(before, after) ==
  IF {before, after} = {Unseen} THEN NoRow
  ELSE <<Presence(before, after),
         IF Presence(before, after) # "observed_in_both" THEN "not_applicable"
         ELSE IF before # after THEN "changed" ELSE "no_tracked_change">>

EdgeLabels == {"newly_observed", "not_observed_in_target", "changed"}

\* _populate_page_topology: an edge counts under its presence, or else under its change.
Label(row) == IF row[1] \in EdgeLabels THEN row[1] ELSE row[2]

\* edges is a function from the pairs of pages to their rows.
Topology(edges, p) ==
  [label \in EdgeLabels |->
     [out |-> Cardinality({e \in DOMAIN edges : e[1] = p /\ Label(edges[e]) = label}),
      in  |-> Cardinality({e \in DOMAIN edges : e[2] = p /\ Label(edges[e]) = label})]]

\* _result_counts, for any table of rows.
ResultCounts(rows) == [state \in Presences |-> Cardinality({k \in DOMAIN rows : rows[k][1] = state})]

------------------------------------------------------------------------------
(* What the classes mean, without hashes: docs/scan-comparisons.md ranks   *)
(* what differs, and says that a difference that is not known to be        *)
(* harmless is never called normalization.                                 *)

Differing(before, after) ==
  {part \in {"text", "volatile", "version", "rest", "meta", "wire"} : before[part] # after[part]}

Meaning(before, after) ==
  LET differing == Differing(before, after)
      bytes     == differing \ {"wire"}
  IN IF Unseen \in {before, after} THEN "not_applicable"
     ELSE IF Analysed(before, after)
     THEN IF "text" \in differing THEN "substantive_change"
          ELSE IF "meta" \in differing THEN "metadata_change"
          ELSE IF differing \cap {"version", "rest", "wire"} # {} THEN "technical_change"
          ELSE IF differing = {"volatile"} THEN "normalization_only" ELSE "no_tracked_change"
     ELSE IF "meta" \in differing THEN "metadata_change"
          ELSE IF "wire" \in differing THEN "technical_change"
          ELSE IF bytes = {} /\ "nothing" \notin {before.kept, after.kept}
               THEN "no_tracked_change" ELSE "indeterminate"
==============================================================================
