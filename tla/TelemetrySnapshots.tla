------------------------- MODULE TelemetrySnapshots -------------------------
(***************************************************************************)
(* Telemetry contracts as files: what a capture of a Prometheus server     *)
(* puts into one (adapters/prometheussnapshot), when one is accepted       *)
(* (internal/snapshot/snapshot.go) and what the comparison of two reports  *)
(* (internal/snapshot/diff.go).                                            *)
(*                                                                         *)
(* A snapshot is [envelope, name, metrics]; metrics is a sequence of       *)
(* [name, type, unit, labels], labels a sequence of names, because a file  *)
(* may name the same metric or label twice.  BaseName strips a histogram's *)
(* suffix (_bucket, _sum, _count, _created): "h" for "h_bucket", and the   *)
(* name itself where there is none.                                        *)
(***************************************************************************)
EXTENDS ChangeDocuments, FiniteSets, SequencesExt

CONSTANTS BaseName, MaxMetrics, MaxSeries, MaxLabels

ASSUME LimitsAssumption == {MaxMetrics, MaxSeries, MaxLabels} \subseteq Nat \ {0}

SupportedTypes == {"counter", "gauge", "histogram", "gaugehistogram", "summary",
                   "info", "stateset", "unknown", "untyped"}

noDuplicates(seq) == \A i, j \in DOMAIN seq : seq[i] = seq[j] => i = j

\* A defect to detect: a metric that the file names twice is accepted, and
\* the index keeps only one of the two.
NormalizeLast(snapshot) ==
  /\ snapshot.envelope = "TelemetrySnapshot"
  /\ ~isBlank(snapshot.name)
  /\ \A i \in DOMAIN snapshot.metrics : ~isBlank(snapshot.metrics[i].name)

\* The order of metrics and labels, which Normalize establishes, is left out.
Normalize(snapshot) ==
  LET metrics == snapshot.metrics IN
  /\ snapshot.envelope = "TelemetrySnapshot"
  /\ ~isBlank(snapshot.name)
  /\ Len(metrics) <= MaxMetrics
  /\ noDuplicates([i \in DOMAIN metrics |-> metrics[i].name])
  /\ \A i \in DOMAIN metrics :
       /\ ~isBlank(metrics[i].name)
       /\ metrics[i].type \in SupportedTypes
       /\ Len(metrics[i].labels) <= MaxLabels
       /\ noDuplicates(metrics[i].labels)
       /\ \A l \in Range(metrics[i].labels) : ~isBlank(l) /\ l # "__name__"

\* Load and Parse: an unreadable file, or one larger than the limit, is an error.
Parse(document) == only(document.decodes /\ Normalize(document.snapshot), document.snapshot)

(***************************************************************************)
(* Capture.                                                                *)
(***************************************************************************)
normalizeType(type) == IF isBlank(type) THEN "unknown" ELSE type

\* The metadata of every metric, unless two targets disagree or the answer
\* is larger than the limit that the request asked for by one.
loadMetadata(raw) ==
  LET normal(e) == [type |-> normalizeType(e.type), unit |-> e.unit] IN
  only(/\ Cardinality(DOMAIN raw) <= MaxMetrics
       /\ \A m \in DOMAIN raw : Cardinality({normal(e) : e \in raw[m]}) = 1,
       [m \in DOMAIN raw |-> normal(CHOOSE e \in raw[m] : TRUE)])

\* A defect to detect: an answer that reaches the limit is taken as complete.
loadSeriesUpToLimit(raw) == {raw}

loadSeries(raw) == only(Cardinality(raw) <= MaxSeries, raw)

resolveFamily(name, metadata) ==
  LET base == BaseName[name] IN
  IF /\ name \notin DOMAIN metadata
     /\ base \in DOMAIN metadata
     /\ metadata[base].type \in {"histogram", "gaugehistogram", "summary"}
  THEN base ELSE name

\* One metric per family: those with metadata, and those only series show.
buildSnapshot(name, metadata, series) ==
  LET shown == {resolveFamily(s.name, metadata) : s \in series}
      labels(family) == UNION {s.labels : s \in {s \in series : resolveFamily(s.name, metadata) = family}}
      metric(family) ==
        [name |-> family,
         type |-> IF family \in DOMAIN metadata THEN metadata[family].type ELSE "unknown",
         unit |-> IF family \in DOMAIN metadata THEN metadata[family].unit ELSE "",
         labels |-> SetToSeq(labels(family))]
      families == SetToSeq(DOMAIN metadata \cup shown)
      snapshot == [envelope |-> "TelemetrySnapshot", name |-> name,
                   metrics |-> [i \in DOMAIN families |-> metric(families[i])]]
  IN only(/\ Len(families) <= MaxMetrics
          /\ \A s \in series : s.name # ""
          /\ Normalize(snapshot),
          snapshot)

(***************************************************************************)
(* Comparison.                                                             *)
(***************************************************************************)
knownType(type) == type \notin {"", "unknown"}

\* The last of two entries wins, as in the code's map; Normalize leaves no two.
metricIndex(snapshot) ==
  LET names == {m.name : m \in Range(snapshot.metrics)} IN
  [n \in names |-> snapshot.metrics[SelectLastInSeq(snapshot.metrics, LAMBDA m : m.name = n)]]

difference(kind, metric, label, field) == [kind |-> kind, metric |-> metric, label |-> label, field |-> field]

compareMetric(before, after) ==
  LET name == before.name
      gone == Range(before.labels) \ Range(after.labels)
      new  == Range(after.labels) \ Range(before.labels)
      typed == {knownType(before.type), knownType(after.type)}
      units == {before.unit # "", after.unit # ""}
  IN only(typed = {TRUE} /\ before.type # after.type, difference("metric_type_changed", name, "", "type"))
     \cup only(typed = BOOLEAN, difference("metric_metadata_unavailable", name, "", "type"))
     \cup only(units = {TRUE} /\ before.unit # after.unit, difference("metric_unit_changed", name, "", "unit"))
     \cup only(units = BOOLEAN, difference("metric_metadata_unavailable", name, "", "unit"))
     \cup {difference("label_removed", name, l, "") : l \in gone}
     \cup {difference("label_added", name, l, "") : l \in new}

removalChange(kind, name, parent) ==
  [id |-> <<kind, parent, name>>, kind |-> kind, domain |-> "prometheus",
   from |-> [domain |-> "prometheus", name |-> name, parent |-> parent,
             kind |-> IF kind = "label_remove" THEN "label" ELSE "metric"],
   to |-> {}, metadata |-> "within"]

differencesOf(old, new) ==
  {difference("metric_added", m, "", "") : m \in DOMAIN new \ DOMAIN old}
  \cup {difference("metric_removed", m, "", "") : m \in DOMAIN old \ DOMAIN new}
  \cup UNION {compareMetric(old[m], new[m]) : m \in DOMAIN old \cap DOMAIN new}

\* Removals become changes, in the report's order; what the change model
\* cannot express stays as a required diagnostic.
Compare(baseline, candidate, name) ==
  LET differences == differencesOf(metricIndex(baseline), metricIndex(candidate))
      of(kinds) == {d \in differences : d.kind \in kinds}
      removals == {removalChange("metric_remove", d.metric, "") : d \in of({"metric_removed"})}
                  \cup {removalChange("label_remove", d.label, d.metric) : d \in of({"label_removed"})}
      changes == SetToSeq(removals)
  IN only(Normalize(baseline) /\ Normalize(candidate) /\ ValidateChangeSet(changeSetOf(name, changes)),
          [changes |-> changes,
           required |-> of({"metric_type_changed", "metric_unit_changed", "metric_metadata_unavailable"})])
=============================================================================
