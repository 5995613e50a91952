---------------------------- MODULE FileAdapters ----------------------------
(***************************************************************************)
(* The adapters that turn one file into evidence (adapters): Prometheus    *)
(* rules, Grafana dashboards, KEDA, Argo Rollouts, Sloth, Pyrra, HPA and   *)
(* runtime query logs.                                                     *)
(*                                                                         *)
(* Evidence is [consumers, unresolved, references, diagnostics]:           *)
(* identifiers, those among them that are marked unresolved, pairs         *)
(* [consumer, symbol], and [about, required].  A parser returns {} when it *)
(* rejects the whole file, or {its evidence}.  Consumer identifiers hold   *)
(* the positions in the file that make them unique; when a dashboard gives *)
(* two targets one identifier, the dependency graph refuses the evidence   *)
(* (GraphBuilds of ChangeSafety).                                          *)
(***************************************************************************)
EXTENDS QueryAnalysis, FiniteSets, FiniteSetsExt

CONSTANTS
  Syntax,      \* of each query text, what its parser finds
  MaxRecords   \* records that are read of a runtime query file

ASSUME RecordsAssumption == MaxRecords \in Nat

NoEvidence == [consumers |-> {}, unresolved |-> {}, references |-> {}, diagnostics |-> {}]
merge(parts) ==
  [consumers |-> UNION {p.consumers : p \in parts}, unresolved |-> UNION {p.unresolved : p \in parts},
   references |-> UNION {p.references : p \in parts}, diagnostics |-> UNION {p.diagnostics : p \in parts}]

\* A consumer and its queries: what one query refers to counts even if
\* another query is unresolved, and a consumer without a query is unresolved.
analyzeConsumer(id, queries, required) ==
  LET bad == {q \in queries : ~Analyze(Syntax[q]).resolved}
      gap == queries = {} \/ bad # {}
  IN [consumers |-> {id},
      unresolved |-> IF gap THEN {id} ELSE {},
      references |-> UNION {{[consumer |-> id, symbol |-> r] : r \in Analyze(Syntax[q]).references} : q \in queries \ bad},
      diagnostics |-> IF gap THEN {[about |-> id, required |-> required]} ELSE {}]

isBlankQuery(q) == Syntax[q].form = "blank"

(***************************************************************************)
(* Prometheus rules.  One bad rule rejects the file.                       *)
(***************************************************************************)
\* A rule is [record, alert, expr]; exactly one of record and alert is set.
normalizeRule(rule) == rule.record # rule.alert /\ ~isBlankQuery(rule.expr)

discoverGroups(d, groups, required) ==
  IF \E g \in DOMAIN groups : ~groups[g].named \/ \E rule \in Range(groups[g].rules) : ~normalizeRule(rule) THEN {}
  ELSE {merge(UNION {{analyzeConsumer(<<"rule", d, g, r>>, {groups[g].rules[r].expr}, required) :
                        r \in DOMAIN groups[g].rules} : g \in DOMAIN groups})}

\* A document is [empty, groups]; wherever its groups are, there must be some.
parseRules(documents, required) ==
  LET full == {d \in DOMAIN documents : ~documents[d].empty}
      of(d) == IF documents[d].groups = << >> THEN {} ELSE discoverGroups(d, documents[d].groups, required)
  IN IF documents = << >> \/ \E d \in full : of(d) = {} THEN {} ELSE {merge(UNION {of(d) : d \in full})}

(***************************************************************************)
(* Grafana dashboards: [titled, source, panels, variables].  A panel is    *)
(* [source, targets], nested ones included: they do not inherit from their *)
(* parent.  A target is [hide, source, expr], a variable [source, expr].   *)
(***************************************************************************)
dataSource(own, panel, dashboard) == IF own # NoName THEN own ELSE IF panel # NoName THEN panel ELSE dashboard
isKnownNonPrometheus(source) == source = "loki"

discoverPanel(dashboard, p, required) ==
  LET panel == dashboard.panels[p]
      kept == {t \in DOMAIN panel.targets :
                 LET target == panel.targets[t] IN
                 /\ ~target.hide /\ ~isBlankQuery(target.expr)
                 /\ ~isKnownNonPrometheus(dataSource(target.source, panel.source, dashboard.source))}
  IN {analyzeConsumer(<<"panel", p, t>>, {panel.targets[t].expr}, required) : t \in kept}

\* A variable's data source is its own.
parseDashboard(dashboard, required) ==
  LET kept == {v \in DOMAIN dashboard.variables :
                 LET variable == dashboard.variables[v] IN
                 ~isBlankQuery(variable.expr) /\ ~isKnownNonPrometheus(variable.source)}
  IN IF ~dashboard.titled THEN {}
     ELSE {merge((UNION {discoverPanel(dashboard, p, required) : p \in DOMAIN dashboard.panels})
                 \cup {analyzeConsumer(<<"variable", v, 0>>, {dashboard.variables[v].expr}, required) : v \in kept})}

(***************************************************************************)
(* Kubernetes manifests and SLOs.                                          *)
(***************************************************************************)
\* Documents of other kinds are skipped, but one of this kind must be there;
\* discovered gives what each document would yield.
parseManifest(documents, discovered) ==
  LET own == {d \in DOMAIN documents : documents[d].own} IN
  IF own = {} \/ \E d \in own : discovered[d] = {} THEN {} ELSE {merge(UNION {discovered[d] : d \in own})}

\* ScaledObject: [own, valid, items]; an item is [prometheus, query].
discoverScaledObject(document, d, required) ==
  IF ~document.valid \/ document.items = << >> THEN {}
  ELSE {merge({analyzeConsumer(<<"trigger", d, i>>, {document.items[i].query}, required) :
                 i \in {i \in DOMAIN document.items : document.items[i].prometheus}})}

\* AnalysisTemplate: it may also only refer to other templates.
discoverTemplate(document, d, required) ==
  IF ~document.valid \/ (document.items = << >> /\ ~document.templates) THEN {}
  ELSE {merge({analyzeConsumer(<<"gate", d, i>>, {document.items[i].query}, required) :
                 i \in {i \in DOMAIN document.items : document.items[i].prometheus}})}

\* Sloth and Pyrra: one consumer per objective, with all queries of its
\* indicator that are not blank.
sloQueries(slo) == {q \in slo.queries : ~isBlankQuery(q)}
parseSloth(service, slos, required) ==
  IF ~service \/ slos = << >> \/ \E slo \in Range(slos) : ~slo.valid THEN {}
  ELSE {merge({analyzeConsumer(<<"slo", s>>, sloQueries(slos[s]), required) : s \in DOMAIN slos})}
parsePyrra(documents, required) ==
  IF documents = << >> \/ \E slo \in Range(documents) : ~slo.valid THEN {}
  ELSE {merge({analyzeConsumer(<<"slo", s>>, sloQueries(documents[s]), required) : s \in DOMAIN documents})}

(***************************************************************************)
(* HPA: the metric of a Kubernetes API is known by an explicit mapping     *)
(* only.  An entry is [type, metric, prometheus, ignore], where prometheus *)
(* is {} or {[metric, labels, ignored]}, labels a function.                *)
(***************************************************************************)
validateMapping(entries) ==
  /\ entries # << >>
  /\ \A i, j \in DOMAIN entries : entries[i].type = entries[j].type /\ entries[i].metric = entries[j].metric => i = j
  /\ \A i \in DOMAIN entries :
       /\ (entries[i].prometheus # {}) # entries[i].ignore
       /\ \A p \in entries[i].prometheus :
            /\ \A k, l \in DOMAIN p.labels : p.labels[k] = p.labels[l] => k = l
            /\ MetricNameLabel \notin {p.labels[k] : k \in DOMAIN p.labels}
            /\ DOMAIN p.labels \cap p.ignored = {}

lookup(entries, metric) == {e \in Range(entries) : e.type = metric.type /\ e.metric = metric.name}

unresolvedSelectorReference(metric) ==
  [kind |-> "metric", name |-> metric, parent |-> NoName, resolve |-> TRUE, scope |-> "labels"]

\* What a metric that is mapped refers to: the metric, and per selector label
\* the label it is mapped to, nothing if it is ignored, or a doubt.
mappedMetric(id, prometheus, labels, required) ==
  LET unknown == labels \ (DOMAIN prometheus.labels \cup prometheus.ignored) IN
  [consumers |-> {id}, unresolved |-> {},
   references |-> {[consumer |-> id, symbol |-> r] :
      r \in {MetricReference(prometheus.metric, FALSE)}
            \cup {LabelReference(prometheus.labels[l], prometheus.metric, FALSE) : l \in labels \cap DOMAIN prometheus.labels}
            \cup {unresolvedSelectorReference(prometheus.metric) : l \in unknown}},
   diagnostics |-> {[about |-> id, required |-> required] : l \in unknown}]

\* [own, valid, metrics]; a metric is [builtin, type, name, labels].
discoverHPA(document, d, entries, required) ==
  LET of(i) ==
        LET metric == document.metrics[i]
            id == <<"hpa", d, i>>
            found == lookup(entries, metric)
        IN CASE metric.builtin -> NoEvidence
             [] ~metric.builtin /\ found = {} -> analyzeConsumer(id, {}, required)
             [] OTHER -> merge(UNION {{mappedMetric(id, p, metric.labels, required) : p \in e.prometheus} : e \in found})
  IN IF ~document.valid THEN {} ELSE {merge({of(i) : i \in DOMAIN document.metrics})}

(***************************************************************************)
(* Runtime query logs: lines [form, query, time].  The window ends at the  *)
(* newest event of the file, not now.                                      *)
(***************************************************************************)
lineDiagnostic(n, required) == [about |-> <<"line", n>>, required |-> required]

parseRuntimeQueries(lines, window, required) ==
  LET records == {n \in DOMAIN lines : lines[n].form # "blank"}
      count(n) == Cardinality({i \in records : i <= n})
      read == {n \in records : count(n) <= MaxRecords}
      events == {n \in read : lines[n].form = "event"}
      anchor == Max({lines[n].time : n \in events})
      current == {n \in events : window = 0 \/ lines[n].time + window >= anchor}
  IN {merge({[NoEvidence EXCEPT !.diagnostics =
                {lineDiagnostic(n, required) : n \in {n \in records : n \in read \ events \/ count(n) = MaxRecords + 1}}]}
            \cup {analyzeConsumer(<<"query", q>>, {q}, required) : q \in {lines[n].query : n \in current}})}
=============================================================================
