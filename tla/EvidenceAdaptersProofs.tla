----------------------- MODULE EvidenceAdaptersProofs -----------------------
(***************************************************************************)
(* No use of a telemetry symbol is lost between a source and its evidence, *)
(* for every input of every adapter, and the owners of the consumers are   *)
(* the right ones or reported to be in doubt.                              *)
(***************************************************************************)
EXTENDS EvidenceAdapters, FiniteSetTheorems, SequenceTheorems, WellFoundedInduction, TLAPS

\* What EveryUseIsSeen says of one demand and one piece of evidence.
seen(E, required, d) ==
  \/ \E r \in E.references : r.consumer \in d.by /\ Refers(r.symbol, d.symbol)
  \/ \E g \in E.diagnostics : g.about \in d.by /\ g.required = required
demand(by, s) == [by |-> by, symbol |-> s]

(***************************************************************************)
(* Queries.                                                                *)
(***************************************************************************)

\* A reference to a metric or a label by name, and one that is to be resolved.
LEMMA ReferenceRefers ==
  ASSUME NEW m, NEW l
  PROVE  /\ Refers(MetricReference(m, FALSE), Symbol("metric", m, NoName))
         /\ Refers(LabelReference(l, m, FALSE), Symbol("label", l, m))
         /\ Refers(unresolvedSelectorReference(m), Symbol("label", l, m))
         /\ \A s : Refers(MetricReference(m, TRUE), s) /\ Refers(LabelReference(l, m, TRUE), s)
BY DEF Refers, MetricReference, LabelReference, unresolvedSelectorReference, Symbol

\* A text that is resolved parses and has no template that is recognised.
LEMMA ResolvedIsPlain ==
  ASSUME NEW q \in Texts, Analyze(Syntax[q]).resolved
  PROVE  /\ Plain(q)
         /\ Analyze(Syntax[q]).references =
              (UNION {collectVectorSelector(s) : s \in Syntax[q].selectors}) \cup (UNION {collectLabels(n) : n \in Syntax[q].nodes})
<1>1. ~(Syntax[q].form = "blank" \/ containsTemplate(Syntax[q]) \/ Syntax[q].form = "invalid")
  BY DEF Analyze
<1>2. Syntax[q].form \in {"blank", "invalid", "query"} /\ Syntax[q].variables \subseteq {"${", "[[", "$__", "$"}
  BY QueriesAssumption
<1>3. Syntax[q].variables \cap {"${", "[[", "$__"} = {}
  BY <1>1 DEF containsTemplate
<1>4. Plain(q)
  BY <1>1, <1>2, <1>3 DEF Plain
<1>5. QED
  BY <1>1, <1>4 DEF Analyze

\* A selector that reads a metric, and names no variable, has its name, or
\* something to be resolved.
LEMMA SelectorReads ==
  ASSUME NEW q \in Texts, Plain(q), NEW s \in Syntax[q].selectors, ~ByVariable(s), NEW m \in Reads(s) \cap Metrics
  PROVE  \/ selectorMetric(s).name = m /\ m # NoName
         \/ \E r \in collectVectorSelector(s) : \A x : Refers(r, x)
<1>1. /\ isList(s.named)
      /\ s.name # NoName \/ s.named # << >> \/ s.labels # {}
      /\ \A i \in DOMAIN s.named :
           IF s.named[i].equal THEN s.named[i].value \notin PlainVariables => s.named[i].admits \subseteq {s.named[i].value}
           ELSE s.named[i].value # NoName
      /\ m # NoName
  BY QueriesAssumption
<1>2. CASE s.name # NoName
  BY <1>1, <1>2 DEF Reads, selectorMetric
<1>3. CASE s.name = NoName /\ s.named = << >>
  <2>1. selectorMetric(s).name = NoName /\ selectorMetric(s).pattern = NoName
    BY <1>3 DEF selectorMetric
  <2>2. PICK l \in s.labels : TRUE
    BY <1>1, <1>3
  <2>3. LabelReference(l, NoName, TRUE) \in collectVectorSelector(s)
    BY <2>1, <2>2, Zenon DEF collectVectorSelector
  <2>4. QED
    BY <2>3, ReferenceRefers
<1>4. CASE s.name = NoName /\ s.named # << >>
  <2>1. 1 \in DOMAIN s.named /\ Head(s.named) = s.named[1]
    BY <1>1, <1>4 DEF isList
  <2>2. m \in s.named[1].admits
    BY <1>4, <2>1 DEF Reads
  <2>3. CASE s.named[1].equal
    <3>1. m = s.named[1].value
      <4>1. s.named[1].value \notin PlainVariables
        BY <1>4, <2>1, <2>3 DEF ByVariable
      <4>2. QED
        BY <1>1, <2>1, <2>2, <2>3, <4>1
    <3>2. selectorMetric(s).name = m
      BY <1>4, <2>1, <2>3, <3>1 DEF selectorMetric
    <3>3. QED
      BY <1>1, <3>2
  <2>4. CASE ~s.named[1].equal
    <3>1. selectorMetric(s).name = NoName /\ selectorMetric(s).pattern = s.named[1].value
      BY <1>4, <2>1, <2>4 DEF selectorMetric
    <3>2. s.named[1].value # NoName
      BY <1>1, <2>1, <2>4
    <3>3. MetricReference(s.named[1].value, TRUE) \in collectVectorSelector(s)
      BY <3>1, <3>2 DEF collectVectorSelector
    <3>4. QED
      BY <3>3, ReferenceRefers
  <2>5. QED
    BY <2>3, <2>4
<1>5. QED
  BY <1>2, <1>3, <1>4

\* Each symbol that a query uses is referred to by its analysis.
LEMMA QueryRefers ==
  ASSUME NEW q \in Texts, Analyze(Syntax[q]).resolved, NEW x \in Used(q)
  PROVE  \E r \in Analyze(Syntax[q]).references : Refers(r, x)
<1> DEFINE e == Syntax[q]
           below(s) == UNION {NodeLabels(n) : n \in {n \in e.nodes : s \in n.over}}
<1>0. Plain(q)
  BY ResolvedIsPlain
<1>1. PICK s \in e.selectors :
        ~ByVariable(s) /\ x \in UNION {MetricAndLabels(m, LabelsOf(s, e.nodes)) : m \in Reads(s) \cap Metrics}
  <2>1. x \in UNION {UNION {MetricAndLabels(m, LabelsOf(s, e.nodes)) : m \in Reads(s) \cap Metrics} :
                      s \in {s \in e.selectors : ~(Plain(q) /\ ByVariable(s))}}
    BY Zenon DEF Used
  <2>2. PICK s \in {s \in e.selectors : ~(Plain(q) /\ ByVariable(s))} :
          x \in UNION {MetricAndLabels(m, LabelsOf(s, e.nodes)) : m \in Reads(s) \cap Metrics}
    BY <2>1, Zenon
  <2>3. QED
    BY <1>0, <2>2, Zenon
<1>2. PICK m \in Reads(s) \cap Metrics : x \in MetricAndLabels(m, LabelsOf(s, e.nodes))
  BY <1>1
<1>3. \/ x = Symbol("metric", m, NoName)
      \/ \E l \in s.labels \cup below(s) : x = Symbol("label", l, m)
  <2>1. \A l \in LabelsOf(s, e.nodes) : l \in s.labels \cup below(s)
    BY Zenon DEF LabelsOf
  <2> HIDE DEF below
  <2>2. QED
    BY <1>2, <2>1 DEF MetricAndLabels
<1>4. /\ \A r \in collectVectorSelector(s) : r \in Analyze(e).references
      /\ \A n \in e.nodes : \A r \in collectLabels(n) : r \in Analyze(e).references
  <2>1. Analyze(e).references = (UNION {collectVectorSelector(y) : y \in e.selectors}) \cup (UNION {collectLabels(n) : n \in e.nodes})
    BY ResolvedIsPlain
  <2>2. QED
    BY <2>1, Zenon
<1>5. CASE \E r \in collectVectorSelector(s) : \A y : Refers(r, y)
  BY <1>4, <1>5
<1>6. CASE selectorMetric(s).name = m /\ m # NoName
  <2>1. MetricReference(m, FALSE) \in collectVectorSelector(s)
    BY <1>6 DEF collectVectorSelector
  <2>2. \A l \in s.labels : LabelReference(l, m, FALSE) \in collectVectorSelector(s)
    <3> SUFFICES ASSUME NEW l \in s.labels PROVE LabelReference(l, m, FALSE) \in collectVectorSelector(s)
      OBVIOUS
    <3>1. LabelReference(l, selectorMetric(s).name, selectorMetric(s).name = NoName) \in collectVectorSelector(s)
      BY Zenon DEF collectVectorSelector
    <3>2. (selectorMetric(s).name = NoName) = FALSE
      BY <1>6
    <3>3. QED
      BY <1>6, <3>1, <3>2
  <2>3. ASSUME NEW l \in below(s)
        PROVE  \E n \in e.nodes : LabelReference(l, m, FALSE) \in collectLabels(n)
    <3>1. PICK n \in e.nodes : s \in n.over /\ l \in NodeLabels(n)
      BY <2>3, Zenon
    <3>2. m \in metricNames(n.over)
      BY <1>6, <3>1 DEF metricNames
    <3>3. LabelReference(l, m, FALSE) \in addLabelForMetrics(l, metricNames(n.over))
      BY <3>2 DEF addLabelForMetrics
    <3>4. collectLabels(n) = UNION {addLabelForMetrics(k, metricNames(n.over)) : k \in NodeLabels(n)}
      BY Zenon DEF collectLabels, stringArguments, NodeLabels
    <3>5. QED
      BY <3>1, <3>3, <3>4
  <2>4. QED
    BY <1>3, <1>4, <2>1, <2>2, <2>3, ReferenceRefers
<1>7. QED
  BY <1>0, <1>1, <1>5, <1>6, SelectorReads

\* A consumer with its queries accounts for what each of them uses.
LEMMA ConsumerSeen ==
  ASSUME NEW id, NEW queries, queries \subseteq Texts, NEW q \in queries, NEW x \in Used(q),
         NEW required, NEW by, id \in by
  PROVE  seen(analyzeConsumer(id, queries, required), required, demand(by, x))
<1> DEFINE bad == {p \in queries : ~Analyze(Syntax[p]).resolved}
           E == analyzeConsumer(id, queries, required)
<1>1. CASE bad # {}
  <2>1. [about |-> id, required |-> required] \in E.diagnostics
    BY <1>1 DEF analyzeConsumer
  <2>2. QED
    BY <2>1 DEF seen, demand
<1>2. CASE bad = {}
  <2>1. Analyze(Syntax[q]).resolved
    BY <1>2
  <2>2. PICK r \in Analyze(Syntax[q]).references : Refers(r, x)
    BY <2>1, QueryRefers
  <2>3. [consumer |-> id, symbol |-> r] \in E.references
    BY <1>2 DEF analyzeConsumer
  <2>4. QED
    BY <2>2, <2>3 DEF seen, demand
<1>3. QED
  BY <1>1, <1>2

\* A consumer without a query is reported.
LEMMA GapSeen ==
  ASSUME NEW id, NEW required, NEW x, NEW by, id \in by
  PROVE  seen(analyzeConsumer(id, {}, required), required, demand(by, x))
<1>1. [about |-> id, required |-> required] \in analyzeConsumer(id, {}, required).diagnostics
  BY DEF analyzeConsumer
<1>2. QED
  BY <1>1 DEF seen, demand

\* What a piece of evidence shows, the whole shows.
LEMMA MergeSeen ==
  ASSUME NEW parts, NEW E \in parts, NEW required, NEW d, seen(E, required, d)
  PROVE  seen(merge(parts), required, d)
BY DEF seen, merge

\* The same for all demands of one query, and a query that is blank has none.
LEMMA QueriedSeen ==
  ASSUME NEW id, NEW queries, queries \subseteq Texts, NEW q \in queries,
         NEW required, NEW by, id \in by, NEW d \in Queried(by, q)
  PROVE  seen(analyzeConsumer(id, queries, required), required, d)
<1>1. PICK x \in Used(q) : d = demand(by, x)
  BY DEF Queried, demand
<1>2. QED
  BY <1>1, ConsumerSeen

\* A blank query uses nothing, so nothing of it can be missed.
LEMMA BlankUsesNothing ==
  ASSUME NEW q \in Texts, isBlankQuery(q), NEW by
  PROVE  Queried(by, q) = {}
<1>1. Syntax[q].selectors = {}
  BY QueriesAssumption DEF isBlankQuery
<1>2. Used(q) = {}
  BY <1>1 DEF Used
<1>3. QED
  BY <1>2 DEF Queried

(***************************************************************************)
(* File adapters.                                                          *)
(***************************************************************************)
Seen(E, required, demands) == \A d \in demands : seen(E, required, d)

\* Every rule of a file that is accepted is a consumer.
LEMMA RulesSeen ==
  ASSUME NEW documents, rulesInput(documents), NEW required, NEW E \in parseRules(documents, required)
  PROVE  Seen(E, required, RulesUsed(documents))
<1> DEFINE of(d) == IF documents[d].groups = << >> THEN {} ELSE discoverGroups(d, documents[d].groups, required)
           full == {d \in DOMAIN documents : ~documents[d].empty}
<1>1. E = merge(UNION {of(d) : d \in full}) /\ \A d \in full : of(d) # {}
  BY Zenon DEF parseRules
<1>2. ASSUME NEW x \in RulesUsed(documents)
      PROVE  seen(E, required, x)
  <2>1. PICK d \in DOMAIN documents : \E g \in DOMAIN documents[d].groups : \E r \in DOMAIN documents[d].groups[g].rules :
          x \in Queried({<<"rule", d, g, r>>}, documents[d].groups[g].rules[r].expr)
    <3>1. x \in UNION {UNION {UNION {Queried({<<"rule", d, g, r>>}, documents[d].groups[g].rules[r].expr) :
            r \in DOMAIN documents[d].groups[g].rules} : g \in DOMAIN documents[d].groups} : d \in DOMAIN documents}
      BY <1>2 DEF RulesUsed
    <3>2. QED
      BY <3>1
  <2>2. PICK g \in DOMAIN documents[d].groups : \E r \in DOMAIN documents[d].groups[g].rules :
          x \in Queried({<<"rule", d, g, r>>}, documents[d].groups[g].rules[r].expr)
    BY <2>1
  <2>3. PICK r \in DOMAIN documents[d].groups[g].rules :
          x \in Queried({<<"rule", d, g, r>>}, documents[d].groups[g].rules[r].expr)
    BY <2>2
  <2> DEFINE id == <<"rule", d, g, r>>
             q == documents[d].groups[g].rules[r].expr
             within(h) == {analyzeConsumer(<<"rule", d, h, s>>, {documents[d].groups[h].rules[s].expr}, required) :
                             s \in DOMAIN documents[d].groups[h].rules}
             parts == UNION {within(h) : h \in DOMAIN documents[d].groups}
  <2>4. ~documents[d].empty /\ documents[d].groups # << >>
    BY <2>2 DEF rulesInput
  <2>5. d \in full /\ of(d) = discoverGroups(d, documents[d].groups, required)
    BY <2>4
  <2>6. merge(parts) \in of(d)
    <3>1. discoverGroups(d, documents[d].groups, required) \in {{}, {merge(parts)}}
      BY Zenon DEF discoverGroups
    <3>2. QED
      BY <1>1, <2>5, <3>1
  <2>7. q \in Texts
    BY <2>1, <2>2, <2>3 DEF rulesInput
  <2>8. seen(analyzeConsumer(id, {q}, required), required, x)
    BY <2>3, <2>7, QueriedSeen
  <2>9. analyzeConsumer(id, {q}, required) \in parts
    <3>1. analyzeConsumer(id, {q}, required) \in within(g)
      BY Zenon
    <3> HIDE DEF within, id, q
    <3>2. QED
      BY <3>1
  <2>10. merge(parts) \in UNION {of(e) : e \in full}
    BY <2>5, <2>6
  <2> HIDE DEF id, q, parts, of, full
  <2>11. seen(merge(parts), required, x)
    BY <2>8, <2>9, MergeSeen
  <2>12. QED
    BY <1>1, <2>10, <2>11, MergeSeen
<1>3. QED
  BY <1>2 DEF Seen

\* The source of a target is the first that is given.
LEMMA SourceGiven ==
  ASSUME NEW own, NEW panel, NEW board, isKnownNonPrometheus(dataSource(own, panel, board))
  PROVE  \E i \in 1..3 : <<own, panel, board>>[i] = "loki" /\ \A j \in 1..(i - 1) : <<own, panel, board>>[j] = NoName
<1>1. CASE own = "loki"
  BY <1>1
<1>2. CASE own = NoName /\ panel = "loki"
  <2> DEFINE given == <<own, panel, board>>
  <2>1. given[2] = "loki" /\ \A j \in 1..(2 - 1) : given[j] = NoName
    BY <1>2
  <2>2. QED
    BY <2>1
<1>3. CASE own = NoName /\ panel = NoName /\ board = "loki"
  <2> DEFINE given == <<own, panel, board>>
  <2>1. given[3] = "loki" /\ given[1] = NoName /\ given[2] = NoName
    BY <1>3
  <2>2. \A j \in 1..(3 - 1) : j = 1 \/ j = 2
    OBVIOUS
  <2>3. QED
    BY <2>1, <2>2
<1>4. QED
  BY <1>1, <1>2, <1>3 DEF dataSource, isKnownNonPrometheus

\* The targets of the panels that are shown.
shownTargets(dashboard, p) ==
  LET loki(t) == LET sources == <<dashboard.panels[p].targets[t].source, dashboard.panels[p].source, dashboard.source>> IN
                 \E i \in 1..3 : sources[i] = "loki" /\ \A j \in 1..(i - 1) : sources[j] = NoName
  IN {t \in DOMAIN dashboard.panels[p].targets : ~dashboard.panels[p].targets[t].hide /\ ~loki(t)}

\* Every target that is shown and not Loki's is a consumer, unless it is blank.
LEMMA PanelSeen ==
  ASSUME NEW dashboard, NEW p \in DOMAIN dashboard.panels, NEW t \in shownTargets(dashboard, p),
         dashboard.panels[p].targets[t].expr \in Texts,
         NEW x \in Queried({<<"panel", p, t>>}, dashboard.panels[p].targets[t].expr), NEW required
  PROVE  \E E \in discoverPanel(dashboard, p, required) : seen(E, required, x)
<1> DEFINE panel == dashboard.panels[p]
           target == panel.targets[t]
           part == analyzeConsumer(<<"panel", p, t>>, {target.expr}, required)
<1>1. t \in DOMAIN panel.targets /\ ~target.hide
  BY DEF shownTargets
<1>2. ~isKnownNonPrometheus(dataSource(target.source, panel.source, dashboard.source))
  <2>1. ~\E i \in 1..3 : <<target.source, panel.source, dashboard.source>>[i] = "loki"
           /\ \A j \in 1..(i - 1) : <<target.source, panel.source, dashboard.source>>[j] = NoName
    BY Zenon DEF shownTargets
  <2>2. QED
    BY <2>1, SourceGiven
<1>3. ~isBlankQuery(target.expr)
  BY BlankUsesNothing
<1>4. part \in discoverPanel(dashboard, p, required)
  BY <1>1, <1>2, <1>3, Zenon DEF discoverPanel
<1>5. seen(part, required, x)
  BY QueriedSeen
<1>6. QED
  BY <1>4, <1>5

\* Every panel and every variable of a dashboard that is accepted is seen.
LEMMA DashboardSeen ==
  ASSUME NEW dashboard, dashboardInput(dashboard), NEW required, NEW E \in parseDashboard(dashboard, required)
  PROVE  Seen(E, required, DashboardUsed(dashboard))
<1> DEFINE kept == {v \in DOMAIN dashboard.variables :
                      ~isBlankQuery(dashboard.variables[v].expr) /\ ~isKnownNonPrometheus(dashboard.variables[v].source)}
           panels == UNION {discoverPanel(dashboard, p, required) : p \in DOMAIN dashboard.panels}
           variables == {analyzeConsumer(<<"variable", v, 0>>, {dashboard.variables[v].expr}, required) : v \in kept}
<1>1. E = merge(panels \cup variables)
  BY Zenon DEF parseDashboard
<1>2. ASSUME NEW x, NEW p \in DOMAIN dashboard.panels, NEW t \in shownTargets(dashboard, p),
             x \in Queried({<<"panel", p, t>>}, dashboard.panels[p].targets[t].expr)
      PROVE  seen(E, required, x)
  <2>1. dashboard.panels[p].targets[t].expr \in Texts
    BY DEF dashboardInput, shownTargets
  <2>2. PICK part \in discoverPanel(dashboard, p, required) : seen(part, required, x)
    BY <1>2, <2>1, PanelSeen
  <2>3. part \in panels
    BY <2>2, Zenon
  <2> HIDE DEF panels, variables
  <2>4. QED
    BY <1>1, <2>2, <2>3, MergeSeen
<1>3. ASSUME NEW x, NEW v \in DOMAIN dashboard.variables, dashboard.variables[v].source # "loki",
             x \in Queried({<<"variable", v, 0>>}, dashboard.variables[v].expr)
      PROVE  seen(E, required, x)
  <2> DEFINE q == dashboard.variables[v].expr
             part == analyzeConsumer(<<"variable", v, 0>>, {q}, required)
  <2>1. q \in Texts
    BY DEF dashboardInput
  <2>2. ~isBlankQuery(q)
    BY <1>3, <2>1, BlankUsesNothing
  <2>3. v \in kept
    BY <1>3, <2>2 DEF isKnownNonPrometheus
  <2>4. part \in variables
    BY <2>3, Zenon
  <2>5. seen(part, required, x)
    BY <1>3, <2>1, QueriedSeen
  <2> HIDE DEF panels, variables, part
  <2>6. QED
    BY <1>1, <2>4, <2>5, MergeSeen
<1>4. DashboardUsed(dashboard) =
        (UNION {UNION {Queried({<<"panel", p, t>>}, dashboard.panels[p].targets[t].expr) : t \in shownTargets(dashboard, p)} : p \in DOMAIN dashboard.panels})
        \cup UNION {Queried({<<"variable", v, 0>>}, dashboard.variables[v].expr) :
                      v \in {v \in DOMAIN dashboard.variables : dashboard.variables[v].source # "loki"}}
  BY Zenon DEF DashboardUsed, shownTargets
<1>5. ASSUME NEW x \in DashboardUsed(dashboard)
      PROVE  seen(E, required, x)
  <2> HIDE DEF kept, panels, variables
  <2>1. CASE x \in UNION {UNION {Queried({<<"panel", p, t>>}, dashboard.panels[p].targets[t].expr) : t \in shownTargets(dashboard, p)} : p \in DOMAIN dashboard.panels}
    <3>1. PICK p \in DOMAIN dashboard.panels :
            x \in UNION {Queried({<<"panel", p, t>>}, dashboard.panels[p].targets[t].expr) : t \in shownTargets(dashboard, p)}
      BY <2>1, Zenon
    <3>2. PICK t \in shownTargets(dashboard, p) : x \in Queried({<<"panel", p, t>>}, dashboard.panels[p].targets[t].expr)
      BY <3>1, Zenon
    <3>3. QED
      BY <1>2, <3>2
  <2>2. CASE x \in UNION {Queried({<<"variable", v, 0>>}, dashboard.variables[v].expr) :
                            v \in {v \in DOMAIN dashboard.variables : dashboard.variables[v].source # "loki"}}
    <3>1. PICK v \in {v \in DOMAIN dashboard.variables : dashboard.variables[v].source # "loki"} :
            x \in Queried({<<"variable", v, 0>>}, dashboard.variables[v].expr)
      BY <2>2, Zenon
    <3>2. QED
      BY <1>3, <3>1
  <2>3. QED
    BY <1>4, <1>5, <2>1, <2>2
<1>6. QED
  BY <1>5 DEF Seen

\* What each of a manifest's own documents shows, the manifest shows.
LEMMA ManifestSeen ==
  ASSUME NEW documents, NEW discovered, NEW E \in parseManifest(documents, discovered),
         NEW d \in DOMAIN documents, documents[d].own,
         NEW required, NEW x, \A F \in discovered[d] : seen(F, required, x)
  PROVE  seen(E, required, x)
<1> DEFINE own == {e \in DOMAIN documents : documents[e].own}
           parts == UNION {discovered[e] : e \in own}
<1>1. E = merge(parts) /\ \A e \in own : discovered[e] # {}
  BY Zenon DEF parseManifest
<1>2. PICK F \in discovered[d] : TRUE
  BY <1>1
<1>3. F \in parts
  OBVIOUS
<1> HIDE DEF parts
<1>4. QED
  BY <1>1, <1>2, <1>3, MergeSeen

\* What the items of a document show together.
itemsEvidence(name, document, d, required) ==
  merge({analyzeConsumer(<<name, d, k>>, {document.items[k].query}, required) :
           k \in {k \in DOMAIN document.items : document.items[k].prometheus}})

\* Every Prometheus query of the items of a document is a consumer of its own.
LEMMA ItemsSeen ==
  ASSUME NEW name, NEW documents, manifestInput(documents), NEW required,
         NEW d \in DOMAIN documents, NEW i \in DOMAIN documents[d].items, documents[d].items[i].prometheus,
         NEW x \in Queried({<<name, d, i>>}, documents[d].items[i].query)
  PROVE  seen(itemsEvidence(name, documents[d], d, required), required, x)
<1> DEFINE part(k) == analyzeConsumer(<<name, d, k>>, {documents[d].items[k].query}, required)
           parts == {part(k) : k \in {k \in DOMAIN documents[d].items : documents[d].items[k].prometheus}}
<1>1. part(i) \in parts
  BY Zenon
<1>2. documents[d].items[i].query \in Texts
  BY DEF manifestInput
<1>3. seen(part(i), required, x)
  BY <1>2, QueriedSeen
<1> HIDE DEF part, parts
<1>4. seen(merge(parts), required, x)
  BY <1>1, <1>3, MergeSeen
<1>5. QED
  BY <1>4 DEF part, parts, itemsEvidence

\* A demand of a manifest belongs to an item of one of its own documents.
LEMMA ItemsDemand ==
  ASSUME NEW name, NEW documents, NEW x \in ItemsUsed(name, documents)
  PROVE  \E d \in DOMAIN documents : documents[d].own /\
           \E i \in DOMAIN documents[d].items : documents[d].items[i].prometheus /\
             x \in Queried({<<name, d, i>>}, documents[d].items[i].query)
<1> DEFINE of(d) == UNION {Queried({<<name, d, i>>}, documents[d].items[i].query) :
                             i \in {i \in DOMAIN documents[d].items : documents[d].items[i].prometheus}}
<1>1. PICK d \in {d \in DOMAIN documents : documents[d].own} : x \in of(d)
  BY Zenon DEF ItemsUsed
<1>2. PICK i \in {i \in DOMAIN documents[d].items : documents[d].items[i].prometheus} :
        x \in Queried({<<name, d, i>>}, documents[d].items[i].query)
  BY <1>1, Zenon
<1>3. QED
  BY <1>1, <1>2

\* KEDA triggers.
LEMMA ScaledObjectsSeen ==
  ASSUME NEW documents, manifestInput(documents), NEW required,
         NEW E \in parseManifest(documents, [d \in DOMAIN documents |-> discoverScaledObject(documents[d], d, required)])
  PROVE  Seen(E, required, ItemsUsed("trigger", documents))
<1> DEFINE found == [d \in DOMAIN documents |-> discoverScaledObject(documents[d], d, required)]
<1>0. E \in parseManifest(documents, found)
  OBVIOUS
<1>1. ASSUME NEW x \in ItemsUsed("trigger", documents)
      PROVE  seen(E, required, x)
  <2>1. PICK d \in DOMAIN documents : documents[d].own /\
          \E i \in DOMAIN documents[d].items : documents[d].items[i].prometheus /\
            x \in Queried({<<"trigger", d, i>>}, documents[d].items[i].query)
    BY <1>1, ItemsDemand
  <2>2. PICK i \in DOMAIN documents[d].items : documents[d].items[i].prometheus /\
            x \in Queried({<<"trigger", d, i>>}, documents[d].items[i].query)
    BY <2>1
  <2> DEFINE M == itemsEvidence("trigger", documents[d], d, required)
  <2>3. seen(M, required, x)
    BY <2>2, ItemsSeen
  <2>4. discoverScaledObject(documents[d], d, required) \in {{}, {M}}
    BY Zenon DEF discoverScaledObject, itemsEvidence
  <2>5. \A F \in found[d] : seen(F, required, x)
    BY <2>3, <2>4
  <2> HIDE DEF found
  <2>6. QED
    BY <1>0, <2>1, <2>5, ManifestSeen
<1>2. QED
  BY <1>1 DEF Seen

\* Argo Rollouts gates.
LEMMA TemplatesSeen ==
  ASSUME NEW documents, manifestInput(documents), NEW required,
         NEW E \in parseManifest(documents, [d \in DOMAIN documents |-> discoverTemplate(documents[d], d, required)])
  PROVE  Seen(E, required, ItemsUsed("gate", documents))
<1> DEFINE found == [d \in DOMAIN documents |-> discoverTemplate(documents[d], d, required)]
<1>0. E \in parseManifest(documents, found)
  OBVIOUS
<1>1. ASSUME NEW x \in ItemsUsed("gate", documents)
      PROVE  seen(E, required, x)
  <2>1. PICK d \in DOMAIN documents : documents[d].own /\
          \E i \in DOMAIN documents[d].items : documents[d].items[i].prometheus /\
            x \in Queried({<<"gate", d, i>>}, documents[d].items[i].query)
    BY <1>1, ItemsDemand
  <2>2. PICK i \in DOMAIN documents[d].items : documents[d].items[i].prometheus /\
            x \in Queried({<<"gate", d, i>>}, documents[d].items[i].query)
    BY <2>1
  <2> DEFINE M == itemsEvidence("gate", documents[d], d, required)
  <2>3. seen(M, required, x)
    BY <2>2, ItemsSeen
  <2>4. discoverTemplate(documents[d], d, required) \in {{}, {M}}
    BY Zenon DEF discoverTemplate, itemsEvidence
  <2>5. \A F \in found[d] : seen(F, required, x)
    BY <2>3, <2>4
  <2> HIDE DEF found
  <2>6. QED
    BY <1>0, <2>1, <2>5, ManifestSeen
<1>2. QED
  BY <1>1 DEF Seen

\* What the objectives of a file show together.
slosEvidence(slos, required) == merge({analyzeConsumer(<<"slo", s>>, sloQueries(slos[s]), required) : s \in DOMAIN slos})

\* Every query of an objective that is not blank is analysed.
LEMMA ObjectivesSeen ==
  ASSUME NEW slos, slosInput(slos), NEW required
  PROVE  Seen(slosEvidence(slos, required), required, SLOsUsed(slos))
<1> DEFINE part(s) == analyzeConsumer(<<"slo", s>>, sloQueries(slos[s]), required)
           parts == {part(s) : s \in DOMAIN slos}
<1>1. ASSUME NEW x \in SLOsUsed(slos)
      PROVE  seen(merge(parts), required, x)
  <2>1. PICK s \in DOMAIN slos : x \in UNION {Queried({<<"slo", s>>}, q) : q \in slos[s].queries}
    BY <1>1, Zenon DEF SLOsUsed
  <2>2. PICK q \in slos[s].queries : x \in Queried({<<"slo", s>>}, q)
    BY <2>1, Zenon
  <2>3. slos[s].queries \subseteq Texts
    BY DEF slosInput
  <2>4. q \in sloQueries(slos[s]) /\ sloQueries(slos[s]) \subseteq Texts
    BY <2>2, <2>3, BlankUsesNothing DEF sloQueries
  <2>5. seen(part(s), required, x)
    BY <2>2, <2>4, QueriedSeen
  <2>6. part(s) \in parts
    BY Zenon
  <2> HIDE DEF part, parts
  <2>7. QED
    BY <2>5, <2>6, MergeSeen
<1>2. QED
  BY <1>1 DEF Seen, slosEvidence

\* Sloth and Pyrra objectives.
LEMMA SLOsSeen ==
  ASSUME NEW slos, slosInput(slos), NEW named, NEW required, NEW E
  PROVE  /\ E \in parseSloth(named, slos, required) => Seen(E, required, SLOsUsed(slos))
         /\ E \in parsePyrra(slos, required) => Seen(E, required, SLOsUsed(slos))
<1>1. parseSloth(named, slos, required) \in {{}, {slosEvidence(slos, required)}}
  BY Zenon DEF parseSloth, slosEvidence
<1>2. parsePyrra(slos, required) \in {{}, {slosEvidence(slos, required)}}
  BY Zenon DEF parsePyrra, slosEvidence
<1>3. QED
  BY <1>1, <1>2, ObjectivesSeen

\* The labels of a metric that a selector label stands for.
labelsFor(p, l) == IF l \in DOMAIN p.labels THEN {p.labels[l]} ELSE IF l \in p.ignored THEN {} ELSE Labels

\* A mapped metric is referred to, with each of its labels that is in doubt.
LEMMA MappedSeen ==
  ASSUME NEW id, NEW p, NEW labels, NEW required,
         NEW s \in MetricAndLabels(p.metric, UNION {labelsFor(p, l) : l \in labels})
  PROVE  seen(mappedMetric(id, p, labels, required), required, demand({id}, s))
<1> DEFINE E == mappedMetric(id, p, labels, required)
           unknown == labels \ (DOMAIN p.labels \cup p.ignored)
           mine(r) == [consumer |-> id, symbol |-> r]
           R == {MetricReference(p.metric, FALSE)}
                \cup {LabelReference(p.labels[l], p.metric, FALSE) : l \in labels \cap DOMAIN p.labels}
                \cup {unresolvedSelectorReference(p.metric) : l \in unknown}
<1>1. E.references = {mine(r) : r \in R}
  BY DEF mappedMetric
<1>2. \A r \in R : mine(r) \in E.references
  BY <1>1
<1>3. \A r \in R : Refers(r, s) => seen(E, required, demand({id}, s))
  <2> SUFFICES ASSUME NEW r \in R, Refers(r, s) PROVE seen(E, required, demand({id}, s))
    OBVIOUS
  <2>1. mine(r).consumer = id /\ mine(r).symbol = r
    OBVIOUS
  <2>2. mine(r) \in E.references
    BY <1>2
  <2> HIDE DEF mine, E, R
  <2>3. QED
    BY <2>1, <2>2 DEF seen, demand
<1>4. CASE s = Symbol("metric", p.metric, NoName)
  <2>1. MetricReference(p.metric, FALSE) \in R
    OBVIOUS
  <2>2. QED
    BY <1>3, <1>4, <2>1, ReferenceRefers
<1>5. ASSUME NEW x \in UNION {labelsFor(p, l) : l \in labels}, s = Symbol("label", x, p.metric)
      PROVE  seen(E, required, demand({id}, s))
  <2>1. PICK l \in labels : x \in labelsFor(p, l)
    BY <1>5, Zenon
  <2>2. CASE l \in DOMAIN p.labels
    <3>1. x = p.labels[l]
      BY <2>1, <2>2 DEF labelsFor
    <3>2. LabelReference(x, p.metric, FALSE) \in R
      BY <2>1, <2>2, <3>1
    <3>3. QED
      BY <1>3, <1>5, <3>2, ReferenceRefers
  <2>3. CASE l \notin DOMAIN p.labels
    <3>1. l \in unknown
      BY <2>1, <2>3 DEF labelsFor
    <3>2. unresolvedSelectorReference(p.metric) \in R
      BY <3>1
    <3>3. QED
      BY <1>3, <1>5, <3>2, ReferenceRefers
  <2>4. QED
    BY <2>2, <2>3
<1>6. QED
  BY <1>4, <1>5 DEF MetricAndLabels

\* What the metrics of an autoscaler use.
hpaUses(mapping, metric) ==
  (UNION {MetricAndLabels(p.metric, UNION {labelsFor(p, l) : l \in metric.labels}) :
            p \in UNION {e.prometheus : e \in lookup(mapping, metric)}})
  \cup (IF lookup(mapping, metric) = {} THEN MetricAndLabels(metric.name, {}) ELSE {})

\* Every metric of an autoscaler that is not built in is mapped or reported.
LEMMA AutoscalerSeen ==
  ASSUME NEW document, NEW d, NEW mapping, NEW required, NEW F \in discoverHPA(document, d, mapping, required),
         NEW i \in DOMAIN document.metrics, ~document.metrics[i].builtin,
         NEW s \in hpaUses(mapping, document.metrics[i])
  PROVE  seen(F, required, demand({<<"hpa", d, i>>}, s))
<1> DEFINE of(k) ==
             LET metric == document.metrics[k]
                 id == <<"hpa", d, k>>
                 found == lookup(mapping, metric)
             IN CASE metric.builtin -> NoEvidence
                  [] ~metric.builtin /\ found = {} -> analyzeConsumer(id, {}, required)
                  [] OTHER -> merge(UNION {{mappedMetric(id, p, metric.labels, required) : p \in e.prometheus} : e \in found})
           parts == {of(k) : k \in DOMAIN document.metrics}
           metric == document.metrics[i]
           id == <<"hpa", d, i>>
           found == lookup(mapping, metric)
<1>1. F = merge(parts)
  BY Zenon DEF discoverHPA
<1>2. of(i) \in parts
  BY Zenon
<1>3. seen(of(i), required, demand({id}, s))
  <2>1. CASE found = {}
    <3>1. of(i) = analyzeConsumer(id, {}, required)
      BY <2>1
    <3> HIDE DEF of
    <3>2. QED
      BY <3>1, GapSeen
  <2>2. CASE found # {}
    <3> DEFINE own(e) == {mappedMetric(id, p, metric.labels, required) : p \in e.prometheus}
               mapped == UNION {own(e) : e \in found}
    <3>1. of(i) = merge(mapped)
      BY <2>2
    <3>2. PICK p \in UNION {e.prometheus : e \in found} :
            s \in MetricAndLabels(p.metric, UNION {labelsFor(p, l) : l \in metric.labels})
      BY <2>2 DEF hpaUses
    <3>3. PICK e \in found : p \in e.prometheus
      BY <3>2
    <3>4. mappedMetric(id, p, metric.labels, required) \in own(e)
      BY <3>3, Zenon
    <3>5. mappedMetric(id, p, metric.labels, required) \in mapped
      BY <3>3, <3>4, Zenon
    <3>6. seen(mappedMetric(id, p, metric.labels, required), required, demand({id}, s))
      BY <3>2, MappedSeen
    <3> HIDE DEF of, mapped, own, id
    <3>7. QED
      BY <3>1, <3>5, <3>6, MergeSeen
  <2>3. QED
    BY <2>1, <2>2
<1> HIDE DEF of, parts
<1>4. QED
  BY <1>1, <1>2, <1>3, MergeSeen

\* Every metric of the autoscalers of a manifest is seen.
LEMMA HPASeen ==
  ASSUME NEW input, NEW required,
         NEW E \in parseManifest(input.documents, [d \in DOMAIN input.documents |->
                     discoverHPA(input.documents[d], d, input.mapping, required)])
  PROVE  Seen(E, required, HPAUsed(input))
<1> DEFINE documents == input.documents
           found == [d \in DOMAIN documents |-> discoverHPA(documents[d], d, input.mapping, required)]
           uses(d, i) == {demand({<<"hpa", d, i>>}, s) : s \in hpaUses(input.mapping, documents[d].metrics[i])}
           usesOf(d) == UNION {uses(d, i) : i \in {i \in DOMAIN documents[d].metrics : ~documents[d].metrics[i].builtin}}
<1>0. E \in parseManifest(documents, found)
  OBVIOUS
<1>1. HPAUsed(input) = UNION {usesOf(d) : d \in {d \in DOMAIN documents : documents[d].own}}
  BY Zenon DEF HPAUsed, demand, hpaUses, labelsFor
<1>2. ASSUME NEW x \in HPAUsed(input)
      PROVE  seen(E, required, x)
  <2>1. PICK d \in {d \in DOMAIN documents : documents[d].own} : x \in usesOf(d)
    BY <1>1, <1>2, Zenon
  <2>2. PICK i \in {i \in DOMAIN documents[d].metrics : ~documents[d].metrics[i].builtin} : x \in uses(d, i)
    BY <2>1, Zenon
  <2>3. PICK s \in hpaUses(input.mapping, documents[d].metrics[i]) : x = demand({<<"hpa", d, i>>}, s)
    BY <2>2, Zenon
  <2>4. \A F \in discoverHPA(documents[d], d, input.mapping, required) : seen(F, required, x)
    BY <2>2, <2>3, AutoscalerSeen
  <2>5. found[d] = discoverHPA(documents[d], d, input.mapping, required)
    BY <2>1
  <2>6. d \in DOMAIN documents /\ documents[d].own
    BY <2>1
  <2> HIDE DEF found, documents
  <2>7. QED
    BY <1>0, <2>4, <2>5, <2>6, ManifestSeen
<1>3. QED
  BY <1>2 DEF Seen

(***************************************************************************)
(* Runtime query logs.                                                     *)
(***************************************************************************)
Less == {p \in Nat \X Nat : p[1] < p[2]}

\* A set of numbers that is not empty has a least one.
LEMMA LeastOf ==
  ASSUME NEW T, T \subseteq Nat, T # {}
  PROVE  \E m \in T : \A k \in T : m <= k
<1>1. OpToRel(<, Nat) = Less
  BY DEF OpToRel, Less
<1>2. IsWellFoundedOn(Less, Nat)
  BY <1>1, NatLessThanWellFounded
<1>3. PICK m \in T : \A k \in T : ~(<<k, m>> \in Less)
  BY <1>2, WFMin
<1>4. ASSUME NEW k \in T, k < m PROVE <<k, m>> \in Less
  BY <1>4 DEF Less
<1>5. \A k \in T : k \in Nat /\ m \in Nat /\ ~(k < m)
  BY <1>3, <1>4
<1>6. QED
  BY <1>5

upTo(R, n) == {i \in R : i <= n}

\* What is up to 0 and up to the next number.
LEMMA UpToNext ==
  ASSUME NEW R, R \subseteq Nat \ {0}, NEW n \in Nat
  PROVE  /\ upTo(R, 0) = {} /\ upTo(R, n) \subseteq 1..n /\ upTo(R, n) \subseteq R
         /\ n + 1 \notin upTo(R, n)
         /\ n + 1 \in R => upTo(R, n + 1) = upTo(R, n) \cup {n + 1}
         /\ n + 1 \notin R => upTo(R, n + 1) = upTo(R, n)
<1>1. \A i \in R : i \in Nat /\ i # 0
  OBVIOUS
<1>2. \A i \in Nat : i <= n + 1 <=> (i <= n \/ i = n + 1)
  OBVIOUS
<1>3. upTo(R, 0) = {}
  <2>1. \A i \in Nat : i # 0 => ~(i <= 0)
    OBVIOUS
  <2>2. QED
    BY <1>1, <2>1 DEF upTo
<1>4. upTo(R, n) \subseteq 1..n /\ upTo(R, n) \subseteq R /\ n + 1 \notin upTo(R, n)
  <2>1. \A i \in Nat : i # 0 /\ i <= n => i \in 1..n
    OBVIOUS
  <2>2. ~(n + 1 <= n)
    OBVIOUS
  <2>3. QED
    BY <1>1, <2>1, <2>2 DEF upTo
<1>5. \A i : i \in upTo(R, n + 1) <=> (i \in upTo(R, n) \/ (i = n + 1 /\ i \in R))
  BY <1>1, <1>2 DEF upTo
<1>6. QED
  BY <1>3, <1>4, <1>5

\* A count of lines passes through every number on its way.
LEMMA CountPasses ==
  ASSUME NEW R, R \subseteq Nat \ {0}, NEW K \in Nat, NEW n \in Nat, Cardinality(upTo(R, n)) > K
  PROVE  \E l \in R : l <= n /\ Cardinality(upTo(R, l)) = K + 1
<1>1. \A k \in Nat : IsFiniteSet(upTo(R, k)) /\ Cardinality(upTo(R, k)) \in Nat
  <2> SUFFICES ASSUME NEW k \in Nat PROVE IsFiniteSet(upTo(R, k)) /\ Cardinality(upTo(R, k)) \in Nat
    OBVIOUS
  <2>1. upTo(R, k) \subseteq 1..k
    BY UpToNext
  <2>2. IsFiniteSet(1..k)
    BY FS_Interval
  <2>3. QED
    BY <2>1, <2>2, FS_Subset, FS_CardinalityType
<1> DEFINE T == {k \in Nat : Cardinality(upTo(R, k)) > K}
<1>2. n \in T /\ T \subseteq Nat
  OBVIOUS
<1> HIDE DEF T
<1>3. PICK l \in T : \A k \in T : l <= k
  BY <1>2, LeastOf
<1>4. l \in Nat /\ Cardinality(upTo(R, l)) > K /\ l <= n
  BY <1>2, <1>3 DEF T
<1>5. l # 0
  <2>1. upTo(R, 0) = {}
    BY UpToNext
  <2>2. Cardinality(upTo(R, 0)) = 0
    BY <2>1, FS_EmptySet
  <2>3. QED
    BY <1>4, <2>2
<1>6. PICK k \in Nat : l = k + 1
  <2>1. l - 1 \in Nat /\ l = (l - 1) + 1
    BY <1>4, <1>5
  <2>2. QED
    BY <2>1
<1>7. ~(Cardinality(upTo(R, k)) > K)
  BY <1>3, <1>4, <1>6 DEF T
<1>8. l \in R
  <2>1. l \notin R => upTo(R, l) = upTo(R, k)
    BY <1>6, UpToNext
  <2>2. QED
    BY <1>4, <1>7, <2>1
<1>9. upTo(R, l) = upTo(R, k) \cup {l} /\ l \notin upTo(R, k)
  BY <1>6, <1>8, UpToNext
<1>10. Cardinality(upTo(R, l)) = Cardinality(upTo(R, k)) + 1
  BY <1>1, <1>6, <1>9, FS_AddElement
<1>11. Cardinality(upTo(R, l)) = K + 1
  BY <1>1, <1>4, <1>6, <1>7, <1>10
<1>12. QED
  BY <1>4, <1>8, <1>11

\* Of finitely many numbered times one is the newest.
LEMMA NewestOf ==
  ASSUME NEW N \in Nat, NEW S, S \subseteq 1..N, S # {}, NEW f, \A n \in S : f[n] \in Int
  PROVE  \E m \in S : \A n \in S : f[m] >= f[n]
<1> DEFINE G == {k \in Nat : upTo(S, k) = {} \/ \E m \in upTo(S, k) : \A n \in upTo(S, k) : f[m] >= f[n]}
<1>0. S \subseteq Nat \ {0}
  OBVIOUS
<1>1. 0 \in G
  <2>1. upTo(S, 0) = {}
    BY <1>0, UpToNext
  <2>2. QED
    BY <2>1
<1>2. ASSUME NEW k \in Nat, k \in G
      PROVE  k + 1 \in G
  <2>1. CASE k + 1 \notin S
    <3>1. upTo(S, k + 1) = upTo(S, k)
      BY <1>0, <2>1, UpToNext
    <3>2. QED
      BY <1>2, <3>1
  <2>2. CASE k + 1 \in S
    <3>1. upTo(S, k + 1) = upTo(S, k) \cup {k + 1}
      BY <1>0, <2>2, UpToNext
    <3>2. CASE upTo(S, k) = {}
      <4>1. f[k + 1] >= f[k + 1]
        BY <2>2
      <4>2. QED
        BY <3>1, <3>2, <4>1
    <3>3. CASE upTo(S, k) # {}
      <4>1. PICK m \in upTo(S, k) : \A n \in upTo(S, k) : f[m] >= f[n]
        BY <1>2, <3>3
      <4>2. m \in S /\ upTo(S, k) \subseteq S
        BY <1>0, UpToNext
      <4>3. f[m] \in Int /\ f[k + 1] \in Int /\ \A n \in upTo(S, k) : f[n] \in Int
        BY <2>2, <4>2
      <4>4. CASE f[m] >= f[k + 1]
        BY <3>1, <4>1, <4>4
      <4>5. CASE f[k + 1] >= f[m]
        <5>1. \A n \in upTo(S, k) : f[k + 1] >= f[n]
          BY <4>1, <4>3, <4>5
        <5>2. QED
          BY <3>1, <4>3, <5>1
      <4>6. QED
        BY <4>3, <4>4, <4>5
    <3>4. QED
      BY <3>2, <3>3
  <2>3. QED
    BY <2>1, <2>2
<1>3. \A k \in Nat : k \in G
  <2> DEFINE B == Nat \ G
  <2>1. SUFFICES ASSUME B # {} PROVE FALSE
    OBVIOUS
  <2>2. B \subseteq Nat
    OBVIOUS
  <2> HIDE DEF B
  <2>3. PICK m \in B : \A k \in B : m <= k
    BY <2>1, <2>2, LeastOf
  <2> HIDE DEF G
  <2>4. m \in Nat /\ m \notin G /\ m # 0
    BY <1>1, <2>2, <2>3 DEF B
  <2>5. m - 1 \in Nat /\ (m - 1) + 1 = m /\ ~(m <= m - 1)
    BY <2>4
  <2>6. m - 1 \in G
    BY <2>3, <2>5 DEF B
  <2>7. QED
    BY <1>2, <2>4, <2>5, <2>6
<1>4. upTo(S, N) = S
  <2>1. \A n \in S : n <= N
    OBVIOUS
  <2>2. QED
    BY <2>1 DEF upTo
<1>5. QED
  BY <1>3, <1>4

\* Every line that is not blank and not known to be too old is analysed or
\* reported, or the limit that was reached before it is.
LEMMA RuntimeSeen ==
  ASSUME NEW log, logInput(log), NEW required, NEW E \in parseRuntimeQueries(log.lines, log.window, required)
  PROVE  Seen(E, required, RuntimeUsed(log))
<1> DEFINE lines == log.lines
           window == log.window
           records == {n \in DOMAIN lines : lines[n].form # "blank"}
           count(n) == Cardinality({i \in records : i <= n})
           read == {n \in records : count(n) <= MaxRecords}
           events == {n \in read : lines[n].form = "event"}
           times == {lines[n].time : n \in events}
           current == {n \in events : window = 0 \/ lines[n].time + window >= Max(times)}
           reported == {n \in records : n \in read \ events \/ count(n) = MaxRecords + 1}
           issues == [NoEvidence EXCEPT !.diagnostics = {lineDiagnostic(n, required) : n \in reported}]
           found == {analyzeConsumer(<<"query", q>>, {q}, required) : q \in {lines[n].query : n \in current}}
           first(k) == {n \in records : count(n) <= k}
           limit == first(MaxRecords + 1) \ first(MaxRecords)
           old(n) == /\ n \in first(MaxRecords) /\ lines[n].form = "event" /\ window > 0
                     /\ \E k \in first(MaxRecords) : lines[k].form = "event" /\ lines[k].time > lines[n].time + window
           by(n) == {<<"query", lines[n].query>>, <<"line", n>>} \cup {<<"line", l>> : l \in {l \in limit : l <= n}}
<1>1. E = merge({issues} \cup found)
  BY Zenon DEF parseRuntimeQueries
<1>2. RuntimeUsed(log) = UNION {Queried(by(n), lines[n].query) : n \in {n \in records : ~old(n)}}
  BY Zenon DEF RuntimeUsed
<1>3. /\ Len(lines) \in Nat /\ DOMAIN lines = 1..Len(lines)
      /\ window \in Nat /\ MaxRecords \in Nat
      /\ \A n \in DOMAIN lines : lines[n].time \in Int /\ lines[n].query \in Texts
  BY RecordsAssumption DEF logInput, isList
<1>4. \A n \in reported : [about |-> <<"line", n>>, required |-> required] \in issues.diagnostics
  BY DEF NoEvidence, lineDiagnostic
<1>5. \A n \in reported : \A x : <<"line", n>> \in x.by => seen(E, required, x)
  <2> SUFFICES ASSUME NEW n \in reported, NEW x, <<"line", n>> \in x.by PROVE seen(E, required, x)
    OBVIOUS
  <2>1. [about |-> <<"line", n>>, required |-> required] \in issues.diagnostics
    BY <1>4
  <2>2. issues \in {issues} \cup found
    OBVIOUS
  <2> HIDE DEF issues, found, reported
  <2>3. seen(issues, required, x)
    BY <2>1 DEF seen
  <2>4. QED
    BY <1>1, <2>2, <2>3, MergeSeen
<1>6. ASSUME NEW n \in records, ~old(n), NEW x \in Queried(by(n), lines[n].query)
      PROVE  seen(E, required, x)
  <2>0. n \in 1..Len(lines) /\ n \in DOMAIN lines /\ x.by = by(n)
    <3>1. n \in 1..Len(lines) /\ n \in DOMAIN lines
      BY <1>3
    <3> HIDE DEF by
    <3>2. x.by = by(n)
      BY <1>6 DEF Queried
    <3>3. QED
      BY <3>1, <3>2
  <2>1. CASE n \notin read
    <3>1. records \subseteq Nat \ {0} /\ n \in Nat
      BY <1>3, <2>0
    <3>2. \A k : count(k) = Cardinality(upTo(records, k))
      BY Zenon DEF upTo
    <3>3. count(n) > MaxRecords
      <4>1. IsFiniteSet(upTo(records, n))
        <5> HIDE DEF records
        <5>1. IsFiniteSet(1..n)
          BY <3>1, FS_Interval
        <5>2. upTo(records, n) \subseteq 1..n
          BY <3>1, UpToNext
        <5>3. QED
          BY <5>1, <5>2, FS_Subset
      <4>2. count(n) \in Nat
        BY <3>2, <4>1, FS_CardinalityType
      <4>3. ~(count(n) <= MaxRecords)
        BY <2>1
      <4> HIDE DEF count
      <4>4. QED
        BY <1>3, <4>2, <4>3
    <3>4. PICK l \in records : l <= n /\ count(l) = MaxRecords + 1
      <4> HIDE DEF records, count
      <4>1. QED
        BY <1>3, <3>1, <3>2, <3>3, CountPasses
    <3>5. l \in reported
      BY <3>4, Zenon
    <3>6. l \in limit
      <4>1. MaxRecords + 1 <= MaxRecords + 1 /\ ~(MaxRecords + 1 <= MaxRecords)
        BY <1>3
      <4> HIDE DEF records, count
      <4>2. QED
        BY <3>4, <4>1
    <3>7. <<"line", l>> \in by(n)
      <4> HIDE DEF limit
      <4>1. QED
        BY <3>4, <3>6
    <3> HIDE DEF by, reported, records
    <3>8. QED
      BY <1>5, <2>0, <3>5, <3>7
  <2>2. CASE n \in read \ events
    <3>1. n \in reported
      BY <2>2, Zenon
    <3>2. <<"line", n>> \in by(n)
      OBVIOUS
    <3> HIDE DEF by, reported, records, read, events
    <3>3. QED
      BY <1>5, <2>0, <3>1, <3>2
  <2>3. CASE n \in events
    <3>1. n \in current
      <4>1. SUFFICES ASSUME window # 0 PROVE lines[n].time + window >= Max(times)
        BY <2>3
      <4>2. window > 0
        BY <1>3, <4>1
      <4>3. \A k \in events : ~(lines[k].time > lines[n].time + window)
        <5>1. events = {k \in first(MaxRecords) : lines[k].form = "event"}
          OBVIOUS
        <5> HIDE DEF first, events
        <5>2. QED
          BY <1>6, <2>3, <4>2, <5>1
      <4>4. events \subseteq 1..Len(lines) /\ \A k \in events : lines[k].time \in Int
        BY <1>3
      <4> DEFINE f == [k \in events |-> lines[k].time]
      <4>5. \A k \in events : f[k] = lines[k].time /\ f[k] \in Int
        BY <4>4
      <4> HIDE DEF events, f
      <4>6. PICK m \in events : \A k \in events : f[m] >= f[k]
        BY <1>3, <2>3, <4>4, <4>5, NewestOf
      <4>7. lines[m].time \in times /\ \A y \in times : lines[m].time >= y
        BY <4>5, <4>6
      <4> HIDE DEF times
      <4>8. Max(times) \in times
        BY <4>7 DEF Max
      <4>9. PICK k \in events : Max(times) = lines[k].time
        BY <4>8 DEF times
      <4>10. lines[k].time \in Int /\ lines[n].time \in Int /\ ~(lines[k].time > lines[n].time + window)
        BY <2>3, <4>3, <4>4
      <4>11. QED
        BY <1>3, <4>9, <4>10
    <3> DEFINE q == lines[n].query
               part == analyzeConsumer(<<"query", q>>, {q}, required)
    <3>2. part \in found
      BY <3>1, Zenon
    <3>3. q \in Texts /\ <<"query", q>> \in by(n) /\ x \in Queried(by(n), q)
      BY <1>3, <1>6, <2>0
    <3> HIDE DEF by, q
    <3>4. seen(part, required, x)
      BY <3>3, QueriedSeen
    <3>5. part \in {issues} \cup found
      BY <3>2
    <3> HIDE DEF part, found, issues
    <3>6. QED
      BY <1>1, <3>4, <3>5, MergeSeen
  <2>4. QED
    BY <1>6, <2>1, <2>2, <2>3
<1>7. ASSUME NEW x \in RuntimeUsed(log)
      PROVE  seen(E, required, x)
  <2>1. PICK n \in {n \in records : ~old(n)} : x \in Queried(by(n), lines[n].query)
    BY <1>2, <1>7, Zenon
  <2>2. n \in records /\ ~old(n)
    BY <2>1, Zenon
  <2> HIDE DEF by, old, records
  <2>3. QED
    BY <1>6, <2>1, <2>2
<1>8. QED
  BY <1>7 DEF Seen

(***************************************************************************)
(* Tempo.                                                                  *)
(***************************************************************************)

\* The numbers of a list's entries.
LEMMA ListDomain ==
  ASSUME NEW seq, isList(seq)
  PROVE  Len(seq) \in Nat /\ DOMAIN seq = 1..Len(seq) /\ DOMAIN seq \subseteq Nat
BY DEF isList

\* A query without a gap was read to its end, and names each attribute exactly.
LEMMA TraceRead ==
  ASSUME NEW tokens, isList(tokens), AnalyzeTrace(tokens).unresolved = {},
         NEW t \in Range(tokens), t.kind \notin {"plain", "quoted"}
  PROVE  [kind |-> t.kind, name |-> t.name] \in AnalyzeTrace(tokens).references
<1> DEFINE open == {i \in DOMAIN tokens : tokens[i].kind = "unterminated"}
           read == {tokens[i] : i \in {i \in DOMAIN tokens : \A j \in open : i <= j}}
           exact == {u \in read : u.kind \in {"span", "resource"} /\ u.name # NoName /\ ~u.template}
           quiet == {u \in read : u.kind \in {"plain", "quoted"}}
<1>1. /\ AnalyzeTrace(tokens).references = {[kind |-> u.kind, name |-> u.name] : u \in exact}
      /\ AnalyzeTrace(tokens).unresolved = read \ (exact \cup quiet)
  <2>1. AnalyzeTrace(tokens) = [references |-> {[kind |-> u.kind, name |-> u.name] : u \in exact},
                                unresolved |-> read \ (exact \cup quiet)]
    BY Zenon DEF AnalyzeTrace
  <2> HIDE DEF exact, quiet, read
  <2>2. QED
    BY <2>1
<1>2. open = {}
  <2>1. SUFFICES ASSUME open # {} PROVE FALSE
    OBVIOUS
  <2>2. open \subseteq Nat
    BY ListDomain
  <2>3. PICK i \in open : \A j \in open : i <= j
    <3> HIDE DEF open
    <3>1. QED
      BY <2>1, <2>2, LeastOf
  <2>4. tokens[i] \in read
    BY <2>3, Zenon
  <2>5. tokens[i].kind = "unterminated"
    BY <2>3
  <2>6. tokens[i] \notin exact /\ tokens[i] \notin quiet
    BY <2>5
  <2> HIDE DEF read, exact, quiet
  <2>7. QED
    BY <1>1, <2>4, <2>6
<1>3. t \in read
  BY <1>2 DEF Range
<1>4. t \notin quiet
  OBVIOUS
<1>5. t \in exact
  <2> HIDE DEF read, exact, quiet
  <2>1. QED
    BY <1>1, <1>3, <1>4
<1> HIDE DEF exact
<1>6. QED
  BY <1>1, <1>5

\* The symbols that an attribute of a trace query stands for.
traceUses(t, mappings) ==
  {Symbol(t.kind, t.name, "tempo")}
  \cup {Symbol(t.kind, mappings[m].otel, "otel") :
          m \in {m \in DOMAIN mappings : mappings[m].kind = t.kind /\ mappings[m].tempo = t.name}}

\* An attribute is referred to, and so is what it is mapped to.
LEMMA AttributeRefers ==
  ASSUME NEW t, NEW mappings, isList(mappings),
         \A i, j \in DOMAIN mappings : mappings[i].kind = mappings[j].kind /\ mappings[i].tempo = mappings[j].tempo => i = j,
         NEW s \in traceUses(t, mappings)
  PROVE  \E r \in appendReference([kind |-> t.kind, name |-> t.name], mappings) : Refers(r, s)
<1> DEFINE ref == [kind |-> t.kind, name |-> t.name]
           fits == {i \in DOMAIN mappings : mappings[i].kind = ref.kind /\ mappings[i].tempo = ref.name}
<1>1. \A k, d, n : Refers(TraceReference(k, d, n), Symbol(k, n, d))
  BY DEF Refers, TraceReference, Symbol
<1>2. appendReference(ref, mappings) =
        {TraceReference(ref.kind, "tempo", ref.name)}
        \cup (IF fits = {} THEN {} ELSE {TraceReference(ref.kind, "otel", mappings[Min(fits)].otel)})
  BY Zenon DEF appendReference
<1>3. ref.kind = t.kind /\ ref.name = t.name
  OBVIOUS
<1>4. CASE s = Symbol(t.kind, t.name, "tempo")
  <2> HIDE DEF ref, fits
  <2>1. TraceReference(t.kind, "tempo", t.name) \in appendReference(ref, mappings)
    BY <1>2, <1>3
  <2>2. QED
    BY <1>1, <1>4, <2>1 DEF ref
<1>5. ASSUME NEW m \in fits, s = Symbol(t.kind, mappings[m].otel, "otel")
      PROVE  \E r \in appendReference(ref, mappings) : Refers(r, s)
  <2>1. fits \subseteq Nat
    BY ListDomain
  <2>2. \A i \in fits : i = m
    BY <1>5
  <2> HIDE DEF fits, ref
  <2>3. PICK k \in fits : \A j \in fits : k <= j
    BY <1>5, <2>1, LeastOf
  <2>4. Min(fits) \in fits
    BY <2>3 DEF Min
  <2>5. Min(fits) = m
    BY <2>2, <2>4
  <2>6. TraceReference(t.kind, "otel", mappings[m].otel) \in appendReference(ref, mappings)
    BY <1>2, <1>3, <1>5, <2>5
  <2>7. QED
    BY <1>1, <1>5, <2>6
<1>6. QED
  BY <1>4, <1>5 DEF traceUses

\* A query accounts for each of its attributes, whether Tempo accepts it or not.
LEMMA TempoQuerySeen ==
  ASSUME NEW query, isList(query.tokens), NEW mappings, isList(mappings),
         \A i, j \in DOMAIN mappings : mappings[i].kind = mappings[j].kind /\ mappings[i].tempo = mappings[j].tempo => i = j,
         NEW accepted \in BOOLEAN, NEW required,
         NEW t \in Range(query.tokens), t.kind \notin {"plain", "quoted"}, NEW s \in traceUses(t, mappings)
  PROVE  seen(analyzeQuery(query, accepted, mappings, required), required, demand({<<"tempo", query.id>>}, s))
<1> DEFINE id == <<"tempo", query.id>>
           analysis == AnalyzeTrace(query.tokens)
           gap == ~accepted \/ analysis.unresolved # {}
           E == analyzeQuery(query, accepted, mappings, required)
           of(r) == {[consumer |-> id, symbol |-> x] : x \in appendReference(r, mappings)}
<1>1. /\ E.references = IF accepted THEN UNION {of(r) : r \in analysis.references} ELSE {}
      /\ E.diagnostics = IF gap THEN {[about |-> id, required |-> required]} ELSE {}
  <2>1. E = [consumers |-> {id},
             unresolved |-> IF gap THEN {id} ELSE {},
             references |-> IF accepted THEN UNION {of(r) : r \in analysis.references} ELSE {},
             diagnostics |-> IF gap THEN {[about |-> id, required |-> required]} ELSE {}]
    BY Zenon DEF analyzeQuery
  <2> HIDE DEF E, gap, of, id
  <2>2. QED
    BY <2>1
<1>2. CASE gap
  <2> HIDE DEF E, gap, id
  <2>1. [about |-> id, required |-> required] \in E.diagnostics
    BY <1>1, <1>2
  <2>2. seen(E, required, demand({id}, s))
    BY <2>1 DEF seen, demand
  <2>3. QED
    BY <2>2 DEF E, id
<1>3. CASE ~gap
  <2> DEFINE r == [kind |-> t.kind, name |-> t.name]
  <2>1. r \in analysis.references
    BY <1>3, TraceRead
  <2>2. PICK x \in appendReference(r, mappings) : Refers(x, s)
    BY AttributeRefers
  <2>3. [consumer |-> id, symbol |-> x] \in of(r)
    BY <2>2, Zenon
  <2>4. accepted
    BY <1>3
  <2> HIDE DEF E, gap, of, analysis, id, r
  <2>5. [consumer |-> id, symbol |-> x] \in E.references
    BY <1>1, <2>1, <2>3, <2>4
  <2>6. seen(E, required, demand({id}, s))
    BY <2>2, <2>5 DEF seen, demand
  <2>7. QED
    BY <2>6 DEF E, id
<1>4. QED
  BY <1>2, <1>3

(***************************************************************************)
(* Perses.                                                                 *)
(***************************************************************************)
plainUse(m, u) == [metric |-> m, user |-> u, partial |-> FALSE]

\* What a builder knows of an entry: a diagnostic of one of its endpoints, or
\* every user, with every metric that the entry is about.
accounted(e, origins, metrics, B) ==
  \/ \E o \in origins : o \in B.diagnostics
  \/ /\ ~e.null /\ e.metric # NoName
     /\ \A u \in e.users :
          /\ u.id # NoName
          /\ \E x \in B.uses : x.user = u
          /\ \A m \in metrics : plainUse(m, u) \in B.uses

\* A builder only grows.
within(B, C) == B.uses \subseteq C.uses /\ B.diagnostics \subseteq C.diagnostics

\* An entry that is accounted for stays so.
LEMMA AccountedGrows ==
  ASSUME NEW e, NEW origins, NEW more, origins \subseteq more, NEW metrics,
         NEW B, NEW C, within(B, C), accounted(e, origins, metrics, B)
  PROVE  accounted(e, more, metrics, C)
BY DEF accounted, within

\* A builder is within what it is joined into.
LEMMA JoinHolds ==
  ASSUME NEW parts, NEW B \in parts
  PROVE  within(B, join(parts))
BY DEF within, join

\* The fields of a builder.
LEMMA BuilderFields ==
  ASSUME NEW uses, NEW issues
  PROVE  [uses |-> uses, diagnostics |-> issues].uses = uses /\ [uses |-> uses, diagnostics |-> issues].diagnostics = issues
OBVIOUS

\* A user without an identity is reported, and the others are kept.
LEMMA UsageAdded ==
  ASSUME NEW m, NEW users, NEW origin, NEW partial, NEW A, A = addUsage(m, users, origin, partial)
  PROVE  /\ \/ origin \in A.diagnostics
            \/ \A u \in users : u.id # NoName /\ \E x \in A.uses : x.user = u
         /\ \A x \in A.uses : x.user \in users
<1> DEFINE kept == {u \in users : u.id # NoName}
           use(u) == [metric |-> m, user |-> u, partial |-> partial]
           uses == {use(u) : u \in kept}
           issues == IF \E u \in users : u.id = NoName THEN {origin} ELSE {}
<1>1. A = [uses |-> uses, diagnostics |-> issues]
  BY Zenon DEF addUsage
<1>2. A.uses = uses /\ A.diagnostics = issues
  <2> HIDE DEF uses, issues
  <2>1. QED
    BY <1>1, BuilderFields, Zenon
<1>3. \A u \in kept : use(u) \in A.uses /\ use(u).user = u
  BY <1>2
<1>4. \A x \in A.uses : \E u \in kept : x = use(u)
  BY <1>2, Zenon
<1>5. \A x \in A.uses : x.user \in users
  BY <1>3, <1>4
<1> HIDE DEF uses, use
<1>6. QED
  BY <1>2, <1>3, <1>5

\* The same for plain uses, which are kept.
LEMMA PlainUsageAdded ==
  ASSUME NEW m, NEW users, NEW origin, NEW A, A = addUsage(m, users, origin, FALSE)
  PROVE  /\ \/ origin \in A.diagnostics
            \/ \A u \in users : u.id # NoName /\ plainUse(m, u) \in A.uses
         /\ \A x \in A.uses : x.user \in users
<1> DEFINE kept == {u \in users : u.id # NoName}
           uses == {plainUse(m, u) : u \in kept}
           issues == IF \E u \in users : u.id = NoName THEN {origin} ELSE {}
<1>1. A = [uses |-> uses, diagnostics |-> issues]
  BY Zenon DEF addUsage, plainUse
<1>2. A.uses = uses /\ A.diagnostics = issues
  <2> HIDE DEF uses, issues
  <2>1. QED
    BY <1>1, BuilderFields, Zenon
<1>3. \A u \in kept : plainUse(m, u) \in A.uses /\ plainUse(m, u).user = u
  BY <1>2 DEF plainUse
<1>4. \A x \in A.uses : \E u \in kept : x = plainUse(m, u)
  BY <1>2, Zenon
<1>5. \A x \in A.uses : x.user \in users
  BY <1>3, <1>4
<1>6. QED
  BY <1>2, <1>3, <1>5

\* Every entry of a response for metrics is accounted for.
LEMMA MetricsAdded ==
  ASSUME NEW entries, NEW origin
  PROVE  /\ \A e \in entries : accounted(e, {origin}, {e.metric}, addMetrics(entries, origin))
         /\ \A x \in addMetrics(entries, origin).uses : \E e \in entries : x.user \in e.users
<1> DEFINE part(e) == IF e.metric = NoName \/ e.null THEN addEndpointDiagnostic(origin) ELSE addUsage(e.metric, e.users, origin, FALSE)
           parts == {part(e) : e \in entries}
<1>1. addMetrics(entries, origin) = join(parts)
  BY Zenon DEF addMetrics
<1>2. ASSUME NEW e \in entries
      PROVE  /\ accounted(e, {origin}, {e.metric}, part(e))
             /\ \A x \in part(e).uses : x.user \in e.users
  <2>1. CASE e.metric = NoName \/ e.null
    <3>1. part(e) = addEndpointDiagnostic(origin)
      BY <2>1
    <3>2. part(e).uses = {} /\ part(e).diagnostics = {origin}
      BY <3>1 DEF addEndpointDiagnostic, NothingBuilt
    <3>3. QED
      BY <3>2 DEF accounted
  <2>2. CASE ~(e.metric = NoName \/ e.null)
    <3>1. part(e) = addUsage(e.metric, e.users, origin, FALSE)
      BY <2>2
    <3> HIDE DEF part
    <3>2. QED
      <4>1. /\ \/ origin \in part(e).diagnostics
               \/ \A u \in e.users : u.id # NoName /\ plainUse(e.metric, u) \in part(e).uses
            /\ \A x \in part(e).uses : x.user \in e.users
        BY <3>1, PlainUsageAdded
      <4>2. \A u : plainUse(e.metric, u).user = u
        BY DEF plainUse
      <4>3. QED
        BY <2>2, <4>1, <4>2 DEF accounted
  <2>3. QED
    BY <2>1, <2>2
<1>3. ASSUME NEW e \in entries PROVE accounted(e, {origin}, {e.metric}, join(parts))
  <2>1. part(e) \in parts
    BY Zenon
  <2> HIDE DEF part, parts
  <2>2. QED
    BY <1>2, <2>1, JoinHolds, AccountedGrows
<1>4. ASSUME NEW x \in join(parts).uses PROVE \E e \in entries : x.user \in e.users
  <2>1. PICK p \in parts : x \in p.uses
    BY <1>4 DEF join
  <2>2. PICK e \in entries : p = part(e)
    BY <2>1, Zenon
  <2> HIDE DEF part, parts
  <2>3. QED
    BY <1>2, <2>1, <2>2
<1>5. QED
  BY <1>1, <1>3, <1>4

\* Every entry of a response for partial metrics is accounted for.
LEMMA PartialMetricsAdded ==
  ASSUME NEW entries, NEW origin
  PROVE  /\ \A e \in entries : accounted(e, {origin}, e.matching, addPartialMetrics(entries, origin))
         /\ \A x \in addPartialMetrics(entries, origin).uses : \E e \in entries : x.user \in e.users
<1> DEFINE match(e, m) == IF m = NoName THEN addEndpointDiagnostic(origin) ELSE addUsage(m, e.users, origin, FALSE)
           whole(e) == addUsage(e.metric, e.users, origin, TRUE)
           matched(e) == {whole(e)} \cup {match(e, m) : m \in e.matching}
           part(e) == IF e.metric = NoName \/ e.null THEN {addEndpointDiagnostic(origin)} ELSE matched(e)
           parts == UNION {part(e) : e \in entries}
<1>1. addPartialMetrics(entries, origin) = join(parts)
  BY Zenon DEF addPartialMetrics
<1>2. addEndpointDiagnostic(origin).uses = {} /\ addEndpointDiagnostic(origin).diagnostics = {origin}
  BY DEF addEndpointDiagnostic, NothingBuilt
<1>3. ASSUME NEW e, NEW p, p = whole(e)
      PROVE  /\ \/ origin \in p.diagnostics
                \/ \A u \in e.users : u.id # NoName /\ \E x \in p.uses : x.user = u
             /\ \A x \in p.uses : x.user \in e.users
  <2>1. PICK partial : p = addUsage(e.metric, e.users, origin, partial)
    BY <1>3, Zenon
  <2> HIDE DEF whole
  <2>2. QED
    BY <2>1, UsageAdded
<1>4. ASSUME NEW e \in entries PROVE accounted(e, {origin}, e.matching, join(parts))
  <2>1. \A p \in part(e) : p \in parts
    BY Zenon
  <2>2. CASE e.metric = NoName \/ e.null
    <3>1. part(e) = {addEndpointDiagnostic(origin)}
      BY <2>2
    <3> HIDE DEF part, parts
    <3>2. within(addEndpointDiagnostic(origin), join(parts))
      BY <2>1, <3>1, JoinHolds
    <3>3. QED
      BY <1>2, <3>2 DEF accounted, within
  <2>3. CASE ~(e.metric = NoName \/ e.null)
    <3>1. part(e) = matched(e)
      BY <2>3
    <3>2. whole(e) \in matched(e) /\ \A m \in e.matching : match(e, m) \in matched(e)
      BY Zenon
    <3> HIDE DEF part, parts, matched
    <3>3. within(whole(e), join(parts)) /\ \A m \in e.matching : within(match(e, m), join(parts))
      BY <2>1, <3>1, <3>2, JoinHolds
    <3>4. \/ origin \in whole(e).diagnostics
          \/ \A u \in e.users : u.id # NoName /\ \E x \in whole(e).uses : x.user = u
      BY <1>3, Zenon
    <3>5. ASSUME NEW m \in e.matching
          PROVE  origin \in match(e, m).diagnostics \/ \A u \in e.users : plainUse(m, u) \in match(e, m).uses
      <4>1. CASE m = NoName
        BY <1>2, <4>1
      <4>2. CASE m # NoName
        <5>1. match(e, m) = addUsage(m, e.users, origin, FALSE)
          BY <4>2
        <5> HIDE DEF match
        <5>2. QED
          BY <5>1, PlainUsageAdded
      <4>3. QED
        BY <4>1, <4>2
    <3> HIDE DEF match, whole
    <3>6. QED
      BY <2>3, <3>3, <3>4, <3>5 DEF accounted, within
  <2>4. QED
    BY <2>2, <2>3
<1>5. ASSUME NEW x \in join(parts).uses PROVE \E e \in entries : x.user \in e.users
  <2>1. PICK p \in parts : x \in p.uses
    BY <1>5 DEF join
  <2>2. PICK e \in entries : p \in part(e)
    BY <2>1, Zenon
  <2>3. p # addEndpointDiagnostic(origin)
    BY <1>2, <2>1
  <2>4. p \in matched(e)
    BY <2>2, <2>3
  <2>5. p = whole(e) \/ \E m \in e.matching : p = match(e, m)
    BY <2>4, Zenon
  <2>6. p = whole(e) \/ \E m \in e.matching : p = addUsage(m, e.users, origin, FALSE)
    BY <2>3, <2>5
  <2>7. x.user \in e.users
    <3>1. CASE p = whole(e)
      <4> HIDE DEF whole
      <4>1. QED
        BY <1>3, <2>1, <3>1
    <3>2. CASE \E m \in e.matching : p = addUsage(m, e.users, origin, FALSE)
      BY <2>1, <3>2, PlainUsageAdded
    <3>3. QED
      BY <2>6, <3>1, <3>2
  <2>8. QED
    BY <2>7
<1>6. QED
  BY <1>1, <1>4, <1>5

\* The parts of the evidence that is built.
usesOf(B, id) == {u \in B.uses : consumerOf(u.user) = id}
knownOf(B, id) ==
  [NoEvidence EXCEPT !.consumers = {id},
     !.references = {[consumer |-> id, symbol |-> r] : r \in UNION {addUsageReference(u) : u \in usesOf(B, id)}}]
idsOf(B) == {consumerOf(u.user) : u \in B.uses}
ruleOf(B, id, required) == analyzeRule(id, {u.user.expr : u \in usesOf(B, id)}, required)
issuesOf(B, required) ==
  [NoEvidence EXCEPT !.diagnostics = {[about |-> <<"endpoint", o>>, required |-> required] : o \in B.diagnostics}]
partsOf(B, required) ==
  {knownOf(B, id) : id \in idsOf(B)}
  \cup {ruleOf(B, id, required) : id \in {id \in idsOf(B) : id[1] # "dashboard"}}
  \cup {issuesOf(B, required)}

\* The evidence has a part for every consumer, every rule and the diagnostics.
LEMMA BuiltParts ==
  ASSUME NEW B, NEW required
  PROVE  /\ build(B, required) = merge(partsOf(B, required))
         /\ issuesOf(B, required) \in partsOf(B, required)
         /\ \A x \in B.uses :
              /\ knownOf(B, consumerOf(x.user)) \in partsOf(B, required)
              /\ x.user.kind # "dashboard" => ruleOf(B, consumerOf(x.user), required) \in partsOf(B, required)
<1>1. build(B, required) = merge(partsOf(B, required))
  BY Zenon DEF build, partsOf, knownOf, ruleOf, issuesOf, usesOf, idsOf
<1>2. issuesOf(B, required) \in partsOf(B, required)
  BY Zenon DEF partsOf
<1>3. ASSUME NEW x \in B.uses
      PROVE  /\ knownOf(B, consumerOf(x.user)) \in partsOf(B, required)
             /\ x.user.kind # "dashboard" => ruleOf(B, consumerOf(x.user), required) \in partsOf(B, required)
  <2>1. consumerOf(x.user) \in idsOf(B)
    BY Zenon DEF idsOf
  <2>2. consumerOf(x.user)[1] = x.user.kind
    BY DEF consumerOf
  <2>3. QED
    BY <2>1, <2>2, Zenon DEF partsOf
<1>4. QED
  BY <1>1, <1>2, <1>3

\* A diagnostic of an endpoint is reported.
LEMMA BuildReports ==
  ASSUME NEW B, NEW required, NEW o \in B.diagnostics, NEW d, <<"endpoint", o>> \in d.by
  PROVE  seen(build(B, required), required, d)
<1>1. [about |-> <<"endpoint", o>>, required |-> required] \in issuesOf(B, required).diagnostics
  BY DEF issuesOf, NoEvidence
<1>2. seen(issuesOf(B, required), required, d)
  BY <1>1 DEF seen
<1>3. QED
  BY <1>2, BuiltParts, MergeSeen

\* A use of a metric refers to it, and a dashboard's to all of its labels.
LEMMA BuildRefers ==
  ASSUME NEW B, NEW required, NEW m, NEW u, plainUse(m, u) \in B.uses, NEW d, consumerOf(u) \in d.by,
         \/ d.symbol \in MetricAndLabels(m, {})
         \/ u.kind = "dashboard" /\ d.symbol \in MetricAndLabels(m, Labels)
  PROVE  seen(build(B, required), required, d)
<1> DEFINE use == plainUse(m, u)
           id == consumerOf(u)
           K == knownOf(B, id)
<1>1. use.user = u /\ use.metric = m /\ ~use.partial /\ use.partial = FALSE
  BY DEF plainUse
<1>2. MetricReference(m, FALSE) \in addUsageReference(use)
  <2>1. MetricReference(use.metric, use.partial) \in addUsageReference(use)
    BY Zenon DEF addUsageReference
  <2>2. QED
    BY <1>1, <2>1, Zenon
<1>3. u.kind = "dashboard" => unresolvedSelectorReference(m) \in addUsageReference(use)
  <2> SUFFICES ASSUME u.kind = "dashboard" PROVE unresolvedSelectorReference(use.metric) \in addUsageReference(use)
    BY <1>1, Zenon
  <2>1. use.user.kind = "dashboard" /\ ~use.partial
    BY <1>1
  <2>2. QED
    BY <2>1, Zenon DEF addUsageReference
<1>4. \E r \in addUsageReference(use) : Refers(r, d.symbol)
  <2> HIDE DEF use
  <2>1. CASE d.symbol = Symbol("metric", m, NoName)
    BY <1>2, <2>1, ReferenceRefers, Zenon
  <2>2. ASSUME u.kind = "dashboard", NEW l, d.symbol = Symbol("label", l, m)
        PROVE  \E r \in addUsageReference(use) : Refers(r, d.symbol)
    BY <1>3, <2>2, ReferenceRefers, Zenon
  <2>3. QED
    BY <2>1, <2>2, Zenon DEF MetricAndLabels
<1>5. PICK r \in addUsageReference(use) : Refers(r, d.symbol)
  BY <1>4
<1>6. use \in usesOf(B, id)
  BY <1>1 DEF usesOf
<1>7. r \in UNION {addUsageReference(v) : v \in usesOf(B, id)}
  <2> HIDE DEF use, id
  <2>1. QED
    BY <1>5, <1>6
<1>8. K.references = {[consumer |-> id, symbol |-> y] : y \in UNION {addUsageReference(v) : v \in usesOf(B, id)}}
  BY DEF knownOf, NoEvidence
<1>9. [consumer |-> id, symbol |-> r] \in K.references
  BY <1>7, <1>8, Zenon
<1>10. id \in d.by
  OBVIOUS
<1>11. K \in partsOf(B, required)
  BY <1>1, BuiltParts
<1>12. seen(K, required, d)
  <2> HIDE DEF K, id, use
  <2>1. QED
    BY <1>5, <1>9, <1>10 DEF seen
<1>13. QED
  <2> HIDE DEF K
  <2>1. QED
    BY <1>11, <1>12, BuiltParts, MergeSeen

\* The expression of a rule is analysed, or the rule is reported.
LEMMA BuildAnalyses ==
  ASSUME NEW B, NEW required, NEW U, IsFiniteSet(U), \A x \in B.uses : x.user \in U,
         NEW use \in B.uses, use.user.kind # "dashboard", use.user.expr \in Texts,
         NEW d, consumerOf(use.user) \in d.by, d.symbol \in Used(use.user.expr)
  PROVE  seen(build(B, required), required, d)
<1> DEFINE id == consumerOf(use.user)
           exprs == {x.user.expr : x \in usesOf(B, id)}
           R == ruleOf(B, id, required)
           e == CHOOSE y \in exprs : TRUE
           one == analyzeConsumer(id, {e}, required)
<1>1. use.user.expr \in exprs
  BY DEF usesOf
<1>2. R = IF Cardinality(exprs) = 1 THEN one
          ELSE [one EXCEPT !.unresolved = {id}, !.diagnostics = {[about |-> id, required |-> required]}]
  BY Zenon DEF ruleOf, analyzeRule
<1>3. CASE Cardinality(exprs) = 1
  <2>1. IsFiniteSet(exprs)
    <3>1. IsFiniteSet({v.expr : v \in U})
      <4> DEFINE T == {v.expr : v \in U}
                 f == [v \in U |-> v.expr]
      <4>1. f \in Surjection(U, T)
        BY DEF Surjection
      <4> HIDE DEF T, f
      <4>2. IsFiniteSet(T)
        BY <4>1, FS_Surjection
      <4>3. QED
        BY <4>2 DEF T
    <3>2. exprs \subseteq {v.expr : v \in U}
      BY DEF usesOf
    <3>3. QED
      BY <3>1, <3>2, FS_Subset
  <2> HIDE DEF exprs
  <2>2. \E y : exprs = {y}
    BY <1>3, <2>1, FS_Singleton
  <2>3. e = use.user.expr
    BY <1>1, <2>2
  <2>4. R = analyzeConsumer(id, {use.user.expr}, required)
    BY <1>2, <1>3, <2>3
  <2> HIDE DEF R, one
  <2>5. seen(R, required, demand(d.by, d.symbol))
    BY <2>4, ConsumerSeen
  <2>6. seen(R, required, d)
    BY <2>5 DEF seen, demand
  <2>7. QED
    BY <2>6, BuiltParts, MergeSeen DEF R
<1>4. CASE Cardinality(exprs) # 1
  <2>1. R.diagnostics = {[about |-> id, required |-> required]}
    BY <1>2, <1>4 DEF analyzeConsumer
  <2> HIDE DEF R, one, exprs
  <2>2. seen(R, required, d)
    BY <2>1 DEF seen
  <2>3. QED
    BY <2>2, BuiltParts, MergeSeen DEF R
<1>5. QED
  BY <1>3, <1>4

\* What an entry demands, told by at.
usedBy(u, metrics) ==
  IF u.kind = "dashboard" THEN UNION {MetricAndLabels(m, Labels) : m \in metrics}
  ELSE (UNION {MetricAndLabels(m, {}) : m \in metrics}) \cup Used(u.expr)
entryUsed(e, at, metrics) ==
  IF e.null \/ e.metric = NoName THEN {demand(at, Symbol("metric", e.metric, NoName))}
  ELSE UNION {{demand(at \cup {consumerOf(u)}, s) : s \in usedBy(u, metrics)} : u \in e.users}

\* An entry that is accounted for is seen in the evidence.
LEMMA EntrySeen ==
  ASSUME NEW B, NEW required, NEW U, IsFiniteSet(U), \A x \in B.uses : x.user \in U,
         NEW e, \A u \in e.users : u.expr \in Texts,
         NEW origins, NEW metrics, accounted(e, origins, metrics, B),
         NEW at, \A o \in origins : <<"endpoint", o>> \in at
  PROVE  Seen(build(B, required), required, entryUsed(e, at, metrics))
<1> SUFFICES ASSUME NEW d \in entryUsed(e, at, metrics) PROVE seen(build(B, required), required, d)
  BY DEF Seen
<1>1. ASSUME ~(e.null \/ e.metric = NoName)
      PROVE  \E u \in e.users : \E s \in usedBy(u, metrics) : d = demand(at \cup {consumerOf(u)}, s)
  BY <1>1, Zenon DEF entryUsed
<1>2. at \subseteq d.by
  <2>1. CASE e.null \/ e.metric = NoName
    <3>1. d = demand(at, Symbol("metric", e.metric, NoName))
      BY <2>1, Zenon DEF entryUsed
    <3>2. QED
      BY <3>1 DEF demand
  <2>2. CASE ~(e.null \/ e.metric = NoName)
    <3>1. PICK u \in e.users : \E s \in usedBy(u, metrics) : d = demand(at \cup {consumerOf(u)}, s)
      BY <1>1, <2>2
    <3>2. QED
      BY <3>1 DEF demand
  <2>3. QED
    BY <2>1, <2>2
<1>3. CASE \E o \in origins : o \in B.diagnostics
  BY <1>2, <1>3, BuildReports
<1>4. CASE ~\E o \in origins : o \in B.diagnostics
  <2>1. /\ ~(e.null \/ e.metric = NoName)
        /\ \A u \in e.users :
             /\ u.id # NoName
             /\ \E x \in B.uses : x.user = u
             /\ \A m \in metrics : plainUse(m, u) \in B.uses
    BY <1>4 DEF accounted
  <2>2. PICK u \in e.users : \E s \in usedBy(u, metrics) : d = demand(at \cup {consumerOf(u)}, s)
    BY <1>1, <2>1
  <2>3. d.symbol \in usedBy(u, metrics) /\ consumerOf(u) \in d.by
    BY <2>2 DEF demand
  <2>4. CASE u.kind = "dashboard"
    <3>1. PICK m \in metrics : d.symbol \in MetricAndLabels(m, Labels)
      BY <2>3, <2>4, Zenon DEF usedBy
    <3>2. QED
      BY <2>1, <2>3, <2>4, <3>1, BuildRefers
  <2>5. CASE u.kind # "dashboard" /\ d.symbol \in Used(u.expr)
    <3>1. PICK x \in B.uses : x.user = u
      BY <2>1
    <3>2. x.user.kind # "dashboard" /\ x.user.expr \in Texts /\ consumerOf(x.user) \in d.by /\ d.symbol \in Used(x.user.expr)
      BY <2>3, <2>5, <3>1
    <3>3. QED
      BY <3>2, BuildAnalyses
  <2>6. CASE u.kind # "dashboard" /\ d.symbol \notin Used(u.expr)
    <3>1. PICK m \in metrics : d.symbol \in MetricAndLabels(m, {})
      BY <2>3, <2>6, Zenon DEF usedBy
    <3>2. QED
      BY <2>1, <2>3, <3>1, BuildRefers
  <2>7. QED
    BY <2>4, <2>5, <2>6
<1>5. QED
  BY <1>3, <1>4

(***************************************************************************)
(* The inductive invariant.                                                *)
(***************************************************************************)
Endpoints == {"metrics", "partial_metrics", "pending_usages"}
OwnershipSteps == {"ownership", "metadata", "files", "codeowners", "open", "consumers"}
usersOf(listed) == UNION {e.users : e \in DOMAIN listed}

\* Each part of the code is reached for its kind of source only.
StepsInv ==
  /\ task \in Tasks
  /\ pc = "load" => task.kind \in FileKinds
  /\ pc \in Endpoints => task.kind = "perses"
  /\ pc \in {"manifest", "query"} => task.kind = "tempo"
  /\ pc \in OwnershipSteps => task.kind \notin FileKinds \cup {"perses", "tempo"}

\* An entry that the service lists under an endpoint that was asked is
\* accounted for, unless it left the pending ones: the service may move an
\* entry to the pending ones, which are asked for last, but not take it out of
\* the partial ones.
PersesInv ==
  /\ DOMAIN service = DOMAIN Input.service
  /\ \A e \in DOMAIN service :
       /\ service[e] \in Endpoints
       /\ service[e] = "partial_metrics" <=> Input.service[e] = "partial_metrics"
  /\ \A x \in built.uses : x.user \in usersOf(Input.service)
  /\ pc \in {"partial_metrics", "pending_usages"} =>
       \A e \in DOMAIN service \ resolved :
         service[e] = "metrics" => accounted(e, {"metrics"}, {e.metric}, built)
  /\ pc = "pending_usages" =>
       \A e \in DOMAIN service :
         service[e] = "partial_metrics" => accounted(e, {"partial_metrics"}, e.matching, built)

\* The queries that have been dealt with are seen.
queryUsed(q, mappings) ==
  UNION {{demand({<<"tempo", q.id>>}, s) : s \in traceUses(t, mappings)} :
           t \in {t \in Range(q.tokens) : t.kind \notin {"plain", "quoted"}}}
TempoInv ==
  /\ pc = "manifest" => position = 0
  /\ pc = "query" =>
       /\ position \in 0..Len(Input.queries)
       /\ \A i \in 1..position : Seen(evidence, task.required, queryUsed(Input.queries[i], Input.mappings))

AdaptersInv ==
  /\ StepsInv
  /\ task.kind = "perses" => PersesInv
  /\ task.kind = "tempo" => TempoInv
  /\ EveryUseIsSeen

\* What a source demands, by its kind.
LEMMA DemandsByKind ==
  /\ task.kind = "rules" => Demands = RulesUsed(Input)
  /\ task.kind = "dashboard" => Demands = DashboardUsed(Input)
  /\ task.kind = "keda" => Demands = ItemsUsed("trigger", Input)
  /\ task.kind = "argo" => Demands = ItemsUsed("gate", Input)
  /\ task.kind = "sloth" => Demands = SLOsUsed(Input.slos)
  /\ task.kind = "pyrra" => Demands = SLOsUsed(Input)
  /\ task.kind = "hpa" => Demands = HPAUsed(Input)
  /\ task.kind = "runtime" => Demands = RuntimeUsed(Input)
  /\ task.kind = "perses" => Demands = PersesUsed(Input.service, service, resolved)
  /\ task.kind = "tempo" => Demands = TempoUsed(Input)
  /\ task.kind \notin FileKinds \cup {"perses", "tempo"} => Demands = {}
BY DEF Demands, FileKinds

\* Only the task and the Perses service decide on the demands.
LEMMA DemandsStay ==
  ASSUME task' = task, service' = service, resolved' = resolved
  PROVE  Demands' = Demands
BY DEF Demands, Input

\* EveryUseIsSeen, by Seen.
LEMMA EveryUseSeen ==
  /\ EveryUseIsSeen <=> (pc = "done" => Seen(evidence, task.required, Demands))
  /\ EveryUseIsSeen' <=> (pc' = "done" => Seen(evidence', (task.required)', Demands'))
BY Zenon DEF EveryUseIsSeen, Seen, seen

\* The initial states.
LEMMA InitAdapters == Init => AdaptersInv
<1> SUFFICES ASSUME Init PROVE AdaptersInv
  OBVIOUS
<1>1. /\ task \in Tasks
      /\ pc = CASE task.kind \in FileKinds -> "load"
                [] task.kind = "perses" -> "metrics"
                [] task.kind = "tempo" -> "manifest"
                [] OTHER -> "ownership"
      /\ position = 0 /\ built = NothingBuilt
      /\ task.kind = "perses" => service = Input.service
  BY DEF Init
<1>2. "perses" \notin FileKinds /\ "tempo" \notin FileKinds
  BY DEF FileKinds
<1>3. pc # "done"
  BY <1>1
<1>4. StepsInv
  BY <1>1, <1>2 DEF StepsInv, Endpoints, OwnershipSteps
<1>5. ASSUME task.kind = "perses" PROVE PersesInv
  <2>1. pc = "metrics" /\ service = Input.service
    BY <1>1, <1>2, <1>5
  <2>2. persesInput(Input.service)
    BY <1>1, <1>5, TasksAssumption DEF Input
  <2>3. built.uses = {}
    BY <1>1 DEF NothingBuilt
  <2>4. QED
    BY <2>1, <2>2, <2>3 DEF PersesInv, persesInput, Endpoints
<1>6. ASSUME task.kind = "tempo" PROVE TempoInv
  BY <1>1, <1>2, <1>6 DEF TempoInv
<1>7. QED
  BY <1>3, <1>4, <1>5, <1>6 DEF AdaptersInv, EveryUseIsSeen

\* A file adapter, when what it finds accounts for what the file demands.
LEMMA FileLoaded ==
  ASSUME AdaptersInv, NEW kind \in FileKinds, NEW found, LoadFile(kind, found),
         task.kind = kind => \A E \in found : Seen(E, task.required, Demands)
  PROVE  AdaptersInv'
<1>1. /\ pc = "load" /\ task.kind = kind
      /\ pc' = "error" \/ (pc' = "done" /\ evidence' \in found)
      /\ task' = task /\ service' = service /\ resolved' = resolved
  BY DEF LoadFile, perses
<1>2. Demands' = Demands
  BY <1>1, DemandsStay
<1>3. task.kind # "perses" /\ task.kind # "tempo"
  BY <1>1 DEF FileKinds
<1>4. EveryUseIsSeen'
  BY <1>1, <1>2, EveryUseSeen
<1>5. StepsInv'
  BY <1>1 DEF AdaptersInv, StepsInv, Endpoints, OwnershipSteps
<1>6. QED
  BY <1>1, <1>3, <1>4, <1>5 DEF AdaptersInv

\* The file adapters.
LEMMA FileSteps ==
  ASSUME AdaptersInv,
         \/ LoadRules \/ LoadDashboard \/ LoadScaledObjects \/ LoadTemplates
         \/ LoadSloth \/ LoadPyrra \/ LoadHPA \/ LoadRuntimeQueries
  PROVE  AdaptersInv'
<1> DEFINE required == task.required
<1>0. task \in Tasks
  BY DEF AdaptersInv, StepsInv
<1>1. CASE LoadRules
  <2>1. task.kind = "rules" => \A E \in parseRules(Input, required) : Seen(E, required, Demands)
    BY <1>0, TasksAssumption, RulesSeen, DemandsByKind DEF Input
  <2>2. QED
    BY <1>1, <2>1, FileLoaded DEF LoadRules, FileKinds
<1>2. CASE LoadDashboard
  <2>1. task.kind = "dashboard" => \A E \in parseDashboard(Input, required) : Seen(E, required, Demands)
    BY <1>0, TasksAssumption, DashboardSeen, DemandsByKind DEF Input
  <2>2. QED
    BY <1>2, <2>1, FileLoaded DEF LoadDashboard, FileKinds
<1>3. CASE LoadScaledObjects
  <2> DEFINE found == parseManifest(Input, [d \in DOMAIN Input |-> discoverScaledObject(Input[d], d, required)])
  <2>1. task.kind = "keda" => \A E \in found : Seen(E, required, Demands)
    BY <1>0, TasksAssumption, ScaledObjectsSeen, DemandsByKind DEF Input
  <2>2. LoadFile("keda", found)
    BY <1>3, Zenon DEF LoadScaledObjects
  <2> HIDE DEF found
  <2>3. QED
    BY <2>1, <2>2, FileLoaded DEF FileKinds
<1>4. CASE LoadTemplates
  <2> DEFINE found == parseManifest(Input, [d \in DOMAIN Input |-> discoverTemplate(Input[d], d, required)])
  <2>1. task.kind = "argo" => \A E \in found : Seen(E, required, Demands)
    BY <1>0, TasksAssumption, TemplatesSeen, DemandsByKind DEF Input
  <2>2. LoadFile("argo", found)
    BY <1>4, Zenon DEF LoadTemplates
  <2> HIDE DEF found
  <2>3. QED
    BY <2>1, <2>2, FileLoaded DEF FileKinds
<1>5. CASE LoadSloth
  <2>1. task.kind = "sloth" => \A E \in parseSloth(Input.service, Input.slos, required) : Seen(E, required, Demands)
    BY <1>0, TasksAssumption, SLOsSeen, DemandsByKind DEF Input
  <2>2. QED
    BY <1>5, <2>1, FileLoaded DEF LoadSloth, FileKinds
<1>6. CASE LoadPyrra
  <2>1. task.kind = "pyrra" => \A E \in parsePyrra(Input, required) : Seen(E, required, Demands)
    BY <1>0, TasksAssumption, SLOsSeen, DemandsByKind DEF Input
  <2>2. QED
    BY <1>6, <2>1, FileLoaded DEF LoadPyrra, FileKinds
<1>7. CASE LoadHPA
  <2> DEFINE manifest == parseManifest(Input.documents, [d \in DOMAIN Input.documents |->
                           discoverHPA(Input.documents[d], d, Input.mapping, required)])
             found == IF ~validateMapping(Input.mapping) THEN {} ELSE manifest
  <2>1. task.kind = "hpa" => \A E \in manifest : Seen(E, required, Demands)
    BY HPASeen, DemandsByKind
  <2>2. LoadFile("hpa", found)
    BY <1>7, Zenon DEF LoadHPA
  <2> HIDE DEF manifest
  <2>3. task.kind = "hpa" => \A E \in found : Seen(E, required, Demands)
    BY <2>1
  <2> HIDE DEF found
  <2>4. QED
    BY <2>2, <2>3, FileLoaded DEF FileKinds
<1>8. CASE LoadRuntimeQueries
  <2>1. task.kind = "runtime" => \A E \in parseRuntimeQueries(Input.lines, Input.window, required) : Seen(E, required, Demands)
    BY <1>0, TasksAssumption, RuntimeSeen, DemandsByKind DEF Input
  <2>2. QED
    BY <1>8, <2>1, FileLoaded DEF LoadRuntimeQueries, FileKinds
<1>9. QED
  BY <1>1, <1>2, <1>3, <1>4, <1>5, <1>6, <1>7, <1>8

\* A step of somebody else, or none.
LEMMA QuietStep ==
  ASSUME AdaptersInv, UNCHANGED <<task, pc, evidence, position, built, service, resolved>>
  PROVE  AdaptersInv'
<1>1. Demands' = Demands
  BY DemandsStay
<1>2. EveryUseIsSeen'
  BY <1>1, EveryUseSeen DEF AdaptersInv
<1>3. StepsInv'
  BY DEF AdaptersInv, StepsInv
<1>4. task.kind = "perses" => PersesInv'
  BY DEF AdaptersInv, PersesInv, Input
<1>5. task.kind = "tempo" => TempoInv'
  BY DEF AdaptersInv, TempoInv, Input
<1>6. QED
  BY <1>2, <1>3, <1>4, <1>5 DEF AdaptersInv

\* Ownership demands nothing of the evidence.
LEMMA OwnershipStep ==
  ASSUME AdaptersInv, pc \in OwnershipSteps, pc' \in OwnershipSteps \cup {"done", "error"},
         task' = task, service' = service, resolved' = resolved
  PROVE  AdaptersInv'
<1>1. task.kind \notin FileKinds \cup {"perses", "tempo"}
  BY DEF AdaptersInv, StepsInv
<1>2. Demands' = {}
  BY <1>1, DemandsStay, DemandsByKind
<1>3. EveryUseIsSeen'
  BY <1>2, EveryUseSeen DEF Seen
<1>4. StepsInv'
  BY <1>1 DEF AdaptersInv, StepsInv, OwnershipSteps, Endpoints
<1>5. QED
  BY <1>1, <1>3, <1>4 DEF AdaptersInv

\* The ownership actions.
LEMMA OwnershipKept ==
  ASSUME AdaptersInv,
         StartOwnership \/ LoadMetadataRules \/ LoadMetadataFile \/ FindCodeowners \/ OpenCodeowners \/ EnrichConsumer
  PROVE  AdaptersInv'
<1>1. CASE StartOwnership
  <2>1. pc = "ownership" /\ pc' \in {"done", "error", "metadata"} /\ UNCHANGED <<task, service, resolved>>
    BY <1>1 DEF StartOwnership, perses
  <2>2. QED
    BY <2>1, OwnershipStep DEF OwnershipSteps
<1>2. CASE LoadMetadataRules
  <2>1. pc = "metadata" /\ pc' \in {"codeowners", "files"} /\ UNCHANGED <<task, service, resolved>>
    BY <1>2, Zenon DEF LoadMetadataRules, perses
  <2>2. QED
    BY <2>1, OwnershipStep DEF OwnershipSteps
<1>3. CASE FindCodeowners
  <2>1. pc = "codeowners" /\ pc' \in {"consumers", "open"} /\ UNCHANGED <<task, service, resolved>>
    BY <1>3, Zenon DEF FindCodeowners, perses
  <2>2. QED
    BY <2>1, OwnershipStep DEF OwnershipSteps
<1>4. CASE OpenCodeowners
  <2>1. pc = "open" /\ pc' = "consumers" /\ UNCHANGED <<task, service, resolved>>
    BY <1>4, Zenon DEF OpenCodeowners, perses
  <2>2. QED
    BY <2>1, OwnershipStep DEF OwnershipSteps
<1>5. CASE EnrichConsumer
  <2>1. pc = "consumers" /\ pc' \in {"done", "error", pc} /\ UNCHANGED <<task, service, resolved>>
    BY <1>5, Zenon DEF EnrichConsumer, perses
  <2>2. QED
    BY <2>1, OwnershipStep DEF OwnershipSteps
<1>6. CASE LoadMetadataFile
  <2>1. pc = "files" /\ pc' \in {"metadata", "files"} /\ UNCHANGED <<task, service, resolved>>
    BY <1>6, Zenon DEF LoadMetadataFile, perses
  <2>2. QED
    BY <2>1, OwnershipStep DEF OwnershipSteps
<1>7. QED
  BY <1>1, <1>2, <1>3, <1>4, <1>5, <1>6

\* Two builders joined.
LEMMA JoinTwo ==
  ASSUME NEW B, NEW C
  PROVE  /\ within(B, join({B, C})) /\ within(C, join({B, C}))
         /\ \A x \in join({B, C}).uses : x \in B.uses \/ x \in C.uses
<1>1. within(B, join({B, C})) /\ within(C, join({B, C}))
  BY JoinHolds
<1>2. QED
  BY <1>1 DEF join

\* A request that fails leaves its diagnostic.
LEMMA FailureAccounted ==
  ASSUME NEW origin
  PROVE  /\ addEndpointDiagnostic(origin).uses = {}
         /\ \A e, metrics : accounted(e, {origin}, metrics, addEndpointDiagnostic(origin))
BY DEF addEndpointDiagnostic, NothingBuilt, accounted

\* The entries of a response are entries of the service, and so are its users.
LEMMA ResponseUsers ==
  ASSUME PersesInv, NEW endpoint, NEW B, \A x \in B.uses : \E e \in Response(endpoint) : x.user \in e.users
  PROVE  \A x \in B.uses : x.user \in usersOf(Input.service)
<1> SUFFICES ASSUME NEW x \in B.uses PROVE x.user \in usersOf(Input.service)
  OBVIOUS
<1>1. PICK e \in Response(endpoint) : x.user \in e.users
  OBVIOUS
<1>2. e \in DOMAIN Input.service
  BY <1>1 DEF Response, PersesInv
<1>3. QED
  BY <1>1, <1>2 DEF usersOf

\* The first request accounts for the metrics.
LEMMA MetricsRequested ==
  ASSUME AdaptersInv, GetMetrics
  PROVE  AdaptersInv'
<1>1. pc = "metrics" /\ UNCHANGED <<task, service, resolved>>
  BY DEF GetMetrics
<1>2. task.kind = "perses" /\ PersesInv
  BY <1>1 DEF AdaptersInv, StepsInv, Endpoints
<1>3. pc' \in {"error", "partial_metrics"}
  BY DEF GetMetrics
<1>4. StepsInv'
  BY <1>1, <1>2, <1>3 DEF AdaptersInv, StepsInv, Endpoints, OwnershipSteps
<1>5. CASE pc' = "error" /\ built' = built
  BY <1>1, <1>2, <1>4, <1>5 DEF AdaptersInv, PersesInv, EveryUseIsSeen, Input
<1>6. CASE pc' = "partial_metrics" /\ built' = addMetrics(Response("metrics"), "metrics")
  <2>1. \A e \in Response("metrics") : accounted(e, {"metrics"}, {e.metric}, built')
    BY <1>6, MetricsAdded
  <2>2. \A x \in built'.uses : x.user \in usersOf(Input.service)
    BY <1>2, <1>6, MetricsAdded, ResponseUsers
  <2>3. PersesInv'
    BY <1>1, <1>2, <1>6, <2>1, <2>2 DEF PersesInv, Response, Input
  <2>4. QED
    BY <1>1, <1>2, <1>4, <1>6, <2>3 DEF AdaptersInv, EveryUseIsSeen
<1>7. QED
  BY <1>5, <1>6, Zenon DEF GetMetrics

\* The second one accounts for the partial metrics, if only by a diagnostic.
LEMMA PartialMetricsRequested ==
  ASSUME AdaptersInv, GetPartialMetrics
  PROVE  AdaptersInv'
<1>1. pc = "partial_metrics" /\ pc' = "pending_usages" /\ UNCHANGED <<task, service, resolved>>
  BY DEF GetPartialMetrics
<1>2. task.kind = "perses" /\ PersesInv
  BY <1>1 DEF AdaptersInv, StepsInv, Endpoints
<1>3. StepsInv'
  BY <1>1, <1>2 DEF AdaptersInv, StepsInv, Endpoints, OwnershipSteps
<1>4. PICK part : /\ built' = join({built, part})
                  /\ \A e \in Response("partial_metrics") : accounted(e, {"partial_metrics"}, e.matching, part)
                  /\ \A x \in part.uses : x.user \in usersOf(Input.service)
  <2>1. CASE built' = join({built, addEndpointDiagnostic("partial_metrics")})
    BY <2>1, FailureAccounted
  <2>2. CASE built' = join({built, addPartialMetrics(Response("partial_metrics"), "partial_metrics")})
    <3> DEFINE part == addPartialMetrics(Response("partial_metrics"), "partial_metrics")
    <3>1. /\ \A e \in Response("partial_metrics") : accounted(e, {"partial_metrics"}, e.matching, part)
          /\ \A x \in part.uses : \E e \in Response("partial_metrics") : x.user \in e.users
      BY PartialMetricsAdded
    <3>2. \A x \in part.uses : x.user \in usersOf(Input.service)
      BY <1>2, <3>1, ResponseUsers
    <3>3. QED
      BY <2>2, <3>1, <3>2
  <2>3. QED
    BY <2>1, <2>2, Zenon DEF GetPartialMetrics
<1>5. within(built, built') /\ within(part, built') /\ \A x \in built'.uses : x \in built.uses \/ x \in part.uses
  BY <1>4, JoinTwo
<1>6. \A e \in Response("partial_metrics") : accounted(e, {"partial_metrics"}, e.matching, built')
  BY <1>4, <1>5, AccountedGrows
<1>7. \A e \in DOMAIN service \ resolved : service[e] = "metrics" => accounted(e, {"metrics"}, {e.metric}, built')
  BY <1>1, <1>2, <1>5, AccountedGrows DEF PersesInv
<1>8. PersesInv'
  BY <1>1, <1>2, <1>4, <1>5, <1>6, <1>7 DEF PersesInv, Response, Input
<1>9. QED
  BY <1>1, <1>2, <1>3, <1>8 DEF AdaptersInv, EveryUseIsSeen

\* What the Perses service demands, entry by entry.
LEMMA PersesDemands ==
  ASSUME NEW first, NEW now, NEW gone, NEW d \in PersesUsed(first, now, gone)
  PROVE  \E e \in DOMAIN now \ gone :
           d \in entryUsed(e, {<<"endpoint", first[e]>>, <<"endpoint", now[e]>>},
                           e.matching \cup (IF first[e] = "partial_metrics" THEN {} ELSE {e.metric}))
<1> DEFINE of(e) == entryUsed(e, {<<"endpoint", first[e]>>, <<"endpoint", now[e]>>},
                              e.matching \cup (IF first[e] = "partial_metrics" THEN {} ELSE {e.metric}))
<1>1. PersesUsed(first, now, gone) = UNION {of(e) : e \in DOMAIN now \ gone}
  BY Zenon DEF PersesUsed, entryUsed, usedBy, demand
<1> HIDE DEF of
<1>2. \E e \in DOMAIN now \ gone : d \in of(e)
  BY <1>1
<1>3. QED
  BY <1>2 DEF of

\* The last one accounts for the rest.
LEMMA PendingUsagesRequested ==
  ASSUME AdaptersInv, GetPendingUsages
  PROVE  AdaptersInv'
<1>1. pc = "pending_usages" /\ pc' = "done" /\ UNCHANGED <<task, service, resolved>>
  BY DEF GetPendingUsages
<1>2. task.kind = "perses" /\ PersesInv /\ task \in Tasks
  BY <1>1 DEF AdaptersInv, StepsInv, Endpoints
<1>3. StepsInv'
  BY <1>1, <1>2 DEF AdaptersInv, StepsInv, Endpoints, OwnershipSteps
<1>4. PICK last : /\ built' = join({built, last}) /\ evidence' = build(built', task.required)
                  /\ \A e \in Response("pending_usages") : accounted(e, {"pending_usages"}, {e.metric}, last)
                  /\ \A x \in last.uses : x.user \in usersOf(Input.service)
  <2>1. PICK last \in {addEndpointDiagnostic("pending_usages"),
                       addPendingUsage(Response("pending_usages"), "pending_usages")} :
          built' = join({built, last}) /\ evidence' = build(built', task.required)
    BY Zenon DEF GetPendingUsages
  <2>2. CASE last = addEndpointDiagnostic("pending_usages")
    BY <2>1, <2>2, FailureAccounted
  <2>3. CASE last = addPendingUsage(Response("pending_usages"), "pending_usages")
    <3>1. last = addMetrics(Response("pending_usages"), "pending_usages")
      BY <2>3 DEF addPendingUsage
    <3>2. /\ \A e \in Response("pending_usages") : accounted(e, {"pending_usages"}, {e.metric}, last)
          /\ \A x \in last.uses : \E e \in Response("pending_usages") : x.user \in e.users
      BY <3>1, MetricsAdded
    <3>3. \A x \in last.uses : x.user \in usersOf(Input.service)
      BY <1>2, <3>2, ResponseUsers
    <3>4. QED
      BY <2>1, <3>2, <3>3
  <2>4. QED
    BY <2>1, <2>2, <2>3
<1>5. within(built, built') /\ within(last, built') /\ \A x \in built'.uses : x \in built.uses \/ x \in last.uses
  BY <1>4, JoinTwo
<1>6. \A x \in built'.uses : x.user \in usersOf(Input.service)
  BY <1>2, <1>4, <1>5 DEF PersesInv
<1>7. PersesInv'
  BY <1>1, <1>2, <1>6 DEF PersesInv, Input
<1>8. persesInput(Input.service)
  BY <1>2, TasksAssumption DEF Input
<1>9. ASSUME NEW e \in DOMAIN service \ resolved
      PROVE  accounted(e, {service[e]}, e.matching \cup (IF Input.service[e] = "partial_metrics" THEN {} ELSE {e.metric}), built')
  <2> DEFINE metrics == e.matching \cup (IF Input.service[e] = "partial_metrics" THEN {} ELSE {e.metric})
  <2>1. CASE service[e] = "partial_metrics"
    <3>1. metrics = e.matching
      BY <1>2, <2>1 DEF PersesInv
    <3>2. accounted(e, {"partial_metrics"}, e.matching, built')
      BY <1>1, <1>2, <1>5, <2>1, AccountedGrows DEF PersesInv
    <3>3. QED
      BY <2>1, <3>1, <3>2
  <2>2. CASE service[e] # "partial_metrics"
    <3>1. metrics = {e.metric}
      BY <1>2, <1>8, <2>2 DEF PersesInv, persesInput
    <3>2. accounted(e, {service[e]}, {e.metric}, built')
      <4>1. CASE service[e] = "metrics"
        BY <1>1, <1>2, <1>5, <4>1, AccountedGrows DEF PersesInv
      <4>2. CASE service[e] = "pending_usages"
        BY <1>4, <1>5, <4>2, AccountedGrows DEF Response
      <4>3. QED
        BY <1>2, <2>2, <4>1, <4>2 DEF PersesInv, Endpoints
    <3>3. QED
      BY <3>1, <3>2
  <2>3. QED
    BY <2>1, <2>2
<1>10. ASSUME NEW d \in PersesUsed(Input.service, service, resolved)
       PROVE  seen(build(built', task.required), task.required, d)
  <2> DEFINE at(e) == {<<"endpoint", Input.service[e]>>, <<"endpoint", service[e]>>}
             metrics(e) == e.matching \cup (IF Input.service[e] = "partial_metrics" THEN {} ELSE {e.metric})
  <2>1. PICK e \in DOMAIN service \ resolved : d \in entryUsed(e, at(e), metrics(e))
    BY <1>10, PersesDemands
  <2>2. accounted(e, {service[e]}, metrics(e), built')
    BY <1>9
  <2>3. \A u \in e.users : u.expr \in Texts
    BY <1>2, <1>8 DEF PersesInv, persesInput
  <2>4. IsFiniteSet(usersOf(Input.service))
    BY <1>8 DEF persesInput, usersOf
  <2>5. \A o \in {service[e]} : <<"endpoint", o>> \in at(e)
    OBVIOUS
  <2> HIDE DEF at, metrics
  <2>6. Seen(build(built', task.required), task.required, entryUsed(e, at(e), metrics(e)))
    BY <1>6, <2>2, <2>3, <2>4, <2>5, EntrySeen
  <2>7. QED
    BY <2>1, <2>6 DEF Seen
<1>11. EveryUseIsSeen'
  <2>1. Demands' = PersesUsed(Input.service, service, resolved)
    BY <1>1, <1>2, DemandsStay, DemandsByKind
  <2>2. QED
    BY <1>1, <1>4, <1>10, <2>1, EveryUseSeen DEF Seen
<1>12. QED
  BY <1>1, <1>2, <1>3, <1>7, <1>11 DEF AdaptersInv

\* An entry that becomes pending is yet to come; one that leaves is no demand.
LEMMA ServiceMoved ==
  ASSUME AdaptersInv, ServiceMoves
  PROVE  AdaptersInv'
<1>1. pc \in Endpoints /\ UNCHANGED <<task, pc, built>>
  BY DEF ServiceMoves, Endpoints
<1>2. task.kind = "perses" /\ PersesInv
  BY <1>1 DEF AdaptersInv, StepsInv
<1>3. StepsInv'
  BY <1>1, <1>2 DEF AdaptersInv, StepsInv, Endpoints, OwnershipSteps
<1>4. PICK e \in DOMAIN service :
        /\ service[e] # "partial_metrics"
        /\ service' = [service EXCEPT ![e] = IF service[e] = "metrics" THEN "pending_usages" ELSE "metrics"]
        /\ resolved' = IF service[e] = "pending_usages" THEN resolved \cup {e} ELSE resolved
  BY DEF ServiceMoves
<1>5. service[e] \in {"metrics", "pending_usages"}
  BY <1>2, <1>4 DEF PersesInv, Endpoints
<1>6. /\ DOMAIN service' = DOMAIN service
      /\ resolved \subseteq resolved'
      /\ \A x \in DOMAIN service : x # e => service'[x] = service[x]
      /\ service[e] = "metrics" => service'[e] = "pending_usages"
      /\ service[e] = "pending_usages" => service'[e] = "metrics" /\ e \in resolved'
  BY <1>4
<1>7. PersesInv'
  BY <1>1, <1>2, <1>5, <1>6 DEF PersesInv, Input, Endpoints
<1>8. QED
  BY <1>1, <1>2, <1>3, <1>7 DEF AdaptersInv, EveryUseIsSeen, Endpoints

\* What the manifest demands, query by query.
LEMMA TempoDemands ==
  ASSUME NEW input, isList(input.queries), NEW d \in TempoUsed(input)
  PROVE  \E i \in 1..Len(input.queries) : d \in queryUsed(input.queries[i], input.mappings)
<1> DEFINE attributes(q) == {t \in Range(q.tokens) : t.kind \notin {"plain", "quoted"}}
           used(q) == {demand({<<"tempo", q.id>>}, s) : s \in UNION {traceUses(t, input.mappings) : t \in attributes(q)}}
<1>1. TempoUsed(input) = UNION {used(q) : q \in Range(input.queries)}
  BY Zenon DEF TempoUsed, traceUses, demand
<1>2. PICK q \in Range(input.queries) : d \in used(q)
  <2> HIDE DEF used
  <2>1. QED
    BY <1>1
<1>3. PICK s \in UNION {traceUses(t, input.mappings) : t \in attributes(q)} : d = demand({<<"tempo", q.id>>}, s)
  BY <1>2, Zenon
<1>4. PICK t \in attributes(q) : s \in traceUses(t, input.mappings)
  <2> HIDE DEF attributes
  <2>1. QED
    BY <1>3
<1>5. d \in queryUsed(q, input.mappings)
  <2> DEFINE of(x) == {demand({<<"tempo", q.id>>}, y) : y \in traceUses(x, input.mappings)}
  <2>1. d \in of(t)
    BY <1>3, <1>4, Zenon
  <2>2. queryUsed(q, input.mappings) = UNION {of(x) : x \in attributes(q)}
    BY Zenon DEF queryUsed
  <2> HIDE DEF of, attributes
  <2>3. QED
    BY <1>4, <2>1, <2>2
<1>6. PICK i \in 1..Len(input.queries) : q = input.queries[i]
  BY DEF isList, Range
<1>7. QED
  BY <1>5, <1>6

\* The manifest has been read, but no query yet.
LEMMA ManifestRead ==
  ASSUME AdaptersInv, ReadManifest
  PROVE  AdaptersInv'
<1>1. pc = "manifest" /\ pc' \in {"error", "query"} /\ UNCHANGED <<task, evidence, position>>
  BY DEF ReadManifest
<1>2. task.kind = "tempo" /\ TempoInv /\ task \in Tasks
  BY <1>1 DEF AdaptersInv, StepsInv
<1>3. StepsInv'
  BY <1>1, <1>2 DEF AdaptersInv, StepsInv, Endpoints, OwnershipSteps
<1>4. isList(Input.queries)
  BY <1>2, TasksAssumption DEF Input, tempoInput
<1>5. position = 0 /\ Len(Input.queries) \in Nat
  BY <1>1, <1>2, <1>4 DEF TempoInv, isList
<1>6. TempoInv'
  BY <1>1, <1>5 DEF TempoInv, Input
<1>7. QED
  BY <1>1, <1>2, <1>3, <1>6 DEF AdaptersInv, EveryUseIsSeen

\* One query after the other is seen.
LEMMA QueryValidated ==
  ASSUME AdaptersInv, ValidateQuery
  PROVE  AdaptersInv'
<1> DEFINE queries == Input.queries
           required == task.required
<1>1. pc = "query" /\ UNCHANGED <<task, service, resolved>>
  BY DEF ValidateQuery, perses
<1>2. task.kind = "tempo" /\ TempoInv /\ task \in Tasks
  BY <1>1 DEF AdaptersInv, StepsInv
<1>3. tempoInput(Input)
  BY <1>2, TasksAssumption DEF Input
<1>4. /\ position \in 0..Len(queries) /\ Len(queries) \in Nat
      /\ \A i \in 1..position : Seen(evidence, required, queryUsed(queries[i], Input.mappings))
  BY <1>1, <1>2, <1>3 DEF TempoInv, tempoInput, isList
<1>5. CASE position = Len(queries) /\ pc' = "done" /\ UNCHANGED <<evidence, position>>
  <2>1. Demands' = TempoUsed(Input)
    BY <1>1, <1>2, DemandsStay, DemandsByKind
  <2>2. \A d \in TempoUsed(Input) : seen(evidence, required, d)
    BY <1>3, <1>4, <1>5, TempoDemands DEF Seen, tempoInput
  <2>3. EveryUseIsSeen'
    BY <1>1, <1>5, <2>1, <2>2, EveryUseSeen DEF Seen
  <2>4. QED
    BY <1>1, <1>2, <1>5, <2>3 DEF AdaptersInv, StepsInv, TempoInv, Endpoints, OwnershipSteps
<1>6. CASE pc' = "error"
  BY <1>1, <1>2, <1>6 DEF AdaptersInv, StepsInv, TempoInv, Endpoints, OwnershipSteps, EveryUseIsSeen
<1>7. CASE /\ position # Len(queries) /\ pc' = pc /\ position' = position + 1
           /\ \E accepted \in BOOLEAN :
                evidence' = merge({evidence, analyzeQuery(queries[position + 1], accepted, Input.mappings, required)})
  <2> DEFINE q == queries[position + 1]
  <2>1. PICK accepted \in BOOLEAN : evidence' = merge({evidence, analyzeQuery(q, accepted, Input.mappings, required)})
    BY <1>7
  <2>2. position + 1 \in 1..Len(queries) /\ q \in Range(queries)
    BY <1>3, <1>4, <1>7 DEF tempoInput, isList, Range
  <2>3. Seen(analyzeQuery(q, accepted, Input.mappings, required), required, queryUsed(q, Input.mappings))
    <3> HIDE DEF q
    <3> SUFFICES ASSUME NEW d \in queryUsed(q, Input.mappings)
                 PROVE  seen(analyzeQuery(q, accepted, Input.mappings, required), required, d)
      BY DEF Seen
    <3>1. PICK t \in Range(q.tokens) : /\ t.kind \notin {"plain", "quoted"}
                                       /\ \E s \in traceUses(t, Input.mappings) : d = demand({<<"tempo", q.id>>}, s)
      BY DEF queryUsed
    <3>2. isList(q.tokens) /\ isList(Input.mappings)
      BY <1>3, <2>2 DEF tempoInput
    <3>3. \A i, j \in DOMAIN Input.mappings :
            Input.mappings[i].kind = Input.mappings[j].kind /\ Input.mappings[i].tempo = Input.mappings[j].tempo => i = j
      BY <1>3 DEF tempoInput
    <3>4. QED
      BY <3>1, <3>2, <3>3, TempoQuerySeen
  <2> HIDE DEF q
  <2>4. \A i \in 1..position : Seen(evidence', required, queryUsed(queries[i], Input.mappings))
    BY <1>4, <2>1, MergeSeen DEF Seen
  <2>5. Seen(evidence', required, queryUsed(q, Input.mappings))
    BY <2>1, <2>3, MergeSeen DEF Seen
  <2>6. \A i \in 1..(position + 1) : i \in 1..position \/ i = position + 1
    BY <1>4
  <2>7. \A i \in 1..(position + 1) : Seen(evidence', required, queryUsed(queries[i], Input.mappings))
    BY <2>4, <2>5, <2>6 DEF q
  <2>8. TempoInv'
    <3>1. pc' = "query" /\ position' = position + 1 /\ Input' = Input /\ task' = task
      BY <1>1, <1>7 DEF Input
    <3>2. position' \in 0..Len(Input'.queries)
      BY <1>4, <2>2, <3>1
    <3>3. \A i \in 1..position' : Seen(evidence', task'.required, queryUsed(Input'.queries[i], Input'.mappings))
      BY <2>7, <3>1
    <3>4. QED
      BY <3>1, <3>2, <3>3, Zenon DEF TempoInv
  <2>9. StepsInv'
    BY <1>1, <1>2, <1>7 DEF AdaptersInv, StepsInv, Endpoints, OwnershipSteps
  <2>10. QED
    BY <1>1, <1>2, <1>7, <2>8, <2>9 DEF AdaptersInv, EveryUseIsSeen
<1>8. QED
  <2>1. \/ position = Len(queries) /\ pc' = "done" /\ UNCHANGED <<evidence, position>>
        \/ pc' = "error"
        \/ /\ position # Len(queries) /\ pc' = pc /\ position' = position + 1
           /\ \E accepted \in BOOLEAN :
                evidence' = merge({evidence, analyzeQuery(queries[position + 1], accepted, Input.mappings, required)})
    BY DEF ValidateQuery
  <2>2. QED
    BY <1>5, <1>6, <1>7, <2>1

\* Every step keeps the invariant.
LEMMA NextAdapters == AdaptersInv /\ [Next]_vars => AdaptersInv'
<1> SUFFICES ASSUME AdaptersInv, [Next]_vars PROVE AdaptersInv'
  OBVIOUS
<1>1. CASE UNCHANGED vars
  BY <1>1, QuietStep DEF vars, perses
<1>2. CASE Cancel
  BY <1>2, QuietStep DEF Cancel, perses
<1>3. CASE RemoveCodeowners
  BY <1>3, QuietStep DEF RemoveCodeowners, perses
<1>4. CASE Finished
  BY <1>4, QuietStep DEF Finished, vars, perses
<1>5. QED
  BY <1>1, <1>2, <1>3, <1>4, FileSteps, MetricsRequested, PartialMetricsRequested, PendingUsagesRequested,
     ServiceMoved, ManifestRead, QueryValidated, OwnershipKept DEF Next

\* Whatever the sources hold, whichever requests fail, wherever the context is
\* cancelled and however the Perses service moves its entries (other than out
\* of the pending ones), an adapter that returns without an error has lost no
\* use of a telemetry symbol: its evidence refers to it or reports it.
THEOREM EveryUseReachesEvidence == Spec => []EveryUseIsSeen
<1>1. AdaptersInv => EveryUseIsSeen
  BY DEF AdaptersInv
<1>2. QED
  BY <1>1, InitAdapters, NextAdapters, PTL DEF Spec

(***************************************************************************)
(* Owners.                                                                 *)
(***************************************************************************)

\* The files that are found up to the i-th one of the p-th pattern.
readTo(patterns, p, i) == {x \in Found(patterns) : x[1] < p \/ (x[1] = p /\ x[2] <= i)}

\* What was read decides as the files themselves do.
rulesRight(input, read, list) ==
  \A c \in Range(input.consumers) :
    matchingMetadataRule(list, c) = LastRule(input.patterns, read \cap FoundFirst(input.patterns), c)
readRight(input, read, files, list, issues) ==
  /\ files = {FileAt(input.patterns, x) : x \in read}
  /\ issues = {} => rulesRight(input, read, list)
ReadInv(p, i) == readRight(Input, readTo(Input.patterns, p, i), loaded, rules, evidence.diagnostics)

MetadataInv ==
  /\ isList(rules) /\ "diagnostics" \in DOMAIN evidence
  /\ pc = "ownership" => position = 0 /\ loaded = {} /\ rules = << >>
  /\ pc = "metadata" => position \in 0..Len(Input.patterns) /\ ReadInv(position + 1, 0)
  /\ pc = "files" => /\ position \in 1..Len(Input.patterns) /\ file \in 0..Len(Input.patterns[position])
                     /\ ReadInv(position, file)

\* The rule of CODEOWNERS for a path, by the file.
rightRule(input, path) ==
  LET at == findCodeowners(input.places, input.configured).path IN
  IF ~input.codeowners \/ at = Blank THEN {} ELSE matchingCodeownersRule(input.lines[at], path)
codeownersRight(input, lists) ==
  \A path : UNION {matchingCodeownersRule(r, path) : r \in lists} = rightRule(input, path)

\* Without a cancellation and a diagnostic everything was read.
CodeownersInv ==
  /\ pc \in {"ownership", "metadata", "files", "codeowners"} => places = Input.places
  /\ pc \in {"ownership", "metadata", "files", "codeowners", "open"} => codeowners = {}
  /\ pc = "open" => Input.codeowners /\ findCodeowners(Input.places, Input.configured).path # Blank
  /\ pc \in {"codeowners", "open", "consumers"} /\ ~cancelled /\ evidence.diagnostics = {} => rulesRight(Input, Found(Input.patterns), rules)
  /\ pc = "consumers" /\ ~cancelled /\ evidence.diagnostics = {} => codeownersRight(Input, codeowners)

\* A consumer is visited only without a cancellation.
ConsumersInv ==
  /\ DOMAIN owners = DOMAIN Input.consumers
  /\ pc \in {"codeowners", "open"} => position = 0
  /\ pc = "consumers" =>
       /\ position \in 0..Len(Input.consumers)
       /\ evidence.diagnostics = {} => \A c \in 1..position : owners[c] = RightOwner(Input, Input.consumers[c])

OwnersInv ==
  /\ task.kind = "ownership" => MetadataInv /\ CodeownersInv /\ ConsumersInv
  /\ OwnerIsRightOrReported

\* A set of indices has a last one.
LEMMA LastIndex ==
  ASSUME NEW N \in Nat, NEW S, S \subseteq 1..N, S # {}
  PROVE  Max(S) \in S /\ \A y \in S : Max(S) >= y
<1> DEFINE f == [n \in 1..N |-> n]
<1>1. \A n \in S : f[n] \in Int /\ f[n] = n
  OBVIOUS
<1> HIDE DEF f
<1>2. PICK m \in S : \A n \in S : f[m] >= f[n]
  BY <1>1, NewestOf
<1>3. \A n \in S : m >= n
  BY <1>1, <1>2
<1>4. QED
  BY <1>3 DEF Max

\* A sequence of anything is a list.
LEMMA SeqIsList ==
  ASSUME NEW X, NEW q \in Seq(X)
  PROVE  isList(q)
<1>1. Len(q) \in Nat /\ q \in [1..Len(q) -> X] /\ DOMAIN q = 1..Len(q)
  OBVIOUS
<1>2. q \in [1..Len(q) -> Range(q)]
  BY <1>1 DEF Range
<1>3. QED
  BY <1>1, <1>2 DEF isList

\* Which rules of a list match.
matchAt(s, c) == {i \in DOMAIN s : matches(s[i], c)}

\* Of two lists of rules the second one decides, if it has a matching rule.
LEMMA AppendedRules ==
  ASSUME NEW s, isList(s), NEW t, isList(t), NEW c
  PROVE  /\ isList(s \o t)
         /\ matchingMetadataRule(s \o t, c) =
              IF matchingMetadataRule(t, c) = {} THEN matchingMetadataRule(s, c) ELSE matchingMetadataRule(t, c)
<1> DEFINE X == Range(s) \cup Range(t)
           q == s \o t
           a == matchAt(s, c)
           b == matchAt(t, c)
           both == matchAt(q, c)
<1>1. s \in Seq(X) /\ t \in Seq(X)
  BY DEF isList
<1> HIDE DEF X
<1>2. /\ q \in Seq(X) /\ Len(q) = Len(s) + Len(t) /\ Len(s) \in Nat /\ Len(t) \in Nat
      /\ DOMAIN s = 1..Len(s) /\ DOMAIN t = 1..Len(t) /\ DOMAIN q = 1..(Len(s) + Len(t))
      /\ \A i \in 1..Len(s) : q[i] = s[i]
      /\ \A i \in 1..Len(t) : q[Len(s) + i] = t[i]
  BY <1>1
<1>3. isList(q)
  BY <1>2, SeqIsList
<1>4. /\ matchingMetadataRule(q, c) = lastOf(q, both)
      /\ matchingMetadataRule(s, c) = lastOf(s, a)
      /\ matchingMetadataRule(t, c) = lastOf(t, b)
  BY DEF matchingMetadataRule, matchAt
<1> SUFFICES lastOf(q, both) = IF lastOf(t, b) = {} THEN lastOf(s, a) ELSE lastOf(t, b)
  BY <1>3, <1>4
<1> HIDE DEF q
<1>5. /\ a \subseteq 1..Len(s) /\ b \subseteq 1..Len(t) /\ both \subseteq 1..(Len(s) + Len(t))
      /\ \A i \in 1..Len(s) : i \in both <=> i \in a
      /\ \A i \in 1..Len(t) : Len(s) + i \in both <=> i \in b
  BY <1>2 DEF matchAt
<1> HIDE DEF a, b, both
<1>6. \A i \in both : i \in 1..Len(s) \/ \E j \in 1..Len(t) : i = Len(s) + j
  <2> SUFFICES ASSUME NEW i \in both, i \notin 1..Len(s) PROVE \E j \in 1..Len(t) : i = Len(s) + j
    OBVIOUS
  <2>1. i - Len(s) \in 1..Len(t) /\ i = Len(s) + (i - Len(s))
    BY <1>2, <1>5
  <2>2. QED
    BY <2>1
<1>7. CASE b = {}
  <2>1. both = a
    BY <1>5, <1>6, <1>7
  <2>2. CASE a = {}
    BY <1>7, <2>1, <2>2 DEF lastOf
  <2>3. CASE a # {}
    <3>1. Max(a) \in a
      BY <1>2, <1>5, <2>3, LastIndex
    <3>2. q[Max(a)] = s[Max(a)]
      BY <1>2, <1>5, <3>1
    <3>3. QED
      BY <1>7, <2>1, <2>3, <3>2 DEF lastOf
  <2>4. QED
    BY <2>2, <2>3
<1>8. CASE b # {}
  <2>1. Max(b) \in b /\ \A y \in b : Max(b) >= y
    BY <1>2, <1>5, <1>8, LastIndex
  <2>2. both # {} /\ Len(s) + Max(b) \in both
    BY <1>5, <2>1
  <2>3. Max(both) \in both /\ \A y \in both : Max(both) >= y
    <3>1. Len(s) + Len(t) \in Nat
      BY <1>2
    <3>2. QED
      BY <1>5, <2>2, <3>1, LastIndex
  <2>4. PICK j \in 1..Len(t) : Max(both) = Len(s) + j
    <3>0. Max(b) \in 1..Len(t) /\ Max(both) \in 1..(Len(s) + Len(t)) /\ Max(both) >= Len(s) + Max(b)
      BY <1>5, <2>1, <2>2, <2>3
    <3>1. Max(both) > Len(s)
      BY <1>2, <3>0
    <3>2. Max(both) \notin 1..Len(s)
      BY <1>2, <3>1
    <3>3. QED
      BY <1>6, <2>3, <3>2
  <2>5. j \in b
    BY <1>5, <2>3, <2>4
  <2>6. j = Max(b)
    <3>1. Max(b) \in 1..Len(t) /\ Max(b) >= j /\ Len(s) + j >= Len(s) + Max(b)
      BY <1>5, <2>1, <2>2, <2>3, <2>4, <2>5
    <3>2. QED
      BY <1>2, <3>1
  <2>7. q[Max(both)] = t[Max(b)]
    BY <1>2, <2>4, <2>6
  <2>8. QED
    BY <1>8, <2>2, <2>7 DEF lastOf
<1>9. QED
  BY <1>7, <1>8

\* What is found, and when it is read.
LEMMA FoundPlaces ==
  ASSUME NEW P, isList(P), \A p \in Range(P) : isList(p)
  PROVE  /\ Len(P) \in Nat /\ \A p \in 1..Len(P) : Len(P[p]) \in Nat
         /\ \A x : x \in Found(P) <=> /\ x = <<x[1], x[2]>>
                                    /\ x[1] \in 1..Len(P) /\ x[2] \in 1..Len(P[x[1]])
<1>1. Len(P) \in Nat /\ DOMAIN P = 1..Len(P)
  BY ListDomain
<1>2. ASSUME NEW p \in 1..Len(P) PROVE Len(P[p]) \in Nat /\ DOMAIN P[p] = 1..Len(P[p])
  <2>1. isList(P[p])
    BY <1>1 DEF Range
  <2>2. QED
    BY <2>1, ListDomain
<1>3. \A x : x \in Found(P) <=> \E p \in 1..Len(P) : x \in {p} \X (1..Len(P[p]))
  BY <1>1, <1>2 DEF Found
<1>4. QED
  BY <1>1, <1>2, <1>3

\* Nothing is read before the first pattern, and all is after the last one; the
\* last file of a pattern is the end of it.
LEMMA ReadWhole ==
  ASSUME NEW P, isList(P), \A p \in Range(P) : isList(p)
  PROVE  /\ readTo(P, 1, 0) = {}
         /\ readTo(P, Len(P) + 1, 0) = Found(P)
         /\ \A p \in 1..Len(P) : readTo(P, p, Len(P[p])) = readTo(P, p + 1, 0)
<1>1. \A x \in Found(P) : x[1] \in 1..Len(P) /\ x[2] \in 1..Len(P[x[1]])
  BY FoundPlaces
<1>2. Len(P) \in Nat /\ \A p \in 1..Len(P) : Len(P[p]) \in Nat
  BY FoundPlaces
<1>3. readTo(P, 1, 0) = {}
  BY <1>1, <1>2 DEF readTo
<1>4. readTo(P, Len(P) + 1, 0) = Found(P)
  <2>1. \A x \in Found(P) : x[1] < Len(P) + 1
    BY <1>1, <1>2
  <2>2. QED
    BY <2>1 DEF readTo
<1>5. ASSUME NEW p \in 1..Len(P) PROVE readTo(P, p, Len(P[p])) = readTo(P, p + 1, 0)
  <2>1. ASSUME NEW x \in Found(P)
        PROVE  (x[1] < p \/ (x[1] = p /\ x[2] <= Len(P[p]))) <=> (x[1] < p + 1 \/ (x[1] = p + 1 /\ x[2] <= 0))
    <3>1. x[1] \in Nat /\ x[2] \in Nat \ {0} /\ p \in Nat /\ (x[1] = p => x[2] <= Len(P[p]))
      BY <1>1, <1>2
    <3>2. QED
      BY <3>1
  <2>2. QED
    BY <2>1 DEF readTo
<1>6. QED
  BY <1>3, <1>4, <1>5

\* The next file comes after what was read, which is all that is earlier.
LEMMA ReadNext ==
  ASSUME NEW P, isList(P), \A p \in Range(P) : isList(p),
         NEW p \in 1..Len(P), NEW i \in 0..Len(P[p]), i # Len(P[p])
  PROVE  LET x == <<p, i + 1>> IN
         /\ x \in Found(P) /\ readTo(P, p, i + 1) = readTo(P, p, i) \cup {x}
         /\ \A y \in Found(P) : Earlier(y, x) <=> y \in readTo(P, p, i)
         /\ ~Earlier(x, x) /\ \A y \in readTo(P, p, i) : ~Earlier(x, y)
<1> DEFINE x == <<p, i + 1>>
<1>1. \A y : y \in Found(P) <=> y = <<y[1], y[2]>> /\ y[1] \in 1..Len(P) /\ y[2] \in 1..Len(P[y[1]])
  BY FoundPlaces
<1>2. Len(P) \in Nat /\ \A q \in 1..Len(P) : Len(P[q]) \in Nat
  BY FoundPlaces
<1>3. p \in Nat /\ i \in Nat /\ i + 1 \in 1..Len(P[p]) /\ x[1] = p /\ x[2] = i + 1
  BY <1>2
<1>4. x \in Found(P)
  BY <1>1, <1>3
<1>5. ASSUME NEW y \in Found(P)
      PROVE  /\ y \in readTo(P, p, i + 1) <=> y \in readTo(P, p, i) \/ y = x
             /\ Earlier(y, x) <=> y \in readTo(P, p, i)
             /\ y \in readTo(P, p, i) => ~Earlier(x, y)
  <2>1. y[1] \in Nat /\ y[2] \in Nat /\ y = <<y[1], y[2]>>
    BY <1>1, <1>2
  <2>2. y = x <=> y[1] = p /\ y[2] = i + 1
    BY <1>3, <2>1
  <2> HIDE DEF x
  <2>3. QED
    BY <1>3, <2>1, <2>2 DEF readTo, Earlier
<1>6. ~Earlier(x, x)
  BY <1>3 DEF Earlier
<1>7. readTo(P, p, i + 1) = readTo(P, p, i) \cup {x}
  <2> HIDE DEF x
  <2>1. \A a, b : readTo(P, a, b) \subseteq Found(P)
    BY DEF readTo
  <2>2. QED
    BY <1>4, <1>5, <2>1
<1>8. \A y \in readTo(P, p, i) : ~Earlier(x, y)
  BY <1>5 DEF readTo
<1>9. QED
  BY <1>4, <1>5, <1>6, <1>7, <1>8

\* The rule of one file for a consumer.
ruleAt(P, x, c) == matchingMetadataRule(FileAt(P, x).rules, c)
lastAt(P, S, c) == {x \in S : ruleAt(P, x, c) # {} /\ \A y \in S : Earlier(x, y) => ruleAt(P, y, c) = {}}

\* A file after all others decides, if it has a rule for the consumer.
LEMMA LastRuleNext ==
  ASSUME NEW P, NEW S, NEW x, NEW c,
         ~Earlier(x, x), \A y \in S : Earlier(y, x) /\ ~Earlier(x, y)
  PROVE  LastRule(P, S \cup {x}, c) = IF ruleAt(P, x, c) = {} THEN LastRule(P, S, c) ELSE ruleAt(P, x, c)
<1>1. \A T : LastRule(P, T, c) = UNION {ruleAt(P, y, c) : y \in lastAt(P, T, c)}
  BY Zenon DEF LastRule, ruleAt, lastAt
<1>2. CASE ruleAt(P, x, c) = {}
  <2>1. lastAt(P, S \cup {x}, c) = lastAt(P, S, c)
    BY <1>2 DEF lastAt
  <2>2. QED
    BY <1>1, <1>2, <2>1
<1>3. CASE ruleAt(P, x, c) # {}
  <2>1. lastAt(P, S \cup {x}, c) = {x}
    BY <1>3 DEF lastAt
  <2>2. LastRule(P, S \cup {x}, c) = UNION {ruleAt(P, y, c) : y \in {x}}
    BY <1>1, <2>1
  <2>3. UNION {ruleAt(P, y, c) : y \in {x}} = ruleAt(P, x, c)
    OBVIOUS
  <2>4. QED
    BY <1>3, <2>2, <2>3
<1>4. QED
  BY <1>2, <1>3

\* What was not reported was not a problem.
LEMMA Reported ==
  ASSUME "diagnostics" \in DOMAIN evidence, NEW about, evidence' = report(about)
  PROVE  /\ "diagnostics" \in DOMAIN evidence'
         /\ evidence'.diagnostics = {} => evidence.diagnostics = {} /\ about = {}
<1>1. evidence'.diagnostics = evidence.diagnostics \cup {[about |-> a, required |-> FALSE] : a \in about}
  BY DEF report
<1>2. DOMAIN evidence' = DOMAIN evidence
  BY DEF report
<1>3. QED
  BY <1>1, <1>2

\* A file that was read before changes nothing, and a new one decides.
LEMMA FileRead ==
  ASSUME MetadataInv, ownershipInput(Input), pc = "files", LoadMetadataFile, file # Len(Input.patterns[position])
  PROVE  MetadataInv'
<1> DEFINE P == Input.patterns
           x == <<position, file + 1>>
           f == FileAt(P, x)
           read == readTo(P, position, file)
           more == readTo(P, position, file + 1)
<1>1. isList(P) /\ \A p \in Range(P) : isList(p) /\ \A g \in Range(p) : isList(g.rules)
  BY DEF ownershipInput
<1>2. /\ position \in 1..Len(P) /\ file \in 0..Len(P[position]) /\ isList(rules)
      /\ "diagnostics" \in DOMAIN evidence
      /\ readRight(Input, read, loaded, rules, evidence.diagnostics)
  BY DEF MetadataInv, ReadInv
<1>3. /\ x \in Found(P) /\ more = read \cup {x}
      /\ \A y \in Found(P) : Earlier(y, x) <=> y \in read
      /\ ~Earlier(x, x) /\ \A y \in read : ~Earlier(x, y)
  BY <1>1, <1>2, ReadNext
<1>4. f = P[position][file + 1] /\ isList(f.rules)
  <2>1. f = P[position][file + 1]
    BY DEF FileAt
  <2>2. x[1] = position /\ x[2] = file + 1 /\ position \in 1..Len(P) /\ file + 1 \in 1..Len(P[position])
    BY <1>1, <1>3, FoundPlaces
  <2>3. P[position] \in Range(P)
    BY <1>1, <2>2, ListDomain DEF Range
  <2>4. f \in Range(P[position])
    BY <1>1, <2>1, <2>2, <2>3, ListDomain DEF Range
  <2>5. QED
    BY <1>1, <2>1, <2>3, <2>4
<1>5. /\ pc' = "files" /\ file' = file + 1 /\ loaded' = loaded \cup {f}
      /\ position' = position /\ Input' = Input
  BY <1>4 DEF LoadMetadataFile, Input
<1>6. \/ f \in loaded /\ UNCHANGED <<evidence, rules>>
      \/ f \notin loaded /\ evidence' = report({<<"metadata", f.path>>}) /\ UNCHANGED rules
      \/ f \notin loaded /\ rules' = rules \o f.rules /\ UNCHANGED evidence
  BY <1>4, Zenon DEF LoadMetadataFile
<1> HIDE DEF f, x, read, more
<1>7. loaded' = {FileAt(P, y) : y \in more}
  BY <1>2, <1>3, <1>5 DEF readRight, f
<1>8. \A y \in read : y \in Found(P)
  BY DEF read, readTo
<1>9. x \in FoundFirst(P) <=> f \notin loaded
  <2>1. f \in loaded <=> \E y \in read : FileAt(P, y) = f
    BY <1>2 DEF readRight
  <2>2. QED
    BY <1>3, <1>8, <2>1 DEF FoundFirst, f
<1>10. isList(rules') /\ "diagnostics" \in DOMAIN evidence'
  <2>1. isList(rules')
    <3>1. isList(rules \o f.rules)
      BY <1>2, <1>4, AppendedRules
    <3>2. rules' = rules \/ rules' = rules \o f.rules
      BY <1>6
    <3>3. QED
      BY <1>2, <3>1, <3>2
  <2>2. "diagnostics" \in DOMAIN evidence'
    <3>1. evidence' = evidence \/ evidence' = report({<<"metadata", f.path>>})
      BY <1>6
    <3>2. QED
      BY <1>2, <3>1, Reported
  <2>3. QED
    BY <2>1, <2>2
<1>11. ASSUME evidence'.diagnostics = {}, NEW c \in Range(Input.consumers)
       PROVE  matchingMetadataRule(rules', c) = LastRule(P, more \cap FoundFirst(P), c)
  <2> DEFINE S == read \cap FoundFirst(P)
  <2>1. evidence.diagnostics = {} /\ UNCHANGED evidence
    BY <1>2, <1>6, <1>11, Reported
  <2>2. matchingMetadataRule(rules, c) = LastRule(P, S, c)
    BY <1>2, <2>1 DEF readRight, rulesRight
  <2>3. CASE f \in loaded
    <3>1. more \cap FoundFirst(P) = S
      BY <1>3, <1>9, <2>3
    <3>2. rules' = rules
      BY <1>6, <2>3
    <3>3. QED
      BY <2>2, <3>1, <3>2
  <2>4. CASE f \notin loaded
    <3>1. more \cap FoundFirst(P) = S \cup {x}
      BY <1>3, <1>9, <2>4
    <3>2. rules' = rules \o f.rules
      BY <1>2, <1>6, <1>11, <2>4, Reported
    <3>3. matchingMetadataRule(rules', c) =
            IF matchingMetadataRule(f.rules, c) = {} THEN matchingMetadataRule(rules, c) ELSE matchingMetadataRule(f.rules, c)
      BY <1>2, <1>4, <3>2, AppendedRules
    <3>4. ruleAt(P, x, c) = matchingMetadataRule(f.rules, c)
      BY DEF ruleAt, f
    <3>5. \A y \in S : Earlier(y, x) /\ ~Earlier(x, y)
      BY <1>3, <1>8
    <3> HIDE DEF S
    <3>6. LastRule(P, S \cup {x}, c) = IF ruleAt(P, x, c) = {} THEN LastRule(P, S, c) ELSE ruleAt(P, x, c)
      BY <1>3, <3>5, LastRuleNext
    <3>7. QED
      BY <2>2, <3>1, <3>3, <3>4, <3>6
  <2>5. QED
    BY <2>3, <2>4
<1>12. readRight(Input, more, loaded', rules', evidence'.diagnostics)
  BY <1>7, <1>11 DEF readRight, rulesRight
<1>13. position' \in 1..Len(P) /\ file' \in 0..Len(P[position'])
  BY <1>2, <1>3, <1>5, FoundPlaces, <1>1 DEF x
<1>14. QED
  BY <1>5, <1>10, <1>12, <1>13 DEF MetadataInv, ReadInv, more

\* Nothing read, no rule.
LEMMA NoRules ==
  ASSUME NEW P, NEW c
  PROVE  LastRule(P, {}, c) = {} /\ matchingMetadataRule(<< >>, c) = {} /\ isList(<< >>)
<1>1. LastRule(P, {}, c) = {}
  BY DEF LastRule
<1>2. matchingMetadataRule(<< >>, c) = {}
  BY DEF matchingMetadataRule, lastOf
<1>3. << >> \in Seq({})
  OBVIOUS
<1>4. isList(<< >>)
  BY <1>3, SeqIsList
<1>5. QED
  BY <1>1, <1>2, <1>4

\* The enrichment starts with nothing read.
LEMMA OwnershipStarted ==
  ASSUME OwnersInv, task.kind = "ownership", ownershipInput(Input), StartOwnership
  PROVE  OwnersInv'
<1> DEFINE P == Input.patterns
<1>1. /\ pc = "ownership" /\ ((pc' = "done" /\ ~Input.enabled) \/ pc' \in {"error", "metadata"})
      /\ Input' = Input /\ task' = task
      /\ UNCHANGED <<evidence, cancelled, position, file, loaded, rules, codeowners, places, owners>>
  BY DEF StartOwnership, ownership, Input
<1>2. MetadataInv /\ CodeownersInv /\ ConsumersInv
  BY DEF OwnersInv
<1>3. isList(P) /\ \A p \in Range(P) : isList(p)
  BY DEF ownershipInput
<1>4. readRight(Input, readTo(P, 1, 0), {}, << >>, evidence.diagnostics)
  <2>1. readTo(P, 1, 0) = {}
    BY <1>3, ReadWhole
  <2> HIDE DEF P
  <2>2. readRight(Input, {}, {}, << >>, evidence.diagnostics)
    BY NoRules DEF readRight, rulesRight
  <2>3. QED
    BY <2>1, <2>2
<1>5. MetadataInv'
  <2>1. isList(rules') /\ "diagnostics" \in DOMAIN evidence' /\ position = 0 /\ loaded = {} /\ rules = << >>
    BY <1>1, <1>2 DEF MetadataInv
  <2>2. position' \in 0..Len(Input'.patterns)
    BY <1>1, <1>3, <2>1, ListDomain
  <2>3. position' + 1 = 1
    BY <1>1, <2>1
  <2>4. readRight(Input', readTo(Input'.patterns, position' + 1, 0), loaded', rules', evidence'.diagnostics)
    BY <1>1, <1>4, <2>1, <2>3
  <2>5. QED
    BY <1>1, <2>1, <2>2, <2>4 DEF MetadataInv, ReadInv
<1>6. CodeownersInv'
  BY <1>1, <1>2 DEF CodeownersInv
<1>7. ConsumersInv'
  BY <1>1, <1>2 DEF ConsumersInv
<1>8. OwnerIsRightOrReported'
  BY <1>1 DEF OwnerIsRightOrReported
<1>9. QED
  BY <1>5, <1>6, <1>7, <1>8 DEF OwnersInv

\* The next pattern: nothing of it is read yet; after the last one all is.
LEMMA PatternTaken ==
  ASSUME OwnersInv, task.kind = "ownership", ownershipInput(Input), LoadMetadataRules
  PROVE  OwnersInv'
<1> DEFINE P == Input.patterns
           about == IF P[position + 1] = << >> THEN {<<"pattern", Blank>>} ELSE {}
<1>1. /\ pc = "metadata" /\ file' = 0 /\ Input' = Input /\ task' = task
      /\ UNCHANGED <<cancelled, loaded, rules, codeowners, places, owners>>
      /\ \/ (cancelled \/ position = Len(P)) /\ pc' = "codeowners" /\ position' = 0 /\ evidence' = evidence
         \/ position # Len(P) /\ pc' = "files" /\ position' = position + 1 /\ evidence' = report(about)
  BY Zenon DEF LoadMetadataRules, Input
<1> HIDE DEF about
<1>2. MetadataInv /\ CodeownersInv /\ ConsumersInv
  BY DEF OwnersInv
<1>3. isList(P) /\ (\A p \in Range(P) : isList(p)) /\ isList(Input.consumers)
  BY DEF ownershipInput
<1>4. /\ isList(rules) /\ "diagnostics" \in DOMAIN evidence /\ position \in 0..Len(P) /\ Len(P) \in Nat
      /\ readRight(Input, readTo(P, position + 1, 0), loaded, rules, evidence.diagnostics)
  BY <1>1, <1>2, <1>3, ListDomain DEF MetadataInv, ReadInv
<1>5. OwnerIsRightOrReported'
  BY <1>1 DEF OwnerIsRightOrReported
<1>6. CASE (cancelled \/ position = Len(P)) /\ pc' = "codeowners" /\ position' = 0 /\ evidence' = evidence
  <2>1. MetadataInv'
    BY <1>1, <1>4, <1>6 DEF MetadataInv
  <2>2. ASSUME ~cancelled, evidence.diagnostics = {} PROVE rulesRight(Input, Found(P), rules)
    <3>1. readTo(P, position + 1, 0) = Found(P)
      BY <1>3, <1>6, <2>2, ReadWhole
    <3>2. QED
      BY <1>4, <2>2, <3>1 DEF readRight
  <2>3. CodeownersInv'
    BY <1>1, <1>2, <1>6, <2>2 DEF CodeownersInv
  <2>4. ConsumersInv'
    BY <1>1, <1>2, <1>6 DEF ConsumersInv
  <2>5. QED
    BY <1>5, <2>1, <2>3, <2>4 DEF OwnersInv
<1>7. CASE position # Len(P) /\ pc' = "files" /\ position' = position + 1 /\ evidence' = report(about)
  <2>1. position' \in 1..Len(P) /\ file' \in 0..Len(P[position'])
    <3>1. position' \in 1..Len(P)
      BY <1>4, <1>7
    <3>2. Len(P[position']) \in Nat
      BY <1>3, <3>1, FoundPlaces
    <3>3. QED
      BY <1>1, <3>1, <3>2
  <2>2. "diagnostics" \in DOMAIN evidence' /\ (evidence'.diagnostics = {} => evidence.diagnostics = {})
    BY <1>4, <1>7, Reported
  <2>3. readRight(Input', readTo(Input'.patterns, position', file'), loaded', rules', evidence'.diagnostics)
    BY <1>1, <1>4, <1>7, <2>2 DEF readRight
  <2>4. MetadataInv'
    BY <1>1, <1>4, <1>7, <2>1, <2>2, <2>3 DEF MetadataInv, ReadInv
  <2>5. CodeownersInv'
    BY <1>1, <1>2, <1>7 DEF CodeownersInv
  <2>6. ConsumersInv'
    BY <1>1, <1>2, <1>7 DEF ConsumersInv
  <2>7. QED
    BY <1>5, <2>4, <2>5, <2>6 DEF OwnersInv
<1>8. QED
  BY <1>1, <1>6, <1>7

\* One file, or the end of a pattern.
LEMMA FileTaken ==
  ASSUME OwnersInv, task.kind = "ownership", ownershipInput(Input), LoadMetadataFile
  PROVE  OwnersInv'
<1> DEFINE P == Input.patterns
<1>1. /\ pc = "files" /\ pc' \in {"files", "metadata"} /\ Input' = Input /\ task' = task
      /\ UNCHANGED <<cancelled, position, codeowners, places, owners>>
  BY Zenon DEF LoadMetadataFile, Input
<1>2. MetadataInv /\ CodeownersInv /\ ConsumersInv
  BY DEF OwnersInv
<1>3. MetadataInv'
  <2>1. CASE file # Len(P[position])
    BY <1>1, <1>2, <2>1, FileRead
  <2>2. CASE file = Len(P[position])
    <3>1. pc' = "metadata" /\ UNCHANGED <<evidence, loaded, rules>>
      BY <2>2, Zenon DEF LoadMetadataFile
    <3>2. isList(P) /\ \A p \in Range(P) : isList(p)
      BY DEF ownershipInput
    <3>3. /\ isList(rules) /\ "diagnostics" \in DOMAIN evidence /\ position \in 1..Len(P) /\ Len(P) \in Nat
          /\ readRight(Input, readTo(P, position, file), loaded, rules, evidence.diagnostics)
      BY <1>1, <1>2, <3>2, ListDomain DEF MetadataInv, ReadInv
    <3>4. readTo(P, position, file) = readTo(P, position + 1, 0)
      BY <2>2, <3>2, <3>3, ReadWhole
    <3>5. position' \in 0..Len(P)
      BY <1>1, <3>3
    <3>6. QED
      BY <1>1, <3>1, <3>3, <3>4, <3>5 DEF MetadataInv, ReadInv
  <2>3. QED
    BY <2>1, <2>2
<1>4. CodeownersInv'
  BY <1>1, <1>2 DEF CodeownersInv
<1>5. ConsumersInv'
  BY <1>1, <1>2 DEF ConsumersInv
<1>6. OwnerIsRightOrReported'
  BY <1>1 DEF OwnerIsRightOrReported
<1>7. QED
  BY <1>3, <1>4, <1>5, <1>6 DEF OwnersInv

\* A file of CODEOWNERS without an invalid line is read as it stands.
LEMMA CodeownersRead ==
  ASSUME NEW lines, isList(lines), \A l \in Range(lines) : l.form \notin {"rule", "invalid"} => l.paths = {},
         parseCodeowners(lines).issues = {}, NEW path
  PROVE  matchingCodeownersRule(parseCodeowners(lines).rules, path) = matchingCodeownersRule(lines, path)
<1> DEFINE ruled == {n \in DOMAIN lines : lines[n].form = "rule"}
           list == [n \in ruled |-> lines[n]]
           a == {n \in DOMAIN list : path \in list[n].paths}
           b == {n \in DOMAIN lines : path \in lines[n].paths}
<1>1. parseCodeowners(lines).rules = list
  BY DEF parseCodeowners
<1>2. \A n \in DOMAIN lines : lines[n].form # "invalid"
  BY DEF parseCodeowners
<1>3. \A n \in DOMAIN lines : lines[n].form # "rule" => lines[n].paths = {}
  BY <1>2 DEF Range
<1>4. a = b /\ \A n \in a : list[n] = lines[n]
  BY <1>3
<1>5. b \subseteq 1..Len(lines) /\ Len(lines) \in Nat
  BY ListDomain
<1>6. lastOf(list, a) = lastOf(lines, b)
  <2> HIDE DEF a, b, list
  <2>1. CASE b = {}
    BY <1>4, <2>1 DEF lastOf
  <2>2. CASE b # {}
    <3>1. Max(b) \in b
      BY <1>5, <2>2, LastIndex
    <3>2. QED
      BY <1>4, <2>2, <3>1 DEF lastOf
  <2>3. QED
    BY <2>1, <2>2
<1>7. matchingCodeownersRule(list, path) = lastOf(list, a) /\ matchingCodeownersRule(lines, path) = lastOf(lines, b)
  BY DEF matchingCodeownersRule
<1> HIDE DEF list
<1>8. QED
  BY <1>1, <1>6, <1>7

\* The search ends with a path, with a diagnostic, or with no rules wanted.
LEMMA CodeownersFound ==
  ASSUME OwnersInv, task.kind = "ownership", ownershipInput(Input), FindCodeowners
  PROVE  OwnersInv'
<1> DEFINE at == findCodeowners(Input.places, Input.configured).path
<1>1. /\ pc = "codeowners" /\ Input' = Input /\ task' = task
      /\ UNCHANGED <<cancelled, position, rules, codeowners, places, owners>>
  BY DEF FindCodeowners, Input, ownership
<1>2. MetadataInv /\ CodeownersInv /\ ConsumersInv
  BY DEF OwnersInv
<1>3. places = Input.places /\ codeowners = {} /\ position = 0 /\ isList(rules) /\ "diagnostics" \in DOMAIN evidence
  BY <1>1, <1>2 DEF CodeownersInv, ConsumersInv, MetadataInv
<1>4. \/ pc' = "consumers" /\ (cancelled \/ ~Input.codeowners) /\ evidence' = evidence
      \/ pc' = "consumers" /\ evidence' = report({<<"codeowners", 0>>})
      \/ pc' = "consumers" /\ at = Blank /\ evidence' = evidence
      \/ pc' = "open" /\ Input.codeowners /\ at # Blank /\ evidence' = evidence
  BY <1>3, Zenon DEF FindCodeowners
<1>5. "diagnostics" \in DOMAIN evidence' /\ (evidence'.diagnostics = {} => evidence' = evidence)
  BY <1>3, <1>4, Reported
<1>6. ASSUME pc' = "consumers", ~cancelled, evidence'.diagnostics = {} PROVE codeownersRight(Input, {})
  <2>1. ~Input.codeowners \/ at = Blank
    BY <1>3, <1>4, <1>6, Reported
  <2>2. \A path : rightRule(Input, path) = {}
    BY <2>1, Zenon DEF rightRule
  <2>3. QED
    BY <2>2 DEF codeownersRight
<1>7. MetadataInv'
  BY <1>1, <1>3, <1>4, <1>5 DEF MetadataInv
<1>8. CodeownersInv'
  BY <1>1, <1>2, <1>3, <1>4, <1>5, <1>6 DEF CodeownersInv
<1>9. ConsumersInv'
  <2>1. Len(Input.consumers) \in Nat
    BY ListDomain DEF ownershipInput
  <2>2. position' \in 0..Len(Input.consumers) /\ \A c \in 1..position' : FALSE
    BY <1>1, <1>3, <2>1
  <2>3. QED
    BY <1>1, <1>2, <1>3, <1>4, <2>2 DEF ConsumersInv
<1>10. OwnerIsRightOrReported'
  BY <1>4 DEF OwnerIsRightOrReported
<1>11. QED
  BY <1>7, <1>8, <1>9, <1>10 DEF OwnersInv

\* What is opened is read as it stands, or reported.
LEMMA CodeownersOpened ==
  ASSUME OwnersInv, task.kind = "ownership", ownershipInput(Input), OpenCodeowners
  PROVE  OwnersInv'
<1> DEFINE at == findCodeowners(Input.places, Input.configured).path
           lines == Input.lines[at]
           issues == {<<"codeowners", n>> : n \in parseCodeowners(lines).issues}
<1>1. /\ pc = "open" /\ pc' = "consumers" /\ Input' = Input /\ task' = task
      /\ UNCHANGED <<cancelled, position, rules, places, owners>>
      /\ \/ evidence' = report({<<"codeowners", 0>>}) /\ codeowners' = codeowners
         \/ evidence' = report(issues) /\ codeowners' = {parseCodeowners(lines).rules}
  BY Zenon DEF OpenCodeowners, Input
<1>2. MetadataInv /\ CodeownersInv /\ ConsumersInv
  BY DEF OwnersInv
<1>3. /\ Input.codeowners /\ at # Blank /\ position = 0
      /\ isList(rules) /\ "diagnostics" \in DOMAIN evidence
  BY <1>1, <1>2 DEF CodeownersInv, ConsumersInv, MetadataInv
<1>4. isList(lines) /\ \A l \in Range(lines) : l.form \notin {"rule", "invalid"} => l.paths = {}
  BY <1>3 DEF ownershipInput
<1> HIDE DEF at, lines, issues
<1>5. "diagnostics" \in DOMAIN evidence' /\ (evidence'.diagnostics = {} => evidence.diagnostics = {})
  BY <1>1, <1>3, Reported
<1>6. ASSUME evidence'.diagnostics = {} PROVE codeownersRight(Input, codeowners')
  <2>1. issues = {} /\ codeowners' = {parseCodeowners(lines).rules}
    BY <1>1, <1>3, <1>6, Reported
  <2>2. parseCodeowners(lines).issues = {}
    BY <2>1 DEF issues
  <2>3. ASSUME NEW path PROVE UNION {matchingCodeownersRule(r, path) : r \in codeowners'} = rightRule(Input, path)
    <3>1. UNION {matchingCodeownersRule(r, path) : r \in codeowners'} = matchingCodeownersRule(parseCodeowners(lines).rules, path)
      BY <2>1
    <3>2. matchingCodeownersRule(parseCodeowners(lines).rules, path) = matchingCodeownersRule(lines, path)
      BY <1>4, <2>2, CodeownersRead
    <3>3. rightRule(Input, path) = matchingCodeownersRule(lines, path)
      BY <1>3, Zenon DEF rightRule, lines, at
    <3>4. QED
      BY <3>1, <3>2, <3>3
  <2>4. QED
    BY <2>3 DEF codeownersRight
<1>7. MetadataInv'
  BY <1>1, <1>3, <1>5 DEF MetadataInv
<1>8. CodeownersInv'
  BY <1>1, <1>2, <1>5, <1>6 DEF CodeownersInv
<1>9. ConsumersInv'
  <2>1. Len(Input.consumers) \in Nat
    BY ListDomain DEF ownershipInput
  <2>2. position' \in 0..Len(Input.consumers) /\ \A c \in 1..position' : FALSE
    BY <1>1, <1>3, <2>1
  <2>3. QED
    BY <1>1, <1>2, <2>2 DEF ConsumersInv
<1>10. OwnerIsRightOrReported'
  BY <1>1 DEF OwnerIsRightOrReported
<1>11. QED
  BY <1>7, <1>8, <1>9, <1>10 DEF OwnersInv

\* The owners that the tags of a consumer name.
tagOwners(c) == {OwnerTags[t] : t \in c.tags \cap DOMAIN OwnerTags}

\* The strongest evidence is the first in the order of precedence.
LEMMA StrongestEvidence ==
  ASSUME NEW c, NEW tags \in {NoOwnerEvidence, tagEvidence(c, OwnerTags)}, NEW rule, rule = {} \/ \E r : rule = {r}
  PROVE  LET known == chooseEvidence(existingOwnerEvidence(c), tags)
             selected == IF rule = {} THEN known ELSE chooseEvidence(known, evidenceFromCodeowners(CHOOSE r \in rule : TRUE))
         IN applyEvidence(c, selected) =
              IF c.owner # {} THEN c.owner
              ELSE IF rule # {} THEN UNION {r.owners : r \in rule} ELSE tags.owner
<1> DEFINE existing == existingOwnerEvidence(c)
           known == chooseEvidence(existing, tags)
           listed == evidenceFromCodeowners(CHOOSE r \in rule : TRUE)
           selected == IF rule = {} THEN known ELSE chooseEvidence(known, listed)
<1>1. tags.rank \in {0, 1} /\ (tags.rank = 0 => tags.owner = {})
  BY DEF tagEvidence, NoOwnerEvidence
<1>2. /\ c.owner # {} => existing.rank = 3 /\ existing.owner = c.owner
      /\ c.owner = {} => existing.rank = 0 /\ existing.owner = {}
  BY DEF existingOwnerEvidence, NoOwnerEvidence
<1>3. rule # {} => listed.rank = 2 /\ listed.owner = UNION {r.owners : r \in rule}
  <2> SUFFICES ASSUME rule # {} PROVE listed.rank = 2 /\ listed.owner = UNION {r.owners : r \in rule}
    OBVIOUS
  <2>1. PICK r : rule = {r}
    OBVIOUS
  <2>2. (CHOOSE x \in rule : TRUE) = r
    BY <2>1
  <2>3. UNION {x.owners : x \in rule} = r.owners
    BY <2>1
  <2>4. QED
    BY <2>2, <2>3 DEF evidenceFromCodeowners
<1> HIDE DEF existing, listed
<1>4. /\ c.owner # {} => known.rank = 3 /\ known.owner = c.owner
      /\ c.owner = {} => known.rank \in {0, 1} /\ known.owner = tags.owner
  BY <1>1, <1>2 DEF chooseEvidence
<1> HIDE DEF known
<1>5. /\ c.owner # {} => selected.rank = 3 /\ selected.owner = c.owner
      /\ c.owner = {} /\ rule # {} => selected.rank = 2 /\ selected.owner = UNION {r.owners : r \in rule}
      /\ c.owner = {} /\ rule = {} => selected = known
  BY <1>3, <1>4 DEF chooseEvidence
<1>6. applyEvidence(c, selected) = IF selected.rank = 0 THEN c.owner ELSE selected.owner
  BY DEF applyEvidence
<1>7. c.owner = {} /\ known.rank = 0 => tags.owner = {}
  <2>1. c.owner = {} /\ known.rank = 0 => tags.rank = 0
    BY <1>1, <1>2 DEF known, chooseEvidence
  <2>2. QED
    BY <1>1, <2>1
<1>8. applyEvidence(c, selected) = IF c.owner # {} THEN c.owner
        ELSE IF rule # {} THEN UNION {r.owners : r \in rule} ELSE tags.owner
  <2> HIDE DEF selected
  <2>1. QED
    BY <1>4, <1>5, <1>6, <1>7
<1>9. QED
  BY <1>8, Zenon DEF existing, known, listed, selected

\* Once everything was read, the owner that is selected is the right one.
LEMMA SelectedIsRight ==
  ASSUME rulesRight(Input, Found(Input.patterns), rules), codeownersRight(Input, codeowners),
         NEW c \in Range(Input.consumers)
  PROVE  selectOwner(c) = RightOwner(Input, c)
<1> DEFINE P == Input.patterns
           at == findCodeowners(Input.places, Input.configured).path
           explicit == matchingMetadataRule(rules, c)
           rule == UNION {matchingCodeownersRule(r, c.path) : r \in IF c.path = Blank THEN {} ELSE codeowners}
           right == IF ~Input.codeowners \/ at = Blank \/ c.path = Blank THEN {} ELSE matchingCodeownersRule(Input.lines[at], c.path)
           tags == IF Input.tags THEN tagEvidence(c, OwnerTags) ELSE NoOwnerEvidence
           known == chooseEvidence(existingOwnerEvidence(c), tags)
           selected == IF rule = {} THEN known ELSE chooseEvidence(known, evidenceFromCodeowners(CHOOSE r \in rule : TRUE))
           byTags == IF Input.tags /\ Cardinality(tagOwners(c)) = 1 THEN tagOwners(c) ELSE {}
<1>1. explicit = LastRule(P, FoundFirst(P), c)
  <2>1. Found(P) \cap FoundFirst(P) = FoundFirst(P)
    BY DEF FoundFirst
  <2>2. explicit = LastRule(P, Found(P) \cap FoundFirst(P), c)
    BY DEF rulesRight
  <2>3. QED
    BY <2>1, <2>2
<1>2. rule = right
  <2>1. CASE c.path = Blank
    <3>1. rule = {}
      BY <2>1
    <3>2. right = {}
      BY <2>1
    <3>3. QED
      BY <3>1, <3>2
  <2>2. CASE c.path # Blank
    <3>1. rule = UNION {matchingCodeownersRule(r, c.path) : r \in codeowners}
      BY <2>2, Zenon
    <3>2. rightRule(Input, c.path) = right
      BY <2>2, Zenon DEF rightRule
    <3>3. QED
      BY <3>1, <3>2, Zenon DEF codeownersRight
  <2>3. QED
    BY <2>1, <2>2
<1>3. right = {} \/ \E r : right = {r}
  <2>1. \A l, p : matchingCodeownersRule(l, p) = {} \/ \E r : matchingCodeownersRule(l, p) = {r}
    BY Zenon DEF matchingCodeownersRule, lastOf
  <2>2. QED
    BY <2>1
<1>4. tags \in {NoOwnerEvidence, tagEvidence(c, OwnerTags)}
  BY Zenon
<1>5. tags.owner = byTags
  <2>1. NoOwnerEvidence.owner = {}
    BY DEF NoOwnerEvidence
  <2>2. tagEvidence(c, OwnerTags).owner = IF Cardinality(tagOwners(c)) = 1 THEN tagOwners(c) ELSE {}
    <3>1. CASE tagOwners(c) = {}
      <4>1. Cardinality(tagOwners(c)) # 1
        BY <3>1, FS_EmptySet
      <4>2. tagEvidence(c, OwnerTags) = NoOwnerEvidence
        BY <3>1, Zenon DEF tagEvidence, tagOwners
      <4>3. QED
        BY <2>1, <4>1, <4>2
    <3>2. CASE tagOwners(c) # {}
      <4>1. tagEvidence(c, OwnerTags) = [owner |-> IF Cardinality(tagOwners(c)) = 1 THEN tagOwners(c) ELSE {}, rank |-> 1]
        BY <3>2, Zenon DEF tagEvidence, tagOwners
      <4>2. QED
        BY <4>1
    <3>3. QED
      BY <3>1, <3>2
  <2>3. CASE Input.tags
    <3>1. tags = tagEvidence(c, OwnerTags)
      BY <2>3, Zenon
    <3>2. byTags = IF Cardinality(tagOwners(c)) = 1 THEN tagOwners(c) ELSE {}
      BY <2>3, Zenon
    <3>3. QED
      BY <2>2, <3>1, <3>2, Zenon
  <2>4. CASE ~Input.tags
    <3>1. tags = NoOwnerEvidence /\ byTags = {}
      BY <2>4, Zenon
    <3>2. QED
      BY <2>1, <3>1, Zenon
  <2>5. QED
    BY <2>3, <2>4
<1>6. selectOwner(c) = applyEvidence(c, IF explicit = {} THEN selected ELSE [owner |-> {r.owner : r \in explicit}, rank |-> 4])
  BY Zenon DEF selectOwner
<1>7. RightOwner(Input, c) =
        CASE explicit # {} -> {r.owner : r \in explicit}
          [] explicit = {} /\ c.owner # {} -> c.owner
          [] explicit = {} /\ c.owner = {} /\ right # {} -> UNION {r.owners : r \in right}
          [] OTHER -> byTags
  BY <1>1, Zenon DEF RightOwner, tagOwners
<1>8. applyEvidence(c, selected) = IF c.owner # {} THEN c.owner
        ELSE IF rule # {} THEN UNION {r.owners : r \in rule} ELSE tags.owner
  <2> HIDE DEF tags, rule, right
  <2>1. QED
    BY <1>2, <1>3, <1>4, StrongestEvidence, Zenon
<1>9. applyEvidence(c, [owner |-> {r.owner : r \in explicit}, rank |-> 4]) = {r.owner : r \in explicit}
  BY DEF applyEvidence
<1> HIDE DEF explicit, rule, right, tags, selected, byTags
<1>10. CASE explicit # {}
  BY <1>6, <1>7, <1>9, <1>10
<1>11. CASE explicit = {}
  <2>1. selectOwner(c) = applyEvidence(c, selected)
    BY <1>6, <1>11
  <2>2. RightOwner(Input, c) = IF c.owner # {} THEN c.owner ELSE IF right # {} THEN UNION {r.owners : r \in right} ELSE byTags
    BY <1>7, <1>11
  <2>3. QED
    BY <1>2, <1>5, <1>8, <2>1, <2>2
<1>12. QED
  BY <1>10, <1>11

\* A consumer is given its right owner, or something was reported before.
LEMMA ConsumerEnriched ==
  ASSUME OwnersInv, task.kind = "ownership", ownershipInput(Input), EnrichConsumer
  PROVE  OwnersInv'
<1> DEFINE C == Input.consumers
<1>1. /\ pc = "consumers" /\ Input' = Input /\ task' = task
      /\ UNCHANGED <<evidence, cancelled, rules, codeowners, places>>
      /\ \/ position = Len(C) /\ pc' = "done" /\ owners' = owners
         \/ pc' = "error" /\ owners' = owners
         \/ /\ position # Len(C) /\ ~cancelled /\ pc' = "consumers" /\ position' = position + 1
            /\ owners' = [owners EXCEPT ![position + 1] = selectOwner(C[position + 1])]
  BY Zenon DEF EnrichConsumer, Input
<1>2. MetadataInv /\ CodeownersInv /\ ConsumersInv
  BY DEF OwnersInv
<1>3. Len(C) \in Nat /\ DOMAIN C = 1..Len(C)
  BY ListDomain DEF ownershipInput
<1>4. /\ position \in 0..Len(C) /\ DOMAIN owners = DOMAIN C
      /\ evidence.diagnostics = {} => \A c \in 1..position : owners[c] = RightOwner(Input, C[c])
  BY <1>1, <1>2 DEF ConsumersInv
<1>5. MetadataInv'
  BY <1>1, <1>2 DEF MetadataInv
<1>6. CodeownersInv'
  BY <1>1, <1>2 DEF CodeownersInv
<1>7. CASE position = Len(C) /\ pc' = "done" /\ owners' = owners
  <2>1. ConsumersInv'
    BY <1>1, <1>4, <1>7 DEF ConsumersInv
  <2>2. OwnerIsRightOrReported'
    BY <1>1, <1>3, <1>4, <1>7 DEF OwnerIsRightOrReported
  <2>3. QED
    BY <1>5, <1>6, <2>1, <2>2 DEF OwnersInv
<1>8. CASE pc' = "error" /\ owners' = owners
  <2>1. ConsumersInv'
    BY <1>1, <1>4, <1>8 DEF ConsumersInv
  <2>2. QED
    BY <1>5, <1>6, <1>8, <2>1 DEF OwnersInv, OwnerIsRightOrReported
<1>9. CASE /\ position # Len(C) /\ ~cancelled /\ pc' = "consumers" /\ position' = position + 1
           /\ owners' = [owners EXCEPT ![position + 1] = selectOwner(C[position + 1])]
  <2>1. position + 1 \in 1..Len(C) /\ position' \in 0..Len(C) /\ DOMAIN owners' = DOMAIN C
    BY <1>3, <1>4, <1>9
  <2>2. ASSUME evidence.diagnostics = {} PROVE selectOwner(C[position + 1]) = RightOwner(Input, C[position + 1])
    <3>1. rulesRight(Input, Found(Input.patterns), rules) /\ codeownersRight(Input, codeowners)
      BY <1>1, <1>2, <1>9, <2>2 DEF CodeownersInv
    <3>2. C[position + 1] \in Range(Input.consumers)
      BY <1>3, <2>1 DEF Range
    <3>3. QED
      BY <3>1, <3>2, SelectedIsRight
  <2>3. ASSUME evidence.diagnostics = {}, NEW c \in 1..position' PROVE owners'[c] = RightOwner(Input, C[c])
    <3>1. c \in 1..position \/ c = position + 1
      BY <1>4, <1>9
    <3>2. CASE c = position + 1
      BY <1>3, <1>4, <1>9, <2>1, <2>2, <2>3, <3>2
    <3>3. CASE c \in 1..position
      <4>1. c # position + 1 /\ c \in DOMAIN owners
        BY <1>3, <1>4, <3>3
      <4>2. owners'[c] = owners[c]
        BY <1>9, <4>1
      <4>3. QED
        BY <1>4, <2>3, <3>3, <4>2
    <3>4. QED
      BY <3>1, <3>2, <3>3
  <2>4. ConsumersInv'
    BY <1>1, <1>9, <2>1, <2>3 DEF ConsumersInv
  <2>5. OwnerIsRightOrReported'
    BY <1>9 DEF OwnerIsRightOrReported
  <2>6. QED
    BY <1>5, <1>6, <2>4, <2>5 DEF OwnersInv
<1>10. QED
  BY <1>1, <1>7, <1>8, <1>9

\* A cancellation, a removal of the file or nothing at all.
LEMMA OwnersQuiet ==
  ASSUME OwnersInv,
         UNCHANGED <<task, pc, evidence, position, file, loaded, rules, codeowners, owners>>,
         cancelled' = cancelled \/ cancelled' = TRUE, places' = places \/ pc = "open"
  PROVE  OwnersInv'
<1>1. Input' = Input
  BY DEF Input
<1>2. MetadataInv => MetadataInv'
  BY <1>1 DEF MetadataInv, ReadInv
<1>3. CodeownersInv => CodeownersInv'
  BY <1>1 DEF CodeownersInv
<1>4. ConsumersInv => ConsumersInv'
  BY <1>1 DEF ConsumersInv
<1>5. OwnerIsRightOrReported => OwnerIsRightOrReported'
  BY <1>1 DEF OwnerIsRightOrReported
<1>6. QED
  BY <1>2, <1>3, <1>4, <1>5 DEF OwnersInv

\* Before the first step nothing is read and no owner is changed.
LEMMA InitOwners == Init => OwnersInv
<1> SUFFICES ASSUME Init PROVE OwnersInv
  OBVIOUS
<1>1. /\ evidence = NoEvidence /\ position = 0 /\ loaded = {} /\ rules = << >> /\ codeowners = {}
      /\ pc \in {"load", "metrics", "manifest", "ownership"}
  BY DEF Init
<1>2. ASSUME task.kind = "ownership" PROVE MetadataInv /\ CodeownersInv /\ ConsumersInv
  <2>1. /\ pc = "ownership" /\ places = Input.places
        /\ owners = [c \in DOMAIN Input.consumers |-> Input.consumers[c].owner]
    BY <1>2 DEF Init, FileKinds
  <2>2. isList(rules) /\ "diagnostics" \in DOMAIN evidence
    BY <1>1, NoRules DEF NoEvidence
  <2>3. QED
    BY <1>1, <2>1, <2>2 DEF MetadataInv, CodeownersInv, ConsumersInv
<1>3. QED
  BY <1>1, <1>2 DEF OwnersInv, OwnerIsRightOrReported

\* Every step keeps what was read right, and so the owners.
LEMMA NextOwners == AdaptersInv /\ OwnersInv /\ [Next]_vars => OwnersInv'
<1> SUFFICES ASSUME AdaptersInv, OwnersInv, [Next]_vars PROVE OwnersInv'
  OBVIOUS
<1>1. CASE UNCHANGED vars
  BY <1>1, OwnersQuiet DEF vars, ownership
<1>2. CASE Cancel
  BY <1>2, OwnersQuiet DEF Cancel, ownership
<1>3. CASE RemoveCodeowners
  BY <1>3, OwnersQuiet DEF RemoveCodeowners
<1>4. CASE Finished
  BY <1>4, OwnersQuiet DEF Finished, vars, ownership
<1>5. ASSUME Next PROVE task' = task
  BY <1>5 DEF Next, Cancel, LoadRules, LoadDashboard, LoadScaledObjects, LoadTemplates, LoadSloth, LoadPyrra, LoadHPA,
     LoadRuntimeQueries, LoadFile, GetMetrics, GetPartialMetrics, GetPendingUsages, ServiceMoves, ReadManifest, ValidateQuery,
     StartOwnership, LoadMetadataRules, LoadMetadataFile, FindCodeowners, OpenCodeowners, RemoveCodeowners, EnrichConsumer,
     Finished, vars
<1>6. CASE Next /\ task.kind # "ownership"
  BY <1>5, <1>6 DEF OwnersInv, OwnerIsRightOrReported
<1>7. ASSUME task.kind = "ownership" PROVE ownershipInput(Input)
  BY <1>7, TasksAssumption DEF AdaptersInv, StepsInv, Input
<1>8. ASSUME LoadRules \/ LoadDashboard \/ LoadScaledObjects \/ LoadTemplates \/ LoadSloth \/ LoadPyrra \/ LoadHPA
             \/ LoadRuntimeQueries
      PROVE  task.kind # "ownership"
  <2>1. pc = "load"
    BY <1>8 DEF LoadRules, LoadDashboard, LoadScaledObjects, LoadTemplates, LoadSloth, LoadPyrra, LoadHPA, LoadRuntimeQueries, LoadFile
  <2>2. QED
    BY <2>1 DEF AdaptersInv, StepsInv, FileKinds
<1>9. ASSUME GetMetrics \/ GetPartialMetrics \/ GetPendingUsages \/ ServiceMoves \/ ReadManifest \/ ValidateQuery
      PROVE  task.kind # "ownership"
  <2>1. pc \in Endpoints \cup {"manifest", "query"}
    BY <1>9 DEF GetMetrics, GetPartialMetrics, GetPendingUsages, ServiceMoves, ReadManifest, ValidateQuery, Endpoints
  <2>2. QED
    BY <2>1 DEF AdaptersInv, StepsInv
<1>10. QED
  BY <1>1, <1>2, <1>3, <1>4, <1>6, <1>7, <1>8, <1>9, OwnershipStarted, PatternTaken, FileTaken, CodeownersFound,
     CodeownersOpened, ConsumerEnriched DEF Next

\* For every set of metadata files, every CODEOWNERS and every consumer,
\* however the patterns overlap, wherever the context is cancelled and
\* whenever the file is removed between the search and the reading: an
\* enrichment that returns without an error and has reported nothing gave each
\* consumer the owner that the files give it.
THEOREM OwnersAreRightOrReported == Spec => []OwnerIsRightOrReported
<1>1. OwnersInv => OwnerIsRightOrReported
  BY DEF OwnersInv
<1>2. QED
  BY <1>1, InitAdapters, NextAdapters, InitOwners, NextOwners, PTL DEF Spec
=============================================================================
