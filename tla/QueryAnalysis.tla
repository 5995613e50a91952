--------------------------- MODULE QueryAnalysis ---------------------------
(***************************************************************************)
(* What the query analysers extract from an expression (pkg/promql,        *)
(* pkg/traceql).                                                           *)
(*                                                                         *)
(* A PromQL text is [form, variables, selectors, nodes].  form says        *)
(* whether it is blank, is a query or does not parse; variables are the    *)
(* notations of template variables that occur in it, "${", "[[", "$__" and *)
(* the plain "$"; selectors are its vector selectors, [name, named,        *)
(* labels], where named is the sequence of matchers [equal, value, admits] *)
(* on __name__; nodes are the aggregations, vector matchings and label     *)
(* functions, [function, labels, wrapped, over], where over are the        *)
(* selectors below them and wrapped the labels that a function is given in *)
(* parentheses.                                                            *)
(*                                                                         *)
(* A TraceQL text is given as a sequence of tokens [kind, name].           *)
(***************************************************************************)
EXTENDS Naturals, Sequences, SequencesExt

NoName == ""
MetricNameLabel == "__name__"

MetricReference(name, resolve) ==
  [kind |-> "metric", name |-> name, parent |-> NoName, resolve |-> resolve, scope |-> "any"]
LabelReference(name, parent, resolve) ==
  [kind |-> "label", name |-> name, parent |-> parent, resolve |-> resolve, scope |-> "any"]

\* A defect to detect: a selector that only has a pattern for the metric's
\* name has no name.
equalMatcher(selector) ==
  [name |-> IF selector.named # << >> /\ Head(selector.named).equal THEN Head(selector.named).value ELSE selector.name,
   pattern |-> NoName]

\* The first matcher on the metric's name decides.
selectorMetric(selector) ==
  CASE selector.name # NoName -> [name |-> selector.name, pattern |-> NoName]
    [] selector.name = NoName /\ selector.named = << >> -> [name |-> NoName, pattern |-> NoName]
    [] OTHER -> LET first == Head(selector.named) IN
                IF first.equal THEN [name |-> first.value, pattern |-> NoName]
                ELSE [name |-> NoName, pattern |-> first.value]

collectVectorSelector(selector) ==
  LET metric == selectorMetric(selector) IN
  (CASE metric.name # NoName -> {MetricReference(metric.name, FALSE)}
     [] metric.name = NoName /\ metric.pattern # NoName -> {MetricReference(metric.pattern, TRUE)}
     [] OTHER -> {})
  \cup {LabelReference(l, metric.name, metric.name = NoName) : l \in selector.labels}

metricNames(over) == {selectorMetric(s).name : s \in over} \ {NoName}

addLabelForMetrics(label, metrics) ==
  IF metrics = {} THEN {LabelReference(label, NoName, TRUE)} ELSE {LabelReference(label, m, FALSE) : m \in metrics}

\* Only an argument that is a string as it stands is looked at.
stringArguments(node) == node.labels \ node.wrapped

\* Label functions, and grouping and vector matching.
collectLabels(node) ==
  UNION {addLabelForMetrics(l, metricNames(node.over)) :
           l \in IF node.function THEN stringArguments(node) ELSE node.labels \ {MetricNameLabel}}

\* A plain variable is not taken for a template.  Bare, it does not parse;
\* in quotes, it is the name that it is written as.
containsTemplate(e) == e.variables \cap {"${", "[[", "$__"} # {}

\* Blank and invalid texts are errors, templates are unresolved; no caller
\* distinguishes the two, and neither has references.
Analyze(e) ==
  IF e.form = "blank" \/ containsTemplate(e) \/ e.form = "invalid" THEN [resolved |-> FALSE, references |-> {}]
  ELSE [resolved |-> TRUE,
        references |-> (UNION {collectVectorSelector(s) : s \in e.selectors}) \cup (UNION {collectLabels(n) : n \in e.nodes})]

\* TraceQL: an unterminated quotation ends the scan, whatever follows it.
AnalyzeTrace(tokens) ==
  LET open == {i \in DOMAIN tokens : tokens[i].kind = "unterminated"}
      read == {tokens[i] : i \in {i \in DOMAIN tokens : \A j \in open : i <= j}}
      exact == {t \in read : t.kind \in {"span", "resource"} /\ t.name # NoName /\ ~t.template}
      quiet == {t \in read : t.kind \in {"plain", "quoted"}}
  IN [references |-> {[kind |-> t.kind, name |-> t.name] : t \in exact},
      unresolved |-> read \ (exact \cup quiet)]
=============================================================================
