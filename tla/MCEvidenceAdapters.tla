------------------------- MODULE MCEvidenceAdapters -------------------------
EXTENDS EvidenceAdapters, TLC

\* PromQL texts and what is in them.
Selector(name, named, labels) == [name |-> name, named |-> named, labels |-> labels]
Matcher(equal, value, admits) == [equal |-> equal, value |-> value, admits |-> admits]
Text(form, variables, selectors, nodes) == [form |-> form, variables |-> variables, selectors |-> selectors, nodes |-> nodes]
Query(selectors, nodes) == Text("query", {}, selectors, nodes)
Node(labels, over) == [function |-> FALSE, labels |-> labels, wrapped |-> {}, over |-> over]
Function(labels, wrapped, over) == [function |-> TRUE, labels |-> labels, wrapped |-> wrapped, over |-> over]
SelA == Selector("a", << >>, {"l1"})
SelEqual == Selector("", <<Matcher(TRUE, "b", {"b"})>>, {})
SelPattern == Selector("", <<Matcher(FALSE, "a|b", {"a", "b"})>>, {})
SelPatternFirst == Selector("", <<Matcher(FALSE, "a|b", {"a", "b"}), Matcher(TRUE, "b", {"b"})>>, {"l2"})
SelNot == Selector("", <<Matcher(FALSE, "a", {"b"})>>, {"l1"})
SelLabels == Selector("", << >>, {"l2"})
SelVariable == Selector("", <<Matcher(TRUE, "$metric", {"a", "b"})>>, {"l1"})
SelTemplate == Selector("", <<Matcher(TRUE, "${metric}", {"a", "b"})>>, {"l1"})
SelVariablePattern == Selector("", <<Matcher(FALSE, "$metric", {"a", "b"}), Matcher(TRUE, "$metric", {"a", "b"})>>, {})
MCSyntax ==
  "qA" :> Query({SelA}, {}) @@ "qEqual" :> Query({SelEqual}, {}) @@
  "qPattern" :> Query({SelPattern}, {}) @@ "qFirst" :> Query({SelPatternFirst}, {}) @@
  "qNot" :> Query({SelNot}, {}) @@ "qLabels" :> Query({SelLabels}, {}) @@
  "qSum" :> Query({SelA}, {Node({"l2"}, {SelA})}) @@
  "qMixed" :> Query({SelA, SelPattern}, {Node({"l2", "__name__"}, {SelA, SelPattern})}) @@
  "qVector" :> Query({}, {Node({"l1"}, {})}) @@
  "qInvalid" :> Text("invalid", {}, {}, {}) @@ "qBlank" :> Text("blank", {}, {}, {}) @@
  \* sum by (l2) ({__name__="${metric}",l1="x"}) and rate(a{l1="x"}[$__range])
  "qTemplate" :> Text("query", {"${"}, {SelTemplate}, {Node({"l2"}, {SelTemplate})}) @@
  "qRange" :> Text("invalid", {"$__"}, {SelA}, {}) @@
  \* a{l1="[[x]]"}, $metric{l1="x"} and a{l1="$x"}
  "qBrackets" :> Text("query", {"[["}, {SelA}, {}) @@ "qBare" :> Text("invalid", {"$"}, {SelVariable}, {}) @@
  "qValue" :> Text("query", {"$"}, {SelA}, {}) @@
  \* {__name__=~"$metric",__name__="$metric"} and a + sum by (l2) ({__name__="$metric",l1="x"})
  "qVariablePattern" :> Text("query", {"$"}, {SelVariablePattern}, {}) @@
  "qVariable" :> Text("query", {"$"}, {SelA, SelVariable}, {Node({"l2"}, {SelVariable})}) @@
  \* label_join(a{l1="x"}, "$dst", "-", "__name__", ("l2"))
  "qJoin" :> Text("query", {"$"}, {SelA}, {Function({"$dst", "__name__", "l2"}, {"l2"}, {SelA})})
Few == {"qA", "qPattern", "qTemplate", "qBlank"}

Task(kind, inputs) == [kind : {kind}, input : inputs, required : BOOLEAN]

Rule(record, alert, expr) == [record |-> record, alert |-> alert, expr |-> expr]
RuleDocuments ==
  {<< >>, <<[empty |-> TRUE, groups |-> << >>]>>, <<[empty |-> FALSE, groups |-> << >>]>>}
  \cup {<<[empty |-> TRUE, groups |-> << >>], [empty |-> FALSE, groups |-> <<[named |-> n, rules |-> <<Rule(r, TRUE, x), Rule(TRUE, FALSE, y)>>]>>]>> :
          n, r \in BOOLEAN, x \in Texts, y \in Few}

Target(hide, source, expr) == [hide |-> hide, source |-> source, expr |-> expr]
Sources == {"", "prometheus", "loki"}
Dashboards ==
  {[titled |-> t, source |-> d, variables |-> <<[source |-> v, expr |-> x]>>,
    panels |-> <<[source |-> p, targets |-> <<Target(FALSE, s, x), Target(h, "", y)>>]>>] :
     t, h \in BOOLEAN, d, p, s, v \in Sources, x \in Few, y \in {"qA", "qNot"}}

Item(prometheus, query) == [prometheus |-> prometheus, query |-> query]
Manifests ==
  {<<[own |-> o, valid |-> v, templates |-> t, items |-> i], [own |-> FALSE, valid |-> FALSE, templates |-> FALSE, items |-> << >>]>> :
     o, v, t \in BOOLEAN, i \in {<< >>} \cup {<<Item(p, x), Item(TRUE, y)>> : p \in BOOLEAN, x \in Texts, y \in Few}}
SLOs == {<< >>} \cup {<<[valid |-> v, queries |-> {x, y}], [valid |-> TRUE, queries |-> {x, "qMixed"}]>> :
                        v \in BOOLEAN, x \in Texts, y \in Texts}

Prometheus(labels, ignored) == [metric |-> "a", labels |-> labels, ignored |-> ignored]
Mappings ==
  {<<[type |-> "pods", metric |-> "m", ignore |-> i, prometheus |-> p], [type |-> t, metric |-> "m", ignore |-> TRUE, prometheus |-> {}]>> :
     i \in BOOLEAN, t \in {"pods", "external"},
     p \in {{}} \cup {{Prometheus(l, g)} : l \in {<< >>, "k1" :> "l1", "k1" :> "l1" @@ "k2" :> "l1"}, g \in SUBSET {"k1", "k2"}}}
Autoscalers ==
  [mapping : Mappings,
   documents : {<<[own |-> TRUE, valid |-> v, metrics |-> <<[builtin |-> b, type |-> t, name |-> n, labels |-> l]>>]>> :
                  v, b \in BOOLEAN, t \in {"pods", "external"}, n \in {"m", "other"}, l \in SUBSET {"k1", "k2", "k3"}}]

Line(form, query, time) == [form |-> form, query |-> query, time |-> time]
QueryLogs ==
  [window : {0, 1},
   lines : {<<Line(f, x, t), Line(g, y, 1), Line("event", "qA", u), Line(h, "qPattern", 1)>> :
              f \in {"event", "invalid"}, g \in {"blank", "event"}, h \in {"blank", "event"},
              x \in Few \ {"qBlank"}, y \in {"qA", "qNot"}, t \in 0..3, u \in {0, 2}}]

User(kind, id, expr) == [kind |-> kind, id |-> id, expr |-> expr]
Entry(metric, null, users, matching) == [metric |-> metric, null |-> null, users |-> users, matching |-> matching]
Services ==
  {Entry("a", FALSE, {User("dashboard", i, "qBlank"), User("alert_rule", "r1", x)}, {}) :> "metrics" @@
   Entry("b", n, {User("alert_rule", "r1", y), User("dashboard", "d1", "qBlank")}, {}) :> p @@
   Entry(m, FALSE, {User("recording_rule", "r2", x)}, {"a", ""}) :> "partial_metrics" :
     i \in {"", "d1"}, x \in {"qA", "qMixed"}, y \in {"qA", "qTemplate", "qBlank"}, n \in BOOLEAN,
     p \in {"metrics", "pending_usages"}, m \in {"", "a.*"}}

Token(kind, name, template) == [kind |-> kind, name |-> name, template |-> template]
TempoQuery(id, valid, tokens) == [id |-> id, valid |-> valid, tokens |-> tokens]
TempoManifests ==
  [mappings : {<< >>, <<[kind |-> "span", tempo |-> "x", otel |-> "http.x"], [kind |-> "resource", tempo |-> "x", otel |-> "service.x"]>>},
   queries : {<< >>} \cup {<<TempoQuery("q1", TRUE, <<Token(k, n, t), Token(l, "x", FALSE)>>),
                             TempoQuery(i, v, <<Token("quoted", "", FALSE), Token("resource", "y", FALSE)>>)>> :
                             k \in {"span", "resource", "unterminated", "event"}, l \in {"resource", "plain"},
                             n \in {"", "x"}, i \in {"", "q1", "q2"}, v, t \in BOOLEAN}]

OwnedConsumers ==
  <<[id |-> "c1", kind |-> "alert_rule", path |-> "rules", tags |-> {}, owner |-> {}],
    [id |-> "c2", kind |-> "dashboard", path |-> "boards", tags |-> {"team:x", "team:y"}, owner |-> {}],
    [id |-> "c3", kind |-> "dashboard", path |-> "", tags |-> {"team:x"}, owner |-> {}],
    [id |-> "c4", kind |-> "slo", path |-> "rules", tags |-> {}, owner |-> {"adapter"}]>>
MetaRule(id, consumer, kind, paths, tag, owner) ==
  [id |-> id, consumer |-> consumer, kind |-> kind, paths |-> paths, tag |-> tag, owner |-> owner]
File(path, readable, entries) == [path |-> path, readable |-> readable, rules |-> entries]
Meta1 == File("m1", TRUE, <<MetaRule("k", "", "dashboard", {"boards"}, "", "web"), MetaRule("t", "c4", "", {}, "", "slo")>>)
Meta2 == File("m2", TRUE, <<MetaRule("k", "", "dashboard", {}, "team:x", "x-lead")>>)
MetaBad == File("m3", TRUE, <<MetaRule("k", "", "", {}, "", "all")>>)
MetaGone == File("m4", FALSE, Meta2.rules)
OwnerLine(form, paths, names) == [form |-> form, paths |-> paths, owners |-> names]
OwnerFiles ==
  {".github/CODEOWNERS" :> <<OwnerLine("rule", {"rules", "boards"}, {"all"}), OwnerLine(f, {"boards"}, o)>> @@
   "CODEOWNERS" :> <<OwnerLine("comment", {}, {}), OwnerLine("rule", {"rules"}, {"root"})>> @@ "docs/CODEOWNERS" :> << >> :
     f \in {"rule", "invalid"}, o \in {{}, {"p", "q"}}}
OwnershipInputs ==
  [enabled : BOOLEAN, tags : BOOLEAN, codeowners : BOOLEAN, configured : {"", "CODEOWNERS"}, consumers : {OwnedConsumers},
   patterns : {<< >>, <<<<Meta1>>>>, <<<<Meta1, Meta2>>, <<Meta1>>>>, <<<<MetaBad>>, <<Meta2>>>>, <<<<MetaGone>>>>, << << >> >>},
   places : {".github/CODEOWNERS" :> g @@ "CODEOWNERS" :> r @@ "docs/CODEOWNERS" :> "missing" :
               g, r \in {"missing", "file", "unusable"}},
   lines : OwnerFiles]

MCTasks ==
  Task("rules", RuleDocuments) \cup Task("dashboard", Dashboards) \cup Task("keda", Manifests) \cup Task("argo", Manifests)
  \cup Task("sloth", [service : BOOLEAN, slos : SLOs]) \cup Task("pyrra", SLOs) \cup Task("hpa", Autoscalers)
  \cup Task("runtime", QueryLogs) \cup Task("perses", [service : Services]) \cup Task("tempo", TempoManifests)
  \cup [kind : {"ownership"}, input : OwnershipInputs, required : {FALSE}]
MCOwnerTags == "team:x" :> "x" @@ "team:y" :> "y"
=============================================================================
