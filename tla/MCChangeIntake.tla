--------------------------- MODULE MCChangeIntake ---------------------------
EXTENDS ChangeIntake, TLC

MCBaseName == ("m" :> "m") @@ ("h" :> "h") @@ ("h_bucket" :> "h")

\* Prometheus: a plain metric and a histogram, with and without metadata.
S(name, labels) == [name |-> name, labels |-> labels]
E(type, unit) == [type |-> type, unit |-> unit]
SomeSeries == {{}, {S("m", {"l"})}, {S("m", {})}, {S("m", {"l"}), S("h_bucket", {"l"})}}
SomeMeta == {"m" :> {E("counter", "")}, "m" :> {E("gauge", "s")},
             ("m" :> {E("counter", "")}) @@ ("h" :> {E("histogram", "")})}
NoMeta == [n \in {} |-> {}]
MCServerStates ==
  {[series |-> s, meta |-> m] : s \in SomeSeries, m \in SomeMeta}
  \cup {[series |-> {S("h_bucket", {"l"})}, meta |-> NoMeta],
        [series |-> {S("h_bucket", {"l"})}, meta |-> "h" :> {E("histogram", "")}],
        [series |-> {}, meta |-> "h" :> {E("histogram", "")}],
        [series |-> {S("m", {"l"}), S("m", {}), S("h_bucket", {"l"}), S("h_bucket", {})}, meta |-> "m" :> {E("", "")}],
        [series |-> {S("m", {"l"})}, meta |-> "m" :> {E("counter", ""), E("gauge", "")}],
        [series |-> {S("m", {"l"})}, meta |-> "m" :> {E("unsupported", "")}],
        [series |-> {S("m", {"l"})},
         meta |-> ("m" :> {E("counter", "")}) @@ ("h" :> {E("summary", "")}) @@ ("h_bucket" :> {E("", "")})]}

Metric(name, labels) == [name |-> name, type |-> "counter", unit |-> "", labels |-> labels]
Document(metrics) == [decodes |-> TRUE, snapshot |-> [envelope |-> "TelemetrySnapshot", name |-> "hand", metrics |-> metrics]]
MCHandWritten == {Document(<<Metric("m", <<"l">>), Metric("m", << >>)>>), Document(<<Metric("m", <<"l", "l">>)>>),
                  Document(<<Metric("m", <<"l">>)>>)}

\* Weaver: up to two items of two kinds, and mappings that fit some of them.
Item(type, name, old, new, note) == [type |-> type, name |-> name, old_name |-> old, new_name |-> new, note |-> note]
Items == {Item("added", {"x"}, {}, {}, {}), Item("removed", {"a"}, {}, {}, {}), Item("removed", {" "}, {}, {}, {}),
          Item("renamed", {}, {"a"}, {"b"}, {"n"}), Item("renamed", {}, {"a"}, {"b"}, {}),
          Item("obsoleted", {"a"}, {}, {}, {"long"}), Item("uncategorized", {"a"}, {}, {}, {"n"}),
          Item("updated", {"a"}, {}, {}, {}), Item("moved", {"a"}, {}, {}, {})}
Groups(metric, attribute) ==
  [k \in {"attribute", "attribute_group", "entity", "event", "metric", "span"} |->
     IF k = "metric" THEN metric ELSE IF k = "attribute" THEN attribute ELSE << >>]
Diff(groups) == [decodes |-> TRUE, complete |-> TRUE, format |-> "v2", groups |-> groups]
Diffs == {Diff(Groups(a, b)) : a, b \in {<< >>} \cup {<<i>> : i \in Items}}
         \cup {Diff(Groups(<<i, j>>, << >>)) : i, j \in Items}
         \cup {[Diff(Groups(<< >>, << >>)) EXCEPT !.format = f, !.groups["attribute_group"] = <<Item("removed", {"a"}, {}, {}, {})>>] :
                 f \in {"v1", "v2", "neither"}}
Target(kind, metric, from, to) == [kind |-> kind, metric |-> metric, from |-> from, to |-> to]
Entry(id, kind, type, to, target, ignore) ==
  [id |-> <<id>>, weaver |-> [kind |-> kind, type |-> type, from |-> "a", to |-> to], target |-> target, ignore |-> ignore]
M(name) == [metric |-> name, label |-> ""]
L(name) == [metric |-> "", label |-> name]
Entries == {Entry("1", "metric", "renamed", "b", {Target("metric_rename", "", M("m"), {M("m2")})}, ""),
            Entry("1", "metric", "renamed", "b", {Target("metric_rename", "", M("m"), {M("m")})}, " "),
            Entry("2", "metric", "removed", "", {Target("metric_remove", "", M("m"), {})}, ""),
            Entry("2", "metric", "obsoleted", "", {Target("metric_remove", " ", M("m"), {})}, ""),
            Entry("3", "attribute", "removed", "", {Target("label_remove", "m", L("l"), {})}, ""),
            Entry("3", "metric", "uncategorized", "", {}, "not exported"),
            Entry("4", "metric", "removed", "", {}, "not exported"),
            Entry("4", "attribute_group", "removed", "", {}, "not exported"),
            Entry("4", "attribute", "renamed", "b", {Target("label_remove", "m", L("l"), {})}, "")}
Mapping(entries) == [decodes |-> TRUE, envelope |-> "WeaverMapping", name |-> "map", entries |-> entries]
Mappings == {Mapping(<<e>>) : e \in Entries} \cup {Mapping(<<e, f>>) : e, f \in Entries} \cup {Mapping(<< >>)}
MCWeaverInputs == {[diff |-> d, mapping |-> m] : d \in Diffs, m \in Mappings}

\* Hand-written changes, right and wrong in every field.
Symbols == {[domain |-> "prometheus", kind |-> k, name |-> n, parent |-> p] :
              k \in {"metric", "label"}, n \in {"m", "n", " "}, p \in {"", "m"}}
Changes == {[id |-> <<"1">>, kind |-> k, domain |-> d, from |-> f, to |-> t, metadata |-> x] :
              k \in {"metric_rename", "label_rename", "label_remove", "span_attribute_remove"},
              d \in {"prometheus", "tempo"}, f \in Symbols,
              t \in {{}} \cup {{s} : s \in Symbols}, x \in {"within"}}
Removal(id, metadata) == [removalChange("metric_remove", "m", "") EXCEPT !.id = id, !.metadata = metadata]
ChangeFile(changes) == MarshalChangeSet(changeSetOf("c", changes), TRUE)
MCChangeFiles == {ChangeFile(<<c>>) : c \in Changes} \cup {ChangeFile(<< >>)}
  \cup {ChangeFile(<<Removal(i, x), Removal(j, "within")>>) :
          i, j \in {<<"1">>, <<"2">>, << >>}, x \in {"within", "exceeds"}}

Fields == {[metric |-> a, label |-> b, attribute |-> c] : a, b \in {"", "m"}, c \in {"", "s"}}
MigrationChanges == {[id |-> <<"1">>, kind |-> k, domain |-> d, metric |-> p, from |-> f, to |-> t] :
              k \in {"metric_rename", "label_remove", "label_rename", "span_attribute_rename"},
              d \in {"prometheus", "tempo"}, p \in {"", "m"}, f \in Fields,
              t \in {{}, {[metric |-> "n", label |-> "", attribute |-> ""]},
                     {[metric |-> "", label |-> "n", attribute |-> ""]}, {[metric |-> "", label |-> "", attribute |-> "n"]}}}
MCMigrationFiles == {[decodes |-> TRUE, envelope |-> "Migration", name |-> "c", changes |-> <<c>>] : c \in MigrationChanges}
=============================================================================
