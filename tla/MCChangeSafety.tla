--------------------------- MODULE MCChangeSafety ---------------------------
(* Three real consumers of a histogram, its bucket series and a rule's output,  *)
(* two consumers with gaps, and one reported twice by different adapters.       *)
EXTENDS ChangeSafety

None == [domain |-> "none", kind |-> "none", name |-> <<>>, parent |-> <<>>]
Metric(name) == [domain |-> "prometheus", kind |-> "metric", name |-> name, parent |-> <<>>]
Label(name, parent) == [domain |-> "prometheus", kind |-> "label", name |-> name, parent |-> parent]

M == <<"m">>
MBucket == <<"m", "_bucket">>
N == <<"n">>
Out == <<"job:m">>

MCChangeSets == {
  {},
  {[id |-> 1, from |-> Metric(M), to |-> Metric(N)]},
  {[id |-> 2, from |-> Label(<<"l">>, M), to |-> Label(<<"k">>, M)]},
  {[id |-> 1, from |-> Metric(M), to |-> None], [id |-> 2, from |-> Label(<<"l">>, M), to |-> None]}}

\* The two panels share an ID and a name.
C(id, kind, crit, unresolved) ==
  [id |-> id, name |-> id, kind |-> kind, criticality |-> crit, unresolved |-> unresolved]

MCConsumers == {
  C("rule", "recording_rule", "high", FALSE),
  C("panel", "dashboard_panel", "low", FALSE),
  C("panel", "dashboard_panel", "high", FALSE),
  C("hpa", "autoscaler", "critical", FALSE),
  C("alert", "alert_rule", "medium", TRUE),
  C("slo", "slo", NoCriticality, FALSE)}

R(id, s, requires, scope) ==
  [consumer |-> id, symbol |-> s, requiresResolution |-> requires, scope |-> scope]

MCReferences == {
  R("rule", Metric(MBucket), FALSE, "all"),
  R("rule", Metric(Out), FALSE, "all"),
  R("panel", Metric(Out), FALSE, "all"),
  R("panel", Metric(M), TRUE, "labels"),
  R("hpa", Metric(M), FALSE, "all"),
  R("hpa", Label(<<"l">>, MBucket), FALSE, "all"),
  R("hpa", Metric(N), TRUE, "all")}

MCProductions == {[consumer |-> "rule", symbol |-> Metric(Out)]}
MCDiagnostics == {[required |-> TRUE], [required |-> FALSE]}
=============================================================================
