---------------------------- MODULE MCCommandLine ----------------------------
(* The command line for TLC: inputs of every shape, documents of every verdict. *)
EXTENDS CommandLine

MCSources ==
  {{}, {"changes"}, {"baseline"}, {"candidate"}, {"baseline", "candidate"},
   {"weaver-diff"}, {"weaver-diff", "weaver-mapping"}, {"migration"},
   {"changes", "weaver-diff"}, {"changes", "baseline", "candidate"},
   {"migration", "changes"}, {"migration", "candidate"}}

Remote(mode, origins, loopback) == [mode |-> mode, origins |-> origins, loopback |-> loopback]
MCRemote == {Remote("disabled", "none", FALSE), Remote("disabled", "none", TRUE),
             Remote("enabled", "none", FALSE), Remote("enabled", "blank", FALSE),
             Remote("enabled", "good", TRUE)}

Paths(report, json, status) == [report |-> report, json |-> json, status |-> status]
MCOutputs == {Paths("report", "json", "status"), Paths("report", "report", ""),
              Paths("", "json", "status")}

Source(family, required, fields) == [family |-> family, required |-> required, fields |-> fields]
Rules(required) == Source("pattern", required, [path |-> "good"])
Tempo == Source("tempo", "unset", [path |-> "good", url |-> "good", timeout |-> "",
                                   bearerTokenEnv |-> "", criticality |-> ""])
Attribute(otel, tempo) == [scope |-> "span", opentelemetry |-> otel, tempo |-> tempo]

Good == [decodes |-> TRUE, apiVersion |-> "tcg/v1alpha1", kind |-> "Config",
         sources |-> <<Rules("unset"), Tempo>>, traceAttributes |-> <<Attribute("a", "b")>>,
         ownership |-> [present |-> TRUE, root |-> "", metadata |-> {"inside"}, codeowners |-> ""],
         unresolved |-> "", minimum |-> "", formats |-> <<>>]

MCDocuments ==
  {Good,
   [Good EXCEPT !.apiVersion = "tmr/v1alpha1", !.kind = "", !.sources = <<Rules("false")>>],
   [Good EXCEPT !.kind = ""],
   [Good EXCEPT !.sources = <<>>],
   [Good EXCEPT !.sources = <<Source("hpa", "unset", [path |-> "good", mapping |-> ""])>>],
   [Good EXCEPT !.traceAttributes = <<Attribute("a", "b"), Attribute("c", "b")>>],
   [Good EXCEPT !.ownership.metadata = {"outside"}],
   [Good EXCEPT !.formats = <<"unknown">>],
   [Good EXCEPT !.formats = <<"json", "console">>]}

MCInodes == 1 .. 4
=============================================================================
