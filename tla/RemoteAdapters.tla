--------------------------- MODULE RemoteAdapters ---------------------------
(***************************************************************************)
(* The adapters that ask a service: Perses metrics usage                   *)
(* (adapters/persesusage) and Tempo query manifests (adapters/tempo).      *)
(*                                                                         *)
(* A Perses response is a set of entries [metric, null, users, matching]:  *)
(* users are those of the metric, [kind, id, expr], where kind is          *)
(* "dashboard", "alert_rule" or "recording_rule"; matching are the metrics *)
(* that a partial name matches.  What is found is collected as a builder   *)
(* [uses, diagnostics], whose diagnostics are the endpoints they are about.*)
(***************************************************************************)
EXTENDS FileAdapters

NothingBuilt == [uses |-> {}, diagnostics |-> {}]
join(parts) == [uses |-> UNION {p.uses : p \in parts}, diagnostics |-> UNION {p.diagnostics : p \in parts}]
addEndpointDiagnostic(origin) == [NothingBuilt EXCEPT !.diagnostics = {origin}]

\* A user without an identity is reported, not kept.
addUsage(metric, users, origin, partial) ==
  [uses |-> {[metric |-> metric, user |-> u, partial |-> partial] : u \in {u \in users : u.id # NoName}},
   diagnostics |-> IF \E u \in users : u.id = NoName THEN {origin} ELSE {}]

addMetrics(entries, origin) ==
  join({IF e.metric = NoName \/ e.null THEN addEndpointDiagnostic(origin) ELSE addUsage(e.metric, e.users, origin, FALSE) :
          e \in entries})
addPendingUsage(entries, origin) == addMetrics(entries, origin)

\* A pattern, and every metric the service says it matches.
addPartialMetrics(entries, origin) ==
  join(UNION {IF e.metric = NoName \/ e.null THEN {addEndpointDiagnostic(origin)}
              ELSE {addUsage(e.metric, e.users, origin, TRUE)}
                   \cup {IF m = NoName THEN addEndpointDiagnostic(origin) ELSE addUsage(m, e.users, origin, FALSE) :
                           m \in e.matching} : e \in entries})

consumerOf(user) == <<user.kind, user.id>>

\* A dashboard's labels are not known; a partial name has to be resolved.
addUsageReference(use) ==
  {MetricReference(use.metric, use.partial)}
  \cup (IF use.user.kind = "dashboard" /\ ~use.partial THEN {unresolvedSelectorReference(use.metric)} ELSE {})

\* A rule must have one expression; of several, one is analysed all the same.
analyzeRule(id, expressions, required) ==
  LET e == CHOOSE e \in expressions : TRUE
      one == analyzeConsumer(id, {e}, required)
  IN IF Cardinality(expressions) = 1 THEN one
     ELSE [one EXCEPT !.unresolved = {id}, !.diagnostics = {[about |-> id, required |-> required]}]

build(built, required) ==
  LET of(id) == {u \in built.uses : consumerOf(u.user) = id}
      known(id) ==
        [NoEvidence EXCEPT !.consumers = {id},
           !.references = {[consumer |-> id, symbol |-> r] : r \in UNION {addUsageReference(u) : u \in of(id)}}]
      ids == {consumerOf(u.user) : u \in built.uses}
      rules == {id \in ids : id[1] # "dashboard"}
  IN merge({known(id) : id \in ids}
           \cup {analyzeRule(id, {u.user.expr : u \in of(id)}, required) : id \in rules}
           \cup {[NoEvidence EXCEPT !.diagnostics = {[about |-> <<"endpoint", o>>, required |-> required] : o \in built.diagnostics}]})

(***************************************************************************)
(* Tempo.  A manifest is a sequence of queries [id, tokens, valid].        *)
(***************************************************************************)
validateManifest(queries) ==
  /\ queries # << >>
  /\ \A i \in DOMAIN queries : queries[i].id # NoName /\ queries[i].valid
  /\ \A i, j \in DOMAIN queries : queries[i].id = queries[j].id => i = j

\* The symbol of an attribute; its parent is its domain.
TraceReference(kind, domain, name) ==
  [kind |-> kind, name |-> name, parent |-> domain, resolve |-> FALSE, scope |-> "any"]

\* The attribute, and what the first mapping that fits makes of it.
appendReference(r, mappings) ==
  LET fits == {i \in DOMAIN mappings : mappings[i].kind = r.kind /\ mappings[i].tempo = r.name} IN
  {TraceReference(r.kind, "tempo", r.name)}
  \cup (IF fits = {} THEN {} ELSE {TraceReference(r.kind, "otel", mappings[Min(fits)].otel)})

\* One query, after Tempo accepted it or not.
analyzeQuery(query, accepted, mappings, required) ==
  LET id == <<"tempo", query.id>>
      analysis == AnalyzeTrace(query.tokens)
      gap == ~accepted \/ analysis.unresolved # {}
  IN [consumers |-> {id},
      unresolved |-> IF gap THEN {id} ELSE {},
      references |-> IF accepted
                     THEN UNION {{[consumer |-> id, symbol |-> s] : s \in appendReference(r, mappings)} : r \in analysis.references}
                     ELSE {},
      diagnostics |-> IF gap THEN {[about |-> id, required |-> required]} ELSE {}]
=============================================================================
