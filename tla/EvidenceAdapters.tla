-------------------------- MODULE EvidenceAdapters --------------------------
(***************************************************************************)
(* The steps by which one source becomes evidence, and evidence gets its   *)
(* owners: a file adapter reads its file in one step; the Perses client    *)
(* sends three requests to a service that meanwhile goes on; the Tempo     *)
(* adapter has one query after the other validated; the ownership step     *)
(* reads metadata and CODEOWNERS and then visits every consumer.  The      *)
(* context may be cancelled at any time.                                   *)
(*                                                                         *)
(* A task is [kind, input, required].                                      *)
(***************************************************************************)
EXTENDS RemoteAdapters, Ownership

CONSTANTS
  Tasks,       \* the sources to load
  Metrics,     \* the universe of metrics
  Labels,      \* and of their labels
  OwnerTags,   \* of the dashboard tags that name an owner, the owner
  PlainVariables  \* names that are template variables, written "$name" in quotes

Texts == DOMAIN Syntax
isList(seq) == seq \in Seq(Range(seq))

\* A text that parses and has template variables of the plain notation only.
Plain(q) == Syntax[q].form = "query" /\ Syntax[q].variables \subseteq {"$"}

\* What the PromQL parser promises: a blank text has no selectors, a selector
\* has a name or a matcher, and one with "=" admits at most its own value,
\* unless that is a variable, which may stand for any name; the text of any
\* other matcher is never empty.
ASSUME QueriesAssumption ==
  /\ NoName \notin Metrics
  /\ \A q \in Texts :
       /\ Syntax[q].form \in {"blank", "invalid", "query"} /\ Syntax[q].variables \subseteq {"${", "[[", "$__", "$"}
       /\ Syntax[q].form = "blank" => Syntax[q].selectors = {}
       /\ \A s \in Syntax[q].selectors :
            /\ isList(s.named)
            /\ s.name # NoName \/ s.named # << >> \/ s.labels # {}
            /\ \A i \in DOMAIN s.named :
                 IF s.named[i].equal
                 THEN Plain(q) /\ s.named[i].value \notin PlainVariables => s.named[i].admits \subseteq {s.named[i].value}
                 ELSE s.named[i].value # NoName

\* What the decoded inputs are: their queries are texts, an empty document has
\* no groups, a log is a list of timed lines; of a Perses response, only the
\* partial metrics have matching ones; a comment of CODEOWNERS has no paths;
\* the configuration refuses two mappings of one Tempo attribute.
rulesInput(documents) ==
  \A d \in DOMAIN documents :
    /\ documents[d].empty => documents[d].groups = << >>
    /\ \A g \in DOMAIN documents[d].groups : \A r \in DOMAIN documents[d].groups[g].rules :
         documents[d].groups[g].rules[r].expr \in Texts
dashboardInput(dashboard) ==
  /\ \A p \in DOMAIN dashboard.panels : \A t \in DOMAIN dashboard.panels[p].targets :
       dashboard.panels[p].targets[t].expr \in Texts
  /\ \A v \in DOMAIN dashboard.variables : dashboard.variables[v].expr \in Texts
manifestInput(documents) ==
  \A d \in DOMAIN documents : \A i \in DOMAIN documents[d].items : documents[d].items[i].query \in Texts
slosInput(slos) == \A s \in DOMAIN slos : slos[s].queries \subseteq Texts
logInput(log) ==
  /\ isList(log.lines) /\ log.window \in Nat
  /\ \A n \in DOMAIN log.lines : log.lines[n].time \in Int /\ log.lines[n].query \in Texts
persesInput(listed) ==
  /\ IsFiniteSet(UNION {e.users : e \in DOMAIN listed})
  /\ \A e \in DOMAIN listed :
       /\ listed[e] \in {"metrics", "partial_metrics", "pending_usages"}
       /\ listed[e] # "partial_metrics" => e.matching = {}
       /\ \A u \in e.users : u.expr \in Texts
ownershipInput(input) ==
  /\ isList(input.patterns) /\ \A p \in Range(input.patterns) : isList(p) /\ \A f \in Range(p) : isList(f.rules)
  /\ isList(input.consumers)
  /\ LET path == findCodeowners(input.places, input.configured).path IN
     path # Blank => /\ isList(input.lines[path])
                     /\ \A l \in Range(input.lines[path]) : l.form \notin {"rule", "invalid"} => l.paths = {}
tempoInput(input) ==
  /\ isList(input.queries) /\ \A q \in Range(input.queries) : isList(q.tokens)
  /\ isList(input.mappings)
  /\ \A i, j \in DOMAIN input.mappings :
       input.mappings[i].kind = input.mappings[j].kind /\ input.mappings[i].tempo = input.mappings[j].tempo => i = j

ASSUME TasksAssumption ==
  \A t \in Tasks :
    /\ t.kind = "rules" => rulesInput(t.input)
    /\ t.kind = "dashboard" => dashboardInput(t.input)
    /\ t.kind \in {"keda", "argo"} => manifestInput(t.input)
    /\ t.kind = "sloth" => slosInput(t.input.slos)
    /\ t.kind = "pyrra" => slosInput(t.input)
    /\ t.kind = "runtime" => logInput(t.input)
    /\ t.kind = "perses" => persesInput(t.input.service)
    /\ t.kind = "tempo" => tempoInput(t.input)
    /\ t.kind = "ownership" => ownershipInput(t.input)

VARIABLES
  task, pc, evidence, cancelled,
  built,       \* what the Perses builder holds
  service,     \* where the Perses service lists each entry
  resolved,    \* history: entries that left the pending ones meanwhile
  position,    \* how many queries, patterns or consumers are dealt with
  file,        \* how many files of the current pattern are
  loaded,      \* the metadata files that were looked at
  rules,       \* ownership rules read from metadata
  codeowners,  \* {}, or {the rules of CODEOWNERS}
  places,      \* what is at the paths of CODEOWNERS
  owners       \* of each consumer

perses == <<built, service, resolved>>
ownership == <<file, loaded, rules, codeowners, places, owners>>
vars == <<task, pc, evidence, cancelled, position, perses, ownership>>

Input == task.input
FileKinds == {"rules", "dashboard", "keda", "argo", "sloth", "pyrra", "hpa", "runtime"}

Init ==
  /\ task \in Tasks
  /\ pc = CASE task.kind \in FileKinds -> "load"
            [] task.kind = "perses" -> "metrics"
            [] task.kind = "tempo" -> "manifest"
            [] OTHER -> "ownership"
  /\ evidence = NoEvidence /\ cancelled = FALSE /\ position = 0
  /\ built = NothingBuilt /\ resolved = {}
  /\ service = IF task.kind = "perses" THEN Input.service ELSE << >>
  /\ file = 0 /\ loaded = {} /\ rules = << >> /\ codeowners = {}
  /\ places = IF task.kind = "ownership" THEN Input.places ELSE << >>
  /\ owners = IF task.kind = "ownership" THEN [c \in DOMAIN Input.consumers |-> Input.consumers[c].owner] ELSE << >>

Cancel == ~cancelled /\ pc \notin {"done", "error"} /\ cancelled' = TRUE
          /\ UNCHANGED <<task, pc, evidence, position, perses, ownership>>

(***************************************************************************)
(* File adapters.  A file that cannot be opened is an error, like one that *)
(* is rejected; both end as a diagnostic of the source (EvidenceDiscovery).*)
(***************************************************************************)
LoadFile(kind, found) ==
  /\ pc = "load" /\ task.kind = kind
  /\ IF cancelled \/ found = {} THEN pc' = "error" /\ UNCHANGED evidence
     ELSE pc' = "done" /\ evidence' \in found
  /\ UNCHANGED <<task, cancelled, position, perses, ownership>>

LoadRules == LoadFile("rules", parseRules(Input, task.required))
LoadDashboard == LoadFile("dashboard", parseDashboard(Input, task.required))
LoadScaledObjects ==
  LoadFile("keda", parseManifest(Input, [d \in DOMAIN Input |-> discoverScaledObject(Input[d], d, task.required)]))
LoadTemplates ==
  LoadFile("argo", parseManifest(Input, [d \in DOMAIN Input |-> discoverTemplate(Input[d], d, task.required)]))
LoadSloth == LoadFile("sloth", parseSloth(Input.service, Input.slos, task.required))
LoadPyrra == LoadFile("pyrra", parsePyrra(Input, task.required))
LoadHPA ==
  LoadFile("hpa", IF ~validateMapping(Input.mapping) THEN {}
                  ELSE parseManifest(Input.documents, [d \in DOMAIN Input.documents |->
                         discoverHPA(Input.documents[d], d, Input.mapping, task.required)]))
LoadRuntimeQueries == LoadFile("runtime", parseRuntimeQueries(Input.lines, Input.window, task.required))

(***************************************************************************)
(* Perses: the metrics are needed, the partial and the pending ones are    *)
(* diagnostics when their request fails.                                   *)
(***************************************************************************)
Response(endpoint) == {e \in DOMAIN service : service[e] = endpoint}

GetMetrics ==
  /\ pc = "metrics"
  /\ \/ pc' = "error" /\ UNCHANGED built
     \/ ~cancelled /\ pc' = "partial_metrics" /\ built' = addMetrics(Response("metrics"), "metrics")
  /\ UNCHANGED <<task, evidence, cancelled, position, service, resolved, ownership>>

GetPartialMetrics ==
  /\ pc = "partial_metrics" /\ pc' = "pending_usages"
  /\ \/ built' = join({built, addEndpointDiagnostic("partial_metrics")})
     \/ ~cancelled /\ built' = join({built, addPartialMetrics(Response("partial_metrics"), "partial_metrics")})
  /\ UNCHANGED <<task, evidence, cancelled, position, service, resolved, ownership>>

GetPendingUsages ==
  /\ pc = "pending_usages" /\ pc' = "done"
  /\ \E last \in {addEndpointDiagnostic("pending_usages")}
                 \cup (IF cancelled THEN {} ELSE {addPendingUsage(Response("pending_usages"), "pending_usages")}) :
       /\ built' = join({built, last})
       /\ evidence' = build(built', task.required)
  /\ UNCHANGED <<task, cancelled, position, service, resolved, ownership>>

\* The service learns or forgets the metadata of a metric.
ServiceMoves ==
  /\ pc \in {"metrics", "partial_metrics", "pending_usages"}
  /\ \E e \in DOMAIN service :
       /\ service[e] # "partial_metrics"
       /\ service' = [service EXCEPT ![e] = IF @ = "metrics" THEN "pending_usages" ELSE "metrics"]
       /\ resolved' = IF service[e] = "pending_usages" THEN resolved \cup {e} ELSE resolved
  /\ UNCHANGED <<task, pc, evidence, cancelled, position, built, ownership>>

(***************************************************************************)
(* Tempo.                                                                  *)
(***************************************************************************)
ReadManifest ==
  /\ pc = "manifest"
  /\ pc' = IF cancelled \/ ~validateManifest(Input.queries) THEN "error" ELSE "query"
  /\ UNCHANGED <<task, evidence, cancelled, position, perses, ownership>>

\* A query that Tempo rejects and one that it cannot answer are the same.
ValidateQuery ==
  /\ pc = "query"
  /\ IF position = Len(Input.queries) THEN pc' = "done" /\ UNCHANGED <<evidence, position>>
     ELSE IF cancelled THEN pc' = "error" /\ UNCHANGED <<evidence, position>>
     ELSE /\ pc' = pc /\ position' = position + 1
          /\ \E accepted \in BOOLEAN :
               evidence' = merge({evidence, analyzeQuery(Input.queries[position + 1], accepted, Input.mappings, task.required)})
  /\ UNCHANGED <<task, cancelled, perses, ownership>>

(***************************************************************************)
(* Ownership.  Its diagnostics are never required.                         *)
(***************************************************************************)
report(about) == [evidence EXCEPT !.diagnostics = @ \cup {[about |-> a, required |-> FALSE] : a \in about}]

StartOwnership ==
  /\ pc = "ownership"
  /\ pc' = IF ~Input.enabled THEN "done" ELSE IF cancelled THEN "error" ELSE "metadata"
  /\ UNCHANGED <<task, evidence, cancelled, position, perses, ownership>>

\* The next pattern of metadata files, and nothing more after a cancellation.
LoadMetadataRules ==
  /\ pc = "metadata" /\ file' = 0
  /\ IF cancelled \/ position = Len(Input.patterns) THEN pc' = "codeowners" /\ position' = 0 /\ UNCHANGED evidence
     ELSE /\ pc' = "files" /\ position' = position + 1
          /\ evidence' = report(IF Input.patterns[position + 1] = << >> THEN {<<"pattern", Blank>>} ELSE {})
  /\ UNCHANGED <<task, cancelled, perses, loaded, rules, codeowners, places, owners>>

\* The next file of the pattern; a file is read for its first pattern only.
LoadMetadataFile ==
  /\ pc = "files"
  /\ IF file = Len(Input.patterns[position]) THEN pc' = "metadata" /\ UNCHANGED <<evidence, file, loaded, rules>>
     ELSE LET f == Input.patterns[position][file + 1] IN
          /\ pc' = pc /\ file' = file + 1 /\ loaded' = loaded \cup {f}
          /\ IF f \in loaded THEN UNCHANGED <<evidence, rules>>
             ELSE IF ~f.readable \/ parseMetadata(f.rules) = {} THEN evidence' = report({<<"metadata", f.path>>}) /\ UNCHANGED rules
             ELSE rules' = rules \o f.rules /\ UNCHANGED evidence
  /\ UNCHANGED <<task, cancelled, position, perses, codeowners, places, owners>>

FindCodeowners ==
  /\ pc = "codeowners"
  /\ LET found == findCodeowners(places, Input.configured) IN
     IF cancelled \/ ~Input.codeowners THEN pc' = "consumers" /\ UNCHANGED evidence
     ELSE IF found.error \/ (found.path = Blank /\ Input.configured # Blank)
          THEN pc' = "consumers" /\ evidence' = report({<<"codeowners", 0>>})
     ELSE /\ pc' = IF found.path = Blank THEN "consumers" ELSE "open"
          /\ UNCHANGED evidence
  /\ UNCHANGED <<task, cancelled, position, perses, ownership>>

\* The file that was found may be gone, or be another one, by now.
OpenCodeowners ==
  /\ pc = "open" /\ pc' = "consumers"
  /\ LET path == findCodeowners(Input.places, Input.configured).path
         parsed == parseCodeowners(Input.lines[path])
     IN IF places[path] # "file" THEN evidence' = report({<<"codeowners", 0>>}) /\ UNCHANGED codeowners
        ELSE evidence' = report({<<"codeowners", n>> : n \in parsed.issues}) /\ codeowners' = {parsed.rules}
  /\ UNCHANGED <<task, cancelled, position, perses, file, loaded, rules, places, owners>>

\* Somebody removes the file.
RemoveCodeowners ==
  /\ pc = "open"
  /\ \E p \in DOMAIN places : places[p] = "file" /\ places' = [places EXCEPT ![p] = "missing"]
  /\ UNCHANGED <<task, pc, evidence, cancelled, position, perses, file, loaded, rules, codeowners, owners>>

\* The owner of a consumer by what has been read.
selectOwner(consumer) ==
  LET fromTags == IF Input.tags THEN tagEvidence(consumer, OwnerTags) ELSE NoOwnerEvidence
      known == chooseEvidence(existingOwnerEvidence(consumer), fromTags)
      rule == UNION {matchingCodeownersRule(r, consumer.path) : r \in IF consumer.path = Blank THEN {} ELSE codeowners}
      selected == IF rule = {} THEN known ELSE chooseEvidence(known, evidenceFromCodeowners(CHOOSE r \in rule : TRUE))
      explicit == matchingMetadataRule(rules, consumer)
  IN applyEvidence(consumer, IF explicit = {} THEN selected
                             ELSE [owner |-> {r.owner : r \in explicit}, rank |-> 4])

\* A defect to detect: the context is not looked at again.
EnrichAnyway ==
  /\ pc = "consumers"
  /\ IF position = Len(Input.consumers) THEN pc' = "done" /\ UNCHANGED <<owners, position>>
     ELSE /\ pc' = pc /\ position' = position + 1
          /\ owners' = [owners EXCEPT ![position + 1] = selectOwner(Input.consumers[position + 1])]
  /\ UNCHANGED <<task, evidence, cancelled, perses, file, loaded, rules, codeowners, places>>

EnrichConsumer ==
  /\ pc = "consumers"
  /\ IF position = Len(Input.consumers) THEN pc' = "done" /\ UNCHANGED <<owners, position>>
     ELSE IF cancelled THEN pc' = "error" /\ UNCHANGED <<owners, position>>
     ELSE /\ pc' = pc /\ position' = position + 1
          /\ owners' = [owners EXCEPT ![position + 1] = selectOwner(Input.consumers[position + 1])]
  /\ UNCHANGED <<task, evidence, cancelled, perses, file, loaded, rules, codeowners, places>>

Finished == pc \in {"done", "error"} /\ UNCHANGED vars

Next ==
  \/ Cancel
  \/ LoadRules \/ LoadDashboard \/ LoadScaledObjects \/ LoadTemplates \/ LoadSloth \/ LoadPyrra \/ LoadHPA
  \/ LoadRuntimeQueries
  \/ GetMetrics \/ GetPartialMetrics \/ GetPendingUsages \/ ServiceMoves
  \/ ReadManifest \/ ValidateQuery
  \/ StartOwnership \/ LoadMetadataRules \/ LoadMetadataFile \/ FindCodeowners \/ OpenCodeowners \/ RemoveCodeowners \/ EnrichConsumer
  \/ Finished

Spec == Init /\ [][Next]_vars
-----------------------------------------------------------------------------
(***************************************************************************)
(* What a source uses, by the meaning of its queries and not by what the   *)
(* analysers make of them.  A demand is [by, symbol]: the symbol is used,  *)
(* and by are the consumers and the places that should tell.               *)
(***************************************************************************)
Symbol(kind, name, parent) == [kind |-> kind, name |-> name, parent |-> parent]
MetricAndLabels(m, labels) == {Symbol("metric", m, NoName)} \cup {Symbol("label", l, m) : l \in labels}
Reads(s) == IF s.name # NoName THEN {s.name} ELSE {m \in Metrics : \A i \in DOMAIN s.named : m \in s.named[i].admits}

\* What the analyser cannot know to be a use, and does not report: a metric or
\* a label whose exact name is a plain variable in quotes, in a text without
\* another notation, and a label that a function is given in parentheses.
ByVariable(s) ==
  \/ s.name \in PlainVariables
  \/ s.name = NoName /\ s.named # << >> /\ Head(s.named).equal /\ Head(s.named).value \in PlainVariables
NodeLabels(n) == IF n.function THEN n.labels \ n.wrapped ELSE n.labels \ {MetricNameLabel}
LabelsOf(s, nodes) == (s.labels \cup UNION {NodeLabels(n) : n \in {n \in nodes : s \in n.over}}) \ PlainVariables
Used(q) ==
  UNION {UNION {MetricAndLabels(m, LabelsOf(s, Syntax[q].nodes)) : m \in Reads(s) \cap Metrics} :
           s \in {s \in Syntax[q].selectors : ~(Plain(q) /\ ByVariable(s))}}

Queried(by, q) == {[by |-> by, symbol |-> s] : s \in Used(q)}
ItemsUsed(name, documents) ==
  UNION {UNION {Queried({<<name, d, i>>}, documents[d].items[i].query) :
                  i \in {i \in DOMAIN documents[d].items : documents[d].items[i].prometheus}} :
           d \in {d \in DOMAIN documents : documents[d].own}}
SLOsUsed(slos) == UNION {UNION {Queried({<<"slo", s>>}, q) : q \in slos[s].queries} : s \in DOMAIN slos}

RulesUsed(documents) ==
  UNION {UNION {UNION {Queried({<<"rule", d, g, r>>}, documents[d].groups[g].rules[r].expr) :
    r \in DOMAIN documents[d].groups[g].rules} : g \in DOMAIN documents[d].groups} : d \in DOMAIN documents}
DashboardUsed(dashboard) ==
  LET loki(p, t) == LET sources == <<dashboard.panels[p].targets[t].source, dashboard.panels[p].source, dashboard.source>> IN
                    \E i \in 1..3 : sources[i] = "loki" /\ \A j \in 1..(i - 1) : sources[j] = NoName
      shown(p) == {t \in DOMAIN dashboard.panels[p].targets : ~dashboard.panels[p].targets[t].hide /\ ~loki(p, t)}
  IN (UNION {UNION {Queried({<<"panel", p, t>>}, dashboard.panels[p].targets[t].expr) : t \in shown(p)} : p \in DOMAIN dashboard.panels})
     \cup UNION {Queried({<<"variable", v, 0>>}, dashboard.variables[v].expr) :
                   v \in {v \in DOMAIN dashboard.variables : dashboard.variables[v].source # "loki"}}
HPAUsed(input) ==
  UNION {UNION {LET metric == input.documents[d].metrics[i]
                    found == UNION {e.prometheus : e \in lookup(input.mapping, metric)}
                    label(p, l) == IF l \in DOMAIN p.labels THEN {p.labels[l]} ELSE IF l \in p.ignored THEN {} ELSE Labels
                IN {[by |-> {<<"hpa", d, i>>}, symbol |-> s] :
                      s \in (UNION {MetricAndLabels(p.metric, UNION {label(p, l) : l \in metric.labels}) : p \in found})
                            \cup (IF lookup(input.mapping, metric) = {} THEN MetricAndLabels(metric.name, {}) ELSE {})} :
           i \in {i \in DOMAIN input.documents[d].metrics : ~input.documents[d].metrics[i].builtin}} :
           d \in {d \in DOMAIN input.documents : input.documents[d].own}}

\* An event that is older than the window, counted from the newest event
\* that was read, is no use.
RuntimeUsed(log) ==
  LET lines == log.lines
      records == {n \in DOMAIN lines : lines[n].form # "blank"}
      first(k) == {n \in records : Cardinality({i \in records : i <= n}) <= k}
      limit == first(MaxRecords + 1) \ first(MaxRecords)
      old(n) == /\ n \in first(MaxRecords) /\ lines[n].form = "event" /\ log.window > 0
                /\ \E k \in first(MaxRecords) : lines[k].form = "event" /\ lines[k].time > lines[n].time + log.window
  IN UNION {Queried({<<"query", lines[n].query>>, <<"line", n>>} \cup {<<"line", l>> : l \in {l \in limit : l <= n}}, lines[n].query) :
              n \in {n \in records : ~old(n)}}

\* An entry that left the pending ones while the requests were made may be
\* missed by all of them.
PersesUsed(first, now, gone) ==
  UNION {LET at == {<<"endpoint", first[e]>>, <<"endpoint", now[e]>>}
             metrics == e.matching \cup (IF first[e] = "partial_metrics" THEN {} ELSE {e.metric})
             of(u) == IF u.kind = "dashboard" THEN UNION {MetricAndLabels(m, Labels) : m \in metrics}
                      ELSE (UNION {MetricAndLabels(m, {}) : m \in metrics}) \cup Used(u.expr)
         IN IF e.null \/ e.metric = NoName THEN {[by |-> at, symbol |-> Symbol("metric", e.metric, NoName)]}
            ELSE UNION {{[by |-> at \cup {consumerOf(u)}, symbol |-> s] : s \in of(u)} : u \in e.users} :
           e \in DOMAIN now \ gone}

TempoUsed(input) ==
  LET used(t) == {Symbol(t.kind, t.name, "tempo")}
                 \cup {Symbol(t.kind, input.mappings[m].otel, "otel") :
                         m \in {m \in DOMAIN input.mappings : input.mappings[m].kind = t.kind /\ input.mappings[m].tempo = t.name}}
  IN UNION {{[by |-> {<<"tempo", q.id>>}, symbol |-> s] :
               s \in UNION {used(t) : t \in {t \in Range(q.tokens) : t.kind \notin {"plain", "quoted"}}}} : q \in Range(input.queries)}

Demands ==
  CASE task.kind = "rules" -> RulesUsed(Input)
    [] task.kind = "dashboard" -> DashboardUsed(Input)
    [] task.kind = "keda" -> ItemsUsed("trigger", Input)
    [] task.kind = "argo" -> ItemsUsed("gate", Input)
    [] task.kind = "sloth" -> SLOsUsed(Input.slos)
    [] task.kind = "pyrra" -> SLOsUsed(Input)
    [] task.kind = "hpa" -> HPAUsed(Input)
    [] task.kind = "runtime" -> RuntimeUsed(Input)
    [] task.kind = "perses" -> PersesUsed(Input.service, service, resolved)
    [] task.kind = "tempo" -> TempoUsed(Input)
    [] OTHER -> {}

\* A reference counts for a symbol as it does in the impact analysis.
Refers(r, s) ==
  CASE r.scope = "labels" -> s.kind = "label" /\ r.name = s.parent
    [] r.scope = "any" /\ r.resolve -> TRUE
    [] OTHER -> r.kind = s.kind /\ r.name = s.name /\ r.parent = s.parent

\* No use of a telemetry symbol is lost on the way from a source to the
\* evidence: when an adapter returns without an error, each symbol that one
\* of its queries, mappings, records or service entries uses is referred to
\* by that consumer, exactly or as something that has yet to be resolved, or
\* is accounted for by a diagnostic that is required if the source is - also
\* when requests fail, a context ends or the service moves entries meanwhile
\* (except those that it takes out of the pending ones).  Template variables
\* hide no use: a text with "${", "[[" or "$__", one that a bare variable
\* keeps from being parsed and a pattern with a variable in it are reported
\* or to be resolved; a plain variable in quotes as an exact name and a label
\* in parentheses (ByVariable, LabelsOf) are not reported, and exempt.
EveryUseIsSeen ==
  pc = "done" =>
    \A d \in Demands :
      \/ \E r \in evidence.references : r.consumer \in d.by /\ Refers(r.symbol, d.symbol)
      \/ \E g \in evidence.diagnostics : g.about \in d.by /\ g.required = task.required

(***************************************************************************)
(* Owners by the complete contents of the files.                           *)
(***************************************************************************)
\* Of the files that have a rule for a consumer, the last one decides; a file
\* that several patterns find counts where it is found first.
Found(patterns) == UNION {{p} \X DOMAIN patterns[p] : p \in DOMAIN patterns}
Earlier(x, y) == x[1] < y[1] \/ (x[1] = y[1] /\ x[2] < y[2])
FileAt(patterns, x) == patterns[x[1]][x[2]]
FoundFirst(patterns) ==
  {x \in Found(patterns) : \A y \in Found(patterns) : Earlier(y, x) => FileAt(patterns, y) # FileAt(patterns, x)}
LastRule(patterns, among, consumer) ==
  LET rule(x) == matchingMetadataRule(FileAt(patterns, x).rules, consumer)
      last == {x \in among : rule(x) # {} /\ \A y \in among : Earlier(x, y) => rule(y) = {}}
  IN UNION {rule(x) : x \in last}

RightOwner(input, consumer) ==
  LET explicit == LastRule(input.patterns, FoundFirst(input.patterns), consumer)
      path == findCodeowners(input.places, input.configured).path
      rule == IF ~input.codeowners \/ path = Blank \/ consumer.path = Blank THEN {}
              ELSE matchingCodeownersRule(input.lines[path], consumer.path)
      tagged == {OwnerTags[t] : t \in consumer.tags \cap DOMAIN OwnerTags}
  IN CASE explicit # {} -> {r.owner : r \in explicit}
       [] explicit = {} /\ consumer.owner # {} -> consumer.owner
       [] explicit = {} /\ consumer.owner = {} /\ rule # {} -> UNION {r.owners : r \in rule}
       [] OTHER -> IF input.tags /\ Cardinality(tagged) = 1 THEN tagged ELSE {}

\* Ownership is complete or says that it is not: when the enrichment returns
\* without an error and has reported nothing, every consumer has the owner
\* that the metadata, its adapter, CODEOWNERS and its tags give it in that
\* order, although reading the files stops without a word once the context
\* has been cancelled.
OwnerIsRightOrReported ==
  task.kind = "ownership" /\ Input.enabled /\ pc = "done" /\ evidence.diagnostics = {} =>
    \A c \in DOMAIN Input.consumers : owners[c] = RightOwner(Input, Input.consumers[c])
=============================================================================
