---------------------------- MODULE ChangeSafety ----------------------------
(***************************************************************************)
(* From normalised evidence to a status: BuildGraph and Analyze of         *)
(* internal/impact, then Evaluate of internal/safety, as                   *)
(* RunSafetyWithDiagnostics of internal/analysis chains them.              *)
(*                                                                         *)
(* The state is the evidence of one check.  A step adds one piece of       *)
(* evidence (another consumer, reference, recorded output or diagnostic)   *)
(* and checks again: what the steps relate is the answer to the same       *)
(* change before and after somebody finds out more.                        *)
(*                                                                         *)
(* A metric name is a sequence: a stem followed by family suffixes.        *)
(***************************************************************************)
EXTENDS SafetyPolicy, Sequences, Integers

CONSTANTS
  ConsumerEvidence,    \* consumers the adapters can report
  ReferenceEvidence,   \* references, each to one consumer
  ProductionEvidence,  \* outputs of recording rules
  DiagnosticEvidence,  \* records with a field "required"
  ChangeSets,          \* sets of changes [id, from, to]
  NoSymbol,            \* the change has no destination symbol
  MaxEvidence,         \* bound: pieces of evidence in one check
  MaxFindings          \* configuration.Execution.MaxFindings

ASSUME BoundsAssumption == MaxEvidence \in Nat /\ MaxFindings \in Nat

\* Only a label has a parent that may not be empty, and Prometheus has nothing but
\* metrics and labels.
IsSymbol(s) ==
  /\ s \in [domain : STRING, kind : STRING, name : Seq(STRING), parent : Seq(STRING)]
  /\ s.domain = "prometheus" => s.kind \in {"metric", "label"}
  /\ s.kind = "metric" => s.parent = <<>>

\* What config.ValidateChangeSet lets through (module ChangeDocuments), an empty
\* change set included.
ASSUME ChangesAssumption ==
  \A S \in ChangeSets :
    /\ IsFiniteSet(S)
    /\ \A a, b \in S : a.id = b.id => a = b
    /\ \A change \in S :
         /\ IsSymbol(change.from)
         /\ change.to # NoSymbol => /\ change.to.kind = change.from.kind
                                   /\ change.to.parent = change.from.parent
                                   /\ change.to.name # change.from.name

ASSUME EvidenceAssumption ==
  \A e \in ReferenceEvidence \union ProductionEvidence : IsSymbol(e.symbol)

VARIABLES
  changeSet, policy, includeTransitive,
  secured,   \* Execution.RepositoryRoot is set: MaxFindings holds
  consumers, references, productions, diagnostics,
  result   \* the safety.Result: [status, findings, diagnostics]

settings == <<changeSet, policy, includeTransitive, secured>>
vars == <<settings, consumers, references, productions, diagnostics, result>>

discovery == [consumers |-> consumers, references |-> references,
              productions |-> productions, diagnostics |-> diagnostics]

-----------------------------------------------------------------------------
(* Symbol identity. *)

MetricFamilyMatches(reference, base) ==
  \/ reference = base
  \/ \E suffix \in {"_bucket", "_sum", "_count", "_created"} : reference = Append(base, suffix)

SymbolMatches(reference, changed) ==
  /\ reference.domain = changed.domain
  /\ reference.kind = changed.kind
  /\ CASE reference.domain = "prometheus" /\ reference.kind = "metric" ->
            MetricFamilyMatches(reference.name, changed.name)
       [] reference.domain = "prometheus" /\ reference.kind = "label" ->
            /\ reference.name = changed.name
            /\ MetricFamilyMatches(reference.parent, changed.parent)
       [] OTHER -> reference.name = changed.name /\ reference.parent = changed.parent

\* A defect to detect: a matcher on the labels of one metric is never relevant.
UnresolvedOutsideLabels(reference, change) ==
  reference.requiresResolution /\ reference.scope # "labels"

UnresolvedReferenceApplies(reference, change) ==
  /\ reference.requiresResolution
  /\ \/ reference.scope # "labels"
     \/ /\ change.from.kind = "label" /\ reference.symbol.kind = "metric"
        /\ \/ MetricFamilyMatches(reference.symbol.name, change.from.parent)
           \/ /\ change.to # NoSymbol
              /\ MetricFamilyMatches(reference.symbol.name, change.to.parent)

-----------------------------------------------------------------------------
(* The dependency graph and what a change reaches in it. *)

Known(d) == {c.id : c \in d.consumers}
SymbolsOf(d) == {r.symbol : r \in d.references} \union {p.symbol : p \in d.productions}

\* Node IDs carry a prefix, so a symbol and a consumer never collide.
SymbolNode(s) == <<"symbol", s>>
ConsumerNode(id) == <<"consumer", id>>
Nodes(d) == {SymbolNode(s) : s \in SymbolsOf(d)} \union {ConsumerNode(id) : id \in Known(d)}
Edges(d) == {<<SymbolNode(r.symbol), ConsumerNode(r.consumer)>> : r \in d.references}
            \union {<<ConsumerNode(p.consumer), SymbolNode(p.symbol)>> : p \in d.productions}

\* An edge needs its consumer, and one node ID stands for one name.
GraphBuilds(d) ==
  /\ \A e \in d.references \union d.productions : e.consumer \in Known(d)
  /\ \A c, e \in d.consumers : c.id = e.id => c.name = e.name

\* What graph.ImpactPaths visits (module DependencyGraph).
ReachableFrom(d, n) ==
  {m \in Nodes(d) : \A S \in SUBSET Nodes(d) :
     n \in S /\ (\A e \in Edges(d) : e[1] \in S => e[2] \in S) => m \in S}

\* The shortest path to a direct reader has one edge, and without transitive
\* analysis only such paths are kept.
\* A defect to detect: readers of a rule's output are never followed.
DirectlyImpacted(d, symbol) ==
  {id \in Known(d) : \E s \in SymbolsOf(d) :
     SymbolMatches(s, symbol) /\ <<SymbolNode(s), ConsumerNode(id)>> \in Edges(d)}

ImpactedConsumers(d, symbol) ==
  {id \in Known(d) : \E s \in SymbolsOf(d) :
     /\ SymbolMatches(s, symbol)
     /\ IF includeTransitive
        THEN ConsumerNode(id) \in ReachableFrom(d, SymbolNode(s))
        ELSE <<SymbolNode(s), ConsumerNode(id)>> \in Edges(d)}

\* The references a finding cites for its change, and whether one is unresolved.
\* References are matched to their consumer by ID alone.
sourceReferences(d, c, change) ==
  {r \in d.references : /\ r.consumer = c.id
                        /\ \/ SymbolMatches(r.symbol, change.from)
                           \/ UnresolvedReferenceApplies(r, change)}

Uncertain(d, c, change) ==
  \/ c.unresolved
  \/ c.criticality = NoCriticality
  \/ \E r \in sourceReferences(d, c, change) : r.requiresResolution

Finding(d, c, change) ==
  [change |-> change.id, consumer |-> c.id, kind |-> c.kind,
   consumerCriticality |-> c.criticality, criticality |-> c.criticality,
   impact |-> TypeForConsumer(c.kind), uncertain |-> Uncertain(d, c, change)]

\* Two adapters that report the same consumer ID are an error, not a merge.
ConsumersDistinct(d) == \A c, e \in d.consumers : c.id = e.id => c = e

Analyze(d) ==
  UNION {LET impacted == ImpactedConsumers(d, change.from)
         IN  {Finding(d, c, change) :
                c \in {e \in d.consumers : e.id \in impacted \/ Uncertain(d, e, change)}}
         : change \in changeSet}

-----------------------------------------------------------------------------
ErrorResult(findings, diags) == [status |-> "ERROR", findings |-> findings, diagnostics |-> diags]

\* Beyond MaxFindings the engine keeps the first ones; which ones is not modelled.
RunSafety(d) ==
  IF ~GraphBuilds(d) THEN {ErrorResult({}, {})}
  ELSE IF ~ConsumersDistinct(d) THEN {ErrorResult({}, d.diagnostics)}
  ELSE LET findings == Analyze(d)
       IN  IF secured /\ Cardinality(findings) > MaxFindings
           THEN {ErrorResult(kept, d.diagnostics) :
                   kept \in {F \in SUBSET findings : Cardinality(F) = MaxFindings}}
           ELSE {[status |-> EvaluateStatus(findings, d.diagnostics, policy),
                  findings |-> findings, diagnostics |-> d.diagnostics]}

Pieces == Cardinality(consumers) + Cardinality(references)
          + Cardinality(productions) + Cardinality(diagnostics)

Init ==
  /\ changeSet \in ChangeSets
  /\ policy \in {[mode |-> m, impacts |-> DefaultImpacts] : m \in RolloutModes}
  /\ includeTransitive \in BOOLEAN /\ secured \in BOOLEAN
  /\ consumers = {} /\ references = {} /\ productions = {} /\ diagnostics = {}
  /\ result \in RunSafety(discovery)

AddConsumer ==
  /\ Pieces < MaxEvidence
  /\ \E c \in ConsumerEvidence \ consumers : consumers' = consumers \union {c}
  /\ UNCHANGED <<settings, references, productions, diagnostics>>
  /\ result' \in RunSafety(discovery')

\* An adapter reports a reference or an output together with its consumer.
AddReference ==
  /\ Pieces < MaxEvidence
  /\ \E r \in {e \in ReferenceEvidence \ references : e.consumer \in Known(discovery)} :
       references' = references \union {r}
  /\ UNCHANGED <<settings, consumers, productions, diagnostics>>
  /\ result' \in RunSafety(discovery')

AddProduction ==
  /\ Pieces < MaxEvidence
  /\ \E p \in {e \in ProductionEvidence \ productions : e.consumer \in Known(discovery)} :
       productions' = productions \union {p}
  /\ UNCHANGED <<settings, consumers, references, diagnostics>>
  /\ result' \in RunSafety(discovery')

AddDiagnostic ==
  /\ Pieces < MaxEvidence
  /\ \E g \in DiagnosticEvidence \ diagnostics : diagnostics' = diagnostics \union {g}
  /\ UNCHANGED <<settings, consumers, references, productions>>
  /\ result' \in RunSafety(discovery')

Next == AddConsumer \/ AddReference \/ AddProduction \/ AddDiagnostic

Spec == Init /\ [][Next]_vars

-----------------------------------------------------------------------------
\* More evidence about the same change never makes the answer better: no
\* consumer, reference, rule output or diagnostic can hide what was known.
EvidenceNeverImproves == [][Severity(result'.status) >= Severity(result.status)]_vars

\* Who depends on a changed symbol, said of consumers alone: those in every set
\* that holds the readers of the changed family and, when transitive, the readers
\* of what its members output.
Reads(id, s) == \E r \in references : r.consumer = id /\ r.symbol = s
Outputs(id, s) == \E p \in productions : p.consumer = id /\ p.symbol = s
InFamily(s, t) ==
  /\ s.domain = t.domain /\ s.kind = t.kind
  /\ \/ s = t
     \/ /\ s.domain = "prometheus"
        /\ IF s.kind = "metric"
           THEN Len(s.name) = Len(t.name) + 1 /\ SubSeq(s.name, 1, Len(t.name)) = t.name
                /\ s.name[Len(s.name)] \in {"_bucket", "_sum", "_count", "_created"}
           ELSE s.name = t.name /\ Len(s.parent) = Len(t.parent) + 1
                /\ SubSeq(s.parent, 1, Len(t.parent)) = t.parent
                /\ s.parent[Len(s.parent)] \in {"_bucket", "_sum", "_count", "_created"}

ClosedUnderReading(S, change) ==
  \A id \in Known(discovery) :
    \/ \E s \in SymbolsOf(discovery) : Reads(id, s) /\ InFamily(s, change.from)
    \/ includeTransitive
       /\ \E up \in S, s \in SymbolsOf(discovery) : Outputs(up, s) /\ Reads(id, s)
    => id \in S

Dependents(change) ==
  {id \in Known(discovery) :
     \A S \in SUBSET Known(discovery) : ClosedUnderReading(S, change) => id \in S}

\* The findings name exactly the consumers that depend on a changed symbol or may
\* (their evidence is unresolved): nothing affected is missed, nothing else is
\* reported.  The histogram and summary series of a metric count as the metric.
FindingsAreExact ==
  result.status # "ERROR" =>
    \A change \in changeSet, c \in consumers :
      (\E f \in result.findings : f.change = change.id /\ f.consumer = c.id)
      <=> (c.id \in Dependents(change) \/ Uncertain(discovery, c, change))

\* "A consumer with unresolved relevant evidence can never produce PASS": nor
\* WARN, nor BLOCK.  Nothing is relevant when nothing changes, and a reference
\* restricted to the labels of one metric is when the change is to a label of it.
UnresolvedNeverDecided ==
  (changeSet # {} /\ \E c \in consumers : c.unresolved \/ c.criticality = NoCriticality)
  \/ (\E r \in references, change \in changeSet :
        /\ r.requiresResolution
        /\ r.scope = "labels" =>
             /\ change.from.kind = "label" /\ r.symbol.kind = "metric"
             /\ r.symbol.name \in {change.from.parent}
                                  \union (IF change.to = NoSymbol THEN {} ELSE {change.to.parent}))
  => result.status \in {"INCOMPLETE", "ERROR"}

\* The rollout mode only turns BLOCK into WARN.  It never hides a finding, and
\* never softens INCOMPLETE or ERROR.
RolloutOnlyDemotesBlock ==
  LET enforced == EvaluateStatus(result.findings, diagnostics, [policy EXCEPT !.mode = "enforce"])
  IN  result.status # "ERROR" =>
        result.status = (IF enforced = "BLOCK" /\ policy.mode # "enforce" THEN "WARN" ELSE enforced)
=============================================================================
