-------------------------- MODULE ChangeSafetyProofs --------------------------
(***************************************************************************)
(* The change-safety engine, for any evidence and any number of pieces of  *)
(* it, and the traversal of the graph that it rests on, for any graph.     *)
(***************************************************************************)
EXTENDS ChangeSafety, DependencyGraph, FiniteSetTheorems, WellFoundedInduction, TLAPS

Policies == {[mode |-> m, impacts |-> DefaultImpacts] : m \in RolloutModes}

\* Every reference and output belongs to a consumer that was reported.
Attached(d) == \A e \in d.references \union d.productions : e.consumer \in Known(d)

\* The result is always that of the evidence at hand.
EvidenceInv ==
  /\ changeSet \in ChangeSets /\ policy \in Policies
  /\ IsFiniteSet(consumers)
  /\ references \subseteq ReferenceEvidence /\ productions \subseteq ProductionEvidence
  /\ Attached(discovery)
  /\ result \in RunSafety(discovery)

-----------------------------------------------------------------------------
(* The evidence. *)

\* What discovery is made of.
LEMMA DiscoveryFields ==
  /\ discovery.consumers = consumers /\ discovery.references = references
  /\ discovery.productions = productions /\ discovery.diagnostics = diagnostics
BY DEF discovery

\* With the same settings the same evidence has the same result.
LEMMA SameSettings ==
  ASSUME UNCHANGED settings
  PROVE  \A d : RunSafety(d)' = RunSafety(d)
BY DEF settings, RunSafety, Analyze, ImpactedConsumers

\* The engine starts without evidence.
LEMMA EvidenceInit ==
  ASSUME Init
  PROVE  EvidenceInv
<1>1. Attached(discovery)
  BY DiscoveryFields DEF Init, Attached
<1>2. IsFiniteSet(consumers)
  BY FS_EmptySet DEF Init
<1>3. QED
  BY <1>1, <1>2 DEF Init, EvidenceInv, Policies

\* One more piece of evidence.
Grows ==
  /\ consumers \subseteq consumers' /\ references \subseteq references'
  /\ productions \subseteq productions' /\ diagnostics \subseteq diagnostics'

\* A step adds evidence, attached to its consumer, and checks again.
LEMMA StepGrows ==
  ASSUME EvidenceInv, Next
  PROVE  /\ UNCHANGED settings /\ Grows
         /\ IsFiniteSet(consumers') /\ references' \subseteq ReferenceEvidence
         /\ productions' \subseteq ProductionEvidence
         /\ Attached(discovery)' /\ result' \in RunSafety(discovery')
<1>1. UNCHANGED settings /\ result' \in RunSafety(discovery') /\ Grows
  BY DEF Next, AddConsumer, AddReference, AddProduction, AddDiagnostic, Grows
<1>2. IsFiniteSet(consumers')
  BY FS_AddElement DEF EvidenceInv, Next, AddConsumer, AddReference, AddProduction, AddDiagnostic
<1>3. references' \subseteq ReferenceEvidence /\ productions' \subseteq ProductionEvidence
  BY DEF EvidenceInv, Next, AddConsumer, AddReference, AddProduction, AddDiagnostic
<1>4. \A e \in references' \union productions' :
        e \in references \union productions \/ e.consumer \in Known(discovery)
  BY DEF Next, AddConsumer, AddReference, AddProduction, AddDiagnostic
<1>5. \A e \in references' \union productions' : e.consumer \in Known(discovery)
  BY <1>4, DiscoveryFields DEF EvidenceInv, Attached
<1>6. Known(discovery) \subseteq {c.id : c \in consumers'}
  BY <1>1, DiscoveryFields DEF Known, Grows
<1>7. Attached(discovery)'
  BY <1>5, <1>6 DEF Attached, discovery, Known
<1>8. QED
  BY <1>1, <1>2, <1>3, <1>7

\* Every step keeps the invariant.
LEMMA EvidenceNext ==
  ASSUME EvidenceInv, [Next]_vars
  PROVE  EvidenceInv'
<1>1. CASE Next
  <2>1. RunSafety(discovery)' = RunSafety(discovery')
    BY <1>1, StepGrows, SameSettings DEF RunSafety
  <2>2. QED
    BY <1>1, <2>1, StepGrows DEF EvidenceInv, settings
<1>2. CASE UNCHANGED vars
  <2>1. discovery' = discovery /\ UNCHANGED settings
    BY <1>2 DEF vars, discovery
  <2>2. RunSafety(discovery)' = RunSafety(discovery)
    BY <2>1, SameSettings
  <2>3. QED
    BY <1>2, <2>1, <2>2 DEF vars, EvidenceInv, settings, Attached, Known
<1>3. QED
  BY <1>1, <1>2

\* The invariant holds throughout.
THEOREM EvidenceInvariant == Spec => []EvidenceInv
BY EvidenceInit, EvidenceNext, PTL DEF Spec

-----------------------------------------------------------------------------
(* One check. *)

\* A result that is no error is the evaluation of everything that was found.
LEMMA DecidedIsComplete ==
  ASSUME EvidenceInv, result.status # "ERROR"
  PROVE  /\ GraphBuilds(discovery) /\ ConsumersDistinct(discovery)
         /\ result.findings = Analyze(discovery)
         /\ result.status = EvaluateStatus(result.findings, diagnostics, policy)
BY DiscoveryFields DEF EvidenceInv, RunSafety, ErrorResult

\* The policies differ in their mode only.
LEMMA PolicyFields ==
  ASSUME NEW p \in Policies
  PROVE  /\ p.mode \in RolloutModes /\ p.impacts = DefaultImpacts
         /\ [p EXCEPT !.mode = "enforce"].mode = "enforce"
         /\ [p EXCEPT !.mode = "enforce"].impacts = DefaultImpacts
BY DEF Policies

\* The rollout mode only turns BLOCK into WARN (evaluate.go).
THEOREM RolloutDemotesOnlyBlock == Spec => []RolloutOnlyDemotesBlock
<1>1. ASSUME EvidenceInv PROVE RolloutOnlyDemotesBlock
  <2> DEFINE strict == [policy EXCEPT !.mode = "enforce"]
             findings == result.findings
             enforced == EvaluateStatus(findings, diagnostics, strict)
  <2>1. SUFFICES ASSUME result.status # "ERROR"
                 PROVE  result.status = IF enforced = "BLOCK" /\ policy.mode # "enforce" THEN "WARN" ELSE enforced
    BY DEF RolloutOnlyDemotesBlock
  <2>2. /\ policy.mode \in RolloutModes /\ policy.impacts = DefaultImpacts
        /\ strict.mode = "enforce" /\ strict.impacts = DefaultImpacts
    BY <1>1, PolicyFields DEF EvidenceInv
  <2>3. result.status = EvaluateStatus(findings, diagnostics, policy)
    BY <1>1, <2>1, DecidedIsComplete
  <2> HIDE DEF strict, findings, enforced
  <2>4. validatePolicy(policy) /\ validateFindings(findings)
    BY <2>1, <2>3 DEF EvaluateStatus
  <2>5. validatePolicy(strict)
    BY <2>2, <2>4 DEF validatePolicy, RolloutModes
  <2>6. \A f : /\ EffectiveAction(policy, f) = "block" => policy.mode = "enforce"
               /\ policy.mode = "enforce" => EffectiveAction(policy, f) = EffectiveAction(strict, f)
    BY <2>2 DEF EffectiveAction, RuleFor
  <2>7. /\ policy.mode # "enforce" => Blocked(findings, policy) = {}
        /\ policy.mode = "enforce" => Blocked(findings, policy) = Blocked(findings, strict)
        /\ Blocked(findings, strict) # {} => findings # {}
    BY <2>6 DEF Blocked
  <2>8. /\ result.status = aggregateStatus(findings, Blocked(findings, policy), diagnostics)
        /\ enforced = aggregateStatus(findings, Blocked(findings, strict), diagnostics)
    BY <2>3, <2>4, <2>5 DEF EvaluateStatus, enforced
  <2>9. QED
    BY <2>7, <2>8, Zenon DEF aggregateStatus
<1>2. QED
  BY <1>1, EvidenceInvariant, PTL

\* A finding's fields.
LEMMA FindingFields ==
  ASSUME NEW d, NEW c, NEW change
  PROVE  LET f == Finding(d, c, change) IN
         /\ f.change = change.id /\ f.consumer = c.id /\ f.kind = c.kind
         /\ f.consumerCriticality = c.criticality /\ f.criticality = c.criticality
         /\ f.impact = TypeForConsumer(c.kind)
         /\ f.uncertain <=> Uncertain(d, c, change)
BY DEF Finding

\* A consumer is reported for a change.
Reported(d, c, change) == c.id \in ImpactedConsumers(d, change.from) \/ Uncertain(d, c, change)

\* What Analyze reports.
LEMMA AnalyzeMembers ==
  ASSUME NEW d
  PROVE  \A f : f \in Analyze(d) <=>
           \E change \in changeSet : \E c \in d.consumers :
             Reported(d, c, change) /\ f = Finding(d, c, change)
<1> DEFINE Of(change) == {Finding(d, c, change) : c \in {e \in d.consumers : Reported(d, e, change)}}
<1>1. Analyze(d) = UNION {Of(change) : change \in changeSet}
  BY DEF Analyze, Reported
<1>2. \A change : \A f : f \in Of(change) <=>
        \E c \in d.consumers : Reported(d, c, change) /\ f = Finding(d, c, change)
  OBVIOUS
<1> HIDE DEF Of
<1>3. QED
  BY <1>1, <1>2

\* Nothing uncertain is left out.
LEMMA UncertainIsFound ==
  ASSUME NEW d, NEW change \in changeSet, NEW c \in d.consumers, Uncertain(d, c, change)
  PROVE  \E f \in Analyze(d) : f.uncertain
<1>1. Finding(d, c, change) \in Analyze(d)
  BY AnalyzeMembers, Zenon DEF Reported
<1>2. QED
  BY <1>1, FindingFields

\* Unresolved relevant evidence is never decided (finding.go:53-115, evaluate.go).
THEOREM UnresolvedIsIncomplete == Spec => []UnresolvedNeverDecided
<1>1. ASSUME EvidenceInv PROVE UnresolvedNeverDecided
  <2>1. SUFFICES ASSUME result.status # "ERROR",
                   \/ changeSet # {} /\ \E c \in consumers : c.unresolved \/ c.criticality = NoCriticality
                   \/ \E r \in references, change \in changeSet :
                        /\ r.requiresResolution
                        /\ r.scope = "labels" =>
                             /\ change.from.kind = "label" /\ r.symbol.kind = "metric"
                             /\ r.symbol.name \in {change.from.parent}
                                  \union (IF change.to = NoSymbol THEN {} ELSE {change.to.parent})
                 PROVE  result.status = "INCOMPLETE"
    BY Zenon DEF UnresolvedNeverDecided
  <2>2. /\ result.findings = Analyze(discovery) /\ GraphBuilds(discovery)
        /\ result.status = EvaluateStatus(result.findings, diagnostics, policy)
    BY <1>1, <2>1, DecidedIsComplete
  <2>3. \E change \in changeSet, c \in consumers : Uncertain(discovery, c, change)
    <3>1. CASE changeSet # {} /\ \E c \in consumers : c.unresolved \/ c.criticality = NoCriticality
      BY <3>1, Zenon DEF Uncertain
    <3>2. ASSUME NEW r \in references, NEW change \in changeSet, r.requiresResolution,
                 r.scope = "labels" =>
                   /\ change.from.kind = "label" /\ r.symbol.kind = "metric"
                   /\ r.symbol.name \in {change.from.parent}
                        \union (IF change.to = NoSymbol THEN {} ELSE {change.to.parent})
          PROVE  \E x \in changeSet, c \in consumers : Uncertain(discovery, c, x)
      <4>1. UnresolvedReferenceApplies(r, change)
        BY <3>2 DEF UnresolvedReferenceApplies, MetricFamilyMatches
      <4>2. PICK c \in consumers : c.id = r.consumer
        BY <1>1, <3>2, DiscoveryFields DEF EvidenceInv, Attached, Known
      <4>3. r \in sourceReferences(discovery, c, change)
        BY <3>2, <4>1, <4>2, DiscoveryFields DEF sourceReferences
      <4>4. QED
        BY <3>2, <4>2, <4>3, Zenon DEF Uncertain
    <3>3. QED
      BY <2>1, <3>1, <3>2, Zenon
  <2>4. \E f \in result.findings : f.uncertain
    BY <2>2, <2>3, UncertainIsFound, DiscoveryFields
  <2>5. QED
    BY <2>1, <2>2, <2>4, Zenon DEF EvaluateStatus, aggregateStatus
<1>2. QED
  BY <1>1, EvidenceInvariant, PTL

-----------------------------------------------------------------------------
(* Two checks: d is part of e. *)

Within(d, e) ==
  /\ d.consumers \subseteq e.consumers /\ d.references \subseteq e.references
  /\ d.productions \subseteq e.productions /\ d.diagnostics \subseteq e.diagnostics

\* The graph grows.
LEMMA GraphGrows ==
  ASSUME NEW d, NEW e, Within(d, e)
  PROVE  /\ Known(d) \subseteq Known(e) /\ SymbolsOf(d) \subseteq SymbolsOf(e)
         /\ Nodes(d) \subseteq Nodes(e) /\ Edges(d) \subseteq Edges(e)
<1>1. Known(d) \subseteq Known(e) /\ SymbolsOf(d) \subseteq SymbolsOf(e)
  BY DEF Within, Known, SymbolsOf
<1>2. Nodes(d) \subseteq Nodes(e)
  BY <1>1 DEF Nodes
<1>3. Edges(d) \subseteq Edges(e)
  BY DEF Within, Edges
<1>4. QED
  BY <1>1, <1>2, <1>3

\* An edge ends at a node.
LEMMA EdgesEndAtNodes ==
  ASSUME NEW d, Attached(d), NEW x \in Edges(d)
  PROVE  x[2] \in Nodes(d)
<1>1. CASE \E r \in d.references : x = <<SymbolNode(r.symbol), ConsumerNode(r.consumer)>>
  BY <1>1 DEF Attached, Nodes
<1>2. CASE \E p \in d.productions : x = <<ConsumerNode(p.consumer), SymbolNode(p.symbol)>>
  BY <1>2 DEF Nodes, SymbolsOf
<1>3. QED
  BY <1>1, <1>2 DEF Edges

\* What a node reaches stays reached.
LEMMA ReachGrows ==
  ASSUME NEW d, NEW e, Within(d, e), Attached(d), NEW n \in Nodes(d), NEW m \in ReachableFrom(d, n)
  PROVE  m \in ReachableFrom(e, n)
<1>1. m \in Nodes(d) /\ \A S \in SUBSET Nodes(d) :
        n \in S /\ (\A x \in Edges(d) : x[1] \in S => x[2] \in S) => m \in S
  BY DEF ReachableFrom
<1>2. m \in Nodes(e) /\ Edges(d) \subseteq Edges(e)
  BY <1>1, GraphGrows
<1>3. ASSUME NEW S \in SUBSET Nodes(e), n \in S, \A x \in Edges(e) : x[1] \in S => x[2] \in S
      PROVE  m \in S
  <2> DEFINE T == S \intersect Nodes(d)
  <2>1. \A x \in Edges(d) : x[1] \in T => x[2] \in T
    BY <1>2, <1>3, EdgesEndAtNodes
  <2>2. m \in T
    BY <1>1, <1>3, <2>1
  <2>3. QED
    BY <2>2
<1>4. QED
  BY <1>2, <1>3 DEF ReachableFrom

\* Whatever a change reaches, and whatever is uncertain, stays so.
LEMMA ReportsGrow ==
  ASSUME NEW d, NEW e, Within(d, e), Attached(d), NEW c, NEW change
  PROVE  /\ Uncertain(d, c, change) => Uncertain(e, c, change)
         /\ Reported(d, c, change) => Reported(e, c, change)
<1>1. Uncertain(d, c, change) => Uncertain(e, c, change)
  <2>1. sourceReferences(d, c, change) \subseteq sourceReferences(e, c, change)
    BY DEF Within, sourceReferences
  <2>2. QED
    BY <2>1, Zenon DEF Uncertain
<1>2. ASSUME NEW id \in ImpactedConsumers(d, change.from) PROVE id \in ImpactedConsumers(e, change.from)
  <2>1. PICK s \in SymbolsOf(d) :
          /\ SymbolMatches(s, change.from)
          /\ IF includeTransitive
             THEN ConsumerNode(id) \in ReachableFrom(d, SymbolNode(s))
             ELSE <<SymbolNode(s), ConsumerNode(id)>> \in Edges(d)
    BY <1>2, Zenon DEF ImpactedConsumers
  <2>2. id \in Known(e) /\ s \in SymbolsOf(e) /\ Edges(d) \subseteq Edges(e)
    BY <1>2, GraphGrows DEF ImpactedConsumers
  <2>3. SymbolNode(s) \in Nodes(d)
    BY DEF Nodes
  <2>4. IF includeTransitive
        THEN ConsumerNode(id) \in ReachableFrom(e, SymbolNode(s))
        ELSE <<SymbolNode(s), ConsumerNode(id)>> \in Edges(e)
    BY <2>1, <2>2, <2>3, ReachGrows
  <2>5. QED
    BY <2>1, <2>2, <2>4, Zenon DEF ImpactedConsumers
<1>3. QED
  BY <1>1, <1>2 DEF Reported

\* Every finding stays, perhaps less certain.
LEMMA FindingsGrow ==
  ASSUME NEW d, NEW e, Within(d, e), Attached(d), NEW f \in Analyze(d)
  PROVE  \E g \in Analyze(e) :
           /\ g.change = f.change /\ g.consumer = f.consumer /\ g.kind = f.kind /\ g.impact = f.impact
           /\ g.criticality = f.criticality /\ g.consumerCriticality = f.consumerCriticality
           /\ f.uncertain => g.uncertain
<1>1. PICK change \in changeSet, c \in d.consumers : Reported(d, c, change) /\ f = Finding(d, c, change)
  BY AnalyzeMembers, Zenon
<1>2. c \in e.consumers /\ Reported(e, c, change)
  BY <1>1, ReportsGrow DEF Within
<1>3. Finding(e, c, change) \in Analyze(e)
  BY <1>2, AnalyzeMembers, Zenon
<1>4. f.uncertain => Finding(e, c, change).uncertain
  BY <1>1, FindingFields, ReportsGrow
<1>5. /\ Finding(e, c, change).change = f.change /\ Finding(e, c, change).consumer = f.consumer
      /\ Finding(e, c, change).kind = f.kind /\ Finding(e, c, change).impact = f.impact
      /\ Finding(e, c, change).criticality = f.criticality
      /\ Finding(e, c, change).consumerCriticality = f.consumerCriticality
  BY <1>1, FindingFields
<1>6. QED
  BY <1>3, <1>4, <1>5, Zenon

\* A change and a consumer have one finding.
LEMMA OneFinding ==
  ASSUME NEW d, ConsumersDistinct(d), changeSet \in ChangeSets,
         NEW f \in Analyze(d), NEW g \in Analyze(d), f.change = g.change, f.consumer = g.consumer
  PROVE  f = g
<1>1. PICK a \in changeSet, c \in d.consumers : f = Finding(d, c, a)
  BY AnalyzeMembers, Zenon
<1>2. PICK b \in changeSet, x \in d.consumers : g = Finding(d, x, b)
  BY AnalyzeMembers, Zenon
<1>3. a.id = b.id /\ c.id = x.id
  BY <1>1, <1>2, FindingFields
<1>4. a = b
  BY <1>3, ChangesAssumption
<1>5. c = x
  BY <1>3 DEF ConsumersDistinct
<1>6. QED
  BY <1>1, <1>2, <1>4, <1>5

\* There are finitely many findings.
LEMMA FindingsFinite ==
  ASSUME NEW d, IsFiniteSet(d.consumers), changeSet \in ChangeSets
  PROVE  IsFiniteSet(Analyze(d))
<1> DEFINE All == changeSet \X d.consumers
           P == {x \in All : Reported(d, x[2], x[1])}
           h == [x \in P |-> Finding(d, x[2], x[1])]
<1>1. IsFiniteSet(changeSet)
  BY ChangesAssumption
<1>2. IsFiniteSet(All)
  BY <1>1, FS_Product
<1>3. IsFiniteSet(P)
  BY <1>2, FS_Subset
<1>4. ASSUME NEW f \in Analyze(d) PROVE \E x \in P : h[x] = f
  <2>1. PICK change \in changeSet, c \in d.consumers : Reported(d, c, change) /\ f = Finding(d, c, change)
    BY AnalyzeMembers, Zenon
  <2>2. <<change, c>> \in P /\ <<change, c>>[1] = change /\ <<change, c>>[2] = c
    BY <2>1
  <2>3. h[<<change, c>>] = f
    BY <2>1, <2>2
  <2>4. QED
    BY <2>2, <2>3
<1>5. ASSUME NEW x \in P PROVE h[x] \in Analyze(d)
  <2>1. x[1] \in changeSet /\ x[2] \in d.consumers /\ Reported(d, x[2], x[1])
    OBVIOUS
  <2>2. Finding(d, x[2], x[1]) \in Analyze(d)
    BY <2>1, AnalyzeMembers, Zenon
  <2>3. QED
    BY <2>2
<1>6. h \in [P -> Analyze(d)]
  BY <1>5
<1>7. h \in Surjection(P, Analyze(d))
  BY <1>4, <1>6 DEF Surjection
<1>8. QED
  BY <1>3, <1>7, FS_Surjection

\* Their number never shrinks.
LEMMA CountGrows ==
  ASSUME NEW d, NEW e, Within(d, e), Attached(d), ConsumersDistinct(d), IsFiniteSet(e.consumers),
         IsFiniteSet(d.consumers), changeSet \in ChangeSets
  PROVE  /\ Cardinality(Analyze(d)) <= Cardinality(Analyze(e))
         /\ Cardinality(Analyze(d)) \in Nat /\ Cardinality(Analyze(e)) \in Nat
<1> DEFINE Same(f) == CHOOSE g \in Analyze(e) : g.change = f.change /\ g.consumer = f.consumer
           h == [f \in Analyze(d) |-> Same(f)]
<1>1. ASSUME NEW f \in Analyze(d)
      PROVE  Same(f) \in Analyze(e) /\ Same(f).change = f.change /\ Same(f).consumer = f.consumer
  <2>1. \E g \in Analyze(e) : g.change = f.change /\ g.consumer = f.consumer
    BY FindingsGrow, Zenon
  <2>2. QED
    BY <2>1
<1> HIDE DEF Same
<1>2. h \in [Analyze(d) -> Analyze(e)]
  BY <1>1
<1>3. \A f, g \in Analyze(d) : h[f] = h[g] => f = g
  BY <1>1, OneFinding
<1>4. h \in Injection(Analyze(d), Analyze(e))
  BY <1>2, <1>3 DEF Injection, IsInjective
<1>5. IsFiniteSet(Analyze(e)) /\ IsFiniteSet(Analyze(d))
  BY FindingsFinite
<1>6. Cardinality(Analyze(d)) <= Cardinality(Analyze(e))
  BY <1>4, <1>5, FS_Injection
<1>7. QED
  BY <1>5, <1>6, FS_CardinalityType

\* Severities are the numbers from 0 to 4, and ERROR is the worst.
LEMMA Severities ==
  /\ \A s : Severity(s) \in 0 .. 4
  /\ Severity("PASS") = 0 /\ Severity("WARN") = 1 /\ Severity("BLOCK") = 2
  /\ Severity("INCOMPLETE") = 3 /\ Severity("ERROR") = 4
BY DEF Severity

\* Findings that are valid with more evidence are valid with less.
LEMMA ValidityShrinks ==
  ASSUME NEW d, NEW e, Within(d, e), Attached(d), ConsumersDistinct(d), changeSet \in ChangeSets,
         validateFindings(Analyze(e))
  PROVE  validateFindings(Analyze(d))
<1>1. ASSUME NEW f \in Analyze(d)
      PROVE  /\ f.kind \in ConsumerKinds /\ f.impact = TypeForConsumer(f.kind)
             /\ f.criticality = f.consumerCriticality
             /\ \/ f.criticality \in Criticalities
                \/ f.criticality = NoCriticality /\ f.uncertain
  <2>1. PICK g \in Analyze(e) :
           /\ g.kind = f.kind /\ g.impact = f.impact
           /\ g.criticality = f.criticality /\ g.consumerCriticality = f.consumerCriticality
    BY FindingsGrow, Zenon
  <2>2. /\ g.kind \in ConsumerKinds /\ g.impact = TypeForConsumer(g.kind)
        /\ g.criticality = g.consumerCriticality
        /\ g.criticality \in Criticalities \/ g.criticality = NoCriticality
    BY Zenon DEF validateFindings
  <2>3. f.criticality = NoCriticality => f.uncertain
    <3>1. PICK change \in changeSet, c \in d.consumers : f = Finding(d, c, change)
      BY AnalyzeMembers, Zenon
    <3>2. c.criticality = NoCriticality => Uncertain(d, c, change)
      BY Zenon DEF Uncertain
    <3>3. QED
      BY <3>1, <3>2, FindingFields
  <2>4. QED
    BY <2>1, <2>2, <2>3
<1>2. \A f, g \in Analyze(d) : FindingKey(f) = FindingKey(g) => f = g
  <2>1. SUFFICES ASSUME NEW f \in Analyze(d), NEW g \in Analyze(d), FindingKey(f) = FindingKey(g)
                 PROVE  f = g
    OBVIOUS
  <2>2. f.change = g.change /\ f.consumer = g.consumer
    BY <2>1 DEF FindingKey
  <2>3. QED
    BY <2>2, OneFinding
<1>3. QED
  BY <1>1, <1>2, Zenon DEF validateFindings

\* The worst finding stays at least as bad.
LEMMA AggregateGrows ==
  ASSUME NEW d, NEW e, Within(d, e), Attached(d)
  PROVE  Severity(aggregateStatus(Analyze(e), Blocked(Analyze(e), policy), e.diagnostics))
           >= Severity(aggregateStatus(Analyze(d), Blocked(Analyze(d), policy), d.diagnostics))
<1> DEFINE gap(findings, diags) == (\E g \in diags : g.required) \/ (\E f \in findings : f.uncertain)
           some(findings, diags) == findings # {} \/ diags # {}
           blocked(x) == Blocked(Analyze(x), policy) # {}
<1>1. gap(Analyze(d), d.diagnostics) => gap(Analyze(e), e.diagnostics)
  <2>1. ASSUME NEW f \in Analyze(d), f.uncertain PROVE \E g \in Analyze(e) : g.uncertain
    BY <2>1, FindingsGrow, Zenon
  <2>2. d.diagnostics \subseteq e.diagnostics
    BY DEF Within
  <2>3. QED
    BY <2>1, <2>2, Zenon
<1>2. some(Analyze(d), d.diagnostics) => some(Analyze(e), e.diagnostics)
  <2>1. Analyze(d) # {} => Analyze(e) # {}
    BY FindingsGrow, Zenon
  <2>2. QED
    BY <2>1 DEF Within
<1>3. blocked(d) => blocked(e)
  <2>1. SUFFICES ASSUME NEW f \in Analyze(d), EffectiveAction(policy, f) = "block" PROVE blocked(e)
    BY DEF Blocked
  <2>2. PICK g \in Analyze(e) : g.impact = f.impact /\ g.criticality = f.criticality
    BY FindingsGrow, Zenon
  <2>3. EffectiveAction(policy, g) = EffectiveAction(policy, f)
    BY <2>2 DEF EffectiveAction
  <2>4. QED
    BY <2>1, <2>2, <2>3 DEF Blocked
<1>4. \A x \in {d, e} :
        aggregateStatus(Analyze(x), Blocked(Analyze(x), policy), x.diagnostics) =
          IF gap(Analyze(x), x.diagnostics) THEN "INCOMPLETE"
          ELSE IF blocked(x) THEN "BLOCK"
          ELSE IF some(Analyze(x), x.diagnostics) THEN "WARN" ELSE "PASS"
  BY Zenon DEF aggregateStatus
<1> HIDE DEF gap, some, blocked
<1>5. QED
  BY <1>1, <1>2, <1>3, <1>4, Severities

\* More evidence, no better status.
LEMMA StatusGrows ==
  ASSUME NEW d, NEW e, Within(d, e), Attached(d), IsFiniteSet(d.consumers), IsFiniteSet(e.consumers),
         changeSet \in ChangeSets, NEW r \in RunSafety(d), NEW q \in RunSafety(e)
  PROVE  Severity(q.status) >= Severity(r.status)
<1>1. CASE q.status = "ERROR"
  <2>1. Severity(r.status) \in 0 .. 4 /\ Severity(q.status) = 4
    BY <1>1, Severities
  <2>2. QED
    BY <2>1
<1>2. CASE q.status # "ERROR"
  <2>1. /\ GraphBuilds(e) /\ ConsumersDistinct(e) /\ ~(secured /\ Cardinality(Analyze(e)) > MaxFindings)
        /\ q.status = EvaluateStatus(Analyze(e), e.diagnostics, policy)
    BY <1>2 DEF RunSafety, ErrorResult
  <2>2. /\ validatePolicy(policy) /\ validateFindings(Analyze(e))
        /\ q.status = aggregateStatus(Analyze(e), Blocked(Analyze(e), policy), e.diagnostics)
    BY <1>2, <2>1 DEF EvaluateStatus
  <2>3. ConsumersDistinct(d) /\ GraphBuilds(d)
    BY <2>1 DEF Within, ConsumersDistinct, GraphBuilds, Attached
  <2>4. ~(secured /\ Cardinality(Analyze(d)) > MaxFindings)
    <3>1. /\ Cardinality(Analyze(d)) <= Cardinality(Analyze(e))
          /\ Cardinality(Analyze(d)) \in Nat /\ Cardinality(Analyze(e)) \in Nat
      BY <2>3, CountGrows
    <3>2. MaxFindings \in Nat
      BY BoundsAssumption
    <3>3. QED
      BY <2>1, <3>1, <3>2
  <2>5. r.status = EvaluateStatus(Analyze(d), d.diagnostics, policy)
    BY <2>3, <2>4 DEF RunSafety
  <2>6. validateFindings(Analyze(d))
    BY <2>2, <2>3, ValidityShrinks
  <2>7. r.status = aggregateStatus(Analyze(d), Blocked(Analyze(d), policy), d.diagnostics)
    BY <2>2, <2>5, <2>6 DEF EvaluateStatus
  <2>8. QED
    BY <2>2, <2>7, AggregateGrows
<1>3. QED
  BY <1>1, <1>2

\* More evidence about the same change never makes the answer better (finding.go,
\* build.go, evaluate.go, engine.go:72-103).
THEOREM EvidenceIsMonotone == Spec => EvidenceNeverImproves
<1>1. ASSUME EvidenceInv, Next PROVE Severity(result'.status) >= Severity(result.status)
  <2>1. /\ Grows /\ IsFiniteSet(consumers') /\ result' \in RunSafety(discovery')
    BY <1>1, StepGrows
  <2>2. Within(discovery, discovery')
    BY <2>1 DEF Grows, Within, discovery
  <2>3. /\ Attached(discovery) /\ IsFiniteSet(discovery.consumers) /\ IsFiniteSet(discovery'.consumers)
        /\ changeSet \in ChangeSets /\ result \in RunSafety(discovery)
    BY <1>1, <2>1 DEF EvidenceInv, discovery
  <2>4. QED
    BY <2>1, <2>2, <2>3, StatusGrows
<1>2. EvidenceInv /\ [Next]_vars => [Severity(result'.status) >= Severity(result.status)]_vars
  BY <1>1
<1>3. QED
  BY <1>2, EvidenceInvariant, PTL DEF Spec, EvidenceNeverImproves
-----------------------------------------------------------------------------
(* What the findings name. *)

\* What Append makes.
LEMMA AppendFacts ==
  ASSUME NEW S, NEW b \in Seq(S), NEW x \in S
  PROVE  /\ Len(b) \in Nat /\ Append(b, x) \in Seq(S) /\ Len(Append(b, x)) = Len(b) + 1
         /\ Append(b, x)[Len(b) + 1] = x
         /\ \A i \in 1 .. Len(b) : Append(b, x)[i] = b[i]
<1>1. Len(b) \in Nat /\ Append(b, x) \in Seq(S) /\ Len(Append(b, x)) = Len(b) + 1
  OBVIOUS
<1>2. Append(b, x)[Len(b) + 1] = x
  OBVIOUS
<1>3. \A i \in 1 .. Len(b) : Append(b, x)[i] = b[i]
  OBVIOUS
<1>4. QED
  BY <1>1, <1>2, <1>3

\* A sequence over a set is one over a larger set.
LEMMA WiderSeq ==
  ASSUME NEW S, NEW T, NEW a \in Seq(S)
  PROVE  a \in Seq(S \union T)
OBVIOUS

\* A sequence is another one and a last element.
LEMMA OneLonger ==
  ASSUME NEW S, NEW a \in Seq(S), NEW b \in Seq(S), NEW x \in S
  PROVE  a = Append(b, x) <=> Len(a) = Len(b) + 1 /\ SubSeq(a, 1, Len(b)) = b /\ a[Len(a)] = x
<1> DEFINE A == Append(b, x)
           B == SubSeq(a, 1, Len(b))
<1>1. /\ Len(b) \in Nat /\ A \in Seq(S) /\ Len(A) = Len(b) + 1 /\ A[Len(b) + 1] = x
      /\ \A i \in 1 .. Len(b) : A[i] = b[i]
  BY AppendFacts
<1> HIDE DEF A
<1>2. ASSUME Len(a) = Len(b) + 1
      PROVE  B \in Seq(S) /\ Len(B) = Len(b) /\ \A i \in 1 .. Len(b) : B[i] = a[i]
  BY <1>1, <1>2
<1> HIDE DEF B
<1>3. ASSUME a = A PROVE Len(a) = Len(b) + 1 /\ B = b /\ a[Len(a)] = x
  <2>1. Len(a) = Len(b) + 1 /\ a[Len(a)] = x
    BY <1>1, <1>3
  <2>2. B = b
    BY <1>1, <1>2, <1>3, <2>1
  <2>3. QED
    BY <2>1, <2>2
<1>4. ASSUME Len(a) = Len(b) + 1, B = b, a[Len(a)] = x PROVE a = A
  <2>1. \A i \in 1 .. Len(a) : a[i] = A[i]
    BY <1>1, <1>2, <1>4
  <2>2. QED
    BY <1>1, <1>4, <2>1
<1>5. QED
  BY <1>3, <1>4 DEF A, B

\* The series of a metric: its name, or its name and one family suffix.
LEMMA FamilyNames ==
  ASSUME NEW a \in Seq(STRING), NEW b \in Seq(STRING)
  PROVE  MetricFamilyMatches(a, b) <=>
           \/ a = b
           \/ /\ Len(a) = Len(b) + 1 /\ SubSeq(a, 1, Len(b)) = b
              /\ a[Len(a)] \in {"_bucket", "_sum", "_count", "_created"}
<1> DEFINE Suffixes == {"_bucket", "_sum", "_count", "_created"}
           Word == STRING \union Suffixes
<1>1. a \in Seq(Word) /\ b \in Seq(Word)
  BY WiderSeq
<1>2. ASSUME NEW x \in Suffixes
      PROVE  a = Append(b, x) <=> Len(a) = Len(b) + 1 /\ SubSeq(a, 1, Len(b)) = b /\ a[Len(a)] = x
  <2>1. x \in Word
    OBVIOUS
  <2> HIDE DEF Word
  <2>2. QED
    BY <1>1, <2>1, OneLonger
<1>3. MetricFamilyMatches(a, b) <=> a = b \/ \E x \in Suffixes : a = Append(b, x)
  BY Zenon DEF MetricFamilyMatches
<1> HIDE DEF Suffixes
<1>4. MetricFamilyMatches(a, b) <=>
        a = b \/ (Len(a) = Len(b) + 1 /\ SubSeq(a, 1, Len(b)) = b /\ a[Len(a)] \in Suffixes)
  BY <1>2, <1>3, Zenon
<1>5. QED
  BY <1>4, Zenon DEF Suffixes

\* SymbolMatches tells the symbols of a family from all others.
LEMMA MatchIsFamily ==
  ASSUME NEW s, NEW t, IsSymbol(s), IsSymbol(t)
  PROVE  SymbolMatches(s, t) <=> InFamily(s, t)
<1>1. /\ s.name \in Seq(STRING) /\ s.parent \in Seq(STRING)
      /\ t.name \in Seq(STRING) /\ t.parent \in Seq(STRING)
  BY DEF IsSymbol
<1>2. s = t <=> /\ s.domain = t.domain /\ s.kind = t.kind
                /\ s.name = t.name /\ s.parent = t.parent
  BY DEF IsSymbol
<1> DEFINE Named(a, b) == /\ Len(a) = Len(b) + 1 /\ SubSeq(a, 1, Len(b)) = b
                          /\ a[Len(a)] \in {"_bucket", "_sum", "_count", "_created"}
<1>3. /\ MetricFamilyMatches(s.name, t.name) <=> s.name = t.name \/ Named(s.name, t.name)
      /\ MetricFamilyMatches(s.parent, t.parent) <=> s.parent = t.parent \/ Named(s.parent, t.parent)
  BY <1>1, FamilyNames
<1>4. InFamily(s, t) <=>
        /\ s.domain = t.domain /\ s.kind = t.kind
        /\ \/ s = t
           \/ /\ s.domain = "prometheus"
              /\ IF s.kind = "metric" THEN Named(s.name, t.name)
                 ELSE s.name = t.name /\ Named(s.parent, t.parent)
  BY DEF InFamily
<1> HIDE DEF Named
<1>5. /\ s.domain = "prometheus" => s.kind \in {"metric", "label"}
      /\ s.kind = "metric" => s.parent = <<>>
      /\ t.kind = "metric" => t.parent = <<>>
  BY DEF IsSymbol
<1>6. CASE s.domain # t.domain \/ s.kind # t.kind
  BY <1>4, <1>6 DEF SymbolMatches
<1>7. CASE s.domain = t.domain /\ s.kind = t.kind /\ s.domain = "prometheus" /\ s.kind = "metric"
  <2>1. s.parent = t.parent
    BY <1>5, <1>7
  <2>2. SymbolMatches(s, t) <=> MetricFamilyMatches(s.name, t.name)
    BY <1>7 DEF SymbolMatches
  <2>3. QED
    BY <1>2, <1>3, <1>4, <1>7, <2>1, <2>2
<1>8. CASE s.domain = t.domain /\ s.kind = t.kind /\ s.domain = "prometheus" /\ s.kind = "label"
  <2>1. SymbolMatches(s, t) <=> s.name = t.name /\ MetricFamilyMatches(s.parent, t.parent)
    BY <1>8 DEF SymbolMatches
  <2>2. QED
    BY <1>2, <1>3, <1>4, <1>8, <2>1
<1>9. CASE s.domain = t.domain /\ s.kind = t.kind /\ s.domain # "prometheus"
  <2>1. SymbolMatches(s, t) <=> s.name = t.name /\ s.parent = t.parent
    BY <1>9 DEF SymbolMatches
  <2>2. QED
    BY <1>2, <1>4, <1>9, <2>1
<1>10. QED
  BY <1>5, <1>6, <1>7, <1>8, <1>9

\* Node IDs do not collide.
LEMMA NodeIds ==
  /\ \A s, t : SymbolNode(s) = SymbolNode(t) <=> s = t
  /\ \A k, l : ConsumerNode(k) = ConsumerNode(l) <=> k = l
  /\ \A s, k : SymbolNode(s) # ConsumerNode(k)
BY DEF SymbolNode, ConsumerNode

\* The edges, by what they stand for.
LEMMA EdgeCases ==
  ASSUME NEW d
  PROVE  /\ \A x \in Edges(d) :
              \/ \E r \in d.references : x = <<SymbolNode(r.symbol), ConsumerNode(r.consumer)>>
              \/ \E p \in d.productions : x = <<ConsumerNode(p.consumer), SymbolNode(p.symbol)>>
         /\ \A s, k : <<SymbolNode(s), ConsumerNode(k)>> \in Edges(d)
                        <=> \E r \in d.references : r.symbol = s /\ r.consumer = k
         /\ \A s, k : (\E p \in d.productions : p.symbol = s /\ p.consumer = k)
                        => <<ConsumerNode(k), SymbolNode(s)>> \in Edges(d)
<1>1. \A x \in Edges(d) :
        \/ \E r \in d.references : x = <<SymbolNode(r.symbol), ConsumerNode(r.consumer)>>
        \/ \E p \in d.productions : x = <<ConsumerNode(p.consumer), SymbolNode(p.symbol)>>
  BY DEF Edges
<1>2. ASSUME NEW s, NEW k, <<SymbolNode(s), ConsumerNode(k)>> \in Edges(d)
      PROVE  \E r \in d.references : r.symbol = s /\ r.consumer = k
  <2>1. \A a, b, x, y : <<a, b>> = <<x, y>> <=> a = x /\ b = y
    OBVIOUS
  <2>2. ASSUME NEW p \in d.productions
        PROVE  <<SymbolNode(s), ConsumerNode(k)>> # <<ConsumerNode(p.consumer), SymbolNode(p.symbol)>>
    BY <2>1, NodeIds
  <2>3. PICK r \in d.references : <<SymbolNode(s), ConsumerNode(k)>> = <<SymbolNode(r.symbol), ConsumerNode(r.consumer)>>
    BY <1>1, <1>2, <2>2
  <2>4. QED
    BY <2>1, <2>3, NodeIds
<1>3. \A s, k : (\E r \in d.references : r.symbol = s /\ r.consumer = k)
                  => <<SymbolNode(s), ConsumerNode(k)>> \in Edges(d)
  BY DEF Edges
<1>4. \A s, k : (\E p \in d.productions : p.symbol = s /\ p.consumer = k)
                  => <<ConsumerNode(k), SymbolNode(s)>> \in Edges(d)
  BY DEF Edges
<1>5. QED
  BY <1>1, <1>2, <1>3, <1>4, Zenon

\* The edge from a symbol to a reader.
LEMMA ReadEdge ==
  ASSUME NEW d, NEW s, NEW k, <<SymbolNode(s), ConsumerNode(k)>> \in Edges(d)
  PROVE  \E r \in d.references : r.symbol = s /\ r.consumer = k
BY EdgeCases

\* A node reaches itself, and what it reaches reaches on.
LEMMA ReachSteps ==
  ASSUME NEW d, NEW n \in Nodes(d)
  PROVE  /\ n \in ReachableFrom(d, n)
         /\ \A l \in ReachableFrom(d, n), m \in Nodes(d) :
              <<l, m>> \in Edges(d) => m \in ReachableFrom(d, n)
<1>1. \A l, m : <<l, m>>[1] = l /\ <<l, m>>[2] = m
  OBVIOUS
<1>2. QED
  BY <1>1, Zenon DEF ReachableFrom

\* Whoever is impacted depends on the change, whatever set one tries.
LEMMA ImpactedDepend ==
  ASSUME EvidenceInv, NEW change \in changeSet, NEW id \in ImpactedConsumers(discovery, change.from),
         \A s \in SymbolsOf(discovery) : SymbolMatches(s, change.from) <=> InFamily(s, change.from)
  PROVE  id \in Dependents(change)
<1>1. PICK s \in SymbolsOf(discovery) :
        /\ InFamily(s, change.from)
        /\ IF includeTransitive
           THEN ConsumerNode(id) \in ReachableFrom(discovery, SymbolNode(s))
           ELSE <<SymbolNode(s), ConsumerNode(id)>> \in Edges(discovery)
  BY Zenon DEF ImpactedConsumers
<1>2. id \in Known(discovery)
  BY DEF ImpactedConsumers
<1>3. ASSUME NEW S \in SUBSET Known(discovery), ClosedUnderReading(S, change) PROVE id \in S
  <2>1. CASE ~includeTransitive
    <3>1. Reads(id, s)
      <4>1. <<SymbolNode(s), ConsumerNode(id)>> \in Edges(discovery)
        BY <1>1, <2>1
      <4>2. \E r \in discovery.references : r.symbol = s /\ r.consumer = id
        BY <4>1, ReadEdge
      <4>3. QED
        BY <4>2, DiscoveryFields DEF Reads
    <3>2. QED
      BY <1>1, <1>2, <1>3, <3>1, Zenon DEF ClosedUnderReading
  <2>2. CASE includeTransitive
    <3> DEFINE Fed == {y \in SymbolsOf(discovery) : InFamily(y, change.from) \/ \E up \in S : Outputs(up, y)}
               N == {ConsumerNode(k) : k \in S} \union {SymbolNode(y) : y \in Fed}
    <3>1. N \in SUBSET Nodes(discovery) /\ SymbolNode(s) \in N
      BY <1>1 DEF Nodes
    <3>2. /\ \A k : ConsumerNode(k) \in N <=> k \in S
          /\ \A y : SymbolNode(y) \in N <=> y \in Fed
      <4> HIDE DEF Fed
      <4>1. ASSUME NEW k PROVE ConsumerNode(k) \in N <=> k \in S
        <5>1. ConsumerNode(k) \notin {SymbolNode(y) : y \in Fed}
          BY NodeIds
        <5>2. ConsumerNode(k) \in {ConsumerNode(l) : l \in S} <=> k \in S
          BY NodeIds
        <5>3. QED
          BY <5>1, <5>2
      <4>2. ASSUME NEW y PROVE SymbolNode(y) \in N <=> y \in Fed
        <5>1. SymbolNode(y) \notin {ConsumerNode(l) : l \in S}
          BY NodeIds
        <5>2. SymbolNode(y) \in {SymbolNode(z) : z \in Fed} <=> y \in Fed
          BY NodeIds
        <5>3. QED
          BY <5>1, <5>2
      <4>3. QED
        BY <4>1, <4>2
    <3>3. ASSUME NEW r \in references, r.symbol \in Fed PROVE r.consumer \in S
      <4>1. r.consumer \in Known(discovery) /\ Reads(r.consumer, r.symbol)
        BY <3>3, DiscoveryFields DEF EvidenceInv, Attached, Reads
      <4>2. QED
        BY <1>3, <2>2, <3>3, <4>1, Zenon DEF ClosedUnderReading
    <3>4. ASSUME NEW p \in productions, p.consumer \in S PROVE p.symbol \in Fed
      <4>1. p.symbol \in SymbolsOf(discovery) /\ Outputs(p.consumer, p.symbol)
        BY <3>4, DiscoveryFields DEF SymbolsOf, Outputs
      <4>2. QED
        BY <3>4, <4>1, Zenon
    <3> HIDE DEF Fed, N
    <3>5. ASSUME NEW x \in Edges(discovery), x[1] \in N PROVE x[2] \in N
      <4>1. CASE \E r \in references : x = <<SymbolNode(r.symbol), ConsumerNode(r.consumer)>>
        <5>1. PICK r \in references : x = <<SymbolNode(r.symbol), ConsumerNode(r.consumer)>>
          BY <4>1
        <5>2. x[1] = SymbolNode(r.symbol) /\ x[2] = ConsumerNode(r.consumer)
          BY <5>1
        <5>3. QED
          BY <3>2, <3>3, <3>5, <5>2, Zenon
      <4>2. CASE \E p \in productions : x = <<ConsumerNode(p.consumer), SymbolNode(p.symbol)>>
        <5>1. PICK p \in productions : x = <<ConsumerNode(p.consumer), SymbolNode(p.symbol)>>
          BY <4>2
        <5>2. x[1] = ConsumerNode(p.consumer) /\ x[2] = SymbolNode(p.symbol)
          BY <5>1
        <5>3. QED
          BY <3>2, <3>4, <3>5, <5>2, Zenon
      <4>3. QED
        BY <4>1, <4>2, EdgeCases, DiscoveryFields
    <3>6. ConsumerNode(id) \in N
      BY <1>1, <2>2, <3>1, <3>5, Zenon DEF ReachableFrom
    <3>7. QED
      BY <3>2, <3>6, Zenon
  <2>3. QED
    BY <2>1, <2>2
<1>4. QED
  BY <1>2, <1>3, Zenon DEF Dependents

\* The impacted consumers are a set closed under reading.
LEMMA ImpactedIsClosed ==
  ASSUME EvidenceInv, NEW change \in changeSet,
         \A s \in SymbolsOf(discovery) : SymbolMatches(s, change.from) <=> InFamily(s, change.from)
  PROVE  ClosedUnderReading(ImpactedConsumers(discovery, change.from), change)
<1> DEFINE I == ImpactedConsumers(discovery, change.from)
<1>1. /\ \A y \in SymbolsOf(discovery) : SymbolNode(y) \in Nodes(discovery)
      /\ \A k \in Known(discovery) : ConsumerNode(k) \in Nodes(discovery)
  BY DEF Nodes
<1>2. ASSUME NEW k \in Known(discovery), NEW s \in SymbolsOf(discovery), Reads(k, s)
      PROVE  <<SymbolNode(s), ConsumerNode(k)>> \in Edges(discovery)
  BY <1>2, EdgeCases, DiscoveryFields, Zenon DEF Reads
<1>3. ASSUME NEW k \in Known(discovery), NEW s \in SymbolsOf(discovery), Reads(k, s), InFamily(s, change.from)
      PROVE  k \in I
  <2>1. ConsumerNode(k) \in ReachableFrom(discovery, SymbolNode(s))
    BY <1>1, <1>2, <1>3, ReachSteps, Zenon
  <2>2. QED
    BY <1>2, <1>3, <2>1, Zenon DEF ImpactedConsumers
<1>4. ASSUME includeTransitive, NEW k \in Known(discovery), NEW up \in I, NEW s \in SymbolsOf(discovery),
             Outputs(up, s), Reads(k, s)
      PROVE  k \in I
  <2>1. PICK t \in SymbolsOf(discovery) : /\ SymbolMatches(t, change.from)
                                          /\ ConsumerNode(up) \in ReachableFrom(discovery, SymbolNode(t))
    BY <1>4, Zenon DEF ImpactedConsumers
  <2>2. <<ConsumerNode(up), SymbolNode(s)>> \in Edges(discovery)
    BY <1>4, EdgeCases, DiscoveryFields, Zenon DEF Outputs
  <2>3. SymbolNode(s) \in ReachableFrom(discovery, SymbolNode(t))
    BY <1>1, <2>1, <2>2, ReachSteps, Zenon
  <2>4. ConsumerNode(k) \in ReachableFrom(discovery, SymbolNode(t))
    BY <1>1, <1>2, <1>4, <2>3, ReachSteps, Zenon
  <2>5. QED
    BY <1>4, <2>1, <2>4, Zenon DEF ImpactedConsumers
<1> HIDE DEF I
<1>5. ClosedUnderReading(I, change)
  BY <1>3, <1>4, Zenon DEF ClosedUnderReading
<1>6. QED
  BY <1>5 DEF I

\* The graph's answer is the one said of consumers alone.
LEMMA ImpactedIsDependents ==
  ASSUME EvidenceInv, NEW change \in changeSet
  PROVE  \A id : id \in ImpactedConsumers(discovery, change.from) <=> id \in Dependents(change)
<1>1. IsSymbol(change.from)
  BY ChangesAssumption DEF EvidenceInv
<1>2. \A s \in SymbolsOf(discovery) : IsSymbol(s)
  BY EvidenceAssumption, DiscoveryFields DEF EvidenceInv, SymbolsOf
<1>3. \A s \in SymbolsOf(discovery) : SymbolMatches(s, change.from) <=> InFamily(s, change.from)
  BY <1>1, <1>2, MatchIsFamily
<1>4. ImpactedConsumers(discovery, change.from) \in SUBSET Known(discovery)
  BY DEF ImpactedConsumers
<1>5. ClosedUnderReading(ImpactedConsumers(discovery, change.from), change)
  BY <1>3, ImpactedIsClosed
<1>6. QED
  BY <1>3, <1>4, <1>5, ImpactedDepend, Zenon DEF Dependents

\* The findings name exactly the consumers that depend on a change or may (build.go,
\* finding.go, paths.go).
THEOREM FindingsAreComplete == Spec => []FindingsAreExact
<1>1. ASSUME EvidenceInv PROVE FindingsAreExact
  <2>1. SUFFICES ASSUME result.status # "ERROR", NEW change \in changeSet, NEW c \in consumers
                 PROVE  (\E f \in result.findings : f.change = change.id /\ f.consumer = c.id)
                        <=> (c.id \in Dependents(change) \/ Uncertain(discovery, c, change))
    BY Zenon DEF FindingsAreExact
  <2>2. ConsumersDistinct(discovery) /\ result.findings = Analyze(discovery)
    BY <1>1, <2>1, DecidedIsComplete
  <2>3. Reported(discovery, c, change) <=> (c.id \in Dependents(change) \/ Uncertain(discovery, c, change))
    BY <1>1, ImpactedIsDependents, Zenon DEF Reported
  <2>4. ASSUME Reported(discovery, c, change)
        PROVE  \E f \in result.findings : f.change = change.id /\ f.consumer = c.id
    <3>1. Finding(discovery, c, change) \in Analyze(discovery)
      BY <2>4, AnalyzeMembers, DiscoveryFields, Zenon
    <3>2. QED
      BY <2>2, <3>1, FindingFields, Zenon
  <2>5. ASSUME NEW f \in result.findings, f.change = change.id, f.consumer = c.id
        PROVE  Reported(discovery, c, change)
    <3>1. PICK a \in changeSet, x \in consumers : Reported(discovery, x, a) /\ f = Finding(discovery, x, a)
      BY <2>2, AnalyzeMembers, DiscoveryFields, Zenon
    <3>2. a.id = change.id /\ x.id = c.id
      BY <2>5, <3>1, FindingFields
    <3>3. a = change
      BY <1>1, <3>2, ChangesAssumption DEF EvidenceInv
    <3>4. x = c
      BY <2>2, <3>2, DiscoveryFields DEF ConsumersDistinct
    <3>5. QED
      BY <3>1, <3>3, <3>4
  <2>6. QED
    BY <2>3, <2>4, <2>5, Zenon
<1>2. QED
  BY <1>1, EvidenceInvariant, PTL

(***************************************************************************)
(* The traversal of the graph, which the engine calls for every changed    *)
(* symbol: ImpactPaths visits exactly the reachable nodes and              *)
(* records a shortest path to each.  Reachability is membership in every   *)
(* closed set that holds the start and takes no induction: the visited set *)
(* is closed when the queue is empty, and no visited node leaves a closed  *)
(* set.  Shortness takes two: the queue is in layers (Layered), and then,  *)
(* by induction on k, a node within k edges has a path of at most k edges. *)
(***************************************************************************)

\* One more edge from a reachable node leads to a reachable node.
LEMMA ReachableStep ==
  ASSUME NEW n \in Reachable, NEW m \in Successors(n)
  PROVE  m \in Reachable
BY DEF Reachable, Closed, Successors

\* What the queue holds after Append and Tail.
LEMMA AppendInQueue ==
  ASSUME NEW S, NEW q \in Seq(S), NEW m
  PROVE  /\ Append(q, m) \in Seq(S \union {m})
         /\ \A n : (\E i \in 1 .. Len(Append(q, m)) : Append(q, m)[i] = n)
                   <=> (n = m \/ \E i \in 1 .. Len(q) : q[i] = n)
<1> DEFINE T == S \union {m}
<1>0. q \in Seq(T) /\ m \in T
  OBVIOUS
<1> HIDE DEF T
<1>1. /\ Append(q, m) \in Seq(T)
      /\ Len(Append(q, m)) = Len(q) + 1
      /\ Len(q) \in Nat
      /\ \A i \in 1 .. Len(q) : Append(q, m)[i] = q[i]
      /\ Append(q, m)[Len(q) + 1] = m
  BY <1>0
<1>2. ASSUME NEW n, NEW i \in 1 .. Len(Append(q, m)), Append(q, m)[i] = n
      PROVE  n = m \/ \E j \in 1 .. Len(q) : q[j] = n
  <2>1. i \in 1 .. Len(q) \/ i = Len(q) + 1
    BY <1>1
  <2>2. QED
    BY <1>1, <1>2, <2>1
<1>3. ASSUME NEW n, n = m \/ \E j \in 1 .. Len(q) : q[j] = n
      PROVE  \E i \in 1 .. Len(Append(q, m)) : Append(q, m)[i] = n
  <2>1. CASE n = m
    <3>1. Len(q) + 1 \in 1 .. Len(Append(q, m))
      BY <1>1
    <3>2. QED
      BY <1>1, <2>1, <3>1
  <2>2. CASE \E j \in 1 .. Len(q) : q[j] = n
    <3>1. PICK j \in 1 .. Len(q) : q[j] = n
      BY <2>2
    <3>2. j \in 1 .. Len(Append(q, m)) /\ Append(q, m)[j] = n
      BY <1>1, <3>1
    <3>3. QED
      BY <3>2
  <2>3. QED
    BY <1>3, <2>1, <2>2
<1>4. QED
  BY <1>1, <1>2, <1>3 DEF T

\* Taking the head off the queue loses no other node.
LEMMA TailInQueue ==
  ASSUME NEW S, NEW q \in Seq(S), q # <<>>
  PROVE  /\ Head(q) \in S
         /\ Tail(q) \in Seq(S)
         /\ \A n : (\E i \in 1 .. Len(q) : q[i] = n)
                   => (n = Head(q) \/ \E i \in 1 .. Len(Tail(q)) : Tail(q)[i] = n)
<1>1. /\ Len(q) \in Nat /\ Len(q) > 0
      /\ Head(q) = q[1] /\ Head(q) \in S
      /\ Tail(q) \in Seq(S) /\ Len(Tail(q)) = Len(q) - 1
      /\ \A i \in 1 .. Len(q) - 1 : Tail(q)[i] = q[i + 1]
  OBVIOUS
<1>2. ASSUME NEW n, NEW i \in 1 .. Len(q), q[i] = n, n # Head(q)
      PROVE  \E j \in 1 .. Len(Tail(q)) : Tail(q)[j] = n
  <2>1. i - 1 \in 1 .. Len(Tail(q)) /\ Tail(q)[i - 1] = n
    BY <1>1, <1>2
  <2>2. QED
    BY <2>1
<1>3. QED
  BY <1>1, <1>2

\* The types of the traversal's variables are invariant: the queue and the node
\* under expansion are always visited nodes with a recorded path.
THEOREM TraversalTypeCorrect == SearchSpec => []TypeOK
<1>1. SearchInit => TypeOK
  BY DEF SearchInit, TypeOK, Node
<1>2. TypeOK /\ [SearchNext]_searchVars => TypeOK'
  <2> SUFFICES ASSUME TypeOK, [SearchNext]_searchVars PROVE TypeOK'
    OBVIOUS
  <2>1. CASE Dequeue
    <3>1. Head(queue) \in visited /\ Tail(queue) \in Seq(visited)
      BY <2>1, TailInQueue DEF TypeOK, Dequeue
    <3>2. QED
      BY <2>1, <3>1 DEF TypeOK, Dequeue, Successors
  <2>2. ASSUME NEW m \in Node, Visit(m) PROVE TypeOK'
    <3>1. paths[current] \in Seq(Node)
      BY <2>2 DEF TypeOK, Visit
    <3>2. Append(paths[current], m) \in Seq(Node)
      BY <3>1
    <3>3. queue' \in Seq(visited')
      BY <2>2, AppendInQueue DEF TypeOK, Visit, Enqueued
    <3>4. paths' \in [visited' -> Seq(Node)]
      BY <2>2, <3>2 DEF TypeOK, Visit, Unseen
    <3>5. QED
      BY <2>2, <3>3, <3>4 DEF TypeOK, Visit, OtherEdges
  <2>3. ASSUME NEW m \in Node, Skip(m) PROVE TypeOK'
    BY <2>3 DEF TypeOK, Skip, OtherEdges
  <2>4. CASE EdgesDone
    BY <2>4 DEF TypeOK, EdgesDone
  <2>5. CASE UNCHANGED searchVars
    BY <2>5 DEF TypeOK, searchVars
  <2>6. QED
    BY <2>1, <2>2, <2>3, <2>4, <2>5 DEF SearchNext, Terminated
<1>3. QED
  BY <1>1, <1>2, PTL DEF SearchSpec

\* A step changes neither the graph nor the start, hence not what is reachable.
LEMMA SameGraph ==
  ASSUME [SearchNext]_searchVars
  PROVE  /\ out' = out /\ start' = start
         /\ Reachable' = Reachable
         /\ \A n : Successors(n)' = Successors(n)
<1>1. out' = out /\ start' = start
  BY DEF SearchNext, Dequeue, Visit, Skip, EdgesDone, Terminated, searchVars
<1>2. \A n : Successors(n)' = Successors(n)
  BY <1>1 DEF Successors
<1>3. Reachable' = Reachable
  BY <1>1, <1>2 DEF Reachable, Closed
<1>4. QED
  BY <1>1, <1>2, <1>3

\* Frontier holds initially and every step of the traversal preserves it.
LEMMA FrontierStep ==
  ASSUME TypeOK, TypeOK', Frontier, [SearchNext]_searchVars
  PROVE  Frontier'
<1> USE SameGraph
<1>1. CASE Dequeue
  <2>1. \A n \in visited : InQueue(n) => n = Head(queue) \/ InQueue(n)'
    BY <1>1, TailInQueue DEF TypeOK, Dequeue, InQueue
  <2>2. Head(queue) \in visited /\ Head(queue) # NoNode
    BY <1>1, TailInQueue, NodeAssumption DEF TypeOK, Dequeue
  <2>3. ASSUME NEW n \in visited
        PROVE  InQueue(n)' \/ \A m \in Successors(n) : m \in visited \/ (n = current' /\ m \in pending')
    BY <1>1, <2>1, <2>2 DEF Frontier, Dequeue
  <2>4. QED
    BY <1>1, <2>2, <2>3 DEF Frontier, Dequeue
<1>2. ASSUME NEW m \in Node, Visit(m) PROVE Frontier'
  <2>1. \A n : InQueue(n)' <=> n = m \/ InQueue(n)
    BY <1>2, AppendInQueue DEF TypeOK, Visit, Enqueued, InQueue
  <2>2. m \in Reachable
    BY <1>2, ReachableStep DEF TypeOK, Frontier, Visit, NextEdge
  <2>3. ASSUME NEW n \in visited'
        PROVE  InQueue(n)' \/ \A k \in Successors(n) : k \in visited' \/ (n = current' /\ k \in pending')
    BY <1>2, <2>1 DEF Frontier, Visit, OtherEdges
  <2>4. QED
    BY <1>2, <2>2, <2>3 DEF Frontier, Visit, OtherEdges
<1>3. ASSUME NEW m \in Node, Skip(m) PROVE Frontier'
  <2>1. \A n : InQueue(n)' <=> InQueue(n)
    BY <1>3 DEF Skip, InQueue
  <2>2. QED
    BY <1>3, <2>1 DEF Frontier, Skip, OtherEdges, Unseen
<1>4. CASE EdgesDone
  <2>1. \A n : InQueue(n)' <=> InQueue(n)
    BY <1>4 DEF EdgesDone, InQueue
  <2>2. QED
    BY <1>4, <2>1 DEF Frontier, EdgesDone
<1>5. CASE UNCHANGED searchVars
  <2>1. \A n : InQueue(n)' <=> InQueue(n)
    BY <1>5 DEF searchVars, InQueue
  <2>2. QED
    BY <1>5, <2>1 DEF Frontier, searchVars
<1>6. QED
  BY <1>1, <1>2, <1>3, <1>4, <1>5 DEF SearchNext, Terminated

\* The start is queued and reachable.
LEMMA InitFrontier == SearchInit => Frontier
<1> SUFFICES ASSUME SearchInit PROVE Frontier
  OBVIOUS
<1>1. InQueue(start)
  BY DEF SearchInit, InQueue
<1>2. start \in Reachable
  BY DEF SearchInit, Reachable, Node
<1>3. QED
  BY <1>1, <1>2 DEF SearchInit, Frontier

\* For every graph, ImpactPaths ends having visited exactly the reachable nodes.
THEOREM VisitsExactlyReachable == SearchSpec => []FindsReachable
<1>1. SearchInit => Frontier
  BY InitFrontier
<1>2. Frontier /\ TypeOK => FindsReachable
  <2> SUFFICES ASSUME Frontier, TypeOK, Finished PROVE visited = Reachable
    BY DEF FindsReachable
  <2>1. \A n : ~InQueue(n)
    BY DEF Finished, InQueue
  <2>2. Closed(visited)
    BY <2>1 DEF Frontier, Closed, Finished, Successors
  <2>3. Reachable \subseteq visited
    BY <2>2 DEF Reachable, Frontier, TypeOK
  <2>4. QED
    BY <2>3 DEF Frontier
<1>3. QED
  BY <1>1, <1>2, TraversalTypeCorrect, FrontierStep, PTL DEF SearchSpec
-----------------------------------------------------------------------------
(* Induction.  The library states it for a predicate, which the provers      *)
(* cannot instantiate; well-foundedness gives it for a set of numbers.       *)

Less == {p \in Nat \X Nat : p[1] < p[2]}

\* A set of numbers has a least one.
LEMMA LeastNumber ==
  ASSUME NEW T \in SUBSET Nat, T # {}
  PROVE  \E m \in T : \A k \in T : m <= k
<1>1. OpToRel(<, Nat) = Less
  BY DEF OpToRel, Less
<1>2. IsWellFoundedOn(Less, Nat)
  BY <1>1, NatLessThanWellFounded
<1>3. PICK m \in T : \A k \in T : ~(<<k, m>> \in Less)
  BY <1>2, WFMin
<1>4. ASSUME NEW k \in T, k < m PROVE <<k, m>> \in Less
  BY <1>4 DEF Less
<1>5. \A k \in T : k \in Nat /\ m \in Nat /\ ~(k < m)
  BY <1>3, <1>4
<1>6. QED
  BY <1>5

\* A set that holds 0 and every successor holds every number.
LEMMA SetInduction ==
  ASSUME NEW S, 0 \in S, \A n \in Nat : n \in S => n + 1 \in S
  PROVE  \A n \in Nat : n \in S
<1> DEFINE T == Nat \ S
<1>1. SUFFICES ASSUME T # {} PROVE FALSE
  OBVIOUS
<1>2. PICK m \in T : \A k \in T : m <= k
  BY <1>1, LeastNumber
<1>3. m \in Nat /\ m # 0
  BY <1>2
<1>4. m - 1 \in Nat /\ ~(m <= m - 1) /\ (m - 1) + 1 = m
  BY <1>3
<1>5. m - 1 \in S
  BY <1>2, <1>4
<1>6. QED
  BY <1>2, <1>4, <1>5

-----------------------------------------------------------------------------
(* The nodes within k edges. *)

Grown(S) == S \union {m \in Node : \E n \in S : m \in Successors(n)}

\* The first n layers.
Layers(n, g) == g[0] = {start} /\ \A k \in 1 .. n : g[k] = Grown(g[k - 1])

\* There are layers as far as one looks.
LEMMA LayersExist == \A n \in Nat : \E g : Layers(n, g)
<1> DEFINE S == {n \in Nat : \E g : Layers(n, g)}
<1>1. 0 \in S
  <2>1. Layers(0, [k \in {0} |-> {start}])
    BY DEF Layers
  <2>2. QED
    BY <2>1
<1>2. ASSUME NEW n \in Nat, n \in S PROVE n + 1 \in S
  <2>1. PICK g : Layers(n, g)
    BY <1>2
  <2> DEFINE h == [k \in 0 .. n + 1 |-> IF k <= n THEN g[k] ELSE Grown(g[n])]
  <2>2. \A k \in 0 .. n : h[k] = g[k]
    OBVIOUS
  <2>3. h[n + 1] = Grown(g[n])
    OBVIOUS
  <2> HIDE DEF h
  <2>4. h[0] = {start}
    BY <2>1, <2>2 DEF Layers
  <2>5. ASSUME NEW k \in 1 .. n + 1 PROVE h[k] = Grown(h[k - 1])
    <3>1. CASE k \in 1 .. n
      <4>1. k \in 0 .. n /\ k - 1 \in 0 .. n
        BY <3>1
      <4>2. QED
        BY <2>1, <2>2, <3>1, <4>1 DEF Layers
    <3>2. CASE k = n + 1
      <4>1. k - 1 = n /\ n \in 0 .. n
        BY <3>2
      <4>2. QED
        BY <2>2, <2>3, <3>2, <4>1
    <3>3. QED
      BY <2>5, <3>1, <3>2
  <2>6. Layers(n + 1, h)
    BY <2>4, <2>5 DEF Layers
  <2>7. QED
    BY <2>6
<1> HIDE DEF S
<1>3. \A n \in Nat : n \in S
  BY <1>1, <1>2, SetInduction
<1>4. QED
  BY <1>3 DEF S

\* They are the same however far one looks.
LEMMA LayersAgree ==
  /\ \A n \in Nat : \A g : Layers(n + 1, g) => Layers(n, g) /\ g[n + 1] = Grown(g[n])
  /\ \A n \in Nat : \A g, h : Layers(n, g) /\ Layers(n, h) => g[n] = h[n]
<1>1. ASSUME NEW n \in Nat, NEW g, Layers(n + 1, g) PROVE Layers(n, g) /\ g[n + 1] = Grown(g[n])
  <2>1. 1 .. n \subseteq 1 .. n + 1 /\ n + 1 \in 1 .. n + 1 /\ (n + 1) - 1 = n
    OBVIOUS
  <2>2. QED
    BY <1>1, <2>1 DEF Layers
<1> DEFINE S == {n \in Nat : \A g, h : Layers(n, g) /\ Layers(n, h) => g[n] = h[n]}
<1>2. 0 \in S
  BY DEF Layers
<1>3. ASSUME NEW n \in Nat, n \in S PROVE n + 1 \in S
  <2>1. SUFFICES ASSUME NEW g, NEW h, Layers(n + 1, g), Layers(n + 1, h) PROVE g[n + 1] = h[n + 1]
    OBVIOUS
  <2>2. g[n] = h[n]
    BY <1>1, <1>3, <2>1
  <2>3. QED
    BY <1>1, <2>1, <2>2
<1> HIDE DEF S
<1>4. \A n \in Nat : n \in S
  BY <1>2, <1>3, SetInduction
<1>5. QED
  BY <1>1, <1>4 DEF S

\* Within is what its definition says.
LEMMA WithinUnfolds ==
  /\ WithinEdges[0] = {start}
  /\ \A k \in Nat : WithinEdges[k + 1] = Grown(WithinEdges[k])
<1> DEFINE a(n) == CHOOSE g : Layers(n, g)
           F == [n \in Nat |-> a(n)[n]]
<1>1. \A n \in Nat : Layers(n, a(n))
  BY LayersExist
<1> HIDE DEF a
<1>2. F[0] = {start}
  BY <1>1 DEF Layers
<1>3. ASSUME NEW n \in Nat PROVE F[n + 1] = Grown(F[n])
  <2>1. Layers(n, a(n + 1)) /\ a(n + 1)[n + 1] = Grown(a(n + 1)[n])
    BY <1>1, LayersAgree
  <2>2. a(n + 1)[n] = a(n)[n]
    BY <1>1, <2>1, LayersAgree
  <2>3. F[n + 1] = a(n + 1)[n + 1] /\ F[n] = a(n)[n]
    OBVIOUS
  <2>4. QED
    BY <2>1, <2>2, <2>3
<1>4. F \in [Nat -> {F[n] : n \in Nat}] /\ DOMAIN F = Nat
  OBVIOUS
<1> HIDE DEF F
<1>5. ASSUME NEW k \in Nat PROVE F[k] = IF k = 0 THEN {start} ELSE Grown(F[k - 1])
  <2>1. CASE k = 0
    BY <1>2, <2>1
  <2>2. CASE k # 0
    <3>1. k - 1 \in Nat /\ (k - 1) + 1 = k
      BY <2>2
    <3>2. QED
      BY <1>3, <2>2, <3>1
  <2>3. QED
    BY <2>1, <2>2
<1>6. F = [k \in Nat |-> IF k = 0 THEN {start} ELSE Grown(F[k - 1])]
  BY <1>4, <1>5
<1>7. WithinEdges = CHOOSE f : f = [k \in Nat |-> IF k = 0 THEN {start} ELSE Grown(f[k - 1])]
  BY DEF WithinEdges, Grown
<1>8. WithinEdges = [k \in Nat |-> IF k = 0 THEN {start} ELSE Grown(WithinEdges[k - 1])]
  BY <1>6, <1>7
<1>9. \A k \in Nat : k + 1 \in Nat /\ k + 1 # 0 /\ (k + 1) - 1 = k
  OBVIOUS
<1>10. QED
  BY <1>8, <1>9
-----------------------------------------------------------------------------
(* Breadth first: a path that was recorded is a shortest one. *)

Walk(p, n) ==
  /\ Len(p) >= 1 /\ p[1] = start /\ p[Len(p)] = n
  /\ \A i \in 1 .. Len(p) - 1 : <<p[i], p[i + 1]>> \in out

depth(n) == Len(paths[n])

\* The queue is ordered by depth and holds at most two depths, and an examined edge
\* goes at most one deeper.
Layered ==
  /\ \A n \in visited : Walk(paths[n], n)
  /\ start \in visited /\ depth(start) = 1
  /\ \A i, j \in 1 .. Len(queue) : i <= j => depth(queue[i]) <= depth(queue[j])
  /\ \A i \in 1 .. Len(queue), n \in visited : depth(n) <= depth(queue[i]) + 1
  /\ current # NoNode => /\ \A n \in visited : depth(n) <= depth(current) + 1
                         /\ \A i \in 1 .. Len(queue) : depth(current) <= depth(queue[i])
  /\ \A n \in visited : \A m \in Successors(n) :
       \/ InQueue(n)
       \/ n = current /\ m \in pending
       \/ m \in visited /\ depth(m) <= depth(n) + 1

\* A walk with one more edge.
LEMMA WalkStep ==
  ASSUME NEW p \in Seq(Node), NEW n, Walk(p, n), NEW m \in Successors(n)
  PROVE  Walk(Append(p, m), m)
<1>1. /\ Len(p) \in Nat /\ Len(p) >= 1
      /\ Len(Append(p, m)) = Len(p) + 1
      /\ \A i \in 1 .. Len(p) : Append(p, m)[i] = p[i]
      /\ Append(p, m)[Len(p) + 1] = m
  BY DEF Walk, Successors
<1>2. p[1] = start /\ p[Len(p)] = n /\ <<n, m>> \in out
  BY DEF Walk, Successors
<1>3. ASSUME NEW i \in 1 .. Len(p) PROVE <<Append(p, m)[i], Append(p, m)[i + 1]>> \in out
  <2>1. CASE i = Len(p)
    BY <1>1, <1>2, <2>1
  <2>2. CASE i # Len(p)
    <3>1. i \in 1 .. Len(p) - 1 /\ i + 1 \in 1 .. Len(p)
      BY <1>1, <2>2
    <3>2. <<p[i], p[i + 1]>> \in out
      BY <3>1 DEF Walk
    <3>3. QED
      BY <1>1, <3>1, <3>2
  <2>3. QED
    BY <2>1, <2>2
<1>4. 1 \in 1 .. Len(p) /\ Len(p) + 1 - 1 = Len(p) /\ Len(p) + 1 >= 1
  BY <1>1
<1>5. QED
  BY <1>1, <1>2, <1>3, <1>4 DEF Walk

\* The traversal starts with the start alone in the queue.
LEMMA LayeredInit == SearchInit => Layered
<1> SUFFICES ASSUME SearchInit PROVE Layered
  OBVIOUS
<1>1. paths[start] = <<start>> /\ visited = {start} /\ queue = <<start>> /\ current = NoNode
  BY DEF SearchInit
<1>2. depth(start) = 1
  BY <1>1 DEF depth
<1>3. Walk(paths[start], start)
  BY <1>1 DEF Walk
<1>4. Len(queue) = 1 /\ queue[1] = start
  BY <1>1
<1>5. InQueue(start) /\ \A i \in 1 .. Len(queue) : queue[i] = start
  BY <1>4 DEF InQueue
<1>6. QED
  BY <1>1, <1>2, <1>3, <1>5 DEF Layered

\* A step that keeps the recorded paths keeps their walks and depths.
LEMMA SamePaths ==
  ASSUME [SearchNext]_searchVars, paths' = paths
  PROVE  (\A p, n : Walk(p, n)' <=> Walk(p, n)) /\ (\A n : depth(n)' = depth(n))
BY SameGraph DEF Walk, depth

\* The head of the queue is expanded next.
LEMMA LayeredDequeue ==
  ASSUME TypeOK, TypeOK', Frontier, Layered, Dequeue
  PROVE  Layered'
<1>0. [SearchNext]_searchVars
  BY DEF SearchNext
<1>1. /\ out' = out /\ start' = start /\ visited' = visited /\ paths' = paths
      /\ queue' = Tail(queue) /\ current' = Head(queue) /\ pending' = Successors(current')
      /\ current = NoNode
  BY DEF Dequeue
<1>2. /\ Len(queue) \in Nat /\ Len(queue) > 0
      /\ current' = queue[1] /\ current' \in visited
      /\ Len(queue') = Len(queue) - 1
      /\ \A i \in 1 .. Len(queue) - 1 : queue'[i] = queue[i + 1]
  BY <1>1 DEF TypeOK, Dequeue
<1>3. \A i \in 1 .. Len(queue') : i + 1 \in 1 .. Len(queue) /\ queue'[i] = queue[i + 1]
  BY <1>2
<1>4. /\ \A p, n : Walk(p, n)' <=> Walk(p, n)
      /\ \A n : Successors(n)' = Successors(n)
  BY <1>0, <1>1, SamePaths, SameGraph
<1>5. /\ \A i, j \in 1 .. Len(queue') : i <= j => Len(paths'[queue'[i]]) <= Len(paths'[queue'[j]])
      /\ \A i \in 1 .. Len(queue'), n \in visited' : Len(paths'[n]) <= Len(paths'[queue'[i]]) + 1
  <2>1. /\ \A i, j \in 1 .. Len(queue) : i <= j => Len(paths[queue[i]]) <= Len(paths[queue[j]])
        /\ \A i \in 1 .. Len(queue), n \in visited : Len(paths[n]) <= Len(paths[queue[i]]) + 1
    BY DEF Layered, depth
  <2>2. \A i, j \in 1 .. Len(queue') : i <= j => i + 1 <= j + 1
    BY <1>2
  <2>3. QED
    BY <1>1, <1>3, <2>1, <2>2
<1>6. /\ \A n \in visited' : Len(paths'[n]) <= Len(paths'[current']) + 1
      /\ \A i \in 1 .. Len(queue') : Len(paths'[current']) <= Len(paths'[queue'[i]])
  <2>1. 1 \in 1 .. Len(queue) /\ \A i \in 1 .. Len(queue) : 1 <= i
    BY <1>2
  <2>2. QED
    BY <1>1, <1>2, <1>3, <2>1 DEF Layered, depth
<1>7. ASSUME NEW n \in visited, NEW m \in Successors(n)
      PROVE  \/ InQueue(n)'
             \/ n = current' /\ m \in pending'
             \/ m \in visited /\ Len(paths[m]) <= Len(paths[n]) + 1
  <2>0. queue \in Seq(visited) /\ queue # <<>>
    BY DEF TypeOK, Dequeue
  <2>1. InQueue(n) => n = current' \/ InQueue(n)'
    BY <1>1, <2>0, TailInQueue DEF InQueue
  <2>2. current # n
    BY <1>1, NodeAssumption DEF TypeOK
  <2>3. QED
    BY <1>1, <2>1, <2>2 DEF Layered, depth
<1>8. start \in visited /\ Len(paths[start]) = 1 /\ \A n \in visited : Walk(paths[n], n)
  BY DEF Layered, depth
<1>9. QED
  BY <1>1, <1>4, <1>5, <1>6, <1>7, <1>8 DEF Layered, depth

\* A new node is one deeper than the node it was found from, and goes last.
LEMMA LayeredVisit ==
  ASSUME TypeOK, TypeOK', Frontier, Layered, NEW m \in Node, Visit(m)
  PROVE  Layered'
<1>0. [SearchNext]_searchVars
  BY DEF SearchNext
<1> DEFINE d == [n \in visited' |-> Len(paths'[n])]
<1>1. /\ out' = out /\ start' = start /\ visited' = visited \union {m} /\ m \notin visited
      /\ queue' = Append(queue, m) /\ current' = current /\ pending' = pending \ {m}
      /\ current \in visited /\ m \in Successors(current)
  BY DEF Visit, Unseen, Enqueued, OtherEdges, NextEdge, Frontier, TypeOK
<1>2. /\ Len(queue) \in Nat
      /\ Len(queue') = Len(queue) + 1
      /\ \A i \in 1 .. Len(queue) : queue'[i] = queue[i] /\ queue[i] \in visited
      /\ queue'[Len(queue) + 1] = m
  <2>1. queue \in Seq(visited) /\ queue \in Seq(visited')
    BY <1>1 DEF TypeOK
  <2>2. m \in visited'
    BY <1>1
  <2>3. QED
    BY <1>1, <2>1, <2>2
<1>3. /\ \A n \in visited : paths'[n] = paths[n]
      /\ paths'[m] = Append(paths[current], m)
      /\ \A n \in visited : paths[n] \in Seq(Node)
  BY <1>1 DEF Visit, TypeOK
<1>4. /\ \A n \in visited : d[n] = Len(paths[n]) /\ d[n] \in Nat
      /\ d[m] = d[current] + 1
  <2>1. paths[current] \in Seq(Node)
    BY <1>1, <1>3
  <2>2. Len(Append(paths[current], m)) = Len(paths[current]) + 1
    BY <2>1
  <2>3. QED
    BY <1>1, <1>3, <2>2
<1>5. \A n \in visited' : d[n] = Len(paths'[n])
  OBVIOUS
<1> HIDE DEF d
<1>6. /\ \A i, j \in 1 .. Len(queue) : i <= j => d[queue[i]] <= d[queue[j]]
      /\ \A i \in 1 .. Len(queue), n \in visited : d[n] <= d[queue[i]] + 1
      /\ \A n \in visited : d[n] <= d[current] + 1
      /\ \A i \in 1 .. Len(queue) : d[current] <= d[queue[i]]
  <2>1. current # NoNode
    BY DEF Visit
  <2>2. QED
    BY <1>1, <1>2, <1>4, <2>1 DEF Layered, depth
<1>7. \A i \in 1 .. Len(queue') : \/ i \in 1 .. Len(queue) /\ queue'[i] = queue[i] /\ queue[i] \in visited
                                  \/ i = Len(queue) + 1 /\ queue'[i] = m
  BY <1>2
<1>8. /\ \A n \in visited' : d[n] <= d[current] + 1
      /\ \A i \in 1 .. Len(queue') : d[current] <= d[queue'[i]]
  BY <1>1, <1>4, <1>6, <1>7
<1>9. \A i, j \in 1 .. Len(queue') : i <= j => d[queue'[i]] <= d[queue'[j]]
  <2> SUFFICES ASSUME NEW i \in 1 .. Len(queue'), NEW j \in 1 .. Len(queue'), i <= j
               PROVE  d[queue'[i]] <= d[queue'[j]]
    OBVIOUS
  <2>1. CASE j = Len(queue) + 1
    <3>1. queue'[j] = m /\ queue'[i] \in visited'
      BY <1>1, <1>2, <1>7, <2>1
    <3>2. QED
      BY <1>4, <1>8, <3>1
  <2>2. CASE j # Len(queue) + 1
    <3>1. j \in 1 .. Len(queue) /\ i \in 1 .. Len(queue)
      BY <1>2, <2>2
    <3>2. QED
      BY <1>2, <1>6, <3>1
  <2>3. QED
    BY <2>1, <2>2
<1>10. \A i \in 1 .. Len(queue'), n \in visited' : d[n] <= d[queue'[i]] + 1
  <2> SUFFICES ASSUME NEW i \in 1 .. Len(queue'), NEW n \in visited'
               PROVE  d[n] <= d[queue'[i]] + 1
    OBVIOUS
  <2>1. /\ d[n] <= d[current] + 1 /\ d[current] <= d[queue'[i]]
        /\ d[n] \in Nat /\ d[current] \in Nat
    BY <1>1, <1>4, <1>8
  <2>2. d[queue'[i]] \in Nat
    BY <1>1, <1>4, <1>7
  <2>3. QED
    BY <2>1, <2>2
<1>11. ASSUME NEW n \in visited', NEW k \in Successors(n)
       PROVE  \/ InQueue(n)'
              \/ n = current' /\ k \in pending'
              \/ k \in visited' /\ d[k] <= d[n] + 1
  <2>0. queue \in Seq(visited)
    BY DEF TypeOK
  <2>1. \A x : InQueue(x)' <=> x = m \/ InQueue(x)
    BY <1>1, <2>0, AppendInQueue DEF InQueue
  <2>2. CASE n = m
    BY <2>1, <2>2
  <2>3. CASE n \in visited
    <3>1. \/ InQueue(n)
          \/ n = current /\ k \in pending
          \/ k \in visited /\ d[k] <= d[n] + 1
      BY <1>4, <2>3 DEF Layered, depth
    <3>2. CASE n = current /\ k = m
      <4>1. d[k] <= d[n] + 1 /\ k \in visited'
        BY <1>1, <1>4, <3>2
      <4>2. QED
        BY <4>1
    <3>3. CASE ~(n = current /\ k = m)
      BY <1>1, <2>1, <3>1, <3>3
    <3>4. QED
      BY <3>2, <3>3
  <2>4. QED
    BY <1>1, <2>2, <2>3
<1>12. (\A n \in visited : Walk(paths[n], n))'
  <2>2. Walk(paths[current], current) /\ paths[current] \in Seq(Node)
    BY <1>1, <1>3 DEF Layered
  <2>3. Walk(Append(paths[current], m), m)
    BY <1>1, <2>2, WalkStep
  <2>4. \A n \in visited : Walk(paths'[n], n)
    BY <1>3 DEF Layered
  <2>5. \A n \in visited' : Walk(paths'[n], n)
    BY <1>1, <1>3, <2>3, <2>4
  <2>6. QED
    BY <1>1, <2>5 DEF Walk
<1>13. start \in visited /\ d[start] = 1
  BY <1>4 DEF Layered, depth
<1>14. \A n : Successors(n)' = Successors(n)
  BY <1>0, SameGraph
<1>15. \A i \in 1 .. Len(queue') : queue'[i] \in visited'
  BY <1>1, <1>7
<1>16. (/\ start \in visited /\ depth(start) = 1
        /\ \A i, j \in 1 .. Len(queue) : i <= j => depth(queue[i]) <= depth(queue[j])
        /\ \A i \in 1 .. Len(queue), n \in visited : depth(n) <= depth(queue[i]) + 1)'
  BY <1>1, <1>5, <1>9, <1>10, <1>13, <1>15 DEF depth
<1>17. (/\ \A n \in visited : depth(n) <= depth(current) + 1
        /\ \A i \in 1 .. Len(queue) : depth(current) <= depth(queue[i]))'
  BY <1>1, <1>5, <1>8, <1>15 DEF depth
<1>18. (\A n \in visited : \A k \in Successors(n) :
          InQueue(n) \/ (n = current /\ k \in pending) \/ (k \in visited /\ depth(k) <= depth(n) + 1))'
  BY <1>5, <1>11, <1>14 DEF depth
<1>19. QED
  BY <1>12, <1>16, <1>17, <1>18 DEF Layered

\* A step of the traversal keeps the queue in layers.
LEMMA LayeredStep ==
  ASSUME TypeOK, TypeOK', Frontier, Layered, [SearchNext]_searchVars
  PROVE  Layered'
<1>1. CASE Dequeue
  BY <1>1, LayeredDequeue
<1>2. ASSUME NEW m \in Node, Visit(m) PROVE Layered'
  BY <1>2, LayeredVisit
<1>3. CASE (\E m \in Node : Skip(m)) \/ EdgesDone \/ UNCHANGED searchVars
  <2>1. /\ visited' = visited /\ paths' = paths /\ queue' = queue /\ start' = start /\ out' = out
        /\ current' = current \/ current' = NoNode
    BY <1>3 DEF Skip, EdgesDone, searchVars
  <2>2. /\ \A n : InQueue(n)' <=> InQueue(n)
        /\ \A n : Successors(n)' = Successors(n)
    BY <2>1 DEF InQueue, Successors
  <2>3. (/\ \A n \in visited : Walk(paths[n], n)
         /\ start \in visited /\ depth(start) = 1
         /\ \A i, j \in 1 .. Len(queue) : i <= j => depth(queue[i]) <= depth(queue[j])
         /\ \A i \in 1 .. Len(queue), n \in visited : depth(n) <= depth(queue[i]) + 1)'
    BY <2>1 DEF Layered, depth, Walk
  <2>4. (current # NoNode => /\ \A n \in visited : depth(n) <= depth(current) + 1
                             /\ \A i \in 1 .. Len(queue) : depth(current) <= depth(queue[i]))'
    BY <2>1 DEF Layered, depth
  <2>5. ASSUME NEW n \in visited, NEW k \in Successors(n)
        PROVE  InQueue(n) \/ (n = current' /\ k \in pending') \/ (k \in visited /\ depth(k) <= depth(n) + 1)
    <3>1. InQueue(n) \/ (n = current /\ k \in pending) \/ (k \in visited /\ depth(k) <= depth(n) + 1)
      BY DEF Layered
    <3>2. CASE EdgesDone \/ UNCHANGED searchVars
      BY <3>1, <3>2 DEF EdgesDone, searchVars
    <3>3. ASSUME NEW m \in Node, Skip(m)
          PROVE  n = current /\ k \in pending => (n = current' /\ k \in pending')
                                                 \/ (k \in visited /\ depth(k) <= depth(n) + 1)
      BY <3>3 DEF Skip, OtherEdges, Unseen, Layered
    <3>4. QED
      BY <1>3, <3>1, <3>2, <3>3
  <2>6. (\A n \in visited : \A k \in Successors(n) :
          InQueue(n) \/ (n = current /\ k \in pending) \/ (k \in visited /\ depth(k) <= depth(n) + 1))'
    BY <2>1, <2>2, <2>5 DEF depth
  <2>7. QED
    BY <2>3, <2>4, <2>6 DEF Layered
<1>4. QED
  BY <1>1, <1>2, <1>3 DEF SearchNext, Terminated

\* Once the queue is empty a node within k edges has a path of at most k edges.
LEMMA WithinIsShort ==
  ASSUME TypeOK, Layered, Finished
  PROVE  \A k \in Nat : \A n \in WithinEdges[k] : n \in visited /\ depth(n) <= k + 1
<1> DEFINE S == {k \in Nat : \A n \in WithinEdges[k] : n \in visited /\ depth(n) <= k + 1}
<1>1. \A n \in visited : depth(n) \in Nat
  <2>1. \A n \in visited : paths[n] \in Seq(Node)
    BY DEF TypeOK
  <2>2. QED
    BY <2>1 DEF depth
<1>2. \A n \in visited : \A m \in Successors(n) : m \in visited /\ depth(m) <= depth(n) + 1
  <2>1. \A n \in visited : ~InQueue(n) /\ n # current
    BY NodeAssumption DEF Finished, InQueue, TypeOK
  <2>2. QED
    BY <2>1 DEF Layered
<1>3. 0 \in S
  BY WithinUnfolds DEF Layered
<1>4. ASSUME NEW k \in Nat, k \in S PROVE k + 1 \in S
  <2>1. ASSUME NEW n \in WithinEdges[k + 1] PROVE n \in visited /\ depth(n) <= (k + 1) + 1
    <3>1. n \in WithinEdges[k] \/ \E x \in WithinEdges[k] : n \in Successors(x)
      BY <2>1, WithinUnfolds DEF Grown
    <3>2. CASE n \in WithinEdges[k]
      BY <1>1, <1>4, <3>2
    <3>3. ASSUME NEW x \in WithinEdges[k], n \in Successors(x) PROVE n \in visited /\ depth(n) <= (k + 1) + 1
      <4>1. x \in visited /\ depth(x) <= k + 1
        BY <1>4
      <4>2. n \in visited /\ depth(n) <= depth(x) + 1
        BY <1>2, <3>3, <4>1
      <4>3. QED
        BY <1>1, <4>1, <4>2
    <3>4. QED
      BY <3>1, <3>2, <3>3
  <2>2. QED
    BY <2>1
<1> HIDE DEF S
<1>5. \A k \in Nat : k \in S
  BY <1>3, <1>4, SetInduction
<1>6. QED
  BY <1>5 DEF S

\* For every graph, ImpactPaths records a shortest walk from the changed symbol to
\* each node: without transitive analysis no direct reader is dropped.
THEOREM PathsAreShortest == SearchSpec => []ShortestPaths
<1>1. TypeOK /\ Layered => ShortestPaths
  <2> SUFFICES ASSUME TypeOK, Layered, Finished, NEW n \in visited
               PROVE  LET p == paths[n]
                      IN  /\ p[1] = start /\ p[Len(p)] = n
                          /\ \A i \in 1 .. Len(p) - 1 : <<p[i], p[i + 1]>> \in out
                          /\ Len(p) > 1 => n \notin WithinEdges[Len(p) - 2]
    BY DEF ShortestPaths
  <2>1. Walk(paths[n], n)
    BY DEF Layered
  <2>2. ASSUME Len(paths[n]) > 1, n \in WithinEdges[Len(paths[n]) - 2] PROVE FALSE
    <3>1. paths[n] \in Seq(Node)
      BY DEF TypeOK
    <3> DEFINE k == Len(paths[n])
    <3>2. k \in Nat
      BY <3>1
    <3> HIDE DEF k
    <3>3. k - 2 \in Nat
      BY <2>2, <3>2 DEF k
    <3>4. depth(n) <= (k - 2) + 1
      BY <2>2, <3>3, WithinIsShort DEF k
    <3>5. QED
      BY <3>2, <3>4 DEF depth, k
  <2>3. QED
    BY <2>1, <2>2 DEF Walk
<1>2. SearchInit => Frontier
  BY InitFrontier
<1>3. QED
  BY <1>1, <1>2, LayeredInit, LayeredStep, TraversalTypeCorrect, FrontierStep, PTL DEF SearchSpec

\* The traversal of a graph that BuildGraph made, under a numbering f of its
\* nodes, is at the same nodes as the engine's ReachableFrom.
numbered(d, f) == {<<f[e[1]], f[e[2]]>> : e \in Edges(d)}

\* Both are made of closed sets, which the numbering maps to each other.
LEMMA ReachableIsNumbered ==
  ASSUME NEW d, GraphBuilds(d), NEW n \in Nodes(d), NEW f \in [Nodes(d) -> Node],
         \A a, b \in Nodes(d) : f[a] = f[b] => a = b,
         start = f[n], out = numbered(d, f)
  PROVE  Reachable = {f[m] : m \in ReachableFrom(d, n)}
<1> DEFINE N == Nodes(d)
           E == Edges(d)
           R == ReachableFrom(d, n)
           closed(S) == \A e \in E : e[1] \in S => e[2] \in S
<1>1. \A e \in E : e[1] \in N /\ e[2] \in N
  BY DEF Edges, Nodes, GraphBuilds, SymbolsOf
<1>2. R = {m \in N : \A S \in SUBSET N : n \in S /\ closed(S) => m \in S}
  BY Zenon DEF ReachableFrom
<1>3. n \in R /\ closed(R)
  <2> HIDE DEF N, E, R
  <2>1. QED
    BY <1>1, <1>2 DEF N
<1> HIDE DEF N, E, R
<1>4. ASSUME NEW k \in Reachable PROVE \E m \in R : k = f[m]
  <2> DEFINE T == {f[m] : m \in R}
  <2>1. T \in SUBSET Node /\ start \in T
    BY <1>2, <1>3 DEF N
  <2>2. ASSUME NEW j \in T, NEW i \in Successors(j) PROVE i \in T
    <3>1. PICK m \in R : j = f[m]
      OBVIOUS
    <3>2. PICK e \in E : <<j, i>> = <<f[e[1]], f[e[2]]>>
      BY DEF Successors, numbered, E
    <3>3. e[1] = m
      BY <1>1, <1>2, <3>1, <3>2 DEF N
    <3>4. e[2] \in R /\ i = f[e[2]]
      BY <1>3, <3>2, <3>3
    <3>5. QED
      BY <3>4
  <2>3. Closed(T)
    BY <2>2 DEF Closed
  <2>4. k \in T
    BY <1>4, <2>1, <2>3 DEF Reachable
  <2>5. QED
    BY <2>4
<1>5. ASSUME NEW m \in R PROVE f[m] \in Reachable
  <2>1. m \in N /\ f[m] \in Node
    BY <1>2 DEF N
  <2> SUFFICES ASSUME NEW S \in SUBSET Node, start \in S, Closed(S) PROVE f[m] \in S
    BY <2>1 DEF Reachable
  <2> DEFINE T == {a \in N : f[a] \in S}
  <2>2. T \in SUBSET N /\ n \in T
    BY DEF N
  <2>3. ASSUME NEW e \in E, e[1] \in T PROVE e[2] \in T
    <3>1. <<f[e[1]], f[e[2]]>> \in out
      BY DEF numbered, E
    <3>2. f[e[2]] \in Successors(f[e[1]])
      BY <1>1, <3>1 DEF Successors, N
    <3>3. f[e[2]] \in S
      BY <2>3, <3>2 DEF Closed
    <3>4. QED
      BY <1>1, <3>3
  <2>4. m \in T
    <3> HIDE DEF T
    <3>1. QED
      BY <1>2, <2>2, <2>3
  <2>5. QED
    BY <2>4
<1>6. QED
  <2>1. \A k : k \in Reachable <=> \E m \in R : k = f[m]
    BY <1>4, <1>5
  <2>2. QED
    BY <2>1 DEF R

\* What the engine takes for the nodes that a change reaches is what ImpactPaths
\* visits: for any evidence that BuildGraph accepts and any order of its nodes,
\* a finished traversal from a symbol has visited exactly its ReachableFrom.
THEOREM TraversalFindsImpact ==
  ASSUME NEW CONSTANT d, GraphBuilds(d), NEW CONSTANT n \in Nodes(d), NEW CONSTANT f \in [Nodes(d) -> Node],
         \A a, b \in Nodes(d) : f[a] = f[b] => a = b
  PROVE  SearchSpec => [](Finished /\ start = f[n] /\ out = numbered(d, f)
                            => visited = {f[m] : m \in ReachableFrom(d, n)})
<1>1. FindsReachable => (Finished /\ start = f[n] /\ out = numbered(d, f)
                           => visited = {f[m] : m \in ReachableFrom(d, n)})
  BY ReachableIsNumbered DEF FindsReachable
<1>2. QED
  BY <1>1, VisitsExactlyReachable, PTL
=============================================================================
