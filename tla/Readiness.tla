----------------------------- MODULE Readiness -----------------------------
(***************************************************************************)
(* The legacy verdict on a migration (internal/readiness): each consumer   *)
(* is classified for each change, and the classes decide the status.       *)
(*                                                                         *)
(* Evidence is abstract here: a discovery is [read, diagnostics], where    *)
(* read gives the expression of every consumer that was found and          *)
(* diagnostics is a set of [file, required].  What the query analyser says *)
(* of an expression is given by constants: the symbols it refers to,       *)
(* whether it has a part that cannot be resolved, whether it parses.       *)
(***************************************************************************)
EXTENDS Naturals, FiniteSets

CONSTANTS
  Consumers,      \* identifiers of consumers
  Expressions,    \* query texts
  Refs,           \* the symbols an expression refers to
  Unresolved,     \* expressions with a part that cannot be resolved
  Invalid,        \* texts that are no query
  Criticality,    \* of each consumer: 1 (low) to 4 (critical)
  Produces,       \* the symbols a consumer (a recording rule) produces
  Changes         \* records [id, from, to]; to is {} for a removal

\* An expression that is not fully resolved yields no references at all.
resolved(e) == e \notin Unresolved \cup Invalid
found(d) == DOMAIN d.read
referencesByConsumer(d, c) == IF resolved(d.read[c]) THEN Refs[d.read[c]] ELSE {}

\* Who refers to the symbol, directly or through what other consumers produce.
ImpactedConsumers(d, symbol, transitive) ==
  LET after[n \in 0..Cardinality(Consumers)] ==
        IF n = 0 THEN {c \in found(d) : symbol \in referencesByConsumer(d, c)}
        ELSE LET before == after[n-1] IN
             before \cup {c \in found(d) : \E p \in before : Produces[p] \cap referencesByConsumer(d, c) # {}}
  IN after[IF transitive THEN Cardinality(Consumers) ELSE 0]

classify(change, hasOld, hasNew, uncertain) ==
  CASE hasOld /\ hasNew /\ change.to # {} -> "DUAL"
    [] hasOld /\ (change.to = {} \/ ~hasNew) -> "LEGACY_ONLY"
    [] ~hasOld /\ uncertain -> "UNCERTAIN"
    [] ~hasOld /\ ~uncertain /\ hasNew /\ change.to # {} -> "MIGRATED"
    [] OTHER -> "UNAFFECTED"

classification(d, policy, change, c) ==
  classify(change, c \in ImpactedConsumers(d, change.from, policy.transitive),
           \E to \in change.to : c \in ImpactedConsumers(d, to, policy.transitive),
           ~resolved(d.read[c]))

hasRequiredDiagnostic(d) == \E x \in d.diagnostics : x.required

statusForConsumers(d, policy, change) ==
  LET class(c) == classification(d, policy, change, c) IN
  CASE policy.failOnLegacy /\ \E c \in found(d) : class(c) = "LEGACY_ONLY" /\ Criticality[c] >= policy.minimum
         -> "BLOCKED"
    [] hasRequiredDiagnostic(d) -> "INCOMPLETE"
    [] policy.failOnUnknown /\ \E c \in found(d) : class(c) = "UNCERTAIN" /\ Criticality[c] >= 4 -> "INCOMPLETE"
    [] OTHER -> "READY"

statusForChanges(d, policy) ==
  LET statuses == {statusForConsumers(d, policy, change) : change \in Changes} IN
  CASE "BLOCKED" \in statuses -> "BLOCKED"
    [] hasRequiredDiagnostic(d) \/ "INCOMPLETE" \in statuses -> "INCOMPLETE"
    [] OTHER -> "READY"

\* A consumer's worst class over all changes.
worseClassification(class, c) ==
  LET rank == [UNAFFECTED |-> 1, MIGRATED |-> 2, DUAL |-> 3, UNCERTAIN |-> 4, LEGACY_ONLY |-> 5]
      classes == {class[<<change, c>>] : change \in Changes}
  IN CHOOSE k \in classes : \A other \in classes : rank[other] <= rank[k]

\* How many consumers are in each class, and the share that is past the change.
summarize(d, class) ==
  LET count(k) == Cardinality({c \in found(d) : worseClassification(class, c) = k})
      done == count("MIGRATED") + count("DUAL")
      concerned == done + count("LEGACY_ONLY") + count("UNCERTAIN")
  IN [legacyOnly |-> count("LEGACY_ONLY"), uncertain |-> count("UNCERTAIN"), done |-> done,
      progress |-> IF concerned = 0 THEN 100 ELSE (done * 100) \div concerned]

Evaluate(d, policy) ==
  LET class == [x \in Changes \X found(d) |-> classification(d, policy, x[1], x[2])] IN
  [status |-> statusForChanges(d, policy), class |-> class, summary |-> summarize(d, class)]

ReadinessExitCode(status) ==
  CASE status = "READY" -> 0 [] status = "BLOCKED" -> 2 [] status = "INCOMPLETE" -> 3 [] OTHER -> 1
=============================================================================
