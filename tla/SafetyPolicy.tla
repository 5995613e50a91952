---------------------------- MODULE SafetyPolicy ----------------------------
(***************************************************************************)
(* The policy layer of the change-safety engine (internal/safety): how a   *)
(* set of immutable findings and a set of diagnostics become one status.   *)
(* There is no state here, only the functions every other part of the      *)
(* model decides with.                                                     *)
(*                                                                         *)
(* A finding is a record [change, consumer, kind, consumerCriticality,     *)
(* impact, criticality, uncertain].  A diagnostic is any record with a     *)
(* Boolean field "required".                                               *)
(***************************************************************************)
EXTENDS Naturals, FiniteSets

Statuses == {"PASS", "WARN", "BLOCK", "INCOMPLETE", "ERROR"}
RolloutModes == {"audit", "warn", "enforce"}
Actions == {"warn", "block"}

ImpactTypes == {"VISIBILITY_LOSS", "ALERTING_RISK", "SLO_RISK", "SCALING_RISK",
                "DEPLOYMENT_GATE_RISK", "AUTOMATION_RISK", "SEMANTIC_RISK"}
Criticalities == {"low", "medium", "high", "critical"}

\* domain.Criticality's zero value: no adapter and no ownership rule set one.
NoCriticality == "unset"

\* The consumer kinds of internal/domain, by the consequence of losing one.
KindsOf == [VISIBILITY_LOSS      |-> {"dashboard", "dashboard_panel", "query", "runbook"},
            ALERTING_RISK        |-> {"alert_rule"},
            SLO_RISK             |-> {"slo"},
            SCALING_RISK         |-> {"autoscaler"},
            DEPLOYMENT_GATE_RISK |-> {"deployment_gate"},
            AUTOMATION_RISK      |-> {"automation"},
            SEMANTIC_RISK        |-> {"recording_rule", "collector_config", "source_code"}]

ConsumerKinds == UNION {KindsOf[t] : t \in ImpactTypes}

\* Meaningful for a kind of ConsumerKinds; the code returns an error for others.
TypeForConsumer(kind) == CHOOSE t \in ImpactTypes : kind \in KindsOf[t]

criticalityRank(c) ==
  CASE c = "critical" -> 4
    [] c = "high"     -> 3
    [] c = "medium"   -> 2
    [] c = "low"      -> 1
    [] OTHER          -> 0

Rule(minimum, action) == [minimumCriticality |-> minimum, action |-> action]

DefaultImpacts ==
  [t \in ImpactTypes |-> IF t \in {"VISIBILITY_LOSS", "SEMANTIC_RISK"}
                         THEN Rule("low", "warn")
                         ELSE Rule("high", "block")]

DefaultPolicy == [mode |-> "enforce", impacts |-> DefaultImpacts]

\* A policy's impacts is a partial function on the impact types.
validatePolicy(policy) ==
  /\ policy.mode \in RolloutModes
  /\ \A t \in DOMAIN policy.impacts :
       /\ t \in ImpactTypes
       /\ policy.impacts[t].action \in Actions
       /\ policy.impacts[t].minimumCriticality \in Criticalities

FindingKey(f) == <<f.change, f.consumer, f.impact>>

validateFindings(findings) ==
  /\ \A f \in findings :
       /\ f.kind \in ConsumerKinds
       /\ f.impact = TypeForConsumer(f.kind)
       /\ f.criticality = f.consumerCriticality
       /\ \/ f.criticality \in Criticalities
          \/ f.criticality = NoCriticality /\ f.uncertain
  /\ \A f, g \in findings : FindingKey(f) = FindingKey(g) => f = g

RuleFor(policy, impact) ==
  IF impact \in DOMAIN policy.impacts THEN policy.impacts[impact] ELSE Rule("low", "warn")

\* A defect to detect: the rollout mode is not consulted.
AlwaysEnforced(policy, f) ==
  LET rule == RuleFor(policy, f.impact)
  IN  IF /\ rule.action = "block"
         /\ criticalityRank(f.criticality) >= criticalityRank(rule.minimumCriticality)
      THEN "block" ELSE "warn"

\* A blocking rule blocks at or above its threshold, and only when enforcing.
EffectiveAction(policy, f) ==
  LET rule == RuleFor(policy, f.impact)
  IN  IF /\ rule.action = "block"
         /\ criticalityRank(f.criticality) >= criticalityRank(rule.minimumCriticality)
         /\ policy.mode = "enforce"
      THEN "block" ELSE "warn"

\* A defect to detect: a known violation is reported ahead of missing evidence.
BlockBeforeIncomplete(findings, blocked, diagnostics) ==
  IF blocked # {} THEN "BLOCK"
  ELSE IF (\E d \in diagnostics : d.required) \/ (\E f \in findings : f.uncertain) THEN "INCOMPLETE"
  ELSE IF findings # {} \/ diagnostics # {} THEN "WARN" ELSE "PASS"

\* A defect to detect: only required diagnostics count.
OptionalDiagnosticsIgnored(findings, blocked, diagnostics) ==
  IF (\E d \in diagnostics : d.required) \/ (\E f \in findings : f.uncertain) THEN "INCOMPLETE"
  ELSE IF blocked # {} THEN "BLOCK"
  ELSE IF findings # {} THEN "WARN" ELSE "PASS"

\* The worst piece of evidence decides, in the code's order of precedence.
aggregateStatus(findings, blocked, diagnostics) ==
  IF (\E d \in diagnostics : d.required) \/ (\E f \in findings : f.uncertain)
    THEN "INCOMPLETE"
  ELSE IF blocked # {}
    THEN "BLOCK"
  ELSE IF findings # {} \/ diagnostics # {}
    THEN "WARN"
  ELSE "PASS"

Blocked(findings, policy) == {f \in findings : EffectiveAction(policy, f) = "block"}

EvaluateStatus(findings, diagnostics, policy) ==
  IF validatePolicy(policy) /\ validateFindings(findings)
  THEN aggregateStatus(findings, Blocked(findings, policy), diagnostics)
  ELSE "ERROR"

ExitCode(status) ==
  CASE status \in {"PASS", "WARN"} -> 0
    [] status = "BLOCK"            -> 2
    [] status = "INCOMPLETE"       -> 3
    [] OTHER                       -> 1

\* Position of a status in the documented precedence, worst last.
Severity(status) ==
  CASE status = "PASS"       -> 0
    [] status = "WARN"       -> 1
    [] status = "BLOCK"      -> 2
    [] status = "INCOMPLETE" -> 3
    [] OTHER                 -> 4
=============================================================================
