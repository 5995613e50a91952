---------------------------- MODULE Remediation ----------------------------
(***************************************************************************)
(* The remediate and advise commands of a migration (internal/cli          *)
(* runMigrationRemediate, runMigrationAdvise; internal/remediation,        *)
(* internal/explanation, internal/agentprocess).                           *)
(*                                                                         *)
(* The command reads the evidence, asks a local provider process for       *)
(* replacement expressions (or for advice) and checks each proposal: it    *)
(* reads the artifact again, patches the one text that is the old          *)
(* expression, parses the result and evaluates the migration as if the     *)
(* candidate alone were applied.  It writes no artifact.                   *)
(*                                                                         *)
(* Meanwhile people edit the artifacts.  A file is a set of slots, each    *)
(* holding a text: the expressions of its consumers, and other texts (an   *)
(* annotation, a title) that may be the same text.                         *)
(***************************************************************************)
EXTENDS Readiness, Sequences, SequencesExt

CONSTANTS
  Files,            \* artifact files, in the order in which they are loaded
  Texts,            \* slots that are not expressions
  FileOf,           \* the file of each slot
  Patchable,        \* consumers of a Prometheus rule or Grafana dashboard file
  SecretLike,       \* texts that redaction would change
  RequiredSources,  \* files whose source is required
  Policies,         \* readiness policies
  InitialContents,  \* possible contents of the slots
  EditTexts,        \* texts that people put into a slot
  ResponsesTo(_),   \* proposals a provider may make, given the targets
  AdviceFor(_),     \* advice a provider may give, given the findings
  OutputLimit,      \* bytes of output that are kept
  MaxWrites,        \* bound: writes of the provider
  MaxEdits          \* bound: edits by people

ASSUME LimitAssumption == OutputLimit \in Nat /\ MaxWrites \in Nat /\ MaxEdits \in Nat

\* A configuration has a source, a source lists a file once, and an answer is a list.
ASSUME FilesAssumption ==
  /\ Files \in Seq(Range(Files)) /\ Files # << >>
  /\ \A i, j \in DOMAIN Files : Files[i] = Files[j] => i = j
  /\ "elsewhere" \notin Range(Files)
ASSUME AnswersAssumption ==
  \A asked \in SUBSET (Changes \X Consumers) :
    \A answer \in ResponsesTo(asked) : answer \in Seq(Range(answer))

Absent == "absent"
Running == 99   \* no exit code yet
Slots == Consumers \cup Texts

VARIABLES
  contents,   \* what the artifact files hold now
  policy,     \* the configuration's readiness policy
  elsewhere,  \* a required source other than these files failed
  task,       \* "remediate" or "advise"
  pc,         \* the command's next step
  loaded,     \* how many files were read
  discovery,  \* the evidence as it was read, file by file
  result,     \* {} or {the deterministic result}
  targets,    \* what the provider is asked about
  stdout,     \* the provider's output: what was kept, and whether some was not
  written,    \* bytes the provider wrote; history variable
  response,   \* {} or {the decoded answer}
  validated,  \* candidates that passed so far
  shown,      \* what the command printed: {} or {[status, candidates]}
  exit, edits

vars == <<contents, policy, elsewhere, task, pc, loaded, discovery, result, targets, stdout, written,
          response, validated, shown, exit, edits>>
setup == <<policy, elsewhere, task>>
provider == <<stdout, written, response>>

NothingRead == [read |-> [c \in {} |-> Absent], diagnostics |-> {}]
NoOutput == [kept |-> 0, exceeded |-> FALSE]

Init ==
  /\ contents \in InitialContents
  /\ policy \in Policies /\ elsewhere \in BOOLEAN /\ task \in {"remediate", "advise"}
  /\ pc = "load" /\ loaded = 0 /\ discovery = NothingRead /\ result = {} /\ targets = {}
  /\ stdout = NoOutput /\ written = 0 /\ response = {}
  /\ validated = << >> /\ shown = {} /\ exit = Running /\ edits = 0

(***************************************************************************)
(* The repository.                                                         *)
(***************************************************************************)
Edit ==
  /\ edits < MaxEdits /\ exit = Running
  /\ \E s \in Slots, t \in EditTexts \cup {Absent} :
       contents[s] # t /\ contents' = [contents EXCEPT ![s] = t]
  /\ edits' = edits + 1
  /\ UNCHANGED <<setup, pc, loaded, discovery, result, targets, provider, validated, shown, exit>>

(***************************************************************************)
(* Evidence.                                                               *)
(***************************************************************************)
\* The loader's reading of one file: every consumer, and a diagnostic when
\* one of the expressions is not resolved.
parseFile(file, text, required) ==
  LET here == {c \in Consumers : FileOf[c] = file /\ text[c] # Absent} IN
  [read |-> [c \in here |-> text[c]],
   diagnostics |-> IF \A c \in here : resolved(text[c]) THEN {} ELSE {[file |-> file, required |-> required]}]

appendDiscovery(d, more) ==
  [read |-> [c \in DOMAIN d.read \cup DOMAIN more.read |->
               IF c \in DOMAIN more.read THEN more.read[c] ELSE d.read[c]],
   diagnostics |-> d.diagnostics \cup more.diagnostics]

LoadFile ==
  /\ pc = "load"
  /\ LET file == Files[loaded + 1] IN
       discovery' = appendDiscovery(discovery, parseFile(file, contents, file \in RequiredSources))
  /\ loaded' = loaded + 1
  /\ pc' = IF loaded' = Len(Files) THEN "evaluate" ELSE pc
  /\ UNCHANGED <<contents, setup, result, targets, provider, validated, shown, exit, edits>>

hasDirectReference(d, c, symbol) == symbol \in referencesByConsumer(d, c)

\* BuildRequest of remediation: confirmed direct references that can be patched.
remediationTargets(d, evaluated) ==
  {x \in Changes \X found(d) :
     /\ x[1].to # {}
     /\ evaluated.class[x] = "LEGACY_ONLY"
     /\ hasDirectReference(d, x[2], x[1].from)
     /\ x[2] \in Patchable
     /\ d.read[x[2]] \notin SecretLike}

\* BuildRequest of explanation: every blocker and every uncertainty.
adviceFindings(d, evaluated) ==
  {x \in Changes \X found(d) : evaluated.class[x] \in {"LEGACY_ONLY", "UNCERTAIN"}}

\* analysis.Run, and the request.  Without a target there is nothing to ask.
EvaluateAndAsk ==
  /\ pc = "evaluate"
  /\ LET d == IF elsewhere THEN [discovery EXCEPT !.diagnostics = @ \cup {[file |-> "elsewhere", required |-> TRUE]}]
              ELSE discovery
         evaluated == Evaluate(d, policy)
         asked == IF task = "remediate" THEN remediationTargets(d, evaluated) ELSE adviceFindings(d, evaluated)
         nothing == task = "remediate" /\ asked = {}
     IN /\ discovery' = d
        /\ result' = {evaluated}
        /\ targets' = asked
        /\ pc' = IF nothing THEN "done" ELSE "provider"
        /\ exit' = IF nothing THEN ReadinessExitCode(evaluated.status) ELSE exit
  /\ UNCHANGED <<contents, setup, loaded, provider, validated, shown, edits>>

\* The analysis, the provider or the output may fail: exit code 1.
Fail ==
  /\ pc \in {"load", "evaluate", "provider", "check", "render"}
  /\ pc' = "done" /\ exit' = 1
  /\ UNCHANGED <<contents, setup, loaded, discovery, result, targets, provider, validated, shown, edits>>

(***************************************************************************)
(* The provider process.                                                   *)
(***************************************************************************)
\* A defect to detect: a write to a buffer that is exactly full goes unnoticed.
keepSilently(buffer, n) ==
  LET remaining == OutputLimit - buffer.kept IN
  IF remaining <= 0 THEN buffer
  ELSE [kept |-> buffer.kept + (IF n > remaining THEN remaining ELSE n),
        exceeded |-> buffer.exceeded \/ n > remaining]

\* cappedBuffer.Write
keep(buffer, n) ==
  LET remaining == OutputLimit - buffer.kept IN
  IF remaining <= 0 THEN [buffer EXCEPT !.exceeded = @ \/ n # 0]
  ELSE [kept |-> buffer.kept + (IF n > remaining THEN remaining ELSE n),
        exceeded |-> buffer.exceeded \/ n > remaining]

ProviderWrites ==
  /\ pc = "provider" /\ written < MaxWrites
  /\ \E n \in 1..2 : stdout' = keep(stdout, n) /\ written' = written + n
  /\ UNCHANGED <<contents, setup, pc, loaded, discovery, result, targets, response, validated, shown, exit, edits>>

\* The response is about the targets of the request, one candidate each.
validateResponse(answer) ==
  /\ answer # << >> /\ Len(answer) <= Cardinality(targets)
  /\ \A i \in DOMAIN answer :
       /\ answer[i].target \in targets
       /\ answer[i].before = discovery.read[answer[i].target[2]]
       /\ answer[i].after # answer[i].before
  /\ \A i, j \in DOMAIN answer :
       (answer[i].id = answer[j].id \/ answer[i].target = answer[j].target) => i = j

\* Advice orders known consumers by distinct positive numbers.
validateAdvice(advice) ==
  /\ \A i \in DOMAIN advice : advice[i].order > 0 /\ \E x \in targets : x[2] = advice[i].consumer
  /\ \A i, j \in DOMAIN advice : advice[i].order = advice[j].order => i = j

\* Run and Propose (or Explain): an exceeded output is an error even though
\* the process succeeded; so is an answer that the protocol does not allow.
ProviderExits ==
  /\ pc = "provider" /\ written > 0
  /\ \E answer \in IF task = "remediate" THEN ResponsesTo(targets) ELSE AdviceFor(targets) :
       LET accepted == /\ ~stdout.exceeded
                       /\ IF task = "remediate" THEN validateResponse(answer) ELSE validateAdvice(answer)
       IN /\ response' = IF accepted THEN {answer} ELSE {}
          /\ pc' = IF ~accepted THEN "done" ELSE IF task = "remediate" THEN "check" ELSE "render"
          /\ exit' = IF accepted THEN exit ELSE 1
  /\ UNCHANGED <<contents, setup, loaded, discovery, result, targets, stdout, written, validated, shown, edits>>

(***************************************************************************)
(* Validation of the candidates, one after the other.                      *)
(***************************************************************************)
\* The slots of the file that hold the old expression.
scalarMatches(file, before) == {s \in Slots : FileOf[s] = file /\ contents[s] = before}

\* A defect to detect: every text that matches is replaced.
patchEvery(file, before, after) ==
  LET matches == scalarMatches(file, before) IN
  IF matches = {} THEN {} ELSE {[s \in Slots |-> IF s \in matches THEN after ELSE contents[s]]}

\* loadAndPatchArtifact: exactly one text may be the old expression.
patchArtifact(file, before, after) ==
  LET matches == scalarMatches(file, before) IN
  IF Cardinality(matches) # 1 THEN {}
  ELSE {[s \in Slots |-> IF s \in matches THEN after ELSE contents[s]]}

\* A defect to detect: consumers that are gone from the file stay.
addSourceDiscovery(original, candidate, file) ==
  appendDiscovery([original EXCEPT !.diagnostics = {x \in @ : x.file # file}], candidate)

replaceSourceDiscovery(original, candidate, file) ==
  appendDiscovery(
    [read |-> [c \in {c \in found(original) : FileOf[c] # file} |-> original.read[c]],
     diagnostics |-> {x \in original.diagnostics : x.file # file}],
    candidate)

validateTargetProvenance(target) ==
  /\ target[1] \in Changes /\ target[1].to # {}
  /\ target[2] \in found(discovery) \cap Patchable
  /\ hasDirectReference(discovery, target[2], target[1].from)

acceptableExpression(target, after) ==
  /\ after \notin SecretLike
  /\ resolved(after)
  /\ target[1].from \notin Refs[after]
  /\ target[1].to \cap Refs[after] # {}

consumerHolds(parsed, target, after) ==
  /\ target[2] \in found(parsed)
  /\ parsed.read[target[2]] = after
  /\ ~hasDirectReference(parsed, target[2], target[1].from)
  /\ \E to \in target[1].to : hasDirectReference(parsed, target[2], to)

\* The whole of validateCandidate: {} or {what is reported}.
validateCandidate(candidate) ==
  LET target == candidate.target
      file == FileOf[target[2]]
      outcome(patched) ==
        LET parsed == parseFile(file, patched, TRUE)
            simulated == Evaluate(replaceSourceDiscovery(discovery, parsed, file), policy)
        IN IF /\ parsed.diagnostics = {}
              /\ consumerHolds(parsed, target, candidate.after)
              /\ simulated.class[target] \notin {"LEGACY_ONLY", "UNCERTAIN"}
           THEN {[candidate |-> candidate, patched |-> patched, simulated |-> simulated.status, seen |-> contents]}
           ELSE {}
  IN IF validateTargetProvenance(target) /\ acceptableExpression(target, candidate.after)
     THEN UNION {outcome(p) : p \in patchArtifact(file, candidate.before, candidate.after)}
     ELSE {}

\* One candidate that fails fails the command.
ValidateNext ==
  /\ pc = "check"
  /\ \E answer \in response :
       LET checked == validateCandidate(answer[Len(validated) + 1]) IN
       /\ validated' = validated \o SetToSeq(checked)
       /\ pc' = IF checked = {} THEN "done" ELSE IF Len(validated) + 1 = Len(answer) THEN "render" ELSE pc
       /\ exit' = IF checked = {} THEN 1 ELSE exit
  /\ UNCHANGED <<contents, setup, loaded, discovery, result, targets, provider, shown, edits>>

\* A defect to detect: the exit code promises what the last candidate would bring.
exitSimulated(evaluated) ==
  ReadinessExitCode(IF validated = << >> THEN evaluated.status ELSE validated[Len(validated)].simulated)

exitAuthoritative(evaluated) == ReadinessExitCode(evaluated.status)

\* The candidates are sorted to be shown; which ones are shown is what matters.
Render ==
  /\ pc = "render"
  /\ \E evaluated \in result :
       /\ shown' = {[status |-> evaluated.status, candidates |-> Range(validated)]}
       /\ exit' = exitAuthoritative(evaluated)
  /\ pc' = "done"
  /\ UNCHANGED <<contents, setup, loaded, discovery, result, targets, provider, validated, edits>>

Stop == pc = "done" /\ UNCHANGED vars

Next ==
  \/ Edit \/ LoadFile \/ EvaluateAndAsk \/ Fail
  \/ ProviderWrites \/ ProviderExits \/ ValidateNext \/ Render \/ Stop

Spec == Init /\ [][Next]_vars

(***************************************************************************)
(* Properties.                                                             *)
(***************************************************************************)
diagnosticsOfAll(text) ==
  (UNION {parseFile(f, text, f \in RequiredSources).diagnostics : f \in Range(Files)})
  \cup IF elsewhere THEN {[file |-> "elsewhere", required |-> TRUE]} ELSE {}

\* A fresh discovery of the repository, were it to hold these texts.
rediscovered(text) ==
  [read |-> [c \in {c \in Consumers : text[c] # Absent} |-> text[c]], diagnostics |-> diagnosticsOfAll(text)]

\* The provider has no say in the verdict: the exit code and the status shown
\* are those of the evidence the command read, whatever was proposed, and the
\* readings are of one pass over the files.
AuthorityKept ==
  (exit \notin {1, Running}) =>
    /\ exit = ReadinessExitCode(statusForChanges(discovery, policy))
    /\ \A s \in shown : s.status = statusForChanges(discovery, policy)

\* A candidate that passed replaces one text of the file it was checked on.
\* That text is the expression of its consumer, even if the rest of the file
\* was edited after the evidence was read, unless the expression itself was.
PatchIsConfined ==
  \A i \in DOMAIN validated :
    LET v == validated[i]
        replaced == {s \in Slots : v.patched[s] # v.seen[s]}
        consumer == v.candidate.target[2]
    IN Cardinality(replaced) = 1 /\ (v.seen[consumer] = v.candidate.before => consumer \in replaced)

\* "Simulated status if this candidate alone were applied": it is the status a
\* new run on the patched repository would give, provided that the other files
\* did not change since they were read.
SimulationIsHonest ==
  \A i \in DOMAIN validated :
    LET v == validated[i]
        file == FileOf[v.candidate.target[2]]
        untouched == \A c \in Consumers : FileOf[c] # file =>
                       v.seen[c] = IF c \in found(discovery) THEN discovery.read[c] ELSE Absent
    IN untouched => v.simulated = statusForChanges(rediscovered(v.patched), policy)

\* An answer that was used is everything that the provider wrote.
ResponseIsWhole == (response # {}) => written = stdout.kept
=============================================================================
