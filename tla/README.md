# Verification of Telemetry Change Guard

Telemetry Change Guard (TCG) answers one question: if this metric, label or trace attribute
changes, which dashboards, alerts, SLOs, autoscalers and deployment gates break, and may the
change go ahead?  Its answer is a status (`PASS`, `WARN`, `BLOCK`, `INCOMPLETE`, `ERROR`) that a
CI job acts on.  A wrong `PASS` is the failure that matters; a wrong exit code, a report that does
not belong to the verdict, or an input read from outside the trusted repository are the others.

This directory holds TLA+ models of the parts that decide that answer, the TLC configurations that
check them, and TLAPS proofs of what can be proved for every instance.  `PROJECT.json` maps each
definition to the lines it models and lists runs, mutants, hazards, findings and theorems.

## Inventory

| Component | State | Operations | What is hard | What makes it correct |
|---|---|---|---|---|
| `internal/analysis` | discovery, diagnostics, context | Discover, five loaders, RunSafetyWithDiagnostics | one of many sources fails, shared files, a deadline between any two steps | a decision means complete required evidence; no silent gap; it ends |
| `internal/source` | files charged, total bytes | Register, Open, Expand | the repository changes between two looks | limits hold, what is opened is what was charged |
| `internal/impact` | none | BuildGraph, Analyze | metric families, rule outputs, unresolved references | findings are exactly the dependents and the uncertain |
| `internal/graph` | nodes, edges | AddNode, AddEdge, ImpactPaths | cycles, order of edges | exactly the reachable nodes, shortest paths, termination |
| `internal/safety` | none | Evaluate, ExitCode | precedence of statuses, rollout modes | more evidence never improves the answer |
| `experiments/agentic` | worktree, control digests, private copies, attempts, artifacts | Run, finish, createWorktree, Diff, Evaluate, materialize, Close | an untrusted agent, host edits, deadlines, every step can fail | what is offered for review is what was judged; bounded attempts; cleanup |
| `internal/ownership` | none | EnrichWithBudget and its loaders | precedence, a context that ends while files are read | the right owner, or a report that something is missing |
| `internal/cli` | output files | check, migration check, advise, remediate, graph, impact, explain, snapshot, diff, validate, init | several files replaced one after the other, inputs read twice, rollback beside other writers | files of one run, an exit code backed by them, init all or nothing |
| `action`, `action.yml` | the job's files | run-action.sh, the enforcing step | files of an earlier invocation, a process that died | the job passes only on this run's own verdict |
| `internal/readiness` | none | Evaluate | old and new symbol read at once | the legacy verdict, consistent with safety |
| `internal/snapshot`, `internal/changesource`, `adapters/prometheussnapshot`, `adapters/weaver` | none | Compare, Detect, Collect | two requests, ambiguous renames | the change set is the difference of two snapshots |
| `internal/remediation`, `internal/explanation`, `internal/agentprocess` | captured output | Propose, Validate, Run | output caps, artifacts read again after the provider ran, several statuses at once | the authoritative status stays; a patch touches one text; a simulated status is what a new run would say |
| `internal/config`, `internal/domain` | none | Load, Parse, Normalize, Validate | defaults, two formats of change documents | only what the engine can follow reaches it |
| `adapters/*`, `pkg/promql`, `pkg/traceql` | the answers of a service | Parse, Discover, Validate | one endpoint of three fails, a service that moves entries, cancellation | every use is referred to or reported |
| `internal/releasetool`, `docverify`, `containerverify`, `codeqlverify`, `scripts`, `benchmarks`, `e2e` | none | build and CI tools | | out of scope |

How they interact: `cli` loads a configuration and a change set, and calls
`RunSafetyWithDiagnostics`.  That calls `Discover`, which opens every file through one
`source.Budget`, hands it to an adapter, collects consumers, references and diagnostics, enriches
owners and builds the graph; `impact.Analyze` turns graph and change set into findings,
`safety.Evaluate` turns findings and diagnostics into a status, and `cli` writes reports and exits.
The agent harness runs the finished command as a separate process and trusts only its three
answers (JSON result, status file, exit code).  Everything except the agent harness, the file
system and remote services is one goroutine: the concurrency the models have is that of the
program against its environment.

## Modules

| Module | Models | State and actions |
|---|---|---|
| `SafetyPolicy` | `internal/safety`, `TypeForConsumer` | operators only: `EffectiveAction`, `aggregateStatus`, `EvaluateStatus`, `ExitCode` |
| `DependencyGraph` | `ImpactPaths` | one action per queue pop and per examined edge |
| `ChangeSafety` | `BuildGraph`, `Analyze`, `Evaluate` chained as the engine does | the state is the evidence of one check, an action adds one piece and checks again |
| `SourceBudget` | `Budget.Register`, `Budget.Open` | one action per look at the file system; `Replace` and `Write` are the repository changing |
| `EvidenceDiscovery` | `Discover` to `RunSafetyWithDiagnostics` | one action per source collected and per item loaded, for every way a call can end; `Cancel` at any moment |
| `AgentLoop` | what the harness promises | abstract: `Try`, `Judge`, `Finish` |
| `AgentController` | `Controller.Run` | one action per statement that looks at something that can change; `Edit` and `Expire` at any moment |
| `Configuration` | `ParseConfig`, `normalizeConfig`, `ValidateConfig` | operators only; a field's text is missing, good or bad |
| `StarterFiles` | `runInit` | one action per file operation of init and its rollback; `OtherWrites` and `OtherRemoves` at any moment, inodes handed out again |
| `CommandLine` | `internal/cli`, `run-action.sh` | a process is a command (the sequence of its steps) and how far it is; one action per kind of step, `Killed` at any of them; the script's steps; the output files |
| `ChangeDocuments` | ChangeSet and Migration documents | operators only: parsing, validation, normalisation |
| `WeaverImport` | `adapters/weaver` | operators only: `ParseDiff`, `ParseMapping`, `Convert`, `ChangeSet`, `Migration` |
| `TelemetrySnapshots` | `internal/snapshot`, what a capture keeps of two answers | operators only: `Normalize`, `loadSeries`, `buildSnapshot`, `Compare` |
| `ChangeIntake` | `snapshot`, `diff`, the change sources | one action per request of a capture and per command; the server and the files change meanwhile |
| `Readiness` | `internal/readiness` | operators only: `classify`, `statusForConsumers`, `statusForChanges` |
| `Remediation` | `remediate` and `advise` | evidence read file by file, the provider's writes, one candidate validated per step; `Edit` at any moment |
| `QueryAnalysis` | `pkg/promql`, `pkg/traceql` | operators only, on what the parser finds |
| `FileAdapters`, `RemoteAdapters` | `adapters` | operators only: decoded document or response to evidence |
| `Ownership` | `internal/ownership` | operators only: rules, precedence |
| `EvidenceAdapters` | the steps that load one source or enrich owners | one action per file, request, validated query, metadata pattern, metadata file and consumer; `Cancel` and `ServiceMoves` at any moment, `RemoveCodeowners` between the search for the file and its reading |
| `*Proofs` | | theorems about the modules they extend |
| `MC*` | | the instance TLC checks |

`ChangeSafety` and `EvidenceDiscovery` both decide with `SafetyPolicy`.  `ChangeSafety` uses what
`DependencyGraph` is proved to compute (`ReachableFrom`, `TraversalFindsImpact`) instead of the
traversal.
`EvidenceDiscovery` takes the answers of files and services as choices; `SourceBudget` says which
answers the files can give.  `AgentController` refines `AgentLoop` (`Loop == INSTANCE AgentLoop
WITH ...`).  `CommandLine` composes the process, the Action's script, `Configuration` and
`StarterFiles` (a job runs init or the other commands: they share no file).  `ChangeIntake` composes
captures, comparison, import and the documents, and hands on what `ChangeSafety` calls the change
set.  `EvidenceAdapters` opens what is one step `LoadClean` or `LoadGap` of `EvidenceDiscovery`;
`Remediation` evaluates with `Readiness`.

Abstractions worth knowing:

- A metric name is a stem and its suffixes; file contents, trees and control files are identities.
- `SourceBudget`: a path is one entry below the root.  Intermediate directories are not modelled,
  so a directory swapped for a link is seen only as the entry below it changing.
- `EvidenceDiscovery`: an item is what identifies one load (a file; for Tempo a file checked by one
  service; for Perses a service).  `filepath.Abs` failing because the working directory has
  vanished is left out.
- `AgentController`: writing the private copies and digesting them is one step.  That nobody edits
  a copy between the two is an assumption: the digest taken afterwards would accept it.
- `CommandLine`: what a step computes is one of its possible results; the other modules say which.
  A write is an atomic replacement (`writeFileAtomic` renames a temporary file) or a failure.  When
  `analysis.Run` fails, a migration check exits 1 without outputs, while `check` keeps the `ERROR`
  result and writes them, as in the code.
- `Configuration`: an empty list of formats would make `Formats[0]` panic in the command; that no
  accepted configuration has one is part of `AcceptedConfigServes`.
- `StarterFiles`: a file whose `Stat` fails right after its creation stays, as the code leaves it
  (`stuck`).  Directories that init creates are not removed by the code and not modelled.
- `ChangeIntake`: a pipeline uses the exported change file only after `diff` exited 0: the file
  carries no diagnostics, and exit code 3 is all that says something is missing from it.
- `ChangeSafety`: an empty change set is a legal input, and nothing is relevant to it: whatever is
  unresolved, its answer is decided by the diagnostics alone.
- `Readiness`, `Remediation`: an expression is known by the symbols it refers to; it is resolved or
  unresolved as a whole, so an unresolved reference beside resolved ones is not told apart.  Timeouts, overflow and a bad
  exit of the provider, and rendering errors, are the action `Fail`.
- `EvidenceAdapters`: a document is what its decoder yields, or nothing.  Of two conflicting
  expressions that Perses gives for one rule the code analyses the smaller text, the model a fixed
  one.  A metadata pattern that fails to expand and one that matches nothing look alike; a file that
  cannot be canonicalised or opened is not readable.  A text is what the query parser makes of it:
  an Argo argument `{{args.x}}` that `analyzePromQL` masks in the value of a label is not seen, any
  other one makes the text invalid; Sloth's `{{.window}}` is replaced before the analysis.
- `EvidenceDiscovery`: the failures of patterns are recorded pattern by pattern; the code keeps them
  until all patterns are expanded, and nothing looks at them in between.
- `TelemetrySnapshots`: a configured limit and the hard limit of 100000 are one constant.
- `ExpandPatterns` of `internal/source/files.go` forgets a required failure in favour of a later
  optional one only when `filepath.Abs` fails; left out.
- Defects to detect (`"A defect to detect"` in comments) are the mutants of `PROJECT.json`: plausible
  wrong versions of a definition, used only to show that a property would notice.

## Runs

| Run | Question | Bounds |
|---|---|---|
| `graph` | Does the traversal end, reach exactly what it should, by shortest paths? | 3 symbols, 3 consumers, every subset of 14 edges: cycles through one and two rules, two producers of one symbol |
| `change_safety` | Are findings exact, is uncertainty never decided, does evidence only worsen the answer? | 6 pieces of evidence out of 6 consumers, 7 references, an output, 2 diagnostics; metric rename, label rename, removals, no change at all; all rollout modes; at most 2 findings when secured |
| `source_budget` | Does the budget survive a repository that changes between two looks? | 3 paths, 2 files and a pipe, sizes 1 and 2, limits of 2 files and 3 bytes, 2 disturbances, 4 calls |
| `discovery` | Does a decision always mean complete required evidence? | 2 sources over 5 loaders, 2 items, 2 settings; any failure, a cancellation anywhere |
| `agent` | Is what is reviewed what was judged, are records and cleanup right, is it the promised loop? | 3 attempts, 2 contents of each half of the workspace, 3 contents of the control files, edits 1-2, 2-3, 1-3, the deadline anywhere |
| `command_line` | Does a pass belong to this invocation, is an exit code backed by files, is init all or nothing? | 2 invocations of the Action or 1 shell command (all twelve), 12 sets of inputs, 5 remote settings, 3 sets of output paths, 9 configuration documents; init with 3 files, 4 inodes, 2 steps of others |
| `change_intake` | Is what went between two captures reported, is nothing of an import dropped, are changes well-formed? | 2 captures with limits of 2, the server's states with a histogram and its suffix, 1 change of the server during a capture, a deployment between, 1 file edited by hand; Weaver documents of both formats, ChangeSet and Migration documents of every verdict |
| `remediation` | Is the status authoritative, is a patch confined and its simulation honest, is an answer whole? | 3 consumers and a text in 2 files, a chain of two renames, 2 policies, up to 2 candidates, 3 writes into a buffer of 2, 1 edit anywhere |
| `adapters` | Does every adapter report each use or the gap, is each owner right or reported missing? | 2 metrics, 2 labels, 3 log records before the limit; documents of every shape for ten adapters; texts with template variables of each notation, in each place; every answer of each request, cancellation anywhere |

The bounds are chosen so that the cases that need several actors happen: a cycle behind a cycle
needs two rules; a shared file needs two sources; a swap between two looks needs one disturbance
and a swap back two; the last attempt, the one before and a first one need three attempts; stale
files need two invocations of the Action; a rollback that meets a foreign file needs two steps of
others and one inode more than files; a cut answer needs one series more than the limit; a buffer
that fills exactly and then overflows needs one write more than its size.
`MaxEvidence`, `MaxDisturbances`, `MaxCalls`, `MaxRuns`, `MaxShellRuns`, `MaxEdits`,
`MaxServerChanges` and `MaxWrites` are the only bounds that are not parameters of the program.  `source_budget` uses symmetry over paths and over regular files, which the specification
does not tell apart; it checks no liveness.  Deadlock is switched off where the program ends
(`done`) or where the bound on evidence or calls stops it.

Fairness: the weak fairness of `DependencyGraph` (a loop without I/O), of `EvidenceDiscovery`
(every request has a timeout, files are regular and finite) and of `AgentController` (every process
and Git command runs under a deadline, and `Close` under one of 30 seconds) says only that the
program takes its next step.  Cancellation, expiry and edits have no fairness.
`command_line`, `change_intake`, `remediation` and `adapters` check safety only: the loops of those modules are over finite
files, lists and steps.

### Disagreements with what the repository says

Three runs are expected to find a violation; each states a sentence of the repository.

- `discovery_facts`: `safety.ErrorResult` promises that "Any facts proven before the failure
  remain present", but when `Discover` fails the engine builds the result from the change source's
  diagnostics alone (`engine.go:81`): what earlier adapters recorded is gone.  The status is
  `ERROR` all the same.
- `discovery_violation`: "Policy violations are returned as errors because optional repository
  configuration may not downgrade a trusted execution boundary" holds for `ExpandPatterns`, but
  the runtime, Tempo and autoscaler loaders turn a violation found by the second `canonicalFile`
  into a diagnostic (`engine.go:494`, `296`, `889`); for an optional source the answer is `WARN`.
  Nothing outside the boundary is read (`OpenedAsRegistered`).
- `agent_diff`: "`final.diff` is the review artifact", but the diff is taken with
  `--exclude-standard` (`git.go:162`): an edit of an ignored file is judged and not shown.

A fourth disagreement has no run of its own: `EveryUseIsSeen` exempts exactly it, and so do the
theorem about it and its hazard.

- `promql.Analyze` says that "Grafana-style templates are returned as unresolved evidence rather than
  being misclassified as absent dependencies" (`analyzer.go:31-33`), but `containsTemplate`
  (`analyzer.go:328-332`) knows only `${`, `[[` and `$__`.  A plain variable in quotes, as in
  `{__name__="$metric"}`, parses, and `selectorMetric` takes `$metric` for the exact name of a metric
  (`analyzer.go:271-285`): the metrics that the variable stands for are not referred to, nothing is
  reported, and a change of one of them can `PASS`.  The same goes for a quoted label name, for
  instance an argument of `label_replace`.  A bare variable (`$metric{...}`, `rate(a[$range])`) does
  not parse and is reported; one in a pattern (`__name__=~"$metric"`) is a reference to be resolved;
  one in the value of another label changes nothing.  The model has the test as it is written
  (`containsTemplate`), `qVariable` and `qJoin` of `MCEvidenceAdapters` are such texts, and with the
  exemption of metrics (`ByVariable`) taken out TLC reports the lost use at once.

## Proofs

TLAPS proves the following for every value of the constants that satisfies the named assumptions,
which TLC evaluates on every run: `NodeAssumption`, `BudgetAssumption`, `DiscoveryAssumption`,
`AgentAssumption`; `RunsAssumption` and `InputsAssumption` (the change inputs are the six of the
command line, an output goes to one of three paths, a document's list of formats is a list);
`ChangesAssumption` and `EvidenceAssumption` (what `ValidateChangeSet` and the adapters let
through: distinct identifiers, renames within one kind and parent, Prometheus symbols are metrics
and labels); `FilesAssumption` and `AnswersAssumption` (a configuration has a source, a file is
listed once, an answer is a list); `ServersAssumption`, `DocumentsAssumption` and
`LimitsAssumption` (a server exposes finitely many series, the lists of a document are lists, a diff
has a list for each kind of item, limits are positive); `QueriesAssumption`, `TasksAssumption` and
`RecordsAssumption` (what the PromQL parser and the decoders yield: a selector selects by
something, an equality matcher admits its value only unless that is a template variable, a comment of CODEOWNERS has no paths, no two
mappings of one Tempo attribute).  They describe what decoding or an earlier validation lets
through; none speaks of the verdict.

- `SourceBudgetProofs`: `BudgetTypeCorrect` (only paths inside the root are charged), `LimitsHold`,
  `ChargesFinal`, and `OpenSound`, whose strengthening `LstatSawEntry` and `NamesAreRecorded` say
  that the inode `Open` compares with is one the path itself has named.  `BudgetHolds` adds that the
  running total is the sum of the charges: the fold exists (`FoldExists`), does not depend on the
  order in which it takes the members (`FoldSums`), and grows with its set and weights (`SumsGrow`).
  `OpenStaysWithinBudget` follows: what is open was charged at the size it was opened with.
- `EvidenceDiscoveryProofs`: `DiscoveryTypeCorrect`; `AnalysisFailsClosed`.  `FailClosed` is about
  the end, so the invariant `Accounted` carries it: once a required source is collected, each of
  its items is loaded, or waits in a task that knows it is required, or there is a required
  diagnostic, or the analysis was cancelled and has not reached the decision (`Stages` fixes the
  order).  `GapsAreReported` and `PassMeansAllEvidence` need the same of optional sources: `TraceInv`
  follows every item of every source to a load or to the diagnostic that names it.
- `AgentControllerProofs`: `AgentTypeCorrect`; `LoopIsKept` (every step of the controller is a step
  of `AgentLoop` or a stutter); `ReviewIsSound`, from `VerdictIsGuards` (an unspoiled verdict is
  the guard's, on this workspace), `ControlsInOrder` (control files, digests, copies and what the
  guard read, ordered by when they were read) and `ReviewIsJudged`.  It assumes `Irreversible`:
  an edit made after the verification at `controller.go:193` and undone before line 251 is seen by
  no digest, so without the assumption the theorem is false.  `NoCopiesAroundTheAgent`,
  `RecordIsTrue` and `WorktreeIsRemoved` rest on `CopiesInv` (where copies may exist) and `RunInv`
  (what is recorded and removed at each stage of `finish`).
- `ChangeSafetyProofs`: `FindingsAreComplete` (the findings, computed over the graph, are the
  dependents, defined by what a consumer reads), `UnresolvedIsIncomplete`, `RolloutDemotesOnlyBlock`
  and the action property `EvidenceIsMonotone`, for every change set, policy and evidence.  The
  invariant `EvidenceInv` only says that the result is the one of the evidence so far; the work is in
  lemmas about `BuildGraph`, reachability and `aggregateStatus`.
  About the traversal of `DependencyGraph`: `TraversalTypeCorrect`; `VisitsExactlyReachable`.  The
  inductive invariant `Frontier` says that what is visited is reachable, and that a visited node
  waits in the queue, is being expanded with its unseen successors pending, or has all successors
  visited.  When queue and pending are empty the visited set is closed, hence contains every
  reachable node.  `PathsAreShortest`: the invariant `Layered` says that the queue is ordered by
  depth and holds at most two depths, which is why an examined edge goes at most one deeper; when
  the queue is empty, induction on `k` gives every node within `k` edges a path of at most `k` edges.
  `TraversalFindsImpact` joins the two: under any numbering of the nodes of a graph that
  `BuildGraph` accepts, a finished traversal has visited exactly the `ReachableFrom` that the
  findings are computed with.
- `CommandLineProofs`: `StatusComesLast`, `VerdictIsBacked`, `PassIsOfThisRun`,
  `DecisionIsPublished`, `ScriptMatchesCommand`, `ConfigServes`, for all inputs and any number of
  invocations.  `CliInvariant` relates how far the process and the script are to the content of each
  output file (`ProcInv`, `DiskInv`, `ScriptInv`), because the files of an earlier invocation differ
  from this one's only by its number; `JobInv`, `SelectInv` and `ConfigInv` carry what the script and
  the configuration checks established.  `InitIsAllOrNothing` and the action property
  `InitSparesOthers` rest on `StarterInvariant`: every file of init that is there is in its undo list
  with its own inode, or is `stuck`.
- `RemediationProofs`: `AnswerIsWhole` (`OutputInv`: what is kept is what was written until the
  buffer overflows, which ends the command), `VerdictIsTheEvidence` (`VerdictInv`),
  `CandidateIsConfined` and `CandidateIsHonest` (`ReadInv`: what was read from a file is what it held
  at that moment; `AnswerInv`, `EntriesInv`: a candidate that passed is one of the answer's, for a
  consumer that was read).  `RemediationInvariant` is their conjunction.
- `ChangeIntakeProofs`: `StableTelemetryIsCaptured`, from `CaptureInvariant`: between the two
  requests the server may change, so `CaptureInv` relates each answer to the history of the capture
  (an answer covers what stayed, and holds nothing that was never there) and a written file to the
  capture that wrote it.  `LostTelemetryIsReported` and `DetectedChangesAreWellFormed`, from
  `DetectInvariant`: what is lost between two captures is in the result, in the exported file of an
  exit code 0, and still there when that file is read as a change source (`lossIn`).
  `WeaverDiffIsAccounted` from `WeaverInv` and the lemmas on `ParseDiff` and `Convert`.  Below them
  are lemmas on lists: `SetToSeq` lists a set, a list of lists flattened has the members of its
  lists, a list without duplicates has as many members as places.
- `EvidenceAdaptersProofs`: `EveryUseReachesEvidence`, one lemma per adapter: what the analyser
  extracts from a query covers what the query means (`Used`), or the query is unresolved
  (`ResolvedIsPlain`: a text that is not has at most plain variables).  `Used` leaves out the two
  things the analyser loses, a plain variable in quotes as an exact name and a label in parentheses;
  of entries that leave Perses' pending list nothing is claimed either.  For the
  sources that take several steps `PersesInv` says that each listed entry is still to be asked for or
  already in the builder, unless it left the pending ones, and `TempoInv` that the queries dealt with
  are seen.  `OwnersAreRightOrReported`: `MetadataInv` says that the rules read so far decide as the
  files found so far do, each where it was found first, and that a file counts as read exactly if it
  was found; `CodeownersInv` that without a cancellation and a diagnostic the file was read as it
  stands; `ConsumersInv` that the consumers visited have their owners.  A consumer is visited only
  if the context has not ended, and what was not cancelled then was not cancelled before: that is why
  the silent return from the loaders loses no owner.

Induction.  The library's induction theorems are about a predicate, which the provers cannot
instantiate.  `SetInduction` states induction for a set of numbers; it follows from `WFMin` and the
well-foundedness of `<`, and is stated in each of the three modules that use it.

Only model-checked: liveness (`Terminates`, `Concludes` and the fairness part of `ImplementsLoop`),
which the prover does not reach.  Every invariant and every action property of the passing runs is
also the subject of a theorem.

### Limits the models make visible

These are not disagreements with a sentence of the repository, and the properties exempt exactly
them; a reader should know of them.

- `EveryUseIsSeen`: a label that `label_replace` or `label_join` is given in parentheses, `("dst")`,
  is no string literal to `stringArgument` (`analyzer.go:317-326`) and is skipped without a report.
- `EveryUseIsSeen`: an entry that Perses moves out of the pending list between the three requests can
  be in none of the answers (`persesusage/loader.go:81`).
- `InitKeepsOthers`: a foreign file swapped in between `Lstat` and `Remove`, or one that got the inode
  of init's own removed file, is removed by the rollback (`init.go:171`).
- `PatchIsConfined`: if the target's own expression was edited away while the provider ran, the one
  remaining occurrence of the old text may belong to another consumer (`artifact.go:31`).
- `PassIsFresh` speaks of passing only: the Action does not remove the files of an earlier invocation,
  so one that panics (exit code 2) beside the files of an earlier `BLOCK` publishes that `BLOCK`.
- `StableIsCaptured`: what a server shows only during part of a capture may or may not be in the
  snapshot; the two requests of a capture are not one moment (`prometheussnapshot/client.go:106`).
- The configuration and change files are registered in a budget and then read by path outside it
  (`execution.go:81`); nothing compares the two.

## Not modelled

The CloudFormation adapter, which no command reaches.  Decoding of YAML, JSON, PromQL and log lines:
a document decodes or does not.  Rendering of reports, redaction and wording.  URL and origin checks
(`internal/remote`) and the lookup of environment variables: predicates on strings whose verdict the
models take as a choice.  Build, release, documentation and container verification tools.  Container
options, environment filtering and the protocol decoders of the agent harness.  Directories below
the root in `SourceBudget`.

## Plan

1. Done: `SafetyPolicy`, `DependencyGraph`, `ChangeSafety`, `SourceBudget`, `EvidenceDiscovery`,
   `AgentLoop`, `AgentController`, and the proofs above.
2. Done: `CommandLine` with `Configuration` and `StarterFiles`; `ChangeIntake` with
   `ChangeDocuments`, `WeaverImport` and `TelemetrySnapshots`; `Readiness` and `Remediation`;
   `EvidenceAdapters` with `QueryAnalysis`, `FileAdapters`, `RemoteAdapters` and `Ownership`.
3. Done: proofs of every safety property of `DependencyGraph`, `ChangeSafety`, `SourceBudget`,
   `EvidenceDiscovery`, `AgentController`, `CommandLine`, `StarterFiles` and `Remediation`.
4. Done: proofs of every safety property of `ChangeIntake` and `EvidenceAdapters`, and that the
   traversal of `DependencyGraph` computes the reachability of `ChangeSafety`.
5. `SourceBudget` with directories, and `Expand`/`ExpandPatterns` composed with it, so that
   `EvidenceDiscovery`'s choices become a refinement.
