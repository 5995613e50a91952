-------------------------- MODULE CommandLineProofs --------------------------
(***************************************************************************)
(* The command line and the Action, for any number of invocations and any  *)
(* inputs.                                                                 *)
(***************************************************************************)
EXTENDS CommandLine, FiniteSetTheorems, TLAPS

Produces == {"analyze", "run", "discover", "compare"}

\* The commands and their steps, spelled out.
LEMMA StepLists ==
  /\ Commands = {"check", "migrationCheck", "advise", "remediate", "graph", "compatibleGraph",
                 "impact", "explain", "snapshot", "diff", "validate", "migrationValidate"}
  /\ Steps["check"] = runCheck /\ Steps["migrationCheck"] = runMigrationCheck
  /\ Steps["advise"] = runMigrationAdvise /\ Steps["remediate"] = runMigrationRemediate
  /\ Steps["graph"] = runGraphCommand /\ Steps["compatibleGraph"] = runGraphCommand
  /\ Steps["impact"] = runSymbolImpact /\ Steps["explain"] = runSymbolImpact
  /\ Steps["snapshot"] = runSnapshotCommand /\ Steps["diff"] = runDiffCommand
  /\ Steps["validate"] = runCanonicalValidate /\ Steps["migrationValidate"] = runMigrationValidate
BY DEF Commands, Steps

\* What the order of a command's steps has to satisfy.
InOrder(steps) ==
  \A i, j \in DOMAIN steps :
    /\ steps[i] \in Outputs /\ steps[i] = steps[j] => i = j
    /\ steps[i] \in Produces /\ steps[j] \in Outputs => i < j
    /\ steps[i] = "status" /\ steps[j] \in Outputs => j <= i
    /\ steps[i] \in {"json", "status"} => steps[2] = "outputs"
    /\ steps[j] \in Outputs => j > 2
    /\ steps[i] # "end" /\ i \in Nat

\* Every command produces its result before its outputs, writes each output once and
\* the status last, and checks its paths first when it has more than one output.
LEMMA StepsInOrder == \A cmd \in Commands : InOrder(Steps[cmd])
<1>1. InOrder(runCheck)
  BY DEF InOrder, runCheck, Outputs, Produces
<1>2. InOrder(runMigrationCheck)
  BY DEF InOrder, runMigrationCheck, Outputs, Produces
<1>3. InOrder(runMigrationAdvise)
  BY DEF InOrder, runMigrationAdvise, Outputs, Produces
<1>4. InOrder(runMigrationRemediate)
  BY DEF InOrder, runMigrationRemediate, Outputs, Produces
<1>5. InOrder(runGraphCommand)
  BY DEF InOrder, runGraphCommand, Outputs, Produces
<1>6. InOrder(runSymbolImpact)
  BY DEF InOrder, runSymbolImpact, Outputs, Produces
<1>7. InOrder(runSnapshotCommand)
  BY DEF InOrder, runSnapshotCommand, Outputs, Produces
<1>8. InOrder(runDiffCommand)
  BY DEF InOrder, runDiffCommand, Outputs, Produces
<1>9. InOrder(runCanonicalValidate)
  BY DEF InOrder, runCanonicalValidate, Outputs, Produces
<1>10. InOrder(runMigrationValidate)
  BY DEF InOrder, runMigrationValidate, Outputs, Produces
<1>11. QED
  BY <1>1, <1>2, <1>3, <1>4, <1>5, <1>6, <1>7, <1>8, <1>9, <1>10, StepLists

\* The steps are numbered from 1.
LEMMA StepDomains ==
  \A cmd \in Commands : \E n \in Nat : DOMAIN Steps[cmd] = 1 .. n
<1>1. /\ DOMAIN runCheck = 1 .. 14 /\ DOMAIN runMigrationCheck = 1 .. 12
      /\ DOMAIN runMigrationAdvise = 1 .. 11 /\ DOMAIN runMigrationRemediate = 1 .. 13
      /\ DOMAIN runGraphCommand = 1 .. 8 /\ DOMAIN runSymbolImpact = 1 .. 6
      /\ DOMAIN runSnapshotCommand = 1 .. 6 /\ DOMAIN runDiffCommand = 1 .. 7
      /\ DOMAIN runCanonicalValidate = 1 .. 5 /\ DOMAIN runMigrationValidate = 1 .. 5
  BY DEF runCheck, runMigrationCheck, runMigrationAdvise, runMigrationRemediate, runGraphCommand,
     runSymbolImpact, runSnapshotCommand, runDiffCommand, runCanonicalValidate, runMigrationValidate
<1>2. \A cmd \in Commands : DOMAIN Steps[cmd] \in {1 .. 5, 1 .. 6, 1 .. 7, 1 .. 8, 1 .. 11, 1 .. 12, 1 .. 13, 1 .. 14}
  BY <1>1, StepLists, Zenon
<1>3. QED
  BY <1>2

\* Only check analyses, and the two checks write all three outputs at their end.
LEMMA ChecksWriteAll ==
  /\ \A cmd \in Commands : \A i \in DOMAIN Steps[cmd] :
       /\ Steps[cmd][i] = "analyze" => cmd = "check"
       /\ Steps[cmd][i] \in {"input", "targets"} => cmd \notin {"check", "migrationCheck"}
       /\ Steps[cmd][i] = "status" => cmd \in {"check", "migrationCheck"}
  /\ \A cmd \in {"check", "migrationCheck"} :
       /\ cmd \in Commands
       /\ \A o \in Outputs : \E i \in DOMAIN Steps[cmd] : Steps[cmd][i] = o
       /\ \E i \in DOMAIN Steps[cmd] : Steps[cmd][i] \in Produces
<1> DEFINE Fits(cmd, steps) == \A i \in DOMAIN steps :
             /\ steps[i] = "analyze" => cmd = "check"
             /\ steps[i] \in {"input", "targets"} => cmd \notin {"check", "migrationCheck"}
             /\ steps[i] = "status" => cmd \in {"check", "migrationCheck"}
           Whole(steps) ==
             /\ \A o \in Outputs : \E i \in DOMAIN steps : steps[i] = o
             /\ \E i \in DOMAIN steps : steps[i] \in Produces
<1>1. Fits("check", runCheck) /\ Fits("migrationCheck", runMigrationCheck)
  BY DEF runCheck, runMigrationCheck
<1>2. Fits("advise", runMigrationAdvise) /\ Fits("remediate", runMigrationRemediate)
  BY DEF runMigrationAdvise, runMigrationRemediate
<1>3. /\ Fits("graph", runGraphCommand) /\ Fits("compatibleGraph", runGraphCommand)
      /\ Fits("impact", runSymbolImpact) /\ Fits("explain", runSymbolImpact)
  BY DEF runGraphCommand, runSymbolImpact
<1>4. /\ Fits("snapshot", runSnapshotCommand) /\ Fits("diff", runDiffCommand)
      /\ Fits("validate", runCanonicalValidate) /\ Fits("migrationValidate", runMigrationValidate)
  BY DEF runSnapshotCommand, runDiffCommand, runCanonicalValidate, runMigrationValidate
<1>5. Whole(runCheck)
  <2>1. /\ 10 \in DOMAIN runCheck /\ runCheck[10] = "analyze" /\ 12 \in DOMAIN runCheck /\ runCheck[12] = "report"
        /\ 13 \in DOMAIN runCheck /\ runCheck[13] = "json" /\ 14 \in DOMAIN runCheck /\ runCheck[14] = "status"
    BY DEF runCheck
  <2>2. QED
    BY <2>1 DEF Outputs, Produces
<1>6. Whole(runMigrationCheck)
  <2>1. /\ 8 \in DOMAIN runMigrationCheck /\ runMigrationCheck[8] = "run"
        /\ 10 \in DOMAIN runMigrationCheck /\ runMigrationCheck[10] = "report"
        /\ 11 \in DOMAIN runMigrationCheck /\ runMigrationCheck[11] = "json"
        /\ 12 \in DOMAIN runMigrationCheck /\ runMigrationCheck[12] = "status"
    BY DEF runMigrationCheck
  <2>2. QED
    BY <2>1 DEF Outputs, Produces
<1>7. \A cmd \in {"check", "migrationCheck"} : cmd \in Commands
  BY StepLists
<1>8. \A cmd \in Commands : Fits(cmd, Steps[cmd])
  <2> HIDE DEF Fits
  <2> QED
    BY <1>1, <1>2, <1>3, <1>4, StepLists
<1>9. \A cmd \in {"check", "migrationCheck"} : Whole(Steps[cmd])
  <2> HIDE DEF Whole
  <2> QED
    BY <1>5, <1>6, StepLists
<1>10. QED
  BY <1>7, <1>8, <1>9

\* What is assumed of the inputs.
LEMMA InputTypes ==
  /\ SourceInputs \subseteq SUBSET {"changes", "weaver-diff", "weaver-mapping", "baseline",
                                    "candidate", "migration"}
  /\ OutputInputs \subseteq [Outputs -> {"", "report", "json", "status"}]
BY InputsAssumption DEF Outputs

\* What is assumed of a document.
LEMMA DocTypes ==
  ASSUME NEW doc \in Documents
  PROVE  /\ doc.decodes \in BOOLEAN
         /\ doc.formats \in Seq({"", "bad", "unknown", "console", "json", "markdown"})
BY InputsAssumption

-----------------------------------------------------------------------------
(* The process.  What it has done is told by how far it came: Past.         *)

ProcFields == {"cmd", "at", "end", "code", "sources", "remote", "out", "format", "document",
               "config", "result"}
ScriptFields == {"at", "mode", "code", "status", "todo", "next", "published", "sources", "remote"}

Past(step) == \E k \in DOMAIN Steps[proc.cmd] : k < proc.at /\ Steps[proc.cmd][k] = step

Started == proc.end # "none"

\* The shape of the process and of the files.
ProcType ==
  /\ DOMAIN proc = ProcFields /\ proc.cmd \in Commands /\ proc.at \in Nat
  /\ proc.end \in {"none", "running", "exit", "killed"}
  /\ proc.out \in [Outputs -> Outputs \union {""}]
  /\ Started => proc.at >= 1
  /\ run \in Nat
  /\ DOMAIN disk = Outputs /\ \A p \in Outputs : disk[p].run \in Nat /\ disk[p].run <= run

\* Why a process exited: at its end with the code of its result, or at the step
\* where it failed.
ExitReason ==
  /\ proc.end = "exit" /\ Step = "end" => proc.code = FinalCode(proc.cmd, proc.result)
  /\ proc.end = "exit" /\ Step # "end" =>
       \/ proc.code = 1
       \/ Step \in {"migration", "input"} /\ proc.code = 3
       \/ Step = "targets"
       \/ Step = "flags" /\ launcher = "shell"
  /\ proc.end = "killed" => proc.code # 0

\* What the steps behind the process have established.
ProcInv ==
  Started =>
    /\ Past("outputs") => OutputsAreDistinct(proc.out)
    /\ (\E step \in Produces : Past(step)) => proc.result \in ResultsOf(proc.cmd)
    /\ \A o \in Outputs : proc.out[o] # "" =>
         \E k \in DOMAIN Steps[proc.cmd] : Steps[proc.cmd][k] = o
    /\ ExitReason

\* While nobody else writes, the files of this invocation are those that the
\* process has written, whole.
DiskInv ==
  /\ launcher = "action" /\ script.at = "select" => \A p \in Outputs : disk[p].run < run
  /\ ProcessOwnsOutputs /\ Started =>
       /\ \A o \in Outputs : Past(o) /\ proc.out[o] # "" => Fresh(proc.out[o])
       /\ \A p \in Outputs : disk[p].run = run => \E o \in Outputs : proc.out[o] = p /\ Past(o)

\* What the script knows of the process.
ModeFits ==
  \/ script.mode = "generic" /\ proc.cmd = "check"
  \/ script.mode = "migration" /\ proc.cmd = "migrationCheck"

ScriptInv ==
  launcher = "action" =>
    /\ DOMAIN script = ScriptFields
    /\ script.at \in {"idle", "select", "wait", "errors", "judge", "compare", "publish", "done"}
    /\ script.at \in {"idle", "select"} => ~Started /\ script.code = 1
    /\ Running => script.at = "wait"
    /\ Started => ModeFits /\ proc.out = ActionOutputs /\ run > 0
    /\ script.at = "wait" => Started
    /\ script.at = "errors" => /\ script.code = 1 /\ ~ReachedTheEnd
                               /\ script.next \in {"judge", "compare", "publish"}
    /\ script.at \in {"judge", "compare", "publish", "done"} =>
         /\ script.code = 0 => ReachedTheEnd
         /\ ReachedTheEnd =>
              /\ script.code = proc.code /\ \A o \in Outputs : Fresh(o)
              /\ script.at # "judge" => script.status = proc.result

\* The script started the process exactly when it accepted its inputs.
SelectInv ==
  launcher = "action" /\ script.at # "idle" =>
    /\ script.sources \in SourceInputs
    /\ script.at # "select" =>
         /\ Started <=> InputsAreAccepted(script.sources, script.remote)
         /\ Started => proc.cmd = IF GenericSources(script.sources) = 1 THEN "check" ELSE "migrationCheck"

\* The configuration is the normal form of a document that was accepted.
ConfigInv ==
  \/ proc.document = NotStarted.document
  \/ /\ proc.document \in Documents /\ ParseConfig(proc.document)
     /\ proc.config = normalizeConfig(proc.document)

CliInv == ProcType /\ ProcInv /\ DiskInv /\ ScriptInv

-----------------------------------------------------------------------------
(* What one step of the process can do. *)

SameTask ==
  /\ DOMAIN proc' = ProcFields /\ proc'.cmd = proc.cmd /\ proc'.out = proc.out
  /\ UNCHANGED <<launcher, run, script>>

Exits ==
  /\ proc'.end = "exit" /\ proc'.at = proc.at /\ proc'.result = proc.result /\ disk' = disk
  /\ Step = "end" => proc'.code = FinalCode(proc.cmd, proc.result)
  /\ Step # "end" => \/ proc'.code = 1
                     \/ Step \in {"migration", "input"} /\ proc'.code = 3
                     \/ Step = "targets"
                     \/ Step = "flags" /\ launcher = "shell"

Dies ==
  /\ proc'.end = "killed" /\ proc'.at = proc.at /\ proc'.result = proc.result /\ disk' = disk
  /\ proc'.code # 0

Moves ==
  /\ proc'.end = "running" /\ proc'.at = proc.at + 1 /\ Step # "end"
  /\ Step = "outputs" => OutputsAreDistinct(proc.out)
  /\ IF Step \in Produces THEN proc'.result \in ResultsOf(proc.cmd) ELSE proc'.result = proc.result
  /\ IF Step \in Outputs /\ proc.out[Step] # ""
     THEN disk' = [disk EXCEPT ![proc.out[Step]] = Content] ELSE disk' = disk

\* Exit keeps the task.
LEMMA ExitEffect ==
  ASSUME DOMAIN proc = ProcFields, NEW code, Exit(code)
  PROVE  /\ DOMAIN proc' = ProcFields /\ proc'.end = "exit" /\ proc'.code = code
         /\ proc'.cmd = proc.cmd /\ proc'.out = proc.out /\ proc'.at = proc.at
         /\ proc'.result = proc.result /\ proc'.document = proc.document /\ proc'.config = proc.config
BY DEF Exit, ProcFields

\* Go keeps everything but the position.
LEMMA GoEffect ==
  ASSUME DOMAIN proc = ProcFields, Running, Go
  PROVE  /\ DOMAIN proc' = ProcFields /\ proc'.end = "running" /\ proc'.at = proc.at + 1
         /\ proc'.cmd = proc.cmd /\ proc'.out = proc.out
         /\ proc'.result = proc.result /\ proc'.document = proc.document /\ proc'.config = proc.config
BY DEF Go, ProcFields, Running

\* At a step of the process its name is one of the command's.
LEMMA StepIsOne ==
  ASSUME ProcType
  PROVE  /\ Step # "end" => proc.at \in DOMAIN Steps[proc.cmd] /\ Step = Steps[proc.cmd][proc.at]
         /\ Step = "end" => proc.at \notin DOMAIN Steps[proc.cmd]
BY StepsInOrder DEF ProcType, Step, InOrder

\* The results of the two checks.
LEMMA ResultSets == ResultsOf("check") = Safety /\ ResultsOf("migrationCheck") = Readiness
BY DEF ResultsOf, Migration

\* Every step of the process exits, dies or moves on.
LEMMA ProcessEffect ==
  ASSUME ProcType, ProcessStep
  PROVE  Running /\ SameTask /\ (Exits \/ Dies \/ Moves)
<1> USE DEF Doing, OnlyProc
<1>0. DOMAIN proc = ProcFields /\ proc.cmd \in Commands
  BY DEF ProcType
<1>a. ASSUME NEW code, Exit(code), Running, OnlyProc, Step # "end",
             \/ code = 1 \/ (Step \in {"migration", "input"} /\ code = 3) \/ Step = "targets"
             \/ Step = "flags" /\ launcher = "shell"
      PROVE  Running /\ SameTask /\ Exits
  BY <1>0, <1>a, ExitEffect DEF SameTask, Exits
<1>b. ASSUME Go, Running, OnlyProc, Step \notin {"end"} \union Produces \union Outputs,
             Step = "outputs" => OutputsAreDistinct(proc.out)
      PROVE  Running /\ SameTask /\ Moves
  BY <1>0, <1>b, GoEffect DEF SameTask, Moves
<1> USE DEF Produces, Outputs
<1>1. CASE ParseFlags
  BY <1>1, <1>a, <1>b DEF ParseFlags
<1>2. CASE validateOutputPaths
  BY <1>2, <1>a, <1>b DEF validateOutputPaths, GoIf
<1>3. CASE selectChangeSource
  BY <1>3, <1>a, <1>b DEF selectChangeSource, GoIf
<1>4. CASE selectMigration
  BY <1>4, <1>a, <1>b DEF selectMigration, GoIf
<1>5. CASE FallibleStep
  BY <1>5, <1>a, <1>b DEF FallibleStep, Fallible
<1>6. CASE LoadConfig
  <2>1. CASE Exit(1) \/ Go
    BY <1>6, <2>1, <1>a, <1>b DEF LoadConfig
  <2>2. ASSUME NEW doc,
               proc' = [proc EXCEPT !.at = @ + 1, !.config = normalizeConfig(doc), !.document = doc]
        PROVE  Running /\ SameTask /\ Moves
    <3>1. /\ DOMAIN proc' = ProcFields /\ proc'.end = proc.end /\ proc'.at = proc.at + 1
          /\ proc'.cmd = proc.cmd /\ proc'.out = proc.out /\ proc'.result = proc.result
      BY <1>0, <2>2 DEF ProcFields
    <3>2. QED
      BY <1>6, <3>1 DEF LoadConfig, SameTask, Moves, Running
  <2>3. QED
    BY <1>6, <2>1, <2>2 DEF LoadConfig
<1>7. CASE applyRemote
  BY <1>7, <1>a, <1>b DEF applyRemote, GoIf
<1>c. ASSUME NEW result \in ResultsOf(proc.cmd), Running, OnlyProc, Step \in Produces,
             proc' = [proc EXCEPT !.at = @ + 1, !.result = result]
      PROVE  Running /\ SameTask /\ Moves
  <2>1. /\ DOMAIN proc' = ProcFields /\ proc'.end = proc.end /\ proc'.at = proc.at + 1
        /\ proc'.cmd = proc.cmd /\ proc'.out = proc.out /\ proc'.result = result
    BY <1>0, <1>c DEF ProcFields
  <2>2. QED
    BY <1>c, <2>1 DEF SameTask, Moves, Running
<1>8. CASE Analyze
  <2>1. proc.cmd = "check"
    BY <1>0, <1>8, ChecksWriteAll, StepIsOne DEF Analyze
  <2>2. ResultsOf(proc.cmd) = Safety
    BY <2>1, ResultSets
  <2>3. QED
    BY <1>8, <1>c, <2>2 DEF Analyze
<1>9. CASE Evaluate
  BY <1>9, <1>a, <1>c DEF Evaluate
<1>10. CASE loadSelectedMigration
  BY <1>10, <1>a, <1>b DEF loadSelectedMigration
<1>11. CASE validateInput
  BY <1>11, <1>a, <1>b DEF validateInput
<1>12. CASE NoTargets
  BY <1>12, <1>a, <1>b DEF NoTargets
<1>13. ASSUME NEW code \in {2, 137}, proc' = [proc EXCEPT !.end = "killed", !.code = code],
              Running, OnlyProc
       PROVE  Running /\ SameTask /\ Dies
  <2>1. /\ DOMAIN proc' = ProcFields /\ proc'.end = "killed" /\ proc'.at = proc.at
        /\ proc'.cmd = proc.cmd /\ proc'.out = proc.out /\ proc'.result = proc.result
        /\ proc'.code = code
    BY <1>0, <1>13 DEF ProcFields
  <2>2. QED
    BY <1>13, <2>1 DEF SameTask, Dies
<1>14. CASE Killed
  BY <1>13, <1>14 DEF Killed
<1>15. CASE Rendering
  <2>1. CASE proc' = [proc EXCEPT !.end = "killed", !.code = 2]
    BY <1>13, <1>15, <2>1 DEF Rendering
  <2>2. CASE Exit(1) \/ Go
    BY <1>15, <2>2, <1>a, <1>b DEF Rendering
  <2>3. QED
    BY <1>15, <2>1, <2>2 DEF Rendering
<1>16. ASSUME NEW output \in Outputs, writeOutput(output)
       PROVE  Running /\ SameTask /\ (Exits \/ Dies \/ Moves)
  <2>1. Running /\ Step = output /\ UNCHANGED <<launcher, run, script>>
    BY <1>16 DEF writeOutput
  <2>2. CASE Exit(1) /\ UNCHANGED disk
    BY <1>0, <2>1, <2>2, ExitEffect DEF SameTask, Exits
  <2>3. CASE proc.out[output] = "" /\ Go /\ UNCHANGED disk
    BY <1>0, <2>1, <2>3, GoEffect DEF SameTask, Moves
  <2>4. CASE proc.out[output] # "" /\ Go /\ disk' = [disk EXCEPT ![proc.out[output]] = Content]
    BY <1>0, <2>1, <2>4, GoEffect DEF SameTask, Moves
  <2>5. QED
    BY <1>16, <2>2, <2>3, <2>4 DEF writeOutput
<1>17. CASE Finish
  BY <1>0, <1>17, ExitEffect DEF Finish, SameTask, Exits
<1>18. QED
  BY <1>1, <1>2, <1>3, <1>4, <1>5, <1>6, <1>7, <1>8, <1>9, <1>10, <1>11, <1>12, <1>14, <1>15,
     <1>16, <1>17 DEF ProcessStep

-----------------------------------------------------------------------------
(* The process keeps its invariants. *)

\* A process that does not move has done what it had done.
LEMMA PastSame ==
  ASSUME proc'.cmd = proc.cmd, proc'.at = proc.at
  PROVE  (\A s : Past(s)' <=> Past(s)) /\ Step' = Step
BY DEF Past, Step

\* A process that moves has done one step more.
LEMMA PastMoves ==
  ASSUME ProcType, SameTask, Moves
  PROVE  \A s : Past(s)' <=> Past(s) \/ Step = s
<1>1. proc.at \in DOMAIN Steps[proc.cmd] /\ Step = Steps[proc.cmd][proc.at]
  BY StepIsOne DEF Moves
<1>2. proc'.cmd = proc.cmd /\ proc'.at = proc.at + 1 /\ proc.at \in Nat
  BY DEF SameTask, Moves, ProcType
<1>3. \A k \in DOMAIN Steps[proc.cmd] : k \in Nat
  BY StepsInOrder DEF ProcType, InOrder
<1>4. \A k \in DOMAIN Steps[proc.cmd] : k < proc'.at <=> k < proc.at \/ k = proc.at
  BY <1>2, <1>3
<1>5. QED
  BY <1>1, <1>2, <1>4 DEF Past

\* The steps behind the process, in their order.
LEMMA PastInOrder ==
  ASSUME ProcType
  PROVE  /\ Step \in Outputs => ~Past(Step)
         /\ \A o \in Outputs : Past(o) => Step \notin Produces
         /\ Past("status") => \A o \in Outputs :
              (\E k \in DOMAIN Steps[proc.cmd] : Steps[proc.cmd][k] = o) => Past(o)
         /\ \A o, q \in Outputs : Past(o) /\ q \in {"json", "status"}
              /\ (\E k \in DOMAIN Steps[proc.cmd] : Steps[proc.cmd][k] = q) => Past("outputs")
<1>1. proc.cmd \in Commands /\ proc.at \in Nat
  BY DEF ProcType
<1>2. InOrder(Steps[proc.cmd])
  BY <1>1, StepsInOrder
<1> DEFINE steps == Steps[proc.cmd]
           at == proc.at
<1>3. Step # "end" => at \in DOMAIN steps /\ Step = steps[at]
  BY StepIsOne
<1>4. \A s : Past(s) <=> \E k \in DOMAIN steps : k < at /\ steps[k] = s
  BY DEF Past
<1> HIDE DEF steps, at
<1>5. at \in Nat /\ InOrder(steps)
  BY <1>1, <1>2 DEF steps, at
<1>6. Step \in Outputs => ~Past(Step)
  BY <1>3, <1>4, <1>5 DEF InOrder, Outputs
<1>7. ASSUME NEW o \in Outputs, Past(o) PROVE Step \notin Produces
  BY <1>3, <1>4, <1>5, <1>7 DEF InOrder, Outputs, Produces
<1>8. ASSUME Past("status"), NEW o \in Outputs, NEW k \in DOMAIN steps, steps[k] = o
      PROVE  Past(o)
  <2>1. PICK i \in DOMAIN steps : i < at /\ steps[i] = "status"
    BY <1>4, <1>8
  <2>2. k <= i /\ k \in Nat /\ i \in Nat
    BY <1>5, <1>8, <2>1 DEF InOrder
  <2>3. k < at
    BY <1>5, <2>1, <2>2
  <2>4. QED
    BY <1>4, <1>8, <2>3
<1>9. ASSUME NEW o \in Outputs, Past(o), NEW k \in DOMAIN steps, steps[k] \in {"json", "status"}
      PROVE  Past("outputs")
  <2>1. PICK j \in DOMAIN steps : j < at /\ steps[j] = o
    BY <1>4, <1>9
  <2>2. steps[2] = "outputs" /\ j > 2 /\ j \in Nat
    BY <1>5, <1>9, <2>1 DEF InOrder
  <2>3. 2 \in DOMAIN steps
    BY <1>1, <2>1, <2>2, StepDomains DEF steps
  <2>4. QED
    BY <1>4, <1>5, <2>1, <2>2, <2>3
<1>10. QED
  BY <1>6, <1>7, <1>8, <1>9 DEF steps

\* What would be written is the same as long as the result is.
LEMMA ContentSame ==
  ASSUME run' = run, proc'.cmd = proc.cmd, proc'.result = proc.result
  PROVE  Content' = Content
BY DEF Content

\* What is written carries the number of the invocation.
LEMMA ContentRun == Content.run = run /\ Content.status = proc.result
BY DEF Content

\* A step of the process keeps its shape.
LEMMA ProcessKeepsType ==
  ASSUME ProcType, ProcessStep
  PROVE  ProcType'
<1>1. SameTask /\ (Exits \/ Dies \/ Moves)
  BY ProcessEffect
<1>2. /\ DOMAIN proc' = ProcFields /\ proc'.cmd \in Commands /\ run' = run /\ run' \in Nat
      /\ proc'.out \in [Outputs -> Outputs \union {""}]
  BY <1>1 DEF SameTask, ProcType
<1>3. proc'.at \in Nat /\ (proc'.end # "none" => proc'.at >= 1)
  <2>1. proc.at \in Nat /\ proc.at >= 1
    BY ProcessEffect DEF ProcType, Started, Running
  <2>2. proc'.at \in {proc.at, proc.at + 1}
    BY <1>1 DEF Exits, Dies, Moves
  <2>3. QED
    BY <2>1, <2>2
<1>4. proc'.end \in {"none", "running", "exit", "killed"}
  BY <1>1 DEF Exits, Dies, Moves
<1>5. DOMAIN disk' = Outputs /\ \A p \in Outputs : disk'[p].run \in Nat /\ disk'[p].run <= run
  <2>1. disk' = disk \/ \E path : disk' = [disk EXCEPT ![path] = Content]
    BY <1>1, Zenon DEF Exits, Dies, Moves
  <2>2. CASE disk' = disk
    BY <2>2 DEF ProcType
  <2>3. ASSUME NEW path, disk' = [disk EXCEPT ![path] = Content]
        PROVE  DOMAIN disk' = Outputs /\ \A p \in Outputs : disk'[p].run \in Nat /\ disk'[p].run <= run
    <3>1. DOMAIN disk = Outputs /\ run \in Nat
      BY DEF ProcType
    <3>2. \A p \in Outputs : disk'[p] = disk[p] \/ disk'[p] = Content
      BY <2>3, <3>1
    <3>3. run <= run
      BY <3>1
    <3>4. QED
      BY <2>3, <3>1, <3>2, <3>3, ContentRun DEF ProcType
  <2>4. QED
    BY <2>1, <2>2, <2>3
<1>6. QED
  BY <1>2, <1>3, <1>4, <1>5 DEF ProcType, Started

\* A step of the process keeps what its steps established.
LEMMA ProcessKeepsInv ==
  ASSUME ProcType, ProcInv, ProcessStep
  PROVE  ProcInv'
<1>1. Running /\ SameTask /\ (Exits \/ Dies \/ Moves)
  BY ProcessEffect
<1>2. /\ Past("outputs") => OutputsAreDistinct(proc.out)
      /\ (\E step \in Produces : Past(step)) => proc.result \in ResultsOf(proc.cmd)
      /\ \A o \in Outputs : proc.out[o] # "" =>
           \E k \in DOMAIN Steps[proc.cmd] : Steps[proc.cmd][k] = o
  BY <1>1 DEF ProcInv, Started, Running
<1>3. proc'.cmd = proc.cmd /\ proc'.out = proc.out /\ launcher' = launcher
  BY <1>1 DEF SameTask
<1>4. CASE Exits \/ Dies
  <2>1. (\A s : Past(s)' <=> Past(s)) /\ Step' = Step
    BY <1>3, <1>4, PastSame DEF Exits, Dies
  <2>2. proc'.result = proc.result
    BY <1>4 DEF Exits, Dies
  <2>3. ExitReason'
    BY <1>3, <1>4, <2>1, <2>2 DEF Exits, Dies, ExitReason
  <2>4. QED
    BY <1>2, <1>3, <2>1, <2>2, <2>3 DEF ProcInv, OutputsAreDistinct
<1>5. CASE Moves
  <2>1. \A s : Past(s)' <=> Past(s) \/ Step = s
    BY <1>1, <1>5, PastMoves
  <2>2. ExitReason'
    BY <1>5 DEF Moves, ExitReason
  <2>3. Past("outputs")' => OutputsAreDistinct(proc'.out)
    <3>1. Past("outputs")' => OutputsAreDistinct(proc.out)
      BY <1>2, <1>5, <2>1, Zenon DEF Moves
    <3>2. QED
      BY <1>3, <3>1
  <2>4. (\E step \in Produces : Past(step)') => proc'.result \in ResultsOf(proc'.cmd)
    BY <1>2, <1>3, <1>5, <2>1 DEF Moves, ResultsOf
  <2>5. QED
    BY <1>2, <1>3, <2>2, <2>3, <2>4 DEF ProcInv
<1>6. QED
  BY <1>1, <1>4, <1>5

\* A step of the process keeps the files of this invocation its own.
LEMMA ProcessKeepsDisk ==
  ASSUME ProcType, DiskInv, ScriptInv, launcher \in {"action", "shell"}, ProcessStep
  PROVE  DiskInv'
<1>1. Running /\ SameTask /\ (Exits \/ Dies \/ Moves)
  BY ProcessEffect
<1>2. /\ proc'.cmd = proc.cmd /\ proc'.out = proc.out /\ run' = run
      /\ launcher' = launcher /\ script' = script
  BY <1>1 DEF SameTask
<1>3. ~(launcher = "action" /\ script.at = "select") /\ ProcessOwnsOutputs
  BY <1>1 DEF ScriptInv, ProcessOwnsOutputs, ScriptAt
<1>4. /\ \A o \in Outputs : Past(o) /\ proc.out[o] # "" => disk[proc.out[o]] = Content
      /\ \A p \in Outputs : disk[p].run = run => \E o \in Outputs : proc.out[o] = p /\ Past(o)
  BY <1>1, <1>3 DEF DiskInv, Started, Running, Fresh
<1> SUFFICES /\ \A o \in Outputs : Past(o)' /\ proc.out[o] # "" => disk'[proc.out[o]] = Content'
             /\ \A p \in Outputs : disk'[p].run = run => \E o \in Outputs : proc.out[o] = p /\ Past(o)'
  BY <1>2, <1>3 DEF DiskInv, Fresh
<1>5. CASE Exits \/ Dies
  BY <1>2, <1>4, <1>5, PastSame, ContentSame DEF Exits, Dies
<1>6. CASE Moves
  <2>1. \A s : Past(s)' <=> Past(s) \/ Step = s
    BY <1>1, <1>6, PastMoves
  <2>2. CASE Step \in Produces
    <3>1. \A o \in Outputs : ~Past(o) /\ Step # o
      BY <2>2, PastInOrder DEF Produces, Outputs
    <3>2. disk' = disk
      BY <1>6, <3>1 DEF Moves
    <3>3. QED
      BY <1>4, <2>1, <3>1, <3>2
  <2>3. CASE Step \notin Produces
    <3>1. Content' = Content
      BY <1>2, <1>6, <2>3, ContentSame DEF Moves
    <3>2. CASE Step \in Outputs /\ proc.out[Step] # ""
      <4>1. disk' = [disk EXCEPT ![proc.out[Step]] = Content]
        BY <1>6, <3>2 DEF Moves
      <4>2. DOMAIN disk = Outputs /\ proc.out[Step] \in Outputs
        BY <3>2 DEF ProcType
      <4>3. \A p \in Outputs : disk'[p] = IF p = proc.out[Step] THEN Content ELSE disk[p]
        BY <4>1, <4>2
      <4>4. \A o \in Outputs : proc.out[o] # "" => proc.out[o] \in Outputs
        BY DEF ProcType
      <4>5. ASSUME NEW o \in Outputs, Past(o)', proc.out[o] # ""
            PROVE  disk'[proc.out[o]] = Content'
        BY <1>4, <2>1, <3>1, <4>3, <4>4, <4>5
      <4>6. ASSUME NEW p \in Outputs, disk'[p].run = run
            PROVE  \E o \in Outputs : proc.out[o] = p /\ Past(o)'
        BY <1>4, <2>1, <3>2, <4>3, <4>6
      <4>7. QED
        BY <4>5, <4>6
    <3>3. CASE ~(Step \in Outputs /\ proc.out[Step] # "")
      <4>1. disk' = disk
        BY <1>6, <3>3 DEF Moves
      <4>2. QED
        BY <1>4, <2>1, <3>1, <3>3, <4>1
    <3>4. QED
      BY <3>2, <3>3
  <2>4. QED
    BY <2>2, <2>3
<1>7. QED
  BY <1>1, <1>5, <1>6

\* The script waits while the process takes its steps.
LEMMA ProcessKeepsScript ==
  ASSUME ProcType, ScriptInv, ProcessStep
  PROVE  ScriptInv'
<1>1. Running /\ SameTask /\ (Exits \/ Dies \/ Moves)
  BY ProcessEffect
<1>2. /\ proc'.cmd = proc.cmd /\ proc'.out = proc.out /\ run' = run
      /\ launcher' = launcher /\ script' = script
  BY <1>1 DEF SameTask
<1>3. proc'.end # "none" /\ Started
  BY <1>1 DEF Exits, Dies, Moves, Started, Running
<1>4. launcher = "action" => script.at = "wait" /\ DOMAIN script = ScriptFields /\ ModeFits
                             /\ proc.out = ActionOutputs /\ run > 0
  BY <1>1, <1>3 DEF ScriptInv
<1>5. QED
  BY <1>2, <1>3, <1>4 DEF ScriptInv, ModeFits, Started, ActionOutputs

-----------------------------------------------------------------------------
(* The job around the process. *)

\* The first step has none before it.
LEMMA NothingBeforeOne == \A n \in Nat : \A k \in 1 .. n : ~(k < 1)
OBVIOUS

\* A new process has everything before it.
LEMMA FreshProcess ==
  ASSUME NEW cmd \in Commands, NEW sources, NEW remote, NEW format,
         NEW out \in [Outputs -> Outputs \union {""}],
         proc' = Process(cmd, sources, remote, out, format)
  PROVE  /\ DOMAIN proc' = ProcFields /\ proc'.cmd = cmd /\ proc'.at = 1 /\ proc'.end = "running"
         /\ proc'.out = out /\ proc'.sources = sources /\ proc'.document = NotStarted.document
         /\ \A s : ~Past(s)'
<1>1. /\ DOMAIN proc' = ProcFields /\ proc'.cmd = cmd /\ proc'.at = 1 /\ proc'.end = "running"
      /\ proc'.out = out /\ proc'.sources = sources /\ proc'.document = NotStarted.document
  BY DEF Process, NotStarted, ProcFields
<1>2. \A k \in DOMAIN Steps[cmd] : ~(k < 1)
  BY NothingBeforeOne, StepDomains, Zenon
<1>3. QED
  BY <1>1, <1>2 DEF Past

\* Before the first process.
LEMMA NoProcess ==
  /\ DOMAIN NotStarted = ProcFields /\ NotStarted.cmd \in Commands /\ NotStarted.at = 0
  /\ NotStarted.end = "none" /\ NotStarted.out \in [Outputs -> Outputs \union {""}]
BY StepLists DEF NotStarted, ProcFields

\* StartShell begins with files of earlier invocations only.
LEMMA ShellKeeps ==
  ASSUME CliInv, StartShell
  PROVE  CliInv'
<1>1. PICK cmd \in Commands, sources \in SourceInputs, out \in OutputInputs, format \in {"unset", "json"} :
        proc' = Process(cmd, sources, NotStarted.remote, OutputFlags(cmd, out), format)
  BY Zenon DEF StartShell
<1>2. /\ launcher = "shell" /\ launcher' = "shell" /\ run' = run + 1 /\ disk' = disk
  BY DEF StartShell
<1>3. out \in [Outputs -> Outputs \union {""}]
  BY InputTypes DEF Outputs
<1>4. OutputFlags(cmd, out) \in [Outputs -> Outputs \union {""}]
  BY <1>3 DEF OutputFlags
<1>5. /\ DOMAIN proc' = ProcFields /\ proc'.cmd = cmd /\ proc'.at = 1 /\ proc'.end = "running"
      /\ proc'.out = OutputFlags(cmd, out) /\ \A s : ~Past(s)'
  BY <1>1, <1>4, FreshProcess
<1>6. \A p \in Outputs : disk[p].run \in Nat /\ run \in Nat /\ disk[p].run <= run
  BY DEF CliInv, ProcType
<1>7. \A p \in Outputs : disk[p].run <= run + 1 /\ disk[p].run # run + 1
  BY <1>6
<1>8. ProcType'
  <2>1. DOMAIN disk = Outputs /\ run \in Nat
    BY Zenon DEF CliInv, ProcType
  <2>2. run + 1 \in Nat /\ 1 \in Nat /\ 1 >= 1
    BY ONLY <2>1
  <2>3. QED
    BY <1>2, <1>4, <1>5, <1>6, <1>7, <2>1, <2>2, Zenon DEF ProcType, Started
<1>9. ProcInv'
  <2>1. ASSUME NEW o \in Outputs, proc'.out[o] # ""
        PROVE  \E k \in DOMAIN Steps[proc'.cmd] : Steps[proc'.cmd][k] = o
    BY <1>5, <2>1 DEF OutputFlags, ToSet
  <2>2. QED
    BY <1>5, <2>1 DEF ProcInv, ExitReason
<1>10. DiskInv' /\ ScriptInv'
  BY <1>2, <1>5, <1>7 DEF DiskInv, ScriptInv
<1>11. QED
  BY <1>8, <1>9, <1>10 DEF CliInv

\* The shape of the script between two invocations.
LEMMA IdleShape == DOMAIN Idle = ScriptFields /\ Idle.at = "idle" /\ Idle.code = 1
BY DEF Idle, ScriptFields

\* StartAction makes every file one of an earlier invocation.
LEMMA ActionKeeps ==
  ASSUME CliInv, StartAction
  PROVE  CliInv'
<1>1. PICK sources, remote :
        script' = [Idle EXCEPT !.at = "select", !.sources = sources, !.remote = remote]
  BY Zenon DEF StartAction
<1>2. DOMAIN script' = ScriptFields /\ script'.at = "select" /\ script'.code = 1
  BY <1>1, IdleShape DEF ScriptFields
<1>3. launcher' = "action" /\ run' = run + 1 /\ disk' = disk /\ proc' = NotStarted
  BY DEF StartAction
<1>4. \A p \in Outputs : disk[p].run \in Nat /\ run \in Nat /\ disk[p].run <= run
  BY DEF CliInv, ProcType
<1>5. \A p \in Outputs : disk[p].run <= run + 1 /\ disk[p].run < run + 1
  BY <1>4
<1>6. DOMAIN disk = Outputs /\ run \in Nat
  BY Zenon DEF CliInv, ProcType
<1>7. ProcType' /\ ProcInv'
  <2>1. run + 1 \in Nat /\ 0 \in Nat
    BY ONLY <1>6
  <2>2. QED
    BY <1>3, <1>4, <1>5, <1>6, <2>1, NoProcess, Zenon DEF ProcType, ProcInv, Started
<1>8. DiskInv'
  BY <1>2, <1>3, <1>5, NoProcess DEF DiskInv, Started
<1>9. ScriptInv'
  BY <1>2, <1>3, NoProcess DEF ScriptInv, Started, Running
<1>10. QED
  BY <1>7, <1>8, <1>9 DEF CliInv

\* The script starts the process, or reports its inputs.
LEMMA SelectKeeps ==
  ASSUME CliInv, SelectMode
  PROVE  CliInv'
<1>1. launcher = "action" /\ script.at = "select" /\ ~Started /\ DOMAIN script = ScriptFields
  BY DEF SelectMode, ScriptAt, CliInv, ScriptInv
<1>2. UNCHANGED <<launcher, run, disk>>
  BY DEF SelectMode
<1>3. \A p \in Outputs : disk[p].run < run
  BY <1>1 DEF CliInv, DiskInv
<1>4. CASE InputsAreAccepted(script.sources, script.remote)
  <2> DEFINE generic == GenericSources(script.sources) = 1
             cmd == IF generic THEN "check" ELSE "migrationCheck"
  <2>1. /\ script' = [script EXCEPT !.at = "wait", !.mode = IF generic THEN "generic" ELSE "migration"]
        /\ proc' = Process(cmd, script.sources, script.remote, ActionOutputs, "markdown")
    BY <1>4 DEF SelectMode
  <2>2. cmd \in {"check", "migrationCheck"} /\ cmd \in Commands
    BY StepLists
  <2>3. ActionOutputs \in [Outputs -> Outputs \union {""}]
    BY DEF ActionOutputs
  <2>4. /\ DOMAIN script' = ScriptFields /\ script'.at = "wait"
        /\ script'.mode = IF generic THEN "generic" ELSE "migration"
    BY <1>1, <2>1 DEF ScriptFields
  <2> HIDE DEF cmd
  <2>5. /\ DOMAIN proc' = ProcFields /\ proc'.cmd = cmd /\ proc'.at = 1 /\ proc'.end = "running"
        /\ proc'.out = ActionOutputs /\ \A s : ~Past(s)'
    BY <2>1, <2>2, <2>3, FreshProcess
  <2>6. ProcType'
    <3>1. 1 \in Nat /\ 1 >= 1
      OBVIOUS
    <3>2. QED
      BY <1>2, <2>2, <2>3, <2>5, <3>1, Zenon DEF CliInv, ProcType, Started
  <2>7. ProcInv'
    <3>1. \A o \in Outputs : \E k \in DOMAIN Steps[cmd] : Steps[cmd][k] = o
      BY <2>2, ChecksWriteAll
    <3>2. QED
      BY <2>5, <3>1 DEF ProcInv, ExitReason
  <2>8. \A p \in Outputs : disk[p].run # run
    <3>1. \A p \in Outputs : disk[p].run \in Nat /\ run \in Nat
      BY Zenon DEF CliInv, ProcType
    <3>2. QED
      BY <1>3, <3>1
  <2>9. DiskInv'
    BY <1>2, <2>4, <2>5, <2>8 DEF DiskInv
  <2>10. ModeFits'
    BY <2>4, <2>5 DEF ModeFits, cmd
  <2>11. run > 0
    <3>1. run \in Nat /\ "report" \in Outputs
      BY Zenon DEF CliInv, ProcType, Outputs
    <3>2. disk["report"].run \in Nat
      BY <3>1, Zenon DEF CliInv, ProcType
    <3>3. QED
      BY <1>3, <3>1, <3>2
  <2>12. ScriptInv'
    BY <1>1, <1>2, <2>4, <2>5, <2>10, <2>11 DEF ScriptInv, Started, ActionOutputs
  <2>13. QED
    BY <2>6, <2>7, <2>9, <2>12 DEF CliInv
<1>5. CASE ~InputsAreAccepted(script.sources, script.remote)
  <2>1. script' = WriteErrors(script, "judge") /\ proc' = proc
    BY <1>5 DEF SelectMode
  <2>2. /\ DOMAIN script' = ScriptFields /\ script'.at = "errors" /\ script'.code = script.code
        /\ script'.next = "judge"
    BY <1>1, <2>1 DEF WriteErrors, ScriptFields
  <2>3. QED
    BY <1>1, <1>2, <2>1, <2>2 DEF CliInv, ProcType, ProcInv, DiskInv, ScriptInv, Started, Running,
       ReachedTheEnd, Step
<1>6. QED
  BY <1>4, <1>5
-----------------------------------------------------------------------------
(* The script after the process. *)

\* At the end every step is behind.
LEMMA EndIsPast ==
  ASSUME ProcType, Started, Step = "end",
         NEW o, \E k \in DOMAIN Steps[proc.cmd] : Steps[proc.cmd][k] = o
  PROVE  Past(o)
<1>1. proc.cmd \in Commands /\ proc.at \in Nat /\ proc.at >= 1
  BY Zenon DEF ProcType
<1>2. proc.at \notin DOMAIN Steps[proc.cmd]
  BY StepIsOne
<1>3. PICK n \in Nat : DOMAIN Steps[proc.cmd] = 1 .. n
  BY <1>1, StepDomains
<1>4. \A k \in 1 .. n : k < proc.at
  BY ONLY <1>1, <1>2, <1>3
<1>5. QED
  BY <1>3, <1>4 DEF Past

\* A process of the Action that came to its end has a result, and before anyone else
\* writes, its files.
LEMMA EndIsBacked ==
  ASSUME CliInv, launcher = "action", ReachedTheEnd
  PROVE  /\ proc.result \in ResultsOf(proc.cmd) /\ ModeFits
         /\ proc.code = FinalCode(proc.cmd, proc.result)
         /\ script.at = "wait" => \A o \in Outputs : Fresh(o)
<1>1. Started /\ Step = "end" /\ proc.end = "exit"
  BY DEF ReachedTheEnd, Started
<1>2. ModeFits /\ proc.out = ActionOutputs
  BY <1>1, Zenon DEF CliInv, ScriptInv
<1>3. proc.cmd \in {"check", "migrationCheck"}
  BY <1>2 DEF ModeFits
<1>4. ProcType /\ ProcInv /\ DiskInv
  BY DEF CliInv
<1>5. \A o \in Outputs : Past(o)
  BY <1>1, <1>3, <1>4, ChecksWriteAll, EndIsPast, Zenon
<1>6. \E step \in Produces : Past(step)
  BY <1>1, <1>3, <1>4, ChecksWriteAll, EndIsPast, Zenon
<1>7. proc.result \in ResultsOf(proc.cmd) /\ ExitReason
  BY <1>1, <1>4, <1>6, Zenon DEF ProcInv
<1>8. ASSUME script.at = "wait" PROVE \A o \in Outputs : Fresh(o)
  <2>1. ProcessOwnsOutputs
    BY <1>8, Zenon DEF ProcessOwnsOutputs, ScriptAt
  <2>2. \A o \in Outputs : proc.out[o] = o /\ o # ""
    BY <1>2 DEF ActionOutputs, Outputs
  <2>3. QED
    BY <1>1, <1>4, <1>5, <2>1, <2>2, Zenon DEF DiskInv
<1>9. QED
  BY <1>1, <1>2, <1>7, <1>8, Zenon DEF ExitReason

\* Code 0 of a process of the Action means that it came to its end.
LEMMA ZeroIsTheEnd ==
  ASSUME CliInv, launcher = "action", proc.end \in {"exit", "killed"}, proc.code = 0
  PROVE  ReachedTheEnd
<1>1. Started /\ ProcType
  BY DEF Started, CliInv
<1>2. ExitReason /\ ModeFits
  BY <1>1, Zenon DEF CliInv, ProcInv, ScriptInv
<1>3. proc.cmd \in {"check", "migrationCheck"}
  BY <1>2 DEF ModeFits
<1>4. proc.end = "exit"
  BY <1>2, Zenon DEF ExitReason
<1>5. ASSUME Step # "end" PROVE FALSE
  <2>1. Step = "targets"
    BY <1>2, <1>4, <1>5 DEF ExitReason
  <2>2. QED
    BY <1>1, <1>3, <1>5, <2>1, StepIsOne, ChecksWriteAll
<1>6. QED
  BY <1>4, <1>5 DEF ReachedTheEnd

\* A step of the script after the wait that touches nothing else.
LEMMA ScriptMoves ==
  ASSUME CliInv, UNCHANGED <<launcher, run, disk, proc>>, launcher = "action",
         DOMAIN script' = ScriptFields, script.at \notin {"idle", "select"}, ~Running,
         \/ /\ script'.at = "errors" /\ script'.code = 1 /\ ~ReachedTheEnd
            /\ script'.next \in {"judge", "compare", "publish"}
         \/ /\ script'.at \in {"judge", "compare", "publish", "done"}
            /\ script'.code = 0 => ReachedTheEnd
            /\ ReachedTheEnd =>
                 /\ script'.code = proc.code /\ \A o \in Outputs : Fresh(o)
                 /\ script'.at # "judge" => script'.status = proc.result,
         script'.mode = script.mode
  PROVE  CliInv'
<1>1. ProcType' /\ (Started' <=> Started) /\ (Running' <=> Running)
  BY DEF CliInv, ProcType, Started, Running
<1>2. (ReachedTheEnd' <=> ReachedTheEnd) /\ \A o : Fresh(o)' <=> Fresh(o)
  BY DEF ReachedTheEnd, Step, Fresh, Content
<1>3. ProcInv'
  BY DEF CliInv, ProcInv, Past, Started, ExitReason, Step, OutputsAreDistinct
<1>4. DiskInv'
  BY DEF DiskInv, ProcessOwnsOutputs, ScriptAt
<1>5. Started => ModeFits' /\ proc'.out = ActionOutputs /\ run' > 0
  BY DEF CliInv, ScriptInv, ModeFits
<1>6. ScriptInv'
  BY <1>1, <1>2, <1>5 DEF ScriptInv, ActionOutputs
<1>7. QED
  BY <1>1, <1>3, <1>4, <1>6 DEF CliInv
\* The process ended: missing files mean that it never came to its end.
LEMMA EndedKeeps ==
  ASSUME CliInv, ProcessEnded
  PROVE  CliInv'
<1>1. /\ launcher = "action" /\ script.at = "wait" /\ proc.end \in {"exit", "killed"}
      /\ UNCHANGED <<launcher, run, disk, proc>>
  BY DEF ProcessEnded, ScriptAt, OnlyScript
<1>2. DOMAIN script = ScriptFields /\ ~Running /\ Started
  BY <1>1 DEF CliInv, ScriptInv, Running, Started
<1>3. ReachedTheEnd => \A o \in Outputs : Fresh(o)
  BY <1>1, EndIsBacked
<1>4. ReachedTheEnd => \A o \in Outputs : disk[o] # NoContent
  <2>1. run > 0 /\ run \in Nat
    BY <1>1, <1>2, Zenon DEF CliInv, ProcType, ScriptInv
  <2>2. Content # NoContent
    <3>1. NoContent.run = 0
      BY DEF NoContent
    <3>2. 0 # run
      BY ONLY <2>1
    <3>3. QED
      BY <3>1, <3>2, ContentRun, Zenon
  <2>3. QED
    BY <1>3, <2>2, Zenon DEF Fresh
<1>5. proc.code = 0 => ReachedTheEnd
  BY <1>1, ZeroIsTheEnd
<1> DEFINE ended == [script EXCEPT !.code = proc.code, !.at = "judge"]
<1>6. CASE \E o \in Outputs : disk[o] = NoContent
  <2>1. script' = WriteErrors([ended EXCEPT !.code = 1], "judge")
    BY <1>6 DEF ProcessEnded
  <2>2. /\ DOMAIN script' = ScriptFields /\ script'.mode = script.mode /\ script'.at = "errors"
        /\ script'.code = 1 /\ script'.next = "judge"
    BY <1>2, <2>1 DEF WriteErrors, ScriptFields
  <2>3. QED
    BY <1>1, <1>2, <1>4, <1>6, <2>2, ScriptMoves
<1>7. CASE ~ \E o \in Outputs : disk[o] = NoContent
  <2>1. script' = ended
    BY <1>7 DEF ProcessEnded
  <2>2. /\ DOMAIN script' = ScriptFields /\ script'.mode = script.mode /\ script'.at = "judge"
        /\ script'.code = proc.code
    BY <1>2, <2>1 DEF ScriptFields
  <2>3. QED
    BY <1>1, <1>2, <1>3, <1>5, <2>2, ScriptMoves
<1>8. QED
  BY <1>6, <1>7

\* Away from the wait the process is over.
LEMMA NotWaiting ==
  ASSUME CliInv, launcher = "action", script.at # "wait"
  PROVE  ~Running /\ DOMAIN script = ScriptFields
BY DEF CliInv, ScriptInv

\* What FailClosed leaves.
LEMMA FailEffect ==
  ASSUME DOMAIN script = ScriptFields, NEW next, script' = FailClosed(next)
  PROVE  /\ DOMAIN script' = ScriptFields /\ script'.mode = script.mode /\ script'.at = "errors"
         /\ script'.code = 1 /\ script'.next = next
BY DEF FailClosed, WriteErrors, ScriptFields

\* The script recognises what a process that came to its end has written.
LEMMA JudgeKeeps ==
  ASSUME CliInv, Judge
  PROVE  CliInv'
<1>1. launcher = "action" /\ script.at = "judge" /\ UNCHANGED <<launcher, run, disk, proc>>
  BY DEF Judge, ScriptAt, OnlyScript
<1>2. DOMAIN script = ScriptFields /\ ~Running
  BY <1>1, NotWaiting
<1>3. /\ script.code = 0 => ReachedTheEnd
      /\ ReachedTheEnd => script.code = proc.code /\ \A o \in Outputs : Fresh(o)
  BY <1>1, Zenon DEF CliInv, ScriptInv
<1> DEFINE known == Recognised(script.mode, disk["json"].schema, disk["status"].status)
<1>4. ReachedTheEnd => disk["json"] = Content /\ disk["status"] = Content
  BY <1>3 DEF Outputs, Fresh
<1>5. ReachedTheEnd => known /\ disk["status"].status = proc.result
  <2>1. SUFFICES ASSUME ReachedTheEnd PROVE known /\ disk["status"].status = proc.result
    OBVIOUS
  <2>2. proc.result \in ResultsOf(proc.cmd) /\ ModeFits
    BY <1>1, <2>1, EndIsBacked
  <2>3. Content.schema = IF proc.cmd = "check" THEN "tcg-result"
                         ELSE IF proc.cmd = "migrationCheck" THEN "tmr-result" ELSE "other"
    BY DEF Content
  <2>4. QED
    BY <1>4, <2>1, <2>2, <2>3, ContentRun, ResultSets DEF ModeFits, Recognised
<1>6. CASE known
  <2>1. script' = [script EXCEPT !.status = disk["status"].status, !.at = "compare"]
    BY <1>6 DEF Judge
  <2>2. /\ DOMAIN script' = ScriptFields /\ script'.mode = script.mode /\ script'.at = "compare"
        /\ script'.code = script.code /\ script'.status = disk["status"].status
    BY <1>2, <2>1 DEF ScriptFields
  <2>3. QED
    BY <1>1, <1>2, <1>3, <1>5, <2>2, ScriptMoves
<1>7. CASE ~known
  <2>1. script' = FailClosed("compare")
    BY <1>7 DEF Judge
  <2>2. QED
    BY <1>1, <1>2, <1>5, <1>7, <2>1, FailEffect, ScriptMoves
<1>8. QED
  BY <1>6, <1>7

\* The two ways to compute the exit code of a check agree.
LEMMA CodesAgree ==
  /\ \A result \in Safety : FinalCode("check", result) = ExpectedExit(result)
  /\ \A result \in Readiness : FinalCode("migrationCheck", result) = ExpectedExit(result)
BY DEF Safety, Readiness, FinalCode, ExitCode, ReadinessExitCode, ExpectedExit, Migration

\* The comparison of the exit code with the status holds at the end.
LEMMA CompareKeeps ==
  ASSUME CliInv, CompareExit
  PROVE  CliInv'
<1>1. launcher = "action" /\ script.at = "compare" /\ UNCHANGED <<launcher, run, disk, proc>>
  BY DEF CompareExit, ScriptAt, OnlyScript
<1>2. DOMAIN script = ScriptFields /\ ~Running
  BY <1>1, NotWaiting
<1>3. /\ script.code = 0 => ReachedTheEnd
      /\ ReachedTheEnd => /\ script.code = proc.code /\ \A o \in Outputs : Fresh(o)
                          /\ script.status = proc.result
  BY <1>1 DEF CliInv, ScriptInv
<1>4. ReachedTheEnd => script.code = ExpectedExit(script.status)
  <2>1. SUFFICES ASSUME ReachedTheEnd PROVE script.code = ExpectedExit(script.status)
    OBVIOUS
  <2>2. /\ proc.result \in ResultsOf(proc.cmd) /\ ModeFits
        /\ proc.code = FinalCode(proc.cmd, proc.result)
    BY <1>1, <2>1, EndIsBacked
  <2>3. QED
    BY <1>3, <2>1, <2>2, ResultSets, CodesAgree DEF ModeFits
<1>5. CASE script.code = ExpectedExit(script.status)
  <2>1. script' = [script EXCEPT !.at = "publish"]
    BY <1>5 DEF CompareExit
  <2>2. /\ DOMAIN script' = ScriptFields /\ script'.mode = script.mode /\ script'.at = "publish"
        /\ script'.code = script.code /\ script'.status = script.status
    BY <1>2, <2>1 DEF ScriptFields
  <2>3. QED
    BY <1>1, <1>2, <1>3, <2>2, ScriptMoves
<1>6. CASE script.code # ExpectedExit(script.status)
  <2>1. script' = FailClosed("publish")
    BY <1>6 DEF CompareExit
  <2>2. QED
    BY <1>1, <1>2, <1>4, <1>6, <2>1, FailEffect, ScriptMoves
<1>7. QED
  BY <1>5, <1>6

\* Publish and an abort there end the script with what it knows.
LEMMA PublishKeeps ==
  ASSUME CliInv, launcher = "action", script.at = "publish", UNCHANGED <<launcher, run, disk, proc>>,
         \/ script' = [script EXCEPT !.at = "done", !.published = TRUE]
         \/ script' = [script EXCEPT !.at = "done"]
  PROVE  CliInv'
<1>1. DOMAIN script = ScriptFields /\ ~Running
  BY NotWaiting
<1>2. /\ script.code = 0 => ReachedTheEnd
      /\ ReachedTheEnd => /\ script.code = proc.code /\ \A o \in Outputs : Fresh(o)
                          /\ script.status = proc.result
  BY DEF CliInv, ScriptInv
<1>3. /\ DOMAIN script' = ScriptFields /\ script'.mode = script.mode /\ script'.at = "done"
      /\ script'.code = script.code /\ script'.status = script.status
  BY <1>1 DEF ScriptFields
<1>4. QED
  BY <1>1, <1>2, <1>3, ScriptMoves

\* Writing the error artifacts, or failing to, touches no file that backs a verdict.
LEMMA ErrorsKeep ==
  ASSUME CliInv, launcher = "action", script.at = "errors", UNCHANGED <<launcher, run, proc>>,
         DOMAIN script' = ScriptFields, script'.code = script.code, script'.mode = script.mode,
         script'.next = script.next, script'.at \in {"errors", script.next, "done"},
         \/ disk' = disk
         \/ \E path, content : /\ disk' = [disk EXCEPT ![path] = content]
                               /\ content.run \in {0, run}
  PROVE  CliInv'
<1>1. DOMAIN script = ScriptFields /\ ~Running
  BY NotWaiting
<1>2. /\ script.code = 1 /\ ~ReachedTheEnd /\ script.next \in {"judge", "compare", "publish"}
      /\ Started => ModeFits /\ proc.out = ActionOutputs /\ run > 0
  BY DEF CliInv, ScriptInv
<1>3. DOMAIN disk = Outputs /\ run \in Nat /\ \A p \in Outputs : disk[p].run \in Nat /\ disk[p].run <= run
  BY Zenon DEF CliInv, ProcType
<1>4. DOMAIN disk' = Outputs /\ \A p \in Outputs : disk'[p].run \in Nat /\ disk'[p].run <= run
  <2>1. \A n \in {0, run} : n \in Nat /\ n <= run
    BY ONLY <1>3
  <2>2. CASE disk' = disk
    BY <1>3, <2>2
  <2>3. ASSUME NEW path, NEW content, disk' = [disk EXCEPT ![path] = content], content.run \in {0, run}
        PROVE  DOMAIN disk' = Outputs /\ \A p \in Outputs : disk'[p].run \in Nat /\ disk'[p].run <= run
    <3>1. DOMAIN disk' = Outputs /\ \A p \in Outputs : disk'[p] = disk[p] \/ disk'[p] = content
      BY <1>3, <2>3
    <3>2. QED
      BY <1>3, <2>1, <2>3, <3>1, Zenon
  <2>4. QED
    BY <2>2, <2>3
<1>5. ProcType' /\ (Started' <=> Started) /\ (Running' <=> Running)
  <2>1. ProcType'
    BY <1>3, <1>4, Zenon DEF CliInv, ProcType, Started
  <2>2. QED
    BY <2>1 DEF Started, Running
<1>6. ReachedTheEnd' <=> ReachedTheEnd
  BY DEF ReachedTheEnd, Step
<1>7. ProcInv'
  BY DEF CliInv, ProcInv, Past, Started, ExitReason, Step, OutputsAreDistinct
<1>8. script'.at \in {"errors", "judge", "compare", "publish", "done"}
  BY <1>2
<1>9. DiskInv'
  BY <1>8 DEF DiskInv, ProcessOwnsOutputs, ScriptAt
<1>10. ScriptInv'
  BY <1>1, <1>2, <1>5, <1>6, <1>8 DEF ScriptInv, ModeFits, ActionOutputs
<1>11. QED
  BY <1>5, <1>7, <1>9, <1>10 DEF CliInv

\* WriteErrorArtifact, and an abort among the error artifacts.
LEMMA ArtifactKeeps ==
  ASSUME CliInv, WriteErrorArtifact
  PROVE  CliInv'
<1> DEFINE content == [run |-> run, schema |-> "tcg-action-error", status |-> "ERROR"]
<1>1. /\ launcher = "action" /\ script.at = "errors" /\ UNCHANGED <<launcher, run, proc>>
      /\ disk' = [disk EXCEPT ![Head(script.todo)] = content]
      /\ script' = [script EXCEPT !.todo = Tail(@), !.at = IF Len(script.todo) = 1 THEN script.next ELSE @]
  BY DEF WriteErrorArtifact, ScriptAt
<1>2. content.run \in {0, run}
  OBVIOUS
<1>3. DOMAIN script = ScriptFields
  BY <1>1, NotWaiting
<1>4. /\ DOMAIN script' = ScriptFields /\ script'.mode = script.mode /\ script'.code = script.code
      /\ script'.next = script.next /\ script'.at \in {script.at, script.next}
  BY <1>1, <1>3 DEF ScriptFields
<1> HIDE DEF content
<1>5. QED
  BY <1>1, <1>2, <1>4, ErrorsKeep

\* An abort of the script leaves what backs a verdict.
LEMMA AbortKeeps ==
  ASSUME CliInv, ScriptAborts
  PROVE  CliInv'
<1>1. /\ launcher = "action" /\ script.at \in {"errors", "publish"} /\ UNCHANGED <<launcher, run, proc>>
      /\ script' = [script EXCEPT !.at = "done"]
      /\ \/ disk' = disk
         \/ script.at = "errors" /\ disk' = [disk EXCEPT ![Head(script.todo)] = NoContent]
  BY DEF ScriptAborts, ScriptAt
<1>2. DOMAIN script = ScriptFields /\ NoContent.run \in {0, run}
  BY <1>1, NotWaiting DEF NoContent
<1>3. /\ DOMAIN script' = ScriptFields /\ script'.mode = script.mode /\ script'.code = script.code
      /\ script'.next = script.next /\ script'.at = "done"
  BY <1>1, <1>2 DEF ScriptFields
<1>4. CASE script.at = "publish"
  BY <1>1, <1>4, PublishKeeps
<1>5. CASE script.at = "errors"
  BY <1>1, <1>2, <1>3, <1>5, ErrorsKeep
<1>6. QED
  BY <1>1, <1>4, <1>5

-----------------------------------------------------------------------------
(* All steps. *)

JobInv == launcher \in {"action", "shell", "init"}

\* Before the first invocation.
LEMMA CliInit ==
  ASSUME Init
  PROVE  JobInv /\ CliInv
<1>1. /\ JobInv /\ run = 0 /\ disk = [o \in Outputs |-> NoContent] /\ proc = NotStarted /\ script = Idle
  BY DEF Init, JobInv
<1>2. /\ DOMAIN disk = Outputs
      /\ \A p \in Outputs : disk[p].run = 0
  BY <1>1 DEF NoContent
<1>3. 0 \in Nat /\ 0 <= 0
  OBVIOUS
<1>4. ProcType /\ ProcInv
  BY <1>1, <1>2, <1>3, NoProcess, Zenon DEF ProcType, ProcInv, Started
<1>5. DiskInv
  BY <1>1, NoProcess, IdleShape DEF DiskInv, Started
<1>6. ScriptInv
  BY <1>1, NoProcess, IdleShape DEF ScriptInv, Started, Running
<1>7. QED
  BY <1>1, <1>4, <1>5, <1>6 DEF CliInv

\* A step that leaves the job's state alone.
LEMMA CliStutters ==
  ASSUME CliInv, UNCHANGED <<launcher, run, disk, proc, script>>
  PROVE  CliInv'
<1>1. ProcType'
  BY DEF CliInv, ProcType, Started
<1>2. ProcInv'
  BY DEF CliInv, ProcInv, Past, Started, ExitReason, Step, OutputsAreDistinct
<1>3. DiskInv'
  <2>1. /\ \A s : Past(s)' <=> Past(s)
        /\ Started' <=> Started
        /\ ProcessOwnsOutputs' <=> ProcessOwnsOutputs
    BY PastSame, Zenon DEF Started, ProcessOwnsOutputs, ScriptAt
  <2>2. \A p : Fresh(p)' <=> Fresh(p)
    BY ContentSame DEF Fresh
  <2>3. QED
    BY <2>1, <2>2 DEF CliInv, DiskInv
<1>4. ScriptInv'
  BY DEF CliInv, ScriptInv, Started, Running, ModeFits, ReachedTheEnd, Step, ActionOutputs, Fresh, Content
<1>5. QED
  BY <1>1, <1>2, <1>3, <1>4 DEF CliInv

\* Every step keeps the invariant.
LEMMA CliNext ==
  ASSUME JobInv, CliInv, [Next]_vars
  PROVE  JobInv' /\ CliInv'
<1>1. CASE ProcessStep /\ launcher # "init"
  <2>1. launcher \in {"action", "shell"}
    BY <1>1 DEF JobInv
  <2>2. ProcType /\ ProcInv /\ DiskInv /\ ScriptInv
    BY DEF CliInv
  <2>3. launcher' = launcher
    BY <1>1, <2>2, ProcessEffect DEF SameTask
  <2>4. ProcType' /\ ProcInv' /\ DiskInv' /\ ScriptInv'
    BY <1>1, <2>1, <2>2, ProcessKeepsType, ProcessKeepsInv, ProcessKeepsDisk, ProcessKeepsScript
  <2>5. QED
    BY <2>3, <2>4 DEF CliInv, JobInv
<1>2. CASE ScriptStep
  <2>1. JobInv'
    BY <1>2 DEF JobInv, ScriptStep, SelectMode, ProcessEnded, Judge, CompareExit, WriteErrorArtifact,
       Publish, ScriptAborts, OnlyScript
  <2>2. CASE Publish
    <3>1. /\ launcher = "action" /\ script.at = "publish" /\ UNCHANGED <<launcher, run, disk, proc>>
          /\ script' = [script EXCEPT !.at = "done", !.published = TRUE]
      BY <2>2 DEF Publish, ScriptAt, OnlyScript
    <3>2. QED
      BY <2>1, <3>1, PublishKeeps
  <2>3. QED
    BY <1>2, <2>1, <2>2, SelectKeeps, EndedKeeps, JudgeKeeps, CompareKeeps, ArtifactKeeps, AbortKeeps, Zenon
    DEF ScriptStep
<1>3. CASE StartAction
  BY <1>3, ActionKeeps DEF StartAction, JobInv
<1>4. CASE StartShell
  BY <1>4, ShellKeeps DEF StartShell, JobInv
<1>5. CASE LinkOutput
  BY <1>5, CliStutters DEF LinkOutput, JobInv
<1>6. CASE UNCHANGED cliVars
  BY <1>6, CliStutters DEF cliVars, JobInv
<1>7. QED
  BY <1>1, <1>2, <1>3, <1>4, <1>5, <1>6 DEF Next, vars
\* The invariant holds throughout.
THEOREM CliInvariant == Spec => [](JobInv /\ CliInv)
BY CliInit, CliNext, PTL DEF Spec

\* A status file of this invocation means that every requested output is of this
\* invocation: the outputs are written in the order of the steps, and the paths were
\* found distinct before (canonical.go:210-224, commands.go:134-150).
THEOREM StatusComesLast == Spec => []StatusIsLast
<1>1. ASSUME CliInv PROVE StatusIsLast
  <2>1. SUFFICES ASSUME ProcessOwnsOutputs, Started, proc.out["status"] # "",
                        disk[proc.out["status"]].run = run,
                        NEW o \in Outputs, proc.out[o] # ""
                 PROVE  Fresh(proc.out[o])
    BY DEF StatusIsLast, Started
  <2>2. ProcType /\ ProcInv /\ DiskInv /\ "status" \in Outputs
    BY <1>1 DEF CliInv, Outputs
  <2>3. proc.out["status"] \in Outputs
    BY <2>1, <2>2 DEF ProcType
  <2>4. PICK p \in Outputs : proc.out[p] = proc.out["status"] /\ Past(p)
    BY <2>1, <2>2, <2>3, Zenon DEF DiskInv
  <2>5. \A q \in Outputs : proc.out[q] # "" =>
           \E k \in DOMAIN Steps[proc.cmd] : Steps[proc.cmd][k] = q
    BY <2>1, <2>2, Zenon DEF ProcInv
  <2>6. Past("outputs")
    BY <2>1, <2>2, <2>4, <2>5, PastInOrder
  <2>7. OutputsAreDistinct(proc.out)
    BY <2>1, <2>2, <2>6, Zenon DEF ProcInv
  <2>8. p = "status"
    BY <2>1, <2>2, <2>4, <2>7, Zenon DEF OutputsAreDistinct
  <2>9. Past(o)
    BY <2>1, <2>2, <2>4, <2>5, <2>8, PastInOrder
  <2>10. QED
    BY <2>1, <2>2, <2>9, Zenon DEF DiskInv
<1>2. QED
  BY <1>1, CliInvariant, PTL

\* An exit code of a check that is a verdict is backed by every requested output
\* (canonical.go:200-229, commands.go:126-155).
THEOREM VerdictIsBacked == Spec => []ExitIsBacked
<1>1. ASSUME CliInv PROVE ExitIsBacked
  <2>1. SUFFICES ASSUME ProcessOwnsOutputs, proc.cmd \in {"check", "migrationCheck"}, proc.end = "exit",
                        proc.code # 1, Step \notin {"flags", "migration"}
                 PROVE  /\ \A o \in Outputs : proc.out[o] # "" => Fresh(proc.out[o])
                        /\ proc.code = FinalCode(proc.cmd, proc.result)
    BY DEF ExitIsBacked
  <2>2. ProcType /\ ProcInv /\ DiskInv /\ Started
    BY <1>1, <2>1 DEF CliInv, Started
  <2>3. ExitReason
    BY <2>2, Zenon DEF ProcInv
  <2>4. Step = "end"
    <3>1. SUFFICES ASSUME Step # "end" PROVE FALSE
      OBVIOUS
    <3>2. Step \in {"input", "targets"}
      BY <2>1, <2>3, <3>1 DEF ExitReason
    <3>3. QED
      BY <2>1, <2>2, <3>1, <3>2, StepIsOne, ChecksWriteAll
  <2>5. \A o \in Outputs : Past(o)
    BY <2>1, <2>2, <2>4, ChecksWriteAll, EndIsPast, Zenon
  <2>6. QED
    BY <2>1, <2>2, <2>3, <2>4, <2>5, Zenon DEF DiskInv, ExitReason
<1>2. QED
  BY <1>1, CliInvariant, PTL

\* The workflow passes only on the verdict of this very invocation, although files of
\* earlier ones may be lying there (run-action.sh:104-149).
THEOREM PassIsOfThisRun == Spec => []PassIsFresh
<1>1. ASSUME CliInv PROVE PassIsFresh
  <2>1. SUFFICES ASSUME launcher = "action", script.at = "done", EnforcedExit = 0
                 PROVE  /\ ReachedTheEnd /\ proc.code = 0
                        /\ \A o \in Outputs : Fresh(o)
                        /\ script.status = proc.result /\ proc.result \in {"PASS", "WARN", "READY"}
    BY DEF PassIsFresh
  <2>2. script.code = 0
    BY <2>1 DEF EnforcedExit
  <2>3. /\ ReachedTheEnd /\ script.code = proc.code /\ \A o \in Outputs : Fresh(o)
        /\ script.status = proc.result
    BY <1>1, <2>1, <2>2 DEF CliInv, ScriptInv
  <2>4. /\ proc.result \in ResultsOf(proc.cmd) /\ ModeFits
        /\ proc.code = FinalCode(proc.cmd, proc.result)
    BY <1>1, <2>1, <2>3, EndIsBacked
  <2>5. ExpectedExit(proc.result) = 0
    BY <2>2, <2>3, <2>4, ResultSets, CodesAgree DEF ModeFits
  <2>6. QED
    BY <2>2, <2>3, <2>5 DEF ExpectedExit
<1>2. QED
  BY <1>1, CliInvariant, PTL

\* What a process decided that came to its end is what the Action publishes
\* (run-action.sh:104-161).
THEOREM DecisionIsPublished == Spec => []DecisionSurvives
<1>1. ASSUME CliInv PROVE DecisionSurvives
  BY <1>1 DEF CliInv, ScriptInv, DecisionSurvives
<1>2. QED
  BY <1>1, CliInvariant, PTL
-----------------------------------------------------------------------------
(* The inputs of the Action. *)

\* Once it has chosen, the script keeps its inputs and starts no other process.
LEMMA ScriptKeepsInputs ==
  ASSUME CliInv, ScriptStep, ~SelectMode
  PROVE  /\ launcher = "action" /\ launcher' = launcher /\ script.at \notin {"idle", "select"}
         /\ script'.sources = script.sources /\ script'.remote = script.remote /\ proc' = proc
<1> USE DEF ScriptAt, OnlyScript
<1>1. launcher = "action" /\ launcher' = launcher /\ script.at \notin {"idle", "select"} /\ proc' = proc
  BY DEF ScriptStep, ProcessEnded, Judge, CompareExit, WriteErrorArtifact, Publish, ScriptAborts
<1>2. DOMAIN script = ScriptFields
  BY <1>1, Zenon DEF CliInv, ScriptInv
<1> USE DEF ScriptFields, WriteErrors, FailClosed
<1>3. CASE ProcessEnded
  BY <1>1, <1>2, <1>3 DEF ProcessEnded
<1>4. CASE Judge
  BY <1>1, <1>2, <1>4 DEF Judge
<1>5. CASE CompareExit
  BY <1>1, <1>2, <1>5 DEF CompareExit
<1>6. CASE WriteErrorArtifact
  BY <1>1, <1>2, <1>6 DEF WriteErrorArtifact
<1>7. CASE Publish
  BY <1>1, <1>2, <1>7 DEF Publish
<1>8. CASE ScriptAborts
  BY <1>1, <1>2, <1>8 DEF ScriptAborts
<1>9. QED
  BY <1>3, <1>4, <1>5, <1>6, <1>7, <1>8, Zenon DEF ScriptStep

\* SelectMode decides once.
LEMMA SelectDecides ==
  ASSUME CliInv, SelectInv, SelectMode
  PROVE  SelectInv'
<1>1. launcher = "action" /\ script.at = "select" /\ launcher' = "action"
  BY DEF SelectMode, ScriptAt
<1>2. script.sources \in SourceInputs /\ ~Started /\ DOMAIN script = ScriptFields
  BY <1>1, Zenon DEF SelectInv, CliInv, ScriptInv
<1>3. CASE InputsAreAccepted(script.sources, script.remote)
  <2> DEFINE generic == GenericSources(script.sources) = 1
             cmd == IF generic THEN "check" ELSE "migrationCheck"
  <2>1. /\ script' = [script EXCEPT !.at = "wait", !.mode = IF generic THEN "generic" ELSE "migration"]
        /\ proc' = Process(cmd, script.sources, script.remote, ActionOutputs, "markdown")
    BY <1>3 DEF SelectMode
  <2>2. /\ script'.sources = script.sources /\ script'.remote = script.remote
        /\ proc'.cmd = cmd /\ proc'.end = "running"
    BY <1>2, <2>1 DEF ScriptFields, Process, NotStarted
  <2>3. QED
    BY <1>2, <1>3, <2>2 DEF SelectInv, Started
<1>4. CASE ~InputsAreAccepted(script.sources, script.remote)
  <2>1. script' = WriteErrors(script, "judge") /\ proc' = proc
    BY <1>4 DEF SelectMode
  <2>2. script'.sources = script.sources /\ script'.remote = script.remote
    BY <1>2, <2>1 DEF WriteErrors, ScriptFields
  <2>3. QED
    BY <1>2, <1>4, <2>1, <2>2 DEF SelectInv, Started
<1>5. QED
  BY <1>3, <1>4

\* Every step keeps the decision.
LEMMA SelectNext ==
  ASSUME JobInv, CliInv, SelectInv, [Next]_vars
  PROVE  SelectInv'
<1>1. CASE ProcessStep
  <2>1. /\ launcher' = launcher /\ script' = script /\ proc'.cmd = proc.cmd
        /\ Started /\ proc'.end # "none"
    BY <1>1, ProcessEffect, Zenon DEF CliInv, SameTask, Exits, Dies, Moves, Running, Started
  <2>2. QED
    BY <2>1 DEF SelectInv, Started
<1>2. CASE SelectMode
  BY <1>2, SelectDecides
<1>3. CASE ScriptStep /\ ~SelectMode
  BY <1>3, ScriptKeepsInputs DEF SelectInv, Started
<1>4. CASE StartAction
  <2>1. PICK sources \in SourceInputs, remote \in RemoteInputs :
          script' = [Idle EXCEPT !.at = "select", !.sources = sources, !.remote = remote]
    BY <1>4, Zenon DEF StartAction
  <2>2. script'.at = "select" /\ script'.sources = sources
    BY <2>1, IdleShape DEF ScriptFields
  <2>3. QED
    BY <2>2 DEF SelectInv
<1>5. CASE StartShell
  BY <1>5 DEF StartShell, SelectInv
<1>6. CASE UNCHANGED <<launcher, proc, script>>
  BY <1>6 DEF SelectInv, Started
<1>7. QED
  BY <1>1, <1>2, <1>3, <1>4, <1>5, <1>6 DEF Next, LinkOutput, vars, cliVars

\* Counting the ways to name a change.
LEMMA CountSources ==
  ASSUME NEW sources
  PROVE  (GenericSources(sources) = 0) <=> (sources \intersect {"changes", "weaver-diff", "baseline"} = {})
<1>1. IsFiniteSet({"changes", "weaver-diff", "baseline"})
  <2>1. IsFiniteSet({"changes"} \union {"weaver-diff"})
    BY FS_Singleton, FS_AddElement
  <2>2. IsFiniteSet(({"changes"} \union {"weaver-diff"}) \union {"baseline"})
    BY <2>1, FS_AddElement
  <2>3. ({"changes"} \union {"weaver-diff"}) \union {"baseline"} = {"changes", "weaver-diff", "baseline"}
    OBVIOUS
  <2>4. QED
    BY <2>2, <2>3
<1>2. IsFiniteSet(sources \intersect {"changes", "weaver-diff", "baseline"})
  BY <1>1, FS_Subset
<1>3. QED
  BY <1>2, FS_EmptySet DEF GenericSources

\* The script starts the process exactly with the inputs its own checks accept
\* (run-action.sh:46-70 against canonical.go:232-275 and commands.go:75-82).
THEOREM ScriptMatchesCommand == Spec => []ScriptAgreesWithCommand
<1>1. Init => SelectInv
  BY IdleShape DEF Init, SelectInv
<1>2. ASSUME SelectInv PROVE ScriptAgreesWithCommand
  <2>1. SUFFICES ASSUME launcher = "action", script.at \notin {"idle", "select"}
                 PROVE  IF proc.end = "none"
                        THEN \/ ~RemoteInputsAgree(script.remote)
                             \/ "migration" \notin script.sources /\ ~SourceIsSelected(script.sources)
                             \/ "migration" \in script.sources /\ script.sources \intersect ChangeInputs # {}
                        ELSE IF proc.cmd = "check"
                             THEN SourceIsSelected(script.sources) /\ "migration" \notin script.sources
                             ELSE script.sources = {"migration"}
    BY DEF ScriptAgreesWithCommand
  <2> DEFINE sources == script.sources
  <2>2. /\ sources \subseteq {"changes", "weaver-diff", "weaver-mapping", "baseline", "candidate", "migration"}
        /\ proc.end # "none" <=> InputsAreAccepted(sources, script.remote)
        /\ proc.end # "none" => proc.cmd = IF GenericSources(sources) = 1 THEN "check" ELSE "migrationCheck"
    BY <1>2, <2>1, InputTypes DEF SelectInv, Started
  <2> HIDE DEF sources
  <2>3. SourceIsSelected(sources) <=> Pairs(sources) /\ GenericSources(sources) = 1
    BY DEF SourceIsSelected, GenericSources
  <2>4. ASSUME sources \intersect ChangeInputs = {} PROVE Pairs(sources) /\ GenericSources(sources) = 0
    BY <2>4, CountSources DEF Pairs, ChangeInputs
  <2>5. ASSUME Pairs(sources), GenericSources(sources) = 0, "migration" \in sources
        PROVE  sources = {"migration"}
    BY <2>2, <2>5, CountSources DEF Pairs
  <2>6. QED
    BY <2>2, <2>3, <2>4, <2>5 DEF InputsAreAccepted, sources
<1>3. QED
  BY <1>1, <1>2, SelectNext, CliInvariant, PTL DEF Spec

-----------------------------------------------------------------------------
(* The configuration. *)

\* A step of the process keeps its configuration or takes a document it accepts.
LEMMA ConfigEffect ==
  ASSUME ProcType, ProcessStep
  PROVE  \/ proc'.document = proc.document /\ proc'.config = proc.config
         \/ /\ proc'.document \in Documents /\ ParseConfig(proc'.document)
            /\ proc'.config = normalizeConfig(proc'.document)
<1>0. DOMAIN proc = ProcFields
  BY DEF ProcType
<1>1. CASE \E code : Exit(code)
  BY <1>0, <1>1, ExitEffect
<1>2. CASE Go
  BY <1>0, <1>2 DEF Go, ProcFields
<1>3. CASE \E code : proc' = [proc EXCEPT !.end = "killed", !.code = code]
  BY <1>0, <1>3 DEF ProcFields
<1>4. CASE \E result : proc' = [proc EXCEPT !.at = @ + 1, !.result = result]
  BY <1>0, <1>4 DEF ProcFields
<1>5. CASE LoadConfig
  <2>1. ASSUME NEW doc \in Documents, ParseConfig(doc),
               proc' = [proc EXCEPT !.at = @ + 1, !.config = normalizeConfig(doc), !.document = doc]
        PROVE  /\ proc'.document \in Documents /\ ParseConfig(proc'.document)
               /\ proc'.config = normalizeConfig(proc'.document)
    <3>1. proc'.document = doc /\ proc'.config = normalizeConfig(doc)
      BY <1>0, <2>1 DEF ProcFields
    <3>2. QED
      BY <2>1, <3>1
  <2>2. QED
    BY <1>1, <1>2, <1>5, <2>1, Zenon DEF LoadConfig
<1>6. QED
  BY <1>1, <1>2, <1>3, <1>4, <1>5, Zenon DEF ProcessStep, ParseFlags, validateOutputPaths, selectChangeSource,
     selectMigration, FallibleStep, applyRemote, Analyze, Evaluate, loadSelectedMigration, validateInput,
     NoTargets, Rendering, writeOutput, Finish, Killed, GoIf

\* Every step keeps it.
LEMMA ConfigNext ==
  ASSUME CliInv, ConfigInv, [Next]_vars
  PROVE  ConfigInv'
<1>1. CASE ProcessStep
  BY <1>1, ConfigEffect DEF CliInv, ConfigInv
<1>2. CASE proc' = NotStarted
  BY <1>2 DEF ConfigInv
<1>3. CASE proc' = proc
  BY <1>3 DEF ConfigInv
<1>4. ASSUME NEW cmd, NEW sources, NEW remote, NEW out, NEW format,
             proc' = Process(cmd, sources, remote, out, format)
      PROVE  ConfigInv'
  <2>1. proc'.document = NotStarted.document
    BY <1>4 DEF Process, NotStarted
  <2>2. QED
    BY <2>1 DEF ConfigInv
<1>5. CASE SelectMode
  BY <1>3, <1>4, <1>5 DEF SelectMode
<1>6. CASE ScriptStep /\ ~SelectMode
  BY <1>3, <1>6, ScriptKeepsInputs
<1>7. CASE StartShell
  BY <1>4, <1>7, Zenon DEF StartShell
<1>8. QED
  BY <1>1, <1>2, <1>3, <1>5, <1>6, <1>7 DEF Next, StartAction, LinkOutput, vars, cliVars

\* The first element of a sequence.
LEMMA HeadIsFirst ==
  ASSUME NEW S, NEW s \in Seq(S), s # <<>>
  PROVE  1 \in DOMAIN s /\ Head(s) = s[1]
OBVIOUS

\* A list of one known format.
LEMMA OneFormat ==
  <<"console">> \in Seq({"", "bad", "unknown", "console", "json", "markdown"})
OBVIOUS

\* What an accepted document gives.
LEMMA AcceptedIsFit ==
  ASSUME NEW doc \in Documents, ParseConfig(doc)
  PROVE  LET config == normalizeConfig(doc) IN
         /\ config.formats # <<>> /\ Head(config.formats) \in OutputFormats
         /\ \A i \in DOMAIN config.sources :
              config.sources[i].required \/ doc.sources[i].required = "false"
         /\ \A a, b \in ToSet(config.traceAttributes) :
              (a.scope = b.scope /\ (a.tempo = b.tempo \/ a.opentelemetry = b.opentelemetry)) => a = b
<1> DEFINE config == normalizeConfig(doc)
<1>1. /\ validMappings(config.traceAttributes) /\ config.formats # <<>>
      /\ ToSet(config.formats) \subseteq OutputFormats
  BY DEF ParseConfig, ValidateConfig
<1>2. \A i \in DOMAIN config.sources : config.sources[i].required \/ doc.sources[i].required = "false"
  BY DEF normalizeConfig, normalizeSource, RequiredUnlessFalse
<1>3. config.formats \in Seq({"", "bad", "unknown", "console", "json", "markdown"})
  <2>1. config.formats = IF doc.formats = <<>> THEN <<"console">> ELSE doc.formats
    BY DEF normalizeConfig
  <2>2. doc.formats \in Seq({"", "bad", "unknown", "console", "json", "markdown"})
    BY DocTypes
  <2>3. CASE doc.formats = <<>>
    BY <2>1, <2>3, OneFormat, Zenon
  <2>4. CASE doc.formats # <<>>
    BY <2>1, <2>2, <2>4, Zenon
  <2>5. QED
    BY <2>3, <2>4
<1> HIDE DEF config
<1>4. Head(config.formats) \in OutputFormats
  <2>1. 1 \in DOMAIN config.formats /\ Head(config.formats) = config.formats[1]
    BY <1>1, <1>3, HeadIsFirst
  <2>2. QED
    BY <1>1, <2>1 DEF ToSet
<1>5. ASSUME NEW a \in ToSet(config.traceAttributes), NEW b \in ToSet(config.traceAttributes),
             a.scope = b.scope, a.tempo = b.tempo \/ a.opentelemetry = b.opentelemetry
      PROVE  a = b
  BY <1>1, <1>5 DEF validMappings, ToSet
<1>6. QED
  BY <1>1, <1>2, <1>4, <1>5 DEF config

\* A configuration that was accepted serves what is done with it later
\* (config.go:418-641, canonical.go:192-199).
THEOREM ConfigServes == Spec => []AcceptedConfigServes
<1>1. Init => ConfigInv
  BY DEF Init, ConfigInv
<1>2. ConfigInv => AcceptedConfigServes
  <2>1. ~NotStarted.document.decodes
    BY DEF NotStarted
  <2>2. QED
    BY <2>1, AcceptedIsFit DEF ConfigInv, AcceptedConfigServes
<1>3. QED
  BY <1>1, <1>2, ConfigNext, CliInvariant, PTL DEF Spec
-----------------------------------------------------------------------------
(* init. *)

InitFields == {"at", "index", "created", "opened", "undo", "seen", "exit"}
FileOf(p) == [path |-> p, inode |-> starter[p].inode]
MadeFiles == [path : StarterPaths, inode : Inodes \union {NoInode}]
In(files, file) == \E i \in DOMAIN files : files[i] = file

\* A file that this init made and can still take back.
Own(p) == starter[p].by = "init" /\ p \notin stuck

Creating == init.at \in {"parent", "create", "write"}
Undoing == init.at \in {"look", "remove"}

\* The shape of the process: the files it remembers are the targets in their order.
StarterType ==
  /\ DOMAIN starter = StarterPaths /\ DOMAIN init = InitFields
  /\ init.at \in {"root", "inspect", "done"} \/ Creating \/ Undoing
  /\ init.index \in 1 .. 3 /\ init.exit \in {0, 1, 99}
  /\ init.opened \in Inodes \union {NoInode}
  /\ init.created \in Seq(MadeFiles) /\ init.undo \in Seq(MadeFiles)
  /\ \A i \in DOMAIN init.created : init.created[i].path = targets[i]
  /\ init.at \in {"root", "inspect"} => Len(init.created) = 0
  /\ Creating => Len(init.created) = init.index - 1
  /\ init.exit = 0 => Len(init.created) = 3
  /\ init.at # "done" => init.exit = 99
  /\ init.at = "remove" => init.undo # <<>>

\* init remembers every file of its own, and looked right.
OwnInv ==
  \A p \in StarterPaths : Own(p) =>
    \/ init.at = "done" /\ init.exit # 1
    \/ Creating /\ In(init.created, FileOf(p))
    \/ init.at = "write" /\ p = target /\ starter[p].inode = init.opened
    \/ /\ Undoing /\ In(init.undo, FileOf(p))
       /\ init.at = "remove" /\ ~init.seen => Head(init.undo) # FileOf(p)

\* What init saw is still there unless it was replaced meanwhile.
LookInv ==
  init.at = "remove" /\ init.seen /\ Head(init.undo).path \notin raced =>
    starter[Head(init.undo).path].inode = Head(init.undo).inode

StarterInv == StarterType /\ OwnInv /\ LookInv

\* The three paths.
LEMMA Targets ==
  /\ DOMAIN targets = 1 .. 3 /\ Len(targets) = 3
  /\ \A i \in 1 .. 3 : targets[i] \in StarterPaths
<1>1. DOMAIN targets = 1 .. 3 /\ Len(targets) = 3
  BY DEF targets
<1>2. QED
  BY <1>1 DEF StarterPaths, ToSet

\* Appending keeps what was there.
LEMMA AppendKeeps ==
  ASSUME NEW S, NEW s \in Seq(S), NEW e \in S
  PROVE  /\ Append(s, e) \in Seq(S) /\ Len(Append(s, e)) = Len(s) + 1 /\ Len(s) \in Nat
         /\ DOMAIN s = 1 .. Len(s) /\ DOMAIN Append(s, e) = 1 .. Len(s) + 1
         /\ \A i \in 1 .. Len(s) + 1 : Append(s, e)[i] = IF i = Len(s) + 1 THEN e ELSE s[i]
         /\ \A f : In(s, f) => In(Append(s, e), f)
         /\ In(Append(s, e), e)
<1>1. /\ Append(s, e) \in Seq(S) /\ Len(Append(s, e)) = Len(s) + 1 /\ Len(s) \in Nat
      /\ DOMAIN s = 1 .. Len(s) /\ DOMAIN Append(s, e) = 1 .. Len(s) + 1
      /\ \A i \in 1 .. Len(s) + 1 : Append(s, e)[i] = IF i = Len(s) + 1 THEN e ELSE s[i]
  OBVIOUS
<1>2. \A i \in 1 .. Len(s) : i \in 1 .. Len(s) + 1 /\ i # Len(s) + 1
  BY <1>1
<1>3. Len(s) + 1 \in 1 .. Len(s) + 1
  BY <1>1
<1>4. QED
  BY <1>1, <1>2, <1>3, Zenon DEF In

\* Reversing loses nothing.
LEMMA ReverseKeeps ==
  ASSUME NEW S, NEW s \in Seq(S)
  PROVE  Reverse(s) \in Seq(S) /\ \A f : In(s, f) => In(Reverse(s), f)
<1>1. Len(s) \in Nat /\ DOMAIN s = 1 .. Len(s) /\ \A i \in 1 .. Len(s) : s[i] \in S
  OBVIOUS
<1>2. \A i \in 1 .. Len(s) : (Len(s) - i) + 1 \in 1 .. Len(s) /\ (Len(s) - ((Len(s) - i) + 1)) + 1 = i
  BY <1>1
<1>3. Reverse(s) \in [1 .. Len(s) -> S]
  BY <1>1, <1>2 DEF Reverse
<1>4. \A i \in 1 .. Len(s) : Reverse(s)[(Len(s) - i) + 1] = s[i]
  BY <1>1, <1>2 DEF Reverse
<1>5. Reverse(s) \in Seq(S) /\ DOMAIN Reverse(s) = 1 .. Len(s)
  BY <1>1, <1>3
<1>6. QED
  BY <1>1, <1>2, <1>4, <1>5, Zenon DEF In

\* Taking the first away loses only the first.
LEMMA TailKeeps ==
  ASSUME NEW S, NEW s \in Seq(S), s # <<>>
  PROVE  /\ Tail(s) \in Seq(S) /\ Head(s) \in S /\ 1 \in DOMAIN s /\ Head(s) = s[1]
         /\ \A f : In(s, f) /\ Head(s) # f => In(Tail(s), f)
<1>1. /\ Tail(s) \in Seq(S) /\ Head(s) \in S /\ 1 \in DOMAIN s /\ Head(s) = s[1]
      /\ Len(s) \in Nat /\ DOMAIN s = 1 .. Len(s) /\ DOMAIN Tail(s) = 1 .. Len(s) - 1
      /\ \A i \in 1 .. Len(s) - 1 : Tail(s)[i] = s[i + 1]
  OBVIOUS
<1>2. ASSUME NEW f, NEW i \in DOMAIN s, s[i] = f, Head(s) # f PROVE In(Tail(s), f)
  <2>1. i # 1
    BY <1>1, <1>2
  <2>2. i - 1 \in 1 .. Len(s) - 1 /\ (i - 1) + 1 = i
    BY <1>1, <1>2, <2>1
  <2>3. QED
    BY <1>1, <1>2, <2>2 DEF In
<1>3. QED
  BY <1>1, <1>2 DEF In

\* Nothing is in an empty sequence.
LEMMA NothingIn == ASSUME NEW S, NEW s \in Seq(S), Len(s) = 0 \/ s = <<>>, NEW f PROVE ~In(s, f)
BY DEF In

\* init starts without files of its own.
LEMMA StarterInit == ASSUME InitStarter PROVE StarterInv
<1>1. /\ starter \in [StarterPaths -> {NoFile, [by |-> "other", inode |-> CHOOSE i \in Inodes : TRUE]}]
      /\ init = [at |-> "root", index |-> 1, created |-> <<>>, opened |-> NoInode,
                 undo |-> <<>>, seen |-> FALSE, exit |-> 99]
  BY DEF InitStarter
<1>2. StarterType
  BY <1>1 DEF StarterType, InitFields, Creating, Undoing
<1>3. \A p \in StarterPaths : starter[p].by # "init"
  BY <1>1 DEF NoFile
<1>4. QED
  BY <1>1, <1>2, <1>3 DEF StarterInv, OwnInv, Own, LookInv
\* Other programs only take files away from init, and are noticed where it looked.
LEMMA OtherKeeps ==
  ASSUME StarterInv, OtherStep
  PROVE  StarterInv'
<1>1. PICK path \in StarterPaths : OtherWrites(path) \/ OtherRemoves(path)
  BY DEF OtherStep
<1>2. UNCHANGED <<init, stuck>> /\ Race(path)
  BY <1>1 DEF OtherWrites, OtherRemoves
<1>3. \E file : file.by # "init" /\ starter' = [starter EXCEPT ![path] = file]
  BY <1>1 DEF OtherWrites, OtherRemoves, NoFile
<1>4. DOMAIN starter = StarterPaths
  BY DEF StarterInv, StarterType
<1>5. /\ DOMAIN starter' = StarterPaths /\ starter'[path].by # "init"
      /\ \A p \in StarterPaths : p # path => starter'[p] = starter[p]
  BY <1>3, <1>4
<1>6. StarterType'
  BY <1>2, <1>5 DEF StarterInv, StarterType, Creating, Undoing
<1>7. OwnInv'
  <2>1. SUFFICES ASSUME NEW p \in StarterPaths, Own(p)' PROVE
           \/ init.at = "done" /\ init.exit # 1
           \/ Creating /\ In(init.created, FileOf(p)')
           \/ init.at = "write" /\ p = target /\ starter'[p].inode = init.opened
           \/ /\ Undoing /\ In(init.undo, FileOf(p)')
              /\ init.at = "remove" /\ ~init.seen => Head(init.undo) # FileOf(p)'
    BY <1>2 DEF OwnInv, Creating, Undoing, In, target
  <2>2. starter'[p] = starter[p] /\ Own(p) /\ FileOf(p)' = FileOf(p)
    BY <1>2, <1>5, <2>1 DEF Own, FileOf
  <2>3. QED
    BY <2>2 DEF StarterInv, OwnInv
<1>8. LookInv'
  <2>1. SUFFICES ASSUME init.at = "remove", init.seen, Head(init.undo).path \notin raced'
                 PROVE  starter'[Head(init.undo).path].inode = Head(init.undo).inode
    BY <1>2 DEF LookInv
  <2>2. Head(init.undo).path # path /\ Head(init.undo).path \notin raced
    BY <1>2, <2>1 DEF Race, At
  <2>3. Head(init.undo) \in MadeFiles
    BY <2>1, TailKeeps DEF StarterInv, StarterType
  <2>4. Head(init.undo).path \in StarterPaths
    BY <2>3 DEF MadeFiles
  <2>5. QED
    BY <1>5, <2>1, <2>2, <2>4 DEF StarterInv, LookInv
<1>9. QED
  BY <1>6, <1>7, <1>8 DEF StarterInv

\* What Undo sets.
LEMMA UndoEffect ==
  ASSUME StarterType, NEW files \in Seq(MadeFiles), init' = Undo(files), DOMAIN starter' = StarterPaths,
         init.at # "done"
  PROVE  /\ StarterType' /\ LookInv' /\ init'.at = "look"
         /\ \A f : In(files, f) => In(init'.undo, f)
<1>1. DOMAIN init = InitFields /\ init.exit = 99
  BY DEF StarterType
<1>2. /\ DOMAIN init' = InitFields /\ init'.at = "look" /\ init'.undo = Reverse(files)
      /\ init'.index = init.index /\ init'.created = init.created /\ init'.opened = init.opened
      /\ init'.exit = init.exit
  BY <1>1 DEF Undo, InitFields
<1>3. init'.undo \in Seq(MadeFiles) /\ \A f : In(files, f) => In(init'.undo, f)
  BY <1>2, ReverseKeeps
<1>4. StarterType'
  BY <1>1, <1>2, <1>3 DEF StarterType, Creating, Undoing
<1>5. QED
  BY <1>2, <1>3, <1>4 DEF LookInv

\* A rollback that remembers every file of init's own.
LEMMA UndoKeeps ==
  ASSUME StarterInv, NEW files \in Seq(MadeFiles), init' = Undo(files), DOMAIN starter' = StarterPaths,
         init.at # "done",
         \A p \in StarterPaths : Own(p)' => In(files, FileOf(p)')
  PROVE  StarterInv'
<1>1. /\ StarterType' /\ LookInv' /\ init'.at = "look"
      /\ \A f : In(files, f) => In(init'.undo, f)
  BY UndoEffect DEF StarterInv
<1>2. OwnInv'
  BY <1>1 DEF OwnInv, Undoing
<1>3. QED
  BY <1>1, <1>2 DEF StarterInv

\* The file under construction, remembered.
LEMMA OpenedIsMade ==
  ASSUME StarterType
  PROVE  /\ target \in StarterPaths /\ Opened \in MadeFiles /\ init.created \in Seq(MadeFiles)
         /\ Append(init.created, Opened) \in Seq(MadeFiles)
<1>1. init.index \in 1 .. 3 /\ init.opened \in Inodes \union {NoInode} /\ init.created \in Seq(MadeFiles)
  BY DEF StarterType
<1>2. target \in StarterPaths
  BY <1>1, Targets DEF target
<1>3. Opened \in MadeFiles
  BY <1>1, <1>2 DEF Opened, MadeFiles
<1>4. QED
  BY <1>1, <1>2, <1>3, AppendKeeps

\* Inspecting makes no files.
LEMMA InspectKeeps ==
  ASSUME StarterInv, InspectRoot \/ InspectTarget
  PROVE  StarterInv'
<1>1. init.at \in {"root", "inspect"} /\ UNCHANGED <<starter, stuck>>
  BY DEF InspectRoot, InspectTarget, At
<1>2. \A p \in StarterPaths : ~Own(p)
  BY <1>1 DEF StarterInv, OwnInv, Creating, Undoing
<1>3. \A p \in StarterPaths : ~Own(p)'
  BY <1>1, <1>2 DEF Own
<1>4. DOMAIN init = InitFields /\ init.index \in 1 .. 3 /\ init.exit = 99
  BY <1>1 DEF StarterInv, StarterType
<1>5. \/ init' = [init EXCEPT !.at = "inspect"]
      \/ init' = [init EXCEPT !.at = "done", !.exit = 1]
      \/ init' = [init EXCEPT !.at = "parent", !.index = 1]
      \/ init' = [init EXCEPT !.index = @ + 1] /\ init.index # 3 /\ init.at = "inspect"
  BY Targets DEF InspectRoot, InspectTarget, Goto, InitExit, At
<1>6. /\ DOMAIN init' = InitFields /\ init'.created = init.created /\ init'.undo = init.undo
      /\ init'.opened = init.opened
      /\ \/ init'.at = "inspect" /\ init'.exit = 99 /\ init'.index = init.index
         \/ init'.at = "inspect" /\ init'.exit = 99 /\ init'.index = init.index + 1 /\ init.index # 3
         \/ init'.at = "done" /\ init'.exit = 1 /\ init'.index = init.index
         \/ init'.at = "parent" /\ init'.exit = 99 /\ init'.index = 1
  <2>1. CASE init' = [init EXCEPT !.at = "inspect"]
    BY <1>4, <2>1 DEF InitFields
  <2>2. CASE init' = [init EXCEPT !.at = "done", !.exit = 1]
    BY <1>4, <2>2 DEF InitFields
  <2>3. CASE init' = [init EXCEPT !.at = "parent", !.index = 1]
    BY <1>4, <2>3 DEF InitFields
  <2>4. CASE init' = [init EXCEPT !.index = @ + 1] /\ init.index # 3 /\ init.at = "inspect"
    BY <1>4, <2>4 DEF InitFields
  <2>5. QED
    BY <1>5, <2>1, <2>2, <2>3, <2>4
<1>7. init'.index \in 1 .. 3
  BY <1>4, <1>6
<1>8. StarterType'
  BY <1>1, <1>6, <1>7 DEF StarterInv, StarterType, Creating, Undoing
<1>9. QED
  BY <1>3, <1>6, <1>8 DEF StarterInv, OwnInv, LookInv

\* Making the parent directory, and failing to create a file.
LEMMA ParentKeeps ==
  ASSUME StarterInv, ensureStarterParent \/ CreateFails
  PROVE  StarterInv'
<1>1. init.at \in {"parent", "create"} /\ UNCHANGED <<starter, stuck>>
  BY DEF ensureStarterParent, CreateFails, At
<1>2. \A p \in StarterPaths : Own(p) => In(init.created, FileOf(p))
  BY <1>1 DEF StarterInv, OwnInv, Undoing
<1>3. \A p \in StarterPaths : Own(p)' => In(init.created, FileOf(p)')
  BY <1>1, <1>2 DEF Own, FileOf, In
<1>4. CASE init' = Undo(init.created)
  BY <1>1, <1>3, <1>4, UndoKeeps DEF StarterInv, StarterType
<1>5. CASE Goto("create")
  <2>1. /\ DOMAIN init' = InitFields /\ init'.created = init.created /\ init'.undo = init.undo
        /\ init'.opened = init.opened /\ init'.exit = init.exit /\ init'.index = init.index
        /\ init'.at = "create"
    BY <1>5 DEF Goto, InitFields, StarterInv, StarterType
  <2>2. StarterType'
    BY <1>1, <2>1 DEF StarterInv, StarterType, Creating, Undoing
  <2>3. QED
    BY <1>3, <2>1, <2>2 DEF StarterInv, OwnInv, LookInv, Creating
<1>6. QED
  BY <1>4, <1>5 DEF ensureStarterParent, CreateFails

\* A file is created where none is, and remembered or given up.
LEMMA CreateKeeps ==
  ASSUME StarterInv, Create
  PROVE  StarterInv'
<1>1. PICK i \in Unused :
        /\ starter' = [starter EXCEPT ![target] = [by |-> "init", inode |-> i]]
        /\ \/ init' = [init EXCEPT !.at = "write", !.opened = i] /\ UNCHANGED stuck
           \/ init' = Undo(init.created) /\ stuck' = stuck \union {target}
  BY DEF Create
<1>2. init.at = "create" /\ DOMAIN starter = StarterPaths /\ DOMAIN init = InitFields
  BY DEF Create, At, StarterInv, StarterType
<1>3. target \in StarterPaths /\ init.created \in Seq(MadeFiles)
  BY OpenedIsMade DEF StarterInv
<1>4. /\ DOMAIN starter' = StarterPaths /\ starter'[target].inode = i
      /\ \A p \in StarterPaths : p # target => starter'[p] = starter[p]
  BY <1>1, <1>2, <1>3
<1>5. \A p \in StarterPaths : Own(p) => In(init.created, FileOf(p))
  BY <1>2 DEF StarterInv, OwnInv, Undoing
<1>6. stuck \subseteq stuck'
  BY <1>1
<1>7. ASSUME NEW p \in StarterPaths, p # target, Own(p)' PROVE In(init.created, FileOf(p)')
  <2>1. Own(p) /\ FileOf(p)' = FileOf(p)
    BY <1>4, <1>6, <1>7 DEF Own, FileOf
  <2>2. QED
    BY <1>5, <2>1
<1>8. CASE init' = Undo(init.created) /\ stuck' = stuck \union {target}
  <2>1. \A p \in StarterPaths : Own(p)' => In(init.created, FileOf(p)')
    BY <1>7, <1>8 DEF Own
  <2>2. QED
    BY <1>2, <1>3, <1>4, <1>8, <2>1, UndoKeeps
<1>9. CASE init' = [init EXCEPT !.at = "write", !.opened = i] /\ UNCHANGED stuck
  <2>1. /\ DOMAIN init' = InitFields /\ init'.created = init.created /\ init'.undo = init.undo
        /\ init'.opened = i /\ init'.exit = init.exit /\ init'.index = init.index
        /\ init'.at = "write"
    BY <1>2, <1>9 DEF InitFields
  <2>2. i \in Inodes /\ target' = target
    BY <2>1 DEF Unused, target
  <2>3. StarterType'
    BY <1>2, <1>4, <2>1, <2>2 DEF StarterInv, StarterType, Creating, Undoing
  <2>4. ASSUME NEW p \in StarterPaths, Own(p)'
        PROVE  \/ In(init'.created, FileOf(p)')
               \/ p = target' /\ starter'[p].inode = init'.opened
    BY <1>4, <1>7, <2>1, <2>2, <2>4
  <2>5. OwnInv'
    BY <2>1, <2>4 DEF OwnInv, Creating
  <2>6. QED
    BY <2>1, <2>3, <2>5 DEF StarterInv, LookInv
<1>10. QED
  BY <1>1, <1>8, <1>9

\* What was opened is remembered, whether it was written or not.
LEMMA WriteKeeps ==
  ASSUME StarterInv, WriteFails \/ Write
  PROVE  StarterInv'
<1>1. init.at = "write" /\ UNCHANGED <<starter, stuck>>
  BY DEF WriteFails, Write, At
<1>2. /\ DOMAIN starter = StarterPaths /\ DOMAIN init = InitFields /\ init.index \in 1 .. 3 /\ init.exit = 99
      /\ init.created \in Seq(MadeFiles) /\ Len(init.created) = init.index - 1
      /\ \A i \in DOMAIN init.created : init.created[i].path = targets[i]
  BY <1>1 DEF StarterInv, StarterType, Creating
<1> DEFINE files == Append(init.created, Opened)
<1>3. Opened \in MadeFiles /\ Opened.path = target /\ Opened.inode = init.opened
  BY OpenedIsMade DEF StarterInv, Opened
<1>4. /\ files \in Seq(MadeFiles) /\ Len(files) = Len(init.created) + 1
      /\ DOMAIN init.created = 1 .. Len(init.created) /\ DOMAIN files = 1 .. Len(init.created) + 1
      /\ \A i \in 1 .. Len(init.created) + 1 :
           files[i] = IF i = Len(init.created) + 1 THEN Opened ELSE init.created[i]
      /\ \A f : In(init.created, f) => In(files, f)
      /\ In(files, Opened)
  BY <1>2, <1>3, AppendKeeps
<1> HIDE DEF files
<1>5. \A p \in StarterPaths : Own(p)' => In(files, FileOf(p)')
  <2>1. SUFFICES ASSUME NEW p \in StarterPaths, Own(p) PROVE In(files, FileOf(p))
    BY <1>1 DEF Own, FileOf, In
  <2>2. CASE In(init.created, FileOf(p))
    BY <1>4, <2>2
  <2>3. CASE p = target /\ starter[p].inode = init.opened
    <3>1. FileOf(p) = Opened
      BY <2>3 DEF FileOf, Opened
    <3>2. QED
      BY <1>4, <3>1
  <2>4. QED
    BY <1>1, <2>1, <2>2, <2>3 DEF StarterInv, OwnInv, Undoing
<1>6. Len(files) = init.index /\ \A i \in DOMAIN files : files[i].path = targets[i]
  <2>1. Len(init.created) + 1 = init.index
    BY <1>2
  <2>2. \A i \in 1 .. init.index : i # init.index => i \in 1 .. init.index - 1
    BY <1>2
  <2>3. files[init.index] = Opened /\ DOMAIN files = 1 .. init.index
    BY <1>2, <1>4, <2>1
  <2>4. \A i \in 1 .. init.index - 1 : files[i] = init.created[i] /\ i \in DOMAIN init.created
    BY <1>2, <1>4, <2>1
  <2>5. QED
    BY <1>2, <1>3, <1>4, <2>1, <2>2, <2>3, <2>4, Zenon DEF target
<1>7. CASE WriteFails
  BY <1>1, <1>2, <1>4, <1>5, <1>7, UndoKeeps DEF WriteFails, files
<1>8. CASE Write
  <2>1. init' = [init EXCEPT !.created = files,
                             !.index = IF @ = 3 THEN @ ELSE @ + 1,
                             !.at = IF init.index = 3 THEN "done" ELSE "parent",
                             !.exit = IF init.index = 3 THEN 0 ELSE @]
    BY <1>8, Targets DEF Write, files
  <2>2. /\ DOMAIN init' = InitFields /\ init'.created = files /\ init'.undo = init.undo
        /\ init'.opened = init.opened
        /\ init'.index = IF init.index = 3 THEN init.index ELSE init.index + 1
        /\ init'.at = IF init.index = 3 THEN "done" ELSE "parent"
        /\ init'.exit = IF init.index = 3 THEN 0 ELSE init.exit
    BY <1>2, <2>1 DEF InitFields
  <2>3. /\ init'.index \in 1 .. 3
        /\ init.index # 3 => init.index = init'.index - 1
    BY <1>2, <2>2
  <2>4. StarterType'
    BY <1>1, <1>2, <1>4, <1>6, <2>2, <2>3 DEF StarterInv, StarterType, Creating, Undoing
  <2>5. OwnInv'
    BY <1>5, <2>2 DEF OwnInv, Creating
  <2>6. QED
    BY <2>2, <2>4, <2>5 DEF StarterInv, LookInv
<1>9. QED
  BY <1>7, <1>8

\* Looking tells init's own files from others.
LEMMA LookKeeps ==
  ASSUME StarterInv, inspectStarterFile
  PROVE  StarterInv'
<1>1. init.at = "look" /\ UNCHANGED <<starter, stuck>> /\ raced' = {}
  BY DEF inspectStarterFile, At
<1>2. DOMAIN init = InitFields /\ init.undo \in Seq(MadeFiles)
  BY DEF StarterInv, StarterType
<1>3. \A p \in StarterPaths : Own(p) => In(init.undo, FileOf(p))
  BY <1>1 DEF StarterInv, OwnInv, Creating
<1>4. \A p \in StarterPaths : (Own(p)' <=> Own(p)) /\ FileOf(p)' = FileOf(p)
  BY <1>1 DEF Own, FileOf
<1>5. CASE init.undo = <<>>
  <2>1. \A p \in StarterPaths : ~Own(p)
    BY <1>2, <1>3, <1>5, NothingIn
  <2>2. init' = [init EXCEPT !.at = "done", !.exit = 1]
    BY <1>5 DEF inspectStarterFile, InitExit
  <2>3. /\ DOMAIN init' = InitFields /\ init'.created = init.created /\ init'.undo = init.undo
        /\ init'.opened = init.opened /\ init'.exit = 1 /\ init'.index = init.index
        /\ init'.at = "done"
    BY <1>2, <2>2 DEF InitFields
  <2>4. StarterType'
    BY <1>1, <2>3 DEF StarterInv, StarterType, Creating, Undoing
  <2>5. QED
    BY <1>4, <2>1, <2>3, <2>4 DEF StarterInv, OwnInv, LookInv
<1>6. CASE init.undo # <<>>
  <2> DEFINE head == Head(init.undo)
  <2>1. init' = [init EXCEPT !.at = "remove", !.seen = SameFile(head, head.path)]
    BY <1>6 DEF inspectStarterFile
  <2>2. /\ DOMAIN init' = InitFields /\ init'.created = init.created /\ init'.undo = init.undo
        /\ init'.opened = init.opened /\ init'.exit = init.exit /\ init'.index = init.index
        /\ init'.at = "remove" /\ init'.seen = SameFile(head, head.path)
    BY <1>2, <2>1 DEF InitFields
  <2>3. StarterType'
    BY <1>1, <1>6, <2>2 DEF StarterInv, StarterType, Creating, Undoing
  <2>4. ASSUME NEW p \in StarterPaths, Own(p), ~SameFile(head, head.path) PROVE head # FileOf(p)
    <3>1. starter[p] # NoFile
      BY <2>4 DEF Own, NoFile
    <3>2. FileOf(p).path = p /\ FileOf(p).inode = starter[p].inode
      BY DEF FileOf
    <3>3. QED
      BY <2>4, <3>1, <3>2 DEF SameFile
  <2> HIDE DEF head
  <2>5. OwnInv'
    BY <1>3, <1>4, <2>2, <2>4 DEF OwnInv, Undoing, head
  <2>6. LookInv'
    BY <1>1, <2>2 DEF LookInv, SameFile, head
  <2>7. QED
    BY <2>3, <2>5, <2>6 DEF StarterInv
<1>7. QED
  BY <1>5, <1>6

\* Removing forgets a file that is gone, stuck or not init's own.
LEMMA RemoveKeeps ==
  ASSUME StarterInv, removeStarterFile
  PROVE  StarterInv'
<1> DEFINE head == Head(init.undo)
<1>1. /\ init.at = "remove" /\ init' = [init EXCEPT !.at = "look", !.undo = Tail(@)]
      /\ \/ ~init.seen /\ UNCHANGED <<starter, stuck>>
         \/ init.seen /\ starter' = [starter EXCEPT ![head.path] = NoFile] /\ UNCHANGED stuck
         \/ init.seen /\ stuck' = stuck \union {head.path} /\ UNCHANGED starter
  BY DEF removeStarterFile, At
<1>2. /\ DOMAIN init = InitFields /\ init.undo \in Seq(MadeFiles) /\ init.undo # <<>>
      /\ DOMAIN starter = StarterPaths
  BY <1>1 DEF StarterInv, StarterType
<1>3. /\ Tail(init.undo) \in Seq(MadeFiles) /\ head \in MadeFiles
      /\ \A f : In(init.undo, f) /\ head # f => In(Tail(init.undo), f)
  BY <1>2, TailKeeps
<1>4. /\ DOMAIN init' = InitFields /\ init'.created = init.created /\ init'.undo = Tail(init.undo)
      /\ init'.opened = init.opened /\ init'.exit = init.exit /\ init'.index = init.index
      /\ init'.at = "look"
  BY <1>1, <1>2 DEF InitFields
<1>5. DOMAIN starter' = StarterPaths /\ head.path \in StarterPaths
  BY <1>1, <1>2, <1>3 DEF MadeFiles
<1>6. StarterType'
  BY <1>1, <1>3, <1>4, <1>5 DEF StarterInv, StarterType, Creating, Undoing
<1>7. ASSUME NEW p \in StarterPaths, Own(p)' PROVE In(init'.undo, FileOf(p)')
  <2>1. Own(p) /\ starter'[p] = starter[p] /\ (init.seen => p # head.path)
    BY <1>1, <1>2, <1>5, <1>7 DEF Own, NoFile
  <2>2. In(init.undo, FileOf(p)) /\ (~init.seen => head # FileOf(p))
    BY <1>1, <2>1 DEF StarterInv, OwnInv, Creating
  <2>3. FileOf(p).path = p /\ FileOf(p)' = FileOf(p)
    BY <2>1 DEF FileOf
  <2>4. QED
    BY <1>3, <1>4, <2>1, <2>2, <2>3
<1>8. QED
  BY <1>4, <1>6, <1>7 DEF StarterInv, OwnInv, LookInv, Undoing

\* Every step of init and of the others keeps the invariant.
LEMMA StarterNext ==
  ASSUME StarterInv, NextStarter
  PROVE  StarterInv'
BY InspectKeeps, ParentKeeps, CreateKeeps, WriteKeeps, LookKeeps, RemoveKeeps, OtherKeeps, Zenon
DEF NextStarter, InitStep

\* The other commands and the script leave the starter files alone.
LEMMA OthersLeaveStarter ==
  ASSUME [Next]_vars
  PROVE  NextStarter \/ UNCHANGED starterVars
<1>1. ProcessStep => UNCHANGED starterVars
  BY Zenon DEF ProcessStep, ParseFlags, validateOutputPaths, selectChangeSource, selectMigration, FallibleStep,
     LoadConfig, applyRemote, Analyze, Evaluate, loadSelectedMigration, validateInput, NoTargets, Rendering,
     writeOutput, Finish, Killed, OnlyProc
<1>2. ScriptStep => UNCHANGED starterVars
  BY Zenon DEF ScriptStep, SelectMode, ProcessEnded, Judge, CompareExit, WriteErrorArtifact, Publish,
     ScriptAborts, OnlyScript
<1>3. StartAction \/ StartShell \/ LinkOutput => UNCHANGED starterVars
  BY Zenon DEF StartAction, StartShell, LinkOutput
<1>4. QED
  BY <1>1, <1>2, <1>3, Zenon DEF Next, vars

\* The invariant of init holds throughout.
THEOREM StarterInvariant == Spec => []StarterInv
<1>1. Init => StarterInv
  BY StarterInit DEF Init
<1>2. StarterInv /\ [Next]_vars => StarterInv'
  <2>1. SUFFICES ASSUME StarterInv, [Next]_vars PROVE StarterInv'
    OBVIOUS
  <2>2. CASE NextStarter
    BY <2>1, <2>2, StarterNext
  <2>3. CASE UNCHANGED starterVars
    BY <2>1, <2>3 DEF starterVars, StarterInv, StarterType, OwnInv, LookInv, Creating, Undoing, Own, FileOf,
       In, target
  <2>4. QED
    BY <2>1, <2>2, <2>3, OthersLeaveStarter
<1>3. QED
  BY <1>1, <1>2, PTL DEF Spec

\* init announces success only with all three files made, and after a failure leaves
\* none of its files behind unless removing one failed (init.go:97-111).
THEOREM InitIsAllOrNothing == Spec => []InitAllOrNothing
<1>1. ASSUME StarterInv PROVE InitAllOrNothing
  <2>1. ASSUME init.exit = 0
        PROVE  [i \in DOMAIN init.created |-> init.created[i].path] = targets
    <3>1. /\ init.created \in Seq(MadeFiles) /\ Len(init.created) = 3
          /\ \A i \in DOMAIN init.created : init.created[i].path = targets[i]
      BY <1>1, <2>1 DEF StarterInv, StarterType
    <3>2. DOMAIN init.created = 1 .. 3
      BY <3>1
    <3>3. [i \in DOMAIN init.created |-> init.created[i].path] = [i \in 1 .. 3 |-> targets[i]]
      BY <3>1, <3>2
    <3>4. [i \in 1 .. 3 |-> targets[i]] = targets
      BY DEF targets
    <3>5. QED
      BY <3>3, <3>4
  <2>2. ASSUME init.exit = 1, NEW p \in StarterPaths, starter[p].by = "init" PROVE p \in stuck
    <3>1. init.at = "done"
      BY <1>1, <2>2 DEF StarterInv, StarterType
    <3>2. QED
      BY <1>1, <2>2, <3>1 DEF StarterInv, OwnInv, Own, Creating, Undoing
  <2>3. QED
    BY <2>1, <2>2 DEF InitAllOrNothing
<1>2. QED
  BY <1>1, StarterInvariant, PTL

\* init changes no file of somebody else unless it was replaced between the look and
\* the removal or got the same inode (init.go:172-177).
THEOREM InitSparesOthers == Spec => InitKeepsOthers
<1> DEFINE Spares == InitStep =>
             \A p \in StarterPaths :
               (starter[p].by = "other" /\ starter'[p] # starter[p]) =>
                 p \in raced \/ starter[p].inode \in OwnInodes
<1>1. ASSUME StarterInv, InitStep PROVE Spares
  <2>1. SUFFICES ASSUME NEW p \in StarterPaths, starter[p].by = "other", starter'[p] # starter[p]
                 PROVE  p \in raced \/ starter[p].inode \in OwnInodes
    OBVIOUS
  <2>2. DOMAIN starter = StarterPaths
    BY <1>1 DEF StarterInv, StarterType
  <2>3. CASE UNCHANGED starter
    BY <2>1, <2>3
  <2>4. CASE Create
    BY <2>1, <2>2, <2>4 DEF Create, NoFile
  <2>5. CASE removeStarterFile
    <3>1. /\ init.at = "remove" /\ init.seen
          /\ starter' = [starter EXCEPT ![Head(init.undo).path] = NoFile]
      BY <2>1, <2>5 DEF removeStarterFile, At
    <3>2. p = Head(init.undo).path
      BY <2>1, <2>2, <3>1
    <3>3. 1 \in DOMAIN init.undo /\ Head(init.undo) = init.undo[1]
      BY <1>1, <3>1, TailKeeps DEF StarterInv, StarterType
    <3>4. p \notin raced => starter[p].inode = init.undo[1].inode
      BY <1>1, <3>1, <3>2, <3>3 DEF StarterInv, LookInv
    <3>5. QED
      BY <3>3, <3>4 DEF OwnInodes
  <2>6. QED
    BY <1>1, <2>3, <2>4, <2>5, Zenon DEF InitStep, InspectRoot, InspectTarget, ensureStarterParent, CreateFails,
       WriteFails, Write, inspectStarterFile
<1>2. StarterInv /\ [Next]_vars => [Spares]_starterVars
  BY <1>1
<1>3. QED
  BY <1>2, StarterInvariant, PTL DEF Spec, InitKeepsOthers
=============================================================================
