----------------------------- MODULE CommandLine -----------------------------
(***************************************************************************)
(* The telemetry-change-guard process (internal/cli) and the two things    *)
(* that start it: a shell, and the GitHub Action's script                  *)
(* (action/run-action.sh), which decides from the process's exit code and  *)
(* from the files it left whether the workflow passes.                     *)
(*                                                                         *)
(* One job starts several processes one after the other in the same        *)
(* directory: files of an earlier invocation are still there.  A process   *)
(* may be killed, or panic, at any step.  A command is the sequence of its *)
(* steps; every step may end the process.                                  *)
(*                                                                         *)
(* "init" shares nothing with the other commands: it is StarterFiles, and  *)
(* a job either runs init or the others.                                   *)
(***************************************************************************)
EXTENDS StarterFiles, Configuration, FiniteSets

CONSTANTS
  MaxRuns,        \* bound: invocations of the Action in one job
  MaxShellRuns,   \* bound: commands of one shell
  SourceInputs,   \* the sets of change inputs an invocation may be given
  RemoteInputs,   \* records [mode, origins, loopback]
  OutputInputs,   \* functions from outputs to paths, "" for none
  Documents       \* what the configuration file may hold

ASSUME RunsAssumption == MaxRuns \in Nat \ {0} /\ MaxShellRuns \in 0 .. MaxRuns

\* There are no other change inputs, three outputs need no more than three paths,
\* and a document's lists are lists.
ASSUME InputsAssumption ==
  /\ SourceInputs \subseteq SUBSET {"changes", "weaver-diff", "weaver-mapping", "baseline",
                                    "candidate", "migration"}
  /\ OutputInputs \subseteq [{"report", "json", "status"} -> {"", "report", "json", "status"}]
  /\ \A doc \in Documents :
       /\ doc.decodes \in BOOLEAN
       /\ doc.formats \in Seq({"", "bad", "unknown", "console", "json", "markdown"})

VARIABLES
  launcher,   \* "action", "shell" or "init"
  run,        \* number of the current invocation
  disk,       \* path -> what the output file holds
  proc,       \* the process
  script,     \* the Action's script
  links       \* output paths another program turned into symbolic links

cliVars == <<launcher, run, disk, proc, script, links>>
vars == <<cliVars, starterVars>>

Outputs == {"report", "json", "status"}
Schemas == {"tcg-result", "tmr-result", "tcg-action-error", "other"}
NoContent == [run |-> 0, schema |-> "other", status |-> "none"]

Safety == {"PASS", "WARN", "BLOCK", "INCOMPLETE", "ERROR"}
Readiness == {"READY", "BLOCKED", "INCOMPLETE"}
Coverage == {"complete", "incomplete"}     \* do required diagnostics remain?

-----------------------------------------------------------------------------
(* The commands: the steps of each, in the order of the code. *)

\* A defect to detect: the status is written before the companion report.
StatusBeforeJSON ==
  <<"flags", "outputs", "rollout", "source", "prepare", "source", "config", "remote",
    "detect", "analyze", "render", "report", "status", "json">>

runCheck ==
  <<"flags", "outputs", "rollout", "source", "prepare", "source", "config", "remote",
    "detect", "analyze", "render", "report", "json", "status">>

runMigrationCheck ==
  <<"flags", "outputs", "plan", "prepare", "config", "remote",
    "migration", "run", "render", "report", "json", "status">>

runMigrationAdvise ==
  <<"flags", "timeout", "plan", "prepare", "config", "remote",
    "migration", "run", "request", "provider", "print">>

runMigrationRemediate ==
  <<"flags", "timeout", "plan", "prepare", "config", "remote",
    "migration", "run", "request", "targets", "provider", "candidates", "print">>

runGraphCommand ==
  <<"flags", "format", "prepare", "config", "remote", "discover", "render", "report">>

runSymbolImpact == <<"flags", "prepare", "config", "remote", "discover", "print">>

runSnapshotCommand == <<"flags", "limits", "token", "collect", "render", "report">>

runDiffCommand == <<"flags", "outputs", "prepare", "compare", "render", "report", "json">>

runCanonicalValidate == <<"flags", "inputs", "prepare", "input", "config">>

runMigrationValidate == <<"flags", "inputs", "prepare", "migration", "config">>

Steps == [check              |-> runCheck,
          migrationCheck     |-> runMigrationCheck,
          advise             |-> runMigrationAdvise,
          remediate          |-> runMigrationRemediate,
          graph              |-> runGraphCommand,
          compatibleGraph    |-> runGraphCommand,
          impact             |-> runSymbolImpact,
          explain            |-> runSymbolImpact,
          snapshot           |-> runSnapshotCommand,
          diff               |-> runDiffCommand,
          validate           |-> runCanonicalValidate,
          migrationValidate  |-> runMigrationValidate]

Commands == DOMAIN Steps

\* Commands whose result may be short of evidence they require.
RequireComplete == {"graph", "impact", "diff"}
Migration == {"migrationCheck", "advise", "remediate"}

ResultsOf(cmd) == CASE cmd = "check"      -> Safety
                    [] cmd \in Migration  -> Readiness
                    [] OTHER              -> Coverage

ExitCode(status) == CASE status \in {"PASS", "WARN"} -> 0
                      [] status = "BLOCK"            -> 2
                      [] status = "INCOMPLETE"       -> 3
                      [] OTHER                       -> 1

ReadinessExitCode(status) == CASE status = "READY"      -> 0
                               [] status = "BLOCKED"    -> 2
                               [] status = "INCOMPLETE" -> 3
                               [] OTHER                 -> 1

FinalCode(cmd, result) ==
  CASE cmd = "check"                                        -> ExitCode(result)
    [] cmd \in Migration                                    -> ReadinessExitCode(result)
    [] cmd \in RequireComplete /\ result = "incomplete"     -> 3
    [] OTHER                                                -> 0

-----------------------------------------------------------------------------
(* The process. *)

NotStarted == [cmd |-> "check", at |-> 0, end |-> "none", code |-> 0, sources |-> {},
               remote |-> [mode |-> "disabled", origins |-> "none", loopback |-> FALSE],
               out |-> [o \in Outputs |-> ""], format |-> "unset",
               document |-> [decodes |-> FALSE], config |-> [formats |-> <<>>], result |-> "none"]

Process(cmd, sources, remote, out, format) ==
  [NotStarted EXCEPT !.cmd = cmd, !.at = 1, !.end = "running", !.sources = sources,
                     !.remote = remote, !.out = out, !.format = format]

Running == proc.end = "running"
Step == IF proc.at \in DOMAIN Steps[proc.cmd] THEN Steps[proc.cmd][proc.at] ELSE "end"
Doing(step) == Running /\ Step = step

Exit(code) == proc' = [proc EXCEPT !.end = "exit", !.code = code]
Go == proc' = [proc EXCEPT !.at = @ + 1]
GoIf(condition) == IF condition THEN Go ELSE Exit(1)
OnlyProc == UNCHANGED <<launcher, run, disk, script, links, starterVars>>

\* flags.Parse and the test for the flags a command cannot do without; the
\* script never asks for help.
ParseFlags ==
  /\ Doing("flags")
  /\ Go \/ Exit(1) \/ (launcher = "shell" /\ Exit(0))
  /\ OnlyProc

\* Every requested output is a path of its own and no symbolic link.
OutputsAreDistinct(out) ==
  \A o, p \in Outputs : (o # p /\ out[o] # "") => out[o] # out[p]

validateOutputPaths ==
  /\ Doing("outputs")
  /\ \/ GoIf(OutputsAreDistinct(proc.out) /\ \A o \in Outputs : proc.out[o] \notin links)
     \/ Exit(1)
  /\ OnlyProc

ChangeInputs == {"changes", "weaver-diff", "weaver-mapping", "baseline", "candidate"}
Pairs(sources) ==
  /\ "weaver-diff" \in sources <=> "weaver-mapping" \in sources
  /\ "baseline" \in sources <=> "candidate" \in sources

\* selectChangeSource: exactly one of the three ways to name a change.
SourceIsSelected(sources) ==
  /\ Pairs(sources)
  /\ Cardinality(sources \cap {"changes", "weaver-diff", "baseline"}) = 1

selectChangeSource ==
  /\ Doing("source")
  /\ \/ GoIf(SourceIsSelected(proc.sources))
     \/ launcher = "shell" /\ "baseline" \notin proc.sources /\ Exit(1)   \* --change-set-name
  /\ OnlyProc

\* The migration commands take a plan or both halves of a Weaver import.
selectMigration ==
  /\ Doing("plan")
  /\ GoIf(IF "migration" \in proc.sources
          THEN proc.sources \cap {"weaver-diff", "weaver-mapping"} = {}
          ELSE {"weaver-diff", "weaver-mapping"} \subseteq proc.sources)
  /\ OnlyProc

\* Steps with no other outcome than going on or an error and exit 1: the
\* rollout mode, limits, the token, registering the inputs under the
\* repository root, loading, discovery, rendering, an AI provider.
Fallible == {"rollout", "timeout", "format", "limits", "token", "inputs", "prepare",
             "detect", "collect", "request", "provider", "candidates", "print"}

FallibleStep ==
  /\ \E step \in Fallible : Doing(step)
  /\ Go \/ Exit(1)
  /\ OnlyProc

LoadConfig ==
  /\ Doing("config")
  /\ \/ Exit(1)                                        \* unreadable, or out of time
     \/ proc.cmd \in {"validate", "migrationValidate"} /\ Go      \* no --config
     \/ \E doc \in Documents :
          IF ParseConfig(doc)
          THEN proc' = [proc EXCEPT !.at = @ + 1, !.config = normalizeConfig(doc), !.document = doc]
          ELSE Exit(1)
  /\ OnlyProc

\* remoteEvidenceFlags.apply.
RemoteIsConsistent(remote) ==
  /\ remote.mode \in {"enabled", "disabled"}
  /\ remote.mode = "disabled" => remote.origins \in {"none", "blank"} /\ ~remote.loopback
  /\ remote.mode = "enabled" => remote.origins = "good"

applyRemote ==
  /\ Doing("remote")
  /\ GoIf(RemoteIsConsistent(proc.remote))
  /\ OnlyProc

\* Results that carry a decision, or tell whether required evidence is missing.
\* check keeps what a failed analysis returned; the others stop.
Analyze ==
  /\ Doing("analyze")
  /\ \E result \in Safety : proc' = [proc EXCEPT !.at = @ + 1, !.result = result]
  /\ OnlyProc

Evaluate ==
  /\ Doing("run") \/ Doing("discover") \/ Doing("compare")
  /\ \/ Exit(1)
     \/ \E result \in ResultsOf(proc.cmd) :
          proc' = [proc EXCEPT !.at = @ + 1, !.result = result]
  /\ OnlyProc

\* A Weaver import that is not fully mapped is incomplete, not an error.
loadSelectedMigration ==
  /\ Doing("migration")
  /\ Go \/ Exit(1) \/ ("weaver-diff" \in proc.sources /\ Exit(3))
  /\ OnlyProc

validateInput ==
  /\ Doing("input")
  /\ Go \/ Exit(1) \/ ("weaver-diff" \in proc.sources /\ Exit(3))
  /\ OnlyProc

\* Nothing can be patched: the status is the answer.
NoTargets ==
  /\ Doing("targets")
  /\ Go \/ Exit(ReadinessExitCode(proc.result))
  /\ OnlyProc

\* configuration.Output.Formats[0] of an empty list is a panic, whose exit
\* code is the one of BLOCK.
Rendering ==
  /\ Doing("render")
  /\ \/ Exit(1)
     \/ IF proc.cmd \in {"check", "migrationCheck"} /\ proc.format = "unset" /\ proc.config.formats = <<>>
        THEN proc' = [proc EXCEPT !.end = "killed", !.code = 2]
        ELSE Go
  /\ OnlyProc

Content == [run    |-> run,
            schema |-> CASE proc.cmd = "check"          -> "tcg-result"
                         [] proc.cmd = "migrationCheck" -> "tmr-result"
                         [] OTHER                       -> "other",
            status |-> proc.result]

\* A defect to detect: a failed companion file does not fail the command.
writeOutputOrGoOn(output) ==
  LET path == proc.out[output]
  IN  /\ Doing(output)
      /\ Go
      /\ \/ UNCHANGED disk
         \/ path # "" /\ path \notin links /\ disk' = [disk EXCEPT ![path] = Content]
      /\ UNCHANGED <<launcher, run, script, links, starterVars>>

\* writeOutput and writeFileAtomic: the whole new content takes the place of
\* the old one by a rename, or the old one stays.
writeOutput(output) ==
  LET path == proc.out[output]
  IN  /\ Doing(output)
      /\ \/ (path # "" \/ output = "report") /\ Exit(1) /\ UNCHANGED disk
         \/ path = "" /\ Go /\ UNCHANGED disk
         \/ path # "" /\ path \notin links /\ Go /\ disk' = [disk EXCEPT ![path] = Content]
      /\ UNCHANGED <<launcher, run, script, links, starterVars>>

Finish ==
  /\ Doing("end")
  /\ Exit(FinalCode(proc.cmd, proc.result))
  /\ OnlyProc

\* A signal (128 plus its number) or a panic (2), at any moment.
Killed ==
  /\ Running
  /\ \E code \in {2, 137} : proc' = [proc EXCEPT !.end = "killed", !.code = code]
  /\ OnlyProc

ProcessStep == \/ ParseFlags \/ validateOutputPaths \/ selectChangeSource \/ selectMigration
               \/ FallibleStep \/ LoadConfig \/ applyRemote \/ Analyze \/ Evaluate
               \/ loadSelectedMigration \/ validateInput \/ NoTargets \/ Rendering
               \/ (\E output \in Outputs : writeOutput(output)) \/ Finish \/ Killed

-----------------------------------------------------------------------------
(* The script of the Action. *)

Idle == [at |-> "idle", mode |-> "invalid", code |-> 1, status |-> "none",
         todo |-> <<>>, next |-> "none", published |-> FALSE, sources |-> {}, remote |-> NotStarted.remote]

ScriptAt(label) == launcher = "action" /\ script.at = label
OnlyScript == UNCHANGED <<launcher, run, disk, proc, links, starterVars>>

\* write_error_artifacts, three files one after the other, then go on.
WriteErrors(s, next) == [s EXCEPT !.at = "errors", !.todo = <<"report", "json", "status">>, !.next = next]

RemoteInputsAgree(remote) ==
  /\ remote.mode \in {"enabled", "disabled"}
  /\ remote.mode = "disabled" => remote.origins = "none" /\ ~remote.loopback
  /\ remote.mode = "enabled" => remote.origins # "none"

GenericSources(sources) ==
  Cardinality(sources \cap {"changes", "weaver-diff", "baseline"})

\* A defect to detect: half a pair counts as no source at all.
HalfPairsAreIgnored(sources, remote) ==
  /\ RemoteInputsAgree(remote)
  /\ ("migration" \in sources) # (GenericSources(sources) = 1)

InputsAreAccepted(sources, remote) ==
  /\ RemoteInputsAgree(remote)
  /\ Pairs(sources)
  /\ IF "migration" \in sources THEN GenericSources(sources) = 0 ELSE GenericSources(sources) = 1

ActionOutputs == [o \in Outputs |-> o]

SelectMode ==
  /\ ScriptAt("select")
  /\ IF InputsAreAccepted(script.sources, script.remote)
     THEN LET generic == GenericSources(script.sources) = 1
          IN  /\ script' = [script EXCEPT !.at = "wait", !.mode = IF generic THEN "generic" ELSE "migration"]
              /\ proc' = Process(IF generic THEN "check" ELSE "migrationCheck",
                                 script.sources, script.remote, ActionOutputs, "markdown")
     ELSE script' = WriteErrors(script, "judge") /\ UNCHANGED proc
  /\ UNCHANGED <<launcher, run, disk, links, starterVars>>

ProcessEnded ==
  /\ ScriptAt("wait")
  /\ proc.end \in {"exit", "killed"}
  /\ script' = LET ended == [script EXCEPT !.code = proc.code, !.at = "judge"]
               IN  IF \E o \in Outputs : disk[o] = NoContent
                   THEN WriteErrors([ended EXCEPT !.code = 1], "judge")
                   ELSE ended
  /\ OnlyScript

Recognised(mode, schema, status) ==
  \/ mode = "generic"   /\ schema = "tcg-result"       /\ status \in Safety
  \/ mode = "migration" /\ schema = "tmr-result"       /\ status \in Readiness \cup {"ERROR"}
  \/ mode = "invalid"   /\ schema = "tcg-action-error" /\ status = "ERROR"

FailClosed(next) == WriteErrors([script EXCEPT !.status = "ERROR", !.code = 1], next)

Judge ==
  /\ ScriptAt("judge")
  /\ LET status == disk["status"].status
     IN  script' = IF Recognised(script.mode, disk["json"].schema, status)
                   THEN [script EXCEPT !.status = status, !.at = "compare"]
                   ELSE FailClosed("compare")
  /\ OnlyScript

\* A defect to detect: a warning is expected to fail the process.
WarningsFail(status) == CASE status \in {"PASS", "READY"}              -> 0
                          [] status \in {"WARN", "BLOCK", "BLOCKED"}   -> 2
                          [] status = "INCOMPLETE"                     -> 3
                          [] OTHER                                     -> 1

ExpectedExit(status) == CASE status \in {"PASS", "WARN", "READY"} -> 0
                          [] status \in {"BLOCK", "BLOCKED"}      -> 2
                          [] status = "INCOMPLETE"                -> 3
                          [] OTHER                                -> 1

\* A defect to detect: the status file is believed without the exit code.
BelieveStatus ==
  /\ ScriptAt("compare")
  /\ script' = [script EXCEPT !.at = "publish", !.code = ExpectedExit(script.status)]
  /\ OnlyScript

\* The process's answer and the file's must be the same.
CompareExit ==
  /\ ScriptAt("compare")
  /\ script' = IF script.code = ExpectedExit(script.status)
               THEN [script EXCEPT !.at = "publish"]
               ELSE FailClosed("publish")
  /\ OnlyScript

WriteErrorArtifact ==
  /\ ScriptAt("errors")
  /\ LET output == Head(script.todo)
     IN  /\ disk' = [disk EXCEPT ![output] = [run |-> run, schema |-> "tcg-action-error", status |-> "ERROR"]]
         /\ script' = [script EXCEPT !.todo = Tail(@),
                                     !.at = IF Len(script.todo) = 1 THEN script.next ELSE @]
  /\ UNCHANGED <<launcher, run, proc, links, starterVars>>

\* GITHUB_OUTPUT is written: the enforcing step of action.yml sees the code.
Publish ==
  /\ ScriptAt("publish")
  /\ script' = [script EXCEPT !.at = "done", !.published = TRUE]
  /\ OnlyScript

\* set -e: a file of the script's own cannot be written; it may be left empty.
ScriptAborts ==
  /\ ScriptAt("errors") \/ ScriptAt("publish")
  /\ script' = [script EXCEPT !.at = "done"]
  /\ \/ UNCHANGED disk
     \/ ScriptAt("errors") /\ disk' = [disk EXCEPT ![Head(script.todo)] = NoContent]
  /\ UNCHANGED <<launcher, run, proc, links, starterVars>>

ScriptStep == \/ SelectMode \/ ProcessEnded \/ Judge \/ CompareExit
              \/ WriteErrorArtifact \/ Publish \/ ScriptAborts

\* exit "${TCG_EXIT_CODE:-1}".
EnforcedExit == IF script.published THEN script.code ELSE 1

-----------------------------------------------------------------------------
(* The job. *)

Ended == \/ launcher = "action" /\ script.at \in {"idle", "done"}
         \/ launcher = "shell" /\ proc.end # "running"

StartAction ==
  /\ launcher = "action" /\ Ended /\ run < MaxRuns
  /\ run' = run + 1
  /\ \E sources \in SourceInputs, remote \in RemoteInputs :
       script' = [Idle EXCEPT !.at = "select", !.sources = sources, !.remote = remote]
  /\ proc' = NotStarted
  /\ UNCHANGED <<launcher, disk, links, starterVars>>

\* A command has a flag for each output it writes.
OutputFlags(cmd, out) == [o \in Outputs |-> IF o \in ToSet(Steps[cmd]) THEN out[o] ELSE ""]

StartShell ==
  /\ launcher = "shell" /\ Ended /\ run < MaxShellRuns
  /\ run' = run + 1
  /\ \E cmd \in Commands, sources \in SourceInputs, out \in OutputInputs, format \in {"unset", "json"} :
       proc' = Process(cmd, sources, NotStarted.remote, OutputFlags(cmd, out), format)
  /\ UNCHANGED <<launcher, disk, script, links, starterVars>>

\* Another program turns an output into a symbolic link.
LinkOutput ==
  /\ launcher = "shell" /\ Running
  /\ \E path \in Outputs \ links : links' = links \cup {path}
  /\ Cardinality(links) = 0
  /\ UNCHANGED <<launcher, run, disk, proc, script, starterVars>>

Init ==
  /\ launcher \in {"action", "shell", "init"}
  /\ run = 0
  /\ disk = [o \in Outputs |-> NoContent]
  /\ proc = NotStarted
  /\ script = Idle
  /\ links = {}
  /\ InitStarter
  /\ launcher # "init" => \A p \in StarterPaths : starter[p] = NoFile

Next ==
  \/ launcher # "init" /\ (ProcessStep \/ ScriptStep \/ StartAction \/ StartShell \/ LinkOutput)
  \/ launcher = "init" /\ NextStarter /\ UNCHANGED cliVars

Spec == Init /\ [][Next]_vars

-----------------------------------------------------------------------------
(* Properties. *)

ReachedTheEnd == proc.end = "exit" /\ Step = "end"
Fresh(path) == disk[path] = Content

\* The workflow passes only on a verdict of this very invocation: the process
\* came to its end with exit code 0 and the three files are the ones it
\* wrote, although files of an earlier invocation may be lying there
\* (run-action.sh:104-149).
PassIsFresh ==
  (launcher = "action" /\ script.at = "done" /\ EnforcedExit = 0) =>
    /\ ReachedTheEnd /\ proc.code = 0
    /\ \A o \in Outputs : Fresh(o)
    /\ script.status = proc.result /\ proc.result \in {"PASS", "WARN", "READY"}

\* What the process decided is what the Action publishes, status and exit
\* code: the script's consistency tests never turn a complete run's verdict
\* into another one.
DecisionSurvives ==
  (launcher = "action" /\ script.at = "done" /\ script.published /\ ReachedTheEnd) =>
    script.status = proc.result /\ script.code = proc.code

\* The script starts the process only with inputs its own flag checks accept,
\* and refuses none that they would accept (run-action.sh:46-70 against
\* canonical.go:232-275 and commands.go:75-82).
ScriptAgreesWithCommand ==
  (launcher = "action" /\ script.at \notin {"idle", "select"}) =>
    IF proc.end = "none"
    THEN \/ ~RemoteInputsAgree(script.remote)
         \/ "migration" \notin script.sources /\ ~SourceIsSelected(script.sources)
         \/ "migration" \in script.sources /\ script.sources \cap ChangeInputs # {}
    ELSE IF proc.cmd = "check"
         THEN SourceIsSelected(script.sources) /\ "migration" \notin script.sources
         ELSE script.sources = {"migration"}

\* Nobody but the process has written to its outputs since it started.
ProcessOwnsOutputs == launcher = "shell" \/ ScriptAt("wait")

\* The outputs are replaced one by one, the status last: a status file of
\* this invocation means that every other requested output is of this
\* invocation too, whatever fails or dies in between (canonical.go:210-224,
\* commands.go:134-150).
StatusIsLast ==
  LET status == proc.out["status"]
  IN  (ProcessOwnsOutputs /\ proc.end # "none" /\ status # "" /\ disk[status].run = run) =>
        \A o \in Outputs : proc.out[o] # "" => Fresh(proc.out[o])

\* An exit code that is a verdict is backed by the files: unless the user
\* asked for help, or a Weaver import was incomplete before any analysis,
\* an exit of a check with another code than 1 leaves every requested
\* output, and its status is the one the code stands for.
ExitIsBacked ==
  (/\ ProcessOwnsOutputs
   /\ proc.cmd \in {"check", "migrationCheck"}
   /\ proc.end = "exit" /\ proc.code # 1
   /\ Step \notin {"flags", "migration"}) =>
    /\ \A o \in Outputs : proc.out[o] # "" => Fresh(proc.out[o])
    /\ proc.code = FinalCode(proc.cmd, proc.result)

\* A configuration that was accepted serves what is done with it later: the
\* report has a format the renderer knows, an evidence source is optional
\* only if the document says so, and a trace attribute has one counterpart
\* (config.go:418-641, canonical.go:192-199).
AcceptedConfigServes ==
  proc.document.decodes =>
    /\ proc.config.formats # <<>> /\ Head(proc.config.formats) \in OutputFormats
    /\ \A i \in DOMAIN proc.config.sources :
         proc.config.sources[i].required \/ proc.document.sources[i].required = "false"
    /\ \A a, b \in ToSet(proc.config.traceAttributes) :
         (a.scope = b.scope /\ (a.tempo = b.tempo \/ a.opentelemetry = b.opentelemetry)) => a = b
=============================================================================
