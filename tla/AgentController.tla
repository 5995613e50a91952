--------------------------- MODULE AgentController ---------------------------
(***************************************************************************)
(* Controller.Run of experiments/agentic: an untrusted agent edits a       *)
(* workspace in a container, the guard judges the edited tree, and only a  *)
(* BLOCK is handed back for another attempt.                               *)
(*                                                                         *)
(* A step is what lies between two looks at something that can change      *)
(* under the controller: the control files on the host, the private copies *)
(* of them that the guard reads, the agent's workspace, the deadline.      *)
(* What a process, Git or the file system answers is a choice made at the  *)
(* call.  A workspace has the part that Git reports and the part that      *)
(* .gitignore hides; a tree, like the contents of the control files, is    *)
(* its identity.                                                           *)
(***************************************************************************)
EXTENDS Naturals

CONSTANTS
  MaxAttempts,   \* task.MaxAttempts
  Tree,          \* contents of one part of the workspace
  Checkout,      \* the contents that createWorktree checks out
  Control,       \* contents of the control files
  ControlSteps,  \* the edits <<from, to>> that somebody on the host may make
  Absent         \* what is not there

ASSUME AgentAssumption ==
  /\ MaxAttempts \in Nat \ {0}
  /\ Checkout \in Tree
  /\ Control \subseteq Nat
  /\ ControlSteps \subseteq Control \X Control
  /\ Absent \notin Control /\ Absent \notin Tree
  /\ Absent \notin [visible : Tree, ignored : Tree]

Verdict == {"PASS", "WARN", "BLOCK", "INCOMPLETE", "ERROR", "unsupported"}
Outcome == {"REVIEW_READY", "BLOCKED", "INCOMPLETE", "AGENT_FAILURE", "INTEGRITY_FAILURE", "ERROR"}

NoEvaluation ==
  [status |-> "none", json |-> "none", exit |-> 0, workspace |-> Absent, controls |-> Absent]

VARIABLES
  pc,
  controls,      \* contents of the control files
  established,   \* controlDigests
  expired,       \* totalContext is done
  tree,          \* the temporary worktree: none, open, removed or leaked
  workspace,     \* [visible, ignored]
  attempt,       \* attemptNumber
  diff,          \* the review diff of this attempt: the contents it shows
  private,       \* contents of the private copies, or Absent without their directory
  copied,        \* the digests taken of the private copies
  evaluation,    \* of this attempt, with what TCG was given
  evaluationErr, privateFailed,
  recorded,      \* number of entries of result.Attempts
  finalDiff,     \* contents of final.diff, or Absent
  runJson,       \* [outcome, status] as published, or Absent
  outcome, status, \* result.Outcome, result.AuthoritativeStatus
  err            \* runErr # nil

host == <<controls, private>>
result == <<outcome, status, err, runJson, finalDiff, recorded>>
judged == <<evaluation, evaluationErr, privateFailed>>
vars == <<pc, established, expired, tree, workspace, attempt, diff, copied, host, judged, result>>

Init ==
  /\ pc = "establish"
  /\ controls \in Control /\ established = Absent
  /\ expired = FALSE /\ tree = "none"
  /\ workspace = [visible |-> Checkout, ignored |-> Checkout]
  /\ attempt = 0 /\ diff = Absent
  /\ private = Absent /\ copied = Absent
  /\ evaluation = NoEvaluation /\ evaluationErr = FALSE /\ privateFailed = FALSE
  /\ recorded = 0 /\ finalDiff = Absent /\ runJson = Absent
  /\ outcome = "none" /\ status = "none" /\ err = FALSE

-----------------------------------------------------------------------------
(* What happens around the controller. *)

Edit ==
  /\ pc # "done"
  /\ \E step \in ControlSteps :
       \/ controls = step[1] /\ controls' = step[2] /\ UNCHANGED private
       \/ private = step[1] /\ private' = step[2] /\ UNCHANGED controls
  /\ UNCHANGED <<pc, established, expired, tree, workspace, attempt, diff, copied, judged, result>>

Expire ==
  /\ ~expired /\ pc # "done"
  /\ expired' = TRUE
  /\ UNCHANGED <<pc, established, tree, workspace, attempt, diff, copied, host, judged, result>>

-----------------------------------------------------------------------------
(* finish and the deferred Close. *)

Record(o, s) == [outcome |-> o, status |-> s]

\* A defect to detect: the error of writeRunResult is dropped.
PublishIgnored(failed, published) == failed
Failed(failed, published) == failed \/ ~published

\* finish: status "none" keeps the status of an earlier attempt.
finish(o, s, failed) ==
  /\ outcome' = o
  /\ status' = IF s = "none" THEN status ELSE s
  /\ \E published \in BOOLEAN :
       /\ runJson' = IF published THEN Record(outcome', status') ELSE runJson
       /\ err' = Failed(failed, published)
  /\ pc' = IF tree = "open" THEN "close" ELSE "done"
  /\ UNCHANGED <<established, expired, tree, attempt>>

unjudged == <<workspace, diff, copied, judged>>

\* An exit before, or without, the attempt being appended.
Stop(o) == finish(o, "none", TRUE) /\ UNCHANGED <<recorded, finalDiff>>

\* An exit that appends the attempt first.
StopAttempt(o) == finish(o, "none", TRUE) /\ recorded' = recorded + 1 /\ UNCHANGED finalDiff

\* A defect to detect: an error of Close is only logged.
CloseOnly(closed) ==
  /\ tree' = IF closed THEN "removed" ELSE "leaked"
  /\ UNCHANGED <<outcome, err, runJson>>

\* A failed Close turns a good result into an error and publishes it again,
\* without looking at whether that worked.
CloseTree(closed) ==
  /\ tree' = IF closed THEN "removed" ELSE "leaked"
  /\ outcome' = IF closed \/ err THEN outcome ELSE "ERROR"
  /\ err' = (err \/ ~closed)
  /\ runJson' \in {runJson} \union (IF closed THEN {} ELSE {Record(outcome', status)})

Close ==
  /\ pc = "close"
  /\ \E closed \in BOOLEAN : CloseTree(closed)
  /\ pc' = "done"
  /\ UNCHANGED <<established, expired, attempt, host, status, recorded, finalDiff, unjudged>>

-----------------------------------------------------------------------------
(* Before the loop. *)

Goto(label) == pc' = label

Establish ==
  /\ pc = "establish"
  /\ established' = controls /\ Goto("identity")
  /\ UNCHANGED <<expired, tree, attempt, host, result, unjudged>>

EstablishFails ==
  /\ pc = "establish"
  /\ Stop("INTEGRITY_FAILURE")
  /\ UNCHANGED <<host, unjudged>>

\* A process that is started after the deadline fails.
Identity ==
  /\ pc = "identity" /\ ~expired
  /\ Goto("worktree")
  /\ UNCHANGED <<established, expired, tree, attempt, host, result, unjudged>>

IdentityFails ==
  /\ pc = "identity"
  /\ Stop("AGENT_FAILURE")
  /\ UNCHANGED <<host, unjudged>>

\* createWorktree cleans up after itself when it fails.
createWorktree ==
  /\ pc = "worktree" /\ ~expired
  /\ tree' = "open" /\ Goto("agentPath")
  /\ UNCHANGED <<established, expired, attempt, host, result, unjudged>>

createWorktreeFails ==
  /\ pc = "worktree"
  /\ Stop("ERROR")
  /\ UNCHANGED <<host, unjudged>>

AgentPath ==
  /\ pc = "agentPath"
  /\ attempt' = 1 /\ Goto("attempt")
  /\ UNCHANGED <<established, expired, tree, host, result, unjudged>>

AgentPathFails ==
  /\ pc = "agentPath"
  /\ Stop("INTEGRITY_FAILURE")
  /\ UNCHANGED <<host, unjudged>>

-----------------------------------------------------------------------------
(* One attempt. *)

\* The request is written to its artifact.
Begin ==
  /\ pc = "attempt" /\ ~expired
  /\ Goto("verifyBefore")
  /\ UNCHANGED <<established, expired, tree, attempt, host, result, unjudged>>

BeginFails ==
  /\ pc = "attempt"
  /\ Stop("ERROR")
  /\ UNCHANGED <<host, unjudged>>

\* verifyDigests: before the agent, after it, before the guard.  Walking the
\* files may fail as well.
VerifyPoints ==
  [verifyBefore |-> "agent", verifyAfter |-> "derive", verifyControls |-> "materialize"]

verifyDigests ==
  /\ pc \in DOMAIN VerifyPoints
  /\ controls = established
  /\ Goto(VerifyPoints[pc])
  /\ UNCHANGED <<established, expired, tree, attempt, host, result, unjudged>>

verifyDigestsFails ==
  /\ pc \in DOMAIN VerifyPoints
  /\ StopAttempt("INTEGRITY_FAILURE")
  /\ UNCHANGED <<host, unjudged>>

Workspaces == [visible : Tree, ignored : Tree]

AgentRuns ==
  /\ pc = "agent" /\ ~expired
  /\ workspace' \in Workspaces
  /\ Goto("verifyAfter")
  /\ UNCHANGED <<established, expired, tree, attempt, host, result, diff, copied, judged>>

\* The agent's exit, output, response or time; or its artifacts are not written
\* and the attempt is not appended.
AgentFails ==
  /\ pc = "agent"
  /\ workspace' \in Workspaces
  /\ StopAttempt("AGENT_FAILURE") \/ Stop("ERROR")
  /\ UNCHANGED <<host, diff, copied, judged>>

\* validateWorkspaceTree, ChangedFiles and Diff ask Git with --exclude-standard;
\* then workspace.diff is written.
Derive ==
  /\ pc = "derive" /\ ~expired
  /\ diff' = workspace.visible
  /\ Goto("verifyControls")
  /\ UNCHANGED <<established, expired, tree, attempt, host, result, workspace, copied, judged>>

DeriveFails ==
  /\ pc = "derive"
  /\ StopAttempt("INTEGRITY_FAILURE") \/ Stop("ERROR")
  /\ UNCHANGED <<host, unjudged>>

\* Mkdir fails when the directory is there.  The copies are digested after they
\* are written; that they are not edited in between is assumed.
materialize ==
  /\ pc = "materialize" /\ private = Absent
  /\ private' = controls /\ copied' = controls
  /\ Goto("evaluate")
  /\ UNCHANGED <<established, expired, tree, attempt, controls, result, workspace, diff, judged>>

\* What cleanupOnError cannot remove stays.
materializeFails ==
  /\ pc = "materialize"
  /\ StopAttempt("INTEGRITY_FAILURE")
  /\ private' \in {private, controls}
  /\ UNCHANGED <<controls, unjudged>>

tcgExitCode(s) ==
  CASE s \in {"PASS", "WARN"} -> 0 [] s = "BLOCK" -> 2 [] s = "INCOMPLETE" -> 3 [] OTHER -> 1

\* A defect to detect: the process's exit code is not compared.
ArtifactsAgree(json, statusFile, exit) == json = statusFile
Coherent(json, statusFile, exit) == json = statusFile /\ exit = tcgExitCode(statusFile)

\* TCG reads the worktree and the private copies and leaves a JSON result, a
\* status file and an exit code.
Evaluate ==
  /\ pc = "evaluate" /\ ~expired
  /\ \E json, statusFile \in Verdict, exit \in {0, 1, 2, 3} :
       /\ Coherent(json, statusFile, exit)
       /\ evaluation' = [status |-> statusFile, json |-> json, exit |-> exit,
                         workspace |-> workspace, controls |-> private]
  /\ Goto("verifyPrivate")
  /\ UNCHANGED <<established, expired, tree, attempt, host, result, workspace, diff, copied,
                 evaluationErr, privateFailed>>

EvaluateFails ==
  /\ pc = "evaluate"
  /\ evaluationErr' = TRUE
  /\ Goto("verifyPrivate")
  /\ UNCHANGED <<established, expired, tree, attempt, host, result, workspace, diff, copied,
                 evaluation, privateFailed>>

\* controls.Verify; it too may fail to read.
VerifyPrivate ==
  /\ pc = "verifyPrivate"
  /\ \E ok \in BOOLEAN :
       /\ ok => private = copied
       /\ privateFailed' = ~ok
       /\ evaluationErr' = (evaluationErr \/ ~ok)
  /\ Goto("clean")
  /\ UNCHANGED <<established, expired, tree, attempt, host, result, workspace, diff, copied, evaluation>>

\* A defect to detect: an error of controls.Close is dropped.
CleanupIgnored(cleaned) == evaluationErr
EvaluationFailed(cleaned) == evaluationErr \/ ~cleaned

\* controls.Close, and the verdict on the evaluation.
Clean ==
  /\ pc = "clean"
  /\ \E cleaned \in BOOLEAN :
       /\ private' = IF cleaned THEN Absent ELSE private
       /\ evaluationErr' = EvaluationFailed(cleaned)
  /\ Goto(IF evaluationErr' THEN "evaluationFailed" ELSE "verifyVerdict")
  /\ UNCHANGED <<established, expired, tree, attempt, controls, result, workspace, diff, copied,
                 evaluation, privateFailed>>

EvaluationStops ==
  /\ pc = "evaluationFailed"
  /\ StopAttempt(IF privateFailed THEN "INTEGRITY_FAILURE" ELSE "ERROR")
  /\ UNCHANGED <<host, unjudged>>

\* The last verifyDigests; from here on the status is the guard's.
VerdictStands ==
  /\ pc = "verifyVerdict"
  /\ controls = established
  /\ recorded' = recorded + 1
  /\ status' = evaluation.status
  /\ Goto("switch")
  /\ UNCHANGED <<established, expired, tree, attempt, host, outcome, err, runJson, finalDiff, unjudged>>

VerdictFails ==
  /\ pc = "verifyVerdict"
  /\ finish("INTEGRITY_FAILURE", evaluation.status, TRUE)
  /\ recorded' = recorded + 1
  /\ UNCHANGED <<host, finalDiff, unjudged>>

-----------------------------------------------------------------------------
(* The switch on the status. *)

\* A defect to detect: one attempt more than the task allows.
OneMoreAttempt == attempt <= MaxAttempts
AttemptsLeft == attempt < MaxAttempts

\* A defect to detect: incomplete evidence is handed back to the agent.
IncompleteToo(s) == s \in {"BLOCK", "INCOMPLETE"}
Retryable(s) == s = "BLOCK"

Final(s) == s \in {"PASS", "WARN"} \/ (s = "BLOCK" /\ ~AttemptsLeft)

OutcomeOf(s) == IF s = "BLOCK" THEN "BLOCKED" ELSE "REVIEW_READY"

\* final.diff is written with the diff that was taken before the evaluation.
Review ==
  /\ pc = "switch" /\ Final(evaluation.status)
  /\ \/ finalDiff' = diff /\ finish(OutcomeOf(evaluation.status), evaluation.status, FALSE)
     \/ finalDiff' = finalDiff /\ finish("ERROR", evaluation.status, TRUE)
  /\ UNCHANGED <<host, recorded, unjudged>>

\* diff, controls and evaluation are locals of one iteration.
Retry ==
  /\ pc = "switch" /\ Retryable(evaluation.status) /\ AttemptsLeft
  /\ attempt' = attempt + 1 /\ Goto("attempt")
  /\ diff' = Absent /\ copied' = Absent
  /\ evaluation' = NoEvaluation /\ evaluationErr' = FALSE /\ privateFailed' = FALSE
  /\ UNCHANGED <<established, expired, tree, host, result, workspace>>

Escalate ==
  /\ pc = "switch" /\ evaluation.status = "INCOMPLETE"
  /\ finish("INCOMPLETE", evaluation.status, FALSE)
  /\ UNCHANGED <<host, recorded, finalDiff, unjudged>>

Reject ==
  /\ pc = "switch" /\ evaluation.status \in {"ERROR", "unsupported"}
  /\ finish("ERROR", evaluation.status, TRUE)
  /\ UNCHANGED <<host, recorded, finalDiff, unjudged>>

Step ==
  \/ Establish \/ EstablishFails \/ Identity \/ IdentityFails
  \/ createWorktree \/ createWorktreeFails \/ AgentPath \/ AgentPathFails
  \/ Begin \/ BeginFails \/ verifyDigests \/ verifyDigestsFails
  \/ AgentRuns \/ AgentFails \/ Derive \/ DeriveFails
  \/ materialize \/ materializeFails \/ Evaluate \/ EvaluateFails
  \/ VerifyPrivate \/ Clean \/ EvaluationStops \/ VerdictStands \/ VerdictFails
  \/ Review \/ Retry \/ Escalate \/ Reject \/ Close

Next == Step \/ Edit \/ Expire

\* Every process and every Git command runs under a timeout, so the controller
\* takes its next step; nobody has to edit a control file.
Spec == Init /\ [][Next]_vars /\ WF_vars(Step)

-----------------------------------------------------------------------------
ExitCode ==
  IF err THEN 1
  ELSE CASE outcome = "REVIEW_READY" -> 0 [] outcome = "BLOCKED" -> 2
         [] outcome = "INCOMPLETE" -> 3 [] OTHER -> 1

Exited(code) == pc = "done" /\ ExitCode = code

\* The types; the number of the attempt never exceeds task.MaxAttempts.
TypeOK ==
  /\ pc \in {"establish", "identity", "worktree", "agentPath", "attempt", "agent", "derive",
             "materialize", "evaluate", "verifyPrivate", "clean", "evaluationFailed",
             "verifyVerdict", "switch", "close", "done"} \union DOMAIN VerifyPoints
  /\ controls \in Control
  /\ {established, private, copied, evaluation.controls} \subseteq Control \union {Absent}
  /\ {expired, evaluationErr, privateFailed, err} \subseteq BOOLEAN
  /\ tree \in {"none", "open", "removed", "leaked"}
  /\ workspace \in Workspaces /\ evaluation.workspace \in Workspaces \union {Absent}
  /\ attempt \in 0 .. MaxAttempts /\ recorded \in Nat
  /\ {diff, finalDiff} \subseteq Tree \union {Absent}
  /\ {evaluation.status, evaluation.json, status} \subseteq Verdict \union {"none"}
  /\ evaluation.exit \in {0, 1, 2, 3}
  /\ outcome \in Outcome \union {"none"}
  /\ runJson \in [outcome : Outcome \union {"none"}, status : Verdict \union {"none"}] \union {Absent}

\* What is offered for review is what was judged: when the harness exits 0 or 2
\* the guard left one verdict in its JSON result, its status file and its exit
\* code, on the very contents that final.diff shows, with the control files that
\* were established before the agent ever ran.
ReviewedAsJudged ==
  \A code \in {0, 2} : Exited(code) =>
    /\ evaluation.json = evaluation.status /\ evaluation.exit = code
    /\ evaluation.status \in (IF code = 0 THEN {"PASS", "WARN"} ELSE {"BLOCK"})
    /\ finalDiff = evaluation.workspace.visible
    /\ evaluation.controls = established

\* The published record agrees with the exit code whenever that is not 1, and
\* lists every attempt.
RecordAgrees ==
  \A code \in {0, 2, 3} : Exited(code) => runJson = Record(outcome, evaluation.status)
                                           /\ recorded = attempt

\* No agent runs while private copies of the control files lie about, and the
\* next evaluation never meets the copies of the last.
CopiesAreGone ==
  pc \in {"attempt", "agent", "derive", "materialize"} => private = Absent

\* A run that exits with a verdict has removed its worktree.
TreeRemoved == \A code \in {0, 2, 3} : Exited(code) => tree = "removed"

\* final.diff "is the review artifact": the contents that were judged are the
\* checked-out ones with final.diff applied.
DiffShowsEveryEdit ==
  Exited(0) => evaluation.workspace = [visible |-> finalDiff, ignored |-> Checkout]

-----------------------------------------------------------------------------
(* What the proofs of ReviewedAsJudged and of the loop are inductive with. *)

\* Nobody undoes an edit of a control file: without this, a change made after
\* one verifyDigests and undone before the next is never seen.
Irreversible == \A step \in ControlSteps : step[1] < step[2]

Early == {"establish", "identity", "worktree", "agentPath"}
Unjudged == {"attempt", "agent", "derive", "materialize", "evaluate"} \union DOMAIN VerifyPoints
Judging == {"verifyPrivate", "clean", "evaluationFailed", "verifyVerdict", "switch"}

Bookkeeping ==
  /\ pc \in Early => attempt = 0
  /\ pc \in {"agentPath"} \union Unjudged \union Judging => tree = "open"
  /\ pc \in Unjudged \union Judging => attempt > 0
  /\ pc \in Early \union Unjudged => evaluation.status = "none"
  /\ pc \in {"verifyControls", "materialize", "evaluate"} \union Judging => diff = workspace.visible
  /\ pc \in {"verifyVerdict", "switch"} => ~evaluationErr

\* A verdict that has not been spoiled is the guard's, on this workspace.
VerdictIsGuards ==
  pc \in Judging /\ ~evaluationErr =>
    /\ evaluation.status \in Verdict /\ evaluation.json = evaluation.status
    /\ evaluation.exit = tcgExitCode(evaluation.status)
    /\ evaluation.workspace = workspace

\* The control files, the digests, the copies and what the guard was given, in
\* the order in which they were read.
ControlsInOrder ==
  /\ pc \notin {"establish", "close", "done"} => established \in Control /\ established <= controls
  /\ pc \in {"evaluate", "verifyPrivate"} =>
       /\ copied \in Control /\ private \in Control
       /\ established <= copied /\ copied <= controls /\ copied <= private
  /\ pc = "verifyPrivate" /\ ~evaluationErr =>
       evaluation.controls \in Control /\ copied <= evaluation.controls /\ evaluation.controls <= private
  /\ pc \in {"clean", "verifyVerdict"} /\ ~evaluationErr =>
       evaluation.controls \in Control /\ established <= evaluation.controls
       /\ evaluation.controls <= controls
  /\ pc = "switch" => evaluation.controls = established

\* A result without an error was earned.
ResultIsEarned ==
  pc \in {"close", "done"} /\ ~err =>
    \/ outcome = "REVIEW_READY" /\ evaluation.status \in {"PASS", "WARN"}
    \/ outcome = "BLOCKED" /\ evaluation.status = "BLOCK" /\ attempt = MaxAttempts
    \/ outcome = "INCOMPLETE" /\ evaluation.status = "INCOMPLETE"

ReviewIsJudged ==
  pc \in {"close", "done"} /\ ~err /\ outcome \in {"REVIEW_READY", "BLOCKED"} =>
    /\ evaluation.json = evaluation.status /\ evaluation.exit = tcgExitCode(evaluation.status)
    /\ finalDiff = evaluation.workspace.visible /\ evaluation.controls = established

-----------------------------------------------------------------------------
\* The controller implements the promised loop.
Loop == INSTANCE AgentLoop WITH
  tries <- attempt, verdict <- evaluation.status,
  exit <- IF pc = "done" THEN ExitCode ELSE 64

ImplementsLoop == Loop!Spec
=============================================================================
