------------------------ MODULE AgentControllerProofs ------------------------
(***************************************************************************)
(* For any number of attempts and any contents: the controller's types,    *)
(* the loop it implements, and that what it offers for review is what the  *)
(* guard judged under the control files established at the start.          *)
(***************************************************************************)
EXTENDS AgentController, TLAPS

USE AgentAssumption

\* The three verifyDigests of an attempt and what follows each.
LEMMA VerifyLabels ==
  /\ DOMAIN VerifyPoints = {"verifyBefore", "verifyAfter", "verifyControls"}
  /\ VerifyPoints["verifyBefore"] = "agent" /\ VerifyPoints["verifyAfter"] = "derive"
  /\ VerifyPoints["verifyControls"] = "materialize"
BY DEF VerifyPoints

\* tcgExitCode answers with an exit code of the guard.
LEMMA ExitCodes == \A s : tcgExitCode(s) \in {0, 1, 2, 3}
BY DEF tcgExitCode

\* The zero value of Evaluation.
LEMMA NoEvaluationFields ==
  /\ NoEvaluation.status = "none" /\ NoEvaluation.json = "none" /\ NoEvaluation.exit = 0
  /\ NoEvaluation.workspace = Absent /\ NoEvaluation.controls = Absent
BY DEF NoEvaluation

\* finish keeps the types.
LEMMA FinishType ==
  ASSUME TypeOK, NEW o \in Outcome, NEW s \in Verdict \union {"none"}, NEW failed \in BOOLEAN,
         finish(o, s, failed), recorded' \in Nat, finalDiff' \in Tree \union {Absent},
         workspace' \in Workspaces, private' \in Control \union {Absent},
         UNCHANGED <<controls, diff, copied, judged>>
  PROVE  TypeOK'
<1>1. status' \in Verdict \union {"none"} /\ outcome' \in Outcome
  BY DEF finish, TypeOK
<1>2. runJson' \in [outcome : Outcome \union {"none"}, status : Verdict \union {"none"}] \union {Absent}
  BY <1>1 DEF finish, TypeOK, Record
<1>3. err' \in BOOLEAN
  BY DEF finish, Failed
<1>4. QED
  BY <1>1, <1>2, <1>3 DEF finish, TypeOK, judged

\* So does every exit on an error.
LEMMA StopType ==
  ASSUME TypeOK, NEW o \in Outcome, Stop(o) \/ StopAttempt(o),
         workspace' \in Workspaces, private' \in Control \union {Absent},
         UNCHANGED <<controls, diff, copied, judged>>
  PROVE  TypeOK'
<1>1. finish(o, "none", TRUE)
  BY Zenon DEF Stop, StopAttempt
<1>2. recorded' \in {recorded, recorded + 1} /\ finalDiff' = finalDiff
  BY DEF Stop, StopAttempt
<1>3. recorded' \in Nat /\ finalDiff' \in Tree \union {Absent}
  BY <1>2 DEF TypeOK
<1>4. QED
  BY <1>1, <1>3, FinishType

\* The types of the controller are invariant.
THEOREM AgentTypeCorrect == Spec => []TypeOK
<1>1. Init => TypeOK
  <2> SUFFICES ASSUME Init PROVE TypeOK
    OBVIOUS
  <2>1. /\ evaluation.controls = Absent /\ evaluation.workspace = Absent /\ evaluation.exit = 0
        /\ evaluation.status = "none" /\ evaluation.json = "none"
    BY NoEvaluationFields DEF Init
  <2>2. workspace \in Workspaces
    BY DEF Init, Workspaces
  <2>3. {expired, evaluationErr, privateFailed, err} \subseteq BOOLEAN
    BY DEF Init
  <2>4. {established, private, copied, evaluation.controls} \subseteq Control \union {Absent}
    BY <2>1 DEF Init
  <2>5. attempt \in 0 .. MaxAttempts /\ recorded \in Nat /\ evaluation.exit \in {0, 1, 2, 3}
    BY <2>1 DEF Init
  <2>6. {evaluation.status, evaluation.json, status} \subseteq Verdict \union {"none"}
    BY <2>1 DEF Init
  <2>7. QED
    BY <2>1, <2>2, <2>3, <2>4, <2>5, <2>6 DEF Init, TypeOK
<1>2. TypeOK /\ [Next]_vars => TypeOK'
  <2> SUFFICES ASSUME TypeOK, [Next]_vars PROVE TypeOK'
    OBVIOUS
  <2> USE VerifyLabels DEF host, result, judged, unjudged, Goto
  <2>1. CASE Establish
    BY <2>1 DEF Establish, TypeOK
  <2>2. CASE Identity
    BY <2>2 DEF Identity, TypeOK
  <2>3. CASE createWorktree
    BY <2>3 DEF createWorktree, TypeOK
  <2>4. CASE AgentPath
    BY <2>4 DEF AgentPath, TypeOK
  <2>5. CASE Begin
    BY <2>5 DEF Begin, TypeOK
  <2>6. CASE verifyDigests
    BY <2>6 DEF verifyDigests, TypeOK
  <2>7. CASE Derive
    BY <2>7 DEF Derive, TypeOK, Workspaces
  <2>8. CASE materialize
    BY <2>8 DEF materialize, TypeOK
  <2>9. CASE AgentRuns
    BY <2>9 DEF AgentRuns, TypeOK
  <2>10. CASE EstablishFails \/ IdentityFails \/ createWorktreeFails \/ AgentPathFails
         \/ BeginFails \/ verifyDigestsFails \/ DeriveFails
    BY <2>10, StopType DEF TypeOK, Outcome, EstablishFails, IdentityFails, createWorktreeFails,
       AgentPathFails, BeginFails, verifyDigestsFails, DeriveFails
  <2>11. CASE AgentFails
    BY <2>11, StopType DEF TypeOK, Outcome, AgentFails
  <2>12. CASE materializeFails
    BY <2>12, StopType DEF TypeOK, Outcome, materializeFails
  <2>13. CASE EvaluationStops
    BY <2>13, StopType DEF TypeOK, Outcome, EvaluationStops
  <2>14. CASE Evaluate
    BY <2>14, ExitCodes DEF TypeOK, Evaluate, Coherent
  <2>15. CASE EvaluateFails
    BY <2>15 DEF EvaluateFails, TypeOK
  <2>16. CASE VerifyPrivate
    BY <2>16 DEF VerifyPrivate, TypeOK
  <2>17. CASE Clean
    BY <2>17 DEF Clean, EvaluationFailed, TypeOK
  <2>18. CASE VerdictStands
    BY <2>18 DEF VerdictStands, TypeOK
  <2>19. CASE VerdictFails
    <3>1. finish("INTEGRITY_FAILURE", evaluation.status, TRUE) /\ "INTEGRITY_FAILURE" \in Outcome
      BY <2>19, Zenon DEF VerdictFails, Outcome
    <3>2. recorded' \in Nat
      BY <2>19 DEF VerdictFails, TypeOK
    <3>3. QED
      BY <2>19, <3>1, <3>2, FinishType DEF TypeOK, VerdictFails
  <2>20. CASE Review
    <3>1. OutcomeOf(evaluation.status) \in Outcome /\ "ERROR" \in Outcome
      BY DEF OutcomeOf, Outcome
    <3>2. QED
      BY <2>20, <3>1, FinishType DEF TypeOK, Review
  <2>21. CASE Retry
    <3>1. /\ evaluation'.controls = Absent /\ evaluation'.workspace = Absent /\ evaluation'.exit = 0
          /\ evaluation'.status = "none" /\ evaluation'.json = "none"
      BY <2>21, NoEvaluationFields DEF Retry
    <3>2. attempt' \in 0 .. MaxAttempts
      BY <2>21 DEF Retry, AttemptsLeft, TypeOK
    <3>3. QED
      BY <2>21, <3>1, <3>2 DEF TypeOK, Retry
  <2>22. CASE Escalate
    BY <2>22, FinishType DEF TypeOK, Outcome, Escalate
  <2>23. CASE Reject
    BY <2>23, FinishType DEF TypeOK, Outcome, Reject
  <2>24. CASE Close
    <3>1. PICK closed \in BOOLEAN : CloseTree(closed)
      BY <2>24 DEF Close
    <3>2. outcome' \in Outcome \union {"none"} /\ err' \in BOOLEAN /\ tree' \in {"removed", "leaked"}
      BY <3>1 DEF CloseTree, TypeOK, Outcome
    <3>3. runJson' \in [outcome : Outcome \union {"none"}, status : Verdict \union {"none"}] \union {Absent}
      BY <3>1, <3>2 DEF CloseTree, TypeOK, Record
    <3>4. QED
      BY <2>24, <3>2, <3>3 DEF Close, TypeOK
  <2>25. CASE Edit
    BY <2>25 DEF TypeOK, Edit
  <2>26. CASE Expire
    BY <2>26 DEF TypeOK, Expire
  <2>27. CASE UNCHANGED vars
    BY <2>27 DEF TypeOK, vars
  <2>28. QED
    BY <2>1, <2>2, <2>3, <2>4, <2>5, <2>6, <2>7, <2>8, <2>9, <2>10, <2>11, <2>12, <2>13, <2>14,
       <2>15, <2>16, <2>17, <2>18, <2>19, <2>20, <2>21, <2>22, <2>23, <2>24, <2>25, <2>26,
       <2>27 DEF Next, Step
<1>3. QED
  BY <1>1, <1>2, PTL DEF Spec

-----------------------------------------------------------------------------
(* The loop. *)

LoopInv == Bookkeeping /\ VerdictIsGuards /\ ResultIsEarned
JudgedInv == LoopInv /\ ControlsInOrder /\ ReviewIsJudged

\* The stages of a run, spelled out.
LEMMA LabelSets ==
  /\ Early = {"establish", "identity", "worktree", "agentPath"}
  /\ Unjudged = {"attempt", "agent", "derive", "materialize", "evaluate",
                 "verifyBefore", "verifyAfter", "verifyControls"}
  /\ Judging = {"verifyPrivate", "clean", "evaluationFailed", "verifyVerdict", "switch"}
BY VerifyLabels DEF Early, Unjudged, Judging

\* The ways out that report an error.
FailingStep ==
  \/ EstablishFails \/ IdentityFails \/ createWorktreeFails \/ AgentPathFails \/ BeginFails
  \/ verifyDigestsFails \/ AgentFails \/ DeriveFails \/ materializeFails \/ EvaluationStops
  \/ VerdictFails \/ Reject

\* finish leads to the deferred Close exactly when there is a worktree.
LEMMA FinishEnds ==
  ASSUME NEW o, NEW s, NEW failed, finish(o, s, failed)
  PROVE  /\ pc' = (IF tree = "open" THEN "close" ELSE "done")
         /\ failed => err'
         /\ outcome' = o /\ attempt' = attempt /\ tree' = tree /\ established' = established
BY DEF finish, Failed

\* A failing step ends the run with an error and leaves the verdict alone.
LEMMA FailingEnds ==
  ASSUME FailingStep
  PROVE  /\ pc' = (IF tree = "open" THEN "close" ELSE "done") /\ err'
         /\ pc \notin {"close", "done"}
         /\ UNCHANGED <<attempt, tree, evaluation>>
<1> USE VerifyLabels DEF unjudged, judged
<1>1. ASSUME NEW o, Stop(o) \/ StopAttempt(o)
      PROVE  /\ pc' = (IF tree = "open" THEN "close" ELSE "done") /\ err'
             /\ attempt' = attempt /\ tree' = tree
  <2>1. finish(o, "none", TRUE)
    BY <1>1, Zenon DEF Stop, StopAttempt
  <2>2. QED
    BY <2>1, FinishEnds
<1>2. CASE EstablishFails \/ IdentityFails \/ createWorktreeFails \/ AgentPathFails \/ BeginFails
  BY <1>1, <1>2 DEF EstablishFails, IdentityFails, createWorktreeFails, AgentPathFails, BeginFails
<1>3. CASE verifyDigestsFails \/ DeriveFails \/ materializeFails \/ EvaluationStops
  BY <1>1, <1>3 DEF verifyDigestsFails, DeriveFails, materializeFails, EvaluationStops
<1>4. CASE AgentFails
  BY <1>1, <1>4 DEF AgentFails
<1>5. CASE VerdictFails \/ Reject
  <2>1. PICK o, s : finish(o, s, TRUE)
    BY <1>5, Zenon DEF VerdictFails, Reject
  <2>2. QED
    BY <1>5, <2>1, FinishEnds DEF VerdictFails, Reject
<1>6. QED
  BY <1>2, <1>3, <1>4, <1>5 DEF FailingStep

\* Nothing is promised of a run that ended with an error.
LEMMA ErrorKeeps ==
  ASSUME pc' \in {"close", "done"}, err'
  PROVE  JudgedInv'
BY LabelSets DEF JudgedInv, LoopInv, Bookkeeping, VerdictIsGuards, ResultIsEarned, ControlsInOrder,
                 ReviewIsJudged

\* How Review and Escalate end.
LEMMA ReviewEnds ==
  ASSUME TypeOK, Bookkeeping, Review
  PROVE  /\ pc' = "close" /\ UNCHANGED <<attempt, tree, established, evaluation>>
         /\ \/ err'
            \/ /\ finalDiff' = diff /\ Final(evaluation.status)
               /\ outcome' = OutcomeOf(evaluation.status)
<1>1. tree = "open"
  BY LabelSets DEF Bookkeeping, Review
<1>2. CASE finalDiff' = diff /\ finish(OutcomeOf(evaluation.status), evaluation.status, FALSE)
  BY <1>1, <1>2, FinishEnds DEF Review, unjudged, judged
<1>3. CASE finish("ERROR", evaluation.status, TRUE)
  BY <1>1, <1>3, FinishEnds DEF Review, unjudged, judged
<1>4. QED
  BY <1>2, <1>3 DEF Review

\* Escalate ends with the outcome INCOMPLETE.
LEMMA EscalateEnds ==
  ASSUME Bookkeeping, Escalate
  PROVE  /\ pc' = "close" /\ outcome' = "INCOMPLETE" /\ evaluation.status = "INCOMPLETE"
         /\ UNCHANGED <<attempt, tree, evaluation>>
<1>1. tree = "open"
  BY LabelSets DEF Bookkeeping, Escalate
<1>2. finish("INCOMPLETE", evaluation.status, FALSE)
  BY Zenon DEF Escalate
<1>3. QED
  BY <1>1, <1>2, FinishEnds DEF Escalate, unjudged, judged

\* A failing Close only ever turns a result into an error.
LEMMA CloseEnds ==
  ASSUME Close
  PROVE  /\ pc = "close" /\ pc' = "done"
         /\ UNCHANGED <<attempt, established, evaluation, finalDiff>>
         /\ err' \/ (~err /\ outcome' = outcome)
<1>1. PICK closed \in BOOLEAN : CloseTree(closed)
  BY DEF Close
<1>2. QED
  BY <1>1 DEF Close, CloseTree, unjudged, judged

\* The invariant of the loop holds at the start.
LEMMA LoopInvInit == Init => LoopInv
BY LabelSets, NoEvaluationFields DEF Init, LoopInv, Bookkeeping, VerdictIsGuards, ResultIsEarned

\* Every step keeps the invariant of the loop.
LEMMA LoopInvNext == TypeOK /\ LoopInv /\ [Next]_vars => LoopInv'
<1> SUFFICES ASSUME TypeOK, LoopInv, [Next]_vars PROVE LoopInv'
  OBVIOUS
<1> USE LabelSets, VerifyLabels DEF host, result, judged, unjudged, Goto
<1>1. QED
  <2>1. CASE FailingStep
    BY <2>1, FailingEnds, ErrorKeeps DEF JudgedInv
  <2>2. CASE Establish
    BY <2>2 DEF Establish, LoopInv, Bookkeeping, VerdictIsGuards, ResultIsEarned, TypeOK
  <2>3. CASE Identity
    BY <2>3 DEF Identity, LoopInv, Bookkeeping, VerdictIsGuards, ResultIsEarned, TypeOK
  <2>4. CASE createWorktree
    BY <2>4 DEF createWorktree, LoopInv, Bookkeeping, VerdictIsGuards, ResultIsEarned, TypeOK
  <2>5. CASE AgentPath
    BY <2>5 DEF AgentPath, LoopInv, Bookkeeping, VerdictIsGuards, ResultIsEarned, TypeOK
  <2>6. CASE Begin
    BY <2>6 DEF Begin, LoopInv, Bookkeeping, VerdictIsGuards, ResultIsEarned, TypeOK
  <2>7. CASE verifyDigests
    BY <2>7 DEF verifyDigests, LoopInv, Bookkeeping, VerdictIsGuards, ResultIsEarned, TypeOK
  <2>8. CASE AgentRuns
    BY <2>8 DEF AgentRuns, LoopInv, Bookkeeping, VerdictIsGuards, ResultIsEarned, TypeOK
  <2>9. CASE Derive
    BY <2>9 DEF Derive, LoopInv, Bookkeeping, VerdictIsGuards, ResultIsEarned, TypeOK
  <2>10. CASE materialize
    BY <2>10 DEF materialize, LoopInv, Bookkeeping, VerdictIsGuards, ResultIsEarned, TypeOK
  <2>11. CASE Evaluate
    BY <2>11 DEF Evaluate, Coherent, LoopInv, Bookkeeping, VerdictIsGuards, ResultIsEarned,
       TypeOK
  <2>12. CASE EvaluateFails
    BY <2>12 DEF EvaluateFails, LoopInv, Bookkeeping, VerdictIsGuards, ResultIsEarned, TypeOK
  <2>13. CASE VerifyPrivate
    BY <2>13 DEF VerifyPrivate, LoopInv, Bookkeeping, VerdictIsGuards, ResultIsEarned, TypeOK
  <2>14. CASE Clean
    BY <2>14 DEF Clean, EvaluationFailed, LoopInv, Bookkeeping, VerdictIsGuards,
       ResultIsEarned, TypeOK
  <2>15. CASE VerdictStands
    BY <2>15 DEF VerdictStands, LoopInv, Bookkeeping, VerdictIsGuards, ResultIsEarned, TypeOK
  <2>16. CASE Review
    <3>1. CASE err'
      BY <2>16, <3>1, ReviewEnds, ErrorKeeps DEF JudgedInv, LoopInv
    <3>2. CASE ~err'
      <4>1. Final(evaluation.status) /\ outcome' = OutcomeOf(evaluation.status)
        BY <2>16, <3>2, ReviewEnds DEF LoopInv
      <4>2. \/ outcome' = "REVIEW_READY" /\ evaluation.status \in {"PASS", "WARN"}
            \/ outcome' = "BLOCKED" /\ evaluation.status = "BLOCK" /\ attempt = MaxAttempts
        BY <4>1 DEF Final, OutcomeOf, AttemptsLeft, TypeOK
      <4>3. pc' = "close" /\ UNCHANGED <<attempt, evaluation>>
        BY <2>16, ReviewEnds DEF LoopInv
      <4>4. QED
        BY <4>2, <4>3 DEF LoopInv, Bookkeeping, VerdictIsGuards, ResultIsEarned
    <3>3. QED
      BY <3>1, <3>2
  <2>17. CASE Retry
    BY <2>17, NoEvaluationFields DEF Retry, LoopInv, Bookkeeping, VerdictIsGuards,
       ResultIsEarned, TypeOK
  <2>18. CASE Escalate
    BY <2>18, EscalateEnds DEF LoopInv, Bookkeeping, VerdictIsGuards, ResultIsEarned, TypeOK
  <2>19. CASE Close
    BY <2>19, CloseEnds DEF LoopInv, Bookkeeping, VerdictIsGuards, ResultIsEarned, TypeOK
  <2>20. CASE Edit
    BY <2>20 DEF Edit, LoopInv, Bookkeeping, VerdictIsGuards, ResultIsEarned, TypeOK
  <2>21. CASE Expire
    BY <2>21 DEF Expire, LoopInv, Bookkeeping, VerdictIsGuards, ResultIsEarned, TypeOK
  <2>22. CASE UNCHANGED vars
    BY <2>22 DEF vars, LoopInv, Bookkeeping, VerdictIsGuards, ResultIsEarned, TypeOK
  <2>23. QED
    BY <2>1, <2>2, <2>3, <2>4, <2>5, <2>6, <2>7, <2>8, <2>9, <2>10, <2>11, <2>12, <2>13, <2>14,
       <2>15, <2>16, <2>17, <2>18, <2>19, <2>20, <2>21, <2>22 DEF Next, Step, FailingStep

\* The controller keeps the promised loop: every step is one of AgentLoop's, or
\* none of its business.
THEOREM LoopIsKept == Spec => Loop!Safety
<1>1. Init => Loop!Init
  BY NoEvaluationFields DEF Init, Loop!Init, Loop!Running
<1>2. TypeOK /\ TypeOK' /\ LoopInv /\ LoopInv' /\ [Next]_vars => [Loop!Next]_(Loop!vars)
  <2> SUFFICES ASSUME TypeOK, TypeOK', LoopInv, LoopInv', [Next]_vars
               PROVE  [Loop!Next]_(Loop!vars)
    OBVIOUS
  <2> USE LabelSets, VerifyLabels
  <2>1. ASSUME pc # "done", pc' # "done", UNCHANGED <<attempt, evaluation>>
        PROVE  UNCHANGED Loop!vars
    BY <2>1 DEF Loop!vars
  <2>2. ASSUME pc \notin {"done"}, pc' = "done", UNCHANGED <<attempt, evaluation>>
        PROVE  Loop!Finish
    <3>1. ExitCode' \in {0, 1, 2, 3} /\ Loop!Earned(ExitCode')
      BY <2>2 DEF ExitCode, LoopInv, ResultIsEarned, Loop!Earned
    <3>2. QED
      BY <2>2, <3>1 DEF Loop!Finish, Loop!Running
  <2>3. CASE FailingStep
    BY <2>1, <2>2, <2>3, FailingEnds DEF Loop!Next
  <2>4. CASE AgentPath
    <3>1. attempt = 0 /\ attempt' = 1 /\ pc # "done" /\ pc' # "done"
      BY <2>4 DEF AgentPath, Goto, LoopInv, Bookkeeping
    <3>2. evaluation' = evaluation /\ evaluation.status = "none"
      BY <2>4 DEF AgentPath, unjudged, judged, LoopInv, Bookkeeping
    <3>3. QED
      BY <3>1, <3>2 DEF Loop!Next, Loop!Try, Loop!Running
  <2>5. CASE Evaluate
    <3>1. attempt > 0 /\ attempt' = attempt /\ pc # "done" /\ pc' # "done"
      BY <2>5 DEF Evaluate, Goto, LoopInv, Bookkeeping
    <3>2. evaluation.status = "none" /\ evaluation'.status \in Verdict
      BY <2>5 DEF Evaluate, LoopInv, Bookkeeping
    <3>3. QED
      BY <3>1, <3>2 DEF Loop!Next, Loop!Judge, Loop!Running
  <2>6. CASE Retry
    <3>1. attempt < MaxAttempts /\ attempt' = attempt + 1 /\ pc # "done" /\ pc' # "done"
      BY <2>6 DEF Retry, Goto, AttemptsLeft
    <3>2. evaluation.status = "BLOCK" /\ evaluation'.status = "none"
      BY <2>6, NoEvaluationFields DEF Retry, Retryable
    <3>3. QED
      BY <3>1, <3>2 DEF Loop!Next, Loop!Try, Loop!Running
  <2>7. CASE Review
    BY <2>1, <2>7, ReviewEnds DEF Review, LoopInv
  <2>8. CASE Escalate
    BY <2>1, <2>8, EscalateEnds DEF Escalate, LoopInv
  <2>9. CASE Close
    BY <2>2, <2>9, CloseEnds DEF Loop!Next
  <2>10. CASE Establish \/ Identity \/ createWorktree \/ Begin \/ verifyDigests
    BY <2>1, <2>10 DEF Establish, Identity, createWorktree, Begin, verifyDigests, Goto,
       unjudged, judged
  <2>11. CASE AgentRuns \/ Derive \/ materialize \/ EvaluateFails
    BY <2>1, <2>11 DEF AgentRuns, Derive, materialize, EvaluateFails, Goto, judged
  <2>12. CASE VerifyPrivate \/ Clean \/ VerdictStands
    BY <2>1, <2>12 DEF VerifyPrivate, Clean, VerdictStands, Goto, unjudged, judged
  <2>13. CASE Edit \/ Expire
    BY <2>1, <2>13 DEF Edit, Expire, judged
  <2>14. CASE UNCHANGED vars
    BY <2>14 DEF vars, judged, result, Loop!vars, ExitCode
  <2>15. QED
    BY <2>3, <2>4, <2>5, <2>6, <2>7, <2>8, <2>9, <2>10, <2>11, <2>12, <2>13, <2>14
       DEF Next, Step, FailingStep
<1>3. QED
  BY <1>1, <1>2, LoopInvInit, LoopInvNext, AgentTypeCorrect, PTL DEF Spec, Loop!Safety

-----------------------------------------------------------------------------
(* What is offered for review. *)

\* The contents of the control files are ordered as numbers are.
LEMMA ControlOrder ==
  \A c, d \in Control : /\ c <= c
                        /\ c <= d /\ d <= c => c = d
                        /\ c < d => c <= d
                        /\ \A e \in Control : c <= d /\ d <= e => c <= e
<1>1. \A c \in Control : c \in Nat
  OBVIOUS
<1>2. QED
  BY <1>1

\* The invariant of the review holds at the start.
LEMMA JudgedInvInit == Init => JudgedInv
BY LoopInvInit, LabelSets DEF Init, JudgedInv, ControlsInOrder, ReviewIsJudged

\* Every step keeps the invariant of the review, if edits are not undone.
LEMMA JudgedInvNext ==
  ASSUME Irreversible
  PROVE  TypeOK /\ JudgedInv /\ [Next]_vars => JudgedInv'
<1> SUFFICES ASSUME TypeOK, JudgedInv, [Next]_vars PROVE ControlsInOrder' /\ ReviewIsJudged'
  BY LoopInvNext DEF JudgedInv
<1> USE LabelSets, VerifyLabels DEF host, result, judged, unjudged, Goto
<1>1. QED
  <2>1. CASE FailingStep
    BY <2>1, FailingEnds, ErrorKeeps DEF JudgedInv
  <2>2. CASE Establish
    BY <2>2 DEF Establish, JudgedInv, LoopInv, Bookkeeping, VerdictIsGuards, ControlsInOrder,
       ReviewIsJudged, TypeOK
  <2>3. CASE Identity
    BY <2>3 DEF Identity, JudgedInv, LoopInv, Bookkeeping, VerdictIsGuards, ControlsInOrder,
       ReviewIsJudged, TypeOK
  <2>4. CASE createWorktree
    BY <2>4 DEF createWorktree, JudgedInv, LoopInv, Bookkeeping, VerdictIsGuards,
       ControlsInOrder, ReviewIsJudged, TypeOK
  <2>5. CASE AgentPath
    BY <2>5 DEF AgentPath, JudgedInv, LoopInv, Bookkeeping, VerdictIsGuards, ControlsInOrder,
       ReviewIsJudged, TypeOK
  <2>6. CASE Begin
    BY <2>6 DEF Begin, JudgedInv, LoopInv, Bookkeeping, VerdictIsGuards, ControlsInOrder,
       ReviewIsJudged, TypeOK
  <2>7. CASE verifyDigests
    BY <2>7 DEF verifyDigests, JudgedInv, LoopInv, Bookkeeping, VerdictIsGuards,
       ControlsInOrder, ReviewIsJudged, TypeOK
  <2>8. CASE AgentRuns
    BY <2>8 DEF AgentRuns, JudgedInv, LoopInv, Bookkeeping, VerdictIsGuards, ControlsInOrder,
       ReviewIsJudged, TypeOK
  <2>9. CASE Derive
    BY <2>9 DEF Derive, JudgedInv, LoopInv, Bookkeeping, VerdictIsGuards, ControlsInOrder,
       ReviewIsJudged, TypeOK
  <2>10. CASE materialize
    BY <2>10 DEF materialize, JudgedInv, LoopInv, Bookkeeping, VerdictIsGuards,
       ControlsInOrder, ReviewIsJudged, TypeOK
  <2>11. CASE Evaluate
    <3>1. evaluation'.controls = private /\ pc' = "verifyPrivate"
      BY <2>11 DEF Evaluate
    <3>2. copied \in Control /\ private \in Control /\ copied <= private /\ private <= private
      BY <2>11, ControlOrder DEF Evaluate, JudgedInv, ControlsInOrder
    <3>3. QED
      BY <2>11, <3>1, <3>2 DEF Evaluate, JudgedInv, ControlsInOrder, ReviewIsJudged
  <2>12. CASE EvaluateFails
    BY <2>12 DEF EvaluateFails, JudgedInv, LoopInv, Bookkeeping, VerdictIsGuards,
       ControlsInOrder, ReviewIsJudged, TypeOK
  <2>13. CASE VerifyPrivate
    <3>1. pc' = "clean" /\ UNCHANGED <<established, controls, evaluation>>
      BY <2>13 DEF VerifyPrivate
    <3>2. established \in Control /\ established <= controls
      BY <2>13 DEF VerifyPrivate, JudgedInv, ControlsInOrder
    <3>3. ASSUME ~evaluationErr'
          PROVE  /\ evaluation.controls \in Control /\ established <= evaluation.controls
                 /\ evaluation.controls <= controls
      <4>1. private = copied /\ ~evaluationErr
        BY <2>13, <3>3 DEF VerifyPrivate
      <4>2. evaluation.controls = copied
        BY <2>13, <4>1, ControlOrder DEF VerifyPrivate, JudgedInv, ControlsInOrder
      <4>3. QED
        BY <2>13, <4>2 DEF VerifyPrivate, JudgedInv, ControlsInOrder
    <3>4. QED
      BY <3>1, <3>2, <3>3 DEF ControlsInOrder, ReviewIsJudged
  <2>14. CASE Clean
    BY <2>14 DEF Clean, EvaluationFailed, JudgedInv, LoopInv, Bookkeeping, VerdictIsGuards,
       ControlsInOrder, ReviewIsJudged, TypeOK
  <2>15. CASE VerdictStands
    <3>1. pc' = "switch" /\ controls = established /\ UNCHANGED <<established, controls, evaluation>>
      BY <2>15 DEF VerdictStands
    <3>2. /\ evaluation.controls \in Control /\ established \in Control
          /\ established <= evaluation.controls /\ evaluation.controls <= controls
      BY <2>15 DEF VerdictStands, JudgedInv, LoopInv, Bookkeeping, ControlsInOrder
    <3>3. evaluation.controls = established
      BY <3>1, <3>2, ControlOrder
    <3>4. established <= controls
      BY <3>1, <3>2
    <3>5. QED
      BY <3>1, <3>2, <3>3, <3>4 DEF ControlsInOrder, ReviewIsJudged
  <2>16. CASE Review
    <3>1. CASE err'
      BY <2>16, <3>1, ReviewEnds, ErrorKeeps DEF JudgedInv, LoopInv
    <3>2. CASE ~err'
      <4>1. pc' = "close" /\ UNCHANGED <<evaluation, established>> /\ finalDiff' = diff
        BY <2>16, <3>2, ReviewEnds DEF JudgedInv, LoopInv
      <4>2. /\ evaluation.json = evaluation.status /\ evaluation.exit = tcgExitCode(evaluation.status)
            /\ diff = evaluation.workspace.visible /\ evaluation.controls = established
        BY <2>16 DEF Review, JudgedInv, LoopInv, Bookkeeping, VerdictIsGuards, ControlsInOrder
      <4>3. QED
        BY <4>1, <4>2 DEF ControlsInOrder, ReviewIsJudged
    <3>3. QED
      BY <3>1, <3>2
  <2>17. CASE Retry
    BY <2>17, NoEvaluationFields DEF Retry, JudgedInv, LoopInv, Bookkeeping, VerdictIsGuards,
       ControlsInOrder, ReviewIsJudged, TypeOK
  <2>18. CASE Escalate
    BY <2>18, EscalateEnds DEF JudgedInv, LoopInv, Bookkeeping, VerdictIsGuards,
       ControlsInOrder, ReviewIsJudged, TypeOK
  <2>19. CASE Close
    BY <2>19, CloseEnds DEF JudgedInv, LoopInv, Bookkeeping, VerdictIsGuards, ControlsInOrder,
       ReviewIsJudged, TypeOK
  <2>20. CASE Edit
    <3>1. UNCHANGED <<pc, established, copied, evaluation, evaluationErr, err, outcome, finalDiff>>
      BY <2>20 DEF Edit
    <3>2. PICK step \in ControlSteps :
            \/ controls = step[1] /\ controls' = step[2] /\ UNCHANGED private
            \/ private = step[1] /\ private' = step[2] /\ UNCHANGED controls
      BY <2>20 DEF Edit
    <3>3. step[1] \in Control /\ step[2] \in Control /\ step[1] <= step[2]
      <4>1. step \in Control \X Control
        OBVIOUS
      <4>2. step[1] \in Control /\ step[2] \in Control
        BY ONLY <4>1
      <4>3. step[1] < step[2]
        BY DEF Irreversible
      <4>4. QED
        BY ONLY <4>2, <4>3, ControlOrder
    <3>4. controls \in Control /\ controls' \in Control /\ controls <= controls'
      BY <3>2, <3>3, ControlOrder DEF TypeOK
    <3>5. private \in Control => private' \in Control /\ private <= private'
      BY <3>2, <3>3, ControlOrder
    <3>6. \A c \in Control : (c <= controls => c <= controls') /\
                              (private \in Control /\ c <= private => c <= private')
      BY <3>4, <3>5, ControlOrder
    <3>7. QED
      BY <3>1, <3>4, <3>5, <3>6 DEF JudgedInv, ControlsInOrder, ReviewIsJudged
  <2>21. CASE Expire
    BY <2>21 DEF Expire, JudgedInv, LoopInv, Bookkeeping, VerdictIsGuards, ControlsInOrder,
       ReviewIsJudged, TypeOK
  <2>22. CASE UNCHANGED vars
    BY <2>22 DEF vars, JudgedInv, LoopInv, Bookkeeping, VerdictIsGuards, ControlsInOrder,
       ReviewIsJudged, TypeOK
  <2>23. QED
    BY <2>1, <2>2, <2>3, <2>4, <2>5, <2>6, <2>7, <2>8, <2>9, <2>10, <2>11, <2>12, <2>13, <2>14,
       <2>15, <2>16, <2>17, <2>18, <2>19, <2>20, <2>21, <2>22 DEF Next, Step, FailingStep

\* When the harness exits 0 or 2, final.diff shows what the guard judged, with one
\* verdict, under the control files established at the start: provided nobody
\* undoes an edit of a control file.
THEOREM ReviewIsSound == ASSUME Irreversible PROVE Spec => []ReviewedAsJudged
<1>1. JudgedInv => ReviewedAsJudged
  <2> SUFFICES ASSUME JudgedInv, NEW code \in {0, 2}, Exited(code)
               PROVE  /\ evaluation.json = evaluation.status /\ evaluation.exit = code
                      /\ evaluation.status \in (IF code = 0 THEN {"PASS", "WARN"} ELSE {"BLOCK"})
                      /\ finalDiff = evaluation.workspace.visible
                      /\ evaluation.controls = established
    BY DEF ReviewedAsJudged
  <2>1. ~err /\ pc = "done" /\ outcome = (IF code = 0 THEN "REVIEW_READY" ELSE "BLOCKED")
    BY DEF Exited, ExitCode
  <2>2. evaluation.status \in (IF code = 0 THEN {"PASS", "WARN"} ELSE {"BLOCK"})
    BY <2>1 DEF JudgedInv, LoopInv, ResultIsEarned
  <2>3. tcgExitCode(evaluation.status) = code
    BY <2>2 DEF tcgExitCode
  <2>4. QED
    BY <2>1, <2>2, <2>3 DEF JudgedInv, ReviewIsJudged
<1>2. QED
  BY <1>1, JudgedInvInit, JudgedInvNext, AgentTypeCorrect, PTL DEF Spec

-----------------------------------------------------------------------------
(* What a run leaves behind. *)

\* The private copies exist from materialize to Clean, and after a failed Clean
\* the run never gets back to the loop.
CopiesInv ==
  pc \in Early \union (Unjudged \ {"evaluate"}) \union {"verifyVerdict", "switch"} => private = Absent

\* The attempts are appended once each, the status is the guard's from the last
\* verifyDigests on, and a result without an error is published and cleaned up.
RunInv ==
  /\ pc \in Early => recorded = 0
  /\ pc \in Unjudged \union (Judging \ {"switch"}) => recorded + 1 = attempt
  /\ pc = "switch" => recorded = attempt /\ status = evaluation.status
  /\ pc \in {"close", "done"} /\ ~err => recorded = attempt /\ status = evaluation.status
                                        /\ runJson = Record(outcome, status)
  /\ pc = "close" => tree = "open"
  /\ pc = "done" /\ ~err => tree = "removed"

\* Somebody who edits copies of the control files needs them to be there.
LEMMA EditNeedsCopies == Edit /\ private = Absent => private' = Absent
<1> SUFFICES ASSUME Edit, private = Absent PROVE private' = Absent
  OBVIOUS
<1>1. PICK step \in ControlSteps : private' = private \/ private = step[1]
  BY DEF Edit
<1>2. step[1] \in Control
  <2>1. step \in Control \X Control
    OBVIOUS
  <2>2. QED
    BY ONLY <2>1
<1>3. QED
  BY <1>1, <1>2

\* Every step keeps the private copies within one evaluation.
LEMMA CopiesInvNext == TypeOK /\ LoopInv /\ CopiesInv /\ [Next]_vars => CopiesInv'
<1> SUFFICES ASSUME TypeOK, LoopInv, CopiesInv, [Next]_vars PROVE CopiesInv'
  OBVIOUS
<1> USE LabelSets, VerifyLabels DEF host, result, judged, unjudged, Goto
<1>1. CASE FailingStep
  BY <1>1, FailingEnds DEF CopiesInv
<1>2. CASE Establish \/ Identity \/ createWorktree \/ AgentPath \/ Begin
  BY <1>2 DEF Establish, Identity, createWorktree, AgentPath, Begin, CopiesInv
<1>3. CASE verifyDigests
  BY <1>3 DEF verifyDigests, CopiesInv
<1>4. CASE AgentRuns \/ Derive \/ materialize
  BY <1>4 DEF AgentRuns, Derive, materialize, CopiesInv
<1>5. CASE Evaluate \/ EvaluateFails \/ VerifyPrivate
  BY <1>5 DEF Evaluate, EvaluateFails, VerifyPrivate, CopiesInv
<1>6. CASE Clean
  BY <1>6 DEF Clean, EvaluationFailed, CopiesInv
<1>7. CASE VerdictStands \/ Retry
  BY <1>7 DEF VerdictStands, Retry, CopiesInv
<1>8. CASE Review \/ Escalate
  BY <1>8, ReviewEnds, EscalateEnds DEF LoopInv, CopiesInv
<1>9. CASE Close
  BY <1>9, CloseEnds DEF CopiesInv
<1>10. CASE Edit
  <2>1. pc' = pc
    BY <1>10 DEF Edit
  <2>2. QED
    BY <1>10, <2>1, EditNeedsCopies DEF CopiesInv
<1>11. CASE Expire \/ UNCHANGED vars
  BY <1>11 DEF Expire, vars, CopiesInv
<1>12. QED
  BY <1>1, <1>2, <1>3, <1>4, <1>5, <1>6, <1>7, <1>8, <1>9, <1>10, <1>11 DEF Next, Step, FailingStep

\* No attempt begins, no agent runs and no copies are made while the private
\* copies of an earlier evaluation are still there.
THEOREM NoCopiesAroundTheAgent == Spec => []CopiesAreGone
<1>1. Init => CopiesInv
  BY DEF Init, CopiesInv
<1>2. CopiesInv => CopiesAreGone
  BY LabelSets DEF CopiesInv, CopiesAreGone
<1>3. QED
  BY <1>1, <1>2, LoopInvInit, LoopInvNext, CopiesInvNext, AgentTypeCorrect, PTL DEF Spec

\* finish without an error has published what it returns.
LEMMA FinishPublishes ==
  ASSUME NEW o, NEW s, NEW failed, finish(o, s, failed), s # "none"
  PROVE  status' = s /\ (~err' => runJson' = Record(outcome', status'))
BY DEF finish, Failed

\* A run that ends through the switch, whatever it reports.
LEMMA VerdictEnds ==
  ASSUME TypeOK, LoopInv, RunInv, Review \/ Escalate
  PROVE  RunInv'
<1>1. pc = "switch" /\ evaluation.status # "none" /\ recorded = attempt
  BY LabelSets DEF Review, Escalate, Final, RunInv
<1>2. pc' = "close" /\ tree' = tree /\ tree = "open" /\ UNCHANGED <<attempt, evaluation, recorded>>
  BY <1>1, LabelSets, ReviewEnds, EscalateEnds DEF Review, Escalate, LoopInv, Bookkeeping
<1>3. PICK o, failed : finish(o, evaluation.status, failed)
  BY Zenon DEF Review, Escalate
<1>4. status' = evaluation.status /\ (~err' => runJson' = Record(outcome', status'))
  BY <1>1, <1>3, FinishPublishes
<1>5. QED
  BY <1>1, <1>2, <1>4, LabelSets DEF RunInv

\* Every step keeps the account of the run.
LEMMA RunInvNext == TypeOK /\ LoopInv /\ RunInv /\ [Next]_vars => RunInv'
<1> SUFFICES ASSUME TypeOK, LoopInv, RunInv, [Next]_vars PROVE RunInv'
  OBVIOUS
<1> USE LabelSets, VerifyLabels DEF host, result, judged, unjudged, Goto
<1>1. CASE FailingStep
  BY <1>1, FailingEnds DEF RunInv
<1>2. CASE Establish \/ Identity \/ createWorktree
  BY <1>2 DEF Establish, Identity, createWorktree, RunInv
<1>3. CASE AgentPath
  BY <1>3 DEF AgentPath, RunInv
<1>4. CASE Begin \/ verifyDigests
  BY <1>4 DEF Begin, verifyDigests, RunInv
<1>5. CASE AgentRuns \/ Derive \/ materialize
  BY <1>5 DEF AgentRuns, Derive, materialize, RunInv
<1>6. CASE Evaluate \/ EvaluateFails \/ VerifyPrivate \/ Clean
  BY <1>6 DEF Evaluate, EvaluateFails, VerifyPrivate, Clean, RunInv
<1>7. CASE VerdictStands
  BY <1>7 DEF VerdictStands, RunInv
<1>8. CASE Retry
  BY <1>8 DEF Retry, RunInv, TypeOK
<1>9. CASE Review \/ Escalate
  BY <1>9, VerdictEnds
<1>10. CASE Close
  <2>1. PICK closed \in BOOLEAN : CloseTree(closed)
    BY <1>10 DEF Close
  <2>2. pc = "close" /\ pc' = "done" /\ UNCHANGED <<attempt, recorded, status, evaluation>>
    BY <1>10 DEF Close
  <2>3. ~err' => ~err /\ closed /\ UNCHANGED <<outcome, runJson>> /\ tree' = "removed"
    BY <2>1 DEF CloseTree
  <2>4. QED
    BY <2>2, <2>3 DEF RunInv
<1>11. CASE Edit \/ Expire \/ UNCHANGED vars
  BY <1>11 DEF Edit, Expire, vars, RunInv
<1>12. QED
  BY <1>1, <1>2, <1>3, <1>4, <1>5, <1>6, <1>7, <1>8, <1>9, <1>10, <1>11 DEF Next, Step, FailingStep

\* The account of the run is invariant.
LEMMA RunIsAccounted == Spec => [](LoopInv /\ RunInv)
<1>1. Init => RunInv
  BY LabelSets DEF Init, RunInv
<1>2. QED
  BY <1>1, LoopInvInit, LoopInvNext, RunInvNext, AgentTypeCorrect, PTL DEF Spec

\* A verdict is reported only by a run that has no error.
LEMMA VerdictHasNoError ==
  ASSUME NEW code \in {0, 2, 3}, Exited(code)
  PROVE  pc = "done" /\ ~err
BY DEF Exited, ExitCode

\* When the harness exits with a verdict, the published run.json carries that
\* outcome and the guard's status, and every attempt is listed in it.
THEOREM RecordIsTrue == Spec => []RecordAgrees
<1>1. RunInv => RecordAgrees
  BY VerdictHasNoError DEF RunInv, RecordAgrees
<1>2. QED
  BY <1>1, RunIsAccounted, PTL

\* When the harness exits with a verdict, the worktree it made is removed.
THEOREM WorktreeIsRemoved == Spec => []TreeRemoved
<1>1. RunInv => TreeRemoved
  BY VerdictHasNoError DEF RunInv, TreeRemoved
<1>2. QED
  BY <1>1, RunIsAccounted, PTL
=============================================================================
