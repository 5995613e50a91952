------------------------------ MODULE AgentLoop ------------------------------
(***************************************************************************)
(* What the experimental agent harness promises: a bounded sequence of     *)
(* attempts, each judged by at most one verdict of the guard, in which     *)
(* only BLOCK earns another attempt and only a verdict decides how the     *)
(* process exits; anything else that goes wrong exits 1.                   *)
(***************************************************************************)
EXTENDS Naturals

CONSTANTS MaxAttempts, Verdict

VARIABLES tries, verdict, exit

vars == <<tries, verdict, exit>>

Running == 64   \* not an exit code of a run that started

Init == tries = 0 /\ verdict = "none" /\ exit = Running

Try ==
  /\ exit = Running
  /\ tries = 0 \/ verdict = "BLOCK"
  /\ tries < MaxAttempts
  /\ tries' = tries + 1 /\ verdict' = "none"
  /\ UNCHANGED exit

Judge ==
  /\ exit = Running /\ tries > 0 /\ verdict = "none"
  /\ verdict' \in Verdict
  /\ UNCHANGED <<tries, exit>>

Earned(code) ==
  \/ code = 1
  \/ code = 0 /\ verdict \in {"PASS", "WARN"}
  \/ code = 2 /\ verdict = "BLOCK" /\ tries = MaxAttempts
  \/ code = 3 /\ verdict = "INCOMPLETE"

Finish ==
  /\ exit = Running
  /\ \E code \in {0, 1, 2, 3} : Earned(code) /\ exit' = code
  /\ UNCHANGED <<tries, verdict>>

Next == Try \/ Judge \/ Finish

Safety == Init /\ [][Next]_vars

\* The loop keeps going until it has exited.
Spec == Safety /\ WF_vars(Next)
=============================================================================
