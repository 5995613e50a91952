----------------------- MODULE EvidenceDiscoveryProofs -----------------------
(***************************************************************************)
(* The analysis fails closed, for any number of adapters, sources, files   *)
(* and settings: a status that lets somebody act was decided on all the    *)
(* evidence that the configuration requires.                               *)
(***************************************************************************)
EXTENDS EvidenceDiscovery, TLAPS

USE DiscoveryAssumption

\* What the assumption says of one source of a well-typed state.
LEMMA ConfType ==
  ASSUME TypeOK, NEW s \in Source
  PROVE  /\ conf[s].adapter \in Adapter
         /\ conf[s].required \in BOOLEAN
         /\ conf[s].setting \in Setting
         /\ conf[s].items \in SUBSET Item
BY DEF TypeOK

\* Adapters are the positions of a non-empty sequence.
LEMMA AdapterType ==
  /\ Adapter = 1 .. Len(Class) /\ Len(Class) \in Nat \ {0}
  /\ \A a \in Adapter : Class[a] \in Classes
BY DEF Adapter

\* An error return keeps the types.
LEMMA AbortType ==
  ASSUME TypeOK, Abort, violated' \in BOOLEAN
  PROVE  TypeOK'
<1>1. reported' \in SUBSET Diagnostics
  BY DEF Abort, ChangeSourceDiagnostics, Diagnostic, Diagnostics
<1>2. QED
  BY <1>1 DEF TypeOK, Abort, inputs, SourcesOf, Statuses

\* The types of the analysis are invariant.
THEOREM DiscoveryTypeCorrect == Spec => []TypeOK
<1>1. Init => TypeOK
  <2>1. DOMAIN NoTasks = {} /\ NoTasks \in [{} -> [required : BOOLEAN, settings : SUBSET Setting]]
    BY DEF NoTasks
  <2>2. 1 \in Adapter
    BY AdapterType
  <2>3. QED
    BY <2>1, <2>2 DEF Init, TypeOK
<1>2. TypeOK /\ [Next]_vars => TypeOK'
  <2> SUFFICES ASSUME TypeOK, [Next]_vars PROVE TypeOK'
    OBVIOUS
  <2> USE AdapterType
  <2>1. CASE Cancel
    BY <2>1 DEF TypeOK, Cancel, inputs, SourcesOf
  <2>2. CASE PrepareFails \/ LimitsFail \/ FinalFails
    BY <2>2, AbortType DEF TypeOK, PrepareFails, LimitsFail, FinalFails
  <2>3. CASE Prepare
    BY <2>3 DEF TypeOK, Prepare, inputs, SourcesOf
  <2>4. ASSUME NEW s \in Source, CollectCancelled(s) \/ CollectAborts(s) PROVE TypeOK'
    BY <2>4, AbortType DEF TypeOK, CollectCancelled, CollectAborts
  <2>5. ASSUME NEW s \in Source, CollectGap(s) PROVE TypeOK'
    <3>1. SourceDiag(s) \in Diagnostics
      BY ConfType DEF SourceDiag, Diagnostic, Diagnostics
    <3>2. QED
      BY <2>5, <3>1 DEF TypeOK, CollectGap, inputs, SourcesOf
  <2>6. ASSUME NEW s \in Source, NEW failed \in SUBSET Item, CollectItems(s, failed) PROVE TypeOK'
    <3>1. {ItemDiag(cur, i, conf[s].required) : i \in failed} \in SUBSET Diagnostics
      BY ConfType DEF TypeOK, ItemDiag, Diagnostic, Diagnostics
    <3>2. ASSUME NEW i \in Item
          PROVE  MergedTask(s, i) \in [required : BOOLEAN, settings : SUBSET Setting]
      BY ConfType DEF TypeOK, MergedTask, RequiredByAny
    <3>3. /\ DOMAIN tasks' = DOMAIN tasks \union (conf[s].items \ failed)
          /\ \A i \in DOMAIN tasks' :
               tasks'[i] = IF i \in conf[s].items \ failed THEN MergedTask(s, i) ELSE tasks[i]
      BY <2>6 DEF CollectItems
    <3>4. /\ DOMAIN tasks' \in SUBSET Item
          /\ tasks' \in [DOMAIN tasks' -> [required : BOOLEAN, settings : SUBSET Setting]]
          /\ DOMAIN tasks \subseteq DOMAIN tasks'
      <4>1. DOMAIN tasks' \in SUBSET Item /\ DOMAIN tasks \subseteq DOMAIN tasks'
        BY <3>3, ConfType DEF TypeOK
      <4>2. \A i \in DOMAIN tasks' : tasks'[i] \in [required : BOOLEAN, settings : SUBSET Setting]
        BY <3>2, <3>3, <4>1 DEF TypeOK
      <4>3. tasks' = [i \in DOMAIN tasks' |-> tasks'[i]]
        BY <2>6 DEF CollectItems
      <4>4. QED
        BY <4>1, <4>2, <4>3
    <3>5. violated' \in BOOLEAN
      BY <2>6 DEF CollectItems
    <3>6. QED
      BY <2>6, <3>1, <3>4, <3>5 DEF TypeOK, CollectItems, inputs, SourcesOf
  <2>7. CASE CollectDone
    BY <2>7 DEF TypeOK, CollectDone, inputs, SourcesOf
  <2>8. CASE LoadCancelled
    <3>1. CASE Class[cur] = "perses"
      BY <2>8, <3>1 DEF TypeOK, LoadCancelled, inputs, SourcesOf
    <3>2. CASE Class[cur] # "perses"
      BY <2>8, <3>2, AbortType DEF TypeOK, LoadCancelled
    <3>3. QED
      BY <3>1, <3>2
  <2>9. ASSUME NEW i \in Item, LoadGap(i) PROVE TypeOK'
    <3>1. ItemDiag(cur, i, tasks[i].required) \in Diagnostics
      BY <2>9 DEF TypeOK, LoadGap, Loads, Loading, ItemDiag, Diagnostic, Diagnostics
    <3>2. QED
      BY <2>9, <3>1 DEF TypeOK, LoadGap, Gap, inputs, SourcesOf
  <2>10. ASSUME NEW i \in Item, LoadOpenFails(i) PROVE TypeOK'
    BY <2>10, AbortType DEF TypeOK, LoadOpenFails
  <2>11. ASSUME NEW i \in Item, LoadClean(i) PROVE TypeOK'
    BY <2>11 DEF TypeOK, LoadClean, inputs, SourcesOf
  <2>12. CASE NextAdapter
    <3>1. DOMAIN NoTasks = {} /\ NoTasks \in [{} -> [required : BOOLEAN, settings : SUBSET Setting]]
      BY DEF NoTasks
    <3>2. QED
      BY <2>12, <3>1 DEF TypeOK, NextAdapter, inputs, SourcesOf
  <2>13. CASE Enrich
    <3>1. Diagnostic(0, 0, 0, FALSE) \in Diagnostics
      BY DEF Diagnostic, Diagnostics
    <3>2. QED
      BY <2>13, <3>1 DEF TypeOK, Enrich, inputs, SourcesOf
  <2>14. CASE FinalPasses
    BY <2>14 DEF TypeOK, FinalPasses, inputs, SourcesOf
  <2>15. ASSUME NEW answer \in Statuses, NEW all \in SUBSET Diagnostics, Conclude(answer, all)
         PROVE  TypeOK'
    BY <2>15 DEF TypeOK, Conclude, inputs, SourcesOf
  <2>16. \A F, B, D : aggregateStatus(F, B, D) \in Statuses
    BY DEF aggregateStatus, Statuses
  <2>17. \A D \in ChangeSourceDiagnostics : D \in SUBSET Diagnostics
    BY DEF ChangeSourceDiagnostics, Diagnostic, Diagnostics
  <2>18. traceMappingDiagnostics \in SUBSET Diagnostics
    BY DEF traceMappingDiagnostics, Diagnostic, Diagnostics
  <2>19. ASSUME NEW D \in ChangeSourceDiagnostics, NEW unmapped \in BOOLEAN
         PROVE  AllDiagnostics(D, unmapped) \in SUBSET Diagnostics
    BY <2>17, <2>18 DEF AllDiagnostics, TypeOK
  <2>20. CASE Decide \/ DecideFails
    <3>1. PICK D \in ChangeSourceDiagnostics, unmapped \in BOOLEAN, answer \in Statuses :
            Conclude(answer, AllDiagnostics(D, unmapped))
      <4>1. "ERROR" \in Statuses
        BY DEF Statuses
      <4>2. QED
        BY <2>16, <2>20, <4>1, Zenon DEF Decide, DecideFails
    <3>2. QED
      BY <2>15, <2>19, <3>1
  <2>21. CASE UNCHANGED vars
    BY <2>21 DEF TypeOK, vars, inputs, SourcesOf
  <2>22. QED
    BY <2>1, <2>2, <2>3, <2>4, <2>5, <2>6, <2>7, <2>8, <2>9, <2>10, <2>11, <2>12, <2>13,
       <2>14, <2>20, <2>21 DEF Next, Step
<1>3. QED
  BY <1>1, <1>2, PTL DEF Spec

-----------------------------------------------------------------------------
(* FailClosed.  The invariant follows a required source from the moment it  *)
(* is collected: Accounted.  At the decision nothing is pending and nothing *)
(* is cancelled, so either all is loaded or a required diagnostic makes the *)
(* status INCOMPLETE.                                                       *)

DiscoveryInv == Stages /\ Accounted /\ FailClosed

\* What Accounted says of one item.
Kept(s, i) ==
  <<conf[s].adapter, i>> \in loaded \/ RequiredGap \/ Pending(s, i) \/ (cancelled /\ pc # "decide")

\* An error return decides nothing.
LEMMA AbortSafe == Abort => DiscoveryInv'
BY DEF Abort, DiscoveryInv, Stages, Accounted, FailClosed, Decided

\* While no status is given, Accounted is what has to be kept.
LEMMA UndecidedSafe ==
  ASSUME Stages', status' = "none",
         \A s \in Source : (conf[s].required /\ Collected(s))' =>
           \A i \in conf'[s].items : Kept(s, i)'
  PROVE  DiscoveryInv'
BY DEF DiscoveryInv, Accounted, FailClosed, Decided, Kept

\* A required diagnostic, from this source or in these tasks, is a required gap.
LEMMA GapRecorded ==
  ASSUME NEW D, NEW d \in D, diags' = diags \union D, d.required
  PROVE  RequiredGap'
BY DEF RequiredGap

\* A decided status is never reached over a required diagnostic.
LEMMA RequiredIsIncomplete ==
  ASSUME NEW F, NEW B, NEW D, NEW d \in D, d.required
  PROVE  aggregateStatus(F, B, D) = "INCOMPLETE"
BY DEF aggregateStatus

\* PASS, WARN and BLOCK mean that all required evidence was loaded in full.
THEOREM AnalysisFailsClosed == Spec => []FailClosed
<1>1. Init => DiscoveryInv
  BY AdapterType DEF Init, DiscoveryInv, Stages, Accounted, FailClosed, Decided, Collected,
                     TypeOK, SourcesOf
<1>2. TypeOK /\ TypeOK' /\ DiscoveryInv /\ [Next]_vars => DiscoveryInv'
  <2> SUFFICES ASSUME TypeOK, TypeOK', DiscoveryInv, [Next]_vars PROVE DiscoveryInv'
    OBVIOUS
  <2> USE AdapterType
  <2>0. ASSUME pc # "done", NEW s \in Source, conf[s].required, Collected(s), NEW i \in conf[s].items
        PROVE  Kept(s, i)
    BY <2>0 DEF DiscoveryInv, Accounted, Kept
  <2>1. CASE Cancel
    <3>1. Stages' /\ status' = "none"
      BY <2>1 DEF Cancel, DiscoveryInv, Stages
    <3>2. ASSUME NEW s \in Source, (conf[s].required /\ Collected(s))', NEW i \in conf'[s].items
          PROVE  Kept(s, i)'
      <4>1. Kept(s, i)
        BY <2>0, <2>1, <3>2 DEF Cancel, Collected, inputs
      <4>2. QED
        BY <2>1, <4>1 DEF Cancel, Kept, RequiredGap, Pending, inputs
    <3>3. QED
      BY <3>1, <3>2, UndecidedSafe
  <2>2. CASE PrepareFails \/ LimitsFail \/ FinalFails
    BY <2>2, AbortSafe DEF PrepareFails, LimitsFail, FinalFails
  <2>3. CASE Prepare
    <3>1. Stages' /\ status' = "none"
      BY <2>3 DEF Prepare, DiscoveryInv, Stages
    <3>2. ASSUME NEW s \in Source, (conf[s].required /\ Collected(s))', NEW i \in conf'[s].items
          PROVE  Kept(s, i)'
      <4>1. Kept(s, i)
        BY <2>0, <2>3, <3>2 DEF Prepare, Collected, inputs
      <4>2. QED
        BY <2>3, <4>1 DEF Prepare, Kept, RequiredGap, Pending, inputs
    <3>3. QED
      BY <3>1, <3>2, UndecidedSafe
  <2>4. ASSUME NEW s \in Source, CollectCancelled(s) \/ CollectAborts(s) PROVE DiscoveryInv'
    BY <2>4, AbortSafe DEF CollectCancelled, CollectAborts
  <2>5. ASSUME NEW t \in Source, CollectGap(t) PROVE DiscoveryInv'
    <3>1. Stages' /\ status' = "none"
      BY <2>5 DEF CollectGap, Collecting, DiscoveryInv, Stages
    <3>2. ASSUME NEW s \in Source, (conf[s].required /\ Collected(s))', NEW i \in conf'[s].items
          PROVE  Kept(s, i)'
      <4>1. CASE s = t
        <5>1. SourceDiag(t).required
          BY <2>5, <3>2, <4>1 DEF SourceDiag, Diagnostic, CollectGap, inputs
        <5>2. QED
          BY <2>5, <5>1, GapRecorded DEF CollectGap, Kept
      <4>2. CASE s # t
        <5>1. Kept(s, i)
          BY <2>0, <2>5, <3>2, <4>2 DEF CollectGap, Collecting, Collected, inputs
        <5>2. QED
          BY <2>5, <5>1 DEF CollectGap, Kept, RequiredGap, Pending, inputs
      <4>3. QED
        BY <4>1, <4>2
    <3>3. QED
      BY <3>1, <3>2, UndecidedSafe
  <2>6. ASSUME NEW t \in Source, NEW failed \in SUBSET Item, CollectItems(t, failed)
        PROVE  DiscoveryInv'
    <3>1. Stages' /\ status' = "none"
      BY <2>6 DEF CollectItems, Collecting, DiscoveryInv, Stages
    <3>2. /\ DOMAIN tasks' = DOMAIN tasks \union (conf[t].items \ failed)
          /\ \A i \in DOMAIN tasks' :
               tasks'[i] = IF i \in conf[t].items \ failed THEN MergedTask(t, i) ELSE tasks[i]
      BY <2>6 DEF CollectItems
    <3>3. conf[t].adapter = cur
      BY <2>6 DEF CollectItems, Collecting, TypeOK, SourcesOf
    <3>4. ASSUME NEW s \in Source, (conf[s].required /\ Collected(s))', NEW i \in conf'[s].items
          PROVE  Kept(s, i)'
      <4>1. CASE s = t /\ i \in failed
        <5>1. ItemDiag(cur, i, conf[t].required) \in {ItemDiag(cur, j, conf[t].required) : j \in failed}
          BY <4>1
        <5>2. ItemDiag(cur, i, conf[t].required).required
          BY <2>6, <3>4, <4>1 DEF ItemDiag, Diagnostic, CollectItems, inputs
        <5>3. QED
          BY <2>6, <5>1, <5>2, GapRecorded DEF CollectItems, Kept
      <4>2. CASE s = t /\ i \notin failed
        <5>1. i \in DOMAIN tasks' /\ tasks'[i] = MergedTask(t, i)
          BY <2>6, <3>2, <3>4, <4>2 DEF CollectItems, inputs
        <5>2. tasks'[i].required
          BY <2>6, <3>4, <4>2, <5>1 DEF MergedTask, RequiredByAny, CollectItems, inputs
        <5>3. QED
          BY <2>6, <3>3, <3>4, <4>2, <5>1, <5>2 DEF Kept, Pending, CollectItems, Collecting, inputs
      <4>3. CASE s # t
        <5>1. Kept(s, i)
          BY <2>0, <2>6, <3>4, <4>3 DEF CollectItems, Collecting, Collected, inputs
        <5>2. CASE ~Pending(s, i)
          BY <2>6, <5>1, <5>2 DEF CollectItems, Collecting, Kept, RequiredGap, inputs
        <5>3. CASE Pending(s, i)
          <6>1. i \in DOMAIN tasks' /\ tasks'[i].required
            <7>1. i \in DOMAIN tasks /\ tasks[i].required
              BY <5>3 DEF Pending
            <7>2. MergedTask(t, i).required
              BY <7>1, ConfType DEF MergedTask, RequiredByAny, TypeOK
            <7>3. QED
              BY <3>2, <7>1, <7>2
          <6>2. QED
            BY <2>6, <5>3, <6>1 DEF Kept, Pending, CollectItems, Collecting, inputs
        <5>4. QED
          BY <5>2, <5>3
      <4>4. QED
        BY <4>1, <4>2, <4>3
    <3>5. QED
      BY <3>1, <3>4, UndecidedSafe
  <2>7. CASE CollectDone
    <3>1. Stages' /\ status' = "none"
      BY <2>7 DEF CollectDone, DiscoveryInv, Stages
    <3>2. ASSUME NEW s \in Source, (conf[s].required /\ Collected(s))', NEW i \in conf'[s].items
          PROVE  Kept(s, i)'
      <4>1. Kept(s, i)
        BY <2>0, <2>7, <3>2 DEF CollectDone, Collected, inputs
      <4>2. QED
        BY <2>7, <4>1 DEF CollectDone, Kept, RequiredGap, Pending, inputs
    <3>3. QED
      BY <3>1, <3>2, UndecidedSafe
  <2>8. CASE LoadCancelled
    <3>1. CASE Class[cur] = "perses"
      <4>1. Stages' /\ status' = "none"
        BY <2>8, <3>1 DEF LoadCancelled, DiscoveryInv, Stages
      <4>2. cancelled' /\ pc' = "load"
        BY <2>8, <3>1 DEF LoadCancelled
      <4>3. QED
        BY <4>1, <4>2, UndecidedSafe DEF Kept
    <3>2. CASE Class[cur] # "perses"
      BY <2>8, <3>2, AbortSafe DEF LoadCancelled
    <3>3. QED
      BY <3>1, <3>2
  <2>9. ASSUME NEW j \in Item, LoadGap(j) PROVE DiscoveryInv'
    <3>1. Stages' /\ status' = "none"
      BY <2>9 DEF LoadGap, Loads, Loading, DiscoveryInv, Stages
    <3>2. ASSUME NEW s \in Source, (conf[s].required /\ Collected(s))', NEW i \in conf'[s].items
          PROVE  Kept(s, i)'
      <4>1. Kept(s, i)
        BY <2>0, <2>9, <3>2 DEF LoadGap, Loads, Loading, Collected, inputs
      <4>2. CASE Pending(s, i) /\ i = j
        <5>1. ItemDiag(cur, j, tasks[j].required).required
          BY <4>2 DEF ItemDiag, Diagnostic, Pending
        <5>2. QED
          BY <2>9, <5>1, GapRecorded DEF LoadGap, Gap, Kept
      <4>3. CASE ~(Pending(s, i) /\ i = j)
        BY <2>9, <4>1, <4>3 DEF LoadGap, Gap, Kept, RequiredGap, Pending, inputs
      <4>4. QED
        BY <4>2, <4>3
    <3>3. QED
      BY <3>1, <3>2, UndecidedSafe
  <2>10. ASSUME NEW j \in Item, LoadOpenFails(j) PROVE DiscoveryInv'
    BY <2>10, AbortSafe DEF LoadOpenFails
  <2>11. ASSUME NEW j \in Item, LoadClean(j) PROVE DiscoveryInv'
    <3>1. Stages' /\ status' = "none"
      BY <2>11 DEF LoadClean, Loads, Loading, DiscoveryInv, Stages
    <3>2. ASSUME NEW s \in Source, (conf[s].required /\ Collected(s))', NEW i \in conf'[s].items
          PROVE  Kept(s, i)'
      <4>1. Kept(s, i)
        BY <2>0, <2>11, <3>2 DEF LoadClean, Loads, Loading, Collected, inputs
      <4>2. QED
        BY <2>11, <4>1 DEF LoadClean, Kept, RequiredGap, Pending, inputs
    <3>3. QED
      BY <3>1, <3>2, UndecidedSafe
  <2>12. CASE NextAdapter
    <3>1. Stages' /\ status' = "none"
      BY <2>12 DEF NextAdapter, DiscoveryInv, Stages, TypeOK
    <3>2. ASSUME NEW s \in Source, (conf[s].required /\ Collected(s))', NEW i \in conf'[s].items
          PROVE  Kept(s, i)'
      <4>1. Collected(s)
        <5>1. todo = {} /\ conf[s].adapter \in Nat /\ cur \in Nat
          BY <2>12, ConfType DEF NextAdapter, DiscoveryInv, Stages, TypeOK
        <5>2. CASE cur + 1 \in Adapter
          BY <2>12, <3>2, <5>1, <5>2 DEF NextAdapter, Collected, SourcesOf, inputs
        <5>3. CASE cur + 1 \notin Adapter
          BY <2>12, <3>2, <5>1, <5>3 DEF NextAdapter, Collected, inputs
        <5>4. QED
          BY <5>2, <5>3
      <4>2. Kept(s, i) /\ ~Pending(s, i)
        BY <2>0, <2>12, <3>2, <4>1 DEF NextAdapter, Pending, inputs
      <4>3. QED
        BY <2>12, <4>2 DEF NextAdapter, Kept, RequiredGap, inputs
    <3>3. QED
      BY <3>1, <3>2, UndecidedSafe
  <2>13. CASE Enrich
    <3>1. Stages' /\ status' = "none"
      BY <2>13 DEF Enrich, DiscoveryInv, Stages
    <3>2. ASSUME NEW s \in Source, (conf[s].required /\ Collected(s))', NEW i \in conf'[s].items
          PROVE  Kept(s, i)'
      <4>1. Kept(s, i)
        BY <2>0, <2>13, <3>2 DEF Enrich, Collected, inputs
      <4>2. QED
        BY <2>13, <4>1 DEF Enrich, Kept, RequiredGap, Pending, inputs
    <3>3. QED
      BY <3>1, <3>2, UndecidedSafe
  <2>14. CASE FinalPasses
    <3>1. Stages' /\ status' = "none"
      BY <2>14 DEF FinalPasses, DiscoveryInv, Stages
    <3>2. ASSUME NEW s \in Source, (conf[s].required /\ Collected(s))', NEW i \in conf'[s].items
          PROVE  Kept(s, i)'
      <4>1. Kept(s, i)
        BY <2>0, <2>14, <3>2 DEF FinalPasses, Collected, inputs
      <4>2. QED
        BY <2>14, <4>1 DEF FinalPasses, Stopped, Kept, RequiredGap, Pending, inputs
    <3>3. QED
      BY <3>1, <3>2, UndecidedSafe
  <2>15. ASSUME NEW answer, NEW all, Conclude(answer, all),
                RequiredGap => answer \in {"INCOMPLETE", "ERROR"}
         PROVE  DiscoveryInv'
    <3>1. Stages' /\ Accounted'
      BY <2>15 DEF Conclude, Stages, Accounted
    <3>2. FailClosed'
      <4> SUFFICES ASSUME Decided', NEW s \in Source, conf'[s].required, NEW i \in conf'[s].items
                   PROVE  <<conf'[s].adapter, i>> \in loaded'
        BY DEF FailClosed, CleanlyLoaded
      <4>1. ~RequiredGap
        BY <2>15 DEF Conclude, Decided
      <4>2. Collected(s)
        BY <2>15, ConfType DEF Conclude, DiscoveryInv, Stages, Collected, TypeOK
      <4>3. Kept(s, i)
        BY <2>0, <2>15, <4>2 DEF Conclude, inputs
      <4>4. QED
        BY <2>15, <4>1, <4>3 DEF Conclude, Kept, Pending, inputs
    <3>3. QED
      BY <3>1, <3>2 DEF DiscoveryInv
  <2>16. CASE Decide
    <3>1. PICK D \in ChangeSourceDiagnostics, unmapped \in BOOLEAN :
            \E F \in {{}, {[uncertain |-> FALSE]}, {[uncertain |-> TRUE]}} : \E B \in {{}, F} :
              Conclude(aggregateStatus(F, B, AllDiagnostics(D, unmapped)), AllDiagnostics(D, unmapped))
      BY <2>16, Zenon DEF Decide
    <3>2. PICK F, B :
            Conclude(aggregateStatus(F, B, AllDiagnostics(D, unmapped)), AllDiagnostics(D, unmapped))
      BY <3>1, Zenon
    <3>3. RequiredGap => aggregateStatus(F, B, AllDiagnostics(D, unmapped)) \in {"INCOMPLETE", "ERROR"}
      BY RequiredIsIncomplete DEF RequiredGap, AllDiagnostics
    <3>4. QED
      BY <2>15, <3>2, <3>3
  <2>17. CASE DecideFails
    BY <2>15, <2>17 DEF DecideFails
  <2>18. CASE UNCHANGED vars
    BY <2>18 DEF vars, inputs, DiscoveryInv, Stages, Accounted, Collected, RequiredGap, Pending,
                 FailClosed, Decided, CleanlyLoaded
  <2>19. QED
    BY <2>1, <2>2, <2>3, <2>4, <2>5, <2>6, <2>7, <2>8, <2>9, <2>10, <2>11, <2>12, <2>13,
       <2>14, <2>16, <2>17, <2>18 DEF Next, Step
<1>3. DiscoveryInv => FailClosed
  BY DEF DiscoveryInv
<1>4. QED
  BY <1>1, <1>2, <1>3, DiscoveryTypeCorrect, PTL DEF Spec

-----------------------------------------------------------------------------
(* NoSilentGap and PassIsComplete.  Every item of every collected source,   *)
(* optional ones included, leaves a trace: it is loaded, it or its source   *)
(* has a diagnostic, it waits in a task, or the analysis was cancelled.     *)

Noted(s, i, D) == SourceDiag(s) \in D \/ \E r \in BOOLEAN : ItemDiag(conf[s].adapter, i, r) \in D

Waiting(s, i) ==
  /\ pc \in {"collect", "load"} /\ conf[s].adapter = cur
  /\ i \in DOMAIN tasks /\ (pc = "load" => i \in queue)

Traced(s, i) ==
  \/ <<conf[s].adapter, i>> \in loaded \/ Noted(s, i, diags) \/ Waiting(s, i)
  \/ cancelled /\ pc # "decide"

AllTraced == pc # "done" => \A s \in Source : Collected(s) => \A i \in conf[s].items : Traced(s, i)

TraceInv == Stages /\ AllTraced /\ NoSilentGap /\ (status = "PASS" => reported = {})

\* An error return promises nothing about gaps.
LEMMA AbortTraces == Abort => TraceInv'
BY DEF Abort, TraceInv, Stages, AllTraced, NoSilentGap

\* While no status is given, AllTraced is what has to be kept.
LEMMA UndecidedTraces ==
  ASSUME Stages', status' = "none",
         \A s \in Source : Collected(s)' => \A i \in conf'[s].items : Traced(s, i)'
  PROVE  TraceInv'
BY DEF TraceInv, AllTraced, NoSilentGap

\* A diagnostic that is recorded stays recorded.
LEMMA NotedStays ==
  ASSUME NEW s, NEW i, NEW D, NEW E, D \subseteq E, Noted(s, i, D)
  PROVE  Noted(s, i, E)
BY DEF Noted

\* The trace of an item survives a step that drops no task and stays where it is.
LEMMA TraceStays ==
  ASSUME NEW s \in Source, NEW i, Traced(s, i), conf' = conf, pc' = pc, cur' = cur,
         loaded \subseteq loaded', diags \subseteq diags', cancelled => cancelled',
         DOMAIN tasks \subseteq DOMAIN tasks', i \in queue => i \in queue'
  PROVE  Traced(s, i)'
<1>1. Noted(s, i, diags) => Noted(s, i, diags)'
  BY DEF Noted, SourceDiag, ItemDiag, Diagnostic
<1>2. QED
  BY <1>1 DEF Traced, Waiting

\* Every step of the analysis keeps the traces.
LEMMA TraceInvNext == TypeOK /\ TypeOK' /\ TraceInv /\ [Next]_vars => TraceInv'
<1> SUFFICES ASSUME TypeOK, TypeOK', TraceInv, [Next]_vars PROVE TraceInv'
  OBVIOUS
<1> USE AdapterType
<1>0. ASSUME pc # "done", NEW s \in Source, Collected(s), NEW i \in conf[s].items
      PROVE  Traced(s, i)
  BY <1>0 DEF TraceInv, AllTraced
<1>1. CASE Cancel
  <2>1. Stages' /\ status' = "none"
    BY <1>1 DEF Cancel, TraceInv, Stages
  <2>2. \A s \in Source : Collected(s)' => \A i \in conf'[s].items : Traced(s, i)'
    BY <1>0, <1>1, TraceStays DEF Cancel, Collected, inputs
  <2>3. QED
    BY <2>1, <2>2, UndecidedTraces
<1>2. CASE PrepareFails \/ LimitsFail \/ FinalFails
  BY <1>2, AbortTraces DEF PrepareFails, LimitsFail, FinalFails
<1>3. CASE Prepare
  <2>1. Stages' /\ status' = "none"
    BY <1>3 DEF Prepare, TraceInv, Stages
  <2>2. ASSUME NEW s \in Source, Collected(s)', NEW i \in conf'[s].items
        PROVE  Traced(s, i)'
    <3>1. Traced(s, i)
      BY <1>0, <1>3, <2>2 DEF Prepare, Collected, inputs
    <3>2. QED
      BY <1>3, <3>1 DEF Prepare, Traced, Noted, SourceDiag, ItemDiag, Waiting, inputs
  <2>3. QED
    BY <2>1, <2>2, UndecidedTraces
<1>4. ASSUME NEW s \in Source, CollectCancelled(s) \/ CollectAborts(s) PROVE TraceInv'
  BY <1>4, AbortTraces DEF CollectCancelled, CollectAborts
<1>5. ASSUME NEW t \in Source, CollectGap(t) PROVE TraceInv'
  <2>1. Stages' /\ status' = "none"
    BY <1>5 DEF CollectGap, Collecting, TraceInv, Stages
  <2>2. ASSUME NEW s \in Source, Collected(s)', NEW i \in conf'[s].items
        PROVE  Traced(s, i)'
    <3>1. CASE s = t
      <4>1. SourceDiag(s)' \in diags'
        BY <1>5, <3>1 DEF CollectGap, SourceDiag, inputs
      <4>2. QED
        BY <4>1 DEF Traced, Noted
    <3>2. CASE s # t
      <4>1. Traced(s, i)
        BY <1>0, <1>5, <2>2, <3>2 DEF CollectGap, Collecting, Collected, inputs
      <4>2. QED
        BY <1>5, <4>1, TraceStays DEF CollectGap, inputs
    <3>3. QED
      BY <3>1, <3>2
  <2>3. QED
    BY <2>1, <2>2, UndecidedTraces
<1>6. ASSUME NEW t \in Source, NEW failed \in SUBSET Item, CollectItems(t, failed) PROVE TraceInv'
  <2>1. Stages' /\ status' = "none"
    BY <1>6 DEF CollectItems, Collecting, TraceInv, Stages
  <2>2. DOMAIN tasks' = DOMAIN tasks \union (conf[t].items \ failed)
    BY <1>6 DEF CollectItems
  <2>3. conf[t].adapter = cur /\ conf[t].required \in BOOLEAN
    BY <1>6, ConfType DEF CollectItems, Collecting, TypeOK, SourcesOf
  <2>4. ASSUME NEW s \in Source, Collected(s)', NEW i \in conf'[s].items
        PROVE  Traced(s, i)'
    <3>1. CASE s = t /\ i \in failed
      <4>1. ItemDiag(cur, i, conf[t].required) \in diags'
        BY <1>6, <3>1 DEF CollectItems
      <4>2. ItemDiag(conf'[s].adapter, i, conf[t].required) \in diags'
        BY <1>6, <2>3, <3>1, <4>1 DEF CollectItems, inputs
      <4>3. QED
        BY <2>3, <4>2 DEF Traced, Noted, ItemDiag
    <3>2. CASE s = t /\ i \notin failed
      <4>1. i \in DOMAIN tasks'
        BY <1>6, <2>2, <2>4, <3>2 DEF CollectItems, inputs
      <4>2. QED
        BY <1>6, <2>3, <3>2, <4>1 DEF CollectItems, Collecting, Traced, Waiting, inputs
    <3>3. CASE s # t
      <4>1. Traced(s, i)
        BY <1>0, <1>6, <2>4, <3>3 DEF CollectItems, Collecting, Collected, inputs
      <4>2. QED
        BY <1>6, <2>2, <4>1, TraceStays DEF CollectItems, inputs
    <3>4. QED
      BY <3>1, <3>2, <3>3
  <2>5. QED
    BY <2>1, <2>4, UndecidedTraces
<1>7. CASE CollectDone
  <2>1. Stages' /\ status' = "none"
    BY <1>7 DEF CollectDone, TraceInv, Stages
  <2>2. ASSUME NEW s \in Source, Collected(s)', NEW i \in conf'[s].items
        PROVE  Traced(s, i)'
    <3>1. Traced(s, i)
      BY <1>0, <1>7, <2>2 DEF CollectDone, Collected, inputs
    <3>2. QED
      BY <1>7, <3>1 DEF CollectDone, Traced, Noted, SourceDiag, ItemDiag, Waiting, inputs
  <2>3. QED
    BY <2>1, <2>2, UndecidedTraces
<1>8. CASE LoadCancelled
  <2>1. CASE Class[cur] = "perses"
    <3>1. Stages' /\ status' = "none"
      BY <1>8, <2>1 DEF LoadCancelled, TraceInv, Stages
    <3>2. cancelled' /\ pc' = "load"
      BY <1>8, <2>1 DEF LoadCancelled
    <3>3. QED
      BY <3>1, <3>2, UndecidedTraces DEF Traced
  <2>2. CASE Class[cur] # "perses"
    BY <1>8, <2>2, AbortTraces DEF LoadCancelled
  <2>3. QED
    BY <2>1, <2>2
<1>9. ASSUME NEW j \in Item, LoadGap(j) PROVE TraceInv'
  <2>1. Stages' /\ status' = "none"
    BY <1>9 DEF LoadGap, Loads, Loading, TraceInv, Stages
  <2>2. j \in DOMAIN tasks /\ tasks[j].required \in BOOLEAN
    BY <1>9 DEF LoadGap, Loads, Loading, TypeOK
  <2>3. ASSUME NEW s \in Source, Collected(s)', NEW i \in conf'[s].items
        PROVE  Traced(s, i)'
    <3>1. Traced(s, i)
      BY <1>0, <1>9, <2>3 DEF LoadGap, Loads, Loading, Collected, inputs
    <3>2. CASE Waiting(s, i) /\ i = j
      <4>1. ItemDiag(conf'[s].adapter, i, tasks[j].required) \in diags'
        BY <1>9, <3>2 DEF LoadGap, Gap, Waiting, inputs
      <4>2. QED
        BY <2>2, <4>1 DEF Traced, Noted, ItemDiag
    <3>3. CASE ~(Waiting(s, i) /\ i = j)
      BY <1>9, <3>1, <3>3 DEF LoadGap, Gap, Traced, Noted, SourceDiag, ItemDiag, Waiting, inputs
    <3>4. QED
      BY <3>2, <3>3
  <2>4. QED
    BY <2>1, <2>3, UndecidedTraces
<1>10. ASSUME NEW j \in Item, LoadOpenFails(j) PROVE TraceInv'
  BY <1>10, AbortTraces DEF LoadOpenFails
<1>11. ASSUME NEW j \in Item, LoadClean(j) PROVE TraceInv'
  <2>1. Stages' /\ status' = "none"
    BY <1>11 DEF LoadClean, Loads, Loading, TraceInv, Stages
  <2>2. ASSUME NEW s \in Source, Collected(s)', NEW i \in conf'[s].items
        PROVE  Traced(s, i)'
    <3>1. Traced(s, i)
      BY <1>0, <1>11, <2>2 DEF LoadClean, Loads, Loading, Collected, inputs
    <3>2. QED
      BY <1>11, <3>1 DEF LoadClean, Traced, Noted, SourceDiag, ItemDiag, Waiting, inputs
  <2>3. QED
    BY <2>1, <2>2, UndecidedTraces
<1>12. CASE NextAdapter
  <2>1. Stages' /\ status' = "none"
    BY <1>12 DEF NextAdapter, TraceInv, Stages, TypeOK
  <2>2. ASSUME NEW s \in Source, Collected(s)', NEW i \in conf'[s].items
        PROVE  Traced(s, i)'
    <3>1. Collected(s)
      <4>1. todo = {} /\ conf[s].adapter \in Nat /\ cur \in Nat
        BY <1>12, ConfType DEF NextAdapter, TraceInv, Stages, TypeOK
      <4>2. CASE cur + 1 \in Adapter
        BY <1>12, <2>2, <4>1, <4>2 DEF NextAdapter, Collected, SourcesOf, inputs
      <4>3. CASE cur + 1 \notin Adapter
        BY <1>12, <2>2, <4>1, <4>3 DEF NextAdapter, Collected, inputs
      <4>4. QED
        BY <4>2, <4>3
    <3>2. Traced(s, i) /\ ~Waiting(s, i)
      BY <1>0, <1>12, <2>2, <3>1 DEF NextAdapter, Waiting, inputs
    <3>3. QED
      BY <1>12, <3>2 DEF NextAdapter, Traced, Noted, SourceDiag, ItemDiag, inputs
  <2>3. QED
    BY <2>1, <2>2, UndecidedTraces
<1>13. CASE Enrich \/ FinalPasses
  <2>1. Stages' /\ status' = "none"
    BY <1>13 DEF Enrich, FinalPasses, TraceInv, Stages
  <2>2. /\ pc \in {"limits", "final"} /\ conf' = conf /\ cur' = cur /\ todo' = todo
        /\ loaded' = loaded /\ diags \subseteq diags' /\ cancelled' = cancelled
        /\ pc' = "final" \/ (pc' = "decide" /\ ~cancelled)
    BY <1>13 DEF Enrich, FinalPasses, Stopped, inputs
  <2>3. ASSUME NEW s \in Source, Collected(s)', NEW i \in conf'[s].items
        PROVE  Traced(s, i)'
    <3>1. Traced(s, i) /\ ~Waiting(s, i)
      BY <1>0, <2>2, <2>3 DEF Collected, Waiting
    <3>2. Noted(s, i, diags) => Noted(s, i, diags)'
      BY <2>2 DEF Noted, SourceDiag, ItemDiag, Diagnostic
    <3>3. QED
      BY <2>2, <3>1, <3>2 DEF Traced
  <2>4. QED
    BY <2>1, <2>3, UndecidedTraces
<1>14. ASSUME NEW answer, NEW all, Conclude(answer, all), diags \subseteq all,
              answer = "PASS" => all = {}
       PROVE  TraceInv'
  <2>1. Stages' /\ AllTraced' /\ (status' = "PASS" => reported' = {})
    BY <1>14 DEF Conclude, Stages, AllTraced
  <2>2. NoSilentGap'
    <3> SUFFICES ASSUME NEW s \in Source, NEW i \in conf'[s].items
                 PROVE  <<conf'[s].adapter, i>> \in loaded' \/ Noted(s, i, reported)'
      BY DEF NoSilentGap, Noted, SourceDiag, ItemDiag
    <3>1. Collected(s)
      BY <1>14, ConfType DEF Conclude, TraceInv, Stages, Collected, TypeOK
    <3>2. Traced(s, i)
      BY <1>0, <1>14, <3>1 DEF Conclude, inputs
    <3>3. CASE Noted(s, i, diags)
      <4>1. Noted(s, i, all)
        BY <1>14, <3>3, NotedStays
      <4>2. QED
        BY <1>14, <4>1 DEF Conclude, Noted, SourceDiag, ItemDiag, Diagnostic, inputs
    <3>4. CASE ~Noted(s, i, diags)
      BY <1>14, <3>2, <3>4 DEF Conclude, Traced, Waiting, inputs
    <3>5. QED
      BY <3>3, <3>4
  <2>3. QED
    BY <2>1, <2>2 DEF TraceInv
<1>15. \A D, unmapped : diags \subseteq AllDiagnostics(D, unmapped)
  BY DEF AllDiagnostics
<1>16. CASE Decide
  <2>1. PICK D \in ChangeSourceDiagnostics, unmapped \in BOOLEAN :
          \E F \in {{}, {[uncertain |-> FALSE]}, {[uncertain |-> TRUE]}} : \E B \in {{}, F} :
            Conclude(aggregateStatus(F, B, AllDiagnostics(D, unmapped)), AllDiagnostics(D, unmapped))
    BY <1>16, Zenon DEF Decide
  <2>2. PICK F, B :
          Conclude(aggregateStatus(F, B, AllDiagnostics(D, unmapped)), AllDiagnostics(D, unmapped))
    BY <2>1, Zenon
  <2>3. aggregateStatus(F, B, AllDiagnostics(D, unmapped)) = "PASS" => AllDiagnostics(D, unmapped) = {}
    BY DEF aggregateStatus
  <2>4. QED
    BY <1>14, <1>15, <2>2, <2>3
<1>17. CASE DecideFails
  BY <1>14, <1>15, <1>17 DEF DecideFails
<1>18. CASE UNCHANGED vars
  BY <1>18 DEF vars, inputs, TraceInv, Stages, AllTraced, Collected, Traced, Noted, Waiting,
               NoSilentGap, SourceDiag, ItemDiag
<1>19. QED
  BY <1>1, <1>2, <1>3, <1>4, <1>5, <1>6, <1>7, <1>8, <1>9, <1>10, <1>11, <1>12, <1>13,
     <1>16, <1>17, <1>18 DEF Next, Step

\* The traces are invariant.
LEMMA TracesKept == Spec => []TraceInv
<1>1. Init => TraceInv
  BY AdapterType, ConfType DEF Init, TraceInv, Stages, AllTraced, NoSilentGap, Collected, SourcesOf
<1>2. QED
  BY <1>1, TraceInvNext, DiscoveryTypeCorrect, PTL DEF Spec

\* Unless the answer is ERROR, whatever a source names was loaded or is named by a
\* diagnostic of the result.
THEOREM GapsAreReported == Spec => []NoSilentGap
<1>1. TraceInv => NoSilentGap
  BY DEF TraceInv
<1>2. QED
  BY <1>1, TracesKept, PTL

\* PASS was decided on everything that every source names.
THEOREM PassMeansAllEvidence == Spec => []PassIsComplete
<1>1. TraceInv => PassIsComplete
  BY DEF TraceInv, NoSilentGap, PassIsComplete, CleanlyLoaded
<1>2. QED
  BY <1>1, TracesKept, PTL
=============================================================================
