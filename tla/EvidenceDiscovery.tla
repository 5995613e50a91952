-------------------------- MODULE EvidenceDiscovery --------------------------
(***************************************************************************)
(* Discover, AnalyzeChangeSet and RunSafetyWithDiagnostics of              *)
(* internal/analysis: the configured evidence sources are worked off       *)
(* adapter by adapter, everything that goes wrong becomes either an abort  *)
(* (status ERROR) or a diagnostic, and the status is decided at the end.   *)
(*                                                                         *)
(* Every adapter but Perses has a collect stage (its sources name files,   *)
(* the same file once) and a load stage (each file is opened and parsed).  *)
(* What a call on the file system, a service or a parser returns is a      *)
(* choice made at the call: SourceBudget says which answers the files can  *)
(* give and when.  An item stands for what identifies one load: a file,    *)
(* for Tempo a file checked by one service, for Perses a service.          *)
(***************************************************************************)
EXTENDS SafetyPolicy, Sequences

CONSTANTS
  Source,   \* configured sources, numbered in the order the code sorts them
  Item,     \* what the sources name, numbered in key order
  Setting,  \* the settings of a source that must agree when it shares an item
  Class,    \* the adapters in Discover's order: a sequence of loader classes
  Configurations  \* the source configurations considered

Classes == {"patterns", "hpa", "perses", "runtime", "tempo"}
Adapter == DOMAIN Class

ASSUME DiscoveryAssumption ==
  /\ Source \subseteq Nat \ {0} /\ Item \subseteq Nat \ {0}
  /\ Class \in Seq(Classes) /\ Class # <<>>
  /\ \A c \in Configurations :
       /\ c \in [Source -> [adapter : Adapter, required : BOOLEAN, setting : Setting,
                            items : SUBSET Item]]
       \* a Perses source is one service
       /\ \A s \in Source : /\ c[s].items # {}
                            /\ Class[c[s].adapter] = "perses" => \E i \in Item : c[s].items = {i}

VARIABLES
  conf,        \* conf[s]: the source's adapter, required, setting and items
  secured,     \* Execution.RepositoryRoot is set: there is a file budget
  cancelled,   \* ctx
  pc, cur,     \* stage, and the adapter it is about
  todo,        \* sources of this adapter still to collect
  tasks,       \* item -> [required, settings]
  queue,       \* items still to load
  diags,       \* discovery.Diagnostics
  loaded,      \* <<adapter, item>> loaded without a diagnostic
  violated,    \* history: a policy violation was answered
  status, reported   \* the result: its status and its diagnostics

inputs == <<conf, secured>>
vars == <<inputs, cancelled, pc, cur, todo, tasks, queue, diags, loaded,
          violated, status, reported>>

Diagnostic(a, s, i, required) == [adapter |-> a, source |-> s, item |-> i, required |-> required]
SourceDiag(s) == Diagnostic(conf[s].adapter, s, 0, conf[s].required)
ItemDiag(a, i, required) == Diagnostic(a, 0, i, required)

SourcesOf(a) == {s \in Source : conf[s].adapter = a}
NoTasks == [i \in {} |-> [required |-> FALSE, settings |-> {}]]

-----------------------------------------------------------------------------
Init ==
  /\ conf \in Configurations
  /\ secured \in BOOLEAN
  /\ cancelled = FALSE
  /\ pc = "prepare" /\ cur = 1
  /\ todo = SourcesOf(1)
  /\ tasks = NoTasks /\ queue = {}
  /\ diags = {} /\ loaded = {} /\ violated = FALSE
  /\ status = "none" /\ reported = {}

Cancel ==
  /\ ~cancelled /\ pc # "done"
  /\ cancelled' = TRUE
  /\ UNCHANGED <<inputs, pc, cur, todo, tasks, queue, diags, loaded, violated, status, reported>>

\* What the change source can report of its own: nothing, or a diagnostic.
ChangeSourceDiagnostics == {{}} \union {{Diagnostic(0, 0, 0, required)} : required \in BOOLEAN}

\* An error return of Discover: RunSafetyWithDiagnostics builds its result from
\* the change source's diagnostics alone.
Abort ==
  /\ pc' = "done" /\ status' = "ERROR" /\ reported' \in ChangeSourceDiagnostics
  /\ UNCHANGED <<inputs, cancelled, cur, todo, tasks, queue, diags, loaded>>

\* The change set, the limits, the remote policy and the environment references
\* are validated before anything is read.
PrepareFails ==
  /\ pc = "prepare"
  /\ Abort
  /\ UNCHANGED violated

Prepare ==
  /\ pc = "prepare"
  /\ pc' = "collect"
  /\ UNCHANGED <<inputs, cancelled, cur, todo, tasks, queue, diags, loaded, violated,
                 status, reported>>

-----------------------------------------------------------------------------
(* Collect: one source of the current adapter. *)

Collecting(s) == pc = "collect" /\ s \in todo /\ \A t \in todo : s <= t

\* loadPatterns and loadPersesUsage do not look at ctx before they load.
ChecksCancelOnCollect(class) == class \in {"hpa", "runtime", "tempo"}

Proceeds(s) == ~(ChecksCancelOnCollect(Class[cur]) /\ cancelled)

CollectCancelled(s) ==
  /\ Collecting(s) /\ ~Proceeds(s)
  /\ Abort
  /\ UNCHANGED violated

\* With a budget, a failing expansion ends the analysis: for a pattern adapter a
\* policy violation or an error of the second Register, for the others any error
\* (for the autoscalers of their mapping file too).
CollectAborts(s) ==
  /\ Collecting(s) /\ Proceeds(s)
  /\ secured /\ Class[cur] # "perses"
  /\ \E v \in BOOLEAN : violated' = (violated \/ v)
  /\ Abort

\* The source is skipped with a diagnostic: its pattern matches nothing or does
\* not expand, its URL is not authorized, its token is unset, its window or
\* timeout does not parse, its mapping is malformed.
CollectGap(s) ==
  /\ Collecting(s) /\ Proceeds(s) /\ Class[cur] # "perses"
  /\ diags' = diags \union {SourceDiag(s)}
  /\ todo' = todo \ {s}
  /\ UNCHANGED <<inputs, cancelled, pc, cur, tasks, queue, loaded, violated, status, reported>>

\* A defect to detect: the first source that names an item decides.
RequiredByFirst(s, i) == IF i \in DOMAIN tasks THEN tasks[i].required ELSE conf[s].required
RequiredByAny(s, i) == conf[s].required \/ (i \in DOMAIN tasks /\ tasks[i].required)

MergedTask(s, i) ==
  [required |-> RequiredByAny(s, i),
   settings |-> {conf[s].setting} \union (IF i \in DOMAIN tasks THEN tasks[i].settings ELSE {})]

\* Files whose canonicalFile fails after a successful expansion get a diagnostic
\* even when the failure is a policy violation.  A service has no file; a pattern
\* adapter with a budget aborts instead, and without one it only makes its paths
\* absolute, which fails when the working directory has vanished (left out).
CollectItems(s, failed) ==
  /\ Collecting(s) /\ Proceeds(s)
  /\ failed \subseteq conf[s].items
  /\ Class[cur] \in {"perses", "patterns"} => failed = {}
  /\ \E v \in {FALSE, secured /\ failed # {}} : violated' = (violated \/ v)
  /\ diags' = diags \union {ItemDiag(cur, i, conf[s].required) : i \in failed}
  /\ LET good == conf[s].items \ failed
     IN  tasks' = [i \in DOMAIN tasks \union good |->
                     IF i \in good THEN MergedTask(s, i) ELSE tasks[i]]
  /\ todo' = todo \ {s}
  /\ UNCHANGED <<inputs, cancelled, pc, cur, queue, loaded, status, reported>>

CollectDone ==
  /\ pc = "collect" /\ todo = {}
  /\ pc' = "load" /\ queue' = DOMAIN tasks
  /\ UNCHANGED <<inputs, cancelled, cur, todo, tasks, diags, loaded, violated, status, reported>>

-----------------------------------------------------------------------------
(* Load: one item of the current adapter. *)

Loading(i) == pc = "load" /\ i \in queue /\ \A j \in queue : i <= j

\* loadTempoQueries does not look at ctx between files; Perses stops quietly.
ChecksCancelOnLoad(class) == class # "tempo"

LoadCancelled ==
  /\ pc = "load" /\ queue # {} /\ cancelled /\ ChecksCancelOnLoad(Class[cur])
  /\ IF Class[cur] = "perses"
     THEN /\ queue' = {}
          /\ UNCHANGED <<inputs, cancelled, pc, cur, todo, tasks, diags, loaded, status, reported>>
     ELSE Abort
  /\ UNCHANGED violated

Loads(i) == Loading(i) /\ ~(cancelled /\ ChecksCancelOnLoad(Class[cur]))

Conflict(i) == Class[cur] # "patterns" /\ Cardinality(tasks[i].settings) > 1

\* A defect to detect: the item that failed is tried again.
RetriedGap(i) ==
  /\ diags' = diags \union {ItemDiag(cur, i, tasks[i].required)}
  /\ queue' = queue

Gap(i) ==
  /\ diags' = diags \union {ItemDiag(cur, i, tasks[i].required)}
  /\ queue' = queue \ {i}

\* The item is configured twice with different settings; or it does not open
\* (without a budget), parse or close; or its service does not answer; or it
\* loads and the adapter itself reports what it could not resolve.
LoadGap(i) ==
  /\ Loads(i)
  /\ Gap(i)
  /\ UNCHANGED <<inputs, cancelled, pc, cur, todo, tasks, loaded, violated, status, reported>>

LoadOpenFails(i) ==
  /\ Loads(i) /\ ~Conflict(i)
  /\ secured /\ Class[cur] # "perses"
  /\ \E v \in BOOLEAN : violated' = (violated \/ v)
  /\ Abort

LoadClean(i) ==
  /\ Loads(i) /\ ~Conflict(i)
  /\ loaded' = loaded \union {<<cur, i>>}
  /\ queue' = queue \ {i}
  /\ UNCHANGED <<inputs, cancelled, pc, cur, todo, tasks, diags, violated, status, reported>>

NextAdapter ==
  /\ pc = "load" /\ queue = {}
  /\ tasks' = NoTasks
  /\ IF cur + 1 \in Adapter
     THEN cur' = cur + 1 /\ pc' = "collect" /\ todo' = SourcesOf(cur + 1)
     ELSE pc' = "limits" /\ UNCHANGED <<cur, todo>>
  /\ UNCHANGED <<inputs, cancelled, queue, diags, loaded, violated, status, reported>>

-----------------------------------------------------------------------------
(* The rest of Discover, and the decision. *)

\* validateDiscoveryLimits, then the directory and ctx checks of ownership, which
\* may be switched off.
LimitsFail ==
  /\ pc = "limits" /\ (secured \/ cancelled)
  /\ Abort
  /\ UNCHANGED violated

\* Ownership is advisory: what it cannot read is an optional diagnostic.
Enrich ==
  /\ pc = "limits"
  /\ diags' \in {diags, diags \union {Diagnostic(0, 0, 0, FALSE)}}
  /\ pc' = "final"
  /\ UNCHANGED <<inputs, cancelled, cur, todo, tasks, queue, loaded, violated, status, reported>>

\* A defect to detect: ctx is not looked at again before the graph is built.
NeverStopped == FALSE
Stopped == cancelled

\* ctx, then BuildGraph and validateGraphLimits.
FinalFails ==
  /\ pc = "final"
  /\ Abort
  /\ UNCHANGED violated

FinalPasses ==
  /\ pc = "final" /\ ~Stopped
  /\ pc' = "decide"
  /\ UNCHANGED <<inputs, cancelled, cur, todo, tasks, queue, diags, loaded, violated,
                 status, reported>>

\* A change to a trace attribute without a mapping is a gap if there is a Tempo
\* source, and a required one if one of them is.
traceMappingDiagnostics ==
  LET tempo == {s \in Source : Class[conf[s].adapter] = "tempo"}
  IN  IF tempo = {} THEN {} ELSE {Diagnostic(0, 0, 0, \E s \in tempo : conf[s].required)}

Conclude(answer, diagnostics) ==
  /\ pc = "decide"
  /\ status' = answer
  /\ reported' = diagnostics
  /\ pc' = "done"
  /\ UNCHANGED <<inputs, cancelled, cur, todo, tasks, queue, diags, loaded, violated>>

AllDiagnostics(sourceDiagnostics, unmapped) ==
  diags \union sourceDiagnostics \union (IF unmapped THEN traceMappingDiagnostics ELSE {})

\* What Analyze finds: no finding, or one that warns, blocks or is uncertain.
Decide ==
  \E sourceDiagnostics \in ChangeSourceDiagnostics, unmapped \in BOOLEAN :
  \E findings \in {{}, {[uncertain |-> FALSE]}, {[uncertain |-> TRUE]}} :
  \E blocked \in {{}, findings} :
    LET all == AllDiagnostics(sourceDiagnostics, unmapped)
    IN  Conclude(aggregateStatus(findings, blocked, all), all)

\* Analyze or Evaluate rejects its input, or there are too many findings.
DecideFails ==
  \E sourceDiagnostics \in ChangeSourceDiagnostics, unmapped \in BOOLEAN :
    Conclude("ERROR", AllDiagnostics(sourceDiagnostics, unmapped))

Step ==
  \/ PrepareFails \/ Prepare
  \/ \E s \in Source : CollectCancelled(s) \/ CollectAborts(s) \/ CollectGap(s)
                       \/ (\E failed \in SUBSET Item : CollectItems(s, failed))
  \/ CollectDone
  \/ LoadCancelled
  \/ \E i \in Item : LoadGap(i) \/ LoadOpenFails(i) \/ LoadClean(i)
  \/ NextAdapter
  \/ LimitsFail \/ Enrich \/ FinalFails \/ FinalPasses \/ Decide \/ DecideFails

Next == Step \/ Cancel

\* The analysis takes its next step; nobody has to cancel it.
Spec == Init /\ [][Next]_vars /\ WF_vars(Step)

-----------------------------------------------------------------------------
Diagnostics == [adapter : Nat, source : Nat, item : Nat, required : BOOLEAN]

\* The types: the sources to collect are the current adapter's, the items to
\* load have a task.
TypeOK ==
  /\ conf \in Configurations /\ secured \in BOOLEAN /\ cancelled \in BOOLEAN
  /\ pc \in {"prepare", "collect", "load", "limits", "final", "decide", "done"}
  /\ cur \in Adapter
  /\ todo \in SUBSET SourcesOf(cur)
  /\ DOMAIN tasks \in SUBSET Item
  /\ tasks \in [DOMAIN tasks -> [required : BOOLEAN, settings : SUBSET Setting]]
  /\ queue \in SUBSET DOMAIN tasks
  /\ diags \in SUBSET Diagnostics /\ reported \in SUBSET Diagnostics
  /\ loaded \in SUBSET (Adapter \X Item)
  /\ violated \in BOOLEAN
  /\ status \in Statuses \union {"none"}

Decided == status \notin {"none", "INCOMPLETE", "ERROR"}

CleanlyLoaded(s) == \A i \in conf[s].items : <<conf[s].adapter, i>> \in loaded

\* Fail closed: a status that lets somebody act (PASS, WARN or BLOCK) means that
\* everything every required source names was loaded in full, whichever other
\* sources name the same file and whatever failed or was cancelled meanwhile.
FailClosed ==
  Decided => \A s \in Source : conf[s].required => CleanlyLoaded(s)

\* The inductive core of FailClosed.  Once a required source has been collected,
\* each of its items is loaded, or waits in a task that knows it is required, or
\* there is a required diagnostic; only a cancelled analysis may have lost it,
\* and that one does not reach the decision.
Collected(s) == conf[s].adapter < cur \/ (conf[s].adapter = cur /\ s \notin todo)

Pending(s, i) ==
  /\ pc \in {"collect", "load"} /\ conf[s].adapter = cur
  /\ i \in DOMAIN tasks /\ tasks[i].required
  /\ pc = "load" => i \in queue

RequiredGap == \E d \in diags : d.required

Accounted ==
  \A s \in Source : pc # "done" /\ conf[s].required /\ Collected(s) =>
    \A i \in conf[s].items :
      \/ <<conf[s].adapter, i>> \in loaded
      \/ RequiredGap
      \/ Pending(s, i)
      \/ cancelled /\ pc # "decide"

Stages ==
  /\ pc \notin {"prepare", "collect"} => pc = "done" \/ todo = {}
  /\ pc \in {"limits", "final", "decide"} => cur = Len(Class)
  /\ pc # "done" => status = "none"

\* PASS leaves no gap at all, optional sources included.
PassIsComplete ==
  status = "PASS" => \A s \in Source : CleanlyLoaded(s)

\* Unless the answer is ERROR, every item of every source was loaded or is
\* accounted for by a diagnostic in the result: nothing is left out silently,
\* not even by a cancelled Perses load, which stops without a diagnostic.
NoSilentGap ==
  status \notin {"none", "ERROR"} =>
    \A s \in Source : \A i \in conf[s].items :
      \/ <<conf[s].adapter, i>> \in loaded
      \/ SourceDiag(s) \in reported
      \/ \E r \in BOOLEAN : ItemDiag(conf[s].adapter, i, r) \in reported

\* The analysis ends with a status, cancelled or not.
Concludes == <>(status # "none")

\* "Any facts proven before the failure remain present": whatever the analysis
\* had recorded is in its result.
FactsRemain == pc = "done" => diags \subseteq reported

\* "Policy violations are returned as errors because optional repository
\* configuration may not downgrade a trusted execution boundary."
ViolationIsError == violated /\ pc = "done" => status = "ERROR"
=============================================================================
