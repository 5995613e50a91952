-------------------------- MODULE RemediationProofs --------------------------
(***************************************************************************)
(* The remediate and advise commands, for any repository, any provider and *)
(* any number of edits meanwhile.                                          *)
(***************************************************************************)
EXTENDS Remediation, FiniteSetTheorems, TLAPS

Started == {"load", "evaluate", "provider"}
Steps == Started \cup {"check", "render", "done"}

\* What the provider wrote is kept, or known to be exceeded.
OutputInv ==
  /\ stdout \in [kept : Nat, exceeded : BOOLEAN] /\ written \in Nat
  /\ ~stdout.exceeded => written = stdout.kept
  /\ response # {} => ~stdout.exceeded /\ pc \notin Started

\* The verdict is made once, from the evidence, before the provider is asked.
VerdictInv ==
  /\ pc \in Steps
  /\ pc \in {"load", "evaluate"} => result = {}
  /\ \A evaluated \in result : evaluated.status = statusForChanges(discovery, policy)
  /\ \A s \in shown : s.status = statusForChanges(discovery, policy)
  /\ pc # "done" => exit = Running /\ shown = {}
  /\ exit \in {1, Running} \/ exit = ReadinessExitCode(statusForChanges(discovery, policy))

\* The files that were read so far.
Before(n) == {Files[i] : i \in 1 .. n}

IsDiscovery(d) == d = [read |-> d.read, diagnostics |-> d.diagnostics]
IsReading(read) == read = [c \in DOMAIN read |-> read[c]]
Unclear(read, f) == \E c \in DOMAIN read : FileOf[c] = f /\ ~resolved(read[c])

\* What was read is what the files held, each at its moment, with a diagnostic for
\* each file that has an expression that is not resolved.
ReadInv ==
  /\ loaded \in 0 .. Len(Files)
  /\ pc = "load" => loaded < Len(Files)
  /\ pc \in {"evaluate", "provider", "check", "render"} => loaded = Len(Files)
  /\ IsDiscovery(discovery) /\ IsReading(discovery.read)
  /\ DOMAIN discovery.read \subseteq Consumers
  /\ \A c \in DOMAIN discovery.read : discovery.read[c] # Absent /\ FileOf[c] \in Before(loaded)
  /\ discovery.diagnostics =
       {[file |-> f, required |-> f \in RequiredSources] : f \in {f \in Before(loaded) : Unclear(discovery.read, f)}}
       \cup IF elsewhere /\ result # {} THEN {[file |-> "elsewhere", required |-> TRUE]} ELSE {}

\* What was asked, answered and checked so far.
AnswerInv ==
  /\ targets \subseteq Changes \X Consumers
  /\ \A a, b \in response : a = b
  /\ pc \in Started => response = {} /\ validated = << >>
  /\ pc = "check" => task = "remediate" /\ result # {}
  /\ pc = "provider" => result # {}
  /\ task = "remediate" =>
       \A answer \in response :
         /\ answer \in Seq(Range(answer))
         /\ \A i \in DOMAIN answer : answer[i].after # answer[i].before
         /\ pc = "check" => Len(validated) < Len(answer)
  /\ validated \in Seq(Range(validated))

-----------------------------------------------------------------------------
(* The provider's output. *)

\* cappedBuffer.Write keeps everything or knows that it did not.
LEMMA KeepIsHonest ==
  ASSUME NEW b \in [kept : Nat, exceeded : BOOLEAN], NEW n \in 1 .. 2, NEW w \in Nat,
         ~b.exceeded => w = b.kept
  PROVE  /\ keep(b, n) \in [kept : Nat, exceeded : BOOLEAN]
         /\ ~keep(b, n).exceeded => w + n = keep(b, n).kept
<1>1. OutputLimit \in Nat /\ b.kept \in Nat /\ b.exceeded \in BOOLEAN
  BY LimitAssumption
<1>2. CASE OutputLimit - b.kept <= 0
  <2>1. keep(b, n) = [b EXCEPT !.exceeded = b.exceeded \/ n # 0]
    BY <1>2 DEF keep
  <2>2. (b.exceeded \/ n # 0) \in BOOLEAN /\ (b.exceeded \/ n # 0)
    OBVIOUS
  <2>3. QED
    BY <1>1, <2>1, <2>2
<1>3. CASE ~(OutputLimit - b.kept <= 0)
  <2> DEFINE rest == OutputLimit - b.kept
             kept == b.kept + (IF n > rest THEN rest ELSE n)
             more == b.exceeded \/ n > rest
  <2>1. keep(b, n) = [kept |-> kept, exceeded |-> more]
    BY <1>3 DEF keep
  <2>2. kept \in Nat /\ more \in BOOLEAN /\ (~more => kept = b.kept + n)
    BY <1>1, <1>3
  <2> HIDE DEF kept, more
  <2>3. keep(b, n).kept = kept /\ keep(b, n).exceeded = more
    BY <2>1
  <2>4. b.exceeded => more
    BY DEF more
  <2>5. ASSUME ~more PROVE w + n = kept
    BY <1>1, <2>2, <2>4, <2>5
  <2>6. QED
    BY <2>1, <2>2, <2>3, <2>5
<1>4. QED
  BY <1>2, <1>3

\* The output's part of the invariant.
LEMMA OutputNext ==
  ASSUME OutputInv, [Next]_vars
  PROVE  OutputInv'
<1>1. CASE ProviderWrites
  <2>1. PICK n \in 1 .. 2 : stdout' = keep(stdout, n) /\ written' = written + n
    BY <1>1 DEF ProviderWrites
  <2>2. /\ stdout' \in [kept : Nat, exceeded : BOOLEAN]
        /\ ~stdout'.exceeded => written + n = stdout'.kept
    BY <2>1, KeepIsHonest DEF OutputInv
  <2>3. response' = {} /\ written' \in Nat
    BY <1>1, <2>1 DEF ProviderWrites, OutputInv, Started
  <2>4. QED
    BY <2>1, <2>2, <2>3 DEF OutputInv
<1>2. CASE ProviderExits
  <2>1. PICK answer : response' \in {{answer}, {}} /\ (response' # {} => ~stdout.exceeded /\ pc' \notin Started)
    BY <1>2 DEF ProviderExits, Started
  <2>2. UNCHANGED <<stdout, written>>
    BY <1>2 DEF ProviderExits
  <2>3. QED
    BY <2>1, <2>2 DEF OutputInv
<1>3. CASE Edit \/ LoadFile \/ EvaluateAndAsk \/ Fail \/ ValidateNext \/ Render \/ Stop \/ UNCHANGED vars
  <2>1. UNCHANGED provider /\ (pc' \in Started => pc \in Started)
    BY <1>3 DEF Edit, LoadFile, EvaluateAndAsk, Fail, ValidateNext, Render, Stop, vars, provider, Started
  <2>2. QED
    BY <2>1 DEF OutputInv, provider
<1>4. QED
  BY <1>1, <1>2, <1>3 DEF Next

-----------------------------------------------------------------------------
(* The verdict. *)

\* What an evaluation says.
LEMMA EvaluateStatus ==
  ASSUME NEW d, NEW p
  PROVE  Evaluate(d, p).status = statusForChanges(d, p)
BY DEF Evaluate

\* The verdict's part of the invariant.
LEMMA VerdictNext ==
  ASSUME VerdictInv, [Next]_vars
  PROVE  VerdictInv'
<1>1. CASE LoadFile
  <2>1. pc = "load" /\ pc' \in {"load", "evaluate"} /\ UNCHANGED <<setup, result, shown, exit>>
    BY <1>1 DEF LoadFile
  <2>2. result = {} /\ shown = {} /\ exit = Running
    BY <2>1 DEF VerdictInv
  <2>3. QED
    BY <2>1, <2>2 DEF VerdictInv, Steps, Started
<1>2. CASE EvaluateAndAsk
  <2> DEFINE d == IF elsewhere THEN [discovery EXCEPT !.diagnostics = @ \cup {[file |-> "elsewhere", required |-> TRUE]}]
                  ELSE discovery
  <2>1. /\ discovery' = d /\ result' = {Evaluate(d, policy)} /\ pc' \in {"done", "provider"}
        /\ exit' = exit \/ (pc' = "done" /\ exit' = ReadinessExitCode(Evaluate(d, policy).status))
        /\ pc' = "provider" => exit' = exit
        /\ UNCHANGED <<setup, shown>>
    BY <1>2, Zenon DEF EvaluateAndAsk
  <2>2. shown = {} /\ exit = Running
    BY <1>2 DEF EvaluateAndAsk, VerdictInv
  <2> HIDE DEF d
  <2>3. policy' = policy
    BY <2>1 DEF setup
  <2>4. QED
    BY <2>1, <2>2, <2>3, EvaluateStatus DEF VerdictInv, Steps, Started
<1>3. CASE Fail
  <2>1. pc' = "done" /\ exit' = 1 /\ UNCHANGED <<setup, discovery, result, shown>>
    BY <1>3 DEF Fail
  <2>2. QED
    BY <2>1 DEF VerdictInv, Steps, setup
<1>4. CASE ProviderExits
  <2>1. /\ pc = "provider" /\ pc' \in {"done", "check", "render"} /\ exit' \in {exit, 1}
        /\ pc' # "done" => exit' = exit
        /\ UNCHANGED <<setup, discovery, result, shown>>
    BY <1>4 DEF ProviderExits
  <2>2. QED
    BY <2>1 DEF VerdictInv, Steps, setup
<1>5. CASE ValidateNext
  <2>1. /\ pc = "check" /\ pc' \in {"done", "check", "render"} /\ exit' \in {exit, 1}
        /\ pc' # "done" => exit' = exit
        /\ UNCHANGED <<setup, discovery, result, shown>>
    BY <1>5 DEF ValidateNext
  <2>2. QED
    BY <2>1 DEF VerdictInv, Steps, setup
<1>6. CASE Render
  <2>1. PICK evaluated \in result :
          /\ shown' = {[status |-> evaluated.status, candidates |-> Range(validated)]}
          /\ exit' = exitAuthoritative(evaluated)
    BY <1>6 DEF Render
  <2>2. pc' = "done" /\ UNCHANGED <<setup, discovery, result>>
    BY <1>6 DEF Render
  <2>3. QED
    BY <2>1, <2>2 DEF VerdictInv, Steps, setup, exitAuthoritative
<1>7. CASE Edit \/ ProviderWrites \/ Stop \/ UNCHANGED vars
  <2>1. UNCHANGED <<setup, pc, discovery, result, shown, exit>>
    BY <1>7 DEF Edit, ProviderWrites, Stop, vars, setup
  <2>2. QED
    BY <2>1 DEF VerdictInv, setup
<1>8. QED
  BY <1>1, <1>2, <1>3, <1>4, <1>5, <1>6, <1>7 DEF Next
-----------------------------------------------------------------------------
(* The evidence that was read. *)

\* Reading one more file.
LEMMA BeforeGrows ==
  ASSUME NEW n \in Nat, n < Len(Files)
  PROVE  /\ Before(n + 1) = Before(n) \cup {Files[n + 1]}
         /\ Files[n + 1] \notin Before(n) /\ Files[n + 1] # "elsewhere"
<1>1. DOMAIN Files = 1 .. Len(Files) /\ Len(Files) \in Nat
  BY FilesAssumption
<1>2. 1 .. n + 1 = (1 .. n) \cup {n + 1} /\ n + 1 \in DOMAIN Files /\ 1 .. n \subseteq DOMAIN Files /\ n + 1 \notin 1 .. n
  BY <1>1
<1>3. Before(n + 1) = Before(n) \cup {Files[n + 1]}
  BY <1>2, Zenon DEF Before
<1>4. Files[n + 1] \notin Before(n)
  BY <1>2, FilesAssumption, Zenon DEF Before
<1>5. Files[n + 1] # "elsewhere"
  BY <1>2, FilesAssumption, Zenon DEF Range
<1>6. QED
  BY <1>3, <1>4, <1>5

\* What the loader says of one file.
LEMMA ParsedFields ==
  ASSUME NEW f, NEW text, NEW required, NEW p, p = parseFile(f, text, required)
  PROVE  /\ DOMAIN p.read = {c \in Consumers : FileOf[c] = f /\ text[c] # Absent}
         /\ \A c \in DOMAIN p.read : p.read[c] = text[c]
         /\ ~Unclear(p.read, f) => p.diagnostics = {}
         /\ Unclear(p.read, f) => p.diagnostics = {[file |-> f, required |-> required]}
<1> DEFINE here == {c \in Consumers : FileOf[c] = f /\ text[c] # Absent}
<1>1. /\ p.read = [c \in here |-> text[c]]
      /\ p.diagnostics = IF \A c \in here : resolved(text[c]) THEN {} ELSE {[file |-> f, required |-> required]}
  BY DEF parseFile
<1>2. DOMAIN p.read = here /\ \A c \in here : p.read[c] = text[c] /\ FileOf[c] = f
  BY <1>1
<1> HIDE DEF here
<1>3. Unclear(p.read, f) <=> ~\A c \in here : resolved(text[c])
  BY <1>2, Zenon DEF Unclear
<1>4. QED
  BY <1>1, <1>2, <1>3 DEF here

\* Two readings together.
LEMMA AppendedFields ==
  ASSUME NEW d, NEW more, NEW both, both = appendDiscovery(d, more)
  PROVE  /\ IsDiscovery(both) /\ IsReading(both.read)
         /\ DOMAIN both.read = DOMAIN d.read \cup DOMAIN more.read
         /\ \A c \in DOMAIN more.read : both.read[c] = more.read[c]
         /\ \A c \in DOMAIN d.read \ DOMAIN more.read : both.read[c] = d.read[c]
         /\ both.diagnostics = d.diagnostics \cup more.diagnostics
BY DEF appendDiscovery, IsDiscovery, IsReading

\* The diagnostics that belong to what was read of some files.
Reports(files, read) == {[file |-> f, required |-> f \in RequiredSources] : f \in {f \in files : Unclear(read, f)}}

Report(read, f) == IF Unclear(read, f) THEN {[file |-> f, required |-> f \in RequiredSources]} ELSE {}

\* One reading is one file's after the others': the facts about domains and values.
Extends(both, old, more, files, f) ==
  /\ \A c \in DOMAIN old : FileOf[c] \in files
  /\ \A c \in DOMAIN more : FileOf[c] = f
  /\ DOMAIN both = DOMAIN old \cup DOMAIN more
  /\ \A c \in DOMAIN more : both[c] = more[c]
  /\ \A c \in DOMAIN old \ DOMAIN more : both[c] = old[c]

\* A file that was not read yet adds its own diagnostic and no other.
LEMMA ReportsGrow ==
  ASSUME NEW both, NEW old, NEW more, NEW files, NEW f, f \notin files, Extends(both, old, more, files, f)
  PROVE  Reports(files \cup {f}, both) =
           Reports(files, old) \cup Report(more, f)
<1>1. ASSUME NEW g \in files PROVE Unclear(both, g) <=> Unclear(old, g)
  <2>1. g # f
    BY <1>1
  <2>2. \A c \in DOMAIN both : FileOf[c] = g => c \in DOMAIN old \ DOMAIN more
    BY <2>1 DEF Extends
  <2>3. \A c \in DOMAIN old : FileOf[c] = g => c \in DOMAIN both /\ c \in DOMAIN old \ DOMAIN more
    BY <2>1 DEF Extends
  <2>4. QED
    BY <2>2, <2>3, Zenon DEF Unclear, Extends
<1>2. Unclear(both, f) <=> Unclear(more, f)
  <2>1. \A c \in DOMAIN both : FileOf[c] = f => c \in DOMAIN more
    BY DEF Extends
  <2>2. DOMAIN more \subseteq DOMAIN both
    BY DEF Extends
  <2>3. QED
    BY <2>1, <2>2, Zenon DEF Unclear, Extends
<1>3. {g \in files \cup {f} : Unclear(both, g)} = {g \in files : Unclear(old, g)} \cup (IF Unclear(more, f) THEN {f} ELSE {})
  BY <1>1, <1>2
<1> DEFINE One(g) == [file |-> g, required |-> g \in RequiredSources]
           A == {g \in files : Unclear(old, g)}
<1>4. CASE Unclear(more, f)
  <2>1. {g \in files \cup {f} : Unclear(both, g)} = A \cup {f}
    BY <1>3, <1>4
  <2>2. {One(g) : g \in A \cup {f}} = {One(g) : g \in A} \cup {One(f)}
    OBVIOUS
  <2>3. QED
    BY <1>4, <2>1, <2>2 DEF Reports, Report
<1>5. CASE ~Unclear(more, f)
  BY <1>3, <1>5 DEF Reports, Report
<1>6. QED
  BY <1>4, <1>5

\* The evidence's part of the invariant.
LEMMA ReadNext ==
  ASSUME ReadInv, VerdictInv, [Next]_vars
  PROVE  ReadInv'
<1>0. Len(Files) \in Nat
  BY FilesAssumption
<1>1. CASE LoadFile
  <2> DEFINE f == Files[loaded + 1]
             more == parseFile(f, contents, f \in RequiredSources)
             both == appendDiscovery(discovery, more)
  <2>1. /\ discovery' = both /\ loaded' = loaded + 1 /\ pc = "load"
        /\ pc' = (IF loaded' = Len(Files) THEN "evaluate" ELSE "load")
        /\ UNCHANGED <<elsewhere, result>>
    BY <1>1 DEF LoadFile, setup
  <2>2. loaded \in Nat /\ loaded < Len(Files) /\ result = {}
    BY <1>0, <2>1 DEF ReadInv, VerdictInv
  <2>3. Before(loaded + 1) = Before(loaded) \cup {f} /\ f \notin Before(loaded)
    BY <2>2, BeforeGrows
  <2> HIDE DEF f, more
  <2>4. /\ DOMAIN more.read = {c \in Consumers : FileOf[c] = f /\ contents[c] # Absent}
        /\ \A c \in DOMAIN more.read : more.read[c] = contents[c]
        /\ ~Unclear(more.read, f) => more.diagnostics = {}
        /\ Unclear(more.read, f) => more.diagnostics = {[file |-> f, required |-> f \in RequiredSources]}
    <3>1. more = parseFile(f, contents, f \in RequiredSources)
      BY DEF more
    <3>2. QED
      BY <3>1, ParsedFields
  <2>5. \A c \in DOMAIN more.read : more.read[c] # Absent /\ FileOf[c] = f /\ c \in Consumers
    BY <2>4
  <2> HIDE DEF both
  <2>6. /\ IsDiscovery(both) /\ IsReading(both.read)
        /\ DOMAIN both.read = DOMAIN discovery.read \cup DOMAIN more.read
        /\ \A c \in DOMAIN more.read : both.read[c] = more.read[c]
        /\ \A c \in DOMAIN discovery.read \ DOMAIN more.read : both.read[c] = discovery.read[c]
        /\ both.diagnostics = discovery.diagnostics \cup more.diagnostics
    <3>1. both = appendDiscovery(discovery, more)
      BY DEF both
    <3>2. QED
      BY <3>1, AppendedFields
  <2>7. /\ DOMAIN discovery.read \subseteq Consumers
        /\ \A c \in DOMAIN discovery.read : discovery.read[c] # Absent /\ FileOf[c] \in Before(loaded)
        /\ discovery.diagnostics = Reports(Before(loaded), discovery.read)
    BY <2>2 DEF ReadInv, Reports
  <2>8. both.diagnostics = Reports(Before(loaded) \cup {f}, both.read)
    <3>1. Extends(both.read, discovery.read, more.read, Before(loaded), f)
      BY <2>5, <2>6, <2>7 DEF Extends
    <3>2. Reports(Before(loaded) \cup {f}, both.read) = Reports(Before(loaded), discovery.read)
                                                             \cup Report(more.read, f)
      BY <2>3, <3>1, ReportsGrow
    <3>3. QED
      BY <2>4, <2>6, <2>7, <3>2 DEF Report
  <2>9. /\ DOMAIN both.read \subseteq Consumers
        /\ \A c \in DOMAIN both.read : both.read[c] # Absent /\ FileOf[c] \in Before(loaded + 1)
    BY <2>3, <2>5, <2>6, <2>7
  <2>10. /\ loaded' \in 0 .. Len(Files) /\ (pc' = "load" => loaded' < Len(Files))
         /\ pc' \in {"evaluate", "provider", "check", "render"} => loaded' = Len(Files)
    BY <1>0, <2>1, <2>2
  <2>11. both.diagnostics = Reports(Before(loaded'), both.read)
                              \cup IF elsewhere' /\ result' # {} THEN {[file |-> "elsewhere", required |-> TRUE]} ELSE {}
    BY <2>1, <2>2, <2>3, <2>8
  <2>12. QED
    BY <2>1, <2>6, <2>9, <2>10, <2>11 DEF ReadInv, Reports
<1>2. CASE EvaluateAndAsk
  <2> DEFINE d == IF elsewhere THEN [discovery EXCEPT !.diagnostics = @ \cup {[file |-> "elsewhere", required |-> TRUE]}]
                  ELSE discovery
  <2>1. /\ discovery' = d /\ result' = {Evaluate(d, policy)} /\ pc' \in {"done", "provider"}
        /\ pc = "evaluate" /\ UNCHANGED <<setup, loaded>>
    BY <1>2, Zenon DEF EvaluateAndAsk
  <2>2. result = {} /\ result' # {} /\ elsewhere' = elsewhere
    BY <2>1 DEF VerdictInv, setup
  <2>3. discovery = [read |-> discovery.read, diagnostics |-> discovery.diagnostics]
    BY DEF ReadInv, IsDiscovery
  <2>4. /\ d.read = discovery.read /\ IsDiscovery(d)
        /\ d.diagnostics = discovery.diagnostics
                             \cup IF elsewhere THEN {[file |-> "elsewhere", required |-> TRUE]} ELSE {}
    BY <2>3 DEF IsDiscovery
  <2> HIDE DEF d
  <2>5. discovery.diagnostics = Reports(Before(loaded), discovery.read)
    BY <2>2 DEF ReadInv, Reports
  <2>6. /\ IsReading(discovery.read)
        /\ DOMAIN discovery.read \subseteq Consumers /\ loaded \in 0 .. Len(Files) /\ loaded = Len(Files)
        /\ \A c \in DOMAIN discovery.read : discovery.read[c] # Absent /\ FileOf[c] \in Before(loaded)
    BY <2>1 DEF ReadInv
  <2>7. discovery'.read = discovery.read /\ loaded' = loaded
    BY <2>1, <2>4
  <2>8. /\ IsDiscovery(discovery')
        /\ discovery'.diagnostics = Reports(Before(loaded'), discovery'.read)
                              \cup IF elsewhere' /\ result' # {} THEN {[file |-> "elsewhere", required |-> TRUE]} ELSE {}
    BY <2>1, <2>2, <2>4, <2>5, <2>7
  <2>9. QED
    BY <2>1, <2>6, <2>7, <2>8 DEF ReadInv, Reports
<1>3. CASE Edit \/ Fail \/ ProviderWrites \/ ProviderExits \/ ValidateNext \/ Render \/ Stop \/ UNCHANGED vars
  <2>1. /\ UNCHANGED <<elsewhere, loaded, discovery, result>>
        /\ pc' \in {pc, "done"} \/ (pc \in {"provider", "check"} /\ pc' \in {"check", "render"})
    BY <1>3 DEF Edit, Fail, ProviderWrites, ProviderExits, ValidateNext, Render, Stop, vars, setup
  <2>2. QED
    BY <2>1 DEF ReadInv
<1>4. QED
  BY <1>1, <1>2, <1>3 DEF Next
-----------------------------------------------------------------------------
(* The candidates. *)

\* The list of one element, and of none.
LEMMA SetToSeqOfOne ==
  /\ SetToSeq({}) = << >>
  /\ \A v : SetToSeq({v}) = <<v>>
<1>1. SetToSeq({}) = << >>
  <2>1. Cardinality({}) = 0
    BY FS_EmptySet
  <2>2. \A f \in [1 .. 0 -> {}] : f = << >>
    OBVIOUS
  <2>3. << >> \in [1 .. 0 -> {}] /\ IsInjective(<< >>)
    BY DEF IsInjective
  <2>4. QED
    BY <2>1, <2>2, <2>3 DEF SetToSeq
<1>2. ASSUME NEW v PROVE SetToSeq({v}) = <<v>>
  <2>1. Cardinality({v}) = 1
    BY FS_Singleton
  <2>2. \A f \in [1 .. 1 -> {v}] : f = <<v>>
    OBVIOUS
  <2>3. <<v>> \in [1 .. 1 -> {v}] /\ IsInjective(<<v>>)
    BY DEF IsInjective
  <2>4. QED
    BY <2>1, <2>2, <2>3 DEF SetToSeq
<1>3. QED
  BY <1>1, <1>2

\* A sequence is one over any set that holds its elements.
LEMMA SeqOver ==
  ASSUME NEW R, NEW t \in Seq(R), NEW W, \A i \in 1 .. Len(t) : t[i] \in W
  PROVE  t \in Seq(W)
<1>1. Len(t) \in Nat /\ t \in [1 .. Len(t) -> W]
  OBVIOUS
<1>2. QED
  BY <1>1

\* One more element.
LEMMA OneMore ==
  ASSUME NEW s, s \in Seq(Range(s)), NEW v, NEW t, t = s \o <<v>>
  PROVE  /\ t \in Seq(Range(t)) /\ Len(s) \in Nat /\ Len(t) = Len(s) + 1
         /\ DOMAIN t = DOMAIN s \cup {Len(s) + 1}
         /\ t[Len(s) + 1] = v /\ \A i \in DOMAIN s : t[i] = s[i]
<1> DEFINE R == Range(s) \cup {v}
<1>1. s \in Seq(R) /\ <<v>> \in Seq(R)
  OBVIOUS
<1> HIDE DEF R
<1>2. Len(s) \in Nat /\ DOMAIN s = 1 .. Len(s) /\ Len(<<v>>) = 1 /\ <<v>>[1] = v
  BY <1>1
<1>3. t \in Seq(R) /\ Len(t) = Len(s) + 1 /\ DOMAIN t = 1 .. Len(s) + 1
  BY <1>1, <1>2
<1>4. \A i \in 1 .. Len(s) : t[i] = s[i]
  BY <1>1, <1>2
<1>5. t[Len(s) + 1] = v
  BY <1>1, <1>2
<1>6. \A i \in 1 .. Len(t) : t[i] \in Range(t)
  BY <1>3 DEF Range
<1>7. t \in Seq(Range(t))
  BY <1>3, <1>6, SeqOver
<1>8. QED
  BY <1>2, <1>3, <1>4, <1>5, <1>7

\* What a candidate that passed has been through.
Checked(candidate, v) ==
  LET file == FileOf[candidate.target[2]]
      matches == scalarMatches(file, candidate.before)
      parsed == parseFile(file, v.patched, TRUE)
  IN /\ v.candidate = candidate /\ v.seen = contents
     /\ candidate.target[2] \in found(discovery)
     /\ Cardinality(matches) = 1
     /\ v.patched = [s \in Slots |-> IF s \in matches THEN candidate.after ELSE contents[s]]
     /\ parsed.diagnostics = {}
     /\ v.simulated = statusForChanges(replaceSourceDiscovery(discovery, parsed, file), policy)

\* validateCandidate reports at most one thing, and only what it checked.
LEMMA CandidateIsChecked ==
  ASSUME NEW candidate
  PROVE  /\ \A v \in validateCandidate(candidate) : Checked(candidate, v)
         /\ \A v, w \in validateCandidate(candidate) : v = w
<1> DEFINE target == candidate.target
           file == FileOf[target[2]]
           matches == scalarMatches(file, candidate.before)
           new == [s \in Slots |-> IF s \in matches THEN candidate.after ELSE contents[s]]
           parsed == parseFile(file, new, TRUE)
           simulated == Evaluate(replaceSourceDiscovery(discovery, parsed, file), policy)
           report == [candidate |-> candidate, patched |-> new, simulated |-> simulated.status, seen |-> contents]
<1>1. ASSUME NEW v \in validateCandidate(candidate)
      PROVE  /\ v = report /\ Cardinality(matches) = 1 /\ parsed.diagnostics = {}
             /\ target[2] \in found(discovery)
  <2>1. /\ validateTargetProvenance(target)
        /\ \E p \in patchArtifact(file, candidate.before, candidate.after) :
             LET q == parseFile(file, p, TRUE)
                 sim == Evaluate(replaceSourceDiscovery(discovery, q, file), policy)
             IN /\ q.diagnostics = {}
                /\ v = [candidate |-> candidate, patched |-> p, simulated |-> sim.status, seen |-> contents]
    BY <1>1, Zenon DEF validateCandidate
  <2>2. \A p \in patchArtifact(file, candidate.before, candidate.after) : p = new /\ Cardinality(matches) = 1
    BY DEF patchArtifact
  <2>3. target[2] \in found(discovery)
    BY <2>1 DEF validateTargetProvenance
  <2>4. QED
    BY <2>1, <2>2, <2>3, Zenon
<1>2. simulated.status = statusForChanges(replaceSourceDiscovery(discovery, parsed, file), policy)
  BY EvaluateStatus
<1> HIDE DEF simulated
<1>3. /\ report.candidate = candidate /\ report.patched = new /\ report.seen = contents
      /\ report.simulated = simulated.status
  OBVIOUS
<1>4. ASSUME NEW v \in validateCandidate(candidate) PROVE Checked(candidate, v)
  <2>1. v = report /\ Cardinality(matches) = 1 /\ parsed.diagnostics = {} /\ target[2] \in found(discovery)
    BY <1>1
  <2> HIDE DEF report
  <2>2. /\ v.candidate = candidate /\ v.patched = new /\ v.seen = contents /\ v.simulated = simulated.status
    BY <1>3, <2>1
  <2>3. QED
    BY <1>2, <2>1, <2>2, Zenon DEF Checked
<1>5. QED
  BY <1>1, <1>4, Zenon

\* A step of the check: the candidate fails, or is added to those that passed.
LEMMA OneChecked ==
  ASSUME AnswerInv, ValidateNext
  PROVE  \/ validated' = validated /\ pc' = "done"
         \/ \E answer \in response : \E v :
              /\ Checked(answer[Len(validated) + 1], v) /\ validated' = validated \o <<v>>
              /\ pc' = IF Len(validated) + 1 = Len(answer) THEN "render" ELSE "check"
<1>1. PICK answer \in response :
        LET checked == validateCandidate(answer[Len(validated) + 1])
        IN /\ validated' = validated \o SetToSeq(checked)
           /\ pc' = IF checked = {} THEN "done" ELSE IF Len(validated) + 1 = Len(answer) THEN "render" ELSE pc
  BY DEF ValidateNext
<1> DEFINE candidate == answer[Len(validated) + 1]
           checked == validateCandidate(candidate)
<1>2. CASE checked = {}
  <2>1. validated' = validated \o << >> /\ pc' = "done"
    BY <1>1, <1>2, SetToSeqOfOne
  <2>2. QED
    BY <2>1 DEF AnswerInv
<1>3. CASE checked # {}
  <2>1. PICK v : v \in checked
    BY <1>3
  <2>2. checked = {v} /\ Checked(candidate, v)
    BY <2>1, CandidateIsChecked
  <2>3. validated' = validated \o <<v>>
    BY <1>1, <2>2, SetToSeqOfOne
  <2>4. pc' = IF Len(validated) + 1 = Len(answer) THEN "render" ELSE "check"
    BY <1>1, <1>3 DEF ValidateNext
  <2>5. QED
    BY <2>2, <2>3, <2>4
<1>4. QED
  BY <1>2, <1>3
\* One entry of PatchIsConfined, and one of SimulationIsHonest.
Confined(v) ==
  LET replaced == {s \in Slots : v.patched[s] # v.seen[s]}
      consumer == v.candidate.target[2]
  IN Cardinality(replaced) = 1 /\ (v.seen[consumer] = v.candidate.before => consumer \in replaced)

Untouched(v) ==
  \A c \in Consumers : FileOf[c] # FileOf[v.candidate.target[2]] =>
    v.seen[c] = IF c \in found(discovery) THEN discovery.read[c] ELSE Absent

Honest(v) == Untouched(v) => v.simulated = statusForChanges(rediscovered(v.patched), policy)

\* A checked candidate replaces the one text that is the old expression.
LEMMA CheckedIsConfined ==
  ASSUME ReadInv, NEW candidate, NEW v, Checked(candidate, v), candidate.after # candidate.before
  PROVE  Confined(v)
<1> DEFINE consumer == candidate.target[2]
           matches == scalarMatches(FileOf[consumer], candidate.before)
           replaced == {s \in Slots : v.patched[s] # v.seen[s]}
<1>1. /\ v.candidate = candidate /\ v.seen = contents /\ consumer \in found(discovery)
      /\ Cardinality(matches) = 1
      /\ v.patched = [s \in Slots |-> IF s \in matches THEN candidate.after ELSE contents[s]]
  BY DEF Checked
<1>2. consumer \in Slots
  BY <1>1 DEF ReadInv, found, Slots
<1>3. \A s : s \in matches <=> s \in Slots /\ FileOf[s] = FileOf[consumer] /\ contents[s] = candidate.before
  BY DEF scalarMatches
<1> HIDE DEF consumer, matches
<1>4. replaced = matches
  BY <1>1, <1>3
<1>5. contents[consumer] = candidate.before => consumer \in replaced
  BY <1>2, <1>3, <1>4
<1> HIDE DEF replaced
<1>6. Cardinality(replaced) = 1
  BY <1>1, <1>4
<1>7. QED
  BY <1>1, <1>5, <1>6, Zenon DEF Confined, consumer, replaced

\* What a patched repository would be read as.
LEMMA FreshFields ==
  ASSUME NEW text, NEW fresh, fresh = rediscovered(text)
  PROVE  /\ IsDiscovery(fresh) /\ IsReading(fresh.read)
         /\ DOMAIN fresh.read = {c \in Consumers : text[c] # Absent}
         /\ \A c \in DOMAIN fresh.read : fresh.read[c] = text[c]
         /\ fresh.diagnostics = diagnosticsOfAll(text)
BY DEF rediscovered, IsDiscovery, IsReading

\* Replacing the reading of one file.
LEMMA ReplacedFields ==
  ASSUME NEW d, NEW more, NEW file, NEW both, both = replaceSourceDiscovery(d, more, file)
  PROVE  /\ IsDiscovery(both) /\ IsReading(both.read)
         /\ DOMAIN both.read = {c \in DOMAIN d.read : FileOf[c] # file} \cup DOMAIN more.read
         /\ \A c \in DOMAIN more.read : both.read[c] = more.read[c]
         /\ \A c \in DOMAIN d.read : FileOf[c] # file /\ c \notin DOMAIN more.read => both.read[c] = d.read[c]
         /\ both.diagnostics = {x \in d.diagnostics : x.file # file} \cup more.diagnostics
<1> DEFINE others == {c \in found(d) : FileOf[c] # file}
           kept == [read |-> [c \in others |-> d.read[c]], diagnostics |-> {x \in d.diagnostics : x.file # file}]
<1>1. /\ kept.read = [c \in others |-> d.read[c]] /\ kept.diagnostics = {x \in d.diagnostics : x.file # file}
  OBVIOUS
<1>2. both = appendDiscovery(kept, more)
  BY DEF replaceSourceDiscovery
<1>3. DOMAIN kept.read = {c \in DOMAIN d.read : FileOf[c] # file} /\ \A c \in DOMAIN kept.read : kept.read[c] = d.read[c]
  BY <1>1 DEF found
<1> HIDE DEF kept
<1>4. /\ IsDiscovery(both) /\ IsReading(both.read)
      /\ DOMAIN both.read = DOMAIN kept.read \cup DOMAIN more.read
      /\ \A c \in DOMAIN more.read : both.read[c] = more.read[c]
      /\ \A c \in DOMAIN kept.read \ DOMAIN more.read : both.read[c] = kept.read[c]
      /\ both.diagnostics = kept.diagnostics \cup more.diagnostics
  BY <1>2, AppendedFields
<1>5. QED
  BY <1>1, <1>3, <1>4

\* A checked candidate's simulation is a new run on the patched repository.
LEMMA CheckedIsHonest ==
  ASSUME ReadInv, pc = "check", result # {}, NEW candidate, NEW v, Checked(candidate, v)
  PROVE  Honest(v)
<1> DEFINE consumer == candidate.target[2]
           file == FileOf[consumer]
           matches == scalarMatches(file, candidate.before)
           text == v.patched
           parsed == parseFile(file, text, TRUE)
           both == replaceSourceDiscovery(discovery, parsed, file)
           fresh == rediscovered(text)
           Some == IF elsewhere THEN {[file |-> "elsewhere", required |-> TRUE]} ELSE {}
           All == Before(Len(Files))
<1>1. /\ v.candidate = candidate /\ v.seen = contents /\ consumer \in found(discovery)
      /\ text = [s \in Slots |-> IF s \in matches THEN candidate.after ELSE contents[s]]
      /\ parsed.diagnostics = {}
      /\ v.simulated = statusForChanges(both, policy)
  BY DEF Checked
<1>2. SUFFICES ASSUME Untouched(v) PROVE both = fresh
  BY <1>1 DEF Honest
<1>3. /\ IsDiscovery(discovery) /\ DOMAIN discovery.read \subseteq Consumers
      /\ \A c \in DOMAIN discovery.read : discovery.read[c] # Absent /\ FileOf[c] \in All
      /\ discovery.diagnostics = Reports(All, discovery.read) \cup Some
  BY DEF ReadInv, Reports
<1>4. All = Range(Files)
  <2>1. DOMAIN Files = 1 .. Len(Files)
    BY FilesAssumption
  <2>2. QED
    BY <2>1, Zenon DEF Before, Range
<1>5. file # "elsewhere"
  BY <1>1, <1>3, <1>4, FilesAssumption DEF found
<1>6. ASSUME NEW c \in Consumers, FileOf[c] # file
      PROVE  text[c] = IF c \in DOMAIN discovery.read THEN discovery.read[c] ELSE Absent
  <2>1. c \in Slots /\ c \notin matches
    BY <1>6 DEF Slots, scalarMatches
  <2>2. text[c] = contents[c]
    BY <1>1, <2>1
  <2>3. QED
    BY <1>1, <1>2, <1>6, <2>2 DEF Untouched, found
<1>7. /\ DOMAIN parsed.read = {c \in Consumers : FileOf[c] = file /\ text[c] # Absent}
      /\ \A c \in DOMAIN parsed.read : parsed.read[c] = text[c]
      /\ ~Unclear(parsed.read, file)
  <2> HIDE DEF text, file, parsed
  <2>1. PICK required : parsed = parseFile(file, text, required)
    BY DEF parsed
  <2>2. /\ DOMAIN parsed.read = {c \in Consumers : FileOf[c] = file /\ text[c] # Absent}
        /\ \A c \in DOMAIN parsed.read : parsed.read[c] = text[c]
        /\ Unclear(parsed.read, file) => parsed.diagnostics = {[file |-> file, required |-> required]}
    BY <2>1, ParsedFields
  <2>3. QED
    BY <1>1, <2>2
<1> HIDE DEF consumer, file, matches, text, parsed
<1>8. /\ IsDiscovery(both) /\ IsReading(both.read)
      /\ DOMAIN both.read = {c \in DOMAIN discovery.read : FileOf[c] # file} \cup DOMAIN parsed.read
      /\ \A c \in DOMAIN parsed.read : both.read[c] = parsed.read[c]
      /\ \A c \in DOMAIN discovery.read :
           FileOf[c] # file /\ c \notin DOMAIN parsed.read => both.read[c] = discovery.read[c]
      /\ both.diagnostics = {x \in discovery.diagnostics : x.file # file} \cup parsed.diagnostics
  BY ReplacedFields
<1>9. /\ IsDiscovery(fresh) /\ IsReading(fresh.read)
      /\ DOMAIN fresh.read = {c \in Consumers : text[c] # Absent}
      /\ \A c \in DOMAIN fresh.read : fresh.read[c] = text[c]
      /\ fresh.diagnostics = diagnosticsOfAll(text)
  BY FreshFields
<1> HIDE DEF both, fresh
<1>10. both.read = fresh.read
  <2>1. DOMAIN both.read = DOMAIN fresh.read
    BY <1>3, <1>6, <1>7, <1>8, <1>9
  <2>2. ASSUME NEW c \in DOMAIN fresh.read PROVE both.read[c] = fresh.read[c]
    <3>1. CASE FileOf[c] = file
      BY <1>7, <1>8, <1>9, <2>2, <3>1
    <3>2. CASE FileOf[c] # file
      BY <1>3, <1>6, <1>7, <1>8, <1>9, <2>2, <3>2
    <3>3. QED
      BY <3>1, <3>2
  <2>3. QED
    BY <1>8, <1>9, <2>1, <2>2 DEF IsReading
<1>11. both.diagnostics = fresh.diagnostics
  <2> DEFINE Of(f) == parseFile(f, text, f \in RequiredSources)
             One(f) == [file |-> f, required |-> f \in RequiredSources]
  <2>1. ASSUME NEW f PROVE Of(f).diagnostics = IF f # file /\ Unclear(discovery.read, f) THEN {One(f)} ELSE {}
    <3> HIDE DEF Of
    <3>1. Of(f) = parseFile(f, text, f \in RequiredSources)
      BY DEF Of
    <3>2. /\ DOMAIN Of(f).read = {c \in Consumers : FileOf[c] = f /\ text[c] # Absent}
          /\ \A c \in DOMAIN Of(f).read : Of(f).read[c] = text[c]
          /\ ~Unclear(Of(f).read, f) => Of(f).diagnostics = {}
          /\ Unclear(Of(f).read, f) => Of(f).diagnostics = {[file |-> f, required |-> f \in RequiredSources]}
      BY <3>1, ParsedFields
    <3>3. CASE f = file
      <4>1. ~Unclear(Of(f).read, f)
        BY <1>7, <3>2, <3>3 DEF Unclear
      <4>2. QED
        BY <3>2, <3>3, <4>1
    <3>4. CASE f # file
      <4>1. Unclear(Of(f).read, f) <=> Unclear(discovery.read, f)
        BY <1>3, <1>6, <3>2, <3>4 DEF Unclear
      <4>2. QED
        BY <3>2, <3>4, <4>1
    <3>5. QED
      BY <3>3, <3>4
  <2>2. fresh.diagnostics = (UNION {Of(f).diagnostics : f \in Range(Files)}) \cup Some
    BY <1>9 DEF diagnosticsOfAll
  <2> HIDE DEF Of
  <2>3. UNION {Of(f).diagnostics : f \in Range(Files)} = {One(f) : f \in {f \in All : f # file /\ Unclear(discovery.read, f)}}
    BY <1>4, <2>1
  <2>4. both.diagnostics = {x \in Reports(All, discovery.read) \cup Some : x.file # file}
    BY <1>1, <1>3, <1>8
  <2>5. {x \in Some : x.file # file} = Some
    BY <1>5
  <2>6. {x \in Reports(All, discovery.read) : x.file # file} = {One(f) : f \in {f \in All : f # file /\ Unclear(discovery.read, f)}}
    BY DEF Reports
  <2> HIDE DEF Some, One
  <2>7. {x \in Reports(All, discovery.read) \cup Some : x.file # file} =
          {x \in Reports(All, discovery.read) : x.file # file} \cup {x \in Some : x.file # file}
    OBVIOUS
  <2>8. QED
    BY <2>2, <2>3, <2>4, <2>5, <2>6, <2>7, Zenon
<1>12. QED
  BY <1>8, <1>9, <1>10, <1>11 DEF IsDiscovery
-----------------------------------------------------------------------------
(* The steps. *)

\* The answers' part of the invariant.
LEMMA AnswerNext ==
  ASSUME AnswerInv, ReadInv, VerdictInv, [Next]_vars
  PROVE  AnswerInv'
<1>1. CASE EvaluateAndAsk
  <2> DEFINE d == IF elsewhere THEN [discovery EXCEPT !.diagnostics = @ \cup {[file |-> "elsewhere", required |-> TRUE]}]
                  ELSE discovery
  <2>1. /\ targets' \subseteq Changes \X found(d) /\ result' # {} /\ pc = "evaluate" /\ pc' \in {"done", "provider"}
        /\ UNCHANGED <<setup, provider, validated>>
    BY <1>1, Zenon DEF EvaluateAndAsk, remediationTargets, adviceFindings
  <2>2. found(d) \subseteq Consumers
    BY DEF ReadInv, IsDiscovery, found
  <2> HIDE DEF d
  <2>3. targets' \subseteq Changes \X Consumers
    BY <2>1, <2>2
  <2>4. response' = {} /\ validated' = << >> /\ validated' \in Seq(Range(validated'))
    BY <2>1 DEF AnswerInv, Started, provider
  <2>5. QED
    BY <2>1, <2>3, <2>4, Zenon DEF AnswerInv
<1>2. CASE ProviderExits
  <2>1. PICK answer \in IF task = "remediate" THEN ResponsesTo(targets) ELSE AdviceFor(targets) :
          LET accepted == /\ ~stdout.exceeded
                          /\ IF task = "remediate" THEN validateResponse(answer) ELSE validateAdvice(answer)
          IN /\ response' = IF accepted THEN {answer} ELSE {}
             /\ pc' = IF ~accepted THEN "done" ELSE IF task = "remediate" THEN "check" ELSE "render"
    BY <1>2 DEF ProviderExits
  <2>2. /\ pc = "provider" /\ UNCHANGED <<task, result, targets, validated>>
    BY <1>2 DEF ProviderExits, setup
  <2>3. /\ targets \subseteq Changes \X Consumers /\ validated = << >> /\ result # {}
        /\ validated \in Seq(Range(validated))
    BY <2>2 DEF AnswerInv, Started
  <2>4. /\ pc' \in {"done", "check", "render"} /\ (pc' = "check" => task = "remediate")
        /\ \A a, b \in response' : a = b
        /\ \A a \in response' : a = answer
    BY <2>1
  <2>5. ASSUME task = "remediate", response' # {}
        PROVE  /\ answer \in Seq(Range(answer)) /\ Len(validated) < Len(answer)
               /\ \A i \in DOMAIN answer : answer[i].after # answer[i].before
    <3>1. answer \in ResponsesTo(targets) /\ validateResponse(answer)
      BY <2>1, <2>5
    <3>2. answer \in Seq(Range(answer)) /\ answer # << >>
      BY <2>3, <3>1, AnswersAssumption DEF validateResponse
    <3>3. Len(answer) \in Nat /\ Len(answer) # 0
      BY <3>2
    <3>4. QED
      BY <2>3, <3>1, <3>2, <3>3 DEF validateResponse
  <2>6. QED
    BY <2>2, <2>3, <2>4, <2>5 DEF AnswerInv, Started
<1>3. CASE ValidateNext
  <2>1. pc = "check" /\ UNCHANGED <<task, result, targets, response>>
    BY <1>3 DEF ValidateNext, setup, provider
  <2>2. CASE validated' = validated /\ pc' = "done"
    BY <2>1, <2>2 DEF AnswerInv, Started
  <2>3. ASSUME NEW answer \in response, NEW v, validated' = validated \o <<v>>,
               pc' = IF Len(validated) + 1 = Len(answer) THEN "render" ELSE "check"
        PROVE  AnswerInv'
    <3>1. /\ task = "remediate" /\ answer \in Seq(Range(answer)) /\ Len(validated) < Len(answer)
          /\ validated \in Seq(Range(validated)) /\ \A a \in response : a = answer
      BY <2>1 DEF AnswerInv
    <3>2. validated' \in Seq(Range(validated')) /\ Len(validated) \in Nat /\ Len(validated') = Len(validated) + 1
      BY <2>3, <3>1, OneMore
    <3>3. pc' = "check" => Len(validated') < Len(answer)
      <4>1. Len(answer) \in Nat
        BY <3>1
      <4>2. QED
        BY <2>3, <3>1, <3>2, <4>1
    <3>4. pc' \notin Started /\ pc' # "provider"
      BY <2>3 DEF Started
    <3>5. QED
      BY <2>1, <3>1, <3>2, <3>3, <3>4 DEF AnswerInv
  <2>4. QED
    BY <1>3, <2>2, <2>3, OneChecked
<1>4. CASE LoadFile
  <2>1. pc = "load" /\ pc' \in {"load", "evaluate"} /\ UNCHANGED <<task, targets, response, validated>>
    BY <1>4 DEF LoadFile, setup, provider
  <2>2. QED
    BY <2>1 DEF AnswerInv, Started
<1>5. CASE Edit \/ Fail \/ ProviderWrites \/ Render \/ Stop \/ UNCHANGED vars
  <2>1. pc' \in {pc, "done"} /\ UNCHANGED <<task, result, targets, response, validated>>
    BY <1>5 DEF Edit, Fail, ProviderWrites, Render, Stop, vars, setup, provider
  <2>2. QED
    BY <2>1 DEF AnswerInv, Started
<1>6. QED
  BY <1>1, <1>2, <1>3, <1>4, <1>5 DEF Next

\* Every candidate that passed is confined and honest.
EntriesInv == \A i \in DOMAIN validated : Confined(validated[i]) /\ Honest(validated[i])

\* It stays so: nothing is read once candidates have passed.
LEMMA EntriesNext ==
  ASSUME EntriesInv, AnswerInv, ReadInv, VerdictInv, [Next]_vars
  PROVE  EntriesInv'
<1>1. CASE LoadFile \/ EvaluateAndAsk
  <2>1. validated' = << >>
    BY <1>1 DEF LoadFile, EvaluateAndAsk, AnswerInv, Started
  <2>2. QED
    BY <2>1 DEF EntriesInv
<1>2. CASE ~(LoadFile \/ EvaluateAndAsk)
  <2>1. UNCHANGED <<discovery, policy, elsewhere>>
    BY <1>2 DEF Next, Edit, Fail, ProviderWrites, ProviderExits, ValidateNext, Render, Stop, vars, setup
  <2>2. \A v : Honest(v)' = Honest(v)
    BY <2>1 DEF Honest, Untouched, rediscovered, diagnosticsOfAll
  <2>3. \A v : Honest(v)' <=> Honest(v)
    BY <2>2
  <2>4. CASE ~ValidateNext \/ validated' = validated
    <3>1. validated' = validated
      BY <1>2, <2>4 DEF Next, Edit, Fail, ProviderWrites, ProviderExits, Render, Stop, vars
    <3>2. QED
      BY <2>3, <3>1 DEF EntriesInv, Confined
  <2>5. ASSUME ValidateNext, NEW answer \in response, NEW v,
               Checked(answer[Len(validated) + 1], v), validated' = validated \o <<v>>
        PROVE  EntriesInv'
    <3> DEFINE candidate == answer[Len(validated) + 1]
    <3>1. /\ pc = "check" /\ result # {} /\ answer \in Seq(Range(answer)) /\ Len(validated) < Len(answer)
          /\ validated \in Seq(Range(validated))
          /\ \A i \in DOMAIN answer : answer[i].after # answer[i].before
      BY <2>5 DEF ValidateNext, AnswerInv
    <3>2. /\ Len(validated) \in Nat /\ DOMAIN validated' = DOMAIN validated \cup {Len(validated) + 1}
          /\ validated'[Len(validated) + 1] = v /\ \A i \in DOMAIN validated : validated'[i] = validated[i]
      BY <2>5, <3>1, OneMore
    <3>3. Len(validated) + 1 \in DOMAIN answer
      <4>1. DOMAIN answer = 1 .. Len(answer) /\ Len(answer) \in Nat
        BY <3>1
      <4>2. QED
        BY <3>1, <3>2, <4>1
    <3>4. candidate.after # candidate.before
      BY <3>1, <3>3
    <3>5. Confined(v) /\ Honest(v)
      BY <2>5, <3>1, <3>4, CheckedIsConfined, CheckedIsHonest
    <3>6. \A i \in DOMAIN validated' : Confined(validated'[i]) /\ Honest(validated'[i])
      BY <3>2, <3>5 DEF EntriesInv
    <3>7. QED
      BY <2>3, <3>6 DEF EntriesInv, Confined
  <2>6. QED
    BY <2>4, <2>5, OneChecked
<1>3. QED
  BY <1>1, <1>2

\* The command starts with nothing read.
LEMMA RemediationInit ==
  ASSUME Init
  PROVE  OutputInv /\ VerdictInv /\ ReadInv /\ AnswerInv /\ EntriesInv
<1>1. OutputInv
  BY DEF Init, OutputInv, NoOutput
<1>2. VerdictInv
  BY DEF Init, VerdictInv, Steps, Started, Running
<1>3. ReadInv
  <2>1. Len(Files) \in Nat /\ Len(Files) # 0
    BY FilesAssumption
  <2>2. /\ discovery.diagnostics = {} /\ discovery.read = [c \in {} |-> Absent] /\ IsDiscovery(discovery)
    BY DEF Init, NothingRead, IsDiscovery
  <2>3. DOMAIN discovery.read = {} /\ IsReading(discovery.read)
    BY <2>2 DEF IsReading
  <2>4. loaded = 0 /\ pc = "load" /\ result = {}
    BY DEF Init
  <2>5. Before(0) = {}
    BY DEF Before
  <2>6. QED
    BY <2>1, <2>2, <2>3, <2>4, <2>5 DEF ReadInv
<1>4. AnswerInv
  BY DEF Init, AnswerInv, Started
<1>5. EntriesInv
  BY DEF Init, EntriesInv
<1>6. QED
  BY <1>1, <1>2, <1>3, <1>4, <1>5

\* The invariant holds throughout.
THEOREM RemediationInvariant == Spec => [](OutputInv /\ VerdictInv /\ ReadInv /\ AnswerInv /\ EntriesInv)
<1> DEFINE Inv == OutputInv /\ VerdictInv /\ ReadInv /\ AnswerInv /\ EntriesInv
<1>1. Init => Inv
  BY RemediationInit
<1>2. Inv /\ [Next]_vars => Inv'
  BY OutputNext, VerdictNext, ReadNext, AnswerNext, EntriesNext
<1>3. QED
  BY <1>1, <1>2, PTL DEF Spec

\* An answer that was used is everything that the provider wrote (agentprocess).
THEOREM AnswerIsWhole == Spec => []ResponseIsWhole
<1>1. OutputInv => ResponseIsWhole
  BY DEF OutputInv, ResponseIsWhole
<1>2. QED
  BY <1>1, RemediationInvariant, PTL

\* The exit code and the status shown are those of the evidence, whatever was
\* proposed (migration.go).
THEOREM VerdictIsTheEvidence == Spec => []AuthorityKept
<1>1. VerdictInv => AuthorityKept
  BY DEF VerdictInv, AuthorityKept
<1>2. QED
  BY <1>1, RemediationInvariant, PTL

\* A candidate that passed replaces one text, its consumer's (artifact.go).
THEOREM CandidateIsConfined == Spec => []PatchIsConfined
<1>1. EntriesInv => PatchIsConfined
  BY DEF EntriesInv, Confined, PatchIsConfined
<1>2. QED
  BY <1>1, RemediationInvariant, PTL

\* A candidate's simulated status is what a new run would say (validator.go).
THEOREM CandidateIsHonest == Spec => []SimulationIsHonest
<1>1. EntriesInv => SimulationIsHonest
  BY DEF EntriesInv, Honest, Untouched, SimulationIsHonest
<1>2. QED
  BY <1>1, RemediationInvariant, PTL
=============================================================================
