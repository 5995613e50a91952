---------------------------- MODULE ChangeIntake ----------------------------
(***************************************************************************)
(* Where the changes that are judged come from (internal/changesource,     *)
(* internal/cli runSnapshotCommand and runDiffCommand): two snapshots of a *)
(* running Prometheus server, a Weaver diff with its mapping, a ChangeSet  *)
(* file or a legacy Migration file.                                        *)
(*                                                                         *)
(* A capture asks the server twice, first for metadata and then for        *)
(* series, while the server goes on changing.  Any request may fail; a     *)
(* server may ignore the requested limit, or cut its answer at the limit.  *)
(* history keeps, for each capture, what the server had at every moment    *)
(* and at some moment of it; no action reads it.                           *)
(***************************************************************************)
EXTENDS TelemetrySnapshots, WeaverImport

CONSTANTS ServerStates,     \* the states [series, meta] the server can be in
          HandWritten,      \* snapshot documents somebody may write by hand
          WeaverInputs,     \* pairs [diff, mapping] of Weaver documents
          ChangeFiles,      \* ChangeSet documents
          MigrationFiles,   \* Migration documents
          MaxServerChanges, \* bound: changes of the server during captures
          MaxEdits          \* bound: snapshot files replaced by hand

\* A server has finitely many series, labels and metadata entries.
ASSUME ServersAssumption ==
  \A s \in ServerStates :
    /\ IsFiniteSet(s.series) /\ IsFiniteSet(UNION {one.labels : one \in s.series})
    /\ IsFiniteSet(DOMAIN s.meta) /\ \A m \in DOMAIN s.meta : IsFiniteSet(s.meta[m])

\* The lists of a document are sequences, and a diff has one for every kind of item.
isList(seq) == seq \in Seq(Range(seq))

ASSUME DocumentsAssumption ==
  /\ \A d \in HandWritten :
       isList(d.snapshot.metrics) /\ \A m \in Range(d.snapshot.metrics) : isList(m.labels)
  /\ \A d \in ChangeFiles \cup MigrationFiles : isList(d.changes)
  /\ \A d \in WeaverInputs :
       /\ isList(d.mapping.entries)
       /\ DOMAIN d.diff.groups = Range(groupsOf("v2"))
       /\ \A k \in DOMAIN d.diff.groups : isList(d.diff.groups[k])

Sides == {"baseline", "candidate"}

VARIABLES
  server,   \* what Prometheus exposes
  pc,       \* the next step: of a capture, of a comparison, or "done"
  side,     \* the side being captured
  answer,   \* metadata and series received so far (sets: empty until received)
  files,    \* per side, the snapshot file: {} or {document}
  history,  \* per side, [steady, ever] of the capture; history variable
  edited,   \* the sides whose file was replaced by hand
  changed,  \* server changes so far
  source,   \* "snapshots", "weaver", "changes" or "migration"
  input,    \* the documents of a source other than snapshots: {} or {document}
  detected, \* {} or {[changes, required]}: what the source returned
  exported, \* {} or {document}: the file of diff --changes-output
  exit      \* exit code of the last command

vars == <<server, pc, side, answer, files, history, edited, changed, source, input, detected, exported, exit>>
serverVars == <<server, history, changed>>
fileVars == <<files, edited, exported>>

NoAnswer == [metadata |-> {}, series |-> {}]
Now(s) == [steady |-> s, ever |-> [series |-> s.series, names |-> DOMAIN s.meta]]

Init ==
  /\ server \in ServerStates
  /\ side = "baseline" /\ answer = NoAnswer
  /\ files = [s \in Sides |-> {}] /\ history = [s \in Sides |-> Now(server)]
  /\ edited = {} /\ changed = 0 /\ detected = {} /\ exported = {} /\ exit = 0
  /\ \/ source = "snapshots" /\ input = {} /\ pc = "idle"
     \/ source = "weaver" /\ pc = "detect" /\ \E d \in WeaverInputs : input = {d}
     \/ source = "changes" /\ pc = "detect" /\ \E d \in ChangeFiles : input = {d}
     \/ source = "migration" /\ pc = "detect" /\ \E d \in MigrationFiles : input = {d}
  /\ source # "snapshots" => server = CHOOSE s \in ServerStates : TRUE

(***************************************************************************)
(* The server.                                                             *)
(***************************************************************************)
capturing == pc \in {"metadata", "series"}

\* What stays and what is added to the record of a capture when the server moves on.
Witness(h, new) ==
  [steady |-> [series |-> h.steady.series \cap new.series,
               meta |-> [m \in {m \in DOMAIN h.steady.meta \cap DOMAIN new.meta :
                                  h.steady.meta[m] = new.meta[m]} |-> new.meta[m]]],
   ever |-> [series |-> h.ever.series \cup new.series, names |-> h.ever.names \cup DOMAIN new.meta]]

ServerChanges ==
  /\ capturing /\ changed < MaxServerChanges
  /\ \E s \in ServerStates \ {server} :
       /\ server' = s
       /\ history' = [history EXCEPT ![side] = Witness(@, s)]
  /\ changed' = changed + 1
  /\ UNCHANGED <<pc, side, answer, files, edited, source, input, detected, exported, exit>>

\* The change to be judged happens between the two captures.
Deploy ==
  /\ pc = "deploy"
  /\ server' \in ServerStates
  /\ pc' = "idle"
  /\ UNCHANGED <<side, answer, files, history, edited, changed, source, input, detected, exported, exit>>

\* An answer holds everything, or at least as much as was asked for: limit + 1.
Answers(all, limit) ==
  {part \in SUBSET all : Cardinality(part) >= limit + 1 \/ part = all}

(***************************************************************************)
(* Capture: runSnapshotCommand and Collect.                                *)
(***************************************************************************)
StartCapture ==
  /\ pc = "idle" /\ source = "snapshots"
  /\ pc' = "metadata" /\ answer' = NoAnswer
  /\ history' = [history EXCEPT ![side] = Now(server)]
  /\ UNCHANGED <<server, side, files, edited, changed, source, input, detected, exported, exit>>

\* A refused option, a request that fails (transport, status, size, warnings,
\* no data), a timeout: the command ends with 1 and writes nothing.
CaptureFails ==
  /\ capturing \/ pc = "idle" \/ pc = "build"
  /\ source = "snapshots"
  /\ pc' = "done" /\ exit' = 1
  /\ UNCHANGED <<server, side, answer, files, history, edited, changed, source, input, detected, exported>>

RequestMetadata ==
  /\ pc = "metadata"
  /\ \E names \in Answers(DOMAIN server.meta, MaxMetrics) :
       LET loaded == loadMetadata([m \in names |-> server.meta[m]]) IN
       /\ answer' = [answer EXCEPT !.metadata = loaded]
       /\ pc' = IF loaded = {} THEN "done" ELSE "series"
       /\ exit' = IF loaded = {} THEN 1 ELSE exit
  /\ UNCHANGED <<side, source, input, detected, fileVars, serverVars>>

RequestSeries ==
  /\ pc = "series"
  /\ \E part \in Answers(server.series, MaxSeries) :
       LET loaded == loadSeries(part) IN
       /\ answer' = [answer EXCEPT !.series = loaded]
       /\ pc' = IF loaded = {} THEN "done" ELSE "build"
       /\ exit' = IF loaded = {} THEN 1 ELSE exit
  /\ UNCHANGED <<side, source, input, detected, fileVars, serverVars>>

\* The file replaces an older one as a whole.  Nothing bounds its size here,
\* so a later Load may find it too large.
BuildSnapshot ==
  /\ pc = "build"
  /\ \E metadata \in answer.metadata, series \in answer.series, fits \in BOOLEAN :
       LET built == buildSnapshot("prometheus", metadata, series) IN
       /\ files' = [files EXCEPT ![side] =
                      IF built = {} THEN @ ELSE {[decodes |-> fits, snapshot |-> s] : s \in built}]
       /\ pc' = IF built = {} THEN "done" ELSE IF side = "baseline" THEN "deploy" ELSE "compare"
       /\ exit' = IF built = {} THEN 1 ELSE 0
  /\ side' = "candidate" /\ answer' = NoAnswer
  /\ UNCHANGED <<source, input, detected, edited, exported, serverVars>>

EditFile ==
  /\ pc \in {"deploy", "compare"} /\ Cardinality(edited) < MaxEdits
  /\ \E s \in Sides, d \in HandWritten :
       /\ files[s] # {}
       /\ files' = [files EXCEPT ![s] = {d}]
       /\ edited' = edited \cup {s}
  /\ UNCHANGED <<pc, side, answer, source, input, detected, exported, exit, serverVars>>

(***************************************************************************)
(* Detection.                                                              *)
(***************************************************************************)
\* SnapshotPair.Detect and CompareFiles: load the baseline, then the
\* candidate, compare them; the same diagnostics, with the candidate's path.
CompareFiles(baseline, candidate) ==
  UNION {Compare(b, c, "snapshots") : b \in Parse(baseline), c \in Parse(candidate)}

\* Weaver.Detect: an unsupported change leaves an empty set of changes and a
\* required diagnostic, provided that the mapping can be loaded.
DetectWeaver(diff, mapping) ==
  LET parsed == ParseDiff(diff) IN
  CASE parsed.verdict = "error" -> {}
    [] parsed.verdict = "unsupported" ->
         {[changes |-> << >>, required |-> {"unsupported"}] :
            m \in {m \in ParseMapping(mapping) : ValidateChangeSet(changeSetOf(m.name, << >>))}}
    [] OTHER -> UNION {UNION {ChangeSet(m.name, r) : r \in Convert(parsed.changes, m)} : m \in ParseMapping(mapping)}

DetectExplicit(document) == {[changes |-> cs.changes, required |-> {}] : cs \in ParseChangeSet(document)}

\* The legacy commands turn a Migration into a ChangeSet before they analyse it.
DetectMigration(document) ==
  {[changes |-> cs.changes, required |-> {}] :
     cs \in UNION {NormalizeMigration(m) : m \in ParseMigration(document)}}

\* Weaver's legacy contract, used by the migration commands on the same files.
DetectWeaverMigration(diff, mapping) ==
  LET parsed == ParseDiff(diff) IN
  IF parsed.verdict # "ok" THEN {}
  ELSE UNION {UNION {Migration(m.name, r) : r \in Convert(parsed.changes, m)} : m \in ParseMapping(mapping)}

Finish(result, code) ==
  /\ detected' = result
  /\ exit' = IF result = {} THEN 1 ELSE code
  /\ pc' = "done"

\* diff: the changes file is written before the diagnostics decide the exit code.
DiffSnapshots ==
  /\ pc = "compare"
  /\ \E b \in files["baseline"], c \in files["candidate"], fits, writable \in BOOLEAN :
       LET result == CompareFiles(b, c) IN
       /\ exported' = IF result = {} \/ ~writable THEN exported
                      ELSE {MarshalChangeSet(changeSetOf("snapshots", r.changes), fits) : r \in result}
       /\ Finish(IF writable THEN result ELSE {},
                 IF \E r \in result : r.required # {} THEN 3 ELSE 0)
  /\ UNCHANGED <<side, answer, files, edited, source, input, serverVars>>

Detect ==
  /\ pc = "detect"
  /\ \E d \in input :
       Finish(CASE source = "weaver" -> DetectWeaver(d.diff, d.mapping)
                [] source = "changes" -> DetectExplicit(d)
                [] source = "migration" -> DetectMigration(d), 0)
  /\ UNCHANGED <<side, answer, source, input, fileVars, serverVars>>

\* check --changes with the file that diff wrote, in a pipeline that goes on
\* only after exit code 0: the file does not carry the diagnostics of code 3.
UseExported ==
  /\ pc = "done" /\ source = "snapshots" /\ exit = 0
  /\ exported # {}
  /\ source' = "changes" /\ input' = exported /\ pc' = "detect"
  /\ UNCHANGED <<side, answer, detected, exit, fileVars, serverVars>>

\* The commands are over; the server and the files remain.
Stop == pc = "done" /\ UNCHANGED vars

Next ==
  \/ ServerChanges \/ Deploy \/ EditFile
  \/ StartCapture \/ CaptureFails \/ RequestMetadata \/ RequestSeries \/ BuildSnapshot
  \/ DiffSnapshots \/ Detect \/ UseExported \/ Stop

Spec == Init /\ [][Next]_vars

(***************************************************************************)
(* Properties.                                                             *)
(***************************************************************************)
captured(s) == IF s \in edited THEN {} ELSE files[s]
family(name) == {name, BaseName[name]}

\* What the server exposed during the whole of a capture is in the snapshot:
\* every series under its name or its family's, with all of its labels, and
\* every metric with metadata, with its type.  The two requests see different
\* moments, and the limits must not cut anything off silently.
StableIsCaptured ==
  \A s \in Sides : \A d \in captured(s) :
    /\ \A one \in history[s].steady.series :
         \E m \in Range(d.snapshot.metrics) : m.name \in family(one.name) /\ one.labels \subseteq Range(m.labels)
    /\ \A name \in DOMAIN history[s].steady.meta :
         \E m \in Range(d.snapshot.metrics) : m.name = name /\
           \A e \in history[s].steady.meta[name] : m.type = normalizeType(e.type)

removedBy(changes, kind, name, parents) ==
  \E i \in DOMAIN changes : changes[i].kind = kind /\ changes[i].from.name = name /\ changes[i].from.parent \in parents

\* A label that the baseline file names for a metric, and the candidate file
\* nowhere for that metric, is a removal.
fileLossIsReported(b, c, r) ==
  \A m \in Range(b.snapshot.metrics) : \A l \in Range(m.labels) :
    \/ \E n \in Range(c.snapshot.metrics) : n.name = m.name /\ l \in Range(n.labels)
    \/ removedBy(r.changes, "metric_remove", m.name, {""})
    \/ removedBy(r.changes, "label_remove", l, {m.name})

\* What went between the captures: a series that went with its metadata is a
\* metric removal, a label that went is a label removal unless its metric
\* went, and a changed type or unit is a required diagnostic and exit code 3.
serverLossIsReported(old, new, r) ==
  LET related(one) == {x \in new.ever.series : family(x.name) \cap family(one.name) # {}}
      goneMetric(one) == \E f \in family(one.name) : removedBy(r.changes, "metric_remove", f, {""})
  IN /\ \A one \in old.series :
          /\ (related(one) = {} /\ new.ever.names \cap family(one.name) = {}) => goneMetric(one)
          /\ \A l \in one.labels : (\A x \in related(one) : l \notin x.labels) =>
               goneMetric(one) \/ removedBy(r.changes, "label_remove", l, family(one.name))
     /\ \A m \in DOMAIN old.meta \cap DOMAIN new.steady.meta :
          \A e \in old.meta[m], f \in new.steady.meta[m] :
            (normalizeType(e.type) # normalizeType(f.type) \/ e.unit # f.unit) =>
               exit = 3 /\ \E d \in r.required : d.metric = m

\* Telemetry that was there during the whole baseline capture and at no
\* moment of the candidate's is reported by diff, and what a file written by
\* hand names is not lost either.  The same holds of the changes file that a
\* successful diff leaves for check to read.
LossIsReported ==
  (pc = "done") => \A b \in files["baseline"], c \in files["candidate"], r \in detected :
    /\ fileLossIsReported(b, c, r)
    /\ edited = {} => serverLossIsReported(history["baseline"].steady, history["candidate"], r)

\* Nothing of a Weaver diff is dropped: without a required diagnostic, every
\* item that is not an addition is explicitly ignored or is one of the
\* changes, and the legacy contract, where it accepts, means the same changes.
WeaverIsAccounted ==
  (pc = "done" /\ source = "weaver") => \A r \in detected : \A d \in input :
    LET items == UNION {{<<k, d.diff.groups[k][i]>> : i \in DOMAIN d.diff.groups[k]} : k \in DOMAIN d.diff.groups}
        entries == {trimEntry(e) : e \in Range(d.mapping.entries)}
        resolves(e, item) == /\ e.weaver.kind = item[1] /\ e.weaver.type = item[2].type
                             /\ \E n \in item[2].name \cup item[2].old_name : e.weaver.from = Trim(n)
                             /\ item[2].type = "renamed" => \E n \in item[2].new_name : e.weaver.to = Trim(n)
    IN /\ r.required = {} =>
            \A item \in items : item[2].type # "added" =>
              \E e \in entries : resolves(e, item) /\
                (e.ignore # "" \/ \E c \in Range(r.changes) : c.id = e.id)
       /\ \A m \in DetectWeaverMigration(d.diff, d.mapping) : r.changes = m.changes /\ r.required = {}

\* Whatever the source, the analysis gets changes it can follow: distinct
\* identifiers, symbols of the change's own domain and kind, labels with their
\* metric, and a destination exactly for a rename, which is another name.
DetectedIsWellFormed ==
  \A r \in detected :
    /\ \A c \in Range(r.changes) :
         /\ domainSupportsKind(c.domain, c.from.kind)
         /\ c.from.kind = "label" => ~isBlank(c.from.parent)
         /\ \A to \in c.to : to # c.from /\ to.kind = c.from.kind /\ to.parent = c.from.parent
         /\ c.kind \in RenameKinds <=> c.to # {}
    /\ Cardinality({c.id : c \in Range(r.changes)}) = Len(r.changes)
=============================================================================
