-------------------------- MODULE ChangeDocuments --------------------------
(***************************************************************************)
(* The documents that name changed telemetry (internal/config: changeset,  *)
(* migration, validation): when one is accepted, and which changes it      *)
(* stands for.  Every operator is a pure function of the document.         *)
(*                                                                         *)
(* A document that cannot be read or decoded (larger than the limit, not   *)
(* YAML, unknown fields, a second document) has decodes = FALSE.  An       *)
(* absent pointer is the empty set, and a present one a singleton.  The    *)
(* result of a parser is a set too: empty when it returns an error.  An    *)
(* identifier is a sequence of texts, empty when it is blank.  Of a        *)
(* change's metadata only whether it keeps within the limits matters.      *)
(***************************************************************************)
EXTENDS Naturals, Sequences

\* strings.TrimSpace(value) == "": " " stands for every blank text.
isBlank(value) == value \in {"", " "}
Trim(value) == IF isBlank(value) THEN "" ELSE value

\* A value that is there only under a condition, and a result unless an error.
only(condition, value) == IF condition THEN {value} ELSE {}

RenameKinds == {"metric_rename", "label_rename", "span_attribute_rename", "resource_attribute_rename"}
RemoveKinds == {"metric_remove", "label_remove", "span_attribute_remove", "resource_attribute_remove"}
isSupportedChangeKind(kind) == kind \in RenameKinds \cup RemoveKinds
isRename(kind) == kind \in RenameKinds

\* The kind of symbol a change of this kind is about.
expectedSymbolKind(kind) ==
  CASE kind \in {"label_rename", "label_remove"} -> "label"
    [] kind \in {"span_attribute_rename", "span_attribute_remove"} -> "span_attribute"
    [] kind \in {"resource_attribute_rename", "resource_attribute_remove"} -> "resource_attribute"
    [] OTHER -> "metric"

isSupportedDomain(dom) == dom \in {"prometheus", "opentelemetry", "tempo"}

domainSupportsKind(dom, symbolKind) ==
  IF symbolKind \in {"metric", "label"} THEN dom = "prometheus"
                                        ELSE dom \in {"opentelemetry", "tempo"}

validateSymbol(symbol, dom, symbolKind) ==
  /\ symbol.domain = dom
  /\ symbol.kind = symbolKind
  /\ ~isBlank(symbol.name)
  /\ symbolKind # "label" => symbol.parent = ""

\* One change, by itself.  A rename without a destination is not examined
\* further, and neither is a change of unknown kind: both are errors already.
validChange(change) ==
  LET symbolKind == expectedSymbolKind(change.kind) IN
  /\ change.id # << >>
  /\ isSupportedDomain(change.domain)
  /\ isSupportedChangeKind(change.kind)
  /\ domainSupportsKind(change.domain, symbolKind)
  /\ validateSymbol(change.from, change.domain, symbolKind)
  /\ symbolKind = "label" => ~isBlank(change.from.parent)
  /\ IF isRename(change.kind)
     THEN /\ change.to # {}
          /\ \A to \in change.to :
               /\ validateSymbol(to, change.domain, symbolKind)
               /\ change.from.name # to.name
               /\ symbolKind = "label" => change.from.parent = to.parent
     ELSE change.to = {}

\* A defect to detect: identifiers may repeat.
ChangesOneByOne(changes) == \A i \in DOMAIN changes : validChange(changes[i])

validateChanges(changes) ==
  /\ \A i \in DOMAIN changes : validChange(changes[i])
  /\ \A i, j \in DOMAIN changes : changes[i].id = changes[j].id => i = j

ValidateChangeSet(changeSet) ==
  /\ changeSet.envelope = "ChangeSet"
  /\ ~isBlank(changeSet.name)
  /\ validateChanges(changeSet.changes)
  /\ \A i \in DOMAIN changeSet.changes : changeSet.changes[i].metadata = "within"

\* The legacy contract asks for a change, and does not look at metadata.
ValidateMigration(migration) ==
  /\ migration.envelope = "Migration"
  /\ ~isBlank(migration.name)
  /\ migration.changes # << >>
  /\ validateChanges(migration.changes)

changeSetOf(name, changes) ==
  [envelope |-> "ChangeSet", name |-> name, changes |-> changes]

ParseChangeSet(document) ==
  only(document.decodes /\ ValidateChangeSet(document), changeSetOf(document.name, document.changes))

\* What is written can be read back, except that nothing bounds its size.
MarshalChangeSet(changeSet, fits) ==
  [decodes |-> fits, envelope |-> changeSet.envelope, name |-> changeSet.name,
   changes |-> changeSet.changes]

NormalizeMigration(migration) ==
  LET changeSet == changeSetOf(migration.name, migration.changes) IN
  only(ValidateMigration(migration) /\ ValidateChangeSet(changeSet), changeSet)

(***************************************************************************)
(* A migration manifest names symbols by field (metric, label, attribute). *)
(***************************************************************************)
symbolOf(field, dom, symbolKind, parentMetric) ==
  [domain |-> dom, kind |-> symbolKind,
   name |-> CASE symbolKind = "label" -> field.label
              [] symbolKind \in {"span_attribute", "resource_attribute"} -> field.attribute
              [] OTHER -> field.metric,
   parent |-> IF symbolKind = "label" THEN parentMetric ELSE ""]

migrationChange(change) ==
  LET symbolKind == expectedSymbolKind(change.kind)
      symbol(field) == symbolOf(field, change.domain, symbolKind, change.metric)
  IN [id |-> change.id, kind |-> change.kind, domain |-> change.domain,
      from |-> symbol(change.from), to |-> {symbol(to) : to \in change.to},
      metadata |-> "within"]

\* Fields that do not belong to the kind of change are errors, not ignored.
validateDocumentShape(change) ==
  LET fields == {change.from} \cup change.to IN
  CASE change.kind \in {"metric_rename", "metric_remove"} ->
         change.metric = "" /\ \A f \in fields : f.label = "" /\ f.attribute = ""
    [] change.kind \in {"label_rename", "label_remove"} ->
         \A f \in fields : f.metric = "" /\ f.attribute = ""
    [] isSupportedChangeKind(change.kind) ->
         change.metric = "" /\ \A f \in fields : f.metric = "" /\ f.label = ""
    [] OTHER -> TRUE

ParseMigration(document) ==
  LET migration == [envelope |-> document.envelope, name |-> document.name,
                    changes |-> [i \in DOMAIN document.changes |-> migrationChange(document.changes[i])]]
  IN only(/\ document.decodes
          /\ ValidateMigration(migration)
          /\ \A i \in DOMAIN document.changes : validateDocumentShape(document.changes[i]),
          migration)
=============================================================================
