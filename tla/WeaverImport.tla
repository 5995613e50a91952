---------------------------- MODULE WeaverImport ----------------------------
(***************************************************************************)
(* The import of an OpenTelemetry Weaver registry diff through an explicit *)
(* mapping (adapters/weaver: diff, mapping, loader).  Pure operators; a    *)
(* result is a set that is empty when the code returns an error, as in     *)
(* ChangeDocuments.                                                        *)
(*                                                                         *)
(* A diff document has a format ("v1", "v2", or "neither" when the probe   *)
(* finds none or both), complete (every required field is there) and, per  *)
(* kind of registry item, the sequence of item changes.  An item's fields  *)
(* that the JSON leaves out are empty sets.                                *)
(***************************************************************************)
EXTENDS ChangeDocuments, SequencesExt

\* The order in which the groups of each format are normalised.
groupsOf(format) ==
  IF format = "v1" THEN <<"attribute", "entity", "event", "metric", "span">>
                   ELSE <<"attribute", "attribute_group", "entity", "event", "metric", "span">>

requireFields(value) == value # {} /\ \A v \in value : ~isBlank(v)
textOf(value) == IF value = {} THEN "" ELSE Trim(CHOOSE v \in value : TRUE)

\* What one item change becomes: nothing (additions), an actionable change,
\* or the reason why the whole import stops.
normalizeItem(kind, item) ==
  LET answer(verdict) == [verdict |-> verdict,
        change |-> [kind |-> kind, type |-> item.type,
                    from |-> IF item.type = "renamed" THEN textOf(item.old_name) ELSE textOf(item.name),
                    to |-> IF item.type = "renamed" THEN textOf(item.new_name) ELSE "",
                    note |-> textOf(item.note)]]
  IN CASE item.type = "added" -> answer(IF requireFields(item.name) THEN "skip" ELSE "error")
       [] item.type = "renamed" ->
            answer(IF requireFields(item.old_name) /\ requireFields(item.new_name) /\ item.note # {}
                   THEN "take" ELSE "error")
       [] item.type = "removed" -> answer(IF requireFields(item.name) THEN "take" ELSE "error")
       [] item.type \in {"obsoleted", "uncategorized"} ->
            answer(IF requireFields(item.name) /\ item.note # {} THEN "take" ELSE "error")
       [] item.type = "updated" -> answer("unsupported")
       [] OTHER -> answer("error")

\* All items in order.  The first one that stops the import decides how.
normalizeChanges(format, groups) ==
  LET order == groupsOf(format)
      answers == FlattenSeq([g \in DOMAIN order |->
                   [i \in DOMAIN groups[order[g]] |-> normalizeItem(order[g], groups[order[g]][i])]])
      stop == SelectInSeq(answers, LAMBDA a : a.verdict \in {"unsupported", "error"})
      taken == FlattenSeq([i \in DOMAIN answers |->
                 IF answers[i].verdict = "take" THEN <<answers[i].change>> ELSE << >>])
  IN IF stop # 0 THEN [verdict |-> answers[stop].verdict, changes |-> << >>]
                 ELSE [verdict |-> "ok", changes |-> taken]

\* A V1 document has no group of attribute groups: the strict decoder refuses it.
ParseDiff(document) ==
  IF /\ document.decodes /\ document.complete
     /\ document.format \in {"v1", "v2"}
     /\ document.format = "v1" => document.groups["attribute_group"] = << >>
  THEN normalizeChanges(document.format, document.groups)
  ELSE [verdict |-> "error", changes |-> << >>]

(***************************************************************************)
(* The mapping.                                                            *)
(***************************************************************************)
validatePrometheusTarget(source, target) ==
  LET rename == isRename(target.kind) IN
  /\ source.kind \in {"attribute", "metric"}
  /\ \/ /\ target.kind \in {"metric_rename", "metric_remove"}
        /\ source.kind = "metric"
        /\ target.from.metric # "" /\ target.from.label = "" /\ target.metric = ""
        /\ rename => \A to \in target.to : to.metric # "" /\ to.label = ""
     \/ /\ target.kind \in {"label_rename", "label_remove"}
        /\ source.kind = "attribute"
        /\ target.metric # "" /\ target.from.label # "" /\ target.from.metric = ""
        /\ rename => \A to \in target.to : to.label # "" /\ to.metric = ""
  /\ rename <=> source.type = "renamed"
  /\ rename <=> target.to # {}

validEntry(entry) ==
  /\ entry.id # << >>
  /\ entry.weaver.kind \in {"attribute", "attribute_group", "entity", "event", "metric", "span"}
  /\ entry.weaver.type \in {"renamed", "removed", "obsoleted", "uncategorized"}
  /\ entry.weaver.from # ""
  /\ (entry.weaver.type = "renamed") <=> (entry.weaver.to # "")
  /\ (entry.target # {}) # (entry.ignore # "")
  /\ entry.weaver.type = "uncategorized" => entry.target = {}
  /\ \A target \in entry.target : validatePrometheusTarget(entry.weaver, target)

validateMapping(mapping) ==
  /\ mapping.envelope = "WeaverMapping"
  /\ mapping.name # ""
  /\ mapping.entries # << >>
  /\ \A i \in DOMAIN mapping.entries : validEntry(mapping.entries[i])
  /\ \A i, j \in DOMAIN mapping.entries :
       (\/ mapping.entries[i].id = mapping.entries[j].id
        \/ mapping.entries[i].weaver = mapping.entries[j].weaver) => i = j

\* Every text of the document is trimmed before it is validated.
trimTarget(target) ==
  LET symbol(s) == [metric |-> Trim(s.metric), label |-> Trim(s.label)] IN
  [kind |-> target.kind, metric |-> Trim(target.metric),
   from |-> symbol(target.from), to |-> {symbol(to) : to \in target.to}]

trimEntry(entry) ==
  [id |-> entry.id, ignore |-> Trim(entry.ignore),
   weaver |-> [kind |-> entry.weaver.kind, type |-> Trim(entry.weaver.type),
               from |-> Trim(entry.weaver.from), to |-> Trim(entry.weaver.to)],
   target |-> {trimTarget(target) : target \in entry.target}]

ParseMapping(document) ==
  LET mapping == [envelope |-> document.envelope, name |-> Trim(document.name),
                  entries |-> [i \in DOMAIN document.entries |-> trimEntry(document.entries[i])]]
  IN only(document.decodes /\ validateMapping(mapping), mapping)

(***************************************************************************)
(* The conversion.                                                         *)
(***************************************************************************)
selector(source) == [kind |-> source.kind, type |-> source.type, from |-> source.from, to |-> source.to]

\* A note longer than a metadata value may be makes the change's metadata exceed.
canonicalChange(entry, source) ==
  LET target == CHOOSE t \in entry.target : TRUE
      metric == target.kind \in {"metric_rename", "metric_remove"}
      symbol(s) == [domain |-> "prometheus", kind |-> IF metric THEN "metric" ELSE "label",
                    name |-> IF metric THEN s.metric ELSE s.label,
                    parent |-> IF metric THEN "" ELSE target.metric]
  IN [id |-> entry.id, kind |-> target.kind, domain |-> "prometheus",
      from |-> symbol(target.from), to |-> {symbol(to) : to \in target.to},
      metadata |-> IF source.note = "long" THEN "exceeds" ELSE "within"]

entriesFor(mapping, source) == {e \in Range(mapping.entries) : e.weaver = selector(source)}

imported(mapping, source) ==
  LET entries == entriesFor(mapping, source) IN
  [source |-> source,
   requiresMapping |-> entries = {},
   ignored |-> \E e \in entries : e.ignore # "",
   change |-> {canonicalChange(e, source) : e \in {e \in entries : e.ignore = ""}}]

\* A defect to detect: a change without a mapping is left out of the result.
ConvertMapped(changes, mapping) ==
  LET mapped == SelectSeq(changes, LAMBDA s : entriesFor(mapping, s) # {}) IN
  {[i \in DOMAIN mapped |-> imported(mapping, mapped[i])]}

\* Two changes of one selector, or an entry that matches nothing, are errors.
Convert(changes, mapping) ==
  only(/\ \A i, j \in DOMAIN changes : selector(changes[i]) = selector(changes[j]) => i = j
       /\ \A e \in Range(mapping.entries) : \E i \in DOMAIN changes : e.weaver = selector(changes[i]),
       [i \in DOMAIN changes |-> imported(mapping, changes[i])])

mappedChanges(result) ==
  FlattenSeq([i \in DOMAIN result |->
    IF result[i].change = {} THEN << >> ELSE <<CHOOSE c \in result[i].change : TRUE>>])

unmapped(result) == {r.source : r \in {r \in Range(result) : r.requiresMapping}}

\* The generic contract: what is not mapped stays as a required diagnostic.
ChangeSet(name, result) ==
  only(ValidateChangeSet(changeSetOf(name, mappedChanges(result))),
       [changes |-> mappedChanges(result), required |-> unmapped(result)])

\* The legacy contract: everything is mapped or ignored, and something is mapped.
Migration(name, result) ==
  LET migration == [envelope |-> "Migration", name |-> name, changes |-> mappedChanges(result)] IN
  only(unmapped(result) = {} /\ migration.changes # << >> /\ ValidateMigration(migration), migration)
=============================================================================
