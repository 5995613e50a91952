----------------------------- MODULE Ownership -----------------------------
(***************************************************************************)
(* Who owns a consumer (internal/ownership).                               *)
(*                                                                         *)
(* A consumer is [id, kind, path, tags, owner]; path is "" outside the     *)
(* repository, owner the set of the owners' names that its adapter gave.   *)
(* A metadata rule is [id, consumer, kind, paths, tag, owner], a line of   *)
(* CODEOWNERS [form, paths, owners]; a path pattern is the set of paths it *)
(* matches.  Evidence about an owner is [owner, rank].                     *)
(***************************************************************************)
EXTENDS Naturals, Sequences, SequencesExt, FiniteSets, FiniteSetsExt

Blank == ""
codeownersSearchOrder == <<".github/CODEOWNERS", "CODEOWNERS", "docs/CODEOWNERS">>
NoOwnerEvidence == [owner |-> {}, rank |-> 0]

\* {}: the file is rejected as a whole.
parseMetadata(rules) ==
  LET selects(r) == r.consumer # Blank \/ r.kind # Blank \/ r.paths # {} \/ r.tag # Blank IN
  IF /\ rules # << >>
     /\ \A i, j \in DOMAIN rules : rules[i].id = rules[j].id => i = j
     /\ \A r \in Range(rules) : r.id # Blank /\ selects(r) /\ r.owner # Blank
  THEN {rules} ELSE {}

matches(rule, consumer) ==
  /\ rule.paths # {} => consumer.path \in rule.paths
  /\ rule.consumer # Blank => rule.consumer = consumer.id
  /\ rule.kind # Blank => rule.kind = consumer.kind
  /\ rule.tag # Blank => rule.tag \in consumer.tags

\* A line with an error is skipped and reported; a rule keeps its line number
\* and may have no owner.
parseCodeowners(lines) ==
  [rules |-> [n \in {n \in DOMAIN lines : lines[n].form = "rule"} |-> lines[n]],
   issues |-> {n \in DOMAIN lines : lines[n].form = "invalid"}]

\* The last rule decides.
lastOf(rules, at) == IF at = {} THEN {} ELSE {rules[Max(at)]}
matchingMetadataRule(rules, consumer) == lastOf(rules, {i \in DOMAIN rules : matches(rules[i], consumer)})
matchingCodeownersRule(rules, path) == lastOf(rules, {n \in DOMAIN rules : path \in rules[n].paths})

evidenceFromCodeowners(rule) == [owner |-> rule.owners, rank |-> 2]

\* Tags that name an owner; two owners are ambiguous.
tagEvidence(consumer, OwnerTags) ==
  LET owners == {OwnerTags[t] : t \in consumer.tags \cap DOMAIN OwnerTags} IN
  IF owners = {} THEN NoOwnerEvidence ELSE [owner |-> IF Cardinality(owners) = 1 THEN owners ELSE {}, rank |-> 1]

existingOwnerEvidence(consumer) == IF consumer.owner = {} THEN NoOwnerEvidence ELSE [owner |-> consumer.owner, rank |-> 3]

chooseEvidence(current, candidate) == IF candidate.rank > current.rank THEN candidate ELSE current

applyEvidence(consumer, selected) == IF selected.rank = 0 THEN consumer.owner ELSE selected.owner

\* The first place that has something; a directory, for one, is unusable.
findCodeowners(at, configured) ==
  LET order == IF configured # Blank THEN <<configured>> ELSE codeownersSearchOrder
      found == {i \in DOMAIN order : at[order[i]] # "missing"}
  IN IF found = {} THEN [path |-> Blank, error |-> FALSE]
     ELSE [path |-> order[Min(found)], error |-> at[order[Min(found)]] = "unusable"]
=============================================================================
