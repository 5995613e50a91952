---------------------------- MODULE Configuration ----------------------------
(***************************************************************************)
(* Loading tcg.yaml (internal/config): what a document becomes, and which  *)
(* documents are refused.  There is no state here.                         *)
(*                                                                         *)
(* A value of the document is seen only as far as the loader tells values  *)
(* apart: "" is an omitted or blank one, "good" one that passes the test   *)
(* of its field, "bad" one that does not.  A document is a record          *)
(*   [decodes, apiVersion, kind, sources, traceAttributes, ownership,      *)
(*    unresolved, minimum, formats]                                        *)
(* whose sources are records [family, required, fields].                   *)
(***************************************************************************)
EXTENDS Naturals, Sequences, SequencesExt

ConfigAPIVersion == "tcg/v1alpha1"
LegacyConfigAPIVersion == "tmr/v1alpha1"
ConfigKind == "Config"

\* What one source of a family is made of.
FieldsOf == [pattern |-> {"path"},
             hpa     |-> {"path", "mapping"},
             perses  |-> {"url", "timeout", "bearerTokenEnv"},
             runtime |-> {"path", "format", "window", "criticality"},
             tempo   |-> {"path", "url", "timeout", "bearerTokenEnv", "criticality"}]

Families == DOMAIN FieldsOf

\* Fields with a default, and the token, which may stay away.
Defaulted == {"timeout", "window", "criticality", "bearerTokenEnv"}

OutputFormats == {"console", "json", "markdown"}

-----------------------------------------------------------------------------
(* Normalisation. *)

\* A defect to detect: a source that does not say is optional.
OptionalUnlessTrue(required) == required = "true"

RequiredUnlessFalse(required) == required # "false"

normalizeSource(s) ==
  [family   |-> s.family,
   required |-> RequiredUnlessFalse(s.required),
   fields   |-> [f \in FieldsOf[s.family] |->
                   IF s.fields[f] = "" /\ f \in Defaulted THEN "good" ELSE s.fields[f]]]

normalizeOwnership(o) ==
  IF o.present THEN [o EXCEPT !.root = IF @ = "" THEN "." ELSE @] ELSE o

normalizeConfig(doc) ==
  [apiVersion      |-> ConfigAPIVersion,
   kind            |-> ConfigKind,
   sources         |-> [i \in DOMAIN doc.sources |-> normalizeSource(doc.sources[i])],
   traceAttributes |-> doc.traceAttributes,
   ownership       |-> normalizeOwnership(doc.ownership),
   unresolved      |-> IF doc.unresolved = "" THEN "good" ELSE doc.unresolved,
   minimum         |-> IF doc.minimum = "" THEN "good" ELSE doc.minimum,
   formats         |-> IF doc.formats = <<>> THEN <<"console">> ELSE doc.formats]

-----------------------------------------------------------------------------
(* Validation. *)

\* The current version names its kind; the legacy one may leave it out.
validateConfigEnvelope(doc) ==
  \/ doc.apiVersion = ConfigAPIVersion /\ doc.kind = ConfigKind
  \/ doc.apiVersion = LegacyConfigAPIVersion /\ doc.kind \in {"", ConfigKind}

validateTraceAttributeName(name) == name \notin {"", "bad"}

\* Within a scope neither name may be mapped twice.
validMappings(attributes) ==
  /\ \A i \in DOMAIN attributes :
       /\ attributes[i].scope \in {"span", "resource"}
       /\ validateTraceAttributeName(attributes[i].opentelemetry)
       /\ validateTraceAttributeName(attributes[i].tempo)
  /\ \A i, j \in DOMAIN attributes :
       (i # j /\ attributes[i].scope = attributes[j].scope) =>
         /\ attributes[i].opentelemetry # attributes[j].opentelemetry
         /\ attributes[i].tempo # attributes[j].tempo

isRepositoryRelativePath(path) == path = "inside"

validOwnership(o) ==
  o.present =>
    /\ o.root # ""
    /\ \A path \in o.metadata : isRepositoryRelativePath(path)
    /\ o.codeowners = "" \/ isRepositoryRelativePath(o.codeowners)

ValidateConfig(config) ==
  /\ config.apiVersion = ConfigAPIVersion
  /\ config.kind = ConfigKind
  /\ \A i \in DOMAIN config.sources :
       \A f \in FieldsOf[config.sources[i].family] : config.sources[i].fields[f] = "good"
  /\ validMappings(config.traceAttributes)
  /\ validOwnership(config.ownership)
  /\ config.sources # <<>>
  /\ config.unresolved = "good"
  /\ config.minimum = "good"
  /\ config.formats # <<>>
  /\ ToSet(config.formats) \subseteq OutputFormats

\* ParseConfig succeeds on this document; its result is normalizeConfig(doc).
ParseConfig(doc) ==
  /\ doc.decodes      \* one YAML document within the size limit, no unknown field
  /\ validateConfigEnvelope(doc)
  /\ ValidateConfig(normalizeConfig(doc))
=============================================================================
