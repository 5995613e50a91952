SPECIFICATION Spec
CONSTANTS
  Consumers = {"alert", "rec", "panel"}
  Texts = {"note"}
  Expressions <- MCExpressions
  Refs <- MCRefs
  Unresolved = {"qVar"}
  Invalid = {"text"}
  SecretLike = {"qSecret"}
  Criticality <- MCCriticality
  Produces <- MCProduces
  Changes <- MCChanges
  FileOf <- MCFileOf
  Files <- MCFiles
  Patchable = {"alert", "rec"}
  RequiredSources = {"rules"}
  Policies <- MCPolicies
  InitialContents <- MCInitialContents
  EditTexts = {"qOld", "qNew", "qVar"}
  ResponsesTo <- MCResponsesTo
  AdviceFor <- MCAdviceFor
  OutputLimit = 2
  MaxWrites = 3
  MaxEdits = 1
INVARIANTS
  AuthorityKept
  PatchIsConfined
  SimulationIsHonest
  ResponseIsWhole
