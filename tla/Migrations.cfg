\* Two processes, five releases that grow, diverge, edit or botch the history.
SPECIFICATION Spec
CONSTANTS
  create = create
  index = index
  rescale = rescale
  rival = rival
  reindex = reindex
  botched = botched
  Artifacts <- MCArtifacts
  Ids <- MCIds
  IdOf <- MCIdOf
  Schemas <- MCSchemas
  Empty = "empty"
  To <- MCTo
  Steps <- MCSteps
  Failed = Failed
  Releases <- MCReleases
  Processes = {p1, p2}
INVARIANTS LedgerTellsTruth OneHistory
