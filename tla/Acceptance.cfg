SPECIFICATION HarnessSpec
CONSTANTS
  Root = Root
  Blank = Blank
  Fields <- MCFields
  Parent <- MCParent
  Kind <- MCKind
  Optional <- MCOptional
  Operation <- MCOperation
  Sources <- MCSources
  Validity <- MCValidity
  Outcome <- MCOutcome
  Streaming = {}
  Native <- MCNative
  Opaque = {}
  Facts = {"owner", "limit"}
  Prepared <- MCPrepared
  Drawn <- MCDrawn
  Codec <- MCCodec
  Decodes <- MCDecodes
  Scenarios <- MCScenarios
  DirectProbes = {"edit"}
  Refreshing = {"create"}
  Returned <- MCReturned
  MaxActions = 8
INVARIANTS
  EvidenceBacksPass
  SubmittedIsCandidate
  ReplayRepeats
  ValidatedInputsApply
CHECK_DEADLOCK FALSE
