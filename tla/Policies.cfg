\* Every comparison of two operands is compiled; three definitions are served
\* while grants are given, withdrawn and expire.
SPECIFICATION PolicySpec
CONSTANTS
  Row <- Columns
  Subject <- ClaimFields
  Definitions <- AllDefinitions
  Terms <- AllTerms
  Depth <- Size
  Rows <- AllRows
  Subjects <- AllSubjects
  Proposed <- ProposedRows
  Claims <- SomeClaims
  Sources <- ProSource
  GrantTerms <- ProTerms
  GrantRows <- ProRows
  MaxNow = 1
PROPERTIES EvaluatorsAgree AllowedWriteIsReadable PreflightRefusesOnlyHopeless
CHECK_DEADLOCK FALSE
