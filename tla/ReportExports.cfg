\* One report, submitted with two sets of lines of which one needs approval; a
\* failure of any kind between any two steps.
SPECIFICATION FairSpec
CONSTANTS
  Ids = {e1}
  Requests = {automatic, approved}
  NeedsApproval = {approved}
  Operators = {admin}
  Relays = {r1}
  Workers = {w1}
  MaxFaults = 1
  None = None
INVARIANTS StoresAgree AuditTellsTruth FileMatchesArtifact
PROPERTIES ImplementsExports Settles
