\* Two owners and the rows of their team: edits, removals, recreations and
\* ensures of one versioned row.
SPECIFICATION Spec
CONSTANTS
  ann = ann
  bob = bob
  team = team
  c1 = c1
  c2 = c2
  k1 = k1
  Clients = {c1, c2}
  Subjects = {ann, bob}
  SubjectOf <- TwoOwners
  Keys = {k1}
  Fields <- OwnedFields
  Values <- OwnedValues
  Contents <- Owned
  StatusField = "status"
  Moves <- OpenClose
  Scope <- OwnOrTeam
  Rules <- OwnerRemoves
  Seeds <- OpenSeed
  Versioned = TRUE
  MaxVersion = 3
  MaxLives = 3
  Absent = Absent
INVARIANT VersionIdentifiesRow
PROPERTIES ImplementsTable WritesStayInScope
