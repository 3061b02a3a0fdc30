\* Two replicas: two edits tie on their revision, a third comes later.
SPECIFICATION Spec
CONSTANTS
  Replicas = {1, 2}
  Edits <- MCEdits
  red = red
  blue = blue
  None = None
INVARIANT ShowsTheWinner
