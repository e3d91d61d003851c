SPECIFICATION Spec
CONSTANTS
  Root = Root
  A = A
  B = B
  Long = Long
  Up = Up
  Dash = Dash
  None = None
  Dir = {Root, A, B, Long}
  Parent <- MCParent
  Deep = {Long}
INVARIANTS
  TracksDirectory
