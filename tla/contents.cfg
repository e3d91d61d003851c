SPECIFICATION Spec
CONSTANTS
  Shell = {s1, s2}
  Owner = s1
  Room = 1
  MaxText = 2
INVARIANTS
  TypeOK
  OnlyWaitsToBlock
  FlagsComeBack
