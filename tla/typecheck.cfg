SPECIFICATION Spec
CONSTANTS
  Types = {"string"}
  MaxSpec = 4
  MaxSize = 4
  Argument <- MCArgument
  Specs <- MCSpecs
  Arguments <- MCArguments
INVARIANTS
  TypeOK
  AcceptsGreedily
CHECK_DEADLOCK FALSE
