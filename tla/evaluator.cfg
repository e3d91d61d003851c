SPECIFICATION Spec
CONSTANTS
  MaxNode = 56
  Script <- MCScript
  Lines <- MCLines
  Typed <- MCTyped
  Numeral <- MCNumeral
  MaxLines = 2
INVARIANTS
  TypeOK
  CountsAreShares
  OnlyReplacedDies
PROPERTIES
  InterruptedDoesNothing
  Unwinds
