SPECIFICATION Spec
CONSTANTS
  MaxNode = 56
  Script <- MCScript
  Lines <- MCLines
  Typed <- MCTyped
  Numeral <- MCNumeral
  MaxLines = 1
INVARIANT
  NeverCorrupted
