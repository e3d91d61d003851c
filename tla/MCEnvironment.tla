--------------------------- MODULE MCEnvironment ---------------------------
(***************************************************************************)
(* The tree of directories for Environment: /, /a, /a/b and one with a     *)
(* path too long.                                                          *)
(***************************************************************************)
EXTENDS Environment

CONSTANTS A, B, Long

MCParent == [d \in Dir |-> IF d = B THEN A ELSE Root]
=============================================================================
