---------------------------- MODULE MCTypecheck ----------------------------
(***************************************************************************)
(* The specifications and the arguments TLC takes for module Typecheck:    *)
(* all up to a length and some longer, and all lists of up to a number of  *)
(* arguments, those within lists counted: they nest as deep as there are   *)
(* any.                                                                    *)
(***************************************************************************)
EXTENDS Typecheck

CONSTANTS MaxSpec,  \* bound on the length of a specification
          MaxSize   \* bound on the number of arguments, at all depths

ASSUME MCAssumption == MaxSpec \in Nat /\ MaxSize \in Nat

Atom       == {[type |-> t, data |-> <<>>] : t \in Types}
Sublist(D) == {[type |-> "list", data |-> d] : d \in D}

(* OfSize[n]: the lists of n arguments, at all depths; the first of them is *)
(* an atom or a list of some of the others.                                 *)
OfSize[n \in 0 .. MaxSize] ==
  IF n = 0 THEN {<<>>}
  ELSE UNION {{<<a>> \o d : a \in Sublist(OfSize[k]) \cup (IF k = 0 THEN Atom ELSE {}),
                            d \in OfSize[n - 1 - k]} : k \in 0 .. n - 1}

(* Longer ones, for an atom t: the example of the manual, and returns into  *)
(* calls that are themselves nested, before and after repetitions of lists. *)
Long(t) ==
  LET s == One(t)  S == Many(t)  L == Many("list")
      open == Sign("open")  close == Sign("close")
  IN {<<S, open, s, s, close, s>>, <<open, open, s, close, close, L>>,
      <<open, open, close, s, close, s>>, <<L, open, L, close, s>>,
      <<open, open, open, close, L, close, s, close>>}

MCSpecs     == UNION {[1 .. k -> Token] : k \in 0 .. MaxSpec}
                 \cup UNION {Long(t) : t \in Types}
MCArguments == UNION {OfSize[n] : n \in 0 .. MaxSize}
MCArgument  == {d[1] : d \in MCArguments \ {<<>>}}
=============================================================================
