------------------------------- MODULE CyrBase -------------------------------
(***************************************************************************)
(* What both back ends of the language share: machine integers, the six   *)
(* comparisons and the declared variables.                                 *)
(***************************************************************************)
EXTENDS Integers, Sequences

CONSTANTS
  Half,     \* an int ranges over -Half .. Half-1 (2^31 in the program)
  IntVars,  \* the variables declared `int`
  ArrVars,  \* the variables declared `array[int, start..end]`
  Start,    \* Start[a] : decl->start of array a
  End       \* End[a]   : decl->end of array a

ASSUME HalfAssumption == Half \in Nat \ {0, 1}
ASSUME DeclAssumption == Start \in [ArrVars -> Int] /\ End \in [ArrVars -> Int]

-----------------------------------------------------------------------------
(* C `int` arithmetic, two's complement.                                    *)

IntW == -Half .. (Half - 1)
Wrap(n) == ((n + Half) % (2 * Half)) - Half

(* cmp_type is a bit set over the three outcomes of a comparison: bit 0 is  *)
(* "less", bit 1 "equal", bit 2 "greater".  Here it is the set of set bits. *)
CmpType == SUBSET (0 .. 2)
CMP_LT  == {0}
CMP_EQ  == {1}
CMP_LE  == {0, 1}
CMP_GT  == {2}
CMP_NEQ == {0, 2}
CMP_GE  == {1, 2}

do_cmp(cond_typ, left, right) ==
  LET gt == IF left > right THEN 1 ELSE 0
      ge == IF left >= right THEN 1 ELSE 0
  IN  (gt + ge) \in cond_typ

-----------------------------------------------------------------------------
(* Variables. A declared array owns end - start + 1 cells, numbered from 0, *)
(* and element idx of the language lives in cell idx - start.               *)

Cells(a) == 0 .. (End[a] - Start[a])
CellOf(a, idx) == idx - Start[a]

InitInts == [x \in IntVars |-> 0]
InitArrs == [a \in ArrVars |-> [c \in Cells(a) |-> 0]]

IntStore == [IntVars -> IntW]
IsArrStore(arrs) ==
  /\ DOMAIN arrs = ArrVars
  /\ \A a \in ArrVars : arrs[a] \in [Cells(a) -> IntW]

SetCell(arrs, a, idx, val) ==
  [arrs EXCEPT ![a] = [@ EXCEPT ![CellOf(a, idx)] = val]]
=============================================================================
