-------------------------------- MODULE MCVM --------------------------------
(***************************************************************************)
(* CertifiedVM on every certified program of at most MaxLen instructions   *)
(* before its HALT, over an alphabet that has every opcode, plus loops in  *)
(* the shapes gen_stmts emits.  The declarations are `x:int` and           *)
(* `a:array[int,1..2]`; LOAD_CONST(3) and LOAD_CONST(0) are indices out of *)
(* bounds, and ints are 3 bits wide so that sums and products overflow.    *)
(***************************************************************************)
EXTENDS CertifiedVM, TLC, FiniteSets

CONSTANTS x, a, MaxLen, MaxOut

MCStart == (a :> 1)
MCEnd   == (a :> 2)

Alphabet ==
  {LOAD_CONST(2), LOAD_CONST(3), LOAD_INT(x), LOAD_ARR(a), STORE_INT(x),
   STORE_ARR(a), SETI(x, 1), INCR(3), INCI(x, 2), CMUL(-2), BINADD, PUT,
   JMP(2), JMP(-1), CJMP(CMP_LE, 2), CJMP(CMP_GT, -2)}

(* The instruction sequences of length n that pop no more than they pushed. *)
DepthAfter(p) ==
  LET d[i \in 0 .. Len(p)] ==
        IF i = 0 THEN 0 ELSE d[i - 1] - get_stack_delta(p[i].typ)
  IN  d[Len(p)]

Straight[n \in 0 .. MaxLen] ==
  IF n = 0 THEN {<<>>}
  ELSE UNION {{Append(p, op) : op \in {o \in Alphabet :
                                         Operands(o.typ) <= DepthAfter(p)}} :
              p \in Straight[n - 1]}

Loops ==
  { \* while x < 3 { x := x + 1; put x }
    <<JMP(4), INCI(x, 1), LOAD_INT(x), PUT,
      LOAD_CONST(3), LOAD_INT(x), CJMP(CMP_LT, -5), HALT>>,
    \* hor x, 1, 2 { a[x] := 2 * x + a[x] }
    <<SETI(x, 1), JMP(9), LOAD_INT(x), LOAD_ARR(a), LOAD_INT(x), CMUL(2),
      BINADD, LOAD_INT(x), STORE_ARR(a), INCI(x, 1),
      LOAD_CONST(2), LOAD_INT(x), CJMP(CMP_LE, -10), SETI(x, 2), HALT>> }

AllPrograms ==
  {q \in {Append(p, HALT) : p \in UNION {Straight[n] : n \in 0 .. MaxLen}}
         \cup Loops :
     Certified(q, PrefixDepth(q), Cap)}

MCPrograms == AllPrograms  \* evaluated once

(* Programs may print for ever; the runs stop after MaxOut numbers.         *)
OutputBound == Len(out) <= MaxOut
=============================================================================
