------------------------------ MODULE Bytecode ------------------------------
(***************************************************************************)
(* The instructions the code generator emits and the virtual machine runs: *)
(* enum OpCodeType, struct OpCode and the table of stack deltas.           *)
(***************************************************************************)
EXTENDS CyrBase

(* A jump is relative to its own address, a delta is added to the stack     *)
(* pointer, and the stack grows downwards: a negative delta pushes.         *)
LOAD_CONST(c)  == [typ |-> "LOAD_CONST", constant |-> c]
LOAD_INT(x)    == [typ |-> "LOAD_INT", ptr |-> x]
LOAD_ARR(a)    == [typ |-> "LOAD_ARR", ptr |-> a]
STORE_INT(x)   == [typ |-> "STORE_INT", ptr |-> x]
STORE_ARR(a)   == [typ |-> "STORE_ARR", ptr |-> a]
SETI(x, c)     == [typ |-> "SETI", ptr |-> x, constant |-> c]
INCR(c)        == [typ |-> "INCR", constant |-> c]
INCI(x, c)     == [typ |-> "INCI", ptr |-> x, constant |-> c]
CMUL(c)        == [typ |-> "CMUL", constant |-> c]
BINADD         == [typ |-> "BINADD"]
PUT            == [typ |-> "PUT"]
JMP(off)       == [typ |-> "JMP", offset |-> off]
CJMP(cmp, off) == [typ |-> "CJMP", cmp_typ |-> cmp, offset |-> off]
HALT           == [typ |-> "HALT"]

OpCodeType ==
  {"LOAD_CONST", "LOAD_INT", "LOAD_ARR", "STORE_INT", "STORE_ARR", "SETI",
   "INCR", "INCI", "CMUL", "BINADD", "PUT", "JMP", "CJMP", "HALT"}

Jumps == {"JMP", "CJMP"}

get_stack_delta(typ) ==
  CASE typ \in {"LOAD_CONST", "LOAD_INT"}      -> -1
    [] typ \in {"STORE_INT", "BINADD", "PUT"}  -> 1
    [] typ \in {"STORE_ARR", "CJMP"}           -> 2
    [] OTHER                                   -> 0

(* How many words an instruction takes off the stack before it pushes any.  *)
Operands(typ) ==
  CASE typ \in {"LOAD_ARR", "STORE_INT", "INCR", "CMUL", "PUT"} -> 1
    [] typ \in {"STORE_ARR", "BINADD", "CJMP"}                  -> 2
    [] OTHER                                                    -> 0

(* The instructions control may reach next from address i.                  *)
Successors(i, op) ==
  CASE op.typ = "HALT" -> {}
    [] op.typ = "JMP"  -> {i + op.offset}
    [] op.typ = "CJMP" -> {i + 1, i + op.offset}
    [] OTHER           -> {i + 1}

(* An instruction whose argument field is one the generator can write.      *)
WellFormed(op) ==
  /\ op.typ \in OpCodeType
  /\ op.typ \in {"LOAD_CONST", "SETI", "INCR", "INCI", "CMUL"} =>
       op.constant \in IntW
  /\ op.typ \in {"LOAD_INT", "STORE_INT", "SETI", "INCI"} => op.ptr \in IntVars
  /\ op.typ \in {"LOAD_ARR", "STORE_ARR"} => op.ptr \in ArrVars
  /\ op.typ = "CJMP" => op.cmp_typ \in CmpType
  /\ op.typ \in Jumps => op.offset \in Int

-----------------------------------------------------------------------------
(* A certificate of program p maps its addresses to stack depths: it agrees *)
(* with the delta of every instruction along every edge of control, leaves  *)
(* every instruction the operands it pops and never exceeds the capacity.   *)
(* The machine neither carries nor checks one; it is what the code          *)
(* generator owes the machine.                                              *)
Certified(p, depth, capacity) ==
  /\ 1 \in DOMAIN p
  /\ depth \in [DOMAIN p -> 0 .. capacity]
  /\ depth[1] = 0
  /\ \A i \in DOMAIN p :
       /\ WellFormed(p[i])
       /\ Operands(p[i].typ) <= depth[i]
       /\ \A j \in Successors(i, p[i]) :
            /\ j \in DOMAIN p
            /\ depth[j] = depth[i] - get_stack_delta(p[i].typ)

(* The certificate of code that balances its stack statement by statement:  *)
(* the deltas of the instructions before an address, summed.                *)
PrefixDepth(p) ==
  LET depth[i \in DOMAIN p] ==
        IF i = 1 THEN 0 ELSE depth[i - 1] - get_stack_delta(p[i - 1].typ)
  IN  depth
=============================================================================
