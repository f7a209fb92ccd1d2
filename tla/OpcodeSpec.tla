----------------------------- MODULE OpcodeSpec -----------------------------
(***************************************************************************)
(* What the instruction set promises: the stack machine that the comments  *)
(* of opcodes.h describe, with a stack that is a sequence of words (the    *)
(* last one is STACK(0)), pop and push.  There is no stack pointer, no     *)
(* delta and no capacity.  An instruction whose operands are missing has   *)
(* no meaning here: the machine cannot take a step.                        *)
(***************************************************************************)
EXTENDS Bytecode

CONSTANT Programs

VARIABLES codes, pc, stack, ints, arrs, out, status

vars == <<codes, pc, stack, ints, arrs, out, status>>

Init ==
  /\ codes \in Programs
  /\ pc = 1
  /\ stack = <<>>
  /\ ints = InitInts
  /\ arrs = InitArrs
  /\ out = <<>>
  /\ status = "running"

-----------------------------------------------------------------------------
Op == codes[pc]

(* STACK(0) is the word on top, STACK(-1) the one below it.                 *)
Arg0 == stack[Len(stack)]
Arg1 == stack[Len(stack) - 1]

(* An instruction of type typ is next and its operands are on the stack.    *)
Ready(typ) ==
  /\ status = "running"
  /\ pc \in DOMAIN codes
  /\ Op.typ = typ
  /\ Operands(typ) <= Len(stack)

(* Pop the operands of the instruction and push the sequence `pushed`.      *)
Execute(typ, pushed) ==
  /\ Ready(typ)
  /\ stack' = SubSeq(stack, 1, Len(stack) - Operands(typ)) \o pushed
  /\ UNCHANGED codes

InBounds(idx) == CellOf(Op.ptr, idx) \in Cells(Op.ptr)

Goto(target) == pc' = target /\ UNCHANGED status

-----------------------------------------------------------------------------
Load ==
  \/ /\ Execute("LOAD_CONST", <<Op.constant>>)
     /\ Goto(pc + 1) /\ UNCHANGED <<ints, arrs, out>>
  \/ /\ Execute("LOAD_INT", <<ints[Op.ptr]>>)
     /\ Goto(pc + 1) /\ UNCHANGED <<ints, arrs, out>>
  \/ /\ Ready("LOAD_ARR")
     /\ InBounds(Arg0)
     /\ Execute("LOAD_ARR", <<arrs[Op.ptr][CellOf(Op.ptr, Arg0)]>>)
     /\ Goto(pc + 1) /\ UNCHANGED <<ints, arrs, out>>

Store ==
  \/ /\ Execute("STORE_INT", <<>>)
     /\ ints' = [ints EXCEPT ![Op.ptr] = Arg0]
     /\ Goto(pc + 1) /\ UNCHANGED <<arrs, out>>
  \/ /\ Execute("STORE_ARR", <<>>)
     /\ InBounds(Arg0)
     /\ arrs' = SetCell(arrs, Op.ptr, Arg0, Arg1)
     /\ Goto(pc + 1) /\ UNCHANGED <<ints, out>>
  \/ /\ Execute("SETI", <<>>)
     /\ ints' = [ints EXCEPT ![Op.ptr] = Op.constant]
     /\ Goto(pc + 1) /\ UNCHANGED <<arrs, out>>
  \/ /\ Execute("INCI", <<>>)
     /\ ints' = [ints EXCEPT ![Op.ptr] = Wrap(@ + Op.constant)]
     /\ Goto(pc + 1) /\ UNCHANGED <<arrs, out>>

Arithmetic ==
  /\ \/ Execute("INCR", <<Wrap(Arg0 + Op.constant)>>)
     \/ Execute("CMUL", <<Wrap(Op.constant * Arg0)>>)
     \/ Execute("BINADD", <<Wrap(Arg0 + Arg1)>>)
  /\ Goto(pc + 1) /\ UNCHANGED <<ints, arrs, out>>

Put ==
  /\ Execute("PUT", <<>>)
  /\ out' = Append(out, Arg0)
  /\ Goto(pc + 1) /\ UNCHANGED <<ints, arrs>>

Jump ==
  /\ \/ /\ Execute("JMP", <<>>)
        /\ Goto(pc + Op.offset)
     \/ /\ Execute("CJMP", <<>>)
        /\ Goto(IF do_cmp(Op.cmp_typ, Arg0, Arg1) THEN pc + Op.offset ELSE pc + 1)
  /\ UNCHANGED <<ints, arrs, out>>

Halt ==
  /\ Execute("HALT", <<>>)
  /\ status' = "halted"
  /\ UNCHANGED <<pc, ints, arrs, out>>

(* An array access outside the declared bounds: arr_ref has no meaning.     *)
BadIndex ==
  /\ Ready("LOAD_ARR") \/ Ready("STORE_ARR")
  /\ ~InBounds(Arg0)
  /\ status' = "undefined"
  /\ UNCHANGED <<codes, pc, stack, ints, arrs, out>>

Next == Load \/ Store \/ Arithmetic \/ Put \/ Jump \/ Halt \/ BadIndex

Spec == Init /\ [][Next]_vars
=============================================================================
