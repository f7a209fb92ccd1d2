-------------------------------- MODULE CyrVM --------------------------------
(***************************************************************************)
(* The virtual machine of vm.c: the dispatch loop of cyr_vm_execute over a *)
(* Stack that lives in an array of Cap ints and grows downwards.           *)
(*                                                                         *)
(* Each instruction first moves the stack pointer by its delta and then    *)
(* addresses its operands relative to the moved pointer: top[1] is the     *)
(* word on top of the stack afterwards, top[0] and top[-1] are words just  *)
(* popped.  Nothing is checked at run time.  C gives no meaning to an      *)
(* access outside Stack.bottom, to a read of a word nobody wrote, to an    *)
(* array access outside the declared bounds, or to running past the last   *)
(* instruction; the model then goes to status "undefined" and stays there. *)
(***************************************************************************)
EXTENDS Bytecode

CONSTANTS
  Cap,      \* capacity of Stack.bottom (512 in the program)
  Garbage   \* content of a stack word nobody has written yet

ASSUME CapAssumption == Cap \in Nat \ {0}
ASSUME GarbageAssumption == Garbage \notin IntW

VARIABLES
  codes,    \* cyr_vm->codes, 1-based
  pc,       \* op_ptr, as an index into codes
  top,      \* stack.top, as an index into bottom
  bottom,   \* stack.bottom
  ints,     \* data.i.val of every int variable
  arrs,     \* data.a.arr of every array variable
  out,      \* the numbers printed so far
  status    \* "running", "halted" or "undefined"

data  == <<ints, arrs, out>>
vars  == <<codes, pc, top, bottom, ints, arrs, out, status>>

Addr == 0 .. (Cap - 1)

(* stack_init, and the variables as parse_vars left them. *)
Boot ==
  /\ pc = 1
  /\ top = Cap - 1
  /\ bottom = [i \in Addr |-> Garbage]
  /\ ints = InitInts
  /\ arrs = InitArrs
  /\ out = <<>>
  /\ status = "running"

-----------------------------------------------------------------------------
Op == codes[pc]

(* The stack pointer once the delta of the current instruction is added,   *)
(* and the word at offset k from it.                                       *)
Moved == top + get_stack_delta(Op.typ)
Word(k) == bottom[Moved + k]

(* The words a handler reads and the word it writes, as offsets.            *)
Reads(typ) ==
  CASE typ \in {"LOAD_ARR", "INCR", "CMUL"}  -> {1}
    [] typ \in {"STORE_INT", "PUT"}          -> {0}
    [] typ = "BINADD"                        -> {0, 1}
    [] typ \in {"STORE_ARR", "CJMP"}         -> {-1, 0}
    [] OTHER                                 -> {}

Writes(typ) ==
  IF typ \in {"LOAD_CONST", "LOAD_INT", "LOAD_ARR", "INCR", "CMUL", "BINADD"}
  THEN {1} ELSE {}

(* The instruction stays inside Stack.bottom and reads only written words.  *)
StackDefined ==
  /\ \A k \in Reads(Op.typ) \cup Writes(Op.typ) : Moved + k \in Addr
  /\ \A k \in Reads(Op.typ) : Word(k) \in IntW

(* arr_ref yields an element of the declared array.                         *)
ArrayDefined ==
  /\ Op.typ = "LOAD_ARR"  => CellOf(Op.ptr, Word(1)) \in Cells(Op.ptr)
  /\ Op.typ = "STORE_ARR" => CellOf(Op.ptr, Word(-1)) \in Cells(Op.ptr)

Defined == pc \in DOMAIN codes /\ StackDefined /\ ArrayDefined

-----------------------------------------------------------------------------
(* One action per handler.                                                  *)

(* Mutant: the delta is added at the end of the loop, where jumps do not    *)
(* pass.                                                                    *)
Dispatch_JumpsSkipDelta(typ) ==
  /\ status = "running"
  /\ Defined
  /\ Op.typ = typ
  /\ top' = IF typ \in Jumps THEN top ELSE Moved
  /\ UNCHANGED codes

Dispatch(typ) ==
  /\ status = "running"
  /\ Defined
  /\ Op.typ = typ
  /\ top' = Moved
  /\ UNCHANGED codes

Advance == pc' = pc + 1 /\ UNCHANGED status

(* Mutant: the word is stored as stack_push stores it, at *top.             *)
SetTop_AtTop(val) == bottom' = [bottom EXCEPT ![Moved] = val]

(* stack->top[1] = val                                                      *)
SetTop(val) == bottom' = [bottom EXCEPT ![Moved + 1] = val]

load_const ==
  /\ Dispatch("LOAD_CONST")
  /\ SetTop(Op.constant)
  /\ Advance /\ UNCHANGED data

load_int ==
  /\ Dispatch("LOAD_INT")
  /\ SetTop(ints[Op.ptr])
  /\ Advance /\ UNCHANGED data

load_arr ==
  /\ Dispatch("LOAD_ARR")
  /\ SetTop(arrs[Op.ptr][CellOf(Op.ptr, Word(1))])
  /\ Advance /\ UNCHANGED data

store_int ==
  /\ Dispatch("STORE_INT")
  /\ ints' = [ints EXCEPT ![Op.ptr] = Word(0)]
  /\ Advance /\ UNCHANGED <<bottom, arrs, out>>

store_arr ==
  /\ Dispatch("STORE_ARR")
  /\ arrs' = SetCell(arrs, Op.ptr, Word(-1), Word(0))
  /\ Advance /\ UNCHANGED <<bottom, ints, out>>

seti ==
  /\ Dispatch("SETI")
  /\ ints' = [ints EXCEPT ![Op.ptr] = Op.constant]
  /\ Advance /\ UNCHANGED <<bottom, arrs, out>>

(* Mutant: the sum is kept in more bits than an int has.                    *)
incr_Wide ==
  /\ Dispatch("INCR")
  /\ SetTop(Word(1) + Op.constant)
  /\ Advance /\ UNCHANGED data

incr ==
  /\ Dispatch("INCR")
  /\ SetTop(Wrap(Word(1) + Op.constant))
  /\ Advance /\ UNCHANGED data

inci ==
  /\ Dispatch("INCI")
  /\ ints' = [ints EXCEPT ![Op.ptr] = Wrap(@ + Op.constant)]
  /\ Advance /\ UNCHANGED <<bottom, arrs, out>>

cmul ==
  /\ Dispatch("CMUL")
  /\ SetTop(Wrap(Word(1) * Op.constant))
  /\ Advance /\ UNCHANGED data

binadd ==
  /\ Dispatch("BINADD")
  /\ SetTop(Wrap(Word(1) + Word(0)))
  /\ Advance /\ UNCHANGED data

put ==
  /\ Dispatch("PUT")
  /\ out' = Append(out, Word(0))
  /\ Advance /\ UNCHANGED <<bottom, ints, arrs>>

(* Mutant: the loop adds 1 after a jump too.                                *)
jmp_ThenNext ==
  /\ Dispatch("JMP")
  /\ pc' = pc + Op.offset + 1
  /\ UNCHANGED <<bottom, status, data>>

jmp ==
  /\ Dispatch("JMP")
  /\ pc' = pc + Op.offset
  /\ UNCHANGED <<bottom, status, data>>

(* Mutant: left and right are taken off the stack in the other order.       *)
cjmp_Swapped ==
  /\ Dispatch("CJMP")
  /\ pc' = pc + (IF do_cmp(Op.cmp_typ, Word(0), Word(-1)) THEN Op.offset ELSE 1)
  /\ UNCHANGED <<bottom, status, data>>

cjmp ==
  /\ Dispatch("CJMP")
  /\ pc' = pc + (IF do_cmp(Op.cmp_typ, Word(-1), Word(0)) THEN Op.offset ELSE 1)
  /\ UNCHANGED <<bottom, status, data>>

halt ==
  /\ Dispatch("HALT")
  /\ status' = "halted"
  /\ UNCHANGED <<pc, bottom, data>>

(* The step C gives no meaning to. *)
Fault ==
  /\ status = "running"
  /\ ~Defined
  /\ status' = "undefined"
  /\ UNCHANGED <<codes, pc, top, bottom, data>>

Next ==
  \/ load_const \/ load_int \/ load_arr \/ store_int \/ store_arr
  \/ seti \/ incr \/ inci \/ cmul \/ binadd
  \/ put \/ jmp \/ cjmp \/ halt
  \/ Fault
=============================================================================
