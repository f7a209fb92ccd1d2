---------------------------- MODULE CertifiedVM ----------------------------
(***************************************************************************)
(* The virtual machine running certified code.  vm.c checks nothing at run *)
(* time, so what it does is decided by the code it is given: here programs *)
(* that have a certificate of their stack depths (Bytecode!Certified).     *)
(***************************************************************************)
EXTENDS CyrVM

CONSTANTS
  Programs,   \* instruction sequences the machine may be given
  DepthOf(_)  \* the certificate of a program

ASSUME ProgramsAssumption ==
  \A p \in Programs : /\ p \in Seq({p[i] : i \in DOMAIN p})
                      /\ Certified(p, DepthOf(p), Cap)

Init == codes \in Programs /\ Boot

Spec == Init /\ [][Next]_vars

-----------------------------------------------------------------------------
Depth == DepthOf(codes)

(* The variables hold what the C types hold.                                *)
TypeOK ==
  /\ codes \in Programs
  /\ pc \in DOMAIN codes
  /\ top \in -1 .. (Cap - 1)
  /\ bottom \in [Addr -> IntW \cup {Garbage}]
  /\ ints \in IntStore
  /\ IsArrStore(arrs)
  /\ out \in Seq(IntW)
  /\ status \in {"running", "halted", "undefined"}

(* The unchecked stack pointer of cyr_vm_execute agrees with the            *)
(* certificate at every instruction, whatever path of jumps led there.      *)
DepthAgrees == top = Cap - 1 - Depth[pc]

(* Every word between the stack pointer and the base has been written: a    *)
(* handler that pops never reads what stack_init left in Stack.bottom.      *)
LiveWordsWritten == \A i \in Addr : i > top => bottom[i] \in IntW

(* The only step of certified code that C gives no meaning to is arr_ref    *)
(* with an index outside the declared bounds: no instruction is about to    *)
(* leave Stack.bottom or to read an unwritten word of it, so the calls of   *)
(* stack_check_capacity that vm.c comments out would report nothing.        *)
OnlyArraysFault == pc \in DOMAIN codes /\ StackDefined

(* The three invariants hold each other up: none is inductive alone.        *)
Inv == TypeOK /\ DepthAgrees /\ LiveWordsWritten

(* The machine implements the instruction set of opcodes.h: reading the     *)
(* words above the stack pointer as a sequence, every handler pops and      *)
(* pushes what the comment on its opcode says.                              *)
OpcodeStack == [i \in 1 .. (Cap - 1 - top) |-> bottom[Cap - i]]

Abs == INSTANCE OpcodeSpec WITH stack <- OpcodeStack

ImplementsOpcodes == Abs!Spec
=============================================================================
