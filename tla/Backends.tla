------------------------------- MODULE Backends -------------------------------
(***************************************************************************)
(* The two builds of the program on the same syntax tree: the one that     *)
(* interprets it, and (-DCODEGEN) the one that generates code for it and   *)
(* executes the code.  They share nothing but the tree, so here the second *)
(* starts when the first has ended.                                        *)
(***************************************************************************)
EXTENDS Trees, SequencesExt

CONSTANTS
  Undef, Nested(_), ShortHalf, Cap, Garbage,
  Cancels(_),  \* the program has a term over an array element whose coefficient
               \* is 0: eval_expr reads the element, gen_expr skips the term
  EmptyOver(_) \* the variables that hor loops over ranges that may be empty
               \* count in: the generated code assigns to them even so, and
               \* nothing but the loop reads them

ASSUME MachineAssumption == Cap \in Nat \ {0} /\ Garbage \notin IntW
ASSUME ShortAssumption == ShortHalf \in Nat \ {0}

VARIABLES
  src,                                        \* parser.stmts
  iTodo, iInts, iArrs, iOut, iStatus,         \* the interpreter
  codes, gTodo, holes, stmts_end,             \* the code generator
  pc, top, bottom, vInts, vArrs, vOut, vStatus \* the virtual machine

I == INSTANCE Interpreter WITH
       todo <- iTodo, ints <- iInts, arrs <- iArrs, out <- iOut,
       status <- iStatus

G == INSTANCE CodeGen WITH todo <- gTodo

V == INSTANCE CyrVM WITH
       ints <- vInts, arrs <- vArrs, out <- vOut, status <- vStatus

interpreter == <<iTodo, iInts, iArrs, iOut, iStatus>>
generator   == <<gTodo, holes, stmts_end>>
machine     == <<pc, top, bottom, vInts, vArrs, vOut, vStatus>>
vars        == <<src, codes, interpreter, generator, machine>>

Init == I!Init /\ G!Init /\ V!Boot

Interpreted == iStatus # "running"

interpreter_execute ==
  /\ I!Next
  /\ UNCHANGED <<codes, generator, machine>>

cg_gen ==
  /\ Interpreted
  /\ G!Next
  /\ UNCHANGED <<interpreter, machine>>

cyr_vm_execute ==
  /\ Interpreted /\ G!Done
  /\ V!Next
  /\ UNCHANGED <<src, interpreter, generator>>

Next == interpreter_execute \/ cg_gen \/ cyr_vm_execute

(* Each build is one thread that runs until its main returns.               *)
Spec == Init /\ [][Next]_vars /\ WF_vars(Next)

-----------------------------------------------------------------------------
(* The builds agree on programs whose hor loops are regular, whose          *)
(* expressions do not vanish and whose code fits, with two exceptions.  One *)
(* is the reads of elements that cancel: out of bounds they end the         *)
(* interpreter, and the machine, which makes none, goes on.  The other is   *)
(* the assignments to the variable of a loop over an empty range: the       *)
(* interpreter makes none, and where the variable is an element out of      *)
(* bounds they end the machine.                                             *)
OnlyMachineGoesOn == iStatus = "undefined" /\ Cancels(src)
OnlyMachineStores == vStatus = "undefined" /\ EmptyOver(src) \cap ArrVars # {}

(* The machine never prints anything that interpreting the program does not *)
(* print at that place, unless only the machine goes on; then it goes on    *)
(* from where the interpreter ended.                                        *)
OutputAgrees ==
  Interpreted =>
    \/ IsPrefix(vOut, iOut)
    \/ OnlyMachineGoesOn /\ IsPrefix(iOut, vOut)

(* Both builds end alike: where one accesses an array out of bounds so does *)
(* the other, they print the same numbers, and if they come to an end they  *)
(* leave the same values in all variables but those of empty ranges; the    *)
(* two exceptions above are the only ones.                                  *)
OutcomeAgrees ==
  vStatus # "running" =>
    /\ iStatus = "undefined" => vStatus = "undefined" \/ OnlyMachineGoesOn
    /\ vStatus = "undefined" => iStatus = "undefined" \/ OnlyMachineStores
    /\ vOut = iOut \/ OnlyMachineGoesOn \/ OnlyMachineStores
    /\ vStatus = "halted" /\ iStatus = "halted" =>
         /\ \A v \in IntVars \ EmptyOver(src) : vInts[v] = iInts[v]
         /\ \A v \in ArrVars \ EmptyOver(src) : vArrs[v] = iArrs[v]

(* Generated code is safe on the unchecked stack: a run of it stays inside  *)
(* Stack.bottom, reads only words it wrote and ends with an empty stack.    *)
StackRespected ==
  Interpreted /\ G!Done =>
    /\ pc \in DOMAIN codes
    /\ V!StackDefined
    /\ vStatus = "halted" => top = Cap - 1

(* A program that ends when interpreted ends when compiled, unless the      *)
(* machine goes on where the interpreter cannot.                            *)
BothEnd == Interpreted /\ ~OnlyMachineGoesOn ~> vStatus # "running"
=============================================================================
