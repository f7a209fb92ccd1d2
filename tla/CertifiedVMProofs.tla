-------------------------- MODULE CertifiedVMProofs --------------------------
(***************************************************************************)
(* Proofs about the virtual machine running certified code: for every set  *)
(* of certified programs, every declaration of variables, every stack      *)
(* capacity and every width of int.  It runs safely, and it implements the *)
(* instruction set of opcodes.h: the moving pointer into Stack.bottom is a *)
(* stack of words that every handler pops and pushes as documented.        *)
(***************************************************************************)
EXTENDS CertifiedVM, SequenceTheorems, TLAPS

(* Every C int operation yields an int: Wrap stays in range.                *)
LEMMA WrapType == \A n \in Int : Wrap(n) \in IntW
<1> SUFFICES ASSUME NEW n \in Int PROVE Wrap(n) \in IntW
  OBVIOUS
<1>1. 2 * Half \in Nat \ {0}
  BY HalfAssumption
<1>2. (n + Half) % (2 * Half) \in 0 .. (2 * Half - 1)
  BY <1>1, HalfAssumption
<1> QED
  BY <1>2, HalfAssumption DEF Wrap, IntW

(* What the certificate says of the instruction at pc.                      *)
LEMMA CertificateHere ==
  ASSUME Inv
  PROVE  /\ DOMAIN codes \subseteq Nat
         /\ WellFormed(Op)
         /\ Depth \in [DOMAIN codes -> 0 .. Cap]
         /\ Operands(Op.typ) <= Depth[pc]
         /\ \A j \in Successors(pc, Op) :
              /\ j \in DOMAIN codes
              /\ Depth[j] = Depth[pc] - get_stack_delta(Op.typ)
<1>1. codes \in Programs /\ pc \in DOMAIN codes
  BY DEF Inv, TypeOK
<1>2. Certified(codes, Depth, Cap) /\ codes \in Seq({codes[i] : i \in DOMAIN codes})
  BY <1>1, ProgramsAssumption DEF Depth
<1>3. DOMAIN codes \subseteq Nat
  BY <1>2
<1> QED
  BY <1>1, <1>2, <1>3 DEF Certified, Op

(* Moving the stack pointer by the delta of the instruction leaves it where *)
(* the certificate puts it for every instruction that may come next.        *)
LEMMA MovedAgrees ==
  ASSUME Inv
  PROVE  /\ Moved \in Int
         /\ get_stack_delta(Op.typ) \in -1 .. 2
         /\ \A j \in Successors(pc, Op) : Moved = Cap - 1 - Depth[j]
<1>1. get_stack_delta(Op.typ) \in -1 .. 2
  BY DEF get_stack_delta
<1>2. top \in Int /\ pc \in DOMAIN codes /\ top = Cap - 1 - Depth[pc]
  BY CapAssumption DEF Inv, TypeOK, DepthAgrees
<1>3. Depth[pc] \in Int
  BY <1>2, CertificateHere
<1>4. ASSUME NEW j \in Successors(pc, Op)
      PROVE  Moved = Cap - 1 - Depth[j]
  <2>1. j \in DOMAIN codes /\ Depth[j] = Depth[pc] - get_stack_delta(Op.typ)
    BY <1>4, CertificateHere
  <2> QED
    BY <1>1, <1>2, <1>3, <2>1, CapAssumption DEF Moved
<1> QED
  BY <1>1, <1>2, <1>4 DEF Moved

(* A certified instruction stays inside the stack array and pops only words *)
(* that have been written.                                                  *)
LEMMA StackDefinedHere ==
  ASSUME Inv
  PROVE  StackDefined
<1>1. /\ pc \in DOMAIN codes
      /\ top = Cap - 1 - Depth[pc]
      /\ Depth[pc] \in 0 .. Cap
      /\ Operands(Op.typ) <= Depth[pc]
      /\ Op.typ \in OpCodeType
  BY CertificateHere DEF Inv, TypeOK, DepthAgrees, WellFormed
<1>2. \A i \in Addr : i > top => bottom[i] \in IntW
  BY DEF Inv, LiveWordsWritten
<1>3. \A j \in Successors(pc, Op) :
        Depth[pc] - get_stack_delta(Op.typ) \in 0 .. Cap
  BY CertificateHere
<1>4. Op.typ \in {"LOAD_CONST", "LOAD_INT"} => Depth[pc] + 1 <= Cap
  <2> SUFFICES ASSUME Op.typ \in {"LOAD_CONST", "LOAD_INT"}
               PROVE  Depth[pc] + 1 <= Cap
    OBVIOUS
  <2>1. pc + 1 \in Successors(pc, Op)
    BY DEF Successors
  <2>2. get_stack_delta(Op.typ) = -1
    BY DEF get_stack_delta
  <2> QED
    BY <1>1, <1>3, <2>1, <2>2, CapAssumption
<1>5. \A k \in Reads(Op.typ) : Moved + k \in Addr /\ Moved + k > top
  BY <1>1, CapAssumption
     DEF OpCodeType, Reads, Operands, get_stack_delta, Moved, Addr
<1>6. \A k \in Writes(Op.typ) : Moved + k \in Addr
  BY <1>1, <1>4, CapAssumption
     DEF OpCodeType, Writes, Operands, get_stack_delta, Moved, Addr
<1> QED
  BY <1>2, <1>5, <1>6 DEF StackDefined, Word

-----------------------------------------------------------------------------
(* The words a handler reads are ints.                                      *)
LEMMA WordType ==
  ASSUME Inv, NEW k \in Reads(Op.typ)
  PROVE  Word(k) \in IntW
BY StackDefinedHere DEF StackDefined

(* A handler that goes on at an address the certificate allows keeps the    *)
(* stack pointer in agreement with it.                                      *)
LEMMA GoingOn ==
  ASSUME Inv, pc' \in Successors(pc, Op), top' = Moved, UNCHANGED codes
  PROVE  /\ codes' \in Programs
         /\ pc' \in DOMAIN codes'
         /\ top' \in -1 .. (Cap - 1)
         /\ DepthAgrees'
<1>1. codes' = codes /\ codes \in Programs
  BY DEF Inv, TypeOK
<1>2. pc' \in DOMAIN codes /\ Depth[pc'] \in 0 .. Cap
  BY CertificateHere
<1>3. top' = Cap - 1 - Depth[pc']
  BY MovedAgrees
<1>4. Depth' = Depth
  BY <1>1 DEF Depth
<1> QED
  BY <1>1, <1>2, <1>3, <1>4, CapAssumption DEF DepthAgrees

(* A handler that stores val at top[1] keeps the live words written.        *)
LEMMA WritingTop ==
  ASSUME Inv, Writes(Op.typ) = {1}, NEW val \in IntW, top' = Moved, SetTop(val)
  PROVE  /\ bottom' \in [Addr -> IntW \cup {Garbage}]
         /\ LiveWordsWritten'
<1>1. Moved + 1 \in Addr
  BY StackDefinedHere DEF StackDefined
<1>2. /\ bottom \in [Addr -> IntW \cup {Garbage}]
      /\ \A i \in Addr : i > top => bottom[i] \in IntW
      /\ top \in Int
  BY CapAssumption DEF Inv, TypeOK, LiveWordsWritten
<1>3. bottom' = [bottom EXCEPT ![Moved + 1] = val]
  BY DEF SetTop
<1>4. ASSUME NEW i \in Addr, i > top'
      PROVE  bottom'[i] \in IntW
  <2>1. CASE i = Moved + 1
    BY <1>2, <1>3, <2>1
  <2>2. CASE i # Moved + 1
    <3>1. i > top
      BY <1>2, <1>4, <2>2, MovedAgrees, CapAssumption DEF Moved, Addr
    <3> QED
      BY <1>2, <1>3, <2>2, <3>1
  <2> QED
    BY <2>1, <2>2
<1> QED
  BY <1>1, <1>2, <1>3, <1>4 DEF LiveWordsWritten

(* A handler that only pops keeps them written too.                         *)
LEMMA OnlyPopping ==
  ASSUME Inv, get_stack_delta(Op.typ) >= 0, top' = Moved, UNCHANGED bottom
  PROVE  /\ bottom' \in [Addr -> IntW \cup {Garbage}]
         /\ LiveWordsWritten'
<1>1. /\ bottom \in [Addr -> IntW \cup {Garbage}]
      /\ \A i \in Addr : i > top => bottom[i] \in IntW
      /\ top \in Int
  BY CapAssumption DEF Inv, TypeOK, LiveWordsWritten
<1>2. ASSUME NEW i \in Addr, i > top'
      PROVE  i > top
  BY <1>1, <1>2, MovedAgrees, CapAssumption DEF Moved, Addr
<1> QED
  BY <1>1, <1>2 DEF LiveWordsWritten

-----------------------------------------------------------------------------
LEMMA InitInv == Init => Inv
<1> SUFFICES ASSUME Init PROVE Inv
  OBVIOUS
<1>1. codes \in Programs /\ Certified(codes, Depth, Cap)
  BY ProgramsAssumption DEF Init, Depth
<1>2. TypeOK
  <2>1. ints \in IntStore
    BY HalfAssumption DEF Init, Boot, InitInts, IntStore, IntW
  <2>2. IsArrStore(arrs)
    BY HalfAssumption DEF Init, Boot, InitArrs, IsArrStore, IntW
  <2> QED
    BY <1>1, <2>1, <2>2, CapAssumption DEF Init, Boot, TypeOK, Certified
<1>3. DepthAgrees
  BY <1>1, CapAssumption DEF Init, Boot, DepthAgrees, Certified
<1>4. LiveWordsWritten
  BY CapAssumption DEF Init, Boot, LiveWordsWritten, Addr
<1> QED
  BY <1>2, <1>3, <1>4 DEF Inv

LEMMA NextInv == Inv /\ [Next]_vars => Inv'
<1> SUFFICES ASSUME Inv, [Next]_vars PROVE Inv'
  OBVIOUS
<1> USE DEF Inv
<1>t. /\ ints \in IntStore /\ IsArrStore(arrs) /\ out \in Seq(IntW)
      /\ status \in {"running", "halted", "undefined"}
  BY DEF TypeOK
<1>w. WellFormed(Op)
  BY CertificateHere
<1>m. \A k \in Reads(Op.typ) : Word(k) \in IntW
  BY WordType
<1>i. IntW \subseteq Int
  BY HalfAssumption DEF IntW
\* The handlers that push a word or rewrite the one on top.
<1> DEFINE Pushes(val) ==
      /\ top' = Moved /\ SetTop(val)
      /\ Writes(Op.typ) = {1}
      /\ Advance /\ UNCHANGED codes /\ UNCHANGED data
<1>p. ASSUME NEW val \in IntW, Pushes(val)
      PROVE  Inv'
  <2>1. pc' \in Successors(pc, Op)
    BY <1>p DEF Advance, Writes, Successors
  <2> QED
    BY <1>p, <1>t, <2>1, GoingOn, WritingTop DEF Advance, data, TypeOK
<1>1. CASE load_const
  <2>1. Op.constant \in IntW /\ Pushes(Op.constant)
    BY <1>1, <1>w DEF load_const, Dispatch, WellFormed, Writes
  <2> QED
    BY <1>p, <2>1
<1>2. CASE load_int
  <2>1. ints[Op.ptr] \in IntW /\ Pushes(ints[Op.ptr])
    BY <1>2, <1>t, <1>w DEF load_int, Dispatch, WellFormed, Writes, IntStore
  <2> QED
    BY <1>p, <2>1
<1>3. CASE load_arr
  <2> DEFINE val == arrs[Op.ptr][CellOf(Op.ptr, Word(1))]
  <2>1. Op.ptr \in ArrVars /\ CellOf(Op.ptr, Word(1)) \in Cells(Op.ptr)
    BY <1>3, <1>w DEF load_arr, Dispatch, Defined, ArrayDefined, WellFormed
  <2>2. val \in IntW /\ Pushes(val)
    BY <1>3, <1>t, <2>1 DEF load_arr, Dispatch, Writes, IsArrStore
  <2> QED
    BY <1>p, <2>2
<1>4. CASE incr
  <2> DEFINE val == Wrap(Word(1) + Op.constant)
  <2>1. Word(1) \in Int /\ Op.constant \in Int
    BY <1>4, <1>i, <1>m, <1>w DEF incr, Dispatch, Reads, WellFormed
  <2>2. val \in IntW
    BY <2>1, WrapType
  <2>3. Pushes(val)
    BY <1>4 DEF incr, Dispatch, Writes
  <2> QED
    BY <1>p, <2>2, <2>3
<1>5. CASE cmul
  <2> DEFINE val == Wrap(Word(1) * Op.constant)
  <2>1. Word(1) \in Int /\ Op.constant \in Int
    BY <1>5, <1>i, <1>m, <1>w DEF cmul, Dispatch, Reads, WellFormed
  <2>2. val \in IntW
    BY <2>1, WrapType
  <2>3. Pushes(val)
    BY <1>5 DEF cmul, Dispatch, Writes
  <2> QED
    BY <1>p, <2>2, <2>3
<1>6. CASE binadd
  <2> DEFINE val == Wrap(Word(1) + Word(0))
  <2>1. Word(1) \in Int /\ Word(0) \in Int
    BY <1>6, <1>i, <1>m DEF binadd, Dispatch, Reads
  <2>2. val \in IntW
    BY <2>1, WrapType
  <2>3. Pushes(val)
    BY <1>6 DEF binadd, Dispatch, Writes
  <2> QED
    BY <1>p, <2>2, <2>3
\* The handlers that leave the stack array alone.
<1> DEFINE Pops ==
      /\ top' = Moved /\ UNCHANGED <<codes, bottom>>
      /\ get_stack_delta(Op.typ) >= 0
      /\ pc' \in Successors(pc, Op)
      /\ status' = status
<1>q. ASSUME Pops, ints' \in IntStore, IsArrStore(arrs)', out' \in Seq(IntW)
      PROVE  Inv'
  BY <1>q, <1>t, GoingOn, OnlyPopping DEF TypeOK
<1>7. CASE store_int
  <2>1. Pops
    BY <1>7 DEF store_int, Dispatch, Advance, Successors, get_stack_delta
  <2>2. ints' \in IntStore
    BY <1>7, <1>t, <1>m DEF store_int, Dispatch, Reads, IntStore
  <2> QED
    BY <1>7, <1>q, <1>t, <2>1, <2>2 DEF store_int, IsArrStore
<1>8. CASE store_arr
  <2>1. Pops
    BY <1>8 DEF store_arr, Dispatch, Advance, Successors, get_stack_delta
  <2>2. Word(0) \in IntW /\ Op.ptr \in ArrVars
    BY <1>8, <1>m, <1>w DEF store_arr, Dispatch, Reads, WellFormed
  <2>3. IsArrStore(arrs)'
    BY <1>8, <1>t, <2>2 DEF store_arr, SetCell, IsArrStore
  <2> QED
    BY <1>8, <1>q, <1>t, <2>1, <2>3 DEF store_arr
<1>9. CASE seti
  <2>1. Pops
    BY <1>9 DEF seti, Dispatch, Advance, Successors, get_stack_delta
  <2>2. ints' \in IntStore
    BY <1>9, <1>t, <1>w DEF seti, Dispatch, WellFormed, IntStore
  <2> QED
    BY <1>9, <1>q, <1>t, <2>1, <2>2 DEF seti, IsArrStore
<1>10. CASE inci
  <2>1. Pops
    BY <1>10 DEF inci, Dispatch, Advance, Successors, get_stack_delta
  <2>2. Op.ptr \in IntVars /\ Op.constant \in Int
    BY <1>10, <1>w, <1>i DEF inci, Dispatch, WellFormed
  <2>3. Wrap(ints[Op.ptr] + Op.constant) \in IntW
    <3>1. ints[Op.ptr] \in Int
      BY <1>t, <1>i, <2>2 DEF IntStore
    <3> QED
      BY <2>2, <3>1, WrapType
  <2>4. ints' \in IntStore
    BY <1>10, <1>t, <2>2, <2>3 DEF inci, IntStore
  <2> QED
    BY <1>10, <1>q, <1>t, <2>1, <2>4 DEF inci, IsArrStore
<1>11. CASE put
  <2>1. Pops
    BY <1>11 DEF put, Dispatch, Advance, Successors, get_stack_delta
  <2>2. out' \in Seq(IntW)
    BY <1>11, <1>t, <1>m DEF put, Dispatch, Reads
  <2> QED
    BY <1>11, <1>q, <1>t, <2>1, <2>2 DEF put, IsArrStore
<1>12. CASE jmp
  <2>1. Pops
    BY <1>12 DEF jmp, Dispatch, Successors, get_stack_delta
  <2> QED
    BY <1>12, <1>q, <1>t, <2>1 DEF jmp, data, IsArrStore
<1>13. CASE cjmp
  <2>1. Pops
    BY <1>13 DEF cjmp, Dispatch, Successors, get_stack_delta
  <2> QED
    BY <1>13, <1>q, <1>t, <2>1 DEF cjmp, data, IsArrStore
\* The steps after which the machine stands still.
<1>14. ASSUME halt \/ Fault \/ UNCHANGED vars
       PROVE  Inv'
  <2>1. top' = top
    <3>1. CASE halt
      BY <3>1, CapAssumption
         DEF halt, Dispatch, Moved, get_stack_delta, TypeOK
    <3> QED
      BY <1>14, <3>1 DEF Fault, vars
  <2>2. UNCHANGED <<codes, pc, bottom, ints, arrs, out>>
    BY <1>14 DEF halt, Dispatch, Fault, vars, data
  <2>3. status' \in {"running", "halted", "undefined"}
    BY <1>14, <1>t DEF halt, Fault, vars
  <2> QED
    BY <2>1, <2>2, <2>3
       DEF TypeOK, DepthAgrees, Depth, LiveWordsWritten, IsArrStore
<1> QED
  BY <1>1, <1>2, <1>3, <1>4, <1>5, <1>6, <1>7, <1>8, <1>9, <1>10, <1>11,
     <1>12, <1>13, <1>14 DEF Next

(* The stack pointer, the words above it and the variables are at every     *)
(* moment what the certificate and the declarations say.                    *)
THEOREM Safety == Spec => []Inv
BY InitInv, NextInv, PTL DEF Spec

(* Type correctness of the machine.                                         *)
THEOREM TypeCorrect == Spec => []TypeOK
<1>1. Inv => TypeOK
  BY DEF Inv
<1> QED
  BY <1>1, Safety, PTL

(* Whatever path of jumps led to an instruction, the stack pointer is where *)
(* the certificate has it.                                                  *)
THEOREM PointerAgrees == Spec => []DepthAgrees
<1>1. Inv => DepthAgrees
  BY DEF Inv
<1> QED
  BY <1>1, Safety, PTL

(* A handler pops only words that a handler has pushed.                     *)
THEOREM PopsWhatWasPushed == Spec => []LiveWordsWritten
<1>1. Inv => LiveWordsWritten
  BY DEF Inv
<1> QED
  BY <1>1, Safety, PTL

(* Certified code never overflows or underflows Stack.bottom, never reads a *)
(* word nobody wrote and never runs past its last instruction: the checks   *)
(* vm.c leaves out are not needed.                                          *)
THEOREM NoStackFault == Spec => []OnlyArraysFault
<1>1. Inv => OnlyArraysFault
  BY StackDefinedHere DEF Inv, TypeOK, OnlyArraysFault
<1> QED
  BY <1>1, Safety, PTL

-----------------------------------------------------------------------------
(* The words above the stack pointer, as a sequence; the last one is the    *)
(* word at top[1].                                                          *)
LEMMA StackSequence ==
  ASSUME Inv
  PROVE  /\ OpcodeStack \in Seq(IntW)
         /\ Len(OpcodeStack) = Cap - 1 - top
         /\ Cap - 1 - top \in Nat
         /\ Len(OpcodeStack) = Depth[pc]
         /\ \A i \in 1 .. (Cap - 1 - top) : OpcodeStack[i] = bottom[Cap - i]
<1>1. /\ top \in -1 .. (Cap - 1)
      /\ \A i \in Addr : i > top => bottom[i] \in IntW
      /\ top = Cap - 1 - Depth[pc]
      /\ Depth[pc] \in 0 .. Cap
  BY CertificateHere DEF Inv, TypeOK, LiveWordsWritten, DepthAgrees
<1>2. Cap - 1 - top \in Nat
  BY <1>1, CapAssumption
<1>3. \A i \in 1 .. (Cap - 1 - top) : bottom[Cap - i] \in IntW
  BY <1>1, CapAssumption DEF Addr
<1> QED
  BY <1>1, <1>2, <1>3, CapAssumption DEF OpcodeStack

(* The operands the certificate promises are on the stack, and those of an  *)
(* instruction that reads them are at the offsets its handler uses.         *)
LEMMA OperandsOnStack ==
  ASSUME Inv
  PROVE  /\ top \in Int /\ Depth[pc] \in 0 .. Cap /\ top = Cap - 1 - Depth[pc]
         /\ Operands(Op.typ) \in 0 .. 2
         /\ Operands(Op.typ) <= Len(OpcodeStack)
<1>1. top \in Int /\ top = Cap - 1 - Depth[pc]
  BY CapAssumption DEF Inv, TypeOK, DepthAgrees
<1>2. Depth[pc] \in 0 .. Cap /\ Operands(Op.typ) <= Depth[pc]
  BY CertificateHere DEF Inv, TypeOK
<1>3. Operands(Op.typ) \in 0 .. 2
  BY DEF Operands
<1> QED
  BY <1>1, <1>2, <1>3, StackSequence

(* The same, as arithmetic on the pointer.                                  *)
LEMMA PointerFacts ==
  ASSUME Inv
  PROVE  /\ Cap \in Nat /\ top \in Int /\ Operands(Op.typ) \in Nat
         /\ Len(OpcodeStack) = Cap - 1 - top
         /\ Operands(Op.typ) <= Cap - 1 - top
<1>1. Len(OpcodeStack) = Cap - 1 - top
  BY StackSequence
<1>2. top \in Int /\ Operands(Op.typ) \in Nat
  BY OperandsOnStack
<1> QED
  BY <1>1, <1>2, OperandsOnStack, CapAssumption

(* Moving the pointer up by the number of operands pops them.               *)
LEMMA Popping ==
  ASSUME Inv, get_stack_delta(Op.typ) = Operands(Op.typ),
         top' = Moved, UNCHANGED bottom
  PROVE  OpcodeStack' =
           SubSeq(OpcodeStack, 1, Len(OpcodeStack) - Operands(Op.typ)) \o <<>>
<1> DEFINE n == Len(OpcodeStack) - Operands(Op.typ)
<1>1. /\ n \in Nat /\ n <= Len(OpcodeStack)
      /\ Cap - 1 - top' = n
  <2>1. top' = top + Operands(Op.typ)
    BY DEF Moved
  <2>2. Len(OpcodeStack) = Cap - 1 - top
    BY PointerFacts
  <2>3. Cap \in Nat /\ top \in Int /\ Operands(Op.typ) \in Nat
    BY PointerFacts
  <2>4. Operands(Op.typ) <= Cap - 1 - top
    BY PointerFacts
  <2>5. n \in Nat /\ n <= Len(OpcodeStack)
    BY <2>2, <2>3, <2>4
  <2>6. Cap - 1 - top' = n
    BY <2>1, <2>2, <2>3
  <2> QED
    BY <2>5, <2>6
<1>2. SubSeq(OpcodeStack, 1, n) = [i \in 1 .. n |-> OpcodeStack[i]]
  BY <1>1, StackSequence
<1>3. OpcodeStack' = [i \in 1 .. n |-> bottom[Cap - i]]
  BY <1>1 DEF OpcodeStack
<1>4. \A i \in 1 .. n : OpcodeStack[i] = bottom[Cap - i]
  BY <1>1, StackSequence
<1>5. SubSeq(OpcodeStack, 1, n) = OpcodeStack'
  BY <1>2, <1>3, <1>4
<1>6. SubSeq(OpcodeStack, 1, n) \in Seq(IntW)
  BY <1>1, StackSequence
<1> QED
  BY <1>5, <1>6, ConcatEmptySeq

(* A handler that stores val at top[1] pops its operands and pushes val.    *)
LEMMA Pushing ==
  ASSUME Inv, get_stack_delta(Op.typ) = Operands(Op.typ) - 1,
         Writes(Op.typ) = {1},
         NEW val \in IntW, top' = Moved, SetTop(val)
  PROVE  OpcodeStack' =
           SubSeq(OpcodeStack, 1, Len(OpcodeStack) - Operands(Op.typ)) \o <<val>>
<1> DEFINE n == Len(OpcodeStack) - Operands(Op.typ)
           rest == SubSeq(OpcodeStack, 1, n)
<1>1. /\ n \in Nat /\ n <= Len(OpcodeStack)
      /\ Cap - 1 - top' = n + 1
      /\ Moved + 1 = Cap - (n + 1)
  <2>1. Moved = top + (Operands(Op.typ) - 1)
    BY DEF Moved
  <2>2. top' = top + (Operands(Op.typ) - 1)
    BY <2>1
  <2>3. Len(OpcodeStack) = Cap - 1 - top
    BY PointerFacts
  <2>4. Cap \in Nat /\ top \in Int /\ Operands(Op.typ) \in Nat
    BY PointerFacts
  <2>5. Operands(Op.typ) <= Cap - 1 - top
    BY PointerFacts
  <2>6. n \in Nat /\ n <= Len(OpcodeStack)
    BY <2>3, <2>4, <2>5
  <2>7. Cap - 1 - top' = n + 1
    BY <2>2, <2>3, <2>4
  <2>8. Moved + 1 = Cap - (n + 1)
    BY <2>1, <2>3, <2>4
  <2> QED
    BY <2>6, <2>7, <2>8
<1>2. rest = [i \in 1 .. n |-> OpcodeStack[i]]
  BY <1>1, StackSequence
<1>3. rest \in Seq(IntW) /\ Len(rest) = n
  BY <1>1, StackSequence
<1>4. bottom' = [bottom EXCEPT ![Cap - (n + 1)] = val]
  BY <1>1 DEF SetTop
<1>5. Cap - (n + 1) \in Addr /\ bottom \in [Addr -> IntW \cup {Garbage}]
  <2>1. Moved + 1 \in Addr
    BY StackDefinedHere DEF StackDefined
  <2> QED
    BY <1>1, <2>1 DEF Inv, TypeOK
<1>6. OpcodeStack' = [i \in 1 .. (n + 1) |-> bottom'[Cap - i]]
  BY <1>1 DEF OpcodeStack
<1>7. \A i \in 1 .. n : bottom'[Cap - i] = rest[i]
  <2> SUFFICES ASSUME NEW i \in 1 .. n PROVE bottom'[Cap - i] = rest[i]
    OBVIOUS
  <2>1. Cap - i # Cap - (n + 1)
    BY <1>1, CapAssumption
  <2>2. i \in 1 .. (Cap - 1 - top)
    BY <1>1, StackSequence
  <2>3. OpcodeStack[i] = bottom[Cap - i]
    BY <2>2, StackSequence
  <2>4. Cap - i \in Addr
    BY <2>2, OperandsOnStack, CapAssumption DEF Addr
  <2> QED
    BY <1>2, <1>4, <1>5, <2>1, <2>3, <2>4
<1>8. bottom'[Cap - (n + 1)] = val
  BY <1>4, <1>5
<1> HIDE DEF rest, n
<1>9. <<val>> \in Seq(IntW) /\ Len(<<val>>) = 1 /\ <<val>>[1] = val
  OBVIOUS
<1>10. /\ rest \o <<val>> \in Seq(IntW)
       /\ Len(rest \o <<val>>) = n + 1
       /\ \A i \in 1 .. (n + 1) :
            (rest \o <<val>>)[i] = IF i <= n THEN rest[i] ELSE <<val>>[i - n]
  BY <1>3, <1>9, ConcatProperties
<1>11. \A i \in 1 .. (n + 1) : OpcodeStack'[i] = (rest \o <<val>>)[i]
  BY <1>1, <1>6, <1>7, <1>8, <1>9, <1>10
<1>12. OpcodeStack' \in Seq(IntW) /\ Len(OpcodeStack') = n + 1
  <2>1. \A i \in 1 .. (n + 1) : bottom'[Cap - i] \in IntW
    <3> SUFFICES ASSUME NEW i \in 1 .. (n + 1) PROVE bottom'[Cap - i] \in IntW
      OBVIOUS
    <3>1. CASE i = n + 1
      BY <1>8, <3>1
    <3>2. CASE i \in 1 .. n
      BY <1>3, <1>7, <3>2
    <3> QED
      BY <1>1, <3>1, <3>2
  <2> QED
    BY <1>1, <1>6, <2>1
<1>13. OpcodeStack' = rest \o <<val>>
  BY <1>10, <1>11, <1>12, SeqEqual
<1> QED
  BY <1>13 DEF rest, n

(* STACK(0) and STACK(-1) of opcodes.h, as the words a handler addresses.   *)
LEMMA Arguments ==
  ASSUME Inv
  PROVE  /\ Operands(Op.typ) >= 1 => Abs!Arg0 = bottom[top + 1]
         /\ Operands(Op.typ) = 2 => Abs!Arg1 = bottom[top + 2]
<1>1. /\ top \in Int /\ Operands(Op.typ) \in 0 .. 2
      /\ Len(OpcodeStack) = Cap - 1 - top
      /\ Operands(Op.typ) <= Len(OpcodeStack)
  BY OperandsOnStack, StackSequence
<1>2. ASSUME Operands(Op.typ) >= 1
      PROVE  OpcodeStack[Len(OpcodeStack)] = bottom[top + 1]
  <2>1. Len(OpcodeStack) \in 1 .. (Cap - 1 - top)
    BY <1>1, <1>2, CapAssumption
  <2>2. Cap - Len(OpcodeStack) = top + 1
    BY <1>1, CapAssumption
  <2> QED
    BY <2>1, <2>2, StackSequence
<1>3. ASSUME Operands(Op.typ) = 2
      PROVE  OpcodeStack[Len(OpcodeStack) - 1] = bottom[top + 2]
  <2>1. Len(OpcodeStack) - 1 \in 1 .. (Cap - 1 - top)
    BY <1>1, <1>3, CapAssumption
  <2>2. Cap - (Len(OpcodeStack) - 1) = top + 2
    BY <1>1, CapAssumption
  <2> QED
    BY <2>1, <2>2, StackSequence
<1> QED
  BY <1>2, <1>3 DEF Abs!Arg0, Abs!Arg1

(* OpcodeSpec shares Bytecode with the machine.                             *)
LEMMA SameOperators ==
  /\ \A t : Abs!Operands(t) = Operands(t)
  /\ \A n : Abs!Wrap(n) = Wrap(n)
  /\ \A b, i : Abs!CellOf(b, i) = CellOf(b, i)
  /\ \A b : Abs!Cells(b) = Cells(b)
  /\ \A s, b, i, v : Abs!SetCell(s, b, i, v) = SetCell(s, b, i, v)
  /\ \A c, l, r : Abs!do_cmp(c, l, r) = do_cmp(c, l, r)
  /\ Abs!Op = Op
BY DEF Abs!Operands, Operands, Abs!Wrap, Wrap, Abs!CellOf, CellOf, Abs!Cells,
       Cells, Abs!SetCell, SetCell, Abs!do_cmp, do_cmp, Abs!Op, Op

LEMMA RefinesInit == Init => Abs!Init
<1> SUFFICES ASSUME Init PROVE Abs!Init
  OBVIOUS
<1>1. OpcodeStack = <<>>
  BY CapAssumption DEF Init, Boot, OpcodeStack
<1> QED
  BY <1>1 DEF Init, Boot, Abs!Init, Abs!InitInts, Abs!InitArrs, InitInts,
              InitArrs, Abs!Cells, Cells

(* An instruction the machine dispatches is ready in the stack machine.     *)
LEMMA DispatchReady ==
  ASSUME Inv, NEW typ, Dispatch(typ)
  PROVE  /\ Abs!Ready(typ) /\ Op.typ = typ /\ top' = Moved
         /\ UNCHANGED codes
BY OperandsOnStack, SameOperators DEF Dispatch, Defined, Abs!Ready

LEMMA RefinesNext == Inv /\ [Next]_vars => [Abs!Next]_(Abs!vars)
<1> SUFFICES ASSUME Inv, [Next]_vars PROVE [Abs!Next]_(Abs!vars)
  OBVIOUS
<1>w. WellFormed(Op)
  BY CertificateHere
<1>m. \A k \in Reads(Op.typ) : Word(k) \in IntW
  BY WordType
<1>i. IntW \subseteq Int
  BY HalfAssumption DEF IntW
<1>t. ints \in IntStore /\ IsArrStore(arrs) /\ top \in Int
  BY OperandsOnStack DEF Inv, TypeOK
\* The word a handler pushes is the one opcodes.h says it pushes.
<1>p. ASSUME NEW typ, NEW val \in IntW, Dispatch(typ), SetTop(val),
             Writes(typ) = {1}, get_stack_delta(typ) = Operands(typ) - 1
      PROVE  Abs!Execute(typ, <<val>>)
  BY <1>p, DispatchReady, Pushing, SameOperators DEF Abs!Execute
\* A handler that writes no word of the stack only pops.
<1>q. ASSUME NEW typ, Dispatch(typ), UNCHANGED bottom,
             get_stack_delta(typ) = Operands(typ)
      PROVE  Abs!Execute(typ, <<>>)
  BY <1>q, DispatchReady, Popping, SameOperators DEF Abs!Execute
\* Where the operands of one-operand and two-operand instructions lie.
<1>a. ASSUME Op.typ \in {"LOAD_ARR", "INCR", "CMUL"}
      PROVE  Abs!Arg0 = Word(1) /\ Word(1) \in Int
  BY <1>a, <1>i, <1>m, <1>t, Arguments
     DEF Operands, get_stack_delta, Moved, Word, Reads
<1>b. ASSUME Op.typ \in {"STORE_INT", "PUT", "BINADD"}
      PROVE  Abs!Arg0 = Word(0) /\ Word(0) \in Int
  BY <1>b, <1>i, <1>m, <1>t, Arguments
     DEF Operands, get_stack_delta, Moved, Word, Reads
<1>c. ASSUME Op.typ \in {"STORE_ARR", "CJMP"}
      PROVE  Abs!Arg0 = Word(-1) /\ Abs!Arg1 = Word(0)
  BY <1>c, <1>t, Arguments DEF Operands, get_stack_delta, Moved, Word
<1>d. ASSUME Op.typ = "BINADD"
      PROVE  Abs!Arg1 = Word(1) /\ Word(1) \in Int
  BY <1>d, <1>i, <1>m, <1>t, Arguments
     DEF Operands, get_stack_delta, Moved, Word, Reads
<1>1. CASE load_const
  <2>1. Abs!Execute("LOAD_CONST", <<Op.constant>>)
    BY <1>1, <1>p, <1>w
       DEF load_const, Dispatch, WellFormed, Writes, get_stack_delta, Operands
  <2>2. Abs!Load
    BY <1>1, <2>1, SameOperators
       DEF load_const, Advance, data, Abs!Load, Abs!Goto
  <2> QED
    BY <2>2 DEF Abs!Next
<1>2. CASE load_int
  <2>1. ints[Op.ptr] \in IntW
    BY <1>2, <1>t, <1>w DEF load_int, Dispatch, WellFormed, IntStore
  <2>2. Abs!Execute("LOAD_INT", <<ints[Op.ptr]>>)
    BY <1>2, <1>p, <2>1
       DEF load_int, Writes, get_stack_delta, Operands
  <2>3. Abs!Load
    BY <1>2, <2>2, SameOperators
       DEF load_int, Advance, data, Abs!Load, Abs!Goto
  <2> QED
    BY <2>3 DEF Abs!Next
<1>3. CASE load_arr
  <2> DEFINE val == arrs[Op.ptr][CellOf(Op.ptr, Word(1))]
  <2>1. Op.typ = "LOAD_ARR" /\ Op.ptr \in ArrVars
        /\ CellOf(Op.ptr, Word(1)) \in Cells(Op.ptr)
    BY <1>3, <1>w DEF load_arr, Dispatch, Defined, ArrayDefined, WellFormed
  <2>2. val \in IntW
    BY <1>t, <2>1 DEF IsArrStore
  <2>3. Abs!Execute("LOAD_ARR", <<val>>)
    BY <1>3, <1>p, <2>2 DEF load_arr, Writes, get_stack_delta, Operands
  <2>4. Abs!InBounds(Abs!Arg0) /\ Abs!Ready("LOAD_ARR")
    BY <1>3, <1>a, <2>1, DispatchReady, SameOperators
       DEF load_arr, Abs!InBounds
  <2>5. Abs!Load
    BY <1>3, <1>a, <2>1, <2>3, <2>4, SameOperators
       DEF load_arr, Advance, data, Abs!Load, Abs!Goto
  <2> QED
    BY <2>5 DEF Abs!Next
<1>4. CASE store_int
  <2>1. Abs!Execute("STORE_INT", <<>>) /\ Op.typ = "STORE_INT"
    BY <1>4, <1>q, DispatchReady DEF store_int, get_stack_delta, Operands
  <2>2. Abs!Store
    BY <1>4, <1>b, <2>1, SameOperators
       DEF store_int, Advance, Abs!Store, Abs!Goto
  <2> QED
    BY <2>2 DEF Abs!Next
<1>5. CASE store_arr
  <2>1. Abs!Execute("STORE_ARR", <<>>) /\ Op.typ = "STORE_ARR"
    BY <1>5, <1>q, DispatchReady DEF store_arr, get_stack_delta, Operands
  <2>2. Abs!InBounds(Abs!Arg0)
    BY <1>5, <1>c, <2>1, SameOperators
       DEF store_arr, Dispatch, Defined, ArrayDefined, Abs!InBounds
  <2>3. Abs!Store
    BY <1>5, <1>c, <2>1, <2>2, SameOperators
       DEF store_arr, Advance, Abs!Store, Abs!Goto
  <2> QED
    BY <2>3 DEF Abs!Next
<1>6. CASE seti
  <2>1. Abs!Execute("SETI", <<>>)
    BY <1>6, <1>q DEF seti, get_stack_delta, Operands
  <2>2. Abs!Store
    BY <1>6, <2>1, SameOperators DEF seti, Advance, Abs!Store, Abs!Goto
  <2> QED
    BY <2>2 DEF Abs!Next
<1>7. CASE incr
  <2>1. Op.typ = "INCR" /\ Op.constant \in Int
    BY <1>7, <1>w, <1>i DEF incr, Dispatch, WellFormed
  <2>2. Wrap(Word(1) + Op.constant) \in IntW
    BY <1>a, <2>1, WrapType
  <2>3. Abs!Execute("INCR", <<Wrap(Word(1) + Op.constant)>>)
    BY <1>7, <1>p, <2>2 DEF incr, Writes, get_stack_delta, Operands
  <2>4. Abs!Arithmetic
    BY <1>7, <1>a, <2>1, <2>3, SameOperators
       DEF incr, Advance, data, Abs!Arithmetic, Abs!Goto
  <2> QED
    BY <2>4 DEF Abs!Next
<1>8. CASE inci
  <2>1. Abs!Execute("INCI", <<>>)
    BY <1>8, <1>q DEF inci, get_stack_delta, Operands
  <2>2. Abs!Store
    BY <1>8, <2>1, SameOperators DEF inci, Advance, Abs!Store, Abs!Goto
  <2> QED
    BY <2>2 DEF Abs!Next
<1>9. CASE cmul
  <2>1. Op.typ = "CMUL" /\ Op.constant \in Int
    BY <1>9, <1>w, <1>i DEF cmul, Dispatch, WellFormed
  <2>2. Wrap(Word(1) * Op.constant) \in IntW
    BY <1>a, <2>1, WrapType
  <2>3. Abs!Execute("CMUL", <<Wrap(Word(1) * Op.constant)>>)
    BY <1>9, <1>p, <2>2 DEF cmul, Writes, get_stack_delta, Operands
  <2>4. Word(1) * Op.constant = Op.constant * Abs!Arg0
    BY <1>a, <2>1
  <2>5. Abs!Arithmetic
    BY <1>9, <2>3, <2>4, SameOperators
       DEF cmul, Advance, data, Abs!Arithmetic, Abs!Goto
  <2> QED
    BY <2>5 DEF Abs!Next
<1>10. CASE binadd
  <2>1. Op.typ = "BINADD"
    BY <1>10 DEF binadd, Dispatch
  <2>2. Word(1) + Word(0) = Abs!Arg0 + Abs!Arg1 /\ Word(1) + Word(0) \in Int
    BY <1>b, <1>d, <2>1
  <2>3. Abs!Execute("BINADD", <<Wrap(Word(1) + Word(0))>>)
    BY <1>10, <1>p, <2>2, WrapType
       DEF binadd, Writes, get_stack_delta, Operands
  <2>4. Abs!Arithmetic
    BY <1>10, <2>2, <2>3, SameOperators
       DEF binadd, Advance, data, Abs!Arithmetic, Abs!Goto
  <2> QED
    BY <2>4 DEF Abs!Next
<1>11. CASE put
  <2>1. Abs!Execute("PUT", <<>>) /\ Op.typ = "PUT"
    BY <1>11, <1>q, DispatchReady DEF put, get_stack_delta, Operands
  <2>2. Abs!Put
    BY <1>11, <1>b, <2>1, SameOperators DEF put, Advance, Abs!Put, Abs!Goto
  <2> QED
    BY <2>2 DEF Abs!Next
<1>12. CASE jmp
  <2>1. Abs!Execute("JMP", <<>>)
    BY <1>12, <1>q DEF jmp, get_stack_delta, Operands
  <2>2. Abs!Jump
    BY <1>12, <2>1, SameOperators DEF jmp, data, Abs!Jump, Abs!Goto
  <2> QED
    BY <2>2 DEF Abs!Next
<1>13. CASE cjmp
  <2>1. Abs!Execute("CJMP", <<>>) /\ Op.typ = "CJMP"
    BY <1>13, <1>q, DispatchReady DEF cjmp, get_stack_delta, Operands
  <2>2. Abs!Jump
    BY <1>13, <1>c, <2>1, SameOperators DEF cjmp, data, Abs!Jump, Abs!Goto
  <2> QED
    BY <2>2 DEF Abs!Next
<1>14. CASE halt
  <2>1. Abs!Execute("HALT", <<>>)
    BY <1>14, <1>q DEF halt, get_stack_delta, Operands
  <2>2. Abs!Halt
    BY <1>14, <2>1 DEF halt, data, Abs!Halt
  <2> QED
    BY <2>2 DEF Abs!Next
<1>15. CASE Fault
  <2>1. pc \in DOMAIN codes /\ ~ArrayDefined
    BY <1>15, StackDefinedHere DEF Fault, Defined, Inv, TypeOK
  <2>2. /\ Op.typ \in {"LOAD_ARR", "STORE_ARR"}
        /\ ~Abs!InBounds(Abs!Arg0)
    BY <1>a, <1>c, <2>1, SameOperators DEF ArrayDefined, Abs!InBounds
  <2>3. Abs!Ready("LOAD_ARR") \/ Abs!Ready("STORE_ARR")
    BY <1>15, <2>1, <2>2, OperandsOnStack, SameOperators
       DEF Fault, Abs!Ready
  <2>4. OpcodeStack' = OpcodeStack
    BY <1>15 DEF Fault, OpcodeStack
  <2>5. Abs!BadIndex
    BY <1>15, <2>2, <2>3, <2>4 DEF Fault, data, Abs!BadIndex
  <2> QED
    BY <2>5 DEF Abs!Next
<1>16. CASE UNCHANGED vars
  BY <1>16 DEF vars, Abs!vars, OpcodeStack
<1> QED
  BY <1>1, <1>2, <1>3, <1>4, <1>5, <1>6, <1>7, <1>8, <1>9, <1>10, <1>11,
     <1>12, <1>13, <1>14, <1>15, <1>16 DEF Next

(* The handlers of vm.c, given certified code, do what the comments of      *)
(* opcodes.h say of their opcodes.                                          *)
THEOREM Refinement == Spec => ImplementsOpcodes
<1>1. Spec => Abs!Spec
  BY RefinesInit, RefinesNext, Safety, PTL DEF Spec, Abs!Spec
<1> QED
  BY <1>1 DEF ImplementsOpcodes
=============================================================================
