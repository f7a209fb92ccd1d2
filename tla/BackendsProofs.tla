--------------------------- MODULE BackendsProofs ---------------------------
(***************************************************************************)
(* Proofs about the compiling build: what codegen.c owes the machine and   *)
(* what vm.c needs of its code are proved in CodeGenProofs and in          *)
(* CertifiedVMProofs; here the two are put together.  The machine, which   *)
(* checks nothing, runs generated code safely, for every set of programs,  *)
(* every declaration, every width of int and short, every size of the stack*)
(* and whatever values the program computes.                               *)
(***************************************************************************)
EXTENDS Backends, TLAPS

GP == INSTANCE CodeGenProofs WITH todo <- gTodo

(* The code that has a certificate, by the deltas of its instructions, for  *)
(* a stack of Cap words.                                                    *)
Compiled == {p \in Seq(GP!OpSet) : GP!Certified(p, GP!PrefixDepth(p), Cap)}

VP == INSTANCE CertifiedVMProofs WITH
        ints <- vInts, arrs <- vArrs, out <- vOut, status <- vStatus,
        Programs <- Compiled, DepthOf <- GP!PrefixDepth

(* The code is short enough for the short that holds a jump offset, and its *)
(* expressions are not nested deeper than Stack.bottom.                     *)
CodeFits ==
  /\ G!OffsetsFit
  /\ \A i \in DOMAIN codes : G!PrefixDepth(codes)[i] <= Cap

(* The machine has stopped only at the last instruction.                    *)
HaltedAtHalt == vStatus = "halted" => codes[pc].typ = "HALT"

Running == VP!Inv /\ HaltedAtHalt

(* The machine waits for the code; once it has it, and the code fits, it    *)
(* runs certified code.                                                     *)
Inv == GP!Inv /\ (V!Boot \/ (G!Done /\ (CodeFits => Running)))

-----------------------------------------------------------------------------
(* What the two parts assume of their constants.                            *)
LEMMA SameInts == GP!IntW = IntW /\ VP!IntW = IntW
  BY DEF GP!IntW, VP!IntW, IntW

LEMMA SameTrees ==
  /\ GP!TreeOperands = TreeOperands
  /\ GP!TreeTerms = TreeTerms
  /\ GP!TreeConds = TreeConds
  BY DEF GP!TreeOperands, GP!TreeTerms, GP!TreeConds, GP!IntW, GP!CmpType,
         TreeOperands, TreeTerms, TreeConds, IntW, CmpType

LEMMA GeneratorNext ==
  ASSUME GP!NoneVanishes, GP!Inv, [GP!Next]_(GP!vars) PROVE GP!Inv'
  BY GP!NextInv, SameInts, SameTrees, HalfAssumption, DeclAssumption,
     ExprsAssumption, StmtsAssumption, SourcesAssumption, ShortAssumption

(* The generator's certificate is the one the machine needs.                *)
LEMMA SameCertificate ==
  ASSUME NEW p, NEW depth, NEW capacity
  PROVE  GP!Certified(p, depth, capacity) = VP!Certified(p, depth, capacity)
  BY DEF GP!Certified, VP!Certified, GP!WellFormed, VP!WellFormed,
         GP!OpCodeType, VP!OpCodeType, GP!Jumps, VP!Jumps, GP!IntW, VP!IntW,
         GP!CmpType, VP!CmpType, GP!Operands, VP!Operands,
         GP!Successors, VP!Successors, GP!get_stack_delta, VP!get_stack_delta

LEMMA CompiledPrograms ==
  \A p \in Compiled :
    /\ p \in Seq({p[i] : i \in DOMAIN p})
    /\ VP!Certified(p, GP!PrefixDepth(p), Cap)
  <1>1. ASSUME NEW A, NEW p \in Seq(A) PROVE p \in Seq({p[i] : i \in DOMAIN p})
    OBVIOUS
  <1>2. \A p \in Compiled : p \in Seq({p[i] : i \in DOMAIN p})
    BY <1>1 DEF Compiled
  <1>3. \A p \in Compiled : VP!Certified(p, GP!PrefixDepth(p), Cap)
    BY SameCertificate DEF Compiled
  <1>4. QED
    BY <1>2, <1>3

LEMMA MachineInit ==
  ASSUME codes \in Compiled, VP!Boot PROVE VP!Inv
  BY VP!InitInv, CompiledPrograms, SameInts, HalfAssumption, DeclAssumption,
     MachineAssumption DEF VP!Init

LEMMA MachineNext ==
  ASSUME VP!Inv, [VP!Next]_(VP!vars) PROVE VP!Inv'
  BY VP!NextInv, CompiledPrograms, SameInts, HalfAssumption, DeclAssumption,
     MachineAssumption

LEMMA MachineStack ==
  ASSUME VP!Inv PROVE VP!StackDefined
  BY VP!StackDefinedHere, CompiledPrograms, SameInts, HalfAssumption, DeclAssumption,
     MachineAssumption

LEMMA GeneratorInit ==
  ASSUME GP!Init PROVE GP!Inv
  BY GP!InitInv, SameInts, SameTrees, HalfAssumption, DeclAssumption,
     ExprsAssumption, StmtsAssumption, SourcesAssumption, ShortAssumption

-----------------------------------------------------------------------------
(* The steps of the builds are the steps of the parts.                      *)
LEMMA SameExprCalls == \A e : G!ExprCalls(e) = GP!ExprCalls(e)
  BY DEF G!ExprCalls, GP!ExprCalls, G!GenLoad, GP!GenLoad, G!gen_cmul,
         GP!gen_cmul, G!gen_constant, GP!gen_constant, G!GenTerms,
         GP!GenTerms, G!Emit, GP!Emit, G!LOAD_CONST, GP!LOAD_CONST, G!INCR,
         GP!INCR, G!CMUL, GP!CMUL

LEMMA SameTermsCalls == \A f : G!TermsCalls(f) = GP!TermsCalls(f)
  BY DEF G!TermsCalls, GP!TermsCalls, G!GenLoad, GP!GenLoad, G!gen_group,
         GP!gen_group, G!gen_adds, GP!gen_adds, G!gen_cmul, GP!gen_cmul,
         G!GenTerms, GP!GenTerms, G!Emit, GP!Emit, G!BINADD, GP!BINADD,
         G!CMUL, GP!CMUL

LEMMA SameStmtCalls == \A s : G!StmtCalls(s) = GP!StmtCalls(s)
  BY DEF G!StmtCalls, GP!StmtCalls, G!gen_cond, GP!gen_cond, G!GenExpr,
         GP!GenExpr, G!GenLoad, GP!GenLoad, G!GenStore, GP!GenStore,
         G!GenStmts, GP!GenStmts, G!Emit, GP!Emit, G!EmitJump, GP!EmitJump,
         G!MarkEnd, GP!MarkEnd, G!PatchSkip, GP!PatchSkip, G!PatchLoop,
         GP!PatchLoop, G!reverse_cmp_typ, GP!reverse_cmp_typ, G!JMP, GP!JMP,
         G!CJMP, GP!CJMP, G!INCR, GP!INCR, G!PUT, GP!PUT, G!CMP_LE,
         GP!CMP_LE

LEMMA GeneratorStep == G!Next => GP!Next
  <1>1. /\ G!emit => GP!emit
        /\ G!emit_jump => GP!emit_jump
        /\ G!mark_end => GP!mark_end
    BY DEF G!emit, GP!emit, G!emit_jump, GP!emit_jump, G!mark_end,
           GP!mark_end, G!Call, GP!Call, G!Becomes, GP!Becomes
  <1>2. G!gen_expr => GP!gen_expr
    BY SameExprCalls DEF G!gen_expr, GP!gen_expr, G!Call, GP!Call, G!Becomes, GP!Becomes
  <1>3. G!gen_terms => GP!gen_terms
    BY SameTermsCalls DEF G!gen_terms, GP!gen_terms, G!Call, GP!Call, G!Becomes, GP!Becomes
  <1>4. G!gen_load_operand => GP!gen_load_operand
    BY DEF G!gen_load_operand, GP!gen_load_operand, G!Call, GP!Call,
           G!Becomes, GP!Becomes, G!LOAD_INT, GP!LOAD_INT, G!LOAD_ARR,
           GP!LOAD_ARR, G!GenExpr, GP!GenExpr, G!Emit, GP!Emit
  <1>5. G!gen_store_operand => GP!gen_store_operand
    BY DEF G!gen_store_operand, GP!gen_store_operand, G!Call, GP!Call,
           G!Becomes, GP!Becomes, G!StoreInt, GP!StoreInt, G!Fuse, GP!Fuse,
           G!FusesInci, GP!FusesInci, G!FusesSeti, GP!FusesSeti, G!INCI,
           GP!INCI, G!SETI, GP!SETI, G!STORE_INT, GP!STORE_INT, G!STORE_ARR,
           GP!STORE_ARR, G!GenExpr, GP!GenExpr, G!Emit, GP!Emit
  <1>6. G!gen_stmts => GP!gen_stmts
    BY SameStmtCalls DEF G!gen_stmts, GP!gen_stmts, G!Call, GP!Call, G!Becomes,
           GP!Becomes, G!GenStmts, GP!GenStmts
  <1>7. /\ G!patch_skip => GP!patch_skip
        /\ G!patch_loop => GP!patch_loop
    BY DEF G!patch_skip, GP!patch_skip, G!patch_loop, GP!patch_loop,
           G!Entry, GP!Entry, G!ToShort, GP!ToShort, G!Front, GP!Front,
           G!Last, GP!Last, G!Call, GP!Call, G!Becomes, GP!Becomes
  <1>8. QED
    BY <1>1, <1>2, <1>3, <1>4, <1>5, <1>6, <1>7 DEF G!Next, GP!Next

LEMMA MachineBoot == V!Boot => VP!Boot
  BY DEF V!Boot, VP!Boot, V!Addr, VP!Addr, V!InitInts, VP!InitInts,
         V!InitArrs, VP!InitArrs, V!Cells, VP!Cells

LEMMA SameDispatch == \A typ : V!Dispatch(typ) = VP!Dispatch(typ)
  BY DEF V!Dispatch, VP!Dispatch, V!Defined, VP!Defined, V!StackDefined,
         VP!StackDefined, V!ArrayDefined, VP!ArrayDefined, V!Op, VP!Op,
         V!Moved, VP!Moved, V!Word, VP!Word, V!Reads, VP!Reads, V!Writes,
         VP!Writes, V!Addr, VP!Addr, V!get_stack_delta, VP!get_stack_delta,
         V!CellOf, VP!CellOf, V!Cells, VP!Cells, V!IntW, VP!IntW

LEMMA MachineStep == V!Next => VP!Next
  BY SameDispatch
     DEF V!Next, VP!Next, V!load_const, VP!load_const, V!load_int,
         VP!load_int, V!load_arr, VP!load_arr, V!store_int, VP!store_int,
         V!store_arr, VP!store_arr, V!seti, VP!seti, V!incr, VP!incr,
         V!inci, VP!inci, V!cmul, VP!cmul, V!binadd, VP!binadd, V!put,
         VP!put, V!jmp, VP!jmp, V!cjmp, VP!cjmp, V!halt, VP!halt, V!Fault,
         VP!Fault, V!Advance, VP!Advance, V!SetTop, VP!SetTop, V!data,
         VP!data, V!Defined, VP!Defined, V!StackDefined, VP!StackDefined,
         V!ArrayDefined, VP!ArrayDefined, V!Op, VP!Op, V!Moved, VP!Moved,
         V!Word, VP!Word, V!Reads, VP!Reads, V!Writes, VP!Writes, V!Addr,
         VP!Addr, V!get_stack_delta, VP!get_stack_delta, V!CellOf,
         VP!CellOf, V!Cells, VP!Cells, V!IntW, VP!IntW, V!SetCell,
         VP!SetCell, V!Wrap, VP!Wrap, V!do_cmp, VP!do_cmp
-----------------------------------------------------------------------------
(* The finished code is certified for the stack it fits.                    *)
LEMMA FinishedIsCompiled ==
  ASSUME GP!Inv, G!Done, CodeFits
  PROVE  codes \in Compiled
  <1>1. GP!OffsetsFit /\ GP!Done
    BY DEF CodeFits, G!OffsetsFit, GP!OffsetsFit, G!Done, GP!Done
  <1>2. G!PrefixDepth(codes) = GP!PrefixDepth(codes)
    BY DEF G!PrefixDepth, GP!PrefixDepth, G!get_stack_delta,
           GP!get_stack_delta
  <1>3. Cap \in Nat /\ \A i \in DOMAIN codes : GP!PrefixDepth(codes)[i] <= Cap
    BY <1>2, MachineAssumption DEF CodeFits
  <1>4. GP!Certified(codes, GP!PrefixDepth(codes), Cap)
    BY <1>1, <1>3, GP!InvFits, SameInts, SameTrees, HalfAssumption, DeclAssumption,
       ExprsAssumption, StmtsAssumption, SourcesAssumption, ShortAssumption
  <1>5. codes \in Seq(GP!OpSet)
    BY DEF GP!Inv, GP!Shape
  <1>6. QED
    BY <1>4, <1>5 DEF Compiled

(* What it stops at leaves nothing on the stack.                            *)
LEMMA HaltBalanced ==
  ASSUME GP!Inv, G!Done, NEW i \in DOMAIN codes, codes[i].typ = "HALT"
  PROVE  GP!PrefixDepth(codes)[i] = 0
  BY GP!InvHalt, SameInts, SameTrees, HalfAssumption, DeclAssumption,
     ExprsAssumption, StmtsAssumption, SourcesAssumption, ShortAssumption
     DEF G!Done, GP!Done

(* The machine starts on code that is certified if it fits.                 *)
LEMMA BootRuns ==
  ASSUME GP!Inv, G!Done, V!Boot, CodeFits
  PROVE  Running
  <1>1. VP!Inv
    BY FinishedIsCompiled, MachineBoot, MachineInit
  <1>2. HaltedAtHalt
    BY DEF V!Boot, HaltedAtHalt
  <1>3. QED
    BY <1>1, <1>2 DEF Running

-----------------------------------------------------------------------------
(* The invariant.                                                           *)
LEMMA InitInv == Init => Inv
  <1> SUFFICES ASSUME Init PROVE Inv
    OBVIOUS
  <1>1. GP!Init
    BY DEF Init, G!Init, GP!Init, G!cg_gen, GP!cg_gen, G!cg_init, GP!cg_init,
           G!GenStmts, GP!GenStmts, G!Emit, GP!Emit, G!HALT, GP!HALT
  <1>2. QED
    BY <1>1, GeneratorInit DEF Init, Inv

(* Interpreting changes no program.                                         *)
LEMMA InterpreterStep == I!Next => UNCHANGED src
  BY DEF I!Next, I!execute_yosoro, I!execute_set, I!execute_ihu, I!execute_while,
         I!execute_hor, I!hor_loop, I!execute_stmts_return,
         I!interpreter_execute_return, I!Fault, I!Execute

(* What the machine's part of the invariant speaks about.                   *)
LEMMA MachineUnchanged ==
  ASSUME UNCHANGED <<codes, machine>>
  PROVE  /\ V!Boot' = V!Boot
         /\ CodeFits' = CodeFits
         /\ Running' = Running
  <1>1. UNCHANGED <<codes, pc, top, bottom, vInts, vArrs, vOut, vStatus>>
    BY DEF machine
  <1>2. V!Boot' = V!Boot
    BY <1>1 DEF V!Boot
  <1>3. CodeFits' = CodeFits
    BY <1>1 DEF CodeFits, G!OffsetsFit
  <1>4. Running' = Running
    BY <1>1 DEF Running, HaltedAtHalt, VP!Inv, VP!TypeOK, VP!DepthAgrees, VP!Depth,
                VP!LiveWordsWritten, VP!IsArrStore
  <1>5. QED
    BY <1>2, <1>3, <1>4

LEMMA GeneratorUnchanged ==
  ASSUME UNCHANGED <<src, codes, generator>>
  PROVE  UNCHANGED GP!vars /\ G!Done' = G!Done
  BY DEF generator, GP!vars, G!Done

(* The interpreter shares nothing with the other two.                       *)
LEMMA InterpreterInv ==
  ASSUME GP!NoneVanishes, Inv, interpreter_execute PROVE Inv'
  <1>1. UNCHANGED <<src, codes, generator>> /\ UNCHANGED <<codes, machine>>
    BY InterpreterStep DEF interpreter_execute
  <1>2. GP!Inv'
    BY <1>1, GeneratorUnchanged, GeneratorNext DEF Inv
  <1>3. QED
    BY <1>1, <1>2, GeneratorUnchanged, MachineUnchanged DEF Inv

(* While code is generated the machine waits.                               *)
LEMMA GeneratorInv ==
  ASSUME GP!NoneVanishes, Inv, cg_gen PROVE Inv'
  <1>1. G!Next /\ UNCHANGED <<interpreter, machine>>
    BY DEF cg_gen
  <1>2. GP!Inv'
    BY <1>1, GeneratorStep, GeneratorNext DEF Inv
  <1>3. ~G!Done
    BY <1>1 DEF G!Next, G!emit, G!emit_jump, G!mark_end, G!gen_expr, G!gen_terms,
                G!gen_load_operand, G!gen_store_operand, G!gen_stmts, G!patch_skip,
                G!patch_loop, G!Call, G!Done
  <1>4. V!Boot'
    BY <1>1, <1>3 DEF Inv, machine, V!Boot
  <1>5. QED
    BY <1>2, <1>4 DEF Inv

(* A step of the machine is one of a machine that runs certified code.      *)
LEMMA MachineInv ==
  ASSUME GP!NoneVanishes, Inv, cyr_vm_execute PROVE Inv'
  <1>1. G!Done /\ V!Next /\ UNCHANGED <<src, interpreter, generator>>
    BY DEF cyr_vm_execute
  <1>2. codes' = codes
    BY <1>1 DEF V!Next, V!load_const, V!load_int, V!load_arr, V!store_int, V!store_arr,
                V!seti, V!incr, V!inci, V!cmul, V!binadd, V!put, V!jmp, V!cjmp,
                V!halt, V!Fault, V!Dispatch
  <1>3. UNCHANGED GP!vars /\ G!Done' /\ CodeFits' = CodeFits
    BY <1>1, <1>2, GeneratorUnchanged DEF CodeFits, G!OffsetsFit
  <1>4. GP!Inv'
    BY <1>3, GeneratorNext DEF Inv
  <1>5. ASSUME CodeFits PROVE Running'
    <2>1. Running
      BY <1>1, <1>5, BootRuns DEF Inv
    <2>2. VP!Inv'
      BY <1>1, <2>1, MachineStep, MachineNext DEF Running
    <2>3. HaltedAtHalt'
      <3>1. CASE V!halt
        BY <1>2, <3>1 DEF V!halt, V!Dispatch, V!Op, HaltedAtHalt
      <3>2. CASE ~V!halt
        <4>1. vStatus = "running" /\ vStatus' \in {"running", "undefined"}
          BY <1>1, <3>2
             DEF V!Next, V!load_const, V!load_int, V!load_arr, V!store_int, V!store_arr,
                 V!seti, V!incr, V!inci, V!cmul, V!binadd, V!put, V!jmp, V!cjmp,
                 V!Fault, V!Dispatch, V!Advance
        <4>2. QED
          BY <4>1 DEF HaltedAtHalt
      <3>3. QED
        BY <3>1, <3>2
    <2>4. QED
      BY <2>2, <2>3 DEF Running
  <1>6. QED
    BY <1>3, <1>4, <1>5 DEF Inv

LEMMA NextInv ==
  ASSUME GP!NoneVanishes, Inv, [Next]_vars PROVE Inv'
  <1>1. CASE UNCHANGED vars
    <2>1. UNCHANGED <<src, codes, generator>> /\ UNCHANGED <<codes, machine>>
      BY <1>1 DEF vars
    <2>2. GP!Inv'
      BY <2>1, GeneratorUnchanged, GeneratorNext DEF Inv
    <2>3. QED
      BY <2>1, <2>2, GeneratorUnchanged, MachineUnchanged DEF Inv
  <1>2. QED
    BY <1>1, InterpreterInv, GeneratorInv, MachineInv DEF Next

(* The generator completes certified code, and the machine runs it as the   *)
(* certificate says.                                                        *)
THEOREM Safety ==
  ASSUME GP!NoneVanishes PROVE Spec => []Inv
  <1>1. Init => Inv
    BY InitInv
  <1>2. Inv /\ [Next]_vars => Inv'
    BY NextInv
  <1>3. QED
    BY <1>1, <1>2, PTL DEF Spec

(* Certified code uses the stack as it should.                              *)
LEMMA InvRespected ==
  ASSUME Inv, CodeFits PROVE StackRespected
  <1> SUFFICES ASSUME G!Done
               PROVE  /\ pc \in DOMAIN codes
                      /\ V!StackDefined
                      /\ vStatus = "halted" => top = Cap - 1
    BY DEF StackRespected
  <1>1. GP!Inv /\ Running
    BY BootRuns DEF Inv
  <1>2. pc \in DOMAIN codes
    BY <1>1 DEF Running, VP!Inv, VP!TypeOK
  <1>3. V!StackDefined
    <2>1. VP!StackDefined
      BY <1>1, MachineStack DEF Running
    <2>2. VP!StackDefined = V!StackDefined
      BY DEF V!StackDefined, VP!StackDefined, V!Op, VP!Op, V!Moved, VP!Moved,
             V!Word, VP!Word, V!Reads, VP!Reads, V!Writes, VP!Writes, V!Addr, VP!Addr,
             V!IntW, VP!IntW, V!get_stack_delta, VP!get_stack_delta
    <2>3. QED
      BY <2>1, <2>2
  <1>4. vStatus = "halted" => top = Cap - 1
    <2>1. vStatus = "halted" => GP!PrefixDepth(codes)[pc] = 0
      BY <1>1, <1>2, HaltBalanced DEF Running, HaltedAtHalt
    <2>2. top = Cap - 1 - GP!PrefixDepth(codes)[pc]
      BY <1>1 DEF Running, VP!Inv, VP!DepthAgrees, VP!Depth
    <2>3. QED
      BY <2>1, <2>2, MachineAssumption
  <1>5. QED
    BY <1>2, <1>3, <1>4

(* cyr_vm_execute checks nothing, and need not: of the code that cg_gen     *)
(* completes no instruction overflows or underflows Stack.bottom or reads a *)
(* word of it that nobody wrote, no jump leaves the code, and a program     *)
(* ends with an empty stack.                                                *)
THEOREM GeneratedCodeIsSafe ==
  ASSUME GP!NoneVanishes PROVE Spec => [](CodeFits => StackRespected)
  <1>1. Inv => (CodeFits => StackRespected)
    BY InvRespected
  <1>2. QED
    BY <1>1, Safety, PTL
=============================================================================
