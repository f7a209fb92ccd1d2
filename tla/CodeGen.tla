------------------------------- MODULE CodeGen -------------------------------
(***************************************************************************)
(* The code generator of codegen.c: one pass over the statements that      *)
(* appends instructions, fuses the last ones when it stores into an int    *)
(* variable, and patches the jumps of a block once its end is known.       *)
(*                                                                         *)
(* The recursion of the C functions is made explicit.  todo is what is     *)
(* left of the calls on the C stack, first call first; holes are their     *)
(* locals try_skip and jmp_cond / try_continue, innermost last.            *)
(***************************************************************************)
EXTENDS Trees, Bytecode, SequencesExt

CONSTANT
  ShortHalf   \* a jump offset is stored in a short: -ShortHalf .. ShortHalf-1

ASSUME ShortHalfAssumption == ShortHalf \in Nat \ {0}

VARIABLES
  src,        \* cg->stmts
  codes,      \* cg->codes
  todo,       \* the calls still to be made
  holes,      \* addresses of the jumps whose offset is still to be patched
  stmts_end   \* end of the body of the loop whose condition comes next, or 0

vars == <<src, codes, todo, holes, stmts_end>>

(* Mutant: the offset is kept in an int.                                    *)
ToShort_Int(n) == n

ToShort(n) == ((n + ShortHalf) % (2 * ShortHalf)) - ShortHalf

-----------------------------------------------------------------------------
(* The calls.                                                               *)

Emit(op)     == [call |-> "emit", op |-> op]
EmitJump(op) == [call |-> "emit_jump", op |-> op]
GenExpr(e)   == [call |-> "gen_expr", expr |-> e]
GenLoad(o)   == [call |-> "gen_load_operand", operand |-> o]
GenStore(o)  == [call |-> "gen_store_operand", operand |-> o]
GenStmts(ss) == [call |-> "gen_stmts", stmts |-> ss]

(* The loop of gen_expr over the terms that remain.  Of the stack_items it  *)
(* has on the stack, the last group_size have the coefficient current_coeff.*)
GenTerms(terms, current_coeff, group_size, stack_items) ==
  [call |-> "gen_terms", terms |-> terms, current_coeff |-> current_coeff,
   group_size |-> group_size, stack_items |-> stack_items]

MarkEnd      == [call |-> "mark_end"]
PatchSkip    == [call |-> "patch_skip"]
PatchLoop    == [call |-> "patch_loop"]

(* Mutant: the left operand is pushed first.                                *)
gen_cond_LeftFirst(cond, cmp) ==
  <<GenExpr(cond.left), GenExpr(cond.right), EmitJump(CJMP(cmp, 0))>>

(* The right operand is pushed first, so that the left one is on top.       *)
gen_cond(cond, cmp) ==
  <<GenExpr(cond.right), GenExpr(cond.left), EmitJump(CJMP(cmp, 0))>>

(* Mutant: one addition per term.                                           *)
gen_adds_PerTerm(term_cnts) == [i \in 1 .. term_cnts |-> Emit(BINADD)]

gen_adds(term_cnts) == [i \in 1 .. (term_cnts - 1) |-> Emit(BINADD)]

(* Mutant: a comment has "if the coefficient is neither 1 nor -1".          *)
gen_cmul_NotMinusOne(coeff) ==
  IF coeff \notin {1, -1} THEN <<Emit(CMUL(coeff))>> ELSE <<>>

gen_cmul(coeff) == IF coeff # 1 THEN <<Emit(CMUL(coeff))>> ELSE <<>>

(* The end of a run of size terms with coefficient coeff.                   *)
gen_group(coeff, size) == gen_adds(size) \o gen_cmul(coeff)

gen_constant(e) == IF e.constant # 0 THEN <<Emit(LOAD_CONST(e.constant))>> ELSE <<>>

(* The constant alone, one term and the constant, or a sum.                 *)
ExprCalls(e) ==
  CASE e.terms = <<>> ->
         <<Emit(LOAD_CONST(e.constant))>>
    [] /\ Len(e.terms) = 1
       /\ e.constant # 0
       /\ e.terms[1].coefficient # 0 ->
         <<GenLoad(e.terms[1].operand)>> \o gen_cmul(e.terms[1].coefficient)
         \o <<Emit(INCR(e.constant))>>
    [] OTHER ->
         gen_constant(e) \o <<GenTerms(e.terms, 0, 0, Len(gen_constant(e)))>>

(* A term is loaded, at the end of a run the run is added up and multiplied,*)
(* and in the end everything left on the stack is added up.                 *)
TermsCalls(f) ==
  LET rest == Tail(f.terms)
      coeff == Head(f.terms).coefficient
      load == GenLoad(Head(f.terms).operand)
      items == f.stack_items - f.group_size + 1   \* once the group is added up
  IN  CASE f.terms = <<>> /\ f.group_size = 0 -> <<>>
        [] f.terms = <<>> /\ f.group_size > 0 ->
             gen_group(f.current_coeff, f.group_size) \o gen_adds(items)
        [] f.terms # <<>> /\ coeff = 0 ->
             <<GenTerms(rest, f.current_coeff, f.group_size, f.stack_items)>>
        [] f.terms # <<>> /\ coeff # 0 /\ (f.group_size = 0 \/ coeff = f.current_coeff) ->
             <<load, GenTerms(rest, coeff, f.group_size + 1, f.stack_items + 1)>>
        [] f.terms # <<>> /\ coeff # 0 /\ f.group_size > 0 /\ coeff # f.current_coeff ->
             gen_group(f.current_coeff, f.group_size)
             \o <<load, GenTerms(rest, coeff, 1, items + 1)>>

reverse_cmp_typ(cmp) == (0 .. 2) \ cmp

StmtCalls(s) ==
  CASE s.typ = "IHU" ->
         gen_cond(s.cond, reverse_cmp_typ(s.cond.typ))
         \o <<GenStmts(s.stmts), PatchSkip>>
    [] s.typ = "WHILE" ->
         <<EmitJump(JMP(0)), GenStmts(s.stmts), MarkEnd>>
         \o gen_cond(s.cond, s.cond.typ) \o <<PatchLoop>>
    [] s.typ = "HOR" ->
         <<GenExpr(s.start), GenStore(s.var), EmitJump(JMP(0)), GenStmts(s.stmts)>>
         \o <<GenLoad(s.var), Emit(INCR(1)), GenStore(s.var), MarkEnd>>
         \o <<GenExpr(s.end), GenLoad(s.var), EmitJump(CJMP(CMP_LE, 0)), PatchLoop>>
         \o <<GenExpr(s.end), GenStore(s.var)>>
    [] s.typ = "YOSORO" -> <<GenExpr(s.expr), Emit(PUT)>>
    [] s.typ = "SET" -> <<GenExpr(s.expr), GenStore(s.operand)>>

-----------------------------------------------------------------------------
(* cg_init and the call of cg_gen.                                          *)
cg_gen(ss) == <<GenStmts(ss), Emit(HALT)>>

cg_init ==
  /\ codes = <<>>
  /\ holes = <<>>
  /\ stmts_end = 0

Init == src \in Sources /\ todo = cg_gen(src) /\ cg_init

Call(name) == todo # <<>> /\ Head(todo).call = name

(* The call at the head of todo turns into other calls.                     *)
Becomes(calls) == todo' = calls \o Tail(todo) /\ UNCHANGED src

emit ==
  /\ Call("emit")
  /\ codes' = Append(codes, Head(todo).op)
  /\ Becomes(<<>>) /\ UNCHANGED <<holes, stmts_end>>

emit_jump ==
  /\ Call("emit_jump")
  /\ codes' = Append(codes, Head(todo).op)
  /\ holes' = Append(holes, Len(codes'))
  /\ Becomes(<<>>) /\ UNCHANGED stmts_end

(* Mutant: the address after the next instruction is remembered.            *)
mark_end_Late ==
  /\ Call("mark_end")
  /\ stmts_end' = Len(codes) + 2
  /\ Becomes(<<>>) /\ UNCHANGED <<codes, holes>>

mark_end ==
  /\ Call("mark_end")
  /\ stmts_end' = Len(codes) + 1
  /\ Becomes(<<>>) /\ UNCHANGED <<codes, holes>>

gen_expr ==
  /\ Call("gen_expr")
  /\ Becomes(ExprCalls(Head(todo).expr))
  /\ UNCHANGED <<codes, holes, stmts_end>>

gen_terms ==
  /\ Call("gen_terms")
  /\ Becomes(TermsCalls(Head(todo)))
  /\ UNCHANGED <<codes, holes, stmts_end>>

gen_load_operand ==
  /\ Call("gen_load_operand")
  /\ LET o == Head(todo).operand IN
       \/ /\ o.typ = "INT_VAR"
          /\ codes' = Append(codes, LOAD_INT(o.decl))
          /\ Becomes(<<>>)
       \/ /\ o.typ = "ARR_ELEM"
          /\ Becomes(<<GenExpr(o.idx), Emit(LOAD_ARR(o.decl))>>)
          /\ UNCHANGED codes
  /\ UNCHANGED <<holes, stmts_end>>

(* LOAD_INT x, INCR c, STORE_INT x is INCI x, c.                            *)
FusesInci(x) ==
  /\ Len(codes) >= 2
  /\ codes[Len(codes)].typ = "INCR"
  /\ codes[Len(codes) - 1].typ = "LOAD_INT"
  /\ codes[Len(codes) - 1].ptr = x

(* LOAD_CONST c, STORE_INT x is SETI x, c.                                  *)
FusesSeti == Len(codes) >= 1 /\ codes[Len(codes)].typ = "LOAD_CONST"

(* Mutant: a fusion removes one instruction too many.                       *)
Fuse_OneTooMany(k, op) ==
  codes' = Append(SubSeq(codes, 1, Len(codes) - (IF k > 0 THEN k + 1 ELSE 0)), op)

(* The last k instructions give way to op.                                  *)
Fuse(k, op) == codes' = Append(SubSeq(codes, 1, Len(codes) - k), op)

StoreInt(x) ==
  LET c == codes[Len(codes)].constant IN
  \/ FusesInci(x) /\ Fuse(2, INCI(x, c))
  \/ ~FusesInci(x) /\ FusesSeti /\ Fuse(1, SETI(x, c))
  \/ ~FusesInci(x) /\ ~FusesSeti /\ Fuse(0, STORE_INT(x))

gen_store_operand ==
  /\ Call("gen_store_operand")
  /\ LET o == Head(todo).operand IN
       \/ o.typ = "INT_VAR" /\ StoreInt(o.decl) /\ Becomes(<<>>)
       \/ /\ o.typ = "ARR_ELEM"
          /\ Becomes(<<GenExpr(o.idx), Emit(STORE_ARR(o.decl))>>)
          /\ UNCHANGED codes
  /\ UNCHANGED <<holes, stmts_end>>

(* Mutant: the loop over the statements does not end.                       *)
gen_stmts_Endless ==
  /\ Call("gen_stmts")
  /\ LET ss == Head(todo).stmts IN
       \/ ss = <<>> /\ Becomes(<<GenStmts(ss)>>)
       \/ ss # <<>> /\ Becomes(Append(StmtCalls(Head(ss)), GenStmts(Tail(ss))))
  /\ UNCHANGED <<codes, holes, stmts_end>>

gen_stmts ==
  /\ Call("gen_stmts")
  /\ LET ss == Head(todo).stmts IN
       \/ ss = <<>> /\ Becomes(<<>>)
       \/ ss # <<>> /\ Becomes(Append(StmtCalls(Head(ss)), GenStmts(Tail(ss))))
  /\ UNCHANGED <<codes, holes, stmts_end>>

(* Mutant: the jump leads to the last instruction of the block.             *)
patch_skip_OneShort ==
  /\ Call("patch_skip")
  /\ LET try_skip == Last(holes) IN
       codes' = [codes EXCEPT
                   ![try_skip].offset = ToShort(Len(codes) - try_skip)]
  /\ holes' = Front(holes)
  /\ Becomes(<<>>) /\ UNCHANGED stmts_end

(* The end of an ihu block: its condition jumps here.                       *)
patch_skip ==
  /\ Call("patch_skip")
  /\ LET try_skip == Last(holes) IN
       codes' = [codes EXCEPT
                   ![try_skip].offset = ToShort(Len(codes) + 1 - try_skip)]
  /\ holes' = Front(holes)
  /\ Becomes(<<>>) /\ UNCHANGED stmts_end

(* Mutant: the jump in front of the body is forgotten.                      *)
Entry_None(jmp_cond) == 0

(* Mutant: the body is executed before the condition is looked at.          *)
Entry_Body(jmp_cond) == 1

Entry(jmp_cond) == ToShort(stmts_end - jmp_cond)

(* The end of a loop: the jump in front of the body goes to the condition,  *)
(* the condition goes back to the body.                                     *)
patch_loop ==
  /\ Call("patch_loop")
  /\ LET try_continue == Last(holes)
         jmp_cond == holes[Len(holes) - 1]
     IN  codes' = [codes EXCEPT
                     ![try_continue].offset = ToShort(jmp_cond - try_continue + 1),
                     ![jmp_cond].offset = Entry(jmp_cond)]
  /\ holes' = Front(Front(holes))
  /\ stmts_end' = 0
  /\ Becomes(<<>>)

Next ==
  \/ emit \/ emit_jump \/ mark_end
  \/ gen_expr \/ gen_terms \/ gen_load_operand \/ gen_store_operand
  \/ gen_stmts \/ patch_skip \/ patch_loop

Spec == Init /\ [][Next]_vars /\ WF_vars(Next)

Done == todo = <<>>

-----------------------------------------------------------------------------
Holes == {holes[i] : i \in DOMAIN holes}

ShortW == -ShortHalf .. (ShortHalf - 1)

(* The instructions hold operands of their C types, and what try_skip,      *)
(* jmp_cond and try_continue remember are addresses of jumps.               *)
TypeOK ==
  /\ src \in Sources
  /\ \A i \in DOMAIN codes :
       /\ WellFormed(codes[i])
       /\ codes[i].typ \in Jumps => codes[i].offset \in ShortW
  /\ \A h \in Holes : h \in DOMAIN codes /\ codes[h].typ \in Jumps
  /\ stmts_end \in 0 .. (Len(codes) + 1)

(* The addresses some jump leads to or will lead to: targets of patched     *)
(* jumps, the instruction after a loop's first jump (its body), and the end *)
(* of a loop body whose condition is being generated.                       *)
Landings ==
  {i + codes[i].offset :
     i \in {j \in DOMAIN codes : codes[j].typ \in Jumps} \ Holes}
  \cup {h + 1 : h \in Holes}
  \cup ({stmts_end} \ {0})

(* Programs short enough for the short that holds a jump offset.            *)
OffsetsFit == Len(codes) <= ShortHalf

(* Fusion looks at the last instructions whoever emitted them.  It never    *)
(* reaches across an address that a jump leads to: the fused instruction    *)
(* and everything it replaces lie at or after every such address.           *)
FusionStopsAtLandings ==
  [][Call("gen_store_operand") /\ codes' # codes /\ OffsetsFit =>
       \A t \in Landings : t <= Len(codes')]_vars

(* The finished code has a certificate: every jump was patched and leads to *)
(* an instruction, every instruction finds its operands on every path, and  *)
(* the depth of the stack at an address does not depend on the path.        *)
CodeCertified ==
  Done /\ OffsetsFit => Certified(codes, PrefixDepth(codes), Len(codes))

(* A jump leaves nothing on the stack: it leads to an address between two   *)
(* statements, or to the condition at the end of a loop.                    *)
LandingsBalanced ==
  OffsetsFit =>
    \A t \in Landings \cap DOMAIN codes : PrefixDepth(codes)[t] = 0

(* Generating code for a program ends, whatever its blocks are.             *)
GenerationEnds == <>Done

(* "PUT[num: i32] -> print_num(pop(num))" of opcodes.h: the generator puts  *)
(* a number on the stack before it emits PUT.                               *)
PutHasOperand ==
  Done => \A i \in DOMAIN codes :
            codes[i].typ = "PUT" => PrefixDepth(codes)[i] >= 1
=============================================================================
