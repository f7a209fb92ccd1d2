------------------------------ MODULE TreeWalks ------------------------------
(***************************************************************************)
(* The recursive functions of parser.c over the trees it builds: whether   *)
(* two operands count as equal, and how many blocks of memory freeing an   *)
(* expression or a block of statements gives back.                         *)
(***************************************************************************)
EXTENDS Ast, SequencesExt

RECURSIVE is_operand_eq(_, _)

(* Mutant: the constants are not compared either.                           *)
is_expr_eq_NoConstant(e, f) ==
  /\ Len(e.terms) = Len(f.terms)
  /\ \A i \in DOMAIN e.terms : is_operand_eq(e.terms[i].operand, f.terms[i].operand)

(* Term by term, but the coefficients are not looked at.                    *)
is_expr_eq(e, f) ==
  /\ Len(e.terms) = Len(f.terms)
  /\ e.constant = f.constant
  /\ \A i \in DOMAIN e.terms : is_operand_eq(e.terms[i].operand, f.terms[i].operand)

is_operand_eq(o, p) ==
  /\ o.typ = p.typ
  /\ o.decl = p.decl
  /\ o.typ = "ARR_ELEM" => is_expr_eq(o.idx, p.idx)

-----------------------------------------------------------------------------
RECURSIVE free_expr(_), free_stmts(_)

free_operand(op) == IF op.typ = "ARR_ELEM" THEN free_expr(op.idx) ELSE 0

free_expr(e) == 1 + FoldLeft(LAMBDA n, t : n + free_operand(t.operand), 0, e.terms)

free_stmt(s) ==
  CASE s.typ = "YOSORO" -> free_expr(s.expr)
    [] s.typ = "SET" -> free_operand(s.operand) + free_expr(s.expr)
    [] s.typ \in {"IHU", "WHILE"} ->
         free_expr(s.cond.left) + free_expr(s.cond.right) + free_stmts(s.stmts)
    [] s.typ = "HOR" ->
         free_operand(s.var) + free_expr(s.start) + free_expr(s.end) + free_stmts(s.stmts)

free_stmts(ss) == 1 + FoldLeft(LAMBDA n, s : n + free_stmt(s), 0, ss)
=============================================================================
