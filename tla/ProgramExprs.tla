----------------------------- MODULE ProgramExprs -----------------------------
(***************************************************************************)
(* The expressions that occur in a program, the indices of array elements  *)
(* included, which is the domain of the interpreter's eval_expr, how deep  *)
(* these nest, whether an array element cancels out in one of them, and    *)
(* the statements, those of blocks included.                               *)
(***************************************************************************)
EXTENDS Ast

RECURSIVE ExprsIn(_), StmtExprs(_)
ExprsIn(e) ==
  {e} \cup UNION {ExprsIn(e.terms[i].operand.idx) :
                  i \in {j \in DOMAIN e.terms :
                           e.terms[j].operand.typ = "ARR_ELEM"}}

OperandExprs(o) == IF o.typ = "ARR_ELEM" THEN ExprsIn(o.idx) ELSE {}

StmtExprs(ss) ==
  UNION {LET s == ss[i] IN
         CASE s.typ \in {"IHU", "WHILE"} ->
                ExprsIn(s.cond.left) \cup ExprsIn(s.cond.right)
                \cup StmtExprs(s.stmts)
           [] s.typ = "HOR" ->
                OperandExprs(s.var) \cup ExprsIn(s.start) \cup ExprsIn(s.end)
                \cup StmtExprs(s.stmts)
           [] s.typ = "YOSORO" -> ExprsIn(s.expr)
           [] s.typ = "SET" -> OperandExprs(s.operand) \cup ExprsIn(s.expr) :
         i \in DOMAIN ss}

(* x - x over array elements: merging left the term with a coefficient 0.   *)
CancelsElement(ss) ==
  \E e \in StmtExprs(ss) : \E i \in DOMAIN e.terms :
    e.terms[i].coefficient = 0 /\ e.terms[i].operand.typ = "ARR_ELEM"

RECURSIVE NestedIn(_)
NestedIn(e) ==
  LET inner == {NestedIn(e.terms[i].operand.idx) :
                i \in {j \in DOMAIN e.terms : e.terms[j].operand.typ = "ARR_ELEM"}}
  IN  IF inner = {} THEN 0 ELSE 1 + (CHOOSE n \in inner : \A m \in inner : m <= n)

RECURSIVE StmtsIn(_)
StmtsIn(ss) ==
  UNION {{ss[i]} \cup (IF ss[i].typ \in {"IHU", "WHILE", "HOR"}
                      THEN StmtsIn(ss[i].stmts) ELSE {}) : i \in DOMAIN ss}
=============================================================================
