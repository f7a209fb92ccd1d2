--------------------------------- MODULE Ast ---------------------------------
(***************************************************************************)
(* The syntax tree that the parser hands to both back ends (parser.h).  An *)
(* expression is flat: a constant plus a sum of operands with              *)
(* coefficients; only the index of an array element nests.                 *)
(***************************************************************************)
EXTENDS CyrBase

Expr(c, terms)     == [constant |-> c, terms |-> terms]
Term(k, operand)   == [coefficient |-> k, operand |-> operand]
IntVar(x)          == [typ |-> "INT_VAR", decl |-> x]
ArrElem(a, idx)    == [typ |-> "ARR_ELEM", decl |-> a, idx |-> idx]

Cond(cmp, l, r)    == [typ |-> cmp, left |-> l, right |-> r]
Ihu(cond, body)    == [typ |-> "IHU", cond |-> cond, stmts |-> body]
While(cond, body)  == [typ |-> "WHILE", cond |-> cond, stmts |-> body]
Hor(v, s, e, body) == [typ |-> "HOR", var |-> v, start |-> s, end |-> e,
                       stmts |-> body]
Yosoro(e)          == [typ |-> "YOSORO", expr |-> e]
Set(operand, e)    == [typ |-> "SET", operand |-> operand, expr |-> e]

-----------------------------------------------------------------------------
(* What parse_expr and optimize_expr leave behind: terms in the order of    *)
(* compare_operand_terms (greatest coefficient first, then by declaration). *)
Sorted(e, declIdx) ==
  \A i, j \in DOMAIN e.terms :
    i < j =>
      LET s == e.terms[i]
          t == e.terms[j]
      IN  \/ s.coefficient > t.coefficient
          \/ /\ s.coefficient = t.coefficient
             /\ declIdx[s.operand.decl] <= declIdx[t.operand.decl]

(* optimize_expr keeps the terms whose operands cancelled out.  Nothing but *)
(* cancelled terms and no constant is an expression like `x - x`.           *)
Vanishes(e) ==
  /\ e.terms # <<>>
  /\ e.constant = 0
  /\ \A i \in DOMAIN e.terms : e.terms[i].coefficient = 0
=============================================================================
