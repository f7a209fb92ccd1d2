-------------------------------- MODULE Trees --------------------------------
(***************************************************************************)
(* The syntax trees a back end is given: which expressions and statements  *)
(* there are, and that the parts of each are among them.                   *)
(***************************************************************************)
EXTENDS Ast

CONSTANTS
  Exprs,    \* the expressions, those inside other ones included
  Stmts,    \* the statements, those inside other ones included
  Sources   \* the programs, as sequences of statements

(* struct Operand, OperandTerm and CondExpr.                                *)
TreeOperands ==
  [typ : {"INT_VAR"}, decl : IntVars]
  \cup [typ : {"ARR_ELEM"}, decl : ArrVars, idx : Exprs]
TreeTerms == [coefficient : IntW, operand : TreeOperands]
TreeConds == [typ : CmpType, left : Exprs, right : Exprs]

ASSUME ExprsAssumption == Exprs \subseteq [constant : IntW, terms : Seq(TreeTerms)]

ASSUME StmtsAssumption ==
  Stmts \subseteq
    [typ : {"IHU", "WHILE"}, cond : TreeConds, stmts : Seq(Stmts)]
    \cup [typ : {"HOR"}, var : TreeOperands, start : Exprs, end : Exprs,
          stmts : Seq(Stmts)]
    \cup [typ : {"YOSORO"}, expr : Exprs]
    \cup [typ : {"SET"}, operand : TreeOperands, expr : Exprs]

ASSUME SourcesAssumption == Sources \subseteq Seq(Stmts)
=============================================================================
