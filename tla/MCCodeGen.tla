------------------------------ MODULE MCCodeGen ------------------------------
(***************************************************************************)
(* CodeGen on every statement of the language over a set of expressions    *)
(* that takes every path through gen_expr, in every block, and on pairs of *)
(* statements: fusion and patching depend on what precedes a statement and *)
(* on how blocks nest.  The declarations are `x:int`, `y:int` and          *)
(* `a:array[int,1..2]`.                                                    *)
(***************************************************************************)
EXTENDS CodeGen, ProgramExprs, TLC

CONSTANTS x, y, a

MCStart == (a :> 1)
MCEnd   == (a :> 2)

Const(c) == Expr(c, <<>>)
X == IntVar(x)
Y == IntVar(y)
XPlus1 == Expr(1, <<Term(1, X)>>)

(* Expressions as the parser builds them: sorted, equal operands merged.    *)
PlainExprs ==
  {Const(0),
   Const(2),
   Expr(0, <<Term(1, X)>>),                             \* x
   XPlus1,                                              \* x + 1
   Expr(1, <<Term(-1, X)>>),                            \* 1 - x
   Expr(0, <<Term(2, X), Term(2, Y)>>),                 \* x + y + x + y
   Expr(2, <<Term(1, X), Term(1, Y), Term(-1, ArrElem(a, Const(1)))>>),
   Expr(0, <<Term(1, Y), Term(0, X)>>),                 \* x + y - x
   Expr(1, <<Term(0, X)>>),                             \* x + 1 - x
   Expr(0, <<Term(1, ArrElem(a, Expr(0, <<Term(1, ArrElem(a, XPlus1))>>)))>>)}

(* Expressions gen_expr emits nothing for.                                  *)
VanishingExprs ==
  {Expr(0, <<Term(0, X)>>), Expr(0, <<Term(0, X), Term(0, Y)>>)}

Operands1 == {X, ArrElem(a, Const(1)), ArrElem(a, Expr(0, <<Term(1, Y)>>))}

Simple == {Set(o, e) : o \in Operands1, e \in PlainExprs}
          \cup {Yosoro(e) : e \in PlainExprs}

FewSimple == {Set(X, XPlus1), Set(Y, XPlus1), Set(X, Const(2)),
              Set(ArrElem(a, Const(1)), XPlus1), Yosoro(Const(2))}

Conds == {Cond(CMP_LT, Const(0), XPlus1), Cond(CMP_NEQ, XPlus1, Const(2))}

Blocks(bodies) ==
  {Ihu(c, b) : c \in Conds, b \in bodies}
  \cup {While(c, b) : c \in Conds, b \in bodies}
  \cup {Hor(v, s, e, b) : v \in {X, ArrElem(a, Const(1))},
                          s \in {Const(0), XPlus1}, e \in {Const(2), XPlus1},
                          b \in bodies}

Flat == Blocks({<<>>} \cup {<<s>> : s \in FewSimple})
Nested == Blocks({<<t>> : t \in Blocks({<<>>, <<Set(X, XPlus1)>>})})
Few == FewSimple \cup Blocks({<<>>, <<Set(X, Const(2))>>})

AllSources ==
  {<<>>} \cup {<<s>> : s \in Simple \cup Flat \cup Nested}
  \cup {<<s, t>> : s \in Few, t \in Few}

MCSources == AllSources  \* evaluated once

VanishingSources ==
  {<<Yosoro(e)>> : e \in PlainExprs \cup VanishingExprs}
  \cup {<<s, Set(o, e)>> : s \in FewSimple, o \in Operands1,
                           e \in VanishingExprs}

AllExprs == UNION {StmtExprs(p) : p \in AllSources \cup VanishingSources}
MCExprs == AllExprs  \* evaluated once

AllStmts == UNION {StmtsIn(p) : p \in AllSources \cup VanishingSources}
MCStmts == AllStmts  \* evaluated once

DeclIdx == (x :> 0) @@ (y :> 1) @@ (a :> 2)
ASSUME ExprsAreParsed ==
  /\ \A e \in PlainExprs \cup VanishingExprs : Sorted(e, DeclIdx)
  /\ \A e \in PlainExprs : ~Vanishes(e)
  /\ \A e \in VanishingExprs : Vanishes(e)
=============================================================================
