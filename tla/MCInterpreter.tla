----------------------------- MODULE MCInterpreter -----------------------------
(***************************************************************************)
(* Interpreter on programs of hor loops that are anything but regular:     *)
(* empty ranges, bodies that assign the loop variable or a variable of the *)
(* bounds, two loops over one variable, a loop over an array element whose *)
(* index the body changes, ranges that reach the greatest int; and such    *)
(* loops inside a while loop that may or may not end.                      *)
(***************************************************************************)
EXTENDS Interpreter, ProgramExprs, TLC

CONSTANTS x, y, a

(* x:int  y:int  a:array[int,0..2]                                          *)
MCStart == (a :> 0)
MCEnd   == (a :> 2)

Const(c) == Expr(c, <<>>)
V1(v, c) == Expr(c, <<Term(1, IntVar(v))>>)
A(e) == ArrElem(a, e)

LoopVars == {IntVar(x), IntVar(y), A(V1(y, 0))}

Ranges ==
  {<<Const(0), Const(1)>>, <<Const(1), Const(-1)>>, <<V1(x, -1), V1(y, 1)>>,
   <<V1(y, 0), Expr(2, <<Term(-1, IntVar(x))>>)>>, <<Const(2), Const(3)>>,
   <<V1(x, 1), Expr(0, <<Term(1, A(Const(1)))>>)>>}

(* A sum of two elements overflows: a[1] + 3x, with -4 .. 3.                *)
Assignments ==
  {Set(IntVar(x), Const(-1)), Set(IntVar(x), V1(x, 1)), Set(IntVar(y), V1(y, 1)),
   Set(IntVar(x), Expr(0, <<Term(3, IntVar(x)), Term(1, A(Const(1)))>>)),
   Set(A(V1(x, 0)), V1(y, 0))}

Blocks ==
  {<<>>} \cup {<<s>> : s \in Assignments}
  \cup {<<Ihu(Cond(CMP_GE, V1(x, 0), V1(y, 0)), <<s>>)>> : s \in Assignments}

Loop(v, r, body) == Hor(v, r[1], r[2], body)

Loops == {Loop(v, r, b) : v \in LoopVars, r \in Ranges, b \in Blocks}

AllSources ==
  {<<l>> : l \in Loops}
  \cup {<<Loop(v, r, <<Loop(IntVar(x), q, <<s>>)>>)>> :
          v \in LoopVars, r \in Ranges, q \in Ranges, s \in Assignments}
  \cup {<<While(Cond(CMP_LT, V1(x, 0), Const(2)), <<l, s>>), Yosoro(V1(x, 0))>> :
          l \in Loops, s \in {Set(IntVar(x), V1(x, 1)), Set(IntVar(y), V1(y, 1))}}

MCSources == AllSources  \* evaluated once

AllExprs == UNION {StmtExprs(p) : p \in AllSources}
MCExprs == AllExprs  \* evaluated once

AllStmts == UNION {StmtsIn(p) : p \in AllSources}
MCStmts == AllStmts  \* evaluated once
=============================================================================
