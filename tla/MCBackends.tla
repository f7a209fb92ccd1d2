------------------------------ MODULE MCBackends ------------------------------
(***************************************************************************)
(* Backends on programs that terminate and whose hor loops are regular:    *)
(* the body does not assign the loop variable, neither the body nor the    *)
(* loop itself assigns what the upper bound or the index of the loop       *)
(* variable reads, the upper bound is not the greatest int, and if the     *)
(* range may be empty only the loop reads the loop variable.               *)
(***************************************************************************)
EXTENDS Backends, ProgramExprs, SequencesExt, TLC

CONSTANTS x, y, z, a, b

(* x:int  y:int  z:int  a:array[int,0..3]  b:array[int,5..9]                *)
MCStart == (a :> 0) @@ (b :> 5)
MCEnd   == (a :> 3) @@ (b :> 9)

Const(c) == Expr(c, <<>>)
V1(v, c) == Expr(c, <<Term(1, IntVar(v))>>)    \* v + c
X == IntVar(x)
Y == IntVar(y)
Z == IntVar(z)
A(e) == ArrElem(a, e)
B(e) == ArrElem(b, e)
Elem(o) == Expr(0, <<Term(1, o)>>)

(* Every path of gen_expr, with sums and products that overflow and indices *)
(* that may be out of bounds.                                               *)
Values ==
  {Const(2), V1(x, 0), V1(y, 1),
   Expr(1, <<Term(-3, X)>>),
   Expr(0, <<Term(2, X), Term(2, Y), Term(-1, Z)>>),
   Expr(3, <<Term(7, Y), Term(1, X), Term(0, Z)>>),
   Expr(5, <<Term(0, X)>>),
   Expr(-1, <<Term(1, X), Term(1, A(V1(x, 0))), Term(-2, B(V1(y, 5)))>>),
   Elem(A(Elem(A(V1(x, 1)))))}

Assignments == {Set(o, e) : o \in {Y, A(V1(x, 1))}, e \in Values}

Conds == {Cond(c, V1(x, 1), V1(y, 0)) : c \in {CMP_LT, CMP_EQ, CMP_LE, CMP_GT,
                                               CMP_NEQ, CMP_GE}}

Step(v) == Set(IntVar(v), V1(v, 1))

Loops(body) ==
  {<<While(Cond(CMP_LT, V1(x, 0), Const(2)), body \o <<Step(x)>>)>>,
   <<Hor(X, Const(-1), Const(1), body)>>,
   <<Hor(X, V1(z, 0), V1(z, 1), body)>>,
   <<Hor(A(Const(2)), Const(0), Const(1), <<Yosoro(Elem(A(Const(2))))>>)>>,
   <<Hor(Z, Const(0), Const(1), <<Hor(X, Const(1), V1(z, 1), body)>>)>>}

Show == <<Yosoro(V1(x, 0)), Yosoro(V1(y, 0)), Yosoro(Elem(A(Const(1))))>>

(* fib.cyr with a smaller argument: recursion simulated with b as a stack.  *)
Fib(n) ==
  <<Set(X, Const(n)), Set(Y, Const(5)), Set(B(Const(5)), V1(x, 0)),
    While(Cond(CMP_GT, V1(y, 0), Const(4)),
      <<Set(Z, Elem(B(V1(y, 0)))),
        Set(Y, V1(y, -1)),
        Ihu(Cond(CMP_LE, V1(z, 0), Const(1)),
            <<Set(A(Const(0)), Expr(0, <<Term(1, Z), Term(1, A(Const(0)))>>))>>),
        Ihu(Cond(CMP_GT, V1(z, 0), Const(1)),
            <<Set(Y, V1(y, 1)), Set(B(V1(y, 0)), V1(z, -1)),
              Set(Y, V1(y, 1)), Set(B(V1(y, 0)), V1(z, -2))>>)>>),
    Yosoro(Elem(A(Const(0))))>>

(* test#4.cyr, with smaller bounds.                                         *)
Test4 ==
  <<Set(A(Const(0)), Const(-1)), Set(A(Const(3)), Const(4)),
    Set(B(Const(7)), Const(3)), Set(B(Const(9)), Const(-1)),
    Set(A(Const(2)), Expr(0, <<Term(1, A(Const(0))), Term(-1, B(Const(7)))>>)),
    Set(B(Const(8)), Expr(0, <<Term(1, A(Const(3))), Term(-1, B(Const(9)))>>)),
    Set(A(Const(3)), Expr(0, <<Term(1, A(Const(2))), Term(-1, B(Const(8)))>>)),
    Yosoro(Elem(A(Const(2)))), Yosoro(Elem(A(Const(3)))),
    Yosoro(Expr(0, <<Term(1, B(Const(8))), Term(-1, B(Const(9)))>>))>>

Regular ==
  {<<s, t>> \o Show : s, t \in Assignments}
  \cup {<<Step(x), s, Ihu(c, <<t>>)>> \o Show :
          s \in {Set(Y, e) : e \in Values}, c \in Conds, t \in {Step(x), Step(y)}}
  \cup {<<Step(y)>> \o l \o Show :
          l \in UNION {Loops(<<s>>) : s \in Assignments \cup {Yosoro(V1(x, 0))}}}
  \cup {Fib(n) : n \in 0 .. 5} \cup {Test4}

-----------------------------------------------------------------------------
(* Sums in which an element of an array cancels, at indices that are out of *)
(* bounds once x or y was increased.                                        *)
Cancelling ==
  {Expr(1, <<Term(0, A(V1(x, 3)))>>),
   Expr(0, <<Term(1, Y), Term(0, B(V1(y, 9)))>>),
   Elem(A(Expr(2, <<Term(0, B(V1(x, 9)))>>)))}

CancellingStmts ==
  UNION {{Yosoro(e), Set(Y, e), Set(A(e), Const(1)),
          Ihu(Cond(CMP_GE, e, Const(1)), <<Step(y)>>),
          Hor(Y, e, Const(3), <<Yosoro(V1(y, 0))>>),
          Hor(Z, Const(0), e, <<Yosoro(V1(x, 0))>>)} : e \in Cancelling}

Cancelled ==
  {<<Yosoro(V1(x, 1)), Step(v), s>> \o t :
     v \in {x, y}, s \in CancellingStmts,
     t \in {Show, <<Yosoro(Const(2)), Yosoro(Elem(A(Const(4))))>>}}

(* Loops whose range is, or may be, empty, over x or an element, in or out  *)
(* of bounds, of an array that nothing else reads.                          *)
Ranges == {<<Const(2), Const(1)>>, <<V1(y, 1), V1(y, 0)>>, <<V1(z, 0), Const(0)>>}
Shown == [v \in {x, a, b} |-> IF v = x THEN Tail(Show) ELSE SubSeq(Show, 1, 2)]

EmptyLoops ==
  [v \in {x, a, b} |->
     {Hor(o, r[1], r[2], <<s>>) :
        r \in Ranges,
        o \in CASE v = x -> {X} [] v = a -> {A(Const(2)), A(V1(x, 3))} [] v = b -> {B(Const(4))},
        s \in IF v = x THEN Assignments ELSE {Yosoro(V1(x, 1))}}]

Empty ==
  [v \in {x, a, b} |-> UNION {
     {<<Step(y), l>> \o Shown[v],
      <<Hor(Z, Const(0), Const(2), <<l, Step(y)>>)>> \o Shown[v],
      <<Ihu(Cond(CMP_LE, V1(y, 0), Const(1)), <<l>>), l>> \o Shown[v]} :
     l \in EmptyLoops[v]}]

(* An element out of bounds as the variable of an empty range and one that  *)
(* cancels, in both orders.                                                 *)
Both ==
  LET l == Hor(B(Const(4)), Const(2), Const(1), <<>>)
      s == Yosoro(Expr(1, <<Term(0, A(Const(4)))>>))
  IN  {<<Yosoro(Const(2)), s, l, s>>, <<Yosoro(Const(2)), l, Yosoro(Const(1)), s>>}
-----------------------------------------------------------------------------
AllSources == Regular \cup Cancelled \cup UNION {Empty[v] : v \in {x, a, b}} \cup Both
MCSources == AllSources  \* evaluated once
MCEmptyOver(p) == {v \in {x, a, b} : p \in Empty[v]} \cup (IF p \in Both THEN {b} ELSE {})

AllExprs == UNION {StmtExprs(p) : p \in AllSources}
MCExprs == AllExprs  \* evaluated once

AllStmts == UNION {StmtsIn(p) : p \in AllSources}
MCStmts == AllStmts  \* evaluated once

DeclIdx == (x :> 0) @@ (y :> 1) @@ (z :> 2) @@ (a :> 3) @@ (b :> 4)
ASSUME ExprsAreParsed ==
  \A e \in AllExprs : Sorted(e, DeclIdx) /\ ~Vanishes(e)
=============================================================================
