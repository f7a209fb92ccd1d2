------------------------------ MODULE MCDriver ------------------------------
(***************************************************************************)
(* Driver on the characters of written programs, fib.cyr and test.cyr with *)
(* smaller constants among them.  The declarations are those of fib.cyr,   *)
(* a stack of fewer cells, and behind them those of test.cyr:              *)
(* n:int result:int stack:array[int,1..12] top:int temp:int                *)
(* i:int j:int s:int t:int a:int flag:int.                                 *)
(***************************************************************************)
EXTENDS Driver, SourceText, TreeWalks, ProgramExprs, TLC

MCStart == (3 :> 1)
MCEnd   == (3 :> 12)

n == <<"n">>
result == <<"r", "e", "s">>
stack == <<"s", "t", "a", "c", "k">>
top_ == <<"t", "o", "p">>
temp == <<"t", "e", "m", "p">>
i_ == <<"i">>
j_ == <<"j">>
s_ == <<"s">>
t_ == <<"t">>
a_ == <<"a">>
flag == <<"f", "l", "a", "g">>

Decls == <<[name |-> n, typ |-> "VAR_INT"], [name |-> result, typ |-> "VAR_INT"],
           [name |-> stack, typ |-> "VAR_ARR", start |-> 1, end |-> 12],
           [name |-> top_, typ |-> "VAR_INT"], [name |-> temp, typ |-> "VAR_INT"],
           [name |-> i_, typ |-> "VAR_INT"], [name |-> j_, typ |-> "VAR_INT"],
           [name |-> s_, typ |-> "VAR_INT"], [name |-> t_, typ |-> "VAR_INT"],
           [name |-> a_, typ |-> "VAR_INT"], [name |-> flag, typ |-> "VAR_INT"]>>
DeclIdx == [i \in DOMAIN Decls |-> i]

V(x) == Name(1, x)
Plus(x, c) == <<V(x), Num(1, c)>>
Minus(x, c) == <<V(x), Num(-1, c)>>
At(idx) == Elem(1, stack, idx)

Fib(k) ==
  <<Set(V(n), <<Num(1, k)>>), Set(V(top_), <<Num(1, 1)>>), Set(At(<<Num(1, 1)>>), <<V(n)>>),
    While(Cond(CMP_GT, <<V(top_)>>, <<Num(1, 0)>>),
      <<Set(V(temp), <<At(<<V(top_)>>)>>),
        Set(V(top_), Minus(top_, 1)),
        Ihu(Cond(CMP_LE, <<V(temp)>>, <<Num(1, 1)>>),
            <<Set(V(result), <<V(result), V(temp)>>)>>),
        Ihu(Cond(CMP_GT, <<V(temp)>>, <<Num(1, 1)>>),
            <<Set(V(top_), Plus(top_, 1)), Set(At(<<V(top_)>>), Minus(temp, 1)),
              Set(V(top_), Plus(top_, 1)), Set(At(<<V(top_)>>), Minus(temp, 2))>>)>>),
    Yosoro(<<V(result)>>)>>

(* test.cyr: the a such that the digits of a, 2a and 3a are all digits but  *)
(* 0, each once.  To the base of 4 that is 1.                               *)
Digits ==
  <<Hor(V(a_), <<Num(1, 1)>>, <<Num(1, 3)>>,
    <<Set(V(flag), <<Num(1, 0)>>),
      Hor(V(i_), <<Num(1, 1)>>, <<Num(1, 3)>>,
        <<Set(V(t_), <<Num(1, 0)>>),
          Hor(V(j_), <<Num(1, 1)>>, <<V(i_)>>, <<Set(V(t_), <<V(t_), V(a_)>>)>>),
          While(Cond(CMP_NEQ, <<V(t_)>>, <<Num(1, 0)>>),
            <<Set(V(s_), <<Num(1, 0)>>),
              While(Cond(CMP_GE, <<V(t_)>>, <<Num(1, 4)>>),
                <<Set(V(t_), Minus(t_, 4)), Set(V(s_), Plus(s_, 1))>>)>>
            \o [d \in 1 .. 3 |->
                 Ihu(Cond(CMP_EQ, <<V(t_)>>, <<Num(1, d)>>),
                     <<Set(V(flag), Plus(flag, 2 ^ (d - 1)))>>)]
            \o <<Set(V(t_), <<V(s_)>>)>>)>>),
      Ihu(Cond(CMP_EQ, <<V(flag)>>, <<Num(1, 1), Num(1, 2), Num(1, 4)>>),
        <<Yosoro(<<V(a_)>>), Yosoro(<<V(a_), V(a_)>>), Yosoro(<<V(a_), V(a_), V(a_)>>),
          Yosoro(<<Num(1, 15)>>)>>)>>)>>

(* Every comparison, with every order of its sides, in both blocks.         *)
Compare(c, start, step) ==
  <<Set(V(temp), <<Num(1, start)>>),
    While(Cond(c, <<V(temp)>>, <<Num(1, 2)>>),
      <<Set(V(temp), <<V(temp), Num(step, 1)>>), Yosoro(<<V(temp)>>)>>),
    Hor(V(n), <<Num(1, 1)>>, <<Num(1, 3)>>,
      <<Ihu(Cond(c, <<V(n)>>, <<Num(1, 2)>>), <<Yosoro(Plus(n, 5))>>)>>)>>

Compares == {<<CMP_LT, 0, 1>>, <<CMP_LE, 0, 1>>, <<CMP_NEQ, 0, 1>>, <<CMP_EQ, 2, 1>>,
             <<CMP_GT, 4, -1>>, <<CMP_GE, 4, -1>>}

(* Sums that are merged, sorted, cancelled in part, negative and nested.    *)
Sums == {<<Num(1, 12), V(n), V(n), Name(-1, top_), V(n)>>,
         <<Name(-1, temp), At(<<V(top_), Num(-1, 3)>>), Num(-1, 2), V(temp), V(top_)>>,
         <<At(<<At(<<V(n)>>), V(n)>>), At(<<At(<<V(n)>>), V(n)>>), Num(1, 0)>>,
         <<Elem(-1, stack, <<Num(1, 6)>>), V(top_), Elem(-1, stack, <<V(n), Num(1, 4)>>)>>}
Sum(e) ==
  <<Set(V(n), <<Num(1, 2)>>), Set(V(top_), <<Num(1, 5)>>), Set(V(temp), <<Num(-1, 3)>>),
    Hor(At(<<V(n)>>), <<Num(1, 1)>>, <<Num(1, 2)>>, <<Yosoro(<<At(<<V(n)>>)>>)>>),
    Set(At(<<V(top_), Num(1, 1)>>), <<V(temp), V(temp)>>), Set(At(<<Num(1, 4)>>), <<V(top_)>>),
    Yosoro(e), Set(V(result), e), Yosoro(<<V(result)>>)>>

Programs == {Fib(k) : k \in 0 .. 4} \cup {Digits} \cup {Compare(c[1], c[2], c[3]) : c \in Compares}
            \cup {Sum(e) : e \in Sums}

-----------------------------------------------------------------------------
(* The characters of a program: a comment, and a blank behind every token.  *)
K == INSTANCE Lexer WITH Sources <- {}, toks <- lexToks, status <- lexStatus, MaxToks <- 0

CmpWord ==
  (CMP_LT :> <<"l", "t">>) @@ (CMP_GT :> <<"g", "t">>) @@ (CMP_NEQ :> <<"n", "e", "q">>) @@
  (CMP_GE :> <<"g", "e">>) @@ (CMP_LE :> <<"l", "e">>) @@ (CMP_EQ :> <<"e", "q">>)

Spell(tok) ==
  CASE tok.type = "INT" ->
         (IF tok.num >= 10 THEN <<ToString(tok.num \div 10)>> ELSE <<>>)
         \o <<ToString(tok.num % 10)>>
    [] tok.type = "IDENT" -> tok.name
    [] tok.type = "CMP" -> CmpWord[tok.cmp]
    [] tok.type = "DOTDOT" -> <<".", ".">>
    [] tok.type \in {K!keywords[k] : k \in DOMAIN K!keywords} ->
         CHOOSE k \in DOMAIN K!keywords : K!keywords[k] = tok.type
    [] OTHER -> <<CHOOSE c \in DOMAIN K!SingleChar : K!SingleChar[c] = tok.type>>

(* By halves: a program has hundreds of tokens.                             *)
RECURSIVE SpellAll(_, _, _)
SpellAll(tokens, first, last) ==
  IF first = last THEN Append(Spell(tokens[first]), " ")
  ELSE LET middle == (first + last) \div 2
       IN  SpellAll(tokens, first, middle) \o SpellAll(tokens, middle + 1, last)

Spelled(p) ==
  LET tokens == ProgramTokens(p)
  IN  <<"#", "x", "\n">> \o SpellAll(tokens, 1, Len(tokens) - 1)  \* TOK_EOF has none

AllSources ==
  {[program |-> p, chars |-> Spelled(p)] : p \in {[decls |-> Decls, stmts |-> ss] : ss \in Programs}}
MCSources == AllSources  \* evaluated once

MCAlpha == {"a", "c", "e", "f", "g", "h", "i", "j", "k", "l", "m", "n", "o", "p", "q", "r", "s", "t",
            "u", "v", "w", "x", "y"}
MCDigit == {"0", "1", "2", "3", "4", "5", "6", "7", "8", "9"}
MCSpace == {" ", "\n"}

-----------------------------------------------------------------------------
(* What the parser makes of the written expressions: the domain of          *)
(* eval_expr.                                                               *)
RECURSIVE Flattened(_), ParsedOperands(_)
ParsedExprs(items) == UNION {P!optimize_expr(e, DeclIdx) : e \in Flattened(items)}

ParsedOperands(o) ==
  LET d == CHOOSE i \in DOMAIN Decls : Decls[i].name = o.name
  IN  IF o.kind = "name" THEN {IntVar(d)} ELSE {ArrElem(d, e) : e \in ParsedExprs(o.idx)}

Flattened(items) ==
  IF items = <<>> THEN {Expr(0, <<>>)}
  ELSE LET item == Last(items) IN
       UNION {IF item.kind = "num" THEN {[e EXCEPT !.constant = Wrap(@ + item.sign * item.num)]}
              ELSE {[e EXCEPT !.terms = P!terms_add_operand(@, op, item.sign)] :
                      op \in ParsedOperands(item)} :
              e \in Flattened(Front(items))}

RECURSIVE WrittenExprs(_)
Indices(o) == IF o.kind = "elem" THEN {o.idx} ELSE {}
WrittenExprs(ss) ==
  UNION {LET s == ss[i] IN
         CASE s.typ = "YOSORO" -> {s.expr}
           [] s.typ = "SET" -> {s.expr} \cup Indices(s.operand)
           [] s.typ \in {"IHU", "WHILE"} -> {s.cond.left, s.cond.right} \cup WrittenExprs(s.stmts)
           [] s.typ = "HOR" -> {s.start, s.end} \cup Indices(s.var) \cup WrittenExprs(s.stmts) :
         i \in DOMAIN ss}

AllExprs ==
  UNION {ExprsIn(e) : e \in UNION {ParsedExprs(w) : w \in UNION {WrittenExprs(p) : p \in Programs}}}
MCExprs == AllExprs  \* evaluated once

-----------------------------------------------------------------------------
(* Through lexer, parser and either build, a program prints what it means.  *)
PrintsItsMeaning ==
  /\ iStatus = "halted" => iOut = Printed(source.program)
  /\ vStatus = "halted" => vOut = Printed(source.program)
=============================================================================
