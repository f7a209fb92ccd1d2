------------------------------- MODULE MCParser -------------------------------
(***************************************************************************)
(* The parser and its memory on written programs, where the syntax tree    *)
(* has to say what the program says, and on token sequences that need not  *)
(* be programs.  The declarations are `x:int`, `a:array[int,0..1]` and     *)
(* `y:int`.                                                                *)
(***************************************************************************)
EXTENDS ParserMemory, TreeWalks, SourceText, TLC

MCStart == (2 :> 0)
MCEnd   == (2 :> 1)

Decls == <<[name |-> "x", typ |-> "VAR_INT"],
           [name |-> "a", typ |-> "VAR_ARR", start |-> 0, end |-> 1],
           [name |-> "y", typ |-> "VAR_INT"]>>

(* Values that tell sums of x, y and elements of a apart.                   *)
Stores ==
  {("x" :> p[1]) @@ ("y" :> p[2]) @@ ("a" :> [i \in IntW |-> Wrap(p[3] * i * i + i + p[4])]) :
     p \in {<<1, 0, 0, 0>>, <<0, 1, 1, 0>>, <<3, -2, 1, 1>>, <<-1, 2, 3, 2>>}}

X(sign) == Name(sign, "x")
Y(sign) == Name(sign, "y")
A(sign, idx) == Elem(sign, "a", idx)

(* Indices no two of which is_expr_eq confuses.                             *)
Indices == {<<Num(1, 1)>>, <<X(1)>>, <<X(1), Num(-1, 1)>>,
            <<A(1, <<Y(1)>>), X(-1)>>}

Items == {Num(1, 2), Num(-1, 3), X(1), X(-1), Y(1)}
         \cup {A(sign, idx) : sign \in {1, -1}, idx \in Indices}

Sums == {<<i>> : i \in Items} \cup {<<i, j>> : i \in Items, j \in Items}
        \cup {<<i, j, k>> : i \in {X(-1), A(1, <<X(1)>>)}, j \in Items, k \in Items}
        \cup {<<X(1), X(1), X(1), X(1)>>, <<X(1), Y(1), X(1), A(1, <<X(1)>>), Y(-1)>>}

Few == {<<Num(1, 2)>>, <<X(1), Y(-1)>>}

Simple == {Yosoro(e) : e \in Few} \cup {Set(o, <<X(1)>>) : o \in {Y(1), A(1, <<X(1)>>)}}

Cmps == {CMP_LT, CMP_EQ, CMP_LE, CMP_GT, CMP_NEQ, CMP_GE}

Blocks(bodies) ==
  {Ihu(Cond(CMP_NEQ, e, f), b) : e \in Few, f \in Few, b \in bodies}
  \cup {While(Cond(CMP_LT, e, <<Y(1)>>), b) : e \in Few, b \in bodies}
  \cup {Hor(o, <<Num(1, 1)>>, e, b) : o \in {Y(1), A(1, <<Num(1, 1)>>)}, e \in Few, b \in bodies}

Bodies == {<<>>} \cup {<<s>> : s \in Simple} \cup {<<s, t>> : s \in Simple, t \in Simple}

AllPrograms ==
  {<<Yosoro(e)>> : e \in Sums}
  \cup {<<Ihu(Cond(c, <<X(1)>>, <<Y(1)>>), <<>>)>> : c \in Cmps}
  \cup {<<s>> : s \in Blocks(Bodies \cup {<<b>> : b \in Blocks({<<Yosoro(<<X(1)>>)>>})})}
  \cup {<<s, t>> : s \in Blocks({<<>>}), t \in Simple \cup Blocks({<<>>})}

-----------------------------------------------------------------------------
(* Programs whose blocks hold enough statements to move, at every depth,    *)
(* and whose expressions merge operands with and without nested indices.    *)
Nested == A(1, <<A(1, <<X(1)>>)>>)
Merging == {<<X(1), X(-1)>>, <<A(1, <<X(1)>>), A(-1, <<X(1)>>)>>, <<Nested>>,
            <<Nested, Nested>>, <<Nested, X(1), Nested, Nested>>}

Merges == {Yosoro(e) : e \in Merging} \cup {Set(Nested, <<Num(1, 1)>>)}
Show == Yosoro(<<X(1)>>)

MergingBlocks(body) ==
  {Ihu(Cond(CMP_EQ, <<X(1)>>, <<Nested, Nested>>), body),
   While(Cond(CMP_LT, <<Nested>>, <<X(1)>>), body),
   Hor(A(1, <<X(1)>>), <<Num(1, 1)>>, <<X(1)>>, body)}

LongBodies == {<<>>} \cup {<<s, Show, Show>> : s \in Merges}
Grown == UNION {MergingBlocks(b) : b \in LongBodies}

Growing ==
  {<<s, t>> : s \in Merges, t \in Merges}
  \cup {<<s, Show>> : s \in Grown}
  \cup {<<Show, s, Show>> : s \in UNION {MergingBlocks(<<t, Show>>) : t \in Grown}}

(* Behind each program, and inside a block, a : that no keyword follows:    *)
(* statements nobody fills in make the array of the open block grow.        *)
WithUnknown(ss) ==
  LET ts  == ProgramTokens([decls |-> Decls, stmts |-> ss])
      cut == IF ts[Len(ts) - 1].type = "RBRACE" THEN Len(ts) - 2 ELSE Len(ts) - 1
  IN  SubSeq(ts, 1, cut) \o <<T("COLON"), T("PLUS"), T("EOF")>>
Unknown == {WithUnknown(<<Show, s>>) : s \in Merges \cup Grown}

AllTexts == {[decls |-> Decls, stmts |-> ss] : ss \in AllPrograms \cup Growing}
MCPrograms == AllTexts  \* evaluated once

(* The tree says what the program says: the same statements in the same     *)
(* blocks, the same variables, and expressions with the same values,        *)
(* whatever was merged and sorted.                                          *)
ReadAsWritten ==
  Done /\ text \in MCPrograms =>
    LET names == [i \in DOMAIN Decls |-> Decls[i].name] IN
    /\ [i \in DOMAIN var_decls |-> var_decls[i].name.name] = names
    /\ SameStmts(text.stmts, stmts, Stores, names)

-----------------------------------------------------------------------------
(* Token sequences that begin like a program and go on anyhow.              *)
Beginnings ==
  {<<>>, <<T("LBRACE"), T("VARS")>>,
   <<T("LBRACE"), T("VARS"), IDENT("x"), T("COLON")>>,
   <<T("LBRACE"), T("VARS"), IDENT("x"), T("COLON"), T("KEYWORD_ARRAY"),
     T("LBRACKET"), T("KEYWORD_INT"), T("COMMA")>>,
   <<T("LBRACE"), T("IHU"), CMP(CMP_LT), T("COMMA")>>,
   <<T("LBRACE"), T("HOR"), IDENT("x"), T("COMMA"), INT(1), T("COMMA")>>,
   <<T("COLON"), T("YOSORO")>>,
   <<T("COLON"), T("SET"), IDENT("x"), T("LBRACKET")>>}

Anything ==
  {T("LBRACE"), T("RBRACE"), T("COLON"), T("COMMA"), T("LBRACKET"),
   T("RBRACKET"), T("PLUS"), T("MINUS"), T("VARS"), T("WHILE"), T("SET"),
   T("KEYWORD_INT"), INT(1), IDENT("x"), CMP(CMP_EQ)}

Endings == {<<>>} \cup {<<t, u>> : t \in Anything, u \in Anything}
           \cup {<<t, u, v>> : t \in Anything, u \in Anything, v \in Anything}

AnyTokens ==
  {[tokens |-> ts] : ts \in Unknown \cup {b \o e \o <<T("EOF")>> : b \in Beginnings, e \in Endings}}
MCTexts == MCPrograms \cup AnyTokens
MCTokens(t) == IF "tokens" \in DOMAIN t THEN t.tokens ELSE ProgramTokens(t)

-----------------------------------------------------------------------------
(* Operands whose indices differ in a coefficient only: a[x+x] + a[x].      *)
MCAlike ==
  {[decls |-> Decls,
    stmts |-> <<Yosoro(<<A(1, i), A(1, j)>>)>>] :
     i \in {<<X(1), X(1)>>, <<X(1), Num(1, 1)>>}, j \in {<<X(1)>>, <<X(-1), Num(1, 1)>>}}
=============================================================================
