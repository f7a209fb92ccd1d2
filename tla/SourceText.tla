----------------------------- MODULE SourceText -----------------------------
(***************************************************************************)
(* Programs as they are written, their tokens, and what it means that a    *)
(* syntax tree says the same: the reference the parser is checked against. *)
(*                                                                         *)
(* A written expression is a sequence of signed numbers, variables and     *)
(* array elements; statements are those of Ast with written expressions.   *)
(***************************************************************************)
EXTENDS Ast, FiniteSetsExt, SequencesExt

Num(sign, n)       == [sign |-> sign, kind |-> "num", num |-> n]
Name(sign, x)      == [sign |-> sign, kind |-> "name", name |-> x]
Elem(sign, a, idx) == [sign |-> sign, kind |-> "elem", name |-> a, idx |-> idx]

T(type)    == [type |-> type]
INT(n)     == [type |-> "INT", num |-> n]
IDENT(x)   == [type |-> "IDENT", name |-> x]
CMP(cmp)   == [type |-> "CMP", cmp |-> cmp]

RECURSIVE ExprTokens(_), StmtsTokens(_)

OperandTokens(o) ==
  CASE o.kind = "num"  -> <<INT(o.num)>>
    [] o.kind = "name" -> <<IDENT(o.name)>>
    [] o.kind = "elem" -> <<IDENT(o.name), T("LBRACKET")>> \o ExprTokens(o.idx)
                          \o <<T("RBRACKET")>>

ExprTokens(items) ==
  FlattenSeq([i \in DOMAIN items |->
    (IF items[i].sign = -1 THEN <<T("MINUS")>>
     ELSE IF i > 1 THEN <<T("PLUS")>> ELSE <<>>)
    \o OperandTokens(items[i])])

Commas(parts) ==
  FlattenSeq([i \in DOMAIN parts |->
    (IF i > 1 THEN <<T("COMMA")>> ELSE <<>>) \o parts[i]])

CondTokens(c) == Commas(<<<<CMP(c.typ)>>, ExprTokens(c.left), ExprTokens(c.right)>>)

Block(keyword, header, body) ==
  <<T("LBRACE"), T(keyword)>> \o header \o StmtsTokens(body) \o <<T("RBRACE")>>

StmtTokens(s) ==
  CASE s.typ \in {"IHU", "WHILE"} -> Block(s.typ, CondTokens(s.cond), s.stmts)
    [] s.typ = "HOR" ->
         Block("HOR", Commas(<<OperandTokens(s.var), ExprTokens(s.start),
                               ExprTokens(s.end)>>), s.stmts)
    [] s.typ = "YOSORO" -> <<T("COLON"), T("YOSORO")>> \o ExprTokens(s.expr)
    [] s.typ = "SET" ->
         <<T("COLON"), T("SET")>>
         \o Commas(<<OperandTokens(s.operand), ExprTokens(s.expr)>>)

StmtsTokens(ss) == FlattenSeq([i \in DOMAIN ss |-> StmtTokens(ss[i])])

DeclTokens(d) ==
  <<IDENT(d.name), T("COLON")>> \o
  (IF d.typ = "VAR_INT" THEN <<T("KEYWORD_INT")>>
   ELSE <<T("KEYWORD_ARRAY"), T("LBRACKET"), T("KEYWORD_INT"), T("COMMA"),
          INT(d.start), T("DOTDOT"), INT(d.end), T("RBRACKET")>>)

ProgramTokens(p) ==
  <<T("LBRACE"), T("VARS")>>
  \o FlattenSeq([i \in DOMAIN p.decls |-> DeclTokens(p.decls[i])])
  \o <<T("RBRACE")>> \o StmtsTokens(p.stmts) \o <<T("EOF")>>

-----------------------------------------------------------------------------
(* A store gives every name a value, and every index of an array one, so    *)
(* that two expressions that depend on different elements are told apart.   *)
RECURSIVE Written(_, _, _), Read(_, _, _)

(* The value of a written expression.                                       *)
Written(items, store, names) ==
  LET val(o) == CASE o.kind = "num"  -> o.num
                  [] o.kind = "name" -> store[o.name]
                  [] o.kind = "elem" -> store[o.name][Written(o.idx, store, names)]
  IN  Wrap(FoldLeft(LAMBDA sum, o : sum + o.sign * val(o), 0, items))

(* The value of an expression of the syntax tree, whose declarations have   *)
(* the given names.                                                         *)
Read(e, store, names) ==
  LET val(o) == IF o.typ = "INT_VAR" THEN store[names[o.decl]]
                ELSE store[names[o.decl]][Read(o.idx, store, names)]
  IN  Wrap(FoldLeft(LAMBDA sum, t : sum + t.coefficient * val(t.operand),
                    e.constant, e.terms))

SameExpr(items, e, stores, names) ==
  \A store \in stores : Written(items, store, names) = Read(e, store, names)

SameOperand(o, p, stores, names) ==
  /\ names[p.decl] = o.name
  /\ (p.typ = "ARR_ELEM") <=> (o.kind = "elem")
  /\ o.kind = "elem" => SameExpr(o.idx, p.idx, stores, names)

RECURSIVE SameStmts(_, _, _, _)
SameStmt(s, t, stores, names) ==
  LET same(e, f) == SameExpr(e, f, stores, names) IN
  /\ s.typ = t.typ
  /\ s.typ = "YOSORO" => same(s.expr, t.expr)
  /\ s.typ = "SET" => same(s.expr, t.expr) /\ SameOperand(s.operand, t.operand, stores, names)
  /\ s.typ \in {"IHU", "WHILE"} =>
       /\ s.cond.typ = t.cond.typ
       /\ same(s.cond.left, t.cond.left) /\ same(s.cond.right, t.cond.right)
  /\ s.typ = "HOR" =>
       /\ SameOperand(s.var, t.var, stores, names)
       /\ same(s.start, t.start) /\ same(s.end, t.end)
  /\ s.typ \in {"IHU", "WHILE", "HOR"} => SameStmts(s.stmts, t.stmts, stores, names)

SameStmts(ss, ts, stores, names) ==
  /\ Len(ss) = Len(ts)
  /\ \A i \in DOMAIN ss : SameStmt(ss[i], ts[i], stores, names)

-----------------------------------------------------------------------------
(* What a written program does to a store and what it prints: the meaning   *)
(* both builds have to give to it.                                          *)
Holds(c, store) ==
  LET l == Written(c.left, store, <<>>)
      r == Written(c.right, store, <<>>)
  IN  CASE c.typ = CMP_LT  -> l < r
        [] c.typ = CMP_LE  -> l <= r
        [] c.typ = CMP_EQ  -> l = r
        [] c.typ = CMP_NEQ -> l # r
        [] c.typ = CMP_GE  -> l >= r
        [] c.typ = CMP_GT  -> l > r

Assign(o, val, s) ==
  IF o.kind = "name" THEN [s EXCEPT !.store[o.name] = val]
  ELSE [s EXCEPT !.store[o.name][Written(o.idx, s.store, <<>>)] = val]

RECURSIVE Run(_, _)
RunStmt(stmt, s) ==
  CASE stmt.typ = "YOSORO" ->
         [s EXCEPT !.out = Append(@, Written(stmt.expr, s.store, <<>>))]
    [] stmt.typ = "SET" -> Assign(stmt.operand, Written(stmt.expr, s.store, <<>>), s)
    [] stmt.typ = "IHU" -> IF Holds(stmt.cond, s.store) THEN Run(stmt.stmts, s) ELSE s
    [] stmt.typ = "WHILE" ->
         IF Holds(stmt.cond, s.store) THEN Run(<<stmt>>, Run(stmt.stmts, s)) ELSE s
    [] stmt.typ = "HOR" ->
         LET start == Written(stmt.start, s.store, <<>>)
             end == Written(stmt.end, s.store, <<>>)
         IN  FoldLeft(LAMBDA t, i : Run(stmt.stmts, Assign(stmt.var, start + i - 1, t)),
                      s, [i \in 1 .. (end - start + 1) |-> i])

Run(ss, s) == FoldLeft(LAMBDA t, stmt : RunStmt(stmt, t), s, ss)

Zero(decls) ==
  [x \in {decls[i].name : i \in DOMAIN decls} |->
     LET d == decls[CHOOSE i \in DOMAIN decls : decls[i].name = x]
     IN  IF d.typ = "VAR_INT" THEN 0 ELSE [idx \in d.start .. d.end |-> 0]]

Printed(p) == Run(p.stmts, [store |-> Zero(p.decls), out |-> <<>>]).out
=============================================================================
