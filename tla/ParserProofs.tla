---------------------------- MODULE ParserProofs ----------------------------
(***************************************************************************)
(* Proofs about the parser, for all programs and whatever is_operand_eq    *)
(* may answer: the calls that are left find the parts they need, the tree  *)
(* is one the back ends can be given, a null pointer is followed only at   *)
(* the end of the tokens, and cur_stmt never points to memory that was     *)
(* moved.                                                                  *)
(***************************************************************************)
EXTENDS ParserMemory, SequenceTheorems, FiniteSetTheorems, WellFoundedInduction, TLAPS

-----------------------------------------------------------------------------
(* Where the calls in todo lead.                                            *)

Kinds == {"block", "operand", "expr", "cmp"}

(* What kind of part each one in built is, how many arrays of statements    *)
(* are open, and how many statements are.                                   *)
Shape(k, a, c) == [kinds |-> k, arrays |-> a, curs |-> c]
Shapes == [kinds : Seq(Kinds), arrays : Nat, curs : Nat]

Calls ==
  [call : {"consume_token", "da_init", "parse_operand", "parse_expr", "parse_term",
           "cmp_type", "parse_blk", "parser_parse", "parse_vars"}]
  \cup [call : {"make_elem"}, decl : Nat]
  \cup [call : {"terms_add_operand"}, sign : {1, -1}]
  \cup [call : {"make_stmt"}, typ : {"IHU", "WHILE", "HOR"}, parts : {4}]
  \cup [call : {"make_stmt"}, typ : {"SET"}, parts : {2}]
  \cup [call : {"make_stmt"}, typ : {"YOSORO"}, parts : {1}]

Pushed(kind, s) == Shape(Append(s.kinds, kind), s.arrays, s.curs)
Ends(s, kind) == Len(s.kinds) >= 1 /\ s.kinds[Len(s.kinds)] = kind

(* Before a body is parsed there is an array for it, and the statement it   *)
(* belongs to is in the one around it.                                      *)
InBlock(s) == Ends(s, "block") /\ s.arrays = s.curs + 1

StmtKinds(call, k) ==
  CASE call.typ \in {"IHU", "WHILE"} ->
         Append(Append(Append(Append(k, "cmp"), "expr"), "expr"), "block")
    [] call.typ = "HOR" ->
         Append(Append(Append(Append(k, "operand"), "expr"), "expr"), "block")
    [] call.typ = "YOSORO" -> Append(k, "expr")
    [] call.typ = "SET" -> Append(Append(k, "operand"), "expr")

(* A call turns shape s into shape t, the calls it makes included.          *)
Effect(call, s, t) ==
  LET is(name) == call.call = name IN
  \/ (is("consume_token") \/ is("parse_vars")) /\ t = s
  \/ /\ is("da_init")
     /\ s.arrays = s.curs /\ t = Shape(Append(s.kinds, "block"), s.arrays + 1, s.curs)
  \/ is("parse_operand") /\ t = Pushed("operand", s)
  \/ is("parse_expr") /\ t = Pushed("expr", s)
  \/ is("cmp_type") /\ t = Pushed("cmp", s)
  \/ is("parse_term") /\ Ends(s, "expr") /\ t = s
  \/ is("terms_add_operand") /\ Ends(t, "expr") /\ s = Pushed("operand", t)
  \/ /\ is("make_elem")
     /\ \E r \in Shapes : s = Pushed("expr", r) /\ t = Pushed("operand", r)
  \/ (is("parse_blk") \/ is("parser_parse")) /\ InBlock(s) /\ t = s
  \/ /\ is("make_stmt")
     /\ InBlock(t)
     /\ s = Shape(StmtKinds(call, t.kinds),
                  IF call.parts = 4 THEN t.arrays + 1 ELSE t.arrays, t.curs + 1)

Final == Shape(<<"block">>, 1, 0)

(* The calls lead from shape s to the end of parser_parse.                  *)
Path(calls, s, p) ==
  /\ p \in [1 .. (Len(calls) + 1) -> Shapes]
  /\ p[1] = s /\ p[Len(calls) + 1] = Final
  /\ \A i \in 1 .. Len(calls) : Effect(calls[i], p[i], p[i + 1])

Leads(calls, s) == calls \in Seq(Calls) /\ \E p : Path(calls, s, p)

-----------------------------------------------------------------------------
LEMMA LeadsNowhere == ASSUME NEW s, Leads(<<>>, s) PROVE s = Final
  BY DEF Leads, Path

LEMMA FinalLeads == Leads(<<>>, Final)
  <1>1. Final \in Shapes
    BY DEF Final, Shape, Shapes, Kinds
  <1>2. Path(<<>>, Final, [i \in 1 .. 1 |-> Final])
    BY <1>1 DEF Path
  <1>3. QED
    BY <1>2 DEF Leads

(* The first call is made, and the rest leads on.                           *)
LEMMA LeadsOn ==
  ASSUME NEW calls, NEW s, Leads(calls, s), calls # <<>>
  PROVE  /\ s \in Shapes /\ Head(calls) \in Calls /\ Tail(calls) \in Seq(Calls)
         /\ \E t \in Shapes : Effect(Head(calls), s, t) /\ Leads(Tail(calls), t)
  <1>1. calls \in Seq(Calls)
    BY DEF Leads
  <1>2. PICK p : Path(calls, s, p)
    BY DEF Leads
  <1>3. PICK n \in Nat : n = Len(calls) /\ n >= 1
    BY <1>1
  <1>4. Head(calls) = calls[1] /\ Head(calls) \in Calls
    BY <1>1, <1>3
  <1>5. /\ Tail(calls) \in Seq(Calls) /\ Len(Tail(calls)) = n - 1
        /\ \A i \in 1 .. (n - 1) : Tail(calls)[i] = calls[i + 1]
    BY <1>1, <1>3
  <1>6. p \in [1 .. (n + 1) -> Shapes] /\ p[1] = s /\ p[n + 1] = Final
    BY <1>2, <1>3 DEF Path
  <1>7. \A i \in 1 .. n : Effect(calls[i], p[i], p[i + 1])
    BY <1>2, <1>3 DEF Path
  <1> DEFINE q == [i \in 1 .. n |-> p[i + 1]]
  <1>8. Path(Tail(calls), p[2], q)
    <2>1. q \in [1 .. n -> Shapes]
      BY <1>6
    <2>2. q[1] = p[2] /\ q[n] = Final
      BY <1>3, <1>6
    <2>3. \A i \in 1 .. (n - 1) : Effect(Tail(calls)[i], q[i], q[i + 1])
      <3>1. SUFFICES ASSUME NEW i \in 1 .. (n - 1)
                     PROVE  Effect(Tail(calls)[i], q[i], q[i + 1])
        OBVIOUS
      <3>2. i + 1 \in 1 .. n /\ i \in 1 .. n
        OBVIOUS
      <3>3. q[i] = p[i + 1] /\ q[i + 1] = p[i + 1 + 1]
        BY <3>2
      <3>4. QED
        BY <1>5, <1>7, <3>2, <3>3
    <2>4. Len(Tail(calls)) + 1 = n
      BY <1>5
    <2> HIDE DEF q
    <2>5. QED
      BY <1>5, <2>1, <2>2, <2>3, <2>4 DEF Path
  <1>9. Leads(Tail(calls), p[2])
    BY <1>5, <1>8 DEF Leads
  <1>10. Effect(Head(calls), s, p[2]) /\ s \in Shapes /\ p[2] \in Shapes
    <2>1. 1 \in 1 .. n /\ 1 \in 1 .. (n + 1) /\ 2 \in 1 .. (n + 1) /\ 1 + 1 = 2
      BY <1>3
    <2>2. QED
      BY <1>4, <1>6, <1>7, <2>1
  <1>11. QED
    BY <1>4, <1>5, <1>9, <1>10

(* A call before calls that lead on.                                        *)
LEMMA LeadsBy ==
  ASSUME NEW c \in Calls, NEW calls, NEW s \in Shapes, NEW t,
         Effect(c, s, t), Leads(calls, t)
  PROVE  Leads(<<c>> \o calls, s)
  <1>1. calls \in Seq(Calls)
    BY DEF Leads
  <1>2. PICK p : Path(calls, t, p)
    BY DEF Leads
  <1>3. PICK n \in Nat : n = Len(calls)
    BY <1>1
  <1>4. PICK d \in Seq(Calls) :
          /\ d = <<c>> \o calls
          /\ Len(d) = n + 1 /\ d[1] = c
          /\ \A i \in 2 .. (n + 1) : d[i] = calls[i - 1]
    <2>1. <<c>> \in Seq(Calls) /\ Len(<<c>>) = 1 /\ <<c>>[1] = c
      OBVIOUS
    <2>2. /\ <<c>> \o calls \in Seq(Calls)
          /\ Len(<<c>> \o calls) = n + 1
          /\ (<<c>> \o calls)[1] = c
          /\ \A i \in 2 .. (n + 1) : (<<c>> \o calls)[i] = calls[i - 1]
      BY <1>1, <1>3, <2>1
    <2>3. QED
      BY <2>2
  <1> DEFINE q == [i \in 1 .. (n + 2) |-> IF i = 1 THEN s ELSE p[i - 1]]
  <1>5. p \in [1 .. (n + 1) -> Shapes] /\ p[1] = t /\ p[n + 1] = Final
    BY <1>2, <1>3 DEF Path
  <1>6. \A i \in 1 .. n : Effect(calls[i], p[i], p[i + 1])
    BY <1>2, <1>3 DEF Path
  <1>7. q \in [1 .. (n + 2) -> Shapes] /\ q[1] = s /\ q[n + 2] = Final
    BY <1>5
  <1>8. \A i \in 1 .. (n + 1) : Effect(d[i], q[i], q[i + 1])
    <2>1. SUFFICES ASSUME NEW i \in 1 .. (n + 1) PROVE Effect(d[i], q[i], q[i + 1])
      OBVIOUS
    <2>2. CASE i = 1
      <3>1. q[i] = s /\ q[i + 1] = t /\ d[i] = c
        BY <1>4, <1>5, <2>2
      <3>2. QED
        BY <3>1
    <2>3. CASE i # 1
      <3>1. PICK j \in 1 .. n : j = i - 1
        BY <2>3
      <3>2. q[i] = p[j] /\ q[i + 1] = p[j + 1] /\ d[i] = calls[j]
        BY <1>4, <3>1
      <3>3. QED
        BY <1>6, <3>2
    <2>4. QED
      BY <2>2, <2>3
  <1> HIDE DEF q
  <1>9. Path(d, s, q)
    <2>1. Len(d) + 1 = n + 2
      BY <1>4
    <2>2. QED
      BY <1>4, <1>7, <1>8, <2>1 DEF Path
  <1>10. QED
    BY <1>4, <1>9 DEF Leads

-----------------------------------------------------------------------------
(* Calls made one after the other.                                          *)
LEMMA One ==
  ASSUME NEW A, NEW a \in A, NEW s \in Seq(A), NEW r \in Seq(A)
  PROVE  (<<a>> \o s) \o r = <<a>> \o (s \o r)
  <1>1. <<a>> \in Seq(A)
    OBVIOUS
  <1>2. QED
    BY <1>1, ConcatAssociative, SMTT(60)

LEMMA Two ==
  ASSUME NEW A, NEW a \in A, NEW b \in A, NEW r \in Seq(A)
  PROVE  <<a, b>> \o r = <<a>> \o (<<b>> \o r)
  <1>1. <<a>> \in Seq(A) /\ <<b>> \in Seq(A) /\ <<a, b>> \in Seq(A)
    OBVIOUS
  <1>2. \A i \in 1 .. 2 : (<<a>> \o <<b>>)[i] = <<a, b>>[i]
    OBVIOUS
  <1>3. Len(<<a>> \o <<b>>) = 2 /\ Len(<<a, b>>) = 2 /\ <<a>> \o <<b>> \in Seq(A)
    OBVIOUS
  <1>4. <<a>> \o <<b>> = <<a, b>>
    BY <1>1, <1>2, <1>3, SeqEqual
  <1>5. (<<a>> \o <<b>>) \o r = <<a>> \o (<<b>> \o r)
    BY <1>1, One, SMTT(60)
  <1>6. QED
    BY <1>4, <1>5

LEMMA Three ==
  ASSUME NEW A, NEW a \in A, NEW b \in A, NEW c \in A, NEW r \in Seq(A)
  PROVE  <<a, b, c>> \o r = <<a>> \o (<<b>> \o (<<c>> \o r))
  <1>1. <<a>> \in Seq(A) /\ <<b, c>> \in Seq(A) /\ <<a, b, c>> \in Seq(A)
    OBVIOUS
  <1>2. \A i \in 1 .. 3 : (<<a>> \o <<b, c>>)[i] = <<a, b, c>>[i]
    OBVIOUS
  <1>3. Len(<<a>> \o <<b, c>>) = 3 /\ Len(<<a, b, c>>) = 3 /\ <<a>> \o <<b, c>> \in Seq(A)
    OBVIOUS
  <1>4. <<a>> \o <<b, c>> = <<a, b, c>>
    BY <1>1, <1>2, <1>3, SeqEqual
  <1>5. (<<a>> \o <<b, c>>) \o r = <<a>> \o (<<b, c>> \o r)
    BY <1>1, One, SMTT(60)
  <1>6. <<b, c>> \o r = <<b>> \o (<<c>> \o r)
    BY Two, SMTT(60)
  <1>7. QED
    BY <1>4, <1>5, <1>6

LEMMA SameAppended ==
  ASSUME NEW A, NEW s \in Seq(A), NEW t \in Seq(A), NEW u \in Seq(A), NEW r \in Seq(A),
         s = t \o u
  PROVE  s \o r = t \o (u \o r)
  BY ConcatAssociative, SMTT(60)

LEMMA IsShape ==
  ASSUME NEW k \in Seq(Kinds), NEW a \in Nat, NEW c \in Nat
  PROVE  /\ Shape(k, a, c) \in Shapes
         /\ Shape(k, a, c).kinds = k /\ Shape(k, a, c).arrays = a /\ Shape(k, a, c).curs = c
  BY DEF Shape, Shapes

LEMMA PushedIsShape ==
  ASSUME NEW s \in Shapes, NEW kind \in Kinds
  PROVE  /\ Pushed(kind, s) \in Shapes
         /\ Pushed(kind, s).kinds = Append(s.kinds, kind)
         /\ Pushed(kind, s).arrays = s.arrays /\ Pushed(kind, s).curs = s.curs
         /\ Ends(Pushed(kind, s), kind)
  BY DEF Pushed, Shape, Shapes, Ends

LEMMA Consuming ==
  ASSUME NEW s \in Shapes, NEW calls, Leads(calls, s)
  PROVE  Leads(<<Consume>> \o calls, s)
  BY LeadsBy DEF Consume, Do, Calls, Effect

LEMMA ParsingExpr ==
  ASSUME NEW s \in Shapes, NEW calls, Leads(calls, Pushed("expr", s))
  PROVE  Leads(<<ParseExpr>> \o calls, s)
  BY LeadsBy DEF ParseExpr, Do, Calls, Effect

LEMMA ParsingOperand ==
  ASSUME NEW s \in Shapes, NEW calls, Leads(calls, Pushed("operand", s))
  PROVE  Leads(<<ParseOperand>> \o calls, s)
  BY LeadsBy DEF ParseOperand, Do, Calls, Effect

(* The first call of a header is parse_operand, or what reads cmp_type.     *)
Header(first) == <<first, Consume, ParseExpr, Consume, ParseExpr>>

LEMMA HeaderCalls ==
  ASSUME NEW calls \in Seq(Calls), NEW a \in Calls
  PROVE  Header(a) \o calls =
           <<a>> \o (<<Consume>> \o (<<ParseExpr>> \o (<<Consume>> \o (<<ParseExpr>> \o calls))))
  <1>1. PICK b \in Calls, c \in Calls : b = Consume /\ c = ParseExpr
    BY DEF Do, Consume, ParseExpr, Calls
  <1>2. <<a, b>> \in Seq(Calls) /\ <<c, b, c>> \in Seq(Calls)
    OBVIOUS
  <1>3. Header(a) = <<a, b>> \o <<c, b, c>> /\ Header(a) \in Seq(Calls)
    <2>1. Header(a) = <<a, b, c, b, c>>
      BY <1>1 DEF Header
    <2>2. \A i \in 1 .. 5 : (<<a, b>> \o <<c, b, c>>)[i] = <<a, b, c, b, c>>[i]
      OBVIOUS
    <2>3. Len(<<a, b>> \o <<c, b, c>>) = 5 /\ Len(<<a, b, c, b, c>>) = 5
      OBVIOUS
    <2>4. <<a, b, c, b, c>> \in Seq(Calls) /\ <<a, b>> \o <<c, b, c>> \in Seq(Calls)
      OBVIOUS
    <2>5. QED
      BY <2>1, <2>2, <2>3, <2>4, SeqEqual
  <1>4. Header(a) \o calls = <<a, b>> \o (<<c, b, c>> \o calls)
    BY <1>2, <1>3, SameAppended
  <1>5. <<c, b, c>> \o calls = <<c>> \o (<<b>> \o (<<c>> \o calls))
    <2>1. b \in Calls /\ c \in Calls
      OBVIOUS
    <2>2. QED
      BY ONLY <2>1, calls \in Seq(Calls), Three, SMTT(60)
  <1>6. <<a, b>> \o (<<c, b, c>> \o calls) = <<a>> \o (<<b>> \o (<<c, b, c>> \o calls))
    <2>1. <<c, b, c>> \o calls \in Seq(Calls)
      BY <1>2
    <2>2. QED
      BY <2>1, Two, SMTT(60)
  <1>7. QED
    BY <1>1, <1>4, <1>5, <1>6

LEMMA ParsingHeader ==
  ASSUME NEW s \in Shapes, NEW kind \in Kinds, NEW first \in Calls, NEW calls,
         Effect(first, s, Pushed(kind, s)),
         Leads(calls, Pushed("expr", Pushed("expr", Pushed(kind, s))))
  PROVE  Leads(Header(first) \o calls, s)
  <1>1. PICK r \in Shapes, u \in Shapes :
          r = Pushed(kind, s) /\ u = Pushed("expr", r)
    BY PushedIsShape DEF Kinds
  <1>2. Leads(<<Consume>> \o (<<ParseExpr>> \o (<<Consume>> \o (<<ParseExpr>> \o calls))), r)
    BY <1>1, Consuming, ParsingExpr
  <1>3. Leads(<<first>> \o (<<Consume>> \o (<<ParseExpr>> \o (<<Consume>> \o
                (<<ParseExpr>> \o calls)))), s)
    BY <1>1, <1>2, LeadsBy
  <1>4. calls \in Seq(Calls)
    BY DEF Leads
  <1>5. QED
    BY <1>3, <1>4, HeaderCalls

(* A body, in a statement that is in the innermost array.                   *)
LEMMA ParsingBlk ==
  ASSUME NEW s \in Shapes, s.arrays = s.curs, NEW calls,
         Leads(calls, Shape(Append(s.kinds, "block"), s.arrays + 1, s.curs))
  PROVE  Leads(ParseBlk \o calls, s)
  <1>1. PICK t \in Shapes :
          /\ t = Shape(Append(s.kinds, "block"), s.arrays + 1, s.curs)
          /\ InBlock(t)
    <2>1. Append(s.kinds, "block") \in Seq(Kinds) /\ s.arrays + 1 \in Nat /\ s.curs \in Nat
          /\ Len(Append(s.kinds, "block")) >= 1
          /\ Append(s.kinds, "block")[Len(Append(s.kinds, "block"))] = "block"
      BY DEF Shapes, Kinds
    <2>2. QED
      BY <2>1 DEF Shape, Shapes, InBlock, Ends
  <1>2. Leads(<<Consume>> \o calls, t)
    BY <1>1, Consuming
  <1>3. Leads(<<Do("parse_blk")>> \o (<<Consume>> \o calls), t)
    BY <1>1, <1>2, LeadsBy DEF Do, Calls, Effect
  <1>4. Leads(<<Do("da_init")>> \o (<<Do("parse_blk")>> \o (<<Consume>> \o calls)), s)
    BY <1>1, <1>3, LeadsBy DEF Do, Calls, Effect
  <1>5. calls \in Seq(Calls) /\ Do("da_init") \in Calls /\ Do("parse_blk") \in Calls
        /\ Consume \in Calls
    BY DEF Leads, Do, Consume, Calls
  <1>6. ParseBlk \o calls =
          <<Do("da_init")>> \o (<<Do("parse_blk")>> \o (<<Consume>> \o calls))
    <2>1. PICK a \in Calls, b \in Calls, c \in Calls :
            a = Do("da_init") /\ b = Do("parse_blk") /\ c = Consume
      BY <1>5
    <2>2. <<a, b, c>> \o calls = <<a>> \o (<<b>> \o (<<c>> \o calls))
      BY <1>5, Three, SMTT(60)
    <2>3. ParseBlk = <<a, b, c>>
      BY <2>1 DEF ParseBlk
    <2>4. QED
      BY <2>1, <2>2, <2>3
  <1>7. QED
    BY <1>4, <1>6

(* The statement is made of its parts and goes to the innermost array.      *)
LEMMA MakingStmt ==
  ASSUME NEW s \in Shapes, InBlock(s), NEW c \in Calls, c.call = "make_stmt",
         NEW calls, Leads(calls, s)
  PROVE  Leads(<<c>> \o calls,
               Shape(StmtKinds(c, s.kinds),
                     IF c.parts = 4 THEN s.arrays + 1 ELSE s.arrays, s.curs + 1))
  <1>1. c.typ \in {"IHU", "WHILE", "HOR", "YOSORO", "SET"}
    BY DEF Calls
  <1>2. StmtKinds(c, s.kinds) \in Seq(Kinds)
    BY <1>1 DEF StmtKinds, Shapes, Kinds
  <1>3. PICK r \in Shapes :
          r = Shape(StmtKinds(c, s.kinds),
                    IF c.parts = 4 THEN s.arrays + 1 ELSE s.arrays, s.curs + 1)
    <2>1. s.arrays + 1 \in Nat /\ s.arrays \in Nat /\ s.curs + 1 \in Nat
      BY DEF Shapes
    <2>2. QED
      BY <1>2, <2>1, IsShape
  <1>4. Effect(c, r, s)
    BY <1>3 DEF Effect
  <1>5. QED
    BY <1>3, <1>4, LeadsBy

(* Kept folded where the provers lose their way in concatenations.          *)
Then(s, t) == s \o t

LEMMA Bodies ==
  ASSUME NEW A, NEW x \in Seq(A), NEW y \in Seq(A), NEW z \in Seq(A), NEW r \in Seq(A)
  PROVE  Then(Then(Then(x, y), z), r) = Then(x, Then(y, Then(z, r)))
  <1>1. x \o y \in Seq(A) /\ z \o r \in Seq(A)
    OBVIOUS
  <1>2. (x \o y \o z) \o r = (x \o y) \o (z \o r)
    BY <1>1, ConcatAssociative, SMTT(60)
  <1>3. (x \o y) \o (z \o r) = x \o (y \o (z \o r))
    BY <1>1, ConcatAssociative, SMTT(60)
  <1>4. QED
    BY <1>2, <1>3 DEF Then

LEMMA BlockCalls ==
  ASSUME NEW first \in Calls, NEW c \in Calls, NEW calls \in Seq(Calls)
  PROVE  (Header(first) \o ParseBlk \o <<c>>) \o calls =
           Header(first) \o (ParseBlk \o (<<c>> \o calls))
  <1>1. Header(first) \in Seq(Calls) /\ ParseBlk \in Seq(Calls) /\ <<c>> \in Seq(Calls)
    BY DEF Header, ParseBlk, Consume, ParseExpr, Do, Calls
  <1>2. PICK A : A = Calls
    OBVIOUS
  <1>3. PICK x \in Seq(A), y \in Seq(A), z \in Seq(A), r \in Seq(A) :
          x = Header(first) /\ y = ParseBlk /\ z = <<c>> /\ r = calls
    BY <1>1, <1>2
  <1>4. /\ x \in Seq(A) /\ y \in Seq(A) /\ z \in Seq(A) /\ r \in Seq(A)
    BY <1>3
  <1>5. Then(Then(Then(x, y), z), r) = Then(x, Then(y, Then(z, r)))
    BY ONLY <1>4, Bodies
  <1>6. QED
    BY <1>3, <1>5 DEF Then

(* A statement with a body, once its cur_stmt has been pushed.              *)
LEMMA ParsingBlock ==
  ASSUME NEW s \in Shapes, InBlock(s), NEW calls, Leads(calls, s),
         NEW first \in Calls, NEW kind \in Kinds, NEW typ,
         \/ first = ParseOperand /\ kind = "operand" /\ typ = "HOR"
         \/ first = Do("cmp_type") /\ kind = "cmp" /\ typ \in {"IHU", "WHILE"}
  PROVE  Leads((Header(first) \o ParseBlk \o <<MakeStmt(typ, 4)>>) \o calls,
               Shape(s.kinds, s.arrays, s.curs + 1))
  <1>1. PICK c \in Calls : c = MakeStmt(typ, 4)
    BY DEF MakeStmt, Calls
  <1>2. c.call = "make_stmt" /\ c.typ = typ /\ c.parts = 4
    BY <1>1 DEF MakeStmt
  <1>3. PICK r \in Shapes : r = Shape(s.kinds, s.arrays, s.curs + 1)
    <2>1. s.kinds \in Seq(Kinds) /\ s.arrays \in Nat /\ s.curs + 1 \in Nat
      BY DEF Shapes
    <2>2. QED
      BY <2>1, IsShape
  <1>4. /\ r.kinds = s.kinds /\ r.kinds \in Seq(Kinds)
        /\ r.arrays = s.arrays /\ r.curs = s.curs + 1 /\ s.arrays = s.curs + 1
    BY <1>3 DEF Shape, Shapes, InBlock
  <1>5. PICK u \in Shapes : u = Pushed("expr", Pushed("expr", Pushed(kind, r)))
    BY PushedIsShape DEF Kinds
  <1>6. /\ u.kinds = Append(Append(Append(s.kinds, kind), "expr"), "expr")
        /\ u.arrays = s.arrays /\ u.curs = s.curs + 1
    BY <1>4, <1>5 DEF Pushed, Shape
  <1>7. Leads(<<c>> \o calls, Shape(StmtKinds(c, s.kinds), s.arrays + 1, s.curs + 1))
    BY <1>2, MakingStmt
  <1>8. StmtKinds(c, s.kinds) = Append(u.kinds, "block")
    BY <1>2, <1>6 DEF StmtKinds, ParseOperand, Do
  <1>9. Leads(<<c>> \o calls, Shape(Append(u.kinds, "block"), u.arrays + 1, u.curs))
    BY <1>6, <1>7, <1>8
  <1>10. Leads(ParseBlk \o (<<c>> \o calls), u)
    BY <1>4, <1>6, <1>9, ParsingBlk
  <1>11. Effect(first, r, Pushed(kind, r))
    BY DEF Effect, ParseOperand, Do
  <1>12. Leads(Header(first) \o (ParseBlk \o (<<c>> \o calls)), r)
    BY <1>5, <1>10, <1>11, ParsingHeader
  <1>13. calls \in Seq(Calls)
    BY DEF Leads
  <1>14. (Header(first) \o ParseBlk \o <<c>>) \o calls = Header(first) \o (ParseBlk \o (<<c>> \o calls))
    BY <1>13, BlockCalls
  <1>15. QED
    BY <1>1, <1>3, <1>12, <1>14

LEMMA SetCalls ==
  ASSUME NEW a \in Calls, NEW b \in Calls, NEW c \in Calls, NEW d \in Calls,
         NEW calls \in Seq(Calls)
  PROVE  Then(<<a, b, c, d>>, calls) =
           Then(<<a>>, Then(<<b>>, Then(<<c>>, Then(<<d>>, calls))))
  <1>1. <<a, b>> \in Seq(Calls) /\ <<c, d>> \in Seq(Calls) /\ <<a, b, c, d>> \in Seq(Calls)
    OBVIOUS
  <1>2. \A i \in 1 .. 4 : (<<a, b>> \o <<c, d>>)[i] = <<a, b, c, d>>[i]
    OBVIOUS
  <1>3. /\ Len(<<a, b>> \o <<c, d>>) = 4 /\ Len(<<a, b, c, d>>) = 4
        /\ <<a, b>> \o <<c, d>> \in Seq(Calls)
    OBVIOUS
  <1>4. <<a, b, c, d>> = <<a, b>> \o <<c, d>>
    BY <1>1, <1>2, <1>3, SeqEqual
  <1>5. <<a, b, c, d>> \o calls = <<a, b>> \o (<<c, d>> \o calls)
    <2>1. (<<a, b>> \o <<c, d>>) \o calls = <<a, b>> \o (<<c, d>> \o calls)
      BY <1>1, ConcatAssociative, SMTT(60)
    <2>2. QED
      BY <1>4, <2>1
  <1>6. <<c, d>> \o calls = <<c>> \o (<<d>> \o calls)
    BY Two, SMTT(60)
  <1>7. <<a, b>> \o (<<c, d>> \o calls) = <<a>> \o (<<b>> \o (<<c, d>> \o calls))
    <2>1. <<c, d>> \o calls \in Seq(Calls)
      BY <1>1
    <2>2. QED
      BY <2>1, Two, SMTT(60)
  <1>8. QED
    BY <1>5, <1>6, <1>7 DEF Then

(* A command.                                                               *)
LEMMA ParsingYosoro ==
  ASSUME NEW s \in Shapes, InBlock(s), NEW calls, Leads(calls, s)
  PROVE  Leads(<<ParseExpr, MakeStmt("YOSORO", 1)>> \o calls,
               Shape(s.kinds, s.arrays, s.curs + 1))
  <1>1. PICK c \in Calls : c = MakeStmt("YOSORO", 1)
    BY DEF MakeStmt, Calls
  <1>2. c.call = "make_stmt" /\ c.typ = "YOSORO" /\ c.parts = 1
    BY <1>1 DEF MakeStmt
  <1>3. PICK r \in Shapes : r = Shape(s.kinds, s.arrays, s.curs + 1)
    <2>1. s.kinds \in Seq(Kinds) /\ s.arrays \in Nat /\ s.curs + 1 \in Nat
      BY DEF Shapes
    <2>2. QED
      BY <2>1, IsShape
  <1>4. Leads(<<c>> \o calls, Shape(StmtKinds(c, s.kinds), s.arrays, s.curs + 1))
    BY <1>2, MakingStmt
  <1>5. Shape(StmtKinds(c, s.kinds), s.arrays, s.curs + 1) = Pushed("expr", r)
    BY <1>2, <1>3 DEF StmtKinds, Pushed, Shape
  <1>6. Leads(<<ParseExpr>> \o (<<c>> \o calls), r)
    BY <1>4, <1>5, ParsingExpr
  <1>7. calls \in Seq(Calls) /\ ParseExpr \in Calls
    BY DEF Leads, ParseExpr, Do, Calls
  <1>8. <<ParseExpr, c>> \o calls = <<ParseExpr>> \o (<<c>> \o calls)
    BY <1>7, Two, SMTT(60)
  <1>9. QED
    BY <1>1, <1>3, <1>6, <1>8

LEMMA ParsingSet ==
  ASSUME NEW s \in Shapes, InBlock(s), NEW calls, Leads(calls, s)
  PROVE  Leads(<<ParseOperand, Consume, ParseExpr, MakeStmt("SET", 2)>> \o calls,
               Shape(s.kinds, s.arrays, s.curs + 1))
  <1>1. PICK c \in Calls : c = MakeStmt("SET", 2)
    BY DEF MakeStmt, Calls
  <1>2. c.call = "make_stmt" /\ c.typ = "SET" /\ c.parts = 2
    BY <1>1 DEF MakeStmt
  <1>3. PICK r \in Shapes : r = Shape(s.kinds, s.arrays, s.curs + 1)
    <2>1. s.kinds \in Seq(Kinds) /\ s.arrays \in Nat /\ s.curs + 1 \in Nat
      BY DEF Shapes
    <2>2. QED
      BY <2>1, IsShape
  <1>4. PICK u \in Shapes : u = Pushed("operand", r)
    BY PushedIsShape DEF Kinds
  <1>5. Leads(<<c>> \o calls, Shape(StmtKinds(c, s.kinds), s.arrays, s.curs + 1))
    BY <1>2, MakingStmt
  <1>6. Shape(StmtKinds(c, s.kinds), s.arrays, s.curs + 1) = Pushed("expr", u)
    BY <1>2, <1>3, <1>4 DEF StmtKinds, Pushed, Shape
  <1>7. Leads(<<Consume>> \o (<<ParseExpr>> \o (<<c>> \o calls)), u)
    BY <1>5, <1>6, ParsingExpr, Consuming
  <1>8. Leads(<<ParseOperand>> \o (<<Consume>> \o (<<ParseExpr>> \o (<<c>> \o calls))), r)
    BY <1>4, <1>7, ParsingOperand
  <1>9. /\ calls \in Seq(Calls) /\ ParseOperand \in Calls
        /\ Consume \in Calls /\ ParseExpr \in Calls
    BY DEF Leads, ParseOperand, Consume, ParseExpr, Do, Calls
  <1>10. <<ParseOperand, Consume, ParseExpr, c>> \o calls =
           <<ParseOperand>> \o (<<Consume>> \o (<<ParseExpr>> \o (<<c>> \o calls)))
    <2>1. PICK x \in Calls, y \in Calls, z \in Calls :
            x = ParseOperand /\ y = Consume /\ z = ParseExpr
      BY <1>9
    <2>2. Then(<<x, y, z, c>>, calls) = Then(<<x>>, Then(<<y>>, Then(<<z>>, Then(<<c>>, calls))))
      BY <1>9, <2>1, SetCalls
    <2>3. QED
      BY <2>1, <2>2 DEF Then
  <1>11. QED
    BY <1>1, <1>3, <1>8, <1>10

(* What parse_stmts calls behind the keyword of a statement, or of          *)
(* declarations.                                                            *)
LEMMA ParsingStmt ==
  ASSUME NEW s \in Shapes, InBlock(s), NEW calls, Leads(calls, s),
         NEW keyword \in {"VARS", "IHU", "WHILE", "HOR", "YOSORO", "SET"}
  PROVE  Leads(StmtCalls(keyword) \o calls,
               Shape(s.kinds, s.arrays, IF keyword = "VARS" THEN s.curs ELSE s.curs + 1))
  <1>1. ParseOperand \in Calls /\ Do("cmp_type") \in Calls /\ Do("parse_vars") \in Calls
    BY DEF ParseOperand, Do, Calls
  <1>2. CASE keyword \in {"IHU", "WHILE"}
    <2>1. StmtCalls(keyword) = Header(Do("cmp_type")) \o ParseBlk \o <<MakeStmt(keyword, 4)>>
      BY <1>2 DEF StmtCalls, ParseCond, Header
    <2>2. QED
      BY <1>1, <1>2, <2>1, ParsingBlock DEF Kinds
  <1>3. CASE keyword = "HOR"
    <2>1. StmtCalls(keyword) = Header(ParseOperand) \o ParseBlk \o <<MakeStmt("HOR", 4)>>
      BY <1>3 DEF StmtCalls, Header
    <2>2. QED
      BY <1>1, <1>3, <2>1, ParsingBlock DEF Kinds
  <1>4. CASE keyword = "YOSORO"
    BY <1>4, ParsingYosoro DEF StmtCalls
  <1>5. CASE keyword = "SET"
    BY <1>5, ParsingSet DEF StmtCalls
  <1>6. CASE keyword = "VARS"
    <2>1. Leads(<<Do("parse_vars")>> \o calls, s)
      BY <1>1, LeadsBy DEF Effect, Do
    <2>2. Shape(s.kinds, s.arrays, s.curs) = s
      BY DEF Shape, Shapes
    <2>3. QED
      BY <1>6, <2>1, <2>2 DEF StmtCalls
  <1>7. QED
    BY <1>2, <1>3, <1>4, <1>5, <1>6

-----------------------------------------------------------------------------
(* Where the steps of the parser lead.                                      *)
LEMMA Returns ==
  ASSUME NEW t, Leads(Tail(todo), t), Becomes(<<>>)
  PROVE  Leads(todo', t)
  <1>1. Tail(todo) \in Seq(Calls)
    BY DEF Leads
  <1>2. <<>> \o Tail(todo) = Tail(todo)
    BY <1>1, ConcatEmptySeq
  <1>3. QED
    BY <1>2 DEF Becomes

LEMMA Called ==
  ASSUME NEW s, Leads(todo, s), NEW name, Call(name)
  PROVE  /\ s \in Shapes /\ Head(todo) \in Calls /\ Head(todo).call = name
         /\ Tail(todo) \in Seq(Calls)
         /\ \E t \in Shapes : Effect(Head(todo), s, t) /\ Leads(Tail(todo), t)
  BY LeadsOn DEF Call

LEMMA ConsumeLeads ==
  ASSUME NEW s, Leads(todo, s), consume_token
  PROVE  Leads(todo', s)
  <1>1. PICK t \in Shapes : Effect(Head(todo), s, t) /\ Leads(Tail(todo), t)
    BY Called DEF consume_token
  <1>2. Head(todo).call = "consume_token"
    BY DEF consume_token, Call
  <1>3. t = s
    BY <1>1, <1>2 DEF Effect
  <1>4. QED
    BY <1>1, <1>3, Returns DEF consume_token

LEMMA DaInitLeads ==
  ASSUME NEW s, Leads(todo, s), da_init
  PROVE  /\ s.arrays = s.curs
         /\ Leads(todo', Shape(Append(s.kinds, "block"), s.arrays + 1, s.curs))
  <1>1. PICK t \in Shapes : Effect(Head(todo), s, t) /\ Leads(Tail(todo), t)
    BY Called DEF da_init
  <1>2. Head(todo).call = "da_init"
    BY DEF da_init, Call
  <1>3. s.arrays = s.curs /\ t = Shape(Append(s.kinds, "block"), s.arrays + 1, s.curs)
    BY <1>1, <1>2 DEF Effect
  <1>4. QED
    BY <1>1, <1>3, Returns DEF da_init

LEMMA ElemCalls ==
  ASSUME NEW m \in Calls, NEW r \in Seq(Calls)
  PROVE  <<ParseExpr, Consume, m>> \o r = <<ParseExpr>> \o (<<Consume>> \o (<<m>> \o r))
  <1>1. PICK a \in Calls, b \in Calls : a = ParseExpr /\ b = Consume
    BY DEF ParseExpr, Consume, Do, Calls
  <1>2. a \in Calls /\ b \in Calls /\ m \in Calls /\ r \in Seq(Calls)
    BY <1>1
  <1>3. <<a, b, m>> \o r = <<a>> \o (<<b>> \o (<<m>> \o r))
    BY <1>2, Three, SMTT(60)
  <1>4. QED
    BY <1>1, <1>3

(* An operand is made at once, or once its index has been parsed.           *)
LEMMA OperandLeads ==
  ASSUME NEW s, Leads(todo, s), Call("parse_operand")
  PROVE  /\ Becomes(<<>>) => Leads(todo', Pushed("operand", s))
         /\ \A d \in Nat : Becomes(<<ParseExpr, Consume, MakeElem(d)>>) => Leads(todo', s)
  <1>1. PICK t \in Shapes : Effect(Head(todo), s, t) /\ Leads(Tail(todo), t)
    BY Called
  <1>2. Head(todo).call = "parse_operand"
    BY DEF Call
  <1>3. t = Pushed("operand", s)
    BY <1>1, <1>2 DEF Effect
  <1>4. s \in Shapes /\ Tail(todo) \in Seq(Calls)
    BY Called
  <1>5. ASSUME NEW d \in Nat, Becomes(<<ParseExpr, Consume, MakeElem(d)>>)
        PROVE  Leads(todo', s)
    <2>1. PICK m \in Calls : m = MakeElem(d)
      BY DEF MakeElem, Calls
    <2>2. PICK u \in Shapes : u = Pushed("expr", s)
      BY <1>4, PushedIsShape DEF Kinds
    <2>3. Effect(m, u, t)
      BY <1>3, <1>4, <2>1, <2>2 DEF Effect, MakeElem
    <2>4. Leads(<<m>> \o Tail(todo), u)
      BY <1>1, <2>3, LeadsBy
    <2>5. Leads(<<ParseExpr>> \o (<<Consume>> \o (<<m>> \o Tail(todo))), s)
      BY <1>4, <2>2, <2>4, Consuming, ParsingExpr
    <2>6. QED
      BY <1>4, <1>5, <2>1, <2>5, ElemCalls DEF Becomes
  <1>6. QED
    BY <1>1, <1>3, <1>5, Returns

LEMMA ElemLeads ==
  ASSUME NEW s, Leads(todo, s), make_elem
  PROVE  \E r \in Shapes : s = Pushed("expr", r) /\ Leads(todo', Pushed("operand", r))
  <1>1. PICK t \in Shapes : Effect(Head(todo), s, t) /\ Leads(Tail(todo), t)
    BY Called DEF make_elem
  <1>2. Head(todo).call = "make_elem"
    BY DEF make_elem, Call
  <1>3. \E r \in Shapes : s = Pushed("expr", r) /\ t = Pushed("operand", r)
    BY <1>1, <1>2 DEF Effect
  <1>4. Leads(todo', t)
    BY <1>1, Returns DEF make_elem
  <1>5. QED
    BY <1>3, <1>4

LEMMA ExprLeads ==
  ASSUME NEW s, Leads(todo, s), parse_expr
  PROVE  Leads(todo', Pushed("expr", s))
  <1>1. PICK t \in Shapes : Effect(Head(todo), s, t) /\ Leads(Tail(todo), t)
    BY Called DEF parse_expr
  <1>2. Head(todo).call = "parse_expr"
    BY DEF parse_expr, Call
  <1>3. t = Pushed("expr", s) /\ Ends(t, "expr")
    <2>1. s \in Shapes
      BY Called DEF parse_expr
    <2>2. t = Pushed("expr", s)
      BY <1>1, <1>2 DEF Effect
    <2>3. QED
      BY <2>1, <2>2, PushedIsShape DEF Kinds
  <1>4. Effect(Do("parse_term"), t, t)
    BY <1>3 DEF Effect, Do
  <1>5. Leads(<<Do("parse_term")>> \o Tail(todo), t)
    BY <1>1, <1>4, LeadsBy DEF Do, Calls
  <1>6. QED
    BY <1>3, <1>5 DEF parse_expr, Becomes

LEMMA TermLeads ==
  ASSUME NEW s, Leads(todo, s), Call("parse_term")
  PROVE  /\ Ends(s, "expr")
         /\ Becomes(<<>>) => Leads(todo', s)
         /\ todo' = <<ParseOperand, AddOperand(Sign)>> \o todo => Leads(todo', s)
  <1>1. PICK t \in Shapes : Effect(Head(todo), s, t) /\ Leads(Tail(todo), t)
    BY Called
  <1>2. Head(todo).call = "parse_term"
    BY DEF Call
  <1>3. Ends(s, "expr") /\ t = s
    BY <1>1, <1>2 DEF Effect
  <1>4. s \in Shapes
    BY Called
  <1>5. ASSUME todo' = <<ParseOperand, AddOperand(Sign)>> \o todo PROVE Leads(todo', s)
    <2>1. PICK a \in Calls : a = AddOperand(Sign)
      <3>1. PICK sign \in {1, -1} : sign = Sign
        BY DEF Sign
      <3>2. AddOperand(sign) \in Calls
        BY DEF AddOperand, Calls
      <3>3. QED
        BY <3>1, <3>2
    <2>2. PICK u \in Shapes : u = Pushed("operand", s)
      BY <1>4, PushedIsShape DEF Kinds
    <2>3. Effect(a, u, s)
      BY <1>3, <2>1, <2>2 DEF Effect, AddOperand
    <2>4. Leads(<<a>> \o todo, u)
      BY <2>3, LeadsBy
    <2>5. Leads(<<ParseOperand>> \o (<<a>> \o todo), s)
      BY <1>4, <2>2, <2>4, ParsingOperand
    <2>6. ParseOperand \in Calls /\ todo \in Seq(Calls)
      BY DEF ParseOperand, Do, Calls, Leads
    <2>7. <<ParseOperand, a>> \o todo = <<ParseOperand>> \o (<<a>> \o todo)
      BY <2>6, Two, SMTT(60)
    <2>8. QED
      BY <1>5, <2>1, <2>5, <2>7
  <1>6. QED
    BY <1>1, <1>3, <1>5, Returns

LEMMA AddLeads ==
  ASSUME NEW s, Leads(todo, s), add_operand
  PROVE  \E t \in Shapes : s = Pushed("operand", t) /\ Ends(t, "expr") /\ Leads(todo', t)
  <1>1. PICK t \in Shapes : Effect(Head(todo), s, t) /\ Leads(Tail(todo), t)
    BY Called DEF add_operand
  <1>2. Head(todo).call = "terms_add_operand"
    BY DEF add_operand, Call
  <1>3. s = Pushed("operand", t) /\ Ends(t, "expr")
    BY <1>1, <1>2 DEF Effect
  <1>4. Leads(todo', t)
    BY <1>1, Returns DEF add_operand
  <1>5. QED
    BY <1>3, <1>4

LEMMA CmpLeads ==
  ASSUME NEW s, Leads(todo, s), Call("cmp_type"), Becomes(<<>>)
  PROVE  Leads(todo', Pushed("cmp", s))
  <1>1. PICK t \in Shapes : Effect(Head(todo), s, t) /\ Leads(Tail(todo), t)
    BY Called
  <1>2. Head(todo).call = "cmp_type"
    BY DEF Call
  <1>3. t = Pushed("cmp", s)
    BY <1>1, <1>2 DEF Effect
  <1>4. QED
    BY <1>1, <1>3, Returns

LEMMA MakeLeads ==
  ASSUME NEW s, Leads(todo, s), make_stmt
  PROVE  LET call == Head(todo) IN
         /\ call \in Calls /\ call.call = "make_stmt"
         /\ \E t \in Shapes :
              /\ InBlock(t) /\ Leads(todo', t)
              /\ s = Shape(StmtKinds(call, t.kinds),
                           IF call.parts = 4 THEN t.arrays + 1 ELSE t.arrays, t.curs + 1)
  <1>1. PICK t \in Shapes : Effect(Head(todo), s, t) /\ Leads(Tail(todo), t)
    BY Called DEF make_stmt
  <1>2. Head(todo).call = "make_stmt"
    BY DEF make_stmt, Call
  <1>3. /\ InBlock(t)
        /\ s = Shape(StmtKinds(Head(todo), t.kinds),
                     IF Head(todo).parts = 4 THEN t.arrays + 1 ELSE t.arrays, t.curs + 1)
    BY <1>1, <1>2 DEF Effect
  <1>4. Leads(todo', t)
    BY <1>1, Returns DEF make_stmt
  <1>5. Head(todo) \in Calls
    BY Called DEF make_stmt
  <1>6. QED
    BY <1>2, <1>3, <1>4, <1>5

LEMMA VarsLeads ==
  ASSUME NEW s, Leads(todo, s), Call("parse_vars"), Becomes(<<>>)
  PROVE  Leads(todo', s)
  <1>1. PICK t \in Shapes : Effect(Head(todo), s, t) /\ Leads(Tail(todo), t)
    BY Called
  <1>2. Head(todo).call = "parse_vars"
    BY DEF Call
  <1>3. t = s
    BY <1>1, <1>2 DEF Effect
  <1>4. QED
    BY <1>1, <1>3, Returns

(* The loops that call parse_stmts.                                         *)
LEMMA KeywordOpens ==
  ASSUME OpensStmt
  PROVE  /\ TokenAt(pos + 1).type \in {"VARS", "IHU", "WHILE", "HOR", "YOSORO", "SET"}
         /\ Token.type \in {"LBRACE", "COLON"}
  BY DEF OpensStmt, Keywords

LEMMA BlockLeads ==
  ASSUME NEW s, Leads(todo, s), Call("parse_blk") \/ Call("parser_parse")
  PROVE  /\ InBlock(s)
         /\ Becomes(<<>>) => Leads(todo', s)
         /\ Opens => Leads(todo', Shape(s.kinds, s.arrays,
                                        IF TokenAt(pos + 1).type = "VARS" THEN s.curs
                                        ELSE s.curs + 1))
  <1>1. PICK t \in Shapes : Effect(Head(todo), s, t) /\ Leads(Tail(todo), t)
    BY Called
  <1>2. Head(todo).call \in {"parse_blk", "parser_parse"}
    BY DEF Call
  <1>3. InBlock(s) /\ t = s
    BY <1>1, <1>2 DEF Effect
  <1>4. s \in Shapes
    BY Called
  <1>5. ASSUME Opens
        PROVE  Leads(todo', Shape(s.kinds, s.arrays,
                                  IF TokenAt(pos + 1).type = "VARS" THEN s.curs
                                  ELSE s.curs + 1))
    <2>1. TokenAt(pos + 1).type \in {"VARS", "IHU", "WHILE", "HOR", "YOSORO", "SET"}
      BY <1>5, KeywordOpens DEF Opens
    <2>2. PICK k \in {"VARS", "IHU", "WHILE", "HOR", "YOSORO", "SET"} :
            k = TokenAt(pos + 1).type
      BY <2>1
    <2>3. Leads(StmtCalls(k) \o todo,
                Shape(s.kinds, s.arrays, IF k = "VARS" THEN s.curs ELSE s.curs + 1))
      BY <1>3, <1>4, ParsingStmt
    <2>4. todo' = StmtCalls(k) \o todo
      BY <1>5, <2>2 DEF Opens
    <2>5. QED
      BY <2>2, <2>3, <2>4
  <1>6. QED
    BY <1>1, <1>3, <1>5, Returns

-----------------------------------------------------------------------------
(* The parts that wait in built.                                            *)

(* Expressions and statements over declarations D, with the expressions of  *)
(* E and the statements of S inside of them (parser.h).  A condition that   *)
(* did not begin with a comparison has none.                                *)
Operands(D, E) ==
  [typ : {"INT_VAR"}, decl : D] \cup [typ : {"ARR_ELEM"}, decl : D, idx : E]
OperandTerms(D, E) == [coefficient : IntW, operand : Operands(D, E)]
Exprs(D, E) == [constant : IntW, terms : Seq(OperandTerms(D, E))]
Comparisons == CmpType \cup {"none"}
Stmts(D, E, S) ==
  [typ : {"IHU", "WHILE"}, cond : [typ : Comparisons, left : E, right : E], stmts : Seq(S)]
  \cup [typ : {"HOR"}, var : Operands(D, E), start : E, end : E, stmts : Seq(S)]
  \cup [typ : {"YOSORO"}, expr : E]
  \cup [typ : {"SET"}, operand : Operands(D, E), expr : E]

(* E holds what is inside its expressions, and nests only so deep.          *)
FiniteExprs(D, E) ==
  /\ E \subseteq Exprs(D, E)
  /\ \E n \in Nat, nested \in [E -> Nat] : \A e \in E :
       /\ nested[e] < n
       /\ \A i \in DOMAIN e.terms :
            LET o == e.terms[i].operand IN
            o.typ = "ARR_ELEM" => nested[o.idx] < nested[e]

FiniteStmts(D, E, S) ==
  /\ S \subseteq Stmts(D, E, S)
  /\ \E n \in Nat, nested \in [S -> Nat] : \A s \in S :
       /\ nested[s] < n
       /\ s.typ \in {"IHU", "WHILE", "HOR"} =>
            \A i \in DOMAIN s.stmts : nested[s.stmts[i]] < nested[s]

PartsOf(D, E, S) ==
  [kind \in Kinds |->
     CASE kind = "block"   -> Seq(S)
       [] kind = "operand" -> Operands(D, E)
       [] kind = "expr"    -> Exprs(D, E)
       [] kind = "cmp"     -> Comparisons]

(* The parts are of the kinds k, where P holds the parts of each kind.      *)
Fits(parts, k, P) ==
  /\ parts \in Seq(UNION {P[kind] : kind \in Kinds})
  /\ Len(parts) = Len(k)
  /\ \A i \in 1 .. Len(k) : parts[i] \in P[k[i]]

LEMMA FitsPush ==
  ASSUME NEW P, NEW parts, NEW k \in Seq(Kinds), Fits(parts, k, P),
         NEW kind \in Kinds, NEW p \in P[kind]
  PROVE  Fits(Append(parts, p), Append(k, kind), P)
  <1>1. PICK A : A = UNION {P[x] : x \in Kinds}
    OBVIOUS
  <1>2. parts \in Seq(A) /\ Len(parts) = Len(k) /\ \A i \in 1 .. Len(k) : parts[i] \in P[k[i]]
    BY <1>1 DEF Fits
  <1>3. p \in A
    BY <1>1
  <1>4. PICK n \in Nat : n = Len(k)
    OBVIOUS
  <1>5. /\ Append(parts, p) \in Seq(A)
        /\ Len(Append(parts, p)) = n + 1 /\ Len(Append(k, kind)) = n + 1
        /\ Append(parts, p)[n + 1] = p /\ Append(k, kind)[n + 1] = kind
        /\ \A i \in 1 .. n : Append(parts, p)[i] = parts[i] /\ Append(k, kind)[i] = k[i]
    BY <1>2, <1>3, <1>4
  <1>6. \A i \in 1 .. (n + 1) : Append(parts, p)[i] \in P[Append(k, kind)[i]]
    <2>1. SUFFICES ASSUME NEW i \in 1 .. (n + 1)
                   PROVE  Append(parts, p)[i] \in P[Append(k, kind)[i]]
      OBVIOUS
    <2>2. CASE i = n + 1
      BY <1>5, <2>2
    <2>3. CASE i # n + 1
      <3>1. i \in 1 .. n
        BY <2>3
      <3>2. QED
        BY <1>2, <1>4, <1>5, <3>1
    <2>4. QED
      BY <2>2, <2>3
  <1>7. QED
    BY <1>1, <1>5, <1>6 DEF Fits

LEMMA FitsPop ==
  ASSUME NEW P, NEW parts, NEW k \in Seq(Kinds), NEW kind \in Kinds,
         Fits(parts, Append(k, kind), P)
  PROVE  Fits(Front(parts), k, P) /\ Last(parts) \in P[kind]
  <1>1. PICK A : A = UNION {P[x] : x \in Kinds}
    OBVIOUS
  <1>2. PICK n \in Nat : n = Len(k)
    OBVIOUS
  <1>3. /\ parts \in Seq(A) /\ Len(parts) = n + 1
        /\ \A i \in 1 .. (n + 1) : parts[i] \in P[Append(k, kind)[i]]
    BY <1>1, <1>2 DEF Fits
  <1>4. Append(k, kind)[n + 1] = kind /\ \A i \in 1 .. n : Append(k, kind)[i] = k[i]
    BY <1>2
  <1>5. Last(parts) \in P[kind]
    <2>1. n + 1 \in 1 .. (n + 1) /\ Last(parts) = parts[n + 1]
      BY <1>3 DEF Last
    <2>2. parts[n + 1] \in P[Append(k, kind)[n + 1]]
      BY <1>3, <2>1
    <2>3. QED
      BY <1>4, <2>1, <2>2
  <1>6. /\ Front(parts) \in Seq(A) /\ Len(Front(parts)) = n
        /\ \A i \in 1 .. n : Front(parts)[i] = parts[i]
    BY <1>3 DEF Front
  <1>7. ASSUME NEW i \in 1 .. n PROVE Front(parts)[i] \in P[k[i]]
    <2>1. i \in 1 .. (n + 1)
      OBVIOUS
    <2>2. parts[i] \in P[Append(k, kind)[i]]
      BY <1>3, <2>1
    <2>3. Front(parts)[i] = parts[i] /\ Append(k, kind)[i] = k[i]
      BY <1>4, <1>6
    <2>4. QED
      BY <2>2, <2>3
  <1>8. QED
    BY <1>1, <1>2, <1>5, <1>6, <1>7 DEF Fits

LEMMA LastKind ==
  ASSUME NEW k \in Seq(Kinds), NEW kind \in Kinds, Len(k) >= 1, k[Len(k)] = kind
  PROVE  \E l \in Seq(Kinds) : k = Append(l, kind)
  <1>1. PICK n \in Nat : n + 1 = Len(k)
    <2>1. Len(k) - 1 \in Nat /\ Len(k) - 1 + 1 = Len(k)
      OBVIOUS
    <2>2. QED
      BY <2>1
  <1>2. PICK l \in Seq(Kinds) : Len(l) = n /\ \A i \in 1 .. n : l[i] = k[i]
    <2>1. /\ SubSeq(k, 1, n) \in Seq(Kinds) /\ Len(SubSeq(k, 1, n)) = n
          /\ \A i \in 1 .. n : SubSeq(k, 1, n)[i] = k[i]
      BY <1>1
    <2>2. QED
      BY <2>1
  <1>3. k = Append(l, kind)
    <2>1. Append(l, kind) \in Seq(Kinds) /\ Len(Append(l, kind)) = n + 1
      BY <1>2
    <2>2. \A i \in 1 .. (n + 1) : Append(l, kind)[i] = k[i]
      BY <1>1, <1>2
    <2>3. QED
      BY <1>1, <2>1, <2>2, SeqEqual
  <1>4. QED
    BY <1>3

(* The innermost part is replaced by one of its kind.                       *)
LEMMA FitsTop ==
  ASSUME NEW P, NEW parts, NEW k \in Seq(Kinds), NEW kind \in Kinds,
         Fits(parts, k, P), Len(k) >= 1, k[Len(k)] = kind
  PROVE  /\ Last(parts) \in P[kind]
         /\ \A p \in P[kind] : Fits(Append(Front(parts), p), k, P)
  <1>1. PICK l \in Seq(Kinds) : k = Append(l, kind)
    BY LastKind
  <1>2. Fits(Front(parts), l, P) /\ Last(parts) \in P[kind]
    BY <1>1, FitsPop
  <1>3. QED
    BY <1>1, <1>2, FitsPush

LEMMA FitsMore ==
  ASSUME NEW P, NEW Q, NEW parts, NEW k \in Seq(Kinds), Fits(parts, k, P),
         \A kind \in Kinds : P[kind] \subseteq Q[kind]
  PROVE  Fits(parts, k, Q)
  <1>1. PICK A, B : A = UNION {P[x] : x \in Kinds} /\ B = UNION {Q[x] : x \in Kinds}
    OBVIOUS
  <1>2. A \subseteq B
    BY <1>1
  <1>3. \A i \in 1 .. Len(k) : k[i] \in Kinds
    OBVIOUS
  <1>4. parts \in Seq(A) /\ Len(parts) = Len(k) /\ \A i \in 1 .. Len(k) : parts[i] \in Q[k[i]]
    BY <1>1, <1>3 DEF Fits
  <1>5. parts \in Seq(B)
    BY <1>2, <1>4
  <1>6. QED
    BY <1>1, <1>4, <1>5 DEF Fits

(* The parts of a statement, and the block it goes to.                      *)
LEMMA FitsStmt ==
  ASSUME NEW P, NEW parts, NEW k \in Seq(Kinds), NEW l \in Seq(Kinds),
         Fits(parts, k, P), Len(l) >= 1, Len(k) >= Len(l),
         \A i \in 1 .. Len(l) : k[i] = l[i], l[Len(l)] = "block",
         NEW b \in P["block"]
  PROVE  /\ parts[Len(l)] \in P["block"]
         /\ Fits(Append(SubSeq(parts, 1, Len(l) - 1), b), l, P)
         /\ \A i \in 1 .. (Len(k) - Len(l)) :
              SubSeq(parts, Len(l) + 1, Len(parts))[i] \in P[k[Len(l) + i]]
  <1>1. PICK A : A = UNION {P[x] : x \in Kinds}
    OBVIOUS
  <1>2. PICK m \in Nat, n \in Nat : m + 1 = Len(l) /\ n = Len(k)
    <2>1. Len(l) - 1 \in Nat /\ Len(l) - 1 + 1 = Len(l) /\ Len(k) \in Nat
      OBVIOUS
    <2>2. QED
      BY <2>1
  <1>3. /\ parts \in Seq(A) /\ Len(parts) = n
        /\ \A i \in 1 .. n : parts[i] \in P[k[i]]
    BY <1>1, <1>2 DEF Fits
  <1>4. m + 1 \in 1 .. n /\ k[m + 1] = "block"
    BY <1>2
  <1>5. b \in A
    BY <1>1 DEF Kinds
  <1>6. /\ SubSeq(parts, 1, m) \in Seq(A) /\ Len(SubSeq(parts, 1, m)) = m
        /\ \A i \in 1 .. m : SubSeq(parts, 1, m)[i] = parts[i]
    BY <1>3, <1>4
  <1>7. PICK q \in Seq(A) :
          /\ q = Append(SubSeq(parts, 1, m), b)
          /\ Len(q) = m + 1 /\ q[m + 1] = b
          /\ \A i \in 1 .. m : q[i] = parts[i]
    <2>1. PICK f \in Seq(A) : f = SubSeq(parts, 1, m)
      BY <1>6
    <2>2. Len(f) = m /\ \A i \in 1 .. m : f[i] = parts[i]
      BY <1>6, <2>1
    <2>3. /\ Append(f, b) \in Seq(A) /\ Len(Append(f, b)) = m + 1 /\ Append(f, b)[m + 1] = b
          /\ \A i \in 1 .. m : Append(f, b)[i] = parts[i]
      BY <1>5, <2>1, <2>2
    <2>4. QED
      BY <2>1, <2>3
  <1>8. \A i \in 1 .. (m + 1) : q[i] \in P[l[i]]
    <2>1. SUFFICES ASSUME NEW i \in 1 .. (m + 1) PROVE q[i] \in P[l[i]]
      OBVIOUS
    <2>2. CASE i = m + 1
      BY <1>2, <1>7, <2>2
    <2>3. CASE i # m + 1
      <3>1. i \in 1 .. m /\ i \in 1 .. n /\ k[i] = l[i]
        BY <1>2, <1>4, <2>3
      <3>2. QED
        BY <1>3, <1>7, <3>1
    <2>4. QED
      BY <2>2, <2>3
  <1>9. Fits(q, l, P)
    BY <1>1, <1>2, <1>7, <1>8 DEF Fits
  <1>10. ASSUME NEW i \in 1 .. (n - (m + 1))
         PROVE  SubSeq(parts, m + 1 + 1, n)[i] \in P[k[m + 1 + i]]
    <2>1. SubSeq(parts, m + 1 + 1, n)[i] = parts[m + 1 + i] /\ m + 1 + i \in 1 .. n
      BY <1>3, <1>4
    <2>2. QED
      BY <1>3, <2>1
  <1>11. parts[Len(l)] \in P["block"]
    BY <1>2, <1>3, <1>4
  <1>12. Fits(Append(SubSeq(parts, 1, Len(l) - 1), b), l, P)
    <2>1. Len(l) - 1 = m
      BY <1>2
    <2>2. QED
      BY <1>7, <1>9, <2>1
  <1>13. QED
    BY <1>2, <1>3, <1>10, <1>11, <1>12

-----------------------------------------------------------------------------
(* Expressions and statements grow out of those that are there.             *)
LEMMA Ints == 0 \in IntW /\ 1 \in IntW /\ -1 \in IntW /\ \A n \in Int : Wrap(n) \in IntW
  BY HalfAssumption DEF IntW, Wrap

LEMMA MoreExprs ==
  ASSUME NEW D, NEW D2, NEW E, NEW E2, D \subseteq D2, E \subseteq E2
  PROVE  Operands(D, E) \subseteq Operands(D2, E2) /\ Exprs(D, E) \subseteq Exprs(D2, E2)
  <1>1. Operands(D, E) \subseteq Operands(D2, E2)
    BY DEF Operands
  <1>2. OperandTerms(D, E) \subseteq OperandTerms(D2, E2)
    BY <1>1 DEF OperandTerms
  <1>3. Seq(OperandTerms(D, E)) \subseteq Seq(OperandTerms(D2, E2))
    BY <1>2
  <1>4. QED
    BY <1>1, <1>3 DEF Exprs

LEMMA MoreStmts ==
  ASSUME NEW D, NEW D2, NEW E, NEW E2, NEW S, NEW S2,
         D \subseteq D2, E \subseteq E2, S \subseteq S2
  PROVE  Stmts(D, E, S) \subseteq Stmts(D2, E2, S2)
  <1>1. Operands(D, E) \subseteq Operands(D2, E2) /\ Seq(S) \subseteq Seq(S2)
    BY MoreExprs
  <1>2. PICK O, P, T, U : /\ O = Operands(D, E) /\ P = Operands(D2, E2)
                          /\ T = Seq(S) /\ U = Seq(S2)
    OBVIOUS
  <1>3. O \subseteq P /\ T \subseteq U
    BY <1>1, <1>2
  <1>4. [typ : Comparisons, left : E, right : E] \subseteq [typ : Comparisons, left : E2, right : E2]
    OBVIOUS
  <1>5. PICK C, F : /\ C = [typ : Comparisons, left : E, right : E]
                    /\ F = [typ : Comparisons, left : E2, right : E2]
    OBVIOUS
  <1>6. [typ : {"IHU", "WHILE"}, cond : C, stmts : T] \subseteq
          [typ : {"IHU", "WHILE"}, cond : F, stmts : U]
    BY <1>3, <1>4, <1>5
  <1>7. [typ : {"HOR"}, var : O, start : E, end : E, stmts : T] \subseteq
          [typ : {"HOR"}, var : P, start : E2, end : E2, stmts : U]
    BY <1>3
  <1>8. [typ : {"YOSORO"}, expr : E] \subseteq [typ : {"YOSORO"}, expr : E2]
    OBVIOUS
  <1>9. [typ : {"SET"}, operand : O, expr : E] \subseteq [typ : {"SET"}, operand : P, expr : E2]
    BY <1>3
  <1>10. QED
    BY <1>2, <1>5, <1>6, <1>7, <1>8, <1>9 DEF Stmts

(* What an array element of an expression has inside is in E.               *)
LEMMA IndexInside ==
  ASSUME NEW D, NEW E, NEW e \in Exprs(D, E), NEW i \in DOMAIN e.terms,
         e.terms[i].operand.typ = "ARR_ELEM"
  PROVE  e.terms[i].operand.idx \in E
  <1>1. e.terms \in Seq(OperandTerms(D, E))
    BY DEF Exprs
  <1>2. e.terms[i] \in OperandTerms(D, E)
    BY <1>1
  <1>3. e.terms[i].operand \in Operands(D, E)
    BY <1>2 DEF OperandTerms
  <1>4. QED
    BY <1>3 DEF Operands

LEMMA NoExprs == \A D : FiniteExprs(D, {})
  <1>1. \A f \in [{} -> Nat] : \A e \in {} : f[e] < 0
    OBVIOUS
  <1>2. [e \in {} |-> 0] \in [{} -> Nat]
    OBVIOUS
  <1>3. QED
    BY <1>2 DEF FiniteExprs

LEMMA NoStmts == \A D, E : FiniteStmts(D, E, {})
  <1>1. [e \in {} |-> 0] \in [{} -> Nat]
    OBVIOUS
  <1>2. QED
    BY <1>1 DEF FiniteStmts

(* Every expression over E may be an index next.                            *)
LEMMA NextExprs ==
  ASSUME NEW D, NEW E, FiniteExprs(D, E)
  PROVE  FiniteExprs(D, Exprs(D, E)) /\ E \subseteq Exprs(D, E)
  <1> DEFINE X == Exprs(D, E)
  <1>1. E \subseteq X
    BY DEF FiniteExprs
  <1>2. X \subseteq Exprs(D, X)
    BY <1>1, MoreExprs
  <1>3. PICK n \in Nat, nested \in [E -> Nat] : \A e \in E :
          /\ nested[e] < n
          /\ \A i \in DOMAIN e.terms :
               LET o == e.terms[i].operand IN
               o.typ = "ARR_ELEM" => nested[o.idx] < nested[e]
    BY DEF FiniteExprs
  <1>4. \A e \in X : \A i \in DOMAIN e.terms :
          e.terms[i].operand.typ = "ARR_ELEM" => e.terms[i].operand.idx \in E
    BY IndexInside
  <1> HIDE DEF X
  <1> DEFINE m == [e \in X |-> IF e \in E THEN nested[e] ELSE n]
  <1>5. m \in [X -> Nat]
    BY <1>3
  <1>6. \A e \in E : m[e] = nested[e] /\ m[e] < n
    BY <1>1, <1>3
  <1>7. \A e \in X : e \notin E => m[e] = n
    OBVIOUS
  <1> HIDE DEF m
  <1>8. \A e \in X :
          /\ m[e] < n + 1
          /\ \A i \in DOMAIN e.terms :
               LET o == e.terms[i].operand IN
               o.typ = "ARR_ELEM" => m[o.idx] < m[e]
    <2>1. SUFFICES ASSUME NEW e \in X
                   PROVE  /\ m[e] < n + 1
                          /\ \A i \in DOMAIN e.terms :
                               LET o == e.terms[i].operand IN
                               o.typ = "ARR_ELEM" => m[o.idx] < m[e]
      OBVIOUS
    <2>2. m[e] < n + 1
      BY <1>3, <1>5, <1>6, <1>7
    <2>3. ASSUME NEW i \in DOMAIN e.terms, NEW o, o = e.terms[i].operand, o.typ = "ARR_ELEM"
          PROVE  m[o.idx] < m[e]
      <3>1. o.idx \in E
        BY <1>4, <2>3
      <3>2. m[o.idx] < n /\ m[o.idx] = nested[o.idx]
        BY <1>6, <3>1
      <3>3. CASE e \notin E
        BY <1>7, <3>2, <3>3
      <3>4. CASE e \in E
        BY <1>3, <1>6, <2>3, <3>2, <3>4
      <3>5. QED
        BY <3>3, <3>4
    <2>4. QED
      BY <2>2, <2>3
  <1>9. n + 1 \in Nat
    BY <1>3
  <1>10. FiniteExprs(D, X)
    BY <1>2, <1>5, <1>8, <1>9 DEF FiniteExprs
  <1>11. QED
    BY <1>1, <1>10 DEF X

LEMMA BodyInside ==
  ASSUME NEW D, NEW E, NEW S, NEW s \in Stmts(D, E, S), s.typ \in {"IHU", "WHILE", "HOR"}
  PROVE  s.stmts \in Seq(S)
  BY DEF Stmts

LEMMA NextStmts ==
  ASSUME NEW D, NEW E, NEW S, FiniteStmts(D, E, S)
  PROVE  FiniteStmts(D, E, Stmts(D, E, S)) /\ S \subseteq Stmts(D, E, S)
  <1> DEFINE X == Stmts(D, E, S)
  <1>1. S \subseteq X
    BY DEF FiniteStmts
  <1>2. X \subseteq Stmts(D, E, X)
    BY <1>1, MoreStmts
  <1>3. PICK n \in Nat, nested \in [S -> Nat] : \A s \in S :
          /\ nested[s] < n
          /\ s.typ \in {"IHU", "WHILE", "HOR"} =>
               \A i \in DOMAIN s.stmts : nested[s.stmts[i]] < nested[s]
    BY DEF FiniteStmts
  <1>4. \A s \in X : s.typ \in {"IHU", "WHILE", "HOR"} =>
          \A i \in DOMAIN s.stmts : s.stmts[i] \in S
    <2>1. ASSUME NEW T \in Seq(S), NEW i \in DOMAIN T PROVE T[i] \in S
      OBVIOUS
    <2>2. QED
      BY <2>1, BodyInside
  <1> HIDE DEF X
  <1> DEFINE m == [s \in X |-> IF s \in S THEN nested[s] ELSE n]
  <1>5. m \in [X -> Nat]
    BY <1>3
  <1>6. \A s \in S : m[s] = nested[s] /\ m[s] < n
    BY <1>1, <1>3
  <1>7. \A s \in X : s \notin S => m[s] = n
    OBVIOUS
  <1> HIDE DEF m
  <1>8. \A s \in X :
          /\ m[s] < n + 1
          /\ s.typ \in {"IHU", "WHILE", "HOR"} =>
               \A i \in DOMAIN s.stmts : m[s.stmts[i]] < m[s]
    <2>1. SUFFICES ASSUME NEW s \in X
                   PROVE  /\ m[s] < n + 1
                          /\ s.typ \in {"IHU", "WHILE", "HOR"} =>
                               \A i \in DOMAIN s.stmts : m[s.stmts[i]] < m[s]
      OBVIOUS
    <2>2. m[s] < n + 1
      BY <1>3, <1>5, <1>6, <1>7
    <2>3. ASSUME s.typ \in {"IHU", "WHILE", "HOR"}, NEW i \in DOMAIN s.stmts
          PROVE  m[s.stmts[i]] < m[s]
      <3>1. s.stmts[i] \in S
        BY <1>4, <2>3
      <3>2. m[s.stmts[i]] < n /\ m[s.stmts[i]] = nested[s.stmts[i]]
        BY <1>6, <3>1
      <3>3. CASE s \notin S
        BY <1>7, <3>2, <3>3
      <3>4. CASE s \in S
        BY <1>3, <1>6, <2>3, <3>2, <3>4
      <3>5. QED
        BY <3>3, <3>4
    <2>4. QED
      BY <2>2, <2>3
  <1>9. n + 1 \in Nat
    BY <1>3
  <1>10. FiniteStmts(D, E, X)
    BY <1>2, <1>5, <1>8, <1>9 DEF FiniteStmts
  <1>11. QED
    BY <1>1, <1>10 DEF X

(* The statements stay what they are among more declarations and indices.   *)
LEMMA KeptExprs ==
  ASSUME NEW D, NEW D2, NEW E, D \subseteq D2, FiniteExprs(D, E)
  PROVE  FiniteExprs(D2, E)
  <1>1. E \subseteq Exprs(D2, E)
    BY MoreExprs DEF FiniteExprs
  <1>2. QED
    BY <1>1 DEF FiniteExprs

LEMMA KeptStmts ==
  ASSUME NEW D, NEW D2, NEW E, NEW E2, NEW S,
         D \subseteq D2, E \subseteq E2, FiniteStmts(D, E, S)
  PROVE  FiniteStmts(D2, E2, S)
  <1>1. S \subseteq Stmts(D2, E2, S)
    BY MoreStmts DEF FiniteStmts
  <1>2. QED
    BY <1>1 DEF FiniteStmts

LEMMA Parts ==
  ASSUME NEW D, NEW E, NEW S
  PROVE  /\ PartsOf(D, E, S)["block"] = Seq(S)
         /\ PartsOf(D, E, S)["operand"] = Operands(D, E)
         /\ PartsOf(D, E, S)["expr"] = Exprs(D, E)
         /\ PartsOf(D, E, S)["cmp"] = Comparisons
  BY DEF PartsOf, Kinds

LEMMA MoreParts ==
  ASSUME NEW D, NEW D2, NEW E, NEW E2, NEW S, NEW S2,
         D \subseteq D2, E \subseteq E2, S \subseteq S2,
         NEW parts, NEW k \in Seq(Kinds), Fits(parts, k, PartsOf(D, E, S))
  PROVE  Fits(parts, k, PartsOf(D2, E2, S2))
  <1>1. Seq(S) \subseteq Seq(S2)
    OBVIOUS
  <1>2. \A kind \in Kinds : PartsOf(D, E, S)[kind] \subseteq PartsOf(D2, E2, S2)[kind]
    BY <1>1, MoreExprs, Parts DEF Kinds
  <1>3. QED
    BY <1>2, FitsMore

-----------------------------------------------------------------------------
(* Expressions under construction.                                          *)
LEMMA LeastNumber ==
  ASSUME NEW S, S \subseteq Nat, S # {}
  PROVE  Min(S) \in S
  <1>1. \E m \in S : \A n \in S : ~ (<<n, m>> \in OpToRel(<, Nat))
    BY NatLessThanWellFounded, WFMin
  <1>2. PICK m \in S : \A n \in S : ~ (n < m)
    BY <1>1 DEF OpToRel
  <1>3. \A n \in S : m <= n
    BY <1>2
  <1>4. QED
    BY <1>3 DEF Min

LEMMA AddTerm ==
  ASSUME NEW D, NEW E, NEW e \in Exprs(D, E), NEW op \in Operands(D, E), NEW sign \in {1, -1}
  PROVE  [e EXCEPT !.terms = terms_add_operand(e.terms, op, sign)] \in Exprs(D, E)
  <1>1. PICK T : T = OperandTerms(D, E)
    OBVIOUS
  <1>2. PICK terms \in Seq(T) : terms = e.terms
    BY <1>1 DEF Exprs
  <1>3. terms_add_operand(terms, op, sign) \in Seq(T)
    <2>1. CASE Matches(terms, op) = {}
      <3>1. sign \in IntW
        BY Ints
      <3>2. Term(sign, op) \in T
        BY <1>1, <3>1 DEF Term, OperandTerms
      <3>3. QED
        BY <1>2, <2>1, <3>2 DEF terms_add_operand
    <2>2. CASE Matches(terms, op) # {}
      <3>1. Matches(terms, op) \subseteq DOMAIN terms /\ DOMAIN terms \subseteq Nat
        BY <1>2 DEF Matches
      <3>2. PICK i \in DOMAIN terms : i = Min(Matches(terms, op))
        BY <2>2, <3>1, LeastNumber
      <3>3. terms[i] \in T
        BY <1>2, <3>2
      <3>4. Wrap(terms[i].coefficient + sign) \in IntW
        <4>1. terms[i].coefficient \in IntW
          BY <1>1, <3>3 DEF OperandTerms
        <4>2. terms[i].coefficient + sign \in Int
          BY <4>1, HalfAssumption DEF IntW
        <4>3. QED
          BY <4>2, Ints
      <3>5. [terms[i] EXCEPT !.coefficient = Wrap(@ + sign)] \in T
        BY <1>1, <3>3, <3>4 DEF OperandTerms
      <3>6. [terms EXCEPT ![i] = [terms[i] EXCEPT !.coefficient = Wrap(@ + sign)]] \in Seq(T)
        BY <1>2, <3>2, <3>5
      <3>7. terms_add_operand(terms, op, sign) =
              [terms EXCEPT ![i] = [terms[i] EXCEPT !.coefficient = Wrap(@ + sign)]]
        BY <2>2, <3>2 DEF terms_add_operand
      <3>8. QED
        BY <3>6, <3>7
    <2>3. QED
      BY <2>1, <2>2
  <1>4. QED
    BY <1>1, <1>2, <1>3 DEF Exprs

(* Sorting leaves the same terms in another order.                          *)
LEMMA OptimizedExpr ==
  ASSUME NEW D, NEW E, NEW e \in Exprs(D, E), NEW idx, NEW f \in optimize_expr(e, idx)
  PROVE  f \in Exprs(D, E) /\ Sorted(f, idx)
  <1>1. PICK T : T = OperandTerms(D, E)
    OBVIOUS
  <1>2. PICK terms \in Seq(T) : terms = e.terms
    BY <1>1 DEF Exprs
  <1>3. PICK order \in SetToSeqs(DOMAIN terms) :
          f = [e EXCEPT !.terms = [i \in DOMAIN terms |-> terms[order[i]]]]
    BY <1>2 DEF optimize_expr
  <1>4. PICK n \in Nat : n = Len(terms) /\ DOMAIN terms = 1 .. n
    BY <1>2
  <1>5. order \in [1 .. n -> 1 .. n]
    <2>1. Cardinality(1 .. n) = n
      BY FS_Interval
    <2>2. QED
      BY <1>3, <1>4, <2>1 DEF SetToSeqs
  <1>6. \A i \in 1 .. n : terms[order[i]] \in T
    BY <1>2, <1>4, <1>5
  <1>7. [i \in 1 .. n |-> terms[order[i]]] \in Seq(T)
    BY <1>6
  <1>8. f \in Exprs(D, E)
    BY <1>1, <1>3, <1>4, <1>7 DEF Exprs
  <1>9. QED
    BY <1>8 DEF optimize_expr

-----------------------------------------------------------------------------
(* The parts in built are of the kinds k, and of a finite tree.             *)
Tree(D, parts, k) ==
  \E E, S : FiniteExprs(D, E) /\ FiniteStmts(D, E, S) /\ Fits(parts, k, PartsOf(D, E, S))

LEMMA EmptyTree == ASSUME NEW D PROVE Tree(D, <<>>, <<>>)
  <1>1. Fits(<<>>, <<>>, PartsOf(D, {}, {}))
    BY DEF Fits
  <1>2. QED
    BY <1>1, NoExprs, NoStmts DEF Tree

LEMMA PushTree ==
  ASSUME NEW D, NEW parts, NEW k \in Seq(Kinds), Tree(D, parts, k),
         NEW kind \in Kinds, NEW p, \A E, S : p \in PartsOf(D, E, S)[kind]
  PROVE  Tree(D, Append(parts, p), Append(k, kind))
  <1>1. PICK E, S : /\ FiniteExprs(D, E) /\ FiniteStmts(D, E, S)
                    /\ Fits(parts, k, PartsOf(D, E, S))
    BY DEF Tree
  <1>2. p \in PartsOf(D, E, S)[kind]
    OBVIOUS
  <1>3. Fits(Append(parts, p), Append(k, kind), PartsOf(D, E, S))
    BY <1>1, <1>2, FitsPush
  <1>4. QED
    BY <1>1, <1>3 DEF Tree

(* The expression on top becomes the index of an array element.             *)
LEMMA ElemTree ==
  ASSUME NEW D, NEW parts, NEW k \in Seq(Kinds), Tree(D, parts, Append(k, "expr")), NEW d \in D
  PROVE  Tree(D, Append(Front(parts), ArrElem(d, Last(parts))), Append(k, "operand"))
  <1>1. PICK E, S : /\ FiniteExprs(D, E) /\ FiniteStmts(D, E, S)
                    /\ Fits(parts, Append(k, "expr"), PartsOf(D, E, S))
    BY DEF Tree
  <1>2. PICK X : X = Exprs(D, E) /\ FiniteExprs(D, X) /\ E \subseteq X
    BY <1>1, NextExprs
  <1>3. FiniteStmts(D, X, S)
    BY <1>1, <1>2, KeptStmts
  <1>4. "expr" \in Kinds /\ "operand" \in Kinds
    BY DEF Kinds
  <1>5. Fits(Front(parts), k, PartsOf(D, E, S)) /\ Last(parts) \in X
    BY <1>1, <1>2, <1>4, FitsPop, Parts
  <1>6. Fits(Front(parts), k, PartsOf(D, X, S))
    BY <1>2, <1>5, MoreParts
  <1>7. ArrElem(d, Last(parts)) \in PartsOf(D, X, S)["operand"]
    BY <1>5, Parts DEF ArrElem, Operands
  <1>8. Fits(Append(Front(parts), ArrElem(d, Last(parts))), Append(k, "operand"), PartsOf(D, X, S))
    BY <1>4, <1>6, <1>7, FitsPush
  <1>9. QED
    BY <1>2, <1>3, <1>8 DEF Tree

(* The expression on top is worked on.                                      *)
LEMMA TopTree ==
  ASSUME NEW D, NEW parts, NEW k \in Seq(Kinds), Tree(D, parts, k),
         Len(k) >= 1, k[Len(k)] = "expr",
         NEW e, \A E : Last(parts) \in Exprs(D, E) => e \in Exprs(D, E)
  PROVE  Tree(D, Append(Front(parts), e), k)
  <1>1. PICK E, S : /\ FiniteExprs(D, E) /\ FiniteStmts(D, E, S)
                    /\ Fits(parts, k, PartsOf(D, E, S))
    BY DEF Tree
  <1>2. "expr" \in Kinds
    BY DEF Kinds
  <1>3. Last(parts) \in PartsOf(D, E, S)["expr"]
    BY <1>1, <1>2, FitsTop
  <1>4. e \in PartsOf(D, E, S)["expr"]
    BY <1>3, Parts
  <1>5. Fits(Append(Front(parts), e), k, PartsOf(D, E, S))
    BY <1>1, <1>2, <1>4, FitsTop
  <1>6. QED
    BY <1>1, <1>5 DEF Tree

(* The operand on top goes to the expression below it.                      *)
LEMMA AddTree ==
  ASSUME NEW D, NEW parts, NEW k \in Seq(Kinds), Tree(D, parts, Append(k, "operand")),
         Len(k) >= 1, k[Len(k)] = "expr", NEW sign \in {1, -1}
  PROVE  LET e == Last(Front(parts)) IN
         Tree(D, Append(Front(Front(parts)),
                        [e EXCEPT !.terms = terms_add_operand(e.terms, Last(parts), sign)]), k)
  <1>1. PICK E, S : /\ FiniteExprs(D, E) /\ FiniteStmts(D, E, S)
                    /\ Fits(parts, Append(k, "operand"), PartsOf(D, E, S))
    BY DEF Tree
  <1>2. "expr" \in Kinds /\ "operand" \in Kinds
    BY DEF Kinds
  <1>3. Fits(Front(parts), k, PartsOf(D, E, S)) /\ Last(parts) \in Operands(D, E)
    BY <1>1, <1>2, FitsPop, Parts
  <1>4. PICK front : front = Front(parts)
    OBVIOUS
  <1>5. PICK e \in Exprs(D, E) : e = Last(front)
    BY <1>2, <1>3, <1>4, FitsTop, Parts
  <1>6. [e EXCEPT !.terms = terms_add_operand(e.terms, Last(parts), sign)] \in Exprs(D, E)
    BY <1>3, AddTerm
  <1>7. PICK f \in Exprs(D, E) :
          f = [e EXCEPT !.terms = terms_add_operand(e.terms, Last(parts), sign)]
    BY <1>6
  <1>8. Fits(Append(Front(front), f), k, PartsOf(D, E, S))
    <2>1. f \in PartsOf(D, E, S)["expr"]
      BY Parts
    <2>2. QED
      BY <1>2, <1>3, <1>4, <2>1, FitsTop
  <1>9. Tree(D, Append(Front(front), f), k)
    BY <1>1, <1>8 DEF Tree
  <1>10. QED
    BY <1>4, <1>5, <1>7, <1>9

LEMMA MoreTree ==
  ASSUME NEW D, NEW D2, D \subseteq D2, NEW parts, NEW k \in Seq(Kinds), Tree(D, parts, k)
  PROVE  Tree(D2, parts, k)
  <1>1. PICK E, S : /\ FiniteExprs(D, E) /\ FiniteStmts(D, E, S)
                    /\ Fits(parts, k, PartsOf(D, E, S))
    BY DEF Tree
  <1>2. FiniteExprs(D2, E) /\ FiniteStmts(D2, E, S)
    BY <1>1, KeptExprs, KeptStmts
  <1>3. Fits(parts, k, PartsOf(D2, E, S))
    BY <1>1, MoreParts
  <1>4. QED
    BY <1>2, <1>3 DEF Tree

(* The kinds of the parts of a statement, behind those around it.           *)
LEMMA KindsOfStmt ==
  ASSUME NEW l \in Seq(Kinds), NEW call \in Calls, call.call = "make_stmt"
  PROVE  LET k == StmtKinds(call, l) IN
         /\ k \in Seq(Kinds) /\ Len(k) = Len(l) + call.parts
         /\ \A i \in 1 .. Len(l) : k[i] = l[i]
         /\ call.typ \in {"IHU", "WHILE"} =>
              /\ call.parts = 4
              /\ k[Len(l) + 1] = "cmp" /\ k[Len(l) + 2] = "expr"
              /\ k[Len(l) + 3] = "expr" /\ k[Len(l) + 4] = "block"
         /\ call.typ = "HOR" =>
              /\ call.parts = 4
              /\ k[Len(l) + 1] = "operand" /\ k[Len(l) + 2] = "expr"
              /\ k[Len(l) + 3] = "expr" /\ k[Len(l) + 4] = "block"
         /\ call.typ = "YOSORO" => call.parts = 1 /\ k[Len(l) + 1] = "expr"
         /\ call.typ = "SET" =>
              /\ call.parts = 2
              /\ k[Len(l) + 1] = "operand" /\ k[Len(l) + 2] = "expr"
         /\ call.typ \in {"IHU", "WHILE", "HOR", "YOSORO", "SET"}
  <1>1. \/ call.typ \in {"IHU", "WHILE"} /\ call.parts = 4
        \/ call.typ = "HOR" /\ call.parts = 4
        \/ call.typ = "YOSORO" /\ call.parts = 1
        \/ call.typ = "SET" /\ call.parts = 2
    BY DEF Calls
  <1>2. ASSUME NEW a \in Kinds
        PROVE  /\ Append(l, a) \in Seq(Kinds) /\ Len(Append(l, a)) = Len(l) + 1
               /\ Append(l, a)[Len(l) + 1] = a
               /\ \A i \in 1 .. Len(l) : Append(l, a)[i] = l[i]
    OBVIOUS
  <1>3. ASSUME NEW a \in Kinds, NEW b \in Kinds
        PROVE  LET k == Append(Append(l, a), b) IN
               /\ k \in Seq(Kinds) /\ Len(k) = Len(l) + 2
               /\ k[Len(l) + 1] = a /\ k[Len(l) + 2] = b
               /\ \A i \in 1 .. Len(l) : k[i] = l[i]
    OBVIOUS
  <1>4. ASSUME NEW a \in Kinds, NEW b \in Kinds, NEW c \in Kinds, NEW d \in Kinds
        PROVE  LET k == Append(Append(Append(Append(l, a), b), c), d) IN
               /\ k \in Seq(Kinds) /\ Len(k) = Len(l) + 4
               /\ k[Len(l) + 1] = a /\ k[Len(l) + 2] = b
               /\ k[Len(l) + 3] = c /\ k[Len(l) + 4] = d
               /\ \A i \in 1 .. Len(l) : k[i] = l[i]
    OBVIOUS
  <1>5. "cmp" \in Kinds /\ "operand" \in Kinds /\ "expr" \in Kinds /\ "block" \in Kinds
    BY DEF Kinds
  <1>6. CASE call.typ \in {"IHU", "WHILE"} /\ call.parts = 4
    BY <1>4, <1>5, <1>6 DEF StmtKinds
  <1>7. CASE call.typ = "HOR" /\ call.parts = 4
    BY <1>4, <1>5, <1>7 DEF StmtKinds
  <1>8. CASE call.typ = "YOSORO" /\ call.parts = 1
    BY <1>2, <1>5, <1>8 DEF StmtKinds
  <1>9. CASE call.typ = "SET" /\ call.parts = 2
    BY <1>3, <1>5, <1>9 DEF StmtKinds
  <1>10. QED
    BY <1>1, <1>6, <1>7, <1>8, <1>9

(* The statement that is made of its parts.                                 *)
LEMMA StmtOfParts ==
  ASSUME NEW D, NEW E, NEW S, NEW X, NEW l \in Seq(Kinds),
         E \subseteq X, X = Exprs(D, E),
         NEW call \in Calls, call.call = "make_stmt", NEW p,
         \A i \in 1 .. call.parts :
           p[i] \in PartsOf(D, E, S)[StmtKinds(call, l)[Len(l) + i]]
  PROVE  Stmt(call.typ, p) \in Stmts(D, X, S)
  <1>1. Operands(D, E) \subseteq Operands(D, X)
    BY MoreExprs
  <1> DEFINE P == PartsOf(D, E, S)
             k == StmtKinds(call, l)
             n == Len(l)
  <1>2. /\ P["block"] = Seq(S) /\ P["operand"] = Operands(D, E)
        /\ P["expr"] = X /\ P["cmp"] = Comparisons
    BY Parts
  <1>3. \A i \in 1 .. call.parts : p[i] \in P[k[n + i]]
    OBVIOUS
  <1>4. /\ call.typ \in {"IHU", "WHILE"} =>
             /\ call.parts = 4
             /\ k[n + 1] = "cmp" /\ k[n + 2] = "expr"
             /\ k[n + 3] = "expr" /\ k[n + 4] = "block"
        /\ call.typ = "HOR" =>
             /\ call.parts = 4
             /\ k[n + 1] = "operand" /\ k[n + 2] = "expr"
             /\ k[n + 3] = "expr" /\ k[n + 4] = "block"
        /\ call.typ = "YOSORO" => call.parts = 1 /\ k[n + 1] = "expr"
        /\ call.typ = "SET" =>
             call.parts = 2 /\ k[n + 1] = "operand" /\ k[n + 2] = "expr"
    BY KindsOfStmt
  <1> HIDE DEF P, k, n
  <1>5. CASE call.typ \in {"IHU", "WHILE"}
    <2>1. p[1] \in Comparisons /\ p[2] \in X /\ p[3] \in X /\ p[4] \in Seq(S)
      BY <1>5, <1>2, <1>3, <1>4
    <2>2. Cond(p[1], p[2], p[3]) \in [typ : Comparisons, left : X, right : X]
      BY <2>1 DEF Cond
    <2>3. QED
      BY <1>5, <2>1, <2>2 DEF Stmt, Stmts, Ihu, While
  <1>6. CASE call.typ = "HOR"
    <2>1. p[1] \in Operands(D, X) /\ p[2] \in X /\ p[3] \in X /\ p[4] \in Seq(S)
      BY <1>1, <1>6, <1>2, <1>3, <1>4
    <2>2. QED
      BY <1>6, <2>1 DEF Stmt, Stmts, Hor
  <1>7. CASE call.typ = "YOSORO"
    <2>1. p[1] \in X
      BY <1>7, <1>2, <1>3, <1>4
    <2>2. QED
      BY <1>7, <2>1 DEF Stmt, Stmts, Yosoro
  <1>8. CASE call.typ = "SET"
    <2>1. p[1] \in Operands(D, X) /\ p[2] \in X
      BY <1>1, <1>8, <1>2, <1>3, <1>4
    <2>2. QED
      BY <1>8, <2>1 DEF Stmt, Stmts, Set
  <1>9. QED
    BY <1>5, <1>6, <1>7, <1>8, KindsOfStmt

LEMMA StmtTree ==
  ASSUME NEW D, NEW parts, NEW l \in Seq(Kinds), Len(l) >= 1, l[Len(l)] = "block",
         NEW call \in Calls, call.call = "make_stmt",
         Tree(D, parts, StmtKinds(call, l))
  PROVE  LET blk  == Len(parts) - call.parts
             stmt == Stmt(call.typ, SubSeq(parts, blk + 1, Len(parts)))
         IN  Tree(D, Append(SubSeq(parts, 1, blk - 1), Append(parts[blk], stmt)), l)
  <1>1. PICK E, S : /\ FiniteExprs(D, E) /\ FiniteStmts(D, E, S)
                    /\ Fits(parts, StmtKinds(call, l), PartsOf(D, E, S))
    BY DEF Tree
  <1>2. PICK X : X = Exprs(D, E) /\ FiniteExprs(D, X) /\ E \subseteq X
    BY <1>1, NextExprs
  <1>3. FiniteStmts(D, X, S)
    BY <1>1, <1>2, KeptStmts
  <1>4. PICK T : T = Stmts(D, X, S) /\ FiniteStmts(D, X, T) /\ S \subseteq T
    BY <1>3, NextStmts
  <1>5. PICK k \in Seq(Kinds) :
          /\ k = StmtKinds(call, l) /\ Len(k) = Len(l) + call.parts
          /\ \A i \in 1 .. Len(l) : k[i] = l[i]
    BY KindsOfStmt
  <1>6. call.parts \in Nat /\ Len(l) \in Nat
    BY DEF Calls
  <1>7. Len(parts) = Len(k)
    BY <1>1, <1>5 DEF Fits
  <1>8. Len(parts) - call.parts = Len(l)
    BY <1>5, <1>6, <1>7
  <1>9. PICK p : p = SubSeq(parts, Len(l) + 1, Len(parts))
    OBVIOUS
  <1>10. Fits(parts, k, PartsOf(D, E, S))
    BY <1>1, <1>5
  <1>11. /\ parts[Len(l)] \in Seq(S)
         /\ \A i \in 1 .. call.parts : p[i] \in PartsOf(D, E, S)[k[Len(l) + i]]
    <2>1. <<>> \in PartsOf(D, E, S)["block"]
      <3>1. <<>> \in Seq(S)
        OBVIOUS
      <3>2. QED
        BY <3>1, Parts
    <2>2. Len(k) >= Len(l) /\ Len(k) - Len(l) = call.parts
      BY <1>5, <1>6
    <2>3. /\ parts[Len(l)] \in PartsOf(D, E, S)["block"]
          /\ \A i \in 1 .. (Len(k) - Len(l)) :
               SubSeq(parts, Len(l) + 1, Len(parts))[i] \in PartsOf(D, E, S)[k[Len(l) + i]]
      BY <1>5, <1>10, <2>1, <2>2, FitsStmt, ZenonT(60)
    <2>4. QED
      BY <1>9, <2>2, <2>3, Parts
  <1>12. PICK stmt \in T : stmt = Stmt(call.typ, p)
    BY <1>2, <1>4, <1>5, <1>11, StmtOfParts
  <1>13. PICK b \in Seq(T) : b = Append(parts[Len(l)], stmt)
    <2>1. PICK c \in Seq(T) : c = parts[Len(l)]
      <3>1. Seq(S) \subseteq Seq(T)
        BY <1>4
      <3>2. QED
        BY <1>11, <3>1
    <2>2. Append(c, stmt) \in Seq(T)
      OBVIOUS
    <2>3. QED
      BY <2>1, <2>2
  <1>14. Fits(parts, k, PartsOf(D, X, T))
    BY <1>2, <1>4, <1>5, <1>10, MoreParts
  <1>15. Fits(Append(SubSeq(parts, 1, Len(l) - 1), b), l, PartsOf(D, X, T))
    <2>1. b \in PartsOf(D, X, T)["block"]
      BY <1>13, Parts
    <2>2. Len(k) >= Len(l)
      BY <1>5, <1>6
    <2>3. QED
      BY <1>5, <1>14, <2>1, <2>2, FitsStmt
  <1>16. Tree(D, Append(SubSeq(parts, 1, Len(l) - 1), b), l)
    BY <1>2, <1>4, <1>15 DEF Tree
  <1>17. QED
    BY <1>8, <1>9, <1>12, <1>13, <1>16

-----------------------------------------------------------------------------
(* The invariant of the parser.                                             *)
Declared == DOMAIN DeclIdx

CallsOver(D) == {c \in Calls : c.call = "make_elem" => c.decl \in D}

Reading ==
  /\ text \in Texts /\ toks = Tokens(text)
  /\ pos \in Nat \ {0}
  /\ status \in {"parsing", "crashed"}
  /\ \E A : var_decls \in Seq(A)

(* Shape s tells the parts that the calls find.                             *)
Building(s) ==
  /\ todo \in Seq(CallsOver(Declared))
  /\ Tree(Declared, built, s.kinds)

(* Once the parser is stuck at an unknown keyword, there may be statements  *)
(* that nobody filled in.                                                   *)
Inv ==
  /\ Reading /\ CrashesOnlyAtEnd
  /\ \E s : Leads(todo, s) /\ (Stuck \/ Building(s))

LEMMA AreShapes == ASSUME NEW calls, NEW s, Leads(calls, s) PROVE s \in Shapes
  <1>1. PICK p : Path(calls, s, p)
    BY DEF Leads
  <1>2. PICK n \in Nat : n = Len(calls)
    BY DEF Leads
  <1>3. 1 \in 1 .. (n + 1)
    BY <1>2
  <1>4. QED
    BY <1>1, <1>2, <1>3 DEF Path

LEMMA DeclsAre ==
  ASSUME Reading
  PROVE  /\ Declared = DOMAIN var_decls \cup {NotFound}
         /\ Declared \subseteq Nat /\ DOMAIN var_decls \subseteq Nat
  <1>1. DOMAIN var_decls \subseteq Nat
    BY DEF Reading
  <1>2. QED
    BY <1>1 DEF Declared, DeclIdx, NotFound

(* The tokens end where one is missing or is TOK_EOF.                       *)
LEMMA TokensEnd ==
  ASSUME Reading
  PROVE  /\ Len(toks) \in Nat
         /\ \A i \in Nat \ {0} : TokenAt(i) = NULL => i > Len(toks)
         /\ \A i \in Nat \ {0} : TokenAt(i).type \in {"NULL", "EOF"} => i >= Len(toks)
         /\ \A i : TokenAt(i).type = "INT" => TokenAt(i).num \in Int
         /\ \A i : TokenAt(i).type = "CMP" => TokenAt(i).cmp \in CmpType
  <1>1. /\ toks \in Seq({toks[i] : i \in DOMAIN toks})
        /\ \A i \in DOMAIN toks :
             /\ toks[i].type # "NULL"
             /\ toks[i].type = "EOF" => i = Len(toks)
             /\ toks[i].type = "INT" => toks[i].num \in Int
             /\ toks[i].type = "CMP" => toks[i].cmp \in CmpType
    BY TokensAssumption DEF Reading
  <1>2. PICK n \in Nat : n = Len(toks) /\ DOMAIN toks = 1 .. n
    BY <1>1
  <1>3. NULL.type = "NULL"
    BY DEF NULL
  <1>4. \A i : IF i \in 1 .. n THEN TokenAt(i) = toks[i] ELSE TokenAt(i) = NULL
    BY <1>2 DEF TokenAt
  <1>5. \A i \in 1 .. n : TokenAt(i) # NULL
    BY <1>1, <1>2, <1>3, <1>4
  <1>6. \A i \in Nat \ {0} : TokenAt(i) = NULL => i > n
    BY <1>5
  <1>7. \A i \in Nat \ {0} : TokenAt(i).type \in {"NULL", "EOF"} => i >= n
    BY <1>1, <1>2, <1>4, <1>6
  <1>8. \A i : TokenAt(i).type = "INT" => TokenAt(i).num \in Int
    BY <1>1, <1>2, <1>3, <1>4
  <1>9. \A i : TokenAt(i).type = "CMP" => TokenAt(i).cmp \in CmpType
    BY <1>1, <1>2, <1>3, <1>4
  <1>10. QED
    BY <1>2, <1>6, <1>7, <1>8, <1>9

LEMMA FoundIsDeclared == ASSUME Reading, NEW tok PROVE operand_finder(tok) \in Declared
  <1>1. PICK found : found = {i \in DOMAIN var_decls : var_decls[i].name = tok}
    OBVIOUS
  <1>2. CASE found = {}
    BY <1>1, <1>2, DeclsAre DEF operand_finder
  <1>3. CASE found # {}
    <2>1. found \subseteq DOMAIN var_decls /\ found \subseteq Nat
      BY <1>1, DeclsAre
    <2>2. Min(found) \in DOMAIN var_decls
      BY <1>3, <2>1, LeastNumber
    <2>3. QED
      BY <1>1, <1>3, <2>2, DeclsAre DEF operand_finder
  <1>4. QED
    BY <1>2, <1>3

(* A step that keeps the tree.                                              *)
LEMMA Goes ==
  ASSUME Inv, UNCHANGED <<text, toks, var_decls, status>>, status = "parsing",
         pos' \in Nat \ {0},
         NEW t, Leads(todo', t), todo' \in Seq(CallsOver(Declared)),
         Tree(Declared, built', t.kinds)
  PROVE  Inv'
  <1>1. Reading'
    BY DEF Inv, Reading
  <1>2. CrashesOnlyAtEnd'
    BY DEF CrashesOnlyAtEnd
  <1>3. Declared' = Declared
    BY DEF Declared, DeclIdx
  <1>4. Building(t)'
    BY <1>3 DEF Building
  <1>5. QED
    BY <1>1, <1>2, <1>4 DEF Inv

LEMMA Crashes ==
  ASSUME Inv, ~Stuck, Crash, pos + 8 >= Len(toks)
  PROVE  Inv'
  <1>1. Reading' /\ Declared' = Declared
    BY DEF Inv, Reading, Crash, Declared, DeclIdx
  <1>2. CrashesOnlyAtEnd'
    BY DEF CrashesOnlyAtEnd, Crash
  <1>3. PICK s : Leads(todo, s) /\ Building(s)
    BY DEF Inv
  <1>4. Leads(todo', s) /\ Building(s)'
    BY <1>1, <1>3 DEF Building, Crash
  <1>5. QED
    BY <1>1, <1>2, <1>4 DEF Inv

(* What a call outside the loops starts from.                               *)
LEMMA Starts ==
  ASSUME Inv, NEW name, Call(name), name \notin {"parse_blk", "parser_parse"}
  PROVE  /\ ~Stuck /\ status = "parsing" /\ Reading
         /\ Head(todo) \in CallsOver(Declared) /\ Tail(todo) \in Seq(CallsOver(Declared))
         /\ \E s \in Shapes : Leads(todo, s) /\ Tree(Declared, built, s.kinds)
  <1>1. ~Stuck
    BY DEF Stuck, Call
  <1>2. PICK s : Leads(todo, s) /\ Building(s)
    BY <1>1 DEF Inv
  <1>3. s \in Shapes
    BY <1>2, AreShapes
  <1>4. PICK C : C = CallsOver(Declared) /\ todo \in Seq(C) /\ todo # <<>>
    BY <1>2 DEF Building, Call
  <1>5. Head(todo) \in C /\ Tail(todo) \in Seq(C)
    BY <1>4
  <1>6. QED
    BY <1>1, <1>2, <1>3, <1>4, <1>5 DEF Inv, Building, Call

LEMMA ReturnsOver ==
  ASSUME NEW C, Tail(todo) \in Seq(C), Becomes(<<>>)
  PROVE  todo' \in Seq(C)
  BY DEF Becomes

LEMMA InitLeads ==
  ASSUME Init
  PROVE  Shape(<<>>, 0, 0) \in Shapes /\ Leads(todo, Shape(<<>>, 0, 0))
  <1>1. PICK s \in Shapes : s = Shape(<<>>, 0, 0)
    <2>1. <<>> \in Seq(Kinds)
      OBVIOUS
    <2>2. QED
      BY <2>1, IsShape
  <1>2. s.kinds = <<>> /\ s.arrays = 0 /\ s.curs = 0
    BY <1>1 DEF Shape
  <1>3. Final \in Shapes /\ InBlock(Final)
    BY DEF Final, Shape, Shapes, Kinds, InBlock, Ends
  <1>4. PICK a \in Calls, b \in Calls : a = Do("da_init") /\ b = Do("parser_parse")
    BY DEF Do, Calls
  <1>5. Leads(<<b>> \o <<>>, Final)
    <2>1. Effect(b, Final, Final)
      BY <1>3, <1>4 DEF Effect, Do
    <2>2. QED
      BY <1>3, <2>1, FinalLeads, LeadsBy
  <1>6. Leads(<<a>> \o (<<b>> \o <<>>), s)
    <2>1. Append(<<>>, "block") = <<"block">>
      OBVIOUS
    <2>2. Effect(a, s, Final)
      BY <1>2, <1>4, <2>1 DEF Effect, Do, Final
    <2>3. QED
      BY <1>5, <2>2, LeadsBy
  <1>7. a \in Calls /\ b \in Calls /\ <<>> \in Seq(Calls)
    BY <1>4
  <1>8. <<a, b>> \o <<>> = <<a>> \o (<<b>> \o <<>>)
    BY <1>7, Two, SMTT(60)
  <1>9. <<a, b>> \o <<>> = <<a, b>>
    <2>1. <<a, b>> \in Seq(Calls)
      BY <1>7
    <2>2. QED
      BY <2>1, ConcatEmptySeq
  <1>10. QED
    BY <1>1, <1>4, <1>6, <1>8, <1>9 DEF Init, parser_init

LEMMA InitInv == Init => Inv
  <1> SUFFICES ASSUME Init PROVE Inv
    OBVIOUS
  <1>1. Reading
    <2>1. <<>> \in Seq({})
      OBVIOUS
    <2>2. QED
      BY <2>1 DEF Init, parser_init, Reading
  <1>2. CrashesOnlyAtEnd
    BY DEF Init, parser_init, CrashesOnlyAtEnd
  <1>3. PICK s : s = Shape(<<>>, 0, 0) /\ Leads(todo, s)
    BY InitLeads
  <1>4. todo \in Seq(CallsOver(Declared))
    <2>1. PICK a \in Calls, b \in Calls : a = Do("da_init") /\ b = Do("parser_parse")
      BY DEF Do, Calls
    <2>2. a \in CallsOver(Declared) /\ b \in CallsOver(Declared)
      BY <2>1 DEF CallsOver, Do
    <2>3. <<a, b>> \in Seq(CallsOver(Declared))
      BY <2>2
    <2>4. QED
      BY <2>1, <2>3 DEF Init, parser_init
  <1>5. Tree(Declared, built, s.kinds)
    <2>1. s.kinds = <<>>
      BY <1>3 DEF Shape
    <2>2. QED
      BY <2>1, EmptyTree DEF Init, parser_init
  <1>6. QED
    BY <1>1, <1>2, <1>3, <1>4, <1>5 DEF Inv, Building

-----------------------------------------------------------------------------
(* One lemma for each call.                                                 *)
LEMMA ConsumeInv == ASSUME Inv, consume_token PROVE Inv'
  <1>1. /\ status = "parsing" /\ Reading /\ Tail(todo) \in Seq(CallsOver(Declared))
        /\ \E s \in Shapes : Leads(todo, s) /\ Tree(Declared, built, s.kinds)
    BY Starts DEF consume_token
  <1>2. PICK s \in Shapes : Leads(todo, s) /\ Tree(Declared, built, s.kinds)
    BY <1>1
  <1>3. Leads(todo', s)
    BY <1>2, ConsumeLeads
  <1>4. todo' \in Seq(CallsOver(Declared))
    BY <1>1, ReturnsOver DEF consume_token
  <1>5. pos' \in Nat \ {0} /\ UNCHANGED <<text, toks, var_decls, status, built>>
    BY <1>1 DEF consume_token, Becomes, Reading
  <1>6. QED
    BY <1>1, <1>2, <1>3, <1>4, <1>5, Goes

LEMMA DaInitInv == ASSUME Inv, da_init PROVE Inv'
  <1>1. /\ status = "parsing" /\ Reading /\ Tail(todo) \in Seq(CallsOver(Declared))
        /\ \E s \in Shapes : Leads(todo, s) /\ Tree(Declared, built, s.kinds)
    BY Starts DEF da_init
  <1>2. PICK s \in Shapes : Leads(todo, s) /\ Tree(Declared, built, s.kinds)
    BY <1>1
  <1>3. PICK t : t = Shape(Append(s.kinds, "block"), s.arrays + 1, s.curs) /\ Leads(todo', t)
    BY <1>2, DaInitLeads
  <1>4. Tree(Declared, built', t.kinds)
    <2>1. t.kinds = Append(s.kinds, "block") /\ s.kinds \in Seq(Kinds)
      BY <1>3 DEF Shape, Shapes
    <2>2. \A D, E, S : <<>> \in PartsOf(D, E, S)["block"]
      <3>1. \A S : <<>> \in Seq(S)
        OBVIOUS
      <3>2. QED
        BY <3>1, Parts
    <2>3. Tree(Declared, Append(built, <<>>), Append(s.kinds, "block"))
      BY <1>2, <2>1, <2>2, PushTree DEF Kinds
    <2>4. QED
      BY <2>1, <2>3 DEF da_init, Push
  <1>5. todo' \in Seq(CallsOver(Declared))
    BY <1>1, ReturnsOver DEF da_init
  <1>6. pos' \in Nat \ {0} /\ UNCHANGED <<text, toks, var_decls, status>>
    BY <1>1 DEF da_init, Becomes, Reading
  <1>7. QED
    BY <1>1, <1>3, <1>4, <1>5, <1>6, Goes

LEMMA OperandInv == ASSUME Inv, parse_operand PROVE Inv'
  <1>1. /\ status = "parsing" /\ Reading /\ ~Stuck
        /\ Tail(todo) \in Seq(CallsOver(Declared))
        /\ \E s \in Shapes : Leads(todo, s) /\ Tree(Declared, built, s.kinds)
    BY Starts DEF parse_operand
  <1>2. PICK s \in Shapes : Leads(todo, s) /\ Tree(Declared, built, s.kinds)
    BY <1>1
  <1>3. PICK d \in Declared : d = operand_finder(Token)
    BY <1>1, FoundIsDeclared
  <1>4. d \in Nat /\ pos \in Nat \ {0}
    BY <1>1, DeclsAre DEF Reading
  <1>5. CASE Token = NULL /\ Crash
    <2>1. pos > Len(toks) /\ Len(toks) \in Nat
      BY <1>1, <1>4, <1>5, TokensEnd DEF Token
    <2>2. pos + 8 >= Len(toks)
      BY <1>4, <2>1
    <2>3. QED
      BY <1>1, <1>5, <2>2, Crashes
  <1>6. CASE /\ pos' = pos + 2
             /\ Becomes(<<ParseExpr, Consume, MakeElem(d)>>)
             /\ UNCHANGED <<var_decls, built>>
    <2>1. Leads(todo', s)
      BY <1>2, <1>4, <1>6, OperandLeads DEF parse_operand
    <2>2. todo' \in Seq(CallsOver(Declared))
      <3>1. PICK C, a, b, c : /\ C = CallsOver(Declared) /\ a = ParseExpr
                              /\ b = Consume /\ c = MakeElem(d)
        OBVIOUS
      <3>2. a \in C /\ b \in C /\ c \in C
        BY <1>4, <3>1 DEF CallsOver, Calls, ParseExpr, Consume, Do, MakeElem
      <3>3. <<a, b, c>> \in Seq(C) /\ Tail(todo) \in Seq(C)
        BY <1>1, <3>1, <3>2
      <3>4. <<a, b, c>> \o Tail(todo) \in Seq(C)
        BY <3>3
      <3>5. QED
        BY <1>6, <3>1, <3>4 DEF Becomes
    <2>3. pos' \in Nat \ {0} /\ UNCHANGED <<text, toks, var_decls, status, built>>
      BY <1>4, <1>6 DEF Becomes
    <2>4. QED
      BY <1>1, <1>2, <2>1, <2>2, <2>3, Goes
  <1>7. CASE /\ pos' = pos + 1
             /\ Push(IntVar(d))
             /\ Becomes(<<>>) /\ UNCHANGED var_decls
    <2>1. PICK t : t = Pushed("operand", s) /\ Leads(todo', t)
      BY <1>2, <1>7, OperandLeads DEF parse_operand
    <2>2. t.kinds = Append(s.kinds, "operand") /\ s.kinds \in Seq(Kinds)
      BY <2>1 DEF Pushed, Shape, Shapes
    <2>3. \A E, S : IntVar(d) \in PartsOf(Declared, E, S)["operand"]
      BY Parts DEF IntVar, Operands
    <2>4. Tree(Declared, Append(built, IntVar(d)), Append(s.kinds, "operand"))
      BY <1>2, <2>2, <2>3, PushTree DEF Kinds
    <2>5. Tree(Declared, built', t.kinds)
      BY <1>7, <2>2, <2>4 DEF Push
    <2>6. todo' \in Seq(CallsOver(Declared))
      BY <1>1, <1>7, ReturnsOver
    <2>7. pos' \in Nat \ {0} /\ UNCHANGED <<text, toks, var_decls, status>>
      BY <1>4, <1>7 DEF Becomes
    <2>8. QED
      BY <1>1, <2>1, <2>5, <2>6, <2>7, Goes
  <1>8. QED
    BY <1>3, <1>5, <1>6, <1>7 DEF parse_operand

LEMMA ElemInv == ASSUME Inv, make_elem PROVE Inv'
  <1>1. /\ status = "parsing" /\ Reading /\ Head(todo) \in CallsOver(Declared)
        /\ Tail(todo) \in Seq(CallsOver(Declared))
        /\ \E s \in Shapes : Leads(todo, s) /\ Tree(Declared, built, s.kinds)
    BY Starts DEF make_elem
  <1>2. PICK s \in Shapes : Leads(todo, s) /\ Tree(Declared, built, s.kinds)
    BY <1>1
  <1>3. PICK r \in Shapes : s = Pushed("expr", r) /\ Leads(todo', Pushed("operand", r))
    BY <1>2, ElemLeads
  <1>4. PICK d \in Declared : d = Head(todo).decl
    BY <1>1 DEF CallsOver, make_elem, Call
  <1>5. PICK t : t = Pushed("operand", r)
    OBVIOUS
  <1>6. /\ s.kinds = Append(r.kinds, "expr") /\ t.kinds = Append(r.kinds, "operand")
        /\ r.kinds \in Seq(Kinds)
    BY <1>3, <1>5 DEF Pushed, Shape, Shapes
  <1>7. Tree(Declared, Append(Front(built), ArrElem(d, Last(built))), t.kinds)
    BY <1>2, <1>6, ElemTree
  <1>8. Tree(Declared, built', t.kinds)
    BY <1>4, <1>7 DEF make_elem, Top
  <1>9. todo' \in Seq(CallsOver(Declared))
    BY <1>1, ReturnsOver DEF make_elem
  <1>10. pos' \in Nat \ {0} /\ UNCHANGED <<text, toks, var_decls, status>>
    BY <1>1 DEF make_elem, Becomes, Reading
  <1>11. QED
    BY <1>1, <1>3, <1>5, <1>8, <1>9, <1>10, Goes

LEMMA ExprInv == ASSUME Inv, parse_expr PROVE Inv'
  <1>1. /\ status = "parsing" /\ Reading /\ Tail(todo) \in Seq(CallsOver(Declared))
        /\ \E s \in Shapes : Leads(todo, s) /\ Tree(Declared, built, s.kinds)
    BY Starts DEF parse_expr
  <1>2. PICK s \in Shapes : Leads(todo, s) /\ Tree(Declared, built, s.kinds)
    BY <1>1
  <1>3. PICK t : t = Pushed("expr", s) /\ Leads(todo', t)
    BY <1>2, ExprLeads
  <1>4. t.kinds = Append(s.kinds, "expr") /\ s.kinds \in Seq(Kinds)
    BY <1>3 DEF Pushed, Shape, Shapes
  <1>5. Tree(Declared, built', t.kinds)
    <2>1. \A D, E : Expr(0, <<>>) \in Exprs(D, E)
      <3>1. \A T : <<>> \in Seq(T)
        OBVIOUS
      <3>2. QED
        BY <3>1, Ints DEF Expr, Exprs
    <2>2. \A E, S : Expr(0, <<>>) \in PartsOf(Declared, E, S)["expr"]
      BY <2>1, Parts
    <2>3. Tree(Declared, Append(built, Expr(0, <<>>)), Append(s.kinds, "expr"))
      BY <1>2, <1>4, <2>2, PushTree DEF Kinds
    <2>4. QED
      BY <1>4, <2>3 DEF parse_expr, Push
  <1>6. todo' \in Seq(CallsOver(Declared))
    <2>1. PICK C, a : C = CallsOver(Declared) /\ a = Do("parse_term")
      OBVIOUS
    <2>2. a \in C
      BY <2>1 DEF CallsOver, Calls, Do
    <2>3. <<a>> \in Seq(C) /\ Tail(todo) \in Seq(C)
      BY <1>1, <2>1, <2>2
    <2>4. <<a>> \o Tail(todo) \in Seq(C)
      BY <2>3
    <2>5. QED
      BY <2>1, <2>4 DEF parse_expr, Becomes
  <1>7. pos' \in Nat \ {0} /\ UNCHANGED <<text, toks, var_decls, status>>
    BY <1>1 DEF parse_expr, Becomes, Reading
  <1>8. QED
    BY <1>1, <1>3, <1>5, <1>6, <1>7, Goes

LEMMA AddConstant ==
  ASSUME NEW D, NEW E, NEW e \in Exprs(D, E), NEW n \in Int, NEW sign \in {1, -1}
  PROVE  [e EXCEPT !.constant = Wrap(@ + n * sign)] \in Exprs(D, E)
  <1>1. e.constant \in Int
    BY HalfAssumption DEF Exprs, IntW
  <1>2. n * sign \in Int
    OBVIOUS
  <1>3. e.constant + n * sign \in Int
    BY <1>1, <1>2
  <1>4. Wrap(e.constant + n * sign) \in IntW
    BY <1>3, Ints
  <1>5. QED
    BY <1>4 DEF Exprs

LEMMA TermInv == ASSUME Inv, parse_term PROVE Inv'
  <1>1. /\ status = "parsing" /\ Reading /\ ~Stuck
        /\ Tail(todo) \in Seq(CallsOver(Declared))
        /\ Head(todo) \in CallsOver(Declared)
        /\ \E s \in Shapes : Leads(todo, s) /\ Tree(Declared, built, s.kinds)
    BY Starts DEF parse_term
  <1>2. PICK s \in Shapes : Leads(todo, s) /\ Tree(Declared, built, s.kinds)
    BY <1>1
  <1>3. Ends(s, "expr") /\ s.kinds \in Seq(Kinds)
    BY <1>2, TermLeads DEF parse_term, Shapes
  <1>4. todo \in Seq(CallsOver(Declared))
    BY <1>1 DEF Inv, Building
  <1>5. PICK tok : tok = TokenAt(TermPos)
    OBVIOUS
  <1>6. TermPos \in Nat \ {0} /\ TermPos <= pos + 1 /\ pos \in Nat \ {0} /\ UNCHANGED <<text, toks>>
    BY <1>1 DEF TermPos, Reading, parse_term, Becomes, Crash
  <1>7. UNCHANGED var_decls
    BY DEF parse_term, Crash
  <1>8. CASE /\ \E e \in optimize_expr(Top, DeclIdx) : built' = Append(Front(built), e)
             /\ Becomes(<<>>) /\ UNCHANGED pos
    <2>1. PICK e \in optimize_expr(Top, DeclIdx) : built' = Append(Front(built), e)
      BY <1>8
    <2>2. \A E : Last(built) \in Exprs(Declared, E) => e \in Exprs(Declared, E)
      BY <2>1, OptimizedExpr DEF Top
    <2>3. Tree(Declared, built', s.kinds)
      BY <1>2, <1>3, <2>1, <2>2, TopTree DEF Ends
    <2>4. Leads(todo', s)
      BY <1>2, <1>8, TermLeads DEF parse_term
    <2>5. todo' \in Seq(CallsOver(Declared))
      BY <1>1, <1>8, ReturnsOver
    <2>6. pos' \in Nat \ {0} /\ UNCHANGED <<text, toks, var_decls, status>>
      BY <1>6, <1>7, <1>8 DEF Becomes
    <2>7. QED
      BY <1>1, <2>3, <2>4, <2>5, <2>6, Goes
  <1>9. CASE tok = NULL /\ Crash
    <2>1. TermPos > Len(toks) /\ Len(toks) \in Nat
      BY <1>1, <1>5, <1>6, <1>9, TokensEnd
    <2>2. pos + 8 >= Len(toks)
      BY <1>6, <2>1
    <2>3. QED
      BY <1>1, <1>9, <2>2, Crashes
  <1>10. CASE /\ tok.type = "INT"
              /\ built' = Append(Front(built),
                                 [Top EXCEPT !.constant = Wrap(@ + atoi(tok) * Sign)])
              /\ pos' = TermPos + 1
              /\ UNCHANGED <<todo, status>>
    <2>1. PICK n \in Int : n = atoi(tok)
      BY <1>1, <1>5, <1>10, TokensEnd DEF atoi
    <2>2. PICK sign \in {1, -1} : sign = Sign
      BY DEF Sign
    <2>3. PICK e : e = [Top EXCEPT !.constant = Wrap(@ + n * sign)]
      OBVIOUS
    <2>4. \A E : Last(built) \in Exprs(Declared, E) => e \in Exprs(Declared, E)
      BY <2>3, AddConstant DEF Top
    <2>5. built' = Append(Front(built), e)
      BY <1>10, <2>1, <2>2, <2>3
    <2>6. Tree(Declared, built', s.kinds)
      BY <1>2, <1>3, <2>4, <2>5, TopTree DEF Ends
    <2>7. Leads(todo', s) /\ todo' \in Seq(CallsOver(Declared))
      BY <1>2, <1>4, <1>10
    <2>8. pos' \in Nat \ {0} /\ UNCHANGED <<text, toks, var_decls, status>>
      BY <1>6, <1>7, <1>10
    <2>9. QED
      BY <1>1, <2>6, <2>7, <2>8, Goes
  <1>11. CASE /\ pos' = TermPos
              /\ todo' = <<ParseOperand, AddOperand(Sign)>> \o todo
              /\ UNCHANGED <<built, status>>
    <2>1. Leads(todo', s)
      BY <1>2, <1>11, TermLeads DEF parse_term
    <2>2. todo' \in Seq(CallsOver(Declared))
      <3>1. PICK C, a, b : C = CallsOver(Declared) /\ a = ParseOperand /\ b = AddOperand(Sign)
        OBVIOUS
      <3>2. a \in C
        BY <3>1 DEF CallsOver, Calls, ParseOperand, Do
      <3>3. b \in C
        <4>1. PICK sign \in {1, -1} : sign = Sign
          BY DEF Sign
        <4>2. QED
          BY <3>1, <4>1 DEF CallsOver, Calls, AddOperand
      <3>4. <<a, b>> \in Seq(C) /\ todo \in Seq(C)
        BY <1>4, <3>1, <3>2, <3>3
      <3>5. <<a, b>> \o todo \in Seq(C)
        BY <3>4
      <3>6. QED
        BY <1>11, <3>1, <3>5
    <2>3. pos' \in Nat \ {0} /\ UNCHANGED <<text, toks, var_decls, status, built>>
      BY <1>6, <1>7, <1>11
    <2>4. QED
      BY <1>1, <1>2, <2>1, <2>2, <2>3, Goes
  <1>12. QED
    BY <1>5, <1>8, <1>9, <1>10, <1>11 DEF parse_term

LEMMA AddInv == ASSUME Inv, add_operand PROVE Inv'
  <1>1. /\ status = "parsing" /\ Reading /\ Head(todo) \in CallsOver(Declared)
        /\ Tail(todo) \in Seq(CallsOver(Declared))
        /\ \E s \in Shapes : Leads(todo, s) /\ Tree(Declared, built, s.kinds)
    BY Starts DEF add_operand
  <1>2. PICK s \in Shapes : Leads(todo, s) /\ Tree(Declared, built, s.kinds)
    BY <1>1
  <1>3. PICK t \in Shapes : s = Pushed("operand", t) /\ Ends(t, "expr") /\ Leads(todo', t)
    BY <1>2, AddLeads
  <1>4. PICK sign \in {1, -1} : sign = Head(todo).sign
    BY <1>1 DEF CallsOver, Calls, add_operand, Call
  <1>5. s.kinds = Append(t.kinds, "operand") /\ t.kinds \in Seq(Kinds)
    BY <1>3 DEF Pushed, Shape, Shapes
  <1>6. Tree(Declared, built', t.kinds)
    <2>1. Tree(Declared, built, Append(t.kinds, "operand"))
      BY <1>2, <1>5
    <2>2. Len(t.kinds) >= 1 /\ t.kinds[Len(t.kinds)] = "expr"
      BY <1>3 DEF Ends
    <2>3. PICK e : e = Last(Front(built))
      OBVIOUS
    <2>4. Tree(Declared, Append(Front(Front(built)),
                 [e EXCEPT !.terms = terms_add_operand(e.terms, Last(built), sign)]), t.kinds)
      BY <1>5, <2>1, <2>2, <2>3, AddTree
    <2>5. QED
      BY <1>4, <2>3, <2>4 DEF add_operand, Top
  <1>7. todo' \in Seq(CallsOver(Declared))
    BY <1>1, ReturnsOver DEF add_operand
  <1>8. pos' \in Nat \ {0} /\ UNCHANGED <<text, toks, var_decls, status>>
    BY <1>1 DEF add_operand, Becomes, Reading
  <1>9. QED
    BY <1>1, <1>3, <1>6, <1>7, <1>8, Goes

LEMMA CmpInv == ASSUME Inv, cmp_type PROVE Inv'
  <1>1. /\ status = "parsing" /\ Reading /\ ~Stuck
        /\ Tail(todo) \in Seq(CallsOver(Declared))
        /\ \E s \in Shapes : Leads(todo, s) /\ Tree(Declared, built, s.kinds)
    BY Starts DEF cmp_type
  <1>2. PICK s \in Shapes : Leads(todo, s) /\ Tree(Declared, built, s.kinds)
    BY <1>1
  <1>3. pos \in Nat \ {0}
    BY <1>1 DEF Reading
  <1>4. CASE Token = NULL /\ Crash
    <2>1. pos > Len(toks) /\ Len(toks) \in Nat
      BY <1>1, <1>3, <1>4, TokensEnd DEF Token
    <2>2. pos + 8 >= Len(toks)
      BY <1>3, <2>1
    <2>3. QED
      BY <1>1, <1>4, <2>2, Crashes
  <1>5. CASE Token # NULL
    <2>1. PICK cmp : cmp = IF Token.type = "CMP" THEN Token.cmp ELSE "none"
      OBVIOUS
    <2>2. cmp \in Comparisons
      BY <1>1, <2>1, TokensEnd DEF Token, Comparisons
    <2>3. built' = Append(built, cmp) /\ pos' = pos + 1 /\ Becomes(<<>>) /\ UNCHANGED var_decls
      BY <1>5, <2>1 DEF cmp_type, Push
    <2>4. PICK t : t = Pushed("cmp", s) /\ Leads(todo', t)
      BY <1>2, <2>3, CmpLeads DEF cmp_type
    <2>5. t.kinds = Append(s.kinds, "cmp") /\ s.kinds \in Seq(Kinds)
      BY <2>4 DEF Pushed, Shape, Shapes
    <2>6. Tree(Declared, Append(built, cmp), Append(s.kinds, "cmp"))
      BY <1>2, <2>2, <2>5, PushTree, Parts DEF Kinds
    <2>7. todo' \in Seq(CallsOver(Declared))
      BY <1>1, <2>3, ReturnsOver
    <2>8. pos' \in Nat \ {0} /\ UNCHANGED <<text, toks, var_decls, status>>
      BY <1>3, <2>3 DEF Becomes
    <2>9. Tree(Declared, built', t.kinds)
      BY <2>3, <2>5, <2>6
    <2>10. QED
      BY <1>1, <2>4, <2>7, <2>8, <2>9, Goes
  <1>6. QED
    BY <1>4, <1>5 DEF cmp_type

LEMMA MakeInv == ASSUME Inv, make_stmt PROVE Inv'
  <1>1. /\ status = "parsing" /\ Reading
        /\ Tail(todo) \in Seq(CallsOver(Declared))
        /\ \E s \in Shapes : Leads(todo, s) /\ Tree(Declared, built, s.kinds)
    BY Starts DEF make_stmt
  <1>2. PICK s \in Shapes : Leads(todo, s) /\ Tree(Declared, built, s.kinds)
    BY <1>1
  <1>3. PICK call : call = Head(todo)
    OBVIOUS
  <1>4. /\ call \in Calls /\ call.call = "make_stmt"
        /\ \E t \in Shapes :
             /\ InBlock(t) /\ Leads(todo', t)
             /\ s = Shape(StmtKinds(call, t.kinds),
                          IF call.parts = 4 THEN t.arrays + 1 ELSE t.arrays, t.curs + 1)
    BY <1>2, <1>3, MakeLeads
  <1>5. PICK t \in Shapes :
          /\ InBlock(t) /\ Leads(todo', t)
          /\ s = Shape(StmtKinds(call, t.kinds),
                       IF call.parts = 4 THEN t.arrays + 1 ELSE t.arrays, t.curs + 1)
    BY <1>4
  <1>6. s.kinds = StmtKinds(call, t.kinds)
    BY <1>5 DEF Shape
  <1>7. t.kinds \in Seq(Kinds) /\ Len(t.kinds) >= 1 /\ t.kinds[Len(t.kinds)] = "block"
    BY <1>5 DEF Shapes, InBlock, Ends
  <1>8. PICK blk, stmt :
          /\ blk = Len(built) - call.parts
          /\ stmt = Stmt(call.typ, SubSeq(built, blk + 1, Len(built)))
    OBVIOUS
  <1>9. Tree(Declared, Append(SubSeq(built, 1, blk - 1), Append(built[blk], stmt)), t.kinds)
    BY <1>2, <1>4, <1>6, <1>7, <1>8, StmtTree
  <1>10. Tree(Declared, built', t.kinds)
    BY <1>3, <1>8, <1>9 DEF make_stmt
  <1>11. todo' \in Seq(CallsOver(Declared))
    BY <1>1, ReturnsOver DEF make_stmt
  <1>12. pos' \in Nat \ {0} /\ UNCHANGED <<text, toks, var_decls, status>>
    BY <1>1 DEF make_stmt, Becomes, Reading
  <1>13. QED
    BY <1>1, <1>5, <1>10, <1>11, <1>12, Goes

(* Without an unknown keyword, a loop around parse_stmts opens a statement, *)
(* skips a token or returns.                                                *)
LEMMA LoopSteps ==
  ASSUME parse_blk \/ parser_parse
  PROVE  /\ AtUnknown => UNCHANGED <<text, toks, pos, var_decls, todo, status>>
         /\ ~AtUnknown =>
              \/ Opens
              \/ pos' = pos + 1 /\ UNCHANGED <<text, toks, var_decls, todo, built, status>>
              \/ Becomes(<<>>) /\ UNCHANGED <<pos, var_decls, built>>
  <1>1. AtUnknown => ~match_token("RBRACE") /\ ~AtEnd /\ ~OpensStmt
    BY DEF AtUnknown, match_token, AtEnd
  <1>2. \/ parse_stmts
        \/ ~AtUnknown /\ Becomes(<<>>) /\ UNCHANGED <<pos, var_decls, built>>
    BY <1>1 DEF parse_blk, parser_parse
  <1>3. CASE parse_stmts
    BY <1>1, <1>3 DEF parse_stmts, Opens
  <1>4. QED
    BY <1>2, <1>3

LEMMA StmtCallsOver ==
  ASSUME NEW D, NEW k \in {"VARS", "IHU", "WHILE", "HOR", "YOSORO", "SET"}
  PROVE  StmtCalls(k) \in Seq(CallsOver(D))
  <1>1. PICK C, a, b, c, d, e, f, g :
          /\ C = CallsOver(D) /\ a = ParseOperand /\ b = Consume /\ c = ParseExpr
          /\ d = Do("cmp_type") /\ e = Do("da_init") /\ f = Do("parse_blk")
          /\ g = Do("parse_vars")
    OBVIOUS
  <1>2. /\ a \in C /\ b \in C /\ c \in C /\ d \in C /\ e \in C /\ f \in C /\ g \in C
    BY <1>1 DEF CallsOver, Calls, ParseOperand, Consume, ParseExpr, Do
  <1>3. PICK i, w, h, y, s :
          /\ i = MakeStmt("IHU", 4) /\ w = MakeStmt("WHILE", 4) /\ h = MakeStmt("HOR", 4)
          /\ y = MakeStmt("YOSORO", 1) /\ s = MakeStmt("SET", 2)
    OBVIOUS
  <1>4. i \in C /\ w \in C /\ h \in C /\ y \in C /\ s \in C
    BY <1>1, <1>3 DEF CallsOver, Calls, MakeStmt
  <1>5. PICK p, q, r : p = <<d, b, c, b, c>> /\ q = <<e, f, b>> /\ r = <<a, b, c, b, c>>
    OBVIOUS
  <1>6. p \in Seq(C) /\ q \in Seq(C) /\ r \in Seq(C)
    BY <1>2, <1>5
  <1>7. \A x \in C : p \o q \o <<x>> \in Seq(C) /\ r \o q \o <<x>> \in Seq(C)
    <2>1. p \o q \in Seq(C) /\ r \o q \in Seq(C)
      BY <1>6
    <2>2. QED
      BY <2>1
  <1>8. p = ParseCond /\ q = ParseBlk
    BY <1>1, <1>5 DEF ParseCond, ParseBlk
  <1>9. CASE k \in {"IHU", "WHILE", "HOR"}
    <2>1. StmtCalls(k) = p \o q \o <<i>> \/ StmtCalls(k) = p \o q \o <<w>>
            \/ StmtCalls(k) = r \o q \o <<h>>
      BY <1>1, <1>3, <1>5, <1>8, <1>9 DEF StmtCalls
    <2>2. QED
      BY <1>1, <1>4, <1>7, <2>1
  <1>10. CASE k = "YOSORO"
    <2>1. StmtCalls(k) = <<c, y>> /\ <<c, y>> \in Seq(C)
      BY <1>1, <1>2, <1>3, <1>4, <1>10 DEF StmtCalls
    <2>2. QED
      BY <1>1, <2>1
  <1>11. CASE k = "SET"
    <2>1. StmtCalls(k) = <<a, b, c, s>> /\ <<a, b, c, s>> \in Seq(C)
      BY <1>1, <1>2, <1>3, <1>4, <1>11 DEF StmtCalls
    <2>2. QED
      BY <1>1, <2>1
  <1>12. CASE k = "VARS"
    <2>1. StmtCalls(k) = <<g>> /\ <<g>> \in Seq(C)
      BY <1>1, <1>2, <1>12 DEF StmtCalls
    <2>2. QED
      BY <1>1, <2>1
  <1>13. QED
    BY <1>9, <1>10, <1>11, <1>12

LEMMA BlockInv == ASSUME Inv, parse_blk \/ parser_parse PROVE Inv'
  <1>1. Call("parse_blk") \/ Call("parser_parse")
    BY DEF parse_blk, parser_parse
  <1>2. CASE AtUnknown
    <2>1. UNCHANGED <<text, toks, pos, var_decls, todo, status>>
      BY <1>2, LoopSteps
    <2>2. Stuck
      BY <1>1, <1>2 DEF Stuck
    <2>3. Stuck'
      BY <2>1, <2>2 DEF Stuck, Call, AtUnknown, OpensStmt, Token, TokenAt
    <2>4. Reading' /\ CrashesOnlyAtEnd'
      BY <2>1 DEF Inv, Reading, CrashesOnlyAtEnd
    <2>5. QED
      BY <2>1, <2>3, <2>4 DEF Inv
  <1>3. CASE ~AtUnknown
    <2>1. PICK s : Leads(todo, s) /\ Building(s)
      BY <1>3 DEF Inv, Stuck
    <2>2. status = "parsing" /\ Reading /\ pos \in Nat \ {0} /\ s \in Shapes
      BY <1>1, <2>1, AreShapes DEF Inv, Call, Reading
    <2>3. /\ todo \in Seq(CallsOver(Declared)) /\ todo # <<>>
          /\ Tree(Declared, built, s.kinds)
      BY <1>1, <2>1 DEF Building, Call
    <2>4. CASE Opens
      <3>1. PICK k \in {"VARS", "IHU", "WHILE", "HOR", "YOSORO", "SET"} :
              k = TokenAt(pos + 1).type
        BY <2>4, KeywordOpens DEF Opens
      <3>2. PICK t : t = Shape(s.kinds, s.arrays, IF k = "VARS" THEN s.curs ELSE s.curs + 1)
        OBVIOUS
      <3>3. Leads(todo', t)
        BY <1>1, <2>1, <2>4, <3>1, <3>2, BlockLeads
      <3>4. t.kinds = s.kinds
        BY <3>2 DEF Shape
      <3>5. todo' \in Seq(CallsOver(Declared))
        <4>1. PICK C, calls : C = CallsOver(Declared) /\ calls = StmtCalls(k)
          OBVIOUS
        <4>2. calls \in Seq(C) /\ todo \in Seq(C)
          BY <2>3, <4>1, StmtCallsOver
        <4>3. calls \o todo \in Seq(C)
          BY <4>2
        <4>4. QED
          BY <2>4, <3>1, <4>1, <4>3 DEF Opens
      <3>6. pos' \in Nat \ {0} /\ UNCHANGED <<text, toks, var_decls, status, built>>
        BY <2>2, <2>4 DEF Opens
      <3>7. Tree(Declared, built', t.kinds)
        BY <2>3, <3>4, <3>6
      <3>8. QED
        BY <2>2, <3>3, <3>5, <3>6, <3>7, Goes
    <2>5. CASE pos' = pos + 1 /\ UNCHANGED <<text, toks, var_decls, todo, built, status>>
      <3>1. pos' \in Nat \ {0} /\ Leads(todo', s) /\ todo' \in Seq(CallsOver(Declared))
            /\ Tree(Declared, built', s.kinds)
        BY <2>1, <2>2, <2>3, <2>5
      <3>2. QED
        BY <2>2, <2>5, <3>1, Goes
    <2>6. CASE Becomes(<<>>) /\ UNCHANGED <<pos, var_decls, built>>
      <3>1. Leads(todo', s)
        BY <1>1, <2>1, <2>6, BlockLeads
      <3>2. todo' \in Seq(CallsOver(Declared))
        <4>1. PICK C : C = CallsOver(Declared) /\ todo \in Seq(C)
          BY <2>3
        <4>2. Tail(todo) \in Seq(C)
          BY <2>3, <4>1
        <4>3. QED
          BY <2>6, <4>1, <4>2, ReturnsOver
      <3>3. pos' \in Nat \ {0} /\ Tree(Declared, built', s.kinds)
            /\ UNCHANGED <<text, toks, status>>
        BY <2>2, <2>3, <2>6 DEF Becomes
      <3>4. QED
        BY <2>2, <2>6, <3>1, <3>2, <3>3, Goes
    <2>7. QED
      BY <1>3, <2>4, <2>5, <2>6, LoopSteps
  <1>4. QED
    BY <1>2, <1>3

LEMMA VarsInv == ASSUME Inv, parse_vars PROVE Inv'
  <1>1. /\ status = "parsing" /\ Reading /\ ~Stuck
        /\ Tail(todo) \in Seq(CallsOver(Declared))
        /\ \E s \in Shapes : Leads(todo, s) /\ Tree(Declared, built, s.kinds)
    BY Starts DEF parse_vars
  <1>2. PICK s \in Shapes : Leads(todo, s) /\ Tree(Declared, built, s.kinds)
    BY <1>1
  <1>3. pos \in Nat \ {0} /\ pos + 6 \in Nat \ {0} /\ pos + 8 \in Nat \ {0}
    BY <1>1 DEF Reading
  <1>4. todo \in Seq(CallsOver(Declared))
    BY <1>1 DEF Inv, Building
  <1>5. CASE pos' = pos + 1 /\ Becomes(<<>>) /\ UNCHANGED <<var_decls, built>>
    <2>1. Leads(todo', s)
      BY <1>2, <1>5, VarsLeads DEF parse_vars
    <2>2. todo' \in Seq(CallsOver(Declared))
      BY <1>1, <1>5, ReturnsOver
    <2>3. pos' \in Nat \ {0} /\ Tree(Declared, built', s.kinds) /\ UNCHANGED <<text, toks, status>>
      BY <1>2, <1>3, <1>5 DEF Becomes
    <2>4. QED
      BY <1>1, <1>5, <2>1, <2>2, <2>3, Goes
  <1>6. CASE /\ \/ Token = NULL
                \/ ~(HasText(TokenAt(pos + 6)) /\ HasText(TokenAt(pos + 8)))
             /\ Crash
    <2>1. \/ TokenAt(pos) = NULL
          \/ TokenAt(pos + 6).type \in {"NULL", "EOF"}
          \/ TokenAt(pos + 8).type \in {"NULL", "EOF"}
      BY <1>6 DEF Token, HasText
    <2>2. pos > Len(toks) \/ pos + 6 >= Len(toks) \/ pos + 8 >= Len(toks)
      BY <1>1, <1>3, <2>1, TokensEnd
    <2>3. Len(toks) \in Nat
      BY <1>1, TokensEnd
    <2>4. pos + 8 >= Len(toks)
      BY <1>3, <2>2, <2>3
    <2>5. QED
      BY <1>1, <1>6, <2>4, Crashes
  <1>7. ASSUME NEW decl, NEW n \in Nat, Declare(decl, n) PROVE Inv'
    <2>1. PICK A : var_decls \in Seq(A)
      BY <1>1 DEF Reading
    <2>2. /\ var_decls' \in Seq(A \cup {decl})
          /\ DOMAIN var_decls \subseteq DOMAIN var_decls'
      <3>1. PICK B : B = A \cup {decl}
        OBVIOUS
      <3>2. var_decls \in Seq(B) /\ decl \in B
        BY <2>1, <3>1
      <3>3. /\ Append(var_decls, decl) \in Seq(B)
            /\ DOMAIN var_decls \subseteq DOMAIN Append(var_decls, decl)
        BY <3>2
      <3>4. QED
        BY <1>7, <3>1, <3>3 DEF Declare
    <2>3. Declared \subseteq Declared'
      BY <2>2 DEF Declared, DeclIdx
    <2>4. UNCHANGED <<text, toks, todo, built, status>> /\ pos' \in Nat \ {0}
      BY <1>3, <1>7 DEF Declare
    <2>5. Reading'
      BY <1>1, <2>2, <2>4 DEF Reading
    <2>6. CrashesOnlyAtEnd'
      BY <1>1, <2>4 DEF CrashesOnlyAtEnd
    <2>7. Building(s)'
      <3>1. PICK D, D2 : D = Declared /\ D2 = Declared'
        OBVIOUS
      <3>2. CallsOver(D) \subseteq CallsOver(D2)
        BY <2>3, <3>1 DEF CallsOver
      <3>3. todo \in Seq(CallsOver(D2))
        BY <1>4, <3>1, <3>2
      <3>4. s.kinds \in Seq(Kinds)
        BY DEF Shapes
      <3>5. Tree(D2, built, s.kinds)
        BY <1>2, <2>3, <3>1, <3>4, MoreTree
      <3>6. QED
        BY <2>4, <3>1, <3>3, <3>5 DEF Building
    <2>8. Leads(todo', s)
      BY <1>2, <2>4
    <2>9. QED
      BY <2>5, <2>6, <2>7, <2>8 DEF Inv
  <1>8. QED
    BY <1>5, <1>6, <1>7 DEF parse_vars

LEMMA NextInv == Inv /\ [Next]_vars => Inv'
  <1> SUFFICES ASSUME Inv, [Next]_vars PROVE Inv'
    OBVIOUS
  <1>1. CASE UNCHANGED vars
    BY <1>1 DEF vars, Inv, Reading, CrashesOnlyAtEnd, Stuck, Call, AtUnknown, OpensStmt,
                Token, TokenAt, Building, Declared, DeclIdx
  <1>2. CASE Next
    BY <1>2, ConsumeInv, DaInitInv, OperandInv, ElemInv, ExprInv, TermInv, AddInv, CmpInv,
       MakeInv, BlockInv, VarsInv DEF Next
  <1>3. QED
    BY <1>1, <1>2

(* The parser keeps its invariant, with its memory or without.              *)
LEMMA Invariant == Init /\ [][Next]_vars => []Inv
  BY InitInv, NextInv, PTL

(* For all programs: what the parser does next finds the parts it needs,    *)
(* in a finite tree over the declarations.                                  *)
THEOREM Safety == Spec => []Inv
  BY Invariant, PTL DEF Spec

LEMMA InvTypes == Inv => TypeOK
  <1> SUFFICES ASSUME Inv PROVE TypeOK
    OBVIOUS
  <1>1. status \in {"parsing", "crashed"}
    BY DEF Inv, Reading
  <1>2. ASSUME Call("parse_term")
        PROVE  /\ Top.constant \in IntW
               /\ \A i \in DOMAIN Top.terms :
                    /\ Top.terms[i].coefficient \in IntW
                    /\ Top.terms[i].operand.decl \in DOMAIN DeclIdx
    <2>1. \E s \in Shapes : Leads(todo, s) /\ Tree(Declared, built, s.kinds)
      BY <1>2, Starts
    <2>2. PICK s \in Shapes : Leads(todo, s) /\ Tree(Declared, built, s.kinds)
      BY <2>1
    <2>3. Ends(s, "expr") /\ s.kinds \in Seq(Kinds)
      BY <1>2, <2>2, TermLeads DEF Shapes
    <2>4. PICK E, S : Fits(built, s.kinds, PartsOf(Declared, E, S))
      BY <2>2 DEF Tree
    <2>5. PICK e \in Exprs(Declared, E) : e = Top
      BY <2>3, <2>4, FitsTop, Parts DEF Ends, Top, Kinds
    <2>6. e.constant \in IntW /\ e.terms \in Seq(OperandTerms(Declared, E))
      BY DEF Exprs
    <2>7. ASSUME NEW i \in DOMAIN e.terms
          PROVE  e.terms[i].coefficient \in IntW /\ e.terms[i].operand.decl \in Declared
      <3>1. e.terms[i] \in OperandTerms(Declared, E)
        BY <2>6
      <3>2. e.terms[i].operand \in Operands(Declared, E)
        BY <3>1 DEF OperandTerms
      <3>3. QED
        BY <3>1, <3>2 DEF OperandTerms, Operands
    <2>8. QED
      BY <2>5, <2>6, <2>7 DEF Declared
  <1>3. QED
    BY <1>1, <1>2 DEF TypeOK

(* Constants and coefficients stay ints however many terms are merged, and  *)
(* an operand is declared or marked as not found.                           *)
THEOREM TypeCorrect == Spec => []TypeOK
  BY Safety, InvTypes, PTL

(* Whatever the tokens are, a null pointer is followed only where they run  *)
(* out.                                                                     *)
THEOREM NullOnlyAtEnd == Spec => []CrashesOnlyAtEnd
  <1>1. Inv => CrashesOnlyAtEnd
    BY DEF Inv
  <1>2. QED
    BY <1>1, Safety, PTL

(* When parser_parse returns, nothing waits any more, and the statements    *)
(* are a finite tree of filled-in statements over ints and declarations:    *)
(* what Trees.tla and Interpreter.tla assume, but for names that were not   *)
(* found and conditions without a comparison.                               *)
Finished ==
  Done =>
    /\ Len(built) = 1
    /\ \E E, S : /\ FiniteExprs(Declared, E) /\ FiniteStmts(Declared, E, S)
                 /\ stmts \in Seq(S)

LEMMA InvFinished == Inv => Finished
  <1> SUFFICES ASSUME Inv, Done PROVE Finished
    BY DEF Finished
  <1>1. ~Stuck
    BY DEF Stuck, Call, Done
  <1>2. PICK s : Leads(todo, s) /\ Building(s)
    BY <1>1 DEF Inv
  <1>3. s = Final
    BY <1>2, LeadsNowhere DEF Done
  <1>4. s.kinds = <<"block">>
    BY <1>3 DEF Final, Shape
  <1>5. PICK E, S : /\ FiniteExprs(Declared, E) /\ FiniteStmts(Declared, E, S)
                    /\ Fits(built, s.kinds, PartsOf(Declared, E, S))
    BY <1>2 DEF Building, Tree
  <1>6. Len(built) = 1 /\ built[1] \in Seq(S)
    <2>1. Len(s.kinds) = 1 /\ s.kinds[1] = "block"
      BY <1>4
    <2>2. 1 \in 1 .. Len(s.kinds)
      BY <2>1
    <2>3. QED
      BY <1>5, <2>1, <2>2, Parts DEF Fits
  <1>7. QED
    BY <1>5, <1>6 DEF Finished, stmts

(* A parser that is done hands a tree over that the back ends can walk.     *)
THEOREM HandsOverATree == Spec => []Finished
  BY Safety, InvFinished, PTL

-----------------------------------------------------------------------------
(* The arrays of statements and the pointers into them.                     *)

(* One array for each block, and one cur_stmt in each array around a        *)
(* statement that is being parsed.                                          *)
Memory(s) ==
  /\ \E A : arrays \in Seq(A)
  /\ \E C : curs \in Seq(C)
  /\ Len(arrays) = s.arrays /\ Len(curs) = s.curs
  /\ \A i \in 1 .. Len(arrays) : arrays[i].items \in Nat /\ arrays[i].item_cnts \in Nat
  /\ \A i \in 1 .. Len(curs) : curs[i].array = i

MemInv == RefsValid /\ \E s : Leads(todo, s) /\ Memory(s)

LEMMA MemInitInv == MemInit => MemInv
  <1> SUFFICES ASSUME MemInit PROVE MemInv
    OBVIOUS
  <1>1. Init /\ arrays = <<>> /\ curs = <<>>
    BY DEF MemInit
  <1>2. PICK s : s = Shape(<<>>, 0, 0) /\ Leads(todo, s)
    BY <1>1, InitLeads
  <1>3. <<>> \in Seq({}) /\ Len(<<>>) = 0 /\ 1 .. 0 = {} /\ DOMAIN <<>> = {}
    OBVIOUS
  <1>4. Memory(s)
    BY <1>1, <1>2, <1>3 DEF Memory, Shape
  <1>5. RefsValid
    BY <1>1, <1>3 DEF RefsValid
  <1>6. QED
    BY <1>2, <1>4, <1>5 DEF MemInv

LEMMA MemKept ==
  ASSUME MemInv, UNCHANGED <<arrays, curs>>,
         \A s \in Shapes : Leads(todo, s) =>
           \E t : t.arrays = s.arrays /\ t.curs = s.curs /\ Leads(todo', t)
  PROVE  MemInv'
  <1>1. PICK s : Leads(todo, s) /\ Memory(s)
    BY DEF MemInv
  <1>2. s \in Shapes
    BY <1>1, AreShapes
  <1>3. PICK t : t.arrays = s.arrays /\ t.curs = s.curs /\ Leads(todo', t)
    BY <1>1, <1>2
  <1>4. Memory(t)'
    BY <1>1, <1>3 DEF Memory
  <1>5. RefsValid'
    BY DEF MemInv, RefsValid
  <1>6. QED
    BY <1>3, <1>4, <1>5 DEF MemInv

LEMMA SamePushed ==
  ASSUME NEW s \in Shapes, NEW kind \in Kinds
  PROVE  Pushed(kind, s).arrays = s.arrays /\ Pushed(kind, s).curs = s.curs
  BY PushedIsShape

(* The calls that touch neither.                                            *)
LEMMA OthersKeep ==
  ASSUME Reading,
         \/ consume_token \/ parse_operand \/ make_elem \/ parse_term \/ cmp_type
         \/ parse_expr \/ add_operand \/ parse_vars,
         NEW s \in Shapes, Leads(todo, s)
  PROVE  \E t : t.arrays = s.arrays /\ t.curs = s.curs /\ Leads(todo', t)
  <1>1. CASE consume_token
    BY <1>1, ConsumeLeads
  <1>2. CASE UNCHANGED todo
    BY <1>2
  <1>3. CASE parse_operand /\ todo' # todo
    <2>1. CASE Becomes(<<>>)
      BY <1>3, <2>1, OperandLeads, SamePushed DEF parse_operand, Kinds
    <2>2. CASE Becomes(<<ParseExpr, Consume, MakeElem(operand_finder(Token))>>)
      <3>1. PICK d \in Nat : d = operand_finder(Token)
        BY FoundIsDeclared, DeclsAre
      <3>2. QED
        BY <1>3, <2>2, <3>1, OperandLeads DEF parse_operand
    <2>3. QED
      BY <1>3, <2>1, <2>2 DEF parse_operand, Crash
  <1>4. CASE make_elem
    <2>1. PICK r \in Shapes : s = Pushed("expr", r) /\ Leads(todo', Pushed("operand", r))
      BY <1>4, ElemLeads
    <2>2. QED
      BY <2>1, SamePushed DEF Kinds
  <1>5. CASE parse_term
    BY <1>5, TermLeads DEF parse_term, Crash
  <1>6. CASE cmp_type
    BY <1>6, CmpLeads, SamePushed DEF cmp_type, Crash, Kinds
  <1>7. CASE parse_expr
    BY <1>7, ExprLeads, SamePushed DEF Kinds
  <1>8. CASE add_operand
    <2>1. PICK t \in Shapes : s = Pushed("operand", t) /\ Leads(todo', t)
      BY <1>8, AddLeads
    <2>2. QED
      BY <2>1, SamePushed DEF Kinds
  <1>9. CASE parse_vars
    BY <1>9, VarsLeads DEF parse_vars, Crash, Declare
  <1>10. QED
    BY <1>1, <1>2, <1>3, <1>4, <1>5, <1>6, <1>7, <1>8, <1>9

LEMMA MemDaInitInv == ASSUME MemInv, MemDaInit PROVE MemInv'
  <1>1. PICK s : Leads(todo, s) /\ Memory(s)
    BY DEF MemInv
  <1>2. s \in Shapes /\ s.arrays \in Nat /\ s.curs \in Nat
    BY <1>1, AreShapes DEF Shapes
  <1>3. PICK t : t = Shape(Append(s.kinds, "block"), s.arrays + 1, s.curs) /\ Leads(todo', t)
        /\ s.arrays = s.curs
    BY <1>1, DaInitLeads DEF MemDaInit
  <1>4. t.arrays = s.arrays + 1 /\ t.curs = s.curs
    BY <1>3 DEF Shape
  <1>5. PICK new : new = [items |-> 0, item_cnts |-> 0, capacity |-> StmtCapacity]
    OBVIOUS
  <1>6. PICK A : arrays \in Seq(A) /\ Len(arrays) = s.arrays
    BY <1>1 DEF Memory
  <1>7. PICK B : B = A \cup {new}
    OBVIOUS
  <1>8. /\ arrays' \in Seq(B) /\ Len(arrays') = s.arrays + 1
        /\ arrays'[s.arrays + 1] = new
        /\ \A i \in 1 .. s.arrays : arrays'[i] = arrays[i]
    <2>1. arrays \in Seq(B) /\ new \in B
      BY <1>6, <1>7
    <2>2. arrays' = Append(arrays, new)
      BY <1>5 DEF MemDaInit
    <2>3. QED
      BY <1>6, <2>1, <2>2
  <1>9. curs' = curs
    BY DEF MemDaInit
  <1>10. Memory(t)'
    <2>1. \A i \in 1 .. s.arrays : arrays[i].items \in Nat /\ arrays[i].item_cnts \in Nat
      BY <1>1 DEF Memory
    <2>2. new.items \in Nat /\ new.item_cnts \in Nat
      BY <1>5
    <2>3. ASSUME NEW i \in 1 .. Len(arrays')
          PROVE  arrays'[i].items \in Nat /\ arrays'[i].item_cnts \in Nat
      <3>1. i \in 1 .. s.arrays \/ i = s.arrays + 1
        BY <1>2, <1>8
      <3>2. QED
        BY <1>8, <2>1, <2>2, <3>1
    <2>4. QED
      BY <1>1, <1>4, <1>8, <1>9, <2>3 DEF Memory
  <1>11. RefsValid'
    <2>1. \A i \in DOMAIN curs : curs[i].array \in 1 .. s.arrays
      BY <1>1, <1>2, <1>3 DEF Memory
    <2>2. QED
      BY <1>8, <1>9, <2>1 DEF MemInv, RefsValid
  <1>12. QED
    BY <1>3, <1>10, <1>11 DEF MemInv

LEMMA MemMakeInv == ASSUME MemInv, MemMakeStmt PROVE MemInv'
  <1>1. PICK s : Leads(todo, s) /\ Memory(s)
    BY DEF MemInv
  <1>2. PICK call : call = Head(todo)
    OBVIOUS
  <1>3. \E t \in Shapes :
          /\ InBlock(t) /\ Leads(todo', t)
          /\ s = Shape(StmtKinds(call, t.kinds),
                       IF call.parts = 4 THEN t.arrays + 1 ELSE t.arrays, t.curs + 1)
    BY <1>1, <1>2, MakeLeads DEF MemMakeStmt
  <1>4. PICK t \in Shapes :
          /\ InBlock(t) /\ Leads(todo', t)
          /\ s = Shape(StmtKinds(call, t.kinds),
                       IF call.parts = 4 THEN t.arrays + 1 ELSE t.arrays, t.curs + 1)
    BY <1>3
  <1>5. /\ t.arrays \in Nat /\ t.curs \in Nat /\ t.arrays = t.curs + 1
        /\ s.curs = t.curs + 1
        /\ s.arrays = IF call.parts = 4 THEN t.arrays + 1 ELSE t.arrays
    BY <1>4 DEF Shape, Shapes, InBlock
  <1>6. PICK A, C : /\ arrays \in Seq(A) /\ Len(arrays) = s.arrays
                    /\ curs \in Seq(C) /\ Len(curs) = s.curs
    BY <1>1 DEF Memory
  <1>7. /\ curs' \in Seq(C) /\ Len(curs') = t.curs /\ DOMAIN curs' = 1 .. t.curs
        /\ \A i \in 1 .. t.curs : curs'[i] = curs[i]
    <2>1. curs' = SubSeq(curs, 1, t.curs)
      BY <1>5, <1>6 DEF MemMakeStmt, Front
    <2>2. QED
      BY <1>5, <1>6, <2>1
  <1>8. /\ arrays' \in Seq(A) /\ Len(arrays') = t.arrays
        /\ \A i \in 1 .. t.arrays : arrays'[i] = arrays[i]
    <2>1. CASE call.parts = 4
      <3>1. arrays' = SubSeq(arrays, 1, t.arrays)
        BY <1>2, <1>5, <1>6, <2>1 DEF MemMakeStmt, Front
      <3>2. Len(arrays) = t.arrays + 1
        BY <1>5, <1>6, <2>1
      <3>3. QED
        BY <1>5, <1>6, <3>1, <3>2
    <2>2. CASE call.parts # 4
      BY <1>2, <1>5, <1>6, <2>2 DEF MemMakeStmt
    <2>3. QED
      BY <2>1, <2>2
  <1>9. t.arrays <= s.arrays /\ t.curs <= s.curs /\ t.curs <= t.arrays
        /\ s.arrays \in Nat /\ s.curs \in Nat
    BY <1>5
  <1>10. Memory(t)'
    <2>1. \A i \in 1 .. s.arrays : arrays[i].items \in Nat /\ arrays[i].item_cnts \in Nat
      BY <1>1, <1>6 DEF Memory
    <2>2. \A i \in 1 .. s.curs : curs[i].array = i
      BY <1>1, <1>6 DEF Memory
    <2>3. \A i \in 1 .. t.arrays : arrays'[i].items \in Nat /\ arrays'[i].item_cnts \in Nat
      BY <1>8, <1>9, <2>1
    <2>4. \A i \in 1 .. t.curs : curs'[i].array = i
      BY <1>7, <1>9, <2>2
    <2>5. QED
      BY <1>7, <1>8, <2>3, <2>4 DEF Memory
  <1>11. RefsValid'
    <2>1. SUFFICES ASSUME NEW i \in 1 .. t.curs
                   PROVE  /\ arrays'[curs'[i].array].items = curs'[i].items
                          /\ curs'[i].idx = arrays'[curs'[i].array].item_cnts - 1
      BY <1>7 DEF RefsValid
    <2>2. i \in 1 .. s.curs /\ i \in 1 .. t.arrays /\ i \in DOMAIN curs
      <3>1. DOMAIN curs = 1 .. s.curs
        BY <1>6
      <3>2. QED
        BY <1>5, <1>9, <3>1
    <2>3. curs'[i] = curs[i] /\ arrays'[i] = arrays[i] /\ curs[i].array = i
      BY <1>1, <1>6, <1>7, <1>8, <2>2 DEF Memory
    <2>4. /\ arrays[curs[i].array].items = curs[i].items
          /\ curs[i].idx = arrays[curs[i].array].item_cnts - 1
      BY <2>2 DEF MemInv, RefsValid
    <2>5. QED
      BY <2>3, <2>4
  <1>12. QED
    BY <1>4, <1>10, <1>11 DEF MemInv

(* A statement goes to the innermost array, in which none is open.          *)
LEMMA PushedStmt ==
  ASSUME MemInv, NEW s \in Shapes, Leads(todo, s), Memory(s), InBlock(s), push_stmt
  PROVE  /\ \E A : arrays' \in Seq(A)
         /\ \E C : curs' \in Seq(C)
         /\ Len(arrays') = s.arrays
         /\ Len(curs') = IF AtUnknown THEN s.curs ELSE s.curs + 1
         /\ \A i \in 1 .. s.arrays : arrays'[i].items \in Nat /\ arrays'[i].item_cnts \in Nat
         /\ \A i \in 1 .. Len(curs') : curs'[i].array = i
         /\ RefsValid'
  <1>1. s.arrays \in Nat /\ s.curs \in Nat /\ s.arrays = s.curs + 1
    BY DEF Shapes, InBlock
  <1>2. PICK A, C : /\ arrays \in Seq(A) /\ Len(arrays) = s.arrays
                    /\ curs \in Seq(C) /\ Len(curs) = s.curs
    BY DEF Memory
  <1>3. PICK n \in 1 .. s.arrays : n = s.arrays /\ n = Target /\ n = s.curs + 1
    BY <1>1, <1>2 DEF Target
  <1>4. PICK new, k :
          /\ k \in {0, 1}
          /\ arrays' = [arrays EXCEPT ![n] = new]
          /\ new.items = arrays[n].items + k
          /\ new.item_cnts = arrays[n].item_cnts + 1
    <2> DEFINE full == arrays[Target].item_cnts >= arrays[Target].capacity
               Grown(k) == [items     |-> arrays[Target].items + k,
                            item_cnts |-> arrays[Target].item_cnts + 1,
                            capacity  |-> IF full THEN 2 * arrays[Target].capacity
                                                  ELSE arrays[Target].capacity]
    <2>a. \E k \in IF full THEN {0, 1} ELSE {0} :
            arrays' = [arrays EXCEPT ![Target] = Grown(k)]
      BY Zenon DEF push_stmt
    <2>b. \A k : Grown(k).items = arrays[Target].items + k
               /\ Grown(k).item_cnts = arrays[Target].item_cnts + 1
      OBVIOUS
    <2> HIDE DEF Grown
    <2>1. PICK k : k \in {0, 1} /\ arrays' = [arrays EXCEPT ![Target] = Grown(k)]
      BY <2>a
    <2>2. PICK new : new = Grown(k)
      OBVIOUS
    <2>3. arrays' = [arrays EXCEPT ![n] = new]
      BY <1>3, <2>1, <2>2
    <2>4. new.items = arrays[n].items + k /\ new.item_cnts = arrays[n].item_cnts + 1
      BY <1>3, <2>2, <2>b
    <2>5. QED
      BY <2>1, <2>3, <2>4
  <1>5. /\ \A i \in 1 .. s.arrays : arrays[i].items \in Nat /\ arrays[i].item_cnts \in Nat
        /\ \A i \in 1 .. s.curs : curs[i].array = i
    BY <1>2 DEF Memory
  <1>6. PICK B : B = A \cup {new}
    OBVIOUS
  <1>7. /\ arrays' \in Seq(B) /\ Len(arrays') = s.arrays /\ arrays'[n] = new
        /\ \A i \in 1 .. s.arrays : i # n => arrays'[i] = arrays[i]
    <2>1. arrays \in Seq(B) /\ new \in B /\ n \in DOMAIN arrays
      BY <1>2, <1>6
    <2>2. QED
      BY <1>2, <1>4, <2>1
  <1>8. new.items \in Nat /\ new.item_cnts \in Nat /\ new.item_cnts - 1 = arrays[n].item_cnts
    BY <1>4, <1>5
  <1>9. \A i \in 1 .. s.arrays : arrays'[i].items \in Nat /\ arrays'[i].item_cnts \in Nat
    BY <1>5, <1>7, <1>8
  <1>10. DOMAIN curs = 1 .. s.curs
    BY <1>2
  <1>11. ASSUME NEW i \in 1 .. s.curs
         PROVE  /\ arrays'[curs[i].array].items = curs[i].items
                /\ curs[i].idx = arrays'[curs[i].array].item_cnts - 1
    <2>1. curs[i].array = i /\ i \in 1 .. s.arrays /\ i # n
      BY <1>1, <1>3, <1>5
    <2>2. /\ arrays[curs[i].array].items = curs[i].items
          /\ curs[i].idx = arrays[curs[i].array].item_cnts - 1
      BY <1>10 DEF MemInv, RefsValid
    <2>3. QED
      BY <1>7, <2>1, <2>2
  <1>12. CASE AtUnknown
    <2>1. curs' = curs
      BY <1>12 DEF push_stmt
    <2>2. RefsValid'
      BY <1>10, <1>11, <2>1 DEF RefsValid
    <2>3. QED
      BY <1>2, <1>5, <1>7, <1>9, <1>12, <2>1, <2>2
  <1>13. CASE ~AtUnknown
    <2>1. PICK ref : ref = [array |-> n, items |-> arrays'[n].items, idx |-> arrays[n].item_cnts]
      OBVIOUS
    <2>2. curs' = Append(curs, ref)
      BY <1>3, <1>13, <2>1 DEF push_stmt
    <2>3. PICK F : F = C \cup {ref}
      OBVIOUS
    <2>4. /\ curs' \in Seq(F) /\ Len(curs') = n /\ DOMAIN curs' = 1 .. n
          /\ curs'[n] = ref /\ \A i \in 1 .. s.curs : curs'[i] = curs[i]
      <3>1. curs \in Seq(F) /\ ref \in F
        BY <1>2, <2>3
      <3>2. QED
        BY <1>2, <1>3, <2>2, <3>1
    <2>5. \A i \in 1 .. n : i = n \/ i \in 1 .. s.curs
      BY <1>1, <1>3
    <2>6. \A i \in 1 .. n : curs'[i].array = i
      BY <1>5, <2>1, <2>4, <2>5
    <2>7. /\ arrays'[ref.array].items = ref.items
          /\ ref.idx = arrays'[ref.array].item_cnts - 1
      BY <1>7, <1>8, <2>1
    <2>8. RefsValid'
      BY <1>11, <2>4, <2>5, <2>7 DEF RefsValid
    <2>9. QED
      BY <1>3, <1>7, <1>9, <1>13, <2>4, <2>6, <2>8
  <1>14. QED
    BY <1>12, <1>13

LEMMA MemBlockInv == ASSUME MemInv, MemParseStmts PROVE MemInv'
  <1>1. PICK s : Leads(todo, s) /\ Memory(s)
    BY DEF MemInv
  <1>2. s \in Shapes
    BY <1>1, AreShapes
  <1>3. /\ parse_blk \/ parser_parse
        /\ Call("parse_blk") \/ Call("parser_parse")
    BY DEF MemParseStmts, parse_blk, parser_parse
  <1>4. InBlock(s)
    BY <1>1, <1>3, BlockLeads
  <1>5. PICK t : /\ t.arrays = s.arrays
                 /\ t.curs = IF PushesStmt /\ ~AtUnknown THEN s.curs + 1 ELSE s.curs
                 /\ Leads(todo', t)
    <2>1. CASE AtUnknown
      BY <1>1, <1>3, <2>1, LoopSteps
    <2>2. CASE ~AtUnknown /\ Opens
      <3>1. PICK t : t = Shape(s.kinds, s.arrays, IF TokenAt(pos + 1).type = "VARS" THEN s.curs
                                                  ELSE s.curs + 1)
        OBVIOUS
      <3>2. Leads(todo', t)
        BY <1>1, <1>3, <2>2, <3>1, BlockLeads
      <3>3. PushesStmt <=> TokenAt(pos + 1).type # "VARS"
        BY <2>2 DEF PushesStmt, Opens
      <3>4. QED
        BY <2>2, <3>1, <3>2, <3>3 DEF Shape
    <2>3. CASE ~AtUnknown /\ ~OpensStmt
      <3>1. ~PushesStmt
        BY <2>3 DEF PushesStmt
      <3>2. UNCHANGED todo \/ Becomes(<<>>)
        BY <1>3, <2>3, LoopSteps DEF Opens
      <3>3. Leads(todo', s)
        BY <1>1, <1>3, <3>2, BlockLeads
      <3>4. QED
        BY <3>1, <3>3
    <2>4. CASE ~AtUnknown /\ OpensStmt
      <3>1. Opens
        <4>1. ~match_token("RBRACE") /\ ~AtEnd
          BY <2>4, KeywordOpens DEF match_token, AtEnd
        <4>2. parse_stmts
          BY <1>3, <4>1 DEF parse_blk, parser_parse
        <4>3. QED
          BY <2>4, <4>2 DEF parse_stmts
      <3>2. QED
        BY <2>2, <2>4, <3>1
    <2>5. QED
      BY <2>1, <2>3, <2>4
  <1>6. CASE PushesStmt
    <2>1. push_stmt
      BY <1>6 DEF MemParseStmts
    <2>2. /\ \E A : arrays' \in Seq(A)
          /\ \E C : curs' \in Seq(C)
          /\ Len(arrays') = s.arrays
          /\ Len(curs') = IF AtUnknown THEN s.curs ELSE s.curs + 1
          /\ \A i \in 1 .. s.arrays : arrays'[i].items \in Nat /\ arrays'[i].item_cnts \in Nat
          /\ \A i \in 1 .. Len(curs') : curs'[i].array = i
          /\ RefsValid'
      BY <1>1, <1>2, <1>4, <2>1, PushedStmt
    <2>3. Memory(t)'
      BY <1>5, <1>6, <2>2 DEF Memory
    <2>4. QED
      BY <1>5, <2>2, <2>3 DEF MemInv
  <1>7. CASE ~PushesStmt
    <2>1. UNCHANGED <<arrays, curs>>
      BY <1>7 DEF MemParseStmts
    <2>2. t.arrays = s.arrays /\ t.curs = s.curs
      BY <1>5, <1>7
    <2>3. Memory(t)'
      BY <1>1, <2>1, <2>2 DEF Memory
    <2>4. RefsValid'
      BY <2>1 DEF MemInv, RefsValid
    <2>5. QED
      BY <1>5, <2>3, <2>4 DEF MemInv
  <1>8. QED
    BY <1>6, <1>7

LEMMA MemNextInv ==
  Inv /\ MemInv /\ [MemNext]_<<vars, memory>> => MemInv'
  <1> SUFFICES ASSUME Inv, MemInv, [MemNext]_<<vars, memory>> PROVE MemInv'
    OBVIOUS
  <1>1. ASSUME UNCHANGED <<arrays, curs>>,
               \/ consume_token \/ parse_operand \/ make_elem \/ parse_term \/ cmp_type
               \/ parse_expr \/ add_operand \/ parse_vars
        PROVE  MemInv'
    <2>1. Reading
      BY DEF Inv
    <2>2. QED
      BY <1>1, <2>1, OthersKeep, MemKept
  <1>2. ASSUME UNCHANGED <<arrays, curs, todo>> PROVE MemInv'
    BY <1>2, MemKept
  <1>3. CASE MemParseStmts
    BY <1>3, MemBlockInv
  <1>4. CASE MemDaInit
    BY <1>4, MemDaInitInv
  <1>5. CASE MemMakeStmt
    BY <1>5, MemMakeInv
  <1>6. CASE MemParseExpr
    BY <1>1, <1>6 DEF MemParseExpr
  <1>7. CASE MemAddOperand
    BY <1>1, <1>7 DEF MemAddOperand
  <1>8. CASE MemParseVars
    BY <1>1, <1>8 DEF MemParseVars
  <1>9. CASE MemOthers
    BY <1>1, <1>9 DEF MemOthers, memory
  <1>10. CASE parser_free_stmts \/ parser_free_vars \/ UNCHANGED <<vars, memory>>
    BY <1>2, <1>10 DEF parser_free_stmts, parser_free_vars, vars, memory
  <1>11. QED
    BY <1>3, <1>4, <1>5, <1>6, <1>7, <1>8, <1>9, <1>10 DEF MemNext

(* With its memory the parser makes the steps it makes without.             *)
LEMMA MemSteps == [MemNext]_<<vars, memory>> => [Next]_vars
  <1>1. MemParseStmts => Next
    BY DEF MemParseStmts, Next
  <1>2. MemDaInit \/ MemMakeStmt \/ MemParseExpr \/ MemAddOperand \/ MemParseVars => Next
    BY DEF MemDaInit, MemMakeStmt, MemParseExpr, MemAddOperand, MemParseVars, Next
  <1>3. MemOthers => Next
    BY DEF MemOthers, Next
  <1>4. parser_free_stmts \/ parser_free_vars => UNCHANGED vars
    BY DEF parser_free_stmts, parser_free_vars
  <1>5. UNCHANGED <<vars, memory>> => UNCHANGED vars
    OBVIOUS
  <1>6. QED
    BY <1>1, <1>2, <1>3, <1>4, <1>5 DEF MemNext

(* For all programs, capacities and reallocations: there is an array for    *)
(* each open block and a cur_stmt in each but the innermost one.            *)
THEOREM MemSafety == MemSpec => [](Inv /\ MemInv)
  <1>1. MemInit => Inv /\ MemInv
    BY InitInv, MemInitInv DEF MemInit
  <1>2. Inv /\ MemInv /\ [MemNext]_<<vars, memory>> => (Inv /\ MemInv)'
    BY NextInv, MemNextInv, MemSteps
  <1>3. QED
    BY <1>1, <1>2, PTL DEF MemSpec

(* However the bodies make arrays grow and move, cur_stmt points to the     *)
(* statement that is being parsed.                                          *)
THEOREM RefsStayValid == MemSpec => []RefsValid
  <1>1. MemInv => RefsValid
    BY DEF MemInv
  <1>2. QED
    BY <1>1, MemSafety, PTL

(* The parser in its memory is the parser.                                  *)
THEOREM MemoryRefines == MemSpec => Init /\ [][Next]_vars
  <1>1. MemInit => Init
    BY DEF MemInit
  <1>2. QED
    BY <1>1, MemSteps, PTL DEF MemSpec
=============================================================================
