--------------------------- MODULE InterpreterProofs ---------------------------
(***************************************************************************)
(* Proofs about the interpreter: for every set of programs, declarations   *)
(* and width of int, every variable and C local holds an int.              *)
(***************************************************************************)
EXTENDS Interpreter, SequenceTheorems, WellFoundedInduction, TLAPS

Values == IntW \cup {Undef}

(* Wrap stays in range.                                                     *)
LEMMA WrapIsInt == \A n \in Int : Wrap(n) \in IntW
  <1> SUFFICES ASSUME NEW n \in Int PROVE Wrap(n) \in IntW
    OBVIOUS
  <1>1. 2 * Half \in Nat \ {0}
    BY HalfAssumption
  <1>2. (n + Half) % (2 * Half) \in 0 .. (2 * Half - 1)
    BY <1>1, HalfAssumption
  <1>3. QED
    BY <1>2, HalfAssumption DEF Wrap, IntW

(* What holds of 0 and passes from each number to the next.                 *)
LEMMA NatSet ==
  ASSUME NEW S, 0 \in S, \A n \in Nat : n \in S => n + 1 \in S
  PROVE  Nat \subseteq S
  <1> DEFINE T == Nat \ S
  <1>1. SUFFICES ASSUME T # {} PROVE FALSE
    OBVIOUS
  <1>2. T \subseteq Nat
    OBVIOUS
  <1> HIDE DEF T
  <1>3. \E m \in T : \A n \in T : ~ (<<n, m>> \in OpToRel(<, Nat))
    BY <1>1, <1>2, NatLessThanWellFounded, WFMin
  <1>4. PICK m \in T : \A n \in T : ~ (n < m)
    BY <1>2, <1>3 DEF OpToRel
  <1>5. m \in Nat /\ m # 0
    BY <1>2, <1>4 DEF T
  <1>6. m - 1 \in Nat /\ m - 1 \notin T /\ (m - 1) + 1 = m
    BY <1>4, <1>5
  <1>7. m \in S
    BY <1>6 DEF T
  <1>8. QED
    BY <1>4, <1>7 DEF T

-----------------------------------------------------------------------------
(* Evaluating an expression.                                                *)

(* The partial sums of an expression.                                       *)
Sums(e, values, res) ==
  \A n \in 0 .. Len(e.terms) :
    res[n] = IF n = 0 THEN e.constant
             ELSE IF res[n - 1] = Undef \/ values[n] = Undef THEN Undef
             ELSE Wrap(res[n - 1] + values[n] * e.terms[n].coefficient)

LEMMA ExprFields ==
  ASSUME NEW e \in Exprs
  PROVE  /\ e.constant \in IntW /\ e.terms \in Seq(TreeTerms) /\ Len(e.terms) \in Nat
         /\ DOMAIN e.terms = 1 .. Len(e.terms)
         /\ \A i \in DOMAIN e.terms :
              /\ e.terms[i].coefficient \in IntW
              /\ e.terms[i].operand \in TreeOperands
  <1>1. e.constant \in IntW /\ e.terms \in Seq(TreeTerms)
    BY ExprsAssumption
  <1>2. PICK ts \in Seq(TreeTerms) : ts = e.terms
    BY <1>1
  <1>3. Len(ts) \in Nat /\ DOMAIN ts = 1 .. Len(ts) /\ \A i \in DOMAIN ts : ts[i] \in TreeTerms
    BY <1>2
  <1>4. QED
    BY <1>1, <1>2, <1>3 DEF TreeTerms

(* Some function is the partial sums, and its values are ints or Undef.     *)
LEMMA SumsExist ==
  ASSUME NEW e \in Exprs, NEW values \in [DOMAIN e.terms -> Values]
  PROVE  \E res \in [0 .. Len(e.terms) -> Values] : Sums(e, values, res)
  <1> DEFINE Next1(v, n) == IF v = Undef \/ values[n] = Undef THEN Undef
                            ELSE Wrap(v + values[n] * e.terms[n].coefficient)
             Fits(f, m) ==
               /\ f \in [0 .. m -> Values]
               /\ f[0] = e.constant
               /\ \A n \in 1 .. m : f[n] = Next1(f[n - 1], n)
             S == {m \in Nat : m <= Len(e.terms) => \E f : Fits(f, m)}
  <1>1. /\ Len(e.terms) \in Nat /\ e.constant \in Values
        /\ \A n \in 1 .. Len(e.terms) : n \in DOMAIN e.terms
    BY ExprFields DEF Values
  <1>2. ASSUME NEW n \in 1 .. Len(e.terms), NEW v \in Values PROVE Next1(v, n) \in Values
    <2>1. values[n] \in Values /\ e.terms[n].coefficient \in IntW
      BY <1>1, ExprFields
    <2>2. CASE v = Undef \/ values[n] = Undef
      BY <2>2 DEF Values
    <2>3. CASE ~(v = Undef \/ values[n] = Undef)
      <3>1. PICK a \in Int, b \in Int, c \in Int :
              a = v /\ b = values[n] /\ c = e.terms[n].coefficient
        BY <2>1, <2>3, HalfAssumption DEF Values, IntW
      <3>2. Wrap(a + b * c) \in IntW
        BY <3>1, WrapIsInt
      <3>3. QED
        BY <2>3, <3>1, <3>2 DEF Values
    <2>4. QED
      BY <2>2, <2>3
  <1> HIDE DEF Next1, Fits
  <1>3. 0 \in S
    <2> DEFINE f == [n \in 0 .. 0 |-> e.constant]
    <2>1. f \in [0 .. 0 -> Values] /\ f[0] = e.constant /\ \A n \in 1 .. 0 : FALSE
      BY <1>1
    <2> HIDE DEF f
    <2>2. Fits(f, 0)
      BY <2>1 DEF Fits
    <2>3. QED
      BY <2>2
  <1>4. ASSUME NEW m \in Nat, m \in S PROVE m + 1 \in S
    <2>1. SUFFICES ASSUME m + 1 <= Len(e.terms) PROVE \E f : Fits(f, m + 1)
      OBVIOUS
    <2>2. PICK g : Fits(g, m)
      BY <1>1, <1>4, <2>1
    <2> DEFINE last == Next1(g[m], m + 1)
               f == [n \in 0 .. (m + 1) |-> IF n = m + 1 THEN last ELSE g[n]]
    <2>3. last \in Values
      <3>1. g[m] \in Values
        BY <2>2 DEF Fits
      <3>2. m + 1 \in 1 .. Len(e.terms)
        BY <1>1, <2>1
      <3>3. QED
        BY <1>2, <3>1, <3>2
    <2> HIDE DEF last
    <2>4. f \in [0 .. (m + 1) -> Values] /\ f[0] = e.constant
      BY <2>2, <2>3 DEF Fits
    <2>5. f[m + 1] = last /\ \A n \in 0 .. m : f[n] = g[n]
      OBVIOUS
    <2> HIDE DEF f
    <2>6. ASSUME NEW n \in 1 .. (m + 1) PROVE f[n] = Next1(f[n - 1], n)
      <3>1. CASE n = m + 1
        <4>1. n - 1 = m /\ f[n - 1] = g[m]
          BY <2>5, <3>1
        <4>2. QED
          BY <2>5, <3>1, <4>1 DEF last
      <3>2. CASE n # m + 1
        <4>1. n \in 1 .. m /\ n \in 0 .. m /\ n - 1 \in 0 .. m
          BY <3>2
        <4>2. f[n] = g[n] /\ f[n - 1] = g[n - 1]
          BY <2>5, <4>1
        <4>3. g[n] = Next1(g[n - 1], n)
          BY <2>2, <4>1 DEF Fits
        <4>4. QED
          BY <4>2, <4>3
      <3>3. QED
        BY <3>1, <3>2
    <2>7. Fits(f, m + 1)
      BY <2>4, <2>6 DEF Fits
    <2>8. QED
      BY <2>7
  <1>5. Nat \subseteq S
    <2> HIDE DEF S
    <2> QED
      BY <1>3, <1>4, NatSet
  <1>6. PICK f : Fits(f, Len(e.terms))
    BY <1>1, <1>5
  <1>7. \A n \in 0 .. Len(e.terms) : n = 0 \/ n \in 1 .. Len(e.terms)
    BY <1>1
  <1>8. Sums(e, values, f)
    BY <1>6, <1>7 DEF Sums, Fits, Next1
  <1>9. QED
    BY <1>6, <1>8 DEF Fits

(* Two of them are the same.                                                *)
LEMMA SumsSame ==
  ASSUME NEW e \in Exprs, NEW values, NEW f, NEW g,
         Sums(e, values, f), Sums(e, values, g)
  PROVE  f[Len(e.terms)] = g[Len(e.terms)]
  <1> DEFINE N == Len(e.terms)
             S == {m \in Nat : m <= N => f[m] = g[m]}
  <1>1. N \in Nat
    BY ExprFields
  <1> HIDE DEF N
  <1>2. /\ \A n \in 0 .. N : f[n] = IF n = 0 THEN e.constant
             ELSE IF f[n - 1] = Undef \/ values[n] = Undef THEN Undef
             ELSE Wrap(f[n - 1] + values[n] * e.terms[n].coefficient)
        /\ \A n \in 0 .. N : g[n] = IF n = 0 THEN e.constant
             ELSE IF g[n - 1] = Undef \/ values[n] = Undef THEN Undef
             ELSE Wrap(g[n - 1] + values[n] * e.terms[n].coefficient)
    BY DEF Sums, N
  <1>3. 0 \in S
    BY <1>1, <1>2
  <1>4. ASSUME NEW m \in Nat, m \in S PROVE m + 1 \in S
    <2>1. SUFFICES ASSUME m + 1 <= N PROVE f[m + 1] = g[m + 1]
      OBVIOUS
    <2>2. f[m] = g[m] /\ m + 1 \in 0 .. N /\ m + 1 # 0 /\ (m + 1) - 1 = m
      BY <1>1, <1>4, <2>1
    <2>3. QED
      BY <1>2, <2>2
  <1>5. Nat \subseteq S
    <2> HIDE DEF S
    <2> QED
      BY <1>3, <1>4, NatSet
  <1>6. N \in S
    BY <1>1, <1>5
  <1>7. QED
    BY <1>1, <1>6 DEF N

(* The sum is an int, unless it has no meaning.                             *)
LEMMA SumIsValue ==
  ASSUME NEW e \in Exprs, NEW values \in [DOMAIN e.terms -> Values]
  PROVE  SumTerms(e, values) \in Values
  <1> DEFINE N == Len(e.terms)
             Body(f) == [n \in 0 .. N |->
                           IF n = 0 THEN e.constant
                           ELSE IF f[n - 1] = Undef \/ values[n] = Undef THEN Undef
                           ELSE Wrap(f[n - 1] + values[n] * e.terms[n].coefficient)]
  <1>1. PICK res \in [0 .. N -> Values] : Sums(e, values, res)
    BY SumsExist
  <1>2. res = Body(res)
    BY <1>1 DEF Sums
  <1>3. SumTerms(e, values) = (CHOOSE f : f = Body(f))[N]
    BY DEF SumTerms
  <1>4. \A f : f = Body(f) => Sums(e, values, f)
    BY DEF Sums
  <1> HIDE DEF Body
  <1>5. PICK f : f = Body(f) /\ SumTerms(e, values) = f[N]
    BY <1>2, <1>3
  <1>6. f[N] = res[N]
    BY <1>1, <1>4, <1>5, SumsSame
  <1>7. N \in 0 .. N
    BY ExprFields
  <1>8. QED
    BY <1>1, <1>5, <1>6, <1>7

-----------------------------------------------------------------------------
(* Evaluating the indices inside it: some function is eval_expr.            *)

Stores == ints \in IntStore /\ IsArrStore(arrs)

(* What operand_read yields if f is what eval_expr yields.                  *)
Read(f, o) == IF o.typ = "INT_VAR" THEN ints[o.decl] ELSE ReadElem(o.decl, f[o.idx])
Reads(f, e) == [i \in DOMAIN e.terms |-> Read(f, e.terms[i].operand)]

(* f is eval_expr as far as indices nest less than n deep.                  *)
Evaluates(f, n) ==
  /\ f \in [Exprs -> Values]
  /\ \A e \in Exprs : Nested(e) < n => f[e] = SumTerms(e, Reads(f, e))

LEMMA OperandFields ==
  ASSUME NEW o \in TreeOperands
  PROVE  \/ o.typ = "INT_VAR" /\ o.decl \in IntVars
         \/ o.typ = "ARR_ELEM" /\ o.decl \in ArrVars /\ o.idx \in Exprs
  BY DEF TreeOperands

LEMMA ReadIsValue ==
  ASSUME Stores, NEW f \in [Exprs -> Values], NEW o \in TreeOperands
  PROVE  Read(f, o) \in Values
  <1>1. CASE o.typ = "INT_VAR" /\ o.decl \in IntVars
    BY <1>1 DEF Read, Stores, IntStore, Values
  <1>2. CASE o.typ = "ARR_ELEM" /\ o.decl \in ArrVars /\ o.idx \in Exprs
    <2>1. PICK a \in ArrVars, v \in Values : a = o.decl /\ v = f[o.idx]
      BY <1>2
    <2>2. arrs[a] \in [Cells(a) -> IntW]
      BY DEF Stores, IsArrStore
    <2>3. ReadElem(a, v) \in Values
      BY <2>2 DEF ReadElem, Values
    <2>4. QED
      BY <1>2, <2>1, <2>3 DEF Read
  <1>3. QED
    BY <1>1, <1>2, OperandFields

LEMMA ReadsAreValues ==
  ASSUME Stores, NEW f \in [Exprs -> Values], NEW e \in Exprs
  PROVE  Reads(f, e) \in [DOMAIN e.terms -> Values] /\ SumTerms(e, Reads(f, e)) \in Values
  <1>1. \A i \in DOMAIN e.terms : Read(f, e.terms[i].operand) \in Values
    BY ExprFields, ReadIsValue
  <1>2. Reads(f, e) \in [DOMAIN e.terms -> Values]
    BY <1>1 DEF Reads
  <1>3. QED
    BY <1>2, SumIsValue

(* Only the indices inside an expression count.                             *)
LEMMA ReadsSame ==
  ASSUME NEW e \in Exprs, NEW f, NEW g, NEW n \in Nat, Nested(e) <= n,
         \A d \in Exprs : Nested(d) < n => f[d] = g[d]
  PROVE  Reads(f, e) = Reads(g, e)
  <1>1. ASSUME NEW i \in DOMAIN e.terms
        PROVE  Read(f, e.terms[i].operand) = Read(g, e.terms[i].operand)
    <2>1. PICK o \in TreeOperands : o = e.terms[i].operand
      BY ExprFields
    <2>2. CASE o.typ = "INT_VAR"
      BY <2>1, <2>2 DEF Read
    <2>3. CASE o.typ = "ARR_ELEM" /\ o.idx \in Exprs
      <3>1. Nested(o.idx) < Nested(e) /\ Nested(e) \in Nat /\ Nested(o.idx) \in Nat
        BY <2>1, <2>3, NestedAssumption
      <3>2. PICK k \in Nat, m \in Nat : k = Nested(o.idx) /\ m = Nested(e)
        BY <3>1
      <3>3. k < n
        BY <3>1, <3>2
      <3>4. f[o.idx] = g[o.idx]
        BY <2>3, <3>2, <3>3
      <3>5. QED
        BY <2>1, <3>4 DEF Read
    <2>4. QED
      BY <2>2, <2>3, OperandFields
  <1>2. QED
    BY <1>1 DEF Reads

LEMMA EvaluatesSame ==
  ASSUME NEW n \in Nat, NEW f, NEW g, Evaluates(f, n), Evaluates(g, n)
  PROVE  \A e \in Exprs : Nested(e) < n => f[e] = g[e]
  <1> DEFINE S == {m \in Nat : m <= n => \A e \in Exprs : Nested(e) < m => f[e] = g[e]}
  <1>1. 0 \in S
    BY NestedAssumption
  <1>2. ASSUME NEW m \in Nat, m \in S PROVE m + 1 \in S
    <2>1. SUFFICES ASSUME m + 1 <= n, NEW e \in Exprs, Nested(e) < m + 1
                   PROVE  f[e] = g[e]
      OBVIOUS
    <2>2. PICK k \in Nat : k = Nested(e)
      BY NestedAssumption
    <2>3. k <= m /\ k < n /\ m <= n
      BY <2>1, <2>2
    <2>4. \A d \in Exprs : Nested(d) < m => f[d] = g[d]
      BY <1>2, <2>3
    <2>5. Reads(f, e) = Reads(g, e)
      BY <2>2, <2>3, <2>4, ReadsSame
    <2>6. f[e] = SumTerms(e, Reads(f, e)) /\ g[e] = SumTerms(e, Reads(g, e))
      BY <2>2, <2>3 DEF Evaluates
    <2>7. QED
      BY <2>5, <2>6
  <1>3. Nat \subseteq S
    <2> HIDE DEF S
    <2> QED
      BY <1>1, <1>2, NatSet
  <1>4. n \in S
    BY <1>3
  <1>5. QED
    BY <1>4

LEMMA EvaluatesExists ==
  ASSUME Stores
  PROVE  \A n \in Nat : \E f : Evaluates(f, n)
  <1> DEFINE S == {n \in Nat : \E f : Evaluates(f, n)}
  <1>1. 0 \in S
    <2> DEFINE f == [e \in Exprs |-> Undef]
    <2>1. f \in [Exprs -> Values]
      BY DEF Values
    <2>2. \A e \in Exprs : ~(Nested(e) < 0)
      BY NestedAssumption
    <2> HIDE DEF f
    <2>3. Evaluates(f, 0)
      BY <2>1, <2>2 DEF Evaluates
    <2>4. QED
      BY <2>3
  <1>2. ASSUME NEW n \in Nat, n \in S PROVE n + 1 \in S
    <2>1. PICK f : Evaluates(f, n)
      BY <1>2
    <2> DEFINE g == [e \in Exprs |-> SumTerms(e, Reads(f, e))]
    <2>2. f \in [Exprs -> Values]
      BY <2>1 DEF Evaluates
    <2>3. g \in [Exprs -> Values] /\ \A e \in Exprs : g[e] = SumTerms(e, Reads(f, e))
      BY <2>2, ReadsAreValues
    <2> HIDE DEF g
    <2>4. \A e \in Exprs : Nested(e) < n => f[e] = g[e]
      BY <2>1, <2>3 DEF Evaluates
    <2>5. ASSUME NEW e \in Exprs, Nested(e) < n + 1 PROVE g[e] = SumTerms(e, Reads(g, e))
      <3>1. Nested(e) <= n
        BY <2>5, NestedAssumption
      <3>2. Reads(f, e) = Reads(g, e)
        BY <2>4, <3>1, ReadsSame
      <3>3. QED
        BY <2>3, <3>2
    <2>6. Evaluates(g, n + 1)
      BY <2>3, <2>5 DEF Evaluates
    <2>7. QED
      BY <2>6
  <1>3. Nat \subseteq S
    <2> HIDE DEF S
    <2> QED
      BY <1>1, <1>2, NatSet
  <1>4. QED
    BY <1>3

(* What eval_expr yields is an int, unless it has no meaning.               *)
LEMMA EvalIsValue ==
  ASSUME Stores
  PROVE  eval_expr \in [Exprs -> Values]
  <1> DEFINE Body(f) == [e \in Exprs |-> SumTerms(e, Reads(f, e))]
             At(n, v, e) == \E g : Evaluates(g, n) /\ v = g[e]
             f == [e \in Exprs |-> CHOOSE v : At(Nested(e) + 1, v, e)]
  <1>1. ASSUME NEW n \in Nat, NEW g, Evaluates(g, n), NEW e \in Exprs, Nested(e) < n
        PROVE  f[e] = g[e]
    <2>1. PICK k \in Nat : k = Nested(e) + 1 /\ k <= n /\ Nested(e) < k
      BY <1>1, NestedAssumption
    <2>2. Evaluates(g, k)
      <3>1. \A d \in Exprs : Nested(d) < k => Nested(d) < n
        BY <2>1, NestedAssumption
      <3>2. QED
        BY <1>1, <3>1 DEF Evaluates
    <2>3. At(k, g[e], e)
      BY <2>2
    <2>4. \A v : At(k, v, e) => v = g[e]
      BY <2>1, <2>2, EvaluatesSame
    <2> HIDE DEF At
    <2>5. f[e] = CHOOSE v : At(k, v, e)
      BY <2>1
    <2>6. QED
      BY <2>3, <2>4, <2>5
  <1> HIDE DEF f
  <1>2. ASSUME NEW e \in Exprs PROVE f[e] \in Values /\ f[e] = SumTerms(e, Reads(f, e))
    <2>1. PICK n \in Nat : n = Nested(e) + 1 /\ Nested(e) < n /\ Nested(e) <= n
      BY NestedAssumption
    <2>2. PICK g : Evaluates(g, n)
      BY EvaluatesExists
    <2>3. \A d \in Exprs : Nested(d) < n => f[d] = g[d]
      BY <1>1, <2>2
    <2>4. Reads(f, e) = Reads(g, e)
      BY <2>1, <2>3, ReadsSame
    <2>5. f[e] = g[e] /\ g[e] \in Values /\ g[e] = SumTerms(e, Reads(g, e))
      BY <2>1, <2>2, <2>3 DEF Evaluates
    <2>6. QED
      BY <2>4, <2>5
  <1>3. f = Body(f)
    <2>1. f = [e \in Exprs |-> f[e]]
      BY DEF f
    <2>2. QED
      BY <1>2, <2>1
  <1>4. eval_expr = CHOOSE g : g = Body(g)
    BY DEF eval_expr, Reads, Read
  <1>5. eval_expr = Body(eval_expr)
    <2> HIDE DEF Body
    <2> QED
      BY <1>3, <1>4
  <1>6. \A g : g = Body(g) => \A n \in Nat : \A e \in Exprs : Nested(e) < n => g[e] \in Values
    <2> SUFFICES ASSUME NEW g, g = Body(g)
                 PROVE  \A n \in Nat : \A e \in Exprs : Nested(e) < n => g[e] \in Values
      OBVIOUS
    <2> DEFINE S == {n \in Nat : \A e \in Exprs : Nested(e) < n => g[e] = f[e]}
    <2>1. 0 \in S
      BY NestedAssumption
    <2>2. ASSUME NEW n \in Nat, n \in S PROVE n + 1 \in S
      <3>1. SUFFICES ASSUME NEW e \in Exprs, Nested(e) < n + 1 PROVE g[e] = f[e]
        OBVIOUS
      <3>2. Nested(e) <= n
        BY <3>1, NestedAssumption
      <3>3. Reads(g, e) = Reads(f, e)
        BY <2>2, <3>2, ReadsSame
      <3>4. g[e] = SumTerms(e, Reads(g, e))
        OBVIOUS
      <3>5. QED
        BY <1>2, <3>3, <3>4
    <2>3. Nat \subseteq S
      <3> HIDE DEF S
      <3> QED
        BY <2>1, <2>2, NatSet
    <2>4. QED
      BY <1>2, <2>3
  <1>7. \A e \in Exprs : eval_expr[e] \in Values
    <2>1. \A e \in Exprs : Nested(e) + 1 \in Nat /\ Nested(e) < Nested(e) + 1
      BY NestedAssumption
    <2> HIDE DEF Body
    <2>2. QED
      BY <1>5, <1>6, <2>1
  <1>8. QED
    BY <1>5, <1>7

-----------------------------------------------------------------------------
(* The invariant: what TypeOK says, and that the calls still to be made are *)
(* of parts of the tree.                                                    *)
Frames ==
  [call : {"execute_stmts"}, stmts : Seq(Stmts)]
  \cup [call : {"hor_loop"}, var : TreeOperands, i : IntW, end : IntW, stmts : Seq(Stmts)]

Inv == TypeOK /\ todo \in Seq(Frames)

LEMMA StoresTyped == ASSUME Inv PROVE Stores
  BY DEF Inv, TypeOK, Stores

LEMMA HeadAndTail ==
  ASSUME NEW S, NEW s \in Seq(S), s # <<>>
  PROVE  Head(s) \in S /\ Tail(s) \in Seq(S)
  OBVIOUS

(* The fields of a statement are parts of the tree.                         *)
LEMMA StmtFields ==
  ASSUME NEW s \in Stmts
  PROVE  /\ s.typ = "YOSORO" => s.expr \in Exprs
         /\ s.typ = "SET" => s.expr \in Exprs /\ s.operand \in TreeOperands
         /\ s.typ \in {"IHU", "WHILE"} =>
              s.cond.left \in Exprs /\ s.cond.right \in Exprs /\ s.stmts \in Seq(Stmts)
         /\ s.typ = "HOR" =>
              /\ s.start \in Exprs /\ s.end \in Exprs
              /\ s.var \in TreeOperands /\ s.stmts \in Seq(Stmts)
  BY StmtsAssumption DEF TreeConds

(* The statement to be executed.                                            *)
LEMMA StmtHere ==
  ASSUME Inv, AtStmt
  PROVE  Stmt \in Stmts /\ Tail(Frame.stmts) \in Seq(Stmts) /\ Tail(todo) \in Seq(Frames)
  <1>1. todo \in Seq(Frames) /\ todo # <<>> /\ Frame.call = "execute_stmts" /\ Frame.stmts # <<>>
    BY DEF Inv, AtStmt, Active
  <1>2. Frame \in Frames /\ Tail(todo) \in Seq(Frames)
    BY <1>1, HeadAndTail DEF Frame
  <1>3. Frame.stmts \in Seq(Stmts)
    BY <1>1, <1>2 DEF Frames
  <1>4. QED
    BY <1>1, <1>2, <1>3, HeadAndTail DEF Stmt

(* The loop that tests its counter.                                         *)
LEMMA LoopHere ==
  ASSUME Inv, Active("hor_loop")
  PROVE  /\ Frame \in [call : {"hor_loop"}, var : TreeOperands, i : IntW, end : IntW,
                       stmts : Seq(Stmts)]
         /\ Tail(todo) \in Seq(Frames)
  <1>1. todo \in Seq(Frames) /\ todo # <<>> /\ Frame.call = "hor_loop"
    BY DEF Inv, Active
  <1>2. Frame \in Frames /\ Tail(todo) \in Seq(Frames)
    BY <1>1, HeadAndTail DEF Frame
  <1>3. QED
    BY <1>1, <1>2 DEF Frames

LEMMA ExprHasInt ==
  ASSUME Inv, NEW e \in Exprs, HasValue(e)
  PROVE  eval_expr[e] \in IntW
  BY StoresTyped, EvalIsValue DEF HasValue, Values

(* Typed calls, and the variables typed, are the invariant.                 *)
LEMMA InvAfter ==
  ASSUME Inv, src' = src, status' \in {"running", "halted", "undefined"},
         Stores', out' \in Seq(IntW), todo' \in Seq(Frames)
  PROVE  Inv'
  <1>1. src' \in Sources
    BY DEF Inv, TypeOK
  <1>2. \A i \in DOMAIN todo' : todo'[i] \in Frames
    BY ElementOfSeq
  <1>3. \A i \in DOMAIN todo' :
          todo'[i].call = "hor_loop" => todo'[i].i \in IntW /\ todo'[i].end \in IntW
    BY <1>2 DEF Frames
  <1>4. QED
    BY <1>1, <1>3 DEF Inv, TypeOK, Stores

LEMMA ContinueTyped ==
  ASSUME Inv, AtStmt, NEW calls \in Seq(Frames), Continue(calls)
  PROVE  todo' \in Seq(Frames)
  <1>1. ExecuteStmts(Tail(Frame.stmts)) \in Frames
    BY StmtHere DEF ExecuteStmts, Frames
  <1>2. PICK c \in Frames, r \in Seq(Frames) :
          c = ExecuteStmts(Tail(Frame.stmts)) /\ r = Tail(todo)
    BY <1>1, StmtHere
  <1>3. calls \o <<c>> \o r \in Seq(Frames)
    OBVIOUS
  <1>4. QED
    BY <1>2, <1>3 DEF Continue

LEMMA CallTyped ==
  ASSUME NEW f \in Frames
  PROVE  <<>> \in Seq(Frames) /\ <<f>> \in Seq(Frames)
  OBVIOUS

(* An int written where there is a variable leaves ints in all of them.     *)
LEMMA WriteTyped ==
  ASSUME Inv, NEW o \in TreeOperands, HasRef(o), NEW val \in IntW, operand_write(o, val)
  PROVE  Stores'
  <1>1. ints \in IntStore /\ IsArrStore(arrs)
    BY DEF Inv, TypeOK
  <1>2. CASE o.typ = "INT_VAR" /\ o.decl \in IntVars
    <2>1. ints' = [ints EXCEPT ![o.decl] = val] /\ arrs' = arrs
      BY <1>2 DEF operand_write
    <2>2. ints' \in IntStore
      BY <1>1, <2>1 DEF IntStore
    <2>3. QED
      BY <1>1, <2>1, <2>2 DEF Stores, IsArrStore
  <1>3. CASE o.typ = "ARR_ELEM" /\ o.decl \in ArrVars
    <2>1. arrs' = SetCell(arrs, o.decl, eval_expr[o.idx], val) /\ ints' = ints
      BY <1>3 DEF operand_write
    <2>2. PICK a, c :
            /\ a \in ArrVars /\ a = o.decl /\ c = CellOf(a, eval_expr[o.idx]) /\ c \in Cells(a)
      BY <1>3 DEF HasRef
    <2>3. arrs' = [arrs EXCEPT ![a] = [@ EXCEPT ![c] = val]]
      BY <2>1, <2>2 DEF SetCell
    <2>4. /\ DOMAIN arrs' = ArrVars /\ arrs'[a] = [arrs[a] EXCEPT ![c] = val]
          /\ \A b \in ArrVars : b # a => arrs'[b] = arrs[b]
      BY <1>1, <2>2, <2>3 DEF IsArrStore
    <2>5. arrs[a] \in [Cells(a) -> IntW]
      BY <1>1, <2>2 DEF IsArrStore
    <2>6. arrs'[a] \in [Cells(a) -> IntW]
      BY <2>2, <2>4, <2>5
    <2>7. IsArrStore(arrs)'
      BY <1>1, <2>4, <2>6 DEF IsArrStore
    <2>8. QED
      BY <1>1, <2>1, <2>7 DEF Stores
  <1>4. QED
    BY <1>2, <1>3, OperandFields

-----------------------------------------------------------------------------
LEMMA InitInv == Init => Inv
  <1> SUFFICES ASSUME Init PROVE Inv
    OBVIOUS
  <1>1. 0 \in IntW
    BY HalfAssumption DEF IntW
  <1>2. ints \in IntStore /\ IsArrStore(arrs) /\ out \in Seq(IntW)
    BY <1>1 DEF Init, interpreter_init, InitInts, InitArrs, IntStore, IsArrStore
  <1>3. src \in Sources /\ src \in Seq(Stmts)
    BY SourcesAssumption DEF Init
  <1>4. todo = <<ExecuteStmts(src)>> /\ ExecuteStmts(src) \in Frames
    BY <1>3 DEF Init, interpreter_execute, ExecuteStmts, Frames
  <1>5. todo \in Seq(Frames)
    BY <1>4, CallTyped
  <1>6. \A i \in DOMAIN todo : todo[i].call # "hor_loop"
    BY <1>4 DEF ExecuteStmts
  <1>7. QED
    BY <1>2, <1>3, <1>5, <1>6 DEF Init, interpreter_init, Inv, TypeOK

(* What every statement handler leaves alone.                               *)
LEMMA Handler ==
  ASSUME Inv, NEW typ, Execute(typ), Stores', out' \in Seq(IntW), todo' \in Seq(Frames)
  PROVE  Inv'
  <1>1. src' = src /\ status' \in {"running", "halted", "undefined"}
    BY DEF Execute, AtStmt, Active
  <1>2. QED
    BY <1>1, InvAfter

LEMMA SameStores ==
  ASSUME Inv, UNCHANGED <<ints, arrs>>
  PROVE  Stores'
  BY DEF Inv, TypeOK, Stores, IsArrStore

LEMMA YosoroInv == ASSUME Inv, execute_yosoro PROVE Inv'
  <1>1. AtStmt /\ Stmt.typ = "YOSORO" /\ StepDefined /\ Execute("YOSORO")
    BY DEF execute_yosoro, Execute
  <1>2. PICK e \in Exprs : e = Stmt.expr /\ HasValue(e)
    BY <1>1, StmtHere, StmtFields DEF StepDefined
  <1>3. out \in Seq(IntW) /\ eval_expr[e] \in IntW
    BY <1>2, ExprHasInt DEF Inv, TypeOK
  <1>4. out' \in Seq(IntW)
    <2>1. PICK v \in IntW : v = eval_expr[e]
      BY <1>3
    <2>2. Append(out, v) \in Seq(IntW)
      BY <1>3
    <2>3. QED
      BY <1>2, <2>1, <2>2 DEF execute_yosoro
  <1>5. todo' \in Seq(Frames)
    <2>1. <<>> \in Seq(Frames) /\ Continue(<<>>)
      BY DEF execute_yosoro
    <2>2. QED
      BY <1>1, <2>1, ContinueTyped
  <1>6. Stores'
    BY SameStores DEF execute_yosoro
  <1>7. QED
    BY <1>1, <1>4, <1>5, <1>6, Handler

LEMMA SetInv == ASSUME Inv, execute_set PROVE Inv'
  <1>1. AtStmt /\ Stmt.typ = "SET" /\ StepDefined /\ Execute("SET")
    BY DEF execute_set, Execute
  <1>2. PICK e \in Exprs, o \in TreeOperands :
          e = Stmt.expr /\ HasValue(e) /\ o = Stmt.operand /\ HasRef(o)
    BY <1>1, StmtHere, StmtFields DEF StepDefined
  <1>3. PICK v \in IntW : v = eval_expr[e]
    BY ExprHasInt, <1>2
  <1>4. Stores'
    <2>1. operand_write(o, v)
      BY <1>2, <1>3 DEF execute_set
    <2>2. QED
      BY <1>2, <2>1, WriteTyped
  <1>5. todo' \in Seq(Frames)
    <2>1. <<>> \in Seq(Frames) /\ Continue(<<>>)
      BY DEF execute_set
    <2>2. QED
      BY <1>1, <2>1, ContinueTyped
  <1>6. out' \in Seq(IntW)
    BY DEF execute_set, Inv, TypeOK
  <1>7. QED
    BY <1>1, <1>4, <1>5, <1>6, Handler

(* A statement with a block: the block is a call.                           *)
LEMMA BlockIsCall ==
  ASSUME Inv, AtStmt, Stmt.typ \in {"IHU", "WHILE"}
  PROVE  ExecuteStmts(Stmt.stmts) \in Frames
  <1>1. Stmt.stmts \in Seq(Stmts)
    BY StmtHere, StmtFields
  <1>2. QED
    BY <1>1 DEF ExecuteStmts, Frames

LEMMA IhuInv == ASSUME Inv, execute_ihu PROVE Inv'
  <1>1. AtStmt /\ Stmt.typ = "IHU" /\ Execute("IHU")
    BY DEF execute_ihu, Execute
  <1>2. PICK calls : /\ Continue(calls)
                     /\ calls = <<>> \/ calls = <<ExecuteStmts(Stmt.stmts)>>
    BY DEF execute_ihu
  <1>3. calls \in Seq(Frames)
    <2>1. PICK f \in Frames : f = ExecuteStmts(Stmt.stmts)
      BY <1>1, BlockIsCall
    <2>2. calls = <<>> \/ calls = <<f>>
      BY <1>2, <2>1
    <2>3. <<>> \in Seq(Frames) /\ <<f>> \in Seq(Frames)
      OBVIOUS
    <2>4. QED
      BY <2>2, <2>3
  <1>4. todo' \in Seq(Frames)
    BY <1>1, <1>2, <1>3, ContinueTyped
  <1>5. Stores' /\ out' \in Seq(IntW)
    BY SameStores DEF execute_ihu, Inv, TypeOK
  <1>6. QED
    BY <1>1, <1>4, <1>5, Handler

LEMMA WhileInv == ASSUME Inv, execute_while PROVE Inv'
  <1>1. AtStmt /\ Stmt.typ = "WHILE" /\ Execute("WHILE")
    BY DEF execute_while, Execute
  <1>2. CASE todo' = <<ExecuteStmts(Stmt.stmts)>> \o todo
    <2>1. PICK f \in Frames : f = ExecuteStmts(Stmt.stmts)
      BY <1>1, BlockIsCall
    <2>2. PICK r \in Seq(Frames) : r = todo
      BY DEF Inv
    <2>3. <<f>> \o r \in Seq(Frames)
      OBVIOUS
    <2>4. todo' \in Seq(Frames)
      BY <1>2, <2>1, <2>2, <2>3
    <2>5. Stores' /\ out' \in Seq(IntW)
      BY SameStores DEF execute_while, Inv, TypeOK
    <2>6. QED
      BY <1>1, <2>4, <2>5, Handler
  <1>3. CASE Continue(<<>>)
    <2>1. <<>> \in Seq(Frames)
      OBVIOUS
    <2>2. todo' \in Seq(Frames)
      BY <1>1, <1>3, <2>1, ContinueTyped
    <2>3. Stores' /\ out' \in Seq(IntW)
      BY SameStores DEF execute_while, Inv, TypeOK
    <2>4. QED
      BY <1>1, <2>2, <2>3, Handler
  <1>4. QED
    BY <1>2, <1>3 DEF execute_while

LEMMA HorInv == ASSUME Inv, execute_hor PROVE Inv'
  <1>1. AtStmt /\ Stmt.typ = "HOR" /\ StepDefined /\ Execute("HOR")
    BY DEF execute_hor, Execute
  <1>2. PICK s, e \in Exprs : s = Stmt.start /\ e = Stmt.end /\ HasValue(s) /\ HasValue(e)
    BY <1>1, StmtHere, StmtFields DEF StepDefined
  <1>3. PICK m, n \in IntW : m = eval_expr[s] /\ n = eval_expr[e]
    BY <1>2, ExprHasInt
  <1>4. PICK f \in Frames : f = HorLoop(Stmt, m, n)
    <2>1. Stmt.var \in TreeOperands /\ Stmt.stmts \in Seq(Stmts)
      BY <1>1, StmtHere, StmtFields
    <2>2. QED
      BY <1>3, <2>1 DEF HorLoop, Frames
  <1>5. Continue(<<f>>)
    BY <1>2, <1>3, <1>4 DEF execute_hor
  <1>6. <<f>> \in Seq(Frames)
    OBVIOUS
  <1>7. todo' \in Seq(Frames)
    BY <1>1, <1>5, <1>6, ContinueTyped
  <1>8. Stores' /\ out' \in Seq(IntW)
    BY SameStores DEF execute_hor, Inv, TypeOK
  <1>9. QED
    BY <1>1, <1>7, <1>8, Handler

(* The counter wraps where it is counted on at all.                         *)
LEMMA LoopInv == ASSUME Inv, hor_loop PROVE Inv'
  <1>1. Active("hor_loop") /\ StepDefined /\ src' = src /\ status' = status /\ out' = out
    BY DEF hor_loop
  <1>2. PICK f : f = Frame
    OBVIOUS
  <1>3. /\ f \in [call : {"hor_loop"}, var : TreeOperands, i : IntW, end : IntW,
                  stmts : Seq(Stmts)]
        /\ Tail(todo) \in Seq(Frames)
    BY <1>1, <1>2, LoopHere
  <1>4. PICK r \in Seq(Frames) : r = Tail(todo)
    BY <1>3
  <1>5. PICK b \in Frames : b = ExecuteStmts(f.stmts)
    BY <1>3 DEF ExecuteStmts, Frames
  <1>6. PICK g \in Frames : g = [f EXCEPT !.i = NextCounter(@)]
    <2>1. NextCounter(f.i) \in IntW
      <3>1. PICK n \in Int : n = f.i /\ n + 1 \in Int
        BY <1>3, HalfAssumption DEF IntW
      <3>2. Wrap(n + 1) \in IntW
        BY <3>1, WrapIsInt
      <3>3. QED
        BY <3>1, <3>2 DEF NextCounter
    <2>2. [f EXCEPT !.i = NextCounter(@)] \in Frames
      BY <1>3, <2>1 DEF Frames
    <2>3. QED
      BY <2>2
  <1>7. CASE /\ f.i <= f.end
             /\ operand_write(f.var, f.i)
             /\ \/ todo' = <<b, g>> \o r
                \/ todo' = <<b>> \o r
    <2>1. HasRef(f.var)
      BY <1>1, <1>2, <1>7 DEF StepDefined
    <2>2. Stores'
      BY <1>3, <1>7, <2>1, WriteTyped
    <2>3. <<b, g>> \o r \in Seq(Frames) /\ <<b>> \o r \in Seq(Frames)
      OBVIOUS
    <2>4. todo' \in Seq(Frames)
      BY <1>7, <2>3
    <2>5. status' \in {"running", "halted", "undefined"} /\ out' \in Seq(IntW)
      BY <1>1 DEF Inv, TypeOK
    <2>6. QED
      BY <1>1, <2>2, <2>4, <2>5, InvAfter
  <1>8. CASE todo' = r /\ UNCHANGED <<ints, arrs>>
    <2>1. Stores'
      BY <1>8, SameStores
    <2>2. status' \in {"running", "halted", "undefined"} /\ out' \in Seq(IntW)
      BY <1>1 DEF Inv, TypeOK
    <2>3. QED
      BY <1>1, <1>4, <1>8, <2>1, <2>2, InvAfter
  <1>9. QED
    BY <1>2, <1>4, <1>5, <1>6, <1>7, <1>8 DEF hor_loop

(* Returning, and stopping.                                                 *)
LEMMA ReturnInv ==
  ASSUME Inv, execute_stmts_return \/ interpreter_execute_return \/ Fault
  PROVE  Inv'
  <1>1. src' = src /\ UNCHANGED <<ints, arrs>> /\ out' = out
    BY DEF execute_stmts_return, interpreter_execute_return, Fault
  <1>2. status' \in {"running", "halted", "undefined"} /\ out' \in Seq(IntW)
    BY <1>1 DEF Inv, TypeOK, execute_stmts_return, interpreter_execute_return, Fault
  <1>3. todo' = todo \/ (todo # <<>> /\ todo' = Tail(todo))
    BY DEF execute_stmts_return, interpreter_execute_return, Fault, Active
  <1>4. todo' \in Seq(Frames)
    BY <1>3, HeadAndTail DEF Inv
  <1>5. QED
    BY <1>1, <1>2, <1>4, SameStores, InvAfter

LEMMA NextInv == Inv /\ [Next]_vars => Inv'
  <1>1. ASSUME Inv, UNCHANGED vars PROVE Inv'
    <2>1. src' = src /\ UNCHANGED <<ints, arrs>> /\ out' = out /\ status' = status /\ todo' = todo
      BY <1>1 DEF vars
    <2>2. out' \in Seq(IntW) /\ todo' \in Seq(Frames) /\ status' \in {"running", "halted", "undefined"}
      BY <1>1, <2>1 DEF Inv, TypeOK
    <2>3. QED
      BY <1>1, <2>1, <2>2, SameStores, InvAfter
  <1>2. QED
    BY <1>1, YosoroInv, SetInv, IhuInv, WhileInv, HorInv, LoopInv, ReturnInv DEF Next

(* The calls that are active are of parts of the tree, and every variable   *)
(* and every C local holds an int.                                          *)
THEOREM Safety == Spec => []Inv
  BY InitInv, NextInv, PTL DEF Spec

(* Sums that overflow wrap, loops count no further than the greatest int,   *)
(* and nothing is assigned or printed that is no int.                       *)
THEOREM TypeCorrect == Spec => []TypeOK
  <1>1. Inv => TypeOK
    BY DEF Inv
  <1>2. QED
    BY <1>1, Safety, PTL
=============================================================================
