---------------------------- MODULE CodeGenProofs ----------------------------
(***************************************************************************)
(* Proofs about the code generator: for every set of programs none of      *)
(* whose expressions vanishes, every declaration of variables and every    *)
(* width of int and short, the finished code has a certificate, so that    *)
(* the virtual machine needs none of the checks it leaves out.             *)
(***************************************************************************)
EXTENDS CodeGen, SequenceTheorems, WellFoundedInduction, TLAPS

(* An expression like `x - x`, for which gen_expr emits nothing, occurs in  *)
(* no program.                                                              *)
NoneVanishes == \A e \in Exprs : ~Vanishes(e)

-----------------------------------------------------------------------------
(* Types.                                                                   *)
OpSet ==
  [typ : {"LOAD_CONST", "INCR", "CMUL"}, constant : IntW]
  \cup [typ : {"LOAD_INT", "STORE_INT"}, ptr : IntVars]
  \cup [typ : {"LOAD_ARR", "STORE_ARR"}, ptr : ArrVars]
  \cup [typ : {"SETI", "INCI"}, ptr : IntVars, constant : IntW]
  \cup [typ : {"BINADD", "PUT", "HALT"}]
  \cup [typ : {"JMP"}, offset : ShortW]
  \cup [typ : {"CJMP"}, cmp_typ : CmpType, offset : ShortW]

CallSet ==
  [call : {"emit", "emit_jump"}, op : OpSet]
  \cup [call : {"gen_expr"}, expr : Exprs]
  \cup [call : {"gen_terms"}, terms : Seq(TreeTerms), current_coeff : IntW,
        group_size : Nat, stack_items : Nat]
  \cup [call : {"gen_load_operand", "gen_store_operand"}, operand : TreeOperands]
  \cup [call : {"gen_stmts"}, stmts : Seq(Stmts)]
  \cup [call : {"mark_end", "patch_skip", "patch_loop"}]

Shape ==
  /\ src \in Sources
  /\ codes \in Seq(OpSet)
  /\ todo \in Seq(CallSet)
  /\ holes \in Seq(Nat)
  /\ stmts_end \in Nat

-----------------------------------------------------------------------------
(* What a pending call does to the depth of the stack, to the number of     *)
(* holes, to the number of ends of loop bodies that are remembered and to   *)
(* the number of HALTs at the end of the code; and what it needs of them.   *)
State == [depth : Nat, holes : Nat, ends : 0 .. 1, halts : 0 .. 1]

Live(d, h, e) == [depth |-> d, holes |-> h, ends |-> e, halts |-> 0]

Allowed(c, s, t) ==
  /\ s.halts = 0
  /\ \/ /\ c.call = "emit"
        /\ c.op.typ \notin Jumps
        /\ Operands(c.op.typ) <= s.depth
        /\ t = [depth |-> s.depth - get_stack_delta(c.op.typ), holes |-> s.holes,
                ends |-> s.ends, halts |-> IF c.op.typ = "HALT" THEN 1 ELSE 0]
     \/ /\ c.call = "emit_jump"
        /\ c.op.typ \in Jumps
        /\ s.depth = get_stack_delta(c.op.typ)
        /\ t = Live(0, s.holes + 1, s.ends)
     \/ /\ c.call \in {"gen_expr", "gen_load_operand"}
        /\ t = Live(s.depth + 1, s.holes, s.ends)
     \/ /\ c.call = "gen_terms"
        /\ c.group_size <= c.stack_items
        /\ c.stack_items <= s.depth
        /\ c.group_size = 0 => c.stack_items <= 1
        /\ c.stack_items = 0 => \E i \in DOMAIN c.terms : c.terms[i].coefficient # 0
        /\ t = Live(s.depth + 1 - c.stack_items, s.holes, s.ends)
     \/ /\ c.call = "gen_store_operand"
        /\ s.depth >= 1
        /\ t = Live(s.depth - 1, s.holes, s.ends)
     \/ /\ c.call = "gen_stmts"
        /\ s.depth = 0 /\ s.ends = 0
        /\ t = s
     \/ /\ c.call = "mark_end"
        /\ s.depth = 0 /\ s.ends = 0
        /\ t = Live(0, s.holes, 1)
     \/ /\ c.call = "patch_skip"
        /\ s.depth = 0 /\ s.holes >= 1
        /\ t = Live(0, s.holes - 1, s.ends)
     \/ /\ c.call = "patch_loop"
        /\ s.depth = 0 /\ s.ends = 1 /\ s.holes >= 2
        /\ t = Live(0, s.holes - 2, 0)

(* Made one after the other, the calls lead from s to t.                    *)
Follows(calls, s, t) ==
  \E S \in [1 .. (Len(calls) + 1) -> State] :
    /\ S[1] = s
    /\ S[Len(calls) + 1] = t
    /\ \A i \in 1 .. Len(calls) : Allowed(calls[i], S[i], S[i + 1])

-----------------------------------------------------------------------------
(* D is the depth of the stack before every instruction and at the end.     *)
Certifies(cs, D) ==
  /\ D \in [1 .. (Len(cs) + 1) -> Nat]
  /\ D[1] = 0
  /\ \A i \in 1 .. (Len(cs) + 1) : D[i] < i
  /\ \A i \in 1 .. Len(cs) :
       /\ Operands(cs[i].typ) <= D[i]
       /\ D[i + 1] = D[i] - get_stack_delta(cs[i].typ)
       /\ cs[i].typ = "HALT" => i = Len(cs)

EndsHalted(cs) == cs # <<>> /\ cs[Len(cs)].typ = "HALT"

(* Where a jump may lead: to the next instruction too, unless there is none.*)
Addresses(cs) == 1 .. (IF EndsHalted(cs) THEN Len(cs) ELSE Len(cs) + 1)

(* Jumps leave nothing on the stack, and the ones that are patched lead to  *)
(* an address where there is nothing on it.                                 *)
Lands(cs, hs, D) ==
  /\ \A h \in hs : h \in 1 .. Len(cs) /\ cs[h].typ \in Jumps
  /\ \A i \in 1 .. Len(cs) :
       cs[i].typ \in Jumps =>
         /\ D[i + 1] = 0
         /\ i \notin hs => \E t \in Addresses(cs) :
                             D[t] = 0 /\ cs[i].offset = ToShort(t - i)

(* The end of a loop body is such an address.                               *)
EndLands(cs, se, D) == se = 0 \/ (se \in 1 .. (Len(cs) + 1) /\ D[se] = 0)

At(D) == [depth |-> D[Len(codes) + 1], holes |-> Len(holes),
          ends |-> IF stmts_end = 0 THEN 0 ELSE 1,
          halts |-> IF EndsHalted(codes) THEN 1 ELSE 0]

Finished == [depth |-> 0, holes |-> 0, ends |-> 0, halts |-> 1]

Consistent(D) ==
  /\ Certifies(codes, D)
  /\ Lands(codes, Holes, D)
  /\ EndLands(codes, stmts_end, D)
  /\ Follows(todo, At(D), Finished)

Inv == Shape /\ \E D : Consistent(D)

-----------------------------------------------------------------------------
(* Sequences of calls.                                                      *)
LEMMA FollowsNone ==
  ASSUME NEW s \in State PROVE Follows(<<>>, s, s)
  <1> DEFINE S == [i \in 1 .. 1 |-> s]
  <1>1. S \in [1 .. (Len(<<>>) + 1) -> State] /\ S[1] = s /\ S[Len(<<>>) + 1] = s
    OBVIOUS
  <1>2. \A i \in 1 .. Len(<<>>) : Allowed(<<>>[i], S[i], S[i + 1])
    OBVIOUS
  <1> HIDE DEF S
  <1>3. QED
    BY <1>1, <1>2 DEF Follows

LEMMA FollowsOne ==
  ASSUME NEW c, NEW s \in State, NEW t \in State, Allowed(c, s, t)
  PROVE  Follows(<<c>>, s, t)
  <1> DEFINE S == [i \in 1 .. 2 |-> IF i = 1 THEN s ELSE t]
  <1>1. S \in [1 .. (Len(<<c>>) + 1) -> State] /\ S[1] = s /\ S[Len(<<c>>) + 1] = t
    OBVIOUS
  <1>2. \A i \in 1 .. Len(<<c>>) : Allowed(<<c>>[i], S[i], S[i + 1])
    OBVIOUS
  <1> HIDE DEF S
  <1>3. QED
    BY <1>1, <1>2 DEF Follows

(* What is done after a leads on from where a leads to.                     *)
LEMMA FollowsConcat ==
  ASSUME NEW C, NEW a \in Seq(C), NEW b \in Seq(C),
         NEW s, NEW t, NEW u, Follows(a, s, t), Follows(b, t, u)
  PROVE  Follows(a \o b, s, u)
  <1>1. PICK S \in [1 .. (Len(a) + 1) -> State] :
          /\ S[1] = s /\ S[Len(a) + 1] = t
          /\ \A i \in 1 .. Len(a) : Allowed(a[i], S[i], S[i + 1])
    BY DEF Follows
  <1>2. PICK T \in [1 .. (Len(b) + 1) -> State] :
          /\ T[1] = t /\ T[Len(b) + 1] = u
          /\ \A i \in 1 .. Len(b) : Allowed(b[i], T[i], T[i + 1])
    BY DEF Follows
  <1> DEFINE U == [i \in 1 .. (Len(a) + Len(b) + 1) |->
                     IF i <= Len(a) THEN S[i] ELSE T[i - Len(a)]]
  <1>3. /\ Len(a \o b) = Len(a) + Len(b) /\ Len(a) \in Nat /\ Len(b) \in Nat
        /\ \A i \in 1 .. (Len(a) + Len(b)) :
             (a \o b)[i] = IF i <= Len(a) THEN a[i] ELSE b[i - Len(a)]
    OBVIOUS
  <1>4. U \in [1 .. (Len(a \o b) + 1) -> State]
    BY <1>1, <1>2, <1>3
  <1>5. U[1] = s /\ U[Len(a \o b) + 1] = u
    BY <1>1, <1>2, <1>3
  <1>6. ASSUME NEW i \in 1 .. Len(a \o b)
        PROVE  Allowed((a \o b)[i], U[i], U[i + 1])
    <2>1. CASE i < Len(a)
      <3>1. U[i] = S[i] /\ U[i + 1] = S[i + 1] /\ (a \o b)[i] = a[i] /\ i \in 1 .. Len(a)
        BY <1>3, <2>1
      <3>2. QED
        BY <1>1, <3>1
    <2>2. CASE i = Len(a)
      <3>1. U[i] = S[i] /\ U[i + 1] = S[i + 1] /\ (a \o b)[i] = a[i] /\ i \in 1 .. Len(a)
        BY <1>1, <1>2, <1>3, <2>2
      <3>2. QED
        BY <1>1, <3>1
    <2>3. CASE i > Len(a)
      <3>1. /\ U[i] = T[i - Len(a)] /\ U[i + 1] = T[i - Len(a) + 1]
            /\ (a \o b)[i] = b[i - Len(a)] /\ i - Len(a) \in 1 .. Len(b)
        BY <1>3, <2>3
      <3>2. QED
        BY <1>2, <3>1
    <2>4. QED
      BY <1>3, <2>1, <2>2, <2>3
  <1> HIDE DEF U
  <1>7. QED
    BY <1>4, <1>5, <1>6 DEF Follows

LEMMA CallsFollow ==
  ASSUME NEW a \in Seq(CallSet), NEW b \in Seq(CallSet),
         NEW s, NEW t, NEW u, Follows(a, s, t), Follows(b, t, u)
  PROVE  a \o b \in Seq(CallSet) /\ Follows(a \o b, s, u)
  <1>1. a \o b \in Seq(CallSet)
    OBVIOUS
  <1>2. QED
    BY <1>1, FollowsConcat

LEMMA CallFollows ==
  ASSUME NEW c \in CallSet, NEW s \in State, NEW t \in State, Allowed(c, s, t)
  PROVE  <<c>> \in Seq(CallSet) /\ Follows(<<c>>, s, t)
  <1>1. <<c>> \in Seq(CallSet)
    OBVIOUS
  <1>2. QED
    BY <1>1, FollowsOne

(* The first call of what follows, and the rest.                            *)
LEMMA FollowsHead ==
  ASSUME NEW C, NEW a \in Seq(C), a # <<>>, NEW s, NEW u, Follows(a, s, u)
  PROVE  /\ s \in State
         /\ \E t \in State : Allowed(Head(a), s, t) /\ Follows(Tail(a), t, u)
  <1>1. PICK S \in [1 .. (Len(a) + 1) -> State] :
          /\ S[1] = s /\ S[Len(a) + 1] = u
          /\ \A i \in 1 .. Len(a) : Allowed(a[i], S[i], S[i + 1])
    BY DEF Follows
  <1> DEFINE T == [i \in 1 .. Len(a) |-> S[i + 1]]
  <1>2. /\ Len(a) \in Nat \ {0} /\ Len(Tail(a)) = Len(a) - 1 /\ Head(a) = a[1]
        /\ \A i \in 1 .. (Len(a) - 1) : Tail(a)[i] = a[i + 1]
    OBVIOUS
  <1>3. /\ T \in [1 .. (Len(Tail(a)) + 1) -> State]
        /\ T[1] = S[2] /\ T[Len(Tail(a)) + 1] = u
    BY <1>1, <1>2
  <1>4. \A i \in 1 .. Len(Tail(a)) : Allowed(Tail(a)[i], T[i], T[i + 1])
    <2> TAKE i \in 1 .. Len(Tail(a))
    <2>1. Tail(a)[i] = a[i + 1] /\ T[i] = S[i + 1] /\ T[i + 1] = S[i + 1 + 1]
          /\ i + 1 \in 1 .. Len(a)
      BY <1>2
    <2>2. QED
      BY <1>1, <2>1
  <1>5. Allowed(Head(a), s, S[2]) /\ S[2] \in State /\ s \in State
    <2>1. 1 \in 1 .. Len(a) /\ 1 + 1 = 2 /\ 2 \in 1 .. (Len(a) + 1)
      BY <1>2
    <2>2. QED
      BY <1>1, <1>2, <2>1
  <1> HIDE DEF T
  <1>6. Follows(Tail(a), S[2], u)
    BY <1>3, <1>4 DEF Follows
  <1>7. QED
    BY <1>5, <1>6

LEMMA FollowsTwo ==
  ASSUME NEW a, NEW b, NEW s \in State, NEW t \in State, NEW u \in State,
         Allowed(a, s, t), Allowed(b, t, u)
  PROVE  Follows(<<a, b>>, s, u)
  <1> DEFINE S == [i \in 1 .. 3 |-> IF i = 1 THEN s ELSE IF i = 2 THEN t ELSE u]
  <1>1. S \in [1 .. (Len(<<a, b>>) + 1) -> State] /\ S[1] = s /\ S[Len(<<a, b>>) + 1] = u
    OBVIOUS
  <1>2. \A i \in 1 .. Len(<<a, b>>) : Allowed(<<a, b>>[i], S[i], S[i + 1])
    OBVIOUS
  <1> HIDE DEF S
  <1>3. QED
    BY <1>1, <1>2 DEF Follows

LEMMA FollowsThree ==
  ASSUME NEW a, NEW b, NEW c,
         NEW s \in State, NEW t \in State, NEW u \in State, NEW v \in State,
         Allowed(a, s, t), Allowed(b, t, u), Allowed(c, u, v)
  PROVE  Follows(<<a, b, c>>, s, v)
  <1> DEFINE S == [i \in 1 .. 4 |->
                     IF i = 1 THEN s ELSE IF i = 2 THEN t ELSE IF i = 3 THEN u ELSE v]
  <1>1. /\ S \in [1 .. (Len(<<a, b, c>>) + 1) -> State]
        /\ S[1] = s /\ S[Len(<<a, b, c>>) + 1] = v
    OBVIOUS
  <1>2. \A i \in 1 .. Len(<<a, b, c>>) : Allowed(<<a, b, c>>[i], S[i], S[i + 1])
    OBVIOUS
  <1> HIDE DEF S
  <1>3. QED
    BY <1>1, <1>2 DEF Follows

LEMMA FollowsFour ==
  ASSUME NEW a, NEW b, NEW c, NEW d,
         NEW s \in State, NEW t \in State, NEW u \in State, NEW v \in State, NEW w \in State,
         Allowed(a, s, t), Allowed(b, t, u), Allowed(c, u, v), Allowed(d, v, w)
  PROVE  Follows(<<a, b, c, d>>, s, w)
  <1> DEFINE S == [i \in 1 .. 5 |->
                     IF i = 1 THEN s ELSE IF i = 2 THEN t ELSE IF i = 3 THEN u
                     ELSE IF i = 4 THEN v ELSE w]
  <1>1. /\ S \in [1 .. (Len(<<a, b, c, d>>) + 1) -> State]
        /\ S[1] = s /\ S[Len(<<a, b, c, d>>) + 1] = w
    OBVIOUS
  <1>2. \A i \in 1 .. Len(<<a, b, c, d>>) : Allowed(<<a, b, c, d>>[i], S[i], S[i + 1])
    OBVIOUS
  <1> HIDE DEF S
  <1>3. QED
    BY <1>1, <1>2 DEF Follows

-----------------------------------------------------------------------------
(* A state at another depth of the stack.                                   *)
Deep(s, d) == [depth |-> d, holes |-> s.holes, ends |-> s.ends, halts |-> s.halts]

LEMMA DeepLive ==
  ASSUME NEW s \in State, s.halts = 0, NEW d
  PROVE  Deep(s, d) = Live(d, s.holes, s.ends)
  BY DEF Deep, Live

LEMMA DeepFields ==
  ASSUME NEW s \in State, NEW d \in Nat
  PROVE  /\ Deep(s, d) \in State
         /\ Deep(s, d).depth = d
         /\ Deep(s, d).holes = s.holes
         /\ Deep(s, d).ends = s.ends
         /\ Deep(s, d).halts = s.halts
         /\ \A e : Deep(Deep(s, d), e) = Deep(s, e)
  BY DEF Deep, State

LEMMA DeepSame ==
  ASSUME NEW s \in State PROVE Deep(s, s.depth) = s
  BY DEF Deep, State

(* The depth after an instruction other than a jump or the last one.        *)
LEMMA EmitAllowed ==
  ASSUME NEW s \in State, s.halts = 0, NEW op,
         op.typ \notin Jumps, op.typ # "HALT", Operands(op.typ) <= s.depth,
         NEW d, d = s.depth - get_stack_delta(op.typ)
  PROVE  Allowed(Emit(op), s, Deep(s, d))
  <1>1. Deep(s, d) = [depth |-> d, holes |-> s.holes, ends |-> s.ends, halts |-> 0]
    BY DEF Deep
  <1>2. QED
    BY <1>1 DEF Allowed, Emit

LEMMA PushAllowed ==
  ASSUME NEW s \in State, s.halts = 0, NEW c, c.call \in {"gen_expr", "gen_load_operand"}
  PROVE  Allowed(c, s, Deep(s, s.depth + 1))
  BY DeepLive DEF Allowed

LEMMA PopAllowed ==
  ASSUME NEW s \in State, s.halts = 0, s.depth >= 1, NEW o
  PROVE  Allowed(GenStore(o), s, Deep(s, s.depth - 1))
  BY DeepLive DEF Allowed, GenStore

(* gen_adds leaves one of n numbers.                                        *)
LEMMA AddsFollow ==
  ASSUME NEW s \in State, s.halts = 0, NEW n \in Nat \ {0}, n <= s.depth
  PROVE  Follows(gen_adds(n), s, Deep(s, s.depth - n + 1))
  <1> DEFINE S == [i \in 1 .. n |-> Deep(s, s.depth - i + 1)]
  <1>1. s.depth \in Nat
    BY DEF State
  <1>2. Len(gen_adds(n)) = n - 1
    BY DEF gen_adds
  <1>3. S \in [1 .. (Len(gen_adds(n)) + 1) -> State]
    BY <1>1, <1>2, DeepFields
  <1>4. S[1] = s /\ S[Len(gen_adds(n)) + 1] = Deep(s, s.depth - n + 1)
    BY <1>1, <1>2, DeepSame
  <1>5. ASSUME NEW i \in 1 .. (n - 1)
        PROVE  Allowed(gen_adds(n)[i], S[i], S[i + 1])
    <2>1. gen_adds(n)[i] = Emit(BINADD)
      BY DEF gen_adds
    <2>2. S[i] = Deep(s, s.depth - i + 1) /\ S[i + 1] = Deep(s, s.depth - i)
      BY <1>1
    <2>3. /\ S[i] \in State /\ S[i].halts = 0 /\ S[i].depth = s.depth - i + 1
          /\ S[i].depth >= 2 /\ S[i + 1] = Deep(S[i], S[i].depth - 1)
      BY <1>1, <2>2, DeepFields
    <2>4. /\ BINADD.typ \notin Jumps /\ BINADD.typ # "HALT"
          /\ Operands(BINADD.typ) = 2 /\ get_stack_delta(BINADD.typ) = 1
      BY DEF BINADD, Jumps, Operands, get_stack_delta
    <2> HIDE DEF S
    <2>5. QED
      BY <2>1, <2>3, <2>4, EmitAllowed
  <1> HIDE DEF S
  <1>6. QED
    BY <1>2, <1>3, <1>4, <1>5 DEF Follows

-----------------------------------------------------------------------------
(* What the generator emits and calls is typed.                             *)
LEMMA OpTypes ==
  /\ \A k \in IntW : LOAD_CONST(k) \in OpSet /\ INCR(k) \in OpSet /\ CMUL(k) \in OpSet
  /\ \A x \in IntVars : LOAD_INT(x) \in OpSet /\ STORE_INT(x) \in OpSet
  /\ \A a \in ArrVars : LOAD_ARR(a) \in OpSet /\ STORE_ARR(a) \in OpSet
  /\ \A x \in IntVars, k \in IntW : SETI(x, k) \in OpSet /\ INCI(x, k) \in OpSet
  /\ BINADD \in OpSet /\ PUT \in OpSet /\ HALT \in OpSet
  /\ \A off \in ShortW : JMP(off) \in OpSet
  /\ \A cmp \in CmpType, off \in ShortW : CJMP(cmp, off) \in OpSet
  BY DEF OpSet, LOAD_CONST, INCR, CMUL, LOAD_INT, STORE_INT, LOAD_ARR, STORE_ARR,
         SETI, INCI, BINADD, PUT, HALT, JMP, CJMP

LEMMA CallTypes ==
  /\ \A op \in OpSet : Emit(op) \in CallSet /\ EmitJump(op) \in CallSet
  /\ \A e \in Exprs : GenExpr(e) \in CallSet
  /\ \A terms \in Seq(TreeTerms), k \in IntW, m \in Nat, n \in Nat :
       GenTerms(terms, k, m, n) \in CallSet
  /\ \A o \in TreeOperands : GenLoad(o) \in CallSet /\ GenStore(o) \in CallSet
  /\ \A ss \in Seq(Stmts) : GenStmts(ss) \in CallSet
  /\ MarkEnd \in CallSet /\ PatchSkip \in CallSet /\ PatchLoop \in CallSet
  BY DEF CallSet, Emit, EmitJump, GenExpr, GenTerms, GenLoad, GenStore, GenStmts,
         MarkEnd, PatchSkip, PatchLoop

(* The small numbers the generator puts into instructions.                  *)
LEMMA Numbers == 0 \in IntW /\ 1 \in IntW /\ 0 \in ShortW
  BY HalfAssumption, ShortHalfAssumption DEF IntW, ShortW

(* Effects of the instructions by their types.                              *)
LEMMA Deltas ==
  /\ get_stack_delta("LOAD_CONST") = -1 /\ get_stack_delta("LOAD_INT") = -1
  /\ get_stack_delta("STORE_INT") = 1 /\ get_stack_delta("BINADD") = 1
  /\ get_stack_delta("PUT") = 1
  /\ get_stack_delta("STORE_ARR") = 2 /\ get_stack_delta("CJMP") = 2
  /\ get_stack_delta("LOAD_ARR") = 0 /\ get_stack_delta("INCR") = 0
  /\ get_stack_delta("CMUL") = 0 /\ get_stack_delta("SETI") = 0
  /\ get_stack_delta("INCI") = 0 /\ get_stack_delta("JMP") = 0
  /\ get_stack_delta("HALT") = 0
  BY DEF get_stack_delta

LEMMA OperandCounts ==
  /\ Operands("LOAD_ARR") = 1 /\ Operands("STORE_INT") = 1 /\ Operands("INCR") = 1
  /\ Operands("CMUL") = 1 /\ Operands("PUT") = 1
  /\ Operands("STORE_ARR") = 2 /\ Operands("BINADD") = 2 /\ Operands("CJMP") = 2
  /\ Operands("LOAD_CONST") = 0 /\ Operands("LOAD_INT") = 0 /\ Operands("SETI") = 0
  /\ Operands("INCI") = 0 /\ Operands("JMP") = 0 /\ Operands("HALT") = 0
  BY DEF Operands

-----------------------------------------------------------------------------
(* gen_expr and the loop over the terms.                                    *)
LEMMA CmulFollows ==
  ASSUME NEW s \in State, s.halts = 0, s.depth >= 1, NEW k \in IntW
  PROVE  gen_cmul(k) \in Seq(CallSet) /\ Follows(gen_cmul(k), s, s)
  <1>1. CASE k # 1
    <2>1. gen_cmul(k) = <<Emit(CMUL(k))>>
      BY <1>1 DEF gen_cmul
    <2>2. Allowed(Emit(CMUL(k)), s, Deep(s, s.depth))
      <3>1. CMUL(k).typ = "CMUL"
        BY DEF CMUL
      <3>2. s.depth = s.depth - get_stack_delta("CMUL")
        BY Deltas DEF State
      <3>3. QED
        BY <3>1, <3>2, EmitAllowed, OperandCounts DEF Jumps
    <2>3. Emit(CMUL(k)) \in CallSet
      BY OpTypes, CallTypes
    <2>4. QED
      BY <2>1, <2>2, <2>3, DeepSame, FollowsOne
  <1>2. CASE k = 1
    <2>1. gen_cmul(k) = <<>>
      BY <1>2 DEF gen_cmul
    <2>2. QED
      BY <2>1, FollowsNone
  <1>3. QED
    BY <1>1, <1>2

LEMMA AddsTyped ==
  ASSUME NEW n \in Nat PROVE gen_adds(n) \in Seq(CallSet)
  <1>1. Emit(BINADD) \in CallSet
    BY OpTypes, CallTypes
  <1>2. CASE n >= 1
    <2>1. n - 1 \in Nat /\ gen_adds(n) \in [1 .. (n - 1) -> CallSet]
      BY <1>1, <1>2 DEF gen_adds
    <2>2. QED
      BY <2>1
  <1>3. CASE n = 0
    <2>1. 1 .. (n - 1) = 1 .. 0
      BY <1>3
    <2>2. gen_adds(n) \in [1 .. 0 -> CallSet]
      BY <1>1, <2>1 DEF gen_adds
    <2>3. QED
      BY <2>2
  <1>4. QED
    BY <1>2, <1>3

(* A run of terms is added up and multiplied: one number is left.           *)
LEMMA GroupFollows ==
  ASSUME NEW s \in State, s.halts = 0, NEW k \in IntW, NEW n \in Nat \ {0}, n <= s.depth
  PROVE  /\ gen_group(k, n) \in Seq(CallSet)
         /\ Follows(gen_group(k, n), s, Deep(s, s.depth - n + 1))
  <1> DEFINE t == Deep(s, s.depth - n + 1)
  <1>1. s.depth \in Nat /\ s.depth - n + 1 \in Nat
    BY DEF State
  <1>2. t \in State /\ t.halts = 0 /\ t.depth >= 1
    BY <1>1, DeepFields
  <1>3. Follows(gen_adds(n), s, t) /\ gen_adds(n) \in Seq(CallSet)
    BY AddsFollow, AddsTyped
  <1> HIDE DEF t
  <1>4. Follows(gen_cmul(k), t, t) /\ gen_cmul(k) \in Seq(CallSet)
    BY <1>2, CmulFollows
  <1>5. gen_group(k, n) \in Seq(CallSet) /\ Follows(gen_group(k, n), s, t)
    BY <1>3, <1>4, CallsFollow DEF gen_group
  <1>6. QED
    BY <1>5 DEF t

(* The constant is put on the stack unless it is 0.                         *)
LEMMA ConstantFollows ==
  ASSUME NEW s \in State, s.halts = 0, NEW e \in Exprs
  PROVE  /\ gen_constant(e) \in Seq(CallSet)
         /\ Len(gen_constant(e)) = IF e.constant = 0 THEN 0 ELSE 1
         /\ Follows(gen_constant(e), s, Deep(s, s.depth + Len(gen_constant(e))))
  <1>1. e.constant \in IntW /\ s.depth \in Nat
    BY ExprsAssumption DEF State
  <1>2. CASE e.constant = 0
    <2>1. gen_constant(e) = <<>> /\ Len(gen_constant(e)) = 0
      BY <1>2 DEF gen_constant
    <2>2. Deep(s, s.depth + 0) = s
      BY <1>1, DeepSame
    <2>3. QED
      BY <1>2, <2>1, <2>2, FollowsNone
  <1>3. CASE e.constant # 0
    <2>1. gen_constant(e) = <<Emit(LOAD_CONST(e.constant))>> /\ Len(gen_constant(e)) = 1
      BY <1>3 DEF gen_constant
    <2>2. Allowed(Emit(LOAD_CONST(e.constant)), s, Deep(s, s.depth + 1))
      <3>1. LOAD_CONST(e.constant).typ = "LOAD_CONST"
        BY DEF LOAD_CONST
      <3>2. s.depth + 1 = s.depth - get_stack_delta("LOAD_CONST")
        BY <1>1, Deltas
      <3>3. QED
        BY <1>1, <3>1, <3>2, EmitAllowed, OperandCounts DEF Jumps
    <2>3. Emit(LOAD_CONST(e.constant)) \in CallSet
      BY <1>1, OpTypes, CallTypes
    <2>4. Deep(s, s.depth + 1) \in State
      BY <1>1, DeepFields
    <2>5. QED
      BY <1>3, <2>1, <2>2, <2>3, <2>4, FollowsOne
  <1>4. QED
    BY <1>2, <1>3

(* What a call of gen_expr turns into puts one number on the stack.         *)
LEMMA ExprFollows ==
  ASSUME NEW s \in State, s.halts = 0, NEW e \in Exprs, ~Vanishes(e)
  PROVE  /\ ExprCalls(e) \in Seq(CallSet)
         /\ Follows(ExprCalls(e), s, Deep(s, s.depth + 1))
  <1> DEFINE t == Deep(s, s.depth + 1)
  <1>1. e.constant \in IntW /\ e.terms \in Seq(TreeTerms) /\ s.depth \in Nat
    BY ExprsAssumption DEF State
  <1>2. t \in State /\ t.halts = 0 /\ t.depth = s.depth + 1 /\ t.depth >= 1 /\ t.depth \in Nat
    BY <1>1, DeepFields
  <1>3. t = Deep(s, s.depth + 1)
    OBVIOUS
  <1> HIDE DEF t
  <1>4. CASE e.terms = <<>>
    <2>1. ExprCalls(e) = <<Emit(LOAD_CONST(e.constant))>>
      BY <1>4 DEF ExprCalls
    <2>2. Allowed(Emit(LOAD_CONST(e.constant)), s, t)
      <3>1. LOAD_CONST(e.constant).typ = "LOAD_CONST"
        BY DEF LOAD_CONST
      <3>2. s.depth + 1 = s.depth - get_stack_delta("LOAD_CONST")
        BY <1>1, Deltas
      <3>3. QED
        BY <1>1, <1>3, <3>1, <3>2, EmitAllowed, OperandCounts DEF Jumps
    <2>3. Emit(LOAD_CONST(e.constant)) \in CallSet
      BY <1>1, OpTypes, CallTypes
    <2>4. QED
      BY <1>2, <1>3, <2>1, <2>2, <2>3, FollowsOne
  <1>5. CASE e.terms # <<>> /\ Len(e.terms) = 1 /\ e.constant # 0
             /\ e.terms[1].coefficient # 0
    <2> DEFINE a == GenLoad(e.terms[1].operand)
               m == gen_cmul(e.terms[1].coefficient)
               z == Emit(INCR(e.constant))
    <2>1. ExprCalls(e) = <<a>> \o m \o <<z>>
      BY <1>5 DEF ExprCalls
    <2>2. e.terms[1] \in TreeTerms
      BY <1>1, <1>5
    <2>3. e.terms[1].operand \in TreeOperands /\ e.terms[1].coefficient \in IntW
      BY <2>2 DEF TreeTerms
    <2>4. a \in CallSet /\ z \in CallSet
      BY <1>1, <2>3, OpTypes, CallTypes
    <2>5. Allowed(a, s, t)
      <3>1. a.call = "gen_load_operand"
        BY DEF GenLoad
      <3>2. QED
        BY <1>3, <3>1, PushAllowed
    <2>6. m \in Seq(CallSet) /\ Follows(m, t, t)
      BY <1>2, <2>3, CmulFollows
    <2>7. Allowed(z, t, t)
      <3>1. INCR(e.constant).typ = "INCR"
        BY DEF INCR
      <3>2. t.depth = t.depth - get_stack_delta("INCR")
        BY <1>2, Deltas
      <3>3. QED
        BY <1>2, <3>1, <3>2, EmitAllowed, DeepSame, OperandCounts DEF Jumps
    <2> HIDE DEF a, m, z
    <2>8. <<a>> \in Seq(CallSet) /\ Follows(<<a>>, s, t)
      BY <1>2, <2>4, <2>5, CallFollows
    <2>9. <<z>> \in Seq(CallSet) /\ Follows(<<z>>, t, t)
      BY <1>2, <2>4, <2>7, CallFollows
    <2>10. <<a>> \o m \in Seq(CallSet) /\ Follows(<<a>> \o m, s, t)
      BY <2>6, <2>8, CallsFollow
    <2>11. (<<a>> \o m) \o <<z>> \in Seq(CallSet) /\ Follows((<<a>> \o m) \o <<z>>, s, t)
      BY <2>9, <2>10, CallsFollow
    <2>12. QED
      BY <2>1, <2>11, <1>3
  <1>6. CASE /\ e.terms # <<>>
             /\ ~(Len(e.terms) = 1 /\ e.constant # 0 /\ e.terms[1].coefficient # 0)
    <2> DEFINE n == Len(gen_constant(e))
               g == GenTerms(e.terms, 0, 0, n)
               u == Deep(s, s.depth + n)
    <2>1. ExprCalls(e) = gen_constant(e) \o <<g>>
      BY <1>6 DEF ExprCalls
    <2>2. /\ gen_constant(e) \in Seq(CallSet)
          /\ n = IF e.constant = 0 THEN 0 ELSE 1
          /\ Follows(gen_constant(e), s, u)
      BY ConstantFollows
    <2>3. n \in Nat /\ n <= 1
      BY <2>2
    <2>4. /\ u \in State /\ u.halts = 0 /\ u.depth = s.depth + n
          /\ Deep(u, s.depth + 1) = t
      BY <1>1, <1>3, <2>3, DeepFields
    <2>5. n = 0 => \E i \in DOMAIN e.terms : e.terms[i].coefficient # 0
      BY <1>6, <2>2 DEF Vanishes
    <2>6. g \in CallSet
      BY <1>1, <2>3, CallTypes, Numbers
    <2>7. Allowed(g, u, t)
      <3>1. /\ g.call = "gen_terms" /\ g.terms = e.terms
            /\ g.group_size = 0 /\ g.stack_items = n
        BY DEF GenTerms
      <3>2. t = Live(u.depth + 1 - n, u.holes, u.ends)
        <4>1. u.depth + 1 - n = s.depth + 1
          BY <1>1, <2>3, <2>4
        <4>2. QED
          BY <2>4, <4>1, DeepLive
      <3> HIDE DEF n, g, u
      <3>3. QED
        BY <1>1, <2>3, <2>4, <2>5, <3>1, <3>2 DEF Allowed
    <2> HIDE DEF n, g, u
    <2>8. <<g>> \in Seq(CallSet) /\ Follows(<<g>>, u, t)
      BY <1>2, <2>4, <2>6, <2>7, CallFollows
    <2>9. gen_constant(e) \o <<g>> \in Seq(CallSet) /\ Follows(gen_constant(e) \o <<g>>, s, t)
      BY <2>2, <2>8, CallsFollow
    <2>10. QED
      BY <1>3, <2>1, <2>9
  <1>7. QED
    BY <1>4, <1>5, <1>6

(* What one round of the loop over the terms turns into.                    *)
LEMMA TermsFollow ==
  ASSUME NEW s \in State, NEW t \in State, NEW f \in CallSet, f.call = "gen_terms",
         Allowed(f, s, t)
  PROVE  TermsCalls(f) \in Seq(CallSet) /\ Follows(TermsCalls(f), s, t)
  <1> DEFINE rest == Tail(f.terms)
             coeff == Head(f.terms).coefficient
             load == GenLoad(Head(f.terms).operand)
             items == f.stack_items - f.group_size + 1
             group == gen_group(f.current_coeff, f.group_size)
  <1>1. /\ f.terms \in Seq(TreeTerms) /\ f.current_coeff \in IntW
        /\ f.group_size \in Nat /\ f.stack_items \in Nat
    BY DEF CallSet
  <1>2. /\ s.halts = 0 /\ f.group_size <= f.stack_items /\ f.stack_items <= s.depth
        /\ f.group_size = 0 => f.stack_items <= 1
        /\ f.stack_items = 0 => \E i \in DOMAIN f.terms : f.terms[i].coefficient # 0
        /\ t = Deep(s, s.depth + 1 - f.stack_items)
    BY DeepLive DEF Allowed
  <1>3. s.depth \in Nat
    BY DEF State
  <1>4. CASE f.terms = <<>> /\ f.group_size = 0
    <2>1. TermsCalls(f) = <<>>
      BY <1>4 DEF TermsCalls
    <2>2. f.stack_items = 1
      BY <1>1, <1>2, <1>4
    <2>3. t = s
      BY <1>2, <1>3, <2>2, DeepSame
    <2>4. QED
      BY <2>1, <2>3, FollowsNone
  <1>5. CASE f.terms = <<>> /\ f.group_size > 0
    <2>1. TermsCalls(f) = group \o gen_adds(items)
      BY <1>5 DEF TermsCalls
    <2> DEFINE u == Deep(s, s.depth - f.group_size + 1)
    <2>2. group \in Seq(CallSet) /\ Follows(group, s, u)
      BY <1>1, <1>2, <1>3, <1>5, GroupFollows
    <2>3. /\ u \in State /\ u.halts = 0 /\ u.depth = s.depth - f.group_size + 1
          /\ Deep(u, s.depth + 1 - f.stack_items) = t
      BY <1>1, <1>2, <1>3, DeepFields
    <2>4. /\ items \in Nat \ {0} /\ items <= u.depth
          /\ u.depth - items + 1 = s.depth + 1 - f.stack_items
      BY <1>1, <1>2, <1>3, <2>3
    <2> HIDE DEF items, group, u
    <2>5. gen_adds(items) \in Seq(CallSet) /\ Follows(gen_adds(items), u, t)
      BY <2>3, <2>4, AddsFollow, AddsTyped
    <2>6. QED
      BY <2>1, <2>2, <2>5, CallsFollow
  <1>6. ASSUME f.terms # <<>>
        PROVE  /\ rest \in Seq(TreeTerms) /\ coeff \in IntW /\ load \in CallSet
               /\ \A u \in State : u.halts = 0 => Allowed(load, u, Deep(u, u.depth + 1))
    <2>1. Head(f.terms) \in TreeTerms /\ rest \in Seq(TreeTerms)
      BY <1>1, <1>6
    <2>2. coeff \in IntW /\ Head(f.terms).operand \in TreeOperands
      BY <2>1 DEF TreeTerms
    <2>3. load.call = "gen_load_operand"
      BY DEF GenLoad
    <2>4. QED
      BY <2>1, <2>2, <2>3, CallTypes, PushAllowed
  <1>7. ASSUME NEW u \in State, u.halts = 0, NEW k \in IntW, NEW m \in Nat, NEW n \in Nat,
               f.terms # <<>>, m <= n, n <= u.depth, m = 0 => n <= 1,
               n = 0 => \E i \in DOMAIN rest : rest[i].coefficient # 0,
               t = Deep(u, u.depth + 1 - n)
        PROVE  GenTerms(rest, k, m, n) \in CallSet /\ Allowed(GenTerms(rest, k, m, n), u, t)
    <2>1. GenTerms(rest, k, m, n) \in CallSet
      BY <1>6, <1>7, CallTypes
    <2> DEFINE g == GenTerms(rest, k, m, n)
    <2>2. g.call = "gen_terms" /\ g.terms = rest /\ g.group_size = m /\ g.stack_items = n
      BY DEF GenTerms
    <2>3. t = Live(u.depth + 1 - n, u.holes, u.ends)
      BY <1>7, DeepLive
    <2> HIDE DEF g, rest
    <2>4. Allowed(g, u, t)
      BY <1>7, <2>2, <2>3 DEF Allowed
    <2>5. QED
      BY <2>1, <2>4 DEF g
  <1>8. CASE f.terms # <<>> /\ coeff = 0
    <2> DEFINE g == GenTerms(rest, f.current_coeff, f.group_size, f.stack_items)
    <2>1. TermsCalls(f) = <<g>>
      BY <1>8 DEF TermsCalls
    <2>2. f.stack_items = 0 => \E i \in DOMAIN rest : rest[i].coefficient # 0
      <3>1. ASSUME f.stack_items = 0
            PROVE  \E i \in DOMAIN rest : rest[i].coefficient # 0
        <4>1. PICK i \in DOMAIN f.terms : f.terms[i].coefficient # 0
          BY <1>2, <3>1
        <4>2. i \in 1 .. Len(f.terms) /\ i # 1
          BY <1>1, <1>8, <4>1
        <4>3. i - 1 \in DOMAIN rest /\ rest[i - 1] = f.terms[i]
          BY <1>1, <4>2
        <4>4. QED
          BY <4>1, <4>3
      <3>2. QED
        BY <3>1
    <2> HIDE DEF rest
    <2>3. g \in CallSet /\ Allowed(g, s, t)
      BY <1>1, <1>2, <1>7, <1>8, <2>2
    <2> HIDE DEF g
    <2>4. QED
      BY <2>1, <2>3, CallFollows
  <1>9. CASE /\ f.terms # <<>> /\ coeff # 0
             /\ f.group_size = 0 \/ coeff = f.current_coeff
    <2> DEFINE g == GenTerms(rest, coeff, f.group_size + 1, f.stack_items + 1)
               u == Deep(s, s.depth + 1)
    <2>1. TermsCalls(f) = <<load, g>>
      BY <1>9 DEF TermsCalls
    <2>2. load \in CallSet /\ Allowed(load, s, u) /\ coeff \in IntW
      BY <1>2, <1>6, <1>9
    <2>3. /\ u \in State /\ u.halts = 0 /\ u.depth = s.depth + 1
          /\ Deep(u, s.depth + 1 - f.stack_items) = t
      BY <1>1, <1>2, <1>3, DeepFields
    <2>4. u.depth + 1 - (f.stack_items + 1) = s.depth + 1 - f.stack_items
      BY <1>1, <1>3, <2>3
    <2> HIDE DEF u, rest, coeff, load
    <2>5. /\ f.group_size + 1 \in Nat /\ f.stack_items + 1 \in Nat
          /\ f.group_size + 1 <= f.stack_items + 1 /\ f.stack_items + 1 <= u.depth
          /\ f.group_size + 1 # 0 /\ f.stack_items + 1 # 0
      BY <1>1, <1>2, <1>3, <2>3
    <2>6. t = Deep(u, u.depth + 1 - (f.stack_items + 1))
      BY <2>3, <2>4
    <2>7. g \in CallSet /\ Allowed(g, u, t)
      BY <1>7, <1>9, <2>2, <2>3, <2>5, <2>6
    <2> HIDE DEF g
    <2>8. Follows(<<load, g>>, s, t) /\ <<load, g>> \in Seq(CallSet)
      BY <2>2, <2>3, <2>7, FollowsTwo
    <2>9. QED
      BY <2>1, <2>8
  <1>10. CASE f.terms # <<>> /\ coeff # 0 /\ f.group_size > 0 /\ coeff # f.current_coeff
    <2> DEFINE g == GenTerms(rest, coeff, 1, items + 1)
               u == Deep(s, s.depth - f.group_size + 1)
               v == Deep(u, u.depth + 1)
               b == <<load, g>>
    <2>1. TermsCalls(f) = group \o b
      BY <1>10 DEF TermsCalls
    <2>2. group \in Seq(CallSet) /\ Follows(group, s, u)
      BY <1>1, <1>2, <1>3, <1>10, GroupFollows
    <2>3. /\ u \in State /\ u.halts = 0 /\ u.depth = s.depth - f.group_size + 1
          /\ Deep(u, s.depth + 1 - f.stack_items) = t
      BY <1>1, <1>2, <1>3, DeepFields
    <2>4. load \in CallSet /\ Allowed(load, u, v) /\ coeff \in IntW
      BY <1>6, <1>10, <2>3
    <2> HIDE DEF u, group, coeff, rest, load
    <2>5. /\ items \in Nat \ {0} /\ items <= u.depth /\ u.depth \in Nat
          /\ u.depth + 1 + 1 - (items + 1) = s.depth + 1 - f.stack_items
      BY <1>1, <1>2, <1>3, <1>10, <2>3
    <2>6. /\ v \in State /\ v.halts = 0 /\ v.depth = u.depth + 1
          /\ Deep(v, s.depth + 1 - f.stack_items) = t
      BY <2>3, <2>5, DeepFields
    <2> HIDE DEF v, items
    <2>7. /\ items + 1 \in Nat /\ 1 <= items + 1 /\ items + 1 <= v.depth /\ items + 1 # 0
          /\ t = Deep(v, v.depth + 1 - (items + 1))
      BY <2>5, <2>6
    <2>8. g \in CallSet /\ Allowed(g, v, t)
      BY <1>7, <1>10, <2>4, <2>6, <2>7
    <2> HIDE DEF g
    <2>9. Follows(b, u, t) /\ b \in Seq(CallSet)
      BY <2>3, <2>4, <2>6, <2>8, FollowsTwo
    <2> HIDE DEF b
    <2>10. QED
      BY <2>1, <2>2, <2>9, CallsFollow
  <1>11. QED
    BY <1>1, <1>4, <1>5, <1>8, <1>9, <1>10

-----------------------------------------------------------------------------
(* Statements.                                                              *)
LEMMA SameState ==
  ASSUME NEW s \in State, NEW t \in State, s.depth = t.depth, s.holes = t.holes,
         s.ends = t.ends, s.halts = t.halts
  PROVE  s = t
  BY DEF State

LEMMA LiveFields ==
  ASSUME NEW d \in Nat, NEW h \in Nat, NEW m \in 0 .. 1
  PROVE  /\ Live(d, h, m) \in State
         /\ Live(d, h, m).depth = d /\ Live(d, h, m).holes = h
         /\ Live(d, h, m).ends = m /\ Live(d, h, m).halts = 0
  BY DEF Live, State

LEMMA LiveDeep ==
  ASSUME NEW d \in Nat, NEW h \in Nat, NEW m \in 0 .. 1, NEW e \in Nat
  PROVE  Deep(Live(d, h, m), e) = Live(e, h, m)
  BY LiveFields, DeepLive

LEMMA LiveState ==
  ASSUME NEW s \in State, s.halts = 0
  PROVE  /\ s.depth \in Nat /\ s.holes \in Nat /\ s.ends \in 0 .. 1
         /\ s = Live(s.depth, s.holes, s.ends)
  <1>1. s.depth \in Nat /\ s.holes \in Nat /\ s.ends \in 0 .. 1
    BY DEF State
  <1>2. QED
    BY <1>1, LiveFields, SameState

LEMMA ExpressionCalls ==
  ASSUME NEW d \in Nat, NEW h \in Nat, NEW m \in 0 .. 1, NEW e, NEW o
  PROVE  /\ Allowed(GenExpr(e), Live(d, h, m), Live(d + 1, h, m))
         /\ Allowed(GenLoad(o), Live(d, h, m), Live(d + 1, h, m))
         /\ Allowed(GenStore(o), Live(d + 1, h, m), Live(d, h, m))
  <1> DEFINE s == Live(d, h, m)
             t == Live(d + 1, h, m)
  <1>1. /\ s \in State /\ s.halts = 0 /\ s.depth = d /\ Deep(s, d + 1) = t
        /\ t \in State /\ t.halts = 0 /\ t.depth = d + 1 /\ Deep(t, d) = s
    BY LiveFields, LiveDeep
  <1>2. GenExpr(e).call = "gen_expr" /\ GenLoad(o).call = "gen_load_operand"
    BY DEF GenExpr, GenLoad
  <1> HIDE DEF s, t
  <1>3. Allowed(GenExpr(e), s, t) /\ Allowed(GenLoad(o), s, t)
    BY <1>1, <1>2, PushAllowed
  <1>4. Allowed(GenStore(o), t, s)
    <2>1. t.depth >= 1 /\ t.depth - 1 = d
      BY <1>1
    <2>2. QED
      BY <1>1, <2>1, PopAllowed
  <1>5. QED
    BY <1>3, <1>4 DEF s, t

LEMMA EmitCalls ==
  ASSUME NEW h \in Nat, NEW m \in 0 .. 1, NEW k
  PROVE  /\ Allowed(Emit(INCR(k)), Live(1, h, m), Live(1, h, m))
         /\ Allowed(Emit(PUT), Live(1, h, m), Live(0, h, m))
  <1> DEFINE s == Live(1, h, m)
  <1>1. /\ s \in State /\ s.halts = 0 /\ s.depth = 1
        /\ Deep(s, 1) = s /\ Deep(s, 0) = Live(0, h, m)
    BY LiveFields, LiveDeep
  <1>2. INCR(k).typ = "INCR" /\ PUT.typ = "PUT"
    BY DEF INCR, PUT
  <1> HIDE DEF s
  <1>3. Allowed(Emit(INCR(k)), s, Deep(s, 1))
    BY <1>1, <1>2, Deltas, OperandCounts, EmitAllowed DEF Jumps
  <1>4. Allowed(Emit(PUT), s, Deep(s, 0))
    BY <1>1, <1>2, Deltas, OperandCounts, EmitAllowed DEF Jumps
  <1>5. QED
    BY <1>1, <1>3, <1>4 DEF s

LEMMA JumpCalls ==
  ASSUME NEW h \in Nat, NEW m \in 0 .. 1, NEW k, NEW off
  PROVE  /\ Allowed(EmitJump(JMP(off)), Live(0, h, m), Live(0, h + 1, m))
         /\ Allowed(EmitJump(CJMP(k, off)), Live(2, h, m), Live(0, h + 1, m))
  <1>1. JMP(off).typ = "JMP" /\ CJMP(k, off).typ = "CJMP"
    BY DEF JMP, CJMP
  <1>2. get_stack_delta("JMP") = 0 /\ get_stack_delta("CJMP") = 2
    BY Deltas
  <1>3. /\ EmitJump(JMP(off)).call = "emit_jump" /\ EmitJump(JMP(off)).op = JMP(off)
        /\ EmitJump(CJMP(k, off)).call = "emit_jump"
        /\ EmitJump(CJMP(k, off)).op = CJMP(k, off)
    BY DEF EmitJump
  <1>4. /\ Live(0, h, m).holes = h /\ Live(0, h, m).ends = m
        /\ Live(2, h, m).holes = h /\ Live(2, h, m).ends = m
    BY LiveFields
  <1>5. /\ Live(0, h, m).halts = 0 /\ Live(0, h, m).depth = 0
        /\ Live(2, h, m).halts = 0 /\ Live(2, h, m).depth = 2
    BY LiveFields
  <1>6. QED
    BY <1>1, <1>2, <1>3, <1>4, <1>5 DEF Allowed, Jumps

LEMMA BlockCalls ==
  ASSUME NEW h \in Nat, NEW m \in 0 .. 1, NEW ss
  PROVE  /\ Allowed(GenStmts(ss), Live(0, h, 0), Live(0, h, 0))
         /\ Allowed(MarkEnd, Live(0, h, 0), Live(0, h, 1))
         /\ Allowed(PatchSkip, Live(0, h + 1, m), Live(0, h, m))
         /\ Allowed(PatchLoop, Live(0, h + 2, 1), Live(0, h, 0))
  <1>1. /\ h + 1 - 1 = h /\ h + 1 >= 1 /\ h + 2 - 2 = h /\ h + 2 >= 2
        /\ h + 1 \in Nat /\ h + 2 \in Nat
    OBVIOUS
  <1>2. /\ GenStmts(ss).call = "gen_stmts" /\ MarkEnd.call = "mark_end"
        /\ PatchSkip.call = "patch_skip" /\ PatchLoop.call = "patch_loop"
    BY DEF GenStmts, MarkEnd, PatchSkip, PatchLoop
  <1>3. Allowed(GenStmts(ss), Live(0, h, 0), Live(0, h, 0))
    BY <1>2, LiveFields DEF Allowed
  <1>4. Allowed(MarkEnd, Live(0, h, 0), Live(0, h, 1))
    BY <1>2, LiveFields DEF Allowed
  <1>5. Allowed(PatchSkip, Live(0, h + 1, m), Live(0, h, m))
    BY <1>1, <1>2, LiveFields DEF Allowed
  <1>6. Allowed(PatchLoop, Live(0, h + 2, 1), Live(0, h, 0))
    <2>1. /\ Live(0, h + 2, 1).depth = 0 /\ Live(0, h + 2, 1).holes = h + 2
          /\ Live(0, h + 2, 1).ends = 1 /\ Live(0, h + 2, 1).halts = 0
      BY <1>1, LiveFields
    <2>2. QED
      BY <1>1, <1>2, <2>1 DEF Allowed
  <1>7. QED
    BY <1>3, <1>4, <1>5, <1>6

(* A condition leaves the jump that has taken both its operands.            *)
LEMMA CondFollows ==
  ASSUME NEW cond \in TreeConds, NEW cmp \in CmpType, NEW h \in Nat, NEW m \in 0 .. 1
  PROVE  /\ gen_cond(cond, cmp) \in Seq(CallSet)
         /\ Follows(gen_cond(cond, cmp), Live(0, h, m), Live(0, h + 1, m))
  <1> DEFINE a == GenExpr(cond.right)
             b == GenExpr(cond.left)
             c == EmitJump(CJMP(cmp, 0))
             s == Live(0, h, m)
             t == Live(1, h, m)
             u == Live(2, h, m)
             v == Live(0, h + 1, m)
  <1>1. gen_cond(cond, cmp) = <<a, b, c>>
    BY DEF gen_cond
  <1>2. s \in State /\ t \in State /\ u \in State /\ v \in State
    BY DEF Live, State
  <1>3. a \in CallSet /\ b \in CallSet /\ c \in CallSet
    <2>1. cond.left \in Exprs /\ cond.right \in Exprs
      BY DEF TreeConds
    <2>2. CJMP(cmp, 0) \in OpSet
      BY OpTypes, Numbers
    <2>3. QED
      BY <2>1, <2>2, CallTypes
  <1>4. Allowed(a, s, Live(0 + 1, h, m)) /\ Allowed(b, t, Live(1 + 1, h, m))
    BY ExpressionCalls
  <1>5. Allowed(a, s, t) /\ Allowed(b, t, u)
    BY <1>4
  <1>6. Allowed(c, u, v)
    BY JumpCalls
  <1> HIDE DEF a, b, c, s, t, u, v
  <1>7. Follows(<<a, b, c>>, s, v)
    BY <1>2, <1>5, <1>6, FollowsThree
  <1>8. <<a, b, c>> \in Seq(CallSet)
    BY <1>3
  <1>9. QED
    BY <1>1, <1>7, <1>8 DEF s, v

LEMMA AppendFollows ==
  ASSUME NEW a \in Seq(CallSet), NEW c \in CallSet,
         NEW s, NEW t \in State, NEW u \in State, Follows(a, s, t), Allowed(c, t, u)
  PROVE  Append(a, c) \in Seq(CallSet) /\ Follows(Append(a, c), s, u)
  <1> DEFINE b == <<c>>
  <1>1. Append(a, c) = a \o b
    OBVIOUS
  <1>2. b \in Seq(CallSet) /\ Follows(b, t, u)
    BY CallFollows
  <1> HIDE DEF b
  <1>3. a \o b \in Seq(CallSet) /\ Follows(a \o b, s, u)
    BY <1>2, CallsFollow
  <1>4. QED
    BY <1>1, <1>3

(* The calls of a statement leave the stack and the holes as they were.     *)
LEMMA IhuFollows ==
  ASSUME NEW st \in Stmts, st.typ = "IHU", NEW h \in Nat
  PROVE  /\ StmtCalls(st) \in Seq(CallSet)
         /\ Follows(StmtCalls(st), Live(0, h, 0), Live(0, h, 0))
  <1> DEFINE a == gen_cond(st.cond, reverse_cmp_typ(st.cond.typ))
             b == GenStmts(st.stmts)
             c == PatchSkip
             s == Live(0, h, 0)
             t == Live(0, h + 1, 0)
  <1>1. st.cond \in TreeConds /\ st.stmts \in Seq(Stmts)
    BY StmtsAssumption
  <1>2. reverse_cmp_typ(st.cond.typ) \in CmpType
    BY DEF reverse_cmp_typ, CmpType
  <1>3. StmtCalls(st) = a \o <<b, c>>
    BY DEF StmtCalls
  <1>4. a \in Seq(CallSet) /\ Follows(a, s, t)
    BY <1>1, <1>2, CondFollows
  <1>5. b \in CallSet /\ c \in CallSet /\ s \in State /\ t \in State
    BY <1>1, CallTypes, LiveFields
  <1>6. Allowed(b, t, t) /\ Allowed(c, t, s)
    BY BlockCalls
  <1> HIDE DEF a, b, c, s, t
  <1> DEFINE bc == <<b, c>>
  <1>7. bc \in Seq(CallSet) /\ Follows(bc, t, s)
    BY <1>5, <1>6, FollowsTwo
  <1> HIDE DEF bc
  <1>8. a \o bc \in Seq(CallSet) /\ Follows(a \o bc, s, s)
    BY <1>4, <1>7, CallsFollow
  <1>9. QED
    BY <1>3, <1>8 DEF bc, s

(* So do the calls of a while loop, which patches two jumps,                *)
LEMMA WhileFollows ==
  ASSUME NEW st \in Stmts, st.typ = "WHILE", NEW h \in Nat
  PROVE  /\ StmtCalls(st) \in Seq(CallSet)
         /\ Follows(StmtCalls(st), Live(0, h, 0), Live(0, h, 0))
  <1> DEFINE a == EmitJump(JMP(0))
             b == GenStmts(st.stmts)
             c == MarkEnd
             d == gen_cond(st.cond, st.cond.typ)
             e == PatchLoop
             s == Live(0, h, 0)
             t == Live(0, h + 1, 0)
             u == Live(0, h + 1, 1)
             v == Live(0, h + 2, 1)
  <1>1. st.cond \in TreeConds /\ st.stmts \in Seq(Stmts) /\ st.cond.typ \in CmpType
    BY StmtsAssumption DEF TreeConds
  <1>2. StmtCalls(st) = <<a, b, c>> \o d \o <<e>>
    BY DEF StmtCalls
  <1>3. h + 1 \in Nat /\ h + 2 \in Nat /\ h + 1 + 1 = h + 2
    OBVIOUS
  <1>4. d \in Seq(CallSet) /\ Follows(d, u, v)
    BY <1>1, <1>3, CondFollows
  <1>5. /\ a \in CallSet /\ b \in CallSet /\ c \in CallSet /\ e \in CallSet
        /\ s \in State /\ t \in State /\ u \in State /\ v \in State
    BY <1>1, <1>3, CallTypes, OpTypes, Numbers, LiveFields
  <1>6. Allowed(a, s, t)
    BY JumpCalls
  <1>7. Allowed(b, t, t) /\ Allowed(c, t, u)
    BY <1>3, BlockCalls
  <1>8. Allowed(e, v, s)
    BY BlockCalls
  <1> HIDE DEF a, b, c, d, e, s, t, u, v
  <1> DEFINE abc == <<a, b, c>>
  <1>9. abc \in Seq(CallSet) /\ Follows(abc, s, u)
    BY <1>5, <1>6, <1>7, FollowsThree
  <1> HIDE DEF abc
  <1>10. abc \o d \in Seq(CallSet) /\ Follows(abc \o d, s, v)
    BY <1>4, <1>9, CallsFollow
  <1>11. <<e>> \in Seq(CallSet) /\ Follows(<<e>>, v, s)
    BY <1>5, <1>8, CallFollows
  <1>12. (abc \o d) \o <<e>> \in Seq(CallSet) /\ Follows((abc \o d) \o <<e>>, s, s)
    BY <1>10, <1>11, CallsFollow
  <1>13. QED
    BY <1>2, <1>12 DEF abc, s

(* and those of a hor loop, which stores into its variable three times.     *)
LEMMA HorFollows ==
  ASSUME NEW st \in Stmts, st.typ = "HOR", NEW h \in Nat
  PROVE  /\ StmtCalls(st) \in Seq(CallSet)
         /\ Follows(StmtCalls(st), Live(0, h, 0), Live(0, h, 0))
  <1> DEFINE start == GenExpr(st.start)
             end   == GenExpr(st.end)
             load  == GenLoad(st.var)
             store == GenStore(st.var)
             enter == EmitJump(JMP(0))
             body  == GenStmts(st.stmts)
             incr  == Emit(INCR(1))
             back  == EmitJump(CJMP(CMP_LE, 0))
             S(d, k, m) == Live(d, h + k, m)
             c1 == <<start, store, enter, body>>
             c2 == <<load, incr, store, MarkEnd>>
             c3 == <<end, load, back, PatchLoop>>
             c4 == <<end, store>>
  <1>1. /\ st.var \in TreeOperands /\ st.stmts \in Seq(Stmts)
        /\ st.start \in Exprs /\ st.end \in Exprs
    BY StmtsAssumption
  <1>2. StmtCalls(st) = c1 \o c2 \o c3 \o c4
    BY DEF StmtCalls
  <1>3. h + 0 = h /\ h + 1 \in Nat /\ h + 2 \in Nat /\ h + 1 + 1 = h + 2 /\ h + 0 + 1 = h + 1
    OBVIOUS
  <1>4. /\ start \in CallSet /\ end \in CallSet /\ load \in CallSet /\ store \in CallSet
        /\ enter \in CallSet /\ body \in CallSet /\ incr \in CallSet /\ back \in CallSet
        /\ MarkEnd \in CallSet /\ PatchLoop \in CallSet
    <2>1. CMP_LE \in CmpType
      BY DEF CMP_LE, CmpType
    <2>2. QED
      BY <1>1, <2>1, CallTypes, OpTypes, Numbers
  <1>5. \A d \in 0 .. 2, k \in 0 .. 2, m \in 0 .. 1 : S(d, k, m) \in State
    BY LiveFields
  <1>6. \A k \in 0 .. 2, m \in 0 .. 1 :
          /\ Allowed(start, S(0, k, m), S(1, k, m)) /\ Allowed(end, S(0, k, m), S(1, k, m))
          /\ Allowed(load, S(0, k, m), S(1, k, m)) /\ Allowed(store, S(1, k, m), S(0, k, m))
          /\ Allowed(load, S(1, k, m), S(2, k, m)) /\ Allowed(incr, S(1, k, m), S(1, k, m))
    <2> TAKE k \in 0 .. 2, m \in 0 .. 1
    <2>1. h + k \in Nat /\ 0 + 1 = 1 /\ 1 + 1 = 2
      OBVIOUS
    <2>2. /\ Allowed(start, S(0, k, m), S(0 + 1, k, m)) /\ Allowed(end, S(0, k, m), S(0 + 1, k, m))
          /\ Allowed(load, S(0, k, m), S(0 + 1, k, m)) /\ Allowed(store, S(0 + 1, k, m), S(0, k, m))
          /\ Allowed(load, S(1, k, m), S(1 + 1, k, m))
      BY <2>1, ExpressionCalls
    <2>3. Allowed(incr, S(1, k, m), S(1, k, m))
      BY <2>1, EmitCalls
    <2>4. QED
      BY <2>1, <2>2, <2>3
  <1>7. Allowed(enter, S(0, 0, 0), S(0, 1, 0)) /\ Allowed(back, S(2, 1, 1), S(0, 2, 1))
    <2>1. Allowed(enter, Live(0, h, 0), Live(0, h + 1, 0))
      BY JumpCalls
    <2>2. Allowed(back, Live(2, h + 1, 1), Live(0, (h + 1) + 1, 1))
      BY <1>3, JumpCalls
    <2>3. QED
      BY <1>3, <2>1, <2>2
  <1>8. Allowed(body, S(0, 1, 0), S(0, 1, 0)) /\ Allowed(MarkEnd, S(0, 1, 0), S(0, 1, 1))
    BY <1>3, BlockCalls
  <1>9. Allowed(PatchLoop, S(0, 2, 1), S(0, 0, 0))
    BY <1>3, BlockCalls
  <1>10. S(0, 0, 0) = Live(0, h, 0)
    BY <1>3
  <1> HIDE DEF start, end, load, store, enter, body, incr, back, S
  <1>11. c1 \in Seq(CallSet) /\ Follows(c1, S(0, 0, 0), S(0, 1, 0))
    <2>1. /\ Allowed(start, S(0, 0, 0), S(1, 0, 0)) /\ Allowed(store, S(1, 0, 0), S(0, 0, 0))
          /\ S(0, 0, 0) \in State /\ S(1, 0, 0) \in State /\ S(0, 1, 0) \in State
      BY <1>5, <1>6
    <2>2. Follows(c1, S(0, 0, 0), S(0, 1, 0))
      BY <1>7, <1>8, <2>1, FollowsFour
    <2>3. QED
      BY <1>4, <2>2
  <1>12. c2 \in Seq(CallSet) /\ Follows(c2, S(0, 1, 0), S(0, 1, 1))
    <2>1. /\ Allowed(load, S(0, 1, 0), S(1, 1, 0)) /\ Allowed(incr, S(1, 1, 0), S(1, 1, 0))
          /\ Allowed(store, S(1, 1, 0), S(0, 1, 0))
          /\ S(0, 1, 0) \in State /\ S(1, 1, 0) \in State /\ S(0, 1, 1) \in State
      BY <1>5, <1>6
    <2>2. Follows(c2, S(0, 1, 0), S(0, 1, 1))
      BY <1>8, <2>1, FollowsFour
    <2>3. QED
      BY <1>4, <2>2
  <1>13. c3 \in Seq(CallSet) /\ Follows(c3, S(0, 1, 1), S(0, 0, 0))
    <2>1. /\ Allowed(end, S(0, 1, 1), S(1, 1, 1)) /\ Allowed(load, S(1, 1, 1), S(2, 1, 1))
          /\ S(0, 1, 1) \in State /\ S(1, 1, 1) \in State /\ S(2, 1, 1) \in State
          /\ S(0, 2, 1) \in State /\ S(0, 0, 0) \in State
      BY <1>5, <1>6
    <2>2. Follows(c3, S(0, 1, 1), S(0, 0, 0))
      BY <1>7, <1>9, <2>1, FollowsFour
    <2>3. QED
      BY <1>4, <2>2
  <1>14. c4 \in Seq(CallSet) /\ Follows(c4, S(0, 0, 0), S(0, 0, 0))
    BY <1>4, <1>5, <1>6, FollowsTwo
  <1> HIDE DEF c1, c2, c3, c4
  <1>15. c1 \o c2 \in Seq(CallSet) /\ Follows(c1 \o c2, S(0, 0, 0), S(0, 1, 1))
    BY <1>11, <1>12, CallsFollow
  <1>16. (c1 \o c2) \o c3 \in Seq(CallSet) /\ Follows((c1 \o c2) \o c3, S(0, 0, 0), S(0, 0, 0))
    BY <1>13, <1>15, CallsFollow
  <1>17. /\ ((c1 \o c2) \o c3) \o c4 \in Seq(CallSet)
         /\ Follows(((c1 \o c2) \o c3) \o c4, S(0, 0, 0), S(0, 0, 0))
    BY <1>14, <1>16, CallsFollow
  <1>18. QED
    BY <1>2, <1>10, <1>17

(* Whatever the statement, it leaves the stack empty and its jumps patched. *)
LEMMA StmtFollows ==
  ASSUME NEW st \in Stmts, NEW h \in Nat
  PROVE  /\ StmtCalls(st) \in Seq(CallSet)
         /\ Follows(StmtCalls(st), Live(0, h, 0), Live(0, h, 0))
  <1> DEFINE s == Live(0, h, 0)
             t == Live(1, h, 0)
  <1>1. s \in State /\ t \in State
    BY LiveFields
  <1>2. CASE st.typ = "YOSORO"
    <2> DEFINE a == GenExpr(st.expr)
               b == Emit(PUT)
    <2>1. StmtCalls(st) = <<a, b>>
      BY <1>2 DEF StmtCalls
    <2>2. st.expr \in Exprs
      BY <1>2, StmtsAssumption
    <2>3. a \in CallSet /\ b \in CallSet
      BY <2>2, CallTypes, OpTypes
    <2>4. Allowed(a, s, Live(0 + 1, h, 0)) /\ Allowed(b, t, s)
      BY ExpressionCalls, EmitCalls
    <2>5. Allowed(a, s, t)
      BY <2>4
    <2> HIDE DEF a, b, s, t
    <2>6. <<a, b>> \in Seq(CallSet) /\ Follows(<<a, b>>, s, s)
      BY <1>1, <2>3, <2>4, <2>5, FollowsTwo
    <2>7. QED
      BY <2>1, <2>6 DEF s
  <1>3. CASE st.typ = "SET"
    <2> DEFINE a == GenExpr(st.expr)
               b == GenStore(st.operand)
    <2>1. StmtCalls(st) = <<a, b>>
      BY <1>3 DEF StmtCalls
    <2>2. st.expr \in Exprs /\ st.operand \in TreeOperands
      BY <1>3, StmtsAssumption
    <2>3. a \in CallSet /\ b \in CallSet
      BY <2>2, CallTypes
    <2>4. Allowed(a, s, Live(0 + 1, h, 0)) /\ Allowed(b, Live(0 + 1, h, 0), s)
      BY ExpressionCalls
    <2>5. Allowed(a, s, t) /\ Allowed(b, t, s)
      BY <2>4
    <2> HIDE DEF a, b, s, t
    <2>6. <<a, b>> \in Seq(CallSet) /\ Follows(<<a, b>>, s, s)
      BY <1>1, <2>3, <2>5, FollowsTwo
    <2>7. QED
      BY <2>1, <2>6 DEF s
  <1>4. st.typ \in {"IHU", "WHILE", "HOR", "YOSORO", "SET"}
    BY StmtsAssumption
  <1>5. QED
    BY <1>2, <1>3, <1>4, IhuFollows, WhileFollows, HorFollows

LEMMA StmtsFollow ==
  ASSUME NEW ss \in Seq(Stmts), ss # <<>>, NEW h \in Nat
  PROVE  LET calls == Append(StmtCalls(Head(ss)), GenStmts(Tail(ss))) IN
           calls \in Seq(CallSet) /\ Follows(calls, Live(0, h, 0), Live(0, h, 0))
  <1>1. Head(ss) \in Stmts /\ Tail(ss) \in Seq(Stmts)
    OBVIOUS
  <1> DEFINE a == StmtCalls(Head(ss))
             b == GenStmts(Tail(ss))
             s == Live(0, h, 0)
  <1>2. a \in Seq(CallSet) /\ Follows(a, s, s)
    BY <1>1, StmtFollows
  <1>3. b \in CallSet /\ Allowed(b, s, s) /\ s \in State
    <2>1. 0 \in 0 .. 1
      OBVIOUS
    <2>2. Allowed(b, s, s)
      BY <2>1, BlockCalls
    <2>3. b \in CallSet
      BY <1>1, CallTypes
    <2>4. s \in State
      BY <2>1, LiveFields
    <2>5. QED
      BY <2>2, <2>3, <2>4
  <1> HIDE DEF a, b, s
  <1>4. Append(a, b) \in Seq(CallSet) /\ Follows(Append(a, b), s, s)
    BY <1>2, <1>3, AppendFollows
  <1>5. QED
    BY <1>4 DEF a, b, s

(* An element of an array is loaded and stored by its index.                *)
LEMMA ElementFollows ==
  ASSUME NEW o \in TreeOperands, o.typ = "ARR_ELEM", NEW s \in State, s.halts = 0
  PROVE  LET loads  == <<GenExpr(o.idx), Emit(LOAD_ARR(o.decl))>>
             stores == <<GenExpr(o.idx), Emit(STORE_ARR(o.decl))>>
         IN  /\ loads \in Seq(CallSet) /\ stores \in Seq(CallSet)
             /\ Follows(loads, s, Deep(s, s.depth + 1))
             /\ s.depth >= 1 => Follows(stores, s, Deep(s, s.depth - 1))
  <1> DEFINE a == GenExpr(o.idx)
             b == Emit(LOAD_ARR(o.decl))
             c == Emit(STORE_ARR(o.decl))
             t == Deep(s, s.depth + 1)
             u == Deep(s, s.depth - 1)
  <1>1. o.idx \in Exprs /\ o.decl \in ArrVars
    BY DEF TreeOperands
  <1>2. a \in CallSet /\ b \in CallSet /\ c \in CallSet
    BY <1>1, CallTypes, OpTypes
  <1>3. /\ t \in State /\ t.halts = 0 /\ t.depth = s.depth + 1 /\ s.depth \in Nat
        /\ \A e : Deep(t, e) = Deep(s, e)
    BY DeepFields DEF State
  <1>4. Allowed(a, s, t)
    <2>1. a.call = "gen_expr"
      BY DEF GenExpr
    <2>2. QED
      BY <2>1, PushAllowed
  <1>5. LOAD_ARR(o.decl).typ = "LOAD_ARR" /\ STORE_ARR(o.decl).typ = "STORE_ARR"
    BY DEF LOAD_ARR, STORE_ARR
  <1>6. Allowed(b, t, t)
    <2> DEFINE d == t.depth
    <2>1. d = t.depth - get_stack_delta("LOAD_ARR") /\ Deep(t, d) = t
      BY <1>3, Deltas, DeepSame
    <2> HIDE DEF d, t
    <2>2. QED
      BY <1>3, <1>5, <2>1, EmitAllowed, OperandCounts DEF Jumps
  <1>7. s.depth >= 1 => u \in State /\ Allowed(c, t, u)
    <2> HAVE s.depth >= 1
    <2>1. s.depth - 1 = t.depth - get_stack_delta("STORE_ARR") /\ u = Deep(t, s.depth - 1)
      BY <1>3, Deltas
    <2>2. u \in State /\ Operands("STORE_ARR") <= t.depth
      BY <1>3, OperandCounts, DeepFields
    <2> HIDE DEF t, u
    <2>3. QED
      BY <1>3, <1>5, <2>1, <2>2, EmitAllowed DEF Jumps
  <1> HIDE DEF a, b, c, t, u
  <1>8. <<a, b>> \in Seq(CallSet) /\ <<a, c>> \in Seq(CallSet)
    BY <1>2
  <1>9. Follows(<<a, b>>, s, t)
    BY <1>3, <1>4, <1>6, FollowsTwo
  <1>10. s.depth >= 1 => Follows(<<a, c>>, s, u)
    BY <1>3, <1>4, <1>7, FollowsTwo
  <1>11. QED
    BY <1>8, <1>9, <1>10 DEF a, b, c, t, u

(* What cg_gen calls completes the code.                                    *)
LEMMA ProgramFollows ==
  ASSUME NEW ss \in Seq(Stmts)
  PROVE  cg_gen(ss) \in Seq(CallSet) /\ Follows(cg_gen(ss), Live(0, 0, 0), Finished)
  <1> DEFINE a == GenStmts(ss)
             b == Emit(HALT)
             s == Live(0, 0, 0)
  <1>1. a \in CallSet /\ b \in CallSet
    BY CallTypes, OpTypes
  <1>2. Allowed(a, s, s) /\ s \in State /\ Finished \in State
    BY BlockCalls, LiveFields DEF Finished, State
  <1>3. Allowed(b, s, Finished)
    <2>1. /\ b.call = "emit" /\ b.op.typ = "HALT"
          /\ s.depth = 0 /\ s.holes = 0 /\ s.ends = 0 /\ s.halts = 0
      BY LiveFields DEF Emit, HALT
    <2> HIDE DEF b, s
    <2>2. QED
      BY <2>1, Deltas, OperandCounts DEF Allowed, Finished, Jumps
  <1> HIDE DEF a, b, s
  <1>4. <<a, b>> \in Seq(CallSet) /\ Follows(<<a, b>>, s, Finished)
    BY <1>1, <1>2, <1>3, FollowsTwo
  <1>5. QED
    BY <1>4 DEF cg_gen, a, b, s

-----------------------------------------------------------------------------
(* The calls that turn into other calls.                                    *)
LEMMA Expands ==
  ASSUME Inv, todo # <<>>, NEW calls, Becomes(calls), UNCHANGED <<codes, holes, stmts_end>>,
         ASSUME NEW s \in State, NEW t \in State, Allowed(Head(todo), s, t)
         PROVE  calls \in Seq(CallSet) /\ Follows(calls, s, t)
  PROVE  Inv'
  <1>1. PICK D : Consistent(D)
    BY DEF Inv
  <1>2. todo \in Seq(CallSet) /\ Tail(todo) \in Seq(CallSet) /\ Follows(todo, At(D), Finished)
    BY <1>1 DEF Consistent, Inv, Shape
  <1>3. PICK t \in State : Allowed(Head(todo), At(D), t) /\ Follows(Tail(todo), t, Finished)
    BY <1>2, FollowsHead
  <1>4. At(D) \in State
    BY <1>2, FollowsHead
  <1>5. calls \in Seq(CallSet) /\ Follows(calls, At(D), t)
    BY <1>3, <1>4
  <1>6. todo' \in Seq(CallSet) /\ Follows(todo', At(D), Finished)
    <2>1. todo' = calls \o Tail(todo)
      BY DEF Becomes
    <2>2. QED
      BY <1>2, <1>3, <1>5, <2>1, CallsFollow
  <1>7. Shape'
    BY <1>6 DEF Inv, Shape, Becomes
  <1>8. /\ Certifies(codes', D) /\ Lands(codes', Holes', D) /\ EndLands(codes', stmts_end', D)
        /\ At(D)' = At(D)
    BY <1>1 DEF Consistent, Holes, At
  <1>9. Consistent(D)'
    BY <1>6, <1>8 DEF Consistent
  <1>10. QED
    BY <1>7, <1>9 DEF Inv

(* The call at the head of todo is a call, of its kind.                     *)
LEMMA HeadTyped ==
  ASSUME Shape, todo # <<>>
  PROVE  Head(todo) \in CallSet /\ Tail(todo) \in Seq(CallSet)
  BY DEF Shape

(* The step that gen_expr is.                                               *)
LEMMA ExprStep ==
  ASSUME NoneVanishes, Inv, gen_expr PROVE Inv'
  <1> DEFINE e == Head(todo).expr
  <1>1. Head(todo) \in CallSet /\ todo # <<>> /\ Head(todo).call = "gen_expr"
    BY HeadTyped DEF Inv, gen_expr, Call
  <1>2. e \in Exprs /\ ~Vanishes(e)
    BY <1>1 DEF CallSet, NoneVanishes
  <1> HIDE DEF e
  <1>3. ASSUME NEW s \in State, NEW t \in State, Allowed(Head(todo), s, t)
        PROVE  ExprCalls(e) \in Seq(CallSet) /\ Follows(ExprCalls(e), s, t)
    <2>1. s.halts = 0 /\ t = Deep(s, s.depth + 1)
      BY <1>1, <1>3, DeepLive DEF Allowed
    <2>2. QED
      BY <1>2, <2>1, ExprFollows
  <1>4. Becomes(ExprCalls(e)) /\ UNCHANGED <<codes, holes, stmts_end>>
    BY DEF gen_expr, e
  <1>5. QED
    BY <1>1, <1>3, <1>4, Expands

(* The step that one round of the loop over the terms is.                   *)
LEMMA TermsStep ==
  ASSUME Inv, gen_terms PROVE Inv'
  <1> DEFINE f == Head(todo)
  <1>1. f \in CallSet /\ todo # <<>> /\ f.call = "gen_terms"
    BY HeadTyped DEF Inv, gen_terms, Call
  <1>2. ASSUME NEW s \in State, NEW t \in State, Allowed(f, s, t)
        PROVE  TermsCalls(f) \in Seq(CallSet) /\ Follows(TermsCalls(f), s, t)
    BY <1>1, <1>2, TermsFollow
  <1>3. Becomes(TermsCalls(f)) /\ UNCHANGED <<codes, holes, stmts_end>>
    BY DEF gen_terms
  <1>4. QED
    BY <1>1, <1>2, <1>3, Expands

(* The step that the loop of gen_stmts is.                                  *)
LEMMA StmtsStep ==
  ASSUME Inv, gen_stmts PROVE Inv'
  <1> DEFINE ss == Head(todo).stmts
  <1>1. Head(todo) \in CallSet /\ todo # <<>> /\ Head(todo).call = "gen_stmts"
    BY HeadTyped DEF Inv, gen_stmts, Call
  <1>2. ss \in Seq(Stmts)
    BY <1>1 DEF CallSet
  <1>3. ASSUME NEW s \in State, NEW t \in State, Allowed(Head(todo), s, t)
        PROVE  t = s /\ s.holes \in Nat /\ s = Live(0, s.holes, 0)
    <2>1. s.halts = 0 /\ s.depth = 0 /\ s.ends = 0 /\ t = s
      BY <1>1, <1>3 DEF Allowed
    <2>2. QED
      BY <2>1, LiveState
  <1>4. UNCHANGED <<codes, holes, stmts_end>>
    BY DEF gen_stmts
  <1>5. CASE ss = <<>>
    <2>1. Becomes(<<>>)
      BY <1>5 DEF gen_stmts
    <2>2. ASSUME NEW s \in State, NEW t \in State, Allowed(Head(todo), s, t)
          PROVE  <<>> \in Seq(CallSet) /\ Follows(<<>>, s, t)
      BY <1>3, <2>2, FollowsNone
    <2>3. QED
      BY <1>1, <1>4, <2>1, <2>2, Expands
  <1>6. CASE ss # <<>>
    <2> DEFINE calls == Append(StmtCalls(Head(ss)), GenStmts(Tail(ss)))
    <2>1. Becomes(calls)
      BY <1>6 DEF gen_stmts
    <2>2. \A h \in Nat :
            calls \in Seq(CallSet) /\ Follows(calls, Live(0, h, 0), Live(0, h, 0))
      BY <1>2, <1>6, StmtsFollow
    <2> HIDE DEF calls
    <2>3. ASSUME NEW s \in State, NEW t \in State, Allowed(Head(todo), s, t)
          PROVE  calls \in Seq(CallSet) /\ Follows(calls, s, t)
      BY <1>3, <2>2, <2>3
    <2>4. QED
      BY <1>1, <1>4, <2>1, <2>3, Expands
  <1>7. QED
    BY <1>5, <1>6

(* gen_load_operand and gen_store_operand of an array element.              *)
LEMMA ElementStep ==
  ASSUME Inv, gen_load_operand \/ gen_store_operand, Head(todo).operand.typ = "ARR_ELEM"
  PROVE  Inv'
  <1> DEFINE o == Head(todo).operand
             loads  == <<GenExpr(o.idx), Emit(LOAD_ARR(o.decl))>>
             stores == <<GenExpr(o.idx), Emit(STORE_ARR(o.decl))>>
  <1>1. Head(todo) \in CallSet /\ todo # <<>> 
    BY HeadTyped DEF Inv, gen_load_operand, gen_store_operand, Call
  <1>2. /\ UNCHANGED <<codes, holes, stmts_end>>
        /\ \/ Head(todo).call = "gen_load_operand" /\ Becomes(loads)
           \/ Head(todo).call = "gen_store_operand" /\ Becomes(stores)
    BY DEF gen_load_operand, gen_store_operand, Call
  <1>3. o \in TreeOperands
    BY <1>1, <1>2 DEF CallSet
  <1>4. \A s \in State : s.halts = 0 =>
          /\ loads \in Seq(CallSet) /\ stores \in Seq(CallSet)
          /\ Follows(loads, s, Deep(s, s.depth + 1))
          /\ s.depth >= 1 => Follows(stores, s, Deep(s, s.depth - 1))
    BY <1>3, ElementFollows
  <1> HIDE DEF o, loads, stores
  <1>5. CASE Head(todo).call = "gen_load_operand" /\ Becomes(loads)
    <2>1. ASSUME NEW s \in State, NEW t \in State, Allowed(Head(todo), s, t)
          PROVE  loads \in Seq(CallSet) /\ Follows(loads, s, t)
      <3>1. s.halts = 0 /\ t = Deep(s, s.depth + 1)
        BY <1>5, <2>1, DeepLive DEF Allowed
      <3>2. QED
        BY <1>4, <3>1
    <2>2. QED
      BY <1>1, <1>2, <1>5, <2>1, Expands
  <1>6. CASE Head(todo).call = "gen_store_operand" /\ Becomes(stores)
    <2>1. ASSUME NEW s \in State, NEW t \in State, Allowed(Head(todo), s, t)
          PROVE  stores \in Seq(CallSet) /\ Follows(stores, s, t)
      <3>1. s.halts = 0 /\ s.depth >= 1 /\ t = Deep(s, s.depth - 1)
        BY <1>6, <2>1, DeepLive DEF Allowed
      <3>2. QED
        BY <1>4, <3>1
    <2>2. QED
      BY <1>1, <1>2, <1>6, <2>1, Expands
  <1>7. QED
    BY <1>2, <1>5, <1>6

-----------------------------------------------------------------------------
(* The instructions after the first n give way to op; no jump leads to one  *)
(* of them, except to the first.                                            *)
Replaces(cs, D, hs, se, n, op, d, cs2, E, hs2) ==
  /\ cs \in Seq(OpSet) /\ n \in 0 .. Len(cs) /\ op \in OpSet /\ d \in Nat
  /\ Certifies(cs, D) /\ Lands(cs, hs, D) /\ EndLands(cs, se, D) /\ ~EndsHalted(cs)
  /\ \A i \in (n + 2) .. (Len(cs) + 1) : D[i] # 0
  /\ Operands(op.typ) <= D[n + 1]
  /\ d = D[n + 1] - get_stack_delta(op.typ)
  /\ cs2 = Append(SubSeq(cs, 1, n), op)
  /\ E = [i \in 1 .. (n + 2) |-> IF i <= n + 1 THEN D[i] ELSE d]
  /\ \/ op.typ \notin Jumps /\ hs2 = hs
     \/ op.typ \in Jumps /\ hs2 = hs \cup {n + 1} /\ d = 0

LEMMA Replaced ==
  ASSUME NEW cs, NEW D, NEW hs, NEW se, NEW n, NEW op, NEW d, NEW cs2, NEW E, NEW hs2,
         Replaces(cs, D, hs, se, n, op, d, cs2, E, hs2)
  PROVE  /\ cs2 \in Seq(OpSet) /\ Len(cs2) = n + 1
         /\ Certifies(cs2, E) /\ Lands(cs2, hs2, E) /\ EndLands(cs2, se, E)
         /\ E[Len(cs2) + 1] = d
         /\ EndsHalted(cs2) <=> op.typ = "HALT"
  <1>1. /\ cs \in Seq(OpSet) /\ op \in OpSet /\ d \in Nat
        /\ n \in Nat /\ Len(cs) \in Nat /\ n <= Len(cs)
    BY DEF Replaces
  <1>b. /\ Certifies(cs, D) /\ Lands(cs, hs, D) /\ EndLands(cs, se, D) /\ ~EndsHalted(cs)
        /\ \A i \in (n + 2) .. (Len(cs) + 1) : D[i] # 0
        /\ Operands(op.typ) <= D[n + 1] /\ d = D[n + 1] - get_stack_delta(op.typ)
    BY DEF Replaces
  <1>c. cs2 = Append(SubSeq(cs, 1, n), op)
    BY DEF Replaces
  <1>d. E = [i \in 1 .. (n + 2) |-> IF i <= n + 1 THEN D[i] ELSE d]
    BY DEF Replaces
  <1>e. \/ op.typ \notin Jumps /\ hs2 = hs
        \/ op.typ \in Jumps /\ hs2 = hs \cup {n + 1} /\ d = 0
    BY DEF Replaces
  <1>2. /\ cs2 \in Seq(OpSet) /\ Len(cs2) = n + 1 /\ cs2[n + 1] = op
        /\ \A i \in 1 .. n : cs2[i] = cs[i]
    <2> DEFINE pre == SubSeq(cs, 1, n)
    <2>1. /\ pre \in Seq(OpSet) /\ Len(pre) = n
          /\ \A i \in 1 .. n : pre[i] = cs[i]
      BY <1>1
    <2> HIDE DEF pre
    <2>2. /\ Append(pre, op) \in Seq(OpSet) /\ Len(Append(pre, op)) = n + 1
          /\ Append(pre, op)[n + 1] = op
          /\ \A i \in 1 .. n : Append(pre, op)[i] = pre[i]
      BY <1>1, <2>1
    <2>3. QED
      BY <1>c, <2>1, <2>2 DEF pre
  <1>3. /\ D \in [1 .. (Len(cs) + 1) -> Nat] /\ D[1] = 0
        /\ \A i \in 1 .. (Len(cs) + 1) : D[i] < i
        /\ \A i \in 1 .. Len(cs) :
             /\ Operands(cs[i].typ) <= D[i]
             /\ D[i + 1] = D[i] - get_stack_delta(cs[i].typ)
             /\ cs[i].typ = "HALT" => i = Len(cs)
    BY <1>b DEF Certifies
  <1>4. \A i \in 1 .. Len(cs) : cs[i].typ # "HALT"
    BY <1>1, <1>3, <1>b DEF EndsHalted
  <1>5. get_stack_delta(op.typ) >= -1
    BY DEF get_stack_delta
  <1>6. /\ E \in [1 .. (n + 2) -> Nat] /\ E[1] = 0 /\ E[n + 2] = d
        /\ \A i \in 1 .. (n + 1) : E[i] = D[i]
        /\ \A i \in 1 .. (n + 2) : E[i] < i
    <2>1. \A i \in 1 .. (n + 1) : E[i] = D[i] /\ D[i] \in Nat /\ D[i] < i
      <3> TAKE i \in 1 .. (n + 1)
      <3>1. i \in 1 .. (n + 2) /\ i \in 1 .. (Len(cs) + 1) /\ i <= n + 1
        BY <1>1
      <3>2. QED
        BY <1>3, <1>d, <3>1
    <2>2. E[n + 2] = d
      <3>1. n + 2 \in 1 .. (n + 2) /\ ~(n + 2 <= n + 1)
        BY <1>1
      <3>2. QED
        BY <1>d, <3>1
    <2>3. d < n + 2
      <3>1. n + 1 \in 1 .. (n + 1)
        BY <1>1
      <3>2. D[n + 1] \in Nat /\ D[n + 1] < n + 1
        BY <2>1, <3>1
      <3>3. get_stack_delta(op.typ) \in Int
        BY DEF get_stack_delta
      <3>4. QED
        BY <1>1, <1>5, <1>b, <3>2, <3>3
    <2>4. \A i \in 1 .. (n + 2) : i \in 1 .. (n + 1) \/ i = n + 2
      BY <1>1
    <2>5. E \in [1 .. (n + 2) -> Nat]
      <3>1. \A i \in 1 .. (n + 2) : E[i] \in Nat
        BY <1>1, <2>1, <2>2, <2>4
      <3>2. E = [i \in 1 .. (n + 2) |-> E[i]]
        BY <1>d
      <3>3. QED
        BY <3>1, <3>2
    <2>6. E[1] = 0
      <3>1. 1 \in 1 .. (n + 1)
        BY <1>1
      <3>2. QED
        BY <1>3, <2>1, <3>1
    <2>7. QED
      BY <2>1, <2>2, <2>3, <2>4, <2>5, <2>6
  <1>7. Certifies(cs2, E)
    <2>1. ASSUME NEW i \in 1 .. Len(cs2)
          PROVE  /\ Operands(cs2[i].typ) <= E[i]
                 /\ E[i + 1] = E[i] - get_stack_delta(cs2[i].typ)
                 /\ cs2[i].typ = "HALT" => i = Len(cs2)
      <3>1. CASE i <= n
        <4>1. i \in 1 .. n /\ i \in 1 .. (n + 1) /\ i + 1 \in 1 .. (n + 1) /\ i \in 1 .. Len(cs)
          BY <1>1, <1>2, <3>1
        <4>2. cs2[i] = cs[i] /\ E[i] = D[i] /\ E[i + 1] = D[i + 1]
          BY <1>2, <1>6, <4>1
        <4>3. QED
          BY <1>3, <1>4, <4>1, <4>2
      <3>2. CASE i = n + 1
        <4>1. cs2[i] = op /\ E[i] = D[n + 1] /\ E[i + 1] = d /\ i = Len(cs2)
          BY <1>1, <1>2, <1>6, <3>2
        <4>2. QED
          BY <1>b, <3>2, <4>1
      <3>3. i <= n \/ i = n + 1
        <4>1. i \in 1 .. (n + 1)
          BY <1>2
        <4>2. QED
          BY <1>1, <4>1
      <3>4. QED
        BY <3>1, <3>2, <3>3
    <2>2. Len(cs2) + 1 = n + 2
      BY <1>1, <1>2
    <2>3. QED
      BY <1>6, <2>1, <2>2 DEF Certifies
  <1>8. Lands(cs2, hs2, E)
    <2>1. \A h \in hs : h \in 1 .. n /\ cs[h].typ \in Jumps
      <3> TAKE h \in hs
      <3>1. h \in 1 .. Len(cs) /\ cs[h].typ \in Jumps /\ D[h + 1] = 0
        BY <1>b DEF Lands
      <3>2. QED
        BY <1>1, <1>b, <3>1
    <2>2. \A h \in hs2 : h \in 1 .. Len(cs2) /\ cs2[h].typ \in Jumps
      <3> TAKE h \in hs2
      <3>1. CASE h \in hs
        <4>1. h \in 1 .. n /\ cs[h].typ \in Jumps
          BY <2>1, <3>1
        <4>2. cs2[h] = cs[h] /\ h \in 1 .. (n + 1)
          BY <1>1, <1>2, <4>1
        <4>3. QED
          BY <1>2, <4>1, <4>2
      <3>2. CASE h = n + 1 /\ op.typ \in Jumps
        BY <1>1, <1>2, <3>2
      <3>3. QED
        BY <1>e, <3>1, <3>2
    <2>3. 1 .. (n + 1) \subseteq Addresses(cs2)
      BY <1>1, <1>2 DEF Addresses
    <2>4. \A t \in Addresses(cs) : D[t] = 0 => t \in Addresses(cs2) /\ E[t] = 0
      <3> TAKE t \in Addresses(cs)
      <3> HAVE D[t] = 0
      <3>1. t \in 1 .. (Len(cs) + 1)
        BY DEF Addresses
      <3>2. t \in 1 .. (n + 1)
        BY <1>1, <1>b, <3>1
      <3>3. QED
        BY <1>6, <2>3, <3>2
    <2>5. ASSUME NEW i \in 1 .. Len(cs2), cs2[i].typ \in Jumps
          PROVE  /\ E[i + 1] = 0
                 /\ i \notin hs2 => \E t \in Addresses(cs2) :
                                      E[t] = 0 /\ cs2[i].offset = ToShort(t - i)
      <3>1. CASE i <= n
        <4>1. cs2[i] = cs[i] /\ E[i + 1] = D[i + 1] /\ i \in 1 .. Len(cs)
          <5>1. i \in 1 .. n /\ i + 1 \in 1 .. (n + 1) /\ i \in 1 .. Len(cs)
            BY <1>1, <1>2, <3>1
          <5>2. QED
            BY <1>2, <1>6, <5>1
        <4>2. D[i + 1] = 0
          BY <1>b, <2>5, <4>1 DEF Lands
        <4>3. ASSUME i \notin hs2
              PROVE  \E t \in Addresses(cs2) :
                       E[t] = 0 /\ cs2[i].offset = ToShort(t - i)
          <5>1. i \notin hs
            BY <1>e, <4>3
          <5>2. PICK t \in Addresses(cs) : D[t] = 0 /\ cs[i].offset = ToShort(t - i)
            BY <1>b, <2>5, <4>1, <5>1 DEF Lands
          <5>3. QED
            BY <2>4, <4>1, <5>2
        <4>4. QED
          BY <4>1, <4>2, <4>3
      <3>2. CASE i = n + 1
        <4>1. cs2[i] = op
          BY <1>2, <3>2
        <4>2. op.typ \in Jumps /\ i \in hs2 /\ d = 0
          BY <1>e, <2>5, <3>2, <4>1
        <4>3. E[i + 1] = d
          BY <1>1, <1>6, <3>2
        <4>4. QED
          BY <4>2, <4>3
      <3>3. i <= n \/ i = n + 1
        <4>1. i \in 1 .. (n + 1)
          BY <1>2
        <4>2. QED
          BY <1>1, <4>1
      <3>4. QED
        BY <3>1, <3>2, <3>3
    <2>6. QED
      BY <2>2, <2>5 DEF Lands
  <1>9. EndLands(cs2, se, E)
    <2>1. CASE se = 0
      BY <2>1 DEF EndLands
    <2>2. CASE se \in 1 .. (Len(cs) + 1) /\ D[se] = 0
      <3>1. se \in 1 .. (n + 1)
        BY <1>1, <1>b, <2>2
      <3>2. E[se] = 0
        BY <1>6, <2>2, <3>1
      <3>3. se \in 1 .. (Len(cs2) + 1)
        BY <1>1, <1>2, <3>1
      <3>4. QED
        BY <3>2, <3>3 DEF EndLands
    <2>3. QED
      BY <1>b, <2>1, <2>2 DEF EndLands
  <1>10. EndsHalted(cs2) <=> op.typ = "HALT"
    <2>1. cs2 # <<>> /\ cs2[Len(cs2)] = op
      BY <1>1, <1>2
    <2>2. QED
      BY <2>1 DEF EndsHalted
  <1>11. E[Len(cs2) + 1] = d
    <2>1. Len(cs2) + 1 = n + 2
      BY <1>1, <1>2
    <2>2. QED
      BY <1>6, <2>1
  <1>12. QED
    BY <1>2, <1>7, <1>8, <1>9, <1>10, <1>11

LEMMA ToShortTyped ==
  ASSUME NEW n \in Int PROVE ToShort(n) \in ShortW
  <1>1. ShortHalf \in Nat \ {0} /\ 2 * ShortHalf \in Nat \ {0} /\ n + ShortHalf \in Int
    BY ShortHalfAssumption
  <1>2. (n + ShortHalf) % (2 * ShortHalf) \in 0 .. (2 * ShortHalf - 1)
    BY <1>1
  <1>3. QED
    BY <1>1, <1>2 DEF ToShort, ShortW

(* A jump is patched to lead to t.                                          *)
Patches(cs, D, hs, se, h, t, cs2, hs2) ==
  /\ cs \in Seq(OpSet) /\ h \in 1 .. Len(cs) /\ cs[h].typ \in Jumps
  /\ Certifies(cs, D) /\ Lands(cs, hs, D) /\ EndLands(cs, se, D)
  /\ t \in Addresses(cs) /\ D[t] = 0
  /\ cs2 = [cs EXCEPT ![h].offset = ToShort(t - h)]
  /\ hs2 \subseteq hs /\ hs \ {h} \subseteq hs2

LEMMA Patched ==
  ASSUME NEW cs, NEW D, NEW hs, NEW se, NEW h, NEW t, NEW cs2, NEW hs2,
         Patches(cs, D, hs, se, h, t, cs2, hs2)
  PROVE  /\ cs2 \in Seq(OpSet) /\ Len(cs2) = Len(cs)
         /\ \A i \in 1 .. Len(cs) : cs2[i].typ = cs[i].typ
         /\ Certifies(cs2, D) /\ Lands(cs2, hs2, D) /\ EndLands(cs2, se, D)
         /\ EndsHalted(cs2) <=> EndsHalted(cs)
         /\ Addresses(cs2) = Addresses(cs)
  <1> DEFINE off == ToShort(t - h)
  <1>a. /\ cs \in Seq(OpSet) /\ h \in 1 .. Len(cs) /\ cs[h].typ \in Jumps
        /\ Certifies(cs, D) /\ Lands(cs, hs, D) /\ EndLands(cs, se, D)
        /\ t \in Addresses(cs) /\ D[t] = 0 /\ off = ToShort(t - h)
        /\ hs2 \subseteq hs /\ hs \ {h} \subseteq hs2
    BY DEF Patches
  <1>b. cs2 = [cs EXCEPT ![h].offset = off]
    BY DEF Patches
  <1>1. off \in ShortW
    BY <1>a, ToShortTyped DEF Addresses
  <1>2. cs[h] \in OpSet /\ cs[h].typ \in Jumps
    BY <1>a
  <1> HIDE DEF off
  <1>3. [cs[h] EXCEPT !.offset = off] \in OpSet
    BY <1>1, <1>2 DEF OpSet, Jumps
  <1>4. /\ [cs[h] EXCEPT !.offset = off].typ = cs[h].typ
        /\ [cs[h] EXCEPT !.offset = off].offset = off
    <2>1. "offset" \in DOMAIN cs[h] /\ "typ" \in DOMAIN cs[h] /\ "offset" # "typ"
      BY <1>2 DEF OpSet, Jumps
    <2>2. QED
      BY <2>1
  <1>5. /\ cs2 = [cs EXCEPT ![h] = [cs[h] EXCEPT !.offset = off]]
    BY <1>b
  <1> DEFINE op == [cs[h] EXCEPT !.offset = off]
  <1> HIDE DEF op
  <1>6. /\ cs2 \in Seq(OpSet) /\ Len(cs2) = Len(cs) /\ cs2[h] = op
        /\ \A i \in 1 .. Len(cs) : i # h => cs2[i] = cs[i]
    <2>1. cs2 = [cs EXCEPT ![h] = op]
      BY <1>5 DEF op
    <2>2. op \in OpSet
      BY <1>3 DEF op
    <2>3. QED
      BY <1>a, <2>1, <2>2
  <1>7. op.typ = cs[h].typ /\ op.offset = off
    BY <1>4 DEF op
  <1>8. \A i \in 1 .. Len(cs) : cs2[i].typ = cs[i].typ
    BY <1>6, <1>7
  <1>9. Certifies(cs2, D)
    BY <1>6, <1>8, <1>a DEF Certifies
  <1>10. EndsHalted(cs2) <=> EndsHalted(cs)
    <2>1. Len(cs) \in 1 .. Len(cs) /\ cs # <<>> /\ cs2 # <<>>
      BY <1>6, <1>a
    <2>2. QED
      BY <1>6, <1>8, <2>1 DEF EndsHalted
  <1>11. Addresses(cs2) = Addresses(cs)
    BY <1>6, <1>10 DEF Addresses
  <1>12. Lands(cs2, hs2, D)
    <2>1. \A g \in hs2 : g \in 1 .. Len(cs2) /\ cs2[g].typ \in Jumps
      BY <1>6, <1>8, <1>a DEF Lands
    <2>2. ASSUME NEW i \in 1 .. Len(cs2), cs2[i].typ \in Jumps
          PROVE  /\ D[i + 1] = 0
                 /\ i \notin hs2 => \E a \in Addresses(cs2) :
                                      D[a] = 0 /\ cs2[i].offset = ToShort(a - i)
      <3>1. i \in 1 .. Len(cs) /\ cs[i].typ \in Jumps
        BY <1>6, <1>8, <2>2
      <3>2. D[i + 1] = 0
        BY <1>a, <3>1 DEF Lands
      <3>3. CASE i = h
        BY <1>6, <1>7, <1>11, <1>a, <3>2, <3>3
      <3>4. CASE i # h
        <4>1. i \notin hs2 => i \notin hs
          BY <1>a, <3>4
        <4>2. cs2[i] = cs[i]
          BY <1>6, <3>1, <3>4
        <4>3. QED
          BY <1>11, <1>a, <3>1, <3>2, <4>1, <4>2 DEF Lands
      <3>5. QED
        BY <3>3, <3>4
    <2>3. QED
      BY <2>1, <2>2 DEF Lands
  <1>13. EndLands(cs2, se, D)
    BY <1>6, <1>a DEF EndLands
  <1>14. QED
    BY <1>6, <1>8, <1>9, <1>10, <1>11, <1>12, <1>13

-----------------------------------------------------------------------------
(* The calls that write instructions.                                       *)
LEMMA Emission ==
  ASSUME Shape, todo # <<>>, NEW D, Consistent(D), ~EndsHalted(codes),
         NEW n \in 0 .. Len(codes),
         \A i \in (n + 2) .. (Len(codes) + 1) : D[i] # 0,
         NEW op \in OpSet, Operands(op.typ) <= D[n + 1],
         NEW d \in Nat, d = D[n + 1] - get_stack_delta(op.typ),
         codes' = Append(SubSeq(codes, 1, n), op),
         Becomes(<<>>), stmts_end' = stmts_end, holes' \in Seq(Nat),
         \/ op.typ \notin Jumps /\ Holes' = Holes
         \/ op.typ \in Jumps /\ Holes' = Holes \cup {n + 1} /\ d = 0,
         NEW t, Follows(Tail(todo), t, Finished),
         t = [depth |-> d, holes |-> Len(holes'),
              ends |-> IF stmts_end = 0 THEN 0 ELSE 1,
              halts |-> IF op.typ = "HALT" THEN 1 ELSE 0]
  PROVE  Inv'
  <1> DEFINE E == [i \in 1 .. (n + 2) |-> IF i <= n + 1 THEN D[i] ELSE d]
             hs2 == Holes'
             cs2 == codes'
  <1>1. codes \in Seq(OpSet) /\ stmts_end \in Nat
    BY DEF Shape
  <1>2. Replaces(codes, D, Holes, stmts_end, n, op, d, cs2, E, hs2)
    BY <1>1 DEF Consistent, Replaces
  <1> HIDE DEF cs2, E, hs2
  <1>3. /\ cs2 \in Seq(OpSet) /\ Len(cs2) = n + 1
        /\ Certifies(cs2, E) /\ Lands(cs2, hs2, E) /\ EndLands(cs2, stmts_end, E)
        /\ E[Len(cs2) + 1] = d
        /\ EndsHalted(cs2) <=> op.typ = "HALT"
    BY <1>2, Replaced
  <1>4. /\ codes' \in Seq(OpSet) /\ Len(codes') = n + 1
        /\ Certifies(codes', E) /\ Lands(codes', Holes', E) /\ EndLands(codes', stmts_end, E)
        /\ E[Len(codes') + 1] = d
        /\ EndsHalted(codes') <=> op.typ = "HALT"
    BY <1>3 DEF cs2, hs2
  <1>5. todo' = Tail(todo) /\ Tail(todo) \in Seq(CallSet)
    <2>1. todo' = <<>> \o Tail(todo) /\ Tail(todo) \in Seq(CallSet)
      BY HeadTyped DEF Becomes
    <2>2. QED
      BY <2>1
  <1>6. Shape'
    BY <1>1, <1>4, <1>5 DEF Shape, Becomes
  <1>7. At(E)' = t
    BY <1>4 DEF At
  <1>8. Consistent(E)'
    BY <1>4, <1>5, <1>7 DEF Consistent
  <1>9. QED
    BY <1>6, <1>8 DEF Inv

(* A step starts with the call at the head of todo.                         *)
Starts(D, t) ==
  /\ Consistent(D) /\ At(D) \in State
  /\ Allowed(Head(todo), At(D), t) /\ t \in State /\ Follows(Tail(todo), t, Finished)
  /\ ~EndsHalted(codes)
  /\ Head(todo) \in CallSet
  /\ At(D).depth = D[Len(codes) + 1] /\ At(D).holes = Len(holes)
  /\ At(D).ends = IF stmts_end = 0 THEN 0 ELSE 1
  /\ D \in [1 .. (Len(codes) + 1) -> Nat]
  /\ D[Len(codes) + 1] \in Nat

LEMMA StepStart ==
  ASSUME Inv, todo # <<>>
  PROVE  \E D, t : Starts(D, t)
  <1>1. PICK D : Consistent(D)
    BY DEF Inv
  <1>2. todo \in Seq(CallSet) /\ codes \in Seq(OpSet) /\ Follows(todo, At(D), Finished)
    BY <1>1 DEF Consistent, Inv, Shape
  <1>3. PICK t \in State : Allowed(Head(todo), At(D), t) /\ Follows(Tail(todo), t, Finished)
    BY <1>2, FollowsHead
  <1>4. At(D) \in State /\ Head(todo) \in CallSet
    BY <1>2, FollowsHead
  <1>5. /\ At(D).depth = D[Len(codes) + 1] /\ At(D).holes = Len(holes)
        /\ At(D).ends = IF stmts_end = 0 THEN 0 ELSE 1
        /\ At(D).halts = IF EndsHalted(codes) THEN 1 ELSE 0
    BY DEF At
  <1>6. ~EndsHalted(codes)
    <2>1. At(D).halts = 0
      BY <1>3 DEF Allowed
    <2>2. QED
      BY <1>5, <2>1
  <1>7. D \in [1 .. (Len(codes) + 1) -> Nat]
    BY <1>1 DEF Consistent, Certifies
  <1>8. D[Len(codes) + 1] \in Nat
    BY <1>2, <1>7
  <1>9. QED
    BY <1>1, <1>3, <1>4, <1>5, <1>6, <1>7, <1>8 DEF Starts

(* An instruction after the ones there are.                                 *)
LEMMA AppendIsReplace ==
  ASSUME NEW cs \in Seq(OpSet), NEW op
  PROVE  Append(cs, op) = Append(SubSeq(cs, 1, Len(cs)), op)
  <1>1. SubSeq(cs, 1, Len(cs)) = cs
    OBVIOUS
  <1>2. QED
    BY <1>1

(* An instruction is appended that is no jump.                              *)
LEMMA EmitStep ==
  ASSUME Inv, emit PROVE Inv'
  <1>1. todo # <<>> /\ Head(todo).call = "emit"
    BY DEF emit, Call
  <1>2. PICK D, t : Starts(D, t)
    BY <1>1, StepStart
  <1>3. Consistent(D) /\ ~EndsHalted(codes) /\ Follows(Tail(todo), t, Finished)
    BY <1>2 DEF Starts
  <1> DEFINE op == Head(todo).op
             n == Len(codes)
             d == D[n + 1] - get_stack_delta(op.typ)
  <1>4. op \in OpSet
    BY <1>1, <1>2 DEF CallSet, Starts
  <1>5. /\ op.typ \notin Jumps /\ Operands(op.typ) <= D[n + 1]
        /\ t = [depth |-> d, holes |-> Len(holes),
                ends |-> IF stmts_end = 0 THEN 0 ELSE 1,
                halts |-> IF op.typ = "HALT" THEN 1 ELSE 0]
    BY <1>1, <1>2 DEF Allowed, Starts
  <1>6. d \in Nat
    BY <1>2, <1>5 DEF State, Starts
  <1>7. Shape /\ codes \in Seq(OpSet) /\ n \in Nat
    BY DEF Inv, Shape
  <1>8. /\ codes' = Append(SubSeq(codes, 1, n), op)
        /\ Becomes(<<>>) /\ stmts_end' = stmts_end /\ holes' = holes /\ Holes' = Holes
    BY <1>7, AppendIsReplace DEF emit, Holes
  <1>9. holes' \in Seq(Nat) /\ Len(holes') = Len(holes)
    BY <1>7, <1>8 DEF Shape
  <1>10. n \in 0 .. Len(codes)
         /\ \A i \in (n + 2) .. (Len(codes) + 1) : D[i] # 0
    BY <1>7
  <1> HIDE DEF op, n, d
  <1>11. d = D[n + 1] - get_stack_delta(op.typ)
    BY DEF d
  <1>12. QED
    BY <1>1, <1>3, <1>4, <1>5, <1>6, <1>7, <1>8, <1>9, <1>10, <1>11, Emission

(* A jump is appended, to be patched later.                                 *)
LEMMA EmitJumpStep ==
  ASSUME Inv, emit_jump PROVE Inv'
  <1>1. todo # <<>> /\ Head(todo).call = "emit_jump"
    BY DEF emit_jump, Call
  <1>2. PICK D, t : Starts(D, t)
    BY <1>1, StepStart
  <1>3. Consistent(D) /\ ~EndsHalted(codes) /\ Follows(Tail(todo), t, Finished)
    BY <1>2 DEF Starts
  <1> DEFINE op == Head(todo).op
             n == Len(codes)
             d == 0
             jumps == Append(holes, n + 1)
  <1>4. op \in OpSet
    BY <1>1, <1>2 DEF CallSet, Starts
  <1>5. Shape /\ codes \in Seq(OpSet) /\ n \in Nat /\ holes \in Seq(Nat)
    BY DEF Inv, Shape
  <1>6. /\ jumps \in Seq(Nat) /\ Len(jumps) = Len(holes) + 1
        /\ {jumps[i] : i \in DOMAIN jumps} = Holes \cup {n + 1}
    <2>1. /\ jumps \in Seq(Nat) /\ Len(jumps) = Len(holes) + 1
          /\ jumps[Len(holes) + 1] = n + 1
          /\ \A i \in 1 .. Len(holes) : jumps[i] = holes[i]
      BY <1>5
    <2>2. DOMAIN jumps = 1 .. (Len(holes) + 1) /\ DOMAIN holes = 1 .. Len(holes)
          /\ Len(holes) \in Nat
      BY <1>5, <2>1
    <2> HIDE DEF jumps, n
    <2>3. \A i \in 1 .. (Len(holes) + 1) : i \in 1 .. Len(holes) \/ i = Len(holes) + 1
      BY <2>2
    <2>4. 1 .. Len(holes) \subseteq 1 .. (Len(holes) + 1)
          /\ Len(holes) + 1 \in 1 .. (Len(holes) + 1)
      BY <2>2
    <2>5. QED
      BY <2>1, <2>2, <2>3, <2>4 DEF Holes
  <1>7. op.typ \in Jumps /\ D[n + 1] = get_stack_delta(op.typ)
    BY <1>1, <1>2 DEF Allowed, Starts
  <1>8. t = [depth |-> d, holes |-> Len(jumps),
             ends |-> IF stmts_end = 0 THEN 0 ELSE 1,
             halts |-> IF op.typ = "HALT" THEN 1 ELSE 0]
    <2>1. t = Live(0, Len(holes) + 1, IF stmts_end = 0 THEN 0 ELSE 1)
      BY <1>1, <1>2 DEF Allowed, Starts
    <2>2. op.typ # "HALT"
      BY <1>7 DEF Jumps
    <2>3. QED
      BY <1>6, <2>1, <2>2 DEF Live
  <1>9. /\ codes' = Append(SubSeq(codes, 1, n), op)
        /\ Becomes(<<>>) /\ stmts_end' = stmts_end
    BY <1>5, AppendIsReplace DEF emit_jump
  <1>10. holes' = jumps
    <2>1. Len(codes') = n + 1 /\ holes' = Append(holes, Len(codes'))
      BY <1>4, <1>5 DEF emit_jump
    <2>2. QED
      BY <2>1
  <1>11. Holes' = Holes \cup {n + 1}
    BY <1>6, <1>10 DEF Holes
  <1>12. Operands(op.typ) <= D[n + 1] /\ d = D[n + 1] - get_stack_delta(op.typ)
    BY <1>7, Deltas, OperandCounts DEF Jumps
  <1>13. n \in 0 .. Len(codes) /\ \A i \in (n + 2) .. (Len(codes) + 1) : D[i] # 0
    BY <1>5
  <1>14. d \in Nat /\ holes' \in Seq(Nat) /\ Len(holes') = Len(jumps)
    BY <1>6, <1>10
  <1> HIDE DEF op, n, jumps, d
  <1>15. d = 0
    BY DEF d
  <1>16. QED
    BY <1>1, <1>3, <1>4, <1>5, <1>7, <1>8, <1>9, <1>11, <1>12, <1>13, <1>14, <1>15,
       Emission

(* Neither gen_load_operand nor gen_store_operand emits a jump or HALT.     *)
LEMMA OperandEmission ==
  ASSUME Inv, todo # <<>>, NEW D, NEW t, Starts(D, t),
         NEW n \in 0 .. Len(codes),
         \A i \in (n + 2) .. (Len(codes) + 1) : D[i] # 0,
         NEW op \in OpSet, op.typ \notin Jumps, op.typ # "HALT",
         Operands(op.typ) <= D[n + 1],
         NEW d \in Nat, d = D[n + 1] - get_stack_delta(op.typ),
         codes' = Append(SubSeq(codes, 1, n), op),
         Becomes(<<>>), UNCHANGED <<holes, stmts_end>>,
         t = Live(d, At(D).holes, At(D).ends)
  PROVE  Inv'
  <1>1. /\ Consistent(D) /\ ~EndsHalted(codes) /\ Follows(Tail(todo), t, Finished)
        /\ At(D).holes = Len(holes) /\ At(D).ends = IF stmts_end = 0 THEN 0 ELSE 1
    BY DEF Starts
  <1>2. Shape /\ holes' \in Seq(Nat) /\ Len(holes') = Len(holes) /\ Holes' = Holes
    BY DEF Inv, Shape, Holes
  <1>3. t = [depth |-> d, holes |-> Len(holes'),
             ends |-> IF stmts_end = 0 THEN 0 ELSE 1,
             halts |-> IF op.typ = "HALT" THEN 1 ELSE 0]
    BY <1>1, <1>2 DEF Live
  <1>4. QED
    BY <1>1, <1>2, <1>3, Emission

(* An int variable is put on the stack.                                     *)
LEMMA LoadStep ==
  ASSUME Inv, gen_load_operand, Head(todo).operand.typ # "ARR_ELEM" PROVE Inv'
  <1>1. todo # <<>> /\ Head(todo).call = "gen_load_operand"
    BY DEF gen_load_operand, Call
  <1>2. PICK D, t : Starts(D, t)
    BY <1>1, StepStart
  <1> DEFINE o == Head(todo).operand
             n == Len(codes)
             op == LOAD_INT(o.decl)
             d == D[n + 1] + 1
  <1>3. codes \in Seq(OpSet) /\ n \in Nat /\ D[n + 1] \in Nat
    BY <1>2 DEF Inv, Shape, Starts
  <1>4. o.typ = "INT_VAR" /\ o.decl \in IntVars
    <2>1. o \in TreeOperands
      BY <1>1, <1>2 DEF CallSet, Starts
    <2>2. QED
      BY <2>1 DEF TreeOperands
  <1>5. codes' = Append(codes, op) /\ Becomes(<<>>) /\ UNCHANGED <<holes, stmts_end>>
    BY <1>4 DEF gen_load_operand
  <1>6. codes' = Append(SubSeq(codes, 1, n), op)
    BY <1>3, <1>5, AppendIsReplace
  <1>7. op \in OpSet /\ op.typ = "LOAD_INT"
    BY <1>4, OpTypes DEF LOAD_INT
  <1>8. t = Live(d, At(D).holes, At(D).ends)
    BY <1>1, <1>2 DEF Allowed, Starts
  <1>9. /\ op.typ \notin Jumps /\ op.typ # "HALT" /\ Operands(op.typ) <= D[n + 1]
        /\ d \in Nat /\ d = D[n + 1] - get_stack_delta(op.typ)
    BY <1>3, <1>7, Deltas, OperandCounts DEF Jumps
  <1>10. n \in 0 .. Len(codes) /\ \A i \in (n + 2) .. (Len(codes) + 1) : D[i] # 0
    BY <1>3
  <1> HIDE DEF o, n, op, d
  <1>11. QED
    BY <1>1, <1>2, <1>5, <1>6, <1>7, <1>8, <1>9, <1>10, OperandEmission

(* The store takes what is on the stack, whichever instructions put it      *)
(* there: the ones it is fused with left nothing else.                      *)
LEMMA StoreStep ==
  ASSUME Inv, gen_store_operand, Head(todo).operand.typ # "ARR_ELEM" PROVE Inv'
  <1>1. todo # <<>> /\ Head(todo).call = "gen_store_operand"
    BY DEF gen_store_operand, Call
  <1>2. PICK D, t : Starts(D, t)
    BY <1>1, StepStart
  <1> DEFINE x == Head(todo).operand.decl
             N == Len(codes)
             c == codes[N].constant
             d == D[N + 1] - 1
  <1>3. codes \in Seq(OpSet) /\ N \in Nat /\ D[N + 1] \in Nat
    BY <1>2 DEF Inv, Shape, Starts
  <1>4. Head(todo).operand.typ = "INT_VAR" /\ x \in IntVars
    <2>1. Head(todo).operand \in TreeOperands
      BY <1>1, <1>2 DEF CallSet, Starts
    <2>2. QED
      BY <2>1 DEF TreeOperands
  <1>5. StoreInt(x) /\ Becomes(<<>>) /\ UNCHANGED <<holes, stmts_end>>
    BY <1>4 DEF gen_store_operand
  <1>6. D[N + 1] >= 1 /\ t = Live(d, At(D).holes, At(D).ends)
    BY <1>1, <1>2 DEF Allowed, Starts
  <1>7. d \in Nat /\ d + 1 = D[N + 1]
    BY <1>3, <1>6
  <1>8. /\ D \in [1 .. (N + 1) -> Nat]
        /\ \A i \in 1 .. N : /\ Operands(codes[i].typ) <= D[i]
                             /\ D[i + 1] = D[i] - get_stack_delta(codes[i].typ)
    BY <1>2 DEF Starts, Consistent, Certifies
  <1>9. CASE FusesInci(x) /\ Fuse(2, INCI(x, c))
    <2>1. /\ N >= 2 /\ codes[N].typ = "INCR" /\ codes[N - 1].typ = "LOAD_INT"
      BY <1>9 DEF FusesInci
    <2>2. N \in 1 .. N /\ N - 1 \in 1 .. N /\ (N - 1) + 1 = N
      BY <1>3, <2>1
    <2>3. Operands("INCR") <= D[N] /\ D[N + 1] = D[N] - get_stack_delta("INCR")
      BY <1>8, <2>1, <2>2
    <2>4. D[(N - 1) + 1] = D[N - 1] - get_stack_delta("LOAD_INT")
      BY <1>8, <2>1, <2>2
    <2>5. D[N] \in Nat /\ D[N - 1] \in Nat
      <3>1. N \in 1 .. (N + 1) /\ N - 1 \in 1 .. (N + 1)
        BY <1>3, <2>1
      <3>2. QED
        BY <1>8, <3>1
    <2>6. D[N + 1] = D[N] /\ D[N] >= 1 /\ D[N - 1] = d
      BY <1>7, <2>2, <2>3, <2>4, <2>5, Deltas, OperandCounts
    <2> DEFINE n == N - 2
               op == INCI(x, c)
    <2>7. c \in IntW
      <3>1. codes[N] \in OpSet
        BY <1>3, <2>2
      <3>2. QED
        BY <2>1, <3>1 DEF OpSet
    <2>8. op \in OpSet /\ op.typ = "INCI"
      BY <1>4, <2>7, OpTypes DEF INCI
    <2>9. n \in 0 .. N /\ n + 1 = N - 1
      BY <1>3, <2>1
    <2>10. \A i \in (n + 2) .. (N + 1) : D[i] # 0
      <3>1. \A i \in (n + 2) .. (N + 1) : i = N \/ i = N + 1
        BY <1>3, <2>1
      <3>2. QED
        BY <2>6, <3>1
    <2>11. codes' = Append(SubSeq(codes, 1, n), op)
      BY <1>9 DEF Fuse
    <2>12. /\ op.typ \notin Jumps /\ op.typ # "HALT" /\ Operands(op.typ) <= D[n + 1]
           /\ d = D[n + 1] - get_stack_delta(op.typ)
      BY <1>7, <2>6, <2>8, <2>9, Deltas, OperandCounts DEF Jumps
    <2> HIDE DEF n, op, x, c, d
    <2>13. QED
      BY <1>1, <1>2, <1>5, <1>6, <1>7, <2>8, <2>9, <2>10, <2>11, <2>12, OperandEmission
  <1>10. CASE FusesSeti /\ Fuse(1, SETI(x, c))
    <2>1. N >= 1 /\ codes[N].typ = "LOAD_CONST"
      BY <1>10 DEF FusesSeti
    <2>2. N \in 1 .. N /\ N \in 1 .. (N + 1)
      BY <1>3, <2>1
    <2>3. D[N + 1] = D[N] - get_stack_delta("LOAD_CONST") /\ D[N] \in Nat
      BY <1>8, <2>1, <2>2
    <2>4. D[N] = d
      BY <1>7, <2>3, Deltas
    <2> DEFINE n == N - 1
               op == SETI(x, c)
    <2>5. c \in IntW
      <3>1. codes[N] \in OpSet
        BY <1>3, <2>2
      <3>2. QED
        BY <2>1, <3>1 DEF OpSet
    <2>6. op \in OpSet /\ op.typ = "SETI"
      BY <1>4, <2>5, OpTypes DEF SETI
    <2>7. n \in 0 .. N /\ n + 1 = N
      BY <1>3, <2>1
    <2>8. \A i \in (n + 2) .. (N + 1) : D[i] # 0
      <3>1. \A i \in (n + 2) .. (N + 1) : i = N + 1
        BY <1>3, <2>1
      <3>2. QED
        BY <1>3, <1>6, <3>1
    <2>9. codes' = Append(SubSeq(codes, 1, n), op)
      BY <1>10 DEF Fuse
    <2>10. /\ op.typ \notin Jumps /\ op.typ # "HALT" /\ Operands(op.typ) <= D[n + 1]
           /\ d = D[n + 1] - get_stack_delta(op.typ)
      BY <1>7, <2>4, <2>6, <2>7, Deltas, OperandCounts DEF Jumps
    <2> HIDE DEF n, op, x, c, d
    <2>11. QED
      BY <1>1, <1>2, <1>5, <1>6, <1>7, <2>6, <2>7, <2>8, <2>9, <2>10, OperandEmission
  <1>11. CASE Fuse(0, STORE_INT(x))
    <2> DEFINE op == STORE_INT(x)
    <2>1. op \in OpSet /\ op.typ = "STORE_INT"
      BY <1>4, OpTypes DEF STORE_INT
    <2>2. N \in 0 .. N /\ \A i \in (N + 2) .. (N + 1) : D[i] # 0
      BY <1>3
    <2>3. codes' = Append(SubSeq(codes, 1, N), op)
      <3>1. N - 0 = N
        BY <1>3
      <3>2. QED
        BY <1>11, <3>1 DEF Fuse
    <2>4. /\ op.typ \notin Jumps /\ op.typ # "HALT" /\ Operands(op.typ) <= D[N + 1]
          /\ d = D[N + 1] - get_stack_delta(op.typ)
      BY <1>3, <1>6, <2>1, Deltas, OperandCounts DEF Jumps
    <2> HIDE DEF op, x, c, d
    <2>5. QED
      BY <1>1, <1>2, <1>5, <1>6, <1>7, <2>1, <2>2, <2>3, <2>4, OperandEmission
  <1>12. QED
    BY <1>5, <1>9, <1>10, <1>11 DEF StoreInt

-----------------------------------------------------------------------------
(* The calls that deal with jumps.                                          *)
LEMMA MarkEndStep ==
  ASSUME Inv, mark_end PROVE Inv'
  <1>1. todo # <<>> /\ Head(todo).call = "mark_end"
    BY DEF mark_end, Call
  <1>2. PICK D, t : Starts(D, t)
    BY <1>1, StepStart
  <1>3. /\ D[Len(codes) + 1] = 0 /\ t = Live(0, Len(holes), 1)
    BY <1>1, <1>2 DEF Allowed, Starts
  <1>4. Shape /\ codes \in Seq(OpSet) /\ Len(codes) \in Nat /\ Tail(todo) \in Seq(CallSet)
    BY <1>1, HeadTyped DEF Inv, Shape
  <1>5. /\ stmts_end' = Len(codes) + 1 /\ UNCHANGED <<src, codes, holes>>
        /\ todo' = Tail(todo)
    <2>1. todo' = <<>> \o Tail(todo) /\ UNCHANGED <<src, codes, holes>>
          /\ stmts_end' = Len(codes) + 1
      BY DEF mark_end, Becomes
    <2>2. QED
      BY <1>4, <2>1
  <1>6. Shape'
    BY <1>4, <1>5 DEF Shape
  <1>7. Certifies(codes', D) /\ Lands(codes', Holes', D)
    BY <1>2, <1>5 DEF Starts, Consistent, Holes
  <1>8. EndLands(codes', stmts_end', D)
    BY <1>3, <1>4, <1>5 DEF EndLands
  <1>9. At(D)' = t
    <2>1. ~EndsHalted(codes) /\ Len(codes) + 1 # 0
      BY <1>2, <1>4 DEF Starts
    <2>2. QED
      BY <1>3, <1>5, <2>1 DEF At, Live
  <1>10. Consistent(D)'
    BY <1>2, <1>5, <1>7, <1>8, <1>9 DEF Consistent, Starts
  <1>11. QED
    BY <1>6, <1>10 DEF Inv

(* The holes that remain when the last one is taken away.                   *)
Elems(hs) == {hs[i] : i \in DOMAIN hs}

LEMMA LastHole ==
  ASSUME NEW hs \in Seq(Nat), Len(hs) >= 1
  PROVE  /\ Front(hs) \in Seq(Nat) /\ Len(Front(hs)) = Len(hs) - 1
         /\ \A i \in 1 .. (Len(hs) - 1) : Front(hs)[i] = hs[i]
         /\ Last(hs) = hs[Len(hs)] /\ Last(hs) \in Nat
         /\ Elems(Front(hs)) \subseteq Elems(hs)
         /\ Elems(hs) \ {Last(hs)} \subseteq Elems(Front(hs))
         /\ Last(hs) \in Elems(hs)
  <1> DEFINE n == Len(hs) - 1
             f == Front(hs)
  <1>1. n \in Nat /\ Len(hs) = n + 1 /\ Len(hs) \in 1 .. Len(hs)
    OBVIOUS
  <1>2. f = SubSeq(hs, 1, n)
    BY DEF Front
  <1>3. Last(hs) = hs[Len(hs)]
    BY DEF Last
  <1>4. hs[Len(hs)] \in Nat
    BY <1>1
  <1> HIDE DEF n, f
  <1>5. /\ SubSeq(hs, 1, n) \in Seq(Nat) /\ Len(SubSeq(hs, 1, n)) = n
        /\ \A i \in 1 .. n : SubSeq(hs, 1, n)[i] = hs[i]
    <2>1. \A i \in 1 .. n : hs[i] \in Nat
      BY <1>1
    <2>2. QED
      BY <1>1, <2>1
  <1>6. f \in Seq(Nat) /\ Len(f) = n /\ \A i \in 1 .. n : f[i] = hs[i]
    BY <1>2, <1>5
  <1>7. DOMAIN f = 1 .. n /\ DOMAIN hs = 1 .. (n + 1)
    BY <1>1, <1>6
  <1>8. Elems(f) \subseteq Elems(hs)
    <2>1. \A i \in 1 .. n : i \in 1 .. (n + 1)
      BY <1>1
    <2>2. QED
      BY <1>6, <1>7, <2>1 DEF Elems
  <1>9. Elems(hs) \ {hs[n + 1]} \subseteq Elems(f)
    <2>1. \A i \in 1 .. (n + 1) : i \in 1 .. n \/ i = n + 1
      BY <1>1
    <2>2. QED
      BY <1>6, <1>7, <2>1 DEF Elems
  <1>10. hs[n + 1] \in Elems(hs)
    BY <1>1, <1>7 DEF Elems
  <1>11. QED
    BY <1>1, <1>3, <1>4, <1>6, <1>8, <1>9, <1>10 DEF f, n

(* The end of an ihu block.                                                 *)
LEMMA PatchSkipStep ==
  ASSUME Inv, patch_skip PROVE Inv'
  <1>1. todo # <<>> /\ Head(todo).call = "patch_skip"
    BY DEF patch_skip, Call
  <1>2. PICK D, t : Starts(D, t)
    BY <1>1, StepStart
  <1> DEFINE h == Last(holes)
             N == Len(codes)
             off == ToShort((N + 1) - h)
             cs2 == codes'
             hs2 == Holes'
  <1>3. /\ D[N + 1] = 0 /\ Len(holes) >= 1
        /\ t = Live(0, Len(holes) - 1, IF stmts_end = 0 THEN 0 ELSE 1)
    BY <1>1, <1>2 DEF Allowed, Starts
  <1>4. /\ Shape /\ codes \in Seq(OpSet) /\ N \in Nat /\ holes \in Seq(Nat)
        /\ Tail(todo) \in Seq(CallSet) /\ stmts_end \in Nat
    BY <1>1, HeadTyped DEF Inv, Shape
  <1>5. /\ codes' = [codes EXCEPT ![h].offset = off]
        /\ holes' = Front(holes) /\ UNCHANGED <<src, stmts_end>> /\ todo' = Tail(todo)
    <2>1. codes' = [codes EXCEPT ![h].offset = off] /\ holes' = Front(holes)
      <3>1. codes' = [codes EXCEPT ![h].offset = ToShort(N + 1 - h)]
        BY DEF patch_skip
      <3>2. holes' = Front(holes)
        BY DEF patch_skip
      <3>3. h \in Nat
        BY <1>3, <1>4, LastHole
      <3>4. N + 1 - h = (N + 1) - h
        BY <1>4, <3>3
      <3>5. QED
        BY <3>1, <3>2, <3>4
    <2>2. todo' = <<>> \o Tail(todo) /\ UNCHANGED <<src, stmts_end>>
      BY DEF patch_skip, Becomes
    <2>3. QED
      BY <1>4, <2>1, <2>2
  <1>6. hs2 \subseteq Holes /\ Holes \ {h} \subseteq hs2 /\ h \in Holes
    <2>1. Holes = Elems(holes) /\ hs2 = Elems(Front(holes))
      BY <1>5 DEF Holes, Elems
    <2>2. QED
      BY <1>3, <1>4, <2>1, LastHole
  <1>7. holes' \in Seq(Nat) /\ Len(holes') = Len(holes) - 1
    BY <1>3, <1>4, <1>5, LastHole
  <1>8. /\ Certifies(codes, D) /\ Lands(codes, Holes, D) /\ EndLands(codes, stmts_end, D)
        /\ ~EndsHalted(codes)
    BY <1>2 DEF Starts, Consistent
  <1>9. h \in 1 .. N /\ codes[h].typ \in Jumps
    BY <1>6, <1>8 DEF Lands
  <1>10. N + 1 \in Addresses(codes)
    BY <1>4, <1>8 DEF Addresses
  <1>11. cs2 = [codes EXCEPT ![h].offset = off] /\ off = ToShort((N + 1) - h)
    BY <1>5
  <1> HIDE DEF h, cs2, hs2, off
  <1>12. Patches(codes, D, Holes, stmts_end, h, N + 1, cs2, hs2)
    BY <1>3, <1>4, <1>6, <1>8, <1>9, <1>10, <1>11 DEF Patches
  <1>13. /\ cs2 \in Seq(OpSet) /\ Len(cs2) = N
         /\ Certifies(cs2, D) /\ Lands(cs2, hs2, D) /\ EndLands(cs2, stmts_end, D)
         /\ EndsHalted(cs2) <=> EndsHalted(codes)
    BY <1>12, Patched
  <1>14. /\ codes' \in Seq(OpSet) /\ Len(codes') = N
         /\ Certifies(codes', D) /\ Lands(codes', Holes', D) /\ EndLands(codes', stmts_end', D)
         /\ ~EndsHalted(codes')
    BY <1>5, <1>8, <1>13 DEF cs2, hs2
  <1>15. Shape'
    BY <1>4, <1>5, <1>7, <1>14 DEF Shape
  <1>16. At(D)' = t
    BY <1>3, <1>5, <1>7, <1>14 DEF At, Live
  <1>17. Consistent(D)'
    BY <1>2, <1>5, <1>14, <1>16 DEF Consistent, Starts
  <1>18. QED
    BY <1>15, <1>17 DEF Inv

(* The end of a loop: the innermost two holes are its own.                  *)
LEMMA PatchLoopStep ==
  ASSUME Inv, patch_loop PROVE Inv'
  <1>1. todo # <<>> /\ Head(todo).call = "patch_loop"
    BY DEF patch_loop, Call
  <1>2. PICK D, t : Starts(D, t)
    BY <1>1, StepStart
  <1> DEFINE b == Last(holes)
             a == holes[Len(holes) - 1]
             N == Len(codes)
             offb == ToShort((a + 1) - b)
             offa == ToShort(stmts_end - a)
             mid == [codes EXCEPT ![b].offset = offb]
             hsm == Elems(Front(holes))
             cs2 == codes'
             hs2 == Holes'
  <1>3. /\ D[N + 1] = 0 /\ Len(holes) >= 2 /\ stmts_end # 0
        /\ t = Live(0, Len(holes) - 2, 0)
    BY <1>1, <1>2 DEF Allowed, Starts
  <1>4. /\ Shape /\ codes \in Seq(OpSet) /\ N \in Nat /\ holes \in Seq(Nat)
        /\ Tail(todo) \in Seq(CallSet) /\ stmts_end \in Nat /\ Len(holes) \in Nat
    BY <1>1, HeadTyped DEF Inv, Shape
  <1>5. /\ Front(holes) \in Seq(Nat) /\ Len(Front(holes)) = Len(holes) - 1
        /\ Last(Front(holes)) = a /\ a \in Nat /\ b \in Nat
        /\ hsm \subseteq Holes /\ Holes \ {b} \subseteq hsm /\ b \in Holes
    <2>1. /\ Front(holes) \in Seq(Nat) /\ Len(Front(holes)) = Len(holes) - 1
          /\ \A i \in 1 .. (Len(holes) - 1) : Front(holes)[i] = holes[i]
          /\ hsm \subseteq Elems(holes) /\ Elems(holes) \ {b} \subseteq hsm
          /\ b \in Elems(holes) /\ b \in Nat
      BY <1>3, <1>4, LastHole
    <2>2. Last(Front(holes)) = Front(holes)[Len(holes) - 1]
      BY <2>1 DEF Last
    <2>3. Len(holes) - 1 \in 1 .. (Len(holes) - 1) /\ Len(holes) - 1 \in 1 .. Len(holes)
      BY <1>3, <1>4
    <2>4. a \in Nat
      BY <1>4, <2>3
    <2>5. Holes = Elems(holes)
      BY DEF Holes, Elems
    <2>6. QED
      BY <2>1, <2>2, <2>3, <2>4, <2>5
  <1>6. /\ Front(Front(holes)) \in Seq(Nat) /\ Len(Front(Front(holes))) = Len(holes) - 2
        /\ a \in hsm /\ Elems(Front(Front(holes))) \subseteq hsm
        /\ hsm \ {a} \subseteq Elems(Front(Front(holes)))
    <2>1. Len(Front(holes)) >= 1 /\ Len(Front(holes)) - 1 = Len(holes) - 2
      BY <1>3, <1>4, <1>5
    <2> DEFINE fr == Front(holes)
    <2>2. fr \in Seq(Nat) /\ Len(fr) >= 1 /\ Len(fr) - 1 = Len(holes) - 2 /\ Last(fr) = a
      BY <1>5, <2>1
    <2>3. hsm = Elems(fr)
      OBVIOUS
    <2> HIDE DEF fr, hsm, a
    <2>4. /\ Front(fr) \in Seq(Nat) /\ Len(Front(fr)) = Len(fr) - 1
          /\ Elems(Front(fr)) \subseteq Elems(fr)
          /\ Elems(fr) \ {Last(fr)} \subseteq Elems(Front(fr))
          /\ Last(fr) \in Elems(fr)
      BY <2>2, LastHole
    <2>5. /\ Front(fr) \in Seq(Nat) /\ Len(Front(fr)) = Len(holes) - 2
          /\ a \in hsm /\ Elems(Front(fr)) \subseteq hsm
          /\ hsm \ {a} \subseteq Elems(Front(fr))
      BY <2>2, <2>3, <2>4
    <2>6. QED
      BY <2>5 DEF fr
  <1>7. /\ codes' = [mid EXCEPT ![a].offset = offa]
        /\ holes' = Front(Front(holes)) /\ stmts_end' = 0 /\ src' = src /\ todo' = Tail(todo)
    <2>1. /\ todo' = <<>> \o Tail(todo) /\ src' = src /\ stmts_end' = 0
          /\ holes' = Front(Front(holes))
          /\ codes' = [codes EXCEPT ![b].offset = ToShort(a - b + 1), ![a].offset = offa]
      BY DEF patch_loop, Becomes, Entry
    <2>2. (a + 1) - b = a - b + 1
      BY <1>5
    <2>3. offb = ToShort(a - b + 1)
      BY <2>2
    <2>4. todo' = Tail(todo)
      BY <1>4, <2>1
    <2>5. codes' = [mid EXCEPT ![a].offset = offa]
      <3> HIDE DEF a, b, offa, offb
      <3> QED
        BY <2>1, <2>3
    <2>6. QED
      BY <2>1, <2>4, <2>5
  <1>8. hs2 \subseteq hsm /\ hsm \ {a} \subseteq hs2
    <2>1. hs2 = Elems(Front(Front(holes)))
      BY <1>7 DEF Holes, Elems
    <2>2. QED
      BY <1>6, <2>1
  <1>9. /\ Certifies(codes, D) /\ Lands(codes, Holes, D) /\ EndLands(codes, stmts_end, D)
        /\ ~EndsHalted(codes)
    BY <1>2 DEF Starts, Consistent
  <1>10. /\ a \in 1 .. N /\ codes[a].typ \in Jumps
         /\ b \in 1 .. N /\ codes[b].typ \in Jumps
    BY <1>5, <1>6, <1>9 DEF Lands
  <1>11. a + 1 \in Addresses(codes) /\ D[a + 1] = 0
    <2>1. D[a + 1] = 0
      BY <1>9, <1>10 DEF Lands
    <2>2. a + 1 \in 1 .. (N + 1)
      BY <1>4, <1>10
    <2>3. QED
      BY <1>9, <2>1, <2>2 DEF Addresses
  <1>12. stmts_end \in Addresses(codes) /\ D[stmts_end] = 0
    BY <1>3, <1>9 DEF Addresses, EndLands
  <1>13. mid = [codes EXCEPT ![b].offset = offb] /\ offb = ToShort((a + 1) - b)
    OBVIOUS
  <1>14. offa = ToShort(stmts_end - a) /\ cs2 = [mid EXCEPT ![a].offset = offa]
    BY <1>7
  <1> HIDE DEF a, b, mid, hsm, cs2, hs2, offa, offb
  <1>15. Patches(codes, D, Holes, stmts_end, b, a + 1, mid, hsm)
    BY <1>4, <1>5, <1>9, <1>10, <1>11, <1>13 DEF Patches
  <1>16. /\ mid \in Seq(OpSet) /\ Len(mid) = N
         /\ \A i \in 1 .. N : mid[i].typ = codes[i].typ
         /\ Certifies(mid, D) /\ Lands(mid, hsm, D) /\ EndLands(mid, stmts_end, D)
         /\ EndsHalted(mid) <=> EndsHalted(codes)
         /\ Addresses(mid) = Addresses(codes)
    BY <1>15, Patched
  <1>17. Patches(mid, D, hsm, stmts_end, a, stmts_end, cs2, hs2)
    <2>1. a \in 1 .. Len(mid) /\ mid[a].typ \in Jumps
      BY <1>10, <1>16
    <2>2. QED
      BY <1>8, <1>12, <1>14, <1>16, <2>1 DEF Patches
  <1>18. /\ cs2 \in Seq(OpSet) /\ Len(cs2) = Len(mid)
         /\ Certifies(cs2, D) /\ Lands(cs2, hs2, D)
         /\ EndsHalted(cs2) <=> EndsHalted(mid)
    BY <1>17, Patched
  <1>19. /\ codes' \in Seq(OpSet) /\ Len(codes') = N
         /\ Certifies(codes', D) /\ Lands(codes', Holes', D) /\ EndLands(codes', stmts_end', D)
         /\ ~EndsHalted(codes')
    BY <1>7, <1>9, <1>16, <1>18 DEF cs2, hs2, EndLands
  <1>20. Shape'
    BY <1>4, <1>6, <1>7, <1>19 DEF Shape
  <1>21. At(D)' = t
    BY <1>3, <1>6, <1>7, <1>19 DEF At, Live
  <1>22. Consistent(D)'
    BY <1>2, <1>7, <1>19, <1>21 DEF Consistent, Starts
  <1>23. QED
    BY <1>20, <1>22 DEF Inv

-----------------------------------------------------------------------------
(* The invariant.                                                           *)
LEMMA InitInv ==
  ASSUME Init PROVE Inv
  <1> DEFINE D == [i \in 1 .. 1 |-> 0]
  <1>1. /\ src \in Sources /\ src \in Seq(Stmts)
        /\ todo = cg_gen(src) /\ codes = <<>> /\ holes = <<>> /\ stmts_end = 0
    BY SourcesAssumption DEF Init, cg_init
  <1>2. todo \in Seq(CallSet) /\ Follows(todo, Live(0, 0, 0), Finished)
    BY <1>1, ProgramFollows
  <1>3. Len(codes) = 0 /\ codes \in Seq(OpSet) /\ holes \in Seq(Nat) /\ Len(holes) = 0
    BY <1>1
  <1>4. Shape
    BY <1>1, <1>2, <1>3 DEF Shape
  <1>5. D \in [1 .. (Len(codes) + 1) -> Nat] /\ D[1] = 0 /\ D[Len(codes) + 1] = 0
    BY <1>3
  <1>6. ~EndsHalted(codes) /\ Holes = {}
    BY <1>1 DEF EndsHalted, Holes
  <1> HIDE DEF D
  <1>7. Certifies(codes, D)
    <2>1. \A i \in 1 .. (Len(codes) + 1) : i = 1
      BY <1>3
    <2>2. \A i \in 1 .. Len(codes) : FALSE
      BY <1>3
    <2>3. QED
      BY <1>5, <2>1, <2>2 DEF Certifies
  <1>8. Lands(codes, Holes, D) /\ EndLands(codes, stmts_end, D)
    BY <1>1, <1>3, <1>6 DEF Lands, EndLands
  <1>9. At(D) = Live(0, 0, 0)
    BY <1>1, <1>3, <1>5, <1>6 DEF At, Live
  <1>10. Consistent(D)
    BY <1>2, <1>7, <1>8, <1>9 DEF Consistent
  <1>11. QED
    BY <1>4, <1>10 DEF Inv

(* Every call of the generator keeps the invariant.                         *)
LEMMA NextInv ==
  ASSUME NoneVanishes, Inv, [Next]_vars PROVE Inv'
  <1>1. CASE emit
    BY <1>1, EmitStep
  <1>2. CASE emit_jump
    BY <1>2, EmitJumpStep
  <1>3. CASE mark_end
    BY <1>3, MarkEndStep
  <1>4. CASE gen_expr
    BY <1>4, ExprStep
  <1>5. CASE gen_terms
    BY <1>5, TermsStep
  <1>6. CASE gen_load_operand
    BY <1>6, LoadStep, ElementStep
  <1>7. CASE gen_store_operand
    BY <1>7, StoreStep, ElementStep
  <1>8. CASE gen_stmts
    BY <1>8, StmtsStep
  <1>9. CASE patch_skip
    BY <1>9, PatchSkipStep
  <1>10. CASE patch_loop
    BY <1>10, PatchLoopStep
  <1>11. CASE UNCHANGED vars
    <2>1. src' = src /\ codes' = codes /\ todo' = todo /\ holes' = holes
          /\ stmts_end' = stmts_end
      BY <1>11 DEF vars
    <2>2. Shape'
      BY <2>1 DEF Inv, Shape
    <2>3. PICK D : Consistent(D)
      BY DEF Inv
    <2>4. At(D)' = At(D) /\ Holes' = Holes
      BY <2>1 DEF At, Holes
    <2>5. Consistent(D)'
      BY <2>1, <2>3, <2>4 DEF Consistent
    <2>6. QED
      BY <2>2, <2>5 DEF Inv
  <1>12. QED
    BY <1>1, <1>2, <1>3, <1>4, <1>5, <1>6, <1>7, <1>8, <1>9, <1>10, <1>11 DEF Next

(* At every step there is a certificate of the code so far, with which the  *)
(* calls still to be made complete the code (codegen.c, cg_gen and all it   *)
(* calls).                                                                  *)
THEOREM Safety ==
  ASSUME NoneVanishes PROVE Spec => []Inv
  <1>1. Init => Inv
    BY InitInv
  <1>2. Inv /\ [Next]_vars => Inv'
    BY NextInv
  <1>3. QED
    BY <1>1, <1>2, PTL DEF Spec

-----------------------------------------------------------------------------
(* What holds of 0 and passes from each number to the next.                 *)
LEMMA NatSet ==
  ASSUME NEW S, 0 \in S, \A n \in Nat : n \in S => n + 1 \in S
  PROVE  Nat \subseteq S
  <1> DEFINE T == Nat \ S
  <1>1. SUFFICES ASSUME T # {} PROVE FALSE
    OBVIOUS
  <1>2. \E x \in T : \A y \in T : ~ (<<y, x>> \in OpToRel(<, Nat))
    <2>1. IsWellFoundedOn(OpToRel(<, Nat), Nat)
      BY NatLessThanWellFounded
    <2>2. T \subseteq Nat
      OBVIOUS
    <2> HIDE DEF T
    <2>3. QED
      BY <1>1, <2>1, <2>2, WFMin
  <1>3. PICK x \in T : \A y \in T : ~(y < x)
    BY <1>2 DEF OpToRel
  <1>4. x # 0 /\ x - 1 \in Nat /\ x - 1 \notin T
    BY <1>3
  <1>5. QED
    BY <1>4

(* The certificate is the sum of the deltas.                                *)
LEMMA PrefixIsDepth ==
  ASSUME NEW cs \in Seq(OpSet), NEW D, Certifies(cs, D)
  PROVE  PrefixDepth(cs) = [i \in DOMAIN cs |-> D[i]]
  <1> DEFINE B(f) == [i \in DOMAIN cs |->
                        IF i = 1 THEN 0 ELSE f[i - 1] - get_stack_delta(cs[i - 1].typ)]
             g == [i \in DOMAIN cs |-> D[i]]
             N == Len(cs)
  <1>1. N \in Nat /\ DOMAIN cs = 1 .. N /\ D[1] = 0
        /\ \A i \in 1 .. N : D[i + 1] = D[i] - get_stack_delta(cs[i].typ)
    BY DEF Certifies
  <1>2. \A i \in 1 .. N : i # 1 => i - 1 \in 1 .. N /\ (i - 1) + 1 = i
    BY <1>1
  <1>3. \A i \in 1 .. N : i # 1 => D[i] = D[i - 1] - get_stack_delta(cs[i - 1].typ)
    <2> TAKE i \in 1 .. N
    <2> HAVE i # 1
    <2>1. i - 1 \in 1 .. N /\ (i - 1) + 1 = i
      BY <1>2
    <2>2. D[(i - 1) + 1] = D[i - 1] - get_stack_delta(cs[i - 1].typ)
      BY <1>1, <2>1
    <2>3. QED
      BY <2>1, <2>2
  <1>4. g = B(g)
    BY <1>1, <1>2, <1>3
  <1>5. ASSUME NEW f, f = B(f) PROVE f = g
    <2> DEFINE S == {n \in Nat : n + 1 \in 1 .. N => f[n + 1] = D[n + 1]}
    <2>1. 0 \in S
      BY <1>1, <1>5
    <2>2. ASSUME NEW n \in Nat, n \in S PROVE n + 1 \in S
      <3>1. SUFFICES ASSUME (n + 1) + 1 \in 1 .. N
                     PROVE  f[(n + 1) + 1] = D[(n + 1) + 1]
        OBVIOUS
      <3>2. n + 1 \in 1 .. N /\ ((n + 1) + 1) - 1 = n + 1 /\ (n + 1) + 1 # 1
        BY <1>1, <3>1
      <3>3. f[n + 1] = D[n + 1]
        BY <2>2, <3>2
      <3>4. f[(n + 1) + 1] = f[n + 1] - get_stack_delta(cs[n + 1].typ)
        BY <1>1, <1>5, <3>1, <3>2
      <3>5. D[(n + 1) + 1] = D[n + 1] - get_stack_delta(cs[n + 1].typ)
        BY <1>1, <3>2
      <3>6. QED
        BY <3>3, <3>4, <3>5
    <2>3. Nat \subseteq S
      <3> HIDE DEF S
      <3> QED
        BY <2>1, <2>2, NatSet
    <2>4. \A i \in 1 .. N : f[i] = D[i]
      <3> TAKE i \in 1 .. N
      <3>1. i - 1 \in Nat /\ (i - 1) + 1 = i
        BY <1>1
      <3>2. i - 1 \in S
        BY <2>3, <3>1
      <3>3. QED
        BY <3>1, <3>2
    <2>5. QED
      BY <1>1, <1>5, <2>4
  <1>6. PrefixDepth(cs) = CHOOSE f : f = B(f)
    BY DEF PrefixDepth
  <1> HIDE DEF B, g
  <1>7. QED
    BY <1>4, <1>5, <1>6 DEF g

-----------------------------------------------------------------------------
(* What the invariant says.                                                 *)

(* A short holds the offset of a jump inside a short program, unless it is  *)
(* the greatest one, past the end: it wraps to an address before the code.  *)
LEMMA ShortFits ==
  ASSUME NEW N \in Nat, N <= ShortHalf, NEW i \in 1 .. N, NEW t \in 1 .. (N + 1)
  PROVE  /\ i + ToShort(t - i) = t \/ (t = N + 1 /\ i + ToShort(t - i) <= 0)
         /\ i + ToShort(t - i) \in Int
  <1> DEFINE M == 2 * ShortHalf
             n == (t - i) + ShortHalf
  <1>1. ShortHalf \in Nat \ {0} /\ M \in Nat \ {0} /\ M = ShortHalf + ShortHalf
    BY ShortHalfAssumption
  <1>2. n \in Nat /\ n <= M /\ ToShort(t - i) = (n % M) - ShortHalf
    BY <1>1 DEF ToShort
  <1>3. CASE n < M
    <2>1. n % M = n
      BY <1>1, <1>2, <1>3
    <2>2. QED
      BY <1>1, <1>2, <2>1
  <1>4. CASE n = M
    <2>1. n % M = 0
      BY <1>1, <1>4
    <2>2. i = 1 /\ t = N + 1
      BY <1>1, <1>4
    <2>3. QED
      BY <1>1, <1>2, <2>1, <2>2
  <1>5. QED
    BY <1>1, <1>2, <1>3, <1>4

(* A landing is an address where there is nothing on the stack, or lies in  *)
(* front of the code.                                                       *)
LEMMA LandingDepth ==
  ASSUME Shape, NEW D, Consistent(D), OffsetsFit, NEW t \in Landings
  PROVE  t \in Int /\ ((t \in 1 .. (Len(codes) + 1) /\ D[t] = 0) \/ t <= 0)
  <1> DEFINE N == Len(codes)
  <1>1. codes \in Seq(OpSet) /\ N \in Nat /\ DOMAIN codes = 1 .. N /\ N <= ShortHalf
    BY DEF Shape, OffsetsFit
  <1>2. /\ Lands(codes, Holes, D) /\ EndLands(codes, stmts_end, D)
        /\ Addresses(codes) \subseteq 1 .. (N + 1)
    BY <1>1 DEF Consistent, Addresses
  <1>3. ASSUME NEW i \in DOMAIN codes, codes[i].typ \in Jumps, i \notin Holes,
               t = i + codes[i].offset
        PROVE  t \in Int /\ ((t \in 1 .. (N + 1) /\ D[t] = 0) \/ t <= 0)
    <2>1. PICK u \in Addresses(codes) : D[u] = 0 /\ codes[i].offset = ToShort(u - i)
      BY <1>1, <1>2, <1>3 DEF Lands
    <2>2. u \in 1 .. (N + 1) /\ i \in 1 .. N
      BY <1>1, <1>2
    <2>3. /\ i + ToShort(u - i) = u \/ (u = N + 1 /\ i + ToShort(u - i) <= 0)
          /\ i + ToShort(u - i) \in Int
      BY <1>1, <2>2, ShortFits
    <2>4. t = i + ToShort(u - i)
      BY <1>3, <2>1
    <2>5. QED
      BY <2>1, <2>2, <2>3, <2>4
  <1>4. ASSUME NEW h \in Holes, t = h + 1
        PROVE  t \in 1 .. (N + 1) /\ D[t] = 0
    <2>1. h \in 1 .. N /\ codes[h].typ \in Jumps
      BY <1>2 DEF Lands
    <2>2. D[h + 1] = 0 /\ h + 1 \in 1 .. (N + 1)
      BY <1>1, <1>2, <2>1 DEF Lands
    <2>3. QED
      BY <1>4, <2>2
  <1>5. ASSUME t = stmts_end, t # 0
        PROVE  t \in 1 .. (N + 1) /\ D[t] = 0
    BY <1>2, <1>5 DEF EndLands
  <1>6. \/ \E i \in DOMAIN codes : /\ codes[i].typ \in Jumps /\ i \notin Holes
                                   /\ t = i + codes[i].offset
        \/ \E h \in Holes : t = h + 1
        \/ t = stmts_end /\ t # 0
    BY DEF Landings
  <1>7. QED
    BY <1>1, <1>3, <1>4, <1>5, <1>6

(* The invariant implies the properties of CodeGen.                         *)
LEMMA InvTypeOK ==
  ASSUME Inv PROVE TypeOK
  <1>1. PICK D : Consistent(D)
    BY DEF Inv
  <1>2. src \in Sources /\ codes \in Seq(OpSet) /\ Len(codes) \in Nat
        /\ DOMAIN codes = 1 .. Len(codes)
    BY DEF Inv, Shape
  <1>3. ASSUME NEW op \in OpSet
        PROVE  WellFormed(op) /\ (op.typ \in Jumps => op.offset \in ShortW)
    <2>1. \A n \in ShortW : n \in Int
      BY ShortHalfAssumption DEF ShortW
    <2>2. QED
      BY <2>1 DEF OpSet, WellFormed, OpCodeType, Jumps
  <1>4. \A i \in DOMAIN codes :
          WellFormed(codes[i]) /\ (codes[i].typ \in Jumps => codes[i].offset \in ShortW)
    BY <1>2, <1>3
  <1>5. \A h \in Holes : h \in DOMAIN codes /\ codes[h].typ \in Jumps
    BY <1>1, <1>2 DEF Consistent, Lands
  <1>6. stmts_end \in 0 .. (Len(codes) + 1)
    BY <1>1, <1>2 DEF Consistent, EndLands
  <1>7. QED
    BY <1>2, <1>4, <1>5, <1>6 DEF TypeOK

LEMMA InvBalanced ==
  ASSUME Inv PROVE LandingsBalanced
  <1>1. PICK D : Consistent(D)
    BY DEF Inv
  <1>2. Shape /\ codes \in Seq(OpSet) /\ DOMAIN codes = 1 .. Len(codes)
    BY DEF Inv, Shape
  <1>3. PrefixDepth(codes) = [i \in DOMAIN codes |-> D[i]]
    BY <1>1, <1>2, PrefixIsDepth DEF Consistent
  <1>4. ASSUME OffsetsFit, NEW t \in Landings \cap DOMAIN codes
        PROVE  PrefixDepth(codes)[t] = 0
    <2>1. t \in Landings /\ t \in DOMAIN codes /\ t \in 1 .. Len(codes)
      BY <1>2
    <2>2. (t \in 1 .. (Len(codes) + 1) /\ D[t] = 0) \/ t <= 0
      BY <1>1, <1>2, <1>4, <2>1, LandingDepth
    <2>3. QED
      BY <1>3, <2>1, <2>2
  <1>5. QED
    BY <1>4 DEF LandingsBalanced

LEMMA InvPut ==
  ASSUME Inv PROVE PutHasOperand
  <1>1. PICK D : Consistent(D)
    BY DEF Inv
  <1>2. codes \in Seq(OpSet) /\ DOMAIN codes = 1 .. Len(codes)
    BY DEF Inv, Shape
  <1>3. PrefixDepth(codes) = [i \in DOMAIN codes |-> D[i]]
    BY <1>1, <1>2, PrefixIsDepth DEF Consistent
  <1>4. \A i \in DOMAIN codes : codes[i].typ = "PUT" => D[i] >= 1
    <2>1. \A i \in 1 .. Len(codes) : Operands(codes[i].typ) <= D[i]
      BY <1>1 DEF Consistent, Certifies
    <2>2. Operands("PUT") = 1
      BY DEF Operands
    <2>3. \A i \in 1 .. Len(codes) : D[i] \in Nat
      <3>1. \A i \in 1 .. Len(codes) : i \in 1 .. (Len(codes) + 1)
        BY <1>2
      <3>2. D \in [1 .. (Len(codes) + 1) -> Nat]
        BY <1>1 DEF Consistent, Certifies
      <3>3. QED
        BY <3>1, <3>2
    <2>4. QED
      BY <1>2, <2>1, <2>2, <2>3
  <1>5. QED
    BY <1>3, <1>4 DEF PutHasOperand

(* Finished code has a certificate: no hole is left, so every jump lands.   *)
LEMMA InvCertified ==
  ASSUME Inv, Done, OffsetsFit
  PROVE  Certified(codes, PrefixDepth(codes), Len(codes))
  <1> DEFINE N == Len(codes)
  <1>1. PICK D : Consistent(D)
    BY DEF Inv
  <1>2. Shape /\ codes \in Seq(OpSet) /\ N \in Nat /\ DOMAIN codes = 1 .. N /\ N <= ShortHalf
    BY DEF Inv, Shape, OffsetsFit
  <1>3. PrefixDepth(codes) = [i \in DOMAIN codes |-> D[i]]
    BY <1>1, <1>2, PrefixIsDepth DEF Consistent
  <1>4. At(D) = Finished
    <2>1. Follows(<<>>, At(D), Finished)
      BY <1>1 DEF Consistent, Done
    <2>2. QED
      BY <2>1 DEF Follows
  <1>5. EndsHalted(codes) /\ Len(holes) = 0
    <2>1. At(D).halts = 1 /\ At(D).holes = 0
      BY <1>4 DEF Finished
    <2>2. At(D).halts = (IF EndsHalted(codes) THEN 1 ELSE 0) /\ At(D).holes = Len(holes)
      BY DEF At
    <2>3. QED
      BY <2>1, <2>2
  <1>6. Holes = {}
    <2>1. DOMAIN holes = {}
      BY <1>2, <1>5 DEF Shape
    <2>2. QED
      BY <2>1 DEF Holes
  <1>7. N >= 1 /\ codes[N].typ = "HALT" /\ Addresses(codes) = 1 .. N
    BY <1>2, <1>5 DEF EndsHalted, Addresses
  <1>8. /\ D \in [1 .. (N + 1) -> Nat] /\ D[1] = 0
        /\ \A i \in 1 .. (N + 1) : D[i] < i
        /\ \A i \in 1 .. N : /\ Operands(codes[i].typ) <= D[i]
                             /\ D[i + 1] = D[i] - get_stack_delta(codes[i].typ)
                             /\ codes[i].typ = "HALT" => i = N
    BY <1>1 DEF Consistent, Certifies
  <1>9. [i \in DOMAIN codes |-> D[i]] \in [DOMAIN codes -> 0 .. N]
    <2>1. \A i \in 1 .. N : i \in 1 .. (N + 1) /\ i <= N
      BY <1>2
    <2>2. \A i \in 1 .. N : D[i] \in 0 .. N
      <3> TAKE i \in 1 .. N
      <3>1. D[i] \in Nat /\ D[i] < i /\ i <= N
        BY <1>8, <2>1
      <3>2. QED
        BY <1>2, <3>1
    <2>3. QED
      BY <1>2, <2>2
  <1>10. ASSUME NEW i \in DOMAIN codes, NEW j \in Successors(i, codes[i])
         PROVE  j \in 1 .. N /\ D[j] = D[i] - get_stack_delta(codes[i].typ)
    <2>1. i \in 1 .. N /\ D[i + 1] = D[i] - get_stack_delta(codes[i].typ)
      BY <1>2, <1>8
    <2>2. CASE j = i + 1 /\ codes[i].typ # "HALT"
      <3>1. i # N
        BY <1>7, <2>2
      <3>2. QED
        BY <1>2, <2>1, <2>2, <3>1
    <2>3. CASE j = i + codes[i].offset /\ codes[i].typ \in Jumps
      <3>1. i \notin Holes
        BY <1>6
      <3>2. D[i + 1] = 0 /\ \E u \in Addresses(codes) :
                              D[u] = 0 /\ codes[i].offset = ToShort(u - i)
        BY <1>1, <2>1, <2>3, <3>1 DEF Consistent, Lands
      <3>3. PICK u \in 1 .. N : D[u] = 0 /\ codes[i].offset = ToShort(u - i)
        BY <1>7, <3>2
      <3>4. u \in 1 .. (N + 1) /\ u # N + 1
        BY <1>2
      <3>5. i + ToShort(u - i) = u
        BY <1>2, <2>1, <3>4, ShortFits
      <3>6. QED
        BY <2>1, <2>3, <3>2, <3>3, <3>5
    <2>4. QED
      BY <2>2, <2>3 DEF Successors, Jumps
  <1>11. \A i \in DOMAIN codes : WellFormed(codes[i])
    BY InvTypeOK DEF TypeOK
  <1> DEFINE P == [i \in DOMAIN codes |-> D[i]]
  <1>12. 1 \in DOMAIN codes /\ P[1] = 0
    BY <1>2, <1>7, <1>8
  <1>13. \A i \in DOMAIN codes : P[i] = D[i]
    OBVIOUS
  <1>14. P = PrefixDepth(codes) /\ P \in [DOMAIN codes -> 0 .. N]
    BY <1>3, <1>9
  <1> HIDE DEF P
  <1>15. \A i \in DOMAIN codes : Operands(codes[i].typ) <= P[i]
    BY <1>2, <1>8, <1>13
  <1>16. \A i \in DOMAIN codes : \A j \in Successors(i, codes[i]) :
           j \in DOMAIN codes /\ P[j] = P[i] - get_stack_delta(codes[i].typ)
    BY <1>2, <1>10, <1>13
  <1>17. QED
    BY <1>11, <1>12, <1>14, <1>15, <1>16 DEF Certified

(* So it has one for a smaller stack that is deep enough.                   *)
LEMMA InvFits ==
  ASSUME Inv, Done, OffsetsFit, NEW capacity \in Nat,
         \A i \in DOMAIN codes : PrefixDepth(codes)[i] <= capacity
  PROVE  Certified(codes, PrefixDepth(codes), capacity)
  <1> DEFINE P == PrefixDepth(codes)
  <1>1. Certified(codes, P, Len(codes))
    BY InvCertified
  <1> HIDE DEF P
  <1>2. P \in [DOMAIN codes -> 0 .. Len(codes)]
    BY <1>1 DEF Certified
  <1>3. Len(codes) \in Nat
    BY DEF Inv, Shape
  <1>4. \A i \in DOMAIN codes : P[i] <= capacity
    BY DEF P
  <1>5. \A i \in DOMAIN codes : P[i] \in 0 .. capacity
    BY <1>2, <1>3, <1>4
  <1>6. P \in [DOMAIN codes -> 0 .. capacity]
    BY <1>2, <1>5
  <1>7. Certified(codes, P, capacity)
    BY <1>1, <1>6 DEF Certified
  <1>8. QED
    BY <1>7 DEF P

(* A program stops with nothing on the stack.                               *)
LEMMA InvHalt ==
  ASSUME Inv, Done, NEW i \in DOMAIN codes, codes[i].typ = "HALT"
  PROVE  PrefixDepth(codes)[i] = 0
  <1> DEFINE N == Len(codes)
  <1>1. PICK D : Consistent(D)
    BY DEF Inv
  <1>2. codes \in Seq(OpSet) /\ N \in Nat /\ DOMAIN codes = 1 .. N
    BY DEF Inv, Shape
  <1>3. PrefixDepth(codes) = [j \in DOMAIN codes |-> D[j]]
    BY <1>1, <1>2, PrefixIsDepth DEF Consistent
  <1>4. D[N + 1] = 0
    <2>1. Follows(<<>>, At(D), Finished)
      BY <1>1 DEF Consistent, Done
    <2>2. At(D) = Finished
      BY <2>1 DEF Follows
    <2>3. QED
      BY <2>2 DEF At, Finished
  <1>5. /\ i = N
        /\ D[i + 1] = D[i] - get_stack_delta("HALT")
    BY <1>1, <1>2 DEF Consistent, Certifies
  <1>6. get_stack_delta("HALT") = 0
    BY DEF get_stack_delta
  <1>7. D[i] \in Nat
    <2>1. i \in 1 .. (N + 1)
      BY <1>2, <1>5
    <2>2. D \in [1 .. (N + 1) -> Nat]
      BY <1>1 DEF Consistent, Certifies
    <2>3. QED
      BY <2>1, <2>2
  <1>8. D[i] = 0
    BY <1>4, <1>5, <1>6, <1>7
  <1>9. QED
    BY <1>3, <1>8

(* A store that is fused replaces instructions that put something on the    *)
(* stack; where a jump leads there is nothing on it.                        *)
LEMMA InvStops ==
  ASSUME Inv, [Next]_vars, Call("gen_store_operand"), codes' # codes, OffsetsFit,
         NEW a \in Landings
  PROVE  a <= Len(codes')
  <1> DEFINE N == Len(codes)
  <1>1. todo # <<>> /\ Head(todo).call = "gen_store_operand"
    BY DEF Call
  <1>2. PICK D, t : Starts(D, t)
    BY <1>1, StepStart
  <1>3. gen_store_operand
    BY <1>1 DEF Next, vars, emit, emit_jump, mark_end, gen_expr, gen_terms,
                gen_load_operand, gen_stmts, patch_skip, patch_loop, Call
  <1>4. PICK x : StoreInt(x)
    BY <1>3 DEF gen_store_operand
  <1>5. codes \in Seq(OpSet) /\ N \in Nat /\ Shape /\ Consistent(D)
    BY <1>2 DEF Inv, Shape, Starts
  <1>6. D[N + 1] \in Nat /\ D[N + 1] >= 1
    BY <1>1, <1>2 DEF Allowed, Starts
  <1>7. a \in Int /\ ((a \in 1 .. (N + 1) /\ D[a] = 0) \/ a <= 0)
    BY <1>5, LandingDepth
  <1>8. a <= N
    BY <1>5, <1>6, <1>7
  <1>9. ASSUME NEW k \in 0 .. N, NEW op, Fuse(k, op) PROVE Len(codes') = N - k + 1
    <2>1. N - k \in 0 .. N
      BY <1>5
    <2>2. SubSeq(codes, 1, N - k) \in Seq(OpSet) /\ Len(SubSeq(codes, 1, N - k)) = N - k
      <3>1. \A i \in 1 .. (N - k) : i \in 1 .. N
        BY <1>5, <2>1
      <3>2. \A i \in 1 .. (N - k) : codes[i] \in OpSet
        BY <1>5, <3>1
      <3>3. QED
        BY <1>5, <2>1, <3>2
    <2>3. QED
      BY <1>9, <2>1, <2>2 DEF Fuse
  <1>10. \A i \in 1 .. N : /\ Operands(codes[i].typ) <= D[i]
                           /\ D[i + 1] = D[i] - get_stack_delta(codes[i].typ)
    BY <1>5 DEF Consistent, Certifies
  <1>11. CASE FusesInci(x) /\ \E op : Fuse(2, op)
    <2>1. N >= 2 /\ codes[N].typ = "INCR"
      BY <1>11 DEF FusesInci
    <2>2. N \in 1 .. N /\ 2 \in 0 .. N
      BY <1>5, <2>1
    <2>3. Operands("INCR") <= D[N]
      BY <1>10, <2>1, <2>2
    <2>4. D[N] # 0
      BY <2>3, OperandCounts
    <2>5. a <= N - 1
      <3>1. a # N
        BY <1>7, <2>1, <2>4
      <3>2. QED
        BY <1>5, <1>7, <1>8, <3>1
    <2>6. Len(codes') = N - 2 + 1
      BY <1>9, <1>11, <2>2
    <2>7. QED
      BY <1>5, <2>5, <2>6
  <1>12. CASE FusesSeti /\ \E op : Fuse(1, op)
    <2>1. 1 \in 0 .. N
      BY <1>5, <1>12 DEF FusesSeti
    <2>2. Len(codes') = N - 1 + 1
      BY <1>9, <1>12, <2>1
    <2>3. QED
      BY <1>5, <1>8, <2>2
  <1>13. CASE \E op : Fuse(0, op)
    <2>1. 0 \in 0 .. N
      BY <1>5
    <2>2. Len(codes') = N - 0 + 1
      BY <1>9, <1>13, <2>1
    <2>3. QED
      BY <1>5, <1>7, <1>8, <2>2
  <1>14. QED
    BY <1>4, <1>11, <1>12, <1>13 DEF StoreInt

(* The instructions that codegen.c writes hold operands of their C types,   *)
(* and what is remembered to be patched are addresses of jumps.             *)
THEOREM TypeCorrect ==
  ASSUME NoneVanishes PROVE Spec => []TypeOK
  <1>1. Inv => TypeOK
    BY InvTypeOK
  <1>2. QED
    BY <1>1, Safety, PTL

(* The code codegen.c hands to the machine has the certificate that the     *)
(* machine, which checks nothing, depends on.                               *)
THEOREM CodeIsCertified ==
  ASSUME NoneVanishes PROVE Spec => []CodeCertified
  <1>1. Inv => CodeCertified
    BY InvCertified DEF CodeCertified
  <1>2. QED
    BY <1>1, Safety, PTL

(* A jump that gen_stmts emits or patches leads to an address where there   *)
(* is nothing on the stack.                                                 *)
THEOREM LandingsAreBalanced ==
  ASSUME NoneVanishes PROVE Spec => []LandingsBalanced
  <1>1. Inv => LandingsBalanced
    BY InvBalanced
  <1>2. QED
    BY <1>1, Safety, PTL

(* PUT finds the number that opcodes.h says it pops.                        *)
THEOREM PutFindsItsOperand ==
  ASSUME NoneVanishes PROVE Spec => []PutHasOperand
  <1>1. Inv => PutHasOperand
    BY InvPut
  <1>2. QED
    BY <1>1, Safety, PTL

(* gen_store_operand replaces no instruction in front of an address that a  *)
(* jump leads to.                                                           *)
THEOREM FusionStops ==
  ASSUME NoneVanishes PROVE Spec => FusionStopsAtLandings
  <1>1. Inv /\ [Next]_vars =>
          [Call("gen_store_operand") /\ codes' # codes /\ OffsetsFit =>
             \A t \in Landings : t <= Len(codes')]_vars
    BY InvStops
  <1>2. QED
    BY <1>1, Safety, PTL DEF Spec, FusionStopsAtLandings
=============================================================================
