----------------------------- MODULE Interpreter -----------------------------
(***************************************************************************)
(* The tree-walking interpreter of interpreter.c.  eval_expr has no side   *)
(* effects and nothing runs beside it, so an evaluation is one step; the   *)
(* recursion of execute_stmts is made explicit in todo, the statements and *)
(* loops that remain, innermost first.                                     *)
(*                                                                         *)
(* An array index is not checked.  The model goes to status "undefined"    *)
(* where C gives an access no meaning, and stays there.                    *)
(***************************************************************************)
EXTENDS Trees

CONSTANTS
  Undef,     \* the value of an expression C gives no meaning to
  Nested(_)  \* how deep the indices of an expression nest

ASSUME UndefAssumption == Undef \notin IntW

(* Trees are finite: an index nests less deep than what it is a part of.    *)
ASSUME NestedAssumption ==
  \A e \in Exprs :
    /\ Nested(e) \in Nat
    /\ \A i \in DOMAIN e.terms :
         LET o == e.terms[i].operand IN
         o.typ = "ARR_ELEM" => Nested(o.idx) < Nested(e)

VARIABLES
  src,       \* interpreter->stmts
  todo,
  ints,      \* data.i.val of every int variable
  arrs,      \* data.a.arr of every array variable
  out,       \* the numbers printed so far
  status     \* "running", "halted" or "undefined"

vars == <<src, todo, ints, arrs, out, status>>

-----------------------------------------------------------------------------
(* The operand that value v of its index leads to, read.                    *)
ReadElem(a, idx) ==
  IF idx # Undef /\ CellOf(a, idx) \in Cells(a)
  THEN arrs[a][CellOf(a, idx)]
  ELSE Undef

(* The loop of eval_expr over the terms, whose operands have these values.  *)
SumTerms(e, values) ==
  LET res[n \in 0 .. Len(e.terms)] ==
        IF n = 0 THEN e.constant
        ELSE IF res[n - 1] = Undef \/ values[n] = Undef THEN Undef
        ELSE Wrap(res[n - 1] + values[n] * e.terms[n].coefficient)
  IN  res[Len(e.terms)]

(* eval_expr and operand_read call each other.                              *)
eval_expr ==
  LET value[e \in Exprs] ==
        LET operand_read(o) == IF o.typ = "INT_VAR" THEN ints[o.decl]
                               ELSE ReadElem(o.decl, value[o.idx])
        IN  SumTerms(e, [i \in DOMAIN e.terms |-> operand_read(e.terms[i].operand)])
  IN  value

HasValue(e) == eval_expr[e] # Undef

(* operand_get_ref yields the address of a variable or of an array element. *)
HasRef(o) ==
  o.typ = "ARR_ELEM" =>
    HasValue(o.idx) /\ CellOf(o.decl, eval_expr[o.idx]) \in Cells(o.decl)

operand_write(o, val) ==
  \/ /\ o.typ = "INT_VAR"
     /\ ints' = [ints EXCEPT ![o.decl] = val]
     /\ UNCHANGED arrs
  \/ /\ o.typ = "ARR_ELEM"
     /\ arrs' = SetCell(arrs, o.decl, eval_expr[o.idx], val)
     /\ UNCHANGED ints

execute_cond(cond) ==
  do_cmp(cond.typ, eval_expr[cond.left], eval_expr[cond.right])

-----------------------------------------------------------------------------
ExecuteStmts(ss) == [call |-> "execute_stmts", stmts |-> ss]

(* The for loop of execute_hor about to test i against end.                 *)
HorLoop(s, i, end) ==
  [call |-> "hor_loop", var |-> s.var, i |-> i, end |-> end, stmts |-> s.stmts]

interpreter_execute(ss) == <<ExecuteStmts(ss)>>

interpreter_init ==
  /\ ints = InitInts
  /\ arrs = InitArrs
  /\ out = <<>>
  /\ status = "running"

Init == src \in Sources /\ todo = interpreter_execute(src) /\ interpreter_init

Frame == Head(todo)
Active(call) == status = "running" /\ todo # <<>> /\ Frame.call = call
AtStmt == Active("execute_stmts") /\ Frame.stmts # <<>>
Stmt == Head(Frame.stmts)

(* Every value and address the current step asks for exists.                *)
StepDefined ==
  /\ AtStmt =>
       /\ Stmt.typ = "YOSORO" => HasValue(Stmt.expr)
       /\ Stmt.typ = "SET" => HasValue(Stmt.expr) /\ HasRef(Stmt.operand)
       /\ Stmt.typ \in {"IHU", "WHILE"} =>
            HasValue(Stmt.cond.left) /\ HasValue(Stmt.cond.right)
       /\ Stmt.typ = "HOR" => HasValue(Stmt.start) /\ HasValue(Stmt.end)
  /\ Active("hor_loop") /\ Frame.i <= Frame.end => HasRef(Frame.var)

Execute(typ) == AtStmt /\ Stmt.typ = typ /\ StepDefined /\ UNCHANGED <<src, status>>

(* The statement is replaced by the calls it makes.                         *)
Continue(calls) ==
  todo' = calls \o <<ExecuteStmts(Tail(Frame.stmts))>> \o Tail(todo)

execute_yosoro ==
  /\ Execute("YOSORO")
  /\ out' = Append(out, eval_expr[Stmt.expr])
  /\ Continue(<<>>) /\ UNCHANGED <<ints, arrs>>

execute_set ==
  /\ Execute("SET")
  /\ operand_write(Stmt.operand, eval_expr[Stmt.expr])
  /\ Continue(<<>>) /\ UNCHANGED out

execute_ihu ==
  /\ Execute("IHU")
  /\ Continue(IF execute_cond(Stmt.cond) THEN <<ExecuteStmts(Stmt.stmts)>> ELSE <<>>)
  /\ UNCHANGED <<ints, arrs, out>>

(* One test of the condition; the loop is still the current statement when  *)
(* its body returns.                                                        *)
execute_while ==
  /\ Execute("WHILE")
  /\ \/ execute_cond(Stmt.cond) /\ todo' = <<ExecuteStmts(Stmt.stmts)>> \o todo
     \/ ~execute_cond(Stmt.cond) /\ Continue(<<>>)
  /\ UNCHANGED <<ints, arrs, out>>

(* Mutant: like a while statement, it stays the current statement.          *)
execute_hor_Again ==
  /\ Execute("HOR")
  /\ todo' = <<HorLoop(Stmt, eval_expr[Stmt.start], eval_expr[Stmt.end])>> \o todo
  /\ UNCHANGED <<ints, arrs, out>>

(* Both bounds are evaluated before the loop starts, and only then.         *)
execute_hor ==
  /\ Execute("HOR")
  /\ Continue(<<HorLoop(Stmt, eval_expr[Stmt.start], eval_expr[Stmt.end])>>)
  /\ UNCHANGED <<ints, arrs, out>>

(* Mutant: the counter has more bits than an int.                           *)
NextCounter_Wide(i) == i + 1

NextCounter(i) == Wrap(i + 1)

(* i belongs to the C function: what the body does to var does not count.   *)
(* C gives no meaning to i++ at the greatest int; a build may go on from    *)
(* the least one or leave the loop.                                         *)
hor_loop ==
  /\ Active("hor_loop") /\ StepDefined
  /\ \/ /\ Frame.i <= Frame.end
        /\ operand_write(Frame.var, Frame.i)
        /\ \/ todo' = <<ExecuteStmts(Frame.stmts), [Frame EXCEPT !.i = NextCounter(@)]>>
                      \o Tail(todo)
           \/ /\ Frame.i = Half - 1
              /\ todo' = <<ExecuteStmts(Frame.stmts)>> \o Tail(todo)
     \/ /\ Frame.i > Frame.end
        /\ todo' = Tail(todo)
        /\ UNCHANGED <<ints, arrs>>
  /\ UNCHANGED <<src, out, status>>

execute_stmts_return ==
  /\ Active("execute_stmts") /\ Frame.stmts = <<>>
  /\ todo' = Tail(todo)
  /\ UNCHANGED <<src, ints, arrs, out, status>>

interpreter_execute_return ==
  /\ status = "running" /\ todo = <<>>
  /\ status' = "halted"
  /\ UNCHANGED <<src, todo, ints, arrs, out>>

Fault ==
  /\ status = "running"
  /\ ~StepDefined
  /\ status' = "undefined"
  /\ UNCHANGED <<src, todo, ints, arrs, out>>

Next ==
  \/ execute_yosoro \/ execute_set \/ execute_ihu \/ execute_while
  \/ execute_hor \/ hor_loop
  \/ execute_stmts_return \/ interpreter_execute_return
  \/ Fault

(* One thread that runs until interpreter_execute returns.                  *)
Spec == Init /\ [][Next]_vars /\ WF_vars(Next)

-----------------------------------------------------------------------------
(* The variables and the C locals of the active calls hold ints, also when  *)
(* sums overflow and a loop counts up to the greatest int.                  *)
TypeOK ==
  /\ src \in Sources
  /\ ints \in IntStore
  /\ IsArrStore(arrs)
  /\ out \in Seq(IntW)
  /\ status \in {"running", "halted", "undefined"}
  /\ \A i \in DOMAIN todo :
       todo[i].call = "hor_loop" => todo[i].i \in IntW /\ todo[i].end \in IntW

ToGreatestInt ==
  \E i \in DOMAIN todo : todo[i].call = "hor_loop" /\ todo[i].end = Half - 1

(* Only a while statement makes a program run for ever: hor loops end       *)
(* whatever their bodies do to their own variable and bounds, unless one is *)
(* to run up to the greatest int.                                           *)
OnlyWhileRunsForever ==
  \/ <>(status # "running" \/ ToGreatestInt)
  \/ []<>(AtStmt /\ Stmt.typ = "WHILE")
=============================================================================
