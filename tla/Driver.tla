------------------------------- MODULE Driver -------------------------------
(***************************************************************************)
(* test() of main.c from the characters of a program to what it prints:    *)
(* the lexer, the parser, and then both builds on the same tree (Backends).*)
(* Each part starts on what the one before it has left.                    *)
(***************************************************************************)
EXTENDS Ast, SequencesExt

CONSTANTS
  Sources,   \* the programs, with their characters in the field chars
  Alpha, Digit, Space,
  OperandEq(_, _), Exprs, Nested(_), Undef, ShortHalf, Cap, Garbage

VARIABLES
  source, ch_pos, lexToks, lexStatus,                    \* the lexer
  toks, pos, var_decls, todo, built, status,             \* the parser
  src, iTodo, iInts, iArrs, iOut, iStatus,               \* the interpreter
  codes, gTodo, holes, stmts_end,                        \* the code generator
  pc, top, bottom, vInts, vArrs, vOut, vStatus           \* the virtual machine

lexer    == <<source, ch_pos, lexToks, lexStatus>>
parser   == <<toks, pos, var_decls, todo, built, status>>
backends == <<src, iTodo, iInts, iArrs, iOut, iStatus, codes, gTodo, holes,
              stmts_end, pc, top, bottom, vInts, vArrs, vOut, vStatus>>
vars     == <<lexer, parser, backends>>

Chars(program) == program.chars
None(p) == {}
Never(p) == FALSE

L == INSTANCE Lexer WITH toks <- lexToks, status <- lexStatus, MaxToks <- 0
P == INSTANCE Parser WITH
       text <- source, Texts <- {}, Tokens <- None, MaxStmts <- 0
B == INSTANCE Backends WITH
       Sources <- {}, Stmts <- {}, Cancels <- Never, EmptyOver <- None

-----------------------------------------------------------------------------
DigitValue == [d \in {"0","1","2","3","4","5","6","7","8","9"} |->
                 CASE d = "0" -> 0 [] d = "1" -> 1 [] d = "2" -> 2 [] d = "3" -> 3
                   [] d = "4" -> 4 [] d = "5" -> 5 [] d = "6" -> 6 [] d = "7" -> 7
                   [] d = "8" -> 8 [] d = "9" -> 9]

(* Mutant: the digits before the last one do not count tenfold.             *)
atoi_Sum(str) == FoldLeft(LAMBDA n, d : n + DigitValue[d], 0, str)

atoi(str) == FoldLeft(LAMBDA n, d : 10 * n + DigitValue[d], 0, str)

(* Mutant: in the order of the table of keywords.                           *)
CmpTokens_AsKeywords == <<"CMP_LT", "CMP_GT", "CMP_NEQ", "CMP_GE", "CMP_LE", "CMP_EQ">>

(* The order of the comparisons in cyr_toks.h.                              *)
CmpTokens == <<"CMP_LT", "CMP_EQ", "CMP_LE", "CMP_GT", "CMP_NEQ", "CMP_GE">>

(* type - TOK_CMP_LT + 1, as the set of its bits.                           *)
CmpOf(type) ==
  LET n == CHOOSE i \in DOMAIN CmpTokens : CmpTokens[i] = type
  IN  {b \in 0 .. 2 : (n \div (2 ^ b)) % 2 = 1}

(* A token as the parser reads it: atoi of its str, its interned str, the   *)
(* comparison its type stands for.                                          *)
AsRead(tok) ==
  CASE tok.type = "INT" -> [type |-> "INT", num |-> atoi(tok.str)]
    [] tok.type = "IDENT" -> [type |-> "IDENT", name |-> tok.str]
    [] tok.type \in ToSet(CmpTokens) -> [type |-> "CMP", cmp |-> CmpOf(tok.type)]
    [] OTHER -> [type |-> tok.type]

Init ==
  /\ L!Init
  /\ P!parser_init /\ toks = <<>>
  /\ B!I!interpreter_init /\ B!G!cg_init /\ B!V!Boot
  /\ src = <<>> /\ iTodo = <<>> /\ gTodo = <<>>

lexer_tokenize ==
  /\ L!lexer_tokenize
  /\ UNCHANGED <<parser, backends>>

parser_init ==
  /\ lexStatus = "done" /\ toks = <<>>
  /\ toks' = [i \in DOMAIN lexToks |-> AsRead(lexToks[i])]
  /\ UNCHANGED <<lexer, pos, var_decls, todo, built, status, backends>>

parser_parse ==
  /\ toks # <<>>
  /\ P!Next
  /\ UNCHANGED <<lexer, backends>>

(* The statements of the parser go to the interpreter or the generator.     *)
Handed == src # <<>>
backend_init ==
  /\ P!Done /\ ~Handed
  /\ src' = P!stmts
  /\ iTodo' = B!I!interpreter_execute(src')
  /\ gTodo' = B!G!cg_gen(src')
  /\ UNCHANGED <<lexer, parser, iInts, iArrs, iOut, iStatus, codes, holes,
                 stmts_end, pc, top, bottom, vInts, vArrs, vOut, vStatus>>

execute ==
  /\ Handed
  /\ B!Next
  /\ UNCHANGED <<lexer, parser>>

Next == lexer_tokenize \/ parser_init \/ parser_parse \/ backend_init \/ execute

(* Each build is one thread that runs until its main returns.               *)
Spec == Init /\ [][Next]_vars /\ WF_vars(Next)

-----------------------------------------------------------------------------
(* The variables the back ends are given are the ones that were declared,   *)
(* at the places where the operands say they are.                           *)
DeclaredAsAssumed ==
  Handed =>
    /\ IntVars = {i \in DOMAIN var_decls : var_decls[i].typ = "VAR_INT"}
    /\ ArrVars = {i \in DOMAIN var_decls : var_decls[i].typ = "VAR_ARR"}
    /\ \A a \in ArrVars : var_decls[a].start = Start[a] /\ var_decls[a].end = End[a]

(* Whoever writes a program whose loops are regular and end and whose       *)
(* indices are in range sees it end in both builds.                         *)
BothBuildsEnd == <>(iStatus = "halted" /\ vStatus = "halted")
=============================================================================
