-------------------------------- MODULE Parser --------------------------------
(***************************************************************************)
(* The recursive descent of parser.c over the tokens of a program.         *)
(*                                                                         *)
(* todo is what is left of the calls on the C stack, first call first.     *)
(* The C functions fill in structures they are given pointers to; here the *)
(* parts that are finished wait in built, innermost last, until the call   *)
(* that makes a node of them.                                              *)
(***************************************************************************)
EXTENDS Terms

CONSTANTS
  Texts,      \* the programs
  Tokens(_),  \* what the lexer makes of a program
  MaxStmts    \* how many statements that were never filled in are counted

(* Numbers and comparisons are read as such, and the lexer appends TOK_EOF  *)
(* when it has come to the end.                                             *)
ASSUME TokensAssumption ==
  \A t \in Texts :
    LET ts == Tokens(t) IN
    /\ ts \in Seq({ts[i] : i \in DOMAIN ts})
    /\ \A i \in DOMAIN ts :
         /\ ts[i].type # "NULL"
         /\ ts[i].type = "EOF" => i = Len(ts)
         /\ ts[i].type = "INT" => ts[i].num \in Int
         /\ ts[i].type = "CMP" => ts[i].cmp \in CmpType

VARIABLES
  text,
  toks,       \* parser->toks
  pos,        \* parser->pos, 1-based
  var_decls,  \* parser->var_decls
  todo,
  built,      \* the statements of every open block, and the parts of the
              \* statement and of the expressions being parsed
  status      \* "parsing" or "crashed", by following a null pointer

vars == <<text, toks, pos, var_decls, todo, built, status>>

-----------------------------------------------------------------------------
(* current_token and peek_token yield NULL past the last token.             *)
NULL == [type |-> "NULL"]
TokenAt(i) == IF i \in DOMAIN toks THEN toks[i] ELSE NULL
Token == TokenAt(pos)
match_token(type) == Token.type = type
AtEnd == Token.type \in {"NULL", "EOF"}

is_expr_end ==
  Token.type \in {"NULL", "EOF", "COLON", "COMMA", "LBRACE", "RBRACE",
                  "LBRACKET", "RBRACKET"}

(* Mutant: atoi is given numbers only.                                      *)
HasText_Numbers(tok) == tok.type = "INT"

(* A token stands for its str, which is interned; the one of TOK_EOF is     *)
(* NULL.                                                                    *)
HasText(tok) == tok.type \notin {"NULL", "EOF"}
atoi(tok) == IF tok.type = "INT" THEN tok.num ELSE 0

NotFound == 65535
operand_finder(tok) ==
  LET found == {i \in DOMAIN var_decls : var_decls[i].name = tok}
  IN  IF found = {} THEN NotFound ELSE Min(found)

DeclIdx == [i \in DOMAIN var_decls \cup {NotFound} |-> i]

-----------------------------------------------------------------------------
(* The calls.                                                               *)
Do(call)           == [call |-> call]
Consume            == Do("consume_token")
ParseOperand       == Do("parse_operand")
ParseExpr          == Do("parse_expr")
AddOperand(sign)   == [call |-> "terms_add_operand", sign |-> sign]
MakeElem(decl)     == [call |-> "make_elem", decl |-> decl]
MakeStmt(typ, n)   == [call |-> "make_stmt", typ |-> typ, parts |-> n]
ParseCond          == <<Do("cmp_type"), Consume, ParseExpr, Consume, ParseExpr>>
ParseBlk           == <<Do("da_init"), Do("parse_blk"), Consume>>

parser_init ==
  /\ pos = 1
  /\ var_decls = <<>>
  /\ todo = <<Do("da_init"), Do("parser_parse")>>
  /\ built = <<>>
  /\ status = "parsing"

Init == text \in Texts /\ toks = Tokens(text) /\ parser_init

Call(name) == status = "parsing" /\ todo # <<>> /\ Head(todo).call = name
Becomes(calls) == todo' = calls \o Tail(todo) /\ UNCHANGED <<text, toks, status>>
Push(part) == built' = Append(built, part)
Top == Last(built)

Crash ==
  /\ status' = "crashed"
  /\ UNCHANGED <<text, toks, pos, var_decls, todo, built>>

consume_token ==
  /\ Call("consume_token")
  /\ pos' = pos + 1
  /\ Becomes(<<>>) /\ UNCHANGED <<var_decls, built>>

da_init ==
  /\ Call("da_init")
  /\ Push(<<>>)
  /\ Becomes(<<>>) /\ UNCHANGED <<pos, var_decls>>

-----------------------------------------------------------------------------
(* Expressions.                                                             *)
parse_operand ==
  /\ Call("parse_operand")
  /\ \/ /\ Token = NULL
        /\ Crash
     \/ /\ Token # NULL /\ TokenAt(pos + 1).type = "LBRACKET"
        /\ pos' = pos + 2
        /\ Becomes(<<ParseExpr, Consume, MakeElem(operand_finder(Token))>>)
        /\ UNCHANGED <<var_decls, built>>
     \/ /\ Token # NULL /\ TokenAt(pos + 1).type # "LBRACKET"
        /\ pos' = pos + 1
        /\ Push(IntVar(operand_finder(Token)))
        /\ Becomes(<<>>) /\ UNCHANGED var_decls

make_elem ==
  /\ Call("make_elem")
  /\ built' = Append(Front(built), ArrElem(Head(todo).decl, Top))
  /\ Becomes(<<>>) /\ UNCHANGED <<pos, var_decls>>

parse_expr ==
  /\ Call("parse_expr")
  /\ Push(Expr(0, <<>>))
  /\ Becomes(<<Do("parse_term")>>) /\ UNCHANGED <<pos, var_decls>>

Sign == IF match_token("MINUS") THEN -1 ELSE 1
TermPos == IF match_token("PLUS") \/ match_token("MINUS") THEN pos + 1 ELSE pos

(* The loop of parse_expr: a number, an operand or the end.                 *)
parse_term ==
  /\ Call("parse_term")
  /\ LET tok == TokenAt(TermPos) IN
     \/ /\ is_expr_end
        /\ \E e \in optimize_expr(Top, DeclIdx) : built' = Append(Front(built), e)
        /\ Becomes(<<>>) /\ UNCHANGED pos
     \/ /\ ~is_expr_end /\ tok = NULL
        /\ Crash
     \/ /\ ~is_expr_end /\ tok.type = "INT"
        /\ built' = Append(Front(built),
                           [Top EXCEPT !.constant = Wrap(@ + atoi(tok) * Sign)])
        /\ pos' = TermPos + 1
        /\ UNCHANGED <<text, toks, todo, status>>
     \/ /\ ~is_expr_end /\ tok # NULL /\ tok.type # "INT"
        /\ pos' = TermPos
        /\ todo' = <<ParseOperand, AddOperand(Sign)>> \o todo
        /\ UNCHANGED <<text, toks, built, status>>
  /\ UNCHANGED var_decls

add_operand ==
  /\ Call("terms_add_operand")
  /\ LET op == Top
         e == Last(Front(built))
         terms == terms_add_operand(e.terms, op, Head(todo).sign)
     IN  built' = Append(Front(Front(built)), [e EXCEPT !.terms = terms])
  /\ Becomes(<<>>) /\ UNCHANGED <<pos, var_decls>>

-----------------------------------------------------------------------------
(* Statements.                                                              *)

(* The first token of parse_cond is taken as a comparison whatever it is.   *)
cmp_type ==
  /\ Call("cmp_type")
  /\ \/ Token = NULL /\ Crash
     \/ /\ Token # NULL
        /\ Push(IF Token.type = "CMP" THEN Token.cmp ELSE "none")
        /\ pos' = pos + 1
        /\ Becomes(<<>>) /\ UNCHANGED var_decls

Stmt(typ, p) ==
  CASE typ = "IHU"    -> Ihu(Cond(p[1], p[2], p[3]), p[4])
    [] typ = "WHILE"  -> While(Cond(p[1], p[2], p[3]), p[4])
    [] typ = "HOR"    -> Hor(p[1], p[2], p[3], p[4])
    [] typ = "YOSORO" -> Yosoro(p[1])
    [] typ = "SET"    -> Set(p[1], p[2])

make_stmt ==
  /\ Call("make_stmt")
  /\ LET blk == Len(built) - Head(todo).parts
         stmt == Stmt(Head(todo).typ, SubSeq(built, blk + 1, Len(built)))
     IN  built' = Append(SubSeq(built, 1, blk - 1), Append(built[blk], stmt))
  /\ Becomes(<<>>) /\ UNCHANGED <<pos, var_decls>>

(* What follows the two tokens that open a statement.                       *)
StmtCalls(keyword) ==
  CASE keyword = "IHU"    -> ParseCond \o ParseBlk \o <<MakeStmt("IHU", 4)>>
    [] keyword = "WHILE"  -> ParseCond \o ParseBlk \o <<MakeStmt("WHILE", 4)>>
    [] keyword = "HOR"    -> <<ParseOperand, Consume, ParseExpr, Consume, ParseExpr>>
                             \o ParseBlk \o <<MakeStmt("HOR", 4)>>
    [] keyword = "YOSORO" -> <<ParseExpr, MakeStmt("YOSORO", 1)>>
    [] keyword = "SET"    -> <<ParseOperand, Consume, ParseExpr, MakeStmt("SET", 2)>>
    [] keyword = "VARS"   -> <<Do("parse_vars")>>

Keywords(type) ==
  CASE type = "LBRACE" -> {"VARS", "IHU", "WHILE", "HOR"}
    [] type = "COLON"  -> {"YOSORO", "SET"}
    [] OTHER           -> {}

OpensStmt == TokenAt(pos + 1).type \in Keywords(Token.type)

(* { or : before a token that is no keyword: nothing is consumed, and after *)
(* a : a statement nobody fills in is counted again and again.              *)
AtUnknown ==
  /\ Token.type \in {"LBRACE", "COLON"}
  /\ ~OpensStmt /\ TokenAt(pos + 1) # NULL

Opens ==
  /\ OpensStmt
  /\ pos' = pos + 2
  /\ todo' = StmtCalls(TokenAt(pos + 1).type) \o todo
  /\ UNCHANGED <<text, toks, var_decls, built, status>>

(* Mutant: a token that opens no statement is not consumed.                 *)
parse_stmts_Keeps == Opens \/ (~OpensStmt /\ UNCHANGED vars)

parse_stmts ==
  \/ Opens
  \/ /\ AtUnknown
     /\ \/ /\ match_token("COLON") /\ Len(Top) < MaxStmts
           /\ built' = Append(Front(built), Append(Top, [typ |-> "UNINIT"]))
        \/ /\ ~match_token("COLON") \/ Len(Top) >= MaxStmts
           /\ UNCHANGED built
     /\ UNCHANGED <<text, toks, pos, var_decls, todo, status>>
  \/ /\ ~OpensStmt /\ ~AtUnknown
     /\ pos' = pos + 1
     /\ UNCHANGED <<text, toks, var_decls, todo, built, status>>

(* A call of parse_stmts, or the return from the loop that calls it.        *)
parse_blk ==
  /\ Call("parse_blk")
  /\ \/ ~match_token("RBRACE") /\ ~AtEnd /\ parse_stmts
     \/ /\ match_token("RBRACE") \/ AtEnd
        /\ Becomes(<<>>) /\ UNCHANGED <<pos, var_decls, built>>

parser_parse ==
  /\ Call("parser_parse")
  /\ \/ ~AtEnd /\ parse_stmts
     \/ AtEnd /\ Becomes(<<>>) /\ UNCHANGED <<pos, var_decls, built>>

(* Declarations: `name:int`, or `name:array[int, start..end]`.              *)
Declare(decl, length) ==
  /\ var_decls' = Append(var_decls, decl)
  /\ pos' = pos + length
  /\ UNCHANGED <<text, toks, todo, built, status>>

parse_vars ==
  /\ Call("parse_vars")
  /\ LET start == TokenAt(pos + 6)
         end == TokenAt(pos + 8)
         isInt == TokenAt(pos + 2).type = "KEYWORD_INT"
         crashes == \/ Token = NULL
                    \/ ~isInt /\ ~(HasText(start) /\ HasText(end))
     IN \/ /\ match_token("RBRACE")
           /\ pos' = pos + 1
           /\ Becomes(<<>>) /\ UNCHANGED <<var_decls, built>>
        \/ /\ ~match_token("RBRACE") /\ crashes
           /\ Crash
        \/ /\ ~match_token("RBRACE") /\ ~crashes /\ isInt
           /\ Declare([name |-> Token, typ |-> "VAR_INT"], 3)
        \/ /\ ~match_token("RBRACE") /\ ~crashes /\ ~isInt
           /\ Declare([name |-> Token, typ |-> "VAR_ARR",
                       start |-> atoi(start), end |-> atoi(end)], 10)

Next ==
  \/ consume_token \/ da_init
  \/ parse_operand \/ make_elem \/ parse_expr \/ parse_term \/ add_operand
  \/ cmp_type \/ make_stmt
  \/ parse_blk \/ parser_parse \/ parse_vars

(* One thread that parses until parser_parse returns.                       *)
Spec == Init /\ [][Next]_vars /\ WF_vars(Next)

Done == todo = <<>>
stmts == built[1]

-----------------------------------------------------------------------------
(* parse_expr adds an operand to a term only if it is the operand of that   *)
(* term: is_expr_eq, in the words of its comment, is for expressions that   *)
(* are *Completely Equal*.                                                  *)
CompletelyEqual ==
  Call("terms_add_operand") =>
    LET terms == Last(Front(built)).terms IN
    \A i \in Matches(terms, Top) : terms[i].operand = Top

(* The ints of an expression under construction are ints, and its operands  *)
(* are declared or marked as not found.                                     *)
TypeOK ==
  /\ status \in {"parsing", "crashed"}
  /\ Call("parse_term") =>
       /\ Top.constant \in IntW
       /\ \A i \in DOMAIN Top.terms :
            /\ Top.terms[i].coefficient \in IntW
            /\ Top.terms[i].operand.decl \in DOMAIN DeclIdx

Stuck == (Call("parse_blk") \/ Call("parser_parse")) /\ AtUnknown

(* Parsing ends, whatever the tokens are, unless a { or : where a statement *)
(* may begin is not followed by one of its keywords.                        *)
OnlyUnknownNeverEnds == <>(Done \/ status = "crashed" \/ Stuck)

(* A null pointer is followed only where the tokens run out in the middle   *)
(* of a statement or of a declaration, which reads eight tokens ahead.      *)
CrashesOnlyAtEnd == status = "crashed" => pos + 8 >= Len(toks)
=============================================================================
