---------------------------- MODULE ParserMemory ----------------------------
(***************************************************************************)
(* What the parser allocates, points to and frees.                         *)
(*                                                                         *)
(* The statements of a block are a dynamic array inside the statement that *)
(* opens the block, which is itself an item of the array around it.  While *)
(* a statement is parsed the C stack holds cur_stmt, a pointer to that     *)
(* item, and a push into its array may move it.  Of memory only the number *)
(* of allocated blocks is kept.                                            *)
(***************************************************************************)
EXTENDS Parser

CONSTANTS
  StmtCapacity,  \* the first capacity of an array of statements (16)
  FreeExpr(_),   \* how many blocks free_expr and free_stmts free
  FreeStmts(_)

VARIABLES
  arrays,  \* the arrays of statements of the open blocks, outermost first:
           \* where the items are, how many they are, and their capacity
  curs,    \* the cur_stmt of every statement being parsed, outermost first
  live,    \* how many blocks are allocated
  lost,    \* how many of them nothing points to any more
  freed    \* what has been freed: the statements, the declarations

memory == <<arrays, curs, live, lost, freed>>

-----------------------------------------------------------------------------
(* parser_init allocates the statements, whose da_init is a call of Parser, *)
(* and the declarations.                                                    *)
MemInit ==
  /\ Init
  /\ arrays = <<>>
  /\ curs = <<>>
  /\ live = 1
  /\ lost = 0
  /\ freed = {}

(* Mutant: statements go to the outermost array.                            *)
Target_Outermost == 1

Target == Len(arrays)

(* cur_stmt = da_try_push_back(stmts).  realloc may move the items.  Before *)
(* an unknown keyword parse_stmts returns at once and drops cur_stmt.       *)
push_stmt ==
  LET arr == arrays[Target]
      full == arr.item_cnts >= arr.capacity
  IN  /\ \E moved \in IF full THEN {0, 1} ELSE {0} :
           arrays' = [arrays EXCEPT ![Target] =
                        [items     |-> arr.items + moved,
                         item_cnts |-> arr.item_cnts + 1,
                         capacity  |-> IF full THEN 2 * arr.capacity ELSE arr.capacity]]
      /\ curs' = IF AtUnknown THEN curs
                 ELSE Append(curs, [array |-> Target,
                                    items |-> arrays'[Target].items,
                                    idx   |-> arr.item_cnts])

PushesStmt ==
  \/ OpensStmt /\ TokenAt(pos + 1).type # "VARS"
  \/ AtUnknown /\ match_token("COLON") /\ Len(Top) < MaxStmts

MemParseStmts ==
  /\ parse_blk \/ parser_parse
  /\ IF PushesStmt THEN push_stmt ELSE UNCHANGED <<arrays, curs>>
  /\ UNCHANGED <<live, lost, freed>>

MemDaInit ==
  /\ da_init
  /\ arrays' = Append(arrays, [items |-> 0, item_cnts |-> 0, capacity |-> StmtCapacity])
  /\ live' = live + 1
  /\ UNCHANGED <<curs, lost, freed>>

(* The call that parsed the statement returns.                              *)
MemMakeStmt ==
  /\ make_stmt
  /\ curs' = Front(curs)
  /\ arrays' = IF Head(todo).parts = 4 THEN Front(arrays) ELSE arrays
  /\ UNCHANGED <<live, lost, freed>>

MemParseExpr ==
  /\ parse_expr
  /\ live' = live + 1
  /\ UNCHANGED <<arrays, curs, lost, freed>>

(* Mutant: nothing of an operand that is there already is freed.            *)
Merged_Kept(op) == 0

(* What is freed of an operand that is there already: the terms of its      *)
(* index, but not the terms of the indices in it.                           *)
Merged(op) == IF op.typ = "ARR_ELEM" THEN 1 ELSE 0

MemAddOperand ==
  /\ add_operand
  /\ IF Matches(Last(Front(built)).terms, Top) # {}
     THEN /\ live' = live - Merged(Top)
          /\ lost' = lost + (IF Top.typ = "ARR_ELEM" THEN FreeExpr(Top.idx) - 1 ELSE 0)
     ELSE UNCHANGED <<live, lost>>
  /\ UNCHANGED <<arrays, curs, freed>>

(* calloc, for the cells of an array.                                       *)
MemParseVars ==
  /\ parse_vars
  /\ live' = live + Cardinality({i \in DOMAIN var_decls' : var_decls'[i].typ = "VAR_ARR"})
                  - Cardinality({i \in DOMAIN var_decls : var_decls[i].typ = "VAR_ARR"})
  /\ UNCHANGED <<arrays, curs, lost, freed>>

MemOthers ==
  /\ consume_token \/ parse_operand \/ make_elem \/ parse_term \/ cmp_type
  /\ UNCHANGED memory

(* main.c frees the declarations first when it interprets, and the          *)
(* statements first, before it executes, when it has generated code.        *)
parser_free_stmts ==
  /\ Done /\ "stmts" \notin freed
  /\ live' = live - FreeStmts(stmts)
  /\ freed' = freed \cup {"stmts"}
  /\ UNCHANGED <<arrays, curs, lost, vars>>

parser_free_vars ==
  /\ Done /\ "vars" \notin freed
  /\ live' = live - 1 - Cardinality({i \in DOMAIN var_decls : var_decls[i].typ = "VAR_ARR"})
  /\ freed' = freed \cup {"vars"}
  /\ UNCHANGED <<arrays, curs, lost, vars>>

MemNext ==
  \/ MemParseStmts \/ MemDaInit \/ MemMakeStmt \/ MemParseExpr \/ MemAddOperand
  \/ MemParseVars \/ MemOthers
  \/ parser_free_stmts \/ parser_free_vars

MemSpec ==
  MemInit /\ [][MemNext]_<<vars, memory>> /\ WF_<<vars, memory>>(MemNext)

-----------------------------------------------------------------------------
(* A statement under construction stays where cur_stmt points until it is   *)
(* finished, however its body makes arrays grow: da_try_push_back may move  *)
(* the items, so nothing may be pushed to an array that holds an open       *)
(* statement.                                                               *)
RefsValid ==
  \A i \in DOMAIN curs :
    LET ref == curs[i] IN
    /\ arrays[ref.array].items = ref.items
    /\ ref.idx = arrays[ref.array].item_cnts - 1

(* When everything is freed nothing is left, and nothing was freed twice,   *)
(* but for the indices nested in operands that were merged into a term:     *)
(* terms_add_operand frees the outermost only.                              *)
LeaksOnlyNested ==
  /\ live >= 0
  /\ freed = {"stmts", "vars"} => live = lost
=============================================================================
