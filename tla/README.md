# A verification project for cyaron_lang

cyaron_lang is a small imperative language (`int` and `array[int, l..r]`
variables, `ihu` = if, `while`, `hor` = counting loop, `yosoro` = print,
`set` = assign). The program reads a source text from stdin, tokenises it,
parses it into a syntax tree and then, decided when it is built,

- **interprets** the tree (`src/src/interpreter.c`), or
- with `-DCODEGEN` **generates byte code** for it (`src/src/codegen.c`) and
  runs that on a stack machine (`src/src/vm.c`).

This directory holds TLA+ modules for every pass, from reading the source to
the two back ends, and for the dynamic array and the string pool under them; TLC
runs of them, and TLAPS proofs about the code generator, the stack machine, the two
together, the interpreter, the string pool, the dynamic array, the lexer and
`read_src`. The repository's own `README.md` has only a title, so what a part
promises is taken from comments, tests and samples where they say something,
and from the other build where they do not.
`PROJECT.json` lists which definition models which lines.

## Inventory

| Part | State | Operations | Correct when |
|---|---|---|---|
| Lexer (`lexer.c`) | position, token array, string pool | one scan per token class, `lexer_tokenize` | it consumes a character per step, stays inside the source, tokens concatenate to the source minus blanks and comments |
| Parser (`parser.c`) | position in the tokens, declarations, statements | recursive descent; `terms_add_operand`, `optimize_expr`; freeing | it ends on every token sequence; an expression keeps its value when terms are merged and sorted; everything allocated is freed once |
| Syntax tree (`parser.h`) | immutable after parsing, but for `ihu` conditions, which the generator reverses in place | - | - |
| Code generator (`codegen.c`) | instruction array; C locals `try_skip`, `jmp_cond`, `stmts_end` | `gen_expr`, `gen_load/store_operand` (with fusion), `gen_cond`, `gen_stmts` (with jump patching), `cg_gen` | the code leaves every instruction its operands, every jump leads between statements, it means what the tree means |
| Instruction set (`opcodes.h`) | - | 14 opcodes and what their comments say they pop and push | - |
| Virtual machine (`vm.c`) | instruction pointer, stack pointer, 512 words of stack, variables, output | one handler per opcode | each handler does what `opcodes.h` says and the stack pointer stays in the array |
| Interpreter (`interpreter.c`) | variables, output, the C call stack | one handler per statement kind, `eval_expr` | hor loops end, the values are ints, it agrees with the other back end |
| Dynamic array, string pool (`utils.c`, `utils.h`) | items, count, capacity; pool buffer and offset | push with growth by doubling, interning, freeing | indices below the count stay valid, references taken before a growth are not used after it, each string is freed the way it was allocated |
| Driver (`main.c`) | the buffer `read_src` reads into | reading stdin in chunks; the passes in order, freeing between them | the lexer is given all that was read, however it was cut; what is written prints what it means, in both builds |

Everything runs on one thread, and nothing is persisted: there is no
concurrency, no message and no restart. Calls and the tree are all that
connects the parts: lexer -> tokens -> parser -> tree -> back end. What is hard
here is of another kind:

- **An unchecked machine.** `vm.c` moves the stack pointer by a table and
  addresses operands relative to the moved pointer, without a check; whether
  that is safe is decided in `codegen.c`, several calls away.
- **Peepholes and patches.** `gen_store_operand` rewrites the instructions that
  came last, whoever emitted them; jumps are patched by addresses saved before
  the block was generated. The two touch the same array.
- **Counting by hand.** `gen_expr` keeps `stack_items` and `group_size` while it
  groups terms by coefficient, with coefficients 0, 1 and -1 special.
- **Two meanings of one language.** Nothing but testing says that the two
  builds agree.
- **Widths.** `int` arithmetic overflows, jump offsets are `short`.
- **Terms that are merged before they are compared.** The parser decides with
  `is_expr_eq` whether two operands are one, on expressions that were merged and
  sorted themselves, and `qsort` promises nothing about the order of equals.
- **Loops that may stop consuming.** Parser and lexer consume tokens and
  characters without a look at them, and wait for a closing one.
- **References into arrays that may move**: `cur_stmt` points into an array of
  statements while the statement's body is parsed and other arrays grow.
- **Ownership by convention**: a string belongs to the pool or is a block of its
  own, an index belongs to the operand, and merging operands throws one away.
- **Identity by pointer**: names are compared by the pointers the string pool
  gave out.

`PROJECT.json` lists the hazards with their lines and the properties aimed at
them.

## Modules

| Module | Models | State and actions |
|---|---|---|
| `CyrBase` | machine ints, `do_cmp`, declared variables | operators only. `cmp_type`'s bits are a set of outcomes |
| `TreeWalks` | `is_expr_eq`, `is_operand_eq`, `free_expr`, `free_stmts` | recursive operators: when two operands count as equal, and how many blocks freeing a part of the tree gives back |
| `Terms` | `terms_add_operand`, `optimize_expr` | operators only; `is_operand_eq` is the constant `OperandEq`; `optimize_expr` is the set of all orders `qsort` may leave |
| `Parser` | the recursive descent of `parser.c` | `toks, pos, var_decls`; `todo` is the C call stack as in `CodeGen`; `built` are the finished parts not yet in a node; one action per C function or part of one, `Crash` where a null pointer is followed |
| `ParserMemory` | the same, with what is allocated, pointed to and freed (`da_try_push_back` of statements, `parser_free_stmts`, `parser_free_vars`) | extends `Parser`: the arrays of the open blocks with where their items are, `curs` (the `cur_stmt` of every statement being parsed), the number of blocks allocated and lost (what freeing an expression or a block gives back are the constants `FreeExpr`, `FreeStmts`); every action of `Parser` with what it allocates, and the two frees after it |
| `SourceText` | - | written programs, their tokens, what a tree must say to say the same, and a big-step semantics (`Printed`): the reference for `Parser` and `Driver` |
| `Lexer` | `lexer.c` | `ch_pos, toks`; one action per kind of token, `comment_overruns` for what reading past the source may do |
| `ReadSource` | `read_src` of `main.c` | the buffer, its capacity, how much was read; one action per round of the loop, `terminate` for the NUL |
| `DynArr` | the dynamic array of `utils.h` | `items, item_cnts, capacity` as an unsigned of `Usize` values; push, write in place, shrink (the generator's fusion), free, a `realloc` that fails |
| `ItemList` | **abstract**: a list | append, replace, cut off at the end |
| `StrPool` | the string pool of `utils.c` | the nodes, the offset into the pool and the characters in memory; `str_pool_intern` by its three outcomes, `str_pool_free` node by node |
| `Interning` | **abstract**: what comparing names by pointers relies on | a text keeps its pointer, a new text gets a new one |
| `Ast` | `parser.h`'s expressions and statements | record constructors; `Sorted` is the order `optimize_expr` leaves |
| `Trees` | which trees a back end may be given | the constants `Exprs`, `Stmts`, `Sources`, and as assumptions that they are records of `parser.h`'s fields and that the parts of each are among them |
| `Bytecode` | the instructions, stack deltas | constructors; `Certified(p, depth, capacity)`: `depth` assigns to every address the stack depth there, consistently with each edge of control |
| `OpcodeSpec` | **abstract**: `opcodes.h`'s comments | a sequence as stack, 14 opcodes grouped in 6 actions; pops and pushes as the comments say |
| `CyrVM` | `vm.c` | `pc, top, bottom, ints, arrs, out, status`; one action per handler, plus `Fault` for what C gives no meaning to |
| `CertifiedVM` | `CyrVM` given certified code | properties and the refinement mapping `OpcodeStack` |
| `CodeGen` | `codegen.c` | `todo` is the C call stack as the sequence of calls still to be made; `holes` are `try_skip`, `jmp_cond`, `try_continue`; one action per C function or patch |
| `Interpreter` | `interpreter.c` | `todo` are the active `execute_stmts` and `execute_hor` loops; one action per handler and per loop test |
| `Backends` | `main.c`'s two builds on one tree | instances of the three machines above; the interpreted run, then generation, then execution |
| `ProgramExprs` | - | the expressions of a program, for the MC modules |
| `Driver` | `test` of `main.c` | instances of `Lexer`, `Parser` and `Backends`; each starts on what the one before has left. `AsRead` is how the parser reads a token: `atoi` of its text, the comparison from the number of its type |
| `CertifiedVMProofs`, `CodeGenProofs`, `BackendsProofs`, `InterpreterProofs`, `StrPoolProofs`, `DynArrProofs`, `ParserProofs`, `LexerProofs` (with the proofs of `ReadSource`) | - | the proofs |
| `MC...` | - | one module of instances for TLC per run |

Conventions. Addresses of code are 1-based (C: 0-based), so `item_cnts` is
`Len(codes)` and the address of the next instruction is `Len(codes) + 1`. The
index `top` into `bottom` is C's `stack.top - stack.bottom`. A program that
reaches an access without meaning in C (an array index out of bounds, a stack
word outside the array or never written, running past the last instruction)
goes to status `"undefined"` and stays there. Overflow of a signed int has no
meaning in C either; in arithmetic on values in memory every build wraps
(`Wrap`), so the models do. The one place where the optimiser can do something
else is the counter of `execute_hor`, a C local: there the model chooses between
going on from the least int and leaving the loop.

How calls become actions. `gen_expr`, `gen_stmts` and the rest are recursive and
append to one array. `CodeGen` replaces the call at the head of `todo` by the
calls the C function makes, in order, so the array sees the same appends,
fusions and patches in the same order, and the properties may look at it
between any two of them. An `ihu` condition is reversed in the tree in C; in the
model the reversed comparison goes into the emitted call, since nothing reads
the tree afterwards (`main.c` frees it before it executes the code).
`Parser` does the same with `todo`. The C functions fill in structures they are
given pointers to; here a finished part waits in `built` until the action
(`make_elem`, `add_operand`, `make_stmt`) that stands for the last assignment
into the enclosing structure. A token stands for its `str`, which is interned,
so that comparing tokens is comparing pointers; operands are numbered by the
index of their declaration, 1-based, with `NotFound` for `(unsigned short)-1`.
A part built by a push or a `malloc` is numbered or counted, not addressed, but
where addresses matter: `StrPool` has blocks with offsets, `ParserMemory` a
number that changes when `realloc` moves an array.
`Stuck` names the states in which `parse_stmts` consumes nothing (`{` or `:`
before a token that is no keyword); the statement that a `:` leaves uninitialised
there is counted up to `MaxStmts`.
The loop of `gen_expr` over the terms is a call of its own, `GenTerms`, that holds
the terms not looked at yet and the C locals `current_coeff`, `group_size` and
`stack_items`; `gen_terms` is one round of it.
The `str` of a token of one sign is the sign in quotes in C (`lexer.c:159-161`
has the text of the macro argument); in `Lexer` it is the sign. Its type says
which it is, and nobody reads the `str`.

## Runs

| Run | Question | Instance | Size |
|---|---|---|---|
| `vm` | Does the machine stay in its stack and do what `opcodes.h` says? | all certified programs of at most 4 instructions over 16 instructions covering every opcode, and two loops in the shape the generator gives them; 3-bit ints, a stack of 3 words | 29,586 states |
| `codegen` | Is generated code certified? Does fusion respect jump targets? Do jumps lead between statements? Does generation end? | every statement over 10 expressions that take every path of `gen_expr`; blocks alone, nested, and all pairs of few | 52,974 states |
| `interpreter` | Do hor loops end whatever their bodies assign? | hor loops over own variable, bounds, array element; nested over one variable; up to the greatest int (3 bits); inside while loops that may not end | 39,327 states |
| `backends` | Do the two builds agree? | 779 programs: assignments in pairs, ihu with all six comparisons, each kind of loop, loops over empty ranges, also with an element as their variable, array elements that cancel, both in and out of bounds, `fib.cyr` for 0..5 and `test#4.cyr` with smaller constants; 5-bit ints | 73,495 states |
| `parser` | Does the tree say what the text says? Does parsing end on any tokens, and where can it follow a null pointer? Do pointers to statements survive growth, and is everything freed? | written programs: sums of up to five items with merging, cancelling, nesting and equal coefficients; all conditions; blocks in blocks; long blocks, first capacity 1. And 8 beginnings of programs followed by nothing or by two or three tokens of 15, whatever they are. 3-bit ints | 432,016 states |
| `lexer` | Is the token list the text? Where does the lexer leave the source? Does it end? Are tokens read back? | all texts of up to 5 of 9 characters, one or two of each kind; all pairs of tokens with a third behind them, separated by nothing, blanks, comments or characters without meaning | 519,901 states |
| `strpool` | Does a name have one pointer? Is what is freed what was allocated? | 6 texts, prefixes of each other, differing in the last character, empty, longer than the pool of 7 characters; any order of calls | 24,981 states |
| `dynarr` | Is the array a list? Until when? | items of 3 bytes, first capacity 1, a 5-bit usize | 8,728 states |
| `read_source` | Does the lexer get what was on stdin? | inputs of 0 to 33 characters with and without a NUL inside, first capacity 4 | 2,605 states |
| `driver` | Do both builds print what the text means? | 16 programs as characters: `fib.cyr` for 0..4 and `test.cyr` with smaller constants, all comparisons in both kinds of blocks, sums that merge, cancel and nest; 5-bit ints | 11,226 states |
| `parser_alike` | Are merged operands *Completely Equal*? (No) | `a[i] + a[j]` with indices that differ in coefficients | violation |
| `codegen_vanishing` | Does PUT always find a number? (No) | programs with expressions like `x - x` | violation |

**Why the bounds are enough.**
*vm*: a handler looks at no more than two words of the stack and one variable;
three words let BINADD, STORE_ARR and CJMP run with something below their
operands, and let code use the last word of the array. Two declared cells with
lower bound 1 make 0 and 3 out of bounds. Loops are unbounded; `MaxOut` stops a
program after two numbers printed, everything else is finite.
*codegen*: fusion looks at two instructions back and patching at two addresses,
so pairs of statements and two levels of nesting show every neighbour either can
have. `ShortHalf = 24` lies inside the range of the programs' lengths: some are
longer, some exactly as long as an offset reaches (`OffsetsFit` is the
condition; longer programs get truncated offsets, which is what the `short` in
`opcodes.h` implies, and the type invariant still holds for them). What
`CodeCertified`, `LandingsBalanced` and `FusionStopsAtLandings` say of the
targets of jumps they say of code for which `OffsetsFit`: a truncated offset
leads anywhere.
*backends*: 5-bit ints let sums and products overflow while `fib(5)` fits;
a stack of 4 words is the deepest the programs need. 701 programs halt in both
builds (18 of them with an array element that cancels), 54 access an array out of
bounds in both, 34 of these after the same output; 18 do so only when
interpreted, at an element that cancels, and 6 only when compiled, at the
variable of an empty range.

*parser*: `ReadAsWritten` compares statements structurally and expressions by
their values in four stores that give every variable and every element its own
value. Sums of three items let a term be merged, sorted away from its place and
merged again; one of four overflows the coefficient. The indices used
are ones `is_expr_eq` keeps apart; the others are the run `parser_alike`.
The other token sequences: a beginning puts the parser into each kind of list it
reads, and three tokens more are as many as it takes to leave it again, to reach
an unknown keyword, or to run out of tokens in any of them. `MaxStmts = 2`
bounds only the uninitialised statements. With a first capacity of 1 instead of
16 an array of statements moves at its second and third statement, at every
depth; `realloc` may or may not move it.
*lexer*: every branch looks at most at one character beyond the token, so five
characters hold two tokens and what is between them; `MaxToks` bounds the empty
tokens of a `_`, which the lexer would add for ever.
*strpool*: the pool fills up after two to four texts, exactly or with one
character left, and texts are asked for again before and after that.
*dynarr*: the capacity doubles four times before its bytes exceed `Usize`.
*read_source*: the capacity doubles three times, and inputs end one short of it,
at it and one past it; `fread` may fail in any round.
*driver*: a stack of 6 words and 12 elements of an array are what the programs
need. `PrintsItsMeaning` speaks of builds that halted; `BothBuildsEnd` says that
they do.

**Where the two builds differ.** Nothing in the repository says which of them is
meant. Two differences are in the programs of `backends`, and `OutputAgrees` and
`OutcomeAgrees` say that on those programs there is no other:

- *Elements that cancel.* Of `a[9] - a[9] + 1` the parser leaves a term with
  coefficient 0. `eval_expr` reads the element (`interpreter.c:112-114`),
  `gen_expr` skips the term (`codegen.c:231`, `247`) and with it the evaluation of
  the index. In bounds that changes nothing; out of bounds the interpreter's
  access has no meaning and the machine goes on. `Cancels` tells these programs,
  and `OnlyMachineGoesOn` is this case.
- *Empty ranges.* The generated code still assigns `start` and then `end` to the
  loop variable (`codegen.c:396-397`), the interpreter assigns nothing. So the
  variable differs afterwards, and where it is an element out of bounds
  (`hor a[9], 2, 1`) only the machine stores there. `EmptyOver` names the
  variables, which nothing but their loop reads in these programs, and
  `OnlyMachineStores` is the case out of bounds. If a program has elements that
  cancel and such a loop, the two builds may end at different accesses.

Left out of the run, since more than that differs there:

- hor loops that are not regular: the body assigns the loop variable, or the body
  or the loop itself assigns what the upper bound or the index of the loop
  variable reads. The interpreter counts in a C local up to a bound evaluated
  once, the generated code in the variable itself up to a bound evaluated each
  time (`hor x, x, x` never ends in the machine);
- hor loops up to the greatest int: in the machine they never end, in the
  interpreter C gives `i++` no meaning;
- empty ranges whose variable is read afterwards;
- expressions that vanish (the second finding below), and code too long for a
  `short` or nested too deeply for `Stack.bottom`, where the machine leaves its
  code or its stack.

**Fairness.** `Lexer`, `ReadSource`, `ParserMemory`, `CodeGen`, `Interpreter`,
`Backends` and `Driver` have weak fairness of their next step: each is one thread
that nothing blocks, which runs until its function returns (`fread` returns, as
stdin is a file or ends). `CertifiedVM`, `DynArr` and `StrPool` have no fairness:
their properties are safety, and their callers may stop calling. Deadlock is not
checked, since the programs stop.

**Where the passes do not end.** `OnlyUnderscoreNeverEnds` and
`OnlyUnknownNeverEnds` name the two inputs for which they do not: a `_` outside a
comment (`is_identifier_char` accepts it, the loop behind it, `lexer.c:139-142`,
does not consume it, so identifiers without text are appended for ever, where
`lexer.c:137` says "Identifier or Keyword"), and a `{` or `:` before a token that
is no keyword. `OverrunsOnlyInComment` names the one input for which the lexer
reads past its source: a comment on a last line without newline.

**Finding** (`parser_alike`, `CompletelyEqual`). `is_expr_eq`, whose comment
says "\*Completely Equal\*" (`parser.c:198`), compares constants and operands but
never coefficients (`parser.c:206`): `a[x+x] + a[x]` is read as `2 * a[x+x]`.

**Finding** (`codegen_vanishing`, `PutHasOperand`). `opcodes.h:35-36` gives PUT
one operand. `optimize_expr` keeps terms whose coefficients cancelled, and
`gen_expr` emits nothing when all of them did and there is no constant
(`codegen.c:235-238`). `yosoro x - x` then prints a word nobody pushed and moves
the stack pointer out of the array; the interpreter prints 0.

## Proofs

All theorems hold for every value of the constants, under the assumptions the
modules name. Those are about types (`HalfAssumption`: an int has a sign and more
than one value of each; `DeclAssumption`: bounds of arrays are integers;
`ExprsAssumption`, `StmtsAssumption`, `SourcesAssumption`: trees have the fields
of `parser.h`; `NestedAssumption`: they are finite; `CharsAssumption`, `InputsAssumption`,
`TextAssumption`: texts are sequences; `TokensAssumption`: so are tokens, numbers
and comparisons among them carry theirs, and `TOK_EOF` is the last), about sizes (a stack, a pool, a first buffer and a `short` have room
for something), and say that a marker of unwritten memory is no value. TLC
evaluates all of them in the runs.

### The generator and the machine

This is what the project is about: `vm.c` checks nothing, and what makes that
right is decided call by call in `codegen.c`. The proof has three parts.

**`CodeGenProofs`: generated code has a certificate.** `TypeCorrect`,
`CodeIsCertified`, `LandingsAreBalanced`, `FusionStops` and `PutFindsItsOperand`
say `Spec => []P` for the invariants `TypeOK`, `CodeCertified`,
`LandingsBalanced` and `PutHasOperand`, and `Spec =>` the action property
`FusionStopsAtLandings`. None of the properties is inductive: they speak of the code,
and what happens to it next is in `todo` and `holes`. The invariant `Inv` says
that there is a `D`, the depth of the stack before each instruction and behind
the last, with

- `Certifies`: every instruction finds its operands at `D` and leads to the next
  depth, and HALT is last;
- `Lands`, `EndLands`: behind every jump, at every address a patched jump leads
  to and at the remembered end of a loop body `D` is 0;
- `Follows`: the calls in `todo`, made one after the other, lead from the depth,
  the number of holes and of remembered ends there are now to none of each and a
  HALT. `Allowed` says what a call does to these four numbers and what it needs
  of them: `gen_expr` adds one number to the stack, `patch_loop` takes two holes
  and an end, a jump leaves nothing on the stack.

The heart is that each call turns into calls that do the same together
(`ExprFollows` and `TermsFollow` for the counting by hand in `gen_expr`,
`StmtFollows` for the five kinds of statements), and that an append, a fusion and
a patch keep the certificate (`Emission`, `Replaced`, `Patched`). A fusion stops
at a landing for a reason that is not in `gen_store_operand`: what it replaces
has put a number on the stack, and where jumps lead there is none. `D` is no
variable of the model; `PrefixIsDepth` shows it is `PrefixDepth`, the sum of the
deltas that `CodeCertified` speaks of. That this recursive function has a value
follows from `D` being one, and that it has one value only from an induction over
the addresses, written with a set (`NatSet`).

Hypothesis `NoneVanishes`: no expression consists of nothing but terms that
cancelled. It is needed: run `codegen_vanishing` is the counterexample
(`PutHasOperand` fails for `x - x`), and the finding below the runs.

**`CertifiedVMProofs`: certified code runs safely.** For every
set of programs with a certificate (`ProgramsAssumption`):
`TypeCorrect`, `PointerAgrees`, `PopsWhatWasPushed` and `NoStackFault` are
`Spec => []P` for `TypeOK`, `DepthAgrees`, `LiveWordsWritten` and
`OnlyArraysFault`; `Refinement` is `Spec => ImplementsOpcodes`, i.e. the machine
implements `OpcodeSpec`. None of the conjuncts of `Inv` (`TypeOK /\ DepthAgrees /\
LiveWordsWritten`) is inductive alone: the type of `top` (that it does not leave
the array) follows from `DepthAgrees` and the certificate's range; that the words
a handler reads are ints follows from `LiveWordsWritten` and `Operands(op) <=
depth`; and `DepthAgrees` after a jump needs the certificate's edge condition at
the address `pc` of `TypeOK`. `CertificateHere` takes the facts about the current
instruction from the certificate, `StackDefinedHere` shows its operands are
there, and then `GoingOn`, `WritingTop` and `OnlyPopping` do what the handlers
have in common; `NextInv` has a step per handler. For the refinement, the words
above `top` read downwards from the base are the abstract stack; moving `top` by
the delta and writing at most one word is shown to be the abstract pops followed
by the push.

**`BackendsProofs`: generated code runs safely.** The two modules are
instantiated for the variables of `Backends`, the second with the certified
sequences of instructions as its programs, which discharges `ProgramsAssumption`.
`GeneratedCodeIsSafe`: `Spec => [](CodeFits => StackRespected)`, under
`NoneVanishes`. `CodeFits` is what the code does not check and cannot promise: the
jumps fit a `short` and nesting stays within `Stack.bottom`; of a program that
is too long or nested too deeply for that, nothing is promised. The invariant
is the generator's, and: the machine
either has not started or the code is finished and, if it fits, the machine's own
invariant holds of it. In the run `backends` every program's code fits, so
`StackRespected` is checked there without the condition.

### The interpreter

`InterpreterProofs`: `TypeCorrect` (`Spec => []TypeOK`) for every set of programs,
declarations and width of int. `Inv` adds that the calls in `todo` are of parts of
the tree, with ints as counters and bounds. The work is in `eval_expr`, which is
two recursive functions in TLA+, one over the terms (`SumTerms`) and one over the
expressions inside expressions, and a recursive function has a value only where
some function satisfies its definition. `SumsExist` builds the partial sums one
by one. `EvaluatesExists` builds, for each `n`, a function that is right for all
expressions that nest less than `n` deep; two of these agree there
(`EvaluatesSame`), since only the indices inside an expression count
(`ReadsSame`), so one function is right for all (`EvalIsValue`). This is where
`Nested` and `NestedAssumption` are needed: the constant says how deep an
expression nests, and the assumption that an index nests less deep than what it
is a part of, as the parser allocates every index for the one operand it belongs
to. `WriteTyped` then is about the check in `HasRef` that the model makes where
the code makes none.

### The string pool

`StrPoolProofs`: `TypeCorrect`, `FreesWhatItAllocated` (`Spec =>
[]FreedAsAllocated`) and `Interns` (`Spec => ImplementsInterning`), for every
alphabet, set of texts and size of the pool and every order of calls. `Inv` is
`Placed` (a node in the pool lies below the offset, any other has a block of its
own), `Allocated` (the blocks that are there are the pool and those of nodes not
freed yet, each as long as its text and a NUL), `Phase` (no call after the
release has begun), and, while the pool is open, `Written` (every node holds some
text) and `Distinct` (no two hold the same). The refinement needs the last two:
`lite_strncmp` compares up to a length, and that it finds the node of a text and no
other follows from the NUL behind each text (`ReadsOne`, `FoundIsHolds`); that
interning a text changes no other follows from `Placed` (`Added`). `free` has no
meaning twice: `freeing` and `Allocated` say which blocks are left.

### The dynamic array

`DynArrProofs` proves, for every set of items, item size of at least two bytes,
first capacity and width of usize: `Safety` (`Spec => [](RoomForItems /\
UndefinedOnlyAtUsize)`), `TypeCorrect`, `OutsideOnlyAtUsize`, and `Refinement`
(`Spec => ImplementsList`). `SizeAssumption`: what `da_init` asks for is less than
a usize holds; the smallest item of the program, a pointer or a struct with one,
has more than two bytes. The invariant is `TypeOK`, `RoomForItems` and
`UndefinedOnlyAtUsize` with two strengthenings. `CapacityFits`: the capacity is
not 0, for doubling 0 makes no room, and its bytes are below `Usize`, so that the
product doubles as well or loses `Usize` once. Where it does, two bytes an item
make the new block too small for the item (`Grown`), and the access is the one
`UndefinedOnlyAtUsize` speaks of. `ItemsBelow`: below the count there are items,
not `Garbage`, which `RoomForItems` and the copying of `Realloc` preserve and the
refinement needs. That is also what allows the other modules to use sequences
where the code uses dynamic arrays.

### The parser

`ParserProofs`, for every program, well formed or not: `TypeCorrect` (`Spec =>
[]TypeOK`), `NullOnlyAtEnd` (`Spec => []CrashesOnlyAtEnd`), `HandsOverATree`
(`Spec => []Finished`: what a parser that is done hands over is one finite tree of
statements and expressions over the declarations), and of `ParserMemory`,
`RefsStayValid` (`MemSpec => []RefsValid`) and `MemoryRefines` (`MemSpec => Init /\
[][Next]_vars`: the parser in its memory is the parser). Nothing is assumed of
`OperandEq`, `FreeExpr` and `FreeStmts`: whatever `is_operand_eq` answers, the tree
is a tree. Which program it stands for is another question, and the one
`parser_alike` is about.

`TypeOK` alone is not inductive. A call in `todo` finds its parts on top of
`built`: `make_stmt` of a hor loop takes a block, two expressions and an operand,
and nothing it looks at says that they are these. In C that is the shape of the
functions; in the model it has to be said of all calls that are left. `Leads(calls, s)`
does: from shape `s`, which is the kinds of the parts in `built`, the number of
open arrays and the number of open statements, the calls lead through one shape
after the other to `Final`, a block by itself. `Effect` says what a call does to a
shape, with all it will call. For each action there is a lemma that the calls it
makes do together what it was to do (`TermLeads`, `ElemLeads`, `OperandLeads`,
...), and the path goes on from there. `Inv` adds `Tree(D, parts, kinds)`: the parts
are of these kinds in a *finite* tree over the declarations `D`, i.e. there are sets
of expressions and statements closed under taking parts, with a rank that nesting
lowers. That is what the back ends assume of theirs (`ExprsAssumption`,
`StmtsAssumption`, `NestedAssumption`), but for undeclared names. Declaring a
variable makes `D` larger and keeps every tree a tree.

One exception is in `Inv` because the code has it: `Stuck`, where a `:` before no keyword
pushes a statement nobody fills in. Such a block is no tree, and `Inv` says that
the parser never leaves that state and so never hands it over.

`CrashesOnlyAtEnd` rests on `TokensAssumption`: the lexer appends `TOK_EOF`, the only
token without a `str`, behind all others, so that the `str` or the token
itself is NULL only there or past it (`TokensEnd`).

For `RefsValid` the invariant is `MemInv`, over the same shapes: `Memory(s)` says
that there are as many open arrays and statements as the shape has, and that
statement `i` is in array `i`. `InBlock` (one array more than statements) holds
wherever a statement is pushed, so what is pushed goes to an array that holds no
open statement; if it did, `realloc` could leave `cur_stmt` behind.

### Reading and scanning

`GivesTheInput` (`ReadSpec => []SourceIsInput`) holds for every input,
first capacity and way of cutting it. `ReadInv`: `total_read < capacity`, so that
there is room for the NUL, what was read is the beginning of the input, and
reading stops only where all of it is read or `fread` failed. That the C string
is then the input's is `SameString`: the first NUL of two sequences that agree
as far as the first NUL of one is the same.

`LexerProofs`: `TypeCorrect` and `StaysInSource` (`Spec =>
[]OverrunsOnlyInComment`), for every set of sources and every classification of
characters `CharAssumption` allows. `Inv` adds to the two properties that `toks`
is a sequence. What a run of digits or letters consumes ends inside the source
(`RunEnds`); only a word may consume nothing, and then its text is no keyword
(`EmptyIsNoKeyword`), so that a token without text is an identifier.

`ReadsTheText` (`Spec => []TokensAreTheText`) is the one of them that says what the
lexer is for, and it is not inductive: what counts as text depends on
what stands before a character, whether a comment is open and how many dots are in
a row, and the code remembers neither. `TextInv` adds that it need not:
`Outside`, between two tokens no comment is open, and a dot that is looked at has
an even number of dots before it. From that, `NoCommentBegins`, `CommentGoesOn`
and `DotsAlternate` tell of the characters an action consumes that all of them are
kept (`KeptStep`) or none is (`DroppedStep`). `FlattenSeq` and `KeptText` are
recursive functions, which have a value only where some function satisfies the
definition: for `KeptText` it is built position by position (`TextExists`), and
for the texts of the tokens `Joined` carries it along, one token at a time
(`Joins`, `JoinsAppend`), until `FlattenIs` says it is the value. Both are inductions
over positions, written with sets of numbers (`NatSet`).

### Only model-checked

- Liveness under fairness and ENABLED are out of the prover's reach:
  `OnlyUnknownNeverEnds`, `OnlyUnderscoreNeverEnds`, `ReadingEnds`,
  `GenerationEnds`, `OnlyWhileRunsForever`, `BothEnd`, `BothBuildsEnd`.
- `OutputAgrees` and `OutcomeAgrees` relate two runs over one tree, for programs
  in which the builds differ in the two ways named above at most; a proof would
  be one of the correctness of the compiler by induction over the tree.
- `ReadsBack` of the lexer speaks of sources that the MC module builds from
  tokens.
- `TreeWalks`, `SourceText` and `ProgramExprs` declare RECURSIVE operators, because
  operands and expressions contain each other; the prover loads none of them.
  `CompletelyEqual` and `LeaksOnlyNested` ask what `is_operand_eq` and freeing
  compute of a tree, and `ReadAsWritten` and `PrintsItsMeaning` what a whole
  text means: inductions over the tree. What does not depend on those
  functions is proved with `OperandEq`, `FreeExpr` and `FreeStmts` as constants.
- `CompletelyEqual` does not hold for all programs (run `parser_alike`);
  `parser` checks it on indices `is_expr_eq` keeps apart.
- `DeclaredAsAssumed` compares what the parser declares with the constants that
  the instance gives the back ends, so it is a question about an instance.

## Plan

1. *Done*: `CyrBase`, `Bytecode`, `OpcodeSpec`, `CyrVM`, `CertifiedVM` with
   proofs; `Ast`, `CodeGen`, `Interpreter`, `Backends`; `Terms`, `Parser`.
2. *Done*: `DynArr` with proofs, `StrPool`, `ParserMemory`; `Lexer`,
   `ReadSource`, `Driver`.
3. *Done*: the proofs of `CodeGen`, `StrPool`, `ReadSource`, `Lexer`,
   `Interpreter` and of the generator and the machine together.
4. *Done*: the proofs of `Parser` and `ParserMemory`, with the recursive walks over
   trees moved to `TreeWalks`.
5. *Left*: that the two back ends differ in the two ways named only, and that
   freeing balances allocating, both by induction over the tree.

## Not modelled

The clock and all debug printing: output without effect on the state. What
happens after `malloc` or `realloc` has yielded NULL, which nothing looks at
(`DynArr` and `StrPool` stop there). Undeclared names: `operand_finder` gives them
the index 65535, with which the back ends leave the declarations; all programs of
the runs declare what they use. `logger`, `err_log` and `set_glob_log_output`;
`maybetter.c`, somebody else's program, kept for comparison and built by no rule.
Functions without a caller: `stack_push`, `stack_pop` and `stack_check_capacity`
in `vm.c`, `da_create`, `da_push_back`, `da_pushs_back`, `str_pool_create`,
`token_create` and the other `_create` functions. (`da_pushs_back` could not be
called: its loop, `utils.h:68`, doubles the capacity while it is greater than
what is needed, so it never makes room.)
