# A verification of the Tony compiler

The Tony compiler translates programs of nested function definitions to LLVM IR.
These modules model it from the text of a program to the files its driver leaves behind. At the
centre are its two passes over the AST, the semantic pass and the code
generator, and the question that makes the compiler hard: **how do nested
functions reach the variables of the functions around them?** Around them are the blocks the generator makes
of statements, the types of expressions, the lexer, the parser and the driver.

## The system

| Component | Source | State | Operations |
|---|---|---|---|
| Lexer | `lexer/lexer.l` | comment depth, line count | one rule per token |
| Parser | `parser/parser.y`, `parser/parsing.cpp` | the AST | one constructor per production |
| Symbol table | `symbol/symbol.hpp` | a stack of `Scope`s: variables, functions, return type, function type, `hasReturn` | open, close, insert, lookup |
| Types | `symbol/type.*` | `TonyType`: kind, pass mode, arguments, captured variables, declared flag | equality, captures, keys |
| Semantic pass | `semantic/semantic.cpp` | annotations on the AST | one `sem()` per node |
| Code generator | `llvm/ast.cpp`, `symbol/runtime.hpp` | a stack of maps of functions, a stack of `RuntimeBlock`s, the LLVM module and builder | one `compile()` per node |
| Compiler main | `parser/parser.y` | - | parse, `sem()`, generate, verify, write `out.ll` |
| Driver | `tony.py` | temporary files | tonyc, llc, clang, rename |
| Errors | `error/error.cpp` | - | print and exit |

The passes run one after the other in one process, and the first error ends it:
nothing is concurrent inside the compiler. What is shared is the `TonyType` of a
function: `sem()` fills its list of captured variables while it walks, and at
each node of the second walk `compile()` reads the list as it was at the end of
the first. The difference between *then* and *at the end* is where things can
go wrong. (`tony.py` is another matter: its invocations share files.)

### Behaviours that are hard, and what correct means

* *Captures.* `Id::sem` and `FunctionCall::sem` add to the captures of the current
  function, the end of a definition hands them on to the function around it. Correct: a
  function captures only what is visible where it is registered; a caller can
  supply what the callee captures; a finished function captures nothing more;
  at the end of the program nothing is left.
* *Declarations.* A definition may adopt the type a declaration created. Correct:
  one body per type, one signature for declaration, definition and calls.
* *Two tables.* `compile()` resolves names again, in `RuntimeScope` and
  `RuntimeBlock`. Correct: it finds the function and the variable `sem()` found.
* *Operands.* The signature of a function, the names of its parameters and the
  operands of a call are computed at three places. Correct: they fit.
* *Uninitialised members* (`Scope::functionType`, `VarList::isRef`,
  `FunctionDefinition::isMain`) are never used, or used harmlessly.
* *Control flow.* The generator decides from two flags which basic blocks it still has to end.
  Correct: every block ends once, and a call performs the statements in their order.
* *Data.* `nil` has a type equal to every other, and LLVM types of lists are shared through a
  table of keys. Correct: a value has its type, an expression the LLVM type of its type.
* *Two readings.* The lexer decides by a pattern where a literal ends, the AST reads its escapes;
  two counters count lines. Correct: they agree.
* *Lists filled from their end.* Correct: the tree is the program.
* *Shared files.* Correct: an invocation of the driver hands over its own program, says whether it
  compiled, cleans up, and ends.

## The modules

| Module | Models | Extends | Run |
|---|---|---|---|
| `Semantic` | symbol table, types and semantic pass | | |
| `SemanticProofs` | theorems: captures, scopes and the tape | `Semantic`, TLAPS | |
| `MCSemantic` | an instance | `Semantic` | `Captures.cfg` |
| `Compiler` | the semantic pass followed by the code generator | `Semantic` | |
| `CompilerProofs` | theorems: the generator's tables, and the variables of compiled programs | `Compiler`, `SemanticProofs`, `LeastNumbers` | |
| `MCCompiler` | instances | `Compiler` | `Backend`, `Signatures`, `Scoping`, `DynamicScoping`, `OpenCallee` |
| `Statements` | abstract: the order in which a function performs its statements | | |
| `ControlFlow` | the basic blocks of a function, and a call that runs them | INSTANCE `Statements` | |
| `ControlFlowProofs` | theorems: the blocks are closed and perform the statements | `ControlFlow`, `LeastNumbers` | |
| `MCControlFlow` | an instance | `ControlFlow` | `Blocks` |
| `Expressions` | types, LLVM types and values of expressions | | |
| `ExpressionsProofs` | theorems: values and LLVM values have their types | `Expressions`, `LeastNumbers` | |
| `MCExpressions` | instances | `Expressions` | `Operators`, `NilElement` |
| `Lexer` | scanner, counters, second readings of literals | | |
| `LexerProofs` | the theorems about it | `Lexer`, `LeastNumbers` | |
| `MCLexer` | the texts | `Lexer` | `Texts` |
| `Parser` | grammar and constructors | | |
| `ParserProofs` | theorems: values have their types, the tree is the program | `Parser`, `LeastNumbers` | |
| `MCParser` | the vocabularies | `Parser` | `Programs` |
| `Driver` | invocations of `tony.py` over shared files | | |
| `DriverProofs` | the theorems about it | `Driver`, TLAPS | |
| `MCDriver` | four programs | `Driver` | `Invocations` |
| `LeastNumbers` | lemmas: a set of numbers has a least member; `Min` and `Max` of `FiniteSetsExt` | TLAPS | |

### `Semantic`

A behaviour chooses a program while it walks it: each action is the visit of one
AST node, with the node's names, types and header from the constants.

* `scopes` is `SymbolTable::scopes`. `scopes[1]` holds the library, `scopes[2]` the
  program's name: the two scopes the first definition opens. A map is a total function
  with `None` for "not in the map".
* `ftypes` are the function `TonyType`s, `prev` their captured variables, `declared` the
  flag `declDef`. A function type is referred to by its index, like a pointer, since
  scopes and nodes share it; a variable's type carries the node that declared
  it, which is its identity.
* `walk` says, per open definition, whether its local definitions or its body is being
  visited: the grammar puts the one before the other.
* `ast` is the tape of visited nodes with the annotations `sem()` leaves (the type of
  a name, the function type of a definition or call) and what the properties ask of
  them (`by`: the function the node is in; `sealed`: was the callee finished at the
  call; `locals`: the caller's variables at that point).
* `outcome` is `undefined` if the walk would follow `Scope::functionType`
  uninitialised, and `rejected` once `error()` has ended the process.

`DefineFresh`, `DefineDeclared` and `RejectDefinition` are the three ways through
`Header::semHeaderDef`; `LeaveInner` and `LeaveProgram` are the rest of
`FunctionDefinition::sem` after the body; the other actions are the `sem()` of the node they
are named after. In all of them a failed check is `Stop("rejected")`.

Abstractions: an operand is a name or, for every expression that captures nothing,
its type; a call within an expression is a call before it, its result an operand
of its type; an `if` or `for` is its condition followed by its
statements (they open no scope); several names of one formal are several formals;
the text of errors is left out.

### `Compiler`

After `outcome = "accepted"` the generator reads the tape from its first node (`pc`).

* `rscopes` is `RuntimeScope::functions`, `blocks` the stack of `RuntimeBlock`s; `slot[x]`
  is the stack slot of `x` (values and addrs) with the variable it denotes, its type
  and its level (0 a value, 1 an address), `ref` the names whose `pass` is `REF`.
* `lfuns` are the LLVM functions with the parameters of their signatures, `at` is the
  block the builder inserts into.
* LLVM is external. A call whose operands do not fit the callee's parameters, a null
  operand, a load through something that is not an address, a `ret` of void: the
  builder or `verifyModule` stops at it, here `Break`. A vector read beyond its
  end (`argNames`) counts as such a stop.

Abstractions: values are their type and level; conditional branches do not exist, so
a `return` or `exit` either drops the rest of the function's body (`StmtBody::compile`)
or, if it stands in the body of an `if`, nothing that the tape shows. An operand is a variable or a
value: the address of an array element that is passed by reference (`llvm/ast.cpp:759`) is left out.

### `Statements` and `ControlFlow`

`Statements` says what a function means: given the tape of its statements, which event (a
statement performed, a condition found true or false, the call left) may follow which. It knows no blocks.

`ControlFlow` compiles a function chosen on the way and then runs it. `bodies` is the stack of
`StmtBody`s being compiled, each with the blocks promised to it (`other`: `else_bb` or `LoopBB`, `after`:
`merge_bb` or `AfterBB`) and `returned` and `exited`, the flags `has_return` and `has_exit`. The constructs ask
for either; the end of the function asks for one of them only, depending on its result (`EndedAsTyped`). `code`, `list` and `insert`
are the Builder: instructions of every block, the blocks attached to the function, the block it stands in.
`CompileIf`, `CompileElsif`, `CompileElse` and `CompileFi` are the parts of `If::compile` before, between and after the
nested `compile()` calls; `CompileFor` and `CompileOd` those of `For::compile`. `ip` and `last` are a call: where it is and what it did last.
The refinement mapping gives `Statements` the tape once the function is complete (`insert = 0`) and `last`.

Abstractions: `skip`, assignments and calls are one kind of statement; the initialisations of a loop are one event, its
steps another; conditions are true or false at will. Statements behind a `return` of the same body are never
on the tape, as `StmtBody::compile` leaves them out.

### `Expressions`

A straight-line program is visited operands first, the order of `sem()`, of `compile()` and of the running program; so
one `stack` holds for every expression its type (a word of nested types, or `void` or `function`), its LLVM type and its
value. `catalog` is `llvm_list_types`, the structs by hash key in the order of insertion; `Translate` is
`getOrCreateLLVMTypeFromTonyType`, a recursive function of the suffixes of a type, and `Layer` one call of it. `outcome` is `rejected` after `error()`, `bad_ir` where LLVM
finds operands of different types, `bad_store` where a new node is stored into a struct made for another, `no_type` where a type has no key or
a key is inserted twice, and `culprits` is what it failed on. The name of a function and the call of one without a result are expressions as well, since
equality accepts them for operands. `UninitSize` holds the values
an uninitialised `TonyType::size` may be read as.

Abstractions: numbers, characters and truth values are their type; an array's elements are any value of its element type; the
operators of one arity and type are one; functions have one signature; what is assigned to is a variable, not an array's element. The two passes run node by node side by side: the generator's table depends
on the order of nodes only. `head` of an empty list goes on with an undefined value, as the emitted code does.

### `Lexer`

A text is a sequence of *classes* of characters: those between which some rule or conversion makes a difference (a digit other than 0
is `digit`, a letter that nothing singles out is `letter`, `a` and `A` are the hexadecimal letters, of which one of the conversions takes only the second;
`byte` is a character that is not printable). `Lengths` has what each rule of `lexer.l` matches, `Chosen` is flex's choice: the longest match, the first of
those. `Token`, `Skip`, `InComment`, `End` are the rules by what they do. `Turn`, `Width` and `Visited` are the constructor's loop over
the body of a string, `CharOutcome` is `fixSingleChar`. Keywords are words, since only the token differs. `MaxDigits` stands for the nine
digits that always fit an `int`.

### `Parser`

A behaviour derives a program from the grammar and runs the semantic actions in the order a shift-reduce parser
runs them. `frames` is the stack: the productions that are being read, the innermost last, each with the `values` `$1, $2, ...` of
what it has so far. `Derive` starts a production for the symbol the topmost one waits for, `Shift` reads a token, `Reduce` takes a
complete production off and hands its value to the one below, `Accept` is the action of `Program`. `tokens` is what was read, `terminals`
the tokens this program may have, `reductions` a history variable. Each operator named after a nonterminal is the action of its
productions with the constructor, `append`, `reverse` or `merge` it calls; `Classes` are the types of `%type`. Of `Expr` only constants and
atoms are derived. `Derive` looks ahead only to the bound: it starts no production that could not be finished within `MaxTokens`.

`Parts` says what each node of the tree is in the concrete syntax, one level down, and `Text` goes down often enough to reach the tokens; it
is written from the grammar and knows nothing of the order in which lists are filled.

### `Driver`

`files` are the four temporary files with what is in them (a program, `Partial`, nothing), `stage` and `todo` where an invocation is. A
tool reads its input, truncates its output and writes it in three steps, so that others can step in between; `cleanup()` is a
look and a removal per file. `Kill` ends a script and its tool at any step and leaves the files. `Foreign` invocations belong to a user who
may not write over the files of others: opening `_tmp_.tony` then raises, `tonyc` goes on, `llc` and `clang` fail. `together` remembers who ran at the same time as another.

## The properties and the runs

| Run | Bounds | Shows |
|---|---|---|
| `captures` | 7 nodes, depth 3, 2 variables, every statement, declarations, a reference formal, results, arguments | `TypeOK`, `CapturesVisible`, `ScopesAreLinked`, `NoUninitialisedAccess`, `OneBodyPerFunction`, `CapturesAreFinal` |
| `backend` | 6 nodes, every kind of node, two types, wrong headers, a library function | `CompilerTypeOK`, `FunctionsAgree`, `ReturnsMatchFunctions` |
| `signatures` | 8 nodes, a reference formal, declarations | `WellBehavedCompiles`, `LexicalWithoutShadowing` |
| `scoping` | 11 nodes, depth 4, 3 function names | `FunctionsAgree`, `WellBehavedCompiles`, `CallsAreClosed` |
| `blocks` | 8 nodes, depth 4 | `TypeOK`, `BlocksAreClosed`, `BranchesStayInside`, `PerformsStatements`, `Implements` |
| `operators` | 8 nodes, 2 variables of 4 types, 3 operands waiting | `ExpressionsTypeOK`, `ElementsConform`, `AnyStaysNested`, `CompiledToItsType`, `FailsOnlyOn` |
| `texts` | 8 characters of nested comments, 6 with line comments, 6 of literals, 5 of escapes, 3 over every class | `LexerTypeOK`, `LineCountersAgree`, `CommentsNest`, `CharsAreWhole`, `ThrowsOnConversions`, `StringsEndAtQuotes`, `ScanEnds` |
| `programs` | 20 tokens, three vocabularies | `ParserTypeOK`, `TreeIsTheProgram` |
| `invocations` | 4 programs, 2 may overlap, 3 may be killed, 1 foreign | `DriverTypeOK`, `OwnResults`, `StatusTells`, `SuccessIsWhole`, `LeavesClean`, `Terminates` |
| `dynamic_scoping`, `open_callee`, `nil_element` | | the findings below |

Why these bounds are enough to be interesting: `MaxNodes` counts a definition with its
`end`, and beyond it only `skip` and `end` are possible, so every walk can be completed. A
nested function that captures, its caller and the function around both take eight
nodes; a declaration, its adoption and a second definition, six. Depth 3 has a function
that is neither the program nor innermost. All names are model values; a second
variable name lets captures and formals meet. `StmtKinds` chooses the statements of a run,
so that each run spends its nodes on its own question. `UninitBool` holds the values
that an uninitialised `isRef` or `isMain` may be read as: both in `captures` and
`backend`, whose properties must not depend on them; only `FALSE` in `signatures`
and `scoping`, since a `TRUE` makes the generator emit broken code for almost any program
with a variable, and would leave nothing to ask of the rest.

* `CallsAreClosed` is about calls of finished functions only; the other calls are the
  finding below.
* `WellBehavedCompiles` has a premise, `WellBehaved`, and each conjunct of it names
  a construct the generator mishandles: shadowed variables, calls whose callee still gains
  captures, declarations with reference formals or with formals named like a
  capture, values for references, `return` of a void call, a program with formals.
  The property says that nothing else goes wrong.
* `LexicalWithoutShadowing`: passing variables by *name* is lexical scoping as long as
  nested functions do not reuse a name.

The others:

* `blocks`: eight nodes are enough for a loop with an `if` and `else` in it whose branches leave or fall
  through, for an `if` with two `elsif`s, and for three constructs inside one another. `BlocksAreClosed` has one exception, the second return of a `return p()` at the end
  of a function without a result (below). `PerformsStatements` is the refinement of `Statements` step by step:
  the call performs the events the statements have and no others. `Implements` adds the liveness: the call stops nowhere on the
  way, and the branches the generator adds never make a loop of their own.
* `operators`: two declarations leave six nodes, enough to build, compare, push, hand over and take apart a list of
  lists; both orders of the two declarations are orders of insertion into the table.
  `ElementsConform` has a premise, that no `nil` was pushed onto a list; without it the property fails (`nil_element`).
  `CompiledToItsType` is about expressions that have a value and leaves out `nil`, `new` and an array taken out of a list, whose LLVM type is that of the list met first with
  its key. `FailsOnlyOn` says, of the expressions modelled, on which the generator fails although `sem()` accepted them: names and void calls
  of functions, `new`, such an array, a `nil` compared or pushed, an unset size; a new node whose struct was made for other arrays; a list of void or with a key twice.
* `texts`: a comment within a comment takes eight characters; the shortest string in which the two
  readings differ has five, a `\x` escape in a string six. `MaxDigits = 2` brings the limit of `int` within reach.
* `programs`: twenty tokens are enough for two local definitions or two formals of two names in a
  function, a function within a function, an `if` with two `elsif`s or an `if` within an `else`, a loop with two steps.
* `invocations`: two that overlap and two others are enough for a successor that finds what two interleaved or
  killed ones left. `OwnResults`, `StatusTells` and `LeavesClean` are about an invocation `OnItsOwn`: none ran at the same
  time, and it may write over the files it finds. What `OwnResults` says of the files moved beside the program has a second
  premise, `OwnsOutputs`: a later invocation for `a.tony` in the place of `a.ton`, say, moves its results over those of the
  earlier one, since the names differ from the argument in the extension only. `SuccessIsWhole` and `Terminates` have no premise: they
  hold of invocations that overlap and of foreign ones as well. With whose code those are done, nothing is said.

### Fairness

Both passes, the parser and the expressions walk over something finite in one process; nothing is asked of them but safety.
Three specifications state weak fairness, each of a process that nothing can hold up:

* `ControlFlow`: of `Run`, a call under way; `Statements` likewise, so that `Implements` carries the liveness over. Nothing is assumed
  of the compilation, and loops whose conditions stay true may go on for ever in both.
* `Lexer`: of `Next`; the parser asks for tokens until the text ends. `ScanEnds` then says that each rule takes something.
* `Driver`: of every invocation's `Step`; the operating system lets a script that is not killed go on, and so its tools. Nobody
  is obliged to start or to be killed.

## Where the code does not do what it says

* **Dynamic scoping** (`DynamicScoping.cfg`). `FunctionCall::compile` looks the captured
  variables of the callee up by name in the caller's block. A caller with a variable
  of that name passes its own. `programs/general/var_shadowing_extreme.tony` has such a call
  (of `h1` in `gg`) and says `% must print 42`. The run finds the same program in
  small: the callee captures `x`, the caller declares another `x` and calls it.
* **Open callees** (`OpenCallee.cfg`). `FunctionCall::sem` copies the callee's captures
  as they are at the call; `FunctionCall::compile` passes those it has at the end,
  "all references". If the callee was only declared or was still open at the call (recursion into an
  enclosing function that uses an outer variable afterwards), the caller has no
  variable of that name and a null pointer becomes an operand.
* **Elements of another type** (`NilElement.cfg`). Equality takes `any` for equal to every type, at any depth, and `#` gives
  its result the type of the left operand. `nil # e` is then a list of empty lists whatever `e` holds, and can be assigned to a
  list of lists of anything, although `semantic.cpp:182` reports an element that has not the type of the others.

Other places where the models follow the code and a property needs a premise because of it:

* The guard at `semantic.cpp:597` is false for every type, so a value is accepted for a reference parameter: `WellBehaved`
  excludes it.
* A function whose only `return` stands in an `if` is accepted and may yield the "dummy" result of `llvm/ast.cpp:922`; `Statements`
  has that end of a call too (`Leave(0)`).
* `return p()`, with `p` without a result, is accepted in a function without a result (`semantic.cpp:433`). At the end of such a function only
  `hasExitStmt()` is asked (`llvm/ast.cpp:915-917`), so a second return is put behind the first in the last block: `ReturnsTwice`. (The `ret` of a void value
  is refused by LLVM as well: `WellBehaved`.)
* Every array has the key `arr`, so lists of arrays share a struct: after a list of `int[]`, pushing a string stores an `i8*` into an `i32**`
  (`llvm/ast.cpp:411`), and `verifyModule` stops (`MadeForAnother`). A list of arrays of lists of arrays inserts a key twice and ends
  the compiler: `MayShare` and `KeyTwice`. `nil` that is pushed or compared, `new`, and a string whose uninitialised size is read as more
  than 0 meet an operand of another LLVM type; functions and void calls are compared and pushed as if they had a value: `FailsOnlyOn`.
* A string that ends in an escaped backslash swallows what follows up to the next quote of the line, and `\x` without a
  digit ends the compiler with an exception, as a number too large does: `StringsEndAtQuotes`, `ThrowsOnConversions`.
* Two invocations of the driver in one directory may hand over each other's program with status 0; and since `tonyc` does not
  look at the error of opening `out.ll` (`llvm/ast.cpp:80`), a foreign user's invocation compiles the file that is there; opening `_tmp_.tony` (`tony.py:50`) and a file that is gone between
  look and removal end it with an exception: `OnItsOwn`.
* `./tony -O -f -i <file>` (`src/README.md:29`) ends with an error, `tony.py:39`: `Start`.

## What is proved

Every theorem holds for all values of the constants that satisfy the named assumptions of its module: for any number
of names, any bound, any text, any number of invocations. The assumptions are `NameAssumption` (`None` and `Uninit` are not
values they could be confused with) and `GrammarAssumption` (inputs have the types the grammar gives them) of `Semantic`,
`NameOrderAssumption`, `LibraryAssumption` and `SlotAssumption` of `Compiler` (the order of `std::map` lists every variable's name once; the
library's parameters are passed by value, `initFunctions()` at `semantic.cpp:681`; no slot is "no slot"),
`ExpressionsAssumption` (declared types are those of the grammar: lists and arrays of a scalar; the bound on nodes is a number), `LexerAssumption` (texts consist of classes),
`ParserAssumption` (programs consist of tokens; the bound is a number)
and `DriverAssumption` (options are options, `Partial` is not a program).
`ControlFlow` assumes nothing.

### The semantic pass: captures and scopes

`SemanticProofs`:

* `TypeCorrect`: `TypeOK`;
* `CapturesStayVisible`: `CapturesVisible`;
* `ScopesStayLinked`: `ScopesAreLinked`;
* `NeverUninitialised`: `NoUninitialisedAccess`;
* `CapturesStayFinal`: the action property `CapturesAreFinal`;
* `Invariance`: the inductive invariant `IInv` they follow from.

The argument. `IInv == TypeOK /\ ScopesAreLinked /\ CapturesVisible /\ NoUninitialisedAccess`.
`CapturesVisible` says that every capture of a function registered in scope *k* is a variable of one of the
scopes *1..k*. It is not inductive alone. When the current function, of scope *n*, captures
a name, the property speaks about scope *n - 1*, where that function is registered, and nowhere
else: `RegisteredOnce` (no type is registered twice) and `FunctionsRegistered` (it is
registered there). A captured name is visible and not local, hence a variable
of a scope below *n*. When a call hands on the captures of a callee, the callee is
visible, say in scope *j*, its captures are variables of *1..j*, and those local to the caller
are left out. At the end of a definition scope *n* disappears: functions registered in it disappear with it, and
what the closed function captured lies in *1..n - 1*. At the end of the program *n - 1* is 2, and
`OuterScopesEmpty` says that scopes 1 and 2 have no variables: nothing is captured,
and the uninitialised pointer is not followed. `CapturesAreFinal` follows from the types alone: each
action adds captures to the function of the top scope or of the one below it.

### The semantic pass: the annotated tape

`SemanticProofs`, from `IInv` and the invariant `TapeInv` (`TapeInvariance`):

* `OneBodyEach`: `OneBodyPerFunction`;
* `ReturnsMatch`: `ReturnsMatchFunctions`;
* `CallsStayClosed`: `CallsAreClosed`.

Each of them relates nodes recorded long ago to function types that have changed since, so the invariant says what may still
change. `BodiesIn`: the type of a definition is not `declared` any more, and a definition takes a fresh type or one that
is declared; the flag is never set again. `ScopesIn`: an open scope has the result of its function, and if it remembers
a `return` then one is on the tape; the end of a definition looks there. `CallsIn`: the callee of a sealed call is
*closed* (defined, and the function of no open scope), so nothing adds to its captures, while the caller's captures
only grow. One lemma, `VisitKeeps`, carries all three over a step described by `Visits`; an action is then shown to be such a step.

### The code generator's tables

`CompilerProofs`, for the specification of both passes:

* `CompilerTypes`: `CompilerTypeOK`;
* `FunctionsFound`: `FunctionsAgree`;
* `CompilerIsPass`: `CompilerSpec` implies the specification of `Semantic`, so that all theorems about the pass hold of the compiler;
* `HistoryInvariance`, `CompilerInvariance`: the invariants they follow from.

The argument. The generator starts when the tables of the semantic pass are gone, so `FunctionsAgree` compares the
generator's lookup with one made long ago. `HistoryInv` brings the tables back: there is a sequence of moments, one between any two nodes of the
tape, that starts with the library's scope and in which every node moves the tables the way its kind does (`Moves`: a definition registers
its function and opens a scope, an end closes one, the callee of a call is what the name finds there). It is an invariant of the semantic
pass, each action adding one moment. `GenInv` then says that the generator, before node `pc`, is where the pass was before that node:
as many `RuntimeScope`s as scopes, each with an LLVM function of the function type registered under the same name, or none
(`Agree`). Two things make it more than a walk in parallel. A `return` or `exit` drops what follows it: `StaysUpToTheEnd` shows that
between a statement of a body and the next `end` no scope is opened or closed and no function registered, so nothing that is dropped could be missed. And
the types need that the names of a block's slots are parameters: that the formals have distinct names, which the semantic pass has checked
(`DistinctFormals`), and that `CapturedNames` lists each captured name that is no formal once (`CapturedNamesProperties`).

### The variables of compiled programs

`CompilerProofs`, its second half:

* `LexicalScoping`: `LexicalWithoutShadowing`;
* `WellBehavedIsCompiled`: `WellBehavedCompiles`, if no uninitialised flag is read as true (`TRUE \notin UninitBool`);
* `PlacesInvariance`: the invariant of the semantic pass it needs, `PlacesInv`;
* `CodePlacement`: the invariant of both passes it follows from, `CodeInv`.

The property says that the block the generator stands in gives every name the variable that `sem()` resolved it to, and a callee the
variables it captured. The two passes have no table in common: `sem()` has forgotten its scopes, and the generator passes variables by name. So the proof
speaks of variables without tables. A variable *is* the node that declares it (`IsVariable`), and a function has the set `ar[f]` of functions *around* it
(`Around`: one lies in the other), fixed when its type is made. `PlacesInv` then says, of any tape: what a node uses is a variable
of a function around the node's own (`UsesFit`), what a function captured is a variable of another function around it (`CapturesAround`), at a call the callee's
captures are known to the caller (`CallsFit`), everything a function declares stands inside all functions around it (`DeclaresInside`), and headers have one meaning for declaration and
definition (`HeaderFits`). `GenPlaced` says of the generator that each parameter it gave an LLVM function is a formal of the node it was made at or a capture of that
node's function, and each slot of an open block the variable of a function around the block's function. Shadowing is the absence of the two
meeting: if no name is declared in two functions one around the other (`NoShadowing`), the slot's variable and the resolved one have the same name in
functions around one function, and are the same (`OneDeclaration`). That the block at a node belongs to the node's function is `MomentBefore`, from
`HistoryInv`. The parameters of a callee are matched with its captures by position, so the proof needs the lists themselves: `NodeParamsAre` says what
the *i*-th parameter is, `CapturedParameters` what it denotes.

That a program compiles asks for more: not that a slot, if there is one, is the right variable, but that there *is* one, with the type `sem()` knows and
the level that tells whether it holds a value or an address. `BlockFits` says that a block has such a slot for everything its function has declared up to the node
and for everything it captures, and `GenFits`, an invariant together with `CodeInv`, that all open blocks do, as long as nothing is broken. It is inductive only
with *all* open blocks in it, since an `end` goes back to the block below. `FitsType` is the other half: whether an LLVM function is made at a declaration or at a
definition, its parameters have the types and levels of the function type's arguments and captures (`NodeFitsType`), so the operands of a
call, built from that type, match them. Each premise of `WellBehaved` is used where the code needs it:
`DeclarationsAgree` in `ArgsOfType` and `SkipsNothing` (a declaration lists the same captures as the definition), `NoShadowing` where a name has one declaration,
`SuppliesCaptures` in `CapturesAreSupplied`, `ReferencesAreVariables` in `OperandsFitType`, the operand of `return` in `ReturnFits`, the program without formals in `WriteCompiles`.
There is one lemma per action of `Generate` (`DeclarationFits` to `WriteCompiles`), put together in `GenerateFits`. The hypothesis about `UninitBool` is
that of the runs: with a `TRUE` in it a stack slot may count as the address of one (`VarList::isRef`, `semantic.cpp:279`), which no premise about the program
could exclude.

### The basic blocks are closed

`ControlFlowProofs`:

* `TypesHold`: `TypeOK`;
* `BlocksClose`: `BlocksAreClosed`, with its exception;
* `BranchesStay`: `BranchesStayInside`;
* `Invariance`: the inductive invariant `IInv`.

The properties are about a finished function; while it is compiled, blocks are open and branches lead to blocks not yet
attached. `IInv` says which. A body *promises* the blocks it will still attach (`else_bb` and `merge_bb`, or
`AfterBB`). `BlockInv`: every attached block but the one the Builder stands in ends once; that one holds no branch or return yet, unless
the innermost body has ended, and then it ends once as well; every branch leads to a block that is attached
or promised. `BodiesInv`: no block is promised twice or attached already, and only the innermost body can have
ended, since a construct resets the flags of none but its own. An `if` or `for` adds promises and opens a block, a `return` closes the
block, the end of a body fulfils one promise with `Enter`. At the end of the function only its own body is left, which promises
nothing: all targets are attached. What the function's end adds to the last block depends on the flag it asks: `LastInv` says, while the function is
compiled, that the flags of the innermost body tell what the last node is, and that the Builder stands in the last block, and so which function ends its last block twice
(`ClosedInv`). The lemmas follow the Builder's operators, one each for `Emit`, `Enter`, `Create`
and their combinations, so that each action is a line of such steps.

### The basic blocks perform the statements

`ControlFlowProofs`, its second half:

* `BlocksPerform`: `PerformsStatements`, that is, `Spec` implies `Init` and `[][Next]_vars` of `Statements` under the refinement
  mapping;
* `LabelInvariance`: the invariant `LabelInv` it needs beside `IInv`.

The argument. Every block is created for a *place* in the function: behind a node (a body, or the node after a statement), where control goes
if a condition is false, past the end of a construct, or at a condition. A labelling `r` gives every block its place, and with it every
instruction. `Fits` says that an instruction does what the tape has at its place, and that its targets are blocks for
the places it should lead to; `Role` that the blocks a body remembers are labelled for what the body will use them for; `At` that the Builder
stands where the next statement belongs. While the function is compiled, `Labelled(r)` holds for some `r`: each action
records one node, emits instructions that fit it and labels the new blocks. The one thing that cannot be known early is
where a condition that is false leads when nothing follows it, to the end of a construct that is not on the tape yet. So
`Past(n)` is a place of its own, `Skips` says which tests lead there, and the invariant adds that such a construct is
`Straight`: no `elsif` or `else` follows, since `more` was false.

Once the tape is complete, `Meaning` gives each place the set of events that may come there according to `Statements`. `Arrive` is a
recursive function; that its equation holds (`ArriveEquation`) needs the shape of a finished tape, where an arrival refers
to later nodes only. Every instruction then does an event of its place, and the place it leads to means what `Follows` has for
that event (`DoMeans`, `TestMeans`, `LeaveMeans`), a branch leads to a place of the same meaning
(`BranchMeans`): the invariant `CallAt` says that the meaning of the place of `ip` is `Follows(last)`, and this is the refinement.

### The types of expressions

`ExpressionsProofs`, for any declared types and programs of any size:

* `ElementsHaveTheirTypes`: `ElementsConform`;
* `AnyIsNested`: `AnyStaysNested`;
* `OperandsHaveTheirTypes`: the inductive invariant `ExpressionsInv` they follow from;
* `ExpressionsTypes`: `ExpressionsTypeOK`; `ExpressionsCompileToTheirTypes`: `CompiledToItsType`; `GeneratorFailsOnlyOn`: `FailsOnlyOn`;
* `CatalogKeeps`: the inductive invariant `GeneratorInv`, which adds to `ExpressionsInv` what these three follow from.

The argument for values. Equality of types is symmetric but not transitive, since `any` equals everything: a value that goes from type to type through
equal ones may end in one it does not have, and after a `nil` was made an element it does (`nil_element`). What keeps it from doing so
before is which types have an `any` in them at all. `Word` says it: the last letter of a type, and no other, is a scalar or `any`, and if it is `any` then all before it are
`list`. So `any` alone is no word, which is `AnyStaysNested`; it is inductive only because `head` and `tail` refuse a `nil` (`IsNilConstant`, `NestedWord`). Until
a `nil` is pushed, every type that a value is *given*, by a declaration, a call or `#`, is `Plain`: it has no `any`. And a value that has any type equal to a plain one has the plain
one too (`HasTransfers`): down to the `any` both types say the same of it, and further down an empty list has
nothing to be wrong. That is why `Has` is more than `Conforms`: the values in arrays are only known by a type, and `Sound` adds that this type names no `any`. `Inside`, a
recursive function, goes down a value level by level from above; `InsideElements` goes from below, which is what `#`, `head` and `tail` need. The proof has a
lemma for each way to make a value (`LinkHas`, `PartsHave`, `SampleHas`, `NilHas`) and one for each action (`ConstructKeeps`).

The argument for LLVM types. `CompiledToItsType` speaks of the table as it is now, and the LLVM type of an operand was made when the table
had fewer lists in it. A type is `Settled` when translating it adds nothing to the table and gives this LLVM type, and three things have to be known of that.
It stays true while the table grows (`SettledStays`): a list that adds nothing is known (`SettledKnown`: otherwise the table would be longer), and what is
known stays known. Whatever `Translate` does without an error leaves its type settled (`TranslateSettles`). And what a settled list
is of is settled too, with the element of its struct for an LLVM type (`HeadSettled`), so `head` gives a value of the right LLVM type and `head` and `tail` never add to the
table. The last does not follow from the first two: the key of a list says only down to the first array what the list is of. It takes `CatalogFits`: a struct whose key is
`list_` before another list's key holds that list's struct, and one whose key is `list_` before a scalar holds the scalar. Of a list of arrays the key says
nothing more, which is why an array that comes out of a list is left out (`MayShare`). A new struct fits because its element was settled before it (`CatalogGrows`). The
one error, a key inserted meanwhile, needs a list inside the type with the key of the type: `Grown` says that every new key is one of a list in it, and `KeyTwice` follows.
`Translate` is unfolded one letter at a time: that the recursive function exists and satisfies its equation
is an induction of its own (`LayersExist`, `TranslateStep`). What the generator fails on then comes out of the
comparison of two settled operands: types that are equal without an `any` or a size are the same (`EqualAreSame`), and so are their LLVM types.
A function or a void call equals only its like and `any` (`OthersAreUnequal`), and a list of void has no key (`VoidHasNoKey`). A new node is cast to the LLVM type of its
own type, and the struct of its key has an element of that type unless it was made for another list of the same key, which by
`CatalogFits` takes arrays (`OnlyArraysMisfit`).

### The lexer

`LexerProofs`: `LexerTypes`, `LinesAreCounted`, `CommentsAreNested`, `CharactersAreWhole`, `OnlyConversionsThrow`, `StringsEnd` are the
safety properties of the run `texts` by their definitions `LexerTypeOK`, `LineCountersAgree`, `CommentsNest`, `CharsAreWhole`,
`ThrowsOnConversions`, `StringsEndAtQuotes`, on all texts. `LexInv` (`LexerInvariance`) is their conjunction with the types of the text and of the
matches. The work is in the operators: what each rule takes lies on one line but for its last character (`OnOneLine`), a longest run is a prefix
of such characters, the second reading of a literal goes over the same body, and its turns of the loop end where the pattern
ended or beyond an escape.

### The parser

`ParserProofs`, for programs of any length and nesting:

* `ValuesHaveTheirTypes`: `ParserTypeOK`;
* `TheTreeIsTheProgram`: `TreeIsTheProgram`;

from the inductive invariant `ParserInv` (the lemma `ParserInvariant`).

The argument. `TreeIsTheProgram` is about the finished tree; while the program is read there is no tree but a stack of incomplete
productions. What they have so far is put in a row (`StackRow`: the values of all frames, from the bottom to the top), and the invariant says that this row *spells* the
tokens read: replacing each node by its parts, `reductions` times, gives `tokens`. A list that is still being
filled is in the row turned around, and `Items` says so: the value of a `Simple_Comma` or `Stmt_Full` is the reverse of what it stands for, each
element behind its separator if there is one; that of a completed list the elements themselves. So the place where a production reverses its list is the place where
the reading of the value changes, and one `reverse` too few or too many breaks the lemma of that production. There is one
lemma for each of them (`HeaderRule1` and the like): if the values of the right side have their types, the value that is made has its type, and
in the row it is either what was there before or one node whose parts these are (`Made`). `EveryRule` puts them together.
A `Shift` appends a token to the row and to the program, a `Reduce` replaces the end of the row (`RowMade`), a `Derive` changes nothing in
it. When the first production is complete the row is the tree alone.

That a node is replaced by its parts everywhere at once (`Expand`, `Text`) distributes over a row put together from two (`TextTogether`)
is what lets a `Reduce` speak of its own end of the row only; that further rounds change nothing once all is tokens (`SpellOnceMore`)
lets all nodes be expanded equally often, however deep they are. The type of a value is needed for this as much as the row is: which parts a node has
depends on its class.

### The driver

`DriverProofs`, for any number of invocations, options and arguments, any of them killed or foreign:

* `DriverTypes`: `DriverTypeOK`; `HandsOverOwnResults`: `OwnResults`; `StatusTellsTheTruth`: `StatusTells`; `SuccessHandsOverAll`: `SuccessIsWhole`; `CleanupLeavesClean`: `LeavesClean`;
* `DriverInvariance`: the inductive invariant `DriverInv`.

`Shape` ties what is left to do to the stage and the options. `Relies` lists, for an invocation on its own, the files it still relies
on at each stage: nobody else runs, so what is in them is its own, and a stage is reached only if the tools before it
succeeded. `HandsOver` and `Clears` are what was handed over and what cleanup still has to remove. A step of another
invocation disturbs none of this, since it starts only when nobody runs or makes both `together`. No exception ends an invocation on its own:
the files it moves and removes are there, and it is not foreign.

`SuccessIsWhole` has nobody on its own to rely on. Its invariant `Whole` counts what an invocation itself has moved and printed by the stage it
is in, and others can do no harm to that: what stands beside a program may be replaced, but is never taken away (`Kept`).

### Induction without an induction theorem

The provers cannot instantiate a theorem whose parameter is an operator. `LeastNumbers` therefore states that a set of
natural numbers has a least member (from the well-foundedness of `<`, whose theorem has no such parameter), and an induction over data is done on the set of
counterexamples: so `ArriveEquation` (over the tape, from its end), what
`CapturedNames` lists (`UpToExists`), the levels of a value (`LevelsExist`), the LLVM type of a type (`LayersExist`, `SettledStays`), the rows of
the parser and their rounds (`FlattensExists`, `TextTogether`), and the facts about runs, `Min` and `Max` in the lexer. It
proves statements over one recursive *function*; what RECURSIVE operators compute stays out of reach.

### What is only model-checked

* Liveness under fairness: `ScanEnds`, `Terminates`, and what `Implements` has beyond `PerformsStatements`.

Every safety property of a passing run is a theorem.

## Not modelled

* *Test runner* (`programs/run_tests.py`): a sequential script.
* *Destructors and printing* of the AST and of the symbol table; the *text* of messages and the *lines* they name (`setLineno`).
* *Generated code*: the LALR tables and the resolution of conflicts by precedence. The grammar's productions and actions are modelled,
  that bison picks the right one is not; the operators of `Expr` are in `Expressions`.
* *LLVM*: its optimisations, the lowering of instructions, arithmetic of the emitted code. What the compiler relies on
  (the Builder, the verifier, which operands fit) is modelled and marked external.
* *The library* behind `puti` and the others, and the collector; the size asked of it for a list node (`llvm/ast.cpp:406`) is the size of the element.

## Plan

1. *Done*: all modules above; the theorems about `Semantic`, `Compiler`'s tables of functions and variables, `ControlFlow`, the types of `Expressions`, `Lexer`,
   `Parser` and `Driver`, the refinement of `Statements` among them.
2. An abstract specification of lexical scoping (what a captured variable is, without tables), with `Semantic` shown to implement it.
