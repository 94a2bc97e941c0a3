# Verification of SrcLang in TLA+

SrcLang is a bytecode language: a one-pass compiler turns source text into
words, an interpreter runs them on operand stacks, and a mark-and-sweep
collector frees what the program has lost.  This directory holds TLA+ modules
that model the parts of `src/src` whose correctness depends on what happens
over several steps, the TLC runs that check them on small instances, and
theorems about eight of them, proved with TLAPS for every value of the
constants.  Paths such as `Interpreter.cpp:914` are below `src/src`.

`PROJECT.json` lists the components, the runs, a mutant for each checked
property, the lines each definition models, the disagreements found between
the code and what the repository says of it, and the hazards.

## 1. Inventory

| Component | Files | State | Operations |
|---|---|---|---|
| Garbage collector | `MemoryManager.*`, `Interpreter::gc/addObject` | `heap` vector, a `marked` flag per object, `nextGc` | `mark`, `sweep`, `gc`, `addObject` |
| Symbol tables | `SymbolTable.*`, `Compiler::identifier/let/loop/function/use` | per table: `store`, `free`, `definitions`, `parent` | `define` (4 kinds), `resolve`, `push_scope`, `pop_scope` |
| Code generation | `Compiler.cpp`, `Instructions.h` | `instructions` (one unit per open function), constants | statements, expressions, `patch_loop` |
| Pratt parser, lexer | `Compiler.cpp` | iterator, current and peeked token | `expression`, `prefix`, `infix`, `eat` |
| Call machine | `Interpreter.*`, `Function.h` | `contexts` (stack, frames, `defers`), `debugInfo` | the loop `run()`, `call*`, `run(ByteCode)`, RET, HLT, DEFER |
| Allocation sites | `Interpreter.cpp`, `Builtin.cpp` | stack, globals, constants, heap | every statement that creates an object |
| Values and operators | `Value.*`, `Interpreter::unary/binary` | none (NaN-boxed words) | operators, casts, indexing, slices |
| Builtins with resources | `Builtin.cpp` | files, pointers, terminal attributes | `open`, `exec`, `term`, `alloc`, `free`, `eval` |
| Module loading, options | `Compiler::use`, `Interpreter::search` | `loaded_imports`, `options`, `handlers` | `use`, `#!` pragmas |
| Command line | `main.cpp` | error stream, symbol table | script and interactive loop |
| Native functions, listing | `Interpreter.cpp`, `ByteCode.cpp` | none | libffi calls, printing |

How they interact.  `Interpreter::run(source)` compiles into the interpreter's
symbol table and constants, pushes a context and runs it.  The compiler opens a
table and a unit for each function; the slots and captures of the table are
the operands of LOAD, STORE and CLOSURE.  The loop calls closures by pushing
a frame, and builtins by a C++ call; `eval`, `exec`, `term` and every deferred
function call `run(ByteCode)` again, on a new context, from inside the loop.
Every statement that creates an object calls `addObject`, which collects now
and then with the stacks, globals, constants and builtins as roots.

There is one thread.  What is hard here is the order of steps that are far
apart in the code: a collection in the middle of a statement, a loop
activation inside another one, an error or exception that leaves some of the
stacks behind, an operand that is patched long after it was emitted, a symbol
that is looked up before and used after a nested function was compiled.

What makes each component correct:

- **Collector**: frees exactly what is unreachable, never something in use,
  whatever cycles there are; leaves no flag set; terminates.
- **Symbol tables**: no two variables share a slot, captures are chained to
  the right variable, a name means one thing in a scope.
- **Code generation**: each `break`, `continue` and branch lands where it
  should, and the stack height does not depend on the path taken.
- **Call machine**: frames do not overlap, a call of any kind leaves its
  caller's stack as it expects it, runs and contexts correspond, deferred
  functions run, errors are reported at the right place.
- **Allocation sites**: no statement exposes a value to a collection that it
  still needs.
- **Expressions**: the parser accepts exactly the expressions of the language,
  groups them by precedence, and the code computes what they mean.
- **Resources**: a block is released once and by someone, a stream when the
  program asks for it and never behind its back, the terminal is restored.
- **Imports, interactive loop**: the code that runs is that of the files the
  names stand for, wherever they are used; every line comes to an end, and a run
  leaves on its stack what its text says.

## 2. Modules

| Module | Models |
|---|---|
| `HeapGraph` | reachability in a graph of objects |
| `Collector` | the abstract collector: a collection is one atomic step |
| `MemoryManager` | the stepwise collector, refining `Collector` |
| `SymbolTable` | chained tables, resolution, and the accesses emitted |
| `Interpreter` | the call machine |
| `Codegen` | emission, patching, stack heights |
| `Allocation` | the allocating statements over an atomic collector that may misbehave (left-over flags, double entries, shared payloads) |
| `Values` | values, truth, unary and binary operators, as pure operators |
| `Expression` | the expression parser, its code, and the machine that runs it |
| `Grammar` | what an expression is, stated without a parser |
| `ExpressionMeaning` | how an expression is grouped and what it means, without parser and machine |
| `Session` | lines, scripts, files, imports, `eval`, errors and exceptions |
| `SessionMeaning` | what the lines of a session mean, stated from their texts |
| `Resources` | blocks, streams, the terminal, and what the collector releases |
| `MemoryManagerProofs`, `SymbolTableProofs`, `InterpreterProofs`, `CodegenProofs`, `AllocationProofs`, `ResourcesProofs`, `SessionProofs`, `GrammarProofs` | theorems |
| `MC*` | the constants of the TLC runs |

### MemoryManager

`done` and `todo` together are the vector `heap`, split at the iterator of
`sweep`; `marked` is the set of objects whose flag is set; `pending` stands for
the recursion of `mark`; `roots` for what stacks, globals, constants and
builtins hold; `refs` for what each object's payload refers to; `adding` for the
argument of `addObject`; `nextGc` is the threshold, with the multiplication by
1.5 and the limit.  `mark` takes one object at a time (`MarkOne`), `sweep` looks
at one entry at a time (`SweepKeep`, `SweepFree`), so that the properties
speak of the middle of a collection as well.  The program between collections
loads, stores, drops and allocates at will, under the discipline the header of
the module states.  `Allocation` shows which statements keep it.

### SymbolTable

Level 1 is the interpreter's table, each open function or imported module is
one more level.  `resolve` recurses to the owner and captures on its way back;
the model does this in one step in closed form, over all levels in between.
Each step is one of the compiler's uses: a name in an expression, `:=`/`=`
(looked up before the value and stored after it), `let` and `let global`,
`for x in`, the start and end of a function (plain, assigned, or deferred) and
of a module, and a compile error, after which the interactive loop goes on with
the table as it is (`Abort`).  `emitted` and `target` record the LOAD or STORE
with the level that declares the variable it stands for.

### Interpreter

A context is the height of its stack, its frames, and the defers of every frame slot
(slots above `fp` keep theirs: that is the code).  `runs` is the native stack of
activations of `run()`.  `debugInfo` is the vector of that name. The operands' values
are left to the program; the heights are exact: variadic packing (`Packed`), the extra
argument of maps and bounded values, the two of `__set_index__`, RET from nested frames,
HLT, the nested runs, a runtime error that ends `run(ByteCode)` (`Fail`), a C++
exception caught by the nearest `callBuiltin` (`Throw`), and `exit()`.  The compiler
accepts `return` in a script and in a text for `eval` (`Compiler.cpp:931`), and RET does
not ask where it is: there it sets `sp` below the stack's first slot, moves `fp` in
front of the frames and pops the script's entry of `debugInfo` (`ReturnFromScript`).
What the loop reads next, in front of an array, is undefined: the run is `lost`, its
context has no frame, and the model has only the end of the process after it.  `own`,
`due`, `issued`, `ran`, `again` and `escaped` are history variables.

### Codegen

`units` is `Compiler::instructions`, `open` the native stack of statement and
expression procedures; each step is what the source says next.  Words are
numbers, because `patch_loop` (`Scan`) reads operands as opcodes when sizes
do not agree.  The height of the operand stack is recorded for each
instruction; `goals` records where breaks and continues ought to go.
`PlainLoops` keeps lists, maps, `and` and `or` out of loops, `chained` tells
units with a condition of two parts, and a `break` outside of a loop (`Stray`,
accepted and never patched) is exempt from `StackBalanced`.

### Allocation

The stack and one global hold objects; an object has a payload that others may
share; `entries` counts its places in the heap vector.  A collection is one
step with the exact effect of `mark` and `sweep`, flags left over and double
entries included.  Each statement builds its object, takes its operands off and
registers in the order of its code.  There are three groups:

- *rooted*: safe at any time (concatenation, `str`, variadic calls, `range`);
- *unrooted*: safe only while `addObject` does not collect.  List literals and
  `clone` lose what they refer to; map literals, closures and `list + list` push
  the object before registering it, so that it is registered with its flag set,
  and the collection after the next stops at it and frees what it holds;
- *sharing*: never safe.  `append` and `pop` share the payload of their
  argument; a bounded value's parent is not marked; `term` returns an object
  that is registered already.

`SafeSpec` allows the first group always and the second when `automatic` is
false (the heap is below `nextGc`, or `nextGc` has reached its limit; only the
builtin `gc()` collects).  `ListSpec` adds list literals, `AppendSpec`
`append` and `pop`; `Spec`, with everything, is the definition of the whole and
no run uses it.

### Values, Expression, Grammar, ExpressionMeaning

`expression(prec)` calls itself through `prefix`, `infix`, `binary`, `unary`,
`list`, `call`, `index` and `subscript`.  `active` is the stack of its
activations, each with the procedure that waits for it (`for`) and what that
procedure keeps: opcode, closing token, count, the position of its CHK.  `point`
says where the innermost one is, between two calls of `consume`.  `Eat` chooses
the next token, so that the model has every input, right or wrong, up to the
bound; `Reject` is the exception of `expect`, `check` and `error`.  `consume` and
`check` look at the kind of a token, but the loop of `expression`, `infix`, `index` and
`expect` look at its spelling (`cur.literal`) alone, so that a string may pass for an
operator, a comma, a semicolon or a closing bracket.  The current token is therefore a
spelling (`cur`) and whether it is a string (`quoted`); `Token` is what `consume` sees.
What has been read is recorded as what the parser took it for.  A call of `UINT8_MAX`
arguments or more is an error at its closing bracket (`TooManyArguments`); the run sets
the limit to 2.  Accepted code
of operators and operands is then run: `LoadOperand` chooses the value of an
operand, `Check` is CHK with its jump, `Operate` applies `Values`.

`Values` follows the order of the tests in `Interpreter::binary`: two types, `or`,
two nulls, then the type of the left operand.  Numbers are integers here.  The
sum of two strings is `Undetermined`: its terminator is written one byte behind
(`Interpreter.cpp:344`), and a run that comes to one ends.

`Grammar` does not parse.  `MayFollow` says which token may follow the beginning of an
expression, from the brackets around its end.  In `ExpressionMeaning`, which needs
recursive operators, `Tree` splits a whole expression at its loosest operator and
`Meaning` evaluates the tree.  `StandsFor` says what a string stands for in its place:
`1 "+" 2` is the sum, as the code reads it.  `MayClose` is the limit on arguments, from
the commas between the brackets.  The string `":"` as an index, which the code takes for
the beginning of a slice and then rejects, is exempt (`ColonMistaken`).  The properties
hold the parser against them: a mistake would have to be made in both forms to go
unnoticed.

### Session, SessionMeaning

`active` is the native stack of compilers and runs of one line: `use()` puts a
compiler on a compiler, `eval` a compiler on a run, and the end of a text turns
its compiler into a run or, for an imported file, into a function of the
importer's code.  An activity carries what belongs to it in the code: the rest
of the text, `loaded_imports`, the instructions, the height of its context's
stack, and the heights at the calls in progress.  `search` belongs to the
interpreter and survives.  `phase = "raise"` is an exception on its way:
`Unwind` takes it one compiler further at a time, as `use()` catches it and raises
its own, up to `run(source)`.

Code that runs may end in every way the loop has.  A runtime error gives an error
value (`RuntimeError`).  An exception, such as that of `at()` in SET
(`Interpreter.cpp:1084`), is caught by no try block but that of `callBuiltin`: without a
builtin below it the process is aborted, and under `eval` the run that called `eval`
ends in an error and pops the context that was left behind, in the place of its own
(`Escape`).  When it comes from a run that `exec` or `term` has started, this run ends
in an error and the one below goes on in the middle of its code (`EscapeNested`).  SET
of a wrong value in a string reports an error and ends the run as HLT does (`Finish`).
`exit()` and a `return` outside of every function end the process (`Quit`).
A statement such as `if a; b {...}` leaves the value of `a` on the stack (`RunParts`);
every other one keeps the height.

A line that begins with an illegal token throws in the constructor of `Compiler`,
outside of the try block of `run(source)`: at the prompt this ends the process
(`abort`), under `eval` the builtin throws.  `overflow` stands for the native stack
that files which use each other fill.

`SessionMeaning` gives the code a text stands for (`CodeOf`), by how deep its imports
nest: the body of each file in the place of its first use, found with the search path
as it is in the end.

### Resources

An object is a pointer or a file (the map `open` returns with its `__ptr__`);
`heap` holds those that are registered, `held` those the program reaches.  The
pointer of a file is never registered, only the map is.  `Collect` is the effect
of `mark` and `sweep` on these objects in one step, with the cleanup function of a
pointer.  `Free`, `Close`, `Clone`, `OpenPointer` and the alias a native function may
return are the ways to share a resource.  `released` counts how often a block or
stream has been released, `asked` how often the program has asked for it.
`terms` holds the attributes saved by the calls of `term()` in progress; `Throw` is
an exception of a callback, which restores nothing.

## 3. Runs

| Run | Shows | Bounds |
|---|---|---|
| `collector` | `NoDangling`, `CleanMarks`, `NoFloatingGarbage`, termination, refinement of `Collector` | three addresses, `nextGc` from 0, limit 3 |
| `resolution` | slots, captures, addresses, stability of names | two names, one a builtin; four levels; 1, 3, 2, 1 variables; two parameters |
| `calls` | frames, balance of calls, debug info, contexts, deferred functions, returns outside of functions | two functions; stack of 5; 3 frames, 3 runs, 4 debug entries, one defer |
| `codegen` | jumps reach their loop and land, stack balanced | four steps, three pending operands, four open constructs, two units, 100 words |
| `allocation` | no dangling value, no flag left, for `SafeSpec` | five objects, two on the stack, two elements |
| `expressions` | the parser reads the language, groups it, and the code computes its meaning | seven tokens of 18, most of them once or twice, seven spelled by strings too; less than two arguments; up to five operands and operators are run, with six values |
| `session` | code of imported files, stack, names of files, every line ends | three lines of fifteen; three files in two directories, 7, 3 and 1 texts; five activities |
| `resources` | one owner per block, streams closed as asked, terminal restored | two blocks, one stream, five objects, two nested `term()`, two requests |
| `defer_once` | finding: defers called again | as `calls` |
| `loop_jumps` | finding: a break behind a list of five is not patched | four steps |
| `list_elements`, `appended_list` | findings: elements of a list literal, and the payload of an appended list, are freed | as `allocation`, with three objects on the stack |

The passing runs are exhaustive: about 22 000, 148 000,
893 000, 805 000, 831 000, 2 702 000, 75 000 and 485 000
distinct states, in the order of the table.

Why the bounds are enough.  Three addresses hold a cycle of a list and a closure with a
third object that is lost or kept, and the threshold of 0 makes every `addObject` a
candidate for a collection.  Four levels are a capture passed on through a function in
between, below the program, three slots are a for-in loop over a new name.  Three runs
are a builtin in a deferred function in a script; a frame slot is used twice in a
context of three.  Four steps nest two loops with a break in a condition, or a function
in a loop; 100 words are never reached.  `codegen` leaves out NOT and INDEX, which take
and leave as many operands as STORE does, and as ADD and SET between them; the theorems
about `Codegen` are not limited to these operators, or by any bound.  Five objects are a
constant, a string, two lists and a closure, enough for an element that only a list in
another list holds.  Seven tokens are two binary operators with a prefix or a pair of
brackets, or three operators and four operands: the smallest inputs in which an operator
has to come back to one that waits below another.  Three files allow an importer, an
imported file, another of the same name in the directory that is added later, and a
circle; three lines, an error or a directory of one that a later one meets.  One
argument is what a call may have when the limit is 2, two are too many.  Five objects
are two files of one stream with a third pointer; two blocks, a block and its clone.

Deadlock is checked in `resolution`, `resources`, `session` and `expressions`; in
the last two the end is a step of its own (`Ended`, `Ending`), so that a parser or
a session which is stuck before it would be found.  In the other runs it is not
checked, because the bounded program really may stop: addresses, debug entries
or steps run out.

Fairness.  `collector` checks termination with `WF_vars(Gc)`: the collector runs on
the only thread, and once it has started nothing else runs until it is done.
`session` checks `LinesEnd` with `WF_vars(Compile \/ RunStep)`: the only thread
compiles or runs; nobody has to enter another line.  Files that use each other
are exempt, and reach the overflow.  That code comes to its end, in one of the ways
listed above, is part of the model: a program may loop for ever, of course, and so
does a `break` outside of every loop, which is accepted.

`BindingsStable` and `FilesStay` are action properties; the violation runs check safety and
assume no fairness.

## 4. Proofs

| Theorems | Of | By |
|---|---|---|
| `Invariance`, `TypeCorrect`, `SweepIsSafe`, `MarksAreCleared`, `CollectionIsComplete`, `Implements` | `MemoryManager` | `IndInv` |
| `Invariance`, `TypeCorrect`, `SlotsAreDistinct`, `CapturesAreValid`, `AccessesAddressTheirOwner`, `BindingsAreStable` | `SymbolTable` | `IndInv` |
| `Invariance`, `TypeCorrect`, `FramesAreNested`, `CallsAreBalanced`, `RunsHaveTheirContexts` | `Interpreter` | `IndInv` |
| `InfoSuffices`, `ErrorsAreLocated`, `DeferredFunctionsRun` | `Interpreter` | `InfoInv`, `DeferInv`, over `IndInv` |
| `TypeCorrect`; `LoopJumpsAreRight`, `CodeIsClosed`, `StackIsBalanced`, with `PlainLoops` | `Codegen` | `Typed`; `Inv` |
| `Invariance`, `TypeCorrect`, `SafeProgramsKeepValues`, `MarksAreClean` | `Allocation` | `IndInv` |
| `Invariance`, `TypeCorrect`, `BlocksAreOwned`, `StreamsAreClosedAsAsked`, `TerminalIsRestored` | `Resources` | `IndInv` |
| `FilesStayFound` | `Session` | `SearchInv` |
| `StackInvariance`, `TypeCorrect`, `RunsLeaveTheStack` | `Session` | `MeaningInv`, with `StateOK` |
| `RunsWhatTheTextMeans` | `SessionMeaning` | `MeaningInv` |
| `Sizes`, `TypeCorrect` | `Expression`, `Grammar` | `Sized` |
| `ReadsOnlyExpressions` | `Grammar` | `InLanguage`, over `Sized` |

*MemoryManager.*  `NoDangling` is not inductive: in the middle of a sweep it
holds because of what marking has achieved.  The invariant is the tri-colour
argument: a marked object refers to marked or pending ones only (`MarkInv`),
marked and pending objects are reachable, hence with nothing pending the
marked objects are the reachable ones; during the sweep what is behind the
iterator is reachable and unmarked, what is ahead is marked if and only if it
is reachable (`SweepInv`); between collections no registered object is marked
(`RunInv`).  The proof begins with the facts about reachability: it is the
least set that holds the roots and is closed under references, monotone, and
not changed by what an unreachable object refers to.  `Implements` maps the step
that begins the sweep to the abstract collection, every other step to a step
of the program or to a stutter.  The assumptions are those on the constants.
`AllocationProofs` states the facts about reachability that it needs once more.

*SymbolTable.*  The four safety properties need each other, and need
`LevelsInv`: only level 1 declares globals, closed levels are empty, an access
is made from the level being compiled.  Captures of a level are valid only
because the parent's tables never change under them, which is
`BindingsStable` for the levels in between.

*Interpreter.*  Frames and balance are properties of one context and are proved
for one (`ContextOK`), with lemmas on pushing, popping and replacing a context;
then the runs are counted against contexts.  The context of a run that is lost has no
frame and is the innermost one, so that it disturbs none below it.  That the operands of an
instruction lie above the locals of its frame is an assumption about the
compiler's code (`HasOperands`), and `StackIsBalanced` proves it of the code
`Codegen` emits, with the provisos below.
`debugInfo` is one vector for all contexts, and a nested run that ends leaves its
entry there.  `InfoSuffices` counts: there are as many entries as frames in all contexts
or more, so a return always finds one, outside of a function too.  `InfoInv` says where
they are: until a nested run has ended in this run, with an error or without, the last
entries are those of its frames, one by one (`Describes`), so that the last one is that
of the frame which runs.  `DeferInv` says of a frame that what its call
has deferred is still in the list of its slot (`DefersKept`), and that a frame on
its way out (`Deferring`) has called all of the list but what it has still to call;
a list that an earlier call left behind only makes it longer.

*Codegen.*  The properties speak of finished code, where all is patched.  The
invariant says how far a unit is while constructs are open in it.  Its
instructions tile its words (`Layout`); each jump lands on the start of an
instruction or on the next one to be emitted (`Lands`), but for those of the open
constructs (`Anchors`) and the breaks and continues of open loops, whose operand is
still 0; every goal of a closed loop is met (`GoalsMet`); and along every jump
that is patched, as along every step to the next instruction, the recorded heights
agree (`Heights`, `Level`).  `Frame` adds what the procedures on the native stack
hold of the unit: the positions they will patch, the start of their loop, the
values under them, and that an outer loop's breaks lie before the start of an
inner one.  `Shaped` says it of every open unit with its stretch of `open`.

`patch_loop` is the point of it.  It steps from the start of a loop by sizes of
its own, and in a loop that holds no PACK, MAP and CHK it sees exactly the starts
of instructions (`SeenIs`); so it finds every break and continue of its loop, and
of no other: those of inner loops are patched, those of outer loops lie before.
This is where `PlainLoops` is needed, and the finding `loop_jumps` shows that the
theorem is false without it; it is a hypothesis of the three theorems, as it is
a constant of the run.  A finished unit satisfies `Final`: the last POP turned
into RET (`Completed`) moves no instruction and changes no height before it
(`Returned`).  `StackBalanced` holds of units that are not `chained`.  Lists, maps,
`and` and `or` outside of loops, and functions within loops, are covered.

*Allocation.*  `NoDangling` alone is not inductive, since a statement that is safe
today makes a root of what it reads.  `HeapOK` adds that whatever the roots reach
is in the heap vector, or is a string or number that was never registered, and
that nothing in the vector carries a flag.  One lemma about `addObject` says
what a collection in the middle of a statement keeps: all that the roots and the
argument reach.  Each statement of `SafeNext` then differs only in what it popped
before.  The theorems are about `SafeSpec`; the two findings show that they are
false without it.

*Resources.*  `BlocksHaveOneOwner` and `ClosedAsAsked` need `PointersKnown`: the
collector knows no pointer to a stream, hence a sweep releases blocks only, and
a file always has one.  `TerminalRestored` needs `FirstSaved`: the attributes the
outermost `term()` has saved are the original ones, whatever inner calls leave
behind.  The assumption is that blocks, streams and the null pointer differ.

*Session.*  `FilesStay` is an action property of a path that only grows at
its end: the first directory that has a file stays the first (`FirstFound`,
`ExtendedKeeps`, from the well-foundedness of the natural numbers).

`StackAfterRun` speaks of the end of a run, and everything before it has to be
right as well: `StateOK`.  The code of a text is a walk (`Walk`): behind each
word a fixed number of calls is open, and below the outermost of them a fixed number of
values is on the stack, less than none where a value is dropped that is not there.  A
run stands somewhere on the walk of its code, and has passed no such place (`RunAt`).
The values that the statements of a text leave are a sequence of their own (`Tally`),
and at the end of each statement the walk has the height of the tally (`Tallied`); hence
a run that has come to the end of its code has left what its text says, and no
statement of it took a value that was not there.  What an imported file leaves is gone
with its call, since RET restores the height.  What lies below another activity waits
at the `use` or the `eval` it made (`Waits`).  Walks and tallies are functions of the
position, so that no recursive operator is needed, and the inductions over positions go
by a smallest counterexample (`Least`).  When a file is found again after a directory was
added, or a text was rejected, the tally of what has been compiled is still that of the
search path of now, since a name that was found keeps its file.

`CodeOfTheText` relates the code to the text and the search path *of now*, while the
code was emitted with the search paths of then.  `MeaningOK` says it of every
compiler on the native stack: it has emitted the code of the statements behind it,
as they would be compiled now (`Means`), and the text above a compiler is that of the
file its next statement uses (`Linked`).  A code that is known stays the same when a
directory is added at the end of the search path, since a name that is found keeps
its file (`GrownMeans`, from `ExtendedKeeps`).  One that is not known, because a
text does not compile or a file is not found, is never run, which is where the
depth of imports comes in: the compiler at place k may still nest `Fuel(k)`
files.  What a text means is a recursive *function* of this depth, and so within the
prover's reach.

*Grammar.*  `Sized` bounds what is kept by what has been read.  Each activation
owes at most one instruction, as does a `point` in the middle of an access, so code,
activations and debts together stay within twice the tokens; a CHK without its
target belongs to an `and` or `or` that is being compiled; a jump that is set goes
forward, and hence the stack of the machine never holds more than the instructions
before `ip` other than CHK.

`ReadsTheLanguage` needs to know where in the text each activation is. The invariant
(`InLanguage`) has three sequences of positions, the marks: b, of the brackets that are
open; g, of where the part that is being read begins at each level of them (behind the
last comma, colon or assignment); w, of the activation which opened each bracket.
`Marks` says that these are what their names claim, in terms of depths; `Held`, that
each activation that waits for a bracket owns one mark, in order, of the right kind; and
`PointOK` what the text then looks like at the innermost `point`: whether an operand is
due, whether an operator has been read since g, and what a precedence above that of an
assignment says about it.  With the marks `MayFollow` can be read off without looking
for brackets (`MayFollowIs`), and the steps of the parser are then a case each
(`AwaitsOperand` decides between prefix and infix, the last mark between the tokens that
end, separate or close); at an error the same facts say that no token of `MayFollow` was
there.  A string matters at two places only: where an operand is due it is one, and
where not, its spelling is what the parser tests (`StandsDue`, `StandsElsewhere`).  The
limit on arguments is a count: the activation of a call has counted the commas since its
bracket, and the item in progress (`Due`, `Counted`), which is what `ItemsOf` reads from
the text.  That `=` after an operand is taken exactly behind a name or an element is the
part where precedence and text meet: `CanAssign` looks at the precedence only,
`MayFollow` at the text only.

The inputs with `=` behind a slice are exempt by `SliceAssigned`.  The proof uses
`SliceRead`, which implies it and names the bracket: `Matching` of a bracket that
closes nothing is not specified, and such a text must not be exempt by chance.  The
assumption (`ExpressionAssumption`) is that there is room for a token, that name,
literal and semicolon are tokens, that a string may have the spelling of any other ones,
and that the limit on arguments is positive.

Model-checked only: `GcTerminates` and `LinesEnd`, as liveness is out of the prover's
reach; `CodeOfTheTree` and `ComputesTheMeaning`, which compare with recursive
operators on trees (`Tree`, `Postfix`, `Meaning`), for which it has no backend, and
are claims about all trees, by induction over data; and the four violations, which
are claims about one execution.

## 5. Disagreements

Each of these has a run that reaches it and an entry in `PROJECT.json`: a patched
loop that misses its break (`Instructions.h:45`), deferred functions called again
(`Interpreter.cpp:1146`), elements of a list literal freed (`Interpreter.cpp:914`),
appended lists freed (`Builtin.cpp:76`).

These are part of a model, and a property is stated around them:

- the parts of a condition but the last stay on the stack (`Compiler.cpp:896`;
  `chained` in `Codegen`), although README.md:111 says a condition may have several;
- after a nested run errors are located with the wrong code's lines
  (`Interpreter.cpp:1278`; `LocatedUnlessNested`);
- `:=` and `=` on a variable of an enclosing function emit a STORE that the
  interpreter refuses (`Interpreter.cpp:847`; the scope in `SymbolTable`'s `emitted`);
- the second `use` of a file in one text drops a value that was not pushed:
  "Stack-underflow" at the top of a script, another value in a function
  (`Compiler.cpp:840`; `StackAfterRun`);
- files that use each other are compiled until the native stack overflows
  (`Compiler.cpp:850`; `LinesEnd`);
- a line that begins with an illegal token ends the interactive process
  (`Interpreter.cpp:1205`; `abort`);
- the sum of two strings has no terminator of its own (`Interpreter.cpp:344`;
  `Undetermined`);
- `return` is accepted in a script and under `eval`, where RET leaves the frames
  (`Compiler.cpp:931`, `Interpreter.cpp:1150`; `lost`);
- an exception out of `run()` aborts the process, or leaves a context behind under
  `eval`, `exec` and `term` (`Interpreter.cpp:1084`, `468`; `Escape`, `EscapeNested`);
- a string that spells an operator or a comma is taken for it (`1 "+" 2`), and the
  index `":"` is rejected (`Compiler.cpp:535`, `603`; `StandsFor`, `ColonMistaken`);
- `=` behind a slice is read and ignored (`Compiler.cpp:550`; `SliceAssigned`);
- the stream of a lost file is never closed, since its pointer is never registered
  (`Builtin.cpp:280`), and `Close` twice closes it twice (`Builtin.cpp:338`; `asked`);
- a pointer returned by a native function may be an alias (`Interpreter.cpp:573`;
  `shared`);
- an exception out of an outermost `term()` leaves the terminal raw
  (`Builtin.cpp:456`; `escaped`).

Met while reading, in no model: every runtime error shows the texts of all earlier ones,
since `getError` clears the state of the stream and not its text (`Interpreter.h:148`);
`eval` and `clone` return objects that are registered, and `callBuiltin` registers them
again (`Interpreter.cpp:473`); a floating-point literal is emitted as CONST_ with the
bits of the double for an index (`Compiler.cpp:298`; `Codegen` emits the word, no
property speaks of it); closures and maps registered with a flag set lose what they hold
two collections later (`Interpreter.cpp:892`, `927`); `eval("range(10);")` of
`README.md:202` yields no list, since the statement pops it; a slice stores at the index
of the source (`Interpreter.cpp:1010`); `range` with a negative step loses a bound
(`Builtin.cpp:125`); `--search-path` appends the flag itself (`main.cpp:67`); `exec`
passes its own stack buffer (`Builtin.cpp:386`); `let global` in a function of an
imported file stores in another frame's slot (`Compiler.cpp:706`; exempt as `Misplaced`
in `SymbolTable`).

## 6. Plan

Order of work, most important first; 1 to 8 are done.

1. `HeapGraph`, `Collector`, `MemoryManager` and their proofs.
2. `SymbolTable` and its proofs.
3. `Interpreter` and its proofs.
4. `Codegen`, with the finding on loops.
5. `Allocation`, over the discipline `MemoryManager` assumes.
6. `Session` and `SessionMeaning`: imports, `eval`, the interactive loop; and their
   proofs.
7. `Resources` and its proofs.
8. `Values`, `Expression`, `Grammar`, `ExpressionMeaning`; the proofs about `Grammar`.
9. `Frames`: `Allocation` composed with the frames of `Interpreter` (values held
   by defers, closures in call, arguments of builtins, stale locals).
10. Slices, ranges and clones as pure operators against reference definitions.

Every safety property of the passing runs is proved, except `CodeOfTheTree` and
`ComputesTheMeaning`.  Left for proofs: these two, which would need the tree as a
recursive function and an induction over it, and whatever 9 and 10 will state.

## 7. Not modelled

Strings and numbers by content, except where a jump depends on a word; the lexer, which
scans characters and keeps nothing but its position; libffi marshalling, the library's
contract; the listing of bytecode, which has no state; flags and line completion of
`main`; options other than the search path; the platform's file system.  In
`Allocation`: slices, native functions, the objects of `open` and `exec`, calls of
bounded values.  In `Codegen`: `use` and `native`.  In `Expression`: functions, maps and
`use` as operands, the names of variables, and the effect of calls, accesses and
assignments.  In `Values`: division, the operators on `long`, casts.  In `Session`: what
files declare; the texts of errors and the stream they are kept in; loops in the code;
functions and deferred calls, the subject of `Interpreter`; `return` at the top of an
imported file, which skips the rest of it (as in a function); the undefined effect of a
`return` in the text of a line or of `eval`, for which the process ends.  A statement
that leaves several values stands for several `parts`; one that leaves a number that
depends on the path through it is left out.  In `Expression` the closing bracket of a
call with too many arguments is where the error is, and is not recorded as read.  In
`Resources`: `Read`, `Write`, `Seek`, `exec`, reading or writing through a pointer that
was freed.  Overflow of 2048 frames and 1024 slots is not checked by the code; the
bounds of `Interpreter` end the execution before.
