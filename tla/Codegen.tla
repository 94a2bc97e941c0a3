------------------------------ MODULE Codegen ------------------------------
(***************************************************************************)
(* The code the compiler emits: jumps, their patching, and the height of   *)
(* the operand stack at each instruction.                                  *)
(*                                                                         *)
(* The compiler has one pass and no syntax tree: statement() and           *)
(* expression() emit words into the innermost of `units' (the vector       *)
(* Compiler::instructions, one entry per function being compiled), and     *)
(* what they have begun and not finished is on the native stack: `open'    *)
(* is that stack, one construct per procedure that has more to emit.       *)
(* Each step takes what the source says next; the source is free, within   *)
(* the grammar.                                                            *)
(*                                                                         *)
(* The words of a unit are numbers, as patch_loop reads them: opcodes and  *)
(* operands alike.  Names are of no account here: every LOAD and STORE is  *)
(* that of the first global.                                               *)
(*                                                                         *)
(* A definition whose comment begins with "Fault:" is a wrong variant of   *)
(* the next one, used to see that the properties notice the fault.         *)
(***************************************************************************)
EXTENDS Integers, Sequences, FiniteSets, SequencesExt

CONSTANTS
  Literals,     \* the kinds of literals: "integer", "float", "string"
  Operators,    \* the operators, by the instruction each becomes
  ListSizes,    \* the numbers of elements of the list and map literals
  ArgCounts,    \* the numbers of arguments of the calls
  PlainLoops,   \* TRUE: loops contain no list, map, and, or
  MaxSteps,     \* bound on the statements, functions and operators
  MaxPending,   \* bound on the operands of one expression
  MaxOpen,      \* bound on the constructs open at once
  MaxUnits,     \* bound on the functions open at once
  MaxLength     \* bound on the words of a unit

\* The instructions in the order of their numbers, and the number of words
\* SRCLANG_OPCODE_SIZE says follow each.
OpcodeList ==
  << <<"CONST_", 1>>, <<"CONST_INT", 1>>, <<"CONST_TRUE", 0>>, <<"CONST_FALSE", 0>>,
     <<"CONST_NULL", 0>>, <<"LOAD", 2>>, <<"STORE", 2>>, <<"ADD", 0>>, <<"SUB", 0>>,
     <<"MUL", 0>>, <<"DIV", 0>>, <<"NEG", 0>>, <<"NOT", 0>>, <<"COMMAND", 0>>,
     <<"EQ", 0>>, <<"NE", 0>>, <<"LT", 0>>, <<"LE", 0>>, <<"GT", 0>>, <<"GE", 0>>,
     <<"AND", 0>>, <<"OR", 0>>, <<"LAND", 0>>, <<"LOR", 0>>, <<"LSHIFT", 0>>,
     <<"RSHIFT", 0>>, <<"MOD", 0>>, <<"BREAK", 1>>, <<"CONTINUE", 1>>,
     <<"CLOSURE", 2>>, <<"CALL", 1>>, <<"PACK", 0>>, <<"MAP", 0>>, <<"INDEX", 1>>,
     <<"SET", 0>>, <<"POP", 0>>, <<"RET", 0>>, <<"JNZ", 1>>, <<"JMP", 1>>,
     <<"CHK", 1>>, <<"DEFER", 0>>, <<"SIZE", 0>>, <<"MODULE", 0>>, <<"HLT", 0>> >>
Ids == {OpcodeList[i][1] : i \in DOMAIN OpcodeList}
Number == [id \in Ids |-> (CHOOSE i \in DOMAIN OpcodeList : OpcodeList[i][1] = id) - 1]
Id(word) == OpcodeList[word + 1][1]
DeclaredSize(word) == OpcodeList[word + 1][2]

ASSUME CodegenAssumption ==
  /\ Literals \subseteq {"integer", "float", "string"}
  /\ Operators \subseteq {"NOT", "ADD", "STORE", "INDEX", "SET", "CALL", "AND", "OR"}
  /\ ListSizes \subseteq 0 .. Len(OpcodeList) - 1
  /\ ArgCounts \subseteq 0 .. 254
  /\ PlainLoops \in BOOLEAN
  /\ {MaxSteps, MaxPending, MaxOpen, MaxUnits} \subseteq Nat
  /\ MaxLength \in 0 .. 255

\* A unit: its words and last_instruction.  `sites' and `height' are what the
\* emitter intends, each instruction with the height of the operand stack
\* before it, `goals' where the break and continue statements of the finished
\* loops ought to go, and `chained' whether a condition had several parts; the
\* code has none of the four.
Site == [pos : Nat, height : Int]
Unit == [code : Seq(Nat), last : Nat, sites : Seq(Site), height : Int,
         goals : SUBSET [at : Nat, target : Nat], chained : BOOLEAN]

Block == {"script", "function", "deferred", "then", "else", "body"}
Expression == {"expression", "return", "if", "for", "forin", "and", "or"}

\* A procedure that has more to emit: the operands its expression has so far,
\* the position of the jump it will patch, where its loop starts, and the
\* break and continue statements of its loop, which the code does not record.
Construct == [kind : Block \cup Expression \cup {"alt", "alted"},
              pending : Nat, pos : Nat, start : Nat,
              breaks : SUBSET Nat, continues : SUBSET Nat]

VARIABLES
  units,      \* Compiler::instructions
  open,       \* the procedures on the native stack, innermost last
  constants,  \* the size of Interpreter::constants
  steps,      \* how much has been begun; the code has no such variable
  finished    \* the unit completed last

vars == <<units, open, constants, steps, finished>>

EmptyUnit == [code |-> <<>>, last |-> Number["CONST_"], sites |-> <<>>,
              height |-> 0, goals |-> {}, chained |-> FALSE]
New(kind) == [kind |-> kind, pending |-> 0, pos |-> 0, start |-> 0,
              breaks |-> {}, continues |-> {}]

Init ==
  /\ units = <<EmptyUnit>>
  /\ open = <<New("script")>>
  /\ constants = 0
  /\ steps = 0
  /\ finished = EmptyUnit

inst == units[Len(units)]
top == open[Len(open)]
Top(kinds) == open # <<>> /\ top.kind \in kinds
-----------------------------------------------------------------------------
(* Instructions.                                                           *)

\* How many words the interpreter reads after an opcode.
Reads(id) == CASE id \in {"PACK", "MAP"} -> 1
               [] id = "CHK" -> 2
               [] OTHER -> DeclaredSize(Number[id])

\* What an instruction takes off the operand stack; w are its operands.
Takes(id, w) ==
  CASE id \in {"STORE", "NOT", "SIZE", "POP", "RET", "JNZ", "CHK", "DEFER"} -> 1
    [] id \in {"ADD", "GT", "AND", "OR"} -> 2
    [] id = "SET" -> 3
    [] id \in {"INDEX", "CALL"} -> w[1] + 1
    [] id = "PACK" -> w[1]
    [] id = "MAP" -> 2 * w[1]
    [] id = "CLOSURE" -> w[2]
    [] OTHER -> 0

\* What it leaves there.
Gives(id) == IF id \in {"POP", "RET", "JNZ", "DEFER", "JMP", "BREAK", "CONTINUE", "HLT"}
             THEN 0 ELSE 1

\* An instruction is its name and its operands.
Emitted(u, instruction) ==
  LET id == Head(instruction)
      w == Tail(instruction)
  IN  [u EXCEPT !.code = @ \o <<Number[id]>> \o w,
                !.last = Number[id],
                !.sites = Append(@, [pos |-> Len(u.code), height |-> u.height]),
                !.height = @ - Takes(id, w) + Gives(id)]
EmittedAll(u, instructions) == FoldLeft(Emitted, u, instructions)

Size(u) == Len(u.code)
At(code, i) == code[i + 1]
Patched(u, i, word) == [u EXCEPT !.code[i + 1] = word]

PopBack(u) ==
  [u EXCEPT !.code = Front(@), !.sites = Front(@),
            !.height = u.sites[Len(u.sites)].height]

Fits(u) == Size(u) <= MaxLength
SetInst(u) == Fits(u) /\ units' = [units EXCEPT ![Len(units)] = u]
Emit(instructions) == SetInst(EmittedAll(inst, instructions))
AddConstants(k) == constants' = constants + k
Step == steps < MaxSteps /\ steps' = steps + 1
SetTop(c) == open' = [open EXCEPT ![Len(open)] = c]
Push(c) == Len(open) < MaxOpen /\ open' = Append(open, c)
Pop == open' = Front(open)

Load == <<"LOAD", 1, 0>>
Store == <<"STORE", 1, 0>>
Loads(k) == [i \in 1 .. k |-> Load]

InBlock == Top(Block)
InExpression == Top(Expression)
Complete(kinds) == Top(kinds) /\ top.pending = 1
Operand(c) == [c EXCEPT !.pending = @ + 1]

\* The constructs of the function being compiled, and its innermost loop.
OfFunction == {i \in DOMAIN open :
                 \A h \in i .. Len(open) : open[h].kind \notin {"function", "deferred"}}
Loops == {i \in OfFunction : open[i].kind \in {"for", "forin", "body"}}
InnermostLoop == CHOOSE i \in Loops : \A h \in Loops : h <= i
LoopMayHold == PlainLoops => Loops = {}
-----------------------------------------------------------------------------
(* Expressions.  An operand is compiled before the operator that takes it. *)

\* The word of a number: the bits of the double, above every index.
Bits == 256

\* number: CONST_INT for an integer and CONST_ for a float, with the bits of
\* the value as operand.  string_ and map_ add a constant.
Literal(kind) ==
  /\ InExpression
  /\ top.pending < MaxPending
  /\ Emit(CASE kind = "integer" -> << <<"CONST_INT", Bits>> >>
            [] kind = "float"   -> << <<"CONST_", Bits>> >>
            [] kind = "string"  -> << <<"CONST_", constants>> >>)
  /\ AddConstants(IF kind = "string" THEN 1 ELSE 0)
  /\ SetTop(Operand(top))
  /\ UNCHANGED <<steps, finished>>

\* An operator over the last operands: unary, binary, assignment to a name
\* or an element, index, slice and call.
Postfix ==
  {<<"NOT">>, <<"ADD">>, Store, <<"INDEX", 1>>, <<"INDEX", 2>>, <<"SET">>}
    \cup {<<"CALL", n>> : n \in ArgCounts}
Operate(instruction) ==
  LET taken == Takes(Head(instruction), Tail(instruction))
  IN  /\ InExpression
      /\ taken <= top.pending
      /\ top.pending - taken < MaxPending
      /\ Emit(<<instruction>>)
      /\ SetTop([top EXCEPT !.pending = @ - taken + 1])
      /\ Step
      /\ UNCHANGED <<constants, finished>>

\* list and map.
ListLiterals == {<<"PACK", n>> : n \in ListSizes} \cup {<<"MAP", n>> : n \in ListSizes}
Collect(instruction) ==
  /\ LoopMayHold
  /\ Operate(instruction)

\* and, or: CHK with the value that decides, patched after the operator.
BeginLogical(kind) ==
  /\ InExpression
  /\ top.pending >= 1
  /\ LoopMayHold
  /\ Emit(<< <<"CHK", IF kind = "or" THEN 1 ELSE 0, 0>> >>)
  /\ Push([New(kind) EXCEPT !.pos = Size(inst)])
  /\ Step
  /\ UNCHANGED <<constants, finished>>

\* Fault: short-circuiting goes on with the operator itself.
LogicalEnd(u) == Size(u) - 1

\* Short-circuiting goes on after the operator.
AfterLogical(u) == Size(u)

EndLogical ==
  /\ Complete({"and", "or"})
  /\ LET u == Emitted(inst, <<IF top.kind = "or" THEN "OR" ELSE "AND">>)
     IN  SetInst(Patched(u, top.pos + 2, AfterLogical(u)))
  /\ Pop
  /\ UNCHANGED <<constants, steps, finished>>
-----------------------------------------------------------------------------
(* Functions.                                                              *)

\* A function begins in an expression, or in a block after `defer'.
BeginFunction(kind) ==
  /\ IF kind = "function" THEN InExpression /\ top.pending < MaxPending ELSE InBlock
  /\ Len(units) < MaxUnits
  /\ units' = Append(units, EmptyUnit)
  /\ Push(New(kind))
  /\ Step
  /\ UNCHANGED <<constants, finished>>

\* The last POP becomes RET; a function that does not end in RET returns null.
Completed(u) ==
  CASE u.last = Number["POP"] -> Emitted(PopBack(u), <<"RET">>)
    [] u.last = Number["RET"] -> u
    [] OTHER -> EmittedAll(u, << <<"CONST_NULL">>, <<"RET">> >>)

\* The function becomes a constant, and the code around it makes a closure
\* of it with the captured variables, for an expression or for DEFER.
EndFunction(captures) ==
  /\ Top({"function", "deferred"})
  /\ LET below == Len(units) - 1
         deferral == IF top.kind = "deferred" THEN << <<"DEFER">> >> ELSE <<>>
         u == EmittedAll(units[below],
                Loads(captures) \o << <<"CLOSURE", constants, captures>> >> \o deferral)
     IN  /\ Fits(Completed(inst)) /\ Fits(u)
         /\ units' = [Front(units) EXCEPT ![below] = u]
         /\ open' = IF top.kind = "deferred" THEN Front(open)
                    ELSE [Front(open) EXCEPT ![Len(open) - 1] = Operand(@)]
  /\ AddConstants(1)
  /\ finished' = Completed(inst)
  /\ UNCHANGED steps
-----------------------------------------------------------------------------
(* Statements.                                                             *)

\* expression, return and if begin with an expression.
Begin(kind) ==
  /\ InBlock
  /\ Push(New(kind))
  /\ Step
  /\ UNCHANGED <<units, constants, finished>>

\* Also let: its STORE is the expression's last operator.
EndExpression ==
  /\ Complete({"expression"})
  /\ Emit(<< <<"POP">> >>)
  /\ Pop
  /\ UNCHANGED <<constants, steps, finished>>

EndReturn ==
  /\ Complete({"return"})
  /\ Emit(<< <<"RET">> >>)
  /\ Pop
  /\ UNCHANGED <<constants, steps, finished>>

\* if a; b { : the next expression of the condition.
NextCondition ==
  /\ Complete({"if"})
  /\ SetTop([top EXCEPT !.pending = 0])
  /\ units' = [units EXCEPT ![Len(units)].chained = TRUE]
  /\ Step
  /\ UNCHANGED <<constants, finished>>

BeginThen ==
  /\ Complete({"if"})
  /\ Emit(<< <<"JNZ", 0>> >>)
  /\ SetTop([New("then") EXCEPT !.pos = Size(inst)])
  /\ UNCHANGED <<constants, steps, finished>>

EndThen ==
  /\ Top({"then"})
  /\ LET u == Emitted(inst, <<"JMP", 0>>)
     IN  SetInst(Patched(u, top.pos + 1, Size(u)))
  /\ SetTop([New("alt") EXCEPT !.pos = Size(inst)])
  /\ UNCHANGED <<constants, steps, finished>>

Else ==
  /\ Top({"alt"})
  /\ SetTop([top EXCEPT !.kind = "else"])
  /\ Step
  /\ UNCHANGED <<units, constants, finished>>

ElseIf ==
  /\ Top({"alt"})
  /\ Len(open) < MaxOpen
  /\ open' = Append(Front(open), [top EXCEPT !.kind = "alted"]) \o <<New("if")>>
  /\ Step
  /\ UNCHANGED <<units, constants, finished>>

\* Fault: the jump over the alternative goes past CONST_NULL and POP.
AfterAltEnd(u) == Size(u) + 2

\* Where the jump over the alternative goes.
AfterAlt(u) == Size(u)

\* Every condition ends in CONST_NULL and POP.
EndIf ==
  /\ Top({"alt", "alted", "else"})
  /\ LET u == EmittedAll(inst, << <<"CONST_NULL">>, <<"POP">> >>)
     IN  SetInst(Patched(u, top.pos + 1, AfterAlt(inst)))
  /\ Pop
  /\ UNCHANGED <<constants, steps, finished>>
-----------------------------------------------------------------------------
(* Loops.                                                                  *)

BeginFor ==
  /\ InBlock
  /\ Push([New("for") EXCEPT !.start = Size(inst)])
  /\ Step
  /\ UNCHANGED <<units, constants, finished>>

\* for x in: the counter is set to zero before the loop starts.
BeginForIn ==
  /\ InBlock
  /\ LET u == EmittedAll(inst, << <<"CONST_", constants>>, Store, <<"POP">> >>)
     IN  /\ SetInst(u)
         /\ Push([New("forin") EXCEPT !.start = Size(u)])
  /\ AddConstants(1)
  /\ Step
  /\ UNCHANGED finished

BeginBody ==
  /\ Complete({"for"})
  /\ Emit(<< <<"JNZ", 0>> >>)
  /\ SetTop([top EXCEPT !.kind = "body", !.pending = 0, !.pos = Size(inst)])
  /\ UNCHANGED <<constants, steps, finished>>

\* The container is evaluated again before each round: its size is compared
\* with the counter, then the element and the next counter are stored.
BeginBodyIn ==
  /\ Complete({"forin"})
  /\ LET test == EmittedAll(inst, <<Store, <<"SIZE">>, Load, <<"GT">> >>)
     IN  /\ SetInst(EmittedAll(test,
              << <<"JNZ", 0>>, Load, Load, <<"INDEX", 1>>, Store, <<"POP">>,
                 <<"CONST_", constants>>, Load, <<"ADD">>, Store, <<"POP">> >>))
         /\ SetTop([top EXCEPT !.kind = "body", !.pending = 0, !.pos = Size(test)])
  /\ AddConstants(1)
  /\ UNCHANGED <<steps, finished>>

\* break and continue emit a jump to be patched when the loop ends.
BeginJump(id) ==
  /\ InBlock
  /\ Emit(<< <<id, 0>> >>)
  /\ LET at == {Size(inst) + 1}
         loop == open[InnermostLoop]
     IN  IF Loops = {} THEN UNCHANGED open
         ELSE open' = [open EXCEPT ![InnermostLoop] =
                IF id = "BREAK" THEN [loop EXCEPT !.breaks = @ \cup at]
                                ELSE [loop EXCEPT !.continues = @ \cup at]]
  /\ Step
  /\ UNCHANGED <<constants, finished>>

\* Fault: jumps of an inner loop, patched already, are patched again.
MayPatchAny(code, i) == TRUE

\* patch_loop takes an operand of 0 for a jump that is not patched yet.
MayPatch(code, i) == At(code, i) = 0

\* Where patch_loop sees an opcode: at loop_start, and after each opcode and
\* the operands its declared size gives it.  An OpCode has eight bits.
OpcodeAt(code, i) == At(code, i) % 256
Seen(code, loopStart) ==
  LET from[i \in Nat] ==
        IF i >= Len(code) THEN {}
        ELSE IF OpcodeAt(code, i) >= Len(OpcodeList) THEN {i}
        ELSE {i} \cup from[i + 1 + DeclaredSize(OpcodeAt(code, i))]
  IN  from[loopStart]

\* A word that is no opcode, or a jump without an operand: patch_loop then
\* reads outside of a vector.
Lost(code, seen, to) ==
  \E i \in seen :
    \/ OpcodeAt(code, i) >= Len(OpcodeList)
    \/ OpcodeAt(code, i) = Number[to] /\ i + 1 = Len(code)

\* patch_loop.  A jump it patches is not looked at again in the same call.
Scan(code, seen, to, pos) ==
  [k \in 1 .. Len(code) |->
     IF k - 2 \in seen /\ OpcodeAt(code, k - 2) = Number[to] /\ MayPatch(code, k - 1)
     THEN pos ELSE code[k]]

\* Fault: one before, for an interpreter that steps on after a jump.
ContinueBefore(loopStart) == loopStart - 1

\* continue goes to the condition.
ContinueTarget(loopStart) == loopStart

EndLoop ==
  /\ Top({"body"})
  /\ LET seen == Seen(inst.code, top.start)
         first == Scan(inst.code, seen, "CONTINUE", ContinueTarget(top.start))
         jumped == Emitted([inst EXCEPT !.code = first], <<"JMP", top.start>>)
         after == Size(jumped)
         ended == EmittedAll(jumped, << <<"CONST_NULL">>, <<"POP">> >>)
         exit == Patched(ended, top.pos + 1, after)
         seenNow == Seen(exit.code, top.start)
         second == Scan(exit.code, seenNow, "BREAK", after)
     IN  /\ ~Lost(inst.code, seen, "CONTINUE") /\ ~Lost(exit.code, seenNow, "BREAK")
         /\ SetInst([exit EXCEPT !.code = second,
              !.goals = @ \cup {[at |-> i, target |-> after] : i \in top.breaks}
                          \cup {[at |-> i, target |-> top.start] : i \in top.continues}])
  /\ Pop
  /\ UNCHANGED <<constants, steps, finished>>

\* The end of the file.
EndScript ==
  /\ Top({"script"})
  /\ LET u == Emitted(inst, <<"HLT">>)
     IN  Fits(u) /\ finished' = u
  /\ units' = <<>>
  /\ Pop
  /\ UNCHANGED <<constants, steps>>

Next ==
  \/ \E kind \in Literals : Literal(kind)
  \/ \E instruction \in Postfix :
       Head(instruction) \in Operators /\ Operate(instruction)
  \/ \E instruction \in ListLiterals : Collect(instruction)
  \/ "AND" \in Operators /\ BeginLogical("and")
  \/ "OR" \in Operators /\ BeginLogical("or")
  \/ EndLogical
  \/ \E kind \in {"function", "deferred"} : BeginFunction(kind)
  \/ \E captures \in {0, 1} : EndFunction(captures)
  \/ \E kind \in {"expression", "return", "if"} : Begin(kind)
  \/ EndExpression
  \/ EndReturn
  \/ NextCondition
  \/ BeginThen
  \/ EndThen
  \/ Else
  \/ ElseIf
  \/ EndIf
  \/ BeginFor
  \/ BeginForIn
  \/ BeginBody
  \/ BeginBodyIn
  \/ \E id \in {"BREAK", "CONTINUE"} : BeginJump(id)
  \/ EndLoop
  \/ EndScript

Spec == Init /\ [][Next]_vars
-----------------------------------------------------------------------------
(* Properties.                                                             *)

TypeOK ==
  /\ units \in Seq(Unit)
  /\ open \in Seq(Construct)
  /\ constants \in Nat /\ steps \in 0 .. MaxSteps
  /\ finished \in Unit
  /\ Len(units) = Cardinality({i \in DOMAIN open :
                                 open[i].kind \in {"script", "function", "deferred"}})

\* tests/0068-loop-break.src:4 and :10, a break that leaves its loop and a
\* continue that goes on with the next round: however loops and conditions
\* nest, each break and continue of a finished loop jumps to the end or the
\* start of that loop, not of the one around it, and stays patched.
JumpsReachTheirLoop ==
  \A u \in Range(units) \cup {finished} :
    \A g \in u.goals : At(u.code, g.at) = g.target

\* An instruction of a finished unit, with its operands, and the positions
\* the interpreter goes on at.
IdAt(u, p) == Id(At(u.code, p))
Operands(u, p) == SubSeq(u.code, p + 2, p + 1 + Reads(IdAt(u, p)))
Following(u, p) ==
  LET id == IdAt(u, p)
      next == p + 1 + Reads(id)
  IN  CASE id \in {"JMP", "BREAK", "CONTINUE"} -> {At(u.code, p + 1)}
        [] id = "JNZ" -> {next, At(u.code, p + 1)}
        [] id = "CHK" -> {next, At(u.code, p + 2)}
        [] id \in {"RET", "HLT"} -> {}
        [] OTHER -> {next}
Starts(u) == {s.pos : s \in Range(u.sites)}

\* A finished function or script never runs off its code and never jumps into
\* the middle of an instruction: wherever it goes on, an instruction starts.
JumpsLand ==
  LET starts == Starts(finished)
  IN  \A p \in starts : Following(finished, p) \subseteq starts

\* A break or continue outside of every loop, which the compiler accepts and
\* leaves unpatched.
Stray(u, p) == IdAt(u, p) \in {"BREAK", "CONTINUE"} /\ \A g \in u.goals : g.at # p + 1

\* The operand stack has the same height on whatever path an instruction is
\* reached, and holds what the instruction takes.
Balanced(u) ==
  \A s \in Range(u.sites) :
    LET id == IdAt(u, s.pos)
        w == Operands(u, s.pos)
        following == Following(u, s.pos)
    IN  Stray(u, s.pos) \/
        /\ Takes(id, w) <= s.height
        /\ \A t \in Range(u.sites) :
             t.pos \in following => t.height = s.height - Takes(id, w) + Gives(id)

\* No statement, short-circuit, break, continue or early return of a finished
\* unit leaves a value on the stack or takes one that belongs to another
\* expression, as long as every condition has one part.
StackBalanced == ~finished.chained => Balanced(finished)
=============================================================================
