----------------------------- MODULE Expression -----------------------------
(***************************************************************************)
(* The expression parser of Compiler.cpp, which climbs precedences and     *)
(* emits code as it goes, and the machine that runs this code.             *)
(*                                                                         *)
(* expression(prec) reads a prefix and then goes on as long as the current *)
(* token binds at least as strongly as prec.  The activations of this      *)
(* procedure that are in progress, each with the procedure that is to go   *)
(* on after it, are the variable active; point says where in the code the  *)
(* innermost one is.  Tokens are chosen as they are read, so that the      *)
(* model has every input of up to MaxTokens tokens, right or wrong.        *)
(*                                                                         *)
(* An identifier is "name", any other operand of one token is "literal".   *)
(* The words `and' and `or' are scanned as identifiers.  A string may have *)
(* the spelling of any token, and many tests of the parser look at the     *)
(* spelling alone; so the current token is its spelling, cur, and whether  *)
(* it is a string.  The tokens read are recorded as what the parser takes  *)
(* them for.                                                               *)
(*                                                                         *)
(* What a name resolves to is the subject of SymbolTable, and values are   *)
(* chosen when an operand is loaded.  Functions, maps, use() and types are *)
(* left out as operands.  Code of operators and operands only is run, if   *)
(* there are at most MaxRun of them; the effect of calls and accesses is   *)
(* not modelled here.                                                      *)
(*                                                                         *)
(* A definition whose comment begins with "Fault:" is a wrong variant of   *)
(* the next one, used to see that the properties notice the fault.         *)
(***************************************************************************)
EXTENDS Values, FiniteSets, SequencesExt

CONSTANTS
  Word,       \* the tokens of the input
  Quoted,     \* those whose spelling strings may have
  UINT8_MAX,  \* a call has fewer arguments
  Operand,    \* the values of its operands
  MaxTokens,  \* bound on its length
  Limit,      \* and on how often it holds each token
  MaxRun      \* bound on the operands and operators of what is run

VARIABLES
  read,    \* the tokens read so far
  cur,     \* the current token: its spelling
  quoted,  \* and whether it is a string
  active,  \* the activations of expression(), innermost last
  point,   \* where the innermost one is
  code,    \* the instructions emitted
  phase,   \* "compile", then "run" or the outcome
  ip,      \* the next instruction
  stack,   \* the operand stack
  loads    \* the operands loaded: position in the input, and value

compiler == <<read, cur, quoted, active, point, code>>
machine == <<ip, stack, loads>>
vars == <<compiler, phase, machine>>
-----------------------------------------------------------------------------
(* Tokens.                                                                 *)

Semicolon == ";"
Assignments == {"=", ":="}

BinaryTokens ==
  {"+", "-", "*", "/", "%", "&", "|", ">>", "<<", "==", "!=", "<", ">", ">=", "<=", "and", "or"}
Opcode == [t \in BinaryTokens |->
  CASE t = "+" -> "ADD" [] t = "-" -> "SUB" [] t = "*" -> "MUL" [] t = "/" -> "DIV" [] t = "%" -> "MOD"
    [] t = "&" -> "LAND" [] t = "|" -> "LOR" [] t = ">>" -> "LSHIFT" [] t = "<<" -> "RSHIFT"
    [] t = "==" -> "EQ" [] t = "!=" -> "NE" [] t = "<" -> "LT" [] t = ">" -> "GT"
    [] t = ">=" -> "GE" [] t = "<=" -> "LE" [] t = "and" -> "AND" [] t = "or" -> "OR"]
Prefix == [t \in {"not", "-"} |-> IF t = "not" THEN "NOT" ELSE "NEG"]

\* There is an input, and a statement can be ended.
ASSUME ExpressionAssumption ==
  /\ MaxTokens \in Nat \ {0} /\ MaxRun \in Nat /\ UINT8_MAX \in Nat \ {0}
  /\ {"name", "literal", Semicolon} \subseteq Word /\ Quoted \subseteq Word \ {"name", "literal"}

P_None == 0
P_Assignment == 1
P_Or == 2
P_And == 3
P_Lor == 4
P_Land == 5
P_Equality == 6
P_Comparison == 7
P_Shift == 8
P_Term == 9
P_Factor == 10
P_Unary == 11
P_Call == 12

\* The table has "-" twice, and a map keeps the first entry.
Precedence(t) ==
  CASE t \in Assignments -> P_Assignment
    [] t = "or" -> P_Or
    [] t = "and" -> P_And
    [] t \in {"==", "!="} -> P_Equality
    [] t \in {"<", ">", "<=", ">="} -> P_Comparison
    [] t = "|" -> P_Lor
    [] t = "&" -> P_Land
    [] t \in {">>", "<<"} -> P_Shift
    [] t \in {"+", "-"} -> P_Term
    [] t \in {"*", "/", "%"} -> P_Factor
    [] t = "not" -> P_Unary
    [] t \in {".", "[", "("} -> P_Call
    [] OTHER -> P_None
-----------------------------------------------------------------------------
(* The parser.                                                             *)

\* An activation: what waits for it, its prec, and what that procedure keeps:
\* the opcode, the closing token, a count, the position of its CHK or token.
Activation(for, prec) ==
  [for |-> for, prec |-> prec, op |-> "none", close |-> "none", n |-> 0, at |-> 0]

Init ==
  /\ read = <<>>
  /\ quoted \in BOOLEAN /\ cur \in IF quoted THEN Quoted ELSE Word
  /\ active = <<Activation("statement", P_Assignment)>>
  /\ point = "prefix"
  /\ code = <<>>
  /\ phase = "compile"
  /\ ip = 1 /\ stack = <<>> /\ loads = <<>>

Inner == Last(active)

\* Fault: the left side of an assignment may be an operand of an operator.
CanAssignAlways == TRUE

CanAssign == Inner.prec <= P_Assignment
Here == Len(read) + 1

\* What consume() and check() see: to them a string is no punctuation.  The loop
\* of expression(), infix() and expect() see the spelling.
Token == IF quoted THEN "literal" ELSE cur
Names == {"name", "and", "or"}

\* The current token is taken for t.  The last one of an input is a semicolon.
Eat(t) ==
  /\ read' = Append(read, t)
  /\ LET Spare(u) == Cardinality({i \in DOMAIN read' : read'[i] = u}) < Limit[u]
     IN  IF Len(read) + 1 < MaxTokens
           THEN \/ quoted' = FALSE /\ cur' \in {u \in Word : Spare(u)}
                \/ quoted' = TRUE /\ cur' \in {u \in Quoted : Spare(u) /\ Spare("literal")}
           ELSE quoted' = FALSE /\ cur' = Semicolon
Stay == UNCHANGED <<read, cur, quoted>>

Instruction(op, a, b) == [op |-> op, a |-> a, b |-> b]
Emit(op, a) == code' = Append(code, Instruction(op, a, 0))
Begin(activation, where) == active' = Append(active, activation) /\ point' = where
Finish(where) == active' = Front(active) /\ point' = where
Continue(where) == active' = active /\ point' = where
Compiling == phase = "compile"
At(p) == Compiling /\ point = p /\ UNCHANGED <<phase, machine>>

Reject ==
  /\ phase' = "rejected"
  /\ UNCHANGED <<compiler, machine>>

\* prefix(): an operand of one token.
Literal ==
  /\ At("prefix") /\ Token = "literal"
  /\ Emit("CONST_", Here) /\ Eat("literal") /\ Continue("infix")

Identifier ==
  /\ At("prefix") /\ Token \in Names
  /\ Eat("name") /\ Continue("identifier") /\ UNCHANGED code

\* identifier(), once the name has been read: an assignment, or a load.
Assign ==
  /\ At("identifier") /\ CanAssign /\ Token \in Assignments
  /\ Eat(cur) /\ UNCHANGED code
  /\ Begin([Activation("assign", P_Assignment) EXCEPT !.at = Len(read)], "prefix")
Load ==
  /\ At("identifier") /\ ~(CanAssign /\ Token \in Assignments)
  /\ Emit("LOAD", Len(read)) /\ Stay /\ Continue("infix")

PrefixOperator ==
  /\ At("prefix") /\ Token \in DOMAIN Prefix
  /\ Eat(cur) /\ UNCHANGED code
  /\ Begin([Activation("unary", P_Unary) EXCEPT !.op = Prefix[cur], !.at = Here], "prefix")

Group ==
  /\ At("prefix") /\ Token = "("
  /\ Eat(cur) /\ UNCHANGED code /\ Begin(Activation("group", P_Assignment), "prefix")

\* list() and call(): items up to a closing token.
Items(op, close) ==
  /\ Eat(cur) /\ UNCHANGED code
  /\ Begin([Activation("items", P_Assignment) EXCEPT !.op = op, !.close = close, !.at = Here],
           "items")
ListLiteral == At("prefix") /\ Token = "[" /\ Items("PACK", "]")

UnknownExpression ==
  /\ Compiling /\ point = "prefix"
  /\ Token \notin {"literal", "(", "["} \cup Names \cup DOMAIN Prefix
  /\ Reject

NextItem ==
  /\ At("items") /\ Token # Inner.close
  /\ active' = Append(Front(active), [Inner EXCEPT !.n = @ + 1])
  /\ point' = "prefix" /\ Stay /\ UNCHANGED code

\* call() rejects what its instruction cannot count.
TooMany == Inner.op = "CALL" /\ Inner.n >= UINT8_MAX

NoMoreItems ==
  /\ At("items") /\ Token = Inner.close /\ ~TooMany
  /\ Emit(Inner.op, Inner.n) /\ Eat(cur) /\ Finish("infix")

\* The loop of expression(): the current token binds to what has been read.
Binds == cur \notin {Semicolon, "{"} /\ Inner.prec <= Precedence(cur)
Infix == At("infix") /\ Binds

Call == Infix /\ Token = "(" /\ Items("CALL", ")")
Subscript == Infix /\ Token = "." /\ Eat(cur) /\ Continue("member") /\ UNCHANGED code
Index == Infix /\ Token = "[" /\ Eat(cur) /\ Continue("bracket") /\ UNCHANGED code

\* Fault: `and' does not jump.
ShortCircuitOr == [t \in {"or"} |-> 1]

\* Fault: the two tests are swapped.
ShortCircuitSwapped == [t \in {"or", "and"} |-> IF t = "or" THEN 0 ELSE 1]

\* The operators with a jump, and the value it is taken for.
ShortCircuit == [t \in {"or", "and"} |-> IF t = "or" THEN 1 ELSE 0]

\* Fault: the right operand takes operators of the same precedence as well.
RightOperandSame(t) == Precedence(t)

RightOperand(t) == Precedence(t) + 1

BinaryOperator ==
  /\ Infix /\ cur \in BinaryTokens
  /\ IF cur \in DOMAIN ShortCircuit THEN Emit("CHK", ShortCircuit[cur]) ELSE UNCHANGED code
  /\ Eat(cur)
  /\ Begin([Activation("binary", RightOperand(cur)) EXCEPT
              !.op = Opcode[cur], !.n = Len(code) + 1, !.at = Here], "prefix")

UnexpectedInfix ==
  /\ Compiling /\ point = "infix" /\ Binds
  /\ Token \notin {"(", ".", "["} /\ cur \notin BinaryTokens
  /\ Reject
-----------------------------------------------------------------------------
(* subscript() and index().                                                *)

Member ==
  /\ At("member") /\ Token \in Names
  /\ Emit("CONST_", Here) /\ Eat("name") /\ Continue("element")
NoMember == Compiling /\ point = "member" /\ Token \notin Names /\ Reject

FromStart ==
  /\ At("bracket") /\ Token = ":"
  /\ Emit("CONST_INT", 0) /\ Eat(cur) /\ Continue("colon")
Start ==
  /\ At("bracket") /\ cur # ":"
  /\ Begin(Activation("start", P_Assignment), "prefix") /\ Stay /\ UNCHANGED code

\* The string ":" is taken for the beginning of a slice, and then not consumed.
MistakenStart == Compiling /\ point = "bracket" /\ quoted /\ cur = ":" /\ Reject

ToEnd ==
  /\ At("colon") /\ cur = "]"
  /\ Emit("CONST_INT", -1) /\ Eat(cur) /\ Continue("slice")
Stop ==
  /\ At("colon") /\ cur # "]"
  /\ Begin(Activation("stop", P_Assignment), "prefix") /\ Stay /\ UNCHANGED code

\* An element may be assigned to.  Of a slice the token "=" is read as well, but
\* nothing follows from it.
SetElement ==
  /\ At("element") /\ CanAssign /\ Token = "="
  /\ Eat(cur) /\ Begin(Activation("set", P_Assignment), "prefix") /\ UNCHANGED code
GetElement ==
  /\ At("element") /\ ~(CanAssign /\ Token = "=")
  /\ Emit("INDEX", 1) /\ Stay /\ Continue("infix")
GetSlice ==
  /\ At("slice")
  /\ Emit("INDEX", 2) /\ Continue("infix")
  /\ IF CanAssign /\ Token = "=" THEN Eat(cur) ELSE Stay
-----------------------------------------------------------------------------
(* The end of an expression, and what waits for it.                        *)

Ended(for) == At("infix") /\ ~Binds /\ Inner.for = for

EndUnary ==
  /\ Ended("unary")
  /\ Emit(Inner.op, Inner.at) /\ Stay /\ Finish("infix")

\* Where CHK goes: behind the operator.
Skipped == Len(code) + 2

EndBinary ==
  /\ Ended("binary")
  /\ code' = Append(IF Inner.op \in {"AND", "OR"}
                      THEN [code EXCEPT ![Inner.n].b = Skipped] ELSE code,
                    Instruction(Inner.op, Inner.at, 0))
  /\ Stay /\ Finish("infix")

EndAssign == Ended("assign") /\ Emit("STORE", Inner.at) /\ Stay /\ Finish("infix")
EndSet == Ended("set") /\ Emit("SET", 0) /\ Stay /\ Finish("infix")

EndGroup == Ended("group") /\ cur = ")" /\ Eat(cur) /\ Finish("infix") /\ UNCHANGED code

EndItem ==
  /\ Ended("items") /\ cur = "," /\ Eat(cur) /\ Continue("items") /\ UNCHANGED code
EndItems ==
  /\ Ended("items") /\ Token = Inner.close /\ ~TooMany
  /\ Emit(Inner.op, Inner.n) /\ Eat(cur) /\ Finish("infix")
TooManyArguments ==
  /\ Compiling /\ (point = "items" \/ (point = "infix" /\ ~Binds /\ Inner.for = "items"))
  /\ Token = Inner.close /\ TooMany
  /\ Reject

EndStart ==
  /\ Ended("start") /\ (Token = ":" \/ cur = "]")
  /\ Eat(cur) /\ Finish(IF cur = ":" THEN "colon" ELSE "element") /\ UNCHANGED code
EndStop == Ended("stop") /\ cur = "]" /\ Eat(cur) /\ Finish("slice") /\ UNCHANGED code

\* The current token may follow the expression; any other is an error.
Follows ==
  CASE Inner.for = "statement" -> cur = Semicolon
    [] Inner.for = "group" -> cur = ")"
    [] Inner.for = "items" -> cur = "," \/ Token = Inner.close
    [] Inner.for = "start" -> cur = "]" \/ Token = ":"
    [] Inner.for = "stop" -> cur = "]"
    [] OTHER -> TRUE
Unexpected == Compiling /\ point = "infix" /\ ~Binds /\ ~Follows /\ Reject

\* The end of the statement, and of this model's program.
NotRun == {"INDEX", "SET", "STORE", "CALL", "PACK", "DIV", "MOD", "LAND", "LOR", "LSHIFT", "RSHIFT"}
Runs == /\ \A i \in DOMAIN code : code[i].op \notin NotRun
        /\ Cardinality({i \in DOMAIN code : code[i].op # "CHK"}) <= MaxRun
EndStatement ==
  /\ Compiling /\ point = "infix" /\ ~Binds
  /\ Inner.for = "statement" /\ cur = Semicolon
  /\ Emit("POP", 0)
  /\ phase' = IF Runs THEN "run" ELSE "accepted"
  /\ UNCHANGED <<read, cur, quoted, active, point, machine>>
-----------------------------------------------------------------------------
(* The machine.                                                            *)

Running(ops) == phase = "run" /\ code[ip].op \in ops /\ UNCHANGED compiler
Top == Last(stack)
Proceed == ip' = ip + 1 /\ UNCHANGED phase

LoadOperand ==
  /\ Running({"LOAD", "CONST_"})
  /\ \E v \in Operand : /\ stack' = Append(stack, v)
                        /\ loads' = Append(loads, <<code[ip].a, v>>)
  /\ Proceed

\* CHK looks at the value and leaves it.
Check ==
  /\ Running({"CHK"})
  /\ ip' = IF AsBool(Top) = (code[ip].a = 1) THEN code[ip].b ELSE ip + 1
  /\ UNCHANGED <<phase, stack, loads>>

Result(v, rest) ==
  IF Ends(v)
    THEN phase' = v.type /\ stack' = rest /\ ip' = ip
    ELSE stack' = Append(rest, v) /\ Proceed

Operate ==
  \/ /\ Running(Range(Prefix))
     /\ Result(Unary(code[ip].op, Top), Front(stack)) /\ UNCHANGED loads
  \/ /\ Running(Range(Opcode))
     /\ Result(Binary(code[ip].op, stack[Len(stack) - 1], Top), Front(Front(stack)))
     /\ UNCHANGED loads

\* POP at the end of the statement; the value is kept here for the properties.
Halt ==
  /\ Running({"POP"}) /\ phase' = "done"
  /\ UNCHANGED machine
-----------------------------------------------------------------------------
Outcomes == {"rejected", "accepted", "failed", "undetermined", "done"}
Ending == phase \in Outcomes /\ UNCHANGED vars

ParsePrefix == Literal \/ Identifier \/ Assign \/ Load \/ PrefixOperator \/ Group \/ ListLiteral
ParseInfix == Call \/ Subscript \/ Index \/ BinaryOperator
ParseItems == NextItem \/ NoMoreItems \/ EndItem \/ EndItems
ParseAccess == \/ Member \/ FromStart \/ Start \/ ToEnd \/ Stop
               \/ SetElement \/ GetElement \/ GetSlice \/ EndStart \/ EndStop
ParseEnd == EndUnary \/ EndBinary \/ EndAssign \/ EndSet \/ EndGroup \/ EndStatement
ParseError == \/ UnknownExpression \/ UnexpectedInfix \/ NoMember \/ Unexpected
              \/ MistakenStart \/ TooManyArguments

Next == \/ ParsePrefix \/ ParseInfix \/ ParseItems \/ ParseAccess \/ ParseEnd \/ ParseError
        \/ LoadOperand \/ Check \/ Operate \/ Halt
        \/ Ending

Spec == Init /\ [][Next]_vars
=============================================================================
