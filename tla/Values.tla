------------------------------- MODULE Values -------------------------------
(***************************************************************************)
(* Values, their truth, and the unary and binary operators of the          *)
(* interpreter.                                                            *)
(*                                                                         *)
(* A value is its type and its content, a sequence of integers: the number *)
(* itself, 1 for true and 0 for false, the letters of a string, the        *)
(* elements of a list (only lists of numbers), the ordinal of a type.      *)
(* Numbers are doubles in the code; here they are integers, and what       *)
(* depends on fractions (/) or on their conversion to long (% & | >> <<)   *)
(* is left out.  The sum of two strings is terminated one letter too late, *)
(* so that what it is depends on what the memory held before.  Lists and   *)
(* closures are not compared with == and !=: the code answers with an      *)
(* error.                                                                  *)
(***************************************************************************)
EXTENDS Integers, Sequences

Types == {"Null", "Boolean", "Number", "Type", "String", "List", "Error", "Closure"}
Of(type, content) == [type |-> type, content |-> content]

Null == Of("Null", <<>>)
Bool(b) == Of("Boolean", IF b THEN <<1>> ELSE <<0>>)
Number(n) == Of("Number", <<n>>)

\* What an operator gives when the run ends with an error, and for the sum of two
\* strings.
Failure == Of("failed", <<>>)
Undetermined == Of("undetermined", <<>>)
Ends(v) == v \in {Failure, Undetermined}

\* What CHK and JNZ test, and what `not', `or' and bool() test.
AsBool(v) == v = Bool(TRUE)
IsFalsy(v) == v \in {Null, Bool(FALSE), Number(0)} \/ v.type = "Error"

\* The operators each type has, besides != and == of values of two types and
\* besides `or'; null has all of them with null and none with anything else.
Operators(type) ==
  CASE type = "Type" -> {"EQ", "NE"}
    [] type = "Number" -> {"ADD", "SUB", "MUL", "EQ", "NE", "LT", "LE", "GT", "GE"}
    [] type = "Boolean" -> {"EQ", "NE", "AND"}
    [] type = "String" -> {"ADD", "EQ", "NE", "GT", "LT"}
    [] type = "List" -> {"ADD", "GT", "LT"}
    [] OTHER -> {}

Arithmetic(op, a, b) ==
  CASE op = "ADD" -> Number(a + b)
    [] op = "SUB" -> Number(a - b)
    [] op = "MUL" -> Number(a * b)
    [] op = "LT" -> Bool(a < b)
    [] op = "LE" -> Bool(a <= b)
    [] op = "GT" -> Bool(a > b)
    [] op = "GE" -> Bool(a >= b)

\* Strings and lists are compared by their length.
OfSameType(op, l, r) ==
  CASE op = "EQ" -> Bool(l = r)
    [] op = "NE" -> Bool(l # r)
    [] op = "AND" -> Bool(AsBool(l) /\ AsBool(r))
    [] l.type = "Number" -> Arithmetic(op, l.content[1], r.content[1])
    [] op = "ADD" -> IF l.type = "List" THEN Of("List", l.content \o r.content) ELSE Undetermined
    [] op = "GT" -> Bool(Len(l.content) > Len(r.content))
    [] op = "LT" -> Bool(Len(l.content) < Len(r.content))

\* The order of the tests matters: two types, then `or', then two nulls.
Binary(op, l, r) ==
  CASE op \in {"EQ", "NE"} /\ l.type # r.type -> Bool(op = "NE")
    [] op = "OR" -> IF IsFalsy(l) THEN r ELSE l
    [] l = Null /\ r = Null -> Bool(op = "EQ")
    [] l.type # r.type \/ op \notin Operators(l.type) -> Failure
    [] OTHER -> OfSameType(op, l, r)

Unary(op, v) ==
  CASE op = "NOT" -> Bool(IsFalsy(v))
    [] op = "NEG" /\ v.type = "Number" -> Number(-v.content[1])
    [] OTHER -> Failure
=============================================================================
