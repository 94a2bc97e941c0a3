-------------------------- MODULE ExpressionMeaning --------------------------
(***************************************************************************)
(* How an expression of SrcLang is grouped, and what the grouped           *)
(* expression means, stated without a parser and without a machine.        *)
(***************************************************************************)
EXTENDS Grammar
-----------------------------------------------------------------------------
(* Grouping.  A tree is an operator with the trees below it and the        *)
(* position of its token.                                                  *)

Node(op, at, below) == [op |-> op, at |-> at, below |-> below]

\* The pieces of s at its commas, each with its position; a comma at the end
\* adds none.
Pieces(s, base) ==
  LET commas == {i \in TopLevel(s) : s[i] = ","}
      begins == {1} \cup {i + 1 : i \in commas}
      EndOf(b) == Min({i - 1 : i \in {c \in commas : c >= b}} \cup {Len(s)})
  IN  SetToSortSeq({<<base + b - 1, SubSeq(s, b, EndOf(b))>> : b \in {b \in begins : b <= Len(s)}},
                   LAMBDA p, q : p[1] < q[1])

RECURSIVE Tree(_, _)
\* The tree of the expression s, whose first token is at position base.
Tree(s, base) ==
  LET top == TopLevel(s)
      assigns == {i \in top : s[i] \in Assignments}
      binary == {i \in top : s[i] \in BinaryTokens /\ AfterOperand(s, i)}
      loosest == Min({Precedence(s[i]) : i \in binary})
      split == Max({i \in binary : Precedence(s[i]) = loosest})
      n == Len(s)
      Part(a, b) == Tree(SubSeq(s, a, b), base + a - 1)
      open == Matching(s, n)
      colon == CHOOSE k \in open + 1 .. n - 1 : s[k] = ":" /\ Level(s, k) = 1
      items == [k \in DOMAIN Pieces(SubSeq(s, open + 1, n - 1), base + open) |->
                  LET p == Pieces(SubSeq(s, open + 1, n - 1), base + open)[k] IN Tree(p[2], p[1])]
      Access(j) ==  \* the container and the key of the element that ends at j
        IF s[j] = "name" THEN <<Part(1, j - 2), Node("CONST_", base + j - 1, <<>>)>>
                         ELSE <<Part(1, Matching(s, j) - 1), Part(Matching(s, j) + 1, j - 1)>>
  IN  CASE assigns # {} ->
             LET k == Min(assigns)
             IN  IF k = 2 THEN Node("STORE", base, <<Part(3, n)>>)
                          ELSE Node("SET", 0, Append(Access(k - 1), Part(k + 1, n)))
        [] assigns = {} /\ binary # {} ->
             Node(Opcode[s[split]], base + split - 1, <<Part(1, split - 1), Part(split + 1, n)>>)
        [] assigns = {} /\ binary = {} /\ s[1] \in DOMAIN Prefix ->
             Node(Prefix[s[1]], base, <<Part(2, n)>>)
        [] n = 1 -> Node(IF s[1] = "name" THEN "LOAD" ELSE "CONST_", base, <<>>)
        [] OTHER ->
             IF s[n] = "name" THEN Node("INDEX", 1, Access(n))
             ELSE IF s[n] = ")" /\ open = 1 THEN Part(2, n - 1)
             ELSE IF s[n] = ")" THEN Node("CALL", Len(items), <<Part(1, open - 1)>> \o items)
             ELSE IF open = 1 THEN Node("PACK", Len(items), items)
             ELSE IF HasColon(s, open, n)
               THEN Node("INDEX", 2,
                         <<Part(1, open - 1),
                           IF colon = open + 1 THEN Node("CONST_INT", 0, <<>>) ELSE Part(open + 1, colon - 1),
                           IF colon = n - 1 THEN Node("CONST_INT", -1, <<>>) ELSE Part(colon + 1, n - 1)>>)
             ELSE Node("INDEX", 1, Access(n))

\* Its code but for the jumps: the operands first.
RECURSIVE Postfix(_)
Postfix(t) == FlattenSeq([k \in DOMAIN t.below |-> Postfix(t.below[k])]) \o <<<<t.op, t.at>>>>

\* Its value and the operands it takes, in order.  `or' and `and' do not take
\* the right operand if the left one is true, or is not true.
RECURSIVE Meaning(_)
Meaning(t) ==
  LET left == Meaning(t.below[1])
      right == Meaning(t.below[2])
      l == left.value
      Both(v) == [value |-> v, takes |-> left.takes \o right.takes]
      decided == \/ t.op = "OR" /\ AsBool(l)
                 \/ t.op = "AND" /\ ~AsBool(l)
  IN  CASE t.below = <<>> ->
             LET at == {k \in DOMAIN loads : loads[k][1] = t.at}
             IN  [value |-> IF at = {} THEN Failure ELSE loads[Min(at)][2], takes |-> <<t.at>>]
        [] Len(t.below) = 1 ->
             [left EXCEPT !.value = IF Ends(@) THEN @ ELSE Unary(t.op, @)]
        [] OTHER ->
             IF Ends(l) \/ decided THEN left
             ELSE IF Ends(right.value) THEN Both(right.value)
             ELSE Both(Binary(t.op, l, right.value))

Program == Tree(read, 1)
-----------------------------------------------------------------------------
(* Properties.                                                             *)

\* The code of an accepted input is that of its tree: the loosest operators
\* outermost, those of one precedence from the left, assignments from the right,
\* prefix operators around the access that follows them (expression, binary).
CodeOfTheTree ==
  phase \notin {"compile", "rejected"} /\ ~SliceAssigned =>
    LET plain == SelectSeq(Front(code), LAMBDA i : i.op # "CHK")
    IN  [k \in DOMAIN plain |-> <<plain[k].op, plain[k].a>>] = Postfix(Program)

\* The code computes what the tree means, whatever its operands are: the jumps
\* of CHK (Compiler::binary, OpCode::CHK) leave one value, the one `and' and `or'
\* stand for; operands are loaded in the order of the text, each at most once, and
\* none that a decided `and' or `or' leaves out; an operator that fails ends the
\* run.  The sum of two strings ends it here, as what it is is not determined.
ComputesTheMeaning ==
  phase \in {"done", "failed", "undetermined"} =>
    LET meaning == Meaning(Program)
    IN  /\ phase = "done" => stack = <<meaning.value>>
        /\ phase # "done" => meaning.value.type = phase
        /\ [k \in DOMAIN loads |-> loads[k][1]] = meaning.takes
=============================================================================
