---------------------------- MODULE GrammarProofs ----------------------------
(***************************************************************************)
(* The parser of module Expression reads what the rules of module Grammar  *)
(* allow and gives up where they do not, whatever the tokens, the strings  *)
(* and the bounds are.                                                     *)
(*                                                                         *)
(* Sized bounds the code by what has been read: an activation owes at most *)
(* one instruction, and the operands and operators are no more than twice  *)
(* the tokens.  LanguageOK relates the activations to the text: b holds    *)
(* the positions of the brackets that are open, g where the part that is   *)
(* being read begins at each level of them, and w which activation opened  *)
(* each of them.  PointOK says what this lets a token do where the         *)
(* innermost activation is, and Counted that the items of a list or call   *)
(* are one more than the commas at their level, when one has begun.        *)
(***************************************************************************)
EXTENDS Grammar, FiniteSetTheorems, SequenceTheorems, WellFoundedInduction, TLAPS
-----------------------------------------------------------------------------
(* Sizes.                                                                  *)

OperatorNames == {"ADD", "SUB", "MUL", "DIV", "MOD", "LAND", "LOR", "LSHIFT", "RSHIFT", "EQ", "NE", "LT",
                  "GT", "GE", "LE", "AND", "OR"}
OpNames == OperatorNames \cup {"none", "NOT", "NEG", "CONST_", "CONST_INT", "LOAD", "STORE", "SET", "INDEX", "PACK",
                            "CALL", "CHK", "POP"}
ShortOps == {"AND", "OR"}
Brackets == {"group", "items", "start", "stop"}
Fors == Brackets \cup {"statement", "unary", "binary", "assign", "set"}
Points == {"prefix", "infix", "identifier", "member", "bracket", "colon", "element", "slice", "items"}
Frame == [for : Fors, prec : P_Assignment .. P_Call, op : OpNames, close : {"none", ")", "]"}, n : Nat, at : Nat]
Word32 == [op : OpNames, a : Int, b : Nat]

FrameOK(act, c, n, k) ==
  LET a == act[k] IN
  /\ a.for = "statement" <=> k = 1
  /\ a.prec = P_Assignment <=> a.for \notin {"unary", "binary"}
  /\ a.at <= n
  /\ a.for \in {"start", "stop"} => n >= 2
  /\ a.for = "items" => a.n <= n /\ a.op \in {"PACK", "CALL"}
  /\ a.for = "unary" => a.op \in {"NOT", "NEG"}
  /\ a.for = "binary" => a.op \in OperatorNames
  /\ a.for \in {"assign", "set"} => act[k - 1].prec = P_Assignment
  /\ a.op \in ShortOps => a.for = "binary" /\ a.n \in DOMAIN c /\ c[a.n].op = "CHK"
FramesOK(act, c, n) ==
  act \in Seq(Frame) /\ act # <<>> /\ \A k \in DOMAIN act : FrameOK(act, c, n, k)

Pending(act, i) == \E k \in DOMAIN act : act[k].op \in ShortOps /\ act[k].n = i
InstructionOK(act, c, i) ==
  /\ c[i].op # "POP"
  /\ c[i].a \in -1 .. MaxTokens
  /\ \/ c[i].b = 0 /\ (c[i].op = "CHK" => Pending(act, i))
     \/ c[i].b \in i + 1 .. Len(c) + 1 /\ c[i].b <= 2 * MaxTokens
EmittedOK(act, c) == c \in Seq(Word32) /\ \A i \in DOMAIN c : InstructionOK(act, c, i)

\* What the innermost activation is in the middle of may emit one more instruction.
Owed(p) == IF p \in {"identifier", "member", "bracket", "colon", "element", "slice"} THEN 1 ELSE 0
PlaceOK(act, p, c, n) ==
  /\ p \in Points
  /\ Len(c) + Len(act) - 1 + Owed(p) <= 2 * n - (IF n = 0 THEN 0 ELSE 1)
  /\ p # "prefix" => n > 0
  /\ p \in {"bracket", "colon", "slice"} => n >= 2
  /\ p = "items" => Last(act).for = "items" /\ Last(act).n < n

InputOK == /\ read \in Seq(Word) /\ Len(read) <= MaxTokens /\ cur \in Word /\ quoted \in BOOLEAN
           /\ Len(read) = MaxTokens => cur = Semicolon /\ ~quoted
ParserOK ==
  /\ FramesOK(active, code, Len(read))
  /\ EmittedOK(active, code)
  /\ PlaceOK(active, point, code, Len(read))
  /\ ip = 1 /\ stack = <<>>

CodeOK ==
  /\ code \in Seq(Word32) /\ code # <<>>
  /\ \A i \in DOMAIN code : /\ code[i].a <= MaxTokens
                            /\ code[i].b <= 2 * MaxTokens
                            /\ code[i].op = "CHK" => code[i].b \in i + 1 .. Len(code)
                            /\ code[i].op = "POP" <=> i = Len(code)
  /\ active \in Seq(Frame)
  /\ \A k \in DOMAIN active : active[k].op \notin ShortOps
Working(c, n) == {i \in 1 .. n : c[i].op # "CHK"}
MachineOK ==
  /\ ip \in 1 .. Len(code)
  /\ \E S : stack \in Seq(S)
  /\ Len(stack) <= Cardinality(Working(code, ip - 1))
  /\ Cardinality(Working(code, Len(code) - 1)) <= MaxRun
\* The inductive invariant for the sizes.
Sized ==
  /\ InputOK
  /\ phase \in Outcomes \cup {"compile", "run"}
  /\ phase \in {"compile", "rejected"} => ParserOK
  /\ phase \notin {"compile", "rejected"} => CodeOK
  /\ phase = "accepted" => ip = 1 /\ stack = <<>>
  /\ phase \in {"run", "done", "failed", "undetermined"} => MachineOK
-----------------------------------------------------------------------------
(* Tokens.                                                                 *)

LEMMA Bound == MaxTokens \in Nat /\ MaxTokens >= 1 /\ MaxRun \in Nat
<1>1. MaxTokens \in Nat \ {0} /\ MaxRun \in Nat
  BY ExpressionAssumption DEF ExpressionAssumption
<1> QED
  BY <1>1

LEMMA SemicolonIs ==
  /\ Semicolon \in Word
  /\ Semicolon \notin {"(", ")", "[", "]", ":", ",", ".", "=", ":=", "name", "literal", "not", "-"}
  /\ Semicolon \notin BinaryTokens \cup Assignments \cup DOMAIN Prefix \cup Opening \cup Closing \cup {"{"}
<1>1. Semicolon \in Word
  BY ExpressionAssumption, Zenon DEF ExpressionAssumption
<1>2. Semicolon \notin {"(", ")", "[", "]", ":", ",", ".", "=", ":=", "name", "literal", "not", "-"}
  BY Zenon DEF Semicolon
<1>3. Semicolon \notin BinaryTokens
  BY Zenon DEF Semicolon, BinaryTokens
<1>4. Semicolon \notin Assignments \cup DOMAIN Prefix \cup Opening \cup Closing \cup {"{"}
  BY <1>2, Zenon DEF Assignments, Prefix, Opening, Closing, Semicolon
<1> QED
  BY <1>1, <1>2, <1>3, <1>4, Zenon

LEMMA TokenIs ==
  /\ quoted => Token = "literal"
  /\ ~quoted => Token = cur
  /\ Token # "literal" => Token = cur
BY DEF Token

\* A token that is seen as such is no string.
LEMMA Spelt ==
  ASSUME Token \in Names \cup Assignments \cup DOMAIN Prefix \cup Opening \cup Closing \cup {".", ":", "=", ","}
  PROVE  ~quoted /\ Token = cur /\ cur # Semicolon
<1>1. "literal" \notin Names \cup Assignments \cup DOMAIN Prefix \cup Opening \cup Closing \cup {".", ":", "=", ","}
  BY DEF Names, Assignments, Prefix, Opening, Closing
<1>2. Semicolon \notin Names \cup Assignments \cup DOMAIN Prefix \cup Opening \cup Closing \cup {".", ":", "=", ","}
  BY DEF Semicolon, Names, Assignments, Prefix, Opening, Closing
<1>3. ~quoted
  BY <1>1, TokenIs, Zenon
<1> QED
  BY <1>2, <1>3, TokenIs, Zenon

LEMMA TokensIn == {"name", "literal"} \subseteq Word /\ UINT8_MAX \in Nat \ {0}
BY ExpressionAssumption, Zenon DEF ExpressionAssumption

LEMMA OpcodeIs ==
  ASSUME NEW t \in BinaryTokens
  PROVE  /\ Opcode[t] \in OperatorNames
         /\ Opcode[t] \in ShortOps <=> t \in {"and", "or"}
<1>1. Opcode[t] \in OperatorNames
  BY DEF Opcode, BinaryTokens, OperatorNames
<1>2. Opcode[t] = "AND" <=> t = "and"
  BY DEF Opcode, BinaryTokens
<1>3. Opcode[t] = "OR" <=> t = "or"
  BY DEF Opcode, BinaryTokens
<1> QED
  BY <1>1, <1>2, <1>3 DEF ShortOps
LEMMA PrefixIs ==
  /\ DOMAIN Prefix = {"not", "-"}
  /\ Prefix["not"] = "NOT" /\ Prefix["-"] = "NEG"
BY DEF Prefix
LEMMA ShortCircuitIs ==
  /\ DOMAIN ShortCircuit = {"and", "or"}
  /\ ShortCircuit["or"] = 1 /\ ShortCircuit["and"] = 0
BY DEF ShortCircuit

LEMMA PrecedenceIs ==
  ASSUME NEW t
  PROVE  /\ Precedence(t) \in 0 .. 12
         /\ Precedence(t) = 1 <=> t \in Assignments
         /\ Precedence(t) = 12 <=> t \in {".", "[", "("}
         /\ t \in BinaryTokens => Precedence(t) \in 2 .. 10
         /\ Precedence(t) > 1 => t \in BinaryTokens \cup {"not", ".", "[", "("}
<1>1. Precedence(t) \in 0 .. 12
  BY DEF Precedence, Assignments, P_None, P_Assignment, P_Or, P_And, P_Lor, P_Land, P_Equality,
    P_Comparison, P_Shift, P_Term, P_Factor, P_Unary, P_Call
<1>2. Precedence(t) = 1 <=> t \in Assignments
  BY DEF Precedence, Assignments, P_None, P_Assignment, P_Or, P_And, P_Lor, P_Land, P_Equality,
    P_Comparison, P_Shift, P_Term, P_Factor, P_Unary, P_Call
<1>3. Precedence(t) = 12 <=> t \in {".", "[", "("}
  BY DEF Precedence, Assignments, P_None, P_Assignment, P_Or, P_And, P_Lor, P_Land, P_Equality,
    P_Comparison, P_Shift, P_Term, P_Factor, P_Unary, P_Call
<1>4. t \in BinaryTokens => Precedence(t) \in 2 .. 10
  BY DEF Precedence, Assignments, P_None, P_Assignment, P_Or, P_And, P_Lor, P_Land, P_Equality,
    P_Comparison, P_Shift, P_Term, P_Factor, P_Unary, P_Call, BinaryTokens
<1>5. Precedence(t) > 1 => t \in BinaryTokens \cup {"not", ".", "[", "("}
  BY DEF Precedence, Assignments, P_None, P_Assignment, P_Or, P_And, P_Lor, P_Land, P_Equality,
    P_Comparison, P_Shift, P_Term, P_Factor, P_Unary, P_Call, BinaryTokens
<1> QED
  BY <1>1, <1>2, <1>3, <1>4, <1>5
-----------------------------------------------------------------------------
(* What a step does to activations and code.                               *)

LEMMA FrontIs ==
  ASSUME NEW S, NEW s \in Seq(S), s # <<>>
  PROVE  /\ Front(s) \in Seq(S) /\ Len(Front(s)) = Len(s) - 1
         /\ \A i \in 1 .. Len(s) - 1 : Front(s)[i] = s[i]
         /\ Len(s) \in Nat \ {0} /\ Last(s) \in S /\ Last(s) = s[Len(s)] /\ DOMAIN s = 1 .. Len(s)
<1>1. Len(s) \in Nat \ {0} /\ DOMAIN s = 1 .. Len(s)
  OBVIOUS
<1>2. Last(s) \in S /\ Last(s) = s[Len(s)]
  BY <1>1 DEF Last
<1>3. /\ SubSeq(s, 1, Len(s) - 1) \in Seq(S) /\ Len(SubSeq(s, 1, Len(s) - 1)) = Len(s) - 1
      /\ \A i \in 1 .. Len(s) - 1 : SubSeq(s, 1, Len(s) - 1)[i] = s[i]
  BY <1>1
<1> QED
  BY <1>1, <1>2, <1>3 DEF Front

LEMMA AppendIs ==
  ASSUME NEW S, NEW s \in Seq(S), NEW t \in S
  PROVE  /\ Append(s, t) \in Seq(S) /\ Len(Append(s, t)) = Len(s) + 1 /\ Append(s, t) # <<>>
         /\ \A i \in 1 .. Len(s) : Append(s, t)[i] = s[i]
         /\ Append(s, t)[Len(s) + 1] = t /\ Last(Append(s, t)) = t
         /\ Len(s) \in Nat /\ DOMAIN s = 1 .. Len(s) /\ DOMAIN Append(s, t) = 1 .. Len(s) + 1
BY DEF Last

\* Code that has grown, with the operators it had.
Extends(d, c) == /\ DOMAIN c \subseteq DOMAIN d
                 /\ \A i \in DOMAIN c : d[i].op = c[i].op

LEMMA FramesGrow ==
  ASSUME NEW act, NEW c, NEW d, NEW n \in Nat, NEW m \in Nat,
         FramesOK(act, c, n), n <= m, Extends(d, c)
  PROVE  FramesOK(act, d, m)
<1>1. act \in Seq(Frame) /\ act # <<>>
  BY DEF FramesOK
<1>2. ASSUME NEW k \in DOMAIN act PROVE FrameOK(act, d, m, k)
  <2>1. act[k] \in Frame /\ FrameOK(act, c, n, k)
    BY <1>1 DEF FramesOK
  <2>2. act[k].at \in Nat /\ act[k].n \in Nat
    BY <2>1 DEF Frame
  <2> QED
    BY <2>1, <2>2 DEF FrameOK, Extends
<1> QED
  BY <1>1, <1>2 DEF FramesOK

\* A frame that may begin above another.
NewFrame(f, prec, c, n) ==
  /\ f \in Frame /\ f.for # "statement"
  /\ f.prec = P_Assignment <=> f.for \notin {"unary", "binary"}
  /\ f.at <= n
  /\ f.for \in {"start", "stop"} => n >= 2
  /\ f.for = "items" => f.n <= n /\ f.op \in {"PACK", "CALL"}
  /\ f.for = "unary" => f.op \in {"NOT", "NEG"}
  /\ f.for = "binary" => f.op \in OperatorNames
  /\ f.for \in {"assign", "set"} => prec = P_Assignment
  /\ f.op \in ShortOps => f.for = "binary" /\ f.n \in DOMAIN c /\ c[f.n].op = "CHK"

LEMMA FramesPush ==
  ASSUME NEW act, NEW c, NEW n \in Nat, NEW f,
         FramesOK(act, c, n), NewFrame(f, Last(act).prec, c, n)
  PROVE  FramesOK(Append(act, f), c, n)
<1>1. act \in Seq(Frame) /\ act # <<>> /\ f \in Frame
  BY DEF FramesOK, NewFrame
<1> DEFINE new == Append(act, f)
<1>2. /\ new \in Seq(Frame) /\ new # <<>> /\ DOMAIN new = 1 .. Len(act) + 1
      /\ \A i \in 1 .. Len(act) : new[i] = act[i]
      /\ new[Len(act) + 1] = f /\ Len(act) \in Nat \ {0} /\ DOMAIN act = 1 .. Len(act)
      /\ Last(act) = act[Len(act)]
  <2>1. /\ Len(act) \in Nat \ {0} /\ DOMAIN act = 1 .. Len(act) /\ Last(act) = act[Len(act)]
    BY <1>1, FrontIs
  <2> QED
    BY <1>1, <2>1, AppendIs
<1> HIDE DEF new
<1>3. ASSUME NEW k \in 1 .. Len(act) PROVE FrameOK(new, c, n, k)
  <2>1. FrameOK(act, c, n, k) /\ new[k] = act[k]
    BY <1>2 DEF FramesOK
  <2>2. act[k].for \in {"assign", "set"} => new[k - 1] = act[k - 1]
    <3>1. act[k].for \in {"assign", "set"} => k # 1
      BY <2>1 DEF FrameOK
    <3> QED
      BY <3>1, <1>2
  <2> QED
    BY <2>1, <2>2 DEF FrameOK
<1>4. FrameOK(new, c, n, Len(act) + 1)
  <2>1. new[Len(act) + 1] = f /\ new[(Len(act) + 1) - 1] = Last(act) /\ Len(act) + 1 # 1
    BY <1>2
  <2> QED
    BY <2>1 DEF NewFrame, FrameOK
<1> QED
  BY <1>2, <1>3, <1>4 DEF FramesOK, new

LEMMA FramesPop ==
  ASSUME NEW act, NEW c, NEW n \in Nat, FramesOK(act, c, n), Last(act).for # "statement"
  PROVE  /\ FramesOK(Front(act), c, n) /\ Len(Front(act)) = Len(act) - 1
         /\ Len(act) > 1 /\ Last(Front(act)) = act[Len(act) - 1]
<1>1. act \in Seq(Frame) /\ act # <<>>
  BY DEF FramesOK
<1> DEFINE new == Front(act)
<1>2. /\ new \in Seq(Frame) /\ Len(new) = Len(act) - 1
      /\ \A i \in 1 .. Len(act) - 1 : new[i] = act[i]
      /\ Len(act) \in Nat \ {0} /\ DOMAIN act = 1 .. Len(act) /\ Last(act) = act[Len(act)]
      /\ DOMAIN new = 1 .. Len(act) - 1
  BY <1>1, FrontIs
<1> HIDE DEF new
<1>3. Len(act) > 1
  BY <1>2 DEF FramesOK, FrameOK
<1>4. ASSUME NEW k \in 1 .. Len(act) - 1 PROVE FrameOK(new, c, n, k)
  <2>1. FrameOK(act, c, n, k) /\ new[k] = act[k]
    BY <1>2 DEF FramesOK
  <2>2. act[k].for \in {"assign", "set"} => new[k - 1] = act[k - 1]
    <3>1. act[k].for \in {"assign", "set"} => k # 1
      BY <2>1 DEF FrameOK
    <3> QED
      BY <3>1, <1>2
  <2> QED
    BY <2>1, <2>2 DEF FrameOK
<1>5. new # <<>> /\ Last(new) = act[Len(act) - 1]
  BY <1>2, <1>3 DEF Last
<1> QED
  BY <1>2, <1>3, <1>4, <1>5 DEF FramesOK, new

\* An instruction that is neither a jump nor the end.
LEMMA EmitPlain ==
  ASSUME NEW act, NEW c, NEW w, EmittedOK(act, c),
         w \in Word32, w.op \notin {"CHK", "POP"}, w.a <= MaxTokens, w.a >= -1, w.b = 0
  PROVE  EmittedOK(act, Append(c, w)) /\ Extends(Append(c, w), c) /\ Len(Append(c, w)) = Len(c) + 1
<1>1. c \in Seq(Word32)
  BY DEF EmittedOK
<1> DEFINE d == Append(c, w)
<1>2. /\ d \in Seq(Word32) /\ Len(d) = Len(c) + 1 /\ DOMAIN d = 1 .. Len(c) + 1
      /\ \A i \in 1 .. Len(c) : d[i] = c[i]
      /\ d[Len(c) + 1] = w /\ Len(c) \in Nat /\ DOMAIN c = 1 .. Len(c)
  BY <1>1, AppendIs
<1> HIDE DEF d
<1>3. ASSUME NEW i \in 1 .. Len(c) PROVE InstructionOK(act, d, i)
  <2>1. InstructionOK(act, c, i) /\ d[i] = c[i]
    BY <1>2 DEF EmittedOK
  <2> QED
    BY <2>1, <1>2 DEF InstructionOK
<1>4. InstructionOK(act, d, Len(c) + 1)
  <2>1. w.a \in -1 .. MaxTokens
    <3>1. w.a \in Int
      BY DEF Word32
    <3> QED
      BY <3>1, Bound
  <2> QED
    BY <2>1, <1>2 DEF InstructionOK
<1>5. Extends(d, c)
  BY <1>2 DEF Extends
<1> QED
  BY <1>2, <1>3, <1>4, <1>5 DEF EmittedOK, d

\* What is pending stays so when an activation begins, and when one without a jump ends.
LEMMA EmittedKept ==
  ASSUME NEW act, NEW new, NEW c, EmittedOK(act, c),
         \A i : Pending(act, i) => Pending(new, i)
  PROVE  EmittedOK(new, c)
BY DEF EmittedOK, InstructionOK

LEMMA PendingPush ==
  ASSUME NEW act \in Seq(Frame), NEW f \in Frame
  PROVE  \A i : Pending(act, i) => Pending(Append(act, f), i)
<1>1. \A k \in DOMAIN act : k \in DOMAIN Append(act, f) /\ Append(act, f)[k] = act[k]
  BY AppendIs
<1> QED
  BY <1>1 DEF Pending

LEMMA PendingPop ==
  ASSUME NEW act \in Seq(Frame), act # <<>>, NEW i, Pending(act, i),
         Last(act).op \notin ShortOps \/ Last(act).n # i
  PROVE  Pending(Front(act), i)
<1>1. PICK k \in DOMAIN act : act[k].op \in ShortOps /\ act[k].n = i
  BY DEF Pending
<1>2. /\ Front(act) \in Seq(Frame) /\ Len(Front(act)) = Len(act) - 1
      /\ \A j \in 1 .. Len(act) - 1 : Front(act)[j] = act[j]
      /\ Len(act) \in Nat \ {0} /\ Last(act) = act[Len(act)] /\ DOMAIN act = 1 .. Len(act)
  BY FrontIs
<1>3. k \in 1 .. Len(act) - 1
  BY <1>1, <1>2
<1>4. k \in DOMAIN Front(act) /\ Front(act)[k] = act[k]
  BY <1>2, <1>3
<1> QED
  BY <1>1, <1>4 DEF Pending
-----------------------------------------------------------------------------
(* The steps of the parser, by what they do to activations and code.       *)

LEMMA InputTaken ==
  ASSUME InputOK, NEW t \in Word, Eat(t), quoted \/ cur # Semicolon
  PROVE  /\ InputOK' /\ read' = Append(read, t) /\ Len(read) \in Nat
         /\ Len(read') = Len(read) + 1 /\ Len(read') <= MaxTokens
<1>1. read \in Seq(Word)
  BY Zenon DEF InputOK
<1>2. Len(read) \in Nat
  BY <1>1
<1>a. Len(read) # MaxTokens /\ Len(read) <= MaxTokens
  BY Zenon DEF InputOK
<1>b. Len(read) + 1 <= MaxTokens
  <2> SUFFICES ASSUME NEW n \in Nat, n # MaxTokens, n <= MaxTokens PROVE n + 1 <= MaxTokens
    BY <1>2, <1>a, Zenon
  <2> QED
    BY Bound
<1>3. read' = Append(read, t) /\ read' \in Seq(Word) /\ Len(read') = Len(read) + 1
  <2>1. read' = Append(read, t)
    BY Zenon DEF Eat
  <2> QED
    BY <1>1, <2>1, AppendIs, Zenon
<1>4. cur' \in Word /\ quoted' \in BOOLEAN /\ (Len(read) + 1 < MaxTokens \/ (cur' = Semicolon /\ ~quoted'))
  <2>1. Semicolon \in Word /\ Quoted \subseteq Word
    BY ExpressionAssumption, Zenon DEF ExpressionAssumption
  <2>2. CASE Len(read) + 1 < MaxTokens
    <3>1. \/ quoted' = FALSE /\ cur' \in {u \in Word : Cardinality({i \in DOMAIN read' : read'[i] = u}) < Limit[u]}
          \/ /\ quoted' = TRUE
             /\ cur' \in {u \in Quoted : /\ Cardinality({i \in DOMAIN read' : read'[i] = u}) < Limit[u]
                                        /\ Cardinality({i \in DOMAIN read' : read'[i] = "literal"}) < Limit["literal"]}
      BY <2>2, Zenon DEF Eat
    <3> QED
      BY <2>1, <2>2, <3>1, Zenon
  <2>3. CASE ~(Len(read) + 1 < MaxTokens)
    <3>1. quoted' = FALSE /\ cur' = Semicolon
      BY <2>3, Zenon DEF Eat
    <3> QED
      BY <2>1, <3>1, Zenon
  <2> QED
    BY <2>2, <2>3
<1>5. ~(Len(read) + 1 < MaxTokens /\ Len(read') = MaxTokens)
  <2> SUFFICES ASSUME NEW n \in Nat PROVE ~(n + 1 < MaxTokens /\ n + 1 = MaxTokens)
    BY <1>2, <1>3, Zenon
  <2> QED
    BY Bound
<1>6. Len(read') = MaxTokens => cur' = Semicolon /\ ~quoted'
  BY <1>4, <1>5, Zenon
<1>7. Len(read') <= MaxTokens
  BY <1>b, <1>3
<1> QED
  BY <1>2, <1>3, <1>4, <1>6, <1>7, Zenon DEF InputOK

LEMMA InputEat ==
  ASSUME InputOK, Eat(cur), cur # Semicolon
  PROVE  /\ InputOK' /\ read' = Append(read, cur) /\ Len(read) \in Nat
         /\ Len(read') = Len(read) + 1 /\ Len(read') <= MaxTokens
<1>1. cur \in Word
  BY Zenon DEF InputOK
<1> QED
  BY <1>1, InputTaken, Zenon

LEMMA InputStay ==
  ASSUME InputOK, UNCHANGED <<read, cur, quoted>>
  PROVE  InputOK' /\ Len(read') = Len(read) /\ Len(read) \in Nat /\ Len(read) <= MaxTokens
<1>1. InputOK' /\ read' = read /\ read \in Seq(Word) /\ Len(read) <= MaxTokens
  BY Zenon DEF InputOK
<1> QED
  BY <1>1

\* The part of ParserOK that patterns of steps keep.
Parsed == FramesOK(active, code, Len(read)) /\ EmittedOK(active, code)
Reads == Len(read) \in Nat /\ Len(read') \in Nat /\ Len(read) <= Len(read')
Plain(w) == w \in Word32 /\ w.op \notin {"CHK", "POP"} /\ w.a <= MaxTokens /\ w.a >= -1 /\ w.b = 0

LEMMA Same ==
  ASSUME NEW c PROVE Extends(c, c)
BY DEF Extends

LEMMA Continues ==
  ASSUME Parsed, Reads, UNCHANGED <<active, code>>
  PROVE  Parsed' /\ Len(code') = Len(code) /\ Len(active') = Len(active) /\ Last(active') = Last(active)
BY Same, FramesGrow DEF Parsed, Reads

LEMMA EmitsAndContinues ==
  ASSUME Parsed, Reads, active' = active, NEW w, Plain(w), code' = Append(code, w)
  PROVE  Parsed' /\ Len(code') = Len(code) + 1 /\ Len(active') = Len(active) /\ Last(active') = Last(active)
<1>1. EmittedOK(active, code') /\ Extends(code', code) /\ Len(code') = Len(code) + 1
  BY EmitPlain DEF Parsed, Plain
<1>2. FramesOK(active, code', Len(read'))
  BY <1>1, FramesGrow DEF Parsed, Reads
<1> QED
  BY <1>1, <1>2 DEF Parsed

LEMMA Begins1 ==
  ASSUME Parsed, Reads, code' = code, NEW f, NewFrame(f, Inner.prec, code, Len(read')),
         active' = Append(active, f)
  PROVE  Parsed' /\ Len(code') = Len(code) /\ Len(active') = Len(active) + 1 /\ Last(active') = f
<1>1. FramesOK(active, code, Len(read'))
  BY Same, FramesGrow DEF Parsed, Reads
<1>2. FramesOK(active', code, Len(read'))
  BY <1>1, FramesPush DEF Reads, Inner
<1>3. active \in Seq(Frame) /\ f \in Frame
  BY DEF Parsed, FramesOK, NewFrame
<1>4. EmittedOK(active', code)
  BY <1>3, PendingPush, EmittedKept DEF Parsed
<1>5. Len(active') = Len(active) + 1 /\ Last(active') = f
  BY <1>3, AppendIs
<1> QED
  BY <1>2, <1>4, <1>5 DEF Parsed

LEMMA Finishes ==
  ASSUME Parsed, Reads, code' = code, Inner.for # "statement", Inner.op \notin ShortOps,
         active' = Front(active)
  PROVE  Parsed' /\ Len(code') = Len(code) /\ Len(active') = Len(active) - 1
<1>1. FramesOK(active, code, Len(read'))
  BY Same, FramesGrow DEF Parsed, Reads
<1>2. FramesOK(active', code, Len(read')) /\ Len(active') = Len(active) - 1
  BY <1>1, FramesPop DEF Reads, Inner
<1>3. active \in Seq(Frame) /\ active # <<>>
  BY DEF Parsed, FramesOK
<1>4. \A i : Pending(active, i) => Pending(active', i)
  BY <1>3, PendingPop DEF Inner
<1>5. EmittedOK(active', code)
  BY <1>4, EmittedKept DEF Parsed
<1> QED
  BY <1>2, <1>5 DEF Parsed

LEMMA EmitsAndFinishes ==
  ASSUME Parsed, Reads, NEW w, Plain(w), code' = Append(code, w), Inner.for # "statement",
         Inner.op \notin ShortOps, active' = Front(active)
  PROVE  Parsed' /\ Len(code') = Len(code) + 1 /\ Len(active') = Len(active) - 1
<1>1. EmittedOK(active, code') /\ Extends(code', code) /\ Len(code') = Len(code) + 1
  BY EmitPlain DEF Parsed, Plain
<1>2. FramesOK(active, code', Len(read'))
  BY <1>1, FramesGrow DEF Parsed, Reads
<1>3. FramesOK(active', code', Len(read')) /\ Len(active') = Len(active) - 1
  BY <1>2, FramesPop DEF Reads, Inner
<1>4. active \in Seq(Frame) /\ active # <<>>
  BY DEF Parsed, FramesOK
<1>5. \A i : Pending(active, i) => Pending(active', i)
  BY <1>4, PendingPop DEF Inner
<1>6. EmittedOK(active', code')
  BY <1>1, <1>5, EmittedKept
<1> QED
  BY <1>1, <1>3, <1>6 DEF Parsed
-----------------------------------------------------------------------------
(* Each step keeps the sizes.                                              *)

Place == PlaceOK(active, point, code, Len(read))

\* The numbers PlaceOK is about.
LEMMA PlaceIs ==
  ASSUME Parsed, Place, InputOK
  PROVE  /\ Len(code) \in Nat /\ Len(active) \in Nat /\ Len(active) >= 1 /\ Len(read) \in Nat
         /\ Len(code) + Len(active) - 1 + Owed(point) <= 2 * Len(read)
         /\ Len(read) > 0 => Len(code) + Len(active) + Owed(point) <= 2 * Len(read)
         /\ point # "prefix" => Len(read) > 0
         /\ Inner \in Frame /\ FrameOK(active, code, Len(read), Len(active))
         /\ code \in Seq(Word32) /\ active \in Seq(Frame) /\ active # <<>> /\ read \in Seq(Word)
<1>1. code \in Seq(Word32) /\ active \in Seq(Frame) /\ active # <<>>
  BY DEF Parsed, FramesOK, EmittedOK
<1>2. read \in Seq(Word)
  BY Zenon DEF InputOK
<1>3. Len(code) \in Nat /\ Len(active) \in Nat /\ Len(active) >= 1 /\ Len(read) \in Nat
  BY <1>1, <1>2
<1>4. Inner \in Frame /\ FrameOK(active, code, Len(read), Len(active))
  BY <1>1, <1>3, FrontIs DEF Inner, Parsed, FramesOK
<1>5. /\ Len(code) + Len(active) - 1 + Owed(point) <= 2 * Len(read) - (IF Len(read) = 0 THEN 0 ELSE 1)
      /\ point # "prefix" => Len(read) > 0
  BY Zenon DEF Place, PlaceOK
<1>6. Owed(point) \in Int
  BY DEF Owed
<1> QED
  BY <1>1, <1>2, <1>3, <1>4, <1>5, <1>6

\* The lengths before a step, and what is known of the innermost activation.
Before == /\ InputOK /\ Parsed /\ Place /\ phase = "compile" /\ ip = 1 /\ stack = <<>>
After == /\ InputOK' /\ Parsed' /\ Place' /\ ip' = 1 /\ stack' = <<>>

LEMMA OwedIs ==
  /\ \A p \in {"identifier", "member", "bracket", "colon", "element", "slice"} : Owed(p) = 1
  /\ \A p \in {"prefix", "infix", "items"} : Owed(p) = 0
BY DEF Owed

LEMMA Room ==
  ASSUME NEW n \in Nat, NEW x \in Int, NEW y \in Int, x - 1 <= 2 * n, n > 0 => x <= 2 * n,
         y <= x + 1 \/ (n > 0 /\ y <= x + 2)
  PROVE  y - 1 <= 2 * (n + 1) - 1
OBVIOUS

\* The place behind a step that has read a token, and one that has not.
LEMMA PlaceRead ==
  ASSUME Parsed, Place, InputOK, Len(read') = Len(read) + 1,
         NEW p \in Points, point' = p, p # "items",
         p \in {"bracket", "colon", "slice"} => Len(read) > 0,
         Len(code') \in Nat, Len(active') \in Nat,
         \/ Len(code') + Len(active') + Owed(p) <= Len(code) + Len(active) + Owed(point) + 1
         \/ Len(read) > 0 /\ Len(code') + Len(active') + Owed(p) <= Len(code) + Len(active) + Owed(point) + 2
  PROVE  Place'
<1>1. /\ Len(code) \in Nat /\ Len(active) \in Nat /\ Len(read) \in Nat
      /\ Len(code) + Len(active) - 1 + Owed(point) <= 2 * Len(read)
      /\ Len(read) > 0 => Len(code) + Len(active) + Owed(point) <= 2 * Len(read)
  BY PlaceIs, Zenon
<1>2. Owed(p) \in Nat /\ Owed(point) \in Nat
  BY DEF Owed
<1>3. Len(code') + Len(active') - 1 + Owed(p) <= 2 * (Len(read) + 1) - 1
  <2> DEFINE x == Len(code) + Len(active) + Owed(point)
             y == Len(code') + Len(active') + Owed(p)
  <2>1. x \in Int /\ y \in Int /\ x - 1 <= 2 * Len(read) /\ (Len(read) > 0 => x <= 2 * Len(read))
    BY <1>1, <1>2, SMTT(30)
  <2>2. y <= x + 1 \/ (Len(read) > 0 /\ y <= x + 2)
    OBVIOUS
  <2> HIDE DEF x, y
  <2>3. y - 1 <= 2 * (Len(read) + 1) - 1
    BY <1>1, <2>1, <2>2, Room
  <2> QED
    BY <1>1, <1>2, <2>3 DEF x, y
<1>4. Len(read') > 0 /\ Len(read') # 0 /\ (p \in {"bracket", "colon", "slice"} => Len(read') >= 2)
  BY <1>1
<1> QED
  BY <1>1, <1>3, <1>4 DEF Place, PlaceOK

LEMMA PlaceStay ==
  ASSUME Parsed, Place, InputOK, Len(read') = Len(read),
         NEW p \in Points, point' = p, p # "items", p # "prefix" => point # "prefix",
         p \in {"bracket", "colon", "slice"} => Len(read) >= 2,
         Len(code') \in Nat, Len(active') \in Nat,
         Len(code') + Len(active') + Owed(p) <= Len(code) + Len(active) + Owed(point)
  PROVE  Place'
<1>1. /\ Len(code) \in Nat /\ Len(active) \in Nat /\ Len(read) \in Nat
      /\ Len(code) + Len(active) - 1 + Owed(point) <= 2 * Len(read) - (IF Len(read) = 0 THEN 0 ELSE 1)
      /\ point # "prefix" => Len(read) > 0
  <2>1. /\ Len(code) + Len(active) - 1 + Owed(point) <= 2 * Len(read) - (IF Len(read) = 0 THEN 0 ELSE 1)
        /\ point # "prefix" => Len(read) > 0
    BY Zenon DEF Place, PlaceOK
  <2> QED
    BY <2>1, PlaceIs, Zenon
<1>2. Owed(p) \in Nat /\ Owed(point) \in Nat
  BY DEF Owed
<1>3. Len(code') + Len(active') - 1 + Owed(p) <= 2 * Len(read) - (IF Len(read) = 0 THEN 0 ELSE 1)
  BY <1>1, <1>2, SMTT(30)
<1> QED
  BY <1>1, <1>3 DEF Place, PlaceOK

\* An instruction for the token in hand.
LEMMA Instructed ==
  ASSUME NEW op \in OpNames \ {"CHK", "POP"}, NEW a \in Int, a >= -1, a <= MaxTokens
  PROVE  Plain(Instruction(op, a, 0))
BY DEF Plain, Instruction, Word32
-----------------------------------------------------------------------------
(* Activations.                                                            *)

Fields(g, for, prec, op, close, n, at) ==
  /\ g \in Frame
  /\ g.for = for /\ g.prec = prec /\ g.op = op /\ g.close = close /\ g.n = n /\ g.at = at

LEMMA ActivationIs ==
  ASSUME NEW for \in Fors, NEW prec \in P_Assignment .. P_Call
  PROVE  Fields(Activation(for, prec), for, prec, "none", "none", 0, 0)
BY DEF Fields, Activation, Frame, OpNames

LEMMA WithAt ==
  ASSUME NEW f, NEW for, NEW prec, NEW op, NEW close, NEW n, NEW at, NEW x \in Nat, Fields(f, for, prec, op, close, n, at)
  PROVE  Fields([f EXCEPT !.at = x], for, prec, op, close, n, x)
BY DEF Fields, Frame
LEMMA WithOpAt ==
  ASSUME NEW f, NEW for, NEW prec, NEW op, NEW close, NEW n, NEW at, NEW x \in OpNames, NEW y \in Nat, Fields(f, for, prec, op, close, n, at)
  PROVE  Fields([f EXCEPT !.op = x, !.at = y], for, prec, x, close, n, y)
BY DEF Fields, Frame
LEMMA WithOpCloseAt ==
  ASSUME NEW f, NEW for, NEW prec, NEW op, NEW close, NEW n, NEW at,
         NEW x \in OpNames, NEW y \in Closing, NEW z \in Nat, Fields(f, for, prec, op, close, n, at)
  PROVE  Fields([f EXCEPT !.op = x, !.close = y, !.at = z], for, prec, x, y, n, z)
BY DEF Fields, Frame, Closing
LEMMA WithOpNAt ==
  ASSUME NEW f, NEW for, NEW prec, NEW op, NEW close, NEW n, NEW at,
         NEW x \in OpNames, NEW y \in Nat, NEW z \in Nat, Fields(f, for, prec, op, close, n, at)
  PROVE  Fields([f EXCEPT !.op = x, !.n = y, !.at = z], for, prec, x, close, y, z)
BY DEF Fields, Frame
LEMMA WithN ==
  ASSUME NEW f \in Frame, NEW y \in Nat
  PROVE  Fields([f EXCEPT !.n = y], f.for, f.prec, f.op, f.close, y, f.at)
BY DEF Fields, Frame
-----------------------------------------------------------------------------
LEMMA MachineWaits ==
  ASSUME Before, NEW p, At(p)
  PROVE  point = p /\ ip' = 1 /\ stack' = <<>>
BY DEF Before, At, machine

LEMMA Numbers ==
  ASSUME Before
  PROVE  /\ Len(code) \in Nat /\ Len(active) \in Nat /\ Len(active) >= 1 /\ Len(read) \in Nat
         /\ Inner \in Frame /\ FrameOK(active, code, Len(read), Len(active)) /\ Inner = active[Len(active)]
         /\ code \in Seq(Word32) /\ active \in Seq(Frame) /\ active # <<>> /\ read \in Seq(Word)
BY PlaceIs DEF Before, Inner, Last

LEMMA LiteralSize ==
  ASSUME Before, Literal
  PROVE  After
<1> DEFINE w == Instruction("CONST_", Here, 0)
<1>1. point = "prefix" /\ ip' = 1 /\ stack' = <<>>
  BY MachineWaits DEF Literal
<1>2. active' = active /\ point' = "infix" /\ code' = Append(code, w)
  BY DEF Literal, Continue, Emit
<1>3. /\ InputOK' /\ Len(read) \in Nat /\ Len(read') = Len(read) + 1 /\ Len(read') <= MaxTokens
  <2>1. Eat("literal") /\ (quoted \/ cur # Semicolon)
    BY SemicolonIs, TokenIs DEF Literal, Names
  <2> QED
    BY <2>1, TokensIn, InputTaken, Zenon DEF Before
<1>4. Plain(w)
  <2>1. "CONST_" \in OpNames \ {"CHK", "POP"}
    BY DEF OpNames
  <2>2. Here \in Int /\ Here >= -1 /\ Here <= MaxTokens
    BY <1>3, Bound DEF Here
  <2> QED
    BY <2>1, <2>2, Instructed, Zenon
<1> HIDE DEF w
<1>5. Parsed' /\ Len(code') = Len(code) + 1 /\ Len(active') = Len(active)
  BY <1>2, <1>3, <1>4, EmitsAndContinues DEF Before, Reads
<1>6. Place'
  BY <1>1, <1>2, <1>3, <1>5, Numbers, OwedIs, PlaceRead DEF Before, Points
<1> QED
  BY <1>1, <1>3, <1>5, <1>6, Zenon DEF After

LEMMA MemberSize ==
  ASSUME Before, Member
  PROVE  After
<1> DEFINE w == Instruction("CONST_", Here, 0)
<1>1. point = "member" /\ ip' = 1 /\ stack' = <<>>
  BY MachineWaits DEF Member
<1>2. active' = active /\ point' = "element" /\ code' = Append(code, w)
  BY DEF Member, Continue, Emit
<1>3. /\ InputOK' /\ Len(read) \in Nat /\ Len(read') = Len(read) + 1 /\ Len(read') <= MaxTokens
  <2>1. Eat("name") /\ (quoted \/ cur # Semicolon)
    BY Spelt DEF Member
  <2> QED
    BY <2>1, TokensIn, InputTaken, Zenon DEF Before
<1>4. Plain(w)
  <2>1. "CONST_" \in OpNames \ {"CHK", "POP"}
    BY DEF OpNames
  <2>2. Here \in Int /\ Here >= -1 /\ Here <= MaxTokens
    BY <1>3, Bound DEF Here
  <2> QED
    BY <2>1, <2>2, Instructed, Zenon
<1> HIDE DEF w
<1>5. Parsed' /\ Len(code') = Len(code) + 1 /\ Len(active') = Len(active)
  BY <1>2, <1>3, <1>4, EmitsAndContinues DEF Before, Reads
<1>6. Place'
  BY <1>1, <1>2, <1>3, <1>5, Numbers, OwedIs, PlaceRead DEF Before, Points
<1> QED
  BY <1>1, <1>3, <1>5, <1>6, Zenon DEF After

LEMMA FromStartSize ==
  ASSUME Before, FromStart
  PROVE  After
<1> DEFINE w == Instruction("CONST_INT", 0, 0)
<1>1. point = "bracket" /\ ip' = 1 /\ stack' = <<>>
  BY MachineWaits DEF FromStart
<1>2. active' = active /\ point' = "colon" /\ code' = Append(code, w)
  BY DEF FromStart, Continue, Emit
<1>3. /\ InputOK' /\ Len(read) \in Nat /\ Len(read') = Len(read) + 1 /\ Len(read') <= MaxTokens
  <2>1. cur # Semicolon
    BY SemicolonIs, TokenIs DEF FromStart
  <2> QED
    BY <2>1, InputEat, Zenon DEF FromStart, Before
<1>4. Plain(w)
  <2>1. "CONST_INT" \in OpNames \ {"CHK", "POP"}
    BY DEF OpNames
  <2>2. 0 \in Int /\ 0 >= -1 /\ 0 <= MaxTokens
    BY <1>3, Bound DEF Here
  <2> QED
    BY <2>1, <2>2, Instructed, Zenon
<1> HIDE DEF w
<1>5. Parsed' /\ Len(code') = Len(code) + 1 /\ Len(active') = Len(active)
  BY <1>2, <1>3, <1>4, EmitsAndContinues DEF Before, Reads
<1>6. Place'
  <2>1. Len(read) > 0
    BY <1>1 DEF Before, Place, PlaceOK
  <2> QED
    BY <1>1, <1>2, <1>3, <1>5, <2>1, Numbers, OwedIs, PlaceRead DEF Before, Points
<1> QED
  BY <1>1, <1>3, <1>5, <1>6, Zenon DEF After

LEMMA ToEndSize ==
  ASSUME Before, ToEnd
  PROVE  After
<1> DEFINE w == Instruction("CONST_INT", -1, 0)
<1>1. point = "colon" /\ ip' = 1 /\ stack' = <<>>
  BY MachineWaits DEF ToEnd
<1>2. active' = active /\ point' = "slice" /\ code' = Append(code, w)
  BY DEF ToEnd, Continue, Emit
<1>3. /\ InputOK' /\ Len(read) \in Nat /\ Len(read') = Len(read) + 1 /\ Len(read') <= MaxTokens
  <2>1. cur # Semicolon
    BY SemicolonIs, TokenIs DEF ToEnd
  <2> QED
    BY <2>1, InputEat, Zenon DEF ToEnd, Before
<1>4. Plain(w)
  <2>1. "CONST_INT" \in OpNames \ {"CHK", "POP"}
    BY DEF OpNames
  <2>2. -1 \in Int /\ -1 >= -1 /\ -1 <= MaxTokens
    BY <1>3, Bound DEF Here
  <2> QED
    BY <2>1, <2>2, Instructed, Zenon
<1> HIDE DEF w
<1>5. Parsed' /\ Len(code') = Len(code) + 1 /\ Len(active') = Len(active)
  BY <1>2, <1>3, <1>4, EmitsAndContinues DEF Before, Reads
<1>6. Place'
  <2>1. Len(read) > 0
    BY <1>1 DEF Before, Place, PlaceOK
  <2> QED
    BY <1>1, <1>2, <1>3, <1>5, <2>1, Numbers, OwedIs, PlaceRead DEF Before, Points
<1> QED
  BY <1>1, <1>3, <1>5, <1>6, Zenon DEF After

LEMMA LoadSize ==
  ASSUME Before, Load
  PROVE  After
<1> DEFINE w == Instruction("LOAD", Len(read), 0)
<1>1. point = "identifier" /\ ip' = 1 /\ stack' = <<>>
  BY MachineWaits DEF Load
<1>2. active' = active /\ point' = "infix" /\ code' = Append(code, w)
  BY DEF Load, Continue, Emit
<1>3. InputOK' /\ Len(read') = Len(read) /\ Len(read) \in Nat /\ Len(read) <= MaxTokens
  BY InputStay, Zenon DEF Load, Before, Stay
<1>4. Plain(w)
  <2>1. "LOAD" \in OpNames \ {"CHK", "POP"}
    BY DEF OpNames
  <2>2. Len(read) \in Int /\ Len(read) >= -1 /\ Len(read) <= MaxTokens
    BY <1>3, Bound DEF Here
  <2> QED
    BY <2>1, <2>2, Instructed, Zenon
<1> HIDE DEF w
<1>5. Parsed' /\ Len(code') = Len(code) + 1 /\ Len(active') = Len(active)
  BY <1>2, <1>3, <1>4, EmitsAndContinues DEF Before, Reads
<1>6. Place'
  BY <1>1, <1>2, <1>3, <1>5, Numbers, OwedIs, PlaceStay DEF Before, Points
<1> QED
  BY <1>1, <1>3, <1>5, <1>6, Zenon DEF After

LEMMA GetElementSize ==
  ASSUME Before, GetElement
  PROVE  After
<1> DEFINE w == Instruction("INDEX", 1, 0)
<1>1. point = "element" /\ ip' = 1 /\ stack' = <<>>
  BY MachineWaits DEF GetElement
<1>2. active' = active /\ point' = "infix" /\ code' = Append(code, w)
  BY DEF GetElement, Continue, Emit
<1>3. InputOK' /\ Len(read') = Len(read) /\ Len(read) \in Nat /\ Len(read) <= MaxTokens
  BY InputStay, Zenon DEF GetElement, Before, Stay
<1>4. Plain(w)
  <2>1. "INDEX" \in OpNames \ {"CHK", "POP"}
    BY DEF OpNames
  <2>2. 1 \in Int /\ 1 >= -1 /\ 1 <= MaxTokens
    BY <1>3, Bound DEF Here
  <2> QED
    BY <2>1, <2>2, Instructed, Zenon
<1> HIDE DEF w
<1>5. Parsed' /\ Len(code') = Len(code) + 1 /\ Len(active') = Len(active)
  BY <1>2, <1>3, <1>4, EmitsAndContinues DEF Before, Reads
<1>6. Place'
  BY <1>1, <1>2, <1>3, <1>5, Numbers, OwedIs, PlaceStay DEF Before, Points
<1> QED
  BY <1>1, <1>3, <1>5, <1>6, Zenon DEF After
-----------------------------------------------------------------------------
LEMMA EndedIs ==
  ASSUME Before, NEW for, Ended(for)
  PROVE  point = "infix" /\ ip' = 1 /\ stack' = <<>> /\ ~Binds /\ Inner.for = for
BY MachineWaits DEF Ended

LEMMA IdentifierSize ==
  ASSUME Before, Identifier
  PROVE  After
<1>1. point = "prefix" /\ ip' = 1 /\ stack' = <<>>
  BY MachineWaits DEF Identifier
<1>2. active' = active /\ point' = "identifier" /\ code' = code
  BY DEF Identifier, Continue
<1>3. /\ InputOK' /\ Len(read) \in Nat /\ Len(read') = Len(read) + 1 /\ Len(read') <= MaxTokens
  <2>1. Eat("name") /\ (quoted \/ cur # Semicolon)
    BY Spelt DEF Identifier
  <2> QED
    BY <2>1, TokensIn, InputTaken, Zenon DEF Before
<1>5. Parsed' /\ Len(code') = Len(code) /\ Len(active') = Len(active)
  BY <1>2, <1>3, Continues DEF Before, Reads
<1>6. Place'
  BY <1>1, <1>2, <1>3, <1>5, Numbers, OwedIs, PlaceRead DEF Before, Points
<1> QED
  BY <1>1, <1>3, <1>5, <1>6, Zenon DEF After

LEMMA SubscriptSize ==
  ASSUME Before, Subscript
  PROVE  After
<1>1. point = "infix" /\ ip' = 1 /\ stack' = <<>>
  BY MachineWaits DEF Subscript, Infix
<1>2. active' = active /\ point' = "member" /\ code' = code
  BY DEF Subscript, Continue
<1>3. /\ InputOK' /\ Len(read) \in Nat /\ Len(read') = Len(read) + 1 /\ Len(read') <= MaxTokens
  <2>1. cur # Semicolon
    BY SemicolonIs, TokenIs DEF Subscript
  <2> QED
    BY <2>1, InputEat, Zenon DEF Subscript, Before
<1>5. Parsed' /\ Len(code') = Len(code) /\ Len(active') = Len(active)
  BY <1>2, <1>3, Continues DEF Before, Reads
<1>6. Place'
  BY <1>1, <1>2, <1>3, <1>5, Numbers, OwedIs, PlaceRead DEF Before, Points
<1> QED
  BY <1>1, <1>3, <1>5, <1>6, Zenon DEF After

LEMMA IndexSize ==
  ASSUME Before, Index
  PROVE  After
<1>1. point = "infix" /\ ip' = 1 /\ stack' = <<>>
  BY MachineWaits DEF Index, Infix
<1>2. active' = active /\ point' = "bracket" /\ code' = code
  BY DEF Index, Continue
<1>3. /\ InputOK' /\ Len(read) \in Nat /\ Len(read') = Len(read) + 1 /\ Len(read') <= MaxTokens
  <2>1. cur # Semicolon
    BY SemicolonIs, TokenIs DEF Index
  <2> QED
    BY <2>1, InputEat, Zenon DEF Index, Before
<1>5. Parsed' /\ Len(code') = Len(code) /\ Len(active') = Len(active)
  BY <1>2, <1>3, Continues DEF Before, Reads
<1>6. Place'
  <2>1. Len(read) > 0
    BY <1>1 DEF Before, Place, PlaceOK
  <2> QED
    BY <1>1, <1>2, <1>3, <1>5, <2>1, Numbers, OwedIs, PlaceRead DEF Before, Points
<1> QED
  BY <1>1, <1>3, <1>5, <1>6, Zenon DEF After

LEMMA AssignSize ==
  ASSUME Before, Assign
  PROVE  After
<1> DEFINE f == [Activation("assign", P_Assignment) EXCEPT !.at = Len(read)]
<1>1. point = "identifier" /\ ip' = 1 /\ stack' = <<>>
  BY MachineWaits DEF Assign
<1>2. active' = Append(active, f) /\ point' = "prefix" /\ code' = code
  BY DEF Assign, Begin
<1>3. /\ InputOK' /\ Len(read) \in Nat /\ Len(read') = Len(read) + 1 /\ Len(read') <= MaxTokens
  <2>1. cur # Semicolon
    BY Spelt DEF Assign
  <2> QED
    BY <2>1, InputEat, Zenon DEF Assign, Before
<1>4. NewFrame(f, Inner.prec, code, Len(read'))
  <2>1. Inner.prec = P_Assignment
    <3>1. Inner.prec \in P_Assignment .. P_Call
      BY Numbers DEF Frame
    <3>2. Inner.prec <= P_Assignment
      BY Zenon DEF Assign, CanAssign
    <3> QED
      BY <3>1, <3>2 DEF P_Assignment, P_Call
  <2>2. Fields(f, "assign", P_Assignment, "none", "none", 0, Len(read))
    <3>1. "assign" \in Fors /\ P_Assignment \in P_Assignment .. P_Call
      BY DEF Fors, Brackets, P_Assignment, P_Unary, P_Call
    <3>2. Len(read) \in Nat
      BY <1>3
    <3> QED
      BY <3>1, <3>2, WithAt, ActivationIs
  <2> HIDE DEF f
  <2> QED
    BY <2>1, <1>3, <2>2 DEF NewFrame, Fields, ShortOps, P_Assignment, P_Unary, Here
<1> HIDE DEF f
<1>5. Parsed' /\ Len(code') = Len(code) /\ Len(active') = Len(active) + 1
  BY <1>2, <1>3, <1>4, Begins1 DEF Before, Reads
<1>6. Place'
  BY <1>1, <1>2, <1>3, <1>5, Numbers, OwedIs, PlaceRead DEF Before, Points
<1> QED
  BY <1>1, <1>3, <1>5, <1>6, Zenon DEF After

LEMMA PrefixOperatorSize ==
  ASSUME Before, PrefixOperator
  PROVE  After
<1> DEFINE f == [Activation("unary", P_Unary) EXCEPT !.op = Prefix[cur], !.at = Here]
<1>1. point = "prefix" /\ ip' = 1 /\ stack' = <<>>
  BY MachineWaits DEF PrefixOperator
<1>2. active' = Append(active, f) /\ point' = "prefix" /\ code' = code
  BY DEF PrefixOperator, Begin
<1>3. /\ InputOK' /\ Len(read) \in Nat /\ Len(read') = Len(read) + 1 /\ Len(read') <= MaxTokens
  <2>1. cur # Semicolon
    BY Spelt DEF PrefixOperator
  <2> QED
    BY <2>1, InputEat, Zenon DEF PrefixOperator, Before
<1>4. NewFrame(f, Inner.prec, code, Len(read'))
  <2>1. Prefix[cur] \in {"NOT", "NEG"}
    BY PrefixIs, Spelt DEF PrefixOperator
  <2>2. Fields(f, "unary", P_Unary, Prefix[cur], "none", 0, Here)
    <3>1. "unary" \in Fors /\ P_Unary \in P_Assignment .. P_Call
      BY DEF Fors, Brackets, P_Assignment, P_Unary, P_Call
    <3>2. Prefix[cur] \in OpNames /\ Here \in Nat
      BY <1>3, <2>1 DEF OpNames, Here
    <3> QED
      BY <3>1, <3>2, WithOpAt, ActivationIs
  <2> HIDE DEF f
  <2> QED
    BY <2>1, <1>3, <2>2 DEF NewFrame, Fields, ShortOps, P_Assignment, P_Unary, Here
<1> HIDE DEF f
<1>5. Parsed' /\ Len(code') = Len(code) /\ Len(active') = Len(active) + 1
  BY <1>2, <1>3, <1>4, Begins1 DEF Before, Reads
<1>6. Place'
  BY <1>1, <1>2, <1>3, <1>5, Numbers, OwedIs, PlaceRead DEF Before, Points
<1> QED
  BY <1>1, <1>3, <1>5, <1>6, Zenon DEF After

LEMMA GroupSize ==
  ASSUME Before, Group
  PROVE  After
<1> DEFINE f == Activation("group", P_Assignment)
<1>1. point = "prefix" /\ ip' = 1 /\ stack' = <<>>
  BY MachineWaits DEF Group
<1>2. active' = Append(active, f) /\ point' = "prefix" /\ code' = code
  BY DEF Group, Begin
<1>3. /\ InputOK' /\ Len(read) \in Nat /\ Len(read') = Len(read) + 1 /\ Len(read') <= MaxTokens
  <2>1. cur # Semicolon
    BY SemicolonIs, TokenIs DEF Group
  <2> QED
    BY <2>1, InputEat, Zenon DEF Group, Before
<1>4. NewFrame(f, Inner.prec, code, Len(read'))
  <2>2. Fields(f, "group", P_Assignment, "none", "none", 0, 0)
    <3>1. "group" \in Fors /\ P_Assignment \in P_Assignment .. P_Call
      BY DEF Fors, Brackets, P_Assignment, P_Unary, P_Call
    <3> QED
      BY <3>1, ActivationIs
  <2> HIDE DEF f
  <2> QED
    BY <1>3, <2>2 DEF NewFrame, Fields, ShortOps, P_Assignment, P_Unary, Here
<1> HIDE DEF f
<1>5. Parsed' /\ Len(code') = Len(code) /\ Len(active') = Len(active) + 1
  BY <1>2, <1>3, <1>4, Begins1 DEF Before, Reads
<1>6. Place'
  BY <1>1, <1>2, <1>3, <1>5, Numbers, OwedIs, PlaceRead DEF Before, Points
<1> QED
  BY <1>1, <1>3, <1>5, <1>6, Zenon DEF After

LEMMA StartSize ==
  ASSUME Before, Start
  PROVE  After
<1> DEFINE f == Activation("start", P_Assignment)
<1>1. point = "bracket" /\ ip' = 1 /\ stack' = <<>>
  BY MachineWaits DEF Start
<1>2. active' = Append(active, f) /\ point' = "prefix" /\ code' = code
  BY DEF Start, Begin
<1>3. InputOK' /\ Len(read') = Len(read) /\ Len(read) \in Nat /\ Len(read) <= MaxTokens
  BY InputStay, Zenon DEF Start, Before, Stay
<1>4. NewFrame(f, Inner.prec, code, Len(read'))
  <2>1. Len(read) >= 2
    BY <1>1 DEF Before, Place, PlaceOK
  <2>2. Fields(f, "start", P_Assignment, "none", "none", 0, 0)
    <3>1. "start" \in Fors /\ P_Assignment \in P_Assignment .. P_Call
      BY DEF Fors, Brackets, P_Assignment, P_Unary, P_Call
    <3> QED
      BY <3>1, ActivationIs
  <2> HIDE DEF f
  <2> QED
    BY <2>1, <1>3, <2>2 DEF NewFrame, Fields, ShortOps, P_Assignment, P_Unary, Here
<1> HIDE DEF f
<1>5. Parsed' /\ Len(code') = Len(code) /\ Len(active') = Len(active) + 1
  BY <1>2, <1>3, <1>4, Begins1 DEF Before, Reads
<1>6. Place'
  BY <1>1, <1>2, <1>3, <1>5, Numbers, OwedIs, PlaceStay DEF Before, Points
<1> QED
  BY <1>1, <1>3, <1>5, <1>6, Zenon DEF After

LEMMA StopSize ==
  ASSUME Before, Stop
  PROVE  After
<1> DEFINE f == Activation("stop", P_Assignment)
<1>1. point = "colon" /\ ip' = 1 /\ stack' = <<>>
  BY MachineWaits DEF Stop
<1>2. active' = Append(active, f) /\ point' = "prefix" /\ code' = code
  BY DEF Stop, Begin
<1>3. InputOK' /\ Len(read') = Len(read) /\ Len(read) \in Nat /\ Len(read) <= MaxTokens
  BY InputStay, Zenon DEF Stop, Before, Stay
<1>4. NewFrame(f, Inner.prec, code, Len(read'))
  <2>1. Len(read) >= 2
    BY <1>1 DEF Before, Place, PlaceOK
  <2>2. Fields(f, "stop", P_Assignment, "none", "none", 0, 0)
    <3>1. "stop" \in Fors /\ P_Assignment \in P_Assignment .. P_Call
      BY DEF Fors, Brackets, P_Assignment, P_Unary, P_Call
    <3> QED
      BY <3>1, ActivationIs
  <2> HIDE DEF f
  <2> QED
    BY <2>1, <1>3, <2>2 DEF NewFrame, Fields, ShortOps, P_Assignment, P_Unary, Here
<1> HIDE DEF f
<1>5. Parsed' /\ Len(code') = Len(code) /\ Len(active') = Len(active) + 1
  BY <1>2, <1>3, <1>4, Begins1 DEF Before, Reads
<1>6. Place'
  BY <1>1, <1>2, <1>3, <1>5, Numbers, OwedIs, PlaceStay DEF Before, Points
<1> QED
  BY <1>1, <1>3, <1>5, <1>6, Zenon DEF After

LEMMA SetElementSize ==
  ASSUME Before, SetElement
  PROVE  After
<1> DEFINE f == Activation("set", P_Assignment)
<1>1. point = "element" /\ ip' = 1 /\ stack' = <<>>
  BY MachineWaits DEF SetElement
<1>2. active' = Append(active, f) /\ point' = "prefix" /\ code' = code
  BY DEF SetElement, Begin
<1>3. /\ InputOK' /\ Len(read) \in Nat /\ Len(read') = Len(read) + 1 /\ Len(read') <= MaxTokens
  <2>1. cur # Semicolon
    BY SemicolonIs, TokenIs DEF SetElement
  <2> QED
    BY <2>1, InputEat, Zenon DEF SetElement, Before
<1>4. NewFrame(f, Inner.prec, code, Len(read'))
  <2>1. Inner.prec = P_Assignment
    <3>1. Inner.prec \in P_Assignment .. P_Call
      BY Numbers DEF Frame
    <3>2. Inner.prec <= P_Assignment
      BY Zenon DEF SetElement, CanAssign
    <3> QED
      BY <3>1, <3>2 DEF P_Assignment, P_Call
  <2>2. Fields(f, "set", P_Assignment, "none", "none", 0, 0)
    <3>1. "set" \in Fors /\ P_Assignment \in P_Assignment .. P_Call
      BY DEF Fors, Brackets, P_Assignment, P_Unary, P_Call
    <3> QED
      BY <3>1, ActivationIs
  <2> HIDE DEF f
  <2> QED
    BY <2>1, <1>3, <2>2 DEF NewFrame, Fields, ShortOps, P_Assignment, P_Unary, Here
<1> HIDE DEF f
<1>5. Parsed' /\ Len(code') = Len(code) /\ Len(active') = Len(active) + 1
  BY <1>2, <1>3, <1>4, Begins1 DEF Before, Reads
<1>6. Place'
  BY <1>1, <1>2, <1>3, <1>5, Numbers, OwedIs, PlaceRead DEF Before, Points
<1> QED
  BY <1>1, <1>3, <1>5, <1>6, Zenon DEF After

LEMMA EndUnarySize ==
  ASSUME Before, EndUnary
  PROVE  After
<1> DEFINE w == Instruction(Inner.op, Inner.at, 0)
<1>1. point = "infix" /\ ip' = 1 /\ stack' = <<>> /\ Inner.for = "unary"
  BY EndedIs DEF EndUnary
<1>f. /\ Inner.for # "statement" /\ Inner.op \notin ShortOps /\ Inner.at \in Nat /\ Inner.n \in Nat
      /\ Inner.at <= Len(read) /\ Inner.op \in OpNames
      /\ Inner.op \in {"NOT", "NEG"}
  BY <1>1, Numbers DEF FrameOK, Frame, ShortOps
<1>2. active' = Front(active) /\ point' = "infix" /\ code' = Append(code, w)
  BY DEF EndUnary, Finish, Emit
<1>3. InputOK' /\ Len(read') = Len(read) /\ Len(read) \in Nat /\ Len(read) <= MaxTokens
  BY InputStay, Zenon DEF EndUnary, Before, Stay
<1>4. Plain(w)
  <2>1. Inner.op \in OpNames \ {"CHK", "POP"}
    BY <1>f DEF OpNames
  <2>2. Inner.at \in Int /\ Inner.at >= -1 /\ Inner.at <= MaxTokens
    BY <1>3, <1>f, Bound DEF Here
  <2> QED
    BY <2>1, <2>2, Instructed, Zenon
<1> HIDE DEF w
<1>5. Parsed' /\ Len(code') = Len(code) + 1 /\ Len(active') = Len(active) - 1
  BY <1>2, <1>3, <1>4, <1>f, EmitsAndFinishes DEF Before, Reads
<1>6. Place'
  BY <1>1, <1>2, <1>3, <1>5, Numbers, OwedIs, PlaceStay DEF Before, Points
<1> QED
  BY <1>1, <1>3, <1>5, <1>6, Zenon DEF After

LEMMA EndAssignSize ==
  ASSUME Before, EndAssign
  PROVE  After
<1> DEFINE w == Instruction("STORE", Inner.at, 0)
<1>1. point = "infix" /\ ip' = 1 /\ stack' = <<>> /\ Inner.for = "assign"
  BY EndedIs DEF EndAssign
<1>f. /\ Inner.for # "statement" /\ Inner.op \notin ShortOps /\ Inner.at \in Nat /\ Inner.n \in Nat
      /\ Inner.at <= Len(read) /\ Inner.op \in OpNames
      /\ Inner.op \notin ShortOps
  BY <1>1, Numbers DEF FrameOK, Frame, ShortOps
<1>2. active' = Front(active) /\ point' = "infix" /\ code' = Append(code, w)
  BY DEF EndAssign, Finish, Emit
<1>3. InputOK' /\ Len(read') = Len(read) /\ Len(read) \in Nat /\ Len(read) <= MaxTokens
  BY InputStay, Zenon DEF EndAssign, Before, Stay
<1>4. Plain(w)
  <2>1. "STORE" \in OpNames \ {"CHK", "POP"}
    BY DEF OpNames
  <2>2. Inner.at \in Int /\ Inner.at >= -1 /\ Inner.at <= MaxTokens
    BY <1>3, <1>f, Bound DEF Here
  <2> QED
    BY <2>1, <2>2, Instructed, Zenon
<1> HIDE DEF w
<1>5. Parsed' /\ Len(code') = Len(code) + 1 /\ Len(active') = Len(active) - 1
  BY <1>2, <1>3, <1>4, <1>f, EmitsAndFinishes DEF Before, Reads
<1>6. Place'
  BY <1>1, <1>2, <1>3, <1>5, Numbers, OwedIs, PlaceStay DEF Before, Points
<1> QED
  BY <1>1, <1>3, <1>5, <1>6, Zenon DEF After

LEMMA EndSetSize ==
  ASSUME Before, EndSet
  PROVE  After
<1> DEFINE w == Instruction("SET", 0, 0)
<1>1. point = "infix" /\ ip' = 1 /\ stack' = <<>> /\ Inner.for = "set"
  BY EndedIs DEF EndSet
<1>f. /\ Inner.for # "statement" /\ Inner.op \notin ShortOps /\ Inner.at \in Nat /\ Inner.n \in Nat
      /\ Inner.at <= Len(read) /\ Inner.op \in OpNames
      /\ Inner.op \notin ShortOps
  BY <1>1, Numbers DEF FrameOK, Frame, ShortOps
<1>2. active' = Front(active) /\ point' = "infix" /\ code' = Append(code, w)
  BY DEF EndSet, Finish, Emit
<1>3. InputOK' /\ Len(read') = Len(read) /\ Len(read) \in Nat /\ Len(read) <= MaxTokens
  BY InputStay, Zenon DEF EndSet, Before, Stay
<1>4. Plain(w)
  <2>1. "SET" \in OpNames \ {"CHK", "POP"}
    BY DEF OpNames
  <2>2. 0 \in Int /\ 0 >= -1 /\ 0 <= MaxTokens
    BY <1>3, <1>f, Bound DEF Here
  <2> QED
    BY <2>1, <2>2, Instructed, Zenon
<1> HIDE DEF w
<1>5. Parsed' /\ Len(code') = Len(code) + 1 /\ Len(active') = Len(active) - 1
  BY <1>2, <1>3, <1>4, <1>f, EmitsAndFinishes DEF Before, Reads
<1>6. Place'
  BY <1>1, <1>2, <1>3, <1>5, Numbers, OwedIs, PlaceStay DEF Before, Points
<1> QED
  BY <1>1, <1>3, <1>5, <1>6, Zenon DEF After

LEMMA EndItemsSize ==
  ASSUME Before, EndItems
  PROVE  After
<1> DEFINE w == Instruction(Inner.op, Inner.n, 0)
<1>1. point = "infix" /\ ip' = 1 /\ stack' = <<>> /\ Inner.for = "items"
  BY EndedIs DEF EndItems
<1>f. /\ Inner.for # "statement" /\ Inner.op \notin ShortOps /\ Inner.at \in Nat /\ Inner.n \in Nat
      /\ Inner.at <= Len(read) /\ Inner.op \in OpNames
      /\ Inner.op \in {"PACK", "CALL"} /\ Inner.n <= Len(read)
  BY <1>1, Numbers DEF FrameOK, Frame, ShortOps
<1>2. active' = Front(active) /\ point' = "infix" /\ code' = Append(code, w)
  BY DEF EndItems, Finish, Emit
<1>3. /\ InputOK' /\ Len(read) \in Nat /\ Len(read') = Len(read) + 1 /\ Len(read') <= MaxTokens
  <2>1. cur # Semicolon
    <3>1. Inner.close \in {"none", ")", "]"}
      BY Numbers DEF Frame
    <3>2. Semicolon \notin {"none", ")", "]", "literal"}
      BY DEF Semicolon
    <3>3. Token = Inner.close
      BY DEF EndItems
    <3> QED
      BY <3>1, <3>2, <3>3, TokenIs
  <2> QED
    BY <2>1, InputEat, Zenon DEF EndItems, Before
<1>4. Plain(w)
  <2>1. Inner.op \in OpNames \ {"CHK", "POP"}
    BY <1>f DEF OpNames
  <2>2. Inner.n \in Int /\ Inner.n >= -1 /\ Inner.n <= MaxTokens
    BY <1>3, <1>f, Bound DEF Here
  <2> QED
    BY <2>1, <2>2, Instructed, Zenon
<1> HIDE DEF w
<1>5. Parsed' /\ Len(code') = Len(code) + 1 /\ Len(active') = Len(active) - 1
  BY <1>2, <1>3, <1>4, <1>f, EmitsAndFinishes DEF Before, Reads
<1>6. Place'
  BY <1>1, <1>2, <1>3, <1>5, Numbers, OwedIs, PlaceRead DEF Before, Points
<1> QED
  BY <1>1, <1>3, <1>5, <1>6, Zenon DEF After

LEMMA NoMoreItemsSize ==
  ASSUME Before, NoMoreItems
  PROVE  After
<1> DEFINE w == Instruction(Inner.op, Inner.n, 0)
<1>1. point = "items" /\ ip' = 1 /\ stack' = <<>> /\ Inner.for = "items"
  BY MachineWaits DEF NoMoreItems, Before, Place, PlaceOK, Inner
<1>f. /\ Inner.for # "statement" /\ Inner.op \notin ShortOps /\ Inner.at \in Nat /\ Inner.n \in Nat
      /\ Inner.at <= Len(read) /\ Inner.op \in OpNames
      /\ Inner.op \in {"PACK", "CALL"} /\ Inner.n <= Len(read)
  BY <1>1, Numbers DEF FrameOK, Frame, ShortOps
<1>2. active' = Front(active) /\ point' = "infix" /\ code' = Append(code, w)
  BY DEF NoMoreItems, Finish, Emit
<1>3. /\ InputOK' /\ Len(read) \in Nat /\ Len(read') = Len(read) + 1 /\ Len(read') <= MaxTokens
  <2>1. cur # Semicolon
    <3>1. Inner.close \in {"none", ")", "]"}
      BY Numbers DEF Frame
    <3>2. Semicolon \notin {"none", ")", "]", "literal"}
      BY DEF Semicolon
    <3>3. Token = Inner.close
      BY DEF NoMoreItems
    <3> QED
      BY <3>1, <3>2, <3>3, TokenIs
  <2> QED
    BY <2>1, InputEat, Zenon DEF NoMoreItems, Before
<1>4. Plain(w)
  <2>1. Inner.op \in OpNames \ {"CHK", "POP"}
    BY <1>f DEF OpNames
  <2>2. Inner.n \in Int /\ Inner.n >= -1 /\ Inner.n <= MaxTokens
    BY <1>3, <1>f, Bound DEF Here
  <2> QED
    BY <2>1, <2>2, Instructed, Zenon
<1> HIDE DEF w
<1>5. Parsed' /\ Len(code') = Len(code) + 1 /\ Len(active') = Len(active) - 1
  BY <1>2, <1>3, <1>4, <1>f, EmitsAndFinishes DEF Before, Reads
<1>6. Place'
  BY <1>1, <1>2, <1>3, <1>5, Numbers, OwedIs, PlaceRead DEF Before, Points
<1> QED
  BY <1>1, <1>3, <1>5, <1>6, Zenon DEF After

LEMMA EndGroupSize ==
  ASSUME Before, EndGroup
  PROVE  After
<1>1. point = "infix" /\ ip' = 1 /\ stack' = <<>> /\ Inner.for = "group"
  BY EndedIs DEF EndGroup
<1>f. Inner.for # "statement" /\ Inner.op \notin ShortOps
  BY <1>1, Numbers DEF FrameOK
<1>2. active' = Front(active) /\ point' = ("infix") /\ code' = code
  BY DEF EndGroup, Finish
<1>3. /\ InputOK' /\ Len(read) \in Nat /\ Len(read') = Len(read) + 1 /\ Len(read') <= MaxTokens
  <2>1. cur # Semicolon
    BY SemicolonIs, TokenIs DEF EndGroup
  <2> QED
    BY <2>1, InputEat, Zenon DEF EndGroup, Before
<1>5. Parsed' /\ Len(code') = Len(code) /\ Len(active') = Len(active) - 1
  BY <1>2, <1>3, <1>f, Finishes DEF Before, Reads
<1>6. Place'
  BY <1>1, <1>2, <1>3, <1>5, Numbers, OwedIs, PlaceRead DEF Before, Points
<1> QED
  BY <1>1, <1>3, <1>5, <1>6, Zenon DEF After

LEMMA EndStopSize ==
  ASSUME Before, EndStop
  PROVE  After
<1>1. point = "infix" /\ ip' = 1 /\ stack' = <<>> /\ Inner.for = "stop"
  BY EndedIs DEF EndStop
<1>f. Inner.for # "statement" /\ Inner.op \notin ShortOps
  BY <1>1, Numbers DEF FrameOK
<1>2. active' = Front(active) /\ point' = ("slice") /\ code' = code
  BY DEF EndStop, Finish
<1>3. /\ InputOK' /\ Len(read) \in Nat /\ Len(read') = Len(read) + 1 /\ Len(read') <= MaxTokens
  <2>1. cur # Semicolon
    BY SemicolonIs, TokenIs DEF EndStop
  <2> QED
    BY <2>1, InputEat, Zenon DEF EndStop, Before
<1>5. Parsed' /\ Len(code') = Len(code) /\ Len(active') = Len(active) - 1
  BY <1>2, <1>3, <1>f, Finishes DEF Before, Reads
<1>6. Place'
  <2>1. Len(read) > 0
    BY <1>1 DEF Before, Place, PlaceOK
  <2> QED
    BY <1>1, <1>2, <1>3, <1>5, <2>1, Numbers, OwedIs, PlaceRead DEF Before, Points
<1> QED
  BY <1>1, <1>3, <1>5, <1>6, Zenon DEF After

LEMMA EndStartSize ==
  ASSUME Before, EndStart
  PROVE  After
<1>1. point = "infix" /\ ip' = 1 /\ stack' = <<>> /\ Inner.for = "start"
  BY EndedIs DEF EndStart
<1>f. Inner.for # "statement" /\ Inner.op \notin ShortOps
  BY <1>1, Numbers DEF FrameOK
<1>2. active' = Front(active) /\ point' = (IF cur = ":" THEN "colon" ELSE "element") /\ code' = code
  BY DEF EndStart, Finish
<1>3. /\ InputOK' /\ Len(read) \in Nat /\ Len(read') = Len(read) + 1 /\ Len(read') <= MaxTokens
  <2>1. cur # Semicolon
    BY SemicolonIs, TokenIs DEF EndStart
  <2> QED
    BY <2>1, InputEat, Zenon DEF EndStart, Before
<1>5. Parsed' /\ Len(code') = Len(code) /\ Len(active') = Len(active) - 1
  BY <1>2, <1>3, <1>f, Finishes DEF Before, Reads
<1>6. Place'
  <2>1. Len(read) > 0
    BY <1>1 DEF Before, Place, PlaceOK
  <2> QED
    BY <1>1, <1>2, <1>3, <1>5, <2>1, Numbers, OwedIs, PlaceRead DEF Before, Points
<1> QED
  BY <1>1, <1>3, <1>5, <1>6, Zenon DEF After
-----------------------------------------------------------------------------
LEMMA EndItemSize ==
  ASSUME Before, EndItem
  PROVE  After
<1>1. point = "infix" /\ ip' = 1 /\ stack' = <<>> /\ Inner.for = "items"
  BY EndedIs DEF EndItem
<1>2. active' = active /\ point' = "items" /\ code' = code
  BY DEF EndItem, Continue
<1>3. /\ InputOK' /\ Len(read) \in Nat /\ Len(read') = Len(read) + 1 /\ Len(read') <= MaxTokens
  <2>1. cur # Semicolon
    BY SemicolonIs, TokenIs DEF EndItem
  <2> QED
    BY <2>1, InputEat, Zenon DEF EndItem, Before
<1>5. Parsed' /\ Len(code') = Len(code) /\ Len(active') = Len(active)
  BY <1>2, <1>3, Continues DEF Before, Reads
<1>6. Place'
  <2>1. PlaceOK(active, "infix", code, Len(read')) /\ Len(read') > 0
    <3>1. Len(code) + Len(active) - 1 + Owed("infix") <= 2 * Len(read)
      BY <1>1, PlaceIs DEF Before
    <3>2. /\ Len(code) \in Nat /\ Len(active) \in Nat /\ Owed("infix") = 0
      BY Numbers, OwedIs
    <3>3. Len(code) + Len(active) - 1 + Owed("infix") <= 2 * Len(read') - 1 /\ Len(read') > 0
      BY <1>3, <3>1, <3>2
    <3> QED
      BY <1>3, <3>3 DEF PlaceOK, Points
  <2>2. Last(active).n < Len(read')
    BY <1>1, <1>3, Numbers DEF FrameOK, Frame, Inner
  <2> QED
    BY <1>1, <1>2, <2>1, <2>2, OwedIs DEF Place, PlaceOK, Points, Inner
<1> QED
  BY <1>1, <1>3, <1>5, <1>6, Zenon DEF After

LEMMA ItemsSize ==
  ASSUME Before, NEW op \in {"PACK", "CALL"}, NEW close \in Closing, NEW p, At(p), cur # Semicolon,
         Items(op, close)
  PROVE  After
<1> DEFINE f == [Activation("items", P_Assignment) EXCEPT !.op = op, !.close = close, !.at = Here]
<1>1. point = p /\ ip' = 1 /\ stack' = <<>>
  BY MachineWaits
<1>2. active' = Append(active, f) /\ point' = "items" /\ code' = code
  BY DEF Items, Begin
<1>3. /\ InputOK' /\ Len(read) \in Nat /\ Len(read') = Len(read) + 1 /\ Len(read') <= MaxTokens
  BY InputEat, Zenon DEF Items, Before
<1>4. Fields(f, "items", P_Assignment, op, close, 0, Here)
  <2>1. "items" \in Fors /\ P_Assignment \in P_Assignment .. P_Call
    BY DEF Fors, Brackets, P_Assignment, P_Call
  <2>2. op \in OpNames /\ Here \in Nat
    BY <1>3 DEF OpNames, Here
  <2>3. Fields(Activation("items", P_Assignment), "items", P_Assignment, "none", "none", 0, 0)
    BY <2>1, ActivationIs
  <2> HIDE DEF f
  <2>4. Fields([Activation("items", P_Assignment) EXCEPT !.op = op, !.close = close, !.at = Here],
               "items", P_Assignment, op, close, 0, Here)
    BY <2>2, <2>3, WithOpCloseAt
  <2> QED
    BY <2>4 DEF f
<1> HIDE DEF f
<1>n. NewFrame(f, Inner.prec, code, Len(read'))
  BY <1>3, <1>4 DEF NewFrame, Fields, ShortOps, P_Assignment, Here
<1>5. Parsed' /\ Len(code') = Len(code) /\ Len(active') = Len(active) + 1 /\ Last(active') = f
  BY <1>2, <1>3, <1>n, Begins1 DEF Before, Reads
<1>6. Place'
  <2>1. /\ Len(code) \in Nat /\ Len(active) \in Nat /\ Len(read) \in Nat
        /\ Len(code) + Len(active) - 1 + Owed(point) <= 2 * Len(read) /\ Owed(point) \in Nat
    BY PlaceIs DEF Before, Owed
  <2>2. Len(code') + Len(active') - 1 + 0 <= 2 * Len(read') - 1 /\ Len(read') > 0
    BY <1>3, <1>5, <2>1
  <2>3. Last(active').for = "items" /\ Last(active').n < Len(read')
    BY <1>4, <1>5, <2>2 DEF Fields
  <2> QED
    BY <1>2, <1>3, <2>2, <2>3, OwedIs DEF Place, PlaceOK, Points
<1> QED
  BY <1>1, <1>3, <1>5, <1>6, Zenon DEF After

LEMMA NextItemSize ==
  ASSUME Before, NextItem
  PROVE  After
<1> DEFINE f == [Inner EXCEPT !.n = @ + 1]
<1>1. point = "items" /\ ip' = 1 /\ stack' = <<>> /\ Inner.for = "items" /\ Inner.n < Len(read)
  BY MachineWaits DEF NextItem, Before, Place, PlaceOK, Inner
<1>2. active' = Append(Front(active), f) /\ point' = "prefix" /\ code' = code
  BY DEF NextItem
<1>3. InputOK' /\ Len(read') = Len(read) /\ Len(read) \in Nat /\ Len(read) <= MaxTokens /\ read' = read
  BY InputStay, Zenon DEF NextItem, Before, Stay
<1>4. Fields(f, Inner.for, Inner.prec, Inner.op, Inner.close, Inner.n + 1, Inner.at)
  <2>1. Inner \in Frame /\ Inner.n + 1 \in Nat
    BY Numbers DEF Frame
  <2>2. Fields([Inner EXCEPT !.n = Inner.n + 1], Inner.for, Inner.prec, Inner.op, Inner.close, Inner.n + 1, Inner.at)
    BY <2>1, WithN
  <2> QED
    BY <2>2
<1> HIDE DEF f
<1>5. Inner.for # "statement" /\ Inner.op \notin ShortOps /\ Inner.prec = P_Assignment /\ Inner.at <= Len(read)
      /\ Inner.op \in {"PACK", "CALL"} /\ Inner.n \in Nat
  BY <1>1, Numbers DEF FrameOK, Frame, ShortOps
<1>6. /\ FramesOK(Front(active), code, Len(read)) /\ Len(Front(active)) = Len(active) - 1
  BY <1>3, <1>5, FramesPop DEF Before, Parsed, Inner
<1>7. NewFrame(f, Last(Front(active)).prec, code, Len(read))
  BY <1>1, <1>3, <1>4, <1>5 DEF NewFrame, Fields
<1>8. FramesOK(active', code, Len(read)) /\ Len(active') = Len(active)
  <2>1. Front(active) \in Seq(Frame) /\ f \in Frame
    BY <1>6, <1>4 DEF FramesOK, Fields
  <2>2. Len(Append(Front(active), f)) = Len(active)
    BY <2>1, <1>6, Numbers
  <2> QED
    BY <1>2, <1>3, <1>6, <1>7, <2>2, FramesPush
<1>9. EmittedOK(active', code)
  <2>1. Front(active) \in Seq(Frame) /\ f \in Frame
    BY <1>6, <1>4 DEF FramesOK, Fields
  <2>2. \A i : Pending(active, i) => Pending(Front(active), i)
    BY <1>5, Numbers, PendingPop DEF Inner
  <2>3. \A i : Pending(Front(active), i) => Pending(active', i)
    BY <1>2, <2>1, PendingPush
  <2> QED
    BY <2>2, <2>3, EmittedKept DEF Before, Parsed
<1>10. Parsed'
  BY <1>2, <1>3, <1>8, <1>9 DEF Parsed
<1>11. Place'
  BY <1>1, <1>2, <1>3, <1>8, Numbers, OwedIs, PlaceStay DEF Before, Points
<1> QED
  BY <1>1, <1>3, <1>10, <1>11, Zenon DEF After

LEMMA GetSliceSize ==
  ASSUME Before, GetSlice
  PROVE  After
<1> DEFINE w == Instruction("INDEX", 2, 0)
<1>1. point = "slice" /\ ip' = 1 /\ stack' = <<>> /\ Len(read) >= 2
  BY MachineWaits DEF GetSlice, Before, Place, PlaceOK
<1>2. active' = active /\ point' = "infix" /\ code' = Append(code, w)
  BY DEF GetSlice, Continue, Emit
<1>3. /\ InputOK' /\ Len(read) \in Nat /\ Len(read) <= MaxTokens
      /\ Len(read') = Len(read) \/ Len(read') = Len(read) + 1
  <2>1. CASE CanAssign /\ Token = "="
    <3>1. cur # Semicolon
      BY <2>1, SemicolonIs, TokenIs
    <3>2. Eat(cur)
      BY <2>1, Zenon DEF GetSlice
    <3>3. Len(read) <= MaxTokens
      BY Zenon DEF Before, InputOK
    <3> QED
      BY <3>1, <3>2, <3>3, InputEat, Zenon DEF Before
  <2>2. CASE ~(CanAssign /\ Token = "=")
    <3>1. Stay
      BY <2>2, Zenon DEF GetSlice
    <3> QED
      BY <3>1, InputStay, Zenon DEF Stay, Before
  <2> QED
    BY <2>1, <2>2
<1>4. Plain(w)
  <2>1. "INDEX" \in OpNames \ {"CHK", "POP"}
    BY DEF OpNames
  <2>2. 2 \in Int /\ 2 >= -1 /\ 2 <= MaxTokens
    BY <1>1, <1>3, Bound
  <2> QED
    BY <2>1, <2>2, Instructed, Zenon
<1> HIDE DEF w
<1>5. Parsed' /\ Len(code') = Len(code) + 1 /\ Len(active') = Len(active)
  BY <1>2, <1>3, <1>4, EmitsAndContinues DEF Before, Reads
<1>6. Place'
  <2>1. CASE Len(read') = Len(read)
    BY <2>1, <1>1, <1>2, <1>3, <1>5, Numbers, OwedIs, PlaceStay DEF Before, Points
  <2>2. CASE Len(read') = Len(read) + 1
    BY <2>2, <1>1, <1>2, <1>3, <1>5, Numbers, OwedIs, PlaceRead DEF Before, Points
  <2> QED
    BY <1>3, <2>1, <2>2
<1> QED
  BY <1>1, <1>3, <1>5, <1>6, Zenon DEF After
-----------------------------------------------------------------------------
\* A CHK that an activation begins with: its jump is pending.
LEMMA EmitCheck ==
  ASSUME NEW act \in Seq(Frame), NEW c, EmittedOK(act, c), NEW f \in Frame, f.op \in ShortOps,
         f.n = Len(c) + 1, NEW w \in Word32, w.op = "CHK", w.a \in {0, 1}, w.b = 0
  PROVE  EmittedOK(Append(act, f), Append(c, w))
<1>1. c \in Seq(Word32)
  BY DEF EmittedOK
<1> DEFINE d == Append(c, w)
           new == Append(act, f)
<1>2. /\ d \in Seq(Word32) /\ Len(d) = Len(c) + 1 /\ DOMAIN d = 1 .. Len(c) + 1
      /\ \A i \in 1 .. Len(c) : d[i] = c[i]
      /\ d[Len(c) + 1] = w /\ Len(c) \in Nat /\ DOMAIN c = 1 .. Len(c)
  BY <1>1, AppendIs
<1>3. \A i : Pending(act, i) => Pending(new, i)
  BY PendingPush
<1>4. Pending(new, Len(c) + 1)
  <2>1. Len(act) + 1 \in DOMAIN new /\ new[Len(act) + 1] = f
    BY AppendIs
  <2> HIDE DEF new
  <2> QED
    BY <2>1 DEF Pending
<1> HIDE DEF d, new
<1>5. ASSUME NEW i \in 1 .. Len(c) PROVE InstructionOK(new, d, i)
  <2>1. InstructionOK(act, c, i) /\ d[i] = c[i]
    BY <1>2 DEF EmittedOK
  <2> QED
    BY <2>1, <1>2, <1>3 DEF InstructionOK
<1>6. InstructionOK(new, d, Len(c) + 1)
  <2>1. w.a \in -1 .. MaxTokens
    BY Bound
  <2> QED
    BY <2>1, <1>2, <1>4 DEF InstructionOK
<1>7. EmittedOK(new, d)
  BY <1>2, <1>5, <1>6 DEF EmittedOK
<1> QED
  BY <1>7 DEF d, new

LEMMA BinaryOperatorSize ==
  ASSUME Before, BinaryOperator
  PROVE  After
<1> DEFINE f == [Activation("binary", RightOperand(cur)) EXCEPT
                   !.op = Opcode[cur], !.n = Len(code) + 1, !.at = Here]
           w == Instruction("CHK", ShortCircuit[cur], 0)
<1>1. point = "infix" /\ ip' = 1 /\ stack' = <<>> /\ cur \in BinaryTokens
  BY MachineWaits DEF BinaryOperator, Infix
<1>2. active' = Append(active, f) /\ point' = "prefix"
  BY DEF BinaryOperator, Begin
<1>3. /\ InputOK' /\ Len(read) \in Nat /\ Len(read') = Len(read) + 1 /\ Len(read') <= MaxTokens
  <2>1. cur # Semicolon
    BY <1>1, SemicolonIs, Zenon
  <2> QED
    BY <2>1, InputEat, Zenon DEF BinaryOperator, Before
<1>4. Fields(f, "binary", RightOperand(cur), Opcode[cur], "none", Len(code) + 1, Here)
  <2>1. "binary" \in Fors /\ RightOperand(cur) \in P_Assignment .. P_Call
    <3>1. Precedence(cur) \in 2 .. 10
      BY <1>1, PrecedenceIs
    <3> QED
      BY <3>1 DEF Fors, RightOperand, P_Assignment, P_Call
  <2>2. Opcode[cur] \in OpNames /\ Len(code) + 1 \in Nat /\ Here \in Nat
    BY <1>1, <1>3, OpcodeIs, Numbers DEF Here, OpNames
  <2>3. Fields(Activation("binary", RightOperand(cur)), "binary", RightOperand(cur), "none", "none", 0, 0)
    BY <2>1, ActivationIs
  <2> HIDE DEF f
  <2>4. Fields([Activation("binary", RightOperand(cur)) EXCEPT
                   !.op = Opcode[cur], !.n = Len(code) + 1, !.at = Here],
               "binary", RightOperand(cur), Opcode[cur], "none", Len(code) + 1, Here)
    BY <2>2, <2>3, WithOpNAt
  <2> QED
    BY <2>4 DEF f
<1> HIDE DEF f
<1>5. RightOperand(cur) # P_Assignment
  <2>1. Precedence(cur) \in 2 .. 10
    BY <1>1, PrecedenceIs
  <2> QED
    BY <2>1 DEF RightOperand, P_Assignment
<1>6. Parsed' /\ Len(active') = Len(active) + 1 /\ Len(code') \in Nat /\ Len(code') <= Len(code) + 1
  <2>1. CASE cur \in {"and", "or"}
    <3>1. code' = Append(code, w) /\ w \in Word32 /\ w.op = "CHK" /\ w.a \in {0, 1} /\ w.b = 0
      <4>1. code' = Append(code, w)
        BY <2>1, ShortCircuitIs DEF BinaryOperator, Emit
      <4>2. ShortCircuit[cur] \in {0, 1}
        BY <2>1, ShortCircuitIs
      <4> QED
        BY <4>1, <4>2 DEF Instruction, Word32, OpNames
    <3> HIDE DEF w
    <3>2. f.op \in ShortOps /\ f \in Frame /\ f.n = Len(code) + 1
      BY <1>1, <1>4, <2>1, OpcodeIs DEF Fields
    <3>3. EmittedOK(active', code')
      BY <1>2, <3>1, <3>2, Numbers, EmitCheck DEF Before, Parsed
    <3>4. /\ Len(code') = Len(code) + 1 /\ code'[Len(code) + 1] = w /\ DOMAIN code' = 1 .. Len(code) + 1
          /\ \A i \in 1 .. Len(code) : code'[i] = code[i]
          /\ DOMAIN code = 1 .. Len(code) /\ Len(code) \in Nat
      BY <3>1, Numbers, AppendIs
    <3>5. Extends(code', code)
      BY <3>4 DEF Extends
    <3>6. FramesOK(active, code', Len(read'))
      BY <1>3, <3>5, FramesGrow DEF Before, Parsed
    <3>7. NewFrame(f, Inner.prec, code', Len(read'))
      <4>1. Len(code) + 1 \in DOMAIN code' /\ code'[Len(code) + 1].op = "CHK"
        BY <3>1, <3>4
      <4>2. Opcode[cur] \in OperatorNames
        BY <1>1, OpcodeIs
      <4> QED
        BY <1>3, <1>4, <1>5, <4>1, <4>2 DEF NewFrame, Fields, Here
    <3>8. FramesOK(active', code', Len(read')) /\ Len(active') = Len(active) + 1
      BY <1>2, <1>3, <3>2, <3>6, <3>7, FramesPush, AppendIs, Numbers DEF Inner
    <3> QED
      BY <3>3, <3>4, <3>8 DEF Parsed
  <2>2. CASE cur \notin {"and", "or"}
    <3>1. code' = code
      BY <2>2, ShortCircuitIs DEF BinaryOperator
    <3>2. Opcode[cur] \notin ShortOps /\ Opcode[cur] \in OperatorNames
      BY <1>1, <2>2, OpcodeIs
    <3>3. NewFrame(f, Inner.prec, code, Len(read'))
      BY <1>3, <1>4, <1>5, <3>2 DEF NewFrame, Fields, Here
    <3> QED
      BY <1>2, <1>3, <3>1, <3>3, Begins1, Numbers DEF Before, Reads
  <2> QED
    BY <2>1, <2>2
<1>7. Place'
  <2>1. Len(read) > 0
    BY <1>1 DEF Before, Place, PlaceOK
  <2> QED
    BY <1>1, <1>2, <1>3, <1>6, <2>1, Numbers, OwedIs, PlaceRead DEF Before, Points
<1> QED
  BY <1>1, <1>3, <1>6, <1>7, Zenon DEF After

LEMMA EndBinarySize ==
  ASSUME Before, EndBinary
  PROVE  After
<1> DEFINE w == Instruction(Inner.op, Inner.at, 0)
           patched == IF Inner.op \in {"AND", "OR"} THEN [code EXCEPT ![Inner.n].b = Skipped] ELSE code
<1>1. point = "infix" /\ ip' = 1 /\ stack' = <<>> /\ Inner.for = "binary"
  BY EndedIs DEF EndBinary
<1>2. active' = Front(active) /\ point' = "infix" /\ code' = Append(patched, w)
  BY DEF EndBinary, Finish
<1>3. InputOK' /\ Len(read') = Len(read) /\ Len(read) \in Nat /\ Len(read) <= MaxTokens
  BY InputStay, Zenon DEF EndBinary, Before, Stay
<1>4. /\ Inner.op \in OperatorNames /\ Inner.at \in Nat /\ Inner.at <= Len(read) /\ Inner.n \in Nat
      /\ Inner.op \in ShortOps => Inner.n \in DOMAIN code /\ code[Inner.n].op = "CHK"
  BY <1>1, Numbers DEF FrameOK, Frame
<1>5. Plain(w)
  <2>1. Inner.op \in OpNames \ {"CHK", "POP"}
    BY <1>4 DEF OpNames, OperatorNames
  <2>2. Inner.at \in Int /\ Inner.at >= -1 /\ Inner.at <= MaxTokens
    BY <1>3, <1>4, Bound
  <2> QED
    BY <2>1, <2>2, Instructed, Zenon
<1>6. /\ patched \in Seq(Word32) /\ Len(patched) = Len(code) /\ DOMAIN patched = DOMAIN code
      /\ \A i \in DOMAIN code : /\ patched[i].op = code[i].op /\ patched[i].a = code[i].a
                                /\ patched[i].b = IF Inner.op \in ShortOps /\ i = Inner.n THEN Skipped
                                                                                          ELSE code[i].b
  <2>1. code \in Seq(Word32) /\ Skipped \in Nat
    BY Numbers DEF Skipped
  <2>2. CASE Inner.op \in ShortOps
    <3>1. patched = [code EXCEPT ![Inner.n].b = Skipped]
      BY <2>2 DEF ShortOps
    <3>2. code[Inner.n] \in Word32 /\ Inner.n \in DOMAIN code
      BY <1>4, <2>1, <2>2
    <3>3. [code[Inner.n] EXCEPT !.b = Skipped] \in Word32
      BY <2>1, <3>2 DEF Word32
    <3>4. patched \in Seq(Word32) /\ Len(patched) = Len(code) /\ DOMAIN patched = DOMAIN code
      BY <2>1, <3>1, <3>2, <3>3, ExceptSeq
    <3>5. \A i \in DOMAIN code : patched[i] = IF i = Inner.n THEN [code[Inner.n] EXCEPT !.b = Skipped] ELSE code[i]
      BY <2>1, <3>1, <3>2
    <3>6. /\ [code[Inner.n] EXCEPT !.b = Skipped].op = code[Inner.n].op
          /\ [code[Inner.n] EXCEPT !.b = Skipped].a = code[Inner.n].a
          /\ [code[Inner.n] EXCEPT !.b = Skipped].b = Skipped
      BY <3>2, <2>1 DEF Word32
    <3> HIDE DEF patched
    <3> QED
      BY <2>2, <3>4, <3>5, <3>6
  <2>3. CASE Inner.op \notin ShortOps
    <3>1. patched = code
      BY <2>3 DEF ShortOps
    <3> HIDE DEF patched
    <3> QED
      BY <2>1, <2>3, <3>1
  <2> QED
    BY <2>2, <2>3
<1> HIDE DEF patched, w
<1>7. /\ code' \in Seq(Word32) /\ Len(code') = Len(code) + 1 /\ DOMAIN code' = 1 .. Len(code) + 1
      /\ \A i \in 1 .. Len(code) : code'[i] = patched[i]
      /\ code'[Len(code) + 1] = w /\ Len(code) \in Nat /\ DOMAIN code = 1 .. Len(code)
  <2>1. w \in Word32
    BY <1>5 DEF Plain
  <2> QED
    BY <1>2, <1>6, <2>1, Numbers, AppendIs
<1>8. Extends(code', code)
  BY <1>6, <1>7 DEF Extends
<1>9. Len(active) > 1 /\ FramesOK(active', code', Len(read')) /\ Len(active') = Len(active) - 1
  <2>1. FramesOK(active, code', Len(read'))
    BY <1>3, <1>8, FramesGrow DEF Before, Parsed
  <2> QED
    BY <1>1, <1>2, <1>3, <2>1, FramesPop DEF Inner
<1>10. Skipped \in Len(code) + 2 .. 2 * MaxTokens
  <2>1. Len(code) + Len(active) <= 2 * Len(read)
    BY <1>1, PlaceIs, OwedIs DEF Before
  <2> QED
    BY <1>3, <1>9, <2>1, Numbers, Bound DEF Skipped
<1>11. ASSUME NEW i \in 1 .. Len(code) PROVE InstructionOK(active', code', i)
  <2>1. InstructionOK(active, code, i)
    BY <1>7 DEF Before, Parsed, EmittedOK
  <2>2. code'[i].op = code[i].op /\ code'[i].a = code[i].a
        /\ code'[i].b = IF Inner.op \in ShortOps /\ i = Inner.n THEN Skipped ELSE code[i].b
    BY <1>6, <1>7
  <2>3. CASE Inner.op \in ShortOps /\ i = Inner.n
    <3>1. code'[i].b \in i + 1 .. Len(code') + 1 /\ code'[i].b <= 2 * MaxTokens
      BY <1>7, <1>10, <2>2, <2>3, Numbers DEF Skipped
    <3> QED
      BY <2>1, <2>2, <3>1 DEF InstructionOK
  <2>4. CASE ~(Inner.op \in ShortOps /\ i = Inner.n)
    <3>1. Pending(active, i) => Pending(active', i)
      BY <1>2, <2>4, Numbers, PendingPop DEF Inner
    <3>2. code'[i].b = code[i].b
      BY <2>2, <2>4
    <3>3. code[i].b \in i + 1 .. Len(code) + 1 => code[i].b \in i + 1 .. Len(code') + 1
      BY <1>7
    <3> QED
      BY <2>1, <2>2, <3>1, <3>2, <3>3 DEF InstructionOK
  <2> QED
    BY <2>3, <2>4
<1>12. InstructionOK(active', code', Len(code) + 1)
  <2>1. w.a \in -1 .. MaxTokens /\ w.op \notin {"CHK", "POP"} /\ w.b = 0
    BY <1>5, Bound DEF Plain, Word32
  <2> QED
    BY <1>7, <2>1 DEF InstructionOK
<1>13. Parsed'
  BY <1>7, <1>9, <1>11, <1>12 DEF Parsed, EmittedOK
<1>14. Place'
  BY <1>1, <1>2, <1>3, <1>7, <1>9, Numbers, OwedIs, PlaceStay DEF Before, Points
<1> QED
  BY <1>1, <1>3, <1>13, <1>14, Zenon DEF After
-----------------------------------------------------------------------------
(* The end of the statement, and the machine.                              *)

LEMMA WorkingFinite ==
  ASSUME NEW c, NEW n \in Nat, NEW m \in Nat, m <= n
  PROVE  /\ IsFiniteSet(Working(c, n)) /\ Cardinality(Working(c, n)) \in Nat
         /\ Cardinality(Working(c, m)) <= Cardinality(Working(c, n))
         /\ Cardinality(Working(c, m)) \in Nat
<1>1. IsFiniteSet(1 .. n)
  BY FS_Interval
<1>2. Working(c, n) \in SUBSET (1 .. n) /\ Working(c, m) \in SUBSET Working(c, n)
  BY DEF Working
<1>3. IsFiniteSet(Working(c, n))
  BY <1>1, <1>2, FS_Subset
<1>4. IsFiniteSet(Working(c, m)) /\ Cardinality(Working(c, m)) <= Cardinality(Working(c, n))
  BY <1>2, <1>3, FS_Subset
<1> QED
  BY <1>3, <1>4, FS_CardinalityType

LEMMA WorkingNext ==
  ASSUME NEW c, NEW n \in Nat, c[n + 1].op # "CHK"
  PROVE  Cardinality(Working(c, n + 1)) = Cardinality(Working(c, n)) + 1
<1>1. Working(c, n + 1) = Working(c, n) \cup {n + 1} /\ n + 1 \notin Working(c, n)
  <2>1. 1 .. n + 1 = (1 .. n) \cup {n + 1} /\ n + 1 \notin 1 .. n
    OBVIOUS
  <2> QED
    BY <2>1 DEF Working
<1>2. IsFiniteSet(Working(c, n)) /\ Cardinality(Working(c, n)) \in Nat
  BY WorkingFinite
<1> QED
  BY <1>1, <1>2, FS_AddElement

LEMMA EndStatementSize ==
  ASSUME Before, EndStatement
  PROVE  Sized'
<1> DEFINE w == Instruction("POP", 0, 0)
<1>1. /\ Inner.for = "statement" /\ code' = Append(code, w) /\ cur = Semicolon
      /\ UNCHANGED <<read, cur, quoted, active, point, ip, stack>>
  BY DEF EndStatement, machine, Emit
<1>2. phase' = IF Runs THEN "run" ELSE "accepted"
  BY DEF EndStatement
<1>3. w \in Word32 /\ w.op = "POP" /\ w.a = 0 /\ w.b = 0
  BY DEF Instruction, Word32, OpNames
<1> HIDE DEF w
<1>4. /\ code' \in Seq(Word32) /\ Len(code') = Len(code) + 1 /\ DOMAIN code' = 1 .. Len(code) + 1
      /\ \A i \in 1 .. Len(code) : code'[i] = code[i]
      /\ code'[Len(code) + 1] = w /\ Len(code) \in Nat /\ DOMAIN code = 1 .. Len(code) /\ code' # <<>>
  BY <1>1, <1>3, Numbers, AppendIs
<1>5. Len(active) = 1 /\ active[1].op \notin ShortOps
  BY <1>1, Numbers DEF FrameOK
<1>6. active \in Seq(Frame) /\ \A k \in DOMAIN active : active[k].op \notin ShortOps
  BY <1>5, Numbers
<1>7. \A i : ~Pending(active, i)
  BY <1>6 DEF Pending
<1>8. CodeOK'
  <2>1. ASSUME NEW i \in 1 .. Len(code)
        PROVE  /\ code'[i].a <= MaxTokens /\ code'[i].b <= 2 * MaxTokens
               /\ code'[i].op = "CHK" => code'[i].b \in i + 1 .. Len(code')
               /\ code'[i].op # "POP"
    <3>1. InstructionOK(active, code, i) /\ code'[i] = code[i]
      BY <1>4 DEF Before, Parsed, EmittedOK
    <3> QED
      BY <3>1, <1>4, <1>7, Bound DEF InstructionOK
  <2>2. code'[Len(code')].a <= MaxTokens /\ code'[Len(code')].b <= 2 * MaxTokens /\ code'[Len(code')].op = "POP"
    BY <1>3, <1>4, Bound
  <2> QED
    BY <1>1, <1>4, <1>6, <2>1, <2>2 DEF CodeOK
<1>9. phase' = "run" => MachineOK'
  <2> SUFFICES ASSUME phase' = "run" PROVE MachineOK'
    OBVIOUS
  <2>1. Runs
    BY <1>2
  <2>2. Working(code', Len(code') - 1) = {i \in DOMAIN code : code[i].op # "CHK"}
    BY <1>4 DEF Working
  <2>3. Cardinality(Working(code', Len(code') - 1)) <= MaxRun
    BY <2>1, <2>2 DEF Runs
  <2>4. ip' = 1 /\ stack' = <<>> /\ 1 \in 1 .. Len(code')
    BY <1>1, <1>4 DEF Before
  <2>5. Working(code', ip' - 1) = {}
    BY <2>4 DEF Working
  <2>6. Cardinality(Working(code', ip' - 1)) = 0
    BY <2>5, FS_EmptySet
  <2>7. stack' \in Seq({}) /\ Len(stack') = 0
    BY <2>4
  <2> QED
    BY <2>3, <2>4, <2>6, <2>7 DEF MachineOK
<1>10. InputOK'
  BY <1>1, Zenon DEF InputOK, Before
<1>11. ip' = 1 /\ stack' = <<>>
  BY <1>1 DEF Before
<1> QED
  BY <1>2, <1>8, <1>9, <1>10, <1>11 DEF Sized, Outcomes

\* A parser that rejects keeps what it has.
LEMMA RejectSize ==
  ASSUME Before, Reject
  PROVE  Sized'
<1>1. UNCHANGED <<read, cur, quoted, active, point, code, ip, stack>> /\ phase' = "rejected"
  BY DEF Reject, compiler, machine
<1>2. InputOK' /\ ParserOK'
  BY <1>1, Zenon DEF Before, ParserOK, InputOK, Parsed, Place
<1> QED
  BY <1>1, <1>2 DEF Sized, Outcomes

LEMMA AfterSized ==
  ASSUME After, phase' = "compile"
  PROVE  Sized'
<1>1. InputOK' /\ ParserOK'
  BY Zenon DEF After, ParserOK, Parsed, Place
<1> QED
  BY <1>1 DEF Sized, Outcomes

-----------------------------------------------------------------------------
RunsOK == InputOK /\ CodeOK /\ MachineOK /\ phase = "run"

LEMMA Widen ==
  ASSUME NEW S, NEW s \in Seq(S), NEW v
  PROVE  Append(s, v) \in Seq(S \cup {v}) /\ Len(Append(s, v)) = Len(s) + 1 /\ Len(s) \in Nat
<1>1. s \in Seq(S \cup {v})
  BY SeqMonotonic
<1> QED
  BY <1>1

LEMMA Shorter ==
  ASSUME NEW S, NEW s \in Seq(S)
  PROVE  Front(s) \in Seq(S) /\ Len(Front(s)) <= Len(s) /\ Len(Front(s)) \in Nat
         /\ (Len(s) > 0 => Len(Front(s)) = Len(s) - 1)
<1>1. CASE s = <<>>
  BY <1>1 DEF Front
<1>2. CASE s # <<>>
  BY <1>2, FrontIs
<1> QED
  BY <1>1, <1>2

\* One instruction further, with one value more for one that is no CHK.
LEMMA Proceeds ==
  ASSUME RunsOK, UNCHANGED compiler, code[ip].op \notin {"CHK", "POP"}, ip' = ip + 1, phase' = phase,
         NEW S, stack' \in Seq(S), Len(stack') <= Len(stack) + 1
  PROVE  Sized'
<1>1. code' = code /\ active' = active /\ InputOK'
  BY Zenon DEF compiler, RunsOK, InputOK
<1>2. CodeOK'
  BY <1>1 DEF RunsOK, CodeOK
<1>3. ip \in 1 .. Len(code) /\ Len(code) \in Nat
  BY DEF RunsOK, MachineOK, CodeOK
<1>4. ip # Len(code)
  BY <1>3 DEF RunsOK, CodeOK
<1>5. ip' \in 1 .. Len(code')
  BY <1>1, <1>3, <1>4
<1>6. Len(stack') <= Cardinality(Working(code', ip' - 1))
  <2>1. Cardinality(Working(code, ip)) = Cardinality(Working(code, ip - 1)) + 1
    <3>1. ip - 1 \in Nat /\ ip = (ip - 1) + 1 /\ code[(ip - 1) + 1].op # "CHK"
      BY <1>3
    <3> QED
      BY <3>1, WorkingNext
  <2>2. Len(stack) <= Cardinality(Working(code, ip - 1)) /\ ip' - 1 = ip
    BY <1>3 DEF RunsOK, MachineOK
  <2>3. Cardinality(Working(code, ip - 1)) \in Nat
    BY <1>3, WorkingFinite
  <2>4. Len(stack) \in Nat /\ Len(stack') \in Nat
    BY DEF RunsOK, MachineOK
  <2> QED
    BY <1>1, <2>1, <2>2, <2>3, <2>4
<1>7. MachineOK'
  BY <1>1, <1>5, <1>6 DEF RunsOK, MachineOK
<1> QED
  BY <1>1, <1>2, <1>7 DEF Sized, RunsOK, Outcomes
-----------------------------------------------------------------------------
\* The instruction in turn.
LEMMA InTurn ==
  ASSUME RunsOK
  PROVE  /\ ip \in 1 .. Len(code) /\ Len(code) \in Nat /\ ip \in Nat /\ code[ip] \in Word32
         /\ code[ip].op = "POP" <=> ip = Len(code)
         /\ code[ip].op = "CHK" => code[ip].b \in ip + 1 .. Len(code)
         /\ \E S : stack \in Seq(S)
BY DEF RunsOK, CodeOK, MachineOK

LEMMA LoadOperandSize ==
  ASSUME RunsOK, LoadOperand
  PROVE  Sized'
<1>1. UNCHANGED compiler /\ code[ip].op \notin {"CHK", "POP"}
  BY DEF LoadOperand, Running
<1>2. ip' = ip + 1 /\ phase' = phase
  BY DEF LoadOperand, Proceed
<1>3. PICK v \in Operand : stack' = Append(stack, v)
  BY DEF LoadOperand
<1>4. PICK S : stack \in Seq(S)
  BY InTurn
<1>5. stack' \in Seq(S \cup {v}) /\ Len(stack') <= Len(stack) + 1
  BY <1>3, <1>4, Widen
<1> QED
  BY <1>1, <1>2, <1>5, Proceeds

LEMMA ResultSize ==
  ASSUME RunsOK, UNCHANGED compiler, code[ip].op \notin {"CHK", "POP"}, NEW v, NEW S, NEW rest \in Seq(S),
         Len(rest) <= Len(stack), Result(v, rest)
  PROVE  Sized'
<1>1. CASE ~Ends(v)
  <2>1. stack' = Append(rest, v) /\ ip' = ip + 1 /\ phase' = phase
    BY <1>1 DEF Result, Proceed
  <2>2. Len(stack) \in Nat
    BY InTurn
  <2>3. stack' \in Seq(S \cup {v}) /\ Len(stack') <= Len(stack) + 1
    BY <2>1, <2>2, Widen
  <2> QED
    BY <2>1, <2>3, Proceeds
<1>2. CASE Ends(v)
  <2>1. phase' = v.type /\ stack' = rest /\ ip' = ip
    BY <1>2 DEF Result
  <2>2. phase' \in {"failed", "undetermined"}
    BY <1>2, <2>1 DEF Ends, Failure, Undetermined, Of
  <2>3. code' = code /\ active' = active /\ InputOK'
    BY Zenon DEF compiler, RunsOK, InputOK
  <2>4. CodeOK'
    BY <2>3 DEF RunsOK, CodeOK
  <2>5. Len(rest) \in Nat /\ Len(stack) \in Nat /\ ip \in Nat /\ ip >= 1
    BY InTurn
  <2>6. Len(stack') <= Cardinality(Working(code', ip' - 1))
    <3>1. Cardinality(Working(code, ip - 1)) \in Nat
      BY <2>5, WorkingFinite
    <3>2. Len(stack) <= Cardinality(Working(code, ip - 1))
      BY DEF RunsOK, MachineOK
    <3> QED
      BY <2>1, <2>3, <2>5, <3>1, <3>2
  <2>7. MachineOK'
    BY <2>1, <2>3, <2>6 DEF RunsOK, MachineOK
  <2> QED
    BY <2>2, <2>3, <2>4, <2>7 DEF Sized, Outcomes
<1> QED
  BY <1>1, <1>2

LEMMA OperateSize ==
  ASSUME RunsOK, Operate
  PROVE  Sized'
<1>1. PICK S : stack \in Seq(S)
  BY InTurn
<1>2. Front(stack) \in Seq(S) /\ Len(Front(stack)) <= Len(stack) /\ Len(Front(stack)) \in Nat
  BY <1>1, Shorter
<1>3. Front(Front(stack)) \in Seq(S) /\ Len(Front(Front(stack))) <= Len(stack)
  <2>1. Len(stack) \in Nat
    BY <1>1
  <2>2. Front(Front(stack)) \in Seq(S) /\ Len(Front(Front(stack))) <= Len(Front(stack))
        /\ Len(Front(Front(stack))) \in Nat
    BY <1>2, Shorter
  <2> QED
    BY <1>2, <2>1, <2>2
<1>4. CASE Running(Range(Prefix)) /\ Result(Unary(code[ip].op, Top), Front(stack))
  <2>1. code[ip].op \in {"NOT", "NEG"}
    BY <1>4, PrefixIs DEF Running, Range
  <2>2. UNCHANGED compiler
    BY <1>4 DEF Running
  <2> QED
    BY <1>2, <1>4, <2>1, <2>2, ResultSize
<1>5. CASE Running(Range(Opcode)) /\ Result(Binary(code[ip].op, stack[Len(stack) - 1], Top), Front(Front(stack)))
  <2>1. code[ip].op \in OperatorNames
    <3>1. code[ip].op \in Range(Opcode) /\ DOMAIN Opcode = BinaryTokens
      BY <1>5, Zenon DEF Running, Opcode
    <3>2. PICK t \in BinaryTokens : code[ip].op = Opcode[t]
      BY <3>1, Zenon DEF Range
    <3> QED
      BY <3>2, OpcodeIs
  <2>2. UNCHANGED compiler
    BY <1>5 DEF Running
  <2>3. code[ip].op \notin {"CHK", "POP"}
    BY <2>1 DEF OperatorNames
  <2> QED
    BY <1>3, <1>5, <2>2, <2>3, ResultSize
<1> QED
  BY <1>4, <1>5, Zenon DEF Operate

LEMMA Ahead ==
  ASSUME NEW p \in Nat, NEW n \in Nat, p >= 1, NEW q \in p + 1 .. n
  PROVE  q \in Nat /\ p - 1 \in Nat /\ q - 1 \in Nat /\ p - 1 <= q - 1
OBVIOUS

LEMMA CheckSize ==
  ASSUME RunsOK, Check
  PROVE  Sized'
<1>1. UNCHANGED compiler /\ code[ip].op = "CHK" /\ phase' = phase /\ stack' = stack
  BY DEF Check, Running
<1>2. ip' = code[ip].b \/ ip' = ip + 1
  BY DEF Check
<1>3. code' = code /\ active' = active /\ InputOK'
  BY <1>1, Zenon DEF compiler, RunsOK, InputOK
<1>4. CodeOK'
  BY <1>3 DEF RunsOK, CodeOK
<1>5. /\ ip' \in ip + 1 .. Len(code) /\ ip \in Nat /\ ip >= 1 /\ ip' \in Nat
      /\ ip - 1 \in Nat /\ ip' - 1 \in Nat /\ ip - 1 <= ip' - 1
  <2>1. ip \in Nat /\ ip >= 1 /\ Len(code) \in Nat /\ ip' \in ip + 1 .. Len(code)
    BY <1>1, <1>2, InTurn
  <2> QED
    BY <2>1, Ahead
<1>6. Len(stack') <= Cardinality(Working(code', ip' - 1))
  <2>1. ip - 1 \in Nat /\ ip' - 1 \in Nat /\ ip - 1 <= ip' - 1
    BY <1>5
  <2>2. /\ Cardinality(Working(code, ip - 1)) <= Cardinality(Working(code, ip' - 1))
        /\ Cardinality(Working(code, ip - 1)) \in Nat /\ Cardinality(Working(code, ip' - 1)) \in Nat
    BY <2>1, WorkingFinite
  <2>3. Len(stack) <= Cardinality(Working(code, ip - 1)) /\ Len(stack) \in Nat
    BY InTurn DEF RunsOK, MachineOK
  <2> QED
    BY <1>1, <1>3, <2>2, <2>3
<1>7. MachineOK'
  BY <1>1, <1>3, <1>5, <1>6 DEF RunsOK, MachineOK
<1> QED
  BY <1>1, <1>3, <1>4, <1>7 DEF Sized, RunsOK, Outcomes

LEMMA HaltSize ==
  ASSUME RunsOK, Halt
  PROVE  Sized'
<1>1. UNCHANGED <<read, cur, quoted, active, code, ip, stack>> /\ phase' = "done"
  BY DEF Halt, Running, compiler, machine
<1>2. InputOK' /\ CodeOK' /\ MachineOK'
  BY <1>1, Zenon DEF RunsOK, InputOK, CodeOK, MachineOK
<1> QED
  BY <1>1, <1>2 DEF Sized, Outcomes
-----------------------------------------------------------------------------
LEMMA SizedInit ==
  ASSUME Init
  PROVE  Sized
<1>1. InputOK
  <2>1. read = <<>> /\ cur \in Word /\ quoted \in BOOLEAN
    <3>1. Quoted \subseteq Word
      BY ExpressionAssumption, Zenon DEF ExpressionAssumption
    <3>2. read = <<>> /\ quoted \in BOOLEAN /\ cur \in IF quoted THEN Quoted ELSE Word
      BY Zenon DEF Init
    <3> QED
      BY <3>1, <3>2
  <2>2. read \in Seq(Word) /\ Len(read) = 0
    BY <2>1
  <2>3. Len(read) <= MaxTokens /\ Len(read) # MaxTokens
    BY <2>2, Bound
  <2> QED
    BY <2>1, <2>2, <2>3, Zenon DEF InputOK
<1>2. /\ active = <<Activation("statement", P_Assignment)>> /\ point = "prefix" /\ code = <<>>
      /\ phase = "compile" /\ ip = 1 /\ stack = <<>> /\ read = <<>>
  BY Zenon DEF Init
<1> DEFINE f == Activation("statement", P_Assignment)
<1>3. Fields(f, "statement", P_Assignment, "none", "none", 0, 0)
  BY ActivationIs DEF Fors, P_Assignment, P_Call
<1> HIDE DEF f
<1>4. active = <<f>>
  BY <1>2 DEF f
<1>5. active \in Seq(Frame) /\ active # <<>> /\ Len(active) = 1 /\ active[1] = f /\ DOMAIN active = 1 .. 1
  BY <1>3, <1>4 DEF Fields
<1>6. FrameOK(active, code, 0, 1)
  BY <1>3, <1>5 DEF FrameOK, Fields, ShortOps
<1>7. Len(read) = 0 /\ Len(code) = 0
  BY <1>2
<1>8. FramesOK(active, code, Len(read))
  BY <1>5, <1>6, <1>7 DEF FramesOK
<1>9. EmittedOK(active, code)
  BY <1>2 DEF EmittedOK
<1>10. PlaceOK(active, point, code, Len(read))
  BY <1>2, <1>5, <1>7, OwedIs DEF PlaceOK, Points
<1> QED
  BY <1>1, <1>2, <1>8, <1>9, <1>10 DEF Sized, Outcomes, ParserOK

LEMMA CompilingIs ==
  ASSUME Sized, phase = "compile"
  PROVE  Before
BY Zenon DEF Sized, Before, ParserOK, Parsed, Place

LEMMA RunningIs ==
  ASSUME Sized, phase = "run"
  PROVE  RunsOK
BY DEF Sized, RunsOK

LEMMA PrefixSize ==
  ASSUME Sized, ParsePrefix PROVE Sized'
<1>1. phase = "compile" /\ phase' = "compile"
  BY DEF ParsePrefix, Literal, Identifier, Assign, Load, PrefixOperator, Group, ListLiteral, At, Compiling
<1>2. Before
  BY <1>1, CompilingIs
<1>3. ASSUME ListLiteral PROVE After
  BY <1>2, <1>3, ItemsSize, Spelt DEF ListLiteral, Opening, Closing
<1>4. After
  BY <1>2, <1>3, LiteralSize, IdentifierSize, AssignSize, LoadSize, PrefixOperatorSize, GroupSize, Zenon DEF ParsePrefix
<1> QED
  BY <1>1, <1>4, AfterSized

LEMMA InfixSize ==
  ASSUME Sized, ParseInfix PROVE Sized'
<1>1. phase = "compile" /\ phase' = "compile"
  BY DEF ParseInfix, Call, Subscript, Index, BinaryOperator, Infix, At, Compiling
<1>2. Before
  BY <1>1, CompilingIs
<1>3. ASSUME Call PROVE After
  BY <1>2, <1>3, ItemsSize, Spelt DEF Call, Infix, Opening, Closing
<1>4. After
  BY <1>2, <1>3, SubscriptSize, IndexSize, BinaryOperatorSize, Zenon DEF ParseInfix
<1> QED
  BY <1>1, <1>4, AfterSized

LEMMA ItemsStepSize ==
  ASSUME Sized, ParseItems PROVE Sized'
<1>1. phase = "compile" /\ phase' = "compile"
  BY DEF ParseItems, NextItem, NoMoreItems, EndItem, EndItems, Ended, At, Compiling
<1>2. Before
  BY <1>1, CompilingIs
<1>4. After
  BY <1>2, NextItemSize, NoMoreItemsSize, EndItemSize, EndItemsSize, Zenon DEF ParseItems
<1> QED
  BY <1>1, <1>4, AfterSized

LEMMA AccessSize ==
  ASSUME Sized, ParseAccess PROVE Sized'
<1>1. phase = "compile" /\ phase' = "compile"
  BY DEF ParseAccess, Member, FromStart, Start, ToEnd, Stop, SetElement, GetElement, GetSlice, EndStart,
     EndStop, Ended, At, Compiling
<1>2. Before
  BY <1>1, CompilingIs
<1>4. After
  BY <1>2, MemberSize, FromStartSize, StartSize, ToEndSize, StopSize, SetElementSize, GetElementSize,
     GetSliceSize, EndStartSize, EndStopSize, Zenon DEF ParseAccess
<1> QED
  BY <1>1, <1>4, AfterSized

LEMMA EndSize ==
  ASSUME Sized, ParseEnd PROVE Sized'
<1>1. ASSUME EndStatement PROVE Sized'
  BY <1>1, CompilingIs, EndStatementSize DEF EndStatement, Compiling
<1>2. ASSUME EndUnary \/ EndBinary \/ EndAssign \/ EndSet \/ EndGroup PROVE Sized'
  <2>1. phase = "compile" /\ phase' = "compile"
    BY <1>2 DEF EndUnary, EndBinary, EndAssign, EndSet, EndGroup, Ended, At, Compiling
  <2>2. Before
    BY <2>1, CompilingIs
  <2>3. After
    BY <1>2, <2>2, EndUnarySize, EndBinarySize, EndAssignSize, EndSetSize, EndGroupSize, Zenon
  <2> QED
    BY <2>1, <2>3, AfterSized
<1> QED
  BY <1>1, <1>2, Zenon DEF ParseEnd

LEMMA ErrorSize ==
  ASSUME Sized, ParseError PROVE Sized'
<1>1. phase = "compile" /\ Reject
  BY DEF ParseError, UnknownExpression, UnexpectedInfix, NoMember, Unexpected, MistakenStart, TooManyArguments,
    Compiling
<1> QED
  BY <1>1, CompilingIs, RejectSize

LEMMA RunSize ==
  ASSUME Sized, LoadOperand \/ Check \/ Operate \/ Halt PROVE Sized'
<1>1. phase = "run"
  BY DEF LoadOperand, Check, Operate, Halt, Running
<1>2. RunsOK
  BY <1>1, RunningIs
<1> QED
  BY <1>2, LoadOperandSize, CheckSize, OperateSize, HaltSize

LEMMA StutterSize ==
  ASSUME Sized, UNCHANGED vars PROVE Sized'
<1>1. UNCHANGED <<read, cur, quoted, active, point, code, phase, ip, stack>>
  BY DEF vars, compiler, machine
<1> QED
  BY <1>1, Zenon DEF Sized, InputOK, ParserOK, CodeOK, MachineOK

\* Whatever is read, the code stays within twice the number of tokens, a jump that is
\* not yet set belongs to an activation in progress, every jump that is set goes
\* forward and no further than the end, and the machine's stack never holds more
\* than the instructions before it can have pushed (Compiler::expression, binary,
\* OpCode::CHK).
THEOREM Sizes == Spec => []Sized
<1>1. Init => Sized
  BY SizedInit
<1>2. Sized /\ [Next]_vars => Sized'
  BY PrefixSize, InfixSize, ItemsStepSize, AccessSize, EndSize, ErrorSize, RunSize, StutterSize, Zenon
     DEF Next, Ending
<1> QED
  BY <1>1, <1>2, PTL DEF Spec

LEMMA SizedImplies ==
  ASSUME Sized PROVE TypeOK
<1>1. /\ read \in Seq(Word) /\ Len(read) <= MaxTokens /\ cur \in Word /\ quoted \in BOOLEAN
  BY Zenon DEF Sized, InputOK
<1>4. phase \in Outcomes \cup {"compile", "run"}
  BY Zenon DEF Sized
<1>2. CASE phase \in {"compile", "rejected"}
  <2>1. ParserOK
    BY <1>2 DEF Sized
  <2>2. \A i \in DOMAIN code : code[i].a <= MaxTokens /\ code[i].b \in 0 .. 2 * MaxTokens
    <3>1. ASSUME NEW i \in DOMAIN code PROVE code[i].a <= MaxTokens /\ code[i].b \in 0 .. 2 * MaxTokens
      <4>1. InstructionOK(active, code, i) /\ code[i] \in Word32
        BY <2>1 DEF ParserOK, EmittedOK
      <4>2. code[i].b \in Nat
        BY <4>1 DEF Word32
      <4> QED
        BY <4>1, <4>2, Bound DEF InstructionOK
    <3> QED
      BY <3>1
  <2>3. \A k \in DOMAIN active : /\ active[k].prec \in P_Assignment .. P_Call
                                 /\ active[k].op \in {"AND", "OR"} =>
                                      active[k].n \in DOMAIN code /\ code[active[k].n].op = "CHK"
    <3>1. ASSUME NEW k \in DOMAIN active
          PROVE  active[k] \in Frame /\ FrameOK(active, code, Len(read), k)
      BY <2>1 DEF ParserOK, FramesOK
    <3> QED
      BY <3>1 DEF FrameOK, Frame, ShortOps
  <2>4. ip \in 1 .. Len(code) + 1 /\ Len(stack) <= MaxRun
    <3>1. code \in Seq(Word32) /\ ip = 1 /\ stack = <<>>
      BY <2>1 DEF ParserOK, EmittedOK
    <3> QED
      BY <3>1, Bound
  <2> QED
    BY <1>1, <1>2, <1>4, <2>2, <2>3, <2>4, Zenon DEF TypeOK
<1>3. CASE phase \notin {"compile", "rejected"}
  <2>1. CodeOK /\ phase \in Outcomes \cup {"compile", "run"}
    BY <1>3 DEF Sized
  <2>2. \A i \in DOMAIN code : code[i].a <= MaxTokens /\ code[i].b \in 0 .. 2 * MaxTokens
    <3>1. ASSUME NEW i \in DOMAIN code PROVE code[i].a <= MaxTokens /\ code[i].b \in 0 .. 2 * MaxTokens
      <4>1. code[i] \in Word32 /\ code[i].a <= MaxTokens /\ code[i].b <= 2 * MaxTokens
        BY <2>1 DEF CodeOK
      <4>2. code[i].b \in Nat
        BY <4>1 DEF Word32
      <4> QED
        BY <4>1, <4>2, Bound
    <3> QED
      BY <3>1
  <2>3. \A k \in DOMAIN active : /\ active[k].prec \in P_Assignment .. P_Call
                                 /\ active[k].op \in {"AND", "OR"} =>
                                      active[k].n \in DOMAIN code /\ code[active[k].n].op = "CHK"
    <3>1. ASSUME NEW k \in DOMAIN active
          PROVE  active[k] \in Frame /\ active[k].op \notin ShortOps
      BY <2>1 DEF CodeOK
    <3> QED
      BY <3>1 DEF Frame, ShortOps
  <2>4. ip \in 1 .. Len(code) + 1 /\ Len(stack) <= MaxRun
    <3>1. CASE phase = "accepted"
      <4>1. code \in Seq(Word32) /\ ip = 1 /\ stack = <<>>
        BY <2>1, <3>1 DEF Sized, CodeOK
      <4> QED
        BY <4>1, Bound
    <3>2. CASE phase # "accepted"
      <4>1. MachineOK
        BY <1>3, <2>1, <3>2 DEF Sized, Outcomes
      <4>2. ip \in 1 .. Len(code) /\ Len(code) \in Nat /\ Len(stack) \in Nat
        BY <2>1, <4>1 DEF CodeOK, MachineOK
      <4>3. ip - 1 \in Nat /\ Len(code) - 1 \in Nat /\ ip - 1 <= Len(code) - 1
        BY <4>2
      <4>4. /\ Cardinality(Working(code, ip - 1)) <= Cardinality(Working(code, Len(code) - 1))
            /\ Cardinality(Working(code, ip - 1)) \in Nat /\ Cardinality(Working(code, Len(code) - 1)) \in Nat
        BY <4>3, WorkingFinite
      <4>5. /\ Len(stack) <= Cardinality(Working(code, ip - 1))
            /\ Cardinality(Working(code, Len(code) - 1)) <= MaxRun
        BY <4>1 DEF MachineOK
      <4> QED
        BY <4>2, <4>4, <4>5, Bound
    <3> QED
      BY <3>1, <3>2
  <2> QED
    BY <1>1, <2>1, <2>2, <2>3, <2>4, Zenon DEF TypeOK
<1> QED
  BY <1>2, <1>3

\* The parser and the machine keep the state of its kind.
THEOREM TypeCorrect == Spec => []TypeOK
BY Sizes, SizedImplies, PTL
-----------------------------------------------------------------------------
(* Brackets.                                                               *)

Awaiting == Opening \cup Assignments \cup BinaryTokens \cup {"not", ",", ":"}
Separators == Assignments \cup {",", ":"}
OperatorTokens == BinaryTokens \cup {"not"}

\* b[j] is the j-th of the brackets open at the end of s.
Nested(s, b) ==
  /\ \A j \in DOMAIN b : b[j] \in 1 .. Len(s)
  /\ Depth(s, Len(s) + 1) = Len(b)
  /\ \A j \in DOMAIN b : /\ s[b[j]] \in Opening
                         /\ Depth(s, b[j]) = j - 1
                         /\ \A k \in b[j] + 1 .. Len(s) : Level(s, k) >= j

\* The token at i begins an expression at level j - 1, or there is none.
BeginsAt(s, b, j, i) ==
  \/ j = 1 /\ i = 0
  \/ i > 0 /\ s[i] \in Separators /\ Depth(s, i) = j - 1
  \/ j > 1 /\ i = b[j - 1]

\* g[j] is where the expression at level j - 1 begins, or its last part.
Begun(s, b, g) ==
  /\ Len(g) = Len(b) + 1
  /\ \A j \in DOMAIN g :
       /\ g[j] \in 0 .. Len(s)
       /\ BeginsAt(s, b, j, g[j])
       /\ j > 1 => b[j - 1] <= g[j]
       /\ j <= Len(b) => g[j] < b[j]
       /\ \A k \in g[j] + 1 .. Len(s) : s[k] \in Separators => Depth(s, k) # j - 1

\* A bracket that has just been closed was opened at m, in the present part.
ClosedAt(s, m) ==
  /\ m \in 1 .. Len(s) - 1 /\ s[m] \in Opening /\ Level(s, m) = Level(s, Len(s))
  /\ \A k \in m + 1 .. Len(s) - 1 : s[k] \in Opening => Level(s, k) # Level(s, Len(s))
Closed(s, g) == s # <<>> /\ Last(s) \in Closing => \E m \in Last(g) + 1 .. Len(s) : ClosedAt(s, m)

Marks(s, b, g) == Nested(s, b) /\ Begun(s, b, g) /\ Closed(s, g)

NoOperator(s, g, n) == \A i \in g + 1 .. Len(s) : Level(s, i) = n => s[i] \notin OperatorTokens

Kind(a, s, i) ==
  /\ a.for = "group" => s[i] = "(" /\ ~AfterOperand(s, i)
  /\ a.for = "items" => IsItems(s, i) /\ a.close = Pair(s[i]) /\ a.at = i
  /\ a.for = "start" => IsIndex(s, i) /\ ~HasColon(s, i, Len(s) + 1)
  /\ a.for = "stop" => IsIndex(s, i) /\ HasColon(s, i, Len(s) + 1)

InBracket(p) == p \in {"bracket", "colon"}

\* The j-th bracket was opened by activation w[j]; what is inside is read by the next one.
Owns(act, w) ==
  /\ \A j \in DOMAIN w : w[j] \in 1 .. Len(act)
  /\ \A i, j \in DOMAIN w : i < j => w[i] < w[j]
  /\ \A k \in DOMAIN act : act[k].for \in Brackets <=> \E j \in DOMAIN w : w[j] + 1 = k
Inside(act, w) == \E j \in DOMAIN w : w[j] = Len(act)
Owned(act, s, b, g, w) ==
  /\ Len(w) = Len(b)
  /\ \A j \in DOMAIN w : w[j] < Len(act) => Kind(act[w[j] + 1], s, b[j])
  /\ \A j \in DOMAIN w : act[w[j]].prec = P_Assignment <=> NoOperator(s, g[j], j - 1)
Held(act, s, b, g, w) == Owns(act, w) /\ Owned(act, s, b, g, w)

\* The token is none of those that may stand where an operand is due.
NotSpecial(s, b, t) ==
  b # <<>> =>
    LET i == Last(b) IN
    /\ ~(IsItems(s, i) /\ t = Pair(s[i]) /\ Last(s) \in {s[i], ","} /\ MayClose(s, i))
    /\ ~(IsIndex(s, i) /\ i = Len(s) /\ t = ":")
    /\ ~(IsIndex(s, i) /\ Last(s) = ":" /\ t = "]")

Name(s, g) == Len(s) = g + 1 /\ Last(s) = "name"
Accessed(s) == Len(s) > 1 /\ s[Len(s) - 1] = "." /\ Last(s) = "name"
Indexed(s) ==
  Last(s) = "]" /\ \E m \in 1 .. Len(s) : ClosedAt(s, m) /\ IsIndex(s, m) /\ ~HasColon(s, m, Len(s))
Sliced(s) ==
  Last(s) = "]" /\ \E m \in 1 .. Len(s) : ClosedAt(s, m) /\ IsIndex(s, m) /\ HasColon(s, m, Len(s))
Element(s, b, g) == NoOperator(s, Last(g), Len(b)) /\ Len(s) > Last(g) + 1 /\ (Accessed(s) \/ Indexed(s))

\* Where the innermost activation, of precedence prec, is.
PointOK(s, b, g, prec, p, t) ==
  LET here == Last(g)
      none == NoOperator(s, here, Len(b))
  IN
  /\ AwaitsOperand(s) <=> p \in {"prefix", "items", "bracket", "colon"}
  /\ s # <<>> => (Last(s) = "." <=> p = "member")
  /\ p = "prefix" => NotSpecial(s, b, t)
  /\ p \in {"prefix", "items", "bracket", "colon"} => (prec = P_Assignment \/ InBracket(p) => here = Len(s))
  /\ p = "identifier" => Last(s) = "name" /\ (prec = P_Assignment => here = Len(s) - 1)
  /\ prec # P_Assignment /\ ~InBracket(p) => ~none
  /\ p = "infix" /\ prec = P_Assignment =>
       /\ t \in Assignments => ~Name(s, here)
       /\ t = "=" => ~Element(s, b, g)
       /\ t \in {".", "[", "("} => none
  /\ p \in {"member", "element", "slice"} /\ prec = P_Assignment => none
  /\ p = "items" => b # <<>> /\ Last(s) \in {s[Last(b)], ","}
  /\ p = "element" => Accessed(s) \/ Indexed(s)
  /\ p = "slice" => Sliced(s)
  /\ p = "bracket" => Last(b) = Len(s) /\ IsIndex(s, Last(b))
  /\ p = "colon" => Last(s) = ":" /\ IsIndex(s, Last(b)) /\ HasColon(s, Last(b), Len(s) + 1)

\* The commas that separate the items of the bracket at position i.
Commas(s, i) == Cardinality({k \in i + 1 .. Len(s) : s[k] = "," /\ Level(s, k) = Level(s, i) + 1})

\* The items of an activation are counted; an item is due, or has begun.
CountedAt(a, s, due) ==
  a.for = "items" =>
    /\ a.at \in 1 .. Len(s)
    /\ a.op = "CALL" <=> a.close = ")"
    /\ a.n = Commas(s, a.at) + (IF due THEN 0 ELSE 1)
Due(k) == k = Len(active) /\ point = "items"
Counted == \A k \in DOMAIN active : CountedAt(active[k], read, Due(k))

\* The activations fit the text, with these marks.
LanguageOK(act, p, s, t, b, g, w) ==
  /\ Marks(s, b, g) /\ Held(act, s, b, g, w) /\ (InBracket(p) <=> Inside(act, w))
  /\ PointOK(s, b, g, Last(act).prec, p, t)
-----------------------------------------------------------------------------
(* Depths.                                                                 *)

LEMMA Disjoint ==
  /\ Opening \cap Closing = {} /\ Opening \cap Separators = {} /\ Closing \cap Separators = {}
  /\ OperatorTokens \cap (Opening \cup Closing \cup Separators) = {}
BY DEF Opening, Closing, Separators, Assignments, OperatorTokens, BinaryTokens

LEMMA Counts ==
  ASSUME NEW s, NEW T, NEW i \in Nat \ {0}
  PROVE  /\ Cardinality({k \in 1 .. i - 1 : s[k] \in T}) \in Nat
         /\ Cardinality({k \in 1 .. (i + 1) - 1 : s[k] \in T})
              = Cardinality({k \in 1 .. i - 1 : s[k] \in T}) + (IF s[i] \in T THEN 1 ELSE 0)
<1> DEFINE C(n) == {k \in 1 .. n - 1 : s[k] \in T}
<1>1. IsFiniteSet(C(i)) /\ Cardinality(C(i)) \in Nat
  <2>1. IsFiniteSet(1 .. i - 1) /\ C(i) \in SUBSET (1 .. i - 1)
    <3>1. i - 1 \in Int
      OBVIOUS
    <3>2. IsFiniteSet(1 .. i - 1)
      BY <3>1, FS_Interval
    <3> QED
      BY <3>2
  <2> HIDE DEF C
  <2> QED
    BY <2>1, FS_Subset, FS_CardinalityType
<1>2. CASE s[i] \in T
  <2>1. C(i + 1) = C(i) \cup {i} /\ i \notin C(i)
    <3>1. ASSUME NEW k PROVE k \in 1 .. (i + 1) - 1 <=> k \in 1 .. i - 1 \/ k = i
      OBVIOUS
    <3> QED
      BY <1>2, <3>1
  <2> HIDE DEF C
  <2>2. Cardinality(C(i + 1)) = Cardinality(C(i)) + 1
    BY <1>1, <2>1, FS_AddElement
  <2> QED
    BY <1>1, <1>2, <2>2 DEF C
<1>3. CASE s[i] \notin T
  <2>1. C(i + 1) = C(i)
    <3>1. ASSUME NEW k PROVE k \in 1 .. (i + 1) - 1 <=> k \in 1 .. i - 1 \/ k = i
      OBVIOUS
    <3> QED
      BY <1>3, <3>1
  <2> HIDE DEF C
  <2>2. Cardinality(C(i + 1)) = Cardinality(C(i)) + 0
    BY <1>1, <2>1
  <2> QED
    BY <1>1, <1>3, <2>2 DEF C
<1> QED
  BY <1>2, <1>3

Turn(t) == IF t \in Opening THEN 1 ELSE IF t \in Closing THEN -1 ELSE 0

LEMMA DepthNext ==
  ASSUME NEW s, NEW i \in Nat \ {0}
  PROVE  /\ Depth(s, i) \in Int /\ Level(s, i) \in Int
         /\ Depth(s, i + 1) = Depth(s, i) + Turn(s[i])
         /\ Level(s, i) = Depth(s, i) - (IF s[i] \in Closing THEN 1 ELSE 0)
<1>1. /\ Cardinality({k \in 1 .. i - 1 : s[k] \in Opening}) \in Nat
      /\ Cardinality({k \in 1 .. (i + 1) - 1 : s[k] \in Opening})
           = Cardinality({k \in 1 .. i - 1 : s[k] \in Opening}) + (IF s[i] \in Opening THEN 1 ELSE 0)
  BY Counts
<1>2. /\ Cardinality({k \in 1 .. i - 1 : s[k] \in Closing}) \in Nat
      /\ Cardinality({k \in 1 .. (i + 1) - 1 : s[k] \in Closing})
           = Cardinality({k \in 1 .. i - 1 : s[k] \in Closing}) + (IF s[i] \in Closing THEN 1 ELSE 0)
  BY Counts
<1>3. ~(s[i] \in Opening /\ s[i] \in Closing)
  BY Disjoint
<1> DEFINE o == Cardinality({k \in 1 .. i - 1 : s[k] \in Opening})
           c == Cardinality({k \in 1 .. i - 1 : s[k] \in Closing})
<1>4. /\ Depth(s, i) = o - c
      /\ Depth(s, i + 1) = (o + (IF s[i] \in Opening THEN 1 ELSE 0)) - (c + (IF s[i] \in Closing THEN 1 ELSE 0))
  BY <1>1, <1>2, Zenon DEF Depth
<1>5. o \in Nat /\ c \in Nat
  BY <1>1, <1>2
<1> HIDE DEF o, c
<1> QED
  BY <1>3, <1>4, <1>5 DEF Level, Turn

LEMMA DepthFirst ==
  ASSUME NEW s PROVE Depth(s, 1) = 0
<1>1. {k \in 1 .. 1 - 1 : s[k] \in Opening} = {} /\ {k \in 1 .. 1 - 1 : s[k] \in Closing} = {}
  OBVIOUS
<1>2. Cardinality({}) = 0
  BY FS_EmptySet
<1>3. Depth(s, 1) = 0 - 0
  BY <1>1, <1>2, Zenon DEF Depth
<1> QED
  BY <1>3

\* Two sequences with the same beginning.
Agree(s, r, n) == \A k \in 1 .. n : s[k] = r[k]

LEMMA DepthAgree ==
  ASSUME NEW s, NEW r, NEW n \in Nat, Agree(r, s, n)
  PROVE  /\ \A i \in 1 .. n + 1 : Depth(r, i) = Depth(s, i)
         /\ \A i \in 1 .. n : Level(r, i) = Level(s, i) /\ r[i] = s[i]
<1>1. ASSUME NEW i \in 1 .. n + 1 PROVE Depth(r, i) = Depth(s, i)
  <2>1. \A k \in 1 .. i - 1 : r[k] = s[k]
    BY DEF Agree
  <2>2. {k \in 1 .. i - 1 : r[k] \in Opening} = {k \in 1 .. i - 1 : s[k] \in Opening}
    BY <2>1
  <2>3. {k \in 1 .. i - 1 : r[k] \in Closing} = {k \in 1 .. i - 1 : s[k] \in Closing}
    BY <2>1
  <2> QED
    BY <2>2, <2>3, Zenon DEF Depth
<1>2. ASSUME NEW i \in 1 .. n PROVE Level(r, i) = Level(s, i) /\ r[i] = s[i]
  <2>1. Depth(r, i) = Depth(s, i)
    BY <1>1
  <2>2. r[i] = s[i]
    BY DEF Agree
  <2> QED
    BY <2>1, <2>2, Zenon DEF Level
<1> QED
  BY <1>1, <1>2

LEMMA AgreeAppend ==
  ASSUME NEW S, NEW s \in Seq(S), NEW t \in S
  PROVE  /\ Agree(Append(s, t), s, Len(s))
         /\ \A i \in 1 .. Len(s) + 1 : Depth(Append(s, t), i) = Depth(s, i)
         /\ \A i \in 1 .. Len(s) : Level(Append(s, t), i) = Level(s, i) /\ Append(s, t)[i] = s[i]
         /\ Depth(Append(s, t), Len(s) + 2) = Depth(s, Len(s) + 1) + Turn(t)
         /\ Level(Append(s, t), Len(s) + 1) = Depth(s, Len(s) + 1) - (IF t \in Closing THEN 1 ELSE 0)
<1> DEFINE r == Append(s, t)
<1>1. /\ Len(s) \in Nat /\ Len(r) = Len(s) + 1 /\ r[Len(s) + 1] = t
      /\ \A i \in 1 .. Len(s) : r[i] = s[i]
  BY AppendIs
<1> HIDE DEF r
<1>2. Agree(r, s, Len(s))
  BY <1>1 DEF Agree
<1>3. /\ \A i \in 1 .. Len(s) + 1 : Depth(r, i) = Depth(s, i)
      /\ \A i \in 1 .. Len(s) : Level(r, i) = Level(s, i) /\ r[i] = s[i]
  BY <1>1, <1>2, DepthAgree
<1>4. /\ Depth(r, (Len(s) + 1) + 1) = Depth(r, Len(s) + 1) + Turn(t)
      /\ Level(r, Len(s) + 1) = Depth(r, Len(s) + 1) - (IF t \in Closing THEN 1 ELSE 0)
  BY <1>1, DepthNext
<1>5. (Len(s) + 1) + 1 = Len(s) + 2 /\ Depth(r, Len(s) + 1) = Depth(s, Len(s) + 1)
  BY <1>1, <1>3
<1> QED
  BY <1>2, <1>3, <1>4, <1>5 DEF r
-----------------------------------------------------------------------------
(* What stands where.                                                      *)

LEMMA AwaitsIs ==
  ASSUME NEW S, NEW s \in Seq(S)
  PROVE  AwaitsOperand(s) <=> s = <<>> \/ s[Len(s)] \in Awaiting
BY Zenon DEF AwaitsOperand, Awaiting, Last

LEMMA AwaitsAppend ==
  ASSUME NEW S, NEW s \in Seq(S), NEW t \in S
  PROVE  /\ AwaitsOperand(Append(s, t)) <=> t \in Awaiting
         /\ Last(Append(s, t)) = t
<1>1. Append(s, t) \in Seq(S) /\ Append(s, t) # <<>> /\ Len(Append(s, t)) = Len(s) + 1
      /\ Append(s, t)[Len(s) + 1] = t /\ Last(Append(s, t)) = t
  BY AppendIs
<1> QED
  BY <1>1, AwaitsIs

LEMMA AfterIs ==
  ASSUME NEW S, NEW s \in Seq(S), NEW i \in 1 .. Len(s) + 1
  PROVE  AfterOperand(s, i) <=> i > 1 /\ s[i - 1] \notin Awaiting
<1> DEFINE p == SubSeq(s, 1, i - 1)
<1>1. Len(s) \in Nat /\ i \in Nat /\ i - 1 \in 0 .. Len(s)
  OBVIOUS
<1>2. p \in Seq(S) /\ Len(p) = i - 1 /\ \A k \in 1 .. i - 1 : p[k] = s[k]
  BY <1>1
<1> HIDE DEF p
<1>3. AfterOperand(s, i) <=> ~AwaitsOperand(p)
  BY Zenon DEF AfterOperand, p
<1>4. CASE i = 1
  <2>1. p = <<>>
    BY <1>2, <1>4
  <2>2. AwaitsOperand(p)
    BY <2>1, Zenon DEF AwaitsOperand
  <2> QED
    BY <1>3, <1>4, <2>2
<1>5. CASE i > 1
  <2>1. p # <<>> /\ p[Len(p)] = s[i - 1]
    BY <1>1, <1>2, <1>5
  <2> QED
    BY <1>2, <1>3, <1>5, <2>1, AwaitsIs
<1> QED
  BY <1>1, <1>4, <1>5

LEMMA AfterAgree ==
  ASSUME NEW S, NEW s \in Seq(S), NEW r \in Seq(S), NEW n \in Nat, n <= Len(s), n <= Len(r), Agree(r, s, n),
         NEW i \in 1 .. n
  PROVE  /\ AfterOperand(r, i) <=> AfterOperand(s, i)
         /\ IsItems(r, i) <=> IsItems(s, i)
         /\ IsIndex(r, i) <=> IsIndex(s, i)
<1>1. i \in 1 .. Len(s) + 1 /\ i \in 1 .. Len(r) + 1 /\ (i > 1 => i - 1 \in 1 .. n)
  OBVIOUS
<1>2. r[i] = s[i] /\ (i > 1 => r[i - 1] = s[i - 1])
  BY <1>1 DEF Agree
<1>3. AfterOperand(r, i) <=> AfterOperand(s, i)
  <2>1. AfterOperand(r, i) <=> i > 1 /\ r[i - 1] \notin Awaiting
    BY <1>1, AfterIs
  <2>2. AfterOperand(s, i) <=> i > 1 /\ s[i - 1] \notin Awaiting
    BY <1>1, AfterIs
  <2> QED
    BY <1>2, <2>1, <2>2
<1> QED
  BY <1>2, <1>3, Zenon DEF IsItems, IsIndex

LEMMA AfterLast ==
  ASSUME NEW S, NEW s \in Seq(S), NEW t \in S
  PROVE  /\ AfterOperand(Append(s, t), Len(s) + 1) <=> ~AwaitsOperand(s)
         /\ IsItems(Append(s, t), Len(s) + 1) <=> (IF t = "(" THEN ~AwaitsOperand(s) ELSE AwaitsOperand(s))
         /\ IsIndex(Append(s, t), Len(s) + 1) <=> t = "[" /\ ~AwaitsOperand(s)
<1> DEFINE r == Append(s, t)
<1>1. /\ r \in Seq(S) /\ Len(r) = Len(s) + 1 /\ r[Len(s) + 1] = t /\ Len(s) \in Nat
      /\ \A i \in 1 .. Len(s) : r[i] = s[i]
  BY AppendIs
<1> HIDE DEF r
<1>2. AfterOperand(r, Len(s) + 1) <=> Len(s) + 1 > 1 /\ r[(Len(s) + 1) - 1] \notin Awaiting
  BY <1>1, AfterIs
<1>3. AwaitsOperand(s) <=> s = <<>> \/ s[Len(s)] \in Awaiting
  BY AwaitsIs
<1>4. s = <<>> <=> Len(s) = 0
  OBVIOUS
<1>5. AfterOperand(r, Len(s) + 1) <=> ~AwaitsOperand(s)
  BY <1>1, <1>2, <1>3, <1>4
<1> QED
  BY <1>1, <1>5, Zenon DEF IsItems, IsIndex, r

LEMMA ColonAppend ==
  ASSUME NEW S, NEW s \in Seq(S), NEW t \in S, NEW i \in 1 .. Len(s)
  PROVE  /\ \A j \in 1 .. Len(s) + 1 : HasColon(Append(s, t), i, j) <=> HasColon(s, i, j)
         /\ HasColon(Append(s, t), i, Len(s) + 2) <=>
              \/ HasColon(s, i, Len(s) + 1)
              \/ t = ":" /\ Depth(s, Len(s) + 1) = Level(s, i) + 1
<1> DEFINE r == Append(s, t)
<1>1. /\ Len(s) \in Nat /\ r[Len(s) + 1] = t
      /\ \A k \in 1 .. Len(s) : Level(r, k) = Level(s, k) /\ r[k] = s[k]
      /\ Level(r, Len(s) + 1) = Depth(s, Len(s) + 1) - (IF t \in Closing THEN 1 ELSE 0)
  BY AppendIs, AgreeAppend
<1> HIDE DEF r
<1>2. ASSUME NEW j \in 1 .. Len(s) + 1 PROVE HasColon(r, i, j) <=> HasColon(s, i, j)
  <2>1. \A k \in i + 1 .. j - 1 : k \in 1 .. Len(s)
    OBVIOUS
  <2> QED
    BY <1>1, <2>1 DEF HasColon
<1>3. HasColon(r, i, Len(s) + 2) <=>
        HasColon(r, i, Len(s) + 1) \/ (r[Len(s) + 1] = ":" /\ Level(r, Len(s) + 1) = Level(r, i) + 1)
  <2>1. ASSUME NEW k PROVE k \in i + 1 .. (Len(s) + 2) - 1 <=> k \in i + 1 .. (Len(s) + 1) - 1 \/ k = Len(s) + 1
    BY <1>1
  <2> QED
    BY <2>1, Zenon DEF HasColon
<1>4. HasColon(r, i, Len(s) + 1) <=> HasColon(s, i, Len(s) + 1)
  BY <1>1, <1>2
<1>5. t = ":" => t \notin Closing
  BY DEF Closing
<1>6. Depth(s, Len(s) + 1) \in Int
  BY <1>1, DepthNext
<1> QED
  BY <1>1, <1>2, <1>3, <1>4, <1>5, <1>6 DEF r
-----------------------------------------------------------------------------
(* The innermost bracket, and the one just closed.                         *)

LEMMA MaxIs ==
  ASSUME NEW T, T \subseteq Int, NEW m \in T, \A y \in T : y <= m
  PROVE  Max(T) = m
<1>1. /\ m \in T /\ \A y \in T : m >= y
      /\ \A x \in T : (\A y \in T : x >= y) => x = m
  OBVIOUS
<1> QED
  BY <1>1 DEF Max

LEMMA InnermostIs ==
  ASSUME NEW S, NEW s \in Seq(S), NEW b \in Seq(Nat), Nested(s, b)
  PROVE  /\ b = <<>> => Innermost(s) = 0
         /\ b # <<>> => Innermost(s) = Last(b) /\ Last(b) \in 1 .. Len(s) /\ s[Last(b)] \in Opening
<1> DEFINE open == {i \in DOMAIN s : /\ s[i] \in Opening
                                     /\ Depth(s, i) + 1 = Depth(s, Len(s) + 1)
                                     /\ \A k \in i + 1 .. Len(s) : Level(s, k) > Depth(s, i)}
<1>1. Innermost(s) = IF Depth(s, Len(s) + 1) = 0 THEN 0 ELSE Max(open)
  BY Zenon DEF Innermost
<1>2. Depth(s, Len(s) + 1) = Len(b) /\ Len(b) \in Nat /\ Len(s) \in Nat /\ DOMAIN s = 1 .. Len(s)
  BY DEF Nested
<1>3. CASE b = <<>>
  BY <1>1, <1>2, <1>3
<1>4. CASE b # <<>>
  <2> DEFINE n == Len(b)
             m == b[n]
  <2>1. n \in Nat /\ n >= 1 /\ n \in DOMAIN b /\ Last(b) = m
    BY <1>4 DEF Last
  <2>2. /\ m \in 1 .. Len(s) /\ s[m] \in Opening /\ Depth(s, m) = n - 1
        /\ \A k \in m + 1 .. Len(s) : Level(s, k) >= n
    BY <2>1 DEF Nested
  <2> HIDE DEF n, m
  <2>3. m \in open
    <3>1. \A k \in m + 1 .. Len(s) : Level(s, k) > Depth(s, m)
      <4>1. ASSUME NEW k \in m + 1 .. Len(s) PROVE Level(s, k) > Depth(s, m)
        <5>1. k \in Nat \ {0}
          BY <1>2, <2>2
        <5>2. Level(s, k) \in Int
          BY <5>1, DepthNext
        <5> QED
          BY <2>1, <2>2, <5>2
      <4> QED
        BY <4>1
    <3>2. Depth(s, m) + 1 = Depth(s, Len(s) + 1)
      BY <1>2, <2>1, <2>2 DEF n
    <3> QED
      BY <1>2, <2>2, <3>1, <3>2
  <2>4. ASSUME NEW i \in open PROVE i <= m
    <3> SUFFICES ASSUME i > m PROVE FALSE
      BY <1>2, <2>2
    <3>1. i \in m + 1 .. Len(s) /\ i \in Nat \ {0} /\ s[i] \in Opening /\ Depth(s, i) = n - 1
      <4>1. Depth(s, i) + 1 = Depth(s, Len(s) + 1) /\ i \in 1 .. Len(s) /\ s[i] \in Opening
        BY <1>2
      <4>2. Depth(s, i) \in Int
        BY <4>1, DepthNext
      <4> QED
        <5>1. Len(s) \in Nat /\ m \in Nat /\ i \in m + 1 .. Len(s) /\ i \in Nat \ {0}
          BY <1>2, <2>2, <4>1
        <5>2. Depth(s, Len(s) + 1) = n
          BY <1>2 DEF n
        <5> QED
          BY <2>1, <4>1, <4>2, <5>1, <5>2
    <3>2. Level(s, i) = Depth(s, i) - (IF s[i] \in Closing THEN 1 ELSE 0) /\ Depth(s, i) \in Int
      BY <3>1, DepthNext
    <3>3. s[i] \notin Closing
      BY <3>1, Disjoint
    <3>4. Level(s, i) >= n
      BY <2>2, <3>1
    <3> QED
      BY <2>1, <3>1, <3>2, <3>3, <3>4
  <2>5. open \subseteq Int
    BY <1>2
  <2> HIDE DEF open
  <2>6. Max(open) = m
    BY <2>3, <2>4, <2>5, MaxIs
  <2> QED
    BY <1>1, <1>2, <1>4, <2>1, <2>2, <2>6 DEF n
<1> QED
  BY <1>3, <1>4

LEMMA MatchingIs ==
  ASSUME NEW S, NEW s \in Seq(S), NEW m, ClosedAt(s, m)
  PROVE  Matching(s, Len(s)) = m
<1> DEFINE T == {i \in 1 .. Len(s) - 1 : s[i] \in Opening /\ Level(s, i) = Level(s, Len(s))}
<1>1. Matching(s, Len(s)) = Max(T)
  BY Zenon DEF Matching
<1>2. m \in T /\ Len(s) \in Nat /\ T \subseteq Int
  BY DEF ClosedAt
<1>3. ASSUME NEW y \in T PROVE y <= m
  <2> SUFFICES ASSUME y > m PROVE FALSE
    BY <1>2
  <2>1. y \in m + 1 .. Len(s) - 1 /\ s[y] \in Opening /\ Level(s, y) = Level(s, Len(s))
    BY <1>2
  <2> QED
    BY <2>1 DEF ClosedAt
<1> HIDE DEF T
<1>4. Max(T) = m
  BY <1>2, <1>3, MaxIs
<1> QED
  BY <1>1, <1>4

LEMMA MatchingAgree ==
  ASSUME NEW s, NEW r, NEW n \in Nat, Agree(r, s, n), NEW j \in 1 .. n
  PROVE  Matching(r, j) = Matching(s, j)
<1>1. \A i \in 1 .. n : Level(r, i) = Level(s, i) /\ r[i] = s[i]
  BY DepthAgree
<1>2. \A i \in 1 .. j - 1 : i \in 1 .. n
  OBVIOUS
<1>3. {i \in 1 .. j - 1 : r[i] \in Opening /\ Level(r, i) = Level(r, j)}
        = {i \in 1 .. j - 1 : s[i] \in Opening /\ Level(s, i) = Level(s, j)}
  BY <1>1, <1>2
<1> QED
  BY <1>3, Zenon DEF Matching
-----------------------------------------------------------------------------
(* Where an expression begins.                                             *)

LEMMA BeginsIs ==
  ASSUME NEW S, NEW s \in Seq(S), NEW b \in Seq(Nat), NEW g \in Seq(Nat), Nested(s, b), Begun(s, b, g)
  PROVE  Begins(s) = Last(g) + 1 /\ Last(g) \in 0 .. Len(s) /\ Len(g) = Len(b) + 1 /\ Last(g) = g[Len(b) + 1]
<1> DEFINE here == Depth(s, Len(s) + 1)
           begin == {i \in DOMAIN s : \/ s[i] \in Assignments \cup {",", ":"} /\ Depth(s, i) = here
                                      \/ i = Innermost(s)}
           n == Len(b)
           m == g[n + 1]
<1>1. Begins(s) = IF begin = {} THEN 1 ELSE Max(begin) + 1
  BY Zenon DEF Begins
<1>2. /\ here = n /\ n \in Nat /\ Len(s) \in Nat /\ DOMAIN s = 1 .. Len(s) /\ DOMAIN g = 1 .. n + 1
      /\ Len(g) = n + 1 /\ Last(g) = m
  <2>1. Len(g) = n + 1 /\ n \in Nat
    BY DEF Begun
  <2> QED
    BY <2>1 DEF Nested, Last
<1>3. /\ m \in 0 .. Len(s) /\ BeginsAt(s, b, n + 1, m)
      /\ n + 1 > 1 => b[(n + 1) - 1] <= m
      /\ \A k \in m + 1 .. Len(s) : s[k] \in Separators => Depth(s, k) # (n + 1) - 1
  <2>1. n + 1 \in DOMAIN g
    BY <1>2
  <2> QED
    BY <2>1, Zenon DEF Begun
<1>4. /\ b = <<>> => Innermost(s) = 0
      /\ b # <<>> => Innermost(s) = b[n] /\ n >= 1
  <2>1. b # <<>> => Last(b) = b[n] /\ n >= 1
    BY DEF Last
  <2> QED
    BY <2>1, InnermostIs
<1>5. Assignments \cup {",", ":"} = Separators
  BY Zenon DEF Separators
<1>6. \A i : i \in begin <=> i \in 1 .. Len(s) /\ ((s[i] \in Separators /\ Depth(s, i) = n) \/ i = Innermost(s))
  BY <1>2, <1>5, Zenon
<1>7. (n + 1) - 1 = n /\ (b = <<>> <=> n = 0)
  BY <1>2
<1> HIDE DEF begin, here, n, m
<1>8. \A i \in begin : i \in Int /\ i <= m
  <2>1. ASSUME NEW i \in begin, i > m PROVE FALSE
    <3>1. i \in m + 1 .. Len(s)
      BY <1>2, <1>3, <1>6, <2>1
    <3>2. i = Innermost(s)
      BY <1>3, <1>6, <1>7, <3>1
    <3> QED
      BY <1>2, <1>3, <1>4, <1>7, <2>1, <3>1, <3>2
  <2> QED
    BY <1>2, <1>3, <1>6, <2>1
<1>9. CASE m = 0
  <2>1. begin = {}
    BY <1>6, <1>8, <1>9
  <2> QED
    BY <1>1, <1>2, <1>9, <2>1 DEF n, m
<1>10. CASE m # 0
  <2>1. m \in begin
    BY <1>2, <1>3, <1>4, <1>6, <1>7, <1>10, SMTT(30) DEF BeginsAt
  <2>2. begin \subseteq Int
    BY <1>8
  <2>3. Max(begin) = m
    BY <1>8, <2>1, <2>2, MaxIs
  <2> QED
    BY <1>1, <1>2, <1>3, <2>1, <2>3 DEF n, m
<1> QED
  BY <1>9, <1>10
-----------------------------------------------------------------------------
(* The part of the input that an assignment would be to.                   *)

LEMMA Least ==
  ASSUME NEW T, T \subseteq Nat, T # {}
  PROVE  \E m \in T : \A k \in T : m <= k
<1>1. PICK m \in T : \A k \in T : ~ (<<k, m>> \in OpToRel(<, Nat))
  BY WFMin, NatLessThanWellFounded, Zenon
<1>2. \A k \in T : ~ (k < m)
  BY <1>1, Zenon DEF OpToRel
<1> QED
  BY <1>2

LEMMA DepthShift ==
  ASSUME NEW s, NEW r, NEW g \in Nat, NEW n \in Nat, \A i \in 1 .. n : r[i] = s[g + i]
  PROVE  /\ \A i \in 1 .. n + 1 : Depth(r, i) = Depth(s, g + i) - Depth(s, g + 1)
         /\ \A i \in 1 .. n : Level(r, i) = Level(s, g + i) - Depth(s, g + 1)
<1> DEFINE P(i) == Depth(r, i) = Depth(s, g + i) - Depth(s, g + 1)
           bad == {i \in 1 .. n + 1 : ~P(i)}
<1>1. Depth(s, g + 1) \in Int /\ g + 1 \in Nat \ {0}
  <2>1. g + 1 \in Nat \ {0}
    OBVIOUS
  <2> QED
    BY <2>1, DepthNext
<1>2. P(1)
  BY <1>1, DepthFirst
<1>3. ASSUME NEW i \in 1 .. n, P(i) PROVE P(i + 1)
  <2>1. i \in Nat \ {0} /\ g + i \in Nat \ {0} /\ g + (i + 1) = (g + i) + 1
    OBVIOUS
  <2>2. Depth(r, i + 1) = Depth(r, i) + Turn(r[i])
    BY <2>1, DepthNext
  <2>3. Depth(s, (g + i) + 1) = Depth(s, g + i) + Turn(s[g + i]) /\ Depth(s, g + i) \in Int
    BY <2>1, DepthNext
  <2>4. Turn(r[i]) = Turn(s[g + i]) /\ Turn(s[g + i]) \in Int
    BY DEF Turn
  <2> QED
    BY <1>1, <1>3, <2>1, <2>2, <2>3, <2>4
<1>4. bad = {}
  <2> SUFFICES ASSUME bad # {} PROVE FALSE
    OBVIOUS
  <2>1. bad \subseteq Nat /\ \A i : i \in bad <=> i \in 1 .. n + 1 /\ ~P(i)
    OBVIOUS
  <2> HIDE DEF bad, P
  <2>2. PICK m \in bad : \A k \in bad : m <= k
    BY <2>1, Least
  <2>3. m \in 1 .. n + 1 /\ ~P(m) /\ m # 1
    BY <1>2, <2>1
  <2>4. m - 1 \in 1 .. n /\ m - 1 \in 1 .. n + 1 /\ (m - 1) + 1 = m
    BY <2>3
  <2>5. P(m - 1)
    BY <2>1, <2>2, <2>4
  <2> QED
    BY <1>3, <2>3, <2>4, <2>5
<1>5. \A i \in 1 .. n + 1 : P(i)
  BY <1>4
<1>6. ASSUME NEW i \in 1 .. n PROVE Level(r, i) = Level(s, g + i) - Depth(s, g + 1)
  <2>1. i \in Nat \ {0} /\ g + i \in Nat \ {0} /\ i \in 1 .. n + 1
    OBVIOUS
  <2>2. Depth(r, i) = Depth(s, g + i) - Depth(s, g + 1)
    BY <1>5, <2>1
  <2>3. Level(r, i) = Depth(r, i) - (IF r[i] \in Closing THEN 1 ELSE 0)
    BY <2>1, DepthNext
  <2>4. Level(s, g + i) = Depth(s, g + i) - (IF s[g + i] \in Closing THEN 1 ELSE 0) /\ Depth(s, g + i) \in Int
    BY <2>1, DepthNext
  <2>5. r[i] = s[g + i]
    OBVIOUS
  <2> QED
    BY <1>1, <2>2, <2>3, <2>4, <2>5
<1> QED
  BY <1>5, <1>6

\* What the mark before an expression says.
LEMMA MarkIs ==
  ASSUME NEW S, NEW s \in Seq(S), NEW b \in Seq(Nat), NEW g \in Seq(Nat), Nested(s, b), Begun(s, b, g)
  PROVE  /\ Last(g) \in 0 .. Len(s) /\ Depth(s, Last(g) + 1) = Len(b)
         /\ Last(g) > 0 => s[Last(g)] \in Awaiting
<1> DEFINE n == Len(b)
           m == Last(g)
<1>1. Len(g) = n + 1 /\ Last(g) = g[n + 1] /\ m \in 0 .. Len(s) /\ n \in Nat /\ Len(s) \in Nat
  BY BeginsIs
<1>2. BeginsAt(s, b, n + 1, m)
  <2>1. n + 1 \in DOMAIN g
    BY <1>1
  <2> QED
    BY <1>1, <2>1, Zenon DEF Begun
<1> HIDE DEF n, m
<1>3. CASE m = 0 /\ n + 1 = 1
  BY <1>1, <1>3, DepthFirst DEF n, m
<1>4. CASE m > 0 /\ s[m] \in Separators /\ Depth(s, m) = (n + 1) - 1
  <2>1. m \in Nat \ {0}
    BY <1>1, <1>4
  <2>2. Depth(s, m + 1) = Depth(s, m) + Turn(s[m]) /\ Depth(s, m) \in Int
    BY <2>1, DepthNext
  <2>3. Turn(s[m]) = 0
    BY <1>4, Disjoint DEF Turn
  <2>4. s[m] \in Awaiting
    BY <1>4 DEF Separators, Awaiting
  <2> QED
    BY <1>1, <1>4, <2>2, <2>3, <2>4 DEF n, m
<1>5. CASE n + 1 > 1 /\ m = b[(n + 1) - 1]
  <2>1. n \in DOMAIN b /\ m = b[n]
    BY <1>1, <1>5 DEF n
  <2>2. m \in 1 .. Len(s) /\ s[m] \in Opening /\ Depth(s, m) = n - 1
    BY <2>1 DEF Nested
  <2>3. m \in Nat \ {0}
    BY <2>2
  <2>4. Depth(s, m + 1) = Depth(s, m) + Turn(s[m])
    BY <2>3, DepthNext
  <2>5. Turn(s[m]) = 1
    BY <2>2 DEF Turn
  <2>6. s[m] \in Awaiting
    BY <2>2 DEF Awaiting
  <2> QED
    BY <1>1, <2>2, <2>4, <2>5, <2>6 DEF n, m
<1> QED
  BY <1>2, <1>3, <1>4, <1>5 DEF BeginsAt
-----------------------------------------------------------------------------
Present(s, g) == SubSeq(s, Last(g) + 1, Len(s))

LEMMA PresentIs ==
  ASSUME NEW S, NEW s \in Seq(S), NEW b \in Seq(Nat), NEW g \in Seq(Nat), Nested(s, b), Begun(s, b, g)
  PROVE  LET r == Present(s, g) IN
         /\ r \in Seq(S) /\ Len(r) = Len(s) - Last(g) /\ DOMAIN r = 1 .. Len(r)
         /\ \A i \in 1 .. Len(r) : r[i] = s[Last(g) + i] /\ Level(r, i) = Level(s, Last(g) + i) - Len(b)
         /\ Len(s) \in Nat /\ Len(b) \in Nat /\ Last(g) \in 0 .. Len(s)
<1> DEFINE r == Present(s, g)
           m == Last(g)
<1>1. /\ m \in 0 .. Len(s) /\ Depth(s, m + 1) = Len(b) /\ Len(b) \in Nat /\ Len(s) \in Nat
  BY MarkIs
<1>2. r = SubSeq(s, m + 1, Len(s))
  BY DEF Present
<1> HIDE DEF r, m
<1>3. /\ r \in Seq(S) /\ Len(r) = Len(s) - m /\ DOMAIN r = 1 .. Len(r)
      /\ \A i \in 1 .. Len(r) : r[i] = s[m + i]
  <2>1. /\ Len(r) = Len(s) - m /\ DOMAIN r = 1 .. Len(s) - m
        /\ \A i \in 1 .. Len(s) - m : r[i] = s[(m + 1) + i - 1]
    BY <1>1, <1>2
  <2>2. r \in Seq(S)
    BY <1>1, <1>2
  <2>3. \A i \in 1 .. Len(s) - m : (m + 1) + i - 1 = m + i
    BY <1>1
  <2> QED
    BY <2>1, <2>2, <2>3
<1>4. \A i \in 1 .. Len(r) : Level(r, i) = Level(s, m + i) - Len(b)
  <2>1. Len(r) \in Nat /\ m \in Nat
    BY <1>1, <1>3
  <2>2. \A i \in 1 .. Len(r) : Level(r, i) = Level(s, m + i) - Depth(s, m + 1)
    BY <1>3, <2>1, DepthShift
  <2> QED
    BY <1>1, <2>2
<1> QED
  BY <1>1, <1>3, <1>4 DEF r, m

LEMMA NameIs ==
  ASSUME NEW S, NEW s \in Seq(S), NEW b \in Seq(Nat), NEW g \in Seq(Nat), Nested(s, b), Begun(s, b, g)
  PROVE  IsName(Present(s, g)) <=> Name(s, Last(g))
<1> DEFINE r == Present(s, g)
           h == Last(g)
<1>1. /\ Len(r) = Len(s) - h /\ Len(s) \in Nat /\ h \in 0 .. Len(s)
      /\ \A i \in 1 .. Len(r) : r[i] = s[h + i]
  BY PresentIs
<1> HIDE DEF r, h
<1>2. Len(r) = 1 <=> Len(s) = h + 1
  BY <1>1
<1>3. Len(r) = 1 => r[1] = s[Len(s)]
  <2> SUFFICES ASSUME Len(r) = 1 PROVE r[1] = s[Len(s)]
    OBVIOUS
  <2>1. 1 \in 1 .. Len(r)
    OBVIOUS
  <2>2. h + 1 = Len(s)
    BY <1>1, <1>2
  <2> QED
    BY <1>1, <2>1, <2>2
<1>4. Name(s, h) <=> Len(s) = h + 1 /\ s[Len(s)] = "name"
  BY Zenon DEF Name, Last
<1> QED
  BY <1>2, <1>3, <1>4, Zenon DEF IsName, r, h

LEMMA ClosedShift ==
  ASSUME NEW S, NEW s \in Seq(S), NEW b \in Seq(Nat), NEW g \in Seq(Nat), Nested(s, b), Begun(s, b, g),
         NEW m \in Last(g) + 1 .. Len(s), ClosedAt(s, m)
  PROVE  LET r == Present(s, g) IN
         /\ Matching(r, Len(r)) = m - Last(g)
         /\ IsIndex(r, m - Last(g)) <=> IsIndex(s, m)
         /\ HasColon(r, m - Last(g), Len(r)) <=> HasColon(s, m, Len(s))
<1> DEFINE r == Present(s, g)
           h == Last(g)
           i == m - h
<1>1. /\ r \in Seq(S) /\ Len(r) = Len(s) - h /\ DOMAIN r = 1 .. Len(r)
      /\ \A k \in 1 .. Len(r) : r[k] = s[h + k] /\ Level(r, k) = Level(s, h + k) - Len(b)
      /\ Len(s) \in Nat /\ Len(b) \in Nat /\ h \in 0 .. Len(s)
  BY PresentIs
<1>0. h > 0 => s[h] \in Awaiting
  BY MarkIs
<1> HIDE DEF r, h
<1>2. /\ m \in 1 .. Len(s) - 1 /\ s[m] \in Opening /\ Level(s, m) = Level(s, Len(s))
      /\ \A k \in m + 1 .. Len(s) - 1 : s[k] \in Opening => Level(s, k) # Level(s, Len(s))
  BY DEF ClosedAt
<1>3. m \in h + 1 .. Len(s)
  BY DEF h
<1>4. i \in 1 .. Len(r) - 1 /\ i \in 1 .. Len(r) /\ Len(r) \in 1 .. Len(r) /\ h + i = m /\ h + Len(r) = Len(s)
  BY <1>1, <1>2, <1>3
<1> HIDE DEF i
<1>5. \A k \in 1 .. Len(r) : Level(s, h + k) \in Int
  <2>1. \A k \in 1 .. Len(r) : h + k \in Nat \ {0}
    BY <1>1
  <2> QED
    BY <2>1, DepthNext
<1>6. ClosedAt(r, i)
  <2>1. s[m] = r[i] /\ Level(r, i) = Level(r, Len(r))
    BY <1>1, <1>2, <1>4
  <2>2. ASSUME NEW k \in i + 1 .. Len(r) - 1, r[k] \in Opening PROVE Level(r, k) # Level(r, Len(r))
    <3>1. k \in 1 .. Len(r) /\ h + k \in m + 1 .. Len(s) - 1
      BY <1>1, <1>4
    <3>2. Level(s, h + k) # Level(s, Len(s))
      BY <1>1, <1>2, <2>2, <3>1
    <3>3. Level(r, k) = Level(s, h + k) - Len(b) /\ Level(r, Len(r)) = Level(s, Len(s)) - Len(b)
      BY <1>1, <1>4, <3>1
    <3>4. Level(s, h + k) \in Int /\ Level(s, Len(s)) \in Int
      BY <1>4, <1>5, <3>1
    <3> QED
      BY <1>1, <3>2, <3>3, <3>4
  <2> QED
    BY <1>2, <1>4, <2>1, <2>2 DEF ClosedAt
<1>7. Matching(r, Len(r)) = i
  BY <1>1, <1>6, MatchingIs
<1>8. IsIndex(r, i) <=> IsIndex(s, m)
  <2>1. AfterOperand(r, i) <=> i > 1 /\ r[i - 1] \notin Awaiting
    <3>1. i \in 1 .. Len(r) + 1
      BY <1>4
    <3> QED
      BY <1>1, <3>1, AfterIs
  <2>2. AfterOperand(s, m) <=> m > 1 /\ s[m - 1] \notin Awaiting
    <3>1. m \in 1 .. Len(s) + 1
      BY <1>2
    <3> QED
      BY <3>1, AfterIs
  <2>3. AfterOperand(r, i) <=> AfterOperand(s, m)
    <3>1. CASE i > 1
      <4>1. i - 1 \in 1 .. Len(r) /\ h + (i - 1) = m - 1 /\ m > 1
        BY <1>1, <1>4, <3>1
      <4> QED
        BY <1>1, <2>1, <2>2, <3>1, <4>1
    <3>2. CASE ~(i > 1)
      <4>1. m = h + 1
        BY <1>1, <1>4, <3>2
      <4>2. m > 1 => h > 0 /\ m - 1 = h
        BY <1>1, <4>1
      <4> QED
        BY <1>0, <2>1, <2>2, <3>2, <4>2
    <3> QED
      BY <3>1, <3>2
  <2>4. r[i] = s[m]
    BY <1>1, <1>4
  <2> QED
    BY <2>3, <2>4, Zenon DEF IsIndex
<1>9. HasColon(r, i, Len(r)) <=> HasColon(s, m, Len(s))
  <2>1. ASSUME NEW k \in i + 1 .. Len(r) - 1, r[k] = ":", Level(r, k) = Level(r, i) + 1
        PROVE  HasColon(s, m, Len(s))
    <3>1. k \in 1 .. Len(r) /\ h + k \in m + 1 .. Len(s) - 1
      BY <1>1, <1>4
    <3>2. Level(s, h + k) \in Int /\ Level(s, m) \in Int
      BY <1>4, <1>5, <3>1
    <3>3. Level(r, k) = Level(s, h + k) - Len(b) /\ Level(r, i) = Level(s, m) - Len(b) /\ s[h + k] = ":"
      BY <1>1, <1>4, <2>1, <3>1
    <3>4. Level(s, h + k) = Level(s, m) + 1
      BY <1>1, <2>1, <3>2, <3>3, SMTT(30)
    <3> QED
      BY <3>1, <3>3, <3>4 DEF HasColon
  <2>2. ASSUME NEW j \in m + 1 .. Len(s) - 1, s[j] = ":", Level(s, j) = Level(s, m) + 1
        PROVE  HasColon(r, i, Len(r))
    <3> DEFINE k == j - h
    <3>1. k \in 1 .. Len(r) /\ k \in i + 1 .. Len(r) - 1 /\ h + k = j
      BY <1>1, <1>3, <1>4
    <3> HIDE DEF k
    <3>2. Level(s, h + k) \in Int /\ Level(s, m) \in Int
      BY <1>4, <1>5, <3>1
    <3>3. Level(r, k) = Level(s, h + k) - Len(b) /\ Level(r, i) = Level(s, m) - Len(b) /\ r[k] = ":"
      BY <1>1, <1>4, <2>2, <3>1
    <3>4. Level(s, h + k) = Level(s, m) + 1 /\ Len(b) \in Nat
      BY <1>1, <2>2, <3>1
    <3>5. Level(r, k) = Level(r, i) + 1
      BY <3>2, <3>3, <3>4
    <3> QED
      BY <3>1, <3>3, <3>5 DEF HasColon
  <2> QED
    BY <2>1, <2>2 DEF HasColon
<1> QED
  BY <1>7, <1>8, <1>9 DEF r, h, i

LEMMA ElementIs ==
  ASSUME NEW S, NEW s \in Seq(S), NEW b \in Seq(Nat), NEW g \in Seq(Nat), Marks(s, b, g)
  PROVE  IsElement(Present(s, g)) <=> Element(s, b, g)
<1> DEFINE r == Present(s, g)
           h == Last(g)
<1>0. Nested(s, b) /\ Begun(s, b, g) /\ Closed(s, g)
  BY DEF Marks
<1>1. /\ r \in Seq(S) /\ Len(r) = Len(s) - h /\ DOMAIN r = 1 .. Len(r)
      /\ \A k \in 1 .. Len(r) : r[k] = s[h + k] /\ Level(r, k) = Level(s, h + k) - Len(b)
      /\ Len(s) \in Nat /\ Len(b) \in Nat /\ h \in 0 .. Len(s)
  BY <1>0, PresentIs
<1> HIDE DEF r, h
<1>2. Len(r) > 1 <=> Len(s) > h + 1
  BY <1>1
<1>3. Operators0(r) = {} <=> NoOperator(s, h, Len(b))
  <2>1. BinaryTokens \cup {"not"} = OperatorTokens
    BY Zenon DEF OperatorTokens
  <2>2. Operators0(r) = {} <=> \A k \in 1 .. Len(r) : Level(r, k) = 0 => r[k] \notin OperatorTokens
    BY <1>1, <2>1 DEF Operators0, TopLevel
  <2>3. ASSUME NEW k \in 1 .. Len(r)
        PROVE  h + k \in h + 1 .. Len(s) /\ r[k] = s[h + k] /\ (Level(r, k) = 0 <=> Level(s, h + k) = Len(b))
    <3>1. h + k \in Nat \ {0} /\ h + k \in h + 1 .. Len(s)
      BY <1>1
    <3>2. Level(s, h + k) \in Int
      BY <3>1, DepthNext
    <3> QED
      BY <1>1, <3>1, <3>2
  <2>4. ASSUME NEW i \in h + 1 .. Len(s) PROVE i - h \in 1 .. Len(r) /\ h + (i - h) = i
    BY <1>1
  <2>5. ASSUME \A k \in 1 .. Len(r) : Level(r, k) = 0 => r[k] \notin OperatorTokens
        PROVE  NoOperator(s, h, Len(b))
    <3>1. ASSUME NEW i \in h + 1 .. Len(s), Level(s, i) = Len(b) PROVE s[i] \notin OperatorTokens
      <4>1. PICK k \in 1 .. Len(r) : h + k = i
        BY <2>4
      <4> QED
        BY <2>3, <2>5, <3>1, <4>1
    <3> QED
      BY <3>1 DEF NoOperator
  <2>6. ASSUME NoOperator(s, h, Len(b)), NEW k \in 1 .. Len(r), Level(r, k) = 0 PROVE r[k] \notin OperatorTokens
    BY <2>3, <2>6 DEF NoOperator
  <2> QED
    BY <2>2, <2>5, <2>6
<1>4. ASSUME Len(r) > 1
      PROVE  /\ Last(r) = Last(s)
             /\ r[Len(r) - 1] = "." /\ Last(r) = "name" <=> Accessed(s)
  <2>1. Len(r) \in 1 .. Len(r) /\ Len(r) - 1 \in 1 .. Len(r) /\ h + Len(r) = Len(s) /\ h + (Len(r) - 1) = Len(s) - 1
        /\ Len(s) > 1
    BY <1>1, <1>4
  <2>2. r[Len(r)] = s[Len(s)] /\ r[Len(r) - 1] = s[Len(s) - 1]
    BY <1>1, <2>1
  <2> QED
    BY <2>1, <2>2, Zenon DEF Accessed, Last
<1>5. ASSUME Len(r) > 1, Last(s) = "]"
      PROVE  IsIndex(r, Matching(r, Len(r))) /\ ~HasColon(r, Matching(r, Len(r)), Len(r)) <=> Indexed(s)
  <2>1. Last(s) \in Closing /\ s # <<>>
    BY <1>1, <1>2, <1>5 DEF Closing
  <2>2. PICK m \in h + 1 .. Len(s) : ClosedAt(s, m)
    BY <1>0, <2>1 DEF Closed, h
  <2>3. /\ Matching(r, Len(r)) = m - h
        /\ IsIndex(r, m - h) <=> IsIndex(s, m)
        /\ HasColon(r, m - h, Len(r)) <=> HasColon(s, m, Len(s))
    BY <1>0, <2>2, ClosedShift DEF r, h
  <2>4. m \in 1 .. Len(s)
    BY <1>1, <2>2
  <2>5. ASSUME NEW k \in 1 .. Len(s), ClosedAt(s, k) PROVE k = m
    BY <2>2, <2>5, MatchingIs
  <2>6. Indexed(s) <=> IsIndex(s, m) /\ ~HasColon(s, m, Len(s))
    BY <1>5, <2>2, <2>4, <2>5, Zenon DEF Indexed
  <2> QED
    BY <2>3, <2>6
<1>6. IsElement(r) <=> Len(r) > 1 /\ Operators0(r) = {} /\ (Accessed(s) \/ Indexed(s))
  <2>1. CASE ~(Len(r) > 1)
    BY <2>1, Zenon DEF IsElement
  <2>2. CASE Len(r) > 1
    <3>1. /\ Last(r) = Last(s)
          /\ r[Len(r) - 1] = "." /\ Last(r) = "name" <=> Accessed(s)
      BY <1>4, <2>2
    <3>2. CASE Last(s) = "]"
      <4>1. IsIndex(r, Matching(r, Len(r))) /\ ~HasColon(r, Matching(r, Len(r)), Len(r)) <=> Indexed(s)
        BY <1>5, <2>2, <3>2
      <4> QED
        BY <2>2, <3>1, <3>2, <4>1, Zenon DEF IsElement
    <3>3. CASE Last(s) # "]"
      <4>1. ~Indexed(s)
        BY <3>3, Zenon DEF Indexed
      <4> QED
        BY <2>2, <3>1, <3>3, <4>1, Zenon DEF IsElement
    <3> QED
      BY <3>2, <3>3
  <2> QED
    BY <2>1, <2>2
<1> QED
  BY <1>2, <1>3, <1>6, Zenon DEF Element, r, h
-----------------------------------------------------------------------------
(* MayFollow, with the marks.                                              *)

InMiddle(s, b, g, t) ==
  \/ t \in BinaryTokens \cup {"(", "[", "."}
  \/ b = <<>> /\ t = Semicolon
  \/ b # <<>> /\ \/ t = Pair(s[Last(b)]) /\ MayClose(s, Last(b))
                 \/ IsItems(s, Last(b)) /\ t = ","
                 \/ IsIndex(s, Last(b)) /\ ~HasColon(s, Last(b), Len(s) + 1) /\ t = ":"
  \/ t \in Assignments /\ Name(s, Last(g))
  \/ t = "=" /\ Element(s, b, g)

LEMMA MayFollowIs ==
  ASSUME NEW S, NEW s \in Seq(S), NEW b \in Seq(Nat), NEW g \in Seq(Nat), Marks(s, b, g), NEW t
  PROVE  /\ s # <<>> /\ Last(s) = "." => (MayFollow(s, t) <=> t = "name")
         /\ ~(s # <<>> /\ Last(s) = ".") /\ AwaitsOperand(s) =>
              (MayFollow(s, t) <=> t \in {"literal", "name", "not", "-", "(", "["} \/ ~NotSpecial(s, b, t))
         /\ ~(s # <<>> /\ Last(s) = ".") /\ ~AwaitsOperand(s) => (MayFollow(s, t) <=> InMiddle(s, b, g, t))
<1> DEFINE i == Innermost(s)
           place == SubSeq(s, Begins(s), Len(s))
<1>1. Nested(s, b) /\ Begun(s, b, g)
  BY DEF Marks
<1>2. place = Present(s, g)
  BY <1>1, BeginsIs, Zenon DEF Present
<1>3. (IsName(place) <=> Name(s, Last(g))) /\ (IsElement(place) <=> Element(s, b, g))
  BY <1>1, <1>2, NameIs, ElementIs, Zenon
<1>4. /\ b = <<>> => i = 0
      /\ b # <<>> => i = Last(b) /\ i > 0
  <2>1. b # <<>> => i = Last(b) /\ i \in 1 .. Len(s)
    BY <1>1, InnermostIs, Zenon
  <2>2. i \in 1 .. Len(s) => i > 0
    OBVIOUS
  <2> QED
    BY <1>1, <2>1, <2>2, InnermostIs, Zenon
<1>5. ~(0 > 0)
  OBVIOUS
<1>6. MayFollow(s, t) <=>
        IF s # <<>> /\ Last(s) = "."
          THEN t = "name"
        ELSE IF AwaitsOperand(s)
          THEN \/ t \in {"literal", "name", "not", "-", "(", "["}
               \/ /\ i > 0 /\ IsItems(s, i) /\ t = Pair(s[i]) /\ Last(s) \in {s[i], ","}
                  /\ MayClose(s, i)
               \/ i > 0 /\ IsIndex(s, i) /\ i = Len(s) /\ t = ":"
               \/ i > 0 /\ IsIndex(s, i) /\ Last(s) = ":" /\ t = "]"
          ELSE \/ t \in BinaryTokens \cup {"(", "[", "."}
               \/ i = 0 /\ t = Semicolon
               \/ i > 0 /\ t = Pair(s[i]) /\ MayClose(s, i)
               \/ i > 0 /\ IsItems(s, i) /\ t = ","
               \/ i > 0 /\ IsIndex(s, i) /\ ~HasColon(s, i, Len(s) + 1) /\ t = ":"
               \/ t \in Assignments /\ IsName(place)
               \/ t = "=" /\ IsElement(place)
  BY Zenon DEF MayFollow
<1> HIDE DEF i, place
<1>7. NotSpecial(s, b, t) <=>
        ~ \/ i > 0 /\ IsItems(s, i) /\ t = Pair(s[i]) /\ Last(s) \in {s[i], ","} /\ MayClose(s, i)
          \/ i > 0 /\ IsIndex(s, i) /\ i = Len(s) /\ t = ":"
          \/ i > 0 /\ IsIndex(s, i) /\ Last(s) = ":" /\ t = "]"
  <2>1. CASE b = <<>>
    BY <1>4, <1>5, <2>1 DEF NotSpecial
  <2>2. CASE b # <<>>
    BY <1>4, <2>2 DEF NotSpecial
  <2> QED
    BY <2>1, <2>2
<1>8. InMiddle(s, b, g, t) <=>
        \/ t \in BinaryTokens \cup {"(", "[", "."}
        \/ i = 0 /\ t = Semicolon
        \/ i > 0 /\ t = Pair(s[i]) /\ MayClose(s, i)
        \/ i > 0 /\ IsItems(s, i) /\ t = ","
        \/ i > 0 /\ IsIndex(s, i) /\ ~HasColon(s, i, Len(s) + 1) /\ t = ":"
        \/ t \in Assignments /\ IsName(place)
        \/ t = "=" /\ IsElement(place)
  <2>1. CASE b = <<>>
    <3>1. i = 0 /\ ~(i > 0)
      BY <1>4, <1>5, <2>1
    <3> QED
      BY <1>3, <2>1, <3>1, Zenon DEF InMiddle
  <2>2. CASE b # <<>>
    <3>1. i # 0 /\ i > 0 /\ i = Last(b)
      BY <1>4, <1>5, <2>2
    <3> QED
      BY <1>3, <2>2, <3>1, Zenon DEF InMiddle
  <2> QED
    BY <2>1, <2>2
<1> QED
  BY <1>6, <1>7, <1>8, Zenon
-----------------------------------------------------------------------------
(* The marks when a token is read.                                         *)

\* b2 is b with the bracket t, or without the one it closes.
Brackets2(s, t, b, b2) ==
  /\ Len(b2) = Len(b) + Turn(t)
  /\ \A j \in DOMAIN b2 : \/ j <= Len(b) /\ b2[j] = b[j]
                          \/ j = Len(b) + 1 /\ b2[j] = Len(s) + 1 /\ t \in Opening

\* g2 is g with the mark that t sets, or without the one it removes.
Marks2(s, t, b, b2, g, g2) ==
  /\ Len(g2) = Len(b2) + 1
  /\ \A j \in DOMAIN g2 :
       \/ j <= Len(b) + 1 /\ g2[j] = g[j] /\ (t \in Separators => j # Len(b) + 1)
       \/ j = Len(b) + 1 /\ g2[j] = Len(s) + 1 /\ t \in Separators
       \/ j = Len(b) + 2 /\ g2[j] = Len(s) + 1 /\ t \in Opening

LEMMA TurnIs ==
  ASSUME NEW t
  PROVE  /\ Turn(t) \in {-1, 0, 1}
         /\ t \in Opening => Turn(t) = 1
         /\ t \in Closing => Turn(t) = -1
         /\ t \notin Opening \cup Closing => Turn(t) = 0
         /\ t \in Separators => Turn(t) = 0
BY Disjoint DEF Turn

LEMMA UpTo ==
  ASSUME NEW n \in Nat, NEW x \in Nat, NEW k \in x + 1 .. n + 1
  PROVE  k = n + 1 \/ (k \in x + 1 .. n /\ k \in 1 .. n /\ k \in 1 .. n + 1)
OBVIOUS

LEMMA NestedKept ==
  ASSUME NEW S, NEW s \in Seq(S), NEW t \in S, NEW b \in Seq(Nat), NEW b2 \in Seq(Nat),
         Nested(s, b), Brackets2(s, t, b, b2)
  PROVE  Nested(Append(s, t), b2)
<1> DEFINE r == Append(s, t)
<1>1. /\ r \in Seq(S) /\ Len(r) = Len(s) + 1 /\ r[Len(s) + 1] = t /\ Len(s) \in Nat
      /\ \A i \in 1 .. Len(s) + 1 : Depth(r, i) = Depth(s, i)
      /\ \A i \in 1 .. Len(s) : Level(r, i) = Level(s, i) /\ r[i] = s[i]
      /\ Depth(r, Len(s) + 2) = Depth(s, Len(s) + 1) + Turn(t)
      /\ Level(r, Len(s) + 1) = Depth(s, Len(s) + 1) - (IF t \in Closing THEN 1 ELSE 0)
  BY AppendIs, AgreeAppend
<1> HIDE DEF r
<1>2. Depth(s, Len(s) + 1) = Len(b) /\ Len(b) \in Nat /\ DOMAIN b = 1 .. Len(b)
      /\ DOMAIN b2 = 1 .. Len(b2) /\ Len(b2) \in Nat /\ Len(b2) = Len(b) + Turn(t)
  BY DEF Nested, Brackets2
<1>3. Depth(r, Len(r) + 1) = Len(b2)
  <2>1. Len(r) + 1 = Len(s) + 2
    BY <1>1
  <2> QED
    BY <1>1, <1>2, <2>1
<1>4. ASSUME NEW j \in DOMAIN b2
      PROVE  /\ b2[j] \in 1 .. Len(r) /\ r[b2[j]] \in Opening /\ Depth(r, b2[j]) = j - 1
             /\ \A k \in b2[j] + 1 .. Len(r) : Level(r, k) >= j
  <2>1. CASE j <= Len(b) /\ b2[j] = b[j]
    <3>1. j \in DOMAIN b
      BY <1>2, <2>1
    <3>2. /\ b[j] \in 1 .. Len(s) /\ s[b[j]] \in Opening /\ Depth(s, b[j]) = j - 1
          /\ \A k \in b[j] + 1 .. Len(s) : Level(s, k) >= j
      BY <3>1 DEF Nested
    <3>3. b[j] \in 1 .. Len(r) /\ b[j] \in 1 .. Len(s) + 1
      BY <1>1, <3>2
    <3>4. r[b[j]] \in Opening /\ Depth(r, b[j]) = j - 1
      BY <1>1, <3>2, <3>3
    <3>5. Level(r, Len(s) + 1) >= j
      <4>1. t \in Closing => j <= Len(b) - 1
        BY <1>2, TurnIs
      <4> QED
        BY <1>1, <1>2, <2>1, <4>1
    <3>6. ASSUME NEW k \in b[j] + 1 .. Len(r) PROVE Level(r, k) >= j
      <4>1. CASE k = Len(s) + 1
        BY <3>5, <4>1
      <4>2. CASE k # Len(s) + 1
        <5>1. k \in b[j] + 1 .. Len(s) /\ k \in 1 .. Len(s)
          <6>1. b[j] \in Nat /\ Len(s) \in Nat /\ k \in b[j] + 1 .. Len(s) + 1
            BY <1>1, <3>2
          <6> QED
            BY <4>2, <6>1, UpTo
        <5> QED
          BY <1>1, <3>2, <5>1
      <4> QED
        BY <4>1, <4>2
    <3> QED
      BY <2>1, <3>3, <3>4, <3>6
  <2>2. CASE j = Len(b) + 1 /\ b2[j] = Len(s) + 1 /\ t \in Opening
    <3>1. Len(s) + 1 \in 1 .. Len(r) /\ Len(s) + 1 \in 1 .. Len(s) + 1
      BY <1>1
    <3>2. Depth(r, Len(s) + 1) = j - 1
      BY <1>1, <1>2, <2>2, <3>1
    <3>3. \A k \in b2[j] + 1 .. Len(r) : FALSE
      BY <1>1, <2>2
    <3> QED
      BY <1>1, <2>2, <3>1, <3>2, <3>3
  <2> QED
    BY <2>1, <2>2 DEF Brackets2
<1> QED
  BY <1>3, <1>4 DEF Nested, r

LEMMA BegunKept ==
  ASSUME NEW S, NEW s \in Seq(S), NEW t \in S, NEW b \in Seq(Nat), NEW b2 \in Seq(Nat),
         NEW g \in Seq(Nat), NEW g2 \in Seq(Nat),
         Nested(s, b), Begun(s, b, g), Brackets2(s, t, b, b2), Marks2(s, t, b, b2, g, g2)
  PROVE  Begun(Append(s, t), b2, g2)
<1> DEFINE r == Append(s, t)
<1>1. /\ r \in Seq(S) /\ Len(r) = Len(s) + 1 /\ r[Len(s) + 1] = t /\ Len(s) \in Nat
      /\ \A i \in 1 .. Len(s) + 1 : Depth(r, i) = Depth(s, i)
      /\ \A i \in 1 .. Len(s) : r[i] = s[i]
  BY AppendIs, AgreeAppend
<1> HIDE DEF r
<1>2. /\ Depth(s, Len(s) + 1) = Len(b) /\ Len(b) \in Nat /\ DOMAIN b = 1 .. Len(b)
      /\ Len(b2) \in Nat /\ DOMAIN b2 = 1 .. Len(b2) /\ Len(b2) = Len(b) + Turn(t)
      /\ Len(g) = Len(b) + 1 /\ DOMAIN g = 1 .. Len(b) + 1
      /\ Len(g2) = Len(b2) + 1 /\ DOMAIN g2 = 1 .. Len(b2) + 1
      /\ \A j \in 1 .. Len(b) : b[j] \in 1 .. Len(s)
  <2>1. Depth(s, Len(s) + 1) = Len(b) /\ \A j \in DOMAIN b : b[j] \in 1 .. Len(s)
    BY Zenon DEF Nested
  <2>2. Len(g) = Len(b) + 1 /\ Len(b2) = Len(b) + Turn(t) /\ Len(g2) = Len(b2) + 1
    BY Zenon DEF Begun, Brackets2, Marks2
  <2>3. Len(b) \in Nat /\ DOMAIN b = 1 .. Len(b) /\ Len(b2) \in Nat /\ DOMAIN b2 = 1 .. Len(b2)
        /\ DOMAIN g = 1 .. Len(g) /\ DOMAIN g2 = 1 .. Len(g2)
    OBVIOUS
  <2> QED
    BY <2>1, <2>2, <2>3, Zenon
<1>3. Depth(r, Len(s) + 1) = Len(b)
  <2>1. Len(s) + 1 \in 1 .. Len(s) + 1
    BY <1>1
  <2> QED
    BY <1>1, <1>2, <2>1
<1>4. \A j \in DOMAIN b2 : j <= Len(b) => b2[j] = b[j]
  BY <1>2 DEF Brackets2
<1>5. ASSUME NEW j \in DOMAIN g2, j <= Len(b) + 1, g2[j] = g[j], t \in Separators => j # Len(b) + 1
      PROVE  /\ g2[j] \in 0 .. Len(r)
             /\ BeginsAt(r, b2, j, g2[j])
             /\ j > 1 => b2[j - 1] <= g2[j]
             /\ j <= Len(b2) => g2[j] < b2[j]
             /\ \A k \in g2[j] + 1 .. Len(r) : r[k] \in Separators => Depth(r, k) # j - 1
  <2>1. j \in DOMAIN g /\ j \in Nat /\ j >= 1
    BY <1>2, <1>5
  <2>2. /\ g[j] \in 0 .. Len(s) /\ BeginsAt(s, b, j, g[j])
        /\ j > 1 => b[j - 1] <= g[j]
        /\ j <= Len(b) => g[j] < b[j]
        /\ \A k \in g[j] + 1 .. Len(s) : s[k] \in Separators => Depth(s, k) # j - 1
    BY <2>1, Zenon DEF Begun
  <2>3. g2[j] \in 0 .. Len(r)
    BY <1>1, <1>5, <2>2
  <2>4. j > 1 => b2[j - 1] = b[j - 1]
    <3>1. j > 1 => j - 1 \in DOMAIN b2 /\ j - 1 <= Len(b)
      <4>1. j \in 1 .. Len(b2) + 1 /\ Len(b2) \in Nat /\ Len(b) \in Nat
        BY <1>2
      <4>2. j > 1 => j - 1 \in 1 .. Len(b2)
        BY <4>1
      <4> QED
        BY <1>2, <1>5, <2>1, <4>1, <4>2
    <3> QED
      BY <1>4, <3>1
  <2>5. BeginsAt(r, b2, j, g2[j])
    <3>1. g[j] > 0 => g[j] \in 1 .. Len(s) /\ g[j] \in 1 .. Len(s) + 1
      BY <1>1, <2>2
    <3>2. g[j] > 0 => r[g[j]] = s[g[j]] /\ Depth(r, g[j]) = Depth(s, g[j])
      BY <1>1, <3>1
    <3> QED
      BY <1>5, <2>2, <2>4, <3>2 DEF BeginsAt
  <2>6. j <= Len(b2) => g2[j] < b2[j]
    <3> SUFFICES ASSUME j <= Len(b2) PROVE g[j] < b2[j]
      BY <1>5
    <3>1. j \in DOMAIN b2
      BY <1>2, <2>1
    <3>2. CASE j <= Len(b)
      BY <1>4, <2>2, <3>1, <3>2
    <3>3. CASE ~(j <= Len(b))
      <4>1. b2[j] = Len(s) + 1
        BY <3>1, <3>3 DEF Brackets2
      <4> QED
        <5>1. g[j] \in 0 .. Len(s) /\ Len(s) \in Nat
          BY <1>1, <2>2
        <5> QED
          BY <4>1, <5>1
    <3> QED
      BY <3>2, <3>3
  <2>7. ASSUME NEW k \in g2[j] + 1 .. Len(r), r[k] \in Separators PROVE Depth(r, k) # j - 1
    <3>1. CASE k = Len(s) + 1
      <4>1. j # Len(b) + 1
        BY <1>1, <1>5, <2>7, <3>1
      <4> QED
        BY <1>2, <1>3, <2>1, <3>1, <4>1, SMTT(30)
    <3>2. CASE k # Len(s) + 1
      <4>1. k \in g[j] + 1 .. Len(s) /\ k \in 1 .. Len(s) /\ k \in 1 .. Len(s) + 1
        <5>1. g[j] \in Nat /\ Len(s) \in Nat /\ k \in g[j] + 1 .. Len(s) + 1
          BY <1>1, <1>5, <2>2, SMTT(30)
        <5> QED
          BY <3>2, <5>1, UpTo
      <4> QED
        BY <1>1, <2>2, <2>7, <4>1
    <3> QED
      BY <3>1, <3>2
  <2> QED
    BY <1>5, <2>2, <2>3, <2>4, <2>5, <2>6, <2>7
<1>6. ASSUME NEW j \in DOMAIN g2, g2[j] = Len(s) + 1,
             (j = Len(b) + 1 /\ t \in Separators) \/ (j = Len(b) + 2 /\ t \in Opening)
      PROVE  /\ g2[j] \in 0 .. Len(r)
             /\ BeginsAt(r, b2, j, g2[j])
             /\ j > 1 => b2[j - 1] <= g2[j]
             /\ j <= Len(b2) => g2[j] < b2[j]
             /\ \A k \in g2[j] + 1 .. Len(r) : r[k] \in Separators => Depth(r, k) # j - 1
  <2>1. g2[j] \in 0 .. Len(r) /\ \A k \in g2[j] + 1 .. Len(r) : FALSE
    BY <1>1, <1>6
  <2>2. ~(j <= Len(b2))
    <3>1. CASE j = Len(b) + 1 /\ t \in Separators
      <4>1. Turn(t) = 0
        BY <3>1, TurnIs
      <4> QED
        BY <1>2, <3>1, <4>1
    <3>2. CASE j = Len(b) + 2 /\ t \in Opening
      <4>1. Turn(t) = 1
        BY <3>2, TurnIs
      <4> QED
        BY <1>2, <3>2, <4>1
    <3> QED
      BY <1>6, <3>1, <3>2
  <2>3. CASE j = Len(b) + 1 /\ t \in Separators
    <3>1. g2[j] > 0 /\ r[g2[j]] \in Separators /\ Depth(r, g2[j]) = j - 1
      BY <1>1, <1>2, <1>3, <1>6, <2>3, SMTT(30)
    <3>2. ASSUME j > 1 PROVE b2[j - 1] <= g2[j]
      <4>1. j - 1 \in DOMAIN b2 /\ j - 1 <= Len(b) /\ j - 1 \in 1 .. Len(b)
        BY <1>2, <2>3, <3>2, TurnIs
      <4>2. b2[j - 1] \in 1 .. Len(s)
        BY <1>2, <1>4, <4>1
      <4> QED
        BY <1>1, <1>6, <4>2
    <3> QED
      BY <2>1, <2>2, <3>1, <3>2 DEF BeginsAt
  <2>4. CASE j = Len(b) + 2 /\ t \in Opening
    <3>1. j - 1 \in DOMAIN b2 /\ j - 1 = Len(b) + 1 /\ j > 1
      BY <1>2, <2>4, TurnIs, SMTT(30)
    <3>2. b2[j - 1] = Len(s) + 1
      BY <1>2, <3>1 DEF Brackets2
    <3> QED
      BY <1>1, <1>6, <2>1, <2>2, <3>1, <3>2 DEF BeginsAt
  <2> QED
    BY <1>6, <2>3, <2>4
<1>7. ASSUME NEW j \in DOMAIN g2
      PROVE  /\ g2[j] \in 0 .. Len(r)
             /\ BeginsAt(r, b2, j, g2[j])
             /\ j > 1 => b2[j - 1] <= g2[j]
             /\ j <= Len(b2) => g2[j] < b2[j]
             /\ \A k \in g2[j] + 1 .. Len(r) : r[k] \in Separators => Depth(r, k) # j - 1
  <2>1. \/ j <= Len(b) + 1 /\ g2[j] = g[j] /\ (t \in Separators => j # Len(b) + 1)
        \/ j = Len(b) + 1 /\ g2[j] = Len(s) + 1 /\ t \in Separators
        \/ j = Len(b) + 2 /\ g2[j] = Len(s) + 1 /\ t \in Opening
    BY Zenon DEF Marks2
  <2>2. CASE j <= Len(b) + 1 /\ g2[j] = g[j] /\ (t \in Separators => j # Len(b) + 1)
    BY <1>5, <2>2
  <2>3. CASE j = Len(b) + 1 /\ g2[j] = Len(s) + 1 /\ t \in Separators
    BY <1>6, <2>3
  <2>4. CASE j = Len(b) + 2 /\ g2[j] = Len(s) + 1 /\ t \in Opening
    BY <1>6, <2>4
  <2> QED
    BY <2>1, <2>2, <2>3, <2>4
<1> QED
  BY <1>2, <1>7, Zenon DEF Begun, r
-----------------------------------------------------------------------------
LEMMA ClosedKept ==
  ASSUME NEW S, NEW s \in Seq(S), NEW t \in S, NEW b \in Seq(Nat), NEW b2 \in Seq(Nat),
         NEW g \in Seq(Nat), NEW g2 \in Seq(Nat),
         Nested(s, b), Begun(s, b, g), Brackets2(s, t, b, b2), Marks2(s, t, b, b2, g, g2),
         t \in Closing => b # <<>>
  PROVE  /\ Closed(Append(s, t), g2)
         /\ t \in Closing => ClosedAt(Append(s, t), Last(b))
<1> DEFINE r == Append(s, t)
           n == Len(b)
           m == b[n]
<1>1. /\ r \in Seq(S) /\ Len(r) = Len(s) + 1 /\ r[Len(s) + 1] = t /\ Len(s) \in Nat /\ Last(r) = t
      /\ \A i \in 1 .. Len(s) : Level(r, i) = Level(s, i) /\ r[i] = s[i]
      /\ Level(r, Len(s) + 1) = Depth(s, Len(s) + 1) - (IF t \in Closing THEN 1 ELSE 0)
  BY AppendIs, AgreeAppend, SMTT(30)
<1>2. t \notin Closing => Closed(r, g2)
  BY <1>1, Zenon DEF Closed
<1>3. ASSUME t \in Closing PROVE Closed(r, g2) /\ ClosedAt(r, Last(b))
  <2>1. n \in Nat /\ n >= 1 /\ n \in DOMAIN b /\ Last(b) = m
    BY <1>3 DEF Last
  <2>2. /\ m \in 1 .. Len(s) /\ s[m] \in Opening /\ Depth(s, m) = n - 1 /\ Depth(s, Len(s) + 1) = n
        /\ \A k \in m + 1 .. Len(s) : Level(s, k) >= n
    BY <2>1 DEF Nested
  <2> HIDE DEF r, n, m
  <2>3. Level(s, m) = n - 1
    <3>1. m \in Nat \ {0}
      BY <2>2
    <3>2. Level(s, m) = Depth(s, m) - (IF s[m] \in Closing THEN 1 ELSE 0)
      BY <3>1, DepthNext
    <3>3. s[m] \notin Closing
      BY <2>2, Disjoint
    <3> QED
      BY <2>1, <2>2, <3>2, <3>3
  <2>4. Level(r, Len(r)) = n - 1
    BY <1>1, <1>3, <2>2
  <2>5. m \in 1 .. Len(r) - 1 /\ r[m] \in Opening /\ Level(r, m) = Level(r, Len(r))
    BY <1>1, <2>2, <2>3, <2>4
  <2>6. ASSUME NEW k \in m + 1 .. Len(r) - 1 PROVE Level(r, k) # Level(r, Len(r))
    <3>1. k \in m + 1 .. Len(s) /\ k \in 1 .. Len(s)
      BY <1>1, <2>2
    <3> QED
      BY <1>1, <2>1, <2>2, <2>4, <3>1
  <2>7. ClosedAt(r, m)
    BY <2>5, <2>6 DEF ClosedAt
  <2>8. Last(g2) < m /\ Last(g2) \in Nat
    <3>1. Len(b2) = n - 1 /\ Len(g2) = n
      BY <1>3, <2>1, TurnIs DEF Brackets2, Marks2, n
    <3>2. n \in DOMAIN g2 /\ Last(g2) = g2[n]
      BY <2>1, <3>1 DEF Last
    <3>3. g2[n] = g[n]
      <4>1. \/ n <= Len(b) + 1 /\ g2[n] = g[n] /\ (t \in Separators => n # Len(b) + 1)
            \/ n = Len(b) + 1 /\ g2[n] = Len(s) + 1 /\ t \in Separators
            \/ n = Len(b) + 2 /\ g2[n] = Len(s) + 1 /\ t \in Opening
        BY <3>2, Zenon DEF Marks2
      <4>2. n # Len(b) + 1 /\ n # Len(b) + 2
        BY <2>1 DEF n
      <4> QED
        BY <4>1, <4>2
    <3>4. n \in DOMAIN g
      BY <2>1 DEF Begun, n
    <3>5. g[n] < b[n] /\ g[n] \in Nat
      BY <2>1, <3>4 DEF Begun, n
    <3> QED
      BY <3>2, <3>3, <3>5 DEF m
  <2>9. m \in Last(g2) + 1 .. Len(r)
    BY <1>1, <2>2, <2>8
  <2> QED
    BY <2>1, <2>7, <2>9 DEF Closed
<1> QED
  BY <1>2, <1>3

LEMMA MarksKept ==
  ASSUME NEW S, NEW s \in Seq(S), NEW t \in S, NEW b \in Seq(Nat), NEW b2 \in Seq(Nat),
         NEW g \in Seq(Nat), NEW g2 \in Seq(Nat), Marks(s, b, g),
         Brackets2(s, t, b, b2), Marks2(s, t, b, b2, g, g2), t \in Closing => b # <<>>
  PROVE  /\ Marks(Append(s, t), b2, g2)
         /\ t \in Closing => ClosedAt(Append(s, t), Last(b))
<1>1. Nested(s, b) /\ Begun(s, b, g)
  BY DEF Marks
<1> QED
  BY <1>1, NestedKept, BegunKept, ClosedKept DEF Marks

LEMMA MarksNumbers ==
  ASSUME NEW S, NEW s \in Seq(S), NEW b \in Seq(Nat), NEW g \in Seq(Nat), Marks(s, b, g)
  PROVE  /\ Len(s) \in Nat /\ Len(b) \in Nat /\ DOMAIN b = 1 .. Len(b) /\ (b = <<>> <=> Len(b) = 0)
         /\ Len(g) = Len(b) + 1 /\ DOMAIN g = 1 .. Len(b) + 1 /\ Last(g) = g[Len(b) + 1]
         /\ \A j \in 1 .. Len(b) + 1 : g[j] \in 0 .. Len(s)
         /\ \A j \in 1 .. Len(b) : /\ b[j] \in 1 .. Len(s) /\ s[b[j]] \in Opening
                                   /\ Depth(s, b[j]) = j - 1 /\ Level(s, b[j]) = j - 1
         /\ Depth(s, Len(s) + 1) = Len(b)
         /\ Last(b) = b[Len(b)]
<1>1. Nested(s, b) /\ Begun(s, b, g)
  BY DEF Marks
<1>2. /\ Len(s) \in Nat /\ Len(b) \in Nat /\ DOMAIN b = 1 .. Len(b) /\ (b = <<>> <=> Len(b) = 0)
      /\ DOMAIN g = 1 .. Len(g)
  OBVIOUS
<1>3. Len(g) = Len(b) + 1
  BY <1>1, Zenon DEF Begun
<1>4. Last(g) = g[Len(b) + 1] /\ Last(b) = b[Len(b)]
  BY <1>3 DEF Last
<1>5. \A j \in 1 .. Len(b) + 1 : g[j] \in 0 .. Len(s)
  BY <1>1, <1>2, <1>3, Zenon DEF Begun
<1>6. ASSUME NEW j \in 1 .. Len(b)
      PROVE  b[j] \in 1 .. Len(s) /\ s[b[j]] \in Opening /\ Depth(s, b[j]) = j - 1 /\ Level(s, b[j]) = j - 1
  <2>1. b[j] \in 1 .. Len(s) /\ s[b[j]] \in Opening /\ Depth(s, b[j]) = j - 1
    BY <1>1, <1>2 DEF Nested
  <2>2. b[j] \in Nat \ {0}
    BY <2>1
  <2>3. Level(s, b[j]) = Depth(s, b[j]) - (IF s[b[j]] \in Closing THEN 1 ELSE 0) /\ Depth(s, b[j]) \in Int
    BY <2>2, DepthNext
  <2>4. s[b[j]] \notin Closing
    BY <2>1, Disjoint
  <2> QED
    BY <2>1, <2>3, <2>4
<1>7. Depth(s, Len(s) + 1) = Len(b)
  BY <1>1 DEF Nested
<1> QED
  BY <1>2, <1>3, <1>4, <1>5, <1>6, <1>7

LEMMA MarksNeutral ==
  ASSUME NEW S, NEW s \in Seq(S), NEW t \in S, NEW b \in Seq(Nat), NEW g \in Seq(Nat), Marks(s, b, g),
         t \notin Opening \cup Closing \cup Separators
  PROVE  Marks(Append(s, t), b, g)
<1>1. /\ Len(b) \in Nat /\ DOMAIN b = 1 .. Len(b)
      /\ Len(g) = Len(b) + 1 /\ DOMAIN g = 1 .. Len(b) + 1
  BY MarksNumbers
<1>2. Turn(t) = 0
  BY TurnIs
<1>3. Brackets2(s, t, b, b)
  BY <1>1, <1>2 DEF Brackets2
<1>4. Marks2(s, t, b, b, g, g)
  BY <1>1, <1>2 DEF Marks2
<1> QED
  BY <1>3, <1>4, MarksKept

LEMMA MarksSeparate ==
  ASSUME NEW S, NEW s \in Seq(S), NEW t \in S, NEW b \in Seq(Nat), NEW g \in Seq(Nat), Marks(s, b, g),
         t \in Separators
  PROVE  \E g2 \in Seq(Nat) : /\ Marks(Append(s, t), b, g2)
                              /\ Last(g2) = Len(s) + 1
                              /\ \A j \in 1 .. Len(b) : g2[j] = g[j]
<1>1. /\ Len(b) \in Nat /\ DOMAIN b = 1 .. Len(b) /\ Len(s) \in Nat
      /\ Len(g) = Len(b) + 1 /\ DOMAIN g = 1 .. Len(b) + 1
  BY MarksNumbers
<1>2. Turn(t) = 0
  BY TurnIs
<1>3. Brackets2(s, t, b, b)
  BY <1>1, <1>2 DEF Brackets2
<1> DEFINE g2 == [g EXCEPT ![Len(b) + 1] = Len(s) + 1]
<1>4. /\ g2 \in Seq(Nat) /\ Len(g2) = Len(b) + 1 /\ DOMAIN g2 = 1 .. Len(b) + 1
      /\ g2[Len(b) + 1] = Len(s) + 1 /\ \A j \in 1 .. Len(b) : g2[j] = g[j]
  <2>1. Len(b) + 1 \in 1 .. Len(g) /\ Len(s) + 1 \in Nat
    BY <1>1
  <2>2. g2 \in Seq(Nat) /\ Len(g2) = Len(g)
    BY <2>1, ExceptSeq
  <2>3. \A j \in 1 .. Len(b) : j \in DOMAIN g /\ j # Len(b) + 1
    BY <1>1
  <2> QED
    BY <1>1, <2>1, <2>2, <2>3
<1> HIDE DEF g2
<1>5. Marks2(s, t, b, b, g, g2)
  <2>1. ASSUME NEW j \in DOMAIN g2
        PROVE  \/ j <= Len(b) + 1 /\ g2[j] = g[j] /\ (t \in Separators => j # Len(b) + 1)
               \/ j = Len(b) + 1 /\ g2[j] = Len(s) + 1 /\ t \in Separators
    <3>1. j \in 1 .. Len(b) \/ j = Len(b) + 1
      BY <1>1, <1>4
    <3> QED
      BY <1>1, <1>4, <3>1
  <2> QED
    BY <1>1, <1>4, <2>1 DEF Marks2
<1>6. Last(g2) = Len(s) + 1
  BY <1>4 DEF Last
<1>7. Marks(Append(s, t), b, g2)
  <2>1. t \notin Closing
    BY Disjoint
  <2> QED
    BY <1>3, <1>4, <1>5, <2>1, MarksKept
<1> QED
  BY <1>4, <1>6, <1>7

\* One more bracket is open, at the end of s, and a part begins behind it.
Grown(s, b, g, b2, g2) ==
  /\ Len(b2) = Len(b) + 1 /\ b2[Len(b) + 1] = Len(s) + 1 /\ Last(b2) = Len(s) + 1
  /\ Last(g2) = Len(s) + 1
  /\ \A j \in 1 .. Len(b) : b2[j] = b[j]
  /\ \A j \in 1 .. Len(b) + 1 : g2[j] = g[j]

LEMMA MarksOpen ==
  ASSUME NEW S, NEW s \in Seq(S), NEW t \in S, NEW b \in Seq(Nat), NEW g \in Seq(Nat), Marks(s, b, g),
         t \in Opening
  PROVE  \E b2 \in Seq(Nat), g2 \in Seq(Nat) :
           Marks(Append(s, t), b2, g2) /\ Grown(s, b, g, b2, g2)
<1>1. /\ Len(b) \in Nat /\ DOMAIN b = 1 .. Len(b) /\ Len(s) \in Nat
      /\ Len(g) = Len(b) + 1 /\ DOMAIN g = 1 .. Len(b) + 1
  BY MarksNumbers
<1>2. Turn(t) = 1 /\ t \notin Separators /\ t \notin Closing
  BY TurnIs, Disjoint
<1> DEFINE b2 == Append(b, Len(s) + 1)
           g2 == Append(g, Len(s) + 1)
<1>3. /\ b2 \in Seq(Nat) /\ Len(b2) = Len(b) + 1 /\ DOMAIN b2 = 1 .. Len(b) + 1
      /\ b2[Len(b) + 1] = Len(s) + 1 /\ Last(b2) = Len(s) + 1 /\ \A j \in 1 .. Len(b) : b2[j] = b[j]
  <2>1. Len(s) + 1 \in Nat
    BY <1>1
  <2> QED
    BY <2>1, AppendIs
<1>4. /\ g2 \in Seq(Nat) /\ Len(g2) = Len(b) + 2 /\ DOMAIN g2 = 1 .. Len(b) + 2
      /\ g2[Len(b) + 2] = Len(s) + 1 /\ Last(g2) = Len(s) + 1 /\ \A j \in 1 .. Len(b) + 1 : g2[j] = g[j]
  <2>1. Len(s) + 1 \in Nat /\ (Len(b) + 1) + 1 = Len(b) + 2
    BY <1>1
  <2> QED
    BY <1>1, <2>1, AppendIs
<1> HIDE DEF b2, g2
<1>5. Brackets2(s, t, b, b2)
  <2>1. ASSUME NEW j \in DOMAIN b2 PROVE (j <= Len(b) /\ b2[j] = b[j]) \/ (j = Len(b) + 1 /\ b2[j] = Len(s) + 1)
    <3>1. j \in 1 .. Len(b) \/ j = Len(b) + 1
      BY <1>1, <1>3
    <3> QED
      BY <1>1, <1>3, <3>1
  <2> QED
    BY <1>2, <1>3, <2>1 DEF Brackets2
<1>6. Marks2(s, t, b, b2, g, g2)
  <2>1. ASSUME NEW j \in DOMAIN g2
        PROVE (j <= Len(b) + 1 /\ g2[j] = g[j]) \/ (j = Len(b) + 2 /\ g2[j] = Len(s) + 1)
    <3>1. j \in 1 .. Len(b) + 1 \/ j = Len(b) + 2
      BY <1>1, <1>4
    <3> QED
      BY <1>1, <1>4, <3>1
  <2>2. Len(g2) = Len(b2) + 1
    BY <1>1, <1>3, <1>4
  <2> QED
    BY <1>2, <2>1, <2>2 DEF Marks2
<1>7. Marks(Append(s, t), b2, g2)
  BY <1>2, <1>3, <1>4, <1>5, <1>6, MarksKept
<1>8. Grown(s, b, g, b2, g2)
  BY <1>3, <1>4 DEF Grown
<1> QED
  BY <1>3, <1>4, <1>7, <1>8

LEMMA MarksClose ==
  ASSUME NEW S, NEW s \in Seq(S), NEW t \in S, NEW b \in Seq(Nat), NEW g \in Seq(Nat), Marks(s, b, g),
         t \in Closing, b # <<>>
  PROVE  \E b2 \in Seq(Nat), g2 \in Seq(Nat) :
           /\ Marks(Append(s, t), b2, g2) /\ ClosedAt(Append(s, t), Last(b))
           /\ Len(b2) = Len(b) - 1
           /\ Last(g2) = g[Len(b)]
           /\ \A j \in 1 .. Len(b) - 1 : b2[j] = b[j]
           /\ \A j \in 1 .. Len(b) : g2[j] = g[j]
<1>1. /\ Len(b) \in Nat /\ DOMAIN b = 1 .. Len(b) /\ Len(s) \in Nat /\ Len(b) # 0
      /\ Len(g) = Len(b) + 1 /\ DOMAIN g = 1 .. Len(b) + 1 /\ g # <<>>
  <2>1. /\ Len(b) \in Nat /\ DOMAIN b = 1 .. Len(b) /\ Len(s) \in Nat /\ Len(b) # 0
        /\ Len(g) = Len(b) + 1 /\ DOMAIN g = 1 .. Len(b) + 1
    BY MarksNumbers
  <2> QED
    BY <2>1
<1>2. Turn(t) = -1 /\ t \notin Separators
  BY TurnIs, Disjoint
<1> DEFINE b2 == Front(b)
           g2 == Front(g)
<1>3. /\ b2 \in Seq(Nat) /\ Len(b2) = Len(b) - 1 /\ DOMAIN b2 = 1 .. Len(b) - 1
      /\ \A j \in 1 .. Len(b) - 1 : b2[j] = b[j]
  <2>1. b2 \in Seq(Nat) /\ Len(b2) = Len(b) - 1 /\ \A j \in 1 .. Len(b) - 1 : b2[j] = b[j]
    BY FrontIs
  <2> QED
    BY <2>1
<1>4. /\ g2 \in Seq(Nat) /\ Len(g2) = Len(b) /\ DOMAIN g2 = 1 .. Len(b)
      /\ Last(g2) = g[Len(b)] /\ \A j \in 1 .. Len(b) : g2[j] = g[j]
  <2>1. g2 \in Seq(Nat) /\ Len(g2) = Len(g) - 1 /\ \A j \in 1 .. Len(g) - 1 : g2[j] = g[j]
    BY <1>1, FrontIs
  <2>2. Len(g) - 1 = Len(b) /\ Len(b) \in 1 .. Len(b)
    BY <1>1
  <2>3. DOMAIN g2 = 1 .. Len(g2)
    BY <2>1
  <2> QED
    BY <2>1, <2>2, <2>3, Zenon DEF Last
<1> HIDE DEF b2, g2
<1>5. Brackets2(s, t, b, b2)
  <2>1. Len(b2) = Len(b) + Turn(t)
    BY <1>1, <1>2, <1>3
  <2>2. ASSUME NEW j \in DOMAIN b2 PROVE j <= Len(b) /\ b2[j] = b[j]
    <3>1. j \in 1 .. Len(b) - 1
      BY <1>3
    <3>2. j <= Len(b)
      BY <1>1, <3>1
    <3> QED
      BY <1>3, <3>1, <3>2
  <2> QED
    BY <2>1, <2>2, Zenon DEF Brackets2
<1>6. Marks2(s, t, b, b2, g, g2)
  <2>1. Len(g2) = Len(b2) + 1
    BY <1>1, <1>3, <1>4
  <2>2. ASSUME NEW j \in DOMAIN g2 PROVE j <= Len(b) + 1 /\ g2[j] = g[j]
    <3>1. j \in 1 .. Len(b)
      BY <1>4
    <3>2. j <= Len(b) + 1
      BY <1>1, <3>1
    <3> QED
      BY <1>4, <3>1, <3>2
  <2> QED
    BY <1>2, <2>1, <2>2, Zenon DEF Marks2
<1>7. Marks(Append(s, t), b2, g2) /\ ClosedAt(Append(s, t), Last(b))
  BY <1>3, <1>4, <1>5, <1>6, MarksKept
<1> QED
  BY <1>3, <1>4, <1>7
-----------------------------------------------------------------------------
(* Operators and brackets when a token is read.                            *)

LEMMA NoOperatorKept ==
  ASSUME NEW S, NEW s \in Seq(S), NEW t \in S, NEW h \in 0 .. Len(s), NEW n \in Int,
         t \notin OperatorTokens \/ n # Depth(s, Len(s) + 1)
  PROVE  NoOperator(Append(s, t), h, n) <=> NoOperator(s, h, n)
<1> DEFINE r == Append(s, t)
<1>1. /\ Len(r) = Len(s) + 1 /\ r[Len(s) + 1] = t /\ Len(s) \in Nat
      /\ \A i \in 1 .. Len(s) : Level(r, i) = Level(s, i) /\ r[i] = s[i]
      /\ Level(r, Len(s) + 1) = Depth(s, Len(s) + 1) - (IF t \in Closing THEN 1 ELSE 0)
  BY AppendIs, AgreeAppend
<1> HIDE DEF r
<1>2. Depth(s, Len(s) + 1) \in Int
  BY <1>1, DepthNext
<1>3. Level(r, Len(r)) = n => r[Len(r)] \notin OperatorTokens
  BY <1>1, <1>2, Disjoint
<1>4. ASSUME NEW i PROVE i \in h + 1 .. Len(r) <=> i \in h + 1 .. Len(s) \/ i = Len(r)
  BY <1>1
<1>5. \A i \in h + 1 .. Len(s) : i \in 1 .. Len(s)
  BY <1>1
<1> QED
  BY <1>1, <1>3, <1>4, <1>5 DEF NoOperator, r

LEMMA OperatorRead ==
  ASSUME NEW S, NEW s \in Seq(S), NEW t \in S, NEW h \in 0 .. Len(s), t \in OperatorTokens
  PROVE  ~NoOperator(Append(s, t), h, Depth(s, Len(s) + 1))
<1> DEFINE r == Append(s, t)
<1>1. /\ Len(r) = Len(s) + 1 /\ r[Len(s) + 1] = t /\ Len(s) \in Nat
      /\ Level(r, Len(s) + 1) = Depth(s, Len(s) + 1) - (IF t \in Closing THEN 1 ELSE 0)
  BY AppendIs, AgreeAppend
<1> HIDE DEF r
<1>2. Depth(s, Len(s) + 1) \in Int
  BY <1>1, DepthNext
<1>3. Level(r, Len(r)) = Depth(s, Len(s) + 1) /\ r[Len(r)] \in OperatorTokens
  BY <1>1, <1>2, Disjoint
<1>4. Len(r) \in h + 1 .. Len(r)
  BY <1>1
<1> QED
  BY <1>3, <1>4 DEF NoOperator, r

LEMMA NoOperatorYet ==
  ASSUME NEW S, NEW s \in Seq(S), NEW n
  PROVE  NoOperator(s, Len(s), n)
<1>1. \A i \in Len(s) + 1 .. Len(s) : FALSE
  OBVIOUS
<1> QED
  BY <1>1 DEF NoOperator

LEMMA KindKept ==
  ASSUME NEW S, NEW s \in Seq(S), NEW t \in S, NEW b \in Seq(Nat), NEW g \in Seq(Nat), Marks(s, b, g),
         NEW j \in 1 .. Len(b), t # ":" \/ j # Len(b), NEW a
  PROVE  Kind(a, Append(s, t), b[j]) <=> Kind(a, s, b[j])
<1> DEFINE r == Append(s, t)
           i == b[j]
<1>1. /\ Len(s) \in Nat /\ Len(b) \in Nat /\ i \in 1 .. Len(s) /\ Level(s, i) = j - 1
      /\ Depth(s, Len(s) + 1) = Len(b)
  BY MarksNumbers
<1>2. r \in Seq(S) /\ Len(r) = Len(s) + 1 /\ Agree(r, s, Len(s)) /\ r[i] = s[i]
  BY <1>1, AppendIs, AgreeAppend
<1>3. Len(s) <= Len(s) /\ Len(s) <= Len(r)
  BY <1>1, <1>2
<1>4. /\ HasColon(r, i, Len(s) + 2) <=>
           HasColon(s, i, Len(s) + 1) \/ (t = ":" /\ Depth(s, Len(s) + 1) = Level(s, i) + 1)
  BY <1>1, ColonAppend
<1> HIDE DEF r, i
<1>5. /\ AfterOperand(r, i) <=> AfterOperand(s, i)
      /\ IsItems(r, i) <=> IsItems(s, i)
      /\ IsIndex(r, i) <=> IsIndex(s, i)
  BY <1>1, <1>2, <1>3, AfterAgree
<1>6. HasColon(r, i, Len(r) + 1) <=> HasColon(s, i, Len(s) + 1)
  <2>1. Len(r) + 1 = Len(s) + 2
    BY <1>1, <1>2
  <2>2. ~(t = ":" /\ Depth(s, Len(s) + 1) = Level(s, i) + 1)
    BY <1>1
  <2> QED
    BY <1>4, <2>1, <2>2
<1> QED
  BY <1>2, <1>5, <1>6, Zenon DEF Kind, r, i
-----------------------------------------------------------------------------
(* Activations and brackets.                                               *)

LEMMA InRange ==
  ASSUME NEW n \in Nat, NEW x \in 1 .. n
  PROVE  /\ x \in Nat /\ x \in Nat \ {0} /\ x <= n /\ x >= 1 /\ n \in 1 .. n
         /\ x # n => x < n /\ x \in 1 .. n - 1 /\ x + 1 \in 1 .. n
OBVIOUS

LEMMA NoneBetween ==
  ASSUME NEW x \in Nat, NEW y \in Nat, NEW n \in Nat, x + 1 = n, x < y, y <= n, y # n
  PROVE  FALSE
OBVIOUS

LEMMA HeldNumbers ==
  ASSUME NEW act \in Seq(Frame), act # <<>>, NEW w \in Seq(Nat), NEW s, NEW b \in Seq(Nat), NEW g,
         Held(act, s, b, g, w)
  PROVE  /\ Len(act) \in Nat /\ Len(act) >= 1 /\ DOMAIN act = 1 .. Len(act) /\ Last(act) = act[Len(act)]
         /\ Len(b) \in Nat /\ Len(w) = Len(b) /\ DOMAIN w = 1 .. Len(b)
         /\ \A j \in 1 .. Len(b) : w[j] \in 1 .. Len(act)
         /\ \A j \in 1 .. Len(b) : w[j] = Len(act) => j = Len(b)
         /\ Inside(act, w) => b # <<>> /\ Len(b) \in 1 .. Len(b) /\ w[Len(b)] = Len(act) /\ Len(b) >= 1
<1>1. /\ Len(act) \in Nat /\ Len(act) >= 1 /\ DOMAIN act = 1 .. Len(act) /\ Last(act) = act[Len(act)]
      /\ Len(b) \in Nat
  <2>1. Len(act) \in Nat \ {0} /\ DOMAIN act = 1 .. Len(act) /\ Last(act) = act[Len(act)]
    BY FrontIs
  <2> QED
    BY <2>1
<1>2. Len(w) = Len(b)
  BY Zenon DEF Held, Owned
<1>3. DOMAIN w = 1 .. Len(b)
  BY <1>2
<1>4. \A j \in 1 .. Len(b) : w[j] \in 1 .. Len(act)
  BY <1>3, Zenon DEF Held, Owns
<1>5. ASSUME NEW j \in 1 .. Len(b), w[j] = Len(act) PROVE j = Len(b)
  <2> SUFFICES ASSUME j # Len(b) PROVE FALSE
    OBVIOUS
  <2>1. j < Len(b) /\ Len(b) \in 1 .. Len(b)
    BY <1>1
  <2>2. w[j] < w[Len(b)]
    BY <1>3, <2>1, Zenon DEF Held, Owns
  <2>3. w[Len(b)] \in 1 .. Len(act)
    BY <1>4, <2>1
  <2> QED
    BY <1>1, <1>5, <2>2, <2>3
<1>6. Inside(act, w) => b # <<>> /\ Len(b) \in 1 .. Len(b) /\ w[Len(b)] = Len(act) /\ Len(b) >= 1
  <2> SUFFICES ASSUME Inside(act, w)
               PROVE  b # <<>> /\ Len(b) \in 1 .. Len(b) /\ w[Len(b)] = Len(act) /\ Len(b) >= 1
    OBVIOUS
  <2>1. PICK j \in 1 .. Len(b) : w[j] = Len(act)
    BY <1>3 DEF Inside
  <2>2. j = Len(b)
    BY <1>5, <2>1
  <2> QED
    BY <1>1, <2>1, <2>2
<1> QED
  BY <1>1, <1>2, <1>3, <1>4, <1>5, <1>6

\* The bracket the innermost activation reads the inside of.
LEMMA InnerBracket ==
  ASSUME NEW act \in Seq(Frame), act # <<>>, NEW w \in Seq(Nat), NEW s, NEW b \in Seq(Nat), NEW g,
         Held(act, s, b, g, w), ~Inside(act, w), Last(act).for \in Brackets
  PROVE  /\ b # <<>> /\ Len(b) >= 1 /\ Len(b) \in 1 .. Len(b) /\ w[Len(b)] = Len(act) - 1 /\ Len(act) > 1
         /\ Kind(Last(act), s, b[Len(b)])
<1>1. /\ Len(act) \in Nat /\ Len(act) >= 1 /\ DOMAIN act = 1 .. Len(act) /\ Last(act) = act[Len(act)]
      /\ Len(b) \in Nat /\ Len(w) = Len(b) /\ DOMAIN w = 1 .. Len(b)
      /\ \A j \in 1 .. Len(b) : w[j] \in 1 .. Len(act)
  BY HeldNumbers
<1>2. PICK j \in 1 .. Len(b) : w[j] + 1 = Len(act)
  <2>1. Len(act) \in DOMAIN act
    BY <1>1
  <2> QED
    BY <1>1, <2>1 DEF Held, Owns
<1>3. j = Len(b)
  <2> SUFFICES ASSUME j # Len(b) PROVE FALSE
    OBVIOUS
  <2>0. Len(b) \in Nat /\ Len(act) \in Nat
    BY <1>1
  <2>1. j < Len(b) /\ Len(b) \in 1 .. Len(b)
    BY <1>2, <2>0, InRange
  <2>2. w[j] < w[Len(b)]
    BY <1>1, <2>1, Zenon DEF Held, Owns
  <2>3. w[Len(b)] \in 1 .. Len(act) /\ w[j] \in 1 .. Len(act) /\ Len(b) \in DOMAIN w
    BY <1>1, <1>2, <2>1
  <2>4. w[Len(b)] # Len(act)
    BY <2>3, Zenon DEF Inside
  <2>5. w[Len(b)] \in Nat /\ w[j] \in Nat /\ w[Len(b)] <= Len(act)
    BY <2>0, <2>3, InRange
  <2> QED
    BY <1>1, <1>2, <2>2, <2>4, <2>5, NoneBetween
<1>4. w[Len(b)] \in 1 .. Len(act) /\ Len(b) \in 1 .. Len(b)
  BY <1>1, <1>2, <1>3
<1>5. w[Len(b)] = Len(act) - 1 /\ Len(act) > 1 /\ w[Len(b)] < Len(act) /\ w[Len(b)] + 1 = Len(act)
  BY <1>1, <1>2, <1>3, <1>4
<1>6. Kind(act[w[Len(b)] + 1], s, b[Len(b)])
  BY <1>1, <1>4, <1>5, Zenon DEF Held, Owned
<1> QED
  BY <1>1, <1>2, <1>3, <1>5, <1>6
-----------------------------------------------------------------------------
(* What is held when a token is read, when an activation begins or ends.   *)

LEMMA HeldGrows ==
  ASSUME NEW S, NEW s \in Seq(S), NEW t \in S, NEW b \in Seq(Nat), NEW g \in Seq(Nat), NEW g2,
         NEW act \in Seq(Frame), act # <<>>, NEW w \in Seq(Nat),
         Marks(s, b, g), Held(act, s, b, g, w), t \notin Opening \cup Closing,
         t = ":" => Inside(act, w), \A j \in 1 .. Len(b) : g2[j] = g[j]
  PROVE  Held(act, Append(s, t), b, g2, w)
<1> DEFINE r == Append(s, t)
<1>1. /\ Len(act) \in Nat /\ Len(b) \in Nat /\ Len(w) = Len(b) /\ DOMAIN w = 1 .. Len(b)
      /\ Inside(act, w) => w[Len(b)] = Len(act)
  BY HeldNumbers
<1>2. /\ \A j \in 1 .. Len(b) + 1 : g[j] \in 0 .. Len(s)
      /\ Depth(s, Len(s) + 1) = Len(b)
  BY MarksNumbers
<1>3. /\ \A j \in DOMAIN w : w[j] < Len(act) => Kind(act[w[j] + 1], s, b[j])
      /\ \A j \in DOMAIN w : act[w[j]].prec = P_Assignment <=> NoOperator(s, g[j], j - 1)
  BY Zenon DEF Held, Owned
<1> HIDE DEF r
<1>4. ASSUME NEW j \in DOMAIN w, w[j] < Len(act) PROVE Kind(act[w[j] + 1], r, b[j])
  <2>1. j \in 1 .. Len(b)
    BY <1>1
  <2>2. t # ":" \/ j # Len(b)
    BY <1>1, <1>4
  <2>3. Kind(act[w[j] + 1], s, b[j])
    BY <1>3, <1>4
  <2> QED
    BY <2>1, <2>2, <2>3, KindKept DEF r
<1>5. ASSUME NEW j \in DOMAIN w
      PROVE  act[w[j]].prec = P_Assignment <=> NoOperator(r, g2[j], j - 1)
  <2>0. Len(b) \in Nat
    BY <1>1
  <2>1. j \in 1 .. Len(b)
    BY <1>1
  <2>2. j \in 1 .. Len(b) + 1 /\ j - 1 \in Int /\ j - 1 # Len(b)
    BY <2>0, <2>1
  <2>3. NoOperator(r, g[j], j - 1) <=> NoOperator(s, g[j], j - 1)
    <3>1. g[j] \in 0 .. Len(s) /\ j - 1 # Depth(s, Len(s) + 1)
      BY <1>2, <2>2
    <3> QED
      BY <2>2, <3>1, NoOperatorKept DEF r
  <2> QED
    BY <1>3, <2>1, <2>3
<1> QED
  BY <1>1, <1>4, <1>5, Zenon DEF Held, Owned, r

LEMMA HeldOpens ==
  ASSUME NEW S, NEW s \in Seq(S), NEW t \in S, NEW b \in Seq(Nat), NEW g \in Seq(Nat),
         NEW b2 \in Seq(Nat), NEW g2,
         NEW act \in Seq(Frame), act # <<>>, NEW w \in Seq(Nat),
         Marks(s, b, g), Held(act, s, b, g, w), ~Inside(act, w), t \in Opening,
         Len(b2) = Len(b) + 1, \A j \in 1 .. Len(b) : b2[j] = b[j],
         \A j \in 1 .. Len(b) + 1 : g2[j] = g[j],
         Last(act).prec = P_Assignment <=> NoOperator(s, Last(g), Len(b))
  PROVE  \E w2 \in Seq(Nat) : Held(act, Append(s, t), b2, g2, w2) /\ Inside(act, w2)
<1> DEFINE r == Append(s, t)
           n == Len(b)
           w2 == Append(w, Len(act))
<1>1. /\ Len(act) \in Nat /\ Len(act) >= 1 /\ n \in Nat /\ Len(w) = n /\ DOMAIN w = 1 .. n
      /\ DOMAIN act = 1 .. Len(act) /\ Last(act) = act[Len(act)]
      /\ \A j \in 1 .. n : w[j] \in 1 .. Len(act)
  BY HeldNumbers
<1>2. /\ \A j \in 1 .. n + 1 : g[j] \in 0 .. Len(s)
      /\ Depth(s, Len(s) + 1) = n /\ Last(g) = g[n + 1]
  BY MarksNumbers
<1>3. /\ \A j \in DOMAIN w : w[j] < Len(act) => Kind(act[w[j] + 1], s, b[j])
      /\ \A j \in DOMAIN w : act[w[j]].prec = P_Assignment <=> NoOperator(s, g[j], j - 1)
      /\ \A i, j \in DOMAIN w : i < j => w[i] < w[j]
      /\ \A k \in DOMAIN act : act[k].for \in Brackets <=> \E j \in DOMAIN w : w[j] + 1 = k
  BY Zenon DEF Held, Owned, Owns
<1>4. w2 \in Seq(Nat) /\ Len(w2) = n + 1 /\ DOMAIN w2 = 1 .. n + 1 /\ w2[n + 1] = Len(act)
      /\ \A j \in 1 .. n : w2[j] = w[j]
  BY <1>1, AppendIs
<1> HIDE DEF r, n, w2
<1>0. n \in Nat /\ Len(act) \in Nat /\ Len(act) >= 1
  BY <1>1
<1>5. \A j \in 1 .. n + 1 : j \in 1 .. n \/ j = n + 1
  BY <1>0
<1>6. t # ":" /\ t \notin OperatorTokens
  BY DEF Opening, OperatorTokens, BinaryTokens
<1>7. \A j \in 1 .. n : w[j] < Len(act)
  <2>1. ASSUME NEW j \in 1 .. n PROVE w[j] < Len(act)
    <3>1. w[j] \in 1 .. Len(act) /\ w[j] # Len(act)
      BY <1>1 DEF Inside
    <3> QED
      BY <1>0, <3>1
  <2> QED
    BY <2>1
<1>8. Owns(act, w2)
  <2>1. ASSUME NEW j \in 1 .. n + 1 PROVE w2[j] \in 1 .. Len(act)
    <3>1. CASE j \in 1 .. n
      BY <1>1, <1>4, <3>1
    <3>2. CASE j = n + 1
      BY <1>0, <1>4, <3>2
    <3> QED
      BY <1>5, <3>1, <3>2
  <2>2. ASSUME NEW i \in 1 .. n + 1, NEW j \in 1 .. n + 1, i < j PROVE w2[i] < w2[j]
    <3>1. i \in 1 .. n
      BY <1>0, <2>2
    <3>2. CASE j \in 1 .. n
      BY <1>1, <1>3, <1>4, <2>2, <3>1, <3>2
    <3>3. CASE j = n + 1
      BY <1>4, <1>7, <3>1, <3>3
    <3> QED
      BY <1>5, <3>2, <3>3
  <2>3. ASSUME NEW k \in DOMAIN act
        PROVE  act[k].for \in Brackets <=> \E j \in DOMAIN w2 : w2[j] + 1 = k
    <3>1. w2[n + 1] + 1 # k
      BY <1>0, <1>1, <1>4
    <3>2. (\E j \in 1 .. n + 1 : w2[j] + 1 = k) <=> (\E j \in 1 .. n : w[j] + 1 = k)
      <4>1. \A j \in 1 .. n : j \in 1 .. n + 1
        BY <1>0
      <4> QED
        BY <1>4, <1>5, <3>1, <4>1
    <3> QED
      BY <1>1, <1>3, <1>4, <3>2
  <2> QED
    BY <1>4, <2>1, <2>2, <2>3 DEF Owns
<1>9. ASSUME NEW j \in DOMAIN w2, w2[j] < Len(act) PROVE Kind(act[w2[j] + 1], r, b2[j])
  <2>1. j \in 1 .. n
    BY <1>0, <1>4, <1>5, <1>9
  <2>2. Kind(act[w2[j] + 1], s, b[j]) /\ b2[j] = b[j]
    BY <1>1, <1>3, <1>4, <1>7, <2>1 DEF n
  <2> QED
    BY <1>6, <2>1, <2>2, KindKept DEF r, n
<1>10. ASSUME NEW j \in DOMAIN w2
       PROVE  act[w2[j]].prec = P_Assignment <=> NoOperator(r, g2[j], j - 1)
  <2>1. NoOperator(r, g[j], j - 1) <=> NoOperator(s, g[j], j - 1)
    <3>1. j \in 1 .. n + 1
      BY <1>4
    <3>2. g[j] \in 0 .. Len(s)
      BY <1>2, <3>1
    <3>3. j - 1 \in Int
      BY <1>0, <3>1
    <3> QED
      BY <1>6, <3>2, <3>3, NoOperatorKept DEF r
  <2>2. g2[j] = g[j]
    BY <1>4 DEF n
  <2>3. CASE j \in 1 .. n
    BY <1>1, <1>3, <1>4, <2>1, <2>2, <2>3
  <2>4. CASE j = n + 1
    <3>1. j - 1 = n /\ w2[j] = Len(act) /\ g[j] = Last(g)
      BY <1>0, <1>2, <1>4, <2>4
    <3>2. Last(act).prec = P_Assignment <=> NoOperator(s, Last(g), n)
      BY DEF n
    <3> QED
      BY <1>1, <2>1, <2>2, <3>1, <3>2
  <2> QED
    BY <1>4, <1>5, <2>3, <2>4
<1>11. Held(act, r, b2, g2, w2)
  <2>1. Len(w2) = Len(b2)
    BY <1>4 DEF n
  <2> QED
    BY <1>8, <1>9, <1>10, <2>1, Zenon DEF Held, Owned
<1>12. Inside(act, w2)
  <2>1. n + 1 \in 1 .. n + 1
    BY <1>0
  <2> QED
    BY <1>4, <2>1 DEF Inside
<1> QED
  BY <1>4, <1>11, <1>12 DEF r

\* The marks when the innermost bracket is closed.
Shrunk(b, g, b2, g2) == /\ Len(b2) = Len(b) - 1 /\ Last(g2) = g[Len(b)]
                        /\ \A j \in 1 .. Len(b) - 1 : b2[j] = b[j]
                        /\ \A j \in 1 .. Len(b) : g2[j] = g[j]

LEMMA HeldCloses ==
  ASSUME NEW S, NEW s \in Seq(S), NEW t \in S, NEW b \in Seq(Nat), NEW g \in Seq(Nat),
         NEW b2 \in Seq(Nat), NEW g2,
         NEW act \in Seq(Frame), act # <<>>, NEW w \in Seq(Nat),
         Marks(s, b, g), Held(act, s, b, g, w), Inside(act, w), t \in Closing, Shrunk(b, g, b2, g2)
  PROVE  /\ \E w2 \in Seq(Nat) : Held(act, Append(s, t), b2, g2, w2) /\ ~Inside(act, w2)
         /\ Last(act).prec = P_Assignment <=> NoOperator(Append(s, t), Last(g2), Len(b2))
<1> DEFINE r == Append(s, t)
           n == Len(b)
           w2 == Front(w)
<1>14. /\ Len(b2) = n - 1 /\ Last(g2) = g[n]
       /\ \A j \in 1 .. n - 1 : b2[j] = b[j]
       /\ \A j \in 1 .. n : g2[j] = g[j]
  BY DEF Shrunk
<1>1. /\ Len(act) \in Nat /\ Len(act) >= 1 /\ n \in Nat /\ n >= 1 /\ Len(w) = n /\ DOMAIN w = 1 .. n
      /\ DOMAIN act = 1 .. Len(act) /\ Last(act) = act[Len(act)] /\ n \in 1 .. n /\ w[n] = Len(act)
      /\ \A j \in 1 .. n : w[j] \in 1 .. Len(act)
  BY HeldNumbers
<1>2. /\ \A j \in 1 .. n + 1 : g[j] \in 0 .. Len(s)
      /\ Depth(s, Len(s) + 1) = n
  BY MarksNumbers
<1>3. /\ \A j \in DOMAIN w : w[j] < Len(act) => Kind(act[w[j] + 1], s, b[j])
      /\ \A j \in DOMAIN w : act[w[j]].prec = P_Assignment <=> NoOperator(s, g[j], j - 1)
      /\ \A i, j \in DOMAIN w : i < j => w[i] < w[j]
      /\ \A k \in DOMAIN act : act[k].for \in Brackets <=> \E j \in DOMAIN w : w[j] + 1 = k
  BY Zenon DEF Held, Owned, Owns
<1>4. w2 \in Seq(Nat) /\ Len(w2) = n - 1 /\ DOMAIN w2 = 1 .. n - 1 /\ \A j \in 1 .. n - 1 : w2[j] = w[j]
  <2>1. w # <<>>
    BY <1>1
  <2>2. w2 \in Seq(Nat) /\ Len(w2) = Len(w) - 1 /\ \A j \in 1 .. Len(w) - 1 : w2[j] = w[j]
    BY <2>1, FrontIs
  <2>3. Len(w) = n /\ n \in Nat
    BY <1>1
  <2>4. DOMAIN w2 = 1 .. Len(w2)
    BY <2>2
  <2> QED
    BY <2>2, <2>3, <2>4
<1> HIDE DEF r, n, w2
<1>0. n \in Nat /\ n >= 1 /\ Len(act) \in Nat /\ Len(act) >= 1
  BY <1>1
<1>5. \A j \in 1 .. n - 1 : j \in 1 .. n /\ j < n /\ j # n
  BY <1>0
<1>6. t # ":" /\ t \notin OperatorTokens
  BY DEF Closing, OperatorTokens, BinaryTokens
<1>7. ASSUME NEW j \in 1 .. n - 1 PROVE w[j] < Len(act)
  <2>1. j \in 1 .. n /\ j < n /\ n \in 1 .. n
    BY <1>0, <1>5
  <2>2. w[j] < w[n]
    BY <1>1, <1>3, <2>1, Zenon
  <2> QED
    BY <1>1, <2>2
<1>8. Owns(act, w2)
  <2>1. \A j \in DOMAIN w2 : w2[j] \in 1 .. Len(act)
    BY <1>1, <1>4, <1>5
  <2>2. ASSUME NEW i \in 1 .. n - 1, NEW j \in 1 .. n - 1, i < j PROVE w2[i] < w2[j]
    BY <1>1, <1>3, <1>4, <1>5, <2>2
  <2>3. ASSUME NEW k \in DOMAIN act
        PROVE  act[k].for \in Brackets <=> \E j \in DOMAIN w2 : w2[j] + 1 = k
    <3>1. w[n] + 1 # k
      BY <1>0, <1>1
    <3>2. (\E j \in 1 .. n - 1 : w2[j] + 1 = k) <=> (\E j \in 1 .. n : w[j] + 1 = k)
      <4>1. \A j \in 1 .. n : j \in 1 .. n - 1 \/ j = n
        BY <1>0
      <4> QED
        BY <1>4, <1>5, <3>1, <4>1
    <3> QED
      BY <1>1, <1>3, <1>4, <3>2
  <2> QED
    BY <1>4, <2>1, <2>2, <2>3 DEF Owns
<1>9. ASSUME NEW j \in DOMAIN w2 PROVE Kind(act[w2[j] + 1], r, b2[j])
  <2>1. j \in 1 .. n /\ j \in 1 .. n - 1
    BY <1>4, <1>5
  <2>2. Kind(act[w2[j] + 1], s, b[j]) /\ b2[j] = b[j]
    BY <1>1, <1>3, <1>4, <1>7, <1>14, <2>1
  <2> QED
    BY <1>6, <2>1, <2>2, KindKept DEF r, n
<1>10. ASSUME NEW j \in 1 .. n
       PROVE  act[w[j]].prec = P_Assignment <=> NoOperator(r, g2[j], j - 1)
  <2>1. NoOperator(r, g[j], j - 1) <=> NoOperator(s, g[j], j - 1)
    <3>1. j - 1 \in Int /\ j \in 1 .. n + 1
      BY <1>0
    <3>2. g[j] \in 0 .. Len(s)
      BY <1>2, <3>1
    <3> QED
      BY <1>6, <3>1, <3>2, NoOperatorKept DEF r
  <2>2. g2[j] = g[j]
    BY <1>14
  <2> QED
    BY <1>1, <1>3, <2>1, <2>2
<1>11. Held(act, r, b2, g2, w2)
  <2>1. Len(w2) = Len(b2)
    BY <1>4, <1>14
  <2>2. \A j \in DOMAIN w2 : act[w2[j]].prec = P_Assignment <=> NoOperator(r, g2[j], j - 1)
    BY <1>4, <1>5, <1>10
  <2> QED
    BY <1>8, <1>9, <2>1, <2>2, Zenon DEF Held, Owned
<1>12. ~Inside(act, w2)
  <2>1. ASSUME NEW j \in DOMAIN w2 PROVE w2[j] # Len(act)
    <3>1. j \in 1 .. n - 1 /\ w2[j] = w[j]
      BY <1>4
    <3>2. w[j] < Len(act) /\ w[j] \in 1 .. Len(act)
      BY <1>1, <1>5, <1>7, <3>1
    <3> QED
      BY <1>0, <3>1, <3>2
  <2> QED
    BY <2>1 DEF Inside
<1>13. Last(act).prec = P_Assignment <=> NoOperator(r, Last(g2), Len(b2))
  <2>1. Len(b2) = n - 1 /\ Last(g2) = g2[n]
    BY <1>1, <1>14
  <2> QED
    BY <1>1, <1>10, <2>1
<1> QED
  BY <1>4, <1>11, <1>12, <1>13 DEF r
-----------------------------------------------------------------------------
LEMMA OneMore ==
  ASSUME NEW n \in Nat, NEW x \in 1 .. n
  PROVE  /\ x \in 1 .. n + 1 /\ x # n + 1
         /\ x < n + 1 => x = n \/ (x < n /\ x + 1 \in 1 .. n)
         /\ x + 1 = n + 1 <=> x = n
OBVIOUS

LEMMA OneLess ==
  ASSUME NEW n \in Nat, n > 1, NEW x \in 1 .. n, x # n
  PROVE  /\ x \in 1 .. n - 1 /\ (x < n - 1 => x < n /\ x + 1 \in 1 .. n - 1)
         /\ x + 1 = n <=> x = n - 1
OBVIOUS

LEMMA SeqIs ==
  ASSUME NEW S, NEW s \in Seq(S)
  PROVE  DOMAIN s = 1 .. Len(s) /\ Len(s) \in Nat /\ (Len(s) # 0 <=> s # <<>>)
OBVIOUS

LEMMA PushKept ==
  ASSUME NEW act \in Seq(Frame), act # <<>>, NEW w \in Seq(Nat), NEW s, NEW b \in Seq(Nat), NEW g,
         Held(act, s, b, g, w), NEW f \in Frame,
         f.for \in Brackets <=> Inside(act, w), Inside(act, w) => Kind(f, s, Last(b))
  PROVE  Held(Append(act, f), s, b, g, w) /\ ~Inside(Append(act, f), w)
<1> DEFINE a2 == Append(act, f)
           n == Len(act)
<1>1. /\ n \in Nat /\ n >= 1 /\ DOMAIN act = 1 .. n /\ Len(b) \in Nat /\ Len(w) = Len(b) /\ DOMAIN w = 1 .. Len(b)
      /\ \A j \in 1 .. Len(b) : w[j] \in 1 .. n
      /\ \A j \in 1 .. Len(b) : w[j] = n => j = Len(b)
      /\ Inside(act, w) => b # <<>> /\ Len(b) \in 1 .. Len(b) /\ w[Len(b)] = n
  BY HeldNumbers
<1>2. Len(a2) = n + 1 /\ DOMAIN a2 = 1 .. n + 1 /\ a2[n + 1] = f /\ \A k \in 1 .. n : a2[k] = act[k]
  BY AppendIs
<1>3. /\ \A j \in DOMAIN w : w[j] < n => Kind(act[w[j] + 1], s, b[j])
      /\ \A j \in DOMAIN w : act[w[j]].prec = P_Assignment <=> NoOperator(s, g[j], j - 1)
      /\ \A i, j \in DOMAIN w : i < j => w[i] < w[j]
      /\ \A k \in DOMAIN act : act[k].for \in Brackets <=> \E j \in DOMAIN w : w[j] + 1 = k
  BY Zenon DEF Held, Owned, Owns
<1>4. Inside(act, w) <=> \E j \in DOMAIN w : w[j] = n
  BY Zenon DEF Inside
<1> HIDE DEF a2, n
<1>0. n \in Nat /\ n >= 1
  BY <1>1
<1>5. ASSUME NEW j \in DOMAIN w
      PROVE  /\ w[j] \in 1 .. n /\ w[j] \in 1 .. n + 1 /\ w[j] # n + 1
             /\ w[j] < n + 1 => w[j] = n \/ (w[j] < n /\ w[j] + 1 \in 1 .. n)
             /\ w[j] + 1 = n + 1 <=> w[j] = n
  <2>1. w[j] \in 1 .. n
    BY <1>1
  <2> QED
    BY <1>0, <2>1, OneMore
<1>6. Owns(a2, w)
  <2>1. ASSUME NEW k \in 1 .. n + 1 PROVE a2[k].for \in Brackets <=> \E j \in DOMAIN w : w[j] + 1 = k
    <3>1. CASE k \in 1 .. n
      BY <1>1, <1>2, <1>3, <3>1
    <3>2. CASE k = n + 1
      <4>1. (\E j \in DOMAIN w : w[j] + 1 = k) <=> \E j \in DOMAIN w : w[j] = n
        BY <1>5, <3>2
      <4> QED
        BY <1>2, <1>4, <3>2, <4>1
    <3>3. k \in 1 .. n \/ k = n + 1
      BY <1>0
    <3> QED
      BY <3>1, <3>2, <3>3
  <2> QED
    BY <1>2, <1>3, <1>5, <2>1 DEF Owns
<1>7. ASSUME NEW j \in DOMAIN w, w[j] < n + 1 PROVE Kind(a2[w[j] + 1], s, b[j])
  <2>1. CASE w[j] = n
    <3>1. Inside(act, w) /\ j = Len(b)
      BY <1>1, <1>4, <2>1
    <3>2. Last(b) = b[j]
      BY <3>1 DEF Last
    <3> QED
      BY <1>2, <2>1, <3>1, <3>2
  <2>2. CASE w[j] < n /\ w[j] + 1 \in 1 .. n
    BY <1>2, <1>3, <2>2
  <2> QED
    BY <1>5, <1>7, <2>1, <2>2
<1>8. \A j \in DOMAIN w : a2[w[j]].prec = P_Assignment <=> NoOperator(s, g[j], j - 1)
  BY <1>2, <1>3, <1>5
<1>9. Held(a2, s, b, g, w)
  BY <1>1, <1>2, <1>6, <1>7, <1>8, Zenon DEF Held, Owned
<1>10. ~Inside(a2, w)
  BY <1>2, <1>5 DEF Inside
<1> QED
  BY <1>9, <1>10 DEF a2

LEMMA PopKept ==
  ASSUME NEW act \in Seq(Frame), Len(act) > 1, NEW w \in Seq(Nat), NEW s, NEW b \in Seq(Nat), NEW g,
         Held(act, s, b, g, w), ~Inside(act, w)
  PROVE  /\ Front(act) \in Seq(Frame) /\ Front(act) # <<>> /\ Held(Front(act), s, b, g, w)
         /\ Inside(Front(act), w) <=> Last(act).for \in Brackets
<1> DEFINE a2 == Front(act)
           n == Len(act)
<1>0. act # <<>>
  OBVIOUS
<1>1. /\ n \in Nat /\ n > 1 /\ DOMAIN act = 1 .. n /\ Len(b) \in Nat /\ Len(w) = Len(b) /\ DOMAIN w = 1 .. Len(b)
      /\ \A j \in 1 .. Len(b) : w[j] \in 1 .. n
      /\ Last(act) = act[n]
  BY <1>0, HeldNumbers
<1>2. /\ a2 \in Seq(Frame) /\ Len(a2) = n - 1 /\ \A k \in 1 .. n - 1 : a2[k] = act[k]
  BY <1>0, FrontIs
<1>3. /\ \A j \in DOMAIN w : w[j] < n => Kind(act[w[j] + 1], s, b[j])
      /\ \A j \in DOMAIN w : act[w[j]].prec = P_Assignment <=> NoOperator(s, g[j], j - 1)
      /\ \A i, j \in DOMAIN w : i < j => w[i] < w[j]
      /\ \A k \in DOMAIN act : act[k].for \in Brackets <=> \E j \in DOMAIN w : w[j] + 1 = k
  BY Zenon DEF Held, Owned, Owns
<1>4. ~ \E j \in DOMAIN w : w[j] = n
  BY Zenon DEF Inside
<1> HIDE DEF a2, n
<1>5. n \in Nat /\ n > 1 /\ n \in 1 .. n
  BY <1>1
<1>6. DOMAIN a2 = 1 .. n - 1 /\ a2 # <<>>
  <2>1. DOMAIN a2 = 1 .. Len(a2) /\ (Len(a2) # 0 => a2 # <<>>)
    BY <1>2, SeqIs
  <2>2. n - 1 # 0
    BY <1>5
  <2> QED
    BY <1>2, <2>1, <2>2
<1>7. ASSUME NEW j \in DOMAIN w
      PROVE  /\ w[j] \in 1 .. n - 1 /\ (w[j] < n - 1 => w[j] < n /\ w[j] + 1 \in 1 .. n - 1)
             /\ w[j] + 1 = n <=> w[j] = n - 1
  <2>1. w[j] \in 1 .. n /\ w[j] # n
    BY <1>1, <1>4
  <2> QED
    BY <1>5, <2>1, OneLess
<1>8. Owns(a2, w)
  <2>1. \A k \in 1 .. n - 1 : k \in 1 .. n
    BY <1>5
  <2> QED
    BY <1>1, <1>2, <1>3, <1>6, <1>7, <2>1 DEF Owns
<1>9. ASSUME NEW j \in DOMAIN w, w[j] < n - 1 PROVE Kind(a2[w[j] + 1], s, b[j])
  BY <1>2, <1>3, <1>7, <1>9
<1>10. \A j \in DOMAIN w : a2[w[j]].prec = P_Assignment <=> NoOperator(s, g[j], j - 1)
  BY <1>2, <1>3, <1>7
<1>11. Held(a2, s, b, g, w)
  BY <1>1, <1>2, <1>8, <1>9, <1>10, Zenon DEF Held, Owned
<1>12. Inside(a2, w) <=> Last(act).for \in Brackets
  <2>1. Inside(a2, w) <=> \E j \in DOMAIN w : w[j] = n - 1
    BY <1>2 DEF Inside
  <2>2. Last(act).for \in Brackets <=> \E j \in DOMAIN w : w[j] + 1 = n
    BY <1>1, <1>3, <1>5
  <2> QED
    BY <1>7, <2>1, <2>2
<1> QED
  BY <1>2, <1>6, <1>11, <1>12 DEF a2

\* Only what an activation is for, its precedence and its closing token matter.
LEMMA ShapeKept ==
  ASSUME NEW act \in Seq(Frame), NEW a2 \in Seq(Frame), Len(a2) = Len(act), act # <<>>,
         \A k \in 1 .. Len(act) : /\ a2[k].for = act[k].for /\ a2[k].prec = act[k].prec
                                  /\ a2[k].close = act[k].close /\ a2[k].at = act[k].at,
         NEW w \in Seq(Nat), NEW s, NEW b \in Seq(Nat), NEW g, Held(act, s, b, g, w)
  PROVE  Held(a2, s, b, g, w) /\ (Inside(a2, w) <=> Inside(act, w))
<1> DEFINE n == Len(act)
<1>1. /\ n \in Nat /\ DOMAIN act = 1 .. n /\ DOMAIN w = 1 .. Len(b) /\ \A j \in 1 .. Len(b) : w[j] \in 1 .. n
  BY HeldNumbers
<1>2. DOMAIN a2 = 1 .. n /\ Len(a2) = n
  <2>1. DOMAIN a2 = 1 .. Len(a2)
    OBVIOUS
  <2> QED
    BY <2>1
<1>3. ASSUME NEW j \in DOMAIN w
      PROVE  w[j] \in 1 .. n /\ (w[j] < n => w[j] + 1 \in 1 .. n)
  <2>1. w[j] \in 1 .. n
    BY <1>1
  <2> QED
    BY <1>1, <2>1
<1>4. \A k \in 1 .. n : a2[k].for = act[k].for /\ a2[k].prec = act[k].prec /\ a2[k].close = act[k].close /\ a2[k].at = act[k].at
  OBVIOUS
<1>5. /\ Len(w) = Len(b)
      /\ \A j \in DOMAIN w : w[j] < n => Kind(act[w[j] + 1], s, b[j])
      /\ \A j \in DOMAIN w : act[w[j]].prec = P_Assignment <=> NoOperator(s, g[j], j - 1)
      /\ \A j \in DOMAIN w : w[j] \in 1 .. n
      /\ \A i, j \in DOMAIN w : i < j => w[i] < w[j]
      /\ \A k \in DOMAIN act : act[k].for \in Brackets <=> \E j \in DOMAIN w : w[j] + 1 = k
  BY Zenon DEF Held, Owned, Owns
<1> HIDE DEF n
<1>6. Owns(a2, w)
  BY <1>1, <1>2, <1>4, <1>5, Zenon DEF Owns
<1>7. ASSUME NEW j \in DOMAIN w, w[j] < n PROVE Kind(a2[w[j] + 1], s, b[j])
  <2>1. a2[w[j] + 1].for = act[w[j] + 1].for /\ a2[w[j] + 1].close = act[w[j] + 1].close
        /\ a2[w[j] + 1].at = act[w[j] + 1].at
    BY <1>3, <1>4, <1>7
  <2>2. Kind(act[w[j] + 1], s, b[j])
    BY <1>5, <1>7
  <2> QED
    BY <2>1, <2>2, Zenon DEF Kind
<1>8. \A j \in DOMAIN w : a2[w[j]].prec = P_Assignment <=> NoOperator(s, g[j], j - 1)
  BY <1>3, <1>4, <1>5
<1>9. Held(a2, s, b, g, w)
  BY <1>2, <1>5, <1>6, <1>7, <1>8, Zenon DEF Held, Owned
<1>10. Inside(a2, w) <=> Inside(act, w)
  BY <1>2, Zenon DEF Inside, n
<1> QED
  BY <1>9, <1>10
-----------------------------------------------------------------------------
(* Where the innermost activation may be.                                  *)

None(s, b, g) == NoOperator(s, Last(g), Len(b))

LEMMA AtPrefix ==
  ASSUME NEW s, NEW b, NEW g, NEW prec, NEW t
  PROVE  PointOK(s, b, g, prec, "prefix", t) <=>
    /\ AwaitsOperand(s) /\ (s # <<>> => Last(s) # ".") /\ NotSpecial(s, b, t)
    /\ prec = P_Assignment => Last(g) = Len(s)
    /\ prec # P_Assignment => ~None(s, b, g)
BY DEF PointOK, None, InBracket

LEMMA AtItems ==
  ASSUME NEW s, NEW b, NEW g, NEW prec, NEW t
  PROVE  PointOK(s, b, g, prec, "items", t) <=>
    /\ AwaitsOperand(s) /\ (s # <<>> => Last(s) # ".")
    /\ prec = P_Assignment => Last(g) = Len(s)
    /\ prec # P_Assignment => ~None(s, b, g)
    /\ b # <<>> /\ Last(s) \in {s[Last(b)], ","}
BY DEF PointOK, None, InBracket

LEMMA AtInfix ==
  ASSUME NEW s, NEW b, NEW g, NEW prec, NEW t
  PROVE  PointOK(s, b, g, prec, "infix", t) <=>
    /\ ~AwaitsOperand(s) /\ (s # <<>> => Last(s) # ".")
    /\ prec # P_Assignment => ~None(s, b, g)
    /\ prec = P_Assignment => /\ t \in Assignments => ~Name(s, Last(g))
                              /\ t = "=" => ~Element(s, b, g)
                              /\ t \in {".", "[", "("} => None(s, b, g)
BY DEF PointOK, None, InBracket

LEMMA AtIdentifier ==
  ASSUME NEW s, NEW b, NEW g, NEW prec, NEW t
  PROVE  PointOK(s, b, g, prec, "identifier", t) <=>
    /\ ~AwaitsOperand(s) /\ (s # <<>> => Last(s) # ".") /\ Last(s) = "name"
    /\ prec # P_Assignment => ~None(s, b, g)
    /\ prec = P_Assignment => Last(g) = Len(s) - 1
BY DEF PointOK, None, InBracket

LEMMA AtMember ==
  ASSUME NEW s, NEW b, NEW g, NEW prec, NEW t
  PROVE  PointOK(s, b, g, prec, "member", t) <=>
    /\ ~AwaitsOperand(s) /\ (s # <<>> => Last(s) = ".")
    /\ prec = P_Assignment <=> None(s, b, g)
BY DEF PointOK, None, InBracket

LEMMA AtElement ==
  ASSUME NEW s, NEW b, NEW g, NEW prec, NEW t
  PROVE  PointOK(s, b, g, prec, "element", t) <=>
    /\ ~AwaitsOperand(s) /\ (s # <<>> => Last(s) # ".") /\ (Accessed(s) \/ Indexed(s))
    /\ prec = P_Assignment <=> None(s, b, g)
BY DEF PointOK, None, InBracket

LEMMA AtSlice ==
  ASSUME NEW s, NEW b, NEW g, NEW prec, NEW t
  PROVE  PointOK(s, b, g, prec, "slice", t) <=>
    /\ ~AwaitsOperand(s) /\ (s # <<>> => Last(s) # ".") /\ Sliced(s)
    /\ prec = P_Assignment <=> None(s, b, g)
BY DEF PointOK, None, InBracket

LEMMA AtBracket ==
  ASSUME NEW s, NEW b, NEW g, NEW prec, NEW t
  PROVE  PointOK(s, b, g, prec, "bracket", t) <=>
    /\ AwaitsOperand(s) /\ (s # <<>> => Last(s) # ".") /\ Last(g) = Len(s)
    /\ Last(b) = Len(s) /\ IsIndex(s, Last(b))
BY DEF PointOK, None, InBracket

LEMMA AtColon ==
  ASSUME NEW s, NEW b, NEW g, NEW prec, NEW t
  PROVE  PointOK(s, b, g, prec, "colon", t) <=>
    /\ AwaitsOperand(s) /\ (s # <<>> => Last(s) # ".") /\ Last(g) = Len(s)
    /\ Last(s) = ":" /\ IsIndex(s, Last(b)) /\ HasColon(s, Last(b), Len(s) + 1)
BY DEF PointOK, None, InBracket
-----------------------------------------------------------------------------
(* A token is read.                                                        *)

LEMMA ReadPlain ==
  ASSUME NEW S, NEW s \in Seq(S), NEW t \in S, NEW b \in Seq(Nat), NEW g \in Seq(Nat),
         NEW act \in Seq(Frame), act # <<>>, NEW w \in Seq(Nat),
         Marks(s, b, g), Held(act, s, b, g, w), t \notin Opening \cup Closing \cup Separators
  PROVE  /\ Marks(Append(s, t), b, g) /\ Held(act, Append(s, t), b, g, w)
         /\ t \notin OperatorTokens => (None(Append(s, t), b, g) <=> None(s, b, g))
         /\ t \in OperatorTokens => ~None(Append(s, t), b, g)
<1>1. Marks(Append(s, t), b, g)
  BY MarksNeutral
<1>2. Held(act, Append(s, t), b, g, w)
  <2>1. t # ":"
    BY DEF Separators
  <2> QED
    BY <2>1, HeldGrows
<1>3. /\ Len(b) \in Nat /\ Last(g) \in 0 .. Len(s) /\ Depth(s, Len(s) + 1) = Len(b)
  <2>1. Len(b) \in Nat /\ Last(g) = g[Len(b) + 1] /\ \A j \in 1 .. Len(b) + 1 : g[j] \in 0 .. Len(s)
    BY MarksNumbers
  <2>2. Len(b) + 1 \in 1 .. Len(b) + 1
    BY <2>1
  <2> QED
    BY <2>1, <2>2, MarksNumbers
<1>4. t \notin OperatorTokens =>
        (NoOperator(Append(s, t), Last(g), Len(b)) <=> NoOperator(s, Last(g), Len(b)))
  <2>1. Len(b) \in Int
    BY <1>3
  <2> QED
    BY <1>3, <2>1, NoOperatorKept
<1>5. t \in OperatorTokens => ~NoOperator(Append(s, t), Last(g), Len(b))
  BY <1>3, OperatorRead
<1> QED
  BY <1>1, <1>2, <1>4, <1>5 DEF None

LEMMA ReadSeparator ==
  ASSUME NEW S, NEW s \in Seq(S), NEW t \in S, NEW b \in Seq(Nat), NEW g \in Seq(Nat),
         NEW act \in Seq(Frame), act # <<>>, NEW w \in Seq(Nat),
         Marks(s, b, g), Held(act, s, b, g, w), t \in Separators, t = ":" => Inside(act, w)
  PROVE  \E g2 \in Seq(Nat) : /\ Marks(Append(s, t), b, g2) /\ Held(act, Append(s, t), b, g2, w)
                              /\ Last(g2) = Len(Append(s, t))
<1>1. PICK g2 \in Seq(Nat) : /\ Marks(Append(s, t), b, g2) /\ Last(g2) = Len(s) + 1
                             /\ \A j \in 1 .. Len(b) : g2[j] = g[j]
  BY MarksSeparate
<1>2. t \notin Opening \cup Closing
  BY Disjoint
<1>3. Held(act, Append(s, t), b, g2, w)
  BY <1>1, <1>2, HeldGrows
<1>4. Len(Append(s, t)) = Len(s) + 1
  BY AppendIs
<1> QED
  BY <1>1, <1>3, <1>4

LEMMA ReadOpening ==
  ASSUME NEW S, NEW s \in Seq(S), NEW t \in S, NEW b \in Seq(Nat), NEW g \in Seq(Nat),
         NEW act \in Seq(Frame), act # <<>>, NEW w \in Seq(Nat),
         Marks(s, b, g), Held(act, s, b, g, w), ~Inside(act, w), t \in Opening,
         Last(act).prec = P_Assignment <=> None(s, b, g)
  PROVE  \E b2 \in Seq(Nat), g2 \in Seq(Nat), w2 \in Seq(Nat) :
           /\ Marks(Append(s, t), b2, g2) /\ Held(act, Append(s, t), b2, g2, w2) /\ Inside(act, w2)
           /\ b2 # <<>> /\ Last(b2) = Len(Append(s, t)) /\ Last(g2) = Len(Append(s, t))
<1>1. \E b2 \in Seq(Nat), g2 \in Seq(Nat) : Marks(Append(s, t), b2, g2) /\ Grown(s, b, g, b2, g2)
  BY MarksOpen
<1>2. PICK b2 \in Seq(Nat), g2 \in Seq(Nat) : Marks(Append(s, t), b2, g2) /\ Grown(s, b, g, b2, g2)
  BY <1>1
<1>3. /\ Marks(Append(s, t), b2, g2)
      /\ Len(b2) = Len(b) + 1 /\ b2[Len(b) + 1] = Len(s) + 1 /\ Last(b2) = Len(s) + 1
      /\ Last(g2) = Len(s) + 1
      /\ \A j \in 1 .. Len(b) : b2[j] = b[j]
      /\ \A j \in 1 .. Len(b) + 1 : g2[j] = g[j]
  BY <1>2 DEF Grown
<1>4. Last(act).prec = P_Assignment <=> NoOperator(s, Last(g), Len(b))
  BY DEF None
<1>5. PICK w2 \in Seq(Nat) : Held(act, Append(s, t), b2, g2, w2) /\ Inside(act, w2)
  BY <1>3, <1>4, HeldOpens
<1>6. Len(Append(s, t)) = Len(s) + 1
  BY AppendIs
<1>7. b2 # <<>>
  <2>1. Len(b) \in Nat /\ Len(b2) = Len(b) + 1
    BY <1>3
  <2> QED
    BY <2>1
<1> QED
  BY <1>3, <1>5, <1>6, <1>7

LEMMA ReadClosing ==
  ASSUME NEW S, NEW s \in Seq(S), NEW t \in S, NEW b \in Seq(Nat), NEW g \in Seq(Nat),
         NEW act \in Seq(Frame), act # <<>>, NEW w \in Seq(Nat),
         Marks(s, b, g), Held(act, s, b, g, w), Inside(act, w), t \in Closing
  PROVE  \E b2 \in Seq(Nat), g2 \in Seq(Nat), w2 \in Seq(Nat) :
           /\ Marks(Append(s, t), b2, g2) /\ Held(act, Append(s, t), b2, g2, w2) /\ ~Inside(act, w2)
           /\ ClosedAt(Append(s, t), Last(b)) /\ Last(b) \in 1 .. Len(s)
           /\ Last(act).prec = P_Assignment <=> None(Append(s, t), b2, g2)
<1>1. b # <<>> /\ Len(b) \in 1 .. Len(b)
  BY HeldNumbers
<1>2. PICK b2 \in Seq(Nat), g2 \in Seq(Nat) :
           /\ Marks(Append(s, t), b2, g2) /\ ClosedAt(Append(s, t), Last(b))
           /\ Len(b2) = Len(b) - 1
           /\ Last(g2) = g[Len(b)]
           /\ \A j \in 1 .. Len(b) - 1 : b2[j] = b[j]
           /\ \A j \in 1 .. Len(b) : g2[j] = g[j]
  BY <1>1, MarksClose
<1>3. /\ \E w2 \in Seq(Nat) : Held(act, Append(s, t), b2, g2, w2) /\ ~Inside(act, w2)
      /\ Last(act).prec = P_Assignment <=> NoOperator(Append(s, t), Last(g2), Len(b2))
  <2>1. Shrunk(b, g, b2, g2)
    BY <1>2, Zenon DEF Shrunk
  <2>2. b2 \in Seq(Nat)
    OBVIOUS
  <2> QED
    BY <2>1, <2>2, HeldCloses
<1>4. Last(b) \in 1 .. Len(s)
  <2>1. Last(b) = b[Len(b)] /\ \A j \in 1 .. Len(b) : b[j] \in 1 .. Len(s)
    BY MarksNumbers
  <2> QED
    BY <1>1, <2>1
<1> QED
  BY <1>2, <1>3, <1>4 DEF None

\* The bracket that is closed is the one that was open.
LEMMA ClosedIs ==
  ASSUME NEW S, NEW s \in Seq(S), NEW t \in S, NEW i \in 1 .. Len(s), t # ":"
  PROVE  /\ IsIndex(Append(s, t), i) <=> IsIndex(s, i)
         /\ IsItems(Append(s, t), i) <=> IsItems(s, i)
         /\ HasColon(Append(s, t), i, Len(Append(s, t))) <=> HasColon(s, i, Len(s) + 1)
<1> DEFINE r == Append(s, t)
<1>1. r \in Seq(S) /\ Len(r) = Len(s) + 1 /\ Len(s) \in Nat /\ Agree(r, s, Len(s))
  BY AppendIs, AgreeAppend
<1>2. \A j \in 1 .. Len(s) + 1 : HasColon(r, i, j) <=> HasColon(s, i, j)
  BY ColonAppend
<1> HIDE DEF r
<1>3. Len(s) <= Len(s) /\ Len(s) <= Len(r) /\ Len(s) + 1 \in 1 .. Len(s) + 1
  BY <1>1
<1>4. (IsIndex(r, i) <=> IsIndex(s, i)) /\ (IsItems(r, i) <=> IsItems(s, i))
  BY <1>1, <1>3, AfterAgree
<1> QED
  BY <1>1, <1>2, <1>3, <1>4 DEF r

LEMMA ItemsOrIndex ==
  ASSUME NEW s, NEW i, IsItems(s, i)
  PROVE  ~IsIndex(s, i)
BY DEF IsItems, IsIndex
-----------------------------------------------------------------------------
(* The parser reads what may follow: its steps.                            *)

Ready(b, g, w) ==
  /\ Sized /\ Counted /\ phase = "compile" /\ b \in Seq(Nat) /\ g \in Seq(Nat) /\ w \in Seq(Nat)
  /\ LanguageOK(active, point, read, Token, b, g, w)

Advances ==
  /\ read' = read \/ \E t \in Word : read' = Append(read, t) /\ MayFollow(read, t)
  /\ \E b, g, w \in Seq(Nat) : LanguageOK(active', point', read', Token', b, g, w)

LEMMA ReadyIs ==
  ASSUME NEW b, NEW g, NEW w, Ready(b, g, w)
  PROVE  /\ read \in Seq(Word) /\ cur \in Word /\ Len(read) \in Nat
         /\ b \in Seq(Nat) /\ g \in Seq(Nat) /\ w \in Seq(Nat)
         /\ active \in Seq(Frame) /\ active # <<>> /\ Inner = Last(active) /\ Before
         /\ Marks(read, b, g) /\ Held(active, read, b, g, w) /\ (InBracket(point) <=> Inside(active, w))
         /\ PointOK(read, b, g, Inner.prec, point, Token)
         /\ Last(g) \in 0 .. Len(read)
<1>1. Before
  BY CompilingIs DEF Ready
<1>2. read \in Seq(Word) /\ Len(read) \in Nat /\ active \in Seq(Frame) /\ active # <<>>
  BY <1>1, Numbers
<1>3. cur \in Word
  BY <1>1 DEF Before, InputOK
<1>4. /\ b \in Seq(Nat) /\ g \in Seq(Nat) /\ w \in Seq(Nat) /\ LanguageOK(active, point, read, Token, b, g, w)
  BY Zenon DEF Ready
<1>5. /\ Marks(read, b, g) /\ Held(active, read, b, g, w) /\ (InBracket(point) <=> Inside(active, w))
      /\ PointOK(read, b, g, Inner.prec, point, Token)
  BY <1>4, Zenon DEF LanguageOK, Inner
<1>6. Last(g) \in 0 .. Len(read)
  BY <1>2, <1>4, <1>5, MarkIs DEF Marks
<1> QED
  BY <1>1, <1>2, <1>3, <1>4, <1>5, <1>6 DEF Inner

LEMMA InnerIs ==
  ASSUME Before
  PROVE  /\ Inner \in Frame /\ Len(active) \in Nat /\ Len(active) >= 1 /\ Inner = active[Len(active)]
         /\ Inner.for = "statement" <=> Len(active) = 1
         /\ Inner.prec = P_Assignment <=> Inner.for \notin {"unary", "binary"}
         /\ Inner.for \in {"assign", "set"} => active[Len(active) - 1].prec = P_Assignment
         /\ CanAssign <=> Inner.prec = P_Assignment
         /\ Inner.prec \in 1 .. 12
<1>1. /\ Inner \in Frame /\ Len(active) \in Nat /\ Len(active) >= 1 /\ Inner = active[Len(active)]
      /\ FrameOK(active, code, Len(read), Len(active))
  BY Numbers
<1>2. Inner.prec \in 1 .. 12
  BY <1>1 DEF Frame, P_Assignment, P_Call
<1>3. CanAssign <=> Inner.prec = P_Assignment
  BY <1>2 DEF CanAssign, P_Assignment
<1> QED
  BY <1>1, <1>2, <1>3, Zenon DEF FrameOK

LEMMA EatIs ==
  ASSUME NEW t, Eat(t) PROVE read' = Append(read, t)
BY DEF Eat
LEMMA StayIs ==
  ASSUME Stay PROVE read' = read /\ cur' = cur /\ quoted' = quoted /\ Token' = Token
BY DEF Stay, Token

LEMMA AdvancesBy ==
  ASSUME read' = read \/ \E t \in Word : read' = Append(read, t) /\ MayFollow(read, t),
         NEW b \in Seq(Nat), NEW g \in Seq(Nat), NEW w \in Seq(Nat),
         Marks(read', b, g), Held(active', read', b, g, w), InBracket(point') <=> Inside(active', w),
         PointOK(read', b, g, Last(active').prec, point', Token')
  PROVE  Advances
<1>1. LanguageOK(active', point', read', Token', b, g, w)
  BY Zenon DEF LanguageOK
<1> QED
  BY <1>1, Zenon DEF Advances

LEMMA LastPlace ==
  ASSUME NEW n \in Nat, n # 0
  PROVE  n \in 1 .. n /\ n >= 1
OBVIOUS

\* Nothing special may stand behind an operator.
LEMMA NothingSpecial ==
  ASSUME NEW S, NEW s \in Seq(S), NEW b \in Seq(Nat), NEW g \in Seq(Nat), Marks(s, b, g),
         Last(s) \notin Opening \cup {",", ":"}, NEW t
  PROVE  NotSpecial(s, b, t)
<1> SUFFICES ASSUME b # <<>> PROVE NotSpecial(s, b, t)
  BY Zenon DEF NotSpecial
<1>1. s[Last(b)] \in Opening
  <2>1. /\ Len(b) \in Nat /\ (b = <<>> <=> Len(b) = 0) /\ Last(b) = b[Len(b)]
        /\ \A j \in 1 .. Len(b) : s[b[j]] \in Opening
    BY MarksNumbers
  <2>2. Len(b) \in Nat /\ Len(b) # 0
    BY SeqIs
  <2>3. Len(b) \in 1 .. Len(b)
    BY <2>2, LastPlace
  <2> QED
    BY <2>1, <2>3
<1>2. Last(b) = Len(s) => Last(s) \in Opening
  BY <1>1 DEF Last
<1>3. Last(s) \notin {s[Last(b)], ","} /\ Last(b) # Len(s) /\ Last(s) # ":"
  BY <1>1, <1>2
<1> QED
  BY <1>3, Zenon DEF NotSpecial

LEMMA NoneYet ==
  ASSUME NEW S, NEW s \in Seq(S), NEW b, NEW g, Last(g) = Len(s)
  PROVE  None(s, b, g)
BY NoOperatorYet DEF None

LEMMA OperandTokens ==
  ASSUME NEW t \in {"literal", "name", "not", "-", "(", "["}
  PROVE  /\ t \notin {"(", "["} => t \notin Opening \cup Closing \cup Separators
         /\ t \in {"not", "-"} <=> t \in Awaiting \ {"(", "["}
         /\ t \in {"not", "-"} <=> t \in OperatorTokens
         /\ t # "." /\ t \notin {",", ":", "]", ")"}
BY DEF Opening, Closing, Separators, Assignments, OperatorTokens, BinaryTokens, Awaiting

\* Where an operand is due.
LEMMA OperandMayFollow ==
  ASSUME NEW b, NEW g, NEW w, Ready(b, g, w), point = "prefix", NEW t \in {"literal", "name", "not", "-", "(", "["}
  PROVE  MayFollow(read, t)
<1>1. AwaitsOperand(read) /\ (read # <<>> => Last(read) # ".")
  BY ReadyIs, AtPrefix
<1> QED
  BY <1>1, ReadyIs, MayFollowIs
-----------------------------------------------------------------------------
LEMMA LiteralLanguage ==
  ASSUME NEW b, NEW g, NEW w, Ready(b, g, w), Literal
  PROVE  Advances
<1>1. /\ point = "prefix" /\ read' = Append(read, "literal") /\ active' = active
      /\ point' = "infix"
  BY EatIs DEF Literal, At, Continue
<1>2. /\ read \in Seq(Word) /\ "literal" \in Word /\ Len(read) \in Nat
      /\ b \in Seq(Nat) /\ g \in Seq(Nat) /\ w \in Seq(Nat)
      /\ active \in Seq(Frame) /\ active # <<>> /\ Inner = Last(active)
      /\ Marks(read, b, g) /\ Held(active, read, b, g, w) /\ (InBracket(point) <=> Inside(active, w))
      /\ PointOK(read, b, g, Inner.prec, point, Token)
  BY ReadyIs, TokensIn
<1>3. MayFollow(read, "literal")
  BY <1>1, OperandMayFollow
<1>4. /\ AwaitsOperand(read)
      /\ Inner.prec = P_Assignment => Last(g) = Len(read)
      /\ Inner.prec # P_Assignment => ~None(read, b, g)
  BY <1>1, <1>2, AtPrefix
<1>5. /\ "literal" \notin Opening \cup Closing \cup Separators /\ "literal" \notin Awaiting /\ "literal" \notin OperatorTokens
      /\ "literal" # "."
  BY OperandTokens
<1>6. /\ Marks(read', b, g) /\ Held(active', read', b, g, w)
      /\ None(read', b, g) <=> None(read, b, g)
  BY <1>1, <1>2, <1>5, ReadPlain
<1>7. ~AwaitsOperand(read') /\ Last(read') = "literal"
  BY <1>1, <1>2, <1>5, AwaitsAppend
<1>8. Inner.prec = P_Assignment => None(read', b, g)
  BY <1>2, <1>4, <1>6, NoneYet
<1>9. ~Name(read', Last(g)) /\ ~Element(read', b, g)
  BY <1>1, <1>7, Zenon DEF Name, Element, Accessed, Indexed
<1>10. PointOK(read', b, g, Last(active').prec, point', Token')
  BY <1>1, <1>2, <1>4, <1>5, <1>6, <1>7, <1>8, <1>9, AtInfix
<1>11. InBracket(point') <=> Inside(active', w)
  BY <1>1, <1>2 DEF InBracket
<1> QED
  BY <1>1, <1>2, <1>3, <1>6, <1>10, <1>11, AdvancesBy
-----------------------------------------------------------------------------
LEMMA IdentifierLanguage ==
  ASSUME NEW b, NEW g, NEW w, Ready(b, g, w), Identifier
  PROVE  Advances
<1>1. /\ point = "prefix" /\ read' = Append(read, "name") /\ active' = active
      /\ point' = "identifier"
  BY EatIs DEF Identifier, At, Continue
<1>2. /\ read \in Seq(Word) /\ "name" \in Word /\ Len(read) \in Nat
      /\ b \in Seq(Nat) /\ g \in Seq(Nat) /\ w \in Seq(Nat)
      /\ active \in Seq(Frame) /\ active # <<>> /\ Inner = Last(active)
      /\ Marks(read, b, g) /\ Held(active, read, b, g, w) /\ (InBracket(point) <=> Inside(active, w))
      /\ PointOK(read, b, g, Inner.prec, point, Token)
  BY ReadyIs, TokensIn
<1>3. MayFollow(read, "name")
  BY <1>1, OperandMayFollow
<1>4. /\ Inner.prec = P_Assignment => Last(g) = Len(read)
      /\ Inner.prec # P_Assignment => ~None(read, b, g)
  BY <1>1, <1>2, AtPrefix
<1>5. /\ "name" \notin Opening \cup Closing \cup Separators /\ "name" \notin Awaiting /\ "name" \notin OperatorTokens
      /\ "name" # "."
  BY OperandTokens
<1>6. /\ Marks(read', b, g) /\ Held(active', read', b, g, w)
      /\ None(read', b, g) <=> None(read, b, g)
  BY <1>1, <1>2, <1>5, ReadPlain
<1>7. ~AwaitsOperand(read') /\ Last(read') = "name"
  BY <1>1, <1>2, <1>5, AwaitsAppend
<1>8. Inner.prec = P_Assignment => Last(g) = Len(read') - 1
  <2>1. Len(read') = Len(read) + 1
    BY <1>1, <1>2, AppendIs
  <2> QED
    BY <1>2, <1>4, <2>1
<1>9. PointOK(read', b, g, Last(active').prec, point', Token')
  BY <1>1, <1>2, <1>4, <1>5, <1>6, <1>7, <1>8, AtIdentifier
<1>10. InBracket(point') <=> Inside(active', w)
  BY <1>1, <1>2 DEF InBracket
<1> QED
  BY <1>1, <1>2, <1>3, <1>6, <1>9, <1>10, AdvancesBy

LEMMA SeparatorIs ==
  ASSUME NEW t \in Separators
  PROVE  /\ t \in Awaiting /\ t # "." /\ t \notin Opening /\ t \notin Closing /\ t # "name"
         /\ t \in Assignments => t \notin {",", ":"} /\ t \notin BinaryTokens \cup {"(", "[", ".", "]"}
         /\ t \notin {",", ":"} => t \in Assignments
BY DEF Separators, Awaiting, Opening, Closing, Assignments, BinaryTokens

\* The left side of an assignment has been read, and its operator is next.
LEMMA AssignmentLanguage ==
  ASSUME NEW b, NEW g, NEW w, Ready(b, g, w), cur \in Assignments, MayFollow(read, cur), ~InBracket(point),
         read' = Append(read, cur), NEW f \in Frame, f.for \notin Brackets, f.prec = P_Assignment,
         active' = Append(active, f), point' = "prefix"
  PROVE  Advances
<1>2. /\ read \in Seq(Word) /\ cur \in Word /\ Len(read) \in Nat
      /\ b \in Seq(Nat) /\ g \in Seq(Nat) /\ w \in Seq(Nat)
      /\ active \in Seq(Frame) /\ active # <<>> /\ Inner = Last(active)
      /\ Marks(read, b, g) /\ Held(active, read, b, g, w) /\ (InBracket(point) <=> Inside(active, w))
  BY ReadyIs
<1>3. cur \in Separators
  BY DEF Separators
<1>4. /\ cur \in Awaiting /\ cur # "." /\ cur \notin Opening \cup {",", ":"}
  BY <1>3, SeparatorIs
<1>0. cur # ":"
  BY <1>4
<1>1. \E g2 \in Seq(Nat) : /\ Marks(Append(read, cur), b, g2) /\ Held(active, Append(read, cur), b, g2, w)
                           /\ Last(g2) = Len(Append(read, cur))
  BY <1>0, <1>2, <1>3, ReadSeparator
<1>5. PICK g2 \in Seq(Nat) : /\ Marks(read', b, g2) /\ Held(active, read', b, g2, w)
                             /\ Last(g2) = Len(read')
  BY <1>1
<1>6. read' \in Seq(Word) /\ AwaitsOperand(read') /\ Last(read') = cur
  <2>1. Append(read, cur) \in Seq(Word)
    BY <1>2, AppendIs
  <2>2. AwaitsOperand(Append(read, cur)) /\ Last(Append(read, cur)) = cur
    BY <1>2, <1>4, AwaitsAppend
  <2> QED
    BY <2>1, <2>2
<1>7. Held(active', read', b, g2, w) /\ ~Inside(active', w)
  BY <1>2, <1>5, PushKept
<1>8. Last(active') = f
  BY <1>2, AppendIs
<1>9. NotSpecial(read', b, Token')
  BY <1>2, <1>4, <1>5, <1>6, NothingSpecial
<1>10. PointOK(read', b, g2, Last(active').prec, point', Token')
  BY <1>4, <1>5, <1>6, <1>8, <1>9, AtPrefix
<1>11. InBracket(point') <=> Inside(active', w)
  BY <1>7 DEF InBracket
<1> QED
  BY <1>2, <1>5, <1>7, <1>10, <1>11, AdvancesBy

LEMMA AssignLanguage ==
  ASSUME NEW b, NEW g, NEW w, Ready(b, g, w), Assign
  PROVE  Advances
<1> DEFINE f == [Activation("assign", P_Assignment) EXCEPT !.at = Len(read)]
<1>1. /\ point = "identifier" /\ cur \in Assignments /\ CanAssign /\ read' = Append(read, cur)
      /\ active' = Append(active, f) /\ point' = "prefix"
  BY EatIs, Spelt DEF Assign, At, Begin
<1>2. /\ read \in Seq(Word) /\ cur \in Word /\ Len(read) \in Nat
      /\ b \in Seq(Nat) /\ g \in Seq(Nat) /\ w \in Seq(Nat) /\ Marks(read, b, g)
      /\ PointOK(read, b, g, Inner.prec, point, Token) /\ Before /\ Last(g) \in 0 .. Len(read)
  BY ReadyIs
<1>3. Fields(f, "assign", P_Assignment, "none", "none", 0, Len(read))
  <2>1. Fields(Activation("assign", P_Assignment), "assign", P_Assignment, "none", "none", 0, 0)
    BY ActivationIs DEF Fors, P_Assignment, P_Call
  <2> QED
    BY <1>2, <2>1, WithAt
<1> HIDE DEF f
<1>4. ~InBracket(point) /\ f \in Frame /\ f.for \notin Brackets /\ f.prec = P_Assignment
  BY <1>1, <1>3 DEF Fields, Brackets, InBracket
<1>5. Inner.prec = P_Assignment
  BY <1>1, <1>2, InnerIs
<1>6. /\ ~AwaitsOperand(read) /\ (read # <<>> => Last(read) # ".") /\ Last(read) = "name"
      /\ Last(g) = Len(read) - 1
  BY <1>1, <1>2, <1>5, AtIdentifier
<1>7. Name(read, Last(g))
  BY <1>2, <1>6 DEF Name
<1>8. MayFollow(read, cur)
  <2>1. InMiddle(read, b, g, cur)
    BY <1>1, <1>7 DEF InMiddle
  <2> QED
    BY <1>2, <1>6, <2>1, MayFollowIs
<1> QED
  BY <1>1, <1>4, <1>8, AssignmentLanguage

LEMMA LoadLanguage ==
  ASSUME NEW b, NEW g, NEW w, Ready(b, g, w), Load
  PROVE  Advances
<1>1. /\ point = "identifier" /\ ~(CanAssign /\ Token \in Assignments) /\ read' = read /\ Token' = Token
      /\ active' = active /\ point' = "infix"
  BY StayIs DEF Load, At, Continue
<1>2. /\ read \in Seq(Word) /\ Len(read) \in Nat
      /\ b \in Seq(Nat) /\ g \in Seq(Nat) /\ w \in Seq(Nat) /\ Before
      /\ Inner = Last(active)
      /\ Marks(read, b, g) /\ Held(active, read, b, g, w) /\ (InBracket(point) <=> Inside(active, w))
      /\ PointOK(read, b, g, Inner.prec, point, Token)
  BY ReadyIs
<1>3. /\ ~AwaitsOperand(read) /\ (read # <<>> => Last(read) # ".") /\ Last(read) = "name"
      /\ Inner.prec # P_Assignment => ~None(read, b, g)
      /\ Inner.prec = P_Assignment => Last(g) = Len(read) - 1
  BY <1>1, <1>2, AtIdentifier
<1>4. Inner.prec = P_Assignment => None(read, b, g)
  <2> SUFFICES ASSUME Inner.prec = P_Assignment PROVE None(read, b, g)
    OBVIOUS
  <2>1. \A i \in Last(g) + 1 .. Len(read) : i = Len(read)
    BY <1>2, <1>3
  <2>2. read[Len(read)] \notin OperatorTokens
    BY <1>3 DEF Last, OperatorTokens, BinaryTokens
  <2> QED
    BY <2>1, <2>2 DEF None, NoOperator
<1>5. Inner.prec = P_Assignment => Token \notin Assignments /\ Token # "="
  BY <1>1, <1>2, InnerIs DEF Assignments
<1>6. PointOK(read', b, g, Last(active').prec, point', Token')
  BY <1>1, <1>2, <1>3, <1>4, <1>5, AtInfix
<1>7. InBracket(point') <=> Inside(active', w)
  BY <1>1, <1>2 DEF InBracket
<1> QED
  BY <1>1, <1>2, <1>6, <1>7, AdvancesBy

LEMMA PrefixOperatorLanguage ==
  ASSUME NEW b, NEW g, NEW w, Ready(b, g, w), PrefixOperator
  PROVE  Advances
<1> DEFINE f == [Activation("unary", P_Unary) EXCEPT !.op = Prefix[cur], !.at = Here]
<1>1. /\ point = "prefix" /\ cur \in {"not", "-"} /\ read' = Append(read, cur)
      /\ active' = Append(active, f) /\ point' = "prefix"
  BY EatIs, PrefixIs, Spelt DEF PrefixOperator, At, Begin
<1>2. /\ read \in Seq(Word) /\ cur \in Word /\ Len(read) \in Nat
      /\ b \in Seq(Nat) /\ g \in Seq(Nat) /\ w \in Seq(Nat)
      /\ active \in Seq(Frame) /\ active # <<>> /\ Inner = Last(active)
      /\ Marks(read, b, g) /\ Held(active, read, b, g, w) /\ (InBracket(point) <=> Inside(active, w))
  BY ReadyIs
<1>3. Fields(f, "unary", P_Unary, Prefix[cur], "none", 0, Here)
  <2>1. Prefix[cur] \in OpNames /\ Here \in Nat
    BY <1>1, <1>2, PrefixIs DEF OpNames, Here
  <2>2. Fields(Activation("unary", P_Unary), "unary", P_Unary, "none", "none", 0, 0)
    BY ActivationIs DEF Fors, P_Assignment, P_Call, P_Unary
  <2> QED
    BY <2>1, <2>2, WithOpAt
<1> HIDE DEF f
<1>4. ~Inside(active, w) /\ f \in Frame /\ f.for \notin Brackets /\ f.prec # P_Assignment
  BY <1>1, <1>2, <1>3 DEF Fields, Brackets, InBracket, P_Unary, P_Assignment
<1>5. MayFollow(read, cur)
  BY <1>1, OperandMayFollow
<1>6. /\ cur \notin Opening \cup Closing \cup Separators /\ cur \in Awaiting /\ cur \in OperatorTokens
      /\ cur # "." /\ cur \notin Opening \cup {",", ":"}
  BY <1>1, OperandTokens
<1>7. /\ Marks(read', b, g) /\ Held(active, read', b, g, w) /\ ~None(read', b, g)
  BY <1>1, <1>2, <1>6, ReadPlain
<1>8. read' \in Seq(Word) /\ AwaitsOperand(read') /\ Last(read') = cur
  <2>1. read' \in Seq(Word)
    BY <1>1, <1>2, AppendIs
  <2>2. AwaitsOperand(Append(read, cur)) /\ Last(Append(read, cur)) = cur
    BY <1>2, <1>6, AwaitsAppend
  <2> QED
    BY <1>1, <2>1, <2>2
<1>9. Held(active', read', b, g, w) /\ ~Inside(active', w)
  BY <1>1, <1>2, <1>4, <1>7, PushKept
<1>10. Last(active') = f
  BY <1>1, <1>2, <1>4, AppendIs
<1>11. NotSpecial(read', b, Token')
  BY <1>2, <1>6, <1>7, <1>8, NothingSpecial
<1>12. PointOK(read', b, g, Last(active').prec, point', Token')
  BY <1>1, <1>4, <1>6, <1>7, <1>8, <1>10, <1>11, AtPrefix
<1>13. InBracket(point') <=> Inside(active', w)
  BY <1>1, <1>9 DEF InBracket
<1> QED
  BY <1>1, <1>2, <1>5, <1>7, <1>9, <1>12, <1>13, AdvancesBy
-----------------------------------------------------------------------------
(* Brackets are opened.                                                    *)

\* Whether an operator has been read is known where a bracket may be opened.
LEMMA NoneIs ==
  ASSUME NEW b, NEW g, NEW w, Ready(b, g, w), point = "prefix" \/ (point = "infix" /\ Token \in {".", "[", "("})
  PROVE  Inner.prec = P_Assignment <=> None(read, b, g)
<1>1. /\ read \in Seq(Word) /\ PointOK(read, b, g, Inner.prec, point, Token)
  BY ReadyIs
<1>2. CASE point = "prefix"
  <2>1. /\ Inner.prec = P_Assignment => Last(g) = Len(read)
        /\ Inner.prec # P_Assignment => ~None(read, b, g)
    BY <1>1, <1>2, AtPrefix
  <2> QED
    BY <1>1, <2>1, NoneYet
<1>3. CASE point = "infix" /\ Token \in {".", "[", "("}
  BY <1>1, <1>3, AtInfix
<1> QED
  BY <1>2, <1>3

LEMMA Opened ==
  ASSUME NEW b, NEW g, NEW w, Ready(b, g, w), cur \in Opening, Token = cur, read' = Append(read, cur),
         point = "prefix" \/ point = "infix"
  PROVE  /\ MayFollow(read, cur)
         /\ AwaitsOperand(read) <=> point = "prefix"
         /\ \E b2 \in Seq(Nat), g2 \in Seq(Nat), w2 \in Seq(Nat) :
              /\ Marks(read', b2, g2) /\ Held(active, read', b2, g2, w2) /\ Inside(active, w2)
              /\ b2 # <<>> /\ Last(b2) = Len(read') /\ Last(g2) = Len(read')
         /\ read' \in Seq(Word) /\ AwaitsOperand(read') /\ Last(read') = cur /\ read'[Len(read')] = cur /\ cur # "."
         /\ AfterOperand(read', Len(read')) <=> point = "infix"
         /\ IsItems(read', Len(read')) <=> (IF cur = "(" THEN point = "infix" ELSE point = "prefix")
         /\ IsIndex(read', Len(read')) <=> cur = "[" /\ point = "infix"
<1>1. /\ read \in Seq(Word) /\ cur \in Word /\ Len(read) \in Nat
      /\ b \in Seq(Nat) /\ g \in Seq(Nat) /\ w \in Seq(Nat)
      /\ active \in Seq(Frame) /\ active # <<>> /\ Inner = Last(active)
      /\ Marks(read, b, g) /\ Held(active, read, b, g, w) /\ (InBracket(point) <=> Inside(active, w))
      /\ PointOK(read, b, g, Inner.prec, point, Token)
  BY ReadyIs
<1>2. cur \in {"(", "["}
  BY DEF Opening
<1>3. ~Inside(active, w)
  BY <1>1 DEF InBracket
<1>4. /\ AwaitsOperand(read) <=> point = "prefix"
      /\ read # <<>> => Last(read) # "."
  BY <1>1, AtPrefix, AtInfix
<1>5. MayFollow(read, cur)
  <2>1. CASE point = "prefix"
    BY <1>2, <2>1, OperandMayFollow
  <2>2. CASE point = "infix"
    <3>1. InMiddle(read, b, g, cur)
      BY <1>2 DEF InMiddle
    <3> QED
      BY <1>1, <1>4, <2>2, <3>1, MayFollowIs
  <2> QED
    BY <2>1, <2>2
<1>6. Last(active).prec = P_Assignment <=> None(read, b, g)
  BY <1>1, <1>2, NoneIs
<1>7. \E b2 \in Seq(Nat), g2 \in Seq(Nat), w2 \in Seq(Nat) :
           /\ Marks(Append(read, cur), b2, g2) /\ Held(active, Append(read, cur), b2, g2, w2) /\ Inside(active, w2)
           /\ b2 # <<>> /\ Last(b2) = Len(Append(read, cur)) /\ Last(g2) = Len(Append(read, cur))
  BY <1>1, <1>3, <1>6, ReadOpening
<1>8. cur \in Awaiting /\ cur # "."
  BY <1>2 DEF Awaiting, Opening
<1>9. read' \in Seq(Word) /\ Len(read') = Len(read) + 1 /\ read'[Len(read) + 1] = cur
  BY <1>1, AppendIs
<1>10. AwaitsOperand(read') /\ Last(read') = cur
  BY <1>1, <1>8, AwaitsAppend
<1>11. /\ AfterOperand(read', Len(read) + 1) <=> ~AwaitsOperand(read)
       /\ IsItems(read', Len(read) + 1) <=> (IF cur = "(" THEN ~AwaitsOperand(read) ELSE AwaitsOperand(read))
       /\ IsIndex(read', Len(read) + 1) <=> cur = "[" /\ ~AwaitsOperand(read)
  BY <1>1, AfterLast
<1>12. ~AwaitsOperand(read) <=> point = "infix"
  BY <1>4
<1>13. /\ AfterOperand(read', Len(read')) <=> point = "infix"
       /\ IsItems(read', Len(read')) <=> (IF cur = "(" THEN point = "infix" ELSE point = "prefix")
       /\ IsIndex(read', Len(read')) <=> cur = "[" /\ point = "infix"
  BY <1>4, <1>9, <1>11, <1>12, Zenon
<1> QED
  BY <1>4, <1>5, <1>7, <1>8, <1>9, <1>10, <1>13

\* Behind the bracket of items or of a group nothing special may stand.
LEMMA GroupLanguage ==
  ASSUME NEW b, NEW g, NEW w, Ready(b, g, w), Group
  PROVE  Advances
<1> DEFINE f == Activation("group", P_Assignment)
<1>1. /\ point = "prefix" /\ cur = "(" /\ Token = cur /\ read' = Append(read, cur)
      /\ active' = Append(active, f) /\ point' = "prefix"
  BY EatIs, Spelt DEF Group, At, Begin, Opening
<1>2. active \in Seq(Frame) /\ active # <<>>
  BY ReadyIs
<1>3. Fields(f, "group", P_Assignment, "none", "none", 0, 0)
  BY ActivationIs DEF Fors, P_Assignment, P_Call, Brackets
<1> HIDE DEF f
<1>4. f \in Frame /\ f.for = "group" /\ f.for \in Brackets /\ f.prec = P_Assignment
  BY <1>3 DEF Fields, Brackets
<1>5. cur \in Opening
  BY <1>1 DEF Opening
<1>6. /\ MayFollow(read, cur)
      /\ \E b2 \in Seq(Nat), g2 \in Seq(Nat), w2 \in Seq(Nat) :
              /\ Marks(read', b2, g2) /\ Held(active, read', b2, g2, w2) /\ Inside(active, w2)
              /\ b2 # <<>> /\ Last(b2) = Len(read') /\ Last(g2) = Len(read')
      /\ read' \in Seq(Word) /\ AwaitsOperand(read') /\ Last(read') = cur /\ read'[Len(read')] = cur /\ cur # "."
      /\ ~AfterOperand(read', Len(read')) /\ ~IsItems(read', Len(read')) /\ ~IsIndex(read', Len(read'))
  BY <1>1, <1>5, Opened
<1>7. PICK b2 \in Seq(Nat), g2 \in Seq(Nat), w2 \in Seq(Nat) :
              /\ Marks(read', b2, g2) /\ Held(active, read', b2, g2, w2) /\ Inside(active, w2)
              /\ b2 # <<>> /\ Last(b2) = Len(read') /\ Last(g2) = Len(read')
  BY <1>6
<1>8. Kind(f, read', Last(b2))
  BY <1>1, <1>4, <1>6, <1>7 DEF Kind
<1>9. Held(active', read', b2, g2, w2) /\ ~Inside(active', w2)
  BY <1>1, <1>2, <1>4, <1>7, <1>8, PushKept
<1>10. Last(active') = f
  BY <1>1, <1>2, <1>4, AppendIs
<1>11. NotSpecial(read', b2, Token')
  BY <1>6, <1>7, Zenon DEF NotSpecial
<1>12. PointOK(read', b2, g2, Last(active').prec, point', Token')
  BY <1>1, <1>4, <1>6, <1>7, <1>10, <1>11, AtPrefix
<1>13. InBracket(point') <=> Inside(active', w2)
  BY <1>1, <1>9 DEF InBracket
<1> QED
  BY <1>1, <1>6, <1>7, <1>9, <1>12, <1>13, AdvancesBy

LEMMA ItemsLanguage ==
  ASSUME NEW b, NEW g, NEW w, Ready(b, g, w), NEW op \in {"PACK", "CALL"}, Items(op, Pair(cur)), Token = cur,
         \/ point = "prefix" /\ cur = "["
         \/ point = "infix" /\ cur = "("
  PROVE  Advances
<1> DEFINE f == [Activation("items", P_Assignment) EXCEPT !.op = op, !.close = Pair(cur), !.at = Here]
<1>1. /\ read' = Append(read, cur) /\ active' = Append(active, f) /\ point' = "items"
  BY EatIs DEF Items, Begin
<1>2. active \in Seq(Frame) /\ active # <<>> /\ Here \in Nat
  BY ReadyIs DEF Here
<1>3. Fields(f, "items", P_Assignment, op, Pair(cur), 0, Here)
  <2>1. Fields(Activation("items", P_Assignment), "items", P_Assignment, "none", "none", 0, 0)
    BY ActivationIs DEF Fors, P_Assignment, P_Call, Brackets
  <2>2. op \in OpNames /\ Pair(cur) \in Closing
    BY DEF OpNames, Pair, Closing
  <2> QED
    BY <1>2, <2>1, <2>2, WithOpCloseAt
<1> HIDE DEF f
<1>4. f \in Frame /\ f.for = "items" /\ f.for \in Brackets /\ f.prec = P_Assignment /\ f.close = Pair(cur)
      /\ f.at = Here
  BY <1>3 DEF Fields, Brackets
<1>5. cur \in Opening
  BY DEF Opening
<1>6. /\ MayFollow(read, cur)
      /\ \E b2 \in Seq(Nat), g2 \in Seq(Nat), w2 \in Seq(Nat) :
              /\ Marks(read', b2, g2) /\ Held(active, read', b2, g2, w2) /\ Inside(active, w2)
              /\ b2 # <<>> /\ Last(b2) = Len(read') /\ Last(g2) = Len(read')
      /\ read' \in Seq(Word) /\ AwaitsOperand(read') /\ Last(read') = cur /\ read'[Len(read')] = cur /\ cur # "."
      /\ IsItems(read', Len(read')) /\ Len(read') = Here
  <2>1. Len(read') = Here
    BY <1>1, ReadyIs, AppendIs DEF Here
  <2> QED
    BY <1>1, <1>5, <2>1, Opened
<1>7. PICK b2 \in Seq(Nat), g2 \in Seq(Nat), w2 \in Seq(Nat) :
              /\ Marks(read', b2, g2) /\ Held(active, read', b2, g2, w2) /\ Inside(active, w2)
              /\ b2 # <<>> /\ Last(b2) = Len(read') /\ Last(g2) = Len(read')
  BY <1>6
<1>8. Kind(f, read', Last(b2))
  BY <1>4, <1>6, <1>7 DEF Kind
<1>9. Held(active', read', b2, g2, w2) /\ ~Inside(active', w2)
  BY <1>1, <1>2, <1>4, <1>7, <1>8, PushKept
<1>10. Last(active') = f
  BY <1>1, <1>2, <1>4, AppendIs
<1>11. PointOK(read', b2, g2, Last(active').prec, point', Token')
  BY <1>1, <1>4, <1>6, <1>7, <1>10, AtItems
<1>12. InBracket(point') <=> Inside(active', w2)
  BY <1>1, <1>9 DEF InBracket
<1> QED
  BY <1>1, <1>6, <1>7, <1>9, <1>11, <1>12, AdvancesBy

LEMMA ListLanguage ==
  ASSUME NEW b, NEW g, NEW w, Ready(b, g, w), ListLiteral
  PROVE  Advances
<1>1. point = "prefix" /\ cur = "[" /\ Token = cur /\ Items("PACK", "]")
  BY Spelt DEF ListLiteral, At, Opening
<1>2. Pair(cur) = "]"
  BY <1>1 DEF Pair
<1> QED
  BY <1>1, <1>2, ItemsLanguage

LEMMA CallLanguage ==
  ASSUME NEW b, NEW g, NEW w, Ready(b, g, w), Call
  PROVE  Advances
<1>1. point = "infix" /\ cur = "(" /\ Token = cur /\ Items("CALL", ")")
  BY Spelt DEF Call, Infix, At, Opening
<1>2. Pair(cur) = ")"
  BY <1>1 DEF Pair
<1> QED
  BY <1>1, <1>2, ItemsLanguage

LEMMA IndexLanguage ==
  ASSUME NEW b, NEW g, NEW w, Ready(b, g, w), Index
  PROVE  Advances
<1>1. /\ point = "infix" /\ cur = "[" /\ Token = cur /\ read' = Append(read, cur) /\ active' = active /\ point' = "bracket"
  BY EatIs, Spelt DEF Index, Infix, At, Continue, Opening
<1>2. cur \in Opening
  BY <1>1 DEF Opening
<1>3. /\ MayFollow(read, cur)
      /\ \E b2 \in Seq(Nat), g2 \in Seq(Nat), w2 \in Seq(Nat) :
              /\ Marks(read', b2, g2) /\ Held(active, read', b2, g2, w2) /\ Inside(active, w2)
              /\ b2 # <<>> /\ Last(b2) = Len(read') /\ Last(g2) = Len(read')
      /\ read' \in Seq(Word) /\ AwaitsOperand(read') /\ Last(read') = cur /\ read'[Len(read')] = cur /\ cur # "."
      /\ IsIndex(read', Len(read'))
  BY <1>1, <1>2, Opened
<1>4. PICK b2 \in Seq(Nat), g2 \in Seq(Nat), w2 \in Seq(Nat) :
              /\ Marks(read', b2, g2) /\ Held(active, read', b2, g2, w2) /\ Inside(active, w2)
              /\ b2 # <<>> /\ Last(b2) = Len(read') /\ Last(g2) = Len(read')
  BY <1>3
<1>5. PointOK(read', b2, g2, Last(active').prec, point', Token')
  BY <1>1, <1>3, <1>4, AtBracket
<1>6. InBracket(point') <=> Inside(active', w2)
  BY <1>1, <1>4 DEF InBracket
<1> QED
  BY <1>1, <1>3, <1>4, <1>5, <1>6, AdvancesBy
-----------------------------------------------------------------------------
(* Operators and accesses.                                                 *)

LEMMA InfixMayFollow ==
  ASSUME NEW b, NEW g, NEW w, Ready(b, g, w), point = "infix", cur \in BinaryTokens \cup {"(", "[", "."}
  PROVE  MayFollow(read, cur)
<1>1. /\ read \in Seq(Word) /\ b \in Seq(Nat) /\ g \in Seq(Nat) /\ Marks(read, b, g)
      /\ PointOK(read, b, g, Inner.prec, point, Token)
  BY ReadyIs
<1>2. ~AwaitsOperand(read) /\ (read # <<>> => Last(read) # ".")
  BY <1>1, AtInfix
<1>3. InMiddle(read, b, g, cur)
  BY DEF InMiddle
<1> QED
  BY <1>1, <1>2, <1>3, MayFollowIs

LEMMA SubscriptLanguage ==
  ASSUME NEW b, NEW g, NEW w, Ready(b, g, w), Subscript
  PROVE  Advances
<1>1. /\ point = "infix" /\ cur = "." /\ Token = cur /\ read' = Append(read, cur) /\ active' = active
      /\ point' = "member"
  BY EatIs, Spelt DEF Subscript, Infix, At, Continue
<1>2. /\ read \in Seq(Word) /\ cur \in Word /\ Len(read) \in Nat
      /\ b \in Seq(Nat) /\ g \in Seq(Nat) /\ w \in Seq(Nat)
      /\ active \in Seq(Frame) /\ active # <<>> /\ Inner = Last(active)
      /\ Marks(read, b, g) /\ Held(active, read, b, g, w) /\ (InBracket(point) <=> Inside(active, w))
  BY ReadyIs
<1>3. MayFollow(read, cur)
  BY <1>1, InfixMayFollow
<1>4. Inner.prec = P_Assignment <=> None(read, b, g)
  BY <1>1, NoneIs
<1>5. cur \notin Opening \cup Closing \cup Separators /\ cur \notin Awaiting /\ cur \notin OperatorTokens
  BY <1>1 DEF Opening, Closing, Separators, Assignments, OperatorTokens, BinaryTokens, Awaiting
<1>6. /\ Marks(read', b, g) /\ Held(active', read', b, g, w)
      /\ None(read', b, g) <=> None(read, b, g)
  BY <1>1, <1>2, <1>5, ReadPlain
<1>7. ~AwaitsOperand(read') /\ Last(read') = cur
  BY <1>1, <1>2, <1>5, AwaitsAppend
<1>8. PointOK(read', b, g, Last(active').prec, point', Token')
  BY <1>1, <1>2, <1>4, <1>6, <1>7, AtMember
<1>9. InBracket(point') <=> Inside(active', w)
  BY <1>1, <1>2 DEF InBracket
<1> QED
  BY <1>1, <1>2, <1>3, <1>6, <1>8, <1>9, AdvancesBy

LEMMA MemberLanguage ==
  ASSUME NEW b, NEW g, NEW w, Ready(b, g, w), Member
  PROVE  Advances
<1>1. /\ point = "member" /\ read' = Append(read, "name") /\ active' = active
      /\ point' = "element"
  BY EatIs DEF Member, At, Continue
<1>2. /\ read \in Seq(Word) /\ "name" \in Word /\ Len(read) \in Nat
      /\ b \in Seq(Nat) /\ g \in Seq(Nat) /\ w \in Seq(Nat)
      /\ active \in Seq(Frame) /\ active # <<>> /\ Inner = Last(active) /\ Before
      /\ Marks(read, b, g) /\ Held(active, read, b, g, w) /\ (InBracket(point) <=> Inside(active, w))
      /\ PointOK(read, b, g, Inner.prec, point, Token)
  BY ReadyIs, TokensIn
<1>3. /\ ~AwaitsOperand(read) /\ (read # <<>> => Last(read) = ".")
      /\ Inner.prec = P_Assignment <=> None(read, b, g)
  BY <1>1, <1>2, AtMember
<1>4. read # <<>>
  BY <1>3 DEF AwaitsOperand
<1>5. MayFollow(read, "name")
  BY <1>1, <1>2, <1>3, <1>4, MayFollowIs
<1>6. "name" \notin Opening \cup Closing \cup Separators /\ "name" \notin Awaiting /\ "name" \notin OperatorTokens
      /\ "name" # "."
  BY OperandTokens
<1>7. /\ Marks(read', b, g) /\ Held(active', read', b, g, w)
      /\ None(read', b, g) <=> None(read, b, g)
  BY <1>1, <1>2, <1>6, ReadPlain
<1>8. ~AwaitsOperand(read') /\ Last(read') = "name"
  BY <1>1, <1>2, <1>6, AwaitsAppend
<1>9. Accessed(read')
  <2>1. Len(read') = Len(read) + 1 /\ Len(read) \in 1 .. Len(read) /\ read[Len(read)] = "."
    <3>1. Len(read) # 0
      BY <1>2, <1>4, SeqIs
    <3>2. Len(read) \in 1 .. Len(read)
      BY <1>2, <3>1, LastPlace
    <3> QED
      BY <1>1, <1>2, <1>3, <1>4, <3>2, AppendIs DEF Last
  <2>2. read'[Len(read)] = read[Len(read)]
    BY <1>1, <1>2, <2>1, AppendIs
  <2>3. Len(read') - 1 = Len(read) /\ Len(read') > 1
    BY <1>2, <2>1
  <2> QED
    BY <1>1, <1>8, <2>1, <2>2, <2>3, Zenon DEF Accessed
<1>10. PointOK(read', b, g, Last(active').prec, point', Token')
  BY <1>1, <1>2, <1>3, <1>6, <1>7, <1>8, <1>9, AtElement
<1>11. InBracket(point') <=> Inside(active', w)
  BY <1>1, <1>2 DEF InBracket
<1> QED
  BY <1>1, <1>2, <1>5, <1>7, <1>10, <1>11, AdvancesBy

LEMMA BinaryTokenIs ==
  ASSUME NEW t \in BinaryTokens
  PROVE  /\ t \notin Opening \cup Closing \cup Separators /\ t \in Awaiting /\ t \in OperatorTokens
         /\ t # "." /\ t \notin Opening \cup {",", ":"}
BY DEF Opening, Closing, Separators, Assignments, OperatorTokens, BinaryTokens, Awaiting

LEMMA BinaryOperatorLanguage ==
  ASSUME NEW b, NEW g, NEW w, Ready(b, g, w), BinaryOperator
  PROVE  Advances
<1> DEFINE f == [Activation("binary", RightOperand(cur)) EXCEPT
                   !.op = Opcode[cur], !.n = Len(code) + 1, !.at = Here]
<1>1. /\ point = "infix" /\ cur \in BinaryTokens /\ read' = Append(read, cur)
      /\ active' = Append(active, f) /\ point' = "prefix"
  BY EatIs DEF BinaryOperator, Infix, At, Begin
<1>2. /\ read \in Seq(Word) /\ cur \in Word /\ Len(read) \in Nat
      /\ b \in Seq(Nat) /\ g \in Seq(Nat) /\ w \in Seq(Nat)
      /\ active \in Seq(Frame) /\ active # <<>> /\ Inner = Last(active) /\ Before
      /\ Marks(read, b, g) /\ Held(active, read, b, g, w) /\ (InBracket(point) <=> Inside(active, w))
  BY ReadyIs
<1>3. Fields(f, "binary", RightOperand(cur), Opcode[cur], "none", Len(code) + 1, Here)
      /\ RightOperand(cur) # P_Assignment
  <2>1. RightOperand(cur) \in P_Assignment .. P_Call /\ RightOperand(cur) # P_Assignment
    <3>1. Precedence(cur) \in 2 .. 10
      BY <1>1, PrecedenceIs
    <3> QED
      BY <3>1 DEF RightOperand, P_Assignment, P_Call
  <2>2. Fields(Activation("binary", RightOperand(cur)), "binary", RightOperand(cur), "none", "none", 0, 0)
    BY <2>1, ActivationIs DEF Fors
  <2>3. Opcode[cur] \in OpNames /\ Here \in Nat /\ Len(code) + 1 \in Nat
    BY <1>1, <1>2, OpcodeIs, Numbers DEF OpNames, Here
  <2> QED
    BY <2>1, <2>2, <2>3, WithOpNAt
<1> HIDE DEF f
<1>4. ~Inside(active, w) /\ f \in Frame /\ f.for \notin Brackets /\ f.prec # P_Assignment
  BY <1>1, <1>2, <1>3 DEF Fields, Brackets, InBracket
<1>5. MayFollow(read, cur)
  BY <1>1, InfixMayFollow
<1>6. /\ cur \notin Opening \cup Closing \cup Separators /\ cur \in Awaiting /\ cur \in OperatorTokens
      /\ cur # "." /\ cur \notin Opening \cup {",", ":"}
  BY <1>1, BinaryTokenIs
<1>7. /\ Marks(read', b, g) /\ Held(active, read', b, g, w) /\ ~None(read', b, g)
  BY <1>1, <1>2, <1>6, ReadPlain
<1>8. read' \in Seq(Word) /\ AwaitsOperand(read') /\ Last(read') = cur
  <2>1. read' \in Seq(Word)
    BY <1>1, <1>2, AppendIs
  <2>2. AwaitsOperand(Append(read, cur)) /\ Last(Append(read, cur)) = cur
    BY <1>2, <1>6, AwaitsAppend
  <2> QED
    BY <1>1, <2>1, <2>2
<1>9. Held(active', read', b, g, w) /\ ~Inside(active', w)
  BY <1>1, <1>2, <1>4, <1>7, PushKept
<1>10. Last(active') = f
  BY <1>1, <1>2, <1>4, AppendIs
<1>11. NotSpecial(read', b, Token')
  BY <1>2, <1>6, <1>7, <1>8, NothingSpecial
<1>12. PointOK(read', b, g, Last(active').prec, point', Token')
  BY <1>1, <1>4, <1>6, <1>7, <1>8, <1>10, <1>11, AtPrefix
<1>13. InBracket(point') <=> Inside(active', w)
  BY <1>1, <1>9 DEF InBracket
<1> QED
  BY <1>1, <1>2, <1>5, <1>7, <1>9, <1>12, <1>13, AdvancesBy
-----------------------------------------------------------------------------
LEMMA InnermostBracket ==
  ASSUME NEW S, NEW s \in Seq(S), NEW b \in Seq(Nat), NEW g \in Seq(Nat), Marks(s, b, g), b # <<>>
  PROVE  /\ Last(b) \in 1 .. Len(s) /\ s[Last(b)] \in Opening /\ Last(b) = b[Len(b)] /\ Len(b) \in 1 .. Len(b)
         /\ Depth(s, Len(s) + 1) = Level(s, Last(b)) + 1
<1>1. /\ Last(b) = b[Len(b)] /\ Depth(s, Len(s) + 1) = Len(b)
      /\ \A j \in 1 .. Len(b) : b[j] \in 1 .. Len(s) /\ s[b[j]] \in Opening /\ Level(s, b[j]) = j - 1
  BY MarksNumbers
<1>2. Len(b) \in Nat /\ Len(b) # 0
  BY SeqIs
<1>3. Len(b) \in 1 .. Len(b)
  BY <1>2, LastPlace
<1>4. b[Len(b)] \in 1 .. Len(s) /\ s[b[Len(b)]] \in Opening /\ Level(s, b[Len(b)]) = Len(b) - 1
  BY <1>1, <1>3
<1>5. (Len(b) - 1) + 1 = Len(b)
  BY <1>2
<1> QED
  BY <1>1, <1>3, <1>4, <1>5

\* A colon between the bounds of an index.
LEMMA ColonRead ==
  ASSUME NEW S, NEW s \in Seq(S), ":" \in S, NEW b \in Seq(Nat), NEW g \in Seq(Nat),
         NEW act \in Seq(Frame), act # <<>>, NEW w \in Seq(Nat),
         Marks(s, b, g), Held(act, s, b, g, w), Inside(act, w), IsIndex(s, Last(b))
  PROVE  LET r == Append(s, ":") IN
         /\ \E g2 \in Seq(Nat) : Marks(r, b, g2) /\ Held(act, r, b, g2, w) /\ Last(g2) = Len(r)
         /\ IsIndex(r, Last(b)) /\ HasColon(r, Last(b), Len(r) + 1)
         /\ AwaitsOperand(r) /\ Last(r) = ":"
<1> DEFINE r == Append(s, ":")
           i == Last(b)
<1>1. ":" \in Separators /\ ":" \in Awaiting
  BY DEF Separators, Awaiting
<1>2. \E g2 \in Seq(Nat) : Marks(r, b, g2) /\ Held(act, r, b, g2, w) /\ Last(g2) = Len(r)
  BY <1>1, ReadSeparator
<1>3. AwaitsOperand(r) /\ Last(r) = ":"
  BY <1>1, AwaitsAppend
<1>4. b # <<>>
  BY HeldNumbers
<1>5. i \in 1 .. Len(s) /\ Depth(s, Len(s) + 1) = Level(s, i) + 1
  BY <1>4, InnermostBracket
<1>6. r \in Seq(S) /\ Len(r) = Len(s) + 1 /\ Len(s) \in Nat /\ Agree(r, s, Len(s))
  BY AppendIs, AgreeAppend
<1>7. HasColon(r, i, Len(s) + 2)
  BY <1>5, ColonAppend
<1> HIDE DEF r, i
<1>8. Len(r) + 1 = Len(s) + 2 /\ Len(s) <= Len(s) /\ Len(s) <= Len(r)
  BY <1>6
<1>9. IsIndex(r, i) <=> IsIndex(s, i)
  BY <1>5, <1>6, <1>8, AfterAgree
<1> QED
  BY <1>2, <1>3, <1>7, <1>8, <1>9 DEF r, i

LEMMA FromStartLanguage ==
  ASSUME NEW b, NEW g, NEW w, Ready(b, g, w), FromStart
  PROVE  Advances
<1>1. /\ point = "bracket" /\ cur = ":" /\ read' = Append(read, cur) /\ active' = active
      /\ point' = "colon"
  BY EatIs, Spelt DEF FromStart, At, Continue
<1>2. /\ read \in Seq(Word) /\ cur \in Word
      /\ b \in Seq(Nat) /\ g \in Seq(Nat) /\ w \in Seq(Nat)
      /\ active \in Seq(Frame) /\ active # <<>>
      /\ Marks(read, b, g) /\ Held(active, read, b, g, w) /\ (InBracket(point) <=> Inside(active, w))
      /\ PointOK(read, b, g, Inner.prec, point, Token)
  BY ReadyIs
<1>3. /\ AwaitsOperand(read) /\ (read # <<>> => Last(read) # ".")
      /\ Last(b) = Len(read) /\ IsIndex(read, Last(b))
  BY <1>1, <1>2, AtBracket
<1>4. Inside(active, w) /\ b # <<>>
  BY <1>1, <1>2, HeldNumbers DEF InBracket
<1>5. MayFollow(read, cur)
  <2>1. ~NotSpecial(read, b, cur)
    BY <1>1, <1>3, <1>4, Zenon DEF NotSpecial
  <2> QED
    BY <1>2, <1>3, <2>1, MayFollowIs
<1>6. /\ \E g2 \in Seq(Nat) : Marks(read', b, g2) /\ Held(active, read', b, g2, w) /\ Last(g2) = Len(read')
      /\ IsIndex(read', Last(b)) /\ HasColon(read', Last(b), Len(read') + 1)
      /\ AwaitsOperand(read') /\ Last(read') = ":"
  BY <1>1, <1>2, <1>3, <1>4, ColonRead
<1>7. PICK g2 \in Seq(Nat) : Marks(read', b, g2) /\ Held(active, read', b, g2, w) /\ Last(g2) = Len(read')
  BY <1>6
<1>8. PointOK(read', b, g2, Last(active').prec, point', Token')
  BY <1>1, <1>6, <1>7, AtColon
<1>9. InBracket(point') <=> Inside(active', w)
  BY <1>1, <1>4 DEF InBracket
<1> QED
  BY <1>1, <1>2, <1>5, <1>7, <1>8, <1>9, AdvancesBy

LEMMA StartLanguage ==
  ASSUME NEW b, NEW g, NEW w, Ready(b, g, w), Start
  PROVE  Advances
<1> DEFINE f == Activation("start", P_Assignment)
<1>1. /\ point = "bracket" /\ Token # ":" /\ read' = read /\ Token' = Token
      /\ active' = Append(active, f) /\ point' = "prefix"
  BY StayIs, TokenIs DEF Start, At, Begin
<1>2. /\ read \in Seq(Word) /\ Len(read) \in Nat
      /\ b \in Seq(Nat) /\ g \in Seq(Nat) /\ w \in Seq(Nat)
      /\ active \in Seq(Frame) /\ active # <<>>
      /\ Marks(read, b, g) /\ Held(active, read, b, g, w) /\ (InBracket(point) <=> Inside(active, w))
      /\ PointOK(read, b, g, Inner.prec, point, Token)
  BY ReadyIs
<1>3. Fields(f, "start", P_Assignment, "none", "none", 0, 0)
  BY ActivationIs DEF Fors, P_Assignment, P_Call, Brackets
<1> HIDE DEF f
<1>4. f \in Frame /\ f.for = "start" /\ f.for \in Brackets /\ f.prec = P_Assignment
  BY <1>3 DEF Fields, Brackets
<1>5. /\ AwaitsOperand(read) /\ (read # <<>> => Last(read) # ".") /\ Last(g) = Len(read)
      /\ Last(b) = Len(read) /\ IsIndex(read, Last(b))
  BY <1>1, <1>2, AtBracket
<1>6. Inside(active, w)
  BY <1>1, <1>2 DEF InBracket
<1>7. ~HasColon(read, Last(b), Len(read) + 1)
  <2>1. \A k \in Last(b) + 1 .. (Len(read) + 1) - 1 : FALSE
    BY <1>2, <1>5
  <2> QED
    BY <2>1 DEF HasColon
<1>8. Kind(f, read, Last(b))
  BY <1>4, <1>5, <1>7 DEF Kind
<1>9. Held(active', read', b, g, w) /\ ~Inside(active', w)
  BY <1>1, <1>2, <1>4, <1>6, <1>8, PushKept
<1>10. Last(active') = f
  BY <1>1, <1>2, <1>4, AppendIs
<1>11. NotSpecial(read', b, Token')
  <2>1. ~IsItems(read, Last(b))
    BY <1>5, ItemsOrIndex
  <2>2. Last(read) # ":"
    BY <1>5 DEF IsIndex, Last
  <2> QED
    BY <1>1, <2>1, <2>2, Zenon DEF NotSpecial
<1>12. PointOK(read', b, g, Last(active').prec, point', Token')
  BY <1>1, <1>4, <1>5, <1>10, <1>11, AtPrefix
<1>13. InBracket(point') <=> Inside(active', w)
  BY <1>1, <1>9 DEF InBracket
<1> QED
  BY <1>1, <1>2, <1>9, <1>12, <1>13, AdvancesBy

LEMMA StopLanguage ==
  ASSUME NEW b, NEW g, NEW w, Ready(b, g, w), Stop
  PROVE  Advances
<1> DEFINE f == Activation("stop", P_Assignment)
<1>1. /\ point = "colon" /\ Token # "]" /\ read' = read /\ Token' = Token
      /\ active' = Append(active, f) /\ point' = "prefix"
  BY StayIs, TokenIs DEF Stop, At, Begin
<1>2. /\ read \in Seq(Word) /\ Len(read) \in Nat
      /\ b \in Seq(Nat) /\ g \in Seq(Nat) /\ w \in Seq(Nat)
      /\ active \in Seq(Frame) /\ active # <<>>
      /\ Marks(read, b, g) /\ Held(active, read, b, g, w) /\ (InBracket(point) <=> Inside(active, w))
      /\ PointOK(read, b, g, Inner.prec, point, Token)
  BY ReadyIs
<1>3. Fields(f, "stop", P_Assignment, "none", "none", 0, 0)
  BY ActivationIs DEF Fors, P_Assignment, P_Call, Brackets
<1> HIDE DEF f
<1>4. f \in Frame /\ f.for = "stop" /\ f.for \in Brackets /\ f.prec = P_Assignment
  BY <1>3 DEF Fields, Brackets
<1>5. /\ AwaitsOperand(read) /\ (read # <<>> => Last(read) # ".") /\ Last(g) = Len(read)
      /\ Last(read) = ":" /\ IsIndex(read, Last(b)) /\ HasColon(read, Last(b), Len(read) + 1)
  BY <1>1, <1>2, AtColon
<1>6. Inside(active, w)
  BY <1>1, <1>2 DEF InBracket
<1>7. Kind(f, read, Last(b))
  BY <1>4, <1>5 DEF Kind
<1>8. Held(active', read', b, g, w) /\ ~Inside(active', w)
  BY <1>1, <1>2, <1>4, <1>6, <1>7, PushKept
<1>9. Last(active') = f
  BY <1>1, <1>2, <1>4, AppendIs
<1>10. NotSpecial(read', b, Token')
  <2>1. ~IsItems(read, Last(b))
    BY <1>5, ItemsOrIndex
  <2>2. Last(b) # Len(read)
    BY <1>5 DEF IsIndex, Last
  <2> QED
    BY <1>1, <2>1, <2>2, Zenon DEF NotSpecial
<1>11. PointOK(read', b, g, Last(active').prec, point', Token')
  BY <1>1, <1>4, <1>5, <1>9, <1>10, AtPrefix
<1>12. InBracket(point') <=> Inside(active', w)
  BY <1>1, <1>8 DEF InBracket
<1> QED
  BY <1>1, <1>2, <1>8, <1>11, <1>12, AdvancesBy

\* An element is more than one token.
LEMMA ElementLonger ==
  ASSUME NEW S, NEW s \in Seq(S), NEW b \in Seq(Nat), NEW g \in Seq(Nat), Marks(s, b, g),
         Accessed(s) \/ Indexed(s)
  PROVE  Len(s) > Last(g) + 1
<1>1. Len(s) \in Nat /\ Last(g) \in 0 .. Len(s) /\ (Last(g) > 0 => s[Last(g)] \in Awaiting)
  BY MarkIs DEF Marks
<1>2. CASE Accessed(s)
  <2>1. Len(s) > 1 /\ s[Len(s) - 1] = "." /\ s[Len(s)] = "name"
    BY <1>2 DEF Accessed, Last
  <2>2. "." \notin Awaiting /\ "name" \notin Awaiting
    BY DEF Awaiting, Opening, Assignments, BinaryTokens
  <2>3. Last(g) > 0 => Last(g) # Len(s) /\ Last(g) # Len(s) - 1
    BY <1>1, <2>1, <2>2
  <2> QED
    BY <1>1, <2>1, <2>3
<1>3. CASE Indexed(s)
  <2>1. s # <<>> /\ Last(s) \in Closing
    BY <1>3, <1>1 DEF Indexed, Closing
  <2>2. PICK m \in Last(g) + 1 .. Len(s) : ClosedAt(s, m)
    BY <2>1, Zenon DEF Marks, Closed
  <2>3. m \in 1 .. Len(s) - 1
    BY <2>2 DEF ClosedAt
  <2> QED
    BY <1>1, <2>2, <2>3
<1> QED
  BY <1>2, <1>3

LEMMA SetElementLanguage ==
  ASSUME NEW b, NEW g, NEW w, Ready(b, g, w), SetElement
  PROVE  Advances
<1> DEFINE f == Activation("set", P_Assignment)
<1>1. /\ point = "element" /\ cur = "=" /\ CanAssign /\ read' = Append(read, cur)
      /\ active' = Append(active, f) /\ point' = "prefix"
  BY EatIs, Spelt DEF SetElement, At, Begin
<1>2. /\ read \in Seq(Word) /\ cur \in Word /\ Len(read) \in Nat
      /\ b \in Seq(Nat) /\ g \in Seq(Nat) /\ w \in Seq(Nat) /\ Marks(read, b, g)
      /\ PointOK(read, b, g, Inner.prec, point, Token) /\ Before
  BY ReadyIs
<1>3. Fields(f, "set", P_Assignment, "none", "none", 0, 0)
  BY ActivationIs DEF Fors, P_Assignment, P_Call
<1> HIDE DEF f
<1>4. ~InBracket(point) /\ f \in Frame /\ f.for \notin Brackets /\ f.prec = P_Assignment
  BY <1>1, <1>3 DEF Fields, Brackets, InBracket
<1>5. Inner.prec = P_Assignment
  BY <1>1, <1>2, InnerIs
<1>6. /\ ~AwaitsOperand(read) /\ (read # <<>> => Last(read) # ".") /\ (Accessed(read) \/ Indexed(read))
      /\ None(read, b, g)
  BY <1>1, <1>2, <1>5, AtElement
<1>7. Element(read, b, g)
  BY <1>2, <1>6, ElementLonger DEF Element, None
<1>8. MayFollow(read, cur)
  <2>1. InMiddle(read, b, g, cur)
    BY <1>1, <1>7 DEF InMiddle
  <2> QED
    BY <1>2, <1>6, <2>1, MayFollowIs
<1>9. cur \in Assignments
  BY <1>1 DEF Assignments
<1> QED
  BY <1>1, <1>4, <1>8, <1>9, AssignmentLanguage

LEMMA GetElementLanguage ==
  ASSUME NEW b, NEW g, NEW w, Ready(b, g, w), GetElement
  PROVE  Advances
<1>1. /\ point = "element" /\ ~(CanAssign /\ Token = "=") /\ read' = read /\ Token' = Token
      /\ active' = active /\ point' = "infix"
  BY StayIs DEF GetElement, At, Continue
<1>2. /\ read \in Seq(Word) /\ Len(read) \in Nat
      /\ b \in Seq(Nat) /\ g \in Seq(Nat) /\ w \in Seq(Nat) /\ Before
      /\ Inner = Last(active) /\ Last(g) \in 0 .. Len(read)
      /\ Marks(read, b, g) /\ Held(active, read, b, g, w) /\ (InBracket(point) <=> Inside(active, w))
      /\ PointOK(read, b, g, Inner.prec, point, Token)
  BY ReadyIs
<1>3. /\ ~AwaitsOperand(read) /\ (read # <<>> => Last(read) # ".") /\ (Accessed(read) \/ Indexed(read))
      /\ Inner.prec = P_Assignment <=> None(read, b, g)
  BY <1>1, <1>2, AtElement
<1>4. ~Name(read, Last(g))
  <2>1. Len(read) > Last(g) + 1
    BY <1>2, <1>3, ElementLonger
  <2> QED
    BY <1>2, <2>1 DEF Name
<1>5. Inner.prec = P_Assignment => Token # "="
  BY <1>1, <1>2, InnerIs
<1>6. PointOK(read', b, g, Last(active').prec, point', Token')
  BY <1>1, <1>2, <1>3, <1>4, <1>5, AtInfix
<1>7. InBracket(point') <=> Inside(active', w)
  BY <1>1, <1>2 DEF InBracket
<1> QED
  BY <1>1, <1>2, <1>6, <1>7, AdvancesBy

\* "=" behind a slice has been read.
SliceRead ==
  \E k \in 2 .. Len(read), i \in 1 .. Len(read) :
    /\ read[k] = "=" /\ read[k - 1] = "]"
    /\ Matching(read, k - 1) = i /\ IsIndex(read, i) /\ HasColon(read, i, k - 1)

LEMMA GetSliceLanguage ==
  ASSUME NEW b, NEW g, NEW w, Ready(b, g, w), GetSlice
  PROVE  Advances \/ SliceRead'
<1>1. /\ point = "slice" /\ active' = active /\ point' = "infix"
      /\ IF CanAssign /\ Token = "=" THEN read' = Append(read, cur) ELSE read' = read /\ Token' = Token
  BY EatIs, StayIs DEF GetSlice, At, Continue
<1>2. /\ read \in Seq(Word) /\ Len(read) \in Nat /\ cur \in Word
      /\ b \in Seq(Nat) /\ g \in Seq(Nat) /\ w \in Seq(Nat) /\ Before
      /\ Inner = Last(active)
      /\ Marks(read, b, g) /\ Held(active, read, b, g, w) /\ (InBracket(point) <=> Inside(active, w))
      /\ PointOK(read, b, g, Inner.prec, point, Token)
  BY ReadyIs
<1>3. /\ ~AwaitsOperand(read) /\ (read # <<>> => Last(read) # ".") /\ Sliced(read)
      /\ Inner.prec = P_Assignment <=> None(read, b, g)
  BY <1>1, <1>2, AtSlice
<1>4. CASE CanAssign /\ Token = "="
  <2>1. read' = Append(read, cur) /\ Last(read) = "]" /\ cur = "="
    BY <1>1, <1>3, <1>4, Spelt DEF Sliced
  <2>2. PICK m \in 1 .. Len(read) : ClosedAt(read, m) /\ IsIndex(read, m) /\ HasColon(read, m, Len(read))
    BY <1>3, Zenon DEF Sliced
  <2>3. Matching(read, Len(read)) = m
    BY <1>2, <2>2, MatchingIs
  <2>4. /\ Len(read') = Len(read) + 1 /\ read'[Len(read) + 1] = "=" /\ Len(read) \in 1 .. Len(read)
        /\ read' \in Seq(Word) /\ Agree(read', read, Len(read))
    BY <1>2, <2>1, <2>2, AppendIs, AgreeAppend
  <2>5. read'[Len(read)] = "]"
    BY <2>1, <2>4 DEF Agree, Last
  <2>6. Matching(read', Len(read)) = m
    BY <1>2, <2>3, <2>4, MatchingAgree
  <2>7. IsIndex(read', m)
    <3>1. Len(read) <= Len(read) /\ Len(read) <= Len(read')
      BY <1>2, <2>4
    <3> QED
      BY <1>2, <2>2, <2>4, <3>1, AfterAgree
  <2>8. HasColon(read', m, Len(read))
    <3>1. Len(read) \in 1 .. Len(read) + 1
      BY <1>2, <2>4
    <3> QED
      BY <1>2, <2>1, <2>2, <3>1, ColonAppend
  <2> DEFINE k == Len(read) + 1
  <2>9. k \in 2 .. Len(read') /\ k - 1 = Len(read)
    BY <1>2, <2>4
  <2> HIDE DEF k
  <2>10. /\ k \in 2 .. Len(read') /\ read'[k] = "=" /\ read'[k - 1] = "]"
         /\ Matching(read', k - 1) = m /\ IsIndex(read', m) /\ HasColon(read', m, k - 1)
    <3>1. read'[k] = "="
      BY <2>4 DEF k
    <3> QED
      BY <2>5, <2>6, <2>7, <2>8, <2>9, <3>1
  <2>11. m \in 1 .. Len(read')
    BY <1>2, <2>4
  <2> QED
    BY <2>10, <2>11, Zenon DEF SliceRead
<1>5. CASE ~(CanAssign /\ Token = "=")
  <2>1. read' = read /\ Token' = Token
    BY <1>1, <1>5
  <2>2. ~Name(read, Last(g))
    BY <1>3 DEF Name, Sliced
  <2>3. Inner.prec = P_Assignment => Token # "="
    BY <1>2, <1>5, InnerIs
  <2>4. PointOK(read', b, g, Last(active').prec, point', Token')
    BY <1>1, <1>2, <1>3, <2>1, <2>2, <2>3, AtInfix
  <2>5. InBracket(point') <=> Inside(active', w)
    BY <1>1, <1>2 DEF InBracket
  <2> QED
    BY <1>1, <1>2, <2>1, <2>4, <2>5, AdvancesBy
<1> QED
  BY <1>4, <1>5
-----------------------------------------------------------------------------
(* Brackets are closed.                                                    *)

LEMMA ClosingIs ==
  ASSUME NEW t \in Closing
  PROVE  t \notin Awaiting /\ t # "." /\ t # ":" /\ t # "name" /\ t # "," /\ t \notin Opening
BY DEF Closing, Awaiting, Opening, Assignments, BinaryTokens

\* The bracket the innermost activation is in.
LEMMA InBrackets ==
  ASSUME NEW b, NEW g, NEW w, Ready(b, g, w), ~InBracket(point), Inner.for \in Brackets
  PROVE  /\ b # <<>> /\ Last(b) \in 1 .. Len(read) /\ read[Last(b)] \in Opening
         /\ Kind(Inner, read, Last(b)) /\ Len(active) > 1
         /\ Front(active) \in Seq(Frame) /\ Front(active) # <<>>
         /\ Held(Front(active), read, b, g, w) /\ Inside(Front(active), w)
<1>1. /\ read \in Seq(Word) /\ b \in Seq(Nat) /\ g \in Seq(Nat) /\ w \in Seq(Nat)
      /\ active \in Seq(Frame) /\ active # <<>> /\ Inner = Last(active)
      /\ Marks(read, b, g) /\ Held(active, read, b, g, w) /\ ~Inside(active, w)
  BY ReadyIs
<1>2. b # <<>> /\ Len(active) > 1 /\ Kind(Last(active), read, b[Len(b)])
  BY <1>1, InnerBracket
<1>3. Last(b) \in 1 .. Len(read) /\ read[Last(b)] \in Opening /\ Last(b) = b[Len(b)]
  BY <1>1, <1>2, InnermostBracket
<1>4. /\ Front(active) \in Seq(Frame) /\ Front(active) # <<>>
      /\ Held(Front(active), read, b, g, w) /\ Inside(Front(active), w)
  BY <1>1, <1>2, PopKept
<1> QED
  BY <1>1, <1>2, <1>3, <1>4

LEMMA Closes ==
  ASSUME NEW b, NEW g, NEW w, Ready(b, g, w), NEW act \in Seq(Frame), act # <<>>, Held(act, read, b, g, w),
         Inside(act, w), cur \in Closing, read' = Append(read, cur)
  PROVE  /\ \E b2 \in Seq(Nat), g2 \in Seq(Nat), w2 \in Seq(Nat) :
              /\ Marks(read', b2, g2) /\ Held(act, read', b2, g2, w2) /\ ~Inside(act, w2)
              /\ Last(act).prec = P_Assignment <=> None(read', b2, g2)
         /\ ClosedAt(read', Last(b)) /\ Last(b) \in 1 .. Len(read')
         /\ \A m : ClosedAt(read', m) => m = Last(b)
         /\ read' \in Seq(Word) /\ ~AwaitsOperand(read') /\ Last(read') = cur /\ cur # "."
         /\ IsIndex(read', Last(b)) <=> IsIndex(read, Last(b))
         /\ HasColon(read', Last(b), Len(read')) <=> HasColon(read, Last(b), Len(read) + 1)
<1>1. /\ read \in Seq(Word) /\ cur \in Word /\ Len(read) \in Nat
      /\ b \in Seq(Nat) /\ g \in Seq(Nat) /\ w \in Seq(Nat) /\ Marks(read, b, g)
  BY ReadyIs
<1>2. \E b2 \in Seq(Nat), g2 \in Seq(Nat), w2 \in Seq(Nat) :
           /\ Marks(Append(read, cur), b2, g2) /\ Held(act, Append(read, cur), b2, g2, w2) /\ ~Inside(act, w2)
           /\ ClosedAt(Append(read, cur), Last(b)) /\ Last(b) \in 1 .. Len(read)
           /\ Last(act).prec = P_Assignment <=> None(Append(read, cur), b2, g2)
  BY <1>1, ReadClosing
<1>3. read' \in Seq(Word) /\ Len(read') = Len(read) + 1
  BY <1>1, AppendIs
<1>4. cur \notin Awaiting /\ cur # "." /\ cur # ":"
  BY ClosingIs
<1>5. ~AwaitsOperand(read') /\ Last(read') = cur
  BY <1>1, <1>4, AwaitsAppend
<1>6. Last(b) \in 1 .. Len(read) /\ ClosedAt(read', Last(b))
  BY <1>2
<1>7. /\ IsIndex(read', Last(b)) <=> IsIndex(read, Last(b))
      /\ HasColon(read', Last(b), Len(read')) <=> HasColon(read, Last(b), Len(read) + 1)
  BY <1>1, <1>4, <1>6, ClosedIs
<1>8. ASSUME NEW m, ClosedAt(read', m) PROVE m = Last(b)
  BY <1>3, <1>6, <1>8, MatchingIs
<1>9. Last(b) \in 1 .. Len(read')
  BY <1>1, <1>3, <1>6
<1> QED
  BY <1>2, <1>3, <1>4, <1>5, <1>6, <1>7, <1>8, <1>9

\* The end of a group, of a list or of a call.
LEMMA OperandEnds ==
  ASSUME NEW b, NEW g, NEW w, Ready(b, g, w), ~InBracket(point), Inner.for \in {"group", "items"},
         cur \in Closing, MayFollow(read, cur), read' = Append(read, cur),
         active' = Front(active), point' = "infix"
  PROVE  Advances
<1>1. /\ b # <<>> /\ Kind(Inner, read, Last(b)) /\ Front(active) \in Seq(Frame) /\ Front(active) # <<>>
      /\ Held(Front(active), read, b, g, w) /\ Inside(Front(active), w)
  BY InBrackets DEF Brackets
<1>2. ~IsIndex(read, Last(b))
  <2>1. Inner.for = "group" => read[Last(b)] = "("
    BY <1>1, Zenon DEF Kind
  <2>2. Inner.for = "items" => IsItems(read, Last(b))
    BY <1>1, Zenon DEF Kind
  <2> QED
    BY <2>1, <2>2, ItemsOrIndex DEF IsIndex
<1>3. /\ \E b2 \in Seq(Nat), g2 \in Seq(Nat), w2 \in Seq(Nat) :
           /\ Marks(read', b2, g2) /\ Held(active', read', b2, g2, w2) /\ ~Inside(active', w2)
           /\ Last(active').prec = P_Assignment <=> None(read', b2, g2)
      /\ \A m : ClosedAt(read', m) => m = Last(b)
      /\ ~AwaitsOperand(read') /\ Last(read') = cur /\ cur # "."
      /\ ~IsIndex(read', Last(b))
  BY <1>1, <1>2, Closes
<1>4. PICK b2 \in Seq(Nat), g2 \in Seq(Nat), w2 \in Seq(Nat) :
           /\ Marks(read', b2, g2) /\ Held(active', read', b2, g2, w2) /\ ~Inside(active', w2)
           /\ Last(active').prec = P_Assignment <=> None(read', b2, g2)
  BY <1>3
<1>5. ~Name(read', Last(g2)) /\ ~Element(read', b2, g2)
  <2>1. cur # "name"
    BY ClosingIs
  <2>2. ~Accessed(read') /\ ~Name(read', Last(g2))
    BY <1>3, <2>1, Zenon DEF Accessed, Name
  <2>3. ~Indexed(read')
    BY <1>3, Zenon DEF Indexed
  <2> QED
    BY <2>2, <2>3, Zenon DEF Element
<1>6. PointOK(read', b2, g2, Last(active').prec, point', Token')
  BY <1>3, <1>4, <1>5, AtInfix
<1>7. InBracket(point') <=> Inside(active', w2)
  BY <1>4 DEF InBracket
<1> QED
  BY <1>4, <1>6, <1>7, ReadyIs, AdvancesBy

\* A closing token where an operand has ended.
LEMMA ClosingMayFollow ==
  ASSUME NEW b, NEW g, NEW w, Ready(b, g, w), point = "infix", b # <<>>, cur = Pair(read[Last(b)]),
         MayClose(read, Last(b))
  PROVE  MayFollow(read, cur)
<1>1. /\ read \in Seq(Word) /\ b \in Seq(Nat) /\ g \in Seq(Nat) /\ Marks(read, b, g)
      /\ PointOK(read, b, g, Inner.prec, point, Token)
  BY ReadyIs
<1>2. ~AwaitsOperand(read) /\ (read # <<>> => Last(read) # ".")
  BY <1>1, AtInfix
<1>3. InMiddle(read, b, g, cur)
  BY DEF InMiddle
<1> QED
  BY <1>1, <1>2, <1>3, MayFollowIs

LEMMA PairIs ==
  ASSUME NEW t \in Opening
  PROVE  Pair(t) \in Closing /\ (t = "(" => Pair(t) = ")") /\ (t = "[" => Pair(t) = "]")
BY DEF Pair, Opening, Closing

\* The parser has counted the items of the innermost bracket.
LEMMA MayCloseItems ==
  ASSUME NEW b, NEW g, NEW w, Ready(b, g, w), Inner.for = "items", point \in {"items", "infix"}
  PROVE  /\ MayClose(read, Last(b)) <=> ~TooMany
         /\ b # <<>> /\ IsItems(read, Last(b)) /\ Inner.close = Pair(read[Last(b)])
         /\ Inner.close \in Closing /\ Inner.close # ","
         /\ TooMany => Inner.close = ")"
<1>1. /\ read \in Seq(Word) /\ b \in Seq(Nat) /\ g \in Seq(Nat) /\ Marks(read, b, g) /\ Before
      /\ active \in Seq(Frame) /\ active # <<>>
      /\ PointOK(read, b, g, Inner.prec, point, Token)
  BY ReadyIs
<1>2. ~InBracket(point)
  BY DEF InBracket
<1>3. b # <<>> /\ Kind(Inner, read, Last(b)) /\ read[Last(b)] \in Opening
  BY <1>2, InBrackets DEF Brackets
<1>4. IsItems(read, Last(b)) /\ Inner.close = Pair(read[Last(b)]) /\ Inner.at = Last(b)
  BY <1>3, Zenon DEF Kind
<1>5. Inner.close \in Closing /\ (Inner.close = ")" <=> read[Last(b)] = "(")
  BY <1>3, <1>4 DEF Pair, Opening, Closing
<1>6. CountedAt(Inner, read, point = "items")
  <2>0. Len(active) \in Nat \ {0} /\ DOMAIN active = 1 .. Len(active) /\ Inner = active[Len(active)]
    BY <1>1, FrontIs DEF Inner
  <2>1. Len(active) \in DOMAIN active /\ Inner = active[Len(active)]
    BY <2>0
  <2>2. CountedAt(active[Len(active)], read, Due(Len(active)))
    BY <2>1, Zenon DEF Ready, Counted
  <2>3. Due(Len(active)) <=> point = "items"
    BY DEF Due
  <2> QED
    BY <2>1, <2>2, <2>3, Zenon DEF CountedAt
<1>7. /\ Inner.op = "CALL" <=> Inner.close = ")"
      /\ Inner.n = Commas(read, Last(b)) + (IF point = "items" THEN 0 ELSE 1)
  BY <1>4, <1>6, Zenon DEF CountedAt
<1>8. point = "items" <=> Last(read) \in {read[Last(b)], ","}
  <2>1. CASE point = "items"
    BY <1>1, <2>1, AtItems
  <2>2. CASE point = "infix"
    <3>1. ~AwaitsOperand(read)
      BY <1>1, <2>2, AtInfix
    <3>2. Last(read) \notin Awaiting
      BY <1>1, <3>1, AwaitsIs DEF Last
    <3> QED
      BY <1>3, <2>2, <3>2 DEF Awaiting
  <2> QED
    BY <2>1, <2>2
<1>9. ItemsOf(read, Last(b)) = Inner.n
  <2>1. ItemsOf(read, Last(b)) = Commas(read, Last(b)) + (IF Last(read) \in {read[Last(b)], ","} THEN 0 ELSE 1)
    BY Zenon DEF ItemsOf, Commas
  <2> QED
    BY <1>7, <1>8, <2>1, Zenon
<1>10. Inner.n < UINT8_MAX <=> ~(Inner.n >= UINT8_MAX)
  <2>1. Inner.n \in Nat /\ UINT8_MAX \in Nat
    BY <1>1, Numbers, TokensIn DEF Frame
  <2> QED
    BY <2>1
<1>11. MayClose(read, Last(b)) <=> ~TooMany
  BY <1>4, <1>5, <1>7, <1>9, <1>10, Zenon DEF MayClose, TooMany
<1>12. TooMany => Inner.close = ")"
  BY <1>7, Zenon DEF TooMany
<1>13. Inner.close # ","
  BY <1>5 DEF Closing
<1> QED
  BY <1>3, <1>4, <1>5, <1>11, <1>12, <1>13

LEMMA NoMoreItemsLanguage ==
  ASSUME NEW b, NEW g, NEW w, Ready(b, g, w), NoMoreItems
  PROVE  Advances
<1>1. /\ point = "items" /\ Token = Inner.close /\ ~TooMany /\ read' = Append(read, cur) /\ active' = Front(active)
      /\ point' = "infix"
  BY EatIs DEF NoMoreItems, At, Finish
<1>2. /\ read \in Seq(Word) /\ b \in Seq(Nat) /\ g \in Seq(Nat) /\ Marks(read, b, g) /\ Before
      /\ PointOK(read, b, g, Inner.prec, point, Token)
  BY ReadyIs
<1>3. Inner.for = "items"
  BY <1>1, <1>2 DEF Before, Place, PlaceOK, Inner
<1>4. ~InBracket(point)
  BY <1>1 DEF InBracket
<1>5. /\ b # <<>> /\ IsItems(read, Last(b)) /\ Inner.close = Pair(read[Last(b)]) /\ Inner.close \in Closing
      /\ MayClose(read, Last(b))
  BY <1>1, <1>3, MayCloseItems
<1>6. cur = Pair(read[Last(b)])
  BY <1>1, <1>5, Spelt
<1>7. cur \in Closing
  BY <1>5, <1>6
<1>8. MayFollow(read, cur)
  <2>1. /\ AwaitsOperand(read) /\ (read # <<>> => Last(read) # ".")
        /\ Last(read) \in {read[Last(b)], ","}
    BY <1>1, <1>2, AtItems
  <2>2. ~NotSpecial(read, b, cur)
    BY <1>5, <1>6, <2>1, Zenon DEF NotSpecial
  <2> QED
    BY <1>2, <2>1, <2>2, MayFollowIs
<1> QED
  BY <1>1, <1>3, <1>4, <1>7, <1>8, OperandEnds

LEMMA EndItemsLanguage ==
  ASSUME NEW b, NEW g, NEW w, Ready(b, g, w), EndItems
  PROVE  Advances
<1>1. /\ point = "infix" /\ Inner.for = "items" /\ Token = Inner.close /\ ~TooMany /\ read' = Append(read, cur)
      /\ active' = Front(active) /\ point' = "infix"
  BY EatIs DEF EndItems, Ended, At, Finish
<1>2. ~InBracket(point)
  BY <1>1 DEF InBracket
<1>3. /\ b # <<>> /\ Inner.close = Pair(read[Last(b)]) /\ Inner.close \in Closing
      /\ MayClose(read, Last(b))
  BY <1>1, MayCloseItems
<1>4. cur = Pair(read[Last(b)])
  BY <1>1, <1>3, Spelt
<1>5. cur \in Closing /\ MayFollow(read, cur)
  BY <1>1, <1>3, <1>4, ClosingMayFollow
<1> QED
  BY <1>1, <1>2, <1>5, OperandEnds

LEMMA EndGroupLanguage ==
  ASSUME NEW b, NEW g, NEW w, Ready(b, g, w), EndGroup
  PROVE  Advances
<1>1. /\ point = "infix" /\ Inner.for = "group" /\ cur = ")" /\ read' = Append(read, cur)
      /\ active' = Front(active) /\ point' = "infix"
  BY EatIs DEF EndGroup, Ended, At, Finish
<1>2. ~InBracket(point)
  BY <1>1 DEF InBracket
<1>3. b # <<>> /\ Kind(Inner, read, Last(b)) /\ read[Last(b)] \in Opening
  BY <1>1, <1>2, InBrackets DEF Brackets
<1>4. cur = Pair(read[Last(b)])
  BY <1>1, <1>3, PairIs DEF Kind
<1>6. MayClose(read, Last(b))
  <2>1. read[Last(b)] = "(" /\ ~IsItems(read, Last(b))
    BY <1>1, <1>3, Zenon DEF Kind, IsItems
  <2> QED
    BY <2>1, Zenon DEF MayClose
<1>5. cur \in Closing /\ MayFollow(read, cur)
  BY <1>1, <1>3, <1>4, <1>6, PairIs, ClosingMayFollow
<1> QED
  BY <1>1, <1>2, <1>5, OperandEnds
-----------------------------------------------------------------------------
(* Items.                                                                  *)

LEMMA EndItemLanguage ==
  ASSUME NEW b, NEW g, NEW w, Ready(b, g, w), EndItem
  PROVE  Advances
<1>1. /\ point = "infix" /\ Inner.for = "items" /\ cur = "," /\ read' = Append(read, cur)
      /\ active' = active /\ point' = "items"
  BY EatIs DEF EndItem, Ended, At, Continue
<1>2. /\ read \in Seq(Word) /\ cur \in Word
      /\ b \in Seq(Nat) /\ g \in Seq(Nat) /\ w \in Seq(Nat) /\ Before
      /\ active \in Seq(Frame) /\ active # <<>> /\ Inner = Last(active)
      /\ Marks(read, b, g) /\ Held(active, read, b, g, w) /\ (InBracket(point) <=> Inside(active, w))
      /\ PointOK(read, b, g, Inner.prec, point, Token)
  BY ReadyIs
<1>3. ~InBracket(point)
  BY <1>1 DEF InBracket
<1>4. b # <<>> /\ IsItems(read, Last(b))
  <2>1. b # <<>> /\ Kind(Inner, read, Last(b))
    BY <1>1, <1>3, InBrackets DEF Brackets
  <2> QED
    BY <1>1, <2>1, Zenon DEF Kind
<1>5. MayFollow(read, cur)
  <2>1. ~AwaitsOperand(read) /\ (read # <<>> => Last(read) # ".")
    BY <1>1, <1>2, AtInfix
  <2>2. InMiddle(read, b, g, cur)
    BY <1>1, <1>4 DEF InMiddle
  <2> QED
    BY <1>2, <2>1, <2>2, MayFollowIs
<1>6. cur \in Separators /\ cur \in Awaiting
  BY <1>1 DEF Separators, Awaiting
<1>0. cur # ":"
  BY <1>1
<1>7. \E g2 \in Seq(Nat) : /\ Marks(Append(read, cur), b, g2) /\ Held(active, Append(read, cur), b, g2, w)
                           /\ Last(g2) = Len(Append(read, cur))
  BY <1>0, <1>2, <1>6, ReadSeparator
<1>8. PICK g2 \in Seq(Nat) : /\ Marks(read', b, g2) /\ Held(active', read', b, g2, w)
                             /\ Last(g2) = Len(read')
  BY <1>1, <1>7
<1>9. AwaitsOperand(read') /\ Last(read') = cur
  BY <1>1, <1>2, <1>6, AwaitsAppend
<1>10. Inner.prec = P_Assignment
  BY <1>1, <1>2, InnerIs
<1>11. PointOK(read', b, g2, Last(active').prec, point', Token')
  BY <1>1, <1>2, <1>4, <1>8, <1>9, <1>10, AtItems
<1>12. InBracket(point') <=> Inside(active', w)
  BY <1>1, <1>2 DEF InBracket
<1> QED
  BY <1>1, <1>2, <1>5, <1>8, <1>11, <1>12, AdvancesBy

LEMMA NextItemLanguage ==
  ASSUME NEW b, NEW g, NEW w, Ready(b, g, w), NextItem
  PROVE  Advances
<1> DEFINE f == [Inner EXCEPT !.n = Inner.n + 1]
<1>1. /\ point = "items" /\ Token # Inner.close /\ read' = read /\ Token' = Token
      /\ active' = Append(Front(active), f) /\ point' = "prefix"
  BY StayIs DEF NextItem, At
<1>2. /\ read \in Seq(Word)
      /\ b \in Seq(Nat) /\ g \in Seq(Nat) /\ w \in Seq(Nat) /\ Before
      /\ active \in Seq(Frame) /\ active # <<>> /\ Inner = Last(active)
      /\ Marks(read, b, g) /\ Held(active, read, b, g, w) /\ (InBracket(point) <=> Inside(active, w))
      /\ PointOK(read, b, g, Inner.prec, point, Token)
  BY ReadyIs
<1>3. Fields(f, Inner.for, Inner.prec, Inner.op, Inner.close, Inner.n + 1, Inner.at)
  <2>1. Inner \in Frame /\ Inner.n + 1 \in Nat
    BY <1>2, Numbers, SMTT(30) DEF Frame
  <2> QED
    BY <2>1, WithN
<1> HIDE DEF f
<1>4. f \in Frame /\ f.for = Inner.for /\ f.prec = Inner.prec /\ f.close = Inner.close /\ f.at = Inner.at
  BY <1>3 DEF Fields
<1>5. Inner.for = "items"
  BY <1>1, <1>2 DEF Before, Place, PlaceOK, Inner
<1>6. Held(active', read', b, g, w) /\ (Inside(active', w) <=> Inside(active, w))
  <2>1. /\ Front(active) \in Seq(Frame) /\ Len(Front(active)) = Len(active) - 1
        /\ \A i \in 1 .. Len(active) - 1 : Front(active)[i] = active[i]
        /\ Len(active) \in Nat \ {0} /\ Last(active) = active[Len(active)]
    BY <1>2, FrontIs
  <2>2. /\ active' \in Seq(Frame) /\ Len(active') = Len(Front(active)) + 1
        /\ \A i \in 1 .. Len(Front(active)) : active'[i] = Front(active)[i]
        /\ active'[Len(Front(active)) + 1] = f
    BY <1>1, <1>4, <2>1, AppendIs
  <2>3. Len(active') = Len(active) /\ active'[Len(active)] = f
    BY <2>1, <2>2
  <2>4. ASSUME NEW k \in 1 .. Len(active)
        PROVE  /\ active'[k].for = active[k].for /\ active'[k].prec = active[k].prec
               /\ active'[k].close = active[k].close /\ active'[k].at = active[k].at
    <3>1. CASE k = Len(active)
      BY <1>2, <1>4, <2>1, <2>3, <3>1
    <3>2. CASE k \in 1 .. Len(active) - 1
      BY <2>1, <2>2, <3>2
    <3>3. k = Len(active) \/ k \in 1 .. Len(active) - 1
      BY <2>1
    <3> QED
      BY <3>1, <3>2, <3>3
  <2> QED
    BY <1>1, <1>2, <2>2, <2>3, <2>4, ShapeKept
<1>7. Last(active') = f
  <2>1. Front(active) \in Seq(Frame)
    BY <1>2, FrontIs
  <2> QED
    BY <1>1, <1>4, <2>1, AppendIs
<1>8. /\ AwaitsOperand(read) /\ (read # <<>> => Last(read) # ".")
      /\ Inner.prec = P_Assignment => Last(g) = Len(read)
      /\ Inner.prec # P_Assignment => ~None(read, b, g)
  BY <1>1, <1>2, AtItems
<1>9. NotSpecial(read', b, Token')
  <2>0. ~InBracket(point)
    BY <1>1 DEF InBracket
  <2>1. Kind(Inner, read, Last(b))
    BY <1>5, <2>0, InBrackets DEF Brackets
  <2>2. IsItems(read, Last(b)) /\ Inner.close = Pair(read[Last(b)])
    BY <1>5, <2>1, Zenon DEF Kind
  <2>3. ~IsIndex(read, Last(b)) /\ Token # Pair(read[Last(b)])
    BY <1>1, <2>2, ItemsOrIndex
  <2> QED
    BY <1>1, <2>3, Zenon DEF NotSpecial
<1>10. PointOK(read', b, g, Last(active').prec, point', Token')
  BY <1>1, <1>4, <1>7, <1>8, <1>9, AtPrefix
<1>11. InBracket(point') <=> Inside(active', w)
  BY <1>1, <1>2, <1>6 DEF InBracket
<1> QED
  BY <1>1, <1>2, <1>6, <1>10, <1>11, AdvancesBy
-----------------------------------------------------------------------------
(* The end of an index and of a slice.                                     *)

\* A slice is closed.
LEMMA SliceEnds ==
  ASSUME NEW b, NEW g, NEW w, Ready(b, g, w), NEW act \in Seq(Frame), act # <<>>, Held(act, read, b, g, w),
         Inside(act, w), cur = "]", MayFollow(read, cur), IsIndex(read, Last(b)),
         HasColon(read, Last(b), Len(read) + 1),
         read' = Append(read, cur), active' = act, point' = "slice"
  PROVE  Advances
<1>1. cur \in Closing
  BY DEF Closing
<1>2. /\ \E b2 \in Seq(Nat), g2 \in Seq(Nat), w2 \in Seq(Nat) :
           /\ Marks(read', b2, g2) /\ Held(act, read', b2, g2, w2) /\ ~Inside(act, w2)
           /\ Last(act).prec = P_Assignment <=> None(read', b2, g2)
      /\ ClosedAt(read', Last(b)) /\ Last(b) \in 1 .. Len(read')
      /\ ~AwaitsOperand(read') /\ Last(read') = cur /\ cur # "."
      /\ IsIndex(read', Last(b)) /\ HasColon(read', Last(b), Len(read'))
  BY <1>1, Closes
<1>3. PICK b2 \in Seq(Nat), g2 \in Seq(Nat), w2 \in Seq(Nat) :
           /\ Marks(read', b2, g2) /\ Held(act, read', b2, g2, w2) /\ ~Inside(act, w2)
           /\ Last(act).prec = P_Assignment <=> None(read', b2, g2)
  BY <1>2
<1>4. Sliced(read')
  <2>1. Last(read') = "]"
    BY <1>2
  <2> QED
    BY <1>2, <2>1, Zenon DEF Sliced
<1>5. PointOK(read', b2, g2, Last(active').prec, point', Token')
  BY <1>2, <1>3, <1>4, AtSlice
<1>6. InBracket(point') <=> Inside(active', w2)
  BY <1>3 DEF InBracket
<1> QED
  BY <1>3, <1>5, <1>6, ReadyIs, AdvancesBy

LEMMA ToEndLanguage ==
  ASSUME NEW b, NEW g, NEW w, Ready(b, g, w), ToEnd
  PROVE  Advances
<1>1. /\ point = "colon" /\ cur = "]" /\ read' = Append(read, cur) /\ active' = active
      /\ point' = "slice"
  BY EatIs DEF ToEnd, At, Continue
<1>2. /\ read \in Seq(Word) /\ cur \in Word
      /\ b \in Seq(Nat) /\ g \in Seq(Nat) /\ w \in Seq(Nat)
      /\ active \in Seq(Frame) /\ active # <<>>
      /\ Marks(read, b, g) /\ Held(active, read, b, g, w) /\ (InBracket(point) <=> Inside(active, w))
      /\ PointOK(read, b, g, Inner.prec, point, Token)
  BY ReadyIs
<1>3. /\ AwaitsOperand(read) /\ (read # <<>> => Last(read) # ".")
      /\ Last(read) = ":" /\ IsIndex(read, Last(b)) /\ HasColon(read, Last(b), Len(read) + 1)
  BY <1>1, <1>2, AtColon
<1>4. Inside(active, w) /\ b # <<>>
  BY <1>1, <1>2, HeldNumbers DEF InBracket
<1>5. MayFollow(read, cur)
  <2>1. ~NotSpecial(read, b, cur)
    BY <1>1, <1>3, <1>4, Zenon DEF NotSpecial
  <2> QED
    BY <1>2, <1>3, <2>1, MayFollowIs
<1> QED
  BY <1>1, <1>2, <1>3, <1>4, <1>5, SliceEnds

LEMMA EndStopLanguage ==
  ASSUME NEW b, NEW g, NEW w, Ready(b, g, w), EndStop
  PROVE  Advances
<1>1. /\ point = "infix" /\ Inner.for = "stop" /\ cur = "]" /\ read' = Append(read, cur)
      /\ active' = Front(active) /\ point' = "slice"
  BY EatIs DEF EndStop, Ended, At, Finish
<1>2. ~InBracket(point)
  BY <1>1 DEF InBracket
<1>3. /\ b # <<>> /\ Kind(Inner, read, Last(b)) /\ read[Last(b)] \in Opening
      /\ Front(active) \in Seq(Frame) /\ Front(active) # <<>>
      /\ Held(Front(active), read, b, g, w) /\ Inside(Front(active), w)
  BY <1>1, <1>2, InBrackets DEF Brackets
<1>4. IsIndex(read, Last(b)) /\ HasColon(read, Last(b), Len(read) + 1)
  BY <1>1, <1>3, Zenon DEF Kind
<1>5. cur = Pair(read[Last(b)])
  BY <1>1, <1>3, <1>4, PairIs DEF IsIndex
<1>7. MayClose(read, Last(b))
  BY <1>4 DEF MayClose, IsIndex
<1>6. MayFollow(read, cur)
  BY <1>1, <1>3, <1>5, <1>7, ClosingMayFollow
<1> QED
  BY <1>1, <1>3, <1>4, <1>6, SliceEnds

LEMMA EndStartLanguage ==
  ASSUME NEW b, NEW g, NEW w, Ready(b, g, w), EndStart
  PROVE  Advances
<1>1. /\ point = "infix" /\ Inner.for = "start" /\ cur \in {":", "]"} /\ read' = Append(read, cur)
      /\ active' = Front(active) /\ point' = IF cur = ":" THEN "colon" ELSE "element"
  BY EatIs, TokenIs DEF EndStart, Ended, At, Finish
<1>2. ~InBracket(point)
  BY <1>1 DEF InBracket
<1>3. /\ b # <<>> /\ Kind(Inner, read, Last(b)) /\ read[Last(b)] \in Opening
      /\ Front(active) \in Seq(Frame) /\ Front(active) # <<>>
      /\ Held(Front(active), read, b, g, w) /\ Inside(Front(active), w)
  BY <1>1, <1>2, InBrackets DEF Brackets
<1>4. IsIndex(read, Last(b)) /\ ~HasColon(read, Last(b), Len(read) + 1)
  BY <1>1, <1>3, Zenon DEF Kind
<1>5. /\ read \in Seq(Word) /\ cur \in Word
      /\ b \in Seq(Nat) /\ g \in Seq(Nat) /\ w \in Seq(Nat) /\ Marks(read, b, g)
      /\ PointOK(read, b, g, Inner.prec, point, Token)
  BY ReadyIs
<1>6. CASE cur = "]"
  <2>1. cur \in Closing /\ point' = "element"
    BY <1>1, <1>6 DEF Closing
  <2>2. cur = Pair(read[Last(b)])
    BY <1>3, <1>4, <1>6, PairIs DEF IsIndex
  <2>0. MayClose(read, Last(b))
    BY <1>4 DEF MayClose, IsIndex
  <2>3. MayFollow(read, cur)
    BY <1>1, <1>3, <2>0, <2>2, ClosingMayFollow
  <2>4. /\ \E b2 \in Seq(Nat), g2 \in Seq(Nat), w2 \in Seq(Nat) :
             /\ Marks(read', b2, g2) /\ Held(active', read', b2, g2, w2) /\ ~Inside(active', w2)
             /\ Last(active').prec = P_Assignment <=> None(read', b2, g2)
        /\ ClosedAt(read', Last(b)) /\ Last(b) \in 1 .. Len(read')
        /\ ~AwaitsOperand(read') /\ Last(read') = cur /\ cur # "."
        /\ IsIndex(read', Last(b)) /\ ~HasColon(read', Last(b), Len(read'))
    BY <1>1, <1>3, <1>4, <2>1, Closes
  <2>5. PICK b2 \in Seq(Nat), g2 \in Seq(Nat), w2 \in Seq(Nat) :
             /\ Marks(read', b2, g2) /\ Held(active', read', b2, g2, w2) /\ ~Inside(active', w2)
             /\ Last(active').prec = P_Assignment <=> None(read', b2, g2)
    BY <2>4
  <2>6. Indexed(read')
    <3>1. Last(read') = "]"
      BY <1>6, <2>4
    <3> QED
      BY <2>4, <3>1, Zenon DEF Indexed
  <2>7. PointOK(read', b2, g2, Last(active').prec, point', Token')
    BY <2>1, <2>4, <2>5, <2>6, AtElement
  <2>8. InBracket(point') <=> Inside(active', w2)
    BY <2>1, <2>5 DEF InBracket
  <2> QED
    BY <1>1, <1>5, <2>3, <2>5, <2>7, <2>8, AdvancesBy
<1>7. CASE cur = ":"
  <2>1. point' = "colon" /\ cur # "."
    BY <1>1, <1>7
  <2>2. MayFollow(read, cur)
    <3>1. ~AwaitsOperand(read) /\ (read # <<>> => Last(read) # ".")
      BY <1>1, <1>5, AtInfix
    <3>2. InMiddle(read, b, g, cur)
      BY <1>3, <1>4, <1>7, Zenon DEF InMiddle
    <3> QED
      BY <1>5, <3>1, <3>2, MayFollowIs
  <2>3. /\ \E g2 \in Seq(Nat) : Marks(read', b, g2) /\ Held(active', read', b, g2, w) /\ Last(g2) = Len(read')
        /\ IsIndex(read', Last(b)) /\ HasColon(read', Last(b), Len(read') + 1)
        /\ AwaitsOperand(read') /\ Last(read') = ":"
    BY <1>1, <1>3, <1>4, <1>5, <1>7, ColonRead
  <2>4. PICK g2 \in Seq(Nat) : Marks(read', b, g2) /\ Held(active', read', b, g2, w) /\ Last(g2) = Len(read')
    BY <2>3
  <2>5. PointOK(read', b, g2, Last(active').prec, point', Token')
    BY <2>1, <2>3, <2>4, AtColon
  <2>6. InBracket(point') <=> Inside(active', w)
    BY <1>1, <1>3, <2>1 DEF InBracket
  <2> QED
    BY <1>1, <1>5, <2>2, <2>4, <2>5, <2>6, AdvancesBy
<1> QED
  BY <1>1, <1>6, <1>7
-----------------------------------------------------------------------------
(* The end of an operand and of an assignment.                             *)

LEMMA NameNone ==
  ASSUME NEW S, NEW s \in Seq(S), NEW b, NEW g, Last(g) \in 0 .. Len(s), Name(s, Last(g))
  PROVE  None(s, b, g)
<1>1. Len(s) \in Nat /\ Len(s) = Last(g) + 1 /\ Last(s) = "name"
  BY DEF Name
<1>2. \A i \in Last(g) + 1 .. Len(s) : i = Len(s)
  BY <1>1
<1>3. s[Len(s)] \notin OperatorTokens
  BY <1>1 DEF Last, OperatorTokens, BinaryTokens
<1> QED
  BY <1>2, <1>3 DEF None, NoOperator

LEMMA MoreThanOne ==
  ASSUME NEW n \in Nat, n >= 1, n # 1 PROVE n > 1
OBVIOUS

\* The activation below the innermost one, where it is not in a bracket.
LEMMA Below ==
  ASSUME NEW b, NEW g, NEW w, Ready(b, g, w), point = "infix", Inner.for \notin Brackets, Inner.for # "statement"
  PROVE  /\ Front(active) \in Seq(Frame) /\ Front(active) # <<>>
         /\ Held(Front(active), read, b, g, w) /\ ~Inside(Front(active), w)
         /\ Last(Front(active)) = active[Len(active) - 1]
<1>1. /\ b \in Seq(Nat) /\ w \in Seq(Nat) /\ Before
      /\ active \in Seq(Frame) /\ active # <<>> /\ Inner = Last(active)
      /\ Held(active, read, b, g, w) /\ (InBracket(point) <=> Inside(active, w))
  BY ReadyIs
<1>2. Len(active) \in Nat /\ Len(active) > 1
  <2>1. Len(active) \in Nat /\ Len(active) >= 1 /\ Len(active) # 1
    BY <1>1, InnerIs
  <2> QED
    BY <2>1, MoreThanOne
<1>3. ~Inside(active, w)
  BY <1>1 DEF InBracket
<1>4. /\ Front(active) \in Seq(Frame) /\ Front(active) # <<>> /\ Held(Front(active), read, b, g, w)
      /\ Inside(Front(active), w) <=> Last(active).for \in Brackets
  BY <1>1, <1>2, <1>3, PopKept
<1>5. Last(Front(active)) = active[Len(active) - 1]
  <2>1. /\ Len(Front(active)) = Len(active) - 1
        /\ \A i \in 1 .. Len(active) - 1 : Front(active)[i] = active[i]
    BY <1>1, FrontIs
  <2> QED
    BY <1>2, <2>1 DEF Last
<1> QED
  BY <1>1, <1>4, <1>5

\* The operand of an operator ends.
LEMMA OperandOver ==
  ASSUME NEW b, NEW g, NEW w, Ready(b, g, w), point = "infix", ~Binds, Inner.for \in {"unary", "binary"},
         read' = read, Token' = Token, active' = Front(active), point' = "infix"
  PROVE  Advances
<1>1. /\ read \in Seq(Word) /\ b \in Seq(Nat) /\ g \in Seq(Nat) /\ w \in Seq(Nat) /\ Before
      /\ Marks(read, b, g) /\ PointOK(read, b, g, Inner.prec, point, Token) /\ Last(g) \in 0 .. Len(read)
  BY ReadyIs
<1>2. Inner.prec # P_Assignment /\ Inner.prec \in 1 .. 12
  BY <1>1, InnerIs
<1>3. ~AwaitsOperand(read) /\ (read # <<>> => Last(read) # ".") /\ ~None(read, b, g)
  BY <1>1, <1>2, AtInfix
<1>4. ~Name(read, Last(g))
  BY <1>1, <1>3, NameNone
<1>5. ~Element(read, b, g)
  BY <1>3, Zenon DEF Element, None
<1>6. cur \notin {".", "[", "("}
  <2> SUFFICES ASSUME cur \in {".", "[", "("} PROVE FALSE
    OBVIOUS
  <2>1. cur # Semicolon
    BY SemicolonIs DEF Opening
  <2>2. cur # "{"
    OBVIOUS
  <2>3. Precedence(cur) = 12
    BY PrecedenceIs
  <2>4. Inner.prec <= Precedence(cur)
    BY <1>2, <2>3
  <2> QED
    BY <2>1, <2>2, <2>4 DEF Binds
<1>t. Token \notin {".", "[", "("}
  BY <1>6, TokenIs
<1>7. PointOK(read', b, g, Last(active').prec, point', Token')
  BY <1>3, <1>4, <1>5, <1>t, AtInfix
<1>8. /\ Held(active', read', b, g, w) /\ ~Inside(active', w)
  BY Below DEF Brackets
<1>9. InBracket(point') <=> Inside(active', w)
  BY <1>8 DEF InBracket
<1> QED
  BY <1>1, <1>7, <1>8, <1>9, AdvancesBy

LEMMA EndUnaryLanguage ==
  ASSUME NEW b, NEW g, NEW w, Ready(b, g, w), EndUnary
  PROVE  Advances
<1>1. /\ point = "infix" /\ ~Binds /\ Inner.for = "unary" /\ read' = read /\ Token' = Token
      /\ active' = Front(active) /\ point' = "infix"
  BY StayIs DEF EndUnary, Ended, At, Finish
<1> QED
  BY <1>1, OperandOver

LEMMA EndBinaryLanguage ==
  ASSUME NEW b, NEW g, NEW w, Ready(b, g, w), EndBinary
  PROVE  Advances
<1>1. /\ point = "infix" /\ ~Binds /\ Inner.for = "binary" /\ read' = read /\ Token' = Token
      /\ active' = Front(active) /\ point' = "infix"
  BY StayIs DEF EndBinary, Ended, At, Finish
<1> QED
  BY <1>1, OperandOver

\* The right side of an assignment ends.
LEMMA RightSideOver ==
  ASSUME NEW b, NEW g, NEW w, Ready(b, g, w), point = "infix", Inner.for \in {"assign", "set"},
         read' = read, Token' = Token, active' = Front(active), point' = "infix"
  PROVE  Advances
<1>1. /\ read \in Seq(Word) /\ b \in Seq(Nat) /\ g \in Seq(Nat) /\ w \in Seq(Nat) /\ Before
      /\ Marks(read, b, g) /\ PointOK(read, b, g, Inner.prec, point, Token)
  BY ReadyIs
<1>2. /\ Held(active', read', b, g, w) /\ ~Inside(active', w)
      /\ Last(active') = active[Len(active) - 1]
  BY Below DEF Brackets
<1>3. Inner.prec = P_Assignment /\ active[Len(active) - 1].prec = P_Assignment
  BY <1>1, InnerIs
<1>4. PointOK(read', b, g, Last(active').prec, point', Token')
  BY <1>1, <1>2, <1>3
<1>5. InBracket(point') <=> Inside(active', w)
  BY <1>2 DEF InBracket
<1> QED
  BY <1>1, <1>2, <1>4, <1>5, AdvancesBy

LEMMA EndAssignLanguage ==
  ASSUME NEW b, NEW g, NEW w, Ready(b, g, w), EndAssign
  PROVE  Advances
<1>1. /\ point = "infix" /\ Inner.for = "assign" /\ read' = read /\ Token' = Token
      /\ active' = Front(active) /\ point' = "infix"
  BY StayIs DEF EndAssign, Ended, At, Finish
<1> QED
  BY <1>1, RightSideOver

LEMMA EndSetLanguage ==
  ASSUME NEW b, NEW g, NEW w, Ready(b, g, w), EndSet
  PROVE  Advances
<1>1. /\ point = "infix" /\ Inner.for = "set" /\ read' = read /\ Token' = Token
      /\ active' = Front(active) /\ point' = "infix"
  BY StayIs DEF EndSet, Ended, At, Finish
<1> QED
  BY <1>1, RightSideOver
-----------------------------------------------------------------------------
(* Where the parser gives up, and the end of the statement.                *)

\* The innermost activation is the statement's: no bracket is open.
LEMMA StatementOnly ==
  ASSUME NEW b, NEW g, NEW w, Ready(b, g, w), point = "infix", Inner.for = "statement"
  PROVE  b = <<>>
<1>1. /\ b \in Seq(Nat) /\ w \in Seq(Nat) /\ Before
      /\ active \in Seq(Frame) /\ active # <<>>
      /\ Held(active, read, b, g, w) /\ (InBracket(point) <=> Inside(active, w))
  BY ReadyIs
<1>2. Len(active) = 1
  BY <1>1, InnerIs
<1>3. ~Inside(active, w)
  BY <1>1 DEF InBracket
<1>4. /\ Len(b) \in Nat /\ DOMAIN w = 1 .. Len(b)
      /\ \A j \in 1 .. Len(b) : w[j] \in 1 .. Len(active)
  BY <1>1, HeldNumbers
<1>5. \A j \in 1 .. Len(b) : w[j] = Len(active)
  BY <1>2, <1>4
<1>6. \A j \in 1 .. Len(b) : FALSE
  BY <1>3, <1>4, <1>5 DEF Inside
<1> QED
  BY <1>1, <1>4, <1>6

LEMMA EndStatementLanguage ==
  ASSUME NEW b, NEW g, NEW w, Ready(b, g, w), EndStatement
  PROVE  MayFollow(read, cur)
<1>1. point = "infix" /\ Inner.for = "statement" /\ cur = Semicolon
  BY DEF EndStatement
<1>2. /\ read \in Seq(Word) /\ b \in Seq(Nat) /\ g \in Seq(Nat) /\ Marks(read, b, g)
      /\ PointOK(read, b, g, Inner.prec, point, Token)
  BY ReadyIs
<1>3. ~AwaitsOperand(read) /\ (read # <<>> => Last(read) # ".")
  BY <1>1, <1>2, AtInfix
<1>4. b = <<>>
  BY <1>1, StatementOnly
<1>5. InMiddle(read, b, g, cur)
  BY <1>1, <1>4, Zenon DEF InMiddle
<1> QED
  BY <1>2, <1>3, <1>5, MayFollowIs

\* What the current token stands for, where an operand or a member is due and elsewhere.
LEMMA StandsDue ==
  ASSUME AwaitsOperand(read) \/ Last(read) = "."
  PROVE  /\ ~quoted => StandsFor(read, cur, quoted) = IF cur \in Names THEN "name" ELSE cur
         /\ quoted /\ cur # "]" => StandsFor(read, cur, quoted) = "literal"
BY Zenon DEF StandsFor
LEMMA StandsElsewhere ==
  ASSUME ~AwaitsOperand(read), Last(read) # "."
  PROVE  StandsFor(read, cur, quoted) = IF quoted /\ cur \notin Spelling(read) THEN "literal" ELSE cur
BY Zenon DEF StandsFor

LEMMA UnknownExpressionLanguage ==
  ASSUME NEW b, NEW g, NEW w, Ready(b, g, w), UnknownExpression
  PROVE  ~MayFollow(read, StandsFor(read, cur, quoted))
<1>1. point = "prefix" /\ Token \notin {"literal", "name", "not", "-", "(", "["} \cup Names
  BY PrefixIs DEF UnknownExpression, Names
<1>2. /\ read \in Seq(Word) /\ b \in Seq(Nat) /\ g \in Seq(Nat) /\ Marks(read, b, g)
      /\ PointOK(read, b, g, Inner.prec, point, Token)
  BY ReadyIs
<1>3. AwaitsOperand(read) /\ (read # <<>> => Last(read) # ".") /\ NotSpecial(read, b, Token)
  BY <1>1, <1>2, AtPrefix
<1>4. StandsFor(read, cur, quoted) = Token
  BY <1>1, <1>3, TokenIs, StandsDue
<1>5. ~MayFollow(read, Token)
  BY <1>1, <1>2, <1>3, MayFollowIs
<1> QED
  BY <1>4, <1>5

LEMMA NoMemberLanguage ==
  ASSUME NEW b, NEW g, NEW w, Ready(b, g, w), NoMember
  PROVE  ~MayFollow(read, StandsFor(read, cur, quoted))
<1>1. point = "member" /\ Token \notin Names
  BY DEF NoMember
<1>2. /\ read \in Seq(Word) /\ b \in Seq(Nat) /\ g \in Seq(Nat) /\ Marks(read, b, g)
      /\ PointOK(read, b, g, Inner.prec, point, Token)
  BY ReadyIs
<1>3. ~AwaitsOperand(read) /\ (read # <<>> => Last(read) = ".")
  BY <1>1, <1>2, AtMember
<1>4. read # <<>>
  BY <1>3 DEF AwaitsOperand
<1>5. StandsFor(read, cur, quoted) # "name"
  <2>1. CASE quoted
    <3>1. Last(read) # ":"
      BY <1>3, <1>4
    <3> QED
      BY <1>3, <1>4, <2>1, <3>1, Zenon DEF StandsFor
  <2>2. CASE ~quoted
    BY <1>1, <1>3, <1>4, <2>2, TokenIs, StandsDue DEF Names
  <2> QED
    BY <2>1, <2>2
<1> QED
  BY <1>2, <1>3, <1>4, <1>5, MayFollowIs

LEMMA PairCloses ==
  ASSUME NEW t PROVE Pair(t) \in Closing
BY DEF Pair, Closing

\* No token but one of a few goes on in the middle.
LEMMA NotInMiddle ==
  ASSUME NEW s, NEW b, NEW g, NEW t, t \notin BinaryTokens \cup {"(", "[", "."},
         t # Semicolon, t \notin Closing, t # ",", t # ":",
         t \in Assignments => ~Name(s, Last(g)), t = "=" => ~Element(s, b, g)
  PROVE  ~InMiddle(s, b, g, t)
<1>1. t # Pair(s[Last(b)])
  BY PairCloses
<1> QED
  BY <1>1, Zenon DEF InMiddle

\* The text stands in the middle of an expression; a string is no operand there.
LEMMA LiteralInMiddle ==
  ASSUME NEW b, NEW g, NEW w, Ready(b, g, w), point = "infix"
  PROVE  ~MayFollow(read, "literal")
<1>1. /\ read \in Seq(Word) /\ b \in Seq(Nat) /\ g \in Seq(Nat) /\ Marks(read, b, g)
      /\ PointOK(read, b, g, Inner.prec, point, Token)
  BY ReadyIs
<1>2. ~AwaitsOperand(read) /\ (read # <<>> => Last(read) # ".")
  BY <1>1, AtInfix
<1>3. /\ "literal" \notin BinaryTokens \cup {"(", "[", "."} /\ "literal" \notin Assignments
      /\ "literal" # Semicolon /\ "literal" \notin Closing
  BY SemicolonIs DEF BinaryTokens, Assignments, Closing
<1>4. ~InMiddle(read, b, g, "literal")
  BY <1>3, NotInMiddle
<1> QED
  BY <1>1, <1>2, <1>4, MayFollowIs

LEMMA Middle ==
  ASSUME NEW b, NEW g, NEW w, Ready(b, g, w), point = "infix", ~quoted \/ cur \in Spelling(read) => ~MayFollow(read, cur)
  PROVE  ~MayFollow(read, StandsFor(read, cur, quoted))
<1>1. read \in Seq(Word) /\ PointOK(read, b, g, Inner.prec, point, Token)
  BY ReadyIs
<1>2. ~AwaitsOperand(read) /\ (read # <<>> => Last(read) # ".")
  BY <1>1, AtInfix
<1>3. Last(read) # "."
  BY <1>2 DEF AwaitsOperand
<1>4. StandsFor(read, cur, quoted) = IF quoted /\ cur \notin Spelling(read) THEN "literal" ELSE cur
  BY <1>2, <1>3, StandsElsewhere
<1>5. ~MayFollow(read, "literal")
  BY LiteralInMiddle
<1> QED
  BY <1>4, <1>5

LEMMA UnexpectedInfixLanguage ==
  ASSUME NEW b, NEW g, NEW w, Ready(b, g, w), UnexpectedInfix
  PROVE  ~MayFollow(read, StandsFor(read, cur, quoted))
<1>0. point = "infix"
  BY DEF UnexpectedInfix
<1> SUFFICES ASSUME ~quoted \/ cur \in Spelling(read) PROVE ~MayFollow(read, cur)
  BY <1>0, Middle
<1>1. /\ cur \notin BinaryTokens /\ Token \notin {"(", "[", "."}
      /\ cur # Semicolon /\ Inner.prec <= Precedence(cur)
  BY DEF UnexpectedInfix, Binds
<1>2. /\ read \in Seq(Word) /\ b \in Seq(Nat) /\ g \in Seq(Nat) /\ Marks(read, b, g) /\ Before
      /\ PointOK(read, b, g, Inner.prec, point, Token)
  BY ReadyIs
<1>4. Inner.prec \in 1 .. 12
  BY <1>2, InnerIs
<1>9. ~quoted /\ cur \notin BinaryTokens \cup {"(", "[", "."} /\ Token = cur
  <2>1. Precedence(cur) \in 0 .. 12 /\ Precedence(cur) >= 1
    BY <1>1, <1>4, PrecedenceIs
  <2>2. cur \in Assignments \cup BinaryTokens \cup {"not", ".", "[", "("}
    BY <2>1, PrecedenceIs
  <2>3. cur \notin Closing /\ cur # ","
    BY <1>1, <2>2 DEF Closing, Assignments
  <2>4. cur \notin Spelling(read)
    BY <1>1, <2>3, Zenon DEF Spelling
  <2> QED
    BY <1>1, <2>4, TokenIs
<1>3. /\ ~AwaitsOperand(read) /\ (read # <<>> => Last(read) # ".")
      /\ Inner.prec = P_Assignment => /\ cur \in Assignments => ~Name(read, Last(g))
                                      /\ cur = "=" => ~Element(read, b, g)
  BY <1>0, <1>2, <1>9, AtInfix
<1>5. \/ cur \in Assignments /\ Inner.prec = P_Assignment
      \/ cur = "not"
  <2>1. Precedence(cur) \in 0 .. 12
    BY PrecedenceIs
  <2>2. Precedence(cur) >= 1
    BY <1>1, <1>4, <2>1
  <2>3. CASE Precedence(cur) = 1
    <3>1. Inner.prec = 1
      BY <1>1, <1>4, <2>3
    <3>2. cur \in Assignments
      BY <2>3, PrecedenceIs
    <3> QED
      BY <3>1, <3>2 DEF P_Assignment
  <2>4. CASE Precedence(cur) > 1
    <3>1. cur \in BinaryTokens \cup {"not", ".", "[", "("}
      BY <2>4, PrecedenceIs
    <3> QED
      BY <1>9, <3>1
  <2> QED
    BY <2>1, <2>2, <2>3, <2>4
<1>6. cur \notin Closing /\ cur # "," /\ cur # ":"
  BY <1>5 DEF Closing, Assignments
<1>7. (cur \in Assignments => ~Name(read, Last(g))) /\ (cur = "=" => ~Element(read, b, g))
  BY <1>3, <1>5 DEF Assignments
<1>8. ~InMiddle(read, b, g, cur)
  BY <1>1, <1>6, <1>7, <1>9, NotInMiddle
<1> QED
  BY <1>2, <1>3, <1>8, MayFollowIs

LEMMA UnexpectedLanguage ==
  ASSUME NEW b, NEW g, NEW w, Ready(b, g, w), Unexpected
  PROVE  ~MayFollow(read, StandsFor(read, cur, quoted))
<1>1. /\ point = "infix" /\ ~Binds /\ ~Follows
  BY DEF Unexpected
<1> SUFFICES ASSUME ~quoted \/ cur \in Spelling(read) PROVE ~MayFollow(read, cur)
  BY <1>1, Middle
<1>2. /\ read \in Seq(Word) /\ b \in Seq(Nat) /\ g \in Seq(Nat) /\ Marks(read, b, g) /\ Before
      /\ PointOK(read, b, g, Inner.prec, point, Token)
  BY ReadyIs
<1>3. ~AwaitsOperand(read) /\ (read # <<>> => Last(read) # ".")
  BY <1>1, <1>2, AtInfix
<1>0. /\ quoted => cur # ":"
      /\ quoted /\ Inner.for = "items" => cur \notin Closing
  <2>1. cur \in Spelling(read) => cur # ":"
    BY SemicolonIs DEF Spelling, BinaryTokens, Closing
  <2>2. ASSUME quoted, Inner.for = "items" PROVE cur \notin Closing
    <3>1. b # <<>> /\ IsItems(read, Last(b))
      BY <1>1, <2>2, MayCloseItems
    <3>2. Innermost(read) = Last(b) /\ Last(b) \in 1 .. Len(read)
      BY <1>2, <3>1, InnermostIs DEF Marks
    <3>3. Innermost(read) > 0
      BY <3>2
    <3>4. cur \in BinaryTokens \cup {",", Semicolon}
      BY <2>2, <3>1, <3>2, <3>3, Zenon DEF Spelling
    <3> QED
      BY <3>4, SemicolonIs DEF BinaryTokens, Closing
  <2> QED
    BY <2>1, <2>2
<1>4. /\ Inner.for = "statement" => cur # Semicolon
      /\ Inner.for = "group" => cur # ")"
      /\ Inner.for = "items" => cur # "," /\ cur # Inner.close
      /\ Inner.for = "start" => cur # ":" /\ cur # "]"
      /\ Inner.for = "stop" => cur # "]"
      /\ Inner.for \in Brackets \cup {"statement"}
  <2>1. Inner.for \in Brackets \cup {"statement"}
    BY <1>1 DEF Follows, Brackets
  <2>2. Inner.for = "items" => Inner.close \in Closing
    BY <1>1, MayCloseItems
  <2>3. /\ Inner.for = "statement" => cur # Semicolon
        /\ Inner.for = "group" => cur # ")"
        /\ Inner.for = "items" => cur # "," /\ Token # Inner.close
        /\ Inner.for = "start" => Token # ":" /\ cur # "]"
        /\ Inner.for = "stop" => cur # "]"
    BY <1>1 DEF Follows
  <2>4. CASE quoted
    BY <1>0, <2>1, <2>2, <2>3, <2>4
  <2>5. CASE ~quoted
    BY <2>1, <2>3, <2>5, TokenIs
  <2> QED
    BY <2>4, <2>5
<1>5. cur \notin BinaryTokens \cup {"(", "[", "."} /\ cur \notin Assignments /\ cur # "="
  <2>1. CASE cur = Semicolon
    BY <2>1, SemicolonIs DEF Opening
  <2>2. CASE cur = "{"
    BY <2>2 DEF BinaryTokens, Assignments
  <2>3. CASE cur \notin {Semicolon, "{"}
    <3>1. Inner.prec = P_Assignment
      <4>1. Inner.for \notin {"unary", "binary"}
        BY <1>4 DEF Brackets
      <4> QED
        BY <1>2, <4>1, InnerIs
    <3>2. ~(1 <= Precedence(cur))
      BY <1>1, <2>3, <3>1 DEF Binds, P_Assignment
    <3>3. /\ cur \in BinaryTokens => Precedence(cur) \in 2 .. 10
          /\ cur \in {".", "[", "("} => Precedence(cur) = 12
          /\ cur \in Assignments => Precedence(cur) = 1
      BY PrecedenceIs
    <3>4. cur \notin BinaryTokens /\ cur \notin {".", "[", "("} /\ cur \notin Assignments
      BY <3>2, <3>3
    <3> QED
      BY <3>4 DEF Assignments
  <2> QED
    BY <2>1, <2>2, <2>3
<1>6. CASE Inner.for = "statement"
  <2>1. b = <<>> /\ cur # Semicolon
    BY <1>1, <1>4, <1>6, StatementOnly
  <2>2. ~InMiddle(read, b, g, cur)
    BY <1>5, <2>1, Zenon DEF InMiddle
  <2> QED
    BY <1>2, <1>3, <2>2, MayFollowIs
<1>7. CASE Inner.for \in Brackets
  <2>1. ~InBracket(point)
    BY <1>1 DEF InBracket
  <2>2. b # <<>> /\ Kind(Inner, read, Last(b))
    BY <1>7, <2>1, InBrackets
  <2>3. /\ cur # Pair(read[Last(b)])
        /\ IsItems(read, Last(b)) => cur # ","
        /\ IsIndex(read, Last(b)) /\ ~HasColon(read, Last(b), Len(read) + 1) => cur # ":"
    <3>1. CASE Inner.for = "group"
      <4>1. read[Last(b)] = "(" /\ ~AfterOperand(read, Last(b))
        BY <2>2, <3>1, Zenon DEF Kind
      <4> QED
        BY <1>4, <3>1, <4>1 DEF Pair, IsItems, IsIndex
    <3>2. CASE Inner.for = "items"
      <4>1. IsItems(read, Last(b)) /\ Inner.close = Pair(read[Last(b)])
        BY <2>2, <3>2, Zenon DEF Kind
      <4>2. ~IsIndex(read, Last(b))
        BY <4>1, ItemsOrIndex
      <4> QED
        BY <1>4, <3>2, <4>1, <4>2
    <3>3. CASE Inner.for \in {"start", "stop"}
      <4>1. /\ IsIndex(read, Last(b))
            /\ Inner.for = "stop" => HasColon(read, Last(b), Len(read) + 1)
        BY <2>2, <3>3, Zenon DEF Kind
      <4>2. ~IsItems(read, Last(b)) /\ Pair(read[Last(b)]) = "]"
        BY <4>1, ItemsOrIndex DEF IsIndex, Pair
      <4> QED
        BY <1>4, <3>3, <4>1, <4>2
    <3> QED
      BY <1>7, <3>1, <3>2, <3>3 DEF Brackets
  <2>4. ~InMiddle(read, b, g, cur)
    BY <1>5, <2>2, <2>3, Zenon DEF InMiddle
  <2> QED
    BY <1>2, <1>3, <2>4, MayFollowIs
<1> QED
  BY <1>4, <1>6, <1>7

LEMMA TooManyArgumentsLanguage ==
  ASSUME NEW b, NEW g, NEW w, Ready(b, g, w), TooManyArguments
  PROVE  ~MayFollow(read, StandsFor(read, cur, quoted))
<1>1. /\ read \in Seq(Word) /\ b \in Seq(Nat) /\ g \in Seq(Nat) /\ Marks(read, b, g) /\ Before
      /\ PointOK(read, b, g, Inner.prec, point, Token)
  BY ReadyIs
<1>2. point \in {"items", "infix"} /\ Token = Inner.close /\ TooMany
  BY DEF TooManyArguments
<1>3. Inner.for = "items"
  <2>1. point = "items" => Inner.for = "items"
    BY <1>1 DEF Before, Place, PlaceOK, Inner
  <2> QED
    BY <2>1 DEF TooManyArguments
<1>4. /\ b # <<>> /\ IsItems(read, Last(b)) /\ Inner.close = Pair(read[Last(b)])
      /\ Inner.close = ")" /\ ~MayClose(read, Last(b))
  BY <1>2, <1>3, MayCloseItems
<1>5. ~quoted /\ cur = ")"
  BY <1>2, <1>4, Spelt DEF Closing
<1>6. ~IsIndex(read, Last(b))
  BY <1>4, ItemsOrIndex
<1>7. CASE point = "items"
  <2>1. AwaitsOperand(read) /\ (read # <<>> => Last(read) # ".")
    BY <1>1, <1>7, AtItems
  <2>2. StandsFor(read, cur, quoted) = ")"
    BY <1>5, <2>1, StandsDue DEF Names
  <2>3. NotSpecial(read, b, ")")
    BY <1>4, <1>6, Zenon DEF NotSpecial
  <2>4. ")" \notin {"literal", "name", "not", "-", "(", "["}
    OBVIOUS
  <2> QED
    BY <1>1, <2>1, <2>2, <2>3, <2>4, MayFollowIs
<1>8. CASE point = "infix"
  <2>1. ~AwaitsOperand(read) /\ (read # <<>> => Last(read) # ".")
    BY <1>1, <1>8, AtInfix
  <2>2. /\ ")" \notin BinaryTokens \cup {"(", "[", "."} /\ ")" \notin Assignments
        /\ ")" # "," /\ ")" # "="
    BY DEF BinaryTokens, Assignments
  <2>3. ~InMiddle(read, b, g, ")")
    BY <1>4, <1>6, <2>2, Zenon DEF InMiddle
  <2>4. ~MayFollow(read, ")")
    BY <1>1, <2>1, <2>3, MayFollowIs
  <2> QED
    BY <1>5, <1>8, <2>4, Middle
<1> QED
  BY <1>2, <1>7, <1>8

LEMMA MistakenStartLanguage ==
  ASSUME NEW b, NEW g, NEW w, Ready(b, g, w), MistakenStart
  PROVE  ColonMistaken
<1>1. /\ read \in Seq(Word) /\ b \in Seq(Nat) /\ g \in Seq(Nat) /\ w \in Seq(Nat)
      /\ active \in Seq(Frame) /\ active # <<>>
      /\ Held(active, read, b, g, w) /\ (InBracket(point) <=> Inside(active, w))
      /\ Marks(read, b, g) /\ PointOK(read, b, g, Inner.prec, point, Token)
  BY ReadyIs
<1>2. point = "bracket" /\ quoted /\ cur = ":"
  BY DEF MistakenStart
<1>3. Last(b) = Len(read) /\ IsIndex(read, Last(b))
  BY <1>1, <1>2, AtBracket
<1>4. b # <<>>
  BY <1>1, <1>2, HeldNumbers DEF InBracket
<1>5. read # <<>>
  <2>1. Last(b) \in 1 .. Len(read)
    BY <1>1, <1>4, InnermostBracket
  <2> QED
    BY <1>1, <2>1
<1> QED
  BY <1>2, <1>3, <1>5, Zenon DEF ColonMistaken
-----------------------------------------------------------------------------
(* The items are counted.                                                  *)

LEMMA CommasAppend ==
  ASSUME NEW S, NEW s \in Seq(S), NEW t \in S, NEW i \in 1 .. Len(s)
  PROVE  /\ Commas(s, i) \in Nat
         /\ Commas(Append(s, t), i)
              = Commas(s, i) + (IF t = "," /\ Depth(s, Len(s) + 1) = Level(s, i) + 1 THEN 1 ELSE 0)
<1> DEFINE r == Append(s, t)
           n == Len(s) + 1
           C == {k \in i + 1 .. Len(s) : s[k] = "," /\ Level(s, k) = Level(s, i) + 1}
           D == {k \in i + 1 .. Len(r) : r[k] = "," /\ Level(r, k) = Level(r, i) + 1}
           more == t = "," /\ Depth(s, Len(s) + 1) = Level(s, i) + 1
<1>1. /\ Len(s) \in Nat /\ Len(r) = n /\ r[n] = t
      /\ \A k \in 1 .. Len(s) : Level(r, k) = Level(s, k) /\ r[k] = s[k]
      /\ Level(r, n) = Depth(s, n) - (IF t \in Closing THEN 1 ELSE 0)
      /\ Depth(s, n) \in Int
  <2>1. Len(s) \in Nat /\ Len(r) = Len(s) + 1 /\ r[Len(s) + 1] = t
    BY AppendIs
  <2>2. n \in Nat \ {0}
    BY <2>1
  <2>3. /\ \A k \in 1 .. Len(s) : Level(r, k) = Level(s, k) /\ r[k] = s[k]
        /\ Level(r, Len(s) + 1) = Depth(s, Len(s) + 1) - (IF t \in Closing THEN 1 ELSE 0)
    BY AgreeAppend
  <2>4. Depth(s, n) \in Int
    BY <2>2, DepthNext
  <2> QED
    BY <2>1, <2>3, <2>4
<1> HIDE DEF r
<1>2. IsFiniteSet(C) /\ Cardinality(C) \in Nat /\ n \notin C
  <2>0. i + 1 \in Int /\ Len(s) \in Int
    BY <1>1
  <2>1. i + 1 \in Int /\ Len(s) \in Int /\ C \in SUBSET (i + 1 .. Len(s))
    BY <2>0
  <2>2. IsFiniteSet(i + 1 .. Len(s))
    BY <2>1, FS_Interval
  <2>3. n \notin i + 1 .. Len(s)
    BY <1>1
  <2> HIDE DEF C, n
  <2> QED
    BY <2>1, <2>2, <2>3, FS_Subset, FS_CardinalityType
<1>0. t = "," => Level(r, n) = Depth(s, n)
  <2>1. t = "," => t \notin Closing
    BY DEF Closing
  <2>2. t \notin Closing => Level(r, n) = Depth(s, n) - 0
    BY <1>1
  <2>3. Depth(s, n) - 0 = Depth(s, n)
    BY <1>1
  <2> QED
    BY <2>1, <2>2, <2>3
<1>9. Level(r, i) = Level(s, i)
  BY <1>1
<1>3. more => t = "," /\ Level(r, n) = Level(r, i) + 1
  BY <1>0, <1>9
<1>4. ~more => ~(t = "," /\ Level(r, n) = Level(r, i) + 1)
  BY <1>0, <1>9
<1>5. Commas(s, i) = Cardinality(C) /\ Commas(r, i) = Cardinality(D)
  BY Zenon DEF Commas
<1>6. ASSUME NEW k PROVE k \in i + 1 .. Len(r) <=> k \in i + 1 .. Len(s) \/ k = n
  BY <1>1
<1>7. CASE more
  <2>1. ASSUME NEW k PROVE k \in D <=> k \in C \cup {n}
    <3>1. k \in i + 1 .. Len(s) => k \in 1 .. Len(s)
      OBVIOUS
    <3> QED
      BY <1>1, <1>3, <1>6, <1>7, <3>1
  <2>2. D = C \cup {n}
    BY <2>1
  <2> HIDE DEF C, D, n
  <2>3. Cardinality(D) = Cardinality(C) + 1
    BY <1>2, <2>2, FS_AddElement
  <2> QED
    BY <1>2, <1>5, <1>7, <2>3 DEF r
<1>8. CASE ~more
  <2>1. ASSUME NEW k PROVE k \in D <=> k \in C
    <3>1. k \in i + 1 .. Len(s) => k \in 1 .. Len(s)
      OBVIOUS
    <3>2. n \notin D
      BY <1>1, <1>4, <1>8
    <3> QED
      BY <1>1, <1>2, <1>6, <3>1, <3>2
  <2>2. D = C
    BY <2>1
  <2> HIDE DEF C, D, n
  <2>3. Cardinality(D) = Cardinality(C) + 0
    BY <1>2, <2>2
  <2> QED
    BY <1>2, <1>5, <1>8, <2>3 DEF r
<1> QED
  BY <1>7, <1>8

\* No comma is read.
Quiet == read' = read \/ \E t \in Word : t # "," /\ read' = Append(read, t)

LEMMA EatQuiet ==
  ASSUME NEW t \in Word, Eat(t), t # "," PROVE Quiet
BY EatIs DEF Quiet
LEMMA StayQuiet ==
  ASSUME Stay PROVE Quiet
BY StayIs DEF Quiet

LEMMA Sums ==
  ASSUME NEW x \in Nat
  PROVE  x + 0 = x /\ (x + 1) + 0 = x + 1
OBVIOUS

\* The count of an activation stays right.
LEMMA CountStays ==
  ASSUME NEW a, NEW due, read \in Seq(Word), Quiet, CountedAt(a, read, due)
  PROVE  CountedAt(a, read', due)
<1> SUFFICES ASSUME a.for = "items" PROVE CountedAt(a, read', due)
  BY Zenon DEF CountedAt
<1>1. /\ a.at \in 1 .. Len(read) /\ (a.op = "CALL" <=> a.close = ")")
      /\ a.n = Commas(read, a.at) + (IF due THEN 0 ELSE 1)
  BY Zenon DEF CountedAt
<1>2. CASE read' = read
  BY <1>1, <1>2, Zenon DEF CountedAt
<1>3. ASSUME NEW t \in Word, t # ",", read' = Append(read, t) PROVE CountedAt(a, read', due)
  <2>1. /\ Commas(read, a.at) \in Nat
        /\ Commas(Append(read, t), a.at) = Commas(read, a.at)
             + (IF t = "," /\ Depth(read, Len(read) + 1) = Level(read, a.at) + 1 THEN 1 ELSE 0)
    BY <1>1, CommasAppend
  <2>4. Commas(Append(read, t), a.at) = Commas(read, a.at) + 0
    BY <1>3, <2>1, Zenon
  <2>2. Commas(read', a.at) = Commas(read, a.at)
    BY <1>3, <2>1, <2>4, Sums, Zenon
  <2>3. a.at \in 1 .. Len(read')
    <3>1. Len(read') = Len(read) + 1 /\ Len(read) \in Nat
      BY <1>3, AppendIs
    <3> QED
      BY <1>1, <3>1
  <2> QED
    BY <1>1, <2>2, <2>3, Zenon DEF CountedAt
<1> QED
  BY <1>2, <1>3 DEF Quiet

LEMMA CountedIs ==
  ASSUME NEW b, NEW g, NEW w, Ready(b, g, w)
  PROVE  /\ read \in Seq(Word) /\ active \in Seq(Frame) /\ Len(active) \in Nat \ {0} /\ DOMAIN active = 1 .. Len(active)
         /\ Inner = active[Len(active)]
         /\ \A k \in 1 .. Len(active) : CountedAt(active[k], read, Due(k))
<1>1. read \in Seq(Word) /\ active \in Seq(Frame) /\ active # <<>>
  BY ReadyIs
<1>2. Len(active) \in Nat \ {0} /\ DOMAIN active = 1 .. Len(active) /\ Inner = active[Len(active)]
  BY <1>1, FrontIs DEF Inner
<1>3. Counted
  BY Zenon DEF Ready
<1> QED
  BY <1>1, <1>2, <1>3, Zenon DEF Counted

LEMMA CountNotDue ==
  ASSUME NEW b, NEW g, NEW w, Ready(b, g, w), Quiet, NEW k \in 1 .. Len(active), k < Len(active) \/ point # "items"
  PROVE  CountedAt(active[k], read', FALSE)
<1>1. /\ read \in Seq(Word) /\ Len(active) \in Nat \ {0} /\ CountedAt(active[k], read, Due(k))
  BY CountedIs
<1>2. ~Due(k)
  BY <1>1 DEF Due
<1>3. CountedAt(active[k], read, FALSE)
  BY <1>1, <1>2, Zenon DEF CountedAt
<1> QED
  BY <1>1, <1>3, CountStays

LEMMA CountedBy ==
  ASSUME \A k \in DOMAIN active' : CountedAt(active'[k], read', FALSE), point' # "items"
  PROVE  Counted'
<1>1. ASSUME NEW k \in DOMAIN active' PROVE CountedAt(active'[k], read', Due(k)')
  <2>1. ~Due(k)'
    BY DEF Due
  <2>2. CountedAt(active'[k], read', FALSE)
    OBVIOUS
  <2> QED
    BY <2>1, <2>2, Zenon DEF CountedAt
<1> QED
  BY <1>1, Zenon DEF Counted

\* The activations are the same, there is one more, or one less.
LEMMA CountedStay ==
  ASSUME NEW b, NEW g, NEW w, Ready(b, g, w), Quiet, active' = active, point # "items", point' # "items"
  PROVE  Counted'
<1>1. DOMAIN active' = 1 .. Len(active)
  BY CountedIs
<1>2. \A k \in 1 .. Len(active) : CountedAt(active'[k], read', FALSE)
  BY CountNotDue
<1> QED
  BY <1>1, <1>2, CountedBy

LEMMA AppendAny ==
  ASSUME NEW S, NEW s \in Seq(S), NEW f
  PROVE  /\ Len(Append(s, f)) = Len(s) + 1 /\ Len(s) \in Nat /\ DOMAIN Append(s, f) = 1 .. Len(s) + 1
         /\ \A i \in 1 .. Len(s) : Append(s, f)[i] = s[i]
         /\ Append(s, f)[Len(s) + 1] = f
<1>1. s \in Seq(S \cup {f}) /\ f \in S \cup {f}
  OBVIOUS
<1> QED
  BY <1>1, AppendIs

LEMMA CountedPush ==
  ASSUME NEW b, NEW g, NEW w, Ready(b, g, w), Quiet, NEW f, active' = Append(active, f), f.for # "items",
         point # "items", point' # "items"
  PROVE  Counted'
<1>1. /\ Len(active) \in Nat /\ DOMAIN active' = 1 .. Len(active) + 1
      /\ \A k \in 1 .. Len(active) : active'[k] = active[k]
      /\ active'[Len(active) + 1] = f
  BY CountedIs, AppendAny
<1>2. ASSUME NEW k \in 1 .. Len(active) + 1 PROVE CountedAt(active'[k], read', FALSE)
  <2>1. CASE k \in 1 .. Len(active)
    BY <1>1, <2>1, CountNotDue
  <2>2. CASE k = Len(active) + 1
    BY <1>1, <2>2, Zenon DEF CountedAt
  <2>3. Len(active) \in Nat
    BY <1>1
  <2>4. k \in 1 .. Len(active) \/ k = Len(active) + 1
    BY <2>3
  <2> QED
    BY <2>1, <2>2, <2>4
<1> QED
  BY <1>1, <1>2, CountedBy

LEMMA CountedPop ==
  ASSUME NEW b, NEW g, NEW w, Ready(b, g, w), Quiet, active' = Front(active), point' # "items"
  PROVE  Counted'
<1>1. /\ Len(active) \in Nat /\ DOMAIN active' = 1 .. Len(active) - 1
      /\ \A k \in 1 .. Len(active) - 1 : active'[k] = active[k]
  <2>1. active \in Seq(Frame) /\ active # <<>>
    BY ReadyIs
  <2>2. /\ Front(active) \in Seq(Frame) /\ Len(Front(active)) = Len(active) - 1 /\ Len(active) \in Nat
        /\ \A i \in 1 .. Len(active) - 1 : Front(active)[i] = active[i]
    BY <2>1, FrontIs
  <2> QED
    BY <2>2
<1>2. ASSUME NEW k \in 1 .. Len(active) - 1 PROVE CountedAt(active'[k], read', FALSE)
  <2>1. k \in 1 .. Len(active) /\ k < Len(active)
    BY <1>1
  <2> QED
    BY <1>1, <2>1, CountNotDue
<1> QED
  BY <1>1, <1>2, CountedBy

\* Items begin: there are none yet.
LEMMA CountedItems ==
  ASSUME NEW b, NEW g, NEW w, Ready(b, g, w), cur \in Opening, point # "items", NEW op, NEW close, Items(op, close),
         op = "CALL" <=> close = ")"
  PROVE  Counted'
<1> DEFINE f == [Activation("items", P_Assignment) EXCEPT !.op = op, !.close = close, !.at = Here]
<1>1. Eat(cur) /\ active' = Append(active, f) /\ point' = "items"
  BY DEF Items, Begin
<1>2. f.for = "items" /\ f.op = op /\ f.close = close /\ f.at = Here /\ f.n = 0
  BY DEF Activation
<1> HIDE DEF f
<1>3. /\ Len(active) \in Nat /\ DOMAIN active' = 1 .. Len(active) + 1 /\ Len(active') = Len(active) + 1
      /\ \A k \in 1 .. Len(active) : active'[k] = active[k]
      /\ active'[Len(active) + 1] = f
  BY <1>1, CountedIs, AppendAny
<1>4. cur \in Word /\ cur # "," /\ Len(read) \in Nat /\ read \in Seq(Word)
  BY ReadyIs DEF Opening
<1>5. Quiet
  BY <1>1, <1>4, EatQuiet
<1>6. Len(read') = Here /\ Here \in 1 .. Len(read')
  <2>0. read' = Append(read, cur)
    BY <1>1, EatIs
  <2>1. Len(read') = Len(read) + 1
    BY <1>4, <2>0, AppendIs
  <2>2. Len(read') = Here /\ Len(read') \in Nat \ {0}
    <3>1. Here = Len(read) + 1
      BY Zenon DEF Here
    <3>2. Len(read) \in Nat
      BY <1>4
    <3> QED
      BY <2>1, <3>1, <3>2
  <2> QED
    BY <2>2
<1>7. Commas(read', f.at) = 0
  <2>1. {k \in f.at + 1 .. Len(read') : read'[k] = "," /\ Level(read', k) = Level(read', f.at) + 1} = {}
    <3>1. \A k \in f.at + 1 .. Len(read') : FALSE
      BY <1>2, <1>6
    <3> QED
      BY <3>1, Zenon
  <2> QED
    BY <2>1, FS_EmptySet, Zenon DEF Commas
<1>8. CountedAt(f, read', TRUE)
  <2>1. f.n = Commas(read', f.at) + 0
    BY <1>2, <1>7
  <2> QED
    BY <1>2, <1>6, <2>1 DEF CountedAt
<1>9. ASSUME NEW k \in DOMAIN active' PROVE CountedAt(active'[k], read', Due(k)')
  <2>1. CASE k \in 1 .. Len(active)
    <3>1. ~Due(k)'
      BY <1>3, <2>1 DEF Due
    <3>2. CountedAt(active'[k], read', FALSE)
      BY <1>3, <1>5, <2>1, CountNotDue
    <3> QED
      BY <3>1, <3>2, Zenon DEF CountedAt
  <2>2. CASE k = Len(active) + 1
    <3>1. Due(k)'
      BY <1>1, <1>3, <2>2 DEF Due
    <3> QED
      BY <1>3, <1>8, <2>2, <3>1, Zenon DEF CountedAt
  <2> QED
    BY <1>3, <2>1, <2>2
<1> QED
  BY <1>9, Zenon DEF Counted

\* An item begins.
LEMMA CountedNext ==
  ASSUME NEW b, NEW g, NEW w, Ready(b, g, w), NextItem
  PROVE  Counted'
<1> DEFINE f == [Inner EXCEPT !.n = Inner.n + 1]
<1>1. point = "items" /\ Stay /\ active' = Append(Front(active), f) /\ point' = "prefix"
  BY DEF NextItem, At
<1>2. /\ read \in Seq(Word) /\ active \in Seq(Frame) /\ Len(active) \in Nat \ {0}
      /\ Inner = active[Len(active)] /\ Inner \in Frame
      /\ \A k \in 1 .. Len(active) : CountedAt(active[k], read, Due(k))
  BY CountedIs, ReadyIs, Numbers
<1>3. /\ f.for = Inner.for /\ f.op = Inner.op /\ f.close = Inner.close /\ f.at = Inner.at
      /\ f.n = Inner.n + 1 /\ Inner.n \in Nat
  BY <1>2 DEF Frame
<1> HIDE DEF f
<1>4. Quiet /\ read' = read
  BY <1>1, StayIs, StayQuiet
<1>5. /\ Front(active) \in Seq(Frame) /\ Len(Front(active)) = Len(active) - 1
      /\ \A i \in 1 .. Len(active) - 1 : Front(active)[i] = active[i]
  <2>1. active # <<>>
    BY ReadyIs
  <2> QED
    BY <1>2, <2>1, FrontIs
<1>6. /\ DOMAIN active' = 1 .. Len(active)
      /\ \A k \in 1 .. Len(active) - 1 : active'[k] = active[k]
      /\ active'[Len(active)] = f
  BY <1>1, <1>2, <1>5, AppendAny
<1>7. CountedAt(f, read', FALSE)
  <2> SUFFICES ASSUME f.for = "items" PROVE CountedAt(f, read', FALSE)
    BY Zenon DEF CountedAt
  <2>1. CountedAt(Inner, read, Due(Len(active)))
    BY <1>2
  <2>2. Due(Len(active))
    BY <1>1 DEF Due
  <2>3. /\ Inner.at \in 1 .. Len(read) /\ (Inner.op = "CALL" <=> Inner.close = ")")
        /\ Inner.n = Commas(read, Inner.at) + 0
    BY <1>3, <2>1, <2>2, Zenon DEF CountedAt
  <2>4. Commas(read, Inner.at) + 1 = Inner.n + 1
    <3>1. Commas(read, Inner.at) \in Nat
      BY <1>2, <2>3, TokensIn, CommasAppend
    <3> QED
      BY <2>3, <3>1
  <2> QED
    BY <1>3, <1>4, <2>3, <2>4, Zenon DEF CountedAt
<1>8. ASSUME NEW k \in 1 .. Len(active) PROVE CountedAt(active'[k], read', FALSE)
  <2>1. CASE k = Len(active)
    BY <1>6, <1>7, <2>1
  <2>2. CASE k \in 1 .. Len(active) - 1
    <3>1. k < Len(active)
      BY <1>2, <2>2
    <3> QED
      BY <1>4, <1>6, <2>2, <3>1, CountNotDue
  <2>3. Len(active) \in Nat
    BY <1>2
  <2>4. k \in 1 .. Len(active) - 1 \/ k = Len(active)
    BY <2>3
  <2> QED
    BY <2>1, <2>2, <2>4
<1> QED
  BY <1>1, <1>6, <1>8, CountedBy

\* A comma counts for the innermost items only.
LEMMA CountedComma ==
  ASSUME NEW b, NEW g, NEW w, Ready(b, g, w), EndItem
  PROVE  Counted'
<1> DEFINE n == Len(active)
<1>1. /\ point = "infix" /\ Inner.for = "items" /\ cur = "," /\ read' = Append(read, cur)
      /\ active' = active /\ point' = "items"
  BY EatIs DEF EndItem, Ended, At, Continue
<1>2. /\ read \in Seq(Word) /\ cur \in Word /\ Len(read) \in Nat
      /\ b \in Seq(Nat) /\ g \in Seq(Nat) /\ w \in Seq(Nat)
      /\ active \in Seq(Frame) /\ active # <<>> /\ Inner = Last(active)
      /\ Marks(read, b, g) /\ Held(active, read, b, g, w) /\ ~Inside(active, w)
  BY <1>1, ReadyIs DEF InBracket
<1>3. /\ n \in Nat \ {0} /\ DOMAIN active = 1 .. n
      /\ \A k \in 1 .. n : CountedAt(active[k], read, Due(k))
  BY CountedIs
<1>4. /\ Len(b) \in Nat /\ Depth(read, Len(read) + 1) = Len(b)
      /\ \A j \in 1 .. Len(b) : Level(read, b[j]) = j - 1
  BY <1>2, MarksNumbers
<1>5. DOMAIN w = 1 .. Len(b) /\ \A j \in 1 .. Len(b) : w[j] \in 1 .. n
  <2>1. /\ active \in Seq(Frame) /\ active # <<>> /\ w \in Seq(Nat) /\ b \in Seq(Nat)
        /\ Held(active, read, b, g, w)
    BY <1>2
  <2> HIDE DEF n
  <2>2. DOMAIN w = 1 .. Len(b) /\ \A j \in 1 .. Len(b) : w[j] \in 1 .. Len(active)
    BY <2>1, HeldNumbers
  <2> QED
    BY <2>2 DEF n
<1>6. Len(b) \in 1 .. Len(b) /\ w[Len(b)] = n - 1
  BY <1>1, <1>2, InnerBracket DEF Brackets
<1> HIDE DEF n
<1>7. ASSUME NEW k \in 1 .. n, active[k].for = "items"
      PROVE  /\ active[k].at \in 1 .. Len(read)
             /\ Depth(read, Len(read) + 1) = Level(read, active[k].at) + 1 <=> k = n
  <2>1. PICK j \in 1 .. Len(b) : w[j] + 1 = k
    <3>1. active[k].for \in Brackets /\ k \in DOMAIN active
      BY <1>3, <1>7 DEF Brackets
    <3>2. \E j \in DOMAIN w : w[j] + 1 = k
      BY <1>2, <3>1, Zenon DEF Held, Owns
    <3> QED
      BY <1>5, <3>2
  <2>2. Kind(active[k], read, b[j])
    <3>1. w[j] < Len(active)
      BY <1>3, <1>5, <2>1 DEF n
    <3>2. Kind(active[w[j] + 1], read, b[j])
      BY <1>2, <1>5, <2>1, <3>1, Zenon DEF Held, Owned
    <3> QED
      BY <2>1, <3>2
  <2>3. active[k].at = b[j]
    BY <1>7, <2>2, Zenon DEF Kind
  <2>4. Level(read, b[j]) = j - 1
    BY <1>4, <2>1
  <2>5. j = Len(b) <=> k = n
    <3>1. CASE j = Len(b)
      BY <1>3, <1>6, <2>1, <3>1
    <3>2. CASE j # Len(b)
      <4>1. j < Len(b)
        BY <1>4, <2>1, <3>2
      <4>2. w[j] < w[Len(b)]
        BY <1>2, <1>5, <1>6, <4>1, Zenon DEF Held, Owns
      <4>3. w[j] \in Nat
        BY <1>3, <1>5, <2>1
      <4> QED
        BY <1>3, <1>6, <2>1, <3>2, <4>2, <4>3
    <3> QED
      BY <3>1, <3>2
  <2>6. active[k].at \in 1 .. Len(read)
    BY <1>3, <1>7, Zenon DEF CountedAt
  <2> QED
    BY <1>4, <2>1, <2>3, <2>4, <2>5, <2>6
<1>8. ASSUME NEW k \in DOMAIN active' PROVE CountedAt(active'[k], read', Due(k)')
  <2> SUFFICES ASSUME active[k].for = "items" PROVE CountedAt(active[k], read', Due(k)')
    BY <1>1, Zenon DEF CountedAt
  <2> DEFINE a == active[k]
  <2>1. k \in 1 .. n
    BY <1>1, <1>3
  <2>2. /\ a.at \in 1 .. Len(read) /\ (a.op = "CALL" <=> a.close = ")")
        /\ a.n = Commas(read, a.at) + (IF Due(k) THEN 0 ELSE 1)
    BY <1>3, <2>1, Zenon DEF CountedAt
  <2>3. ~Due(k) /\ (Due(k)' <=> k = n)
    BY <1>1 DEF Due, n
  <2>4. /\ Commas(read', a.at)
             = Commas(read, a.at) + (IF cur = "," /\ Depth(read, Len(read) + 1) = Level(read, a.at) + 1 THEN 1 ELSE 0)
        /\ Commas(read, a.at) \in Nat
    BY <1>1, <1>2, <2>2, CommasAppend
  <2>5. Depth(read, Len(read) + 1) = Level(read, a.at) + 1 <=> k = n
    BY <1>7, <2>1
  <2>6. a.at \in 1 .. Len(read')
    <3>1. Len(read') = Len(read) + 1
      BY <1>1, <1>2, AppendIs
    <3> QED
      BY <1>2, <2>2, <3>1
  <2> HIDE DEF a
  <2>7. a.n = Commas(read', a.at) + (IF k = n THEN 0 ELSE 1)
    <3>1. a.n = Commas(read, a.at) + 1
      BY <2>2, <2>3, Zenon
    <3>2. CASE k = n
      <4>1. Commas(read', a.at) = Commas(read, a.at) + 1
        BY <1>1, <2>4, <2>5, <3>2, Zenon
      <4> QED
        BY <2>4, <3>1, <3>2, <4>1, Sums, Zenon
    <3>3. CASE k # n
      <4>1. Commas(read', a.at) = Commas(read, a.at) + 0
        BY <2>4, <2>5, <3>3, Zenon
      <4> QED
        BY <2>4, <3>1, <3>3, <4>1, Sums, Zenon
    <3> QED
      BY <3>2, <3>3
  <2>8. a.n = Commas(read', a.at) + (IF Due(k)' THEN 0 ELSE 1)
    BY <2>3, <2>7
  <2>9. CountedAt(a, read', Due(k)')
    BY <2>2, <2>6, <2>8 DEF CountedAt
  <2> QED
    BY <2>9 DEF a
<1> QED
  BY <1>8, Zenon DEF Counted

LEMMA PrefixCounted ==
  ASSUME NEW b, NEW g, NEW w, Ready(b, g, w), ParsePrefix
  PROVE  Counted'
<1>0. cur \in Word
  BY ReadyIs
<1>1. CASE Literal
  <2>1. Quiet
    BY <1>1, TokensIn, EatQuiet DEF Literal
  <2> QED
    BY <1>1, <2>1, CountedStay DEF Literal, At, Continue
<1>2. CASE Identifier
  <2>1. Quiet
    BY <1>2, TokensIn, EatQuiet DEF Identifier
  <2> QED
    BY <1>2, <2>1, CountedStay DEF Identifier, At, Continue
<1>3. CASE Assign
  <2> DEFINE f == [Activation("assign", P_Assignment) EXCEPT !.at = Len(read)]
  <2>1. Quiet
    <3>1. cur # ","
      BY <1>3, Spelt DEF Assign, Assignments
    <3> QED
      BY <1>0, <1>3, <3>1, EatQuiet DEF Assign
  <2>2. f.for # "items"
    BY DEF Activation
  <2>3. active' = Append(active, f) /\ point = "identifier" /\ point' = "prefix"
    BY <1>3 DEF Assign, At, Begin
  <2> HIDE DEF f
  <2> QED
    BY <2>1, <2>2, <2>3, CountedPush
<1>4. CASE Load
  <2>1. Quiet
    BY <1>4, StayQuiet DEF Load
  <2> QED
    BY <1>4, <2>1, CountedStay DEF Load, At, Continue
<1>5. CASE PrefixOperator
  <2> DEFINE f == [Activation("unary", P_Unary) EXCEPT !.op = Prefix[cur], !.at = Here]
  <2>1. Quiet
    <3>1. cur # ","
      BY <1>5, Spelt, PrefixIs DEF PrefixOperator
    <3> QED
      BY <1>0, <1>5, <3>1, EatQuiet DEF PrefixOperator
  <2>2. f.for # "items"
    BY DEF Activation
  <2>3. active' = Append(active, f) /\ point = "prefix" /\ point' = "prefix"
    BY <1>5 DEF PrefixOperator, At, Begin
  <2> HIDE DEF f
  <2> QED
    BY <2>1, <2>2, <2>3, CountedPush
<1>6. CASE Group
  <2> DEFINE f == Activation("group", P_Assignment)
  <2>1. Quiet
    <3>1. cur # ","
      BY <1>6, Spelt DEF Group, Opening
    <3> QED
      BY <1>0, <1>6, <3>1, EatQuiet DEF Group
  <2>2. f.for # "items"
    BY DEF Activation
  <2>3. active' = Append(active, f) /\ point = "prefix" /\ point' = "prefix"
    BY <1>6 DEF Group, At, Begin
  <2> HIDE DEF f
  <2> QED
    BY <2>1, <2>2, <2>3, CountedPush
<1>7. CASE ListLiteral
  <2>1. cur \in Opening /\ point # "items" /\ Items("PACK", "]")
    BY <1>7, Spelt DEF ListLiteral, At, Opening
  <2> QED
    BY <2>1, CountedItems
<1> QED
  BY <1>1, <1>2, <1>3, <1>4, <1>5, <1>6, <1>7 DEF ParsePrefix

LEMMA InfixCounted ==
  ASSUME NEW b, NEW g, NEW w, Ready(b, g, w), ParseInfix
  PROVE  Counted'
<1>0. cur \in Word
  BY ReadyIs
<1>1. CASE Call
  <2>1. cur \in Opening /\ point # "items" /\ Items("CALL", ")")
    BY <1>1, Spelt DEF Call, Infix, At, Opening
  <2> QED
    BY <2>1, CountedItems
<1>2. CASE Subscript
  <2>1. cur # ","
    BY <1>2, Spelt DEF Subscript
  <2>2. Quiet
    BY <1>0, <1>2, <2>1, EatQuiet DEF Subscript
  <2> QED
    BY <1>2, <2>2, CountedStay DEF Subscript, Infix, At, Continue
<1>3. CASE Index
  <2>1. cur # ","
    BY <1>3, Spelt DEF Index, Opening
  <2>2. Quiet
    BY <1>0, <1>3, <2>1, EatQuiet DEF Index
  <2> QED
    BY <1>3, <2>2, CountedStay DEF Index, Infix, At, Continue
<1>4. CASE BinaryOperator
  <2> DEFINE f == [Activation("binary", RightOperand(cur)) EXCEPT !.op = Opcode[cur], !.n = Len(code) + 1, !.at = Here]
  <2>1. cur # ","
    BY <1>4 DEF BinaryOperator, BinaryTokens
  <2>2. Quiet
    BY <1>0, <1>4, <2>1, EatQuiet DEF BinaryOperator
  <2>3. f.for # "items"
    BY DEF Activation
  <2>4. active' = Append(active, f) /\ point = "infix" /\ point' = "prefix"
    BY <1>4 DEF BinaryOperator, Infix, At, Begin
  <2> HIDE DEF f
  <2> QED
    BY <2>2, <2>3, <2>4, CountedPush
<1> QED
  BY <1>1, <1>2, <1>3, <1>4 DEF ParseInfix

LEMMA ItemsCounted ==
  ASSUME NEW b, NEW g, NEW w, Ready(b, g, w), ParseItems
  PROVE  Counted'
<1>0. cur \in Word
  BY ReadyIs
<1>1. CASE NoMoreItems \/ EndItems
  <2>1. point \in {"items", "infix"} /\ Token = Inner.close /\ Eat(cur) /\ active' = Front(active) /\ point' = "infix"
    BY <1>1 DEF NoMoreItems, EndItems, Ended, At, Finish
  <2>2. Inner.for = "items"
    <3>1. point = "items" => Inner.for = "items"
      BY ReadyIs DEF Before, Place, PlaceOK, Inner
    <3> QED
      BY <1>1, <2>1, <3>1 DEF NoMoreItems, EndItems, Ended, At
  <2>3. cur = Inner.close /\ cur # ","
    BY <2>1, <2>2, MayCloseItems, Spelt
  <2>4. Quiet
    BY <1>0, <2>1, <2>3, EatQuiet
  <2> QED
    BY <2>1, <2>4, CountedPop
<1> QED
  BY <1>1, CountedNext, CountedComma DEF ParseItems

LEMMA AccessCounted ==
  ASSUME NEW b, NEW g, NEW w, Ready(b, g, w), ParseAccess
  PROVE  Counted'
<1>0. cur \in Word
  BY ReadyIs
<1>1. CASE Member
  <2>1. Quiet
    BY <1>1, TokensIn, EatQuiet DEF Member
  <2> QED
    BY <1>1, <2>1, CountedStay DEF Member, At, Continue
<1>2. CASE FromStart
  <2>1. cur # ","
    BY <1>2, Spelt DEF FromStart
  <2>2. Quiet
    BY <1>0, <1>2, <2>1, EatQuiet DEF FromStart
  <2> QED
    BY <1>2, <2>2, CountedStay DEF FromStart, At, Continue
<1>3. CASE Start
  <2> DEFINE f == Activation("start", P_Assignment)
  <2>1. Quiet
    BY <1>3, StayQuiet DEF Start
  <2>2. f.for # "items"
    BY DEF Activation
  <2>3. active' = Append(active, f) /\ point = "bracket" /\ point' = "prefix"
    BY <1>3 DEF Start, At, Begin
  <2> HIDE DEF f
  <2> QED
    BY <2>1, <2>2, <2>3, CountedPush
<1>4. CASE ToEnd
  <2>1. cur # ","
    BY <1>4 DEF ToEnd
  <2>2. Quiet
    BY <1>0, <1>4, <2>1, EatQuiet DEF ToEnd
  <2> QED
    BY <1>4, <2>2, CountedStay DEF ToEnd, At, Continue
<1>5. CASE Stop
  <2> DEFINE f == Activation("stop", P_Assignment)
  <2>1. Quiet
    BY <1>5, StayQuiet DEF Stop
  <2>2. f.for # "items"
    BY DEF Activation
  <2>3. active' = Append(active, f) /\ point = "colon" /\ point' = "prefix"
    BY <1>5 DEF Stop, At, Begin
  <2> HIDE DEF f
  <2> QED
    BY <2>1, <2>2, <2>3, CountedPush
<1>6. CASE SetElement
  <2> DEFINE f == Activation("set", P_Assignment)
  <2>1. cur # ","
    BY <1>6, Spelt DEF SetElement
  <2>2. Quiet
    BY <1>0, <1>6, <2>1, EatQuiet DEF SetElement
  <2>3. f.for # "items"
    BY DEF Activation
  <2>4. active' = Append(active, f) /\ point = "element" /\ point' = "prefix"
    BY <1>6 DEF SetElement, At, Begin
  <2> HIDE DEF f
  <2> QED
    BY <2>2, <2>3, <2>4, CountedPush
<1>7. CASE GetElement
  <2>1. Quiet
    BY <1>7, StayQuiet DEF GetElement
  <2> QED
    BY <1>7, <2>1, CountedStay DEF GetElement, At, Continue
<1>8. CASE GetSlice
  <2>1. Token = "=" => cur # ","
    BY Spelt
  <2>2. Quiet
    BY <1>0, <1>8, <2>1, EatQuiet, StayQuiet DEF GetSlice
  <2> QED
    BY <1>8, <2>2, CountedStay DEF GetSlice, At, Continue
<1>9. CASE EndStart
  <2>1. cur # ","
    BY <1>9, TokenIs DEF EndStart
  <2>2. Quiet
    BY <1>0, <1>9, <2>1, EatQuiet DEF EndStart
  <2> QED
    BY <1>9, <2>2, CountedPop DEF EndStart, Finish
<1>10. CASE EndStop
  <2>1. cur # ","
    BY <1>10 DEF EndStop
  <2>2. Quiet
    BY <1>0, <1>10, <2>1, EatQuiet DEF EndStop
  <2> QED
    BY <1>10, <2>2, CountedPop DEF EndStop, Finish
<1> QED
  BY <1>1, <1>2, <1>3, <1>4, <1>5, <1>6, <1>7, <1>8, <1>9, <1>10 DEF ParseAccess

LEMMA EndCounted ==
  ASSUME NEW b, NEW g, NEW w, Ready(b, g, w), EndUnary \/ EndBinary \/ EndAssign \/ EndSet \/ EndGroup
  PROVE  Counted'
<1>1. active' = Front(active) /\ point' = "infix"
  BY DEF EndUnary, EndBinary, EndAssign, EndSet, EndGroup, Finish
<1>2. Quiet
  <2>1. CASE EndGroup
    <3>1. cur \in Word /\ cur # ","
      BY <2>1, ReadyIs DEF EndGroup
    <3> QED
      BY <2>1, <3>1, EatQuiet DEF EndGroup
  <2>2. CASE EndUnary \/ EndBinary \/ EndAssign \/ EndSet
    BY <2>2, StayQuiet DEF EndUnary, EndBinary, EndAssign, EndSet
  <2> QED
    BY <2>1, <2>2
<1> QED
  BY <1>1, <1>2, CountedPop
-----------------------------------------------------------------------------
(* The language that is read.                                              *)

SoFar == read # <<>> => MayFollow(Front(read), Last(read))
InPlace == \E b, g, w \in Seq(Nat) : LanguageOK(active, point, read, Token, b, g, w)
\* The inductive invariant for the language.
InLanguage ==
  SliceRead \/
  /\ SoFar
  /\ phase = "compile" => InPlace /\ Counted
  /\ phase = "rejected" => ColonMistaken \/ ~MayFollow(read, StandsFor(read, cur, quoted))
  /\ phase \notin {"compile", "rejected"} => MayFollow(read, cur)

LEMMA Present0 ==
  ASSUME NEW act, Len(act) = 1, DOMAIN act = {1}, act[1].for = "statement", act[1].prec = P_Assignment, NEW t
  PROVE  LanguageOK(act, "prefix", <<>>, t, <<>>, <<0>>, <<>>)
<1> DEFINE e == <<>>
           z == <<0>>
<1>1. Len(e) = 0 /\ DOMAIN e = {} /\ Len(z) = 1 /\ DOMAIN z = {1} /\ z[1] = 0 /\ Last(z) = 0
  BY DEF Last
<1>2. Nested(e, e)
  <2>1. Depth(e, Len(e) + 1) = 0
    BY <1>1, DepthFirst
  <2> QED
    BY <1>1, <2>1 DEF Nested
<1>3. Begun(e, e, z)
  <2>1. BeginsAt(e, e, 1, 0)
    BY DEF BeginsAt
  <2> QED
    BY <1>1, <2>1 DEF Begun
<1>4. Closed(e, z)
  BY DEF Closed
<1>5. Held(act, e, e, z, e)
  <2>1. \A k \in DOMAIN act : act[k].for \notin Brackets
    BY DEF Brackets
  <2> QED
    BY <1>1, <2>1 DEF Held, Owns, Owned
<1>6. ~InBracket("prefix") /\ ~Inside(act, e)
  BY <1>1 DEF InBracket, Inside
<1>7. PointOK(e, e, z, Last(act).prec, "prefix", t)
  <2>1. AwaitsOperand(e) /\ NotSpecial(e, e, t)
    BY Zenon DEF AwaitsOperand, NotSpecial
  <2>2. Last(act).prec = P_Assignment
    BY DEF Last
  <2> QED
    BY <1>1, <2>1, <2>2, AtPrefix
<1>8. Marks(e, e, z)
  BY <1>2, <1>3, <1>4, Zenon DEF Marks
<1> HIDE DEF e, z
<1>9. LanguageOK(act, "prefix", e, t, e, z, e)
  BY <1>5, <1>6, <1>7, <1>8, Zenon DEF LanguageOK
<1> QED
  BY <1>9 DEF e, z

LEMMA LanguageInit ==
  ASSUME Init
  PROVE  InLanguage
<1>1. read = <<>> /\ phase = "compile" /\ point = "prefix"
  BY DEF Init
<1>2. active = <<Activation("statement", P_Assignment)>>
  BY DEF Init
<1>3. /\ Len(active) = 1 /\ DOMAIN active = {1} /\ active[1].for = "statement" /\ active[1].prec = P_Assignment
  BY <1>2 DEF Activation
<1>4. LanguageOK(active, point, read, Token, <<>>, <<0>>, <<>>)
  BY <1>1, <1>3, Present0
<1>5. <<>> \in Seq(Nat) /\ <<0>> \in Seq(Nat)
  OBVIOUS
<1>6. InPlace
  BY <1>4, <1>5, Zenon DEF InPlace
<1>7. Counted
  BY <1>3 DEF Counted, CountedAt
<1> QED
  BY <1>1, <1>6, <1>7 DEF InLanguage, SoFar

LEMMA FrontAppend ==
  ASSUME NEW S, NEW s \in Seq(S), NEW t \in S
  PROVE  Front(Append(s, t)) = s /\ Last(Append(s, t)) = t
<1>1. /\ Append(s, t) \in Seq(S) /\ Len(Append(s, t)) = Len(s) + 1 /\ Append(s, t) # <<>>
      /\ \A i \in 1 .. Len(s) : Append(s, t)[i] = s[i]
      /\ Last(Append(s, t)) = t
  BY AppendIs
<1> DEFINE r == Append(s, t)
<1>2. /\ Front(r) \in Seq(S) /\ Len(Front(r)) = Len(r) - 1
      /\ \A i \in 1 .. Len(r) - 1 : Front(r)[i] = r[i]
  BY <1>1, FrontIs
<1> HIDE DEF r
<1>3. Len(Front(r)) = Len(s) /\ \A i \in 1 .. Len(s) : Front(r)[i] = s[i]
  BY <1>1, <1>2 DEF r
<1>4. Front(r) = s
  BY <1>2, <1>3
<1> QED
  BY <1>1, <1>4 DEF r

\* A step of the parser keeps to the language.
LEMMA AdvancesKeeps ==
  ASSUME Sized, SoFar, Advances, Counted', phase' = "compile"
  PROVE  InLanguage'
<1>1. read \in Seq(Word)
  BY DEF Sized, InputOK
<1>2. SoFar'
  <2>1. CASE read' = read
    BY <2>1 DEF SoFar
  <2>2. ASSUME NEW t \in Word, read' = Append(read, t), MayFollow(read, t) PROVE SoFar'
    <3>1. Front(read') = read /\ Last(read') = t
      BY <1>1, <2>2, FrontAppend
    <3>2. MayFollow(Front(read'), Last(read'))
      BY <2>2, <3>1
    <3> QED
      BY <3>2, Zenon DEF SoFar
  <2> QED
    BY <2>1, <2>2, Zenon DEF Advances
<1>3. InPlace'
  BY Zenon DEF Advances, InPlace
<1> QED
  BY <1>2, <1>3 DEF InLanguage

\* What has been read stays.
LEMMA SliceKept ==
  ASSUME Sized, SliceRead, read' = read \/ \E t \in Word : read' = Append(read, t)
  PROVE  SliceRead'
<1>1. read \in Seq(Word) /\ Len(read) \in Nat
  BY DEF Sized, InputOK
<1>2. CASE read' = read
  BY <1>2, Zenon DEF SliceRead
<1>3. ASSUME NEW t \in Word, read' = Append(read, t) PROVE SliceRead'
  <2>1. PICK k \in 2 .. Len(read), i \in 1 .. Len(read) :
          /\ read[k] = "=" /\ read[k - 1] = "]"
          /\ Matching(read, k - 1) = i /\ IsIndex(read, i) /\ HasColon(read, i, k - 1)
    BY Zenon DEF SliceRead
  <2>2. k \in 1 .. Len(read) /\ k - 1 \in 1 .. Len(read) /\ k - 1 \in 1 .. Len(read) + 1
    BY <1>1
  <2>3. /\ Len(read') = Len(read) + 1 /\ read' \in Seq(Word) /\ Agree(read', read, Len(read))
        /\ k \in 2 .. Len(read') /\ i \in 1 .. Len(read')
    BY <1>1, <1>3, AppendIs, AgreeAppend
  <2>4. read'[k] = "=" /\ read'[k - 1] = "]"
    BY <2>1, <2>2, <2>3 DEF Agree
  <2>5. Matching(read', k - 1) = i
    BY <1>1, <2>1, <2>2, <2>3, MatchingAgree
  <2>6. IsIndex(read', i)
    <3>1. Len(read) <= Len(read) /\ Len(read) <= Len(read')
      BY <1>1, <2>3
    <3> QED
      BY <1>1, <2>1, <2>3, <3>1, AfterAgree
  <2>7. HasColon(read', i, k - 1)
    BY <1>1, <1>3, <2>1, <2>2, ColonAppend
  <2> QED
    BY <2>3, <2>4, <2>5, <2>6, <2>7, Zenon DEF SliceRead
<1> QED
  BY <1>2, <1>3

LEMMA SliceReadIs ==
  ASSUME SliceRead PROVE SliceAssigned
<1>1. PICK k \in 2 .. Len(read), i \in 1 .. Len(read) :
        /\ read[k] = "=" /\ read[k - 1] = "]"
        /\ Matching(read, k - 1) = i /\ IsIndex(read, i) /\ HasColon(read, i, k - 1)
  BY Zenon DEF SliceRead
<1>2. IsIndex(read, Matching(read, k - 1)) /\ HasColon(read, Matching(read, k - 1), k - 1)
  BY <1>1
<1> QED
  BY <1>1, <1>2, Zenon DEF SliceAssigned
-----------------------------------------------------------------------------
(* Every step keeps to the language.                                       *)

TakesIn == read' = read \/ \E t \in Word : read' = Append(read, t)
LEMMA EatTakes ==
  ASSUME NEW t \in Word, Eat(t) PROVE TakesIn
BY EatIs DEF TakesIn
LEMMA StayTakes ==
  ASSUME Stay PROVE TakesIn
BY StayIs DEF TakesIn

LEMMA NothingRead ==
  ASSUME Sized, InLanguage, SliceRead, [Next]_vars
  PROVE  InLanguage'
<1>0. cur \in Word /\ "literal" \in Word /\ "name" \in Word
  BY TokensIn DEF Sized, InputOK
<1>1. TakesIn
  <2>1. ASSUME ParsePrefix PROVE TakesIn
    BY <1>0, <2>1, EatTakes, StayTakes
       DEF ParsePrefix, Literal, Identifier, Assign, Load, PrefixOperator, Group, ListLiteral, Items
  <2>2. ASSUME ParseInfix PROVE TakesIn
    BY <1>0, <2>2, EatTakes DEF ParseInfix, Call, Subscript, Index, BinaryOperator, Items
  <2>3. ASSUME ParseItems PROVE TakesIn
    BY <1>0, <2>3, EatTakes, StayTakes DEF ParseItems, NextItem, NoMoreItems, EndItem, EndItems
  <2>4. ASSUME ParseAccess PROVE TakesIn
    BY <1>0, <2>4, EatTakes, StayTakes DEF ParseAccess, Member, FromStart, Start, ToEnd, Stop, SetElement,
       GetElement, GetSlice, EndStart, EndStop
  <2>5. ASSUME ParseEnd PROVE TakesIn
    <3>1. ASSUME EndStatement PROVE read' = read
      BY <3>1 DEF EndStatement
    <3> QED
      BY <1>0, <2>5, <3>1, EatTakes, StayTakes DEF TakesIn, ParseEnd, EndUnary, EndBinary, EndAssign, EndSet, EndGroup
  <2>6. ASSUME ParseError PROVE read' = read
    BY <2>6 DEF ParseError, UnknownExpression, UnexpectedInfix, NoMember, Unexpected, MistakenStart,
       TooManyArguments, Reject, compiler
  <2>7. ASSUME LoadOperand \/ Check \/ Operate \/ Halt PROVE read' = read
    BY <2>7 DEF LoadOperand, Check, Operate, Halt, Running, compiler
  <2>8. ASSUME UNCHANGED vars PROVE read' = read
    BY <2>8 DEF vars, compiler
  <2> QED
    BY <2>1, <2>2, <2>3, <2>4, <2>5, <2>6, <2>7, <2>8, Zenon DEF Next, Ending, TakesIn
<1>2. SliceRead'
  BY <1>1, SliceKept DEF TakesIn
<1> QED
  BY <1>2, Zenon DEF InLanguage

LEMMA ReadyBy ==
  ASSUME Sized, InLanguage, ~SliceRead, phase = "compile"
  PROVE  SoFar /\ \E b, g, w : Ready(b, g, w)
<1>1. SoFar /\ InPlace /\ Counted
  BY DEF InLanguage
<1>2. PICK b, g, w \in Seq(Nat) : LanguageOK(active, point, read, Token, b, g, w)
  BY <1>1, Zenon DEF InPlace
<1>3. Ready(b, g, w)
  BY <1>1, <1>2, Zenon DEF Ready
<1> QED
  BY <1>1, <1>3

LEMMA PrefixLanguage ==
  ASSUME Sized, InLanguage, ~SliceRead, ParsePrefix PROVE InLanguage'
<1>1. phase = "compile" /\ phase' = "compile"
  BY DEF ParsePrefix, Literal, Identifier, Assign, Load, PrefixOperator, Group, ListLiteral, At, Compiling
<1>2. PICK b, g, w : Ready(b, g, w)
  BY <1>1, ReadyBy
<1>3. Advances
  BY <1>2, LiteralLanguage, IdentifierLanguage, AssignLanguage, LoadLanguage, PrefixOperatorLanguage,
     GroupLanguage, ListLanguage, Zenon DEF ParsePrefix
<1>4. SoFar
  BY <1>1, ReadyBy
<1>5. Counted'
  BY <1>2, PrefixCounted
<1> QED
  BY <1>1, <1>3, <1>4, <1>5, AdvancesKeeps

LEMMA InfixLanguage ==
  ASSUME Sized, InLanguage, ~SliceRead, ParseInfix PROVE InLanguage'
<1>1. phase = "compile" /\ phase' = "compile"
  BY DEF ParseInfix, Call, Subscript, Index, BinaryOperator, Infix, At, Compiling
<1>2. PICK b, g, w : Ready(b, g, w)
  BY <1>1, ReadyBy
<1>3. Advances
  BY <1>2, CallLanguage, SubscriptLanguage, IndexLanguage, BinaryOperatorLanguage, Zenon DEF ParseInfix
<1>4. SoFar
  BY <1>1, ReadyBy
<1>5. Counted'
  BY <1>2, InfixCounted
<1> QED
  BY <1>1, <1>3, <1>4, <1>5, AdvancesKeeps

LEMMA ItemsStepLanguage ==
  ASSUME Sized, InLanguage, ~SliceRead, ParseItems PROVE InLanguage'
<1>1. phase = "compile" /\ phase' = "compile"
  BY DEF ParseItems, NextItem, NoMoreItems, EndItem, EndItems, Ended, At, Compiling
<1>2. PICK b, g, w : Ready(b, g, w)
  BY <1>1, ReadyBy
<1>3. Advances
  BY <1>2, NextItemLanguage, NoMoreItemsLanguage, EndItemLanguage, EndItemsLanguage, Zenon DEF ParseItems
<1>4. SoFar
  BY <1>1, ReadyBy
<1>5. Counted'
  BY <1>2, ItemsCounted
<1> QED
  BY <1>1, <1>3, <1>4, <1>5, AdvancesKeeps

LEMMA AccessLanguage ==
  ASSUME Sized, InLanguage, ~SliceRead, ParseAccess PROVE InLanguage'
<1>1. phase = "compile" /\ phase' = "compile"
  BY DEF ParseAccess, Member, FromStart, Start, ToEnd, Stop, SetElement, GetElement, GetSlice, EndStart,
     EndStop, Ended, At, Compiling
<1>2. PICK b, g, w : Ready(b, g, w)
  BY <1>1, ReadyBy
<1>3. Advances \/ SliceRead'
  BY <1>2, MemberLanguage, FromStartLanguage, StartLanguage, ToEndLanguage, StopLanguage, SetElementLanguage,
     GetElementLanguage, GetSliceLanguage, EndStartLanguage, EndStopLanguage, Zenon DEF ParseAccess
<1>4. SoFar
  BY <1>1, ReadyBy
<1>7. Counted'
  BY <1>2, AccessCounted
<1>5. ASSUME Advances PROVE InLanguage'
  BY <1>1, <1>4, <1>5, <1>7, AdvancesKeeps
<1>6. ASSUME SliceRead' PROVE InLanguage'
  BY <1>6, Zenon DEF InLanguage
<1> QED
  BY <1>3, <1>5, <1>6

LEMMA EndLanguage ==
  ASSUME Sized, InLanguage, ~SliceRead, ParseEnd PROVE InLanguage'
<1>1. phase = "compile"
  BY DEF ParseEnd, EndUnary, EndBinary, EndAssign, EndSet, EndGroup, EndStatement, Ended, At, Compiling
<1>2. PICK b, g, w : Ready(b, g, w)
  BY <1>1, ReadyBy
<1>3. SoFar
  BY <1>1, ReadyBy
<1>4. ASSUME EndStatement PROVE InLanguage'
  <2>1. MayFollow(read, cur)
    BY <1>2, <1>4, EndStatementLanguage
  <2>2. read' = read /\ cur' = cur /\ phase' \in {"run", "accepted"}
    BY <1>4 DEF EndStatement
  <2>3. phase' \notin {"compile", "rejected"}
    BY <2>2
  <2>4. SoFar' /\ MayFollow(read', cur')
    BY <1>3, <2>1, <2>2 DEF SoFar
  <2> QED
    BY <2>3, <2>4 DEF InLanguage
<1>5. ASSUME EndUnary \/ EndBinary \/ EndAssign \/ EndSet \/ EndGroup PROVE InLanguage'
  <2>1. phase' = "compile"
    BY <1>5 DEF EndUnary, EndBinary, EndAssign, EndSet, EndGroup, Ended, At, Compiling
  <2>2. Advances
    BY <1>2, <1>5, EndUnaryLanguage, EndBinaryLanguage, EndAssignLanguage, EndSetLanguage, EndGroupLanguage, Zenon
  <2>3. Counted'
    BY <1>2, <1>5, EndCounted
  <2> QED
    BY <1>3, <2>1, <2>2, <2>3, AdvancesKeeps
<1> QED
  BY <1>4, <1>5, Zenon DEF ParseEnd

LEMMA ErrorLanguage ==
  ASSUME Sized, InLanguage, ~SliceRead, ParseError PROVE InLanguage'
<1>1. phase = "compile" /\ Reject
  BY DEF ParseError, UnknownExpression, UnexpectedInfix, NoMember, Unexpected, MistakenStart,
     TooManyArguments, Compiling
<1>2. PICK b, g, w : Ready(b, g, w)
  BY <1>1, ReadyBy
<1>3. ColonMistaken \/ ~MayFollow(read, StandsFor(read, cur, quoted))
  BY <1>2, UnknownExpressionLanguage, UnexpectedInfixLanguage, NoMemberLanguage, UnexpectedLanguage,
     MistakenStartLanguage, TooManyArgumentsLanguage, Zenon DEF ParseError
<1>4. SoFar
  BY <1>1, ReadyBy
<1>5. read' = read /\ cur' = cur /\ quoted' = quoted /\ phase' = "rejected"
  BY <1>1 DEF Reject, compiler
<1>6. SoFar' /\ (ColonMistaken' \/ ~MayFollow(read', StandsFor(read', cur', quoted')))
  BY <1>3, <1>4, <1>5 DEF SoFar, ColonMistaken
<1>7. phase' = "rejected" /\ phase' # "compile"
  BY <1>5
<1> QED
  BY <1>6, <1>7 DEF InLanguage

\* The machine reads nothing.
LEMMA Elsewhere ==
  ASSUME InLanguage, ~SliceRead, phase \notin {"compile", "rejected"},
         UNCHANGED compiler, phase' \notin {"compile", "rejected"}
  PROVE  InLanguage'
<1>1. read' = read /\ cur' = cur
  BY DEF compiler
<1>2. SoFar /\ MayFollow(read, cur)
  BY DEF InLanguage
<1>3. SoFar' /\ MayFollow(read', cur')
  BY <1>1, <1>2 DEF SoFar
<1> QED
  BY <1>3 DEF InLanguage

LEMMA ResultPhase ==
  ASSUME phase = "run", NEW v, NEW rest, Result(v, rest)
  PROVE  phase' \notin {"compile", "rejected"}
<1>1. CASE Ends(v)
  <2>1. phase' = v.type
    BY <1>1 DEF Result
  <2> QED
    BY <1>1, <2>1 DEF Ends, Failure, Undetermined, Of
<1>2. CASE ~Ends(v)
  BY <1>2 DEF Result, Proceed
<1> QED
  BY <1>1, <1>2

LEMMA RunLanguage ==
  ASSUME InLanguage, ~SliceRead, LoadOperand \/ Check \/ Operate \/ Halt PROVE InLanguage'
<1>1. phase = "run" /\ UNCHANGED compiler
  BY DEF LoadOperand, Check, Operate, Halt, Running
<1>2. ASSUME LoadOperand \/ Check \/ Halt PROVE phase' \notin {"compile", "rejected"}
  BY <1>1, <1>2 DEF LoadOperand, Check, Halt, Proceed
<1>3. ASSUME Operate PROVE phase' \notin {"compile", "rejected"}
  BY <1>1, <1>3, ResultPhase, Zenon DEF Operate
<1>4. phase' \notin {"compile", "rejected"} /\ phase \notin {"compile", "rejected"}
  BY <1>1, <1>2, <1>3
<1> QED
  BY <1>1, <1>4, Elsewhere

LEMMA StutterLanguage ==
  ASSUME InLanguage, ~SliceRead, UNCHANGED vars PROVE InLanguage'
<1>1. UNCHANGED <<read, cur, quoted, active, point, phase>>
  BY DEF vars, compiler
<1>2. SoFar' <=> SoFar
  BY <1>1, Zenon DEF SoFar
<1>3. (InPlace' <=> InPlace) /\ (Counted' <=> Counted)
  BY <1>1 DEF InPlace, Token, Counted, Due
<1>4. (MayFollow(read', cur') <=> MayFollow(read, cur)) /\ (ColonMistaken' <=> ColonMistaken)
  BY <1>1 DEF ColonMistaken
<1>5. MayFollow(read', StandsFor(read', cur', quoted')) <=> MayFollow(read, StandsFor(read, cur, quoted))
  BY <1>1
<1> QED
  BY <1>1, <1>2, <1>3, <1>4, <1>5 DEF InLanguage

LEMMA InLanguageImplies ==
  ASSUME InLanguage PROVE ReadsTheLanguage
BY SliceReadIs DEF InLanguage, SoFar, ReadsTheLanguage

\* What expression() and the procedures it calls have read is always the beginning
\* of an expression, by rules that look at the text alone; they give up only at a
\* token that no expression goes on with, and end only where one ends.  This is
\* for inputs of any length, any choice of tokens, strings with the spelling of
\* any of them, and any bound on the arguments of a call; but for inputs with "="
\* behind a slice, and for the string ":" as an index, which they reject.
THEOREM ReadsOnlyExpressions == Spec => []ReadsTheLanguage
<1>1. Init => InLanguage
  BY LanguageInit
<1>2. Sized /\ InLanguage /\ [Next]_vars => InLanguage'
  <2> SUFFICES ASSUME Sized, InLanguage, [Next]_vars PROVE InLanguage'
    OBVIOUS
  <2>1. CASE SliceRead
    BY <2>1, NothingRead
  <2>2. CASE ~SliceRead
    BY <2>2, PrefixLanguage, InfixLanguage, ItemsStepLanguage, AccessLanguage, EndLanguage, ErrorLanguage,
       RunLanguage, StutterLanguage, Zenon DEF Next, Ending
  <2> QED
    BY <2>1, <2>2
<1>3. InLanguage => ReadsTheLanguage
  BY InLanguageImplies
<1> QED
  BY <1>1, <1>2, <1>3, Sizes, PTL DEF Spec
=============================================================================
