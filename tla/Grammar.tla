------------------------------ MODULE Grammar ------------------------------
(***************************************************************************)
(* What an expression of SrcLang is, stated without a parser: which token  *)
(* may follow which.  The properties compare the parser of module          *)
(* Expression with it.                                                     *)
(***************************************************************************)
EXTENDS Expression

Opening == {"(", "["}
Closing == {")", "]"}
Pair(t) == IF t = "(" THEN ")" ELSE "]"

\* The tokens after which an operand is due.
AwaitsOperand(s) ==
  s = <<>> \/ Last(s) \in Opening \cup Assignments \cup BinaryTokens \cup {"not", ",", ":"}

\* Position i of s is between operands, not before one.
AfterOperand(s, i) == ~AwaitsOperand(SubSeq(s, 1, i - 1))

\* The brackets open at the end of s, and whether one is open around position i.
Depth(s, i) ==
  Cardinality({k \in 1 .. i - 1 : s[k] \in Opening}) - Cardinality({k \in 1 .. i - 1 : s[k] \in Closing})
Level(s, i) == Depth(s, i) - (IF s[i] \in Closing THEN 1 ELSE 0)
Matching(s, j) == Max({i \in 1 .. j - 1 : s[i] \in Opening /\ Level(s, i) = Level(s, j)})
Innermost(s) ==
  LET end == Len(s) + 1
      open == {i \in DOMAIN s : /\ s[i] \in Opening
                                /\ Depth(s, i) + 1 = Depth(s, end)
                                /\ \A k \in i + 1 .. Len(s) : Level(s, k) > Depth(s, i)}
  IN  IF Depth(s, end) = 0 THEN 0 ELSE Max(open)

\* What a bracket at position i is.
IsItems(s, i) == IF s[i] = "(" THEN AfterOperand(s, i) ELSE ~AfterOperand(s, i)
IsIndex(s, i) == s[i] = "[" /\ AfterOperand(s, i)

\* The part of s since the last token at its level that begins an expression.
Begins(s) ==
  LET here == Depth(s, Len(s) + 1)
      begin == {i \in DOMAIN s : \/ s[i] \in Assignments \cup {",", ":"} /\ Depth(s, i) = here
                                 \/ i = Innermost(s)}
  IN  IF begin = {} THEN 1 ELSE Max(begin) + 1

\* It is a name, or an element of something with no operator around it.
IsName(s) == Len(s) = 1 /\ s[1] = "name"
TopLevel(s) == {i \in DOMAIN s : Level(s, i) = 0}
Operators0(s) == {i \in TopLevel(s) : s[i] \in BinaryTokens \cup {"not"}}
HasColon(s, i, j) == \E k \in i + 1 .. j - 1 : s[k] = ":" /\ Level(s, k) = Level(s, i) + 1
IsElement(s) ==
  /\ Len(s) > 1 /\ Operators0(s) = {}
  /\ \/ s[Len(s) - 1] = "." /\ Last(s) = "name"
     \/ /\ Last(s) = "]" /\ IsIndex(s, Matching(s, Len(s)))
        /\ ~HasColon(s, Matching(s, Len(s)), Len(s))

\* The items that the bracket at position i has so far.
ItemsOf(s, i) ==
  Cardinality({k \in i + 1 .. Len(s) : s[k] = "," /\ Level(s, k) = Level(s, i) + 1})
    + (IF Last(s) \in {s[i], ","} THEN 0 ELSE 1)

\* A call has fewer than UINT8_MAX arguments.
MayClose(s, i) == s[i] = "(" /\ IsItems(s, i) => ItemsOf(s, i) < UINT8_MAX

\* Token t may follow the beginning s of an input.
MayFollow(s, t) ==
  LET i == Innermost(s)
      place == SubSeq(s, Begins(s), Len(s))
  IN  IF s # <<>> /\ Last(s) = "."
        THEN t = "name"
      ELSE IF AwaitsOperand(s)
        THEN \/ t \in {"literal", "name", "not", "-", "(", "["}
             \/ /\ i > 0 /\ IsItems(s, i) /\ t = Pair(s[i]) /\ Last(s) \in {s[i], ","}
                /\ MayClose(s, i)
             \/ i > 0 /\ IsIndex(s, i) /\ i = Len(s) /\ t = ":"
             \/ i > 0 /\ IsIndex(s, i) /\ Last(s) = ":" /\ t = "]"
        ELSE \/ t \in BinaryTokens \cup {"(", "[", "."}
             \/ i = 0 /\ t = Semicolon
             \/ i > 0 /\ t = Pair(s[i]) /\ MayClose(s, i)
             \/ i > 0 /\ IsItems(s, i) /\ t = ","
             \/ i > 0 /\ IsIndex(s, i) /\ ~HasColon(s, i, Len(s) + 1) /\ t = ":"
             \/ t \in Assignments /\ IsName(place)
             \/ t = "=" /\ IsElement(place)

\* What a token behind s stands for.  The words `and' and `or' are names where an
\* operand or a member is due.  A string is an operand there; elsewhere the parser
\* takes it for the operator, comma or semicolon of this spelling, and for the
\* bracket that closes a group, an index or a slice (expect, infix, index).
Spelling(s) ==
  BinaryTokens \cup {",", Semicolon}
    \cup (IF Innermost(s) > 0 /\ IsItems(s, Innermost(s)) THEN {} ELSE Closing)
StandsFor(s, t, string) ==
  LET due == AwaitsOperand(s) \/ Last(s) = "."
      end == s # <<>> /\ Last(s) = ":" /\ t = "]"
  IN  CASE string -> IF (~due \/ end) /\ t \in Spelling(s) THEN t ELSE "literal"
        [] ~string /\ due /\ t \in Names -> "name"
        [] OTHER -> t

\* The string ":" is taken for the beginning of a slice, although it is an index.
ColonMistaken == quoted /\ cur = ":" /\ read # <<>> /\ IsIndex(read, Len(read))

\* The parser has read "=" behind a slice, where it does not belong.
SliceAssigned ==
  \E k \in 2 .. Len(read) :
    /\ read[k] = "=" /\ read[k - 1] = "]"
    /\ LET i == Matching(read, k - 1) IN IsIndex(read, i) /\ HasColon(read, i, k - 1)
-----------------------------------------------------------------------------
(* Properties.                                                             *)

\* The pieces of the state are of their kind: every instruction stands for a
\* token that has been read, and every pending short-circuit jump is a CHK.
TypeOK ==
  /\ read \in Seq(Word) /\ Len(read) <= MaxTokens /\ cur \in Word /\ quoted \in BOOLEAN
  /\ \A i \in DOMAIN code : code[i].a <= MaxTokens /\ code[i].b \in 0 .. 2 * MaxTokens
  /\ \A k \in DOMAIN active : /\ active[k].prec \in P_Assignment .. P_Call
                              /\ active[k].op \in {"AND", "OR"} =>
                                   active[k].n \in DOMAIN code /\ code[active[k].n].op = "CHK"
  /\ phase \in Outcomes \cup {"compile", "run"}
  /\ ip \in 1 .. Len(code) + 1
  /\ Len(stack) <= MaxRun

\* Whatever the parser has read so far, each token taken for what it stands for,
\* is the beginning of an expression by the rules of MayFollow, and where it gives
\* up no expression goes on with what the token it stands at stands for; an input
\* is read to its end or rejected (infix, prefix, call, expect).  Inputs with "="
\* behind a slice are the exception, and the string ":" as an index.
ReadsTheLanguage ==
  SliceAssigned \/
  /\ read # <<>> => MayFollow(Front(read), Last(read))
  /\ phase = "rejected" => ColonMistaken \/ ~MayFollow(read, StandsFor(read, cur, quoted))
  /\ phase \notin {"compile", "rejected"} => MayFollow(read, cur)
=============================================================================
