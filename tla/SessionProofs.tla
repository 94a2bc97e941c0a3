--------------------------- MODULE SessionProofs ---------------------------
(***************************************************************************)
(* What the names of files stand for, what is on the operand stack, and    *)
(* which code runs, for all files, all lines and every depth of imports    *)
(* and eval().                                                             *)
(***************************************************************************)
EXTENDS SessionMeaning, SequenceTheorems, WellFoundedInduction, TLAPS

\* The search path is a sequence, whatever the pragmas of a text say.
SearchInv == \E S : search \in Seq(S)
-----------------------------------------------------------------------------
(* The strengthened invariant of the stack of activities.  Lookup in a     *)
(* search path w among files fs, apart from the state.                     *)

FoundIn(n, w, fs) == {i \in DOMAIN w : <<w[i], n>> \in DOMAIN fs}
SearchIn(n, w, fs) ==
  <<w[CHOOSE i \in FoundIn(n, w, fs) : \A j \in FoundIn(n, w, fs) : i <= j], n>>
RepeatedIn(text, i, w, fs) ==
  \E j \in 1 .. i - 1 : /\ text[j].op = "use"
                        /\ SearchIn(text[j].name, w, fs) = SearchIn(text[i].name, w, fs)

\* What statement i leaves, as Leaves(text, i).
LeavesIn(text, i, w, fs) ==
  CASE text[i].op = "parts" -> 1
    [] text[i].op = "use" /\ RepeatedIn(text, i, w, fs) -> -1
    [] OTHER -> 0

\* Each word of a code with the calls that are open after it, and with the height
\* of the operand stack below the first of them, which falls below zero where a
\* value is dropped that is not there.
DepthAfter(op, depth) ==
  CASE op = "enter" -> depth + 1
    [] op = "leave" -> depth - 1
    [] OTHER -> depth
BaseAfter(op, depth, base) ==
  CASE depth > 0 -> base
    [] depth = 0 /\ op \in {"leave", "eval", "module", "parts"} -> base + 1
    [] depth = 0 /\ op = "drop" -> base - 1
    [] OTHER -> base
Walk(c, d, h) ==
  /\ d \in [0 .. Len(c) -> Nat] /\ h \in [0 .. Len(c) -> Int]
  /\ d[0] = 0 /\ h[0] = 0 /\ d[Len(c)] = 0
  /\ \A i \in 1 .. Len(c) : /\ d[i] = DepthAfter(c[i].op, d[i - 1])
                            /\ h[i] = BaseAfter(c[i].op, d[i], h[i - 1])

\* A code that leaves so many values.
Leaving(c, k) == \E d, h : Walk(c, d, h) /\ h[Len(c)] = k

\* The values that the first n statements of a text have left after each of them.
Tally(text, n, t, w, fs) ==
  /\ t \in [0 .. n -> Int] /\ t[0] = 0
  /\ \A i \in 1 .. n : t[i] = t[i - 1] + LeavesIn(text, i, w, fs)

\* The statements an activity has compiled: their files are found and have been
\* imported, and the code has a place where each of them ends.
Done(a) == IF a.kind = "compile" THEN a.next - 1 ELSE Len(a.text)
Uses(a, i, w, fs) ==
  /\ FoundIn(a.text[i].name, w, fs) # {}
  /\ \E j \in DOMAIN a.imports : a.imports[j] = SearchIn(a.text[i].name, w, fs)
Tallied(a, h, w, fs) ==
  \E t : /\ Tally(a.text, Done(a), t, w, fs)
         /\ t[Done(a)] = h[Len(a.code)]
         /\ \A i \in 0 .. Done(a) : \E p \in 0 .. Len(a.code) : h[p] = t[i]
CodeOK(a, d, h, w, fs) == Walk(a.code, d, h) /\ Tallied(a, h, w, fs)

\* A run is where its code says, and has dropped no value that was not there.
RunAt(a, d, h) ==
  /\ a.next \in 1 .. Len(a.code) + 1
  /\ Len(a.calls) = d[a.next - 1]
  /\ h[a.next - 1] = IF a.calls = <<>> THEN a.height ELSE a.calls[1]
  /\ \A p \in 1 .. a.next - 1 : h[p] >= 0

CompilerOK(a) == a.next \in 1 .. Len(a.text) + 1 /\ a.height = 0 /\ a.calls = <<>>

ActivityOK(a, w, fs) ==
  /\ \A i \in DOMAIN a.imports : a.imports[i] \in DOMAIN fs
  /\ \A i \in 1 .. Done(a) : a.text[i].op = "use" => Uses(a, i, w, fs)
  /\ a.kind = "compile" => CompilerOK(a)
  /\ \E d, h : CodeOK(a, d, h, w, fs) /\ (a.kind = "run" => RunAt(a, d, h))

\* An activity with another above it is compiling a `use' or running an eval().
Waits(a, w, fs) ==
  IF a.kind = "compile"
    THEN /\ a.next \in 1 .. Len(a.text) /\ a.text[a.next].op = "use"
         /\ Uses(a, a.next, w, fs)
         /\ ~RepeatedIn(a.text, a.next, w, fs)
    ELSE a.next \in 1 .. Len(a.code) /\ a.code[a.next].op = "eval"

StackOK(s, w, fs) ==
  /\ s \in Seq(Activity)
  /\ \A k \in 1 .. Len(s) : ActivityOK(s[k], w, fs)
  /\ \A k \in 1 .. Len(s) - 1 : /\ Waits(s[k], w, fs)
                                /\ s[k + 1].kind = "run" => s[k].kind = "run"

StateOK ==
  /\ phase \in {"prompt", "busy", "raise", "abort", "overflow", "exit 0", "exit 1"}
  /\ lines \in 0 .. MaxLines
  /\ search \in Seq(Dir)
  /\ files \in FileSystem
  /\ StackOK(active, search, files)
  /\ phase \in {"busy", "raise"} => active # <<>>
  /\ phase = "prompt" => active = <<>>
-----------------------------------------------------------------------------
(* The search path.                                                        *)

\* A set of natural numbers has a least element.
LEMMA Least ==
  ASSUME NEW T, T \subseteq Nat, T # {}
  PROVE  \E m \in T : \A k \in T : m <= k
<1>1. PICK m \in T : \A k \in T : ~ (<<k, m>> \in OpToRel(<, Nat))
  BY WFMin, NatLessThanWellFounded, Zenon
<1>2. \A k \in T : ~ (k < m)
  BY <1>1, Zenon DEF OpToRel
<1> QED
  BY <1>2

LEMMA Lookup ==
  ASSUME NEW n, NEW w
  PROVE  Found(n, w) = FoundIn(n, w, files) /\ Search(n, w) = SearchIn(n, w, files)
BY DEF Found, FoundIn, Search, SearchIn

LEMMA RepeatedUseIn ==
  ASSUME NEW text, NEW i
  PROVE  RepeatedUse(text, i) <=> RepeatedIn(text, i, search, files)
BY Lookup DEF RepeatedUse, RepeatedIn

\* The search finds the first directory that has the file.
LEMMA FirstFound ==
  ASSUME NEW fs, NEW S, NEW s \in Seq(S), NEW n, FoundIn(n, s, fs) # {}
  PROVE  \E i \in FoundIn(n, s, fs) : /\ \A j \in FoundIn(n, s, fs) : i <= j
                                      /\ SearchIn(n, s, fs) = <<s[i], n>>
<1> DEFINE found == FoundIn(n, s, fs)
           First(x) == \A j \in found : x <= j
           k == CHOOSE x \in found : First(x)
<1>1. found \subseteq Nat
  BY DEF FoundIn
<1>2. PICK i \in found : First(i)
  BY <1>1, Least
<1>3. k \in found /\ First(k)
  BY <1>2
<1>4. SearchIn(n, s, fs) = <<s[k], n>>
  BY DEF SearchIn
<1> QED
  BY <1>3, <1>4

\* What is found is a file there is.
LEMMA FoundFile ==
  ASSUME NEW fs, NEW S, NEW s \in Seq(S), NEW n, FoundIn(n, s, fs) # {}
  PROVE  SearchIn(n, s, fs) \in DOMAIN fs
<1>1. PICK i \in FoundIn(n, s, fs) : SearchIn(n, s, fs) = <<s[i], n>>
  BY FirstFound
<1> QED
  BY <1>1 DEF FoundIn

\* A directory that is added at the end leaves what has been found before.
LEMMA ExtendedKeeps ==
  ASSUME NEW fs, NEW S, NEW s \in Seq(S), NEW d, NEW n, FoundIn(n, s, fs) # {}
  PROVE  /\ FoundIn(n, Append(s, d), fs) # {}
         /\ SearchIn(n, Append(s, d), fs) = SearchIn(n, s, fs)
<1> DEFINE T == S \cup {d}
           t == Append(s, d)
           before == FoundIn(n, s, fs)
           after == FoundIn(n, t, fs)
<1>1. s \in Seq(T) /\ d \in T
  OBVIOUS
<1>2. /\ t \in Seq(T) /\ Len(t) = Len(s) + 1 /\ Len(s) \in Nat
      /\ \A i \in 1 .. Len(s) : t[i] = s[i]
  BY <1>1, AppendProperties
<1> HIDE DEF t, T
<1>3. /\ DOMAIN s = 1 .. Len(s) /\ DOMAIN t = 1 .. Len(t)
  BY <1>1, <1>2
<1>4. before \subseteq after
  BY <1>2, <1>3 DEF FoundIn
<1>5. \A i \in after \ before : i = Len(s) + 1
  BY <1>2, <1>3 DEF FoundIn
<1>6. PICK i \in before : /\ \A j \in before : i <= j
                          /\ SearchIn(n, s, fs) = <<s[i], n>>
  BY FirstFound
<1>7. PICK k \in after : /\ \A j \in after : k <= j
                         /\ SearchIn(n, t, fs) = <<t[k], n>>
  BY <1>2, <1>4, FirstFound
<1>8. i \in 1 .. Len(s) /\ k \in 1 .. Len(s) + 1
  BY <1>2, <1>3 DEF FoundIn
<1>9. k = i
  <2>1. k <= i
    BY <1>4, <1>7
  <2>2. k \in before
    BY <2>1, <1>2, <1>5, <1>8
  <2> QED
    BY <2>1, <2>2, <1>6, <1>8, <1>2
<1> QED
  BY <1>2, <1>4, <1>6, <1>7, <1>8, <1>9 DEF t

\* Only a pragma changes the search path.
LEMMA SearchStep ==
  ASSUME Next
  PROVE  UNCHANGED search \/ \E d : search' = Append(search, d)
<1>1. CASE ReadLine
  BY <1>1 DEF ReadLine
<1>2. CASE Compile
  <2>1. CASE CompilePath
    BY <2>1 DEF CompilePath, Extended
  <2>2. CASE ~CompilePath
    BY <1>2, <2>2 DEF Compile, CompileCode, CompileEval, CompileModule, CompileBad, UseMissing,
       CompileParts, UseAgain, UseIllegal, UseFile, Unwind, EndImport, StartRun, CompileError
  <2> QED
    BY <2>1, <2>2
<1>3. CASE RunStep
  BY <1>3 DEF RunStep, RunCode, RunParts, RunDrop, Enter, Leave, RunModule, RunEval, EndRun, Proceed,
     BreakOff, RuntimeError, Escape, EscapeNested, Finish, Quit
<1>4. CASE Ended
  BY <1>4 DEF Ended, vars
<1> QED
  BY <1>1, <1>2, <1>3, <1>4 DEF Next

LEMMA SearchKeeps ==
  ASSUME SearchInv, [Next]_vars
  PROVE  SearchInv'
<1>1. CASE UNCHANGED search
  BY <1>1 DEF SearchInv
<1>2. CASE \E d : search' = Append(search, d)
  <2>1. PICK S : search \in Seq(S)
    BY DEF SearchInv
  <2>2. PICK d : search' = Append(search, d)
    BY <1>2
  <2>3. search \in Seq(S \cup {d}) /\ d \in S \cup {d}
    BY <2>1
  <2>4. search' \in Seq(S \cup {d})
    BY <2>2, <2>3, AppendProperties
  <2> QED
    BY <2>4 DEF SearchInv
<1> QED
  BY <1>1, <1>2, SearchStep DEF vars
-----------------------------------------------------------------------------
(* Codes.                                                                  *)

LEMMA WordFacts ==
  /\ \A op \in {"code", "parts", "eval", "module", "drop", "enter", "leave"} :
       Word(op) \in Words /\ Word(op).op = op
  /\ Drop = <<Word("drop")>>
BY TextAssumption DEF Word, Words, Drop

LEMMA ConcatAt ==
  ASSUME NEW S, NEW s \in Seq(S), NEW t \in Seq(S)
  PROVE  /\ s \o t \in Seq(S) /\ Len(s \o t) = Len(s) + Len(t)
         /\ \A i \in 1 .. Len(s) : (s \o t)[i] = s[i]
         /\ \A j \in 1 .. Len(t) : (s \o t)[Len(s) + j] = t[j]
<1> DEFINE n == Len(s)
           m == Len(t)
           b == s \o t
<1>1. /\ n \in Nat /\ m \in Nat /\ b \in Seq(S) /\ Len(b) = n + m
      /\ \A i \in 1 .. n + m : b[i] = IF i <= n THEN s[i] ELSE t[i - n]
  BY ConcatProperties, LenProperties
<1> HIDE DEF n, m, b
<1>2. \A i \in 1 .. n : b[i] = s[i]
  BY <1>1
<1>3. ASSUME NEW j \in 1 .. m PROVE b[n + j] = t[j]
  <2>1. n + j \in 1 .. n + m /\ ~ (n + j <= n) /\ (n + j) - n = j
    BY <1>1
  <2> QED
    BY <1>1, <2>1
<1> QED
  BY <1>1, <1>2, <1>3 DEF n, m, b

LEMMA BaseShift ==
  ASSUME NEW op, NEW depth \in Nat, NEW g \in Int, NEW b \in Int
  PROVE  BaseAfter(op, depth, g + b) = g + BaseAfter(op, depth, b)
<1>1. CASE depth > 0
  BY <1>1 DEF BaseAfter
<1>2. CASE depth = 0 /\ op \in {"leave", "eval", "module", "parts"}
  <2>1. BaseAfter(op, depth, g + b) = (g + b) + 1 /\ BaseAfter(op, depth, b) = b + 1
    BY <1>2 DEF BaseAfter
  <2> QED
    BY <2>1
<1>3. CASE depth = 0 /\ op = "drop"
  <2>1. BaseAfter(op, depth, g + b) = (g + b) - 1 /\ BaseAfter(op, depth, b) = b - 1
    BY <1>3 DEF BaseAfter
  <2> QED
    BY <2>1
<1>4. CASE depth = 0 /\ op \notin {"leave", "eval", "module", "parts", "drop"}
  <2>1. BaseAfter(op, depth, g + b) = g + b /\ BaseAfter(op, depth, b) = b
    BY <1>4 DEF BaseAfter
  <2> QED
    BY <2>1
<1> QED
  BY <1>1, <1>2, <1>3, <1>4

\* Codes in a row leave what they leave together, and the first of them is gone
\* through as before.
LEMMA WalkConcat ==
  ASSUME NEW S, NEW c \in Seq(S), NEW e \in Seq(S), NEW d, NEW h, Walk(c, d, h),
         NEW k, Leaving(e, k)
  PROVE  \E d3, h3 :
           /\ Walk(c \o e, d3, h3)
           /\ \A i \in 0 .. Len(c) : h3[i] = h[i]
           /\ h3[Len(c \o e)] = h[Len(c)] + k
<1>0. PICK d2, h2 : Walk(e, d2, h2) /\ h2[Len(e)] = k
  BY DEF Leaving
<1> DEFINE n == Len(c)
           m == Len(e)
           b == c \o e
           d3 == [i \in 0 .. n + m |-> IF i <= n THEN d[i] ELSE d2[i - n]]
           h3 == [i \in 0 .. n + m |-> IF i <= n THEN h[i] ELSE h[n] + h2[i - n]]
<1>1. /\ n \in Nat /\ m \in Nat /\ Len(b) = n + m
      /\ \A i \in 1 .. n : b[i] = c[i]
      /\ \A i \in n + 1 .. n + m : b[i] = e[i - n]
  BY ConcatProperties, LenProperties
<1>2. /\ d \in [0 .. n -> Nat] /\ h \in [0 .. n -> Int]
      /\ d[0] = 0 /\ h[0] = 0 /\ d[n] = 0
      /\ \A i \in 1 .. n : /\ d[i] = DepthAfter(c[i].op, d[i - 1])
                           /\ h[i] = BaseAfter(c[i].op, d[i], h[i - 1])
  BY DEF Walk
<1>3. /\ d2 \in [0 .. m -> Nat] /\ h2 \in [0 .. m -> Int]
      /\ d2[0] = 0 /\ h2[0] = 0 /\ d2[m] = 0 /\ h2[m] = k
      /\ \A i \in 1 .. m : /\ d2[i] = DepthAfter(e[i].op, d2[i - 1])
                           /\ h2[i] = BaseAfter(e[i].op, d2[i], h2[i - 1])
  BY <1>0 DEF Walk
<1> HIDE DEF n, m, b
<1>t. h[n] \in Int /\ n \in 0 .. n /\ m \in 0 .. m
  BY <1>1, <1>2
<1>4. /\ d3 \in [0 .. n + m -> Nat] /\ h3 \in [0 .. n + m -> Int]
  BY <1>1, <1>2, <1>3, <1>t
<1>5. /\ \A i \in 0 .. n : d3[i] = d[i] /\ h3[i] = h[i]
      /\ \A i \in 0 .. m : d3[n + i] = d2[i] /\ h3[n + i] = h[n] + h2[i]
  <2>1. \A i \in 0 .. n : i \in 0 .. n + m /\ i <= n
    BY <1>1
  <2>2. \A i \in 0 .. n : d3[i] = d[i] /\ h3[i] = h[i]
    BY <2>1
  <2>3. ASSUME NEW i \in 0 .. m PROVE d3[n + i] = d2[i] /\ h3[n + i] = h[n] + h2[i]
    <3>1. CASE i = 0
      <4>1. n + i = n
        BY <1>1, <3>1
      <4>2. d3[n] = d[n] /\ h3[n] = h[n]
        BY <1>t, <2>2
      <4>3. h[n] + 0 = h[n]
        BY <1>t
      <4> QED
        BY <3>1, <4>1, <4>2, <4>3, <1>2, <1>3
    <3>2. CASE i # 0
      <4>1. n + i \in 0 .. n + m /\ ~(n + i <= n) /\ (n + i) - n = i
        BY <1>1, <3>2
      <4> QED
        BY <4>1
    <3> QED
      BY <3>1, <3>2
  <2> QED
    BY <2>2, <2>3
<1> HIDE DEF d3, h3
<1>6. \A i \in 1 .. n + m : /\ d3[i] = DepthAfter(b[i].op, d3[i - 1])
                            /\ h3[i] = BaseAfter(b[i].op, d3[i], h3[i - 1])
  <2> SUFFICES ASSUME NEW i \in 1 .. n + m
               PROVE  /\ d3[i] = DepthAfter(b[i].op, d3[i - 1])
                      /\ h3[i] = BaseAfter(b[i].op, d3[i], h3[i - 1])
    OBVIOUS
  <2>1. CASE i <= n
    <3>1. i \in 1 .. n /\ i \in 0 .. n /\ i - 1 \in 0 .. n
      BY <2>1, <1>1
    <3> QED
      BY <3>1, <1>1, <1>2, <1>5
  <2>2. CASE i > n
    <3>1. i - n \in 1 .. m /\ i - n \in 0 .. m /\ (i - n) - 1 \in 0 .. m
          /\ n + (i - n) = i /\ n + ((i - n) - 1) = i - 1 /\ i \in n + 1 .. n + m
      BY <2>2, <1>1
    <3> DEFINE j == i - n
    <3>2. /\ d3[i] = d2[j] /\ h3[i] = h[n] + h2[j]
          /\ d3[i - 1] = d2[j - 1] /\ h3[i - 1] = h[n] + h2[j - 1]
      BY <3>1, <1>5
    <3>3. b[i] = e[j]
      BY <3>1, <1>1
    <3>4. /\ d2[j] = DepthAfter(e[j].op, d2[j - 1]) /\ h2[j] = BaseAfter(e[j].op, d2[j], h2[j - 1])
          /\ h2[j - 1] \in Int /\ d2[j] \in Nat
      BY <3>1, <1>3
    <3> HIDE DEF j
    <3>5. BaseAfter(e[j].op, d2[j], h[n] + h2[j - 1]) = h[n] + BaseAfter(e[j].op, d2[j], h2[j - 1])
      BY <3>4, <1>t, BaseShift
    <3> QED
      BY <3>2, <3>3, <3>4, <3>5
  <2> QED
    BY <2>1, <2>2, <1>1
<1>7. d3[0] = 0 /\ h3[0] = 0 /\ d3[n + m] = 0 /\ h3[n + m] = h[n] + k
  BY <1>1, <1>2, <1>3, <1>5, <1>t
<1>8. Walk(b, d3, h3)
  BY <1>1, <1>4, <1>6, <1>7 DEF Walk
<1> QED
  BY <1>1, <1>5, <1>7, <1>8 DEF b, n

LEMMA WalkNone == Leaving(<<>>, 0)
<1> DEFINE z == [i \in 0 .. 0 |-> 0]
<1>1. Walk(<<>>, z, z) /\ z[Len(<<>>)] = 0
  BY DEF Walk
<1> QED
  BY <1>1 DEF Leaving

\* One word, outside of every call.
LEMMA WalkWord ==
  ASSUME NEW w, NEW k \in Int, DepthAfter(w.op, 0) = 0, BaseAfter(w.op, 0, 0) = k
  PROVE  Leaving(<<w>>, k)
<1> DEFINE z == [i \in 0 .. 1 |-> 0]
           h == [i \in 0 .. 1 |-> IF i = 1 THEN k ELSE 0]
           c == <<w>>
<1>1. /\ Len(c) = 1 /\ c[1] = w /\ z[0] = 0 /\ z[1] = 0 /\ h[0] = 0 /\ h[1] = k
      /\ z \in [0 .. 1 -> Nat] /\ h \in [0 .. 1 -> Int]
  OBVIOUS
<1> HIDE DEF z, h, c
<1>2. \A i \in 1 .. 1 : i = 1 /\ i - 1 = 0
  OBVIOUS
<1>3. Walk(c, z, h)
  BY <1>1, <1>2 DEF Walk
<1>4. Leaving(c, k)
  BY <1>1, <1>3 DEF Leaving
<1> QED
  BY <1>4 DEF c

\* An eval() or module with the drop of its value.
LEMMA WalkValue ==
  ASSUME NEW w, w.op \in {"eval", "module"}, NEW v, v.op = "drop"
  PROVE  Leaving(<<w, v>>, 0)
<1> DEFINE z == [i \in 0 .. 2 |-> 0]
           h == [i \in 0 .. 2 |-> IF i = 1 THEN 1 ELSE 0]
           c == <<w, v>>
<1>1. /\ Len(c) = 2 /\ c[1] = w /\ c[2] = v
      /\ z[0] = 0 /\ z[1] = 0 /\ z[2] = 0 /\ h[0] = 0 /\ h[1] = 1 /\ h[2] = 0
      /\ z \in [0 .. 2 -> Nat] /\ h \in [0 .. 2 -> Int]
  OBVIOUS
<1> HIDE DEF z, h, c
<1>2. /\ DepthAfter(w.op, 0) = 0 /\ DepthAfter(v.op, 0) = 0
      /\ BaseAfter(w.op, 0, 0) = 1 /\ BaseAfter(v.op, 0, 1) = 0
  BY DEF DepthAfter, BaseAfter
<1>3. \A i \in 1 .. Len(c) : /\ z[i] = DepthAfter(c[i].op, z[i - 1])
                             /\ h[i] = BaseAfter(c[i].op, z[i], h[i - 1])
  <2> SUFFICES ASSUME NEW i \in 1 .. Len(c)
               PROVE  /\ z[i] = DepthAfter(c[i].op, z[i - 1])
                      /\ h[i] = BaseAfter(c[i].op, z[i], h[i - 1])
    OBVIOUS
  <2>0. i \in 1 .. 2
    BY <1>1
  <2>1. (i = 1 /\ i - 1 = 0) \/ (i = 2 /\ i - 1 = 1)
    BY <2>0
  <2> QED
    BY <2>1, <1>1, <1>2
<1>4. Walk(c, z, h)
  BY <1>1, <1>3 DEF Walk
<1>5. Leaving(c, 0)
  BY <1>1, <1>4 DEF Leaving
<1> QED
  BY <1>5 DEF c

\* The code of an imported file is called, and its value dropped.
LEMMA WalkModule ==
  ASSUME NEW c \in Seq(Words), NEW d, NEW h, Walk(c, d, h)
  PROVE  Leaving(Module(c) \o Drop, 0)
<1> DEFINE n == Len(c)
           b == Module(c) \o Drop
           d2 == [i \in 0 .. n + 3 |-> IF i \in 1 .. n + 1 THEN d[i - 1] + 1 ELSE 0]
           h2 == [i \in 0 .. n + 3 |-> IF i = n + 2 THEN 1 ELSE 0]
           enter == <<Word("enter")>>
           leave == <<Word("leave")>>
<1>0. n \in Nat
  BY LenProperties
<1>1. /\ Len(b) = n + 3
      /\ b[1].op = "enter" /\ b[n + 2].op = "leave" /\ b[n + 3].op = "drop"
      /\ \A i \in 2 .. n + 1 : b[i] = c[i - 1]
  <2>1. /\ enter \in Seq(Words) /\ Len(enter) = 1 /\ enter[1].op = "enter"
        /\ leave \in Seq(Words) /\ Len(leave) = 1 /\ leave[1].op = "leave"
        /\ Drop \in Seq(Words) /\ Len(Drop) = 1 /\ Drop[1].op = "drop"
    BY WordFacts
  <2> DEFINE f == enter \o c
             g == f \o leave
  <2> HIDE DEF enter, leave
  <2>2. /\ f \in Seq(Words) /\ Len(f) = 1 + n /\ f[1] = enter[1]
        /\ \A i \in 1 .. n : f[1 + i] = c[i]
    BY <2>1, ConcatAt
  <2> HIDE DEF f
  <2>3. /\ g \in Seq(Words) /\ Len(g) = (1 + n) + 1 /\ g[(1 + n) + 1] = leave[1]
        /\ \A i \in 1 .. 1 + n : g[i] = f[i]
    <3>0. f \in Seq(Words) /\ leave \in Seq(Words)
      BY <2>1, <2>2
    <3>1. /\ g \in Seq(Words) /\ Len(g) = Len(f) + Len(leave)
          /\ \A i \in 1 .. Len(f) : g[i] = f[i]
          /\ \A j \in 1 .. Len(leave) : g[Len(f) + j] = leave[j]
      BY ONLY <3>0, ConcatAt
    <3> HIDE DEF g
    <3>2. 1 \in 1 .. 1
      OBVIOUS
    <3> QED
      BY <2>1, <2>2, <3>1, <3>2
  <2>4. b = g \o Drop
    BY DEF Module, f, enter, leave
  <2> HIDE DEF g, b
  <2>5. /\ Len(b) = ((1 + n) + 1) + 1 /\ b[((1 + n) + 1) + 1] = Drop[1]
        /\ \A i \in 1 .. (1 + n) + 1 : b[i] = g[i]
    <3>0. g \in Seq(Words) /\ Drop \in Seq(Words)
      BY <2>1, <2>3
    <3>1. /\ b \in Seq(Words) /\ Len(b) = Len(g) + Len(Drop)
          /\ \A i \in 1 .. Len(g) : b[i] = g[i]
          /\ \A j \in 1 .. Len(Drop) : b[Len(g) + j] = Drop[j]
      BY ONLY <3>0, <2>4, ConcatAt
    <3> HIDE DEF b
    <3>2. 1 \in 1 .. 1
      OBVIOUS
    <3> QED
      BY <2>1, <2>3, <3>1, <3>2
  <2> HIDE DEF n
  <2>6. \A i \in 2 .. n + 1 : b[i] = c[i - 1]
    <3> TAKE i \in 2 .. n + 1
    <3>1. i - 1 \in 1 .. n /\ 1 + (i - 1) = i /\ i \in 1 .. 1 + n /\ i \in 1 .. (1 + n) + 1
      BY <1>0
    <3> QED
      BY <3>1, <2>2, <2>3, <2>5
  <2>7. /\ 1 \in 1 .. 1 + n /\ 1 \in 1 .. (1 + n) + 1 /\ (1 + n) + 1 \in 1 .. (1 + n) + 1
        /\ (1 + n) + 1 = n + 2 /\ ((1 + n) + 1) + 1 = n + 3
    BY <1>0
  <2> QED
    BY <2>1, <2>2, <2>3, <2>5, <2>6, <2>7
<1>2. /\ d \in [0 .. n -> Nat] /\ d[0] = 0 /\ d[n] = 0
      /\ \A i \in 1 .. n : d[i] = DepthAfter(c[i].op, d[i - 1])
  BY DEF Walk
<1> HIDE DEF n, b
<1>3. /\ d2 \in [0 .. n + 3 -> Nat] /\ h2 \in [0 .. n + 3 -> Int]
      /\ d2[0] = 0 /\ d2[n + 2] = 0 /\ d2[n + 3] = 0 /\ d2[1] = 1 /\ d2[n + 1] = 1
      /\ h2[0] = 0 /\ h2[n + 2] = 1 /\ h2[n + 3] = 0
      /\ \A i \in 1 .. n + 1 : d2[i] = d[i - 1] + 1 /\ h2[i] = 0
  BY <1>0, <1>2
<1> HIDE DEF d2, h2
<1>4. \A i \in 1 .. n + 3 : /\ d2[i] = DepthAfter(b[i].op, d2[i - 1])
                            /\ h2[i] = BaseAfter(b[i].op, d2[i], h2[i - 1])
  <2> SUFFICES ASSUME NEW i \in 1 .. n + 3
               PROVE  /\ d2[i] = DepthAfter(b[i].op, d2[i - 1])
                      /\ h2[i] = BaseAfter(b[i].op, d2[i], h2[i - 1])
    OBVIOUS
  <2>1. CASE i = 1
    <3>1. i - 1 = 0 /\ 1 \in 1 .. n + 1
      BY <1>0, <2>1
    <3>2. DepthAfter("enter", 0) = 1 /\ BaseAfter("enter", 1, 0) = 0
      BY DEF DepthAfter, BaseAfter
    <3> QED
      BY <1>1, <1>3, <2>1, <3>1, <3>2
  <2>2. CASE i \in 2 .. n + 1
    <3> DEFINE j == i - 1
    <3>1. j \in 1 .. n /\ j \in 1 .. n + 1 /\ i \in 1 .. n + 1 /\ j - 1 \in 0 .. n /\ j \in 0 .. n
      BY <1>0, <2>2
    <3>2. b[i] = c[j] /\ d2[i] = d[j] + 1 /\ d2[j] = d[j - 1] + 1 /\ h2[i] = 0 /\ h2[j] = 0
      BY <1>1, <1>3, <2>2, <3>1
    <3>3. d[j] = DepthAfter(c[j].op, d[j - 1]) /\ d[j] \in Nat /\ d[j - 1] \in Nat
      BY <1>2, <3>1
    <3> HIDE DEF j
    <3>4. d[j] + 1 = DepthAfter(c[j].op, d[j - 1] + 1)
      BY <3>3 DEF DepthAfter
    <3>5. BaseAfter(b[i].op, d[j] + 1, 0) = 0
      BY <3>3 DEF BaseAfter
    <3> QED
      BY <3>2, <3>4, <3>5 DEF j
  <2>3. CASE i = n + 2
    <3>1. i - 1 = n + 1
      BY <1>0, <2>3
    <3>2. h2[n + 1] = 0
      BY <1>0, <1>3
    <3> QED
      BY <1>1, <1>3, <2>3, <3>1, <3>2 DEF DepthAfter, BaseAfter
  <2>4. CASE i = n + 3
    <3>1. i - 1 = n + 2
      BY <1>0, <2>4
    <3> QED
      BY <1>1, <1>3, <2>4, <3>1 DEF DepthAfter, BaseAfter
  <2> QED
    BY <1>0, <2>1, <2>2, <2>3, <2>4
<1>5. Walk(b, d2, h2)
  BY <1>1, <1>3, <1>4 DEF Walk
<1>6. Leaving(b, 0)
  BY <1>1, <1>3, <1>5 DEF Leaving
<1> QED
  BY <1>6 DEF b
-----------------------------------------------------------------------------
(* The stack of activities.                                                *)

LEMMA ActivityFacts ==
  ASSUME NEW a \in Activity
  PROVE  /\ a.kind \in {"compile", "run"} /\ a.text \in Text /\ a.next \in Nat
         /\ a.imports \in Seq(Path) /\ a.code \in Seq(Words)
         /\ a.height \in Nat /\ a.calls \in Seq(Nat)
         /\ a.text \in Seq([op : Op, name : Dir \cup Name \cup {""}, text : Text])
         /\ Len(a.text) \in Nat /\ Len(a.code) \in Nat /\ Done(a) \in Int
<1>1. /\ a.kind \in {"compile", "run"} /\ a.text \in Text /\ a.next \in Nat
      /\ a.imports \in Seq(Path) /\ a.code \in Seq(Words)
      /\ a.height \in Nat /\ a.calls \in Seq(Nat)
  BY DEF Activity
<1>2. a.text \in Seq([op : Op, name : Dir \cup Name \cup {""}, text : Text])
  BY <1>1, TextAssumption
<1>3. Len(a.text) \in Nat /\ Len(a.code) \in Nat
  BY <1>1, <1>2, LenProperties
<1>4. Done(a) \in Int
  <2>1. a.next \in Nat /\ Len(a.text) \in Nat
    BY <1>1, <1>3
  <2> QED
    BY ONLY <2>1 DEF Done
<1> QED
  BY <1>1, <1>2, <1>3, <1>4

\* A directory that is added to the search path changes no use that has found its
\* file.
LEMMA GrownUses ==
  ASSUME NEW fs, NEW S, NEW w \in Seq(S), NEW d, NEW a, NEW i, Uses(a, i, w, fs)
  PROVE  Uses(a, i, Append(w, d), fs)
BY ExtendedKeeps DEF Uses

LEMMA GrownRepeated ==
  ASSUME NEW fs, NEW S, NEW w \in Seq(S), NEW d, NEW a, NEW i, Uses(a, i, w, fs),
         \A j \in 1 .. i - 1 : a.text[j].op = "use" => Uses(a, j, w, fs)
  PROVE  RepeatedIn(a.text, i, Append(w, d), fs) <=> RepeatedIn(a.text, i, w, fs)
<1>1. SearchIn(a.text[i].name, Append(w, d), fs) = SearchIn(a.text[i].name, w, fs)
  BY ExtendedKeeps DEF Uses
<1>2. \A j \in 1 .. i - 1 :
        a.text[j].op = "use" =>
          SearchIn(a.text[j].name, Append(w, d), fs) = SearchIn(a.text[j].name, w, fs)
  <2> TAKE j \in 1 .. i - 1
  <2> HAVE a.text[j].op = "use"
  <2>1. FoundIn(a.text[j].name, w, fs) # {}
    BY DEF Uses
  <2> QED
    BY <2>1, ExtendedKeeps
<1> QED
  BY <1>1, <1>2 DEF RepeatedIn

LEMMA GrownActivity ==
  ASSUME NEW fs, NEW S, NEW w \in Seq(S), NEW d, NEW a \in Activity, ActivityOK(a, w, fs)
  PROVE  ActivityOK(a, Append(w, d), fs)
<1>1. \A i \in 1 .. Done(a) : a.text[i].op = "use" => Uses(a, i, Append(w, d), fs)
  BY GrownUses DEF ActivityOK
<1>2. \A i \in 1 .. Done(a) :
        a.text[i].op = "use" =>
          (RepeatedIn(a.text, i, Append(w, d), fs) <=> RepeatedIn(a.text, i, w, fs))
  <2> SUFFICES ASSUME NEW i \in 1 .. Done(a), a.text[i].op = "use"
               PROVE  RepeatedIn(a.text, i, Append(w, d), fs) <=> RepeatedIn(a.text, i, w, fs)
    OBVIOUS
  <2>0. Done(a) \in Int
    BY ActivityFacts
  <2>1. \A j \in 1 .. i - 1 : j \in 1 .. Done(a)
    BY <2>0
  <2> QED
    BY <2>1, GrownRepeated DEF ActivityOK
<1>3. \A i \in 1 .. Done(a) : LeavesIn(a.text, i, Append(w, d), fs) = LeavesIn(a.text, i, w, fs)
  BY <1>2 DEF LeavesIn
<1>4. \A e, h : CodeOK(a, e, h, w, fs) => CodeOK(a, e, h, Append(w, d), fs)
  <2>1. \A t : Tally(a.text, Done(a), t, w, fs) => Tally(a.text, Done(a), t, Append(w, d), fs)
    BY <1>3 DEF Tally
  <2>2. \A h : Tallied(a, h, w, fs) => Tallied(a, h, Append(w, d), fs)
    BY <2>1 DEF Tallied
  <2> QED
    BY <2>2 DEF CodeOK
<1> QED
  BY <1>1, <1>4 DEF ActivityOK

LEMMA GrownWaits ==
  ASSUME NEW fs, NEW S, NEW w \in Seq(S), NEW d, NEW a \in Activity,
         ActivityOK(a, w, fs), Waits(a, w, fs)
  PROVE  Waits(a, Append(w, d), fs)
<1>1. CASE a.kind = "compile"
  <2>1. Uses(a, a.next, w, fs) /\ Uses(a, a.next, Append(w, d), fs)
    BY <1>1, GrownUses DEF Waits
  <2>2. \A j \in 1 .. a.next - 1 : a.text[j].op = "use" => Uses(a, j, w, fs)
    BY <1>1 DEF ActivityOK, Done
  <2>3. RepeatedIn(a.text, a.next, Append(w, d), fs) <=> RepeatedIn(a.text, a.next, w, fs)
    BY <2>1, <2>2, GrownRepeated
  <2> QED
    BY <1>1, <2>1, <2>3 DEF Waits
<1>2. CASE a.kind # "compile"
  BY <1>2 DEF Waits
<1> QED
  BY <1>1, <1>2

LEMMA GrownStack ==
  ASSUME NEW fs, NEW S, NEW w \in Seq(S), NEW d, NEW s, StackOK(s, w, fs)
  PROVE  StackOK(s, Append(w, d), fs)
<1>1. s \in Seq(Activity) /\ \A k \in 1 .. Len(s) : s[k] \in Activity /\ ActivityOK(s[k], w, fs)
  BY ElementOfSeq DEF StackOK
<1>2. \A k \in 1 .. Len(s) : ActivityOK(s[k], Append(w, d), fs)
  BY <1>1, GrownActivity
<1>3. Len(s) \in Nat /\ \A k \in 1 .. Len(s) - 1 : k \in 1 .. Len(s)
  BY <1>1, LenProperties
<1>4. \A k \in 1 .. Len(s) - 1 : Waits(s[k], Append(w, d), fs)
  <2> TAKE k \in 1 .. Len(s) - 1
  <2>1. s[k] \in Activity /\ ActivityOK(s[k], w, fs) /\ Waits(s[k], w, fs)
    BY <1>1, <1>3 DEF StackOK
  <2> QED
    BY <2>1, GrownWaits
<1> QED
  BY <1>1, <1>2, <1>4 DEF StackOK

\* Pushing, popping and replacing an activity.
LEMMA PushOK ==
  ASSUME NEW fs, NEW w, NEW s, StackOK(s, w, fs), NEW b \in Activity, ActivityOK(b, w, fs),
         s # <<>> => Waits(s[Len(s)], w, fs) /\ (b.kind = "run" => s[Len(s)].kind = "run")
  PROVE  StackOK(Append(s, b), w, fs) /\ Append(s, b) # <<>>
<1> DEFINE t == Append(s, b)
           n == Len(s)
<1>1. /\ s \in Seq(Activity) /\ n \in Nat
      /\ t \in Seq(Activity) /\ t # <<>> /\ Len(t) = n + 1
      /\ \A k \in 1 .. n : t[k] = s[k]
      /\ t[n + 1] = b
  BY AppendProperties, LenProperties DEF StackOK
<1> HIDE DEF t
<1>2. s = <<>> => n = 0
  OBVIOUS
<1>3. /\ \A k \in 1 .. n : ActivityOK(s[k], w, fs)
      /\ \A k \in 1 .. n - 1 : /\ Waits(s[k], w, fs)
                               /\ s[k + 1].kind = "run" => s[k].kind = "run"
  BY DEF StackOK
<1>4. n # 0 => Waits(s[n], w, fs) /\ (b.kind = "run" => s[n].kind = "run")
  BY <1>2
<1> HIDE DEF n
<1>5. \A k \in 1 .. n + 1 : ActivityOK(t[k], w, fs)
  <2> TAKE k \in 1 .. n + 1
  <2>1. k \in 1 .. n \/ k = n + 1
    BY <1>1
  <2> QED
    BY <2>1, <1>1, <1>3
<1>6. \A k \in 1 .. (n + 1) - 1 : /\ Waits(t[k], w, fs)
                                  /\ t[k + 1].kind = "run" => t[k].kind = "run"
  <2> TAKE k \in 1 .. (n + 1) - 1
  <2>1. CASE k = n
    <3>1. n # 0 /\ t[k] = s[n] /\ t[k + 1] = b
      BY <1>1, <2>1
    <3> QED
      BY <3>1, <1>4
  <2>2. CASE k # n
    <3>1. k \in 1 .. n - 1 /\ t[k] = s[k] /\ t[k + 1] = s[k + 1]
      BY <1>1, <2>2
    <3> QED
      BY <3>1, <1>3
  <2> QED
    BY <2>1, <2>2
<1>7. StackOK(t, w, fs)
  BY <1>1, <1>5, <1>6 DEF StackOK
<1> QED
  BY <1>1, <1>7 DEF t

LEMMA FrontOK ==
  ASSUME NEW fs, NEW w, NEW s, StackOK(s, w, fs), s # <<>>
  PROVE  /\ Len(s) \in Nat \ {0}
         /\ s[Len(s)] \in Activity /\ ActivityOK(s[Len(s)], w, fs)
         /\ StackOK(Front(s), w, fs)
         /\ Len(Front(s)) = Len(s) - 1
         /\ Front(s) # <<>> =>
              /\ Len(s) > 1 /\ Last(Front(s)) = s[Len(s) - 1]
              /\ Front(s)[Len(Front(s))] = s[Len(s) - 1]
              /\ s[Len(s) - 1] \in Activity /\ ActivityOK(s[Len(s) - 1], w, fs)
              /\ Waits(s[Len(s) - 1], w, fs)
              /\ s[Len(s)].kind = "run" => s[Len(s) - 1].kind = "run"
         /\ Len(s) > 1 => Front(s) # <<>>
<1> DEFINE t == Front(s)
           n == Len(s)
<1>0. s \in Seq(Activity) /\ n \in Nat \ {0}
  BY EmptySeq DEF StackOK
<1>1. \A i \in 1 .. n : s[i] \in Activity
  BY <1>0, ElementOfSeq
<1>a. t \in Seq(Activity) /\ Len(t) = n - 1 /\ \A k \in 1 .. n - 1 : t[k] = s[k]
  <2>1. 1 \in Int /\ n - 1 \in Int /\ \A i \in 1 .. n - 1 : s[i] \in Activity
    BY <1>0, <1>1
  <2>2. t = SubSeq(s, 1, n - 1)
    BY DEF Front
  <2> HIDE DEF t, n
  <2>3. /\ t \in Seq(Activity)
        /\ Len(t) = IF 1 <= n - 1 THEN (n - 1) - 1 + 1 ELSE 0
        /\ \A i \in 1 .. (n - 1) - 1 + 1 : t[i] = s[1 + i - 1]
    BY ONLY <2>1, <2>2, SubSeqProperties
  <2> QED
    BY <1>0, <2>3
<1>2. t # <<>> => Len(t) \in Nat \ {0}
  BY <1>a, EmptySeq
<1>3. /\ \A k \in 1 .. n : ActivityOK(s[k], w, fs)
      /\ \A k \in 1 .. n - 1 : /\ Waits(s[k], w, fs)
                               /\ s[k + 1].kind = "run" => s[k].kind = "run"
  BY DEF StackOK
<1>l. Last(t) = t[Len(t)]
  BY DEF Last
<1>e. Len(<<>>) = 0
  OBVIOUS
<1> HIDE DEF t, n
<1>4. StackOK(t, w, fs)
  <2>1. \A k \in 1 .. Len(t) : k \in 1 .. n /\ t[k] = s[k]
    BY <1>0, <1>a
  <2>2. \A k \in 1 .. Len(t) - 1 :
          k \in 1 .. n - 1 /\ t[k] = s[k] /\ t[k + 1] = s[k + 1]
    BY <1>0, <1>a
  <2> QED
    BY <1>a, <1>3, <2>1, <2>2 DEF StackOK
<1>5. ASSUME t # <<>>
      PROVE  /\ n > 1 /\ Last(t) = s[n - 1] /\ t[Len(t)] = s[n - 1]
             /\ s[n - 1] \in Activity /\ ActivityOK(s[n - 1], w, fs)
             /\ Waits(s[n - 1], w, fs)
             /\ s[n].kind = "run" => s[n - 1].kind = "run"
  <2>1. n > 1 /\ n - 1 \in 1 .. n - 1 /\ n - 1 \in 1 .. n /\ (n - 1) + 1 = n
    BY <1>0, <1>a, <1>2, <1>5
  <2> QED
    BY <2>1, <1>1, <1>a, <1>3, <1>l
<1>6. n \in 1 .. n
  BY <1>0
<1>7. n > 1 => t # <<>>
  BY <1>0, <1>a, <1>e
<1> QED
  BY <1>0, <1>1, <1>a, <1>3, <1>4, <1>5, <1>6, <1>7 DEF t, n

LEMMA BecomeOK ==
  ASSUME NEW fs, NEW w, NEW s, StackOK(s, w, fs), s # <<>>,
         NEW b \in Activity, ActivityOK(b, w, fs),
         Len(s) > 1 /\ b.kind = "run" => s[Len(s) - 1].kind = "run"
  PROVE  StackOK(Append(Front(s), b), w, fs) /\ Append(Front(s), b) # <<>>
<1>1. StackOK(Front(s), w, fs)
  BY FrontOK
<1>2. Front(s) # <<>> =>
        /\ Waits(Front(s)[Len(Front(s))], w, fs)
        /\ b.kind = "run" => Front(s)[Len(Front(s))].kind = "run"
  BY FrontOK
<1> QED
  BY <1>1, <1>2, PushOK

\* Below a run there are only runs.
LEMMA RunsBelow ==
  ASSUME NEW fs, NEW w, NEW s, StackOK(s, w, fs), s # <<>>, s[Len(s)].kind = "run"
  PROVE  \A k \in 1 .. Len(s) : s[k].kind = "run"
<1> DEFINE n == Len(s)
           other == {i \in 0 .. n - 1 : s[n - i].kind # "run"}
<1>1. n \in Nat \ {0}
  BY EmptySeq DEF StackOK
<1>2. \A k \in 1 .. n - 1 : s[k + 1].kind = "run" => s[k].kind = "run"
  BY DEF StackOK
<1>3. s[n].kind = "run"
  OBVIOUS
<1> HIDE DEF n
<1>4. other = {}
  <2> SUFFICES ASSUME other # {} PROVE FALSE
    OBVIOUS
  <2>1. PICK m \in other : \A k \in other : m <= k
    <3>1. other \subseteq Nat
      BY <1>1
    <3> QED
      BY <3>1, Least
  <2>2. m # 0
    <3>1. n - 0 = n
      BY <1>1
    <3> QED
      BY <1>3, <2>1, <3>1
  <2>3. /\ m - 1 \in 0 .. n - 1 /\ m - 1 \notin other
        /\ n - m \in 1 .. n - 1 /\ (n - m) + 1 = n - (m - 1)
    BY <1>1, <2>1, <2>2
  <2> QED
    BY <1>2, <2>1, <2>3
<1>5. \A k \in 1 .. n : n - k \in 0 .. n - 1 /\ n - (n - k) = k
  BY <1>1
<1>6. \A k \in 1 .. n : s[k].kind = "run"
  BY <1>4, <1>5
<1> QED
  BY <1>6 DEF n

\* The stack without the outermost activity.
LEMMA TailOK ==
  ASSUME NEW fs, NEW w, NEW s, StackOK(s, w, fs), s # <<>>
  PROVE  /\ StackOK(Tail(s), w, fs) /\ Len(Tail(s)) = Len(s) - 1
         /\ \A k \in 1 .. Len(Tail(s)) : k + 1 \in 1 .. Len(s) /\ Tail(s)[k] = s[k + 1]
         /\ Tail(s) # <<>> => Tail(s)[Len(Tail(s))] = s[Len(s)]
<1> DEFINE t == Tail(s)
           n == Len(s)
<1>1. /\ s \in Seq(Activity) /\ n \in Nat \ {0}
      /\ t \in Seq(Activity) /\ Len(t) = n - 1 /\ \A k \in 1 .. Len(t) : t[k] = s[k + 1]
  BY EmptySeq, HeadTailProperties DEF StackOK
<1>2. /\ \A k \in 1 .. n : ActivityOK(s[k], w, fs)
      /\ \A k \in 1 .. n - 1 : /\ Waits(s[k], w, fs)
                               /\ s[k + 1].kind = "run" => s[k].kind = "run"
  BY DEF StackOK
<1>3. t # <<>> => Len(t) # 0
  BY <1>1, EmptySeq
<1> HIDE DEF t, n
<1>4. \A k \in 1 .. Len(t) : k + 1 \in 1 .. n
  BY <1>1
<1>5. \A k \in 1 .. Len(t) - 1 : /\ k + 1 \in 1 .. n - 1
                                 /\ t[k] = s[k + 1] /\ t[k + 1] = s[(k + 1) + 1]
  BY <1>1
<1>6. StackOK(t, w, fs)
  <2>1. \A k \in 1 .. Len(t) : ActivityOK(t[k], w, fs)
    BY <1>1, <1>2, <1>4
  <2>2. \A k \in 1 .. Len(t) - 1 : /\ Waits(t[k], w, fs)
                                   /\ t[k + 1].kind = "run" => t[k].kind = "run"
    BY <1>2, <1>5
  <2> QED
    BY <1>1, <2>1, <2>2 DEF StackOK
<1>7. t # <<>> => Len(t) \in 1 .. Len(t) /\ Len(t) + 1 = n
  BY <1>1, <1>3
<1>8. t # <<>> => t[Len(t)] = s[n]
  BY <1>1, <1>7
<1> QED
  BY <1>1, <1>4, <1>6, <1>8 DEF t, n
-----------------------------------------------------------------------------
(* The fields of an activity.                                              *)

Act(kind, text, next, imports, code, height, calls) ==
  [kind |-> kind, text |-> text, next |-> next, imports |-> imports,
   code |-> code, height |-> height, calls |-> calls]

LEMMA ActOf ==
  ASSUME NEW a \in Activity
  PROVE  a = Act(a.kind, a.text, a.next, a.imports, a.code, a.height, a.calls)
BY DEF Activity, Act

LEMMA ActType ==
  ASSUME NEW k \in {"compile", "run"}, NEW t \in Text, NEW n \in Nat, NEW i \in Seq(Path),
         NEW c \in Seq(Words), NEW h \in Nat, NEW l \in Seq(Nat)
  PROVE  Act(k, t, n, i, c, h, l) \in Activity
BY DEF Activity, Act

LEMMA ActFields ==
  ASSUME NEW k, NEW t, NEW n, NEW i, NEW c, NEW h, NEW l
  PROVE  LET a == Act(k, t, n, i, c, h, l)
         IN  /\ a.kind = k /\ a.text = t /\ a.next = n /\ a.imports = i
             /\ a.code = c /\ a.height = h /\ a.calls = l
BY DEF Act

LEMMA ActUpdates ==
  ASSUME NEW a, NEW k, NEW t, NEW n, NEW i, NEW c, NEW h, NEW l,
         a = Act(k, t, n, i, c, h, l)
  PROVE  /\ \A x : [a EXCEPT !.kind = x] = Act(x, t, n, i, c, h, l)
         /\ \A x : [a EXCEPT !.next = x] = Act(k, t, x, i, c, h, l)
         /\ \A x : [a EXCEPT !.imports = x] = Act(k, t, n, x, c, h, l)
         /\ \A x : [a EXCEPT !.code = x] = Act(k, t, n, i, x, h, l)
         /\ \A x : [a EXCEPT !.height = x] = Act(k, t, n, i, c, x, l)
         /\ \A x : [a EXCEPT !.calls = x] = Act(k, t, n, i, c, h, x)
BY DEF Act

\* What a compiler, and what a run, makes of its activity in one step.
Emits(a, e) ==
  Act(a.kind, a.text, a.next + 1, a.imports, a.code \o e, a.height, a.calls)
Moved(a, height, calls) ==
  Act(a.kind, a.text, a.next + 1, a.imports, a.code, height, calls)

LEMMA EmitsAct ==
  ASSUME NEW a \in Activity, NEW e
  PROVE  [a EXCEPT !.next = @ + 1, !.code = @ \o e] = Emits(a, e)
<1> DEFINE b == [a EXCEPT !.next = a.next + 1]
<1>1. a = Act(a.kind, a.text, a.next, a.imports, a.code, a.height, a.calls)
  BY ActOf
<1>2. b = Act(a.kind, a.text, a.next + 1, a.imports, a.code, a.height, a.calls)
  BY ONLY <1>1, ActUpdates
<1>3. [a EXCEPT !.next = @ + 1, !.code = @ \o e] = [b EXCEPT !.code = a.code \o e]
  OBVIOUS
<1> HIDE DEF b
<1>4. \A x : [b EXCEPT !.code = x]
               = Act(a.kind, a.text, a.next + 1, a.imports, x, a.height, a.calls)
  BY ONLY <1>2, ActUpdates
<1> QED
  BY <1>3, <1>4 DEF Emits

LEMMA MovedAct ==
  ASSUME NEW a \in Activity
  PROVE  /\ [a EXCEPT !.next = @ + 1] = Moved(a, a.height, a.calls)
         /\ \A x : [[a EXCEPT !.height = x] EXCEPT !.next = @ + 1] = Moved(a, x, a.calls)
         /\ \A x, y : [[a EXCEPT !.calls = y, !.height = x] EXCEPT !.next = @ + 1]
                        = Moved(a, x, y)
         /\ \A x, y : [[a EXCEPT !.height = x, !.calls = y] EXCEPT !.next = @ + 1]
                        = Moved(a, x, y)
         /\ Returned(a) = Moved(a, a.height + 1, a.calls)
<1> DEFINE H(x) == [a EXCEPT !.height = x]
           C(y) == [a EXCEPT !.calls = y]
           HC(x, y) == [H(x) EXCEPT !.calls = y]
           CH(x, y) == [C(y) EXCEPT !.height = x]
           N == [a EXCEPT !.next = a.next + 1]
<1>1. a = Act(a.kind, a.text, a.next, a.imports, a.code, a.height, a.calls)
  BY ActOf
<1>2. \A x : H(x) = Act(a.kind, a.text, a.next, a.imports, a.code, x, a.calls)
  BY ONLY <1>1, ActUpdates
<1>3. \A y : C(y) = Act(a.kind, a.text, a.next, a.imports, a.code, a.height, y)
  BY ONLY <1>1, ActUpdates
<1>4. N = Moved(a, a.height, a.calls)
  BY ONLY <1>1, ActUpdates DEF Moved
<1>5. \A x, y : /\ [a EXCEPT !.calls = y, !.height = x] = CH(x, y)
                /\ [a EXCEPT !.height = x, !.calls = y] = HC(x, y)
  OBVIOUS
<1>6. Returned(a) = [N EXCEPT !.height = a.height + 1]
  BY DEF Returned
<1> HIDE DEF H, C, N
<1>7. \A x, y : /\ CH(x, y) = Act(a.kind, a.text, a.next, a.imports, a.code, x, y)
                /\ HC(x, y) = Act(a.kind, a.text, a.next, a.imports, a.code, x, y)
  BY ONLY <1>2, <1>3, ActUpdates
<1>8. Returned(a) = Moved(a, a.height + 1, a.calls)
  BY ONLY <1>4, <1>6, ActUpdates DEF Moved
<1> HIDE DEF CH, HC
<1>9. ASSUME NEW b, NEW x, NEW y,
             b = Act(a.kind, a.text, a.next, a.imports, a.code, x, y)
      PROVE  [b EXCEPT !.next = @ + 1] = Moved(a, x, y)
  <2>1. b.next = a.next
    BY ONLY <1>9, ActFields
  <2>2. [b EXCEPT !.next = a.next + 1] = Moved(a, x, y)
    BY ONLY <1>9, ActUpdates DEF Moved
  <2> QED
    BY <2>1, <2>2
<1>10. \A x : [H(x) EXCEPT !.next = @ + 1] = Moved(a, x, a.calls)
  BY ONLY <1>2, <1>9
<1>11. \A x, y : /\ [CH(x, y) EXCEPT !.next = @ + 1] = Moved(a, x, y)
                 /\ [HC(x, y) EXCEPT !.next = @ + 1] = Moved(a, x, y)
  BY ONLY <1>7, <1>9
<1>12. \A x : [[a EXCEPT !.height = x] EXCEPT !.next = @ + 1] = Moved(a, x, a.calls)
  BY ONLY <1>10 DEF H
<1>13. [a EXCEPT !.next = @ + 1] = Moved(a, a.height, a.calls)
  BY ONLY <1>4 DEF N
<1> QED
  BY ONLY <1>5, <1>8, <1>11, <1>12, <1>13
-----------------------------------------------------------------------------
(* Steps of an activity.                                                   *)

\* A new compiler, and an activity that notes an import.
LEMMA CompilingOK ==
  ASSUME NEW fs, NEW w, NEW t \in Text
  PROVE  /\ Compiling(t) \in Activity
         /\ Compiling(t).kind = "compile"
         /\ ActivityOK(Compiling(t), w, fs)
<1> DEFINE a == Compiling(t)
<1>0. a = Act("compile", t, 1, <<>>, <<>>, 0, <<>>)
  BY DEF Compiling, Act
<1>e. <<>> \in Seq(Path) /\ <<>> \in Seq(Words) /\ <<>> \in Seq(Nat) /\ 1 \in Nat /\ 0 \in Nat
  OBVIOUS
<1>1. a \in Activity
  BY ONLY <1>0, <1>e, ActType, t \in Text
<1> HIDE DEF a
<1>2. /\ a.kind = "compile" /\ a.text = t /\ a.next = 1 /\ a.imports = <<>>
      /\ a.code = <<>> /\ a.height = 0 /\ a.calls = <<>>
  BY <1>0, ActFields
<1>3. Done(a) = 0 /\ 1 .. Done(a) = {}
  BY <1>2 DEF Done
<1>4. Len(a.text) \in Nat /\ 1 \in 1 .. Len(a.text) + 1
  <2>1. Len(a.text) \in Nat
    BY <1>1, ActivityFacts
  <2> QED
    BY <2>1
<1>5. PICK d, h : Walk(a.code, d, h) /\ h[Len(a.code)] = 0
  BY <1>2, WalkNone DEF Leaving
<1>6. CodeOK(a, d, h, w, fs)
  <2> DEFINE z == [i \in 0 .. 0 |-> 0]
  <2>1. z \in [0 .. 0 -> Int] /\ z[0] = 0 /\ 0 .. 0 = {0} /\ Len(a.code) = 0
    BY <1>2
  <2> HIDE DEF z
  <2>2. Tally(a.text, Done(a), z, w, fs)
    BY <1>3, <2>1 DEF Tally
  <2> QED
    BY <1>3, <1>5, <2>1, <2>2 DEF CodeOK, Tallied
<1>7. CompilerOK(a)
  BY <1>2, <1>4 DEF CompilerOK
<1>8. ActivityOK(a, w, fs)
  BY <1>2, <1>3, <1>6, <1>7 DEF ActivityOK
<1> QED
  BY <1>1, <1>2, <1>8 DEF a

\* A compiler emits the code of its next statement.
LEMMA EmitsOK ==
  ASSUME NEW fs, NEW w, NEW a \in Activity, ActivityOK(a, w, fs),
         a.kind = "compile", a.next \in 1 .. Len(a.text),
         NEW e \in Seq(Words), Leaving(e, LeavesIn(a.text, a.next, w, fs)),
         a.text[a.next].op = "use" => Uses(a, a.next, w, fs)
  PROVE  /\ Emits(a, e) \in Activity
         /\ Emits(a, e).kind = "compile"
         /\ ActivityOK(Emits(a, e), w, fs)
<1> DEFINE b == Emits(a, e)
           c == a.code \o e
           n == a.next + 1
<1>a. b = Act(a.kind, a.text, n, a.imports, c, a.height, a.calls)
  BY DEF Emits
<1> HIDE DEF b, c, n
<1>b. /\ b.kind = a.kind /\ b.text = a.text /\ b.next = n
      /\ b.imports = a.imports /\ b.code = c
      /\ b.height = a.height /\ b.calls = a.calls
  BY ONLY <1>a, ActFields
<1>0. /\ b.kind = "compile" /\ b.text = a.text /\ b.next = a.next + 1
      /\ b.imports = a.imports /\ b.code = a.code \o e
      /\ b.height = a.height /\ b.calls = a.calls
  BY <1>b DEF c, n
<1>1. /\ a.kind = "compile" /\ a.text \in Text /\ a.next \in Nat /\ Len(a.text) \in Nat
      /\ a.imports \in Seq(Path) /\ a.code \in Seq(Words)
      /\ a.height \in Nat /\ a.calls \in Seq(Nat)
  BY ActivityFacts
<1>2. b \in Activity
  <2>1. a.code \o e \in Seq(Words)
    BY <1>1, ConcatProperties
  <2>2. a.next + 1 \in Nat
    BY <1>1
  <2> QED
    BY <1>1, <2>1, <2>2, ActType DEF Emits, b
<1>3. Done(a) = a.next - 1 /\ Done(b) = a.next
  BY <1>0, <1>1 DEF Done
<1>4. \A i \in 1 .. Done(b) : i \in 1 .. Done(a) \/ i = a.next
  BY <1>1, <1>3
<1>5. \A i : Uses(a, i, w, fs) <=> Uses(b, i, w, fs)
  BY <1>0 DEF Uses
<1>6. \A i \in 1 .. Done(b) : b.text[i].op = "use" => Uses(b, i, w, fs)
  BY <1>0, <1>4, <1>5 DEF ActivityOK
<1>7. PICK d, h : CodeOK(a, d, h, w, fs)
  BY DEF ActivityOK
<1> DEFINE k == LeavesIn(a.text, a.next, w, fs)
<1>8. PICK d3, h3 :
        /\ Walk(b.code, d3, h3)
        /\ \A i \in 0 .. Len(a.code) : h3[i] = h[i]
        /\ h3[Len(b.code)] = h[Len(a.code)] + k
  <2>1. Walk(a.code, d, h)
    BY <1>7 DEF CodeOK
  <2>2. a.code \in Seq(Words) /\ e \in Seq(Words) /\ Leaving(e, k)
    BY <1>1
  <2> HIDE DEF k
  <2>3. \E d3, h3 :
          /\ Walk(a.code \o e, d3, h3)
          /\ \A i \in 0 .. Len(a.code) : h3[i] = h[i]
          /\ h3[Len(a.code \o e)] = h[Len(a.code)] + k
    BY ONLY <2>1, <2>2, WalkConcat
  <2> QED
    BY <1>0, <2>3
<1>9. Tallied(b, h3, w, fs)
  <2> DEFINE m == a.next
             r == m - 1
  <2>1. PICK t : /\ Tally(a.text, r, t, w, fs) /\ t[r] = h[Len(a.code)]
                 /\ \A i \in 0 .. r : \E p \in 0 .. Len(a.code) : h[p] = t[i]
    BY <1>3, <1>7 DEF CodeOK, Tallied
  <2>2. /\ Len(a.code) \in Nat /\ Len(b.code) \in Nat /\ Len(a.code) <= Len(b.code)
        /\ m \in Nat /\ r \in Nat
    <3>1. Len(e) \in Nat /\ Len(a.code) \in Nat /\ Len(b.code) = Len(a.code) + Len(e)
      BY <1>0, <1>1, ConcatProperties, LenProperties
    <3> QED
      BY <1>1, <3>1
  <2>k. k \in Int
    BY DEF LeavesIn
  <2> DEFINE u == [i \in 0 .. m |-> IF i = m THEN t[r] + k ELSE t[i]]
  <2>3. /\ t \in [0 .. r -> Int] /\ t[0] = 0
        /\ \A i \in 1 .. r : t[i] = t[i - 1] + LeavesIn(a.text, i, w, fs)
    BY <2>1 DEF Tally
  <2>4. /\ u \in [0 .. m -> Int] /\ u[m] = t[r] + k
        /\ \A i \in 0 .. r : u[i] = t[i]
    <3> HIDE DEF k
    <3> QED
      BY <2>2, <2>k, <2>3
  <2>5. /\ m \in 1 .. m /\ r \in 0 .. r /\ 0 \in 0 .. r
        /\ \A i \in 0 .. m : i \in 0 .. r \/ i = m
        /\ \A i \in 1 .. m : (i \in 1 .. r /\ i \in 0 .. r /\ i - 1 \in 0 .. r) \/ i = m
    BY <2>2
  <2> HIDE DEF u
  <2>6. Tally(a.text, m, u, w, fs)
    <3>1. u[0] = 0
      BY <2>3, <2>4, <2>5
    <3>2. ASSUME NEW i \in 1 .. m PROVE u[i] = u[i - 1] + LeavesIn(a.text, i, w, fs)
      <4>1. CASE i = m
        <5>1. u[r] = t[r]
          BY <2>4, <2>5
        <5> QED
          BY <4>1, <5>1, <2>4
      <4>2. CASE i # m
        <5>1. i \in 1 .. r /\ i \in 0 .. r /\ i - 1 \in 0 .. r
          BY <4>2, <2>5
        <5> QED
          BY <5>1, <2>3, <2>4
      <4> QED
        BY <4>1, <4>2
    <3> QED
      BY <2>4, <3>1, <3>2 DEF Tally
  <2>7. u[m] = h3[Len(b.code)]
    BY <1>8, <2>1, <2>4
  <2>8. ASSUME NEW i \in 0 .. m PROVE \E p \in 0 .. Len(b.code) : h3[p] = u[i]
    <3>1. CASE i = m
      BY <2>2, <2>7, <3>1
    <3>2. CASE i # m
      <4>1. i \in 0 .. r /\ u[i] = t[i]
        BY <3>2, <2>4, <2>5
      <4>2. PICK p \in 0 .. Len(a.code) : h[p] = t[i]
        BY <2>1, <4>1
      <4>3. p \in 0 .. Len(b.code) /\ h3[p] = h[p]
        BY <1>8, <2>2, <4>2
      <4> QED
        BY <4>1, <4>2, <4>3
    <3> QED
      BY <3>1, <3>2
  <2>9. Done(b) = m /\ b.text = a.text
    BY <1>0, <1>3
  <2> HIDE DEF m
  <2>10. /\ Tally(b.text, Done(b), u, w, fs) /\ u[Done(b)] = h3[Len(b.code)]
         /\ \A i \in 0 .. Done(b) : \E p \in 0 .. Len(b.code) : h3[p] = u[i]
    BY <2>6, <2>7, <2>8, <2>9
  <2> QED
    BY <2>10 DEF Tallied
<1>10. CodeOK(b, d3, h3, w, fs)
  BY <1>8, <1>9 DEF CodeOK
<1>11. CompilerOK(b)
  <2>1. a.height = 0 /\ a.calls = <<>>
    BY DEF ActivityOK, CompilerOK
  <2>2. a.next + 1 \in 1 .. Len(a.text) + 1
    BY <1>1
  <2> QED
    BY <1>0, <2>1, <2>2 DEF CompilerOK
<1>12. \A i \in DOMAIN b.imports : b.imports[i] \in DOMAIN fs
  BY <1>0 DEF ActivityOK
<1>13. ActivityOK(b, w, fs)
  BY <1>0, <1>6, <1>10, <1>11, <1>12 DEF ActivityOK
<1> QED
  BY <1>0, <1>2, <1>13 DEF b

\* A compiler notes a file it imports, and waits for its code.
LEMMA ImportsOK ==
  ASSUME NEW fs, NEW w, NEW a \in Activity, ActivityOK(a, w, fs),
         a.kind = "compile", a.next \in 1 .. Len(a.text), a.text[a.next].op = "use",
         NEW f \in Path, f \in DOMAIN fs,
         FoundIn(a.text[a.next].name, w, fs) # {}, f = SearchIn(a.text[a.next].name, w, fs),
         \A i \in DOMAIN a.imports : a.imports[i] # f
  PROVE  LET b == [a EXCEPT !.imports = Append(@, f)]
         IN  /\ b \in Activity /\ b.kind = "compile"
             /\ ActivityOK(b, w, fs) /\ Waits(b, w, fs)
<1> DEFINE t == Append(a.imports, f)
           b == [a EXCEPT !.imports = t]
<1>1. /\ a.kind = "compile" /\ a.text \in Text /\ a.next \in Nat /\ Len(a.text) \in Nat
      /\ a.imports \in Seq(Path) /\ a.code \in Seq(Words)
      /\ a.height \in Nat /\ a.calls \in Seq(Nat) /\ Done(a) \in Int
  BY ActivityFacts
<1>2. /\ t \in Seq(Path)
      /\ DOMAIN t = 1 .. Len(a.imports) + 1 /\ Len(a.imports) \in Nat
      /\ DOMAIN a.imports = 1 .. Len(a.imports)
      /\ \A i \in 1 .. Len(a.imports) : t[i] = a.imports[i]
      /\ t[Len(a.imports) + 1] = f
  BY <1>1, AppendProperties, LenProperties
<1> HIDE DEF t
<1>3. b = Act(a.kind, a.text, a.next, t, a.code, a.height, a.calls)
  <2>1. a = Act(a.kind, a.text, a.next, a.imports, a.code, a.height, a.calls)
    BY ActOf
  <2> QED
    BY ONLY <2>1, ActUpdates
<1>r. [a EXCEPT !.imports = Append(@, f)] = b
  BY DEF t
<1> HIDE DEF b
<1>4. /\ b.kind = a.kind /\ b.text = a.text /\ b.next = a.next /\ b.imports = t
      /\ b.code = a.code /\ b.height = a.height /\ b.calls = a.calls
  BY ONLY <1>3, ActFields
<1>5. b \in Activity
  BY <1>1, <1>2, <1>3, ActType
<1>6. \A i \in DOMAIN t : i \in DOMAIN a.imports \/ t[i] = f
  BY <1>2
<1>7. \A i \in DOMAIN b.imports : b.imports[i] \in DOMAIN fs
  BY <1>2, <1>4, <1>6 DEF ActivityOK
<1>8. \A i : Uses(a, i, w, fs) => Uses(b, i, w, fs)
  <2> SUFFICES ASSUME NEW i, Uses(a, i, w, fs) PROVE Uses(b, i, w, fs)
    OBVIOUS
  <2>1. PICK j \in DOMAIN a.imports : a.imports[j] = SearchIn(a.text[i].name, w, fs)
    BY DEF Uses
  <2>2. j \in DOMAIN t /\ t[j] = a.imports[j]
    BY <1>2
  <2> QED
    BY <1>4, <2>1, <2>2 DEF Uses
<1>9. Done(b) = Done(a) /\ \A h : Tallied(a, h, w, fs) => Tallied(b, h, w, fs)
  BY <1>4 DEF Done, Tallied
<1>10. \A i \in 1 .. Done(b) : b.text[i].op = "use" => Uses(b, i, w, fs)
  BY <1>4, <1>8, <1>9 DEF ActivityOK
<1>11. CompilerOK(b) /\ \E d, h : CodeOK(b, d, h, w, fs)
  BY <1>4, <1>9 DEF ActivityOK, CompilerOK, CodeOK
<1>12. ActivityOK(b, w, fs)
  BY <1>1, <1>4, <1>7, <1>10, <1>11 DEF ActivityOK
<1>13. Uses(b, b.next, w, fs)
  <2>1. Len(a.imports) + 1 \in DOMAIN t
    BY <1>2
  <2> QED
    BY <1>2, <1>4, <2>1 DEF Uses
<1>14. ~RepeatedIn(b.text, b.next, w, fs)
  <2> SUFFICES ASSUME NEW j \in 1 .. a.next - 1, a.text[j].op = "use",
                      SearchIn(a.text[j].name, w, fs) = f
               PROVE  FALSE
    BY <1>4 DEF RepeatedIn
  <2>1. Done(a) = a.next - 1
    BY <1>1 DEF Done
  <2>2. Uses(a, j, w, fs)
    BY <2>1 DEF ActivityOK
  <2> QED
    BY <2>2 DEF Uses
<1>15. Waits(b, w, fs)
  BY <1>1, <1>4, <1>13, <1>14 DEF Waits
<1> QED
  BY <1>1, <1>4, <1>5, <1>12, <1>15, <1>r

\* A compiler has read its text: the run starts.
LEMMA RunningOK ==
  ASSUME NEW fs, NEW w, NEW a \in Activity, ActivityOK(a, w, fs),
         a.kind = "compile", a.next > Len(a.text)
  PROVE  /\ Running(a) \in Activity /\ Running(a).kind = "run"
         /\ ActivityOK(Running(a), w, fs)
<1> DEFINE k == [a EXCEPT !.kind = "run"]
           b == Running(a)
<1>1. /\ a.kind = "compile" /\ a.text \in Text /\ a.next \in Nat /\ Len(a.text) \in Nat
      /\ a.imports \in Seq(Path) /\ a.code \in Seq(Words) /\ Len(a.code) \in Nat
      /\ a.height \in Nat /\ a.calls \in Seq(Nat) /\ Done(a) \in Int
  BY ActivityFacts
<1>2. CompilerOK(a)
  BY <1>1 DEF ActivityOK
<1>3. /\ a.height = 0 /\ a.calls = <<>> /\ a.next = Len(a.text) + 1
  BY <1>1, <1>2 DEF CompilerOK
<1>4. b = Act("run", a.text, 1, a.imports, a.code, a.height, a.calls)
  <2>1. a = Act(a.kind, a.text, a.next, a.imports, a.code, a.height, a.calls)
    BY ActOf
  <2>2. k = Act("run", a.text, a.next, a.imports, a.code, a.height, a.calls)
    BY ONLY <2>1, ActUpdates
  <2>3. b = [k EXCEPT !.next = 1]
    BY DEF Running
  <2> HIDE DEF k, b
  <2> QED
    BY ONLY <2>2, <2>3, ActUpdates
<1> HIDE DEF k, b
<1>5. /\ b.kind = "run" /\ b.text = a.text /\ b.next = 1 /\ b.imports = a.imports
      /\ b.code = a.code /\ b.height = 0 /\ b.calls = <<>>
  BY <1>3, <1>4, ActFields
<1>6. b \in Activity
  BY <1>1, <1>4, ActType
<1>7. Done(b) = Done(a)
  BY <1>1, <1>3, <1>5 DEF Done
<1>8. /\ \A h : Tallied(a, h, w, fs) => Tallied(b, h, w, fs)
      /\ \A i : Uses(a, i, w, fs) <=> Uses(b, i, w, fs)
  BY <1>5, <1>7 DEF Tallied, Uses
<1>9. PICK d, h : CodeOK(a, d, h, w, fs)
  BY DEF ActivityOK
<1>10. CodeOK(b, d, h, w, fs)
  BY <1>5, <1>8, <1>9 DEF CodeOK
<1>11. RunAt(b, d, h)
  <2>1. d[0] = 0 /\ h[0] = 0
    BY <1>9 DEF CodeOK, Walk
  <2>2. 1 \in 1 .. Len(a.code) + 1 /\ 1 - 1 = 0 /\ 1 .. 0 = {} /\ Len(<<>>) = 0
    BY <1>1
  <2> QED
    BY <1>5, <2>1, <2>2 DEF RunAt
<1>12. ActivityOK(b, w, fs)
  BY <1>5, <1>7, <1>8, <1>10, <1>11 DEF ActivityOK
<1> QED
  BY <1>5, <1>6, <1>12 DEF b
\* What one instruction does to the height of the operand stack and to the calls.
Moves(op, height, calls, height2, calls2) ==
  \/ op = "code" /\ height2 = height /\ calls2 = calls
  \/ op = "drop" /\ height # 0 /\ height2 = height - 1 /\ calls2 = calls
  \/ op \in {"parts", "eval", "module"} /\ height2 = height + 1 /\ calls2 = calls
  \/ op = "enter" /\ height2 = height + 1 /\ calls2 = Append(calls, height)
  \/ op = "leave" /\ calls # <<>> /\ height2 = Last(calls) + 1 /\ calls2 = Front(calls)

Base(height, calls) == IF calls = <<>> THEN height ELSE calls[1]

LEMMA BaseNat ==
  ASSUME NEW x \in Nat, NEW c \in Seq(Nat)
  PROVE  Base(x, c) \in Nat
<1>1. c # <<>> => Len(c) \in Nat \ {0} /\ 1 \in 1 .. Len(c)
  BY EmptySeq
<1>2. c # <<>> => c[1] \in Nat
  BY <1>1, ElementOfSeq
<1> QED
  BY <1>2 DEF Base

LEMMA MovesOK ==
  ASSUME NEW op, NEW x \in Nat, NEW c \in Seq(Nat), NEW y, NEW e, Moves(op, x, c, y, e)
  PROVE  /\ y \in Nat /\ e \in Seq(Nat)
         /\ Len(e) = DepthAfter(op, Len(c))
         /\ Base(y, e) = BaseAfter(op, Len(e), Base(x, c))
<1>0. /\ Len(c) \in Nat /\ (c = <<>> <=> Len(c) = 0)
      /\ \A i \in 1 .. Len(c) : c[i] \in Nat
  BY EmptySeq, LenProperties, ElementOfSeq
<1>n. Base(x, c) \in Nat
  BY BaseNat
<1>1. CASE op = "code" /\ y = x /\ e = c
  BY <1>0, <1>1, <1>n DEF DepthAfter, BaseAfter
<1>2. CASE op = "drop" /\ x # 0 /\ y = x - 1 /\ e = c
  <2>1. y \in Nat /\ Len(e) = DepthAfter(op, Len(c))
    BY <1>0, <1>2 DEF DepthAfter
  <2>2. CASE c = <<>>
    <3>1. Base(x, c) = x /\ Base(y, e) = y /\ Len(e) = 0
      BY <1>0, <1>2, <2>2 DEF Base
    <3>2. BaseAfter("drop", 0, x) = x - 1
      BY <1>2 DEF BaseAfter
    <3> QED
      BY <1>2, <2>1, <3>1, <3>2
  <2>3. CASE c # <<>>
    <3>1. Base(x, c) = c[1] /\ Base(y, e) = c[1] /\ Len(e) > 0
      BY <1>0, <1>2, <2>3 DEF Base
    <3>2. BaseAfter("drop", Len(e), c[1]) = c[1]
      BY <3>1 DEF BaseAfter
    <3> QED
      BY <1>2, <2>1, <3>1, <3>2
  <2> QED
    BY <2>2, <2>3
<1>3. CASE op \in {"parts", "eval", "module"} /\ y = x + 1 /\ e = c
  <2>1. y \in Nat /\ Len(e) = DepthAfter(op, Len(c))
    BY <1>0, <1>3 DEF DepthAfter
  <2>2. CASE c = <<>>
    <3>1. Base(x, c) = x /\ Base(y, e) = y /\ Len(e) = 0
      BY <1>0, <1>3, <2>2 DEF Base
    <3>2. BaseAfter(op, 0, x) = x + 1
      BY <1>3 DEF BaseAfter
    <3> QED
      BY <1>3, <2>1, <3>1, <3>2
  <2>3. CASE c # <<>>
    <3>1. Base(x, c) = c[1] /\ Base(y, e) = c[1] /\ Len(e) > 0
      BY <1>0, <1>3, <2>3 DEF Base
    <3>2. BaseAfter(op, Len(e), c[1]) = c[1]
      BY <3>1 DEF BaseAfter
    <3> QED
      BY <1>3, <2>1, <3>1, <3>2
  <2> QED
    BY <2>2, <2>3
<1>4. CASE op = "enter" /\ y = x + 1 /\ e = Append(c, x)
  <2>1. /\ e \in Seq(Nat) /\ Len(e) = Len(c) + 1 /\ e # <<>> /\ y \in Nat
        /\ \A i \in 1 .. Len(c) : e[i] = c[i]
        /\ e[Len(c) + 1] = x
    BY <1>4, AppendProperties
  <2>2. e[1] = Base(x, c)
    <3>1. CASE c = <<>>
      BY <1>0, <2>1, <3>1 DEF Base
    <3>2. CASE c # <<>>
      <4>1. 1 \in 1 .. Len(c)
        BY <1>0, <3>2
      <4> QED
        BY <2>1, <3>2, <4>1 DEF Base
    <3> QED
      BY <3>1, <3>2
  <2>3. Base(y, e) = Base(x, c)
    BY <2>1, <2>2 DEF Base
  <2>4. Len(c) + 1 = DepthAfter(op, Len(c)) /\ BaseAfter(op, Len(c) + 1, Base(x, c)) = Base(x, c)
    BY <1>0, <1>4 DEF DepthAfter, BaseAfter
  <2> QED
    BY <1>4, <2>1, <2>3, <2>4
<1>5. CASE op = "leave" /\ c # <<>> /\ y = Last(c) + 1 /\ e = Front(c)
  <2>1. Len(c) \in 1 .. Len(c) /\ Len(c) # 0 /\ 1 \in 1 .. Len(c)
    BY <1>0, <1>5
  <2>2. y = c[Len(c)] + 1 /\ c[Len(c)] \in Nat /\ y \in Nat
    BY <1>0, <1>5, <2>1 DEF Last
  <2>3. /\ e \in Seq(Nat) /\ Len(e) = Len(c) - 1
        /\ \A i \in 1 .. Len(c) - 1 : e[i] = c[i]
    <3> DEFINE n == Len(c)
    <3>1. n \in Nat \ {0} /\ e = SubSeq(c, 1, n - 1)
      BY <1>0, <1>5, <2>1 DEF Front
    <3>2. \A i \in 1 .. n : c[i] \in Nat
      BY <1>0
    <3> HIDE DEF n
    <3>3. 1 \in Int /\ n - 1 \in Int /\ \A i \in 1 .. n - 1 : c[i] \in Nat
      BY <3>1, <3>2
    <3>4. /\ e \in Seq(Nat)
          /\ Len(e) = IF 1 <= n - 1 THEN (n - 1) - 1 + 1 ELSE 0
          /\ \A i \in 1 .. (n - 1) - 1 + 1 : e[i] = c[1 + i - 1]
      BY ONLY <3>1, <3>3, SubSeqProperties
    <3>5. e \in Seq(Nat) /\ Len(e) = n - 1 /\ \A i \in 1 .. n - 1 : e[i] = c[i]
      BY <3>1, <3>4
    <3> QED
      BY <3>5 DEF n
  <2>4. Len(e) = DepthAfter(op, Len(c))
    BY <1>5, <2>3 DEF DepthAfter
  <2>5. Base(x, c) = c[1]
    BY <1>5 DEF Base
  <2>6. e = <<>> <=> Len(e) = 0
    BY <2>3, EmptySeq
  <2>7. CASE Len(c) = 1
    <3>1. e = <<>> /\ Len(e) = 0 /\ Base(y, e) = c[1] + 1
      BY <2>2, <2>3, <2>6, <2>7 DEF Base
    <3>2. BaseAfter("leave", 0, c[1]) = c[1] + 1
      BY DEF BaseAfter
    <3> QED
      BY <1>5, <2>2, <2>3, <2>4, <2>5, <3>1, <3>2
  <2>8. CASE Len(c) # 1
    <3>1. 1 \in 1 .. Len(c) - 1 /\ Len(e) > 0 /\ Len(e) # 0
      BY <1>0, <2>1, <2>3, <2>8
    <3>2. Base(y, e) = c[1]
      BY <2>3, <2>6, <3>1 DEF Base
    <3>3. BaseAfter(op, Len(e), c[1]) = c[1]
      BY <3>1 DEF BaseAfter
    <3> QED
      BY <1>5, <2>2, <2>3, <2>4, <2>5, <3>2, <3>3
  <2> QED
    BY <2>7, <2>8
<1> QED
  BY <1>1, <1>2, <1>3, <1>4, <1>5 DEF Moves

\* A call that returns was made by this run.
LEMMA LeavesCall ==
  ASSUME NEW fs, NEW w, NEW a \in Activity, ActivityOK(a, w, fs),
         a.kind = "run", a.next \in 1 .. Len(a.code), a.code[a.next].op = "leave"
  PROVE  a.calls # <<>>
<1>1. PICK d, h : CodeOK(a, d, h, w, fs) /\ RunAt(a, d, h)
  BY DEF ActivityOK
<1>2. Len(a.code) \in Nat
  BY ActivityFacts
<1> DEFINE n == Len(a.code)
           i == a.next
<1>3. /\ d \in [0 .. n -> Nat] /\ d[i] = DepthAfter(a.code[i].op, d[i - 1])
      /\ Len(a.calls) = d[i - 1]
  BY <1>1 DEF CodeOK, Walk, RunAt
<1>4. i \in 0 .. n /\ i - 1 \in 0 .. n
  BY <1>2
<1>5. d[i - 1] # 0
  BY <1>3, <1>4 DEF DepthAfter
<1> QED
  BY <1>3, <1>5

\* A run executes an instruction.
LEMMA MovedOK ==
  ASSUME NEW fs, NEW w, NEW a \in Activity, ActivityOK(a, w, fs),
         a.kind = "run", a.next \in 1 .. Len(a.code),
         NEW y, NEW e, Moves(a.code[a.next].op, a.height, a.calls, y, e)
  PROVE  /\ Moved(a, y, e) \in Activity /\ Moved(a, y, e).kind = "run"
         /\ ActivityOK(Moved(a, y, e), w, fs)
<1> DEFINE b == Moved(a, y, e)
           n == a.next + 1
           op == a.code[a.next].op
<1>a. b = Act(a.kind, a.text, n, a.imports, a.code, y, e)
  BY DEF Moved
<1> HIDE DEF b, n
<1>b. /\ b.kind = a.kind /\ b.text = a.text /\ b.next = n
      /\ b.imports = a.imports /\ b.code = a.code
      /\ b.height = y /\ b.calls = e
  BY ONLY <1>a, ActFields
<1>1. /\ a.kind = "run" /\ a.text \in Text /\ a.next \in Nat /\ Len(a.text) \in Nat
      /\ a.imports \in Seq(Path) /\ a.code \in Seq(Words) /\ Len(a.code) \in Nat
      /\ a.height \in Nat /\ a.calls \in Seq(Nat)
  BY ActivityFacts
<1>2. /\ y \in Nat /\ e \in Seq(Nat)
      /\ Len(e) = DepthAfter(op, Len(a.calls))
      /\ Base(y, e) = BaseAfter(op, Len(e), Base(a.height, a.calls))
  BY <1>1, MovesOK, SMTT(60)
<1>3. n \in Nat /\ n - 1 = a.next /\ n \in 1 .. Len(a.code) + 1
  BY <1>1 DEF n
<1>4. b \in Activity
  BY <1>a, <1>1, <1>2, <1>3, ActType
<1>5. Done(b) = Done(a)
  BY <1>b, <1>1 DEF Done
<1>6. /\ \A h : Tallied(a, h, w, fs) => Tallied(b, h, w, fs)
      /\ \A i : Uses(a, i, w, fs) <=> Uses(b, i, w, fs)
  BY <1>b, <1>5 DEF Tallied, Uses
<1>7. PICK d, h : CodeOK(a, d, h, w, fs) /\ RunAt(a, d, h)
  BY DEF ActivityOK
<1>8. CodeOK(b, d, h, w, fs)
  BY <1>b, <1>6, <1>7 DEF CodeOK
<1> DEFINE i == a.next
<1>9. /\ d[i] = DepthAfter(op, d[i - 1]) /\ h[i] = BaseAfter(op, d[i], h[i - 1])
      /\ Len(a.calls) = d[i - 1] /\ h[i - 1] = Base(a.height, a.calls)
      /\ \A p \in 1 .. i - 1 : h[p] >= 0
  BY <1>7 DEF CodeOK, Walk, RunAt, Base
<1>10. Len(e) = d[i] /\ h[i] = Base(y, e)
  BY <1>2, <1>9
<1>11. h[i] >= 0
  <2>1. Base(y, e) \in Nat
    BY <1>2, BaseNat
  <2> QED
    BY <1>10, <2>1
<1>12. RunAt(b, d, h)
  <2>1. \A p \in 1 .. i : p \in 1 .. i - 1 \/ p = i
    BY <1>1
  <2>2. \A p \in 1 .. i : h[p] >= 0
    BY <1>9, <1>11, <2>1
  <2> QED
    BY <1>b, <1>3, <1>10, <2>2 DEF RunAt, Base
<1>13. ActivityOK(b, w, fs)
  BY <1>b, <1>1, <1>5, <1>6, <1>8, <1>12 DEF ActivityOK
<1> QED
  BY <1>b, <1>1, <1>4, <1>13 DEF b
-----------------------------------------------------------------------------
(* Steps of the session.                                                   *)

LEMMA InnerFacts ==
  ASSUME StateOK, active # <<>>
  PROVE  /\ Len(active) \in Nat \ {0} /\ Inner \in Activity
         /\ ActivityOK(Inner, search, files)
         /\ Inner.kind = "compile" => Inner.next \in 1 .. Len(Inner.text) + 1
         /\ Inner.kind = "run" => Inner.next \in 1 .. Len(Inner.code) + 1
         /\ Len(Inner.text) \in Nat /\ Len(Inner.code) \in Nat /\ Inner.next \in Nat
         /\ Inner.kind \in {"compile", "run"}
<1>1. StackOK(active, search, files)
  BY DEF StateOK
<1>2. /\ Len(active) \in Nat \ {0} /\ Inner \in Activity
      /\ ActivityOK(Inner, search, files)
  BY <1>1, FrontOK DEF Inner
<1>3. /\ Len(Inner.text) \in Nat /\ Len(Inner.code) \in Nat /\ Inner.next \in Nat
      /\ Inner.kind \in {"compile", "run"}
  BY <1>2, ActivityFacts
<1>4. Inner.kind = "compile" => Inner.next \in 1 .. Len(Inner.text) + 1
  BY <1>2 DEF ActivityOK, CompilerOK
<1>5. Inner.kind = "run" => Inner.next \in 1 .. Len(Inner.code) + 1
  BY <1>2 DEF ActivityOK, RunAt
<1> QED
  BY <1>2, <1>3, <1>4, <1>5

\* The activity below the innermost one.
LEMMA BelowFacts ==
  ASSUME StateOK, active # <<>>, Front(active) # <<>>
  PROVE  /\ StackOK(Front(active), search, files)
         /\ Len(active) > 1
         /\ Last(Front(active)) = active[Len(active) - 1]
         /\ Last(Front(active)) \in Activity
         /\ ActivityOK(Last(Front(active)), search, files)
         /\ Waits(Last(Front(active)), search, files)
         /\ Inner.kind = "run" => Last(Front(active)).kind = "run"
<1>1. StackOK(active, search, files)
  BY DEF StateOK
<1> QED
  BY <1>1, FrontOK DEF Inner

LEMMA KeepState ==
  ASSUME StateOK, UNCHANGED <<files, lines>>, phase' = "busy",
         search' = search, StackOK(active', search, files), active' # <<>>
  PROVE  StateOK'
BY DEF StateOK

\* The innermost activity is replaced.
LEMMA BecomesOK ==
  ASSUME StateOK, active # <<>>, UNCHANGED <<files, lines, phase>>, phase = "busy",
         search' = search,
         NEW b \in Activity, ActivityOK(b, search, files), b.kind = Inner.kind, Become(b)
  PROVE  StateOK'
<1>1. StackOK(active, search, files)
  BY DEF StateOK
<1>2. Len(active) > 1 /\ b.kind = "run" => active[Len(active) - 1].kind = "run"
  BY <1>1, FrontOK DEF Inner
<1>3. StackOK(Append(Front(active), b), search, files) /\ Append(Front(active), b) # <<>>
  BY <1>1, <1>2, BecomeOK
<1> QED
  BY <1>3, KeepState DEF Become

LEMMA EmptyStackOK ==
  ASSUME NEW w, NEW fs
  PROVE  StackOK(<<>>, w, fs)
BY DEF StackOK

LEMMA AnswersOK ==
  ASSUME StateOK, UNCHANGED <<files, lines>>, search' = search, active' = <<>>,
         NEW exits, exits \subseteq {"exit 0", "exit 1"}, Answer(exits)
  PROVE  StateOK'
<1>1. phase' \in {"prompt", "exit 0", "exit 1"}
  BY DEF Answer
<1>2. StackOK(active', search', files')
  BY EmptyStackOK
<1> QED
  BY <1>1, <1>2 DEF StateOK

\* A run or compiler is over: eval() returns in the last of the runs that are left,
\* or main() has the value.
LEMMA ReturnsOK ==
  ASSUME StateOK, UNCHANGED <<files, lines, search>>,
         NEW s, StackOK(s, search, files),
         s # <<>> => s[Len(s)].kind = "run" /\ Waits(s[Len(s)], search, files),
         NEW exits, exits \subseteq {"exit 0", "exit 1"}, Return(s, exits)
  PROVE  StateOK'
<1>a. CASE s = <<>>
  <2>1. active' = <<>> /\ Answer(exits)
    BY <1>a DEF Return
  <2> QED
    BY <2>1, AnswersOK
<1>b. CASE s # <<>>
  <2> DEFINE a == Last(s)
             b == Returned(a)
  <2>1. a = s[Len(s)]
    BY DEF Last
  <2>2. active' = Append(Front(s), b) /\ phase' = "busy"
    BY <1>b DEF Return
  <2> HIDE DEF a
  <2>3. a \in Activity /\ ActivityOK(a, search, files) /\ Waits(a, search, files) /\ a.kind = "run"
    BY <1>b, <2>1, FrontOK
  <2>4. Len(s) > 1 => s[Len(s) - 1].kind = "run"
    BY <1>b, <2>1, <2>3, FrontOK
  <2>5. a.next \in 1 .. Len(a.code) /\ a.code[a.next].op = "eval"
    BY <2>3 DEF Waits
  <2>6. b = Moved(a, a.height + 1, a.calls)
    BY <2>3, MovedAct
  <2>7. Moves(a.code[a.next].op, a.height, a.calls, a.height + 1, a.calls)
    BY <2>5 DEF Moves
  <2> HIDE DEF b
  <2>8. b \in Activity /\ b.kind = "run" /\ ActivityOK(b, search, files)
    <3> DEFINE y == a.height + 1
    <3>1. Moves(a.code[a.next].op, a.height, a.calls, y, a.calls)
      BY <2>7
    <3> HIDE DEF y
    <3>2. /\ Moved(a, y, a.calls) \in Activity /\ Moved(a, y, a.calls).kind = "run"
          /\ ActivityOK(Moved(a, y, a.calls), search, files)
      BY ONLY <2>3, <2>5, <3>1, MovedOK
    <3> QED
      BY <2>6, <3>2 DEF y
  <2>9. StackOK(Append(Front(s), b), search, files) /\ Append(Front(s), b) # <<>>
    BY <1>b, <2>4, <2>8, BecomeOK
  <2> QED
    BY <2>2, <2>9, KeepState
<1> QED
  BY <1>a, <1>b

LEMMA ReadLineOK ==
  ASSUME StateOK, ReadLine
  PROVE  StateOK'
<1>1. PICK text \in Source :
        IF IllegalStart(text) THEN phase' = "abort" /\ active' = active
                              ELSE phase' = "busy" /\ Begin(Compiling(text))
  BY DEF ReadLine
<1>2. /\ phase = "prompt" /\ lines < MaxLines /\ lines' = lines + 1
      /\ search' = search /\ files' = files /\ active = <<>>
  BY DEF ReadLine, StateOK, world
<1>3. lines' \in 0 .. MaxLines
  BY <1>2, BoundAssumption DEF StateOK
<1>4. CASE IllegalStart(text)
  <2>1. phase' = "abort" /\ active' = active
    BY <1>1, <1>4
  <2> QED
    BY <1>2, <1>3, <2>1 DEF StateOK
<1>5. CASE ~IllegalStart(text)
  <2>1. phase' = "busy" /\ active' = Append(active, Compiling(text))
    BY <1>1, <1>5 DEF Begin
  <2>2. Compiling(text) \in Activity /\ ActivityOK(Compiling(text), search, files)
    BY TextAssumption, CompilingOK
  <2>3. StackOK(active, search, files)
    BY DEF StateOK
  <2>4. StackOK(active', search, files) /\ active' # <<>>
    BY <1>2, <2>1, <2>2, <2>3, PushOK
  <2> QED
    BY <1>2, <1>3, <2>1, <2>4 DEF StateOK
<1> QED
  BY <1>4, <1>5

\* A statement is compiled: its code is e.
LEMMA CompilesOK ==
  ASSUME StateOK, phase = "busy", Inner.kind = "compile", Inner.next <= Len(Inner.text),
         NEW e \in Seq(Words), Leaving(e, LeavesIn(Inner.text, Inner.next, search, files)),
         Statement.op = "use" => Uses(Inner, Inner.next, search, files)
  PROVE  /\ Compiled(e) \in Activity /\ Compiled(e).kind = "compile"
         /\ ActivityOK(Compiled(e), search, files)
<1>1. active # <<>>
  BY DEF StateOK
<1>2. Inner \in Activity /\ ActivityOK(Inner, search, files)
      /\ Inner.next \in 1 .. Len(Inner.text)
  BY <1>1, InnerFacts
<1>3. Compiled(e) = Emits(Inner, e)
  BY <1>2, EmitsAct DEF Compiled
<1> QED
  BY <1>2, <1>3, EmitsOK DEF Statement

LEMMA StatementFacts ==
  ASSUME StateOK, NEW op, CompilesNext(op)
  PROVE  /\ active # <<>> /\ phase = "busy" /\ Inner.kind = "compile"
         /\ Inner.next \in 1 .. Len(Inner.text) /\ Inner.next <= Len(Inner.text)
         /\ Statement.op = op
         /\ Statement \in [op : Op, name : Dir \cup Name \cup {""}, text : Text]
         /\ op = "path" => Statement.name \in Dir
<1>1. /\ active # <<>> /\ phase = "busy" /\ Inner.kind = "compile"
      /\ Inner.next <= Len(Inner.text) /\ Statement.op = op
  BY DEF CompilesNext, StateOK, Statement
<1>2. Inner.next \in 1 .. Len(Inner.text)
  BY <1>1, InnerFacts
<1>3. Inner.text \in Text /\ Inner.text \in Seq([op : Op, name : Dir \cup Name \cup {""}, text : Text])
  BY <1>1, InnerFacts, ActivityFacts
<1>4. Statement \in [op : Op, name : Dir \cup Name \cup {""}, text : Text]
  BY <1>2, <1>3, ElementOfSeq DEF Statement
<1>5. Inner.next \in DOMAIN Inner.text
  BY <1>2, <1>3, LenProperties
<1>6. op = "path" => Statement.name \in Dir
  BY <1>1, <1>3, <1>5, TextAssumption DEF Statement
<1> QED
  BY <1>1, <1>2, <1>4, <1>6

\* The second use of a file: a value is dropped and none has been left.
LEMMA DropCode == Drop \in Seq(Words) /\ Leaving(Drop, -1)
<1> DEFINE w == Word("drop")
<1>1. w \in Words /\ w.op = "drop" /\ Drop = <<w>>
  BY WordFacts
<1> HIDE DEF w
<1>2. DepthAfter(w.op, 0) = 0 /\ BaseAfter(w.op, 0, 0) = -1
  BY <1>1 DEF DepthAfter, BaseAfter
<1> QED
  BY <1>1, <1>2, WalkWord

LEMMA ValueCode ==
  ASSUME NEW w \in Words, w.op \in {"eval", "module"}
  PROVE  <<w>> \o Drop \in Seq(Words) /\ Leaving(<<w>> \o Drop, 0)
<1> DEFINE v == Word("drop")
<1>1. v \in Words /\ v.op = "drop" /\ Drop = <<v>>
  BY WordFacts
<1> HIDE DEF v
<1>2. /\ <<w>> \in Seq(Words) /\ <<v>> \in Seq(Words) /\ <<w, v>> \in Seq(Words)
      /\ Len(<<w>>) = 1 /\ Len(<<v>>) = 1 /\ Len(<<w, v>>) = 2
      /\ <<w>>[1] = w /\ <<v>>[1] = v /\ <<w, v>>[1] = w /\ <<w, v>>[2] = v
  BY <1>1
<1>3. <<w>> \o <<v>> = <<w, v>>
  <2> DEFINE s == <<w>>
             t == <<v>>
             u == <<w, v>>
             b == s \o t
  <2>1. /\ s \in Seq(Words) /\ t \in Seq(Words) /\ u \in Seq(Words)
        /\ Len(s) = 1 /\ Len(t) = 1 /\ Len(u) = 2
        /\ s[1] = w /\ t[1] = v /\ u[1] = w /\ u[2] = v
    BY <1>2
  <2> HIDE DEF s, t, u
  <2>2. /\ b \in Seq(Words) /\ Len(b) = Len(s) + Len(t)
        /\ \A i \in 1 .. Len(s) : b[i] = s[i]
        /\ \A j \in 1 .. Len(t) : b[Len(s) + j] = t[j]
    BY <2>1, ConcatAt
  <2> HIDE DEF b
  <2>3. Len(b) = 2 /\ b[1] = w /\ b[2] = v
    <3>1. 1 \in 1 .. 1 /\ 1 + 1 = 2
      OBVIOUS
    <3> QED
      BY <2>1, <2>2, <3>1
  <2>4. \A i \in 1 .. Len(b) : b[i] = u[i]
    <3>1. \A i \in 1 .. 2 : i = 1 \/ i = 2
      OBVIOUS
    <3> QED
      BY <2>1, <2>3, <3>1
  <2>5. b = u
    BY <2>1, <2>2, <2>3, <2>4, SeqEqual
  <2> QED
    BY <2>5 DEF b, s, t, u
<1>4. Leaving(<<w, v>>, 0)
  BY <1>1, WalkValue
<1> QED
  BY <1>1, <1>2, <1>3, <1>4

\* Compiling.
LEMMA CompileStatementOK ==
  ASSUME StateOK, NEW op, op # "use", CompilesNext(op), KeepsCompiling, search' = search,
         NEW e \in Seq(Words), Leaving(e, IF op = "parts" THEN 1 ELSE 0), Become(Compiled(e))
  PROVE  StateOK'
<1>1. /\ active # <<>> /\ phase = "busy" /\ Inner.kind = "compile"
      /\ Inner.next <= Len(Inner.text) /\ Statement.op = op
  BY StatementFacts
<1>2. LeavesIn(Inner.text, Inner.next, search, files) = IF op = "parts" THEN 1 ELSE 0
  BY <1>1 DEF LeavesIn, Statement
<1>3. /\ Compiled(e) \in Activity /\ Compiled(e).kind = "compile"
      /\ ActivityOK(Compiled(e), search, files)
  BY <1>1, <1>2, CompilesOK
<1>4. UNCHANGED <<files, lines, phase>>
  BY DEF KeepsCompiling, world
<1> QED
  BY <1>1, <1>3, <1>4, BecomesOK

LEMMA CompilePathOK ==
  ASSUME StateOK, CompilePath
  PROVE  StateOK'
<1> DEFINE t == Append(search, Statement.name)
<1>1. /\ active # <<>> /\ phase = "busy" /\ Inner.kind = "compile"
      /\ Inner.next <= Len(Inner.text) /\ Statement.op = "path" /\ Statement.name \in Dir
  BY StatementFacts DEF CompilePath
<1>2. /\ UNCHANGED <<files, lines, phase>> /\ search' = t /\ Become(Compiled(<<>>))
  BY DEF CompilePath, KeepsCompiling, world, Extended
<1>3. Leaving(<<>>, LeavesIn(Inner.text, Inner.next, search, files))
  BY <1>1, WalkNone DEF LeavesIn, Statement
<1>4. <<>> \in Seq(Words)
  OBVIOUS
<1>5. /\ Compiled(<<>>) \in Activity /\ Compiled(<<>>).kind = "compile"
      /\ ActivityOK(Compiled(<<>>), search, files)
  BY <1>1, <1>3, <1>4, CompilesOK
<1>6. StackOK(active, search, files) /\ search \in Seq(Dir)
  BY DEF StateOK
<1>7. /\ StackOK(Append(Front(active), Compiled(<<>>)), search, files)
      /\ Append(Front(active), Compiled(<<>>)) # <<>>
  BY <1>1, <1>5, <1>6, BecomeOK
<1>8. t \in Seq(Dir) /\ StackOK(Append(Front(active), Compiled(<<>>)), t, files)
  BY <1>1, <1>6, <1>7, GrownStack, AppendProperties
<1>9. active' = Append(Front(active), Compiled(<<>>))
  BY <1>2 DEF Become
<1> HIDE DEF t
<1>10. StackOK(active', search', files') /\ active' # <<>> /\ search' \in Seq(Dir)
  BY <1>2, <1>7, <1>8, <1>9
<1> QED
  BY <1>1, <1>2, <1>10 DEF StateOK

\* A name that is found.
LEMMA UseFacts ==
  ASSUME StateOK, CompilesNext("use"), Found(Statement.name, search) # {}
  PROVE  /\ FoundIn(Statement.name, search, files) # {}
         /\ Search(Statement.name, search) = SearchIn(Statement.name, search, files)
         /\ Search(Statement.name, search) \in DOMAIN files
         /\ Search(Statement.name, search) \in Path
         /\ files[Search(Statement.name, search)] \in Text
<1>1. /\ FoundIn(Statement.name, search, files) # {}
      /\ Search(Statement.name, search) = SearchIn(Statement.name, search, files)
  BY Lookup
<1>2. search \in Seq(Dir) /\ files \in FileSystem
  BY DEF StateOK
<1>3. Search(Statement.name, search) \in DOMAIN files
  BY <1>1, <1>2, FoundFile
<1> QED
  BY <1>1, <1>2, <1>3, TextAssumption

LEMMA UseAgainOK ==
  ASSUME StateOK, UseAgain, RepeatedIn(Inner.text, Inner.next, search, files)
  PROVE  StateOK'
<1>1. /\ active # <<>> /\ phase = "busy" /\ Inner.kind = "compile"
      /\ Inner.next <= Len(Inner.text) /\ Statement.op = "use"
  BY StatementFacts DEF UseAgain
<1>2. /\ FoundIn(Statement.name, search, files) # {}
      /\ Search(Statement.name, search) = SearchIn(Statement.name, search, files)
  BY UseFacts DEF UseAgain
<1>3. Uses(Inner, Inner.next, search, files)
  BY <1>2 DEF UseAgain, Repeated, Uses, Statement
<1>4. Leaving(Drop, LeavesIn(Inner.text, Inner.next, search, files))
  <2>1. LeavesIn(Inner.text, Inner.next, search, files) = -1
    BY <1>1 DEF LeavesIn, Statement
  <2> QED
    BY <2>1, DropCode
<1>5. /\ Compiled(Drop) \in Activity /\ Compiled(Drop).kind = "compile"
      /\ ActivityOK(Compiled(Drop), search, files)
  BY <1>1, <1>3, <1>4, DropCode, CompilesOK
<1>6. UNCHANGED <<files, lines, phase, search>> /\ Become(Compiled(Drop))
  BY DEF UseAgain, KeepsCompiling, world
<1> QED
  BY <1>1, <1>5, <1>6, BecomesOK

LEMMA UseFileOK ==
  ASSUME StateOK, UseFile
  PROVE  StateOK'
<1> DEFINE f == Search(Statement.name, search)
           b == [Inner EXCEPT !.imports = Append(@, f)]
           c == Compiling(files[f])
<1>1. /\ active # <<>> /\ phase = "busy" /\ Inner.kind = "compile"
      /\ Inner.next \in 1 .. Len(Inner.text) /\ Statement.op = "use"
  BY StatementFacts DEF UseFile
<1>2. /\ FoundIn(Statement.name, search, files) # {}
      /\ f = SearchIn(Statement.name, search, files)
      /\ f \in DOMAIN files /\ f \in Path /\ files[f] \in Text
  BY UseFacts DEF UseFile
<1>3. Inner \in Activity /\ ActivityOK(Inner, search, files)
  BY <1>1, InnerFacts
<1>4. ~Repeated(f) /\ UNCHANGED <<files, lines, search>>
  BY DEF UseFile, world
<1> HIDE DEF f
<1>5. /\ b \in Activity /\ b.kind = "compile"
      /\ ActivityOK(b, search, files) /\ Waits(b, search, files)
  <2>1. \A i \in DOMAIN Inner.imports : Inner.imports[i] # f
    BY <1>4 DEF Repeated
  <2>2. /\ Inner.text[Inner.next].op = "use"
        /\ FoundIn(Inner.text[Inner.next].name, search, files) # {}
        /\ f = SearchIn(Inner.text[Inner.next].name, search, files)
    BY <1>1, <1>2 DEF Statement
  <2> QED
    BY <1>1, <1>2, <1>3, <2>1, <2>2, ImportsOK
<1>6. c \in Activity /\ c.kind = "compile" /\ ActivityOK(c, search, files)
  BY <1>2, CompilingOK
<1>7. StackOK(active, search, files)
  BY DEF StateOK
<1> HIDE DEF b, c
<1> DEFINE s == Append(Front(active), b)
<1>8. StackOK(s, search, files) /\ s # <<>>
  BY <1>1, <1>5, <1>7, BecomeOK
<1>9. s \in Seq(Activity) /\ s[Len(s)] = b
  <2>1. Front(active) \in Seq(Activity)
    BY <1>1, <1>7, FrontOK DEF StackOK
  <2>2. /\ s \in Seq(Activity) /\ Len(s) = Len(Front(active)) + 1
        /\ s[Len(Front(active)) + 1] = b
    BY <2>1, <1>5, AppendProperties
  <2> HIDE DEF s
  <2> QED
    BY <2>2
<1> HIDE DEF s
<1>10. StackOK(Append(s, c), search, files) /\ Append(s, c) # <<>>
  BY <1>5, <1>6, <1>8, <1>9, PushOK
<1>11. s \o <<c>> = Append(s, c)
  BY <1>6, <1>9, AppendIsConcat
<1>12. \/ active' = s \o <<c>> /\ phase' = phase
       \/ phase' = "overflow" /\ active' = active
  BY DEF UseFile, f, b, c, s
<1>13. CASE active' = s \o <<c>> /\ phase' = phase
  <2>1. phase' = "busy" /\ StackOK(active', search, files) /\ active' # <<>>
    BY <1>1, <1>10, <1>11, <1>13
  <2> QED
    BY <1>4, <2>1, KeepState
<1>14. CASE phase' = "overflow" /\ active' = active
  BY <1>4, <1>14 DEF StateOK
<1> QED
  BY <1>12, <1>13, <1>14

LEMMA CompileErrorOK ==
  ASSUME StateOK, active # <<>>, CompileError
  PROVE  StateOK'
BY DEF StateOK, CompileError, world

LEMMA UnwindOK ==
  ASSUME StateOK, Unwind
  PROVE  StateOK'
<1> DEFINE below == Front(active)
<1>1. phase = "raise" /\ UNCHANGED <<files, lines, search>> /\ active # <<>>
  BY DEF Unwind, world, StateOK
<1>2. StackOK(below, search, files)
  BY <1>1, FrontOK DEF StateOK
<1>3. CASE below # <<>> /\ Rethrows(Last(below))
  <2>1. active' = below /\ phase' = phase
    BY <1>3 DEF Unwind
  <2> QED
    BY <1>1, <1>2, <1>3, <2>1 DEF StateOK
<1>4. CASE ~(below # <<>> /\ Rethrows(Last(below)))
  <2>1. Return(below, {"exit 1"})
    BY <1>4 DEF Unwind
  <2>2. below # <<>> => below[Len(below)].kind = "run" /\ Waits(below[Len(below)], search, files)
    <3> HAVE below # <<>>
    <3>1. /\ Last(below) \in Activity /\ Waits(Last(below), search, files)
          /\ Last(below) = below[Len(below)]
      BY <1>1, BelowFacts DEF Last
    <3> QED
      BY <1>4, <3>1, ActivityFacts DEF Rethrows
  <2> HIDE DEF below
  <2> QED
    BY <1>1, <1>2, <2>1, <2>2, ReturnsOK
<1> QED
  BY <1>3, <1>4

\* The importer goes on with the code of the file.
LEMMA EndImportFacts ==
  ASSUME StateOK, EndImport
  PROVE  LET a == active[Len(active) - 1]
             e == Module(Inner.code) \o Drop
         IN  /\ active # <<>> /\ Len(active) > 1 /\ phase = "busy" /\ a.kind = "compile"
             /\ UNCHANGED <<files, lines, phase, search>>
             /\ Front(active) # <<>> /\ StackOK(Front(active), search, files)
             /\ a \in Activity /\ ActivityOK(a, search, files) /\ Waits(a, search, files)
             /\ Inner \in Activity /\ e \in Seq(Words) /\ Leaving(e, 0)
             /\ active' = Append(Front(Front(active)), Emits(a, e))
<1> DEFINE s == Front(active)
           a == active[Len(active) - 1]
           m == Module(Inner.code)
           e == m \o Drop
<1>1. /\ active # <<>> /\ phase = "busy" /\ Len(active) > 1 /\ a.kind = "compile"
      /\ UNCHANGED <<files, lines, phase, search>>
      /\ active' = Append(Front(s), [a EXCEPT !.next = @ + 1, !.code = @ \o m \o Drop])
  BY DEF EndImport, Imported, StateOK, KeepsCompiling, world
<1>2. StackOK(active, search, files)
  BY DEF StateOK
<1>3. s # <<>>
  BY <1>1, <1>2, FrontOK
<1>4. /\ StackOK(s, search, files)
      /\ a \in Activity /\ ActivityOK(a, search, files) /\ Waits(a, search, files)
  BY <1>1, <1>2, <1>3, FrontOK
<1>5. Inner \in Activity /\ ActivityOK(Inner, search, files)
  BY <1>1, InnerFacts
<1>6. Inner.code \in Seq(Words)
  BY <1>5, ActivityFacts
<1>7. PICK d, h : Walk(Inner.code, d, h)
  BY <1>5 DEF ActivityOK, CodeOK
<1>8. Leaving(e, 0)
  BY <1>6, <1>7, WalkModule
<1>9. m \in Seq(Words) /\ e \in Seq(Words)
  <2> DEFINE enter == <<Word("enter")>>
             leave == <<Word("leave")>>
             i == enter \o Inner.code
  <2>1. enter \in Seq(Words) /\ leave \in Seq(Words) /\ Drop \in Seq(Words)
    BY WordFacts
  <2>2. m = i \o leave
    BY DEF Module
  <2> HIDE DEF enter, leave
  <2>3. i \in Seq(Words)
    BY <1>6, <2>1, ConcatProperties
  <2> HIDE DEF i, m
  <2>4. m \in Seq(Words)
    BY <2>1, <2>2, <2>3, ConcatProperties
  <2> QED
    BY <2>1, <2>4, ConcatProperties
<1>10. a.code \in Seq(Words)
  BY <1>4, ActivityFacts
<1> HIDE DEF s, a, m
<1>11. a.code \o m \o Drop = a.code \o e
  <2>1. a.code \in Seq(Words) /\ m \in Seq(Words) /\ Drop \in Seq(Words)
    BY <1>9, <1>10, DropCode
  <2>2. \A x, y, z \in Seq(Words) : (x \o y) \o z = x \o (y \o z)
    BY ONLY ConcatAssociative
  <2> QED
    BY <2>1, <2>2
<1> HIDE DEF e
<1>12. [a EXCEPT !.next = @ + 1, !.code = @ \o m \o Drop] = Emits(a, e)
  <2>1. [a EXCEPT !.next = @ + 1, !.code = @ \o m \o Drop]
          = [a EXCEPT !.next = @ + 1, !.code = @ \o e]
    BY <1>11
  <2> QED
    BY <1>4, <2>1, EmitsAct
<1> QED
  BY <1>1, <1>3, <1>4, <1>5, <1>8, <1>9, <1>12 DEF s, a, m, e

LEMMA EndImportOK ==
  ASSUME StateOK, EndImport
  PROVE  StateOK'
<1> DEFINE s == Front(active)
           a == active[Len(active) - 1]
           e == Module(Inner.code) \o Drop
<1>1. /\ a.kind = "compile" /\ phase = "busy" /\ UNCHANGED <<files, lines, phase, search>>
      /\ s # <<>> /\ StackOK(s, search, files)
      /\ a \in Activity /\ ActivityOK(a, search, files) /\ Waits(a, search, files)
      /\ e \in Seq(Words) /\ Leaving(e, 0)
      /\ active' = Append(Front(s), Emits(a, e))
  BY EndImportFacts
<1> HIDE DEF s, a, e
<1>13. /\ a.next \in 1 .. Len(a.text) /\ Uses(a, a.next, search, files)
       /\ Leaving(e, LeavesIn(a.text, a.next, search, files))
  BY <1>1 DEF Waits, LeavesIn
<1>14. /\ Emits(a, e) \in Activity /\ Emits(a, e).kind = "compile"
       /\ ActivityOK(Emits(a, e), search, files)
  BY <1>1, <1>13, EmitsOK
<1>15. StackOK(Append(Front(s), Emits(a, e)), search, files)
       /\ Append(Front(s), Emits(a, e)) # <<>>
  BY <1>1, <1>14, BecomeOK
<1> QED
  BY <1>1, <1>15, KeepState

LEMMA StartRunOK ==
  ASSUME StateOK, StartRun
  PROVE  StateOK'
<1> DEFINE b == Running(Inner)
<1>1. /\ active # <<>> /\ phase = "busy" /\ Inner.kind = "compile"
      /\ Inner.next > Len(Inner.text) /\ ~Imported
      /\ UNCHANGED <<files, lines, phase, search>>
      /\ active' = Append(Front(active), b)
  BY DEF StartRun, StateOK, KeepsCompiling, world, Become
<1>2. StackOK(active, search, files)
  BY DEF StateOK
<1>3. b \in Activity /\ ActivityOK(b, search, files)
  BY <1>1, InnerFacts, RunningOK
<1>4. Len(active) > 1 => active[Len(active) - 1].kind = "run"
  <2> HAVE Len(active) > 1
  <2>1. active[Len(active) - 1] \in Activity
    BY <1>1, <1>2, FrontOK
  <2>2. active[Len(active) - 1].kind # "compile"
    BY <1>1 DEF Imported
  <2> QED
    BY <2>1, <2>2, ActivityFacts
<1> HIDE DEF b
<1>5. StackOK(Append(Front(active), b), search, files) /\ Append(Front(active), b) # <<>>
  BY <1>1, <1>2, <1>3, <1>4, BecomeOK
<1> QED
  BY <1>1, <1>5, KeepState
\* Running.
LEMMA InstructionFacts ==
  ASSUME StateOK, NEW op, RunsNext(op)
  PROVE  /\ active # <<>> /\ phase = "busy" /\ Inner.kind = "run"
         /\ Inner \in Activity /\ ActivityOK(Inner, search, files)
         /\ Inner.next \in 1 .. Len(Inner.code) /\ Inner.code[Inner.next].op = op
         /\ Instruction.op = op /\ Instruction.text \in Text
         /\ Inner.height \in Nat /\ Inner.calls \in Seq(Nat)
<1>1. /\ active # <<>> /\ phase = "busy" /\ Inner.kind = "run"
      /\ Inner.next <= Len(Inner.code) /\ Inner.code[Inner.next].op = op
  BY DEF RunsNext, StateOK
<1>2. /\ Inner \in Activity /\ ActivityOK(Inner, search, files)
      /\ Inner.next \in 1 .. Len(Inner.code)
  BY <1>1, InnerFacts
<1>3. Inner.code \in Seq(Words) /\ Inner.height \in Nat /\ Inner.calls \in Seq(Nat)
  BY <1>2, ActivityFacts
<1>4. Instruction \in Words
  BY <1>2, <1>3, ElementOfSeq DEF Instruction
<1>5. Instruction.text \in Text
  BY <1>4 DEF Words
<1> QED
  BY <1>1, <1>2, <1>3, <1>5 DEF Instruction

\* A run is innermost; and the runs that may be left when it ends.
RunIsOn == phase = "busy" /\ active # <<>> /\ Inner.kind = "run"
LeftRuns(s) == s = <<>> \/ s = Front(active) \/ (Front(active) # <<>> /\ s = Tail(Front(active)))

LEMMA LeftRunsOK ==
  ASSUME StateOK, RunIsOn, NEW s, LeftRuns(s)
  PROVE  /\ StackOK(s, search, files)
         /\ s # <<>> => s[Len(s)].kind = "run" /\ Waits(s[Len(s)], search, files)
<1>1. CASE s = <<>>
  BY <1>1 DEF StackOK
<1>2. CASE Front(active) = <<>>
  BY <1>1, <1>2 DEF LeftRuns
<1>3. CASE Front(active) # <<>>
  <2> DEFINE f == Front(active)
  <2>1. /\ StackOK(f, search, files) /\ f[Len(f)].kind = "run" /\ Waits(f[Len(f)], search, files)
    BY <1>3, BelowFacts DEF RunIsOn, Last
  <2>2. s = <<>> \/ s = f \/ s = Tail(f)
    BY DEF LeftRuns
  <2>3. f # <<>>
    BY <1>3
  <2> HIDE DEF f
  <2>4. StackOK(Tail(f), search, files) /\ (Tail(f) # <<>> => Tail(f)[Len(Tail(f))] = f[Len(f)])
    BY <2>1, <2>3, TailOK
  <2> QED
    BY <1>1, <2>1, <2>2, <2>4
<1> QED
  BY <1>2, <1>3

\* The context of a nested run is gone, and the run below goes on in its place.
LEMMA EscapeNestedOK ==
  ASSUME StateOK, RunIsOn, Len(active) > 1, active' = Tail(active),
         UNCHANGED <<files, lines, phase, search>>
  PROVE  StateOK'
<1>1. StackOK(active, search, files) /\ active # <<>> /\ active \in Seq(Activity)
  BY DEF StateOK, RunIsOn, StackOK
<1>2. StackOK(Tail(active), search, files)
  BY <1>1, TailOK
<1>3. Tail(active) # <<>>
  <2>1. Len(Tail(active)) = Len(active) - 1 /\ Len(active) \in Nat
    BY <1>1, HeadTailProperties, LenProperties
  <2> DEFINE t == Tail(active)
  <2>2. Len(t) # 0
    BY <2>1
  <2> HIDE DEF t
  <2>3. t # <<>>
    BY ONLY <2>2
  <2> QED
    BY <2>3 DEF t
<1> QED
  BY <1>2, <1>3, KeepState DEF RunIsOn

LEMMA AbortOK ==
  ASSUME StateOK, phase' = "abort", UNCHANGED <<files, lines, search, active>>
  PROVE  StateOK'
BY DEF StateOK

\* An instruction that moves the run on.
LEMMA ProceedOK ==
  ASSUME StateOK, NEW op, RunsNext(op), NEW y, NEW e,
         Moves(op, Inner.height, Inner.calls, y, e),
         Become(Moved(Inner, y, e)), UNCHANGED <<files, lines, phase, search>>
  PROVE  StateOK'
<1>1. /\ active # <<>> /\ phase = "busy" /\ Inner.kind = "run"
      /\ Inner \in Activity /\ ActivityOK(Inner, search, files)
      /\ Inner.next \in 1 .. Len(Inner.code) /\ Inner.code[Inner.next].op = op
  BY InstructionFacts
<1>2. /\ Moved(Inner, y, e) \in Activity /\ Moved(Inner, y, e).kind = "run"
      /\ ActivityOK(Moved(Inner, y, e), search, files)
  BY <1>1, MovedOK
<1> QED
  BY <1>1, <1>2, BecomesOK

\* How code ends that does not come to the next statement.
LEMMA BreakOffCases ==
  ASSUME StateOK, RunIsOn, BreakOff \/ RuntimeError
  PROVE  /\ UNCHANGED <<files, lines, search>>
         /\ \/ \E s, exits : /\ LeftRuns(s) /\ exits \subseteq {"exit 0", "exit 1"}
                             /\ Return(s, exits)
            \/ Len(active) > 1 /\ active' = Tail(active) /\ phase' = phase
            \/ phase' = "abort" /\ active' = active
<1>0. /\ LeftRuns(<<>>) /\ LeftRuns(Front(active))
      /\ Front(active) # <<>> => LeftRuns(Tail(Front(active)))
      /\ Len(active) \in Nat \ {0} /\ (Len(active) > 1 => Front(active) # <<>>)
  BY InnerFacts, FrontOK DEF LeftRuns, RunIsOn, StateOK
<1>1. CASE RuntimeError
  BY <1>0, <1>1 DEF RuntimeError, world
<1>2. CASE Escape
  <2>1. CASE Len(active) = 1
    BY <1>2, <2>1 DEF Escape, world
  <2>2. CASE Len(active) # 1
    <3>1. Return(Tail(Front(active)), {"exit 1"}) /\ UNCHANGED <<files, lines, search>>
      BY <1>2, <2>2 DEF Escape, world
    <3>2. LeftRuns(Tail(Front(active)))
      <4>1. Len(active) > 1
        BY <1>0, <2>2
      <4> QED
        BY <1>0, <4>1
    <3> QED
      BY <3>1, <3>2
  <2> QED
    BY <2>1, <2>2
<1>3. CASE EscapeNested
  <2>1. CASE Len(active) = 1
    <3>1. active' = <<>> /\ Answer({"exit 1"}) /\ UNCHANGED <<files, lines, search>>
      BY <1>3, <2>1 DEF EscapeNested, world
    <3>2. Return(<<>>, {"exit 1"})
      BY <3>1 DEF Return
    <3> QED
      BY <1>0, <3>1, <3>2
  <2>2. CASE Len(active) # 1
    <3>1. Len(active) > 1
      BY <1>0, <2>2
    <3> QED
      BY <1>3, <2>2, <3>1 DEF EscapeNested, world
  <2> QED
    BY <2>1, <2>2
<1>4. CASE Finish({"exit 0", "exit 1"})
  BY <1>0, <1>4 DEF Finish, world
<1>5. CASE Quit
  BY <1>5 DEF Quit, world
<1> QED
  BY <1>1, <1>2, <1>3, <1>4, <1>5 DEF BreakOff

\* What a run does: an instruction that moves it on, an eval(), or its end.
LEMMA RunCases ==
  ASSUME StateOK, RunStep
  PROVE  \/ RunIsOn /\ (BreakOff \/ RuntimeError)
         \/ EndRun
         \/ RunEval /\ ~IllegalStart(Instruction.text)
         \/ \E op, y, e : /\ RunsNext(op) /\ Moves(op, Inner.height, Inner.calls, y, e)
                          /\ Become(Moved(Inner, y, e)) /\ UNCHANGED <<files, lines, phase, search>>
<1> DEFINE Goes(op, y, e) ==
             /\ RunsNext(op) /\ Moves(op, Inner.height, Inner.calls, y, e)
             /\ Become(Moved(Inner, y, e)) /\ UNCHANGED <<files, lines, phase, search>>
<1>1. CASE RunCode
  <2>1. RunsNext("code") /\ RunIsOn /\ Inner \in Activity
    BY <1>1, InstructionFacts DEF RunCode, RunIsOn
  <2>2. CASE BreakOff
    BY <2>1, <2>2
  <2>3. CASE Proceed(Inner)
    <3>1. Goes("code", Inner.height, Inner.calls)
      BY <2>1, <2>3, MovedAct DEF Proceed, world, Moves
    <3> QED
      BY <3>1
  <2> QED
    BY <1>1, <2>2, <2>3 DEF RunCode
<1>7. CASE RunParts
  <2> DEFINE y == Inner.height + 1
  <2>1. RunsNext("parts") /\ RunIsOn /\ Inner \in Activity
    BY <1>7, InstructionFacts DEF RunParts, RunIsOn
  <2>2. CASE BreakOff
    BY <2>1, <2>2
  <2>3. CASE Proceed([Inner EXCEPT !.height = Inner.height + 1])
    <3>1. /\ Become([[Inner EXCEPT !.height = y] EXCEPT !.next = @ + 1])
          /\ UNCHANGED <<files, lines, phase, search>>
      BY <2>3 DEF Proceed, world
    <3>2. Moves("parts", Inner.height, Inner.calls, y, Inner.calls)
      BY DEF Moves
    <3> HIDE DEF y
    <3>3. Become(Moved(Inner, y, Inner.calls))
      BY <2>1, <3>1, MovedAct
    <3>4. Goes("parts", y, Inner.calls)
      BY <2>1, <3>1, <3>2, <3>3
    <3> QED
      BY <3>4
  <2> QED
    BY <1>7, <2>2, <2>3 DEF RunParts
<1>2. CASE RunDrop
  <2>1. RunsNext("drop") /\ RunIsOn /\ Inner \in Activity
    BY <1>2, InstructionFacts DEF RunDrop, RunIsOn
  <2>2. CASE Inner.height = 0
    BY <1>2, <2>1, <2>2 DEF RunDrop
  <2>3. CASE Inner.height # 0
    <3>1. Proceed([Inner EXCEPT !.height = Inner.height - 1])
      BY <1>2, <2>3 DEF RunDrop
    <3>2. /\ Become(Moved(Inner, Inner.height - 1, Inner.calls))
          /\ UNCHANGED <<files, lines, phase, search>>
      BY <2>1, <3>1, MovedAct DEF Proceed, world
    <3>3. Goes("drop", Inner.height - 1, Inner.calls)
      BY <2>1, <2>3, <3>2 DEF Moves
    <3> QED
      BY <3>3
  <2> QED
    BY <2>2, <2>3
<1>3. CASE Enter
  <2> DEFINE y == Inner.height + 1
             e == Append(Inner.calls, Inner.height)
  <2>1. RunsNext("enter") /\ Inner \in Activity
    BY <1>3, InstructionFacts DEF Enter
  <2>2. /\ Become([[Inner EXCEPT !.calls = e, !.height = y] EXCEPT !.next = @ + 1])
        /\ UNCHANGED <<files, lines, phase, search>>
    BY <1>3 DEF Enter, Proceed, world
  <2>3. Moves("enter", Inner.height, Inner.calls, y, e)
    BY DEF Moves
  <2> HIDE DEF y, e
  <2>4. \A x, z : [[Inner EXCEPT !.calls = z, !.height = x] EXCEPT !.next = @ + 1]
                   = Moved(Inner, x, z)
    BY ONLY <2>1, MovedAct
  <2>5. Goes("enter", y, e)
    BY <2>1, <2>2, <2>3, <2>4
  <2> QED
    BY <2>5
<1>4. CASE Leave
  <2> DEFINE y == HeightAfter(Inner)
             e == Front(Inner.calls)
  <2>1. /\ RunsNext("leave") /\ Inner \in Activity /\ Inner.kind = "run"
        /\ ActivityOK(Inner, search, files)
        /\ Inner.next \in 1 .. Len(Inner.code) /\ Inner.code[Inner.next].op = "leave"
    BY <1>4, InstructionFacts DEF Leave
  <2>2. /\ Become([[Inner EXCEPT !.height = y, !.calls = e] EXCEPT !.next = @ + 1])
        /\ UNCHANGED <<files, lines, phase, search>>
    BY <1>4 DEF Leave, Proceed, world
  <2>3. Moves("leave", Inner.height, Inner.calls, y, e)
    BY <2>1, LeavesCall DEF Moves, HeightAfter
  <2> HIDE DEF y, e
  <2>4. \A x, z : [[Inner EXCEPT !.height = x, !.calls = z] EXCEPT !.next = @ + 1]
                   = Moved(Inner, x, z)
    <3>1. Inner \in Activity
      BY <2>1
    <3> QED
      BY ONLY <3>1, MovedAct
  <2>5. Goes("leave", y, e)
    BY <2>1, <2>2, <2>3, <2>4
  <2> QED
    BY <2>5
<1>5. CASE RunModule
  <2> DEFINE y == Inner.height + 1
  <2>1. RunsNext("module") /\ Inner \in Activity
    BY <1>5, InstructionFacts DEF RunModule
  <2>2. /\ Become([[Inner EXCEPT !.height = y] EXCEPT !.next = @ + 1])
        /\ UNCHANGED <<files, lines, phase, search>>
    BY <1>5 DEF RunModule, Proceed, world
  <2>3. Moves("module", Inner.height, Inner.calls, y, Inner.calls)
    BY DEF Moves
  <2> HIDE DEF y
  <2>4. Become(Moved(Inner, y, Inner.calls))
    BY <2>1, <2>2, MovedAct
  <2>5. Goes("module", y, Inner.calls)
    BY <2>1, <2>2, <2>3, <2>4
  <2> QED
    BY <2>5
<1>6. CASE RunEval
  <2>1. CASE IllegalStart(Instruction.text)
    BY <1>6, <2>1, InstructionFacts DEF RunEval, RunIsOn
  <2> QED
    BY <1>6, <2>1
<1> QED
  BY <1>1, <1>2, <1>3, <1>4, <1>5, <1>6, <1>7 DEF RunStep

LEMMA RunEvalOK ==
  ASSUME StateOK, RunEval, ~IllegalStart(Instruction.text)
  PROVE  StateOK'
<1> DEFINE c == Compiling(Instruction.text)
<1>1. /\ active # <<>> /\ phase = "busy" /\ Inner.kind = "run"
      /\ Inner.next \in 1 .. Len(Inner.code) /\ Inner.code[Inner.next].op = "eval"
      /\ Instruction.text \in Text
  BY InstructionFacts DEF RunEval
<1>2. active' = Append(active, c) /\ UNCHANGED <<files, lines, phase, search>>
  BY DEF RunEval, Begin, KeepsCompiling, world
<1>3. c \in Activity /\ c.kind = "compile" /\ ActivityOK(c, search, files)
  BY <1>1, CompilingOK
<1>4. StackOK(active, search, files)
  BY DEF StateOK
<1>5. Waits(active[Len(active)], search, files)
  BY <1>1 DEF Waits, Inner
<1> HIDE DEF c
<1>6. StackOK(Append(active, c), search, files) /\ Append(active, c) # <<>>
  BY <1>3, <1>4, <1>5, PushOK
<1> QED
  BY <1>1, <1>2, <1>6, KeepState

\* HLT.
LEMMA EndRunCases ==
  ASSUME StateOK, EndRun
  PROVE  /\ RunIsOn /\ UNCHANGED <<files, lines, search>>
         /\ LeftRuns(Front(active))
         /\ \E exits : exits \subseteq {"exit 0", "exit 1"} /\ Return(Front(active), exits)
<1>1. RunIsOn
  BY DEF EndRun, StateOK, RunIsOn
<1> DEFINE exits == IF Inner.height = 0 THEN {"exit 0"} ELSE {"exit 0", "exit 1"}
<1>2. Finish(exits) /\ exits \subseteq {"exit 0", "exit 1"}
  BY DEF EndRun
<1> HIDE DEF exits
<1> QED
  BY <1>1, <1>2 DEF Finish, world, LeftRuns

LEMMA RunStepOK ==
  ASSUME StateOK, RunStep
  PROVE  StateOK'
<1>1. CASE RunIsOn /\ (BreakOff \/ RuntimeError)
  <2>1. UNCHANGED <<files, lines, search>>
    BY <1>1, BreakOffCases
  <2>2. CASE \E s, exits : /\ LeftRuns(s) /\ exits \subseteq {"exit 0", "exit 1"}
                           /\ Return(s, exits)
    BY <1>1, <2>1, <2>2, LeftRunsOK, ReturnsOK
  <2>3. CASE Len(active) > 1 /\ active' = Tail(active) /\ phase' = phase
    BY <1>1, <2>1, <2>3, EscapeNestedOK
  <2>4. CASE phase' = "abort" /\ active' = active
    BY <2>1, <2>4, AbortOK
  <2> QED
    BY <1>1, <2>2, <2>3, <2>4, BreakOffCases
<1>2. CASE EndRun
  BY <1>2, EndRunCases, LeftRunsOK, ReturnsOK
<1> QED
  BY <1>1, <1>2, RunCases, RunEvalOK, ProceedOK

LEMMA NextStateOK ==
  ASSUME StateOK, [Next]_vars,
         UseAgain => RepeatedIn(Inner.text, Inner.next, search, files)
  PROVE  StateOK'
<1>1. CASE ReadLine
  BY <1>1, ReadLineOK
<1>2. CASE CompileCode
  <2> DEFINE e == <<Word("code")>>
  <2>1. e \in Seq(Words) /\ Leaving(e, 0)
    <3>1. Word("code") \in Words /\ Word("code").op = "code"
      BY WordFacts
    <3>2. DepthAfter("code", 0) = 0 /\ BaseAfter("code", 0, 0) = 0
      BY DEF DepthAfter, BaseAfter
    <3> QED
      BY <3>1, <3>2, WalkWord
  <2>2. /\ CompilesNext("code") /\ Become(Compiled(e)) /\ search' = search /\ KeepsCompiling
    BY <1>2 DEF CompileCode
  <2> HIDE DEF e
  <2> QED
    BY <2>1, <2>2, CompileStatementOK
<1>14. CASE CompileParts
  <2> DEFINE e == <<Word("parts")>>
  <2>1. e \in Seq(Words) /\ Leaving(e, 1)
    <3>1. Word("parts") \in Words /\ Word("parts").op = "parts"
      BY WordFacts
    <3>2. DepthAfter("parts", 0) = 0 /\ BaseAfter("parts", 0, 0) = 1
      BY DEF DepthAfter, BaseAfter
    <3> QED
      BY <3>1, <3>2, WalkWord
  <2>2. /\ CompilesNext("parts") /\ Become(Compiled(e)) /\ search' = search /\ KeepsCompiling
    BY <1>14 DEF CompileParts
  <2> HIDE DEF e
  <2> QED
    BY <2>1, <2>2, CompileStatementOK
<1>3. CASE CompileEval
  <2> DEFINE w == [Word("eval") EXCEPT !.text = Statement.text]
             e == <<w>> \o Drop
  <2>1. CompilesNext("eval") /\ Become(Compiled(e)) /\ search' = search /\ KeepsCompiling
    BY <1>3 DEF CompileEval
  <2>2. Statement.text \in Text
    BY <2>1, StatementFacts
  <2>3. w \in Words /\ w.op = "eval"
    BY <2>2 DEF Word, Words
  <2> HIDE DEF w
  <2>4. e \in Seq(Words) /\ Leaving(e, 0)
    BY <2>3, ValueCode
  <2> HIDE DEF e
  <2> QED
    BY <2>1, <2>4, CompileStatementOK
<1>4. CASE CompileModule
  <2> DEFINE w == [Word("module") EXCEPT !.name = Statement.name]
             e == <<w>> \o Drop
  <2>1. CompilesNext("module") /\ Become(Compiled(e)) /\ search' = search /\ KeepsCompiling
    BY <1>4 DEF CompileModule
  <2>2. Statement.name \in Dir \cup Name \cup {""}
    BY <2>1, StatementFacts
  <2>3. w \in Words /\ w.op = "module"
    BY <2>2, TextAssumption DEF Word, Words
  <2> HIDE DEF w
  <2>4. e \in Seq(Words) /\ Leaving(e, 0)
    BY <2>3, ValueCode
  <2> HIDE DEF e
  <2> QED
    BY <2>1, <2>4, CompileStatementOK
<1>5. CASE CompilePath
  BY <1>5, CompilePathOK
<1>6. CASE CompileBad \/ UseMissing \/ UseIllegal
  <2>1. active # <<>> /\ CompileError
    BY <1>6, StatementFacts DEF CompileBad, UseMissing, UseIllegal
  <2> QED
    BY <2>1, CompileErrorOK
<1>7. CASE UseAgain
  BY <1>7, UseAgainOK
<1>8. CASE UseFile
  BY <1>8, UseFileOK
<1>9. CASE Unwind
  BY <1>9, UnwindOK
<1>10. CASE EndImport
  BY <1>10, EndImportOK
<1>11. CASE StartRun
  BY <1>11, StartRunOK
<1>12. CASE RunStep
  BY <1>12, RunStepOK
<1>13. CASE Ended \/ UNCHANGED vars
  BY <1>13 DEF Ended, vars, StateOK
<1> QED
  BY <1>1, <1>2, <1>3, <1>4, <1>5, <1>6, <1>7, <1>8, <1>9, <1>10, <1>11, <1>12, <1>13, <1>14
  DEF Next, Compile
-----------------------------------------------------------------------------
(* Sequences in a row: f gives what the first i of the n sequences are     *)
(* together.                                                               *)

Joins(s, n, f) ==
  /\ f = [i \in 0 .. n |-> f[i]]
  /\ f[0] = <<>>
  /\ \A i \in 1 .. n : f[i] = f[i - 1] \o s[i]

LEMMA JoinsExists ==
  ASSUME NEW s, NEW n \in Nat
  PROVE  \E f : Joins(s, n, f)
<1> DEFINE bad == {m \in Nat : ~ \E f : Joins(s, m, f)}
<1>1. CASE bad = {}
  BY <1>1
<1>2. CASE bad # {}
  <2>1. PICK m \in bad : \A k \in bad : m <= k
    BY <1>2, Least
  <2>2. CASE m = 0
    <3> DEFINE f == [i \in 0 .. 0 |-> <<>>]
    <3>1. Joins(s, 0, f)
      BY DEF Joins
    <3> QED
      BY <2>1, <2>2, <3>1
  <2>3. CASE m # 0
    <3>1. m - 1 \in Nat /\ m - 1 \notin bad
      BY <2>1, <2>3
    <3>2. PICK f : Joins(s, m - 1, f)
      BY <3>1
    <3> DEFINE g == [i \in 0 .. m |-> IF i < m THEN f[i] ELSE f[m - 1] \o s[m]]
    <3>3. /\ \A i \in 0 .. m - 1 : g[i] = f[i]
          /\ g[m] = f[m - 1] \o s[m]
          /\ g = [i \in 0 .. m |-> g[i]]
      <4>1. \A i \in 0 .. m - 1 : i \in 0 .. m /\ i < m
        BY <3>1
      <4>2. m \in 0 .. m /\ ~(m < m)
        BY <3>1
      <4> QED
        BY <4>1, <4>2, Zenon
    <3> HIDE DEF g
    <3>4. g[0] = <<>>
      BY <3>1, <3>2, <3>3 DEF Joins
    <3>5. ASSUME NEW i \in 1 .. m PROVE g[i] = g[i - 1] \o s[i]
      <4>1. i - 1 \in 0 .. m - 1 /\ (i = m \/ i \in 1 .. m - 1)
        BY <3>1
      <4>2. CASE i = m
        BY <4>1, <4>2, <3>3
      <4>3. CASE i \in 1 .. m - 1
        <5>1. i \in 0 .. m - 1
          BY <4>3
        <5> QED
          BY <4>1, <4>3, <5>1, <3>2, <3>3 DEF Joins
      <4> QED
        BY <4>1, <4>2, <4>3
    <3>6. Joins(s, m, g)
      BY <3>3, <3>4, <3>5 DEF Joins
    <3> QED
      BY <2>1, <3>6
  <2> QED
    BY <2>2, <2>3
<1> QED
  BY <1>1, <1>2

Alike(s, t, k) == \A i \in 1 .. k : s[i] = t[i]

\* What is alike up to some place is joined alike.
LEMMA JoinsAgree ==
  ASSUME NEW s, NEW t, NEW n \in Nat, NEW f, NEW g, Joins(s, n, f), Joins(t, n, g),
         NEW k \in 0 .. n, Alike(s, t, k)
  PROVE  f[k] = g[k]
<1> DEFINE bad == {i \in 0 .. k : f[i] # g[i]}
<1>0. k \in 0 .. k
  OBVIOUS
<1>1. SUFFICES ASSUME bad # {} PROVE FALSE
  BY <1>0
<1>2. PICK i \in bad : \A j \in bad : i <= j
  <2>1. bad \subseteq Nat
    OBVIOUS
  <2> HIDE DEF bad
  <2> QED
    BY <1>1, <2>1, Least
<1>3. i # 0
  BY <1>2 DEF Joins
<1>4. i - 1 \in 0 .. k /\ i - 1 \notin bad /\ i \in 1 .. k /\ i \in 1 .. n
  BY <1>2, <1>3
<1>5. f[i - 1] = g[i - 1] /\ s[i] = t[i]
  BY <1>4 DEF Alike
<1>6. f[i] = f[i - 1] \o s[i] /\ g[i] = g[i - 1] \o t[i]
  BY <1>4 DEF Joins
<1> QED
  BY <1>2, <1>5, <1>6

LEMMA JoinsType ==
  ASSUME NEW s, NEW n \in Nat, NEW f, Joins(s, n, f),
         NEW T, \A i \in 1 .. n : s[i] \in Seq(T)
  PROVE  \A i \in 0 .. n : f[i] \in Seq(T)
<1> DEFINE bad == {i \in 0 .. n : f[i] \notin Seq(T)}
<1>1. SUFFICES ASSUME bad # {} PROVE FALSE
  OBVIOUS
<1>2. PICK i \in bad : \A j \in bad : i <= j
  <2>1. bad \subseteq Nat
    OBVIOUS
  <2> HIDE DEF bad
  <2> QED
    BY <1>1, <2>1, Least
<1>3. i # 0
  <2>1. <<>> \in Seq(T)
    OBVIOUS
  <2> QED
    BY <1>2, <2>1 DEF Joins
<1>4. i - 1 \in 0 .. n /\ i - 1 \notin bad /\ i \in 1 .. n
  BY <1>2, <1>3
<1>5. f[i - 1] \in Seq(T) /\ s[i] \in Seq(T)
  BY <1>4
<1>6. f[i] = f[i - 1] \o s[i]
  BY <1>4 DEF Joins
<1>7. f[i - 1] \o s[i] \in Seq(T)
  BY <1>5, ConcatProperties
<1> QED
  BY <1>2, <1>6, <1>7

\* A sequence over S has its parts over S.
LEMMA ConcatParts ==
  ASSUME NEW T, NEW S, NEW c \in Seq(T), NEW e \in Seq(T), c \o e \in Seq(S)
  PROVE  c \in Seq(S) /\ e \in Seq(S)
<1> DEFINE n == Len(c)
           m == Len(e)
           b == c \o e
<1>1. /\ Len(b) = n + m /\ n \in Nat /\ m \in Nat
      /\ \A i \in 1 .. n : b[i] = c[i]
      /\ \A j \in 1 .. m : b[n + j] = e[j]
  BY ConcatAt, LenProperties
<1>2. \A i \in 1 .. Len(b) : b[i] \in S
  BY ElementOfSeq
<1> HIDE DEF b
<1>3. \A i \in 1 .. n : c[i] \in S
  BY <1>1, <1>2
<1>4. \A j \in 1 .. m : e[j] \in S
  <2> TAKE j \in 1 .. m
  <2>1. n + j \in 1 .. Len(b)
    BY <1>1
  <2> QED
    BY <2>1, <1>1, <1>2
<1>5. c = [i \in 1 .. n |-> c[i]] /\ e = [i \in 1 .. m |-> e[i]]
  BY LenProperties
<1> HIDE DEF n, m
<1>6. [i \in 1 .. n |-> c[i]] \in Seq(S) /\ [i \in 1 .. m |-> e[i]] \in Seq(S)
  BY <1>1, <1>3, <1>4, IsASeq
<1> QED
  BY <1>5, <1>6

LEMMA JoinsParts ==
  ASSUME NEW s, NEW n \in Nat, NEW f, Joins(s, n, f),
         NEW T, \A i \in 1 .. n : s[i] \in Seq(T),
         NEW k \in 0 .. n, NEW S, f[k] \in Seq(S)
  PROVE  /\ \A i \in 0 .. k : f[i] \in Seq(S)
         /\ \A i \in 1 .. k : s[i] \in Seq(S)
<1> DEFINE bad == {j \in Nat : j <= k /\ f[k - j] \notin Seq(S)}
<1>t. \A i \in 0 .. n : f[i] \in Seq(T)
  BY JoinsType
<1>1. bad = {}
  <2>1. SUFFICES ASSUME bad # {} PROVE FALSE
    OBVIOUS
  <2>2. PICK j \in bad : \A i \in bad : j <= i
    BY <2>1, Least
  <2>3. j # 0
    <3>1. k - 0 = k
      OBVIOUS
    <3> QED
      BY <2>2, <3>1
  <2> DEFINE i == k - (j - 1)
  <2>b. j \in Nat /\ j <= k
    BY <2>2
  <2>a. j - 1 \in Nat /\ j - 1 \notin bad
    <3> HIDE DEF bad
    <3> QED
      BY <2>2, <2>3, <2>b
  <2>4. j - 1 \in Nat /\ j - 1 \notin bad /\ j - 1 <= k /\ i \in 1 .. n /\ i - 1 = k - j
        /\ i \in 0 .. n /\ i - 1 \in 0 .. n
    BY <2>a, <2>b, <2>3
  <2>5. f[i] \in Seq(S)
    BY <2>4
  <2>6. f[i] = f[i - 1] \o s[i] /\ f[i - 1] \in Seq(T) /\ s[i] \in Seq(T)
    BY <2>4, <1>t DEF Joins
  <2>7. f[i - 1] \in Seq(S)
    BY <2>5, <2>6, ConcatParts
  <2> QED
    BY <2>2, <2>4, <2>7
<1>2. ASSUME NEW i \in 0 .. k PROVE f[i] \in Seq(S)
  <2>1. k - i \in Nat /\ k - i <= k /\ k - (k - i) = i
    OBVIOUS
  <2>2. k - i \notin bad
    BY <1>1
  <2>3. f[k - (k - i)] \in Seq(S)
    BY <2>1, <2>2
  <2> QED
    BY <2>1, <2>3
<1>3. ASSUME NEW i \in 1 .. k PROVE s[i] \in Seq(S)
  <2>1. i \in 0 .. k /\ i \in 1 .. n /\ i - 1 \in 0 .. n
    OBVIOUS
  <2>2. f[i] = f[i - 1] \o s[i] /\ f[i - 1] \in Seq(T) /\ s[i] \in Seq(T)
    BY <2>1, <1>t DEF Joins
  <2> QED
    <3>1. f[i - 1] \o s[i] \in Seq(S)
      BY <1>2, <2>1, <2>2
    <3> QED
      BY <2>2, <3>1, ConcatParts
<1> QED
  BY <1>2, <1>3

\* FlattenSeq joins all of them.
LEMMA FlattenJoins ==
  ASSUME NEW T, NEW s, NEW n \in Nat, s = [i \in 1 .. n |-> s[i]],
         \A i \in 1 .. n : s[i] \in Seq(T), NEW f, Joins(s, n, f)
  PROVE  FlattenSeq(s) = f[n]
<1>0. s \in Seq(Seq(T)) /\ Len(s) = n
  <2>1. [i \in 1 .. n |-> s[i]] \in Seq(Seq(T)) /\ Len([i \in 1 .. n |-> s[i]]) = n
    BY IsASeq
  <2> QED
    BY <2>1
<1>1. CASE n = 0
  <2>1. s = <<>>
    BY <1>0, <1>1, EmptySeq
  <2>2. FlattenSeq(s) = s
    BY <1>0, <1>1 DEF FlattenSeq
  <2> QED
    BY <1>1, <2>1, <2>2 DEF Joins
<1>2. CASE n # 0
  <2> DEFINE Flattens(g) == g = [i \in 1 .. n |-> IF i = 1 THEN s[i] ELSE g[i - 1] \o s[i]]
             h == [i \in 1 .. n |-> f[i]]
             c == CHOOSE g : Flattens(g)
  <2>1. FlattenSeq(s) = c[n]
    BY <1>0, <1>2 DEF FlattenSeq
  <2>2. f[1] = s[1]
    <3>1. 1 \in 1 .. n /\ s[1] \in Seq(T) /\ 1 - 1 = 0
      BY <1>2
    <3>2. f[1] = <<>> \o s[1]
      BY <3>1 DEF Joins
    <3> QED
      BY <3>1, <3>2, ConcatEmptySeq
  <2>3. Flattens(h)
    <3>1. \A i \in 1 .. n : h[i] = IF i = 1 THEN s[i] ELSE h[i - 1] \o s[i]
      <4> TAKE i \in 1 .. n
      <4>1. i # 1 => i - 1 \in 1 .. n
        OBVIOUS
      <4>2. f[i] = f[i - 1] \o s[i]
        BY DEF Joins
      <4> QED
        BY <2>2, <4>1, <4>2
    <3> QED
      BY <3>1
  <2>4. Flattens(c)
    BY <2>3
  <2> HIDE DEF c
  <2> DEFINE bad == {i \in 1 .. n : c[i] # f[i]}
  <2>5. bad = {}
    <3>1. SUFFICES ASSUME bad # {} PROVE FALSE
      OBVIOUS
    <3>2. PICK i \in bad : \A j \in bad : i <= j
      <4>1. bad \subseteq Nat
        OBVIOUS
      <4> HIDE DEF bad
      <4> QED
        BY <3>1, <4>1, Least
    <3>3. c[i] = IF i = 1 THEN s[i] ELSE c[i - 1] \o s[i]
      BY <2>4, <3>2
    <3>4. i # 1
      BY <2>2, <3>2, <3>3
    <3>5. i - 1 \in 1 .. n /\ i - 1 \notin bad
      BY <3>2, <3>4
    <3>6. f[i] = f[i - 1] \o s[i]
      BY <3>2 DEF Joins
    <3> QED
      BY <3>2, <3>3, <3>4, <3>5, <3>6
  <2>6. n \in 1 .. n /\ n \notin bad
    BY <1>2, <2>5
  <2> QED
    BY <2>1, <2>6
<1> QED
  BY <1>1, <1>2
-----------------------------------------------------------------------------
(* The code a text stands for, apart from the state.                       *)

Marks == Words \cup {Word("unknown")}
Unknowns == [t \in Text |-> Unknown]
WordsIn(text, i, body, w, fs) ==
  LET s == text[i]
  IN  CASE s.op = "code" -> <<Word("code")>>
        [] s.op = "parts" -> <<Word("parts")>>
        [] s.op = "eval" -> <<[Word("eval") EXCEPT !.text = s.text]>> \o Drop
        [] s.op = "module" -> <<[Word("module") EXCEPT !.name = s.name]>> \o Drop
        [] s.op = "path" -> <<>>
        [] s.op = "use" /\ FoundIn(s.name, w, fs) # {} ->
             IF RepeatedIn(text, i, w, fs) THEN Drop
                                           ELSE Module(body[fs[SearchIn(s.name, w, fs)]]) \o Drop
        [] OTHER -> Unknown
Rows(text, body, w, fs) == [i \in DOMAIN text |-> WordsIn(text, i, body, w, fs)]
Codes(w, fs) ==
  CHOOSE c : c = [n \in 0 .. MaxDepth |->
                    [t \in Text |-> FlattenSeq(Rows(t, IF n = 0 THEN Unknowns ELSE c[n - 1], w, fs))]]
Body(n, w, fs) == IF n = 0 THEN Unknowns ELSE Codes(w, fs)[n - 1]

\* The code of the first i statements, for each i.
CodePrefixes(text, body, w, fs) == CHOOSE f : Joins(Rows(text, body, w, fs), Len(text), f)

\* The recursion over the depth of imports is well-founded.
LEMMA CodesDefined ==
  ASSUME NEW w, NEW fs
  PROVE  Codes(w, fs) = [n \in 0 .. MaxDepth |->
           [t \in Text |-> FlattenSeq(Rows(t, IF n = 0 THEN Unknowns ELSE Codes(w, fs)[n - 1], w, fs))]]
<1> DEFINE R(body) == [t \in Text |-> FlattenSeq(Rows(t, body, w, fs))]
           P(m, c) == c = [n \in 0 .. m |-> R(IF n = 0 THEN Unknowns ELSE c[n - 1])]
           bad == {m \in Nat : ~ \E c : P(m, c)}
<1>1. bad = {}
  <2>1. SUFFICES ASSUME bad # {} PROVE FALSE
    OBVIOUS
  <2>2. PICK m \in bad : \A k \in bad : m <= k
    <3>1. bad \subseteq Nat
      OBVIOUS
    <3> HIDE DEF bad
    <3> QED
      BY <2>1, <3>1, Least
  <2>3. CASE m = 0
    <3> DEFINE c == [n \in 0 .. 0 |-> R(Unknowns)]
    <3> HIDE DEF R
    <3>1. P(0, c)
      OBVIOUS
    <3> QED
      BY <2>2, <2>3, <3>1
  <2>4. CASE m # 0
    <3>1. m \in Nat /\ m - 1 \in Nat /\ m - 1 \notin bad
      <4>1. m \in Nat
        BY <2>2
      <4> HIDE DEF bad
      <4>2. m - 1 \in Nat /\ m - 1 \notin bad
        BY <2>2, <2>4, <4>1
      <4> QED
        BY <4>1, <4>2
    <3>2. PICK c : P(m - 1, c)
      BY <3>1
    <3> DEFINE d == [n \in 0 .. m |-> IF n < m THEN c[n] ELSE R(c[m - 1])]
    <3> HIDE DEF R
    <3>3. \A n \in 0 .. m - 1 : d[n] = c[n]
      BY <3>1
    <3>4. d[m] = R(c[m - 1])
      BY <3>1
    <3>5. ASSUME NEW n \in 0 .. m
          PROVE  d[n] = R(IF n = 0 THEN Unknowns ELSE d[n - 1])
      <4>1. CASE n = m
        <5>1. n # 0 /\ n - 1 \in 0 .. m - 1
          BY <2>4, <3>1, <4>1
        <5> HIDE DEF d
        <5>2. d[n - 1] = c[m - 1]
          BY <3>3, <4>1, <5>1
        <5> QED
          BY <3>4, <4>1, <5>1, <5>2
      <4>2. CASE n # m
        <5>1. n \in 0 .. m - 1 /\ (n # 0 => n - 1 \in 0 .. m - 1)
          BY <3>1, <4>2
        <5> HIDE DEF d
        <5>2. d[n] = c[n] /\ (n # 0 => d[n - 1] = c[n - 1])
          BY <3>3, <5>1
        <5>3. c[n] = R(IF n = 0 THEN Unknowns ELSE c[n - 1])
          BY <3>2, <5>1
        <5> QED
          BY <5>2, <5>3
      <4> QED
        BY <4>1, <4>2
    <3>6. d = [n \in 0 .. m |-> d[n]]
      OBVIOUS
    <3> HIDE DEF d
    <3>7. P(m, d)
      BY <3>5, <3>6
    <3> QED
      BY <2>2, <3>7
  <2> QED
    BY <2>3, <2>4
<1>2. \E c : P(MaxDepth, c)
  BY <1>1, BoundAssumption
<1>3. Codes(w, fs) = CHOOSE c : P(MaxDepth, c)
  BY DEF Codes
<1> HIDE DEF bad
<1>4. P(MaxDepth, Codes(w, fs))
  BY <1>2, <1>3
<1> QED
  BY <1>4

LEMMA CodesOf ==
  ASSUME NEW w, NEW fs, NEW n \in 0 .. MaxDepth, NEW t \in Text
  PROVE  Codes(w, fs)[n][t] = FlattenSeq(Rows(t, Body(n, w, fs), w, fs))
<1> DEFINE R(m) == [u \in Text |-> FlattenSeq(Rows(u, Body(m, w, fs), w, fs))]
<1>1. Codes(w, fs) = [m \in 0 .. MaxDepth |-> R(m)]
  BY CodesDefined DEF Body
<1>2. Codes(w, fs)[n] = R(n)
  <2> HIDE DEF R
  <2> QED
    BY <1>1
<1> QED
  BY <1>2

LEMMA WordsOfIn ==
  ASSUME NEW text, NEW i, NEW body
  PROVE  WordsOf(text, i, body) = WordsIn(text, i, body, search, files)
BY Lookup, RepeatedUseIn DEF WordsOf, WordsIn

LEMMA CodeOfIn ==
  ASSUME NEW text
  PROVE  CodeOf(text) = Codes(search, files)[MaxDepth][text]
<1>1. CodeTo = Codes(search, files)
  <2>1. \A t, body : [i \in DOMAIN t |-> WordsOf(t, i, body)] = Rows(t, body, search, files)
    BY WordsOfIn DEF Rows
  <2> DEFINE Of(c, n, t) == [i \in DOMAIN t |->
                WordsOf(t, i, IF n = 0 THEN [u \in Text |-> Unknown] ELSE c[n - 1])]
             In(c, n, t) == Rows(t, IF n = 0 THEN Unknowns ELSE c[n - 1], search, files)
             A(c) == [n \in 0 .. MaxDepth |-> [t \in Text |-> FlattenSeq(Of(c, n, t))]]
             B(c) == [n \in 0 .. MaxDepth |-> [t \in Text |-> FlattenSeq(In(c, n, t))]]
  <2>2. CodeTo = CHOOSE c : c = A(c)
    BY DEF CodeTo
  <2>3. Codes(search, files) = CHOOSE c : c = B(c)
    BY DEF Codes
  <2>4. \A c, n, t : Of(c, n, t) = In(c, n, t)
    BY <2>1 DEF Unknowns
  <2> HIDE DEF Of, In
  <2>5. \A c : A(c) = B(c)
    BY <2>4
  <2> HIDE DEF A, B
  <2> QED
    BY <2>2, <2>3, <2>5
<1> QED
  BY <1>1 DEF CodeOf
-----------------------------------------------------------------------------
(* What a code knows.                                                      *)

LEMMA MarkFacts ==
  /\ Words \subseteq Marks
  /\ Drop \in Seq(Words) /\ Drop \in Seq(Marks)
  /\ \A op \in {"code", "parts", "enter", "leave"} : <<Word(op)>> \in Seq(Words)
  /\ Unknown \in Seq(Marks) /\ Unknown \notin Seq(Words)
<1>1. Words \subseteq Marks /\ Word("unknown") \in Marks
  BY DEF Marks
<1>2. Word("unknown") \notin Words
  BY DEF Word, Words
<1> DEFINE u == Word("unknown")
<1>3. <<u>> \in Seq(Marks)
  BY <1>1
<1>4. <<u>> \notin Seq(Words)
  <2> HIDE DEF u
  <2>1. SUFFICES ASSUME <<u>> \in Seq(Words) PROVE u \in Words
    BY <1>2 DEF u
  <2>2. <<u>>[1] \in Words
    BY <2>1
  <2> QED
    BY <2>2
<1>5. Drop \in Seq(Words)
  BY DropCode
<1>6. \A c \in Seq(Words) : c \in Seq(Marks)
  <2> TAKE c \in Seq(Words)
  <2>1. /\ c = [i \in 1 .. Len(c) |-> c[i]] /\ Len(c) \in Nat
        /\ \A i \in 1 .. Len(c) : c[i] \in Marks
    BY <1>1, LenProperties, ElementOfSeq
  <2>2. [i \in 1 .. Len(c) |-> c[i]] \in Seq(Marks)
    BY <2>1, IsASeq
  <2> QED
    BY <2>1, <2>2
<1>7. \A op \in {"code", "parts", "enter", "leave"} : <<Word(op)>> \in Seq(Words)
  BY WordFacts
<1> QED
  BY <1>1, <1>3, <1>4, <1>5, <1>6, <1>7 DEF Unknown

LEMMA KnownMarks ==
  ASSUME NEW c \in Seq(Words)
  PROVE  c \in Seq(Marks)
<1>1. /\ c = [i \in 1 .. Len(c) |-> c[i]] /\ Len(c) \in Nat
      /\ \A i \in 1 .. Len(c) : c[i] \in Marks
  BY MarkFacts, LenProperties, ElementOfSeq
<1>2. [i \in 1 .. Len(c) |-> c[i]] \in Seq(Marks)
  BY <1>1, IsASeq
<1> QED
  BY <1>1, <1>2

\* The call of an imported file, known as far as its code is.
LEMMA CallType ==
  ASSUME NEW S, S \in {Words, Marks}, NEW c \in Seq(S)
  PROVE  /\ Module(c) \in Seq(S) /\ Module(c) \o Drop \in Seq(S)
<1> DEFINE enter == <<Word("enter")>>
           leave == <<Word("leave")>>
           m == Module(c)
<1>1. enter \in Seq(S) /\ leave \in Seq(S) /\ Drop \in Seq(S)
  BY MarkFacts, KnownMarks
<1>2. m = (enter \o c) \o leave
  BY DEF Module
<1> HIDE DEF enter, leave, m
<1>3. enter \o c \in Seq(S)
  BY <1>1, ConcatProperties
<1>4. m \in Seq(S)
  BY <1>1, <1>2, <1>3, ConcatProperties
<1>5. m \o Drop \in Seq(S)
  BY <1>1, <1>4, ConcatProperties
<1> QED
  BY <1>4, <1>5 DEF m

LEMMA CallKnown ==
  ASSUME NEW c \in Seq(Marks), Module(c) \o Drop \in Seq(Words)
  PROVE  c \in Seq(Words)
<1> DEFINE enter == <<Word("enter")>>
           leave == <<Word("leave")>>
           m == Module(c)
<1>1. enter \in Seq(Marks) /\ leave \in Seq(Marks) /\ Drop \in Seq(Marks)
  BY MarkFacts, KnownMarks
<1>2. m = (enter \o c) \o leave /\ m \in Seq(Marks)
  BY CallType DEF Module
<1>3. m \in Seq(Words)
  BY <1>1, <1>2, ConcatParts
<1> HIDE DEF enter, leave, m
<1>4. enter \o c \in Seq(Marks)
  BY <1>1, ConcatProperties
<1>5. enter \o c \in Seq(Words)
  BY <1>1, <1>2, <1>3, <1>4, ConcatParts
<1> QED
  BY <1>1, <1>5, ConcatParts

LEMMA TextFacts ==
  ASSUME NEW t \in Text
  PROVE  /\ Len(t) \in Nat /\ DOMAIN t = 1 .. Len(t)
         /\ \A i \in 1 .. Len(t) : t[i] \in [op : Op, name : Dir \cup Name \cup {""}, text : Text]
<1>1. t \in Seq([op : Op, name : Dir \cup Name \cup {""}, text : Text])
  BY TextAssumption
<1> QED
  BY <1>1, LenProperties, ElementOfSeq

LEMMA FileText ==
  ASSUME NEW fs \in FileSystem, NEW w \in Seq(Dir), NEW n, FoundIn(n, w, fs) # {}
  PROVE  fs[SearchIn(n, w, fs)] \in Text
<1>1. SearchIn(n, w, fs) \in DOMAIN fs
  BY FoundFile
<1> QED
  BY <1>1, TextAssumption

\* The words of a statement that imports nothing.
LEMMA PlainWords ==
  ASSUME NEW s \in [op : Op, name : Dir \cup Name \cup {""}, text : Text]
  PROVE  /\ <<[Word("eval") EXCEPT !.text = s.text]>> \o Drop \in Seq(Words)
         /\ <<[Word("module") EXCEPT !.name = s.name]>> \o Drop \in Seq(Words)
<1>1. [Word("eval") EXCEPT !.text = s.text] \in Words /\ [Word("eval") EXCEPT !.text = s.text].op = "eval"
  BY DEF Word, Words
<1>2. [Word("module") EXCEPT !.name = s.name] \in Words
      /\ [Word("module") EXCEPT !.name = s.name].op = "module"
  BY TextAssumption DEF Word, Words
<1> QED
  BY <1>1, <1>2, ValueCode

LEMMA WordsType ==
  ASSUME NEW text \in Text, NEW i \in 1 .. Len(text), NEW body \in [Text -> Seq(Marks)],
         NEW w \in Seq(Dir), NEW fs \in FileSystem
  PROVE  WordsIn(text, i, body, w, fs) \in Seq(Marks)
<1> DEFINE s == text[i]
           c == body[fs[SearchIn(s.name, w, fs)]]
           ev == <<[Word("eval") EXCEPT !.text = s.text]>> \o Drop
           mo == <<[Word("module") EXCEPT !.name = s.name]>> \o Drop
           ca == Module(c) \o Drop
<1>1. s \in [op : Op, name : Dir \cup Name \cup {""}, text : Text]
  BY TextFacts
<1>2. ev \in Seq(Marks) /\ mo \in Seq(Marks) /\ <<Word("code")>> \in Seq(Marks)
      /\ <<>> \in Seq(Marks) /\ Drop \in Seq(Marks) /\ Unknown \in Seq(Marks)
  <2>1. ev \in Seq(Words) /\ mo \in Seq(Words)
    BY <1>1, PlainWords
  <2>2. <<Word("code")>> \in Seq(Words) /\ Drop \in Seq(Words) /\ Unknown \in Seq(Marks)
    BY MarkFacts
  <2>3. <<>> \in Seq(Marks)
    OBVIOUS
  <2> HIDE DEF ev, mo
  <2> QED
    BY <2>1, <2>2, <2>3, KnownMarks
<1>3. FoundIn(s.name, w, fs) # {} => ca \in Seq(Marks)
  <2> HAVE FoundIn(s.name, w, fs) # {}
  <2>1. c \in Seq(Marks)
    BY FileText
  <2> QED
    BY <2>1, CallType
<1>4. WordsIn(text, i, body, w, fs) \in
        {<<Word("code")>>, ev, mo, <<>>, Drop, Unknown}
        \cup (IF FoundIn(s.name, w, fs) # {} THEN {ca} ELSE {})
  <2> HIDE DEF ev, mo, ca
  <2>1. WordsIn(text, i, body, w, fs) =
         CASE s.op = "code" -> <<Word("code")>>
           [] s.op = "eval" -> ev
           [] s.op = "module" -> mo
           [] s.op = "path" -> <<>>
           [] s.op = "use" /\ FoundIn(s.name, w, fs) # {} ->
                IF RepeatedIn(text, i, w, fs) THEN Drop ELSE ca
           [] OTHER -> Unknown
    BY DEF WordsIn, ev, mo, ca
  <2> HIDE DEF s
  <2> QED
    BY <2>1
<1> QED
  BY <1>2, <1>3, <1>4

LEMMA PrefixFacts ==
  ASSUME NEW text \in Text, NEW body \in [Text -> Seq(Marks)],
         NEW w \in Seq(Dir), NEW fs \in FileSystem
  PROVE  LET f == CodePrefixes(text, body, w, fs)
             r == Rows(text, body, w, fs)
         IN  /\ Joins(r, Len(text), f)
             /\ \A i \in 1 .. Len(text) : r[i] = WordsIn(text, i, body, w, fs) /\ r[i] \in Seq(Marks)
             /\ \A i \in 0 .. Len(text) : f[i] \in Seq(Marks)
             /\ FlattenSeq(r) = f[Len(text)]
             /\ f[0] = <<>>
             /\ \A i \in 1 .. Len(text) : f[i] = f[i - 1] \o WordsIn(text, i, body, w, fs)
<1> DEFINE f == CodePrefixes(text, body, w, fs)
           r == Rows(text, body, w, fs)
           n == Len(text)
<1>1. n \in Nat /\ DOMAIN text = 1 .. n
  BY TextFacts
<1>2. \A i \in 1 .. n : r[i] = WordsIn(text, i, body, w, fs)
  BY <1>1 DEF Rows
<1>3. r = [i \in 1 .. n |-> r[i]]
  BY <1>1 DEF Rows
<1>4. \A i \in 1 .. n : r[i] \in Seq(Marks)
  BY <1>2, WordsType
<1>5. f = CHOOSE g : Joins(r, n, g)
  BY DEF CodePrefixes
<1> HIDE DEF f, r, n
<1>6. Joins(r, n, f)
  BY <1>1, <1>5, JoinsExists
<1>7. \A i \in 0 .. n : f[i] \in Seq(Marks)
  BY <1>1, <1>4, <1>6, JoinsType
<1>8. FlattenSeq(r) = f[n]
  BY <1>1, <1>3, <1>4, <1>6, FlattenJoins
<1>9. f[0] = <<>> /\ \A i \in 1 .. n : f[i] = f[i - 1] \o r[i]
  BY <1>6 DEF Joins
<1> QED
  BY <1>2, <1>4, <1>6, <1>7, <1>8, <1>9 DEF f, r, n

LEMMA BodyType ==
  ASSUME NEW w \in Seq(Dir), NEW fs \in FileSystem, NEW n \in 0 .. MaxDepth
  PROVE  /\ Body(n, w, fs) \in [Text -> Seq(Marks)]
         /\ \A t \in Text : /\ Codes(w, fs)[n][t] = CodePrefixes(t, Body(n, w, fs), w, fs)[Len(t)]
                            /\ Codes(w, fs)[n][t] \in Seq(Marks)
<1> DEFINE bad == {m \in 0 .. MaxDepth : Body(m, w, fs) \notin [Text -> Seq(Marks)]}
<1>1. ASSUME NEW m \in 0 .. MaxDepth, Body(m, w, fs) \in [Text -> Seq(Marks)], NEW t \in Text
      PROVE  /\ Codes(w, fs)[m][t] = CodePrefixes(t, Body(m, w, fs), w, fs)[Len(t)]
             /\ Codes(w, fs)[m][t] \in Seq(Marks)
  <2>0. Len(t) \in Nat
    BY TextFacts
  <2>1. Len(t) \in 0 .. Len(t)
    BY <2>0
  <2> DEFINE b == Body(m, w, fs)
  <2> HIDE DEF b
  <2>2. b \in [Text -> Seq(Marks)]
    BY <1>1 DEF b
  <2>3. /\ FlattenSeq(Rows(t, b, w, fs)) = CodePrefixes(t, b, w, fs)[Len(t)]
        /\ CodePrefixes(t, b, w, fs)[Len(t)] \in Seq(Marks)
    BY <2>1, <2>2, PrefixFacts
  <2> QED
    BY <2>3, CodesOf DEF b
<1>2. bad = {}
  <2>1. SUFFICES ASSUME bad # {} PROVE FALSE
    OBVIOUS
  <2>2. PICK m \in bad : \A k \in bad : m <= k
    <3>1. bad \subseteq Nat
      OBVIOUS
    <3> HIDE DEF bad
    <3> QED
      BY <2>1, <3>1, Least
  <2>3. m # 0
    <3>1. Unknowns \in [Text -> Seq(Marks)]
      BY MarkFacts DEF Unknowns
    <3> QED
      BY <2>2, <3>1 DEF Body
  <2>4. m \in 0 .. MaxDepth
    BY <2>2
  <2>5. m - 1 \in 0 .. MaxDepth /\ m - 1 \notin bad
    <3> HIDE DEF bad
    <3> QED
      BY <2>2, <2>3, <2>4, BoundAssumption
  <2>6. Body(m, w, fs) = Codes(w, fs)[m - 1]
    BY <2>3 DEF Body
  <2>7. \A t \in Text : Codes(w, fs)[m - 1][t] \in Seq(Marks)
    BY <1>1, <2>5
  <2>8. Codes(w, fs)[m - 1] = [t \in Text |-> Codes(w, fs)[m - 1][t]]
    <3> DEFINE R(k) == [t \in Text |-> FlattenSeq(Rows(t, Body(k, w, fs), w, fs))]
    <3>1. Codes(w, fs) = [k \in 0 .. MaxDepth |-> R(k)]
      BY CodesDefined DEF Body
    <3>2. Codes(w, fs)[m - 1] = R(m - 1)
      <4> HIDE DEF R
      <4> QED
        BY <2>5, <3>1
    <3> QED
      BY <3>2
  <2>9. Body(m, w, fs) \in [Text -> Seq(Marks)]
    BY <2>6, <2>7, <2>8
  <2> QED
    BY <2>2, <2>9
<1> QED
  BY <1>1, <1>2

\* A search path that is the same, or has one more directory at its end.
Longer(w, v) == v = w \/ \E d \in Dir : v = Append(w, d)

\* What body knows another knows as well.
Knows(body, other) == \A t \in Text : body[t] \in Seq(Words) => other[t] = body[t]

Kept(text, k, b, o, w, v, fs) ==
  CodePrefixes(text, b, w, fs)[k] \in Seq(Words) =>
    CodePrefixes(text, o, v, fs)[k] = CodePrefixes(text, b, w, fs)[k]

\* A code that is known stays what it is, when other codes become known and
\* directories are added to the search path.
LEMMA PrefixKept ==
  ASSUME NEW text \in Text, NEW k \in 0 .. Len(text),
         NEW b \in [Text -> Seq(Marks)], NEW o \in [Text -> Seq(Marks)], Knows(b, o),
         NEW w \in Seq(Dir), NEW v \in Seq(Dir), Longer(w, v), NEW fs \in FileSystem
  PROVE  Kept(text, k, b, o, w, v, fs)
<1> SUFFICES ASSUME CodePrefixes(text, b, w, fs)[k] \in Seq(Words)
             PROVE  CodePrefixes(text, o, v, fs)[k] = CodePrefixes(text, b, w, fs)[k]
  BY DEF Kept
<1> DEFINE n == Len(text)
           r == Rows(text, b, w, fs)
           q == Rows(text, o, v, fs)
           f == CodePrefixes(text, b, w, fs)
           g == CodePrefixes(text, o, v, fs)
<1>0. n \in Nat
  BY TextFacts
<1>1. /\ Joins(r, n, f)
      /\ \A i \in 1 .. n : r[i] = WordsIn(text, i, b, w, fs) /\ r[i] \in Seq(Marks)
  BY PrefixFacts
<1>2. /\ Joins(q, n, g)
      /\ \A i \in 1 .. n : q[i] = WordsIn(text, i, o, v, fs)
  BY PrefixFacts
<1>3. f[k] \in Seq(Words)
  OBVIOUS
<1>k. k \in 0 .. n /\ k \in Nat /\ k <= n
  BY <1>0
<1> HIDE DEF r, q, f, g, n
<1>4. \A i \in 1 .. k : r[i] \in Seq(Words)
  BY <1>0, <1>1, <1>3, <1>k, JoinsParts
<1>5. \A i \in 1 .. k : i \in 1 .. n
  BY <1>0, <1>k
<1>6. \A i \in 1 .. k : text[i].op = "use" => FoundIn(text[i].name, w, fs) # {}
  <2> SUFFICES ASSUME NEW i \in 1 .. k, text[i].op = "use", FoundIn(text[i].name, w, fs) = {}
               PROVE  FALSE
    OBVIOUS
  <2>1. WordsIn(text, i, b, w, fs) = Unknown
    BY DEF WordsIn
  <2> QED
    BY <1>1, <1>4, <1>5, <2>1, MarkFacts
<1>7. \A i \in 1 .. k : text[i].op = "use" =>
        /\ FoundIn(text[i].name, v, fs) # {}
        /\ SearchIn(text[i].name, v, fs) = SearchIn(text[i].name, w, fs)
  <2> SUFFICES ASSUME NEW i \in 1 .. k, text[i].op = "use"
               PROVE  /\ FoundIn(text[i].name, v, fs) # {}
                      /\ SearchIn(text[i].name, v, fs) = SearchIn(text[i].name, w, fs)
    OBVIOUS
  <2>1. FoundIn(text[i].name, w, fs) # {}
    BY <1>6
  <2>2. CASE v = w
    BY <2>1, <2>2
  <2>3. CASE \E d \in Dir : v = Append(w, d)
    <3>1. PICK d \in Dir : v = Append(w, d)
      BY <2>3
    <3>2. w \in Seq(Dir)
      OBVIOUS
    <3> QED
      BY ONLY <2>1, <3>1, <3>2, ExtendedKeeps
  <2> QED
    BY <2>2, <2>3 DEF Longer
<1>8. \A i \in 1 .. k : q[i] = r[i]
  <2> TAKE i \in 1 .. k
  <2>1. r[i] = WordsIn(text, i, b, w, fs) /\ q[i] = WordsIn(text, i, o, v, fs)
    BY <1>1, <1>2, <1>5
  <2>2. CASE text[i].op # "use"
    <3>1. WordsIn(text, i, b, w, fs) = WordsIn(text, i, o, v, fs)
      BY <2>2 DEF WordsIn
    <3> QED
      BY <2>1, <3>1
  <2>3. CASE text[i].op = "use"
    <3> DEFINE p == SearchIn(text[i].name, w, fs)
    <3>1. /\ FoundIn(text[i].name, w, fs) # {} /\ FoundIn(text[i].name, v, fs) # {}
          /\ SearchIn(text[i].name, v, fs) = p
      BY <1>6, <1>7, <2>3
    <3>2. RepeatedIn(text, i, v, fs) <=> RepeatedIn(text, i, w, fs)
      <4>1. \A j \in 1 .. i - 1 : j \in 1 .. k
        BY <1>k
      <4> QED
        BY <1>7, <2>3, <4>1 DEF RepeatedIn
    <3>3. r[i] = IF RepeatedIn(text, i, w, fs) THEN Drop ELSE Module(b[fs[p]]) \o Drop
      BY <2>1, <2>3, <3>1 DEF WordsIn
    <3>4. q[i] = IF RepeatedIn(text, i, v, fs) THEN Drop ELSE Module(o[fs[p]]) \o Drop
      BY <2>1, <2>3, <3>1 DEF WordsIn
    <3>5. CASE RepeatedIn(text, i, w, fs)
      BY <3>2, <3>3, <3>4, <3>5
    <3>6. CASE ~RepeatedIn(text, i, w, fs)
      <4>1. fs[p] \in Text
        BY <3>1, FileText
      <4>2. b[fs[p]] \in Seq(Marks)
        BY <4>1
      <4>3. Module(b[fs[p]]) \o Drop \in Seq(Words)
        BY <1>4, <3>3, <3>6
      <4>4. o[fs[p]] = b[fs[p]]
        BY <4>1, <4>2, <4>3, CallKnown DEF Knows
      <4> QED
        BY <3>2, <3>3, <3>4, <3>6, <4>4
    <3> QED
      BY <3>5, <3>6
  <2> QED
    BY <2>2, <2>3
<1>9. Alike(r, q, k)
  BY <1>8 DEF Alike
<1>10. f[k] = g[k]
  BY <1>0, <1>1, <1>2, <1>9, <1>k, JoinsAgree
<1> QED
  BY <1>10 DEF f, g
-----------------------------------------------------------------------------
(* Codes along a longer search path, and one import deeper.                *)

LEMMA CodesStep ==
  ASSUME NEW w \in Seq(Dir), NEW v \in Seq(Dir), Longer(w, v), NEW fs \in FileSystem,
         NEW n \in 0 .. MaxDepth, NEW m \in 0 .. MaxDepth, Knows(Body(n, w, fs), Body(m, v, fs))
  PROVE  Knows(Codes(w, fs)[n], Codes(v, fs)[m])
<1> SUFFICES ASSUME NEW t \in Text, Codes(w, fs)[n][t] \in Seq(Words)
             PROVE  Codes(v, fs)[m][t] = Codes(w, fs)[n][t]
  BY DEF Knows
<1> DEFINE b == Body(n, w, fs)
           o == Body(m, v, fs)
<1>1. /\ b \in [Text -> Seq(Marks)] /\ o \in [Text -> Seq(Marks)]
      /\ Codes(w, fs)[n][t] = CodePrefixes(t, b, w, fs)[Len(t)]
      /\ Codes(v, fs)[m][t] = CodePrefixes(t, o, v, fs)[Len(t)]
  BY BodyType
<1>2. Knows(b, o)
  OBVIOUS
<1> HIDE DEF b, o
<1>3. Len(t) \in Nat
  BY TextFacts
<1>4. Len(t) \in 0 .. Len(t)
  BY <1>3
<1>5. CodePrefixes(t, b, w, fs)[Len(t)] \in Seq(Words)
  BY <1>1
<1>6. CodePrefixes(t, o, v, fs)[Len(t)] = CodePrefixes(t, b, w, fs)[Len(t)]
  <2>1. b \in [Text -> Seq(Marks)] /\ o \in [Text -> Seq(Marks)]
    BY <1>1
  <2>2. w \in Seq(Dir) /\ v \in Seq(Dir) /\ Longer(w, v) /\ fs \in FileSystem /\ t \in Text
    OBVIOUS
  <2>3. Kept(t, Len(t), b, o, w, v, fs)
    BY ONLY <1>2, <1>4, <2>1, <2>2, PrefixKept
  <2> QED
    BY <1>5, <2>3 DEF Kept
<1> QED
  BY <1>1, <1>6

\* What is known with some depth of imports is known with every greater one.
LEMMA CodesKept ==
  ASSUME NEW w \in Seq(Dir), NEW v \in Seq(Dir), Longer(w, v), NEW fs \in FileSystem,
         NEW n \in 0 .. MaxDepth, NEW m \in n .. MaxDepth
  PROVE  /\ Knows(Body(n, w, fs), Body(m, v, fs))
         /\ Knows(Codes(w, fs)[n], Codes(v, fs)[m])
<1> DEFINE K(i, j) == Knows(Body(i, w, fs), Body(j, v, fs))
           bad == {i \in 0 .. MaxDepth : ~ \A j \in i .. MaxDepth : K(i, j)}
<1>0. MaxDepth \in Nat
  BY BoundAssumption
<1>1. bad = {}
  <2>1. SUFFICES ASSUME bad # {} PROVE FALSE
    OBVIOUS
  <2>2. PICK i \in bad : \A j \in bad : i <= j
    <3>1. bad \subseteq Nat
      OBVIOUS
    <3> HIDE DEF bad
    <3> QED
      BY <2>1, <3>1, Least
  <2>3. i \in 0 .. MaxDepth /\ \E j \in i .. MaxDepth : ~K(i, j)
    BY <2>2
  <2>4. PICK j \in i .. MaxDepth : ~K(i, j)
    BY <2>3
  <2>5. i # 0
    <3>1. \A t \in Text : Unknowns[t] \notin Seq(Words)
      BY MarkFacts DEF Unknowns
    <3>2. Knows(Unknowns, Body(j, v, fs))
      BY <3>1 DEF Knows
    <3>3. Body(0, w, fs) = Unknowns
      BY DEF Body
    <3> QED
      BY <2>4, <3>2, <3>3
  <2>6. i - 1 \in 0 .. MaxDepth /\ j - 1 \in i - 1 .. MaxDepth /\ j - 1 \in 0 .. MaxDepth
        /\ j # 0 /\ i - 1 < i
    BY <1>0, <2>3, <2>5
  <2>7. K(i - 1, j - 1)
    <3>1. i - 1 \notin bad
      <4> HIDE DEF bad
      <4> QED
        BY <2>2, <2>6, <2>3
    <3> HIDE DEF K
    <3>2. \A l \in i - 1 .. MaxDepth : K(i - 1, l)
      BY <2>6, <3>1
    <3> QED
      BY <2>6, <3>2
  <2>8. Body(i, w, fs) = Codes(w, fs)[i - 1] /\ Body(j, v, fs) = Codes(v, fs)[j - 1]
    BY <2>5, <2>6 DEF Body
  <2>9. Knows(Codes(w, fs)[i - 1], Codes(v, fs)[j - 1])
    BY <2>6, <2>7, CodesStep
  <2> QED
    BY <2>4, <2>8, <2>9
<1>2. K(n, m)
  <2>1. n \notin bad
    BY <1>1
  <2> HIDE DEF K
  <2> QED
    BY <2>1
<1>3. m \in 0 .. MaxDepth
  BY <1>0
<1> QED
  BY <1>2, <1>3, CodesStep
-----------------------------------------------------------------------------
(* The invariant of the codes.                                             *)

\* How deep the imports of the text of activity k may nest.
Fuel(k) == IF k < MaxDepth THEN MaxDepth - k ELSE 0

\* A compiler has emitted the code of the statements behind it, and has imported
\* files of statements up to r only; a run has the code of its text.
Means(a, k, r, w, fs) ==
  /\ a.kind = "compile" =>
       /\ a.code = CodePrefixes(a.text, Body(Fuel(k), w, fs), w, fs)[a.next - 1]
       /\ \A j \in DOMAIN a.imports :
            \E i \in 1 .. r : /\ a.text[i].op = "use"
                              /\ FoundIn(a.text[i].name, w, fs) # {}
                              /\ a.imports[j] = SearchIn(a.text[i].name, w, fs)
  /\ a.kind = "run" => a.code = Codes(w, fs)[MaxDepth][a.text]

\* Activity k + 1 compiles the file that activity k imports.
Linked(a, b, k, w, fs) ==
  a.kind = "compile" =>
    /\ k < MaxDepth
    /\ b.text = fs[SearchIn(a.text[a.next].name, w, fs)]

\* The innermost compiler has not noted the import of its next statement.
Reached(s, k, busy) == IF k = Len(s) /\ busy THEN s[k].next - 1 ELSE s[k].next

MeaningOK(s, busy, w, fs) ==
  /\ \A k \in 1 .. Len(s) : Means(s[k], k, Reached(s, k, busy), w, fs)
  /\ \A k \in 1 .. Len(s) - 1 : Linked(s[k], s[k + 1], k, w, fs)

MeaningInv == StateOK /\ MeaningOK(active, phase = "busy", search, files)

LEMMA MeansMore ==
  ASSUME NEW a \in Activity, NEW k, NEW w, NEW fs, Means(a, k, a.next - 1, w, fs)
  PROVE  Means(a, k, a.next, w, fs)
<1>1. a.next \in Nat
  BY ActivityFacts
<1>2. \A i \in 1 .. a.next - 1 : i \in 1 .. a.next
  BY <1>1
<1> QED
  BY <1>2 DEF Means

LEMMA MeaningLess ==
  ASSUME NEW s \in Seq(Activity), NEW w, NEW fs, NEW busy, MeaningOK(s, busy, w, fs)
  PROVE  MeaningOK(s, FALSE, w, fs)
<1>1. \A k \in 1 .. Len(s) : s[k] \in Activity
  BY ElementOfSeq
<1>2. ASSUME NEW k \in 1 .. Len(s) PROVE Means(s[k], k, Reached(s, k, FALSE), w, fs)
  <2>1. Reached(s, k, FALSE) = s[k].next
    BY DEF Reached
  <2>2. Reached(s, k, busy) = s[k].next \/ Reached(s, k, busy) = s[k].next - 1
    BY DEF Reached
  <2>3. Means(s[k], k, Reached(s, k, busy), w, fs)
    BY DEF MeaningOK
  <2> QED
    BY <1>1, <2>1, <2>2, <2>3, MeansMore
<1> QED
  BY <1>2 DEF MeaningOK

\* The activities below the innermost one.
LEMMA FrontMeans ==
  ASSUME NEW w, NEW fs, NEW s, StackOK(s, w, fs), s # <<>>, NEW busy, MeaningOK(s, busy, w, fs)
  PROVE  /\ MeaningOK(Front(s), FALSE, w, fs)
         /\ Means(s[Len(s)], Len(s), IF busy THEN s[Len(s)].next - 1 ELSE s[Len(s)].next, w, fs)
         /\ Len(s) > 1 => /\ Linked(s[Len(s) - 1], s[Len(s)], Len(s) - 1, w, fs)
                          /\ Means(s[Len(s) - 1], Len(s) - 1, s[Len(s) - 1].next, w, fs)
<1> DEFINE t == Front(s)
           n == Len(s)
<1>0. s \in Seq(Activity) /\ n \in Nat \ {0}
  BY EmptySeq DEF StackOK
<1>1. \A i \in 1 .. n : s[i] \in Activity
  BY <1>0, ElementOfSeq
<1>a. t \in Seq(Activity) /\ Len(t) = n - 1 /\ \A k \in 1 .. n - 1 : t[k] = s[k]
  <2>1. 1 \in Int /\ n - 1 \in Int /\ \A i \in 1 .. n - 1 : s[i] \in Activity
    BY <1>0, <1>1
  <2>2. t = SubSeq(s, 1, n - 1)
    BY DEF Front
  <2> HIDE DEF t, n
  <2>3. /\ t \in Seq(Activity)
        /\ Len(t) = IF 1 <= n - 1 THEN (n - 1) - 1 + 1 ELSE 0
        /\ \A i \in 1 .. (n - 1) - 1 + 1 : t[i] = s[1 + i - 1]
    BY ONLY <2>1, <2>2, SubSeqProperties
  <2> QED
    BY <1>0, <2>3
<1>2. n \in 1 .. n /\ \A k \in 1 .. n - 1 : k \in 1 .. n /\ k # n
  BY <1>0
<1>3. \A k \in 1 .. n : Means(s[k], k, Reached(s, k, busy), w, fs)
  BY DEF MeaningOK
<1>4. Means(s[n], n, IF busy THEN s[n].next - 1 ELSE s[n].next, w, fs)
  BY <1>2, <1>3 DEF Reached
<1>5. \A k \in 1 .. n - 1 : Means(s[k], k, s[k].next, w, fs)
  BY <1>2, <1>3 DEF Reached
<1>6. \A k \in 1 .. n - 1 : Linked(s[k], s[k + 1], k, w, fs)
  BY DEF MeaningOK
<1> HIDE DEF t, n
<1>7. MeaningOK(t, FALSE, w, fs)
  <2>1. \A k \in 1 .. Len(t) : k \in 1 .. n - 1 /\ t[k] = s[k]
    BY <1>a
  <2>2. \A k \in 1 .. Len(t) - 1 : k \in 1 .. n - 1 /\ t[k] = s[k] /\ t[k + 1] = s[k + 1]
    BY <1>0, <1>a
  <2>3. \A k \in 1 .. Len(t) : Reached(t, k, FALSE) = s[k].next
    BY <2>1 DEF Reached
  <2> QED
    BY <1>5, <1>6, <2>1, <2>2, <2>3 DEF MeaningOK
<1>8. n > 1 => n - 1 \in 1 .. n - 1 /\ (n - 1) + 1 = n
  BY <1>0
<1> QED
  BY <1>4, <1>5, <1>6, <1>7, <1>8 DEF t, n

LEMMA PushMeans ==
  ASSUME NEW w, NEW fs, NEW s \in Seq(Activity), NEW busy, MeaningOK(s, FALSE, w, fs),
         NEW b \in Activity,
         Means(b, Len(s) + 1, IF busy THEN b.next - 1 ELSE b.next, w, fs),
         s # <<>> => Linked(s[Len(s)], b, Len(s), w, fs)
  PROVE  MeaningOK(Append(s, b), busy, w, fs)
<1> DEFINE t == Append(s, b)
           n == Len(s)
<1>1. /\ n \in Nat /\ t \in Seq(Activity) /\ Len(t) = n + 1
      /\ \A k \in 1 .. n : t[k] = s[k]
      /\ t[n + 1] = b
  BY AppendProperties, LenProperties
<1>2. s = <<>> <=> n = 0
  BY EmptySeq
<1>3. /\ \A k \in 1 .. n : Means(s[k], k, s[k].next, w, fs)
      /\ \A k \in 1 .. n - 1 : Linked(s[k], s[k + 1], k, w, fs)
  BY DEF MeaningOK, Reached
<1>4. /\ Means(b, n + 1, IF busy THEN b.next - 1 ELSE b.next, w, fs)
      /\ n # 0 => Linked(s[n], b, n, w, fs)
  BY <1>2
<1> HIDE DEF t, n
<1>5. ASSUME NEW k \in 1 .. n + 1 PROVE Means(t[k], k, Reached(t, k, busy), w, fs)
  <2>1. CASE k = n + 1
    <3>1. Reached(t, k, busy) = IF busy THEN b.next - 1 ELSE b.next
      BY <1>1, <2>1 DEF Reached
    <3> QED
      BY <1>1, <1>4, <2>1, <3>1
  <2>2. CASE k # n + 1
    <3>1. k \in 1 .. n /\ Reached(t, k, busy) = s[k].next
      BY <1>1, <2>2 DEF Reached
    <3> QED
      BY <1>1, <1>3, <3>1
  <2> QED
    BY <2>1, <2>2
<1>6. ASSUME NEW k \in 1 .. (n + 1) - 1 PROVE Linked(t[k], t[k + 1], k, w, fs)
  <2>1. CASE k = n
    <3>1. n # 0 /\ t[k] = s[n] /\ t[k + 1] = b
      BY <1>1, <2>1
    <3> QED
      BY <3>1, <1>4, <2>1
  <2>2. CASE k # n
    <3>1. k \in 1 .. n - 1 /\ t[k] = s[k] /\ t[k + 1] = s[k + 1]
      BY <1>1, <2>2
    <3> QED
      BY <3>1, <1>3
  <2> QED
    BY <2>1, <2>2
<1>7. MeaningOK(t, busy, w, fs)
  BY <1>1, <1>5, <1>6 DEF MeaningOK
<1> QED
  BY <1>7 DEF t

\* The innermost activity is replaced, and keeps its text.
LEMMA BecomeMeans ==
  ASSUME NEW w, NEW fs, NEW s, StackOK(s, w, fs), s # <<>>, NEW busy, MeaningOK(s, busy, w, fs),
         NEW b \in Activity, b.text = s[Len(s)].text,
         NEW ready, Means(b, Len(s), IF ready THEN b.next - 1 ELSE b.next, w, fs)
  PROVE  MeaningOK(Append(Front(s), b), ready, w, fs)
<1> DEFINE t == Front(s)
<1>1. /\ StackOK(t, w, fs) /\ Len(t) = Len(s) - 1 /\ Len(s) \in Nat \ {0}
      /\ t # <<>> => Len(s) > 1 /\ t[Len(t)] = s[Len(s) - 1]
  BY FrontOK
<1>2. /\ MeaningOK(t, FALSE, w, fs)
      /\ Len(s) > 1 => Linked(s[Len(s) - 1], s[Len(s)], Len(s) - 1, w, fs)
  BY FrontMeans
<1>3. t \in Seq(Activity) /\ Len(t) + 1 = Len(s)
  BY <1>1 DEF StackOK
<1> HIDE DEF t
<1>4. t # <<>> => Linked(t[Len(t)], b, Len(t), w, fs)
  BY <1>1, <1>2 DEF Linked
<1>5. Means(b, Len(t) + 1, IF ready THEN b.next - 1 ELSE b.next, w, fs)
  BY <1>3
<1>6. MeaningOK(Append(t, b), ready, w, fs)
  BY <1>2, <1>3, <1>4, <1>5, PushMeans
<1> QED
  BY <1>6 DEF t
-----------------------------------------------------------------------------
(* How the codes of the activities change.                                 *)

LEMMA FuelFacts ==
  ASSUME NEW k \in Nat
  PROVE  /\ Fuel(k) \in 0 .. MaxDepth
         /\ k < MaxDepth => Fuel(k) # 0 /\ Fuel(k) - 1 = Fuel(k + 1)
BY BoundAssumption DEF Fuel

\* A directory that is added at the end changes no code that is known.
LEMMA GrownMeans ==
  ASSUME NEW fs \in FileSystem, NEW w \in Seq(Dir), NEW d \in Dir, NEW a \in Activity,
         ActivityOK(a, w, fs), NEW k \in Nat, NEW r, Means(a, k, r, w, fs)
  PROVE  Means(a, k, r, Append(w, d), fs)
<1> DEFINE v == Append(w, d)
<1>1. v \in Seq(Dir) /\ Longer(w, v)
  BY AppendProperties DEF Longer
<1>2. /\ a.kind \in {"compile", "run"} /\ a.text \in Text /\ a.next \in Nat /\ a.code \in Seq(Words)
      /\ Len(a.text) \in Nat
  BY ActivityFacts
<1>3. \A n : FoundIn(n, w, fs) # {} =>
               FoundIn(n, v, fs) # {} /\ SearchIn(n, v, fs) = SearchIn(n, w, fs)
  BY ExtendedKeeps
<1> HIDE DEF v
<1>4. CASE a.kind = "compile"
  <2>1. a.next - 1 \in 0 .. Len(a.text)
    BY <1>2, <1>4 DEF ActivityOK, CompilerOK
  <2> DEFINE b == Body(Fuel(k), w, fs)
             o == Body(Fuel(k), v, fs)
  <2>2. Fuel(k) \in 0 .. MaxDepth /\ Fuel(k) \in Fuel(k) .. MaxDepth
    <3>1. Fuel(k) \in 0 .. MaxDepth
      BY FuelFacts
    <3> QED
      BY <3>1, BoundAssumption
  <2>3. b \in [Text -> Seq(Marks)] /\ o \in [Text -> Seq(Marks)]
    BY <1>1, <2>2, BodyType
  <2>4. Knows(b, o)
    BY <1>1, <2>2, CodesKept
  <2>5. a.code = CodePrefixes(a.text, b, w, fs)[a.next - 1]
    BY <1>4 DEF Means
  <2> HIDE DEF b, o
  <2>6. Kept(a.text, a.next - 1, b, o, w, v, fs)
    BY <1>1, <1>2, <2>1, <2>3, <2>4, PrefixKept
  <2>7. a.code = CodePrefixes(a.text, o, v, fs)[a.next - 1]
    BY <1>2, <2>5, <2>6 DEF Kept
  <2>8. ASSUME NEW j \in DOMAIN a.imports
        PROVE  \E i \in 1 .. r : /\ a.text[i].op = "use"
                                 /\ FoundIn(a.text[i].name, v, fs) # {}
                                 /\ a.imports[j] = SearchIn(a.text[i].name, v, fs)
    <3>1. PICK i \in 1 .. r : /\ a.text[i].op = "use"
                              /\ FoundIn(a.text[i].name, w, fs) # {}
                              /\ a.imports[j] = SearchIn(a.text[i].name, w, fs)
      BY <1>4 DEF Means
    <3> QED
      BY <1>3, <3>1
  <2>9. Means(a, k, r, v, fs)
    BY <1>4, <2>7, <2>8 DEF Means, o
  <2> QED
    BY <2>9 DEF v
<1>5. CASE a.kind = "run"
  <2>1. MaxDepth \in 0 .. MaxDepth /\ MaxDepth \in MaxDepth .. MaxDepth
    BY BoundAssumption
  <2>2. Knows(Codes(w, fs)[MaxDepth], Codes(v, fs)[MaxDepth])
    BY <1>1, <2>1, CodesKept
  <2>3. a.code = Codes(v, fs)[MaxDepth][a.text]
    BY <1>2, <1>5, <2>2 DEF Means, Knows
  <2>4. Means(a, k, r, v, fs)
    BY <1>5, <2>3 DEF Means
  <2> QED
    BY <2>4 DEF v
<1> QED
  BY <1>2, <1>4, <1>5

LEMMA GrownMeaning ==
  ASSUME NEW fs \in FileSystem, NEW w \in Seq(Dir), NEW d \in Dir, NEW s, StackOK(s, w, fs),
         NEW busy, MeaningOK(s, busy, w, fs)
  PROVE  MeaningOK(s, busy, Append(w, d), fs)
<1>1. s \in Seq(Activity) /\ Len(s) \in Nat
  BY LenProperties DEF StackOK
<1>2. ASSUME NEW k \in 1 .. Len(s)
      PROVE  Means(s[k], k, Reached(s, k, busy), Append(w, d), fs)
  <2>1. s[k] \in Activity /\ ActivityOK(s[k], w, fs) /\ k \in Nat
        /\ Means(s[k], k, Reached(s, k, busy), w, fs)
    BY <1>1, ElementOfSeq DEF StackOK, MeaningOK
  <2> QED
    BY <2>1, GrownMeans
<1>3. ASSUME NEW k \in 1 .. Len(s) - 1
      PROVE  Linked(s[k], s[k + 1], k, Append(w, d), fs)
  <2>1. Linked(s[k], s[k + 1], k, w, fs) /\ Waits(s[k], w, fs)
    BY DEF StackOK, MeaningOK
  <2>2. s[k].kind = "compile" => FoundIn(s[k].text[s[k].next].name, w, fs) # {}
    BY <2>1 DEF Waits, Uses
  <2>3. s[k].kind = "compile" =>
          SearchIn(s[k].text[s[k].next].name, Append(w, d), fs)
            = SearchIn(s[k].text[s[k].next].name, w, fs)
    BY <2>2, ExtendedKeeps
  <2> QED
    BY <2>1, <2>3 DEF Linked
<1> QED
  BY <1>2, <1>3 DEF MeaningOK

LEMMA NewMeans ==
  ASSUME NEW t \in Text, NEW k \in Nat, NEW w \in Seq(Dir), NEW fs \in FileSystem
  PROVE  Means(Compiling(t), k, 0, w, fs) /\ Compiling(t).next = 1 /\ Compiling(t).text = t
<1> DEFINE a == Compiling(t)
           b == Body(Fuel(k), w, fs)
<1>0. a = Act("compile", t, 1, <<>>, <<>>, 0, <<>>)
  BY DEF Compiling, Act
<1> HIDE DEF a
<1>1. /\ a.kind = "compile" /\ a.text = t /\ a.next = 1 /\ a.imports = <<>> /\ a.code = <<>>
  BY <1>0, ActFields
<1>2. b \in [Text -> Seq(Marks)]
  BY FuelFacts, BodyType
<1> HIDE DEF b
<1>3. CodePrefixes(t, b, w, fs)[0] = <<>>
  BY <1>2, PrefixFacts
<1>4. Means(a, k, 0, w, fs)
  BY <1>1, <1>3 DEF Means, b
<1> QED
  BY <1>1, <1>4 DEF a

\* The code of one statement more.
LEMMA EmitsMeans ==
  ASSUME NEW a \in Activity, a.kind = "compile", a.next \in 1 .. Len(a.text),
         NEW k \in Nat, NEW w \in Seq(Dir), NEW fs \in FileSystem,
         Means(a, k, a.next, w, fs),
         NEW e, e = WordsIn(a.text, a.next, Body(Fuel(k), w, fs), w, fs)
  PROVE  /\ Means(Emits(a, e), k, Emits(a, e).next - 1, w, fs)
         /\ Emits(a, e).text = a.text
<1> DEFINE b == Emits(a, e)
           n == a.next + 1
           c == a.code \o e
           body == Body(Fuel(k), w, fs)
<1>1. a.text \in Text /\ a.next \in Nat /\ Len(a.text) \in Nat
  BY ActivityFacts
<1>2. b = Act(a.kind, a.text, n, a.imports, c, a.height, a.calls)
  BY DEF Emits
<1> HIDE DEF b, n, c
<1>3. /\ b.kind = a.kind /\ b.text = a.text /\ b.next = n
      /\ b.imports = a.imports /\ b.code = c
  BY ONLY <1>2, ActFields
<1>4. n - 1 = a.next
  BY <1>1 DEF n
<1>5. body \in [Text -> Seq(Marks)]
  BY FuelFacts, BodyType
<1>6. a.code = CodePrefixes(a.text, body, w, fs)[a.next - 1]
      /\ e = WordsIn(a.text, a.next, body, w, fs)
  BY DEF Means
<1> HIDE DEF body
<1>7. CodePrefixes(a.text, body, w, fs)[a.next]
        = CodePrefixes(a.text, body, w, fs)[a.next - 1] \o WordsIn(a.text, a.next, body, w, fs)
  BY <1>1, <1>5, PrefixFacts
<1>8. b.code = CodePrefixes(b.text, body, w, fs)[b.next - 1]
  BY <1>3, <1>4, <1>6, <1>7 DEF c
<1>9. Means(b, k, b.next - 1, w, fs)
  <2>1. b.code = CodePrefixes(b.text, Body(Fuel(k), w, fs), w, fs)[b.next - 1]
    BY <1>8 DEF body
  <2>2. b.kind # "run" /\ b.next - 1 = a.next
    BY <1>3, <1>4
  <2>3. \A j \in DOMAIN b.imports :
          \E i \in 1 .. a.next : /\ b.text[i].op = "use"
                                 /\ FoundIn(b.text[i].name, w, fs) # {}
                                 /\ b.imports[j] = SearchIn(b.text[i].name, w, fs)
    BY <1>3 DEF Means
  <2> QED
    BY <2>1, <2>2, <2>3 DEF Means
<1> QED
  BY <1>3, <1>9 DEF b

\* An activity that runs, or returns to its run, keeps its code.
LEMMA MovedMeans ==
  ASSUME NEW a \in Activity, a.kind = "run", NEW k, NEW r, NEW w, NEW fs, Means(a, k, r, w, fs),
         NEW y, NEW e, NEW q
  PROVE  Means(Moved(a, y, e), k, q, w, fs) /\ Moved(a, y, e).text = a.text
<1> DEFINE b == Moved(a, y, e)
           n == a.next + 1
<1>1. b = Act(a.kind, a.text, n, a.imports, a.code, y, e)
  BY DEF Moved
<1> HIDE DEF b, n
<1>2. b.kind = a.kind /\ b.text = a.text /\ b.code = a.code
  BY ONLY <1>1, ActFields
<1>3. Means(b, k, q, w, fs)
  BY <1>2 DEF Means
<1> QED
  BY <1>2, <1>3 DEF b
-----------------------------------------------------------------------------
(* Steps of the session.                                                   *)

LEMMA InnerMeans ==
  ASSUME MeaningInv, active # <<>>
  PROVE  /\ Means(Inner, Len(active),
                  IF phase = "busy" THEN Inner.next - 1 ELSE Inner.next, search, files)
         /\ Means(Inner, Len(active), Inner.next, search, files)
         /\ search \in Seq(Dir) /\ files \in FileSystem /\ Len(active) \in Nat \ {0}
         /\ MeaningOK(Front(active), FALSE, search, files)
<1>1. StackOK(active, search, files) /\ MeaningOK(active, phase = "busy", search, files)
  BY DEF MeaningInv, StateOK
<1>2. Inner \in Activity /\ Len(active) \in Nat \ {0}
  BY InnerFacts DEF MeaningInv
<1>3. /\ Means(Inner, Len(active),
               IF phase = "busy" THEN Inner.next - 1 ELSE Inner.next, search, files)
      /\ MeaningOK(Front(active), FALSE, search, files)
  BY <1>1, FrontMeans DEF Inner
<1> QED
  BY <1>2, <1>3, MeansMore DEF MeaningInv, StateOK

\* The innermost activity goes on in the same text.
LEMMA GoesOn ==
  ASSUME MeaningInv, active # <<>>, NEW b \in Activity, b.text = Inner.text,
         Means(b, Len(active), b.next - 1, search, files),
         Become(b), UNCHANGED <<search, files, phase>>, phase = "busy"
  PROVE  MeaningOK(active', phase' = "busy", search', files')
<1>1. StackOK(active, search, files) /\ MeaningOK(active, phase = "busy", search, files)
  BY DEF MeaningInv, StateOK
<1>2. b.text = active[Len(active)].text
  BY DEF Inner
<1>3. Means(b, Len(active), IF TRUE THEN b.next - 1 ELSE b.next, search, files)
  OBVIOUS
<1>4. MeaningOK(Append(Front(active), b), TRUE, search, files)
  BY <1>1, <1>2, <1>3, BecomeMeans
<1>5. active' = Append(Front(active), b) /\ (phase' = "busy") = TRUE
  BY DEF Become
<1> QED
  BY <1>4, <1>5

\* A statement is compiled.
LEMMA CompiledMeans ==
  ASSUME MeaningInv, NEW op, CompilesNext(op),
         NEW e \in Seq(Words), e = WordsIn(Inner.text, Inner.next, Body(Fuel(Len(active)), search, files), search, files)
  PROVE  /\ Compiled(e) \in Activity /\ Compiled(e).text = Inner.text
         /\ Means(Compiled(e), Len(active), Compiled(e).next - 1, search, files)
<1>1. /\ active # <<>> /\ Inner.kind = "compile" /\ Inner.next \in 1 .. Len(Inner.text)
  BY StatementFacts DEF MeaningInv
<1>2. Inner \in Activity
  BY <1>1, InnerFacts DEF MeaningInv
<1>3. Compiled(e) = Emits(Inner, e)
  BY <1>2, EmitsAct DEF Compiled
<1>4. /\ Means(Inner, Len(active), Inner.next, search, files)
      /\ search \in Seq(Dir) /\ files \in FileSystem /\ Len(active) \in Nat
  BY <1>1, InnerMeans
<1>5. /\ Means(Emits(Inner, e), Len(active), Emits(Inner, e).next - 1, search, files)
      /\ Emits(Inner, e).text = Inner.text
  BY <1>1, <1>2, <1>4, EmitsMeans
<1>6. Emits(Inner, e) \in Activity
  <2>1. /\ Inner.kind \in {"compile", "run"} /\ Inner.text \in Text /\ Inner.next \in Nat
        /\ Inner.imports \in Seq(Path) /\ Inner.code \in Seq(Words)
        /\ Inner.height \in Nat /\ Inner.calls \in Seq(Nat)
    BY <1>2, ActivityFacts
  <2>2. Inner.code \o e \in Seq(Words) /\ Inner.next + 1 \in Nat
    BY <2>1, ConcatProperties
  <2> QED
    BY <2>1, <2>2, ActType DEF Emits
<1> QED
  BY <1>3, <1>5, <1>6

LEMMA PlainStatement ==
  ASSUME MeaningInv, NEW op \in {"code", "parts", "eval", "module"}, CompilesNext(op), KeepsCompiling,
         search' = search, NEW e \in Seq(Words), Become(Compiled(e)),
         op = "code" => e = <<Word("code")>>,
         op = "parts" => e = <<Word("parts")>>,
         op = "eval" => e = <<[Word("eval") EXCEPT !.text = Statement.text]>> \o Drop,
         op = "module" => e = <<[Word("module") EXCEPT !.name = Statement.name]>> \o Drop
  PROVE  MeaningOK(active', phase' = "busy", search', files')
<1>1. active # <<>> /\ phase = "busy" /\ Statement.op = op
  BY StatementFacts DEF MeaningInv
<1>2. e = WordsIn(Inner.text, Inner.next, Body(Fuel(Len(active)), search, files), search, files)
  BY <1>1 DEF WordsIn, Statement
<1>3. /\ Compiled(e) \in Activity /\ Compiled(e).text = Inner.text
      /\ Means(Compiled(e), Len(active), Compiled(e).next - 1, search, files)
  BY <1>2, CompiledMeans
<1>4. UNCHANGED <<search, files, phase>>
  BY DEF KeepsCompiling, world
<1> QED
  BY <1>1, <1>3, <1>4, GoesOn

LEMMA PathMeans ==
  ASSUME MeaningInv, CompilePath
  PROVE  MeaningOK(active', phase' = "busy", search', files')
<1> DEFINE c == Compiled(<<>>)
           t == Append(Front(active), c)
<1>1. /\ active # <<>> /\ phase = "busy" /\ Statement.op = "path" /\ Statement.name \in Dir
      /\ Inner.kind = "compile" /\ Inner.next <= Len(Inner.text)
  BY StatementFacts DEF CompilePath, MeaningInv
<1>2. /\ files' = files /\ phase' = phase
      /\ search' = Append(search, Statement.name) /\ active' = t
  BY DEF CompilePath, KeepsCompiling, world, Extended, Become
<1>3. <<>> \in Seq(Words)
  OBVIOUS
<1>4. <<>> = WordsIn(Inner.text, Inner.next, Body(Fuel(Len(active)), search, files), search, files)
  BY <1>1 DEF WordsIn, Statement
<1>5. /\ c \in Activity /\ c.text = Inner.text
      /\ Means(c, Len(active), c.next - 1, search, files)
  BY <1>3, <1>4, CompiledMeans DEF CompilePath
<1>6. /\ StackOK(active, search, files) /\ MeaningOK(active, phase = "busy", search, files)
      /\ search \in Seq(Dir) /\ files \in FileSystem
  BY DEF MeaningInv, StateOK
<1>7. c.kind = "compile" /\ ActivityOK(c, search, files)
  <2>1. Leaving(<<>>, LeavesIn(Inner.text, Inner.next, search, files))
    BY <1>1, WalkNone DEF LeavesIn, Statement
  <2> QED
    BY <1>1, <1>3, <2>1, CompilesOK DEF MeaningInv
<1> HIDE DEF c
<1>8. StackOK(t, search, files)
  BY <1>1, <1>5, <1>6, <1>7, BecomeOK
<1>9. MeaningOK(t, TRUE, search, files)
  <2>1. Means(c, Len(active), IF TRUE THEN c.next - 1 ELSE c.next, search, files)
    BY <1>5
  <2>2. c.text = active[Len(active)].text
    BY <1>5 DEF Inner
  <2> QED
    BY <1>1, <1>5, <1>6, <2>1, <2>2, BecomeMeans
<1> HIDE DEF t
<1>10. MeaningOK(t, TRUE, search', files')
  BY <1>1, <1>2, <1>6, <1>8, <1>9, GrownMeaning
<1>11. (phase' = "busy") = TRUE
  BY <1>1, <1>2
<1> QED
  BY <1>2, <1>10, <1>11
-----------------------------------------------------------------------------
\* A file is imported again: an earlier statement has noted it.
LEMMA AgainRepeats ==
  ASSUME MeaningInv, UseAgain
  PROVE  RepeatedIn(Inner.text, Inner.next, search, files)
<1> DEFINE p == Search(Statement.name, search)
<1>1. /\ active # <<>> /\ phase = "busy" /\ Inner.kind = "compile" /\ Statement.op = "use"
  BY StatementFacts DEF UseAgain, MeaningInv
<1>2. FoundIn(Statement.name, search, files) # {} /\ p = SearchIn(Statement.name, search, files)
  BY UseFacts DEF UseAgain, MeaningInv
<1>3. PICK j \in DOMAIN Inner.imports : Inner.imports[j] = p
  BY DEF UseAgain, Repeated
<1>4. PICK i \in 1 .. Inner.next - 1 :
        /\ Inner.text[i].op = "use"
        /\ Inner.imports[j] = SearchIn(Inner.text[i].name, search, files)
  BY <1>1, InnerMeans DEF Means
<1> QED
  BY <1>2, <1>3, <1>4 DEF RepeatedIn, Statement

LEMMA AgainMeans ==
  ASSUME MeaningInv, UseAgain
  PROVE  MeaningOK(active', phase' = "busy", search', files')
<1>1. /\ active # <<>> /\ phase = "busy" /\ Inner.kind = "compile" /\ Statement.op = "use"
  BY StatementFacts DEF UseAgain, MeaningInv
<1>2. FoundIn(Statement.name, search, files) # {}
  BY UseFacts DEF UseAgain, MeaningInv
<1>5. RepeatedIn(Inner.text, Inner.next, search, files)
  BY AgainRepeats
<1>6. Drop = WordsIn(Inner.text, Inner.next, Body(Fuel(Len(active)), search, files), search, files)
  BY <1>1, <1>2, <1>5 DEF WordsIn, Statement
<1>7. /\ Compiled(Drop) \in Activity /\ Compiled(Drop).text = Inner.text
      /\ Means(Compiled(Drop), Len(active), Compiled(Drop).next - 1, search, files)
  BY <1>6, MarkFacts, CompiledMeans DEF UseAgain
<1>8. Become(Compiled(Drop)) /\ UNCHANGED <<search, files, phase>>
  BY DEF UseAgain, KeepsCompiling, world
<1> QED
  BY <1>1, <1>7, <1>8, GoesOn

\* A file is imported: its compiler starts above the one that waits.
LEMMA FileMeans ==
  ASSUME MeaningInv, UseFile
  PROVE  MeaningOK(active', phase' = "busy", search', files')
<1> DEFINE f == Search(Statement.name, search)
           b == [Inner EXCEPT !.imports = Append(@, f)]
           c == Compiling(files[f])
           k == Len(active)
<1>1. /\ active # <<>> /\ phase = "busy" /\ Inner.kind = "compile"
      /\ Inner.next \in 1 .. Len(Inner.text) /\ Statement.op = "use"
      /\ Inner \in Activity /\ k \in Nat
  BY StatementFacts, InnerFacts DEF UseFile, MeaningInv
<1>2. /\ FoundIn(Statement.name, search, files) # {}
      /\ f = SearchIn(Statement.name, search, files)
      /\ f \in DOMAIN files /\ f \in Path /\ files[f] \in Text
  BY UseFacts DEF UseFile, MeaningInv
<1>3. /\ Means(Inner, k, Inner.next, search, files)
      /\ MeaningOK(active, phase = "busy", search, files) /\ StackOK(active, search, files)
      /\ search \in Seq(Dir) /\ files \in FileSystem
  BY <1>1, InnerMeans DEF MeaningInv, StateOK
<1>4. UNCHANGED <<files, search>>
  BY DEF UseFile, world
<1>5. \/ /\ k < MaxDepth /\ phase' = phase
         /\ active' = Append(Front(active), b) \o <<c>>
      \/ phase' = "overflow" /\ active' = active
  BY DEF UseFile
<1>6. CASE phase' = "overflow" /\ active' = active
  <2>1. active \in Seq(Activity) /\ (phase' = "busy") = FALSE
    BY <1>3, <1>6 DEF StackOK
  <2>2. MeaningOK(active, FALSE, search, files)
    BY <1>3, <2>1, MeaningLess
  <2> QED
    BY <1>4, <1>6, <2>1, <2>2
<1>7. CASE k < MaxDepth /\ phase' = phase /\ active' = Append(Front(active), b) \o <<c>>
  <2> DEFINE t == Append(Inner.imports, f)
             s == Append(Front(active), b)
  <2>1. b = Act(Inner.kind, Inner.text, Inner.next, t, Inner.code, Inner.height, Inner.calls)
    <3>1. Inner = Act(Inner.kind, Inner.text, Inner.next, Inner.imports, Inner.code,
                      Inner.height, Inner.calls)
      BY <1>1, ActOf
    <3>2. b = [Inner EXCEPT !.imports = t]
      OBVIOUS
    <3> HIDE DEF t, b
    <3> QED
      BY ONLY <3>1, <3>2, ActUpdates
  <2>2. /\ Inner.kind \in {"compile", "run"} /\ Inner.text \in Text /\ Inner.next \in Nat
        /\ Inner.imports \in Seq(Path) /\ Inner.code \in Seq(Words)
        /\ Inner.height \in Nat /\ Inner.calls \in Seq(Nat)
    BY <1>1, ActivityFacts
  <2>3. /\ t \in Seq(Path) /\ DOMAIN t = 1 .. Len(Inner.imports) + 1
        /\ Len(Inner.imports) \in Nat /\ DOMAIN Inner.imports = 1 .. Len(Inner.imports)
        /\ \A i \in 1 .. Len(Inner.imports) : t[i] = Inner.imports[i]
        /\ t[Len(Inner.imports) + 1] = f
    <3> HIDE DEF f
    <3> QED
      BY <1>2, <2>2, AppendProperties, LenProperties
  <2> HIDE DEF t, b, f, c, k
  <2>4. /\ b.kind = Inner.kind /\ b.text = Inner.text /\ b.next = Inner.next
        /\ b.imports = t /\ b.code = Inner.code
    BY ONLY <2>1, ActFields
  <2>5. b \in Activity
    BY <2>1, <2>2, <2>3, ActType
  <2>6. ASSUME NEW j \in DOMAIN t
        PROVE  \E i \in 1 .. Inner.next : /\ Inner.text[i].op = "use"
                                          /\ FoundIn(Inner.text[i].name, search, files) # {}
                                          /\ t[j] = SearchIn(Inner.text[i].name, search, files)
    <3>1. CASE j = Len(Inner.imports) + 1
      <4>1. Inner.next \in 1 .. Inner.next
        BY <1>1
      <4> QED
        BY <1>1, <1>2, <2>3, <3>1, <4>1 DEF Statement
    <3>2. CASE j # Len(Inner.imports) + 1
      <4>1. j \in DOMAIN Inner.imports /\ t[j] = Inner.imports[j]
        BY <2>3, <3>2
      <4> QED
        BY <1>1, <1>3, <4>1 DEF Means
    <3> QED
      BY <3>1, <3>2
  <2>7. Means(b, k, b.next, search, files)
    <3>1. b.code = CodePrefixes(b.text, Body(Fuel(k), search, files), search, files)[b.next - 1]
      BY <1>1, <1>3, <2>4 DEF Means
    <3> QED
      BY <1>1, <2>4, <2>6, <3>1 DEF Means
  <2>8. MeaningOK(s, FALSE, search, files)
    <3>1. Means(b, Len(active), IF FALSE THEN b.next - 1 ELSE b.next, search, files)
      BY <2>7 DEF k
    <3>2. b.text = active[Len(active)].text
      BY <2>4 DEF Inner
    <3> QED
      BY <1>1, <1>3, <2>5, <3>1, <3>2, BecomeMeans
  <2>9. s \in Seq(Activity) /\ Len(s) = k /\ s[k] = b
    <3>1. Front(active) \in Seq(Activity) /\ Len(Front(active)) = Len(active) - 1
      <4>1. StackOK(Front(active), search, files) /\ Len(Front(active)) = Len(active) - 1
        BY <1>1, <1>3, FrontOK
      <4> QED
        BY <4>1 DEF StackOK
    <3>2. /\ s \in Seq(Activity) /\ Len(s) = Len(Front(active)) + 1
          /\ s[Len(Front(active)) + 1] = b
      BY <2>5, <3>1, AppendProperties
    <3>3. Len(Front(active)) + 1 = k
      BY <1>1, <3>1 DEF k
    <3> QED
      BY <3>2, <3>3
  <2>10. c \in Activity
    BY <1>2, CompilingOK DEF c
  <2>11. c.text = files[f] /\ c.next = 1 /\ Means(c, k + 1, 0, search, files)
    <3>1. k + 1 \in Nat
      BY <1>1
    <3> QED
      BY <1>2, <1>3, <3>1, NewMeans DEF c
  <2>12. Linked(b, c, k, search, files)
    BY <1>2, <1>7, <2>4, <2>11 DEF Linked, Statement
  <2>13. Means(c, Len(s) + 1, IF TRUE THEN c.next - 1 ELSE c.next, search, files)
    BY <2>9, <2>11
  <2> HIDE DEF s
  <2>14. MeaningOK(Append(s, c), TRUE, search, files)
    BY <2>8, <2>9, <2>10, <2>12, <2>13, PushMeans
  <2>15. s \o <<c>> = Append(s, c)
    BY <2>9, <2>10, AppendIsConcat
  <2>16. active' = Append(s, c) /\ (phase' = "busy") = TRUE
    BY <1>1, <1>7, <2>15 DEF s
  <2> QED
    BY <1>4, <2>14, <2>16
<1> QED
  BY <1>5, <1>6, <1>7

\* eval() returns to a run, which keeps its code.
LEMMA ReturnMeans ==
  ASSUME MeaningInv, UNCHANGED <<files, search>>,
         NEW s, StackOK(s, search, files), MeaningOK(s, FALSE, search, files),
         s # <<>> => s[Len(s)].kind = "run" /\ Waits(s[Len(s)], search, files),
         NEW exits, Return(s, exits)
  PROVE  MeaningOK(active', phase' = "busy", search', files')
<1>a. CASE s = <<>>
  <2>1. active' = <<>>
    BY <1>a DEF Return
  <2> QED
    BY <2>1 DEF MeaningOK
<1>b. CASE s # <<>>
  <2> DEFINE a == Last(s)
             b == Returned(a)
  <2>1. a = s[Len(s)]
    BY DEF Last
  <2>2. active' = Append(Front(s), b) /\ phase' = "busy"
    BY <1>b DEF Return
  <2> HIDE DEF a
  <2>3. a \in Activity /\ ActivityOK(a, search, files) /\ Waits(a, search, files) /\ a.kind = "run"
    BY <1>b, <2>1, FrontOK
  <2>4. b = Moved(a, a.height + 1, a.calls)
    BY <2>3, MovedAct
  <2>5. Means(a, Len(s), a.next, search, files)
    <3>1. Means(s[Len(s)], Len(s), IF FALSE THEN s[Len(s)].next - 1 ELSE s[Len(s)].next,
                search, files)
      BY <1>b, FrontMeans
    <3> QED
      BY <2>1, <3>1
  <2>6. Means(b, Len(s), b.next - 1, search, files) /\ b.text = a.text
    BY <2>3, <2>4, <2>5, MovedMeans
  <2>7. b \in Activity
    <3>1. a.next \in 1 .. Len(a.code) /\ a.code[a.next].op = "eval"
      BY <2>3 DEF Waits
    <3>2. Moves(a.code[a.next].op, a.height, a.calls, a.height + 1, a.calls)
      BY <3>1 DEF Moves
    <3> QED
      BY <2>3, <2>4, <3>1, <3>2, MovedOK
  <2> HIDE DEF b
  <2>8. Means(b, Len(s), IF TRUE THEN b.next - 1 ELSE b.next, search, files)
    BY <2>6
  <2>9. MeaningOK(Append(Front(s), b), TRUE, search, files)
    BY <1>b, <2>1, <2>6, <2>7, <2>8, BecomeMeans
  <2>10. (phase' = "busy") = TRUE
    BY <2>2
  <2> QED
    BY <2>2, <2>9, <2>10
<1> QED
  BY <1>a, <1>b

LEMMA UnwindMeans ==
  ASSUME MeaningInv, Unwind
  PROVE  MeaningOK(active', phase' = "busy", search', files')
<1> DEFINE below == Front(active)
<1>1. /\ StateOK /\ active # <<>> /\ UNCHANGED <<files, search>> /\ phase = "raise"
      /\ StackOK(active, search, files)
  BY DEF Unwind, world, StateOK, MeaningInv
<1>2. StackOK(below, search, files) /\ MeaningOK(below, FALSE, search, files)
  BY <1>1, FrontOK, InnerMeans
<1>3. CASE below # <<>> /\ Rethrows(Last(below))
  <2>1. active' = below /\ phase' = phase
    BY <1>3 DEF Unwind
  <2>2. (phase' = "busy") = FALSE
    BY <1>1, <2>1
  <2> QED
    BY <1>1, <1>2, <2>1, <2>2
<1>4. CASE ~(below # <<>> /\ Rethrows(Last(below)))
  <2>1. Return(below, {"exit 1"})
    BY <1>4 DEF Unwind
  <2>2. below # <<>> => below[Len(below)].kind = "run" /\ Waits(below[Len(below)], search, files)
    <3> HAVE below # <<>>
    <3>1. /\ Last(below) \in Activity /\ Waits(Last(below), search, files)
          /\ Last(below) = below[Len(below)]
      BY <1>1, BelowFacts DEF Last
    <3> QED
      BY <1>4, <3>1, ActivityFacts DEF Rethrows
  <2> HIDE DEF below
  <2> QED
    BY <1>1, <1>2, <2>1, <2>2, ReturnMeans
<1> QED
  BY <1>3, <1>4

\* The code of a text whose imports are known at some depth is its code.
LEMMA TextDone ==
  ASSUME NEW a \in Activity, a.kind = "compile", a.next = Len(a.text) + 1,
         NEW k \in Nat, NEW r, NEW w \in Seq(Dir), NEW fs \in FileSystem, Means(a, k, r, w, fs)
  PROVE  /\ a.code = Codes(w, fs)[Fuel(k)][a.text]
         /\ a.code = Codes(w, fs)[MaxDepth][a.text]
<1>1. a.text \in Text /\ Len(a.text) \in Nat /\ a.code \in Seq(Words)
  BY ActivityFacts
<1>2. a.code = CodePrefixes(a.text, Body(Fuel(k), w, fs), w, fs)[Len(a.text)]
  <2>1. (Len(a.text) + 1) - 1 = Len(a.text)
    BY <1>1
  <2> QED
    BY <2>1 DEF Means
<1>3. Fuel(k) \in 0 .. MaxDepth /\ MaxDepth \in Fuel(k) .. MaxDepth
  <2>1. Fuel(k) \in 0 .. MaxDepth
    BY FuelFacts
  <2> QED
    BY <2>1, BoundAssumption
<1>4. a.code = Codes(w, fs)[Fuel(k)][a.text]
  BY <1>1, <1>2, <1>3, BodyType
<1>5. Knows(Codes(w, fs)[Fuel(k)], Codes(w, fs)[MaxDepth])
  BY <1>3, CodesKept DEF Longer
<1> QED
  BY <1>1, <1>4, <1>5 DEF Knows

\* An imported file has been compiled: its importer has the code of the import.
LEMMA EndImportMeans ==
  ASSUME MeaningInv, EndImport
  PROVE  MeaningOK(active', phase' = "busy", search', files')
<1> DEFINE k == Len(active)
           s == Front(active)
           a == active[k - 1]
           e == Module(Inner.code) \o Drop
<1>1. /\ active # <<>> /\ k > 1 /\ a.kind = "compile" /\ phase = "busy"
      /\ UNCHANGED <<files, phase, search>>
      /\ s # <<>> /\ StackOK(s, search, files)
      /\ a \in Activity /\ ActivityOK(a, search, files) /\ Waits(a, search, files)
      /\ Inner \in Activity /\ e \in Seq(Words) /\ Leaving(e, 0)
      /\ active' = Append(Front(s), Emits(a, e))
  BY EndImportFacts DEF MeaningInv
<1>2. /\ StackOK(active, search, files) /\ MeaningOK(active, phase = "busy", search, files)
      /\ search \in Seq(Dir) /\ files \in FileSystem
  BY DEF MeaningInv, StateOK
<1>3. /\ MeaningOK(s, FALSE, search, files)
      /\ Means(Inner, k, Inner.next - 1, search, files)
      /\ Linked(a, Inner, k - 1, search, files)
      /\ Means(a, k - 1, a.next, search, files)
  BY <1>1, <1>2, FrontMeans DEF Inner
<1>4. /\ k \in Nat \ {0} /\ Len(s) = k - 1 /\ s[Len(s)] = a
  BY <1>1, <1>2, FrontOK
<1>5. Inner.kind = "compile" /\ Inner.next > Len(Inner.text)
  BY DEF EndImport
<1>6. Inner.next = Len(Inner.text) + 1
  <2>1. Inner.next \in 1 .. Len(Inner.text) + 1 /\ Len(Inner.text) \in Nat
    BY <1>1, <1>5, InnerFacts DEF MeaningInv
  <2> QED
    BY <1>5, <2>1
<1> HIDE DEF k, s, a
<1> DEFINE f == SearchIn(a.text[a.next].name, search, files)
           m == k - 1
<1>7. m \in Nat /\ m < MaxDepth /\ m + 1 = k /\ Inner.text = files[f]
  BY <1>1, <1>3, <1>4 DEF Linked
<1>8. Inner.code = Codes(search, files)[Fuel(k)][Inner.text]
  BY <1>1, <1>2, <1>3, <1>4, <1>5, <1>6, TextDone
<1>9. Inner.code = Body(Fuel(m), search, files)[files[f]]
  BY <1>7, <1>8, FuelFacts DEF Body
<1>10. /\ a.next \in 1 .. Len(a.text) /\ a.text[a.next].op = "use"
       /\ FoundIn(a.text[a.next].name, search, files) # {}
       /\ ~RepeatedIn(a.text, a.next, search, files)
  BY <1>1 DEF Waits, Uses
<1>11. e = WordsIn(a.text, a.next, Body(Fuel(m), search, files), search, files)
  BY <1>9, <1>10 DEF WordsIn
<1> HIDE DEF e, f
<1>12. /\ Means(Emits(a, e), m, Emits(a, e).next - 1, search, files)
       /\ Emits(a, e).text = a.text
  <2> HIDE DEF m
  <2>1. Means(a, m, a.next, search, files)
    BY <1>3 DEF m
  <2> QED
    BY <1>1, <1>2, <1>7, <1>10, <1>11, <2>1, EmitsMeans
<1>13. Emits(a, e) \in Activity
  <2>1. LeavesIn(a.text, a.next, search, files) = 0
    BY <1>10 DEF LeavesIn
  <2>2. Uses(a, a.next, search, files)
    BY <1>1 DEF Waits
  <2> QED
    BY <1>1, <1>10, <2>1, <2>2, EmitsOK
<1> DEFINE b == Emits(a, e)
<1> HIDE DEF b
<1>14. MeaningOK(Append(Front(s), b), TRUE, search, files)
  <2>1. Means(b, Len(s), IF TRUE THEN b.next - 1 ELSE b.next, search, files)
    BY <1>4, <1>12 DEF b
  <2>2. b \in Activity /\ b.text = s[Len(s)].text
    BY <1>4, <1>12, <1>13 DEF b
  <2> QED
    BY <1>1, <1>3, <2>1, <2>2, BecomeMeans
<1>15. active' = Append(Front(s), b) /\ (phase' = "busy") = TRUE
  BY <1>1 DEF b
<1> QED
  BY <1>1, <1>14, <1>15

\* A text has been compiled: its code runs.
LEMMA StartMeans ==
  ASSUME MeaningInv, StartRun
  PROVE  MeaningOK(active', phase' = "busy", search', files')
<1> DEFINE b == Running(Inner)
<1>1. /\ active # <<>> /\ phase = "busy" /\ Inner.kind = "compile"
      /\ Inner.next > Len(Inner.text) /\ UNCHANGED <<files, phase, search>> /\ Become(b)
  BY DEF StartRun, StateOK, KeepsCompiling, world, MeaningInv
<1>2. /\ Inner \in Activity /\ ActivityOK(Inner, search, files)
      /\ Inner.next = Len(Inner.text) + 1
  <2>1. /\ Inner.next \in 1 .. Len(Inner.text) + 1 /\ Len(Inner.text) \in Nat
        /\ Inner \in Activity /\ ActivityOK(Inner, search, files)
    BY <1>1, InnerFacts DEF MeaningInv
  <2> QED
    BY <1>1, <2>1
<1>3. Inner.code = Codes(search, files)[MaxDepth][Inner.text]
  BY <1>1, <1>2, InnerMeans, TextDone
<1>4. b \in Activity /\ b.kind = "run"
  BY <1>1, <1>2, RunningOK
<1>5. b.text = Inner.text /\ b.code = Inner.code
  BY <1>2 DEF Running, Activity
<1> HIDE DEF b
<1>6. Means(b, Len(active), b.next - 1, search, files)
  BY <1>3, <1>4, <1>5 DEF Means
<1> QED
  BY <1>1, <1>4, <1>5, <1>6, GoesOn

LEMMA ProceedMeans ==
  ASSUME MeaningInv, NEW op, RunsNext(op), NEW y, NEW e,
         Moves(op, Inner.height, Inner.calls, y, e),
         Become(Moved(Inner, y, e)), UNCHANGED <<files, phase, search>>
  PROVE  MeaningOK(active', phase' = "busy", search', files')
<1>1. /\ active # <<>> /\ phase = "busy" /\ Inner.kind = "run"
      /\ Inner \in Activity /\ ActivityOK(Inner, search, files)
      /\ Inner.next \in 1 .. Len(Inner.code) /\ Inner.code[Inner.next].op = op
  BY InstructionFacts DEF MeaningInv
<1>2. Moved(Inner, y, e) \in Activity
  BY <1>1, MovedOK
<1>3. Means(Inner, Len(active), Inner.next, search, files)
  BY <1>1, InnerMeans
<1>4. /\ Means(Moved(Inner, y, e), Len(active), Moved(Inner, y, e).next - 1, search, files)
      /\ Moved(Inner, y, e).text = Inner.text
  BY <1>1, <1>3, MovedMeans
<1> QED
  BY <1>1, <1>2, <1>4, GoesOn

\* Where there are only runs, each has the code of its text.
LEMMA RunsMean ==
  ASSUME NEW w, NEW fs, NEW s, \A k \in 1 .. Len(s) : s[k].kind = "run",
         \A k \in 1 .. Len(s) : s[k].code = Codes(w, fs)[MaxDepth][s[k].text],
         Len(s) \in Nat, NEW busy
  PROVE  MeaningOK(s, busy, w, fs)
<1>1. \A k \in 1 .. Len(s) : Means(s[k], k, Reached(s, k, busy), w, fs)
  BY DEF Means
<1>2. \A k \in 1 .. Len(s) - 1 : Linked(s[k], s[k + 1], k, w, fs)
  <2>1. \A k \in 1 .. Len(s) - 1 : k \in 1 .. Len(s)
    OBVIOUS
  <2> QED
    BY <2>1 DEF Linked
<1> QED
  BY <1>1, <1>2 DEF MeaningOK

LEMMA TailMeans ==
  ASSUME NEW w, NEW fs, NEW s, StackOK(s, w, fs), s # <<>>, s[Len(s)].kind = "run",
         NEW busy, MeaningOK(s, busy, w, fs), NEW ready
  PROVE  MeaningOK(Tail(s), ready, w, fs)
<1> DEFINE t == Tail(s)
<1>1. \A k \in 1 .. Len(s) : s[k].kind = "run"
  BY RunsBelow
<1>2. \A k \in 1 .. Len(s) : s[k].code = Codes(w, fs)[MaxDepth][s[k].text]
  BY <1>1 DEF MeaningOK, Means
<1>3. /\ Len(t) \in Nat
      /\ \A k \in 1 .. Len(t) : k + 1 \in 1 .. Len(s) /\ t[k] = s[k + 1]
  BY TailOK, LenProperties DEF StackOK
<1> HIDE DEF t
<1>4. MeaningOK(t, ready, w, fs)
  BY <1>1, <1>2, <1>3, RunsMean
<1> QED
  BY <1>4 DEF t

LEMMA LeftRunsMean ==
  ASSUME MeaningInv, RunIsOn, NEW s, LeftRuns(s)
  PROVE  MeaningOK(s, FALSE, search, files)
<1> DEFINE f == Front(active)
<1>1. StateOK /\ active # <<>>
  BY DEF MeaningInv, RunIsOn
<1>2. MeaningOK(f, FALSE, search, files)
  BY <1>1, InnerMeans
<1>3. f # <<>> => StackOK(f, search, files) /\ f[Len(f)].kind = "run"
  BY <1>1, BelowFacts DEF RunIsOn, Last
<1>4. s = <<>> \/ s = f \/ (f # <<>> /\ s = Tail(f))
  BY DEF LeftRuns
<1> HIDE DEF f
<1>5. MeaningOK(<<>>, FALSE, search, files)
  BY DEF MeaningOK
<1> QED
  BY <1>2, <1>3, <1>4, <1>5, TailMeans

LEMMA RunMeans ==
  ASSUME MeaningInv, RunStep
  PROVE  MeaningOK(active', phase' = "busy", search', files')
<1>0. StateOK
  BY DEF MeaningInv
<1>e. ASSUME RunIsOn, UNCHANGED <<files, lines, search>>, NEW s, NEW exits,
             LeftRuns(s), Return(s, exits)
      PROVE  MeaningOK(active', phase' = "busy", search', files')
  BY <1>0, <1>e, LeftRunsOK, LeftRunsMean, ReturnMeans
<1>1. CASE RunIsOn /\ (BreakOff \/ RuntimeError)
  <2>1. UNCHANGED <<files, lines, search>>
    BY <1>0, <1>1, BreakOffCases
  <2>2. CASE \E s, exits : /\ LeftRuns(s) /\ exits \subseteq {"exit 0", "exit 1"}
                           /\ Return(s, exits)
    BY <1>1, <1>e, <2>1, <2>2
  <2>3. CASE Len(active) > 1 /\ active' = Tail(active) /\ phase' = phase
    <3>1. /\ StackOK(active, search, files) /\ active[Len(active)].kind = "run" /\ active # <<>>
          /\ MeaningOK(active, phase = "busy", search, files)
      BY <1>1 DEF MeaningInv, StateOK, RunIsOn, Inner
    <3>2. MeaningOK(Tail(active), phase' = "busy", search, files)
      BY <3>1, TailMeans
    <3> QED
      BY <2>1, <2>3, <3>2
  <2>4. CASE phase' = "abort" /\ active' = active
    <3>1. active \in Seq(Activity) /\ MeaningOK(active, phase = "busy", search, files)
      BY DEF MeaningInv, StateOK, StackOK
    <3>2. MeaningOK(active, FALSE, search, files)
      BY <3>1, MeaningLess
    <3>3. (phase' = "busy") = FALSE
      BY <2>4
    <3> QED
      BY <2>1, <2>4, <3>2, <3>3
  <2> QED
    BY <1>0, <1>1, <2>2, <2>3, <2>4, BreakOffCases
<1>2. CASE EndRun
  BY <1>0, <1>2, <1>e, EndRunCases
<1>3. CASE RunEval /\ ~IllegalStart(Instruction.text)
  <2> DEFINE c == Compiling(Instruction.text)
  <2>1. /\ active # <<>> /\ phase = "busy" /\ Inner.kind = "run" /\ Instruction.text \in Text
    BY <1>0, <1>3, InstructionFacts DEF RunEval
  <2>2. active' = Append(active, c) /\ UNCHANGED <<files, phase, search>>
    BY <1>3 DEF RunEval, Begin, KeepsCompiling, world
  <2>3. /\ active \in Seq(Activity) /\ MeaningOK(active, phase = "busy", search, files)
        /\ search \in Seq(Dir) /\ files \in FileSystem /\ Len(active) \in Nat
    BY <1>0, LenProperties DEF StateOK, StackOK, MeaningInv
  <2>4. c \in Activity
    BY <2>1, CompilingOK
  <2>5. Means(c, Len(active) + 1, 0, search, files) /\ c.next = 1
    BY <2>1, <2>3, NewMeans
  <2>6. Linked(active[Len(active)], c, Len(active), search, files)
    BY <2>1 DEF Linked, Inner
  <2>7. MeaningOK(active, FALSE, search, files)
    BY <2>3, MeaningLess
  <2> HIDE DEF c
  <2>8. Means(c, Len(active) + 1, IF TRUE THEN c.next - 1 ELSE c.next, search, files)
    BY <2>5
  <2>9. MeaningOK(Append(active, c), TRUE, search, files)
    BY <2>3, <2>4, <2>6, <2>7, <2>8, PushMeans
  <2>10. (phase' = "busy") = TRUE
    BY <2>1, <2>2
  <2> QED
    BY <2>2, <2>9, <2>10
<1> QED
  BY <1>0, <1>1, <1>2, <1>3, RunCases, ProceedMeans

LEMMA ReadMeans ==
  ASSUME MeaningInv, ReadLine
  PROVE  MeaningOK(active', phase' = "busy", search', files')
<1>1. PICK text \in Source :
        IF IllegalStart(text) THEN phase' = "abort" /\ active' = active
                              ELSE phase' = "busy" /\ Begin(Compiling(text))
  BY DEF ReadLine
<1>2. /\ search' = search /\ files' = files /\ active = <<>> /\ text \in Text
      /\ search \in Seq(Dir) /\ files \in FileSystem
  BY TextAssumption DEF ReadLine, StateOK, world, MeaningInv
<1>3. CASE IllegalStart(text)
  BY <1>1, <1>2, <1>3 DEF MeaningOK
<1>4. CASE ~IllegalStart(text)
  <2> DEFINE c == Compiling(text)
             s == active
  <2>1. active' = Append(s, c) /\ (phase' = "busy") = TRUE
    BY <1>1, <1>4 DEF Begin
  <2>2. c \in Activity /\ Means(c, 1, 0, search, files) /\ c.next = 1
    BY <1>2, CompilingOK, NewMeans
  <2>3. s \in Seq(Activity) /\ s = <<>> /\ Len(s) + 1 = 1 /\ MeaningOK(s, FALSE, search, files)
    BY <1>2 DEF MeaningOK
  <2> HIDE DEF c, s
  <2>4. Means(c, Len(s) + 1, IF TRUE THEN c.next - 1 ELSE c.next, search, files)
    BY <2>2, <2>3
  <2>5. MeaningOK(Append(s, c), TRUE, search, files)
    BY <2>2, <2>3, <2>4, PushMeans
  <2> QED
    BY <1>2, <2>1, <2>5
<1> QED
  BY <1>3, <1>4

LEMMA NextMeans ==
  ASSUME MeaningInv, [Next]_vars
  PROVE  MeaningInv'
<1>1. StateOK'
  BY NextStateOK, AgainRepeats DEF MeaningInv
<1> SUFFICES MeaningOK(active', phase' = "busy", search', files')
  BY <1>1 DEF MeaningInv
<1>2. CASE CompileCode
  <2> DEFINE e == <<Word("code")>>
  <2>1. e \in Seq(Words)
    BY MarkFacts
  <2>2. /\ CompilesNext("code") /\ Become(Compiled(e)) /\ search' = search /\ KeepsCompiling
    BY <1>2 DEF CompileCode
  <2> QED
    BY <2>1, <2>2, PlainStatement
<1>7. CASE CompileParts
  <2> DEFINE e == <<Word("parts")>>
  <2>1. e \in Seq(Words)
    BY MarkFacts
  <2>2. /\ CompilesNext("parts") /\ Become(Compiled(e)) /\ search' = search /\ KeepsCompiling
    BY <1>7 DEF CompileParts
  <2> QED
    BY <2>1, <2>2, PlainStatement
<1>3. CASE CompileEval
  <2> DEFINE e == <<[Word("eval") EXCEPT !.text = Statement.text]>> \o Drop
  <2>1. CompilesNext("eval") /\ Become(Compiled(e)) /\ search' = search /\ KeepsCompiling
    BY <1>3 DEF CompileEval
  <2>2. e \in Seq(Words)
    BY <2>1, StatementFacts, PlainWords DEF MeaningInv
  <2> QED
    BY <2>1, <2>2, PlainStatement
<1>4. CASE CompileModule
  <2> DEFINE e == <<[Word("module") EXCEPT !.name = Statement.name]>> \o Drop
  <2>1. CompilesNext("module") /\ Become(Compiled(e)) /\ search' = search /\ KeepsCompiling
    BY <1>4 DEF CompileModule
  <2>2. e \in Seq(Words)
    BY <2>1, StatementFacts, PlainWords DEF MeaningInv
  <2> QED
    BY <2>1, <2>2, PlainStatement
<1>5. CASE CompileBad \/ UseMissing \/ UseIllegal
  <2>1. CompileError
    BY <1>5 DEF CompileBad, UseMissing, UseIllegal
  <2>2. UNCHANGED <<active, search, files>> /\ (phase' = "busy") = FALSE
    BY <2>1 DEF CompileError, world
  <2>3. active \in Seq(Activity) /\ MeaningOK(active, phase = "busy", search, files)
    BY DEF MeaningInv, StateOK, StackOK
  <2>4. MeaningOK(active, FALSE, search, files)
    BY <2>3, MeaningLess
  <2> QED
    BY <2>2, <2>4
<1>6. CASE Ended \/ UNCHANGED vars
  BY <1>6 DEF Ended, vars, MeaningInv
<1> QED
  BY <1>2, <1>3, <1>4, <1>5, <1>6, <1>7, PathMeans, AgainMeans, FileMeans, UnwindMeans, EndImportMeans,
     StartMeans, RunMeans, ReadMeans
  DEF Next, Compile
-----------------------------------------------------------------------------
(* Theorems.                                                               *)

\* Whatever the texts say, the search path stays a sequence.
LEMMA SearchIsSequence == Spec => []SearchInv
<1>1. Init => SearchInv
  BY PathAssumption DEF Init, SearchInv
<1>2. SearchInv /\ [Next]_vars => SearchInv'
  BY SearchKeeps
<1> QED
  BY <1>1, <1>2, PTL DEF Spec

\* The strengthened invariant of the stack of activities: the code of each can be
\* walked and leaves what the statements of its text leave, a run is somewhere on
\* the walk, what waits waits at a use or eval(), and the code is that of the text.
THEOREM StackInvariance == Spec => []MeaningInv
<1>1. Init => MeaningInv
  <2> SUFFICES ASSUME Init PROVE MeaningInv
    OBVIOUS
  <2>1. active = <<>> /\ StackOK(active, search, files)
    BY EmptyStackOK DEF Init
  <2>2. 0 \in 0 .. MaxLines
    BY BoundAssumption
  <2>3. StateOK
    BY <2>1, <2>2, PathAssumption DEF Init, StateOK
  <2> QED
    BY <2>1, <2>3 DEF MeaningInv, MeaningOK
<1>2. MeaningInv /\ [Next]_vars => MeaningInv'
  BY NextMeans
<1> QED
  BY <1>1, <1>2, PTL DEF Spec

\* The pieces of the state are of their kind: compilers are above runs, only a run
\* has an operand stack, and what is imported is a file there is.
THEOREM TypeCorrect == Spec => []TypeOK
<1>1. MeaningInv => TypeOK
  <2> SUFFICES ASSUME MeaningInv, StateOK PROVE TypeOK
    BY DEF MeaningInv
  <2>1. StackOK(active, search, files)
    BY DEF StateOK
  <2>2. /\ active \in Seq(Activity) /\ Len(active) \in Nat
        /\ \A k \in 1 .. Len(active) : ActivityOK(active[k], search, files)
    BY <2>1, LenProperties DEF StackOK
  <2>3. \A k \in 1 .. Len(active) : active[k].kind = "run" /\ k > 1 => active[k - 1].kind = "run"
    <3> TAKE k \in 1 .. Len(active)
    <3> HAVE active[k].kind = "run" /\ k > 1
    <3>1. k - 1 \in 1 .. Len(active) - 1 /\ (k - 1) + 1 = k
      BY <2>2
    <3> QED
      BY <2>1, <3>1 DEF StackOK
  <2>4. \A k \in 1 .. Len(active) :
          /\ active[k].kind = "compile" => active[k].height = 0 /\ active[k].calls = <<>>
          /\ \A i \in DOMAIN active[k].imports : active[k].imports[i] \in DOMAIN files
    BY <2>2 DEF ActivityOK, CompilerOK
  <2> QED
    BY <2>2, <2>3, <2>4 DEF StateOK, TypeOK
<1> QED
  BY <1>1, StackInvariance, PTL

\* What a text leaves is the tally that the invariant speaks of.
LEMMA LeftIsTally ==
  ASSUME NEW text, Len(text) \in Nat, NEW t, Tally(text, Len(text), t, search, files)
  PROVE  Left(text) = t
<1> DEFINE n == Len(text)
           Step(f, i) == IF i = 0 THEN 0 ELSE f[i - 1] + Leaves(text, i)
           f == Left(text)
<1>1. /\ t \in [0 .. n -> Int] /\ t[0] = 0
      /\ \A i \in 1 .. n : t[i] = t[i - 1] + Leaves(text, i)
  BY RepeatedUseIn DEF Tally, Leaves, LeavesIn
<1>2. f = CHOOSE g : g = [i \in 0 .. n |-> Step(g, i)]
  BY DEF Left
<1> HIDE DEF n, f
<1>3. \A i \in 0 .. n : t[i] = Step(t, i)
  <2> SUFFICES ASSUME NEW i \in 0 .. n PROVE t[i] = Step(t, i)
    OBVIOUS
  <2>1. CASE i = 0
    BY <2>1, <1>1
  <2>2. CASE i # 0
    <3>1. i \in 1 .. n
      BY <2>2 DEF n
    <3> QED
      BY <2>2, <3>1, <1>1
  <2> QED
    BY <2>1, <2>2
<1> HIDE DEF Step
<1>4. t = [i \in 0 .. n |-> Step(t, i)]
  BY <1>1, <1>3
<1>5. f = [i \in 0 .. n |-> Step(f, i)]
  BY <1>2, <1>4
<1>6. \A i \in 0 .. n : f[i] = Step(f, i)
  BY <1>5
<1> DEFINE Wrong == {i \in 0 .. n : f[i] # t[i]}
<1>7. Wrong = {}
  <2> SUFFICES ASSUME Wrong # {} PROVE FALSE
    OBVIOUS
  <2>0. Wrong \subseteq Nat
    OBVIOUS
  <2> HIDE DEF Wrong
  <2>1. PICK m \in Wrong : \A k \in Wrong : m <= k
    BY ONLY <2>0, Wrong # {}, Least
  <2> USE DEF Wrong
  <2>2. m \in 0 .. n /\ f[m] # t[m]
    BY <2>1
  <2>3. CASE m = 0
    BY <2>2, <2>3, <1>3, <1>6 DEF Step
  <2>4. CASE m # 0
    <3>1. m - 1 \in 0 .. n /\ ~(m <= m - 1)
      BY <2>2, <2>4 DEF n
    <3>2. f[m - 1] = t[m - 1]
      BY <3>1, <2>1
    <3> QED
      BY <2>2, <2>4, <3>2, <1>3, <1>6 DEF Step
  <2> QED
    BY <2>3, <2>4
<1>8. f = [i \in 0 .. n |-> f[i]]
  BY <1>5, <1>6, Zenon
<1>9. t = [i \in 0 .. n |-> t[i]]
  BY <1>1
<1>10. \A i \in 0 .. n : f[i] = t[i]
  BY <1>7
<1>11. f = t
  BY <1>8, <1>9, <1>10
<1> QED
  BY <1>11 DEF f

\* A run that comes to its end has left on the operand stack, through all calls of
\* imported files, one value for each statement that leaves one, less one for each
\* file used again (Compiler.cpp:840, 893-917), and never less than none: for any
\* files, texts and search path, however deep imports and eval() are.
THEOREM RunsLeaveTheStack == Spec => []StackAfterRun
<1>1. MeaningInv => StackAfterRun
  <2> SUFFICES ASSUME MeaningInv, StateOK, NEW k \in DOMAIN active, active[k].kind = "run",
                      active[k].next > Len(active[k].code)
               PROVE  /\ active[k].calls = <<>>
                      /\ active[k].height = Left(active[k].text)[Len(active[k].text)]
                      /\ \A i \in DOMAIN active[k].text : Left(active[k].text)[i] >= 0
    BY DEF StackAfterRun, MeaningInv
  <2> DEFINE a == active[k]
             n == Len(a.code)
  <2>1. a \in Activity /\ ActivityOK(a, search, files)
    <3>1. active \in Seq(Activity)
      BY DEF StateOK, StackOK
    <3>2. k \in 1 .. Len(active)
      BY <3>1, LenProperties
    <3> QED
      BY <3>1, <3>2, ElementOfSeq DEF StateOK, StackOK
  <2>2. a.kind = "run" /\ a.next > n
    OBVIOUS
  <2> HIDE DEF a
  <2>3. PICK d, h : CodeOK(a, d, h, search, files) /\ RunAt(a, d, h)
    BY <2>1, <2>2 DEF ActivityOK
  <2>4. n \in Nat /\ a.calls \in Seq(Nat) /\ Len(a.text) \in Nat /\ DOMAIN a.text = 1 .. Len(a.text)
    BY <2>1, ActivityFacts, LenProperties
  <2>5. a.next - 1 = n
    BY <2>2, <2>3, <2>4 DEF RunAt
  <2>6. d[n] = 0 /\ h[0] = 0
    BY <2>3 DEF CodeOK, Walk
  <2>7. Len(a.calls) = 0 /\ h[n] = IF a.calls = <<>> THEN a.height ELSE a.calls[1]
    BY <2>3, <2>5, <2>6 DEF RunAt
  <2>8. a.calls = <<>> /\ a.height = h[n]
    BY <2>4, <2>7, EmptySeq
  <2>9. \A p \in 0 .. n : h[p] >= 0
    <3>1. \A p \in 1 .. n : h[p] >= 0
      BY <2>3, <2>5 DEF RunAt
    <3> QED
      BY <3>1, <2>4, <2>6
  <2>10. Done(a) = Len(a.text)
    BY <2>2 DEF Done
  <2>11. PICK t : /\ Tally(a.text, Len(a.text), t, search, files) /\ t[Len(a.text)] = h[n]
                  /\ \A i \in 0 .. Len(a.text) : \E p \in 0 .. n : h[p] = t[i]
    BY <2>3, <2>10 DEF CodeOK, Tallied
  <2>12. Left(a.text) = t
    BY <2>4, <2>11, LeftIsTally
  <2>13. \A i \in DOMAIN a.text : t[i] >= 0
    <3> TAKE i \in DOMAIN a.text
    <3>1. i \in 0 .. Len(a.text)
      BY <2>4
    <3> QED
      BY <3>1, <2>9, <2>11
  <2> QED
    BY <2>8, <2>11, <2>12, <2>13 DEF a
<1> QED
  BY <1>1, StackInvariance, PTL

\* The code that runs is the one its text stands for: the body of each file at its
\* first use in a text, however deep the imports are, and although imported files
\* extend the search path meanwhile (Compiler::use): for any files and texts.
THEOREM RunsWhatTheTextMeans == Spec => []CodeOfTheText
<1>1. MeaningInv => CodeOfTheText
  <2> SUFFICES ASSUME MeaningInv, NEW k \in DOMAIN active, active[k].kind = "run"
               PROVE  active[k].code = CodeOf(active[k].text)
    BY DEF CodeOfTheText
  <2>1. k \in 1 .. Len(active)
    BY LenProperties DEF MeaningInv, StateOK, StackOK
  <2>2. Means(active[k], k, Reached(active, k, phase = "busy"), search, files)
    BY <2>1 DEF MeaningInv, MeaningOK
  <2> QED
    BY <2>2, CodeOfIn DEF Means
<1> QED
  BY <1>1, StackInvariance, PTL

\* A name that stands for a file stands for the same file ever after
\* (Compiler::compiler_options), for any directories, names and files.
THEOREM FilesStayFound == Spec => FilesStay
<1>1. SearchInv /\ [Next]_vars =>
        [\A n \in Name : Found(n, search) # {} =>
           Found(n, search') # {} /\ Search(n, search') = Search(n, search)]_search
  <2> SUFFICES ASSUME SearchInv, [Next]_vars, search' # search,
                      NEW n \in Name, Found(n, search) # {}
               PROVE  Found(n, search') # {} /\ Search(n, search') = Search(n, search)
    OBVIOUS
  <2>1. PICK S : search \in Seq(S)
    BY DEF SearchInv
  <2>2. PICK d : search' = Append(search, d)
    BY SearchStep DEF vars
  <2> QED
    BY ONLY <2>1, <2>2, ExtendedKeeps, Lookup, Found(n, search) # {}
<1> QED
  BY <1>1, SearchIsSequence, PTL DEF Spec, FilesStay
=============================================================================
