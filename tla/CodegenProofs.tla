--------------------------- MODULE CodegenProofs ---------------------------
(***************************************************************************)
(* Jumps land, loops are left where they should be, and the operand stack  *)
(* is balanced, in code of any length.                                     *)
(***************************************************************************)
EXTENDS Codegen, FiniteSetTheorems, SequenceTheorems, WellFoundedInduction, TLAPS

Functional == {"script", "function", "deferred"}
LoopKind == {"for", "forin", "body"}
Logical == {"and", "or"}
Short == {"JMP", "JNZ", "CHK"}
Exit == {"BREAK", "CONTINUE"}

\* A construct within one of kind k, and how the constructs are nested.
Within(c, k) ==
  /\ c.kind \notin Expression => c.pending = 0
  /\ c.kind \in Logical \cup {"function"} => k \in Expression
  /\ c.kind \in {"deferred", "expression", "return", "for", "forin", "body"} => k \in Block
  /\ c.kind \in {"if", "then", "alt", "alted", "else"} => k \in Block \cup {"alted"}
Nested(o) ==
  \A i \in DOMAIN o : (o[i].kind = "script" <=> i = 1) /\ Within(o[i], o[i - 1].kind)
-----------------------------------------------------------------------------
(* Natural numbers.                                                        *)

\* A set of natural numbers has a least element.
LEMMA Least ==
  ASSUME NEW S \in SUBSET Nat, S # {}
  PROVE  \E m \in S : \A k \in S : m <= k
<1>1. PICK m \in S : \A k \in S : ~ (<<k, m>> \in OpToRel(<, Nat))
  BY WFMin, NatLessThanWellFounded, Zenon
<1>2. \A k \in S : ~ (k < m)
  BY <1>1, Zenon DEF OpToRel
<1>3. m \in Nat /\ \A k \in S : k \in Nat
  OBVIOUS
<1> QED
  BY <1>2, <1>3

\* A set of natural numbers that has a bound has a greatest element.
LEMMA Greatest ==
  ASSUME NEW S \in SUBSET Nat, S # {}, NEW n \in Nat, \A k \in S : k <= n
  PROVE  \E m \in S : \A k \in S : k <= m
<1> DEFINE T == {n - k : k \in S}
<1>0. \A k \in S : k \in Nat /\ k <= n
  OBVIOUS
<1>1. T \in SUBSET Nat /\ T # {}
  <2>1. \A k \in S : n - k \in Nat
    BY <1>0
  <2>2. PICK k \in S : TRUE
    OBVIOUS
  <2>3. n - k \in T
    OBVIOUS
  <2> QED
    BY <2>1, <2>3
<1>2. PICK d \in T : \A k \in T : d <= k
  BY <1>1, Least
<1>3. PICK m \in S : d = n - m
  OBVIOUS
<1>4. \A k \in S : n - m <= n - k
  BY <1>2, <1>3, ZenonT(40)
<1> QED
  BY <1>0, <1>4
-----------------------------------------------------------------------------
(* Instructions and their numbers.                                         *)

LEMMA Opcodes ==
  /\ Len(OpcodeList) = 44 /\ DOMAIN OpcodeList = 1 .. 44
  /\ \A i \in 1 .. 44 : OpcodeList[i][2] \in 0 .. 2
  /\ \A i, j \in 1 .. 44 : OpcodeList[i][1] = OpcodeList[j][1] => i = j
<1>1. Len(OpcodeList) = 44 /\ DOMAIN OpcodeList = 1 .. 44
  BY DEF OpcodeList
<1>2. \A i \in 1 .. 44 : OpcodeList[i][2] \in 0 .. 2
  BY DEF OpcodeList
<1>3. \A i, j \in 1 .. 44 : OpcodeList[i][1] = OpcodeList[j][1] => i = j
  BY SMTT(60) DEF OpcodeList
<1> QED
  BY <1>1, <1>2, <1>3, ZenonT(40)

\* Number and Id are inverse to each other.
LEMMA Numbers ==
  /\ \A w \in 0 .. 43 : /\ Id(w) \in Ids /\ Number[Id(w)] = w
                        /\ DeclaredSize(w) \in 0 .. 2
  /\ \A id \in Ids : Number[id] \in 0 .. 43 /\ Id(Number[id]) = id
<1> DEFINE Index(id) == CHOOSE i \in DOMAIN OpcodeList : OpcodeList[i][1] = id
<1>0. \A id \in Ids : Number[id] = Index(id) - 1
  BY DEF Number
<1>1. ASSUME NEW w \in 0 .. 43
      PROVE  Id(w) \in Ids /\ Number[Id(w)] = w /\ DeclaredSize(w) \in 0 .. 2
  <2>1. w + 1 \in 1 .. 44 /\ w + 1 - 1 = w
    BY SMTT(40)
  <2>2. Id(w) \in Ids
    BY <2>1, Opcodes, SMTT(40) DEF Id, Ids
  <2>3. \A i \in 1 .. 44 : OpcodeList[i][1] = Id(w) <=> i = w + 1
    BY <2>1, Opcodes, SMTT(40) DEF Id
  <2>4. Index(Id(w)) = w + 1
    BY <2>1, <2>3, Opcodes, SMTT(40)
  <2>5. Number[Id(w)] = w
    <3> HIDE DEF Index
    <3> QED
      BY <1>0, <2>1, <2>2, <2>4
  <2>6. DeclaredSize(w) \in 0 .. 2
    BY <2>1, Opcodes, SMTT(40) DEF DeclaredSize
  <2> QED
    BY <2>2, <2>5, <2>6
<1>2. ASSUME NEW id \in Ids
      PROVE  Number[id] \in 0 .. 43 /\ Id(Number[id]) = id
  <2>1. PICK i \in 1 .. 44 : id = OpcodeList[i][1]
    BY Opcodes, ZenonT(40) DEF Ids
  <2>2. i - 1 \in 0 .. 43 /\ i - 1 + 1 = i
    BY <2>1
  <2>3. Id(i - 1) = id
    BY <2>1, <2>2 DEF Id
  <2> QED
    BY <1>1, <2>2, <2>3
<1> QED
  BY <1>1, <1>2

Plain == {"CONST_", "CONST_INT", "CONST_NULL", "LOAD", "STORE", "ADD", "NOT", "AND", "OR",
          "CALL", "INDEX", "SET", "POP", "RET", "DEFER", "SIZE", "GT", "CLOSURE", "HLT",
          "PACK", "MAP"}

LEMMA InstructionSizes ==
  /\ Plain \cup Short \cup Exit \subseteq Ids
  /\ \A id \in {"CONST_NULL", "ADD", "NOT", "AND", "OR", "SET", "POP", "RET", "DEFER", "SIZE",
                "GT", "HLT"} : Reads(id) = 0
  /\ \A id \in {"CONST_", "CONST_INT", "CALL", "INDEX", "PACK", "MAP", "JMP", "JNZ",
                "BREAK", "CONTINUE"} : Reads(id) = 1
  /\ \A id \in {"LOAD", "STORE", "CLOSURE", "CHK"} : Reads(id) = 2
  /\ \A id \in Ids : Reads(id) \in 0 .. 2
<1> DEFINE entry(i, id, k) == OpcodeList[i][1] = id /\ OpcodeList[i][2] = k
<1>1. /\ entry(1, "CONST_", 1) /\ entry(2, "CONST_INT", 1) /\ entry(5, "CONST_NULL", 0)
      /\ entry(6, "LOAD", 2) /\ entry(7, "STORE", 2) /\ entry(8, "ADD", 0)
      /\ entry(13, "NOT", 0) /\ entry(19, "GT", 0) /\ entry(21, "AND", 0)
      /\ entry(22, "OR", 0) /\ entry(28, "BREAK", 1) /\ entry(29, "CONTINUE", 1)
      /\ entry(30, "CLOSURE", 2) /\ entry(31, "CALL", 1) /\ entry(32, "PACK", 0)
      /\ entry(33, "MAP", 0) /\ entry(34, "INDEX", 1) /\ entry(35, "SET", 0)
      /\ entry(36, "POP", 0) /\ entry(37, "RET", 0) /\ entry(38, "JNZ", 1)
      /\ entry(39, "JMP", 1) /\ entry(40, "CHK", 1) /\ entry(41, "DEFER", 0)
      /\ entry(42, "SIZE", 0) /\ entry(44, "HLT", 0)
  BY DEF OpcodeList
<1>2. ASSUME NEW i \in 1 .. 44, NEW id, NEW k, entry(i, id, k)
      PROVE  id \in Ids /\ Number[id] = i - 1 /\ DeclaredSize(Number[id]) = k
  <2>1. i - 1 \in 0 .. 43 /\ i - 1 + 1 = i /\ Id(i - 1) = id
    BY <1>2 DEF Id
  <2>2. id \in Ids /\ Number[id] = i - 1
    BY <2>1, Numbers
  <2> QED
    BY <1>2, <2>1, <2>2 DEF DeclaredSize
<1>3. \A id \in {"CONST_NULL", "ADD", "NOT", "AND", "OR", "SET", "POP", "RET", "DEFER", "SIZE",
                 "GT", "HLT", "PACK", "MAP"} : id \in Ids /\ DeclaredSize(Number[id]) = 0
  BY <1>1, <1>2
<1>4. \A id \in {"CONST_", "CONST_INT", "CALL", "INDEX", "JMP", "JNZ", "CHK",
                 "BREAK", "CONTINUE"} : id \in Ids /\ DeclaredSize(Number[id]) = 1
  BY <1>1, <1>2
<1>5. \A id \in {"LOAD", "STORE", "CLOSURE"} : id \in Ids /\ DeclaredSize(Number[id]) = 2
  BY <1>1, <1>2
<1> HIDE DEF entry
<1>6. Plain \cup Short \cup Exit \subseteq Ids
  BY <1>3, <1>4, <1>5 DEF Plain, Short, Exit
<1>7. \A id \in Ids : DeclaredSize(Number[id]) \in 0 .. 2
  BY Numbers
<1> QED
  BY <1>3, <1>4, <1>5, <1>6, <1>7 DEF Reads
-----------------------------------------------------------------------------
(* Emission.                                                               *)

Instruction(id, w) == id \in Ids /\ w \in Seq(Nat) /\ Len(w) = Reads(id)

\* What an instruction takes and leaves are numbers of operands.
LEMMA TakesNat ==
  ASSUME NEW id, NEW w, Instruction(id, w)
  PROVE  Takes(id, w) \in Nat /\ Gives(id) \in {0, 1}
<1>1. id \in {"INDEX", "CALL", "PACK", "MAP"} => w[1] \in Nat
  BY InstructionSizes DEF Instruction
<1>2. id = "CLOSURE" => w[2] \in Nat
  BY InstructionSizes DEF Instruction
<1>3. Gives(id) \in {0, 1}
  BY DEF Gives
<1>4. CASE id \in {"INDEX", "CALL", "PACK", "MAP"}
  BY <1>1, <1>3, <1>4 DEF Takes
<1>5. CASE id = "CLOSURE"
  BY <1>2, <1>3, <1>5 DEF Takes
<1>6. CASE id \notin {"INDEX", "CALL", "PACK", "MAP", "CLOSURE"}
  BY <1>3, <1>6 DEF Takes
<1> QED
  BY <1>4, <1>5, <1>6

\* The unit with one more instruction.
Put(u, id, w) ==
  [u EXCEPT !.code = @ \o <<Number[id]>> \o w,
            !.last = Number[id],
            !.sites = Append(@, [pos |-> Len(u.code), height |-> u.height]),
            !.height = @ - Takes(id, w) + Gives(id)]

LEMMA EmittedPut ==
  ASSUME NEW u, NEW id, NEW a, NEW b
  PROVE  /\ Emitted(u, <<id>>) = Put(u, id, <<>>)
         /\ Emitted(u, <<id, a>>) = Put(u, id, <<a>>)
         /\ Emitted(u, <<id, a, b>>) = Put(u, id, <<a, b>>)
<1>1. Head(<<id>>) = id /\ Tail(<<id>>) = <<>>
  OBVIOUS
<1>2. Head(<<id, a>>) = id /\ Tail(<<id, a>>) = <<a>>
  OBVIOUS
<1>3. Head(<<id, a, b>>) = id /\ Tail(<<id, a, b>>) = <<a, b>>
  OBVIOUS
<1>4. Emitted(u, <<id>>) = Put(u, id, <<>>)
  BY <1>1, Zenon DEF Emitted, Put
<1>5. Emitted(u, <<id, a>>) = Put(u, id, <<a>>)
  BY <1>2, Zenon DEF Emitted, Put
<1>6. Emitted(u, <<id, a, b>>) = Put(u, id, <<a, b>>)
  BY <1>3, Zenon DEF Emitted, Put
<1> QED
  BY <1>4, <1>5, <1>6

\* What v has more than u.
Extends(u, id, w, v) ==
  /\ v \in Unit
  /\ Size(v) = Size(u) + 1 + Reads(id)
  /\ \A i \in 0 .. Size(u) - 1 : At(v.code, i) = At(u.code, i)
  /\ At(v.code, Size(u)) = Number[id]
  /\ \A j \in 1 .. Reads(id) : At(v.code, Size(u) + j) = w[j]
  /\ v.sites = Append(u.sites, [pos |-> Size(u), height |-> u.height])
  /\ Range(v.sites) = Range(u.sites) \cup {[pos |-> Size(u), height |-> u.height]}
  /\ Starts(v) = Starts(u) \cup {Size(u)}
  /\ v.last = Number[id]
  /\ v.height = u.height - Takes(id, w) + Gives(id)
  /\ v.goals = u.goals /\ v.chained = u.chained

LEMMA UnitFacts ==
  ASSUME NEW u \in Unit
  PROVE  /\ u.code \in Seq(Nat) /\ u.last \in Nat /\ u.sites \in Seq(Site) /\ u.height \in Int
         /\ u.goals \in SUBSET [at : Nat, target : Nat] /\ u.chained \in BOOLEAN
         /\ Size(u) \in Nat /\ Len(u.sites) \in Nat
         /\ \A i \in 0 .. Size(u) - 1 : At(u.code, i) \in Nat
         /\ \A s \in Range(u.sites) : s \in Site /\ s.pos \in Nat /\ s.height \in Int
         /\ Starts(u) \subseteq Nat
<1>1. /\ u.code \in Seq(Nat) /\ u.last \in Nat /\ u.sites \in Seq(Site) /\ u.height \in Int
      /\ u.goals \in SUBSET [at : Nat, target : Nat] /\ u.chained \in BOOLEAN
  BY DEF Unit
<1>2. Size(u) \in Nat /\ Len(u.sites) \in Nat
  BY <1>1 DEF Size
<1>3. \A i \in 0 .. Size(u) - 1 : At(u.code, i) \in Nat
  BY <1>1 DEF Size, At
<1>4. \A s \in Range(u.sites) : s \in Site
  BY <1>1 DEF Range
<1>5. \A s \in Range(u.sites) : s.pos \in Nat /\ s.height \in Int
  BY <1>4 DEF Site
<1> QED
  BY <1>1, <1>2, <1>3, <1>4, <1>5 DEF Starts

LEMMA PutExtends ==
  ASSUME NEW u \in Unit, NEW id, NEW w, Instruction(id, w)
  PROVE  Extends(u, id, w, Put(u, id, w))
<1> DEFINE c == u.code \o <<Number[id]>> \o w
           site == [pos |-> Len(u.code), height |-> u.height]
           s == Append(u.sites, site)
           h == u.height - Takes(id, w) + Gives(id)
           v == Put(u, id, w)
<1> HIDE DEF c, site, s, h, v
<1>1. /\ u.code \in Seq(Nat) /\ Len(u.code) \in Nat /\ u.sites \in Seq(Site)
      /\ u.height \in Int /\ Size(u) = Len(u.code)
  BY UnitFacts DEF Size
<1>2. Number[id] \in Nat /\ w \in Seq(Nat) /\ Len(w) = Reads(id) /\ Reads(id) \in Nat
  <2>1. id \in Ids /\ w \in Seq(Nat) /\ Len(w) = Reads(id)
    BY DEF Instruction
  <2>2. Number[id] \in 0 .. 43
    BY <2>1, Numbers
  <2>3. Number[id] \in Nat
    BY <2>2
  <2>4. Len(w) \in Nat
    BY <2>1
  <2> QED
    BY <2>1, <2>3, <2>4, Zenon
<1>3. h \in Int
  BY <1>1, TakesNat DEF h
<1>4. site \in Site
  BY <1>1 DEF Site, site
<1>5. /\ c \in Seq(Nat) /\ Len(c) = Len(u.code) + 1 + Reads(id)
      /\ \A i \in 1 .. Len(u.code) : c[i] = u.code[i]
      /\ c[Len(u.code) + 1] = Number[id]
      /\ \A j \in 1 .. Reads(id) : c[Len(u.code) + 1 + j] = w[j]
  <2> DEFINE e == u.code \o <<Number[id]>>
  <2>1. /\ e \in Seq(Nat) /\ Len(e) = Len(u.code) + 1
        /\ \A i \in 1 .. Len(u.code) : e[i] = u.code[i]
        /\ e[Len(u.code) + 1] = Number[id]
    BY <1>1, <1>2
  <2> HIDE DEF e
  <2>2. /\ e \o w \in Seq(Nat) /\ Len(e \o w) = Len(e) + Len(w)
        /\ \A i \in 1 .. Len(e) : (e \o w)[i] = e[i]
        /\ \A j \in 1 .. Len(w) : (e \o w)[Len(e) + j] = w[j]
    <3>1. \A i \in 1 .. Len(e) + Len(w) :
            (e \o w)[i] = IF i <= Len(e) THEN e[i] ELSE w[i - Len(e)]
      BY <1>2, <2>1, ConcatProperties
    <3>2. e \o w \in Seq(Nat) /\ Len(e \o w) = Len(e) + Len(w)
      BY <1>2, <2>1, ConcatProperties
    <3>3. Len(e) \in Nat /\ Len(w) \in Nat
      BY <1>2, <2>1
    <3>4. \A i \in 1 .. Len(e) : (e \o w)[i] = e[i]
      BY <3>1, <3>3
    <3>5. ASSUME NEW j \in 1 .. Len(w) PROVE (e \o w)[Len(e) + j] = w[j]
      <4>1. Len(e) + j \in 1 .. Len(e) + Len(w) /\ ~ (Len(e) + j <= Len(e))
            /\ Len(e) + j - Len(e) = j
        BY <3>3
      <4> QED
        BY <3>1, <4>1
    <3> QED
      BY <3>2, <3>4, <3>5
  <2>3. c = e \o w
    BY DEF c, e
  <2>4. \A i \in 1 .. Len(u.code) : i \in 1 .. Len(e)
    BY <1>1, <2>1
  <2>5. Len(u.code) + 1 \in 1 .. Len(e)
    BY <1>1, <2>1
  <2> QED
    BY <1>2, <2>1, <2>2, <2>3, <2>4, <2>5
<1>6. s \in Seq(Site) /\ Range(s) = Range(u.sites) \cup {site}
  <2>1. s \in Seq(Site) /\ Len(s) = Len(u.sites) + 1 /\ Len(u.sites) \in Nat
    BY <1>1, <1>4 DEF s
  <2>2. \A i \in 1 .. Len(u.sites) : s[i] = u.sites[i]
    BY <1>1, <1>4 DEF s
  <2>3. s[Len(u.sites) + 1] = site
    BY <1>1, <1>4 DEF s
  <2>4. DOMAIN s = 1 .. Len(u.sites) + 1 /\ DOMAIN u.sites = 1 .. Len(u.sites)
    BY <1>1, <2>1
  <2> QED
    BY <2>1, <2>2, <2>3, <2>4 DEF Range
<1>7. v = [u EXCEPT !.code = c, !.last = Number[id], !.sites = s, !.height = h]
  BY Zenon DEF v, Put, c, s, h, site
<1>8. /\ v.code = c /\ v.last = Number[id] /\ v.sites = s /\ v.height = h
      /\ v.goals = u.goals /\ v.chained = u.chained /\ v \in Unit
  BY <1>2, <1>3, <1>5, <1>6, <1>7 DEF Unit
<1>9. Size(v) = Size(u) + 1 + Reads(id)
  BY <1>1, <1>5, <1>8 DEF Size
<1>10. \A i \in 0 .. Size(u) - 1 : At(v.code, i) = At(u.code, i)
  BY <1>1, <1>5, <1>8 DEF At
<1>11. At(v.code, Size(u)) = Number[id]
  BY <1>1, <1>5, <1>8, Zenon DEF At
<1>12. \A j \in 1 .. Reads(id) : At(v.code, Size(u) + j) = w[j]
  <2> TAKE j \in 1 .. Reads(id)
  <2>1. Size(u) + j + 1 = Len(u.code) + 1 + j
    BY <1>1, <1>2
  <2> QED
    BY <1>5, <1>8, <2>1 DEF At
<1>13. Starts(v) = Starts(u) \cup {Size(u)}
  <2>1. site.pos = Size(u)
    BY <1>1 DEF site
  <2> QED
    BY <1>6, <1>8, <2>1 DEF Starts
<1>14. site = [pos |-> Size(u), height |-> u.height]
  BY <1>1 DEF site
<1>15. v.sites = Append(u.sites, [pos |-> Size(u), height |-> u.height])
  BY <1>8, <1>14 DEF s
<1>16. Range(v.sites) = Range(u.sites) \cup {[pos |-> Size(u), height |-> u.height]}
  BY <1>6, <1>8, <1>14
<1>17. v.height = u.height - Takes(id, w) + Gives(id)
  BY <1>8 DEF h
<1> QED
  BY <1>8, <1>9, <1>10, <1>11, <1>12, <1>13, <1>15, <1>16, <1>17 DEF Extends, v

\* A list of instructions is emitted one by one.
LEMMA EmittedSteps ==
  ASSUME NEW u, NEW S, NEW is \in Seq(S)
  PROVE  \E f : /\ f[0] = u
                /\ \A i \in 1 .. Len(is) : f[i] = Emitted(f[i - 1], is[i])
                /\ EmittedAll(u, is) = f[Len(is)]
<1> DEFINE n == Len(is)
           Step1(it, s) == IF s = {} THEN u ELSE Emitted(it[s \ {Max(s)}], is[Max(s)])
           Unrolled(it, k) == it = [s \in SUBSET (1 .. k) |-> Step1(it, s)]
           bad == {k \in 0 .. n : ~ \E it : Unrolled(it, k)}
<1>1. n \in Nat /\ DOMAIN is = 1 .. n
  OBVIOUS
<1> HIDE DEF n
<1>2. ASSUME NEW k \in Nat, NEW s \in SUBSET (1 .. k + 1), k + 1 \in s
      PROVE  Max(s) = k + 1
  <2>1. \A x \in s : x \in Int /\ x <= k + 1
    OBVIOUS
  <2>2. k + 1 \in s /\ \A y \in s : k + 1 >= y
    BY <1>2, <2>1
  <2>3. \A x \in s : (\A y \in s : x >= y) => x = k + 1
    BY <2>1, <2>2
  <2> QED
    BY <2>2, <2>3 DEF Max
<1>3. \E it : Unrolled(it, 0)
  <2> DEFINE it == [s \in SUBSET (1 .. 0) |-> u]
  <2>1. SUBSET (1 .. 0) = {{}}
    OBVIOUS
  <2>2. \A s \in SUBSET (1 .. 0) : Step1(it, s) = u
    BY <2>1
  <2>3. Unrolled(it, 0)
    BY <2>2
  <2> QED
    BY <2>3
<1>4. ASSUME NEW k \in Nat, NEW it, Unrolled(it, k)
      PROVE  \E more : Unrolled(more, k + 1)
  <2> DEFINE more == [s \in SUBSET (1 .. k + 1) |->
                       IF k + 1 \in s THEN Emitted(it[s \ {k + 1}], is[k + 1]) ELSE it[s]]
  <2>1. \A s \in SUBSET (1 .. k + 1) : k + 1 \notin s => s \in SUBSET (1 .. k)
    OBVIOUS
  <2>2. \A s \in SUBSET (1 .. k) : s \in SUBSET (1 .. k + 1) /\ k + 1 \notin s
    OBVIOUS
  <2>3. \A s \in SUBSET (1 .. k) : more[s] = it[s]
    BY <2>2
  <2>4. \A s \in SUBSET (1 .. k) : it[s] = Step1(it, s)
    BY <1>4
  <2>5. \A s \in SUBSET (1 .. k + 1) : k + 1 \in s => more[s] = Emitted(it[s \ {k + 1}], is[k + 1])
    OBVIOUS
  <2>6. more = [s \in SUBSET (1 .. k + 1) |-> more[s]]
    OBVIOUS
  <2> HIDE DEF more
  <2>7. ASSUME NEW s \in SUBSET (1 .. k + 1)
        PROVE  more[s] = Step1(more, s)
    <3>1. CASE k + 1 \in s
      <4>1. s # {} /\ Max(s) = k + 1
        BY <1>2, <3>1
      <4>2. s \ {k + 1} \in SUBSET (1 .. k)
        BY <2>1
      <4> QED
        BY <2>3, <2>5, <3>1, <4>1, <4>2
    <3>2. CASE k + 1 \notin s /\ s # {}
      <4>1. s \in SUBSET (1 .. k) /\ s \ {Max(s)} \in SUBSET (1 .. k)
        BY <2>1, <3>2
      <4> QED
        BY <2>3, <2>4, <3>2, <4>1
    <3>3. CASE s = {}
      <4>1. s \in SUBSET (1 .. k)
        BY <3>3
      <4> QED
        BY <2>3, <2>4, <3>3, <4>1
    <3> QED
      BY <3>1, <3>2, <3>3
  <2>8. more = [s \in SUBSET (1 .. k + 1) |-> Step1(more, s)]
    BY <2>6, <2>7
  <2> QED
    BY <2>8
<1> HIDE DEF Unrolled
<1>5. bad = {}
  <2> SUFFICES ASSUME bad # {} PROVE FALSE
    OBVIOUS
  <2>1. bad \in SUBSET Nat
    BY <1>1
  <2>2. PICK k \in bad : \A j \in bad : k <= j
    BY <2>1, Least
  <2>3. k \in Nat /\ k # 0 /\ k <= n /\ k - 1 \in 0 .. n /\ k - 1 \in Nat /\ k - 1 + 1 = k
    BY <1>1, <1>3, <2>2
  <2>4. k - 1 \notin bad
    BY <2>1, <2>2, <2>3
  <2>5. PICK it : Unrolled(it, k - 1)
    BY <2>3, <2>4
  <2>6. \E more : Unrolled(more, k - 1 + 1)
    BY <1>4, <2>3, <2>5
  <2> QED
    BY <2>2, <2>3, <2>6
<1>6. n \in 0 .. n
  BY <1>1
<1> DEFINE g == CHOOSE it : Unrolled(it, n)
<1>7. Unrolled(g, n)
  BY <1>5, <1>6
<1>8. EmittedAll(u, is) = g[1 .. n]
  BY <1>1 DEF EmittedAll, FoldLeft, MapThenFoldSet, Unrolled
<1> HIDE DEF g
<1> DEFINE f == [i \in 0 .. n |-> g[1 .. i]]
<1>9. \A i \in 0 .. n : (1 .. i) \in SUBSET (1 .. n) /\ f[i] = g[1 .. i]
  BY <1>1
<1>10. \A s \in SUBSET (1 .. n) : g[s] = Step1(g, s)
  BY <1>7 DEF Unrolled
<1>11. f[0] = u
  BY <1>1, <1>9, <1>10
<1>12. ASSUME NEW i \in 1 .. n PROVE f[i] = Emitted(f[i - 1], is[i])
  <2>1. i - 1 \in Nat /\ i - 1 \in 0 .. n /\ i \in 0 .. n /\ i - 1 + 1 = i
    BY <1>1
  <2>2. (1 .. i) \in SUBSET (1 .. i - 1 + 1) /\ i - 1 + 1 \in 1 .. i /\ (1 .. i) # {}
    BY <2>1
  <2>3. Max(1 .. i) = i
    BY <1>2, <2>1, <2>2
  <2>4. (1 .. i) \ {i} = 1 .. i - 1
    BY <2>1
  <2>5. g[1 .. i] = Emitted(g[1 .. i - 1], is[i])
    BY <1>9, <1>10, <2>1, <2>2, <2>3, <2>4
  <2> QED
    BY <1>9, <2>1, <2>5
<1> HIDE DEF f
<1>13. EmittedAll(u, is) = f[n]
  BY <1>6, <1>8, <1>9
<1>14. /\ f[0] = u
       /\ \A i \in 1 .. n : f[i] = Emitted(f[i - 1], is[i])
       /\ EmittedAll(u, is) = f[n]
  BY <1>11, <1>12, <1>13
<1> QED
  BY <1>14 DEF n

LEMMA EmittedFew ==
  ASSUME NEW u, NEW S, NEW is \in Seq(S)
  PROVE  /\ Len(is) = 0 => EmittedAll(u, is) = u
         /\ Len(is) = 1 => EmittedAll(u, is) = Emitted(u, is[1])
         /\ Len(is) = 2 => EmittedAll(u, is) = Emitted(Emitted(u, is[1]), is[2])
         /\ Len(is) = 3 => EmittedAll(u, is) = Emitted(Emitted(Emitted(u, is[1]), is[2]), is[3])
<1>1. PICK f : /\ f[0] = u
               /\ \A i \in 1 .. Len(is) : f[i] = Emitted(f[i - 1], is[i])
               /\ EmittedAll(u, is) = f[Len(is)]
  BY EmittedSteps
<1>2. Len(is) >= 1 => f[1] = Emitted(u, is[1])
  BY <1>1
<1>3. Len(is) >= 2 => f[2] = Emitted(f[1], is[2])
  BY <1>1
<1>4. Len(is) >= 3 => f[3] = Emitted(f[2], is[3])
  BY <1>1
<1> QED
  BY <1>1, <1>2, <1>3, <1>4
-----------------------------------------------------------------------------
(* Types.                                                                  *)

\* The last instruction of a unit can be taken off.
Ended(u) == u.last = Number["POP"] => u.sites # <<>>

Formed(i) == \E id, w : Instruction(id, w) /\ \A u \in Unit : Emitted(u, i) = Put(u, id, w)

LEMMA Instructions ==
  /\ \A id \in {"CONST_NULL", "ADD", "NOT", "AND", "OR", "SET", "POP", "RET", "DEFER", "SIZE",
                "GT", "HLT"} : Instruction(id, <<>>) /\ Formed(<<id>>)
  /\ \A id \in {"CONST_", "CONST_INT", "CALL", "INDEX", "PACK", "MAP", "JMP", "JNZ",
                "BREAK", "CONTINUE"} :
       \A a \in Nat : Instruction(id, <<a>>) /\ Formed(<<id, a>>)
  /\ \A id \in {"LOAD", "STORE", "CLOSURE", "CHK"} :
       \A a, b \in Nat : Instruction(id, <<a, b>>) /\ Formed(<<id, a, b>>)
<1>1. ASSUME NEW id \in {"CONST_NULL", "ADD", "NOT", "AND", "OR", "SET", "POP", "RET", "DEFER",
                         "SIZE", "GT", "HLT"}
      PROVE  Instruction(id, <<>>) /\ Formed(<<id>>)
  <2>1. id \in Ids /\ Reads(id) = 0
    BY InstructionSizes DEF Plain
  <2>2. Instruction(id, <<>>)
    BY <2>1 DEF Instruction
  <2>3. \A u \in Unit : Emitted(u, <<id>>) = Put(u, id, <<>>)
    BY EmittedPut
  <2>4. Formed(<<id>>)
    BY <2>2, <2>3, Zenon DEF Formed
  <2> QED
    BY <2>2, <2>4
<1>2. ASSUME NEW id \in {"CONST_", "CONST_INT", "CALL", "INDEX", "PACK", "MAP", "JMP", "JNZ",
                         "BREAK", "CONTINUE"}, NEW a \in Nat
      PROVE  Instruction(id, <<a>>) /\ Formed(<<id, a>>)
  <2>1. id \in Ids /\ Reads(id) = 1
    BY InstructionSizes DEF Plain, Short, Exit
  <2>2. Instruction(id, <<a>>)
    BY <2>1 DEF Instruction
  <2>3. \A u \in Unit : Emitted(u, <<id, a>>) = Put(u, id, <<a>>)
    BY EmittedPut
  <2>4. Formed(<<id, a>>)
    BY <2>2, <2>3, Zenon DEF Formed
  <2> QED
    BY <2>2, <2>4
<1>3. ASSUME NEW id \in {"LOAD", "STORE", "CLOSURE", "CHK"}, NEW a \in Nat, NEW b \in Nat
      PROVE  Instruction(id, <<a, b>>) /\ Formed(<<id, a, b>>)
  <2>1. id \in Ids /\ Reads(id) = 2
    BY InstructionSizes DEF Plain, Short
  <2>2. Instruction(id, <<a, b>>)
    BY <2>1 DEF Instruction
  <2>3. \A u \in Unit : Emitted(u, <<id, a, b>>) = Put(u, id, <<a, b>>)
    BY EmittedPut
  <2>4. Formed(<<id, a, b>>)
    BY <2>2, <2>3, Zenon DEF Formed
  <2> QED
    BY <2>2, <2>4
<1> QED
  BY <1>1, <1>2, <1>3

\* Instructions keep a unit a unit.
LEMMA FormedUnit ==
  ASSUME NEW u \in Unit, NEW i, Formed(i)
  PROVE  Emitted(u, i) \in Unit /\ Ended(Emitted(u, i))
<1>1. PICK id, w : Instruction(id, w) /\ Emitted(u, i) = Put(u, id, w)
  BY DEF Formed
<1>2. Extends(u, id, w, Emitted(u, i))
  BY <1>1, PutExtends
<1>3. u.sites \in Seq(Site)
  BY UnitFacts
<1> DEFINE v == Emitted(u, i)
           s == [pos |-> Size(u), height |-> u.height]
<1> HIDE DEF v, s
<1>4. v \in Unit /\ v.sites = Append(u.sites, s)
  BY <1>2 DEF Extends, v, s
<1>5. v.sites # <<>>
  BY <1>3, <1>4
<1> QED
  BY <1>4, <1>5 DEF Ended, v

LEMMA FormedUnits ==
  ASSUME NEW u \in Unit, Ended(u), NEW S, NEW is \in Seq(S), \A s \in S : Formed(s)
  PROVE  EmittedAll(u, is) \in Unit /\ Ended(EmittedAll(u, is))
<1>1. PICK f : /\ f[0] = u
               /\ \A i \in 1 .. Len(is) : f[i] = Emitted(f[i - 1], is[i])
               /\ EmittedAll(u, is) = f[Len(is)]
  BY EmittedSteps
<1> DEFINE n == Len(is)
           good(v) == v \in Unit /\ Ended(v)
           bad == {i \in 0 .. n : ~good(f[i])}
<1>2. n \in Nat /\ \A i \in 1 .. n : is[i] \in S
  OBVIOUS
<1>3. \A v \in Unit : \A s \in S : good(Emitted(v, s))
  BY FormedUnit
<1> HIDE DEF n
<1>4. bad = {}
  <2> SUFFICES ASSUME bad # {} PROVE FALSE
    OBVIOUS
  <2>1. bad \in SUBSET Nat
    BY <1>2
  <2>2. PICK k \in bad : \A j \in bad : k <= j
    BY <2>1, Least
  <2>3. k \in Nat /\ k # 0 /\ k \in 1 .. n /\ k - 1 \in 0 .. n
    BY <1>1, <1>2, <2>2
  <2>4. good(f[k - 1])
    BY <2>2, <2>3
  <2>5. f[k] = Emitted(f[k - 1], is[k]) /\ is[k] \in S
    BY <1>1, <1>2, <2>3 DEF n
  <2> QED
    BY <1>3, <2>2, <2>4, <2>5
<1>5. good(f[n])
  BY <1>2, <1>4
<1> QED
  BY <1>1, <1>5 DEF n

\* Words are patched by numbers.
LEMMA PatchedUnit ==
  ASSUME NEW u \in Unit, Ended(u), NEW i \in Nat, NEW w \in Nat
  PROVE  Patched(u, i, w) \in Unit /\ Ended(Patched(u, i, w))
<1> DEFINE c == [u.code EXCEPT ![i + 1] = w]
<1>1. u.code \in Seq(Nat)
  BY UnitFacts
<1>2. c \in Seq(Nat)
  <2>1. CASE i + 1 \in 1 .. Len(u.code)
    BY <1>1, <2>1, ExceptSeq
  <2>2. CASE i + 1 \notin 1 .. Len(u.code)
    <3>1. DOMAIN u.code = 1 .. Len(u.code)
      BY <1>1
    <3>2. c = u.code
      BY <2>2, <3>1, <1>1
    <3> QED
      BY <1>1, <3>2
  <2> QED
    BY <2>1, <2>2
<1> HIDE DEF c
<1>3. Patched(u, i, w) = [u EXCEPT !.code = c]
  BY DEF Patched, c, Unit
<1>4. Patched(u, i, w) \in Unit
  BY <1>2, <1>3 DEF Unit
<1>5. Patched(u, i, w).last = u.last /\ Patched(u, i, w).sites = u.sites
  BY <1>3 DEF Unit
<1> QED
  BY <1>4, <1>5 DEF Ended

LEMMA ScanUnit ==
  ASSUME NEW u \in Unit, Ended(u), NEW seen, NEW to, NEW pos \in Nat
  PROVE  /\ [u EXCEPT !.code = Scan(u.code, seen, to, pos)] \in Unit
         /\ Ended([u EXCEPT !.code = Scan(u.code, seen, to, pos)])
<1> DEFINE c == Scan(u.code, seen, to, pos)
<1>1. u.code \in Seq(Nat) /\ Len(u.code) \in Nat
  BY UnitFacts
<1>2. c \in [1 .. Len(u.code) -> Nat]
  BY <1>1 DEF Scan
<1> HIDE DEF c
<1>3. c \in Seq(Nat)
  <2>1. \A n \in Nat : \A d \in [1 .. n -> Nat] : d \in Seq(Nat)
    BY SeqDef, Zenon
  <2> QED
    BY <1>1, <1>2, <2>1, Zenon
<1>4. [u EXCEPT !.code = c] \in Unit
  BY <1>3 DEF Unit
<1>5. [u EXCEPT !.code = c].last = u.last /\ [u EXCEPT !.code = c].sites = u.sites
  BY DEF Unit
<1> QED
  BY <1>4, <1>5 DEF Ended, c

\* A unit that is completed.
LEMMA CompletedUnit ==
  ASSUME NEW u \in Unit, Ended(u)
  PROVE  Completed(u) \in Unit /\ Ended(Completed(u))
<1>1. Formed(<<"RET">>) /\ Formed(<<"CONST_NULL">>)
  BY Instructions
<1>0. Number["POP"] # Number["RET"]
  <2>1. {"POP", "RET"} \subseteq Ids
    BY InstructionSizes DEF Plain
  <2>2. Id(Number["POP"]) = "POP" /\ Id(Number["RET"]) = "RET"
    BY <2>1, Numbers
  <2> QED
    BY <2>2
<1>2. CASE u.last = Number["POP"]
  <2> DEFINE n == Len(u.sites)
             c == Front(u.code)
             s == Front(u.sites)
             h == u.sites[n].height
  <2>1. u.sites \in Seq(Site) /\ u.sites # <<>> /\ u.code \in Seq(Nat)
    BY <1>2, UnitFacts DEF Ended
  <2>2. u.sites[n] \in Site
    BY <2>1
  <2>3. h \in Int
    BY <2>2 DEF Site
  <2>4. s \in Seq(Site)
    BY <2>1 DEF Front
  <2>5. c \in Seq(Nat)
    BY <2>1 DEF Front
  <2> HIDE DEF c, s, h
  <2>6. PopBack(u) = [u EXCEPT !.code = c, !.sites = s, !.height = h]
    BY DEF PopBack, c, s, h, Unit
  <2>7. PopBack(u) \in Unit
    BY <2>3, <2>4, <2>5, <2>6 DEF Unit
  <2>8. Completed(u) = Emitted(PopBack(u), <<"RET">>)
    BY <1>0, <1>2 DEF Completed
  <2> QED
    BY <1>1, <2>7, <2>8, FormedUnit
<1>3. CASE u.last # Number["POP"] /\ u.last = Number["RET"]
  BY <1>3 DEF Completed
<1>4. CASE u.last # Number["POP"] /\ u.last # Number["RET"]
  <2>1. Completed(u) = EmittedAll(u, << <<"CONST_NULL">>, <<"RET">> >>)
    BY <1>4 DEF Completed
  <2> DEFINE null == <<"CONST_NULL">>
             ret == <<"RET">>
  <2>2. Formed(null) /\ Formed(ret) /\ Completed(u) = EmittedAll(u, <<null, ret>>)
    BY <1>1, <2>1
  <2> HIDE DEF null, ret
  <2> DEFINE is == <<null, ret>>
             S == {null, ret}
  <2>3. is \in Seq(S) /\ Completed(u) = EmittedAll(u, is) /\ \A s \in S : Formed(s)
    BY <2>2
  <2> HIDE DEF is, S
  <2> QED
    BY <2>3, FormedUnits
<1> QED
  BY <1>2, <1>3, <1>4
-----------------------------------------------------------------------------
(* The procedures on the native stack.                                     *)

Functions(o) == {i \in DOMAIN o : o[i].kind \in Functional}

LEMMA FunctionsFinite ==
  ASSUME NEW o \in Seq(Construct)
  PROVE  IsFiniteSet(Functions(o)) /\ Functions(o) \subseteq 1 .. Len(o) /\ Len(o) \in Nat
<1>1. DOMAIN o = 1 .. Len(o) /\ Len(o) \in Nat
  OBVIOUS
<1>2. Functions(o) \subseteq 1 .. Len(o)
  BY <1>1 DEF Functions
<1>3. IsFiniteSet(1 .. Len(o))
  BY <1>1, FS_Interval
<1> QED
  BY <1>1, <1>2, <1>3, FS_Subset

\* One more construct within the last.
LEMMA Pushed ==
  ASSUME NEW o \in Seq(Construct), Nested(o), o # <<>>, NEW c \in Construct,
         c.kind # "script", Within(c, o[Len(o)].kind)
  PROVE  /\ Append(o, c) \in Seq(Construct) /\ Nested(Append(o, c))
         /\ c.kind \notin Functional => Functions(Append(o, c)) = Functions(o)
         /\ c.kind \in Functional =>
              Cardinality(Functions(Append(o, c))) = Cardinality(Functions(o)) + 1
<1> DEFINE n == Len(o)
           p == Append(o, c)
<1>1. n \in Nat /\ n # 0 /\ DOMAIN o = 1 .. n
  OBVIOUS
<1>2. /\ p \in Seq(Construct) /\ DOMAIN p = 1 .. n + 1
      /\ \A i \in 1 .. n : p[i] = o[i]
      /\ p[n + 1] = c
  OBVIOUS
<1> HIDE DEF n, p
<1>3. ASSUME NEW i \in DOMAIN p
      PROVE  (p[i].kind = "script" <=> i = 1) /\ Within(p[i], p[i - 1].kind)
  <2>1. CASE i \in 2 .. n
    <3>1. i - 1 \in 1 .. n /\ i \in 1 .. n
      BY <1>1, <2>1
    <3> QED
      BY <1>1, <1>2, <3>1 DEF Nested
  <2>2. CASE i = 1
    <3>1. 1 \in 1 .. n
      BY <1>1
    <3>2. p[1] = o[1] /\ p[1].kind = "script" /\ Within(o[1], o[0].kind)
      <4>1. 1 - 1 = 0
        OBVIOUS
      <4> QED
        BY <1>1, <1>2, <3>1, <4>1 DEF Nested
    <3>3. Within(p[1], p[0].kind)
      BY <3>2 DEF Within, Logical, Expression
    <3> QED
      BY <2>2, <3>2, <3>3
  <2>3. CASE i = n + 1
    <3>1. i - 1 = n /\ n \in 1 .. n /\ i # 1
      BY <1>1, <2>3
    <3>2. p[i] = c /\ p[i - 1] = o[n]
      BY <1>2, <2>3, <3>1
    <3> QED
      BY <3>1, <3>2 DEF n
  <2> QED
    BY <1>1, <1>2, <2>1, <2>2, <2>3
<1>4. Nested(p)
  BY <1>3 DEF Nested
<1>5. ASSUME c.kind \notin Functional PROVE Functions(p) = Functions(o)
  BY <1>1, <1>2, <1>5 DEF Functions
<1>6. ASSUME c.kind \in Functional
      PROVE  Cardinality(Functions(p)) = Cardinality(Functions(o)) + 1
  <2>1. n + 1 \notin Functions(o)
    BY <1>1 DEF Functions
  <2>2. Functions(p) = Functions(o) \cup {n + 1}
    BY <1>1, <1>2, <1>6 DEF Functions
  <2> QED
    BY <2>1, <2>2, FunctionsFinite, FS_AddElement, ZenonT(40)
<1> QED
  BY <1>2, <1>4, <1>5, <1>6 DEF p

\* The last construct becomes another.
LEMMA Changed ==
  ASSUME NEW o \in Seq(Construct), Nested(o), o # <<>>, NEW c \in Construct,
         c.kind = "script" <=> o[Len(o)].kind = "script",
         Within(c, o[Len(o) - 1].kind),
         c.kind \in Functional <=> o[Len(o)].kind \in Functional
  PROVE  /\ [o EXCEPT ![Len(o)] = c] \in Seq(Construct)
         /\ Nested([o EXCEPT ![Len(o)] = c])
         /\ Functions([o EXCEPT ![Len(o)] = c]) = Functions(o)
<1> DEFINE n == Len(o)
           p == [o EXCEPT ![n] = c]
<1>1. n \in Nat /\ n # 0 /\ DOMAIN o = 1 .. n /\ n \in 1 .. n
  BY SMTT(40)
<1>2. /\ p \in Seq(Construct) /\ DOMAIN p = 1 .. n
      /\ \A i \in 1 .. n : i # n => p[i] = o[i]
      /\ p[n] = c
  BY <1>1, ExceptSeq, ZenonT(40)
<1> HIDE DEF n, p
<1>3. ASSUME NEW i \in DOMAIN p
      PROVE  (p[i].kind = "script" <=> i = 1) /\ Within(p[i], p[i - 1].kind)
  <2>0. (o[i].kind = "script" <=> i = 1) /\ Within(o[i], o[i - 1].kind)
    BY <1>1, <1>2 DEF Nested
  <2>1. CASE i = n
    <3>1. p[i] = c /\ (c.kind = "script" <=> i = 1) /\ Within(c, o[n - 1].kind)
      BY <1>2, <2>0, <2>1 DEF n
    <3>2. CASE n = 1
      <4>1. Within(c, p[i - 1].kind)
        BY <2>1, <3>1, <3>2 DEF Within, Logical, Expression
      <4> QED
        BY <3>1, <4>1
    <3>3. CASE n # 1
      <4>1. n - 1 \in 1 .. n /\ n - 1 # n
        BY <1>1, <3>3
      <4> QED
        BY <1>2, <2>1, <3>1, <4>1
    <3> QED
      BY <3>2, <3>3
  <2>2. CASE i # n /\ i # 1
    <3>1. i - 1 \in 1 .. n /\ i - 1 # n /\ i \in 1 .. n
      BY <1>1, <1>2, <2>2
    <3> QED
      BY <1>2, <2>0, <2>2, <3>1
  <2>3. CASE i # n /\ i = 1
    <3>1. p[1] = o[1]
      BY <1>2, <2>3
    <3>2. Within(p[1], p[i - 1].kind)
      BY <2>0, <2>3, <3>1 DEF Within, Logical, Expression
    <3> QED
      BY <2>0, <2>3, <3>1, <3>2
  <2> QED
    BY <2>1, <2>2, <2>3
<1>4. Nested(p)
  BY <1>3 DEF Nested
<1>5. Functions(p) = Functions(o)
  <2>1. \A i \in 1 .. n : p[i].kind \in Functional <=> o[i].kind \in Functional
    BY <1>2 DEF n
  <2> QED
    BY <1>1, <1>2, <2>1 DEF Functions
<1> QED
  BY <1>2, <1>4, <1>5, ZenonT(40) DEF p, n

\* The last construct ends.
LEMMA Popped ==
  ASSUME NEW o \in Seq(Construct), Nested(o), o # <<>>
  PROVE  /\ Front(o) \in Seq(Construct) /\ Nested(Front(o))
         /\ Len(Front(o)) = Len(o) - 1
         /\ \A i \in 1 .. Len(o) - 1 : Front(o)[i] = o[i]
         /\ o[Len(o)].kind \notin Functional => Functions(Front(o)) = Functions(o)
         /\ o[Len(o)].kind \in Functional =>
              Cardinality(Functions(Front(o))) = Cardinality(Functions(o)) - 1
<1> DEFINE n == Len(o)
           p == Front(o)
<1>1. n \in Nat /\ n # 0 /\ DOMAIN o = 1 .. n /\ n \in 1 .. n
  OBVIOUS
<1>2. /\ p \in Seq(Construct) /\ DOMAIN p = 1 .. n - 1 /\ Len(p) = n - 1
      /\ \A i \in 1 .. n - 1 : p[i] = o[i]
  BY <1>1 DEF Front
<1> HIDE DEF n, p
<1>3. ASSUME NEW i \in DOMAIN p
      PROVE  (p[i].kind = "script" <=> i = 1) /\ Within(p[i], p[i - 1].kind)
  <2>1. p[i] = o[i] /\ (o[i].kind = "script" <=> i = 1) /\ Within(o[i], o[i - 1].kind)
    BY <1>1, <1>2 DEF Nested
  <2>2. CASE i = 1
    <3>1. Within(p[i], p[i - 1].kind)
      BY <2>1, <2>2 DEF Within, Logical, Expression
    <3> QED
      BY <2>1, <3>1
  <2>3. CASE i # 1
    <3>1. i - 1 \in 1 .. n - 1
      BY <1>1, <1>2, <2>3
    <3> QED
      BY <1>2, <2>1, <3>1
  <2> QED
    BY <2>2, <2>3
<1>4. Nested(p)
  BY <1>3 DEF Nested
<1>5. ASSUME o[n].kind \notin Functional PROVE Functions(p) = Functions(o)
  BY <1>1, <1>2, <1>5 DEF Functions
<1>6. ASSUME o[n].kind \in Functional
      PROVE  Cardinality(Functions(p)) = Cardinality(Functions(o)) - 1
  <2>1. n \in Functions(o)
    BY <1>1, <1>6 DEF Functions
  <2>2. Functions(p) = Functions(o) \ {n}
    BY <1>1, <1>2 DEF Functions
  <2> QED
    BY <2>1, <2>2, FunctionsFinite, FS_RemoveElement
<1> QED
  BY <1>2, <1>4, <1>5, <1>6 DEF p, n

\* The innermost loop is one of the function's.
LEMMA InnermostIs ==
  ASSUME open \in Seq(Construct), Loops # {}
  PROVE  InnermostLoop \in Loops /\ \A h \in Loops : h <= InnermostLoop
<1>1. Loops \subseteq Nat /\ \A k \in Loops : k <= Len(open)
  BY DEF Loops, OfFunction
<1>2. Len(open) \in Nat
  OBVIOUS
<1>3. \E m \in Loops : \A k \in Loops : k <= m
  BY <1>1, <1>2, Greatest
<1> QED
  BY <1>3 DEF InnermostLoop
-----------------------------------------------------------------------------
(* The type invariant, with what keeps it: the constructs are nested, and  *)
(* a unit whose last instruction is POP has one to take off.               *)

UnitsOK == units \in Seq(Unit) /\ \A k \in DOMAIN units : Ended(units[k])
OpenOK == open \in Seq(Construct) /\ Nested(open)
Typed ==
  /\ UnitsOK /\ OpenOK
  /\ constants \in Nat /\ steps \in 0 .. MaxSteps
  /\ finished \in Unit
  /\ Len(units) = Cardinality(Functions(open))

LEMMA MaxStepsNat == MaxSteps \in Nat /\ MaxPending \in Nat
BY CodegenAssumption

\* While something is open, there is a unit to emit into.
LEMMA TopFacts ==
  ASSUME Typed, open # <<>>
  PROVE  /\ units # <<>> /\ Len(units) \in Nat \ {0}
         /\ inst \in Unit /\ Ended(inst) /\ inst = units[Len(units)]
         /\ Len(open) \in Nat \ {0} /\ 1 \in DOMAIN open /\ Len(open) \in DOMAIN open
         /\ open[1].kind = "script"
         /\ top \in Construct /\ top = open[Len(open)]
         /\ Within(top, open[Len(open) - 1].kind)
         /\ top.kind = "script" <=> Len(open) = 1
<1>1. /\ open \in Seq(Construct) /\ Nested(open) /\ units \in Seq(Unit)
      /\ Len(units) = Cardinality(Functions(open))
  BY DEF Typed, UnitsOK, OpenOK
<1>2. /\ Len(open) \in Nat \ {0} /\ 1 \in DOMAIN open /\ Len(open) \in DOMAIN open
      /\ top = open[Len(open)] /\ top \in Construct
  BY <1>1 DEF top
<1>3. open[1].kind = "script"
  BY <1>1, <1>2 DEF Nested
<1>4. Within(top, open[Len(open) - 1].kind) /\ (top.kind = "script" <=> Len(open) = 1)
  BY <1>1, <1>2 DEF Nested
<1>5. 1 \in Functions(open)
  BY <1>2, <1>3 DEF Functions, Functional
<1>6. Cardinality(Functions(open)) \in Nat /\ Cardinality(Functions(open)) # 0
  BY <1>1, <1>5, FunctionsFinite, FS_CardinalityType, FS_EmptySet
<1>7. Len(units) \in Nat \ {0} /\ units # <<>>
  BY <1>1, <1>6
<1>8. Len(units) \in DOMAIN units /\ inst = units[Len(units)]
  BY <1>1, <1>7 DEF inst
<1>9. inst \in Unit /\ Ended(inst)
  BY <1>1, <1>8 DEF Typed, UnitsOK
<1> QED
  BY <1>2, <1>3, <1>4, <1>7, <1>8, <1>9

\* The innermost unit becomes another.
LEMMA SetUnit ==
  ASSUME UnitsOK, units # <<>>, NEW u \in Unit, Ended(u),
         units' = [units EXCEPT ![Len(units)] = u]
  PROVE  UnitsOK' /\ Len(units') = Len(units)
<1>1. units \in Seq(Unit) /\ Len(units) \in DOMAIN units /\ \A k \in DOMAIN units : Ended(units[k])
  BY DEF UnitsOK
<1>2. /\ units' \in Seq(Unit) /\ Len(units') = Len(units) /\ DOMAIN units' = DOMAIN units
      /\ \A k \in DOMAIN units : units'[k] = IF k = Len(units) THEN u ELSE units[k]
  BY <1>1, ExceptSeq
<1>3. \A k \in DOMAIN units' : Ended(units'[k])
  BY <1>1, <1>2
<1> QED
  BY <1>2, <1>3 DEF UnitsOK

LEMMA EmitUnit ==
  ASSUME Typed, open # <<>>, NEW S, NEW is \in Seq(S), \A s \in S : Formed(s), Emit(is)
  PROVE  UnitsOK' /\ Len(units') = Len(units)
<1> DEFINE u == EmittedAll(inst, is)
<1>1. inst \in Unit /\ Ended(inst) /\ units # <<>> /\ UnitsOK
  BY TopFacts DEF Typed
<1>2. u \in Unit /\ Ended(u)
  BY <1>1, FormedUnits
<1>3. units' = [units EXCEPT ![Len(units)] = u]
  BY DEF Emit, SetInst
<1> HIDE DEF u
<1> QED
  BY <1>1, <1>2, <1>3, SetUnit

LEMMA EmitOne ==
  ASSUME Typed, open # <<>>, NEW i, Formed(i), Emit(<<i>>)
  PROVE  UnitsOK' /\ Len(units') = Len(units)
<1> DEFINE is == <<i>>
           S == {i}
<1>1. is \in Seq(S) /\ (\A s \in S : Formed(s)) /\ Emit(is)
  OBVIOUS
<1> HIDE DEF is, S
<1> QED
  BY <1>1, EmitUnit

\* What a construct begins as.
LEMMA NewConstruct ==
  ASSUME NEW kind \in Block \cup Expression \cup {"alt", "alted"}, NEW pos \in Nat,
         NEW start \in Nat
  PROVE  /\ New(kind) \in Construct /\ New(kind).kind = kind /\ New(kind).pending = 0
         /\ [New(kind) EXCEPT !.pos = pos] \in Construct
         /\ [New(kind) EXCEPT !.pos = pos].kind = kind
         /\ [New(kind) EXCEPT !.pos = pos].pending = 0
         /\ [New(kind) EXCEPT !.start = start] \in Construct
         /\ [New(kind) EXCEPT !.start = start].kind = kind
         /\ [New(kind) EXCEPT !.start = start].pending = 0
BY DEF New, Construct

\* The operands of the last construct change.
LEMMA PendingChanged ==
  ASSUME Typed, open # <<>>, top.kind \in Expression, NEW n \in Nat,
         SetTop([top EXCEPT !.pending = n])
  PROVE  OpenOK' /\ Functions(open') = Functions(open)
<1> DEFINE c == [top EXCEPT !.pending = n]
<1>1. /\ top \in Construct /\ Within(top, open[Len(open) - 1].kind) /\ top = open[Len(open)]
      /\ open \in Seq(Construct) /\ Nested(open)
  BY TopFacts DEF Typed, OpenOK
<1>2. c \in Construct /\ c.kind = top.kind
  BY <1>1 DEF Construct
<1>3. open' = [open EXCEPT ![Len(open)] = c]
  BY DEF SetTop
<1> HIDE DEF c
<1>4. Within(c, open[Len(open) - 1].kind)
  BY <1>1, <1>2 DEF Within
<1> QED
  BY <1>1, <1>2, <1>3, <1>4, Changed DEF OpenOK

\* A construct that is no function is begun or ended.
LEMMA PushedOne ==
  ASSUME Typed, open # <<>>, NEW c \in Construct, c.kind \notin Functional,
         Within(c, top.kind), open' = Append(open, c)
  PROVE  OpenOK' /\ Functions(open') = Functions(open)
<1>1. top = open[Len(open)] /\ open \in Seq(Construct) /\ Nested(open) /\ c.kind # "script"
  BY TopFacts DEF Typed, OpenOK, Functional
<1> QED
  BY <1>1, Pushed DEF OpenOK

LEMMA PoppedOne ==
  ASSUME Typed, open # <<>>, top.kind \notin Functional, Pop
  PROVE  OpenOK' /\ Functions(open') = Functions(open)
<1>1. top = open[Len(open)] /\ open \in Seq(Construct) /\ Nested(open) /\ open' = Front(open)
  BY TopFacts DEF Typed, OpenOK, Pop
<1> QED
  BY <1>1, Popped DEF OpenOK

LEMMA TopChanged ==
  ASSUME Typed, open # <<>>, top.kind \notin Functional, NEW c \in Construct,
         c.kind \notin Functional, Within(c, open[Len(open) - 1].kind), SetTop(c)
  PROVE  OpenOK' /\ Functions(open') = Functions(open)
<1>1. /\ top = open[Len(open)] /\ open \in Seq(Construct) /\ Nested(open)
      /\ open' = [open EXCEPT ![Len(open)] = c]
      /\ top.kind # "script" /\ c.kind # "script"
  BY TopFacts DEF Typed, OpenOK, SetTop, Functional
<1> QED
  BY <1>1, Changed DEF OpenOK

LEMMA TypedNext ==
  ASSUME Typed, UnitsOK', OpenOK', Len(units') = Len(units), Functions(open') = Functions(open),
         constants' \in Nat, steps' = steps \/ Step, UNCHANGED finished
  PROVE  Typed'
<1>1. steps' \in 0 .. MaxSteps
  BY MaxStepsNat DEF Typed, Step
<1>2. Len(units') = Cardinality(Functions(open'))
  BY DEF Typed
<1> QED
  BY <1>1, <1>2 DEF Typed

LEMMA KindsApart ==
  /\ \A k \in Block : k \notin Expression /\ k \notin Logical /\ k \notin {"alt", "alted"}
  /\ \A k \in Expression : k \notin Functional /\ k \notin Block
  /\ Logical \subseteq Expression /\ Functional \subseteq Block
BY DEF Block, Expression, Logical, Functional

LEMMA TypedLiteral ==
  ASSUME Typed, NEW kind \in Literals, Literal(kind)
  PROVE  Typed'
<1>1. open # <<>> /\ top.kind \in Expression /\ kind \in {"integer", "float", "string"}
  BY CodegenAssumption DEF Literal, InExpression, Top
<1>2. top.pending \in Nat /\ constants \in Nat /\ Bits \in Nat
  BY <1>1, TopFacts DEF Construct, Typed, Bits
<1> DEFINE i == CASE kind = "integer" -> <<"CONST_INT", Bits>>
                  [] kind = "float"   -> <<"CONST_", Bits>>
                  [] kind = "string"  -> <<"CONST_", constants>>
<1>3. Formed(i)
  BY <1>1, <1>2, Instructions
<1>4. Emit(<<i>>)
  BY <1>1 DEF Literal
<1> HIDE DEF i
<1>5. UnitsOK' /\ Len(units') = Len(units)
  BY <1>1, <1>3, <1>4, EmitOne
<1>6. OpenOK' /\ Functions(open') = Functions(open)
  <2>1. SetTop([top EXCEPT !.pending = top.pending + 1]) /\ top.pending + 1 \in Nat
    BY <1>2 DEF Literal, Operand
  <2> QED
    BY <1>1, <2>1, PendingChanged
<1>7. constants' \in Nat
  BY <1>2 DEF Literal, AddConstants
<1>8. steps' = steps /\ finished' = finished
  BY DEF Literal
<1> QED
  BY <1>5, <1>6, <1>7, <1>8, TypedNext

LEMMA PostfixFormed ==
  ASSUME NEW i \in Postfix \cup ListLiterals
  PROVE  Formed(i) /\ Takes(Head(i), Tail(i)) \in Nat
<1>1. ArgCounts \subseteq Nat /\ ListSizes \subseteq Nat
  BY CodegenAssumption, Opcodes
<1>2. CASE i = <<"NOT">> \/ i = <<"ADD">> \/ i = <<"SET">>
  <2>1. Takes(Head(i), Tail(i)) \in Nat
    BY <1>2 DEF Takes
  <2> QED
    BY <1>2, <2>1, Instructions
<1>3. CASE i = Store
  <2>1. Takes(Head(i), Tail(i)) \in Nat
    BY <1>3 DEF Takes, Store
  <2> QED
    BY <1>3, <2>1, Instructions DEF Store
<1>4. ASSUME NEW id \in {"INDEX", "CALL", "PACK", "MAP"}, NEW n \in Nat, i = <<id, n>>
      PROVE  Formed(i) /\ Takes(Head(i), Tail(i)) \in Nat
  <2>1. Head(i) = id /\ Tail(i) = <<n>>
    BY <1>4
  <2>2. Instruction(id, <<n>>) /\ Formed(i)
    BY <1>4, Instructions
  <2> QED
    BY <2>1, <2>2, TakesNat
<1>5. CASE i \in {<<"INDEX", 1>>, <<"INDEX", 2>>}
  BY <1>4, <1>5
<1>6. CASE i \in {<<"CALL", n>> : n \in ArgCounts}
  BY <1>1, <1>4, <1>6
<1>7. CASE i \in ListLiterals
  <2>1. \E id \in {"PACK", "MAP"}, n \in ListSizes : i = <<id, n>>
    BY <1>7 DEF ListLiterals
  <2> QED
    BY <1>1, <1>4, <2>1
<1> QED
  BY <1>2, <1>3, <1>5, <1>6, <1>7, SMTT(40) DEF Postfix

LEMMA TypedOperate ==
  ASSUME Typed, NEW i \in Postfix \cup ListLiterals, Operate(i)
  PROVE  Typed'
<1>1. open # <<>> /\ top.kind \in Expression
  BY DEF Operate, InExpression, Top
<1>2. Formed(i) /\ Takes(Head(i), Tail(i)) \in Nat
  BY PostfixFormed
<1> DEFINE taken == Takes(Head(i), Tail(i))
<1> HIDE DEF taken
<1>3. taken \in Nat /\ top.pending \in Nat
  BY <1>1, <1>2, TopFacts DEF Construct, taken
<1>4. UnitsOK' /\ Len(units') = Len(units)
  BY <1>1, <1>2, EmitOne DEF Operate
<1>5. OpenOK' /\ Functions(open') = Functions(open)
  <2>1. taken <= top.pending /\ SetTop([top EXCEPT !.pending = top.pending - taken + 1])
    BY DEF Operate, taken
  <2>2. top.pending - taken + 1 \in Nat
    BY <1>3, <2>1
  <2> QED
    BY <1>1, <2>1, <2>2, PendingChanged
<1> QED
  BY <1>4, <1>5, TypedNext DEF Operate, Typed

LEMMA TypedBeginLogical ==
  ASSUME Typed, NEW kind \in Logical, BeginLogical(kind)
  PROVE  Typed'
<1>1. open # <<>> /\ top.kind \in Expression
  BY DEF BeginLogical, InExpression, Top
<1> DEFINE i == <<"CHK", IF kind = "or" THEN 1 ELSE 0, 0>>
           c == [New(kind) EXCEPT !.pos = Size(inst)]
<1>2. Formed(i)
  BY Instructions
<1>3. Emit(<<i>>) /\ open' = Append(open, c)
  BY DEF BeginLogical, Push
<1>4. c \in Construct /\ c.kind = kind
  <2>1. Size(inst) \in Nat
    BY <1>1, TopFacts, UnitFacts
  <2> QED
    BY <2>1, NewConstruct, KindsApart
<1> HIDE DEF i, c
<1>5. UnitsOK' /\ Len(units') = Len(units)
  BY <1>1, <1>2, <1>3, EmitOne
<1>6. OpenOK' /\ Functions(open') = Functions(open)
  <2>1. c.kind \notin Functional /\ Within(c, top.kind)
    BY <1>1, <1>4, KindsApart DEF Within, Logical
  <2> QED
    BY <1>1, <1>3, <1>4, <2>1, PushedOne
<1> QED
  BY <1>5, <1>6, TypedNext DEF BeginLogical, Typed

LEMMA TypedEndLogical ==
  ASSUME Typed, EndLogical
  PROVE  Typed'
<1>1. open # <<>> /\ top.kind \in {"and", "or"}
  BY DEF EndLogical, Complete, Top
<1> DEFINE i == <<IF top.kind = "or" THEN "OR" ELSE "AND">>
           u == Emitted(inst, i)
           v == Patched(u, top.pos + 2, AfterLogical(u))
<1>2. Formed(i)
  BY Instructions
<1>3. units' = [units EXCEPT ![Len(units)] = v]
  BY DEF EndLogical, SetInst
<1> HIDE DEF i
<1>4. u \in Unit /\ Ended(u)
  BY <1>1, <1>2, TopFacts, FormedUnit
<1>5. top.pos + 2 \in Nat /\ AfterLogical(u) \in Nat
  BY <1>1, <1>4, TopFacts, UnitFacts DEF Construct, AfterLogical
<1>6. v \in Unit /\ Ended(v)
  BY <1>4, <1>5, PatchedUnit
<1> HIDE DEF v
<1>7. UnitsOK' /\ Len(units') = Len(units)
  BY <1>1, <1>3, <1>6, TopFacts, SetUnit DEF Typed
<1>8. OpenOK' /\ Functions(open') = Functions(open)
  BY <1>1, PoppedOne DEF EndLogical, Functional
<1> QED
  BY <1>7, <1>8, TypedNext DEF EndLogical, Typed

LEMMA TypedBeginFunction ==
  ASSUME Typed, NEW kind \in {"function", "deferred"}, BeginFunction(kind)
  PROVE  Typed'
<1>1. /\ open # <<>>
      /\ kind = "function" => top.kind \in Expression
      /\ kind = "deferred" => top.kind \in Block
      /\ units' = Append(units, EmptyUnit) /\ open' = Append(open, New(kind))
  BY DEF BeginFunction, InExpression, InBlock, Top, Push
<1>2. EmptyUnit \in Unit /\ Ended(EmptyUnit)
  <2>1. Number["CONST_"] \in Nat /\ Number["CONST_"] # Number["POP"]
    <3>1. {"CONST_", "POP"} \subseteq Ids
      BY InstructionSizes DEF Plain
    <3>2. Id(Number["CONST_"]) = "CONST_" /\ Id(Number["POP"]) = "POP" /\ Number["CONST_"] \in 0 .. 43
      BY <3>1, Numbers
    <3> QED
      BY <3>2
  <2> QED
    BY <2>1 DEF EmptyUnit, Unit, Ended
<1>3. UnitsOK' /\ Len(units') = Len(units) + 1
  <2>1. units \in Seq(Unit) /\ \A k \in DOMAIN units : Ended(units[k])
    BY DEF Typed, UnitsOK
  <2>2. /\ units' \in Seq(Unit) /\ Len(units') = Len(units) + 1
        /\ DOMAIN units' = 1 .. Len(units) + 1
        /\ units'[Len(units) + 1] = EmptyUnit
        /\ \A k \in 1 .. Len(units) : units'[k] = units[k]
    <3> DEFINE e == EmptyUnit
    <3>1. e \in Unit /\ units' = Append(units, e)
      BY <1>1, <1>2
    <3> HIDE DEF e
    <3>2. /\ units' \in Seq(Unit) /\ Len(units') = Len(units) + 1
          /\ DOMAIN units' = 1 .. Len(units) + 1
          /\ units'[Len(units) + 1] = e
          /\ \A k \in 1 .. Len(units) : units'[k] = units[k]
      BY <2>1, <3>1
    <3> QED
      BY <3>2 DEF e
  <2>3. ASSUME NEW k \in DOMAIN units' PROVE Ended(units'[k])
    <3>1. Len(units) \in Nat /\ DOMAIN units = 1 .. Len(units)
      BY <2>1
    <3>2. CASE k = Len(units) + 1
      BY <1>2, <2>2, <3>2
    <3>3. CASE k \in 1 .. Len(units)
      BY <2>1, <2>2, <3>1, <3>3
    <3> QED
      BY <2>2, <3>1, <3>2, <3>3
  <2> QED
    BY <2>2, <2>3 DEF UnitsOK
<1>4. OpenOK' /\ Cardinality(Functions(open')) = Cardinality(Functions(open)) + 1
  <2>1. New(kind) \in Construct /\ New(kind).kind = kind /\ New(kind).pending = 0
    BY NewConstruct DEF Block
  <2>2. Within(New(kind), top.kind)
    BY <1>1, <2>1, KindsApart DEF Within, Logical
  <2>3. open \in Seq(Construct) /\ Nested(open) /\ top = open[Len(open)]
    BY <1>1, TopFacts DEF Typed, OpenOK
  <2> QED
    BY <1>1, <2>1, <2>2, <2>3, Pushed DEF OpenOK, Functional
<1>5. steps' \in 0 .. MaxSteps
  BY MaxStepsNat DEF Typed, BeginFunction, Step
<1> QED
  BY <1>3, <1>4, <1>5 DEF Typed, BeginFunction

\* A function of a script ends in a unit of its own.
LEMMA TypedEndFunction ==
  ASSUME Typed, NEW captures \in {0, 1}, EndFunction(captures)
  PROVE  Typed'
<1> DEFINE n == Len(open)
           m == Len(units)
           deferral == IF top.kind = "deferred" THEN << <<"DEFER">> >> ELSE <<>>
           is == Loads(captures) \o << <<"CLOSURE", constants, captures>> >> \o deferral
           u == EmittedAll(units[m - 1], is)
<1>1. /\ open # <<>> /\ top.kind \in {"function", "deferred"}
      /\ units' = [Front(units) EXCEPT ![m - 1] = u]
      /\ open' = IF top.kind = "deferred" THEN Front(open)
                 ELSE [Front(open) EXCEPT ![n - 1] = Operand(@)]
  BY DEF EndFunction, Top
<1>2. /\ units \in Seq(Unit) /\ (\A k \in DOMAIN units : Ended(units[k]))
      /\ open \in Seq(Construct) /\ Nested(open) /\ m = Cardinality(Functions(open))
      /\ constants \in Nat
  BY DEF Typed, UnitsOK, OpenOK
<1>3. /\ n \in Nat /\ n > 1 /\ top = open[n] /\ top \in Construct
      /\ Within(top, open[n - 1].kind) /\ inst \in Unit /\ Ended(inst)
  BY <1>1, TopFacts
<1>4. /\ Front(open) \in Seq(Construct) /\ Nested(Front(open)) /\ Len(Front(open)) = n - 1
      /\ \A i \in 1 .. n - 1 : Front(open)[i] = open[i]
      /\ Cardinality(Functions(Front(open))) = m - 1
  <2>1. open[n].kind \in Functional
    BY <1>1, <1>3 DEF Functional
  <2> QED
    BY <1>1, <1>2, <2>1, Popped
<1>5. m - 1 \in Nat \ {0} /\ m \in Nat
  <2>1. 1 \in DOMAIN Front(open) /\ 1 \in 1 .. n - 1
    BY <1>3, <1>4
  <2>2. Front(open)[1].kind = "script"
    BY <1>4, <2>1 DEF Nested
  <2>3. 1 \in Functions(Front(open))
    BY <2>1, <2>2 DEF Functions, Functional
  <2>4. m - 1 \in Nat /\ m - 1 # 0
    BY <1>4, <2>3, FunctionsFinite, FS_CardinalityType, FS_EmptySet
  <2>5. m \in Nat
    BY <1>2
  <2> QED
    BY <2>4, <2>5
<1>6. u \in Unit /\ Ended(u)
  <2>1. units[m - 1] \in Unit /\ Ended(units[m - 1])
    BY <1>2, <1>5
  <2> DEFINE close == <<"CLOSURE", constants, captures>>
             defer == <<"DEFER">>
             S == {Load, close, defer}
  <2>2. Formed(Load) /\ Formed(close) /\ Formed(defer)
    BY <1>2, Instructions DEF Load
  <2>3. deferral = IF top.kind = "deferred" THEN <<defer>> ELSE <<>>
    OBVIOUS
  <2>4. is = Loads(captures) \o <<close>> \o deferral
    OBVIOUS
  <2> HIDE DEF close, defer, deferral, is
  <2>5. deferral \in Seq(S)
    <3>1. <<defer>> \in Seq(S) /\ <<>> \in Seq(S)
      OBVIOUS
    <3> QED
      BY <2>3, <3>1
  <2>6. Loads(captures) \in Seq(S)
    <3>1. captures \in Nat
      OBVIOUS
    <3>2. Loads(captures) \in [1 .. captures -> S]
      BY DEF Loads
    <3>3. \A k \in Nat : \A d \in [1 .. k -> S] : d \in Seq(S)
      BY SeqDef, Zenon
    <3> QED
      BY <3>1, <3>2, <3>3, Zenon
  <2>7. is \in Seq(S)
    <3>1. <<close>> \in Seq(S)
      OBVIOUS
    <3> HIDE DEF S
    <3> QED
      BY <2>4, <2>5, <2>6, <3>1
  <2>8. \A s \in S : Formed(s)
    BY <2>2
  <2> HIDE DEF S
  <2> QED
    BY <2>1, <2>7, <2>8, FormedUnits
<1> HIDE DEF u
<1>7. UnitsOK' /\ Len(units') = m - 1
  <2>1. /\ Front(units) \in Seq(Unit) /\ Len(Front(units)) = m - 1
        /\ DOMAIN Front(units) = 1 .. m - 1
        /\ \A k \in 1 .. m - 1 : Front(units)[k] = units[k] /\ k \in DOMAIN units
    BY <1>2, <1>5 DEF Front
  <2>2. m - 1 \in 1 .. m - 1
    <3> HIDE DEF m
    <3> QED
      BY <1>5
  <2>3. /\ units' \in Seq(Unit) /\ Len(units') = m - 1 /\ DOMAIN units' = 1 .. m - 1
        /\ \A k \in 1 .. m - 1 : units'[k] = IF k = m - 1 THEN u ELSE units[k]
    BY <1>1, <1>6, <2>1, <2>2, ExceptSeq
  <2>4. \A k \in DOMAIN units' : Ended(units'[k])
    BY <1>2, <1>6, <2>1, <2>3
  <2> QED
    BY <2>3, <2>4 DEF UnitsOK
<1>8. OpenOK' /\ Cardinality(Functions(open')) = m - 1
  <2>1. CASE top.kind = "deferred"
    BY <1>1, <1>4, <2>1 DEF OpenOK
  <2>2. CASE top.kind # "deferred"
    <3> DEFINE o == Front(open)
               d == o[Len(o)]
               c == Operand(d)
    <3>1. d = open[n - 1] /\ d \in Construct /\ o # <<>> /\ Len(o) = n - 1 /\ n - 1 \in DOMAIN o
      BY <1>3, <1>4
    <3>2. d.kind \in Expression /\ Within(d, o[Len(o) - 1].kind)
      <4>1. top.kind = "function"
        BY <1>1, <2>2
      <4>2. d.kind \in Expression
        BY <1>3, <3>1, <4>1 DEF Within
      <4>3. Within(d, o[Len(o) - 1].kind)
        BY <1>4, <3>1 DEF Nested
      <4> QED
        BY <4>2, <4>3
    <3>3. c \in Construct /\ c.kind = d.kind
      BY <3>1, SMTT(40) DEF Construct, Operand
    <3>4. Within(c, o[Len(o) - 1].kind)
      BY <3>2, <3>3 DEF Within
    <3>5. open' = [o EXCEPT ![Len(o)] = c]
      BY <1>1, <2>2, <3>1
    <3> HIDE DEF c, d, o
    <3>6. /\ [o EXCEPT ![Len(o)] = c] \in Seq(Construct)
          /\ Nested([o EXCEPT ![Len(o)] = c])
          /\ Functions([o EXCEPT ![Len(o)] = c]) = Functions(o)
      <4>1. o \in Seq(Construct) /\ Nested(o)
        BY <1>4 DEF o
      <4>2. c.kind = o[Len(o)].kind
        BY <3>3 DEF d
      <4> QED
        BY <3>1, <3>3, <3>4, <4>1, <4>2, Changed
    <3> QED
      BY <1>4, <3>5, <3>6 DEF OpenOK, o
  <2> QED
    BY <2>1, <2>2
<1>9. finished' \in Unit
  BY <1>3, CompletedUnit DEF EndFunction
<1>10. constants' \in Nat /\ steps' \in 0 .. MaxSteps
  BY <1>2 DEF EndFunction, AddConstants, Typed
<1> QED
  BY <1>7, <1>8, <1>9, <1>10 DEF Typed

LEMMA TypedBegin ==
  ASSUME Typed, NEW kind \in {"expression", "return", "if"}, Begin(kind)
  PROVE  Typed'
<1>1. open # <<>> /\ top.kind \in Block /\ open' = Append(open, New(kind))
  BY DEF Begin, InBlock, Top, Push
<1>2. /\ New(kind) \in Construct /\ New(kind).kind = kind /\ New(kind).pending = 0
  BY NewConstruct DEF Expression
<1>3. Within(New(kind), top.kind) /\ New(kind).kind \notin Functional
  BY <1>1, <1>2 DEF Within, Logical, Functional
<1>4. OpenOK' /\ Functions(open') = Functions(open)
  BY <1>1, <1>2, <1>3, PushedOne
<1>5. UnitsOK' /\ Len(units') = Len(units)
  BY DEF Begin, Typed, UnitsOK
<1> QED
  BY <1>4, <1>5, TypedNext DEF Begin, Typed

LEMMA TypedEndStatement ==
  ASSUME Typed, EndExpression \/ EndReturn
  PROVE  Typed'
<1>1. open # <<>> /\ top.kind \in {"expression", "return"} /\ Pop
  BY DEF EndExpression, EndReturn, Complete, Top
<1>2. \E i : Formed(i) /\ Emit(<<i>>)
  BY Instructions DEF EndExpression, EndReturn
<1>3. UnitsOK' /\ Len(units') = Len(units)
  BY <1>1, <1>2, EmitOne
<1>4. OpenOK' /\ Functions(open') = Functions(open)
  BY <1>1, PoppedOne DEF Functional
<1> QED
  BY <1>3, <1>4, TypedNext DEF EndExpression, EndReturn, Typed

LEMMA TypedNextCondition ==
  ASSUME Typed, NextCondition
  PROVE  Typed'
<1>1. open # <<>> /\ top.kind \in Expression
  BY DEF NextCondition, Complete, Top, Expression
<1> DEFINE u == [inst EXCEPT !.chained = TRUE]
<1>2. inst \in Unit /\ Ended(inst) /\ units # <<>> /\ inst = units[Len(units)] /\ UnitsOK
  BY <1>1, TopFacts DEF Typed
<1>3. u \in Unit /\ u.last = inst.last /\ u.sites = inst.sites
  BY <1>2 DEF Unit
<1>4. Ended(u)
  BY <1>2, <1>3 DEF Ended
<1>5. units' = [units EXCEPT ![Len(units)] = u]
  BY <1>2 DEF NextCondition
<1> HIDE DEF u
<1>6. UnitsOK' /\ Len(units') = Len(units)
  BY <1>2, <1>3, <1>4, <1>5, SetUnit
<1>7. OpenOK' /\ Functions(open') = Functions(open)
  BY <1>1, PendingChanged DEF NextCondition
<1> QED
  BY <1>6, <1>7, TypedNext DEF NextCondition, Typed

LEMMA TypedBeginThen ==
  ASSUME Typed, BeginThen
  PROVE  Typed'
<1> DEFINE c == [New("then") EXCEPT !.pos = Size(inst)]
<1>1. open # <<>> /\ top.kind = "if" /\ Emit(<< <<"JNZ", 0>> >>) /\ SetTop(c)
  BY DEF BeginThen, Complete, Top
<1>2. c \in Construct /\ c.kind = "then" /\ c.pending = 0
  <2>1. Size(inst) \in Nat
    BY <1>1, TopFacts, UnitFacts
  <2> QED
    BY <2>1, NewConstruct DEF Block
<1> HIDE DEF c
<1>3. c.kind \notin Functional /\ Within(c, open[Len(open) - 1].kind)
  BY <1>1, <1>2, TopFacts DEF Within, Functional, Logical
<1>4. UnitsOK' /\ Len(units') = Len(units)
  BY <1>1, Instructions, EmitOne
<1>5. OpenOK' /\ Functions(open') = Functions(open)
  BY <1>1, <1>2, <1>3, TopChanged DEF Functional
<1> QED
  BY <1>4, <1>5, TypedNext DEF BeginThen, Typed

LEMMA TypedEndThen ==
  ASSUME Typed, EndThen
  PROVE  Typed'
<1> DEFINE c == [New("alt") EXCEPT !.pos = Size(inst)]
           i == <<"JMP", 0>>
           u == Emitted(inst, i)
           v == Patched(u, top.pos + 1, Size(u))
<1>1. /\ open # <<>> /\ top.kind = "then" /\ SetTop(c)
      /\ units' = [units EXCEPT ![Len(units)] = v]
  BY DEF EndThen, Top, SetInst
<1>2. c \in Construct /\ c.kind = "alt" /\ c.pending = 0
  <2>1. Size(inst) \in Nat
    BY <1>1, TopFacts, UnitFacts
  <2> QED
    BY <2>1, NewConstruct
<1>3. Formed(i)
  BY Instructions
<1> HIDE DEF c, i
<1>4. c.kind \notin Functional /\ Within(c, open[Len(open) - 1].kind)
  BY <1>1, <1>2, TopFacts DEF Within, Functional, Logical
<1>5. u \in Unit /\ Ended(u)
  BY <1>1, <1>3, TopFacts, FormedUnit
<1>6. v \in Unit /\ Ended(v)
  <2>1. top.pos + 1 \in Nat /\ Size(u) \in Nat
    BY <1>1, <1>5, TopFacts, UnitFacts DEF Construct
  <2> QED
    BY <1>5, <2>1, PatchedUnit
<1> HIDE DEF v
<1>7. UnitsOK' /\ Len(units') = Len(units)
  BY <1>1, <1>6, TopFacts, SetUnit DEF Typed
<1>8. OpenOK' /\ Functions(open') = Functions(open)
  BY <1>1, <1>2, <1>4, TopChanged DEF Functional
<1> QED
  BY <1>7, <1>8, TypedNext DEF EndThen, Typed

LEMMA TypedElse ==
  ASSUME Typed, Else
  PROVE  Typed'
<1> DEFINE c == [top EXCEPT !.kind = "else"]
<1>1. open # <<>> /\ top.kind = "alt" /\ SetTop(c)
  BY DEF Else, Top
<1>2. top \in Construct /\ top.pending = 0
  BY <1>1, TopFacts DEF Within, Expression
<1>3. c \in Construct /\ c.kind = "else" /\ c.pending = 0
  BY <1>2 DEF Construct, Block
<1> HIDE DEF c
<1>4. c.kind \notin Functional /\ Within(c, open[Len(open) - 1].kind)
  BY <1>1, <1>3, TopFacts DEF Within, Functional, Logical
<1>5. OpenOK' /\ Functions(open') = Functions(open)
  BY <1>1, <1>3, <1>4, TopChanged DEF Functional
<1>6. UnitsOK' /\ Len(units') = Len(units)
  BY DEF Else, Typed, UnitsOK
<1> QED
  BY <1>5, <1>6, TypedNext DEF Else, Typed

\* ElseIf changes the last construct, then begins one within it.
LEMMA ElseIfOpen ==
  ASSUME Typed, open # <<>>,
         open' = Append(Front(open), [top EXCEPT !.kind = "alted"]) \o <<New("if")>>
  PROVE  open' = Append([open EXCEPT ![Len(open)] = [top EXCEPT !.kind = "alted"]], New("if"))
<1> DEFINE n == Len(open)
           c == [top EXCEPT !.kind = "alted"]
           d == New("if")
           p == Append(Front(open), c)
           q == [open EXCEPT ![n] = c]
<1>1. open \in Seq(Construct) /\ n \in Nat \ {0} /\ top \in Construct
  BY TopFacts DEF Typed, OpenOK
<1>2. c \in Construct /\ d \in Construct
  BY <1>1, NewConstruct DEF Construct, Expression
<1> HIDE DEF c, d, n
<1>3. /\ Front(open) \in Seq(Construct) /\ Len(Front(open)) = n - 1
      /\ \A i \in 1 .. n - 1 : Front(open)[i] = open[i]
  BY <1>1 DEF Front, n
<1>4. /\ p \in Seq(Construct) /\ Len(p) = n
      /\ \A i \in 1 .. n : p[i] = IF i = n THEN c ELSE open[i]
  <2> DEFINE f == Front(open)
  <2> HIDE DEF f
  <2>1. /\ Append(f, c) \in Seq(Construct) /\ Len(Append(f, c)) = n
        /\ \A i \in 1 .. n : Append(f, c)[i] = IF i = n THEN c ELSE open[i]
    BY <1>1, <1>2, <1>3 DEF f
  <2> QED
    BY <2>1 DEF f
<1>5. /\ q \in Seq(Construct) /\ Len(q) = n
      /\ \A i \in 1 .. n : q[i] = IF i = n THEN c ELSE open[i]
  BY <1>1, <1>2, ExceptSeq DEF n
<1> HIDE DEF p, q
<1>6. p = q
  BY <1>4, <1>5, SeqEqual
<1>7. p \o <<d>> = Append(p, d)
  BY <1>2, <1>4
<1> QED
  BY <1>6, <1>7 DEF p, q, c, d, n

LEMMA TypedElseIf ==
  ASSUME Typed, ElseIf
  PROVE  Typed'
<1> DEFINE c == [top EXCEPT !.kind = "alted"]
           d == New("if")
           q == [open EXCEPT ![Len(open)] = c]
<1>1. open # <<>> /\ top.kind = "alt"
  BY DEF ElseIf, Top
<1>2. open' = Append(q, d)
  BY <1>1, ElseIfOpen DEF ElseIf
<1>3. top \in Construct /\ top.pending = 0 /\ top = open[Len(open)] /\ Len(open) \in DOMAIN open
      /\ open \in Seq(Construct) /\ Nested(open) /\ Within(top, open[Len(open) - 1].kind)
  BY <1>1, TopFacts DEF Within, Expression, Typed, OpenOK
<1>4. c \in Construct /\ c.kind = "alted" /\ c.pending = 0
  BY <1>3 DEF Construct
<1>5. d \in Construct /\ d.kind = "if" /\ d.pending = 0
  BY NewConstruct DEF Expression
<1> HIDE DEF c, d
<1>6. c.kind \notin Functional /\ Within(c, open[Len(open) - 1].kind)
  BY <1>1, <1>3, <1>4 DEF Within, Functional, Logical
<1>7. q \in Seq(Construct) /\ Nested(q) /\ Functions(q) = Functions(open)
  BY <1>1, <1>3, <1>4, <1>6, Changed DEF Functional
<1>8. q # <<>> /\ Len(q) = Len(open) /\ q[Len(q)] = c
  BY <1>1, <1>3, <1>4, ExceptSeq
<1> HIDE DEF q
<1>9. Append(q, d) \in Seq(Construct) /\ Nested(Append(q, d)) /\ Functions(Append(q, d)) = Functions(q)
  <2>1. d.kind # "script" /\ d.kind \notin Functional /\ Within(d, q[Len(q)].kind)
    BY <1>4, <1>5, <1>8 DEF Within, Functional, Logical
  <2> QED
    BY <1>5, <1>7, <1>8, <2>1, Pushed
<1>10. OpenOK' /\ Functions(open') = Functions(open)
  BY <1>2, <1>7, <1>9 DEF OpenOK
<1>11. UnitsOK' /\ Len(units') = Len(units)
  BY DEF ElseIf, Typed, UnitsOK
<1> QED
  BY <1>10, <1>11, TypedNext DEF ElseIf, Typed

LEMMA TypedEndIf ==
  ASSUME Typed, EndIf
  PROVE  Typed'
<1> DEFINE null == <<"CONST_NULL">>
           drop == <<"POP">>
           is == <<null, drop>>
           S == {null, drop}
           u == EmittedAll(inst, is)
           v == Patched(u, top.pos + 1, AfterAlt(inst))
<1>1. /\ open # <<>> /\ top.kind \in {"alt", "alted", "else"} /\ Pop
      /\ units' = [units EXCEPT ![Len(units)] = v]
  BY DEF EndIf, Top, SetInst
<1>2. is \in Seq(S) /\ \A s \in S : Formed(s)
  BY Instructions
<1> HIDE DEF is, S
<1>3. u \in Unit /\ Ended(u)
  BY <1>1, <1>2, TopFacts, FormedUnits
<1>4. v \in Unit /\ Ended(v)
  <2>1. top.pos + 1 \in Nat /\ AfterAlt(inst) \in Nat
    BY <1>1, TopFacts, UnitFacts DEF Construct, AfterAlt
  <2> QED
    BY <1>3, <2>1, PatchedUnit
<1> HIDE DEF v
<1>5. UnitsOK' /\ Len(units') = Len(units)
  BY <1>1, <1>4, TopFacts, SetUnit DEF Typed
<1>6. OpenOK' /\ Functions(open') = Functions(open)
  BY <1>1, PoppedOne DEF Functional
<1> QED
  BY <1>5, <1>6, TypedNext DEF EndIf, Typed

LEMMA TypedBeginFor ==
  ASSUME Typed, BeginFor
  PROVE  Typed'
<1> DEFINE c == [New("for") EXCEPT !.start = Size(inst)]
<1>1. open # <<>> /\ top.kind \in Block /\ open' = Append(open, c)
  BY DEF BeginFor, InBlock, Top, Push
<1>2. c \in Construct /\ c.kind = "for" /\ c.pending = 0
  <2>1. Size(inst) \in Nat
    BY <1>1, TopFacts, UnitFacts
  <2> QED
    BY <2>1, NewConstruct DEF Expression
<1> HIDE DEF c
<1>3. Within(c, top.kind) /\ c.kind \notin Functional
  BY <1>1, <1>2 DEF Within, Logical, Functional
<1>4. OpenOK' /\ Functions(open') = Functions(open)
  BY <1>1, <1>2, <1>3, PushedOne
<1>5. UnitsOK' /\ Len(units') = Len(units)
  BY DEF BeginFor, Typed, UnitsOK
<1> QED
  BY <1>4, <1>5, TypedNext DEF BeginFor, Typed

LEMMA TypedBeginForIn ==
  ASSUME Typed, BeginForIn
  PROVE  Typed'
<1> DEFINE zero == <<"CONST_", constants>>
           drop == <<"POP">>
           is == <<zero, Store, drop>>
           S == {zero, Store, drop}
           u == EmittedAll(inst, is)
           c == [New("forin") EXCEPT !.start = Size(u)]
<1>1. /\ open # <<>> /\ top.kind \in Block /\ open' = Append(open, c)
      /\ units' = [units EXCEPT ![Len(units)] = u]
  BY DEF BeginForIn, InBlock, Top, Push, SetInst
<1>2. is \in Seq(S) /\ \A s \in S : Formed(s)
  <2>1. Formed(zero) /\ Formed(Store) /\ Formed(drop)
    BY Instructions DEF Store, Typed
  <2> HIDE DEF zero, drop
  <2> QED
    BY <2>1
<1> HIDE DEF is, S
<1>3. u \in Unit /\ Ended(u)
  BY <1>1, <1>2, TopFacts, FormedUnits
<1> HIDE DEF u
<1>4. c \in Construct /\ c.kind = "forin" /\ c.pending = 0
  <2>1. Size(u) \in Nat
    BY <1>3, UnitFacts
  <2> QED
    BY <2>1, NewConstruct DEF Expression
<1> HIDE DEF c
<1>5. Within(c, top.kind) /\ c.kind \notin Functional
  BY <1>1, <1>4 DEF Within, Logical, Functional
<1>6. OpenOK' /\ Functions(open') = Functions(open)
  BY <1>1, <1>4, <1>5, PushedOne
<1>7. UnitsOK' /\ Len(units') = Len(units)
  BY <1>1, <1>3, TopFacts, SetUnit DEF Typed
<1>8. constants' \in Nat
  BY DEF BeginForIn, AddConstants, Typed
<1> QED
  BY <1>6, <1>7, <1>8, TypedNext DEF BeginForIn, Typed

LEMMA BodyConstruct ==
  ASSUME NEW c \in Construct, NEW p \in Nat
  PROVE  /\ [c EXCEPT !.kind = "body", !.pending = 0, !.pos = p] \in Construct
         /\ [c EXCEPT !.kind = "body", !.pending = 0, !.pos = p].kind = "body"
         /\ [c EXCEPT !.kind = "body", !.pending = 0, !.pos = p].pending = 0
BY DEF Construct, Block

LEMMA TypedBeginBody ==
  ASSUME Typed, BeginBody
  PROVE  Typed'
<1> DEFINE c == [top EXCEPT !.kind = "body", !.pending = 0, !.pos = Size(inst)]
<1>1. open # <<>> /\ top.kind = "for" /\ Emit(<< <<"JNZ", 0>> >>) /\ SetTop(c)
  BY DEF BeginBody, Complete, Top
<1>2. c \in Construct /\ c.kind = "body" /\ c.pending = 0
  BY <1>1, TopFacts, UnitFacts, BodyConstruct
<1> HIDE DEF c
<1>3. c.kind \notin Functional /\ Within(c, open[Len(open) - 1].kind)
  BY <1>1, <1>2, TopFacts DEF Within, Functional, Logical
<1>4. UnitsOK' /\ Len(units') = Len(units)
  BY <1>1, Instructions, EmitOne
<1>5. OpenOK' /\ Functions(open') = Functions(open)
  BY <1>1, <1>2, <1>3, TopChanged DEF Functional
<1> QED
  BY <1>4, <1>5, TypedNext DEF BeginBody, Typed

LEMMA TypedBeginBodyIn ==
  ASSUME Typed, BeginBodyIn
  PROVE  Typed'
<1> DEFINE st == Store
           sz == <<"SIZE">>
           ld == Load
           gt == <<"GT">>
           jnz == <<"JNZ", 0>>
           ix == <<"INDEX", 1>>
           drop == <<"POP">>
           one == <<"CONST_", constants>>
           add == <<"ADD">>
           S == {st, sz, ld, gt, jnz, ix, drop, one, add}
           before == <<st, sz, ld, gt>>
           behind == <<jnz, ld, ld, ix, st, drop, one, ld, add, st, drop>>
           test == EmittedAll(inst, before)
           u == EmittedAll(test, behind)
           c == [top EXCEPT !.kind = "body", !.pending = 0, !.pos = Size(test)]
<1>1. /\ open # <<>> /\ top.kind = "forin" /\ SetTop(c)
      /\ units' = [units EXCEPT ![Len(units)] =
           EmittedAll(test, << <<"JNZ", 0>>, Load, Load, <<"INDEX", 1>>, Store, <<"POP">>,
                               <<"CONST_", constants>>, Load, <<"ADD">>, Store, <<"POP">> >>)]
  BY DEF BeginBodyIn, Complete, Top, SetInst
<1>2. \A s \in S : Formed(s)
  <2>1. /\ Formed(st) /\ Formed(sz) /\ Formed(ld) /\ Formed(gt) /\ Formed(jnz) /\ Formed(ix)
        /\ Formed(drop) /\ Formed(one) /\ Formed(add)
    BY Instructions DEF Store, Load, Typed
  <2> HIDE DEF st, sz, ld, gt, jnz, ix, drop, one, add
  <2> QED
    BY <2>1
<1>3. behind = << <<"JNZ", 0>>, Load, Load, <<"INDEX", 1>>, Store, <<"POP">>,
                  <<"CONST_", constants>>, Load, <<"ADD">>, Store, <<"POP">> >>
  OBVIOUS
<1>4. units' = [units EXCEPT ![Len(units)] = u]
  <2> HIDE DEF behind
  <2> QED
    BY <1>1, <1>3
<1> HIDE DEF st, sz, ld, gt, jnz, ix, drop, one, add
<1>5. before \in Seq(S)
  OBVIOUS
<1>6. behind \in Seq(S)
  OBVIOUS
<1> HIDE DEF before, behind, S
<1>7. test \in Unit /\ Ended(test)
  BY <1>1, <1>2, <1>5, TopFacts, FormedUnits
<1> HIDE DEF test
<1>8. u \in Unit /\ Ended(u)
  BY <1>2, <1>6, <1>7, FormedUnits
<1> HIDE DEF u
<1>9. c \in Construct /\ c.kind = "body" /\ c.pending = 0
  BY <1>1, <1>7, TopFacts, UnitFacts, BodyConstruct
<1> HIDE DEF c
<1>10. c.kind \notin Functional /\ Within(c, open[Len(open) - 1].kind)
  BY <1>1, <1>9, TopFacts DEF Within, Functional, Logical
<1>11. UnitsOK' /\ Len(units') = Len(units)
  BY <1>1, <1>4, <1>8, TopFacts, SetUnit DEF Typed
<1>12. OpenOK' /\ Functions(open') = Functions(open)
  BY <1>1, <1>9, <1>10, TopChanged DEF Functional
<1>13. constants' \in Nat
  BY DEF BeginBodyIn, AddConstants, Typed
<1> QED
  BY <1>11, <1>12, <1>13, TypedNext DEF BeginBodyIn, Typed

\* break and continue are noted with a construct that may be any but the last.
LEMMA Noted ==
  ASSUME NEW o \in Seq(Construct), Nested(o), NEW m \in DOMAIN o, NEW c \in Construct,
         c.kind = o[m].kind, c.pending = o[m].pending
  PROVE  /\ [o EXCEPT ![m] = c] \in Seq(Construct) /\ Nested([o EXCEPT ![m] = c])
         /\ Functions([o EXCEPT ![m] = c]) = Functions(o)
<1> DEFINE p == [o EXCEPT ![m] = c]
<1>1. /\ p \in Seq(Construct) /\ DOMAIN p = DOMAIN o
      /\ \A i \in DOMAIN o : p[i] = IF i = m THEN c ELSE o[i]
  BY ExceptSeq
<1> HIDE DEF p
<1>2. \A i \in DOMAIN o : p[i].kind = o[i].kind /\ p[i].pending = o[i].pending
  BY <1>1
<1>3. ASSUME NEW i \in DOMAIN o
      PROVE  (p[i].kind = "script" <=> i = 1) /\ Within(p[i], p[i - 1].kind)
  <2>1. (o[i].kind = "script" <=> i = 1) /\ Within(o[i], o[i - 1].kind)
    BY DEF Nested
  <2>2. Within(p[i], o[i - 1].kind)
    BY <1>2, <2>1 DEF Within
  <2>3. CASE i = 1
    <3>1. p[i].kind = "script"
      BY <1>2, <2>1, <2>3
    <3>2. Within(p[i], p[i - 1].kind)
      BY <2>2, <3>1 DEF Within, Logical, Expression
    <3> QED
      BY <2>3, <3>1, <3>2
  <2>4. CASE i # 1
    <3>1. i - 1 \in DOMAIN o
      BY <2>4
    <3> QED
      BY <1>2, <2>1, <2>2, <3>1
  <2> QED
    BY <2>3, <2>4
<1>4. Nested(p)
  BY <1>1, <1>3 DEF Nested
<1>5. Functions(p) = Functions(o)
  BY <1>1, <1>2 DEF Functions
<1> QED
  BY <1>1, <1>4, <1>5 DEF p

LEMMA TypedBeginJump ==
  ASSUME Typed, NEW id \in Exit, BeginJump(id)
  PROVE  Typed'
<1>1. open # <<>> /\ Emit(<< <<id, 0>> >>)
  BY DEF BeginJump, InBlock, Top
<1>2. UnitsOK' /\ Len(units') = Len(units)
  BY <1>1, Instructions, EmitOne DEF Exit
<1>3. OpenOK' /\ Functions(open') = Functions(open)
  <2>1. open \in Seq(Construct) /\ Nested(open) /\ OpenOK
    BY DEF Typed, OpenOK
  <2>2. CASE Loops = {}
    <3>1. open' = open
      BY <2>2 DEF BeginJump
    <3> QED
      BY <2>1, <3>1 DEF OpenOK
  <2>3. CASE Loops # {}
    <3> DEFINE m == InnermostLoop
               at == {Size(inst) + 1}
               c == IF id = "BREAK" THEN [open[m] EXCEPT !.breaks = @ \cup at]
                    ELSE [open[m] EXCEPT !.continues = @ \cup at]
    <3>1. m \in DOMAIN open
      BY <2>1, <2>3, InnermostIs DEF Loops, OfFunction
    <3>2. open' = [open EXCEPT ![m] = c]
      BY <2>3 DEF BeginJump
    <3>3. at \subseteq Nat
      BY <1>1, TopFacts, UnitFacts
    <3> HIDE DEF m, at
    <3>4. open[m] \in Construct
      BY <2>1, <3>1
    <3>5. c \in Construct /\ c.kind = open[m].kind /\ c.pending = open[m].pending
      BY <3>3, <3>4 DEF Construct
    <3> HIDE DEF c
    <3> QED
      BY <2>1, <3>1, <3>2, <3>5, Noted DEF OpenOK
  <2> QED
    BY <2>2, <2>3
<1> QED
  BY <1>2, <1>3, TypedNext DEF BeginJump, Typed

LEMMA TypedEndLoop ==
  ASSUME Typed, EndLoop
  PROVE  Typed'
<1> DEFINE seen == Seen(inst.code, top.start)
           first == Scan(inst.code, seen, "CONTINUE", ContinueTarget(top.start))
           w0 == [inst EXCEPT !.code = first]
           jmp == <<"JMP", top.start>>
           jumped == Emitted(w0, jmp)
           after == Size(jumped)
           null == <<"CONST_NULL">>
           drop == <<"POP">>
           is == <<null, drop>>
           ended == EmittedAll(jumped, is)
           exit == Patched(ended, top.pos + 1, after)
           seenNow == Seen(exit.code, top.start)
           second == Scan(exit.code, seenNow, "BREAK", after)
           goals == exit.goals \cup {[at |-> i, target |-> after] : i \in top.breaks}
                               \cup {[at |-> i, target |-> top.start] : i \in top.continues}
           v == [exit EXCEPT !.code = second, !.goals = goals]
<1>1. open # <<>> /\ top.kind = "body" /\ Pop
  BY DEF EndLoop, Top
<1>2. units' = [units EXCEPT ![Len(units)] = v]
  BY DEF EndLoop, SetInst
<1>3. /\ inst \in Unit /\ Ended(inst) /\ top \in Construct /\ top.start \in Nat /\ top.pos \in Nat
      /\ top.breaks \subseteq Nat /\ top.continues \subseteq Nat
  BY <1>1, TopFacts DEF Construct
<1> HIDE DEF seen
<1>4. w0 \in Unit /\ Ended(w0)
  BY <1>3, ScanUnit DEF ContinueTarget
<1> HIDE DEF w0
<1>5. jumped \in Unit /\ Ended(jumped)
  <2>1. Formed(jmp)
    BY <1>3, Instructions
  <2> HIDE DEF jmp
  <2> QED
    BY <1>4, <2>1, FormedUnit
<1> HIDE DEF jumped
<1>6. after \in Nat
  BY <1>5, UnitFacts
<1>7. ended \in Unit /\ Ended(ended)
  <2> DEFINE S == {null, drop}
  <2>1. is \in Seq(S) /\ \A s \in S : Formed(s)
    BY Instructions
  <2> HIDE DEF is, S
  <2> QED
    BY <1>5, <2>1, FormedUnits
<1> HIDE DEF ended, after
<1>8. exit \in Unit /\ Ended(exit)
  <2>1. top.pos + 1 \in Nat
    BY <1>3
  <2> QED
    BY <1>6, <1>7, <2>1, PatchedUnit
<1> HIDE DEF exit, seenNow
<1>9. v \in Unit /\ Ended(v)
  <2> DEFINE x == [exit EXCEPT !.code = second]
  <2>1. x \in Unit /\ Ended(x)
    BY <1>6, <1>8, ScanUnit
  <2>2. goals \in SUBSET [at : Nat, target : Nat]
    BY <1>3, <1>6, <1>8, UnitFacts
  <2>3. v = [x EXCEPT !.goals = goals]
    BY <1>8 DEF Unit
  <2> HIDE DEF x, goals
  <2>4. v \in Unit /\ v.last = x.last /\ v.sites = x.sites
    BY <2>1, <2>2, <2>3 DEF Unit
  <2> QED
    BY <2>1, <2>4 DEF Ended
<1> HIDE DEF v
<1>10. UnitsOK' /\ Len(units') = Len(units)
  BY <1>1, <1>2, <1>9, TopFacts, SetUnit DEF Typed
<1>11. OpenOK' /\ Functions(open') = Functions(open)
  BY <1>1, PoppedOne DEF Functional
<1> QED
  BY <1>10, <1>11, TypedNext DEF EndLoop, Typed

LEMMA TypedEndScript ==
  ASSUME Typed, EndScript
  PROVE  Typed'
<1>1. open # <<>> /\ top.kind = "script" /\ open' = Front(open) /\ units' = <<>>
  BY DEF EndScript, Top, Pop
<1>2. Len(open) = 1 /\ open \in Seq(Construct) /\ Nested(open) /\ top = open[1]
  BY <1>1, TopFacts DEF Typed, OpenOK
<1>3. Front(open) \in Seq(Construct) /\ Nested(Front(open)) /\ Len(Front(open)) = 0
  BY <1>1, <1>2, Popped
<1>4. OpenOK' /\ Functions(open') = {}
  <2>1. DOMAIN Front(open) = {}
    BY <1>3
  <2> QED
    BY <1>1, <1>3, <2>1 DEF OpenOK, Functions
<1>5. UnitsOK' /\ Len(units') = Cardinality(Functions(open'))
  BY <1>1, <1>4, FS_EmptySet DEF UnitsOK
<1>6. finished' \in Unit
  <2>1. Formed(<<"HLT">>)
    BY Instructions
  <2>2. finished' = Emitted(inst, <<"HLT">>)
    BY DEF EndScript
  <2> QED
    BY <1>1, <2>1, <2>2, TopFacts, FormedUnit
<1> QED
  BY <1>4, <1>5, <1>6 DEF EndScript, Typed

LEMMA TypedInit ==
  ASSUME Init
  PROVE  Typed
<1>1. EmptyUnit \in Unit /\ Ended(EmptyUnit)
  <2>1. Number["CONST_"] \in Nat /\ Number["CONST_"] # Number["POP"]
    <3>1. {"CONST_", "POP"} \subseteq Ids
      BY InstructionSizes DEF Plain
    <3>2. Id(Number["CONST_"]) = "CONST_" /\ Id(Number["POP"]) = "POP" /\ Number["CONST_"] \in 0 .. 43
      BY <3>1, Numbers
    <3> QED
      BY <3>2
  <2> QED
    BY <2>1 DEF EmptyUnit, Unit, Ended
<1> DEFINE e == EmptyUnit
           c == New("script")
<1>2. c \in Construct /\ c.kind = "script" /\ c.pending = 0
  BY NewConstruct DEF Block
<1>3. units = <<e>> /\ open = <<c>> /\ e \in Unit /\ Ended(e) /\ finished = e
  BY <1>1 DEF Init
<1> HIDE DEF e, c
<1>4. UnitsOK /\ Len(units) = 1
  BY <1>3 DEF UnitsOK
<1>5. OpenOK
  <2>1. open \in Seq(Construct) /\ DOMAIN open = {1} /\ open[1] = c
    BY <1>2, <1>3
  <2>2. Within(c, open[1 - 1].kind)
    BY <1>2 DEF Within, Logical, Expression
  <2> QED
    BY <1>2, <2>1, <2>2 DEF OpenOK, Nested
<1>6. Functions(open) = {1}
  BY <1>2, <1>3 DEF Functions, Functional
<1>7. Len(units) = Cardinality(Functions(open))
  BY <1>4, <1>6, FS_Singleton
<1> QED
  BY <1>3, <1>4, <1>5, <1>7, MaxStepsNat DEF Typed, Init

\* Every step keeps the type invariant.
LEMMA TypedStep ==
  ASSUME Typed, [Next]_vars
  PROVE  Typed'
<1>1. ASSUME NEW kind \in Literals, Literal(kind) PROVE Typed'
  BY <1>1, TypedLiteral
<1>2. ASSUME NEW i \in Postfix, Operate(i) PROVE Typed'
  BY <1>2, TypedOperate
<1>3. ASSUME NEW i \in ListLiterals, Collect(i) PROVE Typed'
  BY <1>3, TypedOperate DEF Collect
<1>4. ASSUME NEW kind \in Logical, BeginLogical(kind) PROVE Typed'
  BY <1>4, TypedBeginLogical
<1>5. ASSUME NEW kind \in {"function", "deferred"}, BeginFunction(kind) PROVE Typed'
  BY <1>5, TypedBeginFunction
<1>6. ASSUME NEW captures \in {0, 1}, EndFunction(captures) PROVE Typed'
  BY <1>6, TypedEndFunction
<1>7. ASSUME NEW kind \in {"expression", "return", "if"}, Begin(kind) PROVE Typed'
  BY <1>7, TypedBegin
<1>8. ASSUME NEW id \in Exit, BeginJump(id) PROVE Typed'
  BY <1>8, TypedBeginJump
<1>9. EndLogical \/ EndExpression \/ EndReturn \/ NextCondition => Typed'
  BY TypedEndLogical, TypedEndStatement, TypedNextCondition
<1>10. BeginThen \/ EndThen \/ Else \/ ElseIf \/ EndIf => Typed'
  BY TypedBeginThen, TypedEndThen, TypedElse, TypedElseIf, TypedEndIf
<1>11. BeginFor \/ BeginForIn \/ BeginBody \/ BeginBodyIn => Typed'
  BY TypedBeginFor, TypedBeginForIn, TypedBeginBody, TypedBeginBodyIn
<1>12. EndLoop \/ EndScript => Typed'
  BY TypedEndLoop, TypedEndScript
<1>13. UNCHANGED vars => Typed'
  BY DEF vars, Typed, UnitsOK, OpenOK
<1>14. "and" \in Logical /\ "or" \in Logical /\ Exit = {"BREAK", "CONTINUE"}
  BY DEF Logical, Exit
<1> QED
  BY <1>1, <1>2, <1>3, <1>4, <1>5, <1>6, <1>7, <1>8, <1>9, <1>10, <1>11, <1>12, <1>13, <1>14
  DEF Next

\* The units are as many as the functions that are open, and everything the
\* compiler keeps has its type, whatever the program and its length.
THEOREM TypeCorrect == Spec => []TypeOK
<1>1. Init => Typed
  BY TypedInit
<1>2. Typed /\ [Next]_vars => Typed'
  BY TypedStep
<1>3. Typed => TypeOK
  BY DEF Typed, TypeOK, UnitsOK, OpenOK, Functions, Functional
<1> QED
  BY <1>1, <1>2, <1>3, PTL DEF Spec
-----------------------------------------------------------------------------
(* A unit.                                                                 *)

\* Where an instruction ends, where its target is written, and the height of the
\* operand stack after it.
EndOf(u, p) == p + 1 + Reads(IdAt(u, p))
Slot(u, p) == IF IdAt(u, p) = "CHK" THEN p + 2 ELSE p + 1
Target(u, p) == At(u.code, Slot(u, p))
After(u, s) ==
  s.height - Takes(IdAt(u, s.pos), Operands(u, s.pos)) + Gives(IdAt(u, s.pos))

\* The sites tile the code.
Layout(u) ==
  /\ \A p \in Starts(u) : /\ p < Size(u)
                          /\ At(u.code, p) < Len(OpcodeList)
                          /\ EndOf(u, p) \in Starts(u) \cup {Size(u)}
  /\ 0 \in Starts(u) \cup {Size(u)}
  /\ \A p, q \in Starts(u) : p < q => EndOf(u, p) <= q
  /\ \A j, k \in DOMAIN u.sites : u.sites[j].pos = u.sites[k].pos => j = k
  /\ IF u.sites = <<>> THEN u.last = Number["CONST_"]
     ELSE LET p == u.sites[Len(u.sites)].pos
          IN  EndOf(u, p) = Size(u) /\ u.last = At(u.code, p)

\* Jumps go to an instruction, or to the one that is emitted next.
Jumping(u) == {p \in Starts(u) : IdAt(u, p) \in Short \cup Exit}
Lands(u) == \A p \in Jumping(u) : Target(u, p) \in Starts(u) \cup {Size(u)}
Settled(u) == \A p \in Jumping(u) : Target(u, p) \in Starts(u)

GoalsMet(u) ==
  \A g \in u.goals : /\ g.at - 1 \in Starts(u)
                     /\ IdAt(u, g.at - 1) \in Exit
                     /\ At(u.code, g.at) = g.target

\* The operand stack has height h at position p.
Level(u, p, h) ==
  /\ \A t \in Range(u.sites) : t.pos = p => t.height = h
  /\ p = Size(u) => u.height = h

\* The jumps whose target is known: those of W are still to be patched.
Tied(u, W) ==
  {p \in Starts(u) : \/ IdAt(u, p) \in Short /\ p \notin W
                     \/ IdAt(u, p) \in Exit /\ \E g \in u.goals : g.at = p + 1}
Heights(u, W) ==
  /\ Level(u, 0, 0)
  /\ \A s \in Range(u.sites) :
       /\ Takes(IdAt(u, s.pos), Operands(u, s.pos)) <= s.height
       /\ Level(u, EndOf(u, s.pos), After(u, s))
       /\ s.pos \in Tied(u, W) => Level(u, Target(u, s.pos), After(u, s))

Laid(u, W) ==
  /\ Layout(u)
  /\ Lands(u)
  /\ GoalsMet(u)
  /\ ~u.chained => Heights(u, W)
-----------------------------------------------------------------------------
(* A unit and the constructs that are open in it.                          *)

Anchored == {"then", "body", "alt", "alted", "else", "and", "or"}
Anchor(kind) == CASE kind \in {"then", "body"} -> "JNZ"
                  [] kind \in Logical -> "CHK"
                  [] OTHER -> "JMP"

Unpatched(u, c, id, b) ==
  /\ b - 1 \in Starts(u) /\ b > c.start
  /\ IdAt(u, b - 1) = id /\ At(u.code, b) = 0

LoopHeld(u, c) ==
  /\ c.start \in Starts(u) \cup {Size(u)}
  /\ c.kind = "body" => c.start <= c.pos
  /\ \A p \in Starts(u) : p >= c.start => IdAt(u, p) \notin {"PACK", "MAP", "CHK"}
  /\ \A b \in c.breaks : Unpatched(u, c, "BREAK", b)
  /\ \A b \in c.continues : Unpatched(u, c, "CONTINUE", b)
  /\ \A g \in u.goals : g.target = 0 => g.at < c.start
  /\ ~u.chained => /\ Level(u, c.start, 0)
                   /\ \A s \in Range(u.sites) :
                        s.pos + 1 \in c.breaks \cup c.continues => s.height = 0

AnchorHeld(u, c) ==
  /\ c.pos \in Starts(u)
  /\ IdAt(u, c.pos) = Anchor(c.kind)
  /\ ~u.chained /\ c.kind \notin Logical =>
       \A s \in Range(u.sites) : s.pos = c.pos => After(u, s) = 0

Held(u, c) ==
  /\ c.kind \in Anchored => AnchorHeld(u, c)
  /\ c.kind \in LoopKind => LoopHeld(u, c)

\* The height of the operand stack within a construct.
Total(u, c, h) ==
  IF c.kind \in Logical
    THEN \A s \in Range(u.sites) : s.pos = c.pos => h = s.height + c.pending
    ELSE h = c.pending

Frame(u, o, lo, hi, W) ==
  /\ Laid(u, W)
  /\ \A i \in lo .. hi : Held(u, o[i])
  /\ \A i \in lo .. hi - 1 : o[i].kind \in LoopKind => o[i].start < Size(u)
  /\ \A i, j \in lo .. hi :
       i < j /\ o[i].kind \in LoopKind /\ o[j].kind \in LoopKind =>
         /\ o[i].start < o[j].start
         /\ \A b \in o[i].breaks \cup o[i].continues : b < o[j].start
  /\ ~u.chained => \A i \in lo + 1 .. hi : o[i].kind \in Logical =>
       \A s \in Range(u.sites) : s.pos = o[i].pos => Total(u, o[i - 1], s.height)

Anchors(o, lo, hi) == {o[i].pos : i \in {j \in lo .. hi : o[j].kind \in Anchored}}
Part(u, o, lo, hi) ==
  /\ Frame(u, o, lo, hi, Anchors(o, lo, hi))
  /\ o[hi].kind \in Functional \cup {"then", "body"} => Settled(u)
  /\ ~u.chained => Total(u, o[hi], u.height)

\* The constructs of each unit: base has the place of its function in `open'.
Upper(base, k, o) == IF k = Len(base) THEN Len(o) ELSE base[k + 1] - 1
Bases(base, us, o) ==
  /\ base \in Seq(Nat \ {0}) /\ Len(base) = Len(us)
  /\ us = <<>> <=> o = <<>>
  /\ us # <<>> => base[1] = 1
  /\ \A j, k \in DOMAIN base : j < k => base[j] < base[k]
  /\ \A k \in DOMAIN base :
       /\ base[k] <= Upper(base, k, o) /\ Upper(base, k, o) <= Len(o)
       /\ o[base[k]].kind \in Functional
       /\ \A i \in base[k] + 1 .. Upper(base, k, o) : o[i].kind \notin Functional
Parts(base, us, o) ==
  \A k \in DOMAIN us : Part(us[k], o, base[k], Upper(base, k, o))
-----------------------------------------------------------------------------
(* The layout of a unit.                                                   *)

LEMMA SiteFacts ==
  ASSUME NEW u \in Unit, Layout(u), NEW p \in Starts(u)
  PROVE  /\ p \in Nat /\ p < Size(u)
         /\ At(u.code, p) \in 0 .. 43 /\ Number[IdAt(u, p)] = At(u.code, p)
         /\ IdAt(u, p) \in Ids /\ Reads(IdAt(u, p)) \in 0 .. 2
         /\ EndOf(u, p) = p + 1 + Reads(IdAt(u, p)) /\ EndOf(u, p) <= Size(u)
         /\ Instruction(IdAt(u, p), Operands(u, p))
         /\ \A j \in 1 .. Reads(IdAt(u, p)) : Operands(u, p)[j] = At(u.code, p + j)
<1>1. p \in Nat /\ Size(u) \in Nat /\ u.code \in Seq(Nat)
  BY UnitFacts
<1>2. p < Size(u)
  BY DEF Layout
<1>3. At(u.code, p) \in 0 .. 43
  <2>1. At(u.code, p) < 44
    BY Opcodes DEF Layout
  <2>2. At(u.code, p) \in Nat
    BY <1>1, <1>2, UnitFacts
  <2> QED
    BY <2>1, <2>2, SMTT(40)
<1>4. IdAt(u, p) \in Ids /\ Number[IdAt(u, p)] = At(u.code, p)
  BY <1>3, Numbers DEF IdAt
<1> DEFINE k == Reads(IdAt(u, p))
<1>5. k \in 0 .. 2
  BY <1>4, InstructionSizes
<1>6. EndOf(u, p) = p + 1 + k
  BY DEF EndOf
<1> HIDE DEF k
<1>7. EndOf(u, p) <= Size(u)
  <2>1. \A q \in Starts(u) : q \in Nat /\ q < Size(u)
    BY UnitFacts DEF Layout
  <2> DEFINE e == EndOf(u, p)
  <2>2. e \in Starts(u) \/ e = Size(u)
    BY DEF Layout
  <2> HIDE DEF e
  <2>3. e \in Starts(u) => e <= Size(u)
    BY <1>1, <2>1
  <2>4. e = Size(u) => e <= Size(u)
    BY <1>1
  <2> QED
    BY <2>2, <2>3, <2>4 DEF e
<1> DEFINE w == [j \in 1 .. k |-> At(u.code, p + j)]
<1>8. Operands(u, p) = w
  <2> DEFINE a == p + 2
             b == p + 1 + k
  <2>1. Operands(u, p) = SubSeq(u.code, a, b)
    BY DEF Operands, k
  <2>2. a \in Nat /\ b \in Nat /\ b - a + 1 = k
    BY <1>1, <1>5
  <2>3. \A j \in 1 .. k : j + a - 1 = p + j + 1
    BY <1>1, <1>5
  <2> HIDE DEF a, b
  <2>4. SubSeq(u.code, a, b) = [j \in 1 .. b - a + 1 |-> u.code[j + a - 1]]
    BY <1>1, <2>2
  <2> QED
    BY <2>1, <2>2, <2>3, <2>4 DEF At
<1>9. \A j \in 1 .. k : At(u.code, p + j) \in Nat
  <2> TAKE j \in 1 .. k
  <2>1. p + j \in 0 .. Size(u) - 1
    BY <1>1, <1>5, <1>6, <1>7
  <2> QED
    BY <2>1, UnitFacts
<1>10. w \in Seq(Nat) /\ Len(w) = k
  BY <1>5, <1>9
<1>11. \A j \in 1 .. k : w[j] = At(u.code, p + j)
  OBVIOUS
<1> HIDE DEF w
<1> QED
  BY <1>1, <1>2, <1>3, <1>4, <1>5, <1>6, <1>7, <1>8, <1>10, <1>11 DEF Instruction, k

\* What is emitted does not touch the instructions before.
LEMMA Kept ==
  ASSUME NEW u \in Unit, Layout(u), NEW id, NEW w, Instruction(id, w),
         NEW v, Extends(u, id, w, v), NEW p \in Starts(u)
  PROVE  /\ p \in Starts(v) /\ IdAt(v, p) = IdAt(u, p) /\ EndOf(v, p) = EndOf(u, p)
         /\ Operands(v, p) = Operands(u, p)
         /\ Slot(v, p) = Slot(u, p)
         /\ IdAt(u, p) \in Short \cup Exit => Target(v, p) = Target(u, p)
<1>1. /\ p \in Nat /\ p < Size(u) /\ Reads(IdAt(u, p)) \in 0 .. 2
      /\ EndOf(u, p) = p + 1 + Reads(IdAt(u, p)) /\ EndOf(u, p) <= Size(u)
      /\ Size(u) \in Nat
  BY SiteFacts, UnitFacts
<1>2. \A i \in 0 .. Size(u) - 1 : At(v.code, i) = At(u.code, i)
  BY DEF Extends
<1>3. p \in 0 .. Size(u) - 1
  BY <1>1
<1>4. IdAt(v, p) = IdAt(u, p)
  BY <1>2, <1>3 DEF IdAt
<1>5. EndOf(v, p) = EndOf(u, p) /\ Slot(v, p) = Slot(u, p)
  BY <1>4 DEF EndOf, Slot
<1>6. Operands(v, p) = Operands(u, p)
  <2> DEFINE k == Reads(IdAt(u, p))
             a == p + 2
             b == p + 1 + k
  <2>1. /\ a \in Nat /\ b \in Nat /\ a > 0 /\ b <= Size(u)
    BY <1>1
  <2>2. u.code \in Seq(Nat) /\ v.code \in Seq(Nat)
    BY UnitFacts DEF Extends
  <2>3. \A j \in a .. b : u.code[j] = v.code[j]
    <3> TAKE j \in a .. b
    <3>1. j - 1 \in 0 .. Size(u) - 1 /\ j - 1 + 1 = j
      BY <1>1, <2>1
    <3> QED
      BY <1>2, <3>1 DEF At
  <2>4. Operands(v, p) = SubSeq(v.code, a, b) /\ Operands(u, p) = SubSeq(u.code, a, b)
    BY <1>4 DEF Operands
  <2> HIDE DEF a, b, k
  <2>5. /\ SubSeq(v.code, a, b) = [j \in 1 .. b - a + 1 |-> v.code[j + a - 1]]
        /\ SubSeq(u.code, a, b) = [j \in 1 .. b - a + 1 |-> u.code[j + a - 1]]
    BY <2>1, <2>2
  <2>6. \A j \in 1 .. b - a + 1 : j + a - 1 \in a .. b
    BY <2>1
  <2> QED
    BY <2>3, <2>4, <2>5, <2>6
<1>7. IdAt(u, p) \in Short \cup Exit => Target(v, p) = Target(u, p)
  <2> SUFFICES ASSUME IdAt(u, p) \in Short \cup Exit PROVE Target(v, p) = Target(u, p)
    OBVIOUS
  <2>1. Slot(u, p) \in 0 .. Size(u) - 1
    BY <1>1, InstructionSizes DEF Slot, Short, Exit
  <2> QED
    BY <1>2, <1>5, <2>1 DEF Target
<1>8. p \in Starts(v)
  BY DEF Extends
<1> QED
  BY <1>4, <1>5, <1>6, <1>7, <1>8

\* The instruction that is emitted.
LEMMA Added ==
  ASSUME NEW u \in Unit, NEW id, NEW w, Instruction(id, w), NEW v, Extends(u, id, w, v)
  PROVE  /\ Size(u) \in Starts(v) /\ IdAt(v, Size(u)) = id /\ EndOf(v, Size(u)) = Size(v)
         /\ Operands(v, Size(u)) = w
         /\ id \in {"JMP", "JNZ", "BREAK", "CONTINUE"} => Target(v, Size(u)) = w[1]
         /\ id = "CHK" => Target(v, Size(u)) = w[2]
<1> DEFINE p == Size(u)
           k == Reads(id)
<1>1. p \in Nat /\ v \in Unit /\ id \in Ids /\ k \in 0 .. 2 /\ Size(v) = p + 1 + k
      /\ w \in Seq(Nat) /\ Len(w) = k
  BY UnitFacts, InstructionSizes DEF Extends, Instruction
<1>2. IdAt(v, p) = id
  BY <1>1, Numbers DEF IdAt, Extends
<1>3. EndOf(v, p) = Size(v)
  BY <1>1, <1>2 DEF EndOf
<1>4. \A j \in 1 .. k : At(v.code, p + j) = w[j]
  BY DEF Extends
<1>5. p \in Starts(v)
  BY DEF Extends
<1> HIDE DEF p, k
<1>6. Operands(v, p) = w
  <2> DEFINE a == p + 2
             b == p + 1 + k
  <2>1. Operands(v, p) = SubSeq(v.code, a, b)
    BY <1>2 DEF Operands, k
  <2>2. a \in Nat /\ b \in Nat /\ b - a + 1 = k /\ v.code \in Seq(Nat)
    BY <1>1, UnitFacts
  <2>3. \A j \in 1 .. k : j + a - 1 = p + j + 1
    BY <1>1
  <2> HIDE DEF a, b
  <2>4. SubSeq(v.code, a, b) = [j \in 1 .. b - a + 1 |-> v.code[j + a - 1]]
    BY <2>2
  <2>5. \A j \in 1 .. k : v.code[j + a - 1] = w[j]
    BY <1>4, <2>3 DEF At
  <2>6. w = [j \in 1 .. k |-> w[j]]
    BY <1>1
  <2> QED
    BY <2>1, <2>2, <2>4, <2>5, <2>6
<1>7. id \in {"JMP", "JNZ", "BREAK", "CONTINUE"} => Target(v, p) = w[1]
  <2> SUFFICES ASSUME id \in {"JMP", "JNZ", "BREAK", "CONTINUE"} PROVE Target(v, p) = w[1]
    OBVIOUS
  <2>1. k = 1 /\ Slot(v, p) = p + 1
    BY <1>2, InstructionSizes DEF Slot, k
  <2> QED
    BY <1>4, <2>1 DEF Target
<1>8. id = "CHK" => Target(v, p) = w[2]
  <2> SUFFICES ASSUME id = "CHK" PROVE Target(v, p) = w[2]
    OBVIOUS
  <2>1. k = 2 /\ Slot(v, p) = p + 2
    BY <1>2, InstructionSizes DEF Slot, k
  <2> QED
    BY <1>4, <2>1 DEF Target
<1> QED
  BY <1>2, <1>3, <1>5, <1>6, <1>7, <1>8 DEF p

LEMMA PutLayout ==
  ASSUME NEW u \in Unit, Layout(u), NEW id, NEW w, Instruction(id, w),
         NEW v, Extends(u, id, w, v)
  PROVE  Layout(v)
<1>1. /\ v \in Unit /\ Size(u) \in Nat /\ Reads(id) \in 0 .. 2
      /\ Size(v) = Size(u) + 1 + Reads(id) /\ Starts(v) = Starts(u) \cup {Size(u)}
      /\ Starts(u) \subseteq Nat
  BY UnitFacts, InstructionSizes DEF Extends, Instruction
<1>2. /\ Size(u) \in Starts(v) /\ IdAt(v, Size(u)) = id /\ EndOf(v, Size(u)) = Size(v)
      /\ At(v.code, Size(u)) = Number[id] /\ Number[id] < 44
  <2>1. Number[id] \in 0 .. 43
    BY Numbers DEF Instruction
  <2>2. Number[id] < 44
    BY <2>1
  <2>3. At(v.code, Size(u)) = Number[id]
    BY DEF Extends
  <2> QED
    BY <2>2, <2>3, Added
<1>3. ASSUME NEW p \in Starts(u)
      PROVE  /\ p \in Nat /\ p < Size(u) /\ At(u.code, p) < 44
             /\ At(v.code, p) = At(u.code, p)
             /\ EndOf(v, p) = EndOf(u, p) /\ EndOf(u, p) \in Starts(v) /\ EndOf(u, p) <= Size(u)
  <2>1. p \in Nat /\ p < Size(u) /\ At(u.code, p) < 44 /\ EndOf(u, p) <= Size(u)
    BY SiteFacts
  <2>2. At(v.code, p) = At(u.code, p)
    BY <1>1, <2>1 DEF Extends
  <2>3. EndOf(v, p) = EndOf(u, p)
    BY Kept
  <2>4. EndOf(u, p) \in Starts(u) \cup {Size(u)}
    BY DEF Layout
  <2> QED
    BY <1>1, <2>1, <2>2, <2>3, <2>4
<1>4. \A p \in Starts(v) : /\ p < Size(v) /\ At(v.code, p) < Len(OpcodeList)
                           /\ EndOf(v, p) \in Starts(v) \cup {Size(v)}
  <2> SUFFICES ASSUME NEW p \in Starts(v)
               PROVE  /\ p < Size(v) /\ At(v.code, p) < 44
                      /\ EndOf(v, p) \in Starts(v) \cup {Size(v)}
    BY Opcodes
  <2>1. CASE p \in Starts(u)
    BY <1>1, <1>3, <2>1
  <2>2. CASE p = Size(u)
    BY <1>1, <1>2, <2>2
  <2> QED
    BY <1>1, <2>1, <2>2, SMTT(40)
<1>5. 0 \in Starts(v)
  BY <1>1 DEF Layout
<1>6. ASSUME NEW p \in Starts(v), NEW q \in Starts(v), p < q
      PROVE  EndOf(v, p) <= q
  <2>1. q \in Starts(u) => q < Size(u)
    BY <1>3
  <2>2. p \in Starts(u)
    BY <1>1, <1>6, <2>1
  <2>3. CASE q \in Starts(u)
    BY <1>3, <1>6, <2>2, <2>3 DEF Layout
  <2>4. CASE q = Size(u)
    BY <1>3, <2>2, <2>4
  <2> QED
    BY <1>1, <2>3, <2>4
<1> DEFINE n == Len(u.sites)
           site == [pos |-> Size(u), height |-> u.height]
<1>7. /\ n \in Nat /\ u.sites \in Seq(Site) /\ DOMAIN u.sites = 1 .. n
      /\ DOMAIN v.sites = 1 .. n + 1 /\ Len(v.sites) = n + 1
      /\ \A j \in 1 .. n : v.sites[j] = u.sites[j] /\ u.sites[j].pos \in Starts(u)
      /\ v.sites[n + 1] = site /\ site.pos = Size(u)
  <2>1. n \in Nat /\ u.sites \in Seq(Site) /\ DOMAIN u.sites = 1 .. n
    BY UnitFacts
  <2>2. v.sites = Append(u.sites, site)
    BY DEF Extends
  <2>3. site.pos = Size(u)
    OBVIOUS
  <2>4. site \in Site
    BY <1>1, UnitFacts DEF Site
  <2>5. \A j \in 1 .. n : u.sites[j].pos \in Starts(u)
    BY <2>1 DEF Starts, Range
  <2> HIDE DEF site, n
  <2> QED
    BY <2>1, <2>2, <2>3, <2>4, <2>5 DEF n
<1> HIDE DEF n, site
<1>8. ASSUME NEW j \in DOMAIN v.sites, NEW k \in DOMAIN v.sites,
             v.sites[j].pos = v.sites[k].pos
      PROVE  j = k
  <2>1. \A i \in 1 .. n : v.sites[i].pos \in Nat /\ v.sites[i].pos < Size(u)
    BY <1>3, <1>7
  <2>2. CASE j \in 1 .. n /\ k \in 1 .. n
    BY <1>7, <1>8, <2>2 DEF Layout
  <2>3. CASE j = n + 1 /\ k \in 1 .. n
    BY <1>1, <1>7, <1>8, <2>1, <2>3
  <2>4. CASE j \in 1 .. n /\ k = n + 1
    BY <1>1, <1>7, <1>8, <2>1, <2>4
  <2>5. CASE j = n + 1 /\ k = n + 1
    BY <2>5
  <2> QED
    BY <1>7, <2>2, <2>3, <2>4, <2>5
<1>9. IF v.sites = <<>> THEN v.last = Number["CONST_"]
      ELSE LET p == v.sites[Len(v.sites)].pos
           IN  EndOf(v, p) = Size(v) /\ v.last = At(v.code, p)
  <2>1. v.sites # <<>>
    BY <1>7
  <2>2. v.sites[Len(v.sites)].pos = Size(u)
    BY <1>7
  <2>3. v.last = Number[id]
    BY DEF Extends
  <2> QED
    BY <1>2, <2>1, <2>2, <2>3
<1> QED
  BY <1>4, <1>5, <1>6, <1>8, <1>9 DEF Layout

\* What comes next in the code is where jumps to the end go.
LEMMA PutSettled ==
  ASSUME NEW u \in Unit, Layout(u), Lands(u), NEW id, NEW w, Instruction(id, w),
         NEW v, Extends(u, id, w, v),
         id \in Short \cup Exit => Target(v, Size(u)) \in Starts(v)
  PROVE  Settled(v) /\ Lands(v)
<1>1. Starts(v) = Starts(u) \cup {Size(u)}
  BY DEF Extends
<1>2. ASSUME NEW p \in Jumping(v) PROVE Target(v, p) \in Starts(v)
  <2>1. CASE p \in Starts(u)
    <3>1. IdAt(v, p) = IdAt(u, p) /\ (IdAt(u, p) \in Short \cup Exit => Target(v, p) = Target(u, p))
      BY <2>1, Kept
    <3>2. IdAt(v, p) \in Short \cup Exit
      BY DEF Jumping
    <3>3. p \in Jumping(u)
      BY <2>1, <3>1, <3>2 DEF Jumping
    <3> QED
      BY <1>1, <3>1, <3>2, <3>3 DEF Lands
  <2>2. CASE p = Size(u)
    <3>1. IdAt(v, p) = id
      BY <2>2, Added
    <3> QED
      BY <2>2, <3>1 DEF Jumping
  <2> QED
    BY <1>1, <2>1, <2>2 DEF Jumping
<1> QED
  BY <1>2 DEF Settled, Lands

LEMMA PutGoals ==
  ASSUME NEW u \in Unit, Layout(u), GoalsMet(u), NEW id, NEW w, Instruction(id, w),
         NEW v, Extends(u, id, w, v)
  PROVE  GoalsMet(v)
<1> SUFFICES ASSUME NEW g \in v.goals
             PROVE  /\ g.at - 1 \in Starts(v)
                    /\ IdAt(v, g.at - 1) \in Exit
                    /\ At(v.code, g.at) = g.target
  BY DEF GoalsMet
<1>1. g \in u.goals /\ g.at \in Nat
  BY UnitFacts DEF Extends
<1>2. /\ g.at - 1 \in Starts(u) /\ IdAt(u, g.at - 1) \in Exit
      /\ At(u.code, g.at) = g.target
  BY <1>1 DEF GoalsMet
<1>3. g.at - 1 \in Starts(v) /\ IdAt(v, g.at - 1) = IdAt(u, g.at - 1)
  BY <1>2, Kept
<1>4. Reads(IdAt(u, g.at - 1)) = 1
  BY <1>2, InstructionSizes DEF Exit
<1>5. g.at - 1 + 1 + 1 <= Size(u) /\ Size(u) \in Nat
  BY <1>2, <1>4, SiteFacts, UnitFacts
<1>6. g.at \in 0 .. Size(u) - 1
  BY <1>1, <1>5
<1> QED
  BY <1>2, <1>3, <1>6 DEF Extends

\* Heights at positions that there are stay.
LEMMA LevelKept ==
  ASSUME NEW u \in Unit, Layout(u), NEW id, NEW w, Instruction(id, w),
         NEW v, Extends(u, id, w, v), NEW q \in Starts(u) \cup {Size(u)}, NEW h, Level(u, q, h)
  PROVE  Level(v, q, h)
<1> DEFINE site == [pos |-> Size(u), height |-> u.height]
<1>1. Range(v.sites) = Range(u.sites) \cup {site} /\ site.pos = Size(u) /\ site.height = u.height
  BY DEF Extends
<1>2. q \in Nat /\ q <= Size(u) /\ Size(u) < Size(v) /\ Size(u) \in Nat
  <2>1. /\ Size(u) \in Nat /\ Reads(id) \in 0 .. 2 /\ Size(v) = Size(u) + 1 + Reads(id)
    BY UnitFacts, InstructionSizes DEF Extends, Instruction
  <2>2. q \in Starts(u) => q \in Nat /\ q < Size(u)
    BY SiteFacts
  <2> QED
    BY <2>1, <2>2
<1> HIDE DEF site
<1>3. \A t \in Range(v.sites) : t.pos = q => t.height = h
  BY <1>1 DEF Level
<1>4. q # Size(v)
  BY <1>2
<1> QED
  BY <1>3, <1>4 DEF Level

LEMMA PutHeights ==
  ASSUME NEW u \in Unit, Layout(u), Lands(u), GoalsMet(u), NEW W, Heights(u, W),
         NEW id, NEW w, Instruction(id, w), NEW v, Extends(u, id, w, v),
         Takes(id, w) <= u.height, NEW W2, W \subseteq W2, id \in Short => Size(u) \in W2
  PROVE  Heights(v, W2)
<1> DEFINE site == [pos |-> Size(u), height |-> u.height]
<1>1. /\ Range(v.sites) = Range(u.sites) \cup {site} /\ site.pos = Size(u)
      /\ site.height = u.height /\ Starts(v) = Starts(u) \cup {Size(u)}
      /\ v.goals = u.goals /\ v.height = u.height - Takes(id, w) + Gives(id)
  BY DEF Extends
<1> HIDE DEF site
<1>2. Level(v, 0, 0)
  <2>1. 0 \in Starts(u) \cup {Size(u)} /\ Level(u, 0, 0)
    BY DEF Layout, Heights
  <2> QED
    BY <2>1, LevelKept
<1>3. /\ IdAt(v, Size(u)) = id /\ EndOf(v, Size(u)) = Size(v) /\ Operands(v, Size(u)) = w
  BY Added
<1>4. \A p \in Starts(u) : p \in Nat /\ p < Size(u)
  BY SiteFacts
<1>5. Size(u) \in Nat
  BY UnitFacts
<1>6. ASSUME NEW s \in Range(u.sites)
      PROVE  /\ Takes(IdAt(v, s.pos), Operands(v, s.pos)) <= s.height
             /\ Level(v, EndOf(v, s.pos), After(v, s))
             /\ s.pos \in Tied(v, W2) => Level(v, Target(v, s.pos), After(v, s))
  <2>1. s.pos \in Starts(u)
    BY DEF Starts
  <2>2. /\ IdAt(v, s.pos) = IdAt(u, s.pos) /\ EndOf(v, s.pos) = EndOf(u, s.pos)
        /\ Operands(v, s.pos) = Operands(u, s.pos)
        /\ IdAt(u, s.pos) \in Short \cup Exit => Target(v, s.pos) = Target(u, s.pos)
    BY <2>1, Kept
  <2>3. After(v, s) = After(u, s)
    BY <2>2 DEF After
  <2>4. /\ Takes(IdAt(u, s.pos), Operands(u, s.pos)) <= s.height
        /\ Level(u, EndOf(u, s.pos), After(u, s))
        /\ s.pos \in Tied(u, W) => Level(u, Target(u, s.pos), After(u, s))
    BY DEF Heights
  <2>5. EndOf(u, s.pos) \in Starts(u) \cup {Size(u)}
    BY <2>1 DEF Layout
  <2>6. Level(v, EndOf(v, s.pos), After(v, s))
    BY <2>2, <2>3, <2>4, <2>5, LevelKept
  <2>7. ASSUME s.pos \in Tied(v, W2) PROVE Level(v, Target(v, s.pos), After(v, s))
    <3>1. s.pos \in Tied(u, W) /\ IdAt(u, s.pos) \in Short \cup Exit
      BY <1>1, <2>1, <2>2, <2>7 DEF Tied
    <3>2. Target(u, s.pos) \in Starts(u) \cup {Size(u)}
      BY <2>1, <3>1 DEF Lands, Jumping
    <3> QED
      BY <2>2, <2>3, <2>4, <3>1, <3>2, LevelKept
  <2> QED
    BY <2>2, <2>4, <2>6, <2>7
<1>7. /\ Takes(IdAt(v, site.pos), Operands(v, site.pos)) <= site.height
      /\ Level(v, EndOf(v, site.pos), After(v, site))
      /\ site.pos \notin Tied(v, W2)
  <2>1. After(v, site) = v.height
    BY <1>1, <1>3 DEF After
  <2>2. \A t \in Range(v.sites) : t.pos # Size(v)
    <3> SUFFICES ASSUME NEW t \in Range(v.sites) PROVE t.pos # Size(v)
      OBVIOUS
    <3>1. t.pos \in Starts(v) /\ v \in Unit
      BY DEF Starts, Extends
    <3>2. Layout(v)
      BY PutLayout
    <3>3. t.pos \in Nat /\ t.pos < Size(v)
      BY <3>1, <3>2, SiteFacts
    <3> QED
      BY <3>3
  <2>3. Level(v, Size(v), v.height)
    BY <2>2 DEF Level
  <2>4. site.pos \notin Tied(v, W2)
    <3> SUFFICES ASSUME Size(u) \in Tied(v, W2) PROVE FALSE
      BY <1>1
    <3>1. PICK g \in u.goals : g.at = Size(u) + 1
      BY <1>1, <1>3 DEF Tied
    <3>2. g.at - 1 \in Starts(u)
      BY DEF GoalsMet
    <3>3. g.at - 1 = Size(u)
      BY <1>5, <3>1
    <3> QED
      BY <1>4, <1>5, <3>2, <3>3
  <2> QED
    BY <1>1, <1>3, <2>1, <2>3, <2>4
<1> QED
  BY <1>1, <1>2, <1>6, <1>7 DEF Heights

LEMMA PutLaid ==
  ASSUME NEW u \in Unit, NEW W, Laid(u, W), NEW id, NEW w, Instruction(id, w),
         NEW v, Extends(u, id, w, v), ~u.chained => Takes(id, w) <= u.height,
         id \in Short \cup Exit => Target(v, Size(u)) \in Starts(v),
         NEW W2, W \subseteq W2, id \in Short => Size(u) \in W2
  PROVE  Laid(v, W2) /\ Settled(v)
<1>1. Layout(u) /\ Lands(u) /\ GoalsMet(u) /\ (~u.chained => Heights(u, W))
  BY DEF Laid
<1>2. Layout(v) /\ Lands(v) /\ Settled(v) /\ GoalsMet(v)
  BY <1>1, PutLayout, PutSettled, PutGoals
<1>3. v.chained = u.chained
  BY DEF Extends
<1>4. ~u.chained => Heights(v, W2)
  BY <1>1, PutHeights
<1> QED
  BY <1>2, <1>3, <1>4 DEF Laid
-----------------------------------------------------------------------------
(* Patching.                                                               *)

\* v is u with other targets for the jumps in D.
Repatched(u, v, D) ==
  /\ v \in Unit
  /\ Size(v) = Size(u) /\ v.sites = u.sites /\ v.last = u.last /\ v.height = u.height
  /\ v.goals = u.goals /\ v.chained = u.chained
  /\ D \subseteq Jumping(u)
  /\ \A i \in 0 .. Size(u) - 1 :
       \/ At(v.code, i) = At(u.code, i)
       \/ \E p \in D : i = Slot(u, p) /\ At(v.code, i) \in Starts(u) \cup {Size(u)}

\* The target of a jump is written within the jump.
LEMMA SlotInside ==
  ASSUME NEW u \in Unit, Layout(u), NEW p \in Jumping(u)
  PROVE  /\ p \in Starts(u) /\ p \in Nat /\ Slot(u, p) \in Nat
         /\ p < Slot(u, p) /\ Slot(u, p) < EndOf(u, p) /\ Slot(u, p) < Size(u)
<1>1. p \in Starts(u) /\ IdAt(u, p) \in Short \cup Exit
  BY DEF Jumping
<1>2. p \in Nat /\ EndOf(u, p) = p + 1 + Reads(IdAt(u, p)) /\ EndOf(u, p) <= Size(u)
  BY <1>1, SiteFacts
<1>3. Size(u) \in Nat
  BY UnitFacts
<1>4. CASE IdAt(u, p) = "CHK"
  <2>1. Slot(u, p) = p + 2 /\ Reads(IdAt(u, p)) = 2
    BY <1>4, InstructionSizes DEF Slot
  <2> QED
    BY <1>1, <1>2, <1>3, <2>1
<1>5. CASE IdAt(u, p) # "CHK"
  <2>1. Slot(u, p) = p + 1 /\ Reads(IdAt(u, p)) = 1
    BY <1>1, <1>5, InstructionSizes DEF Slot, Short, Exit
  <2> QED
    BY <1>1, <1>2, <1>3, <2>1
<1> QED
  BY <1>4, <1>5

\* Patching leaves the instructions what they are.
LEMMA RepatchedKeeps ==
  ASSUME NEW u \in Unit, Layout(u), NEW v, NEW D, Repatched(u, v, D), NEW p \in Starts(u)
  PROVE  /\ Starts(v) = Starts(u)
         /\ At(v.code, p) = At(u.code, p)
         /\ IdAt(v, p) = IdAt(u, p) /\ EndOf(v, p) = EndOf(u, p) /\ Slot(v, p) = Slot(u, p)
         /\ Takes(IdAt(v, p), Operands(v, p)) = Takes(IdAt(u, p), Operands(u, p))
         /\ p \notin D /\ IdAt(u, p) \in Short \cup Exit => Target(v, p) = Target(u, p)
         /\ p \in D => \/ Target(v, p) = Target(u, p)
                       \/ Target(v, p) \in Starts(u) \cup {Size(u)}
<1>1. v \in Unit /\ Size(v) = Size(u) /\ Starts(v) = Starts(u) /\ D \subseteq Jumping(u)
  BY DEF Repatched, Starts
<1>2. /\ p \in Nat /\ p < Size(u) /\ Size(u) \in Nat /\ EndOf(u, p) <= Size(u)
      /\ EndOf(u, p) = p + 1 + Reads(IdAt(u, p)) /\ Reads(IdAt(u, p)) \in 0 .. 2
      /\ IdAt(u, p) \in Ids
  BY SiteFacts, UnitFacts
<1>3. ASSUME NEW i \in Nat, p <= i, i < EndOf(u, p), p \in D => i # Slot(u, p)
      PROVE  At(v.code, i) = At(u.code, i)
  <2>1. i \in 0 .. Size(u) - 1
    BY <1>2, <1>3
  <2> SUFFICES ASSUME NEW q \in D, i = Slot(u, q) PROVE FALSE
    BY <2>1 DEF Repatched
  <2>2. /\ q \in Starts(u) /\ q \in Nat /\ Slot(u, q) \in Nat
        /\ q < Slot(u, q) /\ Slot(u, q) < EndOf(u, q)
    BY <1>1, SlotInside
  <2>3. q # p
    BY <1>3
  <2>4. p < q => EndOf(u, p) <= q
    BY <2>2 DEF Layout
  <2>5. q < p => EndOf(u, q) <= p
    BY <2>2 DEF Layout
  <2>6. EndOf(u, q) \in Int /\ EndOf(u, p) \in Int
    BY <1>2, <2>2, SiteFacts
  <2>7. CASE p < q
    BY <1>2, <1>3, <2>2, <2>4, <2>6, <2>7
  <2>8. CASE q < p
    BY <1>2, <1>3, <2>2, <2>5, <2>6, <2>8
  <2> QED
    BY <1>2, <2>2, <2>3, <2>7, <2>8
<1>4. p \in D => p < Slot(u, p)
  BY <1>1, SlotInside
<1>5. At(v.code, p) = At(u.code, p)
  BY <1>2, <1>3, <1>4
<1>6. IdAt(v, p) = IdAt(u, p)
  BY <1>5 DEF IdAt
<1>7. EndOf(v, p) = EndOf(u, p) /\ Slot(v, p) = Slot(u, p)
  BY <1>6 DEF EndOf, Slot
<1>8. Takes(IdAt(v, p), Operands(v, p)) = Takes(IdAt(u, p), Operands(u, p))
  <2>1. CASE IdAt(u, p) \in Short \cup Exit
    BY <1>6, <2>1 DEF Takes, Short, Exit
  <2>2. CASE IdAt(u, p) \notin Short \cup Exit
    <3> DEFINE k == Reads(IdAt(u, p))
               a == p + 2
               b == p + 1 + k
    <3>1. p \notin D
      BY <1>1, <2>2 DEF Jumping
    <3>2. \A j \in a .. b : u.code[j] = v.code[j]
      <4> TAKE j \in a .. b
      <4>1. j - 1 \in Nat /\ p <= j - 1 /\ j - 1 < EndOf(u, p) /\ j - 1 + 1 = j
        BY <1>2
      <4> QED
        BY <1>3, <3>1, <4>1 DEF At
    <3>3. Operands(v, p) = SubSeq(v.code, a, b) /\ Operands(u, p) = SubSeq(u.code, a, b)
      BY <1>6 DEF Operands
    <3>4. a \in Nat /\ b \in Nat /\ a > 0 /\ u.code \in Seq(Nat) /\ v.code \in Seq(Nat)
      BY <1>1, <1>2, UnitFacts
    <3> HIDE DEF a, b, k
    <3>5. /\ SubSeq(v.code, a, b) = [j \in 1 .. b - a + 1 |-> v.code[j + a - 1]]
          /\ SubSeq(u.code, a, b) = [j \in 1 .. b - a + 1 |-> u.code[j + a - 1]]
      BY <3>4
    <3>6. \A j \in 1 .. b - a + 1 : j + a - 1 \in a .. b
      BY <3>4
    <3>7. Operands(v, p) = Operands(u, p)
      BY <3>2, <3>3, <3>5, <3>6
    <3> QED
      BY <1>6, <3>7
  <2> QED
    BY <2>1, <2>2
<1>9. ASSUME p \notin D, IdAt(u, p) \in Short \cup Exit PROVE Target(v, p) = Target(u, p)
  <2>1. Slot(u, p) \in Nat /\ p < Slot(u, p) /\ Slot(u, p) < EndOf(u, p)
    BY <1>9, SlotInside DEF Jumping
  <2>2. At(v.code, Slot(u, p)) = At(u.code, Slot(u, p))
    BY <1>2, <1>3, <1>9, <2>1
  <2> QED
    BY <1>7, <2>2 DEF Target
<1>10. ASSUME p \in D
       PROVE  Target(v, p) = Target(u, p) \/ Target(v, p) \in Starts(u) \cup {Size(u)}
  <2>1. Slot(u, p) \in Nat /\ Slot(u, p) < Size(u)
    BY <1>1, <1>10, SlotInside
  <2>2. Slot(u, p) \in 0 .. Size(u) - 1
    BY <1>2, <2>1
  <2> QED
    BY <1>7, <2>2 DEF Target, Repatched
<1> QED
  BY <1>1, <1>5, <1>6, <1>7, <1>8, <1>9, <1>10

\* Patching leaves the heights what they are.
LEMMA RepatchedAfter ==
  ASSUME NEW u \in Unit, Layout(u), NEW v, NEW D, Repatched(u, v, D), NEW s \in Range(u.sites)
  PROVE  After(v, s) = After(u, s)
<1>1. s.pos \in Starts(u)
  BY DEF Starts
<1> QED
  BY <1>1, RepatchedKeeps DEF After

LEMMA RepatchedLevel ==
  ASSUME NEW u, NEW v, NEW D, Repatched(u, v, D), NEW q, NEW h
  PROVE  Level(v, q, h) <=> Level(u, q, h)
BY DEF Level, Repatched

LEMMA RepatchedLaid ==
  ASSUME NEW u \in Unit, NEW W, Laid(u, W), NEW v, NEW D, Repatched(u, v, D),
         \A p \in D : p \notin Tied(u, W)
  PROVE  Laid(v, W)
<1>0. /\ Layout(u) /\ Lands(u) /\ GoalsMet(u) /\ (~u.chained => Heights(u, W))
      /\ Size(v) = Size(u) /\ v.sites = u.sites /\ v.last = u.last
      /\ v.goals = u.goals /\ v.chained = u.chained
      /\ Starts(v) = Starts(u) /\ D \subseteq Jumping(u) /\ v \in Unit
  BY DEF Laid, Repatched, Starts
<1>1. \A p \in Starts(u) :
        /\ At(v.code, p) = At(u.code, p)
        /\ IdAt(v, p) = IdAt(u, p) /\ EndOf(v, p) = EndOf(u, p)
        /\ p \notin D /\ IdAt(u, p) \in Short \cup Exit => Target(v, p) = Target(u, p)
        /\ p \in D => \/ Target(v, p) = Target(u, p)
                      \/ Target(v, p) \in Starts(u) \cup {Size(u)}
  BY <1>0, RepatchedKeeps
<1>2. Layout(v)
  <2>1. ASSUME u.sites # <<>>
        PROVE  LET p == u.sites[Len(u.sites)].pos
               IN  EndOf(v, p) = Size(v) /\ v.last = At(v.code, p)
    <3> DEFINE p == u.sites[Len(u.sites)].pos
    <3>1. EndOf(u, p) = Size(u) /\ u.last = At(u.code, p)
      BY <1>0, <2>1 DEF Layout
    <3>2. u.sites \in Seq(Site) /\ Len(u.sites) \in DOMAIN u.sites
      BY <2>1, UnitFacts
    <3>3. p \in Starts(u)
      BY <3>2 DEF Starts, Range
    <3> HIDE DEF p
    <3>4. EndOf(v, p) = Size(v) /\ v.last = At(v.code, p)
      BY <1>0, <1>1, <3>1, <3>3
    <3> QED
      BY <3>4 DEF p
  <2>2. \A p \in Starts(v) : /\ p < Size(v) /\ At(v.code, p) < Len(OpcodeList)
                             /\ EndOf(v, p) \in Starts(v) \cup {Size(v)}
    BY <1>0, <1>1 DEF Layout
  <2>3. \A p, q \in Starts(v) : p < q => EndOf(v, p) <= q
    BY <1>0, <1>1 DEF Layout
  <2>4. 0 \in Starts(v) \cup {Size(v)}
    BY <1>0 DEF Layout
  <2>5. \A j, k \in DOMAIN v.sites : v.sites[j].pos = v.sites[k].pos => j = k
    BY <1>0 DEF Layout
  <2>6. v.sites = <<>> => v.last = Number["CONST_"]
    BY <1>0 DEF Layout
  <2> QED
    BY <1>0, <2>1, <2>2, <2>3, <2>4, <2>5, <2>6 DEF Layout
<1>3. Lands(v)
  <2> SUFFICES ASSUME NEW p \in Jumping(v) PROVE Target(v, p) \in Starts(u) \cup {Size(u)}
    BY <1>0 DEF Lands
  <2>1. p \in Jumping(u) /\ p \in Starts(u) /\ IdAt(u, p) \in Short \cup Exit
    BY <1>0, <1>1 DEF Jumping
  <2>2. Target(u, p) \in Starts(u) \cup {Size(u)}
    BY <1>0, <2>1 DEF Lands
  <2> QED
    BY <1>1, <2>1, <2>2
<1>4. GoalsMet(v)
  <2> SUFFICES ASSUME NEW g \in u.goals
               PROVE  /\ g.at - 1 \in Starts(u) /\ IdAt(v, g.at - 1) \in Exit
                      /\ At(v.code, g.at) = g.target
    BY <1>0 DEF GoalsMet
  <2>1. /\ g.at \in Nat /\ g.at - 1 \in Starts(u) /\ IdAt(u, g.at - 1) \in Exit
        /\ At(u.code, g.at) = g.target
    BY <1>0, UnitFacts DEF GoalsMet
  <2>2. g.at - 1 \in Tied(u, W)
    <3>1. g.at = g.at - 1 + 1
      BY <2>1
    <3> QED
      BY <2>1, <3>1 DEF Tied
  <2>3. Target(v, g.at - 1) = Target(u, g.at - 1)
    BY <1>1, <2>1, <2>2
  <2>4. IdAt(v, g.at - 1) = IdAt(u, g.at - 1)
    BY <1>1, <2>1
  <2>5. Slot(u, g.at - 1) = g.at /\ Slot(v, g.at - 1) = g.at
    BY <2>1, <2>4 DEF Slot, Exit
  <2> QED
    BY <2>1, <2>3, <2>4, <2>5 DEF Target
<1>5. ASSUME ~u.chained PROVE Heights(v, W)
  <2>1. Heights(u, W)
    BY <1>0, <1>5
  <2>2. Level(v, 0, 0)
    BY <2>1, RepatchedLevel DEF Heights
  <2>3. ASSUME NEW s \in Range(u.sites)
        PROVE  /\ Takes(IdAt(v, s.pos), Operands(v, s.pos)) <= s.height
               /\ Level(v, EndOf(v, s.pos), After(v, s))
               /\ s.pos \in Tied(v, W) => Level(v, Target(v, s.pos), After(v, s))
    <3>1. s.pos \in Starts(u)
      BY DEF Starts
    <3>2. /\ Takes(IdAt(u, s.pos), Operands(u, s.pos)) <= s.height
          /\ Level(u, EndOf(u, s.pos), After(u, s))
          /\ s.pos \in Tied(u, W) => Level(u, Target(u, s.pos), After(u, s))
      BY <2>1 DEF Heights
    <3>3. Takes(IdAt(v, s.pos), Operands(v, s.pos)) = Takes(IdAt(u, s.pos), Operands(u, s.pos))
      BY <1>0, <3>1, RepatchedKeeps
    <3>4. After(v, s) = After(u, s)
      BY <1>0, RepatchedAfter
    <3>5. ASSUME s.pos \in Tied(v, W) PROVE Level(v, Target(v, s.pos), After(v, s))
      <4>1. s.pos \in Tied(u, W) /\ IdAt(u, s.pos) \in Short \cup Exit
        BY <1>0, <1>1, <3>1, <3>5 DEF Tied
      <4>2. Target(v, s.pos) = Target(u, s.pos)
        BY <1>1, <3>1, <4>1
      <4> QED
        BY <3>2, <3>4, <4>1, <4>2, RepatchedLevel
    <3> QED
      BY <1>1, <3>1, <3>2, <3>3, <3>4, <3>5, RepatchedLevel
  <2> QED
    BY <1>0, <2>2, <2>3 DEF Heights
<1> QED
  BY <1>0, <1>2, <1>3, <1>4, <1>5 DEF Laid

\* A jump is patched: from now on its target is known.
LEMMA PatchedIs ==
  ASSUME NEW u \in Unit, Layout(u), NEW p \in Jumping(u),
         NEW q \in Starts(u) \cup {Size(u)}
  PROVE  /\ Repatched(u, Patched(u, Slot(u, p), q), {p})
         /\ Target(Patched(u, Slot(u, p), q), p) = q
<1> DEFINE i == Slot(u, p)
           c == [u.code EXCEPT ![i + 1] = q]
           v == Patched(u, i, q)
<1> HIDE DEF i, c, v
<1>1. i \in Nat /\ i < Size(u) /\ Size(u) \in Nat /\ p \in Starts(u)
  BY SlotInside, UnitFacts DEF i
<1>2. q \in Nat
  BY <1>1, SiteFacts
<1>3. u.code \in Seq(Nat) /\ Len(u.code) = Size(u)
  BY UnitFacts DEF Size
<1>4. c \in Seq(Nat) /\ Len(c) = Len(u.code)
  <2>1. i + 1 \in 1 .. Len(u.code)
    BY <1>1, <1>3
  <2> QED
    BY <1>2, <1>3, <2>1, ExceptSeq DEF c
<1>5. /\ c[i + 1] = q
      /\ \A j \in 1 .. Len(u.code) : j # i + 1 => c[j] = u.code[j]
  BY <1>1, <1>3 DEF c
<1>6. v = [u EXCEPT !.code = c]
  BY DEF v, c, Patched
<1>7. /\ v.code = c /\ v.sites = u.sites /\ v.last = u.last /\ v.height = u.height
      /\ v.goals = u.goals /\ v.chained = u.chained /\ v \in Unit
  BY <1>4, <1>6 DEF Unit
<1>8. Size(v) = Size(u)
  BY <1>4, <1>7 DEF Size
<1>9. At(v.code, i) = q
  BY <1>5, <1>7 DEF At
<1>10. \A j \in 0 .. Size(u) - 1 : j # i => At(v.code, j) = At(u.code, j)
  <2> TAKE j \in 0 .. Size(u) - 1
  <2>1. j + 1 \in 1 .. Len(u.code) /\ (j # i => j + 1 # i + 1)
    BY <1>1, <1>3
  <2> QED
    BY <1>5, <1>7, <2>1 DEF At
<1>11. Repatched(u, v, {p})
  BY <1>7, <1>8, <1>9, <1>10 DEF Repatched, i
<1>12. Slot(v, p) = i
  BY <1>1, <1>11, RepatchedKeeps DEF i
<1> QED
  BY <1>9, <1>11, <1>12 DEF Target, v, i

\* A jump whose target has the height it needs is no longer to be patched.
LEMMA Tie ==
  ASSUME NEW u \in Unit, NEW W, Laid(u, W), NEW p, NEW W2, W \subseteq W2 \cup {p},
         ~u.chained => \A s \in Range(u.sites) : s.pos = p => Level(u, Target(u, p), After(u, s))
  PROVE  Laid(u, W2)
<1>1. \A q \in Tied(u, W2) : q \in Tied(u, W) \/ q = p
  BY DEF Tied
<1> QED
  BY <1>1 DEF Laid, Heights
-----------------------------------------------------------------------------
(* What patch_loop sees and does.                                          *)

LEMMA Mod256 == \A a \in Nat : a % 256 \in 0 .. 255 /\ (a < 256 => a % 256 = a)
OBVIOUS

\* The positions patch_loop looks at from each position on.
LEMMA SeenSteps ==
  ASSUME NEW code \in Seq(Nat)
  PROVE  \E f : /\ \A i \in Nat :
                     f[i] = IF i >= Len(code) THEN {}
                            ELSE IF OpcodeAt(code, i) >= Len(OpcodeList) THEN {i}
                            ELSE {i} \cup f[i + 1 + DeclaredSize(OpcodeAt(code, i))]
                /\ \A i \in Nat : Seen(code, i) = f[i]
<1> DEFINE n == Len(code)
           size(i) == DeclaredSize(OpcodeAt(code, i))
           Rhs(f, i) == IF i >= n THEN {}
                        ELSE IF OpcodeAt(code, i) >= Len(OpcodeList) THEN {i}
                        ELSE {i} \cup f[i + 1 + size(i)]
           Right(f, k) == /\ f = [i \in Nat |-> f[i]]
                          /\ \A i \in Nat : i >= k => f[i] = Rhs(f, i)
           good == {k \in 0 .. n : \E f : Right(f, k)}
<1>1. n \in Nat
  OBVIOUS
<1>2. ASSUME NEW i \in Nat, i < n, ~(OpcodeAt(code, i) >= Len(OpcodeList))
      PROVE  size(i) \in Nat
  <2>1. At(code, i) \in Nat
    BY <1>1, <1>2 DEF At
  <2>2. OpcodeAt(code, i) \in 0 .. 255
    BY <2>1, Mod256, ZenonT(40) DEF OpcodeAt
  <2>3. OpcodeAt(code, i) \in 0 .. 43
    <3> DEFINE o == OpcodeAt(code, i)
               m == Len(OpcodeList)
    <3>1. m = 44 /\ o \in 0 .. 255 /\ ~(o >= m)
      BY <1>2, <2>2, Opcodes, ZenonT(40)
    <3> HIDE DEF o, m
    <3>2. o \in 0 .. 43
      BY <3>1
    <3> QED
      BY <3>2 DEF o
  <2>4. size(i) \in 0 .. 2
    BY <2>3, Numbers
  <2> QED
    BY <2>4
<1> HIDE DEF n, size
<1>3. n \in good
  <2> DEFINE f == [i \in Nat |-> {}]
  <2>1. \A i \in Nat : f[i] = {}
    OBVIOUS
  <2>2. f = [i \in Nat |-> f[i]]
    BY <2>1
  <2> HIDE DEF f
  <2>3. Right(f, n)
    BY <1>1, <2>1, <2>2
  <2> QED
    BY <1>1, <2>3
<1>4. ASSUME NEW m \in Nat, m < n, NEW f, Right(f, m + 1)
      PROVE  \E more : Right(more, m)
  <2> DEFINE more == [i \in Nat |-> IF i = m THEN Rhs(f, m) ELSE f[i]]
  <2>1. more[m] = Rhs(f, m) /\ \A i \in Nat : i # m => more[i] = f[i]
    OBVIOUS
  <2>2. more = [i \in Nat |-> more[i]]
    OBVIOUS
  <2> HIDE DEF more
  <2>3. ASSUME NEW i \in Nat, i >= m
        PROVE  Rhs(more, i) = Rhs(f, i)
    <3>1. CASE i < n /\ ~(OpcodeAt(code, i) >= Len(OpcodeList))
      <4>1. i + 1 + size(i) \in Nat /\ i + 1 + size(i) # m
        BY <1>2, <2>3, <3>1
      <4>2. more[i + 1 + size(i)] = f[i + 1 + size(i)]
        BY <2>1, <4>1
      <4> QED
        BY <4>2
    <3>2. CASE i >= n
      BY <3>2
    <3>3. CASE OpcodeAt(code, i) >= Len(OpcodeList)
      BY <3>3
    <3> QED
      BY <1>1, <3>1, <3>2, <3>3
  <2>4. ASSUME NEW i \in Nat, i >= m
        PROVE  more[i] = Rhs(more, i)
    <3>1. CASE i = m
      BY <2>1, <2>3, <2>4, <3>1
    <3>2. CASE i # m
      <4>1. i >= m + 1
        BY <2>4, <3>2
      <4>2. f[i] = Rhs(f, i)
        BY <1>4, <4>1
      <4> QED
        BY <2>1, <2>3, <2>4, <3>2, <4>2
    <3> QED
      BY <3>1, <3>2
  <2>5. Right(more, m)
    BY <2>2, <2>4
  <2> QED
    BY <2>5
<1> HIDE DEF Right
<1>5. \E f : Right(f, 0)
  <2>1. good \in SUBSET Nat /\ good # {}
    <3>1. \A k \in good : k \in Nat
      BY <1>1
    <3> HIDE DEF good
    <3> QED
      BY <1>3, <3>1
  <2>2. PICK k \in good : \A j \in good : k <= j
    BY <2>1, Least
  <2>3. CASE k = 0
    BY <2>2, <2>3
  <2>4. CASE k # 0
    <3>1. k - 1 \in Nat /\ k - 1 < n /\ k - 1 + 1 = k /\ k - 1 \in 0 .. n /\ ~(k <= k - 1)
      BY <1>1, <2>2, <2>4
    <3>2. PICK f : Right(f, k - 1 + 1)
      BY <2>2, <3>1
    <3>3. \E more : Right(more, k - 1)
      BY <1>4, <3>1, <3>2
    <3>4. k - 1 \in good
      BY <3>1, <3>3
    <3> QED
      BY <2>2, <3>1, <3>4
  <2> QED
    BY <2>3, <2>4
<1> DEFINE Full(f) == f = [i \in Nat |-> Rhs(f, i)]
           g == CHOOSE f : Full(f)
<1>6. \E f : Full(f)
  <2>1. PICK f : Right(f, 0)
    BY <1>5
  <2>2. f = [i \in Nat |-> f[i]] /\ \A i \in Nat : f[i] = Rhs(f, i)
    <3>1. f = [i \in Nat |-> f[i]]
      BY <2>1 DEF Right
    <3>2. \A i \in Nat : i >= 0 => f[i] = Rhs(f, i)
      BY <2>1 DEF Right
    <3> HIDE DEF Rhs
    <3> QED
      BY <3>1, <3>2
  <2>3. [i \in Nat |-> f[i]] = [i \in Nat |-> Rhs(f, i)]
    BY <2>2
  <2> QED
    BY <2>2, <2>3
<1>7. Full(g)
  <2> HIDE DEF Full
  <2> QED
    BY <1>6
<1>8. \A i \in Nat : Seen(code, i) = g[i]
  BY DEF Seen, n, size
<1> HIDE DEF g
<1>9. \A i \in Nat : g[i] = Rhs(g, i)
  BY <1>7
<1> QED
  BY <1>8, <1>9 DEF n, size

\* In code whose instructions have their declared size it sees the instructions.
LEMMA SeenIs ==
  ASSUME NEW u \in Unit, Layout(u), NEW start \in Starts(u) \cup {Size(u)},
         \A p \in Starts(u) : p >= start => IdAt(u, p) \notin {"PACK", "MAP", "CHK"}
  PROVE  Seen(u.code, start) = {p \in Starts(u) : p >= start}
<1> DEFINE from(i) == {p \in Starts(u) : p >= i}
<1>1. u.code \in Seq(Nat) /\ Len(u.code) = Size(u) /\ Size(u) \in Nat
  BY UnitFacts DEF Size
<1>2. PICK f : /\ \A i \in Nat :
                    f[i] = IF i >= Len(u.code) THEN {}
                           ELSE IF OpcodeAt(u.code, i) >= Len(OpcodeList) THEN {i}
                           ELSE {i} \cup f[i + 1 + DeclaredSize(OpcodeAt(u.code, i))]
               /\ \A i \in Nat : Seen(u.code, i) = f[i]
  BY <1>1, SeenSteps
<1>3. \A p \in Starts(u) : p \in Nat /\ p < Size(u)
  BY SiteFacts
<1>4. f[Size(u)] = from(Size(u))
  <2>1. \A i \in Nat : i >= Len(u.code) => f[i] = {}
    BY <1>2
  <2>3. f[Size(u)] = {}
    BY <1>1, <2>1
  <2>2. from(Size(u)) = {}
    BY <1>1, <1>3
  <2> QED
    BY <2>2, <2>3
<1>5. ASSUME NEW p \in Starts(u), p >= start, f[EndOf(u, p)] = from(EndOf(u, p))
      PROVE  f[p] = from(p)
  <2>1. /\ p \in Nat /\ p < Size(u) /\ At(u.code, p) \in 0 .. 43
        /\ Number[IdAt(u, p)] = At(u.code, p) /\ EndOf(u, p) = p + 1 + Reads(IdAt(u, p))
        /\ Reads(IdAt(u, p)) \in 0 .. 2
    BY SiteFacts
  <2>2. OpcodeAt(u.code, p) = At(u.code, p)
    BY <2>1, Mod256 DEF OpcodeAt
  <2>3. DeclaredSize(OpcodeAt(u.code, p)) = Reads(IdAt(u, p))
    BY <1>5, <2>1, <2>2 DEF Reads
  <2>4. f[p] = {p} \cup f[EndOf(u, p)]
    <3> DEFINE o == OpcodeAt(u.code, p)
               m == Len(OpcodeList)
    <3>1. m = 44 /\ o \in 0 .. 43
      BY <2>1, <2>2, Opcodes, ZenonT(40)
    <3> HIDE DEF o, m
    <3>4. ~(o >= m)
      BY <3>1
    <3>2. ~(p >= Len(u.code)) /\ ~(OpcodeAt(u.code, p) >= Len(OpcodeList))
      BY <1>1, <2>1, <3>4 DEF o, m
    <3>3. f[p] = {p} \cup f[p + 1 + DeclaredSize(OpcodeAt(u.code, p))]
      BY <1>2, <2>1, <3>2
    <3> QED
      BY <2>1, <2>3, <3>3, SMTT(40)
  <2> DEFINE e == EndOf(u, p)
  <2>5. e \in Nat /\ p < e
    BY <2>1
  <2>6. \A q \in Starts(u) : p < q => e <= q
    BY DEF Layout
  <2> HIDE DEF e
  <2>7. from(p) = {p} \cup from(e)
    <3>1. ASSUME NEW q \in Starts(u) PROVE q >= p <=> (q = p \/ q >= e)
      <4>1. q \in Nat
        BY <1>3
      <4> QED
        BY <2>1, <2>5, <2>6, <4>1
    <3> QED
      BY <3>1
  <2> QED
    BY <1>5, <2>4, <2>7 DEF e
<1> DEFINE bad == {i \in Starts(u) \cup {Size(u)} : i >= start /\ f[i] # from(i)}
<1> HIDE DEF from
<1>6. bad = {}
  <2> SUFFICES ASSUME bad # {} PROVE FALSE
    OBVIOUS
  <2>1. bad \in SUBSET Nat /\ \A k \in bad : k <= Size(u)
    BY <1>1, <1>3
  <2>2. PICK i \in bad : \A k \in bad : k <= i
    BY <1>1, <2>1, Greatest
  <2>3. i \in Starts(u)
    BY <1>4, <2>2
  <2>4. EndOf(u, i) \in Starts(u) \cup {Size(u)}
    BY <2>3 DEF Layout
  <2>5. EndOf(u, i) \in Nat /\ EndOf(u, i) > i /\ i \in Nat /\ start \in Nat
    BY <1>1, <1>3, <2>3, SiteFacts
  <2>6. EndOf(u, i) >= start /\ ~(EndOf(u, i) <= i)
    BY <2>2, <2>5
  <2>7. f[EndOf(u, i)] = from(EndOf(u, i))
    BY <2>2, <2>4, <2>6
  <2> QED
    BY <1>5, <2>2, <2>3, <2>7
<1>7. start \in Nat /\ start >= start
  BY <1>1, <1>3
<1>8. f[start] = from(start)
  BY <1>6, <1>7
<1> QED
  BY <1>2, <1>7, <1>8 DEF from

\* patch_loop gives a target to the jumps of a kind that have none yet: D.
Patching(u, v, start, to, pos, D) ==
  /\ to \in Exit /\ pos \in Starts(u) \cup {Size(u)}
  /\ D = {p \in Starts(u) : p >= start /\ IdAt(u, p) = to /\ At(u.code, p + 1) = 0}
  /\ v = [u EXCEPT !.code = Scan(u.code, Seen(u.code, start), to, pos)]

LEMMA ScanIs ==
  ASSUME NEW u \in Unit, Layout(u), NEW start \in Nat,
         Seen(u.code, start) = {p \in Starts(u) : p >= start},
         NEW to, NEW pos, NEW v, NEW D, Patching(u, v, start, to, pos, D)
  PROVE  Repatched(u, v, D) /\ \A p \in D : At(v.code, p + 1) = pos
<1> DEFINE seen == Seen(u.code, start)
<1>0. /\ to \in Exit /\ pos \in Starts(u) \cup {Size(u)}
      /\ D = {p \in Starts(u) : p >= start /\ IdAt(u, p) = to /\ At(u.code, p + 1) = 0}
      /\ v = [u EXCEPT !.code = Scan(u.code, seen, to, pos)]
      /\ seen = {p \in Starts(u) : p >= start}
  BY DEF Patching
<1> HIDE DEF seen
<1> USE <1>0
<1> DEFINE c == Scan(u.code, seen, to, pos)
           n == Len(u.code)
<1>1. u.code \in Seq(Nat) /\ n \in Nat /\ n = Size(u)
  BY UnitFacts DEF Size
<1>2. \A p \in Starts(u) : p \in Nat /\ p < Size(u)
  BY SiteFacts
<1>3. pos \in Nat
  BY <1>1, <1>2
<1> HIDE DEF n
<1>4. /\ c = [k \in 1 .. n |-> IF k - 2 \in seen /\ OpcodeAt(u.code, k - 2) = Number[to] /\ MayPatch(u.code, k - 1)
                               THEN pos ELSE u.code[k]]
  BY DEF Scan, n
<1> HIDE DEF c
<1>5. \A k \in 1 .. n : u.code[k] \in Nat
  BY <1>1 DEF n
<1>6. c \in Seq(Nat) /\ Len(c) = n
  <2>1. \A k \in 1 .. n : c[k] \in Nat
    BY <1>3, <1>4, <1>5
  <2>2. DOMAIN c = 1 .. n /\ c = [k \in 1 .. n |-> c[k]]
    BY <1>4
  <2> QED
    BY <1>1, <2>1, <2>2
<1>7. ASSUME NEW p \in Starts(u) PROVE OpcodeAt(u.code, p) = Number[to] <=> IdAt(u, p) = to
  <2>1. At(u.code, p) \in 0 .. 43 /\ Number[IdAt(u, p)] = At(u.code, p)
    BY SiteFacts
  <2>2. OpcodeAt(u.code, p) = At(u.code, p)
    BY <2>1, Mod256 DEF OpcodeAt
  <2>3. Id(Number[to]) = to
    BY Numbers, InstructionSizes
  <2> QED
    BY <2>1, <2>2, <2>3 DEF IdAt
<1>8. ASSUME NEW i \in 0 .. Size(u) - 1
      PROVE  /\ i - 1 \in D => At(c, i) = pos
             /\ i - 1 \notin D => At(c, i) = At(u.code, i)
  <2>1. i + 1 \in 1 .. n /\ i + 1 - 2 = i - 1 /\ i + 1 - 1 = i /\ i - 1 + 1 = i
    BY <1>1
  <2>2. c[i + 1] = IF i - 1 \in seen /\ OpcodeAt(u.code, i - 1) = Number[to] /\ MayPatch(u.code, i)
                   THEN pos ELSE u.code[i + 1]
    BY <1>4, <2>1
  <2>3. (i - 1 \in seen /\ OpcodeAt(u.code, i - 1) = Number[to] /\ MayPatch(u.code, i))
          <=> i - 1 \in D
    BY <1>7, <2>1 DEF MayPatch
  <2> QED
    BY <2>2, <2>3 DEF At
<1>9. /\ v.code = c /\ v.sites = u.sites /\ v.last = u.last /\ v.height = u.height
      /\ v.goals = u.goals /\ v.chained = u.chained /\ v \in Unit
  BY <1>6 DEF Unit, c
<1>10. Size(v) = Size(u)
  BY <1>1, <1>6, <1>9 DEF Size
<1>11. D \subseteq Jumping(u)
  BY DEF Jumping
<1>12. \A p \in D : /\ Slot(u, p) = p + 1 /\ p \in Nat /\ p + 1 \in 0 .. Size(u) - 1
                    /\ p + 1 - 1 = p
  <2> SUFFICES ASSUME NEW p \in D
               PROVE  /\ Slot(u, p) = p + 1 /\ p \in Nat /\ p + 1 \in 0 .. Size(u) - 1
                      /\ p + 1 - 1 = p
    OBVIOUS
  <2>1. Slot(u, p) \in Nat /\ Slot(u, p) < Size(u) /\ p \in Nat
    BY <1>11, SlotInside
  <2>2. Slot(u, p) = p + 1
    BY DEF Slot, Exit
  <2> QED
    BY <1>1, <2>1, <2>2
<1>13. \A p \in D : At(v.code, p + 1) = pos
  BY <1>8, <1>9, <1>12
<1>14. ASSUME NEW i \in 0 .. Size(u) - 1
       PROVE  \/ At(v.code, i) = At(u.code, i)
              \/ \E p \in D : i = Slot(u, p) /\ At(v.code, i) \in Starts(u) \cup {Size(u)}
  <2>1. CASE i - 1 \in D
    <3>1. i = Slot(u, i - 1)
      BY <1>12, <2>1
    <3> QED
      BY <1>8, <1>9, <2>1, <3>1
  <2>2. CASE i - 1 \notin D
    BY <1>8, <1>9, <2>2
  <2> QED
    BY <2>1, <2>2
<1> QED
  BY <1>9, <1>10, <1>11, <1>13, <1>14 DEF Repatched
-----------------------------------------------------------------------------
(* The constructs that are open in a unit.                                 *)

LEMMA ConstructFacts ==
  ASSUME NEW c \in Construct
  PROVE  /\ c.pending \in Nat /\ c.pos \in Nat /\ c.start \in Nat
         /\ c.breaks \subseteq Nat /\ c.continues \subseteq Nat
BY DEF Construct

LEMMA ExitFacts ==
  ASSUME NEW u \in Unit, Layout(u), NEW b \in Nat, b - 1 \in Starts(u), IdAt(u, b - 1) \in Exit
  PROVE  /\ b < Size(u) /\ b \in 0 .. Size(u) - 1 /\ b - 1 \in Jumping(u)
         /\ Slot(u, b - 1) = b /\ Target(u, b - 1) = At(u.code, b)
<1>1. b - 1 \in Jumping(u)
  BY DEF Jumping
<1>2. Slot(u, b - 1) = b
  <2>1. b - 1 + 1 = b
    OBVIOUS
  <2> QED
    BY <2>1 DEF Slot, Exit
<1>3. Size(u) \in Nat /\ b < Size(u)
  BY <1>1, <1>2, SlotInside, UnitFacts
<1> QED
  BY <1>1, <1>2, <1>3 DEF Target

\* A site at a position that was there was there.
LEMMA OldSite ==
  ASSUME NEW u \in Unit, NEW id, NEW w, NEW v, Extends(u, id, w, v), NEW s \in Range(v.sites),
         s.pos # Size(u)
  PROVE  s \in Range(u.sites)
<1> DEFINE site == [pos |-> Size(u), height |-> u.height]
<1>1. Range(v.sites) = Range(u.sites) \cup {site} /\ site.pos = Size(u)
  BY DEF Extends
<1> HIDE DEF site
<1> QED
  BY <1>1

LEMMA AnchorPut ==
  ASSUME NEW u \in Unit, Layout(u), NEW c \in Construct, AnchorHeld(u, c),
         NEW id, NEW w, Instruction(id, w), NEW v, Extends(u, id, w, v)
  PROVE  AnchorHeld(v, c)
<1>1. c.pos \in Starts(u) /\ IdAt(u, c.pos) = Anchor(c.kind)
  BY DEF AnchorHeld
<1>2. c.pos \in Starts(v) /\ IdAt(v, c.pos) = Anchor(c.kind)
  BY <1>1, Kept
<1>3. ASSUME ~v.chained, c.kind \notin Logical, NEW s \in Range(v.sites), s.pos = c.pos
      PROVE  After(v, s) = 0
  <2>1. c.pos \in Nat /\ c.pos < Size(u)
    BY <1>1, SiteFacts
  <2>2. s \in Range(u.sites)
    BY <1>3, <2>1, OldSite
  <2>3. ~u.chained
    BY <1>3 DEF Extends
  <2>4. After(u, s) = 0
    BY <1>3, <2>2, <2>3 DEF AnchorHeld
  <2>5. IdAt(v, s.pos) = IdAt(u, s.pos) /\ Operands(v, s.pos) = Operands(u, s.pos)
    BY <1>1, <1>3, Kept
  <2> QED
    BY <2>4, <2>5 DEF After
<1> QED
  BY <1>2, <1>3 DEF AnchorHeld

LEMMA UnpatchedPut ==
  ASSUME NEW u \in Unit, Layout(u), NEW c \in Construct, NEW k \in Exit, NEW b \in Nat,
         Unpatched(u, c, k, b), NEW id, NEW w, Instruction(id, w), NEW v, Extends(u, id, w, v)
  PROVE  Unpatched(v, c, k, b)
<1>1. b - 1 \in Starts(u) /\ b > c.start /\ IdAt(u, b - 1) = k /\ At(u.code, b) = 0
  BY DEF Unpatched
<1>2. b - 1 \in Starts(v) /\ IdAt(v, b - 1) = k
  BY <1>1, Kept
<1>3. b \in 0 .. Size(u) - 1
  BY <1>1, ExitFacts
<1>4. At(v.code, b) = 0
  BY <1>1, <1>3 DEF Extends
<1> QED
  BY <1>1, <1>2, <1>4 DEF Unpatched

LEMMA LoopPut ==
  ASSUME NEW u \in Unit, Layout(u), NEW c \in Construct, LoopHeld(u, c),
         NEW id, NEW w, Instruction(id, w), NEW v, Extends(u, id, w, v),
         id \notin {"PACK", "MAP", "CHK"}
  PROVE  LoopHeld(v, c)
<1>0. /\ Starts(v) = Starts(u) \cup {Size(u)} /\ v.goals = u.goals /\ v.chained = u.chained
      /\ IdAt(v, Size(u)) = id
  <2>1. Starts(v) = Starts(u) \cup {Size(u)} /\ v.goals = u.goals /\ v.chained = u.chained
    BY DEF Extends
  <2>2. IdAt(v, Size(u)) = id
    BY Added
  <2> QED
    BY <2>1, <2>2
<1>1. c.start \in Starts(v)
  BY <1>0 DEF LoopHeld
<1>2. c.kind = "body" => c.start <= c.pos
  BY DEF LoopHeld
<1>3. ASSUME NEW p \in Starts(v), p >= c.start PROVE IdAt(v, p) \notin {"PACK", "MAP", "CHK"}
  <2>1. CASE p \in Starts(u)
    <3>1. IdAt(v, p) = IdAt(u, p)
      BY <2>1, Kept
    <3> QED
      BY <1>3, <2>1, <3>1 DEF LoopHeld
  <2>2. CASE p = Size(u)
    BY <1>0, <2>2
  <2> QED
    BY <1>0, <2>1, <2>2
<1>4. \A b \in c.breaks : Unpatched(v, c, "BREAK", b)
  <2> TAKE b \in c.breaks
  <2>1. b \in Nat /\ Unpatched(u, c, "BREAK", b) /\ "BREAK" \in Exit
    BY ConstructFacts DEF LoopHeld, Exit
  <2> QED
    BY <2>1, UnpatchedPut
<1>5. \A b \in c.continues : Unpatched(v, c, "CONTINUE", b)
  <2> TAKE b \in c.continues
  <2>1. b \in Nat /\ Unpatched(u, c, "CONTINUE", b) /\ "CONTINUE" \in Exit
    BY ConstructFacts DEF LoopHeld, Exit
  <2> QED
    BY <2>1, UnpatchedPut
<1>6. \A g \in v.goals : g.target = 0 => g.at < c.start
  BY <1>0 DEF LoopHeld
<1>7. ASSUME ~v.chained PROVE Level(v, c.start, 0)
  <2>1. c.start \in Starts(u) \cup {Size(u)} /\ Level(u, c.start, 0)
    BY <1>0, <1>7 DEF LoopHeld
  <2> QED
    BY <2>1, LevelKept
<1>8. ASSUME ~v.chained, NEW s \in Range(v.sites), s.pos + 1 \in c.breaks \cup c.continues
      PROVE  s.height = 0
  <2>1. s.pos \in Nat
    BY UnitFacts DEF Extends
  <2> DEFINE b == s.pos + 1
  <2>2. b - 1 \in Starts(u)
    <3>1. b \in c.breaks \cup c.continues
      BY <1>8
    <3> HIDE DEF b
    <3>2. b \in c.breaks => b - 1 \in Starts(u)
      BY DEF LoopHeld, Unpatched
    <3>3. b \in c.continues => b - 1 \in Starts(u)
      BY DEF LoopHeld, Unpatched
    <3> QED
      BY <3>1, <3>2, <3>3
  <2>3. s.pos \in Starts(u)
    BY <2>1, <2>2
  <2>4. s.pos < Size(u)
    BY <2>3, SiteFacts
  <2>5. s \in Range(u.sites)
    BY <2>1, <2>4, OldSite
  <2> QED
    BY <1>0, <1>8, <2>5 DEF LoopHeld
<1> QED
  BY <1>1, <1>2, <1>3, <1>4, <1>5, <1>6, <1>7, <1>8 DEF LoopHeld

LEMMA HeldPut ==
  ASSUME NEW u \in Unit, Layout(u), NEW c \in Construct, Held(u, c),
         NEW id, NEW w, Instruction(id, w), NEW v, Extends(u, id, w, v),
         c.kind \in LoopKind => id \notin {"PACK", "MAP", "CHK"}
  PROVE  Held(v, c)
BY AnchorPut, LoopPut DEF Held

LEMMA UnpatchedKept ==
  ASSUME NEW u \in Unit, Layout(u), NEW c, NEW v, NEW D, Repatched(u, v, D), NEW k \in Exit,
         NEW b \in Nat, Unpatched(u, c, k, b), b - 1 \notin D
  PROVE  Unpatched(v, c, k, b)
<1>1. b - 1 \in Starts(u) /\ b > c.start /\ IdAt(u, b - 1) = k /\ At(u.code, b) = 0
  BY DEF Unpatched
<1>2. /\ Starts(v) = Starts(u) /\ IdAt(v, b - 1) = k /\ Slot(v, b - 1) = Slot(u, b - 1)
      /\ Target(v, b - 1) = Target(u, b - 1)
  BY <1>1, RepatchedKeeps
<1>3. Slot(u, b - 1) = b /\ Target(u, b - 1) = 0
  BY <1>1, ExitFacts
<1>4. At(v.code, b) = 0
  BY <1>2, <1>3 DEF Target
<1> QED
  BY <1>1, <1>2, <1>4 DEF Unpatched

LEMMA HeldKept ==
  ASSUME NEW u \in Unit, Layout(u), NEW c \in Construct, Held(u, c), NEW v, NEW D,
         Repatched(u, v, D),
         c.kind \in LoopKind => \A b \in c.breaks \cup c.continues : b - 1 \notin D
  PROVE  Held(v, c)
<1>0. /\ v \in Unit /\ Starts(v) = Starts(u) /\ Size(v) = Size(u) /\ v.sites = u.sites
      /\ v.goals = u.goals /\ v.chained = u.chained
  BY DEF Repatched, Starts
<1>1. \A p \in Starts(u) : IdAt(v, p) = IdAt(u, p)
  BY RepatchedKeeps
<1>2. \A s \in Range(u.sites) : After(v, s) = After(u, s)
  BY RepatchedAfter
<1>3. ASSUME c.kind \in Anchored PROVE AnchorHeld(v, c)
  <2>1. AnchorHeld(u, c)
    BY <1>3 DEF Held
  <2> QED
    BY <1>0, <1>1, <1>2, <2>1 DEF AnchorHeld
<1>4. ASSUME c.kind \in LoopKind PROVE LoopHeld(v, c)
  <2>1. LoopHeld(u, c)
    BY <1>4 DEF Held
  <2>2. \A b \in c.breaks : Unpatched(v, c, "BREAK", b)
    <3> TAKE b \in c.breaks
    <3>1. b \in Nat /\ Unpatched(u, c, "BREAK", b) /\ "BREAK" \in Exit /\ b - 1 \notin D
      BY <1>4, <2>1, ConstructFacts DEF LoopHeld, Exit
    <3> QED
      BY <3>1, UnpatchedKept
  <2>3. \A b \in c.continues : Unpatched(v, c, "CONTINUE", b)
    <3> TAKE b \in c.continues
    <3>1. b \in Nat /\ Unpatched(u, c, "CONTINUE", b) /\ "CONTINUE" \in Exit /\ b - 1 \notin D
      BY <1>4, <2>1, ConstructFacts DEF LoopHeld, Exit
    <3> QED
      BY <3>1, UnpatchedKept
  <2>4. \A p \in Starts(v) : p >= c.start => IdAt(v, p) \notin {"PACK", "MAP", "CHK"}
    BY <1>0, <1>1, <2>1 DEF LoopHeld
  <2>5. ~v.chained => Level(v, c.start, 0)
    BY <1>0, <2>1, RepatchedLevel DEF LoopHeld
  <2> QED
    BY <1>0, <2>1, <2>2, <2>3, <2>4, <2>5 DEF LoopHeld
<1> QED
  BY <1>3, <1>4 DEF Held

\* What is held does not depend on the operands of the construct.
LEMMA HeldSame ==
  ASSUME NEW u, NEW c, NEW d, Held(u, c), d.kind = c.kind, d.pos = c.pos, d.start = c.start,
         d.breaks = c.breaks, d.continues = c.continues
  PROVE  Held(u, d)
<1>1. AnchorHeld(u, c) => AnchorHeld(u, d)
  BY DEF AnchorHeld
<1>2. LoopHeld(u, c) => LoopHeld(u, d)
  BY DEF LoopHeld, Unpatched
<1> QED
  BY <1>1, <1>2 DEF Held

LEMMA TotalPut ==
  ASSUME NEW u \in Unit, Layout(u), NEW c \in Construct, c.kind \in Logical => c.pos \in Starts(u),
         NEW id, NEW w, NEW v, Extends(u, id, w, v), NEW h, Total(u, c, h)
  PROVE  Total(v, c, h)
<1>1. CASE c.kind \in Logical
  <2>1. c.pos \in Nat /\ c.pos < Size(u)
    BY <1>1, SiteFacts
  <2>2. \A s \in Range(v.sites) : s.pos = c.pos => s \in Range(u.sites)
    BY <2>1, OldSite
  <2> QED
    BY <1>1, <2>2 DEF Total
<1>2. CASE c.kind \notin Logical
  BY <1>2 DEF Total
<1> QED
  BY <1>1, <1>2
-----------------------------------------------------------------------------
(* A unit with all that is open in it.                                     *)

LEMMA TotalPut2 ==
  ASSUME NEW u \in Unit, NEW W, NEW o, NEW lo \in Nat, NEW hi \in Nat, Frame(u, o, lo, hi, W),
         NEW j \in lo .. hi, o[j] \in Construct,
         NEW id, NEW w, Instruction(id, w), NEW v, Extends(u, id, w, v), NEW h,
         Total(u, o[j], h)
  PROVE  Total(v, o[j], h)
<1>1. Layout(u) /\ Held(u, o[j])
  BY DEF Frame, Laid
<1>2. o[j].kind \in Logical => o[j].pos \in Starts(u)
  BY <1>1 DEF Held, AnchorHeld, Anchored, Logical
<1> QED
  BY <1>1, <1>2, TotalPut

\* One more instruction.
LEMMA FramePut ==
  ASSUME NEW u \in Unit, NEW W, NEW o, NEW lo \in Nat, NEW hi \in Nat, Frame(u, o, lo, hi, W),
         \A i \in lo .. hi : o[i] \in Construct,
         NEW id, NEW w, Instruction(id, w), NEW v, Extends(u, id, w, v),
         ~u.chained => Takes(id, w) <= u.height,
         id \in Short \cup Exit => Target(v, Size(u)) \in Starts(v),
         NEW W2, W \subseteq W2, id \in Short => Size(u) \in W2,
         id \in {"PACK", "MAP", "CHK"} => \A i \in lo .. hi : o[i].kind \notin LoopKind
  PROVE  /\ Frame(v, o, lo, hi, W2) /\ Settled(v)
         /\ \A i \in lo .. hi : o[i].kind \in LoopKind => o[i].start < Size(v)
<1>1. Laid(u, W) /\ Layout(u)
  BY DEF Frame, Laid
<1>2. Laid(v, W2) /\ Settled(v)
  BY <1>1, PutLaid
<1>3. \A i \in lo .. hi : Held(v, o[i])
  <2> TAKE i \in lo .. hi
  <2>1. Held(u, o[i]) /\ o[i] \in Construct
    BY DEF Frame
  <2>2. o[i].kind \in LoopKind => id \notin {"PACK", "MAP", "CHK"}
    OBVIOUS
  <2> QED
    BY <1>1, <2>1, <2>2, HeldPut
<1>4. Size(u) \in Nat /\ Size(v) > Size(u) /\ v.chained = u.chained /\ v \in Unit
  BY UnitFacts, InstructionSizes DEF Extends, Instruction
<1>9. Size(v) \in Nat
  BY <1>4, UnitFacts
<1>5. ASSUME NEW i \in lo .. hi, o[i].kind \in LoopKind
      PROVE  o[i].start < Size(v)
  <2>1. LoopHeld(u, o[i]) /\ o[i].start \in Nat
    BY <1>5, ConstructFacts DEF Frame, Held
  <2>2. o[i].start \in Starts(u) \cup {Size(u)}
    BY <2>1 DEF LoopHeld
  <2>3. o[i].start <= Size(u)
    BY <1>1, <1>4, <2>2, SiteFacts
  <2> QED
    BY <1>4, <1>9, <2>1, <2>3
<1>6. \A i \in lo .. hi - 1 : o[i].kind \in LoopKind => o[i].start < Size(v)
  BY <1>5
<1>7. ASSUME ~v.chained, NEW i \in lo + 1 .. hi, o[i].kind \in Logical,
             NEW s \in Range(v.sites), s.pos = o[i].pos
      PROVE  Total(v, o[i - 1], s.height)
  <2>1. i \in lo .. hi /\ i - 1 \in lo .. hi
    OBVIOUS
  <2>2. o[i].pos \in Starts(u)
    BY <1>7, <2>1 DEF Frame, Held, AnchorHeld, Anchored, Logical
  <2>3. o[i].pos # Size(u)
    BY <1>1, <1>4, <2>2, SiteFacts
  <2>4. s \in Range(u.sites)
    BY <1>7, <2>3, OldSite
  <2>5. Total(u, o[i - 1], s.height)
    BY <1>4, <1>7, <2>4 DEF Frame
  <2> QED
    BY <2>1, <2>5, TotalPut2
<1>8. \A i, j \in lo .. hi :
       i < j /\ o[i].kind \in LoopKind /\ o[j].kind \in LoopKind =>
         /\ o[i].start < o[j].start
         /\ \A b \in o[i].breaks \cup o[i].continues : b < o[j].start
  BY DEF Frame
<1> QED
  BY <1>2, <1>3, <1>5, <1>6, <1>7, <1>8 DEF Frame

LEMMA TotalKept ==
  ASSUME NEW u, NEW v, v.sites = u.sites, NEW c, NEW h, Total(u, c, h)
  PROVE  Total(v, c, h)
BY DEF Total

\* Jumps of no open loop are patched.
LEMMA FrameKept ==
  ASSUME NEW u \in Unit, NEW W, NEW o, NEW lo \in Nat, NEW hi \in Nat, Frame(u, o, lo, hi, W),
         \A i \in lo .. hi : o[i] \in Construct,
         NEW v, NEW D, Repatched(u, v, D), \A p \in D : p \notin Tied(u, W),
         \A i \in lo .. hi : o[i].kind \in LoopKind =>
           \A b \in o[i].breaks \cup o[i].continues : b - 1 \notin D
  PROVE  Frame(v, o, lo, hi, W)
<1>1. Laid(u, W) /\ Layout(u)
  BY DEF Frame, Laid
<1>2. Laid(v, W)
  BY <1>1, RepatchedLaid
<1>3. \A i \in lo .. hi : Held(v, o[i])
  BY <1>1, HeldKept DEF Frame
<1>4. Size(v) = Size(u) /\ v.sites = u.sites /\ v.chained = u.chained
  BY DEF Repatched
<1>5. \A i \in lo .. hi - 1 : o[i].kind \in LoopKind => o[i].start < Size(v)
  BY <1>4 DEF Frame
<1>6. ~v.chained => \A i \in lo + 1 .. hi : o[i].kind \in Logical =>
        \A s \in Range(v.sites) : s.pos = o[i].pos => Total(v, o[i - 1], s.height)
  <2> SUFFICES ASSUME ~u.chained, NEW i \in lo + 1 .. hi, o[i].kind \in Logical,
                      NEW s \in Range(u.sites), s.pos = o[i].pos
               PROVE  Total(v, o[i - 1], s.height)
    BY <1>4
  <2>1. Total(u, o[i - 1], s.height)
    BY DEF Frame
  <2> QED
    BY <1>4, <2>1, TotalKept
<1>7. \A i, j \in lo .. hi :
       i < j /\ o[i].kind \in LoopKind /\ o[j].kind \in LoopKind =>
         /\ o[i].start < o[j].start
         /\ \A b \in o[i].breaks \cup o[i].continues : b < o[j].start
  BY DEF Frame
<1> QED
  BY <1>2, <1>3, <1>5, <1>6, <1>7 DEF Frame

\* After the jump at p the stack is as it is at q.
Joins(u, p, q) ==
  ~u.chained => \A s \in Range(u.sites) : s.pos = p => Level(u, q, After(u, s))

\* A jump that is no break or continue can be patched.
LEMMA FramePatched ==
  ASSUME NEW u \in Unit, NEW W, NEW o, NEW lo \in Nat, NEW hi \in Nat, Frame(u, o, lo, hi, W),
         \A i \in lo .. hi : o[i] \in Construct,
         NEW p \in W, p \in Starts(u), IdAt(u, p) \in Short, NEW q \in Starts(u) \cup {Size(u)},
         NEW W2, W \subseteq W2 \cup {p}, Joins(u, p, q)
  PROVE  /\ Frame(Patched(u, Slot(u, p), q), o, lo, hi, W2)
         /\ Repatched(u, Patched(u, Slot(u, p), q), {p})
         /\ Target(Patched(u, Slot(u, p), q), p) = q
<1> DEFINE v == Patched(u, Slot(u, p), q)
<1>1. Laid(u, W) /\ Layout(u)
  BY DEF Frame, Laid
<1>2. p \in Jumping(u)
  BY DEF Jumping
<1>3. Repatched(u, v, {p}) /\ Target(v, p) = q
  BY <1>1, <1>2, PatchedIs
<1> HIDE DEF v
<1>4. IdAt(u, p) \notin Exit
  BY DEF Short, Exit
<1>5. p \notin Tied(u, W)
  BY <1>4 DEF Tied
<1>6. ASSUME NEW i \in lo .. hi, o[i].kind \in LoopKind,
             NEW b \in o[i].breaks \cup o[i].continues
      PROVE  b - 1 \notin {p}
  <2>1. LoopHeld(u, o[i])
    BY <1>6 DEF Frame, Held
  <2>2. b \in o[i].breaks => IdAt(u, b - 1) \in Exit
    BY <2>1 DEF LoopHeld, Unpatched, Exit
  <2>3. b \in o[i].continues => IdAt(u, b - 1) \in Exit
    BY <2>1 DEF LoopHeld, Unpatched, Exit
  <2> QED
    BY <1>4, <1>6, <2>2, <2>3
<1>7. Frame(v, o, lo, hi, W)
  <2>1. \A r \in {p} : r \notin Tied(u, W)
    BY <1>5
  <2> QED
    BY <1>3, <1>6, <2>1, FrameKept
<1>8. Laid(v, W2)
  <2>1. v \in Unit /\ v.sites = u.sites /\ v.chained = u.chained
    BY <1>3 DEF Repatched
  <2>2. ~v.chained => \A s \in Range(v.sites) : s.pos = p => Level(v, Target(v, p), After(v, s))
    BY <1>1, <1>3, <2>1, RepatchedAfter, RepatchedLevel DEF Joins
  <2>3. Laid(v, W)
    BY <1>7 DEF Frame
  <2> QED
    BY <2>1, <2>2, <2>3, Tie
<1>9. Frame(v, o, lo, hi, W2)
  BY <1>7, <1>8 DEF Frame
<1> QED
  BY <1>3, <1>9 DEF v

\* The last construct is left out.
LEMMA FrameLess ==
  ASSUME NEW u, NEW W, NEW o, NEW lo \in Nat, NEW hi \in Nat, lo < hi, Frame(u, o, lo, hi, W)
  PROVE  Frame(u, o, lo, hi - 1, W)
BY DEF Frame

\* A construct is added.
LEMMA FrameMore ==
  ASSUME NEW u \in Unit, NEW W, NEW o, NEW lo \in Nat, NEW hi \in Nat, lo <= hi,
         Frame(u, o, lo, hi, W),
         NEW o2, \A i \in lo .. hi : o2[i] = o[i], Held(u, o2[hi + 1]),
         o[hi].kind \in LoopKind => o[hi].start < Size(u),
         o2[hi + 1].kind \in LoopKind =>
           \A i \in lo .. hi : o[i].kind \in LoopKind =>
             /\ o[i].start < o2[hi + 1].start
             /\ \A b \in o[i].breaks \cup o[i].continues : b < o2[hi + 1].start,
         ~u.chained /\ o2[hi + 1].kind \in Logical =>
           \A s \in Range(u.sites) : s.pos = o2[hi + 1].pos => Total(u, o[hi], s.height)
  PROVE  Frame(u, o2, lo, hi + 1, W)
<1> DEFINE c == o2[hi + 1]
<1> HIDE DEF c
<1>0. \A i \in lo .. hi + 1 : i \in lo .. hi \/ i = hi + 1
  OBVIOUS
<1>1. Laid(u, W)
  BY DEF Frame
<1>2. \A i \in lo .. hi + 1 : Held(u, o2[i])
  BY <1>0 DEF Frame
<1>3. \A i \in lo .. hi + 1 - 1 : o2[i].kind \in LoopKind => o2[i].start < Size(u)
  <2> SUFFICES ASSUME NEW i \in lo .. hi, o[i].kind \in LoopKind PROVE o[i].start < Size(u)
    OBVIOUS
  <2>1. i \in lo .. hi - 1 \/ i = hi
    OBVIOUS
  <2> QED
    BY <2>1 DEF Frame
<1>4. ASSUME NEW i \in lo .. hi + 1, NEW j \in lo .. hi + 1, i < j,
             o2[i].kind \in LoopKind, o2[j].kind \in LoopKind
      PROVE  /\ o2[i].start < o2[j].start
             /\ \A b \in o2[i].breaks \cup o2[i].continues : b < o2[j].start
  <2>1. i \in lo .. hi
    BY <1>4
  <2>2. CASE j \in lo .. hi
    BY <1>4, <2>1, <2>2 DEF Frame
  <2>3. CASE j = hi + 1
    <3>1. o2[i] = o[i]
      BY <2>1
    <3>3. o2[j] = o2[hi + 1]
      BY <2>3
    <3>2. /\ o[i].start < o2[hi + 1].start
          /\ \A b \in o[i].breaks \cup o[i].continues : b < o2[hi + 1].start
      BY <1>4, <2>1, <3>1, <3>3
    <3> QED
      BY <3>1, <3>2, <3>3
  <2> QED
    BY <1>0, <2>2, <2>3
<1>5. ASSUME ~u.chained, NEW i \in lo + 1 .. hi + 1, o2[i].kind \in Logical,
             NEW s \in Range(u.sites), s.pos = o2[i].pos
      PROVE  Total(u, o2[i - 1], s.height)
  <2>1. CASE i \in lo + 1 .. hi
    <3>1. i - 1 \in lo .. hi /\ i \in lo .. hi
      BY <2>1
    <3> QED
      BY <1>5, <2>1, <3>1 DEF Frame
  <2>2. CASE i = hi + 1
    <3>1. i - 1 = hi /\ hi \in lo .. hi
      BY <2>2
    <3> QED
      BY <1>5, <2>2, <3>1
  <2> QED
    BY <2>1, <2>2
<1> QED
  BY <1>1, <1>2, <1>3, <1>4, <1>5 DEF Frame

\* Frames depend on what the constructs hold, and on the operands of all but the last.
Alike(c, d) ==
  /\ d.kind = c.kind /\ d.pos = c.pos /\ d.start = c.start
  /\ d.breaks = c.breaks /\ d.continues = c.continues

LEMMA FrameSame ==
  ASSUME NEW u, NEW W, NEW o, NEW lo \in Nat, NEW hi \in Nat, Frame(u, o, lo, hi, W),
         NEW o2, \A i \in lo .. hi - 1 : o2[i] = o[i], Alike(o[hi], o2[hi])
  PROVE  Frame(u, o2, lo, hi, W)
<1>0. \A i \in lo .. hi : i \in lo .. hi - 1 \/ i = hi
  OBVIOUS
<1>1. \A i \in lo .. hi : Alike(o[i], o2[i])
  <2> SUFFICES ASSUME NEW i \in lo .. hi - 1 PROVE Alike(o[i], o2[i])
    BY <1>0
  <2>1. o2[i] = o[i]
    OBVIOUS
  <2> QED
    BY <2>1 DEF Alike
<1>2. \A i \in lo .. hi : Held(u, o2[i])
  <2> TAKE i \in lo .. hi
  <2>1. Held(u, o[i]) /\ Alike(o[i], o2[i])
    BY <1>1 DEF Frame
  <2> QED
    BY <2>1, HeldSame DEF Alike
<1>3. \A i \in lo .. hi - 1 : o2[i].kind \in LoopKind => o2[i].start < Size(u)
  BY DEF Frame
<1>4. \A i, j \in lo .. hi :
       i < j /\ o2[i].kind \in LoopKind /\ o2[j].kind \in LoopKind =>
         /\ o2[i].start < o2[j].start
         /\ \A b \in o2[i].breaks \cup o2[i].continues : b < o2[j].start
  <2> TAKE i, j \in lo .. hi
  <2> HAVE i < j /\ o2[i].kind \in LoopKind /\ o2[j].kind \in LoopKind
  <2>1. /\ o2[i].kind = o[i].kind /\ o2[i].start = o[i].start /\ o2[i].breaks = o[i].breaks
        /\ o2[i].continues = o[i].continues /\ o2[j].kind = o[j].kind /\ o2[j].start = o[j].start
    BY <1>1 DEF Alike
  <2>2. /\ o[i].start < o[j].start
        /\ \A b \in o[i].breaks \cup o[i].continues : b < o[j].start
    BY <2>1 DEF Frame
  <2> QED
    BY <2>1, <2>2
<1>5. ASSUME ~u.chained, NEW i \in lo + 1 .. hi, o2[i].kind \in Logical,
             NEW s \in Range(u.sites), s.pos = o2[i].pos
      PROVE  Total(u, o2[i - 1], s.height)
  <2>1. i - 1 \in lo .. hi - 1 /\ i \in lo .. hi
    OBVIOUS
  <2>2. o[i].kind \in Logical /\ s.pos = o[i].pos
    BY <1>1, <1>5, <2>1 DEF Alike
  <2>3. Total(u, o[i - 1], s.height)
    BY <1>5, <2>2 DEF Frame
  <2> QED
    BY <2>1, <2>3
<1>6. Laid(u, W)
  BY DEF Frame
<1> QED
  BY <1>2, <1>3, <1>4, <1>5, <1>6 DEF Frame

\* The goals of a loop that ends.
LEMMA FrameGoals ==
  ASSUME NEW u \in Unit, NEW W, NEW o, NEW lo \in Nat, NEW hi \in Nat, Frame(u, o, lo, hi, W),
         NEW G \in SUBSET [at : Nat, target : Nat],
         \A g \in G : /\ g.at - 1 \in Starts(u) /\ IdAt(u, g.at - 1) \in Exit
                      /\ At(u.code, g.at) = g.target,
         ~u.chained => \A g \in G : \A s \in Range(u.sites) :
                         s.pos + 1 = g.at => Level(u, g.target, After(u, s)),
         \A i \in lo .. hi : o[i].kind \in LoopKind =>
           \A g \in G : g.target = 0 => g.at < o[i].start,
         NEW v, v = [u EXCEPT !.goals = u.goals \cup G]
  PROVE  Frame(v, o, lo, hi, W)
<1>1. Laid(u, W) /\ Layout(u) /\ Lands(u) /\ GoalsMet(u)
  BY DEF Frame, Laid
<1>2. /\ v.code = u.code /\ v.last = u.last /\ v.sites = u.sites /\ v.height = u.height
      /\ v.chained = u.chained /\ v.goals = u.goals \cup G
  BY DEF Unit
<1>3. /\ Size(v) = Size(u) /\ Starts(v) = Starts(u)
      /\ \A i : At(v.code, i) = At(u.code, i)
      /\ \A p : IdAt(v, p) = IdAt(u, p)
  BY <1>2 DEF Size, Starts, At, IdAt
<1>4. \A p : /\ EndOf(v, p) = EndOf(u, p) /\ Slot(v, p) = Slot(u, p)
             /\ Operands(v, p) = Operands(u, p)
  BY <1>2, <1>3 DEF EndOf, Slot, Operands
<1>5. \A p : Target(v, p) = Target(u, p)
  BY <1>3, <1>4 DEF Target
<1>6. \A s : After(v, s) = After(u, s)
  BY <1>3, <1>4 DEF After
<1>7. \A p, h : Level(v, p, h) <=> Level(u, p, h)
  BY <1>2, <1>3 DEF Level
<1>8. Layout(v)
  BY <1>1, <1>2, <1>3, <1>4, ZenonT(40) DEF Layout
<1>9. Lands(v)
  BY <1>1, <1>3, <1>5 DEF Lands, Jumping
<1>10. GoalsMet(v)
  <2> SUFFICES ASSUME NEW g \in u.goals \cup G
               PROVE  /\ g.at - 1 \in Starts(u) /\ IdAt(u, g.at - 1) \in Exit
                      /\ At(u.code, g.at) = g.target
    BY <1>2, <1>3 DEF GoalsMet
  <2>1. CASE g \in u.goals
    BY <1>1, <2>1 DEF GoalsMet
  <2>2. CASE g \in G
    BY <2>2
  <2> QED
    BY <2>1, <2>2
<1>11. ASSUME ~v.chained PROVE Heights(v, W)
  <2>1. Heights(u, W)
    BY <1>1, <1>2, <1>11 DEF Laid
  <2>2. ASSUME NEW s \in Range(u.sites)
        PROVE  /\ Takes(IdAt(v, s.pos), Operands(v, s.pos)) <= s.height
               /\ Level(v, EndOf(v, s.pos), After(v, s))
               /\ s.pos \in Tied(v, W) => Level(v, Target(v, s.pos), After(v, s))
    <3>1. /\ Takes(IdAt(u, s.pos), Operands(u, s.pos)) <= s.height
          /\ Level(u, EndOf(u, s.pos), After(u, s))
          /\ s.pos \in Tied(u, W) => Level(u, Target(u, s.pos), After(u, s))
      BY <2>1 DEF Heights
    <3>2. ASSUME s.pos \in Tied(v, W) PROVE Level(u, Target(u, s.pos), After(u, s))
      <4>1. CASE s.pos \in Tied(u, W)
        BY <3>1, <4>1
      <4>2. CASE s.pos \notin Tied(u, W)
        <5>1. /\ s.pos \in Starts(u) /\ IdAt(u, s.pos) \in Exit
              /\ \E g \in v.goals : g.at = s.pos + 1
          BY <1>3, <3>2, <4>2 DEF Tied
        <5>2. PICK g \in v.goals : g.at = s.pos + 1
          BY <5>1
        <5>3. g \in G
          BY <1>2, <4>2, <5>1, <5>2 DEF Tied
        <5>4. Level(u, g.target, After(u, s))
          BY <1>2, <1>11, <5>2, <5>3
        <5>5. Slot(u, s.pos) = s.pos + 1
          BY <5>1 DEF Slot, Exit
        <5>6. Target(u, s.pos) = g.target
          BY <5>2, <5>3, <5>5 DEF Target
        <5> QED
          BY <5>4, <5>6
      <4> QED
        BY <4>1, <4>2
    <3> QED
      BY <1>3, <1>4, <1>5, <1>6, <1>7, <3>1, <3>2
  <2>3. Level(v, 0, 0)
    BY <1>7, <2>1 DEF Heights
  <2> QED
    BY <1>2, <2>2, <2>3 DEF Heights
<1>12. Laid(v, W)
  BY <1>8, <1>9, <1>10, <1>11 DEF Laid
<1>13. ASSUME NEW i \in lo .. hi PROVE Held(v, o[i])
  <2>1. Held(u, o[i])
    BY DEF Frame
  <2>2. AnchorHeld(u, o[i]) => AnchorHeld(v, o[i])
    BY <1>2, <1>3, <1>6 DEF AnchorHeld
  <2>3. ASSUME o[i].kind \in LoopKind PROVE LoopHeld(v, o[i])
    <3>1. LoopHeld(u, o[i])
      BY <2>1, <2>3 DEF Held
    <3>2. \A g \in v.goals : g.target = 0 => g.at < o[i].start
      BY <1>2, <2>3, <3>1 DEF LoopHeld
    <3>3. /\ \A b \in o[i].breaks : Unpatched(v, o[i], "BREAK", b)
          /\ \A b \in o[i].continues : Unpatched(v, o[i], "CONTINUE", b)
      BY <1>3, <3>1 DEF LoopHeld, Unpatched
    <3>4. ~v.chained => /\ Level(v, o[i].start, 0)
                        /\ \A s \in Range(v.sites) :
                             s.pos + 1 \in o[i].breaks \cup o[i].continues => s.height = 0
      BY <1>2, <1>7, <3>1 DEF LoopHeld
    <3> QED
      BY <1>3, <3>1, <3>2, <3>3, <3>4 DEF LoopHeld
  <2> QED
    BY <2>1, <2>2, <2>3 DEF Held
<1>14. ~v.chained => \A i \in lo + 1 .. hi : o[i].kind \in Logical =>
         \A s \in Range(v.sites) : s.pos = o[i].pos => Total(v, o[i - 1], s.height)
  <2> SUFFICES ASSUME ~u.chained, NEW i \in lo + 1 .. hi, o[i].kind \in Logical,
                      NEW s \in Range(u.sites), s.pos = o[i].pos
               PROVE  Total(v, o[i - 1], s.height)
    BY <1>2
  <2>1. Total(u, o[i - 1], s.height)
    BY DEF Frame
  <2> QED
    BY <1>2, <2>1 DEF Total
<1>15. \A i \in lo .. hi - 1 : o[i].kind \in LoopKind => o[i].start < Size(v)
  BY <1>3 DEF Frame
<1>16. \A i, j \in lo .. hi :
        i < j /\ o[i].kind \in LoopKind /\ o[j].kind \in LoopKind =>
          /\ o[i].start < o[j].start
          /\ \A b \in o[i].breaks \cup o[i].continues : b < o[j].start
  BY DEF Frame
<1> QED
  BY <1>12, <1>13, <1>14, <1>15, <1>16 DEF Frame

\* A condition of several parts: the heights are no longer accounted for.
LEMMA FrameChained ==
  ASSUME NEW u \in Unit, NEW W, NEW o, NEW lo \in Nat, NEW hi \in Nat, Frame(u, o, lo, hi, W),
         NEW v, v = [u EXCEPT !.chained = TRUE]
  PROVE  Frame(v, o, lo, hi, W) /\ v.chained
<1>1. Laid(u, W) /\ Layout(u) /\ Lands(u) /\ GoalsMet(u)
  BY DEF Frame, Laid
<1>2. /\ v.code = u.code /\ v.last = u.last /\ v.sites = u.sites /\ v.height = u.height
      /\ v.chained /\ v.goals = u.goals
  BY DEF Unit
<1>3. /\ Size(v) = Size(u) /\ Starts(v) = Starts(u)
      /\ \A i : At(v.code, i) = At(u.code, i)
      /\ \A p : IdAt(v, p) = IdAt(u, p)
  BY <1>2 DEF Size, Starts, At, IdAt
<1>4. \A p : EndOf(v, p) = EndOf(u, p) /\ Slot(v, p) = Slot(u, p)
  BY <1>3 DEF EndOf, Slot
<1>5. \A p : Target(v, p) = Target(u, p)
  BY <1>3, <1>4 DEF Target
<1>6. Layout(v)
  <2>1. v.sites = u.sites /\ v.last = u.last
    BY <1>2
  <2> QED
    BY <1>1, <1>3, <1>4, <2>1, ZenonT(40) DEF Layout
<1>7. Lands(v)
  BY <1>1, <1>3, <1>5 DEF Lands, Jumping
<1>8. GoalsMet(v)
  BY <1>1, <1>2, <1>3 DEF GoalsMet
<1>9. Laid(v, W)
  BY <1>2, <1>6, <1>7, <1>8 DEF Laid
<1>10. ASSUME NEW i \in lo .. hi PROVE Held(v, o[i])
  <2>1. Held(u, o[i])
    BY DEF Frame
  <2>2. AnchorHeld(u, o[i]) => AnchorHeld(v, o[i])
    BY <1>2, <1>3 DEF AnchorHeld
  <2>3. ASSUME LoopHeld(u, o[i]) PROVE LoopHeld(v, o[i])
    <3>1. /\ \A b \in o[i].breaks : Unpatched(v, o[i], "BREAK", b)
          /\ \A b \in o[i].continues : Unpatched(v, o[i], "CONTINUE", b)
      BY <1>3, <2>3 DEF LoopHeld, Unpatched
    <3> QED
      BY <1>2, <1>3, <2>3, <3>1 DEF LoopHeld
  <2> QED
    BY <2>1, <2>2, <2>3 DEF Held
<1>11. \A i \in lo .. hi - 1 : o[i].kind \in LoopKind => o[i].start < Size(v)
  BY <1>3 DEF Frame
<1>12. \A i, j \in lo .. hi :
        i < j /\ o[i].kind \in LoopKind /\ o[j].kind \in LoopKind =>
          /\ o[i].start < o[j].start
          /\ \A b \in o[i].breaks \cup o[i].continues : b < o[j].start
  BY DEF Frame
<1> QED
  BY <1>2, <1>9, <1>10, <1>11, <1>12 DEF Frame

\* A break or continue is noted with the innermost loop.
LEMMA FrameNoted ==
  ASSUME NEW u \in Unit, NEW W, NEW o, NEW lo \in Nat, NEW hi \in Nat, Frame(u, o, lo, hi, W),
         NEW m \in lo .. hi, o[m].kind \in LoopKind,
         \A j \in lo .. hi : o[j].kind \in LoopKind => j <= m,
         NEW b \in Nat, b - 1 \in Starts(u), b > o[m].start, At(u.code, b) = 0,
         ~u.chained => \A s \in Range(u.sites) : s.pos + 1 = b => s.height = 0,
         NEW o2, \A i \in lo .. hi : i # m => o2[i] = o[i],
         o2[m].kind = o[m].kind, o2[m].pos = o[m].pos, o2[m].start = o[m].start,
         o2[m].pending = o[m].pending,
         \A x \in o2[m].breaks : x \in o[m].breaks \/ (x = b /\ IdAt(u, b - 1) = "BREAK"),
         \A x \in o2[m].continues : x \in o[m].continues \/ (x = b /\ IdAt(u, b - 1) = "CONTINUE")
  PROVE  Frame(u, o2, lo, hi, W)
<1>1. \A i \in lo .. hi : /\ o2[i].kind = o[i].kind /\ o2[i].pos = o[i].pos
                          /\ o2[i].start = o[i].start /\ o2[i].pending = o[i].pending
  OBVIOUS
<1>2. LoopHeld(u, o[m]) /\ AnchorHeld(u, o[m]) = AnchorHeld(u, o2[m])
  BY DEF Frame, Held, AnchorHeld
<1>3. LoopHeld(u, o2[m])
  <2>1. \A x \in o2[m].breaks : Unpatched(u, o2[m], "BREAK", x)
    <3> TAKE x \in o2[m].breaks
    <3>1. CASE x \in o[m].breaks
      BY <1>2, <3>1 DEF LoopHeld, Unpatched
    <3>2. CASE x = b /\ IdAt(u, b - 1) = "BREAK"
      BY <3>2 DEF Unpatched
    <3> QED
      BY <3>1, <3>2
  <2>2. \A x \in o2[m].continues : Unpatched(u, o2[m], "CONTINUE", x)
    <3> TAKE x \in o2[m].continues
    <3>1. CASE x \in o[m].continues
      BY <1>2, <3>1 DEF LoopHeld, Unpatched
    <3>2. CASE x = b /\ IdAt(u, b - 1) = "CONTINUE"
      BY <3>2 DEF Unpatched
    <3> QED
      BY <3>1, <3>2
  <2>3. ~u.chained => \A s \in Range(u.sites) :
                        s.pos + 1 \in o2[m].breaks \cup o2[m].continues => s.height = 0
    BY <1>2 DEF LoopHeld
  <2> QED
    BY <1>2, <2>1, <2>2, <2>3 DEF LoopHeld
<1>4. \A i \in lo .. hi : Held(u, o2[i])
  <2> TAKE i \in lo .. hi
  <2>1. CASE i = m
    <3>1. o2[m].kind \in Anchored => AnchorHeld(u, o2[m])
      BY <1>2 DEF Frame, Held
    <3> QED
      BY <1>3, <2>1, <3>1 DEF Held
  <2>2. CASE i # m
    <3>1. o2[i] = o[i]
      BY <2>2
    <3> QED
      BY <3>1 DEF Frame
  <2> QED
    BY <2>1, <2>2
<1>5. \A i \in lo .. hi - 1 : o2[i].kind \in LoopKind => o2[i].start < Size(u)
  BY <1>1 DEF Frame
<1>6. ASSUME NEW i \in lo .. hi, NEW j \in lo .. hi, i < j,
             o2[i].kind \in LoopKind, o2[j].kind \in LoopKind
      PROVE  /\ o2[i].start < o2[j].start
             /\ \A x \in o2[i].breaks \cup o2[i].continues : x < o2[j].start
  <2>1. o[i].kind \in LoopKind /\ o[j].kind \in LoopKind /\ o2[j].start = o[j].start
    BY <1>1, <1>6
  <2>2. i # m
    BY <1>6, <2>1
  <2>3. o2[i] = o[i]
    BY <2>2
  <2>4. /\ o[i].start < o[j].start
        /\ \A x \in o[i].breaks \cup o[i].continues : x < o[j].start
    BY <1>6, <2>1 DEF Frame
  <2> QED
    BY <2>1, <2>3, <2>4
<1>7. ASSUME ~u.chained, NEW i \in lo + 1 .. hi, o2[i].kind \in Logical,
             NEW s \in Range(u.sites), s.pos = o2[i].pos
      PROVE  Total(u, o2[i - 1], s.height)
  <2>1. i - 1 \in lo .. hi /\ i \in lo .. hi
    OBVIOUS
  <2>2. o[i].kind \in Logical /\ s.pos = o[i].pos
    BY <1>1, <1>7, <2>1
  <2>3. Total(u, o[i - 1], s.height)
    BY <1>7, <2>2 DEF Frame
  <2>4. /\ o2[i - 1].kind = o[i - 1].kind /\ o2[i - 1].pos = o[i - 1].pos
        /\ o2[i - 1].pending = o[i - 1].pending
    BY <1>1, <2>1
  <2> QED
    BY <2>3, <2>4 DEF Total
<1>8. Laid(u, W)
  BY DEF Frame
<1> QED
  BY <1>4, <1>5, <1>6, <1>7, <1>8 DEF Frame

\* The operands of the innermost expression are on the stack.
LEMMA PendingHeld ==
  ASSUME NEW u \in Unit, NEW W, NEW o, NEW lo \in Nat, NEW hi \in Nat, lo <= hi,
         Frame(u, o, lo, hi, W), o[hi] \in Construct, ~u.chained, NEW h, Total(u, o[hi], h)
  PROVE  /\ h \in Nat /\ o[hi].pending <= h
         /\ o[hi].kind \notin Logical => h = o[hi].pending
         /\ o[hi].kind \in Logical => o[hi].pending < h
<1>1. o[hi].pending \in Nat
  BY ConstructFacts
<1>2. CASE o[hi].kind \in Logical
  <2>1. hi \in lo .. hi
    OBVIOUS
  <2>2. o[hi].pos \in Starts(u) /\ IdAt(u, o[hi].pos) = "CHK"
    BY <1>2, <2>1 DEF Frame, Held, AnchorHeld, Anchored, Anchor, Logical
  <2>3. PICK s \in Range(u.sites) : s.pos = o[hi].pos
    BY <2>2 DEF Starts
  <2>4. Takes("CHK", Operands(u, s.pos)) <= s.height
    BY <2>2, <2>3 DEF Frame, Laid, Heights
  <2>5. s.height \in Int /\ s.height >= 1
    BY <2>3, <2>4, UnitFacts DEF Takes
  <2>6. h = s.height + o[hi].pending
    BY <1>2, <2>3 DEF Total
  <2> QED
    BY <1>1, <1>2, <2>3, <2>5, <2>6
<1>3. CASE o[hi].kind \notin Logical
  BY <1>1, <1>3 DEF Total
<1> QED
  BY <1>2, <1>3
-----------------------------------------------------------------------------
(* The units and the constructs that are open in each.                     *)

LEMMA AnchorsSame ==
  ASSUME NEW o, NEW o2, NEW lo, NEW hi,
         \A i \in lo .. hi : o2[i].kind = o[i].kind /\ o2[i].pos = o[i].pos
  PROVE  Anchors(o2, lo, hi) = Anchors(o, lo, hi)
BY DEF Anchors

\* The anchors with one construct more.
LEMMA AnchorsMore ==
  ASSUME NEW o, NEW lo \in Nat, NEW hi \in Nat, lo <= hi
  PROVE  Anchors(o, lo, hi) = Anchors(o, lo, hi - 1)
                                \cup (IF o[hi].kind \in Anchored THEN {o[hi].pos} ELSE {})
<1>1. lo .. hi = (lo .. hi - 1) \cup {hi} /\ hi \notin lo .. hi - 1
  OBVIOUS
<1>2. CASE o[hi].kind \in Anchored
  <2>1. {j \in lo .. hi : o[j].kind \in Anchored}
          = {j \in lo .. hi - 1 : o[j].kind \in Anchored} \cup {hi}
    BY <1>1, <1>2
  <2> QED
    BY <1>2, <2>1 DEF Anchors
<1>3. CASE o[hi].kind \notin Anchored
  <2>1. {j \in lo .. hi : o[j].kind \in Anchored} = {j \in lo .. hi - 1 : o[j].kind \in Anchored}
    BY <1>1, <1>3
  <2> QED
    BY <1>3, <2>1 DEF Anchors
<1> QED
  BY <1>2, <1>3

LEMMA PartSame ==
  ASSUME NEW u, NEW o, NEW lo \in Nat, NEW hi \in Nat, lo <= hi, Part(u, o, lo, hi),
         NEW o2, \A i \in lo .. hi : o2[i] = o[i]
  PROVE  Part(u, o2, lo, hi)
<1>1. Anchors(o2, lo, hi) = Anchors(o, lo, hi)
  BY AnchorsSame
<1>2. o2[hi] = o[hi] /\ \A i \in lo .. hi - 1 : o2[i] = o[i]
  OBVIOUS
<1>3. Alike(o[hi], o2[hi])
  BY <1>2 DEF Alike
<1>4. Frame(u, o2, lo, hi, Anchors(o2, lo, hi))
  BY <1>1, <1>2, <1>3, FrameSame DEF Part
<1> QED
  BY <1>2, <1>4 DEF Part

\* Where the constructs of a unit are.
LEMMA BasesFacts ==
  ASSUME NEW base, NEW us \in Seq(Unit), NEW o \in Seq(Construct), Bases(base, us, o),
         NEW k \in DOMAIN us
  PROVE  /\ DOMAIN base = 1 .. Len(us) /\ k \in DOMAIN base /\ k \in 1 .. Len(us)
         /\ Len(base) = Len(us) /\ Len(us) \in Nat
         /\ base[k] \in Nat \ {0} /\ Upper(base, k, o) \in Nat /\ Len(o) \in Nat
         /\ base[k] <= Upper(base, k, o) /\ Upper(base, k, o) <= Len(o)
         /\ o[base[k]].kind \in Functional
         /\ k = Len(us) => Upper(base, k, o) = Len(o)
         /\ k # Len(us) => /\ k + 1 \in DOMAIN us /\ Upper(base, k, o) = base[k + 1] - 1
                           /\ Upper(base, k, o) < base[Len(us)]
<1>1. /\ DOMAIN base = 1 .. Len(us) /\ k \in DOMAIN base /\ k \in 1 .. Len(us)
      /\ Len(base) = Len(us) /\ Len(us) \in Nat /\ Len(o) \in Nat
      /\ base[k] \in Nat \ {0}
  BY DEF Bases
<1>2. /\ base[k] <= Upper(base, k, o) /\ Upper(base, k, o) <= Len(o)
      /\ o[base[k]].kind \in Functional
  BY <1>1 DEF Bases
<1>3. k = Len(us) => Upper(base, k, o) = Len(o)
  BY <1>1 DEF Upper
<1>4. ASSUME k # Len(us)
      PROVE  /\ k + 1 \in DOMAIN us /\ Upper(base, k, o) = base[k + 1] - 1
             /\ Upper(base, k, o) < base[Len(us)] /\ Upper(base, k, o) \in Nat
  <2>1. k + 1 \in DOMAIN base /\ k + 1 \in DOMAIN us /\ Len(us) \in DOMAIN base
    BY <1>1, <1>4
  <2>2. Upper(base, k, o) = base[k + 1] - 1
    BY <1>1, <1>4 DEF Upper
  <2>3. base[k + 1] \in Nat \ {0} /\ base[Len(us)] \in Nat
    BY <2>1 DEF Bases
  <2>4. k + 1 = Len(us) \/ base[k + 1] < base[Len(us)]
    <3>1. k + 1 = Len(us) \/ k + 1 < Len(us)
      BY <1>1, <1>4
    <3> QED
      BY <2>1, <3>1 DEF Bases
  <2>5. base[k + 1] <= base[Len(us)]
    BY <2>3, <2>4
  <2> QED
    BY <2>1, <2>2, <2>3, <2>5
<1>5. Upper(base, k, o) \in Nat
  BY <1>1, <1>3, <1>4
<1> QED
  BY <1>1, <1>2, <1>3, <1>4, <1>5

\* A step in the innermost unit.
LEMMA InnermostStep ==
  ASSUME NEW base, NEW us \in Seq(Unit), NEW o \in Seq(Construct), us # <<>>,
         Bases(base, us, o), Parts(base, us, o),
         NEW lo, lo = base[Len(us)],
         NEW o2 \in Seq(Construct), lo <= Len(o2), \A i \in 1 .. lo - 1 : o2[i] = o[i],
         o2[lo].kind \in Functional,
         \A i \in lo + 1 .. Len(o2) : o2[i].kind \notin Functional,
         NEW v \in Unit, Part(v, o2, lo, Len(o2)),
         NEW us2, us2 = [us EXCEPT ![Len(us)] = v]
  PROVE  Bases(base, us2, o2) /\ Parts(base, us2, o2)
<1> DEFINE m == Len(us)
<1>1. m \in DOMAIN us /\ m \in Nat \ {0} /\ DOMAIN us = 1 .. m /\ DOMAIN base = 1 .. m
  BY BasesFacts
<1>2. lo \in Nat \ {0} /\ Len(o2) \in Nat
  BY <1>1, BasesFacts
<1>3. /\ us2 \in Seq(Unit) /\ Len(us2) = m /\ DOMAIN us2 = DOMAIN us
      /\ us2[m] = v /\ \A k \in DOMAIN us : k # m => us2[k] = us[k]
  BY <1>1, ExceptSeq
<1>4. Len(base) = m /\ Upper(base, m, o2) = Len(o2) /\ base[m] = lo
  BY <1>1, BasesFacts DEF Upper
<1> HIDE DEF m
<1>5. ASSUME NEW k \in DOMAIN us, k # m
      PROVE  /\ base[k] \in Nat /\ Upper(base, k, o2) = Upper(base, k, o)
             /\ Upper(base, k, o) \in Nat /\ Upper(base, k, o) < lo
             /\ base[k] <= Upper(base, k, o)
  BY <1>4, <1>5, BasesFacts DEF m, Upper
<1>6. ASSUME NEW k \in DOMAIN base
      PROVE  /\ base[k] <= Upper(base, k, o2) /\ Upper(base, k, o2) <= Len(o2)
             /\ o2[base[k]].kind \in Functional
             /\ \A i \in base[k] + 1 .. Upper(base, k, o2) : o2[i].kind \notin Functional
  <2>1. CASE k = m
    BY <1>4, <2>1
  <2>2. CASE k # m
    <3>1. k \in DOMAIN us
      BY <1>1
    <3>2. \A i \in base[k] .. Upper(base, k, o) : i \in 1 .. lo - 1
      <4>1. base[k] \in Nat \ {0}
        BY <3>1, BasesFacts
      <4> QED
        BY <1>2, <1>5, <2>2, <3>1, <4>1
    <3>3. \A i \in base[k] .. Upper(base, k, o) : o2[i] = o[i]
      BY <3>2
    <3>4. /\ base[k] <= Upper(base, k, o) /\ o[base[k]].kind \in Functional
          /\ \A i \in base[k] + 1 .. Upper(base, k, o) : o[i].kind \notin Functional
      BY DEF Bases
    <3>5. base[k] \in base[k] .. Upper(base, k, o)
      BY <1>5, <2>2, <3>1
    <3>6. \A i \in base[k] + 1 .. Upper(base, k, o) : i \in base[k] .. Upper(base, k, o)
      BY <1>5, <2>2, <3>1
    <3>7. Upper(base, k, o2) = Upper(base, k, o) /\ Upper(base, k, o) <= Len(o2)
      BY <1>2, <1>5, <2>2, <3>1
    <3> QED
      BY <3>3, <3>4, <3>5, <3>6, <3>7
  <2> QED
    BY <2>1, <2>2
<1>7. Bases(base, us2, o2)
  <2>1. us2 # <<>> /\ o2 # <<>>
    BY <1>1, <1>2, <1>3
  <2>2. base \in Seq(Nat \ {0}) /\ Len(base) = Len(us2)
    BY <1>3, <1>4 DEF Bases
  <2>3. base[1] = 1 /\ \A j, k \in DOMAIN base : j < k => base[j] < base[k]
    BY DEF Bases
  <2> QED
    BY <1>6, <2>1, <2>2, <2>3 DEF Bases
<1>8. ASSUME NEW k \in DOMAIN us2
      PROVE  Part(us2[k], o2, base[k], Upper(base, k, o2))
  <2>1. CASE k = m
    BY <1>3, <1>4, <2>1
  <2>2. CASE k # m
    <3>1. Part(us[k], o, base[k], Upper(base, k, o))
      BY <1>3 DEF Parts
    <3>2. base[k] \in Nat \ {0}
      BY <1>3, BasesFacts
    <3>3. \A i \in base[k] .. Upper(base, k, o) : o2[i] = o[i]
      <4>1. \A i \in base[k] .. Upper(base, k, o) : i \in 1 .. lo - 1
        BY <1>2, <1>3, <1>5, <2>2, <3>2
      <4> QED
        BY <4>1
    <3>4. Part(us[k], o2, base[k], Upper(base, k, o))
      BY <1>3, <1>5, <2>2, <3>1, <3>2, <3>3, PartSame
    <3> QED
      BY <1>3, <1>5, <2>2, <3>4
  <2> QED
    BY <2>1, <2>2
<1> QED
  BY <1>7, <1>8 DEF Parts
-----------------------------------------------------------------------------
(* The invariant, and what a step of the innermost unit has to show.       *)

Shape(base) == Bases(base, units, open) /\ Parts(base, units, open)
Shaped == \E base : Shape(base)

LEMMA TopPart ==
  ASSUME Typed, open # <<>>, NEW base, Shape(base), NEW lo, lo = base[Len(units)],
         NEW hi, hi = Len(open), NEW W, W = Anchors(open, lo, hi)
  PROVE  /\ lo \in Nat \ {0} /\ hi \in Nat \ {0} /\ lo <= hi
         /\ inst \in Unit /\ Frame(inst, open, lo, hi, W)
         /\ Laid(inst, W) /\ Layout(inst) /\ Size(inst) \in Nat
         /\ open[lo].kind \in Functional
         /\ \A i \in lo + 1 .. hi : open[i].kind \notin Functional
         /\ \A i \in lo .. hi : open[i] \in Construct
         /\ top = open[hi] /\ top \in Construct
         /\ top.kind \notin Functional => lo < hi
         /\ top.kind \in Functional => lo = hi
         /\ top.kind \notin Expression => top.pending = 0
         /\ top.kind \in Functional \cup {"then", "body"} => Settled(inst)
         /\ ~inst.chained => Total(inst, top, inst.height)
         /\ Loops = {i \in lo .. hi : open[i].kind \in LoopKind}
<1> DEFINE m == Len(units)
<1>1. /\ units \in Seq(Unit) /\ open \in Seq(Construct) /\ m \in DOMAIN units
      /\ inst = units[m] /\ inst \in Unit /\ hi \in Nat \ {0} /\ top = open[hi]
      /\ top \in Construct /\ Within(top, open[hi - 1].kind)
  BY TopFacts DEF Typed, UnitsOK, OpenOK
<1>2. Bases(base, units, open) /\ Parts(base, units, open)
  BY DEF Shape
<1>3. /\ lo \in Nat \ {0} /\ lo <= hi /\ Upper(base, m, open) = hi
      /\ open[lo].kind \in Functional /\ m \in DOMAIN base
  BY <1>1, <1>2, BasesFacts
<1>4. \A i \in lo + 1 .. hi : open[i].kind \notin Functional
  BY <1>2, <1>3 DEF Bases
<1>5. Part(inst, open, lo, hi)
  BY <1>1, <1>2, <1>3 DEF Parts
<1> HIDE DEF m
<1>6. Frame(inst, open, lo, hi, W) /\ Laid(inst, W) /\ Layout(inst)
  BY <1>5 DEF Part, Frame, Laid
<1>7. \A i \in lo .. hi : i \in DOMAIN open /\ open[i] \in Construct
  BY <1>1, <1>3
<1>8. top.kind \notin Functional => lo < hi
  BY <1>1, <1>3
<1>9. top.kind \in Functional => lo = hi
  <2> SUFFICES ASSUME lo # hi PROVE top.kind \notin Functional
    OBVIOUS
  <2>1. hi \in lo + 1 .. hi
    BY <1>1, <1>3
  <2> QED
    BY <1>1, <1>4, <2>1
<1>10. Loops = {i \in lo .. hi : open[i].kind \in LoopKind}
  <2>1. ASSUME NEW i \in Loops PROVE i \in lo .. hi /\ open[i].kind \in LoopKind
    <3>1. i \in 1 .. hi /\ \A h \in i .. hi : open[h].kind \notin {"function", "deferred"}
      BY <1>1, <2>1 DEF Loops, OfFunction
    <3>2. open[i].kind \in LoopKind
      BY <2>1 DEF Loops, LoopKind
    <3>3. CASE i < lo
      <4>1. lo \in i .. hi
        BY <1>1, <1>3, <3>1, <3>3
      <4>2. open[lo].kind = "script"
        BY <1>3, <3>1, <4>1 DEF Functional
      <4>3. lo \in DOMAIN open /\ Nested(open)
        BY <1>1, <1>3 DEF Typed, OpenOK
      <4>4. lo = 1
        BY <4>2, <4>3 DEF Nested
      <4> QED
        BY <3>1, <3>3, <4>4
    <3>4. CASE ~(i < lo)
      BY <1>1, <1>3, <3>1, <3>2, <3>4
    <3> QED
      BY <3>3, <3>4
  <2>2. ASSUME NEW i \in lo .. hi, open[i].kind \in LoopKind PROVE i \in Loops
    <3>1. i \in DOMAIN open /\ Len(open) = hi
      BY <1>7
    <3>2. \A h \in i .. hi : open[h].kind \notin {"function", "deferred"}
      <4> TAKE h \in i .. hi
      <4>1. CASE h = lo
        <5>1. i = lo
          BY <1>1, <1>3, <4>1
        <5> QED
          BY <2>2, <4>1, <5>1 DEF LoopKind
      <4>2. CASE h # lo
        <5>1. h \in lo + 1 .. hi
          BY <1>1, <1>3, <4>2
        <5> QED
          BY <1>4, <5>1 DEF Functional
      <4> QED
        BY <4>1, <4>2
    <3> QED
      BY <2>2, <3>1, <3>2 DEF Loops, OfFunction, LoopKind
  <2>3. \A i \in Loops : i \in {j \in lo .. hi : open[j].kind \in LoopKind}
    BY <2>1
  <2>4. \A i \in {j \in lo .. hi : open[j].kind \in LoopKind} : i \in Loops
    BY <2>2
  <2> QED
    BY <2>3, <2>4
<1>11. top.kind \in Functional \cup {"then", "body"} => Settled(inst)
  BY <1>1, <1>5 DEF Part
<1>12. ~inst.chained => Total(inst, top, inst.height)
  BY <1>1, <1>5 DEF Part
<1>13. top.kind \notin Expression => top.pending = 0
  BY <1>1 DEF Within
<1>14. Size(inst) \in Nat
  BY <1>1, UnitFacts
<1> QED
  BY <1>1, <1>3, <1>4, <1>6, <1>7, <1>8, <1>9, <1>10, <1>11, <1>12, <1>13, <1>14

LEMMA TopStep ==
  ASSUME Typed, open # <<>>, NEW base, Shape(base), NEW lo, lo = base[Len(units)],
         open' \in Seq(Construct), lo <= Len(open'), \A i \in 1 .. lo - 1 : open'[i] = open[i],
         open'[lo].kind \in Functional,
         \A i \in lo + 1 .. Len(open') : open'[i].kind \notin Functional,
         NEW v \in Unit, Part(v, open', lo, Len(open')),
         units' = [units EXCEPT ![Len(units)] = v]
  PROVE  Shaped'
<1>1. units \in Seq(Unit) /\ open \in Seq(Construct) /\ units # <<>>
  BY TopFacts DEF Typed, UnitsOK, OpenOK
<1>2. Bases(base, units, open) /\ Parts(base, units, open)
  BY DEF Shape
<1>3. Bases(base, units', open') /\ Parts(base, units', open')
  BY <1>1, <1>2, InnermostStep
<1> QED
  BY <1>3 DEF Shaped, Shape

\* The last construct becomes another.
LEMMA TopStepSet ==
  ASSUME Typed, open # <<>>, NEW base, Shape(base), NEW lo, lo = base[Len(units)],
         NEW hi, hi = Len(open), top.kind \notin Functional,
         NEW c \in Construct, c.kind \notin Functional, SetTop(c),
         NEW v \in Unit,
         units' = [units EXCEPT ![Len(units)] = v],
         NEW o, o = open', Part(v, o, lo, hi)
  PROVE  Shaped'
<1>1. /\ lo \in Nat \ {0} /\ hi \in Nat \ {0} /\ lo < hi /\ open[lo].kind \in Functional
      /\ \A i \in lo + 1 .. hi : open[i].kind \notin Functional
  BY TopPart
<1>2. /\ open' \in Seq(Construct) /\ Len(open') = hi
      /\ \A i \in 1 .. hi : open'[i] = IF i = hi THEN c ELSE open[i]
  <2>1. open \in Seq(Construct) /\ hi \in DOMAIN open /\ DOMAIN open = 1 .. hi
    BY <1>1 DEF Typed, OpenOK
  <2>2. open' = [open EXCEPT ![hi] = c]
    BY DEF SetTop
  <2> QED
    BY <2>1, <2>2, ExceptSeq
<1>3. \A i \in 1 .. lo - 1 : open'[i] = open[i]
  BY <1>1, <1>2
<1>4. open'[lo].kind \in Functional
  BY <1>1, <1>2
<1>5. \A i \in lo + 1 .. hi : open'[i].kind \notin Functional
  BY <1>1, <1>2
<1>6. lo <= Len(open') /\ Part(v, open', lo, Len(open'))
  BY <1>1, <1>2
<1> QED
  BY <1>2, <1>3, <1>4, <1>5, <1>6, TopStep

LEMMA TopStepPush ==
  ASSUME Typed, open # <<>>, NEW base, Shape(base), NEW lo, lo = base[Len(units)],
         NEW hi, hi = Len(open),
         NEW c \in Construct, c.kind \notin Functional, open' = Append(open, c),
         NEW v \in Unit,
         units' = [units EXCEPT ![Len(units)] = v],
         NEW o, o = open', Part(v, o, lo, hi + 1)
  PROVE  Shaped'
<1>1. /\ lo \in Nat \ {0} /\ hi \in Nat \ {0} /\ lo <= hi /\ open[lo].kind \in Functional
      /\ \A i \in lo + 1 .. hi : open[i].kind \notin Functional
  BY TopPart
<1>2. /\ open' \in Seq(Construct) /\ Len(open') = hi + 1
      /\ \A i \in 1 .. hi : open'[i] = open[i]
      /\ open'[hi + 1] = c
  <2>1. open \in Seq(Construct)
    BY DEF Typed, OpenOK
  <2> QED
    BY <2>1
<1>3. \A i \in 1 .. lo - 1 : open'[i] = open[i]
  BY <1>1, <1>2
<1>4. open'[lo].kind \in Functional
  BY <1>1, <1>2
<1>5. \A i \in lo + 1 .. hi + 1 : open'[i].kind \notin Functional
  <2> TAKE i \in lo + 1 .. hi + 1
  <2>1. i = hi + 1 \/ (i \in lo + 1 .. hi /\ i \in 1 .. hi)
    BY <1>1
  <2> QED
    BY <1>1, <1>2, <2>1
<1>6. lo <= Len(open')
  BY <1>1, <1>2
<1> QED
  BY <1>2, <1>3, <1>4, <1>5, <1>6, TopStep

LEMMA TopStepPop ==
  ASSUME Typed, open # <<>>, NEW base, Shape(base), NEW lo, lo = base[Len(units)],
         NEW hi, hi = Len(open), top.kind \notin Functional, Pop,
         NEW v \in Unit,
         units' = [units EXCEPT ![Len(units)] = v],
         Part(v, open, lo, hi - 1)
  PROVE  Shaped'
<1>1. /\ lo \in Nat \ {0} /\ hi \in Nat \ {0} /\ lo < hi /\ open[lo].kind \in Functional
      /\ \A i \in lo + 1 .. hi : open[i].kind \notin Functional
  BY TopPart
<1>2. /\ open' \in Seq(Construct) /\ Len(open') = hi - 1
      /\ \A i \in 1 .. hi - 1 : open'[i] = open[i]
  BY Popped DEF Typed, OpenOK, Pop
<1>3. \A i \in 1 .. lo - 1 : open'[i] = open[i]
  BY <1>1, <1>2
<1>4. open'[lo].kind \in Functional
  BY <1>1, <1>2
<1>5. \A i \in lo + 1 .. hi - 1 : open'[i].kind \notin Functional
  BY <1>1, <1>2
<1>6. lo <= hi - 1 /\ hi - 1 \in Nat
  BY <1>1
<1>7. \A i \in lo .. hi - 1 : open'[i] = open[i]
  BY <1>1, <1>2
<1> DEFINE o == open'
<1>8. Part(v, o, lo, hi - 1)
  <2> HIDE DEF o
  <2>1. \A i \in lo .. hi - 1 : o[i] = open[i]
    BY <1>7 DEF o
  <2> QED
    BY <1>1, <1>6, <2>1, PartSame
<1> QED
  BY <1>2, <1>3, <1>4, <1>5, <1>6, <1>8, TopStep
-----------------------------------------------------------------------------
(* Expressions.                                                            *)

\* The loops are told apart from an expression that is no loop.
NoLoops(o, lo, hi) == \A i \in lo .. hi : o[i].kind \notin LoopKind

\* An operator takes its operands off the stack and leaves its value.
LEMMA PartOperand ==
  ASSUME NEW u \in Unit, NEW o, NEW lo \in Nat, NEW hi \in Nat, lo <= hi,
         Part(u, o, lo, hi), \A i \in lo .. hi : o[i] \in Construct,
         o[hi].kind \in Expression,
         NEW id, NEW w, Instruction(id, w), id \notin Short \cup Exit, Gives(id) = 1,
         Takes(id, w) <= o[hi].pending,
         id \in {"PACK", "MAP"} => NoLoops(o, lo, hi),
         NEW o2, \A i \in lo .. hi - 1 : o2[i] = o[i], Alike(o[hi], o2[hi]),
         o2[hi].pending = o[hi].pending - Takes(id, w) + 1
  PROVE  Part(Put(u, id, w), o2, lo, hi)
<1> DEFINE W == Anchors(o, lo, hi)
           v == Put(u, id, w)
<1>1. Frame(u, o, lo, hi, W) /\ (~u.chained => Total(u, o[hi], u.height))
  BY DEF Part
<1>2. Extends(u, id, w, v) /\ v.chained = u.chained /\ u.height \in Int /\ Takes(id, w) \in Nat
      /\ v.height = u.height - Takes(id, w) + 1 /\ o[hi] \in Construct
      /\ hi \in lo .. hi
  <2>1. Extends(u, id, w, v)
    BY PutExtends
  <2>2. v.chained = u.chained /\ v.height = u.height - Takes(id, w) + 1
    BY <2>1 DEF Extends
  <2>3. u.height \in Int /\ Takes(id, w) \in Nat
    BY UnitFacts, TakesNat
  <2>4. hi \in lo .. hi
    OBVIOUS
  <2> QED
    BY <2>1, <2>2, <2>3, <2>4
<1> HIDE DEF W, v
<1>3. o[hi].pending \in Nat /\ (~u.chained => o[hi].pending <= u.height)
  <2>1. o[hi].pending \in Nat
    BY <1>2, ConstructFacts
  <2>2. ASSUME ~u.chained PROVE o[hi].pending <= u.height
    <3>1. Total(u, o[hi], u.height)
      BY <1>1, <2>2
    <3> QED
      BY <1>1, <1>2, <2>2, <3>1, PendingHeld
  <2> QED
    BY <2>1, <2>2
<1>4. Frame(v, o, lo, hi, W)
  <2>1. ~u.chained => Takes(id, w) <= u.height
    BY <1>2, <1>3
  <2>2. id \notin Short /\ id # "CHK"
    BY DEF Short
  <2>3. id \in {"PACK", "MAP", "CHK"} => \A i \in lo .. hi : o[i].kind \notin LoopKind
    BY <2>2 DEF NoLoops
  <2> QED
    BY <1>1, <1>2, <2>1, <2>2, <2>3, FramePut
<1>5. Frame(v, o2, lo, hi, W)
  BY <1>4, FrameSame
<1>6. Anchors(o2, lo, hi) = W
  <2>1. \A i \in lo .. hi : i \in lo .. hi - 1 \/ i = hi
    OBVIOUS
  <2>2. \A i \in lo .. hi : o2[i].kind = o[i].kind /\ o2[i].pos = o[i].pos
    BY <2>1 DEF Alike
  <2> QED
    BY <2>2, AnchorsSame DEF W
<1>7. o2[hi].kind \notin Functional \cup {"then", "body"}
  BY DEF Alike, Expression, Functional
<1>8. ASSUME ~v.chained PROVE Total(v, o2[hi], v.height)
  <2>1. Total(v, o[hi], u.height)
    BY <1>1, <1>2, <1>8, TotalPut2
  <2>2. CASE o[hi].kind \in Logical
    <3>1. o2[hi].kind \in Logical /\ o2[hi].pos = o[hi].pos
      BY <2>2 DEF Alike
    <3>2. \A s \in Range(v.sites) : s.pos = o[hi].pos => v.height = s.height + o2[hi].pending
      <4> TAKE s \in Range(v.sites)
      <4> HAVE s.pos = o[hi].pos
      <4>1. u.height = s.height + o[hi].pending
        BY <2>1, <2>2 DEF Total
      <4>2. s.height \in Int
        BY <1>2, UnitFacts DEF Extends
      <4> QED
        BY <1>2, <1>3, <4>1, <4>2
    <3> QED
      BY <3>1, <3>2 DEF Total
  <2>3. CASE o[hi].kind \notin Logical
    <3>1. o2[hi].kind \notin Logical /\ u.height = o[hi].pending
      BY <2>1, <2>3 DEF Alike, Total
    <3> QED
      BY <1>2, <3>1 DEF Total
  <2> QED
    BY <2>2, <2>3
<1>9. Part(v, o2, lo, hi)
  BY <1>5, <1>6, <1>7, <1>8 DEF Part
<1> QED
  BY <1>9 DEF v

\* The same for the last construct of all.
LEMMA OperandStep ==
  ASSUME Typed, open # <<>>, Shaped, top.kind \in Expression,
         NEW id, NEW w, Instruction(id, w), id \notin Short \cup Exit, Gives(id) = 1,
         Takes(id, w) <= top.pending,
         id \in {"PACK", "MAP"} => Loops = {},
         units' = [units EXCEPT ![Len(units)] = Put(inst, id, w)],
         SetTop([top EXCEPT !.pending = top.pending - Takes(id, w) + 1])
  PROVE  Shaped'
<1> PICK base : Shape(base)
  BY DEF Shaped
<1> DEFINE lo == base[Len(units)]
           hi == Len(open)
           v == Put(inst, id, w)
           c == [top EXCEPT !.pending = top.pending - Takes(id, w) + 1]
           o == open'
<1>1. /\ lo \in Nat \ {0} /\ hi \in Nat \ {0} /\ lo <= hi /\ inst \in Unit
      /\ \A i \in lo .. hi : open[i] \in Construct
      /\ top = open[hi] /\ top \in Construct
      /\ Loops = {i \in lo .. hi : open[i].kind \in LoopKind}
  BY TopPart
<1>2. Part(inst, open, lo, hi)
  BY TopPart DEF Part
<1>3. top.kind \notin Functional /\ c.kind = top.kind
  BY <1>1, KindsApart DEF Construct
<1>4. c \in Construct
  <2>1. Takes(id, w) \in Nat /\ top.pending \in Nat
    BY <1>1, TakesNat, ConstructFacts
  <2>2. top.pending - Takes(id, w) + 1 \in Nat
    BY <2>1
  <2> DEFINE k == top.pending - Takes(id, w) + 1
  <2> HIDE DEF k
  <2>3. [top EXCEPT !.pending = k] \in Construct
    BY <1>1, <2>2 DEF Construct, k
  <2> QED
    BY <2>3 DEF k
<1>5. v \in Unit
  BY <1>1, PutExtends DEF Extends
<1>6. /\ \A i \in lo .. hi - 1 : o[i] = open[i]
      /\ o[hi] = c
  <2>1. open \in Seq(Construct) /\ hi \in DOMAIN open /\ DOMAIN open = 1 .. hi
    BY <1>1 DEF Typed, OpenOK
  <2>2. open' = [open EXCEPT ![hi] = c]
    BY DEF SetTop
  <2> HIDE DEF c, lo, hi
  <2> QED
    BY <1>1, <2>1, <2>2
<1>7. Alike(open[hi], o[hi]) /\ o[hi].pending = open[hi].pending - Takes(id, w) + 1
  <2>1. Alike(top, c) /\ c.pending = top.pending - Takes(id, w) + 1
    BY <1>1 DEF Alike, Construct
  <2> HIDE DEF c, lo, hi, o
  <2> QED
    BY <1>1, <1>6, <2>1
<1> HIDE DEF lo, hi, v, o
<1>8. Part(v, o, lo, hi)
  <2>1. id \in {"PACK", "MAP"} => NoLoops(open, lo, hi)
    BY <1>1 DEF NoLoops
  <2>2. open[hi].kind \in Expression /\ Takes(id, w) <= open[hi].pending
    BY <1>1
  <2>3. lo \in Nat /\ hi \in Nat
    BY <1>1
  <2>4. Part(Put(inst, id, w), o, lo, hi)
    BY <1>1, <1>2, <1>6, <1>7, <2>1, <2>2, <2>3, PartOperand
  <2> QED
    BY <2>4 DEF v
<1>9. SetTop(c) /\ units' = [units EXCEPT ![Len(units)] = v] /\ o = open'
  BY DEF v, o
<1> HIDE DEF c
<1> QED
  BY <1>3, <1>4, <1>5, <1>8, <1>9, TopStepSet DEF lo, hi

LEMMA GivesOne ==
  /\ \A id \in {"CONST_", "CONST_INT", "CONST_NULL", "LOAD", "STORE", "ADD", "NOT", "AND", "OR",
                "CALL", "INDEX", "SET", "SIZE", "GT", "CLOSURE", "PACK", "MAP"} :
       Gives(id) = 1 /\ id \notin Short \cup Exit
  /\ \A id \in {"POP", "RET", "DEFER", "HLT", "JNZ", "JMP", "BREAK", "CONTINUE"} : Gives(id) = 0
  /\ Gives("CHK") = 1
BY DEF Gives, Short, Exit

\* Emitting one instruction.
LEMMA EmitPut ==
  ASSUME NEW i, NEW id, NEW w, Emitted(inst, i) = Put(inst, id, w), Emit(<<i>>)
  PROVE  units' = [units EXCEPT ![Len(units)] = Put(inst, id, w)]
<1> DEFINE is == <<i>>
           S == {i}
<1>1. is \in Seq(S) /\ Len(is) = 1 /\ is[1] = i
  OBVIOUS
<1>2. units' = [units EXCEPT ![Len(units)] = EmittedAll(inst, is)]
  BY DEF Emit, SetInst
<1> HIDE DEF is, S
<1>3. EmittedAll(inst, is) = Emitted(inst, i)
  BY <1>1, EmittedFew
<1> QED
  BY <1>2, <1>3

LEMMA ShapedLiteral ==
  ASSUME Typed, Shaped, NEW kind \in Literals, Literal(kind)
  PROVE  Shaped'
<1>1. open # <<>> /\ top.kind \in Expression /\ kind \in {"integer", "float", "string"}
  BY CodegenAssumption DEF Literal, InExpression, Top
<1>2. top \in Construct /\ top.pending \in Nat /\ constants \in Nat /\ Bits \in Nat
  BY <1>1, TopFacts, ConstructFacts DEF Typed, Bits
<1>3. SetTop([top EXCEPT !.pending = top.pending + 1])
  BY <1>2 DEF Literal, Operand, Construct
<1>4. ASSUME NEW id \in {"CONST_", "CONST_INT"}, NEW a \in Nat, Emit(<< <<id, a>> >>)
      PROVE  Shaped'
  <2>1. Instruction(id, <<a>>)
    BY Instructions
  <2>2. units' = [units EXCEPT ![Len(units)] = Put(inst, id, <<a>>)]
    <3> DEFINE i == <<id, a>>
               w == <<a>>
    <3>1. Emitted(inst, i) = Put(inst, id, w)
      BY EmittedPut
    <3>2. Emit(<<i>>)
      BY <1>4
    <3> HIDE DEF i, w
    <3>3. units' = [units EXCEPT ![Len(units)] = Put(inst, id, w)]
      BY <3>1, <3>2, EmitPut
    <3> QED
      BY <3>3 DEF w
  <2>3. Takes(id, <<a>>) = 0
    BY DEF Takes
  <2>4. top.pending - Takes(id, <<a>>) + 1 = top.pending + 1 /\ Takes(id, <<a>>) <= top.pending
    BY <1>2, <2>3
  <2>5. Gives(id) = 1 /\ id \notin Short \cup Exit /\ id \notin {"PACK", "MAP"}
    BY GivesOne
  <2>6. SetTop([top EXCEPT !.pending = top.pending - Takes(id, <<a>>) + 1])
    BY <1>3, <2>4
  <2> QED
    BY <1>1, <2>1, <2>2, <2>4, <2>5, <2>6, OperandStep
<1>5. \/ Emit(<< <<"CONST_INT", Bits>> >>)
      \/ Emit(<< <<"CONST_", Bits>> >>)
      \/ Emit(<< <<"CONST_", constants>> >>)
  BY <1>1 DEF Literal
<1> QED
  BY <1>2, <1>4, <1>5

LEMMA PostfixPut ==
  ASSUME NEW i \in Postfix \cup ListLiterals
  PROVE  \E id, w : /\ Instruction(id, w) /\ Gives(id) = 1 /\ id \notin Short \cup Exit
                    /\ Takes(Head(i), Tail(i)) = Takes(id, w)
                    /\ Emitted(inst, i) = Put(inst, id, w)
                    /\ i \in Postfix => id \notin {"PACK", "MAP"}
<1>1. ArgCounts \subseteq Nat /\ ListSizes \subseteq Nat
  BY CodegenAssumption, Opcodes
<1>2. ASSUME NEW id \in {"NOT", "ADD", "SET"}, i = <<id>>
      PROVE  /\ Instruction(id, <<>>) /\ Gives(id) = 1 /\ id \notin Short \cup Exit
             /\ Takes(Head(i), Tail(i)) = Takes(id, <<>>)
             /\ Emitted(inst, i) = Put(inst, id, <<>>)
             /\ id \notin {"PACK", "MAP"}
  <2>1. Head(i) = id /\ Tail(i) = <<>>
    BY <1>2
  <2> QED
    BY <1>2, <2>1, Instructions, GivesOne, EmittedPut
<1>3. CASE i = Store
  <2> DEFINE w == <<1, 0>>
  <2>1. Head(i) = "STORE" /\ Takes("STORE", Tail(i)) = 1 /\ Takes("STORE", w) = 1
    BY <1>3 DEF Takes, Store
  <2>2. Instruction("STORE", w) /\ Gives("STORE") = 1 /\ "STORE" \notin Short \cup Exit
    BY Instructions, GivesOne
  <2>3. Emitted(inst, i) = Put(inst, "STORE", w)
    BY <1>3, EmittedPut DEF Store
  <2> HIDE DEF w
  <2> QED
    BY <2>1, <2>2, <2>3
<1>4. ASSUME NEW id \in {"INDEX", "CALL", "PACK", "MAP"}, NEW n \in Nat, i = <<id, n>>
      PROVE  /\ Instruction(id, <<n>>) /\ Gives(id) = 1 /\ id \notin Short \cup Exit
             /\ Takes(Head(i), Tail(i)) = Takes(id, <<n>>)
             /\ Emitted(inst, i) = Put(inst, id, <<n>>)
  <2>1. Head(i) = id /\ Tail(i) = <<n>>
    BY <1>4
  <2> QED
    BY <1>4, <2>1, Instructions, GivesOne, EmittedPut
<1>5. CASE i \in ListLiterals
  <2>1. PICK id \in {"PACK", "MAP"}, n \in ListSizes : i = <<id, n>>
    BY <1>5 DEF ListLiterals
  <2>2. i \notin Postfix
    <3>1. Head(i) \in {"PACK", "MAP"}
      BY <2>1
    <3>2. \A j \in Postfix : Head(j) \notin {"PACK", "MAP"}
      BY DEF Postfix, Store
    <3> QED
      BY <3>1, <3>2
  <2> QED
    BY <1>1, <1>4, <2>1, <2>2
<1>6. CASE i \in {<<"INDEX", 1>>, <<"INDEX", 2>>}
  <2>1. PICK n \in Nat : i = <<"INDEX", n>>
    BY <1>6
  <2>2. "INDEX" \notin {"PACK", "MAP"}
    OBVIOUS
  <2> QED
    BY <1>4, <2>1, <2>2
<1>7. CASE i \in {<<"CALL", n>> : n \in ArgCounts}
  <2>1. PICK n \in Nat : i = <<"CALL", n>>
    BY <1>1, <1>7
  <2>2. "CALL" \notin {"PACK", "MAP"}
    OBVIOUS
  <2> QED
    BY <1>4, <2>1, <2>2
<1>8. CASE i = <<"NOT">> \/ i = <<"ADD">> \/ i = <<"SET">>
  <2>1. PICK id \in {"NOT", "ADD", "SET"} : i = <<id>>
    BY <1>8
  <2> QED
    BY <1>2, <2>1
<1> QED
  BY <1>3, <1>5, <1>6, <1>7, <1>8 DEF Postfix

LEMMA ShapedOperate ==
  ASSUME Typed, Shaped, NEW i \in Postfix \cup ListLiterals, Operate(i),
         i \in ListLiterals => Loops = {}
  PROVE  Shaped'
<1>1. /\ open # <<>> /\ top.kind \in Expression /\ Emit(<<i>>)
      /\ Takes(Head(i), Tail(i)) <= top.pending
      /\ SetTop([top EXCEPT !.pending = top.pending - Takes(Head(i), Tail(i)) + 1])
  <2>1. open # <<>> /\ top.kind \in Expression /\ Emit(<<i>>)
    BY DEF Operate, InExpression, Top
  <2>2. Takes(Head(i), Tail(i)) <= top.pending
    BY DEF Operate
  <2>3. SetTop([top EXCEPT !.pending = top.pending - Takes(Head(i), Tail(i)) + 1])
    BY DEF Operate
  <2> QED
    BY <2>1, <2>2, <2>3
<1>2. PICK id, w : /\ Instruction(id, w) /\ Gives(id) = 1 /\ id \notin Short \cup Exit
                   /\ Takes(Head(i), Tail(i)) = Takes(id, w)
                   /\ Emitted(inst, i) = Put(inst, id, w)
                   /\ i \in Postfix => id \notin {"PACK", "MAP"}
  BY PostfixPut
<1>3. units' = [units EXCEPT ![Len(units)] = Put(inst, id, w)]
  BY <1>1, <1>2, EmitPut
<1>4. id \in {"PACK", "MAP"} => Loops = {}
  BY <1>2
<1> QED
  BY <1>1, <1>2, <1>3, <1>4, OperandStep
-----------------------------------------------------------------------------
(* What the steps have in common.                                          *)

LEMMA ZeroStart ==
  ASSUME NEW u \in Unit, Layout(u), NEW id, NEW w, NEW v, Extends(u, id, w, v)
  PROVE  0 \in Starts(v) /\ Size(u) \in Starts(v)
BY DEF Layout, Extends

LEMMA LevelEnd ==
  ASSUME NEW u \in Unit, Layout(u)
  PROVE  Level(u, Size(u), u.height)
<1>1. \A t \in Range(u.sites) : t.pos \in Starts(u)
  BY DEF Starts
<1>2. Size(u) \in Nat /\ \A p \in Starts(u) : p < Size(u)
  BY UnitFacts DEF Layout
<1>3. \A t \in Range(u.sites) : t.pos # Size(u)
  BY <1>1, <1>2
<1> QED
  BY <1>3 DEF Level

\* The construct that is open at the end of a frame.
LEMMA PartMore ==
  ASSUME NEW u \in Unit, NEW o, NEW lo \in Nat, NEW hi \in Nat, lo <= hi,
         NEW W, Frame(u, o, lo, hi, W),
         NEW o2, \A i \in lo .. hi : o2[i] = o[i], NEW c, o2[hi + 1] = c, Held(u, c),
         W = Anchors(o, lo, hi) \cup (IF c.kind \in Anchored THEN {c.pos} ELSE {}),
         o[hi].kind \in LoopKind => o[hi].start < Size(u),
         c.kind \in LoopKind =>
           \A i \in lo .. hi : o[i].kind \in LoopKind =>
             /\ o[i].start < c.start
             /\ \A b \in o[i].breaks \cup o[i].continues : b < c.start,
         ~u.chained /\ c.kind \in Logical =>
           \A s \in Range(u.sites) : s.pos = c.pos => Total(u, o[hi], s.height),
         c.kind \in Functional \cup {"then", "body"} => Settled(u),
         ~u.chained => Total(u, c, u.height)
  PROVE  Part(u, o2, lo, hi + 1)
<1> DEFINE k == hi + 1
<1>1. k \in Nat /\ lo <= k /\ k - 1 = hi
  OBVIOUS
<1>2. Frame(u, o2, lo, k, W)
  <2>1. Frame(u, o2, lo, hi + 1, W)
    <3>1. c.kind = o2[hi + 1].kind /\ c.start = o2[hi + 1].start /\ c.pos = o2[hi + 1].pos
      OBVIOUS
    <3> QED
      BY <3>1, FrameMore
  <2> QED
    BY <2>1
<1>3. Anchors(o2, lo, hi) = Anchors(o, lo, hi)
  BY AnchorsSame
<1>4. o2[k] = c
  OBVIOUS
<1> HIDE DEF k
<1>5. Anchors(o2, lo, k) = W
  BY <1>1, <1>3, <1>4, AnchorsMore
<1>6. Part(u, o2, lo, k)
  BY <1>2, <1>4, <1>5 DEF Part
<1> QED
  BY <1>6 DEF k

\* The same when the last construct becomes another one.
LEMMA PartTurned ==
  ASSUME NEW u \in Unit, NEW o, NEW lo \in Nat, NEW hi \in Nat, lo < hi,
         NEW W, Frame(u, o, lo, hi, W),
         NEW o2, \A i \in lo .. hi - 1 : o2[i] = o[i], NEW c, o2[hi] = c, Held(u, c),
         W = Anchors(o, lo, hi - 1) \cup (IF c.kind \in Anchored THEN {c.pos} ELSE {}),
         c.kind \in LoopKind =>
           \A i \in lo .. hi - 1 : o[i].kind \in LoopKind =>
             /\ o[i].start < c.start
             /\ \A b \in o[i].breaks \cup o[i].continues : b < c.start,
         c.kind \notin Logical,
         c.kind \in Functional \cup {"then", "body"} => Settled(u),
         ~u.chained => u.height = c.pending
  PROVE  Part(u, o2, lo, hi)
<1> DEFINE k == hi - 1
<1>1. k \in Nat /\ lo <= k /\ k + 1 = hi /\ k \in lo .. hi - 1
  OBVIOUS
<1>2. Frame(u, o, lo, k, W)
  BY FrameLess
<1>3. o[k].kind \in LoopKind => o[k].start < Size(u)
  BY <1>1 DEF Frame
<1>4. ~u.chained => Total(u, c, u.height)
  BY DEF Total
<1> HIDE DEF k
<1>5. /\ \A i \in lo .. k : o2[i] = o[i]
      /\ W = Anchors(o, lo, k) \cup (IF c.kind \in Anchored THEN {c.pos} ELSE {})
      /\ o2[k + 1] = c
  BY <1>1 DEF k
<1>6. c.kind \in LoopKind =>
        \A i \in lo .. k : o[i].kind \in LoopKind =>
          /\ o[i].start < c.start
          /\ \A b \in o[i].breaks \cup o[i].continues : b < c.start
  BY DEF k
<1>7. Part(u, o2, lo, k + 1)
  BY <1>1, <1>2, <1>3, <1>4, <1>5, <1>6, PartMore
<1> QED
  BY <1>1, <1>7

\* The last construct ends.
LEMMA PartLess ==
  ASSUME NEW u \in Unit, NEW o, NEW lo \in Nat, NEW hi \in Nat, lo < hi,
         Frame(u, o, lo, hi, Anchors(o, lo, hi - 1)),
         o[hi - 1].kind \in Functional \cup {"then", "body"} => Settled(u),
         ~u.chained => Total(u, o[hi - 1], u.height)
  PROVE  Part(u, o, lo, hi - 1)
BY FrameLess DEF Part

\* The anchors without the last construct.
LEMMA AnchorsLess ==
  ASSUME NEW o, NEW lo \in Nat, NEW hi \in Nat, lo < hi
  PROVE  /\ o[hi].kind \notin Anchored => Anchors(o, lo, hi) = Anchors(o, lo, hi - 1)
         /\ o[hi].kind \in Anchored =>
              /\ Anchors(o, lo, hi) = Anchors(o, lo, hi - 1) \cup {o[hi].pos}
              /\ o[hi].pos \in Anchors(o, lo, hi)
BY AnchorsMore

\* A jump that is patched to an instruction leaves the unit settled.
LEMMA SettledKept ==
  ASSUME NEW u \in Unit, Layout(u), Settled(u), NEW v, NEW p, Repatched(u, v, {p}),
         Target(v, p) \in Starts(u)
  PROVE  Settled(v)
<1> SUFFICES ASSUME NEW q \in Jumping(v) PROVE Target(v, q) \in Starts(v)
  BY DEF Settled
<1>1. Starts(v) = Starts(u) /\ q \in Starts(u)
  BY DEF Jumping, Repatched, Starts
<1>2. IdAt(v, q) = IdAt(u, q) /\ IdAt(u, q) \in Short \cup Exit
  BY <1>1, RepatchedKeeps DEF Jumping
<1>3. q \in Jumping(u)
  BY <1>1, <1>2 DEF Jumping
<1>4. CASE q = p
  BY <1>1, <1>4
<1>5. CASE q # p
  <2>1. Target(v, q) = Target(u, q)
    BY <1>1, <1>2, <1>5, RepatchedKeeps
  <2> QED
    BY <1>1, <1>3, <2>1 DEF Settled
<1> QED
  BY <1>4, <1>5

\* What an instruction does to the unit it ends.
LEMMA PutFacts ==
  ASSUME NEW u \in Unit, Layout(u), NEW id, NEW w, Instruction(id, w)
  PROVE  /\ Put(u, id, w) \in Unit /\ Extends(u, id, w, Put(u, id, w))
         /\ Layout(Put(u, id, w)) /\ Put(u, id, w).chained = u.chained
         /\ Put(u, id, w).goals = u.goals
         /\ Put(u, id, w).height = u.height - Takes(id, w) + Gives(id)
         /\ Size(Put(u, id, w)) = Size(u) + 1 + Reads(id)
         /\ Size(u) \in Nat /\ Size(Put(u, id, w)) \in Nat /\ Size(u) < Size(Put(u, id, w))
         /\ u.height \in Int /\ Put(u, id, w).height \in Int
         /\ Starts(Put(u, id, w)) = Starts(u) \cup {Size(u)}
         /\ 0 \in Starts(Put(u, id, w))
         /\ IdAt(Put(u, id, w), Size(u)) = id
         /\ \A s \in Range(Put(u, id, w).sites) :
              s.pos = Size(u) => s.height = u.height /\ After(Put(u, id, w), s) = u.height - Takes(id, w) + Gives(id)
<1> DEFINE v == Put(u, id, w)
<1>1. Extends(u, id, w, v)
  BY PutExtends
<1>2. v \in Unit /\ v.chained = u.chained /\ v.goals = u.goals
      /\ v.height = u.height - Takes(id, w) + Gives(id) /\ Size(v) = Size(u) + 1 + Reads(id)
      /\ Starts(v) = Starts(u) \cup {Size(u)}
      /\ Range(v.sites) = Range(u.sites) \cup {[pos |-> Size(u), height |-> u.height]}
  BY <1>1 DEF Extends
<1> HIDE DEF v
<1>3. Layout(v)
  BY <1>1, PutLayout
<1>4. /\ Size(u) \in Nat /\ Size(v) \in Nat /\ u.height \in Int /\ v.height \in Int
      /\ Reads(id) \in Nat
  BY <1>2, UnitFacts, InstructionSizes DEF Instruction
<1>5. 0 \in Starts(v)
  BY <1>1, ZeroStart
<1>6. IdAt(v, Size(u)) = id /\ Operands(v, Size(u)) = w
  BY <1>1, Added
<1>7. ASSUME NEW s \in Range(v.sites), s.pos = Size(u)
      PROVE  s.height = u.height /\ After(v, s) = u.height - Takes(id, w) + Gives(id)
  <2>1. s \in Range(u.sites) => s.pos < Size(u) /\ s.pos \in Nat
    BY UnitFacts DEF Layout, Starts
  <2>2. s = [pos |-> Size(u), height |-> u.height]
    BY <1>2, <1>4, <1>7, <2>1
  <2> QED
    BY <1>6, <2>2 DEF After
<1>8. Size(u) < Size(v)
  BY <1>2, <1>4
<1> QED
  BY <1>1, <1>2, <1>3, <1>4, <1>5, <1>6, <1>7, <1>8 DEF v
LEMMA BodyStart ==
  ASSUME NEW u \in Unit, Layout(u), NEW c \in Construct, Held(u, c), c.kind = "body"
  PROVE  c.start < Size(u)
<1>1. c.start <= c.pos /\ c.pos \in Starts(u)
  BY DEF Held, LoopHeld, AnchorHeld, LoopKind, Anchored
<1>2. c.start \in Nat /\ c.pos \in Nat /\ Size(u) \in Nat /\ c.pos < Size(u)
  BY <1>1, ConstructFacts, UnitFacts DEF Layout
<1> QED
  BY <1>1, <1>2

\* Between two statements the stack is empty.
LEMMA BlockTop ==
  ASSUME Typed, InBlock, NEW base, Shape(base)
  PROVE  /\ open # <<>> /\ top.pending = 0 /\ top.kind \in Block /\ top.kind \notin Logical
         /\ ~inst.chained => inst.height = 0
         /\ top.kind \in LoopKind => top.start < Size(inst)
<1>1. open # <<>> /\ top.kind \in Block /\ top.kind \notin Expression /\ top.kind \notin Logical
  BY KindsApart DEF InBlock, Top
<1> DEFINE lo == base[Len(units)]
           hi == Len(open)
<1>2. /\ inst \in Unit /\ Layout(inst) /\ top \in Construct /\ top.pending = 0
      /\ ~inst.chained => Total(inst, top, inst.height)
      /\ lo \in Nat /\ hi \in Nat /\ lo <= hi /\ top = open[hi]
      /\ Frame(inst, open, lo, hi, Anchors(open, lo, hi))
  BY <1>1, TopPart
<1>3. ~inst.chained => inst.height = 0
  BY <1>1, <1>2 DEF Total
<1> HIDE DEF lo, hi
<1>4. Held(inst, top)
  <2>1. hi \in lo .. hi
    BY <1>2
  <2> QED
    BY <1>2, <2>1 DEF Frame
<1>5. top.kind \in LoopKind => top.kind = "body"
  BY <1>1 DEF Block, LoopKind
<1> QED
  BY <1>1, <1>2, <1>3, <1>4, <1>5, BodyStart

\* The construct below the last one.
LEMMA BelowTop ==
  ASSUME Typed, open # <<>>, NEW hi, hi = Len(open), 1 < hi
  PROVE  /\ open[hi - 1] \in Construct
         /\ open[hi - 1].kind \notin Expression => open[hi - 1].pending = 0
<1>1. hi - 1 \in DOMAIN open /\ open \in Seq(Construct) /\ Nested(open)
  BY DEF Typed, OpenOK
<1> DEFINE k == hi - 1
<1>2. k \in DOMAIN open /\ open[k] \in Construct
  BY <1>1
<1> HIDE DEF k
<1>3. Within(open[k], open[k - 1].kind)
  BY <1>1, <1>2 DEF Nested
<1>4. open[k].kind \notin Expression => open[k].pending = 0
  BY <1>3 DEF Within
<1> QED
  BY <1>2, <1>4 DEF k

LEMMA SameUnits ==
  ASSUME units \in Seq(Unit), units # <<>>
  PROVE  units = [units EXCEPT ![Len(units)] = inst]
<1> DEFINE m == Len(units)
           us == [units EXCEPT ![m] = inst]
<1>1. m \in 1 .. m /\ inst = units[m] /\ inst \in Unit
  BY DEF inst
<1>2. /\ us \in Seq(Unit) /\ Len(us) = m
      /\ \A j \in 1 .. m : us[j] = IF j = m THEN inst ELSE units[j]
  BY <1>1, ExceptSeq
<1> HIDE DEF us
<1>3. \A j \in 1 .. m : units[j] = us[j]
  BY <1>1, <1>2
<1>4. units = us
  BY <1>2, <1>3, SeqEqual
<1> QED
  BY <1>4 DEF us

\* The innermost unit, the constructs of which are those from lo to hi, at an
\* instruction before which the stack has height h.
Lies(u, o, lo, hi, W, h) ==
  /\ u \in Unit /\ lo \in Nat /\ hi \in Nat
  /\ Frame(u, o, lo, hi, W)
  /\ \A i \in lo .. hi : o[i] \in Construct
  /\ h \in Nat /\ (~u.chained => u.height = h)

\* One more instruction that is no jump and takes operands that are there.
LEMMA LiesPlain ==
  ASSUME NEW u, NEW o, NEW lo, NEW hi, NEW W, NEW h, Lies(u, o, lo, hi, W, h),
         NEW id, NEW w, Instruction(id, w), id \notin Short \cup Exit \cup {"PACK", "MAP"},
         Takes(id, w) <= h
  PROVE  /\ Lies(Put(u, id, w), o, lo, hi, W, h - Takes(id, w) + Gives(id))
         /\ Settled(Put(u, id, w)) /\ Put(u, id, w).chained = u.chained
         /\ Size(u) < Size(Put(u, id, w))
         /\ \A i \in lo .. hi : o[i].kind \in LoopKind => o[i].start < Size(Put(u, id, w))
<1> DEFINE v == Put(u, id, w)
<1>1. /\ u \in Unit /\ lo \in Nat /\ hi \in Nat /\ Frame(u, o, lo, hi, W)
      /\ \A i \in lo .. hi : o[i] \in Construct
      /\ h \in Nat /\ (~u.chained => u.height = h)
  BY DEF Lies
<1>2. Layout(u)
  BY <1>1 DEF Frame, Laid
<1>3. /\ v \in Unit /\ Extends(u, id, w, v) /\ v.chained = u.chained
      /\ v.height = u.height - Takes(id, w) + Gives(id) /\ Size(u) < Size(v)
  BY <1>1, <1>2, PutFacts
<1> HIDE DEF v
<1>4. Takes(id, w) \in Nat /\ Gives(id) \in Nat
  BY TakesNat
<1>5. id \notin Short /\ id \notin Exit /\ id \notin {"PACK", "MAP", "CHK"}
  BY DEF Short
<1>6. ~u.chained => Takes(id, w) <= u.height
  BY <1>1
<1>7. /\ Frame(v, o, lo, hi, W) /\ Settled(v)
      /\ \A i \in lo .. hi : o[i].kind \in LoopKind => o[i].start < Size(v)
  BY <1>1, <1>3, <1>5, <1>6, FramePut
<1>8. h - Takes(id, w) + Gives(id) \in Nat
  BY <1>1, <1>4
<1>9. ~v.chained => v.height = h - Takes(id, w) + Gives(id)
  BY <1>1, <1>3
<1>10. Lies(v, o, lo, hi, W, h - Takes(id, w) + Gives(id))
  BY <1>1, <1>3, <1>7, <1>8, <1>9 DEF Lies
<1> QED
  BY <1>3, <1>7, <1>10 DEF v

LEMMA LiesFacts ==
  ASSUME NEW u, NEW o, NEW lo, NEW hi, NEW W, NEW h, Lies(u, o, lo, hi, W, h)
  PROVE  /\ u \in Unit /\ lo \in Nat /\ hi \in Nat /\ h \in Nat
         /\ Frame(u, o, lo, hi, W) /\ Layout(u)
         /\ \A i \in lo .. hi : o[i] \in Construct
         /\ ~u.chained => u.height = h
BY DEF Lies, Frame, Laid

\* The innermost unit outside of and, or.
LEMMA LiesTop ==
  ASSUME Typed, open # <<>>, NEW base, Shape(base), top.kind \notin Logical
  PROVE  Lies(inst, open, base[Len(units)], Len(open),
              Anchors(open, base[Len(units)], Len(open)), top.pending)
<1> DEFINE lo == base[Len(units)]
           hi == Len(open)
<1>1. /\ lo \in Nat /\ hi \in Nat /\ inst \in Unit
      /\ Frame(inst, open, lo, hi, Anchors(open, lo, hi))
      /\ \A i \in lo .. hi : open[i] \in Construct
      /\ top \in Construct /\ (~inst.chained => Total(inst, top, inst.height))
  BY TopPart
<1>2. top.pending \in Nat /\ (~inst.chained => inst.height = top.pending)
  BY <1>1, ConstructFacts DEF Total
<1> HIDE DEF lo, hi
<1>3. Lies(inst, open, lo, hi, Anchors(open, lo, hi), top.pending)
  BY <1>1, <1>2 DEF Lies
<1> QED
  BY <1>3 DEF lo, hi

\* A statement begins with an expression.
LEMMA ShapedBegin ==
  ASSUME Typed, Shaped, NEW kind \in {"expression", "return", "if"}, Begin(kind)
  PROVE  Shaped'
<1> PICK base : Shape(base)
  BY DEF Shaped
<1> DEFINE lo == base[Len(units)]
           hi == Len(open)
           c == New(kind)
           o == open'
<1>1. /\ open # <<>> /\ top.pending = 0 /\ top.kind \notin Logical
      /\ ~inst.chained => inst.height = 0
      /\ top.kind \in LoopKind => top.start < Size(inst)
  BY BlockTop DEF Begin
<1>2. /\ lo \in Nat \ {0} /\ hi \in Nat \ {0} /\ lo <= hi /\ inst \in Unit
      /\ Frame(inst, open, lo, hi, Anchors(open, lo, hi)) /\ top = open[hi]
  BY <1>1, TopPart
<1>3. c \in Construct /\ c.kind = kind /\ c.pending = 0
  BY NewConstruct DEF Expression
<1>4. c.kind \notin Functional \cup {"then", "body"} \cup Anchored \cup LoopKind \cup Logical
  BY <1>3 DEF Functional, Anchored, LoopKind, Logical
<1>5. open' = Append(open, c)
  BY DEF Begin, Push
<1>6. o[hi + 1] = c /\ \A i \in lo .. hi : o[i] = open[i]
  BY <1>2, <1>5 DEF Typed, OpenOK
<1>7. units' = [units EXCEPT ![Len(units)] = inst]
  <2>1. units \in Seq(Unit) /\ units # <<>>
    BY <1>1, TopFacts DEF Typed, UnitsOK
  <2>2. units' = units
    BY DEF Begin
  <2> QED
    BY <2>1, <2>2, SameUnits
<1>8. Held(inst, c)
  BY <1>4 DEF Held
<1>9. ~inst.chained => Total(inst, c, inst.height)
  BY <1>1, <1>3, <1>4 DEF Total
<1> HIDE DEF c, o, lo, hi
<1>10. Part(inst, o, lo, hi + 1)
  <2>1. /\ lo \in Nat /\ hi \in Nat
        /\ Anchors(open, lo, hi) = Anchors(open, lo, hi)
             \cup (IF c.kind \in Anchored THEN {c.pos} ELSE {})
    BY <1>2, <1>4
  <2> QED
    BY <1>1, <1>2, <1>4, <1>6, <1>8, <1>9, <2>1, PartMore
<1>11. c.kind \notin Functional
  BY <1>4
<1> QED
  BY <1>1, <1>2, <1>3, <1>5, <1>7, <1>10, <1>11, TopStepPush DEF lo, hi, o

\* It ends with POP or RET.
LEMMA ShapedEndStatement ==
  ASSUME Typed, Shaped, EndExpression \/ EndReturn
  PROVE  Shaped'
<1> PICK base : Shape(base)
  BY DEF Shaped
<1>1. PICK id \in {"POP", "RET"} : Emit(<< <<id>> >>)
  BY DEF EndExpression, EndReturn
<1>2. /\ open # <<>> /\ top.kind \in {"expression", "return"} /\ top.pending = 1 /\ Pop
  BY DEF EndExpression, EndReturn, Complete, Top
<1> DEFINE lo == base[Len(units)]
           hi == Len(open)
           v == Put(inst, id, <<>>)
<1>3. top.kind \notin Functional \cup Logical \cup Anchored \cup LoopKind
  BY <1>2 DEF Functional, Logical, Anchored, LoopKind
<1>4. /\ lo \in Nat \ {0} /\ hi \in Nat \ {0} /\ lo < hi /\ inst \in Unit /\ Layout(inst)
      /\ Frame(inst, open, lo, hi, Anchors(open, lo, hi)) /\ top = open[hi]
      /\ \A i \in lo .. hi : open[i] \in Construct
      /\ ~inst.chained => Total(inst, top, inst.height)
  BY <1>2, <1>3, TopPart
<1>5. units' = [units EXCEPT ![Len(units)] = v]
  <2> DEFINE i == <<id>>
             w == <<>>
  <2>1. Emitted(inst, i) = Put(inst, id, w) /\ Emit(<<i>>)
    BY <1>1, EmittedPut
  <2> HIDE DEF i, w
  <2>2. units' = [units EXCEPT ![Len(units)] = Put(inst, id, w)]
    BY <2>1, EmitPut
  <2> QED
    BY <2>2 DEF w
<1>6. Instruction(id, <<>>) /\ Takes(id, <<>>) = 1 /\ Gives(id) = 0 /\ id \notin Short \cup Exit
      /\ id \notin {"PACK", "MAP", "CHK"}
  BY Instructions, GivesOne DEF Takes, Short, Exit
<1>7. /\ v \in Unit /\ Extends(inst, id, <<>>, v) /\ v.chained = inst.chained
      /\ v.height = inst.height - 1 + 0 /\ inst.height \in Int
  BY <1>4, <1>6, PutFacts
<1>8. ~inst.chained => inst.height = 1
  BY <1>2, <1>3, <1>4 DEF Total
<1>9. Anchors(open, lo, hi) = Anchors(open, lo, hi - 1)
  BY <1>3, <1>4, AnchorsLess
<1>10. Frame(v, open, lo, hi, Anchors(open, lo, hi - 1)) /\ Settled(v)
  <2> DEFINE w == <<>>
             W == Anchors(open, lo, hi)
  <2>1. Lies(inst, open, lo, hi, W, 1)
    BY <1>2, <1>3, LiesTop
  <2>2. Instruction(id, w) /\ id \notin Short \cup Exit \cup {"PACK", "MAP"} /\ Takes(id, w) <= 1
    BY <1>6
  <2>3. v = Put(inst, id, w)
    OBVIOUS
  <2> HIDE DEF w, W, lo, hi, v
  <2>4. Settled(Put(inst, id, w)) /\ Frame(Put(inst, id, w), open, lo, hi, W)
    BY <2>1, <2>2, LiesPlain, LiesFacts
  <2> QED
    BY <1>9, <2>3, <2>4 DEF W
<1> HIDE DEF v, lo, hi
<1>11. ~v.chained => Total(v, open[hi - 1], v.height)
  <2>1. Within(top, open[hi - 1].kind)
    BY <1>2, TopFacts DEF hi
  <2>2. open[hi - 1].kind \in Block
    BY <1>2, <2>1 DEF Within, Expression, Logical
  <2>3. open[hi - 1].kind \notin Logical /\ open[hi - 1].pending = 0
    BY <1>2, <1>4, <2>2, KindsApart, BelowTop DEF hi
  <2> QED
    BY <1>7, <1>8, <2>3 DEF Total
<1>12. Part(v, open, lo, hi - 1)
  BY <1>4, <1>7, <1>10, <1>11, PartLess
<1>13. top.kind \notin Functional
  BY <1>3
<1> QED
  BY <1>2, <1>5, <1>7, <1>12, <1>13, TopStepPop DEF lo, hi
-----------------------------------------------------------------------------
(* Steps with jumps.                                                       *)

LEMMA LiesJump ==
  ASSUME NEW u, NEW o, NEW lo, NEW hi, NEW W, NEW h, Lies(u, o, lo, hi, W, h),
         NEW id \in {"JMP", "JNZ", "BREAK", "CONTINUE"}, NEW w, Instruction(id, w),
         w[1] \in Starts(u) \cup {0}, Takes(id, w) <= h,
         NEW W2, W \subseteq W2, id \in Short => Size(u) \in W2
  PROVE  /\ Lies(Put(u, id, w), o, lo, hi, W2, h - Takes(id, w))
         /\ Settled(Put(u, id, w)) /\ Put(u, id, w).chained = u.chained
         /\ Size(u) < Size(Put(u, id, w))
         /\ Target(Put(u, id, w), Size(u)) = w[1]
         /\ \A i \in lo .. hi : o[i].kind \in LoopKind => o[i].start < Size(Put(u, id, w))
<1> DEFINE v == Put(u, id, w)
<1>1. /\ u \in Unit /\ lo \in Nat /\ hi \in Nat /\ Frame(u, o, lo, hi, W) /\ Layout(u)
      /\ \A i \in lo .. hi : o[i] \in Construct
      /\ h \in Nat /\ (~u.chained => u.height = h)
  BY LiesFacts
<1>2. Takes(id, w) \in Nat /\ Gives(id) = 0
  BY TakesNat, GivesOne
<1>3. /\ v \in Unit /\ Extends(u, id, w, v) /\ v.chained = u.chained
      /\ v.height = u.height - Takes(id, w) + Gives(id) /\ Size(u) < Size(v)
      /\ Starts(v) = Starts(u) \cup {Size(u)} /\ 0 \in Starts(v) /\ u.height \in Int
  BY <1>1, PutFacts
<1> HIDE DEF v
<1>4. Target(v, Size(u)) = w[1]
  BY <1>1, <1>3, Added
<1>5. Target(v, Size(u)) \in Starts(v)
  BY <1>3, <1>4
<1>6. ~u.chained => Takes(id, w) <= u.height
  BY <1>1
<1>7. id \notin {"PACK", "MAP", "CHK"}
  OBVIOUS
<1>8. /\ Frame(v, o, lo, hi, W2) /\ Settled(v)
      /\ \A i \in lo .. hi : o[i].kind \in LoopKind => o[i].start < Size(v)
  BY <1>1, <1>3, <1>5, <1>6, <1>7, FramePut, ZenonT(40)
<1>9. h - Takes(id, w) \in Nat
  BY <1>1, <1>2
<1>10. ~v.chained => v.height = h - Takes(id, w)
  BY <1>1, <1>2, <1>3
<1>11. Lies(v, o, lo, hi, W2, h - Takes(id, w))
  BY <1>1, <1>3, <1>8, <1>9, <1>10 DEF Lies
<1> QED
  BY <1>3, <1>4, <1>8, <1>11 DEF v

LEMMA LiesPatched ==
  ASSUME NEW u, NEW o, NEW lo, NEW hi, NEW W, NEW h, Lies(u, o, lo, hi, W, h),
         NEW p \in W, p \in Starts(u), IdAt(u, p) \in {"JMP", "JNZ"},
         NEW q \in Starts(u) \cup {Size(u)}, NEW W2, W \subseteq W2 \cup {p},
         Joins(u, p, q)
  PROVE  /\ Lies(Patched(u, p + 1, q), o, lo, hi, W2, h)
         /\ Repatched(u, Patched(u, p + 1, q), {p})
         /\ Target(Patched(u, p + 1, q), p) = q
         /\ Patched(u, p + 1, q).chained = u.chained
         /\ Patched(u, p + 1, q).height = u.height
<1>1. /\ u \in Unit /\ lo \in Nat /\ hi \in Nat /\ Frame(u, o, lo, hi, W)
      /\ \A i \in lo .. hi : o[i] \in Construct
      /\ h \in Nat /\ (~u.chained => u.height = h)
  BY LiesFacts
<1> DEFINE v == Patched(u, Slot(u, p), q)
<1>2. Slot(u, p) = p + 1 /\ IdAt(u, p) \in Short
  BY DEF Slot, Short
<1>3. Frame(v, o, lo, hi, W2) /\ Repatched(u, v, {p}) /\ Target(v, p) = q
  BY <1>1, <1>2, FramePatched
<1> HIDE DEF v
<1>4. v \in Unit /\ v.chained = u.chained /\ v.height = u.height
  BY <1>3 DEF Repatched
<1>5. Lies(v, o, lo, hi, W2, h)
  BY <1>1, <1>3, <1>4 DEF Lies
<1> QED
  BY <1>2, <1>3, <1>4, <1>5 DEF v

\* A jump that has just been emitted and is to be patched.
LEMMA AnchorNew ==
  ASSUME NEW u \in Unit, Layout(u), NEW id, NEW w, Instruction(id, w),
         NEW c \in Construct, c.pos = Size(u), Anchor(c.kind) = id,
         ~u.chained /\ c.kind \notin Logical => u.height - Takes(id, w) + Gives(id) = 0
  PROVE  AnchorHeld(Put(u, id, w), c)
<1> DEFINE v == Put(u, id, w)
<1>1. /\ Starts(v) = Starts(u) \cup {Size(u)} /\ IdAt(v, Size(u)) = id /\ v.chained = u.chained
      /\ \A s \in Range(v.sites) :
           s.pos = Size(u) => After(v, s) = u.height - Takes(id, w) + Gives(id)
  BY PutFacts
<1> HIDE DEF v
<1>2. AnchorHeld(v, c)
  BY <1>1 DEF AnchorHeld
<1> QED
  BY <1>2 DEF v

\* The last construct becomes another one.
LEMMA TurnStep ==
  ASSUME Typed, open # <<>>, NEW base, Shape(base), NEW lo, lo = base[Len(units)],
         NEW hi, hi = Len(open), top.kind \notin Functional,
         NEW c \in Construct, c.kind \notin Functional \cup Logical, SetTop(c),
         NEW v, units' = [units EXCEPT ![Len(units)] = v],
         NEW W, Lies(v, open, lo, hi, W, c.pending),
         W = Anchors(open, lo, hi - 1) \cup (IF c.kind \in Anchored THEN {c.pos} ELSE {}),
         Held(v, c), c.kind \in LoopKind => top.kind \in LoopKind /\ top.start = c.start,
         c.kind \in {"then", "body"} => Settled(v)
  PROVE  Shaped'
<1> DEFINE o == open'
<1>1. /\ lo \in Nat \ {0} /\ hi \in Nat \ {0} /\ lo < hi /\ top = open[hi]
  BY TopPart
<1>2. v \in Unit /\ Frame(v, open, lo, hi, W) /\ (~v.chained => v.height = c.pending)
  BY LiesFacts
<1>3. o[hi] = c /\ \A i \in lo .. hi - 1 : o[i] = open[i]
  <2>1. open \in Seq(Construct) /\ DOMAIN open = 1 .. hi
    BY DEF Typed, OpenOK
  <2> QED
    BY <1>1, <2>1 DEF SetTop
<1> HIDE DEF o
<1>4. c.kind \in LoopKind =>
        \A i \in lo .. hi - 1 : open[i].kind \in LoopKind =>
          /\ open[i].start < c.start
          /\ \A b \in open[i].breaks \cup open[i].continues : b < c.start
  <2> SUFFICES ASSUME c.kind \in LoopKind, NEW i \in lo .. hi - 1, open[i].kind \in LoopKind
               PROVE  /\ open[i].start < c.start
                      /\ \A b \in open[i].breaks \cup open[i].continues : b < c.start
    OBVIOUS
  <2>1. i \in lo .. hi /\ hi \in lo .. hi /\ i < hi
    BY <1>1
  <2> QED
    BY <1>1, <1>2, <2>1 DEF Frame
<1>5. Part(v, o, lo, hi)
  BY <1>1, <1>2, <1>3, <1>4, PartTurned, ZenonT(40)
<1> QED
  BY <1>2, <1>5, TopStepSet DEF o

\* A statement that is no expression ends.
LEMMA EndStepLess ==
  ASSUME Typed, open # <<>>, NEW base, Shape(base), NEW lo, lo = base[Len(units)],
         NEW hi, hi = Len(open), top.kind \notin Functional \cup Expression, Pop,
         NEW v, units' = [units EXCEPT ![Len(units)] = v],
         Lies(v, open, lo, hi - 1, Anchors(open, lo, hi - 1), 0), Settled(v)
  PROVE  Shaped'
<1>1. /\ lo \in Nat \ {0} /\ hi \in Nat \ {0} /\ lo < hi /\ top = open[hi]
  BY TopPart
<1>2. v \in Unit /\ Frame(v, open, lo, hi - 1, Anchors(open, lo, hi - 1)) /\ (~v.chained => v.height = 0)
  BY LiesFacts
<1>3. open[hi - 1].kind \notin Logical /\ open[hi - 1].pending = 0
  <2>1. Within(top, open[hi - 1].kind) /\ top \in Construct /\ (top.kind = "script" <=> Len(open) = 1)
    BY TopFacts
  <2>2. top.kind \in {"then", "else", "body", "alt", "alted"}
    BY <2>1 DEF Functional, Construct, Block
  <2>3. open[hi - 1].kind \in Block \cup {"alted"}
    BY <2>1, <2>2 DEF Within
  <2>4. open[hi - 1].kind \notin Expression /\ open[hi - 1].kind \notin Logical
    BY <2>3 DEF Block, Expression, Logical
  <2> QED
    BY <1>1, <2>4, BelowTop
<1>4. ~v.chained => Total(v, open[hi - 1], v.height)
  BY <1>2, <1>3 DEF Total
<1>5. Part(v, open, lo, hi - 1)
  BY <1>2, <1>4 DEF Part
<1> QED
  BY <1>2, <1>5, TopStepPop

LEMMA EndStep ==
  ASSUME Typed, open # <<>>, NEW base, Shape(base), NEW lo, lo = base[Len(units)],
         NEW hi, hi = Len(open), top.kind \notin Functional \cup Expression, Pop,
         NEW v, units' = [units EXCEPT ![Len(units)] = v],
         Lies(v, open, lo, hi, Anchors(open, lo, hi - 1), 0), Settled(v)
  PROVE  Shaped'
<1>1. lo \in Nat \ {0} /\ hi \in Nat \ {0} /\ lo < hi
  BY TopPart
<1>2. Lies(v, open, lo, hi - 1, Anchors(open, lo, hi - 1), 0)
  <2>1. hi - 1 \in Nat /\ \A i \in lo .. hi - 1 : i \in lo .. hi
    BY <1>1
  <2> QED
    BY <1>1, <2>1, FrameLess DEF Lies
<1> QED
  BY <1>2, EndStepLess

LEMMA EmittedJump ==
  ASSUME NEW id \in {"JMP", "JNZ", "BREAK", "CONTINUE"}, NEW a \in Nat
  PROVE  \E w : /\ Instruction(id, w) /\ w[1] = a
                /\ \A u : Emitted(u, <<id, a>>) = Put(u, id, w)
                /\ Takes(id, w) = IF id = "JNZ" THEN 1 ELSE 0
<1> DEFINE w == <<a>>
<1>1. Instruction(id, w) /\ w[1] = a
  BY Instructions
<1>2. \A u : Emitted(u, <<id, a>>) = Put(u, id, w)
  BY EmittedPut
<1>3. Takes(id, w) = IF id = "JNZ" THEN 1 ELSE 0
  BY DEF Takes
<1> HIDE DEF w
<1> QED
  BY <1>1, <1>2, <1>3
\* The end of a condition and of a loop.
LEMMA NullPop ==
  ASSUME NEW u, NEW o, NEW lo, NEW hi, NEW W, Lies(u, o, lo, hi, W, 0),
         NEW v, v = EmittedAll(u, << <<"CONST_NULL">>, <<"POP">> >>)
  PROVE  /\ Lies(v, o, lo, hi, W, 0) /\ Settled(v) /\ v.chained = u.chained
         /\ Starts(u) \cup {Size(u)} \subseteq Starts(v)
         /\ ~u.chained => Level(v, Size(u), 0)
         /\ \A p \in Jumping(u) : IdAt(v, p) = IdAt(u, p) /\ Target(v, p) = Target(u, p)
         /\ \A q \in Starts(u) : Level(u, q, 0) => Level(v, q, 0)
         /\ v.goals = u.goals
<1> DEFINE null == <<"CONST_NULL">>
           drop == <<"POP">>
           none == <<>>
           is == <<null, drop>>
           S == {null, drop}
           u1 == Put(u, "CONST_NULL", none)
           u2 == Put(u1, "POP", none)
<1>1. is \in Seq(S) /\ Len(is) = 2 /\ is[1] = null /\ is[2] = drop
  OBVIOUS
<1>2. \A x : Emitted(x, null) = Put(x, "CONST_NULL", none) /\ Emitted(x, drop) = Put(x, "POP", none)
  BY EmittedPut
<1>3. Instruction("CONST_NULL", none) /\ Instruction("POP", none)
  BY Instructions
<1>4. /\ "CONST_NULL" \notin Short \cup Exit \cup {"PACK", "MAP"}
      /\ "POP" \notin Short \cup Exit \cup {"PACK", "MAP"}
  BY DEF Short, Exit
<1>5. /\ Takes("CONST_NULL", none) = 0 /\ Gives("CONST_NULL") = 1
      /\ Takes("POP", none) = 1 /\ Gives("POP") = 0
  BY GivesOne DEF Takes
<1>6. v = EmittedAll(u, is)
  OBVIOUS
<1> HIDE DEF null, drop, none, is, S, u1, u2
<1>7. v = Emitted(Emitted(u, is[1]), is[2])
  BY <1>1, <1>6, EmittedFew
<1>8. v = u2
  BY <1>1, <1>2, <1>7 DEF u1, u2
<1>9. /\ u \in Unit /\ Layout(u) /\ (~u.chained => u.height = 0)
  BY LiesFacts
<1>10. /\ Lies(u1, o, lo, hi, W, 1) /\ u1.chained = u.chained
  <2>1. Takes("CONST_NULL", none) <= 0 /\ 0 - Takes("CONST_NULL", none) + Gives("CONST_NULL") = 1
    BY <1>5
  <2>2. /\ Lies(Put(u, "CONST_NULL", none), o, lo, hi, W,
                0 - Takes("CONST_NULL", none) + Gives("CONST_NULL"))
        /\ Put(u, "CONST_NULL", none).chained = u.chained
    BY <1>3, <1>4, <2>1, LiesPlain
  <2> QED
    BY <2>1, <2>2 DEF u1
<1>11. /\ Lies(u2, o, lo, hi, W, 0) /\ Settled(u2) /\ u2.chained = u1.chained
  <2>1. Takes("POP", none) <= 1 /\ 1 - Takes("POP", none) + Gives("POP") = 0
    BY <1>5
  <2>2. /\ Lies(Put(u1, "POP", none), o, lo, hi, W, 1 - Takes("POP", none) + Gives("POP"))
        /\ Settled(Put(u1, "POP", none)) /\ Put(u1, "POP", none).chained = u1.chained
    BY <1>3, <1>4, <1>10, <2>1, LiesPlain
  <2> QED
    BY <2>1, <2>2 DEF u2
<1>12. /\ Extends(u, "CONST_NULL", none, u1) /\ u1 \in Unit /\ Layout(u1)
       /\ Starts(u1) = Starts(u) \cup {Size(u)}
  BY <1>3, <1>9, PutFacts DEF u1
<1>13. Extends(u1, "POP", none, u2) /\ Starts(u2) = Starts(u1) \cup {Size(u1)}
  BY <1>3, <1>12, PutFacts DEF u2
<1>14. ~u.chained => Level(u2, Size(u), 0)
  <2> SUFFICES ASSUME ~u.chained PROVE Level(u2, Size(u), 0)
    OBVIOUS
  <2>1. Level(u, Size(u), 0)
    BY <1>9, LevelEnd
  <2>2. Level(u1, Size(u), 0)
    BY <1>3, <1>9, <1>12, <2>1, LevelKept
  <2> QED
    BY <1>3, <1>12, <1>13, <2>2, LevelKept
<1>15. \A p \in Jumping(u) : IdAt(u2, p) = IdAt(u, p) /\ Target(u2, p) = Target(u, p)
  <2> SUFFICES ASSUME NEW p \in Jumping(u)
               PROVE  IdAt(u2, p) = IdAt(u, p) /\ Target(u2, p) = Target(u, p)
    OBVIOUS
  <2>1. p \in Starts(u) /\ IdAt(u, p) \in Short \cup Exit
    BY DEF Jumping
  <2>2. p \in Starts(u1) /\ IdAt(u1, p) = IdAt(u, p) /\ Target(u1, p) = Target(u, p)
    BY <1>3, <1>9, <1>12, <2>1, Kept
  <2>3. IdAt(u2, p) = IdAt(u1, p) /\ Target(u2, p) = Target(u1, p)
    BY <1>3, <1>12, <1>13, <2>1, <2>2, Kept
  <2> QED
    BY <2>2, <2>3
<1>16. \A q \in Starts(u) : Level(u, q, 0) => Level(u2, q, 0)
  <2> SUFFICES ASSUME NEW q \in Starts(u), Level(u, q, 0) PROVE Level(u2, q, 0)
    OBVIOUS
  <2>1. Level(u1, q, 0)
    BY <1>3, <1>9, <1>12, LevelKept
  <2>2. q \in Starts(u1) \cup {Size(u1)}
    BY <1>12
  <2> QED
    BY <1>3, <1>12, <1>13, <2>1, <2>2, LevelKept
<1>17. u2.goals = u.goals
  BY <1>3, <1>9, <1>12, PutFacts DEF u1, u2
<1> QED
  BY <1>8, <1>10, <1>11, <1>12, <1>13, <1>14, <1>15, <1>16, <1>17

LEMMA ShapedNextCondition ==
  ASSUME Typed, Shaped, NextCondition
  PROVE  Shaped'
<1> PICK base : Shape(base)
  BY DEF Shaped
<1> DEFINE lo == base[Len(units)]
           hi == Len(open)
           c == [top EXCEPT !.pending = 0]
           v == [inst EXCEPT !.chained = TRUE]
           o == open'
           W == Anchors(open, lo, hi)
<1>1. open # <<>> /\ top.kind = "if" /\ SetTop(c)
  BY DEF NextCondition, Complete, Top
<1>2. /\ lo \in Nat \ {0} /\ hi \in Nat \ {0} /\ lo <= hi /\ inst \in Unit
      /\ Frame(inst, open, lo, hi, W) /\ top = open[hi] /\ top \in Construct
  BY <1>1, TopPart
<1>3. units' = [units EXCEPT ![Len(units)] = v]
  <2>1. units \in Seq(Unit) /\ Len(units) \in DOMAIN units /\ inst = units[Len(units)]
    BY <1>1, TopFacts DEF Typed, UnitsOK
  <2>2. units' = [units EXCEPT ![Len(units)].chained = TRUE]
    BY DEF NextCondition
  <2> QED
    BY <2>1, <2>2
<1>4. /\ c \in Construct /\ Alike(top, c) /\ c.kind = "if"
  BY <1>1, <1>2 DEF Alike, Construct
<1>5. o[hi] = c /\ \A i \in lo .. hi - 1 : o[i] = open[i]
  <2>1. open \in Seq(Construct) /\ DOMAIN open = 1 .. hi
    BY <1>2 DEF Typed, OpenOK
  <2>2. open' = [open EXCEPT ![hi] = c]
    BY <1>1 DEF SetTop
  <2> HIDE DEF c, lo, hi
  <2> QED
    BY <1>2, <2>1, <2>2
<1>6. v \in Unit
  BY <1>2 DEF Unit
<1>7. Frame(v, open, lo, hi, W) /\ v.chained
  <2> HIDE DEF lo, hi, W
  <2> QED
    BY <1>2, FrameChained
<1> HIDE DEF c, v, o, lo, hi, W
<1>8. Frame(v, o, lo, hi, W)
  BY <1>2, <1>4, <1>5, <1>7, FrameSame
<1>9. Anchors(o, lo, hi) = W
  <2>1. \A i \in lo .. hi : i = hi \/ i \in lo .. hi - 1
    BY <1>2
  <2>2. \A i \in lo .. hi : o[i].kind = open[i].kind /\ o[i].pos = open[i].pos
    BY <1>2, <1>4, <1>5, <2>1 DEF Alike
  <2> QED
    BY <2>2, AnchorsSame DEF W
<1>10. Part(v, o, lo, hi)
  <2>1. o[hi].kind \notin Functional \cup {"then", "body"}
    BY <1>4, <1>5 DEF Functional
  <2> QED
    BY <1>7, <1>8, <1>9, <2>1 DEF Part
<1>11. top.kind \notin Functional /\ c.kind \notin Functional
  BY <1>1, <1>4 DEF Functional
<1> QED
  BY <1>1, <1>3, <1>4, <1>6, <1>10, <1>11, TopStepSet DEF lo, hi, o

LEMMA ShapedBeginThen ==
  ASSUME Typed, Shaped, BeginThen
  PROVE  Shaped'
<1> PICK base : Shape(base)
  BY DEF Shaped
<1> DEFINE lo == base[Len(units)]
           hi == Len(open)
           c == [New("then") EXCEPT !.pos = Size(inst)]
           i == <<"JNZ", 0>>
           W == Anchors(open, lo, hi)
           W2 == W \cup {Size(inst)}
<1>1. open # <<>> /\ top.kind = "if" /\ top.pending = 1 /\ Emit(<<i>>) /\ SetTop(c)
  BY DEF BeginThen, Complete, Top
<1>2. top.kind \notin Functional \cup Logical \cup Anchored
  BY <1>1 DEF Functional, Logical, Anchored
<1>3. Lies(inst, open, lo, hi, W, 1)
  BY <1>1, <1>2, LiesTop
<1>4. PICK w : /\ Instruction("JNZ", w) /\ w[1] = 0 /\ Takes("JNZ", w) = 1
               /\ \A u : Emitted(u, i) = Put(u, "JNZ", w)
  BY EmittedJump
<1> DEFINE v == Put(inst, "JNZ", w)
<1>5. lo \in Nat /\ hi \in Nat /\ lo < hi /\ top = open[hi] /\ inst \in Unit /\ Layout(inst)
      /\ Size(inst) \in Nat
  BY <1>1, <1>2, TopPart
<1>6. /\ c \in Construct /\ c.kind = "then" /\ c.pending = 0 /\ c.pos = Size(inst)
  <2>1. c \in Construct /\ c.kind = "then" /\ c.pending = 0
    BY <1>5, NewConstruct DEF Block
  <2> QED
    BY <2>1 DEF New
<1> HIDE DEF lo, hi, c, i, W, W2, v
<1>7. units' = [units EXCEPT ![Len(units)] = v]
  BY <1>1, <1>4, EmitPut DEF v
<1>8. Lies(v, open, lo, hi, W2, 0) /\ Settled(v)
  <2>1. Takes("JNZ", w) <= 1 /\ 1 - Takes("JNZ", w) = 0 /\ w[1] \in Starts(inst) \cup {0}
    BY <1>4
  <2>2. W \subseteq W2 /\ Size(inst) \in W2
    BY DEF W2
  <2>3. /\ Lies(Put(inst, "JNZ", w), open, lo, hi, W2, 1 - Takes("JNZ", w))
        /\ Settled(Put(inst, "JNZ", w))
    BY <1>3, <1>4, <2>1, <2>2, LiesJump
  <2> QED
    BY <2>1, <2>3 DEF v
<1>9. W2 = Anchors(open, lo, hi - 1) \cup (IF c.kind \in Anchored THEN {c.pos} ELSE {})
  <2>1. W = Anchors(open, lo, hi - 1)
    BY <1>2, <1>5, AnchorsLess DEF W
  <2>2. c.kind \in Anchored
    BY <1>6 DEF Anchored
  <2> QED
    BY <1>6, <2>1, <2>2 DEF W2
<1>10. Held(v, c)
  <2>1. Anchor(c.kind) = "JNZ" /\ c.kind \notin Logical /\ c.kind \notin LoopKind
    BY <1>6 DEF Anchor, Logical, LoopKind
  <2>2. ~inst.chained => inst.height - Takes("JNZ", w) + Gives("JNZ") = 0
    BY <1>3, <1>4, LiesFacts, GivesOne
  <2>3. AnchorHeld(v, c)
    BY <1>4, <1>5, <1>6, <2>1, <2>2, AnchorNew DEF v
  <2> QED
    BY <2>1, <2>3 DEF Held
<1>11. c.kind \notin Functional \cup Logical \cup LoopKind
  BY <1>6 DEF Functional, Logical, LoopKind
<1>12. Lies(v, open, lo, hi, W2, c.pending)
  BY <1>6, <1>8
<1> QED
  BY <1>1, <1>2, <1>6, <1>7, <1>8, <1>9, <1>10, <1>11, <1>12, TurnStep DEF lo, hi
\* The jump of the last construct.
LEMMA TopAnchor ==
  ASSUME NEW u, NEW o, NEW lo, NEW hi, NEW W, NEW h, Lies(u, o, lo, hi, W, h), lo <= hi,
         NEW c, o[hi] = c, c.kind \in Anchored, c.kind \notin Logical
  PROVE  /\ AnchorHeld(u, c) /\ c.pos \in Starts(u) /\ c.pos \in Nat
         /\ IdAt(u, c.pos) = Anchor(c.kind) /\ IdAt(u, c.pos) \in {"JMP", "JNZ"}
         /\ \A q : (~u.chained => Level(u, q, 0)) => Joins(u, c.pos, q)
<1>1. lo \in Nat /\ hi \in Nat /\ u \in Unit /\ Frame(u, o, lo, hi, W)
  BY LiesFacts
<1>2. hi \in lo .. hi
  BY <1>1
<1>3. AnchorHeld(u, c)
  BY <1>1, <1>2 DEF Frame, Held
<1>4. c.pos \in Starts(u) /\ IdAt(u, c.pos) = Anchor(c.kind)
  BY <1>3 DEF AnchorHeld
<1>5. c.pos \in Nat
  BY <1>1, <1>4, UnitFacts
<1>6. Anchor(c.kind) \in {"JMP", "JNZ"}
  BY DEF Anchor
<1>7. ASSUME NEW q, ~u.chained => Level(u, q, 0) PROVE Joins(u, c.pos, q)
  BY <1>3, <1>7 DEF AnchorHeld, Joins
<1> QED
  BY <1>3, <1>4, <1>5, <1>6, <1>7

LEMMA ShapedEndThen ==
  ASSUME Typed, Shaped, EndThen
  PROVE  Shaped'
<1> PICK base : Shape(base)
  BY DEF Shaped
<1> DEFINE lo == base[Len(units)]
           hi == Len(open)
           c == [New("alt") EXCEPT !.pos = Size(inst)]
           i == <<"JMP", 0>>
           W == Anchors(open, lo, hi)
           W1 == W \cup {Size(inst)}
           W2 == Anchors(open, lo, hi - 1) \cup {Size(inst)}
<1>1. open # <<>> /\ top.kind = "then" /\ SetTop(c)
  BY DEF EndThen, Top
<1>2. /\ top.kind \notin Functional \cup Logical \cup Expression /\ top.kind \in Anchored
  BY <1>1 DEF Functional, Logical, Anchored, Expression
<1>3. PICK w : /\ Instruction("JMP", w) /\ w[1] = 0 /\ Takes("JMP", w) = 0
               /\ \A u : Emitted(u, i) = Put(u, "JMP", w)
  BY EmittedJump
<1> DEFINE u == Put(inst, "JMP", w)
           v == Patched(u, top.pos + 1, Size(u))
<1>4. units' = [units EXCEPT ![Len(units)] = v]
  <2>1. Emitted(inst, i) = u
    BY <1>3
  <2>2. units' = [units EXCEPT ![Len(units)] =
                    Patched(Emitted(inst, i), top.pos + 1, Size(Emitted(inst, i)))]
    BY DEF EndThen, SetInst
  <2> QED
    BY <2>1, <2>2
<1>5. /\ lo \in Nat /\ hi \in Nat /\ lo < hi /\ top = open[hi] /\ inst \in Unit /\ Layout(inst)
      /\ Size(inst) \in Nat /\ top.pending = 0
  BY <1>1, <1>2, TopPart
<1>6. Lies(inst, open, lo, hi, W, 0)
  BY <1>1, <1>2, <1>5, LiesTop
<1>7. /\ c \in Construct /\ c.kind = "alt" /\ c.pending = 0 /\ c.pos = Size(inst)
  <2>1. c \in Construct /\ c.kind = "alt" /\ c.pending = 0
    BY <1>5, NewConstruct, ZenonT(40)
  <2> QED
    BY <2>1 DEF New
<1> HIDE DEF lo, hi, c, i, W, W1, W2, u, v
<1>8. Lies(u, open, lo, hi, W1, 0)
  <2>1. Takes("JMP", w) <= 0 /\ 0 - Takes("JMP", w) = 0 /\ w[1] \in Starts(inst) \cup {0}
    BY <1>3
  <2>2. W \subseteq W1 /\ Size(inst) \in W1
    BY DEF W1
  <2>3. Lies(Put(inst, "JMP", w), open, lo, hi, W1, 0 - Takes("JMP", w))
    BY <1>3, <1>6, <2>1, <2>2, LiesJump
  <2> QED
    BY <2>1, <2>3 DEF u
<1>9. /\ top.pos \in Starts(u) /\ top.pos \in W1 /\ IdAt(u, top.pos) \in {"JMP", "JNZ"}
      /\ Joins(u, top.pos, Size(u)) /\ W1 \subseteq W2 \cup {top.pos}
  <2>1. u \in Unit /\ Layout(u) /\ (~u.chained => u.height = 0)
    BY <1>8, LiesFacts
  <2>2. ~u.chained => Level(u, Size(u), 0)
    BY <2>1, LevelEnd
  <2>3. /\ top.pos \in Starts(u) /\ IdAt(u, top.pos) \in {"JMP", "JNZ"}
        /\ Joins(u, top.pos, Size(u))
    BY <1>2, <1>5, <1>8, <2>2, TopAnchor
  <2>4. W = Anchors(open, lo, hi - 1) \cup {top.pos}
    BY <1>2, <1>5, AnchorsLess DEF W
  <2> QED
    BY <2>3, <2>4 DEF W1, W2
<1>10. /\ Lies(v, open, lo, hi, W2, 0) /\ Repatched(u, v, {top.pos})
  <2>1. Size(u) \in Starts(u) \cup {Size(u)}
    OBVIOUS
  <2> QED
    BY <1>8, <1>9, <2>1, LiesPatched DEF v
<1>11. c.kind \notin Functional \cup Logical \cup LoopKind /\ c.kind \in Anchored
       /\ c.kind \notin {"then", "body"}
  BY <1>7 DEF Functional, Logical, LoopKind, Anchored
<1>12. Held(v, c)
  <2>1. Anchor(c.kind) = "JMP"
    BY <1>7 DEF Anchor, Logical
  <2>2. ~inst.chained => inst.height - Takes("JMP", w) + Gives("JMP") = 0
    BY <1>3, <1>6, LiesFacts, GivesOne
  <2>3. AnchorHeld(u, c)
    BY <1>3, <1>5, <1>7, <2>1, <2>2, AnchorNew DEF u
  <2>4. Held(u, c) /\ u \in Unit /\ Layout(u)
    BY <1>8, <1>11, <2>3, LiesFacts DEF Held
  <2> QED
    BY <1>7, <1>10, <1>11, <2>4, HeldKept
<1>13. W2 = Anchors(open, lo, hi - 1) \cup (IF c.kind \in Anchored THEN {c.pos} ELSE {})
  BY <1>7, <1>11 DEF W2
<1>14. Lies(v, open, lo, hi, W2, c.pending)
  BY <1>7, <1>10
<1> QED
  BY <1>1, <1>2, <1>4, <1>7, <1>11, <1>12, <1>13, <1>14, TurnStep DEF lo, hi

\* The jump of the alternative stays that of the construct around it.
LEMMA AnchorTurned ==
  ASSUME NEW u, NEW c, NEW d, AnchorHeld(u, c), c.kind = "alt", d.kind \in {"else", "alted"},
         d.pos = c.pos
  PROVE  Held(u, d)
<1>1. Anchor(d.kind) = Anchor(c.kind)
  BY DEF Anchor, Logical
<1>2. AnchorHeld(u, d)
  BY <1>1 DEF AnchorHeld, Logical
<1> QED
  BY <1>2 DEF Held, LoopKind

LEMMA ShapedElse ==
  ASSUME Typed, Shaped, Else
  PROVE  Shaped'
<1> PICK base : Shape(base)
  BY DEF Shaped
<1> DEFINE lo == base[Len(units)]
           hi == Len(open)
           c == [top EXCEPT !.kind = "else"]
           W == Anchors(open, lo, hi)
<1>1. open # <<>> /\ top.kind = "alt" /\ SetTop(c) /\ units' = units
  BY DEF Else, Top
<1>2. top.kind \notin Functional \cup Logical \cup Expression /\ top.kind \in Anchored
  BY <1>1 DEF Functional, Logical, Anchored, Expression
<1>3. /\ lo \in Nat /\ hi \in Nat /\ lo < hi /\ top = open[hi] /\ top \in Construct
      /\ top.pending = 0
  BY <1>1, <1>2, TopPart
<1>4. Lies(inst, open, lo, hi, W, 0)
  BY <1>1, <1>2, <1>3, LiesTop
<1>5. c \in Construct /\ c.kind = "else" /\ c.pending = 0 /\ c.pos = top.pos
  BY <1>3 DEF Construct, Block
<1>6. c.kind \notin Functional \cup Logical \cup LoopKind /\ c.kind \in Anchored
      /\ c.kind \notin {"then", "body"}
  BY <1>5 DEF Functional, Logical, LoopKind, Anchored
<1>7. units' = [units EXCEPT ![Len(units)] = inst]
  BY <1>1, TopFacts, SameUnits DEF Typed, UnitsOK
<1> HIDE DEF lo, hi, c, W
<1>8. Held(inst, c)
  BY <1>1, <1>2, <1>3, <1>4, <1>5, TopAnchor, AnchorTurned
<1>9. W = Anchors(open, lo, hi - 1) \cup (IF c.kind \in Anchored THEN {c.pos} ELSE {})
  BY <1>2, <1>3, <1>5, <1>6, AnchorsLess DEF W
<1>10. Lies(inst, open, lo, hi, W, c.pending)
  BY <1>4, <1>5
<1> QED
  BY <1>1, <1>2, <1>5, <1>6, <1>7, <1>8, <1>9, <1>10, TurnStep DEF lo, hi

LEMMA ShapedEndIf ==
  ASSUME Typed, Shaped, EndIf
  PROVE  Shaped'
<1> PICK base : Shape(base)
  BY DEF Shaped
<1> DEFINE lo == base[Len(units)]
           hi == Len(open)
           W == Anchors(open, lo, hi)
           W2 == Anchors(open, lo, hi - 1)
           u == EmittedAll(inst, << <<"CONST_NULL">>, <<"POP">> >>)
           v == Patched(u, top.pos + 1, Size(inst))
<1>1. open # <<>> /\ top.kind \in {"alt", "alted", "else"} /\ Pop
  BY DEF EndIf, Top
<1>2. units' = [units EXCEPT ![Len(units)] = v]
  BY DEF EndIf, SetInst, AfterAlt
<1>3. top.kind \notin Functional \cup Logical \cup Expression /\ top.kind \in Anchored
  BY <1>1 DEF Functional, Logical, Anchored, Expression
<1>4. /\ lo \in Nat /\ hi \in Nat /\ lo < hi /\ top = open[hi] /\ top.pending = 0
  BY <1>1, <1>3, TopPart
<1>5. Lies(inst, open, lo, hi, W, 0)
  BY <1>1, <1>3, <1>4, LiesTop
<1> HIDE DEF lo, hi, W, W2, v
<1>6. /\ Lies(u, open, lo, hi, W, 0) /\ Settled(u) /\ u.chained = inst.chained
      /\ Size(inst) \in Starts(u)
      /\ ~inst.chained => Level(u, Size(inst), 0)
  BY <1>5, NullPop
<1> HIDE DEF u
<1>7. /\ top.pos \in Starts(u) /\ top.pos \in W /\ IdAt(u, top.pos) \in {"JMP", "JNZ"}
      /\ Joins(u, top.pos, Size(inst)) /\ W \subseteq W2 \cup {top.pos}
  <2>1. /\ top.pos \in Starts(u) /\ IdAt(u, top.pos) \in {"JMP", "JNZ"}
        /\ Joins(u, top.pos, Size(inst))
    BY <1>3, <1>4, <1>6, TopAnchor
  <2>2. W = Anchors(open, lo, hi - 1) \cup {top.pos}
    <3>1. open[hi].kind \in Anchored /\ open[hi].pos = top.pos
      BY <1>3, <1>4
    <3>2. lo \in Nat /\ hi \in Nat /\ lo < hi
      BY <1>4
    <3>3. Anchors(open, lo, hi) = Anchors(open, lo, hi - 1) \cup {open[hi].pos}
      BY <3>1, <3>2, AnchorsLess
    <3> QED
      BY <3>1, <3>3 DEF W
  <2> QED
    BY <2>1, <2>2 DEF W2
<1>8. /\ Lies(v, open, lo, hi, W2, 0) /\ Repatched(u, v, {top.pos})
      /\ Target(v, top.pos) = Size(inst)
  BY <1>6, <1>7, LiesPatched DEF v
<1>9. Settled(v)
  <2>1. u \in Unit /\ Layout(u)
    BY <1>6, LiesFacts
  <2> QED
    BY <1>6, <1>8, <2>1, SettledKept
<1> QED
  BY <1>1, <1>2, <1>3, <1>8, <1>9, EndStep DEF lo, hi, W2
LEMMA ShapedElseIf ==
  ASSUME Typed, Shaped, ElseIf
  PROVE  Shaped'
<1> PICK base : Shape(base)
  BY DEF Shaped
<1> DEFINE lo == base[Len(units)]
           hi == Len(open)
           c == [top EXCEPT !.kind = "alted"]
           d == New("if")
           q == [open EXCEPT ![hi] = c]
           o == open'
           W == Anchors(open, lo, hi)
<1>1. open # <<>> /\ top.kind = "alt" /\ units' = units
  BY DEF ElseIf, Top
<1>2. o = Append(q, d)
  BY <1>1, ElseIfOpen DEF ElseIf
<1>3. top.kind \notin Functional \cup Logical \cup Expression /\ top.kind \in Anchored
  BY <1>1 DEF Functional, Logical, Anchored, Expression
<1>4. /\ lo \in Nat \ {0} /\ hi \in Nat \ {0} /\ lo < hi /\ top = open[hi] /\ top \in Construct
      /\ top.pending = 0 /\ inst \in Unit
      /\ open[lo].kind \in Functional
      /\ \A i \in lo + 1 .. hi : open[i].kind \notin Functional
  BY <1>1, <1>3, TopPart
<1>5. Lies(inst, open, lo, hi, W, 0)
  BY <1>1, <1>3, <1>4, LiesTop
<1>6. c \in Construct /\ c.kind = "alted" /\ c.pending = 0 /\ c.pos = top.pos
  BY <1>4 DEF Construct
<1>7. d \in Construct /\ d.kind = "if" /\ d.pending = 0
  BY NewConstruct DEF Expression
<1>8. units' = [units EXCEPT ![Len(units)] = inst]
  BY <1>1, TopFacts, SameUnits DEF Typed, UnitsOK
<1>9. /\ q \in Seq(Construct) /\ Len(q) = hi
      /\ \A i \in 1 .. hi : q[i] = IF i = hi THEN c ELSE open[i]
  <2>1. open \in Seq(Construct) /\ hi \in 1 .. Len(open)
    BY <1>4 DEF Typed, OpenOK
  <2> HIDE DEF c
  <2> QED
    BY <1>6, <2>1, ExceptSeq
<1> HIDE DEF q, c, d, o
<1>10. /\ o \in Seq(Construct) /\ Len(o) = hi + 1 /\ o[hi + 1] = d
       /\ \A i \in 1 .. hi : o[i] = q[i]
  BY <1>2, <1>4, <1>7, <1>9
<1> HIDE DEF lo, hi, W
<1>11. c.kind \notin Functional \cup Logical \cup LoopKind /\ c.kind \in Anchored
       /\ c.kind \notin {"then", "body"}
  BY <1>6 DEF Functional, Logical, LoopKind, Anchored
<1>12. d.kind \notin Functional \cup Logical \cup LoopKind \cup Anchored \cup {"then", "body"}
  BY <1>7 DEF Functional, Logical, LoopKind, Anchored
<1>13. Held(inst, c)
  BY <1>1, <1>3, <1>4, <1>5, <1>6, TopAnchor, AnchorTurned
<1>14. /\ Frame(inst, open, lo, hi, W) /\ (~inst.chained => inst.height = 0)
  BY <1>5, LiesFacts
<1>15. Part(inst, q, lo, hi)
  <2>1. W = Anchors(open, lo, hi - 1) \cup (IF c.kind \in Anchored THEN {c.pos} ELSE {})
    BY <1>3, <1>4, <1>6, <1>11, AnchorsLess DEF W
  <2>2. lo \in Nat /\ hi \in Nat /\ q[hi] = c /\ \A i \in lo .. hi - 1 : q[i] = open[i]
    BY <1>4, <1>9
  <2>3. ~inst.chained => inst.height = c.pending
    BY <1>6, <1>14
  <2> QED
    BY <1>4, <1>11, <1>13, <1>14, <2>1, <2>2, <2>3, PartTurned
<1>16. Part(inst, o, lo, hi + 1)
  <2>1. Frame(inst, q, lo, hi, Anchors(q, lo, hi))
    BY <1>15 DEF Part
  <2>2. Anchors(q, lo, hi) = Anchors(q, lo, hi) \cup (IF d.kind \in Anchored THEN {d.pos} ELSE {})
    BY <1>12
  <2>3. Held(inst, d)
    BY <1>12 DEF Held
  <2>4. ~inst.chained => Total(inst, d, inst.height)
    BY <1>7, <1>12, <1>14 DEF Total
  <2>5. lo \in Nat /\ hi \in Nat /\ lo <= hi /\ \A i \in lo .. hi : o[i] = q[i]
    BY <1>4, <1>10
  <2>6. q[hi].kind \notin LoopKind
    BY <1>4, <1>9, <1>11
  <2> QED
    BY <1>4, <1>10, <1>12, <2>1, <2>2, <2>3, <2>4, <2>5, <2>6, PartMore
<1>17. /\ \A i \in 1 .. lo - 1 : o[i] = open[i]
       /\ o[lo].kind \in Functional
       /\ \A i \in lo + 1 .. hi + 1 : o[i].kind \notin Functional
  <2>1. ASSUME NEW i \in 1 .. hi PROVE o[i] = IF i = hi THEN c ELSE open[i]
    BY <1>9, <1>10
  <2>2. \A i \in 1 .. lo - 1 : o[i] = open[i]
    BY <1>4, <2>1
  <2>3. o[lo].kind \in Functional
    BY <1>4, <2>1
  <2>4. \A i \in lo + 1 .. hi + 1 : o[i].kind \notin Functional
    <3> TAKE i \in lo + 1 .. hi + 1
    <3>1. i = hi + 1 \/ (i \in 1 .. hi /\ i \in lo + 1 .. hi)
      BY <1>4
    <3> QED
      BY <1>4, <1>10, <1>11, <1>12, <2>1, <3>1
  <2> QED
    BY <2>2, <2>3, <2>4
<1>18. lo <= Len(o)
  BY <1>4, <1>10
<1>19. Part(inst, o, lo, Len(o)) /\ \A i \in lo + 1 .. Len(o) : o[i].kind \notin Functional
  BY <1>10, <1>16, <1>17
<1>20. /\ o \in Seq(Construct) /\ lo <= Len(o) /\ \A i \in 1 .. lo - 1 : o[i] = open[i]
       /\ o[lo].kind \in Functional
  BY <1>10, <1>17, <1>18
<1>21. lo = base[Len(units)]
  BY DEF lo
<1> QED
  BY <1>1, <1>4, <1>8, <1>19, <1>20, <1>21, TopStep DEF o

\* CHK leaves the value that decides where it is.
LEMMA ShapedBeginLogical ==
  ASSUME Typed, Shaped, PlainLoops, NEW kind \in Logical, BeginLogical(kind)
  PROVE  Shaped'
<1> PICK base : Shape(base)
  BY DEF Shaped
<1> DEFINE lo == base[Len(units)]
           hi == Len(open)
           c == [New(kind) EXCEPT !.pos = Size(inst)]
           a == IF kind = "or" THEN 1 ELSE 0
           w == <<a, 0>>
           i == <<"CHK", a, 0>>
           v == Put(inst, "CHK", w)
           o == open'
           W == Anchors(open, lo, hi)
           W2 == W \cup {Size(inst)}
<1>1. /\ open # <<>> /\ top.kind \in Expression /\ top.pending >= 1 /\ Loops = {}
      /\ Emit(<<i>>)
  BY DEF BeginLogical, InExpression, Top, LoopMayHold
<1>2. /\ lo \in Nat \ {0} /\ hi \in Nat \ {0} /\ lo <= hi /\ top = open[hi] /\ top \in Construct
      /\ inst \in Unit /\ Layout(inst) /\ Size(inst) \in Nat
      /\ Frame(inst, open, lo, hi, W)
      /\ \A j \in lo .. hi : open[j] \in Construct
      /\ ~inst.chained => Total(inst, top, inst.height)
      /\ Loops = {j \in lo .. hi : open[j].kind \in LoopKind}
  BY <1>1, TopPart
<1>3. /\ Instruction("CHK", w) /\ w[2] = 0 /\ Takes("CHK", w) = 1 /\ Gives("CHK") = 1
      /\ Emitted(inst, i) = Put(inst, "CHK", w)
  <2>1. a \in Nat
    OBVIOUS
  <2> HIDE DEF a
  <2>2. Instruction("CHK", <<a, 0>>) /\ Emitted(inst, <<"CHK", a, 0>>) = Put(inst, "CHK", <<a, 0>>)
    BY <2>1, Instructions, EmittedPut
  <2>3. Takes("CHK", <<a, 0>>) = 1 /\ Gives("CHK") = 1 /\ <<a, 0>>[2] = 0
    BY GivesOne DEF Takes
  <2> QED
    BY <2>2, <2>3
<1>4. c \in Construct /\ c.kind = kind /\ c.pending = 0 /\ c.pos = Size(inst)
  <2>1. kind \in Expression
    BY DEF Logical, Expression
  <2>2. c \in Construct /\ c.kind = kind /\ c.pending = 0
    BY <1>2, <2>1, NewConstruct, ZenonT(40)
  <2> QED
    BY <2>2 DEF New
<1>5. open' = Append(open, c)
  BY DEF BeginLogical, Push
<1>6. o[hi + 1] = c /\ \A j \in lo .. hi : o[j] = open[j]
  <2>1. open \in Seq(Construct)
    BY DEF Typed, OpenOK
  <2> HIDE DEF c
  <2> QED
    BY <1>2, <1>4, <1>5, <2>1
<1> HIDE DEF lo, hi, c, a, w, i, v, o, W, W2
<1>7. units' = [units EXCEPT ![Len(units)] = v]
  BY <1>1, <1>3, EmitPut DEF v
<1>8. /\ v \in Unit /\ Extends(inst, "CHK", w, v) /\ v.chained = inst.chained
      /\ v.height = inst.height - 1 + 1 /\ inst.height \in Int
      /\ Starts(v) = Starts(inst) \cup {Size(inst)} /\ 0 \in Starts(v)
      /\ IdAt(v, Size(inst)) = "CHK"
      /\ \A s \in Range(v.sites) : s.pos = Size(inst) => s.height = inst.height
  BY <1>2, <1>3, PutFacts DEF v
<1>9. \A j \in lo .. hi : open[j].kind \notin LoopKind
  BY <1>1, <1>2
<1>10. hi \in lo .. hi /\ lo \in Nat /\ hi \in Nat
  BY <1>2
<1>11. ~inst.chained => 1 <= inst.height
  <2> SUFFICES ASSUME ~inst.chained PROVE 1 <= inst.height
    OBVIOUS
  <2>1. Total(inst, open[hi], inst.height) /\ open[hi] \in Construct
    BY <1>2
  <2>2. inst.height \in Nat /\ top.pending <= inst.height /\ top.pending \in Nat
    BY <1>2, <1>10, <2>1, PendingHeld, ConstructFacts
  <2> QED
    BY <1>1, <2>2
<1>12. Frame(v, open, lo, hi, W2)
  <2>1. Target(v, Size(inst)) \in Starts(v)
    BY <1>2, <1>3, <1>8, Added
  <2>2. W \subseteq W2 /\ Size(inst) \in W2
    BY DEF W2
  <2>3. ~inst.chained => Takes("CHK", w) <= inst.height
    BY <1>3, <1>11
  <2> QED
    BY <1>2, <1>3, <1>8, <1>9, <1>10, <2>1, <2>2, <2>3, FramePut
<1>13. Held(v, c)
  <2>1. Anchor(c.kind) = "CHK" /\ c.kind \notin LoopKind
    BY <1>4 DEF Anchor, Logical, LoopKind
  <2> QED
    BY <1>4, <1>8, <2>1 DEF Held, AnchorHeld
<1>14. ASSUME ~v.chained, NEW s \in Range(v.sites), s.pos = c.pos
       PROVE  Total(v, open[hi], s.height) /\ v.height = s.height + c.pending
  <2>1. s.height = inst.height
    BY <1>4, <1>8, <1>14
  <2>2. Total(inst, open[hi], inst.height)
    BY <1>2, <1>8, <1>14
  <2>3. Total(v, open[hi], inst.height)
    BY <1>2, <1>3, <1>8, <1>10, <2>2, TotalPut2
  <2> QED
    BY <1>4, <1>8, <2>1, <2>3
<1>15. Part(v, o, lo, hi + 1)
  <2>1. c.kind \in Logical /\ c.kind \in Anchored /\ c.kind \notin LoopKind
        /\ c.kind \notin Functional \cup {"then", "body"}
    BY <1>4 DEF Logical, Anchored, LoopKind, Functional
  <2>2. W2 = Anchors(open, lo, hi) \cup (IF c.kind \in Anchored THEN {c.pos} ELSE {})
    BY <1>4, <2>1 DEF W, W2
  <2>3. ~v.chained => Total(v, c, v.height)
    BY <1>14, <2>1 DEF Total
  <2>4. ~v.chained /\ c.kind \in Logical =>
          \A s \in Range(v.sites) : s.pos = c.pos => Total(v, open[hi], s.height)
    BY <1>14
  <2>5. open[hi].kind \notin LoopKind
    BY <1>9, <1>10
  <2> QED
    BY <1>2, <1>6, <1>8, <1>10, <1>12, <1>13, <2>1, <2>2, <2>3, <2>4, <2>5, PartMore
<1>16. c.kind \notin Functional
  BY <1>4 DEF Functional, Logical
<1> QED
  BY <1>1, <1>2, <1>4, <1>5, <1>7, <1>8, <1>15, <1>16, TopStepPush DEF lo, hi, o
\* The operator takes its operand and the value that CHK left.
LEMMA ShapedEndLogical ==
  ASSUME Typed, Shaped, EndLogical
  PROVE  Shaped'
<1> PICK base : Shape(base)
  BY DEF Shaped
<1> DEFINE lo == base[Len(units)]
           hi == Len(open)
           id == IF top.kind = "or" THEN "OR" ELSE "AND"
           none == <<>>
           u == Put(inst, id, none)
           v == Patched(u, top.pos + 2, Size(u))
           W == Anchors(open, lo, hi)
           W2 == Anchors(open, lo, hi - 1)
<1>1. open # <<>> /\ top.kind \in Logical /\ top.pending = 1 /\ Pop
  BY DEF EndLogical, Complete, Top, Logical
<1>2. top.kind \notin Functional \cup LoopKind /\ top.kind \in Anchored
  BY <1>1 DEF Logical, Functional, LoopKind, Anchored
<1>3. /\ lo \in Nat \ {0} /\ hi \in Nat \ {0} /\ lo < hi /\ top = open[hi] /\ top \in Construct
      /\ inst \in Unit /\ Layout(inst) /\ Frame(inst, open, lo, hi, W)
      /\ \A j \in lo .. hi : open[j] \in Construct
      /\ ~inst.chained => Total(inst, top, inst.height)
  BY <1>1, <1>2, TopPart
<1>4. id \in {"AND", "OR"} /\ \A x : Emitted(x, <<id>>) = Put(x, id, none)
  BY EmittedPut
<1>5. units' = [units EXCEPT ![Len(units)] = v]
  <2>1. units' = [units EXCEPT ![Len(units)] =
                    Patched(Emitted(inst, <<id>>), top.pos + 2, Size(Emitted(inst, <<id>>)))]
    BY DEF EndLogical, SetInst, AfterLogical
  <2> HIDE DEF id
  <2> QED
    BY <1>4, <2>1
<1> HIDE DEF id
<1>6. /\ Instruction(id, none) /\ Takes(id, none) = 2 /\ Gives(id) = 1
      /\ id \notin Short \cup Exit \cup {"PACK", "MAP", "CHK"}
  BY <1>4, Instructions, GivesOne DEF Takes, Short, Exit
<1> HIDE DEF lo, hi, none, u, v, W, W2
<1>7. hi \in lo .. hi /\ lo \in Nat /\ hi \in Nat /\ hi \in lo + 1 .. hi /\ lo <= hi
  BY <1>3
<1>8. ~inst.chained => 2 <= inst.height
  <2> SUFFICES ASSUME ~inst.chained PROVE 2 <= inst.height
    OBVIOUS
  <2>1. Total(inst, open[hi], inst.height) /\ open[hi] \in Construct /\ open[hi].kind \in Logical
    BY <1>1, <1>3
  <2>2. Frame(inst, open, lo, hi, W) /\ inst \in Unit
    BY <1>3
  <2>3. inst.height \in Nat /\ open[hi].pending < inst.height
    BY <1>7, <2>1, <2>2, PendingHeld
  <2> QED
    BY <1>1, <1>3, <2>3
<1>9. /\ u \in Unit /\ Extends(inst, id, none, u) /\ u.chained = inst.chained /\ Layout(u)
      /\ u.height = inst.height - 2 + 1 /\ inst.height \in Int /\ Size(u) \in Nat
  BY <1>3, <1>6, PutFacts DEF u
<1>10. Frame(u, open, lo, hi, W)
  <2>1. ~inst.chained => Takes(id, none) <= inst.height
    BY <1>6, <1>8
  <2>2. id \notin Short /\ id \notin Exit
    BY <1>6
  <2> QED
    BY <1>3, <1>6, <1>7, <1>9, <2>1, <2>2, FramePut
<1>11. top.pos \in Starts(u) /\ IdAt(u, top.pos) = "CHK"
  <2>1. AnchorHeld(u, top)
    BY <1>2, <1>3, <1>7, <1>10 DEF Frame, Held
  <2> QED
    BY <1>1, <2>1 DEF AnchorHeld, Anchor
<1>12. ASSUME ~u.chained, NEW s \in Range(u.sites), s.pos = top.pos
       PROVE  After(u, s) = u.height /\ s.height = u.height
  <2>1. Total(u, open[hi], inst.height)
    BY <1>3, <1>6, <1>7, <1>9, <1>12, TotalPut2
  <2>2. inst.height = s.height + 1
    BY <1>1, <1>3, <1>12, <2>1 DEF Total
  <2>3. After(u, s) = s.height - 1 + 1
    BY <1>11, <1>12, GivesOne DEF After, Takes
  <2>4. s.height \in Int
    BY <1>9, UnitFacts
  <2> QED
    BY <1>9, <2>2, <2>3, <2>4
<1>13. Joins(u, top.pos, Size(u))
  <2>1. Level(u, Size(u), u.height)
    BY <1>9, LevelEnd
  <2> QED
    BY <1>12, <2>1 DEF Joins
<1>14. W = W2 \cup {top.pos} /\ top.pos \in W
  <2>1. open[hi].kind \in Anchored /\ open[hi].pos = top.pos
    BY <1>2, <1>3
  <2> QED
    BY <1>3, <1>7, <2>1, AnchorsLess DEF W, W2
<1>15. Frame(v, open, lo, hi, W2) /\ Repatched(u, v, {top.pos})
  <2>1. Slot(u, top.pos) = top.pos + 2 /\ IdAt(u, top.pos) \in Short
    BY <1>11 DEF Slot, Short
  <2>2. v = Patched(u, Slot(u, top.pos), Size(u))
    BY <2>1 DEF v
  <2>3. W \subseteq W2 \cup {top.pos} /\ Size(u) \in Starts(u) \cup {Size(u)}
    BY <1>14
  <2>4. /\ Frame(Patched(u, Slot(u, top.pos), Size(u)), open, lo, hi, W2)
        /\ Repatched(u, Patched(u, Slot(u, top.pos), Size(u)), {top.pos})
    <3>1. u \in Unit /\ top.pos \in Starts(u) /\ top.pos \in W /\ \A j \in lo .. hi : open[j] \in Construct
      BY <1>3, <1>9, <1>11, <1>14
    <3> QED
      BY <1>7, <1>10, <1>13, <2>1, <2>3, <3>1, FramePatched, ZenonT(40)
  <2> QED
    BY <2>2, <2>4
<1>16. v \in Unit /\ v.chained = u.chained /\ v.height = u.height /\ v.sites = u.sites
  BY <1>15 DEF Repatched
<1>17. ~v.chained => Total(v, open[hi - 1], v.height)
  <2> SUFFICES ASSUME ~v.chained PROVE Total(v, open[hi - 1], v.height)
    OBVIOUS
  <2>1. PICK s \in Range(u.sites) : s.pos = top.pos
    BY <1>11 DEF Starts
  <2>2. Total(u, open[hi - 1], s.height)
    BY <1>1, <1>3, <1>7, <1>10, <1>16, <2>1 DEF Frame
  <2>3. s.height = v.height
    BY <1>12, <1>16, <2>1
  <2>4. Total(u, open[hi - 1], v.height)
    BY <2>2, <2>3
  <2> QED
    BY <1>16, <2>4, TotalKept
<1>18. open[hi - 1].kind \notin Functional \cup {"then", "body"}
  <2>1. Within(top, open[hi - 1].kind)
    BY <1>1, TopFacts DEF hi
  <2>2. open[hi - 1].kind \in Expression
    BY <1>1, <2>1 DEF Within
  <2> QED
    BY <2>2 DEF Expression, Functional
<1>19. Part(v, open, lo, hi - 1)
  <2>1. Frame(v, open, lo, hi, Anchors(open, lo, hi - 1))
    BY <1>15 DEF W2
  <2> QED
    BY <1>3, <1>7, <1>16, <1>17, <1>18, <2>1, PartLess
<1>20. top.kind \notin Functional
  BY <1>2
<1> QED
  BY <1>1, <1>5, <1>16, <1>19, <1>20, TopStepPop DEF lo, hi
-----------------------------------------------------------------------------
(* Loops.                                                                  *)

\* Where a loop starts there is nothing of it yet.
LEMMA NewLoop ==
  ASSUME NEW u, NEW o, NEW lo, NEW hi, NEW W, Lies(u, o, lo, hi, W, 0), lo <= hi,
         \A i \in lo .. hi : o[i].kind \in LoopKind => o[i].start < Size(u),
         NEW c \in Construct, c.kind \in {"for", "forin"}, c.start = Size(u), c.pending = 0,
         c.breaks = {}, c.continues = {},
         NEW o2, \A i \in lo .. hi : o2[i] = o[i], o2[hi + 1] = c,
         W = Anchors(o, lo, hi)
  PROVE  Part(u, o2, lo, hi + 1)
<1>1. /\ lo \in Nat /\ hi \in Nat /\ u \in Unit /\ Frame(u, o, lo, hi, W) /\ Layout(u)
      /\ \A i \in lo .. hi : o[i] \in Construct /\ (~u.chained => u.height = 0)
  BY LiesFacts
<1>2. c.kind \notin Logical \cup Anchored \cup Functional \cup {"then", "body"}
  BY DEF Logical, Anchored, Functional
<1>3. /\ GoalsMet(u) /\ Size(u) \in Nat /\ \A p \in Starts(u) : p \in Nat /\ p < Size(u)
  BY <1>1, UnitFacts DEF Frame, Laid, Layout
<1>4. ASSUME NEW g \in u.goals PROVE g.at < Size(u)
  <2>1. g.at \in Nat
    BY <1>1 DEF Unit
  <2>2. g.at - 1 \in Starts(u) /\ IdAt(u, g.at - 1) \in Exit
    BY <1>3 DEF GoalsMet
  <2> QED
    BY <1>1, <2>1, <2>2, ExitFacts
<1>5. LoopHeld(u, c)
  <2>1. ~u.chained => Level(u, Size(u), 0)
    BY <1>1, LevelEnd
  <2>2. \A p \in Starts(u) : ~ (p >= c.start)
    BY <1>3
  <2>3. \A g \in u.goals : g.at < c.start
    BY <1>4
  <2>4. c.start \in Starts(u) \cup {Size(u)} /\ c.kind # "body"
    BY <1>2
  <2>5. \A x : x \notin c.breaks /\ x \notin c.continues /\ x \notin c.breaks \cup c.continues
    OBVIOUS
  <2>6. ~u.chained => Level(u, c.start, 0)
    BY <2>1
  <2> QED
    BY <2>2, <2>3, <2>4, <2>5, <2>6 DEF LoopHeld
<1>6. Held(u, c)
  BY <1>2, <1>5 DEF Held
<1>7. ASSUME NEW i \in lo .. hi, o[i].kind \in LoopKind
      PROVE  /\ o[i].start < c.start
             /\ \A b \in o[i].breaks \cup o[i].continues : b < c.start
  <2>1. LoopHeld(u, o[i]) /\ o[i] \in Construct
    BY <1>1, <1>7 DEF Frame, Held
  <2>2. ASSUME NEW b \in o[i].breaks \cup o[i].continues PROVE b < c.start
    <3>1. b \in Nat
      BY <2>1, ConstructFacts
    <3>2. b - 1 \in Starts(u) /\ IdAt(u, b - 1) \in Exit
      BY <2>1, <2>2 DEF LoopHeld, Unpatched, Exit
    <3> QED
      BY <1>1, <3>1, <3>2, ExitFacts
  <2> QED
    BY <1>7, <2>2
<1>8. W = Anchors(o, lo, hi) \cup (IF c.kind \in Anchored THEN {c.pos} ELSE {})
  BY <1>2
<1>9. ~u.chained => Total(u, c, u.height)
  BY <1>1, <1>2 DEF Total
<1>10. o[hi].kind \in LoopKind => o[hi].start < Size(u)
  <2>1. hi \in lo .. hi
    BY <1>1
  <2> QED
    BY <2>1
<1>11. c.kind \notin Logical /\ c.kind \notin Functional \cup {"then", "body"}
  BY <1>2
<1> QED
  BY <1>1, <1>6, <1>7, <1>8, <1>9, <1>10, <1>11, PartMore

\* The loops around a statement have started before it.
LEMMA LoopsBefore ==
  ASSUME Typed, InBlock, NEW base, Shape(base)
  PROVE  \A i \in base[Len(units)] .. Len(open) :
           open[i].kind \in LoopKind => open[i].start < Size(inst)
<1> DEFINE lo == base[Len(units)]
           hi == Len(open)
<1>1. open # <<>> /\ (top.kind \in LoopKind => top.start < Size(inst))
  BY BlockTop
<1>2. /\ lo \in Nat /\ hi \in Nat /\ top = open[hi]
      /\ Frame(inst, open, lo, hi, Anchors(open, lo, hi))
  BY <1>1, TopPart
<1> HIDE DEF lo, hi
<1>3. ASSUME NEW i \in lo .. hi, open[i].kind \in LoopKind PROVE open[i].start < Size(inst)
  <2>1. i = hi \/ i \in lo .. hi - 1
    BY <1>2
  <2> QED
    BY <1>1, <1>2, <1>3, <2>1 DEF Frame
<1> QED
  BY <1>3 DEF lo, hi

LEMMA ShapedBeginFor ==
  ASSUME Typed, Shaped, BeginFor
  PROVE  Shaped'
<1> PICK base : Shape(base)
  BY DEF Shaped
<1> DEFINE lo == base[Len(units)]
           hi == Len(open)
           c == [New("for") EXCEPT !.start = Size(inst)]
           o == open'
           W == Anchors(open, lo, hi)
<1>1. /\ InBlock /\ units' = units /\ open' = Append(open, c)
  BY DEF BeginFor, Push
<1>2. open # <<>> /\ top.pending = 0 /\ top.kind \notin Logical
  BY <1>1, BlockTop
<1>3. /\ lo \in Nat \ {0} /\ hi \in Nat \ {0} /\ lo <= hi /\ inst \in Unit /\ Size(inst) \in Nat
  BY <1>2, TopPart
<1>4. Lies(inst, open, lo, hi, W, 0)
  BY <1>2, LiesTop
<1>5. \A i \in lo .. hi : open[i].kind \in LoopKind => open[i].start < Size(inst)
  BY <1>1, LoopsBefore
<1>6. /\ c \in Construct /\ c.kind = "for" /\ c.start = Size(inst) /\ c.pending = 0
      /\ c.breaks = {} /\ c.continues = {}
  <2>1. Size(inst) \in Nat
    BY <1>3
  <2>2. c \in Construct /\ c.kind = "for" /\ c.pending = 0
    BY <2>1, NewConstruct DEF Expression
  <2> QED
    BY <2>2 DEF New
<1>7. units' = [units EXCEPT ![Len(units)] = inst]
  BY <1>1, <1>2, TopFacts, SameUnits DEF Typed, UnitsOK
<1>8. o[hi + 1] = c /\ \A i \in lo .. hi : o[i] = open[i]
  <2>1. open \in Seq(Construct)
    BY DEF Typed, OpenOK
  <2> HIDE DEF c
  <2> QED
    BY <1>1, <1>3, <1>6, <2>1
<1> HIDE DEF lo, hi, c, o, W
<1>9. Part(inst, o, lo, hi + 1)
  <2>1. W = Anchors(open, lo, hi)
    BY DEF W
  <2>2. c.kind \in {"for", "forin"}
    BY <1>6
  <2> QED
    BY <1>3, <1>4, <1>5, <1>6, <1>8, <2>1, <2>2, NewLoop
<1>10. c.kind \notin Functional
  BY <1>6 DEF Functional
<1> QED
  BY <1>1, <1>2, <1>3, <1>6, <1>7, <1>9, <1>10, TopStepPush DEF lo, hi, o
\* An instruction that is no jump, by what it takes and leaves.
Adds(i, t, g) ==
  \E id, w : /\ Instruction(id, w) /\ id \notin Short \cup Exit \cup {"PACK", "MAP"}
             /\ Takes(id, w) = t /\ Gives(id) = g
             /\ \A u : Emitted(u, i) = Put(u, id, w)

LEMMA AddsFacts ==
  /\ \A n \in Nat : Adds(<<"CONST_", n>>, 0, 1) /\ \A k \in Nat : Adds(<<"CLOSURE", n, k>>, k, 1)
  /\ Adds(Store, 1, 1) /\ Adds(Load, 0, 1) /\ Adds(<<"INDEX", 1>>, 2, 1)
  /\ Adds(<<"CONST_NULL">>, 0, 1) /\ Adds(<<"SIZE">>, 1, 1) /\ Adds(<<"GT">>, 2, 1)
  /\ Adds(<<"ADD">>, 2, 1) /\ Adds(<<"POP">>, 1, 0) /\ Adds(<<"RET">>, 1, 0)
  /\ Adds(<<"DEFER">>, 1, 0) /\ Adds(<<"HLT">>, 0, 0)
<1>1. ASSUME NEW id \in {"CONST_NULL", "SIZE", "GT", "ADD", "POP", "RET", "DEFER", "HLT"}
      PROVE  \A t, g : Takes(id, <<>>) = t /\ Gives(id) = g => Adds(<<id>>, t, g)
  <2> DEFINE i == <<id>>
             w == <<>>
  <2>1. Instruction(id, w) /\ \A u : Emitted(u, i) = Put(u, id, w)
    BY Instructions, EmittedPut
  <2>2. id \notin Short \cup Exit \cup {"PACK", "MAP"}
    BY DEF Short, Exit
  <2> HIDE DEF i, w
  <2>3. \A t, g : Takes(id, w) = t /\ Gives(id) = g => Adds(i, t, g)
    BY <2>1, <2>2 DEF Adds
  <2> QED
    BY <2>3 DEF i, w
<1>2. ASSUME NEW id \in {"CONST_", "INDEX"}, NEW n \in Nat
      PROVE  \A t, g : Takes(id, <<n>>) = t /\ Gives(id) = g => Adds(<<id, n>>, t, g)
  <2> DEFINE i == <<id, n>>
             w == <<n>>
  <2>1. Instruction(id, w) /\ \A u : Emitted(u, i) = Put(u, id, w)
    BY Instructions, EmittedPut
  <2>2. id \notin Short \cup Exit \cup {"PACK", "MAP"}
    BY DEF Short, Exit
  <2> HIDE DEF i, w
  <2>3. \A t, g : Takes(id, w) = t /\ Gives(id) = g => Adds(i, t, g)
    BY <2>1, <2>2 DEF Adds
  <2> QED
    BY <2>3 DEF i, w
<1>3. ASSUME NEW id \in {"LOAD", "STORE", "CLOSURE"}, NEW n \in Nat, NEW k \in Nat
      PROVE  \A t, g : Takes(id, <<n, k>>) = t /\ Gives(id) = g => Adds(<<id, n, k>>, t, g)
  <2> DEFINE i == <<id, n, k>>
             w == <<n, k>>
  <2>1. Instruction(id, w) /\ \A u : Emitted(u, i) = Put(u, id, w)
    BY Instructions, EmittedPut
  <2>2. id \notin Short \cup Exit \cup {"PACK", "MAP"}
    BY DEF Short, Exit
  <2> HIDE DEF i, w
  <2>3. \A t, g : Takes(id, w) = t /\ Gives(id) = g => Adds(i, t, g)
    BY <2>1, <2>2 DEF Adds
  <2> QED
    BY <2>3 DEF i, w
<1>4. /\ \A n \in Nat : Adds(<<"CONST_", n>>, 0, 1)
      /\ Adds(<<"INDEX", 1>>, 2, 1)
  <2>1. \A n \in Nat : Takes("CONST_", <<n>>) = 0 /\ Takes("INDEX", <<1>>) = 2
    BY DEF Takes
  <2> QED
    BY <1>2, <2>1, GivesOne
<1>5. /\ \A n, k \in Nat : Adds(<<"CLOSURE", n, k>>, k, 1)
      /\ Adds(<<"STORE", 1, 0>>, 1, 1) /\ Adds(<<"LOAD", 1, 0>>, 0, 1)
  <2>1. /\ \A n, k \in Nat : Takes("CLOSURE", <<n, k>>) = k
        /\ Takes("STORE", <<1, 0>>) = 1 /\ Takes("LOAD", <<1, 0>>) = 0
    BY DEF Takes
  <2> QED
    BY <1>3, <2>1, GivesOne
<1>6. /\ Takes("CONST_NULL", <<>>) = 0 /\ Takes("SIZE", <<>>) = 1 /\ Takes("GT", <<>>) = 2
      /\ Takes("ADD", <<>>) = 2 /\ Takes("POP", <<>>) = 1 /\ Takes("RET", <<>>) = 1
      /\ Takes("DEFER", <<>>) = 1 /\ Takes("HLT", <<>>) = 0
  BY DEF Takes
<1>7. /\ Adds(<<"CONST_NULL">>, 0, 1) /\ Adds(<<"SIZE">>, 1, 1) /\ Adds(<<"GT">>, 2, 1)
      /\ Adds(<<"ADD">>, 2, 1) /\ Adds(<<"POP">>, 1, 0) /\ Adds(<<"RET">>, 1, 0)
      /\ Adds(<<"DEFER">>, 1, 0) /\ Adds(<<"HLT">>, 0, 0)
  BY <1>1, <1>6, GivesOne
<1> QED
  BY <1>4, <1>5, <1>7 DEF Load, Store

LEMMA LiesAdds ==
  ASSUME NEW u, NEW o, NEW lo, NEW hi, NEW W, NEW h, Lies(u, o, lo, hi, W, h),
         NEW i, NEW t, NEW g, Adds(i, t, g), t <= h
  PROVE  /\ Lies(Emitted(u, i), o, lo, hi, W, h - t + g)
         /\ Settled(Emitted(u, i)) /\ Emitted(u, i).chained = u.chained
         /\ Size(u) < Size(Emitted(u, i))
         /\ \A j \in lo .. hi : o[j].kind \in LoopKind => o[j].start < Size(Emitted(u, i))
         /\ \A c \in Construct : AnchorHeld(u, c) => AnchorHeld(Emitted(u, i), c)
<1> PICK id, w : /\ Instruction(id, w) /\ id \notin Short \cup Exit \cup {"PACK", "MAP"}
                 /\ Takes(id, w) = t /\ Gives(id) = g
                 /\ Emitted(u, i) = Put(u, id, w)
  BY DEF Adds
<1>1. u \in Unit /\ Layout(u)
  BY LiesFacts
<1>2. Extends(u, id, w, Put(u, id, w))
  BY <1>1, PutFacts
<1>3. \A c \in Construct : AnchorHeld(u, c) => AnchorHeld(Put(u, id, w), c)
  BY <1>1, <1>2, AnchorPut
<1>4. /\ Lies(Put(u, id, w), o, lo, hi, W, h - Takes(id, w) + Gives(id))
      /\ Settled(Put(u, id, w)) /\ Put(u, id, w).chained = u.chained
      /\ Size(u) < Size(Put(u, id, w))
      /\ \A j \in lo .. hi : o[j].kind \in LoopKind => o[j].start < Size(Put(u, id, w))
  BY LiesPlain
<1> QED
  BY <1>3, <1>4

LEMMA ShapedBeginForIn ==
  ASSUME Typed, Shaped, BeginForIn
  PROVE  Shaped'
<1> PICK base : Shape(base)
  BY DEF Shaped
<1> DEFINE zero == <<"CONST_", constants>>
           drop == <<"POP">>
           is == <<zero, Store, drop>>
           S == {zero, Store, drop}
           u == EmittedAll(inst, is)
           lo == base[Len(units)]
           hi == Len(open)
           c == [New("forin") EXCEPT !.start = Size(u)]
           o == open'
           W == Anchors(open, lo, hi)
<1>1. /\ InBlock /\ open' = Append(open, c) /\ units' = [units EXCEPT ![Len(units)] = u]
  BY DEF BeginForIn, Push, SetInst
<1>2. open # <<>> /\ top.pending = 0 /\ top.kind \notin Logical
  BY <1>1, BlockTop
<1>3. /\ lo \in Nat \ {0} /\ hi \in Nat \ {0} /\ lo <= hi
  BY <1>2, TopPart
<1>4. Lies(inst, open, lo, hi, W, 0)
  BY <1>2, LiesTop
<1>5. Adds(zero, 0, 1) /\ Adds(Store, 1, 1) /\ Adds(drop, 1, 0)
  BY AddsFacts DEF Typed
<1>6. is \in Seq(S) /\ Len(is) = 3 /\ is[1] = zero /\ is[2] = Store /\ is[3] = drop
  OBVIOUS
<1> HIDE DEF zero, drop, is, S, lo, hi, W
<1>7. u = Emitted(Emitted(Emitted(inst, zero), Store), drop)
  BY <1>6, EmittedFew
<1> HIDE DEF u, c
<1>8. Lies(Emitted(inst, zero), open, lo, hi, W, 1)
  <2>1. Lies(Emitted(inst, zero), open, lo, hi, W, 0 - 0 + 1)
    BY <1>4, <1>5, LiesAdds
  <2> QED
    BY <2>1
<1>9. Lies(Emitted(Emitted(inst, zero), Store), open, lo, hi, W, 1)
  <2>1. Lies(Emitted(Emitted(inst, zero), Store), open, lo, hi, W, 1 - 1 + 1)
    BY <1>5, <1>8, LiesAdds
  <2> QED
    BY <2>1
<1>10. /\ Lies(u, open, lo, hi, W, 0)
       /\ \A j \in lo .. hi : open[j].kind \in LoopKind => open[j].start < Size(u)
  <2> DEFINE x == Emitted(Emitted(inst, zero), Store)
  <2>1. Lies(x, open, lo, hi, W, 1) /\ u = Emitted(x, drop)
    BY <1>7, <1>9
  <2> HIDE DEF x
  <2>2. /\ Lies(Emitted(x, drop), open, lo, hi, W, 1 - 1 + 0)
        /\ \A j \in lo .. hi : open[j].kind \in LoopKind => open[j].start < Size(Emitted(x, drop))
    BY <1>5, <2>1, LiesAdds
  <2> QED
    BY <2>1, <2>2
<1>11. u \in Unit /\ Size(u) \in Nat
  BY <1>10, LiesFacts, UnitFacts
<1>12. /\ c \in Construct /\ c.kind = "forin" /\ c.start = Size(u) /\ c.pending = 0
       /\ c.breaks = {} /\ c.continues = {}
  <2>1. c \in Construct /\ c.kind = "forin" /\ c.pending = 0
    BY <1>11, NewConstruct DEF Expression, c
  <2> QED
    BY <2>1 DEF New, c
<1>13. o[hi + 1] = c /\ \A i \in lo .. hi : o[i] = open[i]
  <2>1. open \in Seq(Construct) /\ hi = Len(open)
    BY DEF Typed, OpenOK, hi
  <2> QED
    BY <1>1, <1>3, <1>12, <2>1
<1> HIDE DEF o
<1>14. Part(u, o, lo, hi + 1)
  <2>1. W = Anchors(open, lo, hi) /\ c.kind \in {"for", "forin"}
    BY <1>12 DEF W
  <2> QED
    BY <1>3, <1>10, <1>12, <1>13, <2>1, NewLoop
<1>15. c.kind \notin Functional
  BY <1>12 DEF Functional
<1> QED
  BY <1>1, <1>2, <1>11, <1>12, <1>14, <1>15, TopStepPush DEF lo, hi, o

\* A loop whose condition has been emitted, with the jump out of it.
LEMMA BodyHeld ==
  ASSUME NEW u, NEW o, NEW lo, NEW hi, NEW W, NEW h, Lies(u, o, lo, hi, W, h), lo <= hi,
         NEW c, o[hi] = c, c.kind \in {"for", "forin"},
         NEW d, AnchorHeld(u, d), d.kind = "body", d.start = c.start,
         d.breaks = c.breaks, d.continues = c.continues, c.start <= d.pos
  PROVE  Held(u, d)
<1>1. lo \in Nat /\ hi \in Nat /\ Frame(u, o, lo, hi, W)
  BY LiesFacts
<1>2. hi \in lo .. hi
  BY <1>1
<1>3. LoopHeld(u, c)
  BY <1>1, <1>2 DEF Frame, Held, LoopKind
<1>4. LoopHeld(u, d)
  BY <1>3 DEF LoopHeld, Unpatched
<1> QED
  BY <1>4 DEF Held

\* The start of the loop that is open last is not after the end of the code.
LEMMA StartBound ==
  ASSUME NEW u, NEW o, NEW lo, NEW hi, NEW W, NEW h, Lies(u, o, lo, hi, W, h), lo <= hi,
         o[hi].kind \in LoopKind
  PROVE  o[hi].start \in Nat /\ Size(u) \in Nat /\ o[hi].start <= Size(u)
<1>1. lo \in Nat /\ hi \in Nat /\ Frame(u, o, lo, hi, W) /\ u \in Unit /\ Layout(u)
      /\ \A i \in lo .. hi : o[i] \in Construct
  BY LiesFacts
<1>2. hi \in lo .. hi
  BY <1>1
<1>3. LoopHeld(u, o[hi]) /\ o[hi].start \in Nat
  BY <1>1, <1>2, ConstructFacts DEF Frame, Held
<1>4. o[hi].start \in Starts(u) \cup {Size(u)}
  BY <1>3 DEF LoopHeld
<1>5. Size(u) \in Nat /\ \A p \in Starts(u) : p < Size(u)
  BY <1>1, UnitFacts DEF Layout
<1> QED
  BY <1>3, <1>4, <1>5

\* The jump out of a loop.
LEMMA ShapedBeginBody ==
  ASSUME Typed, Shaped, BeginBody
  PROVE  Shaped'
<1> PICK base : Shape(base)
  BY DEF Shaped
<1> DEFINE lo == base[Len(units)]
           hi == Len(open)
           c == [top EXCEPT !.kind = "body", !.pending = 0, !.pos = Size(inst)]
           i == <<"JNZ", 0>>
           W == Anchors(open, lo, hi)
           W2 == W \cup {Size(inst)}
<1>1. open # <<>> /\ top.kind = "for" /\ top.pending = 1 /\ Emit(<<i>>) /\ SetTop(c)
  BY DEF BeginBody, Complete, Top
<1>2. top.kind \notin Functional \cup Logical \cup Anchored /\ top.kind \in LoopKind
  BY <1>1 DEF Functional, Logical, Anchored, LoopKind
<1>3. Lies(inst, open, lo, hi, W, 1)
  BY <1>1, <1>2, LiesTop
<1>4. PICK w : /\ Instruction("JNZ", w) /\ w[1] = 0 /\ Takes("JNZ", w) = 1
               /\ \A u : Emitted(u, i) = Put(u, "JNZ", w)
  BY EmittedJump
<1> DEFINE v == Put(inst, "JNZ", w)
<1>5. lo \in Nat /\ hi \in Nat /\ lo < hi /\ top = open[hi] /\ inst \in Unit /\ Layout(inst)
      /\ Size(inst) \in Nat /\ top \in Construct
  BY <1>1, <1>2, TopPart
<1>6. /\ c \in Construct /\ c.kind = "body" /\ c.pending = 0 /\ c.pos = Size(inst)
      /\ c.start = top.start /\ c.breaks = top.breaks /\ c.continues = top.continues
  BY <1>5, BodyConstruct DEF Construct
<1> HIDE DEF lo, hi, c, i, W, W2, v
<1>7. units' = [units EXCEPT ![Len(units)] = v]
  BY <1>1, <1>4, EmitPut DEF v
<1>8. Lies(v, open, lo, hi, W2, 0) /\ Settled(v)
  <2>1. Takes("JNZ", w) <= 1 /\ 1 - Takes("JNZ", w) = 0 /\ w[1] \in Starts(inst) \cup {0}
    BY <1>4
  <2>2. W \subseteq W2 /\ Size(inst) \in W2
    BY DEF W2
  <2>3. /\ Lies(Put(inst, "JNZ", w), open, lo, hi, W2, 1 - Takes("JNZ", w))
        /\ Settled(Put(inst, "JNZ", w))
    BY <1>3, <1>4, <2>1, <2>2, LiesJump
  <2> QED
    BY <2>1, <2>3 DEF v
<1>9. W2 = Anchors(open, lo, hi - 1) \cup (IF c.kind \in Anchored THEN {c.pos} ELSE {})
  <2>1. W = Anchors(open, lo, hi - 1)
    BY <1>2, <1>5, AnchorsLess DEF W
  <2>2. c.kind \in Anchored
    BY <1>6 DEF Anchored
  <2> QED
    BY <1>6, <2>1, <2>2 DEF W2
<1>10. Held(v, c)
  <2>1. Anchor(c.kind) = "JNZ" /\ c.kind \notin Logical
    BY <1>6 DEF Anchor, Logical
  <2>2. ~inst.chained => inst.height - Takes("JNZ", w) + Gives("JNZ") = 0
    BY <1>3, <1>4, LiesFacts, GivesOne
  <2>3. AnchorHeld(v, c)
    BY <1>4, <1>5, <1>6, <2>1, <2>2, AnchorNew DEF v
  <2>4. c.start <= c.pos
    <3>1. open[hi].start <= Size(inst)
      BY <1>2, <1>3, <1>5, StartBound
    <3> QED
      BY <1>5, <1>6, <3>1
  <2>5. lo <= hi /\ open[hi] = top /\ top.kind \in {"for", "forin"}
    BY <1>1, <1>5
  <2> QED
    BY <1>6, <1>8, <2>3, <2>4, <2>5, BodyHeld
<1>11. c.kind \notin Functional \cup Logical
  BY <1>6 DEF Functional, Logical
<1>12. Lies(v, open, lo, hi, W2, c.pending)
  BY <1>6, <1>8
<1> QED
  BY <1>1, <1>2, <1>6, <1>7, <1>8, <1>9, <1>10, <1>11, <1>12, TurnStep DEF lo, hi

\* A row of instructions that are no jumps: f has the units, g what is on the
\* operand stack.
Row(f, is, g, a, n) ==
  \A k \in a + 1 .. n :
    /\ f[k] = Emitted(f[k - 1], is[k])
    /\ \E t, d : Adds(is[k], t, d) /\ t <= g[k - 1] /\ g[k - 1] - t + d = g[k]

LEMMA LiesRow ==
  ASSUME NEW o, NEW lo, NEW hi, NEW W, NEW a \in Nat, NEW n \in Nat, NEW f, NEW is, NEW g,
         Lies(f[a], o, lo, hi, W, g[a]),
         Row(f, is, g, a, n)
  PROVE  \A k \in a .. n : /\ Lies(f[k], o, lo, hi, W, g[k]) /\ f[k].chained = f[a].chained
                           /\ k > a => Settled(f[k])
                           /\ \A c \in Construct : AnchorHeld(f[a], c) => AnchorHeld(f[k], c)
<1> DEFINE P(k) == a <= k /\ k <= n =>
                     /\ Lies(f[k], o, lo, hi, W, g[k]) /\ f[k].chained = f[a].chained
                     /\ k > a => Settled(f[k])
                     /\ \A c \in Construct : AnchorHeld(f[a], c) => AnchorHeld(f[k], c)
<1>1. P(a)
  OBVIOUS
<1>2. \A k \in Nat : a <= k /\ P(k) => P(k + 1)
  <2> SUFFICES ASSUME NEW k \in Nat, a <= k, P(k), k + 1 <= n PROVE P(k + 1)
    OBVIOUS
  <2>1. k + 1 \in a + 1 .. n /\ k <= n /\ (k + 1) - 1 = k /\ k + 1 > a
    OBVIOUS
  <2>2. f[k + 1] = Emitted(f[k], is[k + 1])
    BY <2>1 DEF Row
  <2>3. PICK t, d : Adds(is[k + 1], t, d) /\ t <= g[k] /\ g[k] - t + d = g[k + 1]
    BY <2>1 DEF Row
  <2>4. /\ Lies(f[k], o, lo, hi, W, g[k]) /\ f[k].chained = f[a].chained
        /\ \A c \in Construct : AnchorHeld(f[a], c) => AnchorHeld(f[k], c)
    BY <2>1
  <2> HIDE DEF P
  <2>5. /\ Lies(Emitted(f[k], is[k + 1]), o, lo, hi, W, g[k] - t + d)
        /\ Settled(Emitted(f[k], is[k + 1]))
        /\ Emitted(f[k], is[k + 1]).chained = f[k].chained
        /\ \A c \in Construct : AnchorHeld(f[k], c) => AnchorHeld(Emitted(f[k], is[k + 1]), c)
    BY <2>3, <2>4, LiesAdds
  <2> QED
    BY <2>2, <2>3, <2>4, <2>5 DEF P
<1> HIDE DEF P
<1>3. \A k \in a .. n : P(k)
  <2> SUFFICES ASSUME NEW j \in a .. n, ~P(j) PROVE FALSE
    OBVIOUS
  <2> DEFINE S == {k \in a .. n : ~P(k)}
  <2>1. PICK m \in S : \A k \in S : m <= k
    <3>1. S \in SUBSET Nat /\ S # {}
      OBVIOUS
    <3> HIDE DEF S
    <3> QED
      BY <3>1, Least
  <2>2. m \in a .. n /\ m # a /\ m - 1 \in a .. n /\ m - 1 \notin S
    BY <1>1, <2>1
  <2>3. P(m - 1) /\ m - 1 \in Nat /\ a <= m - 1 /\ (m - 1) + 1 = m
    BY <2>2
  <2> QED
    BY <1>2, <2>1, <2>3
<1> QED
  BY <1>3 DEF P

\* The test and the first steps of the body of a loop over a container.
LEMMA ShapedBeginBodyIn ==
  ASSUME Typed, Shaped, BeginBodyIn
  PROVE  Shaped'
<1> PICK base : Shape(base)
  BY DEF Shaped
<1> DEFINE jump == <<"JNZ", 0>>
           one == <<"CONST_", constants>>
           drop == <<"POP">>
           size == <<"SIZE">>
           more == <<"GT">>
           add == <<"ADD">>
           index == <<"INDEX", 1>>
           S == {jump, one, drop, size, more, add, index, Load, Store}
           is == <<Store, size, Load, more>>
           js == <<jump, Load, Load, index, Store, drop, one, Load, add, Store, drop>>
           test == EmittedAll(inst, is)
           v == EmittedAll(test, js)
           lo == base[Len(units)]
           hi == Len(open)
           c == [top EXCEPT !.kind = "body", !.pending = 0, !.pos = Size(test)]
           W == Anchors(open, lo, hi)
           W2 == W \cup {Size(test)}
<1>1. open # <<>> /\ top.kind = "forin" /\ top.pending = 1 /\ SetTop(c)
      /\ units' = [units EXCEPT ![Len(units)] = v]
  BY DEF BeginBodyIn, Complete, Top, SetInst
<1>2. top.kind \notin Functional \cup Logical \cup Anchored /\ top.kind \in LoopKind
  BY <1>1 DEF Functional, Logical, Anchored, LoopKind
<1>3. Lies(inst, open, lo, hi, W, 1)
  BY <1>1, <1>2, LiesTop
<1>4. lo \in Nat /\ hi \in Nat /\ lo < hi /\ top = open[hi] /\ top \in Construct
  BY <1>1, <1>2, TopPart
<1>5. /\ Adds(one, 0, 1) /\ Adds(Store, 1, 1) /\ Adds(drop, 1, 0) /\ Adds(Load, 0, 1)
      /\ Adds(size, 1, 1) /\ Adds(more, 2, 1) /\ Adds(add, 2, 1) /\ Adds(index, 2, 1)
  BY AddsFacts DEF Typed
<1>6. /\ is \in Seq(S) /\ Len(is) = 4
      /\ is[1] = Store /\ is[2] = size /\ is[3] = Load /\ is[4] = more
  OBVIOUS
<1>7. /\ js \in Seq(S) /\ Len(js) = 11 /\ js[1] = jump /\ js[2] = Load /\ js[3] = Load
      /\ js[4] = index /\ js[5] = Store /\ js[6] = drop /\ js[7] = one /\ js[8] = Load
      /\ js[9] = add /\ js[10] = Store /\ js[11] = drop
  OBVIOUS
<1>8. PICK w : /\ Instruction("JNZ", w) /\ w[1] = 0 /\ Takes("JNZ", w) = 1
               /\ \A u : Emitted(u, jump) = Put(u, "JNZ", w)
  BY EmittedJump
<1> HIDE DEF jump, one, drop, size, more, add, index, S, is, js, lo, hi, W, W2, test, v, c
<1>9. Lies(test, open, lo, hi, W, 1)
  <2> DEFINE g == [k \in 0 .. 4 |-> IF k = 3 THEN 2 ELSE 1]
  <2>1. PICK f : /\ f[0] = inst
                 /\ \A k \in 1 .. Len(is) : f[k] = Emitted(f[k - 1], is[k])
                 /\ test = f[Len(is)]
    <3>1. is \in Seq(S)
      BY <1>6
    <3> QED
      BY <3>1, EmittedSteps DEF test
  <2>2. g[0] = 1 /\ g[1] = 1 /\ g[2] = 1 /\ g[3] = 2 /\ g[4] = 1
    OBVIOUS
  <2> HIDE DEF g
  <2>3. Row(f, is, g, 0, 4)
    <3> SUFFICES ASSUME NEW k \in 1 .. 4
                 PROVE \E t, d : Adds(is[k], t, d) /\ t <= g[k - 1] /\ g[k - 1] - t + d = g[k]
      BY <1>6, <2>1 DEF Row
    <3>1. CASE k = 1
      BY <1>5, <1>6, <2>2, <3>1
    <3>2. CASE k = 2
      BY <1>5, <1>6, <2>2, <3>2
    <3>3. CASE k = 3
      BY <1>5, <1>6, <2>2, <3>3
    <3>4. CASE k = 4
      BY <1>5, <1>6, <2>2, <3>4
    <3> QED
      BY <3>1, <3>2, <3>3, <3>4
  <2>4. Lies(f[0], open, lo, hi, W, g[0])
    BY <1>3, <2>1, <2>2
  <2>5. \A k \in 0 .. 4 : Lies(f[k], open, lo, hi, W, g[k])
    BY <2>3, <2>4, LiesRow
  <2> QED
    BY <1>6, <2>1, <2>2, <2>5
<1>10. test \in Unit /\ Layout(test) /\ Size(test) \in Nat /\ (~test.chained => test.height = 1)
  BY <1>9, LiesFacts, UnitFacts
<1>11. /\ c \in Construct /\ c.kind = "body" /\ c.pending = 0 /\ c.pos = Size(test)
       /\ c.start = top.start /\ c.breaks = top.breaks /\ c.continues = top.continues
  BY <1>4, <1>10, BodyConstruct DEF Construct, c
<1>12. c.start <= c.pos
  <2>1. open[hi].start <= Size(test)
    BY <1>2, <1>4, <1>9, StartBound
  <2> QED
    BY <1>4, <1>11, <2>1
<1> DEFINE u == Put(test, "JNZ", w)
<1>13. Lies(u, open, lo, hi, W2, 0)
  <2>1. Takes("JNZ", w) <= 1 /\ 1 - Takes("JNZ", w) = 0 /\ w[1] \in Starts(test) \cup {0}
    BY <1>8
  <2>2. W \subseteq W2 /\ Size(test) \in W2
    BY DEF W2
  <2>3. Lies(Put(test, "JNZ", w), open, lo, hi, W2, 1 - Takes("JNZ", w))
    BY <1>8, <1>9, <2>1, <2>2, LiesJump
  <2> QED
    BY <2>1, <2>3
<1>14. AnchorHeld(u, c)
  <2>1. Anchor(c.kind) = "JNZ" /\ c.kind \notin Logical
    BY <1>11 DEF Anchor, Logical
  <2>2. ~test.chained => test.height - Takes("JNZ", w) + Gives("JNZ") = 0
    BY <1>8, <1>10, GivesOne
  <2> QED
    BY <1>8, <1>10, <1>11, <2>1, <2>2, AnchorNew
<1> HIDE DEF u
<1>15. Lies(v, open, lo, hi, W2, 0) /\ Settled(v) /\ AnchorHeld(v, c)
  <2> DEFINE g == [k \in 0 .. 11 |-> IF k \in {1, 6, 11} THEN 0 ELSE IF k \in {3, 8} THEN 2 ELSE 1]
  <2>1. PICK f : /\ f[0] = test
                 /\ \A k \in 1 .. Len(js) : f[k] = Emitted(f[k - 1], js[k])
                 /\ v = f[Len(js)]
    <3>1. js \in Seq(S)
      BY <1>7
    <3> QED
      BY <3>1, EmittedSteps DEF v
  <2>2. f[1] = u
    <3>1. f[1] = Emitted(f[0], js[1])
      BY <1>7, <2>1
    <3> QED
      BY <1>7, <1>8, <2>1, <3>1 DEF u
  <2>3. /\ g[1] = 0 /\ g[2] = 1 /\ g[3] = 2 /\ g[4] = 1 /\ g[5] = 1 /\ g[6] = 0
        /\ g[7] = 1 /\ g[8] = 2 /\ g[9] = 1 /\ g[10] = 1 /\ g[11] = 0
    OBVIOUS
  <2> HIDE DEF g
  <2>4. Row(f, js, g, 1, 11)
    <3> SUFFICES ASSUME NEW k \in 2 .. 11
                 PROVE \E t, d : Adds(js[k], t, d) /\ t <= g[k - 1] /\ g[k - 1] - t + d = g[k]
      BY <1>7, <2>1, SMTT(40) DEF Row
    <3>1. CASE k \in {2, 3, 8}
      BY <1>5, <1>7, <2>3, <3>1
    <3>2. CASE k = 4
      BY <1>5, <1>7, <2>3, <3>2
    <3>3. CASE k \in {5, 10}
      BY <1>5, <1>7, <2>3, <3>3
    <3>4. CASE k \in {6, 11}
      BY <1>5, <1>7, <2>3, <3>4
    <3>5. CASE k = 7
      BY <1>5, <1>7, <2>3, <3>5
    <3>6. CASE k = 9
      BY <1>5, <1>7, <2>3, <3>6
    <3> QED
      BY <3>1, <3>2, <3>3, <3>4, <3>5, <3>6
  <2>5. Lies(f[1], open, lo, hi, W2, g[1])
    BY <1>13, <2>2, <2>3
  <2>6. \A k \in 1 .. 11 : /\ Lies(f[k], open, lo, hi, W2, g[k])
                           /\ k > 1 => Settled(f[k])
                           /\ \A x \in Construct : AnchorHeld(f[1], x) => AnchorHeld(f[k], x)
    BY <2>4, <2>5, LiesRow
  <2>7. /\ Lies(f[11], open, lo, hi, W2, g[11]) /\ Settled(f[11])
        /\ AnchorHeld(f[1], c) => AnchorHeld(f[11], c)
    BY <1>11, <2>6
  <2> QED
    BY <1>7, <1>14, <2>1, <2>2, <2>3, <2>7
<1>16. W2 = Anchors(open, lo, hi - 1) \cup (IF c.kind \in Anchored THEN {c.pos} ELSE {})
  <2>1. W = Anchors(open, lo, hi - 1)
    BY <1>2, <1>4, AnchorsLess DEF W
  <2>2. c.kind \in Anchored
    BY <1>11 DEF Anchored
  <2> QED
    BY <1>11, <2>1, <2>2 DEF W2
<1>17. Held(v, c)
  <2>1. lo <= hi /\ open[hi] = top /\ top.kind \in {"for", "forin"}
    BY <1>1, <1>4
  <2> QED
    BY <1>11, <1>12, <1>15, <2>1, BodyHeld
<1>18. c.kind \notin Functional \cup Logical /\ Lies(v, open, lo, hi, W2, c.pending)
  BY <1>11, <1>15 DEF Functional, Logical
<1> QED
  BY <1>1, <1>2, <1>11, <1>15, <1>16, <1>17, <1>18, TurnStep DEF lo, hi

\* A break or continue is noted in the innermost loop.
LEMMA ShapedBeginJump ==
  ASSUME Typed, Shaped, NEW id \in Exit, BeginJump(id)
  PROVE  Shaped'
<1> PICK base : Shape(base)
  BY DEF Shaped
<1> DEFINE lo == base[Len(units)]
           hi == Len(open)
           i == <<id, 0>>
           b == Size(inst) + 1
           W == Anchors(open, lo, hi)
           m == InnermostLoop
           o == open'
<1>1. InBlock /\ Emit(<<i>>)
  BY DEF BeginJump
<1>2. /\ open # <<>> /\ top.pending = 0 /\ top.kind \in Block /\ top.kind \notin Logical
      /\ (~inst.chained => inst.height = 0)
  BY <1>1, BlockTop
<1>3. /\ lo \in Nat \ {0} /\ hi \in Nat \ {0} /\ lo <= hi /\ top = open[hi] /\ inst \in Unit
      /\ Layout(inst) /\ Size(inst) \in Nat
      /\ Loops = {j \in lo .. hi : open[j].kind \in LoopKind}
      /\ open[lo].kind \in Functional
      /\ \A j \in lo + 1 .. hi : open[j].kind \notin Functional
  BY <1>2, TopPart
<1>4. Lies(inst, open, lo, hi, W, 0)
  BY <1>2, LiesTop
<1>5. /\ id \in {"JMP", "JNZ", "BREAK", "CONTINUE"} /\ id \notin Short /\ id # "JNZ"
      /\ Reads(id) = 1
  BY InstructionSizes DEF Exit, Short
<1>6. PICK w : /\ Instruction(id, w) /\ w[1] = 0 /\ Takes(id, w) = 0
               /\ \A u : Emitted(u, i) = Put(u, id, w)
  BY <1>5, EmittedJump
<1> DEFINE v == Put(inst, id, w)
<1>7. \A j \in lo .. hi : open[j].kind \in LoopKind => open[j].start < Size(inst)
  BY <1>1, LoopsBefore
<1>8. /\ open \in Seq(Construct) /\ o \in Seq(Construct) /\ DOMAIN open = 1 .. hi /\ hi = Len(open)
  BY TypedBeginJump DEF Typed, OpenOK
<1>9. \/ Loops = {} /\ o = open
      \/ /\ Loops # {}
         /\ o = [open EXCEPT ![m] =
              IF id = "BREAK" THEN [open[m] EXCEPT !.breaks = @ \cup {b}]
                              ELSE [open[m] EXCEPT !.continues = @ \cup {b}]]
  BY DEF BeginJump
<1>10. Loops # {} => m \in Loops /\ \A h \in Loops : h <= m
  BY <1>8, InnermostIs
<1> HIDE DEF lo, hi, i, b, W, m, o, v
<1>11. units' = [units EXCEPT ![Len(units)] = v]
  BY <1>1, <1>6, EmitPut DEF v
<1>12. /\ Lies(v, open, lo, hi, W, 0) /\ Settled(v) /\ v.chained = inst.chained
  <2>1. Takes(id, w) <= 0 /\ 0 - Takes(id, w) = 0 /\ w[1] \in Starts(inst) \cup {0}
    BY <1>6
  <2>2. /\ Lies(Put(inst, id, w), open, lo, hi, W, 0 - Takes(id, w))
        /\ Settled(Put(inst, id, w)) /\ Put(inst, id, w).chained = inst.chained
    BY <1>4, <1>5, <1>6, <2>1, LiesJump
  <2> QED
    BY <2>1, <2>2 DEF v
<1>13. /\ v \in Unit /\ Frame(v, open, lo, hi, W) /\ (~v.chained => v.height = 0)
       /\ \A j \in lo .. hi : open[j] \in Construct
  BY <1>12, LiesFacts
<1>14. CASE Loops = {}
  <2>1. o = open
    BY <1>9, <1>14
  <2>2. Part(v, open, lo, hi)
    BY <1>2, <1>3, <1>12, <1>13 DEF Part, Total, W
  <2>3. Part(v, o, lo, Len(o)) /\ lo <= Len(o) /\ \A j \in 1 .. lo - 1 : o[j] = open[j]
    BY <1>3, <1>8, <2>1, <2>2
  <2>4. o[lo].kind \in Functional /\ \A j \in lo + 1 .. Len(o) : o[j].kind \notin Functional
    BY <1>3, <1>8, <2>1
  <2> QED
    BY <1>2, <1>8, <1>11, <1>13, <2>3, <2>4, TopStep DEF lo, o
<1>15. CASE Loops # {}
  <2>1. m \in lo .. hi /\ open[m].kind \in LoopKind /\ m \in DOMAIN open
    BY <1>3, <1>8, <1>10, <1>15
  <2>2. \A j \in lo .. hi : open[j].kind \in LoopKind => j <= m
    BY <1>3, <1>10, <1>15
  <2> DEFINE d == IF id = "BREAK" THEN [open[m] EXCEPT !.breaks = @ \cup {b}]
                                  ELSE [open[m] EXCEPT !.continues = @ \cup {b}]
  <2>3. open[m] \in Construct
    BY <1>13, <2>1
  <2>4. /\ d.kind = open[m].kind /\ d.pos = open[m].pos /\ d.start = open[m].start
        /\ d.pending = open[m].pending
        /\ \A x \in d.breaks : x \in open[m].breaks \/ (x = b /\ id = "BREAK")
        /\ \A x \in d.continues : x \in open[m].continues \/ (x = b /\ id = "CONTINUE")
    <3>1. CASE id = "BREAK"
      BY <2>3, <3>1 DEF Construct
    <3>2. CASE id = "CONTINUE"
      BY <2>3, <3>2 DEF Construct
    <3> QED
      BY <3>1, <3>2 DEF Exit
  <2>5. o = [open EXCEPT ![m] = d]
    BY <1>9, <1>15
  <2> HIDE DEF d
  <2>6. /\ o[m] = d /\ \A j \in 1 .. hi : j # m => o[j] = open[j]
        /\ Len(o) = hi
    BY <1>8, <2>1, <2>5
  <2>7. \A j \in lo .. hi : o[j].kind = open[j].kind /\ o[j].pos = open[j].pos /\ o[j].pending = open[j].pending
    BY <1>3, <2>4, <2>6
  <2>8. /\ Extends(inst, id, w, v) /\ Starts(v) = Starts(inst) \cup {Size(inst)}
        /\ IdAt(v, Size(inst)) = id
        /\ \A s \in Range(v.sites) : s.pos = Size(inst) => s.height = inst.height
    BY <1>3, <1>6, PutFacts DEF v
  <2>9. b \in Nat /\ b - 1 = Size(inst) /\ b - 1 \in Starts(v) /\ IdAt(v, b - 1) = id
    BY <1>3, <2>8 DEF b
  <2>10. b > open[m].start
    <3>1. open[m].start < Size(inst) /\ open[m].start \in Nat
      BY <1>7, <2>1, <2>3, ConstructFacts
    <3> QED
      BY <1>3, <3>1 DEF b
  <2>11. At(v.code, b) = 0
    <3>1. At(v.code, Size(inst) + 1) = w[1]
      BY <1>5, <2>8 DEF Extends
    <3> QED
      BY <1>6, <3>1 DEF b
  <2>12. ~v.chained => \A s \in Range(v.sites) : s.pos + 1 = b => s.height = 0
    <3> SUFFICES ASSUME ~v.chained, NEW s \in Range(v.sites), s.pos + 1 = b PROVE s.height = 0
      OBVIOUS
    <3>1. s.pos \in Nat
      BY <1>13, UnitFacts
    <3>2. s.pos = Size(inst)
      BY <1>3, <3>1 DEF b
    <3> QED
      BY <1>2, <1>12, <2>8, <3>2
  <2>13. Frame(v, o, lo, hi, W)
    <3>1. \A j \in lo .. hi : j # m => o[j] = open[j]
      BY <1>3, <2>6
    <3>2. /\ o[m].kind = open[m].kind /\ o[m].pos = open[m].pos /\ o[m].start = open[m].start
          /\ o[m].pending = open[m].pending
      BY <2>4, <2>6
    <3>3. /\ \A x \in o[m].breaks : x \in open[m].breaks \/ (x = b /\ IdAt(v, b - 1) = "BREAK")
          /\ \A x \in o[m].continues : x \in open[m].continues \/ (x = b /\ IdAt(v, b - 1) = "CONTINUE")
      BY <2>4, <2>6, <2>9
    <3> QED
      BY <1>3, <1>13, <2>1, <2>2, <2>9, <2>10, <2>11, <2>12, <3>1, <3>2, <3>3, FrameNoted
  <2>14. Anchors(o, lo, hi) = W
    BY <2>7, AnchorsSame DEF W
  <2>15. Part(v, o, lo, hi)
    <3>1. o[hi].kind \notin Logical /\ o[hi].pending = 0
      BY <1>2, <1>3, <2>7
    <3> QED
      BY <1>12, <1>13, <2>13, <2>14, <3>1 DEF Part, Total
  <2>16. /\ \A j \in 1 .. lo - 1 : o[j] = open[j]
         /\ o[lo].kind \in Functional /\ \A j \in lo + 1 .. hi : o[j].kind \notin Functional
    BY <1>3, <2>1, <2>6, <2>7
  <2>17. lo <= Len(o) /\ Part(v, o, lo, Len(o)) /\ \A j \in lo + 1 .. Len(o) : o[j].kind \notin Functional
    BY <1>3, <2>6, <2>15, <2>16
  <2> QED
    BY <1>2, <1>8, <1>11, <1>13, <2>16, <2>17, TopStep DEF lo, o
<1> QED
  BY <1>14, <1>15

\* What patch_loop patches of a loop.
LEMMA LoopTop ==
  ASSUME NEW u, NEW o, NEW lo, NEW hi, NEW W, NEW h, Lies(u, o, lo, hi, W, h), lo <= hi,
         NEW c, o[hi] = c, c.kind = "body"
  PROVE  /\ Held(u, c) /\ LoopHeld(u, c) /\ AnchorHeld(u, c) /\ c \in Construct
         /\ c.kind \in LoopKind /\ c.start \in Nat /\ c.start \in Starts(u)
<1>1. /\ lo \in Nat /\ hi \in Nat /\ Frame(u, o, lo, hi, W) /\ u \in Unit /\ Layout(u)
      /\ \A i \in lo .. hi : o[i] \in Construct
  BY LiesFacts
<1>2. hi \in lo .. hi
  BY <1>1
<1>3. c \in Construct /\ Held(u, c) /\ c.kind \in LoopKind /\ c.kind \in Anchored
  BY <1>1, <1>2 DEF Frame, LoopKind, Anchored
<1>4. LoopHeld(u, c) /\ AnchorHeld(u, c) /\ c.start \in Nat
  BY <1>3, ConstructFacts DEF Held
<1>5. c.start \in Starts(u)
  <2>1. c.start \in Starts(u) \cup {Size(u)}
    BY <1>4 DEF LoopHeld
  <2>2. c.start < Size(u) /\ Size(u) \in Nat
    BY <1>1, <1>3, BodyStart, UnitFacts
  <2> QED
    BY <1>4, <2>1, <2>2
<1> QED
  BY <1>3, <1>4, <1>5

LEMMA LoopScan ==
  ASSUME NEW u, NEW o, NEW lo, NEW hi, NEW W, NEW h, Lies(u, o, lo, hi, W, h), lo <= hi,
         NEW c, o[hi] = c, c.kind = "body", NEW to, NEW pos, NEW v, NEW D,
         Patching(u, v, c.start, to, pos, D)
  PROVE  /\ Repatched(u, v, D) /\ \A p \in D : At(v.code, p + 1) = pos
         /\ \A p \in D : p \notin Tied(u, W)
         /\ \A i \in lo .. hi - 1 : o[i].kind \in LoopKind =>
              \A b \in o[i].breaks \cup o[i].continues : b - 1 \notin D
<1>1. /\ lo \in Nat /\ hi \in Nat /\ Frame(u, o, lo, hi, W) /\ u \in Unit /\ Layout(u)
      /\ \A i \in lo .. hi : o[i] \in Construct
  BY LiesFacts
<1>2. hi \in lo .. hi
  BY <1>1
<1>3. c \in Construct /\ Held(u, c) /\ c.kind \in LoopKind
  BY LoopTop
<1>4. LoopHeld(u, c) /\ c.start \in Nat
  BY LoopTop
<1>5. c.start \in Starts(u)
  BY LoopTop
<1>6. Seen(u.code, c.start) = {p \in Starts(u) : p >= c.start}
  <2>1. \A p \in Starts(u) : p >= c.start => IdAt(u, p) \notin {"PACK", "MAP", "CHK"}
    BY <1>4 DEF LoopHeld
  <2> QED
    BY <1>1, <1>5, <2>1, SeenIs
<1>7. Repatched(u, v, D) /\ \A p \in D : At(v.code, p + 1) = pos
  <2>1. u \in Unit /\ Layout(u) /\ c.start \in Nat
    BY <1>1, <1>4
  <2> QED
    BY <1>6, <2>1, ScanIs
<1>8. \A p \in D : /\ p \in Nat /\ p >= c.start /\ p \in Starts(u) /\ IdAt(u, p) = to
                   /\ At(u.code, p + 1) = 0
  BY <1>1, UnitFacts DEF Patching
<1>9. \A p \in D : p \notin Tied(u, W)
  <2> SUFFICES ASSUME NEW p \in D, p \in Tied(u, W) PROVE FALSE
    OBVIOUS
  <2>1. IdAt(u, p) \notin Short
    BY <1>8 DEF Exit, Short, Patching
  <2>2. PICK g \in u.goals : g.at = p + 1
    BY <2>1 DEF Tied
  <2>3. At(u.code, g.at) = g.target
    BY <1>1 DEF Frame, Laid, GoalsMet
  <2>4. g.target = 0
    BY <1>8, <2>2, <2>3
  <2>5. g.at < c.start
    BY <1>4, <2>4 DEF LoopHeld
  <2> QED
    BY <1>4, <1>8, <2>2, <2>5
<1>10. \A i \in lo .. hi - 1 : o[i].kind \in LoopKind =>
         \A b \in o[i].breaks \cup o[i].continues : b - 1 \notin D
  <2> SUFFICES ASSUME NEW i \in lo .. hi - 1, o[i].kind \in LoopKind,
                      NEW b \in o[i].breaks \cup o[i].continues
               PROVE  b - 1 \notin D
    OBVIOUS
  <2>1. i \in lo .. hi /\ i < hi
    BY <1>1
  <2>2. b < o[hi].start
    BY <1>1, <1>2, <1>3, <2>1 DEF Frame
  <2>3. b \in Nat
    BY <1>1, <2>1, ConstructFacts
  <2>4. ~(b - 1 >= c.start)
    BY <1>4, <2>2, <2>3
  <2> QED
    BY <1>8, <2>4
<1> QED
  BY <1>7, <1>9, <1>10

\* The continue statements of a loop may be forgotten.
LEMMA FrameForgot ==
  ASSUME NEW u \in Unit, NEW W, NEW o, NEW lo \in Nat, NEW hi \in Nat, lo <= hi,
         Frame(u, o, lo, hi, W), o[hi].kind \in LoopKind, o[hi] \in Construct,
         NEW o2, \A i \in lo .. hi - 1 : o2[i] = o[i],
         o2[hi].kind = o[hi].kind, o2[hi].pos = o[hi].pos, o2[hi].start = o[hi].start,
         o2[hi].pending = o[hi].pending, o2[hi].breaks = o[hi].breaks, o2[hi].continues = {}
  PROVE  Frame(u, o2, lo, hi, W)
<1>1. CASE o[hi].continues = {}
  <2>1. Alike(o[hi], o2[hi])
    BY <1>1 DEF Alike
  <2> QED
    BY <2>1, FrameSame
<1>2. CASE o[hi].continues # {}
  <2> DEFINE m == hi
  <2>1. PICK b \in o[hi].continues : TRUE
    BY <1>2
  <2>2. m \in lo .. hi /\ o[m].kind \in LoopKind /\ LoopHeld(u, o[m])
    BY DEF Frame, Held
  <2>3. b \in Nat
    BY <2>1, ConstructFacts
  <2>4. b - 1 \in Starts(u) /\ b > o[m].start /\ At(u.code, b) = 0
    BY <2>1, <2>2 DEF LoopHeld, Unpatched
  <2>5. ~u.chained => \A s \in Range(u.sites) : s.pos + 1 = b => s.height = 0
    BY <2>1, <2>2 DEF LoopHeld
  <2>6. /\ \A i \in lo .. hi : i # m => o2[i] = o[i]
        /\ \A j \in lo .. hi : o[j].kind \in LoopKind => j <= m
    OBVIOUS
  <2>7. /\ o2[m].kind = o[m].kind /\ o2[m].pos = o[m].pos /\ o2[m].start = o[m].start
        /\ o2[m].pending = o[m].pending
        /\ \A x \in o2[m].breaks : x \in o[m].breaks \/ (x = b /\ IdAt(u, b - 1) = "BREAK")
        /\ \A x \in o2[m].continues : x \in o[m].continues \/ (x = b /\ IdAt(u, b - 1) = "CONTINUE")
    OBVIOUS
  <2> HIDE DEF m
  <2> QED
    BY <2>2, <2>3, <2>4, <2>5, <2>6, <2>7, FrameNoted
<1> QED
  BY <1>1, <1>2

\* The continue statements of a loop that ends go to its start.
Forgot(c, d) == d = [c EXCEPT !.continues = {}]

Continuing(u, o, lo, hi, W, c, v, D, o2, d) ==
  /\ Lies(u, o, lo, hi, W, 0) /\ lo <= hi /\ o[hi] = c /\ c.kind = "body"
  /\ Patching(u, v, c.start, "CONTINUE", c.start, D)
  /\ \A i \in lo .. hi - 1 : o2[i] = o[i]
  /\ o2[hi] = d /\ Forgot(c, d)

LEMMA ContinuesPatched ==
  ASSUME NEW u, NEW o, NEW lo, NEW hi, NEW W, NEW c, NEW v, NEW D, NEW o2, NEW d,
         Continuing(u, o, lo, hi, W, c, v, D, o2, d)
  PROVE  /\ Lies(v, o2, lo, hi, W, 0) /\ v.chained = u.chained /\ v.goals = u.goals
         /\ Size(v) = Size(u)
         /\ \A b \in c.continues : /\ b \in Nat /\ b - 1 \in Starts(v)
                                   /\ IdAt(v, b - 1) = "CONTINUE" /\ At(v.code, b) = c.start
                                   /\ ~v.chained => Level(v, b - 1, 0)
<1>0. /\ Lies(u, o, lo, hi, W, 0) /\ lo <= hi /\ o[hi] = c /\ c.kind = "body"
      /\ Patching(u, v, c.start, "CONTINUE", c.start, D)
      /\ \A i \in lo .. hi - 1 : o2[i] = o[i]
      /\ o2[hi] = d /\ Forgot(c, d)
  BY DEF Continuing
<1> USE <1>0
<1>1. /\ lo \in Nat /\ hi \in Nat /\ Frame(u, o, lo, hi, W) /\ u \in Unit /\ Layout(u)
      /\ (~u.chained => u.height = 0)
      /\ \A i \in lo .. hi : o[i] \in Construct
  BY LiesFacts
<1>2. hi \in lo .. hi /\ c.kind \in LoopKind
  BY <1>1 DEF LoopKind
<1>3. /\ Held(u, c) /\ LoopHeld(u, c) /\ c \in Construct /\ c.start \in Nat /\ c.start \in Starts(u)
  BY LoopTop
<1>4. /\ Repatched(u, v, D) /\ \A p \in D : At(v.code, p + 1) = c.start
      /\ \A p \in D : p \notin Tied(u, W)
      /\ \A i \in lo .. hi - 1 : o[i].kind \in LoopKind =>
           \A b \in o[i].breaks \cup o[i].continues : b - 1 \notin D
  BY LoopScan
<1>5. /\ d \in Construct /\ d.kind = c.kind /\ d.pos = c.pos /\ d.start = c.start
      /\ d.pending = c.pending /\ d.breaks = c.breaks /\ d.continues = {}
  BY <1>3 DEF Construct, Forgot
<1>6. \A b \in c.continues : /\ b \in Nat /\ b - 1 \in Starts(u) /\ b > c.start
                             /\ IdAt(u, b - 1) = "CONTINUE" /\ At(u.code, b) = 0
                             /\ (~u.chained => \A s \in Range(u.sites) : s.pos + 1 = b => s.height = 0)
  <2>1. c.continues \subseteq Nat
    BY <1>3, ConstructFacts
  <2> QED
    BY <1>3, <2>1 DEF LoopHeld, Unpatched
<1>7. Frame(u, o2, lo, hi, W)
  <2>1. o2[hi] = d
    OBVIOUS
  <2> QED
    BY <1>1, <1>2, <1>3, <1>5, <2>1, FrameForgot
<1>8. \A i \in lo .. hi : o2[i] \in Construct
  <2>1. \A i \in lo .. hi : i = hi \/ i \in lo .. hi - 1
    BY <1>1
  <2> QED
    BY <1>1, <1>5, <2>1
<1>9. \A i \in lo .. hi : o2[i].kind \in LoopKind =>
        \A b \in o2[i].breaks \cup o2[i].continues : b - 1 \notin D
  <2> SUFFICES ASSUME NEW i \in lo .. hi, o2[i].kind \in LoopKind,
                      NEW b \in o2[i].breaks \cup o2[i].continues
               PROVE  b - 1 \notin D
    OBVIOUS
  <2>1. CASE i \in lo .. hi - 1
    BY <1>4, <2>1
  <2>2. CASE i = hi
    <3>1. b \in c.breaks
      BY <1>5, <2>2
    <3>2. IdAt(u, b - 1) = "BREAK"
      BY <1>3, <3>1 DEF LoopHeld, Unpatched
    <3> QED
      BY <3>2 DEF Patching
  <2> QED
    BY <1>1, <2>1, <2>2
<1>10. Frame(v, o2, lo, hi, W)
  BY <1>1, <1>4, <1>7, <1>8, <1>9, FrameKept
<1>11. /\ v \in Unit /\ Size(v) = Size(u) /\ v.chained = u.chained /\ v.goals = u.goals
       /\ v.height = u.height /\ v.sites = u.sites
  BY <1>4 DEF Repatched
<1>12. Lies(v, o2, lo, hi, W, 0)
  BY <1>1, <1>8, <1>10, <1>11 DEF Lies
<1>13. \A b \in c.continues : /\ b \in Nat /\ b - 1 \in Starts(v)
                              /\ IdAt(v, b - 1) = "CONTINUE" /\ At(v.code, b) = c.start
                              /\ ~v.chained => Level(v, b - 1, 0)
  <2> SUFFICES ASSUME NEW b \in c.continues
               PROVE  /\ b \in Nat /\ b - 1 \in Starts(v)
                      /\ IdAt(v, b - 1) = "CONTINUE" /\ At(v.code, b) = c.start
                      /\ ~v.chained => Level(v, b - 1, 0)
    OBVIOUS
  <2>1. b \in Nat /\ b - 1 \in Starts(u) /\ IdAt(u, b - 1) = "CONTINUE" /\ b > c.start
        /\ At(u.code, b) = 0
    BY <1>6
  <2>2. b - 1 \in Nat /\ b - 1 >= c.start /\ (b - 1) + 1 = b /\ b - 1 < Size(u)
    BY <1>1, <1>3, <2>1, UnitFacts DEF Layout
  <2>3. b - 1 \in D
    BY <2>1, <2>2 DEF Patching
  <2>4. At(v.code, b) = c.start
    BY <1>4, <2>2, <2>3
  <2>5. b - 1 \in Starts(v) /\ IdAt(v, b - 1) = "CONTINUE"
    BY <1>1, <1>4, <2>1, RepatchedKeeps
  <2>6. ~v.chained => Level(u, b - 1, 0)
    <3> SUFFICES ASSUME ~u.chained PROVE Level(u, b - 1, 0)
      BY <1>11
    <3>1. \A s \in Range(u.sites) : s.pos = b - 1 => s.height = 0
      <4>1. \A s \in Range(u.sites) : s.pos + 1 = b => s.height = 0
        BY <1>6
      <4> QED
        BY <2>2, <4>1
    <3>2. b - 1 # Size(u)
      BY <1>1, <2>2, UnitFacts
    <3> QED
      BY <3>1, <3>2 DEF Level
  <2> QED
    BY <1>4, <2>1, <2>4, <2>5, <2>6, RepatchedLevel
<1> QED
  BY <1>11, <1>12, <1>13

\* The jump back to the start of a loop, and the exit of the loop.
Closed(u, c, u2, v) ==
  /\ u2 = Emitted(u, <<"JMP", c.start>>)
  /\ v = Patched(EmittedAll(u2, << <<"CONST_NULL">>, <<"POP">> >>), c.pos + 1, Size(u2))

LEMMA LoopJump ==
  ASSUME NEW u, NEW o, NEW lo, NEW hi, NEW W, Lies(u, o, lo, hi, W, 0), lo <= hi,
         NEW c, o[hi] = c, c.kind = "body",
         NEW w, Instruction("JMP", w), w[1] = c.start, Takes("JMP", w) = 0
  PROVE  /\ Lies(Put(u, "JMP", w), o, lo, hi, W, 0) /\ Put(u, "JMP", w).chained = u.chained
         /\ Put(u, "JMP", w).goals = u.goals
         /\ Size(Put(u, "JMP", w)) \in Nat /\ Size(Put(u, "JMP", w)) > 0
         /\ \A p \in Jumping(u) : /\ p \in Jumping(Put(u, "JMP", w))
                                  /\ IdAt(Put(u, "JMP", w), p) = IdAt(u, p)
                                  /\ Target(Put(u, "JMP", w), p) = Target(u, p)
         /\ \A q \in Starts(u) : /\ q \in Starts(Put(u, "JMP", w))
                                 /\ Level(u, q, 0) => Level(Put(u, "JMP", w), q, 0)
<1> DEFINE v == Put(u, "JMP", w)
           p == Size(u)
           W1 == W \cup {p}
<1>1. c \in Construct /\ c.start \in Nat /\ c.start \in Starts(u) /\ LoopHeld(u, c)
  BY LoopTop
<1>2. /\ u \in Unit /\ Layout(u) /\ lo \in Nat /\ hi \in Nat /\ (~u.chained => u.height = 0)
  BY LiesFacts
<1>3. /\ v \in Unit /\ Extends(u, "JMP", w, v) /\ Layout(v) /\ v.chained = u.chained
      /\ v.goals = u.goals /\ Size(v) \in Nat /\ Size(u) \in Nat /\ Size(u) < Size(v)
      /\ \A s \in Range(v.sites) : s.pos = p => After(v, s) = u.height - Takes("JMP", w) + Gives("JMP")
  BY <1>2, PutFacts
<1> HIDE DEF v, p, W1
<1>4. Lies(v, o, lo, hi, W1, 0) /\ Target(v, p) = c.start
  <2>1. /\ "JMP" \in {"JMP", "JNZ", "BREAK", "CONTINUE"}
        /\ Takes("JMP", w) <= 0 /\ 0 - Takes("JMP", w) = 0 /\ w[1] \in Starts(u) \cup {0}
    BY <1>1
  <2>2. W \subseteq W1 /\ Size(u) \in W1
    BY DEF W1, p
  <2>3. Lies(Put(u, "JMP", w), o, lo, hi, W1, 0 - Takes("JMP", w)) /\ Target(Put(u, "JMP", w), Size(u)) = w[1]
    BY <2>1, <2>2, LiesJump
  <2> QED
    BY <2>1, <2>3 DEF v, p
<1>5. ~v.chained => Level(v, c.start, 0)
  <2>1. LoopHeld(v, c)
    BY <1>4, LoopTop
  <2> QED
    BY <2>1 DEF LoopHeld
<1>6. ~v.chained => \A s \in Range(v.sites) : s.pos = p => Level(v, Target(v, p), After(v, s))
  <2> SUFFICES ASSUME ~v.chained, NEW s \in Range(v.sites), s.pos = p
               PROVE  Level(v, Target(v, p), After(v, s))
    OBVIOUS
  <2>1. u.height = 0 /\ Gives("JMP") = 0
    BY <1>2, <1>3, GivesOne
  <2>2. After(v, s) = 0
    BY <1>3, <2>1
  <2> QED
    BY <1>4, <1>5, <2>2
<1>7. Lies(v, o, lo, hi, W, 0)
  <2>1. /\ Frame(v, o, lo, hi, W1) /\ (~v.chained => v.height = 0)
        /\ \A i \in lo .. hi : o[i] \in Construct
    BY <1>4, LiesFacts
  <2>2. Laid(v, W1)
    BY <2>1 DEF Frame
  <2>3. W1 \subseteq W \cup {p}
    BY DEF W1
  <2>4. Laid(v, W)
    BY <1>3, <1>6, <2>2, <2>3, Tie
  <2>5. Frame(v, o, lo, hi, W)
    BY <2>1, <2>4 DEF Frame
  <2> QED
    BY <1>2, <1>3, <2>1, <2>5 DEF Lies
<1>8. \A q \in Jumping(u) : q \in Jumping(v) /\ IdAt(v, q) = IdAt(u, q) /\ Target(v, q) = Target(u, q)
  <2> SUFFICES ASSUME NEW q \in Jumping(u)
               PROVE  q \in Jumping(v) /\ IdAt(v, q) = IdAt(u, q) /\ Target(v, q) = Target(u, q)
    OBVIOUS
  <2>1. q \in Starts(u) /\ IdAt(u, q) \in Short \cup Exit
    BY DEF Jumping
  <2>2. q \in Starts(v) /\ IdAt(v, q) = IdAt(u, q) /\ Target(v, q) = Target(u, q)
    BY <1>2, <1>3, <2>1, Kept
  <2> QED
    BY <2>1, <2>2 DEF Jumping
<1>9. \A q \in Starts(u) : q \in Starts(v) /\ (Level(u, q, 0) => Level(v, q, 0))
  BY <1>2, <1>3, LevelKept, Kept
<1> QED
  BY <1>3, <1>7, <1>8, <1>9 DEF v

Closing(u, o, lo, hi, W, c, u2, v, W2) ==
  /\ Lies(u, o, lo, hi, W, 0) /\ lo <= hi /\ o[hi] = c /\ c.kind = "body"
  /\ Closed(u, c, u2, v) /\ W \subseteq W2 \cup {c.pos} /\ c.pos \in W

LEMMA LoopClosed ==
  ASSUME NEW u, NEW o, NEW lo, NEW hi, NEW W, NEW c, NEW u2, NEW v, NEW W2,
         Closing(u, o, lo, hi, W, c, u2, v, W2)
  PROVE  /\ Lies(v, o, lo, hi, W2, 0) /\ Settled(v) /\ v.chained = u.chained
         /\ v.goals = u.goals
         /\ Size(u2) \in Nat /\ Size(u2) > 0 /\ Size(u2) \in Starts(v)
         /\ ~v.chained => Level(v, Size(u2), 0)
         /\ \A p \in Jumping(u) : IdAt(u, p) \in Exit =>
              /\ p \in Starts(v) /\ IdAt(v, p) = IdAt(u, p) /\ Target(v, p) = Target(u, p)
              /\ Level(u, p, 0) => Level(v, p, 0)
<1>0. /\ Lies(u, o, lo, hi, W, 0) /\ lo <= hi /\ o[hi] = c /\ c.kind = "body"
      /\ Closed(u, c, u2, v) /\ W \subseteq W2 \cup {c.pos} /\ c.pos \in W
  BY DEF Closing
<1> USE <1>0
<1>1. PICK w : /\ Instruction("JMP", w) /\ w[1] = c.start /\ Takes("JMP", w) = 0
               /\ \A x : Emitted(x, <<"JMP", c.start>>) = Put(x, "JMP", w)
  <2>1. c.start \in Nat
    BY LoopTop
  <2>2. "JMP" \in {"JMP", "JNZ", "BREAK", "CONTINUE"} /\ "JMP" # "JNZ"
    OBVIOUS
  <2> QED
    BY <2>1, <2>2, EmittedJump
<1> DEFINE u3 == EmittedAll(u2, << <<"CONST_NULL">>, <<"POP">> >>)
           q == Size(u2)
<1>2. u2 = Put(u, "JMP", w) /\ v = Patched(u3, c.pos + 1, q)
  BY <1>1 DEF Closed
<1>3. /\ Lies(u2, o, lo, hi, W, 0) /\ u2.chained = u.chained
      /\ u2.goals = u.goals /\ q \in Nat /\ q > 0
      /\ \A p \in Jumping(u) : /\ p \in Jumping(u2) /\ IdAt(u2, p) = IdAt(u, p)
                               /\ Target(u2, p) = Target(u, p)
      /\ \A p \in Starts(u) : p \in Starts(u2) /\ (Level(u, p, 0) => Level(u2, p, 0))
  BY <1>1, <1>2, LoopJump
<1>4. /\ Lies(u3, o, lo, hi, W, 0) /\ Settled(u3) /\ u3.chained = u2.chained
      /\ Starts(u2) \cup {q} \subseteq Starts(u3)
      /\ ~u2.chained => Level(u3, q, 0)
      /\ \A p \in Jumping(u2) : IdAt(u3, p) = IdAt(u2, p) /\ Target(u3, p) = Target(u2, p)
      /\ \A p \in Starts(u2) : Level(u2, p, 0) => Level(u3, p, 0)
      /\ u3.goals = u2.goals
  BY <1>3, NullPop
<1> HIDE DEF u3, q
<1>5. /\ c.pos \in Starts(u3) /\ c.pos \in Nat /\ IdAt(u3, c.pos) = "JNZ"
      /\ Joins(u3, c.pos, q)
  <2>1. c.kind \in Anchored /\ c.kind \notin Logical /\ Anchor(c.kind) = "JNZ"
    BY DEF Anchored, Logical, Anchor
  <2>2. ~u3.chained => Level(u3, q, 0)
    BY <1>4
  <2> QED
    <3>1. Lies(u3, o, lo, hi, W, 0) /\ \A p : (~u3.chained => Level(u3, p, 0)) => Joins(u3, c.pos, p)
      BY <1>4, <2>1, TopAnchor
    <3>2. c.pos \in Starts(u3) /\ c.pos \in Nat /\ IdAt(u3, c.pos) = Anchor(c.kind)
      BY <1>4, <2>1, TopAnchor
    <3> QED
      BY <2>1, <2>2, <3>1, <3>2
<1>6. /\ Lies(v, o, lo, hi, W2, 0) /\ Repatched(u3, v, {c.pos})
      /\ Target(v, c.pos) = q /\ v.chained = u3.chained
  <2>1. q \in Starts(u3) \cup {Size(u3)} /\ IdAt(u3, c.pos) \in {"JMP", "JNZ"}
    BY <1>4, <1>5
  <2> QED
    BY <1>2, <1>4, <1>5, <2>1, LiesPatched
<1>7. u3 \in Unit /\ Layout(u3) /\ u \in Unit /\ Layout(u)
  BY <1>4, LiesFacts
<1>8. Settled(v)
  <2>1. Target(v, c.pos) \in Starts(u3)
    BY <1>4, <1>6
  <2> QED
    BY <1>4, <1>6, <1>7, <2>1, SettledKept
<1>9. Starts(v) = Starts(u3) /\ v.goals = u3.goals
  BY <1>6 DEF Repatched, Starts
<1>10. ~v.chained => Level(v, q, 0)
  BY <1>4, <1>6, RepatchedLevel
<1>11. \A p \in Jumping(u) : IdAt(u, p) \in Exit =>
         /\ p \in Starts(v) /\ IdAt(v, p) = IdAt(u, p) /\ Target(v, p) = Target(u, p)
         /\ Level(u, p, 0) => Level(v, p, 0)
  <2> SUFFICES ASSUME NEW p \in Jumping(u), IdAt(u, p) \in Exit
               PROVE  /\ p \in Starts(v) /\ IdAt(v, p) = IdAt(u, p) /\ Target(v, p) = Target(u, p)
                      /\ Level(u, p, 0) => Level(v, p, 0)
    OBVIOUS
  <2>1. p \in Starts(u) /\ p \in Starts(u2) /\ p \in Starts(u3)
    BY <1>3, <1>4 DEF Jumping
  <2>2. /\ IdAt(u3, p) = IdAt(u, p) /\ Target(u3, p) = Target(u, p)
        /\ Level(u, p, 0) => Level(u3, p, 0)
    BY <1>3, <1>4, <2>1
  <2>3. p # c.pos
    BY <1>5, <2>2 DEF Exit
  <2>4. IdAt(v, p) = IdAt(u3, p) /\ Target(v, p) = Target(u3, p)
    BY <1>6, <1>7, <2>1, <2>2, <2>3, RepatchedKeeps
  <2>5. Level(v, p, 0) <=> Level(u3, p, 0)
    BY <1>6, RepatchedLevel
  <2> QED
    BY <1>9, <2>1, <2>2, <2>4, <2>5
<1>12. Size(u2) \in Nat /\ Size(u2) > 0 /\ Size(u2) \in Starts(v)
  BY <1>3, <1>4, <1>9 DEF q
<1>13. v.chained = u.chained /\ v.goals = u.goals /\ (~v.chained => Level(v, Size(u2), 0))
  BY <1>3, <1>4, <1>6, <1>9, <1>10 DEF q
<1> QED
  BY <1>6, <1>8, <1>11, <1>12, <1>13

\* A break or continue that goes where it should.
Reaches(u, b, t) ==
  /\ b \in Nat /\ t \in Nat /\ b - 1 \in Starts(u) /\ IdAt(u, b - 1) \in Exit
  /\ At(u.code, b) = t
  /\ ~u.chained => Level(u, b - 1, 0) /\ Level(u, t, 0)

\* The break statements of a loop that ends go behind it.
Breaking(u, o, lo, hi, W, c, q, v, D) ==
  /\ Lies(u, o, lo, hi, W, 0) /\ lo < hi /\ o[hi] = c /\ c.kind = "body"
  /\ q \in Starts(u) /\ (~u.chained => Level(u, q, 0)) /\ Settled(u)
  /\ Patching(u, v, c.start, "BREAK", q, D)

LEMMA BreaksPatched ==
  ASSUME NEW u, NEW o, NEW lo, NEW hi, NEW W, NEW c, NEW q, NEW v, NEW D,
         Breaking(u, o, lo, hi, W, c, q, v, D)
  PROVE  /\ Lies(v, o, lo, hi - 1, W, 0) /\ Settled(v)
         /\ v.chained = u.chained /\ v.goals = u.goals
         /\ \A b \in c.breaks : Reaches(v, b, q)
         /\ \A b \in Nat : /\ b - 1 \in Starts(u) /\ IdAt(u, b - 1) = "CONTINUE"
                           /\ At(u.code, b) = c.start
                           /\ ~u.chained => Level(u, b - 1, 0)
                           => Reaches(v, b, c.start)
<1>0. /\ Lies(u, o, lo, hi, W, 0) /\ lo < hi /\ o[hi] = c /\ c.kind = "body"
      /\ q \in Starts(u) /\ (~u.chained => Level(u, q, 0)) /\ Settled(u)
      /\ Patching(u, v, c.start, "BREAK", q, D)
  BY DEF Breaking
<1> USE <1>0
<1>1. /\ lo \in Nat /\ hi \in Nat /\ Frame(u, o, lo, hi, W) /\ u \in Unit /\ Layout(u)
      /\ (~u.chained => u.height = 0)
      /\ \A i \in lo .. hi : o[i] \in Construct
  BY LiesFacts
<1>2. lo <= hi /\ hi - 1 \in Nat /\ \A i \in lo .. hi - 1 : i \in lo .. hi
  BY <1>1
<1>3. /\ Held(u, c) /\ LoopHeld(u, c) /\ c \in Construct /\ c.start \in Nat /\ c.start \in Starts(u)
  BY <1>2, LoopTop
<1>4. /\ Repatched(u, v, D) /\ \A p \in D : At(v.code, p + 1) = q
      /\ \A p \in D : p \notin Tied(u, W)
      /\ \A i \in lo .. hi - 1 : o[i].kind \in LoopKind =>
           \A b \in o[i].breaks \cup o[i].continues : b - 1 \notin D
  BY <1>2, LoopScan
<1>5. Frame(v, o, lo, hi - 1, W)
  <2>1. Frame(u, o, lo, hi - 1, W)
    BY <1>1, FrameLess
  <2>2. \A i \in lo .. hi - 1 : o[i] \in Construct
    BY <1>1, <1>2
  <2> QED
    BY <1>1, <1>2, <1>4, <2>1, <2>2, FrameKept
<1>6. /\ v \in Unit /\ v.chained = u.chained /\ v.goals = u.goals /\ v.height = u.height
      /\ Starts(v) = Starts(u)
  BY <1>4 DEF Repatched, Starts
<1>7. Lies(v, o, lo, hi - 1, W, 0)
  BY <1>1, <1>2, <1>5, <1>6 DEF Lies
<1>8. \A p \in D : p \in Starts(u) /\ p >= c.start /\ IdAt(u, p) = "BREAK" /\ p \in Nat
  BY <1>1, UnitFacts DEF Patching
<1>9. Settled(v)
  <2> SUFFICES ASSUME NEW p \in Jumping(v) PROVE Target(v, p) \in Starts(v)
    BY DEF Settled
  <2>1. p \in Starts(u) /\ IdAt(v, p) = IdAt(u, p) /\ p \in Jumping(u)
    BY <1>1, <1>4, <1>6, RepatchedKeeps DEF Jumping
  <2>2. CASE p \in D
    <3>1. Slot(v, p) = p + 1
      BY <1>8, <2>1, <2>2 DEF Slot
    <3> QED
      BY <1>4, <1>6, <2>2, <3>1 DEF Target
  <2>3. CASE p \notin D
    <3>1. IdAt(u, p) \in Short \cup Exit
      BY <2>1 DEF Jumping
    <3>2. Target(v, p) = Target(u, p)
      BY <1>1, <1>4, <2>1, <2>3, <3>1, RepatchedKeeps
    <3> QED
      BY <1>6, <2>1, <3>2 DEF Settled
  <2> QED
    BY <2>2, <2>3
<1>10. ~v.chained => Level(v, q, 0) /\ Level(v, c.start, 0)
  BY <1>3, <1>4, <1>6, RepatchedLevel DEF LoopHeld
<1>11. q \in Nat /\ \A p \in Starts(u) : p \in Nat /\ p < Size(u)
  BY <1>1, UnitFacts DEF Layout
<1>12. ASSUME NEW b \in c.breaks PROVE Reaches(v, b, q)
  <2>1. /\ b - 1 \in Starts(u) /\ b > c.start /\ IdAt(u, b - 1) = "BREAK" /\ At(u.code, b) = 0
        /\ b \in Nat
    BY <1>3, ConstructFacts DEF LoopHeld, Unpatched
  <2>2. b - 1 \in Nat /\ b - 1 >= c.start /\ (b - 1) + 1 = b /\ b - 1 < Size(u)
    BY <1>3, <1>11, <2>1
  <2>3. b - 1 \in D
    BY <2>1, <2>2 DEF Patching
  <2>4. At(v.code, b) = q
    BY <1>4, <2>2, <2>3
  <2>5. b - 1 \in Starts(v) /\ IdAt(v, b - 1) = "BREAK"
    BY <1>1, <1>4, <1>6, <2>1, RepatchedKeeps
  <2>6. ~v.chained => Level(u, b - 1, 0)
    <3> SUFFICES ASSUME ~u.chained PROVE Level(u, b - 1, 0)
      BY <1>6
    <3>1. \A s \in Range(u.sites) : s.pos = b - 1 => s.height = 0
      <4>1. \A s \in Range(u.sites) : s.pos + 1 \in c.breaks \cup c.continues => s.height = 0
        BY <1>3 DEF LoopHeld
      <4> QED
        BY <2>2, <4>1
    <3>2. b - 1 # Size(u)
      BY <1>1, <2>2, UnitFacts
    <3> QED
      BY <3>1, <3>2 DEF Level
  <2>7. ~v.chained => Level(v, b - 1, 0)
    BY <1>4, <2>6, RepatchedLevel
  <2> QED
    BY <1>10, <1>11, <2>1, <2>4, <2>5, <2>7 DEF Reaches, Exit
<1>13. ASSUME NEW b \in Nat, b - 1 \in Starts(u), IdAt(u, b - 1) = "CONTINUE",
              At(u.code, b) = c.start, ~u.chained => Level(u, b - 1, 0)
       PROVE  Reaches(v, b, c.start)
  <2>1. b - 1 \notin D
    BY <1>8, <1>13
  <2>2. IdAt(u, b - 1) \in Exit
    BY <1>13 DEF Exit
  <2>3. /\ b - 1 \in Starts(v) /\ IdAt(v, b - 1) = "CONTINUE"
        /\ Target(v, b - 1) = Target(u, b - 1)
    BY <1>1, <1>4, <1>6, <1>13, <2>1, <2>2, RepatchedKeeps
  <2>4. Target(u, b - 1) = At(u.code, b)
    BY <1>1, <1>13, <2>2, ExitFacts
  <2>5. Target(v, b - 1) = At(v.code, b)
    <3>1. Slot(v, b - 1) = b
      BY <2>3 DEF Slot
    <3> QED
      BY <3>1 DEF Target
  <2>6. ~v.chained => Level(v, b - 1, 0)
    BY <1>4, <1>6, <1>13, RepatchedLevel
  <2> QED
    BY <1>3, <1>10, <1>13, <2>3, <2>4, <2>5, <2>6 DEF Reaches, Exit
<1> QED
  BY <1>6, <1>7, <1>9, <1>12, <1>13

\* What the break and continue statements of a loop must reach.
GoalsOf(c, q) == {[at |-> i, target |-> q] : i \in c.breaks}
                   \cup {[at |-> i, target |-> c.start] : i \in c.continues}

LEMMA GoalsAdded ==
  ASSUME NEW u, NEW o, NEW lo, NEW hi, NEW W, Lies(u, o, lo, hi, W, 0), Settled(u),
         NEW c \in Construct, NEW q \in Nat \ {0},
         \A b \in c.breaks : Reaches(u, b, q), \A b \in c.continues : Reaches(u, b, c.start),
         \A i \in lo .. hi : o[i].kind \in LoopKind => o[i].start < c.start
  PROVE  /\ Lies([u EXCEPT !.goals = u.goals \cup GoalsOf(c, q)], o, lo, hi, W, 0)
         /\ Settled([u EXCEPT !.goals = u.goals \cup GoalsOf(c, q)])
<1> DEFINE G == GoalsOf(c, q)
           v == [u EXCEPT !.goals = u.goals \cup G]
<1>1. /\ u \in Unit /\ lo \in Nat /\ hi \in Nat /\ Frame(u, o, lo, hi, W) /\ Layout(u)
      /\ (~u.chained => u.height = 0)
      /\ \A i \in lo .. hi : o[i] \in Construct
  BY LiesFacts
<1>2. c.start \in Nat /\ c.breaks \subseteq Nat /\ c.continues \subseteq Nat
  BY ConstructFacts
<1>3. G \in SUBSET [at : Nat, target : Nat]
  BY <1>2 DEF GoalsOf
<1>4. \A g \in G : /\ Reaches(u, g.at, g.target)
                   /\ g.target = q \/ g.target = c.start
  BY DEF GoalsOf
<1>5. /\ v.code = u.code /\ v.sites = u.sites /\ v.height = u.height /\ v.chained = u.chained
      /\ v \in Unit /\ v = [u EXCEPT !.goals = u.goals \cup G]
  BY <1>1, <1>3 DEF Unit
<1> HIDE DEF G, v
<1>6. \A g \in G : /\ g.at - 1 \in Starts(u) /\ IdAt(u, g.at - 1) \in Exit
                   /\ At(u.code, g.at) = g.target
  BY <1>4 DEF Reaches
<1>7. ~u.chained => \A g \in G : \A s \in Range(u.sites) :
                      s.pos + 1 = g.at => Level(u, g.target, After(u, s))
  <2> SUFFICES ASSUME ~u.chained, NEW g \in G, NEW s \in Range(u.sites), s.pos + 1 = g.at
               PROVE  Level(u, g.target, After(u, s))
    OBVIOUS
  <2>1. Level(u, g.at - 1, 0) /\ Level(u, g.target, 0) /\ IdAt(u, g.at - 1) \in Exit
    BY <1>4 DEF Reaches
  <2>2. s.pos \in Nat /\ s.pos = g.at - 1
    BY <1>1, UnitFacts
  <2>3. s.height = 0
    BY <2>1, <2>2 DEF Level
  <2>4. IdAt(u, s.pos) \in Exit
    BY <2>1, <2>2
  <2>5. \A w : Takes(IdAt(u, s.pos), w) = 0
    BY <2>4 DEF Takes, Exit
  <2>6. Gives(IdAt(u, s.pos)) = 0
    BY <2>4 DEF Gives, Exit
  <2>7. After(u, s) = 0
    BY <2>3, <2>5, <2>6 DEF After
  <2> QED
    BY <2>1, <2>7
<1>8. \A i \in lo .. hi : o[i].kind \in LoopKind => \A g \in G : g.target = 0 => g.at < o[i].start
  <2> SUFFICES ASSUME NEW i \in lo .. hi, o[i].kind \in LoopKind, NEW g \in G, g.target = 0
               PROVE  FALSE
    OBVIOUS
  <2>1. o[i].start \in Nat /\ o[i].start < c.start
    BY <1>1, ConstructFacts
  <2> QED
    BY <1>2, <1>4, <2>1
<1>9. Frame(v, o, lo, hi, W)
  BY <1>1, <1>3, <1>5, <1>6, <1>7, <1>8, FrameGoals
<1>10. Lies(v, o, lo, hi, W, 0)
  BY <1>1, <1>5, <1>9 DEF Lies
<1>11. Settled(v)
  BY <1>5 DEF Settled, Jumping, Starts, IdAt, Target, Slot
<1> QED
  BY <1>10, <1>11 DEF v, G

\* The end of a loop.
Ending(u, o, lo, hi, W, c, W2, o2, d, u1, D1, u2, u3, v, D2) ==
  /\ lo < hi /\ c.pos \in W /\ W \subseteq W2 \cup {c.pos}
  /\ Continuing(u, o, lo, hi, W, c, u1, D1, o2, d)
  /\ Closed(u1, c, u2, u3)
  /\ Size(u2) \in Starts(u3) => Patching(u3, v, c.start, "BREAK", Size(u2), D2)

LEMMA LoopEnded ==
  ASSUME NEW u, NEW o, NEW lo, NEW hi, NEW W, NEW c, NEW W2, NEW o2, NEW d, NEW u1, NEW D1,
         NEW u2, NEW u3, NEW v, NEW D2,
         Ending(u, o, lo, hi, W, c, W2, o2, d, u1, D1, u2, u3, v, D2)
  PROVE  /\ Lies([v EXCEPT !.goals = v.goals \cup GoalsOf(c, Size(u2))], o, lo, hi - 1, W2, 0)
         /\ Settled([v EXCEPT !.goals = v.goals \cup GoalsOf(c, Size(u2))])
<1> DEFINE q == Size(u2)
<1>0. /\ lo < hi /\ c.pos \in W /\ W \subseteq W2 \cup {c.pos}
      /\ Continuing(u, o, lo, hi, W, c, u1, D1, o2, d)
      /\ Closed(u1, c, u2, u3)
      /\ Size(u2) \in Starts(u3) => Patching(u3, v, c.start, "BREAK", Size(u2), D2)
      /\ Lies(u, o, lo, hi, W, 0) /\ o[hi] = c /\ c.kind = "body" /\ o2[hi] = d /\ Forgot(c, d)
      /\ \A i \in lo .. hi - 1 : o2[i] = o[i]
  BY DEF Ending, Continuing
<1>1. /\ lo \in Nat /\ hi \in Nat /\ u \in Unit /\ Frame(u, o, lo, hi, W) /\ hi - 1 \in Nat
      /\ lo <= hi /\ lo <= hi - 1 /\ \A i \in lo .. hi : o[i] \in Construct
  BY <1>0, LiesFacts
<1>2. c \in Construct /\ c.start \in Nat
  BY <1>0, <1>1, LoopTop
<1>3. /\ d.kind = "body" /\ d.start = c.start /\ d.pos = c.pos /\ d.breaks = c.breaks
  BY <1>0, <1>2 DEF Construct, Forgot
<1>4. /\ Lies(u1, o2, lo, hi, W, 0) /\ u1.chained = u.chained
      /\ \A b \in c.continues : /\ b \in Nat /\ b - 1 \in Starts(u1)
                                /\ IdAt(u1, b - 1) = "CONTINUE" /\ At(u1.code, b) = c.start
                                /\ ~u1.chained => Level(u1, b - 1, 0)
  BY <1>0, ContinuesPatched
<1> HIDE DEF q
<1>5. Closed(u1, d, u2, u3)
  BY <1>0, <1>3 DEF Closed
<1>6. /\ Lies(u3, o2, lo, hi, W2, 0) /\ Settled(u3) /\ u3.chained = u1.chained
      /\ q \in Nat /\ q > 0 /\ q \in Starts(u3)
      /\ ~u3.chained => Level(u3, q, 0)
      /\ \A p \in Jumping(u1) : IdAt(u1, p) \in Exit =>
           /\ p \in Starts(u3) /\ IdAt(u3, p) = IdAt(u1, p) /\ Target(u3, p) = Target(u1, p)
           /\ Level(u1, p, 0) => Level(u3, p, 0)
  <2>1. Closing(u1, o2, lo, hi, W, d, u2, u3, W2)
    BY <1>0, <1>1, <1>3, <1>4, <1>5 DEF Closing
  <2> QED
    BY <2>1, LoopClosed DEF q
<1>7. Patching(u3, v, d.start, "BREAK", q, D2)
  BY <1>0, <1>3, <1>6 DEF q
<1>8. /\ Lies(v, o2, lo, hi - 1, W2, 0) /\ Settled(v)
      /\ v.chained = u3.chained
      /\ \A b \in c.breaks : Reaches(v, b, q)
      /\ \A b \in Nat : /\ b - 1 \in Starts(u3) /\ IdAt(u3, b - 1) = "CONTINUE"
                        /\ At(u3.code, b) = c.start
                        /\ ~u3.chained => Level(u3, b - 1, 0)
                        => Reaches(v, b, c.start)
  <2>1. Breaking(u3, o2, lo, hi, W2, d, q, v, D2)
    BY <1>0, <1>3, <1>6, <1>7 DEF Breaking
  <2>2. /\ Lies(v, o2, lo, hi - 1, W2, 0) /\ Settled(v)
        /\ v.chained = u3.chained
        /\ \A b \in d.breaks : Reaches(v, b, q)
        /\ \A b \in Nat : /\ b - 1 \in Starts(u3) /\ IdAt(u3, b - 1) = "CONTINUE"
                          /\ At(u3.code, b) = d.start
                          /\ ~u3.chained => Level(u3, b - 1, 0)
                          => Reaches(v, b, d.start)
    BY <2>1, BreaksPatched
  <2> QED
    BY <1>3, <2>2
<1>9. ASSUME NEW b \in c.continues PROVE Reaches(v, b, c.start)
  <2>1. /\ u1 \in Unit /\ Layout(u1) /\ u3 \in Unit /\ Layout(u3)
    BY <1>4, <1>6, LiesFacts
  <2>2. /\ b \in Nat /\ b - 1 \in Starts(u1) /\ IdAt(u1, b - 1) = "CONTINUE"
        /\ IdAt(u1, b - 1) \in Exit /\ At(u1.code, b) = c.start
        /\ ~u1.chained => Level(u1, b - 1, 0)
    BY <1>4 DEF Exit
  <2>3. b - 1 \in Jumping(u1) /\ Target(u1, b - 1) = At(u1.code, b)
    BY <2>1, <2>2, ExitFacts
  <2>4. /\ b - 1 \in Starts(u3) /\ IdAt(u3, b - 1) = "CONTINUE"
        /\ IdAt(u3, b - 1) \in Exit /\ Target(u3, b - 1) = c.start
        /\ ~u3.chained => Level(u3, b - 1, 0)
    BY <1>6, <2>2, <2>3
  <2>5. Target(u3, b - 1) = At(u3.code, b)
    BY <2>1, <2>2, <2>4, ExitFacts
  <2> QED
    BY <1>8, <2>2, <2>4, <2>5
<1>10. Lies(v, o, lo, hi - 1, W2, 0)
  <2>1. /\ v \in Unit /\ Frame(v, o2, lo, hi - 1, W2) /\ (~v.chained => v.height = 0)
    BY <1>8, LiesFacts
  <2>2. \A i \in lo .. hi - 1 - 1 : o[i] = o2[i]
    BY <1>0, <1>1
  <2>3. o[hi - 1] = o2[hi - 1]
    BY <1>0, <1>1
  <2>4. Alike(o2[hi - 1], o[hi - 1])
    BY <2>3 DEF Alike
  <2>5. Frame(v, o, lo, hi - 1, W2)
    BY <1>1, <2>1, <2>2, <2>4, FrameSame
  <2>6. \A i \in lo .. hi - 1 : o[i] \in Construct
    BY <1>1
  <2> QED
    BY <1>1, <2>1, <2>5, <2>6 DEF Lies
<1>11. \A i \in lo .. hi - 1 : o[i].kind \in LoopKind => o[i].start < c.start
  <2>1. hi \in lo .. hi /\ o[hi].kind \in LoopKind
    BY <1>0, <1>1 DEF LoopKind
  <2>2. \A i \in lo .. hi - 1 : i \in lo .. hi /\ i < hi
    BY <1>1
  <2> QED
    BY <1>0, <1>1, <2>1, <2>2 DEF Frame
<1>12. q \in Nat \ {0}
  BY <1>6
<1>13. /\ Lies([v EXCEPT !.goals = v.goals \cup GoalsOf(c, q)], o, lo, hi - 1, W2, 0)
       /\ Settled([v EXCEPT !.goals = v.goals \cup GoalsOf(c, q)])
  BY <1>2, <1>8, <1>9, <1>10, <1>11, <1>12, GoalsAdded
<1> QED
  BY <1>13 DEF q

LEMMA ShapedEndLoop ==
  ASSUME Typed, Shaped, EndLoop
  PROVE  Shaped'
<1> PICK base : Shape(base)
  BY DEF Shaped
<1> DEFINE lo == base[Len(units)]
           hi == Len(open)
           c == top
           d == [c EXCEPT !.continues = {}]
           o == [open EXCEPT ![hi] = d]
           W == Anchors(open, lo, hi)
           W2 == Anchors(open, lo, hi - 1)
           to1 == {p \in Starts(inst) : p >= c.start /\ IdAt(inst, p) = "CONTINUE" /\ At(inst.code, p + 1) = 0}
           first == Scan(inst.code, Seen(inst.code, c.start), "CONTINUE", c.start)
           u1 == [inst EXCEPT !.code = first]
           u2 == Emitted(u1, <<"JMP", c.start>>)
           u3 == Patched(EmittedAll(u2, << <<"CONST_NULL">>, <<"POP">> >>), c.pos + 1, Size(u2))
           to2 == {p \in Starts(u3) : p >= c.start /\ IdAt(u3, p) = "BREAK" /\ At(u3.code, p + 1) = 0}
           second == Scan(u3.code, Seen(u3.code, c.start), "BREAK", Size(u2))
           u4 == [u3 EXCEPT !.code = second]
           v == [u4 EXCEPT !.goals = u4.goals \cup GoalsOf(c, Size(u2))]
           x == [u3 EXCEPT !.code = second,
                   !.goals = @ \cup {[at |-> i, target |-> Size(u2)] : i \in c.breaks}
                               \cup {[at |-> i, target |-> c.start] : i \in c.continues}]
<1>1. open # <<>> /\ c.kind = "body" /\ Pop
  BY DEF EndLoop, Top
<1>2. units' = [units EXCEPT ![Len(units)] = x]
  BY DEF EndLoop, SetInst, ContinueTarget
<1>3. c.kind \notin Functional \cup Expression /\ c.kind \notin Logical /\ c.kind \in Anchored
  BY <1>1 DEF Functional, Expression, Logical, Anchored
<1>4. /\ lo \in Nat /\ hi \in Nat /\ lo < hi /\ c = open[hi] /\ inst \in Unit /\ Layout(inst)
      /\ c.pending = 0 /\ c \in Construct
  BY <1>1, <1>3, TopPart
<1>5. Lies(inst, open, lo, hi, W, 0)
  BY <1>1, <1>3, <1>4, LiesTop
<1>6. c.pos \in W /\ W \subseteq W2 \cup {c.pos}
  <2> HIDE DEF lo, hi, c
  <2> QED
    BY <1>3, <1>4, AnchorsLess
<1>7. o[hi] = d /\ \A i \in lo .. hi - 1 : o[i] = open[i]
  <2>1. DOMAIN open = 1 .. hi /\ lo # 0 /\ hi # 0
    BY <1>1, TopPart DEF Typed, OpenOK
  <2> HIDE DEF lo, hi, d
  <2> QED
    BY <1>4, <2>1
<1> HIDE DEF o, W, W2, first, second
<1>8. x = v
  <2>1. x = [u3 EXCEPT !.code = second, !.goals = u3.goals \cup GoalsOf(c, Size(u2))]
    <3>1. \A g : g \cup {[at |-> i, target |-> Size(u2)] : i \in c.breaks}
                   \cup {[at |-> i, target |-> c.start] : i \in c.continues}
                 = g \cup GoalsOf(c, Size(u2))
      BY DEF GoalsOf
    <3> QED
      BY <3>1
  <2>2. u4.goals = u3.goals
    BY DEF Patched
  <2> HIDE DEF u2, u3
  <2> QED
    BY <2>1, <2>2
<1> HIDE DEF x
<1>9. Lies(inst, open, lo, hi, W, 0) /\ Patching(inst, u1, c.start, "CONTINUE", c.start, to1)
  <2>1. c.start \in Starts(inst)
    <3> HIDE DEF lo, hi, c
    <3>1. lo <= hi /\ open[hi] = c
      BY <1>4
    <3> QED
      BY <1>1, <1>5, <3>1, LoopTop
  <2> QED
    BY <1>5, <2>1 DEF Patching, Exit, first
<1>10. Closed(u1, c, u2, u3)
  BY DEF Closed
<1>11. Size(u2) \in Starts(u3) => Patching(u3, u4, c.start, "BREAK", Size(u2), to2)
  <2> HIDE DEF u2, u3
  <2> QED
    BY DEF Patching, Exit, second
<1>12. Forgot(c, d)
  BY DEF Forgot
<1> HIDE DEF lo, hi, c, d, u1, u2, u3, u4, to1, to2
<1>13. Ending(inst, open, lo, hi, W, c, W2, o, d, u1, to1, u2, u3, u4, to2)
  BY <1>1, <1>4, <1>5, <1>6, <1>7, <1>9, <1>10, <1>11, <1>12 DEF Ending, Continuing
<1>14. /\ Lies(v, open, lo, hi - 1, W2, 0) /\ Settled(v)
  BY <1>13, LoopEnded
<1> HIDE DEF v
<1> QED
  BY <1>1, <1>2, <1>3, <1>8, <1>14, EndStepLess DEF lo, hi, W2, c

\* A unit nothing has been emitted into.
LEMMA EmptyFacts ==
  /\ EmptyUnit \in Unit /\ Starts(EmptyUnit) = {} /\ Range(EmptyUnit.sites) = {}
  /\ Size(EmptyUnit) = 0 /\ EmptyUnit.goals = {} /\ EmptyUnit.height = 0 /\ EmptyUnit.sites = <<>>
  /\ EmptyUnit.last = Number["CONST_"]
<1>1. Number["CONST_"] \in Nat
  BY InstructionSizes, Numbers DEF Plain
<1>2. Range(EmptyUnit.sites) = {}
  BY DEF EmptyUnit, Range
<1> QED
  BY <1>1, <1>2 DEF EmptyUnit, Unit, Starts, Size

LEMMA EmptyPart ==
  ASSUME NEW o, NEW lo \in Nat, o[lo].kind \in Functional, o[lo].pending = 0
  PROVE  Part(EmptyUnit, o, lo, lo)
<1> DEFINE u == EmptyUnit
           W == Anchors(o, lo, lo)
<1>1. Jumping(u) = {}
  BY EmptyFacts DEF Jumping
<1>2. Layout(u)
  BY EmptyFacts DEF Layout
<1>3. Lands(u) /\ Settled(u) /\ GoalsMet(u)
  BY <1>1, EmptyFacts DEF Lands, Settled, GoalsMet
<1>4. Heights(u, W)
  BY EmptyFacts DEF Heights, Level
<1>5. Laid(u, W)
  BY <1>2, <1>3, <1>4 DEF Laid
<1>6. o[lo].kind \notin Anchored \cup LoopKind \cup Logical
  BY DEF Functional, Anchored, LoopKind, Logical
<1>7. \A i \in lo .. lo : i = lo
  OBVIOUS
<1>8. Frame(u, o, lo, lo, W)
  <2>1. \A i \in lo .. lo : Held(u, o[i])
    BY <1>6, <1>7 DEF Held
  <2>2. \A i, j \in lo .. lo : ~(i < j)
    BY <1>7
  <2>3. lo .. lo - 1 = {} /\ lo + 1 .. lo = {}
    OBVIOUS
  <2> QED
    BY <1>5, <2>1, <2>2, <2>3 DEF Frame
<1>9. Total(u, o[lo], u.height)
  BY <1>6, EmptyFacts DEF Total
<1> QED
  BY <1>3, <1>8, <1>9 DEF Part

\* Before the first step.
LEMMA ShapedInit ==
  ASSUME Init
  PROVE  Shaped
<1> DEFINE e == EmptyUnit
           c == New("script")
           base == <<1>>
<1>1. c.kind = "script" /\ c.pending = 0 /\ "script" \in Functional
  BY NewConstruct DEF Block, Functional
<1>2. units = <<e>> /\ open = <<c>>
  BY DEF Init
<1>3. base \in Seq(Nat \ {0}) /\ Len(base) = 1 /\ base[1] = 1 /\ DOMAIN base = {1}
  OBVIOUS
<1> HIDE DEF e, c, base
<1>4. /\ Len(units) = 1 /\ DOMAIN units = {1} /\ units[1] = e /\ units # <<>>
      /\ Len(open) = 1 /\ open[1] = c /\ open # <<>>
  BY <1>2
<1>5. Upper(base, 1, open) = 1
  BY <1>3, <1>4 DEF Upper
<1>6. Bases(base, units, open)
  BY <1>1, <1>3, <1>4, <1>5 DEF Bases
<1>7. Part(e, open, 1, 1)
  BY <1>1, <1>4, EmptyPart DEF e
<1>8. Parts(base, units, open)
  BY <1>3, <1>4, <1>5, <1>7 DEF Parts
<1> QED
  BY <1>6, <1>8 DEF Shaped, Shape

\* A function begins.
LEMMA ShapedBeginFunction ==
  ASSUME Typed, Shaped, NEW kind \in {"function", "deferred"}, BeginFunction(kind)
  PROVE  Shaped'
<1> PICK base : Shape(base)
  BY DEF Shaped
<1> DEFINE c == New(kind)
           m == Len(units)
           n == Len(open)
           base2 == Append(base, n + 1)
           us == units'
           o == open'
<1>1. /\ us = Append(units, EmptyUnit) /\ o = Append(open, c) /\ open # <<>>
  BY DEF BeginFunction, Push, InExpression, InBlock, Top
<1>2. c.kind \in Functional /\ c.pending = 0
  BY NewConstruct DEF Block, Functional
<1>3. /\ units \in Seq(Unit) /\ open \in Seq(Construct) /\ m \in Nat \ {0} /\ n \in Nat \ {0}
      /\ units # <<>>
  BY <1>1, TopFacts DEF Typed, UnitsOK, OpenOK
<1>4. Bases(base, units, open) /\ Parts(base, units, open)
  BY DEF Shape
<1>5. base \in Seq(Nat \ {0}) /\ Len(base) = m
  BY <1>4 DEF Bases
<1> HIDE DEF c, m, n, us, o
<1>6. /\ Len(us) = m + 1 /\ us[m + 1] = EmptyUnit /\ \A k \in 1 .. m : us[k] = units[k]
      /\ DOMAIN us = 1 .. m + 1
      /\ Len(o) = n + 1 /\ o[n + 1] = c /\ \A k \in 1 .. n : o[k] = open[k]
  BY <1>1, <1>3 DEF m, n
<1>7. /\ base2 \in Seq(Nat \ {0}) /\ Len(base2) = m + 1 /\ base2[m + 1] = n + 1
      /\ DOMAIN base2 = 1 .. m + 1
      /\ \A k \in 1 .. m : base2[k] = base[k]
  BY <1>3, <1>5
<1> HIDE DEF base2
<1>8. Upper(base2, m + 1, o) = n + 1
  BY <1>6, <1>7 DEF Upper
<1>9. ASSUME NEW k \in 1 .. m
      PROVE  /\ Upper(base2, k, o) = Upper(base, k, open)
             /\ base2[k] = base[k] /\ base[k] \in Nat \ {0} /\ Upper(base, k, open) \in Nat
             /\ base[k] <= Upper(base, k, open) /\ Upper(base, k, open) <= n
  <2>1. k \in DOMAIN units /\ Len(units) = m
    BY <1>3 DEF m
  <2>2. /\ base[k] \in Nat \ {0} /\ Upper(base, k, open) \in Nat
        /\ base[k] <= Upper(base, k, open) /\ Upper(base, k, open) <= n
    BY <1>3, <1>4, <2>1, BasesFacts DEF n
  <2>3. Upper(base2, k, o) = Upper(base, k, open)
    <3>1. CASE k = m
      BY <1>3, <1>5, <1>7, <3>1 DEF Upper, n
    <3>2. CASE k # m
      <4>1. k + 1 \in 1 .. m /\ k # m + 1
        BY <1>3, <3>2
      <4> QED
        BY <1>5, <1>7, <3>2, <4>1 DEF Upper
    <3> QED
      BY <3>1, <3>2
  <2> QED
    BY <1>7, <2>2, <2>3
<1>10. \A k \in 1 .. m + 1 : k \in 1 .. m \/ k = m + 1
  BY <1>3
<1>11. ASSUME NEW k \in DOMAIN base2
       PROVE  /\ base2[k] <= Upper(base2, k, o) /\ Upper(base2, k, o) <= Len(o)
              /\ o[base2[k]].kind \in Functional
              /\ \A i \in base2[k] + 1 .. Upper(base2, k, o) : o[i].kind \notin Functional
  <2>1. CASE k = m + 1
    <3>1. n + 1 + 1 .. n + 1 = {}
      BY <1>3
    <3> QED
      BY <1>2, <1>3, <1>6, <1>7, <1>8, <2>1, <3>1
  <2>2. CASE k \in 1 .. m
    <3>1. /\ open[base[k]].kind \in Functional
          /\ \A i \in base[k] + 1 .. Upper(base, k, open) : open[i].kind \notin Functional
      <4>1. k \in DOMAIN base
        BY <1>5, <2>2
      <4> QED
        BY <1>4, <4>1 DEF Bases
    <3>2. base[k] \in 1 .. n /\ \A i \in base[k] + 1 .. Upper(base, k, open) : i \in 1 .. n
      BY <1>3, <1>9, <2>2
    <3>3. /\ base2[k] <= Upper(base2, k, o) /\ Upper(base2, k, o) <= Len(o)
          /\ base2[k] = base[k] /\ Upper(base2, k, o) = Upper(base, k, open)
      BY <1>3, <1>6, <1>9, <2>2
    <3>4. o[base[k]] = open[base[k]]
      BY <1>6, <3>2
    <3>5. ASSUME NEW i \in base[k] + 1 .. Upper(base, k, open) PROVE o[i].kind \notin Functional
      <4>1. i \in 1 .. n
        BY <3>2
      <4>2. o[i] = open[i]
        BY <1>6, <4>1
      <4> QED
        BY <3>1, <3>5, <4>2
    <3> QED
      BY <3>1, <3>3, <3>4, <3>5
  <2> QED
    BY <1>7, <1>10, <2>1, <2>2
<1>12. Bases(base2, us, o)
  <2>1. base2[1] = 1
    BY <1>3, <1>4, <1>7 DEF Bases
  <2>2. us # <<>> /\ o # <<>>
    BY <1>3, <1>6
  <2>3. \A j, k \in DOMAIN base2 : j < k => base2[j] < base2[k]
    <3> SUFFICES ASSUME NEW j \in 1 .. m + 1, NEW k \in 1 .. m + 1, j < k PROVE base2[j] < base2[k]
      BY <1>7
    <3>1. j \in 1 .. m
      BY <1>3
    <3>2. CASE k = m + 1
      BY <1>3, <1>7, <1>9, <3>1, <3>2
    <3>3. CASE k \in 1 .. m
      <4>1. j \in DOMAIN base /\ k \in DOMAIN base
        BY <1>5, <3>1, <3>3
      <4>2. base[j] < base[k]
        BY <1>4, <4>1 DEF Bases
      <4> QED
        BY <1>7, <3>1, <3>3, <4>2
    <3> QED
      BY <1>10, <3>2, <3>3
  <2> QED
    BY <1>6, <1>7, <1>11, <2>1, <2>2, <2>3 DEF Bases
<1>13. ASSUME NEW k \in DOMAIN us PROVE Part(us[k], o, base2[k], Upper(base2, k, o))
  <2>1. CASE k = m + 1
    <3>1. n + 1 \in Nat /\ o[n + 1].kind \in Functional /\ o[n + 1].pending = 0
      BY <1>2, <1>3, <1>6
    <3>2. Part(EmptyUnit, o, n + 1, n + 1)
      <4> DEFINE l == n + 1
      <4> HIDE DEF l
      <4>1. l \in Nat /\ o[l].kind \in Functional /\ o[l].pending = 0
        BY <3>1 DEF l
      <4>2. Part(EmptyUnit, o, l, l)
        BY <4>1, EmptyPart
      <4> QED
        BY <4>2 DEF l
    <3> QED
      BY <1>6, <1>7, <1>8, <2>1, <3>2
  <2>2. CASE k \in 1 .. m
    <3> DEFINE l == base[k]
               h == Upper(base, k, open)
    <3>1. Part(units[k], open, l, h)
      <4>1. k \in DOMAIN units
        BY <1>3, <2>2 DEF m
      <4> QED
        BY <1>4, <4>1 DEF Parts
    <3>2. l \in Nat /\ h \in Nat /\ l <= h /\ \A i \in l .. h : o[i] = open[i]
      BY <1>3, <1>6, <1>9, <2>2
    <3> HIDE DEF l, h
    <3>3. Part(units[k], o, l, h)
      BY <3>1, <3>2, PartSame
    <3> QED
      BY <1>6, <1>9, <2>2, <3>3 DEF l, h
  <2> QED
    BY <1>6, <1>10, <2>1, <2>2
<1>14. \E b : Bases(b, units', open') /\ Parts(b, units', open')
  <2>1. Parts(base2, us, o)
    BY <1>13 DEF Parts
  <2> QED
    BY <1>12, <2>1 DEF us, o
<1> QED
  BY <1>14 DEF Shaped, Shape

\* All but the last element.
LEMMA FrontIs ==
  ASSUME NEW S, NEW s \in Seq(S), s # <<>>
  PROVE  /\ Front(s) \in Seq(S) /\ Len(Front(s)) = Len(s) - 1
         /\ DOMAIN Front(s) = 1 .. Len(s) - 1 /\ Len(s) \in Nat \ {0}
         /\ \A i \in 1 .. Len(s) - 1 : Front(s)[i] = s[i]
<1>1. Len(s) \in Nat \ {0}
  OBVIOUS
<1> DEFINE n == Len(s) - 1
<1>2. n \in Nat /\ Len(s) = n + 1
  BY <1>1
<1>3. Front(s) = SubSeq(s, 1, n)
  BY DEF Front
<1> HIDE DEF n
<1>4. SubSeq(s, 1, n) \in Seq(S) /\ Len(SubSeq(s, 1, n)) = n
  BY <1>2
<1>5. \A i \in 1 .. n : SubSeq(s, 1, n)[i] = s[i]
  BY <1>2
<1> QED
  BY <1>1, <1>3, <1>4, <1>5 DEF n

\* The last function is gone.
LEMMA Dropped ==
  ASSUME NEW base, NEW us \in Seq(Unit), NEW o \in Seq(Construct),
         Bases(base, us, o), Parts(base, us, o),
         NEW m, m = Len(us), 1 < m, NEW n, n = Len(o), base[m] = n
  PROVE  /\ 1 < n
         /\ Bases(Front(base), Front(us), Front(o)) /\ Parts(Front(base), Front(us), Front(o))
<1> DEFINE base2 == Front(base)
           us2 == Front(us)
           o2 == Front(o)
<1>1. /\ m \in Nat /\ n \in Nat /\ base \in Seq(Nat \ {0}) /\ Len(base) = m /\ base # <<>>
      /\ us # <<>> /\ DOMAIN us = 1 .. m /\ DOMAIN base = 1 .. m
      /\ base[1] = 1 /\ \A j, k \in DOMAIN base : j < k => base[j] < base[k]
  <2>1. us # <<>> /\ m \in Nat /\ n \in Nat /\ DOMAIN us = 1 .. m
    OBVIOUS
  <2>2. base \in Seq(Nat \ {0}) /\ Len(base) = m /\ base[1] = 1
    BY <2>1 DEF Bases
  <2>3. \A j, k \in DOMAIN base : j < k => base[j] < base[k]
    BY DEF Bases
  <2> QED
    BY <2>1, <2>2, <2>3
<1>2. 1 < n /\ o # <<>>
  <2>1. 1 \in DOMAIN base /\ m \in DOMAIN base
    BY <1>1
  <2>2. base[1] < base[m]
    BY <1>1, <2>1
  <2> QED
    BY <1>1, <2>2
<1>3. /\ base2 \in Seq(Nat \ {0}) /\ Len(base2) = m - 1 /\ DOMAIN base2 = 1 .. m - 1
      /\ \A i \in 1 .. m - 1 : base2[i] = base[i]
  BY <1>1, FrontIs
<1>4. /\ us2 \in Seq(Unit) /\ Len(us2) = m - 1 /\ DOMAIN us2 = 1 .. m - 1
      /\ \A i \in 1 .. m - 1 : us2[i] = us[i]
  BY <1>1, FrontIs
<1>5. /\ o2 \in Seq(Construct) /\ Len(o2) = n - 1 /\ DOMAIN o2 = 1 .. n - 1
      /\ \A i \in 1 .. n - 1 : o2[i] = o[i]
  BY <1>1, <1>2, FrontIs
<1> HIDE DEF base2, us2, o2
<1>6. ASSUME NEW k \in 1 .. m - 1
      PROVE  /\ k \in DOMAIN us /\ k \in DOMAIN base
             /\ base[k] \in Nat \ {0} /\ base2[k] = base[k] /\ us2[k] = us[k]
             /\ Upper(base, k, o) \in Nat /\ base[k] <= Upper(base, k, o)
             /\ Upper(base, k, o) <= n - 1
             /\ Upper(base2, k, o2) = Upper(base, k, o)
  <2>1. k \in DOMAIN us /\ k # m /\ k \in DOMAIN base
    BY <1>1
  <2>2. /\ base[k] \in Nat \ {0} /\ Upper(base, k, o) \in Nat /\ base[k] <= Upper(base, k, o)
        /\ Upper(base, k, o) = base[k + 1] - 1 /\ Upper(base, k, o) < base[m]
    BY <1>1, <2>1, BasesFacts
  <2>3. Upper(base, k, o) <= n - 1
    BY <1>1, <2>2
  <2>4. Upper(base2, k, o2) = Upper(base, k, o)
    <3>1. CASE k = m - 1
      <4>1. base[k + 1] = n
        BY <1>1, <3>1
      <4> QED
        BY <1>3, <1>5, <2>2, <3>1, <4>1 DEF Upper
    <3>2. CASE k # m - 1
      <4>1. k + 1 \in 1 .. m - 1
        BY <1>1, <3>2
      <4>2. base2[k + 1] = base[k + 1]
        BY <1>3, <4>1
      <4> QED
        BY <1>3, <2>2, <3>2, <4>2 DEF Upper
    <3> QED
      BY <3>1, <3>2
  <2> QED
    BY <1>3, <1>4, <2>1, <2>2, <2>3, <2>4
<1>7. ASSUME NEW k \in 1 .. m - 1, NEW i \in base[k] .. Upper(base, k, o)
      PROVE  i \in 1 .. n - 1 /\ o2[i] = o[i]
  <2>1. i \in 1 .. n - 1
    BY <1>1, <1>6
  <2> QED
    BY <1>5, <2>1
<1>8. ASSUME NEW k \in DOMAIN base2
      PROVE  /\ base2[k] <= Upper(base2, k, o2) /\ Upper(base2, k, o2) <= Len(o2)
             /\ o2[base2[k]].kind \in Functional
             /\ \A i \in base2[k] + 1 .. Upper(base2, k, o2) : o2[i].kind \notin Functional
  <2>1. k \in 1 .. m - 1 /\ k \in DOMAIN base
    BY <1>1, <1>3
  <2>2. /\ o[base[k]].kind \in Functional
        /\ \A i \in base[k] + 1 .. Upper(base, k, o) : o[i].kind \notin Functional
    BY <2>1 DEF Bases
  <2>3. /\ base2[k] = base[k] /\ Upper(base2, k, o2) = Upper(base, k, o)
        /\ base[k] <= Upper(base, k, o) /\ Upper(base, k, o) <= n - 1
        /\ base[k] \in Nat /\ Upper(base, k, o) \in Nat
    BY <1>6, <2>1
  <2>4. o2[base[k]] = o[base[k]]
    <3>1. base[k] \in base[k] .. Upper(base, k, o)
      BY <2>3
    <3> QED
      BY <1>7, <2>1, <3>1
  <2>5. ASSUME NEW i \in base[k] + 1 .. Upper(base, k, o) PROVE o2[i].kind \notin Functional
    <3>1. i \in base[k] .. Upper(base, k, o)
      BY <2>3
    <3>2. o2[i] = o[i]
      BY <1>7, <2>1, <3>1
    <3> QED
      BY <2>2, <2>5, <3>2
  <2> QED
    BY <1>5, <2>2, <2>3, <2>4, <2>5
<1>9. Bases(base2, us2, o2)
  <2>1. us2 # <<>> /\ o2 # <<>> /\ base2[1] = 1 /\ Len(base2) = Len(us2)
    BY <1>1, <1>2, <1>3, <1>4, <1>5
  <2>2. \A j, k \in DOMAIN base2 : j < k => base2[j] < base2[k]
    <3> SUFFICES ASSUME NEW j \in 1 .. m - 1, NEW k \in 1 .. m - 1, j < k
                 PROVE  base2[j] < base2[k]
      BY <1>3
    <3>1. j \in DOMAIN base /\ k \in DOMAIN base
      BY <1>6
    <3> QED
      BY <1>1, <1>3, <3>1
  <2> QED
    BY <1>3, <1>8, <2>1, <2>2 DEF Bases
<1>10. Parts(base2, us2, o2)
  <2> SUFFICES ASSUME NEW k \in 1 .. m - 1
               PROVE  Part(us2[k], o2, base2[k], Upper(base2, k, o2))
    BY <1>4 DEF Parts
  <2> DEFINE l == base[k]
             h == Upper(base, k, o)
  <2>1. Part(us[k], o, l, h)
    BY <1>6 DEF Parts
  <2>2. l \in Nat /\ h \in Nat /\ l <= h
    BY <1>6
  <2>3. \A i \in l .. h : o2[i] = o[i]
    BY <1>7
  <2> HIDE DEF l, h
  <2>4. Part(us[k], o2, l, h)
    BY <2>1, <2>2, <2>3, PartSame
  <2> QED
    BY <1>6, <2>4 DEF l, h
<1> QED
  BY <1>2, <1>9, <1>10 DEF base2, us2, o2

\* Both ways to speak of a unit the construct of which is neither `and' nor `or'.
LEMMA LiesPart ==
  ASSUME NEW u \in Unit, NEW o, NEW lo \in Nat, NEW hi \in Nat, lo <= hi,
         \A i \in lo .. hi : o[i] \in Construct, o[hi].kind \notin Logical,
         o[hi].kind \in Functional \cup {"then", "body"} => Settled(u)
  PROVE  Part(u, o, lo, hi) <=> Lies(u, o, lo, hi, Anchors(o, lo, hi), o[hi].pending)
<1> DEFINE W == Anchors(o, lo, hi)
           h == o[hi].pending
<1>1. h \in Nat
  BY ConstructFacts
<1>2. Total(u, o[hi], u.height) <=> u.height = h
  BY DEF Total
<1> HIDE DEF W, h
<1>3. Part(u, o, lo, hi) <=> Frame(u, o, lo, hi, W) /\ (~u.chained => u.height = h)
  BY <1>2 DEF Part, W
<1>4. Lies(u, o, lo, hi, W, h) <=> Frame(u, o, lo, hi, W) /\ (~u.chained => u.height = h)
  BY <1>1 DEF Lies
<1> QED
  BY <1>3, <1>4 DEF W, h

LEMMA Joined ==
  ASSUME NEW S, NEW s \in Seq(S), NEW t \in Seq(S)
  PROVE  /\ s \o t \in Seq(S) /\ Len(s \o t) = Len(s) + Len(t)
         /\ \A i \in 1 .. Len(s) : (s \o t)[i] = s[i]
         /\ \A i \in 1 .. Len(t) : (s \o t)[Len(s) + i] = t[i]
  OBVIOUS

\* The captured variables, and the closure that takes them.
LEMMA ClosureIs ==
  ASSUME NEW u, NEW k \in {0, 1}, NEW c, NEW d,
         NEW f, f = Emitted(IF k = 0 THEN u ELSE Emitted(u, Load), c)
  PROVE  /\ EmittedAll(u, Loads(k) \o <<c>> \o <<>>) = f
         /\ EmittedAll(u, Loads(k) \o <<c>> \o << d >>) = Emitted(f, d)
<1> DEFINE S == {Load, c, d}
           ls == Loads(k)
           is == ls \o <<c>> \o <<>>
           js == ls \o <<c>> \o << d >>
<1>1. ls \in Seq(S) /\ Len(ls) = k /\ \A i \in 1 .. k : ls[i] = Load
  <2>1. k \in Nat /\ ls \in [1 .. k -> S] /\ \A i \in 1 .. k : ls[i] = Load
    BY DEF Loads
  <2>2. ls \in Seq(S)
    BY <2>1, SeqDef, Zenon
  <2>3. Len(ls) = k
    BY <2>1, <2>2
  <2> QED
    BY <2>1, <2>2, <2>3
<1>2. c \in S /\ d \in S
  OBVIOUS
<1> HIDE DEF S, ls
<1>3. <<c>> \in Seq(S) /\ <<d>> \in Seq(S) /\ <<>> \in Seq(S)
  BY <1>2
<1>4. CASE k = 0
  <2>1. is \in Seq(S) /\ Len(is) = 1 /\ is[1] = c
    BY <1>1, <1>3, <1>4
  <2>2. js \in Seq(S) /\ Len(js) = 2 /\ js[1] = c /\ js[2] = d
    BY <1>1, <1>3, <1>4
  <2> HIDE DEF is, js
  <2>3. EmittedAll(u, is) = Emitted(u, c) /\ EmittedAll(u, js) = Emitted(Emitted(u, c), d)
    BY <2>1, <2>2, EmittedFew
  <2> QED
    BY <1>4, <2>3 DEF is, js, ls
<1>5. CASE k = 1
  <2>0. ls[1] = Load
    BY <1>1, <1>5
  <2> DEFINE a == ls \o <<c>>
             e == <<c>>
             g == <<d>>
             z == <<>>
  <2>10. e \in Seq(S) /\ Len(e) = 1 /\ e[1] = c /\ g \in Seq(S) /\ Len(g) = 1 /\ g[1] = d
         /\ z \in Seq(S) /\ Len(z) = 0
    BY <1>3
  <2> HIDE DEF e, g, z
  <2>4. a = ls \o e
    BY DEF e
  <2> HIDE DEF a
  <2>5. a \in Seq(S) /\ Len(a) = 2 /\ a[1] = Load /\ a[2] = c
    BY <1>1, <1>5, <2>0, <2>4, <2>10, Joined
  <2>6. a \o z \in Seq(S) /\ Len(a \o z) = 2 /\ (a \o z)[1] = Load /\ (a \o z)[2] = c
    <3>1. a \o z = a
      BY <2>5, ConcatEmptySeq DEF z
    <3> QED
      BY <2>5, <3>1
  <2>7. a \o g \in Seq(S) /\ Len(a \o g) = 2 + 1 /\ (\A i \in 1 .. 2 : (a \o g)[i] = a[i])
        /\ \A i \in 1 .. 1 : (a \o g)[2 + i] = g[i]
    BY <2>5, <2>10, Joined, SMTT(40)
  <2>8. (a \o g)[1] = Load /\ (a \o g)[2] = c /\ (a \o g)[3] = d /\ Len(a \o g) = 3
    <3>1. (a \o g)[2 + 1] = g[1]
      BY <2>7
    <3> QED
      BY <2>5, <2>7, <2>10, <3>1
  <2>9. is = a \o z /\ js = a \o g
    BY DEF a, g, z
  <2>1. is \in Seq(S) /\ Len(is) = 2 /\ is[1] = Load /\ is[2] = c
    BY <2>6, <2>9
  <2>2. js \in Seq(S) /\ Len(js) = 3 /\ js[1] = Load /\ js[2] = c /\ js[3] = d
    BY <2>7, <2>8, <2>9
  <2> HIDE DEF is, js
  <2>3. /\ EmittedAll(u, is) = Emitted(Emitted(u, Load), c)
        /\ EmittedAll(u, js) = Emitted(Emitted(Emitted(u, Load), c), d)
    BY <2>1, <2>2, EmittedFew
  <2> QED
    BY <1>5, <2>3 DEF is, js, ls
<1> QED
  BY <1>4, <1>5

\* One more operand for an expression around the function.
LEMMA PartAdds ==
  ASSUME NEW u \in Unit, NEW o, NEW lo \in Nat, NEW hi \in Nat, lo <= hi,
         Part(u, o, lo, hi), \A i \in lo .. hi : o[i] \in Construct,
         o[hi].kind \in Expression,
         NEW i, NEW t, Adds(i, t, 1), t <= o[hi].pending,
         NEW o2, \A j \in lo .. hi - 1 : o2[j] = o[j], Alike(o[hi], o2[hi]),
         o2[hi].pending = o[hi].pending - t + 1
  PROVE  Part(Emitted(u, i), o2, lo, hi) /\ Emitted(u, i) \in Unit
<1>1. PICK id, w : /\ Instruction(id, w) /\ id \notin Short \cup Exit \cup {"PACK", "MAP"}
                   /\ Takes(id, w) = t /\ Gives(id) = 1
                   /\ \A x : Emitted(x, i) = Put(x, id, w)
  BY DEF Adds
<1>2. Emitted(u, i) = Put(u, id, w)
  BY <1>1
<1>3. Put(u, id, w) \in Unit
  BY <1>1, PutExtends DEF Extends
<1>4. id \notin Short \cup Exit /\ id \notin {"PACK", "MAP"}
  BY <1>1
<1>5. o2[hi].pending = o[hi].pending - Takes(id, w) + 1 /\ Takes(id, w) <= o[hi].pending
  BY <1>1
<1>6. Part(Put(u, id, w), o2, lo, hi)
  BY <1>1, <1>4, <1>5, PartOperand
<1> QED
  BY <1>2, <1>3, <1>6

LEMMA FunctionMade ==
  ASSUME NEW u \in Unit, NEW o, NEW lo \in Nat, NEW hi \in Nat, lo <= hi,
         Part(u, o, lo, hi), \A i \in lo .. hi : o[i] \in Construct,
         o[hi].kind \in Expression, NEW k \in {0, 1}, NEW n \in Nat,
         NEW o2, \A j \in lo .. hi - 1 : o2[j] = o[j], Alike(o[hi], o2[hi]),
         o2[hi].pending = o[hi].pending + 1, o2[hi] \in Construct,
         NEW c, c = <<"CLOSURE", n, k>>,
         NEW v, v = Emitted(IF k = 0 THEN u ELSE Emitted(u, Load), c)
  PROVE  Part(v, o2, lo, hi) /\ v \in Unit
<1>1. k \in Nat /\ o[hi].pending \in Nat /\ o[hi] \in Construct
  BY ConstructFacts
<1>2. Adds(c, k, 1) /\ Adds(Load, 0, 1)
  BY <1>1, AddsFacts
<1>3. CASE k = 0
  <2>1. k <= o[hi].pending /\ o2[hi].pending = o[hi].pending - k + 1
    BY <1>1, <1>3
  <2>2. v = Emitted(u, c)
    BY <1>3
  <2> QED
    BY <1>2, <2>1, <2>2, PartAdds
<1>4. CASE k = 1
  <2> DEFINE x == Emitted(u, Load)
  <2>1. 0 <= o[hi].pending /\ o2[hi].pending = o[hi].pending - 0 + 1
    BY <1>1
  <2>2. Part(x, o2, lo, hi) /\ x \in Unit
    BY <1>2, <2>1, PartAdds
  <2>3. v = Emitted(x, c)
    BY <1>4
  <2> HIDE DEF x
  <2>4. /\ \A i \in lo .. hi : o2[i] \in Construct
        /\ o2[hi].kind \in Expression /\ Alike(o2[hi], o2[hi])
    <3>1. \A i \in lo .. hi : i = hi \/ i \in lo .. hi - 1
      OBVIOUS
    <3> QED
      BY <3>1 DEF Alike
  <2>5. k <= o2[hi].pending /\ o2[hi].pending = o2[hi].pending - k + 1
    BY <1>1, <1>4
  <2>6. \A j \in lo .. hi - 1 : o2[j] = o2[j]
    OBVIOUS
  <2> QED
    BY <1>2, <2>2, <2>3, <2>4, <2>5, <2>6, PartAdds
<1> QED
  BY <1>3, <1>4

\* A deferred function, which DEFER takes off the stack again.
LEMMA FunctionDeferred ==
  ASSUME NEW u \in Unit, NEW o, NEW lo \in Nat, NEW hi \in Nat, lo <= hi,
         Part(u, o, lo, hi), \A i \in lo .. hi : o[i] \in Construct,
         o[hi].kind \notin Logical, o[hi].pending = 0, NEW k \in {0, 1}, NEW n \in Nat,
         NEW c, c = <<"CLOSURE", n, k>>,
         NEW f, f = Emitted(IF k = 0 THEN u ELSE Emitted(u, Load), c),
         NEW v, v = Emitted(f, <<"DEFER">>)
  PROVE  Part(v, o, lo, hi) /\ v \in Unit
<1> DEFINE W == Anchors(o, lo, hi)
           d == <<"DEFER">>
           x == Emitted(u, Load)
<1>0. k \in Nat
  OBVIOUS
<1>1. k \in Nat /\ Adds(c, k, 1) /\ Adds(Load, 0, 1) /\ Adds(d, 1, 0)
  BY <1>0, AddsFacts
<1>2. o[hi].kind \in Functional \cup {"then", "body"} => Settled(u)
  BY DEF Part
<1>3. Lies(u, o, lo, hi, W, 0)
  BY <1>2, LiesPart
<1> HIDE DEF W, d
<1>4. Lies(f, o, lo, hi, W, 1)
  <2>1. CASE k = 0
    <3>1. f = Emitted(u, c) /\ Adds(c, 0, 1)
      BY <1>1, <2>1
    <3>2. Lies(Emitted(u, c), o, lo, hi, W, 0 - 0 + 1)
      BY <1>3, <3>1, LiesAdds
    <3> QED
      BY <3>1, <3>2
  <2>2. CASE k = 1
    <3>1. f = Emitted(x, c) /\ Adds(c, 1, 1)
      BY <1>1, <2>2
    <3>2. Lies(x, o, lo, hi, W, 0 - 0 + 1)
      BY <1>1, <1>3, LiesAdds
    <3> HIDE DEF x
    <3>3. Lies(x, o, lo, hi, W, 1)
      BY <3>2
    <3>4. Lies(Emitted(x, c), o, lo, hi, W, 1 - 1 + 1)
      BY <3>1, <3>3, LiesAdds
    <3> QED
      BY <3>1, <3>4
  <2> QED
    BY <2>1, <2>2
<1>5. Lies(v, o, lo, hi, W, 1 - 1 + 0) /\ Settled(v)
  BY <1>1, <1>4, LiesAdds DEF d
<1>6. Lies(v, o, lo, hi, W, 0)
  BY <1>5
<1>7. v \in Unit
  BY <1>6, LiesFacts
<1> QED
  BY <1>5, <1>6, <1>7, LiesPart DEF W

LEMMA ShapedEndFunction ==
  ASSUME Typed, Shaped, NEW captures \in {0, 1}, EndFunction(captures)
  PROVE  Shaped'
<1> PICK base : Shape(base)
  BY DEF Shaped
<1>0. base[Len(units)] = Len(open)
  <2>1. open # <<>> /\ top.kind \in Functional
    BY DEF EndFunction, Top, Functional
  <2> DEFINE l == base[Len(units)]
             h == Len(open)
  <2>2. top.kind \in Functional => l = h
    BY <2>1, TopPart
  <2> QED
    BY <2>1, <2>2
<1> DEFINE n == Len(open)
           m == Len(units)
           b == Front(base)
           us == Front(units)
           o == Front(open)
           below == units[m - 1]
           lo == b[m - 1]
           hi == n - 1
           close == <<"CLOSURE", constants, captures>>
           defer == <<"DEFER">>
           deferral == IF top.kind = "deferred" THEN << defer >> ELSE <<>>
           f == Emitted(IF captures = 0 THEN below ELSE Emitted(below, Load), close)
           v == EmittedAll(below, Loads(captures) \o << close >> \o deferral)
           d == Operand(o[hi])
<1>1. /\ open # <<>> /\ top.kind \in {"function", "deferred"}
      /\ units' = [us EXCEPT ![m - 1] = v]
      /\ open' = IF top.kind = "deferred" THEN o ELSE [o EXCEPT ![hi] = d]
  BY DEF EndFunction, Top
<1>2. /\ units \in Seq(Unit) /\ open \in Seq(Construct) /\ Nested(open)
      /\ units # <<>> /\ m \in Nat \ {0} /\ n \in Nat /\ n > 1 /\ constants \in Nat
      /\ top = open[n] /\ Within(top, open[n - 1].kind)
  BY <1>1, TopFacts DEF Typed, UnitsOK, OpenOK
<1>3. base[m] = n
  BY <1>0
<1>4. Bases(base, units, open) /\ Parts(base, units, open)
  BY DEF Shape
<1> HIDE DEF close, defer, v, f, d, m, n, b, us, o, below, lo, hi
<1>5. 1 < m
  <2>1. base[1] = 1
    BY <1>2, <1>4 DEF Bases
  <2>2. m # 1
    BY <1>2, <1>3, <2>1
  <2> QED
    BY <1>2, <2>2
<1>6. Bases(b, us, o) /\ Parts(b, us, o)
  BY <1>2, <1>3, <1>4, <1>5, Dropped DEF m, n, b, us, o
<1>7. /\ us \in Seq(Unit) /\ Len(us) = m - 1 /\ us # <<>> /\ m - 1 \in DOMAIN us
      /\ us[m - 1] = below /\ below \in Unit
  <2>1. us \in Seq(Unit) /\ Len(us) = m - 1 /\ \A i \in 1 .. m - 1 : us[i] = units[i]
    BY <1>2, FrontIs DEF m, us
  <2>2. m - 1 \in 1 .. m - 1
    BY <1>2, <1>5
  <2> QED
    BY <2>1, <2>2 DEF below
<1>8. /\ o \in Seq(Construct) /\ Len(o) = hi /\ DOMAIN o = 1 .. hi /\ hi \in Nat \ {0}
      /\ o[hi] = open[hi] /\ o[hi] \in Construct /\ hi \in DOMAIN open
  <2>1. /\ o \in Seq(Construct) /\ Len(o) = hi /\ DOMAIN o = 1 .. hi
        /\ \A i \in 1 .. hi : o[i] = open[i]
    BY <1>2, FrontIs DEF n, o, hi
  <2>2. hi \in Nat \ {0} /\ hi \in 1 .. hi /\ hi \in DOMAIN open
    BY <1>2 DEF hi, n
  <2> QED
    BY <2>1, <2>2
<1>9. /\ lo \in Nat \ {0} /\ lo <= hi /\ o[lo].kind \in Functional
      /\ \A i \in lo + 1 .. hi : o[i].kind \notin Functional
      /\ Part(below, o, lo, hi) /\ lo = b[Len(us)]
  <2>1. /\ m - 1 \in DOMAIN b /\ lo \in Nat \ {0} /\ lo <= Upper(b, m - 1, o)
        /\ o[lo].kind \in Functional
        /\ Upper(b, m - 1, o) = hi
    <3> DEFINE k == m - 1
    <3>1. k \in DOMAIN us /\ k = Len(us)
      BY <1>7
    <3> HIDE DEF k
    <3>2. /\ k \in DOMAIN b /\ b[k] \in Nat \ {0} /\ b[k] <= Upper(b, k, o)
          /\ o[b[k]].kind \in Functional /\ Upper(b, k, o) = Len(o)
      BY <1>6, <1>7, <1>8, <3>1, BasesFacts
    <3> QED
      BY <1>8, <3>2 DEF lo, k
  <2>2. \A i \in lo + 1 .. hi : o[i].kind \notin Functional
    BY <1>6, <2>1 DEF Bases, lo
  <2>3. Part(us[m - 1], o, lo, hi)
    BY <1>6, <1>7, <2>1 DEF Parts, lo
  <2> QED
    BY <1>7, <2>1, <2>2, <2>3 DEF lo
<1>10. \A i \in lo .. hi : o[i] \in Construct
  BY <1>8, <1>9
<1>11. units' = [us EXCEPT ![Len(us)] = v]
  BY <1>1, <1>7
<1>12. /\ EmittedAll(below, Loads(captures) \o << close >> \o <<>>) = f
       /\ EmittedAll(below, Loads(captures) \o << close >> \o << defer >>) = Emitted(f, defer)
  BY ClosureIs, SMTT(40) DEF f
<1>13. CASE top.kind = "function"
  <2>1. v = f /\ open' = [o EXCEPT ![hi] = d]
    BY <1>1, <1>12, <1>13 DEF v
  <2>2. o[hi].kind \in Expression
    BY <1>2, <1>8, <1>13 DEF Within, hi
  <2>3. lo < hi
    <3>1. lo # hi
      BY <1>9, <2>2, KindsApart
    <3> QED
      BY <1>8, <1>9, <3>1
  <2>4. /\ d \in Construct /\ d.pending = o[hi].pending + 1 /\ Alike(o[hi], d)
    BY <1>8, SMTT(40) DEF d, Operand, Construct, Alike
  <2>5. /\ open' \in Seq(Construct) /\ Len(open') = hi
        /\ \A i \in 1 .. hi : open'[i] = IF i = hi THEN d ELSE o[i]
    BY <1>8, <2>1, <2>4, ExceptSeq
  <2> DEFINE p == open'
  <2>6. p \in Seq(Construct) /\ Len(p) = hi /\ p[hi] = d /\ \A i \in 1 .. hi - 1 : p[i] = o[i]
    BY <1>8, <2>5
  <2> HIDE DEF p
  <2>7. Part(v, p, lo, hi) /\ v \in Unit
    <3>1. \A j \in lo .. hi - 1 : p[j] = o[j]
      BY <1>8, <1>9, <2>6
    <3>2. Alike(o[hi], p[hi]) /\ p[hi].pending = o[hi].pending + 1 /\ p[hi] \in Construct
      BY <2>4, <2>6
    <3>3. close = <<"CLOSURE", constants, captures>> /\ constants \in Nat
      BY <1>2 DEF close
    <3>4. v = Emitted(IF captures = 0 THEN below ELSE Emitted(below, Load), close)
      BY <2>1 DEF f
    <3>5. below \in Unit /\ lo \in Nat /\ hi \in Nat /\ lo <= hi /\ Part(below, o, lo, hi)
      BY <1>7, <1>8, <1>9
    <3> QED
      BY <1>10, <2>2, <3>1, <3>2, <3>3, <3>4, <3>5, FunctionMade, ZenonT(40)
  <2>8. /\ lo <= Len(p) /\ \A i \in 1 .. lo - 1 : p[i] = o[i]
    BY <1>8, <1>9, <2>6
  <2>9. p[lo].kind \in Functional
    BY <1>8, <1>9, <2>3, <2>6
  <2>10. \A i \in lo + 1 .. Len(p) : p[i].kind \notin Functional
    <3> TAKE i \in lo + 1 .. Len(p)
    <3>1. CASE i = hi
      BY <2>2, <2>4, <2>6, <3>1, KindsApart DEF Alike
    <3>2. CASE i # hi
      <4>1. i \in 1 .. hi - 1 /\ i \in lo + 1 .. hi
        BY <1>8, <1>9, <2>6, <3>2
      <4> QED
        BY <1>9, <2>6, <4>1
    <3> QED
      BY <3>1, <3>2
  <2>11. Part(v, p, lo, Len(p))
    BY <2>6, <2>7
  <2>12. Bases(b, units', p) /\ Parts(b, units', p)
    BY <1>6, <1>7, <1>8, <1>9, <1>11, <2>6, <2>7, <2>8, <2>9, <2>10, <2>11, InnermostStep
  <2> QED
    BY <2>12 DEF Shaped, Shape, p
<1>14. CASE top.kind = "deferred"
  <2>1. v = Emitted(f, defer) /\ open' = o
    BY <1>1, <1>12, <1>14 DEF v
  <2>2. o[hi].kind \in Block
    BY <1>2, <1>8, <1>14 DEF Within, hi
  <2>3. o[hi].kind \notin Logical /\ o[hi].kind \notin Expression
    BY <2>2, KindsApart
  <2>4. o[hi].pending = 0
    BY <1>2, <1>8, <2>3 DEF Nested, Within
  <2>5. Part(v, o, lo, hi) /\ v \in Unit
    <3>3. close = <<"CLOSURE", constants, captures>> /\ constants \in Nat
      BY <1>2 DEF close
    <3>4. /\ f = Emitted(IF captures = 0 THEN below ELSE Emitted(below, Load), close)
          /\ v = Emitted(f, <<"DEFER">>)
      BY <2>1 DEF f, defer
    <3>5. below \in Unit /\ lo \in Nat /\ hi \in Nat /\ lo <= hi /\ Part(below, o, lo, hi)
      BY <1>7, <1>8, <1>9
    <3> QED
      BY <1>10, <2>3, <2>4, <3>3, <3>4, <3>5, FunctionDeferred, SMTT(40)
  <2>6. Bases(b, units', o) /\ Parts(b, units', o)
    <3>1. lo <= Len(o) /\ Part(v, o, lo, Len(o)) /\ \A i \in lo + 1 .. Len(o) : o[i].kind \notin Functional
      BY <1>8, <1>9, <2>5
    <3>2. \A i \in 1 .. lo - 1 : o[i] = o[i]
      OBVIOUS
    <3> QED
      BY <1>6, <1>7, <1>8, <1>9, <1>11, <2>5, <3>1, <3>2, InnermostStep
  <2> QED
    BY <2>1, <2>6 DEF Shaped, Shape
<1> QED
  BY <1>1, <1>13, <1>14

\* The end of the file.
LEMMA ShapedEndScript ==
  ASSUME Typed, Shaped, EndScript
  PROVE  Shaped'
<1> PICK base : Shape(base)
  BY DEF Shaped
<1>1. open # <<>> /\ top.kind = "script" /\ units' = <<>> /\ open' = Front(open)
  BY DEF EndScript, Top, Pop
<1>2. Len(open) = 1 /\ open \in Seq(Construct)
  BY <1>1, TopFacts DEF Typed, OpenOK
<1>3. open' = <<>>
  <2>1. Front(open) \in Seq(Construct) /\ Len(Front(open)) = 0
    BY <1>1, <1>2, FrontIs
  <2> QED
    BY <1>1, <2>1
<1> DEFINE b == <<>>
           us == <<>>
           o == <<>>
<1>4. b \in Seq(Nat \ {0}) /\ Len(b) = 0 /\ DOMAIN b = {} /\ DOMAIN us = {} /\ Len(us) = 0
  OBVIOUS
<1>5. us = <<>> /\ o = <<>>
  OBVIOUS
<1> HIDE DEF b, us, o
<1>6. Bases(b, us, o) /\ Parts(b, us, o)
  BY <1>4, <1>5 DEF Bases, Parts
<1>7. Bases(b, units', open') /\ Parts(b, units', open')
  BY <1>1, <1>3, <1>5, <1>6
<1> QED
  BY <1>7 DEF Shaped, Shape

LEMMA ShapedCollect ==
  ASSUME Typed, Shaped, PlainLoops, NEW i \in ListLiterals, Collect(i)
  PROVE  Shaped'
<1>1. Loops = {} /\ Operate(i)
  BY DEF Collect, LoopMayHold
<1> QED
  BY <1>1, ShapedOperate

LEMMA ShapedStep ==
  ASSUME Typed, Shaped, PlainLoops, [Next]_vars
  PROVE  Shaped'
<1>1. ASSUME NEW kind \in Literals, Literal(kind) PROVE Shaped'
  BY <1>1, ShapedLiteral
<1>2. ASSUME NEW i \in Postfix, Operate(i) PROVE Shaped'
  <2>1. CASE i \in ListLiterals
    <3>1. i[1] \in {"PACK", "MAP"}
      BY <2>1 DEF ListLiterals
    <3>2. i[1] \notin {"PACK", "MAP"}
      BY DEF Postfix, Store
    <3> QED
      BY <3>1, <3>2
  <2>2. CASE i \notin ListLiterals
    BY <1>2, <2>2, ShapedOperate
  <2> QED
    BY <2>1, <2>2
<1>3. ASSUME NEW i \in ListLiterals, Collect(i) PROVE Shaped'
  BY <1>3, ShapedCollect
<1>4. ASSUME NEW kind \in Logical, BeginLogical(kind) PROVE Shaped'
  BY <1>4, ShapedBeginLogical
<1>5. ASSUME NEW kind \in {"function", "deferred"}, BeginFunction(kind) PROVE Shaped'
  BY <1>5, ShapedBeginFunction
<1>6. ASSUME NEW captures \in {0, 1}, EndFunction(captures) PROVE Shaped'
  BY <1>6, ShapedEndFunction
<1>7. ASSUME NEW kind \in {"expression", "return", "if"}, Begin(kind) PROVE Shaped'
  BY <1>7, ShapedBegin
<1>8. ASSUME NEW id \in Exit, BeginJump(id) PROVE Shaped'
  BY <1>8, ShapedBeginJump
<1>9. EndLogical \/ EndExpression \/ EndReturn \/ NextCondition => Shaped'
  BY ShapedEndLogical, ShapedEndStatement, ShapedNextCondition
<1>10. BeginThen \/ EndThen \/ Else \/ ElseIf \/ EndIf => Shaped'
  BY ShapedBeginThen, ShapedEndThen, ShapedElse, ShapedElseIf, ShapedEndIf
<1>11. BeginFor \/ BeginForIn \/ BeginBody \/ BeginBodyIn => Shaped'
  BY ShapedBeginFor, ShapedBeginForIn, ShapedBeginBody, ShapedBeginBodyIn
<1>12. EndLoop \/ EndScript => Shaped'
  BY ShapedEndLoop, ShapedEndScript
<1>13. ASSUME UNCHANGED vars PROVE Shaped'
  <2>1. units' = units /\ open' = open
    BY <1>13 DEF vars
  <2>2. \E b : Bases(b, units', open') /\ Parts(b, units', open')
    BY <2>1 DEF Shaped, Shape
  <2> QED
    BY <2>2 DEF Shaped, Shape
<1>14. "and" \in Logical /\ "or" \in Logical /\ Exit = {"BREAK", "CONTINUE"}
  BY DEF Logical, Exit
<1> QED
  BY <1>1, <1>2, <1>3, <1>4, <1>5, <1>6, <1>7, <1>8, <1>9, <1>10, <1>11, <1>12, <1>13, <1>14
  DEF Next
-----------------------------------------------------------------------------
(* A finished unit.                                                        *)

Final(u) ==
  /\ \A g \in u.goals : At(u.code, g.at) = g.target
  /\ \A p \in Starts(u) : Following(u, p) \subseteq Starts(u)
  /\ ~u.chained => Balanced(u)

\* Only an instruction that ends the unit has nothing behind it.
LEMMA FollowingIs ==
  ASSUME NEW u \in Unit, Layout(u), u.sites # <<>>, u.last \in {Number["RET"], Number["HLT"]},
         NEW p \in Starts(u)
  PROVE  /\ EndOf(u, p) = Size(u) => IdAt(u, p) \in {"RET", "HLT"}
         /\ \A q \in Following(u, p) :
              \/ q = EndOf(u, p) /\ IdAt(u, p) \notin {"RET", "HLT"}
              \/ q = Target(u, p) /\ p \in Jumping(u)
<1>1. EndOf(u, p) = Size(u) => IdAt(u, p) \in {"RET", "HLT"}
  <2> SUFFICES ASSUME EndOf(u, p) = Size(u) PROVE IdAt(u, p) \in {"RET", "HLT"}
    OBVIOUS
  <2> DEFINE e == u.sites[Len(u.sites)].pos
  <2>1. e \in Starts(u)
    <3>1. u.sites \in Seq(Site) /\ Len(u.sites) \in DOMAIN u.sites
      BY UnitFacts
    <3> QED
      BY <3>1 DEF Starts, Range
  <2>2. EndOf(u, e) = Size(u) /\ u.last = At(u.code, e)
    BY DEF Layout
  <2> HIDE DEF e
  <2>3. /\ p \in Nat /\ p < Size(u) /\ e \in Nat /\ e < Size(u) /\ Size(u) \in Nat
    BY <2>1, SiteFacts, UnitFacts
  <2>4. p = e
    <3>1. p < e => EndOf(u, p) <= e
      BY <2>1 DEF Layout
    <3>2. e < p => EndOf(u, e) <= p
      BY <2>1 DEF Layout
    <3> QED
      BY <2>2, <2>3, <3>1, <3>2
  <2>5. {"RET", "HLT"} \subseteq Ids
    BY InstructionSizes DEF Plain
  <2>6. IdAt(u, e) = Id(u.last)
    BY <2>2 DEF IdAt
  <2> QED
    BY <2>4, <2>5, <2>6, Numbers
<1>2. ASSUME NEW q \in Following(u, p)
      PROVE  \/ q = EndOf(u, p) /\ IdAt(u, p) \notin {"RET", "HLT"}
             \/ q = Target(u, p) /\ p \in Jumping(u)
  <2> DEFINE id == IdAt(u, p)
             next == EndOf(u, p)
  <2>1. CASE id \in {"JMP", "BREAK", "CONTINUE", "JNZ"}
    <3>1. p \in Jumping(u) /\ Target(u, p) = At(u.code, p + 1)
      BY <2>1 DEF Jumping, Short, Exit, Target, Slot
    <3>2. Following(u, p) \subseteq {next, At(u.code, p + 1)}
      BY <2>1 DEF Following, EndOf
    <3>3. id \notin {"RET", "HLT"}
      BY <2>1
    <3> QED
      BY <3>1, <3>2, <3>3
  <2>2. CASE id = "CHK"
    <3>1. p \in Jumping(u) /\ Target(u, p) = At(u.code, p + 2)
      BY <2>2 DEF Jumping, Short, Exit, Target, Slot
    <3>2. Following(u, p) = {next, At(u.code, p + 2)}
      BY <2>2 DEF Following, EndOf
    <3> QED
      BY <2>2, <3>1, <3>2
  <2>3. CASE id \in {"RET", "HLT"}
    BY <2>3 DEF Following
  <2>4. CASE id \notin {"JMP", "BREAK", "CONTINUE", "JNZ", "CHK", "RET", "HLT"}
    <3>1. Following(u, p) = {next}
      BY <2>4 DEF Following, EndOf
    <3> QED
      BY <2>4, <3>1
  <2> QED
    BY <2>1, <2>2, <2>3, <2>4
<1> QED
  BY <1>1, <1>2

LEMMA FinalUnit ==
  ASSUME NEW u \in Unit, Laid(u, {}), Settled(u), u.sites # <<>>,
         u.last \in {Number["RET"], Number["HLT"]}
  PROVE  Final(u)
<1>1. Layout(u) /\ GoalsMet(u) /\ (~u.chained => Heights(u, {}))
  BY DEF Laid
<1>2. \A g \in u.goals : At(u.code, g.at) = g.target
  BY <1>1 DEF GoalsMet
<1>3. ASSUME NEW p \in Starts(u) PROVE Following(u, p) \subseteq Starts(u)
  <2> SUFFICES ASSUME NEW q \in Following(u, p) PROVE q \in Starts(u)
    OBVIOUS
  <2>1. \/ q = EndOf(u, p) /\ IdAt(u, p) \notin {"RET", "HLT"}
        \/ q = Target(u, p) /\ p \in Jumping(u)
    BY <1>1, FollowingIs
  <2>2. CASE q = EndOf(u, p) /\ IdAt(u, p) \notin {"RET", "HLT"}
    <3>1. EndOf(u, p) # Size(u)
      BY <1>1, <2>2, FollowingIs
    <3>2. EndOf(u, p) \in Starts(u) \cup {Size(u)}
      BY <1>1 DEF Layout
    <3> QED
      BY <2>2, <3>1, <3>2
  <2>3. CASE q = Target(u, p) /\ p \in Jumping(u)
    BY <2>3 DEF Settled
  <2> QED
    BY <2>1, <2>2, <2>3
<1>4. ASSUME ~u.chained PROVE Balanced(u)
  <2> SUFFICES ASSUME NEW s \in Range(u.sites), ~Stray(u, s.pos)
               PROVE  /\ Takes(IdAt(u, s.pos), Operands(u, s.pos)) <= s.height
                      /\ \A t \in Range(u.sites) :
                           t.pos \in Following(u, s.pos) => t.height = After(u, s)
    BY DEF Balanced, After
  <2>1. /\ Takes(IdAt(u, s.pos), Operands(u, s.pos)) <= s.height
        /\ Level(u, EndOf(u, s.pos), After(u, s))
        /\ s.pos \in Tied(u, {}) => Level(u, Target(u, s.pos), After(u, s))
    BY <1>1, <1>4 DEF Heights
  <2>2. s.pos \in Starts(u)
    BY DEF Starts
  <2>3. s.pos \in Jumping(u) => s.pos \in Tied(u, {})
    BY DEF Stray, Jumping, Tied, Exit
  <2>4. ASSUME NEW t \in Range(u.sites), t.pos \in Following(u, s.pos)
        PROVE  t.height = After(u, s)
    <3>1. t.pos = EndOf(u, s.pos) \/ (t.pos = Target(u, s.pos) /\ s.pos \in Jumping(u))
      BY <1>1, <2>2, <2>4, FollowingIs
    <3> QED
      BY <2>1, <2>3, <3>1 DEF Level
  <2> QED
    BY <2>1, <2>4
<1> QED
  BY <1>2, <1>3, <1>4 DEF Final

\* A unit the last instruction of which, POP, has become RET.
Returned(u, v, e) ==
  /\ v \in Unit /\ Size(v) = Size(u) /\ v.sites = u.sites
  /\ v.goals = u.goals /\ v.chained = u.chained
  /\ ~u.chained => v.height = u.height
  /\ v.last = Number["RET"] /\ At(v.code, e) = Number["RET"]
  /\ \A i \in 0 .. Size(u) - 1 : i # e => At(v.code, i) = At(u.code, i)
  /\ e \in Starts(u) /\ IdAt(u, e) = "POP" /\ EndOf(u, e) = Size(u)
  /\ u.sites # <<>> /\ e = u.sites[Len(u.sites)].pos

LEMMA ReturnedKeeps ==
  ASSUME NEW u \in Unit, Layout(u), NEW v, NEW e, Returned(u, v, e), NEW p \in Starts(u)
  PROVE  /\ IdAt(v, p) = IF p = e THEN "RET" ELSE IdAt(u, p)
         /\ At(v.code, p) = IF p = e THEN Number["RET"] ELSE At(u.code, p)
         /\ EndOf(v, p) = EndOf(u, p)
         /\ p # e => Operands(v, p) = Operands(u, p)
         /\ IdAt(u, p) \in Short \cup Exit => p # e /\ Target(v, p) = Target(u, p)
<1>1. /\ v \in Unit /\ Size(v) = Size(u) /\ e \in Starts(u) /\ IdAt(u, e) = "POP"
      /\ EndOf(u, e) = Size(u)
  BY DEF Returned
<1>2. /\ p \in Nat /\ p < Size(u) /\ Size(u) \in Nat /\ EndOf(u, p) <= Size(u)
      /\ EndOf(u, p) = p + 1 + Reads(IdAt(u, p)) /\ Reads(IdAt(u, p)) \in 0 .. 2
      /\ e \in Nat /\ e < Size(u)
  BY <1>1, SiteFacts, UnitFacts
<1>3. CASE p = e
  <2>1. {"RET", "POP"} \subseteq Ids /\ Reads("RET") = 0 /\ Reads("POP") = 0
    BY InstructionSizes DEF Plain
  <2>2. At(v.code, p) = Number["RET"]
    BY <1>3 DEF Returned
  <2>3. IdAt(v, p) = "RET"
    BY <2>1, <2>2, Numbers DEF IdAt
  <2>4. EndOf(v, p) = EndOf(u, p)
    BY <1>1, <1>3, <2>1, <2>3 DEF EndOf
  <2>5. "POP" \notin Short \cup Exit
    BY DEF Short, Exit
  <2> QED
    BY <1>1, <1>3, <2>2, <2>3, <2>4, <2>5
<1>4. CASE p # e
  <2>1. ASSUME NEW i \in Nat, p <= i, i < EndOf(u, p) PROVE At(v.code, i) = At(u.code, i)
    <3>1. p < e /\ EndOf(u, p) <= e
      <4>1. e < p => EndOf(u, e) <= p
        BY <1>1 DEF Layout
      <4>2. p < e => EndOf(u, p) <= e
        BY <1>1 DEF Layout
      <4> QED
        BY <1>1, <1>2, <1>4, <4>1, <4>2
    <3>2. i \in 0 .. Size(u) - 1 /\ i # e
      BY <1>2, <2>1, <3>1
    <3> QED
      BY <3>2 DEF Returned
  <2>2. At(v.code, p) = At(u.code, p)
    BY <1>2, <2>1
  <2>3. IdAt(v, p) = IdAt(u, p)
    BY <2>2 DEF IdAt
  <2>4. EndOf(v, p) = EndOf(u, p) /\ Slot(v, p) = Slot(u, p)
    BY <2>3 DEF EndOf, Slot
  <2>5. Operands(v, p) = Operands(u, p)
    <3> DEFINE k == Reads(IdAt(u, p))
               a == p + 2
               b == p + 1 + k
    <3>2. \A j \in a .. b : u.code[j] = v.code[j]
      <4> TAKE j \in a .. b
      <4>1. j - 1 \in Nat /\ p <= j - 1 /\ j - 1 < EndOf(u, p) /\ j - 1 + 1 = j
        BY <1>2
      <4> QED
        BY <2>1, <4>1 DEF At
    <3>3. Operands(v, p) = SubSeq(v.code, a, b) /\ Operands(u, p) = SubSeq(u.code, a, b)
      BY <2>3 DEF Operands
    <3>4. a \in Nat /\ b \in Nat /\ a > 0 /\ u.code \in Seq(Nat) /\ v.code \in Seq(Nat)
      BY <1>1, <1>2, UnitFacts
    <3> HIDE DEF a, b, k
    <3>5. /\ SubSeq(v.code, a, b) = [j \in 1 .. b - a + 1 |-> v.code[j + a - 1]]
          /\ SubSeq(u.code, a, b) = [j \in 1 .. b - a + 1 |-> u.code[j + a - 1]]
      BY <3>4
    <3>6. \A j \in 1 .. b - a + 1 : j + a - 1 \in a .. b
      BY <3>4
    <3> QED
      BY <3>2, <3>3, <3>5, <3>6
  <2>6. ASSUME IdAt(u, p) \in Short \cup Exit PROVE Target(v, p) = Target(u, p)
    <3>1. Slot(u, p) \in Nat /\ p < Slot(u, p) /\ Slot(u, p) < EndOf(u, p)
      BY <2>6, SlotInside DEF Jumping
    <3>2. At(v.code, Slot(u, p)) = At(u.code, Slot(u, p))
      BY <1>2, <2>1, <3>1
    <3> QED
      BY <2>4, <3>2 DEF Target
  <2> QED
    BY <1>4, <2>2, <2>3, <2>4, <2>5, <2>6
<1> QED
  BY <1>3, <1>4

LEMMA ReturnedLevel ==
  ASSUME NEW u, NEW v, NEW e, Returned(u, v, e), ~u.chained, NEW q, NEW h
  PROVE  Level(v, q, h) <=> Level(u, q, h)
  BY DEF Level, Returned

LEMMA ReturnedFinal ==
  ASSUME NEW u \in Unit, Laid(u, {}), Settled(u), NEW v, NEW e, Returned(u, v, e)
  PROVE  Final(v)
<1>0. /\ Layout(u) /\ GoalsMet(u) /\ (~u.chained => Heights(u, {}))
      /\ Size(v) = Size(u) /\ v.sites = u.sites /\ v.last = Number["RET"] /\ u.sites # <<>>
      /\ v.goals = u.goals /\ v.chained = u.chained
      /\ Starts(v) = Starts(u) /\ v \in Unit /\ At(v.code, e) = Number["RET"]
      /\ e \in Starts(u) /\ IdAt(u, e) = "POP" /\ EndOf(u, e) = Size(u)
      /\ e = u.sites[Len(u.sites)].pos
  BY DEF Laid, Returned, Starts
<1>1. \A p \in Starts(u) :
        /\ IdAt(v, p) = IF p = e THEN "RET" ELSE IdAt(u, p)
        /\ At(v.code, p) = IF p = e THEN Number["RET"] ELSE At(u.code, p)
        /\ EndOf(v, p) = EndOf(u, p)
        /\ p # e => Operands(v, p) = Operands(u, p)
        /\ IdAt(u, p) \in Short \cup Exit => p # e /\ Target(v, p) = Target(u, p)
  BY <1>0, ReturnedKeeps, SMTT(40)
<1>2. "RET" \in Ids /\ Number["RET"] \in 0 .. 43 /\ Len(OpcodeList) = 44
      /\ "RET" \notin Short \cup Exit
  <2>1. "RET" \in Ids
    BY InstructionSizes DEF Plain
  <2> QED
    BY <2>1, Numbers, Opcodes, ZenonT(40) DEF Short, Exit
<1>3. Layout(v)
  <2>1. \A p \in Starts(v) : /\ p < Size(v) /\ At(v.code, p) < Len(OpcodeList)
                             /\ EndOf(v, p) \in Starts(v) \cup {Size(v)}
    <3> SUFFICES ASSUME NEW p \in Starts(u)
                 PROVE  /\ p < Size(u) /\ At(v.code, p) < 44
                        /\ EndOf(v, p) \in Starts(u) \cup {Size(u)}
      BY <1>0, <1>2
    <3>1. p < Size(u) /\ At(u.code, p) < 44 /\ EndOf(u, p) \in Starts(u) \cup {Size(u)}
      BY <1>0, <1>2 DEF Layout
    <3>2. Number["RET"] < 44
      BY <1>2
    <3> QED
      BY <1>1, <3>1, <3>2
  <2>2. \A p, q \in Starts(v) : p < q => EndOf(v, p) <= q
    BY <1>0, <1>1 DEF Layout
  <2>3. 0 \in Starts(v) \cup {Size(v)}
    BY <1>0 DEF Layout
  <2>4. \A j, k \in DOMAIN v.sites : v.sites[j].pos = v.sites[k].pos => j = k
    BY <1>0 DEF Layout
  <2>5. EndOf(v, e) = Size(v) /\ v.last = At(v.code, e) /\ v.sites # <<>>
    BY <1>0, <1>1
  <2> QED
    BY <1>0, <2>1, <2>2, <2>3, <2>4, <2>5 DEF Layout
<1>4. Jumping(v) = Jumping(u) /\ \A p \in Jumping(u) : Target(v, p) = Target(u, p)
  BY <1>0, <1>1, <1>2 DEF Jumping
<1>5. Settled(v) /\ Lands(v)
  BY <1>0, <1>4 DEF Settled, Lands
<1>6. GoalsMet(v)
  <2> SUFFICES ASSUME NEW g \in u.goals
               PROVE  /\ g.at - 1 \in Starts(u) /\ IdAt(v, g.at - 1) \in Exit
                      /\ At(v.code, g.at) = g.target
    BY <1>0 DEF GoalsMet
  <2>1. /\ g.at \in Nat /\ g.at - 1 \in Starts(u) /\ IdAt(u, g.at - 1) \in Exit
        /\ At(u.code, g.at) = g.target
    BY <1>0, UnitFacts DEF GoalsMet
  <2>2. /\ IdAt(v, g.at - 1) = IdAt(u, g.at - 1)
        /\ Target(v, g.at - 1) = Target(u, g.at - 1)
    BY <1>1, <2>1
  <2>3. Slot(u, g.at - 1) = g.at /\ Slot(v, g.at - 1) = g.at
    BY <2>1, <2>2 DEF Slot, Exit
  <2> QED
    BY <2>1, <2>2, <2>3 DEF Target
<1>7. ASSUME ~u.chained PROVE Heights(v, {})
  <2>1. Heights(u, {})
    BY <1>0, <1>7
  <2>2. Level(v, 0, 0)
    BY <1>7, <2>1, ReturnedLevel DEF Heights
  <2>3. ASSUME NEW s \in Range(u.sites)
        PROVE  /\ Takes(IdAt(v, s.pos), Operands(v, s.pos)) <= s.height
               /\ Level(v, EndOf(v, s.pos), After(v, s))
               /\ s.pos \in Tied(v, {}) => Level(v, Target(v, s.pos), After(v, s))
    <3>1. s.pos \in Starts(u)
      BY DEF Starts
    <3>2. /\ Takes(IdAt(u, s.pos), Operands(u, s.pos)) <= s.height
          /\ Level(u, EndOf(u, s.pos), After(u, s))
          /\ s.pos \in Tied(u, {}) => Level(u, Target(u, s.pos), After(u, s))
      BY <2>1 DEF Heights
    <3>3. /\ Takes(IdAt(v, s.pos), Operands(v, s.pos)) = Takes(IdAt(u, s.pos), Operands(u, s.pos))
          /\ After(v, s) = After(u, s)
      <4>1. CASE s.pos = e
        <5>1. IdAt(v, s.pos) = "RET" /\ IdAt(u, s.pos) = "POP"
          BY <1>0, <1>1, <3>1, <4>1
        <5>2. \A w : Takes("RET", w) = 1 /\ Takes("POP", w) = 1
          BY DEF Takes
        <5>3. Gives("RET") = 0 /\ Gives("POP") = 0
          BY GivesOne
        <5> QED
          BY <5>1, <5>2, <5>3 DEF After
      <4>2. CASE s.pos # e
        <5>1. IdAt(v, s.pos) = IdAt(u, s.pos) /\ Operands(v, s.pos) = Operands(u, s.pos)
          BY <1>1, <3>1, <4>2
        <5> QED
          BY <5>1 DEF After
      <4> QED
        BY <4>1, <4>2
    <3>4. ASSUME s.pos \in Tied(v, {}) PROVE Level(v, Target(v, s.pos), After(v, s))
      <4>1. s.pos \in Tied(u, {}) /\ IdAt(u, s.pos) \in Short \cup Exit
        <5>1. IdAt(v, s.pos) \in Short \cup Exit
          BY <3>4 DEF Tied
        <5>2. IdAt(v, s.pos) = IdAt(u, s.pos)
          BY <1>1, <1>2, <3>1, <5>1
        <5> QED
          BY <1>0, <3>1, <3>4, <5>1, <5>2 DEF Tied
      <4>2. Target(v, s.pos) = Target(u, s.pos)
        BY <1>1, <3>1, <4>1
      <4> QED
        BY <1>7, <3>2, <3>3, <4>1, <4>2, ReturnedLevel
    <3> QED
      BY <1>1, <1>7, <3>1, <3>2, <3>3, <3>4, ReturnedLevel
  <2> QED
    BY <1>0, <2>2, <2>3 DEF Heights
<1>8. Laid(v, {})
  BY <1>0, <1>3, <1>5, <1>6, <1>7 DEF Laid
<1> QED
  BY <1>0, <1>5, <1>8, FinalUnit

LEMMA PopReturned ==
  ASSUME NEW u \in Unit, Laid(u, {}), u.last = Number["POP"], NEW v, v = Completed(u)
  PROVE  \E e : Returned(u, v, e)
<1> DEFINE n == Len(u.sites)
           t == u.sites[n]
           e == t.pos
           c == Front(u.code)
           s == Front(u.sites)
           h == t.height
           x == PopBack(u)
<1>1. /\ Layout(u) /\ (~u.chained => Heights(u, {}))
      /\ u.code \in Seq(Nat) /\ u.sites \in Seq(Site) /\ n \in Nat /\ Size(u) \in Nat
  BY UnitFacts DEF Laid
<1>2. {"POP", "RET", "CONST_"} \subseteq Ids /\ Reads("POP") = 0 /\ Reads("RET") = 0
  BY InstructionSizes DEF Plain
<1>3. Number["POP"] # Number["CONST_"] /\ Number["POP"] # Number["RET"]
  <2>1. Id(Number["POP"]) = "POP" /\ Id(Number["RET"]) = "RET" /\ Id(Number["CONST_"]) = "CONST_"
    BY <1>2, Numbers
  <2> QED
    BY <2>1
<1>4. u.sites # <<>>
  BY <1>1, <1>3 DEF Layout
<1>5. EndOf(u, e) = Size(u) /\ u.last = At(u.code, e)
  BY <1>1, <1>4 DEF Layout
<1>6. t \in Range(u.sites) /\ t \in Site /\ n \in Nat \ {0}
  BY <1>1, <1>4 DEF Range
<1>7. e \in Starts(u) /\ e \in Nat /\ h \in Int /\ t = [pos |-> e, height |-> h]
  BY <1>6 DEF Starts, Site
<1> HIDE DEF n, t, e, h
<1>8. IdAt(u, e) = "POP"
  BY <1>2, <1>5, Numbers DEF IdAt
<1>9. Size(u) = e + 1
  BY <1>2, <1>5, <1>7, <1>8 DEF EndOf
<1>10. u.code # <<>> /\ Len(u.code) = e + 1
  BY <1>1, <1>7, <1>9 DEF Size
<1>11. c \in Seq(Nat) /\ Len(c) = e /\ \A i \in 1 .. e : c[i] = u.code[i]
  <2>1. /\ c \in Seq(Nat) /\ Len(c) = Len(u.code) - 1
        /\ \A i \in 1 .. Len(u.code) - 1 : c[i] = u.code[i]
    BY <1>1, <1>10, FrontIs
  <2>2. Len(u.code) - 1 = e
    BY <1>7, <1>10
  <2> HIDE DEF c
  <2> QED
    BY <2>1, <2>2
<1>12. s \in Seq(Site) /\ Len(s) = n - 1 /\ \A i \in 1 .. n - 1 : s[i] = u.sites[i]
  BY <1>1, <1>4, FrontIs DEF n
<1>13. x = [u EXCEPT !.code = c, !.sites = s, !.height = h]
  BY DEF PopBack, Unit, c, s, h, t, n
<1> HIDE DEF c, s, x
<1>14. /\ x \in Unit /\ x.code = c /\ x.sites = s /\ x.height = h /\ Size(x) = e
       /\ x.goals = u.goals /\ x.chained = u.chained
  BY <1>7, <1>11, <1>12, <1>13 DEF Unit, Size
<1>15. v = Put(x, "RET", <<>>)
  <2>1. v = Emitted(x, <<"RET">>)
    BY <1>3 DEF Completed, x
  <2> QED
    BY <2>1, EmittedPut
<1>16. Extends(x, "RET", <<>>, v)
  <2>1. Instruction("RET", <<>>)
    BY Instructions
  <2> QED
    BY <1>14, <1>15, <2>1, PutExtends
<1>17. /\ v \in Unit /\ Size(v) = Size(u) /\ At(v.code, e) = Number["RET"]
       /\ v.goals = u.goals /\ v.chained = u.chained
       /\ v.sites = Append(s, [pos |-> e, height |-> h])
       /\ v.last = Number["RET"]
       /\ v.height = h - Takes("RET", <<>>) + Gives("RET")
       /\ \A i \in 0 .. e - 1 : At(v.code, i) = At(c, i)
  BY <1>2, <1>7, <1>9, <1>14, <1>16 DEF Extends
<1>18. v.sites = u.sites
  <2>1. v.sites \in Seq(Site) /\ v.sites = Append(s, t)
    BY <1>7, <1>17, UnitFacts
  <2>2. Len(v.sites) = n /\ \A i \in 1 .. n : v.sites[i] = u.sites[i]
    <3>1. Len(v.sites) = n - 1 + 1 /\ v.sites[n] = t /\ \A i \in 1 .. n - 1 : v.sites[i] = s[i]
      BY <1>6, <1>12, <2>1
    <3>2. u.sites[n] = t
      BY DEF t
    <3>3. \A i \in 1 .. n : i = n \/ i \in 1 .. n - 1
      BY <1>6
    <3> QED
      BY <1>6, <1>12, <3>1, <3>2, <3>3
  <2>3. Len(u.sites) = n
    BY DEF n
  <2> QED
    BY <1>1, <2>1, <2>2, <2>3, SeqEqual
<1>19. \A i \in 0 .. Size(u) - 1 : i # e => At(v.code, i) = At(u.code, i)
  <2> SUFFICES ASSUME NEW i \in 0 .. Size(u) - 1, i # e PROVE At(v.code, i) = At(u.code, i)
    OBVIOUS
  <2>1. i \in 0 .. e - 1 /\ i + 1 \in 1 .. e
    BY <1>7, <1>9
  <2>2. At(v.code, i) = At(c, i)
    BY <1>17, <2>1
  <2> QED
    BY <1>11, <2>1, <2>2 DEF At
<1>20. ~u.chained => v.height = u.height
  <2> SUFFICES ASSUME ~u.chained PROVE v.height = u.height
    OBVIOUS
  <2>1. e = t.pos /\ h = t.height
    BY DEF e, h
  <2>2. Level(u, EndOf(u, e), After(u, t))
    BY <1>1, <1>6, <2>1 DEF Heights
  <2>3. u.height = After(u, t)
    BY <1>5, <2>2 DEF Level
  <2>4. Takes("RET", <<>>) = 1 /\ \A w : Takes("POP", w) = 1
    BY DEF Takes
  <2>5. Gives("RET") = 0 /\ Gives("POP") = 0
    BY GivesOne
  <2>6. After(u, t) = h - 1 + 0
    BY <1>8, <2>1, <2>4, <2>5 DEF After
  <2> QED
    BY <1>17, <2>3, <2>4, <2>5, <2>6
<1>21. e = u.sites[Len(u.sites)].pos
  BY DEF e, t, n
<1>22. Returned(u, v, e)
  BY <1>4, <1>5, <1>7, <1>8, <1>17, <1>18, <1>19, <1>20, <1>21 DEF Returned
<1> QED
  BY <1>22

\* The unit of a construct that is a function, completed.
LEMMA LastEmitted ==
  ASSUME NEW u \in Unit, NEW id \in {"RET", "HLT"}
  PROVE  Emitted(u, <<id>>).last = Number[id] /\ Emitted(u, <<id>>).sites # <<>>
<1>1. Instruction(id, <<>>) /\ Emitted(u, <<id>>) = Put(u, id, <<>>)
  BY Instructions, EmittedPut
<1>2. Extends(u, id, <<>>, Put(u, id, <<>>))
  BY <1>1, PutExtends
<1>3. u.sites \in Seq(Site)
  BY UnitFacts
<1>4. Emitted(u, <<id>>).sites = Append(u.sites, [pos |-> Size(u), height |-> u.height])
  BY <1>1, <1>2 DEF Extends
<1> QED
  BY <1>1, <1>2, <1>3, <1>4 DEF Extends

LEMMA CompletedFinal ==
  ASSUME NEW u, NEW o, NEW lo, NEW hi, Lies(u, o, lo, hi, {}, 0), Settled(u)
  PROVE  Final(Completed(u))
<1>1. u \in Unit /\ Laid(u, {}) /\ Layout(u)
  BY LiesFacts DEF Frame
<1>2. CASE u.last = Number["POP"]
  <2>1. \E e : Returned(u, Completed(u), e)
    BY <1>1, <1>2, PopReturned
  <2> QED
    BY <1>1, <2>1, ReturnedFinal
<1>3. CASE u.last = Number["RET"]
  <2>1. Number["RET"] # Number["CONST_"] /\ Number["RET"] # Number["POP"]
    <3>1. {"POP", "RET", "CONST_"} \subseteq Ids
      BY InstructionSizes DEF Plain
    <3>2. /\ Id(Number["POP"]) = "POP" /\ Id(Number["RET"]) = "RET"
          /\ Id(Number["CONST_"]) = "CONST_"
      BY <3>1, Numbers
    <3> QED
      BY <3>2
  <2>2. u.sites # <<>>
    BY <1>1, <1>3, <2>1 DEF Layout
  <2>3. Completed(u) = u
    BY <1>3, <2>1 DEF Completed
  <2> QED
    BY <1>1, <1>3, <2>2, <2>3, FinalUnit
<1>4. CASE u.last # Number["POP"] /\ u.last # Number["RET"]
  <2> DEFINE null == <<"CONST_NULL">>
             ret == <<"RET">>
             x == Emitted(u, null)
             v == Emitted(x, ret)
             S == {null, ret}
             is == <<null, ret>>
  <2>1. Completed(u) = EmittedAll(u, is)
    BY <1>4 DEF Completed
  <2>2. Adds(null, 0, 1) /\ Adds(ret, 1, 0)
    BY AddsFacts
  <2>3. x \in Unit => v.last = Number["RET"] /\ v.sites # <<>>
    BY LastEmitted
  <2> HIDE DEF null, ret
  <2>4. is \in Seq(S) /\ Len(is) = 2 /\ is[1] = null /\ is[2] = ret
    OBVIOUS
  <2> HIDE DEF is, S
  <2>5. EmittedAll(u, is) = v
    BY <2>4, EmittedFew
  <2>6. Lies(x, o, lo, hi, {}, 0 - 0 + 1)
    BY <2>2, LiesAdds
  <2> HIDE DEF x
  <2>7. Lies(x, o, lo, hi, {}, 1) /\ x \in Unit
    BY <2>6, LiesFacts
  <2>8. Lies(v, o, lo, hi, {}, 1 - 1 + 0) /\ Settled(v)
    BY <2>2, <2>7, LiesAdds
  <2> HIDE DEF v
  <2>9. Laid(v, {}) /\ v \in Unit
    BY <2>8, LiesFacts DEF Frame
  <2> QED
    BY <2>1, <2>3, <2>5, <2>7, <2>8, <2>9, FinalUnit
<1> QED
  BY <1>2, <1>3, <1>4

LEMMA HaltedFinal ==
  ASSUME NEW u, NEW o, NEW lo, NEW hi, Lies(u, o, lo, hi, {}, 0)
  PROVE  Final(Emitted(u, <<"HLT">>))
<1> DEFINE halt == <<"HLT">>
           v == Emitted(u, halt)
<1>1. u \in Unit /\ Adds(halt, 0, 0)
  BY LiesFacts, AddsFacts
<1>2. v.last = Number["HLT"] /\ v.sites # <<>>
  BY <1>1, LastEmitted
<1> HIDE DEF halt
<1>3. Lies(v, o, lo, hi, {}, 0 - 0 + 0) /\ Settled(v)
  BY <1>1, LiesAdds
<1> HIDE DEF v
<1>4. Laid(v, {}) /\ v \in Unit
  BY <1>3, LiesFacts DEF Frame
<1>5. Final(v)
  BY <1>2, <1>3, <1>4, FinalUnit
<1> QED
  BY <1>5 DEF v, halt

\* A function or a script is completed when nothing else is open in it.
LEMMA FinishedUnit ==
  ASSUME Typed, Shaped, open # <<>>, top.kind \in Functional
  PROVE  Final(Completed(inst)) /\ Final(Emitted(inst, <<"HLT">>))
<1> PICK base : Shape(base)
  BY DEF Shaped
<1> DEFINE lo == base[Len(units)]
           hi == Len(open)
           W == Anchors(open, lo, hi)
<1>1. /\ lo \in Nat \ {0} /\ hi \in Nat \ {0} /\ lo = hi /\ top = open[hi]
      /\ top.pending = 0 /\ Settled(inst)
  <2>1. top.kind \notin Expression
    BY KindsApart
  <2> QED
    BY <2>1, TopPart
<1>2. top.kind \notin Logical
  BY DEF Functional, Logical
<1>3. Lies(inst, open, lo, hi, W, 0)
  BY <1>1, <1>2, LiesTop
<1>4. W = {}
  <2>1. top.kind \notin Anchored
    BY DEF Functional, Anchored
  <2> HIDE DEF lo, hi
  <2>2. lo .. hi = {hi}
    BY <1>1
  <2> QED
    BY <1>1, <2>1, <2>2 DEF W, Anchors
<1> HIDE DEF lo, hi, W
<1>5. Lies(inst, open, lo, hi, {}, 0)
  BY <1>3, <1>4
<1> QED
  BY <1>1, <1>5, CompletedFinal, HaltedFinal

LEMMA FinishedKept ==
  ASSUME [Next]_vars, ~EndScript, \A captures \in {0, 1} : ~EndFunction(captures)
  PROVE  finished' = finished
<1>1. ASSUME NEW kind \in Literals, Literal(kind) PROVE finished' = finished
  BY <1>1 DEF Literal
<1>2. ASSUME NEW i, Operate(i) PROVE finished' = finished
  BY <1>2 DEF Operate
<1>3. ASSUME NEW i, Collect(i) PROVE finished' = finished
  BY <1>2, <1>3 DEF Collect
<1>4. ASSUME NEW kind, BeginLogical(kind) PROVE finished' = finished
  BY <1>4 DEF BeginLogical
<1>5. ASSUME NEW kind, BeginFunction(kind) PROVE finished' = finished
  BY <1>5 DEF BeginFunction
<1>6. ASSUME NEW kind, Begin(kind) PROVE finished' = finished
  BY <1>6 DEF Begin
<1>7. ASSUME NEW id, BeginJump(id) PROVE finished' = finished
  BY <1>7 DEF BeginJump
<1>8. EndLogical \/ EndExpression \/ EndReturn \/ NextCondition => finished' = finished
  BY DEF EndLogical, EndExpression, EndReturn, NextCondition
<1>9. BeginThen \/ EndThen \/ Else \/ ElseIf \/ EndIf => finished' = finished
  BY DEF BeginThen, EndThen, Else, ElseIf, EndIf
<1>10. BeginFor \/ BeginForIn \/ BeginBody \/ BeginBodyIn => finished' = finished
  BY DEF BeginFor, BeginForIn, BeginBody, BeginBodyIn
<1>11. EndLoop => finished' = finished
  BY DEF EndLoop
<1>12. UNCHANGED vars => finished' = finished
  BY DEF vars
<1> QED
  BY <1>1, <1>2, <1>3, <1>4, <1>5, <1>6, <1>7, <1>8, <1>9, <1>10, <1>11, <1>12 DEF Next

LEMMA FinishedStep ==
  ASSUME Typed, Shaped, Final(finished), [Next]_vars
  PROVE  Final(finished')
<1>1. CASE EndScript
  <2>1. open # <<>> /\ top.kind = "script" /\ finished' = Emitted(inst, <<"HLT">>)
    BY <1>1 DEF EndScript, Top
  <2> QED
    BY <2>1, FinishedUnit DEF Functional
<1>2. ASSUME NEW captures \in {0, 1}, EndFunction(captures) PROVE Final(finished')
  <2>1. open # <<>> /\ top.kind \in {"function", "deferred"} /\ finished' = Completed(inst)
    BY <1>2 DEF EndFunction, Top
  <2> QED
    BY <2>1, FinishedUnit DEF Functional
<1>3. CASE ~EndScript /\ \A captures \in {0, 1} : ~EndFunction(captures)
  BY <1>3, FinishedKept
<1> QED
  BY <1>1, <1>2, <1>3
-----------------------------------------------------------------------------
(* The theorems.                                                           *)

Inv == Typed /\ Shaped /\ Final(finished)

LEMMA Invariance == ASSUME PlainLoops PROVE Spec => []Inv
<1>1. ASSUME Init PROVE Inv
  <2>1. Final(EmptyUnit)
    BY EmptyFacts DEF Final, Balanced
  <2>2. finished = EmptyUnit
    BY <1>1 DEF Init
  <2> QED
    BY <1>1, <2>1, <2>2, TypedInit, ShapedInit DEF Inv
<1>2. ASSUME Inv, [Next]_vars PROVE Inv'
  <2>1. Typed /\ Shaped /\ Final(finished)
    BY <1>2 DEF Inv
  <2>2. Typed'
    BY <1>2, <2>1, TypedStep
  <2>3. Shaped'
    BY <1>2, <2>1, ShapedStep
  <2>4. Final(finished')
    BY <1>2, <2>1, FinishedStep
  <2> QED
    BY <2>2, <2>3, <2>4 DEF Inv
<1> QED
  BY <1>1, <1>2, PTL DEF Spec

\* Each break and continue of a finished loop jumps to the end or the start of
\* that loop and stays so, however deep loops, conditions and functions nest
\* and however long the code is, as long as no loop holds a list, a map, `and'
\* or `or' (patch_loop takes their operands for opcodes).
THEOREM LoopJumpsAreRight == ASSUME PlainLoops PROVE Spec => []JumpsReachTheirLoop
<1>1. ASSUME Inv PROVE JumpsReachTheirLoop
  <2>1. Typed /\ Shaped /\ Final(finished)
    BY <1>1 DEF Inv
  <2>2. PICK base : Bases(base, units, open) /\ Parts(base, units, open)
    BY <2>1 DEF Shaped, Shape
  <2>3. ASSUME NEW u \in Range(units) PROVE \A g \in u.goals : At(u.code, g.at) = g.target
    <3>1. PICK k \in DOMAIN units : u = units[k]
      BY DEF Range
    <3>2. Part(u, open, base[k], Upper(base, k, open))
      BY <2>2, <3>1 DEF Parts
    <3>3. GoalsMet(u)
      BY <3>2 DEF Part, Frame, Laid
    <3> QED
      BY <3>3 DEF GoalsMet
  <2>4. \A g \in finished.goals : At(finished.code, g.at) = g.target
    BY <2>1 DEF Final
  <2> QED
    BY <2>3, <2>4 DEF JumpsReachTheirLoop
<1> QED
  BY <1>1, Invariance, PTL

\* Finished code of any length never runs off its end and never jumps into the
\* middle of an instruction, with the same proviso.
THEOREM CodeIsClosed == ASSUME PlainLoops PROVE Spec => []JumpsLand
<1>1. ASSUME Inv PROVE JumpsLand
  BY <1>1 DEF Inv, Final, JumpsLand
<1> QED
  BY <1>1, Invariance, PTL

\* In finished code of any length each instruction is reached with one height
\* of the operand stack, whatever the path, and finds what it takes there, as
\* long as every condition has one part; with the same proviso.
THEOREM StackIsBalanced == ASSUME PlainLoops PROVE Spec => []StackBalanced
<1>1. ASSUME Inv PROVE StackBalanced
  BY <1>1 DEF Inv, Final, StackBalanced
<1> QED
  BY <1>1, Invariance, PTL
=============================================================================
