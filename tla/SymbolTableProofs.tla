-------------------------- MODULE SymbolTableProofs --------------------------
(***************************************************************************)
(* Name resolution is correct for every program: every depth of nesting,   *)
(* every set of names and every number of variables and parameters.        *)
(***************************************************************************)
EXTENDS SymbolTable, WellFoundedInduction, TLAPS

\* A non-empty set of positions has a last one: a repeated parameter has a
\* last occurrence.
LEMMA LastPosition ==
  ASSUME NEW k \in Nat, NEW T \in SUBSET (1 .. k), T # {}
  PROVE  \E m \in T : \A i \in T : i <= m
<1> DEFINE R == OpToRel(<, Nat)
           D == {k - i : i \in T}
<1>0. \A i \in T : i \in Nat /\ k - i \in Nat
  OBVIOUS
<1>1. D \subseteq Nat /\ D # {}
  BY <1>0
<1>2. IsWellFoundedOn(R, Nat)
  BY NatLessThanWellFounded
<1>3. \A a, b \in Nat : a < b => <<a, b>> \in R
  BY DEF OpToRel
<1> HIDE DEF R, D
<1>4. \E a \in D : \A b \in D : ~ (<<b, a>> \in R)
  BY <1>1, <1>2, WFMin
<1>5. PICK a \in D : \A b \in D : ~ (b < a)
  BY <1>1, <1>3, <1>4
<1>6. PICK m \in T : a = k - m
  BY <1>5 DEF D
<1>7. ASSUME NEW i \in T
      PROVE  i <= m
  <2>1. k - i \in D
    BY DEF D
  <2>2. ~ (k - i < k - m)
    BY <1>5, <1>6, <2>1
  <2> QED
    BY <1>0, <2>2
<1> QED
  BY <1>7

\* A capture goes to the end of the list of captures.
LEMMA AppendFacts ==
  ASSUME NEW S, NEW s \in Seq(S), NEW e \in S
  PROVE  /\ Append(s, e) \in Seq(S)
         /\ DOMAIN Append(s, e) = DOMAIN s \cup {Len(s) + 1}
         /\ \A i \in DOMAIN s : Append(s, e)[i] = s[i]
         /\ Append(s, e)[Len(s) + 1] = e
OBVIOUS

\* An entry of a list is a member of what the list is over.
LEMMA ElementFacts ==
  ASSUME NEW S, NEW s \in Seq(S), NEW i \in DOMAIN s
  PROVE  s[i] \in S /\ i \in Nat \ {0} /\ i <= Len(s)
OBVIOUS

\* The table a function starts with holds its own name and its parameters.
LEMMA FunctionStoreFacts ==
  ASSUME NEW self \in Access \cup {Undefined},
         NEW k \in Nat, NEW params \in [1 .. k -> Name]
  PROVE  /\ FunctionStore(self, params) \in [Name -> Symbol \cup {Undefined}]
         /\ \A n \in Name :
              LET s == FunctionStore(self, params)[n]
              IN  s # Undefined =>
                    \/ /\ s.scope = "LOCAL" /\ s.index + 1 \in 1 .. k
                       /\ params[s.index + 1] = n
                    \/ s.scope = "FUNCTION"
<1> SUFFICES ASSUME NEW n \in Name
             PROVE  LET s == FunctionStore(self, params)[n]
                    IN  /\ s \in Symbol \cup {Undefined}
                        /\ s # Undefined =>
                             \/ /\ s.scope = "LOCAL" /\ s.index + 1 \in 1 .. k
                                /\ params[s.index + 1] = n
                             \/ s.scope = "FUNCTION"
  BY DEF FunctionStore
<1> DEFINE at == {i \in DOMAIN params : params[i] = n}
           last == CHOOSE i \in at : \A h \in at : h <= i
           s == FunctionStore(self, params)[n]
<1>1. CASE at # {}
  <2>1. last \in at
    BY <1>1, LastPosition
  <2>2. s = [scope |-> "LOCAL", index |-> last - 1]
    BY <1>1 DEF FunctionStore
  <2>3. last \in 1 .. k /\ params[last] = n
    BY <2>1
  <2> HIDE DEF at, last
  <2> QED
    BY <2>2, <2>3 DEF Symbol, Scope
<1>2. CASE at = {}
  BY <1>2 DEF FunctionStore, Symbol, Scope
<1> QED
  BY <1>1, <1>2
-----------------------------------------------------------------------------
\* The compiler starts with the program's table and its builtins.
LEMMA InitIndInv == Init => IndInv
<1> SUFFICES ASSUME Init PROVE IndInv
  OBVIOUS
<1> USE BoundsAssumption, UndefinedAssumption DEF Init
<1>1. TypeOK
  BY DEF TypeOK, Level, Symbol, Scope
<1>2. LevelsInv
  BY DEF LevelsInv, Level, EmptyStore, Shared
<1>3. SlotsDistinct
  BY DEF SlotsDistinct, Level
<1>4. CapturesValid
  BY DEF CapturesValid, Level
<1>5. AddressesOwner
  BY DEF AddressesOwner
<1> QED
  BY <1>1, <1>2, <1>3, <1>4, <1>5 DEF IndInv

\* The STORE pending for a named function stays right while its body is
\* compiled: the tables only grow.
LEMMA TargetsKept ==
  ASSUME IndInv, depth' = depth, kind' = kind, target' = target,
         \A j \in 1 .. depth : \A m \in Name :
           store[j][m] # Undefined => store'[j][m] = store[j][m]
  PROVE  \A j \in 2 .. depth :
           target'[j] # Undefined /\ ~Misplaced(target[j])'
             => Addresses(target[j], j - 1)'
<1> SUFFICES ASSUME NEW j \in 2 .. depth, target[j] # Undefined, ~Misplaced(target[j])'
             PROVE  Addresses(target[j], j - 1)'
  OBVIOUS
<1>1. Addresses(target[j], j - 1)
  BY DEF IndInv, AddressesOwner, Misplaced
<1>2. target[j] \in Access /\ j - 1 \in 1 .. depth /\ 1 \in 1 .. depth
  BY BoundsAssumption DEF IndInv, TypeOK, Level
<1>3. target[j].symbol # Undefined /\ target[j].name \in Name
  BY <1>2, UndefinedAssumption DEF Access
<1> QED
  BY <1>1, <1>2, <1>3 DEF Addresses

\* resolve keeps the invariant: it adds to each table between the one that
\* holds the name and the current one a capture of the parent's symbol.
LEMMA ResolveKeeps ==
  ASSUME IndInv, NEW n \in Name, NEW way \in {"use", "declare", "iterate"},
         Resolve(way, n),
         depth' = depth, kind' = kind, target' = target,
         definitions' \in [Level -> Nat],
         \A j \in Level : definitions'[j] >= definitions[j],
         \A j \in Level : j > depth => definitions'[j] = 0
  PROVE  IndInv'
<1> USE DEF IndInv
<1>1. PICK h \in Level, o \in Level :
        /\ Nearest(n, depth, h)
        /\ Owns(n, depth, o)
        /\ ResolveStep(n, depth, h)
        /\ emitted' = AccessOf(way, n, o, SymbolAt(n, depth, h, depth))
  BY DEF Resolve
<1> DEFINE cap == {i \in Level : Captures(n, depth, h, i)}
           sym(i) == SymbolAt(n, depth, h, i)
<1>2. /\ h \in 1 .. depth /\ depth \in 1 .. MaxLevel /\ MaxLevel \in Nat
      /\ store[h][n] \in Symbol
      /\ \A i \in (h + 1) .. depth : store[i][n] = Undefined
  BY <1>1, BoundsAssumption DEF Nearest, TypeOK, Level
<1>30. /\ 1 \in Level /\ depth \in Level
       /\ \A j \in 1 .. depth : j \in Level /\ (j > 1 => j - 1 \in 1 .. depth)
  BY <1>2 DEF Level
<1>31. \A j \in Level : /\ free[j] \in Seq([name : Name, symbol : Symbol])
                        /\ store[j] \in [Name -> Symbol \cup {Undefined}]
  BY DEF TypeOK
<1>3. \A i \in Level : i \in cap <=> h < i /\ i <= depth /\ ~Shared(store[h][n])
  BY DEF Captures
<1>4. \A i \in Level : sym(i) = IF i \in cap THEN [scope |-> "FREE", index |-> Len(free[i])]
                                             ELSE store[h][n]
  BY DEF SymbolAt
<1>5. \A i \in Level : sym(i) \in Symbol
  BY <1>2, <1>4 DEF Symbol, Scope, TypeOK
<1>6. \A i \in cap : /\ i - 1 \in Level /\ i \in 2 .. depth
                     /\ store[i][n] = Undefined
                     /\ ~Shared(sym(i - 1)) /\ ~Shared(sym(i))
  BY <1>2, <1>3, <1>4 DEF Level, Shared
<1> HIDE DEF cap, sym
<1>7. /\ free' = [i \in Level |->
                    IF i \in cap THEN Append(free[i], [name |-> n, symbol |-> sym(i - 1)])
                                 ELSE free[i]]
      /\ store' = [i \in Level |->
                    IF i \in cap THEN [store[i] EXCEPT ![n] = sym(i)] ELSE store[i]]
      /\ emitted' = AccessOf(way, n, o, sym(depth))
  BY <1>1 DEF ResolveStep, cap, sym
<1>8. \A j \in Level : \A m \in Name :
        /\ store'[j][m] = IF j \in cap /\ m = n THEN sym(j) ELSE store[j][m]
        /\ store[j][m] # Undefined => store'[j][m] = store[j][m]
  BY <1>6, <1>7 DEF TypeOK
<1>9. \A j \in cap : sym(j) = [scope |-> "FREE", index |-> Len(free[j])]
  BY <1>4, <1>6 DEF cap
<1>10. TypeOK'
  <2>1. store' \in [Level -> [Name -> Symbol \cup {Undefined}]]
    BY <1>5, <1>7 DEF TypeOK
  <2>2. free' \in [Level -> Seq([name : Name, symbol : Symbol])]
    <3>1. \A j \in cap : [name |-> n, symbol |-> sym(j - 1)] \in [name : Name, symbol : Symbol]
      BY <1>5, <1>6
    <3>2. \A j \in Level : free'[j] \in Seq([name : Name, symbol : Symbol])
      BY <1>7, <1>31, <3>1, AppendFacts
    <3> QED
      BY <1>7, <3>2
  <2>3. emitted' \in Access
    BY <1>2, <1>5, <1>7 DEF AccessOf, Access, Level
  <2> QED
    BY <2>1, <2>2, <2>3 DEF TypeOK
<1>11. LevelsInv'
  <2>1. \A j \in 1 .. depth : \A m \in Name :
          store'[j][m] # Undefined => (Shared(store'[j][m]) <=> j = 1)
    <3> SUFFICES ASSUME NEW j \in 1 .. depth, NEW m \in Name, store'[j][m] # Undefined
                 PROVE  Shared(store'[j][m]) <=> j = 1
      OBVIOUS
    <3>1. CASE j \in cap /\ m = n
      <4>1. j > 1 /\ ~Shared(sym(j)) /\ store'[j][m] = sym(j)
        BY <1>6, <1>8, <1>30, <3>1
      <4> QED
        BY <4>1
    <3>2. CASE ~ (j \in cap /\ m = n)
      <4>1. store'[j][m] = store[j][m]
        BY <1>8, <1>30, <3>2
      <4>2. Shared(store[j][m]) <=> j = 1
        BY <4>1 DEF LevelsInv
      <4> QED
        BY <4>1, <4>2 DEF Shared
    <3> QED
      BY <3>1, <3>2
  <2>2. \A j \in Level : j > depth => store'[j] = store[j] /\ free'[j] = free[j]
    BY <1>2, <1>6, <1>7 DEF Level
  <2>3. emitted'.user = depth
    BY <1>7 DEF AccessOf
  <2> QED
    BY <2>1, <2>2, <2>3 DEF LevelsInv, Shared
<1>12. SlotsDistinct'
  <2> SUFFICES ASSUME NEW j \in 1 .. depth, NEW m \in Name,
                      store'[j][m] # Undefined,
                      store'[j][m].scope \in {"LOCAL", "GLOBAL"}
               PROVE  /\ store'[j][m].index < definitions'[j]
                      /\ \A k \in Name \ {m} :
                           store'[j][k] # Undefined
                           /\ store'[j][k].scope = store'[j][m].scope =>
                             store'[j][k].index # store'[j][m].index
    BY DEF SlotsDistinct
  <2>1. j \in Level
    BY <1>2 DEF Level
  <2>2. ~ (j \in cap /\ m = n)
    BY <1>8, <1>9, <2>1
  <2>3. store'[j][m] = store[j][m] /\ store[j][m] \in Symbol
    BY <1>8, <2>1, <2>2 DEF TypeOK
  <2>4. store[j][m].index < definitions[j]
    BY <2>3 DEF SlotsDistinct
  <2>5. store'[j][m].index < definitions'[j]
    BY <2>1, <2>3, <2>4 DEF TypeOK, Symbol
  <2>6. ASSUME NEW k \in Name \ {m}, store'[j][k] # Undefined,
               store'[j][k].scope = store'[j][m].scope
        PROVE  store'[j][k].index # store'[j][m].index
    <3>1. store'[j][k] = store[j][k]
      BY <1>8, <1>9, <2>1, <2>6
    <3> QED
      BY <2>3, <2>6, <3>1 DEF SlotsDistinct
  <2> QED
    BY <2>5, <2>6
<1>13. CapturesValid'
  <2>0. ASSUME NEW j \in 1 .. depth, NEW i \in DOMAIN free[j]
        PROVE  i \in DOMAIN free'[j] /\ free'[j][i] = free[j][i]
    <3>0. j \in Level /\ free[j] \in Seq([name : Name, symbol : Symbol])
      BY <1>30, <1>31
    <3>1. i \in 1 .. Len(free[j]) /\ Len(free[j]) \in Nat
      BY <3>0
    <3>2. CASE j \in cap
      <4> DEFINE e == [name |-> n, symbol |-> sym(j - 1)]
      <4>1. free'[j] = Append(free[j], e)
        BY <1>7, <3>0, <3>2
      <4>2. e \in [name : Name, symbol : Symbol]
        BY <1>5, <1>6, <3>2
      <4> HIDE DEF e
      <4> QED
        BY ONLY <3>0, <3>1, <4>1, <4>2, AppendFacts, i \in DOMAIN free[j]
    <3>3. CASE j \notin cap
      BY <1>7, <3>0, <3>3
    <3> QED
      BY <3>2, <3>3
  <2>1. ASSUME NEW j \in 1 .. depth, NEW i \in DOMAIN free'[j]
        PROVE  /\ j > 1
               /\ store'[j - 1][free'[j][i].name] = free'[j][i].symbol
               /\ store'[j][free'[j][i].name] = [scope |-> "FREE", index |-> i - 1]
               /\ ~Shared(free'[j][i].symbol)
    <3>0. j \in Level /\ free[j] \in Seq([name : Name, symbol : Symbol])
      BY <1>30, <1>31
    <3>1. CASE i \in DOMAIN free[j]
      <4>1. free'[j][i] = free[j][i] /\ free[j][i] \in [name : Name, symbol : Symbol]
        <5>1. free'[j][i] = free[j][i]
          BY ONLY <2>0, <3>1, j \in 1 .. depth
        <5>2. free[j][i] \in [name : Name, symbol : Symbol]
          BY ONLY <3>0, <3>1, ElementFacts
        <5> QED
          BY <5>1, <5>2
      <4>2. /\ j > 1
            /\ store[j - 1][free[j][i].name] = free[j][i].symbol
            /\ store[j][free[j][i].name] = [scope |-> "FREE", index |-> i - 1]
            /\ ~Shared(free[j][i].symbol)
        BY <3>1 DEF CapturesValid
      <4>3. j - 1 \in Level /\ free[j][i].name \in Name /\ free[j][i].symbol # Undefined
        BY <1>30, <3>0, <4>1, <4>2, UndefinedAssumption
      <4>4. [scope |-> "FREE", index |-> i - 1] # Undefined
        <5>1. i - 1 \in Nat
          BY <3>0, <3>1
        <5> QED
          BY <5>1, UndefinedAssumption DEF Symbol, Scope
      <4> QED
        BY <1>8, <3>0, <4>1, <4>2, <4>3, <4>4
    <3>2. CASE i \notin DOMAIN free[j]
      <4>1. j \in cap /\ i = Len(free[j]) + 1
            /\ free'[j][i] = [name |-> n, symbol |-> sym(j - 1)]
        BY <1>7, <2>1, <3>0, <3>2
      <4>2. j > 1 /\ j - 1 \in Level /\ ~Shared(sym(j - 1))
        BY <1>6, <4>1
      <4>3. store'[j][n] = [scope |-> "FREE", index |-> i - 1]
        BY <1>8, <1>9, <3>0, <4>1
      <4>4. store'[j - 1][n] = sym(j - 1)
        <5>1. CASE j - 1 \in cap
          BY <1>8, <4>2, <5>1
        <5>2. CASE j - 1 \notin cap
          <6>1. j - 1 = h
            BY <1>2, <1>3, <4>1, <4>2, <5>2 DEF Level
          <6> QED
            BY <1>4, <1>8, <4>2, <5>2, <6>1
        <5> QED
          BY <5>1, <5>2
      <4> QED
        BY <4>1, <4>2, <4>3, <4>4
    <3> QED
      BY <3>1, <3>2
  <2>2. ASSUME NEW j \in 1 .. depth, NEW m \in Name,
               store'[j][m] # Undefined, store'[j][m].scope = "FREE"
        PROVE  /\ store'[j][m].index + 1 \in DOMAIN free'[j]
               /\ free'[j][store'[j][m].index + 1].name = m
    <3>0. j \in Level /\ free[j] \in Seq([name : Name, symbol : Symbol])
      BY <1>30, <1>31
    <3>1. CASE j \in cap /\ m = n
      BY <1>7, <1>8, <1>9, <3>0, <3>1
    <3>2. CASE ~ (j \in cap /\ m = n)
      <4>1. store'[j][m] = store[j][m]
        BY <1>8, <3>0, <3>2
      <4>2. /\ store[j][m].index + 1 \in DOMAIN free[j]
            /\ free[j][store[j][m].index + 1].name = m
        BY <2>2, <4>1 DEF CapturesValid
      <4>3. \A i \in DOMAIN free[j] : i \in DOMAIN free'[j] /\ free'[j][i] = free[j][i]
        BY <2>0
      <4> QED
        BY <4>1, <4>2, <4>3
    <3> QED
      BY <3>1, <3>2
  <2> QED
    BY <2>1, <2>2 DEF CapturesValid
<1>14. AddressesOwner'
  <2>1. Addresses(emitted, depth)'
    <3>1. /\ emitted'.symbol = sym(depth) /\ emitted'.owner = o
          /\ emitted'.name = n /\ emitted'.user = depth
      BY <1>7 DEF AccessOf
    <3>2. o \in 1 .. depth /\ o <= h /\ Declares(o, n)
          /\ \A i \in (o + 1) .. depth : ~Declares(i, n)
      BY <1>1, <1>2 DEF Owns, Declares
    <3>3. depth \in Level /\ 1 \in Level
      BY <1>2 DEF Level
    <3>4. CASE depth \in cap
      <4>1. sym(depth) = [scope |-> "FREE", index |-> Len(free[depth])]
            /\ store'[depth][n] = sym(depth)
        BY <1>8, <1>9, <3>3, <3>4
      <4>2. o < depth
        BY <1>2, <1>3, <3>2, <3>3, <3>4
      <4> QED
        BY <3>1, <4>1, <4>2 DEF Addresses
    <3>5. CASE depth \notin cap
      <4>1. sym(depth) = store[h][n]
        BY <1>4, <3>3, <3>5
      <4>2. CASE Shared(store[h][n])
        <5>1. h = 1 /\ o = 1
          BY <1>2, <3>2, <4>2, UndefinedAssumption DEF LevelsInv
        <5>2. store'[1][n] = store[1][n]
          BY <1>2, <1>8, <3>3, <5>1, UndefinedAssumption
        <5> QED
          BY <3>1, <4>1, <4>2, <5>1, <5>2 DEF Addresses, Shared
      <4>3. CASE ~Shared(store[h][n])
        <5>1. h = depth
          BY <1>2, <1>3, <3>3, <3>5, <4>3
        <5>2. store'[depth][n] = store[depth][n]
          BY <1>2, <1>8, <3>3, <5>1, UndefinedAssumption
        <5>3. store[depth][n].scope = "FREE" => o < depth
          <6>1. store[depth][n].scope = "FREE" => o # depth
            BY <3>2 DEF Declares
          <6> QED
            BY <1>2, <3>2, <6>1
        <5>4. store[depth][n].scope # "FREE" => o = depth
          BY <1>2, <3>2, <5>1, UndefinedAssumption DEF Declares
        <5> QED
          BY <3>1, <4>1, <4>3, <5>1, <5>2, <5>3, <5>4 DEF Addresses, Shared
      <4> QED
        BY <4>2, <4>3
    <3> QED
      BY <3>4, <3>5
  <2>2. \A j \in 2 .. depth :
           target'[j] # Undefined /\ ~Misplaced(target[j])'
             => Addresses(target[j], j - 1)'
    <3>1. \A j \in 1 .. depth : j \in Level
      BY <1>2 DEF Level
    <3> QED
      BY <1>8, <3>1, TargetsKept
  <2> QED
    BY <2>1, <2>2 DEF AddressesOwner
<1> QED
  BY <1>10, <1>11, <1>12, <1>13, <1>14

\* define keeps the invariant when the name does not resolve from the table it
\* goes to: no capture was made of it, and the slot is a new one.
LEMMA DefineKeeps ==
  ASSUME IndInv, NEW n \in Name, NEW i \in 1 .. depth, NEW way \in {"use", "declare", "iterate"},
         NEW symbol \in Symbol, NEW slots \in Nat,
         ~Resolves(n, i),
         symbol.scope = IF i = 1 THEN "GLOBAL" ELSE "LOCAL",
         definitions[i] <= symbol.index, symbol.index < slots,
         i = depth \/ (IsGlobal(i) /\ way = "declare"),
         store' = [store EXCEPT ![i][n] = symbol],
         definitions' = [definitions EXCEPT ![i] = slots],
         emitted' = AccessOf(way, n, i, symbol),
         depth' = depth, kind' = kind, free' = free, target' = target
  PROVE  IndInv'
<1>1. /\ depth \in 1 .. MaxLevel /\ MaxLevel \in Nat /\ depth \in Level
      /\ i \in Level /\ 1 \in Level /\ symbol # Undefined
      /\ \A j \in 1 .. depth : j \in Level
  BY BoundsAssumption, UndefinedAssumption DEF IndInv, TypeOK, Level
<1>2. store \in [Level -> [Name -> Symbol \cup {Undefined}]]
      /\ definitions \in [Level -> Nat]
  BY DEF IndInv, TypeOK
<1>3. store[i][n] = Undefined
  BY <1>1 DEF Resolves
<1>4. \A j \in Level : \A m \in Name :
        store'[j][m] = IF j = i /\ m = n THEN symbol ELSE store[j][m]
  BY <1>1, <1>2
<1>5. \A j \in Level : definitions'[j] = IF j = i THEN slots ELSE definitions[j]
  BY <1>1, <1>2
<1>6. \A j \in Level : \A m \in Name :
        store[j][m] # Undefined => store'[j][m] = store[j][m]
  BY <1>3, <1>4
<1>7. symbol.scope \in {"GLOBAL", "LOCAL"} /\ symbol.index \in Nat
  BY DEF Symbol
<1>8. definitions[i] \in Nat /\ definitions[i] < slots
  BY <1>1, <1>2, <1>7
<1>9. TypeOK'
  <2>1. store' \in [Level -> [Name -> Symbol \cup {Undefined}]]
    BY <1>1, <1>2
  <2>2. definitions' \in [Level -> Nat]
    BY <1>1, <1>2
  <2>3. emitted' \in Access
    BY <1>1 DEF AccessOf, Access
  <2> QED
    BY <2>1, <2>2, <2>3 DEF IndInv, TypeOK
<1>10. LevelsInv'
  <2>1. ASSUME NEW j \in 1 .. depth, NEW m \in Name, store'[j][m] # Undefined
        PROVE  Shared(store'[j][m]) <=> j = 1
    <3>1. CASE j = i /\ m = n
      BY <1>1, <1>4, <3>1 DEF Shared
    <3>2. CASE ~ (j = i /\ m = n)
      BY <1>1, <1>4, <2>1, <3>2 DEF IndInv, LevelsInv
    <3> QED
      BY <3>1, <3>2
  <2>2. \A j \in Level : j > depth =>
           store'[j] = store[j] /\ definitions'[j] = definitions[j]
    BY <1>1, <1>2
  <2>3. emitted'.user = depth
    BY DEF AccessOf
  <2> QED
    BY <2>1, <2>2, <2>3 DEF IndInv, LevelsInv, Shared
<1>11. SlotsDistinct'
  <2> SUFFICES ASSUME NEW j \in 1 .. depth, NEW m \in Name,
                      store'[j][m] # Undefined,
                      store'[j][m].scope \in {"LOCAL", "GLOBAL"}
               PROVE  /\ store'[j][m].index < definitions'[j]
                      /\ \A k \in Name \ {m} :
                           store'[j][k] # Undefined
                           /\ store'[j][k].scope = store'[j][m].scope =>
                             store'[j][k].index # store'[j][m].index
    BY DEF SlotsDistinct
  <2>1. j \in Level
    BY <1>1
  <2>2. \A k \in Name : store[j][k] # Undefined
                        /\ store[j][k].scope \in {"LOCAL", "GLOBAL"} =>
          store[j][k].index \in Nat /\ store[j][k].index < definitions[j]
    BY <1>2, <2>1 DEF IndInv, SlotsDistinct, Symbol
  <2>3. CASE j # i
    <3>1. \A k \in Name : store'[j][k] = store[j][k]
      BY <1>4, <2>1, <2>3
    <3> QED
      BY <1>5, <2>1, <2>3, <3>1 DEF IndInv, SlotsDistinct
  <2>4. CASE j = i /\ m = n
    <3>1. store'[j][m] = symbol
      BY <1>1, <1>4, <2>4
    <3>2. symbol.index < definitions'[j]
      BY <1>1, <1>5, <2>4
    <3>3. ASSUME NEW k \in Name \ {m}, store'[j][k] # Undefined,
                 store'[j][k].scope = symbol.scope
          PROVE  store'[j][k].index # symbol.index
      <4>1. store'[j][k] = store[j][k]
        BY <1>4, <2>1, <2>4
      <4>2. store[j][k].index \in Nat /\ store[j][k].index < definitions[i]
        BY <1>7, <2>2, <2>4, <3>3, <4>1
      <4> QED
        BY <1>7, <1>8, <4>1, <4>2
    <3> QED
      BY <3>1, <3>2, <3>3
  <2>5. CASE j = i /\ m # n
    <3>1. store'[j][m] = store[j][m]
      BY <1>4, <2>1, <2>5
    <3>2. store[j][m].index \in Nat /\ store[j][m].index < definitions[i]
      BY <2>2, <2>5, <3>1
    <3>3. store[j][m].index < definitions'[j]
      BY <1>1, <1>5, <1>8, <2>5, <3>2
    <3>4. ASSUME NEW k \in Name \ {m}, store'[j][k] # Undefined,
                 store'[j][k].scope = store'[j][m].scope
          PROVE  store'[j][k].index # store'[j][m].index
      <4>1. CASE k = n
        BY <1>1, <1>4, <1>7, <1>8, <2>5, <3>1, <3>2, <4>1
      <4>2. CASE k # n
        <5>1. store'[j][k] = store[j][k]
          BY <1>4, <2>1, <4>2
        <5> QED
          BY <3>1, <3>4, <5>1 DEF IndInv, SlotsDistinct
      <4> QED
        BY <4>1, <4>2
    <3> QED
      BY <3>1, <3>3, <3>4
  <2> QED
    BY <2>3, <2>4, <2>5
<1>12. CapturesValid'
  <2>1. ASSUME NEW j \in 1 .. depth, NEW e \in DOMAIN free[j]
        PROVE  /\ j > 1
               /\ store'[j - 1][free[j][e].name] = free[j][e].symbol
               /\ store'[j][free[j][e].name] = [scope |-> "FREE", index |-> e - 1]
               /\ ~Shared(free[j][e].symbol)
    <3>1. /\ j > 1
          /\ store[j - 1][free[j][e].name] = free[j][e].symbol
          /\ store[j][free[j][e].name] = [scope |-> "FREE", index |-> e - 1]
          /\ ~Shared(free[j][e].symbol)
      BY DEF IndInv, CapturesValid
    <3>2. j \in Level /\ j - 1 \in Level
      BY <1>1, <3>1 DEF Level
    <3>3. free[j] \in Seq([name : Name, symbol : Symbol])
      BY <3>2 DEF IndInv, TypeOK
    <3>4. free[j][e] \in [name : Name, symbol : Symbol] /\ e - 1 \in Nat
      <4>1. free[j][e] \in [name : Name, symbol : Symbol] /\ e \in Nat \ {0}
        BY ONLY <3>3, e \in DOMAIN free[j], ElementFacts
      <4> QED
        BY <4>1
    <3>5. [scope |-> "FREE", index |-> e - 1] # Undefined /\ free[j][e].symbol # Undefined
      BY <3>4, UndefinedAssumption DEF Symbol, Scope
    <3> QED
      BY <1>6, <3>1, <3>2, <3>4, <3>5
  <2>2. ASSUME NEW j \in 1 .. depth, NEW m \in Name,
               store'[j][m] # Undefined, store'[j][m].scope = "FREE"
        PROVE  /\ store'[j][m].index + 1 \in DOMAIN free[j]
               /\ free[j][store'[j][m].index + 1].name = m
    <3>1. store'[j][m] = store[j][m]
      BY <1>1, <1>4, <1>7, <2>2
    <3> QED
      BY <2>2, <3>1 DEF IndInv, CapturesValid
  <2> QED
    BY <2>1, <2>2 DEF CapturesValid
<1>13. AddressesOwner'
  <2>1. ASSUME ~Misplaced(emitted)'
        PROVE  Addresses(emitted, depth)'
    <3>1. /\ emitted'.symbol = symbol /\ emitted'.owner = i /\ emitted'.name = n
          /\ emitted'.user = depth /\ emitted'.way = way
      BY DEF AccessOf
    <3>2. store'[i][n] = symbol
      BY <1>1, <1>4
    <3>3. CASE i = 1
      BY <3>1, <3>2, <3>3 DEF Addresses
    <3>4. CASE i # 1 /\ i = depth
      BY <1>1, <3>1, <3>2, <3>4 DEF Addresses
    <3>5. CASE i # 1 /\ i # depth
      <4>1. kind[i] # "function" /\ kind[i] # "program"
        BY <3>5 DEF IsGlobal, IndInv, LevelsInv
      <4>2. kind[i] = "module"
        BY <1>1, <4>1 DEF IndInv, TypeOK
      <4>3. i < depth
        BY <1>1, <3>5
      <4> QED
        BY <2>1, <3>1, <3>5, <4>2, <4>3 DEF Misplaced
    <3> QED
      BY <3>3, <3>4, <3>5
  <2>2. \A j \in 2 .. depth :
           target'[j] # Undefined /\ ~Misplaced(target[j])'
             => Addresses(target[j], j - 1)'
    BY <1>1, <1>6, TargetsKept
  <2> QED
    BY <2>1, <2>2 DEF AddressesOwner
<1> QED
  BY <1>9, <1>10, <1>11, <1>12, <1>13 DEF IndInv

\* A function's table starts with its own name and its parameters, each
\* parameter in the slot of its position.
LEMMA OpenFunctionKeeps == ASSUME IndInv, OpenFunction PROVE IndInv'
<1>1. PICK self \in {Undefined, emitted}, k \in 0 .. MaxParams :
        /\ self # Undefined => self.way # "iterate"
        /\ \E params \in [1 .. k -> Name] :
             store' = [store EXCEPT ![depth + 1] = FunctionStore(self, params)]
        /\ depth' = depth + 1
        /\ kind' = [kind EXCEPT ![depth + 1] = "function"]
        /\ definitions' = [definitions EXCEPT ![depth + 1] = k]
        /\ target' = [target EXCEPT ![depth + 1] = self]
  BY DEF OpenFunction
<1>2. PICK params \in [1 .. k -> Name] :
        store' = [store EXCEPT ![depth + 1] = FunctionStore(self, params)]
  BY <1>1
<1>3. /\ depth \in Nat \ {0} /\ depth + 1 \in Level /\ depth \in Level /\ 1 \in Level
      /\ k \in Nat /\ emitted' = Undefined /\ free' = free
      /\ \A j \in 1 .. depth : j \in Level /\ j # depth + 1
      /\ \A j \in 1 .. (depth + 1) : j \in 1 .. depth \/ j = depth + 1
      /\ \A j \in Level : j > depth + 1 => j > depth /\ j # depth + 1
  BY BoundsAssumption DEF OpenFunction, IndInv, TypeOK, Level
<1>4. self \in Access \cup {Undefined}
  BY DEF IndInv, TypeOK
<1> DEFINE table == FunctionStore(self, params)
<1>5. /\ table \in [Name -> Symbol \cup {Undefined}]
      /\ \A n \in Name :
           table[n] # Undefined =>
             \/ /\ table[n].scope = "LOCAL" /\ table[n].index + 1 \in 1 .. k
                /\ params[table[n].index + 1] = n
             \/ table[n].scope = "FUNCTION"
  BY <1>3, <1>4, FunctionStoreFacts
<1> HIDE DEF table
<1>6. /\ \A j \in Level : store'[j] = IF j = depth + 1 THEN table ELSE store[j]
      /\ \A j \in Level : kind'[j] = IF j = depth + 1 THEN "function" ELSE kind[j]
      /\ \A j \in Level : definitions'[j] = IF j = depth + 1 THEN k ELSE definitions[j]
      /\ \A j \in Level : target'[j] = IF j = depth + 1 THEN self ELSE target[j]
  BY <1>1, <1>2 DEF table, IndInv, TypeOK
<1>7. free[depth + 1] = <<>> /\ kind[depth + 1] = "function"
  BY <1>3 DEF IndInv, LevelsInv
<1>8. TypeOK'
  <2>1. store' \in [Level -> [Name -> Symbol \cup {Undefined}]]
    BY <1>2, <1>5 DEF IndInv, TypeOK, table
  <2>2. kind' \in [Level -> {"program", "function", "module"}]
        /\ definitions' \in [Level -> Nat]
        /\ target' \in [Level -> Access \cup {Undefined}]
    BY <1>1, <1>3, <1>4 DEF IndInv, TypeOK
  <2> QED
    BY <1>1, <1>3, <2>1, <2>2 DEF IndInv, TypeOK
<1>9. LevelsInv'
  <2>1. \A j \in 1 .. (depth + 1) : kind'[j] = "program" <=> j = 1
    BY <1>3, <1>6 DEF IndInv, LevelsInv
  <2>2. ASSUME NEW j \in 1 .. (depth + 1), NEW n \in Name, store'[j][n] # Undefined
        PROVE  Shared(store'[j][n]) <=> j = 1
    BY <1>3, <1>5, <1>6, <2>2 DEF IndInv, LevelsInv, Shared
  <2>3. \A j \in 2 .. (depth + 1) : target'[j] # Undefined => target'[j].user = j - 1
    <3>1. \A j \in 2 .. depth : target'[j] # Undefined => target'[j].user = j - 1
      BY <1>3, <1>6 DEF IndInv, LevelsInv
    <3>2. target'[depth + 1] # Undefined => target'[depth + 1].user = depth
      BY <1>3, <1>6 DEF IndInv, LevelsInv
    <3> QED
      BY <1>3, <3>1, <3>2
  <2>4. \A j \in Level : j > depth + 1 =>
          /\ kind'[j] = "function" /\ store'[j] = EmptyStore /\ free'[j] = <<>>
          /\ definitions'[j] = 0 /\ target'[j] = Undefined
    BY <1>3, <1>6 DEF IndInv, LevelsInv
  <2> QED
    BY <1>1, <1>3, <2>1, <2>2, <2>3, <2>4 DEF LevelsInv, Shared, EmptyStore
<1>10. SlotsDistinct'
  <2> SUFFICES ASSUME NEW j \in 1 .. (depth + 1), NEW m \in Name,
                      store'[j][m] # Undefined,
                      store'[j][m].scope \in {"LOCAL", "GLOBAL"}
               PROVE  /\ store'[j][m].index < definitions'[j]
                      /\ \A e \in Name \ {m} :
                           store'[j][e] # Undefined
                           /\ store'[j][e].scope = store'[j][m].scope =>
                             store'[j][e].index # store'[j][m].index
    BY <1>1 DEF SlotsDistinct
  <2>1. CASE j \in 1 .. depth
    <3>1. store'[j] = store[j] /\ definitions'[j] = definitions[j]
      BY <1>3, <1>6, <2>1
    <3> QED
      BY <2>1, <3>1 DEF IndInv, SlotsDistinct
  <2>2. CASE j = depth + 1
    <3>1. store'[j] = table /\ definitions'[j] = k
      BY <1>3, <1>6, <2>2
    <3>2. table[m].scope = "LOCAL" /\ table[m].index \in Nat
          /\ table[m].index + 1 \in 1 .. k /\ params[table[m].index + 1] = m
      BY <1>5, <3>1 DEF Symbol
    <3>3. ASSUME NEW e \in Name \ {m}, table[e] # Undefined, table[e].scope = "LOCAL"
          PROVE  params[table[e].index + 1] = e
      BY <1>5, <3>3
    <3> QED
      BY <1>3, <3>1, <3>2, <3>3
  <2> QED
    BY <1>3, <2>1, <2>2
<1>11. CapturesValid'
  <2>1. ASSUME NEW j \in 1 .. (depth + 1), NEW i \in DOMAIN free[j]
        PROVE  /\ j > 1
               /\ store'[j - 1][free[j][i].name] = free[j][i].symbol
               /\ store'[j][free[j][i].name] = [scope |-> "FREE", index |-> i - 1]
               /\ ~Shared(free[j][i].symbol)
    <3>1. j \in 1 .. depth
      BY <1>3, <1>7
    <3>2. /\ j > 1
          /\ store[j - 1][free[j][i].name] = free[j][i].symbol
          /\ store[j][free[j][i].name] = [scope |-> "FREE", index |-> i - 1]
          /\ ~Shared(free[j][i].symbol)
      BY <3>1 DEF IndInv, CapturesValid
    <3>3. j - 1 \in 1 .. depth
      BY <1>3, <3>1, <3>2
    <3>4. store'[j] = store[j] /\ store'[j - 1] = store[j - 1]
      BY <1>3, <1>6, <3>1, <3>3
    <3> QED
      BY <3>2, <3>4
  <2>2. ASSUME NEW j \in 1 .. (depth + 1), NEW n \in Name,
               store'[j][n] # Undefined, store'[j][n].scope = "FREE"
        PROVE  /\ store'[j][n].index + 1 \in DOMAIN free[j]
               /\ free[j][store'[j][n].index + 1].name = n
    <3>1. j \in 1 .. depth
      BY <1>3, <1>5, <1>6, <2>2
    <3>2. store'[j] = store[j]
      BY <1>3, <1>6, <3>1
    <3> QED
      BY <2>2, <3>1, <3>2 DEF IndInv, CapturesValid
  <2> QED
    BY <1>1, <1>3, <2>1, <2>2 DEF CapturesValid
<1>12. AddressesOwner'
  <2>1. ASSUME NEW j \in 2 .. (depth + 1), target'[j] # Undefined, ~Misplaced(target[j])'
        PROVE  Addresses(target[j], j - 1)'
    <3> DEFINE a == target'[j]
    <3>0. j \in Level
      BY <1>3
    <3>1. a \in Access /\ a.owner \in Level
      BY <1>8, <2>1, <3>0 DEF TypeOK, Access
    <3>2. j - 1 \in 1 .. depth
      BY <1>3
    <3>3. ~Misplaced(a)
      BY <1>3, <1>6, <1>7, <2>1, <3>1 DEF Misplaced
    <3>4. Addresses(a, j - 1)
      <4>1. CASE j = depth + 1
        <5>1. a = emitted /\ j - 1 = depth
          BY <1>3, <1>6, <2>1, <4>1
        <5> QED
          BY <2>1, <3>3, <5>1 DEF IndInv, AddressesOwner
      <4>2. CASE j # depth + 1
        <5>1. j \in 2 .. depth /\ a = target[j]
          BY <1>3, <1>6, <4>2
        <5> QED
          BY <2>1, <3>3, <5>1 DEF IndInv, AddressesOwner
      <4> QED
        BY <4>1, <4>2
    <3>5. store'[1] = store[1] /\ store'[j - 1] = store[j - 1]
      BY <1>3, <1>6, <3>2
    <3> QED
      BY <3>4, <3>5 DEF Addresses
  <2> QED
    BY <1>1, <1>3, <2>1 DEF AddressesOwner
<1> QED
  BY <1>8, <1>9, <1>10, <1>11, <1>12 DEF IndInv

\* A module's table starts empty.
LEMMA OpenModuleKeeps == ASSUME IndInv, OpenModule PROVE IndInv'
<1>1. /\ depth' = depth + 1 /\ emitted' = Undefined
      /\ kind' = [kind EXCEPT ![depth + 1] = "module"]
      /\ store' = store /\ free' = free /\ definitions' = definitions /\ target' = target
  BY DEF OpenModule
<1>2. /\ depth \in Nat \ {0} /\ depth + 1 \in Level /\ depth \in Level
      /\ \A j \in 1 .. depth : j \in Level /\ j # depth + 1
      /\ \A j \in 1 .. (depth + 1) : j \in 1 .. depth \/ j = depth + 1
      /\ \A j \in Level : j > depth + 1 => j > depth /\ j # depth + 1
  BY BoundsAssumption DEF OpenModule, IndInv, TypeOK, Level
<1>3. \A j \in Level : kind'[j] = IF j = depth + 1 THEN "module" ELSE kind[j]
  BY <1>1 DEF IndInv, TypeOK
<1>4. /\ store[depth + 1] = EmptyStore /\ free[depth + 1] = <<>>
      /\ target[depth + 1] = Undefined /\ kind[depth + 1] = "function"
      /\ \A n \in Name : store[depth + 1][n] = Undefined
  BY <1>2 DEF IndInv, LevelsInv, EmptyStore
<1>5. TypeOK'
  BY <1>1, <1>2 DEF IndInv, TypeOK
<1>6. LevelsInv'
  <2>1. \A j \in 1 .. (depth + 1) : kind'[j] = "program" <=> j = 1
    BY <1>2, <1>3 DEF IndInv, LevelsInv
  <2>2. \A j \in 1 .. (depth + 1) : \A n \in Name :
          store[j][n] # Undefined => (Shared(store[j][n]) <=> j = 1)
    BY <1>2, <1>4 DEF IndInv, LevelsInv
  <2>3. \A j \in 2 .. (depth + 1) : target[j] # Undefined => target[j].user = j - 1
    <3>1. \A j \in 2 .. depth : target[j] # Undefined => target[j].user = j - 1
      BY DEF IndInv, LevelsInv
    <3> QED
      BY <1>2, <1>4, <3>1
  <2>4. \A j \in Level : j > depth + 1 =>
          /\ kind'[j] = "function" /\ store[j] = EmptyStore /\ free[j] = <<>>
          /\ definitions[j] = 0 /\ target[j] = Undefined
    BY <1>2, <1>3 DEF IndInv, LevelsInv
  <2> QED
    BY <1>1, <1>2, <2>1, <2>2, <2>3, <2>4 DEF LevelsInv, Shared, EmptyStore
<1>7. SlotsDistinct'
  BY <1>1, <1>2, <1>4 DEF IndInv, SlotsDistinct
<1>8. CapturesValid'
  <2>1. \A j \in 1 .. (depth + 1) : j \in 1 .. depth \/ DOMAIN free[j] = {}
    BY <1>2, <1>4
  <2>2. \A j \in 1 .. (depth + 1) : j \in 1 .. depth
                                  \/ \A n \in Name : store[j][n] = Undefined
    BY <1>2, <1>4
  <2> QED
    BY <1>1, <2>1, <2>2 DEF IndInv, CapturesValid, Shared
<1>9. AddressesOwner'
  <2>1. ASSUME NEW j \in 2 .. (depth + 1), target[j] # Undefined, ~Misplaced(target[j])'
        PROVE  Addresses(target[j], j - 1)'
    <3>1. j \in 2 .. depth
      BY <1>2, <1>4, <2>1
    <3>2. target[j] \in Access /\ target[j].owner \in Level
      <4>1. j \in Level
        BY <1>2, <3>1
      <4> QED
        BY <2>1, <4>1 DEF IndInv, TypeOK, Access
    <3>3. ~Misplaced(target[j])
      BY <1>1, <1>3, <1>4, <2>1, <3>2 DEF Misplaced
    <3> QED
      BY <1>1, <2>1, <3>1, <3>3 DEF IndInv, AddressesOwner, Addresses
  <2> QED
    BY <1>1, <1>2, <2>1 DEF AddressesOwner
<1> QED
  BY <1>5, <1>6, <1>7, <1>8, <1>9 DEF IndInv

\* Closing levels keeps the invariant: the tables below are as they were, and
\* the STORE of a function that ends was right for the level it ends in.
LEMMA TruncateKeeps ==
  ASSUME IndInv, NEW j \in 1 .. depth, Truncate(j),
         emitted' = Undefined \/ (j = depth - 1 /\ emitted' = target[depth])
  PROVE  IndInv'
<1>1. /\ depth' = j
      /\ \A i \in Level : i > j =>
           /\ kind'[i] = "function" /\ store'[i] = EmptyStore /\ free'[i] = <<>>
           /\ definitions'[i] = 0 /\ target'[i] = Undefined
  BY DEF Truncate
<1>2. \A i \in Level : i <= j =>
           /\ kind'[i] = kind[i] /\ store'[i] = store[i] /\ free'[i] = free[i]
           /\ definitions'[i] = definitions[i] /\ target'[i] = target[i]
  BY DEF Truncate, Level, IndInv, TypeOK
<1>3. /\ depth \in Nat \ {0} /\ depth \in Level /\ j \in Level /\ 1 \in Level
      /\ \A i \in 1 .. j : i \in Level /\ i <= j /\ i \in 1 .. depth
                          /\ (i > 1 => i - 1 \in 1 .. j)
  BY BoundsAssumption DEF IndInv, TypeOK, Level
<1>4. TypeOK'
  <2>1. /\ kind' \in [Level -> {"program", "function", "module"}]
        /\ definitions' \in [Level -> Nat]
        /\ target' \in [Level -> Access \cup {Undefined}]
    BY DEF Truncate, IndInv, TypeOK
  <2>2. store' \in [Level -> [Name -> Symbol \cup {Undefined}]]
    BY DEF Truncate, IndInv, TypeOK, EmptyStore
  <2>3. free' \in [Level -> Seq([name : Name, symbol : Symbol])]
    <3> DEFINE Captured == [name : Name, symbol : Symbol]
    <3>1. free \in [Level -> Seq(Captured)]
      BY DEF IndInv, TypeOK
    <3>2. free' = [i \in Level |-> IF i > j THEN <<>> ELSE free[i]]
      BY DEF Truncate
    <3> HIDE DEF Captured
    <3>3. << >> \in Seq(Captured)
      OBVIOUS
    <3>4. free' \in [Level -> Seq(Captured)]
      BY ONLY <3>1, <3>2, <3>3
    <3> QED
      BY <3>4 DEF Captured
  <2>4. emitted' \in Access \cup {Undefined}
    BY <1>3 DEF IndInv, TypeOK
  <2> QED
    BY <1>1, <1>3, <2>1, <2>2, <2>3, <2>4 DEF TypeOK
<1>5. LevelsInv'
  <2>1. emitted' # Undefined => emitted'.user = j
    BY <1>3 DEF IndInv, LevelsInv
  <2>2. \A i \in 2 .. j : target'[i] # Undefined => target'[i].user = i - 1
    BY <1>2, <1>3 DEF IndInv, LevelsInv
  <2>3. \A i \in 1 .. j : kind'[i] = "program" <=> i = 1
    BY <1>2, <1>3 DEF IndInv, LevelsInv
  <2>4. \A i \in 1 .. j : \A n \in Name :
          store'[i][n] # Undefined => (Shared(store'[i][n]) <=> i = 1)
    BY <1>2, <1>3 DEF IndInv, LevelsInv
  <2> QED
    BY <1>1, <2>1, <2>2, <2>3, <2>4 DEF LevelsInv, Shared, EmptyStore
<1>6. SlotsDistinct'
  BY <1>1, <1>2, <1>3 DEF IndInv, SlotsDistinct
<1>7. CapturesValid'
  <2>1. ASSUME NEW i \in 1 .. j
        PROVE  /\ store'[i] = store[i] /\ free'[i] = free[i]
               /\ i > 1 => store'[i - 1] = store[i - 1]
    BY <1>2, <1>3
  <2> QED
    BY <1>1, <1>3, <2>1 DEF IndInv, CapturesValid, Shared
<1>8. AddressesOwner'
  <2>1. \A a \in Access : a.owner \in Level
    BY DEF Access
  <2>2. ASSUME NEW a \in Access, NEW i \in 1 .. j, a.user = i
        PROVE  /\ Misplaced(a) => (kind'[a.owner] = "module")
               /\ Addresses(a, i) =>
                    LET s == a.symbol
                    IN  /\ s.scope \in {"GLOBAL", "BUILTIN"}
                              => a.owner = 1 /\ store'[1][a.name] = s
                        /\ s.scope \in {"LOCAL", "FUNCTION"}
                              => a.owner = i /\ store'[i][a.name] = s
                        /\ s.scope = "FREE" => a.owner < i /\ store'[i][a.name] = s
    <3>1. store'[1] = store[1] /\ store'[i] = store[i]
      BY <1>2, <1>3
    <3>2. Misplaced(a) => kind'[a.owner] = "module"
      BY <1>2, <1>3, <2>1, <2>2 DEF Misplaced, Level
    <3> QED
      BY <3>1, <3>2 DEF Addresses
  <2>3. ASSUME emitted' # Undefined, ~Misplaced(emitted)'
        PROVE  Addresses(emitted, depth)'
    <3>1. emitted' = target[depth] /\ target[depth] # Undefined /\ target[depth] \in Access
          /\ depth \in 2 .. depth /\ j = depth - 1 /\ j \in 1 .. j
      BY <1>3, <2>3 DEF IndInv, TypeOK
    <3>2. target[depth].user = j
      BY <3>1 DEF IndInv, LevelsInv
    <3>3. ~Misplaced(target[depth])
      BY <2>2, <2>3, <3>1, <3>2 DEF Misplaced
    <3>4. Addresses(target[depth], j)
      BY <3>1, <3>3 DEF IndInv, AddressesOwner
    <3> QED
      BY <1>1, <2>2, <3>1, <3>2, <3>4 DEF Addresses
  <2>4. ASSUME NEW i \in 2 .. j, target'[i] # Undefined, ~Misplaced(target[i])'
        PROVE  Addresses(target[i], i - 1)'
    <3>1. target'[i] = target[i] /\ target[i] # Undefined /\ target[i] \in Access
          /\ i \in 2 .. depth /\ i - 1 \in 1 .. j
      BY <1>2, <1>3, <2>4 DEF IndInv, TypeOK
    <3>2. target[i].user = i - 1
      BY <3>1 DEF IndInv, LevelsInv
    <3>3. ~Misplaced(target[i])
      BY <2>2, <2>4, <3>1, <3>2 DEF Misplaced
    <3>4. Addresses(target[i], i - 1)
      BY <3>1, <3>3 DEF IndInv, AddressesOwner
    <3> QED
      BY <2>2, <3>1, <3>2, <3>4 DEF Addresses
  <2> QED
    BY <1>1, <2>3, <2>4 DEF AddressesOwner
<1> QED
  BY <1>4, <1>5, <1>6, <1>7, <1>8 DEF IndInv
-----------------------------------------------------------------------------
\* What the declarations do, in the form DefineKeeps and DefineBinds take it.
DefinesAt(n, i, way, symbol, slots) ==
  /\ i \in 1 .. depth /\ symbol \in Symbol /\ slots \in Nat
  /\ ~Resolves(n, i)
  /\ symbol.scope = (IF i = 1 THEN "GLOBAL" ELSE "LOCAL")
  /\ definitions[i] <= symbol.index /\ symbol.index < slots
  /\ i = depth \/ (IsGlobal(i) /\ way = "declare")
  /\ store' = [store EXCEPT ![i][n] = symbol]
  /\ definitions' = [definitions EXCEPT ![i] = slots]
  /\ emitted' = AccessOf(way, n, i, symbol)
  /\ depth' = depth /\ kind' = kind /\ free' = free /\ target' = target

LEMMA DeclarationsDefine ==
  ASSUME IndInv, NEW n \in Name, DeclareByAssign(n) \/ Let(n) \/ ForInDefined(n)
  PROVE  \E i \in 1 .. depth, way \in {"declare", "iterate"}, symbol \in Symbol,
            slots \in Nat : DefinesAt(n, i, way, symbol, slots)
<1>1. depth \in 1 .. depth /\ \A i \in 1 .. depth : definitions[i] \in Nat
  BY BoundsAssumption DEF IndInv, TypeOK, Level
<1>2. CASE DeclareByAssign(n)
  <2>1. NewSymbol(depth) \in Symbol /\ definitions[depth] + 1 \in Nat
    BY <1>1 DEF NewSymbol, Symbol, Scope
  <2>2. DefinesAt(n, depth, "declare", NewSymbol(depth), definitions[depth] + 1)
    BY <1>1, <1>2, <2>1 DEF DeclareByAssign, Define, DefinesAt, NewSymbol, SlotsAfter
  <2> QED
    BY <1>1, <2>1, <2>2
<1>3. CASE Let(n)
  <2>1. PICK i \in 1 .. depth :
          /\ i = depth \/ IsGlobal(i)
          /\ LetMay(n, i)
          /\ Define(n, i)
          /\ emitted' = AccessOf("declare", n, i, NewSymbol(i))
          /\ UNCHANGED <<depth, kind, free, target>>
    BY <1>3 DEF Let
  <2>2. NewSymbol(i) \in Symbol /\ definitions[i] + 1 \in Nat
    BY <1>1 DEF NewSymbol, Symbol, Scope
  <2>3. DefinesAt(n, i, "declare", NewSymbol(i), definitions[i] + 1)
    BY <1>1, <2>1, <2>2 DEF LetMay, Define, DefinesAt, NewSymbol, SlotsAfter
  <2> QED
    BY <2>2, <2>3
<1>4. CASE ForInDefined(n)
  <2> DEFINE symbol == [NewSymbol(depth) EXCEPT !.index = @ + 2]
  <2>1. /\ symbol \in Symbol /\ definitions[depth] + 3 \in Nat
        /\ symbol.index = definitions[depth] + 2
        /\ symbol.scope = IF depth = 1 THEN "GLOBAL" ELSE "LOCAL"
    BY <1>1 DEF NewSymbol, Symbol, Scope
  <2>2. /\ ~Resolves(n, depth)
        /\ store' = [store EXCEPT ![depth][n] = symbol]
        /\ definitions' = [definitions EXCEPT ![depth] = definitions[depth] + 3]
        /\ emitted' = AccessOf("iterate", n, depth, symbol)
        /\ depth' = depth /\ kind' = kind /\ free' = free /\ target' = target
    BY <1>1, <1>4 DEF ForInDefined
  <2> HIDE DEF symbol
  <2>3. DefinesAt(n, depth, "iterate", symbol, definitions[depth] + 3)
    BY <1>1, <2>1, <2>2 DEF DefinesAt
  <2> QED
    BY <1>1, <2>1, <2>3
<1> QED
  BY <1>2, <1>3, <1>4

LEMMA NextKeeps == ASSUME IndInv, [Next]_vars PROVE IndInv'
<1>1. ASSUME NEW n \in Name, Use(n)
      PROVE  IndInv'
  <2>1. /\ Resolve("use", n)
        /\ depth' = depth /\ kind' = kind /\ target' = target /\ definitions' = definitions
    BY <1>1 DEF Use
  <2>2. /\ definitions' \in [Level -> Nat]
        /\ \A j \in Level : definitions'[j] >= definitions[j]
        /\ \A j \in Level : j > depth => definitions'[j] = 0
    BY <2>1 DEF IndInv, TypeOK, LevelsInv
  <2> QED
    BY <2>1, <2>2, ResolveKeeps
<1>2. ASSUME NEW n \in Name, ForInResolved(n)
      PROVE  IndInv'
  <2>1. /\ Resolve("iterate", n)
        /\ depth' = depth /\ kind' = kind /\ target' = target
        /\ definitions' = [definitions EXCEPT ![depth] = definitions[depth] + 2]
    BY <1>2 DEF ForInResolved
  <2>2. /\ definitions' \in [Level -> Nat]
        /\ \A j \in Level : definitions'[j] >= definitions[j]
        /\ \A j \in Level : j > depth => definitions'[j] = 0
    <3>1. /\ depth \in Level /\ definitions \in [Level -> Nat]
          /\ \A j \in Level : j \in Nat
          /\ \A j \in Level : j > depth => j # depth /\ definitions[j] = 0
      <4>1. depth \in Level /\ definitions \in [Level -> Nat]
        BY DEF IndInv, TypeOK
      <4>2. \A j \in Level : j > depth => definitions[j] = 0
        BY DEF IndInv, LevelsInv
      <4>3. \A j \in Level : j \in Nat
        BY BoundsAssumption DEF Level
      <4> QED
        BY <4>1, <4>2, <4>3
    <3>2. \A j \in Level : definitions'[j] = IF j = depth THEN definitions[j] + 2
                                                        ELSE definitions[j]
      BY <2>1, <3>1
    <3>3. definitions' \in [Level -> Nat]
      BY <2>1, <3>1
    <3> QED
      BY <3>1, <3>2, <3>3
  <2> QED
    BY <2>1, <2>2, ResolveKeeps
<1>3. ASSUME NEW n \in Name, DeclareByAssign(n) \/ Let(n) \/ ForInDefined(n)
      PROVE  IndInv'
  <2>1. PICK i \in 1 .. depth, way \in {"declare", "iterate"}, symbol \in Symbol,
             slots \in Nat : DefinesAt(n, i, way, symbol, slots)
    BY <1>3, DeclarationsDefine
  <2> QED
    BY <2>1, DefineKeeps DEF DefinesAt
<1>4. ASSUME Close
      PROVE  IndInv'
  <2>1. /\ depth - 1 \in 1 .. depth /\ Truncate(depth - 1) /\ emitted' = target[depth]
    BY <1>4, BoundsAssumption DEF Close, IndInv, TypeOK, Level
  <2> QED
    BY <2>1, TruncateKeeps
<1>5. ASSUME Abort
      PROVE  IndInv'
  <2>1. 1 \in 1 .. depth /\ Truncate(1) /\ emitted' = Undefined
    BY <1>5, BoundsAssumption DEF Abort, IndInv, TypeOK, Level
  <2> QED
    BY <2>1, TruncateKeeps
<1>6. ASSUME UNCHANGED vars
      PROVE  IndInv'
  <2>1. /\ depth' = depth /\ kind' = kind /\ store' = store /\ free' = free
        /\ definitions' = definitions /\ target' = target /\ emitted' = emitted
    BY <1>6 DEF vars
  <2>2. TypeOK' /\ LevelsInv'
    BY <2>1 DEF IndInv, TypeOK, LevelsInv, Shared
  <2>3. SlotsDistinct'
    BY <2>1 DEF IndInv, SlotsDistinct
  <2>4. CapturesValid'
    BY <2>1 DEF IndInv, CapturesValid, Shared
  <2>5. AddressesOwner'
    BY <2>1 DEF IndInv, AddressesOwner, Addresses, Misplaced
  <2> QED
    BY <2>2, <2>3, <2>4, <2>5 DEF IndInv
<1> QED
  BY <1>1, <1>2, <1>3, <1>4, <1>5, <1>6, OpenFunctionKeeps, OpenModuleKeeps DEF Next

\* The inductive invariant of name resolution.
THEOREM Invariance == Spec => []IndInv
<1>1. Init => IndInv
  BY InitIndInv
<1>2. IndInv /\ [Next]_vars => IndInv'
  BY NextKeeps
<1> QED
  BY <1>1, <1>2, PTL DEF Spec

\* The compiler's tables always have the types their declarations give them.
THEOREM TypeCorrect == Spec => []TypeOK
<1>1. IndInv => TypeOK
  BY DEF IndInv
<1> QED
  BY <1>1, Invariance, PTL

\* Two variables of a function never share a slot, and each slot lies in the
\* frame the machine gives the function.
THEOREM SlotsAreDistinct == Spec => []SlotsDistinct
<1>1. IndInv => SlotsDistinct
  BY DEF IndInv
<1> QED
  BY <1>1, Invariance, PTL

\* The closure that is made when a function ends captures, for each FREE
\* symbol of its body, the variable the enclosing function knows by that name.
THEOREM CapturesAreValid == Spec => []CapturesValid
<1>1. IndInv => CapturesValid
  BY DEF IndInv
<1> QED
  BY <1>1, Invariance, PTL

\* Every LOAD and STORE the compiler emits addresses the variable that the
\* name stands for.
THEOREM AccessesAddressTheirOwner == Spec => []AddressesOwner
<1>1. IndInv => AddressesOwner
  BY DEF IndInv
<1> QED
  BY <1>1, Invariance, PTL
-----------------------------------------------------------------------------
\* A step that changes no declaration of an open table changes no binding.
LEMMA SameDeclarationsBind ==
  ASSUME NEW j \in Nat, NEW n \in Name, NEW o \in Level, Owns(n, j, o),
         \A i \in 1 .. j : Declares(i, n)' <=> Declares(i, n),
         \A i \in 1 .. j : Declares(i, n) => store'[i][n] = store[i][n]
  PROVE  Owns(n, j, o)' /\ store'[o][n] = store[o][n]
<1>1. o \in 1 .. j /\ \A i \in (o + 1) .. j : i \in 1 .. j
  BY DEF Owns, Level
<1> QED
  BY <1>1 DEF Owns

\* resolve declares nothing: what it adds are captures.
LEMMA ResolveBinds ==
  ASSUME IndInv, NEW n \in Name, NEW way, Resolve(way, n),
         NEW i \in 1 .. depth, NEW m \in Name
  PROVE  /\ Declares(i, m)' <=> Declares(i, m)
         /\ Declares(i, m) => store'[i][m] = store[i][m]
<1>1. PICK h \in Level : Nearest(n, depth, h) /\ ResolveStep(n, depth, h)
  BY DEF Resolve
<1>2. i \in Level /\ depth \in Nat /\ store \in [Level -> [Name -> Symbol \cup {Undefined}]]
  BY BoundsAssumption DEF IndInv, TypeOK, Level
<1>3. CASE Captures(n, depth, h, i) /\ m = n
  <2>1. store[i][m] = Undefined
    BY <1>1, <1>2, <1>3 DEF Nearest, Captures, Level
  <2>2. store'[i][m] = [scope |-> "FREE", index |-> Len(free[i])]
    BY <1>1, <1>2, <1>3 DEF ResolveStep, SymbolAt
  <2> QED
    BY <2>1, <2>2 DEF Declares
<1>4. CASE ~ (Captures(n, depth, h, i) /\ m = n)
  <2>1. store'[i][m] = store[i][m]
    BY <1>1, <1>2, <1>4 DEF ResolveStep
  <2> QED
    BY <2>1 DEF Declares
<1> QED
  BY <1>3, <1>4

\* define declares a name that no table from its own down to the program's
\* declares: a declaration seen before is nearer, or of another name.
LEMMA DefineBinds ==
  ASSUME IndInv, NEW n \in Name, NEW i \in 1 .. depth, NEW way, NEW symbol, NEW slots,
         DefinesAt(n, i, way, symbol, slots),
         NEW j \in 1 .. depth, NEW m \in Name, NEW o \in Level, Owns(m, j, o)
  PROVE  Owns(m, j, o)' /\ store'[o][m] = store[o][m]
<1>1. /\ i \in Level /\ o \in 1 .. j /\ store[o][m] # Undefined
      /\ \A e \in 1 .. depth : e \in Level
      /\ depth \in Nat
  BY BoundsAssumption DEF Owns, Declares, IndInv, TypeOK, Level
<1>2. \A e \in Level : \A k \in Name :
        e # i \/ k # n => store'[e][k] = store[e][k]
  BY <1>1 DEF DefinesAt, IndInv, TypeOK
<1>3. m = n => o > i
  BY <1>1 DEF DefinesAt, Resolves
<1>4. store'[o][m] = store[o][m]
  BY <1>1, <1>2, <1>3
<1>5. \A e \in (o + 1) .. j : ~Declares(e, m)'
  BY <1>1, <1>2, <1>3 DEF Owns, Declares
<1> QED
  BY <1>1, <1>4, <1>5 DEF Owns, Declares

\* Code compiled early in a scope and code compiled late agree about what a
\* name means: no step changes what a name stands for in an open scope.
THEOREM BindingsAreStable == Spec => BindingsStable
<1>1. ASSUME IndInv, [Next]_vars, NEW j \in Level, NEW n \in Name, NEW o \in Level,
             j <= depth, j <= depth', Owns(n, j, o)
      PROVE  Owns(n, j, o)' /\ store'[o][n] = store[o][n]
  <2>1. j \in 1 .. depth /\ j \in Nat /\ 1 .. j \subseteq 1 .. depth /\ depth \in Nat
    BY <1>1, BoundsAssumption DEF IndInv, TypeOK, Level
  <2>2. ASSUME NEW m \in Name, NEW way, Resolve(way, m)
        PROVE  Owns(n, j, o)' /\ store'[o][n] = store[o][n]
    <3>1. \A i \in 1 .. j : /\ Declares(i, n)' <=> Declares(i, n)
                            /\ Declares(i, n) => store'[i][n] = store[i][n]
      BY <1>1, <2>1, <2>2, ResolveBinds
    <3> QED
      BY <1>1, <2>1, <3>1, SameDeclarationsBind
  <2>3. ASSUME NEW m \in Name, DeclareByAssign(m) \/ Let(m) \/ ForInDefined(m)
        PROVE  Owns(n, j, o)' /\ store'[o][n] = store[o][n]
    BY <1>1, <2>1, <2>3, DeclarationsDefine, DefineBinds
  <2>4. ASSUME \A i \in 1 .. j : store'[i] = store[i]
        PROVE  Owns(n, j, o)' /\ store'[o][n] = store[o][n]
    BY <1>1, <2>1, <2>4, SameDeclarationsBind DEF Declares
  <2>5. ASSUME NEW i \in Level, j <= i, Truncate(i)
        PROVE  \A e \in 1 .. j : store'[e] = store[e]
    <3>1. \A e \in 1 .. j : e \in Level /\ ~ (e > i)
      BY <2>1, <2>5, BoundsAssumption DEF IndInv, TypeOK, Level
    <3> QED
      BY <2>5, <3>1 DEF Truncate
  <2>6. CASE OpenFunction
    BY <1>1, <2>1, <2>4, <2>6 DEF OpenFunction, IndInv, TypeOK, Level
  <2>7. CASE OpenModule
    BY <2>4, <2>7 DEF OpenModule
  <2>8. CASE Close
    <3>1. depth - 1 \in Level /\ Truncate(depth - 1) /\ j <= depth - 1
      BY <1>1, <2>1, <2>8, BoundsAssumption DEF Close, Truncate, IndInv, TypeOK, Level
    <3> QED
      BY <2>4, <2>5, <3>1
  <2>9. CASE Abort
    <3>1. 1 \in Level /\ Truncate(1) /\ j <= 1
      BY <1>1, <2>9, BoundsAssumption DEF Abort, Truncate, Level
    <3> QED
      BY <2>4, <2>5, <3>1
  <2>10. CASE UNCHANGED vars
    BY <2>4, <2>10 DEF vars
  <2> QED
    BY <1>1, <2>2, <2>3, <2>6, <2>7, <2>8, <2>9, <2>10 DEF Next, Use, ForInResolved
<1>2. IndInv /\ [Next]_vars =>
        [\A j \in Level : \A n \in Name : \A o \in Level :
           j <= depth /\ j <= depth' /\ Owns(n, j, o) =>
             Owns(n, j, o)' /\ store'[o][n] = store[o][n]]_vars
  BY <1>1
<1> QED
  BY <1>2, Invariance, PTL DEF Spec, BindingsStable
=============================================================================
