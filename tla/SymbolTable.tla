---------------------------- MODULE SymbolTable ----------------------------
(***************************************************************************)
(* Name resolution: the chain of symbol tables the compiler keeps while it *)
(* compiles nested functions and imported modules, and the addresses it    *)
(* emits for the names a program uses.                                     *)
(*                                                                         *)
(* A table belongs to a level: level 1 is the program's table, a function  *)
(* or a module opens the next level and closing it goes back.  The         *)
(* compiler is driven by an arbitrary program: a step is one use of a      *)
(* name, one declaration, or the beginning or end of a function or module. *)
(*                                                                         *)
(* SymbolTable::resolve recurses to the table that holds the name and, on  *)
(* the way back, records a capture in every table in between; here that is *)
(* one step in closed form.                                                *)
(*                                                                         *)
(* A definition whose comment begins with "Fault:" is a wrong variant of   *)
(* the next one, used to see that the properties notice the fault.         *)
(***************************************************************************)
EXTENDS Integers, Sequences, FiniteSets

CONSTANTS
  Name,             \* the identifiers of the program
  Builtin,          \* those that name builtins
  MaxLevel,         \* bound on the nesting of functions and modules
  MaxDefinitions,   \* bound on the variables of each level's table
  MaxParams,        \* bound on the parameters of a function
  Undefined         \* no symbol, no access

ASSUME BoundsAssumption ==
  /\ MaxLevel \in Nat \ {0}
  /\ MaxDefinitions \in [1 .. MaxLevel -> Nat]
  /\ MaxParams \in Nat
ASSUME BuiltinAssumption == Builtin \subseteq Name

Level == 1 .. MaxLevel
Scope == {"BUILTIN", "GLOBAL", "LOCAL", "FREE", "FUNCTION"}
Symbol == [scope : Scope, index : Nat]

\* A use of a variable: the table that declares it, the table whose code
\* uses it, the symbol the LOAD or STORE is emitted with, and how the name is
\* used: loaded or assigned to, declared, or the variable of a for-in loop.
Access == [owner : Level, user : Level, name : Name, symbol : Symbol,
           way : {"use", "declare", "iterate"}]

ASSUME UndefinedAssumption == Undefined \notin Symbol /\ Undefined \notin Access

VARIABLES
  depth,         \* the level being compiled
  kind,          \* what each level is: "program", "function" or "module"
  store,         \* SymbolTable::store of each level
  free,          \* SymbolTable::free of each level: captured name and symbol
  definitions,   \* SymbolTable::definitions of each level
  target,        \* the STORE to emit when the function of a level ends
  emitted        \* the access of the last step

vars == <<depth, kind, store, free, definitions, target, emitted>>

EmptyStore == [n \in Name |-> Undefined]

Init ==
  /\ depth = 1
  /\ kind = [j \in Level |-> IF j = 1 THEN "program" ELSE "function"]
  /\ store = [j \in Level |->
                [n \in Name |-> IF j = 1 /\ n \in Builtin
                                THEN [scope |-> "BUILTIN", index |-> 0]
                                ELSE Undefined]]
  /\ free = [j \in Level |-> <<>>]
  /\ definitions = [j \in Level |-> 0]
  /\ target = [j \in Level |-> Undefined]
  /\ emitted = Undefined
-----------------------------------------------------------------------------
(* Looking a name up.                                                      *)

\* Some table from level j down holds n: resolve(n) at level j finds a symbol.
Resolves(n, j) == \E h \in 1 .. j : store[h][n] # Undefined

\* Table h is the nearest one that holds n, seen from level j.
Nearest(n, j, h) ==
  /\ h \in 1 .. j
  /\ store[h][n] # Undefined
  /\ \A i \in (h + 1) .. j : store[i][n] = Undefined

\* Table o is the nearest one that declares n rather than captures it.
Declares(o, n) == store[o][n] # Undefined /\ store[o][n].scope # "FREE"
Owns(n, j, o) ==
  /\ o \in 1 .. j
  /\ Declares(o, n)
  /\ \A i \in (o + 1) .. j : ~Declares(i, n)

\* A global or a builtin is used from any level under its own symbol.
Shared(symbol) == symbol.scope \in {"GLOBAL", "BUILTIN"}

\* Fault: only the innermost table records the capture.
CapturesLast(n, j, h, i) == h < i /\ i = j /\ ~Shared(store[h][n])

\* Looking n up from level j, every table between table h that holds it and
\* level j captures n.
Captures(n, j, h, i) == h < i /\ i <= j /\ ~Shared(store[h][n])

\* Fault: the symbol of the table that holds n is used from any level.
SymbolAtHolder(n, j, h, i) == store[h][n]

\* The symbol of n in table i once resolve has returned from it: the holder's
\* own symbol, or the next entry of table i's list of captures.
SymbolAt(n, j, h, i) ==
  IF Captures(n, j, h, i) THEN [scope |-> "FREE", index |-> Len(free[i])]
                          ELSE store[h][n]

\* resolve(n) at level j, when table h is the nearest that holds n.
ResolveStep(n, j, h) ==
  LET capturing == {i \in Level : Captures(n, j, h, i)}
  IN  /\ free' = [i \in Level |->
                    IF i \in capturing
                    THEN Append(free[i], [name |-> n, symbol |-> SymbolAt(n, j, h, i - 1)])
                    ELSE free[i]]
      /\ store' = [i \in Level |->
                    IF i \in capturing THEN [store[i] EXCEPT ![n] = SymbolAt(n, j, h, i)]
                                       ELSE store[i]]

AccessOf(way, n, owner, symbol) ==
  [owner |-> owner, user |-> depth, name |-> n, symbol |-> symbol, way |-> way]

\* The name n resolves at the current level, in the given way.
Resolve(way, n) ==
  \E h, o \in Level :
    /\ Nearest(n, depth, h)
    /\ Owns(n, depth, o)
    /\ ResolveStep(n, depth, h)
    /\ emitted' = AccessOf(way, n, o, SymbolAt(n, depth, h, depth))

\* identifier(): a name that resolves is loaded, or assigned with = or :=
\* once the value has been compiled.
Use(n) ==
  /\ Resolve("use", n)
  /\ UNCHANGED <<depth, kind, definitions, target>>
-----------------------------------------------------------------------------
(* Declarations.                                                           *)

\* Fault: the slot counter of a table is not advanced.
SlotsAfterNone(i) == definitions[i]

\* The slots in use once one more is taken.
SlotsAfter(i) == definitions[i] + 1

\* Fault: the slots are numbered from the one before the first.
NewSymbolBefore(i) ==
  [scope |-> IF i = 1 THEN "GLOBAL" ELSE "LOCAL", index |-> definitions[i] - 1]

\* define(n) in table i: the next slot of the table, global only in the
\* table that has no parent.
NewSymbol(i) ==
  [scope |-> IF i = 1 THEN "GLOBAL" ELSE "LOCAL", index |-> definitions[i]]

Define(n, i) ==
  /\ definitions[i] < MaxDefinitions[i]
  /\ store' = [store EXCEPT ![i][n] = NewSymbol(i)]
  /\ definitions' = [definitions EXCEPT ![i] = SlotsAfter(i)]

\* n := value, when n does not resolve.
DeclareByAssign(n) ==
  /\ ~Resolves(n, depth)
  /\ Define(n, depth)
  /\ emitted' = AccessOf("declare", n, depth, NewSymbol(depth))
  /\ UNCHANGED <<depth, kind, free, target>>

\* Fault: let only looks into its own table for an earlier definition.
LetMayOwn(n, i) == store[i][n] = Undefined

\* let n = value is an error if n resolves from the table it goes to.
LetMay(n, i) == ~Resolves(n, i)

\* The table `let global' declares in: that of the file being compiled.
IsGlobal(i) ==
  /\ kind[i] # "function"
  /\ \A h \in (i + 1) .. depth : kind[h] = "function"

\* let n = value, let global n = value.
Let(n) ==
  \E i \in 1 .. depth :
    /\ i = depth \/ IsGlobal(i)
    /\ LetMay(n, i)
    /\ Define(n, i)
    /\ emitted' = AccessOf("declare", n, i, NewSymbol(i))
    /\ UNCHANGED <<depth, kind, free, target>>

\* for n in ...: two slots for the position and the container, under names
\* no program can refer to, and n itself, resolved or defined.
ForInResolved(n) ==
  /\ definitions[depth] + 2 <= MaxDefinitions[depth]
  /\ Resolve("iterate", n)
  /\ definitions' = [definitions EXCEPT ![depth] = @ + 2]
  /\ UNCHANGED <<depth, kind, target>>

ForInDefined(n) ==
  LET symbol == [NewSymbol(depth) EXCEPT !.index = @ + 2]
  IN  /\ definitions[depth] + 3 <= MaxDefinitions[depth]
      /\ ~Resolves(n, depth)
      /\ store' = [store EXCEPT ![depth][n] = symbol]
      /\ definitions' = [definitions EXCEPT ![depth] = @ + 3]
      /\ emitted' = AccessOf("iterate", n, depth, symbol)
      /\ UNCHANGED <<depth, kind, free, target>>
-----------------------------------------------------------------------------
(* Functions and modules.                                                  *)

\* The table a function starts with: its own name, then its parameters, a
\* repeated one under its last position.
FunctionStore(self, params) ==
  [n \in Name |->
     LET at == {i \in DOMAIN params : params[i] = n}
     IN  IF at # {}
         THEN [scope |-> "LOCAL",
               index |-> (CHOOSE i \in at : \A h \in at : h <= i) - 1]
         ELSE IF self # Undefined /\ n = self.name
              THEN [scope |-> "FUNCTION", index |-> 0]
              ELSE Undefined]

\* function(): self is the variable the function is the value of, if any.
OpenFunction ==
  /\ depth < MaxLevel
  /\ \E self \in {Undefined, emitted}, k \in 0 .. MaxParams :
       /\ k <= MaxDefinitions[depth + 1]
       /\ self # Undefined => self.way # "iterate"
       /\ \E params \in [1 .. k -> Name] :
            store' = [store EXCEPT ![depth + 1] = FunctionStore(self, params)]
       /\ depth' = depth + 1
       /\ kind' = [kind EXCEPT ![depth + 1] = "function"]
       /\ definitions' = [definitions EXCEPT ![depth + 1] = k]
       /\ target' = [target EXCEPT ![depth + 1] = self]
  /\ emitted' = Undefined
  /\ UNCHANGED free

\* use("..."): the module's file is compiled into a table of its own.
OpenModule ==
  /\ depth < MaxLevel
  /\ depth' = depth + 1
  /\ kind' = [kind EXCEPT ![depth + 1] = "module"]
  /\ emitted' = Undefined
  /\ UNCHANGED <<store, free, definitions, target>>

\* The levels above j are gone.
Truncate(j) ==
  /\ depth' = j
  /\ kind' = [i \in Level |-> IF i > j THEN "function" ELSE kind[i]]
  /\ store' = [i \in Level |-> IF i > j THEN EmptyStore ELSE store[i]]
  /\ free' = [i \in Level |-> IF i > j THEN <<>> ELSE free[i]]
  /\ definitions' = [i \in Level |-> IF i > j THEN 0 ELSE definitions[i]]
  /\ target' = [i \in Level |-> IF i > j THEN Undefined ELSE target[i]]

\* The end of a function or of a module: the parent's code loads what the
\* table captured, makes the closure and, for a named function, stores it.
Close ==
  /\ depth > 1
  /\ emitted' = target[depth]
  /\ Truncate(depth - 1)

\* A compile error: an exception leaves all open tables; the interactive
\* loop goes on with the program's table as it is by now.
Abort ==
  /\ Truncate(1)
  /\ emitted' = Undefined

Next ==
  \/ \E n \in Name : \/ Use(n)
                     \/ DeclareByAssign(n)
                     \/ Let(n)
                     \/ ForInResolved(n)
                     \/ ForInDefined(n)
  \/ OpenFunction
  \/ OpenModule
  \/ Close
  \/ Abort

Spec == Init /\ [][Next]_vars
-----------------------------------------------------------------------------
(* Properties.                                                             *)

TypeOK ==
  /\ depth \in Level
  /\ kind \in [Level -> {"program", "function", "module"}]
  /\ store \in [Level -> [Name -> Symbol \cup {Undefined}]]
  /\ free \in [Level -> Seq([name : Name, symbol : Symbol])]
  /\ definitions \in [Level -> Nat]
  /\ target \in [Level -> Access \cup {Undefined}]
  /\ emitted \in Access \cup {Undefined}

\* Two variables of one table never share a slot, and every slot lies in the
\* frame the function is given (nlocals is `definitions' when it ends).
SlotsDistinct ==
  \A j \in 1 .. depth : \A n \in Name :
    store[j][n] # Undefined /\ store[j][n].scope \in {"LOCAL", "GLOBAL"} =>
      /\ store[j][n].index < definitions[j]
      /\ \A m \in Name \ {n} :
           store[j][m] # Undefined /\ store[j][m].scope = store[j][n].scope =>
             store[j][m].index # store[j][n].index

\* A closure gets the variables its code refers to: the i-th capture of a
\* table is the variable the parent knows under that name, and the FREE
\* symbols of a table are the positions of its captures, one each.
CapturesValid ==
  \A j \in 1 .. depth :
    /\ \A i \in DOMAIN free[j] :
         /\ j > 1
         /\ store[j - 1][free[j][i].name] = free[j][i].symbol
         /\ store[j][free[j][i].name] = [scope |-> "FREE", index |-> i - 1]
         /\ ~Shared(free[j][i].symbol)
    /\ \A n \in Name :
         store[j][n] # Undefined /\ store[j][n].scope = "FREE" =>
           /\ store[j][n].index + 1 \in DOMAIN free[j]
           /\ free[j][store[j][n].index + 1].name = n

\* let global in a function of an imported module: the one case in which the
\* symbol is a slot of another frame than the one the code runs in.
Misplaced(access) ==
  /\ access.symbol.scope = "LOCAL"
  /\ access.owner < access.user
  /\ kind[access.owner] = "module"
  /\ access.way = "declare"

\* An access from level j addresses the variable the name stands for: a
\* global or builtin by the program's table, a local of this function by its
\* slot, one of an enclosing function by a capture.
Addresses(access, j) ==
  LET s == access.symbol
      o == access.owner
      n == access.name
  IN  /\ access.user = j
      /\ s.scope \in {"GLOBAL", "BUILTIN"} => o = 1 /\ store[1][n] = s
      /\ s.scope \in {"LOCAL", "FUNCTION"} => o = j /\ store[j][n] = s
      /\ s.scope = "FREE" => o < j /\ store[j][n] = s

\* Every instruction the compiler emits for a name addresses the variable the
\* name stands for, the STORE that follows the body of a named function too.
AddressesOwner ==
  /\ emitted # Undefined /\ ~Misplaced(emitted) => Addresses(emitted, depth)
  /\ \A j \in 2 .. depth :
       target[j] # Undefined /\ ~Misplaced(target[j]) => Addresses(target[j], j - 1)

\* What a name stands for in a scope never changes while the scope is open:
\* code compiled earlier in the scope and code compiled later agree.
BindingsStable ==
  [][\A j \in Level : \A n \in Name : \A o \in Level :
       j <= depth /\ j <= depth' /\ Owns(n, j, o) =>
         Owns(n, j, o)' /\ store'[o][n] = store[o][n]]_vars

\* Why the properties hold: only the program's table declares globals, only
\* its level is the program's, an access is made from the level that is being
\* compiled, and a level that is not open is empty.
LevelsInv ==
  /\ \A j \in 1 .. depth : kind[j] = "program" <=> j = 1
  /\ \A j \in 1 .. depth : \A n \in Name :
       store[j][n] # Undefined => (Shared(store[j][n]) <=> j = 1)
  /\ emitted # Undefined => emitted.user = depth
  /\ \A j \in 2 .. depth : target[j] # Undefined => target[j].user = j - 1
  /\ \A j \in Level : j > depth =>
       /\ kind[j] = "function"
       /\ store[j] = EmptyStore
       /\ free[j] = <<>>
       /\ definitions[j] = 0
       /\ target[j] = Undefined

IndInv ==
  /\ TypeOK
  /\ LevelsInv
  /\ SlotsDistinct
  /\ CapturesValid
  /\ AddressesOwner
=============================================================================
