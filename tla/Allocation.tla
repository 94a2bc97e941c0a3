----------------------------- MODULE Allocation -----------------------------
(***************************************************************************)
(* The statements of the interpreter that allocate, and what they leave    *)
(* for the collector: on the stack, in the heap vector, or only in a local *)
(* variable of C++ that gc() does not know of.                             *)
(*                                                                         *)
(* MemoryManager takes for granted that an object is registered before the *)
(* program can reach it, once, and that what it refers to is held by a     *)
(* root while addObject runs.  Here each statement is modelled in the      *)
(* order of its code.  Some keep that rule always, some as long as         *)
(* addObject does not collect (the heap is small, or nextGc has passed its *)
(* limit), and some never; SafeSpec are the programs that keep to it.      *)
(*                                                                         *)
(* A collection is one step, as in module Collector, which MemoryManager   *)
(* implements; unlike there, flags may be left over and the heap vector    *)
(* may hold an object twice.  Whether addObject collects depends on how    *)
(* many objects there are elsewhere: in an automatic execution it may each *)
(* time, in another one only the builtin gc() collects.                    *)
(*                                                                         *)
(* Numbers and the like are left out of the stack and of the payloads.  An *)
(* address is not used again, so that a value that outlives its object is  *)
(* known by it.                                                            *)
(*                                                                         *)
(* A definition whose comment begins with "Fault:" is a wrong variant of   *)
(* the next one, used to see that the properties notice the fault.         *)
(***************************************************************************)
EXTENDS HeapGraph, Integers, Sequences, FiniteSets, Functions

CONSTANTS
  Kind,         \* what each address is used for
  Constants,    \* the string constants of the program
  Nothing,      \* the variable holds no object
  MaxStack,     \* bound on the objects on the operand stack
  MaxElements   \* bound on the elements of a list, a map and a closure

Kinds == {"String", "List", "Map", "Closure", "Bounded"}

ASSUME AllocationAssumption ==
  /\ Kind \in [Object -> Kinds]
  /\ Constants \subseteq {o \in Object : Kind[o] = "String"}
  /\ Nothing \notin Object
  /\ MaxStack \in Nat /\ MaxElements \in Nat

VARIABLES
  mem,        \* the heap
  stack,      \* the objects on the operand stack, up to sp
  global,     \* a global variable
  automatic   \* addObject collects now and then

vars == <<mem, stack, global, automatic>>

\* How often the heap vector holds each object, the flags, the payload each
\* object points to and what the payload holds, the addresses handed out, and
\* the objects and payloads that SRCLANG_VALUE_FREE has released.
MaxEntries == 2
Memory == [entries : [Object -> 0 .. MaxEntries], marked : SUBSET Object,
           payload : [Object -> Object], refs : [Object -> SUBSET Object],
           used : SUBSET Object, freed : SUBSET Object, gone : SUBSET Object]

Init ==
  /\ mem = [entries |-> [o \in Object |-> IF o \in Constants THEN 1 ELSE 0],
            marked |-> {}, payload |-> [o \in Object |-> o],
            refs |-> [o \in Object |-> {}],
            used |-> Constants, freed |-> {}, gone |-> {}]
  /\ stack = <<>>
  /\ global = Nothing
  /\ automatic \in BOOLEAN

Content(m, o) == m.refs[m.payload[o]]

\* What mark() follows: neither the parent nor the callee of a bounded value.
Kids(m, o) == IF Kind[o] \in {"List", "Map", "Closure"} THEN Content(m, o) ELSE {}

\* What gc() marks from, with the stack s.
Roots(s) == Range(s) \cup Constants \cup ({global} \ {Nothing})
-----------------------------------------------------------------------------
(* Memory.                                                                 *)

\* mark() from the roots, stopping at flags that are set, and sweep(): the
\* first entry of a marked object resets the flag, a second one frees it.
Collected(m, roots) ==
  LET reached == m.marked \cup Reach(roots, [o \in Object |->
                                IF o \in m.marked THEN {} ELSE Kids(m, o)])
      heap == {o \in Object : m.entries[o] > 0}
      released == {o \in heap : o \notin reached \/ m.entries[o] > 1}
      deleted == {m.payload[o] : o \in released}
  IN  [m EXCEPT !.entries = [o \in Object |-> IF o \in heap \cap reached THEN 1 ELSE 0],
                !.marked = reached \ heap,
                !.refs = [p \in Object |-> IF p \in deleted THEN {} ELSE @[p]],
                !.freed = @ \cup released,
                !.gone = @ \cup deleted]

\* addObject: perhaps a collection, then the push_back.
Entered(m, o) == [m EXCEPT !.entries[o] = @ + 1]
AddObject(m, o, roots) ==
  {Entered(n, o) : n \in {m} \cup (IF automatic THEN {Collected(m, roots)} ELSE {})}

\* A new HeapObject with a payload of its own, or with that of another one.
Unused(kind) == {o \in Object : Kind[o] = kind /\ o \notin mem.used}
NextUnused(kind) == CHOOSE o \in Unused(kind) : TRUE
Fits(content) == Cardinality(content) <= MaxElements
New(o, content) == [mem EXCEPT !.used = @ \cup {o}, !.refs[o] = content]
Sharing(o, old, content) ==
  [mem EXCEPT !.used = @ \cup {o}, !.payload[o] = mem.payload[old],
              !.refs[mem.payload[old]] = content]

\* Fault: one operand too few is taken off the stack.
BelowOne(n) == SubSeq(stack, 1, Len(stack) - n + (IF n > 0 THEN 1 ELSE 0))

\* The stack without its last n objects, these, and the i-th from the top.
Below(n) == SubSeq(stack, 1, Len(stack) - n)
Taken(n) == {stack[i] : i \in Len(stack) - n + 1 .. Len(stack)}
Nth(i) == stack[Len(stack) - i + 1]

On(n, kind) == Len(stack) >= n /\ Kind[Nth(n)] = kind
Push(s, o) == Len(s) < MaxStack /\ stack' = Append(s, o)
-----------------------------------------------------------------------------
(* Loads and stores.                                                       *)

Constant(o) == Push(stack, o) /\ UNCHANGED <<mem, global, automatic>>

Load ==
  /\ global # Nothing
  /\ Push(stack, global)
  /\ UNCHANGED <<mem, global, automatic>>

Store ==
  /\ stack # <<>>
  /\ global' = Nth(1)
  /\ UNCHANGED <<mem, stack, automatic>>

Pop ==
  /\ stack # <<>>
  /\ stack' = Below(1)
  /\ UNCHANGED <<mem, global, automatic>>

\* What a list no longer holds when one of its elements is lost: it may have
\* been a number, or be in the list more than once.
AtMostOne(content) == {{}} \cup {{o} : o \in content}

\* list[i] = value, over an element or a number.
Set ==
  /\ On(2, "List")
  /\ \E over \in AtMostOne(Content(mem, Nth(2))) :
        LET content == (Content(mem, Nth(2)) \ over) \cup {Nth(1)}
        IN  Fits(content) /\ mem' = [mem EXCEPT !.refs[mem.payload[Nth(2)]] = content]
  /\ stack' = Below(1)
  /\ UNCHANGED <<global, automatic>>

\* list[i].
Index ==
  /\ On(1, "List")
  /\ \E o \in Content(mem, Nth(1)) : stack' = Append(Below(1), o)
  /\ UNCHANGED <<mem, global, automatic>>
-----------------------------------------------------------------------------
(* Statements that allocate.                                               *)

\* The new object o with content, added while the collector sees
\* `seen', after which the stack is s.
Allocate(o, content, seen, s) ==
  /\ Fits(content)
  /\ mem' \in AddObject(New(o, content), o, Roots(seen))
  /\ Push(s, o)
  /\ UNCHANGED <<global, automatic>>

\* string + string: the operands are off the stack, and the new string is not
\* on it yet.
Concat ==
  /\ Unused("String") # {}
  /\ On(1, "String") /\ On(2, "String")
  /\ Allocate(NextUnused("String"), {}, Below(2), Below(2))

\* str(), error() and an index of a string: a string nobody registers.
Stringify ==
  /\ Unused("String") # {}
  /\ stack # <<>>
  /\ LET o == NextUnused("String")
     IN  mem' = New(o, {}) /\ Push(Below(1), o)
  /\ UNCHANGED <<global, automatic>>

\* Fault: sp is moved before the surplus arguments are in the list.
VariadicMoved(n, o) == Below(n)

\* Fault: the list is on the stack before it is registered.
VariadicStored(n, o) == Append(stack, o)

\* A variadic call: its surplus arguments are on the stack until the list
\* they are put into has been added.
VariadicSeen(n, o) == stack
Variadic(n) ==
  /\ Unused("List") # {}
  /\ n <= Len(stack)
  /\ LET o == NextUnused("List")
     IN  Allocate(o, Taken(n), VariadicSeen(n, o), Below(n))

\* [ ... ]: the elements are off the stack when the list is added.
Pack(n) ==
  /\ Unused("List") # {}
  /\ n <= Len(stack)
  /\ Allocate(NextUnused("List"), Taken(n), Below(n), Below(n))

\* A map literal or a closure takes the place of its values on the stack, and
\* is then added.
PushAndAdd(kind, n) ==
  /\ Unused(kind) # {}
  /\ n <= Len(stack)
  /\ LET o == NextUnused(kind)
     IN  Allocate(o, Taken(n), Append(Below(n), o), Below(n))

\* list + list.
ListAdd ==
  /\ Unused("List") # {}
  /\ On(1, "List") /\ On(2, "List")
  /\ LET o == NextUnused("List")
     IN  Allocate(o, Content(mem, Nth(1)) \cup Content(mem, Nth(2)),
                  Append(Below(2), o), Below(2))
-----------------------------------------------------------------------------
(* Builtins.  callBuiltin takes callee and arguments off the stack, calls, *)
(* and adds whatever object the builtin returns.                           *)

Returns(m, o, n) ==
  /\ m.entries[o] < MaxEntries
  /\ mem' \in AddObject(m, o, Roots(Below(n)))
  /\ Push(Below(n), o)
  /\ UNCHANGED <<global, automatic>>

\* A list of numbers.
RangeList ==
  /\ Unused("List") # {}
  /\ LET o == NextUnused("List") IN Returns(New(o, {}), o, 0)

\* append() and pop() change the payload and return a new object for it.
AppendTo ==
  /\ Unused("List") # {}
  /\ On(2, "List")
  /\ LET o == NextUnused("List")
         content == Content(mem, Nth(2)) \cup {Nth(1)}
     IN  Fits(content) /\ Returns(Sharing(o, Nth(2), content), o, 2)

PopFrom ==
  /\ Unused("List") # {}
  /\ On(1, "List")
  /\ LET o == NextUnused("List")
     IN  \E gone \in AtMostOne(Content(mem, Nth(1))) :
           Returns(Sharing(o, Nth(1), Content(mem, Nth(1)) \ gone), o, 1)

\* clone() of a list: the elements are shared.
Clone ==
  /\ Unused("List") # {}
  /\ On(1, "List")
  /\ LET o == NextUnused("List") IN Returns(New(o, Content(mem, Nth(1))), o, 1)

Bound ==
  /\ Unused("Bounded") # {}
  /\ Len(stack) >= 2
  /\ LET o == NextUnused("Bounded") IN Returns(New(o, Taken(2)), o, 2)

\* term() returns the error value its closure returned, which is registered
\* already when a builtin made it.
Relay ==
  /\ global # Nothing
  /\ Kind[global] = "String"
  /\ Returns(mem, global, 0)

\* The builtin gc().
Gc ==
  /\ mem' = Collected(mem, Roots(stack))
  /\ UNCHANGED <<stack, global, automatic>>

\* Statements that keep the rule whether or not addObject collects.
RootedStatement ==
  \/ \E o \in Constants : Constant(o)
  \/ Load
  \/ Store
  \/ Pop
  \/ Set
  \/ Index
  \/ Concat
  \/ Stringify
  \/ \E n \in 0 .. MaxElements : Variadic(n)
  \/ RangeList
  \/ Gc

\* Those whose values a collection in addObject loses, or whose object it
\* marks before it is registered.
UnrootedStatement ==
  \/ \E n \in 0 .. MaxElements : Pack(n)
  \/ \E kind \in {"Map", "Closure"}, n \in 0 .. MaxElements : PushAndAdd(kind, n)
  \/ ListAdd
  \/ Clone

\* Those after which any collection may free what is in use.
SharingStatement ==
  \/ AppendTo
  \/ PopFrom
  \/ Bound
  \/ Relay

SafeNext == RootedStatement \/ (~automatic /\ UnrootedStatement)
SafeSpec == Init /\ [][SafeNext]_vars

\* Programs with list literals.
ListSpec == Init /\ [][RootedStatement \/ \E n \in 0 .. MaxElements : Pack(n)]_vars

\* Programs that assign what append() and pop() return.
AppendSpec == Init /\ [][RootedStatement \/ AppendTo \/ PopFrom]_vars

Next == RootedStatement \/ UnrootedStatement \/ SharingStatement
Spec == Init /\ [][Next]_vars
-----------------------------------------------------------------------------
(* Properties.                                                             *)

TypeOK ==
  /\ mem \in Memory
  /\ stack \in Seq(Object) /\ Len(stack) <= MaxStack
  /\ global \in Object \cup {Nothing}
  /\ automatic \in BOOLEAN

\* What the program can get at, through bounded values also.
Reachable == Reach(Roots(stack), [o \in Object |-> Content(mem, o)])
Alive(o) == o \notin mem.freed /\ mem.payload[o] \notin mem.gone

\* Whatever statements a program strings together, with collections in the
\* middle of some of them, no value it can get at has been freed, nor has the
\* payload of one: that needs the order of popping, adding and pushing to be
\* right in every statement, and shows only collections later.
NoDangling == \A o \in Reachable : Alive(o)

\* No statement leaves a registered object with its flag set: the next mark()
\* would stop there, and what only that object holds would be freed.
CleanMarks == \A o \in Object : mem.entries[o] > 0 => o \notin mem.marked

\* Why these two hold for SafeSpec: each object has its own payload and is
\* registered once at most, flags are left on unregistered strings alone, and
\* what the roots reach is in use and registered, or a string nobody registers.
HeapOK(m, from) ==
  /\ m \in Memory
  /\ m.marked \cup m.freed \cup m.gone \subseteq m.used
  /\ \A o \in Object :
       /\ m.payload[o] = o
       /\ m.entries[o] <= 1
       /\ o \notin m.used => m.entries[o] = 0
       /\ o \in m.marked => m.entries[o] = 0 /\ Kind[o] = "String"
       /\ Kind[o] \in {"String", "Bounded"} => m.refs[o] = {}
  /\ \A o \in Reach(from, m.refs) :
       /\ o \in m.used \ (m.freed \cup m.gone)
       /\ m.entries[o] = 1 \/ Kind[o] = "String"
IndInv == TypeOK /\ HeapOK(mem, Roots(stack))

\* README.md:73, "[10, true, "Hey", fun () { return 0; }, {a: 10, b: 20}];":
\* the elements of a list can be used as long as the list.
ListsHoldTheirElements ==
  \A o \in Reachable : Kind[o] = "List" => \A x \in Content(mem, o) : Alive(x)

\* README.md:188 and :190, "arr = append(arr, 30);" and "arr = pop(arr);": the
\* list a variable was given by append() or pop() can be used, although nothing
\* holds the list they were given any more.
ListsAreAlive == \A o \in Roots(stack) : Kind[o] = "List" => Alive(o)
=============================================================================
