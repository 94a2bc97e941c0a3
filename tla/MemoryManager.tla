--------------------------- MODULE MemoryManager ---------------------------
(***************************************************************************)
(* The mark-and-sweep collector: MemoryManager::mark, MemoryManager::sweep *)
(* and the calls of Interpreter::gc and Interpreter::addObject that drive  *)
(* them, step by step, with the program that runs between collections.     *)
(*                                                                         *)
(* The collector runs on the interpreter's only thread: while pc is not    *)
(* "run" the program is stopped inside addObject or inside the builtin     *)
(* gc().  The recursion of mark() is the set `pending' of the values it    *)
(* has still to be called with; the source visits them depth first, here   *)
(* in any order.  sweep() walks the heap vector with an iterator: `done'   *)
(* is the part before the iterator, `todo' the part from it on; outside    *)
(* the sweep the whole vector is `done'.                                   *)
(*                                                                         *)
(* The program keeps the discipline under which the collector is correct:  *)
(* an object is registered before the program can reach it, or it holds no *)
(* references (a string that is never registered); it is registered once;  *)
(* and what a new object refers to is held by a root while addObject runs. *)
(* mark() does not look into bounded values: a program is taken to hold    *)
(* their parent and callee elsewhere.  Module Allocation shows which       *)
(* statements of the interpreter keep this discipline, and when.           *)
(*                                                                         *)
(* A definition whose comment begins with "Fault:" is a wrong variant of   *)
(* the next one, used to see that the properties notice the fault.         *)
(***************************************************************************)
EXTENDS HeapGraph, Integers, Sequences, Functions

CONSTANTS
  NoObject,      \* no object is being added
  Kind,          \* what each address is used for (see Kinds)
  InitNextGc,    \* nextGc at start (50)
  LimitNextGc    \* limitNextGc (200)

Kinds == {"List", "Map", "Closure", "Leaf"}

ASSUME ObjectAssumption == NoObject \notin Object
ASSUME KindAssumption == Kind \in [Object -> Kinds]
ASSUME LimitAssumption == InitNextGc \in Nat /\ LimitNextGc \in Nat

VARIABLES
  done,     \* the heap vector up to sweep's iterator
  todo,     \* the heap vector from sweep's iterator on
  loose,    \* objects in use that were never passed to addObject
  marked,   \* objects whose marked flag is set
  pending,  \* the values mark() has still to visit
  roots,    \* what the contexts' stacks, globals, constants and builtins hold
  refs,     \* the objects each object's payload refers to
  adding,   \* the argument of the addObject in progress
  nextGc,   \* Interpreter::nextGc
  pc        \* "run", "mark" or "sweep"

heapVars == <<done, todo, loose, marked>>
programVars == <<roots, refs>>
vars == <<done, todo, loose, marked, pending, roots, refs, adding, nextGc, pc>>

Registered == Range(done) \cup Range(todo)
Allocated == Registered \cup loose \cup ({adding} \ {NoObject})

\* Fault: mark() does not look into closures.
KidsButFree(o) == IF Kind[o] \in {"List", "Map"} THEN refs[o] ELSE {}

\* The references mark() follows: the elements of a list, the values of a
\* map, the free variables of a closure.
Kids(o) == IF Kind[o] \in {"List", "Map", "Closure"} THEN refs[o] ELSE {}

\* What the program can get at from the roots.
Reachable == Reach(roots, refs)

Init ==
  /\ done = <<>> /\ todo = <<>> /\ loose = {} /\ marked = {} /\ pending = {}
  /\ roots = {}
  /\ refs = [o \in Object |-> {}]
  /\ adding = NoObject
  /\ nextGc = InitNextGc
  /\ pc = "run"
-----------------------------------------------------------------------------
(* The program between collections.                                        *)

\* A value the program can reach is pushed on the stack or stored in a
\* global or a constant.
Load(o) ==
  /\ pc = "run"
  /\ o \in Reachable
  /\ roots' = roots \cup {o}
  /\ UNCHANGED <<heapVars, pending, refs, adding, nextGc, pc>>

\* The last root that holds o is popped or overwritten.
Drop(o) ==
  /\ pc = "run"
  /\ roots' = roots \ {o}
  /\ UNCHANGED <<heapVars, pending, refs, adding, nextGc, pc>>

\* SET, append(): o is stored in the list or map c, over the element gone.
Store(c, o) ==
  /\ pc = "run"
  /\ {c, o} \subseteq roots
  /\ Kind[c] \in {"List", "Map"}
  /\ \E gone \in SUBSET refs[c] :
        refs' = [refs EXCEPT ![c] = (@ \ gone) \cup {o}]
  /\ UNCHANGED <<heapVars, pending, roots, adding, nextGc, pc>>

\* A fresh address for a new object with references ks.
Fresh(o, ks) ==
  /\ o \notin Allocated
  /\ ks \subseteq Reachable
  /\ Kind[o] = "Leaf" => ks = {}

\* A string or a builtin that is pushed without addObject (INDEX of a
\* string, a type's name, a constant of the compiler).
NewLoose(o) ==
  /\ pc = "run"
  /\ Kind[o] = "Leaf"
  /\ Fresh(o, {})
  /\ loose' = loose \cup {o}
  /\ roots' = roots \cup {o}
  /\ UNCHANGED <<done, todo, marked, pending, refs, adding, nextGc, pc>>

\* The heap has grown past the threshold; past the limit never again.
GcDue == Len(done) > nextGc /\ nextGc < LimitNextGc

\* addObject when no collection is due, and the push that follows it.
AddObject(o) ==
  /\ pc = "run"
  /\ ~GcDue
  /\ \E ks \in SUBSET Reachable :
        /\ Fresh(o, ks)
        /\ refs' = [refs EXCEPT ![o] = ks]
  /\ done' = Append(done, o)
  /\ roots' = roots \cup {o}
  /\ UNCHANGED <<todo, loose, marked, pending, adding, nextGc, pc>>

\* addObject when a collection is due: gc() starts before the push_back.
AddObjectGc(o) ==
  /\ pc = "run"
  /\ GcDue
  /\ \E ks \in SUBSET Reachable :
        /\ Fresh(o, ks)
        /\ refs' = [refs EXCEPT ![o] = ks]
  /\ adding' = o
  /\ pending' = roots
  /\ pc' = "mark"
  /\ UNCHANGED <<heapVars, roots, nextGc>>

\* The builtin gc().
CallGc ==
  /\ pc = "run"
  /\ pending' = roots
  /\ pc' = "mark"
  /\ UNCHANGED <<heapVars, roots, refs, adding, nextGc>>
-----------------------------------------------------------------------------
(* The collector.                                                          *)

\* Fault: no early return for an object that is marked already.
VisitAgain(o) == Kids(o)

\* mark(val): nothing to do when the flag is set already, otherwise set it
\* and go on with what the object refers to.
Visit(o) == IF o \in marked THEN {} ELSE Kids(o)

MarkOne(o) ==
  /\ pc = "mark"
  /\ o \in pending
  /\ marked' = marked \cup {o}
  /\ pending' = (pending \ {o}) \cup Visit(o)
  /\ UNCHANGED <<done, todo, loose, programVars, adding, nextGc, pc>>

BeginSweep ==
  /\ pc = "mark"
  /\ pending = {}
  /\ todo' = done
  /\ done' = <<>>
  /\ pc' = "sweep"
  /\ UNCHANGED <<loose, marked, pending, programVars, adding, nextGc>>

\* Fault: a survivor keeps its flag.
ForgetToClear(o) == marked

\* The flag of a surviving object is reset for the next collection.
ClearMark(o) == marked \ {o}

SweepKeep ==
  /\ pc = "sweep"
  /\ todo # <<>>
  /\ Head(todo) \in marked
  /\ marked' = ClearMark(Head(todo))
  /\ done' = Append(done, Head(todo))
  /\ todo' = Tail(todo)
  /\ UNCHANGED <<loose, pending, programVars, adding, nextGc, pc>>

\* SRCLANG_VALUE_FREE and erase: the references go with the payload.
SweepFree ==
  /\ pc = "sweep"
  /\ todo # <<>>
  /\ Head(todo) \notin marked
  /\ todo' = Tail(todo)
  /\ refs' = [refs EXCEPT ![Head(todo)] = {}]
  /\ UNCHANGED <<done, loose, marked, pending, roots, adding, nextGc, pc>>

\* The sweep is over and gc() returns to the builtin gc().
EndGc ==
  /\ pc = "sweep"
  /\ todo = <<>>
  /\ adding = NoObject
  /\ pc' = "run"
  /\ UNCHANGED <<heapVars, pending, programVars, adding, nextGc>>

\* Fault: the threshold is set below the size, -1 for an empty heap.
ThresholdBelow(n) == (3 * n) \div 2 - 1

\* The size times gcHeapGrowFactor (1.5), truncated.
Threshold(n) == (3 * n) \div 2

\* The sweep is over and gc() returns to addObject, which sets the next
\* threshold and registers the object it was called for.
EndAddObject ==
  /\ pc = "sweep"
  /\ todo = <<>>
  /\ adding # NoObject
  /\ nextGc' = Threshold(Len(done))
  /\ done' = Append(done, adding)
  /\ roots' = roots \cup {adding}
  /\ adding' = NoObject
  /\ pc' = "run"
  /\ UNCHANGED <<todo, loose, marked, pending, refs>>

Program ==
  \/ \E o \in Object : Load(o) \/ Drop(o) \/ NewLoose(o)
  \/ \E c, o \in Object : Store(c, o)
  \/ \E o \in Object : AddObject(o) \/ AddObjectGc(o)
  \/ CallGc

Sweep == SweepKeep \/ SweepFree \/ EndGc \/ EndAddObject

Gc == (\E o \in Object : MarkOne(o)) \/ BeginSweep \/ Sweep

Next == Program \/ Gc

Spec == Init /\ [][Next]_vars

\* Once started a collection runs to its end: the thread does nothing else.
FairSpec == Spec /\ WF_vars(Gc)
-----------------------------------------------------------------------------
(* Properties.                                                             *)

TypeOK ==
  /\ done \in Seq(Object) /\ todo \in Seq(Object)
  /\ loose \subseteq Object /\ marked \subseteq Object
  /\ pending \subseteq Object /\ roots \subseteq Object
  /\ refs \in [Object -> SUBSET Object]
  /\ adding \in Object \cup {NoObject}
  /\ nextGc \in Nat
  /\ pc \in {"run", "mark", "sweep"}

\* No object the program can reach is ever freed, in the middle of a sweep
\* either: SRCLANG_VALUE_FREE never hits a value that is still in use, and
\* what the object that is being added refers to survives the collection.
NoDangling ==
  /\ Reachable \subseteq Registered \cup loose
  /\ adding # NoObject => refs[adding] \subseteq Reachable

\* Between two collections no registered object carries the marked flag: a
\* flag left over would make the next mark() return early, and everything
\* only that object refers to would be freed.
CleanMarks == pc = "run" => Registered \cap marked = {}

\* When the sweep ends every object still in the heap vector is reachable:
\* one collection reclaims all garbage, cycles included.
NoFloatingGarbage ==
  pc = "sweep" /\ todo = <<>> => Range(done) \subseteq Reachable

\* What is true in each phase, and why the properties hold.  Marking is the
\* tri-colour argument: a marked object only refers to marked or pending
\* ones, and what is marked or pending is reachable, so that with nothing
\* pending the marked objects of the heap are the reachable ones.
RunInv ==
  pc = "run" => /\ todo = <<>> /\ pending = {} /\ adding = NoObject
                /\ marked \subseteq loose

MarkInv ==
  pc = "mark" => /\ todo = <<>>
                 /\ marked \subseteq Reachable \cup loose
                 /\ pending \subseteq Reachable
                 /\ roots \subseteq marked \cup pending
                 /\ \A o \in marked : refs[o] \subseteq marked \cup pending

SweepInv ==
  pc = "sweep" => /\ pending = {}
                  /\ Range(done) \subseteq Reachable
                  /\ Range(done) \cap marked = {}
                  /\ Range(todo) \cap marked = Range(todo) \cap Reachable
                  /\ marked \subseteq Range(todo) \cup loose

\* An object that was never registered holds no references; the object that
\* is being added is in neither place yet.
LooseInv ==
  /\ \A o \in Object : Kind[o] = "Leaf" => refs[o] = {}
  /\ \A o \in loose : Kind[o] = "Leaf"
  /\ loose \cap Registered = {}
  /\ adding \notin Registered \cup loose

\* No object is in the heap vector twice: a second entry would be freed by the
\* sweep that clears the flag on the first.
NoDuplicates ==
  /\ IsInjective(done) /\ IsInjective(todo)
  /\ Range(done) \cap Range(todo) = {}

IndInv ==
  /\ TypeOK
  /\ LooseInv
  /\ NoDuplicates
  /\ NoDangling
  /\ RunInv
  /\ MarkInv
  /\ SweepInv

\* A collection that has started ends, whatever cycles the heap holds.
GcTerminates == pc # "run" ~> pc = "run"

\* The heap, as its client sees it: an object that the sweep in progress is
\* going to free is gone already.
live == IF pc = "sweep" THEN Range(done) \cup (Range(todo) \cap marked)
                        ELSE Range(done)

\* The collector implements the abstract one: the step that begins the
\* sweep is the collection, all others are the program's or do not show.
Abstract == INSTANCE Collector WITH kids <- refs
Refinement == Abstract!Spec
=============================================================================
