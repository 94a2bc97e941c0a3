------------------------- MODULE MemoryManagerProofs -------------------------
(***************************************************************************)
(* The collector of module MemoryManager is correct for every set of       *)
(* objects, every heap and every threshold: type correctness, the safety   *)
(* of the sweep, and the refinement of the abstract collector.             *)
(***************************************************************************)
EXTENDS MemoryManager, TLAPS

-----------------------------------------------------------------------------
(* Reachability in the object graph.                                       *)

\* The roots are reachable, and what is reachable refers to nothing else:
\* a value the interpreter loads from a reachable object is reachable too.
LEMMA ReachClosed ==
  ASSUME NEW from \in SUBSET Object, NEW kids \in [Object -> SUBSET Object]
  PROVE  /\ Reach(from, kids) \in SUBSET Object
         /\ from \subseteq Reach(from, kids)
         /\ Closed(Reach(from, kids), kids)
<1>1. Reach(from, kids) \in SUBSET Object /\ from \subseteq Reach(from, kids)
  BY DEF Reach
<1>2. ASSUME NEW x \in Reach(from, kids), NEW y \in kids[x]
      PROVE  y \in Reach(from, kids)
  BY <1>2 DEF Reach, Closed
<1>3. Closed(Reach(from, kids), kids)
  BY <1>2 DEF Closed
<1> QED
  BY <1>1, <1>3

\* Nothing outside a closed set that holds the roots is reachable: what the
\* collector leaves unmarked the program cannot get at.
LEMMA ReachLeast ==
  ASSUME NEW from \in SUBSET Object, NEW kids \in [Object -> SUBSET Object],
         NEW S \in SUBSET Object, from \subseteq S, Closed(S, kids)
  PROVE  Reach(from, kids) \subseteq S
BY DEF Reach

\* Objects that are not reachable may change what they refer to (a new
\* object gets its payload, a freed one loses it) without any effect on what
\* is reachable.
LEMMA ReachAgree ==
  ASSUME NEW from \in SUBSET Object, NEW kids \in [Object -> SUBSET Object],
         NEW kidz \in [Object -> SUBSET Object],
         \A x \in Reach(from, kids) : kidz[x] = kids[x]
  PROVE  Reach(from, kidz) = Reach(from, kids)
<1>1. Reach(from, kidz) \subseteq Reach(from, kids)
  BY ReachClosed, ReachLeast DEF Closed
<1>2. Closed(Reach(from, kidz), kids)
  BY <1>1, ReachClosed DEF Closed
<1>3. Reach(from, kids) \subseteq Reach(from, kidz)
  BY <1>2, ReachClosed, ReachLeast
<1> QED
  BY <1>1, <1>3

\* A value that moves from the heap to the stack changes nothing.
LEMMA ReachLoad ==
  ASSUME NEW from \in SUBSET Object, NEW kids \in [Object -> SUBSET Object],
         NEW o \in Reach(from, kids)
  PROVE  Reach(from \cup {o}, kids) = Reach(from, kids)
<1>1. o \in Object
  BY ReachClosed
<1>2. Reach(from \cup {o}, kids) \subseteq Reach(from, kids)
  BY <1>1, ReachClosed, ReachLeast
<1>3. Reach(from, kids) \subseteq Reach(from \cup {o}, kids)
  BY <1>1, ReachClosed, ReachLeast
<1> QED
  BY <1>2, <1>3

\* Fewer roots reach fewer objects.
LEMMA ReachMonotone ==
  ASSUME NEW from \in SUBSET Object, NEW fewer \in SUBSET from,
         NEW kids \in [Object -> SUBSET Object]
  PROVE  Reach(fewer, kids) \subseteq Reach(from, kids)
BY ReachClosed, ReachLeast

\* A new root with references into what is reachable adds itself alone.
LEMMA ReachNew ==
  ASSUME NEW from \in SUBSET Object, NEW kids \in [Object -> SUBSET Object],
         NEW o \in Object, kids[o] \subseteq Reach(from, kids),
         NEW more, more = from \cup {o}
  PROVE  Reach(more, kids) = Reach(from, kids) \cup {o}
<1>0. more \in SUBSET Object /\ from \in SUBSET more
  OBVIOUS
<1>1. Closed(Reach(from, kids) \cup {o}, kids)
  BY ReachClosed DEF Closed
<1>2. Reach(more, kids) \subseteq Reach(from, kids) \cup {o}
  BY <1>0, <1>1, ReachClosed, ReachLeast
<1>3. Reach(from, kids) \cup {o} \subseteq Reach(more, kids)
  BY <1>0, ReachClosed, ReachMonotone
<1> QED
  BY <1>2, <1>3

\* A fresh object may get any references into what is reachable.  It is not
\* reachable itself until it becomes a root.
LEMMA ReachFresh ==
  ASSUME NEW from \in SUBSET Object, NEW kids \in [Object -> SUBSET Object],
         NEW o \in Object, o \notin Reach(from, kids),
         NEW kidz \in [Object -> SUBSET Object],
         kidz[o] \subseteq Reach(from, kids),
         \A x \in Reach(from, kids) : kidz[x] = kids[x],
         NEW more, more = from \cup {o}
  PROVE  /\ Reach(from, kidz) = Reach(from, kids)
         /\ Reach(more, kidz) = Reach(from, kids) \cup {o}
<1>1. Reach(from, kidz) = Reach(from, kids)
  BY ReachAgree
<1>2. kidz[o] \subseteq Reach(from, kidz)
  BY <1>1
<1>3. Reach(more, kidz) = Reach(from, kidz) \cup {o}
  BY <1>2, ReachNew
<1> QED
  BY <1>1, <1>3

-----------------------------------------------------------------------------
(* Sequences as the heap vector uses them.                                 *)

\* push_back adds one entry, and keeps the entries distinct if it is new.
LEMMA PushBack ==
  ASSUME NEW s \in Seq(Object), NEW o \in Object
  PROVE  /\ Append(s, o) \in Seq(Object)
         /\ Range(Append(s, o)) = Range(s) \cup {o}
         /\ IsInjective(s) /\ o \notin Range(s) => IsInjective(Append(s, o))
<1>1. Append(s, o) \in Seq(Object)
  OBVIOUS
<1>2. Range(Append(s, o)) = Range(s) \cup {o}
  <2>1. Range(Append(s, o)) \subseteq Range(s) \cup {o}
    BY DEF Range
  <2>2. ASSUME NEW x \in Range(s) PROVE x \in Range(Append(s, o))
    <3>1. PICK i \in 1 .. Len(s) : x = s[i]
      BY <2>2 DEF Range
    <3>2. i \in DOMAIN Append(s, o) /\ Append(s, o)[i] = x
      BY <3>1
    <3> QED
      BY <3>2 DEF Range
  <2>3. o \in Range(Append(s, o))
    <3>1. Len(s) + 1 \in DOMAIN Append(s, o) /\ Append(s, o)[Len(s) + 1] = o
      OBVIOUS
    <3> QED
      BY <3>1 DEF Range
  <2> QED
    BY <2>1, <2>2, <2>3
<1>3. IsInjective(s) /\ o \notin Range(s) => IsInjective(Append(s, o))
  BY DEF IsInjective, Range
<1> QED
  BY <1>1, <1>2, <1>3

\* The iterator moves on by one entry.
LEMMA Advance ==
  ASSUME NEW s \in Seq(Object), s # <<>>
  PROVE  /\ Head(s) \in Object
         /\ Tail(s) \in Seq(Object)
         /\ Range(s) = Range(Tail(s)) \cup {Head(s)}
         /\ IsInjective(s) => IsInjective(Tail(s)) /\ Head(s) \notin Range(Tail(s))
<1>1. Head(s) \in Object /\ Tail(s) \in Seq(Object)
  OBVIOUS
<1>2. /\ DOMAIN Tail(s) = 1 .. (Len(s) - 1)
      /\ \A i \in 1 .. (Len(s) - 1) : Tail(s)[i] = s[i + 1]
      /\ Head(s) = s[1] /\ 1 \in DOMAIN s
  OBVIOUS
<1>3. Range(s) = Range(Tail(s)) \cup {Head(s)}
  <2>1. ASSUME NEW x \in Range(s), x # Head(s) PROVE x \in Range(Tail(s))
    <3>1. PICK i \in 1 .. Len(s) : x = s[i]
      BY <2>1 DEF Range
    <3>2. i - 1 \in DOMAIN Tail(s) /\ Tail(s)[i - 1] = x
      BY <1>2, <2>1, <3>1
    <3> QED
      BY <3>2 DEF Range
  <2>2. Range(Tail(s)) \cup {Head(s)} \subseteq Range(s)
    BY <1>2 DEF Range
  <2> QED
    BY <2>1, <2>2
<1>4. IsInjective(s) => IsInjective(Tail(s)) /\ Head(s) \notin Range(Tail(s))
  BY <1>2 DEF IsInjective, Range
<1> QED
  BY <1>1, <1>3, <1>4

LEMMA EmptyVector ==
  /\ <<>> \in Seq(Object)
  /\ Range(<<>>) = {}
  /\ IsInjective(<<>>)
BY DEF Range, IsInjective

\* The entries of a heap vector are objects.
LEMMA VectorRange ==
  ASSUME NEW s \in Seq(Object)
  PROVE  Range(s) \in SUBSET Object
BY DEF Range
-----------------------------------------------------------------------------
(* The inductive invariant.                                                *)

\* The interpreter starts with an empty heap.
LEMMA InitIndInv == Init => IndInv
<1> SUFFICES ASSUME Init PROVE IndInv
  OBVIOUS
<1> USE EmptyVector DEF Init
<1>1. TypeOK
  BY LimitAssumption DEF TypeOK
<1>2. LooseInv
  BY ObjectAssumption DEF LooseInv, Registered
<1>3. NoDuplicates
  BY DEF NoDuplicates
<1>4. NoDangling
  <2>1. Closed({}, refs)
    BY DEF Closed
  <2>2. Reachable = {}
    BY <2>1, ReachLeast DEF Reachable
  <2> QED
    BY <2>2 DEF NoDangling
<1>5. RunInv /\ MarkInv /\ SweepInv
  BY DEF RunInv, MarkInv, SweepInv
<1> QED
  BY <1>1, <1>2, <1>3, <1>4, <1>5 DEF IndInv

\* Shorthand for the facts about reachability that every step uses.
LEMMA ReachableFacts ==
  ASSUME TypeOK
  PROVE  /\ Reachable \in SUBSET Object
         /\ roots \subseteq Reachable
         /\ \A x \in Reachable : refs[x] \subseteq Reachable
BY ReachClosed DEF TypeOK, Reachable, Closed

\* The program between collections keeps the invariant: each step either
\* moves references among reachable objects or adds a fresh object.
LEMMA ProgramIndInv ==
  ASSUME IndInv, Program
  PROVE  IndInv'
<1> USE DEF IndInv
<1>0. /\ Reachable \in SUBSET Object
      /\ roots \subseteq Reachable
      /\ \A x \in Reachable : refs[x] \subseteq Reachable
      /\ Range(done) \in SUBSET Object
  BY ReachableFacts, VectorRange DEF TypeOK
<1>1. ASSUME NEW o \in Object, Load(o)
      PROVE  IndInv'
  <2> USE <1>1 DEF Load, heapVars
  <2>1. Reachable' = Reachable
    BY ReachLoad DEF Reachable, TypeOK
  <2>2. TypeOK' /\ LooseInv' /\ NoDuplicates'
    BY DEF TypeOK, LooseInv, NoDuplicates, Registered
  <2>3. NoDangling'
    BY <2>1 DEF NoDangling, Registered
  <2>4. RunInv' /\ MarkInv' /\ SweepInv'
    BY DEF RunInv, MarkInv, SweepInv
  <2> QED
    BY <2>2, <2>3, <2>4
<1>2. ASSUME NEW o \in Object, Drop(o)
      PROVE  IndInv'
  <2> USE <1>2 DEF Drop, heapVars
  <2>1. Reachable' \subseteq Reachable
    BY ReachMonotone DEF Reachable, TypeOK
  <2>2. TypeOK' /\ LooseInv' /\ NoDuplicates'
    BY DEF TypeOK, LooseInv, NoDuplicates, Registered
  <2>3. NoDangling'
    BY <2>1 DEF NoDangling, Registered, RunInv
  <2>4. RunInv' /\ MarkInv' /\ SweepInv'
    BY DEF RunInv, MarkInv, SweepInv
  <2> QED
    BY <2>2, <2>3, <2>4
<1>3. ASSUME NEW c \in Object, NEW o \in Object, Store(c, o)
      PROVE  IndInv'
  <2> USE <1>3 DEF Store, heapVars
  <2>1. PICK gone \in SUBSET refs[c] : refs' = [refs EXCEPT ![c] = (@ \ gone) \cup {o}]
    OBVIOUS
  <2>2. TypeOK'
    BY <2>1 DEF TypeOK
  <2>3. Reachable' \subseteq Reachable
    <3>1. Closed(Reachable, refs')
      BY <1>0, <2>1 DEF Closed, TypeOK
    <3> QED
      BY <1>0, <2>2, <3>1, ReachLeast DEF Reachable, TypeOK
  <2>4. LooseInv' /\ NoDuplicates'
    BY <2>1 DEF TypeOK, LooseInv, NoDuplicates, Registered
  <2>5. NoDangling'
    BY <2>3 DEF NoDangling, Registered, RunInv
  <2>6. RunInv' /\ MarkInv' /\ SweepInv'
    BY DEF RunInv, MarkInv, SweepInv
  <2> QED
    BY <2>2, <2>4, <2>5, <2>6
<1>4. ASSUME NEW o \in Object, NewLoose(o)
      PROVE  IndInv'
  <2> USE <1>4 DEF NewLoose, Fresh
  <2>1. Reachable' = Reachable \cup {o}
    BY ReachNew DEF Reachable, TypeOK, LooseInv
  <2>2. TypeOK' /\ LooseInv' /\ NoDuplicates'
    BY ObjectAssumption
    DEF TypeOK, LooseInv, NoDuplicates, Registered, Allocated, RunInv
  <2>3. NoDangling'
    BY <2>1 DEF NoDangling, Registered, RunInv
  <2>4. RunInv' /\ MarkInv' /\ SweepInv'
    BY DEF RunInv, MarkInv, SweepInv
  <2> QED
    BY <2>2, <2>3, <2>4
<1>5. ASSUME NEW o \in Object, AddObject(o)
      PROVE  IndInv'
  <2> USE <1>5 DEF AddObject, Fresh
  <2>1. PICK ks \in SUBSET Reachable : Fresh(o, ks) /\ refs' = [refs EXCEPT ![o] = ks]
    OBVIOUS
  <2>2. TypeOK' /\ o \notin Reachable /\ Range(done') = Range(done) \cup {o}
    BY <1>0, <2>1, PushBack DEF TypeOK, NoDangling, Allocated
  <2>4. Reachable' = Reachable \cup {o}
    <3>1. /\ o \in Object /\ roots \in SUBSET Object /\ refs \in [Object -> SUBSET Object]
          /\ o \notin Reach(roots, refs)
          /\ refs' \in [Object -> SUBSET Object] /\ refs'[o] \subseteq Reach(roots, refs)
          /\ \A x \in Reach(roots, refs) : refs'[x] = refs[x]
          /\ roots' = roots \cup {o}
      BY <1>0, <2>1, <2>2 DEF TypeOK, Reachable
    <3>2. Reach(roots', refs') = Reach(roots, refs) \cup {o}
      BY ONLY <3>1, ReachFresh
    <3> QED
      BY <3>1, <3>2 DEF Reachable
  <2>5. LooseInv'
    BY <2>1, <2>2, ObjectAssumption
    DEF TypeOK, LooseInv, Registered, Allocated, RunInv
  <2>6. NoDuplicates'
    BY <2>1, <2>2, PushBack DEF TypeOK, NoDuplicates, Registered, Allocated, RunInv
  <2>7. NoDangling'
    BY <2>2, <2>4 DEF NoDangling, Registered, RunInv
  <2>8. RunInv' /\ MarkInv' /\ SweepInv'
    BY DEF RunInv, MarkInv, SweepInv
  <2> QED
    BY <2>2, <2>5, <2>6, <2>7, <2>8
<1>6. ASSUME NEW o \in Object, AddObjectGc(o)
      PROVE  IndInv'
  <2> USE <1>6 DEF AddObjectGc, Fresh, heapVars
  <2>1. PICK ks \in SUBSET Reachable : Fresh(o, ks) /\ refs' = [refs EXCEPT ![o] = ks]
    OBVIOUS
  <2>2. TypeOK' /\ o \notin Reachable
    BY <1>0, <2>1 DEF TypeOK, NoDangling, Allocated
  <2>3. Reachable' = Reachable
    <3>1. /\ o \in Object /\ roots \in SUBSET Object /\ refs \in [Object -> SUBSET Object]
          /\ o \notin Reach(roots, refs)
          /\ refs' \in [Object -> SUBSET Object] /\ refs'[o] \subseteq Reach(roots, refs)
          /\ \A x \in Reach(roots, refs) : refs'[x] = refs[x]
          /\ roots' = roots
      BY <1>0, <2>1, <2>2 DEF TypeOK, Reachable
    <3>2. Reach(roots, refs') = Reach(roots, refs)
      BY ONLY <3>1, ReachAgree
    <3> QED
      BY <3>1, <3>2 DEF Reachable
  <2>4. LooseInv'
    BY <2>1 DEF TypeOK, LooseInv, Registered, Allocated
  <2>5. NoDuplicates'
    BY DEF NoDuplicates
  <2>6. NoDangling'
    BY <2>1, <2>3 DEF TypeOK, NoDangling, Registered
  <2>7. MarkInv'
    BY <1>0, <2>1, <2>3, ObjectAssumption DEF MarkInv, RunInv, LooseInv, TypeOK, Allocated
  <2>8. RunInv' /\ SweepInv'
    BY DEF RunInv, SweepInv
  <2> QED
    BY <2>2, <2>4, <2>5, <2>6, <2>7, <2>8
<1>7. ASSUME CallGc
      PROVE  IndInv'
  <2> USE <1>7 DEF CallGc, heapVars
  <2>1. TypeOK' /\ LooseInv' /\ NoDuplicates' /\ NoDangling'
    BY DEF TypeOK, LooseInv, NoDuplicates, NoDangling, Registered, Reachable
  <2>2. MarkInv'
    BY <1>0 DEF MarkInv, RunInv, LooseInv, TypeOK, Reachable
  <2>3. RunInv' /\ SweepInv'
    BY DEF RunInv, SweepInv
  <2> QED
    BY <2>1, <2>2, <2>3
<1> QED
  BY <1>1, <1>2, <1>3, <1>4, <1>5, <1>6, <1>7 DEF Program

\* Every step of a collection keeps the invariant.
LEMMA GcIndInv ==
  ASSUME IndInv, Gc
  PROVE  IndInv'
<1> USE DEF IndInv
<1>0. /\ Reachable \in SUBSET Object
      /\ roots \subseteq Reachable
      /\ \A x \in Reachable : refs[x] \subseteq Reachable
      /\ Range(done) \in SUBSET Object
      /\ Range(todo) \in SUBSET Object
  BY ReachableFacts, VectorRange DEF TypeOK
<1>1. ASSUME NEW o \in Object, MarkOne(o)
      PROVE  IndInv'
  <2> USE <1>1 DEF MarkOne, programVars
  <2>1. Visit(o) = IF o \in marked THEN {} ELSE refs[o]
    BY KindAssumption DEF Visit, Kids, Kinds, LooseInv
  <2>2. TypeOK' /\ LooseInv' /\ NoDuplicates' /\ NoDangling'
    BY <2>1 DEF TypeOK, LooseInv, NoDuplicates, NoDangling, Registered, Reachable
  <2>3. MarkInv'
    BY <1>0, <2>1 DEF MarkInv, TypeOK, Reachable
  <2>4. RunInv' /\ SweepInv'
    BY DEF RunInv, SweepInv
  <2> QED
    BY <2>2, <2>3, <2>4
<1>2. ASSUME BeginSweep
      PROVE  IndInv'
  <2> USE <1>2 DEF BeginSweep, programVars
  <2>1. TypeOK' /\ LooseInv' /\ NoDuplicates' /\ NoDangling'
    BY EmptyVector
    DEF TypeOK, LooseInv, NoDuplicates, NoDangling, Registered, Reachable, MarkInv
  <2>2. Reachable \subseteq marked
    <3>1. Closed(marked, refs)
      BY DEF MarkInv, Closed
    <3> QED
      BY <3>1, ReachLeast DEF Reachable, MarkInv, TypeOK
  <2>3. SweepInv'
    BY <1>0, <2>2, EmptyVector
    DEF SweepInv, MarkInv, Reachable, NoDangling, Registered, LooseInv
  <2>4. RunInv' /\ MarkInv'
    BY DEF RunInv, MarkInv
  <2> QED
    BY <2>1, <2>2, <2>3, <2>4
<1>3. ASSUME SweepKeep
      PROVE  IndInv'
  <2> USE <1>3 DEF SweepKeep, ClearMark, programVars
  <2>0. /\ Head(todo) \in Object
        /\ Range(todo) = Range(todo') \cup {Head(todo)}
        /\ Head(todo) \notin Range(todo')
        /\ IsInjective(todo') /\ todo' \in Seq(Object)
    BY Advance DEF NoDuplicates, TypeOK
  <2>1. /\ Range(done') = Range(done) \cup {Head(todo)}
        /\ IsInjective(done') /\ done' \in Seq(Object)
    BY <2>0, PushBack DEF NoDuplicates, TypeOK
  <2>2. TypeOK' /\ LooseInv' /\ NoDuplicates' /\ NoDangling'
    BY <2>0, <2>1
    DEF TypeOK, LooseInv, NoDuplicates, NoDangling, Registered, Reachable
  <2>3. SweepInv'
    BY <2>0, <2>1 DEF SweepInv, Reachable
  <2>4. RunInv' /\ MarkInv'
    BY DEF RunInv, MarkInv
  <2> QED
    BY <2>2, <2>3, <2>4
<1>4. ASSUME SweepFree
      PROVE  IndInv'
  <2> USE <1>4 DEF SweepFree
  <2>0. /\ Head(todo) \in Object
        /\ Range(todo) = Range(todo') \cup {Head(todo)}
        /\ Head(todo) \notin Range(todo')
        /\ IsInjective(todo') /\ todo' \in Seq(Object)
    BY Advance DEF NoDuplicates, TypeOK
  <2>1. Head(todo) \notin Reachable
    BY <2>0 DEF SweepInv
  <2>2. TypeOK'
    BY <2>0 DEF TypeOK
  <2>3. Reachable' = Reachable
    <3>1. /\ roots \in SUBSET Object
          /\ refs \in [Object -> SUBSET Object] /\ refs' \in [Object -> SUBSET Object]
          /\ \A x \in Reach(roots, refs) : refs'[x] = refs[x]
          /\ roots' = roots
      BY <1>0, <2>1, <2>2 DEF Reachable, TypeOK
    <3>2. Reach(roots, refs') = Reach(roots, refs)
      BY ONLY <3>1, ReachAgree
    <3> QED
      BY <3>1, <3>2 DEF Reachable
  <2>4. LooseInv' /\ NoDuplicates'
    BY <2>0 DEF TypeOK, LooseInv, NoDuplicates, Registered
  <2>5. NoDangling'
    BY <2>0, <2>1, <2>3 DEF NoDangling, Registered, LooseInv, TypeOK
  <2>6. SweepInv'
    BY <2>0, <2>3 DEF SweepInv
  <2>7. RunInv' /\ MarkInv'
    BY DEF RunInv, MarkInv
  <2> QED
    BY <2>2, <2>4, <2>5, <2>6, <2>7
<1>5. ASSUME EndGc
      PROVE  IndInv'
  <2> USE <1>5 DEF EndGc, heapVars, programVars
  <2>1. TypeOK' /\ LooseInv' /\ NoDuplicates' /\ NoDangling'
    BY DEF TypeOK, LooseInv, NoDuplicates, NoDangling, Registered, Reachable
  <2>2. RunInv'
    BY EmptyVector DEF RunInv, SweepInv
  <2>3. MarkInv' /\ SweepInv'
    BY DEF MarkInv, SweepInv
  <2> QED
    BY <2>1, <2>2, <2>3
<1>6. ASSUME EndAddObject
      PROVE  IndInv'
  <2> USE <1>6 DEF EndAddObject, Threshold
  <2>0. adding \in Object
    BY DEF TypeOK
  <2>1. /\ done' \in Seq(Object)
        /\ Range(done') = Range(done) \cup {adding}
        /\ IsInjective(done')
    BY <2>0, PushBack DEF NoDuplicates, TypeOK, LooseInv, Registered
  <2>2. TypeOK'
    <3>1. nextGc' \in Nat
      BY DEF TypeOK
    <3> QED
      BY <2>0, <2>1, <3>1 DEF TypeOK
  <2>3. Reachable' = Reachable \cup {adding}
    <3>1. /\ roots \in SUBSET Object /\ refs \in [Object -> SUBSET Object]
          /\ refs' = refs /\ roots' = roots \cup {adding}
          /\ refs[adding] \subseteq Reach(roots, refs)
      BY DEF TypeOK, NoDangling, Reachable
    <3>2. Reach(roots', refs) = Reach(roots, refs) \cup {adding}
      BY ONLY <3>1, <2>0, ReachNew
    <3> QED
      BY <3>1, <3>2 DEF Reachable
  <2>4. LooseInv'
    BY <2>0, <2>1, EmptyVector, ObjectAssumption, <1>0
    DEF LooseInv, Registered, TypeOK
  <2>5. NoDuplicates'
    BY <2>1, EmptyVector DEF NoDuplicates
  <2>6. NoDangling'
    BY <2>1, <2>3 DEF NoDangling, Registered
  <2>7. RunInv'
    BY EmptyVector DEF RunInv, SweepInv
  <2>8. MarkInv' /\ SweepInv'
    BY DEF MarkInv, SweepInv
  <2> QED
    BY <2>2, <2>4, <2>5, <2>6, <2>7, <2>8
<1> QED
  BY <1>1, <1>2, <1>3, <1>4, <1>5, <1>6 DEF Gc, Sweep

\* A step that changes nothing keeps the invariant.
LEMMA StutterIndInv ==
  ASSUME IndInv, UNCHANGED vars
  PROVE  IndInv'
BY DEF IndInv, vars, TypeOK, LooseInv, NoDuplicates, NoDangling, RunInv, MarkInv,
       SweepInv, Registered, Reachable

\* The invariant holds throughout every execution of program and collector.
THEOREM Invariance == Spec => []IndInv
<1>1. IndInv /\ [Next]_vars => IndInv'
  BY ProgramIndInv, GcIndInv, StutterIndInv DEF Next
<1> QED
  BY InitIndInv, <1>1, PTL DEF Spec

\* Every variable of the collector keeps its type.
THEOREM TypeCorrect == Spec => []TypeOK
<1>1. IndInv => TypeOK
  BY DEF IndInv
<1> QED
  BY Invariance, <1>1, PTL

\* The sweep frees nothing the program can still reach, at whatever point of
\* a collection, for every heap: SRCLANG_VALUE_FREE is safe as long as the
\* interpreter keeps the discipline of module MemoryManager.
THEOREM SweepIsSafe == Spec => []NoDangling
<1>1. IndInv => NoDangling
  BY DEF IndInv
<1> QED
  BY Invariance, <1>1, PTL

\* No registered object is left with its marked flag set between collections.
THEOREM MarksAreCleared == Spec => []CleanMarks
<1>1. IndInv => CleanMarks
  BY EmptyVector DEF IndInv, RunInv, CleanMarks, LooseInv, Registered
<1> QED
  BY Invariance, <1>1, PTL

\* A collection leaves only reachable objects in the heap vector.
THEOREM CollectionIsComplete == Spec => []NoFloatingGarbage
<1>1. IndInv => NoFloatingGarbage
  BY DEF IndInv, SweepInv, NoFloatingGarbage
<1> QED
  BY Invariance, <1>1, PTL
-----------------------------------------------------------------------------
(* The collector implements the abstract one.                              *)

\* The empty heap is the abstract collector's initial heap.
LEMMA RefinesInit == Init => Abstract!Init
BY EmptyVector DEF Init, Abstract!Init, live

\* A step that frees nothing is a step of the abstract collector's program.
LEMMA FreesNothing ==
  ASSUME TypeOK', live \subseteq live'
  PROVE  Abstract!Mutate
<1>1. /\ live' \in SUBSET Object
      /\ roots' \in SUBSET Object
      /\ refs' \in [Object -> SUBSET Object]
  BY VectorRange DEF TypeOK, live
<1> QED
  BY <1>1 DEF Abstract!Mutate

\* A step of the program registers objects and moves references.
LEMMA ProgramRefines ==
  ASSUME IndInv, IndInv', Program
  PROVE  Abstract!Mutate
<1>1. live = Range(done) /\ live' = Range(done')
  BY DEF Program, Load, Drop, Store, NewLoose, AddObject, AddObjectGc, CallGc, live
<1>2. Range(done) \subseteq Range(done')
  BY PushBack
  DEF Program, Load, Drop, Store, NewLoose, AddObject, AddObjectGc, CallGc, heapVars,
      IndInv, TypeOK
<1> QED
  BY <1>1, <1>2, FreesNothing DEF IndInv

\* The step that begins the sweep is the abstract collection; the others
\* move the boundary between swept and unswept objects, which does not show,
\* or register the object the collection was started for.
LEMMA GcRefines ==
  ASSUME IndInv, IndInv', Gc
  PROVE  Abstract!Next \/ UNCHANGED <<live, roots, refs>>
<1> USE DEF IndInv
<1>1. ASSUME NEW o \in Object, MarkOne(o)
      PROVE  UNCHANGED <<live, roots, refs>>
  BY <1>1 DEF MarkOne, live, programVars
<1>2. ASSUME BeginSweep
      PROVE  Abstract!Collect
  <2>1. live = Range(done) /\ live' = Range(done) \cap marked
    BY <1>2, EmptyVector DEF BeginSweep, live
  <2>2. Range(done) \cap marked = Range(done) \cap Reachable
    BY <1>2, EmptyVector DEF BeginSweep, SweepInv, Reachable, programVars
  <2> QED
    BY <1>2, <2>1, <2>2 DEF BeginSweep, Abstract!Collect, Abstract!Reach, Reachable,
       Reach, Abstract!Closed, Closed, programVars
<1>3. ASSUME SweepKeep
      PROVE  UNCHANGED <<live, roots, refs>>
  <2>1. /\ Range(todo) = Range(todo') \cup {Head(todo)}
        /\ Head(todo) \notin Range(todo')
        /\ Range(done') = Range(done) \cup {Head(todo)}
    BY <1>3, Advance, PushBack DEF SweepKeep, NoDuplicates, TypeOK
  <2> QED
    BY <1>3, <2>1 DEF SweepKeep, ClearMark, live, programVars
<1>4. ASSUME SweepFree
      PROVE  Abstract!Mutate
  <2>1. Range(todo) = Range(todo') \cup {Head(todo)}
    BY <1>4, Advance DEF SweepFree, TypeOK
  <2>2. live' = live
    BY <1>4, <2>1 DEF SweepFree, live
  <2> QED
    BY <2>2, FreesNothing
<1>5. ASSUME EndGc
      PROVE  UNCHANGED <<live, roots, refs>>
  BY <1>5, EmptyVector DEF EndGc, live, heapVars, programVars
<1>6. ASSUME EndAddObject
      PROVE  Abstract!Mutate
  <2>1. live = Range(done) /\ live' = Range(done')
    BY <1>6, EmptyVector DEF EndAddObject, live
  <2>2. Range(done) \subseteq Range(done')
    BY <1>6, PushBack DEF EndAddObject, TypeOK
  <2> QED
    BY <2>1, <2>2, FreesNothing
<1> QED
  BY <1>1, <1>2, <1>3, <1>4, <1>5, <1>6 DEF Gc, Sweep, Abstract!Next

\* Mark and sweep, one object at a time, implements the collection that
\* frees exactly the unreachable objects in one step.
THEOREM Implements == Spec => Refinement
<1>1. IndInv /\ IndInv' /\ [Next]_vars => [Abstract!Next]_(Abstract!abstractVars)
  <2> SUFFICES ASSUME IndInv, IndInv', [Next]_vars
               PROVE  Abstract!Next \/ UNCHANGED <<live, roots, refs>>
    BY DEF Abstract!abstractVars
  <2>1. CASE Program
    BY <2>1, ProgramRefines DEF Abstract!Next
  <2>2. CASE Gc
    BY <2>2, GcRefines
  <2>3. CASE UNCHANGED vars
    BY <2>3 DEF vars, live
  <2> QED
    BY <2>1, <2>2, <2>3 DEF Next
<1> QED
  BY RefinesInit, Invariance, <1>1, PTL DEF Spec, Refinement, Abstract!Spec
=============================================================================
