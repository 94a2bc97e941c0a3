--------------------------- MODULE AllocationProofs ---------------------------
(***************************************************************************)
(* Programs made of the statements that keep the collector's rule          *)
(* (SafeSpec) never lose a value they can get at, for any heap, any stack  *)
(* and any constants, wherever addObject collects.                         *)
(***************************************************************************)
EXTENDS Allocation, SequenceTheorems, TLAPS

Containers == {"List", "Map", "Closure"}

-----------------------------------------------------------------------------
(* Reachability in the object graph.                                       *)

\* The roots are reachable, and what is reachable refers to nothing else:
\* a value the interpreter loads from a reachable object is reachable too.
LEMMA ReachClosed ==
  ASSUME NEW from \in SUBSET Object, NEW kids \in [Object -> SUBSET Object]
  PROVE  /\ Reach(from, kids) \in SUBSET Object
         /\ from \subseteq Reach(from, kids)
         /\ Closed(Reach(from, kids), kids)
<1>1. Reach(from, kids) \in SUBSET Object /\ from \subseteq Reach(from, kids)
  BY DEF Reach
<1>2. ASSUME NEW x \in Reach(from, kids), NEW y \in kids[x]
      PROVE  y \in Reach(from, kids)
  BY <1>2 DEF Reach, Closed
<1>3. Closed(Reach(from, kids), kids)
  BY <1>2 DEF Closed
<1> QED
  BY <1>1, <1>3

\* Nothing outside a closed set that holds the roots is reachable: what the
\* collector leaves unmarked the program cannot get at.
LEMMA ReachLeast ==
  ASSUME NEW from \in SUBSET Object, NEW kids \in [Object -> SUBSET Object],
         NEW S \in SUBSET Object, from \subseteq S, Closed(S, kids)
  PROVE  Reach(from, kids) \subseteq S
BY DEF Reach

\* Objects that are not reachable may change what they refer to (a new
\* object gets its payload, a freed one loses it) without any effect on what
\* is reachable.
LEMMA ReachAgree ==
  ASSUME NEW from \in SUBSET Object, NEW kids \in [Object -> SUBSET Object],
         NEW kidz \in [Object -> SUBSET Object],
         \A x \in Reach(from, kids) : kidz[x] = kids[x]
  PROVE  Reach(from, kidz) = Reach(from, kids)
<1>1. Reach(from, kidz) \subseteq Reach(from, kids)
  BY ReachClosed, ReachLeast DEF Closed
<1>2. Closed(Reach(from, kidz), kids)
  BY <1>1, ReachClosed DEF Closed
<1>3. Reach(from, kids) \subseteq Reach(from, kidz)
  BY <1>2, ReachClosed, ReachLeast
<1> QED
  BY <1>1, <1>3

\* Fewer roots reach fewer objects.
LEMMA ReachMonotone ==
  ASSUME NEW from \in SUBSET Object, NEW fewer \in SUBSET from,
         NEW kids \in [Object -> SUBSET Object]
  PROVE  Reach(fewer, kids) \subseteq Reach(from, kids)
BY ReachClosed, ReachLeast

\* A new root with references into what is reachable adds itself alone.
LEMMA ReachNew ==
  ASSUME NEW from \in SUBSET Object, NEW kids \in [Object -> SUBSET Object],
         NEW o \in Object, kids[o] \subseteq Reach(from, kids),
         NEW more, more = from \cup {o}
  PROVE  Reach(more, kids) = Reach(from, kids) \cup {o}
<1>0. more \in SUBSET Object /\ from \in SUBSET more
  OBVIOUS
<1>1. Closed(Reach(from, kids) \cup {o}, kids)
  BY ReachClosed DEF Closed
<1>2. Reach(more, kids) \subseteq Reach(from, kids) \cup {o}
  BY <1>0, <1>1, ReachClosed, ReachLeast
<1>3. Reach(from, kids) \cup {o} \subseteq Reach(more, kids)
  BY <1>0, ReachClosed, ReachMonotone
<1> QED
  BY <1>2, <1>3

-----------------------------------------------------------------------------
(* The heap.                                                               *)

\* What a heap in order says of each object, and of those that are reached.
ObjectOK(m, o) ==
  /\ m.payload[o] = o
  /\ m.entries[o] <= 1
  /\ o \notin m.used => m.entries[o] = 0
  /\ o \in m.marked => m.entries[o] = 0 /\ Kind[o] = "String"
  /\ Kind[o] \in {"String", "Bounded"} => m.refs[o] = {}
ReachedOK(m, o) ==
  /\ o \in m.used \ (m.freed \cup m.gone)
  /\ m.entries[o] = 1 \/ Kind[o] = "String"

LEMMA HeapParts ==
  ASSUME NEW m, NEW from
  PROVE  HeapOK(m, from) <=> /\ m \in Memory
                             /\ m.marked \cup m.freed \cup m.gone \subseteq m.used
                             /\ \A o \in Object : ObjectOK(m, o)
                             /\ \A o \in Reach(from, m.refs) : ReachedOK(m, o)
BY DEF HeapOK, ObjectOK, ReachedOK

\* The fields of a heap.
LEMMA MemoryFields ==
  ASSUME NEW m \in Memory
  PROVE  /\ m.entries \in [Object -> 0 .. 2]
         /\ m.marked \in SUBSET Object
         /\ m.payload \in [Object -> Object]
         /\ m.refs \in [Object -> SUBSET Object]
         /\ m.used \in SUBSET Object
         /\ m.freed \in SUBSET Object
         /\ m.gone \in SUBSET Object
         /\ m = [entries |-> m.entries, marked |-> m.marked, payload |-> m.payload,
                 refs |-> m.refs, used |-> m.used, freed |-> m.freed, gone |-> m.gone]
BY DEF Memory, MaxEntries

\* What the push_back, an assignment to an element, a new object and a
\* collection make of the fields.
LEMMA EnteredFields ==
  ASSUME NEW m \in Memory, NEW o
  PROVE  Entered(m, o)
           = [entries |-> [m.entries EXCEPT ![o] = @ + 1], marked |-> m.marked,
              payload |-> m.payload, refs |-> m.refs, used |-> m.used,
              freed |-> m.freed, gone |-> m.gone]
<1>0. m = [entries |-> m.entries, marked |-> m.marked, payload |-> m.payload,
           refs |-> m.refs, used |-> m.used, freed |-> m.freed, gone |-> m.gone]
  BY MemoryFields
<1>1. \A x : [m EXCEPT !.entries = x]
             = [entries |-> x, marked |-> m.marked, payload |-> m.payload,
                refs |-> m.refs, used |-> m.used, freed |-> m.freed, gone |-> m.gone]
  BY ONLY <1>0
<1>2. Entered(m, o) = [m EXCEPT !.entries = [m.entries EXCEPT ![o] = @ + 1]]
  BY DEF Entered
<1> QED
  BY ONLY <1>1, <1>2

LEMMA ReplacedFields ==
  ASSUME NEW m \in Memory, NEW o, NEW content
  PROVE  [m EXCEPT !.refs[o] = content]
           = [entries |-> m.entries, marked |-> m.marked, payload |-> m.payload,
              refs |-> [m.refs EXCEPT ![o] = content], used |-> m.used,
              freed |-> m.freed, gone |-> m.gone]
<1>0. m = [entries |-> m.entries, marked |-> m.marked, payload |-> m.payload,
           refs |-> m.refs, used |-> m.used, freed |-> m.freed, gone |-> m.gone]
  BY MemoryFields
<1>1. \A x : [m EXCEPT !.refs = x]
             = [entries |-> m.entries, marked |-> m.marked, payload |-> m.payload,
                refs |-> x, used |-> m.used, freed |-> m.freed, gone |-> m.gone]
  BY ONLY <1>0
<1>2. [m EXCEPT !.refs[o] = content] = [m EXCEPT !.refs = [m.refs EXCEPT ![o] = content]]
  OBVIOUS
<1> QED
  BY ONLY <1>1, <1>2

LEMMA NewFields ==
  ASSUME mem \in Memory, NEW o, NEW content
  PROVE  New(o, content)
           = [entries |-> mem.entries, marked |-> mem.marked, payload |-> mem.payload,
              refs |-> [mem.refs EXCEPT ![o] = content], used |-> mem.used \cup {o},
              freed |-> mem.freed, gone |-> mem.gone]
<1> DEFINE u == [mem EXCEPT !.used = @ \cup {o}]
<1>1. u = [entries |-> mem.entries, marked |-> mem.marked, payload |-> mem.payload,
           refs |-> mem.refs, used |-> mem.used \cup {o},
           freed |-> mem.freed, gone |-> mem.gone]
  <2>1. mem = [entries |-> mem.entries, marked |-> mem.marked, payload |-> mem.payload,
               refs |-> mem.refs, used |-> mem.used, freed |-> mem.freed, gone |-> mem.gone]
    BY MemoryFields
  <2> QED
    BY ONLY <2>1
<1>2. New(o, content) = [u EXCEPT !.refs[o] = content]
  BY DEF New
<1> HIDE DEF u
<1>3. [u EXCEPT !.refs[o] = content] = [u EXCEPT !.refs = [u.refs EXCEPT ![o] = content]]
  OBVIOUS
<1>4. u.refs = mem.refs
  BY ONLY <1>1
<1>5. \A x : [u EXCEPT !.refs = x]
             = [entries |-> mem.entries, marked |-> mem.marked, payload |-> mem.payload,
                refs |-> x, used |-> mem.used \cup {o},
                freed |-> mem.freed, gone |-> mem.gone]
  BY ONLY <1>1
<1> QED
  BY ONLY <1>2, <1>3, <1>4, <1>5

\* The update of Collected.
Updated(m, a, b, c, d, e) ==
  [m EXCEPT !.entries = a, !.marked = b, !.refs = c, !.freed = d, !.gone = e]

LEMMA CollectedFields ==
  ASSUME NEW m \in Memory, NEW a, NEW b, NEW c, NEW d, NEW e
  PROVE  Updated(m, a, b, c, d, e)
           = [entries |-> a, marked |-> b, payload |-> m.payload, refs |-> c,
              used |-> m.used, freed |-> d, gone |-> e]
<1> DEFINE m1 == [m EXCEPT !.entries = a]
           m2 == [m1 EXCEPT !.marked = b]
           m3 == [m2 EXCEPT !.refs = c]
           m4 == [m3 EXCEPT !.freed = d]
           m5 == [m4 EXCEPT !.gone = e]
<1>0. m = [entries |-> m.entries, marked |-> m.marked, payload |-> m.payload,
           refs |-> m.refs, used |-> m.used, freed |-> m.freed, gone |-> m.gone]
  BY MemoryFields
<1>1. m1 = [entries |-> a, marked |-> m.marked, payload |-> m.payload,
            refs |-> m.refs, used |-> m.used, freed |-> m.freed, gone |-> m.gone]
  BY ONLY <1>0
<1> HIDE DEF m1
<1>2. m2 = [entries |-> a, marked |-> b, payload |-> m.payload,
            refs |-> m.refs, used |-> m.used, freed |-> m.freed, gone |-> m.gone]
  BY ONLY <1>1
<1> HIDE DEF m2
<1>3. m3 = [entries |-> a, marked |-> b, payload |-> m.payload,
            refs |-> c, used |-> m.used, freed |-> m.freed, gone |-> m.gone]
  BY ONLY <1>2
<1> HIDE DEF m3
<1>4. m4 = [entries |-> a, marked |-> b, payload |-> m.payload,
            refs |-> c, used |-> m.used, freed |-> d, gone |-> m.gone]
  BY ONLY <1>3
<1> HIDE DEF m4
<1>5. m5 = [entries |-> a, marked |-> b, payload |-> m.payload,
            refs |-> c, used |-> m.used, freed |-> d, gone |-> e]
  BY ONLY <1>4
<1> QED
  BY ONLY <1>5 DEF Updated, m1, m2, m3, m4, m5

\* mark() follows everything an object holds, bounded values aside, which
\* hold nothing here.
LEMMA KidsAreRefs ==
  ASSUME NEW m, NEW from, HeapOK(m, from), NEW o \in Object
  PROVE  Kids(m, o) = m.refs[o] /\ Content(m, o) = m.refs[o]
<1>1. Kind[o] \in Kinds
  BY AllocationAssumption
<1> QED
  BY <1>1 DEF HeapOK, Kids, Content, Kinds

\* Fewer roots, as when an operand is dropped, leave a heap in order.
LEMMA FewerRoots ==
  ASSUME NEW m, NEW from \in SUBSET Object, HeapOK(m, from),
         NEW less \in SUBSET Reach(from, m.refs)
  PROVE  HeapOK(m, less)
<1>1. m.refs \in [Object -> SUBSET Object]
  BY MemoryFields DEF HeapOK
<1>2. less \in SUBSET Object
  BY <1>1, ReachClosed
<1>3. Reach(less, m.refs) \subseteq Reach(from, m.refs)
  BY <1>1, <1>2, ReachClosed, ReachLeast
<1> QED
  BY <1>3 DEF HeapOK

\* A new object that no root refers to yet: only its own references differ.
LEMMA NewObject ==
  ASSUME NEW from \in SUBSET Object, HeapOK(mem, from),
         NEW o \in Object, o \notin mem.used,
         NEW content \in SUBSET Object,
         Kind[o] \in Containers \/ content = {},
         NEW m, m = New(o, content)
  PROVE  /\ HeapOK(m, from)
         /\ Reach(from, m.refs) = Reach(from, mem.refs)
         /\ o \notin Reach(from, m.refs)
         /\ o \in m.used \ (m.freed \cup m.gone \cup m.marked)
         /\ m.entries[o] = 0 /\ m.refs[o] = content
<1>1. mem \in Memory
  BY DEF HeapOK
<1>2. m = [entries |-> mem.entries, marked |-> mem.marked, payload |-> mem.payload,
           refs |-> [mem.refs EXCEPT ![o] = content], used |-> mem.used \cup {o},
           freed |-> mem.freed, gone |-> mem.gone]
  BY <1>1, NewFields
<1>3. m.refs \in [Object -> SUBSET Object] /\ m \in Memory
  BY <1>1, <1>2, MemoryFields DEF Memory, MaxEntries
<1>4. o \notin Reach(from, mem.refs)
  BY DEF HeapOK
<1>5. m.refs[o] = content /\ \A x \in Object : x # o => m.refs[x] = mem.refs[x]
  BY <1>1, <1>2, MemoryFields
<1>6. Reach(from, m.refs) = Reach(from, mem.refs)
  BY <1>1, <1>3, <1>4, <1>5, MemoryFields, ReachAgree, ReachClosed
<1>7. Kind[o] \in {"String", "Bounded"} => content = {}
  BY DEF Containers
<1>f. /\ m.payload = mem.payload /\ m.entries = mem.entries /\ m.marked = mem.marked
      /\ m.used = mem.used \cup {o} /\ m.freed = mem.freed /\ m.gone = mem.gone
  BY <1>2
<1>8. ASSUME NEW x \in Object PROVE ObjectOK(m, x)
  <2>1. ObjectOK(mem, x)
    BY HeapParts
  <2> QED
    BY ONLY <2>1, <1>5, <1>7, <1>f, x \in Object DEF ObjectOK
<1>9. \A x \in Reach(from, m.refs) : ReachedOK(m, x)
  <2>1. \A x \in Reach(from, m.refs) : ReachedOK(mem, x)
    BY <1>6, HeapParts
  <2> QED
    BY ONLY <2>1, <1>f DEF ReachedOK
<1>10. m.marked \cup m.freed \cup m.gone \subseteq m.used
  BY <1>f DEF HeapOK
<1>11. HeapOK(m, from)
  BY ONLY <1>3, <1>8, <1>9, <1>10, HeapParts
<1>12. mem.marked \cup mem.freed \cup mem.gone \subseteq mem.used /\ mem.entries[o] = 0
  BY DEF HeapOK
<1> QED
  BY <1>4, <1>5, <1>6, <1>f, <1>11, <1>12

\* The push_back of addObject, after which the object may be a root, if what
\* it holds is reachable.
LEMMA EnteredObject ==
  ASSUME NEW m, NEW from \in SUBSET Object, HeapOK(m, from),
         NEW o \in Object, o \in m.used \ (m.freed \cup m.gone \cup m.marked),
         m.entries[o] = 0, m.refs[o] \subseteq Reach(from, m.refs),
         NEW n, n = Entered(m, o)
  PROVE  HeapOK(n, from \cup {o})
<1>1. m \in Memory
  BY DEF HeapOK
<1>2. n = [entries |-> [m.entries EXCEPT ![o] = 1], marked |-> m.marked,
           payload |-> m.payload, refs |-> m.refs, used |-> m.used,
           freed |-> m.freed, gone |-> m.gone]
  BY <1>1, EnteredFields
<1>3. n \in Memory
  BY <1>1, <1>2, MemoryFields DEF Memory, MaxEntries
<1>f. /\ n.payload = m.payload /\ n.refs = m.refs /\ n.marked = m.marked
      /\ n.used = m.used /\ n.freed = m.freed /\ n.gone = m.gone
  BY <1>2
<1>4. n.entries[o] = 1 /\ \A x \in Object : x # o => n.entries[x] = m.entries[x]
  BY <1>1, <1>2, MemoryFields
<1>5. Reach(from \cup {o}, n.refs) = Reach(from, m.refs) \cup {o}
  BY <1>1, <1>f, MemoryFields, ReachNew
<1>6. ASSUME NEW x \in Object PROVE ObjectOK(n, x)
  <2>1. ObjectOK(m, x)
    BY HeapParts
  <2>2. o \in m.used \ m.marked
    OBVIOUS
  <2> QED
    BY ONLY <2>1, <2>2, <1>4, <1>f, x \in Object DEF ObjectOK
<1>7. ASSUME NEW x \in Reach(from, m.refs) \cup {o} PROVE ReachedOK(n, x)
  <2>1. x \in Object
    BY <1>1, <1>7, MemoryFields, ReachClosed
  <2>2. x # o => ReachedOK(m, x)
    BY <1>7, HeapParts
  <2>3. o \in m.used \ (m.freed \cup m.gone)
    OBVIOUS
  <2> QED
    BY ONLY <2>1, <2>2, <2>3, <1>4, <1>f DEF ReachedOK
<1>8. n.marked \cup n.freed \cup n.gone \subseteq n.used
  BY <1>f DEF HeapOK
<1> QED
  BY ONLY <1>3, <1>5, <1>6, <1>7, <1>8, HeapParts

\* A string nobody registers may be a root as it is.
LEMMA UnregisteredString ==
  ASSUME NEW m, NEW from \in SUBSET Object, HeapOK(m, from),
         NEW o \in Object, o \in m.used \ (m.freed \cup m.gone), Kind[o] = "String"
  PROVE  HeapOK(m, from \cup {o})
<1>1. m.refs \in [Object -> SUBSET Object] /\ m.refs[o] = {}
  BY MemoryFields DEF HeapOK
<1>2. Reach(from \cup {o}, m.refs) = Reach(from, m.refs) \cup {o}
  BY <1>1, ReachNew
<1> QED
  BY ONLY <1>2, HeapParts, HeapOK(m, from), Kind[o] = "String",
          o \in m.used \ (m.freed \cup m.gone) DEF ReachedOK

\* A collection frees no object that a root of the collector reaches, nor
\* what it holds, leaves flags on unregistered strings alone, and does not
\* touch an object that is not registered yet.
LEMMA CollectionKeeps ==
  ASSUME NEW m, NEW from \in SUBSET Object, HeapOK(m, from),
         NEW n, n = Collected(m, from)
  PROVE  /\ HeapOK(n, from)
         /\ n.used = m.used
         /\ Reach(from, n.refs) = Reach(from, m.refs)
         /\ \A o \in Object : m.entries[o] = 0 =>
              /\ n.entries[o] = 0 /\ n.refs[o] = m.refs[o]
              /\ o \notin m.freed \cup m.gone => o \notin n.freed \cup n.gone
              /\ o \notin m.marked /\ o \notin Reach(from, m.refs) => o \notin n.marked
<1> DEFINE cut == [o \in Object |-> IF o \in m.marked THEN {} ELSE Kids(m, o)]
           reached == m.marked \cup Reach(from, cut)
           heap == {o \in Object : m.entries[o] > 0}
           released == {o \in heap : o \notin reached \/ m.entries[o] > 1}
           deleted == {m.payload[o] : o \in released}
<1>1. m \in Memory
  BY DEF HeapOK
<1>2. cut = m.refs
  <2>1. \A o \in Object : cut[o] = m.refs[o]
    <3>1. \A o \in Object : Kids(m, o) = m.refs[o]
      BY KidsAreRefs
    <3>2. \A o \in m.marked : Kind[o] = "String" /\ m.refs[o] = {}
      BY <1>1, MemoryFields DEF HeapOK
    <3> QED
      BY ONLY <3>1, <3>2
  <2> QED
    BY <1>1, <2>1, MemoryFields
<1>3. reached = m.marked \cup Reach(from, m.refs)
  BY <1>2
<1>4. deleted = released
  <2>1. \A o \in Object : m.payload[o] = o
    BY DEF HeapOK
  <2> QED
    BY ONLY <2>1
<1>5. released = heap \ Reach(from, m.refs)
  <2>1. \A o \in heap : o \notin m.marked /\ ~ (m.entries[o] > 1)
    <3>1. \A o \in Object : ObjectOK(m, o) /\ m.entries[o] \in 0 .. 2
      BY <1>1, HeapParts, MemoryFields
    <3> SUFFICES ASSUME NEW o \in heap PROVE o \notin m.marked /\ ~ (m.entries[o] > 1)
      OBVIOUS
    <3>2. o \in Object /\ m.entries[o] > 0
      OBVIOUS
    <3>3. m.entries[o] \in 0 .. 2 /\ m.entries[o] <= 1
          /\ (o \in m.marked => m.entries[o] = 0)
      BY <3>1, <3>2 DEF ObjectOK
    <3> QED
      BY ONLY <3>2, <3>3
  <2> QED
    BY ONLY <1>3, <2>1
<1>6. n = [entries |-> [o \in Object |-> IF o \in heap \cap reached THEN 1 ELSE 0],
           marked |-> reached \ heap, payload |-> m.payload,
           refs |-> [p \in Object |-> IF p \in deleted THEN {} ELSE m.refs[p]],
           used |-> m.used, freed |-> m.freed \cup released, gone |-> m.gone \cup deleted]
  <2> DEFINE e == [o \in Object |-> IF o \in heap \cap reached THEN 1 ELSE 0]
             k == reached \ heap
             r == [p \in Object |-> IF p \in deleted THEN {} ELSE m.refs[p]]
             f == m.freed \cup released
             g == m.gone \cup deleted
  <2>1. n = Updated(m, e, k, r, f, g)
    BY DEF Collected, Updated
  <2> HIDE DEF e, k, r, f, g
  <2>2. Updated(m, e, k, r, f, g)
          = [entries |-> e, marked |-> k, payload |-> m.payload, refs |-> r,
             used |-> m.used, freed |-> f, gone |-> g]
    BY ONLY <1>1, CollectedFields
  <2>3. n = [entries |-> e, marked |-> k, payload |-> m.payload, refs |-> r,
             used |-> m.used, freed |-> f, gone |-> g]
    BY ONLY <2>1, <2>2
  <2> QED
    BY ONLY <2>3 DEF e, k, r, f, g
<1> HIDE DEF reached, deleted, cut
<1>7. reached \in SUBSET Object /\ released \in SUBSET Object /\ deleted \in SUBSET Object
  BY <1>1, <1>3, <1>4, MemoryFields, ReachClosed
<1>8. n \in Memory
  BY <1>1, <1>6, <1>7, MemoryFields DEF Memory, MaxEntries
<1> HIDE DEF released
<1>9. \A o \in Object : o \notin released => n.refs[o] = m.refs[o]
  BY <1>4, <1>6
<1>10. Reach(from, n.refs) = Reach(from, m.refs)
  BY <1>1, <1>5, <1>8, <1>9, MemoryFields, ReachAgree, ReachClosed
<1>11. \A x \in Object : n.entries[x] = IF x \in heap \cap reached THEN 1 ELSE 0
  BY <1>6
<1>12. released \subseteq m.used
  <2>1. heap \subseteq m.used
    BY <1>1, MemoryFields DEF HeapOK
  <2> QED
    BY <1>5, <2>1
<1>13. \A x \in reached \ heap : Kind[x] = "String" /\ x \in m.used
  BY <1>1, <1>3, MemoryFields DEF HeapOK
<1>14. \A x \in Object :
        /\ n.payload[x] = x /\ n.entries[x] <= 1
        /\ x \notin n.used => n.entries[x] = 0
        /\ x \in n.marked => n.entries[x] = 0 /\ Kind[x] = "String"
        /\ Kind[x] \in {"String", "Bounded"} => n.refs[x] = {}
  <2> SUFFICES ASSUME NEW x \in Object
               PROVE  /\ n.payload[x] = x /\ n.entries[x] <= 1
                      /\ x \notin n.used => n.entries[x] = 0
                      /\ x \in n.marked => n.entries[x] = 0 /\ Kind[x] = "String"
                      /\ Kind[x] \in {"String", "Bounded"} => n.refs[x] = {}
    OBVIOUS
  <2>1. n.payload[x] = x /\ n.entries[x] <= 1
    BY <1>6, <1>11 DEF HeapOK
  <2>2. x \notin n.used => n.entries[x] = 0
    <3>1. x \in heap => x \in m.used
      BY <1>1, MemoryFields DEF HeapOK
    <3> QED
      BY <1>6, <1>11, <3>1
  <2>3. x \in n.marked => n.entries[x] = 0 /\ Kind[x] = "String"
    BY <1>6, <1>11, <1>13
  <2>4. Kind[x] \in {"String", "Bounded"} => n.refs[x] = {}
    BY <1>6 DEF HeapOK
  <2> QED
    BY <2>1, <2>2, <2>3, <2>4
<1>15. n.marked \cup n.freed \cup n.gone \subseteq n.used
  BY <1>4, <1>6, <1>12, <1>13 DEF HeapOK
<1>16. ASSUME NEW x \in Reach(from, n.refs)
       PROVE  /\ x \in n.used \ (n.freed \cup n.gone)
              /\ n.entries[x] = 1 \/ Kind[x] = "String"
  <2>1. x \in Object /\ x \in Reach(from, m.refs) /\ x \in reached
    BY <1>1, <1>3, <1>10, <1>16, MemoryFields, ReachClosed
  <2>2. x \in m.used \ (m.freed \cup m.gone) /\ (m.entries[x] = 1 \/ Kind[x] = "String")
    BY <2>1 DEF HeapOK
  <2>3. x \notin released
    BY <2>1, <1>5
  <2>4. m.entries[x] = 1 => n.entries[x] = 1
    BY <2>1, <1>11
  <2> QED
    BY <2>2, <2>3, <2>4, <1>4, <1>6
<1>17. HeapOK(n, from)
  BY <1>8, <1>14, <1>15, <1>16 DEF HeapOK
<1>18. ASSUME NEW o \in Object, m.entries[o] = 0
       PROVE  /\ n.entries[o] = 0 /\ n.refs[o] = m.refs[o]
              /\ o \notin m.freed \cup m.gone => o \notin n.freed \cup n.gone
              /\ o \notin m.marked /\ o \notin Reach(from, m.refs) => o \notin n.marked
  <2>1. o \notin heap /\ o \notin released
    BY <1>5, <1>18
  <2> QED
    BY <2>1, <1>3, <1>4, <1>6, <1>9, <1>11
<1> QED
  BY <1>6, <1>10, <1>17, <1>18

\* list[i] = value: what a registered list holds is replaced by values that
\* are reachable.
LEMMA ReplacedContent ==
  ASSUME NEW m, NEW from \in SUBSET Object, HeapOK(m, from),
         NEW o \in Object, Kind[o] \in Containers,
         NEW content \in SUBSET Reach(from, m.refs),
         NEW n, n = [m EXCEPT !.refs[o] = content]
  PROVE  HeapOK(n, from) /\ Reach(from, n.refs) \subseteq Reach(from, m.refs)
<1>1. m \in Memory
  BY DEF HeapOK
<1>2. n = [entries |-> m.entries, marked |-> m.marked, payload |-> m.payload,
           refs |-> [m.refs EXCEPT ![o] = content], used |-> m.used,
           freed |-> m.freed, gone |-> m.gone]
  BY <1>1, ReplacedFields
<1>f. /\ n.payload = m.payload /\ n.entries = m.entries /\ n.marked = m.marked
      /\ n.used = m.used /\ n.freed = m.freed /\ n.gone = m.gone
  BY <1>2
<1>3. Reach(from, m.refs) \in SUBSET Object
  BY <1>1, MemoryFields, ReachClosed
<1>4. n.refs \in [Object -> SUBSET Object] /\ n \in Memory
  BY <1>1, <1>2, <1>3, MemoryFields DEF Memory, MaxEntries
<1>5. n.refs[o] = content /\ \A x \in Object : x # o => n.refs[x] = m.refs[x]
  BY <1>1, <1>2, MemoryFields
<1>6. Closed(Reach(from, m.refs), n.refs)
  <2>1. Closed(Reach(from, m.refs), m.refs)
    BY <1>1, MemoryFields, ReachClosed
  <2> QED
    BY ONLY <2>1, <1>3, <1>5, content \in SUBSET Reach(from, m.refs) DEF Closed
<1>7. Reach(from, n.refs) \subseteq Reach(from, m.refs)
  BY <1>1, <1>3, <1>4, <1>6, MemoryFields, ReachClosed, ReachLeast
<1>8. ASSUME NEW x \in Object PROVE ObjectOK(n, x)
  <2>1. ObjectOK(m, x)
    BY HeapParts
  <2>2. x = o => Kind[x] \notin {"String", "Bounded"}
    BY DEF Containers
  <2> QED
    BY ONLY <2>1, <2>2, <1>5, <1>f, x \in Object DEF ObjectOK
<1>9. ASSUME NEW x \in Reach(from, n.refs) PROVE ReachedOK(n, x)
  <2>1. ReachedOK(m, x)
    BY <1>7, <1>9, HeapParts
  <2> QED
    BY ONLY <2>1, <1>f DEF ReachedOK
<1>10. n.marked \cup n.freed \cup n.gone \subseteq n.used
  BY <1>f DEF HeapOK
<1>11. HeapOK(n, from)
  BY ONLY <1>4, <1>8, <1>9, <1>10, HeapParts
<1> QED
  BY <1>7, <1>11
-----------------------------------------------------------------------------
(* The stack and the roots.                                                *)

\* The roots with the stack s and the global variable g.
RootsOf(s, g) == Range(s) \cup Constants \cup ({g} \ {Nothing})

LEMMA RootsFacts ==
  ASSUME NEW s \in Seq(Object), NEW g \in Object \cup {Nothing}
  PROVE  /\ RootsOf(s, g) \in SUBSET Object
         /\ \A o \in Object : RootsOf(Append(s, o), g) = RootsOf(s, g) \cup {o}
<1>1. Range(s) \in SUBSET Object
  BY DEF Range
<1>2. Constants \in SUBSET Object
  BY AllocationAssumption
<1>3. ASSUME NEW o \in Object PROVE Range(Append(s, o)) = Range(s) \cup {o}
  <2>1. /\ DOMAIN Append(s, o) = 1 .. Len(s) + 1 /\ DOMAIN s = 1 .. Len(s)
        /\ Len(s) \in Nat
        /\ \A i \in 1 .. Len(s) : Append(s, o)[i] = s[i]
        /\ Append(s, o)[Len(s) + 1] = o
    OBVIOUS
  <2> QED
    BY <2>1 DEF Range
<1> QED
  BY <1>1, <1>2, <1>3 DEF RootsOf

\* The operands taken off the stack were on it, and so was what is left.
LEMMA StackFacts ==
  ASSUME stack \in Seq(Object), NEW n \in Nat, n <= Len(stack)
  PROVE  /\ Len(stack) \in Nat
         /\ Below(n) \in Seq(Object) /\ Len(Below(n)) = Len(stack) - n
         /\ Range(Below(n)) \subseteq Range(stack)
         /\ Taken(n) \subseteq Range(stack)
         /\ Range(stack) \subseteq Object
         /\ n > 0 => Nth(n) \in Range(stack)
<1>1. Len(stack) \in Nat /\ DOMAIN stack = 1 .. Len(stack)
      /\ \A i \in 1 .. Len(stack) : stack[i] \in Object
  OBVIOUS
<1>2. /\ 1 \in Int /\ Len(stack) - n \in Nat
      /\ \A i \in 1 .. Len(stack) - n : stack[i] \in Object
  BY <1>1
<1> DEFINE t == SubSeq(stack, 1, Len(stack) - n)
<1>3. /\ t \in Seq(Object)
      /\ Len(t) = (IF 1 <= Len(stack) - n THEN (Len(stack) - n) - 1 + 1 ELSE 0)
      /\ \A i \in 1 .. (Len(stack) - n) - 1 + 1 : t[i] = stack[1 + i - 1]
  BY ONLY <1>2, SubSeqProperties
<1>4. Below(n) = t
  BY DEF Below
<1> HIDE DEF t
<1>5. Len(t) = Len(stack) - n
  BY ONLY <1>2, <1>3
<1>6. DOMAIN t = 1 .. Len(stack) - n /\ \A i \in DOMAIN t : t[i] = stack[i]
  BY <1>2, <1>3, <1>5
<1>7. Range(t) \subseteq Range(stack)
  BY <1>1, <1>6 DEF Range
<1>8. Taken(n) \subseteq Range(stack) /\ Range(stack) \subseteq Object
  BY <1>1 DEF Taken, Range
<1>9. n > 0 => Nth(n) \in Range(stack)
  BY <1>1 DEF Nth, Range
<1> QED
  BY <1>1, <1>3, <1>4, <1>5, <1>7, <1>8, <1>9

\* The invariant in terms of the roots.
LEMMA StateOK ==
  ASSUME IndInv
  PROVE  /\ mem \in Memory
         /\ stack \in Seq(Object) /\ Len(stack) <= MaxStack
         /\ global \in Object \cup {Nothing} /\ automatic \in BOOLEAN
         /\ RootsOf(stack, global) \in SUBSET Object
         /\ HeapOK(mem, RootsOf(stack, global))
         /\ MaxStack \in Nat /\ MaxElements \in Nat
         /\ Reach(RootsOf(stack, global), mem.refs) \in SUBSET Object
         /\ RootsOf(stack, global) \subseteq Reach(RootsOf(stack, global), mem.refs)
<1>1. TypeOK /\ HeapOK(mem, RootsOf(stack, global))
  BY DEF IndInv, Roots, RootsOf
<1>2. RootsOf(stack, global) \in SUBSET Object
  BY <1>1, RootsFacts DEF TypeOK
<1> QED
  BY <1>1, <1>2, AllocationAssumption, MemoryFields, ReachClosed DEF TypeOK

LEMMA NextStateOK ==
  ASSUME stack' \in Seq(Object), Len(stack') <= MaxStack,
         global' \in Object \cup {Nothing}, automatic' \in BOOLEAN,
         NEW m, m = mem', NEW from, from = RootsOf(stack', global'),
         HeapOK(m, from)
  PROVE  IndInv'
<1>1. HeapOK(mem, Roots(stack))'
  BY DEF Roots, RootsOf, HeapOK
<1>2. mem' \in Memory
  BY DEF HeapOK
<1> QED
  BY <1>1, <1>2 DEF IndInv, TypeOK
-----------------------------------------------------------------------------
(* Steps.                                                                  *)

\* Loads, stores and what drops operands: the heap stays, and the roots are
\* what was reachable before.
LEMMA MovesKeep ==
  ASSUME IndInv, UNCHANGED <<mem, automatic>>,
         stack' \in Seq(Object), Len(stack') <= MaxStack,
         global' \in Object \cup {Nothing},
         RootsOf(stack', global') \subseteq Reach(RootsOf(stack, global), mem.refs)
  PROVE  IndInv'
<1> DEFINE m == mem
           from == RootsOf(stack, global)
           less == RootsOf(stack', global')
<1>1. HeapOK(m, from) /\ from \in SUBSET Object /\ automatic' \in BOOLEAN
  BY StateOK
<1>2. m = mem' /\ less \in SUBSET Reach(from, m.refs)
  OBVIOUS
<1> HIDE DEF m, from
<1>3. HeapOK(m, less)
  BY ONLY <1>1, <1>2, FewerRoots
<1> QED
  BY <1>1, <1>2, <1>3, NextStateOK

\* A statement that allocates an object for values which are reachable, from
\* the roots the collector sees when addObject collects.
LEMMA AllocationKeeps ==
  ASSUME IndInv, NEW o \in Object, o \notin mem.used,
         NEW content \in SUBSET Object,
         Kind[o] \in Containers \/ content = {},
         content \subseteq Reach(RootsOf(stack, global), mem.refs),
         NEW seen, NEW s \in Seq(Object), Range(s) \subseteq Range(stack),
         automatic => /\ Range(s) \subseteq Range(seen)
                      /\ Range(seen) \subseteq Range(stack)
                      /\ content \subseteq Reach(RootsOf(seen, global), mem.refs),
         mem' \in AddObject(New(o, content), o, Roots(seen)),
         Push(s, o), UNCHANGED <<global, automatic>>
  PROVE  IndInv'
<1> DEFINE all == RootsOf(stack, global)
           few == RootsOf(seen, global)
           less == RootsOf(stack', global')
           m == New(o, content)
           c == Collected(m, few)
           n == mem'
<1>1. /\ all \in SUBSET Object /\ HeapOK(mem, all) /\ mem \in Memory
      /\ global \in Object \cup {Nothing} /\ automatic \in BOOLEAN /\ MaxStack \in Nat
  BY StateOK
<1>2. /\ stack' \in Seq(Object) /\ Len(stack') <= MaxStack
      /\ less = RootsOf(s, global) \cup {o}
  <2>1. stack' = Append(s, o) /\ Len(s) < MaxStack
    BY DEF Push
  <2> QED
    BY <1>1, <2>1, RootsFacts
<1>3. RootsOf(s, global) \subseteq all
  BY DEF RootsOf
<1>4. n \in {Entered(m, o)} \cup (IF automatic THEN {Entered(c, o)} ELSE {})
  BY DEF AddObject, Roots, RootsOf
<1>5. CASE n = Entered(m, o)
  <2> HIDE DEF all, m, n, less
  <2>1. /\ HeapOK(m, all) /\ Reach(all, m.refs) = Reach(all, mem.refs)
        /\ o \in m.used \ (m.freed \cup m.gone \cup m.marked)
        /\ m.entries[o] = 0 /\ m.refs[o] = content
    BY <1>1, NewObject DEF m
  <2>2. HeapOK(n, all \cup {o})
    BY <1>1, <1>5, <2>1, EnteredObject DEF all
  <2>3. less \in SUBSET Reach(all \cup {o}, n.refs)
    <3>1. all \cup {o} \in SUBSET Object /\ n.refs \in [Object -> SUBSET Object]
      BY <1>1, <2>2, MemoryFields DEF HeapOK
    <3> QED
      BY <1>2, <1>3, <3>1, ReachClosed
  <2>4. all \cup {o} \in SUBSET Object
    BY <1>1
  <2>5. HeapOK(n, less)
    BY ONLY <2>2, <2>3, <2>4, FewerRoots
  <2>6. n = mem' /\ automatic' \in BOOLEAN /\ global' \in Object \cup {Nothing}
        /\ less = RootsOf(stack', global')
    BY <1>1 DEF n, less
  <2> QED
    BY <1>2, <2>5, <2>6, NextStateOK
<1>6. CASE automatic /\ n = Entered(c, o)
  <2>1. /\ few \subseteq all /\ RootsOf(s, global) \subseteq few
        /\ content \subseteq Reach(few, mem.refs)
    BY <1>6 DEF RootsOf
  <2> HIDE DEF all, few, m, c, n, less
  <2>2. few \in SUBSET Object /\ few \in SUBSET Reach(all, mem.refs)
    BY <1>1, <2>1, StateOK DEF all
  <2>3. HeapOK(mem, few)
    BY <1>1, <2>2, FewerRoots
  <2>4. /\ HeapOK(m, few) /\ Reach(few, m.refs) = Reach(few, mem.refs)
        /\ o \notin Reach(few, m.refs)
        /\ o \in m.used \ (m.freed \cup m.gone \cup m.marked)
        /\ m.entries[o] = 0 /\ m.refs[o] = content
    BY <2>2, <2>3, NewObject DEF m
  <2>5. /\ HeapOK(c, few) /\ c.used = m.used
        /\ Reach(few, c.refs) = Reach(few, m.refs)
        /\ c.entries[o] = 0 /\ c.refs[o] = m.refs[o]
        /\ o \notin c.freed \cup c.gone /\ o \notin c.marked
    BY <2>2, <2>4, CollectionKeeps DEF c
  <2>6. HeapOK(n, few \cup {o})
    <3>1. c.refs[o] \subseteq Reach(few, c.refs)
      BY ONLY <2>1, <2>4, <2>5
    <3>2. o \in c.used \ (c.freed \cup c.gone \cup c.marked) /\ c.entries[o] = 0
      BY ONLY <2>4, <2>5
    <3> QED
      BY ONLY <1>6, <2>2, <2>5, <3>1, <3>2, o \in Object, EnteredObject
  <2>7. less \in SUBSET Reach(few \cup {o}, n.refs)
    <3>1. few \cup {o} \in SUBSET Object /\ n.refs \in [Object -> SUBSET Object]
      BY <2>2, <2>6, MemoryFields DEF HeapOK
    <3> QED
      BY <1>2, <2>1, <3>1, ReachClosed
  <2>8. few \cup {o} \in SUBSET Object
    BY <2>2
  <2>9. HeapOK(n, less)
    BY ONLY <2>6, <2>7, <2>8, FewerRoots
  <2>10. n = mem' /\ automatic' \in BOOLEAN /\ global' \in Object \cup {Nothing}
         /\ less = RootsOf(stack', global')
    BY <1>1 DEF n, less
  <2> QED
    BY <1>2, <2>9, <2>10, NextStateOK
<1> QED
  BY <1>4, <1>5, <1>6

\* A new address is not in use.
LEMMA NextUnusedFacts ==
  ASSUME NEW kind, Unused(kind) # {}
  PROVE  /\ NextUnused(kind) \in Object
         /\ NextUnused(kind) \notin mem.used
         /\ Kind[NextUnused(kind)] = kind
BY DEF NextUnused, Unused

\* At the start only the constants are there.
LEMMA InitIndInv == Init => IndInv
<1> SUFFICES ASSUME Init PROVE IndInv
  OBVIOUS
<1>1. /\ stack = <<>> /\ global = Nothing /\ automatic \in BOOLEAN
      /\ mem = [entries |-> [o \in Object |-> IF o \in Constants THEN 1 ELSE 0],
                marked |-> {}, payload |-> [o \in Object |-> o],
                refs |-> [o \in Object |-> {}],
                used |-> Constants, freed |-> {}, gone |-> {}]
  BY DEF Init
<1>2. Constants \in SUBSET Object /\ MaxStack \in Nat
      /\ \A o \in Constants : Kind[o] = "String"
  BY AllocationAssumption
<1>3. mem \in Memory
  BY <1>1, <1>2 DEF Memory, MaxEntries
<1>4. Roots(stack) = Constants
  BY <1>1 DEF Roots, Range
<1>5. Reach(Constants, mem.refs) \subseteq Constants
  <2>1. mem.refs \in [Object -> SUBSET Object] /\ \A o \in Object : mem.refs[o] = {}
    BY <1>1
  <2>2. Closed(Constants, mem.refs)
    BY <1>2, <2>1 DEF Closed
  <2> QED
    BY <1>2, <2>1, <2>2, ReachLeast
<1>6. HeapOK(mem, Roots(stack))
  <2>f. /\ \A o \in Object : /\ mem.entries[o] = IF o \in Constants THEN 1 ELSE 0
                             /\ mem.payload[o] = o /\ mem.refs[o] = {}
        /\ mem.marked = {} /\ mem.freed = {} /\ mem.gone = {} /\ mem.used = Constants
    BY <1>1
  <2>1. ASSUME NEW o \in Object PROVE ObjectOK(mem, o)
    BY <2>f DEF ObjectOK
  <2>2. ASSUME NEW o \in Reach(Roots(stack), mem.refs) PROVE ReachedOK(mem, o)
    <3>1. o \in Constants /\ o \in Object
      BY <1>2, <1>4, <1>5, <2>2
    <3> QED
      BY <2>f, <3>1 DEF ReachedOK
  <2>3. mem.marked \cup mem.freed \cup mem.gone \subseteq mem.used
    BY <2>f
  <2> QED
    BY ONLY <1>3, <2>1, <2>2, <2>3, HeapParts
<1>7. TypeOK
  BY <1>1, <1>2, <1>3 DEF TypeOK
<1> QED
  BY <1>6, <1>7 DEF IndInv

\* The statements that keep the rule whether or not addObject collects.
LEMMA RootedKeeps ==
  ASSUME IndInv, RootedStatement
  PROVE  IndInv'
<1> DEFINE all == RootsOf(stack, global)
           live == Reach(all, mem.refs)
<1>1. /\ mem \in Memory /\ stack \in Seq(Object) /\ Len(stack) <= MaxStack
      /\ Len(stack) \in Nat /\ MaxStack \in Nat /\ MaxElements \in Nat
      /\ global \in Object \cup {Nothing} /\ automatic \in BOOLEAN
      /\ all \in SUBSET Object /\ HeapOK(mem, all)
      /\ live \in SUBSET Object /\ all \subseteq live
  BY StateOK
<1>2. /\ Range(stack) \subseteq all /\ Constants \subseteq all
      /\ global # Nothing => global \in all
  BY DEF RootsOf
<1>3. Closed(live, mem.refs)
  BY <1>1, MemoryFields, ReachClosed
<1>4. \A o \in Object : Content(mem, o) = mem.refs[o]
  BY <1>1, KidsAreRefs
<1> HIDE DEF live
\* An object that is reachable is pushed.
<1>p. ASSUME NEW o \in live, Push(stack, o), UNCHANGED <<mem, global, automatic>>
      PROVE  IndInv'
  <2>1. stack' = Append(stack, o) /\ Len(stack) < MaxStack /\ o \in Object
    BY <1>1, <1>p DEF Push
  <2>2. stack' \in Seq(Object) /\ Len(stack') <= MaxStack
    BY <1>1, <2>1
  <2>3. RootsOf(stack', global') \subseteq live
    <3>1. RootsOf(stack', global) = all \cup {o}
      BY <1>1, <2>1, RootsFacts
    <3> QED
      BY <1>1, <1>p, <3>1
  <2> QED
    BY <1>1, <1>p, <2>2, <2>3, MovesKeep DEF live
<1>5. ASSUME NEW o \in Constants, Constant(o) PROVE IndInv'
  BY <1>1, <1>2, <1>5, <1>p DEF Constant
<1>6. CASE Load
  BY <1>1, <1>2, <1>6, <1>p DEF Load
<1>7. CASE Store
  <2>1. stack # <<>> /\ global' = Nth(1) /\ UNCHANGED <<mem, stack, automatic>>
    BY <1>7 DEF Store
  <2>2. Nth(1) \in Range(stack) /\ Range(stack) \subseteq Object
    BY <1>1, <2>1, StackFacts
  <2>3. RootsOf(stack', global') \subseteq live
    BY <1>1, <1>2, <2>1, <2>2 DEF RootsOf
  <2> QED
    BY <1>1, <2>1, <2>2, <2>3, MovesKeep DEF live
<1>8. CASE Pop
  <2>1. stack # <<>> /\ stack' = Below(1) /\ UNCHANGED <<mem, global, automatic>>
    BY <1>8 DEF Pop
  <2>2. Below(1) \in Seq(Object) /\ Len(Below(1)) <= MaxStack
        /\ Range(Below(1)) \subseteq Range(stack)
    BY <1>1, <2>1, StackFacts
  <2>3. RootsOf(stack', global') \subseteq live
    BY <1>1, <2>1, <2>2 DEF RootsOf
  <2> QED
    BY <1>1, <2>1, <2>2, <2>3, MovesKeep DEF live
<1>9. CASE Set
  <2>1. On(2, "List") /\ stack' = Below(1) /\ UNCHANGED <<global, automatic>>
    BY <1>9 DEF Set
  <2>2. Len(stack) >= 2 /\ Kind[Nth(2)] = "List"
    BY <2>1 DEF On
  <2>3. /\ Nth(1) \in Range(stack) /\ Nth(2) \in Range(stack)
        /\ Below(1) \in Seq(Object) /\ Len(Below(1)) <= MaxStack
        /\ Range(Below(1)) \subseteq Range(stack)
    BY <1>1, <2>2, StackFacts
  <2>4. Nth(1) \in live /\ Nth(2) \in live /\ Nth(2) \in Object
    BY <1>1, <1>2, <2>3
  <2>5. Content(mem, Nth(2)) = mem.refs[Nth(2)] /\ mem.payload[Nth(2)] = Nth(2)
    BY <1>1, <1>4, <2>4 DEF HeapOK
  <2>6. Content(mem, Nth(2)) \subseteq live
    BY <1>3, <2>4, <2>5 DEF Closed
  <2>7. PICK over \in AtMostOne(Content(mem, Nth(2))) :
          mem' = [mem EXCEPT !.refs[mem.payload[Nth(2)]]
                               = (Content(mem, Nth(2)) \ over) \cup {Nth(1)}]
    BY <1>9 DEF Set
  <2> DEFINE o == Nth(2)
             content == (Content(mem, Nth(2)) \ over) \cup {Nth(1)}
             m == mem
             n == mem'
             less == RootsOf(stack', global')
  <2>8. n = [m EXCEPT !.refs[o] = content]
    BY <2>5, <2>7
  <2>9. content \in SUBSET live /\ o \in Object /\ Kind[o] \in Containers
        /\ HeapOK(m, all) /\ live = Reach(all, m.refs) /\ all \in SUBSET Object
    BY <1>1, <2>2, <2>4, <2>6 DEF Containers, live
  <2>10. less \subseteq all
    BY <2>1, <2>3 DEF RootsOf
  <2> HIDE DEF o, content, m, n, all, less
  <2>11. HeapOK(n, all)
    BY ONLY <2>8, <2>9, ReplacedContent
  <2>12. less \in SUBSET Reach(all, n.refs)
    <3>1. n.refs \in [Object -> SUBSET Object]
      BY <2>11, MemoryFields DEF HeapOK
    <3> QED
      BY <2>9, <2>10, <3>1, ReachClosed
  <2>13. HeapOK(n, less)
    BY ONLY <2>9, <2>11, <2>12, FewerRoots
  <2>14. n = mem' /\ less = RootsOf(stack', global')
    BY DEF n, less
  <2> QED
    BY <1>1, <2>1, <2>3, <2>13, <2>14, NextStateOK
<1>10. CASE Index
  <2>1. On(1, "List") /\ UNCHANGED <<mem, global, automatic>>
    BY <1>10 DEF Index
  <2>2. PICK o \in Content(mem, Nth(1)) : stack' = Append(Below(1), o)
    BY <1>10 DEF Index
  <2>3. Len(stack) >= 1
    BY <2>1 DEF On
  <2>4. /\ Nth(1) \in Range(stack)
        /\ Below(1) \in Seq(Object) /\ Len(Below(1)) = Len(stack) - 1
        /\ Range(Below(1)) \subseteq Range(stack)
    BY <1>1, <2>3, StackFacts
  <2>5. Nth(1) \in live /\ Nth(1) \in Object
    BY <1>1, <1>2, <2>4
  <2>6. o \in live /\ o \in Object
    BY <1>1, <1>3, <1>4, <2>2, <2>5 DEF Closed
  <2>7. stack' \in Seq(Object) /\ Len(stack') <= MaxStack
    BY <1>1, <2>2, <2>4, <2>6
  <2>8. RootsOf(stack', global') \subseteq live
    <3>1. RootsOf(stack', global) = RootsOf(Below(1), global) \cup {o}
      BY <1>1, <2>2, <2>4, <2>6, RootsFacts
    <3>2. RootsOf(Below(1), global) \subseteq all
      BY <2>4 DEF RootsOf
    <3> QED
      BY <1>1, <2>1, <2>6, <3>1, <3>2
  <2> QED
    BY <1>1, <2>1, <2>7, <2>8, MovesKeep DEF live
<1>11. CASE Concat
  <2>1. /\ Unused("String") # {} /\ Len(stack) >= 2
        /\ Allocate(NextUnused("String"), {}, Below(2), Below(2))
    BY <1>11 DEF Concat, On
  <2> DEFINE o == NextUnused("String")
  <2>2. o \in Object /\ o \notin mem.used
    BY <2>1, NextUnusedFacts
  <2>3. Below(2) \in Seq(Object) /\ Range(Below(2)) \subseteq Range(stack)
    BY <1>1, <2>1, StackFacts
  <2>4. /\ mem' \in AddObject(New(o, {}), o, Roots(Below(2)))
        /\ Push(Below(2), o) /\ UNCHANGED <<global, automatic>>
    BY <2>1 DEF Allocate
  <2> HIDE DEF o
  <2> QED
    BY <2>2, <2>3, <2>4, AllocationKeeps
<1>12. CASE Stringify
  <2> DEFINE o == NextUnused("String")
             m == New(o, {})
             n == mem'
             less == RootsOf(stack', global')
  <2>1. /\ Unused("String") # {} /\ stack # <<>> /\ n = m
        /\ Push(Below(1), o) /\ UNCHANGED <<global, automatic>>
    BY <1>12 DEF Stringify
  <2>2. o \in Object /\ o \notin mem.used /\ Kind[o] = "String"
    BY <2>1, NextUnusedFacts
  <2>3. Below(1) \in Seq(Object) /\ Range(Below(1)) \subseteq Range(stack)
    BY <1>1, <2>1, StackFacts
  <2>4. /\ stack' \in Seq(Object) /\ Len(stack') <= MaxStack
        /\ less = RootsOf(Below(1), global) \cup {o}
    <3>1. stack' = Append(Below(1), o) /\ Len(Below(1)) < MaxStack
      BY <2>1 DEF Push
    <3> HIDE DEF o
    <3>2. Len(Append(Below(1), o)) = Len(Below(1)) + 1 /\ Append(Below(1), o) \in Seq(Object)
      BY <2>2, <2>3
    <3>3. Len(Below(1)) \in Nat
      BY <2>3
    <3> QED
      BY <1>1, <2>1, <2>2, <2>3, <3>1, <3>2, <3>3, RootsFacts
  <2>5. RootsOf(Below(1), global) \subseteq all
    BY <2>3 DEF RootsOf
  <2>6. n = mem' /\ less = RootsOf(stack', global')
    OBVIOUS
  <2> HIDE DEF o, m, n, less, all
  <2>7. /\ HeapOK(m, all) /\ o \in m.used \ (m.freed \cup m.gone \cup m.marked)
    BY <1>1, <2>2, NewObject DEF m
  <2>8. HeapOK(m, all \cup {o})
    BY <1>1, <2>2, <2>7, UnregisteredString
  <2>9. less \in SUBSET Reach(all \cup {o}, m.refs) /\ all \cup {o} \in SUBSET Object
    <3>1. all \cup {o} \in SUBSET Object /\ m.refs \in [Object -> SUBSET Object]
      BY <1>1, <2>2, <2>8, MemoryFields DEF HeapOK
    <3> QED
      BY <2>4, <2>5, <3>1, ReachClosed
  <2>10. HeapOK(m, less)
    BY ONLY <2>8, <2>9, FewerRoots
  <2> QED
    BY <1>1, <2>1, <2>4, <2>6, <2>10, NextStateOK
<1>13. ASSUME NEW k \in 0 .. MaxElements, Variadic(k) PROVE IndInv'
  <2> DEFINE o == NextUnused("List")
  <2>1. /\ Unused("List") # {} /\ k <= Len(stack) /\ k \in Nat
        /\ Allocate(o, Taken(k), stack, Below(k))
    BY <1>1, <1>13 DEF Variadic, VariadicSeen
  <2>2. o \in Object /\ o \notin mem.used /\ Kind[o] \in Containers
    BY <2>1, NextUnusedFacts DEF Containers
  <2>3. /\ Below(k) \in Seq(Object) /\ Range(Below(k)) \subseteq Range(stack)
        /\ Taken(k) \subseteq Range(stack) /\ Range(stack) \subseteq Object
    BY <1>1, <2>1, StackFacts
  <2>4. /\ mem' \in AddObject(New(o, Taken(k)), o, Roots(stack))
        /\ Push(Below(k), o) /\ UNCHANGED <<global, automatic>>
    BY <2>1 DEF Allocate
  <2>5. Taken(k) \subseteq Reach(RootsOf(stack, global), mem.refs)
    BY <1>1, <1>2, <2>3 DEF live
  <2> HIDE DEF o
  <2> QED
    BY <2>2, <2>3, <2>4, <2>5, AllocationKeeps
<1>14. CASE RangeList
  <2> DEFINE o == NextUnused("List")
  <2>1. /\ Unused("List") # {}
        /\ mem' \in AddObject(New(o, {}), o, Roots(Below(0)))
        /\ Push(Below(0), o) /\ UNCHANGED <<global, automatic>>
    BY <1>14 DEF RangeList, Returns
  <2>2. o \in Object /\ o \notin mem.used
    BY <2>1, NextUnusedFacts
  <2>3. Below(0) \in Seq(Object) /\ Range(Below(0)) \subseteq Range(stack)
    BY <1>1, StackFacts
  <2> HIDE DEF o
  <2> QED
    BY <2>1, <2>2, <2>3, AllocationKeeps
<1>15. CASE Gc
  <2> DEFINE m == mem
             n == mem'
  <2>1. n = Collected(m, all) /\ UNCHANGED <<stack, global, automatic>>
    BY <1>15 DEF Gc, Roots, RootsOf
  <2>2. HeapOK(m, all) /\ all \in SUBSET Object /\ n = mem'
        /\ all = RootsOf(stack', global')
    BY <1>1, <2>1
  <2> HIDE DEF m, n, all
  <2>3. HeapOK(n, all)
    BY ONLY <2>1, <2>2, CollectionKeeps
  <2> QED
    BY <1>1, <2>1, <2>2, <2>3, NextStateOK
<1> QED
  BY <1>5, <1>6, <1>7, <1>8, <1>9, <1>10, <1>11, <1>12, <1>13, <1>14, <1>15
     DEF RootedStatement

\* The other statements keep the rule as long as addObject does not collect.
LEMMA UnrootedKeeps ==
  ASSUME IndInv, ~automatic, UnrootedStatement
  PROVE  IndInv'
<1> DEFINE all == RootsOf(stack, global)
           live == Reach(all, mem.refs)
<1>1. /\ mem \in Memory /\ stack \in Seq(Object) /\ Len(stack) \in Nat
      /\ MaxElements \in Nat
      /\ all \in SUBSET Object /\ HeapOK(mem, all)
      /\ live \in SUBSET Object /\ all \subseteq live
  BY StateOK
<1>2. Range(stack) \subseteq all
  BY DEF RootsOf
\* What a reachable object holds is reachable.
<1>3. ASSUME NEW o \in Range(stack) PROVE Content(mem, o) \subseteq live
  <2>1. o \in live /\ o \in Object
    BY <1>1, <1>2, <1>3
  <2>2. Content(mem, o) = mem.refs[o]
    BY <1>1, <2>1, KidsAreRefs
  <2>3. Closed(live, mem.refs)
    BY <1>1, MemoryFields, ReachClosed
  <2> QED
    BY <2>1, <2>2, <2>3 DEF Closed
\* An object is allocated for values that are reachable, and takes the place
\* of k values on the stack.
<1>4. ASSUME NEW kind \in Containers, Unused(kind) # {}, NEW k \in Nat, k <= Len(stack),
             NEW content \in SUBSET live, NEW seen,
             mem' \in AddObject(New(NextUnused(kind), content), NextUnused(kind), Roots(seen)),
             Push(Below(k), NextUnused(kind)), UNCHANGED <<global, automatic>>
      PROVE  IndInv'
  <2> DEFINE o == NextUnused(kind)
  <2>1. o \in Object /\ o \notin mem.used /\ Kind[o] \in Containers
    BY <1>4, NextUnusedFacts
  <2>2. Below(k) \in Seq(Object) /\ Range(Below(k)) \subseteq Range(stack)
    BY <1>1, <1>4, StackFacts
  <2>3. content \in SUBSET Object /\ content \subseteq Reach(RootsOf(stack, global), mem.refs)
    BY <1>1, <1>4
  <2>4. /\ mem' \in AddObject(New(o, content), o, Roots(seen))
        /\ Push(Below(k), o) /\ UNCHANGED <<global, automatic>>
    BY <1>4
  <2> HIDE DEF o, live
  <2> QED
    BY <2>1, <2>2, <2>3, <2>4, AllocationKeeps
<1>5. ASSUME NEW k \in 0 .. MaxElements, Pack(k) PROVE IndInv'
  <2>1. /\ Unused("List") # {} /\ k <= Len(stack) /\ k \in Nat
        /\ Allocate(NextUnused("List"), Taken(k), Below(k), Below(k))
    BY <1>1, <1>5 DEF Pack
  <2>2. Taken(k) \in SUBSET live
    BY <1>1, <1>2, <2>1, StackFacts
  <2> QED
    BY <2>1, <2>2, <1>4 DEF Allocate, Containers
<1>6. ASSUME NEW kind \in {"Map", "Closure"}, NEW k \in 0 .. MaxElements, PushAndAdd(kind, k)
      PROVE  IndInv'
  <2>1. /\ Unused(kind) # {} /\ k <= Len(stack) /\ k \in Nat
        /\ Allocate(NextUnused(kind), Taken(k), Append(Below(k), NextUnused(kind)), Below(k))
    BY <1>1, <1>6 DEF PushAndAdd
  <2>2. Taken(k) \in SUBSET live
    BY <1>1, <1>2, <2>1, StackFacts
  <2> QED
    BY <2>1, <2>2, <1>4 DEF Allocate, Containers
<1>7. CASE ListAdd
  <2>1. /\ Unused("List") # {} /\ Len(stack) >= 2
        /\ Allocate(NextUnused("List"), Content(mem, Nth(1)) \cup Content(mem, Nth(2)),
                    Append(Below(2), NextUnused("List")), Below(2))
    BY <1>7 DEF ListAdd, On
  <2>2. Nth(1) \in Range(stack) /\ Nth(2) \in Range(stack)
    BY <1>1, <2>1, StackFacts
  <2>3. Content(mem, Nth(1)) \cup Content(mem, Nth(2)) \in SUBSET live
    BY <1>3, <2>2
  <2> QED
    BY <1>1, <2>1, <2>3, <1>4 DEF Allocate, Containers
<1>8. CASE Clone
  <2>1. /\ Unused("List") # {} /\ Len(stack) >= 1
        /\ Returns(New(NextUnused("List"), Content(mem, Nth(1))), NextUnused("List"), 1)
    BY <1>8 DEF Clone, On
  <2>2. Nth(1) \in Range(stack)
    BY <1>1, <2>1, StackFacts
  <2>3. Content(mem, Nth(1)) \in SUBSET live
    BY <1>3, <2>2
  <2> QED
    BY <1>1, <2>1, <2>3, <1>4 DEF Returns, Containers
<1> QED
  BY <1>5, <1>6, <1>7, <1>8 DEF UnrootedStatement
-----------------------------------------------------------------------------
(* The theorems.                                                           *)

\* IndInv is an invariant of the programs that keep the rule, for every heap,
\* every set of constants and all bounds.
THEOREM Invariance == SafeSpec => []IndInv
<1>1. Init => IndInv
  BY InitIndInv
<1>2. IndInv /\ [SafeNext]_vars => IndInv'
  <2> SUFFICES ASSUME IndInv, [SafeNext]_vars PROVE IndInv'
    OBVIOUS
  <2>1. CASE RootedStatement
    BY <2>1, RootedKeeps
  <2>2. CASE ~automatic /\ UnrootedStatement
    BY <2>2, UnrootedKeeps
  <2>3. CASE UNCHANGED vars
    BY <2>3 DEF vars, IndInv, TypeOK, HeapOK, Roots
  <2> QED
    BY <2>1, <2>2, <2>3 DEF SafeNext
<1> QED
  BY <1>1, <1>2, PTL DEF SafeSpec

\* The heap, the stack and the variable always have their types; no object is
\* entered in the heap vector more often than the bound.
THEOREM TypeCorrect == SafeSpec => []TypeOK
<1>1. IndInv => TypeOK
  BY DEF IndInv
<1> QED
  BY <1>1, Invariance, PTL

\* However a program strings these statements together, and wherever addObject
\* collects in the middle of one, no value it can get at has been freed.
THEOREM SafeProgramsKeepValues == SafeSpec => []NoDangling
<1>1. IndInv => NoDangling
  <2> SUFFICES ASSUME IndInv PROVE NoDangling
    OBVIOUS
  <2>1. HeapOK(mem, Roots(stack)) /\ mem \in Memory
    BY DEF IndInv, TypeOK
  <2>2. [o \in Object |-> Content(mem, o)] = mem.refs
    <3>1. \A o \in Object : Content(mem, o) = mem.refs[o]
      BY <2>1, KidsAreRefs
    <3> QED
      BY <2>1, <3>1, MemoryFields
  <2>3. Reachable = Reach(Roots(stack), mem.refs)
    BY <2>2 DEF Reachable
  <2>4. \A o \in Reachable : o \in Object
    BY DEF Reachable, Reach
  <2> QED
    BY <2>1, <2>3, <2>4 DEF NoDangling, Alive, HeapOK
<1> QED
  BY <1>1, Invariance, PTL

\* No statement leaves a registered object with its flag set, so that the next
\* mark() follows every object it gets to.
THEOREM MarksAreClean == SafeSpec => []CleanMarks
<1>1. IndInv => CleanMarks
  <2> SUFFICES ASSUME IndInv, NEW o \in Object, mem.entries[o] > 0, o \in mem.marked
               PROVE  FALSE
    BY DEF CleanMarks
  <2>1. mem.entries[o] = 0
    BY DEF IndInv, HeapOK
  <2> QED
    BY <2>1
<1> QED
  BY <1>1, Invariance, PTL
=============================================================================
