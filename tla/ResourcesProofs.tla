-------------------------- MODULE ResourcesProofs --------------------------
(***************************************************************************)
(* Blocks are released once, streams as often as the program asks for it,  *)
(* and the terminal is restored, for every number of objects, blocks and   *)
(* streams and every order of the builtins and of collections.             *)
(***************************************************************************)
EXTENDS Resources, SequenceTheorems, TLAPS

Blocks == BlocksHaveOneOwner /\ PointersKnown
Terminal == TerminalRestored /\ FirstSaved

LEMMA InitIndInv == Init => IndInv
<1> SUFFICES ASSUME Init PROVE IndInv
  OBVIOUS
<1>1. DOMAIN pointers = {} /\ DOMAIN files = {}
  BY DEF Init
<1>2. TypeOK
  <2>1. /\ heap \subseteq Allocated /\ held \subseteq Allocated
        /\ used \subseteq Resource /\ shared \subseteq Block
        /\ released \in [Resource -> Nat] /\ asked \in [Resource -> Nat]
    BY DEF Init
  <2>2. attr \in {"cooked", "raw"} /\ escaped \in BOOLEAN
    BY DEF Init
  <2>3. terms \in Seq({"cooked", "raw"})
    BY DEF Init
  <2> QED
    BY <1>1, <2>1, <2>2, <2>3 DEF TypeOK
<1>3. BlocksHaveOneOwner /\ PointersKnown
  BY <1>1 DEF Init, BlocksHaveOneOwner, PointersKnown, Resource
<1>4. ClosedAsAsked /\ TerminalRestored /\ FirstSaved
  BY DEF Init, ClosedAsAsked, TerminalRestored, FirstSaved, Resource
<1> QED
  BY <1>2, <1>3, <1>4 DEF IndInv

\* The three properties of memory depend on memory alone.
LEMMA MemoryStutters ==
  ASSUME IndInv, UNCHANGED memory
  PROVE  BlocksHaveOneOwner' /\ ClosedAsAsked' /\ PointersKnown'
BY DEF IndInv, memory, BlocksHaveOneOwner, ClosedAsAsked, PointersKnown

LEMMA TerminalStutters ==
  ASSUME IndInv, UNCHANGED terminal
  PROVE  Terminal'
BY DEF IndInv, terminal, Terminal, TerminalRestored, FirstSaved
-----------------------------------------------------------------------------
(* Blocks.                                                                 *)

LEMMA AllocKeeps ==
  ASSUME IndInv, Alloc
  PROVE  IndInv'
<1>1. PICK p \in Fresh, b \in Block \ used :
        /\ pointers' = With(pointers, p, b)
        /\ heap' = heap \cup {p} /\ held' = held \cup {p}
        /\ used' = used \cup {b}
        /\ UNCHANGED <<files, released, asked, shared, terminal>>
  BY DEF Alloc
<1>2. /\ DOMAIN pointers' = DOMAIN pointers \cup {p}
      /\ pointers'[p] = b
      /\ \A q \in DOMAIN pointers : pointers'[q] = pointers[q]
      /\ p \notin DOMAIN pointers /\ p \notin DOMAIN files /\ p \in Object
      /\ b \in Block /\ b \notin used /\ b \in Resource
  BY <1>1 DEF With, Fresh, Allocated, Resource
<1>3. TypeOK'
  BY <1>1, <1>2 DEF IndInv, TypeOK, Allocated, terminal
<1>4. BlocksHaveOneOwner'
  <2> SUFFICES ASSUME NEW c \in (used' \cap Block) \ shared'
               PROVE  LET owners == {q \in DOMAIN pointers' : pointers'[q] = c}
                      IN  \/ released'[c] = 1 /\ owners = {}
                          \/ released'[c] = 0 /\ \E q \in heap' : owners = {q}
    BY DEF BlocksHaveOneOwner
  <2>1. CASE c = b
    <3>1. {q \in DOMAIN pointers' : pointers'[q] = c} = {p}
      <4>1. \A q \in DOMAIN pointers : pointers[q] # b
        BY <1>2, ResourceAssumption DEF IndInv, TypeOK
      <4> QED
        BY <1>2, <2>1, <4>1
    <3>2. released'[c] = 0
      BY <1>1, <1>2, <2>1 DEF IndInv, PointersKnown
    <3> QED
      BY <3>1, <3>2, <1>1
  <2>2. CASE c # b
    <3>1. {q \in DOMAIN pointers' : pointers'[q] = c} = {q \in DOMAIN pointers : pointers[q] = c}
      BY <1>2, <2>2
    <3>2. c \in (used \cap Block) \ shared
      BY <1>1, <2>2
    <3> QED
      BY <3>1, <3>2, <1>1 DEF IndInv, BlocksHaveOneOwner
  <2> QED
    BY <2>1, <2>2
<1>5. PointersKnown'
  <2>1. \A q \in heap' \cap DOMAIN pointers' : pointers'[q] \in Block \cup {Nothing}
    BY <1>1, <1>2 DEF IndInv, PointersKnown
  <2>2. \A f \in DOMAIN files' : /\ files'[f] \notin heap'
                                 /\ pointers'[files'[f]] \in Stream \cup {Nothing}
    BY <1>1, <1>2 DEF IndInv, PointersKnown, TypeOK
  <2> QED
    BY <2>1, <2>2, <1>1 DEF IndInv, PointersKnown
<1>6. ClosedAsAsked'
  BY <1>1 DEF IndInv, ClosedAsAsked
<1> QED
  BY <1>1, <1>3, <1>4, <1>5, <1>6, TerminalStutters DEF IndInv, Terminal

\* A release counts for what is released and for nothing else.
LEMMA ReleaseCounts ==
  ASSUME TypeOK, NEW r \in Resource \cup {Nothing}, Release(r)
  PROVE  /\ released' \in [Resource -> Nat] /\ asked' \in [Resource -> Nat]
         /\ \A s \in Resource : /\ s # r => released'[s] = released[s] /\ asked'[s] = asked[s]
                                /\ s = r => /\ released'[s] = released[s] + 1
                                            /\ asked'[s] = asked[s] + 1
<1>1. released \in [Resource -> Nat] /\ asked \in [Resource -> Nat] /\ Nothing \notin Resource
  BY ResourceAssumption DEF TypeOK, Resource
<1>2. CASE r = Nothing
  BY <1>1, <1>2 DEF Release
<1>3. CASE r # Nothing
  <2>1. /\ r \in Resource
        /\ released' = [released EXCEPT ![r] = @ + 1]
        /\ asked' = [asked EXCEPT ![r] = @ + 1]
    BY <1>3 DEF Release
  <2> QED
    BY <1>1, <2>1
<1> QED
  BY <1>2, <1>3

LEMMA FreeKeeps ==
  ASSUME IndInv, Free
  PROVE  IndInv'
<1>1. PICK p \in held :
        /\ Pointer(p) /\ Release(pointers[p])
        /\ pointers' = [pointers EXCEPT ![p] = AfterFree(p)]
        /\ UNCHANGED <<files, heap, held, used, shared, terminal>>
  BY DEF Free
<1>2. /\ p \in DOMAIN pointers
      /\ DOMAIN pointers' = DOMAIN pointers
      /\ pointers'[p] = Nothing
      /\ \A q \in DOMAIN pointers : q # p => pointers'[q] = pointers[q]
      /\ pointers[p] \in Resource \cup {Nothing}
      /\ Nothing \notin Resource
  BY <1>1, ResourceAssumption DEF IndInv, TypeOK, Pointer, AfterFree, Resource
<1>3. /\ released' \in [Resource -> Nat] /\ asked' \in [Resource -> Nat]
      /\ \A s \in Resource :
           /\ s # pointers[p] => released'[s] = released[s] /\ asked'[s] = asked[s]
           /\ s = pointers[p] => released'[s] = released[s] + 1 /\ asked'[s] = asked[s] + 1
  BY <1>1, <1>2, ReleaseCounts DEF IndInv
<1>4. TypeOK'
  BY <1>1, <1>2, <1>3 DEF IndInv, TypeOK, Allocated, terminal
<1>5. BlocksHaveOneOwner'
  <2> SUFFICES ASSUME NEW c \in (used' \cap Block) \ shared'
               PROVE  LET owners == {q \in DOMAIN pointers' : pointers'[q] = c}
                      IN  \/ released'[c] = 1 /\ owners = {}
                          \/ released'[c] = 0 /\ \E q \in heap' : owners = {q}
    BY DEF BlocksHaveOneOwner
  <2> DEFINE owners == {q \in DOMAIN pointers : pointers[q] = c}
  <2>1. /\ c \in Resource
        /\ \/ released[c] = 1 /\ owners = {}
           \/ released[c] = 0 /\ \E q \in heap : owners = {q}
    BY <1>1 DEF IndInv, BlocksHaveOneOwner, Resource
  <2>2. CASE c = pointers[p]
    <3>1. owners = {p} /\ released[c] = 0
      BY <1>2, <2>1, <2>2
    <3>2. {q \in DOMAIN pointers' : pointers'[q] = c} = {}
      BY <1>2, <3>1, <2>1
    <3> QED
      BY <1>3, <2>1, <2>2, <3>1, <3>2
  <2>3. CASE c # pointers[p]
    <3>1. {q \in DOMAIN pointers' : pointers'[q] = c} = owners
      BY <1>2, <2>1, <2>3
    <3> QED
      BY <1>1, <1>3, <2>1, <2>3, <3>1
  <2> QED
    BY <2>2, <2>3
<1>6. PointersKnown'
  <2>1. \A q \in heap' \cap DOMAIN pointers' : pointers'[q] \in Block \cup {Nothing}
    BY <1>1, <1>2 DEF IndInv, PointersKnown
  <2>2. \A r \in Resource \ used' : released'[r] = 0 /\ r \notin shared'
    <3> SUFFICES ASSUME NEW r \in Resource \ used PROVE released'[r] = 0 /\ r \notin shared
      BY <1>1
    <3>1. r # pointers[p]
      BY <1>2 DEF IndInv, TypeOK
    <3> QED
      BY <3>1, <1>3 DEF IndInv, PointersKnown
  <2>3. \A f \in DOMAIN files : pointers'[files[f]] \in Stream \cup {Nothing}
    BY <1>2 DEF IndInv, PointersKnown, TypeOK
  <2> QED
    BY <2>1, <2>2, <2>3, <1>1 DEF IndInv, PointersKnown
<1>7. ClosedAsAsked'
  BY <1>3 DEF IndInv, ClosedAsAsked, Resource, TypeOK
<1> QED
  BY <1>1, <1>4, <1>5, <1>6, <1>7, TerminalStutters DEF IndInv, Terminal

LEMMA NativeReturnsKeeps ==
  ASSUME IndInv, NativeReturns
  PROVE  IndInv'
<1>1. PICK p \in held, q \in Fresh :
        /\ Pointer(p) /\ pointers[p] \in Block
        /\ pointers' = With(pointers, q, pointers[p])
        /\ held' = held \cup {q} /\ shared' = shared \cup {pointers[p]}
        /\ UNCHANGED <<files, heap, used, released, asked, terminal>>
  BY DEF NativeReturns
<1>2. /\ p \in DOMAIN pointers
      /\ pointers[p] \in used /\ pointers[p] \in Block
      /\ q \in Object /\ q \notin DOMAIN pointers /\ q \notin DOMAIN files /\ q \notin heap
      /\ DOMAIN pointers' = DOMAIN pointers \cup {q}
      /\ pointers'[q] = pointers[p]
      /\ \A o \in DOMAIN pointers : pointers'[o] = pointers[o]
  BY <1>1, ResourceAssumption DEF IndInv, TypeOK, Pointer, With, Fresh, Allocated
<1>3. TypeOK'
  BY <1>1, <1>2 DEF IndInv, TypeOK, Allocated, terminal
<1>4. BlocksHaveOneOwner'
  <2> SUFFICES ASSUME NEW c \in (used' \cap Block) \ shared'
               PROVE  LET owners == {o \in DOMAIN pointers' : pointers'[o] = c}
                      IN  \/ released'[c] = 1 /\ owners = {}
                          \/ released'[c] = 0 /\ \E o \in heap' : owners = {o}
    BY DEF BlocksHaveOneOwner
  <2>1. c # pointers[p] /\ c \in (used \cap Block) \ shared
    BY <1>1
  <2>2. {o \in DOMAIN pointers' : pointers'[o] = c} = {o \in DOMAIN pointers : pointers[o] = c}
    BY <1>2, <2>1
  <2> QED
    BY <1>1, <2>1, <2>2 DEF IndInv, BlocksHaveOneOwner
<1>5. PointersKnown'
  <2>1. \A o \in heap' \cap DOMAIN pointers' : pointers'[o] \in Block \cup {Nothing}
    BY <1>1, <1>2 DEF IndInv, PointersKnown
  <2>2. \A f \in DOMAIN files : pointers'[files[f]] \in Stream \cup {Nothing}
    BY <1>2 DEF IndInv, PointersKnown, TypeOK
  <2> QED
    BY <2>1, <2>2, <1>1, <1>2 DEF IndInv, PointersKnown
<1>6. ClosedAsAsked'
  BY <1>1 DEF IndInv, ClosedAsAsked
<1> QED
  BY <1>1, <1>3, <1>4, <1>5, <1>6, TerminalStutters DEF IndInv, Terminal
-----------------------------------------------------------------------------
(* Streams.                                                                *)

LEMMA NewFileKeeps ==
  ASSUME IndInv, NEW s \in Stream, NewFile(s)
  PROVE  IndInv'
<1>1. PICK f \in Fresh, p \in Fresh :
        /\ f # p
        /\ pointers' = With(pointers, p, s) /\ files' = With(files, f, p)
        /\ heap' = heap \cup Registered(f, p) /\ held' = held \cup {f}
        /\ used' = used \cup {s}
        /\ UNCHANGED <<released, asked, shared, terminal>>
  BY DEF NewFile
<1>2. /\ {f, p} \subseteq Object
      /\ {f, p} \cap (DOMAIN pointers \cup DOMAIN files) = {} /\ {f, p} \cap heap = {}
      /\ DOMAIN pointers' = DOMAIN pointers \cup {p}
      /\ pointers'[p] = s
      /\ \A o \in DOMAIN pointers : pointers'[o] = pointers[o]
      /\ DOMAIN files' = DOMAIN files \cup {f}
      /\ files'[f] = p
      /\ \A o \in DOMAIN files : files'[o] = files[o]
      /\ heap' = heap \cup {f}
      /\ s \in Resource /\ s \notin Block
  BY <1>1, ResourceAssumption DEF IndInv, TypeOK, With, Fresh, Allocated, Registered, Resource
<1>3. TypeOK'
  BY <1>1, <1>2 DEF IndInv, TypeOK, Allocated, terminal
<1>4. BlocksHaveOneOwner'
  <2> SUFFICES ASSUME NEW c \in (used' \cap Block) \ shared'
               PROVE  LET owners == {o \in DOMAIN pointers' : pointers'[o] = c}
                      IN  \/ released'[c] = 1 /\ owners = {}
                          \/ released'[c] = 0 /\ \E o \in heap' : owners = {o}
    BY DEF BlocksHaveOneOwner
  <2>1. c # s /\ c \in (used \cap Block) \ shared
    BY <1>1, <1>2
  <2>2. {o \in DOMAIN pointers' : pointers'[o] = c} = {o \in DOMAIN pointers : pointers[o] = c}
    BY <1>2, <2>1
  <2> QED
    BY <1>1, <1>2, <2>1, <2>2 DEF IndInv, BlocksHaveOneOwner
<1>5. PointersKnown'
  <2>1. \A o \in heap' \cap DOMAIN pointers' : pointers'[o] \in Block \cup {Nothing}
    BY <1>1, <1>2 DEF IndInv, PointersKnown
  <2>2. \A g \in DOMAIN files' : /\ files'[g] \notin heap'
                                 /\ pointers'[files'[g]] \in Stream \cup {Nothing}
    <3> SUFFICES ASSUME NEW g \in DOMAIN files'
                 PROVE  files'[g] \notin heap \cup {f} /\ pointers'[files'[g]] \in Stream \cup {Nothing}
      BY <1>2
    <3>1. CASE g = f
      BY <1>1, <1>2, <3>1
    <3>2. CASE g # f
      BY <1>2, <3>2 DEF IndInv, PointersKnown, TypeOK
    <3> QED
      BY <3>1, <3>2
  <2> QED
    BY <2>1, <2>2, <1>1 DEF IndInv, PointersKnown
<1>6. ClosedAsAsked'
  BY <1>1 DEF IndInv, ClosedAsAsked
<1> QED
  BY <1>1, <1>3, <1>4, <1>5, <1>6, TerminalStutters DEF IndInv, Terminal

LEMMA ElementKeeps ==
  ASSUME IndInv, Element
  PROVE  IndInv'
<1>1. PICK f \in held : File(f) /\ held' = held \cup {files[f]}
  BY DEF Element
<1>2. UNCHANGED <<pointers, files, heap, used, released, asked, shared, terminal>>
  BY DEF Element
<1>3. TypeOK'
  BY <1>1, <1>2 DEF IndInv, TypeOK, Allocated, File, terminal
<1>4. BlocksHaveOneOwner' /\ PointersKnown' /\ ClosedAsAsked'
  BY <1>2 DEF IndInv, BlocksHaveOneOwner, PointersKnown, ClosedAsAsked
<1> QED
  BY <1>2, <1>3, <1>4, TerminalStutters DEF IndInv, Terminal

LEMMA CloseKeeps ==
  ASSUME IndInv, Close
  PROVE  IndInv'
<1>1. PICK f \in held : File(f) /\ Release(pointers[files[f]])
  BY DEF Close
<1>2. UNCHANGED <<pointers, files, heap, held, used, shared, terminal>>
  BY DEF Close
<1> DEFINE s == pointers[files[f]]
<1>3. s \in used \cup {Nothing} /\ s \in Resource \cup {Nothing}
  BY <1>1 DEF IndInv, TypeOK, File
<1>4. s \notin Block
  BY <1>1, ResourceAssumption DEF IndInv, PointersKnown, File
<1>5. /\ released' \in [Resource -> Nat] /\ asked' \in [Resource -> Nat]
      /\ \A r \in Resource :
           /\ r # s => released'[r] = released[r] /\ asked'[r] = asked[r]
           /\ r = s => released'[r] = released[r] + 1 /\ asked'[r] = asked[r] + 1
  BY <1>1, <1>3, ReleaseCounts DEF IndInv
<1> HIDE DEF s
<1>6. TypeOK'
  BY <1>2, <1>5 DEF IndInv, TypeOK, Allocated, terminal
<1>7. BlocksHaveOneOwner'
  <2>1. \A c \in Block : released'[c] = released[c]
    BY <1>4, <1>5 DEF Resource
  <2> QED
    BY <1>2, <2>1 DEF IndInv, BlocksHaveOneOwner
<1>8. PointersKnown'
  <2>1. \A r \in Resource \ used : released'[r] = released[r]
    BY <1>3, <1>5, ResourceAssumption DEF IndInv, TypeOK, Resource
  <2> QED
    BY <1>2, <2>1 DEF IndInv, PointersKnown
<1>9. ClosedAsAsked'
  BY <1>5 DEF IndInv, ClosedAsAsked, Resource
<1> QED
  BY <1>2, <1>6, <1>7, <1>8, <1>9, TerminalStutters DEF IndInv, Terminal
-----------------------------------------------------------------------------
(* The collector and the terminal.                                         *)

LEMMA DropKeeps ==
  ASSUME IndInv, Drop
  PROVE  IndInv'
<1>1. held' \subseteq held
  BY DEF Drop
<1>2. UNCHANGED <<pointers, files, heap, used, released, asked, shared, terminal>>
  BY DEF Drop
<1>3. TypeOK'
  BY <1>1, <1>2 DEF IndInv, TypeOK, Allocated, terminal
<1>4. BlocksHaveOneOwner' /\ PointersKnown' /\ ClosedAsAsked'
  BY <1>2 DEF IndInv, BlocksHaveOneOwner, PointersKnown, ClosedAsAsked
<1> QED
  BY <1>2, <1>3, <1>4, TerminalStutters DEF IndInv, Terminal

LEMMA CollectKeeps ==
  ASSUME IndInv, Collect
  PROVE  IndInv'
<1>1. /\ released' = [r \in Resource |-> IF Freed(r) THEN released[r] + 1 ELSE released[r]]
      /\ pointers' = [p \in DOMAIN pointers \ Swept |-> pointers[p]]
      /\ files' = [f \in DOMAIN files \ Swept |-> files[f]]
      /\ heap' = heap \ Swept
      /\ UNCHANGED <<held, used, asked, shared, terminal>>
  BY DEF Collect
<1>2. /\ DOMAIN pointers' = DOMAIN pointers \ Swept
      /\ DOMAIN files' = DOMAIN files \ Swept
      /\ \A p \in DOMAIN pointers' : pointers'[p] = pointers[p]
      /\ \A f \in DOMAIN files' : files'[f] = files[f]
  BY <1>1
<1>3. /\ held \cap Swept = {}
      /\ \A f \in DOMAIN files : files[f] \notin Swept
      /\ Swept \subseteq heap
  BY DEF Swept, Reached, IndInv, PointersKnown
<1>4. TypeOK'
  <2>1. released' \in [Resource -> Nat]
    BY <1>1 DEF IndInv, TypeOK
  <2>2. heap' \subseteq Allocated' /\ held' \subseteq Allocated'
    BY <1>1, <1>2, <1>3 DEF IndInv, TypeOK, Allocated
  <2>3. /\ \A p \in DOMAIN pointers' : pointers'[p] \in used' \cup {Nothing}
        /\ \A f \in DOMAIN files' : files'[f] \in DOMAIN pointers'
        /\ DOMAIN pointers' \subseteq Object /\ DOMAIN files' \subseteq Object
        /\ DOMAIN pointers' \cap DOMAIN files' = {}
    BY <1>1, <1>2, <1>3 DEF IndInv, TypeOK
  <2> QED
    BY <1>1, <2>1, <2>2, <2>3 DEF IndInv, TypeOK, terminal
<1>5. BlocksHaveOneOwner'
  <2> SUFFICES ASSUME NEW c \in (used' \cap Block) \ shared'
               PROVE  LET owners == {o \in DOMAIN pointers' : pointers'[o] = c}
                      IN  \/ released'[c] = 1 /\ owners = {}
                          \/ released'[c] = 0 /\ \E o \in heap' : owners = {o}
    BY DEF BlocksHaveOneOwner
  <2> DEFINE owners == {o \in DOMAIN pointers : pointers[o] = c}
             left == {o \in DOMAIN pointers' : pointers'[o] = c}
  <2>1. /\ c \in Resource
        /\ \/ released[c] = 1 /\ owners = {}
           \/ released[c] = 0 /\ \E q \in heap : owners = {q}
    BY <1>1 DEF IndInv, BlocksHaveOneOwner, Resource
  <2>2. left = owners \ Swept
    BY <1>2
  <2>3. Freed(c) <=> owners \cap Swept # {}
    BY DEF Freed
  <2>4. released'[c] = IF Freed(c) THEN released[c] + 1 ELSE released[c]
    BY <1>1, <2>1
  <2>5. CASE owners = {}
    BY <2>1, <2>2, <2>3, <2>4, <2>5
  <2>6. CASE released[c] = 0 /\ \E q \in heap : owners = {q}
    <3>1. PICK q \in heap : owners = {q}
      BY <2>6
    <3>2. CASE q \in Swept
      BY <2>2, <2>3, <2>4, <2>6, <3>1, <3>2
    <3>3. CASE q \notin Swept
      <4>1. q \in heap' /\ left = {q} /\ ~Freed(c)
        BY <1>1, <2>2, <2>3, <3>1, <3>3
      <4> QED
        BY <2>4, <2>6, <4>1
    <3> QED
      BY <3>2, <3>3
  <2> QED
    BY <2>1, <2>5, <2>6
<1>6. \A r \in Resource : r \in Stream \/ r \notin used => released'[r] = released[r]
  <2> SUFFICES ASSUME NEW r \in Resource, r \in Stream \/ r \notin used
               PROVE  ~Freed(r)
    BY <1>1
  <2> SUFFICES ASSUME NEW p \in Swept \cap DOMAIN pointers, pointers[p] = r PROVE FALSE
    BY DEF Freed
  <2>1. r \in Block \cup {Nothing} /\ r \in used \cup {Nothing}
    BY <1>3 DEF IndInv, PointersKnown, TypeOK
  <2> QED
    BY <2>1, ResourceAssumption DEF Resource
<1>7. PointersKnown'
  <2>1. \A f \in DOMAIN files' : files'[f] \notin heap' /\ pointers'[files'[f]] \in Stream \cup {Nothing}
    BY <1>1, <1>2, <1>4 DEF IndInv, PointersKnown, TypeOK
  <2>2. \A r \in Resource \ used' : released'[r] = 0 /\ r \notin shared'
    BY <1>1, <1>6 DEF IndInv, PointersKnown
  <2>3. \A p \in heap' \cap DOMAIN pointers' : pointers'[p] \in Block \cup {Nothing}
    BY <1>1, <1>2 DEF IndInv, PointersKnown
  <2> QED
    BY <2>1, <2>2, <2>3 DEF PointersKnown
<1>8. ClosedAsAsked'
  BY <1>1, <1>6 DEF IndInv, ClosedAsAsked, Resource
<1> QED
  BY <1>1, <1>4, <1>5, <1>7, <1>8, TerminalStutters DEF IndInv, Terminal

\* Arithmetic for the next lemma.
LEMMA Predecessor ==
  ASSUME NEW n \in Nat \ {0}, n # 1
  PROVE  1 <= n - 1 /\ (n - 1) - 1 + 1 = n - 1
OBVIOUS

\* What is left of a sequence without its last element.
LEMMA FrontFacts ==
  ASSUME NEW S, NEW s \in Seq(S), s # <<>>
  PROVE  /\ SubSeq(s, 1, Len(s) - 1) \in Seq(S)
         /\ SubSeq(s, 1, Len(s) - 1) = <<>> <=> Len(s) = 1
         /\ SubSeq(s, 1, Len(s) - 1) # <<>> => SubSeq(s, 1, Len(s) - 1)[1] = s[1]
<1>1. Len(s) \in Nat \ {0} /\ Len(s) - 1 \in Int /\ 1 \in Int
  OBVIOUS
<1>2. \A i \in 1 .. Len(s) - 1 : s[i] \in S
  OBVIOUS
<1> DEFINE t == SubSeq(s, 1, Len(s) - 1)
<1>3. /\ t \in Seq(S)
      /\ Len(t) = (IF 1 <= Len(s) - 1 THEN (Len(s) - 1) - 1 + 1 ELSE 0)
      /\ \A i \in 1 .. (Len(s) - 1) - 1 + 1 : t[i] = s[1 + i - 1]
  BY ONLY <1>1, <1>2, SubSeqProperties
<1> HIDE DEF t
<1>4. CASE Len(s) = 1
  <2>1. Len(t) = 0
    BY <1>3, <1>4
  <2> QED
    BY <1>3, <1>4, <2>1 DEF t
<1>5. CASE Len(s) # 1
  <2>1. 1 <= Len(s) - 1 /\ (Len(s) - 1) - 1 + 1 = Len(s) - 1
    BY <1>1, <1>5, Predecessor
  <2>2. Len(t) = Len(s) - 1 /\ t[1] = s[1]
    BY <1>1, <1>3, <2>1
  <2>3. t # <<>>
    BY <1>1, <1>3, <2>1, <2>2
  <2> QED
    BY ONLY <1>3, <1>5, <2>2, <2>3 DEF t
<1> QED
  BY <1>4, <1>5

\* The steps of term() leave memory alone.
LEMMA TerminalKeeps ==
  ASSUME IndInv, BeginTerm \/ EndTerm \/ Throw
  PROVE  IndInv'
<1>1. UNCHANGED memory
  BY DEF BeginTerm, EndTerm, Throw
<1>2. attr \in {"cooked", "raw"} /\ terms \in Seq({"cooked", "raw"}) /\ escaped \in BOOLEAN
  BY DEF IndInv, TypeOK
<1>3. TerminalRestored /\ FirstSaved
  BY DEF IndInv
<1>4. CASE BeginTerm
  <2>1. terms' = Append(terms, attr) /\ attr' = "raw" /\ escaped' = escaped
    BY <1>4 DEF BeginTerm
  <2>2. /\ terms' \in Seq({"cooked", "raw"}) /\ terms' # <<>>
        /\ terms'[1] = IF terms = <<>> THEN attr ELSE terms[1]
    BY <1>2, <2>1
  <2>3. TypeOK' /\ Terminal'
    BY <1>1, <1>2, <1>3, <2>1, <2>2
    DEF IndInv, TypeOK, Allocated, memory, Terminal, TerminalRestored, FirstSaved
  <2> QED
    BY <1>1, <2>3, MemoryStutters DEF IndInv, Terminal
<1>5. CASE EndTerm \/ Throw
  <2>1. terms # <<>> /\ terms' = SubSeq(terms, 1, Len(terms) - 1)
    BY <1>5 DEF EndTerm, Throw, Outer
  <2>2. Len(terms) \in Nat \ {0} /\ terms[Len(terms)] \in {"cooked", "raw"}
    BY <1>2, <2>1
  <2>3. /\ terms' \in Seq({"cooked", "raw"})
        /\ terms' = <<>> <=> Len(terms) = 1
        /\ terms' # <<>> => terms'[1] = terms[1]
    BY <1>2, <2>1, FrontFacts
  <2>4. CASE EndTerm
    <3>1. attr' = terms[Len(terms)] /\ escaped' = escaped
      BY <2>4 DEF EndTerm, Restored
    <3>2. Terminal'
      BY <1>3, <2>1, <2>3, <3>1 DEF Terminal, TerminalRestored, FirstSaved
    <3>3. TypeOK'
      BY <1>1, <1>2, <2>2, <2>3, <3>1 DEF IndInv, TypeOK, Allocated, memory
    <3> QED
      BY <1>1, <3>2, <3>3, MemoryStutters DEF IndInv, Terminal
  <2>5. CASE Throw
    <3>1. attr' = attr /\ escaped' = (escaped \/ Len(terms) = 1)
      BY <2>5 DEF Throw
    <3>2. Terminal'
      BY <1>3, <2>1, <2>3, <3>1 DEF Terminal, TerminalRestored, FirstSaved
    <3>3. TypeOK'
      BY <1>1, <1>2, <2>3, <3>1 DEF IndInv, TypeOK, Allocated, memory
    <3> QED
      BY <1>1, <3>2, <3>3, MemoryStutters DEF IndInv, Terminal
  <2> QED
    BY <1>5, <2>4, <2>5
<1> QED
  BY <1>4, <1>5
-----------------------------------------------------------------------------
LEMMA NextIndInv == IndInv /\ [Next]_vars => IndInv'
<1> SUFFICES ASSUME IndInv, [Next]_vars PROVE IndInv'
  OBVIOUS
<1>1. CASE Alloc \/ Clone
  BY <1>1, AllocKeeps DEF Clone
<1>2. CASE Open \/ OpenPointer
  BY <1>2, NewFileKeeps DEF Open, OpenPointer
<1>3. CASE UNCHANGED vars
  <2>1. UNCHANGED memory /\ UNCHANGED terminal
    BY <1>3 DEF vars
  <2>2. TypeOK'
    BY <2>1 DEF IndInv, TypeOK, Allocated, memory, terminal
  <2> QED
    BY <2>1, <2>2, MemoryStutters, TerminalStutters DEF IndInv, Terminal
<1> QED
  BY <1>1, <1>2, <1>3, FreeKeeps, NativeReturnsKeeps, ElementKeeps, CloseKeeps, DropKeeps,
     CollectKeeps, TerminalKeeps DEF Next

\* The inductive invariant of the builtins and the collector.
THEOREM Invariance == Spec => []IndInv
BY InitIndInv, NextIndInv, PTL DEF Spec

\* Objects, blocks, streams and saved attributes are of their kind.
THEOREM TypeCorrect == Spec => []TypeOK
<1>1. IndInv => TypeOK
  BY DEF IndInv
<1> QED
  BY Invariance, <1>1, PTL

\* alloc, clone, free and the sweep release a block once, and lose none.
THEOREM BlocksAreOwned == Spec => []BlocksHaveOneOwner
<1>1. IndInv => BlocksHaveOneOwner
  BY DEF IndInv
<1> QED
  BY Invariance, <1>1, PTL

\* The collector closes no stream: Close and free alone do.
THEOREM StreamsAreClosedAsAsked == Spec => []ClosedAsAsked
<1>1. IndInv => ClosedAsAsked
  BY DEF IndInv
<1> QED
  BY Invariance, <1>1, PTL

\* term() restores the terminal, however deep its calls are nested.
THEOREM TerminalIsRestored == Spec => []TerminalRestored
<1>1. IndInv => TerminalRestored
  BY DEF IndInv
<1> QED
  BY Invariance, <1>1, PTL
=============================================================================
