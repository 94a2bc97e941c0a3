----------------------------- MODULE Resources -----------------------------
(***************************************************************************)
(* What builtins hold outside of the heap: blocks of memory (alloc, free,  *)
(* clone), streams (open and the functions of a file) and the attributes   *)
(* of the terminal (term).                                                 *)
(*                                                                         *)
(* A pointer is a heap object; it refers to a block or a stream and has a  *)
(* function that releases it.  A file is a map whose element __ptr__ is a  *)
(* pointer to its stream.  The collector knows an object if it has been    *)
(* registered, which happens to what a builtin returns, hence to a file    *)
(* but not to its pointer, nor to the pointers native functions return.    *)
(*                                                                         *)
(* Which objects the program reaches is up to it.  It keeps to two rules:  *)
(* it does not read or write through a pointer it has freed, and it makes  *)
(* files of pointers to streams only.                                      *)
(*                                                                         *)
(* A definition whose comment begins with "Fault:" is a wrong variant of   *)
(* the next one, used to see that the properties notice the fault.         *)
(***************************************************************************)
EXTENDS Integers, Sequences, FiniteSets

CONSTANTS
  Object,    \* addresses of heap objects
  Block,     \* blocks of memory
  Stream,    \* streams of the C library
  Nothing,   \* the null pointer
  MaxTerms,  \* bound on the nesting of term()
  MaxAsked   \* bound on the calls of Close or free for one stream

ASSUME ResourceAssumption ==
  /\ Block \cap Stream = {}
  /\ Nothing \notin Block \cup Stream
  /\ MaxTerms \in Nat /\ MaxAsked \in Nat

Resource == Block \cup Stream

VARIABLES
  pointers,  \* what each pointer object refers to
  files,     \* the pointer object of each file
  heap,      \* the objects the collector knows
  held,      \* the objects the program reaches without a file's element
  used,      \* the blocks and streams there have been
  released,  \* how often each has been released
  asked,     \* how often the program has asked for it (history)
  shared,    \* the blocks a native function has returned (history)
  attr,      \* the attributes of the terminal
  terms,     \* those each active call of term() has saved, innermost last
  escaped    \* an exception has left an outermost term() (history)

memory == <<pointers, files, heap, held, used, released, asked, shared>>
terminal == <<attr, terms, escaped>>
vars == <<memory, terminal>>

Init ==
  /\ pointers = <<>> /\ files = <<>>
  /\ heap = {} /\ held = {} /\ used = {}
  /\ released = [r \in Resource |-> 0]
  /\ asked = [r \in Resource |-> 0]
  /\ shared = {}
  /\ attr = "cooked" /\ terms = <<>> /\ escaped = FALSE

Allocated == DOMAIN pointers \cup DOMAIN files
Fresh == Object \ Allocated
With(f, x, y) == [z \in DOMAIN f \cup {x} |-> IF z = x THEN y ELSE f[z]]

Pointer(p) == p \in held \cap DOMAIN pointers
File(f) == f \in held \cap DOMAIN files
-----------------------------------------------------------------------------
(* Blocks.                                                                 *)

\* alloc(): a pointer to a new block.
Alloc ==
  \E p \in Fresh, b \in Block \ used :
    /\ pointers' = With(pointers, p, b)
    /\ heap' = heap \cup {p} /\ held' = held \cup {p}
    /\ used' = used \cup {b}
    /\ UNCHANGED <<files, released, asked, shared, terminal>>

\* A copy of the block; of a stream's pointer, a block of no size.
Clone == (\E p \in held : Pointer(p) /\ pointers[p] # Nothing) /\ Alloc

\* Fault: free() leaves the pointer as it is.
AfterFreeDangling(p) == pointers[p]

AfterFree(p) == Nothing

Release(r) ==
  /\ r # Nothing => asked[r] < MaxAsked
  /\ IF r = Nothing
       THEN UNCHANGED <<released, asked>>
       ELSE /\ released' = [released EXCEPT ![r] = @ + 1]
            /\ asked' = [asked EXCEPT ![r] = @ + 1]

\* free(): what the pointer refers to is released as its cleanup function says,
\* fclose() for the pointer of a file.
Free ==
  \E p \in held :
    /\ Pointer(p) /\ Release(pointers[p])
    /\ pointers' = [pointers EXCEPT ![p] = AfterFree(p)]
    /\ UNCHANGED <<files, heap, held, used, shared, terminal>>

\* A native function returns a pointer it was given, as getcwd() does.
NativeReturns ==
  \E p \in held, q \in Fresh :
    /\ Pointer(p) /\ pointers[p] \in Block
    /\ pointers' = With(pointers, q, pointers[p])
    /\ held' = held \cup {q} /\ shared' = shared \cup {pointers[p]}
    /\ UNCHANGED <<files, heap, used, released, asked, terminal>>
-----------------------------------------------------------------------------
(* Streams.                                                                *)

\* Fault: the pointer is registered like the file.
RegisteredBoth(f, p) == {f, p}

Registered(f, p) == {f}

NewFile(stream) ==
  \E f, p \in Fresh :
    /\ f # p
    /\ pointers' = With(pointers, p, stream) /\ files' = With(files, f, p)
    /\ heap' = heap \cup Registered(f, p) /\ held' = held \cup {f}
    /\ used' = used \cup {stream}
    /\ UNCHANGED <<released, asked, shared, terminal>>

\* open() of a path or a descriptor.
Open == \E s \in Stream \ used : NewFile(s)

\* open() of a pointer: a second file for its stream.
OpenPointer == \E p \in held : Pointer(p) /\ pointers[p] \in Stream /\ NewFile(pointers[p])

\* The element __ptr__ of a file.
Element ==
  /\ \E f \in held : File(f) /\ held' = held \cup {files[f]}
  /\ UNCHANGED <<pointers, files, heap, used, released, asked, shared, terminal>>

\* Close(): the pointer goes on referring to the stream.
Close ==
  /\ \E f \in held : File(f) /\ Release(pointers[files[f]])
  /\ UNCHANGED <<pointers, files, heap, held, used, shared, terminal>>
-----------------------------------------------------------------------------
(* The collector.                                                          *)

\* The program lets go of an object.
Drop ==
  /\ \E o \in held : held' = held \ {o}
  /\ UNCHANGED <<pointers, files, heap, used, released, asked, shared, terminal>>

Reached == held \cup {files[f] : f \in held \cap DOMAIN files}

\* Fault: the test of the flag is the wrong way round.
SweptMarked == heap \cap Reached

Swept == heap \ Reached

\* The collector frees what a pointer refers to along with it.
Freed(r) == \E p \in Swept \cap DOMAIN pointers : pointers[p] = r

Collect ==
  /\ released' = [r \in Resource |-> IF Freed(r) THEN released[r] + 1 ELSE released[r]]
  /\ pointers' = [p \in DOMAIN pointers \ Swept |-> pointers[p]]
  /\ files' = [f \in DOMAIN files \ Swept |-> files[f]]
  /\ heap' = heap \ Swept
  /\ UNCHANGED <<held, used, asked, shared, terminal>>
-----------------------------------------------------------------------------
(* The terminal.                                                           *)

\* term(): the attributes are saved, and changed while its closures run.
BeginTerm ==
  /\ Len(terms) < MaxTerms
  /\ terms' = Append(terms, attr) /\ attr' = "raw"
  /\ UNCHANGED <<escaped, memory>>

Outer == SubSeq(terms, 1, Len(terms) - 1)

\* Fault: the attributes are not restored.
RestoredNone == attr

Restored == terms[Len(terms)]

\* A closure has returned false or an error.
EndTerm ==
  /\ terms # <<>>
  /\ terms' = Outer /\ attr' = Restored
  /\ UNCHANGED <<escaped, memory>>

\* A closure throws an exception, which leaves term(); the run that called it
\* ends with an error.
Throw ==
  /\ terms # <<>>
  /\ terms' = Outer /\ escaped' = (escaped \/ Len(terms) = 1)
  /\ UNCHANGED <<attr, memory>>
-----------------------------------------------------------------------------
Next ==
  \/ Alloc \/ Clone \/ Free \/ NativeReturns
  \/ Open \/ OpenPointer \/ Element \/ Close
  \/ Drop \/ Collect
  \/ BeginTerm \/ EndTerm \/ Throw

Spec == Init /\ [][Next]_vars
-----------------------------------------------------------------------------
(* Properties.                                                             *)

\* The pieces of the state are of their kind; an object is a pointer or a file,
\* and what the program or a file refers to has not been freed.
TypeOK ==
  /\ DOMAIN pointers \subseteq Object /\ DOMAIN files \subseteq Object
  /\ DOMAIN pointers \cap DOMAIN files = {}
  /\ \A p \in DOMAIN pointers : pointers[p] \in used \cup {Nothing}
  /\ \A f \in DOMAIN files : files[f] \in DOMAIN pointers
  /\ heap \subseteq Allocated /\ held \subseteq Allocated
  /\ used \subseteq Resource /\ shared \subseteq Block
  /\ released \in [Resource -> Nat] /\ asked \in [Resource -> Nat]
  /\ attr \in {"cooked", "raw"} /\ terms \in Seq({"cooked", "raw"}) /\ escaped \in BOOLEAN

\* A block is released at most once.  As long as it is not, one registered
\* pointer owns it, so that the collector will release it; afterwards none refers
\* to it, and the program cannot reach it (free, clone, MemoryManager::sweep).
\* A block a native function has returned is the exception.
BlocksHaveOneOwner ==
  \A b \in (used \cap Block) \ shared :
    LET owners == {p \in DOMAIN pointers : pointers[p] = b}
    IN  \/ released[b] = 1 /\ owners = {}
        \/ released[b] = 0 /\ \E p \in heap : owners = {p}

\* A stream is closed only when the program asks for it by Close or free, never
\* by the collector and never twice for one request, whatever is dropped and
\* collected in between (open, Close, MemoryManager::sweep).
ClosedAsAsked ==
  \A s \in Stream : released[s] = asked[s]

\* When no term() is active the terminal has the attributes it had before the
\* first, unless an exception went through an outermost one, which restores
\* nothing; those of the calls inside a term() are made good by it.
TerminalRestored ==
  terms = <<>> /\ ~escaped => attr = "cooked"

\* What the two above need: the collector knows no pointer of a file or a stream,
\* files have streams, and nothing has happened to what has not been used.
PointersKnown ==
  /\ \A p \in heap \cap DOMAIN pointers : pointers[p] \in Block \cup {Nothing}
  /\ \A f \in DOMAIN files : files[f] \notin heap /\ pointers[files[f]] \in Stream \cup {Nothing}
  /\ \A r \in Resource \ used : released[r] = 0 /\ r \notin shared

\* The attributes saved first are the original ones.
FirstSaved ==
  ~escaped /\ terms # <<>> => terms[1] = "cooked"

IndInv ==
  /\ TypeOK /\ BlocksHaveOneOwner /\ ClosedAsAsked /\ TerminalRestored
  /\ PointersKnown /\ FirstSaved
=============================================================================
