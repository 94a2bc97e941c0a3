------------------------------ MODULE Session ------------------------------
(***************************************************************************)
(* A session: the lines of the interactive loop, or the one text of a      *)
(* script, each compiled and then run, with the files they import, the     *)
(* search path, and texts given to eval().                                 *)
(*                                                                         *)
(* Interpreter::run(source) compiles a text and runs its code.  use(name)  *)
(* compiles another file in the middle of this, with a compiler of its     *)
(* own, and eval() in the code that runs starts all over again; so there   *)
(* is a stack of activities, each compiling or running.  The search path   *)
(* belongs to the interpreter and outlives them all.                       *)
(*                                                                         *)
(* A text is a sequence of statements:                                     *)
(*   use n      a file, by its name without the directory                  *)
(*   module n   a shared library, looked up when the code runs             *)
(*   path d     a pragma that adds a directory to SEARCH_PATH              *)
(*   eval t     eval() of the text t                                       *)
(*   parts      `if a; b {...}', which leaves the value of a on the stack; *)
(*              a statement that leaves more stands for several of them    *)
(*   code       anything else, which leaves the stack as it was            *)
(*   bad        anything the compiler rejects                              *)
(*   illegal    two tokens the scanner rejects, at the beginning of a text *)
(* The value of use, module and eval is dropped.  Code and parts come to   *)
(* an end: in a runtime error, in an exception, in the end of the run or   *)
(* of the process, or in the next statement.  Frames and deferred calls    *)
(* are the subject of Interpreter; files declare no variables here, what   *)
(* they declare and export is the subject of SymbolTable.                  *)
(*                                                                         *)
(* A definition whose comment begins with "Fault:" is a wrong variant of   *)
(* the next one, used to see that the properties notice the fault.         *)
(***************************************************************************)
EXTENDS Integers, Sequences, FiniteSets, SequencesExt

CONSTANTS
  Dir,         \* directories
  Name,        \* names of files
  FirstPath,   \* the search path a session begins with
  FileSystem,  \* what the files may be: functions from paths to texts
  Text,        \* the texts of files, of eval() and of lines
  Source,      \* the lines that may be entered
  MaxLines,    \* bound on their number
  MaxDepth     \* how many activities there may be when a file is imported

ASSUME BoundAssumption == MaxLines \in Nat /\ MaxDepth \in Nat \ {0}
ASSUME PathAssumption == FirstPath \in Seq(Dir)

Path == Dir \X Name
Op == {"use", "module", "path", "eval", "parts", "code", "bad", "illegal"}
ASSUME TextAssumption ==
  /\ <<>> \in Text /\ Source \subseteq Text
  /\ \A t \in Text : t \in Seq([op : Op, name : Dir \cup Name \cup {""}, text : Text])
  /\ \A t \in Text : \A i \in DOMAIN t : t[i].op = "path" => t[i].name \in Dir
  /\ \A f \in FileSystem : f \in [DOMAIN f -> Text] /\ DOMAIN f \subseteq Path

Words == [op : {"code", "parts", "eval", "module", "drop", "enter", "leave"},
          name : Dir \cup Name \cup {""}, text : Text]

\* An activity: a text with the next statement, the files its compiler has
\* imported and the code so far; or this code, the next word, the height of the
\* operand stack, and that at the call of each module that is running.  A run is
\* an activation of run() with the context that is current in it.
Activity == [kind : {"compile", "run"}, text : Text, next : Nat, imports : Seq(Path),
             code : Seq(Words), height : Nat, calls : Seq(Nat)]

VARIABLES
  files,        \* the files there are
  interactive,  \* main() goes on after a line
  phase,        \* "prompt", "busy", "raise" (an exception), or how the process has ended
  lines,        \* the number of lines read
  search,       \* the option SEARCH_PATH
  active        \* the activities, innermost last

vars == <<files, interactive, phase, lines, search, active>>
world == <<files, interactive>>

Init ==
  /\ files \in FileSystem
  /\ interactive \in BOOLEAN
  /\ phase = "prompt" /\ lines = 0
  /\ search = FirstPath
  /\ active = <<>>

Inner == active[Len(active)]
IllegalStart(text) == text # <<>> /\ text[1].op = "illegal"

Compiling(text) ==
  [kind |-> "compile", text |-> text, next |-> 1, imports |-> <<>>,
   code |-> <<>>, height |-> 0, calls |-> <<>>]
Running(a) == [a EXCEPT !.kind = "run", !.next = 1]

Begin(activity) == active' = Append(active, activity)
Become(activity) == active' = Append(Front(active), activity)
-----------------------------------------------------------------------------
(* Lookup.                                                                 *)

Found(n, where) == {i \in DOMAIN where : <<where[i], n>> \in DOMAIN files}

\* The file with this name in the first directory that has one.
Search(n, where) == <<where[CHOOSE i \in Found(n, where) : \A j \in Found(n, where) : i <= j], n>>

\* Fault: the new directory comes first.
ExtendedFirst(where, d) == <<d>> \o where

Extended(where, d) == Append(where, d)
-----------------------------------------------------------------------------
(* The ends of a line, a text, and a run.                                  *)

\* main(): the loop goes on with the next line; a script has ended.
Answer(exits) == IF interactive THEN phase' = "prompt" ELSE phase' \in exits

\* eval() returns a value to the code that runs.
Returned(a) == [a EXCEPT !.next = @ + 1, !.height = @ + 1]

\* The innermost run is over, these are left: the value goes to the innermost
\* of them, or main() has it.
Return(left, exits) ==
  IF left = <<>> THEN active' = <<>> /\ Answer(exits)
                 ELSE active' = Append(Front(left), Returned(Last(left))) /\ phase' = "busy"

\* Fault: nothing is thrown, and the compiler stays where it is.
CompileErrorIgnored == UNCHANGED vars

\* An exception: it leaves this compiler.
CompileError ==
  /\ phase' = "raise"
  /\ UNCHANGED <<world, lines, search, active>>

\* Fault: an importer goes on after a file that cannot be compiled.
RethrowsNever(a) == FALSE

\* use() catches the exception of the file it imports to raise its own.
Rethrows(a) == a.kind = "compile"

\* run(source) returns an error; the compilers of its text are given up.
Unwind ==
  LET below == Front(active)
  IN  /\ phase = "raise"
      /\ UNCHANGED <<world, lines, search>>
      /\ IF below # <<>> /\ Rethrows(Last(below))
           THEN active' = below /\ UNCHANGED phase
           ELSE Return(below, {"exit 1"})

\* A runtime error: the result of run(source) is an error value.
RuntimeError == Return(Front(active), {"exit 1"}) /\ UNCHANGED <<world, lines, search>>

\* An exception that no builtin of this run catches leaves it with its context
\* in place.  The call of eval() below fails, and ends its own run, which pops
\* that context in the place of its own; main() catches nothing.
Escape ==
  /\ IF Len(active) = 1 THEN phase' = "abort" /\ UNCHANGED active
                        ELSE Return(Tail(Front(active)), {"exit 1"})
  /\ UNCHANGED <<world, lines, search>>

\* An exception in a nested run of exec() or term(), caught by the call of this
\* builtin: the run ends in an error and pops the nested context in the place of
\* its own, so that the run below goes on in the middle of this code.
EscapeNested ==
  /\ IF Len(active) = 1 THEN active' = <<>> /\ Answer({"exit 1"})
                        ELSE active' = Tail(active) /\ UNCHANGED phase
  /\ UNCHANGED <<world, lines, search>>

\* exit(), or a return outside of every function, whose effect is undefined.
Quit == phase' = "abort" /\ UNCHANGED <<world, lines, search, active>>
-----------------------------------------------------------------------------
(* Reading a line.                                                         *)

\* The constructor of Compiler reads two tokens before run() has its try block:
\* an illegal line ends the process.
ReadLine ==
  /\ phase = "prompt" /\ lines < MaxLines
  /\ \E text \in Source :
       IF IllegalStart(text) THEN phase' = "abort" /\ active' = active
                             ELSE phase' = "busy" /\ Begin(Compiling(text))
  /\ lines' = lines + 1
  /\ UNCHANGED <<world, search>>
-----------------------------------------------------------------------------
(* Compiling.                                                              *)

CompilesNext(op) ==
  /\ phase = "busy" /\ Inner.kind = "compile" /\ Inner.next <= Len(Inner.text)
  /\ Inner.text[Inner.next].op = op
Statement == Inner.text[Inner.next]
Compiled(words) == [Inner EXCEPT !.next = @ + 1, !.code = @ \o words]
KeepsCompiling == UNCHANGED <<world, phase, lines>>

Word(op) == [op |-> op, text |-> <<>>, name |-> ""]
Drop == <<Word("drop")>>

CompileCode == CompilesNext("code") /\ Become(Compiled(<<Word("code")>>)) /\ UNCHANGED search /\ KeepsCompiling
CompileParts == CompilesNext("parts") /\ Become(Compiled(<<Word("parts")>>)) /\ UNCHANGED search /\ KeepsCompiling
CompileEval ==
  /\ CompilesNext("eval")
  /\ Become(Compiled(<<[Word("eval") EXCEPT !.text = Statement.text]>> \o Drop))
  /\ UNCHANGED search /\ KeepsCompiling
CompileModule ==
  /\ CompilesNext("module")
  /\ Become(Compiled(<<[Word("module") EXCEPT !.name = Statement.name]>> \o Drop))
  /\ UNCHANGED search /\ KeepsCompiling

\* The option changes now, and stays if the text is rejected later.
CompilePath ==
  /\ CompilesNext("path")
  /\ search' = Extended(search, Statement.name)
  /\ Become(Compiled(<<>>)) /\ KeepsCompiling

CompileBad == CompilesNext("bad") /\ CompileError

\* Fault: imports are not remembered.
RepeatedNever(path) == FALSE

\* The file has been imported before by this compiler.
Repeated(path) == \E i \in DOMAIN Inner.imports : Inner.imports[i] = path

UseMissing == CompilesNext("use") /\ Found(Statement.name, search) = {} /\ CompileError

\* Nothing is emitted, although a value is dropped.
UseAgain ==
  /\ CompilesNext("use") /\ Found(Statement.name, search) # {}
  /\ Repeated(Search(Statement.name, search))
  /\ Become(Compiled(Drop))
  /\ UNCHANGED search /\ KeepsCompiling

UseIllegal ==
  /\ CompilesNext("use") /\ Found(Statement.name, search) # {}
  /\ LET path == Search(Statement.name, search)
     IN  ~Repeated(path) /\ IllegalStart(files[path])
  /\ CompileError

\* Each compiler recurses into the next; in the end the native stack overflows.
UseFile ==
  /\ CompilesNext("use") /\ Found(Statement.name, search) # {}
  /\ LET path == Search(Statement.name, search)
     IN  /\ ~Repeated(path) /\ ~IllegalStart(files[path])
         /\ IF Len(active) < MaxDepth
              THEN /\ active' = Append(Front(active),
                                       [Inner EXCEPT !.imports = Append(@, path)])
                                \o <<Compiling(files[path])>>
                   /\ UNCHANGED phase
              ELSE phase' = "overflow" /\ UNCHANGED active
  /\ UNCHANGED <<world, lines, search>>

\* The end of a file that is imported: its code, as a function that is called.
Imported == Len(active) > 1 /\ active[Len(active) - 1].kind = "compile"
Module(code) == <<Word("enter")>> \o code \o <<Word("leave")>>
EndImport ==
  /\ phase = "busy" /\ Inner.kind = "compile" /\ Inner.next > Len(Inner.text)
  /\ Imported
  /\ LET importer == active[Len(active) - 1]
     IN  active' = Append(Front(Front(active)),
                          [importer EXCEPT !.next = @ + 1,
                                           !.code = @ \o Module(Inner.code) \o Drop])
  /\ UNCHANGED search /\ KeepsCompiling

\* The end of the line, or of the text of eval(): a context for its code.
StartRun ==
  /\ phase = "busy" /\ Inner.kind = "compile" /\ Inner.next > Len(Inner.text)
  /\ ~Imported
  /\ Become(Running(Inner))
  /\ UNCHANGED search /\ KeepsCompiling
-----------------------------------------------------------------------------
(* Running.                                                                *)

RunsNext(op) ==
  /\ phase = "busy" /\ Inner.kind = "run" /\ Inner.next <= Len(Inner.code)
  /\ Inner.code[Inner.next].op = op
Instruction == Inner.code[Inner.next]
Proceed(activity) ==
  /\ Become([activity EXCEPT !.next = @ + 1])
  /\ UNCHANGED <<world, phase, lines, search>>

\* The end of a run without an error; the value on top of its stack may be one.
Finish(exits) == Return(Front(active), exits) /\ UNCHANGED <<world, lines, search>>

\* The ways of code that does not come to the next statement.  A value of the
\* wrong kind put into a string is reported and ends the run as HLT does.
BreakOff == RuntimeError \/ Escape \/ EscapeNested \/ Finish({"exit 0", "exit 1"}) \/ Quit

RunCode == RunsNext("code") /\ (Proceed(Inner) \/ BreakOff)

\* condition() leaves the value of each part but the last on the stack.
RunParts == RunsNext("parts") /\ (Proceed([Inner EXCEPT !.height = @ + 1]) \/ BreakOff)

\* POP finds the end of the operand stack only.
RunDrop ==
  /\ RunsNext("drop")
  /\ IF Inner.height = 0 THEN RuntimeError ELSE Proceed([Inner EXCEPT !.height = @ - 1])

\* CALL and RET of a module's function: the callee is on the stack, and whatever
\* the code leaves or takes, one value has its place in the end.
Enter ==
  /\ RunsNext("enter")
  /\ Proceed([Inner EXCEPT !.calls = Append(@, Inner.height), !.height = @ + 1])

\* Fault: the height is not restored.
HeightAfterKept(a) == a.height + 1

HeightAfter(a) == Last(a.calls) + 1
Leave == RunsNext("leave")
         /\ Proceed([Inner EXCEPT !.height = HeightAfter(Inner), !.calls = Front(@)])

\* loadModule gives a map or an error value; it does not end the run.
RunModule == RunsNext("module") /\ Proceed([Inner EXCEPT !.height = @ + 1])

\* eval(): an illegal text is an exception of the builtin, which ends this run.
RunEval ==
  /\ RunsNext("eval")
  /\ IF IllegalStart(Instruction.text)
       THEN RuntimeError
       ELSE Begin(Compiling(Instruction.text)) /\ UNCHANGED search /\ KeepsCompiling

\* HLT.
EndRun == phase = "busy" /\ Inner.kind = "run" /\ Inner.next > Len(Inner.code)
          /\ Finish(IF Inner.height = 0 THEN {"exit 0"} ELSE {"exit 0", "exit 1"})
-----------------------------------------------------------------------------
\* The process has ended, or no more lines are entered.
Ended == phase # "busy" /\ (phase = "prompt" => lines = MaxLines) /\ UNCHANGED vars

Compile == \/ CompileCode \/ CompileParts \/ CompileEval \/ CompileModule \/ CompilePath \/ CompileBad
           \/ UseMissing \/ UseAgain \/ UseIllegal \/ UseFile \/ Unwind \/ EndImport \/ StartRun
RunStep == RunCode \/ RunParts \/ RunDrop \/ Enter \/ Leave \/ RunModule \/ RunEval \/ EndRun

Next == ReadLine \/ Compile \/ RunStep \/ Ended

\* The program goes on as long as a line is being compiled or run.
Spec == Init /\ [][Next]_vars /\ WF_vars(Compile \/ RunStep)
-----------------------------------------------------------------------------
(* Properties; SessionMeaning has more.                                    *)

\* The pieces of the state are of their kind: compilers are above runs, only a
\* run has an operand stack, and what is imported is a file there is.
TypeOK ==
  /\ phase \in {"prompt", "busy", "raise", "abort", "overflow", "exit 0", "exit 1"}
  /\ lines \in 0 .. MaxLines
  /\ search \in Seq(Dir)
  /\ active \in Seq(Activity)
  /\ \A k \in 1 .. Len(active) :
       LET a == active[k]
       IN  /\ a.kind = "run" /\ k > 1 => active[k - 1].kind = "run"
           /\ a.kind = "compile" => a.height = 0 /\ a.calls = <<>>
           /\ \A i \in DOMAIN a.imports : a.imports[i] \in DOMAIN files
  /\ phase \in {"busy", "raise"} => active # <<>>

\* Statement i of a text uses a file that an earlier one uses as well.
RepeatedUse(text, i) ==
  \E j \in 1 .. i - 1 : /\ text[j].op = "use"
                        /\ Search(text[j].name, search) = Search(text[i].name, search)

\* The values the first i statements of a text leave, when the second use of a
\* file takes one.
Leaves(text, i) ==
  CASE text[i].op = "parts" -> 1
    [] text[i].op = "use" /\ RepeatedUse(text, i) -> -1
    [] OTHER -> 0
Left(text) ==
  LET left[i \in 0 .. Len(text)] == IF i = 0 THEN 0 ELSE left[i - 1] + Leaves(text, i)
  IN  left

\* A run that comes to its end has left on the operand stack, through all calls
\* of imported files, one value for each statement of its text that leaves one,
\* less one for each file its text uses again: the second use pushes nothing,
\* although a value is dropped (Compiler.cpp:840), and is a runtime error where
\* no value is left.  What an imported file leaves or takes in this way is gone
\* when its call returns.
StackAfterRun ==
  \A k \in DOMAIN active :
    LET a == active[k]
    IN  a.kind = "run" /\ a.next > Len(a.code) =>
          /\ a.calls = <<>>
          /\ a.height = Left(a.text)[Len(a.text)]
          /\ \A i \in DOMAIN a.text : Left(a.text)[i] >= 0

\* A name that stands for a file stands for the same file ever after, whatever
\* directories are added to the search path (Compiler::compiler_options).
FilesStay ==
  [][\A n \in Name : Found(n, search) # {} =>
       Found(n, search') # {} /\ Search(n, search') = Search(n, search)]_search
=============================================================================
