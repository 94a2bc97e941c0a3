---------------------------- MODULE Interpreter ----------------------------
(***************************************************************************)
(* The call machine: operand stacks, frames, deferred functions and nested *)
(* runs of the bytecode loop.                                              *)
(*                                                                         *)
(* Interpreter::run(source) and Interpreter::call(callee) start a run: a   *)
(* native activation of the loop run() on a context of its own.  A builtin *)
(* (eval, exec, term) and every deferred function start one inside another *)
(* run, so that the native stack holds several runs (`runs') while the     *)
(* vector `contexts' holds the contexts; the loop always works on the last *)
(* context, whichever run it belongs to.                                   *)
(*                                                                         *)
(* Stacks are modelled by their heights: which values they hold, and where *)
(* a call leads, is up to the program.  The compiler's part of the bargain *)
(* is a guard: an instruction finds its operands above the locals of its   *)
(* frame.                                                                  *)
(*                                                                         *)
(* The compiler accepts return in a script and in a text given to eval,    *)
(* outside of every function, and RET does not ask: it moves fp in front   *)
(* of the first frame.  What the loop reads there is undefined (in effect  *)
(* a null ip): such a run is `lost', and only the end of the process is    *)
(* modelled after it.                                                      *)
(*                                                                         *)
(* A definition whose comment begins with "Fault:" is a wrong variant of   *)
(* the next one, used to see that the properties notice the fault.         *)
(***************************************************************************)
EXTENDS Integers, Sequences, SequencesExt

CONSTANTS
  Function,       \* the compiled functions
  Params,         \* Function::nparams
  Locals,         \* Function::nlocals: the parameters and the other locals
  Variadic,       \* the functions whose last parameter is variadic
  MaxArgs,        \* bound on the arguments of a call (the compiler's is 254)
  StackSize,      \* bound on the height of a context's stack (1024)
  MaxFrames,      \* bound on the frames of a context (2048)
  MaxRuns,        \* bound on the nesting of runs
  MaxDebugInfo,   \* bound on the vector debugInfo
  MaxDefers       \* bound on the defer statements executed

ASSUME FunctionAssumption ==
  /\ {"source", "call"} \cap Function = {}
  /\ Params \in [Function -> Nat]
  /\ Locals \in [Function -> Nat]
  /\ Variadic \subseteq Function
  /\ \A f \in Function : Params[f] <= Locals[f]
  /\ \A f \in Variadic : Params[f] >= 1
ASSUME BoundAssumption ==
  /\ {MaxArgs, StackSize, MaxRuns, MaxDebugInfo, MaxDefers} \subseteq Nat
  /\ MaxFrames \in Nat \ {0}

\* The code of a frame: a function (an imported file is compiled to one), the
\* code of a script or of eval ("source"), or the three instructions of
\* Interpreter::call.
Code == Function \cup {"source", "call"}
LocalsOf(code) == IF code \in Function THEN Locals[code] ELSE 0

\* The frame of a call: its code and its base pointer.  `own' and `due' are
\* what the call deferred and the height its caller expects when it is over;
\* the code has neither.
Frame == [code : Code, bp : Nat, own : SUBSET Nat, due : Nat]

\* A context: the height of its stack, the frames up to fp, and the deferred
\* functions of each of its frame slots, those of the slots above fp too.
Context == [sp : Nat, frames : Seq(Frame), defers : [1 .. MaxFrames -> Seq(Nat)]]

\* An activation of run(): what it is doing, the deferred functions RET or
\* HLT has still to call, how many values are pushed when the builtin it
\* called returns, and whether a run nested in it has ended.
Run == [phase : {"step", "builtin", "returning", "halting", "lost"},
        left : Seq(Nat), push : {1, 2}, nested : BOOLEAN]

VARIABLES
  contexts,    \* Interpreter::contexts; cp is the last one
  runs,        \* the activations of run(), innermost last
  debugInfo,   \* Interpreter::debugInfo, by the code it describes
  issued,      \* the number of defer statements executed
  ran,         \* the deferred functions that have been called
  again,       \* one of them has been called a second time
  escaped      \* an exception has gone through an activation of run()

deferVars == <<issued, ran, again>>
vars == <<contexts, runs, debugInfo, deferVars, escaped>>

Init ==
  /\ contexts = <<>> /\ runs = <<>> /\ debugInfo = <<>>
  /\ issued = 0 /\ ran = {} /\ again = FALSE /\ escaped = FALSE

\* push_context: an empty stack, and the first frame for code.
NewContext(code) ==
  [sp |-> 0,
   frames |-> << [code |-> code, bp |-> 0, own |-> {}, due |-> 0] >>,
   defers |-> [i \in 1 .. MaxFrames |-> <<>>]]
NewRun == [phase |-> "step", left |-> <<>>, push |-> 1, nested |-> FALSE]

cp == contexts[Len(contexts)]
run == runs[Len(runs)]
Fp(c) == Len(c.frames)
Top(c) == c.frames[Fp(c)]
Base(c) == Top(c).bp + LocalsOf(Top(c).code)

InPhase(phases) == runs # <<>> /\ run.phase \in phases
SetContext(c) == contexts' = [contexts EXCEPT ![Len(contexts)] = c]

\* Fault: Interpreter::call, which has no debug info, pushes none.
DescribedSource(code) == IF code = "call" THEN debugInfo ELSE Append(debugInfo, code)

\* Running code and calling a closure push the debug info of the code.
Described(code) == Append(debugInfo, code)

\* run(ByteCode): its debug info, a context, and the loop.
StartRun(code, rs) ==
  /\ Len(runs) < MaxRuns
  /\ Len(debugInfo) < MaxDebugInfo
  /\ debugInfo' = Described(code)
  /\ contexts' = Append(contexts, NewContext(code))
  /\ runs' = Append(rs, NewRun)

\* The runs that are left when those from the r-th on have ended.
Unwound(r) ==
  [i \in 1 .. r - 1 |-> IF i = r - 1 THEN [runs[i] EXCEPT !.nested = TRUE]
                                     ELSE runs[i]]

\* Fault: the context stays.
ContextKept == contexts

\* pop_context.
ContextPopped == Front(contexts)

\* run() returns: run(ByteCode) pops a context.  debugInfo stays.
EndRun(r) ==
  /\ contexts' = ContextPopped
  /\ runs' = Unwound(r)
  /\ UNCHANGED debugInfo
-----------------------------------------------------------------------------
(* Instructions.                                                           *)

\* A program is run: a file, or a line of the interactive loop.
StartScript ==
  /\ runs = <<>>
  /\ StartRun("source", runs)
  /\ UNCHANGED <<deferVars, escaped>>

\* An instruction that only works on the operands of its frame.
Operate ==
  /\ InPhase({"step"})
  /\ \E h \in Base(cp) .. StackSize :
       h # cp.sp /\ SetContext([cp EXCEPT !.sp = h])
  /\ UNCHANGED <<runs, debugInfo, deferVars, escaped>>

\* The callee and its arguments are on the stack.
HasOperands(k) == Base(cp) + k <= cp.sp

Accepts(f, count) == IF f \in Variadic THEN count >= Params[f] - 1
                                       ELSE count = Params[f]

\* Fault: the parameters are taken off the height as well.
PackedMinus(f, sp, count) == IF f \in Variadic THEN sp - count - Params[f] ELSE sp

\* Fault: the list takes the place of the last argument only.
PackedLast(f, sp, count) == sp

\* The height when the surplus arguments have become one list, or an empty
\* list has been added.
Packed(f, sp, count) == IF f \in Variadic THEN sp - (count - Params[f]) ELSE sp

\* callClosure with count arguments on a stack of height sp: a frame in the
\* next slot, whose defers are those of its last use.
Entered(f, sp, count, due) ==
  LET bp == Packed(f, sp, count) - Params[f]
  IN  [cp EXCEPT !.sp = bp + Locals[f],
                 !.frames = Append(@, [code |-> f, bp |-> bp, own |-> {}, due |-> due])]

EnterClosure(f, sp, count, due, extra) ==
  LET c == Entered(f, sp, count, due)
  IN  /\ Fp(cp) < MaxFrames
      /\ Accepts(f, count)
      /\ c.sp + extra <= StackSize
      /\ Len(debugInfo) < MaxDebugInfo
      /\ SetContext([c EXCEPT !.sp = @ + extra])
      /\ debugInfo' = Described(f)
      /\ UNCHANGED <<runs, deferVars, escaped>>

\* CALL of a closure.
CallClosure(f, count) ==
  /\ InPhase({"step"})
  /\ HasOperands(count + 1)
  /\ EnterClosure(f, cp.sp, count, cp.sp - count, 0)

\* CALL of a bounded closure, of a map with __call__, or INDEX of a map with
\* __index__: the container goes in as the first argument.
CallBounded(f, count) ==
  /\ InPhase({"step"})
  /\ HasOperands(count + 1)
  /\ cp.sp < StackSize
  /\ EnterClosure(f, cp.sp + 1, count + 1, cp.sp - count, 0)

\* SET of a map with __set_index__: the container is pushed when the frame
\* has been entered already.
CallSetIndex(f) ==
  /\ InPhase({"step"})
  /\ HasOperands(3)
  /\ cp.sp < StackSize
  /\ EnterClosure(f, cp.sp + 1, 3, cp.sp - 2, 1)

\* CALL of a builtin, and SET with one as __set_index__, after which the
\* container is pushed over the result.
CallBuiltin(count, push) ==
  /\ InPhase({"step"})
  /\ HasOperands(count + 1)
  /\ push = 2 => count = 2
  /\ SetContext([cp EXCEPT !.sp = @ - (count + 1)])
  /\ runs' = [runs EXCEPT ![Len(runs)].phase = "builtin",
                          ![Len(runs)].push = push]
  /\ UNCHANGED <<debugInfo, deferVars, escaped>>

\* eval runs a source, exec and term call a closure, as often as they like.
BuiltinRuns(code) ==
  /\ InPhase({"builtin"})
  /\ StartRun(code, runs)
  /\ UNCHANGED <<deferVars, escaped>>

BuiltinReturns ==
  /\ InPhase({"builtin"})
  /\ cp.sp + run.push <= StackSize
  /\ SetContext([cp EXCEPT !.sp = @ + run.push])
  /\ runs' = [runs EXCEPT ![Len(runs)].phase = "step", ![Len(runs)].push = 1]
  /\ UNCHANGED <<debugInfo, deferVars, escaped>>
-----------------------------------------------------------------------------
(* Deferred functions, returns and the end of a run.                       *)

Defer ==
  /\ InPhase({"step"})
  /\ HasOperands(1)
  /\ issued < MaxDefers
  /\ issued' = issued + 1
  /\ SetContext([cp EXCEPT !.sp = @ - 1,
                           !.defers[Fp(cp)] = Append(@, issued'),
                           !.frames[Fp(cp)].own = @ \cup {issued'}])
  /\ UNCHANGED <<runs, debugInfo, ran, again, escaped>>

\* Fault: the deferred function at the front is left out.
PendingTail(c) ==
  IF c.defers[Fp(c)] = <<>> THEN <<>> ELSE Tail(c.defers[Fp(c)])

\* RET and HLT call what the frame's defers hold, from the last to the first.
Pending(c) == c.defers[Fp(c)]

\* RET takes its value off the stack and calls the deferred functions, those
\* of a script or of eval too.  (Interpreter::call has no RET.)
BeginReturn ==
  /\ InPhase({"step"})
  /\ Top(cp).code # "call"
  /\ HasOperands(1)
  /\ SetContext([cp EXCEPT !.sp = @ - 1])
  /\ runs' = [runs EXCEPT ![Len(runs)].phase = "returning",
                          ![Len(runs)].left = Pending(cp)]
  /\ UNCHANGED <<debugInfo, deferVars, escaped>>

\* HLT calls those of the script.
BeginHalt ==
  /\ InPhase({"step"})
  /\ Fp(cp) = 1
  /\ runs' = [runs EXCEPT ![Len(runs)].phase = "halting",
                          ![Len(runs)].left = Pending(cp)]
  /\ UNCHANGED <<contexts, debugInfo, deferVars, escaped>>

\* The next deferred function runs, by Interpreter::call, in a run of its
\* own; its result is dropped, an error too.
RunDeferred ==
  /\ InPhase({"returning", "halting"})
  /\ run.left # <<>>
  /\ StartRun("call", [runs EXCEPT ![Len(runs)].left = Front(@)])
  /\ ran' = ran \cup {Last(run.left)}
  /\ again' = (again \/ Last(run.left) \in ran)
  /\ UNCHANGED <<issued, escaped>>

\* Fault: RET leaves the debug info of the function.
InfoKept == debugInfo

\* RET pops the debug info of the function, if nothing lies above it.
InfoPopped == Front(debugInfo)

\* The stack after RET: the callee's slot holds the result.
Returned(c) == [c EXCEPT !.sp = (Top(c).bp - 1) + 1, !.frames = Front(@)]

PopFrame(phase) ==
  /\ run.left = <<>>
  /\ SetContext(Returned(cp))
  /\ runs' = [runs EXCEPT ![Len(runs)].phase = phase]
  /\ debugInfo' = InfoPopped
  /\ UNCHANGED <<deferVars, escaped>>

FinishReturn ==
  /\ InPhase({"returning"}) /\ Fp(cp) > 1
  /\ PopFrame("step")

\* RET in the first frame of a context: the value is written below the stack
\* and fp points in front of the frames.
ReturnFromScript ==
  /\ InPhase({"returning"}) /\ Fp(cp) = 1
  /\ PopFrame("lost")

FinishHalt ==
  /\ InPhase({"halting"})
  /\ run.left = <<>>
  /\ EndRun(Len(runs))
  /\ UNCHANGED <<deferVars, escaped>>

\* A runtime error, a builtin's included: run() returns at once.
Fail ==
  /\ InPhase({"step", "builtin"})
  /\ EndRun(Len(runs))
  /\ UNCHANGED <<deferVars, escaped>>

\* An exception (an index out of range in SET or in a slice) ends the native
\* activations up to the nearest builtin call, which reports an error: of
\* their contexts one is popped.
Throw ==
  /\ InPhase({"step"})
  /\ \E r \in DOMAIN runs :
       /\ runs[r].phase = "builtin"
       /\ \A i \in r + 1 .. Len(runs) : runs[i].phase # "builtin"
       /\ EndRun(r)
  /\ escaped' = TRUE
  /\ UNCHANGED deferVars

\* No builtin catches the exception, the builtin exit() is called, or the
\* loop is lost: the process ends; another may be started.
Terminate ==
  /\ \/ InPhase({"step"}) /\ \A r \in DOMAIN runs : runs[r].phase # "builtin"
     \/ InPhase({"builtin", "lost"})
  /\ contexts' = <<>> /\ runs' = <<>> /\ debugInfo' = <<>>
  /\ issued' = 0 /\ ran' = {} /\ again' = FALSE /\ escaped' = FALSE

Next ==
  \/ StartScript
  \/ Operate
  \/ \E f \in Function : \/ \E count \in 0 .. MaxArgs : CallClosure(f, count)
                         \/ \E count \in 0 .. MaxArgs : CallBounded(f, count)
                         \/ CallSetIndex(f)
  \/ \E count \in 0 .. MaxArgs, push \in {1, 2} : CallBuiltin(count, push)
  \/ \E code \in {"source", "call"} : BuiltinRuns(code)
  \/ BuiltinReturns
  \/ Defer
  \/ BeginReturn
  \/ BeginHalt
  \/ RunDeferred
  \/ FinishReturn
  \/ ReturnFromScript
  \/ FinishHalt
  \/ Fail
  \/ Throw
  \/ Terminate

Spec == Init /\ [][Next]_vars
-----------------------------------------------------------------------------
(* Properties.                                                             *)

\* The frame index stays within its array; the context of a run that is lost,
\* and no other, has no frame.
Lost(i) == i = Len(contexts) /\ InPhase({"lost"})
TypeOK ==
  /\ contexts \in Seq(Context)
  /\ \A i \in DOMAIN contexts :
       Fp(contexts[i]) \in (IF Lost(i) THEN {0} ELSE 1 .. MaxFrames)
  /\ runs \in Seq(Run)
  /\ debugInfo \in Seq(Code)
  /\ issued \in Nat /\ ran \subseteq Nat
  /\ again \in BOOLEAN /\ escaped \in BOOLEAN

\* The frames of a context lie one above the other: the locals of a call
\* begin above its caller's locals and operands, with the callee's slot in
\* between, and the top of the stack is never below the locals of the
\* running call.  A call writes no variable of another one.  (The context of a
\* run that is lost has no frame.)
Nested(c) ==
  \A i \in DOMAIN c.frames :
    c.frames[i].bp + LocalsOf(c.frames[i].code)
      <= (IF i = Fp(c) THEN c.sp ELSE c.frames[i + 1].bp - 1)
FramesNest == \A i \in DOMAIN contexts : Nested(contexts[i])

\* Whatever way a call took, with its arguments packed into a list or with
\* the container added, its return leaves the caller's stack as it was below
\* the callee, with one result on top.
Balanced(c) == \A i \in 2 .. Fp(c) : c.frames[i].bp = c.frames[i].due
CallsBalanced == \A i \in DOMAIN contexts : Balanced(contexts[i])

\* Each activation of run() has its own context and works on that one, in
\* whatever order runs nest, end and fail, unless an exception has gone
\* through one of them.
RunsMatchContexts == ~escaped => Len(runs) = Len(contexts)

\* Why these three hold: each context by itself is in order, but for that of a
\* run that is lost, which is the innermost one; and when an exception has
\* escaped there are more contexts than runs, never fewer.
ContextOK(c) ==
  /\ c \in Context
  /\ Fp(c) \in 1 .. MaxFrames
  /\ Nested(c)
  /\ Balanced(c)
IndInv ==
  /\ TypeOK
  /\ \A i \in DOMAIN runs : runs[i].phase = "lost" => i = Len(runs)
  /\ \A i \in DOMAIN contexts : Lost(i) \/ ContextOK(contexts[i])
  /\ Len(runs) <= Len(contexts)
  /\ RunsMatchContexts

\* debugInfo has at least as many entries as there are frames: RET, which pops
\* one with its frame, never pops an empty vector, in a script neither.
\* (calls[i] counts the frames of the first i contexts.)
DebugInfoSuffices ==
  \E calls \in [0 .. Len(contexts) -> 0 .. Len(debugInfo)] :
    /\ calls[0] = 0
    /\ \A i \in 1 .. Len(contexts) : calls[i] = calls[i - 1] + Fp(contexts[i])

\* The entry of debugInfo an error message takes its line from describes the
\* running code, as long as no nested run has ended in this run, with an error
\* or without, and no exception has escaped.
Located == debugInfo # <<>> /\ debugInfo[Len(debugInfo)] = Top(cp).code
LocatedUnlessNested ==
  InPhase({"step", "builtin"}) /\ ~run.nested /\ ~escaped => Located

\* Why this holds: the last entries of debugInfo then describe the frames of
\* the current context, one by one.
Describes(c) ==
  /\ Fp(c) <= Len(debugInfo)
  /\ \A i \in 1 .. Fp(c) :
       debugInfo[Len(debugInfo) - Fp(c) + i] = c.frames[i].code
InfoInv == runs # <<>> /\ ~run.nested /\ ~escaped => Describes(cp)

\* A call does not return before everything it deferred has been called.
DeferredRun ==
  InPhase({"returning", "halting"}) /\ ~escaped =>
    Top(cp).own \subseteq ran \cup Range(run.left)

\* Why this holds: what a call defers stays in the defers of its frame slot,
\* and a run that is returning or halting, the current one or another, has
\* called it or still has it to call.
DefersKept(c) ==
  \A i \in 1 .. Fp(c) : c.frames[i].own \subseteq Range(c.defers[i])
Deferring(i) ==
  runs[i].phase \in {"returning", "halting"} =>
    Top(contexts[i]).own \subseteq ran \cup Range(runs[i].left)
DeferInv ==
  /\ \A i \in DOMAIN contexts : DefersKept(contexts[i])
  /\ ~escaped => \A i \in DOMAIN runs : Deferring(i)

\* tests/0063-defer-call.src.out:1, "defer 1": the function deferred by one
\* call of add() is called once, when that call returns.
DeferredOnce == ~again
=============================================================================
