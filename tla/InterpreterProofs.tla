-------------------------- MODULE InterpreterProofs --------------------------
(***************************************************************************)
(* The frames of the call machine are laid out correctly for every program *)
(* whose instructions find their operands: any functions, any number of    *)
(* arguments, any nesting of runs, with errors and exceptions at any step, *)
(* and with a return outside of every function, after which the loop is    *)
(* lost and nothing but the end of the process follows.                    *)
(***************************************************************************)
EXTENDS Interpreter, SequenceTheorems, TLAPS

LEMMA AppendFacts ==
  ASSUME NEW S, NEW s \in Seq(S), NEW e \in S
  PROVE  /\ Append(s, e) \in Seq(S)
         /\ Len(Append(s, e)) = Len(s) + 1
         /\ \A i \in 1 .. Len(s) : Append(s, e)[i] = s[i]
         /\ Append(s, e)[Len(s) + 1] = e
OBVIOUS

LEMMA FrontType ==
  ASSUME NEW S, NEW s \in Seq(S)
  PROVE  Front(s) \in Seq(S)
<1>1. Len(s) - 1 \in Int /\ 1 \in Int /\ \A i \in 1 .. Len(s) - 1 : s[i] \in S
  OBVIOUS
<1>2. SubSeq(s, 1, Len(s) - 1) \in Seq(S)
  BY ONLY <1>1, SubSeqProperties
<1> QED
  BY <1>2 DEF Front

LEMMA FrontFacts ==
  ASSUME NEW S, NEW s \in Seq(S), s # <<>>
  PROVE  /\ Front(s) \in Seq(S)
         /\ Len(s) \in Nat \ {0}
         /\ Len(Front(s)) = Len(s) - 1
         /\ \A i \in 1 .. Len(s) - 1 : Front(s)[i] = s[i]
         /\ Last(s) \in S
<1>1. Len(s) \in Nat \ {0} /\ Len(s) - 1 \in Int /\ 1 \in Int
  OBVIOUS
<1>2. \A i \in 1 .. Len(s) - 1 : s[i] \in S
  OBVIOUS
<1> DEFINE t == SubSeq(s, 1, Len(s) - 1)
<1>3. /\ t \in Seq(S)
      /\ Len(t) = (IF 1 <= Len(s) - 1 THEN (Len(s) - 1) - 1 + 1 ELSE 0)
      /\ \A i \in 1 .. (Len(s) - 1) - 1 + 1 : t[i] = s[1 + i - 1]
  BY ONLY <1>1, <1>2, SubSeqProperties
<1>4. Front(s) = t
  BY DEF Front
<1> HIDE DEF t
<1>5. Len(t) = Len(s) - 1
  <2>1. CASE Len(s) = 1
    <3>1. ~ (1 <= Len(s) - 1) /\ Len(s) - 1 = 0
      BY ONLY <2>1
    <3> QED
      BY ONLY <3>1, <1>3
  <2>2. CASE Len(s) # 1
    <3>1. 1 <= Len(s) - 1 /\ (Len(s) - 1) - 1 + 1 = Len(s) - 1
      BY <2>2, <1>1
    <3> QED
      BY ONLY <3>1, <1>3
  <2> QED
    BY ONLY <2>1, <2>2
<1>6. \A i \in 1 .. Len(s) - 1 : t[i] = s[i]
  BY ONLY <1>1, <1>3
<1>7. Last(s) \in S
  BY <1>1 DEF Last
<1> QED
  BY ONLY <1>1, <1>3, <1>4, <1>5, <1>6, <1>7

LEMMA ElementFacts ==
  ASSUME NEW S, NEW s \in Seq(S), NEW i \in 1 .. Len(s)
  PROVE  s[i] \in S /\ i \in Nat \ {0} /\ i <= Len(s)
OBVIOUS

LEMMA ReplaceFacts ==
  ASSUME NEW S, NEW s \in Seq(S), NEW i \in 1 .. Len(s), NEW e \in S
  PROVE  /\ [s EXCEPT ![i] = e] \in Seq(S)
         /\ Len([s EXCEPT ![i] = e]) = Len(s)
         /\ [s EXCEPT ![i] = e][i] = e
         /\ \A h \in 1 .. Len(s) : h # i => [s EXCEPT ![i] = e][h] = s[h]
OBVIOUS
-----------------------------------------------------------------------------
(* What the operations do to one context.                                  *)

\* The fields of a context that is in order.
LEMMA ContextFacts ==
  ASSUME NEW c, ContextOK(c)
  PROVE  /\ c = [sp |-> c.sp, frames |-> c.frames, defers |-> c.defers]
         /\ c.sp \in Nat
         /\ c.frames \in Seq(Frame)
         /\ c.defers \in [1 .. MaxFrames -> Seq(Nat)]
         /\ Fp(c) \in 1 .. MaxFrames /\ Fp(c) \in Nat
         /\ Top(c) \in Frame
         /\ LocalsOf(Top(c).code) \in Nat
         /\ Base(c) \in Nat /\ Base(c) <= c.sp
<1>1. c \in Context /\ Fp(c) \in 1 .. MaxFrames /\ MaxFrames \in Nat
  BY BoundAssumption DEF ContextOK
<1>2. c.frames \in Seq(Frame) /\ c.sp \in Nat
  BY <1>1 DEF Context
<1>3. Fp(c) \in Nat /\ Fp(c) \in 1 .. Len(c.frames)
  BY <1>1, <1>2 DEF Fp
<1>4. Top(c) \in Frame
  BY <1>2, <1>3, ElementFacts DEF Top
<1>5. LocalsOf(Top(c).code) \in Nat
  BY <1>4, FunctionAssumption DEF LocalsOf, Frame, Code
<1>6. c.frames[Fp(c)].bp + LocalsOf(c.frames[Fp(c)].code) <= c.sp
  BY <1>2, <1>3 DEF ContextOK, Nested
<1>7. Base(c) \in Nat /\ Base(c) <= c.sp
  BY <1>4, <1>5, <1>6 DEF Base, Top, Frame
<1> QED
  BY <1>1, <1>2, <1>3, <1>4, <1>5, <1>7 DEF Context

\* A context whose stack has another height, not below the running call's
\* locals, and whose running frame and defers differ in what is deferred.
LEMMA MovedOK ==
  ASSUME NEW c, ContextOK(c), NEW sp \in Nat, Base(c) <= sp,
         NEW defers \in [1 .. MaxFrames -> Seq(Nat)], NEW own \in SUBSET Nat,
         NEW d, d = [sp |-> sp,
                     frames |-> [c.frames EXCEPT ![Fp(c)] = [@ EXCEPT !.own = own]],
                     defers |-> defers]
  PROVE  ContextOK(d)
<1> DEFINE n == Fp(c)
           top == [c.frames[n] EXCEPT !.own = own]
<1>1. c.frames \in Seq(Frame) /\ n \in 1 .. Len(c.frames) /\ n = Len(c.frames)
      /\ n \in 1 .. MaxFrames /\ n \in Nat
  BY ContextFacts DEF Fp
<1>2. c.frames[n] \in Frame
  BY <1>1, ElementFacts
<1>3. /\ top \in Frame /\ top.bp = c.frames[n].bp
      /\ top.code = c.frames[n].code /\ top.due = c.frames[n].due
  BY <1>2 DEF Frame
<1>4. d.sp = sp /\ d.frames = [c.frames EXCEPT ![n] = top] /\ d.defers = defers
  OBVIOUS
<1>5. /\ d.frames \in Seq(Frame) /\ Len(d.frames) = n
      /\ d.frames[n] = top
      /\ \A i \in 1 .. n : i # n => d.frames[i] = c.frames[i]
  BY <1>1, <1>3, <1>4, ReplaceFacts
<1>6. Fp(d) = n /\ DOMAIN d.frames = 1 .. n /\ DOMAIN c.frames = 1 .. n
  BY <1>1, <1>5 DEF Fp
<1>7. \A i \in 1 .. n : /\ d.frames[i].bp = c.frames[i].bp
                        /\ d.frames[i].code = c.frames[i].code
                        /\ d.frames[i].due = c.frames[i].due
  BY <1>3, <1>5
<1>8. d \in Context
  BY <1>4, <1>5 DEF Context
<1> HIDE DEF top
<1>9. Nested(d)
  <2> SUFFICES ASSUME NEW i \in 1 .. n
               PROVE  d.frames[i].bp + LocalsOf(d.frames[i].code)
                        <= (IF i = n THEN d.sp ELSE d.frames[i + 1].bp - 1)
    BY <1>6 DEF Nested
  <2>1. CASE i = n
    BY ONLY <2>1, <1>4, <1>7, n \in 1 .. n, Base(c) <= sp
       DEF Base, Top
  <2>2. CASE i # n
    <3>1. i + 1 \in 1 .. n
      BY <2>2, <1>1
    <3>2. c.frames[i].bp + LocalsOf(c.frames[i].code) <= c.frames[i + 1].bp - 1
      BY <1>6, <2>2 DEF ContextOK, Nested
    <3> QED
      BY ONLY <3>1, <3>2, <2>2, <1>7
  <2> QED
    BY <2>1, <2>2
<1>10. Balanced(d)
  BY <1>1, <1>6, <1>7 DEF ContextOK, Balanced
<1> QED
  BY <1>1, <1>6, <1>8, <1>9, <1>10 DEF ContextOK

\* A context whose stack only has another height.
LEMMA ResizedOK ==
  ASSUME NEW c, ContextOK(c), NEW sp \in Nat, Base(c) <= sp
  PROVE  ContextOK([c EXCEPT !.sp = sp])
<1>1. Fp(c) \in 1 .. Len(c.frames) /\ c.frames \in Seq(Frame) /\ Top(c) \in Frame
  BY ContextFacts DEF Fp
<1>2. [Top(c) EXCEPT !.own = Top(c).own] = Top(c) /\ Top(c).own \in SUBSET Nat
  BY <1>1 DEF Frame
<1>3. [c.frames EXCEPT ![Fp(c)] = [@ EXCEPT !.own = Top(c).own]] = c.frames
  BY <1>1, <1>2 DEF Top
<1>4. [c EXCEPT !.sp = sp] = [sp |-> sp, frames |-> c.frames, defers |-> c.defers]
  BY ContextFacts DEF Context, ContextOK
<1> DEFINE d == [c EXCEPT !.sp = sp]
<1>5. d = [sp |-> sp,
           frames |-> [c.frames EXCEPT ![Fp(c)] = [@ EXCEPT !.own = Top(c).own]],
           defers |-> c.defers]
  BY <1>3, <1>4
<1>6. c.defers \in [1 .. MaxFrames -> Seq(Nat)]
  BY ContextFacts
<1> HIDE DEF d
<1>7. ContextOK(d)
  BY ONLY ContextOK(c), sp \in Nat, Base(c) <= sp, <1>2, <1>5, <1>6, MovedOK
<1> QED
  BY <1>7 DEF d

\* A call enters a frame above the operands of its caller; the callee's slot
\* is the one below its base pointer.
LEMMA EnteredOK ==
  ASSUME NEW c, ContextOK(c), Fp(c) < MaxFrames, NEW f \in Function,
         NEW bp \in Nat, Base(c) < bp, NEW sp \in Nat, bp + Locals[f] <= sp,
         NEW d, d = [sp |-> sp,
                     frames |-> Append(c.frames, [code |-> f, bp |-> bp,
                                                  own |-> {}, due |-> bp]),
                     defers |-> c.defers]
  PROVE  ContextOK(d)
<1> DEFINE n == Fp(c)
           new == [code |-> f, bp |-> bp, own |-> {}, due |-> bp]
<1>1. c.frames \in Seq(Frame) /\ n = Len(c.frames) /\ n \in Nat \ {0}
      /\ n + 1 \in 1 .. MaxFrames
  BY ContextFacts, BoundAssumption DEF Fp
<1>2. new \in Frame /\ new.bp = bp /\ new.code = f /\ new.due = bp
  BY DEF Frame, Code
<1>3. d.sp = sp /\ d.frames = Append(c.frames, new) /\ d.defers = c.defers
  OBVIOUS
<1> HIDE DEF new
<1>4. /\ d.frames \in Seq(Frame) /\ Len(d.frames) = n + 1
      /\ d.frames[n + 1] = new
      /\ \A i \in 1 .. n : d.frames[i] = c.frames[i]
  BY ONLY <1>1, <1>2, <1>3, AppendFacts
<1>5. Fp(d) = n + 1 /\ DOMAIN d.frames = 1 .. n + 1 /\ DOMAIN c.frames = 1 .. n
  BY <1>1, <1>4 DEF Fp
<1>6. d \in Context
  BY <1>3, <1>4, ContextFacts DEF Context
<1>7. Nested(d)
  <2> SUFFICES ASSUME NEW i \in 1 .. n + 1
               PROVE  d.frames[i].bp + LocalsOf(d.frames[i].code)
                        <= (IF i = n + 1 THEN d.sp ELSE d.frames[i + 1].bp - 1)
    BY <1>5 DEF Nested
  <2>1. CASE i = n + 1
    BY <2>1, <1>2, <1>3, <1>4 DEF LocalsOf
  <2>2. CASE i = n
    <3>1. d.frames[i] = Top(c) /\ d.frames[i + 1].bp = bp
      BY <2>2, <1>1, <1>2, <1>4 DEF Top
    <3>2. Base(c) <= bp - 1
      BY ContextFacts
    <3> QED
      BY ONLY <3>1, <3>2, <2>2, <1>1 DEF Base
  <2>3. CASE i \in 1 .. n - 1
    <3>1. d.frames[i] = c.frames[i] /\ d.frames[i + 1] = c.frames[i + 1]
      BY <2>3, <1>1, <1>4
    <3>2. c.frames[i].bp + LocalsOf(c.frames[i].code) <= c.frames[i + 1].bp - 1
      <4>1. i \in DOMAIN c.frames /\ i # Fp(c)
        BY <2>3, <1>1
      <4> QED
        BY <4>1 DEF ContextOK, Nested
    <3> QED
      BY ONLY <3>1, <3>2, <2>3, <1>1
  <2> QED
    BY <2>1, <2>2, <2>3, <1>1
<1>8. Balanced(d)
  <2> SUFFICES ASSUME NEW i \in 2 .. n + 1
               PROVE  d.frames[i].bp = d.frames[i].due
    BY <1>5 DEF Balanced
  <2>1. CASE i = n + 1
    BY <2>1, <1>2, <1>4
  <2>2. CASE i # n + 1
    <3>1. i \in 1 .. n /\ i \in 2 .. n
      BY <2>2, <1>1
    <3> QED
      BY <3>1, <1>4 DEF ContextOK, Balanced
  <2> QED
    BY <2>1, <2>2
<1> QED
  BY <1>1, <1>5, <1>6, <1>7, <1>8 DEF ContextOK

\* A return leaves the caller's frames, with the result in the callee's slot.
LEMMA ReturnedOK ==
  ASSUME NEW c, ContextOK(c), Fp(c) > 1
  PROVE  ContextOK(Returned(c))
<1> DEFINE n == Fp(c)
<1>0. c.frames \in Seq(Frame) /\ n = Len(c.frames) /\ n \in 1 .. MaxFrames
  <2>1. c.frames \in Seq(Frame) /\ n \in 1 .. MaxFrames
    BY ContextFacts
  <2> QED
    BY <2>1 DEF Fp
<1>1. c.frames \in Seq(Frame) /\ n = Len(c.frames) /\ n \in Nat \ {0, 1}
      /\ n \in 1 .. MaxFrames /\ c.frames # <<>>
  <2>1. n \in Nat /\ n > 1
    BY ContextFacts
  <2>2. Len(c.frames) # 0
    BY <1>0, <2>1
  <2>3. c.frames # <<>>
    BY <2>2
  <2>4. n \in Nat \ {0, 1}
    BY ONLY <2>1
  <2> QED
    BY ONLY <1>0, <2>3, <2>4
<1>2. \A i \in 1 .. n : c.frames[i] \in Frame
  BY <1>1, ElementFacts
<1>3. Top(c).bp \in Nat /\ (Top(c).bp - 1) + 1 = Top(c).bp
  BY ContextFacts DEF Frame
<1>4. Returned(c) = [sp |-> Top(c).bp, frames |-> Front(c.frames), defers |-> c.defers]
  <2>1. c = [sp |-> c.sp, frames |-> c.frames, defers |-> c.defers]
    BY ContextFacts
  <2>2. Returned(c) = [c EXCEPT !.sp = Top(c).bp, !.frames = Front(c.frames)]
    BY <1>3 DEF Returned
  <2> QED
    BY ONLY <2>1, <2>2
<1> DEFINE d == Returned(c)
<1>5. d.sp = Top(c).bp /\ d.frames = Front(c.frames) /\ d.defers = c.defers
  BY <1>4
<1> HIDE DEF d
<1>6. /\ d.frames \in Seq(Frame) /\ Len(d.frames) = n - 1
      /\ \A i \in 1 .. n - 1 : d.frames[i] = c.frames[i]
  BY <1>1, <1>5, FrontFacts
<1>7. Fp(d) = n - 1 /\ DOMAIN d.frames = 1 .. n - 1 /\ DOMAIN c.frames = 1 .. n
  BY <1>1, <1>6 DEF Fp
<1>8. d \in Context
  <2>1. c.defers \in [1 .. MaxFrames -> Seq(Nat)]
    BY ContextFacts
  <2>2. d = [sp |-> Top(c).bp, frames |-> d.frames, defers |-> c.defers]
    BY ONLY <1>4, <1>5 DEF d
  <2> QED
    BY ONLY <2>1, <2>2, <1>3, <1>6 DEF Context
<1>9. Nested(d)
  <2> SUFFICES ASSUME NEW i \in 1 .. n - 1
               PROVE  d.frames[i].bp + LocalsOf(d.frames[i].code)
                        <= (IF i = n - 1 THEN d.sp ELSE d.frames[i + 1].bp - 1)
    BY <1>7 DEF Nested
  <2>1. i \in 1 .. n /\ i # n /\ i + 1 \in 1 .. n
    BY <1>1
  <2>2. c.frames[i].bp + LocalsOf(c.frames[i].code) <= c.frames[i + 1].bp - 1
    BY <2>1, <1>7 DEF ContextOK, Nested
  <2>3. /\ c.frames[i].bp \in Nat /\ c.frames[i + 1].bp \in Nat
        /\ LocalsOf(c.frames[i].code) \in Nat
    BY <2>1, <1>2, FunctionAssumption DEF Frame, LocalsOf, Code
  <2>4. CASE i = n - 1
    <3>1. d.sp = c.frames[i + 1].bp
      BY <2>4, <1>1, <1>5 DEF Top
    <3>2. d.frames[i] = c.frames[i]
      BY <1>6
    <3> QED
      BY <3>1, <3>2, <2>2, <2>3, <2>4
  <2>5. CASE i # n - 1
    <3>1. i + 1 \in 1 .. n - 1
      BY <2>5, <1>1
    <3>2. d.frames[i] = c.frames[i] /\ d.frames[i + 1] = c.frames[i + 1]
      BY <3>1, <1>6
    <3> QED
      BY ONLY <3>2, <2>2, <2>5
  <2> QED
    BY <2>4, <2>5
<1>10. Balanced(d)
  <2> SUFFICES ASSUME NEW i \in 2 .. n - 1
               PROVE  d.frames[i].bp = d.frames[i].due
    BY <1>7 DEF Balanced
  <2>1. i \in 2 .. n /\ i \in 1 .. n - 1
    BY <1>1
  <2> QED
    BY <2>1, <1>6 DEF ContextOK, Balanced
<1>11. Fp(d) \in 1 .. MaxFrames
  BY <1>1, <1>7, BoundAssumption
<1>12. ContextOK(d)
  BY <1>8, <1>9, <1>10, <1>11 DEF ContextOK
<1> QED
  BY <1>12 DEF d
-----------------------------------------------------------------------------
(* The invariant while no run is lost: every context is in order.          *)

LiveRun == [phase : {"step", "builtin", "returning", "halting"},
            left : Seq(Nat), push : {1, 2}, nested : BOOLEAN]
SoundTypes ==
  /\ contexts \in Seq(Context)
  /\ \A i \in DOMAIN contexts : Fp(contexts[i]) \in 1 .. MaxFrames
  /\ runs \in Seq(LiveRun)
  /\ debugInfo \in Seq(Code)
  /\ issued \in Nat /\ ran \subseteq Nat
  /\ again \in BOOLEAN /\ escaped \in BOOLEAN
Sound ==
  /\ SoundTypes
  /\ \A i \in DOMAIN contexts : ContextOK(contexts[i])
  /\ Len(runs) <= Len(contexts)
  /\ RunsMatchContexts

\* Then nothing is lost ...
LEMMA LiveIsRun ==
  ASSUME NEW s \in Seq(LiveRun)
  PROVE  s \in Seq(Run) /\ \A i \in 1 .. Len(s) : s[i].phase # "lost"
<1>1. \A r \in LiveRun : r \in Run /\ r.phase # "lost"
  BY DEF LiveRun, Run
<1>2. \A i \in 1 .. Len(s) : s[i] \in LiveRun
  BY ElementFacts
<1>3. s \in Seq(Run)
  BY <1>1
<1> QED
  BY <1>1, <1>2, <1>3

LEMMA SoundIsIndInv == Sound => IndInv /\ ~InPhase({"lost"})
<1> SUFFICES ASSUME Sound PROVE IndInv /\ ~InPhase({"lost"})
  OBVIOUS
<1>1. runs \in Seq(LiveRun)
  BY DEF Sound, SoundTypes
<1>2. runs \in Seq(Run) /\ \A i \in 1 .. Len(runs) : runs[i].phase # "lost"
  BY <1>1, LiveIsRun
<1>3. DOMAIN runs = 1 .. Len(runs) /\ (runs # <<>> => Len(runs) \in 1 .. Len(runs))
  BY <1>2
<1>4. ~InPhase({"lost"})
  BY <1>2, <1>3 DEF InPhase, run
<1>5. \A i \in DOMAIN contexts : ~Lost(i)
  BY <1>4 DEF Lost
<1> QED
  BY <1>2, <1>3, <1>4, <1>5 DEF Sound, SoundTypes, IndInv, TypeOK

\* ... and whenever the innermost run is not lost, the invariant says as much.
LEMMA IndInvIsSound == IndInv /\ ~InPhase({"lost"}) => Sound
<1> SUFFICES ASSUME IndInv, ~InPhase({"lost"}) PROVE Sound
  OBVIOUS
<1>1. runs \in Seq(Run) /\ DOMAIN runs = 1 .. Len(runs) /\ Len(runs) \in Nat
  BY DEF IndInv, TypeOK
<1>2. ASSUME NEW i \in 1 .. Len(runs) PROVE runs[i] \in LiveRun
  <2>1. runs[i] \in Run /\ runs # <<>>
    BY <1>1, ElementFacts
  <2>2. runs[i].phase # "lost"
    BY <1>1, <2>1 DEF IndInv, InPhase, run
  <2> QED
    BY <2>1, <2>2 DEF Run, LiveRun
<1>3. runs \in Seq(LiveRun)
  BY <1>1, <1>2
<1>4. \A i \in DOMAIN contexts : ~Lost(i)
  BY DEF Lost
<1> QED
  BY <1>3, <1>4 DEF Sound, SoundTypes, IndInv, TypeOK

-----------------------------------------------------------------------------
(* What the operations do to the runs.                                     *)

\* An instruction changes the innermost run; the number of runs stays.
LEMMA PhaseChanged ==
  ASSUME NEW s \in Seq(LiveRun), NEW n \in 1 .. Len(s),
         NEW phase \in {"step", "builtin", "returning", "halting"}
  PROVE  /\ [s EXCEPT ![n].phase = phase] \in Seq(LiveRun)
         /\ Len([s EXCEPT ![n].phase = phase]) = Len(s)
<1> DEFINE e == [s[n] EXCEPT !.phase = phase]
           t == [s EXCEPT ![n].phase = phase]
<1>1. s[n] \in LiveRun
  BY ElementFacts
<1>2. e \in LiveRun
  BY <1>1 DEF LiveRun
<1>3. t = [s EXCEPT ![n] = e]
  OBVIOUS
<1> HIDE DEF e, t
<1>4. t \in Seq(LiveRun) /\ Len(t) = Len(s)
  BY ONLY <1>2, <1>3, s \in Seq(LiveRun), n \in 1 .. Len(s), ReplaceFacts
<1> QED
  BY ONLY <1>4 DEF t

\* The same, with the values to push after a builtin.
LEMMA PushChanged ==
  ASSUME NEW s \in Seq(LiveRun), NEW n \in 1 .. Len(s),
         NEW phase \in {"step", "builtin", "returning", "halting"},
         NEW push \in {1, 2}
  PROVE  /\ [s EXCEPT ![n].phase = phase, ![n].push = push] \in Seq(LiveRun)
         /\ Len([s EXCEPT ![n].phase = phase, ![n].push = push]) = Len(s)
<1> DEFINE e == [s[n] EXCEPT !.phase = phase, !.push = push]
           t == [s EXCEPT ![n].phase = phase, ![n].push = push]
<1>1. s[n] \in LiveRun
  BY ElementFacts
<1>2. e \in LiveRun
  BY <1>1 DEF LiveRun
<1>3. t = [s EXCEPT ![n] = e]
  OBVIOUS
<1> HIDE DEF e, t
<1>4. t \in Seq(LiveRun) /\ Len(t) = Len(s)
  BY ONLY <1>2, <1>3, s \in Seq(LiveRun), n \in 1 .. Len(s), ReplaceFacts
<1> QED
  BY ONLY <1>4 DEF t

\* One of the deferred functions has been called.
LEMMA LeftChanged ==
  ASSUME NEW s \in Seq(LiveRun), NEW n \in 1 .. Len(s),
         NEW left \in Seq(Nat)
  PROVE  /\ [s EXCEPT ![n].left = left] \in Seq(LiveRun)
         /\ Len([s EXCEPT ![n].left = left]) = Len(s)
<1> DEFINE e == [s[n] EXCEPT !.left = left]
           t == [s EXCEPT ![n].left = left]
<1>1. s[n] \in LiveRun
  BY ElementFacts
<1>2. e \in LiveRun
  BY <1>1 DEF LiveRun
<1>3. t = [s EXCEPT ![n] = e]
  OBVIOUS
<1> HIDE DEF e, t
<1>4. t \in Seq(LiveRun) /\ Len(t) = Len(s)
  BY ONLY <1>2, <1>3, s \in Seq(LiveRun), n \in 1 .. Len(s), ReplaceFacts
<1> QED
  BY ONLY <1>4 DEF t

\* The runs that are left when those from the r-th on have ended.
LEMMA UnwoundFacts ==
  ASSUME runs \in Seq(LiveRun), NEW r \in 1 .. Len(runs)
  PROVE  Unwound(r) \in Seq(LiveRun) /\ Len(Unwound(r)) = r - 1
<1>1. r - 1 \in Nat /\ \A i \in 1 .. r - 1 : i \in 1 .. Len(runs)
  OBVIOUS
<1>2. ASSUME NEW i \in 1 .. r - 1
      PROVE  runs[i] \in LiveRun /\ [runs[i] EXCEPT !.nested = TRUE] \in LiveRun
  <2>1. runs[i] \in LiveRun
    BY <1>1, ElementFacts
  <2> QED
    BY <2>1 DEF LiveRun
<1> QED
  BY <1>1, <1>2 DEF Unwound
-----------------------------------------------------------------------------
(* The invariant.                                                          *)

\* While anything runs there is a current run and a current context.
LEMMA CurrentFacts ==
  ASSUME Sound, runs # <<>>
  PROVE  /\ contexts \in Seq(Context) /\ runs \in Seq(LiveRun)
         /\ Len(contexts) \in 1 .. Len(contexts) /\ contexts # <<>>
         /\ Len(runs) \in 1 .. Len(runs)
         /\ Len(runs) \in Nat /\ Len(contexts) \in Nat
         /\ ContextOK(cp) /\ run \in LiveRun
<1>1. contexts \in Seq(Context) /\ runs \in Seq(LiveRun)
  BY DEF Sound, SoundTypes
<1>2. Len(runs) \in Nat /\ Len(runs) # 0 /\ Len(contexts) \in Nat
  BY <1>1
<1>3. Len(runs) <= Len(contexts)
  BY DEF Sound
<1>4. Len(runs) \in 1 .. Len(runs) /\ Len(contexts) \in 1 .. Len(contexts)
  BY <1>2, <1>3
<1>5. contexts # <<>>
  BY <1>1, <1>4
<1>6. ContextOK(cp)
  BY <1>1, <1>4 DEF Sound, cp
<1>7. run \in LiveRun
  BY <1>1, <1>4, ElementFacts DEF run
<1> QED
  BY <1>1, <1>2, <1>4, <1>5, <1>6, <1>7

\* Replacing the current context by one that is in order.
LEMMA SetContextFacts ==
  ASSUME Sound, runs # <<>>, NEW c, ContextOK(c), SetContext(c)
  PROVE  /\ contexts' \in Seq(Context) /\ Len(contexts') = Len(contexts)
         /\ \A i \in DOMAIN contexts' : ContextOK(contexts'[i])
<1>1. contexts \in Seq(Context) /\ Len(contexts) \in 1 .. Len(contexts)
  BY CurrentFacts
<1>2. c \in Context
  BY DEF ContextOK
<1>3. contexts' = [contexts EXCEPT ![Len(contexts)] = c]
  BY DEF SetContext
<1>4. /\ contexts' \in Seq(Context) /\ Len(contexts') = Len(contexts)
      /\ contexts'[Len(contexts)] = c
      /\ \A h \in 1 .. Len(contexts) : h # Len(contexts) => contexts'[h] = contexts[h]
  BY ONLY <1>1, <1>2, <1>3, ReplaceFacts
<1>5. ASSUME NEW i \in DOMAIN contexts'
      PROVE  ContextOK(contexts'[i])
  <2>1. i \in 1 .. Len(contexts) /\ i \in DOMAIN contexts
    BY <1>1, <1>4
  <2>2. ContextOK(contexts[i])
    BY <2>1 DEF Sound
  <2> QED
    BY ONLY <1>4, <2>1, <2>2, ContextOK(c)
<1> QED
  BY <1>4, <1>5

\* A step that replaces the current context and changes no number of runs.
LEMMA StepKeeps ==
  ASSUME Sound, runs # <<>>, NEW c, ContextOK(c), SetContext(c),
         runs' \in Seq(LiveRun), Len(runs') = Len(runs),
         debugInfo' \in Seq(Code), issued' \in Nat,
         UNCHANGED <<ran, again, escaped>>
  PROVE  Sound'
<1>1. /\ contexts' \in Seq(Context) /\ Len(contexts') = Len(contexts)
      /\ \A i \in DOMAIN contexts' : ContextOK(contexts'[i])
  BY SetContextFacts
<1>2. \A i \in DOMAIN contexts' : Fp(contexts'[i]) \in 1 .. MaxFrames
  BY <1>1 DEF ContextOK
<1>3. SoundTypes'
  BY <1>1, <1>2 DEF Sound, SoundTypes
<1>4. Len(runs') <= Len(contexts') /\ RunsMatchContexts'
  BY <1>1 DEF Sound, RunsMatchContexts
<1> QED
  BY ONLY <1>1, <1>3, <1>4 DEF Sound

\* A new run comes with a new context.
LEMMA StartKeeps ==
  ASSUME Sound, NEW code \in {"source", "call"}, NEW rs \in Seq(LiveRun),
         Len(rs) = Len(runs), StartRun(code, rs),
         issued' \in Nat, ran' \subseteq Nat, again' \in BOOLEAN, escaped' = escaped
  PROVE  Sound'
<1> DEFINE new == NewContext(code)
<1>1. /\ contexts \in Seq(Context) /\ runs \in Seq(LiveRun) /\ debugInfo \in Seq(Code)
      /\ escaped \in BOOLEAN
      /\ Len(contexts) \in Nat /\ Len(runs) \in Nat
  BY DEF Sound, SoundTypes
<1>2. new.sp = 0 /\ Fp(new) = 1 /\ Len(new.frames) = 1
      /\ new.frames[1] = [code |-> code, bp |-> 0, own |-> {}, due |-> 0]
  BY DEF NewContext, Fp
<1>3. new \in Context
  BY BoundAssumption DEF NewContext, Context, Frame, Code
<1>4. LocalsOf(code) = 0
  BY FunctionAssumption DEF LocalsOf
<1>5. Nested(new) /\ Balanced(new)
  BY <1>2, <1>4 DEF Nested, Balanced
<1>6. ContextOK(new)
  BY <1>2, <1>3, <1>5, BoundAssumption DEF ContextOK
<1>7. /\ contexts' = Append(contexts, new) /\ runs' = Append(rs, NewRun)
      /\ debugInfo' = Append(debugInfo, code)
  BY DEF StartRun, Described
<1>8. NewRun \in LiveRun /\ code \in Code
  BY DEF NewRun, LiveRun, Code
<1> HIDE DEF new
<1>9. /\ contexts' \in Seq(Context) /\ Len(contexts') = Len(contexts) + 1
      /\ contexts'[Len(contexts) + 1] = new
      /\ \A i \in 1 .. Len(contexts) : contexts'[i] = contexts[i]
  BY ONLY <1>1, <1>3, <1>7, AppendFacts
<1>10. runs' \in Seq(LiveRun) /\ Len(runs') = Len(runs) + 1
  BY ONLY rs \in Seq(LiveRun), Len(rs) = Len(runs), <1>7, <1>8, AppendFacts
<1>11. debugInfo' \in Seq(Code)
  BY ONLY <1>1, <1>7, <1>8, AppendFacts
<1>12. ASSUME NEW i \in DOMAIN contexts'
       PROVE  ContextOK(contexts'[i])
  <2>1. i \in 1 .. Len(contexts) + 1
    BY <1>9
  <2>2. CASE i = Len(contexts) + 1
    BY ONLY <2>2, <1>6, <1>9
  <2>3. CASE i # Len(contexts) + 1
    <3>1. i \in 1 .. Len(contexts) /\ i \in DOMAIN contexts
      BY <2>1, <2>3, <1>1
    <3>2. ContextOK(contexts[i])
      BY <3>1 DEF Sound
    <3> QED
      BY ONLY <3>1, <3>2, <1>9
  <2> QED
    BY <2>2, <2>3
<1>13. SoundTypes'
  <2>1. \A i \in DOMAIN contexts' : Fp(contexts'[i]) \in 1 .. MaxFrames
    BY <1>12 DEF ContextOK
  <2> QED
    BY <1>1, <1>9, <1>10, <1>11, <2>1 DEF SoundTypes
<1>14. Len(runs') <= Len(contexts') /\ RunsMatchContexts'
  BY <1>1, <1>9, <1>10 DEF Sound, RunsMatchContexts
<1> QED
  BY ONLY <1>12, <1>13, <1>14 DEF Sound

\* A run that ends, with the runs above it, takes one context with it.
LEMMA EndKeeps ==
  ASSUME Sound, runs # <<>>, NEW r \in 1 .. Len(runs), EndRun(r),
         UNCHANGED deferVars,
         \/ r = Len(runs) /\ escaped' = escaped
         \/ escaped' = TRUE
  PROVE  Sound'
<1>1. /\ contexts \in Seq(Context) /\ contexts # <<>> /\ runs \in Seq(LiveRun)
      /\ Len(contexts) \in Nat /\ Len(runs) \in Nat /\ Len(runs) <= Len(contexts)
      /\ escaped \in BOOLEAN
  BY CurrentFacts DEF Sound, SoundTypes
<1>2. /\ contexts' = Front(contexts) /\ runs' = Unwound(r) /\ debugInfo' = debugInfo
  BY DEF EndRun, ContextPopped
<1>3. /\ contexts' \in Seq(Context) /\ Len(contexts') = Len(contexts) - 1
      /\ \A i \in 1 .. Len(contexts) - 1 : contexts'[i] = contexts[i]
  BY ONLY <1>1, <1>2, FrontFacts
<1>4. runs' \in Seq(LiveRun) /\ Len(runs') = r - 1
  BY <1>1, <1>2, UnwoundFacts
<1>5. ASSUME NEW i \in DOMAIN contexts'
      PROVE  ContextOK(contexts'[i])
  <2>1. i \in 1 .. Len(contexts) - 1 /\ i \in DOMAIN contexts
    BY <1>1, <1>3
  <2>2. ContextOK(contexts[i])
    BY <2>1 DEF Sound
  <2> QED
    BY ONLY <2>1, <2>2, <1>3
<1>6. SoundTypes'
  <2>1. \A i \in DOMAIN contexts' : Fp(contexts'[i]) \in 1 .. MaxFrames
    BY <1>5 DEF ContextOK
  <2> QED
    BY <1>1, <1>2, <1>3, <1>4, <2>1 DEF Sound, SoundTypes, deferVars
<1>7. Len(runs') <= Len(contexts')
  BY <1>1, <1>3, <1>4
<1>8. RunsMatchContexts'
  BY <1>1, <1>3, <1>4 DEF Sound, RunsMatchContexts
<1> QED
  BY ONLY <1>5, <1>6, <1>7, <1>8 DEF Sound

LEMMA InitSound == Init => Sound
<1> SUFFICES ASSUME Init PROVE Sound
  OBVIOUS
<1>1. contexts = <<>> /\ runs = <<>> /\ DOMAIN contexts = {}
  BY DEF Init
<1>2. SoundTypes
  <2>1. <<>> \in Seq(Context) /\ <<>> \in Seq(LiveRun) /\ <<>> \in Seq(Code)
    OBVIOUS
  <2> QED
    BY <1>1, <2>1 DEF Init, SoundTypes
<1> QED
  BY <1>1, <1>2 DEF Sound, RunsMatchContexts

\* Packing the arguments leaves the base pointer where they begin.
LEMMA PackedBase ==
  ASSUME NEW f \in Function, NEW sp \in Nat, NEW count \in Nat, Accepts(f, count)
  PROVE  Packed(f, sp, count) - Params[f] = sp - count
BY FunctionAssumption DEF Packed, Accepts

\* callClosure, whatever statement it is called for: `due' is the height at
\* which the arguments begin, and the callee's slot lies below it.
LEMMA EnterKeeps ==
  ASSUME Sound, runs # <<>>, NEW f \in Function,
         NEW sp \in Nat, NEW count \in Nat, NEW extra \in {0, 1},
         Base(cp) < sp - count,
         EnterClosure(f, sp, count, sp - count, extra)
  PROVE  Sound'
<1> DEFINE bp == sp - count
           top == bp + Locals[f] + extra
           d == [sp |-> top,
                 frames |-> Append(cp.frames, [code |-> f, bp |-> bp,
                                               own |-> {}, due |-> bp]),
                 defers |-> cp.defers]
<1>1. ContextOK(cp) /\ Base(cp) \in Nat
      /\ cp = [sp |-> cp.sp, frames |-> cp.frames, defers |-> cp.defers]
  BY CurrentFacts, ContextFacts
<1>2. bp \in Nat /\ Locals[f] \in Nat /\ top \in Nat /\ bp + Locals[f] <= top
  BY <1>1, FunctionAssumption
<1>3. Fp(cp) < MaxFrames /\ Accepts(f, count)
  BY DEF EnterClosure
<1>4. Packed(f, sp, count) - Params[f] = bp
  BY <1>3, PackedBase
<1>5. Entered(f, sp, count, sp - count) =
        [cp EXCEPT !.sp = bp + Locals[f],
                   !.frames = Append(@, [code |-> f, bp |-> bp, own |-> {}, due |-> bp])]
  BY <1>4 DEF Entered
<1>6. [Entered(f, sp, count, sp - count) EXCEPT !.sp = @ + extra] = d
  <2>1. Entered(f, sp, count, sp - count) =
          [sp |-> bp + Locals[f],
           frames |-> Append(cp.frames, [code |-> f, bp |-> bp, own |-> {}, due |-> bp]),
           defers |-> cp.defers]
    BY <1>1, <1>5
  <2> DEFINE e == Entered(f, sp, count, sp - count)
  <2> HIDE DEF e
  <2>2. e.sp + extra = top /\ e.frames = d.frames /\ e.defers = d.defers
    <3> DEFINE h == bp + Locals[f]
               fs == Append(cp.frames, [code |-> f, bp |-> bp, own |-> {}, due |-> bp])
    <3>1. e = [sp |-> h, frames |-> fs, defers |-> cp.defers] /\ top = h + extra
      BY <2>1 DEF e
    <3>2. d = [sp |-> top, frames |-> fs, defers |-> cp.defers]
      OBVIOUS
    <3> HIDE DEF d, top, h, fs
    <3> QED
      BY ONLY <3>1, <3>2
  <2>3. e = [sp |-> e.sp, frames |-> e.frames, defers |-> e.defers]
    BY <2>1 DEF e
  <2>4. [e EXCEPT !.sp = @ + extra] = [sp |-> e.sp + extra, frames |-> e.frames, defers |-> e.defers]
    BY ONLY <2>3
  <2> QED
    BY <2>2, <2>4 DEF e
<1>7. SetContext(d) /\ debugInfo' = Append(debugInfo, f)
      /\ runs' = runs /\ UNCHANGED <<issued, ran, again, escaped>>
  BY <1>6 DEF EnterClosure, Described, deferVars
<1> HIDE DEF top
<1>8. ContextOK(d)
  BY <1>1, <1>2, <1>3, EnteredOK
<1> HIDE DEF d
<1>9. debugInfo' \in Seq(Code)
  <2>1. f \in Code /\ debugInfo \in Seq(Code)
    BY DEF Code, Sound, SoundTypes
  <2> QED
    BY <1>7, <2>1, AppendFacts
<1>10. runs' \in Seq(LiveRun) /\ Len(runs') = Len(runs) /\ issued' \in Nat
  BY <1>7 DEF Sound, SoundTypes
<1> QED
  BY <1>7, <1>8, <1>9, <1>10, StepKeeps

\* The invariant is inductive: each instruction leaves the contexts in order.
LEMMA NextSound ==
  ASSUME Sound, [Next]_vars, ~ReturnFromScript
  PROVE  Sound'
<1>0. /\ contexts \in Seq(Context) /\ runs \in Seq(LiveRun) /\ debugInfo \in Seq(Code)
      /\ issued \in Nat /\ ran \subseteq Nat /\ again \in BOOLEAN /\ escaped \in BOOLEAN
  BY DEF Sound, SoundTypes
\* What is known of an instruction of the current run.
<1>c. ASSUME runs # <<>>
      PROVE  /\ ContextOK(cp) /\ run \in LiveRun
             /\ Len(runs) \in 1 .. Len(runs)
             /\ cp.sp \in Nat /\ Base(cp) \in Nat /\ Base(cp) <= cp.sp
             /\ cp = [sp |-> cp.sp, frames |-> cp.frames, defers |-> cp.defers]
             /\ Fp(cp) \in 1 .. MaxFrames /\ Fp(cp) \in Nat
             /\ cp.defers \in [1 .. MaxFrames -> Seq(Nat)]
             /\ cp.defers[Fp(cp)] \in Seq(Nat)
  BY <1>c, CurrentFacts, ContextFacts
<1>1. CASE StartScript
  BY <1>0, <1>1, StartKeeps DEF StartScript, deferVars
<1>2. CASE Operate
  <2>1. PICK h \in Base(cp) .. StackSize : SetContext([cp EXCEPT !.sp = h])
    BY <1>2 DEF Operate
  <2>2. runs # <<>>
    BY <1>2 DEF Operate, InPhase
  <2>3. h \in Nat /\ Base(cp) <= h
    BY <1>c, <2>2, BoundAssumption
  <2>4. ContextOK([cp EXCEPT !.sp = h])
    BY <1>c, <2>2, <2>3, ResizedOK
  <2> QED
    BY <1>0, <1>2, <2>1, <2>2, <2>4, StepKeeps DEF Operate, deferVars
<1>3. ASSUME NEW f \in Function, NEW count \in 0 .. MaxArgs, CallClosure(f, count)
      PROVE  Sound'
  <2>1. runs # <<>> /\ HasOperands(count + 1)
        /\ EnterClosure(f, cp.sp, count, cp.sp - count, 0)
    BY <1>3 DEF CallClosure, InPhase
  <2>2. count \in Nat /\ cp.sp \in Nat /\ Base(cp) < cp.sp - count
    BY <1>c, <2>1, BoundAssumption DEF HasOperands
  <2> QED
    BY <2>1, <2>2, EnterKeeps
<1>4. ASSUME NEW f \in Function, NEW count \in 0 .. MaxArgs, CallBounded(f, count)
      PROVE  Sound'
  <2>1. runs # <<>> /\ HasOperands(count + 1)
        /\ EnterClosure(f, cp.sp + 1, count + 1, cp.sp - count, 0)
    BY <1>4 DEF CallBounded, InPhase
  <2>0. count \in Nat /\ cp.sp \in Nat /\ Base(cp) \in Nat /\ Base(cp) + (count + 1) <= cp.sp
    BY <1>c, <2>1, BoundAssumption DEF HasOperands
  <2>2. /\ count + 1 \in Nat /\ cp.sp + 1 \in Nat
        /\ cp.sp - count = (cp.sp + 1) - (count + 1)
        /\ Base(cp) < (cp.sp + 1) - (count + 1)
    BY ONLY <2>0
  <2>3. EnterClosure(f, cp.sp + 1, count + 1, (cp.sp + 1) - (count + 1), 0)
    BY <2>1, <2>2
  <2> QED
    BY <2>1, <2>2, <2>3, EnterKeeps
<1>5. ASSUME NEW f \in Function, CallSetIndex(f)
      PROVE  Sound'
  <2>1. runs # <<>> /\ HasOperands(3)
        /\ EnterClosure(f, cp.sp + 1, 3, cp.sp - 2, 1)
    BY <1>5 DEF CallSetIndex, InPhase
  <2>2. /\ cp.sp + 1 \in Nat
        /\ cp.sp - 2 = (cp.sp + 1) - 3
        /\ Base(cp) < (cp.sp + 1) - 3
    BY <1>c, <2>1 DEF HasOperands
  <2>3. EnterClosure(f, cp.sp + 1, 3, (cp.sp + 1) - 3, 1)
    BY <2>1, <2>2
  <2> QED
    BY <2>1, <2>2, <2>3, EnterKeeps
<1>6. ASSUME NEW count \in 0 .. MaxArgs, NEW push \in {1, 2}, CallBuiltin(count, push)
      PROVE  Sound'
  <2>1. /\ runs # <<>> /\ HasOperands(count + 1)
        /\ SetContext([cp EXCEPT !.sp = @ - (count + 1)])
        /\ runs' = [runs EXCEPT ![Len(runs)].phase = "builtin", ![Len(runs)].push = push]
        /\ UNCHANGED <<debugInfo, deferVars, escaped>>
    BY <1>6 DEF CallBuiltin, InPhase
  <2>2. cp.sp - (count + 1) \in Nat /\ Base(cp) <= cp.sp - (count + 1)
    BY <1>c, <2>1, BoundAssumption DEF HasOperands
  <2>3. ContextOK([cp EXCEPT !.sp = @ - (count + 1)])
    BY <1>c, <2>1, <2>2, ResizedOK
  <2>4. runs' \in Seq(LiveRun) /\ Len(runs') = Len(runs)
    <3>1. Len(runs) \in 1 .. Len(runs)
      BY <1>c, <2>1
    <3> DEFINE n == Len(runs)
               e == [run EXCEPT !.phase = "builtin", !.push = push]
    <3>2. e \in LiveRun
      BY <1>c, <2>1 DEF LiveRun
    <3>3. runs' = [runs EXCEPT ![n] = e]
      BY <2>1, <3>1 DEF run
    <3> HIDE DEF e
    <3> QED
      BY <1>0, <3>1, <3>2, <3>3, ReplaceFacts
  <2> QED
    BY <1>0, <2>1, <2>3, <2>4, StepKeeps DEF deferVars
<1>7. ASSUME NEW code \in {"source", "call"}, BuiltinRuns(code)
      PROVE  Sound'
  BY <1>0, <1>7, StartKeeps DEF BuiltinRuns, deferVars
<1>8. CASE BuiltinReturns
  <2>1. /\ runs # <<>>
        /\ SetContext([cp EXCEPT !.sp = @ + run.push])
        /\ runs' = [runs EXCEPT ![Len(runs)].phase = "step", ![Len(runs)].push = 1]
        /\ UNCHANGED <<debugInfo, deferVars, escaped>>
    BY <1>8 DEF BuiltinReturns, InPhase
  <2>2. run.push \in {1, 2}
    BY <1>c, <2>1 DEF LiveRun
  <2>3. cp.sp + run.push \in Nat /\ Base(cp) <= cp.sp + run.push
    BY <1>c, <2>1, <2>2
  <2>4. ContextOK([cp EXCEPT !.sp = @ + run.push])
    BY <1>c, <2>1, <2>3, ResizedOK
  <2>5. runs' \in Seq(LiveRun) /\ Len(runs') = Len(runs)
    BY <1>0, <1>c, <2>1, PushChanged
  <2> QED
    BY <1>0, <2>1, <2>4, <2>5, StepKeeps DEF deferVars
<1>9. CASE Defer
  <2> DEFINE own == Top(cp).own \cup {issued'}
             defers == [cp.defers EXCEPT ![Fp(cp)] = Append(@, issued')]
             d == [sp |-> cp.sp - 1,
                   frames |-> [cp.frames EXCEPT ![Fp(cp)] = [@ EXCEPT !.own = own]],
                   defers |-> defers]
  <2>1. /\ runs # <<>> /\ HasOperands(1) /\ issued' = issued + 1
        /\ SetContext([cp EXCEPT !.sp = @ - 1,
                                 !.defers[Fp(cp)] = Append(@, issued'),
                                 !.frames[Fp(cp)].own = @ \cup {issued'}])
        /\ UNCHANGED <<runs, debugInfo, ran, again, escaped>>
    BY <1>9 DEF Defer, InPhase
  <2>2. issued' \in Nat /\ cp.sp - 1 \in Nat /\ Base(cp) <= cp.sp - 1
    BY <1>0, <1>c, <2>1 DEF HasOperands
  <2>3. defers \in [1 .. MaxFrames -> Seq(Nat)]
    <3>1. Append(cp.defers[Fp(cp)], issued') \in Seq(Nat)
      BY <1>c, <2>1, <2>2, AppendFacts
    <3> QED
      BY <3>1, <1>c, <2>1
  <2>4. own \in SUBSET Nat
    BY <1>c, <2>1, <2>2, ContextFacts DEF Frame
  <2>5. cp.frames \in Seq(Frame) /\ Fp(cp) \in 1 .. Len(cp.frames)
    BY <1>c, <2>1, ContextFacts DEF Fp
  <2>6. [cp EXCEPT !.sp = @ - 1,
                   !.defers[Fp(cp)] = Append(@, issued'),
                   !.frames[Fp(cp)].own = @ \cup {issued'}] = d
    <3> DEFINE c == cp
               k == Fp(cp)
    <3>1. c = [sp |-> c.sp, frames |-> c.frames, defers |-> c.defers]
      BY <1>c, <2>1
    <3>2. d = [sp |-> c.sp - 1,
               frames |-> [c.frames EXCEPT ![k].own = @ \cup {issued'}],
               defers |-> [c.defers EXCEPT ![k] = Append(@, issued')]]
      BY DEF Top
    <3> HIDE DEF c, d, k
    <3>3. [c EXCEPT !.sp = @ - 1,
                    !.defers[k] = Append(@, issued'),
                    !.frames[k].own = @ \cup {issued'}] = d
      <4> DEFINE a == [c EXCEPT !.sp = @ - 1]
                 b == [a EXCEPT !.defers[k] = Append(@, issued')]
      <4>1. a = [sp |-> c.sp - 1, frames |-> c.frames, defers |-> c.defers]
        BY ONLY <3>1
      <4>2. b = [sp |-> c.sp - 1, frames |-> c.frames,
                 defers |-> [c.defers EXCEPT ![k] = Append(@, issued')]]
        <5> HIDE DEF a
        <5> QED
          BY ONLY <4>1
      <4>3. [b EXCEPT !.frames[k].own = @ \cup {issued'}] = d
        <5> HIDE DEF b
        <5> DEFINE fs == [b.frames EXCEPT ![k].own = @ \cup {issued'}]
        <5>1. b.frames = c.frames /\ b.sp = c.sp - 1
              /\ b.defers = [c.defers EXCEPT ![k] = Append(@, issued')]
          BY ONLY <4>2
        <5>2. fs = [c.frames EXCEPT ![k].own = @ \cup {issued'}]
          BY ONLY <5>1 DEF fs
        <5>3. [b EXCEPT !.frames[k].own = @ \cup {issued'}] = [b EXCEPT !.frames = fs]
          BY DEF fs
        <5> HIDE DEF fs
        <5>4. [b EXCEPT !.frames = fs] = d
          <6> DEFINE ds == [c.defers EXCEPT ![k] = Append(@, issued')]
          <6>1. b = [sp |-> c.sp - 1, frames |-> c.frames, defers |-> ds]
            BY ONLY <4>2
          <6>2. d = [sp |-> c.sp - 1, frames |-> fs, defers |-> ds]
            BY ONLY <3>2, <5>2
          <6> HIDE DEF ds
          <6> QED
            BY ONLY <6>1, <6>2
        <5> QED
          BY ONLY <5>3, <5>4
      <4> QED
        BY <4>3
    <3> QED
      BY ONLY <3>3 DEF c, k
  <2>7. SetContext(d)
    BY ONLY <2>1, <2>6
  <2>8. ContextOK(d)
    BY <1>c, <2>1, <2>2, <2>3, <2>4, MovedOK
  <2> HIDE DEF d
  <2> QED
    BY <1>0, <2>1, <2>2, <2>7, <2>8, StepKeeps
<1>10. CASE BeginReturn
  <2>1. /\ runs # <<>> /\ HasOperands(1)
        /\ SetContext([cp EXCEPT !.sp = @ - 1])
        /\ runs' = [runs EXCEPT ![Len(runs)].phase = "returning",
                                ![Len(runs)].left = Pending(cp)]
        /\ UNCHANGED <<debugInfo, deferVars, escaped>>
    BY <1>10 DEF BeginReturn, InPhase
  <2>2. cp.sp - 1 \in Nat /\ Base(cp) <= cp.sp - 1
    BY <1>c, <2>1 DEF HasOperands
  <2>3. ContextOK([cp EXCEPT !.sp = @ - 1])
    BY <1>c, <2>1, <2>2, ResizedOK
  <2>4. runs' \in Seq(LiveRun) /\ Len(runs') = Len(runs)
    <3>1. Pending(cp) \in Seq(Nat)
      BY <1>c, <2>1 DEF Pending
    <3>2. Len(runs) \in 1 .. Len(runs)
      BY <1>c, <2>1
    <3> DEFINE n == Len(runs)
               left == Pending(cp)
               e == [run EXCEPT !.phase = "returning", !.left = left]
    <3>3. e \in LiveRun
      BY <1>c, <2>1, <3>1 DEF LiveRun
    <3>4. runs' = [runs EXCEPT ![n] = e]
      BY <2>1, <3>2 DEF run
    <3> HIDE DEF e
    <3> QED
      BY <1>0, <3>2, <3>3, <3>4, ReplaceFacts
  <2> QED
    BY <1>0, <2>1, <2>3, <2>4, StepKeeps DEF deferVars
<1>11. CASE BeginHalt
  <2>1. /\ runs # <<>>
        /\ runs' = [runs EXCEPT ![Len(runs)].phase = "halting",
                                ![Len(runs)].left = Pending(cp)]
        /\ UNCHANGED <<contexts, debugInfo, deferVars, escaped>>
    BY <1>11 DEF BeginHalt, InPhase
  <2>2. runs' \in Seq(LiveRun) /\ Len(runs') = Len(runs)
    <3>1. Pending(cp) \in Seq(Nat)
      BY <1>c, <2>1 DEF Pending
    <3>2. Len(runs) \in 1 .. Len(runs)
      BY <1>c, <2>1
    <3> DEFINE n == Len(runs)
               left == Pending(cp)
               e == [run EXCEPT !.phase = "halting", !.left = left]
    <3>3. e \in LiveRun
      BY <1>c, <2>1, <3>1 DEF LiveRun
    <3>4. runs' = [runs EXCEPT ![n] = e]
      BY <2>1, <3>2 DEF run
    <3> HIDE DEF e
    <3> QED
      BY <1>0, <3>2, <3>3, <3>4, ReplaceFacts
  <2> QED
    BY <2>1, <2>2 DEF Sound, SoundTypes, RunsMatchContexts, deferVars
<1>12. CASE RunDeferred
  <2> DEFINE rs == [runs EXCEPT ![Len(runs)].left = Front(@)]
  <2>1. /\ runs # <<>> /\ run.left # <<>> /\ StartRun("call", rs)
        /\ ran' = ran \cup {Last(run.left)}
        /\ again' = (again \/ Last(run.left) \in ran)
        /\ UNCHANGED <<issued, escaped>>
    BY <1>12 DEF RunDeferred, InPhase
  <2>2. run.left \in Seq(Nat)
    BY <1>c, <2>1 DEF LiveRun
  <2>3. Front(run.left) \in Seq(Nat) /\ Last(run.left) \in Nat
    BY <2>1, <2>2, FrontFacts
  <2>4. rs = [runs EXCEPT ![Len(runs)].left = Front(run.left)]
    BY DEF run
  <2> HIDE DEF rs
  <2>5. rs \in Seq(LiveRun) /\ Len(rs) = Len(runs)
    BY <1>0, <1>c, <2>1, <2>3, <2>4, LeftChanged
  <2>6. issued' \in Nat /\ ran' \subseteq Nat /\ again' \in BOOLEAN /\ escaped' = escaped
    BY <1>0, <2>1, <2>3
  <2> QED
    BY <2>1, <2>5, <2>6, StartKeeps
<1>13. CASE FinishReturn
  <2>1. /\ runs # <<>> /\ Fp(cp) > 1 /\ SetContext(Returned(cp))
        /\ runs' = [runs EXCEPT ![Len(runs)].phase = "step"]
        /\ debugInfo' = Front(debugInfo)
        /\ UNCHANGED <<deferVars, escaped>>
    BY <1>13 DEF FinishReturn, PopFrame, InPhase, InfoPopped
  <2>2. ContextOK(Returned(cp))
    BY <1>c, <2>1, ReturnedOK
  <2>3. runs' \in Seq(LiveRun) /\ Len(runs') = Len(runs)
    BY <1>0, <1>c, <2>1, PhaseChanged
  <2>4. debugInfo' \in Seq(Code)
    BY <1>0, <2>1, FrontType
  <2> QED
    BY <1>0, <2>1, <2>2, <2>3, <2>4, StepKeeps DEF deferVars
<1>14. CASE FinishHalt
  BY <1>14, <1>c, EndKeeps DEF FinishHalt, InPhase
<1>15. CASE Fail
  BY <1>15, <1>c, EndKeeps DEF Fail, InPhase
<1>16. CASE Throw
  <2>1. PICK r \in DOMAIN runs : EndRun(r)
    BY <1>16 DEF Throw
  <2>2. r \in 1 .. Len(runs) /\ runs # <<>> /\ escaped' = TRUE /\ UNCHANGED deferVars
    BY <1>0, <1>16 DEF Throw, InPhase
  <2> QED
    BY <2>1, <2>2, EndKeeps
<1>17. CASE Terminate
  <2>1. contexts' = <<>> /\ runs' = <<>> /\ DOMAIN contexts' = {}
    BY <1>17 DEF Terminate
  <2>2. SoundTypes'
    <3>1. <<>> \in Seq(Context) /\ <<>> \in Seq(LiveRun) /\ <<>> \in Seq(Code)
      OBVIOUS
    <3> QED
      BY <1>17, <2>1, <3>1 DEF Terminate, SoundTypes
  <2> QED
    BY <2>1, <2>2 DEF Sound, RunsMatchContexts
<1>18. CASE UNCHANGED vars
  BY <1>18 DEF vars, deferVars, Sound, SoundTypes, RunsMatchContexts
<1> QED
  BY <1>1, <1>2, <1>3, <1>4, <1>5, <1>6, <1>7, <1>8, <1>9, <1>10, <1>11, <1>12,
     <1>13, <1>14, <1>15, <1>16, <1>17, <1>18 DEF Next

\* What RET leaves of a context.
LEMMA ReturnedFields ==
  ASSUME NEW c, ContextOK(c)
  PROVE  /\ Returned(c) = [sp |-> (Top(c).bp - 1) + 1, frames |-> Front(c.frames),
                           defers |-> c.defers]
         /\ Returned(c) \in Context
         /\ Returned(c).frames = Front(c.frames) /\ Returned(c).defers = c.defers
<1> DEFINE h == (Top(c).bp - 1) + 1
           a == [c EXCEPT !.sp = h]
           d == [sp |-> h, frames |-> Front(c.frames), defers |-> c.defers]
<1>1. /\ c = [sp |-> c.sp, frames |-> c.frames, defers |-> c.defers]
      /\ c.frames \in Seq(Frame) /\ c.defers \in [1 .. MaxFrames -> Seq(Nat)]
      /\ Top(c) \in Frame
  BY ContextFacts
<1>2. h \in Nat /\ Front(c.frames) \in Seq(Frame)
  BY <1>1, FrontType DEF Frame
<1>3. Returned(c) = [a EXCEPT !.frames = Front(a.frames)]
  BY DEF Returned
<1> HIDE DEF h
<1>4. a = [sp |-> h, frames |-> c.frames, defers |-> c.defers]
  BY ONLY <1>1
<1>5. Returned(c) = d
  BY ONLY <1>3, <1>4
<1>6. d \in Context /\ d.frames = Front(c.frames) /\ d.defers = c.defers
  BY <1>1, <1>2 DEF Context
<1> QED
  BY <1>5, <1>6 DEF h

\* RET outside of every function takes the last frame of its context away.
LEMMA LostKeeps ==
  ASSUME Sound, ReturnFromScript
  PROVE  IndInv'
<1> DEFINE n == Len(contexts)
           k == Len(runs)
           d == Returned(cp)
           e == [run EXCEPT !.phase = "lost"]
<1>1. /\ runs # <<>> /\ Fp(cp) = 1
      /\ contexts' = [contexts EXCEPT ![n] = d]
      /\ runs' = [runs EXCEPT ![k].phase = "lost"]
      /\ debugInfo' = Front(debugInfo)
      /\ UNCHANGED <<deferVars, escaped>>
  BY DEF ReturnFromScript, PopFrame, SetContext, InPhase, InfoPopped
<1>2. /\ contexts \in Seq(Context) /\ n \in 1 .. n /\ n \in Nat
      /\ ContextOK(cp) /\ run \in LiveRun /\ k \in 1 .. k /\ k \in Nat
  BY <1>1, CurrentFacts
<1>3. /\ runs \in Seq(Run) /\ debugInfo \in Seq(Code)
      /\ \A i \in 1 .. k : runs[i].phase # "lost"
      /\ issued \in Nat /\ ran \subseteq Nat /\ again \in BOOLEAN /\ escaped \in BOOLEAN
      /\ \A i \in DOMAIN contexts : ContextOK(contexts[i])
      /\ k <= n /\ (~escaped => k = n)
  BY LiveIsRun DEF Sound, SoundTypes, RunsMatchContexts
<1>4. e \in Run /\ e.phase = "lost" /\ runs' = [runs EXCEPT ![k] = e]
  BY <1>1, <1>2 DEF LiveRun, Run, run
<1>5. d \in Context /\ Fp(d) = 0
  <2>1. d \in Context /\ d.frames = Front(cp.frames)
    BY <1>2, ReturnedFields
  <2>2. cp.frames \in Seq(Frame) /\ cp.frames # <<>> /\ Len(cp.frames) = 1
    BY <1>1, <1>2, ContextFacts DEF Fp
  <2>3. Len(Front(cp.frames)) = 0
    BY <2>2, FrontFacts
  <2> QED
    BY <2>1, <2>3 DEF Fp
<1>6. debugInfo' \in Seq(Code)
  BY <1>1, <1>3, FrontType
<1> HIDE DEF d, e
<1>7. /\ contexts' \in Seq(Context) /\ Len(contexts') = n /\ contexts'[n] = d
      /\ \A i \in 1 .. n : i # n => contexts'[i] = contexts[i]
  BY <1>1, <1>2, <1>5, ReplaceFacts
<1>8. /\ runs' \in Seq(Run) /\ Len(runs') = k /\ runs'[k] = e
      /\ \A i \in 1 .. k : i # k => runs'[i] = runs[i]
  BY <1>2, <1>3, <1>4, ReplaceFacts
<1>9. /\ DOMAIN contexts' = 1 .. n /\ DOMAIN contexts = 1 .. n /\ DOMAIN runs' = 1 .. k
      /\ InPhase({"lost"})'
  <2>1. runs' # <<>> /\ run' = e
    BY <1>2, <1>8 DEF run
  <2>2. InPhase({"lost"})'
    BY <1>4, <2>1 DEF InPhase
  <2> QED
    BY <1>2, <1>7, <1>8, <2>2
<1>10. \A i \in 1 .. n : Lost(i)' <=> i = n
  BY <1>7, <1>9 DEF Lost
<1>11. TypeOK'
  <2>1. ASSUME NEW i \in 1 .. n
        PROVE  Fp(contexts'[i]) \in (IF Lost(i)' THEN {0} ELSE 1 .. MaxFrames)
    <3>1. CASE i = n
      BY <1>5, <1>7, <1>10, <3>1
    <3>2. CASE i # n
      BY <1>3, <1>7, <1>9, <1>10, <3>2 DEF ContextOK
    <3> QED
      BY <3>1, <3>2
  <2> QED
    BY <1>1, <1>3, <1>6, <1>7, <1>8, <1>9, <2>1 DEF TypeOK, deferVars
<1>12. \A i \in DOMAIN contexts' : Lost(i)' \/ ContextOK(contexts'[i])
  BY <1>3, <1>7, <1>9, <1>10
<1>13. \A i \in DOMAIN runs' : runs'[i].phase = "lost" => i = Len(runs')
  BY <1>3, <1>8, <1>9
<1> QED
  BY <1>1, <1>3, <1>7, <1>8, <1>11, <1>12, <1>13 DEF IndInv, RunsMatchContexts

\* Once the loop is lost, only the process can end.
LEMMA LostEnds == InPhase({"lost"}) /\ Next => Terminate
<1> SUFFICES ASSUME runs # <<>>, run.phase = "lost", Next, ~Terminate PROVE FALSE
  BY DEF InPhase
<1>1. ~InPhase({"step"}) /\ ~InPhase({"builtin"}) /\ ~InPhase({"returning"})
      /\ ~InPhase({"halting"}) /\ ~InPhase({"returning", "halting"})
      /\ ~InPhase({"step", "builtin"})
  BY DEF InPhase
<1>2. ~StartScript /\ ~Operate
  BY <1>1 DEF StartScript, Operate
<1>3. ASSUME NEW f \in Function, NEW count \in 0 .. MaxArgs
      PROVE  ~CallClosure(f, count) /\ ~CallBounded(f, count) /\ ~CallSetIndex(f)
  BY <1>1 DEF CallClosure, CallBounded, CallSetIndex
<1>4. \A f \in Function : ~CallSetIndex(f)
  BY <1>1 DEF CallSetIndex
<1>5. /\ \A count \in 0 .. MaxArgs, push \in {1, 2} : ~CallBuiltin(count, push)
      /\ \A code \in {"source", "call"} : ~BuiltinRuns(code)
      /\ ~BuiltinReturns /\ ~Defer /\ ~BeginReturn /\ ~BeginHalt /\ ~RunDeferred
  BY <1>1 DEF CallBuiltin, BuiltinRuns, BuiltinReturns, Defer, BeginReturn, BeginHalt, RunDeferred
<1>6. ~FinishReturn /\ ~ReturnFromScript /\ ~FinishHalt /\ ~Fail /\ ~Throw
  BY <1>1 DEF FinishReturn, ReturnFromScript, FinishHalt, Fail, Throw
<1> QED
  BY <1>2, <1>3, <1>4, <1>5, <1>6 DEF Next

LEMMA TerminateKeeps == Terminate => IndInv'
<1> SUFFICES ASSUME Terminate PROVE IndInv'
  OBVIOUS
<1>1. contexts' = <<>> /\ runs' = <<>> /\ DOMAIN contexts' = {} /\ DOMAIN runs' = {}
  BY DEF Terminate
<1>2. TypeOK'
  <2>1. <<>> \in Seq(Context) /\ <<>> \in Seq(Run) /\ <<>> \in Seq(Code)
    OBVIOUS
  <2> QED
    BY <1>1, <2>1 DEF Terminate, TypeOK
<1> QED
  BY <1>1, <1>2 DEF IndInv, RunsMatchContexts

\* The invariant is inductive: each instruction leaves the contexts in order,
\* but for a return outside of every function, after which nothing runs.
LEMMA NextIndInv == IndInv /\ [Next]_vars => IndInv'
<1> SUFFICES ASSUME IndInv, [Next]_vars PROVE IndInv'
  OBVIOUS
<1>1. CASE UNCHANGED vars
  BY <1>1 DEF vars, deferVars, IndInv, TypeOK, RunsMatchContexts, Lost, InPhase, run
<1>2. CASE Next /\ InPhase({"lost"})
  BY <1>2, LostEnds, TerminateKeeps
<1>3. CASE Next /\ ~InPhase({"lost"})
  <2>1. Sound
    BY <1>3, IndInvIsSound
  <2>2. CASE ReturnFromScript
    BY <2>1, <2>2, LostKeeps
  <2>3. CASE ~ReturnFromScript
    <3>1. Sound'
      BY <2>1, <2>3, NextSound
    <3> QED
      BY <3>1, SoundIsIndInv, PTL
  <2> QED
    BY <2>2, <2>3
<1> QED
  BY <1>1, <1>2, <1>3

-----------------------------------------------------------------------------
(* The theorems.                                                           *)

\* The context of a run that is lost has no frame.
LEMMA LostHasNoFrame ==
  ASSUME IndInv, NEW i \in DOMAIN contexts, Lost(i)
  PROVE  Fp(contexts[i]) = 0 /\ DOMAIN contexts[i].frames = {}
<1>1. contexts[i] \in Context /\ Fp(contexts[i]) = 0
  BY DEF IndInv, TypeOK
<1> QED
  BY <1>1 DEF Context, Fp

\* IndInv is an invariant of the call machine for every set of functions,
\* with any numbers of parameters and locals, and for every bound.
THEOREM Invariance == Spec => []IndInv
<1>1. Init => IndInv
  BY InitSound, SoundIsIndInv
<1>2. IndInv /\ [Next]_vars => IndInv'
  BY NextIndInv
<1> QED
  BY <1>1, <1>2, PTL DEF Spec

\* Contexts, runs and debug info always have their types; the frame index fp
\* of a context stays within its array of frames, until a RET outside of every
\* function moves it out of it, when the run is lost.
THEOREM TypeCorrect == Spec => []TypeOK
<1>1. IndInv => TypeOK
  BY DEF IndInv
<1> QED
  BY <1>1, Invariance, PTL

\* The locals of a call never overlap those of another call of the same
\* context, nor its operands, by whatever statement callClosure was reached.
THEOREM FramesAreNested == Spec => []FramesNest
<1>1. IndInv => FramesNest
  BY LostHasNoFrame DEF IndInv, ContextOK, FramesNest, Nested
<1> QED
  BY <1>1, Invariance, PTL

\* RET leaves the caller's stack with one result in the callee's slot, for
\* plain, variadic and bounded calls and for those of a map.
THEOREM CallsAreBalanced == Spec => []CallsBalanced
<1>1. IndInv => CallsBalanced
  BY LostHasNoFrame DEF IndInv, ContextOK, CallsBalanced, Balanced
<1> QED
  BY <1>1, Invariance, PTL

\* Without an exception, each activation of run() works on its own context,
\* however deep eval, exec and deferred functions nest.
THEOREM RunsHaveTheirContexts == Spec => []RunsMatchContexts
<1>1. IndInv => RunsMatchContexts
  BY DEF IndInv
<1> QED
  BY <1>1, Invariance, PTL
-----------------------------------------------------------------------------
(* What a step may do to the frames, the runs and debugInfo.  The proofs   *)
(* below distinguish these cases instead of the single actions.            *)

\* The current context becomes d.
Replaced(d) ==
  /\ Sound /\ runs # <<>>
  /\ d \in Context
  /\ contexts' = [contexts EXCEPT ![Len(contexts)] = d]

\* The same frames, in which deferred functions may have been added; a run
\* that begins to return or halt has all of them still to call.
Works(d) ==
  /\ Replaced(d)
  /\ Fp(d) = Fp(cp)
  /\ \A i \in 1 .. Fp(cp) :
       /\ d.frames[i].code = cp.frames[i].code
       /\ cp.frames[i].own \subseteq Range(cp.defers[i])
            => d.frames[i].own \subseteq Range(d.defers[i])
  /\ \E e \in Run :
       /\ runs' = [runs EXCEPT ![Len(runs)] = e]
       /\ e.nested = run.nested
       /\ e.phase \in {"returning", "halting"} => e.left = d.defers[Fp(d)]
  /\ UNCHANGED <<debugInfo, ran, escaped>>

\* A frame for f above the others.
Enters(f, d) ==
  /\ Replaced(d)
  /\ f \in Function
  /\ \E frame \in Frame : /\ frame.code = f /\ frame.own = {}
                           /\ d.frames = Append(cp.frames, frame)
  /\ d.defers = cp.defers
  /\ debugInfo' = Append(debugInfo, f)
  /\ run.phase = "step"
  /\ UNCHANGED <<runs, ran, escaped>>

\* The uppermost frame is gone, and the loop is lost if it was the only one.
Leaves(d) ==
  /\ Replaced(d)
  /\ d.frames = Front(cp.frames) /\ d.defers = cp.defers
  /\ debugInfo' = Front(debugInfo)
  /\ \E e \in Run : /\ runs' = [runs EXCEPT ![Len(runs)] = e]
                     /\ e.nested = run.nested /\ e.phase \in {"step", "lost"}
  /\ UNCHANGED <<ran, escaped>>

\* A new run, of which the others know nothing, but for the deferred function
\* it is for.
Starts(code, rs) ==
  /\ code \in {"source", "call"}
  /\ rs \in Seq(Run) /\ Len(rs) = Len(runs)
  /\ \A i \in 1 .. Len(runs) :
       /\ rs[i].phase = runs[i].phase
       /\ ran \cup Range(runs[i].left) \subseteq ran' \cup Range(rs[i].left)
  /\ contexts' = Append(contexts, NewContext(code))
  /\ runs' = Append(rs, NewRun)
  /\ debugInfo' = Append(debugInfo, code)
  /\ UNCHANGED escaped

\* The runs from the r-th on have ended, and one context is gone.
Ends(r) ==
  /\ Sound /\ runs # <<>> /\ r \in 1 .. Len(runs)
  /\ contexts' = Front(contexts) /\ runs' = Unwound(r)
  /\ (r = Len(runs) /\ escaped' = escaped) \/ escaped' = TRUE
  /\ UNCHANGED <<debugInfo, ran>>

Terminated == contexts' = <<>> /\ runs' = <<>> /\ debugInfo' = <<>>

\* The frames and defers stay when only the height of the stack changes.
LEMMA ResizedFields ==
  ASSUME NEW c \in Context, NEW sp \in Nat
  PROVE  /\ [c EXCEPT !.sp = sp] \in Context
         /\ [c EXCEPT !.sp = sp].frames = c.frames
         /\ [c EXCEPT !.sp = sp].defers = c.defers
         /\ Fp([c EXCEPT !.sp = sp]) = Fp(c)
BY DEF Context, Fp

\* What is known of an instruction of the current run.
LEMMA CurrentTypes ==
  ASSUME Sound, runs # <<>>
  PROVE  /\ contexts \in Seq(Context) /\ runs \in Seq(Run) /\ debugInfo \in Seq(Code)
         /\ Len(contexts) \in 1 .. Len(contexts) /\ Len(runs) \in 1 .. Len(runs)
         /\ Len(contexts) \in Nat /\ Len(runs) \in Nat
         /\ cp \in Context /\ ContextOK(cp) /\ run \in Run
         /\ run = runs[Len(runs)] /\ cp = contexts[Len(contexts)]
         /\ cp.sp \in Nat /\ Base(cp) \in Nat /\ Base(cp) <= cp.sp
         /\ cp.frames \in Seq(Frame) /\ Fp(cp) = Len(cp.frames)
         /\ Fp(cp) \in 1 .. MaxFrames /\ Fp(cp) \in Nat /\ Fp(cp) \in 1 .. Fp(cp)
         /\ cp.defers \in [1 .. MaxFrames -> Seq(Nat)]
<1>1. debugInfo \in Seq(Code) /\ cp \in Context
  BY CurrentFacts DEF Sound, SoundTypes, ContextOK
<1>2. Fp(cp) \in Nat \ {0}
  BY CurrentFacts, ContextFacts
<1>3. runs \in Seq(Run) /\ run \in Run
  <2>1. runs \in Seq(Run)
    BY LiveIsRun DEF Sound, SoundTypes
  <2> QED
    BY <2>1, CurrentFacts, ElementFacts DEF run
<1> QED
  BY <1>1, <1>2, <1>3, CurrentFacts, ContextFacts DEF run, cp, Fp

\* An instruction that leaves the stack at another height.
LEMMA ResizeWorks ==
  ASSUME Sound, runs # <<>>, NEW sp \in Nat, SetContext([cp EXCEPT !.sp = sp]),
         NEW e \in Run, runs' = [runs EXCEPT ![Len(runs)] = e],
         e.nested = run.nested,
         e.phase \in {"returning", "halting"} => e.left = cp.defers[Fp(cp)],
         UNCHANGED <<debugInfo, ran, escaped>>
  PROVE  \E d \in Context : Works(d)
<1> DEFINE d == [cp EXCEPT !.sp = sp]
<1>1. cp \in Context
  BY CurrentTypes
<1>2. d \in Context /\ d.frames = cp.frames /\ d.defers = cp.defers /\ Fp(d) = Fp(cp)
  BY <1>1, ResizedFields
<1>3. contexts' = [contexts EXCEPT ![Len(contexts)] = d]
  BY DEF SetContext
<1> HIDE DEF d
<1>4. Works(d)
  BY <1>2, <1>3 DEF Works, Replaced
<1> QED
  BY <1>2, <1>4

\* callClosure puts a frame above the others.
LEMMA ClosureEnters ==
  ASSUME Sound, runs # <<>>, run.phase = "step", NEW f \in Function,
         NEW sp \in Nat, NEW count \in Nat, NEW due \in Nat, NEW extra \in {0, 1},
         Base(cp) < sp - count,
         EnterClosure(f, sp, count, due, extra)
  PROVE  \E d \in Context : Enters(f, d)
<1> DEFINE bp == sp - count
           frame == [code |-> f, bp |-> bp, own |-> {}, due |-> due]
           fs == Append(cp.frames, frame)
           h == bp + Locals[f]
           c == [cp EXCEPT !.sp = h, !.frames = fs]
           d == [c EXCEPT !.sp = @ + extra]
<1>1. cp \in Context /\ cp.frames \in Seq(Frame) /\ Base(cp) \in Nat
  BY CurrentTypes
<1>2. bp \in Nat /\ h \in Nat /\ h + extra \in Nat
  BY <1>1, FunctionAssumption
<1>3. frame \in Frame /\ frame.code = f /\ frame.own = {}
  BY <1>2 DEF Frame, Code
<1>4. Accepts(f, count) /\ SetContext([Entered(f, sp, count, due) EXCEPT !.sp = @ + extra])
      /\ debugInfo' = Append(debugInfo, f)
      /\ UNCHANGED <<runs, ran, escaped>>
  BY DEF EnterClosure, Described, deferVars
<1>5. Entered(f, sp, count, due) = c
  <2>1. Packed(f, sp, count) - Params[f] = bp
    BY <1>4, PackedBase
  <2> QED
    BY <2>1 DEF Entered
<1> HIDE DEF frame
<1>6. fs \in Seq(Frame)
  BY <1>1, <1>3
<1> HIDE DEF fs, h, bp
<1>7. c = [sp |-> h, frames |-> fs, defers |-> cp.defers]
  <2> DEFINE a == [cp EXCEPT !.sp = h]
  <2>1. cp = [sp |-> cp.sp, frames |-> cp.frames, defers |-> cp.defers]
    BY CurrentTypes, ContextFacts
  <2>2. a = [sp |-> h, frames |-> cp.frames, defers |-> cp.defers]
    BY ONLY <2>1
  <2>3. c = [a EXCEPT !.frames = fs]
    OBVIOUS
  <2> HIDE DEF a, c
  <2> QED
    BY ONLY <2>2, <2>3
<1> HIDE DEF c
<1>8. d = [sp |-> h + extra, frames |-> fs, defers |-> cp.defers]
  BY <1>7
<1>9. d \in Context /\ d.frames = fs /\ d.defers = cp.defers
  BY <1>1, <1>2, <1>6, <1>8 DEF Context
<1>10. contexts' = [contexts EXCEPT ![Len(contexts)] = d]
  BY <1>4, <1>5 DEF SetContext
<1> HIDE DEF d
<1>11. Enters(f, d)
  <2>1. frame \in Frame /\ frame.code = f /\ frame.own = {}
        /\ d.frames = Append(cp.frames, frame)
    BY <1>3, <1>9 DEF fs
  <2> QED
    BY <1>4, <1>9, <1>10, <2>1 DEF Enters, Replaced
<1> QED
  BY <1>9, <1>11

\* What a sequence holds when something has been added to it.
LEMMA AppendRange ==
  ASSUME NEW S, NEW s \in Seq(S), NEW e \in S
  PROVE  Append(s, e) \in Seq(S) /\ Range(Append(s, e)) = Range(s) \cup {e}
<1>1. /\ DOMAIN Append(s, e) = 1 .. Len(s) + 1 /\ DOMAIN s = 1 .. Len(s)
      /\ Len(s) \in Nat /\ Append(s, e) \in Seq(S)
      /\ \A i \in 1 .. Len(s) : Append(s, e)[i] = s[i]
      /\ Append(s, e)[Len(s) + 1] = e
  OBVIOUS
<1> QED
  BY <1>1 DEF Range

\* The last element of a sequence, and those in front of it.
LEMMA FrontRange ==
  ASSUME NEW S, NEW s \in Seq(S), s # <<>>
  PROVE  Range(s) \subseteq Range(Front(s)) \cup {Last(s)}
<1>1. /\ Len(s) \in Nat \ {0} /\ DOMAIN s = 1 .. Len(s)
      /\ Front(s) \in Seq(S) /\ Len(Front(s)) = Len(s) - 1
      /\ \A i \in 1 .. Len(s) - 1 : Front(s)[i] = s[i]
  BY FrontFacts
<1>2. DOMAIN Front(s) = 1 .. Len(s) - 1
  BY <1>1
<1>3. ASSUME NEW i \in 1 .. Len(s) PROVE s[i] \in Range(Front(s)) \cup {Last(s)}
  <2>1. CASE i = Len(s)
    BY <2>1 DEF Last
  <2>2. CASE i # Len(s)
    <3>0. Len(s) \in Nat
      BY <1>1
    <3>1. i \in 1 .. Len(s) - 1
      BY ONLY <2>2, <3>0, i \in 1 .. Len(s)
    <3> QED
      BY <1>1, <1>2, <3>1 DEF Range
  <2> QED
    BY <2>1, <2>2
<1> QED
  BY <1>1, <1>3 DEF Range

\* A defer statement adds to the defers of the running call what it adds to
\* those of its frame slot.
LEMMA DeferWorks ==
  ASSUME Sound, Defer
  PROVE  \E d \in Context : Works(d)
<1> DEFINE c == cp
           k == Fp(cp)
           x == issued'
           fs == [cp.frames EXCEPT ![Fp(cp)].own = @ \cup {issued'}]
           ds == [cp.defers EXCEPT ![Fp(cp)] = Append(@, issued')]
           d == [sp |-> cp.sp - 1, frames |-> fs, defers |-> ds]
<1>1. /\ runs # <<>> /\ run.phase = "step" /\ HasOperands(1) /\ issued' = issued + 1
      /\ SetContext([c EXCEPT !.sp = @ - 1,
                              !.defers[k] = Append(@, x),
                              !.frames[k].own = @ \cup {x}])
      /\ UNCHANGED <<runs, debugInfo, ran, escaped>>
  BY DEF Defer, InPhase
<1>2. /\ c \in Context /\ c = [sp |-> c.sp, frames |-> c.frames, defers |-> c.defers]
      /\ c.sp \in Nat /\ c.sp - 1 \in Nat
      /\ c.frames \in Seq(Frame) /\ k = Len(c.frames) /\ k \in 1 .. Len(c.frames)
      /\ k \in 1 .. MaxFrames /\ c.defers \in [1 .. MaxFrames -> Seq(Nat)]
      /\ x \in Nat
  <2>1. issued \in Nat
    BY DEF Sound, SoundTypes
  <2> QED
    BY <1>1, <2>1, CurrentTypes, ContextFacts DEF HasOperands
<1> HIDE DEF c, k, x
<1> DEFINE frame == [c.frames[k] EXCEPT !.own = @ \cup {x}]
           list == Append(c.defers[k], x)
<1>3. /\ frame \in Frame /\ frame.code = c.frames[k].code
      /\ frame.own = c.frames[k].own \cup {x}
  <2>1. c.frames[k] \in Frame
    BY <1>2, ElementFacts
  <2> QED
    BY <1>2, <2>1 DEF Frame
<1>4. list \in Seq(Nat) /\ Range(list) = Range(c.defers[k]) \cup {x}
  <2>1. c.defers[k] \in Seq(Nat) /\ x \in Nat
    BY <1>2
  <2> QED
    BY ONLY <2>1, AppendRange
<1>5. fs = [c.frames EXCEPT ![k] = frame] /\ ds = [c.defers EXCEPT ![k] = list]
  BY DEF c, k, x
<1> HIDE DEF fs, ds, frame, list
<1>6. /\ fs \in Seq(Frame) /\ Len(fs) = k /\ fs[k] = frame
      /\ \A i \in 1 .. k : i # k => fs[i] = c.frames[i]
  BY <1>2, <1>3, <1>5, ReplaceFacts
<1>7. /\ ds \in [1 .. MaxFrames -> Seq(Nat)] /\ ds[k] = list
      /\ \A i \in 1 .. MaxFrames : i # k => ds[i] = c.defers[i]
  BY <1>2, <1>4, <1>5
<1>8. d \in Context /\ d.frames = fs /\ d.defers = ds /\ Fp(d) = k
  BY <1>2, <1>6, <1>7 DEF Context, Fp, c
<1>9. [c EXCEPT !.sp = @ - 1, !.defers[k] = Append(@, x), !.frames[k].own = @ \cup {x}] = d
  <2> DEFINE a == [c EXCEPT !.sp = @ - 1]
             b == [a EXCEPT !.defers[k] = Append(@, x)]
             g == [b EXCEPT !.frames[k].own = @ \cup {x}]
  <2>1. a = [sp |-> c.sp - 1, frames |-> c.frames, defers |-> c.defers]
    BY ONLY <1>2
  <2> HIDE DEF a
  <2>2. b = [sp |-> c.sp - 1, frames |-> c.frames, defers |-> ds]
    <3>1. b = [a EXCEPT !.defers = [a.defers EXCEPT ![k] = Append(@, x)]]
      OBVIOUS
    <3>2. a.defers = c.defers
      BY ONLY <2>1
    <3>3. b = [a EXCEPT !.defers = ds]
      BY ONLY <1>5, <3>1, <3>2 DEF list
    <3> QED
      BY ONLY <2>1, <3>3
  <2> HIDE DEF b
  <2>3. g = [sp |-> c.sp - 1, frames |-> fs, defers |-> ds]
    <3>1. g = [b EXCEPT !.frames = [b.frames EXCEPT ![k] = [b.frames[k] EXCEPT !.own = @ \cup {x}]]]
      OBVIOUS
    <3>2. b.frames = c.frames
      BY ONLY <2>2
    <3>3. g = [b EXCEPT !.frames = fs]
      BY ONLY <1>5, <3>1, <3>2 DEF frame
    <3> QED
      BY ONLY <2>2, <3>3
  <2> HIDE DEF g
  <2> QED
    BY ONLY <2>3 DEF a, b, g, c
<1>10. contexts' = [contexts EXCEPT ![Len(contexts)] = d]
  BY <1>1, <1>9 DEF SetContext
<1> HIDE DEF d
<1>11. ASSUME NEW i \in 1 .. k
       PROVE  /\ d.frames[i].code = c.frames[i].code
              /\ c.frames[i].own \subseteq Range(c.defers[i])
                   => d.frames[i].own \subseteq Range(d.defers[i])
  <2>1. i \in 1 .. MaxFrames
    BY <1>2, BoundAssumption
  <2>2. CASE i = k
    BY <1>3, <1>4, <1>6, <1>7, <1>8, <2>2
  <2>3. CASE i # k
    BY <1>6, <1>7, <1>8, <2>1, <2>3
  <2> QED
    BY <2>2, <2>3
<1>12. run \in Run /\ runs' = [runs EXCEPT ![Len(runs)] = run]
  BY <1>1, CurrentTypes
<1>13. Works(d)
  BY <1>1, <1>8, <1>10, <1>11, <1>12 DEF Works, Replaced, c, k
<1> QED
  BY <1>8, <1>13

\* Every step is one of these.
LEMMA SoundShape ==
  ASSUME Sound, Next
  PROVE  \/ \E d \in Context : Works(d)
         \/ \E f \in Function, d \in Context : Enters(f, d)
         \/ \E d \in Context : Leaves(d)
         \/ \E code \in {"source", "call"}, rs \in Seq(Run) : Starts(code, rs)
         \/ \E r \in 1 .. Len(runs) : Ends(r)
         \/ Terminated
<1> DEFINE Shape == \/ \E d \in Context : Works(d)
                    \/ \E f \in Function, d \in Context : Enters(f, d)
                    \/ \E d \in Context : Leaves(d)
                    \/ \E code \in {"source", "call"}, rs \in Seq(Run) : Starts(code, rs)
                    \/ \E r \in 1 .. Len(runs) : Ends(r)
                    \/ Terminated
<1>0. /\ contexts \in Seq(Context) /\ runs \in Seq(Run) /\ debugInfo \in Seq(Code)
      /\ issued \in Nat /\ ran \subseteq Nat /\ escaped \in BOOLEAN
  BY LiveIsRun DEF Sound, SoundTypes
<1>w. ASSUME NEW d \in Context, Works(d) PROVE Shape
  BY <1>w
<1>1. CASE StartScript
  <2>1. /\ contexts' = Append(contexts, NewContext("source"))
        /\ runs' = Append(runs, NewRun) /\ debugInfo' = Append(debugInfo, "source")
        /\ UNCHANGED <<ran, escaped>>
    BY <1>1 DEF StartScript, StartRun, Described, deferVars
  <2>2. Starts("source", runs)
    BY <1>0, <2>1 DEF Starts
  <2> QED
    BY <1>0, <2>2
<1>2. CASE Operate
  <2>1. PICK h \in Base(cp) .. StackSize : SetContext([cp EXCEPT !.sp = h])
    BY <1>2 DEF Operate
  <2>2. runs # <<>> /\ run.phase = "step" /\ UNCHANGED <<runs, debugInfo, ran, escaped>>
    BY <1>2 DEF Operate, InPhase, deferVars
  <2>3. h \in Nat
    BY <2>2, CurrentTypes, BoundAssumption
  <2>4. run \in Run /\ runs' = [runs EXCEPT ![Len(runs)] = run]
    BY <1>0, <2>2, CurrentTypes
  <2> QED
    BY <2>1, <2>2, <2>3, <2>4, ResizeWorks
<1>3. ASSUME NEW f \in Function, NEW count \in 0 .. MaxArgs, CallClosure(f, count)
      PROVE  Shape
  <2>1. runs # <<>> /\ run.phase = "step" /\ HasOperands(count + 1)
        /\ EnterClosure(f, cp.sp, count, cp.sp - count, 0)
    BY <1>3 DEF CallClosure, InPhase
  <2>0. count \in Nat /\ cp.sp \in Nat /\ Base(cp) \in Nat
        /\ Base(cp) + (count + 1) <= cp.sp
    BY <2>1, CurrentTypes, BoundAssumption DEF HasOperands
  <2>2. Base(cp) < cp.sp - count /\ cp.sp - count \in Nat
    BY ONLY <2>0
  <2> QED
    BY <2>0, <2>1, <2>2, ClosureEnters
<1>4. ASSUME NEW f \in Function, NEW count \in 0 .. MaxArgs, CallBounded(f, count)
      PROVE  Shape
  <2>1. runs # <<>> /\ run.phase = "step" /\ HasOperands(count + 1)
        /\ EnterClosure(f, cp.sp + 1, count + 1, cp.sp - count, 0)
    BY <1>4 DEF CallBounded, InPhase
  <2>2. count \in Nat /\ cp.sp \in Nat /\ Base(cp) \in Nat
        /\ Base(cp) + (count + 1) <= cp.sp
    BY <2>1, CurrentTypes, BoundAssumption DEF HasOperands
  <2>3. /\ count + 1 \in Nat /\ cp.sp + 1 \in Nat /\ cp.sp - count \in Nat
        /\ Base(cp) < (cp.sp + 1) - (count + 1)
    BY ONLY <2>2
  <2> QED
    BY <2>1, <2>3, ClosureEnters
<1>5. ASSUME NEW f \in Function, CallSetIndex(f)
      PROVE  Shape
  <2>1. runs # <<>> /\ run.phase = "step" /\ HasOperands(3)
        /\ EnterClosure(f, cp.sp + 1, 3, cp.sp - 2, 1)
    BY <1>5 DEF CallSetIndex, InPhase
  <2>0. cp.sp \in Nat /\ Base(cp) \in Nat /\ Base(cp) + 3 <= cp.sp
    BY <2>1, CurrentTypes DEF HasOperands
  <2>2. /\ cp.sp + 1 \in Nat /\ cp.sp - 2 \in Nat
        /\ Base(cp) < (cp.sp + 1) - 3
    BY ONLY <2>0
  <2> QED
    BY <2>1, <2>2, ClosureEnters
<1>6. ASSUME NEW count \in 0 .. MaxArgs, NEW push \in {1, 2}, CallBuiltin(count, push)
      PROVE  Shape
  <2> DEFINE e == [run EXCEPT !.phase = "builtin", !.push = push]
  <2>1. /\ runs # <<>> /\ HasOperands(count + 1)
        /\ SetContext([cp EXCEPT !.sp = cp.sp - (count + 1)])
        /\ runs' = [runs EXCEPT ![Len(runs)].phase = "builtin", ![Len(runs)].push = push]
        /\ UNCHANGED <<debugInfo, ran, escaped>>
    BY <1>6 DEF CallBuiltin, InPhase, deferVars
  <2>0. count \in Nat /\ cp.sp \in Nat /\ Base(cp) \in Nat
        /\ Base(cp) + (count + 1) <= cp.sp
    BY <2>1, CurrentTypes, BoundAssumption DEF HasOperands
  <2>2. cp.sp - (count + 1) \in Nat
    BY ONLY <2>0
  <2>3. runs' = [runs EXCEPT ![Len(runs)] = e]
    BY <1>0, <2>1, CurrentTypes
  <2>4. e \in Run /\ e.nested = run.nested /\ e.phase = "builtin"
    BY <2>1, CurrentTypes DEF Run
  <2> HIDE DEF e
  <2> QED
    BY <2>1, <2>2, <2>3, <2>4, ResizeWorks
<1>7. ASSUME NEW code \in {"source", "call"}, BuiltinRuns(code)
      PROVE  Shape
  <2>1. /\ contexts' = Append(contexts, NewContext(code))
        /\ runs' = Append(runs, NewRun) /\ debugInfo' = Append(debugInfo, code)
        /\ UNCHANGED <<ran, escaped>>
    BY <1>7 DEF BuiltinRuns, StartRun, Described, deferVars
  <2>2. Starts(code, runs)
    BY <1>0, <2>1 DEF Starts
  <2> QED
    BY <1>0, <2>2
<1>8. CASE BuiltinReturns
  <2> DEFINE e == [run EXCEPT !.phase = "step", !.push = 1]
  <2>1. /\ runs # <<>>
        /\ SetContext([cp EXCEPT !.sp = cp.sp + run.push])
        /\ runs' = [runs EXCEPT ![Len(runs)].phase = "step", ![Len(runs)].push = 1]
        /\ UNCHANGED <<debugInfo, ran, escaped>>
    BY <1>8 DEF BuiltinReturns, InPhase, deferVars
  <2>2. cp.sp + run.push \in Nat
    BY <2>1, CurrentTypes DEF Run
  <2>3. runs' = [runs EXCEPT ![Len(runs)] = e]
    BY <1>0, <2>1, CurrentTypes
  <2>4. e \in Run /\ e.nested = run.nested /\ e.phase = "step"
    BY <2>1, CurrentTypes DEF Run
  <2> HIDE DEF e
  <2> QED
    BY <2>1, <2>2, <2>3, <2>4, ResizeWorks
<1>9. CASE Defer
  BY <1>0, <1>9, DeferWorks
<1>10. CASE BeginReturn
  <2> DEFINE e == [run EXCEPT !.phase = "returning", !.left = Pending(cp)]
  <2>1. /\ runs # <<>> /\ HasOperands(1)
        /\ SetContext([cp EXCEPT !.sp = cp.sp - 1])
        /\ runs' = [runs EXCEPT ![Len(runs)].phase = "returning",
                                ![Len(runs)].left = Pending(cp)]
        /\ UNCHANGED <<debugInfo, ran, escaped>>
    BY <1>10 DEF BeginReturn, InPhase, deferVars
  <2>2. cp.sp - 1 \in Nat
    BY <2>1, CurrentTypes DEF HasOperands
  <2>3. runs' = [runs EXCEPT ![Len(runs)] = e]
    BY <1>0, <2>1, CurrentTypes
  <2>4. e \in Run /\ e.nested = run.nested /\ e.left = cp.defers[Fp(cp)]
    BY <2>1, CurrentTypes DEF Run, Pending
  <2> HIDE DEF e
  <2> QED
    BY <2>1, <2>2, <2>3, <2>4, ResizeWorks
<1>11. CASE BeginHalt
  <2> DEFINE e == [run EXCEPT !.phase = "halting", !.left = Pending(cp)]
  <2>1. /\ runs # <<>> /\ contexts' = contexts
        /\ runs' = [runs EXCEPT ![Len(runs)].phase = "halting",
                                ![Len(runs)].left = Pending(cp)]
        /\ UNCHANGED <<debugInfo, ran, escaped>>
    BY <1>11 DEF BeginHalt, InPhase, deferVars
  <2>2. contexts' = [contexts EXCEPT ![Len(contexts)] = cp] /\ cp \in Context
    BY <1>0, <2>1, CurrentTypes
  <2>3. runs' = [runs EXCEPT ![Len(runs)] = e]
    BY <1>0, <2>1, CurrentTypes
  <2>4. e \in Run /\ e.nested = run.nested /\ e.left = cp.defers[Fp(cp)]
    BY <2>1, CurrentTypes DEF Run, Pending
  <2> HIDE DEF e
  <2>5. Works(cp)
    BY <2>1, <2>2, <2>3, <2>4 DEF Works, Replaced
  <2> QED
    BY <2>2, <2>5
<1>12. CASE RunDeferred
  <2> DEFINE rs == [runs EXCEPT ![Len(runs)].left = Front(@)]
             e == [run EXCEPT !.left = Front(run.left)]
  <2>1. /\ runs # <<>> /\ run.left # <<>>
        /\ contexts' = Append(contexts, NewContext("call"))
        /\ runs' = Append(rs, NewRun) /\ debugInfo' = Append(debugInfo, "call")
        /\ ran' = ran \cup {Last(run.left)} /\ UNCHANGED escaped
    BY <1>12 DEF RunDeferred, InPhase, StartRun, Described
  <2>2. run.left \in Seq(Nat) /\ run \in Run
    BY <2>1, CurrentTypes DEF Run
  <2>3. /\ Front(run.left) \in Seq(Nat)
        /\ Range(run.left) \subseteq Range(Front(run.left)) \cup {Last(run.left)}
    BY <2>1, <2>2, FrontFacts, FrontRange
  <2>4. e \in Run /\ e.phase = run.phase /\ e.left = Front(run.left)
    BY <2>2, <2>3 DEF Run
  <2>5. rs = [runs EXCEPT ![Len(runs)] = e]
    BY <1>0, <2>1, CurrentTypes
  <2> HIDE DEF rs, e
  <2>6. /\ rs \in Seq(Run) /\ Len(rs) = Len(runs) /\ rs[Len(runs)] = e
        /\ \A i \in 1 .. Len(runs) : i # Len(runs) => rs[i] = runs[i]
    BY <1>0, <2>1, <2>4, <2>5, CurrentTypes, ReplaceFacts
  <2>7. ASSUME NEW i \in 1 .. Len(runs)
        PROVE  /\ rs[i].phase = runs[i].phase
               /\ ran \cup Range(runs[i].left) \subseteq ran' \cup Range(rs[i].left)
    <3>1. CASE i = Len(runs)
      <4>1. runs[i] = run /\ rs[i] = e
        BY <2>6, <3>1 DEF run
      <4> QED
        BY <2>1, <2>3, <2>4, <4>1
    <3>2. CASE i # Len(runs)
      BY <2>1, <2>6, <3>2
    <3> QED
      BY <3>1, <3>2
  <2>8. Starts("call", rs)
    BY <2>1, <2>6, <2>7 DEF Starts
  <2> QED
    BY <2>6, <2>8
<1>13. ASSUME NEW phase \in {"step", "lost"}, runs # <<>>, PopFrame(phase)
       PROVE  Shape
  <2> DEFINE e == [run EXCEPT !.phase = phase]
             d == Returned(cp)
  <2>1. /\ SetContext(Returned(cp))
        /\ runs' = [runs EXCEPT ![Len(runs)].phase = phase]
        /\ debugInfo' = Front(debugInfo)
        /\ UNCHANGED <<ran, escaped>>
    BY <1>13 DEF PopFrame, InfoPopped, deferVars
  <2>2. runs' = [runs EXCEPT ![Len(runs)] = e]
    BY <1>0, <1>13, <2>1, CurrentTypes
  <2>3. e \in Run /\ e.nested = run.nested /\ e.phase \in {"step", "lost"}
    BY <1>13, CurrentTypes DEF Run
  <2> HIDE DEF e
  <2>6. d \in Context /\ d.frames = Front(cp.frames) /\ d.defers = cp.defers
    BY <1>13, CurrentTypes, ReturnedFields
  <2> HIDE DEF d
  <2>7. contexts' = [contexts EXCEPT ![Len(contexts)] = d]
    BY <2>1 DEF SetContext, d
  <2>8. Leaves(d)
    BY <1>13, <2>1, <2>2, <2>3, <2>6, <2>7 DEF Leaves, Replaced
  <2> QED
    BY <2>6, <2>8
<1>17. CASE FinishReturn \/ ReturnFromScript
  BY <1>13, <1>17 DEF FinishReturn, ReturnFromScript, InPhase
<1>14. CASE FinishHalt \/ Fail
  <2>1. runs # <<>> /\ EndRun(Len(runs)) /\ UNCHANGED <<ran, escaped>>
    BY <1>14 DEF FinishHalt, Fail, InPhase, deferVars
  <2>2. Ends(Len(runs))
    BY <2>1, CurrentTypes DEF Ends, EndRun, ContextPopped
  <2> QED
    BY <2>1, <2>2, CurrentTypes
<1>15. CASE Throw
  <2>1. PICK r \in DOMAIN runs : EndRun(r)
    BY <1>15 DEF Throw
  <2>2. r \in 1 .. Len(runs) /\ runs # <<>> /\ escaped' = TRUE /\ UNCHANGED ran
    BY <1>0, <1>15 DEF Throw, InPhase, deferVars
  <2>3. Ends(r)
    BY <2>1, <2>2 DEF Ends, EndRun, ContextPopped
  <2> QED
    BY <2>2, <2>3
<1>16. CASE Terminate
  BY <1>16 DEF Terminate, Terminated
<1> QED
  BY <1>1, <1>2, <1>3, <1>4, <1>5, <1>6, <1>7, <1>8, <1>9, <1>10, <1>11, <1>12,
     <1>14, <1>15, <1>16, <1>17 DEF Next

\* So is every step of the system: when the loop is lost, only the process ends.
LEMMA NextShape ==
  ASSUME IndInv, Next
  PROVE  \/ \E d \in Context : Works(d)
         \/ \E f \in Function, d \in Context : Enters(f, d)
         \/ \E d \in Context : Leaves(d)
         \/ \E code \in {"source", "call"}, rs \in Seq(Run) : Starts(code, rs)
         \/ \E r \in 1 .. Len(runs) : Ends(r)
         \/ Terminated
<1>1. CASE InPhase({"lost"})
  BY <1>1, LostEnds DEF Terminate, Terminated
<1>2. CASE ~InPhase({"lost"})
  BY <1>2, IndInvIsSound, SoundShape
<1> QED
  BY <1>1, <1>2

\* The contexts after the current one has become d.
LEMMA ReplacedFacts ==
  ASSUME IndInv, NEW d, Replaced(d)
  PROVE  /\ Len(contexts') = Len(contexts) /\ contexts' \in Seq(Context)
         /\ contexts'[Len(contexts)] = d /\ cp' = d
         /\ \A i \in 1 .. Len(contexts) : i # Len(contexts) => contexts'[i] = contexts[i]
<1>1. Sound /\ runs # <<>> /\ d \in Context /\ contexts' = [contexts EXCEPT ![Len(contexts)] = d]
  BY DEF Replaced
<1>2. contexts \in Seq(Context) /\ Len(contexts) \in 1 .. Len(contexts)
  BY <1>1, CurrentTypes
<1>3. /\ Len(contexts') = Len(contexts) /\ contexts' \in Seq(Context)
      /\ contexts'[Len(contexts)] = d
      /\ \A i \in 1 .. Len(contexts) : i # Len(contexts) => contexts'[i] = contexts[i]
  BY ONLY <1>1, <1>2, ReplaceFacts
<1> QED
  BY <1>3 DEF cp
-----------------------------------------------------------------------------
(* The number of entries of debugInfo.                                     *)

\* The contexts cs have no more than m frames: calls[i] counts those of the
\* first i contexts.
Counts(calls, cs) ==
  /\ calls \in [0 .. Len(cs) -> Nat]
  /\ calls[0] = 0
  /\ \A i \in 1 .. Len(cs) : calls[i] = calls[i - 1] + Fp(cs[i])
  /\ \A i, h \in 0 .. Len(cs) : i <= h => calls[i] <= calls[h]
Counted(cs, m) == \E calls : Counts(calls, cs) /\ calls[Len(cs)] <= m

\* The last context has other frames, and the bound moves as much.
LEMMA CountedLast ==
  ASSUME NEW cs, NEW ds, NEW n \in Nat \ {0}, Len(cs) = n, Len(ds) = n,
         \A i \in 1 .. n : i # n => ds[i] = cs[i],
         Fp(cs[n]) \in Nat, Fp(ds[n]) \in Nat, NEW m \in Nat, NEW k \in Nat,
         Fp(ds[n]) + m <= Fp(cs[n]) + k,
         Counted(cs, m)
  PROVE  Counted(ds, k)
<1>1. PICK calls : Counts(calls, cs) /\ calls[n] <= m
  BY DEF Counted
<1>2. /\ calls \in [0 .. n -> Nat] /\ calls[0] = 0
      /\ \A i \in 1 .. n : calls[i] = calls[i - 1] + Fp(cs[i])
      /\ \A i, h \in 0 .. n : i <= h => calls[i] <= calls[h]
  BY <1>1 DEF Counts
<1>3. n - 1 \in 0 .. n /\ n \in 0 .. n /\ 0 \in 0 .. n /\ n \in 1 .. n /\ 0 # n
  OBVIOUS
<1>4. calls[n - 1] \in Nat /\ calls[n] = calls[n - 1] + Fp(cs[n])
  BY <1>2, <1>3
<1> DEFINE top == calls[n - 1] + Fp(ds[n])
           new == [calls EXCEPT ![n] = top]
<1>5. top \in Nat /\ top <= k
  BY <1>1, <1>4
<1> HIDE DEF top
<1>6. /\ new \in [0 .. n -> Nat] /\ new[n] = top
      /\ \A i \in 0 .. n : i # n => new[i] = calls[i]
  BY <1>2, <1>3, <1>5
<1> HIDE DEF new
<1>7. ASSUME NEW i \in 1 .. n PROVE new[i] = new[i - 1] + Fp(ds[i])
  <2>1. i \in 0 .. n /\ i - 1 \in 0 .. n /\ i - 1 # n
    OBVIOUS
  <2>2. CASE i = n
    BY <1>6, <2>1, <2>2 DEF top
  <2>3. CASE i # n
    BY <1>2, <1>6, <2>1, <2>3
  <2> QED
    BY <2>2, <2>3
<1>8. ASSUME NEW i \in 0 .. n, NEW h \in 0 .. n, i <= h PROVE new[i] <= new[h]
  <2>1. CASE h # n
    <3>1. i # n
      BY <1>8, <2>1
    <3> QED
      BY <1>2, <1>6, <1>8, <2>1, <3>1
  <2>2. CASE h = n /\ i = n
    BY <1>5, <1>6, <2>2
  <2>3. CASE h = n /\ i # n
    <3>1. i <= n - 1
      BY <2>3
    <3>2. calls[i] \in Nat /\ calls[i] <= calls[n - 1]
      BY <1>2, <1>3, <3>1
    <3>3. calls[i] <= top
      BY <1>4, <3>2 DEF top
    <3> QED
      BY <1>6, <2>3, <3>3
  <2> QED
    BY <2>1, <2>2, <2>3
<1>9. Counts(new, ds) /\ new[Len(ds)] <= k
  BY <1>3, <1>2, <1>5, <1>6, <1>7, <1>8 DEF Counts
<1> QED
  BY <1>9 DEF Counted

\* One more context, with one frame.
LEMMA CountedAppend ==
  ASSUME NEW cs, NEW ds, NEW n \in Nat, Len(cs) = n, Len(ds) = n + 1,
         \A i \in 1 .. n : ds[i] = cs[i],
         Fp(ds[n + 1]) = 1, NEW m \in Nat, Counted(cs, m)
  PROVE  Counted(ds, m + 1)
<1>1. PICK calls : Counts(calls, cs) /\ calls[n] <= m
  BY DEF Counted
<1>2. /\ calls \in [0 .. n -> Nat] /\ calls[0] = 0
      /\ \A i \in 1 .. n : calls[i] = calls[i - 1] + Fp(cs[i])
      /\ \A i, h \in 0 .. n : i <= h => calls[i] <= calls[h]
  BY <1>1 DEF Counts
<1>3. n \in 0 .. n /\ calls[n] \in Nat
  BY <1>2
<1> DEFINE new == [i \in 0 .. n + 1 |-> IF i = n + 1 THEN calls[n] + 1 ELSE calls[i]]
<1>4. \A i \in 0 .. n + 1 : i # n + 1 => i \in 0 .. n
  OBVIOUS
<1>5. /\ new \in [0 .. n + 1 -> Nat] /\ new[n + 1] = calls[n] + 1
      /\ \A i \in 0 .. n : new[i] = calls[i]
  BY <1>2, <1>3, <1>4
<1> HIDE DEF new
<1>6. ASSUME NEW i \in 1 .. n + 1 PROVE new[i] = new[i - 1] + Fp(ds[i])
  <2>1. CASE i = n + 1
    BY <1>3, <1>5, <2>1
  <2>2. CASE i # n + 1
    <3>1. i \in 1 .. n /\ i \in 0 .. n /\ i - 1 \in 0 .. n
      BY <2>2
    <3> QED
      BY <1>2, <1>5, <3>1
  <2> QED
    BY <2>1, <2>2
<1>7. ASSUME NEW i \in 0 .. n + 1, NEW h \in 0 .. n + 1, i <= h PROVE new[i] <= new[h]
  <2>1. CASE h # n + 1
    <3>1. i \in 0 .. n /\ h \in 0 .. n
      BY <1>7, <2>1
    <3> QED
      BY <1>2, <1>5, <1>7, <3>1
  <2>2. CASE h = n + 1 /\ i = n + 1
    BY <1>3, <1>5, <2>2
  <2>3. CASE h = n + 1 /\ i # n + 1
    <3>1. i \in 0 .. n /\ i <= n
      BY <2>3
    <3>2. calls[i] \in Nat /\ calls[i] <= calls[n]
      BY <1>2, <1>3, <3>1
    <3> QED
      BY <1>3, <1>5, <2>3, <3>1, <3>2
  <2> QED
    BY <2>1, <2>2, <2>3
<1>8. new[0] = 0
  BY <1>2, <1>5
<1>9. new[n + 1] <= m + 1
  BY <1>1, <1>3, <1>5
<1>10. Counts(new, ds) /\ new[Len(ds)] <= m + 1
  BY <1>5, <1>6, <1>7, <1>8, <1>9 DEF Counts
<1> QED
  BY <1>10 DEF Counted

\* Without the last context.
LEMMA CountedFront ==
  ASSUME NEW cs, NEW ds, NEW n \in Nat \ {0}, Len(cs) = n, Len(ds) = n - 1,
         \A i \in 1 .. n - 1 : ds[i] = cs[i], NEW m \in Nat, Counted(cs, m)
  PROVE  Counted(ds, m)
<1>1. PICK calls : Counts(calls, cs) /\ calls[n] <= m
  BY DEF Counted
<1>2. /\ calls \in [0 .. n -> Nat] /\ calls[0] = 0
      /\ \A i \in 1 .. n : calls[i] = calls[i - 1] + Fp(cs[i])
      /\ \A i, h \in 0 .. n : i <= h => calls[i] <= calls[h]
  BY <1>1 DEF Counts
<1> DEFINE new == [i \in 0 .. n - 1 |-> calls[i]]
<1>3. \A i \in 0 .. n - 1 : i \in 0 .. n /\ new[i] = calls[i]
  OBVIOUS
<1>4. new \in [0 .. n - 1 -> Nat]
  BY <1>2, <1>3
<1> HIDE DEF new
<1>5. \A i \in 1 .. n - 1 : new[i] = new[i - 1] + Fp(ds[i])
  <2> TAKE i \in 1 .. n - 1
  <2>1. i \in 0 .. n - 1 /\ i - 1 \in 0 .. n - 1 /\ i \in 1 .. n
    OBVIOUS
  <2> QED
    BY <1>2, <1>3, <2>1
<1>6. \A i, h \in 0 .. n - 1 : i <= h => new[i] <= new[h]
  BY <1>2, <1>3
<1>7. new[0] = 0
  BY <1>2, <1>3
<1>8. new[n - 1] <= m
  <2>1. n - 1 \in 0 .. n /\ n \in 0 .. n /\ n - 1 <= n /\ n - 1 \in 0 .. n - 1
    OBVIOUS
  <2>2. calls[n - 1] <= calls[n] /\ calls[n - 1] \in Nat /\ calls[n] \in Nat
    BY <1>2, <2>1
  <2> QED
    BY <1>1, <1>3, <2>1, <2>2
<1>9. Counts(new, ds) /\ new[Len(ds)] <= m
  BY <1>4, <1>5, <1>6, <1>7, <1>8 DEF Counts
<1> QED
  BY <1>9 DEF Counted

\* Every step keeps the count: debugInfo grows and shrinks with the frames,
\* and only grows when contexts come.
LEMMA NextCounted ==
  ASSUME IndInv, Counted(contexts, Len(debugInfo)), Next, IndInv'
  PROVE  Counted(contexts', Len(debugInfo'))
<1> DEFINE n == Len(contexts)
           m == Len(debugInfo)
           cs == contexts
           ds == contexts'
           k == Len(debugInfo')
<1>0. /\ contexts \in Seq(Context) /\ debugInfo \in Seq(Code) /\ runs \in Seq(Run)
      /\ contexts' \in Seq(Context) /\ debugInfo' \in Seq(Code)
      /\ n \in Nat /\ m \in Nat /\ k \in Nat
  BY DEF IndInv, TypeOK
\* The last context has other frames.
<1>r. ASSUME NEW d \in Context, Replaced(d), Fp(d) \in Nat, Fp(d) + m <= Fp(cp) + k
      PROVE  Counted(contexts', Len(debugInfo'))
  <2>1. /\ n \in Nat \ {0} /\ Fp(cs[n]) \in Nat /\ cp = cs[n]
    BY <1>r, CurrentTypes DEF Replaced
  <2>2. /\ Len(ds) = n /\ ds[n] = d
        /\ \A i \in 1 .. n : i # n => ds[i] = cs[i]
    BY <1>r, ReplacedFacts
  <2>3. Counted(cs, m) /\ Len(cs) = n
    OBVIOUS
  <2> HIDE DEF n, m, k, cs, ds
  <2>4. Fp(ds[n]) \in Nat /\ Fp(ds[n]) + m <= Fp(cs[n]) + k
    BY <1>r, <2>1, <2>2
  <2>5. Counted(ds, k)
    BY ONLY <1>0, <2>1, <2>2, <2>3, <2>4, CountedLast
  <2> QED
    BY <2>5 DEF ds, k
<1>1. ASSUME NEW d \in Context, Works(d) PROVE Counted(contexts', Len(debugInfo'))
  <2>1. Replaced(d) /\ Fp(d) = Fp(cp) /\ k = m /\ Sound /\ runs # <<>>
    BY <1>1 DEF Works, Replaced
  <2>2. Fp(cp) \in Nat
    BY <2>1, CurrentTypes
  <2>3. Fp(d) \in Nat /\ Fp(d) + m <= Fp(cp) + k
    BY ONLY <1>0, <2>1, <2>2
  <2> QED
    BY <1>r, <2>1, <2>3
<1>2. ASSUME NEW f \in Function, NEW d \in Context, Enters(f, d)
      PROVE  Counted(contexts', Len(debugInfo'))
  <2>1. Replaced(d) /\ Sound /\ runs # <<>> /\ debugInfo' = Append(debugInfo, f) /\ f \in Code
    BY <1>2 DEF Enters, Replaced, Code
  <2>2. PICK frame \in Frame : d.frames = Append(cp.frames, frame)
    BY <1>2 DEF Enters
  <2>3. cp.frames \in Seq(Frame) /\ Fp(cp) = Len(cp.frames) /\ Fp(cp) \in Nat \ {0}
    BY <2>1, CurrentTypes
  <2>4. Fp(d) = Fp(cp) + 1 /\ k = m + 1
    BY <1>0, <2>1, <2>2, <2>3, AppendFacts DEF Fp
  <2>5. Fp(d) \in Nat /\ Fp(d) + m <= Fp(cp) + k
    <3>1. Fp(cp) \in Nat /\ m \in Nat
      BY <1>0, <2>3
    <3> HIDE DEF m, k
    <3> QED
      BY ONLY <2>4, <3>1
  <2> QED
    BY <1>r, <2>1, <2>5
<1>3. ASSUME NEW d \in Context, Leaves(d)
      PROVE  Counted(contexts', Len(debugInfo'))
  <2>1. /\ Replaced(d) /\ Sound /\ runs # <<>> /\ debugInfo' = Front(debugInfo)
        /\ d.frames = Front(cp.frames)
    BY <1>3 DEF Leaves, Replaced
  <2>2. cp.frames \in Seq(Frame) /\ Fp(cp) = Len(cp.frames) /\ Fp(cp) \in Nat \ {0}
    BY <2>1, CurrentTypes
  <2>3. cp.frames # <<>>
    BY <2>1, <2>2
  <2>4. Fp(d) = Fp(cp) - 1
    BY <2>1, <2>2, <2>3, FrontFacts DEF Fp
  <2>5. debugInfo # <<>> => k = m - 1
    BY <1>0, <2>1, FrontFacts
  <2>6. debugInfo # <<>>
    <3>1. PICK calls : Counts(calls, contexts) /\ calls[n] <= m
      BY DEF Counted
    <3>2. n \in 1 .. n /\ n \in 0 .. n /\ n - 1 \in 0 .. n /\ cp = contexts[n]
      BY <1>0, <2>1, CurrentTypes
    <3>3. calls[n] = calls[n - 1] + Fp(cp) /\ calls[n - 1] \in Nat
      BY <3>1, <3>2 DEF Counts
    <3>4. m # 0
      BY ONLY <1>0, <2>1, <2>2, <3>1, <3>3
    <3> QED
      BY <3>4
  <2>7. Fp(d) \in Nat /\ Fp(d) + m <= Fp(cp) + k
    BY ONLY <1>0, <2>1, <2>2, <2>4, <2>5, <2>6
  <2> QED
    BY <1>r, <2>1, <2>7
<1>4. ASSUME NEW code \in {"source", "call"}, NEW rs \in Seq(Run), Starts(code, rs)
      PROVE  Counted(contexts', Len(debugInfo'))
  <2> DEFINE new == NewContext(code)
  <2>1. contexts' = Append(contexts, new) /\ debugInfo' = Append(debugInfo, code)
        /\ code \in Code
    BY <1>4 DEF Starts, Code
  <2>2. Fp(new) = 1 /\ new \in Context
    BY BoundAssumption DEF NewContext, Fp, Context, Frame, Code
  <2> HIDE DEF new
  <2>3. /\ Len(ds) = n + 1 /\ ds[n + 1] = new
        /\ \A i \in 1 .. n : ds[i] = cs[i]
    BY <1>0, <2>1, <2>2, AppendFacts
  <2>4. k = m + 1
    BY <1>0, <2>1, AppendFacts
  <2>5. Counted(cs, m) /\ Len(cs) = n
    OBVIOUS
  <2>6. Fp(ds[n + 1]) = 1
    BY <2>2, <2>3
  <2> HIDE DEF n, m, k, cs, ds
  <2>7. Counted(ds, m + 1)
    BY ONLY <1>0, <2>3, <2>5, <2>6, CountedAppend
  <2> QED
    BY <2>4, <2>7 DEF ds, k
<1>5. ASSUME NEW r \in 1 .. Len(runs), Ends(r)
      PROVE  Counted(contexts', Len(debugInfo'))
  <2>1. contexts' = Front(contexts) /\ k = m /\ Sound /\ runs # <<>>
    BY <1>5 DEF Ends
  <2>2. n \in Nat \ {0} /\ contexts # <<>>
    BY <2>1, CurrentFacts, CurrentTypes
  <2>3. Len(ds) = n - 1 /\ \A i \in 1 .. n - 1 : ds[i] = cs[i]
    BY <1>0, <2>1, <2>2, FrontFacts
  <2>4. Counted(cs, m) /\ Len(cs) = n
    OBVIOUS
  <2> HIDE DEF n, m, k, cs, ds
  <2>5. Counted(ds, m)
    BY ONLY <1>0, <2>2, <2>3, <2>4, CountedFront
  <2> QED
    BY <2>1, <2>5 DEF ds, k
<1>6. CASE Terminated
  <2>1. contexts' = <<>> /\ Len(contexts') = 0 /\ debugInfo' = <<>> /\ k = 0
    BY <1>6 DEF Terminated
  <2> DEFINE calls == [i \in 0 .. 0 |-> 0]
  <2>2. /\ calls \in [0 .. 0 -> Nat] /\ \A i \in 0 .. 0 : calls[i] = 0
        /\ 0 \in 0 .. 0 /\ 1 .. 0 = {}
    OBVIOUS
  <2> HIDE DEF calls
  <2>3. Counts(calls, contexts') /\ calls[Len(contexts')] <= k
    BY <2>1, <2>2 DEF Counts
  <2> QED
    BY <2>3 DEF Counted
<1> QED
  BY <1>1, <1>2, <1>3, <1>4, <1>5, <1>6, NextShape
-----------------------------------------------------------------------------
(* What the entries of debugInfo describe.                                 *)

\* As long as no nested run has ended, the entries on top of debugInfo are
\* those of the frames of the current context.
LEMMA NextInfoInv ==
  ASSUME IndInv, InfoInv, Next, IndInv'
  PROVE  InfoInv'
<1> DEFINE m == Len(debugInfo)
           n == Fp(cp)
<1>0. /\ contexts \in Seq(Context) /\ debugInfo \in Seq(Code) /\ runs \in Seq(Run)
      /\ escaped \in BOOLEAN /\ runs' \in Seq(Run) /\ m \in Nat /\ Len(runs) \in Nat
  BY DEF IndInv, TypeOK
<1>1. ASSUME NEW d \in Context, Works(d) PROVE InfoInv'
  <2>1. /\ Replaced(d) /\ Sound /\ runs # <<>> /\ Fp(d) = n /\ UNCHANGED <<debugInfo, escaped>>
        /\ \A i \in 1 .. n : d.frames[i].code = cp.frames[i].code
    BY <1>1 DEF Works, Replaced
  <2>2. run'.nested = run.nested /\ cp' = d
    <3>1. PICK e \in Run : runs' = [runs EXCEPT ![Len(runs)] = e] /\ e.nested = run.nested
      BY <1>1 DEF Works
    <3>2. Len(runs') = Len(runs) /\ runs'[Len(runs)] = e
      BY <1>0, <2>1, <3>1, CurrentTypes, ReplaceFacts
    <3> QED
      BY <2>1, <3>1, <3>2, ReplacedFacts DEF run
  <2>3. Describes(cp) => Describes(cp)'
    BY <2>1, <2>2 DEF Describes
  <2> QED
    BY <2>1, <2>2, <2>3 DEF InfoInv
<1>2. ASSUME NEW f \in Function, NEW d \in Context, Enters(f, d) PROVE InfoInv'
  <2>1. /\ Replaced(d) /\ Sound /\ runs # <<>> /\ UNCHANGED <<runs, escaped>>
        /\ debugInfo' = Append(debugInfo, f) /\ f \in Code
    BY <1>2 DEF Enters, Replaced, Code
  <2>2. PICK frame \in Frame : frame.code = f /\ d.frames = Append(cp.frames, frame)
    BY <1>2 DEF Enters
  <2>3. cp.frames \in Seq(Frame) /\ n = Len(cp.frames) /\ n \in Nat \ {0}
    BY <2>1, CurrentTypes
  <2>4. /\ Fp(d) = n + 1 /\ d.frames[n + 1].code = f
        /\ \A i \in 1 .. n : d.frames[i] = cp.frames[i]
    BY <2>2, <2>3, AppendFacts DEF Fp
  <2>5. /\ Len(debugInfo') = m + 1 /\ debugInfo'[m + 1] = f
        /\ \A i \in 1 .. m : debugInfo'[i] = debugInfo[i]
    BY <1>0, <2>1, AppendFacts
  <2>6. run' = run /\ cp' = d
    BY <2>1, ReplacedFacts DEF run
  <2>7. ASSUME Describes(cp) PROVE Describes(cp)'
    <3>1. n <= m /\ \A i \in 1 .. n : debugInfo[m - n + i] = cp.frames[i].code
      BY <2>7 DEF Describes
    <3>2. ASSUME NEW i \in 1 .. n + 1
          PROVE  debugInfo'[(m + 1) - (n + 1) + i] = d.frames[i].code
      <4>1. (m + 1) - (n + 1) + i = m - n + i
        BY <1>0, <2>3
      <4>2. CASE i = n + 1
        <5>1. m - n + i = m + 1
          <6>1. m \in Nat /\ n \in Nat
            BY <1>0, <2>3
          <6> HIDE DEF m, n
          <6> QED
            BY ONLY <4>2, <6>1
        <5> QED
          BY <2>4, <2>5, <4>1, <4>2, <5>1
      <4>3. CASE i # n + 1
        <5>1. i \in 1 .. n
          BY <2>3, <4>3
        <5>2. m - n + i \in 1 .. m
          BY <1>0, <2>3, <3>1, <5>1
        <5> QED
          BY <2>4, <2>5, <3>1, <4>1, <5>1, <5>2
      <4> QED
        BY <4>2, <4>3
    <3>3. n + 1 <= m + 1
      BY <1>0, <2>3, <3>1
    <3> QED
      BY <2>4, <2>5, <2>6, <3>2, <3>3 DEF Describes
  <2> QED
    BY <2>1, <2>6, <2>7 DEF InfoInv
<1>3. ASSUME NEW d \in Context, Leaves(d) PROVE InfoInv'
  <2>1. /\ Replaced(d) /\ Sound /\ runs # <<>> /\ debugInfo' = Front(debugInfo)
        /\ d.frames = Front(cp.frames) /\ UNCHANGED escaped
    BY <1>3 DEF Leaves, Replaced
  <2>2. cp.frames \in Seq(Frame) /\ n = Len(cp.frames) /\ n \in Nat \ {0}
    BY <2>1, CurrentTypes
  <2>3. cp.frames # <<>>
    BY <2>1, <2>2
  <2>4. Fp(d) = n - 1 /\ \A i \in 1 .. n - 1 : d.frames[i] = cp.frames[i]
    BY <2>1, <2>2, <2>3, FrontFacts DEF Fp
  <2>5. run'.nested = run.nested /\ cp' = d
    <3>1. PICK e \in Run : runs' = [runs EXCEPT ![Len(runs)] = e] /\ e.nested = run.nested
      BY <1>3 DEF Leaves
    <3>2. Len(runs') = Len(runs) /\ runs'[Len(runs)] = e
      BY <1>0, <2>1, <3>1, CurrentTypes, ReplaceFacts
    <3> QED
      BY <2>1, <3>1, <3>2, ReplacedFacts DEF run
  <2>6. ASSUME Describes(cp) PROVE Describes(cp)'
    <3>1. n <= m /\ \A i \in 1 .. n : debugInfo[m - n + i] = cp.frames[i].code
      BY <2>6 DEF Describes
    <3>2. debugInfo # <<>>
      <4>1. m # 0
        BY ONLY <1>0, <2>1, <2>2, <3>1
      <4> QED
        BY <4>1
    <3>3. /\ Len(debugInfo') = m - 1
          /\ \A i \in 1 .. m - 1 : debugInfo'[i] = debugInfo[i]
      BY <1>0, <2>1, <3>2, FrontFacts
    <3>4. ASSUME NEW i \in 1 .. n - 1
          PROVE  debugInfo'[(m - 1) - (n - 1) + i] = d.frames[i].code
      <4>1. (m - 1) - (n - 1) + i = m - n + i /\ i \in 1 .. n /\ m - n + i \in 1 .. m - 1
        <5> HIDE DEF m, n
        <5> QED
          BY <1>0, <2>2, <3>1
      <4> QED
        BY <2>4, <3>1, <3>3, <4>1
    <3>5. n - 1 <= m - 1
      BY <1>0, <2>2, <3>1
    <3> QED
      BY <2>4, <2>5, <3>3, <3>4, <3>5 DEF Describes
  <2> QED
    BY <2>1, <2>5, <2>6 DEF InfoInv
<1>4. ASSUME NEW code \in {"source", "call"}, NEW rs \in Seq(Run), Starts(code, rs)
      PROVE  InfoInv'
  <2> DEFINE new == NewContext(code)
  <2>1. contexts' = Append(contexts, new) /\ debugInfo' = Append(debugInfo, code)
        /\ code \in Code
    BY <1>4 DEF Starts, Code
  <2>2. Fp(new) = 1 /\ new \in Context /\ new.frames[1].code = code
    BY BoundAssumption DEF NewContext, Fp, Context, Frame, Code
  <2> HIDE DEF new
  <2>3. cp' = new
    <3>1. Len(contexts') = Len(contexts) + 1 /\ contexts'[Len(contexts) + 1] = new
      BY <1>0, <2>1, <2>2, AppendFacts
    <3> QED
      BY <3>1 DEF cp
  <2>4. Len(debugInfo') = m + 1 /\ debugInfo'[m + 1] = code
    BY <1>0, <2>1, AppendFacts
  <2>5. Describes(cp)'
    <3>1. 1 <= m + 1 /\ \A i \in 1 .. 1 : i = 1 /\ (m + 1) - 1 + i = m + 1
      BY <1>0
    <3> QED
      BY <2>2, <2>3, <2>4, <3>1 DEF Describes
  <2> QED
    BY <2>5 DEF InfoInv
<1>5. ASSUME NEW r \in 1 .. Len(runs), Ends(r) PROVE InfoInv'
  <2>1. runs' = Unwound(r)
    BY <1>5 DEF Ends
  <2>2. ASSUME runs' # <<>> PROVE run'.nested
    <3>1. Len(runs') = r - 1
      BY <1>0, <1>5, <2>1, UnwoundFacts DEF Ends, Sound, SoundTypes
    <3>2. r - 1 \in 1 .. r - 1 /\ r - 1 \in 1 .. Len(runs)
      <4>1. r - 1 # 0
        BY <1>0, <2>2, <3>1
      <4> QED
        BY <1>0, <4>1
    <3>3. run' = [runs[r - 1] EXCEPT !.nested = TRUE]
      BY <2>1, <3>1, <3>2 DEF run, Unwound
    <3>4. runs[r - 1] \in Run
      BY <1>0, <3>2, ElementFacts
    <3> QED
      BY <3>3, <3>4 DEF Run
  <2> QED
    BY <2>2 DEF InfoInv
<1>6. CASE Terminated
  BY <1>6 DEF Terminated, InfoInv
<1> QED
  BY <1>1, <1>2, <1>3, <1>4, <1>5, <1>6, NextShape
-----------------------------------------------------------------------------
(* Deferred functions.                                                     *)

\* What the calls of a context have deferred stays in its defers.
LEMMA NextDefersKept ==
  ASSUME IndInv, DeferInv, Next, IndInv'
  PROVE  \A i \in DOMAIN contexts' : DefersKept(contexts'[i])
<1>0. /\ contexts \in Seq(Context) /\ contexts' \in Seq(Context)
      /\ DOMAIN contexts = 1 .. Len(contexts) /\ DOMAIN contexts' = 1 .. Len(contexts')
      /\ Len(contexts) \in Nat
      /\ \A i \in 1 .. Len(contexts) : DefersKept(contexts[i])
  BY DEF IndInv, TypeOK, DeferInv
<1>r. ASSUME NEW d \in Context, Replaced(d), DefersKept(cp) => DefersKept(d)
      PROVE  \A i \in DOMAIN contexts' : DefersKept(contexts'[i])
  <2>1. /\ Len(contexts') = Len(contexts) /\ contexts'[Len(contexts)] = d
        /\ \A i \in 1 .. Len(contexts) : i # Len(contexts) => contexts'[i] = contexts[i]
    BY <1>r, ReplacedFacts
  <2>2. DefersKept(cp)
    BY <1>0, <1>r, CurrentTypes DEF Replaced
  <2> QED
    BY <1>0, <1>r, <2>1, <2>2
<1>1. ASSUME NEW d \in Context, Works(d)
      PROVE  \A i \in DOMAIN contexts' : DefersKept(contexts'[i])
  <2>1. Replaced(d) /\ DefersKept(cp) => DefersKept(d)
    BY <1>1 DEF Works, DefersKept
  <2> QED
    BY <1>1, <1>r, <2>1 DEF Works
<1>2. ASSUME NEW f \in Function, NEW d \in Context, Enters(f, d)
      PROVE  \A i \in DOMAIN contexts' : DefersKept(contexts'[i])
  <2>1. Replaced(d) /\ Sound /\ runs # <<>> /\ d.defers = cp.defers
    BY <1>2 DEF Enters, Replaced
  <2>2. PICK frame \in Frame : frame.own = {} /\ d.frames = Append(cp.frames, frame)
    BY <1>2 DEF Enters
  <2>3. cp.frames \in Seq(Frame) /\ Fp(cp) = Len(cp.frames) /\ Fp(cp) \in Nat \ {0}
    BY <2>1, CurrentTypes
  <2>4. /\ Fp(d) = Fp(cp) + 1 /\ d.frames[Fp(cp) + 1].own = {}
        /\ \A i \in 1 .. Fp(cp) : d.frames[i] = cp.frames[i]
    BY <2>2, <2>3, AppendFacts DEF Fp
  <2>5. ASSUME DefersKept(cp), NEW i \in 1 .. Fp(d)
        PROVE  d.frames[i].own \subseteq Range(d.defers[i])
    <3>1. CASE i = Fp(cp) + 1
      BY <2>4, <3>1
    <3>2. CASE i # Fp(cp) + 1
      <4>1. i \in 1 .. Fp(cp)
        BY <2>3, <2>4, <3>2
      <4> QED
        BY <2>1, <2>4, <2>5, <4>1 DEF DefersKept
    <3> QED
      BY <3>1, <3>2
  <2> QED
    BY <1>r, <2>1, <2>5 DEF DefersKept
<1>3. ASSUME NEW d \in Context, Leaves(d)
      PROVE  \A i \in DOMAIN contexts' : DefersKept(contexts'[i])
  <2>1. /\ Replaced(d) /\ Sound /\ runs # <<>>
        /\ d.frames = Front(cp.frames) /\ d.defers = cp.defers
    BY <1>3 DEF Leaves, Replaced
  <2>2. cp.frames \in Seq(Frame) /\ Fp(cp) = Len(cp.frames) /\ Fp(cp) \in Nat \ {0}
    BY <2>1, CurrentTypes
  <2>3. cp.frames # <<>>
    BY <2>1, <2>2
  <2>4. Fp(d) = Fp(cp) - 1 /\ \A i \in 1 .. Fp(cp) - 1 : d.frames[i] = cp.frames[i]
    BY <2>1, <2>2, <2>3, FrontFacts DEF Fp
  <2>5. \A i \in 1 .. Fp(cp) - 1 : i \in 1 .. Fp(cp)
    BY <2>2
  <2>6. DefersKept(cp) => DefersKept(d)
    BY <2>1, <2>4, <2>5 DEF DefersKept
  <2> QED
    BY <1>r, <2>1, <2>6
<1>4. ASSUME NEW code \in {"source", "call"}, NEW rs \in Seq(Run), Starts(code, rs)
      PROVE  \A i \in DOMAIN contexts' : DefersKept(contexts'[i])
  <2> DEFINE new == NewContext(code)
  <2>1. contexts' = Append(contexts, new)
    BY <1>4 DEF Starts
  <2>2. new \in Context /\ DefersKept(new)
    BY BoundAssumption DEF NewContext, Fp, Context, Frame, Code, DefersKept
  <2> HIDE DEF new
  <2>3. /\ Len(contexts') = Len(contexts) + 1 /\ contexts'[Len(contexts) + 1] = new
        /\ \A i \in 1 .. Len(contexts) : contexts'[i] = contexts[i]
    BY <1>0, <2>1, <2>2, AppendFacts
  <2>4. \A i \in DOMAIN contexts' : i \in 1 .. Len(contexts) \/ i = Len(contexts) + 1
    BY <1>0, <2>3
  <2> QED
    BY <1>0, <2>2, <2>3, <2>4
<1>5. ASSUME NEW r \in 1 .. Len(runs), Ends(r)
      PROVE  \A i \in DOMAIN contexts' : DefersKept(contexts'[i])
  <2>1. contexts' = Front(contexts) /\ contexts # <<>>
    BY <1>5, CurrentFacts DEF Ends
  <2>2. /\ Len(contexts') = Len(contexts) - 1
        /\ \A i \in 1 .. Len(contexts) - 1 : contexts'[i] = contexts[i]
    BY <1>0, <2>1, FrontFacts
  <2>3. \A i \in DOMAIN contexts' : i \in 1 .. Len(contexts) - 1 /\ i \in 1 .. Len(contexts)
    BY <1>0, <2>2
  <2> QED
    BY <1>0, <2>2, <2>3
<1>6. CASE Terminated
  <2>1. DOMAIN contexts' = {}
    BY <1>6 DEF Terminated
  <2> QED
    BY <2>1
<1> QED
  BY <1>1, <1>2, <1>3, <1>4, <1>5, <1>6, NextShape

\* A run that returns or halts has called, or has still to call, whatever the
\* uppermost call of its context deferred.
LEMMA NextDeferring ==
  ASSUME IndInv, DeferInv, Next, IndInv', ~escaped', NEW i \in DOMAIN runs',
         runs'[i].phase \in {"returning", "halting"}
  PROVE  Top(contexts'[i]).own \subseteq ran' \cup Range(runs'[i].left)
<1> DEFINE n == Len(runs)
           Goal == Top(contexts'[i]).own \subseteq ran' \cup Range(runs'[i].left)
<1>0. /\ contexts \in Seq(Context) /\ runs \in Seq(Run) /\ escaped \in BOOLEAN
      /\ contexts' \in Seq(Context) /\ runs' \in Seq(Run)
      /\ DOMAIN runs = 1 .. n /\ DOMAIN runs' = 1 .. Len(runs') /\ n \in Nat
  BY DEF IndInv, TypeOK
<1>1. ASSUME ~escaped
      PROVE  /\ Len(contexts) = n
             /\ \A h \in 1 .. n : runs[h].phase \in {"returning", "halting"} =>
                  Top(contexts[h]).own \subseteq ran \cup Range(runs[h].left)
  BY <1>0, <1>1 DEF IndInv, RunsMatchContexts, DeferInv, Deferring
\* The last run has become e and its context d.
<1>r. ASSUME ~escaped, ran' = ran, NEW d \in Context, Replaced(d),
             NEW e \in Run, runs' = [runs EXCEPT ![n] = e],
             e.phase \in {"returning", "halting"} =>
               Top(d).own \subseteq ran \cup Range(e.left)
      PROVE  Goal
  <2>1. /\ Len(contexts) = n /\ Len(contexts') = n /\ contexts'[n] = d
        /\ \A h \in 1 .. n : h # n => contexts'[h] = contexts[h]
    BY <1>1, <1>r, ReplacedFacts
  <2>2. n \in 1 .. n
    BY <1>r, CurrentTypes DEF Replaced
  <2>3. /\ Len(runs') = n /\ runs'[n] = e
        /\ \A h \in 1 .. n : h # n => runs'[h] = runs[h]
    BY <1>0, <1>r, <2>2, ReplaceFacts
  <2>4. CASE i = n
    BY <1>r, <2>1, <2>3, <2>4
  <2>5. CASE i # n
    <3>1. i \in 1 .. n /\ runs'[i] = runs[i] /\ contexts'[i] = contexts[i]
      BY <1>0, <2>1, <2>3, <2>5
    <3> QED
      BY <1>1, <1>r, <3>1
  <2> QED
    BY <2>4, <2>5
<1>2. ASSUME NEW d \in Context, Works(d) PROVE Goal
  <2>1. /\ Replaced(d) /\ Sound /\ runs # <<>> /\ Fp(d) = Fp(cp) /\ ran' = ran /\ ~escaped
    BY <1>2 DEF Works, Replaced
  <2>2. PICK e \in Run :
          /\ runs' = [runs EXCEPT ![n] = e]
          /\ e.phase \in {"returning", "halting"} => e.left = d.defers[Fp(d)]
    BY <1>2 DEF Works
  <2>3. DefersKept(cp) /\ Fp(cp) \in 1 .. Fp(cp)
    BY <1>0, <2>1, CurrentTypes DEF DeferInv
  <2>4. Top(d).own \subseteq Range(d.defers[Fp(d)])
    BY <1>2, <2>1, <2>3 DEF Works, DefersKept, Top
  <2>5. e.phase \in {"returning", "halting"} => Top(d).own \subseteq ran \cup Range(e.left)
    BY <2>2, <2>4
  <2> QED
    BY <1>r, <2>1, <2>2, <2>5
<1>3. ASSUME NEW f \in Function, NEW d \in Context, Enters(f, d) PROVE Goal
  <2>1. /\ Replaced(d) /\ Sound /\ runs # <<>> /\ ran' = ran /\ ~escaped
        /\ runs' = runs /\ run.phase = "step"
    BY <1>3 DEF Enters, Replaced
  <2>2. run \in Run /\ runs' = [runs EXCEPT ![n] = run]
    BY <1>0, <2>1, CurrentTypes
  <2> QED
    BY <1>r, <2>1, <2>2
<1>4. ASSUME NEW d \in Context, Leaves(d) PROVE Goal
  <2>1. Replaced(d) /\ ran' = ran /\ ~escaped
    BY <1>4 DEF Leaves
  <2>2. PICK e \in Run : runs' = [runs EXCEPT ![n] = e] /\ e.phase \in {"step", "lost"}
    BY <1>4 DEF Leaves
  <2> QED
    BY <1>r, <2>1, <2>2
<1>5. ASSUME NEW code \in {"source", "call"}, NEW rs \in Seq(Run), Starts(code, rs)
      PROVE  Goal
  <2> DEFINE new == NewContext(code)
  <2>1. /\ contexts' = Append(contexts, new) /\ runs' = Append(rs, NewRun)
        /\ Len(rs) = n /\ ~escaped
        /\ \A h \in 1 .. n :
             /\ rs[h].phase = runs[h].phase
             /\ ran \cup Range(runs[h].left) \subseteq ran' \cup Range(rs[h].left)
    BY <1>5 DEF Starts
  <2>2. new \in Context
    BY BoundAssumption DEF NewContext, Context, Frame, Code
  <2>3. NewRun \in Run /\ NewRun.phase = "step"
    BY DEF NewRun, Run
  <2> HIDE DEF new
  <2>4. Len(contexts) = n /\ \A h \in 1 .. n : contexts'[h] = contexts[h]
    BY <1>0, <1>1, <2>1, <2>2, AppendFacts
  <2>5. /\ Len(runs') = n + 1 /\ runs'[n + 1] = NewRun
        /\ \A h \in 1 .. n : runs'[h] = rs[h]
    <3>1. /\ rs \in Seq(Run) /\ NewRun \in Run
          /\ Len(rs) = n /\ runs' = Append(rs, NewRun)
      BY <1>5, <2>1, <2>3
    <3> QED
      BY ONLY <3>1, AppendFacts
  <2>6. i # n + 1
    BY <2>3, <2>5
  <2>7. i \in 1 .. n
    BY <1>0, <2>5, <2>6
  <2>8. Top(contexts[i]).own \subseteq ran \cup Range(runs[i].left)
    BY <1>1, <2>1, <2>5, <2>7
  <2> QED
    BY <2>1, <2>4, <2>5, <2>7, <2>8
<1>6. ASSUME NEW r \in 1 .. Len(runs), Ends(r) PROVE Goal
  <2>1. /\ r = n /\ ~escaped /\ ran' = ran /\ Sound /\ runs # <<>>
        /\ contexts' = Front(contexts) /\ runs' = Unwound(n)
    BY <1>6 DEF Ends
  <2>2. Len(contexts) = n /\ contexts # <<>>
    BY <1>1, <2>1, CurrentFacts
  <2>3. \A h \in 1 .. n - 1 : contexts'[h] = contexts[h]
    BY <1>0, <2>1, <2>2, FrontFacts
  <2>4. Len(runs') = n - 1 /\ i \in 1 .. n - 1 /\ i \in 1 .. n
    <3>1. n \in 1 .. n
      BY <2>1, CurrentTypes
    <3>2. Len(runs') = n - 1
      BY <1>0, <1>6, <2>1, <3>1, UnwoundFacts DEF Ends, Sound, SoundTypes
    <3> QED
      BY <1>0, <3>2
  <2>5. runs'[i].phase = runs[i].phase /\ runs'[i].left = runs[i].left
    <3>1. runs[i] \in Run
      BY <1>0, <2>4, ElementFacts
    <3>2. runs'[i] = IF i = n - 1 THEN [runs[i] EXCEPT !.nested = TRUE] ELSE runs[i]
      BY <2>1, <2>4 DEF Unwound
    <3> QED
      BY <3>1, <3>2 DEF Run
  <2> QED
    BY <1>1, <2>1, <2>3, <2>4, <2>5
<1>7. CASE Terminated
  <2>1. DOMAIN runs' = {}
    BY <1>7 DEF Terminated
  <2> QED
    BY <2>1
<1> QED
  BY <1>2, <1>3, <1>4, <1>5, <1>6, <1>7, NextShape
-----------------------------------------------------------------------------
(* Theorems about debugInfo and deferred functions.                        *)

\* debugInfo always has at least as many entries as there are frames, in
\* whatever order runs nest and end, return, fail and throw: RET, which takes
\* one of each away, in a script too, pops no empty vector.
THEOREM InfoSuffices == Spec => []DebugInfoSuffices
<1>1. Init => Counted(contexts, Len(debugInfo))
  <2> SUFFICES ASSUME Init PROVE Counted(contexts, Len(debugInfo))
    OBVIOUS
  <2>1. contexts = <<>> /\ Len(contexts) = 0 /\ Len(debugInfo) = 0
    BY DEF Init
  <2> DEFINE calls == [i \in 0 .. 0 |-> 0]
  <2>2. /\ calls \in [0 .. 0 -> Nat] /\ \A i \in 0 .. 0 : calls[i] = 0
        /\ 0 \in 0 .. 0 /\ 1 .. 0 = {}
    OBVIOUS
  <2> HIDE DEF calls
  <2>3. Counts(calls, contexts) /\ calls[Len(contexts)] <= Len(debugInfo)
    BY <2>1, <2>2 DEF Counts
  <2> QED
    BY <2>3 DEF Counted
<1>2. IndInv /\ IndInv' /\ Counted(contexts, Len(debugInfo)) /\ [Next]_vars
        => Counted(contexts, Len(debugInfo))'
  <2>1. CASE UNCHANGED vars
    BY <2>1 DEF vars, Counted, Counts, Fp
  <2>2. CASE Next
    BY <2>2, NextCounted DEF Counted, Counts, Fp
  <2> QED
    BY <2>1, <2>2
<1>3. IndInv /\ Counted(contexts, Len(debugInfo)) => DebugInfoSuffices
  <2> SUFFICES ASSUME IndInv, Counted(contexts, Len(debugInfo)) PROVE DebugInfoSuffices
    OBVIOUS
  <2>1. PICK calls : Counts(calls, contexts) /\ calls[Len(contexts)] <= Len(debugInfo)
    BY DEF Counted
  <2>2. Len(contexts) \in Nat /\ Len(debugInfo) \in Nat
    BY DEF IndInv, TypeOK
  <2>3. ASSUME NEW i \in 0 .. Len(contexts) PROVE calls[i] \in 0 .. Len(debugInfo)
    <3>1. Len(contexts) \in 0 .. Len(contexts) /\ i <= Len(contexts)
      BY <2>2
    <3>2. /\ calls[i] \in Nat /\ calls[Len(contexts)] \in Nat
          /\ calls[i] <= calls[Len(contexts)]
      BY <2>1, <3>1 DEF Counts
    <3> QED
      BY ONLY <2>1, <2>2, <3>2
  <2>4. calls \in [0 .. Len(contexts) -> 0 .. Len(debugInfo)]
    BY <2>1, <2>3 DEF Counts
  <2> QED
    BY <2>1, <2>4 DEF Counts, DebugInfoSuffices
<1> QED
  BY <1>1, <1>2, <1>3, Invariance, PTL DEF Spec

\* The line of an error message is one of the running code, unless a nested
\* run has ended in this run, with an error or without, or an exception has
\* escaped.
THEOREM ErrorsAreLocated == Spec => []LocatedUnlessNested
<1>1. Init => InfoInv
  BY DEF Init, InfoInv
<1>2. IndInv /\ IndInv' /\ InfoInv /\ [Next]_vars => InfoInv'
  <2>1. CASE UNCHANGED vars
    BY <2>1 DEF vars, InfoInv, Describes, run, cp, Fp
  <2> QED
    BY <2>1, NextInfoInv
<1>3. IndInv /\ InfoInv => LocatedUnlessNested
  <2> SUFFICES ASSUME IndInv, InfoInv, runs # <<>>, run.phase \in {"step", "builtin"},
                      ~run.nested, ~escaped
               PROVE  Located
    BY DEF LocatedUnlessNested, InPhase
  <2>0. Sound
    BY IndInvIsSound DEF InPhase
  <2>1. Fp(cp) \in 1 .. Fp(cp) /\ Fp(cp) \in Nat /\ debugInfo \in Seq(Code)
    BY <2>0, CurrentTypes
  <2>2. Describes(cp)
    BY DEF InfoInv
  <2>3. Len(debugInfo) \in Nat /\ Len(debugInfo) # 0
        /\ Len(debugInfo) - Fp(cp) + Fp(cp) = Len(debugInfo)
    BY <2>1, <2>2 DEF Describes
  <2>4. debugInfo[Len(debugInfo)] = cp.frames[Fp(cp)].code
    BY <2>1, <2>2, <2>3 DEF Describes
  <2> QED
    BY <2>3, <2>4 DEF Located, Top
<1> QED
  BY <1>1, <1>2, <1>3, Invariance, PTL DEF Spec

\* No call returns, and no script ends, before everything it deferred has been
\* called, unless an exception has escaped.
THEOREM DeferredFunctionsRun == Spec => []DeferredRun
<1>1. Init => DeferInv
  BY DEF Init, DeferInv
<1>2. IndInv /\ IndInv' /\ DeferInv /\ [Next]_vars => DeferInv'
  <2>1. CASE UNCHANGED vars
    BY <2>1 DEF vars, deferVars, DeferInv, DefersKept, Deferring, Top, Fp
  <2>2. ASSUME IndInv, IndInv', DeferInv, Next PROVE DeferInv'
    <3>1. \A i \in DOMAIN contexts' : DefersKept(contexts'[i])
      BY <2>2, NextDefersKept
    <3>2. ~escaped' => \A i \in DOMAIN runs' :
            runs'[i].phase \in {"returning", "halting"} =>
              Top(contexts'[i]).own \subseteq ran' \cup Range(runs'[i].left)
      BY <2>2, NextDeferring
    <3> QED
      BY <3>1, <3>2 DEF DeferInv, Deferring, DefersKept, Top, Fp
  <2> QED
    BY <2>1, <2>2
<1>3. IndInv /\ DeferInv => DeferredRun
  <2> SUFFICES ASSUME IndInv, DeferInv, runs # <<>>, ~escaped,
                      run.phase \in {"returning", "halting"}
               PROVE  Top(cp).own \subseteq ran \cup Range(run.left)
    BY DEF DeferredRun, InPhase
  <2>0. Sound
    BY IndInvIsSound DEF InPhase
  <2>1. Len(runs) \in DOMAIN runs /\ runs[Len(runs)] = run
    BY <2>0, CurrentTypes
  <2>2. contexts[Len(runs)] = cp
    BY <2>0, CurrentTypes DEF IndInv, RunsMatchContexts
  <2> QED
    BY <2>1, <2>2 DEF DeferInv, Deferring
<1> QED
  BY <1>1, <1>2, <1>3, Invariance, PTL DEF Spec
=============================================================================
