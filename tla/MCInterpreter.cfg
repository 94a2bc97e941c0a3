SPECIFICATION Spec
CONSTANTS
  f = f
  v = v
  Function = {f, v}
  Params <- MCParams
  Locals <- MCLocals
  Variadic = {v}
  MaxArgs = 2
  StackSize = 5
  MaxFrames = 3
  MaxRuns = 3
  MaxDebugInfo = 4
  MaxDefers = 1
INVARIANTS
  TypeOK
  FramesNest
  CallsBalanced
  DebugInfoSuffices
  RunsMatchContexts
  LocatedUnlessNested
  DeferredRun
\* The entries of debugInfo run out: nothing can be started any more.
CHECK_DEADLOCK FALSE
