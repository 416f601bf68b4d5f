\* Buffers of up to six pieces; two directories of PATH, one of them twice, two
\* file names, two times of the clock, a lookup that fills the cache and one
\* that uses it, with changes between any two system calls.
CONSTANTS
  Names = {"x", "y"}
  Path <- MCPath
  MaxClock = 1
  MaxLookups = 2
  Reserved = {"if"}
  Aliases = {}
  Functions = {}
  Builtins = {}
  NameBytes = {"a", "x"}
  InteractiveComments = TRUE
  Executables <- MCExecutables
  Paths <- MCPaths
SPECIFICATION MCSpec
INVARIANTS MissesOnlyWithinATick QuotingDecidesWords SpansReadTheTokens CommandsAreInPosition
CHECK_DEADLOCK FALSE
