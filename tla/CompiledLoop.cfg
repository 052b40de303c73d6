\* A loop whose body assigns a literal with an expression in it.
CONSTANTS
  ExpBits = 4
  ExpDepth = 0
  ExpTexts = {"{i}"}
  ExpTurns = 2
SPECIFICATION ExpSpec
CHECK_DEADLOCK FALSE
INVARIANT CompiledLoopAgrees
