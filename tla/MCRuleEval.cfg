\* Compiler against interpreter on all small rule trees.
SPECIFICATION Spec
CONSTANTS
  Nodes <- MCNodes
  Depth <- MCDepth
  Contexts <- MCContexts
INVARIANT CompiledAgrees AggregatesPreloaded
CHECK_DEADLOCK FALSE
