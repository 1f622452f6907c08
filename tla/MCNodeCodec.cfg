\* Every tree of MCTrees is saved and loaded back, every record of MCInputs
\* is loaded and, when it decodes, saved and loaded again; so is every pair
\* of MCPairs written back to back.  The codec call
\* returns, so the run really stops: no deadlock check.
CONSTANTS
  NoTree = NoTree
  Trees <- MCTrees
  Inputs <- MCInputs
  Pairs <- MCPairs
SPECIFICATION Spec
CHECK_DEADLOCK FALSE
INVARIANT RoundTrip SizeIsMarshalLength ConcatenationIsMerge
