CONSTANTS
  Genesis <- MCGenesis
  Txs <- MCTxsLateSibling
  Parents <- MCParents
  Depth <- MCDepth
  Confidence <- MCConfidence
  MaxEligibleParentsDepthDiff = 2
  PruningDepth = 1
  MaxRound = 2
  MaxChildLinks = 2
  ResetToAbsentRoot = FALSE

SPECIFICATION Spec

INVARIANT AssignedToRound
