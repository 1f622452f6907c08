CONSTANTS
  Genesis <- MCGenesis
  Txs <- MCTxs
  Parents <- MCParents
  Depth <- MCDepth
  Confidence <- MCConfidence
  MaxEligibleParentsDepthDiff = 2
  PruningDepth = 1
  MaxRound = 2
  MaxChildLinks = 2
  ResetToAbsentRoot = FALSE

SPECIFICATION Spec

PROPERTY ProgenyRemovedWithInvalid
