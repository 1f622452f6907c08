CONSTANTS
  Genesis <- MCGenesis
  Txs <- MCTxsNoGrandchild
  Parents <- MCParents
  Depth <- MCDepth
  Confidence <- MCConfidence
  MaxEligibleParentsDepthDiff = 2
  PruningDepth = 1
  MaxRound = 2
  MaxChildLinks = 2
  ResetToAbsentRoot = FALSE

SPECIFICATION Spec

INVARIANT TypeOK
INVARIANT AcceptedAreValid
INVARIANT EligibleChildless
INVARIANT RootSurvivesPruning
PROPERTY ImplementsViewGraphSpec
