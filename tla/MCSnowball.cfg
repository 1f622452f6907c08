CONSTANTS
  X = X
  Y = Y
  Votes = {X, Y}
  Nil = Nil
  Scale = 10
  Alpha = 8
  Beta = 2
  TallyValues <- MCTallyValues
  VoteCounts <- MCVoteCounts
  CountWidth = 16
  MaxTicks = 7
  PreferOnReset = TRUE
SYMMETRY Symm
SPECIFICATION Spec
INVARIANT TypeOK PreferredHasMostVotes
PROPERTY ImplementsSnowballSpec
