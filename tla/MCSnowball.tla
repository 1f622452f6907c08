------------------------------ MODULE MCSnowball ------------------------------
(* Snowball with two competing blocks and alpha = 0.8 in tenths.          *)
EXTENDS Snowball, TLC

CONSTANTS X, Y  \* the two blocks, model values

\* Nothing in Snowball tells two block ids apart.
Symm == Permutations({X, Y})

\* Tallies of a query round: none, a minority, a split, a clear majority.
MCTallyValues == {0, 1, 5, 9}

\* len(votes): a single voter, two, and the sample size of scenario S4.
MCVoteCounts == {1, 2, 10}
=============================================================================
