------------------------------ MODULE SnowballSpec ------------------------------
(***************************************************************************)
(* What Snowball promises (spec 4.2 and 8.7), with no counters: each tick *)
(* records its alpha-majority (Nil when there is none); the preference     *)
(* only ever moves to the block a tick has just made the majority; the     *)
(* instance decides exactly when one block has been the majority of the    *)
(* last Beta + 1 ticks; once decided nothing changes until Reset.         *)
(***************************************************************************)
EXTENDS Naturals, Sequences

CONSTANTS Votes, Nil, Beta

VARIABLES
  preferred, \* the preferred block, Nil before Prefer
  decided,   \* the instance has decided
  rounds     \* the majority of every tick since the last Reset

vars == <<preferred, decided, rounds>>

\* The number of ticks at the end of seq in which the same block reached
\* alpha.
Streak(seq) ==
  LET n == Len(seq)
      ok(k) == \A i \in n - k + 1..n : seq[i] # Nil /\ seq[i] = seq[n]
  IN IF n = 0 \/ seq[n] = Nil THEN 0
     ELSE CHOOSE k \in 1..n : ok(k) /\ (k = n \/ ~ok(k + 1))

Init ==
  /\ preferred = Nil
  /\ decided = FALSE
  /\ rounds = <<>>

Reset ==
  /\ preferred' = Nil
  /\ decided' = FALSE
  /\ rounds' = <<>>

Prefer(b) ==
  /\ preferred = Nil
  /\ preferred' = b
  /\ UNCHANGED <<decided, rounds>>

\* A tick whose alpha-majority is m, or Nil.
Tick(m) ==
  /\ ~decided /\ preferred # Nil
  /\ rounds' = Append(rounds, m)
  /\ preferred' \in {preferred, m} \ {Nil}
  /\ decided' = (Streak(rounds') >= Beta + 1)

Next ==
  \/ Reset
  \/ \E b \in Votes : Prefer(b)
  \/ \E m \in Votes \cup {Nil} : Tick(m)

Spec == Init /\ [][Next]_vars

=============================================================================
