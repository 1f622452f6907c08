------------------------------- MODULE Snowball -------------------------------
(***************************************************************************)
(* Snowball of src/snowball.go: binary agreement over block ids, ticked   *)
(* with the tallies of each round of peer queries.  Each public method is  *)
(* one action; all of them run under the Snowball's lock, so they are      *)
(* atomic.                                                                 *)
(*                                                                         *)
(* Tallies are multiples of 1/Scale and the alpha of conf.GetSnowballAlpha *)
(* is Alpha/Scale, so "majorityTally < alpha*2/denom" becomes             *)
(* "top * denom < 2 * Alpha" in integers (float rounding is not modelled). *)
(* counts holds uint16 values, i.e. values modulo 2^CountWidth.            *)
(*                                                                         *)
(* The caller (the ledger, not part of the sources) is abstracted to a     *)
(* protocol: with PreferOnReset it calls Prefer with its own proposal      *)
(* after NewSnowball and after every Reset, before the first Tick; without *)
(* it Prefer is never called.                                              *)
(***************************************************************************)
EXTENDS Naturals, Sequences, SequencesExt

CONSTANTS
  Votes,         \* block ids that peers may vote for
  Nil,           \* a nil *snowballVote
  Scale,         \* tallies and alpha are multiples of 1/Scale
  Alpha,         \* conf.GetSnowballAlpha() * Scale
  Beta,          \* conf.GetSnowballBeta()
  TallyValues,   \* tallies a query round may produce, times Scale
  VoteCounts,    \* values len(votes) may take
  CountWidth,    \* bits of the counts map values (uint16)
  MaxTicks,      \* bound: ticks recorded between two Resets
  PreferOnReset  \* caller protocol, see above

ASSUME /\ Nil \notin Votes
       /\ Alpha \in 1..Scale /\ Beta \in Nat
       /\ TallyValues \subseteq 0..Scale /\ VoteCounts \subseteq Nat \ {0}
       /\ CountWidth \in Nat \ {0} /\ MaxTicks \in Nat
       /\ PreferOnReset \in BOOLEAN

VARIABLES
  preferred, \* s.preferred
  last,      \* s.last
  counts,    \* s.counts
  count,     \* s.count
  decided,   \* s.decided
  panicked,  \* a nil pointer was dereferenced: the process is gone
  history    \* the majorities of the ticks since the last Reset, Nil when
             \* a tick did not reach alpha (a history variable)

vars == <<preferred, last, counts, count, decided, panicked, history>>

Width == 2^CountWidth

NoCounts == [v \in Votes |-> 0]

\* NewSnowball
Init ==
  /\ preferred = Nil
  /\ last = Nil
  /\ counts = NoCounts
  /\ count = 0
  /\ decided = FALSE
  /\ panicked = FALSE
  /\ history = <<>>

\* Reset
Reset ==
  /\ ~panicked
  /\ preferred' = Nil
  /\ last' = Nil
  /\ counts' = NoCounts
  /\ count' = 0
  /\ decided' = FALSE
  /\ history' = <<>>
  /\ UNCHANGED panicked

\* Prefer(b), as the caller uses it: once, before the first Tick.
Prefer(b) ==
  /\ ~panicked
  /\ PreferOnReset /\ preferred = Nil
  /\ preferred' = b
  /\ UNCHANGED <<last, counts, count, decided, panicked, history>>

\* Mutant: the confidence counter is not reset by a failed tick.
tickFail_keepsCount ==
  /\ count' = count
  /\ UNCHANGED <<preferred, last, counts, decided>>

\* Tick, when the majority did not reach alpha (or there is none).
tickFail ==
  /\ count' = 0
  /\ UNCHANGED <<preferred, last, counts, decided>>

\* Mutant: a majority never takes the preference over.
tickSuccess_keepsPreference(m) ==
  LET c == [counts EXCEPT ![m] = (@ + 1) % Width]
  IN /\ counts' = c
     /\ preferred' = preferred
     /\ IF last = Nil \/ m # last
        THEN last' = m /\ count' = 1 /\ UNCHANGED decided
        ELSE last' = last /\ count' = count + 1 /\ decided' = (count + 1 > Beta)
     /\ UNCHANGED panicked

\* Mutant: the decision waits for one tick more than Beta + 1.
tickSuccess_lateDecision(m) ==
  LET c == [counts EXCEPT ![m] = (@ + 1) % Width]
  IN /\ counts' = c
     /\ preferred' = IF c[m] > c[preferred] THEN m ELSE preferred
     /\ IF last = Nil \/ m # last
        THEN last' = m /\ count' = 1 /\ UNCHANGED decided
        ELSE last' = last /\ count' = count + 1 /\ decided' = (count + 1 > Beta + 1)
     /\ UNCHANGED panicked

\* Tick, when majority m reached alpha.  s.counts[s.preferred.id] reads the
\* id through a nil pointer while nothing is preferred: the goroutine panics.
tickSuccess(m) ==
  LET c == [counts EXCEPT ![m] = (@ + 1) % Width]
  IN IF preferred = Nil
     THEN /\ panicked' = TRUE
          /\ counts' = c
          /\ UNCHANGED <<preferred, last, count, decided>>
     ELSE /\ counts' = c
          /\ preferred' = IF c[m] > c[preferred] THEN m ELSE preferred
          /\ IF last = Nil \/ m # last
             THEN last' = m /\ count' = 1 /\ UNCHANGED decided
             ELSE last' = last /\ count' = count + 1 /\ decided' = (count + 1 > Beta)
          /\ UNCHANGED panicked

\* Tick(tallies, votes) with len(votes) = n.  A decided Snowball returns at
\* once, which changes nothing.  The loop over the tallies map keeps the
\* first strictly larger tally in Go's random map order: any id with the
\* top tally, none if every tally is 0.
Tick(tallies, n) ==
  /\ ~panicked /\ ~decided
  /\ ~PreferOnReset \/ preferred # Nil
  /\ Len(history) < MaxTicks
  /\ LET top == CHOOSE t \in Range(tallies) : \A u \in Range(tallies) : t >= u
         majorities == IF top = 0 THEN {Nil} ELSE {v \in Votes : tallies[v] = top}
         denom == IF n < 2 THEN 2 ELSE n
     IN \E m \in majorities :
          IF m = Nil \/ top * denom < 2 * Alpha
          THEN tickFail /\ history' = Append(history, Nil) /\ UNCHANGED panicked
          ELSE tickSuccess(m) /\ history' = Append(history, m)

Next ==
  \/ Reset
  \/ \E b \in Votes : Prefer(b)
  \/ \E tallies \in [Votes -> TallyValues], n \in VoteCounts : Tick(tallies, n)

Spec == Init /\ [][Next]_vars

-----------------------------------------------------------------------------
(***************************************************************************)
(* Properties                                                              *)
(***************************************************************************)

TypeOK ==
  /\ preferred \in Votes \cup {Nil}
  /\ last \in Votes \cup {Nil}
  /\ counts \in [Votes -> 0..Width - 1]
  /\ count \in 0..Beta + 1
  /\ decided \in BOOLEAN
  /\ panicked \in BOOLEAN
  /\ history \in Seq(Votes \cup {Nil})

\* The counter-free specification, with the history as its rounds.
Abs == INSTANCE SnowballSpec WITH rounds <- history

(* Snowball implements SnowballSpec: Tick decides exactly when one block  *)
(* has reached alpha in the last Beta + 1 ticks since Reset (count is     *)
(* reset by a failed tick and restarted by a new majority), moves the     *)
(* preference only to the current majority, and a decided instance stays *)
(* unchanged until Reset.                                                  *)
ImplementsSnowballSpec == Abs!Spec

(* The preferred block has been the alpha-majority at least as often as    *)
(* any other block since the last Reset: Tick moves the preference to a    *)
(* majority as soon as its count overtakes the preferred one's.            *)
PreferredHasMostVotes ==
  preferred # Nil => \A v \in Votes : counts[v] <= counts[preferred]

(* Spec 8.7: once a block reaches alpha in Beta + 1 consecutive ticks,    *)
(* Snowball has decided and prefers that block.                            *)
DecisionFollowsStreak == decided => preferred = last

=============================================================================
