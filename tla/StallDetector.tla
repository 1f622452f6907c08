---------------------------- MODULE StallDetector ----------------------------
(***************************************************************************)
(* The stall detector of src/internal/stall/detector.go.  Run is one       *)
(* goroutine looping on a select between the 5 s ticker and the stop       *)
(* channel; Stop is called from other goroutines (the owners) and may be  *)
(* called from inside the PrepareShutdown callback, which is not part of   *)
(* the sources: DelegateStops is the set of its choices (TRUE: it calls    *)
(* d.Stop()).                                                              *)
(*                                                                         *)
(* d.mu is private and only Run locks it, so the mutex orders nothing and  *)
(* is not a variable.  The memory reading is a nondeterministic choice:    *)
(* over or under the limit.  The crash dump (lines 72-122) is file I/O     *)
(* whose every error path ends in the same TryRestart call.  TryRestart is *)
(* not part of the sources: it either replaces the process (exec) or       *)
(* returns an error, after which the loop goes on.                         *)
(* A panic (close of a closed channel) ends the whole process.             *)
(***************************************************************************)
EXTENDS Naturals

CONSTANTS
  Owners,          \* goroutines that may call Stop once each
  MemoryLimitSet,  \* config.MaxMemoryMB > 0
  DelegateStops,   \* whether a PrepareShutdown call may call d.Stop()
  MaxSignals       \* bound: memory readings over the limit

ASSUME /\ MemoryLimitSet \in BOOLEAN /\ DelegateStops \subseteq BOOLEAN /\ DelegateStops # {}
       /\ MaxSignals \in Nat

VARIABLES
  pc,          \* where Run is: "select", "check", "delegate", "restart",
               \* "exited" (returned), "restarted" (process replaced)
  stopClosed,  \* d.stop has been closed
  stopped,     \* the owners that have called Stop
  panicked,    \* a close of the closed d.stop panicked
  signals      \* PrepareShutdown calls made so far

vars == <<pc, stopClosed, stopped, panicked, signals>>

Halted == panicked \/ pc \in {"exited", "restarted"}

\* NewStallDetector, with Run started.
Init ==
  /\ pc = "select"
  /\ stopClosed = FALSE
  /\ stopped = {}
  /\ panicked = FALSE
  /\ signals = 0

\* Stop: close(d.stop), a panic when it is already closed.
close ==
  IF stopClosed THEN panicked' = TRUE /\ UNCHANGED stopClosed
  ELSE stopClosed' = TRUE /\ UNCHANGED panicked

\* Stop, called by owner o.
Stop(o) ==
  /\ ~Halted /\ o \notin stopped
  /\ stopped' = stopped \cup {o}
  /\ close
  /\ UNCHANGED <<pc, signals>>

\* select: the ticker case.
Tick ==
  /\ ~Halted /\ pc = "select"
  /\ pc' = "check"
  /\ UNCHANGED <<stopClosed, stopped, panicked, signals>>

\* Mutant: a plain break inside select leaves only the select, not LOOP.
StopBranch_breaksSelect ==
  /\ ~Halted /\ pc = "select" /\ stopClosed
  /\ pc' = "select"
  /\ UNCHANGED <<stopClosed, stopped, panicked, signals>>

\* select: the stop case, break LOOP.
StopBranch ==
  /\ ~Halted /\ pc = "select" /\ stopClosed
  /\ pc' = "exited"
  /\ UNCHANGED <<stopClosed, stopped, panicked, signals>>

\* The locked tick body: under the limit (or no limit) it returns and the
\* deferred Unlock runs; over it, prepareShutdown unlocks and calls the
\* delegate.
Check ==
  /\ ~Halted /\ pc = "check"
  /\ \/ pc' = "select"
     \/ /\ MemoryLimitSet /\ signals < MaxSignals
        /\ pc' = "delegate"
  /\ UNCHANGED <<stopClosed, stopped, panicked, signals>>

\* d.PrepareShutdown(err), then mu.Lock() again.
Delegate ==
  /\ ~Halted /\ pc = "delegate"
  /\ signals' = signals + 1
  /\ pc' = "restart"
  /\ \E callsStop \in DelegateStops :
       IF callsStop THEN close ELSE UNCHANGED <<stopClosed, panicked>>
  /\ UNCHANGED stopped

\* The crash dump, then d.TryRestart(): the process is replaced, or the
\* error is logged, the tick returns and the loop goes on.
Restart ==
  /\ ~Halted /\ pc = "restart"
  /\ pc' \in {"restarted", "select"}
  /\ UNCHANGED <<stopClosed, stopped, panicked, signals>>

Next ==
  \/ \E o \in Owners : Stop(o)
  \/ Tick \/ StopBranch \/ Check \/ Delegate \/ Restart

(* Run is a goroutine the scheduler keeps running: weak fairness on each  *)
(* of its steps.  Go's select picks uniformly among ready cases, so a     *)
(* stop case that is ready every time the loop reaches the select is      *)
(* taken with probability 1: strong fairness on StopBranch.  Owners need  *)
(* not call Stop.                                                          *)
Fairness ==
  /\ WF_vars(Tick) /\ WF_vars(Check) /\ WF_vars(Delegate) /\ WF_vars(Restart)
  /\ SF_vars(StopBranch)

Spec == Init /\ [][Next]_vars /\ Fairness

-----------------------------------------------------------------------------
TypeOK ==
  /\ pc \in {"select", "check", "delegate", "restart", "exited", "restarted"}
  /\ stopClosed \in BOOLEAN /\ panicked \in BOOLEAN
  /\ stopped \subseteq Owners
  /\ signals \in 0..MaxSignals

(* Once d.stop is closed, Run eventually ends: it leaves LOOP through the *)
(* stop case, or TryRestart replaces the process, or the process panics.  *)
(* This needs the labelled break LOOP in the stop case of Run.             *)
StopEventuallyExits == stopClosed ~> Halted

=============================================================================
