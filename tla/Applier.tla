------------------------------- MODULE Applier -------------------------------
(***************************************************************************)
(* The transaction applier of src/tx_applier.go.  ApplyTransaction applies *)
(* one transaction to the state tree; the ledger calls it once per         *)
(* transaction of a finalized block, so each call is one atomic action     *)
(* here.  Inside a call the code recurses: a batch applies its entries, a  *)
(* contract invocation applies the transactions its executor queued, all   *)
(* sharing one contractExecutorState.  The recursion is a pair of          *)
(* RECURSIVE operators from a tree and an executor state to a result.      *)
(*                                                                         *)
(* The tree keeps, per account, the balance, stake, reward and contract    *)
(* gas balance, the code of each contract account, each contract's        *)
(* storage (abstracted to one of two values, which a run of the contract  *)
(* flips), and the reward withdrawal requests.  A payload that does not   *)
(* parse has parsed = FALSE.                                               *)
(* Amounts are naturals: every uint64 subtraction in the code is guarded.  *)
(*                                                                         *)
(* The WebAssembly executor is not part of the sources.  It is modelled    *)
(* from the contract the spec gives it: a code runs at a fixed gas Cost,   *)
(* stops at the limit when the cost is higher, may return an error, writes *)
(* the contract's storage and queues fixed transactions.                   *)
(***************************************************************************)
EXTENDS Naturals, Sequences, SequencesExt, FiniteSets

CONSTANTS
  Accounts,               \* account ids; contract accounts are tx ids
  Faucet,                 \* sys.FaucetAddress
  Codes,                  \* contract codes
  Cost,                   \* [Codes -> Nat]: gas a full run uses
  Fails,                  \* [Codes -> BOOLEAN]: the invocation errors
  Queue,                  \* [Codes -> Seq(Transactions)]: queued by a run
  MinimumRewardWithdraw,  \* sys.MinimumRewardWithdraw
  RoundIndex,             \* round.Index of the round being applied
  Catalogue,              \* the transactions the ledger may apply
  InitBalance,            \* balances at genesis
  InitReward,             \* rewards at genesis
  MaxSupply               \* bound: the faucet mints while the tree holds less

\* sys.Tag* and the stake opcodes: not part of the sources (spec order).
TagNop == "nop"
TagTransfer == "transfer"
TagContract == "contract"
TagStake == "stake"
TagBatch == "batch"
PlaceStake == "place"
WithdrawStake == "withdraw"
WithdrawReward == "reward"

VARIABLES
  tree,      \* the avl.Tree the ledger applies transactions to
  lastTx,    \* the last transaction applied
  lastErr,   \* whether ApplyTransaction returned an error for it
  gasUsed,   \* the executor.Gas of every invocation of the last call
  gasLimit   \* the gas limit fixed by the first invocation, 0 if none

vars == <<tree, lastTx, lastErr, gasUsed, gasLimit>>

InitTree ==
  [balance |-> InitBalance, stake |-> [a \in Accounts |-> 0],
   reward |-> InitReward, gasBalance |-> [a \in Accounts |-> 0],
   code |-> [a \in Accounts |-> "none"], storage |-> [a \in Accounts |-> 0],
   requests |-> <<>>]

\* contractExecutorState, with the sum of the gas its invocations used.
contractExecutorState(payer) ==
  [GasPayer |-> payer, GasLimit |-> 0, GasLimitIsSet |-> FALSE, used |-> 0, first |-> 0]

Result(st, es, err) == [st |-> st, es |-> es, err |-> err]

Write(st, field, a, v) == [st EXCEPT ![field][a] = v]

\* Mutant: the sender is not debited.
transferValue_noDebit(st, src, from, dst, to, amount) ==
  IF st[src][from] < amount THEN [ok |-> FALSE, st |-> st]
  ELSE [ok |-> TRUE, st |-> Write(st, dst, to, st[dst][to] + amount)]

\* transferValue: move amount from src[from] to dst[to].
transferValue(st, src, from, dst, to, amount) ==
  IF st[src][from] < amount THEN [ok |-> FALSE, st |-> st]
  ELSE LET s1 == Write(st, src, from, st[src][from] - amount)
       IN [ok |-> TRUE, st |-> Write(s1, dst, to, s1[dst][to] + amount)]

\* executor.Execute with the given gas limit.
Execute(st, contract, code, limit) ==
  [Gas |-> IF Cost[code] <= limit THEN Cost[code] ELSE limit,
   GasLimitExceeded |-> Cost[code] > limit,
   err |-> Fails[code],
   st |-> [st EXCEPT !.storage[contract] = 1 - @],
   Queue |-> Queue[code]]

\* Mutant: the payer pays all the gas, the contract's gas balance is lost.
chargeGas_payerPaysAll(st, contract, payer, payerBalance, contractGas, gas) ==
  Write(Write(st, "gasBalance", contract, 0), "balance", payer, payerBalance - gas)

\* Deduct gas from the contract's gas balance first, then from the payer's
\* balance as read before the invocation.
chargeGas(st, contract, payer, payerBalance, contractGas, gas) ==
  IF gas > contractGas
  THEN Write(Write(st, "gasBalance", contract, 0),
             "balance", payer, payerBalance - (gas - contractGas))
  ELSE Write(st, "gasBalance", contract, contractGas - gas)

\* Mutant: the invocation gets the gas it requested, whatever is left.
gasLimitOf_requested(es, requested) == requested

\* realGasLimit: the lesser of the request and what is left of the limit.
gasLimitOf(es, requested) ==
  IF requested < es.GasLimit THEN requested ELSE es.GasLimit

RECURSIVE applyTransaction(_, _, _)
RECURSIVE executeContractInTransactionContext(_, _, _, _, _)

\* Mutant: a run that errors or exceeds its limit keeps its writes.
executeContractInTransactionContext_keepsFailedRun(contract, code, st, requested, es) ==
  LET payerBalance == st.balance[es.GasPayer]
      contractGas == st.gasBalance[contract]
      es1 == IF es.GasLimitIsSet THEN es
             ELSE [es EXCEPT !.GasLimit = requested, !.GasLimitIsSet = TRUE,
                             !.first = requested]
      realGasLimit == gasLimitOf(es1, requested)
      e == Execute(st, contract, code, realGasLimit)
      st2 == chargeGas(e.st, contract, es1.GasPayer, payerBalance, contractGas, e.Gas)
      es2 == [es1 EXCEPT !.GasLimit = @ - e.Gas, !.used = @ + e.Gas]
      queued(r, t) == LET q == applyTransaction(r.st, t, r.es)
                      IN [st |-> q.st, es |-> q.es]
  IN IF payerBalance + contractGas < realGasLimit THEN Result(st, es1, TRUE)
     ELSE IF e.GasLimitExceeded \/ e.err THEN Result(st2, es2, FALSE)
     ELSE LET r == FoldLeft(queued, [st |-> st2, es |-> es2], e.Queue)
          IN Result(r.st, r.es, FALSE)

executeContractInTransactionContext(contract, code, st, requested, es) ==
  LET payerBalance == st.balance[es.GasPayer]
      contractGas == st.gasBalance[contract]
      es1 == IF es.GasLimitIsSet THEN es
             ELSE [es EXCEPT !.GasLimit = requested, !.GasLimitIsSet = TRUE,
                             !.first = requested]
      realGasLimit == gasLimitOf(es1, requested)
      e == Execute(st, contract, code, realGasLimit)
      kept == IF e.GasLimitExceeded \/ e.err THEN st ELSE e.st
      st2 == chargeGas(kept, contract, es1.GasPayer, payerBalance, contractGas, e.Gas)
      es2 == [es1 EXCEPT !.GasLimit = @ - e.Gas, !.used = @ + e.Gas]
      queued(r, t) == LET q == applyTransaction(r.st, t, r.es)
                      IN [st |-> q.st, es |-> q.es]
  IN IF payerBalance + contractGas < realGasLimit THEN Result(st, es1, TRUE)
     ELSE IF e.GasLimitExceeded \/ e.err THEN Result(st2, es2, FALSE)
     ELSE LET r == FoldLeft(queued, [st |-> st2, es |-> es2], e.Queue)
          IN Result(r.st, r.es, FALSE)

\* applyTransferTransaction.  An error leaves the partial writes in place:
\* applyTransaction reverts them.
applyTransferTransaction(st, tx, es) ==
  LET p == tx.payload
      codeAvailable == st.code[p.recipient] # "none"
      t1 == transferValue(st, "balance", tx.creator, "balance", p.recipient, p.amount)
      t2 == IF p.gasDeposit = 0 THEN t1
            ELSE transferValue(t1.st, "balance", tx.creator, "gasBalance",
                               p.recipient, p.gasDeposit)
  IN CASE ~p.parsed -> Result(st, es, TRUE)
       [] ~codeAvailable /\ (p.gasLimit > 0 \/ p.func \/ p.params) -> Result(st, es, TRUE)
       [] tx.creator = Faucet ->
            Result(Write(st, "balance", p.recipient, st.balance[p.recipient] + p.amount),
                   es, FALSE)
       [] ~t1.ok -> Result(t1.st, es, TRUE)
       [] ~codeAvailable -> Result(t1.st, es, FALSE)
       [] ~t2.ok -> Result(t2.st, es, TRUE)
       [] ~p.func -> Result(t2.st, es, FALSE)
       [] OTHER -> executeContractInTransactionContext(p.recipient, st.code[p.recipient],
                                                       t2.st, p.gasLimit, es)

\* applyStakeTransaction.  An unknown opcode falls through the switch.
applyStakeTransaction(st, tx, es) ==
  LET p == tx.payload
      a == tx.creator
      balance == st.balance[a]
      stake == st.stake[a]
      reward == st.reward[a]
      ok(s2) == Result(s2, es, FALSE)
      fail == Result(st, es, TRUE)
  IN CASE ~p.parsed -> fail
       [] p.opcode = PlaceStake ->
            IF balance < p.amount THEN fail
            ELSE ok(Write(Write(st, "balance", a, balance - p.amount),
                          "stake", a, stake + p.amount))
       [] p.opcode = WithdrawStake ->
            IF stake < p.amount THEN fail
            ELSE ok(Write(Write(st, "balance", a, balance + p.amount),
                          "stake", a, stake - p.amount))
       [] p.opcode = WithdrawReward ->
            IF p.amount < MinimumRewardWithdraw \/ reward < p.amount THEN fail
            ELSE ok([Write(st, "reward", a, reward - p.amount) EXCEPT !.requests =
                       Append(@, [account |-> a, amount |-> p.amount, round |-> RoundIndex])])
       [] OTHER -> ok(st)

\* applyContractTransaction: the code is stored under the transaction id.
applyContractTransaction(st, tx, es) ==
  LET p == tx.payload
      st1 == Write(st, "code", tx.id, p.code)
      t == IF p.gasDeposit = 0 THEN [ok |-> TRUE, st |-> st1]
           ELSE transferValue(st1, "balance", tx.creator, "gasBalance", tx.id, p.gasDeposit)
  IN CASE ~p.parsed -> Result(st, es, TRUE)
       [] st.code[tx.id] # "none" -> Result(st, es, TRUE)
       [] ~t.ok -> Result(t.st, es, TRUE)
       [] OTHER -> executeContractInTransactionContext(tx.id, p.code, t.st, p.gasLimit, es)

\* applyBatchTransaction: the entries inherit id and creator and are
\* applied in order until the first error.
applyBatchTransaction(st, tx, es) ==
  LET entry(e) == [id |-> tx.id, creator |-> tx.creator, tag |-> e.tag, payload |-> e.payload]
      step(r, e) == IF r.err THEN r ELSE applyTransaction(r.st, entry(e), r.es)
  IN IF ~tx.payload.parsed THEN Result(st, es, TRUE)
     ELSE FoldLeft(step, Result(st, es, FALSE), tx.payload.entries)

\* applyTransaction: on an error the tree is reverted to its snapshot; the
\* executor state is not.  An unknown tag falls through the switch.
applyTransaction(st, tx, es) ==
  LET r == CASE tx.tag = TagTransfer -> applyTransferTransaction(st, tx, es)
             [] tx.tag = TagStake -> applyStakeTransaction(st, tx, es)
             [] tx.tag = TagContract -> applyContractTransaction(st, tx, es)
             [] tx.tag = TagBatch -> applyBatchTransaction(st, tx, es)
             [] OTHER -> Result(st, es, FALSE)
  IN IF r.err THEN Result(st, r.es, TRUE) ELSE r

\* All PERLs the tree holds: balances, stakes, rewards, contract gas
\* balances and pending reward withdrawals.
Total(st) ==
  MapThenSumSet(LAMBDA a : st.balance[a] + st.stake[a] + st.reward[a] + st.gasBalance[a],
                Accounts)
  + FoldLeft(LAMBDA acc, r : acc + r.amount, 0, st.requests)

Init ==
  /\ tree = InitTree
  /\ lastTx = "none"
  /\ lastErr = FALSE
  /\ gasUsed = 0
  /\ gasLimit = 0

\* ApplyTransaction(round, state, tx), with the creator paying gas.
ApplyTransaction(tx) ==
  /\ tx.creator = Faucet => Total(tree) < MaxSupply
  /\ LET r == applyTransaction(tree, tx, contractExecutorState(tx.creator))
     IN /\ tree' = r.st
        /\ lastErr' = r.err
        /\ gasUsed' = r.es.used
        /\ gasLimit' = r.es.first
  /\ lastTx' = tx

Next == \E tx \in Catalogue : ApplyTransaction(tx)

Spec == Init /\ [][Next]_vars

-----------------------------------------------------------------------------
(***************************************************************************)
(* Properties                                                              *)
(***************************************************************************)

TypeOK ==
  /\ tree.balance \in [Accounts -> Nat] /\ tree.stake \in [Accounts -> Nat]
  /\ tree.reward \in [Accounts -> Nat] /\ tree.gasBalance \in [Accounts -> Nat]
  /\ tree.code \in [Accounts -> Codes \cup {"none"}]
  /\ tree.storage \in [Accounts -> {0, 1}]
  /\ lastErr \in BOOLEAN
  /\ gasUsed \in Nat /\ gasLimit \in Nat

(* Spec 8.8 and 4.3: a contract's storage changes only through a run of   *)
(* its code that completes within the gas it was given, without an error, *)
(* in a transaction that succeeds.  A failed or out-of-gas run inside a    *)
(* transaction that still succeeds (a batch entry, a call at deployment,   *)
(* a call given 0 gas) is undone by the snapshot revert of                 *)
(* executeContractInTransactionContext; a failing transaction by the       *)
(* revert of applyTransaction.  The gas of the step covers a full run.     *)
StorageOnlyBySuccessfulRun ==
  [][\A k \in Accounts :
       tree'.storage[k] # tree.storage[k] =>
         /\ ~lastErr'
         /\ tree'.code[k] # "none"
         /\ ~Fails[tree'.code[k]]
         /\ gasUsed' >= Cost[tree'.code[k]]]_vars

(* No transaction but the faucet's creates PERLs: transfers, deposits,     *)
(* stakes and reward withdrawals move value and gas burns it, through any  *)
(* nesting of batches and queued sub-transactions.                         *)
NoValueCreated ==
  [][lastTx'.creator # Faucet => Total(tree') <= Total(tree)]_vars

(* Spec 4.3: the first invocation fixes the gas limit of the whole call;   *)
(* every later invocation, in a batch or a queue, runs within what is left *)
(* of it, so the gas all invocations use never exceeds that first limit.   *)
GasWithinFirstLimit == gasUsed <= gasLimit

(* Spec 8.10: the PERLs a transaction takes out of balances and contract   *)
(* gas balances are the gas the executor reported for its invocations.     *)
GasAccounting ==
  [][lastTx'.creator # Faucet => Total(tree) = Total(tree') + gasUsed']_vars

\* The entries of batch b applied as transactions of their own, one
\* ApplyTransaction call each, in order, stopping at the first error.
AppliedInSequence(st, b) ==
  LET entry(e) == [id |-> b.id, creator |-> b.creator, tag |-> e.tag, payload |-> e.payload]
      step(r, e) ==
        IF r.err THEN r
        ELSE LET q == applyTransaction(r.st, entry(e), contractExecutorState(b.creator))
             IN [st |-> q.st, err |-> q.err]
  IN FoldLeft(step, [st |-> st, err |-> FALSE], b.payload.entries)

(* Spec 8.9: applying a batch whose entries all succeed leaves the tree   *)
(* that applying its entries one after the other does.  applyBatchTransaction *)
(* hands every entry the batch's one contractExecutorState, so the gas    *)
(* limit fixed by its first contract call caps every later call.           *)
BatchIsSequence ==
  \A b \in {t \in Catalogue : t.tag = TagBatch /\ t.payload.parsed} :
    LET batch == applyTransaction(tree, b, contractExecutorState(b.creator))
        each == AppliedInSequence(tree, b)
    IN ~batch.err /\ ~each.err => batch.st = each.st

=============================================================================
