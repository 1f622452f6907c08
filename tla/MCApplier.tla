------------------------------ MODULE MCApplier ------------------------------
(* The applier over four accounts: a user A, a plain account B, the        *)
(* faucet F, and K and L, the accounts of two contracts that transactions  *)
(* K and L deploy.  Contract code "c" uses 1 gas and queues a payment of   *)
(* 1 from K to B; code "d" uses 1 gas and always errors.                   *)
EXTENDS Applier

MCAccounts == {"A", "B", "F", "K", "L"}
MCCodes == {"c", "d"}
MCCost == "c" :> 1 @@ "d" :> 1
MCFails == "c" :> FALSE @@ "d" :> TRUE

Transfer(to, amount, limit, func) ==
  [parsed |-> TRUE, recipient |-> to, amount |-> amount, gasDeposit |-> 0,
   gasLimit |-> limit, func |-> func, params |-> FALSE]

StakeOp(op, amount) == [parsed |-> TRUE, opcode |-> op, amount |-> amount]

Tx(id, creator, tag, payload) ==
  [id |-> id, creator |-> creator, tag |-> tag, payload |-> payload]

MCQueue ==
  "c" :> << Tx("Q", "K", TagTransfer, Transfer("B", 1, 0, FALSE)) >>
  @@ "d" :> << >>

Deploy(id, code, deposit) ==
  Tx(id, "A", TagContract, [parsed |-> TRUE, code |-> code, gasDeposit |-> deposit, gasLimit |-> 2])

\* A call of contract K with 1 PERL and the given gas limit.
CallK(limit) == Transfer("K", 1, limit, TRUE)

Batch(entries) == Tx("T", "A", TagBatch, [parsed |-> TRUE, entries |-> entries])

MCCatalogue == {
  Tx("T", "A", TagNop, [parsed |-> TRUE]),
  Tx("T", "A", TagTransfer, Transfer("B", 1, 0, FALSE)),
  Tx("T", "A", TagTransfer, Transfer("B", 1, 1, FALSE)),
  Tx("T", "F", TagTransfer, Transfer("A", 1, 0, FALSE)),
  Tx("T", "A", TagStake, StakeOp(PlaceStake, 1)),
  Tx("T", "A", TagStake, StakeOp(WithdrawStake, 1)),
  Tx("T", "A", TagStake, StakeOp(WithdrawReward, 1)),
  Tx("T", "A", TagStake, [parsed |-> FALSE]),
  Deploy("K", "c", 2),
  Deploy("L", "d", 0),
  Tx("T", "A", TagTransfer, CallK(1)),
  Tx("T", "A", TagTransfer, CallK(0)),
  Batch(<< [tag |-> TagTransfer, payload |-> CallK(1)],
           [tag |-> TagTransfer, payload |-> CallK(1)] >>),
  Batch(<< [tag |-> TagTransfer, payload |-> CallK(1)],
           [tag |-> TagStake, payload |-> StakeOp(PlaceStake, 9)] >>) }

MCInitBalance == [a \in MCAccounts |-> IF a = "A" THEN 5 ELSE 0]
MCInitReward == [a \in MCAccounts |-> IF a = "A" THEN 1 ELSE 0]
=============================================================================
