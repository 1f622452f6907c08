# TLA+ models of the wavelet node core

This directory holds TLA+ models of the parts of the node in `src/` that own
state: the view graph (`src/graph.go`), Snowball (`src/snowball.go`) and the
transaction applier (`src/tx_applier.go`), the stall detector
(`src/internal/stall/detector.go`) and the protobuf codec of the state
tree's node record (`src/iavl/node.pb.go`). It also holds the TLC
configurations that check them. Every definition is translated from the Go
source. The model of the ledger that drives the components is the one
exception: the ledger is not part of `src/`, so what it does is modelled from
`spec.md`. `PROJECT.json` maps each definition to the lines it models.

## 1. Inventory

### Components and their state

| Component | Source | State the code keeps |
|---|---|---|
| View graph | `graph.go` | `transactions`; `children` (id → child ids, in append order); `eligible`; `incomplete`; `missing`; `seedIndex` and `depthIndex`; `roundIndex` (round → ids); `rootID`; `height` |
| Structural validation | `graph.go` `assertTransactionIsValid` | none (a pure check over one transaction) |
| Snowball | `snowball.go` | `preferred`; `last`; `counts` (block → uint16); `count`; `decided` |
| Applier | `tx_applier.go` | the state tree: per account the balance, stake, reward, contract gas balance, contract code, contract storage and reward-withdrawal requests. Per call, a `contractExecutorState`: GasPayer, GasLimit, GasLimitIsSet |
| Ledger (not in `src/`) | spec 5 | current round and root. It calls the three components above |
| Stall detector | `internal/stall/detector.go` | a mutex, a stop channel, a ticker |
| Genesis | `genesis.go` | none (it parses JSON and saves accounts once) |
| IAVL node record | `iavl/node.pb.go` | a `Tree` message (key, value, height, size, left and right subtrees, storage key, unknown fields) and its protobuf codec, generated by gogo/protobuf |
| CLI, server, benchmark, `common/types.go` | | wiring and type declarations |

### Operations and how the components interact

The gossip layer calls `Graph.AddTransaction` for every transaction it
receives.

- `assertTransactionIsValid` checks the transaction's structure. The
  transaction is then stored.
- `processParents` links it under each parent and records absent parents in
  `missing`.
- If a parent is absent or incomplete, the transaction stays incomplete.
  Otherwise `markTransactionAsComplete` verifies its depth and confidence
  against its parents and indexes it (`createTransactionIndices`, which also
  updates `height` and `eligible`). It then recursively promotes every
  incomplete child whose parents are now all complete.
- A transaction that fails the check is deleted together with the children
  listed under it (`deleteIncompleteTransaction`).

Other graph operations:

- `LookupTransactionByID` records a miss in `missing`.
- `DeleteTransaction` removes any id.
- `FindEligibleParents` evicts stale entries of `eligible`.

The ledger drives the round:

1. It builds a block and queries peers, then feeds the tallies into
   `Snowball.Tick`. It calls `Prefer` with its own proposal and `Reset` at
   the start of each round.
2. When Snowball decides, the ledger applies the block's transactions with
   `ApplyTransaction`, one at a time.
3. It advances the round with `Graph.Reset(newRound)`, which indexes the new
   root and assigns the transactions deeper than the old root to the round,
   then calls `Graph.Prune`, which deletes the rounds older than
   `PruningDepth`.

`ApplyTransaction` recurses:

- A batch applies its entries.
- A contract invocation (a transfer with a function name, or a contract
  deployment) runs the executor, charges gas and applies the transactions the
  executor queued.
- All nested calls share one `contractExecutorState`.
- Every `applyTransaction` snapshots the tree first and reverts to the
  snapshot on error.

### Hard behaviours

- **Graph: arrival order.** Parents, children and forged transactions can
  arrive in any order. Promotion, rejection, deletion and pruning must keep
  the indices consistent.
- **Graph: lazy bookkeeping.** `eligible` is evicted lazily, `missing` is
  never cleaned by `Reset`, and deleting an id erases its child links.
- **Snowball: counters.** The decision counts consecutive successes of `last`,
  while the preference follows total counts. A failed tick resets one
  counter and not the other. Counts are uint16.
- **Applier: atomicity across recursion.** A failed transaction must revert
  every nested write. A failed or out-of-gas contract run must revert its own
  writes even when the transaction around it succeeds.
- **Applier: gas.** The gas limit is shared across nested invocations. Gas
  payments use balances read before the executor ran; after a failed run
  these balances are written over the reverted snapshot, so they are still
  current. Queued sub-transaction
  errors are swallowed. Batch reverts undo gas payments.
- **Stall detector.** `Run` is a goroutine; `Stop` is called from others
  and may be called from inside the shutdown callback. `Stop` closes the
  channel unguarded and does not wait for a tick in progress. A failed
  `TryRestart` sends the loop back to the select.
- **Node record codec: 64-bit arithmetic on untrusted input.** `Unmarshal`
  adds decoded lengths to indices in `int`, truncates tags to `int32` and
  heights to `uint32`, merges repeated nested fields, and keeps unknown
  fields of every wire type. `Size` must predict to the byte what
  `MarshalTo` writes.

### Properties each component needs

- **Graph**
  - Only honest transactions become complete.
  - It implements the lifecycle of spec 4.1: a transaction becomes complete
    only after its parents, a complete one never turns incomplete, and the
    root only moves to a deeper complete transaction.
  - The progeny of a rejected transaction goes with it.
  - Eligible parents are childless.
  - The root survives pruning.
  - `height` is above every depth.
  - No transaction waits forever once its parents are complete.
  - Confidence is as the spec defines it.
- **Validation**: accepts exactly the spec's rule.
- **Snowball**
  - It implements the counter-free specification: it decides exactly after
    β+1 consecutive successes and prefers only majorities.
  - The preference matches the decision.
  - No nil dereference.
  - The preferred block has the highest count.
- **Applier**
  - A contract's storage changes only through a run that completes within
    its gas and without an error, in a transaction that succeeds. Both
    reverts are needed for this: the one in `applyTransaction` and the one
    around the executor in `executeContractInTransactionContext`.
  - Only the faucet creates value.
  - No balance underflows.
  - Nested invocations stay within the first gas limit.
  - Gas charged equals gas reported.
  - A batch whose entries succeed equals its entries applied in sequence.
- **Stall detector**: once stopped, `Run` ends.
- **Node record codec**: a saved tree loads back unchanged; `Size` is the
  marshalled length; a malformed record is an error, never a panic.

## 2. Modules and plan

| Module | Models | Composes / instantiated by |
|---|---|---|
| `ViewGraph` | `graph.go`: every mutator is one action. The internal helpers are pure operators over the graph as a record. `markTransactionAsComplete` is RECURSIVE and folds over `children` | `MCViewGraph` |
| `TxValidation` | `assertTransactionIsValid` as a pure operator (the parent loop is RECURSIVE), against the spec's rule as the reference definition | checked directly |
| `Snowball` | `snowball.go`: NewSnowball, Reset, Prefer and Tick | `MCSnowball` |
| `Applier` | `tx_applier.go`: `applyTransaction` and `executeContractInTransactionContext` are mutually RECURSIVE operators from (tree, executor state) to a result | `MCApplier` |
| `ViewGraphSpec` | the lifecycle of spec 4.1 (line 63) with no child lists or indices: a set `complete` and a `root` | instanced by `ViewGraph` as `Abs`, with `transactions \ incomplete` as `complete` |
| `SnowballSpec` | what Snowball promises (spec 4.2, 8.7), with no counters | instanced by `Snowball` as `Abs`, with `history` as its `rounds` |
| `StallDetector` | `detector.go`: `Run` as a goroutine with a pc, `Stop` by several owners | checked directly, with fairness |
| `NodeCodec` | `iavl/node.pb.go`: `Size`, `MarshalTo`, `Marshal`, `encodeVarintNode`, `sovNode`, `Unmarshal` and `skipNode` as RECURSIVE operators over byte sequences; a save/load state machine around them | `MCNodeCodec` |

The most important behaviour is the graph's handling of arrival order and
rejection, so that was modelled first. Snowball and the applier came next.

Two planned pieces were not kept. Section 4 gives the reasons:

- a `Node` module that composes `ViewGraph`, `Snowball` and `Applier`
  through the ledger's round protocol;
- a liveness property for the graph's promotion.

### How the modules correspond to the code

**ViewGraph.**

- Transactions are content-addressed, so an id fixes its parents, depth and
  confidence. The constants `Parents`, `Depth` and `Confidence` are the
  catalogue of everything the network may gossip, honest or forged.
- `G` gathers the graph's fields into a record. Each helper (`processParents`,
  `deleteTransaction`, `deleteIncompleteTransaction`,
  `createTransactionIndices`, `markTransactionAsComplete`) is a function of
  that record, named after its Go function, and `Commit` writes it back.
- `indexed` stands for the seed and depth indices. `rejected` is a history
  variable: the ids rejected in the last step.
- `Reset(r)` takes roots from `RootCandidates`: honest descendants of the
  current root that are stored and complete, as the ledger finalizes them.
- `ResetToAbsentRoot` says whether the ledger may finalize a root this node
  never received.
- `ViewGraphSpec` is the abstract graph. `Complete(S)` adds a set of valid
  transactions whose parents are complete or in `S`; that set is one
  `AddTransaction` together with the promotions it cascades into.
  `Remove(S)` stands for `DeleteTransaction`, `Prune` and deletion on
  rejection, and never removes the root. `Advance(r)` stands for `Reset`.
  `ImplementsViewGraphSpec` is `Abs!Spec` with
  `complete <- transactions \ incomplete`, `root <- rootID` and
  `Valid <- HonestTxs`.

**Snowball.**

- Tallies and alpha are integers in tenths, so `m < 2α/denom` becomes
  `top * denom < 2 * Alpha`.
- Go's random map order in the majority loop is a nondeterministic choice
  among the top tallies.
- `panicked` records the nil dereference at `snowball.go:89`.
- `history` is a history variable: the majority of each tick since the last
  Reset.
- `PreferOnReset` is the caller protocol:
  - TRUE: Prefer is called after every Reset, before any Tick.
  - FALSE: Prefer is never called.
- `SnowballSpec` has only `preferred`, `decided` and `rounds`. A tick
  appends its majority, may move the preference to that majority only, and
  sets `decided` exactly when the last β+1 rounds are the same block.
  `ImplementsSnowballSpec` is `Abs!Spec` with `rounds <- history`. It holds
  under `PreferOnReset`; without it a Tick before Prefer sets `panicked`.

**Applier.**

- Each `ApplyTransaction` call is one atomic action over a catalogue of
  transactions.
- Error results carry the partial writes, and `applyTransaction` reverts
  them, as the code does.
- The executor is not in `src/`. It is modelled from the spec's executor
  contract:
  - each code has a fixed gas cost;
  - it stops at the limit when the cost is higher;
  - it may error;
  - it flips its contract's storage;
  - it queues a fixed list of transactions.
- `gasUsed` and `gasLimit` are history variables: the executor gas reported
  by the last call, and the limit fixed by its first invocation.

**StallDetector.**

- `pc` is where `Run` is: at the `select`, in the locked tick body
  (`check`), calling the delegate, at `TryRestart`, returned (`exited`) or
  replaced by exec (`restarted`).
- `d.mu` is private and only `Run` takes it, so it orders nothing and is
  not a variable.
- The memory reading, the callback's choice to call `Stop`, and
  `TryRestart` (not in the sources) are nondeterministic. The crash dump is
  file I/O whose every path ends at `TryRestart`.
- `close` models `close(d.stop)`: a second close sets `panicked`, which
  ends the process.

**NodeCodec.**

- A Go `uint64` or `int` is a word of four 16-bit limbs, least significant
  first (`Add` wraps modulo 2^64, `Negative` reads bit 63, `Shr7`/`Shl7`
  shift). Indices below 2^31 are naturals; an index plus a decoded length is
  computed on words, as the overflow is what matters there.
- `readGroups`/`readVarint` are the varint loop copied into every field
  (ten groups at most, EOF at the end of the input); `FieldNum` is
  `int32(wire >> 3)` and `Low32` the `uint32` of `Height`.
- `lengthDelimited` is the length read, the `< 0` and `> l` checks and the
  slice, which panics when the end wrapped below the start. `field` is one
  case of the switch; `skipNode`/`skipGroup` are `skipNode`'s wire types,
  the group loop recursing on `dAtA[start:]`.
- A panic is the error `"panic"`. `Marshal` panics when `MarshalTo` writes
  past `Size` bytes.
- The state machine: `Save` marshals a tree of `Trees`, `Load` unmarshals
  the record. A record of `Inputs` (found in storage) that decodes is saved
  and loaded again, so the decoded tree must round-trip too. A record of
  two marshalled trees of `Pairs` back to back must decode to `Merged`,
  protobuf's merge written as a reference definition; `nestedBase` is the
  `if m.Left == nil` that makes a repeated subtree merge.

## 3. Runs

| Run | cfg | Expect | What it shows |
|---|---|---|---|
| viewgraph_safety | `MCViewGraph.cfg` | pass (≈302k states) | Under any interleaving of add, lookup, delete, eligible scans, Reset and Prune over a diamond DAG with a forged branch: only honest transactions complete (`AcceptedAreValid`), eligible parents are childless, the root survives pruning, and the graph implements `ViewGraphSpec` (`ImplementsViewGraphSpec`). Takes about 2 minutes |
| viewgraph_progeny | `MCViewGraph_Progeny.cfg` | violation | A forged transaction's grandchild survives its rejection (graph.go:283) |
| viewgraph_round_leak | `MCViewGraph_RoundLeak.cfg` | violation | A sibling completed after Reset moved the root past its depth is in no round index and is never pruned (graph.go:415) |
| txvalidation_parents | `TxValidation_ParentRuleAgrees.cfg` | violation | Parent index 0 is never checked, so a self-parent is accepted |
| snowball_safety | `MCSnowball.cfg` | pass | Snowball implements `SnowballSpec` (decides exactly after β+1 consecutive alpha-majorities, prefers only majorities, frozen once decided); `preferred` has the highest count |
| snowball_follows_streak | `MCSnowball_FollowsStreak.cfg` | violation | Decided on X while preferring Y (spec 8.7) |
| applier_safety | `MCApplier.cfg` | pass | Storage changes only by a completed, error-free run in a successful transaction (`StorageOnlyBySuccessfulRun`), only the faucet mints, no underflow, and gas stays within the first limit |
| applier_batch_sequence | `MCApplier_BatchSequence.cfg` | violation | Deploy K, then a batch of two calls of K with gas limit 1 each: the batch's second call inherits the used-up limit and is reverted as out of gas, so the batch differs from the two calls applied apart (spec 8.9 against 4.3, tx_applier.go:218) |
| applier_gas_accounting | `MCApplier_GasAccounting.cfg` | violation | A failing batch gets its contract call's gas refunded (spec 8.8 against 8.10) |
| stall_stop_exits | `StallDetector.cfg` | pass (liveness) | Once `d.stop` is closed, `Run` ends (break LOOP, exec or panic), whatever the memory readings and `Stop` calls |
| codec_roundtrip | `MCNodeCodec.cfg` | pass (1057 states) | Every tree, and every tree decoded from a malformed or unusual record, is marshalled into exactly `Size` bytes and loads back unchanged; two records back to back decode to the protobuf merge of their trees (`ConcatenationIsMerge`, against the reference `Merged`) |
| codec_length_overflow | `MCNodeCodec_LengthOverflow.cfg` | violation | An 11-byte record with a Value length of 2^63 − 1 makes `Unmarshal` panic: `iNdEx + byteLen` wraps below zero and passes `postIndex > l` (node.pb.go:327) |

Every property of a passing run has a mutant in `PROJECT.json`: an operator
beside the original that changes it the way a plausible bug would. TLC finds
the property violated when the mutant replaces the original.

### Bounds and why they are enough

**Graph.** The catalogue has seven transactions:

- genesis `g`;
- `a` → `b`, and `d` on both `a` and `b` (a diamond);
- `f` with a forged depth, `c` built on `f`, and `e` on `c`;
- `h`, a sibling of `b` at its depth, only in the round-leak run.

Settings: K = 2, PruningDepth = 1, two rounds, and at most two children per
list. Every path of the code is taken in these runs:

- promotion through two levels;
- rejection with a child waiting;
- eligibility loss;
- pruning of a round while its root is current.

`e` (a grandchild of the forgery) is only in the progeny run, to keep the
main run under five minutes.

**Snowball.** Two blocks, β = 2, up to 7 ticks between Resets, tallies
{0, 0.1, 0.5, 0.9} and |votes| ∈ {1, 2, 10}. This covers:

- success and failure at both denominators;
- ties;
- a change of majority;
- a decision.

The shortest divergence needs 7 ticks.

**Applier.** Five accounts: user A, plain B, faucet F, and contracts K (cost
1, queues a payment) and L (always errors). The catalogue covers:

- every tag and stake opcode;
- a malformed payload;
- the faucet;
- invocations that succeed, exceed their limit or fail;
- a batch of two calls;
- a batch that fails after a call.

MaxSupply = 6 bounds the faucet's minting.

**Stall detector.** Three owners, a callback that may or may not call
`Stop`, and up to four readings over the memory limit (`MaxSignals`). This
reaches a `Stop` during every phase of a tick, a double close from an owner
and from the callback, and repeated failed restarts.

**Node codec.** 288 leaves (key empty or one byte; value empty or 130
bytes, a 2-byte length; height 0, 1 or 300; size 0, 2^32 + 5 or 2^63, a
5- and a 10-byte varint; storage key empty or two bytes; no unknown field,
or a varint, a group holding a varint, or a fixed32 unknown field) and 7
trees with one or two levels of subtrees, including an empty subtree. 28
records reach every error of `Unmarshal` and `skipNode`: EOF in a tag, a
length or a value, integer overflow, negative length, wrong and illegal
wire types, an illegal tag (also from `int32` truncation of a tag of
2^39), end group, and repeated scalar and nested fields. Each record is
one call, so a larger set adds states, not behaviours. `Pairs` is every
ordered pair of five trees with subtrees on one or both sides, unknown
fields and scalars set on one side only.

### Fairness

Only `stall_stop_exits` checks liveness. `Run` is a goroutine the Go
scheduler keeps running, so each of its steps is weakly fair. When both
cases of a `select` are ready, Go picks one uniformly at random; the stop
case, ready every time the loop returns to the select once `d.stop` is
closed, is therefore taken with probability 1, which is strong fairness of
`StopBranch`. The owners are not fair: nobody has to call `Stop`. The run
sets `CHECK_DEADLOCK FALSE` because `Run` really ends: it returns, the
process is replaced, or it panics.

The codec runs also set `CHECK_DEADLOCK FALSE`: a save and a load are
calls that return, after which nothing is left to do.

The other runs check safety. The ledger that calls the graph, Snowball and
the applier is not in the sources, so no fairness of its steps is assumed.

## 4. Not modelled

- **Read accessors.** `ListTransactions`, `MissingTransactions`,
  `TransactionsWithDifficulty` and the counters change nothing. Two hazards of
  `ListTransactions` are listed in `PROJECT.json` from reading the code: its
  pagination wraps `offset + limit` and returns nothing once `offset >=
  limit` (graph.go:474-481), and its unstable `sort.Slice` over map order
  lets successive pages repeat or skip transactions of equal depth
  (graph.go:468, spec 4.1 asks for a stable sort).
- **Float rounding** in Snowball's alpha comparison.
- **Byte encodings.** Ids, payload encodings and the merkle tree structure are
  abstracted. Ids are model values or naturals, and payloads are records.
- **Overflow.** uint64 overflow of balances (faucet minting,
  `availableBalance`) is listed as a hazard. It needs values near 2^64.
- **Stall detector details.** The ticker period, `runtime.ReadMemStats`
  and the crash dump files.
- **Behaviours seen in the models but not kept as runs** (listed as
  hazards in `PROJECT.json`):
  - Reset to a root never received leaves its waiting children incomplete
    (graph.go:408). With `ResetToAbsentRoot = TRUE`, `ImplementsViewGraphSpec`
    fails in two steps, because the absent root becomes complete without any
    parent check.
  - A rejected child stays listed in its parent's `children`, so the
    parent is never eligible again (graph.go:184).
  - `DeleteTransaction` of an id that transactions wait on (a missing id,
    or a stored incomplete one) erases `children[id]`. When the id is
    added again, nothing promotes its waiters, so they stay incomplete for
    good (graph.go:270-271). TLC shows this as a liveness violation. The
    property checked was: every waiting honest transaction eventually
    leaves `incomplete`, under weak fairness of `AddTransaction` for every
    honest transaction, i.e. gossip eventually delivers it. The
    counterexample takes four steps: add `a`, delete `a`, add `h` (which
    waits on `a`), delete the missing `a`. With `DeleteTransaction` left
    out, the same property holds on `MCTxsLateSibling`, Reset and Prune
    included. It is not a run because nothing under `src/` calls
    `DeleteTransaction` and the spec has no such operation. On the larger
    instance the property also needs a child-link bound above
    `MaxChildLinks = 2`, since a full `children` list disables the delivery
    that fairness demands.
  - With β = 0 Snowball decides on the second tick, not the first
    (snowball.go:95).
  - `Stop` during a tick does not prevent a later `PrepareShutdown` or
    restart, and a failed `TryRestart` repeats the shutdown signal on every
    tick (detector.go:31, 124).
  - A second `Stop` panics (detector.go:46).
  - `createTransactionIndices` raises `height` only when it is below the
    new depth, so one add of a transaction one level deeper than the
    deepest leaves `height` equal to a depth (graph.go:306, spec 8.4).
  - A successful `Tick` before any `Prefer` dereferences the nil preference
    and panics (snowball.go:89, `panicked`), reached in one step.
  - `assertTransactionIsComplete` expects confidence = max parent
    confidence + number of parents, where spec 3 says the sum
    (graph.go:158).
- **The ledger's round protocol and the composition of the components.**
  The ledger decides when to build a block, query peers, tick Snowball,
  apply a block, Reset and Prune. It is not in `src/`, so a `Node` module
  composing `ViewGraph`, `Snowball` and `Applier` would take all of its
  control from spec 5, not from code. Each component is checked instead
  against every call sequence the ledger could make. For the graph, the
  round root and the `Reset`/`Prune` calls are chosen by the environment
  (`RootCandidates`, `round`).
- **Promotion liveness as a run.** See the `DeleteTransaction` item above.
  The property holds unless a caller deletes an id that transactions wait
  on, and nothing under `src/` is that caller.
- **Genesis file parsing, CLI, server and benchmark.** These are I/O and
  wiring. One observation from reading `genesis.go`: `json.Unmarshal` into
  `interface{}` yields `float64` for every JSON number, so the `case uint64`
  branch (genesis.go:54) never matches and numeric entries of the genesis
  file are not stored; only strings are.
- **The rest of `node.pb.go`.** `Reset`, the getters, the reflection-based
  deterministic `XXX_Marshal`, the unused `sozNode` and the descriptor
  registration.
