# Fermi-Pro: specifications, checks and proofs

This directory holds the TLA+ specifications of the Fermi-Pro market program
(`src/programs/openbook-v2`) and of the TypeScript client that trades with it
(`src/ts/client`), the TLC configurations that check them on small markets, and
TLAPS proofs of what holds for every size. File names below are relative to
`src/programs/openbook-v2/src`, and those ending in `.ts` to
`src/ts/client/src`, unless they say otherwise.

1. [The system](#1-the-system)
2. [Plan](#2-plan)
3. [Modules and how they correspond to the code](#3-modules-and-how-they-correspond-to-the-code)
4. [Runs](#4-runs)
5. [Fairness](#5-fairness)
6. [Where the program and its documentation disagree](#6-where-the-program-and-its-documentation-disagree)
7. [Proofs](#7-proofs)
8. [What is assumed and what is left out](#8-what-is-assumed-and-what-is-left-out)

## 1. The system

Fermi-Pro is a central limit order book on Solana, derived from OpenBook V2. In
OpenBook a user deposits what an order may cost before it is placed. In Fermi
the tokens stay in the user's wallet: `place_order` takes a margin of one
hundredth into the market's vault, *approves* the market's authority to take the
rest later, and, where the order matches, parks the match in an event heap. A
later instruction, sent by anyone, *finalizes* the match: it debits what the
free balance of each party does not cover from its wallet and credits both.
Between the two instructions prices move, wallets are emptied, orders are
cancelled and events are finalized in any order. The program is a set of
instructions on shared accounts. An instruction runs alone and is undone if it
fails, so what interleaves is whole instructions of several users, bots and
admins, the clock and the oracle.

### Components

| component | state | operations | talks to |
|---|---|---|---|
| Event heap, `state/orderbook/heap.rs` | one array of nodes carrying a ring of pending events and a list of free nodes; header with `free_head`, `used_head`, `count`, `seq_num` | `push_back`, `delete_slot`, `pop_front`, `iter` | pushed to by the order book, emptied by the finalizing instructions |
| Order trees, `ordertree.rs`, `nodes.rs`, `ordertree_iterator.rs` | a pool of 1024 nodes with a free list and a bump index, two crit-bit trees in it; each inner node caches its subtree's earliest expiry | `insert_leaf`, `remove_by_key`, `find_worst`, `remove_one_expired`, iteration by key | used by a book side |
| Book side, `bookside.rs`, `bookside_iterator.rs` | the two roots (fixed and oracle-pegged) | merged walk in price-time order at the oracle's price of now, `remove_worst`, `remove_one_expired`, `is_full` | reads the clock and the oracle; used by the order book |
| Order book, `book.rs`, `order.rs`, `order_type.rs` | borrowed bids and asks | `new_order`, `cancel_order`, `cancel_all_orders` | changes trees, event heap and open orders accounts in one instruction |
| Open orders account, `open_orders_account.rs` | slots for orders, lots committed, free balances, locked maker fees, totals approved | `add_order`, `remove_order`, `cancel_order` | the order book and every instruction that moves balances |
| Market, `market.rs` | lot sizes, fees, `seq_num`, deposit totals, fees available, expiry | fee arithmetic, totals | all instructions |
| Placing, `place_order.rs`, `edit_order.rs`, `place_take_order_jit.rs` | none of their own | build an order, run the book, move the margin, approve | SPL token program |
| Finalizing, `finalize_matches.rs`, `finalize_matches_direct.rs`, `finalize_market_order.rs`, `cancel_with_penalty.rs` | none of their own | settle one event of the heap and delete it | two open orders accounts, four wallets, two vaults |
| Funds, `deposit.rs`, `settle_funds.rs`, `sweep_fees.rs` | none of their own | move tokens between wallets and vaults | market totals, free balances |
| Administration, `create_market.rs`, `set_market_expired.rs`, `close_market.rs`, `prune_orders.rs` | none of their own | life and end of a market | book and heap must be empty at the end |
| Oracles, `state/oracle.rs` | price accounts of third parties | read a price, or fail | pegged orders |
| Account lifecycle, `create_open_orders_account.rs` and others | an indexer per owner: a counter and the list of the owner's accounts | create and close accounts and the indexer, delegate | open orders accounts; an account's address is derived from the counter |
| TypeScript client, `client.ts`, `utils/rpc.ts` | none; what it has read so far, and the transaction it has sent | find an account of a market, create one, send and confirm a transaction | the program, over reads and transactions that may fail, be late or be lost |
| Scripts, `tests/*.ts` | none | place an order; finalize a slot of the heap; cancel with penalty | the client |
| Other clients and copies, `src/lib`, `src/Spam`, `src/kp4` | none | the same, in Rust or in older copies | the program |

### What is hard here

- **Order of instructions.** Matching, cancelling, eviction and finalization of
  the same account's orders happen in any order and draw on the same lots,
  allowance and locked fees.
- **Who finalizes.** Anyone may finalize a match and passes the accounts, most of which
  the program does not compare with the match's parties.
- **Two-step settlement.** A match leaves the book in one instruction and moves
  tokens in another. In between the heap must keep the event in the slot a crank
  named, and the account must still hold what it needs.
- **Who is at hand.** An order that expires or is evicted while someone else
  trades is credited to its owner only if the owner's account was passed along;
  otherwise an event stands for it.
- **Time and the oracle.** An order that was valid when posted may have expired,
  or be beyond its peg limit, or have no price at all, when it is reached.
- **Limits.** 600 events, 1024 tree nodes shared by two trees, 24 orders for an
  account, a handful of dropped orders per instruction, 64-bit lots.
- **Pointer surgery.** Two linked lists in one array of 16-bit indices; two
  crit-bit trees and a free list in one pool of nodes, where a removal moves
  nodes and every node caches its subtree's earliest expiry.
- **Reads before writes.** A client decides from several reads what to send; by
  the time the transaction lands, other executions of the script or the owner's
  other tools may have created or closed the account it names.
- **Late transactions.** A transaction lands at any moment while its blockhash is
  valid, or never; a script that gives up does not know which.

### What makes each component correct

- *Event heap*: both lists stay sound and share out all nodes; pending events do
  not move; the traversal yields them in order of arrival.
- *Trees*: every order is found by its key, shown once by the iteration, and
  given up exactly when it is the one asked for; nodes are neither lost nor
  shared; a side that is not full has room.
- *Book side*: orders are walked in price-time order; only orders that
  may trade now are yielded, and none of those is left out; a full side gives up
  the worst order only, and only for a better one.
- *Order book*: the book is never left crossed; priority is respected; what
  leaves the book arrives in an event or in an account, in full and once.
- *Open orders account*: the slot of a resting order names it; lots, fees and
  allowance cover what is pending and what rests.
- *Settlement*: no tokens made or lost; every event is settled in the end; the
  booked totals cover what is owed; no account is closed while something names it.
- *Client and indexer*: the indexer lists the accounts that exist; an owner never
  has two accounts in a market by accident; no order ends in another market;
  once a script has reported, its transaction lands no more.

`PROJECT.json` lists each hazard with its line and the properties for it.

## 2. Plan

In the order of importance, done (x) and to do:

- (x) `EventQueue`, `EventHeap`: the abstract queue, and the two linked lists
  shown to implement it. `EventHeapProofs`: type invariant, the two-list
  invariant and what follows from it, and that the heap implements the queue, for
  every size.
- (x) `MarketFees`, `OpenOrders`, `BookSide`, `OrderBook`: the pure part, one
  operator per function of the code, layered as in the code.
- (x) `Fermi`: the market, one action per instruction, composing the layers,
  with batches of orders (`cancel_and_place_orders`) and accounts that are
  created and closed. `MCFermi`: the inputs of its runs.
- (x) `TreePool`, `OrderSet`, `OrderTree`: the crit-bit trees of one side and
  their pool of nodes, shown to implement the sets of orders that `BookSide` is
  built on.
- (x) `Client`: the client's scripts against the indexer and the accounts of one
  owner. `ClientProofs`: that reports are final, that orders stay in their
  market, that the indexer is exact and that no owner gets a second account in a
  market, for any number of scripts.
- (x) `DataProofs`: induction over sets, and with it what loops and sums compute.
  `BookProofs`: the arithmetic of fees, and what each operation does to a
  well-formed book. `FermiProofs`: types, conservation of tokens, rebates and
  batches. `HeldProofs`: what accounts hold for the orders on the book.
  `MarginProofs`: that margins cover all an account still has to deliver, on the
  book and in the heap, and that no account is closed over an order or a match.
  `TotalsProofs`: that the deposit totals cover all that the market owes, so that
  payments out of them never fail.

To do, most important first:

- `FillsAreFair` and `NothingLost` as theorems about instructions that bring one
  order: one order reaches each resting order at most once.
- The free list of the tree's pool (`NodesShared`) as a theorem, along the lines
  of the heap's; the trees themselves are defined by recursion over paths.
- A run over quote limits that bind and one over delegates (`set_delegate`).
- The settlement events of batches and of immediate-or-cancel orders, once the
  program says who pays for them (section 6).

Composition: `Fermi` EXTENDS `OrderBook`, which EXTENDS `OpenOrders` and
`BookSide`, which EXTEND `MarketFees`. `BookSide` and `OrderTree` both EXTEND
`TreePool`, so that they agree on when a side is full, and `OrderTree`
instantiates `OrderSet`, whose `ExpiredFirst`, `Worst` and `Room` say in terms of
keys what `OneExpired`, `WorstOrder` and `IsFull` of `BookSide` say in terms of
leaves. `Client` has a model of its own of the accounts, as far as the client
sees them: what an order does inside the market is `Fermi`'s business. The heap inside `Fermi` is the abstract
one, a slot map and a stack of free slots, which is what `EventHeap` is proved to
implement through `EventQueue`; the order in which events are traversed is not
used by `Fermi` because cranks name slots. No module uses a RECURSIVE operator:
loops are recursive functions of the number of rounds and sums are folds over
sets, so that theorems can be stated about all of them. `DataProofs`
stands under `BookProofs`, `FermiProofs` extends it, `HeldProofs` extends
`FermiProofs`, `MarginProofs` extends `HeldProofs`, and `TotalsProofs` extends
`MarginProofs`.

## 3. Modules and how they correspond to the code

**`EventHeap`** has the fields of `EventHeapHeader` and of `EventNode` as
variables, `next`, `prev` and `event` as functions from slots. `PushBack`,
`DeleteSlot` and `PopFront` make the assignments of the code at once, in operators
named for the field they compute (`NextAfterPush`, ...). The guards are the
`assert!`s and early returns. `Iter` is `EventHeapIterator`, which follows `next`
from `used_head` as many times as `count` says; `FreeList` follows it from
`free_head`. `MaxSeqNum` bounds
the number of pushes. The event's value is one of a small set.

**`EventQueue`** promises a sequence of pending events, each with the slot it
sits in, and a stack of free slots.

**`MarketFees`** holds `Side`'s comparisons and the rounding of taker fees, maker
fees and rebates in `market.rs`. Fees are per `FeesScaleFactor` as in the code.
`MaxI64` stands for `i64::MAX`: where the code traps on overflow or takes the
maximum as "no limit", the model does so at `MaxI64`.

**`OpenOrders`** is the account as a record: `AddOrder`, `RemoveOrder`,
`CancelSlot` are its methods; `AddOrderFits` and `CancelSlotFits` say when they
fail. A free slot is `FreeOrder`, a fixed bid at price zero as in `default()`.

**`BookSide`**: a tree is the set of its leaves. A leaf is a record with the
fields of `LeafNode`; its key is the pair of `data` (price or peg offset) and `seq`,
compared by `KeyAhead`, which is what `new_node_key` encodes in 128 bits. `Iter` is
the merged walk of `BookSideIter` with its two cursors, including the look-ahead
over pegged orders without a price that moves the cursor of the walk itself.
`IsFull` counts nodes of the shared pool (2n - 1 for n leaves) and keeps the bump
index, because a side counts as full only once the index has reached the end.
`OneExpired` and `WorstOrder` say which leaf a side gives up.

**`TreePool`** is the arithmetic of the pool of nodes that two modules share.

**`OrderTree`** has the fields of `OrderTreeNodes` in the record `pool` and the two
`OrderTreeRoot`s in `roots`. `InsertNode` and `RemoveNode` are the free list;
`InsertLeaf`, `RemoveByKey`, `RemoveOneExpired`, `RemoveWorst` and `Iter` follow
the functions of those names, with `Walk` for their loops from a node downwards
and `UpdateParents` for `update_parent_earliest_expiry`. The actions are what
`BookSide` does with them, plus `Match`: what `new_order` does to the opposing
side, first through handles, then by keys. A key is an integer of `KeyBits` bits;
the program never inserts a key twice, as it ends in a sequence number, and
neither does the model (`inserted`).

**`OrderSet`** promises two sets of orders, from which an order leaves by its key,
because it expired first, because it is the worst, or because it traded. Its `Match` lets any orders
lose quantity or leave; which ones do is what `MatchHitsItsOrders` says of `OrderTree`.

**`OrderBook`**: `NewOrder` is `Orderbook::new_order`. The matching loop is a
function of `MatchStep` over the items of the opposing side *as they were when the
order arrived*, which is what the code's iterator over the tree sees, since the loop
collects changes and applies them after the loop. `Settle` is what follows the
loop: fees, the remainder, `Post` (drop one expired order, evict the worst from a
full side, choose the slot, insert) and `Record`, the `add_order` that enters the
whole order in its account whether it was posted or not. `ok` is false once a
`require!`, `assert!` or `unwrap` has failed.

**`Fermi`** has one action per instruction:

| action | code |
|---|---|
| `PlaceOrder` | `place_order`, `place_order_pegged` (which differ in the order built) |
| `EditOrder` | `edit_order`, `edit_order_pegged`: cancel, then place what is left |
| `CancelAndPlaceOrders` | `cancel_and_place_orders`: cancel some, then place several cut down to what can be paid, then deposit the sum |
| `PlaceTakeOrder` | `place_take_order` (`place_take_order_jit.rs`) |
| `CancelOneOrder`, `CancelAll`, `PruneOrders` | `cancel_order`, `cancel_order_by_client_order_id`, `cancel_all_orders`, `prune_orders` |
| `FinalizeMatch` | a Fill event in `atomic_finalize_events`, `atomic_finalize_given_events` |
| `FinalizeMatchDirect` | a Fill event in `atomic_finalize_events_direct` |
| `FinalizeMarket` | a FillDirect event in `atomic_finalize_market`, with any open orders account passed as the maker's (`FinalizeMarketOn`) |
| `FinalizeOut` | an Out event in either |
| `CancelWithPenalty` | `cancel_with_penalty` |
| `Deposit` | `deposit`, `refill` |
| `SettleFunds` | `settle_funds`, `settle_funds_expired` |
| `CreateOpenOrdersAccount`, `CloseOpenOrdersAccount` | the instructions of those names, without the indexer |
| `SweepFees`, `SetMarketExpired`, `CloseMarket` | the instructions of those names |
| `Tick`, `OracleMoves` | the clock sysvar and the oracle account |

Its state is the book (`leaves`, `bump`), the accounts (`oo`), the heap, the
fields of `Market` that change, and the token accounts: what each wallet holds,
what it has approved to the market's authority (`delegated`), and the two vaults. A
failed instruction is undone by the runtime and therefore is no step.

Whose accounts are passed. `atomic_finalize_events` and its variants load the open
orders accounts that the event names, and fail or skip the event without them. The token
accounts are not compared with anything: the constraints of `accounts_ix/consume_events.rs`
are commented out (41, 47, 52, 58) or absent (98-108, 141-151). `atomic_finalize_market`
does not compare the maker's open orders account either: it debits the one that is passed
(`finalize_market_order.rs:99`) and only logs `fill.maker`. So each finalization of `Fermi`
chooses every wallet by itself, and `FinalizeMarket` the account too, from `PassedFor` of
the party it stands for: `PassedFor[u]` is `{u}` where cranks pass the parties' own
accounts (`Own` in `MCFermi`) and all users where they pass anyone's (`Anyone`). The
balance and the allowance of a passed wallet are what limits the transfer, which may go
from a wallet to itself (`Transfer`, `Spend`). `cancel_with_penalty` chooses its wallet in
the same way. Section 4 says which runs use which.

**`Client`** has two halves. An attempt is one execution of a trading script
(`tests/place_order_bid.ts`, `place_order_ask.ts`): `FindAllOpenOrders` and
`ReadOpenOrders` are the reads of `findOpenOrdersForMarket`, one step each, and a
read that fails looks like an empty answer, as in the code's `catch`;
`CreateOpenOrders` and `UseFound` choose the transaction; `GetLatestBlockhash`,
`SendRawTransaction` and `ConfirmTransaction` are `sendTransaction`. The confirmation
is a race between the notification and the block height: a script may report "expired" as
soon as the height has passed its blockhash (`BlockHeightExceeded`), whether its
transaction is still unconfirmed, never landed or landed in its last block. `Lost` is a
script that stops or is stopped by an error, perhaps with its transaction under
way. The other half is the chain: `LandCreate` and `LandOrder` apply the
instructions with the account constraints of `accounts_ix/`, `NewBlock` lets
blockhashes expire, and the owner's other tools create and close accounts,
orders and the indexer. An account's index stands for its address, which is
derived from it and is used again after the indexer was closed and created anew.
(As committed, `place_order_bid.ts` and `place_order_ask.ts` name two variables they do
not define, `marketAuthorityPDA` and `openordersmaker`; `place_order_bid_ask.ts` shows
what is meant.)

Operators marked `mutant:` are not part of the specification. Each is a
plausible bug in the definition that follows it, and is kept to show that a
property notices.

## 4. Runs

`tlc -config <name>.cfg <module>`; all with two users.

| run | module | states | question |
|---|---|---|---|
| `EventHeap` | `EventHeap` | about 1,300 | do the two lists stay sound under pushes and deletions in any order, and does the heap implement the queue? |
| `matching` | `MCFermi` | about 76,000 | orders of each type, one with a match limit, and self-trades, finalized in any order, and accounts closed and created again: priority, uncrossed book, backing of what is owed |
| `expiry` | `MCFermi` | about 349,000 | expiring orders, full sides, owners at hand or not, edits, cancellations, penalties, the end of the market |
| `pegged` | `MCFermi` | about 151,000 | pegged orders while the oracle moves or disappears; maker rebates; is every event finalized in the end? |
| `settlement` | `MCFermi` | about 226,000 | users with too little money: batches, deposits, withdrawals, all ways to finalize, with anyone's accounts passed |
| `tree` | `MCOrderTree` | about 54,000 | do the trees and their pool stay sound, and do they implement the sets of orders? |
| `client` | `MCClient` | about 614,000 | two executions of a script that race with each other and with the owner's other tools |
| `slots`, `out_event`, `iterator`, `self_trade`, `peg_limit` | `MCFermi` | | statements of the repository that the program does not keep (section 6) |

What the properties say:

- `TypeOK` (one per module): values in range; in `Fermi` also that no order of size
  zero rests, no unsigned field goes below zero and the free slots of the heap are
  those without an event.
- `UsedRing`, `NoNodeLost`, `TwoLists`: the two lists of the heap.
- `SlotStable`: a pending event stays in its slot, unchanged, until that slot is
  deleted. `ImplementsQueue`: the heap refines `EventQueue`.
- `LeafHasSlot`: the slot of the account that a resting order names holds that
  order. The code chooses the slot twice, once for the leaf and once for the
  account, with evictions that may free slots of the same account before; `expiry` has
  such evictions.
- `MarginCovers`: an account's lots cover all its resting orders and pending
  matches, so no finalization fails for want of margin.
- `FeesCoverBids`: the maker fees locked cover what cancelling the resting bids
  gives back, in spite of rounding after partial fills: each bid needs its fee
  rounded up, and a fill releases no more than it makes unneeded.
- `NotCrossed`, `PriceTimePriority`, `FillsAreFair`, `FairEviction`: what the book
  promises traders; `FillsAreFair` includes that the price is the one of the moment.
- `NothingLost`: what leaves the book without its owner's account being touched
  is in the new events, to the lot.
- `DelegationCovers`: the allowance covers what pending matches and resting orders
  may still take, although each order replaces it and each finalization uses it up.
- `TokensConserved`: wallets and vaults together only lose the fees swept.
- `TotalsCover`: the deposit totals, which `settle_funds` and `sweep_fees` subtract
  from without a check of their own and which must be zero when the market is
  closed, cover free balances, fees, resting orders and pending matches. `settlement`
  asks it of batches and withdrawals, `expiry` of evictions, expiries and penalties. It
  is also what fails if a match is settled twice, by a finalization and by a penalty: its
  mutant in `expiry` leaves the event in its slot.
- `NoOrphans`: no order and no event names an account that was closed.
- `BatchIsPaid`: whatever `cancel_and_place_orders` is called with, each order cut
  down to what the ones before it left, the wallet can pay the sum.
- `RebatesCovered`: the taker's fee, rounded once, covers the rebates of all its
  makers, rounded one by one, so that the referrer's amount never underflows.
- `EventsDrain`: every event leaves the heap in the end.
- `NodesShared`: each node of the pool belongs to one tree or to the free list.
  `EveryLeafFound`: a key leads to its leaf. `ExpiriesCached`: the cached earliest
  expiries are true. `IterationSorted`: each order once, in the order of keys.
  `GivesUpTheRightOne`: what expiry, eviction and removal take out is the order
  `OrderSet` says. `InsertFits`: an insertion fails exactly when a node is missing,
  and never on a side that is not full. `MatchHitsItsOrders`: a match changes the
  orders that traded, although removals move the nodes of others.
  `ImplementsOrderSet`: every step of the trees is a step of the sets.
- `IndexerExact`: the indexer lists the accounts that exist, each once.
  `OneAccountPerMarket`: scripts that race, read too early or fail to read never
  give their owner a second account in a market. `OrdersInTheirMarket`: an order
  is only placed through an account of its market. `ReportIsFinal`: once a script has
  reported, its transaction lands no more, and one it reported as rejected has placed no
  order and never will. Whether an expired one had landed before, only the chain knows.
  `EveryScriptEnds`: every script ends with a report.

**Bounds.** Two users are enough for a taker and a maker, and for an order that
stands between another's two orders; self-trades need one. Three orders
(`MaxOrders`) give a full match with a partial one behind it, an eviction with a
resting order on each side of it, and a cancellation in between. Two events
(`MaxNumEvents`) give a heap that is full, and pushes that fail, after two matches.
Four tree nodes (`MaxNodes`, in `expiry`) are room for two leaves, so the third
order of a side meets a full side. Prices and sizes are 1 to 5, so that equal
prices, better ones and remainders occur; the maker fee of 0.5 % and the taker fee
of 1 % on lots of 100 make every rounding matter. The wallets of `settlement`
pay for one match and not for two, and the `Rich` wallets of the other runs never
limit what is placed. The market order of `matching` is one of two lots: of a match of
one, `atomic_finalize_market` takes no base lot at all, because it rounds 99 hundredths of a
lot down. `MaxTime` is 3 where orders expire at 2 and 3;
`PenaltyDelay` is 0 there instead of 60 and `MarginDivisor` 2 instead of 100, so that
the penalty is reached and is not rounded to nothing.
`DropExpiredOrderLimit` is 1 there instead of 5, so that the limit is reached.
The tree has keys of three bits, 0, 1, 3 and 6 in one tree and 5 in the other, so
that it gets three levels deep, with expiries that are equal and an earliest one at
the bottom; seven nodes are one less than all five orders need
(2 * 4 - 1 + 1), so that the pool runs out, after half an insertion too. A match
changes at most one order by its handle and removes any others, best first. The
client has two attempts in one market, since races are between two, and a second market for
the owner's other accounts; an indexer of two accounts, so that it fills up
(`MaxAccounts`, 256 in the program); addresses that are used again after two
creations (`MaxCounter`); and blockhashes that are valid for two block heights
(`Validity` = 1), so that a transaction is in time, late or lost.
In `EventHeap` four nodes give a ring with an inner node, both neighbours and the
head, and six pushes reuse freed nodes in every order. Deadlock is not checked:
after `MaxOrders` orders (or `MaxSeqNum` pushes followed by the deletions) the
model comes to rest.

Some statements need their conditions. Anyone's accounts may be passed (`Anyone`) in
`settlement` and `expiry`; `matching` and `pegged` have cranks that pass the
parties' own (`Own`), and so have the runs of section 6. For `MarginCovers`,
`DelegationCovers` and `NoOrphans` that is a condition of the statement: with `Anyone`
TLC refutes all three at the bounds of `matching` (section 6), and `LeafHasSlot` there with
them, as an account that is opened again has lost the slots of the orders it was closed
over; `expiry` asks `LeafHasSlot` of accounts that stay open. `FeesCoverBids` and
`TotalsCover` hold there with `Anyone` as well. `NotCrossed` is checked with orders whose
quote limit does not bind and whose price is fixed: an order that runs out of
quote before its base may be posted across the book, and pegged orders cross
fixed ones whenever the oracle moves. `PriceTimePriority` likewise assumes that
an order is not stopped by its quote in the middle of a price level.
`DelegationCovers` is asked of `matching`, where no order comes in a batch, because
`cancel_and_place_orders` approves nothing. `EventsDrain` in `pegged` has bids that
are never placed above their peg limit; `peg_limit` shows the others.
`OneAccountPerMarket` rests on the scripts' fixed account index: its mutant, which
takes the next free one, breaks it.

## 5. Fairness

In `Fermi`, only `pegged` and `self_trade` assume any. Finalization needs no
signature of the parties and no admin (the constraint on `consume_events_admin` is
commented out, `accounts_ix/consume_events.rs:28`). A script such as
`tests/finalize_orders.ts` sends one finalization for one slot; bots repeat it for
each slot that holds an event until it is gone. So `FairSpec` asks weak fairness of
`FinalizeMatch(slot)`, `FinalizeMarket(slot)` and `FinalizeOut(slot)` for each slot:
an event that can be finalized from some moment on without interruption is. In
`pegged` that means from the parties' own accounts: a crank that serves others must pass
those, since wallets that never approved anything pay nothing (`finalize_orders.ts`, as
committed, passes the token accounts of its caller for both parties).
Nothing is asked of users, admins, the clock or the oracle. `EventsDrain` holds
only where users can pay and orders do not match their own account; `pegged` has
rich wallets and orders that abort on self-trades, and `self_trade` shows what
happens otherwise.

In `Client`, a script's next step is weakly fair, since a running program goes on
until it ends (`Lost` is allowed at any time and is never required), and so is
`NewBlock`, since the chain goes on producing blocks while anybody waits for one. No
transaction needs to land and no owner needs to do anything: `EveryScriptEnds` holds
because a blockhash expires.

## 6. Where the program and its documentation disagree

Five runs end in a counterexample to something the repository says of itself.

- `slots` / `SlotsFreed`. `book.rs:620-622` says the order slot "is freed once
  [the event] is processed". No finalization frees a slot, and `new_order` enters
  every order, also one that was filled at once. An account is full for good
  after as many filled orders as it has slots.
- `out_event` / `OutEventCredits`. `lib.rs:407-410` says an OutEvent is handled by
  crediting the maker. It is only deleted (`finalize_matches.rs:410`).
- `iterator` / `NoneSkipped`. `bookside_iterator.rs:19-20` skips only orders "that
  are not currently matchable". Looking past a pegged order without a price moves
  the cursor, which is moved once more on return, so that a valid order may
  be left out.
- `self_trade` / `EventsDrain`. A match of an account with itself, which
  `DecrementTake` allows (`order_type.rs:100-101`), can never be finalized: the
  account cannot be loaded mutably as maker and as taker.
- `peg_limit` / `LimitIsUpperPrice`. `book.rs:404-405` calls the peg limit of a bid
  "the upper price limitation" and locks the order's lots at it, but the bid is
  matched up to the oracle's price plus its offset. A bid that arrives when that is
  above the limit buys there, and its lots are too few to finalize the match.

The model also shows, with no sentence of the documentation to hold against it, or
one that is about another program:

- the deposit totals are not the vaults' balances, as the fuzz target of OpenBook
  still asserts (`fuzz/fuzz_targets/multiple_orders.rs:284-285`): `place_order` counts
  the whole cost as deposited and transfers a hundredth. `TotalsCover` is what does
  hold of them;
- `cancel_and_place_orders` deposits the whole cost and approves nothing, while the
  finalization of its matches debits the parties once more;
- a full side may give up an order of the *other* tree. If that was the tree's only
  leaf, one node is freed where an insertion needs two, so that `insert_leaf` and the
  instruction fail (`InsertFits` says exactly when);
- a trading script always asks for account index 1. Once account 1 belongs to
  another market, or was closed while the indexer lives on, the script is rejected
  for ever;
- in the client, `closeOpenOrdersIndexerIx` passes the market's asks and bids as the
  indexer and the destination (`client.ts:880-881`), and `getAccountsToConsume`
  compares keys with `===`, which compares objects; the model takes closing the
  indexer as the program defines it;
- a match may be paid by someone who is no party to it. `atomic_finalize_market` debits
  the lots and the free balance of whichever open orders account is passed as the maker's
  (`finalize_market_order.rs:99`), and all finalizations take from whichever token
  accounts are passed, as long as these have approved the market. The event is deleted all
  the same. An account may then lack the margin (`MarginCovers`) or the allowance
  (`DelegationCovers`) for a match of its own, and it may be closed while an order of its
  own rests (`NoOrphans`): TLC finds each of the three with `PassedFor <- Anyone`;
- a script may report "expired" for a transaction that landed in its last block
  (`utils/rpc.ts:107-116`), so that whoever executes it again at once may have placed the
  order twice. `ReportIsFinal` says what can be relied on: the chain, asked once after the
  report, gives the answer for good;
- `atomic_finalize_events` skips an event whose accounts were not passed along and
  succeeds (`finalize_matches.rs:20-40`), so that a crank's success does not mean that
  its slot was finalized;
- an immediate-or-cancel order through `place_order` leaves FillDirect events
  although its taker paid only a margin to the vault from which the maker is paid;
- a cancellation credits the whole locked amount to the free balance though a
  hundredth was deposited, and direct finalization credits the free balances after
  moving tokens from wallet to wallet, so free balances may exceed the vaults;
- `bids_base_lots` never falls on a fill, so `has_open_orders` stays true;
- `cancel_with_penalty` compares lots with native amounts, always takes base
  tokens, and may leave the counterparty's lots below zero. For this reason
  `MarginCovers` is not asked of the `expiry` run, where penalties occur, and lots
  are integers that may be negative in `TypeOK`. It does not book what it credits
  either: where a lot costs more than its base is in native units, the totals fall
  short of what is owed (section 7), and the last to be paid cannot be.

## 7. Proofs

`EventHeapProofs` proves for every `MaxNumEvents` and `MaxSeqNum`, every set of
event values and every behaviour of `EventHeap`, from `HeapAssumption` alone
(at least one node, `NoNode` is a number above all slots, `NoEvent` is no event):

| theorem | statement |
|---|---|
| `TypeCorrect` | `Spec => []TypeOK` |
| `TwoListsAlways` | `Spec => []TwoLists` |
| `UsedRingAlways` | `Spec => []UsedRing` |
| `NoNodeLostAlways` | `Spec => []NoNodeLost` |
| `SlotsAreStable` | `Spec => SlotStable` |
| `HeapImplementsQueue` | `Spec => ImplementsQueue` |

The argument: `TypeOK` is not inductive, because `push_back` follows `free_head`
and then `next[free_head]`, and only the shape of the free list says that these
are slots. `UsedRing` and `NoNodeLost` are not inductive either: links that undo
each other also describe two separate rings, one of which the traversal would miss.
The inductive invariant is `HeapInv == TypeOK /\ TwoLists`. `TwoLists` names the
enumerations `u` of the used nodes in ring order and `f` of the free nodes in list
order, which follow the links and share out all slots. `PushLists` gives the
new enumerations when the first node of `f` moves to the end of `u`, and
`DeleteLists` when a node at any position of `u` moves to the front of `f`;
`RingPositions` and `RingLinks` treat the ring's closing link like the others.
`UsedAreRing` then says that the nodes with a `prev` are exactly those of `u`,
`RingIsUsedRing` and `ListsLoseNoNode` derive the two invariants the runs check,
the second by counting `u` as a bijection. `SlotsAreStable` follows step by step:
`push_back` writes into a free node, which is no used one, and `delete_slot` into
the event of its own slot.

`HeapImplementsQueue` rests on the same enumerations. `Traversals` shows that what
the code yields by following links from the heads, `Iter` and `FreeList`, are `u`
and `f` (`OneWalk`, by the least position at which they would differ), so that
`PushLists` and `DeleteLists` say how the traversals change; `PushImplements` and
`DeleteImplements` match that with the queue's `Append`, `Tail`, `RemoveAt` and
concatenation.

`ClientProofs` proves, for every set of attempts and markets, every `MarketOf`,
validity, number of accounts and of blocks, from `ClientAssumption` alone:

| theorem | statement |
|---|---|
| `ReportsAreFinal` | `Spec => ReportIsFinal` |
| `OrdersMarket` | `Spec => []OrdersInTheirMarket` |
| `ClientTypes` | `Spec => []TypeOK` |
| `IndexerListsAll` | `Spec => []IndexerExact` |
| `OneAccount` | `Spec => []OneAccountPerMarket` |

`ReportIsFinal` does not follow from a step alone: nothing in it says that what was
reported has left nothing under way. `FateInv` adds what the reports mean: a rejected script
has a transaction that has landed, in vain; an expired one has a transaction that has landed
or has no block left to land in, and an attempt never asks for a blockhash again; and an
order that was placed has its transaction's status to show for it, which no step takes
back, so that a rejected attempt has none. `OrdersInTheirMarket` is not inductive
either: creating an account at an address would give its market to any orders
already there, so `OrdersInv` adds that where no account exists there are no orders,
which closing an account keeps because it is refused while orders remain.

`IndexerExact` and `OneAccountPerMarket` are shown together, as `ListInv`, because
they need the same facts about the indexer. `Listed` says that no account is listed
twice. `Counted` bounds every index in use by the indexer's counter, so that an account
created at the next index is a new one; and a script's creation always names index 1,
which the program accepts only while the counter is zero, when the owner has no
account at all.

**The market.** The assumptions are the modules' ASSUMEs: lot sizes and the fee scale
are positive, `NoPeg` is no price, no fee is more than the whole, the taker's fee is at least the maker's
rebate (`create_market` requires it), the set of users is finite, and the orders
given are well formed. That sizes and quote limits of orders are not negative is one of
them, and the program checks it (`place_order.rs:12-17`, `place_take_order_jit.rs:15-20`,
`cancel_and_place_orders.rs:67-72`).
Nothing bounds the numbers of users, orders, slots, events or tree nodes.

| theorem | statement |
|---|---|
| `FermiInv` | `Spec => []IInv` |
| `FermiTypes` | `Spec => []TypeOK` |
| `TakerPaysRebates` | `Spec => []RebatesCovered` |
| `BatchFitsWallet` | `Spec => []BatchIsPaid` |
| `NoTokenIsLost` | `Spec => TokensConserved` |
| `HeldInv` | `Spec /\ []NoOrphans => []HInv` |
| `SlotsHoldOrders` | `Spec /\ []NoOrphans => []LeafHasSlot` |
| `FeesHeldForBids` | `Spec /\ []NoOrphans => []FeesCoverBids` |
| `HeldWhileOpen` | `ASSUME ~MayClose PROVE Spec => [](LeafHasSlot /\ FeesCoverBids)` |
| `MarginInv` | `Spec /\ PenaltiesFit /\ MakersPassed => [](HInv /\ MInv)` |
| `NothingOrphaned` | `Spec /\ PenaltiesFit /\ MakersPassed => []NoOrphans` |
| `HeldThroughout` | `Spec /\ PenaltiesFit /\ MakersPassed => [](LeafHasSlot /\ FeesCoverBids)` |
| `BaseMarginsCover` | `Spec /\ PenaltiesFit /\ MakersPassed => []BaseMarginCovers` |
| `MarginsCover` | `ASSUME PeggedBidsPost PROVE Spec /\ PenaltiesFit /\ MakersPassed => []MarginCovers` |
| `OwnAccountsPassed` | `ASSUME \A u \in Users : PassedFor[u] = {u} PROVE Spec => MakersPassed` |
| `PenaltyOnItsSide` | a penalty named on the taker's side, at a price of at most `MarginDivisor`, fits |
| `TotalsInv` | `Spec /\ []HInv /\ PenaltiesPaid => []TInv` |
| `TotalsKept` | `Spec /\ PenaltiesFit /\ MakersPassed /\ PenaltiesPaid => []TotalsCover` |
| `PayoutsAlwaysCovered` | `Spec /\ PenaltiesFit /\ MakersPassed /\ PenaltiesPaid => []PayoutsCovered` |
| `TotalsKeptUnlessOrphaned` | `Spec /\ []NoOrphans /\ PenaltiesPaid => [](TotalsCover /\ PayoutsCovered)` |
| `TotalsKeptWhileOpen` | `ASSUME ~MayClose PROVE Spec /\ PenaltiesPaid => []TotalsCover` |
| `PenaltyWithinMatch` | a penalty at a price of at most `BaseLotSize` is paid by its match; named on the bid, up to `BaseLotSize * MarginDivisor` |

The proofs are in layers, as the modules are.

- `DataProofs`: the library's induction theorems take an operator as a parameter,
  which the provers cannot instantiate. Here what is to be shown is given as the *set*
  of the numbers, finite sets or loop states for which it holds: `LeastNat` (a
  non-empty set of numbers has a least one, from the library's well-founded
  induction), `NatSetInduction`, induction over finite sets, `LoopInvariant` and
  `LoopExists` for recursive functions of the number of rounds, and sums over finite
  sets.
- `BookProofs`: first rounding. A fee rounded once covers parts of it rounded down one
  by one, and rounding up releases no more for a part than it keeps for the rest.
  Then the book: every operation of `OrderBook` takes a well-formed book (`Books`) to a
  well-formed book, or fails. `ItemsFit` is the walk of the two cursors, `MatchRuns` the
  matching loop, with the amounts matched against the sum of the fills.
- `FermiProofs`: `IInv` is the inductive invariant. The book in the state is `Fresh`:
  finitely many leaves, with sequence numbers of their own which are no later than
  the market's, no bump index beyond the pool, and a heap whose free stack has
  exactly the slots without an event, each once. Token accounts and totals are
  amounts. `TypeOK` alone is not inductive: it counts the free slots but does not say
  that they are different ones, and it does not say that a leaf to be inserted is new.
  There is one lemma for each instruction, and `Good` is what it shows:
  the invariant again, and that the sum of wallets and vault stays what it was
  but for the fees swept. `TokensConserved` is therefore no consequence of a single
  transfer: a batch, a finalization and a penalty move tokens between several
  accounts, which may be those of one user.
- `HeldProofs`: `HInv` adds what an account holds for its orders. Every leaf is in the
  slot it names, under its number, side and tree; `locked_maker_fees` is at
  least the sum of the fees of the bids, each rounded up by itself; and
  `bids_base_lots` is at least the sum of their sizes. The lots are there because
  `settle_funds` gives back the locked fees of an account whose `bids_base_lots` is
  zero: the invariant must show that no bid rests then. Inside an instruction, `e` says
  how much an account holds in addition, for an order that is recorded before or after
  it is posted.

- `MarginProofs`: `MInv` counts, for each account, three margins against what it still
  owes: the base lots of its bids (`lots`), those of its asks (`asks`), and the
  quote lots of its bids (`quote`). An order on the book counts for what is left of
  it, at the price its lots were locked at (`LeafPart`), and an event for what the
  party still delivers (`EventPart`). The difference is never negative (`Spare`), and
  an account that does not exist holds no margin (`Flat`). A match moves what it takes
  from the leaf's part to the event's, so the maker's sum does not grow: it falls
  where the maker's pegged bid was locked at its limit and matched below it. For the
  taker the sum grows before the lots do: the fills are pushed first, the remainder is
  posted next and the lots of both are entered last. `Firm` therefore carries the
  amounts by which each account may be short in between; they are negative for the
  taker until `FirmRecord`, and nothing for everyone when the instruction ends.
  `NoOrphans` is a consequence: an order or an event that names an account counts at
  least one lot against it, and an account is closed only with all three margins at zero.
  In TLC, `MInv` was first checked as an invariant of the instances of `matching`,
  `settlement` and `pegged`, and of `expiry` restricted to the penalties that fit, each
  with the parties' own accounts passed.
- `TotalsProofs`: `TInv` adds up, for each token, all that the market owes (`Owed`):
  what the accounts have free or hold back for fees, what each order on the book
  brings when it is cancelled (`LeafBrings`) and what each match in the heap brings
  when it is finalized (`EventBrings`), and says that the market has booked as much.
  It is stronger than `TotalsCover` in one place: a match of an immediate-or-cancel
  order that came through `place_order` pays its taker's account too when it is
  finalized, so it counts, while a match of `place_take_order` does not, whose taker
  has been paid already. It reads the price a bid was locked at off the order
  (`LockOf`), not off its owner's slot as the program and `TotalsCover` do; `HInv`
  says that they agree, which is why `TotalsInv` asks for `[]HInv`. An instruction books
  its cost last, after it has matched, posted and dropped orders. `Funded(n, a, e, y)`
  is therefore a book that owes no more than `y`, which starts as the totals of the
  market and grows by what the instruction is going to book: `FundedMatch` is the
  matching loop, where each fill brings its buyer and its seller together no more than
  the maker's order gives up and `Flow` says the taker pays, `FundedLocked` the fees of
  what is posted, `FundedNewOrder` the whole order, whose `y` is what it `Commits`, and
  `FundedBatch` the sum of a batch, whose orders are costed one by one. An order that
  is cancelled, evicted or dropped as expired brings no more than it was owed, and less
  if its owner is absent. A finalization brings
  its parties what its event counted for, or less; `settle_funds`, `sweep_fees` and
  `place_take_order` take off the totals what is owed no longer.
  `PayoutsCovered` is a consequence: whoever is paid next, the subtraction does not
  underflow. In TLC, `TInv` was first checked as an invariant of the instances of all
  runs of `MCFermi`, under the condition on penalties below.

Hypotheses on the behaviour. `HeldInv`, `SlotsHoldOrders` and `FeesHeldForBids` ask for
`[]NoOrphans`; `NothingOrphaned` derives that, and `HeldThroughout` has the
conclusion of both, from two conditions on single steps. The first:

    PenaltiesFit == [][\A slot \in HeapSlot : Penalizes(slot) => PenaltyFits(slot)]_vars

no penalty takes more lots from an account than the match it removes counted for.
The program does not ensure it: `cancel_with_penalty` takes a hundredth of size times
price off lots that were entered for the size, and on the side its caller names. The
condition is needed: at the bounds of `expiry` with `Spec`, TLC refutes `MarginCovers` after
one penalty that names the wrong side. It is no empty condition either: penalties that
fit, and do take lots, happen in the same instance, and `PenaltyOnItsSide` proves that
those on the taker's own side fit, against a seller up to a price of `MarginDivisor`
quote lots. The second:

    MakersPassed == [][\A slot \in HeapSlot :
        FinalizeMarket(slot) => FinalizeMarketOn(slot, heap.event[slot].maker)]_vars

what `atomic_finalize_market` debits is the open orders account of the match's maker. The
program does not ensure this (section 3), and the condition is needed: TLC refutes
`MarginCovers` and `NoOrphans` where any account may be passed. It says nothing of wallets:
these may be anyone's in all theorems. `OwnAccountsPassed` shows that it holds
where cranks pass the parties' own accounts, and a market without market orders or
immediate-or-cancel orders satisfies it as it has no such event. `PeggedBidsPost` says that
pegged bids are post-only; a pegged bid that takes enters its lots at the limit and may
pay more (`peg_limit`), which is why the quote half of `MarginCovers` is stated under it
and the base half is not.

The theorems on totals have another condition on single steps:

    PenaltiesPaid == [][\A slot \in HeapSlot : Penalizes(slot) => PenaltyPaid(slot)]_vars

no penalty credits the taker with more base than the match it removes would have
brought. The program does not ensure this either: `cancel_with_penalty` computes its
amounts as price times lots, which are lots of quote, credits them to balances in native
base and never adds them to `base_deposit_total`. The condition is needed: at the bounds of
`expiry`, but with `BaseLotSize` = 1, TLC refutes `TotalsCover` after one penalty
for a match at a price of two. It is no empty condition: in the same instance penalties that are
paid happen, and `PenaltyWithinMatch` proves that every penalty is, at any size and
whatever the accounts hold, while prices in lots do not exceed the base lot size.
`expiry` itself is such a market: it checks `TotalsCover` with nothing assumed of its
penalties. Whose lots are taken does not matter to the totals by itself: `TotalsInv` and
`TotalsKeptWhileOpen` hold whichever accounts are passed, and `TotalsKeptUnlessOrphaned`
if only no account is closed over an order or a match; `TotalsKept` is the one that
derives even that, from `PenaltiesFit` and `MakersPassed`.

One form in `Fermi` is due to the prover: tlapm reads `@` as the value in the original
function in each of several updates of one EXCEPT. Where two updates may be of the same
wallet the model has one EXCEPT after the other (`Credit`, `Transfer`), which is what the
code does.

Only model-checked:

- `EventsDrain` and `EveryScriptEnds`, liveness under fairness;
- the properties of `OrderTree`: what a path leads to is defined by recursion over the
  tree, and the proof would be an induction over its shape;
- `DelegationCovers`, which batches break (section 6), and `NotCrossed`, which needs
  orders that are neither pegged nor stopped by their quote;
- `PriceTimePriority`, `FairEviction`, `FillsAreFair` and `NothingLost`: they compare
  the states before and after an instruction as if it brought one order. A batch, whose
  orders may reach the same resting order, evict each other or be of one side, does
  not satisfy them as stated.

## 8. What is assumed and what is left out

Assumed throughout `Fermi`:

- Every instruction is given the accounts its constraints ask for; each user has
  one wallet per token and one open orders account, and no one else holds market
  tokens. Wallets change through the market only.
- Where a finalization or a penalty has no constraint on an account (section 3), the
  model lets it be that of any user the run allows, for a wallet a wallet of the token in
  question. The vaults passed are the market's own, though they are not compared
  either, and so are the open orders accounts, though `AccountLoader` would take one of
  another market too: what a caller does to *other* markets, and a debit that is made
  there in place of here, is outside this model of one.
- Statistics (volumes, counts, fees accrued), lamports and rent, client order ids,
  logs, `maker_slot` and `maker_out` of an event, which nothing reads for control,
  are left out, and so is the value returned by `delete_slot`.
- `create_market` has run; its checks are the modules' ASSUMEs.
- An immediate-or-cancel order and the other types are given by the inputs in
  `MCFermi`; a run has the few orders that make its cases happen.

Assumed in `Client`: an owner is one key, and its accounts and its indexer are
touched by nobody else; an attempt is one execution of a script, and executing it again
is another attempt; the cluster does not fork (the scripts confirm at
"processed", which a fork could take back); a transaction under way lands at most
once, and an order always fits its account. The token accounts that the scripts
create, and their airdrops, are left out.

Not modelled: delegates (`set_delegate`), parsing of oracle accounts (third-party
formats; the oracle is any of a set of prices, or none), the encoding of keys in 128
bits (a key of `BookSide` is the pair that is encoded, one of `OrderTree` an integer),
account validation and events of the framework beyond what the actions' guards say,
files no entry point reaches (`place_take_order.rs`, `consume_events.rs`), the Rust
client, the client's functions that build a single instruction or decode accounts,
set-up scripts and tests. Of the repository's TypeScript, nearly all lines are
copies of the generated interface description (`openbook_v2*.ts`), which declare
types and hold no behaviour to model. `PROJECT.json` has the reason for each part.
