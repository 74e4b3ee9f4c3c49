# Verification of the Pina Colada pool manager

Pina Colada is a CosmWasm contract (`src/src/*.rs` in this project's paths)
that manages many concentrated-liquidity pools in one account. This directory
holds TLA+ modules that model it, TLC configurations that check them on small
instances, and proofs, checked by TLAPS, for every value of the constants.

## 1. Inventory

| part | state | operations | talks to |
|---|---|---|---|
| pool manager (`handlers.rs`, `contract.rs`, `state.rs`) | POOLS, PAIR_BALANCES, BALANCES, PRECISIONS, QUEUED_MINT | create pair, reply, provide, swap (by coin, by cw20 hook), withdraw (by LP token hook) | the curve (function calls), the chain (messages in the response) |
| chain and tokens (external) | balances of the bank and of every cw20 token, LP token supplies | send, transfer, transfer-from, mint, burn, instantiate; all-or-nothing transactions | calls the handlers, the hooks and `reply` |
| pool curve (external, `astroport-pcl-common`) | PoolState inside POOLS, of which the handlers themselves keep `xcp_profit_real` and read the price scale | `calc_d`, `get_xcp`, `compute_swap`, `update_price`, provide fee | called by the handlers and quotes |
| request validation (`assert_operations`, slippage, spread, asset lists) | none | rejects a request before or while it changes storage | part of the handlers |
| quotes (`query.rs`) | none | `simulate_swap_operations`, LP price, D | read the same storage |
| pool keys (`pair_key`) | none | sorted bytes of the two assets, concatenated | every access to POOLS and PAIR_BALANCES |
| precision conversion (`utils.rs`, `Precisions`) | PRECISIONS | token unit <-> decimal | every handler |
| migration (`migrate`) | cw2 record | version check | - |

What is hard about it:

* **One account, many books.** All pools' assets lie in one account. Which part
  belongs to which pool is only PAIR_BALANCES, which the handlers change with
  their own arithmetic while the money moves by messages dispatched later.
  Nothing compares the two. A mistake in one pool is paid by another.
* **Handlers and messages.** A handler changes storage at once and answers with
  messages; each of them may fail and take everything back, halfway through.
* **Two-step creation.** `execute_create_pair` saves a pool without LP token and
  leaves its key in the single slot QUEUED_MINT for `reply`.
* **Copies.** BALANCES repeats PAIR_BALANCES for tracked pools, and is written
  by other code; the LP supply is read before the mints of the same call.
* **Paths.** A swap runs through several pools, maybe the same one twice, and
  the amount of one hop is the offer of the next.
* **LP tokens in the contract's own account.** The locked minimum liquidity, LP
  tokens sent in to be burnt, and LP tokens that are assets of another pool
  share one balance.
* **Quotes age.** A user asks for a quote in a query and sends the swap later;
  others trade in between. The swap computes on reserves it has itself raised,
  the quote on stored ones. Both also use the pool's price scale, which
  `update_price` may move in any priced swap or deposit: reserves that are back
  where they were do not mean a price that is.
* **Profit that must not fall.** `update_price` refuses a swap or a deposit that
  leaves the LP token worth less than the profit stored in POOLS, so a stored
  profit that is too high closes the pool to everything but withdrawals.
* **Keys made of names.** POOLS and PAIR_BALANCES are found by the joined names
  of two assets, sometimes from the request and sometimes from the pool's own
  entry, and amounts are put in an order that is neither. The names are joined
  without a separator, and a denom is any string, so two pairs may have one key.

What makes it correct: the account covers the books of all pools at every
moment (`Backed`); a deposit moves in what it books (`ProvideTakesWhatItBooks`);
hops neither create nor lose assets (`HopsConserve`); a pool has one LP token of its own, and gets it
(`LpBinding`, `QueuedMintServed`); a live LP token never looks new again
(`SupplyStaysPositive`); the tracked copies agree with the books
(`ProvideTracksBook`); a call has all of its effect or none
(`ImplementsLedger`); a quote holds until the reserves or the scale of its pools change (`QuoteHolds`); a
deposit takes nothing from those who are in the pool (`DepositDilutesNobody`);
the stored profit is covered (`ProfitCovered`); the tables are a map from two
assets to a pool (`ImplementsPairMap`), and a request acts on the pool and on the
sides it names (`RequestsActByName`).

## 2. Modules

Three models look at the contract from three sides; each has a module for its
properties or has them at its end, an `MC` module with the instances, and
proofs in modules of their own.

| model | what is one step | properties | abstract specification | proofs |
|---|---|---|---|---|
| `PinaColada` | a handler, a hop, a message, a rollback | `PinaColadaProperties` | `PoolLedger`, by `PinaColadaRefinement` | `PinaColadaProofs`, `SolvencyProofs`, `TransactionProofs`, `RefinementProofs` |
| `Market` | a transaction | `MarketProperties` | - | `MarketProofs` |
| `PoolKeys` | a handler or a hop | `PoolKeys` | `PairMap` | `PoolKeysProofs` |

`Totals` is the sum of a function over a finite set, without recursion, and
`TotalsProofs` its lemmas (a sum is a natural number, a sum after one value has
changed, ...). `MCPinaColada`, `MCMarket`, `MCPoolKeys` and the `.cfg` files are
the instances TLC checks.

How they fit together: `PinaColada` has the interleaving of storage writes,
messages and failures, and lets the curve answer anything; `Market` has the
arithmetic and the order of users' actions, and takes a transaction as one step,
which `ImplementsLedger` (theorem `LedgerImplemented`) justifies; `PoolKeys` has the byte strings that both
of the others replace by the unordered pair of assets. That is justified where no
two pairs have one key: then every key leads to the pool of the assets asked for
(`OwnPoolFound`). What happens where they do is in `PoolKeys` only.

### How `PinaColada` corresponds to the code

The storage variables are the storage items of `state.rs` under their names in
lower case; `config.pool_state`, fees and owner are left out of POOLS, because
only the curve reads them. `bal`, `supply` and `deployed` are the token
ledgers. `kind`, `path`, `hop`, `amount`, `recipient`, `msgs`, `next`, `saved`
are the transaction that is running; the chain runs one at a time, which is why
there is one of each.

A handler that loads, checks and saves without a call in between is one action
(`CreatePair`, `ProvideLiquidity`, `WithdrawLiquidity`, `Reply`), with every
save it makes. The loop of `execute_swap_operations` is one action per
iteration, `SwapHop`, which is all of `swap_internal`. Each message of the
response is dispatched by an action of its own (`DispatchTransfer`,
`DispatchMint`, `DispatchBurn`, `Instantiate`), so that properties see the
account between any two of them. `Commit` ends a transaction whose messages
have all succeeded. `Revert` may happen at any step of it: a token refuses, a
handler panics in mid-loop, an allowance is missing, the gas runs out. It
restores what the call found. `UserTransfer` and `UserBurn` are what holders do
on the token contracts without the pool manager knowing.

What was decided where the code leaves the model's level:

* A call the handler refuses before it saved anything changes nothing, and is
  not an action: its conditions are the guards. An error after a save, or a
  message that fails, is `Revert`.
* The curve is external. `compute_swap` returns any member of `CurveOutputs`
  up to the reserve (`Uint128 -=` panics beyond it), and the share of a deposit
  is any member. The properties hold whatever the curve says; what it says is
  not modelled.
* Uint128 arithmetic panics when it overflows (checked by `cosmwasm_std`), so an
  overflow is a guard, with `MaxUint` small enough to be reached. Token amounts
  of zero are refused by the bank and by cw20-base 0.15.
* A pool key is the set of its two assets; see `PoolKeys` for the byte strings,
  and for pairs that have the same one.
* A refund is `get_share_in_assets`, which first rounds the ratio of the LP
  tokens to the supply down to a multiple of `1 / FRACTIONAL` (18 decimals in
  the code) and then the share of the reserve.
* The precommit observation is left out. `swap_internal` saves it, and the call
  that would read it (`accumulate_swap_sizes`) is commented out, so no step
  depends on it.
* Amounts are in the token's own unit. `with_precision` followed by `to_uint`
  gives back the same amount for at most 18 decimals.
* `auto_stake` asks a factory at the address "PINA_COLADA", which does not
  exist: such a deposit always fails, so deposits do not use it.
* LP supplies, deposits and withdrawals: an all-zero deposit divides by zero in
  the provide fee, and a withdrawal of the whole supply divides by zero in the
  new virtual price; both are guards.
* A second pool under the same key overwrites the first, as in the code.

`shortfall` is a history variable: for each asset, how much the books have come
to exceed the account through the three operations that book something else
than they move (see `Backed`). Nothing in the code reads it, and no guard
depends on it except its bound `MaxShortfall`.

### `PoolLedger` and its refinement

`PoolLedger` says what a call amounts to once it is committed: a deposit raises
book and account alike and mints, a swap of any length exchanges one asset for
another, a withdrawal burns and pays at most a share, users may send assets in
and burn LP tokens. `PinaColadaRefinement` maps to it the books, the account and
the supplies: the current ones between transactions, those in `saved` while one
runs. So a transaction's steps are stutters, and `Commit` must be one step of the
ledger. The maps are `LedgerBook`, `LedgerHeld` and `LedgerSupply`. It would fail if anything of a failed call stayed behind, if a two-hop
swap lost something on the way, or if a refund exceeded the burnt share.

### How `Market` corresponds to the code

`book` is PAIR_BALANCES, `supply` the LP token's supply, `profit` the
`xcp_profit_real` in POOLS and `scale` the `price_scale` next to it. `Quote` is the query `simulate_swap_operations`;
the user who asked keeps the answer in `request` and sends it as
`minimum_receive`, `ExecuteRequest` is that swap, and `SwapByOthers`,
`ProvideLiquidity`, `WithdrawLiquidity` and `BurnLp` may come in between. `paid`
is what the last step paid a trader, `withdrawn` a history variable.

`Curve` and `Xcp` are the library's `compute_swap` and `get_xcp(calc_d(..))`, given
as constants. They depend on the pool, whose amp, gamma and fees never change, on
its price scale, and on its reserves: what `PoolState` holds is all that a
transaction can change of what they read. `Hop` keeps the
order of `swap_internal`: raise the offered side, read the reserves, take the
offer off again, compute at the scale the pool has, lower the asked side,
`update_price`. A hop that would
raise a reserve past `MaxReserve` fails, as `Uint128 +=` panics (state.rs:88). A price is
`PriceOf`, in units of `1 / ONE`, the expression both of `query_lp_price` and of
`update_price`. The provide fee is any of `Fees`, off the share.

`update_price` refuses an action after which the LP token is worth less than the
stored profit (`MakesLoss`, at the scale before). Otherwise it may move the scale,
from an oracle price and a profit of its own that are not modelled, so that the
model lets it go to any of `Scales` or stay (`peg`, chosen per hop), and stores the
worth at the scale it leaves. A first deposit leaves the scale alone.

TLC uses a curve that, like the library's, multiplies the second reserve by the
scale and is flatter than a constant product in the middle: a constant product
with `Depth` more on either side, rounded to the pool's advantage.

`QuoteHolds` compares reserves and scale. With reserves only it would fail: a
priced swap and another back may restore the reserves and leave another scale.

### How `PoolKeys` corresponds to the code

`pools` and `balances` are POOLS and PAIR_BALANCES as functions of byte strings,
`precise` the names in PRECISIONS. `PairKey` sorts and joins. `HasKey` is the
panic of `generate_key_from_assets` for a list of fewer than two, which comes
before the code that would append a missing asset. `ProvideLiquidity` puts the
amounts in the pool's order by comparing the second asset of the request with
the pool's first; `SwapInternal` finds the offered asset by name and takes the
other side whatever its name; `WithdrawLiquidity` takes the first two assets of
the list. `QueryPools` reads under the key of the pool's own assets.

`CoinsInPool` is `assert_coins_properly_sent`: a native coin of a deposit is one of
the pool found, while a second asset that is a cw20 token is not looked up.

Nothing is assumed about the names. The code checks only the letters of a denom,
so one name may begin another and two pairs may get one key, as "aba" with "ba"
and "ab" with "aba". `Clash` says that two pairs do. `PairMap` is therefore a map
from two assets to a pool in which creating a pool removes those it clashes with,
and `RequestsActByName` says of a request for assets whose pool has been replaced
that it acts on the pool in its place, by the same amounts: a swap there brings
in the asset it offers, a deposit may book one token where another was named.

### Slips

A definition marked `slip` is a plausible mistake (a dropped debit, a fixed
index, a fee that leaves the pool, an entry that is not overwritten, ...),
written before the definition it would replace. The model does not use it; put
in that definition's place it makes a named property fail, which shows that the
property does say something about the code.

## 3. Runs

Deadlock is not checked: between transactions nobody has to call the contract,
and with the funds and bounds used up nothing is left to do.

| run | instance | what it asks |
|---|---|---|
| `one_pool` | native coin and cw20 `x`, tracked; amounts 2 and 9, so that the first deposit nearly uses up `MaxUint` | `TypeOK`, `Backed`, `ProvideTracksBook`, `ImplementsLedger` |
| `recreate` | the same pair with two LP addresses, so that it is created again while it holds assets and its first LP token is in use; under `FairSpec` | `LpBinding`, `SupplyStaysPositive`, `QueuedMintServed` |
| `two_pools` | pools that share `x`; paths through both, back through the same one, and with a hook token that is not the offered asset | `Backed`, `HopsConserve`, `ImplementsLedger` |
| `foreign_native` | a pool with a native coin other than DENOM; deposits in both orders of assets | `Backed`, `ProvideTakesWhatItBooks` |
| `nested_lp` | the LP token of one pool is an asset of the second; receivers include the contract itself | `Backed`, `SupplyStaysPositive`, `ImplementsLedger` |
| `market` | two pools that share an asset and a price scale of 1 or 4; one-hop, two-hop and there-and-back paths, balanced and one-sided deposits, withdrawals and burns in one pool | `TypeOK`, `ProfitCovered`, `QuoteHolds`, `DepositDilutesNobody` |
| `pool_keys` | two tokens with addresses `1 2` and `2 1` and a native coin `1 2 1`, whose pairs with them have one key; lists in both orders and of the wrong length | `TypeOK`, `ImplementsPairMap`, `RequestsActByName` |
| `withdraw_pays` | as `one_pool` | violated: `WithdrawPaysUser` |
| `tracked_current` | as `one_pool` | violated: `TrackedBalancesCurrent` |
| `withdraw_tracked` | as `one_pool` | violated: `WithdrawTracksBook` |
| `minimum_receive` | as `market` | violated: `MinimumReceived` |
| `simulated_result` | as `market` | violated: `EndResultSimulated` |

Bounds and why they are enough.

`PinaColada`: one user suffices for the books, because no handler compares
callers except with the LP token; that the contract itself can be a receiver, and
that LP token contracts end up with holdings, are separate accounts. `MaxUint`
between 5 and 9 lets overflow guards bite. `MINIMUM_LIQUIDITY_AMOUNT = 1`
distinguishes a locked supply from none, and `MAX_SWAP_OPERATIONS = 2` gives one
hop that passes an amount on and one that pays out.
For amounts this small, six decimals (`FRACTIONAL`) round every refund as 18 do.
`MaxShortfall` of 2 or 4 admits every single mis-offered hook and foreign payout
of the instances and several in a row; steps past the bound are cut off. The
amounts in each run were chosen so that every disjunct of `Next` fires and so
that re-creation with both LP tokens live, a path through one pool twice, refunds
larger than the LP amount, and a payout in a foreign coin occur.

`Market`: amounts up to 18, of reserves and of LP tokens, hold first deposits of 8
and 8 in one pool and 14 and 14 in the other, and what swaps of 5 and a
one-sided deposit of 10 add. An offer of 5 returns more than
`MIN_TRADE_SIZE = 2` from a full pool and less from one that is nearly out of an
asset, so that priced and unpriced swaps occur. `ONE = 4` makes prices fine enough to tell a lost LP unit. Two scales, 1 and
4, with whole square roots, let every priced swap or deposit move the price and a
later one move it back. Only one pool has withdrawals: the pools share no state but a
request's path.

`PoolKeys`: names of two lengths, two of three pairs with one key; sorting changes
the order of some pairs. Amounts 0 and 1 tell the two sides apart, and
reserves up to 2 let a pool trade both ways. The list `<<a, b, c>>`
reaches the withdrawal that ignores a third asset.

Fairness: `FairSpec` adds `WF_vars(Run)`. A chain that has begun to execute a
transaction executes it to its end or rolls it back, because gas is finite.
Nothing is assumed about calls: nobody has to make one.

### What the violated runs show

* `withdraw_pays`: `receive_cw20` hands `info.sender`, the LP token contract, to
  `execute_withdraw_liquidity` as the account to refund (contract.rs:141), so
  both refunds go to the token contract and the LP tokens are burnt.
* `tracked_current`: swaps change PAIR_BALANCES and not BALANCES.
* `withdraw_tracked`: a withdrawal takes the number of LP tokens off both sides of
  the book (handlers.rs:381) and the refunds off BALANCES (handlers.rs:438). After
  it the tracked copies are not what the handlers go on with, although state.rs:67
  says that they are the asset balances. A deposit leaves the two equal
  (`ProvideTracksBook`).
* `minimum_receive`: `execute_swap_operations` takes the minimum as
  `_minimum_receive` and does not read it. `max_spread` does not help: a value
  above 50% is refused, and any other is compared with a belief price of
  `Decimal::MAX`, for which no spread is too large. A quote, another user's
  swap, and the quoted swap pays less than it names.
* `simulated_result`: `simulate_swap_operations` computes every hop from what is
  stored, `execute_swap_operations` from what the hops before it have saved. A
  path there and back through one pool pays another amount than its simulation
  answered, with nothing in between; contract.rs:183 says of the query that it
  "returns the end result". `QuoteHolds` says where the two agree.

A withdrawal also leaves `xcp_profit_real` as it was: it computes a new value and
its save is commented out (handlers.rs:452). `ProfitCovered` is about pools
without a withdrawal; no line of the repository says what the profit should be
after one, so no run asks.

`Backed` states, by its `shortfall` term, three more places where book and
account part: a swap through the hook of a token that is in the first pool but
not the first offer (contract.rs:126), a last asset that is a native coin other
than DENOM (handlers.rs:634), and a withdrawal, which pays a share of the
reserves and takes the number of LP tokens off the book (handlers.rs:381). What
is checked is that nothing else contributes.

## 4. Proofs

`PinaColadaProofs` proves, for all assets, accounts, pools, paths and amounts
allowed by `PinaColadaAssumption`:

* `TypeCorrect` : `Spec => []TypeOK`
* `LpAlwaysBound` : `Spec => []LpBinding`

They follow from one inductive invariant, `Inv1`. Its parts and why they are
needed:

* `TypeOK`, `LpBinding` themselves, and `SupplyIsHeld`: the LP supply is what
  the accounts hold. This is the token contracts' own bookkeeping, so no run
  asks for it, but typing needs the supply to be covered by holdings, because a
  burn subtracts from the supply what an account holds (`BurnHeld`, from
  `HoldingBound`: nobody holds more than all together).
* `CreateProtocol`: how the messages of a creation, QUEUED_MINT and the pool's
  missing token go together. Without it `reply` could bind any token, and a
  commit could leave the slot filled.
* no messages while the swap loop runs or between transactions.
* `AtRest(saved)`: what a rollback restores satisfies all this itself, with the
  slot empty.

Each action has a lemma (`CreatePairInv1`, ..., `UserBurnInv1`), and under it a
step per conjunct it can disturb. The lemmas about the ledgers (`CreditLedger`,
`DebitLedger`, `MoveLedger`) and about the book (`AfterSwapFacts`,
`IncrementFacts`, `DecreaseFacts`) say what the storage operations do; the sums
rest on `TotalUpdate`. `ShareBound` (from `ShareRounding` and `ShareScaled`) is the arithmetic of a refund: the share of
a reserve is never more than the reserve.

`SolvencyProofs` proves, from the same assumption,

* `AlwaysBacked` : `Spec => []Backed`
* `SupplyKeptPositive` : `Spec => SupplyStaysPositive`

`Backed` is not inductive by itself. `Inv2` adds to `Inv1`:

* `PoolsOK`: the entry under a key holds the two assets of that key, in some
  order. A deposit puts its amounts in the pool's order and a hop looks for the
  offered asset; both go wrong if the entry could hold other assets
  (`DepositOrder`, `HopSides`).
* `PathOK`: the operations of a running swap passed `assert_operations`, so that
  the asset a hop returns is the one the next hop offers.
* `MessageKinds`: which messages each kind of transaction sends. A withdrawal
  has nothing to pull in, so its burn is covered by what the account holds
  already; a deposit has nothing to pay out.
* `LockFirst`: before an LP token without supply is minted to anybody, the
  minimum liquidity is minted to the contract. With this the term `Locked`
  appears in the same step as the holding that covers it.
* `PoolsOK` and `RestBacked` of `saved`, for rollbacks.

The sums over books and messages are dealt with once: `BookChange` (changing one
entry changes the book by that entry's difference), `BookOfEmpty` (an entry
overwritten by an empty one never adds to the book, which is why creating a pool
again keeps `Backed`), `Dispatching1` (dispatching a message takes exactly it off
what is to come), `AtLeastOne`, `OneToCome`, `ThreeToCome`. `DepositShape` says
what the concatenated messages of a deposit are. Then one lemma per action.

`SupplyKeptPositive` uses `Inv2` in the state before the step: a burn by the
contract is preceded by nothing that could still come in, so `Backed` says the
account holds the burnt amount and the lock; a burn by a holder does not touch
the lock at all. What the account keeps bounds the supply from below
(`SupplyAboveLock`). The condition `shortfall[l] = 0` is needed: LP tokens booked
without being moved are missing from the account, and then the lock can be
burnt.

`TransactionProofs` proves, from the same assumption, the three invariants that
compare the running transaction with what its rollback would restore:

* `DepositIsTracked` : `Spec => []ProvideTracksBook`
* `SwapsConserve` : `Spec => []HopsConserve`
* `DepositTakesItsBooking` : `Spec => []ProvideTakesWhatItBooks`

Each is the end of an invariant that says how far the transaction has come,
inductive together with `Inv2`. `ProvideTracksBook` is so itself. `HopsSoFar`
says that after each hop all books together, and the amount on its way to the next
hop, are what the books were, except for the asset offered first; it needs
`PathOK`, by which a hop offers what the last one returned. `TakenSoFar` says that
the account, with what is still to be pulled in, has grown by what the books
have grown; it needs the exact amount a deposit's messages pull (`DepositPulls`:
each cw20 asset once, and nothing else). `StepKinds` reduces `Next` to the few
steps that start or lengthen what is followed: everything else leaves a
transaction of another kind, or none.

`RefinementProofs` proves, from the same assumption, the refinement of
`PoolLedger`:

* `LedgerImplemented` : `Spec => ImplementsLedger`

The steps that begin, continue or roll back a transaction leave `Settled`
unchanged (`Unseen`); what is to be shown is that `Commit` is one step of the
ledger. For that there is one invariant per kind of transaction, which says what
it has done so far to books, account and supplies relative to `saved`:

* `CreateSoFar`: the books of at most two assets differ, and only by having
  fallen, if the new pool replaces one.
* `DepositSoFar`: two assets have been booked, and the account lacks of them what
  the messages are still to pull in; every other difference is an LP token that
  has been minted.
* `SwapSoFar`: the books have lost the amount on its way and gained the first
  offer; the account has gained the offer, and still has what is to be paid.
* `WithdrawSoFar`: the LP tokens are booked off and are still to be burnt; each
  refund still to come is a share of a reserve as it was found.

They are inductive together with `Inv2` and with `OwnTokens`: a pool's LP token is
neither of the pool's own assets, because it is instantiated after them at a
fresh address. Without that a deposit could pull in what it mints, or a
withdrawal refund what it burns. With no message left, each invariant is the
ledger's action for that kind (`CommitCreates`, `CommitDeposits`,
`CommitExchanges`, `CommitWithdraws`). A refund is a share of one pool's reserve,
and the ledger bounds it by a share of the whole book: `ReserveInBook` and
`ShareScaled`. What holders do themselves is a step of the ledger if the account
is on one end of it (`TransferSteps`, `BurnSteps`) and a stutter if not.

`MarketProofs` proves, from `MarketAssumption`,

* `TypeCorrect` : `Spec => []TypeOK`
* `QuotesHold` : `Spec => QuoteHolds`
* `NobodyIsDiluted` : `Spec => DepositDilutesNobody`

and, with the hypothesis `SmallSwapsKeepValue`,

* `ProfitStaysCovered` : `Spec => []ProfitCovered`

The invariant is `Inv`: reserves are within `0..MaxReserve`, a pool without LP
tokens has none, supplies and profits are natural numbers, and the remembered
request is one the query could have answered (`Remembered`).

`QuotesHold` is for paths of every length that visit no pool twice. The code computes a quote and a swap
on different reserves, the quote on the stored ones, the swap on ones it has
raised and lowered again, so the two are compared hop by hop: if they differed,
there would be a first hop at which they do (`LeastNumber`), and it would start
from equal amounts, equal books and equal scales. A hop may move the scale of its
own pool, which a path that visits no pool twice does not read again; that holds
for every choice of scales in `Pegs`.

`NobodyIsDiluted` holds for every curve and every invariant `Xcp` that gives
natural numbers, at the scale the deposit finds, including those for which a deposit is no gain. The share is
`growth * supply / before` rounded down, less the fee; `QuotientBelow` and
`ScaledShare` turn the division into an inequality of products, and
`ProvideIsFair` compares the worth of an LP token before and after by
multiplying out.

`ProfitStaysCovered` cannot hold for every curve. `update_price` compares the
profit only when offer and return reach MIN_TRADE_SIZE, and a smaller swap is
accepted whatever it does to the pool. `SmallSwapsKeepValue` is what the handlers
rely on there without checking it: a swap below that size does not lower the
invariant. It is about the library, is stated as a hypothesis of the theorem, and
TLC checks that the instance's curve satisfies it. For priced swaps nothing is
assumed: the check in `update_price` is enough, and where it moves the scale it
stores the worth at the new one.

`PoolKeysProofs` proves

* `TypeCorrect` : `Spec => []TypeOK`
* `StoreIsAMap` : `Spec => ImplementsPairMap`, the refinement of `PairMap`
* `EachRequestByName` : `Spec => RequestsActByName`
* `OwnPoolFound` : if no name begins another, every key that is found leads to the
  pool of the assets asked for

The invariant `Stored` says that the entries of both tables lie under the key of
their own two assets. From it `LeadsTo` says where a key leads: to the pool of
the assets asked for or, if they have none, to one that clashes with them
(`Addressed`). `ChangeByAsset` turns a change of one entry into a change of the
reserves by asset, so that the swap of the two amounts puts each
at the asset it belongs to. A created pool takes the place of those it clashes
with and of no other (`CreateRefines`). None of this assumes anything about the
names. Only `OwnPoolFound` has a hypothesis, `NoNameBeginsAnother`: such names
can be read back from their concatenation (`BeginsOther`, `JoinedNames`), so that
no two pairs clash (`KeysDistinguishPairs`). Addresses of one length satisfy it;
the code does not see to it for native denoms.

Assumed: `PinaColadaAssumption` (finitely many assets and accounts, the address
of the contract is not a user's, LP tokens are instantiated at fresh addresses,
the minimum liquidity is positive and fits); `MarketAssumption` (types of the
parameters, no two pools of the same assets, offers and, at every scale, curve results that
fit a Uint128, an invariant `Xcp` that is a natural number); `NameAssumption` (a
name is a sequence of bytes), `LeqAssumption` (names are totally ordered, which is
what sorting uses) and `BoundAssumption`. TLC evaluates them in every run of their
module.

Every safety invariant, action property and refinement that a passing run checks
has a theorem. Only model-checked is `QueuedMintServed`, because liveness under
fairness is beyond the prover.

## 5. What is planned

1. The slippage check of a deposit (`assert_slippage_tolerance`), which is skipped
   for small differences and compares with the price scale.
2. A run with two tracked pools that share an asset: BALANCES has one slot per
   asset, and the last deposit wins. `ProvideTracksBook` is proved for that case
   too, as it compares BALANCES with the book of the pool just deposited into.
3. Which of the queries besides `simulate_swap_operations` promise something a
   later call could break.

## 6. Not modelled

* The inside of the curve (`calc_d`, Newton iterations, dynamic fees, the oracle price
  and where it moves the price scale): it is in `astroport-pcl-common`, not in this repository. What
  the handlers need of it is a parameter.
* The precommit observation: nothing reads it.
* Decimals: `with_precision`, `to_uint` and `Precisions` convert by a power of ten
  and back. Amounts are in the token's own unit; for tokens of more than 18
  decimals the conversion would lose digits, which no model shows.
* `max_spread` and `slippage_tolerance`: the first refuses only a value above 50%,
  whatever the pools are (see `minimum_receive`), the second is an error after nothing has been sent, which is
  a `Revert`.
* Queries other than `simulate_swap_operations` and the reserves of a pool: they
  read, and nothing acts on what they answer.
* Migration: one handler without state of its own; it expects the stored contract
  name "router" where `instantiate` stores another, so it always refuses.
* Errors, messages' JSON and schema generation, and the entry points' dispatch by
  message type.
* Cw20 tokens are the standard contract; a token that behaves otherwise is out of
  scope. Tests (`integration_test.rs`, `factory_helper.rs`) were read for how the
  contract is used: `assets` and paths in the runs follow them.
