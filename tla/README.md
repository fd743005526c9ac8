# A verification project for the fund program

The program under `src/programs/fund_contract` is a Solana (Anchor) program that runs
investment funds: investors buy and redeem shares at the fund's net asset value (NAV), a
manager trades the fund's SOL through whitelisted tokens, a keeper fills limit and DCA orders
and rebalances strategy funds. This directory models it in TLA+, checks it with TLC on small
instances and proves the results that matter most with TLAPS.

    tlc -config Shares.cfg MCShares          # one run; all of them are listed below
    tlapm SharesProofs.tla                   # the proofs of one module

## 1. Inventory

Paths are relative to `src/programs/fund_contract/src`. A Solana account is the unit of state;
an instruction runs alone on the accounts it names, and all instructions of a transaction
succeed or none does. So there is no interleaving inside an instruction. What makes this program
hard is the *order* in which independent people call instructions, several instructions in one
transaction, the accounts the program does not control (SPL tokens, oracles, rent), and integer
arithmetic that rounds at every step.

| Component | State | Operations | Hard behaviour |
|---|---|---|---|
| Share ledger | `FundState.total_shares`, share mint, `WithdrawRequest`, fund vault | `initialize_fund`, `deposit`, `request_withdraw`, `cancel_withdraw`, `execute_withdraw` | price = NAV / total_shares changes with every call and every trade; a request reserves nothing; share tokens move and burn without the program |
| Fund accounts, whitelists | fund vault, token vaults, `GlobalWhitelist`, `FundWhitelist`, `enabled_token_count` | `add_token`, `remove_token` (global and fund scope) | a listing ends while orders depend on it; a removal counts even when there is nothing to remove |
| Limit orders | `LimitOrder`, its SOL vault, its token account, `active_limit_count` | `create_`, `execute_`, `cancel_limit_order` | value split over four accounts, rents, pinned feed, expiry |
| DCA orders | `DcaOrder`, two vaults, `active_dca_count` | `create_`, `execute_`, `cancel_dca_order` | a schedule kept over many calls of a keeper that may be late, a partial last slice |
| NAV | none (reads all of the above) | `compute_nav_lamports` in `deposit.rs` | accepts any listings and all open orders in the numbers the counters announce, and fails otherwise |
| Borrow / settle | `Trading` | `borrow_for_swap`, `settle_swap` | SOL leaves the vault in one instruction, and only a later one checks what came back |
| Oracle | Pyth accounts (external) | `load_pyth_price`, `token_value_in_lamports`, `expected_*`, `scale_price` | rounding, exponents, staleness |
| Strategy funds | `Strategy`, the fund's wrapped SOL account | `initialize_strategy_fund`, `set_strategy`, `rebalance_strategy`, `sweep_wsol` | allocations fixed for ever while the whitelist changes, wrapped SOL outside the NAV that swaps leave and that anybody can send, the vault's own rent counted as capital |
| Configuration, keeper | `GlobalConfig` | `initialize_`, `update_global_config`, `set_`, `revoke_keeper` | oracle and keeper change under listings and orders that copied them |

How they interact: `deposit` and `execute_withdraw` call `compute_nav_lamports`, which reads the
vaults, whitelists and orders of the fund. Order creation moves lamports or tokens from the
fund's vaults to the order's, execution and cancellation move them (or what they were swapped
for) back. The counters in `FundState` tie the orders and whitelists to the NAV: they say how
many accounts a NAV computation must be given. The caller chooses which, and assembles them before
the call. `borrow_for_swap` reads the later instructions
of its own transaction and `settle_swap` compares the vaults with the snapshot in `Trading`.

What makes each component correct:

- *Share ledger*: nobody's share loses value by another's deposit or withdrawal; tokens in
  circulation never exceed `total_shares`; lamports are conserved; each payout waited for the
  timelock; nothing is left behind when the last share goes; a request can be paid unless the NAV
  or the lamports are missing.
- *Whitelists, orders*: the counts of orders are exact, and the count of listings (which
  `remove_token` can lower below the number of listings) never exceeds it; an open order's vaults
  hold exactly its escrow; a DCA order never runs ahead of its schedule nor swaps more or less than
  asked.
- *NAV*: can be computed as long as nobody removes a token; counts all that is listed while the
  count of listings is exact; does not change by moving value in and out of escrow, and loses at
  most the tolerated slippage by a fill.
- *Borrow / settle*: no lock outlives its transaction, each loan is paid for by a delivery of its
  own.
- *Oracle*: values and expected outputs round down in every exponent, the two prices of a value
  are of about the same time, the tolerated confidence bounds the error.
- *Strategy funds*: a rebalance sees the whole fund while the count is exact, costs at most the
  slippage, does not overshoot, waits for the cooldown; the wrapped SOL that swaps leave does not
  pile up.
- *Configuration, keeper*: a revoked keeper fills nothing; an oracle change reaches funds and
  orders only in the ways the code intends.

The full list of hazards, each at the line where it bites, is in `PROJECT.json`.

## 2. Modules

| Module | Models | Extends |
|---|---|---|
| `FundMath` | fees, shares minted, payout, slippage bound: one integer division each | |
| `FundMathProofs` | lemmas about these divisions, induction, and sums over finite sets | `FundMath` |
| `Shares` | the share ledger of one fund | `FundMath` |
| `MCShares` | the sums over wallets that the run checks | `Shares` |
| `SharesProofs` | the theorems about `Shares` | `MCShares`, `FundMathProofs` |
| `FundAccounts` | vaults, whitelists, counters, prices; `add_token`, `remove_token`, a committed swap | `FundMath` |
| `LimitOrders` | limit orders over `FundAccounts` | `FundAccounts` |
| `DcaOrders` | DCA orders over `FundAccounts` | `FundAccounts` |
| `OrderProofs` | the theorems about `FundAccounts`, `LimitOrders` and `DcaOrders` | these, `FundMathProofs` |
| `TradingFund` | both kinds of order over one fund, and the NAV | `LimitOrders`, `DcaOrders` |
| `InvestedFund` | deposits and withdrawals over `TradingFund`; implements `Shares` | `TradingFund`, instance of `Shares` |
| `TradingProofs` | the theorems about the NAV and the refinement | `InvestedFund`, `OrderProofs` |
| `StrategyFund` | a strategy fund: strategy, rebalances, wrapped SOL | `FundAccounts` |
| `StrategyProofs` | the theorems about `StrategyFund` | `StrategyFund`, `OrderProofs` |
| `MCStrategyFund` | the symmetry of its run | `StrategyFund` |
| `OracleMath` | prices accepted, conversions with exponents, the trigger | `FundMath` |
| `OracleProofs` | powers of ten and the theorems about `OracleMath` | `OracleMath`, `FundMathProofs` |
| `GlobalConfig` | configuration, listings and an order as copies of the oracle; the keeper key | |
| `GlobalConfigProofs` | the theorems about `GlobalConfig` | `GlobalConfig` |
| `SwapTx` | `borrow_for_swap` and `settle_swap` as instructions of a transaction | |
| `SwapTxProofs` | the theorems about `SwapTx` | `SwapTx` |

One action stands for one instruction: its conjuncts are the `require!`s, checked arithmetic
and account constraints that can fail, its primed variables every account the handler writes.
Both sides of an order are actions of their own (`CreateBuyLimit`, `CreateSellLimit`, ...) that
share what the handler does for both (`RegisterLimit`). `LimitOrders` and `DcaOrders` each have a
specification of their own for the runs that concern one kind of order only; `TradingFund`
takes the union of their steps over the shared fund accounts.

Definitions whose comment starts with "Mistake" are not part of the model. Each is a plausible
bug of the definition below it; replacing that definition by it must break a property
(`mutants` in `PROJECT.json`), which shows that the property depends on the code.

### State and code

- `Shares`: `totalShares` is `fund_state.total_shares`; `supply` and `held` are the share mint's
  supply and its token accounts; `request[i]` is the request PDA of investor `i` (`NoRequest` when
  it does not exist); `vault` the lamports of the fund vault, its rent included, since
  `compute_nav_lamports` starts from all of them; `assets` what it adds for everything else, or
  `NoValue` when it fails for the accounts the next caller has. `lastPaid` is a history variable.
  `TransferShares`, `BurnShares`, `PortfolioMoves` and `AssetsRevalued` are the environment: the
  token program, and all of trading, prices, listings and callers' choices of accounts.
- `FundAccounts`: `global[m]` and `listed[m]` are the feed of the whitelist entry of mint `m`,
  `NoFeed` when the account does not exist. `RemoveFund` has the guards `remove_token` has, so it
  also "removes" what is not listed; `RemoveOther` is the same of a mint outside `Mints`.
  `enabledCount` is therefore not the number of listings. A feed's price is an integer, in one
  exponent for all of them, so `amount * price \div solPrice` is `token_value_in_lamports`.
- `LimitOrders`, `DcaOrders`: an order's PDA, the lamports of its SOL vault (`sol`) and its token
  account (`ata` for its existence, `held` for its balance) form one record. `times` is a history
  variable: the time of creation and of each slice. The swap of an execution is any output
  (`out`) that the instruction accepts; that the escrow is consumed in full is one of its checks.
- `TradingFund`: `Acceptable(mints)` says for which whitelist entries `compute_nav_lamports` takes
  the account list: distinct listed ones, as many as the count says, with those of all SELL orders.
  `NavOf(mints)` is what it returns for them, `Nav` the value of the whole fund (`NavOf(Listed)`).
- `InvestedFund`: the variables of `TradingFund` and those of `Shares`, `vault` and `now` shared;
  `assets` is not a variable but the value `compute_nav_lamports` adds to the vault (`Assets`) for
  the entries `shown`, the ones the next caller has assembled (`ChooseAccounts`), possibly before
  other instructions ran; `NoValue` if they are not acceptable (any more). The ledger's
  instructions are the actions of `Shares` itself, with the NAV they need.
- `StrategyFund`: `strategy` is the Strategy account (`weights` its allocations), `ata`, `wsol` and
  `unsynced` the fund's wrapped SOL account: its existence, its balance, and lamports it holds that
  no `sync_native` has made a balance yet. `SendToWsolVault` is what the repository's own tests do
  (`09_strategy_fund.ts:554-592`, `662-708`): create that account and send to it. What the swap of
  a rebalance delivers (`out`), leaves of the wrapped SOL (`rest`) or sells (`sold`) is any number
  that the checks after it accept. `lastBuy`, `lastTrade` and `donated` are history variables.
- `OracleMath`: `feed` is what the two price accounts show; the program's functions are operators,
  checked in every state of the feeds for all amounts, decimals and limit prices of the instance.
- `GlobalConfig`: a feed is a pair of the program that owns the account and an id. `config` holds
  the fields of the account that others depend on, `global` and `listed` the feed of the two
  whitelist entries, `count` the fund's count of listings, `order` the feed and program an order
  pinned. `updates`, `appointed`, `executor` and `order.born` are history.
- `SwapTx`: `tx` is the list of instructions of the running transaction, `pc` the next one,
  `saved` the accounts before it (what a failing transaction returns to). Every other
  instruction that can touch a vault is a `MoveSol` or `MoveTokens`. `lent`, `due` and `outside`
  are history variables that keep the books of the transaction.

### Three rules of the runtime that decide behaviour

- *Rent*: a transaction may not leave an account with fewer lamports than its rent-exempt
  minimum, unless it leaves none (`RentExempt`).
- *Purging*: an account left with 0 lamports ceases to exist. The fund vault is loaded as
  `Account<FundVault>` by every instruction that moves its SOL, so they all fail from then on
  (`VaultAlive`).
- *Balance*: when a program calls another one, the runtime compares the lamports of the accounts
  it has touched and hands over. A purchase of a rebalance moves lamports by hand from the fund
  vault to the wrapped SOL account (`rebalance_strategy.rs:255-266`) and then calls `sync_native`
  with the latter only (268-274), so the runtime probably refuses that call, and every purchase
  with it; no test of the repository gets as far. That depends on the runtime, not on this program,
  and the model takes the instruction as it is written: the properties of purchases say what holds
  if they are let through. The other instructions that move lamports by hand (orders created,
  borrows, payouts, removals) do so after their last call.

## 3. Runs

| Run | States | Question |
|---|---|---|
| `Shares` | 437k | two wallets, one of them the manager, deposit, request, withdraw, transfer and burn while trades move the value or make it impossible to compute; is a matured request paid? |
| `InvestedFund` | 150k | does a fund with real orders, and callers who choose and delay the accounts they show, implement `Shares`? is the whole fund diluted while the count is exact? |
| `LimitOrders` | 733k | counters and escrows of two limit orders, one token, two feeds |
| `DcaOrders` | 618k | counters, escrows, pace and slices of two DCA orders; does a late but fair keeper complete them? |
| `TradingFund` | 741k | what orders of both kinds do to the NAV |
| `StrategyFund` | 581k | what rebalances do to the NAV and when, while the whitelist changes, its count drifts and others send wrapped SOL |
| `OracleMath` | 41k | rounding, age and confidence in every state of two feeds |
| `GlobalConfig` | 786k | oracle and keeper changes under a listing and an order |
| `SwapTx` | 687k | every transaction of up to 4 instructions on two funds with two tokens |
| `HoldingUnlisted`, `PartialNav`, `VaultPurged` | | the disagreements of section 5 |

*Bounds and why they are enough.*

- `Shares`: deposits of 2 or 3 lamports, fees of 34% and 50%, a NAV of at most 4 (`VaultBalances`,
  `AssetValues`): small numbers make the remainders of the divisions large in proportion, so every
  kind of rounding (to zero, up to almost one unit) happens; and a NAV that fails, at any time.
  `MaxTime = 2` is two timelocks.
  A request made up to one timelock before the end matures (`MaturesInTime`).
- `InvestedFund`: one investor (the manager), one token, one order, no timelock: enough for every
  kind of trading step to meet every instruction of the ledger. With one listed token and
  `RemoveOther` the count can be exact or 0 under a listing, and the accounts shown complete, empty
  or stale. `RequestAmounts` leaves out requests that differ in nothing but the amount.
  `VaultBalances` and `AssetValues` reach above anything the wallet and the outputs can reach, so
  that no step is excused by a bound of `Shares`. Several investors, transfers and burns are the
  business of the run `Shares`.
- `LimitOrders`: two orders, so that one can be open while the other ends; two feeds, so that a
  token can come back with another one (and the count be one short of it); prices 1 and 3 with a
  limit of 1 and a unit of 2, so that the trigger price is rounded and a trigger can hold or fail;
  expiry 1 with the clock up to 2.
- `DcaOrders`: totals and slices of 2 or 3, so that the last slice can be full or partial; three
  instants, so that a late keeper can execute two slices at once; `MaxActiveDca = 1` is the
  20 of the code at a size where the limit is reached. Outputs below and above what a swap must
  deliver, at two SOL prices, block and unblock an order.
- `TradingFund`: amounts 50 and 100 at prices 10 and 20 with 10% slippage, so that a fill at the
  bound (45, 90) costs several lamports and is distinguishable from rounding; 149 lamports are
  enough for one large and one small order.
- `StrategyFund`: prices 10 and 20, one feed for all tokens (a rebalance reads the feed of the
  listing, so which one it is makes no difference), a threshold of 0, so that each price change
  makes a rebalance due; weights 50/50 and 100; 20% slippage on about 10 tokens, so that the bound
  is distinguishable from rounding; swaps that leave 0 or 5 lamports, and 5 lamports from somebody
  else (`Gifts`) between two sweeps (`MaxDonated`), as long as the vault has not grown beyond 20
  (`MaxVault`; each sweep returns the account's rent, so that the vault could grow for ever). Four
  tokens and a count that wraps at 3 (`CountModulus`, 256 in the code), so that a strategy of one
  token meets a fund of four. Tokens and feeds are symmetric (`MCStrategyFund`): no definition
  tells two of them apart.
- `OracleMath`: exponents -2 to 0 and 0 to 2 decimals give every sign of the resulting scale; a
  SOL of 10 lamports keeps remainders large; the cast modulus 4096 is exceeded by some values; an
  age limit of 1 with the clock up to 4 has prices that are too old, fresh, and from the future.
- `GlobalConfig`: two programs with two feeds each, two keys, two updates (to a new oracle and
  back), one token and removals of another; nothing depends on amounts.
- `SwapTx`: four instructions over two funds fit two whole loans and both ways to nest or overlap
  two of them; with a loan of 1 from vaults of 2, two transfers can empty a vault before it lends.
  One transaction is enough because a committed one leaves every `Trading` account cleared
  (`NoLockSurvives`) and the next starts from there; the theorems have no such bounds.

Runs set `CHECK_DEADLOCK FALSE`: the clock and the order ids are bounded, and nobody is obliged
to call anything.

*Fairness.* Nothing in the code schedules a step: each is submitted by a person or a bot, so the
specifications have no fairness and progress is mostly stated as safety (what is always possible,
what a step may never lose). Two runs ask what follows if somebody keeps trying, which is what
the roles of the README do:

- `FairSpec` of `Shares`: the clock advances, and an investor whose request can be executed
  executes it in the end (weak fairness of `ExecuteWithdraw(i)`, per investor). `RequestsPaid`
  says that then nothing but a NAV that cannot be computed, missing lamports or missing shares
  keeps a matured request open. What it adds to the fairness: the guards of `execute_withdraw` on
  `total_shares` and on the mint's supply (`SharesCounted`) never stand in the way of an investor
  who has the shares, whatever others burn or redeem.
- `DcaFairSpec` of `DcaOrders`: the clock advances, and the keeper executes a slice that stays
  executable (weak fairness per order, over any output). `DcaCompletes` says that then every slice
  that falls due is swapped.

Weak fairness suffices in both: the conditions under which the step may be disabled for ever are
named in the properties (`Liquid`, `SharesAtHand`, `Blocked`). No other actor is fair: nobody must
deposit, trade, cancel or move a price.

### Properties

- `SharesAddUp`, `LamportsConserved`: the sums over all wallets.
- `NoDilution` (action property): when `total_shares` changes, NAV / total_shares does not fall.
- `PayoutsSpaced` (action property): between two payouts of an investor a full timelock passes.
- `RequestsPaid`, `DcaCompletes` (liveness): see above.
- `ImplementsShares` (refinement): with `assets` mapped to what `compute_nav_lamports` adds for the
  accounts shown (or `NoValue`), every behaviour of `InvestedFund` is one of `Shares`: deposits and
  withdrawals are those of the ledger, at a NAV that was accepted, and orders, fills, listings,
  prices and choices of accounts are `PortfolioMoves` and `AssetsRevalued`, which touch neither
  shares nor requests nor a vault that is gone. So what is proved about `Shares` holds with real
  orders behind the NAV - at the NAV that is shown, which is that of the whole fund only while the
  count is exact.
- `WholeFundUndiluted` (action property) says what that is worth: while the count equals the number
  of listings, no deposit and no payout lowers the value of a share of the whole fund, whatever
  accounts the caller brings along and whenever they were assembled. `LastShareEmptiesOrders`: the
  last payout is possible only when no order holds SOL any more and, while the count is exact, no
  listed token is worth a lamport.
- `CountWithinListed`: `enabled_token_count` never exceeds the number of listings. It may fall below
  (section 5). `LimitCountExact`, `DcaCountExact`: the counters of orders are exact.
- `LimitEscrowExact`, `DcaEscrowExact`: the vaults of an order, which the handlers compare with
  equality, so that any deviation would lock the order.
- `DcaPace`, `DcaSlicesExact`: the schedule and the amounts of a DCA order over its whole life.
- `NavKeptByOrders`: creating or cancelling an order costs at most the lamport that rounding two
  balances separately can cost. `FillLossBounded`: a fill costs at most the slippage, a rent and
  roundings. `NavLostOnlyByRemoval`: a NAV that could be computed with some accounts can be
  computed with none only after a `remove_token`, of a listed token or not, or after an order was
  created while the count was below the listings. (The first two are about the value of the whole
  fund, `Nav`.)
- `NoLockSurvives`, `OneLoanAtATime`, `LoansPaid`: borrowing. `LoansPaid` is net: `settle_swap`
  compares two balances, so moves under the lock that cancel out, a deposit and an order's escrow of
  the same size for instance, pass it unnoticed. Only borrow and settle look at the lock.
- `RebalanceSeesWholeFund`, `RebalanceLossBounded`, `NoOvershoot`, `RebalancesSpaced` (action
  properties), `WsolFromOneBuy`: rebalancing. The first holds unless the count has fallen below the
  listings or no longer fits a `u8`; the last bounds what lies outside the NAV by one purchase and
  what others have sent. The loss bound holds even when a swap leaves all
  its wrapped SOL unspent, because the output is measured against what was set aside.
- `ValueExact`, `RoundTripsNeverGain`, `TriggerHonest`, `PricesContemporary`,
  `ConfidenceBoundsError`: the oracle. The cast to `u64` is unchecked; `ValueExact` shows that it
  can only lower a value.
- `RevocationHolds`, `NavLostWithCause`, `OldOrdersOnlyAtOldOracle` (action properties): the
  configuration. A readable NAV is lost by an oracle update, a first listing at a foreign feed, a
  removal (of this token or another) under an open order, or an order created for a listing that
  the count leaves out. An order filled at an oracle that the NAV refuses dates from before the last
  update of the oracle.

## 4. Proofs

Every safety property that a passing run checks, invariant or action property, and the refinement
are also theorems (and `LastShareTakesAll` of `Shares`, which only the proof checks: the payout of
the last share takes all the NAV counts): for every value of the constants that satisfies the named
assumptions, so for any number of tokens, feeds, orders, investors and amounts, any fees, slippage
and exponents. The bounds of section 3 are bounds of the runs, not of these results. `PROJECT.json`
lists theorem by theorem what each states.

### `FundMathProofs`: what all the others rest on

- Division: `DivisionRoundsDown`, `DivisionSplits` (two amounts together are worth what they are
  worth apart, or one more), `SlippageIsFee`, `BoughtWorth` (what a swap at the slippage bound
  delivers, valued at the same prices, is worth the amount less the slippage, three roundings and
  the value of two base units).
- Induction. The library's induction theorems take an operator, which no installed prover can
  instantiate. `NatSetInduction` says it of a *set* of naturals instead (from the
  well-foundedness of `<`), and an induction is then over the set of the `n` for which the
  statement holds.
- Sums. `SumFunction` of the community modules is a `CHOOSE` of a recursive function over the
  subsets of its domain. By induction on the cardinality such a function exists and is unique
  on finite sets (`SumsExist`, `SumsUnique`), and then a sum does not depend on the order of its
  terms (`SumPoint`), which gives the rules the proofs use: one term changes (`SumChanges`), a term
  is added (`SumGrows`), a term is at most the sum (`SumCoversTerm`), zeros add up to zero.

### `SharesProofs`

The invariant (`Inv`) adds to the properties what they need to be inductive: an open request is
not older than the last payout of its owner, which is not later than the clock, a fund that does
not exist has no shares and no lamports, a fund without shares has an empty vault, and the supply
is covered by `total_shares`. (Without the first, a state with an old request and a recent payout
would satisfy every property and break `PayoutsSpaced` in one step.) `NoDilution` is arithmetic on
one step: `SharesToMint` and `GrossPayout` round against the caller. `SharesAddUp` needs that the
sum over all wallets follows one wallet; for `LamportsConserved` each instruction is shown to
change the wallets, the treasury, the vault and the rents by amounts that cancel.

### `OrderProofs`

What each kind of instruction keeps is stated for the instruction alone, whatever the rest of the
fund does, so that the same lemmas serve `LimitSpec`, `DcaSpec`, the fund with both and the
strategy fund. The invariants are

- `FundInv`: types, finitely many listings, no more of them counted than there are (the theorem
  `CountWithin`; that the count may be less is why nothing here says it is exact);
- `LimitInv`: types, order ids not handed out are unused, an open order's vaults hold its escrow,
  the counter counts the open orders;
- `DcaInv`: the same for DCA orders, and the schedule: after n slices `next_exec_ts` is the time
  of creation and n + 1 intervals, no slice was executed before it was due, and `remaining` is the
  total less n slices. `DcaPace` and `DcaSlicesExact` say nothing of `next_exec_ts` and
  `remaining`, and are not inductive without them.

### `TradingProofs`

`TradingInv` is the three together. With it:

- `BooksExactWithAllOrders`, `BooksExactUnderInvestors`: what `OrderProofs` shows of one kind of
  order at a time - exact counters of orders, exact escrows, a count of listings that is never too
  high - stays true with both kinds on one vault, and with investors.
- `NavLostOnlyByRemovalHolds`: a NAV can be computed exactly when the SELL orders' tokens are listed
  and no more of them than the count, the count is not above the listings, and there are no orders at
  a count of 0. A listing adds one to both numbers, and the entry just listed completes any accepted
  list (`WhitelistSteps`); a new SELL order needs one more entry at most, which the count has room
  for while it is exact.
- `WholeFundUndilutedHolds`: distinct listed mints, as many as there are listings, are all of them
  (`AllOfThem`, by cardinality). So while the count is exact the accounts of a deposit or payout that
  is let through are those of the whole fund (`WholeFundShown`), the ledger's NAV is `Nav`
  (`NavFollowsVault`), and the rounding argument of `NoDilution` applies to it.
- `NavKeptByOrdersHolds`, `FillLossBoundedHolds`: the NAV is three sums; each instruction changes
  one term of at most two of them (`SumChanges`, `SumGrows`), and `DivisionSplits` and
  `BoughtWorth` bound what valuing two parts separately and swapping cost.
- `FundImplementsShares`: the refinement, step by step: initial states are initial states of
  `Shares`, the ledger's instructions are its own actions at the NAV computed, every other step is
  `PortfolioMoves`, `AssetsRevalued`, `Tick` or a stutter, whether the accounts shown are acceptable
  or not before and after it. The count may have drifted: the ledger's NAV is then that of the
  accounts shown, and not of the fund. The hypothesis `AnyPortfolio` says that
  the two sets that bound the environment of `Shares` (`VaultBalances`, `AssetValues`) are all of
  `Nat`; they exist for TLC only, no account is bounded by them in the code. What `SharesProofs`
  shows of every behaviour of `Shares` then holds of a fund with real orders behind its NAV. (The
  prover cannot cite a theorem through an INSTANCE, so this last inference is made here and not
  by a machine.)
- `LastShareEmptiesOrdersHolds`: the last payout takes the whole NAV it is given from the vault, so
  the three sums are zero, and so is each of their terms. All open orders are in them; all listed
  tokens are, by `WholeFundShown`, while the count is exact.

### `StrategyProofs`

`StrategyInv` says that `last_rebalance_ts` is when the last trade or `set_strategy` happened and
is not in the future, that wrapped SOL (synced or not) is at most what the last purchase set aside
and others have sent (what is not synced, at most what they have sent), and that the count does not
exceed the listings; weights that add up to 100% are each at most 100% (`SumCoversTerm`). A
rebalance is a purchase or a sale in the numbers that matter (`RebalanceTrades`); the loss and the
overshoot follow from the same lemmas on values as those of orders. `RebalanceSeesWholeFund` is a
fact about finite sets: a subset of the listed tokens with as many elements is all of them; where
the count is neither too large for its `u8` nor below the listings, `StrategyFits` says just that.

### `OracleProofs`

`Pow10` (`pow10_i128`) is a recursive function. That one exists is proved by induction up to any
exponent and then put together (`PowersExist`), and from its equation the law of exponents
(`Pow10Adds`). `ScaledExact` says that wherever the code puts the scale, numerator or denominator,
the quotient is that of the two numbers with all exponents moved up; the five properties are then
comparisons of natural fractions. The invariant is only that feeds show naturals and exponents in
range.

### `SwapTxProofs`, `GlobalConfigProofs`

`SwapTxProofs` is for transactions of any length over any funds and mints. The invariant says that
a locked fund's settlement still lies ahead and that it is the first one ahead (`LoanPending`, from
which `OneLoanAtATime` follows: two locked funds would both own the first settlement), that a fund
is locked exactly when its `Trading` account names a mint (`MintRecorded`), that the saved accounts
are unlocked (`SavedUnlocked`), that between transactions the books are clear (`BooksClear`), and
that the books agree with the vaults in the middle of a loan too (`SolBooked`, `TokensBooked`).

`GlobalConfigProofs` is for any programs, feeds, keys and number of updates. The invariant says that
the configured keeper is the one appointed last, that only an existing configuration has orders
and listings, and that an order born since the last update pins the program of now: an order whose
program differs is therefore older. `NavLostWithCauseHolds` goes through the instructions: at a count
of 0 no feed is read and only a new order or a listing ends that; above 0 only the oracle, the
listing itself and the step of the count to 0 matter.

### Assumptions, and what stays with TLC

The assumptions on constants are the named `ASSUME`s of the modules (`SharesAssumption`,
`FundAccountsAssumption`, `LimitOrdersAssumption`, `DcaOrdersAssumption`, `StrategyAssumption`,
`InvestedFundAssumption`, `OracleMathAssumption`, `SwapTxAssumption`, `GlobalConfigAssumption`),
which TLC evaluates in the runs: amounts and rents are naturals, prices positive, percentages at
most 100%, the ids that a run may hand out and the investors finitely many.

Only model-checked are the two liveness properties, `RequestsPaid` and `DcaCompletes`: they need
fairness and ENABLED, which the prover does not support.

## 5. Where the code and its documentation disagree

Each of these runs checks one property taken from `src/README.md`, and TLC finds a
counterexample.

- `HoldingUnlisted` - `remove_token` looks at the balance of the fund's token vault, not at open
  orders (`remove_token.rs:101`), so it does not see tokens in a SELL order's escrow. After the
  removal, cancelling the order returns the tokens to a vault the NAV no longer counts (README 269:
  "Fund token removal requires empty vault balance"). As long as the SELL order is open, or an
  order of either side when the count has become 0, `compute_nav_lamports` fails whatever accounts
  it is given, and with it every deposit and withdrawal, until the token is listed again or the
  order cancelled: a way to lose the NAV that `NavLostOnlyByRemoval` names. The README (290-292)
  presents the check as what keeps the NAV from breaking.
- `PartialNav` - `remove_token` in fund scope compares the address of the whitelist entry and never
  asks whether the entry exists (`remove_token.rs:79-90`). Closing an entry that does not exist
  succeeds (118-129), and `enabled_token_count` falls all the same (107-110). The manager can do
  that with any mint whose (empty) token account for the fund exists, which anybody can create.
  From then on the count is below the number of listings, and `add_token`, which adds one for one
  more listing, never repairs it. `compute_nav_lamports` asks for as many distinct listings as the
  count says and not for which (`deposit.rs:175-220`): a depositor or a redeemer can leave a listed
  token out, at 0 all of them must. README 80 and 278-280 say that the count excludes this. In
  consequence: deposits and payouts then happen at a NAV chosen by the caller (`WholeFundUndiluted`
  and the second half of `LastShareEmptiesOrders` are promised for an exact count only); an order
  created meanwhile can make the NAV impossible to compute (`NavLostOnlyByRemoval`,
  `NavLostWithCause`); and a rebalance can fit a strategy that leaves a listed token out
  (`RebalanceSeesWholeFund`).
- `VaultPurged` - an order may take every lamport of the fund vault, the vault's rent included.
  The account is then purged, and neither the order nor anything else that loads the vault can
  proceed (README 198-199).
  (The purchase of a rebalance as it is written would do the same for a strategy with one token at
  100%, whose target counts the vault's rent; section 2 says why the runtime hardly lets it.)

Met while modelling, with no run of its own: executing a BUY limit order leaves the rent of its SOL
vault behind (`execute_limit_order.rs:298-307` closes the token account only), and the executed order
cannot be cancelled to recover it, where README 196 says "closes escrow". The manager paid that rent,
so the fund's NAV loses only the rent it counted while the order was open (`FillLossBounded`). DCA
orders sweep that vault when they complete.

## 6. Not modelled, and why

- *Account substitution.* Accounts passed to an instruction are the fund's own: PDA seeds and ATA
  addresses are checked by the code and abstracted here. (Which whitelist entries a NAV is computed
  from is not among these: the code leaves it to the caller, and so does the model.
  `cancel_limit_order` checks owner and mint but not the address of the fund's token account for a
  SELL order, and loads `whitelist` without constraints; `remove_token` in fund scope takes a
  global whitelist account it does not use.)
- *Overflow.* Amounts are natural numbers; the code's `checked_` operations fail instead of
  wrapping. The unchecked casts of 128-bit results to `u64` are in `OracleMath` only.
- *Exponents and age of prices* are in `OracleMath` only; the other modules take prices in one
  exponent and always fresh.
- *Swaps.* The route of a swap is external: it delivers any output and changes nothing of the fund
  but the accounts its handler names. A mint equal to wrapped SOL is not listed.
- *Donations.* Lamports or tokens that third parties send to order accounts, where they block
  cancellation and execution. What they send to the fund's vaults raises the NAV as a profit of a
  trade does (`PortfolioMoves`, `AssetsRevalued` in `Shares`); the other modules leave it out.
  Transfers to the wrapped SOL account of a strategy fund are modelled (`SendToWsolVault`).
- *The NAV of a locked fund.* A deposit or payout between borrow and settle counts neither the loan
  nor what it will bring; `SwapTx` knows it as a `MoveSol` only.
- *Rent of accounts that never returns to the fund* (`FundState`, `Trading`, whitelists, DCA
  orders): it comes from the manager's wallet and no property concerns it.
- *Changes of fees, slippage and timelock bounds.* They are constants of each module: a fund keeps
  the timelock it was created with, and fees and slippage are read once per instruction, so that
  no property relates two values of them.
- *Dispatch, error codes, tests, build files*: no state.

## 7. Plan

Done: all modules of section 2, the liveness of requests and DCA orders, the refinement of
`Shares` by `InvestedFund`, the theorems of section 4, and the dilution of the whole fund under a
caller's choice of accounts (`WholeFundUndiluted`).

Left, in this order:

1. How much a deposit or payout can shift by the accounts it shows once the count has drifted, as a
   bound in the values of the tokens left out.
2. The NAV of a locked fund: deposits and payouts between borrow and settle, with `Shares` and
   `SwapTx` composed.
3. A bound on the NAV that a sequence of rebalances between two deposits may cost.
