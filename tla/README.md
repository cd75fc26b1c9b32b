# A verification project for the Tetu V2 converter strategies

The repository holds strategies of the Tetu V2 vaults. A *converter strategy*
takes one token (the underlying) from a splitter, borrows the other tokens it
needs through TetuConverter, puts the pair into a pool of a DEX, and earns fees
and rewards. The contracts are single threaded, but each runs at the mercy of
callers it does not order: the splitter (deposits, withdrawals, hard work), the
operator's bots (rebalances, steps of a withdrawal), TetuConverter (payments it
demands or sends) - and between any two calls the prices move. That is what the
modules here are about.

Around the contracts stands a second program, in TypeScript: bots that poll the
strategies and send their calls, tasks an operator runs, a backtester, deployment
scripts and a plugin that verifies contracts. They are asynchronous, retry what
fails, and meet one another on the chain, in a database or at the explorer.

Paths of contracts (`*.sol`) are relative to `src/contracts/`, all others to
`src/`; the lines of each definition are in the `map` of `PROJECT.json`.

## 1. Inventory

| Component | State it keeps | Operations | Modelled |
|---|---|---|---|
| Pair fuse (`strategies/pair/PairBasedStrategyLib.sol`, `PairBasedStrategyLogicLib.sol`) | status, four price thresholds | set by hand, changed by prices in a rebalance | `PairFuse` |
| Tick range (`PairBasedStrategyLogicLib.sol`, `uniswap/UniswapV3DebtLib.sol`) | lower and upper tick | calculate around a tick, need of a rebalance | `PairRange` |
| Uniswap V3 strategy (`strategies/uniswap`, `DepositorBase.sol`) | `PairState`: fuse, range, liquidity, `withdrawDone`, time of the last rebalance | deposit, withdraw, hard work, rebalance, withdraw step, payment, emergency exit, manual settings | `PoolPosition`, `UniswapV3Strategy`, partly |
| Converter strategy base (`ConverterStrategyBase*.sol`) | `investedAssets`, `debtToInsurance`, thresholds, balances | the same calls, seen as movements of value | `ConverterAccounting`, partly |
| Withdraw iteration plan (`libs/IterationPlanLib.sol`) | none | build a plan, one step of it | `IterationPlan` |
| Borrowing and proportions (`libs/BorrowLib.sol`, `_openPosition`) | none | rebalance debts to proportions | `Positions`, partly |
| Closing positions (`closePositionsToGetAmount`) | none | loop of plans, repayments | `Positions` |
| Partial withdraw quoting (`getLiquidityAmount`) | none | how much to take out of the pool | `Positions`, partly |
| Transaction sender (`scripts/utils/RunHelper.ts`, `SpeedUp.ts`) | nonce and fees of a transaction on the way | send, poll, replace with higher fees | `CallOnce`, `TxSender` |
| Rebalance bot (`scripts/rebalance.ts`) | time stamps of needs, calls, errors | look, estimate, call, back off | `NsrBot` |
| Debt reduction (`web3-functions/w3f-utils.ts`) | none; the bot's last fuse and messages | is a step due, quote, build the call | `DebtReduction` |
| Hard work loop (`scripts/utils/splitter-hardwork.ts`) | `LAST_ERRORS` | one pass over the strategies | `HardWorkLoop` |
| Full withdraw task (`scripts/utils/WithdrawAllByAggUtils.ts`) | none | capped steps until nothing is left | `FullWithdraw` |
| Backtest workers (`scripts/uniswapV3Backtester`) | a database of tasks and results | search by generations | `BacktestWorkers` |
| Pool history, snapshot (`scripts/utils/UniswapV3Utils.ts`) | a file of transactions | read pages, order them; walk over ticks | `PoolHistory`, `LiquiditySnapshot` |
| Backtest replay (`strategyBacktest.ts`) | a local pool, clocks | replay mints, burns, seconds; sync pools | `BacktestReplay`, `PoolSync`, partly |
| Contract verification (`hardhat-verify`, `scripts/verify.ts`) | jobs at the explorer | match artifacts, submit, poll | `ContractInformation`, `ContractVerification`, partly |
| Deployment scripts (`deploy`) | records of deployments | one script per contract, run in order | `DeployScripts`, `StrategyDeployment` |
| Splitter, vault, TetuConverter, Bookkeeper, oracle | not in this repository | called, calling | external actions |
| Strategy profit holder; Algebra, Kyber, Pancake strategies; reader and rebalance resolvers; Balancer boosted strategy; Tetu V1 adapter; square-root price maths; analytics, local set-up, one-off scripts, configuration | - | - | no: section 5 |

How they interact. The splitter calls `_depositToPool`, `_withdrawFromPool` and
`doHardWork`; each first fixes price changes (compares the cached
`investedAssets` with what the positions are worth now), then moves value, then
stores the cache again and reports a loss that the splitter covers from the
insurance. The bots poll `needRebalance`; while it is true the splitter's calls
revert. A rebalance leaves the pool, updates the fuse, borrows or repays to the
proportions of the new range, and enters again. While the fuse is on the bots
call `withdrawByAggStep`, each step one swap and one or two repays, until no
debts are left. TetuConverter calls `requirePayAmountBack` and
`onTransferAmounts` in between.

Off chain, one process runs the rebalance bot: a pass does the hard work of the
splitter, looks at each strategy, calls `rebalanceNoSwaps(true)` when a need has
lasted, and lets the resolver decide on a `withdrawByAggStep`. Every call goes
through `RunHelper`, which replaces a transaction that is not mined. The tasks
an operator runs by hand use the same sender and the same key. Containers of the
backtester share a database; deployment and verification share the sources.

What is hard in the contracts: a position minted at ticks that change before it is burnt; a
fuse that changes in the middle of a call; a cache of prices that is stale by
the time the next caller uses it; profit and loss that must reach the insurance
exactly once, although limited by tolerance, balance and insurance; a promise
to the converter that its second call relies on; loops that sell, repay and
borrow until a request is met, with swaps and loans that give other amounts than
quoted; and users who wait for a bot. Off chain: a chain that changes between
two requests; a receipt that does not come; a call that is mined after it was
given up; time stamps that stand for something else than what the code compares
them with; pages that overlap; two processes that claim the same work; a run cut
off in the middle, and the next one over what it left.
Each such place is a line in `hazards` of `PROJECT.json`.

## 2. The modules

### PairFuse, PairRange: pure functions

`NeedChangeFuseStatus(status, t, p, q)` is `needChangeFuseStatus` with `p` the
oracle price and `q` the price in the pool; the code's flag *needToChange* is
"the result differs from `status`". `CalcTickRange`, `CalcNewTickRange` and
`NeedPoolRebalance` are the functions of the same names; `DivTrunc` is
Solidity's signed division, which rounds toward zero, the reason for the
`tick < 0` case of `calcTickRange`.

### UniswapV3Strategy: the life of PairState

| Variable | In the code |
|---|---|
| `tick`, `price` | `slot0` of the pool, price oracle |
| `fuseStatus`, `thresholds` | `pair.fuseAB` |
| `range` | `pair.lowerTick`, `pair.upperTick` |
| `totalLiquidity` | `pair.totalLiquidity` |
| `position` | what the *pool* has recorded for the strategy, per range |
| `debts` | which directions have a debt of at least `DUST_AMOUNT_TOKENS` in TetuConverter |
| `withdrawDone`, `lastRebalanceNoSwap` | `pair.withdrawDone`, `pair.lastRebalanceNoSwap` (zero or not) |

Each action is a whole transaction. `RebalanceNoSwaps(check)` and
`WithdrawByAggStep(plan, pool, entry)` are `_rebalanceBefore` (leave the pool),
the work, and `_rebalanceAfter` (enter unless the *updated* fuse is on).
`Deposit`, `Withdraw`, `HardWork`, `RequirePayAmountBack` and `EmergencyExit`
are the calls of splitter and converter, with the guards of `_beforeDeposit`,
`_beforeWithdraw` and `_preHardWork`; a revert is a step that is not enabled.
Token amounts are classes - none, below, at or above a threshold - because only
the thresholds decide anything here; how many debts remain after a borrow or a
repay is a choice. What the amounts are is the subject of the next module.

`PoolPosition` is the abstract specification of the position (left, left
altogether, placed, the fuse switched by hand, the price moved) and
`UniswapV3Strategy` implements it by the refinement mapping `Position`: the
abstract `held` is `position`, the pool's own record, `at` is `range`, `fuseOn`
is `FuseIsOn`, and `ByHand` is whether the operator may set any status.
`totalLiquidity`, the thresholds, debts and `withdrawDone` are hidden by it.

### ConverterAccounting: cache, insurance and promises

One record `acc`: underlying on balance, worth of the other token on balance
(`tokens`), worth of pool position and collaterals less debts (`locked`), the
cache `invested`, `debtToInsurance`, the increase of the debts since the last
checkpoint of the Bookkeeper, and, outside the strategy, the insurance, the
vault, and what was paid to TetuConverter and is not yet used. `unsent` is what
the last call could not send to the insurance (the code emits it); `promise` is
what a `requirePayAmountBack` that sent nothing returned.

The code's arithmetic on these is kept to the letter: what is capped by the
tolerance, which total a cap is taken of, what is rounded, what is subtracted
with `sub0`. Swaps, loans, pool entries and exits are a choice of how value
ends up spread, within a loss and a gain. `MarketMove` changes what locked
assets are worth, `Accrue` lets interest run.

Both modules have a `RebalanceNoSwaps` and a `WithdrawByAggStep`: the same
calls, once as steps of `PairState` and once as steps of the accounts. Their
composition is part of the plan (section 6).

### IterationPlan, Positions: the amounts

`IterationPlan` has the functions of `IterationPlanLib` for the two tokens of a
pair: `BuildPlan` chooses what to swap and what to repay from balances, debts,
prices and proportions. Proportions are out of `One` where the code's are out of
1e18.

`Positions` keeps amounts: `balance`, `pool` and, per token owed, `debt` with its
collateral. A call is taken statement by statement (`pc`, `local`): `Deposit` is
`prepareToDeposit` and the pool entry, `Withdraw` is `getLiquidityAmount`, the
pool exit and `_closePositionsToGetAmount` with its do..while, `WithdrawStep` is
`_withdrawStep` with both swaps and both repayments, `Rebalance` is
`BorrowLib.rebalanceAssets`. A swap of a withdraw step takes what the plan asks
for or, by an aggregator, what its route was built for (`RouteAmounts`; one
route of 200 in `positions`, smaller than what most plans ask for). Each swap
may lose `Slippages`, each borrow meets a lending platform with limited funds; a
call that reverts (`Revert`) gives back the amounts in `saved`. `MarketMoves`
changes prices and the proportion of the
pool between calls. This is the third view of the same calls: `UniswapV3Strategy`
has debts as open or closed, `ConverterAccounting` what all of it is worth.

### The scripts

| Module | State, and what a step is |
|---|---|
| `CallOnce` | abstract: a call is made, executed at most once, returned or thrown |
| `TxSender` | mempool, mined transactions, the node's receipts; sending, a poll, a speed-up, an eviction, a block |
| `NsrBot` | ages of needs and calls; the turn of a vault, one request or one statement of the loop of `rebalance.ts` |
| `DebtReduction` | what the resolver has seen of a strategy; one request of `runResolver` |
| `HardWorkLoop` | ages since hard work and since an error; one strategy of a pass |
| `FullWithdraw` | debts and leftovers; the static call, the quote, the step |
| `BacktestWorkers` | rows of a database, locals of each worker; one query, a crash, a restart |
| `PoolHistory` | what the subgraph has, what was read; one page, a failed query, another run |
| `LiquiditySnapshot` | the tick walked to and its liquidity; one tick of the walk |
| `BacktestReplay` | liquidity of the pieces of ranges, the clocks of the report; a transaction, the end of a second |
| `PoolSync` | price in units of a tick, the loop counter; one swap |

`TxSender` implements `CallOnce` by a refinement mapping (`Abstract`). The other
scripts use a sent call as `CallOnce` describes it: executed or not, and told
truly or, when it was given up, wrongly.

Each script is a process of its own and shares no state with the others.
`MCScripts` therefore is their disjoint union: `script` in the first state says
which one a behaviour looks at, variables of one name stand for each script in
turn, and the properties are those of the modules. One formula of fairness
(`Goes`, `Succeeds1`, ...) stands for an action of each script; as only one
script takes steps, this is the conjunction of the single ones.

### Releases

`DeployScripts` has one definition for each file of `deploy`: tags,
dependencies, chains it is skipped on, statements. `StrategyDeployment` runs them
as hardhat-deploy does, with edits of the sources between runs and runs cut off
at any statement. What the theorems use of the scripts is written there too
(`ScriptsAssumption`): facts about names, order and checks that a new script
must not break. `ContractInformation` finds artifact and libraries of a
deployed contract (code is a sequence of cells, of which some are masked);
`ContractVerification` is `scripts/verify.ts` with several people running it and
an explorer that is a queue of jobs and may answer wrongly that a contract is
not verified. `Releases` puts the three side by side in
the same way as `Scripts`; `MCReleases` is its instance.

### MC modules and proofs

`MCUniswapV3Strategy`, `MCConverterAccounting`, `MCPositions`, `MCScripts` and
`MCReleases` are the roots of the runs. The `*Proofs` modules hold the theorems.
Definitions marked *Mutant* are wrong variants of their neighbour, each like a
plausible bug; every property of the passing runs was seen to fail when its
mutant takes the place of the definition.

## 3. The runs

| Run | Configuration | Question | Outcome |
|---|---|---|---|
| `stable_pool` | `UniV3Stable.cfg` | one spacing wide, fuse, all manual settings | holds |
| `volatile_pool` | `UniV3Volatile.cfg` | several spacings wide, no automatic fuse | holds |
| `rebalance_settles` | `UniV3Fair.cfg` | do the bots always unblock the strategy? | holds |
| `accounting` | `Accounting.cfg` | does profit reach the insurance, can promises be kept? | holds |
| `positions` | `Positions.cfg` | one direction of debts, requests met as far as possible, calls end | holds |
| `scripts` | `Scripts.cfg` | is what each script reports, remembers and sends right? | holds |
| `scripts_live` | `ScriptsLive.cfg` | do the loops that must end come to their end? | holds |
| `releases` | `Releases.cfg` | are deployments linked and ready, verifications true? | holds |
| `deposit_after_iterations` | `UniV3DepositAfterIterations.cfg` | `rebalanceNoSwaps(false)` deposits after the iterations | violated |
| `withdraw_done` | `UniV3WithdrawDone.cfg` | a step that reports completed closed the debts it found | violated |
| `step_profit` | `AccountingStepProfit.cfg` | a withdraw step never raises the share price | violated |
| `withdrawal_leaves_means` | `PositionsSmall.cfg` | a withdrawal leaves something to repay open debts | violated |

What the passing properties say of the contracts:

- `LiquidityIsTracked`: all liquidity the pool holds for the strategy is at the
  current range and is the number the strategy tracks, so nothing is orphaned.
- `ImplementsPoolPosition`: the strategy implements `PoolPosition`, the record
  a pool keeps of it: all liquidity at one range, placed with the fuse off and
  the price inside, nothing added under a triggered fuse, whoever calls.
- `FuseEmptiesPool`: prices that trigger the fuse empty the pool in the same call.
- `EntryInRange`, `RebalanceCentersRange`: assets go where they earn, and a
  rebalance leaves nothing to rebalance.
- `WithdrawDoneAfterRepay`: the plans that repay report "done" only without
  debts. (`PLAN_SWAP_ONLY` is the exception that `withdraw_done` shows: the debt
  that was open before the step is open after it. Another is a step that follows
  the pool's moving proportions with a new borrow.)
- `RebalanceSettles`: `needRebalance` is false again and again.
- `CacheNotOverstated`: no call writes a cache above what is really there.
- `DepositKeepsSharePrice`, `WithdrawKeepsSharePrice`,
  `HardWorkKeepsSharePrice`, `StepKeepsSharePrice`: what vault and strategy
  report together (`Holdings`) rises neither by prices nor by lucky swaps; the
  exceptions the code makes are in the formulas: what the cap left unsent, dust
  below the liquidation threshold, a step after which the balance alone is
  worth the old total.
- `DebtWithinCover`: an operator's call adds to the debt to the insurance no
  more than the insurance paid out and the interest that accrued.
- `PromiseCanBePaid`: after a `requirePayAmountBack` that returned an amount
  "that can be claimed on the next call", that amount with its gap is on
  balance and the next call has no profit to send away first.
- `OneDirection`: between calls at most one of the two debts is above its
  threshold, which is what the next deposit takes for granted.
- `ShortOnlyWhenStuck`: the loop that closes positions ends short of the request
  only when nothing is owed any more, when it has neither anything to repay the
  next debt with nor anything to sell for it (`Stuck`), or when a repayment gave
  back exactly what had been sold for it (`SaleCancelled`), which the code takes
  for "the balances did not change".
- `GapLeavesMeans`: when the 5% asked for on top are worth the threshold and
  positions are healthy, a withdrawal ends without debts or with something to
  repay them.
- `CallEnds`: neither the loop of plans nor the second repayments go round for
  ever.

Of the scripts:

- `ImplementsCallOnce`: whatever is replaced, evicted, mined late or not seen, a
  call is executed at most once, and "returned" means executed without a revert.
- `NeedIsConfirmed`: a rebalance is sent after a need that lasted longer than
  the delay without a calm look in between, and two executed calls are apart.
- `NeedIsServed` (liveness): no strategy needs a rebalance for ever, unless it is
  paused or another one uses up the delay between calls.
- `RefusedIsLeftAlone`: a strategy whose hard work was refused is left alone
  for the delay of `LAST_ERRORS`. That the strategies behind it, whose turn the
  error has ended, are worked on in a later pass is not checked.
- `DebtIsReduced` (liveness): a withdrawal started by the fuse is ended, and
  locked assets do not stay above the allowed share.
- `DoneMeansWithdrawn`, `Ends` (liveness): the full withdrawal ends if its cap
  is worth a swap of either token (`CapSuffices`), and an end without an error
  leaves no debt but one borrowed after the last static call.
- `GenerationsAreComplete`, `TaskEnds` (liveness): generations are filled in
  order, by whatever workers; tasks are closed.
- `HistoryCanBeReplayed`, `SnapshotIsLiquidity`, `BurnShortOnlyByRounding`,
  `FuseTimeIsNotOverstated`, `CounterIsTick`: history complete, without doubles
  and in an order that can be replayed; each tick with its liquidity; a burn
  short by what divisions lost only; the time on fuse of the report; the sync of
  two pools computes the amount for the tick it is in.

Of the releases: `NewestIsLinked` (a full run leaves everything whose script runs
on the network linked with the newest; a record of a script that is skipped now
keeps its old links, as `deployments/matic/KyberConverterStrategyLogicLib.json`
does), `SuccessIsReady`, `FailureHasReason` (what else a
full run leaves, and why a run can fail), `InformationIsTrue`, `SoundIsAccepted`
(no other source and no other links than the deployed ones; no sound request
refused), `OutcomesAreTrue` (what `verify.ts` reports of a contract is so).

### Where code and docs disagree

The four violated properties are sentences of the repository's comments; the
traces are in `findings` of `PROJECT.json`. In short: `rebalanceNoSwaps(false)`
without need of a rebalance leaves the pool, does not return, and drops the
measured profit (`UniswapV3ConverterStrategyLogicLib.sol:426`); `completed`
does not mean that the debts there were are closed for `PLAN_SWAP_ONLY`
(`IterationPlanLib.sol:202`);
`fixTooHighInvestedAssets` cannot postpone a profit when the balance alone
reaches the old total (`ConverterStrategyBaseLib2.sol:732`); a strategy worth a
few thresholds hands over all it has while a debt stays open
(`ConverterStrategyBaseLib.sol:1243`).

Seen while modelling, kept in the models as the code has them, and without a run
of their own:

- The documented example of fuse thresholds has its upper limits in an order
  that `setFuseThresholds` refuses (`PairBasedStrategyLib.sol:280`).
- `rebalanceNoSwaps` measures a profit of prices and does not send it when
  nothing is to be rebalanced (`UniswapV3ConverterStrategyLogicLib.sol:426`).
- A debt below the threshold with a collateral worth hardly more makes the
  withdrawal revert with `BALANCE_DECREASE` (`ConverterStrategyBaseLib.sol:1224`).
- `_fixLeftoversProportions` compares the amount of the other token with the
  threshold of the underlying (`PairBasedStrategyLib.sol`), and the borrow it
  makes reverts when there is a debt in the opposite direction.
- `scripts/rebalance.ts` keeps one `lastNSR` for all strategies (line 227), so
  one strategy can keep another waiting; `NeedIsServed` has that exception.
- The openocean branch of `web3-functions/w3f-utils.ts:333` passes the token
  where the amount is expected.
- `WithdrawAllByAggUtils.ts:51` takes the cap of a swap with the decimals of the
  underlying. Where the unit of the other token is much larger (1e18 against 1e6)
  the capped amount is below its threshold: each step swaps nothing, and the loop
  never ends. `Ends` excludes such instances by `CapSuffices`; without it TLC
  shows the endless loop. Line 80 reads `completed` of a static call that a later
  block may falsify.
- Two workers may compute the same parameters (`backtester.ts:233`), and a
  worker may add a result to a task closed meanwhile (168).
- The `expect` at `strategyBacktest.ts:329` has no matcher and checks nothing.
- Deploy scripts 004-010 name no dependencies and rely on the order of files;
  the Balancer script links a library under another name than the contract uses.

### Bounds, and why they are enough

- Ticks: -2..2 with spacing 2 and one-spacing ranges has every case of the
  rounding (negative or not, on a spacing or between), three neighbouring
  ranges, and moves across all of them. -6..6 with half range 4 does the same
  for wide ranges; the proofs cover every other width.
- Prices 1..4 against thresholds 1, 2, 3, 4: each side of each limit, oracle
  and pool independent of one another.
- `MaxLiquidity = 2`: a position can be grown, partly left and fully left.
- `Balances` {0, 1, 2} around `LiquidationThreshold`: none, below, at.
- Accounts: a total of at most 3 units, `MaxDebt` 2. The ratios are scaled so
  that caps and gaps fall between 1 and 2 units: tolerance one half, gap one
  half, reinvest threshold one quarter. Swaps and loans lose or win one unit.
  Reward units, requests and the insurance are of the same size, so that each
  limit is met from both sides: insurance smaller and larger than a loss,
  balance smaller and larger than a profit, debt above and below the threshold.
  `InBounds` is the bound in `Next`.
- Positions: deposits of 1000, thresholds of 20, dust of 2, two pairs of prices,
  three calls (enough to open, move the market, close, and meet what the close
  left). Amounts are some hundred times the rounding unit: with amounts of a few
  thresholds the claims break on coincidences of rounding, which
  `withdrawal_leaves_means` shows for one of them. One lending platform per
  borrow; interest does not accrue within the three calls.
- Scripts: two calls with one key and two base fees (a replacement and its
  original, one call between); two strategies of the bot and three of hard work
  (one refuses, one throws, one works); the two strategies of the bot in two
  vaults; full withdrawals for tokens with equal units, a larger unit of the
  underlying and a larger one of the other token, the last once with a cap that
  is worth a swap and once with one that is not; two workers, two generations and one crash; all histories
  of up to four events in pages of two; all pools of two positions on a few
  ticks; ranges of two or three pieces that are inside, across the ends of and
  outside the snapshot.
- Releases: four chains, and Polygon beginning with the scripts of its past,
  which are retired at any time after the first run, so that records of skipped
  scripts are there; full runs and each tag by itself, three runs with one crash and one edit of a library; ten
  artifacts that differ in each place the matching looks at, one of them for a
  compiler in no config (OVM), a config with a compiler that is too old; two verifiers.

`CHECK_DEADLOCK FALSE` stands where a system stops of itself: scripts return,
and calls, events and runs are bounded.

### Fairness

`RebalanceSettles` is checked under `WF_vars(RebalanceNoSwaps(TRUE))` and no
other fairness: the resolver bots (`tools/RebalanceResolver.sol`,
`web3-functions/`, `scripts/rebalance.ts`) poll `needRebalance` and call
`rebalanceNoSwaps(true)` when it is set. The market may change the need at any
time, so the property is that the need vanishes again and again, not that it
stays away. It is checked with strictly ordered thresholds and without manual
changes of the fuse: with equal limits, which `setFuseThresholds` accepts, the
fuse changes at every call.

`CallEnds` takes weak fairness of the statements of a call that has begun: a
transaction runs to its end.

`scripts_live` takes weak fairness of the loops themselves and of time, and
strong fairness of the outcomes that are tried again and again: requests do not
fail for ever, not every call is given up before it is mined, not every quote is
zero. Nothing is assumed of prices, of other users, or of workers that crash
(the run has none: a result left undone keeps a task open).

## 4. What is proved

All with TLAPS, for every value of the constants that the named assumptions
allow (`TickAssumption`, `MarketAssumption`, `OperatorAssumption`,
`AmountAssumption` of `UniswapV3Strategy`; `RatioAssumption`,
`EnvironmentAssumption` of `ConverterAccounting`; `PlanAssumption` of
`IterationPlan`; `FeeAssumption` of `TxSender`; `BotAssumption` of `NsrBot`;
`SpacingAssumption`, `PoolAssumption` of `LiquiditySnapshot`;
`PositionAssumption` of `Positions`; `ScriptAssumptions` of `Scripts` and
`ReleaseAssumptions` of `Releases`, which are those of their instances, among them
`ChainsAssumption` of `PoolHistory`: a burn takes liquidity of a mint that is not
younger than itself; `ArtifactsAssumption` and `DeploymentsAssumption` of
`ContractInformation`: what a compiler puts out and what deploying does to it;
`ScriptsAssumption` of `StrategyDeployment`).

- `UniswapV3StrategyProofs`. First the pure functions: `NewRangeHoldsTick` (a
  range calculated around a tick holds it: any integer tick, any spacing, any
  width in whole spacings), `NewRangeNeedsNoRebalance` (and does not ask for a
  rebalance, when the tolerance is at least one spacing), `FuseSettles` (two
  updates at the same prices bring a strictly ordered fuse to rest). They rest
  on `DivTruncBounds` and `DivTruncExact`, what truncation does on each side of
  zero. Then the strategy: the inductive invariant is
  `IInv == TypeOK /\ LiquidityIsTracked`. `LiquidityIsTracked` alone is not
  inductive: an exit burns at `range`, which must be one of `Ranges`, and a
  re-entry keeps the width only because `CalcNewTickRange` of a range in
  `Ranges` is `CalcTickRange` with the configured width (`NewRangeInRanges`).
  `NextStep` has one lemma per call. From `Spec => []IInv` follow
  `TypeCorrect`, `LiquidityTracked`, and the action properties `FuseKeepsOut`
  (`NoEntryWhileFuseOn`, which no run repeats since the refinement is checked
  there), `EntryIsInRange`, `RebalanceCenters`; all three rest on
  `AddedLiquidity`: whoever adds liquidity adds it at the current tick and with
  the fuse off. `FuseEmpties`
  (`FuseEmptiesPool`) needs no invariant: only `RebalanceNeeded` lets prices
  change the fuse. Nor does `WithdrawIsDoneAfterRepay`
  (`WithdrawDoneAfterRepay`): one case per call that may set `withdrawDone`.
  `Refinement` (`ImplementsPoolPosition`): initial states map to initial states
  (`InitRefines`), every step to a step of `PoolPosition` or a stutter
  (`NextRefines`). The invariant, before and after the step, turns the counter
  `totalLiquidity` into the pool's record, so a rebalance or a withdraw step is
  `LeaveAll` when the counter ends at zero and `Place` otherwise
  (`RebalanceEntry`, `WithdrawStepEntry`), and the other calls are `Leave` or
  `Place` by the direction in which the counter moves. What is proved of
  `PoolPosition` is inherited: `TriggeredFuseMeansEmptyPool`, that without manual
  statuses a triggered fuse means an empty position, an invariant which
  `FuseEmptiesPool`, a statement about single steps, does not give alone.
- `ConverterAccountingProofs`: the invariant is `TypeOK /\ PromiseCanBePaid`.
  The first half of the module has a lemma for each operator on accounts (what
  is sent is on balance, the cover of a loss leaves the report alone,
  `FixPriceChanges` ends with the cache at what is really there, moved value
  stays natural). `Honest(a, b)` carries the cache through a call: it was set to
  what is there or less, or not written while what is there did not shrink.
  The second half has one lemma per call, which ends in `Keeps`. Two facts of
  arithmetic carry `PromiseKept`: `GapFits` (an amount taken out of a balance
  by the gap fits back with the gap, both divisions rounding down) and
  `PlusGapBound`. The theorems are `TypeCorrect`, `PromiseKept`
  (`PromiseCanBePaid`) and `CacheHonest` (`CacheNotOverstated`). From the
  promise follows `PromiseIsPaid` (`SecondCallPays`, in no run): the second call
  that the converter makes is paid, since there is no profit to send away first
  and a loss by prices is covered by the splitter, not from the balance.
  The share price: `WithdrawIsNoIncome`, `DepositIsNoIncome`,
  `HardWorkIsNoIncome`, `StepIsNoIncome` (the four `...KeepsSharePrice`) follow
  `Holdings`, what vault and strategy report together, statement by statement
  through each call; `DebtIsWithinCover` (`DebtWithinCover`) follows the debt to
  the insurance in the same way. Proving the third corrected the property: its
  bound was the liquidation threshold alone, and hard work that recycles rewards
  may add a gain of the swaps up to `MaxLoss` when that is the larger of the two
  (`ConverterStrategyBase.sol:472`), which the instance of the run, where the
  two are equal, did not tell apart. Nothing in them depends on `InBounds`.
- `PositionsProofs`, first of `IterationPlan`: plans can be carried out.
  `LeftoversAreThere`, `SaleIsThere`, `SwapBetweenIsThere` and `PlanIsThere` say
  that each amount a plan sells is on the balance when its turn comes and is
  worth a swap. The hypotheses are those of the callers: there is a debt
  (`IsOwed`), and a plan that sells in proportion has something to sell.
  Then of `Positions`, for any amounts, prices, thresholds, swaps and loans:
  `AmountsStayNatural` (no call sells, repays, frees, lends or enters more than
  there is at that statement) and `TypeIsKept`, from the inductive invariant
  `IInv == TypeOK /\ Ready`. `Ready` is what a call has found out by the time it
  comes to a statement: the amount it is about to swap or lend is still on the
  balance, the share it is about to divide by is not zero. TLC has checked
  `IInv` on both instances.
  `DebtsAreInOneDirection` (`OneDirection`) needs more: `OneDirection` says
  nothing of the middle of a call, and it speaks of the debt while the code
  compares the debt with the gap. `Directed` is the invariant: one of the two
  debts is small *with* the gap, now and in what a revert would bring back;
  where a call is about to borrow under a collateral, the debt of that
  collateral is small or there is too little of it to borrow under. It is
  inductive only where the threshold of a token is at least its dust amount
  with the gap (`ThresholdsAreAboveDust`, hypothesis of the theorem): a debt
  below the dust amount is left open, and would be above a lower threshold. The
  default threshold is 100_000 against a dust amount of 100 (`AppLib.sol:21`
  and 25); the code lets an operator choose any other but zero
  (`AppLib.sol:85`), so it is the operator who has to keep it.
  The loop that closes positions is followed by `Closing`, what the loop knows at
  each of its places: a plan is of the balances it was made with, a sale is of
  the collateral of the next debt in line (`PlanOfLoop`, with `NoSale` and
  `LeftoversAreTokens` for plans without one), no debt is larger than when the
  call began. From it follow `LoopEndsShortOnlyWhenStuck` (`ShortOnlyWhenStuck`)
  and, with where each statement leads (`StepLeads`), `CallsMakeProgress`: every
  step of a call lowers `Measure`, five natural numbers in their lexicographic
  order. Balances may go up and down in the loop; what only goes down is the sum
  of the debts, then the token that is sold for the next debt, then the flag
  that balances have changed since the last look. The second repayments of a
  withdraw step go down in the same sum, a rebalance in its recursions. This is
  the argument behind `CallEnds`; that some step is possible at each place, and
  that descents end, is left to TLC. `WithinLimit` in it says that no debt is the
  number that stands for "no limit" (2^256 - 1).
  `WithdrawalLeavesMeansUnlessStuck` is the half of the doc of
  `_makeRequestedAmount` that the code keeps: where the 5% on top count
  (`GapCounts`, a threshold and a hundred units), a withdrawal ends without
  debts or with something to pay them, unless the loop was stuck as above. The
  run `withdrawal_leaves_means` shows why the doc as it stands is too much.
  The proof also found an expression the model had without its failure: the
  estimate of a repay-swap-repay plan divides by zero when all is to end in one
  token and a unit of debt has no collateral (`PlanReverts`).
- `TxSenderProofs`: every transaction ever broadcast for a call bears the nonce
  its process holds, and the chain takes each nonce once. Hence `Once` and
  `ReturnedIsExecuted`, and, with the step of each action mapped to a step or a
  stutter of `CallOnce`, `Refinement` (`ImplementsCallOnce`). The fees do not
  matter for it: a replacement that the network refuses leaves the old one.
- `NsrBotProofs`: the stamps the bot keeps against what really happened. A need
  is never stamped before the last calm look, and `lastNSR` is never older than
  the last executed call, except while its outcome is on the way to the bot or
  was told wrong. From this `NeedConfirmed` (`NeedIsConfirmed`).
- `LiquiditySnapshotProofs`: what was walked is a row of ticks without a gap
  (`NoGap`) that starts where the price is, each with the liquidity of the chain
  (`LiquidityIsRight`, that is `SnapshotIsLiquidity`), since that of neighbours
  differs by the net liquidity of the tick between them (`PoolAssumption`).
- `ScriptsProofs`: what the run `scripts` checks, of `Scripts` with any
  constants. Three results carry a component's theorem over to its instance in
  the union, whose steps are steps of the component while its script runs:
  `SenderImplementsCallOnce`, `NeedConfirmed`, `SnapshotIsRight`. The others
  have invariants of their own.
  `RefusedRests` (`RefusedIsLeftAlone`): an error noted for a strategy is as old
  as its last refusal. `DoneIsWithdrawn` (`DoneMeansWithdrawn`): what the static
  call found holds until a borrow is seen in between. `CounterKeepsPace`
  (`CounterIsTick`): the counter of the sync is the tick of the price, or the
  tick whose edge the last swap stopped at, for any size of a tick and fees up
  to a tenth. `GenerationsComplete` (`GenerationsAreComplete`), for any number
  of workers and crashes: a task is closed and a generation gets offspring only
  when the rows of the database said so, and rows are only added
  (`SearchInv`). `FuseTimeIsRight` (`FuseTimeIsNotOverstated`): the report's
  clock against the true one, second by second (`ClockInv`).
  `HistoryIsReplayable` (`HistoryCanBeReplayed`): while a kind of event is being
  read, the ids noted as used are just those read of it, and every event of it
  older than the last timestamp has been read (`ReadSoFar`); a page begins at
  that timestamp again, so the next page leaves no gap and what it repeats is
  dropped. At the end events are sorted by time, a burn behind the mints of the
  same second (`SortedIsReplayable`).
  `BurnsAreCovered` (`BurnShortOnlyByRounding`): each piece of the snapshot holds
  the shares of all positions in it, less at most one unit for each mint
  (`BurnsInv`). The shares are a sum over positions, the community fold, which
  `SumsUnfold` takes apart; that the shares of the pieces add up to the
  position and grow with it is arithmetic (`SplitAdds`, `ScaledSplit`).
  These two are proofs by induction over data. The theorems of the library cannot
  be used for it, they take an operator as a parameter; `SetInduction` states
  induction with a set in place of the predicate, and follows from a fact about
  finite sets: an injection of a finite set into itself is onto
  (`FS_Injection`).
- `ReleasesProofs`: what the run `releases` checks, of `Releases` with any
  constants.
  `FoundIsTheSource` (`InformationIsTrue`) and `SoundRequestsPass`
  (`SoundIsAccepted`), for all artifacts, deployments, compilers and dictionaries
  of libraries. `MatchSays` says place by place what two codes that match have in
  common; hence the source always matches (`OwnMatches`) and an artifact that
  matches too is one that cannot be told from it (`MatchesLookAlike`). `InformationInv` says what the matches,
  the entries read and the links are at each step of the search. The proof
  found look-alikes the property had forgotten: an artifact that has by chance
  the very value that fills a link or an immutable of the source.
  `OutcomesTrue` (`OutcomesAreTrue`): a run only polls jobs of its own contract,
  and a judged job was judged by what was submitted (`VerificationInv`).
  `NewestLinked`, `FailuresExplained`, `SuccessReady` (`NewestIsLinked`,
  `FailureHasReason`, `SuccessIsReady`), for any set of networks, requests and
  editable contracts and any number of runs, edits and crashes. `ScriptsInv` has
  six parts: where the run is in the order of its scripts (`PlanInv`); what the
  lines passed have left behind (`DoneInv`), those of the script at hand too, and
  what is not there yet since the script has looked (`HereInv`); what a record says
  of the lines up to the one that made it, in whatever run that was (`RecordsInv`);
  that a strategy is deployed, given its proxy and initialised in this order, and
  a run that stops in between leaves a hit (`InitedInv`); `LinkInv`. Of the
  scripts themselves the proof uses `ScriptsAssumption` and nothing else. Four of
  its six parts name no constant, so TLC's evaluation of the assumption settles
  them once and for all; `OrdersFollow` and `OthersAreCalled` are about the
  networks, and the run evaluates them for each chain and, on Polygon, before and
  after scripts are retired, for full runs and each tag alone. Retiring scripts
  leaves their records; what `LinkInv` says of links it says of the scripts that
  still run (`RetireKeeps`), and `RecordsInv`, which does not ask whether a script
  runs, holds as it is.

## 5. What is only model-checked, what is not modelled

Only model-checked, and why:

- `GapLeavesMeans`: what the run adds to `WithdrawalLeavesMeansUnlessStuck`, that
  a strategy which had more than a threshold (`HadMeans`) and ends with healthy
  positions (`AllWorthy`) was not stuck in vain. It depends on the amounts: the
  ratio of collateral to debt that a plan is made with is rounded, and a ratio
  larger than the amount sold makes a planned sale zero. The run has amounts and
  ratios where this does not happen.
- Liveness under fairness (`RebalanceSettles`, `CallEnds`, `NeedIsServed`,
  `DebtIsReduced`, `Ends`, `TaskEnds`), and ENABLED: this prover does not do them.

Left out of the models that there are: the fees and the profit holder; settings
of the governance; approvals, events and re-entrancy guards; the quoting for an
asset that is not the underlying, whose result is a choice in
`ConverterAccounting`; several lending platforms in one borrow; interest within
a sequence of calls of `Positions`; messages of the bots; parameters of deployed
contracts; argument encoding and error texts of the verification plugin. Calls
that revert are not steps, except in `Positions`. Reentrant calls into the
strategy by TetuConverter *during* a repay, which the code allows for
(`onTransferAmounts`), are modelled as calls of their own.

Not modelled at all, and why:

- Strategy profit holder, Algebra, Kyber and Pancake strategies, reader and
  rebalance resolvers: planned (section 6).
- Square-root price maths of the pools: fixed-point arithmetic on 160 bits, of
  which a bounded instance says nothing.
- Balancer boosted strategy: another kind of depositor, last in the plan. Tetu V1
  adapter: no state of its own.
- Rebalance of several splitters (`scripts/`): a predecessor of the bot with the
  same calls, imported by no script. Emergency withdrawal of Kyber and the
  initialisation of Balancer pools: fixed lists of calls made once by hand.
- The other web3 functions: stateless, their condition is that of the bot.
- Splitter tracker, analytics: read events and print tables.
- Deployment of the backtest system, configuration, addresses, test contracts,
  integrations: straight-line set-up, constants, interfaces, vendored code.

The splitter is external: the model takes from it that it covers a returned
loss out of the insurance as far as that goes, and pays to the vault, as
`test/mocks/MockSplitterVault.sol` does. So are the liquidator and the lending
platforms (an outcome within a slippage, limited funds), the subgraph (pages in
the order of timestamps, queries that fail), hardhat-deploy, and the explorer.

## 6. Plan

Done: the contracts' pair strategy on Uniswap V3 from three sides (state of the
pair, accounts, amounts), the off-chain programs around it, and releases.

Left, in this order:

1. `InsuranceDebt` - an abstract specification of the accounts (value, its
   report, the insurance) which `ConverterAccounting` implements by a
   refinement mapping; and `Recycle`, where the shares of rewards are computed.
2. `PairStrategy` - `UniswapV3Strategy` and `ConverterAccounting` composed on
   the joint calls.
3. `KyberFarm`, `PancakeFarm`, `AlgebraFarm` - the staked siblings, refining
   `PoolPosition` too: a position is staked, unstaked or moved between farms at
   every exit; with them the profit holder.
4. `RebalanceResolver` - throttle and failures of the on-chain resolver, with
   the reader's condition.
5. Fuses with equal or zero limits; two-call payments with the converter as a
   component.
