------------------------------ MODULE Scripts ------------------------------
(***************************************************************************)
(* The off-chain programs side by side.  Each is a process that an         *)
(* operator starts by itself, and no two of them share state: a behaviour  *)
(* looks at the one script of its first state, and the variables of the    *)
(* others rest.  Variables of the same name in several modules stand for   *)
(* each of them in turn, except for two that hold a function in one module *)
(* only.                                                                   *)
(*                                                                         *)
(* The constants of a script are the fields of one record: the names are   *)
(* those of the instances below.                                           *)
(***************************************************************************)
EXTENDS Integers, Sequences, FiniteSets, Functions

CONSTANTS
  Running,          \* the scripts looked at
  Calls, Workers,
  SenderInstance,   \* [fees, chainId, wait]
  BotInstance,      \* [strategies, vaults, eligible, between, confirm]
  DebtsInstance,    \* [agg, percents, allowed, forced, delay, report]
  HardWorkInstance, \* [strategies, delay, errorDelay, reverting, throwing]
  WithdrawInstance, \* [units, cap, debt, leftover, borrows]
  SearchInstance,   \* [spacing, range, rebalance, gens, individuals, best, results, crashes]
  HistoryInstance,  \* [chains, end, page, runs]
  SnapshotInstance, \* [ticks, spacing, surrounding, pools]
  BurnsInstance,    \* [ranges, amounts, lo, hi, txs, limit, debts, delay, gap]
  ClockInstance,    \* the same
  SyncInstance      \* [units, first, last, fee, min, max]

VARIABLES
  script,
  \* RunHelper
  baseFee, nextNonce, mined, network, node, callPhase, opts, tx, count,
  \* several of the scripts
  pc, at, paused, phase, i,
  \* the rebalance bot, and the debts it reduces
  need, stray, sent, sinceNSR, needFor, sinceCalm, sinceAny, untold,
  state, seen, call, lastFuse,
  \* hard work, full withdrawal
  sinceHW, sinceError, refused,
  unit, debt, reverse, leftover, amount, completed, borrows, late,
  \* the backtester: workers, history, snapshot, replay, sync
  results, taskDone, workerPc, gen, params, row, crashes, exhausted,
  chain, lastTimestamp, usedTxIds, r, cache, runs, missed,
  pool, previous, processed,
  pos, startBlock, liq, time, previousTimestamp, fuse, withdrawDone, timeOnFuse,
  lastFuseTimestamp, lastNSRTimestamp, rebalancesDebt, rebalancesDebtDelayed,
  rebalancesDebtClosing, minted, startReplayed, shortfall, trueFuse, lastCheck, switchedOff,
  price, target, up, tickI

senderVars == <<baseFee, nextNonce, mined, network, node, callPhase, opts, tx, count>>
botVars == <<need, stray, sent, sinceNSR, needFor, sinceCalm, sinceAny, untold>>
debtVars == <<state, seen, call, lastFuse>>
hardWorkVars == <<sinceHW, sinceError, refused>>
withdrawVars == <<unit, debt, reverse, leftover, amount, completed, borrows, late>>
workerVars == <<results, taskDone, workerPc, gen, params, row, crashes, exhausted>>
historyVars == <<chain, lastTimestamp, usedTxIds, r, cache, runs, missed>>
snapshotVars == <<pool, previous, processed>>
replayVars ==
  <<pos, startBlock, liq, time, previousTimestamp, fuse, withdrawDone, timeOnFuse,
    lastFuseTimestamp, lastNSRTimestamp, rebalancesDebt, rebalancesDebtDelayed,
    rebalancesDebtClosing, minted, startReplayed, shortfall, trueFuse, lastCheck, switchedOff>>
syncVars == <<price, target, up, tickI>>
vars == <<script, pc, at, paused, phase, i, senderVars, botVars, debtVars, hardWorkVars,
          withdrawVars, workerVars, historyVars, snapshotVars, replayVars, syncVars>>

-----------------------------------------------------------------------------
(* The instances *)

sender == INSTANCE TxSender WITH phase <- callPhase,
  BaseFees <- SenderInstance.fees, ChainId <- SenderInstance.chainId, WaitCycles <- SenderInstance.wait

bot == INSTANCE NsrBot WITH
  Strategies <- BotInstance.strategies, VaultStarts <- BotInstance.vaults, Eligible <- BotInstance.eligible,
  BetweenNSRs <- BotInstance.between, NeedConfirm <- BotInstance.confirm

debts == INSTANCE DebtReduction WITH
  Agg <- DebtsInstance.agg, MaxPercent <- DebtsInstance.percents, Allowed <- DebtsInstance.allowed,
  Forced <- DebtsInstance.forced, Delay <- DebtsInstance.delay, ReportEvery <- DebtsInstance.report

hardWork == INSTANCE HardWorkLoop WITH
  Strategies <- HardWorkInstance.strategies, HwDelay <- HardWorkInstance.delay,
  ErrorDelay <- HardWorkInstance.errorDelay,
  Reverting <- HardWorkInstance.reverting, Throwing <- HardWorkInstance.throwing

withdraw == INSTANCE FullWithdraw WITH
  Units <- WithdrawInstance.units, MaxAmountToSwap <- WithdrawInstance.cap, MaxDebt <- WithdrawInstance.debt,
  MaxLeftover <- WithdrawInstance.leftover, MaxBorrows <- WithdrawInstance.borrows

search == INSTANCE BacktestWorkers WITH pc <- workerPc,
  TickSpacing <- SearchInstance.spacing, MaxTickRange <- SearchInstance.range,
  MaxRebalanceTickRange <- SearchInstance.rebalance, Gens <- SearchInstance.gens,
  MinIndividuals <- SearchInstance.individuals, BestIndividuals <- SearchInstance.best,
  MaxResults <- SearchInstance.results, MaxCrashes <- SearchInstance.crashes

history == INSTANCE PoolHistory WITH
  Chains <- HistoryInstance.chains, EndTime <- HistoryInstance.end,
  PageSize <- HistoryInstance.page, MaxRuns <- HistoryInstance.runs

snapshot == INSTANCE LiquiditySnapshot WITH
  Ticks <- SnapshotInstance.ticks, TickSpacing <- SnapshotInstance.spacing,
  NumSurroundingTicks <- SnapshotInstance.surrounding, Pools <- SnapshotInstance.pools

burns == INSTANCE BacktestReplay WITH
  Ranges <- BurnsInstance.ranges, Amounts <- BurnsInstance.amounts,
  Lo <- BurnsInstance.lo, Hi <- BurnsInstance.hi,
  TxCount <- BurnsInstance.txs, TxLimit <- BurnsInstance.limit,
  RebalanceDebt <- BurnsInstance.debts, DebtDelay <- BurnsInstance.delay, MaxGap <- BurnsInstance.gap

clock == INSTANCE BacktestReplay WITH
  Ranges <- ClockInstance.ranges, Amounts <- ClockInstance.amounts,
  Lo <- ClockInstance.lo, Hi <- ClockInstance.hi,
  TxCount <- ClockInstance.txs, TxLimit <- ClockInstance.limit,
  RebalanceDebt <- ClockInstance.debts, DebtDelay <- ClockInstance.delay, MaxGap <- ClockInstance.gap

sync == INSTANCE PoolSync WITH
  TickUnits <- SyncInstance.units, First <- SyncInstance.first, Last <- SyncInstance.last,
  FeePercent <- SyncInstance.fee, MinTick <- SyncInstance.min, MaxTick <- SyncInstance.max

ASSUME ScriptAssumptions ==
  /\ sender!FeeAssumption /\ bot!BotAssumption /\ debts!DebtAssumption
  /\ hardWork!HardWorkAssumption /\ withdraw!WithdrawAssumption /\ search!ConfigAssumption
  /\ history!PageSizeAssumption /\ history!ChainsAssumption /\ snapshot!SpacingAssumption /\ snapshot!PoolAssumption
  /\ burns!ReplayAssumption /\ clock!ReplayAssumption
  /\ sync!UnitsAssumption /\ sync!TicksAssumption

-----------------------------------------------------------------------------
Off == 0

SenderRests ==
  /\ baseFee = 1 /\ nextNonce = 0 /\ mined = {} /\ network = {} /\ node = {}
  /\ callPhase = [c \in Calls |-> "new"]
  /\ opts = [c \in Calls |-> Off] /\ tx = [c \in Calls |-> Off] /\ count = Off
BotRests ==
  /\ need = [s \in Range(BotInstance.strategies) |-> FALSE] /\ stray = Off /\ sent = "none" /\ sinceNSR = Off /\ needFor = Off
  /\ sinceCalm = Off /\ sinceAny = Off /\ untold = Off
DebtRests ==
  /\ state = [fuse |-> FALSE, need |-> FALSE, percent |-> 0, done |-> FALSE, sinceNsr |-> 0]
  /\ seen = Off /\ call = Off /\ lastFuse = Off
HardWorkRests == sinceHW = Off /\ sinceError = Off /\ refused = Off
WithdrawRests ==
  /\ unit = Off /\ debt = Off /\ reverse = Off /\ leftover = Off /\ amount = Off
  /\ completed = Off /\ borrows = Off /\ late = Off
WorkersRest ==
  /\ results = Off /\ taskDone = FALSE /\ workerPc = Off /\ gen = Off
  /\ params = Off /\ row = Off /\ crashes = Off /\ exhausted = Off
HistoryRests ==
  /\ chain = Off /\ lastTimestamp = Off /\ usedTxIds = Off /\ r = Off
  /\ cache = Off /\ runs = Off /\ missed = Off
SnapshotRests == pool = Off /\ previous = Off /\ processed = Off
ReplayRests ==
  /\ pos = Off /\ startBlock = Off /\ liq = Off /\ time = Off /\ previousTimestamp = Off
  /\ fuse = Off /\ withdrawDone = Off /\ timeOnFuse = Off /\ lastFuseTimestamp = Off
  /\ lastNSRTimestamp = Off /\ rebalancesDebt = Off /\ rebalancesDebtDelayed = Off
  /\ rebalancesDebtClosing = Off /\ minted = Off /\ startReplayed = Off /\ shortfall = Off
  /\ trueFuse = Off /\ lastCheck = Off /\ switchedOff = Off
SyncRests == price = Off /\ target = Off /\ up = Off /\ tickI = Off

Init ==
  /\ script \in Running
  /\ IF script = "sender" THEN sender!Init ELSE SenderRests
  /\ IF script = "bot" THEN bot!Init ELSE BotRests
  /\ IF script = "debts" THEN debts!Init ELSE DebtRests
  /\ IF script = "hardWork" THEN hardWork!Init ELSE HardWorkRests
  /\ IF script = "withdraw" THEN withdraw!Init ELSE WithdrawRests
  /\ IF script = "search" THEN search!Init ELSE WorkersRest
  /\ IF script = "history" THEN history!Init ELSE HistoryRests
  /\ IF script = "snapshot" THEN snapshot!Init ELSE SnapshotRests
  /\ IF script = "burns" THEN burns!Init
     ELSE IF script = "clock" THEN clock!Init ELSE ReplayRests
  /\ IF script = "sync" THEN sync!Init ELSE SyncRests
  /\ script \notin {"bot", "debts", "hardWork", "withdraw"} => pc = "off"
  /\ script \notin {"bot", "hardWork"} => at = Off /\ paused = Off
  /\ script \notin {"history", "snapshot", "burns", "clock", "sync"} => phase = "off"
  /\ script \notin {"snapshot", "burns", "clock"} => i = Off

\* A script takes a step: it is the one looked at, and the others rest.
BacktesterRests ==
  UNCHANGED <<workerVars, historyVars, snapshotVars, replayVars, syncVars, phase, i>>
BotsRest == UNCHANGED <<senderVars, botVars, debtVars, hardWorkVars, withdrawVars, pc, at, paused>>

InSender ==
  /\ script = "sender" /\ BacktesterRests
  /\ UNCHANGED <<script, botVars, debtVars, hardWorkVars, withdrawVars, pc, at, paused>>
InBot ==
  /\ script = "bot" /\ BacktesterRests
  /\ UNCHANGED <<script, senderVars, debtVars, hardWorkVars, withdrawVars>>
InDebts ==
  /\ script = "debts" /\ BacktesterRests
  /\ UNCHANGED <<script, senderVars, botVars, hardWorkVars, withdrawVars, at, paused>>
InHardWork ==
  /\ script = "hardWork" /\ BacktesterRests
  /\ UNCHANGED <<script, senderVars, botVars, debtVars, withdrawVars>>
InWithdraw ==
  /\ script = "withdraw" /\ BacktesterRests
  /\ UNCHANGED <<script, senderVars, botVars, debtVars, hardWorkVars, at, paused>>
InSearch ==
  /\ script = "search" /\ BotsRest
  /\ UNCHANGED <<script, historyVars, snapshotVars, replayVars, syncVars, phase, i>>
InHistory ==
  /\ script = "history" /\ BotsRest
  /\ UNCHANGED <<script, workerVars, snapshotVars, replayVars, syncVars, i>>
InSnapshot ==
  /\ script = "snapshot" /\ BotsRest
  /\ UNCHANGED <<script, workerVars, historyVars, replayVars, syncVars>>
InReplay ==
  /\ script \in {"burns", "clock"} /\ BotsRest
  /\ UNCHANGED <<script, workerVars, historyVars, snapshotVars, syncVars>>
InSync ==
  /\ script = "sync" /\ BotsRest
  /\ UNCHANGED <<script, workerVars, historyVars, snapshotVars, replayVars, i>>

Next ==
  \/ InSender /\ sender!Next
  \/ InBot /\ bot!Next
  \/ InDebts /\ debts!Next
  \/ InHardWork /\ hardWork!Next
  \/ InWithdraw /\ withdraw!Next
  \/ InSearch /\ search!Next
  \/ InHistory /\ history!Next
  \/ InSnapshot /\ snapshot!Next
  \/ InReplay /\ script = "burns" /\ burns!Next
  \/ InReplay /\ script = "clock" /\ clock!Next
  \/ InSync /\ sync!Next

Spec == Init /\ [][Next]_vars

-----------------------------------------------------------------------------
\* RunHelper: each call is executed at most once, and its script told the truth.
ImplementsCallOnce == sender!ImplementsCallOnce

\* rebalance.ts: a call for each confirmed need only, and calls kept apart.
NeedIsConfirmed == bot!NeedIsConfirmed

\* splitter-hardwork.ts: eight hours of rest after an error.
RefusedIsLeftAlone == hardWork!RefusedIsLeftAlone

\* WithdrawAllByAggUtils.ts: an end without an error leaves nothing behind.
DoneMeansWithdrawn == withdraw!DoneMeansWithdrawn

\* uniswapV3Backtester: generations are filled in their order.
GenerationsAreComplete == script = "search" => search!GenerationsAreComplete

\* getPoolTransactions: nothing lost, doubled or out of order.
HistoryCanBeReplayed == script = "history" => history!HistoryCanBeReplayed

\* getPoolLiquiditySnapshot: the liquidity of every tick is that of the chain.
SnapshotIsLiquidity == script = "snapshot" => snapshot!SnapshotIsLiquidity

\* strategyBacktest: a burn finds the liquidity its mints brought.
BurnShortOnlyByRounding == script = "burns" => burns!BurnShortOnlyByRounding

\* strategyBacktest: the time on fuse of the report.
FuseTimeIsNotOverstated == script = "clock" => clock!FuseTimeIsNotOverstated

\* strategyBacktest: the sync of the two pools keeps count of the ticks.
CounterIsTick == script = "sync" => sync!CounterIsTick
=============================================================================
