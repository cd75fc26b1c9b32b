---------------------------- MODULE ScriptsProofs ----------------------------
(***************************************************************************)
(* Proofs about the off-chain programs, for every instance of each: any    *)
(* strategies, delays, calls, workers, pools and amounts.  One script runs *)
(* in a behaviour, so each result has the same form: its invariant holds   *)
(* while that script runs, and the steps of Scripts are then steps of its  *)
(* instance.  Where a component has proofs of its own (TxSenderProofs,     *)
(* NsrBotProofs, LiquiditySnapshotProofs) their module is instantiated     *)
(* with the same parameters and its theorem carried over.  The history of  *)
(* a pool and the sums of liquidity need induction: it is stated here with *)
(* a set in place of a predicate.                                          *)
(***************************************************************************)
EXTENDS Scripts, FiniteSetTheorems, TLAPS

\* One script runs in a behaviour, to its end.
LEMMA ScriptStays == ASSUME [Next]_vars PROVE script' = script
  BY DEF Next, InSender, InBot, InDebts, InHardWork, InWithdraw, InSearch, InHistory, InSnapshot, InReplay, InSync, vars

\* Scripts at work use names of their own for where they are.
PlacesAreOwn ==
  /\ script # "hardWork" => pc # "visit"
  /\ script # "withdraw" => pc # "done"

LEMMA PlacesInit == ASSUME Init PROVE PlacesAreOwn
  BY DEF Init, PlacesAreOwn, bot!Init, debts!Init, hardWork!Init, withdraw!Init

LEMMA PlacesStep == ASSUME PlacesAreOwn, [Next]_vars PROVE PlacesAreOwn'
<1>1. CASE InBot /\ bot!Next
  BY <1>1 DEF InBot, PlacesAreOwn, bot!Next, bot!BotStep, bot!HardWork, bot!LookFails, bot!Look, bot!Estimate,
     bot!Returned,
    bot!Thrown, bot!Rest, bot!Debt, bot!Sleep, bot!Execute, bot!Tick, bot!ExecuteStray, bot!MarketMove,
       bot!Pause, bot!NextStrategy,
    bot!bot
<1>2. CASE InDebts /\ debts!Next
  BY <1>2 DEF InDebts, PlacesAreOwn, debts!Next, debts!BotStep, debts!Look, debts!Inspect, debts!NoQuote,
     debts!Quote, debts!Send,
    debts!SendFails, debts!Sleep, debts!VisitFails, debts!NeedArises, debts!Rebalance, debts!Tick
<1>3. CASE InHardWork /\ hardWork!Next
  BY <1>3 DEF InHardWork, PlacesAreOwn, hardWork!Next, hardWork!BotStep, hardWork!Skip, hardWork!ReadyThrows,
     hardWork!Attempt,
    hardWork!EstimateFails, hardWork!Work, hardWork!WorkLost, hardWork!Sleep, hardWork!Pause, hardWork!GoOn,
       hardWork!EndPass
<1>4. CASE InWithdraw /\ withdraw!Next
  BY <1>4 DEF InWithdraw, PlacesAreOwn, withdraw!Next, withdraw!Go, withdraw!Quote, withdraw!Static,
     withdraw!Send, withdraw!Check,
    withdraw!Fail, withdraw!Borrow
<1>5. CASE pc' = pc /\ script' = script
  BY <1>5 DEF PlacesAreOwn
<1>6. QED
  BY <1>1, <1>2, <1>3, <1>4, <1>5 DEF Next, InSender, InSearch, InHistory, InSnapshot, InReplay, InSync, BotsRest, vars

-----------------------------------------------------------------------------
(* Hard work *)

\* An error is noted in LAST_ERRORS whenever a hard work is refused: the note is never
\* older than the refusal.
RefusalsAreNoted ==
  /\ sinceError \in [hardWork!Strategy -> 0..hardWork!Horizon]
  /\ refused \in [hardWork!Strategy -> 0..hardWork!Horizon]
  /\ \A s \in hardWork!Strategy : sinceError[s] <= refused[s]

HardWorkInv == PlacesAreOwn /\ (script = "hardWork" => RefusalsAreNoted)

LEMMA HardWorkAges ==
  /\ hardWork!Horizon \in Nat
  /\ \A a, b \in 0..hardWork!Horizon :
       /\ hardWork!Older(a) \in 0..hardWork!Horizon
       /\ a <= b => hardWork!Older(a) <= hardWork!Older(b)
<1>1. hardWork!Horizon \in Nat
  BY ScriptAssumptions DEF hardWork!HardWorkAssumption, hardWork!Horizon
<1>2. QED
  BY <1>1 DEF hardWork!Older

LEMMA HardWorkStep ==
  ASSUME script = "hardWork", [Next]_vars
  PROVE  [hardWork!Next]_(hardWork!vars)
  BY DEF Next, InSender, InBot, InDebts, InHardWork, InWithdraw, InSearch, InHistory, InSnapshot, InReplay, InSync,
         vars, hardWork!vars, hardWorkVars

LEMMA HardWorkInit == ASSUME Init PROVE HardWorkInv
<1>1. script = "hardWork" => RefusalsAreNoted
  BY HardWorkAges DEF Init, hardWork!Init, RefusalsAreNoted
<1>2. QED
  BY <1>1, PlacesInit DEF HardWorkInv

LEMMA RefusalsStayNoted ==
  ASSUME RefusalsAreNoted, [hardWork!Next]_(hardWork!vars)
  PROVE  RefusalsAreNoted'
<1> USE DEF RefusalsAreNoted
<1>1. CASE UNCHANGED <<sinceError, refused>>
  BY <1>1 DEF hardWork!Horizon
<1>2. CASE hardWork!EstimateFails
  <2> DEFINE h == hardWork!Here
  <2>1. sinceError' = [sinceError EXCEPT ![h] = 0] /\ refused' = [refused EXCEPT ![h] = 0]
    BY <1>2 DEF hardWork!EstimateFails
  <2> HIDE DEF h
  <2> DEFINE S == hardWork!Strategy
             H == hardWork!Horizon
  <2>2. sinceError \in [S -> 0..H] /\ refused \in [S -> 0..H] /\ \A s \in S : sinceError[s] <= refused[s]
    OBVIOUS
  <2>3. H \in Nat /\ 0 \in 0..H
    BY HardWorkAges
  <2> HIDE DEF S, H, RefusalsAreNoted
  <2>4. /\ sinceError' \in [S -> 0..H] /\ refused' \in [S -> 0..H]
        /\ \A s \in S : sinceError'[s] <= refused'[s]
    <3>1. sinceError' \in [S -> 0..H] /\ refused' \in [S -> 0..H]
      BY <2>1, <2>2, <2>3
    <3>2. ASSUME NEW s \in S PROVE sinceError'[s] <= refused'[s]
      <4>1. CASE s = h
        BY <2>1, <2>2, <4>1
      <4>2. CASE s # h
        BY <2>1, <2>2, <4>2
      <4>3. QED
        BY <4>1, <4>2
    <3>3. QED
      BY <3>1, <3>2
  <2>5. QED
    BY <2>4 DEF S, H, RefusalsAreNoted, hardWork!Horizon, hardWork!Strategy
<1>3. CASE hardWork!Sleep
  <2>1. /\ sinceError' = [s \in hardWork!Strategy |-> hardWork!Older(sinceError[s])]
        /\ refused' = [s \in hardWork!Strategy |-> hardWork!Older(refused[s])]
    BY <1>3 DEF hardWork!Sleep
  <2>2. QED
    BY <2>1, HardWorkAges
<1>4. QED
  BY <1>1, <1>2, <1>3 DEF hardWork!Next, hardWork!BotStep, hardWork!Skip, hardWork!ReadyThrows, hardWork!Attempt,
     hardWork!Work, hardWork!WorkLost, hardWork!Pause, hardWork!vars

LEMMA HardWorkKeeps == ASSUME HardWorkInv, [Next]_vars PROVE HardWorkInv'
<1>1. CASE script = "hardWork"
  BY <1>1, HardWorkStep, RefusalsStayNoted, PlacesStep DEF HardWorkInv
<1>2. CASE script # "hardWork"
  BY <1>2, ScriptStays, PlacesStep DEF HardWorkInv
<1>3. QED
  BY <1>1, <1>2

\* THEOREM.  splitterHardWork never calls a strategy again within eight hours of a
\* refusal, whatever the delays, the strategies that revert or throw, and the pauses.
THEOREM RefusedRests == Spec => RefusedIsLeftAlone
<1>1. ASSUME HardWorkInv, [Next]_vars
      PROVE  [\A s \in hardWork!Strategy : hardWork!Attempt /\ hardWork!Here = s =>
                                             refused[s] > HardWorkInstance.errorDelay]_(hardWork!vars)
  <2> SUFFICES ASSUME NEW s \in hardWork!Strategy, hardWork!Attempt, hardWork!Here = s
               PROVE  refused[s] > HardWorkInstance.errorDelay
    OBVIOUS
  <2>1. RefusalsAreNoted
    BY <1>1 DEF HardWorkInv, PlacesAreOwn, hardWork!Attempt
  <2>2. sinceError[s] > HardWorkInstance.errorDelay
    BY DEF hardWork!Attempt, hardWork!Due
  <2>3. HardWorkInstance.errorDelay \in Nat
    BY ScriptAssumptions DEF hardWork!HardWorkAssumption
  <2>4. sinceError[s] \in Int /\ refused[s] \in Int /\ sinceError[s] <= refused[s]
    BY <2>1, HardWorkAges DEF RefusalsAreNoted
  <2>5. QED
    BY <2>2, <2>3, <2>4
<1>2. QED
  BY HardWorkInit, HardWorkKeeps, <1>1, PTL DEF Spec, RefusedIsLeftAlone, hardWork!RefusedIsLeftAlone

-----------------------------------------------------------------------------
(* Full withdrawal *)

\* What the static call found stays so until another opens a debt.
FoundStaysSo == pc \in {"send", "check"} /\ completed => debt = 0 \/ late

WithdrawInv == PlacesAreOwn /\ (script = "withdraw" => FoundStaysSo)

LEMMA WithdrawStep ==
  ASSUME script = "withdraw", [Next]_vars
  PROVE  [withdraw!Next]_(withdraw!vars)
  BY DEF Next, InSender, InBot, InDebts, InHardWork, InWithdraw, InSearch, InHistory, InSnapshot, InReplay, InSync,
         vars, withdraw!vars, withdrawVars, withdraw!bounds

LEMMA WithdrawKeeps == ASSUME WithdrawInv, [Next]_vars PROVE WithdrawInv'
<1>1. ASSUME script = "withdraw" PROVE FoundStaysSo'
  <2>1. [withdraw!Next]_(withdraw!vars) /\ FoundStaysSo
    BY <1>1, WithdrawStep DEF WithdrawInv
  <2>2. CASE withdraw!Send
    <3>1. pc = "send" /\ late' = late /\ completed' = completed /\ (~(debt > 0) => debt' = debt)
      BY <2>2 DEF withdraw!Send, withdraw!bounds
    <3>2. debt = 0 => ~(debt > 0)
      OBVIOUS
    <3>3. QED
      BY <2>1, <3>1, <3>2, Zenon DEF FoundStaysSo
  <2>3. CASE withdraw!Static
    BY <2>3, Zenon DEF withdraw!Static, FoundStaysSo
  <2>4. CASE withdraw!Quote \/ withdraw!Check \/ withdraw!Fail
    BY <2>4 DEF withdraw!Quote, withdraw!Check, withdraw!Fail, FoundStaysSo
  <2>5. CASE withdraw!Borrow
    BY <2>5 DEF withdraw!Borrow, FoundStaysSo
  <2>6. CASE UNCHANGED withdraw!vars
    BY <2>1, <2>6 DEF withdraw!vars, withdraw!bounds, FoundStaysSo
  <2>7. QED
    BY <2>1, <2>2, <2>3, <2>4, <2>5, <2>6 DEF withdraw!Next, withdraw!Go
<1>2. QED
  BY <1>1, ScriptStays, PlacesStep DEF WithdrawInv

\* THEOREM.  A full withdrawal that ends without an error leaves no debt but one opened
\* after the last static call, and no more than one other token, whatever the cap of
\* the swaps, the amounts and the decimals.
THEOREM DoneIsWithdrawn == Spec => DoneMeansWithdrawn
<1>1. Init => WithdrawInv
  BY PlacesInit DEF WithdrawInv, FoundStaysSo, Init, withdraw!Init
<1>2. WithdrawInv /\ [Next]_vars => WithdrawInv'
  BY WithdrawKeeps
<1>3. WithdrawInv /\ [Next]_vars =>
        [pc' = "done" /\ pc # "done" => leftover <= unit.token /\ (debt = 0 \/ late)]_(withdraw!vars)
  <2> SUFFICES ASSUME WithdrawInv, [Next]_vars, pc' = "done", pc # "done"
               PROVE  leftover <= unit.token /\ (debt = 0 \/ late)
    OBVIOUS
  <2>1. script = "withdraw"
    BY WithdrawKeeps, ScriptStays DEF WithdrawInv, PlacesAreOwn
  <2>2. withdraw!Check
    BY <2>1, WithdrawStep DEF withdraw!Next, withdraw!Go, withdraw!Quote, withdraw!Static, withdraw!Send, withdraw!Fail,
       withdraw!Borrow, withdraw!vars, withdraw!bounds
  <2>3. QED
    BY <2>1, <2>2 DEF withdraw!Check, withdraw!IsCompleted, WithdrawInv, FoundStaysSo
<1>4. QED
  BY <1>1, <1>2, <1>3, PTL DEF Spec, DoneMeansWithdrawn, withdraw!DoneMeansWithdrawn

-----------------------------------------------------------------------------
(* The rebalance bot: what NsrBotProofs shows of NsrBot, of this instance *)

botProofs == INSTANCE NsrBotProofs WITH
  Strategies <- BotInstance.strategies, VaultStarts <- BotInstance.vaults, Eligible <- BotInstance.eligible,
  BetweenNSRs <- BotInstance.between, NeedConfirm <- BotInstance.confirm

LEMMA BotIsBot ==
  /\ bot!Init <=> botProofs!Init
  /\ bot!Next <=> botProofs!Next
  /\ bot!BotAssumption <=> botProofs!BotAssumption
  /\ UNCHANGED bot!vars <=> UNCHANGED botProofs!vars
  /\ bot!Here = botProofs!Here
<1>1. bot!Init <=> botProofs!Init
  BY DEF bot!Init, bot!Strategy, bot!Horizon, bot!Unset, bot!Range, botProofs!Init, botProofs!Strategy,
     botProofs!Horizon, botProofs!Unset, botProofs!Range
<1>2. bot!BotAssumption <=> botProofs!BotAssumption
  BY DEF bot!BotAssumption, bot!Strategy, bot!Range, botProofs!BotAssumption, botProofs!Strategy, botProofs!Range
<1>3. bot!Next <=> botProofs!Next
  BY DEF bot!Next, bot!BotStep, bot!HardWork, bot!LookFails, bot!Look, bot!Estimate, bot!Returned, bot!Thrown, bot!Rest,
     bot!Debt, bot!Sleep, bot!Execute, bot!Tick, bot!ExecuteStray, bot!MarketMove, bot!Pause, bot!NextStrategy,
     bot!IsEligible, bot!NeedSince, bot!Here, bot!Older, bot!Horizon, bot!Unset, bot!Strategy, bot!chain, bot!bot,
     bot!history, bot!Range, botProofs!Next, botProofs!BotStep, botProofs!HardWork, botProofs!LookFails,
     botProofs!Look, botProofs!Estimate, botProofs!Returned, botProofs!Thrown, botProofs!Rest, botProofs!Debt,
     botProofs!Sleep, botProofs!Execute, botProofs!Tick, botProofs!ExecuteStray, botProofs!MarketMove,
     botProofs!Pause, botProofs!NextStrategy, botProofs!IsEligible, botProofs!NeedSince, botProofs!Here,
     botProofs!Older, botProofs!Horizon, botProofs!Unset, botProofs!Strategy, botProofs!chain, botProofs!bot,
     botProofs!history, botProofs!Range
<1>4. (UNCHANGED bot!vars <=> UNCHANGED botProofs!vars) /\ bot!Here = botProofs!Here
  BY DEF bot!vars, bot!chain, bot!bot, bot!history, bot!Here, botProofs!vars, botProofs!chain, botProofs!bot,
     botProofs!history, botProofs!Here
<1>5. QED
  BY <1>1, <1>2, <1>3, <1>4

LEMMA BotStep ==
  ASSUME script = "bot", [Next]_vars
  PROVE  [bot!Next]_(bot!vars)
  BY DEF Next, InSender, InBot, InDebts, InHardWork, InWithdraw, InSearch, InHistory, InSnapshot, InReplay,
     InSync, BotsRest, BacktesterRests, vars, botVars, bot!vars, bot!chain, bot!bot, bot!history

\* THEOREM.  rebalance.ts calls a rebalance only after a need that lasted, and not soon
\* after another call, for any strategies and delays.
THEOREM NeedConfirmed == Spec => NeedIsConfirmed
<1> DEFINE BotRuns == script = "bot"
           Silent == sent = "none"
           Confirmed == sent' = "sent" /\ sent = "none" =>
                          /\ sinceCalm[bot!Here] > BotInstance.confirm
                          /\ untold \/ sinceAny > BotInstance.between
           ConfirmedAsProved == sent' = "sent" /\ sent = "none" =>
                          /\ sinceCalm[botProofs!Here] > BotInstance.confirm
                          /\ untold \/ sinceAny > BotInstance.between
<1>1. botProofs!Spec => [][ConfirmedAsProved]_(botProofs!vars)
  BY botProofs!NeedConfirmed, BotIsBot, ScriptAssumptions DEF botProofs!NeedIsConfirmed
<1>2. BotRuns /\ Init => botProofs!Init
  BY BotIsBot DEF Init
<1>3. BotRuns /\ [Next]_vars => BotRuns' /\ [botProofs!Next]_(botProofs!vars)
  BY BotIsBot, BotStep, ScriptStays
<1>4. [ConfirmedAsProved]_(botProofs!vars) => [Confirmed]_(bot!vars)
  BY BotIsBot
<1>5. Init /\ ~BotRuns => Silent
  BY DEF Init, BotRests
<1>6. ~BotRuns /\ [Next]_vars => ~BotRuns'
  BY ScriptStays
<1>7. ~BotRuns /\ Silent /\ [Next]_vars => Silent'
  BY DEF Next, InSender, InBot, InDebts, InHardWork, InWithdraw, InSearch, InHistory, InSnapshot, InReplay, InSync,
     BotsRest, vars, botVars
<1>8. Silent /\ Silent' => [Confirmed]_(bot!vars)
  OBVIOUS
<1>9. Spec => [][Confirmed]_(bot!vars)
  <2> HIDE DEF Confirmed, ConfirmedAsProved, BotRuns, Silent
  <2>1. QED
    BY <1>1, <1>2, <1>3, <1>4, <1>5, <1>6, <1>7, <1>8, PTL DEF Spec, botProofs!Spec
<1>10. QED
  BY <1>9, PTL DEF NeedIsConfirmed, bot!NeedIsConfirmed

-----------------------------------------------------------------------------
(* RunHelper: what TxSenderProofs shows of TxSender, of this instance *)

senderProofs == INSTANCE TxSenderProofs WITH phase <- callPhase,
  BaseFees <- SenderInstance.fees, ChainId <- SenderInstance.chainId, WaitCycles <- SenderInstance.wait

LEMMA SenderIsSender ==
  /\ sender!Init <=> senderProofs!Init
  /\ sender!Next <=> senderProofs!Next
  /\ sender!FeeAssumption <=> senderProofs!FeeAssumption
  /\ UNCHANGED sender!vars <=> UNCHANGED senderProofs!vars
<1>1. sender!Init <=> senderProofs!Init
  BY DEF sender!Init, sender!Options, sender!Txs, sender!Phases, senderProofs!Init, senderProofs!Options,
     senderProofs!Txs, senderProofs!Phases
<1>2. sender!FeeAssumption <=> senderProofs!FeeAssumption
  BY DEF sender!FeeAssumption, senderProofs!FeeAssumption
<1>3. sender!Next <=> senderProofs!Next
  BY DEF sender!Next, sender!Process, sender!Prepare, sender!Send, sender!Wait, sender!Poll, sender!Confirm,
     sender!SpeedUp, sender!Resend, sender!AwaitReceipt, sender!Mine, sender!MarketMove, sender!Drop, sender!Goto,
     sender!Fail, sender!FailSwallowed, sender!TxParams, sender!FeeData, sender!Larger, sender!Replacement,
     sender!BlockGasLimitKnown, sender!Accepts, sender!Broadcast, sender!Outbids, sender!PendingNonces,
     sender!IsMined, sender!Succeeded, sender!Reverted, sender!Options, sender!Txs, sender!Phases, sender!Ended,
     sender!chainVars, senderProofs!Next, senderProofs!Process, senderProofs!Prepare, senderProofs!Send,
     senderProofs!Wait, senderProofs!Poll, senderProofs!Confirm, senderProofs!SpeedUp, senderProofs!Resend,
     senderProofs!AwaitReceipt, senderProofs!Mine, senderProofs!MarketMove, senderProofs!Drop, senderProofs!Goto,
     senderProofs!Fail, senderProofs!FailSwallowed, senderProofs!TxParams, senderProofs!FeeData,
     senderProofs!Larger, senderProofs!Replacement, senderProofs!BlockGasLimitKnown, senderProofs!Accepts,
     senderProofs!Broadcast, senderProofs!Outbids, senderProofs!PendingNonces, senderProofs!IsMined,
     senderProofs!Succeeded, senderProofs!Reverted, senderProofs!Options, senderProofs!Txs, senderProofs!Phases,
     senderProofs!Ended, senderProofs!chainVars
<1>4. UNCHANGED sender!vars <=> UNCHANGED senderProofs!vars
  BY DEF sender!vars, sender!chainVars, senderProofs!vars, senderProofs!chainVars
<1>5. QED
  BY <1>1, <1>2, <1>3, <1>4

LEMMA SenderStep ==
  ASSUME script = "sender", [Next]_vars
  PROVE  [sender!Next]_(sender!vars)
  BY DEF Next, InSender, InBot, InDebts, InHardWork, InWithdraw, InSearch, InHistory, InSnapshot, InReplay,
     InSync, BotsRest, BacktesterRests, vars, senderVars, sender!vars, sender!chainVars

\* THEOREM.  RunHelper, with its speed-ups and errors, does what CallOnce promises, for any
\* calls, base fees, network and number of polls.
THEOREM SenderImplementsCallOnce == Spec => ImplementsCallOnce
<1> DEFINE SenderRuns == script = "sender"
           Outcomes == [c \in Calls |-> sender!Outcome(c)]
           Told == [c \in Calls |-> sender!Told(c)]
           ProvedOutcomes == [c \in Calls |-> senderProofs!Outcome(c)]
           ProvedTold == [c \in Calls |-> senderProofs!Told(c)]
<1>1. senderProofs!Spec =>
        senderProofs!Abstract!Init /\ [][senderProofs!Abstract!Next]_<<ProvedOutcomes, ProvedTold>>
  BY senderProofs!Refinement, SenderIsSender, ScriptAssumptions, PTL
     DEF senderProofs!ImplementsCallOnce, senderProofs!Abstract!Spec
<1>2. SenderRuns /\ Init => senderProofs!Init
  BY SenderIsSender DEF Init
<1>3. SenderRuns /\ [Next]_vars => SenderRuns' /\ [senderProofs!Next]_(senderProofs!vars)
  BY SenderIsSender, SenderStep, ScriptStays
<1>4. ~SenderRuns /\ [Next]_vars => ~SenderRuns' /\ UNCHANGED senderVars
  BY ScriptStays DEF Next, InSender, InBot, InDebts, InHardWork, InWithdraw, InSearch, InHistory, InSnapshot,
     InReplay, InSync,
     BotsRest, vars, senderVars
<1>5. ~SenderRuns /\ Init => sender!Abstract!Init
  BY DEF Init, SenderRests, sender!Abstract!Init, sender!Outcome, sender!Told
<1>6. senderProofs!Abstract!Init => sender!Abstract!Init
  BY DEF sender!Abstract!Init, senderProofs!Abstract!Init, sender!Outcome, sender!Told, senderProofs!Outcome,
         senderProofs!Told
<1>7. [senderProofs!Abstract!Next]_<<ProvedOutcomes, ProvedTold>> => [sender!Abstract!Next]_<<Outcomes, Told>>
  BY DEF sender!Abstract!Next, sender!Abstract!Execute, sender!Abstract!Tell, sender!Outcome, sender!Told,
         senderProofs!Abstract!Next, senderProofs!Abstract!Execute, senderProofs!Abstract!Tell, senderProofs!Outcome,
         senderProofs!Told
<1>8. UNCHANGED senderVars => [sender!Abstract!Next]_<<Outcomes, Told>>
  BY DEF senderVars, sender!Outcome, sender!Told
<1>9. Spec => sender!Abstract!Init /\ [][sender!Abstract!Next]_<<Outcomes, Told>>
  <2> HIDE DEF SenderRuns, Outcomes, Told, ProvedOutcomes, ProvedTold
  <2>1. QED
    BY <1>1, <1>2, <1>3, <1>4, <1>5, <1>6, <1>7, <1>8, PTL DEF Spec, senderProofs!Spec
<1>10. QED
  BY <1>9, PTL DEF ImplementsCallOnce, sender!ImplementsCallOnce, sender!Abstract!Spec

-----------------------------------------------------------------------------
(* The snapshot: what LiquiditySnapshotProofs shows, of this instance *)

snapshotProofs == INSTANCE LiquiditySnapshotProofs WITH
  Ticks <- SnapshotInstance.ticks, TickSpacing <- SnapshotInstance.spacing,
  NumSurroundingTicks <- SnapshotInstance.surrounding, Pools <- SnapshotInstance.pools

LEMMA SnapshotIsSnapshot ==
  /\ snapshot!Init <=> snapshotProofs!Init
  /\ snapshot!Next <=> snapshotProofs!Next
  /\ snapshot!SpacingAssumption <=> snapshotProofs!SpacingAssumption
  /\ snapshot!PoolAssumption <=> snapshotProofs!PoolAssumption
  /\ UNCHANGED snapshot!vars <=> UNCHANGED snapshotProofs!vars
  /\ snapshot!SnapshotIsLiquidity <=> snapshotProofs!SnapshotIsLiquidity
<1>1. snapshot!Init <=> snapshotProofs!Init
  BY DEF snapshot!Init, snapshot!ActiveTick, snapshot!ActiveTickIdx, snapshotProofs!Init, snapshotProofs!ActiveTick,
     snapshotProofs!ActiveTickIdx
<1>2. snapshot!Next <=> snapshotProofs!Next
  BY DEF snapshot!Next, snapshot!WalkUp, snapshot!TurnAround, snapshot!WalkDown, snapshot!Finish, snapshot!TickAbove,
     snapshot!TickBelow, snapshot!ActiveTick, snapshot!ActiveTickIdx, snapshotProofs!Next, snapshotProofs!WalkUp,
     snapshotProofs!TurnAround, snapshotProofs!WalkDown, snapshotProofs!Finish, snapshotProofs!TickAbove,
     snapshotProofs!TickBelow, snapshotProofs!ActiveTick, snapshotProofs!ActiveTickIdx
<1>3. /\ snapshot!SpacingAssumption <=> snapshotProofs!SpacingAssumption
      /\ snapshot!PoolAssumption <=> snapshotProofs!PoolAssumption
  BY DEF snapshot!SpacingAssumption, snapshot!PoolAssumption, snapshot!ActiveTickIdx, snapshotProofs!SpacingAssumption,
     snapshotProofs!PoolAssumption, snapshotProofs!ActiveTickIdx
<1>4. UNCHANGED snapshot!vars <=> UNCHANGED snapshotProofs!vars
  BY DEF snapshot!vars, snapshotProofs!vars
<1>5. snapshot!SnapshotIsLiquidity <=> snapshotProofs!SnapshotIsLiquidity
  BY DEF snapshot!SnapshotIsLiquidity, snapshotProofs!SnapshotIsLiquidity
<1>6. QED
  BY <1>1, <1>2, <1>3, <1>4, <1>5

LEMMA SnapshotStep ==
  ASSUME script = "snapshot", [Next]_vars
  PROVE  [snapshot!Next]_(snapshot!vars)
  BY DEF Next, InSender, InBot, InDebts, InHardWork, InWithdraw, InSearch, InHistory, InSnapshot, InReplay,
     InSync, BotsRest, BacktesterRests, vars, snapshotVars, snapshot!vars

\* THEOREM.  At every moment each tick processed so far has the liquidity that is in range
\* there on chain, for any pool, spacing and width of the snapshot.
THEOREM SnapshotIsRight == Spec => []SnapshotIsLiquidity
<1> DEFINE SnapshotRuns == script = "snapshot"
<1>1. snapshotProofs!Spec => []snapshotProofs!SnapshotIsLiquidity
  BY snapshotProofs!LiquidityIsRight, SnapshotIsSnapshot, ScriptAssumptions
<1>2. SnapshotRuns /\ Init => snapshotProofs!Init
  BY SnapshotIsSnapshot DEF Init
<1>3. SnapshotRuns /\ [Next]_vars => SnapshotRuns' /\ [snapshotProofs!Next]_(snapshotProofs!vars)
  BY SnapshotIsSnapshot, SnapshotStep, ScriptStays
<1>4. ~SnapshotRuns /\ [Next]_vars => ~SnapshotRuns'
  BY ScriptStays
<1>5. (SnapshotRuns => snapshotProofs!SnapshotIsLiquidity) => SnapshotIsLiquidity
  BY SnapshotIsSnapshot DEF SnapshotIsLiquidity
<1>6. QED
  <2> HIDE DEF SnapshotRuns
  <2>1. QED
    BY <1>1, <1>2, <1>3, <1>4, <1>5, PTL DEF Spec, snapshotProofs!Spec

-----------------------------------------------------------------------------
(* The sync of the two pools *)

LEMMA Quotient ==
  ASSUME NEW u \in Nat, u > 0, NEW p \in Int, NEW t \in Int
  PROVE  p \div u = t <=> t * u <= p /\ p < t * u + u
<1> DEFINE q == p \div u
<1>1. q \in Int /\ q * u <= p /\ p < q * u + u
  OBVIOUS
<1> HIDE DEF q
<1>2. ASSUME t * u <= p, p < t * u + u PROVE q = t
  <2>1. t * u \in Int /\ q * u \in Int
    BY <1>1
  <2>2. CASE q >= t + 1
    <3>1. (q - t - 1) * u >= 0 /\ (q - t - 1) * u = q * u - t * u - u
      BY <1>1, <2>2
    <3>2. QED
      BY <1>1, <1>2, <2>1, <3>1
  <2>3. CASE t >= q + 1
    <3>1. (t - q - 1) * u >= 0 /\ (t - q - 1) * u = t * u - q * u - u
      BY <1>1, <2>3
    <3>2. QED
      BY <1>1, <1>2, <2>1, <3>1
  <2>4. QED
    BY <1>1, <2>2, <2>3
<1>3. QED
  BY <1>1, <1>2 DEF q

\* 130% of what is left of a tick, less a fee of at most 10%, is short of the tick by no
\* more than a unit, and goes no further than 30% into the next.
LEMMA SwapLeavesTick ==
  ASSUME NEW d \in Nat, NEW f \in 0 .. 10,
         NEW paid, paid = (d * 130) \div 100, NEW net, net = (paid * (100 - f)) \div 100
  PROVE  paid \in Nat /\ net \in Nat /\ d <= net + 1 /\ 10 * net <= 13 * d
<1>1. paid \in Nat /\ 100 * paid <= 130 * d /\ 130 * d < 100 * paid + 100
  OBVIOUS
<1>2. paid * (100 - f) \in Nat /\ 90 * paid <= paid * (100 - f) /\ paid * (100 - f) <= 100 * paid
  <2>1. f \in Int /\ 0 <= f /\ f <= 10
    OBVIOUS
  <2>2. paid * (100 - f) = 100 * paid - paid * f /\ paid * f \in Nat
    BY <1>1, <2>1
  <2>3. paid * (10 - f) >= 0 /\ paid * (10 - f) = 10 * paid - paid * f
    BY <1>1, <2>1
  <2>4. QED
    BY <1>1, <2>2, <2>3
<1>3. net \in Nat /\ 100 * net <= paid * (100 - f) /\ paid * (100 - f) < 100 * net + 100
  BY <1>2
<1>4. d <= net + 1 /\ 10 * net <= 13 * d
  BY <1>1, <1>2, <1>3
<1>5. QED
  BY <1>1, <1>3, <1>4

Units == SyncInstance.units
Low == tickI * Units

CounterInv ==
  /\ price \in Int /\ tickI \in Int /\ target \in Int /\ up \in BOOLEAN
  /\ sync!CounterIsTick

LEMMA SyncNumbers ==
  /\ Units \in Nat /\ Units > 10
  /\ SyncInstance.fee \in 0 .. 10
  BY ScriptAssumptions DEF sync!UnitsAssumption, Units

LEMMA TickIs ==
  ASSUME NEW p \in Int, NEW t \in Int
  PROVE  sync!Tick(p) = t <=> t * Units <= p /\ p < t * Units + Units
<1>1. sync!Tick(p) = p \div Units
  BY DEF sync!Tick, Units
<1> HIDE DEF Units
<1>2. QED
  BY <1>1, SyncNumbers, Quotient

LEMMA SyncStep ==
  ASSUME script = "sync", [Next]_vars
  PROVE  [sync!Next]_(sync!vars)
  BY DEF Next, InSender, InBot, InDebts, InHardWork, InWithdraw, InSearch, InHistory, InSnapshot, InReplay,
     InSync, BotsRest, BacktesterRests, vars, syncVars, sync!vars

LEMMA SyncTickKeeps ==
  ASSUME CounterInv, sync!SyncTick, SyncInstance.first \in Int, SyncInstance.last \in Int,
     SyncInstance.min \in Int, SyncInstance.max \in Int
  PROVE  CounterInv'
<1> DEFINE f == SyncInstance.fee
           last == SyncInstance.last
           first == SyncInstance.first
           paid == sync!AmountIn
           net == (paid * (100 - f)) \div 100
           p1 == sync!Moved(price, paid)
           p2 == sync!Moved(p1, 10)
           more == (10 * (100 - f)) \div 100
<1>1. Units \in Nat /\ Units > 10 /\ f \in 0 .. 10 /\ Low \in Int
  BY SyncNumbers DEF CounterInv, Low
<1>2. tickI \in first .. last - 1 /\ paid > 0
  <2>1. paid > 0
    BY DEF sync!SyncTick
  <2>2. CASE tickI \notin first .. last - 1
    BY <2>1, <2>2 DEF sync!AmountIn, sync!AmountsInTick
  <2>3. QED
    BY <2>1, <2>2
<1>3. Low <= price /\ price < Low + Units
  BY <1>2, TickIs DEF CounterInv, sync!CounterIsTick, sync!SyncTick, Low
<1>4. paid = ((IF up THEN Low + Units - price ELSE price - Low) * 130) \div 100
  BY <1>1, <1>2, <1>3 DEF sync!AmountIn, sync!AmountsInTick, Low, Units, CounterInv
<1>5. price' = IF sync!Tick(p1) = tickI THEN p2 ELSE p1
  BY DEF sync!SyncTick, sync!Settled
<1>6. tickI' = (IF up THEN tickI + 1 ELSE tickI - 1) /\ UNCHANGED <<target, up, phase>>
  BY DEF sync!SyncTick
<1>7. more \in Nat /\ 9 <= more /\ more <= 10
  BY <1>1
<1>8. p1 = (IF up THEN IF price + net > last * Units THEN SyncInstance.max * Units ELSE price + net
                  ELSE IF price - net < first * Units THEN SyncInstance.min * Units ELSE price - net)
  BY DEF sync!Moved, Units
<1>9. p2 = (IF up THEN IF p1 + more > last * Units THEN SyncInstance.max * Units ELSE p1 + more
                  ELSE IF p1 - more < first * Units THEN SyncInstance.min * Units ELSE p1 - more)
  BY DEF sync!Moved, Units
<1>10. net \in Int /\ price \in Int /\ last * Units \in Int /\ first * Units \in Int
       /\ SyncInstance.max * Units \in Int /\ SyncInstance.min * Units \in Int
  <2>1. paid \in Nat /\ 100 - f \in Nat
    BY <1>1, <1>2, <1>3, <1>4 DEF CounterInv
  <2> HIDE DEF paid
  <2>2. QED
    BY <1>1, <2>1 DEF CounterInv
<1>11. p1 \in Int /\ p2 \in Int
  <2>1. p1 \in Int
    <3>1. price + net \in Int /\ price - net \in Int
      BY <1>10
    <3>2. QED
      BY <1>8, <1>10, <3>1, Zenon
  <2>2. QED
    BY <2>1, <1>7, <1>9, <1>10
<1>12. ASSUME up, tickI + 1 \in first .. last - 1 PROVE sync!Tick(price') = tickI + 1
  <2> DEFINE d == Low + Units - price
  <2>1. d \in Nat /\ d > 0 /\ d <= Units
    BY <1>1, <1>3, <1>10
  <2>2. net \in Nat /\ d <= net + 1 /\ 10 * net <= 13 * d
    <3>1. paid = (d * 130) \div 100
      BY <1>4, <1>12
    <3>2. f \in 0..10 /\ net = (paid * (100 - f)) \div 100
      BY <1>1
    <3> HIDE DEF paid, d, net, f
    <3>3. QED
      BY <2>1, <3>1, <3>2, SwapLeavesTick
  <2>3. (tickI + 1) * Units = Low + Units /\ last * Units >= Low + Units + Units
    <3>1. (last - tickI - 2) * Units >= 0 /\ (last - tickI - 2) * Units = last * Units - Low - Units - Units
      BY <1>1, <1>12 DEF Low, CounterInv
    <3>2. (tickI + 1) * Units = Low + Units
      BY <1>1, <1>12 DEF Low, CounterInv
    <3>3. QED
      BY <1>1, <1>10, <3>1, <3>2
  <2> HIDE DEF net, p1, p2, more
  <2>4. p1 = price + net /\ Low + Units <= p1 + 1 /\ p1 + 10 < Low + Units + Units + 10
    BY <1>1, <1>8, <1>10, <1>12, <2>1, <2>2, <2>3
  <2>5. CASE sync!Tick(p1) = tickI
    <3>1. p1 < Low + Units
      BY <1>11, <2>5, TickIs DEF Low, CounterInv
    <3>2. p2 = p1 + more
      BY <1>1, <1>7, <1>9, <1>10, <1>11, <1>12, <2>3, <3>1
    <3>3. Low + Units <= p2 /\ p2 < Low + Units + Units
      BY <1>1, <1>7, <1>11, <2>4, <3>1, <3>2
    <3>4. QED
      BY <1>1, <1>5, <1>11, <2>3, <2>5, <3>3, TickIs DEF CounterInv
  <2>6. CASE sync!Tick(p1) # tickI
    <3>1. Low <= p1
      BY <1>1, <1>3, <1>10, <2>2, <2>4
    <3>2. Low + Units <= p1
      BY <1>1, <1>11, <2>6, <3>1, TickIs DEF Low, CounterInv
    <3>3. p1 < Low + Units + Units
      BY <1>1, <1>10, <2>1, <2>2, <2>4
    <3>4. QED
      BY <1>5, <1>11, <2>3, <2>6, <3>2, <3>3, TickIs DEF CounterInv
  <2>7. QED
    BY <2>5, <2>6
<1>13. ASSUME ~up, tickI - 1 \in first .. last - 1 PROVE sync!Tick(price') = tickI - 1
  <2> DEFINE d == price - Low
  <2>1. d \in Nat /\ d < Units
    BY <1>1, <1>3, <1>10
  <2>2. net \in Nat /\ d <= net + 1 /\ 10 * net <= 13 * d
    <3>1. paid = (d * 130) \div 100
      BY <1>4, <1>13
    <3>2. f \in 0..10 /\ net = (paid * (100 - f)) \div 100
      BY <1>1
    <3> HIDE DEF paid, d, net, f
    <3>3. QED
      BY <2>1, <3>1, <3>2, SwapLeavesTick
  <2>3. (tickI - 1) * Units = Low - Units /\ first * Units <= Low - Units
    <3>1. (tickI - 1 - first) * Units >= 0 /\ (tickI - 1 - first) * Units = Low - Units - first * Units
      BY <1>1, <1>13 DEF Low, CounterInv
    <3>2. (tickI - 1) * Units = Low - Units
      BY <1>1, <1>13 DEF Low, CounterInv
    <3>3. QED
      BY <1>1, <1>10, <3>1, <3>2
  <2> HIDE DEF net, p1, p2, more
  <2>4. p1 = price - net /\ p1 <= Low + 1 /\ Low - Units < p1
    BY <1>1, <1>8, <1>10, <1>13, <2>1, <2>2, <2>3
  <2>5. CASE sync!Tick(p1) = tickI
    <3>1. Low <= p1
      BY <1>11, <2>5, TickIs DEF Low, CounterInv
    <3>2. p2 = p1 - more
      BY <1>1, <1>7, <1>9, <1>10, <1>11, <1>13, <2>3, <3>1
    <3>3. Low - Units <= p2 /\ p2 < Low
      BY <1>1, <1>7, <1>11, <2>4, <3>1, <3>2
    <3>4. QED
      BY <1>1, <1>5, <1>11, <2>3, <2>5, <3>3, TickIs DEF CounterInv
  <2>6. CASE sync!Tick(p1) # tickI
    <3>1. p1 < Low + Units
      BY <1>1, <1>11, <2>4
    <3>2. p1 < Low
      BY <1>1, <1>11, <2>6, <3>1, TickIs DEF Low, CounterInv
    <3>3. QED
      BY <1>1, <1>5, <1>11, <2>3, <2>4, <2>6, <3>2, TickIs DEF CounterInv
  <2>7. QED
    BY <2>5, <2>6
<1>14. price' \in Int /\ tickI' \in Int
  BY <1>5, <1>6, <1>11 DEF CounterInv
<1>15. QED
  BY <1>6, <1>12, <1>13, <1>14 DEF CounterInv, sync!CounterIsTick, sync!Tick

LEMMA CounterInit == 
  ASSUME sync!Init, SyncInstance.first \in Int, SyncInstance.last \in Int
  PROVE  CounterInv
<1>1. Units \in Nat /\ Units > 10
  BY SyncNumbers
<1>2. price \in Int /\ target \in Int /\ up \in BOOLEAN /\ tickI = sync!Tick(price)
  BY <1>1 DEF sync!Init, Units
<1>3. tickI \in Int
  BY <1>1, <1>2 DEF sync!Tick, Units
<1>4. QED
  BY <1>2, <1>3 DEF CounterInv, sync!CounterIsTick

SyncInv == script = "sync" => CounterInv

\* THEOREM.  Whenever the backtest is about to swap through a tick that has liquidity, its
\* counter is the tick of the pool, for any size of ticks, prices, targets and any fee of
\* at most 10%.
THEOREM CounterKeepsPace == Spec => []CounterIsTick
<1>1. /\ SyncInstance.first \in Int /\ SyncInstance.last \in Int /\ SyncInstance.min \in Int /\ SyncInstance.max \in Int
  BY ScriptAssumptions DEF sync!TicksAssumption
<1>2. Init => SyncInv
  BY <1>1, CounterInit DEF Init, SyncInv
<1>3. SyncInv /\ [Next]_vars => SyncInv'
  <2> SUFFICES ASSUME SyncInv, [Next]_vars, script = "sync" PROVE CounterInv'
    BY ScriptStays DEF SyncInv
  <2>1. CounterInv /\ [sync!Next]_(sync!vars)
    BY SyncStep DEF SyncInv
  <2>2. CASE sync!SyncTick
    BY <1>1, <2>1, <2>2, SyncTickKeeps
  <2>3. CASE UNCHANGED <<price, target, up, tickI>> /\ (phase' = "loop" => phase = "loop")
    BY <2>1, <2>3 DEF CounterInv, sync!CounterIsTick, sync!Tick
  <2>4. QED
    BY <2>1, <2>2, <2>3 DEF sync!Next, sync!SyncReverts, sync!Synced, sync!vars
<1>4. SyncInv => CounterIsTick
  BY DEF SyncInv, CounterInv, CounterIsTick
<1>5. QED
  BY <1>2, <1>3, <1>4, PTL DEF Spec

-----------------------------------------------------------------------------
(* The genetic search *)

\* The results of a generation that are done, in a table.
DoneRows(rows, g) == {j \in DOMAIN rows : rows[j].gen = g /\ rows[j].done}

Places == {"start", "count", "born", "mutate", "save", "run", "closing", "close"}

Filled(g) == Cardinality(search!DoneIn(g)) >= SearchInstance.individuals

TableIsSequence == \E R : results \in Seq(R)
RowsFollow ==
  \A j \in search!Rows : results[j].gen \in Nat /\ (results[j].gen > 0 => Filled(results[j].gen - 1))
WorkersFollow ==
  /\ gen \in [Workers -> Nat] /\ workerPc \in [Workers -> Places]
  /\ \A w \in Workers : gen[w] > 0 => Filled(gen[w] - 1)
LastIsFilled == exhausted \/ Filled(SearchInstance.gens - 1)
ClosingIsDue == \A w \in Workers : workerPc[w] \in {"closing", "close"} => LastIsFilled
ClosedWasDue == taskDone => LastIsFilled

\* Whatever a worker has read about the generations, and acts upon later, is still true.
SearchInv == TableIsSequence /\ RowsFollow /\ WorkersFollow /\ ClosingIsDue /\ ClosedWasDue

LEMMA TableCounts ==
  ASSUME NEW rows, \E R : rows \in Seq(R), NEW g
  PROVE  IsFiniteSet(DoneRows(rows, g)) /\ Cardinality(DoneRows(rows, g)) \in Nat
<1>1. DOMAIN rows = 1..Len(rows) /\ Len(rows) \in Nat
  OBVIOUS
<1>2. IsFiniteSet(1..Len(rows))
  BY <1>1, FS_Interval
<1>3. DoneRows(rows, g) \subseteq 1..Len(rows)
  BY <1>1 DEF DoneRows
<1>4. QED
  BY <1>2, <1>3, FS_Subset, FS_CardinalityType

LEMMA TableGrows ==
  ASSUME NEW before, NEW after, \E R : before \in Seq(R), \E R : after \in Seq(R),
         \A j \in DOMAIN before : /\ j \in DOMAIN after /\ after[j].gen = before[j].gen
                                  /\ before[j].done => after[j].done,
         NEW g
  PROVE  /\ Cardinality(DoneRows(before, g)) \in Nat /\ Cardinality(DoneRows(after, g)) \in Nat
         /\ Cardinality(DoneRows(before, g)) <= Cardinality(DoneRows(after, g))
<1>1. DoneRows(before, g) \subseteq DoneRows(after, g)
  BY DEF DoneRows
<1>2. QED
  BY <1>1, TableCounts, FS_Subset

\* Rows are added and finished, never taken away: a generation that is filled stays filled.
LEMMA FilledStays ==
  ASSUME TableIsSequence, TableIsSequence',
         \A j \in DOMAIN results : /\ j \in DOMAIN results' /\ results'[j].gen = results[j].gen
                                   /\ results[j].done => results'[j].done
  PROVE  \A g : Filled(g) => Filled(g)'
<1> TAKE g
<1> DEFINE a == Cardinality(DoneRows(results, g))
           b == Cardinality(DoneRows(results', g))
<1>1. a \in Nat /\ b \in Nat /\ a <= b
  BY TableGrows DEF TableIsSequence
<1>2. search!DoneIn(g) = DoneRows(results, g) /\ search!DoneIn(g)' = DoneRows(results', g)
  BY DEF search!DoneIn, search!Rows, DoneRows
<1>3. SearchInstance.individuals \in Nat
  BY ScriptAssumptions DEF search!ConfigAssumption
<1>4. (Filled(g) <=> a >= SearchInstance.individuals) /\ (Filled(g)' <=> b >= SearchInstance.individuals)
  BY <1>2 DEF Filled
<1> HIDE DEF a, b
<1>5. QED
  BY <1>1, <1>3, <1>4

LEMMA SearchStep ==
  ASSUME script = "search", [Next]_vars
  PROVE  [search!Next]_(search!vars)
  BY DEF Next, InSender, InBot, InDebts, InHardWork, InWithdraw, InSearch, InHistory, InSnapshot, InReplay, InSync,
     BacktesterRests, vars, workerVars, search!vars

LEMMA SearchInit == ASSUME search!Init PROVE SearchInv
<1>1. TableIsSequence
  <2>1. results \in Seq({})
    BY DEF search!Init
  <2>2. QED
    BY <2>1 DEF TableIsSequence
<1>2. RowsFollow
  BY DEF search!Init, RowsFollow, search!Rows
<1>3. WorkersFollow /\ ClosingIsDue
  <2>1. gen = [w \in Workers |-> 0] /\ workerPc = [w \in Workers |-> "start"]
    BY DEF search!Init
  <2>2. WorkersFollow
    <3>1. gen \in [Workers -> Nat] /\ \A w \in Workers : gen[w] = 0
      BY <2>1
    <3>2. workerPc \in [Workers -> Places]
      BY <2>1 DEF Places
    <3>3. QED
      BY <3>1, <3>2 DEF WorkersFollow
  <2>3. ClosingIsDue
    BY <2>1 DEF ClosingIsDue
  <2>4. QED
    BY <2>2, <2>3
<1>4. ClosedWasDue
  BY DEF search!Init, ClosedWasDue
<1>5. QED
  BY <1>1, <1>2, <1>3, <1>4 DEF SearchInv

\* Steps that leave the table and the task alone.
LEMMA WorkerMoves ==
  ASSUME SearchInv, UNCHANGED <<results, taskDone>>, exhausted => exhausted',
         WorkersFollow', ClosingIsDue'
  PROVE  SearchInv'
<1>1. \A g : Filled(g)' <=> Filled(g)
  BY DEF Filled, search!DoneIn, search!Rows
<1>2. RowsFollow' /\ TableIsSequence'
  BY <1>1 DEF SearchInv, RowsFollow, TableIsSequence, search!Rows
<1>3. ClosedWasDue'
  BY <1>1 DEF SearchInv, ClosedWasDue, LastIsFilled
<1>4. QED
  BY <1>2, <1>3 DEF SearchInv

\* A worker that moves on, with the generation it has read or counted.
LEMMA WorkerFollows ==
  ASSUME SearchInv, UNCHANGED <<results, taskDone>>, exhausted => exhausted',
         NEW w \in Workers, NEW place \in Places, NEW g \in Nat,
         gen' = [gen EXCEPT ![w] = g], workerPc' = [workerPc EXCEPT ![w] = place],
         g > 0 => Filled(g - 1),
         place \in {"closing", "close"} => exhausted' \/ Filled(SearchInstance.gens - 1)
  PROVE  SearchInv'
<1>1. \A h : Filled(h)' <=> Filled(h)
  BY DEF Filled, search!DoneIn, search!Rows
<1>2. /\ gen' \in [Workers -> Nat] /\ workerPc' \in [Workers -> Places]
      /\ gen'[w] = g /\ workerPc'[w] = place
      /\ \A v \in Workers : v # w => gen'[v] = gen[v] /\ workerPc'[v] = workerPc[v]
  BY DEF SearchInv, WorkersFollow
<1>3. ASSUME NEW v \in Workers, gen'[v] > 0 PROVE Filled(gen[v] - 1)'
  <2>1. CASE v = w
    BY <1>1, <1>2, <1>3, <2>1
  <2>2. CASE v # w
    BY <1>1, <1>2, <1>3, <2>2 DEF SearchInv, WorkersFollow
  <2>3. QED
    BY <2>1, <2>2
<1>4. ASSUME NEW v \in Workers, workerPc'[v] \in {"closing", "close"} PROVE LastIsFilled'
  <2>1. LastIsFilled => LastIsFilled'
    BY <1>1 DEF LastIsFilled
  <2>2. CASE v = w
    BY <1>1, <1>2, <1>4, <2>2 DEF LastIsFilled
  <2>3. CASE v # w
    BY <1>2, <1>4, <2>1, <2>3 DEF SearchInv, ClosingIsDue
  <2>4. QED
    BY <2>2, <2>3
<1>5. WorkersFollow' /\ ClosingIsDue'
  BY <1>2, <1>3, <1>4 DEF WorkersFollow, ClosingIsDue
<1>6. QED
  BY <1>5, WorkerMoves

LEMMA ReadGenKeeps == ASSUME SearchInv, NEW w \in Workers, search!ReadGen(w) PROVE SearchInv'
<1> DEFINE last == IF \E k \in search!Rows : \A j \in search!Rows : results[j].gen <= results[k].gen
                   THEN CHOOSE g \in {results[k].gen : k \in search!Rows} : \A j \in search!Rows : results[j].gen <= g
                   ELSE 0
<1>1. last \in Nat /\ (last > 0 => Filled(last - 1))
  <2>1. CASE \E k \in search!Rows : \A j \in search!Rows : results[j].gen <= results[k].gen
    <3>1. PICK k \in search!Rows : last = results[k].gen
      BY <2>1
    <3>2. QED
      BY <3>1 DEF SearchInv, RowsFollow
  <2>2. CASE ~(\E k \in search!Rows : \A j \in search!Rows : results[j].gen <= results[k].gen)
    BY <2>2
  <2>3. QED
    BY <2>1, <2>2
<1>2. /\ gen' = [gen EXCEPT ![w] = last] /\ workerPc' = [workerPc EXCEPT ![w] = "count"]
      /\ UNCHANGED <<results, taskDone, exhausted>> /\ "count" \in Places
  BY DEF search!ReadGen, search!Goto, Places
<1> HIDE DEF last
<1>3. QED
  BY <1>1, <1>2, WorkerFollows

LEMMA SameCardinality == ASSUME NEW S PROVE search!Cardinality(S) = Cardinality(S)
  BY DEF Cardinality, search!Cardinality, IsFiniteSet, search!IsFiniteSet

LEMMA EnoughIsFilled == ASSUME NEW g PROVE search!Enough(g) <=> Filled(g)
  BY SameCardinality DEF search!Enough, Filled

LEMMA CountKeeps == ASSUME SearchInv, NEW w \in Workers, search!Count(w) PROVE SearchInv'
<1> DEFINE next == IF search!Enough(gen[w]) THEN gen[w] + 1 ELSE gen[w]
           place == IF next = SearchInstance.gens THEN "closing" ELSE IF next = 0 THEN "born" ELSE "mutate"
<1>1. gen[w] \in Nat /\ (gen[w] > 0 => Filled(gen[w] - 1)) /\ SearchInstance.gens \in Nat \ {0}
  BY ScriptAssumptions DEF SearchInv, WorkersFollow, search!ConfigAssumption
<1>2. next \in Nat /\ (next > 0 => Filled(next - 1))
  <2>1. CASE search!Enough(gen[w])
    <3>1. next = gen[w] + 1 /\ next - 1 = gen[w]
      BY <1>1, <2>1
    <3>2. Filled(gen[w])
      BY <2>1, EnoughIsFilled
    <3>3. QED
      BY <1>1, <3>1, <3>2
  <2>2. CASE ~search!Enough(gen[w])
    BY <1>1, <2>2
  <2>3. QED
    BY <2>1, <2>2
<1>3. place \in Places /\ (place \in {"closing", "close"} => Filled(SearchInstance.gens - 1))
  <2>1. CASE next = SearchInstance.gens
    <3>1. place = "closing" /\ Filled(SearchInstance.gens - 1)
      BY <1>1, <1>2, <2>1
    <3>2. QED
      BY <3>1 DEF Places
  <2>2. CASE next # SearchInstance.gens
    <3>1. place = "born" \/ place = "mutate"
      BY <2>2
    <3>2. QED
      BY <3>1 DEF Places
  <2>3. QED
    BY <2>1, <2>2
<1>4. /\ gen' = [gen EXCEPT ![w] = next] /\ workerPc' = [workerPc EXCEPT ![w] = place]
      /\ UNCHANGED <<results, taskDone, exhausted>>
  BY DEF search!Count, search!Goto
<1> HIDE DEF next, place
<1>5. QED
  BY <1>2, <1>3, <1>4, WorkerFollows

\* Choosing parameters, giving up, going on to the end, stopping: the generation stays.
LEMMA MoveKeeps ==
  ASSUME SearchInv, NEW w \in Workers, NEW place \in Places,
         UNCHANGED <<results, taskDone, gen>>, exhausted => exhausted',
         workerPc' = [workerPc EXCEPT ![w] = place],
         place \in {"closing", "close"} => exhausted' \/ Filled(SearchInstance.gens - 1)
  PROVE  SearchInv'
<1> DEFINE g == gen[w]
<1>1. g \in Nat /\ (g > 0 => Filled(g - 1)) /\ gen' = [gen EXCEPT ![w] = g]
  BY DEF SearchInv, WorkersFollow
<1> HIDE DEF g
<1>2. QED
  BY <1>1, WorkerFollows

\* The table grows, or a result is done.
LEMMA TableKeeps ==
  ASSUME SearchInv, TableIsSequence', NEW w \in Workers, NEW place \in Places \ {"closing", "close"},
         UNCHANGED <<taskDone, gen, exhausted>>, workerPc' = [workerPc EXCEPT ![w] = place],
         \A j \in DOMAIN results : /\ j \in DOMAIN results' /\ results'[j].gen = results[j].gen
                                   /\ results[j].done => results'[j].done,
         \A j \in DOMAIN results' : j \in DOMAIN results \/ results'[j].gen = gen[w]
  PROVE  SearchInv'
<1>1. \A g : Filled(g) => Filled(g)'
  BY FilledStays DEF SearchInv
<1>2. RowsFollow'
  <2> SUFFICES ASSUME NEW j \in DOMAIN results'
               PROVE  results'[j].gen \in Nat /\ (results'[j].gen > 0 => Filled(results[j].gen - 1)')
    BY DEF RowsFollow, search!Rows
  <2>1. CASE j \in DOMAIN results
    BY <1>1, <2>1 DEF SearchInv, RowsFollow, search!Rows
  <2>2. CASE results'[j].gen = gen[w]
    <3> DEFINE g == gen[w]
    <3>1. g \in Nat /\ (g > 0 => Filled(g - 1)) /\ results'[j].gen = g
      BY <2>2 DEF SearchInv, WorkersFollow
    <3> HIDE DEF g
    <3>2. QED
      BY <1>1, <3>1
  <2>3. QED
    BY <2>1, <2>2
<1>3. WorkersFollow'
  BY <1>1 DEF SearchInv, WorkersFollow
<1>4. LastIsFilled => LastIsFilled'
  BY <1>1 DEF LastIsFilled
<1>5. ClosingIsDue' /\ ClosedWasDue'
  BY <1>4 DEF SearchInv, ClosingIsDue, ClosedWasDue, WorkersFollow
<1>6. QED
  BY <1>2, <1>3, <1>5 DEF SearchInv

LEMMA SaveKeeps == ASSUME SearchInv, NEW w \in Workers, search!Save(w) PROVE SearchInv'
<1>1. PICK R : results \in Seq(R)
  BY DEF SearchInv, TableIsSequence
<1> DEFINE new == [gen |-> gen[w], done |-> FALSE, params |-> params[w]]
           n == Len(results)
<1>2. results' = Append(results, new) /\ new.gen = gen[w]
  BY DEF search!Save
<1> HIDE DEF new
<1>3. /\ results' \in Seq(R \cup {new})
      /\ n \in Nat /\ DOMAIN results = 1..n /\ DOMAIN results' = 1..(n + 1)
      /\ results'[n + 1] = new /\ \A j \in 1..n : results'[j] = results[j]
  BY <1>1, <1>2
<1>4. TableIsSequence'
  BY <1>3 DEF TableIsSequence
<1> HIDE DEF n
<1>5. \A j \in DOMAIN results : /\ j \in DOMAIN results' /\ results'[j].gen = results[j].gen
                                /\ results[j].done => results'[j].done
  BY <1>3
<1>6. \A j \in DOMAIN results' : j \in DOMAIN results \/ results'[j].gen = gen[w]
  <2> SUFFICES ASSUME NEW j \in 1..(n + 1), j \notin 1..n PROVE results'[j].gen = gen[w]
    BY <1>3
  <2>1. j = n + 1
    BY <1>3
  <2>2. QED
    BY <1>2, <1>3, <2>1
<1>7. UNCHANGED <<taskDone, gen, exhausted>> /\ workerPc' = [workerPc EXCEPT ![w] = "run"]
  BY DEF search!Save, search!Goto
<1>8. "run" \in Places \ {"closing", "close"}
  BY DEF Places
<1>9. QED
  BY <1>4, <1>5, <1>6, <1>7, <1>8, TableKeeps

LEMMA FinishKeeps == ASSUME SearchInv, NEW w \in Workers, search!Finish(w) PROVE SearchInv'
<1>1. PICK R : results \in Seq(R)
  BY DEF SearchInv, TableIsSequence
<1> DEFINE k == row[w]
           finished == [results[k] EXCEPT !.done = TRUE]
<1>2. results' = [results EXCEPT ![k] = finished]
  BY DEF search!Finish
<1>3. (finished.gen = results[k].gen) /\ (results[k].done => finished.done)
  OBVIOUS
<1> HIDE DEF k, finished
<1>4. /\ results' \in Seq(R \cup {finished}) /\ DOMAIN results' = DOMAIN results
      /\ \A j \in DOMAIN results : results'[j] = IF j = k THEN finished ELSE results[j]
  <2>1. Len(results) \in Nat /\ results \in [1..Len(results) -> R]
    BY <1>1
  <2>2. results' \in [1..Len(results) -> R \cup {finished}]
    BY <1>2, <2>1
  <2>3. QED
    BY <1>2, <2>1, <2>2
<1>5. TableIsSequence'
  BY <1>4 DEF TableIsSequence
<1>6. \A j \in DOMAIN results : /\ j \in DOMAIN results' /\ results'[j].gen = results[j].gen
                                /\ results[j].done => results'[j].done
  <2> TAKE j \in DOMAIN results
  <2>1. CASE j = k
    BY <1>3, <1>4, <2>1
  <2>2. CASE j # k
    BY <1>4, <2>2
  <2>3. QED
    BY <2>1, <2>2
<1>7. \A j \in DOMAIN results' : j \in DOMAIN results \/ results'[j].gen = gen[w]
  BY <1>4
<1>8. UNCHANGED <<taskDone, gen, exhausted>> /\ workerPc' = [workerPc EXCEPT ![w] = "start"]
  BY DEF search!Finish, search!Goto
<1>9. "start" \in Places \ {"closing", "close"}
  BY DEF Places
<1>10. QED
  BY <1>5, <1>6, <1>7, <1>8, <1>9, TableKeeps

LEMMA SaveTaskKeeps == ASSUME SearchInv, NEW w \in Workers, search!SaveTask(w) PROVE SearchInv'
<1>1. UNCHANGED <<results, gen, exhausted>> /\ workerPc' = [workerPc EXCEPT ![w] = "start"] /\ workerPc[w] = "close"
  BY DEF search!SaveTask, search!Goto
<1>2. \A g : Filled(g)' <=> Filled(g)
  BY <1>1 DEF Filled, search!DoneIn, search!Rows
<1>3. LastIsFilled /\ (LastIsFilled' <=> LastIsFilled)
  BY <1>1, <1>2 DEF SearchInv, ClosingIsDue, LastIsFilled
<1>4. TableIsSequence' /\ RowsFollow'
  BY <1>1, <1>2 DEF SearchInv, TableIsSequence, RowsFollow, search!Rows
<1>5. WorkersFollow'
  BY <1>1, <1>2 DEF SearchInv, WorkersFollow, Places
<1>6. QED
  BY <1>3, <1>4, <1>5 DEF SearchInv, ClosingIsDue, ClosedWasDue

\* THEOREM.  A generation has offspring only once it is filled, and a task is closed only
\* when its last generation was, or parameters ran out: for any number of workers that
\* read, choose, run and crash in any order.
THEOREM GenerationsComplete == Spec => []GenerationsAreComplete
<1> DEFINE Inv == script = "search" => SearchInv
<1>1. Init => Inv
  BY SearchInit DEF Init
<1>2. Inv /\ [Next]_vars => Inv'
  <2> SUFFICES ASSUME SearchInv, [search!Next]_(search!vars) PROVE SearchInv'
    BY ScriptStays, SearchStep
  <2>1. CASE UNCHANGED <<results, taskDone, gen, workerPc, exhausted>>
    BY <2>1, WorkerMoves DEF SearchInv, WorkersFollow, ClosingIsDue, LastIsFilled, Filled, search!DoneIn, search!Rows
  <2>2. ASSUME NEW w \in Workers, search!Work(w) \/ search!Crash(w) PROVE SearchInv'
    <3> DEFINE Moves(place) ==
          UNCHANGED <<results, taskDone,
             gen>> /\ (exhausted => exhausted') /\ workerPc' = [workerPc EXCEPT ![w] = place]
    <3>1. CASE \E place \in Places \ {"closing", "close"} : Moves(place)
      BY <3>1, MoveKeeps
    <3>2. CASE search!Exhaust(w)
      BY <3>2, MoveKeeps DEF search!Exhaust, search!Goto, Places
    <3>3. CASE search!Close(w)
      <4>1. exhausted \/ Filled(SearchInstance.gens - 1)
        BY <3>3 DEF search!Close, SearchInv, ClosingIsDue, LastIsFilled
      <4>2. Moves("close") \/ Moves("start")
        BY <3>3 DEF search!Close, search!Goto
      <4>3. "close" \in Places /\ "start" \in Places /\ (exhausted => exhausted' \/ Filled(SearchInstance.gens - 1))
        BY <3>3 DEF search!Close, Places
      <4>4. QED
        BY <4>1, <4>2, <4>3, MoveKeeps
    <3>4. CASE search!Born(w) \/ search!Mutate(w) \/ search!Crash(w)
      <4>1. Moves("save") \/ Moves("start")
        BY <3>4 DEF search!Born, search!Mutate, search!Crash, search!Goto
      <4>2. "save" \in Places \ {"closing", "close"} /\ "start" \in Places \ {"closing", "close"}
        BY DEF Places
      <4>3. QED
        BY <3>1, <4>1, <4>2
    <3>5. QED
      BY <2>2, <3>2, <3>3, <3>4, ReadGenKeeps, CountKeeps, SaveKeeps, FinishKeeps, SaveTaskKeeps DEF search!Work
  <2>3. QED
    BY <2>1, <2>2 DEF search!Next, search!vars
<1>3. Inv => GenerationsAreComplete
  BY SameCardinality DEF SearchInv, RowsFollow, ClosedWasDue, LastIsFilled, Filled, GenerationsAreComplete,
     search!GenerationsAreComplete
<1>4. QED
  BY <1>1, <1>2, <1>3, PTL DEF Spec

-----------------------------------------------------------------------------
(* The time on fuse of the backtest *)

\* While the fuse is on, its time was last counted when the bot last looked; what the
\* report counts is what the fuse was on, less the seconds before it was switched off.
ClockInv ==
  /\ time \in Nat /\ lastCheck \in Nat \ {0} /\ timeOnFuse \in Nat /\ trueFuse \in Nat
  /\ lastCheck <= time
  /\ fuse => lastFuseTimestamp = lastCheck
  /\ timeOnFuse <= trueFuse
  /\ ~switchedOff => timeOnFuse = trueFuse

LEMMA ClockStep ==
  ASSUME script = "clock", [Next]_vars
  PROVE  [clock!Next]_(clock!vars)
  BY DEF Next, InSender, InBot, InDebts, InHardWork, InWithdraw, InSearch, InHistory, InSnapshot, InReplay,
     InSync, BotsRest,
     BacktesterRests, vars, replayVars, clock!vars, clock!poolVars, clock!fuseVars, clock!debtVars

LEMMA ClockInit == ASSUME clock!Init PROVE ClockInv
  BY DEF clock!Init, clock!StartTimestamp, ClockInv

LEMMA FuseIsTimed ==
  ASSUME ClockInv, clock!RebalanceAndTimeFuse
  PROVE  ClockInv'
<1> DEFINE on == time - lastCheck
<1>1. /\ time' = time /\ lastCheck' = time
      /\ trueFuse' = trueFuse + (IF fuse THEN on ELSE 0)
      /\ switchedOff' = (switchedOff \/ (fuse /\ ~fuse'))
  BY DEF clock!RebalanceAndTimeFuse
<1>2. on \in Nat /\ (fuse => clock!LastFuseSeen = lastCheck) /\ (~fuse => clock!LastFuseSeen = 0)
  BY DEF ClockInv, clock!LastFuseSeen
<1>3. ASSUME fuse' PROVE /\ lastFuseTimestamp' = lastCheck'
                         /\ timeOnFuse' = timeOnFuse + (IF fuse THEN on ELSE 0)
  <2>1. /\ lastFuseTimestamp' = time
        /\ timeOnFuse' = timeOnFuse + (IF clock!LastFuseSeen > 0 /\ clock!LastFuseSeen # time
                                       THEN time - clock!LastFuseSeen ELSE 0)
    BY <1>3 DEF clock!RebalanceAndTimeFuse
  <2>2. CASE fuse
    BY <1>1, <1>2, <2>1, <2>2 DEF ClockInv
  <2>3. CASE ~fuse
    BY <1>1, <1>2, <2>1, <2>3 DEF ClockInv
  <2>4. QED
    BY <2>2, <2>3
<1>4. ASSUME ~fuse' PROVE timeOnFuse' = timeOnFuse
  BY <1>4 DEF clock!RebalanceAndTimeFuse
<1>5. CASE fuse'
  <2>1. switchedOff' <=> switchedOff
    BY <1>1, <1>5
  <2>2. CASE fuse
    BY <1>1, <1>2, <1>3, <1>5, <2>1, <2>2 DEF ClockInv
  <2>3. CASE ~fuse
    BY <1>1, <1>2, <1>3, <1>5, <2>1, <2>3 DEF ClockInv
  <2>4. QED
    BY <2>2, <2>3
<1>6. CASE ~fuse'
  <2>1. timeOnFuse' = timeOnFuse
    BY <1>4, <1>6, Zenon
  <2>2. CASE fuse
    <3>1. switchedOff' /\ trueFuse' = trueFuse + on
      BY <1>1, <1>6, <2>2, Zenon
    <3>2. QED
      BY <1>1, <1>2, <1>6, <2>1, <3>1 DEF ClockInv
  <2>3. CASE ~fuse
    <3>1. (switchedOff' <=> switchedOff) /\ trueFuse' = trueFuse + 0
      BY <1>1, <1>6, <2>3, Zenon
    <3>2. QED
      BY <1>1, <1>2, <1>6, <2>1, <3>1 DEF ClockInv
  <2>4. QED
    BY <2>2, <2>3
<1>7. QED
  BY <1>5, <1>6

LEMMA TimePasses ==
  ASSUME ClockInv, clock!TakeTx
  PROVE  ClockInv'
<1>1. UNCHANGED <<fuse, timeOnFuse, lastFuseTimestamp, trueFuse, lastCheck, switchedOff>>
  BY DEF clock!TakeTx, clock!fuseVars
<1>2. time' \in Nat /\ time <= time'
  <2>1. ClockInstance.gap \in Nat
    BY ScriptAssumptions DEF clock!ReplayAssumption
  <2>2. QED
    BY <2>1 DEF clock!TakeTx, ClockInv
<1>3. QED
  BY <1>1, <1>2 DEF ClockInv

\* THEOREM.  The time on fuse of the report is never more than the fuse was on, and
\* exactly that until a fuse is switched off, for any history, parameters and limits.
THEOREM FuseTimeIsRight == Spec => []FuseTimeIsNotOverstated
<1> DEFINE Inv == script = "clock" => ClockInv
<1>1. Init => Inv
  BY ClockInit DEF Init
<1>2. Inv /\ [Next]_vars => Inv'
  <2> SUFFICES ASSUME Inv, [Next]_vars, script = "clock" PROVE ClockInv'
    BY ScriptStays
  <2>1. ClockInv /\ [clock!Next]_(clock!vars)
    BY ClockStep
  <2>2. CASE clock!RebalanceAndTimeFuse
    BY <2>1, <2>2, FuseIsTimed
  <2>3. CASE clock!TakeTx
    BY <2>1, <2>3, TimePasses
  <2>4. CASE UNCHANGED <<fuse, timeOnFuse, lastFuseTimestamp, trueFuse, lastCheck, switchedOff, time>>
    BY <2>1, <2>4 DEF ClockInv
  <2>5. QED
    BY <2>1, <2>2, <2>3, <2>4 DEF clock!Next, clock!Fill, clock!ReplayMint, clock!ReplayBurn, clock!ReplaySwap,
       clock!SkipBurn, clock!SkipEmpty, clock!SameSecond, clock!ReduceDebt, clock!Tail, clock!EndOfList, clock!HardWork,
       clock!vars, clock!fuseVars
<1>3. Inv => FuseTimeIsNotOverstated
  BY DEF ClockInv, FuseTimeIsNotOverstated, clock!FuseTimeIsNotOverstated
<1>4. QED
  BY <1>1, <1>2, <1>3, PTL DEF Spec
-----------------------------------------------------------------------------
(* Induction                                                                *)

\* Over the naturals, from the pigeonhole facts about finite sets: the theorems of the
\* library take an operator as a parameter.
LEMMA SetInduction ==
  ASSUME NEW S, 0 \in S, \A n \in Nat : n \in S => n + 1 \in S
  PROVE  Nat \subseteq S
<1> SUFFICES ASSUME NEW k \in Nat, k \notin S PROVE FALSE
  OBVIOUS
<1> DEFINE D == {n \in Nat : \A m \in 0..n : m \in S}
           f == [n \in D |-> n + 1]
<1>1. 0 \in D
  BY SMT
<1>2. \A n \in D : n + 1 \in D
  <2> SUFFICES ASSUME NEW n \in D, NEW m \in 0..(n + 1) PROVE m \in S
    OBVIOUS
  <2>1. m \in 0..n \/ m = n + 1
    OBVIOUS
  <2>. QED BY <2>1
<1>3. D \subseteq 0..k
  OBVIOUS
<1>4. IsFiniteSet(D)
  <2>1. IsFiniteSet(0..k)
    BY FS_Interval, 0 \in Int, k \in Int
  <2>2. D \in SUBSET (0..k)
    BY <1>3
  <2> HIDE DEF D
  <2>. QED BY <2>1, <2>2, FS_Subset
<1>5. f \in Injection(D, D)
  <2>1. f \in [D -> D]
    BY <1>2
  <2>2. \A a, b \in D : f[a] = f[b] => a = b
    OBVIOUS
  <2>. QED BY <2>1, <2>2 DEF Injection, IsInjective
<1>6. f \in Surjection(D, D)
  BY <1>4, <1>5, FS_Injection
<1>7. \E n \in D : f[n] = 0
  BY <1>1, <1>6 DEF Surjection
<1>. QED BY <1>7

LEMMA LeastExists ==
  ASSUME NEW S, S \subseteq Nat, S # {}
  PROVE  \E x \in S : \A y \in S : x <= y
<1> SUFFICES ASSUME \A x \in S : \E y \in S : y < x PROVE FALSE
  OBVIOUS
<1> DEFINE Without == {n \in Nat : \A m \in 0..n : m \notin S}
<1>1. 0 \in Without
  OBVIOUS
<1>2. \A n \in Nat : n \in Without => n + 1 \in Without
  <2> SUFFICES ASSUME NEW n \in Nat, n \in Without PROVE n + 1 \in Without
    OBVIOUS
  <2>1. \A m \in 0..(n + 1) : m \in 0..n \/ m = n + 1
    OBVIOUS
  <2>2. \A y \in S : ~(y < n + 1)
    OBVIOUS
  <2>3. n + 1 \notin S
    BY <2>2
  <2>. QED BY <2>1, <2>3
<1> HIDE DEF Without
<1>3. Nat \subseteq Without
  BY <1>1, <1>2, SetInduction
<1>4. \A n \in Nat : n \notin S
  <2> SUFFICES ASSUME NEW n \in Nat PROVE n \notin S
    OBVIOUS
  <2>1. n \in Without
    BY <1>3
  <2>2. n \in 0..n
    OBVIOUS
  <2>. QED BY <2>1, <2>2 DEF Without
<1>. QED BY <1>4

LEMMA GreatestExists ==
  ASSUME NEW S, S # {}, NEW n \in Nat, S \subseteq 0..n
  PROVE  \E x \in S : \A y \in S : y <= x
<1> DEFINE T == {k \in Nat : \E x \in S : k = n - x}
<1>1. \A x \in S : n - x \in T
  OBVIOUS
<1>2. T \subseteq Nat /\ T # {}
  BY <1>1
<1>3. PICK k \in T : \A m \in T : k <= m
  <2> HIDE DEF T
  <2>. QED BY <1>2, LeastExists
<1>4. PICK x \in S : k = n - x
  OBVIOUS
<1>5. \A y \in S : n - x <= n - y
  BY <1>1, <1>3, <1>4
<1>6. \A y \in S : y <= x
  BY <1>5
<1>. QED BY <1>6
-----------------------------------------------------------------------------
(* The history of a pool *)

Collected(s) == {s[k] : k \in DOMAIN s}
OneToOne(s) == \A k, l \in DOMAIN s : s[k] = s[l] => k = l
EventsOf(kind) == {j \in history!Window : chain[j].kind = kind}

\* What is handed out: events of the period without doubles, sorted, all of the mints
\* among them, and all of the others if every query was answered.
Replayable(s) ==
  /\ s \in Seq(history!Window) /\ OneToOne(s)
  /\ \A k, l \in DOMAIN s : k < l => ~history!Before(s[l], s[k])
  /\ EventsOf("mint") \subseteq Collected(s)
  /\ ~missed => history!Window \subseteq Collected(s)

\* What has been read when the query of a kind is asked: those of its events that are
\* noted as used, with all that are older than the last timestamp; none of the kinds to come.
ReadSoFar(kind) ==
  /\ usedTxIds = Collected(r) \cap EventsOf(kind)
  /\ \A j \in EventsOf(kind) : chain[j].time < lastTimestamp => j \in usedTxIds
\* The kinds that are done with.
ReadBefore ==
  /\ phase = "mint" => Collected(r) \cap (EventsOf("burn") \cup EventsOf("swap")) = {}
  /\ phase = "burn" => Collected(r) \cap EventsOf("swap") = {}
  /\ phase \in {"burn", "swap", "sort"} => EventsOf("mint") \subseteq Collected(r)
  /\ phase \in {"swap", "sort"} /\ ~missed => EventsOf("burn") \subseteq Collected(r)
  /\ phase = "sort" /\ ~missed => EventsOf("swap") \subseteq Collected(r)

HistoryInv ==
  /\ chain \in HistoryInstance.chains /\ lastTimestamp \in Nat
  /\ r \in Seq(history!Window) /\ OneToOne(r)
  /\ phase \in {"start", "mint", "burn", "swap", "sort", "done", "failed", "exited"}
  /\ phase = "start" => r = <<>>
  /\ phase \in {"mint", "burn", "swap"} => ReadSoFar(phase)
  /\ phase \notin {"mint", "burn", "swap"} => usedTxIds = {} /\ lastTimestamp = 0
  /\ ReadBefore
  /\ phase \in {"mint", "burn", "swap", "sort"} => cache = {}
  /\ \A s \in cache : Replayable(s)
  /\ phase = "done" => Replayable(r)

LEMMA CardinalityOfHistory == ASSUME NEW S PROVE history!Cardinality(S) = Cardinality(S)
  BY DEF Cardinality, history!Cardinality, IsFiniteSet, history!IsFiniteSet

LEMMA ChainIs ==
  ASSUME chain \in HistoryInstance.chains
  PROVE  /\ DOMAIN chain = 1..Len(chain) /\ Len(chain) \in Nat
         /\ \A j \in DOMAIN chain :
              /\ chain[j].kind \in {"mint", "burn", "swap"} /\ chain[j].time \in Nat /\ chain[j].of \in Nat
              /\ chain[j].of # 0 => /\ chain[j].kind # "mint" /\ chain[j].of \in DOMAIN chain
                                    /\ chain[chain[j].of].kind = "mint"
                                    /\ chain[chain[j].of].time <= chain[j].time
<1> DEFINE event == [kind : {"mint", "burn", "swap"}, time : Nat, of : Nat]
<1>1. chain \in Seq(event)
  BY ScriptAssumptions DEF history!ChainsAssumption
<1>2. DOMAIN chain = 1..Len(chain) /\ Len(chain) \in Nat
  BY <1>1
<1>3. \A j \in DOMAIN chain : chain[j] \in event
  <2> HIDE DEF event
  <2>. QED BY <1>1, <1>2
<1>4. \A j \in DOMAIN chain :
        chain[j].of # 0 => /\ chain[j].kind # "mint" /\ chain[j].of \in DOMAIN chain
                           /\ chain[chain[j].of].kind = "mint"
                           /\ chain[chain[j].of].time <= chain[j].time
  BY ScriptAssumptions DEF history!ChainsAssumption
<1>. QED BY <1>2, <1>3, <1>4

LEMMA WindowIs ==
  ASSUME chain \in HistoryInstance.chains
  PROVE  /\ IsFiniteSet(history!Window)
         /\ history!Window = EventsOf("mint") \cup EventsOf("burn") \cup EventsOf("swap")
         /\ \A j \in history!Window : /\ j \in DOMAIN chain /\ chain[j].time \in Nat
                                      /\ chain[j].time < HistoryInstance.end
         /\ HistoryInstance.end \in Nat /\ HistoryInstance.page \in Nat \ {0}
<1>1. IsFiniteSet(DOMAIN chain)
  BY ChainIs, FS_Interval
<1>2. history!Window \in SUBSET DOMAIN chain
  BY DEF history!Window
<1>3. HistoryInstance.end \in Nat /\ HistoryInstance.page \in Nat \ {0}
  BY ScriptAssumptions DEF history!PageSizeAssumption
<1>4. \A j \in history!Window : j \in DOMAIN chain /\ chain[j].time < HistoryInstance.end
  BY DEF history!Window, history!Time
<1>5. history!Window = EventsOf("mint") \cup EventsOf("burn") \cup EventsOf("swap")
  BY <1>4, ChainIs DEF EventsOf
<1>6. IsFiniteSet(history!Window)
  BY <1>1, <1>2, FS_Subset
<1>. QED BY <1>3, <1>4, <1>5, <1>6, ChainIs

\* What a sequence made of a set holds: each element once.
LEMMA SequenceOfSet ==
  ASSUME NEW S, IsFiniteSet(S), NEW s, s = history!SetToSeq(S)
  PROVE  s \in Seq(S) /\ OneToOne(s) /\ Collected(s) = S
<1> DEFINE n == Cardinality(S)
<1>1. n \in Nat /\ ExistsBijection(1..n, S)
  BY FS_CardinalityType
<1>2. PICK f \in [1..n -> S] : \A a, b \in 1..n : f[a] = f[b] => a = b
  BY <1>1 DEF ExistsBijection, Bijection, Injection, IsInjective
<1>3. history!IsInjective(f)
  BY <1>2 DEF history!IsInjective
<1>4. s \in [1..n -> S] /\ history!IsInjective(s)
  BY <1>2, <1>3, CardinalityOfHistory DEF history!SetToSeq
<1>5. s \in Injection(1..n, S)
  BY <1>4 DEF history!IsInjective, Injection, IsInjective
<1>6. IsFiniteSet(1..n) /\ Cardinality(1..n) = n
  BY <1>1, FS_Interval
<1>7. s \in Surjection(1..n, S)
  BY <1>5, <1>6, FS_Injection
<1>8. \A e \in S : \E k \in 1..n : s[k] = e
  BY <1>7 DEF Surjection
<1> HIDE DEF n
<1>9. DOMAIN s = 1..n /\ s \in Seq(S)
  BY <1>1, <1>4
<1>10. OneToOne(s)
  BY <1>4 DEF history!IsInjective, OneToOne
<1>11. Collected(s) = S
  BY <1>4, <1>8, <1>9 DEF Collected
<1>. QED BY <1>9, <1>10, <1>11

\* Adding events that are not there yet.
LEMMA AddedOnce ==
  ASSUME NEW S, NEW s \in Seq(S), NEW t \in Seq(S), OneToOne(s), OneToOne(t), Collected(s) \cap Collected(t) = {}
  PROVE  /\ s \o t \in Seq(S) /\ OneToOne(s \o t)
         /\ Collected(s \o t) = Collected(s) \cup Collected(t)
<1> DEFINE u == s \o t
<1>1. /\ DOMAIN s = 1..Len(s) /\ DOMAIN t = 1..Len(t) /\ Len(s) \in Nat /\ Len(t) \in Nat
      /\ u \in Seq(S) /\ DOMAIN u = 1..(Len(s) + Len(t))
      /\ \A k \in DOMAIN u : u[k] = IF k <= Len(s) THEN s[k] ELSE t[k - Len(s)]
  OBVIOUS
<1> HIDE DEF u
<1>2. \A k \in DOMAIN u : k \in DOMAIN s \/ k - Len(s) \in DOMAIN t
  BY <1>1
<1>3. \A k \in DOMAIN s : k \in DOMAIN u /\ u[k] = s[k]
  BY <1>1
<1>4. \A k \in DOMAIN t : k + Len(s) \in DOMAIN u /\ u[k + Len(s)] = t[k]
  BY <1>1
<1>5. Collected(u) = Collected(s) \cup Collected(t)
  <2>1. Collected(u) \subseteq Collected(s) \cup Collected(t)
    BY <1>1, <1>2 DEF Collected
  <2>2. Collected(s) \subseteq Collected(u) /\ Collected(t) \subseteq Collected(u)
    BY <1>3, <1>4 DEF Collected
  <2>. QED BY <2>1, <2>2
<1>6. OneToOne(u)
  <2> SUFFICES ASSUME NEW k \in DOMAIN u, NEW l \in DOMAIN u, u[k] = u[l] PROVE k = l
    BY DEF OneToOne
  <2>1. k \in 1..(Len(s) + Len(t)) /\ l \in 1..(Len(s) + Len(t))
    BY <1>1
  <2>2. CASE k <= Len(s) /\ l <= Len(s)
    BY <1>1, <2>1, <2>2 DEF OneToOne
  <2>3. CASE k > Len(s) /\ l > Len(s)
    <3>1. k - Len(s) \in DOMAIN t /\ l - Len(s) \in DOMAIN t /\ t[k - Len(s)] = t[l - Len(s)]
      BY <1>1, <2>1, <2>3
    <3>2. k - Len(s) = l - Len(s)
      BY <3>1 DEF OneToOne
    <3>. QED BY <1>1, <2>1, <3>2
  <2>4. CASE k <= Len(s) /\ l > Len(s)
    <3>1. u[k] \in Collected(s)
      BY <1>1, <2>1, <2>4 DEF Collected
    <3>2. u[l] \in Collected(t)
      BY <1>1, <2>1, <2>4 DEF Collected
    <3>. QED BY <3>1, <3>2
  <2>5. CASE k > Len(s) /\ l <= Len(s)
    <3>1. u[l] \in Collected(s)
      BY <1>1, <2>1, <2>5 DEF Collected
    <3>2. u[k] \in Collected(t)
      BY <1>1, <2>1, <2>5 DEF Collected
    <3>. QED BY <3>1, <3>2
  <2>. QED BY <1>1, <2>1, <2>2, <2>3, <2>4, <2>5
<1>. QED BY <1>1, <1>5, <1>6 DEF u
LEMMA HistoryRestsOn ==
  ASSUME chain' = chain
  PROVE  /\ history!Window' = history!Window /\ \A kind : EventsOf(kind)' = EventsOf(kind)
         /\ missed' = missed => \A s : Replayable(s)' <=> Replayable(s)
<1>1. history!Window' = history!Window
  BY DEF history!Window, history!Time
<1>2. \A kind : EventsOf(kind)' = EventsOf(kind)
  BY <1>1 DEF EventsOf
<1>3. \A k, l : history!Before(k, l)' <=> history!Before(k, l)
  BY DEF history!Before, history!Time
<1>. QED BY <1>1, <1>2, <1>3 DEF Replayable, Collected, OneToOne

\* A page: the oldest events not older than the last timestamp, all of them if it is not full.
LEMMA PageIs ==
  ASSUME chain \in HistoryInstance.chains, lastTimestamp \in Nat,
         NEW kind \in {"mint", "burn", "swap"}, NEW page \in history!Pages(kind)
  PROVE  /\ page \subseteq EventsOf(kind) /\ IsFiniteSet(page)
         /\ \A i_1 \in page, j \in EventsOf(kind) \ page :
              chain[j].time >= lastTimestamp => chain[i_1].time <= chain[j].time
         /\ history!Cardinality(page) \in Nat
         /\ history!Cardinality(page) < HistoryInstance.page =>
              \A j \in EventsOf(kind) : chain[j].time >= lastTimestamp => j \in page
         /\ history!Cardinality(page) = HistoryInstance.page => page # {}
<1> DEFINE matching == {j \in EventsOf(kind) : chain[j].time >= lastTimestamp}
<1>1. history!Matching(kind) = matching
  BY DEF history!Matching, EventsOf, history!Window, history!Time
<1>2. EventsOf(kind) \in SUBSET history!Window /\ matching \in SUBSET history!Window
  BY DEF EventsOf
<1>3. IsFiniteSet(matching) /\ Cardinality(matching) \in Nat
  BY <1>2, WindowIs, FS_Subset, FS_CardinalityType
<1>4. page \in SUBSET matching /\ \A k \in page, j \in matching \ page : chain[k].time <= chain[j].time
  BY <1>1 DEF history!Pages, history!Time
<1>5. Cardinality(page) = IF Cardinality(matching) < HistoryInstance.page
                          THEN Cardinality(matching) ELSE HistoryInstance.page
  BY <1>1, CardinalityOfHistory DEF history!Pages
<1> HIDE DEF matching
<1>6. IsFiniteSet(page) /\ Cardinality(page) \in Nat /\ (Cardinality(page) = Cardinality(matching) => matching = page)
  BY <1>3, <1>4, FS_Subset, FS_CardinalityType
<1>7. HistoryInstance.page \in Nat \ {0}
  BY WindowIs
<1>8. Cardinality(page) < HistoryInstance.page => matching = page
  BY <1>3, <1>5, <1>6, <1>7
<1>9. Cardinality(page) = HistoryInstance.page => page # {}
  BY <1>6, <1>7, FS_EmptySet
<1>10. history!Cardinality(page) = Cardinality(page)
  BY CardinalityOfHistory
<1>11. page \subseteq EventsOf(kind)
  BY <1>4 DEF matching
<1>12. \A k \in page, j \in EventsOf(kind) \ page :
         chain[j].time >= lastTimestamp => chain[k].time <= chain[j].time
  BY <1>4 DEF matching
<1>13. Cardinality(page) < HistoryInstance.page =>
         \A j \in EventsOf(kind) : chain[j].time >= lastTimestamp => j \in page
  BY <1>8 DEF matching
<1>. QED BY <1>6, <1>9, <1>10, <1>11, <1>12, <1>13

LEMMA LastOfPage ==
  ASSUME chain \in HistoryInstance.chains, NEW page, page # {}, page \subseteq history!Window
  PROVE  /\ history!LastOf(page) \in Nat
         /\ \E k \in page : chain[k].time = history!LastOf(page)
<1> DEFINE times == {chain[k].time : k \in page}
<1>1. times # {} /\ times \subseteq 0..HistoryInstance.end /\ HistoryInstance.end \in Nat
  BY WindowIs
<1>2. \E t \in times : \A u \in times : u <= t
  <2> HIDE DEF times
  <2>. QED BY <1>1, GreatestExists
<1>3. \E t \in times : \A k \in page : chain[k].time <= t
  BY <1>2
<1>4. history!LastOf(page) \in times
  BY <1>3 DEF history!LastOf, history!Time
<1>. QED BY <1>1, <1>4

\* Reading a page adds what it holds, once.
LEMMA PageAdds ==
  ASSUME HistoryInv, NEW kind \in {"mint", "burn", "swap"}, phase = kind,
         NEW page \in history!Pages(kind), r' = r \o history!NewEvents(page), chain' = chain
  PROVE  /\ r' \in Seq(history!Window)' /\ OneToOne(r')
         /\ Collected(r') = Collected(r) \cup page
<1> DEFINE new == page \ usedTxIds
           s == history!NewEvents(page)
<1>1. page \subseteq EventsOf(kind) /\ IsFiniteSet(page)
  BY PageIs DEF HistoryInv
<1>2. new \in SUBSET page
  OBVIOUS
<1>3. IsFiniteSet(new)
  BY <1>1, <1>2, FS_Subset
<1>4. s = history!SetToSeq(new)
  BY DEF history!NewEvents
<1> HIDE DEF s
<1>5. s \in Seq(new) /\ OneToOne(s) /\ Collected(s) = new
  <2> HIDE DEF new
  <2>. QED BY <1>3, <1>4, SequenceOfSet
<1>6. new \subseteq history!Window
  BY <1>1 DEF EventsOf
<1>7. s \in Seq(history!Window)
  <2> HIDE DEF new
  <2>1. s \in Seq(new)
    BY <1>5
  <2>. QED BY <2>1, <1>6
<1>8. usedTxIds = Collected(r) \cap EventsOf(kind)
  BY DEF HistoryInv, ReadSoFar
<1>9. Collected(r) \cap Collected(s) = {}
  BY <1>1, <1>5, <1>8
<1>10. r \in Seq(history!Window) /\ OneToOne(r)
  BY DEF HistoryInv
<1>11. r' = r \o s
  BY DEF s
<1>12. r' \in Seq(history!Window) /\ OneToOne(r') /\ Collected(r') = Collected(r) \cup Collected(s)
  BY <1>7, <1>5, <1>9, <1>10, <1>11, AddedOnce
<1>13. Collected(r) \cup Collected(s) = Collected(r) \cup page
  BY <1>5, <1>8
<1>14. history!Window' = history!Window
  BY HistoryRestsOn
<1>. QED BY <1>12, <1>13, <1>14

\* The kinds of events are disjoint.
LEMMA KindsAreDisjoint ==
  /\ EventsOf("mint") \cap EventsOf("burn") = {}
  /\ EventsOf("mint") \cap EventsOf("swap") = {}
  /\ EventsOf("burn") \cap EventsOf("swap") = {}
  BY DEF EventsOf

Follows(kind, next) ==
  \/ kind = "mint" /\ next = "burn"
  \/ kind = "burn" /\ next = "swap"
  \/ kind = "swap" /\ next \in {"sort", "exited"}

LEMMA PageKeeps ==
  ASSUME HistoryInv, NEW kind, NEW next, Follows(kind, next),
         phase = kind, NEW page, page \in history!Pages(kind), r' = r \o history!NewEvents(page),
         history!MorePages(page) \/ history!LastPage(page, next),
         UNCHANGED <<chain, cache, runs, missed>>
  PROVE  HistoryInv'
<1> USE DEF Follows
<1>1. kind \in {"mint", "burn", "swap"}
  OBVIOUS
<1>2. /\ page \subseteq EventsOf(kind) /\ history!Cardinality(page) \in Nat
      /\ \A k \in page, j \in EventsOf(kind) \ page :
           chain[j].time >= lastTimestamp => chain[k].time <= chain[j].time
      /\ history!Cardinality(page) < HistoryInstance.page =>
           \A j \in EventsOf(kind) : chain[j].time >= lastTimestamp => j \in page
      /\ history!Cardinality(page) = HistoryInstance.page => page # {}
  BY <1>1, PageIs DEF HistoryInv
<1>3. r' \in Seq(history!Window)' /\ OneToOne(r') /\ Collected(r') = Collected(r) \cup page
  BY <1>1, PageAdds
<1>4. history!Window' = history!Window /\ \A k : EventsOf(k)' = EventsOf(k)
  BY HistoryRestsOn
<1>5. /\ usedTxIds = Collected(r) \cap EventsOf(kind) /\ lastTimestamp \in Nat
      /\ \A j \in EventsOf(kind) : chain[j].time < lastTimestamp => j \in usedTxIds
  BY <1>1 DEF HistoryInv, ReadSoFar
<1>6. chain \in HistoryInstance.chains /\ \A j \in history!Window : chain[j].time \in Nat
  BY WindowIs DEF HistoryInv
<1>7. cache = {} /\ cache' = {}
  BY <1>1 DEF HistoryInv
<1>8. CASE history!MorePages(page)
  <2>1. page # {} /\ phase' = kind /\ lastTimestamp' = history!LastOf(page) /\ usedTxIds' = usedTxIds \cup page
    BY <1>2, <1>8 DEF history!MorePages
  <2>2. page \subseteq history!Window
    BY <1>2 DEF EventsOf
  <2>3. lastTimestamp' \in Nat /\ \E k \in page : chain[k].time = lastTimestamp'
    BY <1>6, <2>1, <2>2, LastOfPage
  <2>4. usedTxIds' = Collected(r') \cap EventsOf(kind)
    BY <1>2, <1>3, <1>5, <2>1
  <2>5. \A j \in EventsOf(kind) : chain[j].time < lastTimestamp' => j \in usedTxIds'
    <3> SUFFICES ASSUME NEW j \in EventsOf(kind), chain[j].time < lastTimestamp', j \notin page
                 PROVE  j \in usedTxIds
      BY <2>1
    <3>1. PICK k \in page : chain[k].time = lastTimestamp'
      BY <2>3
    <3>2. chain[j].time \in Nat
      BY <1>6 DEF EventsOf
    <3>3. ~(chain[j].time >= lastTimestamp)
      BY <1>2, <2>3, <3>1, <3>2
    <3>. QED BY <1>5, <3>2, <3>3
  <2>6. ReadSoFar(kind)'
    BY <1>4, <2>4, <2>5 DEF ReadSoFar
  <2>7. ReadBefore'
    <3>1. ReadBefore
      BY DEF HistoryInv
    <3>. QED BY <1>2, <1>3, <1>4, <2>1, <3>1, KindsAreDisjoint DEF ReadBefore
  <2>. QED BY <1>1, <1>3, <1>6, <1>7, <2>1, <2>3, <2>6, <2>7 DEF HistoryInv
<1>9. CASE history!LastPage(page, next)
  <2>1. /\ history!Cardinality(page) < HistoryInstance.page
        /\ phase' = next /\ lastTimestamp' = 0 /\ usedTxIds' = {}
    BY <1>9 DEF history!LastPage, history!MoveTo, history!StartTime
  <2>2. EventsOf(kind) \subseteq Collected(r')
    <3> SUFFICES ASSUME NEW j \in EventsOf(kind), j \notin page PROVE j \in Collected(r)
      BY <1>3
    <3>1. chain[j].time \in Nat
      BY <1>6 DEF EventsOf
    <3>2. chain[j].time < lastTimestamp
      BY <1>2, <1>5, <2>1, <3>1
    <3>. QED BY <1>5, <3>2
  <2>3. ReadBefore'
    <3>1. ReadBefore
      BY DEF HistoryInv
    <3>. QED BY <1>2, <1>3, <1>4, <2>1, <2>2, <3>1, KindsAreDisjoint DEF ReadBefore
  <2>4. (phase \in {"mint", "burn", "swap"} => ReadSoFar(phase))'
    <3> SUFFICES ASSUME next \in {"burn", "swap"} PROVE ReadSoFar(next)'
      BY <2>1
    <3>1. Collected(r') \cap EventsOf(next) = {}
      <4>1. ReadBefore
        BY DEF HistoryInv
      <4>2. Collected(r) \cap EventsOf(next) = {} /\ EventsOf(kind) \cap EventsOf(next) = {}
        BY <4>1, KindsAreDisjoint DEF ReadBefore
      <4>. QED BY <1>2, <1>3, <4>2
    <3>2. \A j \in EventsOf(next) : ~(chain[j].time < 0)
      BY <1>6 DEF EventsOf
    <3>. QED BY <1>4, <2>1, <3>1, <3>2 DEF ReadSoFar
  <2>5. phase' \notin {"start", "done", "mint"} /\ phase' \in {"burn", "swap", "sort", "exited"}
    BY <2>1
  <2>. QED BY <1>1, <1>3, <1>6, <1>7, <2>1, <2>3, <2>4, <2>5 DEF HistoryInv
<1>. QED BY <1>8, <1>9
\* Sorting keeps the events, and brings each mint before what takes its liquidity.
LEMMA SortedIsReplayable ==
  ASSUME HistoryInv, phase = "sort", NEW s \in history!Arrangements
  PROVE  Replayable(s)
<1>1. PICK f \in history!Bijection(DOMAIN r, DOMAIN r) : s = [k \in DOMAIN r |-> r[f[k]]]
  BY DEF history!Arrangements
<1>2. \A k, l \in DOMAIN s : k < l => ~history!Before(s[l], s[k])
  BY DEF history!Arrangements
<1>3. /\ f \in [DOMAIN r -> DOMAIN r]
      /\ \A k, l \in DOMAIN r : f[k] = f[l] => k = l
      /\ \A l \in DOMAIN r : \E k \in DOMAIN r : f[k] = l
  BY DEF history!Bijection, history!Injection, history!Surjection, history!IsInjective
<1>4. r \in Seq(history!Window) /\ OneToOne(r)
  BY DEF HistoryInv
<1>5. DOMAIN r = 1..Len(r) /\ Len(r) \in Nat /\ \A k \in DOMAIN r : r[k] \in history!Window
  BY <1>4
<1>6. DOMAIN s = 1..Len(r) /\ \A k \in DOMAIN s : s[k] = r[f[k]] /\ s[k] \in history!Window
  BY <1>1, <1>3, <1>5
<1>7. s \in Seq(history!Window)
  <2>1. s \in [1..Len(r) -> history!Window]
    BY <1>1, <1>5, <1>6
  <2>. QED BY <1>5, <2>1
<1>8. OneToOne(s)
  BY <1>3, <1>4, <1>5, <1>6 DEF OneToOne
<1>9. Collected(r) \subseteq Collected(s)
  BY <1>3, <1>5, <1>6 DEF Collected
<1>10. EventsOf("mint") \subseteq Collected(r) /\ (~missed => history!Window \subseteq Collected(r))
  <2>1. ReadBefore /\ history!Window = EventsOf("mint") \cup EventsOf("burn") \cup EventsOf("swap")
    BY WindowIs DEF HistoryInv
  <2>. QED BY <2>1 DEF ReadBefore
<1>. QED BY <1>2, <1>7, <1>8, <1>9, <1>10 DEF Replayable

LEMMA ReplayableIsRight ==
  ASSUME HistoryInv, Replayable(r)
  PROVE  history!HistoryCanBeReplayed
<1>1. r \in Seq(history!Window) /\ OneToOne(r) /\ chain \in HistoryInstance.chains
  BY DEF HistoryInv
<1>2. DOMAIN r = 1..Len(r) /\ Len(r) \in Nat /\ \A k \in DOMAIN r : r[k] \in history!Window
  BY <1>1
<1>3. \A j \in history!Window : j \in DOMAIN chain /\ chain[j].time \in Nat /\ chain[j].time < HistoryInstance.end
  BY <1>1, WindowIs
<1>4. \A k, l \in DOMAIN r : k < l => ~history!Before(r[l], r[k])
  BY DEF Replayable
<1>5. \A k, l \in DOMAIN r : k < l => history!Time(r[k]) <= history!Time(r[l])
  BY <1>2, <1>3, <1>4 DEF history!Before, history!Time
<1>6. ~missed => history!Range(r) = history!Window /\ history!IsInjective(r)
  BY <1>1, <1>2 DEF Replayable, Collected, history!Range, history!IsInjective, OneToOne
<1>7. ASSUME NEW l \in DOMAIN r, chain[r[l]].of # 0
      PROVE  \E k \in 1..(l - 1) : r[k] = chain[r[l]].of
  <2> DEFINE e == r[l]
             mint == chain[e].of
  <2>1. e \in DOMAIN chain /\ chain[e].time \in Nat /\ chain[e].time < HistoryInstance.end
    BY <1>2, <1>3
  <2>2. chain[e].kind # "mint" /\ mint \in DOMAIN chain /\ chain[mint].kind = "mint" /\ chain[mint].time <= chain[e].time
    BY <1>1, <1>7, <2>1, ChainIs
  <2>3. chain[mint].time \in Nat /\ HistoryInstance.end \in Nat
    BY <1>1, <2>2, ChainIs, WindowIs
  <2>4. mint \in EventsOf("mint")
    BY <2>1, <2>2, <2>3 DEF EventsOf, history!Window, history!Time
  <2>5. PICK k \in DOMAIN r : r[k] = mint
    BY <2>4 DEF Replayable, Collected
  <2>6. history!Before(mint, e)
    BY <2>1, <2>2, <2>3 DEF history!Before, history!Time
  <2>7. k # l
    BY <2>2, <2>5
  <2>8. ~(l < k)
    BY <1>4, <2>5, <2>6
  <2>. QED BY <1>2, <2>5, <2>7, <2>8
<1>. QED BY <1>5, <1>6, <1>7 DEF history!HistoryCanBeReplayed

LEMMA HistoryStep ==
  ASSUME script = "history", [Next]_vars
  PROVE  [history!Next]_(history!vars)
  BY DEF Next, InSender, InBot, InDebts, InHardWork, InWithdraw, InSearch, InHistory, InSnapshot, InReplay, InSync,
     BacktesterRests, vars, historyVars, history!vars

LEMMA HistoryBegins == ASSUME history!Init PROVE HistoryInv
<1>1. /\ chain \in HistoryInstance.chains /\ phase = "start" /\ lastTimestamp = 0
      /\ usedTxIds = {} /\ r = <<>> /\ cache = {}
  BY DEF history!Init, history!StartTime
<1>2. r \in Seq(history!Window) /\ OneToOne(r)
  BY <1>1 DEF OneToOne
<1>3. ReadBefore
  BY <1>1 DEF ReadBefore
<1>. QED BY <1>1, <1>2, <1>3 DEF HistoryInv

LEMMA HistoryKeeps == ASSUME HistoryInv, [history!Next]_(history!vars) PROVE HistoryInv'
<1>1. chain' = chain
  BY DEF history!Next, history!Step, history!ReadCache, history!BeginFetch, history!FetchMints, history!FetchBurns,
     history!FetchSwaps, history!SortAndWrite, history!MintsUnanswered, history!RestUnanswered, history!RunAgain, history!vars
<1>2. /\ history!Window' = history!Window /\ \A kind : EventsOf(kind)' = EventsOf(kind)
      /\ missed' = missed => \A s : Replayable(s)' <=> Replayable(s)
  BY <1>1, HistoryRestsOn
<1>3. CASE history!ReadCache
  BY <1>1, <1>2, <1>3 DEF history!ReadCache, HistoryInv, ReadBefore, Replayable
<1>4. CASE history!BeginFetch
  <2>1. /\ phase = "start" /\ phase' = "mint" /\ r = <<>> /\ r' = r /\ cache = {} /\ cache' = {}
        /\ usedTxIds' = {} /\ lastTimestamp' = 0
    BY <1>4 DEF history!BeginFetch, HistoryInv
  <2>2. Collected(r') = {} /\ OneToOne(r') /\ r' \in Seq(history!Window)
    BY <2>1 DEF Collected, OneToOne
  <2>3. \A j \in EventsOf("mint") : ~(chain[j].time < 0)
    BY WindowIs DEF EventsOf, HistoryInv
  <2>4. ReadSoFar("mint")'
    BY <1>1, <1>2, <2>1, <2>2, <2>3 DEF ReadSoFar
  <2>5. ReadBefore'
    BY <1>2, <2>1, <2>2 DEF ReadBefore
  <2>6. chain' \in HistoryInstance.chains
    BY <1>1 DEF HistoryInv
  <2>. QED BY <1>2, <2>1, <2>2, <2>4, <2>5, <2>6 DEF HistoryInv
<1>5. CASE history!FetchMints
  <2>1. phase = "mint" /\ UNCHANGED <<chain, cache, runs, missed>>
    BY <1>5 DEF history!FetchMints
  <2>2. PICK page \in history!Pages("mint") :
          /\ r' = r \o history!NewEvents(page)
          /\ history!MorePages(page) \/ history!LastPage(page, "burn")
    BY <1>5 DEF history!FetchMints
  <2>3. Follows("mint", "burn")
    BY DEF Follows
  <2>. QED BY <2>1, <2>2, <2>3, PageKeeps
<1>6. CASE history!FetchBurns
  <2>1. phase = "burn" /\ UNCHANGED <<chain, cache, runs, missed>>
    BY <1>6 DEF history!FetchBurns
  <2>2. PICK page \in history!Pages("burn") :
          /\ r' = r \o history!NewEvents(page)
          /\ history!MorePages(page) \/ history!LastPage(page, "swap")
    BY <1>6 DEF history!FetchBurns
  <2>3. Follows("burn", "swap")
    BY DEF Follows
  <2>. QED BY <2>1, <2>2, <2>3, PageKeeps
<1>7. CASE history!FetchSwaps
  <2>1. phase = "swap" /\ UNCHANGED <<chain, cache, runs, missed>>
    BY <1>7 DEF history!FetchSwaps
  <2>2. PICK page \in history!Pages("swap") :
          /\ r' = r \o history!NewEvents(page)
          /\ history!MorePages(page) \/ history!LastPage(page, IF page = {} THEN "exited" ELSE "sort")
    BY <1>7 DEF history!FetchSwaps
  <2> DEFINE next == IF page = {} THEN "exited" ELSE "sort"
  <2>3. Follows("swap", next)
    BY DEF Follows
  <2> HIDE DEF next
  <2>. QED BY <2>1, <2>2, <2>3, PageKeeps DEF next
<1>8. CASE history!MintsUnanswered
  BY <1>1, <1>2, <1>8 DEF history!MintsUnanswered, history!MoveTo, history!StartTime, HistoryInv, ReadBefore
<1>9. CASE history!RestUnanswered
  <2>1. /\ phase \in {"burn", "swap"} /\ phase' = history!NextPhase[phase] /\ lastTimestamp' = 0 /\ usedTxIds' = {}
        /\ missed' = TRUE /\ r' = r /\ cache' = cache
    BY <1>9 DEF history!RestUnanswered, history!MoveTo, history!StartTime
  <2>2. (phase = "burn" /\ phase' = "swap") \/ (phase = "swap" /\ phase' = "sort")
    BY <2>1 DEF history!NextPhase
  <2>3. cache' = {} /\ r' \in Seq(history!Window) /\ OneToOne(r') /\ chain' \in HistoryInstance.chains
    BY <1>1, <2>1 DEF HistoryInv
  <2>4. ReadBefore'
    BY <1>2, <2>1, <2>2 DEF HistoryInv, ReadBefore
  <2>5. \A j \in EventsOf("swap") : ~(chain[j].time < 0)
    BY WindowIs DEF EventsOf, HistoryInv
  <2>6. phase' = "swap" => ReadSoFar("swap")'
    BY <1>1, <1>2, <2>1, <2>2, <2>5 DEF HistoryInv, ReadBefore, ReadSoFar
  <2>. QED BY <1>2, <2>1, <2>2, <2>3, <2>4, <2>6 DEF HistoryInv
<1>10. CASE history!SortAndWrite
  <2>1. /\ phase = "sort" /\ r' \in history!Arrangements /\ cache' = {r'} /\ phase' = "done"
        /\ lastTimestamp' = lastTimestamp /\ usedTxIds' = usedTxIds /\ missed' = missed
    BY <1>10 DEF history!SortAndWrite
  <2>2. PICK s \in history!Arrangements : s = r'
    BY <2>1
  <2>3. Replayable(s)
    BY <2>1, SortedIsReplayable
  <2>4. Replayable(s)'
    BY <1>2, <2>1, <2>3
  <2>5. r' \in Seq(history!Window) /\ OneToOne(r') /\ Replayable(r)' /\ \A t \in cache' : Replayable(t)'
    BY <2>1, <2>2, <2>3, <2>4 DEF Replayable
  <2>6. chain' \in HistoryInstance.chains /\ usedTxIds' = {} /\ lastTimestamp' = 0
    BY <1>1, <2>1 DEF HistoryInv
  <2>7. ReadBefore'
    BY <2>1 DEF ReadBefore
  <2>. QED BY <1>2, <2>1, <2>5, <2>6, <2>7 DEF HistoryInv
<1>11. CASE history!RunAgain
  <2>1. r' = <<>> /\ phase' = "start" /\ phase \in {"done", "failed", "exited"}
        /\ UNCHANGED <<lastTimestamp, usedTxIds, cache, missed>>
    BY <1>11 DEF history!RunAgain, history!Ended
  <2>2. r' \in Seq(history!Window) /\ OneToOne(r') /\ ReadBefore'
    BY <2>1 DEF OneToOne, ReadBefore
  <2>. QED BY <1>1, <1>2, <2>1, <2>2 DEF HistoryInv
<1>12. CASE UNCHANGED history!vars
  BY <1>1, <1>2, <1>12 DEF history!vars, HistoryInv, ReadBefore, ReadSoFar, OneToOne, Collected
<1>. QED BY <1>3, <1>4, <1>5, <1>6, <1>7, <1>8, <1>9, <1>10, <1>11, <1>12 DEF history!Next, history!Step

\* THEOREM.  A history that is handed out can be replayed: all events of the period once
\* and in order if every query was answered, and no burn before its mint even if one was
\* not - for pages of any size, any chain and any number of runs (UniswapV3Utils.ts:68-205).
THEOREM HistoryIsReplayable == Spec => []HistoryCanBeReplayed
<1> DEFINE Inv == script = "history" => HistoryInv
<1>1. Init => Inv
  BY HistoryBegins DEF Init
<1>2. Inv /\ [Next]_vars => Inv'
  BY ScriptStays, HistoryStep, HistoryKeeps
<1>3. Inv => HistoryCanBeReplayed
  BY ReplayableIsRight DEF HistoryCanBeReplayed, HistoryInv, history!HistoryCanBeReplayed
<1>. QED BY <1>1, <1>2, <1>3, PTL DEF Spec
-----------------------------------------------------------------------------
(* Sums over a finite set *)

First(s) == CHOOSE x \in s : TRUE
\* The function that a fold defines: the sum over each set of indices.
Sums(f) ==
  CHOOSE sum : sum = [s \in SUBSET DOMAIN f |->
                        IF s = {} THEN 0 ELSE f[First(s)] + sum[s \ {First(s)}]]

LEMMA SumIs == ASSUME NEW f PROVE burns!SumFunction(f) = Sums(f)[DOMAIN f]
  BY DEF burns!SumFunction, burns!SumFunctionOnSet, burns!FoldFunctionOnSet, burns!MapThenFoldSet, Sums, First

LEMMA WithoutFirst ==
  ASSUME NEW s, IsFiniteSet(s), s # {}
  PROVE  /\ First(s) \in s /\ IsFiniteSet(s \ {First(s)})
         /\ Cardinality(s) \in Nat /\ Cardinality(s \ {First(s)}) \in Nat
         /\ Cardinality(s) = Cardinality(s \ {First(s)}) + 1
<1> DEFINE x == First(s)
           t == s \ {x}
<1>1. x \in s
  BY DEF First
<1> HIDE DEF x
<1>2. IsFiniteSet(t) /\ Cardinality(t) = Cardinality(s) - 1
  BY <1>1, FS_RemoveElement
<1>3. Cardinality(s) \in Nat /\ Cardinality(t) \in Nat
  BY <1>2, FS_CardinalityType
<1>. QED BY <1>1, <1>2, <1>3 DEF x

LEMMA SubsetInduction ==
  ASSUME NEW D, IsFiniteSet(D), NEW P, {} \in P,
         \A s \in SUBSET D : s # {} /\ s \ {First(s)} \in P => s \in P
  PROVE  SUBSET D \subseteq P
<1> DEFINE N == {n \in Nat : \A s \in SUBSET D : Cardinality(s) = n => s \in P}
<1>1. \A s \in SUBSET D : IsFiniteSet(s) /\ Cardinality(s) \in Nat
  BY FS_Subset, FS_CardinalityType
<1>2. 0 \in N
  <2>1. \A s \in SUBSET D : Cardinality(s) = 0 => s = {}
    BY <1>1, FS_EmptySet
  <2>. QED BY <2>1
<1>3. \A n \in Nat : n \in N => n + 1 \in N
  <2> SUFFICES ASSUME NEW n \in Nat, n \in N, NEW s \in SUBSET D, Cardinality(s) = n + 1 PROVE s \in P
    OBVIOUS
  <2>1. s # {}
    BY FS_EmptySet
  <2>2. Cardinality(s \ {First(s)}) = n /\ s \ {First(s)} \in SUBSET D
    BY <1>1, <2>1, WithoutFirst
  <2>3. s \ {First(s)} \in P
    BY <2>2
  <2>. QED BY <2>1, <2>3
<1> HIDE DEF N
<1>4. Nat \subseteq N
  BY <1>2, <1>3, SetInduction
<1>. QED BY <1>1, <1>4 DEF N

LEMMA SumsUnfold ==
  ASSUME NEW f, IsFiniteSet(DOMAIN f)
  PROVE  Sums(f) = [s \in SUBSET DOMAIN f |->
                      IF s = {} THEN 0 ELSE f[First(s)] + Sums(f)[s \ {First(s)}]]
<1> DEFINE D == DOMAIN f
           Upto(n) == {s \in SUBSET D : Cardinality(s) <= n}
           Body(s, h) == IF s = {} THEN 0 ELSE f[First(s)] + h[s \ {First(s)}]
           Known == {n \in Nat : \E h : h = [s \in Upto(n) |-> Body(s, h)]}
<1>1. \A s \in SUBSET D : IsFiniteSet(s) /\ Cardinality(s) \in Nat
  BY FS_Subset, FS_CardinalityType
<1>2. \A n \in Nat : \A s \in Upto(n + 1) : s # {} => s \ {First(s)} \in Upto(n)
  <2> SUFFICES ASSUME NEW n \in Nat, NEW s \in Upto(n + 1), s # {} PROVE s \ {First(s)} \in Upto(n)
    OBVIOUS
  <2>1. Cardinality(s) = Cardinality(s \ {First(s)}) + 1 /\ Cardinality(s \ {First(s)}) \in Nat
    BY <1>1, WithoutFirst
  <2>2. Cardinality(s \ {First(s)}) <= n
    BY <2>1
  <2>. QED BY <2>2
<1>3. \A n \in Nat : Upto(n) \subseteq Upto(n + 1)
  BY <1>1
<1>4. \A s \in Upto(0) : s = {}
  BY <1>1, FS_EmptySet
<1>5. 0 \in Known
  <2> DEFINE h == [s \in Upto(0) |-> 0]
  <2>1. h = [s \in Upto(0) |-> Body(s, h)]
    BY <1>4
  <2> HIDE DEF h, Body, Upto
  <2>. QED BY <2>1
<1>6. \A n \in Nat : n \in Known => n + 1 \in Known
  <2> SUFFICES ASSUME NEW n \in Nat, NEW h, h = [s \in Upto(n) |-> Body(s, h)] PROVE n + 1 \in Known
    OBVIOUS
  <2> DEFINE g == [s \in Upto(n + 1) |-> Body(s, h)]
  <2> HIDE DEF Upto
  <2>1. \A s \in Upto(n) : g[s] = h[s]
    BY <1>3
  <2> HIDE DEF g
  <2>2. \A s \in Upto(n + 1) : Body(s, g) = Body(s, h)
    <3> SUFFICES ASSUME NEW s \in Upto(n + 1), s # {} PROVE g[s \ {First(s)}] = h[s \ {First(s)}]
      OBVIOUS
    <3>1. s \ {First(s)} \in Upto(n)
      BY <1>2
    <3>. QED BY <2>1, <3>1
  <2> HIDE DEF Body
  <2>3. g = [s \in Upto(n + 1) |-> Body(s, g)]
    BY <2>2 DEF g
  <2>. QED BY <2>3
<1> HIDE DEF Known
<1>7. Nat \subseteq Known
  BY <1>5, <1>6, SetInduction
<1>8. Cardinality(D) \in Nat /\ Upto(Cardinality(D)) = SUBSET D
  BY <1>1, FS_Subset
<1>9. \E h : h = [s \in SUBSET D |-> Body(s, h)]
  BY <1>7, <1>8 DEF Known
<1>. QED BY <1>9 DEF Sums

\* A sum by one index more.
LEMMA SumOf ==
  ASSUME NEW D, IsFiniteSet(D), NEW f \in [D -> Nat]
  PROVE  /\ Sums(f)[{}] = 0
         /\ \A s \in SUBSET D : s # {} => Sums(f)[s] = f[First(s)] + Sums(f)[s \ {First(s)}]
  BY SumsUnfold

LEMMA SumIsNatural ==
  ASSUME NEW D, IsFiniteSet(D), NEW f \in [D -> Nat]
  PROVE  \A s \in SUBSET D : Sums(f)[s] \in Nat
<1> DEFINE P == {s \in SUBSET D : Sums(f)[s] \in Nat}
<1>1. {} \in P
  BY SumOf
<1>2. \A s \in SUBSET D : s # {} /\ s \ {First(s)} \in P => s \in P
  <2> SUFFICES ASSUME NEW s \in SUBSET D, s # {}, s \ {First(s)} \in P PROVE Sums(f)[s] \in Nat
    OBVIOUS
  <2>1. First(s) \in D
    BY DEF First
  <2>2. Sums(f)[s] = f[First(s)] + Sums(f)[s \ {First(s)}]
    BY SumOf
  <2>. QED BY <2>1, <2>2
<1> HIDE DEF P
<1>3. SUBSET D \subseteq P
  BY <1>1, <1>2, SubsetInduction
<1>. QED BY <1>3 DEF P

LEMMA SumGrows ==
  ASSUME NEW D, IsFiniteSet(D), NEW f \in [D -> Nat], NEW h \in [D -> Nat], \A d \in D : f[d] <= h[d]
  PROVE  \A s \in SUBSET D : Sums(f)[s] <= Sums(h)[s]
<1> DEFINE P == {s \in SUBSET D : Sums(f)[s] <= Sums(h)[s]}
<1>1. {} \in P
  BY SumOf
<1>2. \A s \in SUBSET D : s # {} /\ s \ {First(s)} \in P => s \in P
  <2> SUFFICES ASSUME NEW s \in SUBSET D, s # {}, s \ {First(s)} \in P PROVE Sums(f)[s] <= Sums(h)[s]
    OBVIOUS
  <2>1. First(s) \in D
    BY DEF First
  <2>2. Sums(f)[s] = f[First(s)] + Sums(f)[s \ {First(s)}]
    BY SumOf
  <2>3. Sums(h)[s] = h[First(s)] + Sums(h)[s \ {First(s)}]
    BY SumOf
  <2>4. Sums(f)[s \ {First(s)}] \in Nat /\ Sums(h)[s \ {First(s)}] \in Nat
    BY SumIsNatural
  <2>. QED BY <2>1, <2>2, <2>3, <2>4
<1> HIDE DEF P
<1>3. SUBSET D \subseteq P
  BY <1>1, <1>2, SubsetInduction
<1>. QED BY <1>3 DEF P

\* Where one summand changes the sum changes by as much.
LEMMA SumMoves ==
  ASSUME NEW D, IsFiniteSet(D), NEW f \in [D -> Nat], NEW h \in [D -> Nat], NEW g \in D,
         \A d \in D \ {g} : f[d] = h[d]
  PROVE  \A s \in SUBSET D : Sums(h)[s] = Sums(f)[s] + (IF g \in s THEN h[g] - f[g] ELSE 0)
<1> DEFINE P == {s \in SUBSET D : Sums(h)[s] = Sums(f)[s] + (IF g \in s THEN h[g] - f[g] ELSE 0)}
<1>1. {} \in P
  BY SumOf
<1>2. \A s \in SUBSET D : s # {} /\ s \ {First(s)} \in P => s \in P
  <2> SUFFICES ASSUME NEW s \in SUBSET D, s # {}, s \ {First(s)} \in P
               PROVE  Sums(h)[s] = Sums(f)[s] + (IF g \in s THEN h[g] - f[g] ELSE 0)
    OBVIOUS
  <2> DEFINE x == First(s)
             t == s \ {x}
  <2>1. x \in D /\ x \in s
    BY DEF First
  <2>2. Sums(f)[s] = f[x] + Sums(f)[t] /\ Sums(h)[s] = h[x] + Sums(h)[t]
    BY SumOf
  <2>3. Sums(f)[t] \in Nat /\ Sums(h)[t] \in Nat
    BY SumIsNatural
  <2>4. Sums(h)[t] = Sums(f)[t] + (IF g \in t THEN h[g] - f[g] ELSE 0)
    OBVIOUS
  <2> HIDE DEF x
  <2>5. CASE x = g
    <3>1. g \notin t /\ g \in s
      BY <2>1, <2>5
    <3>. QED BY <2>1, <2>2, <2>3, <2>4, <2>5, <3>1
  <2>6. CASE x # g
    <3>1. (g \in t <=> g \in s) /\ f[x] = h[x]
      BY <2>1, <2>6
    <3>. QED BY <2>1, <2>2, <2>3, <2>4, <3>1
  <2>. QED BY <2>5, <2>6
<1> HIDE DEF P
<1>3. SUBSET D \subseteq P
  BY <1>1, <1>2, SubsetInduction
<1>. QED BY <1>3 DEF P

LEMMA PartOfSum ==
  ASSUME NEW D, IsFiniteSet(D), NEW f \in [D -> Nat], NEW g \in D
  PROVE  f[g] <= Sums(f)[D]
<1> DEFINE h == [f EXCEPT ![g] = 0]
<1>1. h \in [D -> Nat] /\ h[g] = 0 /\ \A d \in D \ {g} : f[d] = h[d]
  OBVIOUS
<1> HIDE DEF h
<1>2. Sums(h)[D] = Sums(f)[D] + (h[g] - f[g])
  BY <1>1, SumMoves
<1>3. Sums(h)[D] \in Nat /\ Sums(f)[D] \in Nat
  BY <1>1, SumIsNatural
<1>. QED BY <1>1, <1>2, <1>3

-----------------------------------------------------------------------------
(* Mints and burns of the backtest *)

LEMMA SplitAdds ==
  ASSUME NEW a \in Nat, NEW b \in Nat, NEW w \in Nat \ {0}
  PROVE  a \div w + b \div w <= (a + b) \div w /\ (a + b) \div w <= a \div w + b \div w + 1
<1> DEFINE p == a \div w
           q == b \div w
           s == (a + b) \div w
<1>1. p \in Nat /\ p * w <= a /\ a < p * w + w
  OBVIOUS
<1>2. q \in Nat /\ q * w <= b /\ b < q * w + w
  OBVIOUS
<1>3. s \in Nat /\ s * w <= a + b /\ a + b < s * w + w
  OBVIOUS
<1> HIDE DEF p, q, s
<1>4. p + q <= s
  <2> SUFFICES ASSUME s + 1 <= p + q PROVE FALSE
    BY <1>1, <1>2, <1>3
  <2>1. (p + q - s - 1) * w >= 0 /\ (p + q - s - 1) * w = p * w + q * w - s * w - w
    BY <1>1, <1>2, <1>3
  <2>. QED BY <1>1, <1>2, <1>3, <2>1
<1>5. s <= p + q + 1
  <2> SUFFICES ASSUME p + q + 2 <= s PROVE FALSE
    BY <1>1, <1>2, <1>3
  <2>1. (s - p - q - 2) * w >= 0 /\ (s - p - q - 2) * w = s * w - p * w - q * w - 2 * w
    BY <1>1, <1>2, <1>3
  <2>. QED BY <1>1, <1>2, <1>3, <2>1
<1>. QED BY <1>4, <1>5 DEF p, q, s

\* What is scaled to the part of a range and split there is no more than what is split at once.
LEMMA ScaledSplit ==
  ASSUME NEW a \in Nat, NEW c \in Nat \ {0}, NEW w \in Nat \ {0}
  PROVE  ((a * c) \div w) \div c \in Nat /\ ((a * c) \div w) \div c <= a \div w
<1> DEFINE s == (a * c) \div w
           d == s \div c
           p == a \div w
<1>1. a * c \in Nat
  OBVIOUS
<1>2. s \in Nat /\ s * w <= a * c
  <2> DEFINE y == a * c
  <2> HIDE DEF y
  <2>1. y \in Nat => (y \div w \in Nat /\ (y \div w) * w <= y)
    OBVIOUS
  <2>. QED BY <1>1, <2>1 DEF y
<1> HIDE DEF s
<1>3. d \in Nat /\ d * c <= s
  BY <1>2
<1>4. p \in Nat /\ a < p * w + w
  OBVIOUS
<1> HIDE DEF d, p
<1>5. d * w <= a
  <2> SUFFICES ASSUME a + 1 <= d * w PROVE FALSE
    BY <1>3
  <2>1. (s - d * c) * w >= 0 /\ (s - d * c) * w = s * w - (d * c) * w
    BY <1>2, <1>3
  <2>2. (d * w - a - 1) * c >= 0 /\ (d * w - a - 1) * c = (d * w) * c - a * c - c
    BY <1>3
  <2>3. (d * c) * w = (d * w) * c
    BY <1>3
  <2>. QED BY <1>1, <1>2, <1>3, <2>1, <2>2, <2>3
<1>6. d <= p
  <2> SUFFICES ASSUME p + 1 <= d PROVE FALSE
    BY <1>3, <1>4
  <2>1. (d - p - 1) * w >= 0 /\ (d - p - 1) * w = d * w - p * w - w
    BY <1>3, <1>4
  <2>. QED BY <1>3, <1>4, <1>5, <2>1
<1>. QED BY <1>3, <1>6 DEF d, p, s

Positioned == BurnsInstance.ranges

LEMMA RangesAre ==
  /\ IsFiniteSet(Positioned)
  /\ \A g \in Positioned : g.lower \in Int /\ g.upper \in Int /\ burns!Width(g) \in Nat \ {0}
  /\ BurnsInstance.amounts \subseteq Nat /\ BurnsInstance.lo \in Int /\ BurnsInstance.hi \in Int
<1>1. burns!IsFiniteSet(Positioned) => IsFiniteSet(Positioned)
  BY DEF IsFiniteSet, burns!IsFiniteSet
<1>2. /\ Positioned \subseteq [lower : Int, upper : Int] /\ burns!IsFiniteSet(Positioned)
      /\ \A g \in Positioned : g.lower < g.upper
      /\ BurnsInstance.amounts \subseteq Nat /\ BurnsInstance.lo \in Int /\ BurnsInstance.hi \in Int
  BY ScriptAssumptions DEF burns!ReplayAssumption, Positioned
<1>3. \A g \in Positioned : g.lower \in Int /\ g.upper \in Int
  BY <1>2
<1>4. \A g \in Positioned : burns!Width(g) \in Nat \ {0}
  BY <1>2, <1>3 DEF burns!Width
<1>. QED BY <1>1, <1>2, <1>3, <1>4

\* The pieces a range is burned in are inside the range and the snapshot, and there are
\* none where it lies outside.
LEMMA PiecesAre ==
  ASSUME NEW g \in Positioned
  PROVE  /\ burns!MintPieces(g) = burns!BurnPieces(g)
         /\ \A t \in burns!BurnPieces(g) :
              /\ t \in Int /\ BurnsInstance.lo <= t /\ t <= BurnsInstance.hi
              /\ g.lower <= t /\ t < g.upper /\ t \in burns!Pieces
         /\ g.upper < BurnsInstance.lo \/ g.lower > BurnsInstance.hi => burns!BurnPieces(g) = {}
  BY RangesAre DEF burns!MintPieces, burns!BurnPieces, burns!LoopPieces, burns!Clipped, burns!Greatest, burns!Least,
     burns!Pieces

\* A burn takes from a piece no more than its share of the whole range.
LEMMA BurnIsShare ==
  ASSUME NEW g \in Positioned, NEW a \in Nat
  PROVE  burns!BurnPerPiece(g, a) \in Nat /\ burns!BurnPerPiece(g, a) <= a \div burns!Width(g)
<1> DEFINE w == burns!Width(g)
           c == burns!Width(burns!Clipped(g))
<1>1. w \in Nat \ {0} /\ c \in Int
  BY RangesAre DEF burns!Width, burns!Clipped, burns!Greatest, burns!Least
<1>2. burns!BurnPerPiece(g, a) \in {0, a \div w} \/ (c > 0 /\ burns!BurnPerPiece(g, a) = ((a * c) \div w) \div c)
  BY DEF burns!BurnPerPiece
<1> HIDE DEF w, c
<1>3. a \div w \in Nat
  BY <1>1
<1>4. ASSUME c > 0 PROVE ((a * c) \div w) \div c \in Nat /\ ((a * c) \div w) \div c <= a \div w
  <2>1. c \in Nat \ {0} /\ w \in Nat \ {0}
    BY <1>1, <1>4
  <2>. QED BY <2>1, ScaledSplit
<1>5. burns!BurnPerPiece(g, a) \in Nat /\ burns!BurnPerPiece(g, a) <= a \div w
  BY <1>2, <1>3, <1>4
<1>. QED BY <1>5 DEF w

\* What the positions whose pieces include t hold for each piece.
Share(p, t) ==
  [g \in Positioned |-> IF t \in burns!BurnPieces(g) THEN p[g] \div burns!Width(g) ELSE 0]
Shared(p, t) == Sums(Share(p, t))[Positioned]

\* In each piece of the snapshot there are the shares of all positions, but for what a mint rounds off.
BurnsInv ==
  /\ pos \in [Positioned -> Nat] /\ startBlock \subseteq burns!Event
  /\ minted \in [burns!Pieces -> Nat] /\ liq \in [burns!Pieces -> Nat]
  /\ ~startReplayed /\ phase \notin {"fill", "reverted"} =>
       \A t \in burns!Pieces : t \in BurnsInstance.lo .. BurnsInstance.hi => Shared(pos, t) <= liq[t] + minted[t]
  /\ ~startReplayed /\ phase = "reverted" => shortfall <= 0

LEMMA EventIs ==
  ASSUME NEW e \in burns!Event
  PROVE  e.range \in Positioned /\ e.amount \in Nat /\ e.kind \in {"mint", "burn"}
<1>1. e \in [kind : {"mint", "burn"}, range : Positioned, amount : BurnsInstance.amounts]
  BY DEF burns!Event, Positioned
<1>. QED BY <1>1, RangesAre

LEMMA AppliedIs ==
  ASSUME NEW p \in [Positioned -> Nat], NEW e \in burns!Event, burns!Legal(p, e)
  PROVE  /\ burns!Applied(p, e) \in [Positioned -> Nat]
         /\ \A g \in Positioned \ {e.range} : burns!Applied(p, e)[g] = p[g]
         /\ e.kind = "mint" => burns!Applied(p, e)[e.range] = p[e.range] + e.amount
         /\ e.kind = "burn" => /\ e.amount <= p[e.range]
                               /\ burns!Applied(p, e)[e.range] = p[e.range] - e.amount
<1>1. e.range \in Positioned /\ e.amount \in Nat /\ e.kind \in {"mint", "burn"}
  BY EventIs
<1>2. e.kind = "burn" => e.amount <= p[e.range]
  BY <1>1 DEF burns!Legal
<1>3. burns!Applied(p, e) = [p EXCEPT ![e.range] = IF e.kind = "mint" THEN @ + e.amount ELSE @ - e.amount]
  BY DEF burns!Applied
<1>. QED BY <1>1, <1>2, <1>3

LEMMA ReplayedIs ==
  ASSUME pos \in [Positioned -> Nat], startBlock \subseteq burns!Event,
         NEW e \in burns!Event, burns!Replayed(e)
  PROVE  /\ startBlock' \subseteq burns!Event
         /\ \/ pos' = pos
            \/ startBlock = {} /\ burns!Legal(pos, e) /\ pos' = burns!Applied(pos, e)
         /\ pos' \in [Positioned -> Nat]
  BY AppliedIs DEF burns!Replayed

LEMMA SharesAre ==
  ASSUME NEW t, NEW p \in [Positioned -> Nat]
  PROVE  Share(p, t) \in [Positioned -> Nat] /\ Shared(p, t) \in Nat
<1>1. \A g \in Positioned : p[g] \div burns!Width(g) \in Nat
  BY RangesAre
<1>2. Share(p, t) \in [Positioned -> Nat]
  BY <1>1 DEF Share
<1>3. Positioned \in SUBSET Positioned
  OBVIOUS
<1>. QED BY <1>2, <1>3, RangesAre, SumIsNatural DEF Shared

\* The snapshot gives a piece all that is active there, more than a share of it.
LEMMA SnapshotCovers ==
  ASSUME pos \in [Positioned -> Nat], NEW t \in Int
  PROVE  burns!Active(t) \in Nat /\ Shared(pos, t) <= burns!Active(t)
<1> DEFINE whole == [g \in Positioned |-> IF g.lower <= t /\ t < g.upper THEN pos[g] ELSE 0]
<1>1. whole \in [Positioned -> Nat]
  OBVIOUS
<1>2. \A g \in Positioned : Share(pos, t)[g] <= whole[g]
  <2> SUFFICES ASSUME NEW g \in Positioned PROVE Share(pos, t)[g] <= whole[g]
    OBVIOUS
  <2>1. burns!Width(g) \in Nat \ {0} /\ pos[g] \in Nat
    BY RangesAre
  <2>2. pos[g] \div burns!Width(g) <= pos[g]
    <3> DEFINE w == burns!Width(g)
               p == pos[g]
               q == p \div w
    <3>1. w \in Nat \ {0} /\ p \in Nat
      BY <2>1
    <3> HIDE DEF w, p
    <3>2. q \in Nat /\ q * w <= p
      BY <3>1
    <3> HIDE DEF q
    <3>3. q * (w - 1) >= 0 /\ q * (w - 1) = q * w - q
      BY <3>1, <3>2
    <3>4. q <= p
      BY <3>1, <3>2, <3>3
    <3>. QED BY <3>4 DEF q, p, w
  <2>3. t \in burns!BurnPieces(g) => g.lower <= t /\ t < g.upper
    BY PiecesAre
  <2>. QED BY <2>1, <2>2, <2>3 DEF Share
<1>3. burns!Active(t) = Sums(whole)[Positioned]
  BY SumIs DEF burns!Active, Positioned
<1> HIDE DEF whole
<1>4. Positioned \in SUBSET Positioned /\ Share(pos, t) \in [Positioned -> Nat] /\ IsFiniteSet(Positioned)
  BY SharesAre, RangesAre
<1>5. Sums(Share(pos, t))[Positioned] <= Sums(whole)[Positioned]
  BY <1>1, <1>2, <1>4, SumGrows
<1>6. Sums(whole)[Positioned] \in Nat
  BY <1>1, <1>4, SumIsNatural
<1>. QED BY <1>3, <1>5, <1>6 DEF Shared

\* How the shares in a piece change with a position.
LEMMA SharesMove ==
  ASSUME NEW p \in [Positioned -> Nat], NEW e \in burns!Event, burns!Legal(p, e), NEW t,
         NEW q, q = burns!Applied(p, e), NEW per, per = e.amount \div burns!Width(e.range)
  PROVE  /\ per \in Nat
         /\ t \notin burns!BurnPieces(e.range) => Shared(q, t) = Shared(p, t)
         /\ t \in burns!BurnPieces(e.range) /\ e.kind = "mint" => Shared(q, t) <= Shared(p, t) + per + 1
         /\ t \in burns!BurnPieces(e.range) /\ e.kind = "burn" =>
              per <= Shared(p, t) /\ Shared(q, t) <= Shared(p, t) - per
<1> DEFINE k == e.range
           w == burns!Width(k)
           a == e.amount
           x == p[k]
           y == q[k]
           f == Share(p, t)
           h == Share(q, t)
           F == Shared(p, t)
           H == Shared(q, t)
<1>1. k \in Positioned /\ a \in Nat /\ w \in Nat \ {0} /\ x \in Nat
  BY EventIs, RangesAre
<1>2. /\ q \in [Positioned -> Nat] /\ \A g \in Positioned \ {k} : q[g] = p[g]
      /\ e.kind = "mint" => y = x + a
      /\ e.kind = "burn" => a <= x /\ y = x - a
  BY AppliedIs
<1>3. y \in Nat
  BY <1>1, <1>2
<1>4. /\ f \in [Positioned -> Nat] /\ h \in [Positioned -> Nat] /\ F \in Nat /\ H \in Nat
      /\ IsFiniteSet(Positioned)
  BY <1>2, SharesAre, RangesAre
<1>5. /\ \A g \in Positioned \ {k} : f[g] = h[g]
      /\ t \in burns!BurnPieces(k) => f[k] = x \div w /\ h[k] = y \div w
      /\ t \notin burns!BurnPieces(k) => f[k] = 0 /\ h[k] = 0
  BY <1>1, <1>2 DEF Share
<1>6. F = Sums(f)[Positioned] /\ H = Sums(h)[Positioned]
  BY DEF Shared
<1> HIDE DEF k, w, a, x, y, f, h, F, H
<1>7. Sums(h)[Positioned] = Sums(f)[Positioned] + (h[k] - f[k])
  BY <1>1, <1>4, <1>5, SumMoves
<1>8. f[k] <= Sums(f)[Positioned]
  BY <1>1, <1>4, PartOfSum
<1>9. H = F + (h[k] - f[k]) /\ f[k] <= F /\ f[k] \in Nat /\ h[k] \in Nat
  BY <1>1, <1>4, <1>6, <1>7, <1>8
<1>10. a \div w \in Nat /\ x \div w \in Nat /\ y \div w \in Nat
  BY <1>1, <1>3
<1>11. t \notin burns!BurnPieces(k) => H = F
  BY <1>4, <1>5, <1>9
<1>12. ASSUME t \in burns!BurnPieces(k), e.kind = "mint" PROVE H <= F + a \div w + 1
  <2>1. y \div w <= x \div w + a \div w + 1
    BY <1>1, <1>2, <1>12, SplitAdds
  <2>. QED BY <1>4, <1>5, <1>9, <1>10, <1>12, <2>1
<1>13. ASSUME t \in burns!BurnPieces(k), e.kind = "burn" PROVE a \div w <= F /\ H <= F - a \div w
  <2>1. x = y + a
    BY <1>1, <1>2, <1>13
  <2>2. y \div w + a \div w <= x \div w
    BY <1>1, <1>3, <2>1, SplitAdds
  <2>. QED BY <1>4, <1>5, <1>9, <1>10, <1>13, <2>2
<1>14. per = a \div w
  BY DEF a, w, k
<1>. QED BY <1>10, <1>11, <1>12, <1>13, <1>14 DEF k, F, H

LEMMA FillKeeps == ASSUME BurnsInv, burns!Fill PROVE BurnsInv'
<1>1. /\ UNCHANGED <<pos, startBlock, minted, startReplayed, shortfall>> /\ phase' = "next"
      /\ liq' = [t \in burns!Pieces |->
                   IF t \in BurnsInstance.lo .. BurnsInstance.hi THEN burns!Active(t) ELSE 0]
  BY DEF burns!Fill
<1>2. \A t \in burns!Pieces : t \in Int
  BY RangesAre DEF burns!Pieces
<1>3. pos \in [Positioned -> Nat] /\ minted \in [burns!Pieces -> Nat]
  BY DEF BurnsInv
<1>4. liq' \in [burns!Pieces -> Nat]
  <2>1. \A t \in burns!Pieces : burns!Active(t) \in Nat
    BY <1>2, <1>3, SnapshotCovers
  <2>. QED BY <1>1, <2>1
<1>5. \A t \in burns!Pieces :
        t \in BurnsInstance.lo .. BurnsInstance.hi => liq'[t] = burns!Active(t) /\ Shared(pos, t) <= liq'[t] + minted[t]
  <2> SUFFICES ASSUME NEW t \in burns!Pieces, t \in BurnsInstance.lo .. BurnsInstance.hi
               PROVE  liq'[t] = burns!Active(t) /\ Shared(pos, t) <= liq'[t] + minted[t]
    OBVIOUS
  <2>1. liq'[t] = burns!Active(t)
    BY <1>1
  <2>2. t \in Int /\ burns!Active(t) \in Nat /\ Shared(pos, t) <= burns!Active(t)
    BY <1>2, <1>3, SnapshotCovers
  <2>3. Shared(pos, t) \in Nat /\ minted[t] \in Nat
    BY <1>3, SharesAre
  <2>. QED BY <2>1, <2>2, <2>3
<1>. QED BY <1>1, <1>3, <1>4, <1>5 DEF BurnsInv

LEMMA MintKeeps == ASSUME BurnsInv, burns!ReplayMint PROVE BurnsInv'
<1>1. PICK e \in burns!Event :
        /\ e.kind = "mint" /\ burns!Replayed(e)
        /\ LET per == burns!MintPerPiece(e.range, e.amount)
               pieces == IF per > 0 THEN burns!MintPieces(e.range) ELSE {}
           IN liq' = [t \in burns!Pieces |-> IF t \in pieces THEN liq[t] + per ELSE liq[t]]
        /\ minted' = [t \in burns!Pieces |-> IF t \in burns!MintPieces(e.range) THEN minted[t] + 1 ELSE minted[t]]
  BY DEF burns!ReplayMint
<1> DEFINE per == e.amount \div burns!Width(e.range)
           pieces == burns!BurnPieces(e.range)
<1>2. /\ phase = "next" /\ phase' = "check" /\ UNCHANGED <<startReplayed, shortfall>>
  BY DEF burns!ReplayMint, burns!TakeTx
<1>3. pos \in [Positioned -> Nat] /\ minted \in [burns!Pieces -> Nat] /\ liq \in [burns!Pieces -> Nat]
  BY DEF BurnsInv
<1>4. e.range \in Positioned /\ e.amount \in Nat /\ per \in Nat
  BY EventIs, RangesAre
<1>5. burns!MintPerPiece(e.range, e.amount) = per /\ burns!MintPieces(e.range) = pieces
  BY <1>4, PiecesAre DEF burns!MintPerPiece
<1> HIDE DEF per, pieces
<1>6. /\ \A t \in burns!Pieces : liq'[t] = IF t \in pieces THEN liq[t] + per ELSE liq[t]
      /\ liq' \in [burns!Pieces -> Nat]
  <2>1. liq' = [t \in burns!Pieces |-> IF t \in (IF per > 0 THEN pieces ELSE {}) THEN liq[t] + per ELSE liq[t]]
    BY <1>1, <1>5
  <2>2. \A t \in burns!Pieces : liq'[t] = IF t \in pieces THEN liq[t] + per ELSE liq[t]
    BY <1>3, <1>4, <2>1
  <2>3. liq' = [t \in burns!Pieces |-> liq'[t]]
    BY <2>1
  <2>. QED BY <1>3, <1>4, <2>2, <2>3
<1>7. /\ \A t \in burns!Pieces : minted'[t] = IF t \in pieces THEN minted[t] + 1 ELSE minted[t]
      /\ minted' \in [burns!Pieces -> Nat]
  BY <1>1, <1>3, <1>5
<1>8. /\ startBlock' \subseteq burns!Event /\ pos' \in [Positioned -> Nat]
      /\ (pos' = pos \/ (burns!Legal(pos, e) /\ pos' = burns!Applied(pos, e)))
  BY <1>1, ReplayedIs DEF BurnsInv
<1>9. ASSUME ~startReplayed, NEW t \in burns!Pieces, t \in BurnsInstance.lo .. BurnsInstance.hi
      PROVE  Shared(pos', t) <= liq'[t] + minted'[t]
  <2>1. Shared(pos, t) <= liq[t] + minted[t]
    BY <1>2, <1>9 DEF BurnsInv
  <2>2. /\ Shared(pos, t) \in Nat /\ Shared(pos', t) \in Nat
        /\ liq[t] \in Nat /\ minted[t] \in Nat
    BY <1>3, <1>8, SharesAre
  <2>3. \/ Shared(pos', t) = Shared(pos, t)
        \/ t \in pieces /\ Shared(pos', t) <= Shared(pos, t) + per + 1
    <3>1. CASE pos' = pos
      BY <3>1
    <3>2. CASE burns!Legal(pos, e) /\ pos' = burns!Applied(pos, e)
      BY <1>1, <1>3, <3>2, SharesMove DEF per, pieces
    <3>. QED BY <1>8, <3>1, <3>2
  <2>. QED BY <1>4, <1>6, <1>7, <2>1, <2>2, <2>3
<1>. QED BY <1>2, <1>6, <1>7, <1>8, <1>9 DEF BurnsInv

\* A burn that is refused finds in the piece, with what was rounded off, at least its share.
LEMMA BurnKeeps == ASSUME BurnsInv, burns!ReplayBurn PROVE BurnsInv'
<1>1. PICK e \in burns!Event :
        /\ e.kind = "burn" /\ burns!Replayed(e)
        /\ startReplayed' = (startReplayed \/ startBlock = {e})
        /\ LET per == burns!BurnPerPiece(e.range, e.amount)
               pieces == burns!BurnPieces(e.range)
               poor == {t \in pieces : burns!Refuses(t, per)}
           IN \/ /\ poor = {}
                 /\ liq' = [t \in burns!Pieces |-> IF t \in pieces THEN liq[t] - per ELSE liq[t]]
                 /\ phase' = "check"
                 /\ UNCHANGED shortfall
              \/ /\ poor # {}
                 /\ shortfall' = burns!Max({per - liq[t] - minted[t] : t \in poor})
                 /\ phase' = "reverted"
                 /\ UNCHANGED liq
  BY DEF burns!ReplayBurn
<1> DEFINE per == burns!BurnPerPiece(e.range, e.amount)
           pieces == burns!BurnPieces(e.range)
           poor == {t \in pieces : burns!Refuses(t, per)}
           share == e.amount \div burns!Width(e.range)
<1>2. phase = "next" /\ UNCHANGED minted
  BY DEF burns!ReplayBurn, burns!TakeTx
<1>3. pos \in [Positioned -> Nat] /\ minted \in [burns!Pieces -> Nat] /\ liq \in [burns!Pieces -> Nat]
  BY DEF BurnsInv
<1>4. e.range \in Positioned /\ e.amount \in Nat /\ share \in Nat
  BY EventIs, RangesAre
<1>5. per \in Nat /\ per <= share
  BY <1>4, BurnIsShare
<1>6. \A t \in pieces : t \in burns!Pieces /\ t \in BurnsInstance.lo .. BurnsInstance.hi
  BY <1>4, RangesAre, PiecesAre
<1>7. \/ poor = {} /\ liq' = [t \in burns!Pieces |-> IF t \in pieces THEN liq[t] - per ELSE liq[t]] /\ phase' = "check"
      \/ /\ poor # {} /\ shortfall' = burns!Max({per - liq[t] - minted[t] : t \in poor})
         /\ phase' = "reverted" /\ liq' = liq
  BY <1>1
<1>8. \A t \in pieces : t \notin poor => per <= liq[t]
  BY <1>3, <1>5, <1>6 DEF burns!Refuses
<1>9. poor \subseteq pieces
  OBVIOUS
<1> HIDE DEF per, pieces, poor, share
<1>10. /\ startBlock' \subseteq burns!Event /\ pos' \in [Positioned -> Nat]
       /\ (pos' = pos \/ (burns!Legal(pos, e) /\ pos' = burns!Applied(pos, e)))
       /\ ~startReplayed' => burns!Legal(pos, e) /\ pos' = burns!Applied(pos, e)
  BY <1>1, ReplayedIs DEF BurnsInv, burns!Replayed
<1>11. liq' \in [burns!Pieces -> Nat]
  <2>1. CASE poor = {} /\ liq' = [t \in burns!Pieces |-> IF t \in pieces THEN liq[t] - per ELSE liq[t]]
    <3>1. \A t \in burns!Pieces : (IF t \in pieces THEN liq[t] - per ELSE liq[t]) \in Nat
      BY <1>3, <1>5, <1>8, <2>1
    <3>. QED BY <2>1, <3>1
  <2>. QED BY <1>3, <1>7, <2>1
<1>12. ASSUME ~startReplayed'
       PROVE  \A t \in burns!Pieces : t \in BurnsInstance.lo .. BurnsInstance.hi =>
                /\ Shared(pos, t) <= liq[t] + minted[t] /\ Shared(pos, t) \in Nat /\ Shared(pos', t) \in Nat
                /\ t \notin pieces => Shared(pos', t) = Shared(pos, t)
                /\ t \in pieces => share <= Shared(pos, t) /\ Shared(pos', t) <= Shared(pos, t) - share
  <2> SUFFICES ASSUME NEW t \in burns!Pieces, t \in BurnsInstance.lo .. BurnsInstance.hi
               PROVE  /\ Shared(pos, t) <= liq[t] + minted[t] /\ Shared(pos, t) \in Nat /\ Shared(pos', t) \in Nat
                      /\ t \notin pieces => Shared(pos', t) = Shared(pos, t)
                      /\ t \in pieces => share <= Shared(pos, t) /\ Shared(pos', t) <= Shared(pos, t) - share
    OBVIOUS
  <2>1. ~startReplayed
    BY <1>1, <1>12
  <2>2. Shared(pos, t) <= liq[t] + minted[t]
    BY <1>2, <2>1 DEF BurnsInv
  <2>3. Shared(pos, t) \in Nat /\ Shared(pos', t) \in Nat
    BY <1>3, <1>10, SharesAre
  <2>4. burns!Legal(pos, e) /\ pos' = burns!Applied(pos, e)
    BY <1>10, <1>12
  <2>5. /\ t \notin pieces => Shared(pos', t) = Shared(pos, t)
        /\ t \in pieces => share <= Shared(pos, t) /\ Shared(pos', t) <= Shared(pos, t) - share
    BY <1>1, <1>3, <2>4, SharesMove DEF share, pieces
  <2>. QED BY <2>2, <2>3, <2>5
<1>13. CASE poor = {} /\ liq' = [t \in burns!Pieces |-> IF t \in pieces THEN liq[t] - per ELSE liq[t]] /\ phase' = "check"
  <2>1. ASSUME ~startReplayed', NEW t \in burns!Pieces, t \in BurnsInstance.lo .. BurnsInstance.hi
        PROVE  Shared(pos', t) <= liq'[t] + minted'[t]
    <3>1. /\ Shared(pos, t) <= liq[t] + minted[t] /\ Shared(pos, t) \in Nat /\ Shared(pos', t) \in Nat
          /\ t \notin pieces => Shared(pos', t) = Shared(pos, t)
          /\ t \in pieces => Shared(pos', t) <= Shared(pos, t) - share
      BY <1>12, <2>1
    <3>2. liq'[t] = (IF t \in pieces THEN liq[t] - per ELSE liq[t]) /\ liq[t] \in Nat /\ minted'[t] = minted[t] /\ minted[t] \in Nat
      BY <1>2, <1>3, <1>13, <2>1
    <3>. QED BY <1>4, <1>5, <3>1, <3>2
  <2>. QED BY <1>2, <1>3, <1>10, <1>11, <1>13, <2>1 DEF BurnsInv
<1>14. CASE poor # {} /\ shortfall' = burns!Max({per - liq[t] - minted[t] : t \in poor}) /\ phase' = "reverted"
  <2> DEFINE lacks == {per - liq[t] - minted[t] : t \in poor}
  <2>1. ASSUME ~startReplayed' PROVE shortfall' <= 0
    <3>1. \A t \in poor : liq[t] \in Nat /\ minted[t] \in Nat /\ per <= liq[t] + minted[t]
      <4> SUFFICES ASSUME NEW t \in poor PROVE liq[t] \in Nat /\ minted[t] \in Nat /\ per <= liq[t] + minted[t]
        OBVIOUS
      <4>1. t \in pieces /\ t \in burns!Pieces /\ t \in BurnsInstance.lo .. BurnsInstance.hi
        BY <1>6, <1>9
      <4>2. share <= Shared(pos, t) /\ Shared(pos, t) <= liq[t] + minted[t] /\ Shared(pos, t) \in Nat
        BY <1>12, <2>1, <4>1
      <4>3. liq[t] \in Nat /\ minted[t] \in Nat
        BY <1>3, <4>1
      <4>. QED BY <1>4, <1>5, <4>2, <4>3
    <3>2. \A x \in lacks : x \in Int /\ x <= 0
      BY <1>5, <3>1
    <3>3. \E x \in lacks : \A y \in lacks : x >= y
      <4> DEFINE over == {-x : x \in lacks}
      <4>1. over \subseteq Nat /\ over # {}
        <5>1. lacks # {}
          BY <1>14
        <5> HIDE DEF lacks
        <5>. QED BY <3>2, <5>1
      <4>2. \A x \in lacks : -x \in over
        OBVIOUS
      <4> HIDE DEF over, lacks
      <4>3. PICK z \in over : \A y \in over : z <= y
        BY <4>1, LeastExists
      <4>4. PICK x \in lacks : z = -x
        BY DEF over
      <4>5. \A y \in lacks : -x <= -y /\ y \in Int
        BY <3>2, <4>2, <4>3, <4>4
      <4>. QED BY <3>2, <4>4, <4>5
    <3>4. shortfall' = burns!Max(lacks)
      BY <1>14
    <3> HIDE DEF lacks
    <3>5. shortfall' \in lacks
      BY <3>3, <3>4 DEF burns!Max
    <3>. QED BY <3>2, <3>5
  <2>. QED BY <1>2, <1>3, <1>10, <1>11, <1>14, <2>1 DEF BurnsInv
<1>. QED BY <1>7, <1>13, <1>14

LEMMA SkipKeeps == ASSUME BurnsInv, burns!SkipBurn PROVE BurnsInv'
<1>1. PICK e \in burns!Event : /\ e.kind = "burn" /\ burns!Replayed(e)
                               /\ (e.range.upper < BurnsInstance.lo \/ e.range.lower > BurnsInstance.hi)
  BY DEF burns!SkipBurn
<1>2. phase = "next" /\ phase' = "next" /\ UNCHANGED <<liq, minted, startReplayed, shortfall>>
  BY DEF burns!SkipBurn, burns!TakeTx
<1>3. pos \in [Positioned -> Nat]
  BY DEF BurnsInv
<1>4. /\ startBlock' \subseteq burns!Event /\ pos' \in [Positioned -> Nat]
      /\ (pos' = pos \/ (burns!Legal(pos, e) /\ pos' = burns!Applied(pos, e)))
  BY <1>1, ReplayedIs DEF BurnsInv
<1>5. burns!BurnPieces(e.range) = {}
  BY <1>1, EventIs, PiecesAre
<1>6. ASSUME NEW t PROVE Shared(pos', t) = Shared(pos, t)
  <2>1. CASE pos' = pos
    BY <2>1
  <2>2. CASE burns!Legal(pos, e) /\ pos' = burns!Applied(pos, e)
    BY <1>3, <1>5, <2>2, SharesMove
  <2>. QED BY <1>4, <2>1, <2>2
<1>. QED BY <1>2, <1>4, <1>6 DEF BurnsInv

LEMMA BurnsBegin == ASSUME burns!Init PROVE BurnsInv
<1>1. PICK before \in [Positioned -> BurnsInstance.amounts \cup {0}], e \in burns!Event :
        \/ pos = before /\ startBlock = {}
        \/ burns!Legal(before, e) /\ pos = burns!Applied(before, e) /\ startBlock = {e}
  BY DEF burns!Init, Positioned
<1>2. before \in [Positioned -> Nat]
  BY RangesAre
<1>3. pos \in [Positioned -> Nat] /\ startBlock \subseteq burns!Event
  BY <1>1, <1>2, AppliedIs
<1>4. /\ phase = "fill" /\ liq = [t \in burns!Pieces |-> 0] /\ minted = [t \in burns!Pieces |-> 0]
  BY DEF burns!Init
<1>. QED BY <1>3, <1>4 DEF BurnsInv

LEMMA BurnsStep ==
  ASSUME script = "burns", [Next]_vars
  PROVE  [burns!Next]_(burns!vars)
  BY DEF Next, InSender, InBot, InDebts, InHardWork, InWithdraw, InSearch, InHistory, InSnapshot, InReplay,
     InSync, BotsRest,
     BacktesterRests, vars, replayVars, burns!vars, burns!poolVars, burns!fuseVars, burns!debtVars

LEMMA BurnsKeep == ASSUME BurnsInv, [burns!Next]_(burns!vars) PROVE BurnsInv'
<1>1. CASE burns!Fill
  BY <1>1, FillKeeps
<1>2. CASE burns!ReplayMint
  BY <1>2, MintKeeps
<1>3. CASE burns!ReplayBurn
  BY <1>3, BurnKeeps
<1>4. CASE burns!SkipBurn
  BY <1>4, SkipKeeps
<1>5. ASSUME UNCHANGED burns!poolVars, phase' = phase \/ {phase, phase'} \cap {"fill", "reverted"} = {}
      PROVE  BurnsInv'
  BY <1>5 DEF BurnsInv, burns!poolVars
<1>6. CASE burns!ReplaySwap \/ burns!SkipEmpty
  BY <1>5, <1>6 DEF burns!ReplaySwap, burns!SkipEmpty, burns!TakeTx
<1>7. CASE burns!SameSecond \/ burns!RebalanceAndTimeFuse \/ burns!ReduceDebt \/ burns!Tail
  BY <1>5, <1>7 DEF burns!SameSecond, burns!RebalanceAndTimeFuse, burns!ReduceDebt, burns!Tail
<1>8. CASE burns!EndOfList \/ burns!HardWork
  BY <1>5, <1>8 DEF burns!EndOfList, burns!HardWork
<1>9. CASE UNCHANGED burns!vars
  BY <1>5, <1>9 DEF burns!vars
<1>. QED BY <1>1, <1>2, <1>3, <1>4, <1>6, <1>7, <1>8, <1>9 DEF burns!Next

\* THEOREM.  A replayed burn reverts for want of liquidity only by what the divisions of
\* mints rounded off, or because the start block is replayed on top of its snapshot: for
\* any positions, amounts, snapshot and number of transactions (strategyBacktest.ts:76-86,
\* 124-178).
THEOREM BurnsAreCovered == Spec => []BurnShortOnlyByRounding
<1> DEFINE Inv == script = "burns" => BurnsInv
<1>1. Init => Inv
  BY BurnsBegin DEF Init
<1>2. Inv /\ [Next]_vars => Inv'
  BY ScriptStays, BurnsStep, BurnsKeep
<1>3. Inv => BurnShortOnlyByRounding
  BY DEF BurnShortOnlyByRounding, burns!BurnShortOnlyByRounding, BurnsInv
<1>. QED BY <1>1, <1>2, <1>3, PTL DEF Spec
=============================================================================
