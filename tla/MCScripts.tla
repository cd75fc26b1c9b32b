----------------------------- MODULE MCScripts -----------------------------
(***************************************************************************)
(* The scripts on small instances, the symmetry of their calls and         *)
(* workers, and the fairness of their loops.                               *)
(***************************************************************************)
EXTENDS Scripts, TLC

CONSTANTS c1, c2, w1, w2   \* calls, workers

Symmetry == Permutations(Calls) \cup Permutations(Workers)

-----------------------------------------------------------------------------
(* The instances *)

MCSender == [fees |-> {1, 8}, chainId |-> 137, wait |-> 0]

TwoEligible == [strategies |-> <<"s1", "s2">>, vaults |-> {2}, eligible |-> {"s1", "s2"}, between |-> 1, confirm |-> 1]
OneEligible == [strategies |-> <<"s1", "s2">>, vaults |-> {2}, eligible |-> {"s2"}, between |-> 0, confirm |-> 0]

MCDebts == [agg |-> "", percents |-> 2, allowed |-> 0, forced |-> 2, delay |-> 1, report |-> 1]

MCHardWork ==
  [strategies |-> <<"s1", "s2", "s3">>, delay |-> 1, errorDelay |-> 2,
   reverting |-> {"s1"}, throwing |-> {"s3"}]

\* As many decimals of either token, more of the underlying, and fewer: with a cap that
\* still suffices, and with one that swaps nothing of the other token.
Decimals == {<<2, 2>>, <<4, 2>>, <<2, 3>>, <<1, 4>>}
MCWithdraw ==
  [units |-> {[asset |-> d[1], token |-> d[2]] : d \in Decimals},
   cap |-> 1, debt |-> 5, leftover |-> 5, borrows |-> 2]

Search(individuals, rows, stops) ==
  [spacing |-> 1, range |-> 1, rebalance |-> 1, gens |-> 2,
   individuals |-> individuals, best |-> 2, results |-> rows, crashes |-> stops]
Crashing == Search(3, 7, 1)
Unbroken == Search(2, 8, 0)

\* Every history of at most four events, one second of three being outside.
EndTime == 2
HistoryEvent == [kind : {"mint", "burn", "swap"}, time : 0 .. EndTime, of : 0 .. 2]
LegalHistory(c) ==
  /\ \A k \in DOMAIN c :
       c[k].of # 0 => c[k].kind = "burn" /\ c[k].of < k /\ c[c[k].of].kind = "mint"
  /\ \A k \in 2 .. Len(c) : c[k - 1].time <= c[k].time
RECURSIVE HistoriesOf(_)
HistoriesOf(n) ==
  IF n = 0 THEN {<<>>}
  ELSE {c \in {Append(d, e) : d \in HistoriesOf(n - 1), e \in HistoryEvent} : LegalHistory(c)}
Histories == UNION {HistoriesOf(n) : n \in 0 .. 4}

MCHistory == [chains |-> Histories, end |-> EndTime, page |-> 2, runs |-> 2]

\* Two positions on ranges of the ticks, and the pool they make.
Spacing == 2
PoolTicks == {t \in -8 .. 8 : t % Spacing = 0}
Position == {q \in [lower : {-4, 0, 2}, upper : {-2, 0, 4}, amount : {1, 3}] : q.lower < q.upper}
Covering(q, t) == IF q.lower <= t /\ t < q.upper THEN q.amount ELSE 0
Crossing(q, t) == IF q.lower = t THEN q.amount ELSE IF q.upper = t THEN -q.amount ELSE 0
PoolsOfTwo ==
  {[tick |-> tick,
    liquidity |-> [t \in PoolTicks |-> Covering(p, t) + Covering(q, t)],
    liquidityNet |-> [t \in PoolTicks |-> Crossing(p, t) + Crossing(q, t)]] :
     tick \in -3 .. 3, p \in Position, q \in Position}

MCSnapshot == [ticks |-> PoolTicks, spacing |-> Spacing, surrounding |-> 2, pools |-> PoolsOfTwo]

\* Inside the snapshot, over both of its ends, and outside; less than the pieces of a
\* range, a multiple with a rest, and their sum.
Ranges3 == {[lower |-> 0, upper |-> 3], [lower |-> -1, upper |-> 4], [lower |-> 5, upper |-> 6]}
MCBurns ==
  [ranges |-> Ranges3, amounts |-> {1, 9, 10}, lo |-> 0, hi |-> 3, txs |-> 3, limit |-> 2,
   debts |-> FALSE, delay |-> 1, gap |-> 0]

\* More seconds, less to mint.
Ranges2 == {[lower |-> 0, upper |-> 2], [lower |-> 5, upper |-> 6]}
MCClock ==
  [ranges |-> Ranges2, amounts |-> {2}, lo |-> 0, hi |-> 2, txs |-> 4, limit |-> 0,
   debts |-> TRUE, delay |-> 1, gap |-> 2]

MCSync == [units |-> 40, first |-> -3, last |-> 3, fee |-> 1, min |-> -9, max |-> 9]

-----------------------------------------------------------------------------
(* Fairness.  As one script runs at a time, one formula stands for the      *)
(* fairness of an action of each of them.                                   *)

\* Loops go on, promises resolve or reject, containers are started again.
Goes ==
  \/ InBot /\ bot!BotStep
  \/ InDebts /\ debts!BotStep
  \/ InWithdraw /\ withdraw!Go
  \/ InSearch /\ search!Work(w1)

\* So does the other worker, and time.
GoesToo ==
  \/ InBot /\ bot!Tick
  \/ InDebts /\ debts!Tick
  \/ InSearch /\ search!Work(w2)

\* What is tried again and again succeeds in the end: nodes and aggregators do not fail
\* for ever, not all calls are given up before they are mined, and a quote of an amount
\* is not always answered by zero.
Succeeds1 ==
  \/ InBot /\ bot!Execute
  \/ InDebts /\ debts!Send
  \/ InWithdraw /\ withdraw!Quote /\ amount' = withdraw!Cap(withdraw!ToSwap)
Succeeds2 ==
  \/ InBot /\ bot!HardWork /\ pc' = "look" /\ at = 1
  \/ InDebts /\ debts!Look
Succeeds3 ==
  \/ InBot /\ bot!Look
  \/ InDebts /\ debts!Inspect
Succeeds4 ==
  \/ InBot /\ bot!Estimate /\ pc' = "wait"
  \/ InDebts /\ debts!Quote /\ call'.amount = "zero"
Succeeds5 ==
  \/ InBot /\ bot!HardWork /\ pc' = "look" /\ at = 2
  \/ InDebts /\ debts!Quote /\ call'.amount # "zero"

FairSpec ==
  /\ Spec
  /\ WF_vars(Goes) /\ WF_vars(GoesToo) /\ WF_vars(InDebts /\ debts!Rebalance)
  /\ SF_vars(Succeeds1) /\ SF_vars(Succeeds2) /\ SF_vars(Succeeds3)
  /\ SF_vars(Succeeds4) /\ SF_vars(Succeeds5)

-----------------------------------------------------------------------------
\* rebalance.ts: no strategy is left to need a rebalance for ever.
NeedIsServed == bot!NeedIsServed

\* runResolver: withdrawals come to their end, and debts come down.
DebtIsReduced == debts!DebtIsReduced

\* makeFullWithdraw: the loop ends.
Ends == script = "withdraw" => withdraw!Ends

\* uniswapV3Backtester: the task is closed.
TaskEnds == script = "search" => search!TaskEnds
=============================================================================
