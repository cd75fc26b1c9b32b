---------------------------- MODULE DebtReduction ----------------------------
(***************************************************************************)
(* The other half of the loop of scripts/rebalance.ts: messages about a    *)
(* triggered fuse, and runResolver (web3-functions/w3f-utils.ts), which    *)
(* decides whether a step of withdrawByAgg is due, has its swap quoted by  *)
(* aggregators, and builds the call the bot then sends.  One strategy; the *)
(* web3 function reduce-debt runs the same resolver for one as well.       *)
(*                                                                         *)
(* The chain may change between any two requests of the bot.  Percents of  *)
(* locked assets are small levels; clocks are ages, as in NsrBot.          *)
(***************************************************************************)
EXTENDS Integers

CONSTANTS
  Agg,          \* argv.rebalanceDebtAgg: "1inch", "openocean" or "" for the better of both
  MaxPercent,   \* the highest level of locked assets
  Allowed,      \* strategyConfig: above this the debt is reduced,
  Forced,       \*   from this on without delay,
  Delay,        \*   below it only so long after rebalanceNoSwaps
  ReportEvery   \* seconds between two messages about one fuse (a day)

DebtAssumption ==
  /\ Agg \in {"1inch", "openocean", ""}
  /\ MaxPercent \in Nat /\ Allowed \in Nat /\ Forced \in Nat
  /\ Delay \in Nat
  /\ ReportEvery \in Nat \ {0}

VARIABLES
  state,        \* the strategy on the chain: what the resolver reads of it
  pc,           \* where the bot is
  seen,         \* state as the resolver read it
  call,         \* the withdrawByAggStep to be sent
  lastFuse      \* age of lastFuseTrigger, the last message about the fuse, or Unset

vars == <<state, pc, seen, call, lastFuse>>

Unset == -1
Horizon == (IF Delay > ReportEvery THEN Delay ELSE ReportEvery) + 1
Older(age) == IF age \in 0..(Horizon - 1) THEN age + 1 ELSE age

\* fuse: either side is 2 or 3; done: withdrawDone > 0; sinceNsr: age of lastRebalanceNoSwaps.
States == [fuse : BOOLEAN, need : BOOLEAN, percent : 0..MaxPercent, done : BOOLEAN, sinceNsr : 0..Horizon]

\* The plan, the amount of the swap and whether the strategy may enter the pool afterwards.
Plans == {"SWAP_REPAY", "REPAY_SWAP_REPAY"}
Amounts == {"zero", "quoted", "address"}
CallDatas == [plan : Plans, amount : Amounts, entry : {0, 1}]
NoCall == [plan |-> "SWAP_REPAY", amount |-> "zero", entry |-> 0]

-----------------------------------------------------------------------------
(* The fuse messages, at the top of each visit *)

FuseReport ==
  IF ~state.fuse THEN lastFuse' = Unset
  ELSE IF lastFuse = Unset \/ lastFuse >= ReportEvery THEN lastFuse' = 0
  ELSE UNCHANGED lastFuse

Look ==
  /\ pc = "look"
  /\ FuseReport
  /\ pc' = "inspect"
  /\ UNCHANGED <<state, seen, call>>

-----------------------------------------------------------------------------
(* runResolver *)

\* Mutant: the comparison with the delay the wrong way round.
DueBeforeDelay(s) ==
  /\ ~(~s.fuse /\ s.percent <= Allowed)
  /\ ~(s.fuse /\ s.percent = 0 /\ s.done)
  /\ ~s.need
  /\ ~(~s.fuse /\ s.percent < Forced /\ s.sinceNsr >= Delay)

\* A step is due: none of the early returns is taken.
Due(s) ==
  /\ ~(~s.fuse /\ s.percent <= Allowed)
  /\ ~(s.fuse /\ s.percent = 0 /\ s.done)
  /\ ~s.need
  /\ ~(~s.fuse /\ s.percent < Forced /\ s.sinceNsr < Delay)

Inspect ==
  /\ pc = "inspect"
  /\ seen' = state
  /\ pc' = IF Due(state) THEN "quote" ELSE "sleep"
  /\ UNCHANGED <<state, call, lastFuse>>

\* The amount written into the call; with openocean it is tokenToSwap.
AmountSent == IF Agg = "openocean" THEN "address" ELSE "quoted"

\* quoteWithdrawByAgg may find nothing to swap: without the fuse there is nothing to
\* do then, with it the step repays without a swap.
QuotedCalls(s) ==
  {[plan |-> IF s.fuse THEN "SWAP_REPAY" ELSE "REPAY_SWAP_REPAY",
    amount |-> AmountSent,
    entry |-> IF s.fuse THEN 0 ELSE 1]}
  \cup {c \in {NoCall} : s.fuse}

\* A quote, or undefined: an error, or an answer without route, target or amount.
QuoteOneInch == BOOLEAN
QuoteOpenOcean == BOOLEAN

\* What runResolver makes of the two answers.
HasQuote(oneInch, openOcean) ==
  CASE Agg = "1inch" -> oneInch
    [] Agg = "openocean" -> openOcean
    [] OTHER -> oneInch \/ openOcean

\* No aggregator answers, or the strategy's own quote reverts.
NoQuote ==
  /\ pc = "quote"
  /\ pc' = "sleep"
  /\ UNCHANGED <<state, seen, call, lastFuse>>

\* A swap needs an aggregator's quote; a step without a swap does not.
Quote ==
  /\ pc = "quote"
  /\ call' \in QuotedCalls(seen)
  /\ \/ call'.amount = "zero"
     \/ \E oneInch \in QuoteOneInch, openOcean \in QuoteOpenOcean : HasQuote(oneInch, openOcean)
  /\ pc' = "send"
  /\ UNCHANGED <<state, seen, lastFuse>>

-----------------------------------------------------------------------------
(* The call *)

\* The contract refuses an amount above the balance: the balance may have changed since
\* the quote (SendFails), and an address taken as a number is above every balance.
MustRevert(c) == c.amount = "address"

\* withdrawByAggStep on the chain: each step that is not reverted brings the debts
\* down; SWAP_REPAY completes when there are none.
StepEffect(c) ==
  \E p \in 0..state.percent :
    /\ state.percent > 0 => p < state.percent
    /\ state' = [state EXCEPT !.percent = p,
                              !.done = @ \/ (state.fuse /\ c.plan = "SWAP_REPAY" /\ p = 0),
                              !.sinceNsr = Horizon]

\* estimateGas, then runAndWaitAndSpeedUp; an error is caught and reported.
Send ==
  /\ pc = "send"
  /\ ~MustRevert(call)
  /\ StepEffect(call)
  /\ pc' = "sleep" /\ call' = NoCall
  /\ UNCHANGED <<seen, lastFuse>>

SendFails ==
  /\ pc = "send"
  /\ pc' = "sleep" /\ call' = NoCall
  /\ UNCHANGED <<state, seen, lastFuse>>

\* The rest of the loop; the visit may also end with an error at any read.
Sleep ==
  /\ pc = "sleep"
  /\ pc' = "look"
  /\ UNCHANGED <<state, seen, call, lastFuse>>

VisitFails ==
  /\ pc \in {"look", "inspect"}
  /\ pc' = "sleep"
  /\ UNCHANGED <<state, seen, call, lastFuse>>

BotStep == Look \/ Inspect \/ NoQuote \/ Quote \/ Send \/ SendFails \/ Sleep \/ VisitFails

-----------------------------------------------------------------------------
(* The environment *)

\* Prices move: a rebalance becomes necessary.
NeedArises ==
  /\ state' = [state EXCEPT !.need = TRUE]
  /\ UNCHANGED <<pc, seen, call, lastFuse>>

\* rebalanceNoSwaps, by the bot or another: it may change the fuse; a fuse that is
\* off borrows anew, and one that goes on has withdrawDone cleared.
Rebalance ==
  /\ state.need
  /\ \E f \in BOOLEAN, p \in 0..MaxPercent :
       /\ f => p = state.percent
       /\ state' = [state EXCEPT !.need = FALSE, !.fuse = f, !.percent = p,
                                 !.done = IF f # state.fuse THEN FALSE ELSE @,
                                 !.sinceNsr = 0]
  /\ UNCHANGED <<pc, seen, call, lastFuse>>

Tick ==
  /\ state' = [state EXCEPT !.sinceNsr = Older(@)]
  /\ lastFuse' = Older(lastFuse)
  /\ UNCHANGED <<pc, seen, call>>

Init ==
  /\ state \in [fuse : {FALSE}, need : {FALSE}, percent : 0..MaxPercent, done : {FALSE}, sinceNsr : {Horizon}]
  /\ pc = "look"
  /\ seen = state
  /\ call = NoCall
  /\ lastFuse = Unset

Next == BotStep \/ NeedArises \/ Rebalance \/ Tick

Spec == Init /\ [][Next]_vars

-----------------------------------------------------------------------------
TypeOK ==
  /\ state \in States /\ seen \in States
  /\ pc \in {"look", "inspect", "quote", "send", "sleep"}
  /\ call \in CallDatas
  /\ lastFuse \in {Unset} \cup 0..Horizon

\* A withdrawal that the fuse started comes to its end, no debts and withdrawDone set,
\* also when there is nothing to swap; and without the fuse locked assets do not stay
\* above the allowed share for ever.  Unless the fuse or the need of a rebalance keeps
\* changing.
DebtIsReduced ==
  /\ ~<>[](state.fuse /\ ~state.need /\ ~(state.percent = 0 /\ state.done))
  /\ ~<>[](~state.fuse /\ ~state.need /\ state.percent > Allowed)
=============================================================================
