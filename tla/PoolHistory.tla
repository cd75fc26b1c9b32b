---------------------------- MODULE PoolHistory ----------------------------
(***************************************************************************)
(* How the backtester obtains the transactions of a pool                   *)
(* (scripts/utils/UniswapV3Utils.ts, getPoolTransactions).  Mints, burns   *)
(* and swaps are read from a subgraph page by page: a page holds the       *)
(* PageSize events of the least timestamps that are not below the last     *)
(* timestamp seen, so pages overlap and an identifier read before is       *)
(* dropped.  The result is sorted, kept in a file and never read again     *)
(* from the subgraph.  A query that is not answered ends the run while     *)
(* mints are read and only ends the reading of burns or of swaps.          *)
(***************************************************************************)
EXTENDS Naturals, Sequences, FiniteSets, Functions, SequencesExt

CONSTANTS
  Chains,      \* the histories of the pool: sequences of [kind, time, of],
               \* "of" being the position of the mint a burn takes from, or 0
  EndTime,     \* timestamp of the last block, which is left out; the first is 0
  PageSize,    \* 1000 in the queries
  MaxRuns      \* bound: how often the tool is started

PageSizeAssumption == PageSize \in Nat \ {0} /\ EndTime \in Nat

\* A burn takes liquidity of a mint that is not younger.
ChainsAssumption ==
  \A c \in Chains :
    /\ c \in Seq([kind : {"mint", "burn", "swap"}, time : Nat, of : Nat])
    /\ \A k \in DOMAIN c :
         c[k].of # 0 => /\ c[k].kind # "mint" /\ c[k].of \in DOMAIN c
                        /\ c[c[k].of].kind = "mint" /\ c[c[k].of].time <= c[k].time

StartTime == 0

VARIABLES
  chain,          \* what happened on chain, as the subgraph knows it
  phase,          \* which events are read, or how the run ended
  lastTimestamp,
  usedTxIds,
  r,              \* the collected events, as positions in the chain
  cache,          \* the content of the file in tmp/: {} or one sequence
  runs,           \* bound
  missed          \* a query of the run that filled r was not answered

vars == <<chain, phase, lastTimestamp, usedTxIds, r, cache, runs, missed>>

Kinds == {"mint", "burn", "swap"}
Ended == {"done", "failed", "exited"}

TypeOK ==
  /\ phase \in Kinds \cup Ended \cup {"start", "sort"}
  /\ lastTimestamp \in StartTime .. EndTime - 1
  /\ usedTxIds \subseteq DOMAIN chain
  /\ r \in Seq(DOMAIN chain)
  /\ cache \subseteq Seq(DOMAIN chain) /\ Cardinality(cache) <= 1
  /\ runs \in 0 .. MaxRuns
  /\ missed \in BOOLEAN

---------------------------------------------------------------------------
Time(i) == chain[i].time

\* The events a query asks for: timestamp_gte the last one, timestamp_lt the end.
Matching(kind) ==
  {i \in DOMAIN chain : chain[i].kind = kind /\ Time(i) >= lastTimestamp /\ Time(i) < EndTime}

\* An answer: orderBy timestamp, first PageSize; how equal timestamps are
\* ordered is up to the subgraph.
Pages(kind) ==
  {p \in SUBSET Matching(kind) :
     /\ Cardinality(p) = IF Cardinality(Matching(kind)) < PageSize
                         THEN Cardinality(Matching(kind)) ELSE PageSize
     /\ \A i \in p, j \in Matching(kind) \ p : Time(i) <= Time(j)}

LastOf(page) == CHOOSE t \in {Time(i) : i \in page} : \A i \in page : Time(i) <= t

\* A MUTANT of NewEvents.
NewEventsAll(page) == SetToSeq(page)

\* What a page adds: usedTxIds drops what an earlier page held.  The events are
\* sorted later, here their order does not matter.
NewEvents(page) == SetToSeq(page \ usedTxIds)

\* The comparator of the sort: by timestamp, a mint before the rest.  Between
\* two mints, or two other events of a timestamp, it answers by the order in
\* which it is asked, so any order of those may come out.
Before(i, j) ==
  Time(i) < Time(j) \/ (Time(i) = Time(j) /\ chain[i].kind = "mint" /\ chain[j].kind # "mint")

Arrangements ==
  {s \in {[k \in DOMAIN r |-> r[f[k]]] : f \in Bijection(DOMAIN r, DOMAIN r)} :
     \A k, l \in DOMAIN s : k < l => ~Before(s[l], s[k])}

NextPhase == [burn |-> "swap", swap |-> "sort"]

---------------------------------------------------------------------------
Init ==
  /\ chain \in Chains
  /\ phase = "start"
  /\ lastTimestamp = StartTime
  /\ usedTxIds = {}
  /\ r = <<>>
  /\ cache = {}
  /\ runs = 1
  /\ missed = FALSE

ReadCache ==
  /\ phase = "start"
  /\ r' \in cache
  /\ phase' = "done"
  /\ UNCHANGED <<chain, lastTimestamp, usedTxIds, cache, runs, missed>>

BeginFetch ==
  /\ phase = "start"
  /\ cache = {}
  /\ phase' = "mint"
  /\ missed' = FALSE
  /\ UNCHANGED <<chain, lastTimestamp, usedTxIds, r, cache, runs>>

\* Where the reading goes on: the next kind starts from the beginning again.
MoveTo(next) ==
  /\ phase' = next
  /\ lastTimestamp' = StartTime
  /\ usedTxIds' = {}

MorePages(page) ==
  /\ Cardinality(page) = PageSize
  /\ lastTimestamp' = LastOf(page)
  /\ usedTxIds' = usedTxIds \cup page
  /\ UNCHANGED phase

LastPage(page, next) ==
  /\ Cardinality(page) < PageSize
  /\ MoveTo(next)

FetchMints ==
  /\ phase = "mint"
  /\ \E page \in Pages("mint") :
       /\ r' = r \o NewEvents(page)
       /\ MorePages(page) \/ LastPage(page, "burn")
  /\ UNCHANGED <<chain, cache, runs, missed>>

FetchBurns ==
  /\ phase = "burn"
  /\ \E page \in Pages("burn") :
       /\ r' = r \o NewEvents(page)
       /\ MorePages(page) \/ LastPage(page, "swap")
  /\ UNCHANGED <<chain, cache, runs, missed>>

\* An empty page of swaps ends the process.
FetchSwaps ==
  /\ phase = "swap"
  /\ \E page \in Pages("swap") :
       /\ r' = r \o NewEvents(page)
       /\ MorePages(page) \/ LastPage(page, IF page = {} THEN "exited" ELSE "sort")
  /\ UNCHANGED <<chain, cache, runs, missed>>

\* The error of a mint query is thrown.
MintsUnanswered ==
  /\ phase = "mint"
  /\ MoveTo("failed")
  /\ missed' = TRUE
  /\ UNCHANGED <<chain, r, cache, runs>>

\* The error of a burn or a swap query is printed and the loop is left.
RestUnanswered ==
  /\ phase \in {"burn", "swap"}
  /\ MoveTo(NextPhase[phase])
  /\ missed' = TRUE
  /\ UNCHANGED <<chain, r, cache, runs>>

SortAndWrite ==
  /\ phase = "sort"
  /\ r' \in Arrangements
  /\ cache' = {r'}
  /\ phase' = "done"
  /\ UNCHANGED <<chain, lastTimestamp, usedTxIds, runs, missed>>

\* The tool is started again for the same pool and blocks.
RunAgain ==
  /\ phase \in Ended
  /\ runs < MaxRuns
  /\ runs' = runs + 1
  /\ phase' = "start"
  /\ r' = <<>>
  /\ UNCHANGED <<chain, lastTimestamp, usedTxIds, cache, missed>>

Step ==
  \/ ReadCache \/ BeginFetch
  \/ FetchMints \/ FetchBurns \/ FetchSwaps
  \/ SortAndWrite

Next == Step \/ MintsUnanswered \/ RestUnanswered \/ RunAgain

Spec == Init /\ [][Next]_vars

---------------------------------------------------------------------------
\* The events between the two blocks.
Window == {i \in DOMAIN chain : Time(i) < EndTime}

\* PROPERTY.  A history that is handed out and for which every query was
\* answered holds every event of the period exactly once and in the order of
\* the timestamps, however the pages overlapped and whether it comes from the
\* subgraph or from the file (UniswapV3Utils.ts:68-205).  And even when queries
\* failed, no burn comes before the mint whose liquidity it takes, not of one
\* second either: mints are never cut short and sort first (lines 72-75 and
\* 182-195).  The replay depends on it, a burn of absent liquidity reverts.
HistoryCanBeReplayed ==
  phase = "done" =>
    /\ ~missed => /\ Range(r) = Window
                  /\ IsInjective(r)
                  /\ \A k, l \in DOMAIN r : k < l => Time(r[k]) <= Time(r[l])
    /\ \A l \in DOMAIN r :
         LET mint == chain[r[l]].of IN
           mint # 0 => \E k \in 1 .. l - 1 : r[k] = mint
=============================================================================
