--------------------------- MODULE BacktestWorkers ---------------------------
(***************************************************************************)
(* Workers of the Uniswap V3 backtester (scripts/uniswapV3Backtester):     *)
(* containers that share a database with a task and its results, a genetic *)
(* search in generations.  A worker reads the state of the search, chooses *)
(* the parameters of one result, saves it as undone, runs it for hours,    *)
(* and saves it as done.  Between any two queries others do the same.      *)
(***************************************************************************)
EXTENDS Integers, Sequences, FiniteSets

CONSTANTS
  Workers,
  TickSpacing,            \* of the pool
  MaxTickRange, MaxRebalanceTickRange,
  Gens, MinIndividuals, BestIndividuals,    \* config of the task
  MaxResults, MaxCrashes  \* bounds

ConfigAssumption ==
  /\ TickSpacing \in Nat \ {0}
  /\ MaxTickRange \in Nat \ {0} /\ MaxTickRange % TickSpacing = 0
  /\ MaxRebalanceTickRange \in Nat \ {0} /\ MaxRebalanceTickRange % TickSpacing = 0
  /\ Gens \in Nat \ {0}
  /\ MinIndividuals \in Nat \ {0, 1}    \* with one parent the choice of the
  /\ BestIndividuals \in Nat \ {0, 1}   \*   second would never end
  /\ MaxResults \in Nat /\ MaxCrashes \in Nat

VARIABLES
  results,    \* table Result: [gen, done, params]
  taskDone,   \* task.done
  pc,         \* worker |-> where it is
  gen,        \* worker |-> lastGen, then the generation of its result
  params,     \* worker |-> strategyParams
  row,        \* worker |-> the row it is working on
  crashes,
  exhausted   \* history: a worker found no unused parameters in fifty tries

vars == <<results, taskDone, pc, gen, params, row, crashes, exhausted>>

Rows == DOMAIN results
DoneIn(g) == {i \in Rows : results[i].gen = g /\ results[i].done}
SmallerOf(a, b) == IF a < b THEN a ELSE b

-----------------------------------------------------------------------------
(* Parameters: a pair of ranges, multiples of the tick spacing.  Each       *)
(* function is the set of what its random choices can give.                 *)

Clipped(tickRange, rebalance) ==
  [tickRange |-> tickRange, rebalanceTickRange |-> SmallerOf(rebalance, tickRange)]

BornGen0 ==
  {Clipped(a * TickSpacing, b * TickSpacing) :
     a \in 1..(MaxTickRange \div TickSpacing), b \in 1..(MaxRebalanceTickRange \div TickSpacing)}

\* directions: {-1}, {1} or, unknown, both.  A range of one spacing cannot shrink,
\* whatever the direction; it stays or grows.
MutateTickRange(original, directions, maxMutate) ==
  LET spacings == original \div TickSpacing
      changes == {k * TickSpacing : k \in 1..SmallerOf(maxMutate, spacings - 1)}
  IN  IF spacings = 1 THEN {original, original + TickSpacing}
      ELSE {original + d * c : d \in directions, c \in changes}

MutateRebalanceTickRange(original, max) ==
  IF original >= max THEN {max} \cup MutateTickRange(max, {-1}, 3)
                     ELSE MutateTickRange(original, {-1, 1}, 5)

\* Two different ones of the best; any order of yields is possible.
Parents(g) == {p \in DoneIn(g) \X DoneIn(g) : p[1] # p[2]}

\* The smallest rebalance range that needed no rebalances, if there is such a result.
MaxRebalances(g) == {MaxRebalanceTickRange} \cup {results[i].params.rebalanceTickRange : i \in DoneIn(g)}

Children(g) ==
  UNION {{Clipped(t, r) : t \in MutateTickRange(results[p[1]].params.tickRange, {-1, 1}, 5),
                          r \in MutateRebalanceTickRange(results[p[2]].params.rebalanceTickRange, m)} :
           p \in Parents(g), m \in MaxRebalances(g)}

Exists(c) == \E i \in Rows : results[i].params = c

-----------------------------------------------------------------------------
(* A worker.  One call of main() per task: containers are started again.    *)

Goto(w, place) == pc' = [pc EXCEPT ![w] = place]

\* The first task that is not done, and its last generation.
ReadGen(w) ==
  /\ pc[w] = "start" /\ ~taskDone
  /\ gen' = [gen EXCEPT ![w] = IF \E i \in Rows : \A j \in Rows : results[j].gen <= results[i].gen
                               THEN CHOOSE g \in {results[i].gen : i \in Rows} : \A j \in Rows : results[j].gen <= g
                               ELSE 0]
  /\ Goto(w, "count")
  /\ UNCHANGED <<results, taskDone, params, row, crashes, exhausted>>

\* Mutant: all results counted, not those that are done.
EnoughStarted(g) == Cardinality({i \in Rows : results[i].gen = g}) >= MinIndividuals

\* alreadyDoneInGen has reached minIndividualsPerGen.
Enough(g) == Cardinality(DoneIn(g)) >= MinIndividuals

Count(w) ==
  /\ pc[w] = "count"
  /\ LET next == IF Enough(gen[w]) THEN gen[w] + 1 ELSE gen[w]
     IN  /\ gen' = [gen EXCEPT ![w] = next]
         /\ Goto(w, IF next = Gens THEN "closing" ELSE IF next = 0 THEN "born" ELSE "mutate")
  /\ UNCHANGED <<results, taskDone, params, row, crashes, exhausted>>

Born(w) ==
  /\ pc[w] = "born"
  /\ \E c \in BornGen0 : params' = [params EXCEPT ![w] = c]
  /\ Goto(w, "save")
  /\ UNCHANGED <<results, taskDone, gen, row, crashes, exhausted>>

\* The first of fifty children that is not yet in the table.
Mutate(w) ==
  /\ pc[w] = "mutate"
  /\ \E c \in Children(gen[w] - 1) : ~Exists(c) /\ params' = [params EXCEPT ![w] = c]
  /\ Goto(w, "save")
  /\ UNCHANGED <<results, taskDone, gen, row, crashes, exhausted>>

\* All fifty were.
Exhaust(w) ==
  /\ pc[w] = "mutate"
  /\ \E c \in Children(gen[w] - 1) : Exists(c)
  /\ exhausted' = TRUE
  /\ Goto(w, "closing")
  /\ UNCHANGED <<results, taskDone, gen, params, row, crashes>>

Save(w) ==
  /\ pc[w] = "save" /\ Len(results) < MaxResults
  /\ results' = Append(results, [gen |-> gen[w], done |-> FALSE, params |-> params[w]])
  /\ row' = [row EXCEPT ![w] = Len(results) + 1]
  /\ Goto(w, "run")
  /\ UNCHANGED <<taskDone, gen, params, crashes, exhausted>>

\* The backtest has run: apr, earned and rebalances are known.
Finish(w) ==
  /\ pc[w] = "run"
  /\ results' = [results EXCEPT ![row[w]].done = TRUE]
  /\ Goto(w, "start")
  /\ UNCHANGED <<taskDone, gen, params, row, crashes, exhausted>>

\* isTaskDone: no result in progress.
IsTaskDone == \A i \in Rows : results[i].done

\* Mutant: the end of the search seen, but not written.
CloseUnwritten(w) ==
  /\ pc[w] = "closing"
  /\ Goto(w, "start")
  /\ UNCHANGED <<results, taskDone, gen, params, row, crashes, exhausted>>

Close(w) ==
  /\ pc[w] = "closing"
  /\ Goto(w, IF IsTaskDone THEN "close" ELSE "start")
  /\ UNCHANGED <<results, taskDone, gen, params, row, crashes, exhausted>>

SaveTask(w) ==
  /\ pc[w] = "close"
  /\ taskDone' = TRUE
  /\ Goto(w, "start")
  /\ UNCHANGED <<results, gen, params, row, crashes, exhausted>>

\* A container is killed, or the fork of the chain fails: the row stays undone.
Crash(w) ==
  /\ pc[w] # "start" /\ crashes < MaxCrashes
  /\ crashes' = crashes + 1
  /\ Goto(w, "start")
  /\ UNCHANGED <<results, taskDone, gen, params, row, exhausted>>

Work(w) ==
  \/ ReadGen(w) \/ Count(w) \/ Born(w) \/ Mutate(w) \/ Exhaust(w)
  \/ Save(w) \/ Finish(w) \/ Close(w) \/ SaveTask(w)

Init ==
  /\ results = <<>> /\ taskDone = FALSE
  /\ pc = [w \in Workers |-> "start"]
  /\ gen = [w \in Workers |-> 0]
  /\ params = [w \in Workers |-> [tickRange |-> TickSpacing, rebalanceTickRange |-> TickSpacing]]
  /\ row = [w \in Workers |-> 0]
  /\ crashes = 0 /\ exhausted = FALSE

Next == \E w \in Workers : Work(w) \/ Crash(w)

Spec == Init /\ [][Next]_vars

-----------------------------------------------------------------------------
\* Ranges are whole spacings, at least one; a strategy does not rebalance within less
\* than its range, whatever mutations went before.
ValidParams(p) ==
  /\ p.tickRange % TickSpacing = 0 /\ p.rebalanceTickRange % TickSpacing = 0
  /\ TickSpacing <= p.rebalanceTickRange /\ p.rebalanceTickRange <= p.tickRange

TypeOK ==
  /\ \A i \in Rows :
       /\ results[i].gen \in 0..(Gens - 1)
       /\ results[i].done \in BOOLEAN
       /\ ValidParams(results[i].params)
  /\ taskDone \in BOOLEAN
  /\ pc \in [Workers -> {"start", "count", "born", "mutate", "save", "run", "closing", "close"}]
  /\ gen \in [Workers -> 0..Gens]
  /\ row \in [Workers -> 0..Len(results)]

\* A generation has offspring only once it has its number of finished individuals,
\* whichever worker counted them and when; and a task is closed only when its last
\* generation was filled, or parameters ran out.
GenerationsAreComplete ==
  /\ \A i \in Rows : results[i].gen > 0 => Cardinality(DoneIn(results[i].gen - 1)) >= MinIndividuals
  /\ taskDone => exhausted \/ Cardinality(DoneIn(Gens - 1)) >= MinIndividuals

\* Without crashes every task is closed in the end.
TaskEnds == <>taskDone

=============================================================================
