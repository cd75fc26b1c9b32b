------------------------- MODULE StrategyDeployment -------------------------
(***************************************************************************)
(* `hardhat deploy`: the scripts of src/deploy run on one chain, again and *)
(* again over the years, with sources edited between the runs and runs     *)
(* that are cut off by a failed transaction, a timeout or the operator.    *)
(* Scripts that are no longer wanted get a skip function that is always    *)
(* true; what they deployed stays on the chain and on record.              *)
(*                                                                         *)
(* hardhat-deploy itself is external: it sorts the files by path, puts the *)
(* scripts a script depends on before it, leaves out those whose skip      *)
(* function says so, and deploys again what has other code or libraries    *)
(* than its record, unless it is told to keep what is deployed.            *)
(***************************************************************************)
EXTENDS DeployScripts, FiniteSets, SequencesExt

CONSTANTS
  Networks,   \* the chains to look at: [chain, past, requests, runs]; past: with the scripts
              \*   skipped now, until they are retired; requests: the sets of tags a run is
              \*   started with, {} being a run without --tags; runs: bound
  Editable,   \* the contracts whose sources the developers change
  MaxCrashes, MaxEdits   \* bounds

F == INSTANCE PairFuse

VARIABLES
  net,        \* the network of this behaviour
  code,       \* version of the sources of an editable contract
  records,    \* deployments/<network>: name -> the address (a counter), code and links
  proxied,    \* proxies with an implementation
  inited,     \* strategies that are initialised
  created,    \* pools created by a factory on the chain: name -> how many
  request, plan, step,   \* the run: its tags, the scripts to do, the statement
  outcome, crashes, runs,
  hit,        \* names in the hands of a script when it was cut off half way
  settled     \* the last full run succeeded, and no source was changed since

chainVars == <<records, proxied, inited, created>>
vars == <<net, code, chainVars, request, plan, step, outcome, crashes, runs, hit, settled>>

Names == UNION {{Files[i].steps[k].name : k \in DOMAIN Files[i].steps} : i \in DOMAIN Files}
PoolNames == {n \in Names : \E i \in DOMAIN Files : \E k \in DOMAIN Files[i].steps :
                              Files[i].steps[k].op = "create" /\ Files[i].steps[k].name = n}

-----------------------------------------------------------------------------
\* The order of the scripts

Tagged(tags) == SelectSeq([i \in DOMAIN Files |-> i], LAMBDA i : Range(Files[i].tags) \cap tags # {})

\* The files a file depends on, tag by tag
FilesToVisit(i) ==
  FlattenSeq([d \in DOMAIN Files[i].dependencies |-> Tagged({Files[i].dependencies[d]})])

\* Depth first: each file after those it depends on
VisitAll[order \in Seq(DOMAIN Files), files \in Seq(DOMAIN Files)] ==
  CASE files = <<>> -> order
    [] files # <<>> /\ Head(files) \in Range(order) -> VisitAll[order, Tail(files)]
    [] OTHER -> VisitAll[Append(VisitAll[order, FilesToVisit(Head(files))], Head(files)), Tail(files)]

\* The skip function of a file lets it run on a chain as it is looked at.
RunsOn(n, i) == n.chain \in Files[i].chains \/ (n.past /\ Past \in Files[i].chains)

OrderOn(n, tags) ==
  LET wanted == IF tags = {} THEN [i \in DOMAIN Files |-> i] ELSE Tagged(tags)
  IN  SelectSeq(VisitAll[<<>>, wanted], LAMBDA i : RunsOn(n, i))

-----------------------------------------------------------------------------
\* What the scripts are like, for the theorems

Lines(i) == DOMAIN Files[i].steps
Line(i, k) == Files[i].steps[k]
Makes(s) == s.op \in {"keep", "link", "save"}
Inits(s) == s.op \in {"init", "initUnlessSet"}

\* Scripts that ask for deployments they do not depend on: they rely on the
\* order of their files and fail when they are run alone.
WithoutDependencies ==
  {"tUsdc4626Strict", "tDai4626Strict", "tUsdt4626Strict", "bbTUsdc4626LinearPool",
   "bbTDai4626LinearPool", "bbTUsdt4626LinearPool", "bbTUsdComposablePool"}

\* The strategies that no later script calls
Unread(n) ==
  {"Strategy_UniswapV3ConverterStrategy_UsdcMiMatic", "Strategy_BalancerBoostedStrategy_tUsd"}
    \cup (IF n.past THEN {} ELSE {"tUsdcStrategy", "tDaiStrategy", "tUsdtStrategy"})

\* A deployment is recorded by one statement, a strategy initialised by one, and
\* nothing is linked with itself or with what is recorded by hand.
NamesAreOwn ==
  /\ \A i, f \in DOMAIN Files : \A k \in Lines(i), m \in Lines(f) :
       /\ Makes(Line(i, k)) /\ Makes(Line(f, m)) /\ Line(i, k).name = Line(f, m).name => i = f /\ k = m
       /\ Inits(Line(i, k)) /\ Inits(Line(f, m)) /\ Line(i, k).name = Line(f, m).name => i = f /\ k = m
       /\ Line(i, k).op = "save" /\ Line(f, m).op = "link" => Line(i, k).name \notin Line(f, m).gets
       /\ Line(i, k).op = "link" => Line(i, k).name \notin Line(i, k).gets
  /\ \A i \in DOMAIN Files : Files[i].steps # <<>> /\ Files[i].steps \in Seq(Range(Files[i].steps))

\* The chains looked at, and the same after the scripts of the past are retired.
AsNow(n) == [n EXCEPT !.past = FALSE]
NetworksToCome == Networks \cup {AsNow(n) : n \in Networks}

\* Without the tags of the seven, each script comes after those it asks.
OrdersFollow ==
  \A n \in NetworksToCome : \A tags \in n.requests \cup {{}} :
    LET order == OrderOn(n, tags) IN
    /\ order \in Seq({i \in DOMAIN Files : RunsOn(n, i)})
    /\ tags = {} => \A i \in DOMAIN Files : RunsOn(n, i) => i \in Range(order)
    /\ tags \cap WithoutDependencies = {} =>
         \A q \in DOMAIN order : \A k \in Lines(order[q]) : \A l \in Line(order[q], k).gets :
           \E p \in 1..q : \E m \in Lines(order[p]) :
             /\ Makes(Line(order[p], m)) /\ Line(order[p], m).name = l
             /\ p < q \/ m < k

\* What is left out because x is recorded records x only, and links nothing.
ChecksComeFirst ==
  \A i \in DOMAIN Files : \A k \in Lines(i) :
    /\ Line(i, k).op = "once" =>
         \A m \in Lines(i) :
           /\ Line(i, m).op # "link"
           /\ m > k /\ Makes(Line(i, m)) => Line(i, m).name = Line(i, k).name
    /\ Line(i, k).op = "create" =>
         \E o, m \in Lines(i) :
           /\ o < k /\ Line(i, o).op = "once" /\ Line(i, o).name = Line(i, k).name
           /\ k < m /\ Line(i, m).op = "save" /\ Line(i, m).name = Line(i, k).name

\* Nothing is in the way from the deployment j to the initialisation k.
Guards(i, j, k) ==
  /\ j < k /\ Line(i, j).op = "keep" /\ Inits(Line(i, k))
  /\ \A m \in Lines(i) : j < m /\ m < k => Line(i, m).op = "initProxy"
  /\ \A m \in Lines(i) : j < m /\ m <= k =>
       Line(i, m).gets \subseteq {Line(i, j).name} \cup UNION {Line(i, o).gets : o \in 1..j}
  /\ Line(i, k).op = "init" =>
       /\ F!ValidThresholds(Line(i, k).limits)
       /\ \E o \in 1..(j - 1) : Line(i, o).op = "once" /\ Line(i, o).name = Line(i, j).name

InitsFollow ==
  \A i \in DOMAIN Files : \A k \in Lines(i) : Inits(Line(i, k)) => \E j \in Lines(i) : Guards(i, j, k)

\* A strategy is called only after what is deployed just before it is initialised.
Asks(s, name) ==
  \/ name \in s.gets
  \/ \E f \in DOMAIN Files : \E m \in Lines(f) :
       /\ Makes(Line(f, m)) /\ Line(f, m).name \in s.gets
       /\ \E o \in 1..m : name \in Line(f, o).gets

CallsAreGuarded ==
  \A i \in DOMAIN Files : \A k \in Lines(i) :
    /\ Line(i, k).op = "read" =>
         \E f \in DOMAIN Files : \E j, m, o \in Lines(f) :
           /\ Guards(f, j, o) /\ Asks(Line(i, k), Line(f, j).name) /\ Line(f, o).name = Line(i, k).name
           /\ Line(f, m).op = "initProxy" /\ m < o /\ Line(f, m).name = Line(i, k).name
    /\ \A name \in Line(i, k).live :
         \E f \in DOMAIN Files : \E j, o \in Lines(f) :
           Guards(f, j, o) /\ Asks(Line(i, k), Line(f, j).name) /\ Line(f, o).name = name

\* A strategy that is initialised in one run only is called by what another script deploys.
OthersAreCalled ==
  \A n \in NetworksToCome : \A i \in DOMAIN Files : \A k \in Lines(i) :
    /\ RunsOn(n, i) /\ Inits(Line(i, k)) /\ Line(i, k).name \notin Unread(n)
    /\ \E o \in Lines(i) : Line(i, o).op = "once"
    =>
      \E f \in DOMAIN Files : \E o, m \in Lines(f) :
        /\ RunsOn(n, f) /\ Line(i, k).name \in Line(f, o).live /\ Line(f, o).op \in {"keep", "create"}
        /\ o <= m /\ Makes(Line(f, m)) /\ Line(f, m).name = Line(f, o).name

ScriptsAssumption ==
  NamesAreOwn /\ OrdersFollow /\ ChecksComeFirst /\ InitsFollow /\ CallsAreGuarded /\ OthersAreCalled

-----------------------------------------------------------------------------
NoRecords == [n \in {} |-> 0]

Init ==
  /\ net \in Networks
  /\ code = [n \in Editable |-> 0]
  /\ records = NoRecords /\ proxied = {} /\ inited = {}
  /\ created = [p \in PoolNames |-> 0]
  /\ request = {} /\ plan = <<>> /\ step = 1
  /\ outcome = "none" /\ crashes = 0 /\ runs = 0
  /\ hit = {} /\ settled = FALSE

Idle == outcome # "running"

StartRun(tags) ==
  /\ Idle /\ runs < net.runs
  /\ runs' = runs + 1
  /\ outcome' = "running" /\ request' = tags
  /\ plan' = OrderOn(net, tags) /\ step' = 1
  /\ UNCHANGED <<net, code, chainVars, crashes, hit, settled>>

\* Sources are counted from the first run on.
Edit(n) ==
  /\ Idle /\ runs > 0 /\ code[n] < MaxEdits
  /\ code' = [code EXCEPT ![n] = @ + 1]
  /\ settled' = FALSE
  /\ UNCHANGED <<net, chainVars, request, plan, step, outcome, crashes, runs, hit>>

\* The skip functions of scripts of the past are set to true.
Retire ==
  /\ Idle /\ runs > 0 /\ net.past
  /\ net' = AsNow(net)
  /\ UNCHANGED <<code, chainVars, request, plan, step, outcome, crashes, runs, hit, settled>>

-----------------------------------------------------------------------------
\* One statement of the first script of the plan

This == Files[Head(plan)]
Now == This.steps[step]

Recorded(n) == n \in DOMAIN records
CodeOf(n) == IF n \in Editable THEN code[n] ELSE 0
Links(s) == [l \in s.gets |-> records[l].address]

MoveOn ==
  IF step = Len(This.steps)
  THEN plan' = Tail(plan) /\ step' = 1
  ELSE plan' = plan /\ step' = step + 1

Leave == plan' = Tail(plan) /\ step' = 1

\* A new address, linked with the libraries as they are recorded
Deployed(n, s) ==
  LET new == [address |-> IF Recorded(n) THEN records[n].address + 1 ELSE 1,
              code |-> CodeOf(n), links |-> Links(s)]
  IN  [m \in DOMAIN records \cup {n} |-> IF m = n THEN new ELSE records[m]]

\* Mutant: the holder and the pool are made without a call of the strategy
FailsBlind(s) ==
  \/ \E n \in s.gets : ~Recorded(n)
  \/ s.op = "read" /\ s.name \notin proxied
  \/ s.op = "init" /\ (s.name \in inited \/ ~F!ValidThresholds(s.limits))

Fails(s) ==
  \/ \E n \in s.gets : ~Recorded(n)
  \/ s.op = "read" /\ s.name \notin proxied
  \/ s.op \in {"keep", "create"} /\ ~Recorded(s.name) /\ ~(s.live \subseteq inited)
  \/ s.op = "init" /\ (s.name \in inited \/ ~F!ValidThresholds(s.limits))

\* Mutant: isContractExist is not asked
OnceUnchecked ==
  Now.op = "once" /\ MoveOn /\ UNCHANGED chainVars

Once_ ==
  /\ Now.op = "once"
  /\ IF Recorded(Now.name) THEN Leave ELSE MoveOn
  /\ UNCHANGED chainVars

Get_ ==
  /\ Now.op \in {"get", "read"}
  /\ MoveOn /\ UNCHANGED chainVars

\* Mutant: deployed only once, as if skipIfAlreadyDeployed were set for a library
NeedsDeployOnce(s) == ~Recorded(s.name)

NeedsDeploy(s) ==
  \/ ~Recorded(s.name)
  \/ s.op = "link" /\ (records[s.name].code # CodeOf(s.name) \/ records[s.name].links # Links(s))

Deploy_ ==
  /\ Now.op \in {"keep", "link"}
  /\ records' = IF NeedsDeploy(Now) THEN Deployed(Now.name, Now) ELSE records
  /\ MoveOn /\ UNCHANGED <<proxied, inited, created>>

InitProxy_ ==
  /\ Now.op = "initProxy"
  /\ proxied' = proxied \cup {Now.name}
  /\ MoveOn /\ UNCHANGED <<records, inited, created>>

Init_ ==
  /\ Now.op \in {"init", "initUnlessSet"}
  /\ inited' = inited \cup {Now.name}
  /\ MoveOn /\ UNCHANGED <<records, proxied, created>>

Create_ ==
  /\ Now.op = "create"
  /\ created' = [created EXCEPT ![Now.name] = @ + 1]
  /\ MoveOn /\ UNCHANGED <<records, proxied, inited>>

Save_ ==
  /\ Now.op = "save"
  /\ records' = Deployed(Now.name, Now)
  /\ MoveOn /\ UNCHANGED <<proxied, inited, created>>

Statement ==
  /\ outcome = "running" /\ plan # <<>> /\ ~Fails(Now)
  /\ Once_ \/ Get_ \/ Deploy_ \/ InitProxy_ \/ Init_ \/ Create_ \/ Save_
  /\ UNCHANGED <<net, code, request, outcome, crashes, runs, hit, settled>>

-----------------------------------------------------------------------------
\* A missing deployment or a revert ends the run
Fail ==
  /\ outcome = "running" /\ plan # <<>> /\ Fails(Now)
  /\ outcome' = IF \E n \in Now.gets : ~Recorded(n) THEN "missing" ELSE "reverted"
  /\ settled' = FALSE
  /\ UNCHANGED <<net, code, chainVars, request, plan, step, crashes, runs, hit>>

Finish ==
  /\ outcome = "running" /\ plan = <<>>
  /\ outcome' = "ok"
  /\ settled' = (settled \/ request = {})
  /\ UNCHANGED <<net, code, chainVars, request, plan, step, crashes, runs, hit>>

\* What the script has begun and not finished
HalfDone ==
  LET did == {k \in 1..(step - 1) : This.steps[k].op \in {"keep", "initProxy", "create"}}
  IN  IF did = {} THEN {} ELSE {This.steps[k].name : k \in DOMAIN This.steps}

Crash ==
  /\ outcome = "running" /\ crashes < MaxCrashes
  /\ crashes' = crashes + 1
  /\ outcome' = "crashed"
  /\ hit' = IF plan = <<>> THEN hit ELSE hit \cup HalfDone
  /\ UNCHANGED <<net, code, chainVars, request, plan, step, runs, settled>>

Next ==
  \/ \E tags \in net.requests : StartRun(tags)
  \/ \E n \in Editable : Edit(n)
  \/ Retire
  \/ Statement
  \/ Fail
  \/ Finish
  \/ Crash

Spec == Init /\ [][Next]_vars

-----------------------------------------------------------------------------
TypeOK ==
  /\ net \in NetworksToCome
  /\ code \in [Editable -> 0..MaxEdits]
  /\ DOMAIN records \subseteq Names
  /\ \A n \in DOMAIN records :
       records[n].address \in 1..net.runs /\ records[n].code \in 0..MaxEdits
  /\ proxied \subseteq DOMAIN records /\ inited \subseteq DOMAIN records
  /\ created \in [PoolNames -> 0..net.runs]
  /\ request \in net.requests \cup {{}}
  /\ Range(plan) \subseteq DOMAIN Files
  /\ plan # <<>> => step \in DOMAIN This.steps
  /\ outcome \in {"none", "running", "ok", "missing", "reverted", "crashed"}
  /\ runs \in 0..net.runs /\ crashes \in 0..MaxCrashes
  /\ hit \subseteq Names /\ settled \in BOOLEAN

\* Whatever is deployed, edited and cut off before, a run fails for two reasons
\* only: one of the seven scripts without dependencies was asked for by its tag,
\* or a strategy that a run left half made is in the way.
FailureIsExplained ==
  /\ outcome = "missing" => request \cap WithoutDependencies # {}
  /\ outcome = "reverted" => hit \ inited # {}

\* After a full run every library and implementation of the scripts that run is
\* the newest source, linked with the newest libraries: no script runs before
\* one whose library it links, and none keeps what should be replaced, whether
\* or not scripts were retired since it was deployed first.  (What retired
\* scripts have on record stays linked with the libraries of its time, as in
\* deployments/matic/KyberConverterStrategyLogicLib.json; no run changes it.)
LinkedToNewest ==
  settled =>
    \A i \in DOMAIN Files : \A k \in DOMAIN Files[i].steps :
      LET s == Files[i].steps[k] IN
      s.op = "link" /\ RunsOn(net, i) /\ Recorded(s.name) =>
        /\ records[s.name].code = CodeOf(s.name)
        /\ records[s.name].links = Links(s)

\* A full run that succeeds leaves no strategy without its initialisation, but
\* for those a run was cut off at and that no later script calls: for the
\* others the profit holder or the composable pool makes each run fail.
SuccessMeansReady ==
  outcome = "ok" /\ request = {} =>
    \A i \in DOMAIN Files : \A k \in DOMAIN Files[i].steps :
      LET s == Files[i].steps[k] IN
      s.op \in {"init", "initUnlessSet"} /\ RunsOn(net, i) =>
        s.name \in inited \cup (hit \cap Unread(net))

=============================================================================
