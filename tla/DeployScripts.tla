---------------------------- MODULE DeployScripts ----------------------------
(***************************************************************************)
(* The deployment scripts of src/deploy, one definition per file: its      *)
(* tags, the tags it depends on, the chains its skip function leaves it    *)
(* to, and its statements in order.  A statement is a step of its own      *)
(* where the script may be cut off before the next one.                    *)
(***************************************************************************)
EXTENDS Naturals, Sequences

Polygon == 137
ZkEvm == 1101
Base == 8453
AllChains == {1, Polygon, ZkEvm, Base}

\* 0 stands for Polygon in the past: scripts that are always skipped now ran
\* there, as the commented out skip functions and deployments/matic show.
Past == 0
Retired == {Past}

\* Names used over and over
SL == "StrategyLib"
SL2 == "StrategyLib2"
IPL == "IterationPlanLib"
CSBL == "ConverterStrategyBaseLib"
CSBL2 == "ConverterStrategyBaseLib2"
BL == "BorrowLib"
PBSL == "PairBasedStrategyLib"
PBSLL == "PairBasedStrategyLogicLib"

\* parseUnits of the fuse thresholds, in units of 0.0001
MaxUint == 1000000000
Limits(lowerOn, lowerOff, upperOn, upperOff) ==
  [lowerOn |-> lowerOn, lowerOff |-> lowerOff, upperOn |-> upperOn, upperOff |-> upperOff]
NoLimits == Limits(0, 0, 0, 0)

Script(tags, dependencies, chains, steps) ==
  [tags |-> tags, dependencies |-> dependencies, chains |-> chains, steps |-> steps]

Single(tag, dependencies, chains, steps) == Script(<<tag>>, dependencies, chains, steps)

\* op: what the statement does; name: the deployment it is about; gets: the
\* deployments it asks for; live: the strategies it calls, which must be
\* initialised for the call to succeed.
Step(op, name, gets, live, limits) ==
  [op |-> op, name |-> name, gets |-> gets, live |-> live, limits |-> limits]

\* isContractExist and return
Once(name) == Step("once", name, {}, {}, NoLimits)
\* deployments.deploy with skipIfAlreadyDeployed
Keep(name, gets) == Step("keep", name, gets, {}, NoLimits)

\* hardhatDeploy with the libraries to link and without skipIfAlreadyDeployed
Link(name, libraries) == Step("link", name, libraries, {}, NoLimits)

\* A strategy behind a proxy: three transactions after the check
Strategy(name, implementation, chains, limits) ==
  Single(name, <<implementation>>, chains,
    <<Once(name), Keep(name, {implementation}),
      Step("initProxy", name, {implementation}, {}, NoLimits), Step("init", name, {}, {}, limits)>>)

\* The libraries of a platform and the implementation of its strategies
DebtLib(name, lib, chains) ==
  Single(name, <<lib, CSBL2, BL, PBSLL>>, chains, <<Link(name, {lib, CSBL2, BL, PBSLL})>>)
LogicLib(name, lib, debtLib, chains) ==
  Single(name, <<lib, debtLib, CSBL2, PBSLL>>, chains,
    <<Link(name, {lib, debtLib, CSBL2, PBSLL, PBSL})>>)
PairStrategy(name, logicLib, chains) ==
  Single(name, <<CSBL, CSBL2, SL2, logicLib, PBSL, PBSLL>>, chains,
    <<Link(name, {CSBL, CSBL2, SL2, logicLib, PBSL, PBSLL})>>)

Resolver(name, strategy, chains) ==
  Single(name, <<strategy>>, chains, <<Keep(name, {strategy})>>)

\* A profit holder: the strategy is asked for its tokens, whose approvals in the
\* constructor fail for the zero addresses of a strategy without a state.
Holder(name, strategy, chains) ==
  Single(name, <<strategy>>, chains,
    <<Step("read", strategy, {strategy}, {}, NoLimits),
      Step("keep", name, {strategy}, {strategy}, NoLimits)>>)

\* An ERC4626 vault over a boosted strategy; its strategy is initialised only in
\* the run that deploys the vault.
BoostedVault(name, strategy) ==
  <<Step("get", strategy, {strategy}, {}, NoLimits), Once(name), Keep(name, {strategy}),
    Step("init", strategy, {name}, {}, NoLimits)>>

\* The same, but the strategy is initialised in any run that finds it without a vault
RepairedVault(name, strategy) ==
  <<Step("get", strategy, {strategy}, {}, NoLimits), Keep(name, {strategy}),
    Step("initUnlessSet", strategy, {name}, {}, NoLimits)>>

\* A Balancer pool made by a factory and recorded by hand; a composable pool
\* asks its rate providers for their rates.
Pool(name, tokens, rateProviders) ==
  <<Once(name), Step("create", name, tokens \cup rateProviders, rateProviders, NoLimits),
    Step("save", name, {}, {}, NoLimits)>>

-----------------------------------------------------------------------------

\* src/deploy/algebra-strategy
Algebra036 ==
  Single("AlgebraLib", <<>>, {Polygon}, <<Link("AlgebraLib", {})>>)
Algebra037 ==
  DebtLib("AlgebraDebtLib", "AlgebraLib", {Polygon})
Algebra038 ==
  LogicLib("AlgebraConverterStrategyLogicLib", "AlgebraLib", "AlgebraDebtLib", {Polygon})
Algebra039 ==
  PairStrategy("AlgebraConverterStrategy", "AlgebraConverterStrategyLogicLib", {Polygon})
Algebra1004 ==
  Resolver("RebalanceResolver_Algebra_UsdcUsdt",
    "Strategy_AlgebraConverterStrategy_UsdcUsdt", {Polygon})
Algebra1104 ==
  Holder("StrategyProfitHolder_Algebra_UsdcUsdt",
    "Strategy_AlgebraConverterStrategy_UsdcUsdt", {Polygon})
Algebra905 ==
  Strategy("Strategy_AlgebraConverterStrategy_UsdcUsdt", "AlgebraConverterStrategy", {Polygon},
    Limits(9970, 9980, 10030, 10020))

\* src/deploy/balancer-boost-vaults
Boost001 ==
  Single("tUsdcStrategy", <<>>, {Polygon},
    <<Keep("tUsdcStrategy", {})>>)
Boost002 ==
  Single("tDaiStrategy", <<>>, {Polygon},
    <<Keep("tDaiStrategy", {})>>)
Boost003 ==
  Single("tUsdtStrategy", <<>>, {Polygon},
    <<Keep("tUsdtStrategy", {})>>)
Boost004 ==
  Single("tUsdc4626Strict", <<>>, {Polygon},
    BoostedVault("tUsdc4626Strict", "tUsdcStrategy"))
Boost005 ==
  Single("tDai4626Strict", <<>>, {Polygon},
    BoostedVault("tDai4626Strict", "tDaiStrategy"))
Boost006 ==
  Single("tUsdt4626Strict", <<>>, {Polygon},
    BoostedVault("tUsdt4626Strict", "tUsdtStrategy"))

Boost007 ==
  Single("bbTUsdc4626LinearPool", <<>>, Retired,
    Pool("bbTUsdc4626LinearPool", {"tUsdc4626Strict"}, {}))
Boost008 ==
  Single("bbTDai4626LinearPool", <<>>, Retired,
    Pool("bbTDai4626LinearPool", {"tDai4626Strict"}, {}))
Boost009 ==
  Single("bbTUsdt4626LinearPool", <<>>, Retired,
    Pool("bbTUsdt4626LinearPool", {"tUsdt4626Strict"}, {}))
Boost010 ==
  Single("bbTUsdComposablePool", <<>>, Retired,
    Pool("bbTUsdComposablePool", {"bbTUsdc4626LinearPool", "bbTDai4626LinearPool",
     "bbTUsdt4626LinearPool"}, {"tUsdcStrategy", "tDaiStrategy", "tUsdtStrategy"}))
Boost018 ==
  Single("tWMaticStrategy", <<>>, Retired,
    <<Keep("tWMaticStrategy", {})>>)
Boost019 ==
  Single("tStMaticStrategy", <<>>, Retired,
    <<Keep("tStMaticStrategy", {})>>)
Boost020 ==
  Single("tWMatic4626Strict", <<"tWMaticStrategy">>, Retired,
    RepairedVault("tWMatic4626Strict", "tWMaticStrategy"))
Boost022 ==
  Single("tStMatic4626Strict", <<"tStMaticStrategy">>, Retired,
    RepairedVault("tStMatic4626Strict", "tStMaticStrategy"))
Boost024 ==
  Single("bbTWMATIC4626LinearPool", <<"tWMatic4626Strict">>, Retired,
    Pool("bbTWMATIC4626LinearPool", {"tWMatic4626Strict"}, {}))
Boost025 ==
  Single("bbTstMATIC4626LinearPool", <<"tStMatic4626Strict">>, Retired,
    Pool("bbTstMATIC4626LinearPool", {"tStMatic4626Strict"}, {}))
Boost029 ==
  Single("stMaticRateProvider", <<"tStMatic4626Strict">>, Retired,
    <<Keep("stMaticRateProvider", {"tStMatic4626Strict"})>>)
Boost030 ==
  Single("bbTMaticComposablePool", <<"bbTWMATIC4626LinearPool", "bbTstMATIC4626LinearPool",
     "stMaticRateProvider">>, Retired,
    Pool("bbTMaticComposablePool", {"bbTWMATIC4626LinearPool", "bbTstMATIC4626LinearPool",
     "stMaticRateProvider"}, {"tWMaticStrategy"}))
Boost032 ==
  Single("BoostedPoolsRebalanceResolver", <<>>, Retired,
    <<Once("BoostedPoolsRebalanceResolver"), Keep("BoostedPoolsRebalanceResolver", {})>>)

\* src/deploy/balancer-strategy
Balancer034 ==
  Single("BalancerLogicLib", <<>>, Retired, <<Link("BalancerLogicLib", {})>>)
Balancer035 ==
  Single("BalancerBoostedStrategy", <<SL, CSBL, CSBL2, "BalancerLogicLib">>, Retired,
    <<Link("BalancerBoostedStrategy", {SL, CSBL, CSBL2, "BalancerLogicLib"})>>)
Balancer900 ==
  Strategy("Strategy_BalancerBoostedStrategy_tUsd", "BalancerBoostedStrategy", Retired,
    NoLimits)

\* src/deploy/converter-strategy-libs
Libs011 ==
  Script(<<SL, SL2, IPL>>, <<>>, AllChains,
    <<Link(IPL, {}), Link(SL, {}), Link(SL2, {})>>)
Libs012Base ==
  Script(<<CSBL, CSBL2, BL>>, <<SL, IPL>>, AllChains,
    <<Link(CSBL, {IPL}), Link(CSBL2, {SL}), Link(BL, {CSBL})>>)

Libs012Pair ==
  Script(<<PBSL, PBSLL>>, <<CSBL, IPL, CSBL2, SL2>>, AllChains,
    <<Link(PBSL, {CSBL, IPL}), Link(PBSLL, {BL, CSBL2, PBSL, SL2})>>)

\* src/deploy/kyber-strategy
Kyber040 ==
  Single("KyberLib", <<>>, Retired, <<Link("KyberLib", {})>>)
Kyber041 ==
  DebtLib("KyberDebtLib", "KyberLib", Retired)
Kyber042 ==
  LogicLib("KyberConverterStrategyLogicLib", "KyberLib", "KyberDebtLib", Retired)
Kyber043 ==
  PairStrategy("KyberConverterStrategy", "KyberConverterStrategyLogicLib", Retired)
Kyber044 ==
  Single("KyberConverterStrategyEmergency", <<CSBL, CSBL2, SL2,
     "KyberConverterStrategyLogicLib", PBSLL>>, Retired,
    <<Link("KyberConverterStrategyEmergency", {CSBL, CSBL2, SL2,
     "KyberConverterStrategyLogicLib", PBSLL})>>)
Kyber1005 ==
  Resolver("RebalanceResolver_Kyber_UsdcUsdt",
    "Strategy_KyberConverterStrategy_UsdcUsdt", Retired)
Kyber1006 ==
  Resolver("RebalanceResolver_Kyber_UsdcDai",
    "Strategy_KyberConverterStrategy_UsdcDai", Retired)
Kyber1105 ==
  Holder("StrategyProfitHolder_Kyber_UsdcUsdt",
    "Strategy_KyberConverterStrategy_UsdcUsdt", Retired)
Kyber1106 ==
  Holder("StrategyProfitHolder_Kyber_UsdcDai",
    "Strategy_KyberConverterStrategy_UsdcDai", Retired)
Kyber906 ==
  Strategy("Strategy_KyberConverterStrategy_UsdcUsdt", "KyberConverterStrategy", Retired,
    Limits(9990, 9991, 10010, 10009))
Kyber907 ==
  Strategy("Strategy_KyberConverterStrategy_UsdcDai", "KyberConverterStrategy", Retired,
    Limits(9990, 9991, 10010, 10009))

\* src/deploy/pair
Pair200 ==
  Single("PairBasedStrategyReader", <<>>, AllChains,
    <<Link("PairBasedStrategyReader", {})>>)
Pair201 ==
  Single("RebalanceDebtConfig", <<>>, AllChains,
    <<Keep("RebalanceDebtConfig", {})>>)

\* src/deploy/pancake-strategy
Pancake036 ==
  Single("PancakeLib", <<>>, {ZkEvm, Base}, <<Link("PancakeLib", {})>>)
Pancake037 ==
  DebtLib("PancakeDebtLib", "PancakeLib", {ZkEvm, Base})
Pancake038 ==
  LogicLib("PancakeConverterStrategyLogicLib", "PancakeLib", "PancakeDebtLib", {ZkEvm, Base})
Pancake039 ==
  PairStrategy("PancakeConverterStrategy", "PancakeConverterStrategyLogicLib", {ZkEvm, Base})
Pancake1004 ==
  Resolver("RebalanceResolver_Pancake_UsdcUsdt",
    "Strategy_PancakeConverterStrategy_UsdcUsdt", {ZkEvm})
Pancake1005 ==
  Resolver("RebalanceResolver_Pancake_UsdcUsdbc",
    "Strategy_PancakeConverterStrategy_UsdcUsdbc", {Base})
Pancake1006 ==
  Resolver("RebalanceResolver_Pancake_DaiUsdbc",
    "Strategy_PancakeConverterStrategy_DaiUsdbc", {Base})
Pancake1104 ==
  Holder("StrategyProfitHolder_Pancake_UsdcUsdt",
    "Strategy_PancakeConverterStrategy_UsdcUsdt", {ZkEvm})
Pancake1105 ==
  Holder("StrategyProfitHolder_Pancake_UsdcUsdbc",
    "Strategy_PancakeConverterStrategy_UsdcUsdbc", {Base})
Pancake1106 ==
  Holder("StrategyProfitHolder_Pancake_DaiUsdbc",
    "Strategy_PancakeConverterStrategy_DaiUsdbc", {Base})
Pancake905 ==
  Strategy("Strategy_PancakeConverterStrategy_UsdcUsdt", "PancakeConverterStrategy", {ZkEvm},
    Limits(9970, 9980, 10030, 10020))
Pancake906 ==
  Strategy("Strategy_PancakeConverterStrategy_UsdcUsdbc", "PancakeConverterStrategy", {Base},
    Limits(9970, 9980, 10030, 10020))
Pancake907 ==
  Strategy("Strategy_PancakeConverterStrategy_DaiUsdbc", "PancakeConverterStrategy", {Base},
    Limits(9990, 9991, 10010, 10009))

\* src/deploy/uniswap-strategy
UniV3013 ==
  Single("UniswapV3Lib", <<>>, AllChains \ {ZkEvm}, <<Link("UniswapV3Lib", {})>>)
UniV3014 ==
  DebtLib("UniswapV3DebtLib", "UniswapV3Lib", AllChains \ {ZkEvm})
UniV3015 ==
  Single("UniswapV3ConverterStrategyLogicLib", <<"UniswapV3Lib", PBSLL, CSBL2,
     "UniswapV3DebtLib">>, AllChains \ {ZkEvm},
    <<Link("UniswapV3ConverterStrategyLogicLib", {"UniswapV3Lib", PBSLL, "UniswapV3DebtLib",
     CSBL2, PBSL})>>)
UniV3016 ==
  PairStrategy("UniswapV3ConverterStrategy", "UniswapV3ConverterStrategyLogicLib",
     AllChains \ {ZkEvm})
UniV31000 ==
  Resolver("RebalanceResolver_UniswapV3_UsdcUsdt",
    "Strategy_UniswapV3ConverterStrategy_UsdcUsdt", {Polygon})
UniV31001 ==
  Resolver("RebalanceResolver_UniswapV3_UsdcDai",
    "Strategy_UniswapV3ConverterStrategy_UsdcDai", Retired)
UniV31002 ==
  Resolver("RebalanceResolver_UniswapV3_wstETHWETH100",
    "Strategy_UniswapV3ConverterStrategy_wstETHWETH100", Retired)
UniV31003 ==
  Resolver("RebalanceResolver_UniswapV3_WMaticMaticX100",
    "Strategy_UniswapV3ConverterStrategy_WMaticMaticX100", Retired)
UniV31100 ==
  Holder("StrategyProfitHolder_UniswapV3_UsdcUsdt",
    "Strategy_UniswapV3ConverterStrategy_UsdcUsdt", {Polygon})
UniV31101 ==
  Holder("StrategyProfitHolder_UniswapV3_UsdcDai",
    "Strategy_UniswapV3ConverterStrategy_UsdcDai", Retired)
UniV31102 ==
  Holder("StrategyProfitHolder_UniswapV3_wstETHWETH100",
    "Strategy_UniswapV3ConverterStrategy_wstETHWETH100", Retired)
UniV31103 ==
  Holder("StrategyProfitHolder_UniswapV3_WMaticMaticX100",
    "Strategy_UniswapV3ConverterStrategy_WMaticMaticX100", Retired)
UniV31110 ==
  Holder("StrategyProfitHolder_UniswapV3_Base_UsdbcUsdc",
    "Strategy_UniswapV3ConverterStrategy_Base_UsdbcUsdc", {Base})
UniV31111 ==
  Holder("StrategyProfitHolder_UniswapV3_Base_UsdbcDai",
    "Strategy_UniswapV3ConverterStrategy_Base_UsdbcDai", {Base})
UniV3900 ==
  Strategy("Strategy_UniswapV3ConverterStrategy_UsdcUsdt", "UniswapV3ConverterStrategy",
     {Polygon},
    Limits(9990, 9991, 10010, 10009))
UniV3901 ==
  Strategy("Strategy_UniswapV3ConverterStrategy_UsdcDai", "UniswapV3ConverterStrategy", Retired,
    Limits(9990, 9991, 10010, 10009))
UniV3902 ==
  Strategy("Strategy_UniswapV3ConverterStrategy_UsdcMiMatic", "UniswapV3ConverterStrategy",
     Retired,
    Limits(0, 0, MaxUint, 0))
UniV3903 ==
  Strategy("Strategy_UniswapV3ConverterStrategy_wstETHWETH100", "UniswapV3ConverterStrategy",
     Retired,
    Limits(0, 0, MaxUint, 0))
UniV3904 ==
  Strategy("Strategy_UniswapV3ConverterStrategy_WMaticMaticX100", "UniswapV3ConverterStrategy",
     Retired,
    Limits(0, 0, MaxUint, 0))
UniV3910 ==
  Strategy("Strategy_UniswapV3ConverterStrategy_Base_UsdbcUsdc", "UniswapV3ConverterStrategy",
     {Base},
    Limits(9995, 9996, 10005, 10004))
UniV3911 ==
  Strategy("Strategy_UniswapV3ConverterStrategy_Base_UsdbcDai", "UniswapV3ConverterStrategy",
     {Base},
    Limits(9995, 9996, 10005, 10004))

\* All files in the order of their paths, the order hardhat-deploy takes them in
Files ==
  <<Algebra036, Algebra037, Algebra038, Algebra039, Algebra1004,
    Algebra1104, Algebra905, Boost001, Boost002, Boost003, Boost004,
    Boost005, Boost006, Boost007, Boost008, Boost009, Boost010,
    Boost018, Boost019, Boost020, Boost022, Boost024, Boost025,
    Boost029, Boost030, Boost032, Balancer034, Balancer035,
    Balancer900, Libs011, Libs012Base, Libs012Pair, Kyber040, Kyber041,
    Kyber042, Kyber043, Kyber044, Kyber1005, Kyber1006, Kyber1105,
    Kyber1106, Kyber906, Kyber907, Pair200, Pair201, Pancake036,
    Pancake037, Pancake038, Pancake039, Pancake1004, Pancake1005,
    Pancake1006, Pancake1104, Pancake1105, Pancake1106, Pancake905,
    Pancake906, Pancake907, UniV3013, UniV3014, UniV3015, UniV3016,
    UniV31000, UniV31001, UniV31002, UniV31003, UniV31100, UniV31101,
    UniV31102, UniV31103, UniV31110, UniV31111, UniV3900, UniV3901,
    UniV3902, UniV3903, UniV3904, UniV3910, UniV3911>>
=============================================================================
