----------------------------- MODULE MCReleases -----------------------------
(***************************************************************************)
(* Releases on small instances.                                            *)
(***************************************************************************)
EXTENDS Releases, TLC

-----------------------------------------------------------------------------
(* Deployment: the four chains, and Polygon before scripts are retired;     *)
(* full runs that are cut off and whose sources are edited, or each script  *)
(* alone, by its tag, on a fresh chain.                                     *)

AllTags == UNION {Range(Files[f].tags) : f \in DOMAIN Files}

Full(c, past) == [chain |-> c, past |-> past, requests |-> {{}}, runs |-> 3]
Tagged1(c, past) == [chain |-> c, past |-> past, requests |-> {{t} : t \in AllTags}, runs |-> 1]

MCNetworks ==
  {Full(c, FALSE) : c \in AllChains} \cup {Tagged1(c, FALSE) : c \in AllChains}
    \cup {Full(Polygon, TRUE), Tagged1(Polygon, TRUE)}

MCEditable == {"IterationPlanLib", "UniswapV3Lib"}

-----------------------------------------------------------------------------
(* Information: a contract linked with two libraries of one name in two     *)
(* files, an identical copy of a plain contract, a library, an OVM build, a *)
(* contract that is longer by one cell and one that is equal to it but for  *)
(* an immutable, artifacts without a build info or of another compiler.     *)

Lib(s, n) == [source |-> s, name |-> n]
Art(n, b, v, c, l, im, cr) ==
  [name |-> n, buildInfo |-> b, solc |-> v, code |-> c, links |-> l,
   immutables |-> im, creationOnly |-> cr]
NoLinks == [l \in {} |-> {}]

StrategyArt == Art("Strategy", TRUE, 817, <<"op", "00", "jump", "00", "imm">>,
                [l \in {Lib("A", "Logic")} |-> {2, 4}], {5}, {Lib("B", "Logic"), Lib("B", "Setup")})
Plain    == Art("Plain", TRUE, 817, <<"op", "stop">>, NoLinks, {}, {})
Copy     == Art("Copy", TRUE, 817, <<"op", "stop">>, NoLinks, {}, {})
Longer   == Art("Longer", TRUE, 817, <<"op", "stop", "stop">>, NoLinks, {}, {})
Other    == Art("Other", TRUE, 817, <<"op", "00", "jump", "00">>,
                [l \in {Lib("A", "Logic")} |-> {2, 4}], {}, {})
Masked   == Art("Masked", TRUE, 817, <<"op", "stop", "00">>, NoLinks, {3}, {})
LogicArt == Art("Logic", TRUE, 506, <<"73", "00", "run">>, NoLinks, {}, {})
Ovm      == Art("Ovm", TRUE, 406, <<"op", "ovm-find">>, NoLinks, {}, {})
Unbuilt  == Art("Unbuilt", FALSE, 817, <<"old">>, NoLinks, {}, {})
Stale    == Art("Stale", TRUE, 800, <<"stale">>, NoLinks, {}, {})

ArtifactsDef == <<Plain, Longer, Masked, StrategyArt, Other, LogicArt, Ovm, Copy, Unbuilt, Stale>>

\* The OVM's compiler is in no config; one config lists a compiler that is too old.
CompilersDef == {{506, 817}, {410, 817}}

Named(v) == [form |-> "named", solc |-> v]
Deploy(a, cells, linked, md) == [of |-> a.name, code |-> cells, linked |-> linked, metadata |-> md]

DeploymentsDef ==
  {Deploy(StrategyArt, <<"op", x, "jump", x, im>>, [l \in {Lib("A", "Logic")} |-> x], Named(817)) :
     x \in {"a1", "a2"}, im \in {"v1", "v2"}}
  \union {Deploy(Other, <<"op", x, "jump", x>>, [l \in {Lib("A", "Logic")} |-> x], Named(817)) :
     x \in {"a1", "a2"}}
  \union {Deploy(Plain, Plain.code, NoLinks, md) :
     md \in {Named(817), Named(700), [form |-> "unreadable", solc |-> 0]}}
  \union {Deploy(Copy, Copy.code, NoLinks, Named(817)),
          Deploy(Masked, <<"op", "stop", "v1">>, NoLinks, Named(817)),
          Deploy(Longer, Longer.code, NoLinks, Named(817)),
          Deploy(LogicArt, <<"73", "self", "run">>, NoLinks, [form |-> "unnamed", solc |-> 0]),
          Deploy(Ovm, <<"op", "ovm-replace">>, NoLinks, [form |-> "unreadable", solc |-> 0]),
          Deploy(Unbuilt, Unbuilt.code, NoLinks, Named(817)),
          Deploy(Stale, Stale.code, NoLinks, Named(817))}

Keys == {[source |-> s, name |-> n] : s \in {"", "A", "B"}, n \in {"Logic", "Setup"}}
Addresses == {[valid |-> TRUE, of |-> "a1", lower |-> TRUE], [valid |-> TRUE, of |-> "a1", lower |-> FALSE],
              [valid |-> TRUE, of |-> "a2", lower |-> FALSE], [valid |-> FALSE, of |-> "a1", lower |-> FALSE]}
Entries == {[key |-> k, address |-> a] : k \in Keys, a \in Addresses}
GoodEntries == {e \in Entries : e.address.valid /\ e.address.lower = FALSE}

(* A JavaScript object has each key once. *)
UserInputsDef ==
  {s \in {<<>>} \union {<<e>> : e \in Entries} \union (GoodEntries \X GoodEntries)
       \union {<<a, b, c>> : a, b, c \in {e \in GoodEntries : e.key.source # ""}} :
     \A k, n \in DOMAIN s : k # n => s[k].key # s[n].key}

-----------------------------------------------------------------------------
(* Verification: two runs of the script, one contract whose minimal input   *)
(* never reproduces it.                                                     *)

ListedDef == <<"Lib", "Strategy">>
=============================================================================
