---------------------------- MODULE PoolPosition ----------------------------
(***************************************************************************)
(* What a vault may expect of the position of a pair strategy, in the      *)
(* pool's own record of it.  All liquidity is at one range; it is placed   *)
(* where the price is, by a strategy whose fuse is off, and only after all *)
(* that was elsewhere has been taken out; a fuse that the prices switch on *)
(* empties the pool in the same call.  When a strategy enters or leaves,   *)
(* and with how much, is open.                                             *)
(***************************************************************************)
EXTENDS PairRange

CONSTANTS
  Ranges,    \* where liquidity can be
  ByHand     \* may the operator switch the fuse himself?

VARIABLES
  tick,      \* the price of the pool
  fuseOn,    \* is the fuse triggered?
  at,        \* the range of the strategy
  held       \* liquidity the pool holds for the strategy, per range

vars == <<tick, fuseOn, at, held>>

Nowhere == [r \in Ranges |-> 0]
OnlyAt(h, r) == h \in [Ranges -> Nat] /\ \A s \in Ranges \ {r} : h[s] = 0

Init == at \in Ranges /\ held = Nowhere /\ ~fuseOn

\* A withdrawal, a payment or a part of the profit is taken out.
Leave ==
  /\ OnlyAt(held', at) /\ held'[at] <= held[at]
  /\ UNCHANGED <<tick, fuseOn, at>>

\* All is taken out, at whatever prices; range and fuse may be others then.
LeaveAll ==
  /\ held' = Nowhere
  /\ at' \in Ranges /\ fuseOn' \in BOOLEAN
  /\ UNCHANGED tick

\* Liquidity is added, or all of it is placed anew at another range.
Place ==
  /\ ~fuseOn' /\ at' \in Ranges
  /\ InRange(tick, at') /\ OnlyAt(held', at')
  /\ UNCHANGED tick

SwitchByHand ==
  /\ ByHand /\ fuseOn' \in BOOLEAN
  /\ UNCHANGED <<tick, at, held>>

PriceMoves == UNCHANGED <<fuseOn, at, held>>

Next == Leave \/ LeaveAll \/ Place \/ SwitchByHand \/ PriceMoves

Spec == Init /\ [][Next]_vars

-----------------------------------------------------------------------------
\* Nobody but the operator can bring assets under a triggered fuse.
SafeUnderFuse == ~ByHand /\ fuseOn => held = Nowhere
=============================================================================
