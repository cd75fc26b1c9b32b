------------------------------ MODULE PairFuse ------------------------------
(***************************************************************************)
(* The price fuse of the pair strategies: FuseStateParams and the fuse     *)
(* functions of PairBasedStrategyLib.sol.  Prices are natural numbers on   *)
(* one scale (18 decimals in the code); only their order matters here.     *)
(***************************************************************************)
EXTENDS Naturals

FuseDisabled == 0     \* FUSE_DISABLED_0
FuseOff == 1          \* FUSE_OFF_1
FuseOnLower == 2      \* FUSE_ON_LOWER_LIMIT_2
FuseOnUpper == 3      \* FUSE_ON_UPPER_LIMIT_3

FuseStatus == {FuseDisabled, FuseOff, FuseOnLower, FuseOnUpper}

\* uint[4] thresholds, one field per FUSE_IDX_xxx
Thresholds == [lowerOn : Nat, lowerOff : Nat, upperOn : Nat, upperOff : Nat]

\* The requires of setFuseThresholds
ValidThresholds(t) ==
  /\ (t.lowerOn = 0 /\ t.lowerOff = 0) \/ t.lowerOn <= t.lowerOff
  /\ (t.upperOn = 0 /\ t.upperOff = 0) \/ t.upperOn >= t.upperOff
  /\ (t.lowerOn # 0 /\ t.upperOn # 0) => t.upperOn > t.lowerOn

IsFuseTriggeredOn(status) == status > FuseOff

\* Mutant: the upper fuse is released at the limit that triggers it
NeedChangeFuseStatusFlapping(status, t, p, q) ==
  CASE status = FuseOff ->
         IF p <= t.lowerOn \/ q <= t.lowerOn THEN FuseOnLower
         ELSE IF p >= t.upperOn \/ q >= t.upperOn THEN FuseOnUpper
         ELSE FuseOff
    [] status = FuseOnLower -> IF p >= t.lowerOff /\ q >= t.lowerOff THEN FuseOff ELSE FuseOnLower
    [] status = FuseOnUpper -> IF p <= t.upperOn /\ q <= t.upperOn THEN FuseOff ELSE FuseOnUpper
    [] OTHER -> status

\* Status after comparing the oracle price p and the pool price q with the
\* thresholds; the code's needToChange is "the result differs from status".
NeedChangeFuseStatus(status, t, p, q) ==
  CASE status = FuseOff ->
         IF p <= t.lowerOn \/ q <= t.lowerOn THEN FuseOnLower
         ELSE IF p >= t.upperOn \/ q >= t.upperOn THEN FuseOnUpper
         ELSE FuseOff
    [] status = FuseOnLower ->
         IF ~(p >= t.lowerOff /\ q >= t.lowerOff) THEN FuseOnLower
         ELSE IF p >= t.upperOn \/ q >= t.upperOn THEN FuseOnUpper
         ELSE FuseOff
    [] status = FuseOnUpper ->
         IF ~(p <= t.upperOff /\ q <= t.upperOff) THEN FuseOnUpper
         ELSE IF p <= t.lowerOff \/ q <= t.lowerOff THEN FuseOnLower
         ELSE FuseOff
    [] OTHER -> status
=============================================================================
