------------------------ MODULE MCUniswapV3Strategy -------------------------
(***************************************************************************)
(* UniswapV3Strategy on small instances.  Ticks run over both signs, since *)
(* calcTickRange rounds negative ticks differently.                        *)
(***************************************************************************)
EXTENDS UniswapV3Strategy

\* One spacing wide (stable pools): spacing 2, ticks on both sides of zero
MCTicksNarrow == -2..2
\* Price in the pool rises with the tick
MCPoolPriceNarrow == [t \in MCTicksNarrow |-> CASE t = -2 -> 1 [] t = 2 -> 4 [] t = 1 -> 3 [] OTHER -> 2]
MCPrices == {1, 2, 4}

\* Several spacings wide (volatile pools): spacing 2, half range 4
MCTicksWide == -6..6
MCPoolPriceWide == [t \in MCTicksWide |-> 2]
MCPricesWide == {2}

\* lower fuse at 1, released at 2; upper fuse at 4, released at 3
MCThresholds == [lowerOn |-> 1, lowerOff |-> 2, upperOn |-> 4, upperOff |-> 3]
\* lower limits not used, and limits that the setter refuses
MCThresholdsUpper == [lowerOn |-> 0, lowerOff |-> 0, upperOn |-> 3, upperOff |-> 2]
MCThresholdsWrong == [lowerOn |-> 1, lowerOff |-> 2, upperOn |-> 3, upperOff |-> 4]
MCNoThresholds == [lowerOn |-> 0, lowerOff |-> 0, upperOn |-> 0, upperOff |-> 0]
MCThresholdChoices == {MCThresholds, MCThresholdsWrong}
\* Strictly ordered thresholds, with and without a lower fuse
MCThresholdsStrict == {MCThresholds, MCThresholdsUpper}
\* Ticks of the fair run, one price per tick near the ends
MCTicksFair == -3..3
MCPoolPriceFair == [t \in MCTicksFair |-> CASE t < -1 -> 1 [] t = 3 -> 4 [] t = 2 -> 3 [] OTHER -> 2]
=============================================================================
