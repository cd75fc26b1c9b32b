----------------------- MODULE MCConverterAccounting ------------------------
(***************************************************************************)
(* ConverterAccounting with amounts of a few units.  The ratios are scaled *)
(* so that the caps and gaps fall between those amounts: the tolerance is  *)
(* one half (0.5 % in the code), the gap one half (1 %), the reinvest      *)
(* threshold one quarter (1 %).                                            *)
(***************************************************************************)
EXTENDS ConverterAccounting
=============================================================================
