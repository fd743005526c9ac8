--------------------------- MODULE MCStrategyFund ---------------------------
(***************************************************************************)
(* The instance of StrategyFund that TLC explores.  Four tokens are needed  *)
(* for a count that wraps; nothing tells two tokens or two feeds apart, and *)
(* every property is stated for all of them alike.                          *)
(***************************************************************************)
EXTENDS StrategyFund, TLC

TokenSymmetry == Permutations(Mints) \cup Permutations(Feeds)
=============================================================================
