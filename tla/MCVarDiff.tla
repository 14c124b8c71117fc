----------------------------- MODULE MCVarDiff ------------------------------
(* VarDiff for TLC.                                                          *)
EXTENDS VarDiff

RequestedSet == {2, 12}
RateSet == {0, 1, 4, 9}
==============================================================================
