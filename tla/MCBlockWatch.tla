---------------------------- MODULE MCBlockWatch ----------------------------
(* BlockWatch for TLC: see MCBlockWatch.cfg for the bounds.                 *)
EXTENDS BlockWatch

CONSTANTS b1, b2

TwoBlocks == {b1, b2}
=============================================================================
