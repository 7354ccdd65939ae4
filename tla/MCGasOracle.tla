----------------------------- MODULE MCGasOracle -----------------------------
(***************************************************************************)
(* An instance of GasOracle for TLC: amounts of 8 bits and 2 wei to a      *)
(* gwei.  Of the amounts a node answers with, in wei, 1 is less than a     *)
(* gwei, 14 an ordinary fee, 250 one that wraps around when a tier is      *)
(* added to it, and 300 one whose conversion wraps around.                 *)
(***************************************************************************)
EXTENDS GasOracle

MCWei    == {-2, 1, 14, 250, 300}
MCMinima == {-1, 0, 3, 120}
=============================================================================
