------------------------------ MODULE MCGasCache -----------------------------
(***************************************************************************)
(* An instance of GasCache for TLC: ethereum has a handler of its own;     *)
(* base, another EVM network, has not.                                     *)
(***************************************************************************)
EXTENDS GasCache

CONSTANTS eth, base

Ask(id, net) == [id |-> id, net |-> net]

Slow == Ask(1, eth)

\* A client for ethereum may never read its answer.
AllRequests == {Slow, Ask(2, eth), Ask(3, eth), Ask(4, base), Ask(5, base)}
AllReaders  == AllRequests \ {Slow}
=============================================================================
