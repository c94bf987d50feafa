------------------------------ MODULE MCLowfreqSim ------------------------------
(***************************************************************************)
(* The simulated portfolio for TLC: one slot for two stocks, so that buys  *)
(* compete, and prices at which one purchase leaves money over.            *)
(***************************************************************************)
EXTENDS LowfreqSim, TLC

CONSTANTS c1, c2, r1, r2
MCCodes == {c1, c2}
MCRequest == {r1, r2}
MCPrices == {2, 3}
\* Four requests one after the other, or three of which one overlaps.
Bound == overlaps = 0 \/ count <= 3
Symmetry == Permutations(MCCodes) \cup Permutations(MCRequest)
=============================================================================
