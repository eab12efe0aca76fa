------------------------------- MODULE MC_Swap -------------------------------
(* Swap on a small instance: two workers, two of each kind of address.     *)
EXTENDS Swap, TLC

CONSTANTS p1, p2, b1, b2, c1, c2, w1, w2

MCPeers == {p1, p2}
MCBeneficiaries == {b1, b2}
MCChequebooks == {c1, c2}
MCWorkers == {w1, w2}

\* Addresses and workers are only compared for equality.
MCSymmetry ==
  Permutations(MCPeers) \cup Permutations(MCBeneficiaries)
    \cup Permutations(MCChequebooks) \cup Permutations(MCWorkers)
=============================================================================
