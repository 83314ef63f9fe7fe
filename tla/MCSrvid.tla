------------------------------ MODULE MCSrvid ------------------------------
EXTENDS Srvid, TLC

CONSTANTS k0, k1, k2, n1, n2, l1, l2, b1, b2, b3

(* k0 has a half of 0; k1 and k2 share their home, the last slot.          *)
MCKeys == {k0, k1, k2}
MCHalves == {k0}
MCHome == k0 :> 0 @@ k1 :> 1 @@ k2 :> 1
MCNames == {n1, n2}
MCLoaders == {l1, l2}
MCBlocks == {b1, b2, b3}
Sym == Permutations(MCLoaders) \cup Permutations(MCBlocks)
         \cup Permutations(MCNames)
=============================================================================
