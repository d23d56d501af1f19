----------------------------- MODULE MCBlkCache -----------------------------
(* Instances of BlkCache for TLC.  Devices and sector numbers are only ever *)
(* compared for equality, so both may be permuted.                          *)
EXTENDS BlkCache, TLC

Symmetric == Permutations(Dev) \union Permutations(Lba)
=============================================================================
