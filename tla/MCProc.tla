------------------------------- MODULE MCProc -------------------------------
(* Instances of Proc for TLC. *)
EXTENDS Proc

M(c, p, k) == [cpus |-> c, pids |-> p, calls |-> k]
MCMachines == {M(1, 4, 0), M(1, 2, 1), M(2, 3, 0), M(2, 2, 1)}
MCOneCpu == {M(1, 2, 1)}
=============================================================================
