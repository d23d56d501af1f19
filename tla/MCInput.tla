------------------------------ MODULE MCInput -------------------------------
(* Instances of Input for TLC: with one CPU one reader of the console, two *)
(* of them, or one of each kind; with two CPUs one reader of each kind.    *)
EXTENDS Input

Typists(c, con, key, n) == [cpus |-> c, con |-> con, key |-> key, typed |-> n]
MCSetups == {Typists(1, {1}, {}, 3), Typists(1, {1, 2}, {}, 2), Typists(1, {1}, {2}, 2),
             Typists(2, {1}, {}, 3), Typists(2, {}, {1}, 2)}
=============================================================================
