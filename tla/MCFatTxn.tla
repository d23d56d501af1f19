------------------------------ MODULE MCFatTxn ------------------------------
(* Instances of FatTxn for TLC: two records of one bit in every sector. *)
EXTENDS FatTxn

MCRec == {1, 2}
MCVal == {0, 1}
MCData == [MCRec -> MCVal]
MCZero == [r \in MCRec |-> 0]

MCRec1 == {1}
MCData1 == [MCRec1 -> MCVal]
MCZero1 == [r \in MCRec1 |-> 0]
=============================================================================
