----------------------------- MODULE SectorStore -----------------------------
(***************************************************************************)
(* What the users of kernel/fs/blk_cache.c rely on (include/disk.h:81-91): *)
(* a store of sectors that never forgets a write it accepted while the     *)
(* machine is up, changes nothing when it reports a failure, and has       *)
(* everything on the medium when a flush reports success.  Sectors may     *)
(* reach the medium at any time before that.                               *)
(***************************************************************************)
EXTENDS Naturals

CONSTANTS Dev,      \* block devices
          Lba,      \* sector numbers of a device
          Data,     \* contents of a sector
          Zero      \* the contents of a fresh buffer

Sector == Dev \X Lba

VARIABLES contents,   \* what a read returns
          stable,     \* what survives a reboot
          out         \* the answer to the last call

vars == <<contents, stable, out>>

None == [op |-> "none", ok |-> TRUE, val |-> Zero]

Failed(op) == [op |-> op, ok |-> FALSE, val |-> Zero]

Done(op) == [op |-> op, ok |-> TRUE, val |-> Zero]

Got(v) == [op |-> "read", ok |-> TRUE, val |-> v]

Init == /\ stable \in [Sector -> Data]
        /\ contents = stable
        /\ out = None

(* Some sectors reach the medium. *)
Destage == \E S \in SUBSET Sector :
              stable' = [s \in Sector |-> IF s \in S THEN contents[s] ELSE stable[s]]

Read(s) == /\ Destage
           /\ out' = Got(contents[s])
           /\ UNCHANGED contents

Write(s, v) == /\ Destage
               /\ contents' = [contents EXCEPT ![s] = v]
               /\ out' = Done("write")

Flush(d) == /\ Destage
            /\ \A l \in Lba : stable'[<<d, l>>] = contents[<<d, l>>]
            /\ out' = Done("flush")
            /\ UNCHANGED contents

Fail(op) == /\ Destage
            /\ out' = Failed(op)
            /\ UNCHANGED contents

Background == Destage /\ UNCHANGED <<contents, out>>

Reboot == /\ contents' = stable
          /\ out' = None
          /\ UNCHANGED stable

Next == \/ \E s \in Sector : Read(s)
        \/ \E s \in Sector, v \in Data : Write(s, v)
        \/ \E d \in Dev : Flush(d)
        \/ \E op \in {"read", "write", "flush"} : Fail(op)
        \/ Background
        \/ Reboot

Spec == Init /\ [][Next]_vars
=============================================================================
