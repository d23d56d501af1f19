------------------------------ MODULE MCFiles -------------------------------
(* Instances of the file system, of descriptors and of mounting.  The      *)
(* modules share no variable; "part" says which one a behaviour is about,  *)
(* and the others stay in one initial state.                               *)
EXTENDS Fat32, Vfs, Mount

VARIABLE part

mcVars == <<part, fatVars, vfsVars, mountVars>>

(* One short name, and two long names with the same 8.3 name. *)
MCNames == {"a", "long1", "long2"}
MCAlias == [n \in MCNames |-> IF n = "a" THEN "A" ELSE "LONG"]
MCLfn == [n \in MCNames |-> IF n = "a" THEN 0 ELSE 1]

MCHosts == {[cpus |-> 1, files |-> 2, reads |-> 2], [cpus |-> 2, files |-> 2, reads |-> 0],
            [cpus |-> 2, files |-> 1, reads |-> 1]}

(* Boot sectors with every field at, below and above what fits; disks that *)
(* hold one at once, and disks with two partitions.                        *)
Bpb(spc, fatsz, tot, res, re) ==
    [bps |-> 4, spc |-> spc, reserved |-> res, fats |-> 2, fatsz |-> fatsz, fatsz16 |-> 0,
     root |-> 2, totsec |-> tot, rootents |-> re]
Bpbs == {Bpb(s, z, t, r, e) : s \in 0 .. 3, z \in {0, 1, 2, 3, 64, 65},
                              t \in {0, 7, 8, 15, 16, 200, 255}, r \in {0, 1}, e \in {0, 1}}
Fat16 == [Bpb(1, 1, 8, 1, 0) EXCEPT !.fatsz16 = 1]
Part(t, start, n, b) == [type |-> t, start |-> start, size |-> n, first |-> b]
Disk(n, b, sig, tab) == [sectors |-> n, first |-> b, signature |-> sig, table |-> tab]
MCDisks == {Disk(n, b, FALSE, <<>>) : n \in {8, 16, 250}, b \in Bpbs}
           \union {Disk(20, Fat16, TRUE, <<Part(t, 1, n, b), Part("none", 0, 0, Fat16),
                                            Part("fat32", 12, 8, Bpb(1, 2, 8, 1, 0))>>) :
                   t \in {"fat32", "linux"}, n \in {8, 9}, b \in Bpbs}

MCInit == /\ part \in {"fat", "vfs", "mount"}
          /\ host \in IF part = "vfs" THEN Hosts ELSE {[cpus |-> 1, files |-> 2, reads |-> 2]}
          /\ FatInit /\ VfsInit
          /\ MountInit
          /\ part # "mount" => disk = Disk(8, Bpb(1, 1, 8, 1, 0), FALSE, <<>>)

MCNext == \/ part = "fat" /\ FatNext /\ UNCHANGED <<part, vfsVars, mountVars>>
          \/ part = "vfs" /\ VfsNext /\ UNCHANGED <<part, fatVars, mountVars>>
          \/ part = "mount" /\ MountNext /\ UNCHANGED <<part, fatVars, vfsVars>>

MCSpec == MCInit /\ [][MCNext]_mcVars
=============================================================================
