---------------------------- MODULE MC_DiskScan ----------------------------
(* Machines of up to four drives; a sector of a drive is a number below 64. *)
EXTENDS DiskScan

E(type, pos, len) == [type |-> type, pos |-> pos, len |-> len, active |-> FALSE]
Table(a, b, c) == <<a, b, c, Unused>>
Link(part, next) == [valid |-> TRUE, part |-> part, next |-> next]
L(n, pos, len) == [Part("mbr", E(7, pos, len), n) EXCEPT !.active = n = 1]
Reported(parts) == [ok |-> TRUE, style |-> "mbr", parts |-> parts]
NotGiven == [ok |-> FALSE]

Drv(mbr, chain, gpt, layout, boot, sound) ==
  [mbr |-> mbr, chain |-> chain, gpt |-> gpt, layout |-> layout, boot |-> boot,
   tells |-> IF sound THEN ToSet(Told) ELSE {"size", "product"}, sound |-> sound]
NoChain == << >>

Plain(sound) ==
  Drv(Table(E(7, 1, 4), E(7, 8, 4), E(7, 13, 3)), NoChain, <<>>,
      Reported(<<L(1, 1, 4), L(2, 8, 4), L(3, 13, 3), L(4, 16, 0)>>),
      1 :> "ntfs" @@ 8 :> "ntfs" @@ 13 :> "fve", sound)
Small == Drv(Table(E(7, 1, 4), Unused, Unused), NoChain, <<>>, Reported(<<L(1, 1, 4)>>),
             1 :> "ntfs", TRUE)
Fat == Drv(Table(E(7, 1, 4), E(11, 5, 2), Unused), NoChain, <<>>, NotGiven,
           1 :> "fat" @@ 5 :> "mswin", TRUE)

(* Logical partitions at 21, 31 and 40 in a container at 20, of either type. *)
Logical(type, sound) ==
  Drv(Table(E(7, 1, 4), E(type, 20, 30), E(7, 52, 4)),
      20 :> Link(E(7, 1, 4), 10) @@ 30 :> Link(E(7, 1, 5), 18) @@ 38 :> Link(E(7, 2, 6), 0),
      <<>>, NotGiven, 1 :> "ntfs" @@ 21 :> "ntfs" @@ 40 :> "ntfs" @@ 52 :> "ntfs", sound)
Cyclic == [Logical(15, TRUE) EXCEPT !.chain[38].next = 10]
Broken == [Logical(15, TRUE) EXCEPT !.chain[38].valid = FALSE]
TwoContainers ==
  Drv(Table(E(15, 10, 10), E(15, 30, 10), Unused),
      10 :> Link(E(7, 1, 4), 0) @@ 30 :> Link(E(7, 1, 4), 0), <<>>, NotGiven, <<>>, TRUE)

Gpt(sectors, sound) ==
  Drv(Table(E(238, 1, 60), Unused, Unused), NoChain, sectors, NotGiven,
      2 :> "ntfs" @@ 8 :> "ntfs", sound)
FullGpt == << <<E(1, 2, 7), E(1, 9, 12)>>, <<E(1, 13, 20), Unused>> >>
HoledGpt == << <<E(1, 2, 7), Unused>>, <<E(1, 13, 20), Unused>> >>

Vol(name, n, pos, len, opens) ==
  [name |-> name, label |-> name, mounts |-> <<name, "mnt">>, answers |-> n # 0,
   extents |-> {[disk |-> n, pos |-> pos, len |-> len]}, opens |-> opens,
   crypt |-> FALSE, size |-> len, boot |-> "ntfs"]
Crypt(name) == [name |-> name, label |-> "", mounts |-> <<name>>, answers |-> TRUE,
                extents |-> {}, opens |-> TRUE, crypt |-> TRUE,
                size |-> 9, boot |-> "ntfs"]
Os == <<Vol("C", 0, 1, 4, TRUE), Vol("D", 0, 13, 3, FALSE),
        Vol("E", 1, 1, 4, TRUE), Vol("F", 0, 13, 3, TRUE), Crypt("V")>>

Machine(drives) == [drives |-> drives, os |-> Os]
MCMachines ==
  {Machine(0 :> Plain(s)) : s \in BOOLEAN}
  \cup {Machine(0 :> d) : d \in {Fat, Cyclic, Broken, TwoContainers, Gpt(FullGpt, FALSE),
                                 Gpt(FullGpt, TRUE), Gpt(HoledGpt, TRUE)}}
  \cup {Machine(0 :> Logical(t, s)) : t \in Extended, s \in BOOLEAN}
  \cup {Machine(0 :> Small @@ 1 :> Small),
        Machine(0 :> Small @@ 2 :> Small),
        Machine(0 :> Small @@ 2 :> Small @@ 3 :> Small @@ 4 :> Small @@ 5 :> Small),
        Machine(1 :> Small), Machine(2 :> Small)}
MCCommands ==
  {[kind |-> k, disk |-> d, volume |-> v] :
      k \in {"volume", "backup"}, d \in 0..2, v \in 0..3}
  \cup {[kind |-> "disk", disk |-> d, volume |-> 0] : d \in 0..2}
  \cup {[kind |-> "info", disk |-> 0, volume |-> 0],
        [kind |-> "volume alone", disk |-> 0, volume |-> 1]}
=============================================================================
