------------------------------- MODULE MCDisks -------------------------------
(* The disks on a small controller.                                         *)
EXTENDS Disks

Controller(pm, ps, sm, dma, ones) ==
    [switchable |-> TRUE, dma |-> dma, ones |-> ones, floats |-> FALSE,
     drives |-> [at \in ToSet(Buses) \X ToSet(Drives) |->
                    CASE at = <<"primary", "master">>   -> pm
                      [] at = <<"primary", "slave">>    -> ps
                      [] at = <<"secondary", "master">> -> sm
                      [] OTHER                          -> "none"]]

MCMachines ==
    {Controller("lba48", "lba28", "none", FALSE, TRUE),
     Controller("none", "lba28", "lba28", FALSE, FALSE),
     Controller("atapi", "lba28", "none", TRUE, TRUE),
     [Controller("chs", "none", "none", FALSE, TRUE) EXCEPT !.floats = TRUE],
     [Controller("lba28", "none", "none", FALSE, TRUE)
          EXCEPT !.switchable = FALSE]}

MCSectors == [kind \in Modes |-> IF kind = "lba48" THEN 40 ELSE 13]

MCRequests ==
    [op : {"read", "write"}, id : {1}, address : {10}, sectors : {0, 2}]
        \cup [op : {"read", "write"}, id : {2}, address : {38}, sectors : {2}]
        \cup [op : {"read"}, id : {1, 3}, address : {1}, sectors : {3}]
        \cup [op : {"read"}, id : {2}, address : {1}, sectors : {41}]
==============================================================================
