------------------------------- MODULE MCPci -------------------------------
(* Three machines: buses in a chain and side by side, with a device of three *)
(* functions and headers of other types; bridges side by side numbered out   *)
(* of order; and two segments.                                               *)
EXTENDS Pci, TLC

Dev(multi) == [type |-> "general_device", multifunction |-> multi, class |-> "network", subclass |-> "ata"]
Disk(s) == [type |-> "general_device", multifunction |-> FALSE, class |-> "mass_storage", subclass |-> s]
Br(multi, secondary, subordinate) ==
    [type |-> "pci_to_pci_bridge", multifunction |-> multi, secondary |-> secondary, subordinate |-> subordinate]
CardBus == [type |-> "other", multifunction |-> FALSE]

One == << [base |-> 0, start_bus |-> 0] >>

InChain == [entries |-> One, space |->
    (<<0, 0, 0, 0>> :> Dev(TRUE)) @@ (<<0, 0, 0, 1>> :> Br(FALSE, 1, 2)) @@ (<<0, 0, 0, 2>> :> Disk("nvm"))
    @@ (<<0, 0, 1, 0>> :> Br(FALSE, 3, 3)) @@ (<<0, 0, 1, 1>> :> Disk("raid"))
    @@ (<<0, 1, 0, 0>> :> Br(FALSE, 2, 2)) @@ (<<0, 1, 1, 0>> :> Disk("ide"))
    @@ (<<0, 2, 1, 0>> :> Dev(FALSE))
    @@ (<<0, 3, 0, 0>> :> CardBus) @@ (<<0, 3, 0, 1>> :> Disk("sata")) ]

OutOfOrder == [entries |-> One, space |->
    (<<0, 0, 0, 0>> :> Br(FALSE, 2, 3)) @@ (<<0, 0, 1, 0>> :> Br(FALSE, 1, 1))
    @@ (<<0, 1, 0, 0>> :> Dev(FALSE)) @@ (<<0, 2, 0, 0>> :> Disk("scsi")) ]

TwoSegments == [entries |-> One \o << [base |-> 1, start_bus |-> 0] >>, space |->
    (<<0, 0, 0, 0>> :> Dev(FALSE)) @@ (<<0, 0, 1, 0>> :> Br(FALSE, 1, 1)) @@ (<<0, 1, 0, 0>> :> Disk("ide"))
    @@ (<<1, 0, 0, 0>> :> Dev(FALSE)) ]

MCMachines == {InChain, OutOfOrder, TwoSegments}

\* What the theorems about Pci in StartProofs ask of a machine.
ASSUME MachinesNumbered == \A m \in MCMachines : Numbered(m)
=============================================================================
