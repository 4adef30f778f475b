-------------------------------- MODULE Disks --------------------------------
(***************************************************************************)
(* The disks: devs_config_mass_storage (io/devs.c) hands the function that *)
(* the scan of PCI found to the driver of its subclass.                    *)
(***************************************************************************)
EXTENDS Ide, Ahci

VARIABLE subclass

disksVars == <<subclass, ideVars, ahciVars>>

\* The controller of the other driver is the least there can be.
DisksInit ==
    /\ Init /\ AhciInit
    /\ \/ subclass = "ide" /\ port_impl = {}
       \/ subclass = "sata" /\ machine = CHOOSE m \in Machines : TRUE

devs_config_mass_storage ==
    /\ \/ subclass = "ide" /\ Next /\ UNCHANGED ahciVars
       \/ subclass = "sata" /\ AhciNext /\ UNCHANGED ideVars
    /\ UNCHANGED subclass

\* The driver is all that runs, and a busy drive gets on in the end.
DisksSpec ==
    /\ DisksInit /\ [][devs_config_mass_storage]_disksVars
    /\ WF_ideVars(subclass = "ide" /\ Driver)
    /\ WF_ideVars(subclass = "ide" /\ DrivesStep)
-----------------------------------------------------------------------------
(***************************************************************************)
(* ide_init ends on every machine but those where a bus without drives     *)
(* reads as all ones, and so does every request for at most the sectors    *)
(* the count registers can hold, on a bus with a master and drives that    *)
(* answer: also after errors, except an error in the middle of a write,    *)
(* which leaves the driver waiting for a drive that has nothing more to    *)
(* ask for.  (ide_select_drive, ide_command, ide_poll.)                    *)
(***************************************************************************)
AllOnes ==
    /\ machine.floats
    /\ \E bus \in ToSet(Buses) : \A drive \in ToSet(Drives) :
           machine.drives[<<bus, drive>>] = "none"
Fits == req = <<>> \/ pc = "done" \/
            /\ req.sectors <= IF dev.addr_mode = "lba48" THEN Byte^2 ELSE Byte
            /\ machine.drives[<<dev.bus, "master">>] # "none"
            /\ ~deaf /\ ~(failed /\ req.op = "write")
RequestsEnd ==
    subclass = "ide" /\ ~AllOnes ~> (pc \in {"idle", "stop"} \/ ~Fits)
=============================================================================
