-------------------------------- MODULE Pci --------------------------------
(***************************************************************************)
(* The scan of the buses in io/pcie.c, the tree it builds with             *)
(* io/pci_tree.c, and the choice of a driver in io/pci.c and io/devs.c.    *)
(*                                                                         *)
(* The scan recurses into the bus behind each bridge it meets: stack holds *)
(* a frame for each call of pcie_scan_bus in progress, with the device and *)
(* the function it is at.  A step is one round of the loop of              *)
(* pcie_scan_device, a call or a return.  Memory may run out at every      *)
(* kmalloc, and a driver may refuse its device.                            *)
(***************************************************************************)
EXTENDS Integers, Sequences, FiniteSets, SequencesExt

CONSTANTS
    Machines,   \* the machines: the entries of the MCFG table and the
                \* configuration space, a function on the functions present
    Devices,    \* devices of a bus
    Functions   \* functions of a device

\* A function is <<segment, bus, device, function>>.
ASSUME PciAssumption ==
    /\ Devices \in Nat \ {0} /\ Functions \in Nat \ {0}
    /\ \A m \in Machines :
         /\ m.entries \in Seq([base : Nat, start_bus : Nat])
         /\ DOMAIN m.space \subseteq Nat \X Nat \X (0 .. Devices - 1) \X (0 .. Functions - 1)
         /\ \A f \in DOMAIN m.space :
              m.space[f].type = "pci_to_pci_bridge" =>
                  m.space[f].secondary \in Nat /\ m.space[f].subordinate \in Nat

VARIABLES
    machine,
    phase,   \* init_pci, then the entries of MCFG, then done or panic
    i,       \* the entry of MCFG being scanned
    stack,   \* the calls of pcie_scan_bus in progress, innermost first
    buses,   \* the nodes of pci_tree_bus_t, in the order of their allocation
    ret,     \* what init_pci returns
    inited,  \* history: the functions whose driver took them, in order
    left     \* history: the buses whose scan was given up

pciVars == <<machine, phase, i, stack, buses, ret, inited, left>>

space == machine.space
Null == 0
pci_tree_root == 1
PCI_INITIAL_BUS == 0

-----------------------------------------------------------------------------
(* The tree *)

pci_tree_create_bus_last(f) == [id |-> space[f].subordinate, devs |-> <<>>, bridges |-> <<>>]

pci_tree_create_bus(f) == [id |-> space[f].secondary, devs |-> <<>>, bridges |-> <<>>]

\* A bridge is followed to any bus from that of its primary side up to its
\* subordinate one.
Leads(n, k, id) == buses[n].id <= id /\ id <= space[buses[n].bridges[k].bridge].subordinate

Followed(n, id) ==
    {k \in DOMAIN buses[n].bridges : Leads(n, k, id) /\ \A j \in 1 .. k - 1 : ~Leads(n, j, id)}

\* One round of the descent: the same node once it is found.
Descend(n, id) ==
    IF n = Null \/ buses[n].id = id THEN {n} \ {Null}
    ELSE {buses[n].bridges[k].secondary : k \in Followed(n, id)}

\* The node of bus id, as a set: empty when the descent ends without it.
pci_tree_get_bus_by_id(id) ==
    LET reached[k \in 0 .. Len(buses)] ==
          IF k = 0 THEN {pci_tree_root} ELSE UNION {Descend(n, id) : n \in reached[k - 1]}
    IN reached[Len(buses)]

pci_tree_install_device(f, n) == [buses EXCEPT ![n].devs = Append(@, f)]

\* The new bus is the last node allocated.
pci_tree_install_bus(f, n) ==
    [buses EXCEPT ![n].bridges = Append(@, [bridge |-> f, secondary |-> Len(buses) + 1])]
        \o <<pci_tree_create_bus(f)>>

-----------------------------------------------------------------------------
(* The choice of a driver *)

devs_config_mass_storage(f) ==
    IF space[f].subclass \in {"ide", "sata"} THEN BOOLEAN
    ELSE {space[f].subclass \in {"ata", "nvm"}}

\* The headers the scan knows.
Headers == {"general_device", "pci_to_pci_bridge"}

\* What pci_init_device may answer.
pci_init_device(f) ==
    IF space[f].class = "mass_storage" THEN devs_config_mass_storage(f) ELSE {TRUE}

-----------------------------------------------------------------------------
(* The scan *)

Frame == stack[1]
f0 == <<Frame.base, Frame.bus, Frame.dev, Frame.fnc>>
Below == Tail(stack)

NextDevice(frame) == [frame EXCEPT !.dev = @ + 1, !.fnc = 0]

NextFunction(frame) ==
    IF frame.fnc + 1 = Functions THEN NextDevice(frame) ELSE [frame EXCEPT !.fnc = @ + 1]

\* A device is done after function 0 when it has no other.
Advanced_all(frame) == IF ~space[f0].multifunction THEN NextDevice(frame) ELSE NextFunction(frame)

Advanced(frame) ==
    IF ~space[f0].multifunction /\ frame.fnc = 0 THEN NextDevice(frame) ELSE NextFunction(frame)

Unsupported_stuck(frame) == frame

Unsupported(frame) == NextFunction(frame)

PciInit ==
    /\ machine \in Machines
    /\ phase = "init_pci" /\ i = 1 /\ stack = <<>> /\ buses = <<>> /\ ret = FALSE
    /\ inited = <<>> /\ left = {}

\* The root and the pools are made, MCFG is found, or init_pci fails.
init_pci_root ==
    /\ phase = "init_pci"
    /\ buses' \in {<<>>, << [id |-> PCI_INITIAL_BUS, devs |-> <<>>, bridges |-> <<>>] >>}
    /\ phase' \in {"entries", "done"} /\ (buses' = <<>> => phase' = "done")
    /\ UNCHANGED <<machine, i, stack, ret, inited, left>>

pcie_scan_bus(base, bus) == [base |-> base, bus |-> bus, dev |-> 0, fnc |-> 0]

pcie_iterate_mcfg ==
    /\ phase = "entries" /\ i <= Len(machine.entries)
    /\ stack' = << pcie_scan_bus(machine.entries[i].base, machine.entries[i].start_bus) >>
    /\ phase' = "scan"
    /\ UNCHANGED <<machine, i, buses, ret, inited, left>>

\* After the last entry the function ends without a return.
pcie_iterate_mcfg_end ==
    /\ phase = "entries" /\ i > Len(machine.entries)
    /\ phase' = "done" /\ ret' \in BOOLEAN
    /\ UNCHANGED <<machine, i, stack, buses, inited, left>>

\* pcie_scan_bus returns true: the caller is at its next function, or entry.
pcie_scan_bus_end ==
    /\ phase = "scan" /\ Frame.dev = Devices
    /\ stack' = Below
    /\ phase' = IF Below = <<>> THEN "entries" ELSE "scan"
    /\ i' = IF Below = <<>> THEN i + 1 ELSE i
    /\ UNCHANGED <<machine, buses, ret, inited, left>>

Scanning == phase = "scan" /\ Frame.dev < Devices

\* A function that is absent ends the device.
Absent ==
    /\ Scanning /\ f0 \notin DOMAIN space
    /\ stack' = << NextDevice(Frame) >> \o Below
    /\ UNCHANGED <<machine, phase, i, buses, ret, inited, left>>

\* assert_true(current != null).
NotFound ==
    /\ Scanning /\ f0 \in DOMAIN space /\ pci_tree_get_bus_by_id(Frame.bus) = {}
    /\ phase' = "panic"
    /\ UNCHANGED <<machine, i, stack, buses, ret, inited, left>>

\* pcie_scan_device and pcie_scan_bus return false: only the scan of an entry
\* looks at it, the one that found the bridge goes on.
GiveUp ==
    /\ stack' = Below
    /\ left' = left \union {<<Frame.base, Frame.bus>>}
    /\ phase' = IF Below = <<>> THEN "done" ELSE "scan"

GeneralDevice(n) ==
    /\ space[f0].type = "general_device"
    /\ \E taken \in pci_init_device(f0), memory \in BOOLEAN :
         /\ inited' = IF taken THEN Append(inited, f0) ELSE inited
         /\ IF taken /\ memory
            THEN /\ buses' = pci_tree_install_device(f0, n)
                 /\ stack' = << Advanced(Frame) >> \o Below
                 /\ UNCHANGED <<phase, left>>
            ELSE GiveUp /\ UNCHANGED buses

\* The caller's frame is where it goes on when the new bus has been scanned.
Bridge_behind(f) == << pcie_scan_bus(Frame.base, space[f].secondary), Frame >> \o Below

Bridge(f) == << pcie_scan_bus(Frame.base, space[f].secondary), Advanced(Frame) >> \o Below

\* When the memory of the bridge is missing the node of the bus is lost.
PciToPciBridge(n) ==
    /\ space[f0].type = "pci_to_pci_bridge"
    /\ \/ /\ buses' = pci_tree_install_bus(f0, n)
          /\ stack' = Bridge(f0)
          /\ UNCHANGED <<phase, left>>
       \/ /\ buses' \in {buses, Append(buses, pci_tree_create_bus(f0))}
          /\ GiveUp
    /\ UNCHANGED inited

OtherHeader ==
    /\ space[f0].type \notin Headers
    /\ stack' = << Unsupported(Frame) >> \o Below
    /\ UNCHANGED <<phase, buses, inited, left>>

pcie_scan_device ==
    /\ Scanning /\ f0 \in DOMAIN space
    /\ \E n \in pci_tree_get_bus_by_id(Frame.bus) :
         \/ GeneralDevice(n)
         \/ PciToPciBridge(n)
         \/ OtherHeader
    /\ UNCHANGED <<machine, i, ret>>

PciNext ==
    \/ init_pci_root
    \/ pcie_iterate_mcfg
    \/ pcie_iterate_mcfg_end
    \/ pcie_scan_bus_end
    \/ Absent
    \/ NotFound
    \/ pcie_scan_device

PciSpec == PciInit /\ [][PciNext]_pciVars

\* Nothing but a crash of the machine stops the scan.
PciFairSpec == PciSpec /\ WF_pciVars(PciNext)

-----------------------------------------------------------------------------
(* Properties *)

\* The nodes a walk from the root meets; the others were lost.
Linked == {pci_tree_root} \union
    UNION {{buses[n].bridges[k].secondary : k \in DOMAIN buses[n].bridges} : n \in DOMAIN buses}

DevsOf(n) == ToSet(buses[n].devs)
BridgesOf(n) == {b.bridge : b \in ToSet(buses[n].bridges)}
InTree == UNION {DevsOf(n) \union BridgesOf(n) : n \in DOMAIN buses}

\* The firmware numbered the buses in the order in which the scan meets their
\* bridges, in one segment, and gave each bridge the buses from the one behind it
\* on.
Before(f, g) == f[1] = g[1] /\ f[2] = g[2] /\ (f[3] < g[3] \/ (f[3] = g[3] /\ f[4] < g[4]))
Bridges == {f \in DOMAIN space : space[f].type = "pci_to_pci_bridge"}
InOrder ==
    /\ Len(machine.entries) = 1 /\ machine.entries[1].start_bus = PCI_INITIAL_BUS
    /\ \A f \in Bridges : space[f].secondary <= space[f].subordinate
    /\ \A f, g \in Bridges :
         /\ Before(f, g) => space[f].subordinate < space[g].secondary
         /\ g[2] \in space[f].secondary .. space[f].subordinate =>
              g[2] < space[g].secondary /\ space[g].subordinate <= space[f].subordinate

\* The firmware gave every bus a number of its own.
Numbered(m) ==
    /\ \A j, k \in DOMAIN m.entries :
         j # k => \/ m.entries[j].base # m.entries[k].base
                 \/ m.entries[j].start_bus # m.entries[k].start_bus
    /\ \A f \in DOMAIN m.space : m.space[f].type = "pci_to_pci_bridge" =>
         /\ \A k \in DOMAIN m.entries :
              m.entries[k].base = f[1] => m.entries[k].start_bus # m.space[f].secondary
         /\ \A g \in DOMAIN m.space \ {f} :
              m.space[g].type = "pci_to_pci_bridge" /\ g[1] = f[1] =>
                  m.space[g].secondary # m.space[f].secondary

\* The variables have their types.
PciTypeOK ==
    /\ machine \in Machines
    /\ phase \in {"init_pci", "entries", "scan", "done", "panic"}
    /\ i \in 1 .. Len(machine.entries) + 1
    /\ \A frame \in ToSet(stack) : frame.dev \in 0 .. Devices /\ frame.fnc \in 0 .. Functions - 1
    /\ \A n \in DOMAIN buses : DevsOf(n) \union BridgesOf(n) \subseteq DOMAIN space
    /\ ret \in BOOLEAN
    /\ ToSet(inited) \subseteq DOMAIN space
    /\ phase = "scan" <=> (stack # <<>> /\ phase # "panic")

\* The tree of io/pci_tree.h is that of the machine, whatever failed on the
\* way: a device hangs on the node of its own bus, a bridge joins the node of
\* its bus to the node of the bus behind it, and no function or node is linked
\* twice.
TreeIsTheTopology ==
    /\ PciTypeOK
    /\ \A n \in DOMAIN buses :
         /\ \A f \in DevsOf(n) \union BridgesOf(n) : f[2] = buses[n].id
         /\ \A b \in ToSet(buses[n].bridges) : buses[b.secondary].id = space[b.bridge].secondary
         /\ IsInjective(buses[n].devs)
    /\ \A n, m \in DOMAIN buses :
         /\ n # m => (DevsOf(n) \intersect DevsOf(m)) = {}
         /\ \A k \in DOMAIN buses[n].bridges, j \in DOMAIN buses[m].bridges :
              <<n, k>> # <<m, j>> =>
                /\ buses[n].bridges[k].secondary # buses[m].bridges[j].secondary
                /\ buses[n].bridges[k].bridge # buses[m].bridges[j].bridge

\* The assertion of pcie_scan_device holds on every machine numbered in order:
\* the descent of pci_tree_get_bus_by_id finds the bus being scanned, although
\* it takes the number of the primary side for the low end of a bridge.
LookupFinds == InOrder => phase # "panic"

\* The functions the rounds of pcie_scan_device are to see: those with no gap
\* below them, of a device whose function 0 announces more.
Seen(f) ==
    /\ \A k \in 0 .. f[4] : <<f[1], f[2], f[3], k>> \in DOMAIN space
    /\ LET first == space[<<f[1], f[2], f[3], 0>>] IN
         f[4] = 0 \/ first.multifunction \/ first.type \notin Headers

\* The buses of the entries, and those behind the bridges of the tree.
Scanned ==
    {<<e.base, e.start_bus>> : e \in ToSet(machine.entries)} \union
    UNION {{<<f[1], space[f].secondary>> : f \in BridgesOf(n)} : n \in DOMAIN buses}

\* When the entries have been scanned, every bus whose scan was not given up has
\* every function on it in the tree: the scan of a bus behind a bridge, even one
\* that failed, does not make the scan of the bus before it miss any; and no
\* bus whose number is looked up is missed.
NoneMissed ==
    /\ LookupFinds
    /\ phase = "done" /\ i > Len(machine.entries) => \A f \in DOMAIN space :
         Seen(f) /\ space[f].type \in Headers /\ <<f[1], f[2]>> \in Scanned \ left => f \in InTree

\* A driver is given each function at most once, before it is in the tree, and
\* only the last one of a bus that was given up may be missing from the tree.
DriversRunOnce ==
    /\ IsInjective(inited)
    /\ \A n \in DOMAIN buses : DevsOf(n) \subseteq ToSet(inited)
    /\ \A f \in ToSet(inited) \ InTree :
         <<f[1], f[2]>> \in left /\ \A g \in InTree : ~Before(f, g)

\* init_pci comes to an end, or to the assertion.
ScanEnds == <>(phase \in {"done", "panic"})
=============================================================================
