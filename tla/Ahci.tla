-------------------------------- MODULE Ahci --------------------------------
(***************************************************************************)
(* The AHCI driver (drv/ahci): ahci_init registers the ports of a host bus *)
(* adapter, and ahci_command puts a command into a slot of a port.  The    *)
(* adapter is external: it fetches the commands of the slots that are      *)
(* issued, and takes the bit of a slot back when it is done with it.       *)
(***************************************************************************)
EXTENDS Integers, Sequences, SequencesExt, FiniteSets

CONSTANTS
    Ports,          \* ports of an adapter, 32 in the code
    AhciPool,       \* size of the pool of devices, 128 in the code
    AdapterSlots,   \* slots of a port, at most 32
    MaxComm         \* bound: the commands given

ASSUME AhciAssumption ==
    /\ Ports \in Nat /\ AhciPool \in Nat /\ MaxComm \in Nat
    /\ AdapterSlots \in 1..32

Slot == 0..(AdapterSlots - 1)
PortNumber == 0..(Ports - 1)
Zero == 0           \* the header of a slot no command was put into

VARIABLES
    port_impl,      \* ports implemented
    apc, next_port, \* the driver; the port looked at by ahci_init
    ahci_devices,   \* the pool, up to ahci_devices_pool_last_id
    ahci_ready,     \* what ahci_init returned
    command_issue,  \* of each port
    header,         \* of each slot of the command list of each port
    fetched,        \* external: the slot and header each port works on
    port, comm,     \* ahci_command: its port and its command
    slot, was,      \* its slot, and command_issue as |= read it
    ran,            \* history: how often each command ran
    given,          \* history: the commands put into a slot
    early, again    \* history: a slot was fetched before its header was
                    \* there; a slot was issued again after it was done

adapter == <<port_impl, fetched, ran>>
pool == <<next_port, ahci_devices, ahci_ready>>
call == <<port, comm, slot, was, given>>
ahciVars == <<adapter, apc, pool, command_issue, header, call, early, again>>

Free == [s |-> AdapterSlots, c |-> Zero]    \* no slot fetched

AhciInit ==
    /\ port_impl \in SUBSET PortNumber
    /\ apc = "search" /\ next_port = 0
    /\ ahci_devices = <<>> /\ ahci_ready = FALSE
    /\ command_issue = [p \in PortNumber |-> {}]
    /\ header = [p \in PortNumber |-> [s \in Slot |-> Zero]]
    /\ fetched = [p \in PortNumber |-> Free]
    /\ port = 0 /\ comm = 0 /\ slot = 0 /\ was = {}
    /\ given = {}
    /\ ran = [c \in 0..MaxComm |-> 0] /\ early = FALSE /\ again = FALSE

-----------------------------------------------------------------------------
(***************************************************************************)
(* ahci_search_and_add_devices, a port at a time.  ahci_init_device only   *)
(* looks at the port: whatever it finds there, the port is registered.     *)
(***************************************************************************)
Searched(answer) ==
    apc' = "idle" /\ ahci_ready' = answer /\ UNCHANGED next_port

Implemented(p) == p \in port_impl

ahci_search_and_add_devices ==
    /\ apc = "search"
    /\ \/ /\ next_port = Ports
          /\ Searched(TRUE) /\ UNCHANGED ahci_devices
       \/ /\ next_port < Ports /\ Implemented(next_port)
          /\ Len(ahci_devices) = AhciPool
          /\ Searched(FALSE) /\ UNCHANGED ahci_devices
       \/ /\ next_port < Ports
          /\ Implemented(next_port) => Len(ahci_devices) < AhciPool
          /\ ahci_devices' = IF Implemented(next_port)
                             THEN Append(ahci_devices, next_port)
                             ELSE ahci_devices
          /\ next_port' = next_port + 1 /\ UNCHANGED <<apc, ahci_ready>>
    /\ UNCHANGED <<adapter, command_issue, header, call, early, again>>

-----------------------------------------------------------------------------
(***************************************************************************)
(* ahci_command and ahci_cl_get_slot: the bits of command_issue are read   *)
(* one after the other; |= reads the register and writes it; the header is *)
(* copied last.  A bit that is written 0 is left alone by the adapter.     *)
(***************************************************************************)
ahci_command ==
    /\ apc = "idle" /\ comm < MaxComm
    /\ \E p \in ToSet(ahci_devices) : port' = p
    /\ comm' = comm + 1 /\ slot' = 0
    /\ apc' = "look"
    /\ UNCHANGED <<adapter, pool, command_issue, header, was, given, early,
                   again>>

slots == AdapterSlots - 1    \* the capability counts from 0

Taken_never(p, s) == FALSE
Taken(p, s) == s \in command_issue[p]

ahci_cl_get_slot ==
    /\ apc = "look"
    /\ slot' = IF slot < slots /\ Taken(port, slot) THEN slot + 1 ELSE slot
    /\ apc' = IF slot >= slots THEN "idle"
              ELSE IF Taken(port, slot) THEN "look" ELSE "or"
    /\ UNCHANGED <<adapter, pool, command_issue, header, port, comm, was,
                   given, early, again>>

set_slot_read ==
    /\ apc = "or"
    /\ was' = command_issue[port] /\ apc' = "issue"
    /\ UNCHANGED <<adapter, pool, command_issue, header, port, comm, slot,
                   given, early, again>>

Issued == was \cup {slot}

set_slot_write ==
    /\ apc = "issue"
    /\ command_issue' = [command_issue EXCEPT ![port] = @ \cup Issued]
    /\ again' = (again \/ ~(was \subseteq command_issue[port]))
    /\ was' = {} /\ apc' = "copy"
    /\ UNCHANGED <<adapter, pool, header, port, comm, slot, given,
                   early>>

copy_header ==
    /\ apc = "copy"
    /\ header' = [header EXCEPT ![port][slot] = comm]
    /\ given' = given \cup {comm} /\ apc' = "idle"
    /\ UNCHANGED <<adapter, pool, command_issue, port, comm, slot, was,
                   early, again>>

-----------------------------------------------------------------------------
\* The adapter fetches an issued slot of a port that is not at work.
Fetch(p) ==
    /\ fetched[p] = Free
    /\ \E s \in command_issue[p] :
           /\ fetched' = [fetched EXCEPT ![p] = [s |-> s, c |-> header[p][s]]]
           /\ early' = (early \/ (apc = "copy" /\ p = port /\ s = slot))
    /\ UNCHANGED <<port_impl, ran, apc, pool, command_issue, header, call,
                   again>>

Done(p) ==
    /\ fetched[p] # Free
    /\ ran' = [ran EXCEPT ![fetched[p].c] = @ + 1]
    /\ command_issue' = [command_issue EXCEPT ![p] = @ \ {fetched[p].s}]
    /\ fetched' = [fetched EXCEPT ![p] = Free]
    /\ UNCHANGED <<port_impl, apc, pool, header, call, early, again>>

AhciNext ==
    \/ ahci_search_and_add_devices \/ ahci_command \/ ahci_cl_get_slot
    \/ set_slot_read \/ set_slot_write \/ copy_header
    \/ \E p \in PortNumber : Fetch(p) \/ Done(p)

-----------------------------------------------------------------------------
(***************************************************************************)
(* A command the driver put into a slot is still there, or being worked    *)
(* on, or has run: once, and no other command in its place.  There are two *)
(* races that break this, both of ahci_cl_get_slot: the adapter is done    *)
(* with a slot between the two halves of |=, which issues it again, and    *)
(* the adapter fetches a slot before its header is copied.                 *)
(***************************************************************************)
Waiting(c) ==
    {x \in PortNumber \X Slot :
        LET p == x[1]
            s == x[2]
        IN  \/ fetched[p] = [s |-> s, c |-> c]
            \/ /\ s \in command_issue[p] /\ header[p][s] = c /\ fetched[p].s # s
               /\ ~(apc = "copy" /\ p = port /\ s = slot)}

CommandsRunOnce ==
    \/ early \/ again
    \/ \A c \in 0..MaxComm :
           ran[c] + Cardinality(Waiting(c)) = IF c \in given THEN 1 ELSE 0
=============================================================================
