-------------------------------- MODULE Boot --------------------------------
(***************************************************************************)
(* The start of the kernel: kmain (leokernel.c), the font of the screen    *)
(* (tty/tty.c), the gates and the handlers of interrupts (int/int.c and    *)
(* int/isr.c), the tables of ACPI (acpi/acpi_parser.c) and the set-up of   *)
(* the APICs (int/apic.c).  The firmware and the devices are external: an  *)
(* interrupt may come at any step of kmain.  The memory manager, the PCI   *)
(* scan and the timers have modules of their own, and only succeed or fail *)
(* here.                                                                   *)
(***************************************************************************)
EXTENDS Integers, Sequences, SequencesExt, FiniteSetsExt

CONSTANTS
    Firmware,   \* what the firmware and the loader leave, see MCBoot
    Irq,        \* lines: 0..255 in the code
    Processors  \* APIC_ARRAYS_LENGTH

Pic == <<"pic", 8>>                     \* a line of the PIC, with its vector

\* An entry of the MADT; the I/O APICs are those the machine has, and the
\* addresses those that can be looked up.
MadtEntry(ids, addresses) ==
    [type : {"lapic"}, size : Nat, id : Nat]
      \cup [type : {"io_apic"}, size : Nat, id : ids, base : Nat,
            address : addresses]
      \cup [type : {"ioapic_int_map"}, size : Nat, irq : Nat, gsi : Nat]
      \cup [type : {"lapic_addr_override"}, size : Nat, address : addresses]
      \cup [type : {"ioapic_nmi", "lapic_nmi", "unknown"}, size : Nat]

ASSUME BootAssumption ==
    /\ Processors \in Nat /\ Irq \subseteq Nat
    /\ \A f \in Firmware :
         /\ f.tables \in Seq([sig : STRING, sum : {0, 1}, fields : Nat])
         /\ \A k \in DOMAIN f.tables :
              f.tables[k].sig = "APIC" => f.tables[k].fields \in DOMAIN f.madt
         /\ \A k \in DOMAIN f.madt :
              f.madt[k].entries \in
                  Seq(MadtEntry(DOMAIN f.last, DOMAIN f.pages))
         /\ f.open \subseteq {Pic} \cup (Nat \X Irq \X (0..255))
         /\ DOMAIN f.last \subseteq Nat /\ f.last \in [DOMAIN f.last -> Nat]
         /\ DOMAIN f.lvt = {"timer", "lint0", "lint1"}
         /\ f.msr.flags \in BOOLEAN /\ (f.msr.page = "null" => ~f.msr.flags)

VARIABLES
    fw,             \* the firmware
    pc, next,       \* kmain; the entry of the MADT looked at
    stopped,        \* how the kernel stopped, or "no"
    interrupts,     \* the interrupt flag
    gdt, gates,     \* the GDT is the kernel's; the vectors of the IDT loaded
    lines,          \* the lines of I/O APICs, and of the PIC, let through
    lvt,            \* the local interrupts of the local APIC
    madt,           \* __acpi_madt, or 0
    lapic_address, system_lapics, system_ioapics, gsi_map,
    lapic_flags     \* the flags of the MSR are in lapic_address

tables == <<madt, lapic_address, system_lapics, system_ioapics, gsi_map>>
cpu == <<interrupts, gdt, gates>>
local == <<lvt, lapic_flags>>
bootVars == <<fw, pc, next, stopped, cpu, lines, local, tables>>

null == "null"
Line(id, entry, vector) == <<id, entry, vector>>
Vector(line) == line[Len(line)]

Init ==
    /\ fw \in Firmware
    /\ pc = "check_boot_param" /\ next = 1 /\ stopped = "no"
    /\ interrupts \in BOOLEAN /\ gdt = FALSE /\ gates = {}
    /\ lines = fw.open /\ lvt = fw.lvt
    /\ madt = 0 /\ lapic_address = null /\ system_lapics = <<>>
    /\ system_ioapics = <<>> /\ gsi_map = [irq \in Irq |-> 0]
    /\ lapic_flags = FALSE

-----------------------------------------------------------------------------
(***************************************************************************)
(* Handlers.  The vectors of the isrs table, and those of them before its  *)
(* first hole, for which setup_interrupts sets a gate.                     *)
(***************************************************************************)
isrs == 0..25 \cup {37, 38}
GatesOf_inverted(table) == {v \in 0..255 : 0..v \cap table = {}}
GatesOf(table) == {v \in table : 0..v \subseteq table}

Returning == 22..25     \* int_16, irq0, irq1, irq2

\* Every other handler prints, runs its hooks and halts; int_06 and int_0D
\* end in panic.
Handled(v) == IF v \in {6, 13} THEN "panic" ELSE "exception"

\* A vector without a gate is a general protection fault, and without the
\* tables of the kernel the processor resets.
Raised(v) ==
    CASE v \in gates  -> Handled(v)
      [] v \notin gates /\ 13 \in gates -> Handled(13)
      [] OTHER        -> "reset"

Fault(v) ==
    /\ stopped' = Raised(v)
    /\ UNCHANGED <<fw, pc, next, cpu, lines, local, tables>>

\* Until lgdt the handlers are the firmware's, and return.
Interrupt ==
    /\ stopped = "no" /\ interrupts /\ gdt
    /\ \E line \in lines : Vector(line) \notin Returning \cap gates
                           /\ Fault(Vector(line))

-----------------------------------------------------------------------------
At(step) == pc = step /\ stopped = "no"
Goto(step) == pc' = step /\ UNCHANGED stopped
Stop(how) == stopped' = how /\ UNCHANGED pc

\* A part of the kernel that is modelled elsewhere: fail halts.
Part(step, then) ==
    /\ At(step)
    /\ Goto(then) \/ Stop("halted")
    /\ UNCHANGED <<fw, next, cpu, lines, local, tables>>

check_boot_param ==
    /\ At("check_boot_param")
    /\ IF fw.params THEN Goto("init_tty") ELSE Stop("halted")
    /\ UNCHANGED <<fw, next, cpu, lines, local, tables>>

\* tty_load_font ends without a return when it has read the font, and
\* init_tty takes true for a failure; a font it does not know leaves cells
\* of no width, by which init_tty divides.
init_tty ==
    /\ At("init_tty")
    /\ IF fw.font
       THEN Goto("setup_gdt") \/ Stop("halted")
       ELSE Stop(Raised(0))
    /\ UNCHANGED <<fw, next, cpu, lines, local, tables>>

setup_gdt ==
    /\ At("setup_gdt") /\ Goto("setup_interrupts")
    /\ gdt' = TRUE /\ interrupts' = TRUE
    /\ UNCHANGED <<fw, next, gates, lines, local, tables>>

setup_interrupts ==
    /\ At("setup_interrupts") /\ Goto("gsi_map")
    /\ gates' = GatesOf(isrs) /\ interrupts' = TRUE
    /\ UNCHANGED <<fw, next, gdt, lines, local, tables>>

\* The end of setup_interrupts, and the int 0x16 of gdt_load_segments.
setup_gsi_map ==
    /\ At("gsi_map") /\ Goto("init_mm")
    /\ gsi_map' = [irq \in Irq |-> irq]
    /\ UNCHANGED <<fw, next, cpu, lines, local, madt, lapic_address,
                   system_lapics, system_ioapics>>

init_mm == Part("init_mm", "init_acpi")

-----------------------------------------------------------------------------
(***************************************************************************)
(* init_acpi.  A table is [sig, sum, fields]: its signature, the sum of    *)
(* its bytes, and where fw has its fields.                                 *)
(***************************************************************************)
acpi_validate_checksum(table) == table.sum = 0

acpi_locate_table(sig) ==
    LET found == {k \in DOMAIN fw.tables :
                     /\ acpi_validate_checksum(fw.tables[k])
                     /\ fw.tables[k].sig = sig}
    IN  IF found = {} THEN 0 ELSE fw.tables[Min(found)].fields

init_acpi ==
    /\ At("init_acpi")
    /\ LET fadt == acpi_locate_table("FACP")
           apic == acpi_locate_table("APIC")
       IN  IF fadt = 0 \/ apic = 0 \/ fw.dsdt[fadt] = null
           THEN Stop("halted") /\ UNCHANGED tables
           ELSE /\ Goto("acpi_parse_madt")
                /\ madt' = apic /\ lapic_address' = fw.madt[apic].address
                /\ system_lapics' = <<>>
                /\ UNCHANGED <<system_ioapics, gsi_map>>
    /\ UNCHANGED <<fw, next, cpu, lines, local>>

\* One entry; the next one is as far as its size says.
Entry == fw.madt[madt].entries[next]
OnEntry(type) ==
    /\ At("acpi_parse_madt") /\ next <= Len(fw.madt[madt].entries)
    /\ Entry.type = type
    /\ next' = next + Entry.size
    /\ UNCHANGED <<fw, cpu, lines, local, madt>>

HasRoom == Len(system_lapics) < Processors

save_lapic_info ==
    /\ OnEntry("lapic") /\ Goto("acpi_parse_madt")
    /\ system_lapics' = IF HasRoom
                        THEN Append(system_lapics, Entry.id) ELSE system_lapics
    /\ UNCHANGED <<lapic_address, system_ioapics, gsi_map>>

\* The number of entries is read from the I/O APIC, through an address that
\* is looked up in the page tables only later.
save_ioapic_info ==
    /\ OnEntry("io_apic")
    /\ IF fw.pages[Entry.address] = null THEN Stop(Raised(14))
       ELSE Goto("acpi_parse_madt")
    /\ \E max \in IF fw.pages[Entry.address] = Entry.address
                  THEN {fw.last[Entry.id]} ELSE {0, Max(Irq)} :
           system_ioapics' =
               [id \in DOMAIN system_ioapics \cup {Entry.id} |->
                    IF id # Entry.id THEN system_ioapics[id]
                    ELSE [address |-> Entry.address, base |-> Entry.base,
                          max |-> max]]
    /\ UNCHANGED <<lapic_address, system_lapics, gsi_map>>

ioapic_int_map_back(irq, gsi) == [gsi_map EXCEPT ![gsi] = irq]
ioapic_int_map(irq, gsi) == [gsi_map EXCEPT ![irq] = gsi]

irq_override ==
    /\ OnEntry("ioapic_int_map") /\ Goto("acpi_parse_madt")
    /\ gsi_map' = ioapic_int_map(Entry.irq, Entry.gsi)
    /\ UNCHANGED <<lapic_address, system_lapics, system_ioapics>>

lapic_addr_override ==
    /\ OnEntry("lapic_addr_override") /\ Goto("acpi_parse_madt")
    /\ lapic_address' = Entry.address
    /\ UNCHANGED <<system_lapics, system_ioapics, gsi_map>>

other_entry_known ==
    /\ \E type \in {"ioapic_nmi", "lapic_nmi"} : OnEntry(type)
    /\ Goto("acpi_parse_madt")
    /\ UNCHANGED <<lapic_address, system_lapics, system_ioapics, gsi_map>>
other_entry ==
    /\ \E type \in {"ioapic_nmi", "lapic_nmi", "unknown"} : OnEntry(type)
    /\ Goto("acpi_parse_madt")
    /\ UNCHANGED <<lapic_address, system_lapics, system_ioapics, gsi_map>>

acpi_parse_madt_end ==
    /\ At("acpi_parse_madt") /\ next > Len(fw.madt[madt].entries)
    /\ Goto("init_apic")
    /\ UNCHANGED <<fw, next, cpu, lines, local, tables>>

-----------------------------------------------------------------------------
(***************************************************************************)
(* init_apic, in the order of the code.                                    *)
(***************************************************************************)
check_apic == fw.apic

disable_pic ==
    /\ At("init_apic")
    /\ IF check_apic THEN Goto("lapic_address") /\ lines' = lines \ {Pic}
       ELSE Stop("halted") /\ UNCHANGED lines
    /\ UNCHANGED <<fw, next, cpu, local, tables>>

\* The address in the MSR comes with the flags it has in the low bits.
set_lapic_address ==
    /\ At("lapic_address") /\ Goto("check_apic_addresses")
    /\ lapic_address' = IF lapic_address # null THEN lapic_address
                        ELSE IF fw.msr.page # null THEN fw.msr.page
                        ELSE "default"
    /\ lapic_flags' = (lapic_address = null /\ fw.msr.flags)
    /\ UNCHANGED <<fw, next, cpu, lines, lvt, madt, system_lapics,
                   system_ioapics, gsi_map>>

Addresses ==
    {lapic_address}
        \cup {system_ioapics[id].address : id \in DOMAIN system_ioapics}

\* The low bits are the same on both sides.
check_apic_addresses ==
    /\ At("check_apic_addresses")
    /\ IF \A a \in Addresses : fw.pages[a] = a
       THEN Goto("clear_int_redirection_table") ELSE Stop("halted")
    /\ UNCHANGED <<fw, next, cpu, lines, local, tables>>

\* The I/O APIC of a line: the first by its id.  The place of a line is
\* taken to be its number, and the last entry is not counted.
Handles(id, irq) ==
    LET apic == system_ioapics[id]
    IN  apic.base <= irq /\ irq - apic.base < apic.max
get_ioapic_by_irq(irq) == {id \in DOMAIN system_ioapics :
    Handles(id, irq) /\ \A k \in DOMAIN system_ioapics :
                            k < id => ~Handles(k, irq)}

apic_clear_irq_past(irq) == {<<id, irq + 1>> : id \in get_ioapic_by_irq(irq)}
apic_clear_irq(irq) == {<<id, irq>> : id \in get_ioapic_by_irq(irq)}

clear_int_redirection_table ==
    /\ At("clear_int_redirection_table") /\ Goto("lapic_set_lvt_entry")
    /\ lines' = {line \in lines : \A irq \in Irq :
                    <<line[1], line[2]>> \notin apic_clear_irq(irq)}
    /\ UNCHANGED <<fw, next, cpu, local, tables>>

\* The delivery mode of an entry that is not the timer's stays 0, fixed.  With
\* flags in the address these are no registers of the local APIC.
lapic_set_lvt_entry ==
    /\ At("lapic_set_lvt_entry") /\ Goto("init_pit")
    /\ lvt' = IF lapic_flags THEN lvt ELSE
              [pin \in DOMAIN lvt |->
                  IF pin = "timer"
                  THEN [vector |-> 25, mode |-> "fixed", masked |-> TRUE]
                  ELSE [vector |-> 2, mode |-> "fixed", masked |-> FALSE]]
    /\ UNCHANGED <<fw, next, cpu, lines, lapic_flags, tables>>

\* init_pit and apic_timer_init, init_pci, init_files, init_keyboard.
init_pit ==
    /\ At("init_pit") /\ Goto("init_pci")
    /\ UNCHANGED <<fw, next, cpu, lines, local, tables>>
init_pci == Part("init_pci", "init_files")
init_files == Part("init_files", "init_keyboard")
init_keyboard ==
    /\ At("init_keyboard") /\ Goto("init_terminal")
    /\ UNCHANGED <<fw, next, cpu, lines, local, tables>>

-----------------------------------------------------------------------------
kmain ==
    \/ check_boot_param \/ init_tty \/ setup_gdt \/ setup_interrupts
    \/ setup_gsi_map \/ init_mm \/ init_acpi
    \/ save_lapic_info \/ save_ioapic_info \/ irq_override
    \/ lapic_addr_override \/ other_entry \/ acpi_parse_madt_end
    \/ disable_pic \/ set_lapic_address \/ check_apic_addresses
    \/ clear_int_redirection_table \/ lapic_set_lvt_entry
    \/ init_pit \/ init_pci \/ init_files \/ init_keyboard

Next == kmain \/ Interrupt

\* Nothing but an interrupt keeps kmain from its next step.
Spec == Init /\ [][Next]_bootVars /\ WF_bootVars(kmain)
-----------------------------------------------------------------------------
Order == <<"check_boot_param", "init_tty", "setup_gdt", "setup_interrupts",
          "gsi_map", "init_mm", "init_acpi", "acpi_parse_madt", "init_apic",
          "lapic_address", "check_apic_addresses",
          "clear_int_redirection_table", "lapic_set_lvt_entry", "init_pit",
          "init_pci", "init_files", "init_keyboard", "init_terminal">>
Past(step) ==
    \E j, k \in DOMAIN Order : Order[j] = step /\ Order[k] = pc /\ j < k

\* The type of every variable.
TypeOK ==
    /\ fw \in Firmware /\ pc \in ToSet(Order) /\ next \in Nat
    /\ stopped \in {"no", "halted", "exception", "panic", "reset"}
    /\ interrupts \in BOOLEAN /\ gdt \in BOOLEAN /\ gates \subseteq isrs
    /\ lines \subseteq fw.open /\ DOMAIN lvt = {"timer", "lint0", "lint1"}
    /\ Len(system_lapics) <= Processors
    /\ gsi_map \in [Irq -> Nat]

(***************************************************************************)
(* When kmain has read the tables, what it keeps is what they say: the     *)
(* processors in order as far as the array goes, each I/O APIC as its last *)
(* entry has it, each line where the last override puts it and at its own  *)
(* number without one, and the local APIC where the last override has it,  *)
(* or else the MADT (acpi_parse_madt after setup_interrupts); it has the   *)
(* flags of the MSR in its address only where neither gives one.           *)
(***************************************************************************)
Of(type) == SelectSeq(fw.madt[madt].entries, LAMBDA e : e.type = type)
LastOf(entries, Test(_)) ==
    LET fit == SelectSeq(entries, Test) IN {fit[k] : k \in {Len(fit)} \ {0}}

TablesRead ==
    Past("acpi_parse_madt") =>
        /\ system_lapics =
               [k \in 1..Min({Len(Of("lapic")), Processors}) |->
                    Of("lapic")[k].id]
        /\ DOMAIN system_ioapics = {e.id : e \in ToSet(Of("io_apic"))}
        /\ \A id \in DOMAIN system_ioapics :
             \E e \in LastOf(Of("io_apic"), LAMBDA x : x.id = id) :
               /\ system_ioapics[id].base = e.base
               /\ system_ioapics[id].address = e.address
               /\ fw.pages[e.address] = e.address =>
                      system_ioapics[id].max = fw.last[id]
        /\ \A irq \in Irq :
             LET last == LastOf(Of("ioapic_int_map"), LAMBDA x : x.irq = irq)
             IN  \/ last = {} /\ gsi_map[irq] = irq
                 \/ \E e \in last : gsi_map[irq] = e.gsi
        /\ LET last == LastOf(Of("lapic_addr_override"), LAMBDA x : TRUE)
           IN  /\ \/ last = {} /\ lapic_address = fw.madt[madt].address
                  \/ last = {} /\ fw.madt[madt].address = null
                  \/ \E e \in last : lapic_address = e.address
               /\ lapic_flags => last = {} /\ fw.madt[madt].address = null

\* No two I/O APICs of one MADT have a line in common, as ACPI asks.
Apart(f) ==
    \A m \in DOMAIN f.madt : \A d, e \in ToSet(f.madt[m].entries) :
        d.type = "io_apic" /\ e.type = "io_apic" /\ d.id # e.id =>
            \A irq \in Irq :
                ~ (/\ d.base <= irq /\ irq - d.base < f.last[d.id]
                   /\ e.base <= irq /\ irq - e.base < f.last[e.id])

(***************************************************************************)
(* Behind clear_int_redirection_table nothing the firmware left open comes *)
(* through, but for the last line of an I/O APIC, the lines of one that    *)
(* does not start at line 0, and those of one the MADT does not name; and  *)
(* behind lapic_set_lvt_entry the timer of the local APIC is masked unless *)
(* its address was read from the MSR, flags included: what is written then *)
(* are no registers of the APIC, and the firmware's timer goes on.         *)
(***************************************************************************)
LinesMasked ==
    /\ Past("clear_int_redirection_table") =>
        \A line \in lines :
            /\ line # Pic
            /\ \/ line[1] \notin DOMAIN system_ioapics
               \/ system_ioapics[line[1]].base # 0
               \/ line[2] >= system_ioapics[line[1]].max
    /\ Past("lapic_set_lvt_entry") =>
        \/ lvt["timer"].masked
        \/ lapic_flags /\ lapic_address = fw.msr.page

(***************************************************************************)
(* A fault or an interrupt resets the processor only without a font, or    *)
(* between setup_gdt, which turns interrupts on, and setup_interrupts; and *)
(* an interrupt stops the kernel only if the firmware left its line open.  *)
(***************************************************************************)
FaultsAreReported ==
    /\ TypeOK
    /\ stopped = "reset" =>
           \/ pc = "init_tty" /\ ~fw.font
           \/ pc = "setup_interrupts" /\ fw.open # {}
    /\ stopped \in {"exception", "panic"} =>
           \/ lines # {}
           \/ /\ pc = "acpi_parse_madt"
              /\ \E a \in DOMAIN fw.pages : fw.pages[a] = null

(***************************************************************************)
(* kmain reaches the terminal or stops, unless an entry of the MADT has no *)
(* size: then acpi_parse_madt stays on it.                                 *)
(***************************************************************************)
Endless == madt # 0 /\ \E e \in ToSet(fw.madt[madt].entries) : e.size = 0
BootEnds == <>(stopped # "no" \/ pc = "init_terminal" \/ Endless)
=============================================================================
