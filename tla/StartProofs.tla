---------------------------- MODULE StartProofs ----------------------------
(***************************************************************************)
(* Theorems about the start of the kernel.  First kmain and the interrupts *)
(* it meets, for every firmware: where a fault can stop it, and what       *)
(* init_apic leaves open.  Then the scan of the buses that it calls, for   *)
(* every machine: the tree and the calls of the drivers.                   *)
(***************************************************************************)
EXTENDS Boot, Pci, NaturalsInduction, WellFoundedInduction, TLAPS

USE BootAssumption

Early == {"check_boot_param", "init_tty", "setup_gdt"}
Middle == {"gsi_map", "init_mm", "init_acpi"}
Masking == {"init_apic", "lapic_address", "check_apic_addresses"}
Cleared == {"lapic_set_lvt_entry", "init_pit", "init_pci", "init_files", "init_keyboard",
            "init_terminal"}
Steps == Early \cup {"setup_interrupts"} \cup Middle \cup {"acpi_parse_madt"} \cup Masking
           \cup {"clear_int_redirection_table"} \cup Cleared

Entries == fw.madt[madt].entries

BootTypes ==
    /\ fw \in Firmware /\ pc \in Steps /\ next \in Nat \ {0}
    /\ stopped \in {"no", "halted", "exception", "panic", "reset"}
    /\ interrupts \in BOOLEAN /\ gdt \in BOOLEAN
    /\ lines \subseteq fw.open /\ DOMAIN lvt = {"timer", "lint0", "lint1"}
    /\ system_lapics \in Seq(Nat) /\ Len(system_lapics) <= Processors
    /\ gsi_map \in [Irq -> Nat]

\* The gates are set by setup_interrupts, after the GDT and with interrupts on.
GatesInv ==
    /\ gates = IF pc \in Early \cup {"setup_interrupts"} THEN {} ELSE GatesOf(isrs)
    /\ pc \in Early => ~ gdt

\* Where the kernel may have stopped, and by what.
StopInv ==
    /\ stopped = "reset" =>
           \/ pc = "init_tty" /\ ~ fw.font
           \/ pc = "setup_interrupts" /\ fw.open # {}
    /\ stopped \in {"exception", "panic"} =>
           \/ lines # {}
           \/ /\ pc = "acpi_parse_madt"
              /\ \E a \in DOMAIN fw.pages : fw.pages[a] = null

\* The I/O APIC of an id is one that the MADT names.
FromEntry(id) ==
    \E e \in ToSet(Entries) :
        /\ e.type = "io_apic" /\ e.id = id
        /\ system_ioapics[id].address = e.address /\ system_ioapics[id].base = e.base
        /\ fw.pages[e.address] = e.address => system_ioapics[id].max = fw.last[id]

ParsedSteps == {"acpi_parse_madt"} \cup Masking \cup {"clear_int_redirection_table"} \cup Cleared

ApicsInv ==
    /\ pc \in ParsedSteps => madt \in DOMAIN fw.madt
    /\ pc \notin ParsedSteps => DOMAIN system_ioapics = {}
    /\ pc \in ParsedSteps => \A id \in DOMAIN system_ioapics : FromEntry(id)

\* What init_apic has closed.
MaskedLine(line) ==
    \/ line[1] \notin DOMAIN system_ioapics
    \/ system_ioapics[line[1]].base # 0
    \/ line[2] >= system_ioapics[line[1]].max

MaskInv ==
    /\ pc \in {"lapic_address", "check_apic_addresses", "clear_int_redirection_table"} \cup Cleared
         => Pic \notin lines
    /\ pc \in {"clear_int_redirection_table"} \cup Cleared
         => \A a \in Addresses : fw.pages[a] = a
    /\ pc \in Cleared => \A line \in lines : MaskedLine(line)

\* Before the address of the local APIC is settled.
NotYet == Early \cup Middle \cup {"setup_interrupts", "acpi_parse_madt", "init_apic",
                                  "lapic_address"}

\* The timer of the local APIC, once its registers were written.
TimerInv ==
    /\ lapic_flags => lapic_address = fw.msr.page
    /\ pc \in NotYet => ~lapic_flags
    /\ pc \in Cleared \ {"lapic_set_lvt_entry"} => lvt["timer"].masked \/ lapic_flags

BootInv == BootTypes /\ GatesInv /\ StopInv /\ ApicsInv

-----------------------------------------------------------------------------
(* Helpers.                                                                *)

LEMMA MinOfNats ==
    ASSUME NEW S \in SUBSET Nat, S # {}
    PROVE  Min(S) \in S /\ \A x \in S : Min(S) <= x
<1>1. IsWellFoundedOn(OpToRel(<, Nat), Nat)
  BY NatLessThanWellFounded
<1>2. PICK x \in S : \A y \in S : ~ <<y, x>> \in OpToRel(<, Nat)
  BY <1>1, WFMin, Zenon
<1>3. \A y \in S : ~ (y < x)
  BY <1>2 DEF OpToRel
<1>4. \A y \in S : x <= y
  BY <1>3
<1> QED
  BY <1>4, Zenon DEF Min

LEMMA StepNames ==
    /\ ToSet(Order) = Steps
    /\ Past("clear_int_redirection_table") => pc \in Cleared
    /\ Past("lapic_set_lvt_entry") => pc \in Cleared \ {"lapic_set_lvt_entry"}
<1>1. /\ DOMAIN Order = 1 .. 18
      /\ Order[1] = "check_boot_param" /\ Order[2] = "init_tty" /\ Order[3] = "setup_gdt"
      /\ Order[4] = "setup_interrupts" /\ Order[5] = "gsi_map" /\ Order[6] = "init_mm"
      /\ Order[7] = "init_acpi" /\ Order[8] = "acpi_parse_madt" /\ Order[9] = "init_apic"
      /\ Order[10] = "lapic_address" /\ Order[11] = "check_apic_addresses"
      /\ Order[12] = "clear_int_redirection_table" /\ Order[13] = "lapic_set_lvt_entry"
      /\ Order[14] = "init_pit" /\ Order[15] = "init_pci" /\ Order[16] = "init_files"
      /\ Order[17] = "init_keyboard" /\ Order[18] = "init_terminal"
  BY DEF Order
<1>2. ASSUME NEW x \in ToSet(Order)
      PROVE  x \in Steps
  <2>1. PICK k \in 1 .. 18 : x = Order[k]
    BY <1>1 DEF ToSet
  <2>2. k \in 1 .. 9 \/ k \in 10 .. 18
    OBVIOUS
  <2>3. CASE k \in 1 .. 9
    BY <1>1, <2>1, <2>3 DEF Steps, Early, Middle, Masking, Cleared
  <2>4. CASE k \in 10 .. 18
    BY <1>1, <2>1, <2>4 DEF Steps, Early, Middle, Masking, Cleared
  <2> QED
    BY <2>2, <2>3, <2>4
<1>3. ASSUME NEW x \in Steps
      PROVE  x \in ToSet(Order)
  <2>1. \E k \in 1 .. 18 : x = Order[k]
    BY <1>1 DEF Steps, Early, Middle, Masking, Cleared
  <2> QED
    BY <1>1, <2>1 DEF ToSet
<1>4. ASSUME Past("clear_int_redirection_table")
      PROVE  pc \in Cleared
  <2>1. PICK j \in 1 .. 18, k \in 1 .. 18 :
          Order[j] = "clear_int_redirection_table" /\ Order[k] = pc /\ j < k
    BY <1>1, <1>4 DEF Past
  <2>2. j = 12
    BY <1>1, <2>1
  <2>3. k \in 13 .. 18
    BY <2>1, <2>2
  <2> QED
    BY <1>1, <2>1, <2>3 DEF Cleared
<1>5. ASSUME Past("lapic_set_lvt_entry")
      PROVE  pc \in Cleared \ {"lapic_set_lvt_entry"}
  <2>1. PICK j \in 1 .. 18, k \in 1 .. 18 :
          Order[j] = "lapic_set_lvt_entry" /\ Order[k] = pc /\ j < k
    BY <1>1, <1>5 DEF Past
  <2>2. j = 13
    BY <1>1, <2>1
  <2>3. k \in 14 .. 18
    BY <2>1, <2>2
  <2> QED
    BY <1>1, <2>1, <2>3 DEF Cleared
<1> QED
  BY <1>2, <1>3, <1>4, <1>5

LEMMA FirmwareFacts ==
    ASSUME NEW f \in Firmware
    PROVE  /\ f.tables \in Seq([sig : STRING, sum : {0, 1}, fields : Nat])
           /\ \A k \in DOMAIN f.tables :
                f.tables[k].sig = "APIC" => f.tables[k].fields \in DOMAIN f.madt
           /\ \A k \in DOMAIN f.madt : f.madt[k].entries \in Seq(MadtEntry(DOMAIN f.last, DOMAIN f.pages))
           /\ f.open \subseteq {Pic} \cup (Nat \X Irq \X (0..255))
           /\ DOMAIN f.last \subseteq Nat /\ f.last \in [DOMAIN f.last -> Nat]
           /\ DOMAIN f.lvt = {"timer", "lint0", "lint1"}
           /\ f.msr.page = "null" => ~f.msr.flags
  OBVIOUS

\* The vectors of faults have a gate, and Raised only resets without gates.
LEMMA RaisedWithGates ==
    ASSUME gates = GatesOf(isrs), NEW v
    PROVE  Raised(v) \in {"exception", "panic"}
<1>1. 13 \in gates
  BY DEF GatesOf, isrs
<1>2. CASE v \in gates
  BY <1>2 DEF Raised, Handled
<1>3. CASE v \notin gates
  BY <1>1, <1>3 DEF Raised, Handled
<1> QED
  BY <1>2, <1>3

LEMMA RaisedWithoutGates ==
    ASSUME gates = {}, NEW v
    PROVE  Raised(v) = "reset"
  BY DEF Raised

LEMMA EntryFacts ==
    ASSUME BootTypes, ApicsInv, pc = "acpi_parse_madt", next <= Len(fw.madt[madt].entries)
    PROVE  /\ Entry \in ToSet(Entries) /\ Entry.size \in Nat
           /\ Entry.type = "lapic" => Entry.id \in Nat
           /\ Entry.type = "io_apic" =>
                Entry.id \in Nat /\ Entry.base \in Nat /\ Entry.address \in DOMAIN fw.pages
           /\ Entry.type = "ioapic_int_map" => Entry.gsi \in Nat
<1>1. madt \in DOMAIN fw.madt /\ fw \in Firmware
  BY DEF ApicsInv, BootTypes, ParsedSteps
<1>2. Entries \in Seq(MadtEntry(DOMAIN fw.last, DOMAIN fw.pages))
  BY <1>1, FirmwareFacts DEF Entries
<1>3. next \in DOMAIN Entries /\ Entry = Entries[next]
  BY <1>2 DEF BootTypes, Entries, Entry
<1>4. Entry \in MadtEntry(DOMAIN fw.last, DOMAIN fw.pages)
  BY <1>2, <1>3
<1>5. Entry \in ToSet(Entries)
  BY <1>3 DEF ToSet
<1>6. /\ Entry.size \in Nat
      /\ Entry.type = "lapic" => Entry.id \in Nat
      /\ Entry.type = "io_apic" =>
           Entry.id \in Nat /\ Entry.base \in Nat /\ Entry.address \in DOMAIN fw.pages
      /\ Entry.type = "ioapic_int_map" => Entry.gsi \in Nat
  BY <1>1, <1>4, FirmwareFacts DEF MadtEntry
<1> QED
  BY <1>5, <1>6

-----------------------------------------------------------------------------
(* BootInv is inductive: one case per action of kmain.                     *)

LEMMA TypesStep ==
    ASSUME BootTypes, ApicsInv, Next
    PROVE  BootTypes'
<1>1. CASE check_boot_param
  BY <1>1 DEF check_boot_param, At, Goto, Stop, BootTypes, cpu, tables, local, Steps, Early, Middle, Masking, Cleared
<1>2. CASE init_tty
  <2>1. stopped' \in {"no", "halted", "exception", "panic", "reset"}
    BY <1>2 DEF init_tty, At, Goto, Stop, Raised, Handled
  <2>2. pc' \in Steps
    BY <1>2 DEF init_tty, At, Goto, Stop, BootTypes, Steps, Early, Middle, Masking, Cleared
  <2> QED
    BY <1>2, <2>1, <2>2 DEF init_tty, BootTypes, cpu, tables, local
<1>3. CASE setup_gdt
  BY <1>3 DEF setup_gdt, At, Goto, Stop, BootTypes, cpu, tables, local, Steps, Early, Middle, Masking, Cleared
<1>4. CASE setup_interrupts
  BY <1>4 DEF setup_interrupts, At, Goto, Stop, BootTypes, cpu, tables, local, Steps, Early, Middle, Masking, Cleared
<1>5. CASE setup_gsi_map
  <2>1. [irq \in Irq |-> irq] \in [Irq -> Nat]
    OBVIOUS
  <2> QED
    BY <1>5, <2>1 DEF setup_gsi_map, At, Goto, BootTypes, cpu, local, Steps, Early, Middle, Masking, Cleared
<1>6. CASE init_mm
  BY <1>6 DEF init_mm, Part, At, Goto, Stop, BootTypes, cpu, tables, local, Steps, Early, Middle, Masking, Cleared
<1>7. CASE init_acpi
  <2>1. system_lapics' = <<>> \/ system_lapics' = system_lapics
    BY <1>7 DEF init_acpi, tables, local
  <2>2. system_lapics' \in Seq(Nat) /\ Len(system_lapics') <= Processors
    <3>1. <<>> \in Seq(Nat) /\ Len(<<>>) = 0 /\ Processors \in Nat
      OBVIOUS
    <3>2. CASE system_lapics' = <<>>
      BY <3>1, <3>2
    <3>3. CASE system_lapics' = system_lapics
      BY <3>3 DEF BootTypes
    <3> QED
      BY <2>1, <3>2, <3>3
  <2>3. gsi_map' = gsi_map /\ pc' \in Steps /\ stopped' \in {"no", "halted"}
    BY <1>7 DEF init_acpi, tables, local, At, Goto, Stop, BootTypes, Steps, Early, Middle, Masking, Cleared
  <2> QED
    BY <1>7, <2>2, <2>3 DEF init_acpi, BootTypes, cpu, local
<1>8. CASE save_lapic_info
  <2>1. Entry.size \in Nat /\ Entry.id \in Nat
    BY <1>8, EntryFacts DEF save_lapic_info, OnEntry, At
  <2>2. system_lapics' \in Seq(Nat) /\ Len(system_lapics') <= Processors
    BY <1>8, <2>1 DEF save_lapic_info, HasRoom, BootTypes
  <2> QED
    BY <1>8, <2>1, <2>2 DEF save_lapic_info, OnEntry, At, Goto, BootTypes, cpu, local, Steps, Early, Middle, Masking, Cleared
<1>9. CASE save_ioapic_info
  <2>1. Entry.size \in Nat
    BY <1>9, EntryFacts DEF save_ioapic_info, OnEntry, At
  <2>2. stopped' \in {"no", "halted", "exception", "panic", "reset"} /\ pc' \in Steps
    BY <1>9 DEF save_ioapic_info, OnEntry, At, Goto, Stop, Raised, Handled, BootTypes, Steps, Early, Middle, Masking, Cleared
  <2> QED
    BY <1>9, <2>1, <2>2 DEF save_ioapic_info, OnEntry, BootTypes, cpu, local
<1>10. CASE irq_override
  <2>1. Entry.size \in Nat /\ Entry.gsi \in Nat
    BY <1>10, EntryFacts DEF irq_override, OnEntry, At
  <2>2. gsi_map' \in [Irq -> Nat]
    BY <1>10, <2>1 DEF irq_override, ioapic_int_map, BootTypes
  <2> QED
    BY <1>10, <2>1, <2>2 DEF irq_override, OnEntry, At, Goto, BootTypes, cpu, local, Steps, Early, Middle, Masking, Cleared
<1>11. CASE lapic_addr_override
  <2>1. Entry.size \in Nat
    BY <1>11, EntryFacts DEF lapic_addr_override, OnEntry, At
  <2> QED
    BY <1>11, <2>1 DEF lapic_addr_override, OnEntry, At, Goto, BootTypes, cpu, local, Steps, Early, Middle, Masking, Cleared
<1>12. CASE other_entry
  <2>1. Entry.size \in Nat
    BY <1>12, EntryFacts DEF other_entry, OnEntry, At
  <2> QED
    BY <1>12, <2>1 DEF other_entry, OnEntry, At, Goto, BootTypes, cpu, local, Steps, Early, Middle, Masking, Cleared
<1>13. CASE acpi_parse_madt_end
  BY <1>13 DEF acpi_parse_madt_end, At, Goto, Stop, BootTypes, cpu, tables, local, Steps, Early, Middle, Masking, Cleared
<1>14. CASE disable_pic
  BY <1>14 DEF disable_pic, At, Goto, Stop, BootTypes, cpu, tables, local, Steps, Early, Middle, Masking, Cleared
<1>15. CASE set_lapic_address
  BY <1>15 DEF set_lapic_address, At, Goto, Stop, BootTypes, cpu, tables, local, Steps, Early, Middle, Masking, Cleared
<1>16. CASE check_apic_addresses
  BY <1>16 DEF check_apic_addresses, At, Goto, Stop, BootTypes, cpu, tables, local, Steps, Early, Middle, Masking, Cleared
<1>17. CASE clear_int_redirection_table
  BY <1>17 DEF clear_int_redirection_table, At, Goto, Stop, BootTypes, cpu, tables, local, Steps, Early, Middle, Masking, Cleared
<1>18. CASE lapic_set_lvt_entry
  BY <1>18 DEF lapic_set_lvt_entry, At, Goto, Stop, BootTypes, cpu, tables, local, Steps, Early, Middle, Masking, Cleared
<1>19. CASE init_pit
  BY <1>19 DEF init_pit, At, Goto, Stop, BootTypes, cpu, tables, local, Steps, Early, Middle, Masking, Cleared
<1>20. CASE init_pci
  BY <1>20 DEF init_pci, Part, At, Goto, Stop, BootTypes, cpu, tables, local, Steps, Early, Middle, Masking, Cleared
<1>21. CASE init_files
  BY <1>21 DEF init_files, Part, At, Goto, Stop, BootTypes, cpu, tables, local, Steps, Early, Middle, Masking, Cleared
<1>22. CASE init_keyboard
  BY <1>22 DEF init_keyboard, At, Goto, Stop, BootTypes, cpu, tables, local, Steps, Early, Middle, Masking, Cleared
<1>23. CASE Interrupt
  <2>1. stopped' \in {"no", "halted", "exception", "panic", "reset"}
    BY <1>23 DEF Interrupt, Fault, Raised, Handled
  <2> QED
    BY <1>23, <2>1 DEF Interrupt, Fault, BootTypes, cpu, tables, local
<1> QED
  BY <1>1, <1>2, <1>3, <1>4, <1>5, <1>6, <1>7, <1>8, <1>9, <1>10, <1>11, <1>12, <1>13, <1>14, <1>15, <1>16, <1>17, <1>18, <1>19, <1>20, <1>21, <1>22, <1>23 DEF Next, kmain

LEMMA GatesStep ==
    ASSUME BootTypes, GatesInv, Next
    PROVE  GatesInv'
<1>1. CASE check_boot_param
  BY <1>1 DEF check_boot_param, At, Goto, Stop, GatesInv, cpu, Steps, Early, Middle, Masking, Cleared
<1>2. CASE init_tty
  BY <1>2 DEF init_tty, At, Goto, Stop, GatesInv, cpu, Steps, Early, Middle, Masking, Cleared
<1>3. CASE setup_gdt
  BY <1>3 DEF setup_gdt, At, Goto, Stop, GatesInv, cpu, Steps, Early, Middle, Masking, Cleared
<1>4. CASE setup_interrupts
  BY <1>4 DEF setup_interrupts, At, Goto, Stop, GatesInv, cpu, Steps, Early, Middle, Masking, Cleared
<1>5. CASE setup_gsi_map
  BY <1>5 DEF setup_gsi_map, At, Goto, Stop, GatesInv, cpu, Steps, Early, Middle, Masking, Cleared
<1>6. CASE init_mm
  BY <1>6 DEF init_mm, Part, At, Goto, Stop, GatesInv, cpu, Steps, Early, Middle, Masking, Cleared
<1>7. CASE init_acpi
  BY <1>7 DEF init_acpi, At, Goto, Stop, GatesInv, cpu, Steps, Early, Middle, Masking, Cleared
<1>8. CASE save_lapic_info
  BY <1>8 DEF save_lapic_info, OnEntry, At, Goto, Stop, GatesInv, cpu, Steps, Early, Middle, Masking, Cleared
<1>9. CASE save_ioapic_info
  BY <1>9 DEF save_ioapic_info, OnEntry, At, Goto, Stop, GatesInv, cpu, Steps, Early, Middle, Masking, Cleared
<1>10. CASE irq_override
  BY <1>10 DEF irq_override, OnEntry, At, Goto, Stop, GatesInv, cpu, Steps, Early, Middle, Masking, Cleared
<1>11. CASE lapic_addr_override
  BY <1>11 DEF lapic_addr_override, OnEntry, At, Goto, Stop, GatesInv, cpu, Steps, Early, Middle, Masking, Cleared
<1>12. CASE other_entry
  BY <1>12 DEF other_entry, OnEntry, At, Goto, Stop, GatesInv, cpu, Steps, Early, Middle, Masking, Cleared
<1>13. CASE acpi_parse_madt_end
  BY <1>13 DEF acpi_parse_madt_end, At, Goto, Stop, GatesInv, cpu, Steps, Early, Middle, Masking, Cleared
<1>14. CASE disable_pic
  BY <1>14 DEF disable_pic, At, Goto, Stop, GatesInv, cpu, Steps, Early, Middle, Masking, Cleared
<1>15. CASE set_lapic_address
  BY <1>15 DEF set_lapic_address, At, Goto, Stop, GatesInv, cpu, Steps, Early, Middle, Masking, Cleared
<1>16. CASE check_apic_addresses
  BY <1>16 DEF check_apic_addresses, At, Goto, Stop, GatesInv, cpu, Steps, Early, Middle, Masking, Cleared
<1>17. CASE clear_int_redirection_table
  BY <1>17 DEF clear_int_redirection_table, At, Goto, Stop, GatesInv, cpu, Steps, Early, Middle, Masking, Cleared
<1>18. CASE lapic_set_lvt_entry
  BY <1>18 DEF lapic_set_lvt_entry, At, Goto, Stop, GatesInv, cpu, Steps, Early, Middle, Masking, Cleared
<1>19. CASE init_pit
  BY <1>19 DEF init_pit, At, Goto, Stop, GatesInv, cpu, Steps, Early, Middle, Masking, Cleared
<1>20. CASE init_pci
  BY <1>20 DEF init_pci, Part, At, Goto, Stop, GatesInv, cpu, Steps, Early, Middle, Masking, Cleared
<1>21. CASE init_files
  BY <1>21 DEF init_files, Part, At, Goto, Stop, GatesInv, cpu, Steps, Early, Middle, Masking, Cleared
<1>22. CASE init_keyboard
  BY <1>22 DEF init_keyboard, At, Goto, Stop, GatesInv, cpu, Steps, Early, Middle, Masking, Cleared
<1>23. CASE Interrupt
  BY <1>23 DEF Interrupt, Fault, At, Goto, Stop, GatesInv, cpu, Steps, Early, Middle, Masking, Cleared
<1> QED
  BY <1>1, <1>2, <1>3, <1>4, <1>5, <1>6, <1>7, <1>8, <1>9, <1>10, <1>11, <1>12, <1>13, <1>14, <1>15, <1>16, <1>17, <1>18, <1>19, <1>20, <1>21, <1>22, <1>23 DEF Next, kmain

LEMMA StopStep ==
    ASSUME BootTypes, GatesInv, ApicsInv, StopInv, Next
    PROVE  StopInv'
<1>1. stopped = "no"
  BY DEF Next, kmain, check_boot_param, init_tty, setup_gdt, setup_interrupts, setup_gsi_map, init_mm,
         init_acpi, save_lapic_info, save_ioapic_info, irq_override, lapic_addr_override,
         other_entry, acpi_parse_madt_end, disable_pic, set_lapic_address, check_apic_addresses,
         clear_int_redirection_table, lapic_set_lvt_entry, init_pit, init_pci, init_files,
         init_keyboard, Interrupt, Part, OnEntry, At
<1>2. CASE check_boot_param
  BY <1>1, <1>2 DEF check_boot_param, At, Goto, Stop, StopInv
<1>3. CASE init_tty
  <2>1. gates = {}
    BY <1>3 DEF init_tty, At, GatesInv, Early
  <2>2. Raised(0) = "reset"
    BY <2>1, RaisedWithoutGates
  <2> QED
    BY <1>3, <2>2 DEF init_tty, At, Goto, Stop, StopInv
<1>4. CASE setup_gdt
  BY <1>1, <1>4 DEF setup_gdt, At, Goto, Stop, StopInv
<1>5. CASE setup_interrupts
  BY <1>1, <1>5 DEF setup_interrupts, At, Goto, Stop, StopInv
<1>6. CASE setup_gsi_map
  BY <1>1, <1>6 DEF setup_gsi_map, At, Goto, Stop, StopInv
<1>7. CASE init_mm
  BY <1>1, <1>7 DEF init_mm, Part, At, Goto, Stop, StopInv
<1>8. CASE init_acpi
  BY <1>1, <1>8 DEF init_acpi, At, Goto, Stop, StopInv
<1>9. CASE save_lapic_info
  BY <1>1, <1>9 DEF save_lapic_info, OnEntry, At, Goto, Stop, StopInv
<1>10. CASE save_ioapic_info
  <2>1. pc = "acpi_parse_madt" /\ gates = GatesOf(isrs) /\ fw' = fw /\ pc' = pc
    BY <1>10 DEF save_ioapic_info, OnEntry, At, Goto, Stop, GatesInv, Early
  <2>2. CASE fw.pages[Entry.address] = null
    <3>1. Entry.address \in DOMAIN fw.pages
      BY <1>10, EntryFacts DEF save_ioapic_info, OnEntry, At
    <3>2. Raised(14) \in {"exception", "panic"}
      BY <2>1, RaisedWithGates
    <3>3. stopped' = Raised(14)
      BY <1>10, <2>2 DEF save_ioapic_info, Stop
    <3> QED
      BY <2>1, <2>2, <3>1, <3>2, <3>3 DEF StopInv
  <2>3. CASE fw.pages[Entry.address] # null
    BY <1>10, <1>1, <2>3 DEF save_ioapic_info, Goto, StopInv
  <2> QED
    BY <2>2, <2>3
<1>11. CASE irq_override
  BY <1>1, <1>11 DEF irq_override, OnEntry, At, Goto, Stop, StopInv
<1>12. CASE lapic_addr_override
  BY <1>1, <1>12 DEF lapic_addr_override, OnEntry, At, Goto, Stop, StopInv
<1>13. CASE other_entry
  BY <1>1, <1>13 DEF other_entry, OnEntry, At, Goto, Stop, StopInv
<1>14. CASE acpi_parse_madt_end
  BY <1>1, <1>14 DEF acpi_parse_madt_end, At, Goto, Stop, StopInv
<1>15. CASE disable_pic
  BY <1>1, <1>15 DEF disable_pic, At, Goto, Stop, StopInv
<1>16. CASE set_lapic_address
  BY <1>1, <1>16 DEF set_lapic_address, At, Goto, Stop, StopInv
<1>17. CASE check_apic_addresses
  BY <1>1, <1>17 DEF check_apic_addresses, At, Goto, Stop, StopInv
<1>18. CASE clear_int_redirection_table
  BY <1>1, <1>18 DEF clear_int_redirection_table, At, Goto, Stop, StopInv
<1>19. CASE lapic_set_lvt_entry
  BY <1>1, <1>19 DEF lapic_set_lvt_entry, At, Goto, Stop, StopInv
<1>20. CASE init_pit
  BY <1>1, <1>20 DEF init_pit, At, Goto, Stop, StopInv
<1>21. CASE init_pci
  BY <1>1, <1>21 DEF init_pci, Part, At, Goto, Stop, StopInv
<1>22. CASE init_files
  BY <1>1, <1>22 DEF init_files, Part, At, Goto, Stop, StopInv
<1>23. CASE init_keyboard
  BY <1>1, <1>23 DEF init_keyboard, At, Goto, Stop, StopInv
<1>24. CASE Interrupt
  <2>1. lines # {} /\ gdt /\ \E v : stopped' = Raised(v)
    BY <1>24 DEF Interrupt, Fault
  <2>2. UNCHANGED <<fw, pc, lines>>
    BY <1>24 DEF Interrupt, Fault
  <2>3. pc \notin Early
    BY <2>1 DEF GatesInv
  <2>4. CASE pc = "setup_interrupts"
    <3>1. gates = {}
      BY <2>4 DEF GatesInv
    <3>2. stopped' = "reset"
      BY <2>1, <3>1, RaisedWithoutGates
    <3>3. fw.open # {}
      BY <2>1 DEF BootTypes
    <3> QED
      BY <2>2, <2>4, <3>2, <3>3 DEF StopInv
  <2>5. CASE pc # "setup_interrupts"
    <3>1. gates = GatesOf(isrs)
      BY <2>3, <2>5 DEF GatesInv
    <3>2. stopped' \in {"exception", "panic"}
      BY <2>1, <3>1, RaisedWithGates
    <3> QED
      BY <2>1, <2>2, <3>2 DEF StopInv
  <2> QED
    BY <2>4, <2>5
<1> QED
  BY <1>2, <1>3, <1>4, <1>5, <1>6, <1>7, <1>8, <1>9, <1>10, <1>11, <1>12, <1>13, <1>14, <1>15, <1>16, <1>17, <1>18, <1>19, <1>20, <1>21, <1>22, <1>23, <1>24 DEF Next, kmain

\* An I/O APIC that was there keeps its entry.
LEMMA FromEntryKept ==
    ASSUME NEW id, FromEntry(id), UNCHANGED <<fw, madt>>, system_ioapics'[id] = system_ioapics[id]
    PROVE  FromEntry(id)'
  BY DEF FromEntry, Entries

LEMMA ApicsKept ==
    ASSUME ApicsInv, UNCHANGED <<fw, madt, system_ioapics>>,
           pc \in ParsedSteps <=> pc' \in ParsedSteps
    PROVE  ApicsInv'
  BY DEF ApicsInv, FromEntry, Entries

LEMMA ApicsStep ==
    ASSUME BootTypes, ApicsInv, Next
    PROVE  ApicsInv'
<1>1. CASE check_boot_param
  BY <1>1, ApicsKept DEF check_boot_param, At, Goto, Stop, tables, local, ParsedSteps, Steps, Early, Middle, Masking, Cleared
<1>2. CASE init_tty
  BY <1>2, ApicsKept DEF init_tty, At, Goto, Stop, tables, local, ParsedSteps, Steps, Early, Middle, Masking, Cleared
<1>3. CASE setup_gdt
  BY <1>3, ApicsKept DEF setup_gdt, At, Goto, Stop, tables, local, ParsedSteps, Steps, Early, Middle, Masking, Cleared
<1>4. CASE setup_interrupts
  BY <1>4, ApicsKept DEF setup_interrupts, At, Goto, Stop, tables, local, ParsedSteps, Steps, Early, Middle, Masking, Cleared
<1>5. CASE setup_gsi_map
  BY <1>5, ApicsKept DEF setup_gsi_map, At, Goto, ParsedSteps, Steps, Early, Middle, Masking, Cleared
<1>6. CASE init_mm
  BY <1>6, ApicsKept DEF init_mm, Part, At, Goto, Stop, tables, local, ParsedSteps, Steps, Early, Middle, Masking, Cleared
<1>7. CASE init_acpi
  <2>1. fw' = fw /\ system_ioapics' = system_ioapics /\ pc = "init_acpi"
    BY <1>7 DEF init_acpi, At, tables, local
  <2>2. DOMAIN system_ioapics = {}
    BY <2>1 DEF ApicsInv, ParsedSteps, Steps, Early, Middle, Masking, Cleared
  <2>3. CASE pc' = pc
    BY <2>1, <2>2, <2>3 DEF ApicsInv, ParsedSteps, Steps, Early, Middle, Masking, Cleared
  <2>4. CASE pc' # pc
    <3>1. madt' = acpi_locate_table("APIC") /\ madt' # 0
      BY <1>7, <2>4 DEF init_acpi, Stop
    <3> DEFINE found == {k \in DOMAIN fw.tables :
                           /\ acpi_validate_checksum(fw.tables[k]) /\ fw.tables[k].sig = "APIC"}
    <3>2. found # {} /\ madt' = fw.tables[Min(found)].fields
      BY <3>1 DEF acpi_locate_table
    <3>3. fw \in Firmware
      BY DEF BootTypes
    <3>4. Min(found) \in found
      <4>1. found \in SUBSET Nat
        BY <3>3, FirmwareFacts
      <4> HIDE DEF found
      <4> QED
        BY <3>2, <4>1, MinOfNats
    <3>5. madt' \in DOMAIN fw.madt
      BY <3>2, <3>3, <3>4, FirmwareFacts
    <3> QED
      BY <2>1, <2>2, <3>5 DEF ApicsInv
  <2> QED
    BY <2>3, <2>4
<1>8. CASE save_lapic_info
  BY <1>8, ApicsKept DEF save_lapic_info, OnEntry, At, Goto, Stop, tables, local, ParsedSteps, Steps, Early, Middle, Masking, Cleared
<1>9. CASE save_ioapic_info
  <2>1. /\ pc = "acpi_parse_madt" /\ pc' = pc /\ UNCHANGED <<fw, madt>>
        /\ Entry.type = "io_apic" /\ next <= Len(fw.madt[madt].entries)
    BY <1>9 DEF save_ioapic_info, OnEntry, At, Goto, Stop
  <2>2. Entry \in ToSet(Entries)
    BY <2>1, EntryFacts
  <2>3. PICK max \in IF fw.pages[Entry.address] = Entry.address
                     THEN {fw.last[Entry.id]} ELSE {0, Max(Irq)} :
           system_ioapics' =
               [id \in DOMAIN system_ioapics \cup {Entry.id} |->
                    IF id # Entry.id THEN system_ioapics[id]
                    ELSE [address |-> Entry.address, base |-> Entry.base, max |-> max]]
    BY <1>9 DEF save_ioapic_info
  <2> DEFINE this == Entry.id
             apic == [address |-> Entry.address, base |-> Entry.base, max |-> max]
  <2>4. /\ DOMAIN system_ioapics' = DOMAIN system_ioapics \cup {this}
        /\ system_ioapics'[this] = apic
        /\ \A k \in DOMAIN system_ioapics \ {this} : system_ioapics'[k] = system_ioapics[k]
    BY <2>3
  <2>5. fw.pages[Entry.address] = Entry.address => max = fw.last[this]
    BY <2>3
  <2>6. ASSUME NEW i0, i0 = this
        PROVE  FromEntry(i0)'
    <3>1. \E e \in ToSet(Entries) :
            /\ e.type = "io_apic" /\ e.id = this
            /\ apic.address = e.address /\ apic.base = e.base
            /\ fw.pages[e.address] = e.address => apic.max = fw.last[this]
      BY <2>1, <2>2, <2>5
    <3>2. PICK e \in ToSet(Entries) :
            /\ e.type = "io_apic" /\ e.id = this
            /\ apic.address = e.address /\ apic.base = e.base
            /\ fw.pages[e.address] = e.address => apic.max = fw.last[this]
      BY <3>1
    <3>4. ToSet(Entries)' = ToSet(Entries)
      BY <2>1 DEF Entries
    <3>5. /\ system_ioapics'[i0] = apic /\ fw' = fw
      BY <2>1, <2>4, <2>6
    <3> HIDE DEF apic
    <3> QED
      BY <2>6, <3>2, <3>4, <3>5 DEF FromEntry
  <2>7. ASSUME NEW k \in DOMAIN system_ioapics'
        PROVE  FromEntry(k)'
    <3>1. CASE k = this
      BY <2>6, <3>1
    <3>2. CASE k # this
      <4>1. k \in DOMAIN system_ioapics /\ system_ioapics'[k] = system_ioapics[k]
        BY <2>4, <3>2
      <4>2. FromEntry(k)
        BY <2>1, <4>1 DEF ApicsInv, ParsedSteps
      <4> QED
        BY <2>1, <4>1, <4>2, FromEntryKept
    <3> QED
      BY <3>1, <3>2
  <2> HIDE DEF this, apic
  <2> QED
    BY <2>1, <2>7 DEF ApicsInv, ParsedSteps
<1>10. CASE irq_override
  BY <1>10, ApicsKept DEF irq_override, OnEntry, At, Goto, Stop, tables, local, ParsedSteps, Steps, Early, Middle, Masking, Cleared
<1>11. CASE lapic_addr_override
  BY <1>11, ApicsKept DEF lapic_addr_override, OnEntry, At, Goto, Stop, tables, local, ParsedSteps, Steps, Early, Middle, Masking, Cleared
<1>12. CASE other_entry
  BY <1>12, ApicsKept DEF other_entry, OnEntry, At, Goto, Stop, tables, local, ParsedSteps, Steps, Early, Middle, Masking, Cleared
<1>13. CASE acpi_parse_madt_end
  BY <1>13, ApicsKept DEF acpi_parse_madt_end, At, Goto, Stop, tables, local, ParsedSteps, Steps, Early, Middle, Masking, Cleared
<1>14. CASE disable_pic
  BY <1>14, ApicsKept DEF disable_pic, At, Goto, Stop, tables, local, ParsedSteps, Steps, Early, Middle, Masking, Cleared
<1>15. CASE set_lapic_address
  BY <1>15, ApicsKept DEF set_lapic_address, At, Goto, Stop, tables, local, ParsedSteps, Steps, Early, Middle, Masking, Cleared
<1>16. CASE check_apic_addresses
  BY <1>16, ApicsKept DEF check_apic_addresses, At, Goto, Stop, tables, local, ParsedSteps, Steps, Early, Middle, Masking, Cleared
<1>17. CASE clear_int_redirection_table
  BY <1>17, ApicsKept DEF clear_int_redirection_table, At, Goto, Stop, tables, local, ParsedSteps, Steps, Early, Middle, Masking, Cleared
<1>18. CASE lapic_set_lvt_entry
  BY <1>18, ApicsKept DEF lapic_set_lvt_entry, At, Goto, Stop, tables, local, ParsedSteps, Steps, Early, Middle, Masking, Cleared
<1>19. CASE init_pit
  BY <1>19, ApicsKept DEF init_pit, At, Goto, Stop, tables, local, ParsedSteps, Steps, Early, Middle, Masking, Cleared
<1>20. CASE init_pci
  BY <1>20, ApicsKept DEF init_pci, Part, At, Goto, Stop, tables, local, ParsedSteps, Steps, Early, Middle, Masking, Cleared
<1>21. CASE init_files
  BY <1>21, ApicsKept DEF init_files, Part, At, Goto, Stop, tables, local, ParsedSteps, Steps, Early, Middle, Masking, Cleared
<1>22. CASE init_keyboard
  BY <1>22, ApicsKept DEF init_keyboard, At, Goto, Stop, tables, local, ParsedSteps, Steps, Early, Middle, Masking, Cleared
<1>23. CASE Interrupt
  BY <1>23, ApicsKept DEF Interrupt, Fault, At, Goto, Stop, tables, local, ParsedSteps, Steps, Early, Middle, Masking, Cleared
<1> QED
  BY <1>1, <1>2, <1>3, <1>4, <1>5, <1>6, <1>7, <1>8, <1>9, <1>10, <1>11, <1>12, <1>13, <1>14, <1>15, <1>16, <1>17, <1>18, <1>19, <1>20, <1>21, <1>22, <1>23 DEF Next, kmain

-----------------------------------------------------------------------------
(* What init_apic closes.                                                   *)

\* The I/O APICs known to init_apic have the numbers of entries they have.
LEMMA KnownApic ==
    ASSUME BootTypes, ApicsInv, pc \in ParsedSteps, \A a \in Addresses : fw.pages[a] = a,
           NEW id \in DOMAIN system_ioapics
    PROVE  \E e \in ToSet(Entries) :
             /\ e.type = "io_apic" /\ e.id = id /\ id \in Nat /\ system_ioapics[id].base = e.base
             /\ system_ioapics[id].max = fw.last[id] /\ fw.last[id] \in Nat
<1>1. FromEntry(id) /\ madt \in DOMAIN fw.madt /\ fw \in Firmware
  BY DEF ApicsInv, BootTypes
<1>2. PICK e \in ToSet(Entries) :
        /\ e.type = "io_apic" /\ e.id = id
        /\ system_ioapics[id].address = e.address /\ system_ioapics[id].base = e.base
        /\ fw.pages[e.address] = e.address => system_ioapics[id].max = fw.last[id]
  BY <1>1 DEF FromEntry
<1>3. e.address \in Addresses
  BY <1>2 DEF Addresses
<1>4. Entries \in Seq(MadtEntry(DOMAIN fw.last, DOMAIN fw.pages))
  BY <1>1, FirmwareFacts DEF Entries
<1>5. e \in MadtEntry(DOMAIN fw.last, DOMAIN fw.pages)
  BY <1>4 DEF ToSet
<1>6. e.id \in DOMAIN fw.last
  BY <1>2, <1>5 DEF MadtEntry
<1>7. e.id \in Nat /\ fw.last[e.id] \in Nat
  BY <1>1, <1>6, FirmwareFacts
<1> QED
  BY <1>2, <1>3, <1>7

\* A line that the I/O APIC of its id counts is handled by that one alone.
LEMMA HandledByOne ==
    ASSUME BootTypes, ApicsInv, pc \in ParsedSteps, \A a \in Addresses : fw.pages[a] = a,
           Apart(fw), NEW id \in DOMAIN system_ioapics, NEW irq \in Irq, Handles(id, irq)
    PROVE  id \in get_ioapic_by_irq(irq)
<1>1. madt \in DOMAIN fw.madt
  BY DEF ApicsInv
<1>2. PICK e \in ToSet(Entries) :
        /\ e.type = "io_apic" /\ e.id = id /\ id \in Nat /\ system_ioapics[id].base = e.base
        /\ system_ioapics[id].max = fw.last[id]
  BY KnownApic
<1>3. ASSUME NEW k \in DOMAIN system_ioapics, k < id
      PROVE  ~ Handles(k, irq)
  <2>1. PICK d \in ToSet(Entries) :
          /\ d.type = "io_apic" /\ d.id = k /\ k \in Nat /\ system_ioapics[k].base = d.base
          /\ system_ioapics[k].max = fw.last[k]
    BY KnownApic
  <2>2. k # id
    BY <1>2, <1>3, <2>1
  <2>3. ~ (/\ d.base <= irq /\ irq - d.base < fw.last[d.id]
           /\ e.base <= irq /\ irq - e.base < fw.last[e.id])
    BY <1>1, <1>2, <2>1, <2>2 DEF Apart, Entries
  <2> QED
    BY <1>2, <2>1, <2>3 DEF Handles
<1> QED
  BY <1>3 DEF get_ioapic_by_irq

LEMMA LineClosed ==
    ASSUME BootTypes, ApicsInv, MaskInv, Apart(fw), clear_int_redirection_table,
           NEW line \in lines'
    PROVE  MaskedLine(line)
<1>1. /\ pc = "clear_int_redirection_table" /\ line \in lines
      /\ \A irq \in Irq : <<line[1], line[2]>> \notin apic_clear_irq(irq)
  BY DEF clear_int_redirection_table, At
<1>2. pc \in ParsedSteps /\ (\A a \in Addresses : fw.pages[a] = a) /\ line # Pic
  BY <1>1 DEF MaskInv, ParsedSteps
<1>3. line \in {Pic} \cup (Nat \X Irq \X (0..255))
  <2>1. fw \in Firmware /\ line \in fw.open
    BY <1>1 DEF BootTypes
  <2> QED
    BY <2>1, FirmwareFacts
<1>4. line[1] \in Nat /\ line[2] \in Irq /\ line[2] \in Nat
  BY <1>2, <1>3
<1>5. SUFFICES ASSUME line[1] \in DOMAIN system_ioapics, system_ioapics[line[1]].base = 0,
                      ~ (line[2] >= system_ioapics[line[1]].max)
               PROVE  FALSE
  BY DEF MaskedLine
<1> DEFINE id == line[1]
           irq == line[2]
<1>6. <<id, irq>> \notin {<<k, irq>> : k \in get_ioapic_by_irq(irq)}
  BY <1>1, <1>4 DEF apic_clear_irq
<1>7. id \notin get_ioapic_by_irq(irq)
  BY <1>6
<1>8. ~ Handles(id, irq)
  BY <1>2, <1>4, <1>5, <1>7, HandledByOne
<1>9. system_ioapics[id].max \in Nat
  BY <1>2, <1>5, KnownApic
<1>10. \A n, m \in Nat : 0 <= n /\ (~ (n >= m) => n - 0 < m)
  OBVIOUS
<1>11. 0 <= irq /\ irq - 0 < system_ioapics[id].max
  BY <1>4, <1>5, <1>9, <1>10
<1> QED
  BY <1>5, <1>8, <1>11 DEF Handles

LEMMA MaskKept ==
    ASSUME MaskInv, UNCHANGED <<fw, lapic_address, system_ioapics>>, lines' \subseteq lines,
           pc' = "lapic_address" => Pic \notin lines',
           pc' \in {"check_apic_addresses"} => pc \in {"lapic_address", "check_apic_addresses"},
           pc' \in {"clear_int_redirection_table"} \cup Cleared =>
              pc \in {"clear_int_redirection_table"} \cup Cleared,
           pc' \in Cleared => pc \in Cleared
    PROVE  MaskInv'
<1>1. Addresses' = Addresses
  BY DEF Addresses
<1>2. ASSUME NEW line \in lines', pc' \in Cleared
      PROVE  MaskedLine(line)'
  BY <1>2 DEF MaskInv, MaskedLine
<1> QED
  BY <1>1, <1>2 DEF MaskInv

LEMMA MaskStep ==
    ASSUME BootTypes, ApicsInv, MaskInv, Apart(fw), Next
    PROVE  MaskInv'
<1>1. CASE check_boot_param
  BY <1>1 DEF check_boot_param, At, Goto, Stop, MaskInv, tables, local, Cleared
<1>2. CASE init_tty
  BY <1>2 DEF init_tty, At, Goto, Stop, MaskInv, tables, local, Cleared
<1>3. CASE setup_gdt
  BY <1>3 DEF setup_gdt, At, Goto, Stop, MaskInv, tables, local, Cleared
<1>4. CASE setup_interrupts
  BY <1>4 DEF setup_interrupts, At, Goto, Stop, MaskInv, tables, local, Cleared
<1>5. CASE setup_gsi_map
  BY <1>5 DEF setup_gsi_map, At, Goto, Stop, MaskInv, tables, local, Cleared
<1>6. CASE init_mm
  BY <1>6 DEF init_mm, Part, At, Goto, Stop, MaskInv, tables, local, Cleared
<1>7. CASE init_acpi
  BY <1>7 DEF init_acpi, At, Goto, Stop, MaskInv, tables, local, Cleared
<1>8. CASE save_lapic_info
  BY <1>8 DEF save_lapic_info, OnEntry, At, Goto, Stop, MaskInv, tables, local, Cleared
<1>9. CASE save_ioapic_info
  BY <1>9 DEF save_ioapic_info, OnEntry, At, Goto, Stop, MaskInv, tables, local, Cleared
<1>10. CASE irq_override
  BY <1>10 DEF irq_override, OnEntry, At, Goto, Stop, MaskInv, tables, local, Cleared
<1>11. CASE lapic_addr_override
  BY <1>11 DEF lapic_addr_override, OnEntry, At, Goto, Stop, MaskInv, tables, local, Cleared
<1>12. CASE other_entry
  BY <1>12 DEF other_entry, OnEntry, At, Goto, Stop, MaskInv, tables, local, Cleared
<1>13. CASE acpi_parse_madt_end
  BY <1>13 DEF acpi_parse_madt_end, At, Goto, Stop, MaskInv, tables, local, Cleared
<1>14. CASE disable_pic
  BY <1>14, MaskKept DEF disable_pic, At, Goto, Stop, tables, local, Cleared
<1>15. CASE set_lapic_address
  <2>1. pc = "lapic_address" /\ pc' = "check_apic_addresses" /\ lines' = lines
    BY <1>15 DEF set_lapic_address, At, Goto
  <2> QED
    BY <2>1 DEF MaskInv, Cleared
<1>16. CASE check_apic_addresses
  <2>1. /\ pc = "check_apic_addresses" /\ lines' = lines
        /\ UNCHANGED <<fw, lapic_address, system_ioapics>>
    BY <1>16 DEF check_apic_addresses, At, tables, local
  <2>2. CASE pc' = pc
    BY <2>1, <2>2, MaskKept DEF Cleared
  <2>3. CASE pc' # pc
    <3>1. (\A a \in Addresses : fw.pages[a] = a) /\ pc' = "clear_int_redirection_table"
      BY <1>16, <2>3 DEF check_apic_addresses, Goto, Stop
    <3>2. Addresses' = Addresses
      BY <2>1 DEF Addresses
    <3> QED
      BY <2>1, <3>1, <3>2 DEF MaskInv, Cleared
  <2> QED
    BY <2>2, <2>3
<1>17. CASE clear_int_redirection_table
  <2>1. /\ pc = "clear_int_redirection_table" /\ pc' = "lapic_set_lvt_entry" /\ lines' \subseteq lines
        /\ UNCHANGED <<fw, lapic_address, system_ioapics>>
    BY <1>17 DEF clear_int_redirection_table, At, Goto, tables, local
  <2>2. Addresses' = Addresses
    BY <2>1 DEF Addresses
  <2>3. ASSUME NEW line \in lines'
        PROVE  MaskedLine(line)'
    <3>1. MaskedLine(line)
      BY <1>17, LineClosed
    <3> QED
      BY <2>1, <3>1 DEF MaskedLine
  <2> QED
    BY <2>1, <2>2, <2>3 DEF MaskInv
<1>18. CASE lapic_set_lvt_entry
  BY <1>18, MaskKept DEF lapic_set_lvt_entry, At, Goto, Stop, tables, local, Cleared
<1>19. CASE init_pit
  BY <1>19, MaskKept DEF init_pit, At, Goto, Stop, tables, local, Cleared
<1>20. CASE init_pci
  BY <1>20, MaskKept DEF init_pci, Part, At, Goto, Stop, tables, local, Cleared
<1>21. CASE init_files
  BY <1>21, MaskKept DEF init_files, Part, At, Goto, Stop, tables, local, Cleared
<1>22. CASE init_keyboard
  BY <1>22, MaskKept DEF init_keyboard, At, Goto, Stop, tables, local, Cleared
<1>23. CASE Interrupt
  <2>1. UNCHANGED <<fw, pc, lines, lapic_address, system_ioapics>>
    BY <1>23 DEF Interrupt, Fault, tables, local
  <2>2. pc' = "lapic_address" => Pic \notin lines'
    BY <2>1 DEF MaskInv
  <2> QED
    BY <2>1, <2>2, MaskKept
<1> QED
  BY <1>1, <1>2, <1>3, <1>4, <1>5, <1>6, <1>7, <1>8, <1>9, <1>10, <1>11, <1>12, <1>13, <1>14, <1>15, <1>16, <1>17, <1>18, <1>19, <1>20, <1>21, <1>22, <1>23 DEF Next, kmain

-----------------------------------------------------------------------------
(* The timer of the local APIC.                                            *)

LEMMA TimerKept ==
    ASSUME TimerInv, UNCHANGED <<fw, lvt, lapic_flags>>,
           UNCHANGED lapic_address \/ pc \in NotYet,
           pc' \in NotYet => pc \in NotYet,
           pc' \in Cleared \ {"lapic_set_lvt_entry"} =>
              pc \in Cleared \ {"lapic_set_lvt_entry"}
    PROVE  TimerInv'
  BY DEF TimerInv

LEMMA TimerStep ==
    ASSUME BootTypes, TimerInv, Next
    PROVE  TimerInv'
<1>1. CASE check_boot_param
  BY <1>1, TimerKept DEF check_boot_param, At, Goto, Stop, tables, local,
      NotYet, Cleared, Early, Middle
<1>2. CASE init_tty
  BY <1>2, TimerKept DEF init_tty, At, Goto, Stop, tables, local,
      NotYet, Cleared, Early, Middle
<1>3. CASE setup_gdt
  BY <1>3, TimerKept DEF setup_gdt, At, Goto, Stop, tables, local,
      NotYet, Cleared, Early, Middle
<1>4. CASE setup_interrupts
  BY <1>4, TimerKept DEF setup_interrupts, At, Goto, Stop, tables, local,
      NotYet, Cleared, Early, Middle
<1>5. CASE setup_gsi_map
  BY <1>5, TimerKept DEF setup_gsi_map, At, Goto, Stop, tables, local,
      NotYet, Cleared, Early, Middle
<1>6. CASE init_mm
  BY <1>6, TimerKept DEF init_mm, Part, At, Goto, Stop, tables, local,
      NotYet, Cleared, Early, Middle
<1>7. CASE init_acpi
  BY <1>7, TimerKept DEF init_acpi, At, Goto, Stop, tables, local,
      NotYet, Cleared, Early, Middle
<1>8. CASE save_lapic_info
  BY <1>8, TimerKept DEF save_lapic_info, OnEntry, At, Goto, Stop, tables, local,
      NotYet, Cleared, Early, Middle
<1>9. CASE save_ioapic_info
  BY <1>9, TimerKept DEF save_ioapic_info, OnEntry, At, Goto, Stop, tables, local,
      NotYet, Cleared, Early, Middle
<1>10. CASE irq_override
  BY <1>10, TimerKept DEF irq_override, OnEntry, At, Goto, Stop, tables, local,
      NotYet, Cleared, Early, Middle
<1>11. CASE lapic_addr_override
  BY <1>11, TimerKept DEF lapic_addr_override, OnEntry, At, Goto, Stop, tables, local,
      NotYet, Cleared, Early, Middle
<1>12. CASE other_entry
  BY <1>12, TimerKept DEF other_entry, OnEntry, At, Goto, Stop, tables, local,
      NotYet, Cleared, Early, Middle
<1>13. CASE acpi_parse_madt_end
  BY <1>13, TimerKept DEF acpi_parse_madt_end, At, Goto, Stop, tables, local,
      NotYet, Cleared, Early, Middle
<1>14. CASE disable_pic
  BY <1>14, TimerKept DEF disable_pic, At, Goto, Stop, tables, local,
      NotYet, Cleared, Early, Middle
<1>15. CASE set_lapic_address
  <2>1. /\ pc' = "check_apic_addresses" /\ fw' = fw
        /\ lapic_address' = IF lapic_address # null THEN lapic_address
                            ELSE IF fw.msr.page # null THEN fw.msr.page ELSE "default"
        /\ lapic_flags' = (lapic_address = null /\ fw.msr.flags)
    BY <1>15 DEF set_lapic_address, Goto
  <2>2. fw.msr.page = "null" => ~fw.msr.flags
    BY FirmwareFacts DEF BootTypes
  <2>3. lapic_flags' => lapic_address' = fw.msr.page
    BY <2>1, <2>2 DEF null
  <2> QED
    BY <2>1, <2>3 DEF TimerInv, NotYet, Cleared, Early, Middle
<1>16. CASE check_apic_addresses
  BY <1>16, TimerKept DEF check_apic_addresses, At, Goto, Stop, tables, local,
      NotYet, Cleared, Early, Middle
<1>17. CASE clear_int_redirection_table
  BY <1>17, TimerKept DEF clear_int_redirection_table, At, Goto, Stop, tables, local,
      NotYet, Cleared, Early, Middle
<1>18. CASE lapic_set_lvt_entry
  <2>1. /\ pc = "lapic_set_lvt_entry" /\ pc' = "init_pit"
        /\ UNCHANGED <<fw, lapic_flags, lapic_address>>
    BY <1>18 DEF lapic_set_lvt_entry, At, Goto, tables
  <2>2. lvt'["timer"].masked \/ lapic_flags
    BY <1>18 DEF lapic_set_lvt_entry, BootTypes
  <2>3. lapic_flags' => lapic_address' = fw'.msr.page
    BY <2>1 DEF TimerInv
  <2> QED
    BY <2>1, <2>2, <2>3 DEF TimerInv, NotYet, Cleared, Early, Middle
<1>19. CASE init_pit
  BY <1>19, TimerKept DEF init_pit, At, Goto, Stop, tables, local,
      NotYet, Cleared, Early, Middle
<1>20. CASE init_pci
  BY <1>20, TimerKept DEF init_pci, Part, At, Goto, Stop, tables, local,
      NotYet, Cleared, Early, Middle
<1>21. CASE init_files
  BY <1>21, TimerKept DEF init_files, Part, At, Goto, Stop, tables, local,
      NotYet, Cleared, Early, Middle
<1>22. CASE init_keyboard
  BY <1>22, TimerKept DEF init_keyboard, At, Goto, Stop, tables, local,
      NotYet, Cleared, Early, Middle
<1>23. CASE Interrupt
  BY <1>23, TimerKept DEF Interrupt, Fault, At, Goto, Stop, tables, local,
      NotYet, Cleared, Early, Middle
<1> QED
  BY <1>1, <1>2, <1>3, <1>4, <1>5, <1>6, <1>7, <1>8, <1>9, <1>10, <1>11, <1>12, <1>13, <1>14, <1>15, <1>16, <1>17, <1>18, <1>19, <1>20, <1>21, <1>22, <1>23
  DEF Next, kmain

-----------------------------------------------------------------------------
(* The invariants of the specification.                                    *)

LEMMA InitMeetsBootInv ==
    ASSUME Init
    PROVE  BootInv /\ MaskInv /\ TimerInv
<1>1. fw \in Firmware
  BY DEF Init
<1>2. DOMAIN fw.lvt = {"timer", "lint0", "lint1"}
  BY <1>1, FirmwareFacts
<1>3. <<>> \in Seq(Nat) /\ Len(<<>>) = 0 /\ Processors \in Nat /\ 0 <= Processors
  OBVIOUS
<1>4. [irq \in Irq |-> 0] \in [Irq -> Nat]
  OBVIOUS
<1>5. BootTypes
  <2>1. interrupts \in BOOLEAN /\ gdt \in BOOLEAN
    BY DEF Init
  <2>2. system_lapics \in Seq(Nat) /\ Len(system_lapics) <= Processors
    BY <1>3 DEF Init
  <2>3. /\ pc \in Steps /\ next \in Nat \ {0} /\ lines \subseteq fw.open
        /\ DOMAIN lvt = {"timer", "lint0", "lint1"} /\ gsi_map \in [Irq -> Nat]
    BY <1>2, <1>4 DEF Init, Steps, Early
  <2> QED
    BY <1>1, <2>1, <2>2, <2>3 DEF Init, BootTypes
<1>6. GatesInv /\ StopInv
  BY DEF Init, GatesInv, StopInv, Early
<1>7. DOMAIN system_ioapics = {}
  BY DEF Init
<1>8. ApicsInv
  BY <1>7 DEF Init, ApicsInv, ParsedSteps, Masking, Cleared
<1>9. MaskInv
  BY DEF Init, MaskInv, Cleared
<1>10. TimerInv
  BY DEF Init, TimerInv, Cleared
<1> QED
  BY <1>5, <1>6, <1>8, <1>9, <1>10 DEF BootInv

LEMMA BootInvStutters ==
    ASSUME BootInv, UNCHANGED bootVars
    PROVE  BootInv'
  BY DEF BootInv, BootTypes, GatesInv, StopInv, ApicsInv, FromEntry, Entries, bootVars, cpu, tables, local

LEMMA MaskInvStutters ==
    ASSUME MaskInv, UNCHANGED bootVars
    PROVE  MaskInv'
  BY DEF MaskInv, MaskedLine, Addresses, bootVars, cpu, tables, local

LEMMA TimerInvStutters ==
    ASSUME TimerInv, UNCHANGED bootVars
    PROVE  TimerInv'
  BY DEF TimerInv, bootVars, local, tables

(***************************************************************************)
(* Where kmain is decides which gates are loaded, by what it can have been *)
(* stopped, and which I/O APICs it knows.                                  *)
(***************************************************************************)
THEOREM SpecBootInv == Spec => []BootInv
<1>1. Init => BootInv
  BY InitMeetsBootInv
<1>2. BootInv /\ [Next]_bootVars => BootInv'
  <2>1. CASE Next
    BY <2>1, TypesStep, GatesStep, StopStep, ApicsStep DEF BootInv
  <2>2. CASE UNCHANGED bootVars
    BY <2>2, BootInvStutters
  <2> QED
    BY <2>1, <2>2
<1> QED
  BY <1>1, <1>2, PTL DEF Spec

(***************************************************************************)
(* A fault or an interrupt resets the processor only without a font, or    *)
(* between setup_gdt and setup_interrupts with a line left open, whatever  *)
(* the firmware says; and once there are gates, an interrupt stops the     *)
(* kernel only over an open line (kmain, setup_interrupts, init_tty).      *)
(***************************************************************************)
THEOREM FaultsReported == Spec => []FaultsAreReported
<1>1. BootInv => FaultsAreReported
  <2>1. SUFFICES ASSUME BootInv
                 PROVE  FaultsAreReported
    OBVIOUS
  <2>2. gates \subseteq isrs
    BY <2>1 DEF BootInv, GatesInv, GatesOf
  <2>3. TypeOK
    BY <2>1, <2>2, StepNames DEF BootInv, BootTypes, TypeOK
  <2> QED
    BY <2>1, <2>3 DEF BootInv, StopInv, FaultsAreReported
<1> QED
  BY <1>1, SpecBootInv, PTL

(***************************************************************************)
(* Where the I/O APICs of a MADT have no line in common, nothing that the  *)
(* firmware left open comes through behind clear_int_redirection_table,    *)
(* but for the lines its numbering misses: the last of an I/O APIC, and    *)
(* all of one that does not start at line 0 or that the MADT does not name *)
(* (init_apic, apic_clear_irq, get_ioapic_by_irq).  Behind the writes to   *)
(* the local interrupts the timer is masked, unless the address they went  *)
(* to is that of the MSR with its flags.                                   *)
(***************************************************************************)
THEOREM LinesAreMasked ==
    ASSUME \A f \in Firmware : Apart(f)
    PROVE  Spec => []LinesMasked
<1>1. Init => BootInv /\ MaskInv /\ TimerInv
  BY InitMeetsBootInv
<1>2. BootInv /\ MaskInv /\ [Next]_bootVars => MaskInv'
  <2>1. CASE Next
    <3>1. SUFFICES ASSUME BootInv, MaskInv
                   PROVE  MaskInv'
      BY <2>1, MaskInvStutters
    <3>2. Apart(fw)
      BY <3>1 DEF BootInv, BootTypes
    <3> QED
      BY <2>1, <3>1, <3>2, MaskStep DEF BootInv
  <2>2. CASE UNCHANGED bootVars
    BY <2>2, MaskInvStutters
  <2> QED
    BY <2>1, <2>2
<1>3. BootInv /\ TimerInv /\ [Next]_bootVars => TimerInv'
  BY TimerStep, TimerInvStutters DEF BootInv
<1>4. MaskInv /\ TimerInv => LinesMasked
  <2> SUFFICES ASSUME MaskInv, TimerInv
               PROVE  LinesMasked
    OBVIOUS
  <2>1. ASSUME Past("clear_int_redirection_table"), NEW line \in lines
        PROVE  line # Pic /\ MaskedLine(line)
    <3>1. pc \in Cleared
      BY <2>1, StepNames
    <3> QED
      BY <2>1, <3>1 DEF MaskInv
  <2>2. ASSUME Past("lapic_set_lvt_entry")
        PROVE  lvt["timer"].masked \/ (lapic_flags /\ lapic_address = fw.msr.page)
    <3>1. pc \in Cleared \ {"lapic_set_lvt_entry"}
      BY <2>2, StepNames
    <3> QED
      BY <3>1 DEF TimerInv
  <2> QED
    BY <2>1, <2>2 DEF LinesMasked, MaskedLine
<1> QED
  BY <1>1, <1>2, <1>3, <1>4, SpecBootInv, PTL DEF Spec
-----------------------------------------------------------------------------
(* The scan of the buses.  That nothing is met twice rests on ScanOnce: the *)
(* calls in progress are of different buses, a bus that is being scanned    *)
(* was not scanned before, and what was met on it lies before its place.    *)
(* The numbers the firmware gave the buses, each its own, carry it over a   *)
(* bridge and from an entry of MCFG to the next.  That nothing is missed    *)
(* rests on Complete and Ordered, further down.                             *)

HIDE BootAssumption
USE PciAssumption

Node == [id : Nat, devs : Seq(DOMAIN space),
         bridges : Seq([bridge : DOMAIN space, secondary : Nat])]
CallOf == [base : Nat, bus : Nat, dev : 0 .. Devices, fnc : 0 .. Functions - 1]

PciTypes ==
    /\ machine \in Machines
    /\ phase \in {"init_pci", "entries", "scan", "done", "panic"}
    /\ i \in 1 .. Len(machine.entries) + 1
    /\ stack \in Seq(CallOf)
    /\ buses \in Seq(Node)
    /\ ret \in BOOLEAN
    /\ inited \in Seq(DOMAIN space)
    /\ phase = "scan" => stack # <<>>
    /\ phase \in {"init_pci", "entries", "done"} => stack = <<>>
    /\ phase \in {"scan", "entries"} => buses # <<>>
    /\ phase = "scan" => i <= Len(machine.entries)
    /\ phase = "init_pci" => i = 1 /\ inited = <<>> /\ left = {} /\ buses = <<>>

BusOf(f) == <<f[1], f[2]>>
BusOfCall(frame) == <<frame.base, frame.bus>>

\* The functions the scan has dealt with.
BridgesInTree == UNION {BridgesOf(n) : n \in DOMAIN buses}
Visited == InTree \cup ToSet(inited)

\* The buses whose scan has begun.
Opened ==
    {<<machine.entries[j].base, machine.entries[j].start_bus>> :
        j \in {k \in DOMAIN machine.entries : k < i \/ (k = i /\ phase # "entries")}}
      \cup {<<f[1], space[f].secondary>> : f \in BridgesInTree}

\* A function lies before the place of a frame.
Passed(f, frame) == f[3] < frame.dev \/ (f[3] = frame.dev /\ f[4] < frame.fnc)

\* A bus is scanned once: what was visited was on a bus whose scan has begun,
\* and lies before its place if the scan goes on.
ScanOnce ==
    /\ \A f \in Visited : BusOf(f) \in Opened
    /\ \A k \in DOMAIN stack : BusOfCall(stack[k]) \in Opened \ left
    /\ \A j, k \in DOMAIN stack : j # k => BusOfCall(stack[j]) # BusOfCall(stack[k])
    /\ \A k \in DOMAIN stack : \A f \in Visited :
          BusOf(f) = BusOfCall(stack[k]) => Passed(f, stack[k])
    /\ left \subseteq Opened

\* The tree, with a bound on the numbers of the nodes behind bridges: what is
\* in a node, where its bridges lead, and that nothing is in two places.
Nodes ==
    \A n \in DOMAIN buses :
        /\ \A f \in DevsOf(n) \cup BridgesOf(n) : f[2] = buses[n].id
        /\ IsInjective(buses[n].devs)

Leading(tree, functions, n, k) ==
    LET b == tree[n].bridges[k] IN
      /\ functions[b.bridge].type = "pci_to_pci_bridge"
      /\ b.secondary \in n + 1 .. Len(tree)
      /\ tree[b.secondary].id = functions[b.bridge].secondary

Links ==
    \A n \in DOMAIN buses : \A k \in DOMAIN buses[n].bridges : Leading(buses, space, n, k)

Separate ==
    \A n, m \in DOMAIN buses :
        /\ n # m => DevsOf(n) \cap DevsOf(m) = {}
        /\ \A k \in DOMAIN buses[n].bridges, j \in DOMAIN buses[m].bridges :
             n # m \/ k # j =>
               /\ buses[n].bridges[k].secondary # buses[m].bridges[j].secondary
               /\ buses[n].bridges[k].bridge # buses[m].bridges[j].bridge

Tree == Nodes /\ Links /\ Separate

\* The functions given to drivers.
Drivers ==
    /\ IsInjective(inited)
    /\ \A n \in DOMAIN buses : DevsOf(n) \subseteq ToSet(inited)
    /\ \A f \in ToSet(inited) \ InTree :
         /\ BusOf(f) \in left
         /\ \A g \in InTree : ~ Before(f, g)

PciInv == PciTypes /\ ScanOnce /\ Tree /\ Drivers

-----------------------------------------------------------------------------
(* The descent of pci_tree_get_bus_by_id.                                  *)

Round(S, id) == UNION {Descend(n, id) : n \in S}
AreRounds(g, m, id) ==
    g = [k \in 0 .. m |-> IF k = 0 THEN {pci_tree_root} ELSE Round(g[k - 1], id)]

LEMMA RoundsExist ==
    ASSUME NEW id, NEW L \in Nat
    PROVE  \E g : AreRounds(g, L, id)
<1> DEFINE Bad == {m \in Nat : ~ \E g : AreRounds(g, m, id)}
<1>1. SUFFICES ASSUME Bad # {}
               PROVE  FALSE
  OBVIOUS
<1>2. PICK m \in Bad : \A y \in Bad : m <= y
  <2>1. Bad \in SUBSET Nat
    OBVIOUS
  <2> HIDE DEF Bad
  <2> QED
    BY <1>1, <2>1, MinOfNats
<1>3. CASE m = 0
  <2> DEFINE g == [k \in 0 .. 0 |-> {pci_tree_root}]
  <2>1. AreRounds(g, 0, id)
    BY DEF AreRounds
  <2> QED
    BY <1>3, <2>1
<1>4. CASE m # 0
  <2>1. m \in Nat /\ m - 1 \in Nat /\ m - 1 < m
    BY <1>4
  <2>2. m - 1 \notin Bad
    <3>1. ~ (m <= m - 1)
      BY <2>1
    <3> HIDE DEF Bad
    <3> QED
      BY <1>2, <3>1, Zenon
  <2>3. PICK g : AreRounds(g, m - 1, id)
    BY <2>1, <2>2
  <2> DEFINE h == [k \in 0 .. m |-> IF k = m THEN Round(g[m - 1], id) ELSE g[k]]
             r == [k \in 0 .. m |-> IF k = 0 THEN {pci_tree_root} ELSE Round(h[k - 1], id)]
  <2>4. ASSUME NEW k \in 0 .. m
        PROVE  h[k] = r[k]
    <3>1. CASE k = m
      BY <2>1, <3>1
    <3>2. CASE k # m
      <4>1. k \in 0 .. m - 1 /\ h[k] = g[k]
        BY <2>1, <3>2
      <4>2. g[k] = IF k = 0 THEN {pci_tree_root} ELSE Round(g[k - 1], id)
        BY <2>3, <4>1 DEF AreRounds
      <4>3. k # 0 => k - 1 \in 0 .. m /\ k - 1 # m /\ h[k - 1] = g[k - 1]
        BY <2>1, <4>1
      <4> QED
        BY <4>1, <4>2, <4>3
    <3> QED
      BY <3>1, <3>2
  <2>5. h = r
    BY <2>4
  <2>6. AreRounds(h, m, id)
    BY <2>5 DEF AreRounds
  <2> QED
    BY <2>6
<1> QED
  BY <1>3, <1>4

LEMMA LookupIsRounds ==
    ASSUME NEW id, buses \in Seq(Node)
    PROVE  \E g : AreRounds(g, Len(buses), id) /\ pci_tree_get_bus_by_id(id) = g[Len(buses)]
<1>1. Len(buses) \in Nat
  OBVIOUS
<1>2. \E g : AreRounds(g, Len(buses), id)
  BY <1>1, RoundsExist
<1> DEFINE G == CHOOSE g : AreRounds(g, Len(buses), id)
<1>3. AreRounds(G, Len(buses), id)
  BY <1>2
<1>4. pci_tree_get_bus_by_id(id) = G[Len(buses)]
  BY DEF pci_tree_get_bus_by_id, AreRounds, Round
<1> QED
  BY <1>3, <1>4

\* Every round gets further from the root, so that the last one is at the node.
LEMMA LookupFindsTheBus ==
    ASSUME PciTypes, Tree, buses # <<>>, NEW id, NEW n \in pci_tree_get_bus_by_id(id)
    PROVE  n \in DOMAIN buses /\ buses[n].id = id /\ n \in Linked
<1> DEFINE L == Len(buses)
<1>1. L \in Nat \ {0} /\ DOMAIN buses = 1 .. L
  BY DEF PciTypes
<1>2. PICK g : AreRounds(g, L, id) /\ pci_tree_get_bus_by_id(id) = g[L]
  BY LookupIsRounds DEF PciTypes
<1> DEFINE Fit(x, k) == x \in DOMAIN buses /\ x \in Linked /\ (buses[x].id = id \/ k < x)
           Bad == {k \in 0 .. L : ~ \A x \in g[k] : Fit(x, k)}
<1>3. g[0] = {pci_tree_root} /\ \A k \in 1 .. L : g[k] = Round(g[k - 1], id)
  <2>1. g = [k \in 0 .. L |-> IF k = 0 THEN {pci_tree_root} ELSE Round(g[k - 1], id)]
    BY <1>2 DEF AreRounds
  <2>2. \A k \in 0 .. L : g[k] = IF k = 0 THEN {pci_tree_root} ELSE Round(g[k - 1], id)
    BY <2>1, Zenon
  <2>3. 0 \in 0 .. L /\ \A k \in 1 .. L : k \in 0 .. L /\ k # 0
    BY <1>1
  <2> QED
    BY <2>2, <2>3, Zenon
<1>4. \A x \in g[0] : Fit(x, 0)
  <2>1. pci_tree_root \in Linked
    BY DEF Linked
  <2> QED
    BY <1>1, <1>3, <2>1 DEF pci_tree_root
<1>5. ASSUME NEW k \in 1 .. L, \A x \in g[k - 1] : Fit(x, k - 1), NEW y \in g[k]
      PROVE  Fit(y, k)
  <2>1. PICK x \in g[k - 1] : y \in Descend(x, id)
    BY <1>3, <1>5 DEF Round
  <2>2. Fit(x, k - 1)
    BY <1>5
  <2>3. CASE buses[x].id = id
    BY <2>1, <2>2, <2>3 DEF Descend
  <2>4. CASE buses[x].id # id
    <3>1. k - 1 < x
      BY <2>2, <2>4
    <3>2. x # Null
      BY <1>1, <2>2 DEF Null
    <3>3. PICK j \in DOMAIN buses[x].bridges : y = buses[x].bridges[j].secondary
      BY <2>1, <2>4, <3>2 DEF Descend, Followed
    <3>4. y \in x + 1 .. L
      BY <2>2, <3>3 DEF Tree, Links, Leading
    <3>5. y \in Linked
      BY <2>2, <3>3 DEF Linked
    <3> QED
      BY <1>1, <2>2, <3>1, <3>4, <3>5
  <2> QED
    BY <2>3, <2>4
<1>6. Bad = {}
  <2>1. SUFFICES ASSUME Bad # {}
                 PROVE  FALSE
    OBVIOUS
  <2>2. PICK k \in Bad : \A y \in Bad : k <= y
    <3>1. Bad \in SUBSET Nat
      OBVIOUS
    <3> HIDE DEF Bad
    <3> QED
      BY <2>1, <3>1, MinOfNats
  <2>3. k # 0
    BY <1>4, <2>2
  <2>4. k \in 1 .. L /\ k - 1 \in 0 .. L /\ k - 1 < k
    BY <1>1, <2>2, <2>3
  <2>5. k - 1 \notin Bad
    BY <1>1, <2>2, <2>4
  <2>6. \A x \in g[k - 1] : Fit(x, k - 1)
    BY <2>4, <2>5
  <2>7. \A x \in g[k] : Fit(x, k)
    <3> HIDE DEF Fit
    <3> QED
      BY <1>5, <2>4, <2>6
  <2> QED
    BY <2>2, <2>7
<1>7. L \in 0 .. L
  BY <1>1
<1>8. Fit(n, L)
  BY <1>2, <1>6, <1>7
<1> QED
  BY <1>1, <1>8

-----------------------------------------------------------------------------
(* The stack of calls.                                                      *)

LEMMA Replaced ==
    ASSUME NEW S, NEW s \in Seq(S), s # <<>>, NEW x \in S
    PROVE  /\ <<x>> \o Tail(s) \in Seq(S) /\ <<x>> \o Tail(s) # <<>>
           /\ DOMAIN (<<x>> \o Tail(s)) = DOMAIN s
           /\ (<<x>> \o Tail(s))[1] = x
           /\ \A k \in DOMAIN s \ {1} : (<<x>> \o Tail(s))[k] = s[k]
<1>1. Tail(s) \in Seq(S) /\ Len(Tail(s)) = Len(s) - 1 /\ Len(s) \in Nat \ {0}
  OBVIOUS
<1>2. <<x>> \in Seq(S) /\ Len(<<x>>) = 1
  OBVIOUS
<1>3. <<x>> \o Tail(s) \in Seq(S) /\ Len(<<x>> \o Tail(s)) = Len(s)
  BY <1>1, <1>2
<1>4. DOMAIN (<<x>> \o Tail(s)) = DOMAIN s /\ <<x>> \o Tail(s) # <<>>
  BY <1>1, <1>3
<1>5. \A k \in DOMAIN s \ {1} : (<<x>> \o Tail(s))[k] = s[k]
  BY <1>1, <1>2
<1>6. (<<x>> \o Tail(s))[1] = x
  BY <1>1, <1>2
<1> QED
  BY <1>3, <1>4, <1>5, <1>6

LEMMA Popped ==
    ASSUME NEW S, NEW s \in Seq(S), s # <<>>
    PROVE  /\ Tail(s) \in Seq(S) /\ Len(Tail(s)) = Len(s) - 1
           /\ \A k \in DOMAIN Tail(s) : k + 1 \in DOMAIN s \ {1} /\ Tail(s)[k] = s[k + 1]
  OBVIOUS

LEMMA Pushed ==
    ASSUME NEW S, NEW s \in Seq(S), s # <<>>, NEW x \in S, NEW y \in S
    PROVE  /\ <<y, x>> \o Tail(s) \in Seq(S) /\ <<y, x>> \o Tail(s) # <<>>
           /\ Len(<<y, x>> \o Tail(s)) = Len(s) + 1
           /\ (<<y, x>> \o Tail(s))[1] = y /\ (<<y, x>> \o Tail(s))[2] = x
           /\ \A k \in 3 .. Len(s) + 1 : (<<y, x>> \o Tail(s))[k] = s[k - 1]
<1>1. Tail(s) \in Seq(S) /\ Len(Tail(s)) = Len(s) - 1 /\ Len(s) \in Nat \ {0}
  OBVIOUS
<1>2. <<y, x>> \in Seq(S) /\ Len(<<y, x>>) = 2 /\ <<y, x>>[1] = y /\ <<y, x>>[2] = x
  OBVIOUS
<1>3. <<y, x>> \o Tail(s) \in Seq(S) /\ Len(<<y, x>> \o Tail(s)) = Len(s) + 1
  BY <1>1, <1>2
<1>4. <<y, x>> \o Tail(s) # <<>>
  BY <1>1, <1>3
<1>5. (<<y, x>> \o Tail(s))[1] = y /\ (<<y, x>> \o Tail(s))[2] = x
  BY <1>1, <1>2
<1>6. \A k \in 3 .. Len(s) + 1 : (<<y, x>> \o Tail(s))[k] = s[k - 1]
  BY <1>1, <1>2
<1> QED
  BY <1>3, <1>4, <1>5, <1>6

LEMMA Appended ==
    ASSUME NEW S, NEW s \in Seq(S), NEW x \in S
    PROVE  /\ Append(s, x) \in Seq(S) /\ Len(Append(s, x)) = Len(s) + 1
           /\ \A k \in DOMAIN s : k \in DOMAIN Append(s, x) /\ Append(s, x)[k] = s[k]
           /\ Append(s, x)[Len(s) + 1] = x
           /\ DOMAIN Append(s, x) = DOMAIN s \cup {Len(s) + 1} /\ Len(s) + 1 \notin DOMAIN s
           /\ ToSet(Append(s, x)) = ToSet(s) \cup {x}
<1>1. /\ Append(s, x) \in Seq(S) /\ Len(Append(s, x)) = Len(s) + 1
      /\ \A k \in DOMAIN s : k \in DOMAIN Append(s, x) /\ Append(s, x)[k] = s[k]
      /\ Append(s, x)[Len(s) + 1] = x
      /\ DOMAIN Append(s, x) = DOMAIN s \cup {Len(s) + 1} /\ Len(s) + 1 \notin DOMAIN s
  OBVIOUS
<1>2. ToSet(Append(s, x)) = ToSet(s) \cup {x}
  <2> HIDE <1>1
  <2>1. ASSUME NEW y \in ToSet(Append(s, x))
        PROVE  y \in ToSet(s) \cup {x}
    BY <1>1, <2>1 DEF ToSet
  <2>2. ASSUME NEW y \in ToSet(s) \cup {x}
        PROVE  y \in ToSet(Append(s, x))
    BY <1>1, <2>2 DEF ToSet
  <2> QED
    BY <2>1, <2>2
<1> QED
  BY <1>1, <1>2

\* The functions of a machine, and those visited.
LEMMA FunctionFacts ==
    ASSUME PciTypes, NEW f \in DOMAIN space
    PROVE  /\ f = <<f[1], f[2], f[3], f[4]>>
           /\ f[1] \in Nat /\ f[2] \in Nat /\ f[3] \in 0 .. Devices - 1 /\ f[4] \in 0 .. Functions - 1
           /\ f[3] \in Nat /\ f[4] \in Nat
           /\ space[f].type = "pci_to_pci_bridge" =>
                space[f].secondary \in Nat /\ space[f].subordinate \in Nat
<1>1. machine \in Machines
  BY DEF PciTypes
<1>2. f \in Nat \X Nat \X (0 .. Devices - 1) \X (0 .. Functions - 1)
  BY <1>1 DEF space
<1>3. space[f].type = "pci_to_pci_bridge" =>
        space[f].secondary \in Nat /\ space[f].subordinate \in Nat
  BY <1>1 DEF space
<1> QED
  BY <1>2, <1>3

LEMMA ElementOf ==
    ASSUME NEW S, NEW s \in Seq(S), NEW k \in DOMAIN s
    PROVE  s[k] \in S
  OBVIOUS

LEMMA NodeFacts ==
    ASSUME PciTypes, NEW n \in DOMAIN buses
    PROVE  /\ buses[n] \in Node /\ buses[n].devs \in Seq(DOMAIN space)
           /\ buses[n].bridges \in Seq([bridge : DOMAIN space, secondary : Nat])
           /\ DevsOf(n) \subseteq DOMAIN space /\ BridgesOf(n) \subseteq DOMAIN space
<1>1. buses[n] \in Node
  BY DEF PciTypes
<1>2. /\ buses[n].devs \in Seq(DOMAIN space)
      /\ buses[n].bridges \in Seq([bridge : DOMAIN space, secondary : Nat])
  BY <1>1 DEF Node
<1>3. DevsOf(n) \subseteq DOMAIN space
  BY <1>2 DEF DevsOf, ToSet
<1>4. BridgesOf(n) \subseteq DOMAIN space
  <2>1. ASSUME NEW b \in ToSet(buses[n].bridges)
        PROVE  b.bridge \in DOMAIN space
    <3>1. PICK k \in DOMAIN buses[n].bridges : b = buses[n].bridges[k]
      BY DEF ToSet
    <3>2. b \in [bridge : DOMAIN space, secondary : Nat]
      BY <1>2, <3>1, ElementOf
    <3> QED
      BY <3>2
  <2> QED
    BY <2>1 DEF BridgesOf
<1> QED
  BY <1>1, <1>2, <1>3, <1>4

LEMMA VisitedInSpace ==
    ASSUME PciTypes
    PROVE  Visited \subseteq DOMAIN space
<1>1. ToSet(inited) \subseteq DOMAIN space
  BY DEF PciTypes, ToSet
<1>2. InTree \subseteq DOMAIN space
  BY NodeFacts DEF InTree
<1> QED
  BY <1>1, <1>2 DEF Visited

\* The function a scan is at has not been visited.
LEMMA FrameFacts ==
    ASSUME PciTypes, ScanOnce, Scanning
    PROVE  /\ stack \in Seq(CallOf) /\ stack # <<>> /\ 1 \in DOMAIN stack
           /\ Frame = stack[1] /\ Frame \in CallOf /\ Frame.dev < Devices
           /\ f0 \in DOMAIN space =>
                /\ BusOf(f0) = BusOfCall(Frame) /\ f0[3] = Frame.dev /\ f0[4] = Frame.fnc
                /\ f0 \notin Visited
<1>1. stack \in Seq(CallOf) /\ stack # <<>> /\ Frame.dev < Devices
  BY DEF PciTypes, Scanning
<1>2. 1 \in DOMAIN stack /\ Frame = stack[1] /\ Frame \in CallOf
  BY <1>1 DEF Frame
<1>3. BusOf(f0) = BusOfCall(Frame) /\ f0[3] = Frame.dev /\ f0[4] = Frame.fnc
  BY DEF f0, BusOf, BusOfCall
<1>4. Frame.dev \in Nat /\ Frame.fnc \in Nat
  BY <1>2 DEF CallOf
<1>5. ~ Passed(f0, Frame)
  BY <1>3, <1>4 DEF Passed
<1>6. f0 \notin Visited
  BY <1>2, <1>3, <1>5 DEF ScanOnce
<1> QED
  BY <1>1, <1>2, <1>3, <1>6

\* The next place is behind this one, on the same bus.
LEMMA NextPlace ==
    ASSUME PciTypes, ScanOnce, Scanning, NEW x \in {NextDevice(Frame), NextFunction(Frame)}
    PROVE  /\ x \in CallOf /\ BusOfCall(x) = BusOfCall(Frame)
           /\ \A f \in DOMAIN space : Passed(f, Frame) => Passed(f, x)
           /\ f0 \in DOMAIN space => Passed(f0, x)
<1>1. /\ Frame \in CallOf /\ Frame.dev < Devices
      /\ f0 \in DOMAIN space => f0[3] = Frame.dev /\ f0[4] = Frame.fnc
  BY FrameFacts
<1>2. Frame.dev \in 0 .. Devices /\ Frame.fnc \in 0 .. Functions - 1
  BY <1>1 DEF CallOf
<1>3. /\ DOMAIN Frame = {"base", "bus", "dev", "fnc"}
  BY <1>1 DEF CallOf
<1>4. /\ NextDevice(Frame) \in CallOf /\ NextDevice(Frame).base = Frame.base
      /\ NextDevice(Frame).bus = Frame.bus /\ NextDevice(Frame).dev = Frame.dev + 1
      /\ NextDevice(Frame).fnc = 0
  <2>1. NextDevice(Frame) = [Frame EXCEPT !.dev = Frame.dev + 1, !.fnc = 0]
    BY DEF NextDevice
  <2>2. Frame.dev + 1 \in 0 .. Devices /\ 0 \in 0 .. Functions - 1
    BY <1>1, <1>2
  <2> DEFINE There(d, e) == [Frame EXCEPT !.dev = d, !.fnc = e]
  <2>3. ASSUME NEW d \in 0 .. Devices, NEW e \in 0 .. Functions - 1
        PROVE  /\ There(d, e) \in CallOf /\ There(d, e).base = Frame.base /\ There(d, e).bus = Frame.bus
               /\ There(d, e).dev = d /\ There(d, e).fnc = e
    BY <1>1, <1>3 DEF CallOf
  <2>4. NextDevice(Frame) = There(Frame.dev + 1, 0)
    BY <2>1
  <2> HIDE DEF There
  <2> QED
    BY <2>2, <2>3, <2>4
<1>5. CASE x = NextDevice(Frame)
  <2>1. \A f \in DOMAIN space : Passed(f, Frame) => Passed(f, x)
    BY <1>2, <1>4, <1>5, FunctionFacts DEF Passed
  <2>2. f0 \in DOMAIN space => Passed(f0, x)
    BY <1>1, <1>2, <1>4, <1>5 DEF Passed
  <2> QED
    BY <1>4, <1>5, <2>1, <2>2 DEF BusOfCall
<1>6. CASE x # NextDevice(Frame)
  <2>1. x = [Frame EXCEPT !.fnc = @ + 1] /\ Frame.fnc + 1 # Functions
    BY <1>6 DEF NextFunction
  <2>2. /\ x \in CallOf /\ x.base = Frame.base /\ x.bus = Frame.bus /\ x.dev = Frame.dev
        /\ x.fnc = Frame.fnc + 1
    BY <1>1, <1>2, <1>3, <2>1 DEF CallOf
  <2>3. \A f \in DOMAIN space : Passed(f, Frame) => Passed(f, x)
    BY <1>2, <2>2, FunctionFacts DEF Passed
  <2>4. f0 \in DOMAIN space => Passed(f0, x)
    BY <1>1, <1>2, <2>2 DEF Passed
  <2> QED
    BY <2>2, <2>3, <2>4 DEF BusOfCall
<1> QED
  BY <1>5, <1>6

LEMMA OpenedGrows ==
    ASSUME PciTypes, UNCHANGED machine, BridgesInTree \subseteq BridgesInTree',
           (i' = i /\ phase' # "entries") \/ i' = i + 1
    PROVE  Opened \subseteq Opened'
<1>1. DOMAIN machine.entries \subseteq Nat /\ i \in Nat
  BY DEF PciTypes
<1>2. ASSUME NEW j \in DOMAIN machine.entries, j < i \/ (j = i /\ phase # "entries")
      PROVE  j < i' \/ (j = i' /\ phase' # "entries")
  BY <1>1, <1>2
<1> QED
  BY <1>2 DEF Opened, space

\* The calls that go on are the same, and further on; one may have ended.
LEMMA ScanOnceMoves ==
    ASSUME PciTypes, ScanOnce, UNCHANGED machine, NEW d \in {0, 1}, DOMAIN stack' \subseteq Nat \ {0},
           \A k \in DOMAIN stack' :
             /\ k + d \in DOMAIN stack /\ BusOfCall(stack'[k]) = BusOfCall(stack[k + d])
             /\ \A f \in DOMAIN space : Passed(f, stack[k + d]) => Passed(f, stack'[k]),
           Opened \subseteq Opened',
           left' = left \/ (d = 1 /\ 1 \in DOMAIN stack /\ left' = left \cup {BusOfCall(stack[1])}),
           \A f \in Visited' \ Visited :
             /\ 1 \in DOMAIN stack /\ BusOf(f) = BusOfCall(stack[1])
             /\ d = 0 => Passed(f, stack'[1])
    PROVE  ScanOnce'
<1>1. \A f \in Visited' : BusOf(f) \in Opened'
  BY DEF ScanOnce
<1>2. \A k \in DOMAIN stack' : BusOfCall(stack'[k]) \in Opened' \ left'
  <2>1. SUFFICES ASSUME NEW k \in DOMAIN stack'
                 PROVE  BusOfCall(stack'[k]) \in Opened' \ left'
    OBVIOUS
  <2>2. BusOfCall(stack'[k]) = BusOfCall(stack[k + d]) /\ k + d \in DOMAIN stack
    OBVIOUS
  <2>3. BusOfCall(stack'[k]) \in Opened' /\ BusOfCall(stack'[k]) \notin left
    BY <2>2 DEF ScanOnce
  <2>4. CASE d = 1
    <3>1. k + d # 1
      BY <2>4
    <3> QED
      BY <2>2, <2>3, <3>1 DEF ScanOnce
  <2> QED
    BY <2>3, <2>4
<1>3. \A j, k \in DOMAIN stack' : j # k => BusOfCall(stack'[j]) # BusOfCall(stack'[k])
  <2>1. ASSUME NEW j \in DOMAIN stack', NEW k \in DOMAIN stack', j # k
        PROVE  BusOfCall(stack'[j]) # BusOfCall(stack'[k])
    <3>1. j + d # k + d
      BY <2>1
    <3> QED
      BY <2>1, <3>1 DEF ScanOnce
  <2> QED
    BY <2>1
<1>4. \A k \in DOMAIN stack' : \A f \in Visited' :
          BusOf(f) = BusOfCall(stack'[k]) => Passed(f, stack'[k])
  <2>1. SUFFICES ASSUME NEW k \in DOMAIN stack', NEW f \in Visited', BusOf(f) = BusOfCall(stack'[k])
                 PROVE  Passed(f, stack'[k])
    OBVIOUS
  <2>2. k + d \in DOMAIN stack /\ BusOf(f) = BusOfCall(stack[k + d])
    BY <2>1
  <2>3. CASE f \in Visited
    <3>1. f \in DOMAIN space
      BY <2>3, VisitedInSpace
    <3> QED
      BY <2>2, <2>3, <3>1 DEF ScanOnce
  <2>4. CASE f \notin Visited
    <3>1. 1 \in DOMAIN stack /\ BusOf(f) = BusOfCall(stack[1]) /\ (d = 0 => Passed(f, stack'[1]))
      BY <2>4
    <3>2. k + d = 1
      BY <2>2, <3>1 DEF ScanOnce
    <3>3. DOMAIN stack \subseteq Nat \ {0}
      BY DEF PciTypes
    <3>4. k = 1 /\ d = 0
      <4>1. CASE d = 0
        BY <3>2, <4>1
      <4>2. CASE d = 1
        <5>1. k = 0 /\ 0 \in DOMAIN stack'
          BY <3>2, <4>2
        <5> QED
          BY <5>1
      <4> QED
        BY <4>1, <4>2
    <3> QED
      BY <3>1, <3>4
  <2> QED
    BY <2>3, <2>4
<1>5. left' \subseteq Opened'
  BY DEF ScanOnce
<1> QED
  BY <1>1, <1>2, <1>3, <1>4, <1>5 DEF ScanOnce, BusOfCall, BusOf, Passed

-----------------------------------------------------------------------------
(* The tree.                                                                *)

LEMMA NodeStays ==
    ASSUME UNCHANGED machine
    PROVE  Node' = Node
  BY DEF Node, space

\* The sets of a node follow its record.
LEMMA SetsOfNode ==
    ASSUME NEW n, buses'[n] = buses[n]
    PROVE  DevsOf(n)' = DevsOf(n) /\ BridgesOf(n)' = BridgesOf(n)
  BY DEF DevsOf, BridgesOf

\* A device is put at the end of the list of its node.
LEMMA DeviceInstalled ==
    ASSUME PciTypes, UNCHANGED machine, NEW n \in DOMAIN buses, NEW f \in DOMAIN space,
           buses' = pci_tree_install_device(f, n)
    PROVE  /\ buses' \in Seq(Node) /\ buses' # <<>> /\ DOMAIN buses' = DOMAIN buses
           /\ Len(buses') = Len(buses)
           /\ \A m \in DOMAIN buses \ {n} : buses'[m] = buses[m]
           /\ buses'[n].id = buses[n].id /\ buses'[n].bridges = buses[n].bridges
           /\ buses'[n].devs = Append(buses[n].devs, f)
<1> DEFINE new == [buses[n] EXCEPT !.devs = Append(@, f)]
<1>1. buses \in Seq(Node) /\ buses[n] \in Node
  BY NodeFacts DEF PciTypes
<1>2. Append(buses[n].devs, f) \in Seq(DOMAIN space)
  BY NodeFacts
<1>3. /\ new \in Node /\ new.id = buses[n].id /\ new.bridges = buses[n].bridges
      /\ new.devs = Append(buses[n].devs, f)
  BY <1>1, <1>2 DEF Node
<1>4. buses' = [buses EXCEPT ![n] = new]
  BY DEF pci_tree_install_device
<1> HIDE DEF new
<1>5. buses' \in Seq(Node) /\ Len(buses') = Len(buses) /\ DOMAIN buses' = DOMAIN buses
  BY <1>1, <1>3, <1>4
<1>6. buses'[n] = new /\ \A m \in DOMAIN buses \ {n} : buses'[m] = buses[m]
  BY <1>1, <1>4
<1>7. buses' # <<>>
  BY <1>5
<1> QED
  BY <1>3, <1>5, <1>6, <1>7

\* A bridge is put at the end of the list of its node, and its node is new.
LEMMA BusInstalled ==
    ASSUME PciTypes, UNCHANGED machine, NEW n \in DOMAIN buses, NEW f \in DOMAIN space,
           space[f].type = "pci_to_pci_bridge", buses' = pci_tree_install_bus(f, n)
    PROVE  /\ buses' \in Seq(Node) /\ buses' # <<>> /\ Len(buses') = Len(buses) + 1
           /\ \A m \in DOMAIN buses \ {n} : buses'[m] = buses[m]
           /\ buses'[n].id = buses[n].id /\ buses'[n].devs = buses[n].devs
           /\ buses'[n].bridges =
                 Append(buses[n].bridges, [bridge |-> f, secondary |-> Len(buses) + 1])
           /\ buses'[Len(buses) + 1] = pci_tree_create_bus(f)
<1> DEFINE link == [bridge |-> f, secondary |-> Len(buses) + 1]
           new == [buses[n] EXCEPT !.bridges = Append(@, link)]
           b == [buses EXCEPT ![n] = new]
<1>1. buses \in Seq(Node) /\ buses[n] \in Node /\ Len(buses) + 1 \in Nat
  BY NodeFacts DEF PciTypes
<1>2. Append(buses[n].bridges, link) \in Seq([bridge : DOMAIN space, secondary : Nat])
  <2>1. link \in [bridge : DOMAIN space, secondary : Nat]
    BY <1>1
  <2>2. buses[n].bridges \in Seq([bridge : DOMAIN space, secondary : Nat])
    BY NodeFacts
  <2> HIDE DEF link
  <2> QED
    BY <2>1, <2>2, Appended
<1>3. /\ new \in Node /\ new.id = buses[n].id /\ new.devs = buses[n].devs
      /\ new.bridges = Append(buses[n].bridges, link)
  <2> HIDE DEF link
  <2> QED
    BY <1>1, <1>2 DEF Node
<1>4. pci_tree_create_bus(f) \in Node
  <2>1. space[f].secondary \in Nat
    BY FunctionFacts
  <2> QED
    BY <2>1 DEF pci_tree_create_bus, Node
<1>5. buses' = b \o <<pci_tree_create_bus(f)>>
  BY DEF pci_tree_install_bus
<1> HIDE DEF new
<1>6. b \in Seq(Node) /\ Len(b) = Len(buses) /\ DOMAIN b = DOMAIN buses
  BY <1>1, <1>3
<1>7. b[n] = new /\ \A m \in DOMAIN buses \ {n} : b[m] = buses[m]
  BY <1>1
<1> HIDE DEF b
<1>8. /\ buses' \in Seq(Node) /\ Len(buses') = Len(buses) + 1
      /\ \A m \in DOMAIN buses : buses'[m] = b[m]
      /\ buses'[Len(buses) + 1] = pci_tree_create_bus(f)
  BY <1>1, <1>4, <1>5, <1>6
<1>9. buses' # <<>>
  BY <1>1, <1>8
<1> QED
  BY <1>3, <1>7, <1>8, <1>9

\* A node that no bridge leads to.
LEMMA NodeLost ==
    ASSUME PciTypes, UNCHANGED machine, NEW f \in DOMAIN space,
           space[f].type = "pci_to_pci_bridge", buses' = Append(buses, pci_tree_create_bus(f))
    PROVE  /\ buses' \in Seq(Node) /\ buses' # <<>> /\ Len(buses') = Len(buses) + 1
           /\ \A m \in DOMAIN buses : buses'[m] = buses[m]
           /\ buses'[Len(buses) + 1] = pci_tree_create_bus(f)
<1>1. buses \in Seq(Node)
  BY DEF PciTypes
<1>2. pci_tree_create_bus(f) \in Node
  <2>1. space[f].secondary \in Nat
    BY FunctionFacts
  <2> QED
    BY <2>1 DEF pci_tree_create_bus, Node
<1>3. /\ buses' \in Seq(Node) /\ Len(buses') = Len(buses) + 1
      /\ \A m \in DOMAIN buses : buses'[m] = buses[m]
      /\ buses'[Len(buses) + 1] = pci_tree_create_bus(f)
  BY <1>1, <1>2, Appended
<1>4. buses' # <<>>
  BY <1>1, <1>3
<1> QED
  BY <1>3, <1>4

LEMMA EmptyNode ==
    ASSUME NEW f, NEW n, buses'[n] = pci_tree_create_bus(f)
    PROVE  DevsOf(n)' = {} /\ BridgesOf(n)' = {} /\ buses'[n].devs = <<>> /\ buses'[n].bridges = <<>>
             /\ buses'[n].id = space[f].secondary
  BY DEF DevsOf, BridgesOf, pci_tree_create_bus, ToSet

\* What is in the tree after each of them.
LEMMA InTreeWithDevice ==
    ASSUME PciTypes, UNCHANGED machine, NEW n \in DOMAIN buses, NEW f \in DOMAIN space,
           buses' = pci_tree_install_device(f, n)
    PROVE  /\ \A m \in DOMAIN buses : BridgesOf(m)' = BridgesOf(m)
           /\ \A m \in DOMAIN buses \ {n} : DevsOf(m)' = DevsOf(m)
           /\ DevsOf(n)' = DevsOf(n) \cup {f}
           /\ InTree' = InTree \cup {f} /\ BridgesInTree' = BridgesInTree
<1>1. \A m \in DOMAIN buses \ {n} : DevsOf(m)' = DevsOf(m) /\ BridgesOf(m)' = BridgesOf(m)
  BY DeviceInstalled, SetsOfNode
<1>2. BridgesOf(n)' = BridgesOf(n)
  BY DeviceInstalled DEF BridgesOf
<1>3. DevsOf(n)' = DevsOf(n) \cup {f}
  <2>1. buses'[n].devs = Append(buses[n].devs, f)
    BY DeviceInstalled
  <2>2. buses[n].devs \in Seq(DOMAIN space)
    BY NodeFacts
  <2>3. ToSet(buses'[n].devs) = ToSet(buses[n].devs) \cup {f}
    BY <2>1, <2>2, Appended
  <2> QED
    BY <2>3 DEF DevsOf
<1>4. DOMAIN buses' = DOMAIN buses
  BY DeviceInstalled
<1>5. InTree' = InTree \cup {f}
  BY <1>1, <1>2, <1>3, <1>4 DEF InTree
<1>6. BridgesInTree' = BridgesInTree
  BY <1>1, <1>2, <1>4 DEF BridgesInTree
<1> QED
  BY <1>1, <1>2, <1>3, <1>5, <1>6

LEMMA InTreeWithBridge ==
    ASSUME PciTypes, UNCHANGED machine, NEW n \in DOMAIN buses, NEW f \in DOMAIN space,
           space[f].type = "pci_to_pci_bridge", buses' = pci_tree_install_bus(f, n),
           NEW L, L = Len(buses) + 1
    PROVE  /\ \A m \in DOMAIN buses : DevsOf(m)' = DevsOf(m)
           /\ \A m \in DOMAIN buses \ {n} : BridgesOf(m)' = BridgesOf(m)
           /\ BridgesOf(n)' = BridgesOf(n) \cup {f}
           /\ DevsOf(L)' = {} /\ BridgesOf(L)' = {}
           /\ DOMAIN buses' = DOMAIN buses \cup {L}
           /\ InTree' = InTree \cup {f} /\ BridgesInTree' = BridgesInTree \cup {f}
<1>1. \A m \in DOMAIN buses \ {n} : DevsOf(m)' = DevsOf(m) /\ BridgesOf(m)' = BridgesOf(m)
  BY BusInstalled, SetsOfNode
<1>2. DevsOf(n)' = DevsOf(n)
  BY BusInstalled DEF DevsOf
<1>3. BridgesOf(n)' = BridgesOf(n) \cup {f}
  <2> DEFINE link == [bridge |-> f, secondary |-> Len(buses) + 1]
             B == [bridge : DOMAIN space, secondary : Nat]
  <2>1. buses'[n].bridges = Append(buses[n].bridges, link)
    BY BusInstalled
  <2>2. buses[n].bridges \in Seq(B)
    BY NodeFacts
  <2>3. link \in B /\ link.bridge = f
    BY DEF PciTypes
  <2> HIDE DEF link, B
  <2>4. ToSet(buses'[n].bridges) = ToSet(buses[n].bridges) \cup {link}
    BY <2>1, <2>2, <2>3, Appended
  <2> QED
    BY <2>3, <2>4 DEF BridgesOf
<1>4. DevsOf(L)' = {} /\ BridgesOf(L)' = {}
  BY BusInstalled, EmptyNode
<1>5. DOMAIN buses' = DOMAIN buses \cup {L}
  <2>1. buses \in Seq(Node) /\ buses' \in Seq(Node) /\ Len(buses') = L
    BY BusInstalled DEF PciTypes
  <2>2. \A x, y : x \in Seq(Node) /\ y \in Seq(Node) /\ Len(y) = Len(x) + 1 =>
                    DOMAIN y = DOMAIN x \cup {Len(x) + 1}
    OBVIOUS
  <2> QED
    BY <2>1, <2>2
<1>6. InTree' = InTree \cup {f}
  BY <1>1, <1>2, <1>3, <1>4, <1>5 DEF InTree
<1>7. BridgesInTree' = BridgesInTree \cup {f}
  BY <1>1, <1>3, <1>4, <1>5 DEF BridgesInTree
<1> QED
  BY <1>1, <1>2, <1>3, <1>4, <1>5, <1>6, <1>7

LEMMA InTreeWithLost ==
    ASSUME PciTypes, UNCHANGED machine, NEW f \in DOMAIN space,
           space[f].type = "pci_to_pci_bridge", buses' = Append(buses, pci_tree_create_bus(f)),
           NEW L, L = Len(buses) + 1
    PROVE  /\ \A m \in DOMAIN buses : DevsOf(m)' = DevsOf(m) /\ BridgesOf(m)' = BridgesOf(m)
           /\ DevsOf(L)' = {} /\ BridgesOf(L)' = {}
           /\ DOMAIN buses' = DOMAIN buses \cup {L}
           /\ InTree' = InTree /\ BridgesInTree' = BridgesInTree
<1>1. \A m \in DOMAIN buses : DevsOf(m)' = DevsOf(m) /\ BridgesOf(m)' = BridgesOf(m)
  BY NodeLost, SetsOfNode
<1>2. DevsOf(L)' = {} /\ BridgesOf(L)' = {}
  BY NodeLost, EmptyNode
<1>3. DOMAIN buses' = DOMAIN buses \cup {L}
  BY NodeLost DEF PciTypes
<1>4. InTree' = InTree
  BY <1>1, <1>2, <1>3 DEF InTree
<1>5. BridgesInTree' = BridgesInTree
  BY <1>1, <1>2, <1>3 DEF BridgesInTree
<1> QED
  BY <1>1, <1>2, <1>3, <1>4, <1>5

LEMMA TreeKept ==
    ASSUME Tree, UNCHANGED <<machine, buses>>
    PROVE  Tree'
<1>1. \A n : DevsOf(n)' = DevsOf(n) /\ BridgesOf(n)' = BridgesOf(n)
  BY DEF DevsOf, BridgesOf
<1> QED
  BY <1>1 DEF Tree, Nodes, Links, Leading, Separate, space

LEMMA TreeWithDevice ==
    ASSUME PciTypes, Tree, UNCHANGED machine, NEW n \in DOMAIN buses, NEW f \in DOMAIN space,
           f[2] = buses[n].id, f \notin InTree, buses' = pci_tree_install_device(f, n)
    PROVE  Tree'
<1>1. /\ DOMAIN buses' = DOMAIN buses /\ Len(buses') = Len(buses)
      /\ \A m \in DOMAIN buses : buses'[m].id = buses[m].id /\ buses'[m].bridges = buses[m].bridges
      /\ \A m \in DOMAIN buses \ {n} : buses'[m].devs = buses[m].devs
      /\ buses'[n].devs = Append(buses[n].devs, f)
  BY DeviceInstalled
<1>2. /\ \A m \in DOMAIN buses : BridgesOf(m)' = BridgesOf(m)
      /\ \A m \in DOMAIN buses \ {n} : DevsOf(m)' = DevsOf(m)
      /\ DevsOf(n)' = DevsOf(n) \cup {f}
  BY InTreeWithDevice
<1>3. \A m \in DOMAIN buses : f \notin DevsOf(m)
  BY DEF InTree
<1>4. IsInjective(buses'[n].devs)
  <2>1. buses[n].devs \in Seq(DOMAIN space) /\ IsInjective(buses[n].devs)
    BY NodeFacts DEF Tree, Nodes
  <2>2. \A k \in DOMAIN buses[n].devs : buses[n].devs[k] # f
    BY <1>3 DEF DevsOf, ToSet
  <2> DEFINE d == buses[n].devs
  <2>3. /\ \A k \in DOMAIN d : Append(d, f)[k] = d[k]
        /\ Append(d, f)[Len(d) + 1] = f /\ DOMAIN Append(d, f) = DOMAIN d \cup {Len(d) + 1}
    BY <2>1, Appended
  <2> QED
    BY <1>1, <2>1, <2>2, <2>3 DEF IsInjective
<1>5. \A m \in DOMAIN buses' :
         /\ \A g \in DevsOf(m)' \cup BridgesOf(m)' : g[2] = buses'[m].id
         /\ IsInjective(buses'[m].devs)
  <2>1. \A m \in DOMAIN buses : \A g \in DevsOf(m) \cup BridgesOf(m) : g[2] = buses[m].id
    BY DEF Tree, Nodes
  <2>2. \A m \in DOMAIN buses : IsInjective(buses[m].devs)
    BY DEF Tree, Nodes
  <2>3. \A m \in DOMAIN buses' : IsInjective(buses'[m].devs)
    BY <1>1, <1>4, <2>2
  <2>4. ASSUME NEW m \in DOMAIN buses', NEW g \in DevsOf(m)' \cup BridgesOf(m)'
        PROVE  g[2] = buses'[m].id
    <3>1. m \in DOMAIN buses /\ buses'[m].id = buses[m].id
      BY <1>1
    <3>2. g \in DevsOf(m) \cup BridgesOf(m) \/ (m = n /\ g = f)
      BY <1>2, <2>4, <3>1
    <3> QED
      BY <2>1, <3>1, <3>2
  <2> QED
    BY <2>3, <2>4
<1>6. \A m \in DOMAIN buses' : \A k \in DOMAIN buses'[m].bridges : Leading(buses', space, m, k)
  <2>1. SUFFICES ASSUME NEW m \in DOMAIN buses, NEW k \in DOMAIN buses[m].bridges
                 PROVE  LET b == buses[m].bridges[k] IN
                          /\ space[b.bridge].type = "pci_to_pci_bridge"
                          /\ b.secondary \in m + 1 .. Len(buses)
                          /\ buses'[b.secondary].id = space[b.bridge].secondary
    BY <1>1 DEF Leading
  <2> DEFINE b == buses[m].bridges[k]
  <2>2. /\ space[b.bridge].type = "pci_to_pci_bridge" /\ b.secondary \in m + 1 .. Len(buses)
        /\ buses[b.secondary].id = space[b.bridge].secondary
    BY DEF Tree, Links, Leading
  <2>3. DOMAIN buses = 1 .. Len(buses) /\ m \in Nat /\ Len(buses) \in Nat
    BY DEF PciTypes
  <2>4. b.secondary \in DOMAIN buses
    <3>1. \A x, y \in Nat : \A z \in x + 1 .. y : z \in 1 .. y
      OBVIOUS
    <3> QED
      BY <2>2, <2>3, <3>1
  <2> QED
    BY <1>1, <2>2, <2>4
<1>7. \A m, l \in DOMAIN buses' :
         /\ m # l => DevsOf(m)' \cap DevsOf(l)' = {}
         /\ \A k \in DOMAIN buses'[m].bridges, j \in DOMAIN buses'[l].bridges :
              m # l \/ k # j =>
                /\ buses'[m].bridges[k].secondary # buses'[l].bridges[j].secondary
                /\ buses'[m].bridges[k].bridge # buses'[l].bridges[j].bridge
  <2>1. \A m, l \in DOMAIN buses : m # l => DevsOf(m)' \cap DevsOf(l)' = {}
    BY <1>2, <1>3 DEF Tree, Separate
  <2>2. \A m, l \in DOMAIN buses :
          \A k \in DOMAIN buses[m].bridges, j \in DOMAIN buses[l].bridges :
              m # l \/ k # j =>
                /\ buses[m].bridges[k].secondary # buses[l].bridges[j].secondary
                /\ buses[m].bridges[k].bridge # buses[l].bridges[j].bridge
    BY DEF Tree, Separate
  <2> QED
    BY <1>1, <2>1, <2>2
<1> QED
  <2>1. Nodes'
    BY <1>5 DEF Nodes
  <2>2. Links'
    <3>1. space' = space
      BY DEF space
    <3> QED
      BY <1>6, <3>1 DEF Links
  <2>3. Separate'
    BY <1>7 DEF Separate
  <2> QED
    BY <2>1, <2>2, <2>3 DEF Tree

LEMMA TreeWithLost ==
    ASSUME PciTypes, Tree, UNCHANGED machine, NEW f \in DOMAIN space,
           space[f].type = "pci_to_pci_bridge", buses' = Append(buses, pci_tree_create_bus(f))
    PROVE  Tree'
<1>1. PICK L \in Nat : L = Len(buses) + 1
  BY DEF PciTypes
<1>2. /\ \A m \in DOMAIN buses : buses'[m] = buses[m]
      /\ buses'[L].devs = <<>> /\ buses'[L].bridges = <<>>
      /\ Len(buses') = L
  <2>1. /\ buses'[L] = pci_tree_create_bus(f) /\ Len(buses') = L
        /\ \A m \in DOMAIN buses : buses'[m] = buses[m]
    BY <1>1, NodeLost
  <2>2. buses'[L].devs = <<>> /\ buses'[L].bridges = <<>>
    BY <2>1 DEF pci_tree_create_bus
  <2> QED
    BY <2>1, <2>2
<1>3. /\ \A m \in DOMAIN buses : DevsOf(m)' = DevsOf(m) /\ BridgesOf(m)' = BridgesOf(m)
      /\ DevsOf(L)' = {} /\ BridgesOf(L)' = {}
      /\ DOMAIN buses' = DOMAIN buses \cup {L}
  BY <1>1, InTreeWithLost
<1>4. DOMAIN buses = 1 .. Len(buses) /\ Len(buses) \in Nat /\ Len(buses) < L /\ DOMAIN <<>> = {}
  BY <1>1 DEF PciTypes
<1>5. \A m \in DOMAIN buses' :
         /\ \A g \in DevsOf(m)' \cup BridgesOf(m)' : g[2] = buses'[m].id
         /\ IsInjective(buses'[m].devs)
  BY <1>2, <1>3, <1>4 DEF Tree, Nodes, IsInjective
<1>6. \A m \in DOMAIN buses' : \A k \in DOMAIN buses'[m].bridges : Leading(buses', space, m, k)
  <2> TAKE m \in DOMAIN buses'
  <2> TAKE k \in DOMAIN buses'[m].bridges
  <2>1. m \in DOMAIN buses /\ buses'[m] = buses[m] /\ k \in DOMAIN buses[m].bridges
    <3>1. m # L
      BY <1>2, <1>4
    <3> QED
      BY <1>2, <1>3, <3>1
  <2> DEFINE b == buses[m].bridges[k]
  <2>2. /\ space[b.bridge].type = "pci_to_pci_bridge" /\ b.secondary \in m + 1 .. Len(buses)
        /\ buses[b.secondary].id = space[b.bridge].secondary
    BY <2>1 DEF Tree, Links, Leading
  <2>3. b.secondary \in DOMAIN buses /\ b.secondary \in m + 1 .. L
    <3>1. \A x, y \in Nat : \A z \in x + 1 .. y : z \in 1 .. y /\ z \in x + 1 .. y + 1
      OBVIOUS
    <3>2. m \in Nat
      BY <1>4, <2>1
    <3> QED
      BY <1>1, <1>4, <2>2, <3>1, <3>2
  <2>4. b = buses'[m].bridges[k]
    BY <2>1
  <2>5. buses'[b.secondary] = buses[b.secondary] /\ Len(buses') = L
    BY <1>2, <2>3
  <2> HIDE DEF b
  <2> QED
    BY <2>2, <2>3, <2>4, <2>5 DEF Leading
<1>7. \A m, l \in DOMAIN buses' :
         /\ m # l => DevsOf(m)' \cap DevsOf(l)' = {}
         /\ \A k \in DOMAIN buses'[m].bridges, j \in DOMAIN buses'[l].bridges :
              m # l \/ k # j =>
                /\ buses'[m].bridges[k].secondary # buses'[l].bridges[j].secondary
                /\ buses'[m].bridges[k].bridge # buses'[l].bridges[j].bridge
  <2>1. \A m, l \in DOMAIN buses' : m # l => DevsOf(m)' \cap DevsOf(l)' = {}
    BY <1>3 DEF Tree, Separate
  <2>2. \A m, l \in DOMAIN buses :
          \A k \in DOMAIN buses[m].bridges, j \in DOMAIN buses[l].bridges :
              m # l \/ k # j =>
                /\ buses[m].bridges[k].secondary # buses[l].bridges[j].secondary
                /\ buses[m].bridges[k].bridge # buses[l].bridges[j].bridge
    BY DEF Tree, Separate
  <2> QED
    BY <1>2, <1>3, <1>4, <2>1, <2>2
<1> QED
  <2>1. Nodes'
    BY <1>5 DEF Nodes
  <2>2. Links'
    <3>1. space' = space
      BY DEF space
    <3> QED
      BY <1>6, <3>1 DEF Links
  <2>3. Separate'
    BY <1>7 DEF Separate
  <2> QED
    BY <2>1, <2>2, <2>3 DEF Tree

LEMMA TreeWithBridge ==
    ASSUME PciTypes, Tree, UNCHANGED machine, NEW n \in DOMAIN buses, NEW f \in DOMAIN space,
           space[f].type = "pci_to_pci_bridge", f[2] = buses[n].id, f \notin InTree,
           buses' = pci_tree_install_bus(f, n)
    PROVE  Tree'
<1>1. PICK L \in Nat : L = Len(buses) + 1
  BY DEF PciTypes
<1> DEFINE link == [bridge |-> f, secondary |-> L]
<1>2. /\ \A m \in DOMAIN buses : buses'[m].id = buses[m].id /\ buses'[m].devs = buses[m].devs
      /\ \A m \in DOMAIN buses \ {n} : buses'[m].bridges = buses[m].bridges
      /\ buses'[n].bridges = Append(buses[n].bridges, link)
      /\ Len(buses') = L
  BY <1>1, BusInstalled
<1>3. /\ \A m \in DOMAIN buses : DevsOf(m)' = DevsOf(m)
      /\ \A m \in DOMAIN buses \ {n} : BridgesOf(m)' = BridgesOf(m)
      /\ BridgesOf(n)' = BridgesOf(n) \cup {f}
      /\ DevsOf(L)' = {} /\ BridgesOf(L)' = {}
      /\ DOMAIN buses' = DOMAIN buses \cup {L}
  BY <1>1, InTreeWithBridge
<1>4. /\ DOMAIN buses = 1 .. Len(buses) /\ Len(buses) \in Nat /\ Len(buses) < L /\ DOMAIN <<>> = {}
      /\ L \notin DOMAIN buses /\ n \in Nat
  BY <1>1 DEF PciTypes
<1>5. buses'[L].devs = <<>> /\ buses'[L].bridges = <<>> /\ buses'[L].id = space[f].secondary
  <2>1. buses'[L] = pci_tree_create_bus(f)
    BY <1>1, BusInstalled
  <2> QED
    BY <2>1, EmptyNode
<1>6. \A m \in DOMAIN buses' :
         /\ \A g \in DevsOf(m)' \cup BridgesOf(m)' : g[2] = buses'[m].id
         /\ IsInjective(buses'[m].devs)
  <2>1. \A m \in DOMAIN buses : \A g \in DevsOf(m)' \cup BridgesOf(m)' : g[2] = buses'[m].id
    <3>1. \A m \in DOMAIN buses : \A g \in DevsOf(m) \cup BridgesOf(m) : g[2] = buses[m].id
      BY DEF Tree, Nodes
    <3> QED
      BY <1>2, <1>3, <3>1
  <2>2. \A m \in DOMAIN buses : IsInjective(buses'[m].devs)
    BY <1>2 DEF Tree, Nodes
  <2>3. IsInjective(buses'[L].devs)
    BY <1>4, <1>5 DEF IsInjective
  <2> QED
    BY <1>3, <2>1, <2>2, <2>3
\* The links are those of before, and the new one.
<1> DEFINE B == [bridge : DOMAIN space, secondary : Nat]
           old == buses[n].bridges
<1>7. old \in Seq(B) /\ link \in B /\ link.bridge = f /\ link.secondary = L
  <2>1. old \in Seq(B)
    BY NodeFacts
  <2> QED
    BY <1>1, <2>1
<1> HIDE DEF link, B
<1>8. /\ \A k \in DOMAIN old : Append(old, link)[k] = old[k]
      /\ Append(old, link)[Len(old) + 1] = link
      /\ DOMAIN Append(old, link) = DOMAIN old \cup {Len(old) + 1} /\ Len(old) + 1 \notin DOMAIN old
  BY <1>7, Appended
<1>9. PICK K : K = Len(old) + 1
  OBVIOUS
<1> HIDE DEF old
<1>10. /\ \A m \in DOMAIN buses \ {n} : DOMAIN buses'[m].bridges = DOMAIN buses[m].bridges
       /\ DOMAIN buses'[n].bridges = DOMAIN buses[n].bridges \cup {K} /\ K \notin DOMAIN buses[n].bridges
       /\ \A m \in DOMAIN buses : \A k \in DOMAIN buses[m].bridges :
             buses'[m].bridges[k] = buses[m].bridges[k]
       /\ buses'[n].bridges[K] = link /\ DOMAIN buses'[L].bridges = {}
  <2>1. buses'[n].bridges = Append(buses[n].bridges, link)
    BY <1>2, <1>4 DEF old
  <2>2. /\ \A k \in DOMAIN buses[n].bridges : buses'[n].bridges[k] = buses[n].bridges[k]
        /\ DOMAIN buses'[n].bridges = DOMAIN buses[n].bridges \cup {K} /\ K \notin DOMAIN buses[n].bridges
        /\ buses'[n].bridges[K] = link
    BY <1>8, <1>9, <2>1 DEF old
  <2> QED
    BY <1>2, <1>4, <1>5, <2>2
<1>11. \A m \in DOMAIN buses : \A k \in DOMAIN buses[m].bridges :
         LET b == buses[m].bridges[k] IN
           /\ space[b.bridge].type = "pci_to_pci_bridge" /\ b.bridge # f
           /\ b.secondary \in m + 1 .. Len(buses) /\ b.secondary \in DOMAIN buses
           /\ b.secondary # L /\ b.secondary \in m + 1 .. L
           /\ buses[b.secondary].id = space[b.bridge].secondary
  <2>1. SUFFICES ASSUME NEW m \in DOMAIN buses, NEW k \in DOMAIN buses[m].bridges
                 PROVE  LET b == buses[m].bridges[k] IN
                          /\ space[b.bridge].type = "pci_to_pci_bridge" /\ b.bridge # f
                          /\ b.secondary \in m + 1 .. Len(buses) /\ b.secondary \in DOMAIN buses
                          /\ b.secondary # L /\ b.secondary \in m + 1 .. L
                          /\ buses[b.secondary].id = space[b.bridge].secondary
    OBVIOUS
  <2> DEFINE b == buses[m].bridges[k]
  <2>2. /\ space[b.bridge].type = "pci_to_pci_bridge" /\ b.secondary \in m + 1 .. Len(buses)
        /\ buses[b.secondary].id = space[b.bridge].secondary
    BY DEF Tree, Links, Leading
  <2>3. b.bridge \in BridgesOf(m)
    BY DEF BridgesOf, ToSet
  <2>4. b.bridge # f
    BY <2>3 DEF InTree
  <2>5. b.secondary \in DOMAIN buses /\ b.secondary \in m + 1 .. L /\ b.secondary # L
    <3>1. \A x, y \in Nat : \A z \in x + 1 .. y : z \in 1 .. y /\ z \in x + 1 .. y + 1 /\ z # y + 1
      OBVIOUS
    <3>2. m \in Nat
      BY <1>4
    <3> QED
      BY <1>1, <1>4, <2>2, <3>1, <3>2
  <2> QED
    BY <2>2, <2>4, <2>5
<1>12. \A m \in DOMAIN buses' : \A k \in DOMAIN buses'[m].bridges : Leading(buses', space, m, k)
  <2>1. SUFFICES ASSUME NEW m \in DOMAIN buses', NEW k \in DOMAIN buses'[m].bridges
                 PROVE  LET b == buses'[m].bridges[k] IN
                          /\ space[b.bridge].type = "pci_to_pci_bridge"
                          /\ b.secondary \in m + 1 .. L
                          /\ buses'[b.secondary].id = space[b.bridge].secondary
    BY <1>2 DEF Leading
  <2>2. m \in DOMAIN buses
    BY <1>3, <1>10
  <2>3. CASE k \in DOMAIN buses[m].bridges
    <3> DEFINE b == buses[m].bridges[k]
    <3>1. /\ space[b.bridge].type = "pci_to_pci_bridge"
          /\ b.secondary \in DOMAIN buses /\ b.secondary \in m + 1 .. L
          /\ buses[b.secondary].id = space[b.bridge].secondary
      BY <1>11, <2>2, <2>3
    <3>2. buses'[m].bridges[k] = b
      BY <1>10, <2>2, <2>3
    <3>3. buses'[b.secondary].id = buses[b.secondary].id
      BY <1>2, <3>1
    <3> QED
      BY <3>1, <3>2, <3>3
  <2>4. CASE k \notin DOMAIN buses[m].bridges
    <3>1. m = n /\ buses'[m].bridges[k] = link
      BY <1>10, <2>2, <2>4
    <3>2. L \in n + 1 .. L
      BY <1>4
    <3> QED
      BY <1>5, <1>7, <3>1, <3>2
  <2> QED
    BY <2>3, <2>4
<1>13. \A m, l \in DOMAIN buses' : m # l => DevsOf(m)' \cap DevsOf(l)' = {}
  BY <1>3 DEF Tree, Separate
<1>14. ASSUME NEW m \in DOMAIN buses', NEW l \in DOMAIN buses', NEW k \in DOMAIN buses'[m].bridges,
              NEW j \in DOMAIN buses'[l].bridges, m # l \/ k # j
       PROVE  /\ buses'[m].bridges[k].secondary # buses'[l].bridges[j].secondary
              /\ buses'[m].bridges[k].bridge # buses'[l].bridges[j].bridge
  <2>1. m \in DOMAIN buses /\ l \in DOMAIN buses
    BY <1>3, <1>10, <1>14
  <2>2. CASE k \in DOMAIN buses[m].bridges /\ j \in DOMAIN buses[l].bridges
    BY <1>10, <1>14, <2>1, <2>2 DEF Tree, Separate
  <2>3. CASE k \notin DOMAIN buses[m].bridges
    <3>1. m = n /\ k = K /\ buses'[m].bridges[k] = link
      BY <1>10, <2>1, <2>3
    <3>2. j \in DOMAIN buses[l].bridges
      BY <1>10, <1>14, <2>1, <3>1
    <3> QED
      BY <1>7, <1>10, <1>11, <2>1, <3>1, <3>2
  <2>4. CASE j \notin DOMAIN buses[l].bridges
    <3>1. l = n /\ j = K /\ buses'[l].bridges[j] = link
      BY <1>10, <2>1, <2>4
    <3>2. k \in DOMAIN buses[m].bridges
      BY <1>10, <1>14, <2>1, <3>1
    <3> QED
      BY <1>7, <1>10, <1>11, <2>1, <3>1, <3>2
  <2> QED
    BY <2>2, <2>3, <2>4
<1> QED
  <2>1. Nodes'
    BY <1>6 DEF Nodes
  <2>2. Links'
    <3>1. space' = space
      BY DEF space
    <3> QED
      BY <1>12, <3>1 DEF Links
  <2>3. Separate'
    BY <1>13, <1>14 DEF Separate
  <2> QED
    BY <2>1, <2>2, <2>3 DEF Tree

-----------------------------------------------------------------------------
(* The drivers.                                                             *)

LEMMA DriversKept ==
    ASSUME Drivers, UNCHANGED <<machine, inited>>, InTree' = InTree, left \subseteq left',
           \A n \in DOMAIN buses' : DevsOf(n)' \subseteq ToSet(inited)
    PROVE  Drivers'
  BY DEF Drivers, BusOf, Before

LEMMA DriversGrow ==
    ASSUME PciTypes, ScanOnce, Drivers, Scanning, UNCHANGED machine,
           NEW f \in DOMAIN space, f = f0,
           inited' \in {inited, Append(inited, f)}, InTree' \in {InTree, InTree \cup {f}},
           left \subseteq left', inited' # inited => f \in InTree' \/ BusOf(f) \in left',
           \A n \in DOMAIN buses' : DevsOf(n)' \subseteq ToSet(inited')
    PROVE  Drivers'
<1>1. /\ BusOf(f) = BusOfCall(Frame) /\ f[3] = Frame.dev /\ f[4] = Frame.fnc /\ f \notin Visited
      /\ 1 \in DOMAIN stack /\ Frame = stack[1]
  BY FrameFacts
<1>2. f \notin ToSet(inited) /\ f \notin InTree
  BY <1>1 DEF Visited
<1>3. BusOf(f) \notin left
  BY <1>1 DEF ScanOnce
<1>4. inited \in Seq(DOMAIN space)
  BY DEF PciTypes
<1>5. /\ \A k \in DOMAIN inited : Append(inited, f)[k] = inited[k]
      /\ Append(inited, f)[Len(inited) + 1] = f
      /\ DOMAIN Append(inited, f) = DOMAIN inited \cup {Len(inited) + 1}
      /\ ToSet(Append(inited, f)) = ToSet(inited) \cup {f}
  BY <1>4, Appended
<1>6. IsInjective(inited')
  <2>1. IsInjective(inited) /\ \A k \in DOMAIN inited : inited[k] # f
    BY <1>2 DEF Drivers, ToSet
  <2>2. IsInjective(Append(inited, f))
    BY <1>5, <2>1 DEF IsInjective
  <2> QED
    BY <2>1, <2>2
<1>7. ASSUME NEW h \in ToSet(inited') \ InTree'
      PROVE  BusOf(h) \in left' /\ \A g \in InTree' : ~ Before(h, g)
  <2>1. CASE h \in ToSet(inited)
    <3>1. BusOf(h) \in left /\ \A g \in InTree : ~ Before(h, g)
      BY <1>7, <2>1 DEF Drivers
    <3>2. ~ Before(h, f)
      BY <1>3, <3>1 DEF Before, BusOf
    <3> QED
      BY <3>1, <3>2
  <2>2. CASE h \notin ToSet(inited)
    <3>1. h = f /\ inited' # inited
      <4>1. inited' # inited
        BY <1>7, <2>2
      <4>2. h \in ToSet(Append(inited, f))
        BY <1>7, <4>1
      <4> QED
        BY <1>5, <2>2, <4>1, <4>2
    <3>2. BusOf(f) \in left' /\ InTree' = InTree
      BY <1>7, <3>1
    <3>3. ASSUME NEW g \in InTree, Before(f, g)
          PROVE  FALSE
      <4>1. g \in Visited /\ g \in DOMAIN space
        BY VisitedInSpace DEF Visited
      <4>2. BusOf(g) = BusOfCall(Frame)
        BY <1>1, <3>3 DEF Before, BusOf
      <4>3. Passed(g, Frame)
        BY <1>1, <4>1, <4>2 DEF ScanOnce
      <4>4. g[3] \in Nat /\ g[4] \in Nat /\ f[3] \in Nat /\ f[4] \in Nat
        BY <4>1, FunctionFacts
      <4> QED
        BY <1>1, <3>3, <4>3, <4>4 DEF Before, Passed
    <3> QED
      BY <3>1, <3>2, <3>3
  <2> QED
    BY <2>1, <2>2
<1> QED
  BY <1>6, <1>7 DEF Drivers, BusOf, Before

-----------------------------------------------------------------------------
(* The steps of the scan.                                                   *)

\* pcie_scan_bus returns false.
LEMMA GiveUpStep ==
    ASSUME PciTypes, ScanOnce, Scanning, GiveUp, UNCHANGED <<machine, i, ret>>,
           NEW f \in DOMAIN space, f = f0, buses' \in Seq(Node), buses' # <<>>,
           inited' \in Seq(DOMAIN space), BridgesInTree \subseteq BridgesInTree',
           Visited' \subseteq Visited \cup {f}
    PROVE  PciTypes' /\ ScanOnce' /\ left' = left \cup {BusOf(f)}
<1>1. /\ stack \in Seq(CallOf) /\ stack # <<>> /\ 1 \in DOMAIN stack
      /\ Frame = stack[1] /\ BusOf(f) = BusOfCall(Frame)
  BY FrameFacts
<1>2. /\ stack' \in Seq(CallOf)
      /\ \A k \in DOMAIN stack' : k + 1 \in DOMAIN stack /\ stack'[k] = stack[k + 1]
  BY <1>1, Popped DEF GiveUp, Below
<1>3. /\ left' = left \cup {BusOfCall(stack[1])}
      /\ phase' \in {"done", "scan"} /\ (phase' = "done" <=> stack' = <<>>)
  BY <1>1 DEF GiveUp, Below, BusOfCall
<1>4. Opened \subseteq Opened'
  BY <1>3, OpenedGrows
<1>5. DOMAIN stack' \subseteq Nat \ {0}
  BY <1>2
<1>6. ScanOnce'
  <2>1. \A k \in DOMAIN stack' :
          /\ k + 1 \in DOMAIN stack /\ BusOfCall(stack'[k]) = BusOfCall(stack[k + 1])
          /\ \A g \in DOMAIN space : Passed(g, stack[k + 1]) => Passed(g, stack'[k])
    BY <1>2
  <2>2. \A g \in Visited' \ Visited : 1 \in DOMAIN stack /\ BusOf(g) = BusOfCall(stack[1])
    BY <1>1
  <2> QED
    BY <1>1, <1>3, <1>4, <1>5, <2>1, <2>2, ScanOnceMoves
<1>7. PciTypes'
  <2>1. phase = "scan"
    BY DEF Scanning
  <2>2. space' = space /\ Node' = Node
    BY NodeStays DEF space
  <2> QED
    BY <1>2, <1>3, <2>1, <2>2 DEF PciTypes
<1> QED
  BY <1>1, <1>3, <1>6, <1>7

\* The scan of a bus goes on with the next device or function.
LEMMA GoOnStep ==
    ASSUME PciTypes, ScanOnce, Scanning, UNCHANGED <<machine, i, ret, phase, left>>,
           NEW x, x \in {NextDevice(Frame), NextFunction(Frame)}, stack' = <<x>> \o Below,
           buses' \in Seq(Node), buses' # <<>>,
           inited' \in Seq(DOMAIN space), BridgesInTree \subseteq BridgesInTree',
           \A f \in Visited' \ Visited : f = f0 /\ f0 \in DOMAIN space
    PROVE  PciTypes' /\ ScanOnce'
<1>1. /\ stack \in Seq(CallOf) /\ stack # <<>> /\ 1 \in DOMAIN stack
      /\ Frame = stack[1] /\ (f0 \in DOMAIN space => BusOf(f0) = BusOfCall(Frame))
  BY FrameFacts
<1>2. /\ x \in CallOf /\ BusOfCall(x) = BusOfCall(Frame)
      /\ \A f \in DOMAIN space : Passed(f, Frame) => Passed(f, x)
      /\ f0 \in DOMAIN space => Passed(f0, x)
  BY NextPlace
<1>3. /\ stack' \in Seq(CallOf) /\ stack' # <<>> /\ DOMAIN stack' = DOMAIN stack
      /\ stack'[1] = x /\ \A k \in DOMAIN stack \ {1} : stack'[k] = stack[k]
  BY <1>1, <1>2, Replaced DEF Below
<1>4. Opened \subseteq Opened'
  <2>1. phase' # "entries"
    BY DEF Scanning
  <2> QED
    BY <2>1, OpenedGrows
<1>5. DOMAIN stack' \subseteq Nat \ {0} /\ \A k \in DOMAIN stack' : k + 0 = k
  BY <1>3
<1>6. ScanOnce'
  <2>1. \A k \in DOMAIN stack' :
          /\ k + 0 \in DOMAIN stack /\ BusOfCall(stack'[k]) = BusOfCall(stack[k + 0])
          /\ \A g \in DOMAIN space : Passed(g, stack[k + 0]) => Passed(g, stack'[k])
    BY <1>1, <1>2, <1>3, <1>5
  <2>2. \A g \in Visited' \ Visited :
          1 \in DOMAIN stack /\ BusOf(g) = BusOfCall(stack[1]) /\ Passed(g, stack'[1])
    BY <1>1, <1>2, <1>3
  <2> QED
    BY <1>4, <1>5, <2>1, <2>2, ScanOnceMoves
<1>7. PciTypes'
  <2>1. phase = "scan"
    BY DEF Scanning
  <2>2. space' = space /\ Node' = Node
    BY NodeStays DEF space
  <2> QED
    BY <1>3, <2>1, <2>2 DEF PciTypes
<1> QED
  BY <1>6, <1>7

LEMMA BridgeOfTree ==
    ASSUME Tree, NEW g \in BridgesInTree
    PROVE  space[g].type = "pci_to_pci_bridge"
<1>1. PICK n \in DOMAIN buses : g \in BridgesOf(n)
  BY DEF BridgesInTree
<1>2. PICK k \in DOMAIN buses[n].bridges : g = buses[n].bridges[k].bridge
  BY <1>1 DEF BridgesOf, ToSet
<1> QED
  BY <1>1, <1>2 DEF Tree, Nodes, Links, Leading, Separate

\* The bus behind a bridge has not been scanned.
LEMMA FreshBus ==
    ASSUME PciTypes, Tree, Numbered(machine), NEW f \in DOMAIN space,
           space[f].type = "pci_to_pci_bridge", f \notin InTree
    PROVE  <<f[1], space[f].secondary>> \notin Opened
<1>1. SUFFICES ASSUME <<f[1], space[f].secondary>> \in Opened
               PROVE  FALSE
  OBVIOUS
<1>2. \A k \in DOMAIN machine.entries :
         machine.entries[k].base = f[1] => machine.entries[k].start_bus # space[f].secondary
  BY DEF Numbered, space
<1>3. PICK g \in BridgesInTree : <<f[1], space[f].secondary>> = <<g[1], space[g].secondary>>
  BY <1>1, <1>2 DEF Opened
<1>4. g \in InTree /\ g \in DOMAIN space
  BY <1>3, VisitedInSpace DEF BridgesInTree, InTree, Visited
<1>5. space[g].type = "pci_to_pci_bridge"
  BY <1>3, BridgeOfTree
<1>6. g # f /\ g[1] = f[1] /\ space[g].secondary = space[f].secondary
  BY <1>3, <1>4
<1> QED
  BY <1>4, <1>5, <1>6 DEF Numbered, space

\* The scan goes on behind a bridge.
LEMMA PushStep ==
    ASSUME PciTypes, ScanOnce, Tree, Numbered(machine), Scanning,
           UNCHANGED <<machine, i, ret, phase, left, inited>>,
           NEW f \in DOMAIN space, f = f0, space[f].type = "pci_to_pci_bridge",
           NEW x, x \in {NextDevice(Frame), NextFunction(Frame)},
           stack' = <<pcie_scan_bus(Frame.base, space[f].secondary), x>> \o Below,
           buses' \in Seq(Node), buses' # <<>>,
           BridgesInTree' = BridgesInTree \cup {f}, InTree' = InTree \cup {f}
    PROVE  PciTypes' /\ ScanOnce'
<1> DEFINE y == pcie_scan_bus(Frame.base, space[f].secondary)
           b == <<f[1], space[f].secondary>>
<1>1. /\ stack \in Seq(CallOf) /\ stack # <<>> /\ 1 \in DOMAIN stack
      /\ Frame = stack[1] /\ Frame \in CallOf /\ BusOf(f) = BusOfCall(Frame) /\ f \notin Visited
  BY FrameFacts
<1>2. /\ x \in CallOf /\ BusOfCall(x) = BusOfCall(Frame)
      /\ \A g \in DOMAIN space : Passed(g, Frame) => Passed(g, x)
      /\ Passed(f, x)
  BY NextPlace
<1>3. y \in CallOf /\ BusOfCall(y) = b
  <2>1. Frame.base \in Nat /\ space[f].secondary \in Nat /\ Frame.base = f[1]
    BY <1>1, FunctionFacts DEF CallOf, BusOf, BusOfCall
  <2>2. 0 \in 0 .. Devices /\ 0 \in 0 .. Functions - 1
    OBVIOUS
  <2> QED
    BY <2>1, <2>2 DEF pcie_scan_bus, CallOf, BusOfCall
<1> HIDE DEF y, b
<1>4. /\ stack' \in Seq(CallOf) /\ stack' # <<>> /\ Len(stack') = Len(stack) + 1
      /\ stack'[1] = y /\ stack'[2] = x
      /\ \A k \in 3 .. Len(stack) + 1 : stack'[k] = stack[k - 1]
  BY <1>1, <1>2, <1>3, Pushed DEF Below, y
<1>5. /\ DOMAIN stack' = 1 .. Len(stack) + 1 /\ DOMAIN stack = 1 .. Len(stack) /\ Len(stack) \in Nat \ {0}
  BY <1>1, <1>4
<1>6. ASSUME NEW k \in DOMAIN stack', k # 1
      PROVE  /\ k - 1 \in DOMAIN stack /\ BusOfCall(stack'[k]) = BusOfCall(stack[k - 1])
             /\ \A g \in DOMAIN space : Passed(g, stack[k - 1]) => Passed(g, stack'[k])
             /\ k - 1 = 1 => stack'[k] = x
  <2>1. k - 1 \in DOMAIN stack /\ (k = 2 \/ k \in 3 .. Len(stack) + 1)
    BY <1>5, <1>6
  <2>2. CASE k = 2
    <3>1. k - 1 = 1 /\ stack'[k] = x
      BY <1>4, <2>2
    <3> QED
      BY <1>1, <1>2, <2>1, <3>1
  <2>3. CASE k \in 3 .. Len(stack) + 1
    <3>1. stack'[k] = stack[k - 1] /\ k - 1 # 1
      BY <1>4, <2>3
    <3> QED
      BY <2>1, <3>1
  <2> QED
    BY <2>1, <2>2, <2>3
<1>7. b \notin Opened
  <2>1. f \notin InTree
    BY <1>1 DEF Visited
  <2> QED
    BY <2>1, FreshBus DEF b
<1>8. Opened \subseteq Opened' /\ b \in Opened'
  <2>1. phase' # "entries"
    BY DEF Scanning
  <2>2. b \in Opened'
    BY DEF Opened, b, space
  <2> QED
    BY <2>1, <2>2, OpenedGrows
<1>9. Visited' = Visited \cup {f}
  BY DEF Visited
<1>10. BusOf(f) # b /\ \A k \in DOMAIN stack : BusOfCall(stack[k]) # b
  BY <1>1, <1>7 DEF ScanOnce
<1>11. ScanOnce'
  <2>1. \A g \in Visited' : BusOf(g) \in Opened' /\ BusOf(g) # b
    <3>1. \A g \in Visited : BusOf(g) \in Opened
      BY DEF ScanOnce
    <3>2. BusOf(f) \in Opened
      BY <1>1 DEF ScanOnce
    <3> QED
      BY <1>7, <1>8, <1>9, <3>1, <3>2
  <2>2. ASSUME NEW k \in DOMAIN stack'
        PROVE  BusOfCall(stack'[k]) \in Opened' \ left'
    <3>1. CASE k = 1
      BY <1>3, <1>4, <1>7, <1>8, <3>1 DEF ScanOnce
    <3>2. CASE k # 1
      BY <1>6, <1>8, <3>2 DEF ScanOnce
    <3> QED
      BY <3>1, <3>2
  <2>3. ASSUME NEW j \in DOMAIN stack', NEW k \in DOMAIN stack', j # k
        PROVE  BusOfCall(stack'[j]) # BusOfCall(stack'[k])
    <3>1. CASE j = 1
      BY <1>3, <1>4, <1>6, <1>10, <2>3, <3>1
    <3>2. CASE k = 1
      BY <1>3, <1>4, <1>6, <1>10, <2>3, <3>2
    <3>3. CASE j # 1 /\ k # 1
      <4>1. j - 1 # k - 1
        BY <1>5, <2>3
      <4> QED
        BY <1>6, <3>3, <4>1 DEF ScanOnce
    <3> QED
      BY <3>1, <3>2, <3>3
  <2>4. ASSUME NEW k \in DOMAIN stack', NEW g \in Visited', BusOf(g) = BusOfCall(stack'[k])
        PROVE  Passed(g, stack'[k])
    <3>1. k # 1
      BY <1>3, <1>4, <2>1, <2>4
    <3>2. k - 1 \in DOMAIN stack /\ BusOf(g) = BusOfCall(stack[k - 1])
      BY <1>6, <2>4, <3>1
    <3>3. CASE g \in Visited
      <4>1. g \in DOMAIN space
        BY <3>3, VisitedInSpace
      <4> QED
        BY <1>6, <3>1, <3>2, <3>3, <4>1 DEF ScanOnce
    <3>4. CASE g = f
      <4>1. k - 1 = 1
        BY <1>1, <3>2, <3>4 DEF ScanOnce
      <4> QED
        BY <1>2, <1>6, <3>1, <3>4, <4>1
    <3> QED
      BY <1>9, <3>3, <3>4
  <2>5. left' \subseteq Opened'
    BY <1>8 DEF ScanOnce
  <2> QED
    BY <2>1, <2>2, <2>3, <2>4, <2>5 DEF ScanOnce, BusOf, BusOfCall, Passed
<1>12. PciTypes'
  <2>1. phase = "scan"
    BY DEF Scanning
  <2>2. space' = space /\ Node' = Node
    BY NodeStays DEF space
  <2> QED
    BY <1>4, <2>1, <2>2 DEF PciTypes
<1> QED
  BY <1>11, <1>12
\* Where the scan of a bus goes on.
LEMMA Places ==
    /\ Advanced(Frame) \in {NextDevice(Frame), NextFunction(Frame)}
    /\ Unsupported(Frame) \in {NextDevice(Frame), NextFunction(Frame)}
  BY DEF Advanced, Unsupported

LEMMA NoBuses ==
    ASSUME buses = <<>>
    PROVE  InTree = {} /\ BridgesInTree = {}
<1>1. DOMAIN buses = {}
  OBVIOUS
<1> QED
  BY <1>1 DEF InTree, BridgesInTree

LEMMA InitMeetsPciInv ==
    ASSUME PciInit
    PROVE  PciInv
<1>1. /\ machine \in Machines /\ phase = "init_pci" /\ i = 1 /\ stack = <<>> /\ buses = <<>>
      /\ ret = FALSE /\ inited = <<>> /\ left = {}
  BY DEF PciInit
<1>2. DOMAIN stack = {} /\ DOMAIN buses = {} /\ ToSet(inited) = {} /\ DOMAIN inited = {}
  BY <1>1 DEF ToSet
<1>3. PciTypes
  <2>1. i \in 1 .. Len(machine.entries) + 1
    BY <1>1
  <2>2. stack \in Seq(CallOf) /\ buses \in Seq(Node) /\ inited \in Seq(DOMAIN space)
    BY <1>1
  <2> QED
    BY <1>1, <2>1, <2>2 DEF PciTypes
<1>4. Visited = {}
  BY <1>1, <1>2, NoBuses DEF Visited
<1>5. ScanOnce
  BY <1>1, <1>2, <1>4 DEF ScanOnce
<1>6. Tree
  BY <1>2 DEF Tree, Nodes, Links, Leading, Separate
<1>7. Drivers
  BY <1>2 DEF Drivers, IsInjective
<1> QED
  BY <1>3, <1>5, <1>6, <1>7 DEF PciInv

LEMMA RootStep ==
    ASSUME PciInv, init_pci_root
    PROVE  PciInv'
<1> DEFINE root == [id |-> PCI_INITIAL_BUS, devs |-> <<>>, bridges |-> <<>>]
<1>1. PciTypes /\ phase = "init_pci" /\ stack = <<>> /\ inited = <<>> /\ left = {}
  BY DEF PciInv, PciTypes, init_pci_root
<1>2. /\ UNCHANGED <<machine, i, stack, ret, inited, left>>
      /\ phase' \in {"entries", "done"} /\ (phase' = "entries" => buses' # <<>>)
      /\ buses' = <<>> \/ buses' = <<root>>
  BY DEF init_pci_root
<1>3. DOMAIN stack' = {} /\ ToSet(inited') = {} /\ DOMAIN inited' = {}
  BY <1>1, <1>2 DEF ToSet
<1>4. \A n \in DOMAIN buses' : buses'[n] = root
  BY <1>2
<1>5. root.devs = <<>> /\ root.bridges = <<>> /\ DOMAIN <<>> = {}
  OBVIOUS
<1>6. root \in Node'
  BY DEF Node, PCI_INITIAL_BUS
<1> HIDE DEF root
<1>7. buses' \in Seq(Node')
  <2>1. \A S : <<>> \in Seq(S) /\ \A x \in S : <<x>> \in Seq(S)
    OBVIOUS
  <2> QED
    BY <1>2, <1>6, <2>1
<1>8. \A n \in DOMAIN buses' :
         /\ DevsOf(n)' = {} /\ BridgesOf(n)' = {}
         /\ buses'[n].devs = <<>> /\ buses'[n].bridges = <<>>
  BY <1>4, <1>5 DEF DevsOf, BridgesOf, ToSet
<1>9. InTree' = {}
  BY <1>8 DEF InTree
<1>10. PciTypes'
  <2>1. space' = space /\ CallOf' = CallOf
    BY <1>2 DEF space, CallOf
  <2> QED
    BY <1>1, <1>2, <1>7, <2>1 DEF PciTypes
<1>11. Visited' = {}
  BY <1>3, <1>9 DEF Visited
<1>12. ScanOnce'
  BY <1>1, <1>2, <1>3, <1>11 DEF ScanOnce
<1>13. Tree'
  BY <1>5, <1>8 DEF Tree, Nodes, Links, Leading, Separate, IsInjective
<1>14. Drivers'
  BY <1>3, <1>8 DEF Drivers, IsInjective
<1> QED
  BY <1>10, <1>12, <1>13, <1>14 DEF PciInv

\* A step that neither visits a function nor changes the tree.
LEMMA NothingVisited ==
    ASSUME PciInv, UNCHANGED <<machine, buses, inited>>, left \subseteq left'
    PROVE  /\ Tree' /\ Drivers' /\ InTree' = InTree /\ BridgesInTree' = BridgesInTree
           /\ Visited' = Visited
<1>1. \A n : DevsOf(n)' = DevsOf(n) /\ BridgesOf(n)' = BridgesOf(n)
  BY DEF DevsOf, BridgesOf
<1>2. InTree' = InTree /\ BridgesInTree' = BridgesInTree
  BY <1>1 DEF InTree, BridgesInTree
<1>3. Visited' = Visited
  BY <1>2 DEF Visited
<1>4. Tree'
  BY TreeKept DEF PciInv
<1>5. Drivers'
  BY <1>1, <1>2, DriversKept DEF PciInv, Drivers
<1> QED
  BY <1>2, <1>3, <1>4, <1>5

LEMMA EntryStep ==
    ASSUME PciInv, Numbered(machine), pcie_iterate_mcfg
    PROVE  PciInv'
<1>1. /\ PciTypes /\ ScanOnce /\ Tree /\ phase = "entries" /\ i \in DOMAIN machine.entries
      /\ UNCHANGED <<machine, i, buses, ret, inited, left>> /\ phase' = "scan"
  BY DEF PciInv, PciTypes, pcie_iterate_mcfg
<1> DEFINE x == pcie_scan_bus(machine.entries[i].base, machine.entries[i].start_bus)
           b == <<machine.entries[i].base, machine.entries[i].start_bus>>
<1>2. x \in CallOf /\ BusOfCall(x) = b
  <2>1. machine.entries[i].base \in Nat /\ machine.entries[i].start_bus \in Nat
    <3>1. machine.entries[i] \in [base : Nat, start_bus : Nat]
      BY <1>1, ElementOf DEF PciTypes
    <3> QED
      BY <3>1
  <2>2. 0 \in 0 .. Devices /\ 0 \in 0 .. Functions - 1
    OBVIOUS
  <2> QED
    BY <2>1, <2>2 DEF pcie_scan_bus, CallOf, BusOfCall
<1>3. stack' = <<x>>
  BY DEF pcie_iterate_mcfg
<1> HIDE DEF x
<1>4. /\ stack' \in Seq(CallOf) /\ stack' # <<>> /\ DOMAIN stack' = {1} /\ stack'[1] = x
  BY <1>2, <1>3
<1>5. Tree' /\ Drivers' /\ BridgesInTree' = BridgesInTree /\ Visited' = Visited
  BY <1>1, NothingVisited
<1>6. b \notin Opened
  <2>1. SUFFICES ASSUME b \in Opened
                 PROVE  FALSE
    OBVIOUS
  <2>2. CASE b \in {<<machine.entries[j].base, machine.entries[j].start_bus>> :
                       j \in {k \in DOMAIN machine.entries : k < i \/ (k = i /\ phase # "entries")}}
    <3>1. PICK j \in DOMAIN machine.entries : j < i /\ b = <<machine.entries[j].base, machine.entries[j].start_bus>>
      BY <1>1, <2>2
    <3>2. j # i
      BY <1>1, <3>1 DEF PciTypes
    <3> QED
      BY <1>1, <3>1, <3>2 DEF Numbered
  <2>3. CASE b \in {<<f[1], space[f].secondary>> : f \in BridgesInTree}
    <3>1. PICK g \in BridgesInTree : b = <<g[1], space[g].secondary>>
      BY <2>3
    <3>2. g \in DOMAIN space
      BY <1>1, <3>1, VisitedInSpace DEF BridgesInTree, InTree, Visited
    <3>3. space[g].type = "pci_to_pci_bridge"
      BY <1>1, <3>1, BridgeOfTree
    <3> QED
      BY <1>1, <3>1, <3>2, <3>3 DEF Numbered, space
  <2> QED
    BY <2>1, <2>2, <2>3 DEF Opened
<1>7. Opened \subseteq Opened' /\ b \in Opened'
  <2>1. Opened \subseteq Opened'
    BY <1>1, <1>5, OpenedGrows
  <2>2. b \in Opened'
    BY <1>1 DEF Opened
  <2> QED
    BY <2>1, <2>2
<1>8. ScanOnce'
  <2>1. \A f \in Visited' : BusOf(f) \in Opened' /\ BusOf(f) # b
    BY <1>1, <1>5, <1>6, <1>7 DEF ScanOnce
  <2>2. left' \subseteq Opened' /\ b \in Opened' \ left'
    BY <1>1, <1>6, <1>7 DEF ScanOnce
  <2>3. \A k \in DOMAIN stack' : BusOfCall(stack'[k]) = b
    BY <1>2, <1>4
  <2>4. \A j, k \in DOMAIN stack' : j = k
    BY <1>4
  <2> QED
    BY <2>1, <2>2, <2>3, <2>4 DEF ScanOnce, BusOf, BusOfCall
<1>9. PciTypes'
  <2>1. space' = space /\ Node' = Node /\ CallOf' = CallOf
    BY <1>1, NodeStays DEF space, CallOf
  <2>2. i <= Len(machine.entries)
    BY DEF pcie_iterate_mcfg
  <2> QED
    BY <1>1, <1>4, <2>1, <2>2 DEF PciTypes
<1> QED
  BY <1>5, <1>8, <1>9 DEF PciInv

LEMMA EndStep ==
    ASSUME PciInv, pcie_iterate_mcfg_end
    PROVE  PciInv'
<1>1. /\ PciTypes /\ ScanOnce /\ phase = "entries" /\ i > Len(machine.entries)
      /\ UNCHANGED <<machine, i, stack, buses, inited, left>> /\ phase' = "done" /\ ret' \in BOOLEAN
  BY DEF PciInv, pcie_iterate_mcfg_end
<1>2. Tree' /\ Drivers' /\ BridgesInTree' = BridgesInTree /\ Visited' = Visited
  BY <1>1, NothingVisited
<1>3. Opened \subseteq Opened'
  BY <1>1, <1>2, OpenedGrows
<1>4. stack = <<>> /\ DOMAIN stack' = {}
  BY <1>1 DEF PciTypes
<1>5. ScanOnce'
  BY <1>1, <1>2, <1>3, <1>4 DEF ScanOnce
<1>6. PciTypes'
  <2>1. space' = space /\ Node' = Node /\ CallOf' = CallOf
    BY <1>1, NodeStays DEF space, CallOf
  <2> QED
    BY <1>1, <1>4, <2>1 DEF PciTypes
<1> QED
  BY <1>2, <1>5, <1>6 DEF PciInv

LEMMA ReturnStep ==
    ASSUME PciInv, pcie_scan_bus_end
    PROVE  PciInv'
<1>1. /\ PciTypes /\ ScanOnce /\ phase = "scan" /\ stack \in Seq(CallOf) /\ stack # <<>>
      /\ i \in Nat /\ i <= Len(machine.entries) /\ Len(machine.entries) \in Nat /\ i >= 1
  BY DEF PciInv, PciTypes, pcie_scan_bus_end
<1>2. /\ stack' = Tail(stack) /\ UNCHANGED <<machine, buses, ret, inited, left>>
      /\ IF stack' = <<>> THEN phase' = "entries" /\ i' = i + 1 ELSE phase' = "scan" /\ i' = i
  BY DEF pcie_scan_bus_end, Below
<1>3. /\ stack' \in Seq(CallOf)
      /\ \A k \in DOMAIN stack' : k + 1 \in DOMAIN stack /\ stack'[k] = stack[k + 1]
  BY <1>1, <1>2, Popped
<1>4. Tree' /\ Drivers' /\ BridgesInTree' = BridgesInTree /\ Visited' = Visited
  BY <1>2, NothingVisited
<1>5. Opened \subseteq Opened'
  BY <1>1, <1>2, <1>4, OpenedGrows
<1>6. DOMAIN stack' \subseteq Nat \ {0}
  BY <1>3
<1>7. ScanOnce'
  <2>1. \A k \in DOMAIN stack' :
          /\ k + 1 \in DOMAIN stack /\ BusOfCall(stack'[k]) = BusOfCall(stack[k + 1])
          /\ \A g \in DOMAIN space : Passed(g, stack[k + 1]) => Passed(g, stack'[k])
    BY <1>3
  <2>2. left' = left /\ UNCHANGED machine /\ Visited' \ Visited = {}
    BY <1>2, <1>4
  <2>3. 1 \in {0, 1}
    OBVIOUS
  <2> QED
    BY <1>1, <1>5, <1>6, <2>1, <2>2, <2>3, ScanOnceMoves
<1>8. PciTypes'
  <2>1. space' = space /\ Node' = Node /\ CallOf' = CallOf
    BY <1>2, NodeStays DEF space, CallOf
  <2>2. i' \in 1 .. Len(machine.entries) + 1 /\ (phase' = "scan" => i' <= Len(machine.entries))
    BY <1>1, <1>2
  <2> QED
    BY <1>1, <1>2, <1>3, <2>1, <2>2 DEF PciTypes
<1> QED
  BY <1>4, <1>7, <1>8 DEF PciInv

LEMMA AbsentStep ==
    ASSUME PciInv, Absent
    PROVE  PciInv'
<1>1. /\ PciTypes /\ ScanOnce /\ Scanning /\ stack' = << NextDevice(Frame) >> \o Below
      /\ UNCHANGED <<machine, phase, i, buses, ret, inited, left>>
  BY DEF PciInv, Absent
<1>2. Tree' /\ Drivers' /\ BridgesInTree' = BridgesInTree /\ Visited' = Visited
  BY <1>1, NothingVisited
<1>3. /\ buses' \in Seq(Node) /\ buses' # <<>> /\ inited' \in Seq(DOMAIN space)
  BY <1>1 DEF PciTypes, Scanning
<1>4. PciTypes' /\ ScanOnce'
  BY <1>1, <1>2, <1>3, GoOnStep
<1> QED
  BY <1>2, <1>4 DEF PciInv

LEMMA NotFoundStep ==
    ASSUME PciInv, NotFound
    PROVE  PciInv'
<1>1. /\ PciTypes /\ ScanOnce /\ phase = "scan" /\ phase' = "panic"
      /\ UNCHANGED <<machine, i, stack, buses, ret, inited, left>>
  BY DEF PciInv, NotFound, Scanning
<1>2. Tree' /\ Drivers' /\ BridgesInTree' = BridgesInTree /\ Visited' = Visited
  BY <1>1, NothingVisited
<1>3. Opened \subseteq Opened'
  BY <1>1, <1>2, OpenedGrows
<1>4. ScanOnce'
  BY <1>1, <1>2, <1>3 DEF ScanOnce
<1>5. PciTypes'
  <2>1. space' = space /\ Node' = Node /\ CallOf' = CallOf
    BY <1>1, NodeStays DEF space, CallOf
  <2> QED
    BY <1>1, <2>1 DEF PciTypes
<1> QED
  BY <1>2, <1>4, <1>5 DEF PciInv

\* pcie_scan_device at a function that is there, on the node of its bus.
AtFunction(n) == Scanning /\ f0 \in DOMAIN space /\ n \in pci_tree_get_bus_by_id(Frame.bus)

LEMMA DeviceFacts ==
    ASSUME PciInv, NEW n, AtFunction(n)
    PROVE  /\ PciTypes /\ ScanOnce /\ Tree /\ Drivers /\ Scanning /\ n \in DOMAIN buses
           /\ f0 \in DOMAIN space /\ f0[2] = buses[n].id /\ f0 \notin Visited /\ f0 \notin InTree
           /\ buses \in Seq(Node) /\ buses # <<>> /\ inited \in Seq(DOMAIN space)
<1>1. PciTypes /\ ScanOnce /\ Tree /\ Drivers /\ Scanning /\ f0 \in DOMAIN space
  BY DEF PciInv, AtFunction
<1>2. buses \in Seq(Node) /\ buses # <<>> /\ inited \in Seq(DOMAIN space)
  BY <1>1 DEF PciTypes, Scanning
<1>3. n \in DOMAIN buses /\ buses[n].id = Frame.bus
  BY <1>1, <1>2, LookupFindsTheBus DEF AtFunction
<1>4. f0[2] = Frame.bus
  BY DEF f0
<1>5. f0 \notin Visited
  BY <1>1, FrameFacts
<1> QED
  BY <1>1, <1>2, <1>3, <1>4, <1>5 DEF Visited

LEMMA GeneralDeviceStep ==
    ASSUME PciInv, NEW n, AtFunction(n), GeneralDevice(n), UNCHANGED <<machine, i, ret>>
    PROVE  PciInv'
<1>1. /\ PciTypes /\ ScanOnce /\ Tree /\ Drivers /\ Scanning /\ n \in DOMAIN buses
      /\ f0 \in DOMAIN space /\ f0[2] = buses[n].id /\ f0 \notin InTree
      /\ buses \in Seq(Node) /\ buses # <<>> /\ inited \in Seq(DOMAIN space)
  BY DeviceFacts
<1>2. PICK f : f = f0
  OBVIOUS
<1>3. f \in DOMAIN space
  BY <1>1, <1>2
<1>4. PICK taken \in pci_init_device(f), memory \in BOOLEAN :
         /\ inited' = IF taken THEN Append(inited, f) ELSE inited
         /\ IF taken /\ memory
            THEN /\ buses' = pci_tree_install_device(f, n)
                 /\ stack' = << Advanced(Frame) >> \o Below
                 /\ UNCHANGED <<phase, left>>
            ELSE GiveUp /\ UNCHANGED buses
  <2>1. \E taken \in pci_init_device(f0), memory \in BOOLEAN :
         /\ inited' = IF taken THEN Append(inited, f0) ELSE inited
         /\ IF taken /\ memory
            THEN /\ buses' = pci_tree_install_device(f0, n)
                 /\ stack' = << Advanced(Frame) >> \o Below
                 /\ UNCHANGED <<phase, left>>
            ELSE GiveUp /\ UNCHANGED buses
    BY DEF GeneralDevice
  <2> QED
    BY <1>2, <2>1, Zenon
<1>5. /\ inited' \in {inited, Append(inited, f)} /\ inited' \in Seq(DOMAIN space)
      /\ ToSet(inited') \subseteq ToSet(inited) \cup {f} /\ ToSet(inited) \subseteq ToSet(inited')
      /\ taken => f \in ToSet(inited')
  <2>1. Append(inited, f) \in Seq(DOMAIN space) /\ ToSet(Append(inited, f)) = ToSet(inited) \cup {f}
    BY <1>1, <1>3, Appended
  <2> QED
    BY <1>1, <1>4, <2>1
<1>6. UNCHANGED machine
  OBVIOUS
<1>7. CASE taken /\ memory
  <2>1. /\ buses' = pci_tree_install_device(f, n) /\ UNCHANGED <<phase, left>>
        /\ stack' = << Advanced(Frame) >> \o Below
    BY <1>4, <1>7
  <2>2. /\ \A m \in DOMAIN buses \ {n} : DevsOf(m)' = DevsOf(m)
        /\ DevsOf(n)' = DevsOf(n) \cup {f}
        /\ InTree' = InTree \cup {f} /\ BridgesInTree' = BridgesInTree
    BY <1>1, <1>3, <2>1, InTreeWithDevice
  <2>3. buses' \in Seq(Node) /\ buses' # <<>> /\ DOMAIN buses' = DOMAIN buses
    BY <1>1, <1>3, <2>1, DeviceInstalled
  <2>4. Tree'
    BY <1>1, <1>2, <1>3, <2>1, TreeWithDevice
  <2>5. \A m \in DOMAIN buses' : DevsOf(m)' \subseteq ToSet(inited')
    BY <1>1, <1>5, <1>7, <2>2, <2>3 DEF Drivers
  <2>6. Drivers'
    BY <1>1, <1>2, <1>3, <1>5, <2>1, <2>2, <2>5, DriversGrow
  <2>7. \A g \in Visited' \ Visited : g = f0 /\ f0 \in DOMAIN space
    BY <1>2, <1>3, <1>5, <2>2 DEF Visited
  <2>8. PciTypes' /\ ScanOnce'
    BY <1>1, <1>5, <2>1, <2>2, <2>3, <2>7, Places, GoOnStep
  <2> QED
    BY <2>4, <2>6, <2>8 DEF PciInv
<1>8. CASE ~ (taken /\ memory)
  <2>1. GiveUp /\ UNCHANGED buses
    BY <1>4, <1>8
  <2>2. \A m : DevsOf(m)' = DevsOf(m) /\ BridgesOf(m)' = BridgesOf(m)
    BY <2>1 DEF DevsOf, BridgesOf
  <2>3. InTree' = InTree /\ BridgesInTree' = BridgesInTree
    BY <2>1, <2>2 DEF InTree, BridgesInTree
  <2>4. Visited' \subseteq Visited \cup {f}
    BY <1>5, <2>3 DEF Visited
  <2>5. PciTypes' /\ ScanOnce' /\ left' = left \cup {BusOf(f)}
    BY <1>1, <1>2, <1>3, <1>5, <2>1, <2>3, <2>4, GiveUpStep
  <2>6. Tree'
    BY <1>1, <2>1, TreeKept
  <2>7. \A m \in DOMAIN buses' : DevsOf(m)' \subseteq ToSet(inited')
    BY <1>1, <1>5, <2>1, <2>2 DEF Drivers
  <2>8. Drivers'
    BY <1>1, <1>2, <1>3, <1>5, <2>3, <2>5, <2>7, DriversGrow
  <2> QED
    BY <2>5, <2>6, <2>8 DEF PciInv
<1> QED
  BY <1>7, <1>8

LEMMA BridgeStep ==
    ASSUME PciInv, Numbered(machine), NEW n, AtFunction(n), PciToPciBridge(n),
           UNCHANGED <<machine, i, ret>>
    PROVE  PciInv'
<1>1. /\ PciTypes /\ ScanOnce /\ Tree /\ Drivers /\ Scanning /\ n \in DOMAIN buses
      /\ f0 \in DOMAIN space /\ f0[2] = buses[n].id /\ f0 \notin InTree
      /\ buses \in Seq(Node) /\ buses # <<>> /\ inited \in Seq(DOMAIN space)
  BY DeviceFacts
<1>2. PICK f : f = f0
  OBVIOUS
<1>3. f \in DOMAIN space /\ space[f].type = "pci_to_pci_bridge" /\ UNCHANGED inited
  BY <1>1, <1>2 DEF PciToPciBridge
<1>4. UNCHANGED machine
  OBVIOUS
<1>5. CASE buses' = pci_tree_install_bus(f, n) /\ stack' = Bridge(f) /\ UNCHANGED <<phase, left>>
  <2>1. /\ \A m \in DOMAIN buses : DevsOf(m)' = DevsOf(m)
        /\ InTree' = InTree \cup {f} /\ BridgesInTree' = BridgesInTree \cup {f}
    BY <1>1, <1>3, <1>5, InTreeWithBridge
  <2>2. buses' \in Seq(Node) /\ buses' # <<>>
    BY <1>1, <1>3, <1>5, BusInstalled
  <2>3. Tree'
    BY <1>1, <1>2, <1>3, <1>5, TreeWithBridge
  <2>4. \A m \in DOMAIN buses' : DevsOf(m)' \subseteq ToSet(inited')
    <3>1. PICK L : L = Len(buses) + 1
      OBVIOUS
    <3>2. DevsOf(L)' = {} /\ DOMAIN buses' = DOMAIN buses \cup {L}
      BY <1>1, <1>3, <1>5, <3>1, InTreeWithBridge
    <3> QED
      BY <1>1, <1>3, <2>1, <3>2 DEF Drivers
  <2>5. Drivers'
    BY <1>1, <1>2, <1>3, <1>5, <2>1, <2>4, DriversGrow
  <2>6. PICK x : x = Advanced(Frame)
    OBVIOUS
  <2>7. /\ x \in {NextDevice(Frame), NextFunction(Frame)}
        /\ stack' = <<pcie_scan_bus(Frame.base, space[f].secondary), x>> \o Below
    BY <1>5, <2>6, Places DEF Bridge
  <2>8. PciTypes' /\ ScanOnce'
    BY <1>1, <1>2, <1>3, <1>5, <2>1, <2>2, <2>7, PushStep
  <2> QED
    BY <2>3, <2>5, <2>8 DEF PciInv
<1>6. CASE buses' \in {buses, Append(buses, pci_tree_create_bus(f))} /\ GiveUp
  <2>1. /\ Tree' /\ InTree' = InTree /\ BridgesInTree' = BridgesInTree
        /\ buses' \in Seq(Node) /\ buses' # <<>>
        /\ \A m \in DOMAIN buses' : DevsOf(m)' \subseteq ToSet(inited')
    <3>1. CASE buses' = buses
      <4>1. \A m : DevsOf(m)' = DevsOf(m) /\ BridgesOf(m)' = BridgesOf(m)
        BY <3>1 DEF DevsOf, BridgesOf
      <4>2. InTree' = InTree /\ BridgesInTree' = BridgesInTree
        BY <3>1, <4>1 DEF InTree, BridgesInTree
      <4>3. Tree'
        BY <1>1, <3>1, TreeKept
      <4> QED
        BY <1>1, <1>3, <3>1, <4>1, <4>2, <4>3 DEF Drivers
    <3>2. CASE buses' = Append(buses, pci_tree_create_bus(f))
      <4>1. PICK L : L = Len(buses) + 1
        OBVIOUS
      <4>2. /\ \A m \in DOMAIN buses : DevsOf(m)' = DevsOf(m) /\ BridgesOf(m)' = BridgesOf(m)
            /\ DevsOf(L)' = {} /\ DOMAIN buses' = DOMAIN buses \cup {L}
            /\ InTree' = InTree /\ BridgesInTree' = BridgesInTree
        BY <1>1, <1>3, <3>2, <4>1, InTreeWithLost
      <4>3. Tree'
        BY <1>1, <1>3, <3>2, TreeWithLost
      <4>4. buses' \in Seq(Node) /\ buses' # <<>>
        BY <1>1, <1>3, <3>2, NodeLost
      <4> QED
        BY <1>1, <1>3, <4>2, <4>3, <4>4 DEF Drivers
    <3> QED
      BY <1>6, <3>1, <3>2
  <2>2. Visited' \subseteq Visited \cup {f}
    BY <1>3, <2>1 DEF Visited
  <2>3. PciTypes' /\ ScanOnce' /\ left' = left \cup {BusOf(f)}
    <3>1. inited' \in Seq(DOMAIN space) /\ GiveUp
      BY <1>1, <1>3, <1>6
    <3> QED
      BY <1>1, <1>2, <1>3, <2>1, <2>2, <3>1, GiveUpStep
  <2>4. Drivers'
    BY <1>1, <1>3, <2>1, <2>3, DriversKept
  <2> QED
    BY <2>1, <2>3, <2>4 DEF PciInv
<1> QED
  BY <1>2, <1>5, <1>6 DEF PciToPciBridge

LEMMA OtherStep ==
    ASSUME PciInv, NEW n, AtFunction(n), OtherHeader, UNCHANGED <<machine, i, ret>>
    PROVE  PciInv'
<1>1. /\ PciTypes /\ ScanOnce /\ Scanning /\ buses \in Seq(Node) /\ buses # <<>>
      /\ inited \in Seq(DOMAIN space)
  BY DeviceFacts
<1>2. stack' = << Unsupported(Frame) >> \o Below /\ UNCHANGED <<phase, buses, inited, left>>
  BY DEF OtherHeader
<1>3. Tree' /\ Drivers' /\ BridgesInTree' = BridgesInTree /\ Visited' = Visited
  BY <1>2, NothingVisited
<1>4. PciTypes' /\ ScanOnce'
  BY <1>1, <1>2, <1>3, Places, GoOnStep
<1> QED
  BY <1>3, <1>4 DEF PciInv

LEMMA PciStutter ==
    ASSUME PciInv, UNCHANGED pciVars
    PROVE  PciInv'
<1>1. UNCHANGED <<machine, phase, i, stack, buses, ret, inited, left>>
  BY DEF pciVars
<1>2. Tree' /\ Drivers' /\ BridgesInTree' = BridgesInTree /\ Visited' = Visited
  BY <1>1, NothingVisited
<1>3. Opened' = Opened
  BY <1>1, <1>2 DEF Opened, space
<1>4. ScanOnce'
  BY <1>1, <1>2, <1>3 DEF PciInv, ScanOnce
<1>5. PciTypes'
  <2>1. space' = space /\ Node' = Node /\ CallOf' = CallOf
    BY <1>1, NodeStays DEF space, CallOf
  <2> QED
    BY <1>1, <2>1 DEF PciInv, PciTypes
<1> QED
  BY <1>2, <1>4, <1>5 DEF PciInv

LEMMA PciNextKeeps ==
    ASSUME PciInv, Numbered(machine), [PciNext]_pciVars
    PROVE  PciInv'
<1>1. ASSUME pcie_scan_device
      PROVE  PciInv'
  <2>1. PICK n \in pci_tree_get_bus_by_id(Frame.bus) :
          GeneralDevice(n) \/ PciToPciBridge(n) \/ OtherHeader
    BY <1>1 DEF pcie_scan_device
  <2>2. AtFunction(n) /\ UNCHANGED <<machine, i, ret>>
    BY <1>1 DEF pcie_scan_device, AtFunction
  <2> QED
    BY <2>1, <2>2, GeneralDeviceStep, BridgeStep, OtherStep
<1> QED
  BY <1>1, RootStep, EntryStep, EndStep, ReturnStep, AbsentStep, NotFoundStep, PciStutter DEF PciNext

LEMMA MachineStays ==
    ASSUME [PciNext]_pciVars
    PROVE  machine' = machine
  BY DEF PciNext, pciVars, init_pci_root, pcie_iterate_mcfg, pcie_iterate_mcfg_end,
         pcie_scan_bus_end, Absent, NotFound, pcie_scan_device

LEMMA SpecPciInv ==
    ASSUME \A m \in Machines : Numbered(m)
    PROVE  PciSpec => []PciInv
<1>1. PciInit => PciInv
  BY InitMeetsPciInv
<1>2. PciInv /\ [PciNext]_pciVars => PciInv'
  <2>1. PciInv => Numbered(machine)
    BY DEF PciInv, PciTypes
  <2> QED
    BY <2>1, PciNextKeeps
<1> QED
  BY <1>1, <1>2, PTL DEF PciSpec

(***************************************************************************)
(* On a machine that gave every bus a number of its own, the tree built by *)
(* pcie_scan_device is that of the machine at every step, whichever        *)
(* kmalloc failed or driver refused: a device hangs on the node of its     *)
(* bus, a bridge joins the node of its bus to that of the bus behind it,   *)
(* and nothing is linked twice.                                            *)
(***************************************************************************)
THEOREM TreeHasTheTopology ==
    ASSUME \A m \in Machines : Numbered(m)
    PROVE  PciSpec => []TreeIsTheTopology
<1>1. ASSUME PciInv
      PROVE  TreeIsTheTopology
  <2>1. PciTypes /\ Tree
    BY <1>1 DEF PciInv
  <2>2. PciTypeOK
    <3>1. \A frame \in ToSet(stack) : frame.dev \in 0 .. Devices /\ frame.fnc \in 0 .. Functions - 1
      <4>1. SUFFICES ASSUME NEW k \in DOMAIN stack
                     PROVE  stack[k].dev \in 0 .. Devices /\ stack[k].fnc \in 0 .. Functions - 1
        BY DEF ToSet
      <4>2. stack[k] \in CallOf
        BY <2>1, ElementOf DEF PciTypes
      <4> QED
        BY <4>2 DEF CallOf
    <3>2. \A n \in DOMAIN buses : DevsOf(n) \union BridgesOf(n) \subseteq DOMAIN space
      BY <2>1, NodeFacts
    <3>3. ToSet(inited) \subseteq DOMAIN space
      BY <2>1 DEF PciTypes, ToSet
    <3>4. phase = "scan" <=> (stack # <<>> /\ phase # "panic")
      BY <2>1 DEF PciTypes
    <3> QED
      BY <2>1, <3>1, <3>2, <3>3, <3>4 DEF PciTypes, PciTypeOK
  <2>3. ASSUME NEW n \in DOMAIN buses
        PROVE  /\ \A f \in DevsOf(n) \union BridgesOf(n) : f[2] = buses[n].id
               /\ \A b \in ToSet(buses[n].bridges) : buses[b.secondary].id = space[b.bridge].secondary
               /\ IsInjective(buses[n].devs)
    BY <2>1 DEF Tree, Nodes, Links, Leading, Separate, ToSet
  <2>4. ASSUME NEW n \in DOMAIN buses, NEW m \in DOMAIN buses
        PROVE  /\ n # m => (DevsOf(n) \intersect DevsOf(m)) = {}
               /\ \A k \in DOMAIN buses[n].bridges, j \in DOMAIN buses[m].bridges :
                    <<n, k>> # <<m, j>> =>
                      /\ buses[n].bridges[k].secondary # buses[m].bridges[j].secondary
                      /\ buses[n].bridges[k].bridge # buses[m].bridges[j].bridge
    <3>1. n # m => (DevsOf(n) \intersect DevsOf(m)) = {}
      BY <2>1 DEF Tree, Nodes, Links, Leading, Separate
    <3>2. ASSUME NEW k \in DOMAIN buses[n].bridges, NEW j \in DOMAIN buses[m].bridges, <<n, k>> # <<m, j>>
          PROVE  /\ buses[n].bridges[k].secondary # buses[m].bridges[j].secondary
                 /\ buses[n].bridges[k].bridge # buses[m].bridges[j].bridge
      <4>1. n # m \/ k # j
        BY <3>2
      <4> QED
        BY <2>1, <4>1 DEF Tree, Nodes, Links, Leading, Separate
    <3> QED
      BY <3>1, <3>2
  <2> QED
    BY <2>2, <2>3, <2>4 DEF TreeIsTheTopology
<1> QED
  BY <1>1, SpecPciInv, PTL

(***************************************************************************)
(* On such a machine pci_init_device is called once for a function, before *)
(* the function is in the tree; a function its driver took and that is not *)
(* in the tree is the last of a bus whose scan was given up.               *)
(***************************************************************************)
THEOREM DriversAreRunOnce ==
    ASSUME \A m \in Machines : Numbered(m)
    PROVE  PciSpec => []DriversRunOnce
<1>1. PciInv => DriversRunOnce
  BY DEF PciInv, Drivers, DriversRunOnce, BusOf
<1> QED
  BY <1>1, SpecPciInv, PTL

-----------------------------------------------------------------------------
(* No function is missed.  A function of a bus whose scan has begun is in   *)
(* the tree, or it lies behind the place of the scan of its bus.            *)

\* The scan of its bus has not come to a function.
Waiting(f) == \E k \in DOMAIN stack : BusOf(f) = BusOfCall(stack[k]) /\ ~ Passed(f, stack[k])

Known(f) == f \in DOMAIN space /\ Seen(f) /\ space[f].type \in Headers

Entered == phase \in {"entries", "scan"} \/ i > Len(machine.entries)

Complete ==
    Entered => \A f : Known(f) /\ BusOf(f) \in Opened \ left => f \in InTree \/ Waiting(f)

LEMMA KnownStays ==
    ASSUME UNCHANGED machine
    PROVE  \A f : Known(f)' <=> Known(f)
  BY DEF Known, Seen, space

\* The functions passed from one place to the next are in the tree, or were
\* not to be seen.
LEMMA PassedInAbsent ==
    ASSUME PciTypes, ScanOnce, Scanning, f0 \notin DOMAIN space,
           NEW f, Known(f), BusOf(f) = BusOfCall(Frame), ~ Passed(f, Frame)
    PROVE  ~ Passed(f, NextDevice(Frame))
<1>1. /\ Frame \in CallOf /\ f \in DOMAIN space /\ Seen(f)
  BY FrameFacts DEF Known
<1>2. /\ Frame.dev \in Nat /\ Frame.fnc \in Nat /\ f[3] \in Nat /\ f[4] \in Nat
  BY <1>1, FunctionFacts DEF CallOf
<1>3. NextDevice(Frame).dev = Frame.dev + 1 /\ NextDevice(Frame).fnc = 0
  BY <1>1 DEF NextDevice, CallOf
<1>4. SUFFICES ASSUME Passed(f, NextDevice(Frame))
               PROVE  FALSE
  OBVIOUS
<1>5. f[3] = Frame.dev /\ Frame.fnc <= f[4]
  BY <1>2, <1>3, <1>4 DEF Passed
<1>6. <<f[1], f[2], f[3], Frame.fnc>> \in DOMAIN space
  BY <1>1, <1>2, <1>5 DEF Seen
<1> QED
  BY <1>5, <1>6 DEF f0, BusOf, BusOfCall

LEMMA PassedInPlace ==
    ASSUME PciTypes, ScanOnce, Scanning, f0 \in DOMAIN space,
           NEW f, Known(f), BusOf(f) = BusOfCall(Frame), ~ Passed(f, Frame), f # f0
    PROVE  /\ ~ Passed(f, NextFunction(Frame))
           /\ space[f0].type \in Headers => ~ Passed(f, Advanced(Frame))
<1>1. /\ Frame \in CallOf /\ f \in DOMAIN space /\ Seen(f)
  BY FrameFacts DEF Known
<1>2. /\ Frame.dev \in Nat /\ Frame.fnc \in 0 .. Functions - 1 /\ f[3] \in Nat
      /\ f[4] \in 0 .. Functions - 1 /\ f = <<f[1], f[2], f[3], f[4]>>
  BY <1>1, FunctionFacts DEF CallOf
<1>3. NextDevice(Frame).dev = Frame.dev + 1 /\ NextDevice(Frame).fnc = 0
  BY <1>1 DEF NextDevice, CallOf
<1>4. f[1] = Frame.base /\ f[2] = Frame.bus
  BY DEF BusOf, BusOfCall
<1>5. ~ (f[3] = Frame.dev /\ f[4] = Frame.fnc)
  BY <1>2, <1>4 DEF f0
<1>6. \/ f[3] > Frame.dev
      \/ f[3] = Frame.dev /\ f[4] > Frame.fnc
  BY <1>2, <1>5 DEF Passed
<1>7. ~ Passed(f, NextFunction(Frame))
  <2>1. CASE Frame.fnc + 1 = Functions
    <3>1. f[3] > Frame.dev
      BY <1>2, <1>6, <2>1
    <3>2. NextFunction(Frame) = NextDevice(Frame)
      BY <2>1 DEF NextFunction
    <3> QED
      BY <1>2, <1>3, <3>1, <3>2 DEF Passed
  <2>2. CASE Frame.fnc + 1 # Functions
    <3>1. NextFunction(Frame).dev = Frame.dev /\ NextFunction(Frame).fnc = Frame.fnc + 1
      BY <1>1, <2>2 DEF NextFunction, CallOf
    <3> QED
      BY <1>2, <1>6, <3>1 DEF Passed
  <2> QED
    BY <2>1, <2>2
<1>8. ASSUME space[f0].type \in Headers, ~ space[f0].multifunction, Frame.fnc = 0
      PROVE  ~ Passed(f, NextDevice(Frame))
  <2>1. CASE f[3] > Frame.dev
    BY <1>2, <1>3, <2>1 DEF Passed
  <2>2. CASE f[3] = Frame.dev /\ f[4] > 0
    <3>1. f0 = <<f[1], f[2], f[3], 0>> /\ f[4] # 0
      BY <1>2, <1>4, <1>8, <2>2 DEF f0
    <3> QED
      BY <1>1, <1>8, <3>1 DEF Seen
  <2> QED
    BY <1>6, <1>8, <2>1, <2>2
<1> QED
  BY <1>7, <1>8 DEF Advanced

LEMMA OpenedSame ==
    ASSUME PciTypes, UNCHANGED machine, BridgesInTree' = BridgesInTree,
           \/ i' = i /\ (phase' = "entries" <=> phase = "entries")
           \/ i' = i + 1 /\ phase # "entries" /\ phase' = "entries"
    PROVE  Opened' = Opened
<1>1. DOMAIN machine.entries \subseteq Nat /\ i \in Nat
  BY DEF PciTypes
<1>2. \A j \in DOMAIN machine.entries :
          j < i' \/ (j = i' /\ phase' # "entries") <=> j < i \/ (j = i /\ phase # "entries")
  BY <1>1
<1>3. {j \in DOMAIN machine.entries : j < i' \/ (j = i' /\ phase' # "entries")}
        = {j \in DOMAIN machine.entries : j < i \/ (j = i /\ phase # "entries")}
  BY <1>2
<1> QED
  BY <1>3 DEF Opened, space

\* The scan of a bus goes on.
LEMMA CompleteGoesOn ==
    ASSUME PciTypes, ScanOnce, Scanning, Complete, UNCHANGED <<machine, i, phase, left>>,
           InTree \subseteq InTree', BridgesInTree' = BridgesInTree,
           NEW x \in CallOf, stack' = <<x>> \o Below,
           \A f : Known(f) /\ BusOf(f) = BusOfCall(Frame) /\ ~ Passed(f, Frame)
                    => f \in InTree' \/ (BusOf(f) = BusOfCall(x) /\ ~ Passed(f, x))
    PROVE  Complete'
<1>1. stack \in Seq(CallOf) /\ stack # <<>> /\ 1 \in DOMAIN stack /\ Frame = stack[1]
  BY FrameFacts
<1>2. /\ DOMAIN stack' = DOMAIN stack /\ stack'[1] = x
      /\ \A k \in DOMAIN stack \ {1} : stack'[k] = stack[k]
  BY <1>1, Replaced DEF Below
<1>3. Opened' = Opened
  BY OpenedSame
<1>4. Entered
  BY DEF Entered, Scanning
<1>5. ASSUME NEW f, Known(f), BusOf(f) \in Opened' \ left'
      PROVE  f \in InTree' \/ Waiting(f)'
  <2>1. f \in InTree \/ Waiting(f)
    BY <1>3, <1>4, <1>5 DEF Complete
  <2>2. CASE Waiting(f)
    <3>1. PICK k \in DOMAIN stack : BusOf(f) = BusOfCall(stack[k]) /\ ~ Passed(f, stack[k])
      BY <2>2 DEF Waiting
    <3>2. CASE k = 1
      <4>1. f \in InTree' \/ (BusOf(f) = BusOfCall(x) /\ ~ Passed(f, x))
        BY <1>1, <1>5, <3>1, <3>2
      <4>2. 1 \in DOMAIN stack' /\ stack'[1] = x
        BY <1>1, <1>2
      <4> QED
        BY <4>1, <4>2 DEF Waiting, BusOf, BusOfCall, Passed
    <3>3. CASE k # 1
      BY <1>2, <3>1, <3>3 DEF Waiting, BusOf, BusOfCall, Passed
    <3> QED
      BY <3>2, <3>3
  <2> QED
    BY <2>1, <2>2
<1> QED
  BY <1>5, KnownStays DEF Complete, BusOf

\* The innermost call ends: its bus was given up, or has no function behind the
\* place.
LEMMA CompleteReturns ==
    ASSUME PciTypes, ScanOnce, Complete, phase = "scan", UNCHANGED machine,
           InTree \subseteq InTree', Opened' = Opened, left \subseteq left', stack' = Tail(stack),
           \A f : Known(f) /\ BusOf(f) = BusOfCall(stack[1]) /\ ~ Passed(f, stack[1])
                    => BusOf(f) \in left'
    PROVE  Complete'
<1>1. stack \in Seq(CallOf) /\ stack # <<>> /\ DOMAIN stack = 1 .. Len(stack) /\ Len(stack) \in Nat \ {0}
  BY DEF PciTypes
<1>2. DOMAIN stack' = 1 .. Len(stack) - 1 /\ \A k \in 2 .. Len(stack) : stack'[k - 1] = stack[k]
  BY <1>1
<1>3. ASSUME NEW f, Known(f), BusOf(f) \in Opened' \ left'
      PROVE  f \in InTree' \/ Waiting(f)'
  <2>1. f \in InTree \/ Waiting(f)
    BY <1>3 DEF Complete, Entered
  <2>2. CASE Waiting(f)
    <3>1. PICK k \in DOMAIN stack : BusOf(f) = BusOfCall(stack[k]) /\ ~ Passed(f, stack[k])
      BY <2>2 DEF Waiting
    <3>2. k # 1
      BY <1>3, <3>1
    <3>3. k \in 2 .. Len(stack) /\ k - 1 \in DOMAIN stack'
      BY <1>1, <1>2, <3>2
    <3> QED
      BY <1>2, <3>1, <3>3 DEF Waiting, BusOf, BusOfCall, Passed
  <2> QED
    BY <2>1, <2>2
<1> QED
  BY <1>3, KnownStays DEF Complete, BusOf

\* A call is added: the scan of a bus begins.
LEMMA CompletePushes ==
    ASSUME PciTypes, ScanOnce, Complete, Entered, UNCHANGED <<machine, left>>, InTree \subseteq InTree',
           NEW y \in CallOf, y.dev = 0, y.fnc = 0, 1 \in DOMAIN stack', stack'[1] = y,
           Opened' \subseteq Opened \cup {BusOfCall(y)},
           \A f : Known(f) /\ Waiting(f) => f \in InTree' \/ Waiting(f)'
    PROVE  Complete'
<1>1. ASSUME NEW f, Known(f), BusOf(f) \in Opened' \ left'
      PROVE  f \in InTree' \/ Waiting(f)'
  <2>1. CASE BusOf(f) \in Opened
    BY <1>1, <2>1 DEF Complete
  <2>2. CASE BusOf(f) = BusOfCall(y)
    <3>1. f[3] \in Nat /\ f[4] \in Nat
      BY <1>1, FunctionFacts DEF Known
    <3>2. ~ Passed(f, y)
      BY <3>1 DEF Passed
    <3> QED
      BY <2>2, <3>2 DEF Waiting, BusOf, BusOfCall, Passed
  <2> QED
    BY <1>1, <2>1, <2>2
<1> QED
  BY <1>1, KnownStays DEF Complete, BusOf

\* Complete is kept by each step.
LEMMA CompleteAfterAbsent ==
    ASSUME PciInv, Complete, Absent
    PROVE  Complete'
<1>1. /\ PciTypes /\ ScanOnce /\ Scanning /\ stack' = << NextDevice(Frame) >> \o Below
      /\ f0 \notin DOMAIN space
      /\ UNCHANGED <<machine, phase, i, buses, ret, inited, left>>
  BY DEF PciInv, Absent
<1>2. InTree' = InTree /\ BridgesInTree' = BridgesInTree
  BY <1>1, NothingVisited
<1>3. NextDevice(Frame) \in CallOf /\ BusOfCall(NextDevice(Frame)) = BusOfCall(Frame)
  BY <1>1, NextPlace
<1>4. \A f : Known(f) /\ BusOf(f) = BusOfCall(Frame) /\ ~ Passed(f, Frame)
                => BusOf(f) = BusOfCall(NextDevice(Frame)) /\ ~ Passed(f, NextDevice(Frame))
  BY <1>1, <1>3, PassedInAbsent
<1> QED
  BY <1>1, <1>2, <1>3, <1>4, CompleteGoesOn

LEMMA CompleteAfterOther ==
    ASSUME PciInv, Complete, NEW n, AtFunction(n), OtherHeader, UNCHANGED <<machine, i, ret>>
    PROVE  Complete'
<1>1. /\ PciTypes /\ ScanOnce /\ Scanning /\ f0 \in DOMAIN space
  BY DeviceFacts
<1>2. /\ stack' = << NextFunction(Frame) >> \o Below /\ UNCHANGED <<phase, buses, inited, left>>
      /\ space[f0].type \notin Headers
  BY DEF OtherHeader, Unsupported
<1>3. InTree' = InTree /\ BridgesInTree' = BridgesInTree
  BY <1>2, NothingVisited
<1>4. NextFunction(Frame) \in CallOf /\ BusOfCall(NextFunction(Frame)) = BusOfCall(Frame)
  BY <1>1, NextPlace
<1>5. ASSUME NEW f, Known(f), BusOf(f) = BusOfCall(Frame), ~ Passed(f, Frame)
      PROVE  BusOf(f) = BusOfCall(NextFunction(Frame)) /\ ~ Passed(f, NextFunction(Frame))
  <2>1. f # f0
    BY <1>2, <1>5 DEF Known
  <2> QED
    BY <1>1, <1>4, <1>5, <2>1, PassedInPlace
<1> QED
  BY <1>1, <1>2, <1>3, <1>4, <1>5, CompleteGoesOn

\* pcie_scan_bus returns false.
LEMMA CompleteAfterGiveUp ==
    ASSUME PciTypes, ScanOnce, Scanning, Complete, GiveUp, UNCHANGED <<machine, i>>,
           f0 \in DOMAIN space, InTree' = InTree, BridgesInTree' = BridgesInTree
    PROVE  Complete'
<1>1. /\ phase = "scan" /\ stack' = Tail(stack) /\ phase' # "entries"
      /\ left' = left \cup {BusOfCall(stack[1])}
  BY DEF Scanning, GiveUp, Below, Frame, BusOfCall
<1>2. Opened' = Opened
  BY <1>1, OpenedSame
<1> QED
  BY <1>1, <1>2, CompleteReturns

LEMMA CompleteAfterReturn ==
    ASSUME PciInv, Complete, pcie_scan_bus_end
    PROVE  Complete'
<1>1. /\ PciTypes /\ ScanOnce /\ phase = "scan" /\ stack \in Seq(CallOf) /\ stack # <<>>
  BY DEF PciInv, PciTypes, pcie_scan_bus_end
<1>2. /\ stack' = Tail(stack) /\ UNCHANGED <<machine, buses, ret, inited, left>>
      /\ IF stack' = <<>> THEN phase' = "entries" /\ i' = i + 1 ELSE phase' = "scan" /\ i' = i
      /\ stack[1].dev = Devices
  BY DEF pcie_scan_bus_end, Below, Frame
<1>3. InTree' = InTree /\ BridgesInTree' = BridgesInTree
  BY <1>2, NothingVisited
<1>4. Opened' = Opened
  BY <1>1, <1>2, <1>3, OpenedSame
<1>5. ASSUME NEW f, Known(f)
      PROVE  Passed(f, stack[1])
  <2>1. f[3] \in 0 .. Devices - 1
    BY <1>1, <1>5, FunctionFacts DEF Known
  <2> QED
    BY <1>2, <2>1 DEF Passed
<1> QED
  BY <1>1, <1>2, <1>3, <1>4, <1>5, CompleteReturns

LEMMA CompleteAfterDevice ==
    ASSUME PciInv, Complete, NEW n, AtFunction(n), GeneralDevice(n), UNCHANGED <<machine, i, ret>>
    PROVE  Complete'
<1>1. /\ PciTypes /\ ScanOnce /\ Scanning /\ n \in DOMAIN buses /\ f0 \in DOMAIN space
  BY DeviceFacts
<1>2. space[f0].type \in Headers
  BY DEF GeneralDevice, Headers
<1>3. CASE /\ buses' = pci_tree_install_device(f0, n)
           /\ stack' = << Advanced(Frame) >> \o Below
           /\ UNCHANGED <<phase, left>>
  <2>1. PICK f : f = f0
    OBVIOUS
  <2>2. InTree' = InTree \cup {f} /\ BridgesInTree' = BridgesInTree
    BY <1>1, <1>3, <2>1, InTreeWithDevice
  <2>3. Advanced(Frame) \in CallOf /\ BusOfCall(Advanced(Frame)) = BusOfCall(Frame)
    BY <1>1, NextPlace, Places
  <2>4. ASSUME NEW g, Known(g), BusOf(g) = BusOfCall(Frame), ~ Passed(g, Frame), g \notin InTree'
        PROVE  BusOf(g) = BusOfCall(Advanced(Frame)) /\ ~ Passed(g, Advanced(Frame))
    <3>1. g # f0
      BY <2>1, <2>2, <2>4
    <3> QED
      BY <1>1, <1>2, <2>3, <2>4, <3>1, PassedInPlace
  <2>5. InTree \subseteq InTree'
    BY <2>2
  <2> QED
    BY <1>1, <1>3, <2>2, <2>3, <2>4, <2>5, CompleteGoesOn
<1>4. CASE GiveUp /\ UNCHANGED buses
  <2>1. \A m : DevsOf(m)' = DevsOf(m) /\ BridgesOf(m)' = BridgesOf(m)
    BY <1>4 DEF DevsOf, BridgesOf
  <2>2. InTree' = InTree /\ BridgesInTree' = BridgesInTree
    BY <1>4, <2>1 DEF InTree, BridgesInTree
  <2> QED
    BY <1>1, <1>4, <2>2, CompleteAfterGiveUp
<1> QED
  BY <1>3, <1>4 DEF GeneralDevice

LEMMA CompleteAfterBridge ==
    ASSUME PciInv, Complete, NEW n, AtFunction(n), PciToPciBridge(n), UNCHANGED <<machine, i, ret>>
    PROVE  Complete'
<1>1. /\ PciTypes /\ ScanOnce /\ Tree /\ Scanning /\ n \in DOMAIN buses /\ f0 \in DOMAIN space
      /\ f0 \notin InTree
  BY DeviceFacts
<1>2. PICK f : f = f0
  OBVIOUS
<1>3. f \in DOMAIN space /\ space[f].type = "pci_to_pci_bridge" /\ space[f].type \in Headers
  BY <1>1, <1>2 DEF PciToPciBridge, Headers
<1>4. CASE buses' = pci_tree_install_bus(f, n) /\ stack' = Bridge(f) /\ UNCHANGED <<phase, left>>
  <2>1. InTree' = InTree \cup {f} /\ BridgesInTree' = BridgesInTree \cup {f}
    BY <1>1, <1>3, <1>4, InTreeWithBridge
  <2>2. PICK y : y = pcie_scan_bus(Frame.base, space[f].secondary)
    OBVIOUS
  <2>3. PICK x : x = Advanced(Frame)
    OBVIOUS
  <2>4. /\ stack \in Seq(CallOf) /\ stack # <<>> /\ 1 \in DOMAIN stack
        /\ Frame = stack[1] /\ Frame \in CallOf /\ BusOf(f) = BusOfCall(Frame)
    BY <1>1, <1>2, FrameFacts
  <2>5. y \in CallOf /\ BusOfCall(y) = <<f[1], space[f].secondary>> /\ y.dev = 0 /\ y.fnc = 0
    <3>1. Frame.base \in Nat /\ space[f].secondary \in Nat /\ Frame.base = f[1]
      BY <1>1, <1>3, <2>4, FunctionFacts DEF CallOf, BusOf, BusOfCall
    <3>2. 0 \in 0 .. Devices /\ 0 \in 0 .. Functions - 1
      OBVIOUS
    <3> QED
      BY <2>2, <3>1, <3>2 DEF pcie_scan_bus, CallOf, BusOfCall
  <2>6. x \in CallOf /\ BusOfCall(x) = BusOfCall(Frame)
    BY <1>1, <2>3, NextPlace, Places
  <2>7. /\ stack' = <<y, x>> \o Tail(stack)
    BY <1>4, <2>2, <2>3 DEF Bridge, Below
  <2>8. /\ stack' \in Seq(CallOf) /\ Len(stack') = Len(stack) + 1
        /\ stack'[1] = y /\ stack'[2] = x
        /\ \A k \in 3 .. Len(stack) + 1 : stack'[k] = stack[k - 1]
    BY <2>4, <2>5, <2>6, <2>7, Pushed
  <2>9. /\ DOMAIN stack' = 1 .. Len(stack) + 1 /\ DOMAIN stack = 1 .. Len(stack)
        /\ Len(stack) \in Nat \ {0}
    BY <2>4, <2>8
  <2>10. Opened' \subseteq Opened \cup {BusOfCall(y)}
    <3>1. phase = "scan" /\ phase' = "scan"
      BY <1>1, <1>4 DEF Scanning
    <3> QED
      BY <2>1, <2>5, <3>1 DEF Opened, space
  <2>11. ASSUME NEW g, Known(g), Waiting(g), g \notin InTree'
         PROVE  Waiting(g)'
    <3>1. PICK k \in DOMAIN stack : BusOf(g) = BusOfCall(stack[k]) /\ ~ Passed(g, stack[k])
      BY <2>11 DEF Waiting
    <3>2. CASE k = 1
      <4>1. g # f0
        BY <1>2, <2>1, <2>11
      <4>2. ~ Passed(g, x)
        BY <1>1, <1>2, <1>3, <2>3, <2>4, <2>11, <3>1, <3>2, <4>1, PassedInPlace
      <4>3. 2 \in DOMAIN stack' /\ BusOf(g) = BusOfCall(stack'[2]) /\ ~ Passed(g, stack'[2])
        BY <2>4, <2>6, <2>8, <2>9, <3>1, <3>2, <4>2
      <4> QED
        BY <4>3 DEF Waiting, BusOf, BusOfCall, Passed
    <3>3. CASE k # 1
      <4>1. k + 1 \in 3 .. Len(stack) + 1 /\ (k + 1) - 1 = k /\ k + 1 \in DOMAIN stack'
        BY <2>9, <3>3
      <4>2. stack'[k + 1] = stack[k]
        BY <2>8, <4>1
      <4> QED
        BY <3>1, <4>1, <4>2 DEF Waiting, BusOf, BusOfCall, Passed
    <3> QED
      BY <3>2, <3>3
  <2>12. Entered
    BY <1>1 DEF Entered, Scanning
  <2>13. InTree \subseteq InTree' /\ 1 \in DOMAIN stack'
    BY <2>1, <2>9
  <2> QED
    BY <1>1, <1>4, <2>5, <2>8, <2>10, <2>11, <2>12, <2>13, CompletePushes
<1>5. CASE buses' \in {buses, Append(buses, pci_tree_create_bus(f))} /\ GiveUp
  <2>1. InTree' = InTree /\ BridgesInTree' = BridgesInTree
    <3>1. CASE buses' = buses
      <4>1. \A m : DevsOf(m)' = DevsOf(m) /\ BridgesOf(m)' = BridgesOf(m)
        BY <3>1 DEF DevsOf, BridgesOf
      <4> QED
        BY <3>1, <4>1 DEF InTree, BridgesInTree
    <3>2. CASE buses' = Append(buses, pci_tree_create_bus(f))
      BY <1>1, <1>3, <3>2, InTreeWithLost
    <3> QED
      BY <1>5, <3>1, <3>2
  <2> QED
    BY <1>1, <1>5, <2>1, CompleteAfterGiveUp
<1> QED
  BY <1>2, <1>4, <1>5 DEF PciToPciBridge

LEMMA CompleteAfterEntry ==
    ASSUME PciInv, Complete, pcie_iterate_mcfg
    PROVE  Complete'
<1>1. /\ PciTypes /\ ScanOnce /\ phase = "entries" /\ i \in DOMAIN machine.entries /\ i \in Nat
      /\ UNCHANGED <<machine, i, buses, ret, inited, left>> /\ phase' = "scan" /\ stack = <<>>
  BY DEF PciInv, PciTypes, pcie_iterate_mcfg
<1>2. PICK y : y = pcie_scan_bus(machine.entries[i].base, machine.entries[i].start_bus)
  OBVIOUS
<1>3. /\ y \in CallOf /\ y.dev = 0 /\ y.fnc = 0
      /\ BusOfCall(y) = <<machine.entries[i].base, machine.entries[i].start_bus>>
  <2>1. machine.entries[i] \in [base : Nat, start_bus : Nat]
    BY <1>1, ElementOf DEF PciTypes
  <2>2. machine.entries[i].base \in Nat /\ machine.entries[i].start_bus \in Nat
    BY <2>1
  <2>3. 0 \in 0 .. Devices /\ 0 \in 0 .. Functions - 1
    OBVIOUS
  <2> QED
    BY <1>2, <2>2, <2>3 DEF pcie_scan_bus, CallOf, BusOfCall
<1>4. stack' = <<y>> /\ 1 \in DOMAIN stack' /\ stack'[1] = y
  BY <1>2 DEF pcie_iterate_mcfg
<1>5. InTree' = InTree /\ BridgesInTree' = BridgesInTree
  BY <1>1, NothingVisited
<1>6. Opened' \subseteq Opened \cup {BusOfCall(y)}
  <2>1. DOMAIN machine.entries \subseteq Nat
    BY <1>1 DEF PciTypes
  <2> QED
    BY <1>1, <1>3, <1>5, <2>1 DEF Opened, space
<1>7. \A f : ~ Waiting(f)
  BY <1>1 DEF Waiting
<1> QED
  BY <1>1, <1>3, <1>4, <1>5, <1>6, <1>7, CompletePushes DEF Entered

LEMMA CompleteStays ==
    ASSUME PciTypes, Complete, Entered, UNCHANGED <<machine, stack, left>>,
           InTree' = InTree, Opened' = Opened
    PROVE  Complete'
<1>1. \A f : Waiting(f)' <=> Waiting(f)
  BY DEF Waiting, BusOf, BusOfCall, Passed
<1> QED
  BY <1>1, KnownStays DEF Complete, BusOf

LEMMA CompleteAfterEnd ==
    ASSUME PciInv, Complete, pcie_iterate_mcfg_end
    PROVE  Complete'
<1>1. /\ PciTypes /\ phase = "entries" /\ i > Len(machine.entries) /\ phase' = "done"
      /\ UNCHANGED <<machine, i, stack, buses, inited, left>>
  BY DEF PciInv, pcie_iterate_mcfg_end
<1>2. InTree' = InTree /\ BridgesInTree' = BridgesInTree
  BY <1>1, NothingVisited
<1>3. Opened' = Opened
  <2>1. \A j \in DOMAIN machine.entries : j \in Nat /\ j < i
    BY <1>1 DEF PciTypes
  <2> QED
    BY <1>1, <1>2, <2>1 DEF Opened, space
<1> QED
  BY <1>1, <1>2, <1>3, CompleteStays DEF Entered

LEMMA CompleteAfterNotFound ==
    ASSUME PciInv, Complete, NotFound
    PROVE  Complete'
<1>1. /\ PciTypes /\ phase = "scan" /\ phase' = "panic"
      /\ UNCHANGED <<machine, i, stack, buses, ret, inited, left>>
  BY DEF PciInv, NotFound, Scanning
<1>2. InTree' = InTree /\ BridgesInTree' = BridgesInTree
  BY <1>1, NothingVisited
<1>3. Opened' = Opened
  BY <1>1, <1>2, OpenedSame
<1> QED
  BY <1>1, <1>2, <1>3, CompleteStays DEF Entered

\* Before the first entry no bus has been opened.
LEMMA NothingOpened ==
    ASSUME i = 1, phase = "entries" \/ i > Len(machine.entries), BridgesInTree = {},
           machine.entries \in Seq([base : Nat, start_bus : Nat])
    PROVE  Opened = {}
<1>1. \A k \in DOMAIN machine.entries : ~ (k < i \/ (k = i /\ phase # "entries"))
  OBVIOUS
<1> QED
  BY <1>1 DEF Opened

LEMMA InitIsComplete ==
    ASSUME PciInit
    PROVE  Complete
<1>1. machine \in Machines /\ i = 1 /\ buses = <<>> /\ phase = "init_pci"
  BY DEF PciInit
<1>2. BridgesInTree = {} /\ machine.entries \in Seq([base : Nat, start_bus : Nat])
  BY <1>1, NoBuses
<1> QED
  BY <1>1, <1>2, NothingOpened DEF Complete, Entered

LEMMA CompleteAfterRoot ==
    ASSUME PciInv, init_pci_root
    PROVE  Complete'
<1>1. PciTypes /\ phase = "init_pci" /\ i = 1
  BY DEF PciInv, PciTypes, init_pci_root
<1>2. /\ UNCHANGED <<machine, i>> /\ phase' \in {"entries", "done"}
      /\ \A n \in DOMAIN buses' : buses'[n].bridges = <<>>
  BY DEF init_pci_root
<1>3. BridgesInTree' = {}
  BY <1>2 DEF BridgesInTree, BridgesOf, ToSet
<1>4. machine \in Machines
  BY <1>1 DEF PciTypes
<1>5. \A k \in DOMAIN machine.entries : k >= 1 /\ k \in Nat
  BY <1>4
<1>6. Entered' => Opened' = {}
  <2>1. SUFFICES ASSUME Entered'
                 PROVE  Opened' = {}
    OBVIOUS
  <2>2. phase' = "entries" \/ 1 > Len(machine.entries)
    BY <1>1, <1>2, <2>1 DEF Entered
  <2>3. \A k \in DOMAIN machine.entries : ~ (k < 1 \/ (k = 1 /\ phase' # "entries"))
    BY <1>4, <1>5, <2>2
  <2> QED
    BY <1>1, <1>2, <1>3, <2>3 DEF Opened
<1> QED
  BY <1>6 DEF Complete

LEMMA CompleteKept ==
    ASSUME PciInv, Complete, [PciNext]_pciVars
    PROVE  Complete'
<1>1. ASSUME pcie_scan_device
      PROVE  Complete'
  <2>1. PICK n \in pci_tree_get_bus_by_id(Frame.bus) :
          GeneralDevice(n) \/ PciToPciBridge(n) \/ OtherHeader
    BY <1>1 DEF pcie_scan_device
  <2>2. AtFunction(n) /\ UNCHANGED <<machine, i, ret>>
    BY <1>1 DEF pcie_scan_device, AtFunction
  <2> QED
    BY <2>1, <2>2, CompleteAfterDevice, CompleteAfterBridge, CompleteAfterOther
<1>2. ASSUME UNCHANGED pciVars
      PROVE  Complete'
  <2>1. UNCHANGED <<machine, phase, i, stack, buses, ret, inited, left>>
    BY <1>2 DEF pciVars
  <2>2. InTree' = InTree /\ BridgesInTree' = BridgesInTree
    BY <2>1, NothingVisited
  <2>3. Opened' = Opened
    BY <2>1, <2>2 DEF Opened, space
  <2>4. CASE Entered
    BY <2>1, <2>2, <2>3, <2>4, CompleteStays DEF PciInv
  <2>5. CASE ~ Entered
    BY <2>1, <2>5 DEF Complete, Entered
  <2> QED
    BY <2>4, <2>5
<1> QED
  BY <1>1, <1>2, CompleteAfterRoot, CompleteAfterEntry, CompleteAfterEnd, CompleteAfterReturn,
     CompleteAfterAbsent, CompleteAfterNotFound DEF PciNext

-----------------------------------------------------------------------------
(* The descent finds the bus.  On a machine numbered in order, a bus number  *)
(* lies in the range of a bridge exactly when the bus is behind it, and the  *)
(* bridges of a node are in the order of their ranges; so the first bridge   *)
(* that leads to the number is the one on the way to the node.               *)

Sorted ==
    \A n \in DOMAIN buses : \A k \in DOMAIN buses[n].bridges :
        /\ n \in Linked
        /\ buses[n].bridges[k].bridge[1] = machine.entries[1].base
        /\ \A j \in DOMAIN buses[n].bridges :
              j < k => Before(buses[n].bridges[j].bridge, buses[n].bridges[k].bridge)

\* The bus of a call has a node.
HasNode(frame) ==
    /\ frame.base = machine.entries[1].base
    /\ \E n \in Linked \cap DOMAIN buses : buses[n].id = frame.bus

Ordered ==
    InOrder =>
        /\ phase # "panic"
        /\ buses # <<>> => buses[pci_tree_root].id = PCI_INITIAL_BUS
        /\ Sorted
        /\ \A k \in DOMAIN stack : HasNode(stack[k])

\* What lies on the way to a node.
UpClosed(S) ==
    \A m \in DOMAIN buses : \A k \in DOMAIN buses[m].bridges :
        buses[m].bridges[k].secondary \in S => m \in S

Way(t) == {n \in DOMAIN buses : \A S \in SUBSET DOMAIN buses : t \in S /\ UpClosed(S) => n \in S}

LEMMA WayIsClosed ==
    ASSUME NEW t \in DOMAIN buses
    PROVE  t \in Way(t) /\ UpClosed(Way(t))
<1>1. t \in Way(t)
  BY DEF Way
<1>2. ASSUME NEW m \in DOMAIN buses, NEW k \in DOMAIN buses[m].bridges,
             buses[m].bridges[k].secondary \in Way(t),
             NEW S \in SUBSET DOMAIN buses, t \in S, UpClosed(S)
      PROVE  m \in S
  BY <1>2 DEF Way, UpClosed
<1> QED
  BY <1>1, <1>2 DEF Way, UpClosed

\* A node on the way that is not its end has the next one behind a bridge.
LEMMA WayGoesOn ==
    ASSUME NEW t \in DOMAIN buses, NEW n \in Way(t), n # t
    PROVE  \E k \in DOMAIN buses[n].bridges : buses[n].bridges[k].secondary \in Way(t)
<1>1. SUFFICES ASSUME \A k \in DOMAIN buses[n].bridges : buses[n].bridges[k].secondary \notin Way(t)
               PROVE  FALSE
  OBVIOUS
<1> DEFINE S == Way(t) \ {n}
<1>2. S \in SUBSET DOMAIN buses
  BY DEF Way
<1>3. t \in S
  BY WayIsClosed
<1>4. UpClosed(S)
  <2>1. UpClosed(Way(t))
    BY WayIsClosed
  <2> QED
    BY <1>1, <2>1 DEF UpClosed
<1> QED
  BY <1>2, <1>3, <1>4 DEF Way

\* The way starts at the root.
LEMMA WayFromRoot ==
    ASSUME PciTypes, Tree, Sorted, NEW t \in DOMAIN buses, t \in Linked
    PROVE  pci_tree_root \in Way(t)
<1>1. DOMAIN buses \subseteq Nat
  BY DEF PciTypes
<1>2. Way(t) \in SUBSET Nat /\ Way(t) # {} /\ Way(t) \subseteq DOMAIN buses
  BY <1>1, WayIsClosed DEF Way
<1>3. PICK n \in Way(t) : \A y \in Way(t) : n <= y
  BY <1>2, MinOfNats
<1>4. n \in Linked
  <2>1. CASE n = t
    BY <2>1
  <2>2. CASE n # t
    BY <1>2, <2>2, WayGoesOn DEF Sorted
  <2> QED
    BY <2>1, <2>2
<1>5. SUFFICES ASSUME n # pci_tree_root
               PROVE  FALSE
  BY <1>3
<1>6. PICK m \in DOMAIN buses : \E k \in DOMAIN buses[m].bridges : buses[m].bridges[k].secondary = n
  BY <1>4, <1>5 DEF Linked
<1>7. PICK k \in DOMAIN buses[m].bridges : buses[m].bridges[k].secondary = n
  BY <1>6
<1>8. m \in Way(t)
  BY <1>3, <1>7, WayIsClosed DEF UpClosed
<1>9. n \in m + 1 .. Len(buses) /\ m \in Nat
  BY <1>1, <1>7 DEF Tree, Links, Leading
<1> QED
  BY <1>3, <1>8, <1>9

LEMMA LinkFacts ==
    ASSUME PciTypes, Tree, NEW n \in DOMAIN buses, NEW k \in DOMAIN buses[n].bridges,
           NEW f, f = buses[n].bridges[k].bridge
    PROVE  /\ f \in Bridges /\ f[2] = buses[n].id
           /\ buses[n].bridges[k].secondary \in DOMAIN buses
           /\ buses[buses[n].bridges[k].secondary].id = space[f].secondary
           /\ space[f].secondary \in Nat /\ space[f].subordinate \in Nat
<1>1. f \in BridgesOf(n)
  BY DEF BridgesOf, ToSet
<1>2. f \in DOMAIN space
  BY <1>1, NodeFacts
<1>3. /\ space[f].type = "pci_to_pci_bridge"
      /\ buses[n].bridges[k].secondary \in n + 1 .. Len(buses)
      /\ buses[buses[n].bridges[k].secondary].id = space[f].secondary
  BY DEF Tree, Links, Leading
<1>4. f[2] = buses[n].id
  BY <1>1 DEF Tree, Nodes
<1>5. n \in Nat /\ DOMAIN buses = 1 .. Len(buses) /\ Len(buses) \in Nat
  BY DEF PciTypes
<1>6. \A x, y \in Nat : \A z \in x + 1 .. y : z \in 1 .. y
  OBVIOUS
<1>7. buses[n].bridges[k].secondary \in DOMAIN buses
  BY <1>3, <1>5, <1>6
<1> QED
  BY <1>2, <1>3, <1>4, <1>7, FunctionFacts DEF Bridges

\* The number of a node is in the range of every bridge on the way to it.
InRange(f, id) == space[f].secondary <= id /\ id <= space[f].subordinate

LEMMA WayInRange ==
    ASSUME PciTypes, Tree, InOrder, NEW t \in DOMAIN buses,
           NEW m \in DOMAIN buses, NEW k \in DOMAIN buses[m].bridges,
           buses[m].bridges[k].secondary \in Way(t)
    PROVE  InRange(buses[m].bridges[k].bridge, buses[t].id)
<1> DEFINE id == buses[t].id
           Into(n) == \A l \in DOMAIN buses : \A j \in DOMAIN buses[l].bridges :
                         buses[l].bridges[j].secondary = n => InRange(buses[l].bridges[j].bridge, id)
           S == {n \in DOMAIN buses : Into(n)}
<1>0. buses[t].id \in Nat
  BY NodeFacts DEF Node
<1>1. t \in S
  <2>1. ASSUME NEW l \in DOMAIN buses, NEW j \in DOMAIN buses[l].bridges,
               buses[l].bridges[j].secondary = t
        PROVE  InRange(buses[l].bridges[j].bridge, id)
    <3>1. PICK f : f = buses[l].bridges[j].bridge
      OBVIOUS
    <3>2. f \in Bridges /\ id = space[f].secondary
      BY <2>1, <3>1, LinkFacts
    <3>3. space[f].secondary <= space[f].subordinate
      BY <3>2 DEF InOrder
    <3> QED
      BY <1>0, <3>1, <3>2, <3>3 DEF InRange
  <2> QED
    BY <2>1
<1>2. ASSUME NEW n \in DOMAIN buses, NEW q \in DOMAIN buses[n].bridges,
             buses[n].bridges[q].secondary \in S,
             NEW l \in DOMAIN buses, NEW j \in DOMAIN buses[l].bridges,
             buses[l].bridges[j].secondary = n
      PROVE  InRange(buses[l].bridges[j].bridge, id)
  <2>1. PICK f, g : f = buses[l].bridges[j].bridge /\ g = buses[n].bridges[q].bridge
    OBVIOUS
  <2>2. InRange(g, id)
    BY <1>2, <2>1
  <2>3. /\ g \in Bridges /\ g[2] = buses[n].id
        /\ space[g].secondary \in Nat /\ space[g].subordinate \in Nat
    BY <2>1, LinkFacts
  <2>4. /\ f \in Bridges /\ buses[n].id = space[f].secondary
        /\ space[f].secondary \in Nat /\ space[f].subordinate \in Nat
    BY <1>2, <2>1, LinkFacts
  <2>5. space[f].secondary <= space[f].subordinate
    BY <2>4 DEF InOrder
  <2>6. g[2] \in space[f].secondary .. space[f].subordinate
    BY <2>3, <2>4, <2>5
  <2>7. g[2] < space[g].secondary /\ space[g].subordinate <= space[f].subordinate
    BY <2>3, <2>4, <2>6 DEF InOrder
  <2> QED
    BY <1>0, <2>1, <2>2, <2>3, <2>4, <2>7 DEF InRange
<1>3. UpClosed(S)
  BY <1>2 DEF UpClosed
<1>4. S \in SUBSET DOMAIN buses
  OBVIOUS
<1>5. buses[m].bridges[k].secondary \in S
  <2> HIDE DEF S
  <2> QED
    BY <1>1, <1>3, <1>4 DEF Way
<1> QED
  BY <1>5

\* A round of the descent stays on the way.
LEMMA RoundOnTheWay ==
    ASSUME PciTypes, Tree, InOrder, Sorted, buses[pci_tree_root].id = PCI_INITIAL_BUS,
           NEW t \in DOMAIN buses, NEW n \in Way(t), buses[n].id # buses[t].id
    PROVE  \E c \in Descend(n, buses[t].id) : c \in Way(t) /\ n < c
<1>1. n \in DOMAIN buses /\ n # t /\ DOMAIN buses \subseteq Nat \ {0}
  BY DEF Way, PciTypes
<1>2. PICK k \in DOMAIN buses[n].bridges : buses[n].bridges[k].secondary \in Way(t)
  BY <1>1, WayGoesOn
<1>3. PICK id : id = buses[t].id
  OBVIOUS
<1>4. PICK f : f = buses[n].bridges[k].bridge
  OBVIOUS
<1>5. PICK c : c = buses[n].bridges[k].secondary
  OBVIOUS
<1>6. id \in Nat /\ buses[n].id \in Nat
  BY <1>1, <1>3, NodeFacts DEF Node
<1>7. f \in Bridges /\ space[f].secondary \in Nat /\ space[f].subordinate \in Nat
  BY <1>1, <1>4, LinkFacts
<1>8. space[f].secondary <= id /\ id <= space[f].subordinate
  BY <1>1, <1>2, <1>3, <1>4, WayInRange DEF InRange
<1>9. buses[n].id <= id
  <2>1. CASE n = pci_tree_root
    BY <1>6, <2>1 DEF PCI_INITIAL_BUS
  <2>2. CASE n # pci_tree_root
    <3>1. n \in Linked
      BY <1>1 DEF Sorted
    <3>2. PICK m \in DOMAIN buses : \E j \in DOMAIN buses[m].bridges : buses[m].bridges[j].secondary = n
      BY <2>2, <3>1 DEF Linked
    <3>3. PICK j \in DOMAIN buses[m].bridges : buses[m].bridges[j].secondary = n
      BY <3>2
    <3>4. PICK g : g = buses[m].bridges[j].bridge
      OBVIOUS
    <3>5. buses[n].id = space[g].secondary
      BY <3>3, <3>4, LinkFacts
    <3>6. space[g].secondary <= id
      BY <1>3, <3>3, <3>4, WayInRange DEF InRange
    <3> QED
      BY <3>5, <3>6
  <2> QED
    BY <2>1, <2>2
<1>10. Leads(n, k, id)
  BY <1>4, <1>8, <1>9 DEF Leads
<1>11. ASSUME NEW j \in 1 .. k - 1
       PROVE  ~ Leads(n, j, id)
  <2>1. buses[n].bridges \in Seq([bridge : DOMAIN space, secondary : Nat])
    BY <1>1, NodeFacts
  <2>2. \A s, S : s \in Seq(S) => \A x \in DOMAIN s : \A y \in 1 .. x - 1 : y \in DOMAIN s /\ y < x
    OBVIOUS
  <2>3. j \in DOMAIN buses[n].bridges /\ j < k
    BY <2>1, <2>2
  <2>4. PICK g : g = buses[n].bridges[j].bridge
    OBVIOUS
  <2>5. g \in Bridges /\ space[g].subordinate \in Nat
    BY <1>1, <2>3, <2>4, LinkFacts
  <2>6. Before(g, f)
    BY <1>1, <1>4, <2>3, <2>4 DEF Sorted
  <2>7. space[g].subordinate < space[f].secondary
    BY <1>7, <2>5, <2>6 DEF InOrder
  <2>8. ~ (id <= space[g].subordinate)
    BY <1>6, <1>7, <1>8, <2>5, <2>7
  <2> QED
    BY <2>4, <2>8 DEF Leads
<1>12. k \in Followed(n, id)
  BY <1>10, <1>11 DEF Followed
<1>13. c \in Descend(n, id)
  BY <1>1, <1>3, <1>5, <1>12 DEF Descend, Null
<1>14. c \in n + 1 .. Len(buses) /\ n \in Nat
  BY <1>1, <1>5 DEF Tree, Links, Leading
<1>15. n < c
  BY <1>14
<1> QED
  BY <1>2, <1>3, <1>5, <1>13, <1>15

LEMMA LookupSucceeds ==
    ASSUME PciTypes, Tree, InOrder, Sorted, buses[pci_tree_root].id = PCI_INITIAL_BUS,
           NEW t \in DOMAIN buses, t \in Linked
    PROVE  pci_tree_get_bus_by_id(buses[t].id) # {}
<1> DEFINE L == Len(buses)
<1>0. PICK id : id = buses[t].id
  OBVIOUS
<1>1. L \in Nat \ {0} /\ DOMAIN buses = 1 .. L
  BY DEF PciTypes
<1>2. PICK g : AreRounds(g, L, id) /\ pci_tree_get_bus_by_id(id) = g[L]
  BY LookupIsRounds DEF PciTypes
<1> DEFINE Fit(x, k) == x \in Way(t) /\ (buses[x].id = id \/ k < x)
           Bad == {k \in 0 .. L : ~ \E x \in g[k] : Fit(x, k)}
<1>3. g[0] = {pci_tree_root} /\ \A k \in 1 .. L : g[k] = Round(g[k - 1], id)
  <2>1. g = [k \in 0 .. L |-> IF k = 0 THEN {pci_tree_root} ELSE Round(g[k - 1], id)]
    BY <1>2 DEF AreRounds
  <2>2. \A k \in 0 .. L : g[k] = IF k = 0 THEN {pci_tree_root} ELSE Round(g[k - 1], id)
    BY <2>1, Zenon
  <2>3. 0 \in 0 .. L /\ \A k \in 1 .. L : k \in 0 .. L /\ k # 0
    BY <1>1
  <2> QED
    BY <2>2, <2>3, Zenon
<1>4. \E x \in g[0] : Fit(x, 0)
  <2>1. pci_tree_root \in Way(t)
    BY WayFromRoot
  <2> QED
    BY <1>3, <2>1 DEF pci_tree_root
<1>5. ASSUME NEW k \in 1 .. L, NEW x \in g[k - 1], Fit(x, k - 1)
      PROVE  \E y \in g[k] : Fit(y, k)
  <2>1. x \in DOMAIN buses /\ x \in Nat /\ x # Null
    BY <1>1, <1>5 DEF Way, Null
  <2>2. \A y \in Descend(x, id) : y \in g[k]
    BY <1>3 DEF Round
  <2>3. CASE buses[x].id = id
    <3>1. x \in Descend(x, id)
      BY <2>1, <2>3 DEF Descend
    <3> QED
      BY <1>5, <2>2, <2>3, <3>1
  <2>4. CASE buses[x].id # id
    <3>1. k - 1 < x
      BY <1>5, <2>4
    <3>2. PICK c \in Descend(x, id) : c \in Way(t) /\ x < c
      BY <1>0, <1>5, <2>4, RoundOnTheWay
    <3>3. c \in Nat
      BY <1>1, <3>2 DEF Way
    <3>4. k < c
      BY <1>1, <2>1, <3>1, <3>2, <3>3
    <3> QED
      BY <2>2, <3>2, <3>4
  <2> QED
    BY <2>3, <2>4
<1>6. Bad = {}
  <2>1. SUFFICES ASSUME Bad # {}
                 PROVE  FALSE
    OBVIOUS
  <2>2. PICK k \in Bad : \A y \in Bad : k <= y
    <3>1. Bad \in SUBSET Nat
      OBVIOUS
    <3> HIDE DEF Bad
    <3> QED
      BY <2>1, <3>1, MinOfNats
  <2>3. k # 0
    BY <1>4, <2>2
  <2>4. k \in 1 .. L /\ k - 1 \in 0 .. L /\ k - 1 < k
    BY <1>1, <2>2, <2>3
  <2>5. k - 1 \notin Bad
    BY <1>1, <2>2, <2>4
  <2>6. PICK x \in g[k - 1] : Fit(x, k - 1)
    BY <2>4, <2>5
  <2>7. \E y \in g[k] : Fit(y, k)
    <3> HIDE DEF Fit
    <3> QED
      BY <1>5, <2>4, <2>6
  <2> QED
    BY <2>2, <2>7
<1>7. L \in 0 .. L
  BY <1>1
<1>8. \E x \in g[L] : Fit(x, L)
  BY <1>6, <1>7
<1> QED
  BY <1>0, <1>2, <1>8

\* The order is kept.
LEMMA LinksSame ==
    ASSUME UNCHANGED machine, DOMAIN buses \subseteq DOMAIN buses',
           \A n \in DOMAIN buses : buses'[n].bridges = buses[n].bridges,
           \A n \in DOMAIN buses' \ DOMAIN buses : buses'[n].bridges = <<>>
    PROVE  Linked' = Linked /\ (Sorted => Sorted')
<1>1. Linked' = Linked
  <2>1. \A n \in DOMAIN buses' \ DOMAIN buses : DOMAIN buses'[n].bridges = {}
    OBVIOUS
  <2>2. ASSUME NEW x
        PROVE  x \in Linked' <=> x \in Linked
    BY <2>1 DEF Linked
  <2> QED
    BY <2>2
<1>2. ASSUME Sorted
      PROVE  Sorted'
  BY <1>1, <1>2 DEF Sorted
<1> QED
  BY <1>1, <1>2

LEMMA OrderedMoves ==
    ASSUME Ordered, UNCHANGED machine, phase' # "panic", pci_tree_root \in DOMAIN buses,
           Linked \subseteq Linked',
           \A n \in DOMAIN buses : n \in DOMAIN buses' /\ buses'[n].id = buses[n].id,
           InOrder => Sorted',
           \A k \in DOMAIN stack' :
             \/ \E j \in DOMAIN stack : BusOfCall(stack'[k]) = BusOfCall(stack[j])
             \/ InOrder => HasNode(stack[k])'
    PROVE  Ordered'
<1>1. SUFFICES ASSUME InOrder
               PROVE  /\ buses'[pci_tree_root].id = PCI_INITIAL_BUS
                      /\ \A k \in DOMAIN stack' : HasNode(stack[k])'
  BY DEF Ordered, InOrder, Bridges, Before, space
<1>2. buses'[pci_tree_root].id = PCI_INITIAL_BUS
  <2>1. buses # <<>>
    OBVIOUS
  <2> QED
    BY <1>1, <2>1 DEF Ordered
<1>3. ASSUME NEW k \in DOMAIN stack', NEW j \in DOMAIN stack,
             BusOfCall(stack'[k]) = BusOfCall(stack[j])
      PROVE  HasNode(stack[k])'
  <2>1. HasNode(stack[j])
    BY <1>1 DEF Ordered
  <2>2. stack'[k].base = stack[j].base /\ stack'[k].bus = stack[j].bus
    BY <1>3 DEF BusOfCall
  <2> QED
    BY <2>1, <2>2 DEF HasNode
<1> QED
  BY <1>1, <1>2, <1>3

\* The calls after a step are of buses that were being scanned.
LEMMA CallsAfterReplaced ==
    ASSUME stack \in Seq(CallOf), stack # <<>>, NEW x \in CallOf,
           BusOfCall(x) = BusOfCall(Frame), stack' = <<x>> \o Below
    PROVE  \A k \in DOMAIN stack' : \E j \in DOMAIN stack : BusOfCall(stack'[k]) = BusOfCall(stack[j])
<1>1. /\ DOMAIN stack' = DOMAIN stack /\ stack'[1] = x
      /\ \A k \in DOMAIN stack \ {1} : stack'[k] = stack[k]
  BY Replaced DEF Below
<1> QED
  BY <1>1 DEF BusOfCall, Frame

LEMMA CallsAfterReturn ==
    ASSUME stack \in Seq(CallOf), stack # <<>>, stack' = Below
    PROVE  \A k \in DOMAIN stack' : \E j \in DOMAIN stack : BusOfCall(stack'[k]) = BusOfCall(stack[j])
<1>1. \A k \in DOMAIN stack' : k + 1 \in DOMAIN stack /\ stack'[k] = stack[k + 1]
  BY Popped DEF Below
<1> QED
  BY <1>1 DEF BusOfCall

\* A step that leaves the bridges as they are.
LEMMA OrderedWithBridgesSame ==
    ASSUME PciTypes, Ordered, UNCHANGED machine, buses # <<>>, phase' # "panic",
           DOMAIN buses \subseteq DOMAIN buses',
           \A n \in DOMAIN buses : buses'[n].id = buses[n].id /\ buses'[n].bridges = buses[n].bridges,
           \A n \in DOMAIN buses' \ DOMAIN buses : buses'[n].bridges = <<>>,
           \A k \in DOMAIN stack' :
             \/ \E j \in DOMAIN stack : BusOfCall(stack'[k]) = BusOfCall(stack[j])
             \/ InOrder => HasNode(stack[k])'
    PROVE  Ordered'
<1>1. Linked' = Linked /\ (Sorted => Sorted')
  BY LinksSame
<1>2. pci_tree_root \in DOMAIN buses
  BY DEF PciTypes, pci_tree_root
<1>3. InOrder => Sorted'
  BY <1>1 DEF Ordered
<1>4. \A n \in DOMAIN buses : n \in DOMAIN buses' /\ buses'[n].id = buses[n].id
  OBVIOUS
<1> QED
  BY <1>1, <1>2, <1>3, <1>4, OrderedMoves

LEMMA OrderedAfterGoOn ==
    ASSUME PciTypes, ScanOnce, Scanning, Ordered, UNCHANGED <<machine, phase, buses>>,
           NEW x, x \in {NextDevice(Frame), NextFunction(Frame)}, stack' = <<x>> \o Below
    PROVE  Ordered'
<1>1. stack \in Seq(CallOf) /\ stack # <<>> /\ x \in CallOf /\ BusOfCall(x) = BusOfCall(Frame)
  BY FrameFacts, NextPlace
<1>2. \A k \in DOMAIN stack' : \E j \in DOMAIN stack : BusOfCall(stack'[k]) = BusOfCall(stack[j])
  BY <1>1, CallsAfterReplaced
<1>3. buses # <<>> /\ phase' # "panic"
  BY DEF PciTypes, Scanning
<1>4. \A k \in DOMAIN stack' :
             \/ \E j \in DOMAIN stack : BusOfCall(stack'[k]) = BusOfCall(stack[j])
             \/ InOrder => HasNode(stack[k])'
  BY <1>2
<1> QED
  BY <1>3, <1>4, OrderedWithBridgesSame

LEMMA OrderedAfterPop ==
    ASSUME PciTypes, phase = "scan", Ordered, UNCHANGED machine, phase' # "panic", stack' = Below,
           DOMAIN buses \subseteq DOMAIN buses',
           \A n \in DOMAIN buses : buses'[n].id = buses[n].id /\ buses'[n].bridges = buses[n].bridges,
           \A n \in DOMAIN buses' \ DOMAIN buses : buses'[n].bridges = <<>>
    PROVE  Ordered'
<1>1. stack \in Seq(CallOf) /\ stack # <<>> /\ buses # <<>>
  BY DEF PciTypes
<1>2. \A k \in DOMAIN stack' : \E j \in DOMAIN stack : BusOfCall(stack'[k]) = BusOfCall(stack[j])
  BY <1>1, CallsAfterReturn
<1>3. \A k \in DOMAIN stack' :
             \/ \E j \in DOMAIN stack : BusOfCall(stack'[k]) = BusOfCall(stack[j])
             \/ InOrder => HasNode(stack[k])'
  BY <1>2
<1> QED
  BY <1>1, <1>3, OrderedWithBridgesSame

LEMMA OrderedAfterDevice ==
    ASSUME PciInv, Ordered, NEW n, AtFunction(n), GeneralDevice(n), UNCHANGED <<machine, i, ret>>
    PROVE  Ordered'
<1>1. /\ PciTypes /\ ScanOnce /\ Scanning /\ n \in DOMAIN buses /\ f0 \in DOMAIN space
      /\ buses # <<>> /\ phase = "scan"
  BY DeviceFacts DEF Scanning
<1>2. PICK f \in DOMAIN space : f = f0
  BY <1>1
<1>3. CASE /\ buses' = pci_tree_install_device(f, n)
           /\ stack' = << Advanced(Frame) >> \o Below
           /\ UNCHANGED <<phase, left>>
  <2>1. /\ DOMAIN buses' = DOMAIN buses
        /\ \A m \in DOMAIN buses : buses'[m].id = buses[m].id /\ buses'[m].bridges = buses[m].bridges
    BY <1>1, <1>3, DeviceInstalled
  <2>2. PICK x : x = Advanced(Frame)
    OBVIOUS
  <2>3. x \in {NextDevice(Frame), NextFunction(Frame)} /\ stack' = <<x>> \o Below
    BY <1>3, <2>2, Places
  <2>4. stack \in Seq(CallOf) /\ stack # <<>> /\ x \in CallOf /\ BusOfCall(x) = BusOfCall(Frame)
    BY <1>1, <2>3, FrameFacts, NextPlace
  <2>5. \A k \in DOMAIN stack' : \E j \in DOMAIN stack : BusOfCall(stack'[k]) = BusOfCall(stack[j])
    BY <2>3, <2>4, CallsAfterReplaced
  <2>6. \A k \in DOMAIN stack' :
             \/ \E j \in DOMAIN stack : BusOfCall(stack'[k]) = BusOfCall(stack[j])
             \/ InOrder => HasNode(stack[k])'
    BY <2>5
  <2>7. UNCHANGED machine /\ phase' # "panic"
    BY <1>1, <1>3
  <2> QED
    BY <1>1, <2>1, <2>6, <2>7, OrderedWithBridgesSame
<1>4. CASE GiveUp /\ UNCHANGED buses
  <2>1. stack' = Below /\ phase' # "panic" /\ UNCHANGED <<machine, buses>>
    BY <1>4 DEF GiveUp
  <2> QED
    BY <1>1, <2>1, OrderedAfterPop
<1> QED
  BY <1>2, <1>3, <1>4 DEF GeneralDevice

\* The bridge of a new bus comes after those that are on its node.
LEMMA SortedWithBridge ==
    ASSUME PciInv, InOrder, Ordered, UNCHANGED machine, NEW n, AtFunction(n), NEW f, f = f0,
           space[f].type = "pci_to_pci_bridge", buses' = pci_tree_install_bus(f, n)
    PROVE  /\ Linked \subseteq Linked' /\ Len(buses) + 1 \in Linked' /\ Sorted'
<1>1. /\ PciTypes /\ ScanOnce /\ Tree /\ Scanning /\ n \in DOMAIN buses /\ f \in DOMAIN space
      /\ buses # <<>> /\ Sorted /\ f[2] = buses[n].id
  BY DeviceFacts DEF Ordered
<1>2. n \in Linked
  BY <1>1, LookupFindsTheBus DEF AtFunction
<1>3. PICK L, link : L = Len(buses) + 1 /\ link = [bridge |-> f, secondary |-> Len(buses) + 1]
  OBVIOUS
<1>4. /\ \A m \in DOMAIN buses \ {n} : buses'[m] = buses[m]
      /\ buses'[n].bridges = Append(buses[n].bridges, link)
      /\ buses'[L].bridges = <<>>
      /\ DOMAIN buses' = DOMAIN buses \cup {L}
  <2>1. buses'[L] = pci_tree_create_bus(f)
    BY <1>1, <1>3, BusInstalled
  <2>2. buses'[L].bridges = <<>>
    BY <2>1 DEF pci_tree_create_bus
  <2>3. DOMAIN buses' = DOMAIN buses \cup {L}
    BY <1>1, <1>3, InTreeWithBridge
  <2> QED
    BY <1>1, <1>3, <2>2, <2>3, BusInstalled
<1>5. PICK K : K = Len(buses[n].bridges) + 1
  OBVIOUS
<1>6. /\ \A k \in DOMAIN buses[n].bridges : buses'[n].bridges[k] = buses[n].bridges[k]
      /\ buses'[n].bridges[K] = link /\ K \notin DOMAIN buses[n].bridges
      /\ DOMAIN buses'[n].bridges = DOMAIN buses[n].bridges \cup {K}
      /\ \A k \in DOMAIN buses[n].bridges : ~ (K < k)
  <2> DEFINE B == [bridge : DOMAIN space, secondary : Nat]
  <2>1. buses[n].bridges \in Seq(B)
    BY <1>1, NodeFacts
  <2>2. link \in B
    BY <1>1, <1>3 DEF PciTypes
  <2>3. \A s \in Seq(B) : \A k \in DOMAIN s : ~ (Len(s) + 1 < k)
    OBVIOUS
  <2> HIDE DEF B
  <2> QED
    BY <1>4, <1>5, <2>1, <2>2, <2>3, Appended
<1>7. link.bridge = f /\ link.secondary = L
  BY <1>3
<1>8. Linked \subseteq Linked'
  <2>1. ASSUME NEW m \in DOMAIN buses, NEW k \in DOMAIN buses[m].bridges
        PROVE  /\ m \in DOMAIN buses' /\ k \in DOMAIN buses'[m].bridges
               /\ buses'[m].bridges[k] = buses[m].bridges[k]
    BY <1>4, <1>6
  <2>2. ASSUME NEW x \in Linked
        PROVE  x \in Linked'
    BY <2>1 DEF Linked
  <2> QED
    BY <2>2
<1>9. L \in Linked'
  <2>1. n \in DOMAIN buses' /\ K \in DOMAIN buses'[n].bridges /\ buses'[n].bridges[K].secondary = L
    BY <1>1, <1>4, <1>6, <1>7
  <2> QED
    BY <2>1 DEF Linked
<1>10. f[1] = machine.entries[1].base
  <2>1. 1 \in DOMAIN stack /\ Frame = stack[1] /\ BusOf(f) = BusOfCall(Frame)
    BY <1>1, FrameFacts
  <2>2. Frame.base = machine.entries[1].base
    BY <2>1 DEF Ordered, HasNode
  <2> QED
    BY <2>1, <2>2 DEF BusOf, BusOfCall
<1>11. ASSUME NEW j \in DOMAIN buses[n].bridges
       PROVE  Before(buses[n].bridges[j].bridge, f)
  <2>1. PICK g : g = buses[n].bridges[j].bridge
    OBVIOUS
  <2>2. g \in BridgesOf(n) /\ g \in Visited
    BY <1>1, <2>1 DEF BridgesOf, ToSet, Visited, InTree
  <2>3. g[1] = f[1] /\ g[2] = f[2]
    BY <1>1, <1>10, <2>1, LinkFacts DEF Sorted
  <2>4. /\ 1 \in DOMAIN stack /\ Frame = stack[1] /\ BusOf(f) = BusOfCall(Frame)
        /\ f[3] = Frame.dev /\ f[4] = Frame.fnc
    BY <1>1, FrameFacts
  <2>5. BusOf(g) = BusOfCall(stack[1])
    BY <2>3, <2>4 DEF BusOf
  <2>6. Passed(g, Frame)
    BY <1>1, <2>2, <2>4, <2>5 DEF ScanOnce
  <2> QED
    BY <2>1, <2>3, <2>4, <2>6 DEF Passed, Before
<1>12. ASSUME NEW m \in DOMAIN buses', NEW k \in DOMAIN buses'[m].bridges
       PROVE  /\ m \in Linked'
              /\ buses'[m].bridges[k].bridge[1] = machine.entries[1].base
              /\ \A j \in DOMAIN buses'[m].bridges :
                    j < k => Before(buses'[m].bridges[j].bridge, buses'[m].bridges[k].bridge)
  <2>1. CASE m = L
    BY <1>4, <2>1
  <2>2. CASE m # L /\ m # n
    BY <1>1, <1>4, <1>8, <2>2 DEF Sorted
  <2>3. CASE m = n /\ k # K
    <3>1. k \in DOMAIN buses[n].bridges /\ buses'[n].bridges[k] = buses[n].bridges[k]
      BY <1>6, <2>3
    <3>2. \A j \in DOMAIN buses'[n].bridges : j < k =>
              j \in DOMAIN buses[n].bridges /\ buses'[n].bridges[j] = buses[n].bridges[j]
      BY <1>6, <3>1
    <3> QED
      BY <1>1, <1>2, <1>8, <2>3, <3>1, <3>2 DEF Sorted
  <2>4. CASE m = n /\ k = K
    <3>1. buses'[n].bridges[k].bridge = f
      BY <1>6, <1>7, <2>4
    <3>2. \A j \in DOMAIN buses'[n].bridges : j < k =>
              j \in DOMAIN buses[n].bridges /\ buses'[n].bridges[j] = buses[n].bridges[j]
      <4>1. ~ (K < K)
        <5>1. K \in Nat
          BY <1>1, <1>5, NodeFacts
        <5> QED
          BY <5>1
      <4> QED
        BY <1>6, <2>4, <4>1
    <3> QED
      BY <1>2, <1>8, <1>10, <1>11, <2>4, <3>1, <3>2
  <2> QED
    BY <2>1, <2>2, <2>3, <2>4
<1>13. Sorted'
  BY <1>12 DEF Sorted, Before
<1> QED
  BY <1>3, <1>8, <1>9, <1>13

LEMMA OrderedAfterBridge ==
    ASSUME PciInv, Ordered, NEW n, AtFunction(n), PciToPciBridge(n), UNCHANGED <<machine, i, ret>>
    PROVE  Ordered'
<1>1. /\ PciTypes /\ ScanOnce /\ Scanning /\ n \in DOMAIN buses /\ f0 \in DOMAIN space
      /\ buses # <<>> /\ phase = "scan"
  BY DeviceFacts DEF Scanning
<1>2. PICK f \in DOMAIN space : f = f0
  BY <1>1
<1>3. space[f].type = "pci_to_pci_bridge"
  BY <1>2 DEF PciToPciBridge
<1>4. CASE buses' = pci_tree_install_bus(f, n) /\ stack' = Bridge(f) /\ UNCHANGED <<phase, left>>
  <2>1. PICK L : L = Len(buses) + 1
    OBVIOUS
  <2>2. InOrder => Linked \subseteq Linked' /\ L \in Linked' /\ Sorted'
    BY <1>2, <1>3, <1>4, <2>1, SortedWithBridge
  <2>3. /\ DOMAIN buses' = DOMAIN buses \cup {L} /\ buses'[L].id = space[f].secondary
        /\ \A m \in DOMAIN buses : buses'[m].id = buses[m].id
    <3>1. buses'[L] = pci_tree_create_bus(f)
      BY <1>1, <1>3, <1>4, <2>1, BusInstalled
    <3>2. buses'[L].id = space[f].secondary
      BY <3>1 DEF pci_tree_create_bus
    <3> QED
      BY <1>1, <1>3, <1>4, <2>1, <3>2, BusInstalled, InTreeWithBridge
  <2>4. PICK y, x : y = pcie_scan_bus(Frame.base, space[f].secondary) /\ x = Advanced(Frame)
    OBVIOUS
  <2>5. x \in CallOf /\ BusOfCall(x) = BusOfCall(Frame)
    BY <1>1, <2>4, NextPlace, Places
  <2>6. /\ stack \in Seq(CallOf) /\ stack # <<>> /\ 1 \in DOMAIN stack /\ Frame = stack[1]
        /\ Frame \in CallOf
    BY <1>1, FrameFacts
  <2>7. y.base = Frame.base /\ y.bus = space[f].secondary
    BY <2>4 DEF pcie_scan_bus
  <2>8. y \in CallOf
    <3>1. Frame.base \in Nat /\ space[f].secondary \in Nat
      BY <1>1, <1>3, <2>6, FunctionFacts DEF CallOf
    <3>2. 0 \in 0 .. Devices /\ 0 \in 0 .. Functions - 1
      OBVIOUS
    <3> QED
      BY <2>4, <3>1, <3>2 DEF pcie_scan_bus, CallOf
  <2>9. /\ Len(stack') = Len(stack) + 1 /\ stack' \in Seq(CallOf)
        /\ stack'[1] = y /\ stack'[2] = x
        /\ \A k \in 3 .. Len(stack) + 1 : stack'[k] = stack[k - 1]
    <3>1. stack' = <<y, x>> \o Tail(stack)
      BY <1>4, <2>4 DEF Bridge, Below
    <3> QED
      BY <2>5, <2>6, <2>8, <3>1, Pushed
  <2>10. ASSUME InOrder
         PROVE  HasNode(stack[1])'
    <3>1. HasNode(Frame)
      BY <2>6, <2>10 DEF Ordered
    <3>2. stack'[1].base = machine.entries[1].base
      BY <2>7, <2>9, <3>1 DEF HasNode
    <3>3. L \in Linked' \cap DOMAIN buses' /\ buses'[L].id = stack'[1].bus
      BY <2>2, <2>3, <2>7, <2>9, <2>10
    <3> QED
      BY <3>2, <3>3 DEF HasNode
  <2>11. ASSUME NEW k \in DOMAIN stack', k # 1
         PROVE  \E j \in DOMAIN stack : BusOfCall(stack'[k]) = BusOfCall(stack[j])
    <3>1. k = 2 \/ k \in 3 .. Len(stack) + 1
      BY <2>6, <2>9, <2>11
    <3>2. CASE k = 2
      BY <2>5, <2>6, <2>9, <3>2 DEF BusOfCall
    <3>3. CASE k \in 3 .. Len(stack) + 1
      <4>1. k - 1 \in DOMAIN stack
        BY <2>6, <3>3
      <4> QED
        BY <2>9, <3>3, <4>1 DEF BusOfCall
    <3> QED
      BY <3>1, <3>2, <3>3
  <2>12. \A k \in DOMAIN stack' :
             \/ \E j \in DOMAIN stack : BusOfCall(stack'[k]) = BusOfCall(stack[j])
             \/ InOrder => HasNode(stack[k])'
    BY <2>10, <2>11
  <2>13. CASE InOrder
    <3>1. pci_tree_root \in DOMAIN buses /\ phase' # "panic"
      BY <1>1, <1>4 DEF PciTypes, pci_tree_root
    <3>2. \A m \in DOMAIN buses : m \in DOMAIN buses' /\ buses'[m].id = buses[m].id
      BY <2>3
    <3> QED
      BY <2>2, <2>12, <2>13, <3>1, <3>2, OrderedMoves
  <2>14. CASE ~ InOrder
    BY <2>14 DEF Ordered, InOrder, Bridges, Before, space
  <2> QED
    BY <2>13, <2>14
<1>5. CASE buses' \in {buses, Append(buses, pci_tree_create_bus(f))} /\ GiveUp
  <2>1. stack' = Below /\ phase' # "panic"
    BY <1>5 DEF GiveUp
  <2>2. CASE buses' = buses
    BY <1>1, <2>1, <2>2, OrderedAfterPop
  <2>3. CASE buses' = Append(buses, pci_tree_create_bus(f))
    <3>1. PICK L : L = Len(buses) + 1
      OBVIOUS
    <3>2. DOMAIN buses' = DOMAIN buses \cup {L}
      BY <1>1, <1>3, <2>3, <3>1, InTreeWithLost
    <3>3. buses'[L].bridges = <<>>
      BY <1>1, <1>3, <2>3, <3>1, NodeLost DEF pci_tree_create_bus
    <3>4. \A m \in DOMAIN buses : buses'[m] = buses[m]
      BY <1>1, <1>3, <2>3, NodeLost
    <3> QED
      BY <1>1, <2>1, <3>2, <3>3, <3>4, OrderedAfterPop
  <2> QED
    BY <1>5, <2>2, <2>3
<1> QED
  BY <1>2, <1>4, <1>5 DEF PciToPciBridge

LEMMA OrderedAfterNotFound ==
    ASSUME PciInv, Ordered, NotFound
    PROVE  Ordered'
<1>1. CASE InOrder
  <2>1. PciTypes /\ Tree /\ Scanning /\ buses # <<>> /\ 1 \in DOMAIN stack
    BY DEF PciInv, NotFound, Scanning, PciTypes
  <2>2. Sorted /\ buses[pci_tree_root].id = PCI_INITIAL_BUS /\ HasNode(Frame)
    BY <1>1, <2>1 DEF Ordered, Frame
  <2>3. PICK t \in Linked \cap DOMAIN buses : buses[t].id = Frame.bus
    BY <2>2 DEF HasNode
  <2>4. pci_tree_get_bus_by_id(buses[t].id) # {}
    BY <1>1, <2>1, <2>2, LookupSucceeds
  <2> QED
    BY <2>3, <2>4 DEF NotFound
<1>2. CASE ~ InOrder
  BY <1>2 DEF NotFound, Ordered, InOrder, Bridges, Before, space
<1> QED
  BY <1>1, <1>2

LEMMA OrderedAfterEntry ==
    ASSUME PciInv, Ordered, pcie_iterate_mcfg
    PROVE  Ordered'
<1>1. /\ PciTypes /\ phase' = "scan" /\ buses # <<>> /\ i \in DOMAIN machine.entries
      /\ UNCHANGED <<machine, i, buses>> /\ stack' = <<stack'[1]>>
      /\ stack'[1] = pcie_scan_bus(machine.entries[i].base, machine.entries[i].start_bus)
  BY DEF PciInv, PciTypes, pcie_iterate_mcfg
<1>2. ASSUME InOrder
      PROVE  HasNode(stack[1])'
  <2>1. i = 1 /\ machine.entries[1].start_bus = PCI_INITIAL_BUS
    BY <1>1, <1>2 DEF InOrder, PciTypes
  <2>2. stack'[1].base = machine.entries[1].base /\ stack'[1].bus = PCI_INITIAL_BUS
    BY <1>1, <2>1 DEF pcie_scan_bus
  <2>3. pci_tree_root \in Linked' \cap DOMAIN buses' /\ buses'[pci_tree_root].id = PCI_INITIAL_BUS
    BY <1>1, <1>2 DEF Ordered, Linked, PciTypes, pci_tree_root
  <2> QED
    BY <1>1, <2>2, <2>3 DEF HasNode
<1>3. DOMAIN stack' = {1}
  BY <1>1
<1>4. \A k \in DOMAIN stack' :
             \/ \E j \in DOMAIN stack : BusOfCall(stack'[k]) = BusOfCall(stack[j])
             \/ InOrder => HasNode(stack[k])'
  BY <1>2, <1>3
<1> QED
  BY <1>1, <1>4, OrderedWithBridgesSame

LEMMA OrderedAfterReturn ==
    ASSUME PciInv, Ordered, pcie_scan_bus_end
    PROVE  Ordered'
<1>1. PciTypes /\ phase = "scan" /\ stack' = Below /\ phase' # "panic" /\ UNCHANGED <<machine, buses>>
  BY DEF PciInv, pcie_scan_bus_end
<1> QED
  BY <1>1, OrderedAfterPop

\* A step that touches neither the calls nor the tree.
LEMMA OrderedStays ==
    ASSUME Ordered, UNCHANGED <<machine, stack, buses>>, phase' = "panic" => phase = "panic"
    PROVE  Ordered'
<1>1. Linked' = Linked
  BY DEF Linked
<1> QED
  BY <1>1 DEF Ordered, InOrder, Bridges, Before, space, Sorted, HasNode

LEMMA OrderedAfterRoot ==
    ASSUME PciInv, Ordered, init_pci_root
    PROVE  Ordered'
<1>1. /\ stack' = <<>> /\ phase' # "panic"
      /\ buses' \in {<<>>, << [id |-> PCI_INITIAL_BUS, devs |-> <<>>, bridges |-> <<>>] >>}
  BY DEF PciInv, PciTypes, init_pci_root
<1>2. buses' # <<>> => buses'[pci_tree_root].id = PCI_INITIAL_BUS
  BY <1>1 DEF pci_tree_root
<1>3. \A n \in DOMAIN buses' : DOMAIN buses'[n].bridges = {}
  BY <1>1
<1>4. DOMAIN stack' = {}
  BY <1>1
<1> QED
  BY <1>1, <1>2, <1>3, <1>4 DEF Ordered, Sorted

LEMMA InitIsOrdered ==
    ASSUME PciInit
    PROVE  Ordered
<1>1. buses = <<>> /\ DOMAIN buses = {} /\ DOMAIN stack = {} /\ phase # "panic"
  BY DEF PciInit
<1> QED
  BY <1>1 DEF Ordered, Sorted

LEMMA OrderedKept ==
    ASSUME PciInv, Ordered, [PciNext]_pciVars
    PROVE  Ordered'
<1>1. ASSUME pcie_scan_device
      PROVE  Ordered'
  <2>1. PICK n \in pci_tree_get_bus_by_id(Frame.bus) :
          GeneralDevice(n) \/ PciToPciBridge(n) \/ OtherHeader
    BY <1>1 DEF pcie_scan_device
  <2>2. AtFunction(n) /\ UNCHANGED <<machine, i, ret>>
    BY <1>1 DEF pcie_scan_device, AtFunction
  <2>3. ASSUME OtherHeader
        PROVE  Ordered'
    <3>1. PICK x : x = Unsupported(Frame)
      OBVIOUS
    <3>2. /\ x \in {NextDevice(Frame), NextFunction(Frame)} /\ stack' = <<x>> \o Below
          /\ UNCHANGED <<machine, phase, buses>>
      BY <2>2, <2>3, <3>1, Places DEF OtherHeader
    <3>3. PciTypes /\ ScanOnce /\ Scanning
      BY <2>2, DeviceFacts
    <3> QED
      BY <3>2, <3>3, OrderedAfterGoOn
  <2> QED
    BY <2>1, <2>2, <2>3, OrderedAfterDevice, OrderedAfterBridge
<1>2. ASSUME Absent
      PROVE  Ordered'
  <2>1. PICK x : x = NextDevice(Frame)
    OBVIOUS
  <2>2. /\ PciTypes /\ ScanOnce /\ Scanning /\ stack' = <<x>> \o Below
        /\ UNCHANGED <<machine, phase, buses>> /\ x \in {NextDevice(Frame), NextFunction(Frame)}
    BY <1>2, <2>1 DEF PciInv, Absent
  <2> QED
    BY <2>2, OrderedAfterGoOn
<1>3. ASSUME pcie_iterate_mcfg_end
      PROVE  Ordered'
  <2>1. UNCHANGED <<machine, stack, buses>> /\ phase' # "panic"
    BY <1>3 DEF pcie_iterate_mcfg_end
  <2> QED
    BY <2>1, OrderedStays
<1>4. ASSUME UNCHANGED pciVars
      PROVE  Ordered'
  BY <1>4, OrderedStays DEF pciVars
<1> QED
  BY <1>1, <1>2, <1>3, <1>4, OrderedAfterRoot, OrderedAfterEntry, OrderedAfterReturn,
     OrderedAfterNotFound DEF PciNext

(***************************************************************************)
(* Whatever failed on the way, when init_pci is through with the entries   *)
(* of MCFG every function on a bus whose scan was not given up is in the   *)
(* tree; and on a machine numbered in order the scan never meets the       *)
(* assertion on the node of its bus.  It needs what Complete says of the   *)
(* scan in progress: a function of a bus that was opened is in the tree or *)
(* still ahead of a call; and Ordered, by which the first bridge that      *)
(* leads to a number is the one on the way to it.                          *)
(***************************************************************************)
THEOREM NoFunctionIsMissed ==
    ASSUME \A m \in Machines : Numbered(m)
    PROVE  PciSpec => []NoneMissed
<1>1. PciInit => PciInv /\ Complete /\ Ordered
  BY InitMeetsPciInv, InitIsComplete, InitIsOrdered
<1>2. PciInv /\ Complete /\ Ordered /\ [PciNext]_pciVars => (PciInv /\ Complete /\ Ordered)'
  <2>1. PciInv => Numbered(machine)
    BY DEF PciInv, PciTypes
  <2> QED
    BY <2>1, PciNextKeeps, CompleteKept, OrderedKept
<1>3. ASSUME PciInv, Complete, Ordered
      PROVE  NoneMissed
  <2>1. LookupFinds
    BY <1>3 DEF Ordered, LookupFinds
  <2>2. ASSUME phase = "done", i > Len(machine.entries), NEW f \in DOMAIN space, Seen(f),
               space[f].type \in Headers, <<f[1], f[2]>> \in Scanned \ left
        PROVE  f \in InTree
    <3>1. ~ Waiting(f)
      BY <1>3, <2>2 DEF PciInv, PciTypes, Waiting
    <3>2. BusOf(f) \in Opened
      <4>1. /\ machine.entries \in Seq([base : Nat, start_bus : Nat]) /\ i \in Nat
        BY <1>3 DEF PciInv, PciTypes
      <4>2. \A k \in DOMAIN machine.entries : k < i
        BY <2>2, <4>1
      <4>3. \A e \in ToSet(machine.entries) : <<e.base, e.start_bus>> \in Opened
        BY <4>2 DEF Opened, ToSet
      <4>4. \A g \in BridgesInTree : <<g[1], space[g].secondary>> \in Opened
        BY DEF Opened
      <4> QED
        BY <2>2, <4>3, <4>4 DEF Scanned, BridgesInTree, BusOf
    <3> QED
      BY <1>3, <2>2, <3>1, <3>2 DEF Complete, Entered, Known, BusOf
  <2> QED
    BY <2>1, <2>2 DEF NoneMissed
<1> QED
  BY <1>1, <1>2, <1>3, PTL DEF PciSpec

=============================================================================
