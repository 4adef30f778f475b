------------------------------- MODULE MCBoot -------------------------------
(* The kernel on the firmware of a few machines.                             *)
EXTENDS Boot

Lapic(id) == [type |-> "lapic", size |-> 1, id |-> id]
IoApic(id, base, address) ==
    [type |-> "io_apic", size |-> 1, id |-> id, base |-> base,
     address |-> address]
Override(irq, gsi) ==
    [type |-> "ioapic_int_map", size |-> 1, irq |-> irq, gsi |-> gsi]
Moved(address) ==
    [type |-> "lapic_addr_override", size |-> 1, address |-> address]
Other(type, size) == [type |-> type, size |-> size]

One == <<Lapic(0), IoApic(0, 0, "io0"), Override(0, 2), Lapic(2),
         Other("lapic_nmi", 1), Lapic(4)>>
Two == <<Moved("low"), IoApic(1, 3, "io1"), Override(3, 5), Lapic(0),
         Other("unknown", 1), IoApic(0, 0, "io0"), Moved("high"),
         Override(3, 4), Other("ioapic_nmi", 1)>>
Short == <<Lapic(0), Other("lapic_nmi", 0), IoApic(0, 0, "io0")>>

Table(sig, sum, fields) == [sig |-> sig, sum |-> sum, fields |-> fields]
Local(mode) == [vector |-> 0, mode |-> mode, masked |-> FALSE]

PC ==
    [params |-> TRUE, font |-> TRUE, apic |-> TRUE,
     tables |-> <<Table("FACP", 0, 1), Table("APIC", 1, 3),
                  Table("APIC", 0, 2)>>,
     dsdt |-> <<"dsdt">>,
     madt |-> [k \in 2..4 |->
         [address |-> IF k = 3 THEN null ELSE "low",
          entries |-> CASE k = 2 -> One [] k = 3 -> Two [] OTHER -> Short]],
     msr |-> [page |-> "low", flags |-> TRUE],
     pages |-> [a \in {"low", "high", "default", "io0", "io1"} |-> a],
     last |-> [id \in {0, 1} |-> 2],
     lvt |-> [pin \in {"timer", "lint0", "lint1"} |-> Local("extint")],
     open |-> {}]

Large == [PC EXCEPT !.tables[2].sum = 0, !.tables[3].sum = 1]
Lines == {Pic, Line(0, 0, 64), Line(0, 2, 23), Line(1, 0, 3)}

MCFirmware ==
    {[f EXCEPT !.open = open] : f \in {PC, Large}, open \in SUBSET Lines}
      \cup {[PC EXCEPT !.params = FALSE], [PC EXCEPT !.font = FALSE],
            [PC EXCEPT !.apic = FALSE], [PC EXCEPT !.dsdt = <<null>>],
            [PC EXCEPT !.tables = <<Table("FACP", 1, 1), @[3]>>],
            [PC EXCEPT !.tables[3].fields = 4]}
      \cup {[Large EXCEPT !.pages[a] = to] :
               a \in {"low", "high", "io0", "io1"}, to \in {null, "elsewhere"}}
      \cup {[PC EXCEPT !.madt[2].address = null, !.msr = msr] :
               msr \in {[page |-> "low", flags |-> TRUE],
                        [page |-> null, flags |-> FALSE]}}

\* What LinesAreMasked of StartProofs asks of a machine.
ASSUME MachinesApart == \A f \in MCFirmware : Apart(f)
=============================================================================
