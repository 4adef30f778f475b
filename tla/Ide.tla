-------------------------------- MODULE Ide --------------------------------
(***************************************************************************)
(* The IDE driver (drv/ide): ide_init looks for the drives of a controller *)
(* and registers them; the wrappers of the reads and writes then move      *)
(* words to and from them.  Bytes have Byte values and sectors Words words *)
(* here.  The drives are external: they answer commands in their own time. *)
(* ide_write_reg writes a word, and only the register of data is that wide: *)
(* each write to another register also writes the one after it.            *)
(***************************************************************************)
EXTENDS Integers, Sequences, SequencesExt, FiniteSets

CONSTANTS
    Byte,       \* values of a byte, 256 in the code; of half a byte as well
    Words,      \* words of a sector, 256 in the code
    PoolSize,   \* size of the pool of devices, 16 in the code
    Machines,   \* controllers: [switchable, dma, ones, floats, drives]
    Sectors,    \* sectors of a drive of each kind
    Requests    \* bound: the requests made, [op, id, address, sectors]

Buses == <<"primary", "secondary">>
Drives == <<"master", "slave">>
Modes == {"chs", "lba28", "lba48"}
Kinds == Modes \cup {"none", "atapi"}

ASSUME IdeAssumption ==
    /\ Byte \in Nat /\ Byte > 1 /\ Words \in Nat \ {0} /\ PoolSize \in Nat
    /\ \A m \in Machines :
           /\ m.drives \in [ToSet(Buses) \X ToSet(Drives) -> Kinds]
           /\ m.ones \in BOOLEAN /\ m.floats \in BOOLEAN
    /\ Sectors \in [Modes -> Nat]
    /\ Requests \subseteq [op : {"read", "write"}, id : Nat \ {0},
                            address : Nat, sectors : Nat]

VARIABLES
    machine,
    hw,         \* external: the registers and drives of each bus
    failed,     \* external: a drive failed a command of this request
    deaf,       \* history: a drive took no notice of its registers
    pc,
    b, d,       \* the places of the bus and drive looked at
    written,    \* registers of the address written so far
    dev,        \* the device looked at, or used by a request
    found,      \* drives registered on each bus
    ide_devices,\* the pool, up to ide_devices_pool_last_ind
    blocks,     \* the blocks of memory ide_init holds
    dangling,   \* pointers to blocks given back
    misfreed,   \* history: kfree was given a pointer to no block
    answered,   \* history: the drives that answered IDENTIFY
    req, moved, \* a request, and the place on a disk of each word moved
    result

hardware == <<machine, hw, failed, deaf>>
heap == <<blocks, dangling, misfreed>>
request == <<req, moved, result>>
records == <<found, ide_devices, answered>>
ideVars == <<hardware, pc, b, d, written, dev, records, heap, request>>

-----------------------------------------------------------------------------
(***************************************************************************)
(* The bus: each register keeps the value written before the last one.     *)
(* Bits 7 and 5 of DRIVE_HEAD are ones in what the driver writes; "ones"   *)
(* says whether they read so whatever is written.                          *)
(***************************************************************************)
Registers == <<"count", "lo", "mid", "hi">>     \* and then DRIVE_HEAD, COMMAND
DriveHead(drive, lba, nibble) ==
    [drive |-> drive, lba |-> lba, nibble |-> nibble, ones |-> TRUE]
Selected(drive) == DriveHead(drive, FALSE, 0)
ZeroHead == [Selected("master") EXCEPT !.ones = machine.ones]

Bus(head) ==
    [head |-> head, reg |-> [r \in ToSet(Registers) |-> <<0, 0>>],
     status |-> [drive \in ToSet(Drives) |-> "ready"],
     op |-> "none", at |-> <<>>, left |-> 0, more |-> 0]

Here == hw[Buses[b]]
Kind(drive) == machine.drives[<<Buses[b], drive>>]

\* A bus without drives may read as all ones, in all its registers.
Floats == /\ machine.floats
          /\ \A drive \in ToSet(Drives) : Kind(drive) = "none"

StatusOf(h, drive) ==
    IF Kind(drive) = "none" THEN IF Floats THEN "busy" ELSE "zero"
    ELSE IF h.status[drive] = "reset" THEN "busy" ELSE h.status[drive]
ide_status == StatusOf(Here, Here.head.drive)

\* A drive at work takes no notice of its registers.
Notices == ide_status \notin {"busy", "drq"}

\* What the registers spell, as a number: the place of a transfer, which is a
\* sector or, with the bit of LBA clear, a cylinder, head and sector.
Spelt(h, wide) ==
    LET Three(n) == h.reg["lo"][n] + Byte * h.reg["mid"][n]
                        + (Byte * Byte) * h.reg["hi"][n]
    IN  Three(1) + (Byte * Byte * Byte)
                       * (IF wide THEN Three(2) ELSE h.head.nibble)
Count(h, wide) ==
    LET size == IF wide THEN Byte * Byte ELSE Byte
        n    == (h.reg["count"][1] + Byte * h.reg["count"][2]) % size
    IN  IF n = 0 THEN size ELSE n

Transfers == {"read", "read_ext", "write", "write_ext"}

\* A drive takes no command while it is at work.  The place of a transfer is
\* followed by the sectors moved since.
Commanded(h, op) ==
    IF \/ Kind(h.head.drive) = "none"
       \/ h.status[h.head.drive] \in {"busy", "reset", "drq"} THEN h
    ELSE LET wide == op \in {"read_ext", "write_ext"}
             told == [h EXCEPT !.op = op, !.status[h.head.drive] = "busy"]
         IN  IF op \notin Transfers THEN told
             ELSE [told EXCEPT
                      !.at = <<h.head.drive, h.head.lba,
                               Spelt(h, wide /\ h.head.lba), 0>>,
                      !.left = Words, !.more = Count(h, wide) - 1]

\* ide_write_reg: the second byte of the word goes to the next register.  It
\* is 0, except for a count of sectors; as a command 0 is that of doing nothing.
WriteHead(h, head) == Commanded([h EXCEPT !.head = head], "nop")
WriteRegister(h, k, value) ==
    LET low == [h EXCEPT !.reg[Registers[k]] = <<value % Byte, @[1]>>]
    IN  IF k = 4 THEN [low EXCEPT !.head = ZeroHead]
        ELSE [low EXCEPT !.reg[Registers[k + 1]] =
                             <<(value \div Byte) % Byte, @[1]>>]

\* A drive that is busy gets on with its command, or fails it.
DriveStep(bus, drive) ==
    LET h    == hw[bus]
        kind == machine.drives[<<bus, drive>>]
        Status(s) == hw' = [hw EXCEPT ![bus].status[drive] = s]
        refused == \/ h.op \in Transfers \cup {"identify"} /\ kind = "atapi"
                   \/ h.op \in {"read_ext", "write_ext"} /\ kind # "lba48"
    IN  /\ \/ /\ h.status[drive] = "busy"
              /\ h.op \in Transfers \cup {"identify"} /\ ~refused
              /\ Status("drq") /\ UNCHANGED failed
           \/ /\ h.status[drive] = "busy"
              /\ refused \/ (h.op \in Transfers /\ ~failed)
              /\ Status("err") /\ failed' = TRUE
           \/ /\ h.status[drive] = "busy" /\ h.op = "nop"
              /\ Status("err") /\ UNCHANGED failed
           \/ /\ \/ h.status[drive] = "reset"
                 \/ h.status[drive] = "busy" /\ h.op \in {"flush", "stored"}
              /\ Status("ready") /\ UNCHANGED failed
        /\ UNCHANGED <<machine, deaf, pc, b, d, written, dev, records, heap,
                       request>>

\* One word is moved; then the next sector, if any.
Moved(h) ==
    LET drive == h.head.drive
        last  == IF h.op \in {"read", "read_ext"} THEN "ready" ELSE "busy"
    IN  IF h.left > 1 THEN [h EXCEPT !.left = @ - 1]
        ELSE IF h.more > 0
        THEN [h EXCEPT !.left = Words, !.more = @ - 1, !.at[4] = @ + 1,
                       !.status[drive] = "busy"]
        ELSE [h EXCEPT !.status[drive] = last, !.op = "stored", !.at = <<>>,
                        !.left = 0]

-----------------------------------------------------------------------------
Init ==
    /\ machine \in Machines
    /\ hw = [bus \in ToSet(Buses) |-> Bus(ZeroHead)]
    /\ failed = FALSE /\ deaf = FALSE
    /\ pc = "init" /\ b = 1 /\ d = 1 /\ written = 0 /\ dev = <<>>
    /\ found = [bus \in ToSet(Buses) |-> 0]
    /\ ide_devices = <<>> /\ answered = <<>>
    /\ blocks = {} /\ dangling = {} /\ misfreed = FALSE
    /\ req = <<>> /\ moved = <<>> /\ result = FALSE

(***************************************************************************)
(* ide_init up to the buses: the mode of both must be switchable, and      *)
(* kmalloc may refuse any block.  A block is named by the bus and what it  *)
(* holds.                                                                  *)
(***************************************************************************)
Block(bus, what) == <<bus, what>>
Objects(what) == {Block(Buses[k], what) : k \in 1..2}

ide_set_bus_mode == machine.switchable

NoMemory ==
    /\ misfreed' \in BOOLEAN  \* a second pointer never set is given back
    /\ UNCHANGED <<blocks, dangling>>

\* The descriptors of dma; the pointer to the first one is kept when the
\* second is refused.
GetTables ==
    \/ /\ ~machine.dma /\ blocks' = Objects("bus")
       /\ UNCHANGED dangling
    \/ /\ machine.dma /\ blocks' = Objects("bus") \cup Objects("prdt")
       /\ UNCHANGED dangling
    \/ /\ machine.dma /\ blocks' = Objects("bus")
       /\ dangling' \in {{}, {Block("primary", "prdt")}}

ide_init ==
    /\ pc = "init"
    /\ \/ /\ ide_set_bus_mode /\ GetTables
          /\ pc' = "identify" /\ UNCHANGED misfreed
       \/ /\ ide_set_bus_mode /\ NoMemory /\ pc' = "stop"
       \/ /\ ~ide_set_bus_mode /\ pc' = "stop" /\ UNCHANGED heap
    /\ UNCHANGED <<hardware, b, d, written, dev, records, request>>

-----------------------------------------------------------------------------
(***************************************************************************)
(* ide_bus_test_and_add_drives.                                            *)
(***************************************************************************)
ide_device_t == [bus : ToSet(Buses), drive : ToSet(Drives), magic : BOOLEAN,
                 addr_mode : Modes \cup {"other"}, sectors : Nat,
                 ide_type : {"pata", "unknown"}]

ToBus(h) == hw' = [hw EXCEPT ![Buses[b]] = h]

\* ide_select_drive: the drive selected, once it is not busy if another was.
ide_select_drive(drive) ==
    \/ Here.head = Selected(drive) /\ ~Floats /\ UNCHANGED hw
    \/ /\ Here.head # Selected(drive) \/ Floats
       /\ ide_status # "busy"
       /\ ToBus(IF Notices THEN WriteHead(Here, Selected(drive)) ELSE Here)

\* One more of the registers that are written in turn.
ide_write_reg(values) ==
    /\ ToBus(IF Notices
             THEN WriteRegister(Here, (written % 4) + 1, values[written + 1])
             ELSE Here)
    /\ written' = IF written + 1 = Len(values) THEN 0 ELSE written + 1

\* On to the next drive, or to the next bus.
After(bus, drive) ==
    /\ b' = IF drive = 2 THEN bus + 1 ELSE bus
    /\ d' = IF drive = 2 THEN 1 ELSE drive + 1
    /\ pc' = IF bus = 2 /\ drive = 2 THEN "release" ELSE "identify"

identify ==
    /\ pc = "identify"
    /\ ide_select_drive(Drives[d])
    /\ pc' = "clear"
    /\ UNCHANGED <<machine, failed, deaf, b, d, written, dev, records, heap,
                   request>>

identify_clear ==
    /\ pc = "clear"
    /\ ide_write_reg(<<0, 0, 0, 0>>)
    /\ pc' = IF written' = 0 THEN "ask" ELSE "clear"
    /\ UNCHANGED <<machine, failed, deaf, b, d, dev, records, heap, request>>

identify_command ==
    /\ pc = "ask"
    /\ ide_status # "busy"
    /\ ToBus(Commanded(Here, "identify"))
    /\ pc' = "status"
    /\ UNCHANGED <<machine, failed, deaf, b, d, written, dev, records, heap,
                   request>>

ide_check_error == ide_status = "err"

identify_no_drive_first ==
    /\ \/ pc = "status" /\ ide_status = "zero"
       \/ pc = "status" /\ ide_check_error
    /\ After(b, d)
    /\ UNCHANGED <<hardware, written, dev, records, heap, request>>

identify_no_drive ==
    /\ \/ pc = "status" /\ ide_status = "zero"
       \/ pc \in {"status", "wait"} /\ ide_check_error
    /\ After(b, d)
    /\ UNCHANGED <<hardware, written, dev, records, heap, request>>

identify_waits ==
    /\ pc = "status" /\ ide_status \notin {"zero", "err"}
    /\ pc' = "wait"
    /\ UNCHANGED <<hardware, b, d, written, dev, records, heap, request>>

\* ide_save_device_info, for the master; for the slave it fills a record
\* that is dropped, and the bytes of the stack stay.  Then the bus is reset.
Saved(kind) ==
    [addr_mode |-> kind, sectors |-> Sectors[kind], magic |-> TRUE]
Bytes == [addr_mode : Modes \cup {"other"}, sectors : {0, Sectors["lba28"]},
          magic : BOOLEAN]

Information(kind) ==
    IF Drives[d] = "slave" THEN Bytes
    ELSE IF kind = "chs" THEN {i \in Bytes : i.magic /\ i.addr_mode = "chs"}
    ELSE {Saved(kind)}

identify_words ==
    /\ pc = "wait" /\ ide_status = "drq"
    /\ \E info \in Information(Kind(Drives[d])) :
           dev' = [bus |-> Buses[b], drive |-> Drives[d],
                   addr_mode |-> info.addr_mode, sectors |-> info.sectors,
                   magic |-> info.magic, ide_type |-> "unknown"]
    /\ ToBus([Here EXCEPT !.head = ZeroHead,
                  !.status = [drive \in ToSet(Drives) |-> "reset"]])
    /\ answered' = Append(answered, <<Buses[b], Drives[d]>>)
    /\ pc' = "type"
    /\ UNCHANGED <<machine, failed, deaf, b, d, written, found, ide_devices,
                   heap, request>>

\* ide_save_device_ide_type after the reset: a drive already selected is not
\* waited for.  There is no signature to be read while the drive is busy, and
\* none of an absent one.
Types(h, drive) ==
    IF StatusOf(h, drive) \in {"busy", "zero"} THEN {"pata", "unknown"}
    ELSE IF Kind(drive) = "atapi" THEN {"unknown"} ELSE {"pata"}
HasRoom == Len(ide_devices) < PoolSize    \* obj_pool_put

Put_anywhere(device) == Append(ide_devices, [device EXCEPT !.drive = "master"])
Put(device) == Append(ide_devices, device)

ide_save_device_ide_type ==
    /\ pc = "type"
    /\ ide_select_drive(Drives[d])
    /\ \E type \in Types(hw'[Buses[b]], Drives[d]) :
        /\ ide_devices' = IF HasRoom THEN Put([dev EXCEPT !.ide_type = type])
                          ELSE ide_devices
        /\ found' = IF HasRoom THEN [found EXCEPT ![Buses[b]] = @ + 1]
                    ELSE found
    /\ dev' = <<>>
    /\ After(b, d)
    /\ UNCHANGED <<machine, failed, deaf, written, heap, answered, request>>

\* The end of ide_init: the blocks of a bus without drives are given back,
\* the dangling pointer among them.
Unused_primary == {bus \in ToSet(Buses) : found["primary"] = 0}
Unused == {bus \in ToSet(Buses) : found[bus] = 0}

ide_init_end ==
    /\ pc = "release"
    /\ blocks' = {block \in blocks : block[1] \notin Unused}
    /\ dangling' = {block \in dangling : block[1] \notin Unused}
    /\ misfreed' = (misfreed \/ dangling' # dangling)
    /\ pc' = "idle" /\ b' = 1 /\ d' = 1
    /\ UNCHANGED <<hardware, written, dev, records, request>>

-----------------------------------------------------------------------------
(***************************************************************************)
(* ide_read_wrapper and ide_write_wrapper, ide_read and ide_write.         *)
(***************************************************************************)
ide_check_type(device) == device.ide_type = "pata"
Accepted(r) ==
    /\ r.id <= Len(ide_devices)
    /\ ide_devices[r.id].magic /\ ide_check_type(ide_devices[r.id])

Place(name, names) == CHOOSE k \in DOMAIN names : names[k] = name

\* Bound: no request is made once a drive took no notice of its registers, as
\* no property says anything of what it then moves.
ide_request(r) ==
    /\ pc = "idle" /\ ~deaf
    /\ req' = r /\ moved' = <<>>
    /\ IF r.sectors # 0 /\ Accepted(r)
       THEN /\ dev' = ide_devices[r.id]
            /\ b' = Place(ide_devices[r.id].bus, Buses)
            /\ pc' = "select" /\ result' = FALSE
       ELSE /\ pc' = "done" /\ result' = (r.sectors = 0)
            /\ UNCHANGED <<b, dev>>
    /\ failed' = FALSE
    /\ UNCHANGED <<machine, hw, deaf, d, written, records, heap>>

\* A shift by k bytes, of which the lowest byte is taken.
Weight == LET Cube == Byte * Byte * Byte
          IN  <<1, Byte, Byte * Byte, Cube, Cube * Byte, Cube * Byte * Byte>>
Digit(n, k) == (n \div Weight[k + 1]) % Byte

\* ide_init_transaction: the values of the registers, in the order in which
\* they are written; those of lba48 are written twice, the high bytes first.
Low(mode, r) ==
    <<IF mode = "chs" THEN r.sectors ELSE Digit(r.sectors, 0),
      Digit(r.address, 0), Digit(r.address, 1), Digit(r.address, 2)>>
High(r) == <<Digit(r.sectors, 1), Digit(r.address, 3), Digit(r.address, 4),
             Digit(r.address, 5)>>

Values_low_first(mode, r) ==
    IF mode = "lba48" THEN Low(mode, r) \o High(r) ELSE Low(mode, r)
Values(mode, r) ==
    IF mode = "lba48" THEN High(r) \o Low(mode, r) ELSE Low(mode, r)

HeadOf(device, r) ==
    DriveHead(device.drive, device.addr_mode # "chs",
              IF device.addr_mode = "lba48" THEN 0 ELSE Digit(r.address, 3))

Command(mode) ==
    IF mode # "lba48" THEN req.op
    ELSE IF req.op = "read" THEN "read_ext" ELSE "write_ext"

request_selects ==
    /\ pc = "select"
    /\ ide_select_drive(dev.drive)
    /\ pc' = IF req.sectors > dev.sectors \/ dev.addr_mode \notin Modes
             THEN "done" ELSE "head"
    /\ UNCHANGED <<machine, failed, deaf, b, d, written, dev, records, heap,
                   request>>

\* The drive is not waited for between the registers.
init_transaction_head ==
    /\ pc = "head"
    /\ ToBus(IF Notices THEN WriteHead(Here, HeadOf(dev, req)) ELSE Here)
    /\ deaf' = (deaf \/ ~Notices)
    /\ pc' = "set"
    /\ UNCHANGED <<machine, failed, b, d, written, dev, records, heap, request>>

ide_init_transaction ==
    /\ pc = "set"
    /\ ide_write_reg(Values(dev.addr_mode, req))
    /\ deaf' = (deaf \/ ~Notices)
    /\ pc' = IF written' = 0 THEN "command" ELSE "set"
    /\ UNCHANGED <<machine, failed, b, d, dev, records, heap, request>>

ide_command ==
    /\ pc = "command"
    /\ ide_status # "busy"
    /\ ToBus(Commanded(Here, Command(dev.addr_mode)))
    /\ pc' = "poll"
    /\ UNCHANGED <<machine, failed, deaf, b, d, written, dev, records, heap,
                   request>>

\* ide_poll, the check of the error, and the data register.
PlaceOf(h) == Append(h.at, Words - h.left)
More == Len(moved') < req.sectors * Words

ide_read_word ==
    /\ pc = "poll" /\ req.op = "read"
    /\ ide_status = "drq"
    /\ moved' = Append(moved, PlaceOf(Here))
    /\ ToBus(Moved(Here))
    /\ pc' = IF More THEN "poll" ELSE "done"
    /\ result' = ~More
    /\ UNCHANGED <<machine, failed, deaf, b, d, written, dev, records, heap,
                   req>>

ide_read_error ==
    /\ pc = "poll" /\ req.op = "read"
    /\ ide_check_error
    /\ moved' = <<>> /\ pc' = "done"
    /\ UNCHANGED <<hardware, b, d, written, dev, records, heap,
                   req, result>>

\* A write does not look at the error; a word the drive did not ask for is
\* lost.
ide_write_word ==
    /\ pc = "poll" /\ req.op = "write"
    /\ ide_status \in {"drq", "err"}
    /\ IF ide_status = "drq"
       THEN moved' = Append(moved, PlaceOf(Here)) /\ ToBus(Moved(Here))
       ELSE moved' = Append(moved, <<>>) /\ UNCHANGED hw
    /\ pc' = "flush"
    /\ UNCHANGED <<machine, failed, deaf, b, d, written, dev, records, heap,
                   req, result>>

ide_write_flush ==
    /\ pc = "flush"
    /\ ide_status # "busy"
    /\ ToBus(Commanded(Here, "flush"))
    /\ pc' = IF Len(moved) < req.sectors * Words THEN "poll" ELSE "done"
    /\ result' = (Len(moved) >= req.sectors * Words)
    /\ UNCHANGED <<machine, failed, deaf, b, d, written, dev, records, heap,
                   req, moved>>

ide_request_end ==
    /\ pc = "done"
    /\ pc' = "idle" /\ dev' = <<>> /\ req' = <<>> /\ moved' = <<>>
    /\ result' = FALSE /\ failed' = FALSE
    /\ UNCHANGED <<machine, hw, deaf, b, d, written, records, heap>>

-----------------------------------------------------------------------------
Driver ==
    \/ ide_init \/ identify \/ identify_clear \/ identify_command
    \/ identify_no_drive \/ identify_waits \/ identify_words
    \/ ide_save_device_ide_type \/ ide_init_end
    \/ request_selects \/ init_transaction_head \/ ide_init_transaction
    \/ ide_command
    \/ ide_read_word \/ ide_read_error \/ ide_write_word \/ ide_write_flush
    \/ ide_request_end
DrivesStep ==
    \E bus \in ToSet(Buses), drive \in ToSet(Drives) : DriveStep(bus, drive)

Next == Driver \/ DrivesStep \/ \E r \in Requests : ide_request(r)

-----------------------------------------------------------------------------
\* The type of every variable.
TypeOK ==
    /\ pc \in {"init", "stop", "identify", "status", "wait", "type",
               "clear", "ask", "release", "idle", "select", "head", "set",
               "command", "poll", "flush", "done"}
    /\ b \in 1..(IF pc = "release" THEN 3 ELSE 2) /\ d \in 1..2
    /\ written \in 0..7 /\ (pc \notin {"clear", "set"} => written = 0)
    /\ dev = <<>> \/ dev \in ide_device_t
    /\ ToSet(ide_devices) \subseteq ide_device_t
    /\ Len(ide_devices) <= PoolSize
    /\ blocks \subseteq Objects("bus") \cup Objects("prdt")

\* The order in which the drives are looked at.
Order(at) == (IF at[1] = "primary" THEN 2 ELSE 4)
                 + (IF at[2] = "master" THEN 1 ELSE 2)

Ready == pc \in {"idle", "select", "head", "set", "command", "poll", "flush",
                 "done"}

(***************************************************************************)
(* What the search for drives finds (ide_bus_test_and_add_drives).  The    *)
(* records are those of the places where a drive answered, each once and   *)
(* in the order of the buses, as far as the pool goes.  A master answers   *)
(* if it is an ATA drive.  The second byte of the last register cleared by *)
(* ide_identify selects the master, so most of the time the master answers *)
(* for the slave: an absent slave is then registered, and a slave beside   *)
(* no master is not.  It may still answer itself, when it was at work and  *)
(* took no notice of the registers.                                        *)
(***************************************************************************)
Ata(bus, drive) == machine.drives[<<bus, drive>>] \in Modes

DrivesRegistered ==
    /\ TypeOK
    /\ Ready =>
        /\ [k \in DOMAIN ide_devices |->
                <<ide_devices[k].bus, ide_devices[k].drive>>]
               = SubSeq(answered, 1, Len(ide_devices))
        /\ Len(ide_devices) < PoolSize => Len(ide_devices) = Len(answered)
        /\ \A bus \in ToSet(Buses) :
               LET master == <<bus, "master">> \in ToSet(answered)
                   slave  == <<bus, "slave">> \in ToSet(answered)
               IN  /\ master <=> Ata(bus, "master")
                   /\ slave => Ata(bus, "master") \/ Ata(bus, "slave")
                   /\ Ata(bus, "master") =>
                          slave \/ machine.drives[<<bus, "slave">>] = "atapi"
        /\ \A j, k \in DOMAIN answered :
               j < k => Order(answered[j]) < Order(answered[k])

(***************************************************************************)
(* After ide_init the driver holds the blocks of the buses with a drive    *)
(* registered, and no others: no record of the pool leads to a bus that    *)
(* was given back, and none is leaked.  kfree gets a pointer to no block   *)
(* only after kmalloc refused one.                                         *)
(***************************************************************************)
BusesHeld ==
    Ready =>
        /\ {block[1] : block \in blocks}
               = {ide_devices[k].bus : k \in DOMAIN ide_devices}
        /\ \A block \in blocks : Block(block[1], "bus") \in blocks
        /\ misfreed => machine.dma

(***************************************************************************)
(* Where the words of a request go (ide_init_transaction, ide_poll).  If   *)
(* no register was lost on a drive at work, a request answered with true   *)
(* has moved every word it was asked for, once and in order, whatever the  *)
(* registers held before; except that a write says so after the drive      *)
(* failed.  But DRIVE_HEAD is 0 by then: the words are those of the        *)
(* master, from the cylinder, head and sector that the low three bytes of  *)
(* the address spell, whichever drive and mode of addresses was asked for. *)
(***************************************************************************)
WordsMoved ==
    pc = "done" /\ result /\ req.sectors > 0 =>
        \/ deaf \/ (failed /\ req.op = "write")
        \/ moved = [k \in 1..req.sectors * Words |->
                        <<"master", FALSE, req.address % Weight[4],
                          (k - 1) \div Words, (k - 1) % Words>>]
=============================================================================
