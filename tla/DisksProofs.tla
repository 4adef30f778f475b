---------------------------- MODULE DisksProofs ----------------------------
(***************************************************************************)
(* Proofs about the disks.                                                 *)
(*                                                                         *)
(* The first part is about AHCI.  As long as neither race has happened, a  *)
(* slot that is issued and not being filled holds the header of a command  *)
(* given, and no two of them hold the same: so a command is live in one    *)
(* slot until it runs and in none afterwards.                              *)
(***************************************************************************)
EXTENDS Disks, FiniteSetTheorems, TLAPS

USE AhciAssumption

-----------------------------------------------------------------------------
AhciTypeOK ==
    /\ apc \in {"search", "idle", "look", "or", "issue", "copy"}
    /\ next_port \in 0 .. Ports
    /\ ahci_devices \in Seq(PortNumber)
    /\ command_issue \in [PortNumber -> SUBSET Slot]
    /\ header \in [PortNumber -> [Slot -> 0 .. MaxComm]]
    /\ fetched \in [PortNumber -> [s : 0 .. AdapterSlots, c : 0 .. MaxComm]]
    /\ comm \in 0 .. MaxComm /\ given \subseteq 1 .. comm
    /\ was \subseteq Slot
    /\ ran \in [0 .. MaxComm -> Nat]
    /\ apc \in {"look", "or", "issue", "copy"} =>
         port \in PortNumber /\ slot \in Slot /\ comm \notin given /\ comm # Zero

\* The slot whose header is yet to be copied.
Filling(p, s) == apc = "copy" /\ p = port /\ s = slot

\* The slots in which a command waits for the adapter, or is worked on.
Live(c) ==
    {x \in PortNumber \X Slot :
       x[2] \in command_issue[x[1]] /\ header[x[1]][x[2]] = c /\ ~Filling(x[1], x[2])}

\* The adapter works on what the slot holds, and never on one being filled.
FetchedInv ==
    \A p \in PortNumber :
       fetched[p] # Free =>
         /\ fetched[p].s \in command_issue[p]
         /\ fetched[p].c = header[p][fetched[p].s]
         /\ ~Filling(p, fetched[p].s)

\* The slot chosen stays free until it is issued, and is issued while it is
\* being filled.
ChosenInv ==
    /\ apc \in {"or", "issue"} => slot \notin command_issue[port]
    /\ apc = "copy" => slot \in command_issue[port]

\* A command is live in one slot until it runs, and runs once.
CountedInv ==
    \A c \in 0 .. MaxComm :
       \/ c \notin given /\ ran[c] = 0 /\ Live(c) = {}
       \/ c \in given /\ ran[c] = 0 /\ \E x \in PortNumber \X Slot : Live(c) = {x}
       \/ c \in given /\ ran[c] = 1 /\ Live(c) = {}

AhciInv ==
    /\ AhciTypeOK
    /\ early \/ again \/ (FetchedInv /\ ChosenInv /\ CountedInv)

LEMMA AhciTypeInit == AhciInit => AhciTypeOK
<1> SUFFICES ASSUME AhciInit PROVE AhciTypeOK
  OBVIOUS
<1>1. Free \in [s : 0 .. AdapterSlots, c : 0 .. MaxComm]
  BY DEF Free, Zero
<1>2. \A p \in PortNumber : [s \in Slot |-> Zero] \in [Slot -> 0 .. MaxComm]
  BY DEF Zero
<1>3. <<>> \in Seq(PortNumber)
  OBVIOUS
<1>4. given \subseteq 1 .. comm
  BY DEF AhciInit
<1> QED
  BY <1>1, <1>2, <1>3, <1>4 DEF AhciInit, AhciTypeOK

LEMMA AhciTypeStep ==
    ASSUME AhciTypeOK, AhciNext
    PROVE  AhciTypeOK'
<1>1. CASE ahci_search_and_add_devices
  <2>1. next_port' \in 0 .. Ports /\ ahci_devices' \in Seq(PortNumber) /\ apc' \in {"search", "idle"}
    <3>1. CASE next_port = Ports
      BY <1>1, <3>1 DEF ahci_search_and_add_devices, Searched, AhciTypeOK
    <3>2. CASE next_port < Ports /\ UNCHANGED ahci_devices
      BY <1>1, <3>2 DEF ahci_search_and_add_devices, Searched, AhciTypeOK
    <3>3. CASE next_port < Ports /\ ahci_devices' = Append(ahci_devices, next_port)
      <4>1. next_port \in PortNumber
        BY <3>3 DEF AhciTypeOK, PortNumber
      <4>2. ahci_devices' \in Seq(PortNumber)
        BY <3>3, <4>1 DEF AhciTypeOK
      <4> QED
        BY <1>1, <3>3, <4>2 DEF ahci_search_and_add_devices, Searched, AhciTypeOK
    <3>4. next_port = Ports \/ next_port < Ports
      BY DEF AhciTypeOK
    <3> QED
      BY <1>1, <3>1, <3>2, <3>3, <3>4 DEF ahci_search_and_add_devices
  <2>2. UNCHANGED <<command_issue, header, fetched, comm, given, was, ran>>
    BY <1>1 DEF ahci_search_and_add_devices, adapter, call
  <2> QED
    BY <2>1, <2>2 DEF AhciTypeOK
<1>2. CASE ahci_command
  <2>1. port' \in PortNumber
    BY <1>2 DEF ahci_command, ToSet, AhciTypeOK
  <2>2. comm' = comm + 1 /\ comm' \in 0 .. MaxComm /\ comm' \notin given /\ comm' # Zero
        /\ given' \subseteq 1 .. comm' /\ slot' \in Slot
    BY <1>2 DEF ahci_command, AhciTypeOK, Zero, Slot
  <2> QED
    BY <1>2, <2>1, <2>2 DEF ahci_command, AhciTypeOK, adapter, pool
<1>3. CASE ahci_cl_get_slot
  <2>1. slot' \in Slot /\ apc' \in {"idle", "look", "or"}
    <3>1. slot \in Slot
      BY <1>3 DEF ahci_cl_get_slot, AhciTypeOK
    <3>2. slot \in Slot /\ slot \in Nat /\ slots \in Nat
      BY <3>1 DEF slots, Slot
    <3>3. slot < slots => slot + 1 \in Slot
      BY <3>2 DEF slots, Slot
    <3>4. slot' = slot \/ (slot < slots /\ slot' = slot + 1)
      BY <1>3 DEF ahci_cl_get_slot
    <3>5. apc' \in {"idle", "look", "or"}
      BY <1>3 DEF ahci_cl_get_slot
    <3> QED
      BY <3>2, <3>3, <3>4, <3>5
  <2> QED
    BY <1>3, <2>1 DEF ahci_cl_get_slot, AhciTypeOK, adapter, pool
<1>4. CASE set_slot_read
  BY <1>4 DEF set_slot_read, AhciTypeOK, adapter, pool
<1>5. CASE set_slot_write
  <2>1. command_issue' \in [PortNumber -> SUBSET Slot]
    BY <1>5 DEF set_slot_write, Issued, AhciTypeOK
  <2> QED
    BY <1>5, <2>1 DEF set_slot_write, AhciTypeOK, adapter, pool
<1>6. CASE copy_header
  <2>1. header' \in [PortNumber -> [Slot -> 0 .. MaxComm]]
    BY <1>6 DEF copy_header, AhciTypeOK
  <2>2. given' \subseteq 1 .. comm
    BY <1>6 DEF copy_header, AhciTypeOK, Zero
  <2> QED
    BY <1>6, <2>1, <2>2 DEF copy_header, AhciTypeOK, adapter, pool
<1>7. ASSUME NEW p \in PortNumber, Fetch(p) PROVE AhciTypeOK'
  <2>1. PICK s \in command_issue[p] : fetched' = [fetched EXCEPT ![p] = [s |-> s, c |-> header[p][s]]]
    BY <1>7 DEF Fetch
  <2>2. s \in Slot /\ Slot \subseteq 0 .. AdapterSlots /\ header[p][s] \in 0 .. MaxComm
    BY <2>1 DEF AhciTypeOK, Slot
  <2>3. fetched' \in [PortNumber -> [s : 0 .. AdapterSlots, c : 0 .. MaxComm]]
    BY <2>1, <2>2 DEF AhciTypeOK
  <2> QED
    BY <1>7, <2>3 DEF Fetch, AhciTypeOK, pool, call
<1>8. ASSUME NEW p \in PortNumber, Done(p) PROVE AhciTypeOK'
  <2>1. fetched[p] \in [s : 0 .. AdapterSlots, c : 0 .. MaxComm]
    BY DEF AhciTypeOK
  <2>2. Free \in [s : 0 .. AdapterSlots, c : 0 .. MaxComm]
    BY DEF Free, Zero
  <2>3. ran' \in [0 .. MaxComm -> Nat]
    BY <1>8, <2>1 DEF Done, AhciTypeOK
  <2>4. command_issue' \in [PortNumber -> SUBSET Slot]
    BY <1>8 DEF Done, AhciTypeOK
  <2>5. fetched' \in [PortNumber -> [s : 0 .. AdapterSlots, c : 0 .. MaxComm]]
    BY <1>8, <2>2 DEF Done, AhciTypeOK
  <2> QED
    BY <1>8, <2>3, <2>4, <2>5 DEF Done, AhciTypeOK, pool, call
<1> QED
  BY <1>1, <1>2, <1>3, <1>4, <1>5, <1>6, <1>7, <1>8 DEF AhciNext

\* The races are remembered.
LEMMA RacesStay ==
    ASSUME AhciNext, ~early', ~again'
    PROVE  ~early /\ ~again
<1>1. CASE ahci_search_and_add_devices
  BY <1>1 DEF ahci_search_and_add_devices
<1>2. CASE ahci_command
  BY <1>2 DEF ahci_command
<1>3. CASE ahci_cl_get_slot
  BY <1>3 DEF ahci_cl_get_slot
<1>4. CASE set_slot_read
  BY <1>4 DEF set_slot_read
<1>5. CASE set_slot_write
  BY <1>5 DEF set_slot_write
<1>6. CASE copy_header
  BY <1>6 DEF copy_header
<1>7. ASSUME NEW p \in PortNumber, Fetch(p) PROVE ~early /\ ~again
  BY <1>7 DEF Fetch
<1>8. ASSUME NEW p \in PortNumber, Done(p) PROVE ~early /\ ~again
  BY <1>8 DEF Done
<1> QED
  BY <1>1, <1>2, <1>3, <1>4, <1>5, <1>6, <1>7, <1>8 DEF AhciNext

LEMMA SameLive ==
    ASSUME \A p \in PortNumber : \A s \in Slot :
              (s \in command_issue'[p] /\ ~Filling(p, s)') <=> (s \in command_issue[p] /\ ~Filling(p, s)),
           UNCHANGED header
    PROVE  \A c : Live(c)' = Live(c)
<1> TAKE c
<1>1. \A x \in PortNumber \X Slot :
         (x[2] \in command_issue'[x[1]] /\ ~Filling(x[1], x[2])')
            <=> (x[2] \in command_issue[x[1]] /\ ~Filling(x[1], x[2]))
  OBVIOUS
<1> QED
  BY <1>1 DEF Live

\* A step of ahci_command that issues no slot and copies no header.
LEMMA AhciQuietStep ==
    ASSUME FetchedInv, CountedInv, UNCHANGED <<command_issue, header, fetched, given, ran>>,
           apc # "copy", apc' # "copy"
    PROVE  FetchedInv' /\ CountedInv'
<1>1. \A c : Live(c)' = Live(c)
  BY SameLive DEF Filling
<1>2. FetchedInv'
  <2> SUFFICES ASSUME NEW p \in PortNumber, fetched[p] # Free
               PROVE  fetched[p].s \in command_issue[p] /\ fetched[p].c = header[p][fetched[p].s]
    <3>1. \A p, s : ~Filling(p, s)'
      BY DEF Filling
    <3> QED
      BY <3>1 DEF FetchedInv
  <2> QED
    BY DEF FetchedInv
<1>3. CountedInv'
  BY <1>1 DEF CountedInv
<1> QED
  BY <1>2, <1>3

LEMMA AhciStep ==
    ASSUME AhciTypeOK, AhciNext, ~early', ~again', FetchedInv, ChosenInv, CountedInv
    PROVE  FetchedInv' /\ ChosenInv' /\ CountedInv'
<1>1. CASE ahci_search_and_add_devices \/ ahci_command \/ ahci_cl_get_slot \/ set_slot_read
  <2>1. /\ UNCHANGED <<command_issue, header, fetched, given, ran>>
        /\ apc # "copy" /\ apc' # "copy"
    BY <1>1 DEF ahci_search_and_add_devices, Searched, ahci_command, ahci_cl_get_slot, set_slot_read,
                adapter, call
  <2>2. ChosenInv'
    BY <1>1 DEF ahci_search_and_add_devices, Searched, ahci_command, ahci_cl_get_slot, set_slot_read,
                Taken, ChosenInv, call, slots
  <2> QED
    BY <2>1, <2>2, AhciQuietStep
<1>2. CASE set_slot_write
  <2>1. /\ apc = "issue" /\ apc' = "copy" /\ port \in PortNumber /\ slot \in Slot
        /\ slot \notin command_issue[port]
        /\ UNCHANGED <<port, slot, header, fetched, given, ran>>
    BY <1>2 DEF set_slot_write, AhciTypeOK, ChosenInv, adapter
  <2>2. was \subseteq command_issue[port]
    BY <1>2 DEF set_slot_write
  <2>3. \A p \in PortNumber :
           command_issue'[p] = IF p = port THEN command_issue[p] \cup {slot} ELSE command_issue[p]
    BY <1>2, <2>1, <2>2 DEF set_slot_write, Issued, AhciTypeOK
  <2>4. \A p, s : ~Filling(p, s) /\ (Filling(p, s)' <=> (p = port /\ s = slot))
    BY <2>1 DEF Filling
  <2>5. \A c : Live(c)' = Live(c)
    BY <2>1, <2>3, <2>4, SameLive
  <2>6. FetchedInv'
    BY <2>1, <2>3, <2>4 DEF FetchedInv
  <2>7. CountedInv'
    BY <2>1, <2>5 DEF CountedInv
  <2>8. slot \in command_issue'[port]
    BY <2>1, <2>3
  <2> QED
    BY <2>1, <2>6, <2>7, <2>8 DEF ChosenInv
<1>3. CASE copy_header
  <2>1. /\ apc = "copy" /\ apc' = "idle" /\ port \in PortNumber /\ slot \in Slot
        /\ comm \notin given /\ comm \in 0 .. MaxComm
        /\ given' = given \cup {comm}
        /\ UNCHANGED <<port, slot, comm, command_issue, fetched, ran>>
    BY <1>3 DEF copy_header, AhciTypeOK, adapter
  <2>2. \A p \in PortNumber : \A s \in Slot :
           header'[p][s] = IF p = port /\ s = slot THEN comm ELSE header[p][s]
    BY <1>3, <2>1 DEF copy_header, AhciTypeOK
  <2>3. \A p, s : ~Filling(p, s)' /\ (Filling(p, s) <=> (p = port /\ s = slot))
    BY <2>1 DEF Filling
  <2>4. FetchedInv'
    <3> SUFFICES ASSUME NEW p \in PortNumber, fetched[p] # Free
                 PROVE  fetched[p].s \in command_issue[p] /\ fetched[p].c = header'[p][fetched[p].s]
      BY <2>1, <2>3 DEF FetchedInv
    <3>1. /\ fetched[p].s \in command_issue[p] /\ fetched[p].c = header[p][fetched[p].s]
          /\ ~(p = port /\ fetched[p].s = slot)
      BY <2>3 DEF FetchedInv
    <3>2. fetched[p].s \in Slot
      BY <3>1 DEF AhciTypeOK
    <3> QED
      BY <2>2, <3>1, <3>2
  <2>5. \A c : c # comm => Live(c)' = Live(c)
    <3> TAKE c
    <3> HAVE c # comm
    <3>1. ASSUME NEW x \in PortNumber \X Slot
          PROVE  (header'[x[1]][x[2]] = c /\ ~Filling(x[1], x[2])')
                   <=> (header[x[1]][x[2]] = c /\ ~Filling(x[1], x[2]))
      <4>1. CASE x[1] = port /\ x[2] = slot
        BY <2>2, <2>3, <4>1
      <4>2. CASE ~(x[1] = port /\ x[2] = slot)
        BY <2>2, <2>3, <4>2
      <4> QED
        BY <4>1, <4>2
    <3> QED
      BY <2>1, <3>1 DEF Live
  <2>6. ran[comm] = 0 /\ Live(comm) = {}
    BY <2>1 DEF CountedInv
  <2>7. Live(comm)' \subseteq {<<port, slot>>}
    <3> SUFFICES ASSUME NEW x \in Live(comm)', x # <<port, slot>>
                 PROVE  FALSE
      OBVIOUS
    <3>1. x \in PortNumber \X Slot /\ ~(x[1] = port /\ x[2] = slot)
      BY DEF Live
    <3>2. header'[x[1]][x[2]] = header[x[1]][x[2]] /\ ~Filling(x[1], x[2])
      BY <2>2, <2>3, <3>1
    <3>3. x \in Live(comm)
      BY <2>1, <3>1, <3>2 DEF Live
    <3> QED
      BY <2>6, <3>3
  <2>8. <<port, slot>> \in Live(comm)'
    <3>1. slot \in command_issue[port] /\ header'[port][slot] = comm /\ ~Filling(port, slot)'
      BY <2>1, <2>2, <2>3 DEF ChosenInv
    <3>2. <<port, slot>>[1] = port /\ <<port, slot>>[2] = slot /\ <<port, slot>> \in PortNumber \X Slot
      BY <2>1
    <3> QED
      BY <2>1, <3>1, <3>2 DEF Live
  <2>9. Live(comm)' = {<<port, slot>>} /\ <<port, slot>> \in PortNumber \X Slot
    BY <2>1, <2>7, <2>8
  <2>10. CountedInv'
    <3> SUFFICES ASSUME NEW c \in 0 .. MaxComm
                 PROVE  (\/ c \notin given /\ ran[c] = 0 /\ Live(c) = {}
                         \/ c \in given /\ ran[c] = 0 /\ \E x \in PortNumber \X Slot : Live(c) = {x}
                         \/ c \in given /\ ran[c] = 1 /\ Live(c) = {})'
      BY DEF CountedInv
    <3>1. CASE c = comm
      BY <2>1, <2>6, <2>9, <3>1
    <3>2. CASE c # comm
      BY <2>1, <2>5, <3>2 DEF CountedInv
    <3> QED
      BY <3>1, <3>2
  <2> QED
    BY <2>1, <2>4, <2>10 DEF ChosenInv
<1>4. ASSUME NEW p \in PortNumber, Fetch(p)
      PROVE  FetchedInv' /\ ChosenInv' /\ CountedInv'
  <2>1. PICK s \in command_issue[p] :
           /\ fetched' = [fetched EXCEPT ![p] = [s |-> s, c |-> header[p][s]]]
           /\ early' = (early \/ (apc = "copy" /\ p = port /\ s = slot))
    BY <1>4 DEF Fetch
  <2>2. UNCHANGED <<apc, port, slot, command_issue, header, given, ran>>
    BY <1>4 DEF Fetch, call
  <2>3. ~Filling(p, s) /\ \A q, t : Filling(q, t)' <=> Filling(q, t)
    BY <2>1, <2>2 DEF Filling
  <2>4. \A c : Live(c)' = Live(c)
    BY <2>2, <2>3, SameLive
  <2>5. FetchedInv'
    <3> SUFFICES ASSUME NEW q \in PortNumber, fetched'[q] # Free
                 PROVE  /\ fetched'[q].s \in command_issue[q]
                        /\ fetched'[q].c = header[q][fetched'[q].s]
                        /\ ~Filling(q, fetched'[q].s)
      BY <2>2 DEF FetchedInv, Filling
    <3>1. CASE q = p
      <4>1. fetched'[q] = [s |-> s, c |-> header[p][s]]
        BY <2>1, <3>1 DEF AhciTypeOK
      <4> QED
        BY <2>3, <3>1, <4>1
    <3>2. CASE q # p
      <4>1. fetched'[q] = fetched[q]
        BY <2>1, <3>2 DEF AhciTypeOK
      <4> QED
        BY <4>1 DEF FetchedInv
    <3> QED
      BY <3>1, <3>2
  <2>6. CountedInv'
    BY <2>2, <2>4 DEF CountedInv
  <2> QED
    BY <2>2, <2>5, <2>6 DEF ChosenInv
<1>5. ASSUME NEW p \in PortNumber, Done(p)
      PROVE  FetchedInv' /\ ChosenInv' /\ CountedInv'
  <2>1. PICK s, c : s = fetched[p].s /\ c = fetched[p].c
    OBVIOUS
  <2>2. /\ fetched[p] # Free /\ ran' = [ran EXCEPT ![c] = @ + 1]
        /\ command_issue' = [command_issue EXCEPT ![p] = @ \ {s}]
        /\ fetched' = [fetched EXCEPT ![p] = Free]
        /\ UNCHANGED <<apc, port, slot, header, given>>
    BY <1>5, <2>1 DEF Done, call
  <2>3. s \in command_issue[p] /\ s \in Slot /\ c = header[p][s] /\ ~Filling(p, s) /\ c \in 0 .. MaxComm
    BY <2>1, <2>2 DEF FetchedInv, AhciTypeOK
  <2>4. \A q, t : Filling(q, t)' <=> Filling(q, t)
    BY <2>2 DEF Filling
  <2>5. \A q \in PortNumber : command_issue'[q] = IF q = p THEN command_issue[q] \ {s} ELSE command_issue[q]
    BY <2>2 DEF AhciTypeOK
  <2>6. <<p, s>> \in PortNumber \X Slot /\ <<p, s>> \in Live(c)
    BY <2>3 DEF Live
  <2>7. Live(c) = {<<p, s>>} /\ c \in given /\ ran[c] = 0
    BY <2>3, <2>6 DEF CountedInv
  <2>8. \A e : Live(e)' = Live(e) \ {<<p, s>>}
    <3> TAKE e
    <3>1. ASSUME NEW x \in PortNumber \X Slot
          PROVE  x[2] \in command_issue'[x[1]] <=> x[2] \in command_issue[x[1]] /\ x # <<p, s>>
      <4>1. x = <<p, s>> <=> x[1] = p /\ x[2] = s
        OBVIOUS
      <4> QED
        BY <2>5, <4>1
    <3> QED
      BY <2>2, <2>4, <3>1 DEF Live
  <2>9. \A e : e # c => <<p, s>> \notin Live(e)
    BY <2>3 DEF Live
  <2>10. Live(c)' = {} /\ \A e : e # c => Live(e)' = Live(e)
    BY <2>7, <2>8, <2>9
  <2>11. ran'[c] = 1 /\ \A e \in 0 .. MaxComm : e # c => ran'[e] = ran[e]
    BY <2>2, <2>3, <2>7 DEF AhciTypeOK
  <2>12. CountedInv'
    <3> SUFFICES ASSUME NEW e \in 0 .. MaxComm
                 PROVE  (\/ e \notin given /\ ran[e] = 0 /\ Live(e) = {}
                         \/ e \in given /\ ran[e] = 0 /\ \E x \in PortNumber \X Slot : Live(e) = {x}
                         \/ e \in given /\ ran[e] = 1 /\ Live(e) = {})'
      BY DEF CountedInv
    <3>1. CASE e = c
      BY <2>2, <2>7, <2>10, <2>11, <3>1
    <3>2. CASE e # c
      BY <2>2, <2>10, <2>11, <3>2 DEF CountedInv
    <3> QED
      BY <3>1, <3>2
  <2>13. FetchedInv'
    <3> SUFFICES ASSUME NEW q \in PortNumber, fetched'[q] # Free
                 PROVE  /\ fetched'[q].s \in command_issue'[q]
                        /\ fetched'[q].c = header[q][fetched'[q].s]
                        /\ ~Filling(q, fetched'[q].s)
      BY <2>2 DEF FetchedInv, Filling
    <3>1. q # p /\ fetched'[q] = fetched[q]
      BY <2>2 DEF AhciTypeOK
    <3> QED
      BY <2>5, <3>1 DEF FetchedInv
  <2>14. ChosenInv'
    <3>1. apc = "copy" => port \in PortNumber /\ ~(p = port /\ s = slot)
      BY <2>3 DEF Filling, AhciTypeOK
    <3>2. apc \in {"or", "issue"} => port \in PortNumber
      BY DEF AhciTypeOK
    <3> QED
      BY <2>2, <2>5, <3>1, <3>2 DEF ChosenInv
  <2> QED
    BY <2>12, <2>13, <2>14
<1> QED
  BY <1>1, <1>2, <1>3, <1>4, <1>5 DEF AhciNext

LEMMA AhciInvStep ==
    ASSUME AhciInv, AhciNext
    PROVE  AhciInv'
<1>1. AhciTypeOK'
  BY AhciTypeStep DEF AhciInv
<1>2. ASSUME ~early', ~again' PROVE FetchedInv' /\ ChosenInv' /\ CountedInv'
  BY <1>2, RacesStay, AhciStep DEF AhciInv
<1> QED
  BY <1>1, <1>2 DEF AhciInv

LEMMA AhciInvInit == AhciInit => AhciInv
<1> SUFFICES ASSUME AhciInit PROVE AhciInv
  OBVIOUS
<1>1. FetchedInv /\ ChosenInv
  BY DEF AhciInit, FetchedInv, ChosenInv
<1>2. \A c : Live(c) = {}
  BY DEF AhciInit, Live
<1>3. CountedInv
  BY <1>2 DEF AhciInit, CountedInv
<1> QED
  BY <1>1, <1>3, AhciTypeInit DEF AhciInv

LEMMA AhciInvStutter ==
    ASSUME AhciInv, UNCHANGED ahciVars
    PROVE  AhciInv'
<1>1. UNCHANGED <<apc, port, slot, comm, given, was, command_issue, header, fetched, ran, next_port,
                  ahci_devices>>
  BY DEF ahciVars, adapter, pool, call
<1>2. early' = early /\ again' = again
  BY DEF ahciVars
<1>3. AhciTypeOK'
  BY <1>1 DEF AhciInv, AhciTypeOK
<1>4. \A c : Live(c)' = Live(c)
  BY <1>1, SameLive DEF Filling
<1>5. FetchedInv /\ ChosenInv /\ CountedInv => FetchedInv' /\ ChosenInv' /\ CountedInv'
  BY <1>1, <1>4 DEF FetchedInv, ChosenInv, CountedInv, Filling
<1> QED
  BY <1>2, <1>3, <1>5 DEF AhciInv

LEMMA SpecAhciInv == DisksSpec => []AhciInv
<1>1. DisksInit => AhciInv
  BY AhciInvInit DEF DisksInit
<1>2. AhciInv /\ [devs_config_mass_storage]_disksVars => AhciInv'
  BY AhciInvStep, AhciInvStutter DEF devs_config_mass_storage, disksVars
<1> QED
  BY <1>1, <1>2, PTL DEF DisksSpec

\* What the adapter has still to run is what is live.
LEMMA WaitingIsLive ==
    ASSUME AhciTypeOK, FetchedInv, NEW c
    PROVE  Waiting(c) = Live(c)
<1>1. ASSUME NEW p \in PortNumber, NEW s \in Slot
      PROVE  (\/ fetched[p] = [s |-> s, c |-> c]
              \/ s \in command_issue[p] /\ header[p][s] = c /\ fetched[p].s # s
                 /\ ~(apc = "copy" /\ p = port /\ s = slot))
             <=> s \in command_issue[p] /\ header[p][s] = c /\ ~Filling(p, s)
  <2>1. fetched[p] = [s |-> fetched[p].s, c |-> fetched[p].c]
    BY DEF AhciTypeOK
  <2>2. s # AdapterSlots
    BY DEF Slot
  <2>3. fetched[p].s = s => fetched[p] # Free
    BY <2>2 DEF Free
  <2>4. fetched[p] = [s |-> s, c |-> c] <=> fetched[p].s = s /\ fetched[p].c = c
    BY <2>1
  <2> QED
    BY <2>3, <2>4 DEF FetchedInv, Filling
<1> QED
  BY <1>1 DEF Waiting, Live

(***************************************************************************)
(* A command that ahci_command has put into a slot is in one slot until    *)
(* the adapter runs it, and is run once, on every number of ports, slots   *)
(* and commands; unless one of the two races of ahci_cl_get_slot happens.  *)
(***************************************************************************)
THEOREM SlotsRunOnce == DisksSpec => []CommandsRunOnce
<1>1. ASSUME AhciInv PROVE CommandsRunOnce
  <2>1. SUFFICES ASSUME ~early, ~again, NEW c \in 0 .. MaxComm
                 PROVE  ran[c] + Cardinality(Waiting(c)) = IF c \in given THEN 1 ELSE 0
    BY DEF CommandsRunOnce
  <2>2. AhciTypeOK /\ FetchedInv /\ CountedInv
    BY <1>1, <2>1 DEF AhciInv
  <2>3. Waiting(c) = Live(c)
    BY <2>2, WaitingIsLive
  <2>4. CASE Live(c) = {}
    <3>1. Cardinality(Live(c)) = 0
      BY <2>4, FS_EmptySet
    <3>2. (c \in given /\ ran[c] = 1) \/ (c \notin given /\ ran[c] = 0)
      <4>1. ASSUME NEW x \in PortNumber \X Slot, Live(c) = {x} PROVE FALSE
        <5>1. x \in Live(c)
          BY <4>1
        <5> QED
          BY <2>4, <5>1
      <4>2. \/ c \notin given /\ ran[c] = 0
            \/ \E x \in PortNumber \X Slot : Live(c) = {x}
            \/ c \in given /\ ran[c] = 1
        BY <2>1, <2>2, Zenon DEF CountedInv
      <4> QED
        BY <4>1, <4>2
    <3> QED
      BY <2>3, <3>1, <3>2
  <2>5. CASE Live(c) # {}
    <3>1. PICK x \in PortNumber \X Slot : Live(c) = {x}
      BY <2>2, <2>5 DEF CountedInv
    <3>2. Cardinality(Live(c)) = 1
      BY <3>1, FS_Singleton
    <3>3. c \in given /\ ran[c] = 0
      BY <2>2, <2>5 DEF CountedInv
    <3> QED
      BY <2>3, <3>2, <3>3
  <2> QED
    BY <2>4, <2>5
<1> QED
  BY <1>1, SpecAhciInv, PTL

-----------------------------------------------------------------------------
(* The search for IDE drives.  On a bus only the drive selected is ever at  *)
(* work, so IDENTIFY is answered by the drive selected when it was sent:    *)
(* the master, unless a drive that is there was still at work when          *)
(* DRIVE_HEAD was overwritten.  The drives that answered are those of the   *)
(* places already looked at; the records of the pool are a prefix of them;  *)
(* the blocks held are those of both buses until the end of ide_init, which *)
(* keeps those of the buses with a record.                                  *)

USE IdeAssumption

BusNames == {"primary", "secondary"}
DriveNames == {"master", "slave"}
Places == BusNames \X DriveNames

Asking == pc \in {"status", "wait"}
InSearch == pc \in {"identify", "clear", "ask", "type"} \/ Asking

IdeTypes ==
    /\ machine \in Machines
    /\ pc \in {"init", "stop", "release"} \/ InSearch \/ Ready
    /\ b \in 1 .. (IF pc = "release" THEN 3 ELSE 2) /\ d \in 1 .. 2
    /\ pc = "release" => b = 3 /\ d = 1
    /\ pc = "init" => b = 1 /\ d = 1
    /\ dev = <<>> \/ dev \in ide_device_t
    /\ ide_devices \in Seq(ide_device_t) /\ Len(ide_devices) <= PoolSize
    /\ found \in [BusNames -> Nat]
    /\ answered \in Seq(Places)
    /\ written \in Nat /\ (pc \notin {"clear", "set"} => written = 0)
    /\ pc = "clear" => written < 4
    /\ pc = "set" => written < Len(Values(dev.addr_mode, req))

IsBus(h) ==
    /\ DOMAIN h = {"head", "reg", "status", "op", "at", "left", "more"}
    /\ DOMAIN h.status = DriveNames

\* During the search no drive has been told to transfer; only the drive selected
\* is ever at work, and a packet drive never has data.
AtWork == {"busy", "drq"}
SearchedAs(h, bus) ==
    /\ IsBus(h) /\ h.head.drive \in DriveNames
    /\ h.op \in {"none", "identify", "nop"}
    /\ \A drive \in DriveNames :
         /\ h.status[drive] \in {"ready", "err", "reset"} \cup AtWork
         /\ h.status[drive] \in AtWork => drive = h.head.drive
         /\ machine.drives[<<bus, drive>>] = "none" => h.status[drive] \notin AtWork
         /\ machine.drives[<<bus, drive>>] = "atapi" => h.status[drive] # "drq"

\* Unless it is asked, a drive is at most told to do nothing ...
Unasked(h) ==
    \A drive \in DriveNames :
       h.status[drive] # "drq" /\ (h.status[drive] = "busy" => h.op = "nop")

\* ... and an ATA drive that is asked answers.
Asked(h, bus) ==
    machine.drives[<<bus, h.head.drive>>] \in Modes =>
       h.op = "identify" /\ h.status[h.head.drive] \in AtWork

HwInv ==
    pc = "init" \/ InSearch =>
      /\ DOMAIN hw = BusNames
      /\ \A bus \in BusNames :
           /\ SearchedAs(hw[bus], bus)
           /\ Unasked(hw[bus]) \/ (Asking /\ bus = Buses[b])

\* The drive that is asked.
AskedInv ==
    /\ pc \in {"clear", "ask", "type"} \/ Asking => ~Floats
    /\ pc \in {"clear", "ask"} \/ Asking => (d = 1 => Here.head.drive = "master")
    /\ pc = "ask" \/ Asking =>
         (Here.head.drive = "slave" => Kind("slave") # "none")
    /\ Asking => Asked(Here, Buses[b])

\* The places looked at.
Past(at) ==
    \/ Ready
    \/ (InSearch \/ pc = "release") /\ Order(at) < 2 * b + d
    \/ pc = "type" /\ Order(at) = 2 * b + d

\* The places where a drive can answer, and those where one does.
CanAnswer(at) ==
    Ata(at[1], "master") \/ (at[2] = "slave" /\ Ata(at[1], "slave"))
MustAnswer(at) ==
    /\ Ata(at[1], "master")
    /\ at[2] = "slave" => machine.drives[<<at[1], "slave">>] # "atapi"

AnsweredInv ==
    /\ \A at \in ToSet(answered) : Past(at) /\ CanAnswer(at)
    /\ \A at \in Places : Past(at) /\ MustAnswer(at) => at \in ToSet(answered)
    /\ \A j, k \in DOMAIN answered : j < k => Order(answered[j]) < Order(answered[k])

PoolInv ==
    /\ Len(ide_devices) <= Len(answered)
    /\ \A k \in 1 .. Len(ide_devices) :
         answered[k] = <<ide_devices[k].bus, ide_devices[k].drive>>
    /\ pc # "type" => Len(ide_devices) = PoolSize \/ Len(ide_devices) = Len(answered)
    /\ pc = "type" =>
         /\ dev \in ide_device_t /\ dev.bus = Buses[b] /\ dev.drive = Drives[d]
         /\ Len(answered) > 0 /\ answered[Len(answered)] = <<Buses[b], Drives[d]>>
         /\ Len(ide_devices) <= Len(answered) - 1
         /\ Len(ide_devices) = PoolSize \/ Len(ide_devices) = Len(answered) - 1

FoundInv ==
    \A bus \in BusNames :
       found[bus] # 0 <=> \E k \in 1 .. Len(ide_devices) : ide_devices[k].bus = bus

\* The buses whose blocks are held.
HeldBuses ==
    IF Ready THEN {bus \in BusNames : found[bus] # 0}
    ELSE IF InSearch \/ pc = "release" THEN BusNames ELSE {}

BlocksInv ==
    /\ \E what \in {{"bus"}, {"bus", "prdt"}} : blocks = HeldBuses \X what
    /\ InSearch \/ pc = "release" \/ Ready => ((misfreed \/ dangling # {}) => machine.dma)
    /\ pc = "init" => ~misfreed /\ dangling = {}

IdeInv ==
    /\ IdeTypes
    /\ HwInv
    /\ AskedInv
    /\ AnsweredInv
    /\ PoolInv
    /\ FoundInv
    /\ BlocksInv

-----------------------------------------------------------------------------
(* Names, places and the hardware.                                         *)

LEMMA NameFacts ==
    /\ ToSet(Buses) = BusNames /\ ToSet(Drives) = DriveNames
    /\ Buses[1] = "primary" /\ Buses[2] = "secondary" /\ DOMAIN Buses = 1 .. 2
    /\ Drives[1] = "master" /\ Drives[2] = "slave" /\ DOMAIN Drives = 1 .. 2
<1>1. /\ Buses[1] = "primary" /\ Buses[2] = "secondary" /\ DOMAIN Buses = 1 .. 2
      /\ Drives[1] = "master" /\ Drives[2] = "slave" /\ DOMAIN Drives = 1 .. 2
  BY DEF Buses, Drives
<1>2. ToSet(Buses) = BusNames
  BY <1>1 DEF ToSet, BusNames
<1>3. ToSet(Drives) = DriveNames
  BY <1>1 DEF ToSet, DriveNames
<1> QED
  BY <1>1, <1>2, <1>3

LEMMA HereIsAPlace ==
    ASSUME b \in 1 .. 2, d \in 1 .. 2
    PROVE  /\ Buses[b] \in BusNames /\ Drives[d] \in DriveNames
           /\ <<Buses[b], Drives[d]>> \in Places
           /\ \A at \in Places : Order(at) = 2 * b + d <=> at = <<Buses[b], Drives[d]>>
<1>1. Buses[b] \in BusNames /\ Drives[d] \in DriveNames
  BY NameFacts DEF BusNames, DriveNames
<1>2. ASSUME NEW at \in Places
      PROVE  Order(at) = 2 * b + d <=> at = <<Buses[b], Drives[d]>>
  <2>1. at = <<at[1], at[2]>> /\ at[1] \in BusNames /\ at[2] \in DriveNames
    BY DEF Places
  <2>2. Order(at) = 2 * b + d <=> at[1] = Buses[b] /\ at[2] = Drives[d]
    BY <2>1, NameFacts DEF Order, BusNames, DriveNames
  <2> QED
    BY <2>1, <2>2
<1> QED
  BY <1>1, <1>2 DEF Places

LEMMA OrderRange ==
    ASSUME NEW at \in Places
    PROVE  Order(at) \in 3 .. 6
  BY DEF Places, Order

LEMMA ValuesLength ==
    ASSUME NEW mode, NEW r
    PROVE  Len(Values(mode, r)) \in {4, 8}
<1>1. Len(Low(mode, r)) = 4 /\ Low(mode, r) \in Seq(Nat \cup {Low(mode, r)[k] : k \in 1 .. 4})
  BY DEF Low
<1>2. Len(High(r) \o Low(mode, r)) = 8
  BY DEF Low, High
<1> QED
  BY <1>1, <1>2 DEF Values

LEMMA KindOfPlace ==
    ASSUME IdeTypes, NEW at \in Places
    PROVE  machine.drives[at] \in Modes \cup {"none", "atapi"}
<1>1. machine.drives \in [Places -> Kinds]
  BY NameFacts, IdeAssumption DEF IdeTypes, Places
<1> QED
  BY <1>1 DEF Kinds

-----------------------------------------------------------------------------
(* The hardware.                                                           *)

\* A bus on which no drive is at work can be told anything.
Resting(h) == \A drive \in DriveNames : h.status[drive] \notin AtWork

WithHead(h, head) == [h EXCEPT !.head = head]
WithReg(h, reg) == [h EXCEPT !.reg = reg]
Told(h, op, drive) == [h EXCEPT !.op = op, !.status[drive] = "busy"]

LEMMA WithHeadFacts ==
    ASSUME NEW h, IsBus(h), NEW head
    PROVE  /\ IsBus(WithHead(h, head))
           /\ WithHead(h, head).op = h.op
           /\ WithHead(h, head).status = h.status
           /\ WithHead(h, head).head = head
  BY DEF IsBus, WithHead

LEMMA WithRegFacts ==
    ASSUME NEW h, IsBus(h), NEW reg
    PROVE  /\ IsBus(WithReg(h, reg))
           /\ WithReg(h, reg).op = h.op
           /\ WithReg(h, reg).status = h.status
           /\ WithReg(h, reg).head = h.head
  BY DEF IsBus, WithReg

LEMMA ToldFacts ==
    ASSUME NEW h, IsBus(h), NEW op, NEW drive \in DriveNames
    PROVE  /\ IsBus(Told(h, op, drive))
           /\ Told(h, op, drive).op = op
           /\ Told(h, op, drive).head = h.head
           /\ Told(h, op, drive).status[drive] = "busy"
           /\ \A other \in DriveNames \ {drive} :
                Told(h, op, drive).status[other] = h.status[other]
  BY DEF IsBus, Told

LEMMA SearchedHead ==
    ASSUME NEW h, NEW bus \in BusNames, SearchedAs(h, bus), Resting(h),
           NEW head, head.drive \in DriveNames
    PROVE  /\ SearchedAs(WithHead(h, head), bus) /\ Resting(WithHead(h, head))
           /\ WithHead(h, head).head = head
<1>1. IsBus(h)
  BY DEF SearchedAs
<1>2. /\ IsBus(WithHead(h, head)) /\ WithHead(h, head).op = h.op
      /\ WithHead(h, head).status = h.status /\ WithHead(h, head).head = head
  BY <1>1, WithHeadFacts
<1> QED
  BY <1>2 DEF SearchedAs, Resting

LEMMA SearchedReg ==
    ASSUME NEW h, NEW bus \in BusNames, SearchedAs(h, bus), Resting(h), NEW reg
    PROVE  /\ SearchedAs(WithReg(h, reg), bus) /\ Resting(WithReg(h, reg))
           /\ WithReg(h, reg).head = h.head
<1>1. IsBus(h)
  BY DEF SearchedAs
<1>2. /\ IsBus(WithReg(h, reg)) /\ WithReg(h, reg).op = h.op
      /\ WithReg(h, reg).status = h.status /\ WithReg(h, reg).head = h.head
  BY <1>1, WithRegFacts
<1> QED
  BY <1>2 DEF SearchedAs, Resting

LEMMA RestingIsUnasked ==
    ASSUME NEW h, Resting(h)
    PROVE  Unasked(h)
  BY DEF Resting, Unasked, AtWork

\* A command that transfers nothing.
LEMMA SearchedCommand ==
    ASSUME NEW h, NEW bus \in BusNames, bus = Buses[b], SearchedAs(h, bus), Resting(h),
           NEW op \in {"nop", "identify"}
    PROVE  LET g == Commanded(h, op) IN
           /\ SearchedAs(g, bus) /\ g.head = h.head
           /\ op = "nop" => Unasked(g)
           /\ /\ machine.drives[<<bus, h.head.drive>>] # "none"
              /\ h.status[h.head.drive] # "reset"
              => g.op = op /\ g.status[h.head.drive] = "busy"
<1> DEFINE e == h.head.drive
           g == Commanded(h, op)
<1>1. /\ IsBus(h) /\ e \in DriveNames
      /\ h.status[e] \notin AtWork
  BY DEF SearchedAs, Resting
<1>2. CASE machine.drives[<<bus, e>>] = "none" \/ h.status[e] = "reset"
  <2>1. g = h
    BY <1>2 DEF Commanded, Kind
  <2> QED
    BY <1>2, <2>1, RestingIsUnasked
<1>3. CASE ~ (machine.drives[<<bus, e>>] = "none" \/ h.status[e] = "reset")
  <2>1. g = Told(h, op, e)
    <3>1. h.status[e] \notin {"busy", "reset", "drq"}
      BY <1>1, <1>3 DEF AtWork
    <3>2. op \notin Transfers
      BY DEF Transfers
    <3> QED
      BY <1>3, <3>1, <3>2 DEF Commanded, Kind, Told
  <2>2. /\ IsBus(Told(h, op, e)) /\ Told(h, op, e).op = op
        /\ Told(h, op, e).head = h.head /\ Told(h, op, e).status[e] = "busy"
        /\ \A other \in DriveNames \ {e} : Told(h, op, e).status[other] = h.status[other]
    BY <1>1, ToldFacts
  <2> HIDE DEF g
  <2>3. g.head.drive = e
    BY <2>1, <2>2
  <2> HIDE DEF e
  <2>4. SearchedAs(g, bus)
    BY <1>1, <1>3, <2>1, <2>2, <2>3 DEF SearchedAs, AtWork
  <2>5. op = "nop" => Unasked(g)
    BY <2>1, <2>2 DEF Unasked, Resting, AtWork
  <2> QED
    BY <1>3, <2>1, <2>2, <2>4, <2>5 DEF e, g
<1> QED
  BY <1>2, <1>3

LEMMA BusWritten ==
    ASSUME IdeTypes, HwInv, pc = "init" \/ InSearch, UNCHANGED <<machine, b>>,
           NEW bus \in BusNames, NEW g, SearchedAs(g, bus), hw' = [hw EXCEPT ![bus] = g],
           Unasked(g) \/ (Asking' /\ bus = Buses[b]),
           Asking => bus = Buses[b]
    PROVE  HwInv' /\ hw'[bus] = g
<1>1. /\ DOMAIN hw = BusNames
      /\ \A x \in BusNames : SearchedAs(hw[x], x) /\ (Unasked(hw[x]) \/ (Asking /\ x = Buses[b]))
  BY DEF HwInv
<1>2. DOMAIN hw' = BusNames /\ hw'[bus] = g /\ \A x \in BusNames \ {bus} : hw'[x] = hw[x]
  BY <1>1
<1>3. ASSUME NEW x \in BusNames
      PROVE  SearchedAs(hw[x], x)' /\ (Unasked(hw[x]) \/ (Asking /\ x = Buses[b]))'
  <2>1. CASE x = bus
    BY <2>1, <1>2 DEF SearchedAs, Unasked
  <2>2. CASE x # bus
    <3>1. Unasked(hw[x]) /\ SearchedAs(hw[x], x)
      BY <2>2, <1>1
    <3> QED
      BY <2>2, <1>2, <3>1 DEF SearchedAs, Unasked
  <2> QED
    BY <2>1, <2>2
<1> QED
  BY <1>2, <1>3 DEF HwInv

LEMMA HereIsSearched ==
    ASSUME IdeTypes, HwInv, InSearch
    PROVE  /\ b \in 1 .. 2 /\ d \in 1 .. 2
           /\ Buses[b] \in BusNames /\ Drives[d] \in DriveNames
           /\ SearchedAs(Here, Buses[b]) /\ Here = hw[Buses[b]]
           /\ Here.head.drive \in DriveNames
           /\ Asking \/ Unasked(Here)
<1>1. b \in 1 .. 2 /\ d \in 1 .. 2
  BY DEF IdeTypes, InSearch, Asking
<1>2. Buses[b] \in BusNames /\ Drives[d] \in DriveNames
  BY <1>1, HereIsAPlace
<1>3. SearchedAs(Here, Buses[b]) /\ Here = hw[Buses[b]] /\ (Asking \/ Unasked(Here))
  BY <1>2 DEF HwInv, Here
<1> QED
  BY <1>1, <1>2, <1>3 DEF SearchedAs

\* What the driver sees of the drive selected.
LEMMA StatusHere ==
    ASSUME IdeTypes, HwInv, InSearch, ~Floats
    PROVE  LET e == Here.head.drive IN
           ide_status = IF machine.drives[<<Buses[b], e>>] = "none" THEN "zero"
                        ELSE IF Here.status[e] = "reset" THEN "busy"
                        ELSE Here.status[e]
  BY DEF ide_status, StatusOf, Kind

\* A drive that takes notice is not at work, and so no drive of its bus is.
LEMMA NoticesRests ==
    ASSUME IdeTypes, HwInv, InSearch, Notices \/ (ide_status # "busy" /\ ~Asking)
    PROVE  Resting(Here) /\ ~Floats
<1> DEFINE e == Here.head.drive
           kind == machine.drives[<<Buses[b], e>>]
<1>1. SearchedAs(Here, Buses[b]) /\ e \in DriveNames /\ (Asking \/ Unasked(Here))
  BY HereIsSearched
<1>2. ide_status # "busy"
  BY DEF Notices
<1>3. ~Floats
  <2>1. SUFFICES ASSUME Floats PROVE FALSE
    OBVIOUS
  <2>2. Kind(e) = "none"
    BY <1>1, <2>1, NameFacts DEF Floats
  <2> QED
    BY <1>2, <2>1, <2>2 DEF ide_status, StatusOf
<1>4. ide_status = IF kind = "none" THEN "zero"
                   ELSE IF Here.status[e] = "reset" THEN "busy" ELSE Here.status[e]
  BY <1>3, StatusHere
<1>5. Here.status[e] \notin AtWork
  <2>1. kind = "none" => Here.status[e] \notin AtWork
    BY <1>1 DEF SearchedAs
  <2>2. Here.status[e] # "busy" \/ kind = "none"
    BY <1>2, <1>4
  <2>3. Here.status[e] # "drq" \/ kind = "none"
    <3>1. CASE Notices
      BY <1>4, <3>1 DEF Notices
    <3>2. CASE ~Asking
      BY <1>1, <3>2 DEF Unasked
    <3> QED
      BY <3>1, <3>2
  <2> QED
    BY <2>1, <2>2, <2>3 DEF AtWork
<1>6. \A drive \in DriveNames : Here.status[drive] \in AtWork => drive = e
  BY <1>1 DEF SearchedAs
<1> QED
  BY <1>3, <1>5, <1>6 DEF Resting

\* A drive is selected by a write that the other drive notices, or is selected.
LEMMA SelectedBus ==
    ASSUME IdeTypes, HwInv, pc \in {"identify", "type"}, UNCHANGED machine,
           NEW drive \in DriveNames, ide_select_drive(drive)
    PROVE  /\ ~Floats /\ DOMAIN hw' = BusNames
           /\ \A x \in BusNames : SearchedAs(hw'[x], x) /\ Unasked(hw'[x])
           /\ hw'[Buses[b]].head.drive = drive
<1> DEFINE bus == Buses[b]
           g == WithHead(Here, Selected(drive))
<1>1. /\ InSearch /\ ~Asking /\ bus \in BusNames
      /\ SearchedAs(Here, bus) /\ Here = hw[bus] /\ Unasked(Here)
  BY HereIsSearched DEF InSearch, Asking
<1>2. Selected(drive).drive = drive
  BY DEF Selected, DriveHead
<1>3. DOMAIN hw = BusNames /\ \A x \in BusNames : SearchedAs(hw[x], x) /\ Unasked(hw[x])
  BY <1>1 DEF HwInv
<1>4. CASE Here.head = Selected(drive) /\ ~Floats /\ UNCHANGED hw
  BY <1>1, <1>2, <1>3, <1>4
<1>5. CASE /\ ide_status # "busy"
           /\ ToBus(IF Notices THEN WriteHead(Here, Selected(drive)) ELSE Here)
  <2>1. Resting(Here) /\ ~Floats
    BY <1>1, <1>5, NoticesRests
  <2>2. Notices
    <3>1. Here.head.drive \in DriveNames
      BY <1>1 DEF SearchedAs
    <3>2. Here.status[Here.head.drive] # "drq"
      BY <1>1, <3>1 DEF Unasked
    <3>3. ide_status # "drq"
      BY <1>1, <2>1, <3>2, StatusHere
    <3> QED
      BY <1>5, <3>3 DEF Notices
  <2>3. SearchedAs(g, bus) /\ Resting(g) /\ g.head = Selected(drive)
    BY <1>1, <1>2, <2>1, SearchedHead
  <2>4. WriteHead(Here, Selected(drive)) = Commanded(g, "nop")
    BY DEF WriteHead, WithHead
  <2> HIDE DEF g
  <2>5. /\ SearchedAs(Commanded(g, "nop"), bus) /\ Commanded(g, "nop").head = g.head
        /\ Unasked(Commanded(g, "nop"))
    BY <1>1, <2>3, SearchedCommand
  <2>6. hw' = [hw EXCEPT ![bus] = Commanded(g, "nop")]
    BY <1>5, <2>2, <2>4 DEF ToBus
  <2>7. /\ DOMAIN hw' = BusNames /\ hw'[bus] = Commanded(g, "nop")
        /\ \A x \in BusNames \ {bus} : hw'[x] = hw[x]
    BY <1>1, <1>3, <2>6
  <2>8. ASSUME NEW x \in BusNames
        PROVE  SearchedAs(hw'[x], x) /\ Unasked(hw'[x])
    <3>1. CASE x = bus
      BY <2>5, <2>7, <3>1
    <3>2. CASE x # bus
      BY <1>3, <2>7, <3>2
    <3> QED
      BY <3>1, <3>2
  <2> QED
    BY <1>2, <2>1, <2>3, <2>5, <2>7, <2>8
<1> QED
  BY <1>4, <1>5 DEF ide_select_drive

LEMMA DriveSelected ==
    ASSUME IdeTypes, HwInv, pc \in {"identify", "type"}, UNCHANGED machine,
           NEW drive \in DriveNames, ide_select_drive(drive)
    PROVE  ~Floats /\ HwInv' /\ hw'[Buses[b]].head.drive = drive
<1>1. /\ ~Floats /\ DOMAIN hw' = BusNames
      /\ \A x \in BusNames : SearchedAs(hw'[x], x) /\ Unasked(hw'[x])
      /\ hw'[Buses[b]].head.drive = drive
  BY SelectedBus
<1>2. ASSUME NEW x \in BusNames
      PROVE  SearchedAs(hw[x], x)' /\ Unasked(hw[x])'
  BY <1>1 DEF SearchedAs, Unasked
<1> QED
  BY <1>1, <1>2 DEF HwInv

\* A register cleared; the last one clears DRIVE_HEAD as well.
LEMMA RegisterCleared ==
    ASSUME IdeTypes, HwInv, pc = "clear", UNCHANGED <<machine, b>>,
           NEW k \in 1 .. 4, NEW value,
           hw' = [hw EXCEPT ![Buses[b]] = IF Notices THEN WriteRegister(Here, k, value)
                                          ELSE Here]
    PROVE  /\ HwInv'
           /\ IF Notices /\ k = 4 THEN hw'[Buses[b]].head.drive = "master"
              ELSE hw'[Buses[b]].head = Here.head
<1> DEFINE bus == Buses[b]
           g == IF Notices THEN WriteRegister(Here, k, value) ELSE Here
<1>1. /\ InSearch /\ ~Asking /\ bus \in BusNames
      /\ SearchedAs(Here, bus) /\ Here = hw[bus] /\ Unasked(Here)
  BY HereIsSearched DEF InSearch, Asking
<1>2. /\ SearchedAs(g, bus) /\ Unasked(g)
      /\ IF Notices /\ k = 4 THEN g.head.drive = "master" ELSE g.head = Here.head
  <2>1. CASE ~Notices
    BY <1>1, <2>1
  <2>2. CASE Notices
    <3>1. Resting(Here)
      BY <1>1, <2>2, NoticesRests
    <3>2. PICK reg : g = IF k = 4 THEN WithHead(WithReg(Here, reg), ZeroHead)
                         ELSE WithReg(Here, reg)
      <4>1. CASE k = 4
        <5>1. g = WithHead(WithReg(Here, [Here.reg EXCEPT ![Registers[k]] = <<value % Byte, @[1]>>]), ZeroHead)
          BY <2>2, <4>1 DEF WriteRegister, WithHead, WithReg
        <5> QED
          BY <4>1, <5>1
      <4>2. CASE k # 4
        <5>1. g = WithReg(Here, [[Here.reg EXCEPT ![Registers[k]] = <<value % Byte, @[1]>>]
                                   EXCEPT ![Registers[k + 1]] = <<(value \div Byte) % Byte, @[1]>>])
          BY <2>2, <4>2 DEF WriteRegister, WithReg
        <5> QED
          BY <4>2, <5>1
      <4> QED
        BY <4>1, <4>2
    <3>3. /\ SearchedAs(WithReg(Here, reg), bus) /\ Resting(WithReg(Here, reg))
          /\ WithReg(Here, reg).head = Here.head
      BY <1>1, <3>1, SearchedReg
    <3>4. ZeroHead.drive = "master"
      BY DEF ZeroHead, Selected, DriveHead
    <3>5. /\ SearchedAs(WithHead(WithReg(Here, reg), ZeroHead), bus)
          /\ Resting(WithHead(WithReg(Here, reg), ZeroHead))
          /\ WithHead(WithReg(Here, reg), ZeroHead).head = ZeroHead
      <4>1. ZeroHead.drive \in DriveNames
        BY <3>4 DEF DriveNames
      <4> QED
        BY <1>1, <3>3, <4>1, SearchedHead
    <3> HIDE DEF g
    <3>6. SearchedAs(g, bus) /\ Resting(g)
      BY <3>2, <3>3, <3>5
    <3>7. IF k = 4 THEN g.head.drive = "master" ELSE g.head = Here.head
      BY <3>2, <3>3, <3>4, <3>5
    <3> QED
      BY <2>2, <3>6, <3>7, RestingIsUnasked
  <2> QED
    BY <2>1, <2>2
<1> HIDE DEF g
<1>3. hw' = [hw EXCEPT ![bus] = g]
  BY DEF g
<1>4. HwInv' /\ hw'[bus] = g
  BY <1>1, <1>2, <1>3, BusWritten
<1> QED
  BY <1>2, <1>4

\* IDENTIFY is sent.
LEMMA IdentifySent ==
    ASSUME IdeTypes, HwInv, AskedInv, identify_command
    PROVE  /\ HwInv' /\ Asked(Here, Buses[b])'
           /\ Here'.head = Here.head
<1> DEFINE bus == Buses[b]
           g == Commanded(Here, "identify")
           e == Here.head.drive
<1>1. /\ pc = "ask" /\ pc' = "status" /\ InSearch /\ ~Asking /\ Asking'
      /\ UNCHANGED <<machine, b>>
      /\ ide_status # "busy" /\ hw' = [hw EXCEPT ![bus] = g]
  BY DEF identify_command, InSearch, Asking, ToBus
<1>2. /\ bus \in BusNames /\ SearchedAs(Here, bus) /\ Here = hw[bus] /\ e \in DriveNames
  BY <1>1, HereIsSearched
<1>3. Resting(Here) /\ ~Floats
  BY <1>1, NoticesRests
<1>4. /\ SearchedAs(g, bus) /\ g.head = Here.head
      /\ machine.drives[<<bus, e>>] # "none" /\ Here.status[e] # "reset"
           => g.op = "identify" /\ g.status[e] = "busy"
  BY <1>2, <1>3, SearchedCommand
<1>5. machine.drives[<<bus, e>>] # "none" => Here.status[e] # "reset"
  BY <1>1, <1>3, StatusHere
<1> HIDE DEF g
<1>6. HwInv' /\ hw'[bus] = g
  BY <1>1, <1>2, <1>4, BusWritten
<1>7. Here' = g
  BY <1>1, <1>6 DEF Here
<1>8. "none" \notin Modes
  BY DEF Modes
<1>9. machine.drives[<<bus, e>>] \in Modes => g.op = "identify" /\ g.status[e] \in AtWork
  BY <1>4, <1>5, <1>8 DEF AtWork
<1>10. Asked(Here, bus)'
  BY <1>1, <1>4, <1>7, <1>9 DEF Asked
<1> QED
  BY <1>4, <1>6, <1>7, <1>10

\* Which kinds of drives are seen to answer, to fail and to be absent.
LEMMA StatusSeen ==
    ASSUME IdeTypes, HwInv, AskedInv, Asking
    PROVE  LET at == <<Buses[b], Drives[d]>> IN
           /\ ide_status = "zero" \/ ide_check_error => ~MustAnswer(at)
           /\ ide_status = "drq" => CanAnswer(at)
           /\ ide_status = "drq" /\ d = 1 => machine.drives[at] \in Modes
<1> DEFINE e == Here.head.drive
           bus == Buses[b]
           at == <<bus, Drives[d]>>
           kind == machine.drives[<<bus, e>>]
<1>1. /\ InSearch /\ bus \in BusNames /\ SearchedAs(Here, bus) /\ e \in DriveNames
      /\ d \in 1 .. 2 /\ at[1] = bus /\ at[2] = Drives[d]
  BY HereIsSearched DEF InSearch
<1>2. ~Floats /\ Asked(Here, bus) /\ (d = 1 => e = "master")
      /\ (e = "slave" => machine.drives[<<bus, "slave">>] # "none")
  BY DEF AskedInv, Kind
<1>3. ide_status = IF kind = "none" THEN "zero"
                   ELSE IF Here.status[e] = "reset" THEN "busy" ELSE Here.status[e]
  BY <1>1, <1>2, StatusHere
<1>4. kind \in Modes \cup {"none", "atapi"}
  BY <1>1, KindOfPlace DEF Places
<1>5. "none" \notin Modes /\ "atapi" \notin Modes
  BY DEF Modes
<1>6. kind \in Modes => Here.status[e] \in AtWork
  BY <1>2 DEF Asked
<1>7. kind = "atapi" => Here.status[e] # "drq"
  BY <1>1 DEF SearchedAs
<1> HIDE DEF kind
<1>8. ide_status = "zero" \/ ide_check_error => kind \notin Modes
  BY <1>3, <1>5, <1>6 DEF ide_check_error, AtWork
<1>9. ide_status = "drq" => kind \in Modes
  BY <1>3, <1>4, <1>7
<1>10. e = "master" \/ e = "slave"
  BY <1>1 DEF DriveNames
<1>11. kind \notin Modes => ~MustAnswer(at)
  <2>1. CASE e = "master"
    BY <2>1 DEF MustAnswer, Ata, kind
  <2>2. CASE e = "slave"
    <3>1. kind \notin Modes => machine.drives[<<bus, "slave">>] = "atapi"
      BY <1>2, <1>4, <2>2 DEF kind
    <3>2. at[2] = "slave"
      BY <1>1, <1>2, <2>2, NameFacts
    <3> QED
      BY <3>1, <3>2 DEF MustAnswer
  <2> QED
    BY <1>10, <2>1, <2>2
<1>12. kind \in Modes => CanAnswer(at)
  <2>1. CASE e = "master"
    BY <2>1 DEF CanAnswer, Ata, kind
  <2>2. CASE e = "slave"
    <3>1. at[2] = "slave"
      BY <1>1, <1>2, <2>2, NameFacts
    <3> QED
      BY <2>2, <3>1 DEF CanAnswer, Ata, kind
  <2> QED
    BY <1>10, <2>1, <2>2
<1>13. kind \in Modes /\ d = 1 => machine.drives[at] \in Modes
  BY <1>2, NameFacts DEF kind
<1> QED
  BY <1>8, <1>9, <1>11, <1>12, <1>13

LEMMA DriveStepWrites ==
    ASSUME IdeTypes, HwInv, AskedInv, NEW bus \in BusNames, NEW drive \in DriveNames,
           DriveStep(bus, drive)
    PROVE  HwInv' /\ AskedInv'
<1>1. CASE ~ (pc = "init" \/ InSearch)
  BY <1>1 DEF DriveStep, HwInv, AskedInv, InSearch, Asking
<1>2. CASE pc = "init" \/ InSearch
  <2> DEFINE h == hw[bus]
             kind == machine.drives[<<bus, drive>>]
             Stepped(s) == [h EXCEPT !.status[drive] = s]
  <2>1. /\ SearchedAs(h, bus) /\ (Unasked(h) \/ (Asking /\ bus = Buses[b]))
        /\ DOMAIN hw = BusNames
    BY <1>2 DEF HwInv
  <2>2. /\ h.op \in {"none", "identify", "nop"} /\ IsBus(h)
        /\ (h.status[drive] \in AtWork => drive = h.head.drive /\ kind # "none")
        /\ UNCHANGED <<machine, b, d, pc>>
    BY <2>1 DEF SearchedAs, DriveStep
  <2>3. \E s \in {"drq", "err", "ready"} :
          /\ hw' = [hw EXCEPT ![bus].status[drive] = s]
          /\ s = "drq" => kind # "atapi" /\ h.op = "identify" /\ h.status[drive] = "busy"
          /\ s = "err" => kind = "atapi" \/ h.op = "nop"
          /\ s = "ready" => h.status[drive] = "reset"
    <3>1. ~ (h.op \in Transfers)
      BY <2>2 DEF Transfers
    <3>2. ~ (h.op \in {"flush", "stored"})
      BY <2>2
    <3>3. h.op \notin {"read_ext", "write_ext"}
      BY <2>2
    <3> QED
      BY <3>1, <3>2, <3>3 DEF DriveStep
  <2>4. PICK s \in {"drq", "err", "ready"} :
          /\ hw' = [hw EXCEPT ![bus].status[drive] = s]
          /\ s = "drq" => kind # "atapi" /\ h.op = "identify" /\ h.status[drive] = "busy"
          /\ s = "err" => kind = "atapi" \/ h.op = "nop"
          /\ s = "ready" => h.status[drive] = "reset"
    BY <2>3
  <2>5. /\ hw' = [hw EXCEPT ![bus] = Stepped(s)] /\ IsBus(Stepped(s))
        /\ Stepped(s).op = h.op /\ Stepped(s).head = h.head /\ Stepped(s).status[drive] = s
        /\ \A other \in DriveNames \ {drive} : Stepped(s).status[other] = h.status[other]
    BY <2>2, <2>4 DEF IsBus
  <2> HIDE DEF Stepped
  <2>6. DOMAIN hw' = BusNames /\ hw'[bus] = Stepped(s) /\ \A x \in BusNames \ {bus} : hw'[x] = hw[x]
    BY <2>1, <2>5
  <2> HIDE DEF kind
  <2>7. SearchedAs(Stepped(s), bus)
    <3>1. h.status[drive] = "busy" => drive = h.head.drive /\ kind # "none"
      BY <2>2 DEF AtWork
    <3>2. s \in AtWork => drive = h.head.drive /\ kind # "none" /\ kind # "atapi"
      BY <2>4, <3>1 DEF AtWork
    <3>3. s = "drq" => kind # "atapi"
      BY <2>4
    <3> HIDE DEF h
    <3>4. ASSUME NEW x \in DriveNames
          PROVE  /\ Stepped(s).status[x] \in {"ready", "err", "reset"} \cup AtWork
                 /\ Stepped(s).status[x] \in AtWork => x = h.head.drive
                 /\ machine.drives[<<bus, x>>] = "none" => Stepped(s).status[x] \notin AtWork
                 /\ machine.drives[<<bus, x>>] = "atapi" => Stepped(s).status[x] # "drq"
      <4>1. CASE x = drive
        BY <2>4, <2>5, <3>2, <3>3, <4>1 DEF kind, AtWork
      <4>2. CASE x # drive
        BY <2>1, <2>5, <4>2 DEF SearchedAs
      <4> QED
        BY <4>1, <4>2
    <3> QED
      BY <2>1, <2>5, <3>4 DEF SearchedAs
  <2>8. Unasked(h) => Unasked(Stepped(s))
    <3>1. s # "busy" /\ (s = "drq" => h.status[drive] = "busy" /\ h.op = "identify")
      BY <2>4
    <3> HIDE DEF h
    <3>2. Unasked(h) => s # "drq"
      BY <3>1 DEF Unasked
    <3> QED
      BY <2>5, <3>1, <3>2 DEF Unasked
  <2>9. HwInv'
    <3>1. ASSUME NEW x \in BusNames
          PROVE  SearchedAs(hw[x], x)' /\ (Unasked(hw[x]) \/ (Asking /\ x = Buses[b]))'
      <4>1. SearchedAs(hw[x], x) /\ (Unasked(hw[x]) \/ (Asking /\ x = Buses[b]))
        BY <1>2 DEF HwInv
      <4>2. CASE x = bus
        BY <2>1, <2>2, <2>6, <2>7, <2>8, <4>2 DEF SearchedAs, Unasked, Asking
      <4>3. CASE x # bus
        BY <2>2, <2>6, <4>1, <4>3 DEF SearchedAs, Unasked, Asking
      <4> QED
        BY <4>2, <4>3
    <3> QED
      BY <2>6, <3>1 DEF HwInv
  <2>10. AskedInv'
    <3>1. CASE pc \in {"init", "identify"}
      BY <2>2, <3>1 DEF AskedInv, Asking
    <3>2. CASE pc \notin {"init", "identify"}
      <4>1. Buses[b] \in BusNames /\ InSearch
        BY <1>2, <3>2, HereIsSearched
      <4>2. Here'.head = Here.head
        <5>1. \A x \in BusNames : hw'[x].head = hw[x].head
          BY <2>5, <2>6
        <5> QED
          BY <2>2, <4>1, <5>1 DEF Here
      <4>3. Floats' = Floats /\ \A x : Kind(x)' = Kind(x)
        BY <2>2 DEF Floats, Kind
      <4>4. ASSUME Asking, Asked(Here, Buses[b])
            PROVE  Asked(Here, Buses[b])'
        <5>1. SUFFICES ASSUME machine.drives[<<Buses[b], Here.head.drive>>] \in Modes
                       PROVE  Here'.op = "identify" /\ Here'.status[Here.head.drive] \in AtWork
          BY <2>2, <4>2 DEF Asked
        <5>2. Here.op = "identify" /\ Here.status[Here.head.drive] \in AtWork
          BY <4>4, <5>1 DEF Asked
        <5>3. CASE bus # Buses[b]
          <6>1. Here' = Here
            BY <2>2, <2>6, <4>1, <5>3 DEF Here
          <6> QED
            BY <5>2, <6>1
        <5>4. CASE bus = Buses[b]
          <6>1. Here = h /\ Here' = Stepped(s)
            BY <2>2, <2>6, <5>4 DEF Here
          <6>2. Here.head.drive \in DriveNames
            BY <2>1, <6>1 DEF SearchedAs
          <6>3. CASE drive = Here.head.drive
            <7>1. kind \in Modes /\ "atapi" \notin Modes
              BY <5>1, <5>4, <6>3 DEF kind, Modes
            <7>2. s = "drq"
              BY <2>4, <5>2, <6>1, <6>3, <7>1 DEF AtWork
            <7> QED
              BY <2>5, <5>2, <6>1, <6>3, <7>2 DEF AtWork
          <6>4. CASE drive # Here.head.drive
            BY <2>5, <5>2, <6>1, <6>2, <6>4
          <6> QED
            BY <6>3, <6>4
        <5> QED
          BY <5>3, <5>4
      <4>5. Asking' = Asking
        BY <2>2 DEF Asking
      <4> QED
        BY <2>2, <4>2, <4>3, <4>4, <4>5 DEF AskedInv
    <3> QED
      BY <3>1, <3>2
  <2> QED
    BY <2>9, <2>10
<1> QED
  BY <1>1, <1>2

-----------------------------------------------------------------------------
(* The places looked at.                                                   *)

LEMMA PastIsFixed ==
    ASSUME IdeTypes, UNCHANGED <<b, d>>, pc = "init" \/ (InSearch /\ pc # "type"),
           InSearch' /\ pc' # "type"
    PROVE  \A at \in Places : Past(at)' <=> Past(at)
<1>1. CASE pc = "init"
  <2>1. 2 * b' + d' = 3 /\ \A at \in Places : Order(at) \in 3 .. 6
    BY <1>1, OrderRange DEF IdeTypes
  <2>2. \A at \in Places : ~ (Order(at) < 2 * b' + d')
    BY <2>1
  <2>3. \A at : ~Past(at)
    BY <1>1 DEF Past, InSearch, Asking, Ready
  <2> QED
    BY <2>2, <2>3 DEF Past, InSearch, Asking, Ready
<1>2. CASE pc # "init"
  BY <1>2 DEF Past, InSearch, Asking, Ready
<1> QED
  BY <1>1, <1>2

LEMMA PlaceIsPassed ==
    ASSUME IdeTypes, pc \in {"status", "wait"}, After(b, d)
    PROVE  /\ \A at \in Places : Past(at)' <=> Past(at) \/ at = <<Buses[b], Drives[d]>>
           /\ InSearch' \/ (pc' = "release" /\ b' = 3 /\ d' = 1)
           /\ pc' \in {"identify", "release"}
           /\ b' \in 1 .. 3 /\ d' \in 1 .. 2 /\ (pc' = "identify" => b' \in 1 .. 2)
<1>1. b \in 1 .. 2 /\ d \in 1 .. 2
  BY DEF IdeTypes
<1>2. 2 * b' + d' = 2 * b + d + 1
  BY <1>1 DEF After
<1>3. /\ pc' \in {"identify", "release"} /\ b' \in 1 .. 3 /\ d' \in 1 .. 2
      /\ pc' = "identify" => b' \in 1 .. 2
      /\ pc' = "release" => b' = 3 /\ d' = 1
  BY <1>1 DEF After
<1>4. ASSUME NEW at \in Places
      PROVE  Past(at)' <=> Past(at) \/ at = <<Buses[b], Drives[d]>>
  <2>1. Order(at) \in 3 .. 6 /\ (Order(at) = 2 * b + d <=> at = <<Buses[b], Drives[d]>>)
    BY <1>1, HereIsAPlace, OrderRange
  <2>2. Past(at) <=> Order(at) < 2 * b + d
    BY DEF Past, InSearch, Asking, Ready
  <2>3. Past(at)' <=> Order(at) < 2 * b' + d'
    BY <1>3 DEF Past, InSearch, Asking, Ready
  <2>4. 2 * b + d \in Int
    BY <1>1
  <2> QED
    BY <1>2, <2>1, <2>2, <2>3, <2>4
<1> QED
  BY <1>3, <1>4 DEF InSearch

LEMMA PlaceIsLeft ==
    ASSUME IdeTypes, pc = "type", After(b, d)
    PROVE  /\ \A at \in Places : Past(at)' <=> Past(at)
           /\ InSearch' \/ (pc' = "release" /\ b' = 3 /\ d' = 1)
           /\ pc' \in {"identify", "release"}
           /\ b' \in 1 .. 3 /\ d' \in 1 .. 2 /\ (pc' = "identify" => b' \in 1 .. 2)
<1>1. b \in 1 .. 2 /\ d \in 1 .. 2
  BY DEF IdeTypes
<1>2. 2 * b' + d' = 2 * b + d + 1
  BY <1>1 DEF After
<1>3. /\ pc' \in {"identify", "release"} /\ b' \in 1 .. 3 /\ d' \in 1 .. 2
      /\ pc' = "identify" => b' \in 1 .. 2
      /\ pc' = "release" => b' = 3 /\ d' = 1
  BY <1>1 DEF After
<1>4. ASSUME NEW at \in Places
      PROVE  Past(at)' <=> Past(at)
  <2>1. Order(at) \in 3 .. 6
    BY OrderRange
  <2>2. Past(at) <=> Order(at) < 2 * b + d \/ Order(at) = 2 * b + d
    BY DEF Past, InSearch, Asking, Ready
  <2>3. Past(at)' <=> Order(at) < 2 * b' + d'
    BY <1>3 DEF Past, InSearch, Asking, Ready
  <2>4. 2 * b + d \in Int
    BY <1>1
  <2> QED
    BY <1>2, <2>1, <2>2, <2>3, <2>4
<1> QED
  BY <1>3, <1>4 DEF InSearch

\* The drives that answered, when at most places are passed where none must ...
LEMMA AnsweredKept ==
    ASSUME AnsweredInv, answered \in Seq(Places), UNCHANGED <<machine, answered>>,
           \A at \in Places : Past(at) => Past(at)',
           \A at \in Places : Past(at)' => Past(at) \/ ~MustAnswer(at)
    PROVE  AnsweredInv'
<1>1. \A at : (CanAnswer(at)' <=> CanAnswer(at)) /\ (MustAnswer(at)' <=> MustAnswer(at))
  BY DEF CanAnswer, MustAnswer, Ata
<1>2. ToSet(answered)' = ToSet(answered) /\ ToSet(answered) \subseteq Places
  BY DEF ToSet
<1> QED
  BY <1>1, <1>2 DEF AnsweredInv

\* ... and when a drive of the place looked at answers.
LEMMA AnsweredGrows ==
    ASSUME IdeTypes, AnsweredInv, pc = "wait", pc' = "type", UNCHANGED <<machine, b, d>>,
           CanAnswer(<<Buses[b], Drives[d]>>),
           answered' = Append(answered, <<Buses[b], Drives[d]>>)
    PROVE  AnsweredInv' /\ answered' \in Seq(Places)
<1> DEFINE place == <<Buses[b], Drives[d]>>
<1>1. b \in 1 .. 2 /\ d \in 1 .. 2 /\ answered \in Seq(Places)
  BY DEF IdeTypes
<1>2. place \in Places /\ CanAnswer(place)
  BY <1>1, HereIsAPlace
<1>3. \A at \in Places : Past(at)' <=> Past(at) \/ at = place
  BY <1>1, HereIsAPlace DEF Past, InSearch, Asking, Ready
<1>4. \A at \in Places : Past(at) <=> Order(at) < Order(place)
  BY <1>1, <1>2, HereIsAPlace DEF Past, InSearch, Asking, Ready
<1> HIDE DEF place
<1>5. /\ answered' \in Seq(Places) /\ Len(answered') = Len(answered) + 1
      /\ answered'[Len(answered) + 1] = place
      /\ \A k \in 1 .. Len(answered) : answered'[k] = answered[k]
  BY <1>1, <1>2 DEF place
<1>6. DOMAIN answered = 1 .. Len(answered) /\ DOMAIN answered' = 1 .. Len(answered')
      /\ Len(answered) \in Nat
  BY <1>1, <1>5
<1>7. \A x : x \in ToSet(answered') <=> x \in ToSet(answered) \/ x = place
  <2>1. ToSet(answered) = {answered[k] : k \in 1 .. Len(answered)}
    BY <1>6 DEF ToSet
  <2>2. ToSet(answered') = {answered'[k] : k \in 1 .. Len(answered) + 1}
    BY <1>5, <1>6 DEF ToSet
  <2>3. ASSUME NEW x
        PROVE  x \in ToSet(answered') <=> x \in ToSet(answered) \/ x = place
    <3>1. ASSUME x \in ToSet(answered')
          PROVE  x \in ToSet(answered) \/ x = place
      <4>1. PICK k \in 1 .. Len(answered) + 1 : x = answered'[k]
        BY <2>2, <3>1
      <4>2. k \in 1 .. Len(answered) \/ k = Len(answered) + 1
        BY <1>6
      <4> QED
        BY <1>5, <2>1, <4>1, <4>2
    <3>2. ASSUME x \in ToSet(answered) \/ x = place
          PROVE  x \in ToSet(answered')
      <4>1. CASE x = place
        <5>1. Len(answered) + 1 \in 1 .. Len(answered) + 1
          BY <1>6
        <5> QED
          BY <1>5, <2>2, <4>1, <5>1
      <4>2. CASE x \in ToSet(answered)
        <5>1. PICK k \in 1 .. Len(answered) : x = answered[k]
          BY <2>1, <4>2
        <5>2. k \in 1 .. Len(answered) + 1 /\ x = answered'[k]
          BY <1>5, <1>6, <5>1
        <5> QED
          BY <2>2, <5>2
      <4> QED
        BY <3>2, <4>1, <4>2
    <3> QED
      BY <3>1, <3>2
  <2> QED
    BY <2>3
<1>8. \A at : (CanAnswer(at)' <=> CanAnswer(at)) /\ (MustAnswer(at)' <=> MustAnswer(at))
  BY DEF CanAnswer, MustAnswer, Ata
<1>9. ToSet(answered)' = ToSet(answered') /\ ToSet(answered) \subseteq Places
  BY <1>1, <1>6 DEF ToSet
<1>10. \A at \in ToSet(answered)' : Past(at)' /\ CanAnswer(at)'
  <2>1. SUFFICES ASSUME NEW at \in ToSet(answered')
                 PROVE  Past(at)' /\ CanAnswer(at)'
    BY <1>9
  <2>2. CASE at = place
    BY <1>2, <1>3, <1>8, <2>2
  <2>3. CASE at \in ToSet(answered)
    BY <1>3, <1>8, <1>9, <2>3 DEF AnsweredInv
  <2> QED
    BY <1>7, <2>2, <2>3
<1>11. \A at \in Places : Past(at)' /\ MustAnswer(at)' => at \in ToSet(answered)'
  BY <1>3, <1>7, <1>8, <1>9 DEF AnsweredInv
<1>12. ASSUME NEW j \in DOMAIN answered', NEW k \in DOMAIN answered', j < k
       PROVE  Order(answered'[j]) < Order(answered'[k])
  <2>1. CASE k \in 1 .. Len(answered)
    BY <2>1, <1>5, <1>6, <1>12 DEF AnsweredInv
  <2>2. CASE k = Len(answered) + 1
    <3>1. j \in 1 .. Len(answered)
      BY <1>5, <1>6, <1>12, <2>2
    <3>2. answered[j] \in ToSet(answered) /\ answered[j] \in Places
      BY <1>1, <1>6, <3>1 DEF ToSet
    <3>3. Past(answered[j])
      BY <3>2 DEF AnsweredInv
    <3> QED
      BY <1>4, <1>5, <2>2, <3>1, <3>2, <3>3
  <2> QED
    BY <1>5, <1>6, <2>1, <2>2
<1> QED
  BY <1>5, <1>10, <1>11, <1>12 DEF AnsweredInv

-----------------------------------------------------------------------------
(* The steps of ide_init.                                                  *)

LEMMA InitMeetsIdeInv ==
    ASSUME Init
    PROVE  IdeInv
<1>1. IdeTypes
  <2>1. /\ ide_devices = <<>> /\ answered = <<>> /\ dev = <<>> /\ pc = "init" /\ b = 1 /\ d = 1
        /\ written = 0
        /\ machine \in Machines /\ found = [bus \in BusNames |-> 0]
    BY NameFacts DEF Init
  <2>2. <<>> \in Seq(ide_device_t) /\ <<>> \in Seq(Places) /\ Len(<<>>) = 0
    OBVIOUS
  <2> QED
    BY <2>1, <2>2 DEF IdeTypes
<1>2. HwInv
  <2>1. hw = [bus \in BusNames |-> Bus(ZeroHead)]
    BY NameFacts DEF Init
  <2>2. /\ IsBus(Bus(ZeroHead)) /\ Bus(ZeroHead).op = "none"
        /\ Bus(ZeroHead).head.drive = "master"
        /\ \A drive \in DriveNames : Bus(ZeroHead).status[drive] = "ready"
    BY NameFacts DEF Bus, IsBus, ZeroHead, Selected, DriveHead
  <2>3. \A bus \in BusNames : SearchedAs(hw[bus], bus) /\ Unasked(hw[bus])
    BY <2>1, <2>2 DEF SearchedAs, Unasked, AtWork, DriveNames
  <2> QED
    BY <2>1, <2>3 DEF HwInv, Init
<1>3. AskedInv
  BY DEF Init, AskedInv, Asking
<1>4. AnsweredInv
  <2>1. answered = <<>> /\ pc = "init"
    BY DEF Init
  <2>2. DOMAIN <<>> = {} /\ ToSet(<<>>) = {}
    BY DEF ToSet
  <2>3. \A at : ~ Past(at)
    BY <2>1 DEF Past, InSearch, Asking, Ready
  <2> QED
    BY <2>1, <2>2, <2>3 DEF AnsweredInv
<1>5. PoolInv
  <2>1. Len(ide_devices) = 0 /\ Len(answered) = 0 /\ pc = "init"
    BY DEF Init
  <2> QED
    BY <2>1 DEF PoolInv
<1>6. FoundInv
  <2>1. Len(ide_devices) = 0 /\ found = [bus \in BusNames |-> 0]
    BY NameFacts DEF Init
  <2> QED
    BY <2>1 DEF FoundInv
<1>7. BlocksInv
  <2>1. blocks = {} /\ dangling = {} /\ misfreed = FALSE /\ pc = "init"
    BY DEF Init
  <2>2. HeldBuses = {}
    BY <2>1 DEF HeldBuses, Ready, InSearch, Asking
  <2>3. blocks = HeldBuses \X {"bus"}
    BY <2>1, <2>2
  <2> QED
    BY <2>1, <2>3 DEF BlocksInv, InSearch, Asking, Ready
<1> QED
  BY <1>1, <1>2, <1>3, <1>4, <1>5, <1>6, <1>7 DEF IdeInv

LEMMA PoolKept ==
    ASSUME PoolInv, FoundInv, UNCHANGED <<ide_devices, answered, found>>,
           pc # "type", pc' # "type"
    PROVE  PoolInv' /\ FoundInv'
  BY DEF PoolInv, FoundInv

LEMMA BlocksKept ==
    ASSUME BlocksInv, UNCHANGED <<machine, heap>>, InSearch, InSearch' \/ pc' = "release"
    PROVE  BlocksInv'
<1>1. HeldBuses' = HeldBuses
  BY DEF HeldBuses, InSearch, Asking, Ready
<1>2. blocks' = blocks /\ dangling' = dangling /\ misfreed' = misfreed
  BY DEF heap
<1> QED
  BY <1>1, <1>2 DEF BlocksInv, InSearch, Asking, Ready

LEMMA ide_init_step ==
    ASSUME IdeInv, ide_init
    PROVE  IdeInv'
<1>1. /\ pc = "init" /\ pc' \in {"identify", "stop"} /\ b = 1 /\ d = 1
      /\ UNCHANGED <<machine, hw, b, d, written, dev, found, ide_devices, answered>>
  BY DEF ide_init, hardware, records, IdeInv, IdeTypes
<1>2. IdeTypes'
  BY <1>1 DEF IdeInv, IdeTypes, InSearch, Asking, Ready
<1>3. HwInv' /\ AskedInv'
  BY <1>1 DEF IdeInv, HwInv, AskedInv, InSearch, Asking, SearchedAs, Unasked
<1>4. AnsweredInv'
  <2>1. \A at \in Places : Past(at)' <=> Past(at)
    BY <1>1, OrderRange DEF Past, InSearch, Asking, Ready
  <2> QED
    BY <1>1, <2>1, AnsweredKept DEF IdeInv, IdeTypes
<1>5. PoolInv' /\ FoundInv'
  BY <1>1, PoolKept DEF IdeInv
<1>6. BlocksInv'
  <2>1. PICK what \in {{"bus"}, {"bus", "prdt"}} : blocks = HeldBuses \X what
    BY DEF IdeInv, BlocksInv
  <2>2. blocks = {} /\ dangling = {} /\ ~ misfreed
    BY <1>1, <2>1 DEF HeldBuses, InSearch, Asking, Ready, IdeInv, BlocksInv
  <2>3. CASE pc' = "stop"
    <3>1. blocks' = {} /\ HeldBuses' = {}
      BY <2>2, <2>3 DEF ide_init, NoMemory, heap, HeldBuses, InSearch, Asking, Ready
    <3>2. blocks' = HeldBuses' \X {"bus"}
      BY <3>1
    <3> QED
      BY <2>3, <3>2 DEF BlocksInv, InSearch, Asking, Ready
  <2>4. CASE pc' = "identify"
    <3>1. HeldBuses' = BusNames
      BY <2>4 DEF HeldBuses, InSearch, Asking, Ready
    <3>2. GetTables /\ misfreed' = misfreed
      BY <2>4 DEF ide_init
    <3>3. \A w : Objects(w) = BusNames \X {w}
      BY NameFacts DEF Objects, Block, BusNames
    <3>4. BusNames \X {"bus"} \cup BusNames \X {"prdt"} = BusNames \X {"bus", "prdt"}
      OBVIOUS
    <3>5. blocks' = BusNames \X {"bus"} \/ blocks' = BusNames \X {"bus", "prdt"}
      BY <3>2, <3>3, <3>4 DEF GetTables
    <3>6. dangling' # {} => machine.dma
      BY <2>2, <3>2 DEF GetTables
    <3>7. \E w \in {{"bus"}, {"bus", "prdt"}} : blocks' = HeldBuses' \X w
      BY <3>1, <3>5
    <3> QED
      BY <1>1, <2>2, <2>4, <3>2, <3>6, <3>7 DEF BlocksInv
  <2> QED
    BY <1>1, <2>3, <2>4
<1> QED
  BY <1>2, <1>3, <1>4, <1>5, <1>6 DEF IdeInv

LEMMA identify_step ==
    ASSUME IdeInv, identify
    PROVE  IdeInv'
<1>1. /\ pc = "identify" /\ pc' = "clear" /\ InSearch /\ InSearch' /\ ~Asking /\ ~Asking'
      /\ UNCHANGED <<machine, b, d, written, dev, found, ide_devices, answered, heap>>
  BY DEF identify, records, InSearch, Asking
<1>2. IdeTypes'
  BY <1>1 DEF IdeInv, IdeTypes, InSearch, Asking, Ready
<1>3. HwInv' /\ AskedInv'
  <2>1. /\ b \in 1 .. 2 /\ d \in 1 .. 2 /\ Drives[d] \in DriveNames /\ Buses[b] \in BusNames
        /\ ide_select_drive(Drives[d])
    BY <1>1, HereIsSearched DEF IdeInv, identify
  <2>2. ~Floats /\ HwInv' /\ hw'[Buses[b]].head.drive = Drives[d]
    BY <1>1, <2>1, DriveSelected DEF IdeInv
  <2>3. Here'.head.drive = Drives[d] /\ Floats' = Floats
    BY <1>1, <2>2 DEF Here, Floats, Kind
  <2> QED
    BY <1>1, <2>2, <2>3, NameFacts DEF AskedInv
<1>4. AnsweredInv'
  <2>1. \A at \in Places : Past(at)' <=> Past(at)
    BY <1>1, PastIsFixed DEF IdeInv
  <2> QED
    BY <1>1, <2>1, AnsweredKept DEF IdeInv, IdeTypes
<1>5. PoolInv' /\ FoundInv'
  BY <1>1, PoolKept DEF IdeInv, InSearch, Asking
<1>6. BlocksInv'
  BY <1>1, BlocksKept DEF IdeInv
<1> QED
  BY <1>2, <1>3, <1>4, <1>5, <1>6 DEF IdeInv

LEMMA identify_clear_step ==
    ASSUME IdeInv, identify_clear
    PROVE  IdeInv'
<1>1. /\ pc = "clear" /\ pc' \in {"clear", "ask"} /\ InSearch /\ InSearch' /\ ~Asking /\ ~Asking'
      /\ UNCHANGED <<machine, b, d, dev, found, ide_devices, answered, heap>>
  BY DEF identify_clear, records, InSearch, Asking
<1>2. /\ written \in 0 .. 3
      /\ written' = IF written = 3 THEN 0 ELSE written + 1
      /\ pc' = IF written = 3 THEN "ask" ELSE "clear"
  <2>1. written \in 0 .. 3
    BY <1>1 DEF IdeInv, IdeTypes
  <2>2. written' = IF written + 1 = 4 THEN 0 ELSE written + 1
    BY DEF identify_clear, ide_write_reg
  <2> QED
    BY <2>1, <2>2 DEF identify_clear
<1>3. IdeTypes'
  <2>1. written' \in 0 .. 3 /\ (pc' = "ask" => written' = 0)
    BY <1>2
  <2> QED
    BY <1>1, <2>1 DEF IdeInv, IdeTypes, InSearch, Asking, Ready
<1>4. HwInv' /\ AskedInv'
  <2> DEFINE k == (written % 4) + 1
             value == <<0, 0, 0, 0>>[written + 1]
  <2>1. k = written + 1 /\ k \in 1 .. 4
    BY <1>2
  <2>2. hw' = [hw EXCEPT ![Buses[b]] = IF Notices THEN WriteRegister(Here, k, value) ELSE Here]
    BY DEF identify_clear, ide_write_reg, ToBus
  <2> HIDE DEF k, value
  <2>3. /\ HwInv'
        /\ IF Notices /\ k = 4 THEN hw'[Buses[b]].head.drive = "master"
           ELSE hw'[Buses[b]].head = Here.head
    BY <1>1, <2>1, <2>2, RegisterCleared DEF IdeInv
  <2>4. /\ ~Floats /\ (d = 1 => Here.head.drive = "master")
        /\ d \in 1 .. 2 /\ Here.head.drive \in DriveNames
    BY <1>1, HereIsSearched DEF IdeInv, AskedInv
  <2>5. Here'.head = hw'[Buses[b]].head /\ Floats' = Floats /\ \A x : Kind(x)' = Kind(x)
    BY <1>1 DEF Here, Floats, Kind
  <2>6. d = 1 => Here'.head.drive = "master"
    BY <2>3, <2>4, <2>5
  <2>7. ~Notices /\ Here.head.drive = "slave" => Kind("slave") # "none"
    BY <2>4 DEF Notices, ide_status, StatusOf
  <2>8. pc' = "ask" => (Here'.head.drive = "slave" => Kind("slave") # "none")
    <3>1. pc' = "ask" => k = 4
      BY <1>2, <2>1
    <3>2. CASE Notices
      BY <2>3, <2>5, <3>1, <3>2
    <3>3. CASE ~Notices
      BY <2>3, <2>5, <2>7, <3>3
    <3> QED
      BY <3>2, <3>3
  <2>9. AskedInv'
    BY <1>1, <2>4, <2>5, <2>6, <2>8 DEF AskedInv
  <2> QED
    BY <2>3, <2>9
<1>5. AnsweredInv'
  <2>1. \A at \in Places : Past(at)' <=> Past(at)
    BY <1>1, PastIsFixed DEF IdeInv
  <2> QED
    BY <1>1, <2>1, AnsweredKept DEF IdeInv, IdeTypes
<1>6. PoolInv' /\ FoundInv'
  BY <1>1, PoolKept DEF IdeInv, InSearch, Asking
<1>7. BlocksInv'
  BY <1>1, BlocksKept DEF IdeInv
<1> QED
  BY <1>3, <1>4, <1>5, <1>6, <1>7 DEF IdeInv

LEMMA identify_command_step ==
    ASSUME IdeInv, identify_command
    PROVE  IdeInv'
<1>1. /\ pc = "ask" /\ pc' = "status" /\ InSearch /\ InSearch' /\ Asking'
      /\ UNCHANGED <<machine, b, d, written, dev, found, ide_devices, answered, heap>>
  BY DEF identify_command, records, InSearch, Asking
<1>2. IdeTypes'
  BY <1>1 DEF IdeInv, IdeTypes, InSearch, Asking, Ready
<1>3. HwInv' /\ AskedInv'
  <2>1. HwInv' /\ Asked(Here, Buses[b])' /\ Here'.head = Here.head
    BY IdentifySent DEF IdeInv
  <2>2. Floats' = Floats /\ \A x : Kind(x)' = Kind(x)
    BY <1>1 DEF Floats, Kind
  <2>3. AskedInv
    BY DEF IdeInv
  <2> QED
    BY <1>1, <2>1, <2>2, <2>3 DEF AskedInv
<1>4. AnsweredInv'
  <2>1. \A at \in Places : Past(at)' <=> Past(at)
    BY <1>1, PastIsFixed DEF IdeInv
  <2> QED
    BY <1>1, <2>1, AnsweredKept DEF IdeInv, IdeTypes
<1>5. PoolInv' /\ FoundInv'
  BY <1>1, PoolKept DEF IdeInv, InSearch, Asking
<1>6. BlocksInv'
  BY <1>1, BlocksKept DEF IdeInv
<1> QED
  BY <1>2, <1>3, <1>4, <1>5, <1>6 DEF IdeInv

LEMMA identify_waits_step ==
    ASSUME IdeInv, identify_waits
    PROVE  IdeInv'
<1>1. /\ pc = "status" /\ pc' = "wait" /\ InSearch /\ InSearch' /\ Asking /\ Asking'
      /\ UNCHANGED <<machine, hw, b, d, written, dev, found, ide_devices, answered, heap>>
  BY DEF identify_waits, hardware, records, InSearch, Asking
<1>2. IdeTypes'
  BY <1>1 DEF IdeInv, IdeTypes, InSearch, Asking, Ready
<1>3. HwInv' /\ AskedInv'
  BY <1>1 DEF IdeInv, HwInv, AskedInv, SearchedAs, Unasked, Asked, Here, Floats, Kind
<1>4. AnsweredInv'
  <2>1. \A at \in Places : Past(at)' <=> Past(at)
    BY <1>1, PastIsFixed DEF IdeInv
  <2> QED
    BY <1>1, <2>1, AnsweredKept DEF IdeInv, IdeTypes
<1>5. PoolInv' /\ FoundInv'
  BY <1>1, PoolKept DEF IdeInv, InSearch, Asking
<1>6. BlocksInv'
  BY <1>1, BlocksKept DEF IdeInv
<1> QED
  BY <1>2, <1>3, <1>4, <1>5, <1>6 DEF IdeInv

LEMMA identify_no_drive_step ==
    ASSUME IdeInv, identify_no_drive
    PROVE  IdeInv'
<1>1. /\ Asking /\ pc \in {"status", "wait"} /\ InSearch /\ After(b, d)
      /\ UNCHANGED <<machine, hw, written, dev, found, ide_devices, answered, heap>>
  BY DEF identify_no_drive, hardware, records, InSearch, Asking
<1>2. ~MustAnswer(<<Buses[b], Drives[d]>>) /\ (ide_status = "zero" \/ ide_check_error)
  BY <1>1, StatusSeen DEF identify_no_drive, IdeInv
<1>3. /\ \A at \in Places : Past(at)' <=> Past(at) \/ at = <<Buses[b], Drives[d]>>
      /\ InSearch' \/ (pc' = "release" /\ b' = 3 /\ d' = 1)
      /\ pc' \in {"identify", "release"}
      /\ b' \in 1 .. 3 /\ d' \in 1 .. 2 /\ (pc' = "identify" => b' \in 1 .. 2)
  BY <1>1, PlaceIsPassed DEF IdeInv
<1>4. IdeTypes'
  BY <1>1, <1>3 DEF IdeInv, IdeTypes, InSearch, Asking, Ready
<1>5. HwInv' /\ AskedInv'
  <2>1. /\ Here.head.drive \in DriveNames /\ SearchedAs(Here, Buses[b]) /\ Here = hw[Buses[b]]
        /\ ~Floats
    BY <1>1, HereIsSearched DEF IdeInv, AskedInv
  <2>2. Here.status[Here.head.drive] \notin AtWork
    <3>1. machine.drives[<<Buses[b], Here.head.drive>>] = "none"
            => Here.status[Here.head.drive] \notin AtWork
      BY <2>1 DEF SearchedAs
    <3>2. ide_status \notin AtWork
      BY <1>2 DEF ide_check_error, AtWork
    <3>3. machine.drives[<<Buses[b], Here.head.drive>>] # "none"
            => Here.status[Here.head.drive] = "reset" \/ ide_status = Here.status[Here.head.drive]
      BY <1>1, <2>1, StatusHere DEF IdeInv
    <3> QED
      BY <3>1, <3>2, <3>3 DEF AtWork
  <2>3. Unasked(Here)
    BY <2>1, <2>2 DEF SearchedAs, Unasked, AtWork
  <2>4. DOMAIN hw = BusNames /\ \A x \in BusNames : SearchedAs(hw[x], x) /\ Unasked(hw[x])
    BY <1>1, <2>1, <2>3 DEF IdeInv, HwInv
  <2>5. HwInv'
    BY <1>1, <2>4 DEF HwInv, SearchedAs, Unasked
  <2>6. AskedInv'
    BY <1>3 DEF AskedInv, Asking
  <2> QED
    BY <2>5, <2>6
<1>6. AnsweredInv'
  BY <1>1, <1>2, <1>3, AnsweredKept DEF IdeInv, IdeTypes
<1>7. PoolInv' /\ FoundInv'
  BY <1>1, <1>3, PoolKept DEF IdeInv
<1>8. BlocksInv'
  BY <1>1, <1>3, BlocksKept DEF IdeInv
<1> QED
  BY <1>4, <1>5, <1>6, <1>7, <1>8 DEF IdeInv

LEMMA identify_words_step ==
    ASSUME IdeInv, identify_words
    PROVE  IdeInv'
<1> DEFINE place == <<Buses[b], Drives[d]>>
<1>1. /\ pc = "wait" /\ pc' = "type" /\ Asking /\ ~Asking' /\ InSearch /\ InSearch'
      /\ UNCHANGED <<machine, b, d, written, found, ide_devices, heap>>
      /\ answered' = Append(answered, place)
  BY DEF identify_words, InSearch, Asking
<1>2. b \in 1 .. 2 /\ d \in 1 .. 2 /\ Buses[b] \in BusNames /\ Drives[d] \in DriveNames
      /\ answered \in Seq(Places) /\ ide_devices \in Seq(ide_device_t)
  BY <1>1, HereIsAPlace DEF IdeInv, IdeTypes
<1>3. CanAnswer(place) /\ (d = 1 => machine.drives[place] \in Modes)
  BY <1>1, StatusSeen DEF identify_words, IdeInv
<1>4. dev' \in ide_device_t /\ dev'.bus = Buses[b] /\ dev'.drive = Drives[d]
  <2>1. PICK info \in Information(Kind(Drives[d])) :
          dev' = [bus |-> Buses[b], drive |-> Drives[d], addr_mode |-> info.addr_mode,
                  sectors |-> info.sectors, magic |-> info.magic, ide_type |-> "unknown"]
    BY DEF identify_words
  <2>2. Sectors["lba28"] \in Nat
    BY DEF Modes
  <2>3. ASSUME NEW x \in Bytes
        PROVE  x.addr_mode \in Modes \cup {"other"} /\ x.sectors \in Nat /\ x.magic \in BOOLEAN
    BY <2>2 DEF Bytes
  <2>4. info.addr_mode \in Modes \cup {"other"} /\ info.sectors \in Nat /\ info.magic \in BOOLEAN
    <3>1. CASE info \in Bytes
      BY <2>3, <3>1
    <3>2. CASE info = Saved(Kind(Drives[d])) /\ d = 1
      <4>1. Kind(Drives[d]) \in Modes
        BY <1>3, <3>2 DEF Kind
      <4>2. Sectors[Kind(Drives[d])] \in Nat
        BY <4>1
      <4> QED
        BY <3>2, <4>1, <4>2 DEF Saved
    <3>3. info \in Bytes \/ (info = Saved(Kind(Drives[d])) /\ d = 1)
      BY <1>2, NameFacts DEF Information
    <3> QED
      BY <3>1, <3>2, <3>3
  <2> QED
    BY <1>2, <2>1, <2>4, NameFacts DEF ide_device_t
<1>5. AnsweredInv' /\ answered' \in Seq(Places)
  BY <1>1, <1>3, AnsweredGrows DEF IdeInv
<1>6. IdeTypes'
  BY <1>1, <1>4, <1>5 DEF IdeInv, IdeTypes, InSearch, Asking, Ready
<1>7. HwInv' /\ AskedInv'
  <2> DEFINE g == [Here EXCEPT !.head = ZeroHead,
                               !.status = [drive \in ToSet(Drives) |-> "reset"]]
  <2>1. hw' = [hw EXCEPT ![Buses[b]] = g]
    BY DEF identify_words, ToBus
  <2>2. SearchedAs(Here, Buses[b])
    BY <1>1, HereIsSearched DEF IdeInv
  <2>3. IsBus(Here) /\ Here.op \in {"none", "identify", "nop"}
    BY <2>2 DEF SearchedAs
  <2>4. /\ IsBus(g) /\ g.op = Here.op /\ g.head.drive = "master"
        /\ \A drive \in DriveNames : g.status[drive] = "reset"
    BY <2>3, NameFacts DEF IsBus, ZeroHead, Selected, DriveHead
  <2> HIDE DEF g
  <2>5. SearchedAs(g, Buses[b]) /\ Unasked(g)
    BY <2>3, <2>4 DEF SearchedAs, Unasked, AtWork, DriveNames
  <2>6. HwInv'
    BY <1>1, <1>2, <2>1, <2>5, BusWritten DEF IdeInv
  <2>7. ~Floats'
    BY <1>1 DEF IdeInv, AskedInv, Floats, Kind
  <2>8. AskedInv'
    BY <1>1, <2>7 DEF AskedInv
  <2> QED
    BY <2>6, <2>8
<1>8. PoolInv'
  <2>1. /\ Len(answered') = Len(answered) + 1 /\ answered'[Len(answered) + 1] = place
        /\ \A k \in 1 .. Len(answered) : answered'[k] = answered[k]
        /\ Len(answered) \in Nat /\ Len(ide_devices) \in Nat
    BY <1>1, <1>2, HereIsAPlace
  <2> HIDE DEF place
  <2>2. /\ Len(ide_devices) <= Len(answered)
        /\ Len(ide_devices) = PoolSize \/ Len(ide_devices) = Len(answered)
        /\ \A k \in 1 .. Len(ide_devices) : answered[k] = <<ide_devices[k].bus, ide_devices[k].drive>>
    BY <1>1 DEF IdeInv, PoolInv
  <2>3. \A k \in 1 .. Len(ide_devices) : answered'[k] = <<ide_devices[k].bus, ide_devices[k].drive>>
    BY <2>1, <2>2
  <2>4. answered'[Len(answered')] = <<Buses[b], Drives[d]>>
    BY <2>1 DEF place
  <2>5. Len(answered') > 0 /\ Len(ide_devices) <= Len(answered') - 1
        /\ (Len(ide_devices) = PoolSize \/ Len(ide_devices) = Len(answered') - 1)
    BY <2>1, <2>2
  <2>6. ide_devices' = ide_devices /\ pc' = "type" /\ Buses[b]' = Buses[b] /\ Drives[d]' = Drives[d]
    BY <1>1
  <2>7. Len(ide_devices) <= Len(answered')
    BY <2>1, <2>2
  <2>8. /\ (Len(ide_devices) <= Len(answered))'
        /\ (\A k \in 1 .. Len(ide_devices) : answered[k] = <<ide_devices[k].bus, ide_devices[k].drive>>)'
    BY <2>3, <2>6, <2>7
  <2>9. /\ (dev \in ide_device_t)' /\ (dev.bus = Buses[b])' /\ (dev.drive = Drives[d])'
    BY <1>4, <2>6
  <2>10. /\ (Len(answered) > 0)' /\ (answered[Len(answered)] = <<Buses[b], Drives[d]>>)'
         /\ (Len(ide_devices) <= Len(answered) - 1)'
         /\ (Len(ide_devices) = PoolSize \/ Len(ide_devices) = Len(answered) - 1)'
    BY <2>4, <2>5, <2>6
  <2> QED
    BY <2>6, <2>8, <2>9, <2>10 DEF PoolInv
<1>9. FoundInv'
  BY <1>1 DEF IdeInv, FoundInv
<1>10. BlocksInv'
  BY <1>1, BlocksKept DEF IdeInv
<1> QED
  BY <1>5, <1>6, <1>7, <1>8, <1>9, <1>10 DEF IdeInv

LEMMA TypedDevice ==
    ASSUME NEW device \in ide_device_t, NEW type \in {"pata", "unknown"}
    PROVE  /\ [device EXCEPT !.ide_type = type] \in ide_device_t
           /\ [device EXCEPT !.ide_type = type].bus = device.bus
           /\ [device EXCEPT !.ide_type = type].drive = device.drive
  BY DEF ide_device_t

\* A device is put into the pool, or there is no room for it.
LEMMA PoolGrows ==
    ASSUME IdeTypes, PoolInv, FoundInv, pc = "type", pc' # "type", UNCHANGED answered,
           NEW device \in ide_device_t, device.bus = dev.bus, device.drive = dev.drive,
           ide_devices' = (IF HasRoom THEN Append(ide_devices, device) ELSE ide_devices),
           found' = (IF HasRoom THEN [found EXCEPT ![dev.bus] = @ + 1] ELSE found)
    PROVE  /\ PoolInv' /\ FoundInv'
           /\ ide_devices' \in Seq(ide_device_t) /\ Len(ide_devices') <= PoolSize
           /\ found' \in [BusNames -> Nat]
<1>1. /\ dev.bus = Buses[b] /\ dev.drive = Drives[d] /\ dev \in ide_device_t
      /\ Len(answered) > 0 /\ answered[Len(answered)] = <<Buses[b], Drives[d]>>
      /\ Len(ide_devices) <= Len(answered) - 1
      /\ Len(ide_devices) = PoolSize \/ Len(ide_devices) = Len(answered) - 1
      /\ \A k \in 1 .. Len(ide_devices) : answered[k] = <<ide_devices[k].bus, ide_devices[k].drive>>
  BY DEF PoolInv
<1>2. /\ ide_devices \in Seq(ide_device_t) /\ Len(ide_devices) <= PoolSize
      /\ found \in [BusNames -> Nat] /\ answered \in Seq(Places)
      /\ Len(ide_devices) \in Nat /\ Len(answered) \in Nat
  BY DEF IdeTypes
<1>3. CASE ~ HasRoom
  <2>1. ide_devices' = ide_devices /\ found' = found /\ Len(ide_devices) = PoolSize
    BY <1>2, <1>3 DEF HasRoom
  <2>2. PoolInv'
    BY <1>1, <1>2, <2>1 DEF PoolInv
  <2>3. FoundInv'
    BY <2>1 DEF FoundInv
  <2> QED
    BY <1>2, <2>1, <2>2, <2>3
<1>4. CASE HasRoom
  <2>1. /\ ide_devices' = Append(ide_devices, device)
        /\ found' = [found EXCEPT ![dev.bus] = @ + 1] /\ Len(ide_devices) < PoolSize
    BY <1>4 DEF HasRoom
  <2>2. /\ ide_devices' \in Seq(ide_device_t) /\ Len(ide_devices') = Len(ide_devices) + 1
        /\ ide_devices'[Len(ide_devices) + 1] = device
        /\ \A k \in 1 .. Len(ide_devices) : ide_devices'[k] = ide_devices[k]
    BY <1>2, <2>1
  <2>3. dev.bus \in BusNames
    BY <1>1, NameFacts DEF ide_device_t
  <2>4. /\ found' \in [BusNames -> Nat] /\ found'[dev.bus] # 0
        /\ \A bus \in BusNames \ {dev.bus} : found'[bus] = found[bus]
    BY <1>2, <2>1, <2>3
  <2>5. Len(ide_devices) = Len(answered) - 1 /\ Len(ide_devices') <= PoolSize
    BY <1>1, <1>2, <2>1, <2>2
  <2>6. ASSUME NEW k \in 1 .. Len(ide_devices')
        PROVE  answered[k] = <<ide_devices'[k].bus, ide_devices'[k].drive>>
    <3>1. CASE k \in 1 .. Len(ide_devices)
      BY <1>1, <2>2, <3>1
    <3>2. CASE k = Len(ide_devices) + 1
      <4>1. k = Len(answered)
        BY <1>2, <2>5, <3>2
      <4> QED
        BY <1>1, <2>2, <3>2, <4>1
    <3> QED
      BY <1>2, <2>2, <3>1, <3>2
  <2>7. PoolInv'
    <3>1. Len(ide_devices') <= Len(answered) /\ Len(ide_devices') = Len(answered)
      BY <1>2, <2>2, <2>5
    <3> QED
      BY <2>6, <3>1 DEF PoolInv
  <2>8. ASSUME NEW bus \in BusNames
        PROVE  found'[bus] # 0 <=> \E k \in 1 .. Len(ide_devices') : ide_devices'[k].bus = bus
    <3>1. CASE bus = dev.bus
      <4>1. Len(ide_devices) + 1 \in 1 .. Len(ide_devices')
        BY <1>2, <2>2
      <4> QED
        BY <2>2, <2>4, <3>1, <4>1
    <3>2. CASE bus # dev.bus
      <4>1. found[bus] # 0 <=> \E k \in 1 .. Len(ide_devices) : ide_devices[k].bus = bus
        BY DEF FoundInv
      <4>2. (\E k \in 1 .. Len(ide_devices') : ide_devices'[k].bus = bus)
              <=> \E k \in 1 .. Len(ide_devices) : ide_devices[k].bus = bus
        BY <1>2, <2>2, <3>2
      <4> QED
        BY <2>4, <3>2, <4>1, <4>2
    <3> QED
      BY <3>1, <3>2
  <2> QED
    BY <2>2, <2>4, <2>5, <2>7, <2>8 DEF FoundInv
<1> QED
  BY <1>3, <1>4

LEMMA ide_save_device_ide_type_step ==
    ASSUME IdeInv, ide_save_device_ide_type
    PROVE  IdeInv'
<1>1. /\ pc = "type" /\ InSearch /\ ~Asking /\ After(b, d) /\ dev' = <<>>
      /\ UNCHANGED <<machine, written, heap, answered>>
  BY DEF ide_save_device_ide_type, InSearch, Asking
<1>2. b \in 1 .. 2 /\ d \in 1 .. 2 /\ Buses[b] \in BusNames /\ dev \in ide_device_t
      /\ dev.bus = Buses[b]
  BY <1>1, HereIsAPlace DEF IdeInv, IdeTypes, PoolInv
<1>3. /\ \A at \in Places : Past(at)' <=> Past(at)
      /\ InSearch' \/ (pc' = "release" /\ b' = 3 /\ d' = 1)
      /\ pc' \in {"identify", "release"}
      /\ b' \in 1 .. 3 /\ d' \in 1 .. 2 /\ (pc' = "identify" => b' \in 1 .. 2)
  BY <1>1, PlaceIsLeft DEF IdeInv
<1>4. PICK type \in {"pata", "unknown"} :
        /\ ide_devices' = IF HasRoom THEN Put([dev EXCEPT !.ide_type = type]) ELSE ide_devices
        /\ found' = IF HasRoom THEN [found EXCEPT ![Buses[b]] = @ + 1] ELSE found
  BY DEF ide_save_device_ide_type, Types
<1> DEFINE device == [dev EXCEPT !.ide_type = type]
<1>5. device \in ide_device_t /\ device.bus = dev.bus /\ device.drive = dev.drive
  BY <1>2, TypedDevice
<1>6. ide_devices' = IF HasRoom THEN Append(ide_devices, device) ELSE ide_devices
  BY <1>4 DEF Put
<1> HIDE DEF device
<1>7. /\ PoolInv' /\ FoundInv'
      /\ ide_devices' \in Seq(ide_device_t) /\ Len(ide_devices') <= PoolSize
      /\ found' \in [BusNames -> Nat]
  BY <1>1, <1>2, <1>3, <1>4, <1>5, <1>6, PoolGrows DEF IdeInv
<1>8. IdeTypes'
  BY <1>1, <1>3, <1>7 DEF IdeInv, IdeTypes, InSearch, Asking, Ready
<1>9. HwInv' /\ AskedInv'
  <2>1. Drives[d] \in DriveNames /\ ide_select_drive(Drives[d])
    BY <1>1, HereIsSearched DEF IdeInv, ide_save_device_ide_type
  <2>2. DOMAIN hw' = BusNames /\ \A x \in BusNames : SearchedAs(hw'[x], x) /\ Unasked(hw'[x])
    BY <1>1, <2>1, SelectedBus DEF IdeInv
  <2>3. HwInv'
    BY <1>1, <1>3, <2>2 DEF HwInv, SearchedAs, Unasked
  <2>4. AskedInv'
    BY <1>3 DEF AskedInv, Asking
  <2> QED
    BY <2>3, <2>4
<1>10. AnsweredInv'
  BY <1>1, <1>3, AnsweredKept DEF IdeInv, IdeTypes
<1>11. BlocksInv'
  BY <1>1, <1>3, BlocksKept DEF IdeInv
<1> QED
  BY <1>7, <1>8, <1>9, <1>10, <1>11 DEF IdeInv

LEMMA ide_init_end_step ==
    ASSUME IdeInv, ide_init_end
    PROVE  IdeInv'
<1>1. /\ pc = "release" /\ pc' = "idle" /\ b' = 1 /\ d' = 1
      /\ UNCHANGED <<machine, written, dev, found, ide_devices, answered>>
  BY DEF ide_init_end, hardware, records
<1>2. b = 3 /\ d = 1
  BY <1>1 DEF IdeInv, IdeTypes
<1>3. IdeTypes'
  BY <1>1 DEF IdeInv, IdeTypes, InSearch, Asking, Ready
<1>4. HwInv' /\ AskedInv'
  BY <1>1 DEF HwInv, AskedInv, InSearch, Asking
<1>5. AnsweredInv'
  <2>1. \A at \in Places : Past(at)' <=> Past(at)
    BY <1>1, <1>2, OrderRange DEF Past, InSearch, Asking, Ready
  <2> QED
    BY <1>1, <2>1, AnsweredKept DEF IdeInv, IdeTypes
<1>6. PoolInv' /\ FoundInv'
  BY <1>1, PoolKept DEF IdeInv
<1>7. BlocksInv'
  <2>1. PICK what \in {{"bus"}, {"bus", "prdt"}} : blocks = BusNames \X what
    BY <1>1 DEF IdeInv, BlocksInv, HeldBuses, InSearch, Asking, Ready
  <2>2. HeldBuses' = {bus \in BusNames : found[bus] # 0}
    BY <1>1 DEF HeldBuses, Ready
  <2>3. Unused = {bus \in BusNames : found[bus] = 0}
    BY NameFacts DEF Unused
  <2>4. blocks' = HeldBuses' \X what
    BY <2>1, <2>2, <2>3 DEF ide_init_end
  <2>5. (misfreed \/ dangling # {}) => machine.dma
    BY <1>1 DEF IdeInv, BlocksInv
  <2>6. dangling' # {} => dangling # {}
    BY DEF ide_init_end
  <2>7. dangling' # dangling => dangling # {}
    BY DEF ide_init_end
  <2>8. (misfreed \/ dangling # {})' => machine.dma
    BY <2>5, <2>6, <2>7 DEF ide_init_end
  <2> QED
    BY <1>1, <2>4, <2>8 DEF BlocksInv
<1> QED
  BY <1>3, <1>4, <1>5, <1>6, <1>7 DEF IdeInv

-----------------------------------------------------------------------------
(* The steps of the requests and of the drives.                            *)

\* A request leaves what ide_init found as it is.
LEMMA RequestKeeps ==
    ASSUME IdeInv, Ready, Ready', UNCHANGED <<machine, found, ide_devices, heap, answered>>,
           b' \in 1 .. 2, d' = d, dev' = <<>> \/ dev' \in ide_device_t,
           written' \in Nat, pc' # "set" => written' = 0,
           pc' = "set" => written' < Len(Values(dev.addr_mode, req))'
    PROVE  IdeInv'
<1>1. pc # "type" /\ pc' # "type" /\ pc # "release" /\ pc' # "release" /\ ~ InSearch'
      /\ pc' # "init" /\ pc' # "clear" /\ pc' # "ask" /\ ~ Asking'
  BY DEF Ready, InSearch, Asking
<1>2. IdeTypes'
  BY <1>1 DEF IdeInv, IdeTypes
<1>3. HwInv' /\ AskedInv'
  BY <1>1 DEF HwInv, AskedInv
<1>4. AnsweredInv'
  BY AnsweredKept DEF IdeInv, IdeTypes, Past
<1>5. PoolInv' /\ FoundInv'
  BY <1>1, PoolKept DEF IdeInv
<1>6. BlocksInv'
  <2>1. HeldBuses' = HeldBuses
    BY DEF HeldBuses
  <2>2. blocks' = blocks /\ dangling' = dangling /\ misfreed' = misfreed
    BY DEF heap
  <2> QED
    BY <1>1, <2>1, <2>2 DEF IdeInv, BlocksInv
<1> QED
  BY <1>2, <1>3, <1>4, <1>5, <1>6 DEF IdeInv

LEMMA ide_request_step ==
    ASSUME IdeInv, NEW r \in Requests, ide_request(r)
    PROVE  IdeInv'
<1>1. /\ pc = "idle" /\ pc' \in {"select", "done"}
      /\ UNCHANGED <<machine, d, written, found, ide_devices, heap, answered>>
  BY DEF ide_request, records
<1>2. Ready /\ Ready' /\ b \in 1 .. 2 /\ written' = 0
  BY <1>1 DEF Ready, IdeInv, IdeTypes
<1>3. CASE Accepted(r) /\ r.sectors # 0
  <2>1. r.id \in 1 .. Len(ide_devices) /\ ide_devices \in Seq(ide_device_t)
    BY <1>3 DEF Accepted, IdeInv, IdeTypes
  <2>2. ide_devices[r.id] \in ide_device_t
    BY <2>1
  <2>3. ide_devices[r.id].bus \in BusNames
    BY <2>2, NameFacts DEF ide_device_t
  <2>4. Place(ide_devices[r.id].bus, Buses) \in 1 .. 2
    <3>1. \E k \in DOMAIN Buses : Buses[k] = ide_devices[r.id].bus
      BY <2>3, NameFacts DEF BusNames
    <3> QED
      BY <3>1, NameFacts DEF Place
  <2>5. dev' \in ide_device_t /\ b' \in 1 .. 2
    BY <1>3, <2>2, <2>4 DEF ide_request
  <2> QED
    BY <1>1, <1>2, <2>5, RequestKeeps
<1>4. CASE ~ (Accepted(r) /\ r.sectors # 0)
  <2>1. UNCHANGED <<b, dev>>
    BY <1>4 DEF ide_request
  <2>2. dev' = <<>> \/ dev' \in ide_device_t
    BY <2>1 DEF IdeInv, IdeTypes
  <2> QED
    BY <1>1, <1>2, <2>1, <2>2, RequestKeeps
<1> QED
  BY <1>3, <1>4

\* The steps of ide_read and ide_write.
LEMMA transfer_step ==
    ASSUME IdeInv,
           \/ request_selects \/ init_transaction_head \/ ide_init_transaction \/ ide_command
           \/ ide_read_word \/ ide_read_error \/ ide_write_word \/ ide_write_flush
           \/ ide_request_end
    PROVE  IdeInv'
<1> DEFINE Kept == /\ Ready /\ Ready' /\ UNCHANGED <<machine, found, ide_devices, heap, answered>>
                   /\ b' = b /\ d' = d /\ (dev' = dev \/ dev' = <<>>)
                   /\ written' \in Nat /\ (pc' # "set" => written' = 0)
                   /\ pc' = "set" => written' < Len(Values(dev.addr_mode, req))'
<1>1. ASSUME pc \in {"select", "head", "command", "poll", "flush", "done"}
      PROVE  written = 0
  BY <1>1 DEF IdeInv, IdeTypes
<1>2. ASSUME request_selects
      PROVE  Kept
  BY <1>1, <1>2 DEF request_selects, Ready, records
<1>3. ASSUME init_transaction_head
      PROVE  Kept
  <2>1. Len(Values(dev.addr_mode, req)) > 0
    <3>1. Len(Values(dev.addr_mode, req)) \in {4, 8}
      BY ValuesLength
    <3> QED
      BY <3>1
  <2> QED
    BY <1>1, <1>3, <2>1 DEF init_transaction_head, Ready, records, request
<1>4. ASSUME ide_init_transaction
      PROVE  Kept
  <2>1. /\ written \in Nat /\ written < Len(Values(dev.addr_mode, req))
        /\ Len(Values(dev.addr_mode, req)) \in Nat
    BY <1>4, ValuesLength DEF ide_init_transaction, IdeInv, IdeTypes
  <2>2. written' = IF written + 1 = Len(Values(dev.addr_mode, req)) THEN 0 ELSE written + 1
    BY <1>4 DEF ide_init_transaction, ide_write_reg
  <2>3. pc' = IF written' = 0 THEN "command" ELSE "set"
    BY <1>4 DEF ide_init_transaction
  <2>4. UNCHANGED <<dev, req>>
    BY <1>4 DEF ide_init_transaction, request
  <2>5. /\ written' \in Nat /\ (pc' # "set" => written' = 0)
        /\ pc' = "set" => written' < Len(Values(dev.addr_mode, req))
    BY <2>1, <2>2, <2>3
  <2> QED
    BY <1>4, <2>3, <2>4, <2>5 DEF ide_init_transaction, Ready, records
<1>5. ASSUME ide_command
      PROVE  Kept
  BY <1>1, <1>5 DEF ide_command, Ready, records
<1>6. ASSUME ide_read_word
      PROVE  Kept
  BY <1>1, <1>6 DEF ide_read_word, Ready, records
<1>7. ASSUME ide_read_error
      PROVE  Kept
  BY <1>1, <1>7 DEF ide_read_error, Ready, hardware, records
<1>8. ASSUME ide_write_word
      PROVE  Kept
  BY <1>1, <1>8 DEF ide_write_word, Ready, records
<1>9. ASSUME ide_write_flush
      PROVE  Kept
  BY <1>1, <1>9 DEF ide_write_flush, Ready, records
<1>10. ASSUME ide_request_end
       PROVE  Kept
  BY <1>1, <1>10 DEF ide_request_end, Ready, records
<1>11. Kept
  BY <1>2, <1>3, <1>4, <1>5, <1>6, <1>7, <1>8, <1>9, <1>10
<1>12. b' \in 1 .. 2 /\ (dev' = <<>> \/ dev' \in ide_device_t)
  BY <1>11 DEF IdeInv, IdeTypes, Ready
<1> QED
  BY <1>11, <1>12, RequestKeeps

LEMMA DriveStep_step ==
    ASSUME IdeInv, NEW bus \in BusNames, NEW drive \in DriveNames, DriveStep(bus, drive)
    PROVE  IdeInv'
<1>1. UNCHANGED <<machine, pc, b, d, written, dev, req, found, ide_devices, heap, answered>>
  BY DEF DriveStep, records, request
<1>2. IdeTypes'
  BY <1>1 DEF IdeInv, IdeTypes, InSearch, Asking, Ready
<1>3. HwInv' /\ AskedInv'
  BY DriveStepWrites DEF IdeInv
<1>4. AnsweredInv'
  <2>1. \A at \in Places : Past(at)' <=> Past(at)
    BY <1>1 DEF Past, InSearch, Asking, Ready
  <2> QED
    BY <1>1, <2>1, AnsweredKept DEF IdeInv, IdeTypes
<1>5. PoolInv' /\ FoundInv'
  BY <1>1 DEF IdeInv, PoolInv, FoundInv
<1>6. BlocksInv'
  BY <1>1 DEF IdeInv, BlocksInv, HeldBuses, InSearch, Asking, Ready, heap
<1> QED
  BY <1>2, <1>3, <1>4, <1>5, <1>6 DEF IdeInv

LEMMA IdeStutters ==
    ASSUME IdeInv, UNCHANGED ideVars
    PROVE  IdeInv'
<1>1. UNCHANGED <<machine, hw, pc, b, d, written, dev, req, found, ide_devices, heap, answered>>
  BY DEF ideVars, hardware, records, request
<1>2. IdeTypes'
  BY <1>1 DEF IdeInv, IdeTypes, InSearch, Asking, Ready
<1>3. HwInv' /\ AskedInv'
  BY <1>1 DEF IdeInv, HwInv, AskedInv, InSearch, Asking, SearchedAs, Unasked, Asked, Here, Floats, Kind
<1>4. AnsweredInv'
  <2>1. \A at \in Places : Past(at)' <=> Past(at)
    BY <1>1 DEF Past, InSearch, Asking, Ready
  <2> QED
    BY <1>1, <2>1, AnsweredKept DEF IdeInv, IdeTypes
<1>5. PoolInv' /\ FoundInv'
  BY <1>1 DEF IdeInv, PoolInv, FoundInv
<1>6. BlocksInv'
  BY <1>1 DEF IdeInv, BlocksInv, HeldBuses, InSearch, Asking, Ready, heap
<1> QED
  BY <1>2, <1>3, <1>4, <1>5, <1>6 DEF IdeInv

THEOREM SpecIdeInv == DisksSpec => []IdeInv
<1>1. DisksInit => IdeInv
  BY InitMeetsIdeInv DEF DisksInit
<1>2. IdeInv /\ [devs_config_mass_storage]_disksVars => IdeInv'
  <2> SUFFICES ASSUME IdeInv, [devs_config_mass_storage]_disksVars
               PROVE  IdeInv'
    OBVIOUS
  <2>1. CASE ide_init
    BY <2>1, ide_init_step
  <2>2. CASE identify
    BY <2>2, identify_step
  <2>3. CASE identify_no_drive
    BY <2>3, identify_no_drive_step
  <2>4. CASE identify_waits
    BY <2>4, identify_waits_step
  <2>5. CASE identify_words
    BY <2>5, identify_words_step
  <2>6. CASE identify_clear
    BY <2>6, identify_clear_step
  <2>7. CASE identify_command
    BY <2>7, identify_command_step
  <2>8. CASE ide_save_device_ide_type
    BY <2>8, ide_save_device_ide_type_step
  <2>9. CASE ide_init_end
    BY <2>9, ide_init_end_step
  <2>10. CASE \/ request_selects \/ init_transaction_head \/ ide_init_transaction \/ ide_command
              \/ ide_read_word \/ ide_read_error \/ ide_write_word \/ ide_write_flush
              \/ ide_request_end
    BY <2>10, transfer_step
  <2>11. CASE DrivesStep
    BY <2>11, DriveStep_step, NameFacts DEF DrivesStep
  <2>12. CASE \E r \in Requests : ide_request(r)
    BY <2>12, ide_request_step
  <2>13. CASE UNCHANGED ideVars
    BY <2>13, IdeStutters
  <2>14. Next \/ UNCHANGED ideVars
    BY DEF devs_config_mass_storage, disksVars
  <2> QED
    BY <2>1, <2>2, <2>3, <2>4, <2>5, <2>6, <2>7, <2>8, <2>9, <2>10, <2>11, <2>12, <2>13, <2>14
       DEF Next, Driver
<1> QED
  BY <1>1, <1>2, PTL DEF DisksSpec

(***************************************************************************)
(* What ide_init registers, whatever the drives are and however long each  *)
(* takes: the places where a drive answered, each once and in the order of *)
(* the buses, as far as the pool goes; the master of a bus if it is an ATA *)
(* drive, and with it the slave, there or not, but for a packet drive that *)
(* may have answered itself.  A slave beside no ATA master is registered   *)
(* only if it was still at work when DRIVE_HEAD was overwritten.           *)
(***************************************************************************)
THEOREM SearchFindsTheDrives == DisksSpec => []DrivesRegistered
<1>1. IdeInv => DrivesRegistered
  <2> SUFFICES ASSUME IdeInv
               PROVE  DrivesRegistered
    OBVIOUS
  <2>1. /\ ide_devices \in Seq(ide_device_t) /\ Len(ide_devices) <= PoolSize
        /\ answered \in Seq(Places) /\ machine \in Machines
    BY DEF IdeInv, IdeTypes
  <2>2. TypeOK
    <3>1. ToSet(ide_devices) \subseteq ide_device_t
      BY <2>1 DEF ToSet
    <3>2. \A what : Objects(what) = BusNames \X {what}
      BY NameFacts DEF Objects, Block, BusNames
    <3>3. PICK what \in {{"bus"}, {"bus", "prdt"}} : blocks = HeldBuses \X what
      BY DEF IdeInv, BlocksInv
    <3>4. HeldBuses \subseteq BusNames
      BY DEF HeldBuses
    <3>5. blocks \subseteq Objects("bus") \cup Objects("prdt")
      BY <3>2, <3>3, <3>4
    <3>6. pc \in {"init", "stop", "identify", "status", "wait", "type", "clear", "ask", "release",
                  "idle", "select", "head", "set", "command", "poll", "flush", "done"}
      BY DEF IdeInv, IdeTypes, InSearch, Asking, Ready
    <3>7. written \in 0 .. 7 /\ (pc \notin {"clear", "set"} => written = 0)
      <4>1. /\ written \in Nat /\ (pc \notin {"clear", "set"} => written = 0)
            /\ pc = "clear" => written < 4
            /\ pc = "set" => written < Len(Values(dev.addr_mode, req))
        BY DEF IdeInv, IdeTypes
      <4>2. Len(Values(dev.addr_mode, req)) \in {4, 8}
        BY ValuesLength
      <4>3. \A n \in {4, 8} : written < n => written \in 0 .. 7
        BY <4>1
      <4>4. pc = "clear" => written \in 0 .. 7
        BY <4>1
      <4>5. pc = "set" => written \in 0 .. 7
        BY <4>1, <4>2, <4>3
      <4> QED
        BY <4>1, <4>4, <4>5
    <3> QED
      BY <2>1, <3>1, <3>5, <3>6, <3>7 DEF TypeOK, IdeInv, IdeTypes
  <2>3. ASSUME Ready
        PROVE  /\ [k \in DOMAIN ide_devices |-> <<ide_devices[k].bus, ide_devices[k].drive>>]
                      = SubSeq(answered, 1, Len(ide_devices))
               /\ Len(ide_devices) < PoolSize => Len(ide_devices) = Len(answered)
               /\ \A bus \in ToSet(Buses) :
                    /\ <<bus, "master">> \in ToSet(answered) <=> Ata(bus, "master")
                    /\ <<bus, "slave">> \in ToSet(answered) => Ata(bus, "master") \/ Ata(bus, "slave")
                    /\ Ata(bus, "master") => <<bus, "slave">> \in ToSet(answered)
                                               \/ machine.drives[<<bus, "slave">>] = "atapi"
               /\ \A j, k \in DOMAIN answered :
                    j < k => Order(answered[j]) < Order(answered[k])
    <3>1. pc # "type"
      BY <2>3 DEF Ready
    <3>2. /\ Len(ide_devices) <= Len(answered)
          /\ \A k \in 1 .. Len(ide_devices) :
               answered[k] = <<ide_devices[k].bus, ide_devices[k].drive>>
          /\ Len(ide_devices) = PoolSize \/ Len(ide_devices) = Len(answered)
      BY <3>1 DEF IdeInv, PoolInv
    <3>3. DOMAIN ide_devices = 1 .. Len(ide_devices) /\ Len(ide_devices) \in Nat
          /\ Len(answered) \in Nat
      BY <2>1
    <3>4. SubSeq(answered, 1, Len(ide_devices)) = [k \in 1 .. Len(ide_devices) |-> answered[k]]
      <4>1. PICK n \in Nat : n = Len(ide_devices)
        BY <3>3
      <4>2. answered \in Seq(Places) /\ n <= Len(answered)
        BY <2>1, <3>2, <4>1
      <4>3. SubSeq(answered, 1, n) = [k \in 1 .. n |-> answered[k]]
        BY <4>2
      <4> QED
        BY <4>1, <4>3
    <3>5. ASSUME NEW bus \in ToSet(Buses)
          PROVE  /\ <<bus, "master">> \in ToSet(answered) <=> Ata(bus, "master")
                 /\ <<bus, "slave">> \in ToSet(answered) => Ata(bus, "master") \/ Ata(bus, "slave")
                 /\ Ata(bus, "master") => <<bus, "slave">> \in ToSet(answered)
                                            \/ machine.drives[<<bus, "slave">>] = "atapi"
      <4>1. /\ <<bus, "master">> \in Places /\ <<bus, "slave">> \in Places
            /\ <<bus, "master">>[1] = bus /\ <<bus, "master">>[2] = "master"
            /\ <<bus, "slave">>[1] = bus /\ <<bus, "slave">>[2] = "slave"
        BY NameFacts DEF Places, DriveNames
      <4>2. \A at \in Places : Past(at)
        BY <2>3 DEF Past
      <4>3. \A at \in ToSet(answered) : CanAnswer(at)
        BY DEF IdeInv, AnsweredInv
      <4>4. \A at \in Places : MustAnswer(at) => at \in ToSet(answered)
        BY <4>2 DEF IdeInv, AnsweredInv
      <4>5. /\ CanAnswer(<<bus, "master">>) => Ata(bus, "master")
            /\ CanAnswer(<<bus, "slave">>) => Ata(bus, "master") \/ Ata(bus, "slave")
        BY <4>1 DEF CanAnswer
      <4>6. /\ Ata(bus, "master") => MustAnswer(<<bus, "master">>)
            /\ Ata(bus, "master") /\ machine.drives[<<bus, "slave">>] # "atapi"
                 => MustAnswer(<<bus, "slave">>)
        BY <4>1 DEF MustAnswer
      <4> QED
        BY <4>1, <4>3, <4>4, <4>5, <4>6
    <3>6. \A j, k \in DOMAIN answered : j < k => Order(answered[j]) < Order(answered[k])
      BY DEF IdeInv, AnsweredInv
    <3>7. [k \in DOMAIN ide_devices |-> <<ide_devices[k].bus, ide_devices[k].drive>>]
             = [k \in 1 .. Len(ide_devices) |-> answered[k]]
      BY <3>2, <3>3
    <3>8. Len(ide_devices) < PoolSize => Len(ide_devices) = Len(answered)
      <4>1. \A n, p \in Nat : n < p => n # p
        OBVIOUS
      <4>2. PoolSize \in Nat
        OBVIOUS
      <4> QED
        BY <3>2, <3>3, <4>1, <4>2, Zenon
    <3> QED
      BY <3>4, <3>5, <3>6, <3>7, <3>8
  <2> QED
    BY <2>2, <2>3 DEF DrivesRegistered
<1> QED
  BY <1>1, SpecIdeInv, PTL

(***************************************************************************)
(* When ide_init has ended, the blocks held are those of the buses that a  *)
(* registered drive leads to.                                              *)
(***************************************************************************)
THEOREM BlocksFollowTheDrives == DisksSpec => []BusesHeld
<1>1. IdeInv => BusesHeld
  <2> SUFFICES ASSUME IdeInv, Ready
               PROVE  /\ {block[1] : block \in blocks}
                             = {ide_devices[k].bus : k \in DOMAIN ide_devices}
                      /\ \A block \in blocks : Block(block[1], "bus") \in blocks
                      /\ misfreed => machine.dma
    BY DEF BusesHeld
  <2>1. PICK what \in {{"bus"}, {"bus", "prdt"}} : blocks = HeldBuses \X what
    BY DEF IdeInv, BlocksInv
  <2>2. HeldBuses = {bus \in BusNames : found[bus] # 0}
    BY DEF HeldBuses
  <2>3. DOMAIN ide_devices = 1 .. Len(ide_devices)
        /\ \A k \in 1 .. Len(ide_devices) : ide_devices[k].bus \in BusNames
    <3>1. ide_devices \in Seq(ide_device_t)
      BY DEF IdeInv, IdeTypes
    <3>2. \A device \in ide_device_t : device.bus \in BusNames
      BY NameFacts DEF ide_device_t
    <3> QED
      BY <3>1, <3>2
  <2>4. HeldBuses = {ide_devices[k].bus : k \in DOMAIN ide_devices}
    BY <2>2, <2>3 DEF IdeInv, FoundInv
  <2>5. {block[1] : block \in blocks} = HeldBuses
    <3>1. ASSUME NEW bus \in HeldBuses
          PROVE  bus \in {block[1] : block \in blocks}
      <4>1. <<bus, "bus">> \in blocks /\ <<bus, "bus">>[1] = bus
        BY <2>1
      <4> QED
        BY <4>1
    <3>2. \A block \in blocks : block[1] \in HeldBuses
      BY <2>1
    <3> QED
      BY <3>1, <3>2
  <2>6. \A block \in blocks : Block(block[1], "bus") \in blocks
    BY <2>1 DEF Block
  <2>7. misfreed => machine.dma
    BY DEF IdeInv, BlocksInv
  <2> QED
    BY <2>4, <2>5, <2>6, <2>7
<1> QED
  BY <1>1, SpecIdeInv, PTL
-----------------------------------------------------------------------------
(***************************************************************************)
(* The third part is about the requests made of the IDE drives.  On a bus  *)
(* only the drive selected is ever at work, and a bus that nobody waits    *)
(* for moves no data; so no register is lost, and the low bytes of the     *)
(* address and the count are in place, and DRIVE_HEAD is 0, when the       *)
(* command is given.  From then on the words moved are those of whole      *)
(* sectors and the first ones of the sector the drive has got to.          *)
(***************************************************************************)
RegisterNames == {"count", "lo", "mid", "hi"}
Statuses == {"ready", "busy", "drq", "err", "reset"}
Heads == [drive : DriveNames, lba : BOOLEAN, nibble : Nat, ones : BOOLEAN]
WordPlaces == {<<>>} \cup DriveNames \X BOOLEAN \X Nat \X Nat \X Nat
Using == {"select", "head", "set", "command", "poll", "flush"}

BusTyped(h) ==
    /\ IsBus(h)
    /\ h.head \in Heads
    /\ h.reg \in [RegisterNames -> Nat \X Nat]
    /\ h.status \in [DriveNames -> Statuses]

\* The bus that was given a command, while its end is waited for.
Active(bus) == pc \in {"status", "wait", "poll", "flush"} /\ bus = Buses[b]

\* Only the drive selected is at work.
OneAtWork(h, bus) ==
    \A drive \in DriveNames :
        h.status[drive] \in AtWork =>
            drive = h.head.drive /\ machine.drives[<<bus, drive>>] # "none"

\* A bus that is not waited for moves no data and can fail nothing.
Still(h) ==
    /\ h.status[h.head.drive] # "drq"
    /\ h.status[h.head.drive] = "busy" => h.op \in {"flush", "stored", "nop"}

Calm(h, bus) == OneAtWork(h, bus) /\ (Active(bus) \/ Still(h))

HardwareInv ==
    /\ DOMAIN hw = BusNames
    /\ \A bus \in BusNames : BusTyped(hw[bus]) /\ Calm(hw[bus], bus)

RequestInv ==
    /\ moved \in Seq(WordPlaces) /\ failed \in BOOLEAN
    /\ pc \in Using =>
         /\ req \in Requests /\ req.sectors > 0 /\ ~ result
         /\ dev \in ide_device_t /\ b \in 1 .. 2
    /\ pc \in {"select", "head", "set", "command"} => moved = <<>>
    /\ pc \in Using \ {"select"} => dev.addr_mode \in Modes
    /\ pc = "poll" => Len(moved) < req.sectors * Words
    /\ pc = "flush" => Len(moved) <= req.sectors * Words /\ req.op = "write"

\* Those of lba48 are written twice.
Wide == dev.addr_mode = "lba48"
FirstLow == IF Wide THEN 4 ELSE 0

\* The registers, when n values are written.
SoFar(h, n) ==
    /\ Wide /\ n >= 1 =>
         h.reg["count"][IF n <= 4 THEN 1 ELSE 2] = Digit(req.sectors, 1)
    /\ \A k \in 1 .. 4 : FirstLow + k <= n =>
         h.reg[Registers[k]][1] = Low(dev.addr_mode, req)[k] % Byte

\* The place of the first sector moved.
Start == req.address % Weight[4]

\* A transfer is under way, and it has got to the sector s of the request.
Underway(h) ==
    LET status == h.status[h.head.drive]
    IN  status = "drq" \/ (status = "busy" /\ h.op \notin {"flush", "stored"})

Progress(h, s) ==
    /\ h.op \in Transfers
    /\ h.left \in 1 .. Words /\ h.more \in Nat
    /\ h.status[h.head.drive] = "busy" => h.left = Words
    /\ Len(moved) = s * Words + (Words - h.left)
    /\ s + 1 + h.more <= req.sectors
    /\ h.at = <<"master", FALSE, Start, s>>

WordAt(k) == <<"master", FALSE, Start, (k - 1) \div Words, (k - 1) % Words>>

\* A write that failed may have lost words.
Trusted == ~ (failed /\ req.op = "write")

Transferring ==
    /\ Underway(Here) => \E s \in Nat : Progress(Here, s)
    /\ ide_check_error => failed
    /\ Trusted => \A k \in 1 .. Len(moved) : moved[k] = WordAt(k)

TransferInv ==
    /\ pc = "set" => SoFar(Here, written)
    /\ pc = "command" => SoFar(Here, Len(Values(dev.addr_mode, req))) /\ Here.head = ZeroHead
    /\ pc \in {"poll", "flush"} => Transferring

Sound == HardwareInv /\ RequestInv /\ TransferInv /\ WordsMoved
WordsInv == deaf \/ Sound

-----------------------------------------------------------------------------
(* Numbers and their digits.                                               *)

\* The quotient and the rest.
LEMMA Division ==
    ASSUME NEW n \in Nat, NEW m \in Nat, m > 0
    PROVE  \E q, r \in Nat : /\ q = n \div m /\ r = n % m
                             /\ n = m * q + r /\ r < m /\ r <= n
<1>1. PICK q \in Nat, r \in Nat : q = n \div m /\ r = n % m
  OBVIOUS
<1>2. m * q + r = n
  BY <1>1
<1>3. r < m /\ r <= n
  BY <1>1
<1> QED
  BY <1>1, <1>2, <1>3

\* There is one way to divide.
LEMMA DivisionIsUnique ==
    ASSUME NEW n \in Nat, NEW m \in Nat, NEW q \in Nat, NEW r \in Nat,
           r < m, n = m * q + r
    PROVE  n \div m = q /\ n % m = r
  OBVIOUS

\* Division by a product.
LEMMA DivisionTwice ==
    ASSUME NEW n \in Nat, NEW v \in Nat, v > 0, NEW m \in Nat, m > 0
    PROVE  n \div (v * m) = (n \div v) \div m
<1>1. PICK a \in Nat, s \in Nat : a = n \div v /\ n = v * a + s /\ s < v
  BY Division
<1>2. PICK c \in Nat, t \in Nat : c = a \div m /\ a = m * c + t /\ t < m
  BY Division
<1>3. PICK w \in Nat : w = v * m
  OBVIOUS
<1>4. PICK r \in Nat : r = v * t + s
  OBVIOUS
<1>5. r < w
  <2>1. PICK k \in Nat : m = t + 1 + k
    BY <1>2
  <2>2. v * m = v * t + v + v * k /\ v * k \in Nat
    BY <2>1
  <2> QED
    BY <1>1, <1>3, <1>4, <2>2
<1>6. n = w * c + r
  <2>1. v * a = v * (m * c + t)
    BY <1>2
  <2>2. v * (m * c + t) = (v * m) * c + v * t
    OBVIOUS
  <2> QED
    BY <1>1, <1>3, <1>4, <2>1, <2>2
<1>7. n \div w = c
  BY <1>5, <1>6, DivisionIsUnique
<1> QED
  BY <1>1, <1>2, <1>3, <1>7

\* What is left of a number without its last k digits.
Rest(n, k) == IF k = 6 THEN (n \div Weight[6]) \div Byte ELSE n \div Weight[k + 1]

\* A digit and what is left above it.
LEMMA Digits ==
    ASSUME NEW n \in Nat
    PROVE  /\ Rest(n, 0) = n /\ \A k \in 0 .. 6 : Rest(n, k) \in Nat
           /\ \A k \in 0 .. 5 : /\ Rest(n, k) = Byte * Rest(n, k + 1) + Digit(n, k)
                               /\ Digit(n, k) \in Nat /\ Digit(n, k) < Byte
<1>1. PICK B \in Nat : B = Byte /\ B > 0
  BY IdeAssumption
<1>2. PICK a1 \in Nat, d0 \in Nat : a1 = n \div B /\ d0 = n % B /\ n = B * a1 + d0 /\ d0 < B
  BY <1>1, Division
<1>3. PICK a2 \in Nat, d1 \in Nat : a2 = a1 \div B /\ d1 = a1 % B /\ a1 = B * a2 + d1 /\ d1 < B
  BY <1>1, Division
<1>4. PICK a3 \in Nat, d2 \in Nat : a3 = a2 \div B /\ d2 = a2 % B /\ a2 = B * a3 + d2 /\ d2 < B
  BY <1>1, Division
<1>5. PICK a4 \in Nat, d3 \in Nat : a4 = a3 \div B /\ d3 = a3 % B /\ a3 = B * a4 + d3 /\ d3 < B
  BY <1>1, Division
<1>6. PICK a5 \in Nat, d4 \in Nat : a5 = a4 \div B /\ d4 = a4 % B /\ a4 = B * a5 + d4 /\ d4 < B
  BY <1>1, Division
<1>7. PICK a6 \in Nat, d5 \in Nat : a6 = a5 \div B /\ d5 = a5 % B /\ a5 = B * a6 + d5 /\ d5 < B
  BY <1>1, Division
<1>8. PICK w2 \in Nat : w2 = B * B /\ w2 > 0
  BY <1>1
<1>9. PICK w3 \in Nat : w3 = w2 * B /\ w3 > 0
  BY <1>1, <1>8
<1>10. PICK w4 \in Nat : w4 = w3 * B /\ w4 > 0
  BY <1>1, <1>9
<1>11. PICK w5 \in Nat : w5 = w4 * B /\ w5 > 0
  BY <1>1, <1>10
<1>12. n \div 1 = n
  <2>1. n = 1 * n + 0
    OBVIOUS
  <2> QED
    BY <2>1, DivisionIsUnique
<1>13. n \div w2 = a2
  BY <1>1, <1>2, <1>3, <1>8, DivisionTwice
<1>14. n \div w3 = a3
  BY <1>1, <1>4, <1>8, <1>9, <1>13, DivisionTwice
<1>15. n \div w4 = a4
  BY <1>1, <1>5, <1>9, <1>10, <1>14, DivisionTwice
<1>16. n \div w5 = a5
  BY <1>1, <1>6, <1>10, <1>11, <1>15, DivisionTwice
<1>17. Weight = <<1, B, w2, w3, w4, w5>>
  BY <1>1, <1>8, <1>9, <1>10, <1>11 DEF Weight
<1>18. /\ Weight[0 + 1] = 1 /\ Weight[1 + 1] = B /\ Weight[2 + 1] = w2
       /\ Weight[3 + 1] = w3 /\ Weight[4 + 1] = w4 /\ Weight[5 + 1] = w5
  BY <1>17
<1>19. Digit(n, 0) = d0 /\ Digit(n, 1) = d1 /\ Digit(n, 2) = d2
  BY <1>1, <1>2, <1>3, <1>4, <1>12, <1>13, <1>18, Zenon DEF Digit
<1>20. Digit(n, 3) = d3 /\ Digit(n, 4) = d4 /\ Digit(n, 5) = d5
  BY <1>1, <1>5, <1>6, <1>7, <1>14, <1>15, <1>16, <1>18, Zenon DEF Digit
<1>21. /\ Rest(n, 0) = n /\ Rest(n, 1) = a1 /\ Rest(n, 2) = a2 /\ Rest(n, 3) = a3
       /\ Rest(n, 4) = a4 /\ Rest(n, 5) = a5 /\ Rest(n, 6) = a6
  <2>1. /\ Rest(n, 0) = n \div Weight[0 + 1] /\ Rest(n, 1) = n \div Weight[1 + 1]
        /\ Rest(n, 2) = n \div Weight[2 + 1] /\ Rest(n, 3) = n \div Weight[3 + 1]
        /\ Rest(n, 4) = n \div Weight[4 + 1] /\ Rest(n, 5) = n \div Weight[5 + 1]
    BY DEF Rest
  <2>2. Rest(n, 6) = (n \div Weight[5 + 1]) \div Byte
    BY DEF Rest
  <2> QED
    BY <1>1, <1>2, <1>7, <1>12, <1>13, <1>14, <1>15, <1>16, <1>18, <2>1, <2>2, Zenon
<1>22. \A k \in 0 .. 6 : Rest(n, k) \in Nat
  BY <1>21
<1>23. /\ d0 \in Nat /\ d1 \in Nat /\ d2 \in Nat /\ d3 \in Nat /\ d4 \in Nat /\ d5 \in Nat
       /\ d0 < B /\ d1 < B /\ d2 < B /\ d3 < B /\ d4 < B /\ d5 < B
  BY <1>2, <1>3, <1>4, <1>5, <1>6, <1>7
<1>24. ASSUME NEW k \in 0 .. 5
       PROVE  /\ Rest(n, k) = Byte * Rest(n, k + 1) + Digit(n, k)
              /\ Digit(n, k) \in Nat /\ Digit(n, k) < Byte
  <2>1. /\ Rest(n, 0) = B * Rest(n, 1) + Digit(n, 0)
        /\ Rest(n, 1) = B * Rest(n, 2) + Digit(n, 1)
        /\ Rest(n, 2) = B * Rest(n, 3) + Digit(n, 2)
    BY <1>2, <1>3, <1>4, <1>19, <1>21, Zenon
  <2>2. /\ Rest(n, 3) = B * Rest(n, 4) + Digit(n, 3)
        /\ Rest(n, 4) = B * Rest(n, 5) + Digit(n, 4)
        /\ Rest(n, 5) = B * Rest(n, 6) + Digit(n, 5)
    BY <1>5, <1>6, <1>7, <1>20, <1>21, Zenon
  <2>3. Digit(n, k) \in Nat /\ Digit(n, k) < Byte
    BY <1>1, <1>19, <1>20, <1>23
  <2>4. Rest(n, k) = B * Rest(n, k + 1) + Digit(n, k)
    BY <2>1, <2>2
  <2> QED
    BY <1>1, <2>3, <2>4
<1> QED
  BY <1>21, <1>22, <1>24

\* The digits used by ide_init_transaction.
LEMMA DigitsAreNumbers ==
    ASSUME NEW n \in Nat
    PROVE  /\ Digit(n, 0) \in Nat /\ Digit(n, 1) \in Nat /\ Digit(n, 2) \in Nat
           /\ Digit(n, 3) \in Nat /\ Digit(n, 4) \in Nat /\ Digit(n, 5) \in Nat
<1>1. \A k \in 0 .. 5 : Digit(n, k) \in Nat
  BY Digits
<1>2. /\ 0 \in 0 .. 5 /\ 1 \in 0 .. 5 /\ 2 \in 0 .. 5
      /\ 3 \in 0 .. 5 /\ 4 \in 0 .. 5 /\ 5 \in 0 .. 5
  OBVIOUS
<1> QED
  BY <1>1, <1>2, Zenon

\* Three digits and the rest, three times a base.
LEMMA ThreeDigits ==
    ASSUME NEW B \in Nat, NEW n \in Nat, NEW a1 \in Nat, NEW a2 \in Nat, NEW a3 \in Nat,
           NEW d0 \in Nat, NEW d1 \in Nat, NEW d2 \in Nat,
           n = B * a1 + d0, a1 = B * a2 + d1, a2 = B * a3 + d2
    PROVE  n = d0 + B * d1 + (B * B) * d2 + (B * B * B) * a3
<1>1. B * a2 = B * (B * a3 + d2) /\ B * (B * a3 + d2) = (B * B) * a3 + B * d2
  OBVIOUS
<1>2. a1 = (B * B) * a3 + B * d2 + d1
  BY <1>1
<1>3. B * a1 = B * ((B * B) * a3 + B * d2 + d1)
  BY <1>2
<1>4. B * ((B * B) * a3 + B * d2 + d1) = (B * B * B) * a3 + (B * B) * d2 + B * d1
  OBVIOUS
<1> QED
  BY <1>3, <1>4

\* Three digits of a base are less than its cube.
LEMMA ThreeBytesFit ==
    ASSUME NEW B \in Nat, NEW x \in Nat, NEW y \in Nat, NEW z \in Nat,
           x < B, y < B, z < B
    PROVE  x + B * y + (B * B) * z < B * B * B
<1>1. PICK k \in Nat : B = z + 1 + k
  OBVIOUS
<1>2. PICK j \in Nat : B = y + 1 + j
  OBVIOUS
<1>3. PICK w \in Nat : w = B * B
  OBVIOUS
<1>4. w = B * y + B + B * j /\ B * j \in Nat /\ B * y \in Nat
  BY <1>2, <1>3
<1>5. x + B * y < w
  BY <1>4
<1>6. w * B = w * z + w + w * k /\ w * k \in Nat
  BY <1>1
<1>7. B * B * B = w * B /\ (B * B) * z = w * z
  BY <1>3
<1> QED
  BY <1>4, <1>5, <1>6, <1>7

\* The count register holds no more than the sectors asked for.
LEMMA CountOfOne ==
    ASSUME NEW c \in Nat, c > 0, NEW y \in Nat, NEW n, n = (Digit(c, 0) + Byte * y) % Byte
    PROVE  (IF n = 0 THEN Byte ELSE n) \in 1 .. c
<1> DEFINE d0 == Digit(c, 0)
           a1 == Rest(c, 1)
<1>1. PICK B \in Nat : B = Byte
  BY IdeAssumption
<1>2. d0 \in Nat /\ d0 < B /\ a1 \in Nat /\ c = B * a1 + d0
  BY <1>1, Digits
<1> HIDE DEF d0, a1
<1>3. n = d0
  <2>1. PICK m \in Nat : m = B * y + d0
    BY <1>2
  <2>2. m % B = d0
    BY <1>2, <2>1, DivisionIsUnique
  <2> QED
    BY <1>1, <1>2, <2>1, <2>2 DEF d0
<1>4. d0 <= c
  <2>1. B * a1 \in Nat
    BY <1>2
  <2> QED
    BY <1>2, <2>1
<1>5. d0 = 0 => B <= c
  <2>1. SUFFICES ASSUME d0 = 0
                 PROVE  B <= c
    OBVIOUS
  <2>2. c = B * a1
    BY <1>2, <2>1
  <2>3. PICK k \in Nat : a1 = k + 1
    BY <1>2, <2>2
  <2>4. B * a1 = B * k + B /\ B * k \in Nat
    BY <2>3
  <2> QED
    BY <2>2, <2>4
<1>6. B > 0
  BY <1>2
<1> QED
  BY <1>1, <1>2, <1>3, <1>4, <1>5, <1>6

\* The same of the two count registers.
LEMMA CountOfTwo ==
    ASSUME NEW c \in Nat, c > 0, NEW n,
           n = (Digit(c, 0) + Byte * Digit(c, 1)) % (Byte * Byte)
    PROVE  (IF n = 0 THEN Byte * Byte ELSE n) \in 1 .. c
<1> DEFINE d0 == Digit(c, 0)
           d1 == Digit(c, 1)
           a1 == Rest(c, 1)
           a2 == Rest(c, 2)
<1>1. PICK B \in Nat : B = Byte
  BY IdeAssumption
<1>2. d0 \in Nat /\ d1 \in Nat /\ a1 \in Nat /\ a2 \in Nat
  BY Digits
<1>3. d0 < B /\ d1 < B /\ c = B * a1 + d0 /\ a1 = B * a2 + d1
  BY <1>1, Digits
<1> HIDE DEF d0, d1, a1, a2
<1>4. PICK v \in Nat : v = d0 + B * d1
  BY <1>2
<1>5. PICK w \in Nat : w = B * B
  OBVIOUS
<1>6. c = w * a2 + v
  <2>1. B * a1 = B * (B * a2 + d1)
    BY <1>3
  <2>2. B * (B * a2 + d1) = (B * B) * a2 + B * d1
    BY <1>2
  <2> QED
    BY <1>2, <1>3, <1>4, <1>5, <2>1, <2>2
<1>7. v < w
  <2>1. PICK k \in Nat : B = d1 + 1 + k
    BY <1>2, <1>3
  <2>2. B * B = B * d1 + B + B * k /\ B * k \in Nat
    BY <1>2, <2>1
  <2> QED
    BY <1>2, <1>3, <1>4, <1>5, <2>2
<1>8. n = v
  <2>1. v = w * 0 + v
    BY <1>4, <1>5
  <2>2. v % w = v
    BY <1>7, <2>1, DivisionIsUnique
  <2> QED
    BY <1>1, <1>4, <1>5, <2>2 DEF d0, d1
<1>9. v <= c
  <2>1. w * a2 \in Nat
    BY <1>2, <1>5
  <2> QED
    BY <1>6, <2>1
<1>10. v = 0 => w <= c
  <2>1. SUFFICES ASSUME v = 0
                 PROVE  w <= c
    OBVIOUS
  <2>2. c = w * a2
    BY <1>2, <1>6, <2>1
  <2>3. PICK k \in Nat : a2 = k + 1
    BY <1>2, <2>2
  <2>4. w * a2 = w * k + w /\ w * k \in Nat
    BY <2>3
  <2> QED
    BY <2>2, <2>4
<1>11. w > 0
  BY <1>7
<1> QED
  BY <1>1, <1>4, <1>5, <1>8, <1>9, <1>10, <1>11

-----------------------------------------------------------------------------
(* The registers.                                                          *)

\* The parts of a request.
LEMMA RequestTyped ==
    ASSUME NEW r \in Requests
    PROVE  /\ r.op \in {"read", "write"} /\ r.id \in Nat /\ r.id > 0
           /\ r.address \in Nat /\ r.sectors \in Nat
  BY IdeAssumption

LEMMA RegisterFacts ==
    /\ Registers[1] = "count" /\ Registers[2] = "lo" /\ Registers[3] = "mid"
    /\ Registers[4] = "hi" /\ ToSet(Registers) = RegisterNames
    /\ \A j, k \in 1 .. 4 : Registers[j] \in RegisterNames /\ (Registers[j] = Registers[k] => j = k)
<1>1. /\ Registers[1] = "count" /\ Registers[2] = "lo" /\ Registers[3] = "mid"
      /\ Registers[4] = "hi" /\ DOMAIN Registers = 1 .. 4
  BY DEF Registers
<1>2. ToSet(Registers) = RegisterNames
  BY <1>1 DEF ToSet, RegisterNames
<1> QED
  BY <1>1, <1>2 DEF RegisterNames

\* Elements of sequences, one by one.
LEMMA FourNumbers ==
    ASSUME NEW s \in Seq(Nat), Len(s) = 4
    PROVE  \A k \in 1 .. 4 : s[k] \in Nat
  OBVIOUS

LEMMA FourAndFour ==
    ASSUME NEW a \in Nat, NEW b1 \in Nat, NEW c \in Nat, NEW e \in Nat,
           NEW p \in Nat, NEW q \in Nat, NEW r \in Nat, NEW s \in Nat
    PROVE  LET w == <<a, b1, c, e>> \o <<p, q, r, s>>
           IN  /\ Len(w) = 8
               /\ w[1] = a /\ w[2] = b1 /\ w[3] = c /\ w[4] = e
               /\ w[5] = p /\ w[6] = q /\ w[7] = r /\ w[8] = s
  OBVIOUS

LEMMA Fours ==
    ASSUME NEW n \in 0 .. 7
    PROVE  n % 4 = IF n < 4 THEN n ELSE n - 4
<1>1. /\ (n = 0 => n % 4 = 0) /\ (n = 1 => n % 4 = 1) /\ (n = 2 => n % 4 = 2)
      /\ (n = 3 => n % 4 = 3) /\ (n = 4 => n % 4 = 0) /\ (n = 5 => n % 4 = 1)
      /\ (n = 6 => n % 4 = 2) /\ (n = 7 => n % 4 = 3)
  OBVIOUS
<1>2. n = 0 \/ n = 1 \/ n = 2 \/ n = 3 \/ n = 4 \/ n = 5 \/ n = 6 \/ n = 7
  OBVIOUS
<1> QED
  BY <1>1, <1>2

LEMMA LastOfFour ==
    ASSUME NEW n \in Nat, n + 1 = 4 \/ n + 1 = 8
    PROVE  (n % 4) + 1 = 4
  BY Fours

LEMMA PlaceOfFour ==
    ASSUME NEW n \in Nat, NEW k \in 1 .. 4, n + 1 = k \/ n + 1 = 4 + k
    PROVE  (n % 4) + 1 = k
<1>1. PICK r \in 0 .. 3 : r + 1 = k /\ (n = r \/ n = 4 + r)
  OBVIOUS
<1>2. n \in 0 .. 7
  BY <1>1
<1> QED
  BY <1>1, <1>2, Fours

\* The values that are written.
LEMMA ValuesFacts ==
    ASSUME NEW mode \in Modes, NEW r \in Requests
    PROVE  /\ Low(mode, r)[1] = IF mode = "chs" THEN r.sectors ELSE Digit(r.sectors, 0)
           /\ \A k \in 2 .. 4 : Low(mode, r)[k] = Digit(r.address, k - 2)
           /\ \A k \in 1 .. 4 : Low(mode, r)[k] \in Nat
           /\ mode # "lba48" => /\ Len(Values(mode, r)) = 4
                                /\ \A k \in 1 .. 4 : Values(mode, r)[k] = Low(mode, r)[k]
           /\ mode = "lba48" => /\ Len(Values(mode, r)) = 8
                                /\ Values(mode, r)[1] = Digit(r.sectors, 1)
                                /\ \A k \in 1 .. 4 : Values(mode, r)[k] \in Nat
                                /\ \A k \in 1 .. 4 : Values(mode, r)[k + 4] = Low(mode, r)[k]
<1>1. PICK low : low = Low(mode, r)
  OBVIOUS
<1>2. PICK high : high = High(r)
  OBVIOUS
<1>3. /\ Digit(r.sectors, 0) \in Nat /\ Digit(r.sectors, 1) \in Nat /\ r.sectors \in Nat
      /\ Digit(r.address, 0) \in Nat /\ Digit(r.address, 1) \in Nat /\ Digit(r.address, 2) \in Nat
      /\ Digit(r.address, 3) \in Nat /\ Digit(r.address, 4) \in Nat /\ Digit(r.address, 5) \in Nat
  BY RequestTyped, DigitsAreNumbers
<1>4. /\ low[1] = IF mode = "chs" THEN r.sectors ELSE Digit(r.sectors, 0)
      /\ low[2] = Digit(r.address, 0) /\ low[3] = Digit(r.address, 1) /\ low[4] = Digit(r.address, 2)
      /\ low \in Seq(Nat) /\ Len(low) = 4
  BY <1>1, <1>3 DEF Low
<1>5. high[1] = Digit(r.sectors, 1) /\ high \in Seq(Nat) /\ Len(high) = 4
  BY <1>2, <1>3 DEF High
<1>6. \A k \in 1 .. 4 : low[k] \in Nat /\ high[k] \in Nat
  <2>1. low \in Seq(Nat) /\ Len(low) = 4 /\ high \in Seq(Nat) /\ Len(high) = 4
    BY <1>4, <1>5
  <2> QED
    BY <2>1, FourNumbers
<1>7. \A k \in 2 .. 4 : low[k] = Digit(r.address, k - 2)
  BY <1>4
<1>8. CASE mode # "lba48"
  <2>1. Values(mode, r) = low
    BY <1>1, <1>8 DEF Values
  <2> QED
    BY <1>1, <1>4, <1>6, <1>7, <1>8, <2>1
<1>9. CASE mode = "lba48"
  <2>1. Values(mode, r) = high \o low
    BY <1>1, <1>2, <1>9 DEF Values
  <2>2. /\ Len(high \o low) = 8
        /\ \A k \in 1 .. 4 : (high \o low)[k] = high[k] /\ (high \o low)[k + 4] = low[k]
    <3>1. PICK l1 \in Nat, l2 \in Nat, l3 \in Nat, l4 \in Nat : low = <<l1, l2, l3, l4>>
      BY <1>1, <1>3 DEF Low
    <3>2. PICK h1 \in Nat, h2 \in Nat, h3 \in Nat, h4 \in Nat : high = <<h1, h2, h3, h4>>
      BY <1>2, <1>3 DEF High
    <3>3. PICK w : w = high \o low
      OBVIOUS
    <3>4. /\ Len(w) = 8 /\ w[1] = h1 /\ w[2] = h2 /\ w[3] = h3 /\ w[4] = h4
          /\ w[5] = l1 /\ w[6] = l2 /\ w[7] = l3 /\ w[8] = l4
      BY <3>1, <3>2, <3>3, FourAndFour
    <3>5. ASSUME NEW k \in 1 .. 4
          PROVE  w[k] = high[k] /\ w[k + 4] = low[k]
      <4>1. k = 1 \/ k = 2 \/ k = 3 \/ k = 4
        OBVIOUS
      <4> QED
        BY <3>1, <3>2, <3>4, <4>1
    <3> QED
      BY <3>3, <3>4, <3>5
  <2>3. /\ Len(Values(mode, r)) = 8
        /\ \A k \in 1 .. 4 : Values(mode, r)[k] = high[k] /\ Values(mode, r)[k + 4] = low[k]
    BY <2>1, <2>2
  <2>4. 1 \in 1 .. 4
    OBVIOUS
  <2>5. Values(mode, r)[1] = Digit(r.sectors, 1)
    BY <1>5, <2>3, <2>4
  <2> QED
    BY <1>1, <1>4, <1>6, <1>7, <1>9, <2>3, <2>5
<1> QED
  BY <1>8, <1>9

\* A digit is the lowest byte of itself.
LEMMA DigitIsByte ==
    ASSUME NEW n \in Nat, NEW k \in 0 .. 5
    PROVE  Digit(n, k) % Byte = Digit(n, k)
<1>1. PICK B \in Nat, c \in Nat : B = Byte /\ c = Digit(n, k) /\ c < B
  BY Digits, IdeAssumption
<1>2. c = B * 0 + c
  BY <1>1
<1>3. c % B = c
  BY <1>1, <1>2, DivisionIsUnique
<1> QED
  BY <1>1, <1>3

\* The lowest byte of the sectors.
LEMMA LowestByte ==
    ASSUME NEW n \in Nat
    PROVE  n % Byte = Digit(n, 0)
<1>1. Weight[0 + 1] = 1
  BY DEF Weight
<1>2. n \div 1 = n
  <2>1. n = 1 * n + 0
    OBVIOUS
  <2> QED
    BY <2>1, DivisionIsUnique
<1> QED
  BY <1>1, <1>2 DEF Digit

\* The low bytes of an address are what is left of it by the weight of the next.
LEMMA LowBytesSpell ==
    ASSUME NEW n \in Nat
    PROVE  Digit(n, 0) + Byte * Digit(n, 1) + (Byte * Byte) * Digit(n, 2) = n % Weight[4]
<1>1. PICK B \in Nat : B = Byte /\ B > 0
  BY IdeAssumption
<1>2. PICK d0 \in Nat, d1 \in Nat, d2 \in Nat :
        /\ d0 = Digit(n, 0) /\ d1 = Digit(n, 1) /\ d2 = Digit(n, 2)
        /\ d0 < B /\ d1 < B /\ d2 < B
  <2>1. 0 \in 0 .. 5 /\ 1 \in 0 .. 5 /\ 2 \in 0 .. 5
    OBVIOUS
  <2>2. \A k \in 0 .. 5 : Digit(n, k) \in Nat /\ Digit(n, k) < B
    BY <1>1, Digits
  <2> QED
    BY <2>1, <2>2
<1>3. PICK a1 \in Nat, a2 \in Nat, a3 \in Nat :
        n = B * a1 + d0 /\ a1 = B * a2 + d1 /\ a2 = B * a3 + d2
  <2>1. Rest(n, 1) \in Nat /\ Rest(n, 2) \in Nat /\ Rest(n, 3) \in Nat
    BY Digits
  <2>2. /\ n = B * Rest(n, 1) + d0 /\ Rest(n, 1) = B * Rest(n, 2) + d1
        /\ Rest(n, 2) = B * Rest(n, 3) + d2
    BY <1>1, <1>2, Digits
  <2> QED
    BY <2>1, <2>2
<1>4. n = d0 + B * d1 + (B * B) * d2 + (B * B * B) * a3
  BY <1>1, <1>2, <1>3, ThreeDigits
<1>5. PICK w \in Nat, v \in Nat : w = B * B * B /\ v = d0 + B * d1 + (B * B) * d2
  <2>1. PICK q \in Nat, x \in Nat : q = B * B /\ x = B * d1
    OBVIOUS
  <2>2. PICK y \in Nat, z \in Nat : y = q * B /\ z = q * d2
    OBVIOUS
  <2> QED
    BY <2>1, <2>2
<1>6. v < w
  BY <1>1, <1>2, <1>5, ThreeBytesFit
<1>7. n = w * a3 + v
  BY <1>4, <1>5
<1>8. n % w = v
  BY <1>6, <1>7, DivisionIsUnique
<1>9. Weight[4] = w
  BY <1>1, <1>5 DEF Weight
<1> QED
  BY <1>1, <1>2, <1>5, <1>8, <1>9

LEMMA ZeroIsHead ==
    ASSUME IdeTypes
    PROVE  ZeroHead \in Heads
<1>1. machine.ones \in BOOLEAN
  BY IdeAssumption DEF IdeTypes
<1> QED
  BY <1>1 DEF ZeroHead, Selected, DriveHead, Heads, DriveNames

\* One register is written, and spills into the next.
IsWritten(h, k, value, g) ==
    /\ BusTyped(g) /\ g.status = h.status /\ g.op = h.op
    /\ g.head = IF k = 4 THEN ZeroHead ELSE h.head
    /\ g.reg[Registers[k]] = <<value % Byte, h.reg[Registers[k]][1]>>
    /\ \A j \in 1 .. 4 : j < k => g.reg[Registers[j]] = h.reg[Registers[j]]

LEMMA RegisterWritten ==
    ASSUME IdeTypes, NEW h, BusTyped(h), NEW k \in 1 .. 4, NEW value \in Nat
    PROVE  IsWritten(h, k, value, WriteRegister(h, k, value))
<1> DEFINE g == WriteRegister(h, k, value)
<1>1. /\ IsBus(h) /\ h.head \in Heads /\ h.reg \in [RegisterNames -> Nat \X Nat]
      /\ h.status \in [DriveNames -> Statuses]
  BY DEF BusTyped
<1>2. PICK v \in Nat, w \in Nat : v = value % Byte /\ w = (value \div Byte) % Byte
  <2>1. Byte \in Nat /\ Byte > 0
    BY IdeAssumption
  <2> QED
    BY <2>1
<1>3. PICK one : one = [h.reg EXCEPT ![Registers[k]] = <<v, @[1]>>]
  OBVIOUS
<1>4. PICK two : two = IF k = 4 THEN one ELSE [one EXCEPT ![Registers[k + 1]] = <<w, @[1]>>]
  OBVIOUS
<1>5. PICK r \in RegisterNames : r = Registers[k]
  BY RegisterFacts
<1>6. /\ one \in [RegisterNames -> Nat \X Nat] /\ one[r] = <<v, h.reg[r][1]>>
      /\ \A x \in RegisterNames \ {r} : one[x] = h.reg[x]
  BY <1>1, <1>2, <1>3, <1>5
<1>7. /\ two \in [RegisterNames -> Nat \X Nat] /\ two[r] = <<v, h.reg[r][1]>>
      /\ \A j \in 1 .. 4 : j < k => two[Registers[j]] = h.reg[Registers[j]]
  <2>1. \A j \in 1 .. 4 : j < k => Registers[j] \in RegisterNames \ {r}
    BY <1>5, RegisterFacts
  <2>2. CASE k = 4
    BY <1>4, <1>6, <2>1, <2>2
  <2>3. CASE k # 4
    <3>1. k + 1 \in 1 .. 4 /\ k + 1 # k
      BY <2>3
    <3>2. PICK q \in RegisterNames : q = Registers[k + 1] /\ q # r
      BY <1>5, <3>1, RegisterFacts
    <3>3. two = [one EXCEPT ![q] = <<w, @[1]>>]
      BY <1>4, <2>3, <3>2
    <3>4. two \in [RegisterNames -> Nat \X Nat] /\ \A x \in RegisterNames \ {q} : two[x] = one[x]
      BY <1>2, <1>6, <3>3
    <3>5. \A j \in 1 .. 4 : j < k => Registers[j] # q
      BY <3>1, <3>2, RegisterFacts
    <3> QED
      BY <1>6, <2>1, <3>2, <3>4, <3>5
  <2> QED
    BY <2>2, <2>3
<1>8. ZeroHead \in Heads
  BY ZeroIsHead
<1>9. g = IF k = 4 THEN [h EXCEPT !.reg = two, !.head = ZeroHead] ELSE [h EXCEPT !.reg = two]
  <2>1. [h EXCEPT !.reg[Registers[k]] = <<value % Byte, @[1]>>] = [h EXCEPT !.reg = one]
    BY <1>2, <1>3
  <2>2. CASE k = 4
    <3>1. g = [[h EXCEPT !.reg = one] EXCEPT !.head = ZeroHead]
      BY <2>1, <2>2 DEF WriteRegister
    <3> QED
      BY <1>4, <2>2, <3>1
  <2>3. CASE k # 4
    <3>1. g = [[h EXCEPT !.reg = one] EXCEPT !.reg[Registers[k + 1]] = <<w, @[1]>>]
      BY <1>2, <2>1, <2>3 DEF WriteRegister
    <3>2. [h EXCEPT !.reg = one].reg = one
      BY <1>1 DEF IsBus
    <3> QED
      BY <1>1, <1>4, <2>3, <3>1, <3>2 DEF IsBus
  <2> QED
    BY <2>2, <2>3
<1>10. /\ IsBus(g) /\ g.reg = two /\ g.status = h.status /\ g.op = h.op
       /\ g.head = IF k = 4 THEN ZeroHead ELSE h.head
  BY <1>1, <1>9 DEF IsBus
<1>11. BusTyped(g)
  BY <1>1, <1>7, <1>8, <1>10 DEF BusTyped
<1>12. g.reg[Registers[k]] = <<value % Byte, h.reg[Registers[k]][1]>>
  BY <1>2, <1>5, <1>7, <1>10
<1>13. \A j \in 1 .. 4 : j < k => g.reg[Registers[j]] = h.reg[Registers[j]]
  BY <1>7, <1>10
<1> HIDE DEF g
<1> QED
  BY <1>10, <1>11, <1>12, <1>13 DEF IsWritten, g

\* The value written next, and the register it goes to.
LEMMA NextValue ==
    ASSUME dev.addr_mode \in Modes, req \in Requests, NEW n \in Nat,
           n < Len(Values(dev.addr_mode, req))
    PROVE  /\ Values(dev.addr_mode, req)[n + 1] \in Nat
           /\ (n % 4) + 1 \in 1 .. 4
           /\ n < FirstLow => /\ Wide /\ (n % 4) + 1 = n + 1 /\ n + 1 <= 4
                              /\ n = 0 => Values(dev.addr_mode, req)[1] = Digit(req.sectors, 1)
           /\ ~ (n < FirstLow) =>
                \E k \in 1 .. 4 : /\ n + 1 = FirstLow + k /\ (n % 4) + 1 = k
                                  /\ Values(dev.addr_mode, req)[n + 1] = Low(dev.addr_mode, req)[k]
<1>1. PICK V : V = Values(dev.addr_mode, req)
  OBVIOUS
<1>2. PICK low : low = Low(dev.addr_mode, req)
  OBVIOUS
<1>3. \A k \in 1 .. 4 : low[k] \in Nat
  BY <1>2, ValuesFacts
<1>4. ~ Wide => Len(V) = 4 /\ \A k \in 1 .. 4 : V[k] = low[k]
  BY <1>1, <1>2, ValuesFacts DEF Wide
<1>5. Wide => /\ Len(V) = 8 /\ V[1] = Digit(req.sectors, 1)
              /\ \A k \in 1 .. 4 : V[k] \in Nat /\ V[k + 4] = low[k]
  <2>1. SUFFICES ASSUME Wide
                 PROVE  /\ Len(V) = 8 /\ V[1] = Digit(req.sectors, 1)
                        /\ \A k \in 1 .. 4 : V[k] \in Nat /\ V[k + 4] = low[k]
    OBVIOUS
  <2>2. dev.addr_mode = "lba48"
    BY <2>1 DEF Wide
  <2> QED
    BY <1>1, <1>2, <2>2, ValuesFacts
<1>6. CASE n < FirstLow
  <2>1. Wide /\ n < 4
    BY <1>6 DEF FirstLow
  <2>2. n % 4 = n
    <3>1. PICK k \in 1 .. 4 : n + 1 = k
      BY <2>1
    <3> QED
      BY <3>1, PlaceOfFour
  <2>3. n + 1 \in 1 .. 4 /\ V[n + 1] \in Nat
    <3>1. PICK k \in 1 .. 4 : k = n + 1
      BY <2>1
    <3> QED
      BY <1>5, <2>1, <3>1
  <2> QED
    BY <1>1, <1>5, <1>6, <2>1, <2>2, <2>3
<1>7. CASE ~ (n < FirstLow)
  <2>1. PICK k \in 1 .. 4 : n + 1 = FirstLow + k
    <3>1. FirstLow \in Nat /\ Len(V) = FirstLow + 4 /\ n < Len(V)
      <4>1. CASE Wide
        BY <1>1, <1>5, <4>1 DEF FirstLow
      <4>2. CASE ~ Wide
        BY <1>1, <1>4, <4>2 DEF FirstLow
      <4> QED
        BY <4>1, <4>2
    <3>2. PICK l \in Nat : l = FirstLow /\ n < l + 4 /\ ~ (n < l)
      BY <1>7, <3>1
    <3>3. n + 1 - l \in 1 .. 4 /\ n + 1 = l + (n + 1 - l)
      BY <3>2
    <3> QED
      BY <3>2, <3>3
  <2>2. (n % 4) + 1 = k
    <3>1. n + 1 = k \/ n + 1 = 4 + k
      BY <2>1 DEF FirstLow
    <3> QED
      BY <3>1, PlaceOfFour
  <2>3. V[n + 1] = low[k]
    <3>1. CASE Wide
      <4>1. n + 1 = k + 4
        BY <2>1, <3>1 DEF FirstLow
      <4> QED
        BY <1>5, <3>1, <4>1
    <3>2. CASE ~ Wide
      <4>1. n + 1 = k
        BY <2>1, <3>2 DEF FirstLow
      <4> QED
        BY <1>4, <3>2, <4>1
    <3> QED
      BY <3>1, <3>2
  <2> QED
    BY <1>1, <1>2, <1>3, <1>7, <2>1, <2>2, <2>3
<1> QED
  BY <1>6, <1>7

\* One more value is written.
LEMMA SoFarGrows ==
    ASSUME IdeTypes, dev.addr_mode \in Modes, req \in Requests, NEW n \in Nat,
           n < Len(Values(dev.addr_mode, req)), NEW h, BusTyped(h), SoFar(h, n),
           NEW g, g = WriteRegister(h, (n % 4) + 1, Values(dev.addr_mode, req)[n + 1])
    PROVE  /\ BusTyped(g) /\ g.status = h.status /\ g.op = h.op /\ SoFar(g, n + 1)
           /\ g.head = h.head \/ g.head = ZeroHead
           /\ n + 1 = Len(Values(dev.addr_mode, req)) => g.head = ZeroHead
<1>1. PICK k \in 1 .. 4, value \in Nat :
        k = (n % 4) + 1 /\ value = Values(dev.addr_mode, req)[n + 1]
  BY NextValue
<1>2. /\ BusTyped(g) /\ g.status = h.status /\ g.op = h.op
      /\ g.head = IF k = 4 THEN ZeroHead ELSE h.head
      /\ g.reg[Registers[k]] = <<value % Byte, h.reg[Registers[k]][1]>>
      /\ \A j \in 1 .. 4 : j < k => g.reg[Registers[j]] = h.reg[Registers[j]]
  <2>1. g = WriteRegister(h, k, value)
    BY <1>1
  <2>2. IsWritten(h, k, value, g)
    BY <2>1, RegisterWritten
  <2> QED
    BY <2>2 DEF IsWritten
<1>3. n + 1 = Len(Values(dev.addr_mode, req)) => k = 4
  <2>1. Len(Values(dev.addr_mode, req)) \in {4, 8}
    BY ValuesLength
  <2>2. SUFFICES ASSUME n + 1 = Len(Values(dev.addr_mode, req))
                 PROVE  k = 4
    OBVIOUS
  <2>3. n + 1 = 4 \/ n + 1 = 8
    BY <2>1, <2>2
  <2> QED
    BY <1>1, <2>3, LastOfFour
<1>4. CASE n < FirstLow
  <2>1. /\ Wide /\ k = n + 1 /\ n + 1 <= 4 /\ FirstLow = 4
        /\ n = 0 => value = Digit(req.sectors, 1)
    BY <1>1, <1>4, NextValue DEF FirstLow
  <2>2. g.reg["count"][1] = Digit(req.sectors, 1)
    <3>1. CASE n = 0
      <4>1. req.sectors \in Nat /\ 1 \in 0 .. 5
        BY RequestTyped
      <4>2. value % Byte = Digit(req.sectors, 1)
        BY <2>1, <3>1, <4>1, DigitIsByte
      <4>3. Registers[k] = "count"
        BY <2>1, <3>1, RegisterFacts
      <4> QED
        BY <1>2, <4>2, <4>3
    <3>2. CASE n # 0
      <4>1. 1 \in 1 .. 4 /\ 1 < k
        BY <2>1, <3>2
      <4>2. g.reg["count"] = h.reg["count"]
        BY <1>2, <4>1, RegisterFacts
      <4>3. n >= 1 /\ n <= 4
        BY <2>1, <3>2
      <4> QED
        BY <2>1, <4>2, <4>3 DEF SoFar
    <3> QED
      BY <3>1, <3>2
  <2>3. \A j \in 1 .. 4 : ~ (FirstLow + j <= n + 1)
    BY <2>1
  <2>4. SoFar(g, n + 1)
    BY <2>1, <2>2, <2>3 DEF SoFar
  <2> QED
    BY <1>2, <1>3, <2>4
<1>5. CASE ~ (n < FirstLow)
  <2>1. n + 1 = FirstLow + k /\ value = Low(dev.addr_mode, req)[k]
    BY <1>1, <1>5, NextValue
  <2>2. FirstLow \in {0, 4} /\ (Wide => FirstLow = 4)
    BY DEF FirstLow
  <2>3. Wide => g.reg["count"][2] = Digit(req.sectors, 1)
    <3>1. SUFFICES ASSUME Wide
                   PROVE  g.reg["count"][2] = Digit(req.sectors, 1)
      OBVIOUS
    <3>2. n >= 1
      BY <1>5, <2>2, <3>1
    <3>3. h.reg["count"][IF n <= 4 THEN 1 ELSE 2] = Digit(req.sectors, 1)
      BY <3>1, <3>2 DEF SoFar
    <3>4. CASE k = 1
      <4>1. n <= 4
        BY <2>1, <2>2, <3>1, <3>4
      <4>2. h.reg["count"][1] = Digit(req.sectors, 1)
        BY <3>3, <4>1
      <4>3. g.reg["count"] = <<value % Byte, h.reg["count"][1]>>
        BY <1>2, <3>4, RegisterFacts
      <4> QED
        BY <4>2, <4>3
    <3>5. CASE k # 1
      <4>1. ~ (n <= 4) /\ 1 \in 1 .. 4 /\ 1 < k
        BY <2>1, <2>2, <3>1, <3>5
      <4>2. h.reg["count"][2] = Digit(req.sectors, 1)
        BY <3>3, <4>1
      <4>3. g.reg["count"] = h.reg["count"]
        BY <1>2, <4>1, RegisterFacts
      <4> QED
        BY <4>2, <4>3
    <3> QED
      BY <3>4, <3>5
  <2>4. ASSUME NEW j \in 1 .. 4, FirstLow + j <= n + 1
        PROVE  g.reg[Registers[j]][1] = Low(dev.addr_mode, req)[j] % Byte
    <3>1. CASE j = k
      BY <1>2, <2>1, <3>1
    <3>2. CASE j # k
      <4>1. j < k /\ FirstLow + j <= n
        BY <2>1, <2>2, <2>4, <3>2
      <4>2. h.reg[Registers[j]][1] = Low(dev.addr_mode, req)[j] % Byte
        BY <4>1 DEF SoFar
      <4> QED
        BY <1>2, <4>1, <4>2
    <3> QED
      BY <3>1, <3>2
  <2>5. Wide => ~ (n + 1 <= 4)
    BY <2>1, <2>2
  <2>6. SoFar(g, n + 1)
    BY <2>3, <2>4, <2>5 DEF SoFar
  <2> QED
    BY <1>2, <1>3, <2>6
<1> QED
  BY <1>4, <1>5

\* With all values written the registers spell the low bytes of the address.
LEMMA RegistersSpell ==
    ASSUME dev.addr_mode \in Modes, req \in Requests, req.sectors > 0, NEW h, BusTyped(h),
           SoFar(h, Len(Values(dev.addr_mode, req))), h.head = ZeroHead
    PROVE  Spelt(h, FALSE) = Start /\ Count(h, Wide) \in 1 .. req.sectors
<1>1. PICK c \in Nat, a \in Nat : c = req.sectors /\ c > 0 /\ a = req.address
  BY RequestTyped
<1>2. PICK low : low = Low(dev.addr_mode, req)
  OBVIOUS
<1>3. /\ low[1] = (IF dev.addr_mode = "chs" THEN c ELSE Digit(c, 0))
      /\ \A k \in 2 .. 4 : low[k] = Digit(a, k - 2)
      /\ Len(Values(dev.addr_mode, req)) = FirstLow + 4
  <2>1. /\ low[1] = (IF dev.addr_mode = "chs" THEN c ELSE Digit(c, 0))
        /\ \A k \in 2 .. 4 : low[k] = Digit(a, k - 2)
    BY <1>1, <1>2, ValuesFacts
  <2>2. Len(Values(dev.addr_mode, req)) = FirstLow + 4
    <3>1. CASE Wide
      BY <3>1, ValuesFacts DEF FirstLow, Wide
    <3>2. CASE ~ Wide
      BY <3>2, ValuesFacts DEF FirstLow, Wide
    <3> QED
      BY <3>1, <3>2
  <2> QED
    BY <2>1, <2>2
<1>4. \A k \in 1 .. 4 : FirstLow + k <= FirstLow + 4
  BY DEF FirstLow
<1>5. \A k \in 1 .. 4 : h.reg[Registers[k]][1] = low[k] % Byte
  BY <1>2, <1>3, <1>4 DEF SoFar
<1>6. h.reg["count"][1] = Digit(c, 0)
  <2>1. low[1] % Byte = Digit(c, 0)
    <3>1. 0 \in 0 .. 5
      OBVIOUS
    <3> QED
      BY <1>1, <1>3, <3>1, DigitIsByte, LowestByte
  <2>2. 1 \in 1 .. 4
    OBVIOUS
  <2> QED
    BY <1>5, <2>1, <2>2, RegisterFacts
<1>7. /\ h.reg["lo"][1] = Digit(a, 0) /\ h.reg["mid"][1] = Digit(a, 1)
      /\ h.reg["hi"][1] = Digit(a, 2)
  <2>1. /\ low[2] = Digit(a, 0) /\ low[3] = Digit(a, 1) /\ low[4] = Digit(a, 2)
    BY <1>3
  <2>2. /\ low[2] % Byte = Digit(a, 0) /\ low[3] % Byte = Digit(a, 1) /\ low[4] % Byte = Digit(a, 2)
    <3>1. 0 \in 0 .. 5 /\ 1 \in 0 .. 5 /\ 2 \in 0 .. 5
      OBVIOUS
    <3> QED
      BY <1>1, <2>1, <3>1, DigitIsByte
  <2>3. 2 \in 1 .. 4 /\ 3 \in 1 .. 4 /\ 4 \in 1 .. 4
    OBVIOUS
  <2> QED
    BY <1>5, <2>2, <2>3, RegisterFacts
<1>8. Spelt(h, FALSE) = Start
  <2>1. h.head.nibble = 0
    BY DEF ZeroHead, Selected, DriveHead
  <2>2. PICK v \in Nat : v = Digit(a, 0) + Byte * Digit(a, 1) + (Byte * Byte) * Digit(a, 2)
    <3>1. PICK B \in Nat, d0 \in Nat, d1 \in Nat, d2 \in Nat :
            B = Byte /\ d0 = Digit(a, 0) /\ d1 = Digit(a, 1) /\ d2 = Digit(a, 2)
      BY DigitsAreNumbers, IdeAssumption
    <3>2. PICK q \in Nat, x \in Nat : q = B * B /\ x = B * d1
      OBVIOUS
    <3>3. PICK y \in Nat : y = q * d2
      OBVIOUS
    <3>4. d0 + x + y \in Nat
      OBVIOUS
    <3>5. d0 + x + y = Digit(a, 0) + Byte * Digit(a, 1) + (Byte * Byte) * Digit(a, 2)
      BY <3>1, <3>2, <3>3
    <3> QED
      BY <3>4, <3>5
  <2>3. Spelt(h, FALSE) = v + (Byte * Byte * Byte) * 0
    BY <1>7, <2>1, <2>2 DEF Spelt
  <2>4. (Byte * Byte * Byte) * 0 = 0
    <3>1. PICK B \in Nat : B = Byte
      BY IdeAssumption
    <3>2. PICK q \in Nat : q = B * B
      OBVIOUS
    <3>3. PICK w \in Nat : w = q * B
      OBVIOUS
    <3> QED
      BY <3>1, <3>2, <3>3
  <2>5. v = a % Weight[4]
    BY <1>1, <2>2, LowBytesSpell
  <2> QED
    <3>1. v + 0 = v
      OBVIOUS
    <3>2. Spelt(h, FALSE) = v
      BY <2>3, <2>4, <3>1, Zenon
    <3> QED
      BY <1>1, <2>5, <3>2 DEF Start
<1>9. Count(h, Wide) \in 1 .. c
  <2>1. CASE ~ Wide
    <3>1. PICK y \in Nat : y = h.reg["count"][2]
      BY DEF BusTyped, RegisterNames
    <3>2. PICK n : n = (Digit(c, 0) + Byte * y) % Byte
      OBVIOUS
    <3>3. Count(h, Wide) = IF n = 0 THEN Byte ELSE n
      BY <1>6, <2>1, <3>1, <3>2 DEF Count
    <3> QED
      BY <1>1, <3>2, <3>3, CountOfOne
  <2>2. CASE Wide
    <3>1. FirstLow = 4
      BY <2>2 DEF FirstLow
    <3>2. FirstLow + 4 >= 1 /\ ~ (FirstLow + 4 <= 4)
      BY <3>1
    <3>3. h.reg["count"][2] = Digit(c, 1)
      BY <1>1, <1>3, <2>2, <3>2 DEF SoFar
    <3>4. PICK n : n = (Digit(c, 0) + Byte * Digit(c, 1)) % (Byte * Byte)
      OBVIOUS
    <3>5. Count(h, Wide) = IF n = 0 THEN Byte * Byte ELSE n
      BY <1>6, <2>2, <3>3, <3>4 DEF Count
    <3> QED
      BY <1>1, <3>4, <3>5, CountOfTwo
  <2> QED
    BY <2>1, <2>2
<1> QED
  BY <1>1, <1>8, <1>9

-----------------------------------------------------------------------------
(* The buses.                                                              *)

\* The bus in use.
LEMMA HereIsTyped ==
    ASSUME HardwareInv, b \in 1 .. 2
    PROVE  /\ Buses[b] \in BusNames /\ Here = hw[Buses[b]]
           /\ BusTyped(Here) /\ OneAtWork(Here, Buses[b])
           /\ Active(Buses[b]) \/ Still(Here)
           /\ Here.head.drive \in DriveNames
           /\ Here.status[Here.head.drive] \in Statuses
<1>1. Buses[b] \in BusNames /\ Here = hw[Buses[b]]
  BY NameFacts DEF BusNames, Here
<1>2. BusTyped(Here) /\ Calm(Here, Buses[b])
  BY <1>1 DEF HardwareInv
<1> QED
  BY <1>1, <1>2 DEF BusTyped, Calm, Heads

\* What the status register says of the drive selected.
RawStatus == Here.status[Here.head.drive]

LEMMA StatusIsRaw ==
    ASSUME HardwareInv, b \in 1 .. 2
    PROVE  /\ ide_status = "drq" => RawStatus = "drq" /\ Kind(Here.head.drive) # "none"
           /\ ide_status = "err" => RawStatus = "err" /\ Kind(Here.head.drive) # "none"
           /\ ide_status \in {"zero", "err"} => RawStatus \notin AtWork
           /\ ide_status # "busy" => RawStatus # "busy"
           /\ Notices => RawStatus \notin AtWork
<1> DEFINE kind == Kind(Here.head.drive)
<1>1. RawStatus \in Statuses /\ (RawStatus \in AtWork => kind # "none")
  BY HereIsTyped DEF OneAtWork, Kind, RawStatus
<1>2. /\ kind = "none" => ide_status \in {"busy", "zero"}
      /\ kind # "none" => ide_status = IF RawStatus = "reset" THEN "busy" ELSE RawStatus
  BY DEF ide_status, StatusOf, RawStatus
<1> HIDE DEF kind
<1>3. /\ ide_status = "drq" => RawStatus = "drq" /\ kind # "none"
      /\ ide_status = "err" => RawStatus = "err" /\ kind # "none"
      /\ ide_status \in {"zero", "err"} => RawStatus \notin AtWork
      /\ ide_status # "busy" => RawStatus # "busy"
      /\ ide_status \notin {"busy", "drq"} => RawStatus \notin AtWork
  BY <1>1, <1>2 DEF Statuses, AtWork
<1> QED
  BY <1>3 DEF kind, Notices

\* With the drive selected not at work no drive of the bus is.
LEMMA AtRest ==
    ASSUME HardwareInv, b \in 1 .. 2,
           Notices \/ (ide_status # "busy" /\ (Still(Here) \/ ide_status # "drq"))
    PROVE  Resting(Here)
<1>1. OneAtWork(Here, Buses[b]) /\ RawStatus \in Statuses
  BY HereIsTyped DEF RawStatus
<1>2. RawStatus \notin AtWork
  <2>1. CASE Notices
    BY <2>1, StatusIsRaw
  <2>2. CASE ide_status # "busy" /\ Still(Here)
    BY <2>2, StatusIsRaw DEF Still, RawStatus, AtWork
  <2>3. CASE ide_status # "busy" /\ ide_status # "drq"
    BY <2>3, StatusIsRaw DEF Notices
  <2> QED
    BY <2>1, <2>2, <2>3
<1> QED
  BY <1>1, <1>2 DEF OneAtWork, Resting, RawStatus

\* The other buses are still.
LEMMA HereWritten ==
    ASSUME HardwareInv, b \in 1 .. 2, machine' = machine,
           NEW g, BusTyped(g), OneAtWork(g, Buses[b]),
           hw' = [hw EXCEPT ![Buses[b]] = g],
           (b' = b /\ Active(Buses[b])') \/ Still(g)
    PROVE  HardwareInv' /\ (b' = b => Here' = g)
<1>1. DOMAIN hw = BusNames /\ Buses[b] \in BusNames
  BY HereIsTyped DEF HardwareInv
<1>2. DOMAIN hw' = BusNames /\ hw'[Buses[b]] = g
      /\ \A x \in BusNames \ {Buses[b]} : hw'[x] = hw[x]
  BY <1>1
<1>3. ASSUME NEW x \in BusNames
      PROVE  (BusTyped(hw[x]) /\ Calm(hw[x], x))'
  <2>1. CASE x = Buses[b]
    BY <1>2, <2>1 DEF BusTyped, IsBus, OneAtWork, Calm, Still, Active
  <2>2. CASE x # Buses[b]
    <3>1. BusTyped(hw[x]) /\ OneAtWork(hw[x], x) /\ Still(hw[x])
      BY <2>2 DEF HardwareInv, Calm, Active
    <3> QED
      BY <1>2, <2>2, <3>1 DEF BusTyped, IsBus, OneAtWork, Calm, Still
  <2> QED
    BY <2>1, <2>2
<1>4. b' = b => Here' = g
  BY <1>2 DEF Here
<1> QED
  BY <1>2, <1>3, <1>4 DEF HardwareInv

\* No bus is written.
LEMMA NothingWritten ==
    ASSUME HardwareInv, UNCHANGED <<machine, hw>>,
           \A x \in BusNames : Active(x)' \/ Still(hw[x])
    PROVE  HardwareInv'
<1>1. ASSUME NEW x \in BusNames
      PROVE  (BusTyped(hw[x]) /\ Calm(hw[x], x))'
  <2>1. BusTyped(hw[x]) /\ OneAtWork(hw[x], x)
    BY DEF HardwareInv, Calm
  <2> QED
    BY <2>1 DEF BusTyped, IsBus, OneAtWork, Calm, Still
<1> QED
  BY <1>1 DEF HardwareInv

\* A command is given, to a drive that is not busy.
Takes(h) == Kind(h.head.drive) # "none" /\ h.status[h.head.drive] \notin {"reset", "drq"}

LEMMA CommandGiven ==
    ASSUME b \in 1 .. 2, NEW h, BusTyped(h), OneAtWork(h, Buses[b]),
           h.status[h.head.drive] # "busy", NEW op, NEW g, g = Commanded(h, op)
    PROVE  LET drive == h.head.drive
               wide == op \in {"read_ext", "write_ext"} IN
           /\ BusTyped(g) /\ OneAtWork(g, Buses[b]) /\ g.head = h.head /\ g.reg = h.reg
           /\ ~ Takes(h) => g = h
           /\ Takes(h) =>
                /\ g.op = op /\ g.status[drive] = "busy"
                /\ op \in Transfers =>
                     /\ g.at = <<drive, h.head.lba, Spelt(h, wide /\ h.head.lba), 0>>
                     /\ g.left = Words /\ g.more = Count(h, wide) - 1
<1> DEFINE drive == h.head.drive
           wide == op \in {"read_ext", "write_ext"}
           status == [h.status EXCEPT ![drive] = "busy"]
           told == [h EXCEPT !.op = op, !.status = status]
           place == <<drive, h.head.lba, Spelt(h, wide /\ h.head.lba), 0>>
<1>1. drive \in DriveNames /\ IsBus(h) /\ h.status \in [DriveNames -> Statuses]
  BY DEF BusTyped, Heads
<1>2. CASE ~ Takes(h)
  <2>1. g = h
    BY <1>2 DEF Commanded, Takes
  <2> QED
    BY <1>2, <2>1
<1>3. CASE Takes(h)
  <2>1. status \in [DriveNames -> Statuses] /\ status[drive] = "busy"
        /\ \A other \in DriveNames \ {drive} : status[other] = h.status[other]
    BY <1>1 DEF Statuses
  <2>2. [h EXCEPT !.op = op, !.status[drive] = "busy"] = told
    BY <1>1 DEF IsBus
  <2>3. g = IF op \notin Transfers THEN told
            ELSE [told EXCEPT !.at = place, !.left = Words, !.more = Count(h, wide) - 1]
    BY <1>3, <2>2 DEF Commanded, Takes
  <2> HIDE DEF status
  <2>4. /\ IsBus(told) /\ told.head = h.head /\ told.reg = h.reg /\ told.status = status
        /\ told.op = op
    BY <1>1, <2>1 DEF IsBus
  <2> HIDE DEF told, wide, place
  <2>5. /\ IsBus(g) /\ g.head = h.head /\ g.reg = h.reg /\ g.status = status
        /\ g.op = op
        /\ op \in Transfers => /\ g.at = place /\ g.left = Words
                               /\ g.more = Count(h, wide) - 1
    BY <2>3, <2>4 DEF IsBus
  <2>6. BusTyped(g)
    BY <2>1, <2>5 DEF BusTyped
  <2>7. OneAtWork(g, Buses[b])
    BY <1>1, <1>3, <2>1, <2>5 DEF OneAtWork, Kind, Takes
  <2> QED
    BY <1>3, <2>1, <2>5, <2>6, <2>7 DEF wide, place
<1> QED
  BY <1>2, <1>3

\* DRIVE_HEAD is written, and with it the command of doing nothing.
LEMMA HeadWritten ==
    ASSUME b \in 1 .. 2, NEW h, BusTyped(h), Resting(h), NEW head \in Heads,
           NEW g, g = WriteHead(h, head)
    PROVE  /\ BusTyped(g) /\ OneAtWork(g, Buses[b]) /\ Still(g)
           /\ g.head = head /\ g.reg = h.reg
<1>1. PICK f : f = [h EXCEPT !.head = head]
  OBVIOUS
<1>2. /\ IsBus(f) /\ f.head = head /\ f.reg = h.reg /\ f.status = h.status
  BY <1>1 DEF BusTyped, IsBus
<1>3. BusTyped(f)
  BY <1>2 DEF BusTyped
<1>4. head.drive \in DriveNames
  BY DEF Heads
<1>5. OneAtWork(f, Buses[b]) /\ f.status[f.head.drive] \notin AtWork
  BY <1>2, <1>4 DEF OneAtWork, Resting
<1>6. g = Commanded(f, "nop")
  BY <1>1 DEF WriteHead
<1>7. f.status[f.head.drive] # "busy" /\ "nop" \notin Transfers
  BY <1>5 DEF AtWork, Transfers
<1>8. /\ BusTyped(g) /\ OneAtWork(g, Buses[b]) /\ g.head = f.head /\ g.reg = f.reg
      /\ ~ Takes(f) => g = f
      /\ Takes(f) => g.op = "nop" /\ g.status[f.head.drive] = "busy"
  BY <1>3, <1>5, <1>6, <1>7, CommandGiven
<1>9. Still(g)
  BY <1>5, <1>8 DEF Still, AtWork
<1> QED
  BY <1>2, <1>8, <1>9

LEMMA SelectedIsHead ==
    ASSUME NEW drive \in DriveNames
    PROVE  Selected(drive) \in Heads /\ Selected(drive).drive = drive
  BY DEF Selected, DriveHead, Heads

\* ide_select_drive.
LEMMA DriveChosen ==
    ASSUME HardwareInv, b \in 1 .. 2, Still(Here), machine' = machine,
           NEW drive \in DriveNames, ide_select_drive(drive)
    PROVE  HardwareInv'
<1>1. CASE UNCHANGED hw
  <2>1. \A x \in BusNames : Still(hw[x])
    BY HereIsTyped DEF HardwareInv, Calm, Active
  <2> QED
    BY <1>1, <2>1, NothingWritten
<1>2. CASE /\ ide_status # "busy"
           /\ ToBus(IF Notices THEN WriteHead(Here, Selected(drive)) ELSE Here)
  <2>1. PICK g : g = IF Notices THEN WriteHead(Here, Selected(drive)) ELSE Here
    OBVIOUS
  <2>2. BusTyped(Here) /\ OneAtWork(Here, Buses[b])
    BY HereIsTyped
  <2>3. BusTyped(g) /\ OneAtWork(g, Buses[b]) /\ Still(g)
    <3>1. CASE Notices
      <4>1. Resting(Here) /\ g = WriteHead(Here, Selected(drive))
        BY <2>1, <3>1, AtRest
      <4>2. Selected(drive) \in Heads
        BY SelectedIsHead
      <4> QED
        BY <2>2, <4>1, <4>2, HeadWritten
    <3>2. CASE ~ Notices
      BY <2>1, <2>2, <3>2
    <3> QED
      BY <3>1, <3>2
  <2>4. hw' = [hw EXCEPT ![Buses[b]] = g]
    BY <1>2, <2>1 DEF ToBus
  <2> QED
    BY <2>3, <2>4, HereWritten
<1> QED
  BY <1>1, <1>2 DEF ide_select_drive

\* A bus on which no drive is at work is still.
LEMMA RestingIsStill ==
    ASSUME NEW h, BusTyped(h), Resting(h)
    PROVE  OneAtWork(h, Buses[b]) /\ Still(h)
<1>1. h.head.drive \in DriveNames
  BY DEF BusTyped, Heads
<1> QED
  BY <1>1 DEF OneAtWork, Still, Resting, AtWork

\* A register of a drive that takes notice is written.
LEMMA RegisterOfBus ==
    ASSUME IdeTypes, HardwareInv, b \in 1 .. 2, Notices, NEW k \in 1 .. 4, NEW value \in Nat,
           NEW g, g = WriteRegister(Here, k, value)
    PROVE  BusTyped(g) /\ OneAtWork(g, Buses[b]) /\ Still(g)
<1>1. BusTyped(Here) /\ Resting(Here)
  BY HereIsTyped, AtRest
<1>2. BusTyped(g) /\ g.status = Here.status
  <2>1. IsWritten(Here, k, value, g)
    BY <1>1, RegisterWritten
  <2> QED
    BY <2>1 DEF IsWritten
<1> QED
  BY <1>1, <1>2, RestingIsStill DEF Resting

-----------------------------------------------------------------------------
(* A word is moved.                                                        *)

\* The bus after a word: the same sector, the next one, or the end.
LEMMA WordMovedFacts ==
    ASSUME NEW h, BusTyped(h), NEW g, g = Moved(h)
    PROVE  LET drive == h.head.drive IN
           /\ BusTyped(g) /\ g.head = h.head
           /\ \A other \in DriveNames \ {drive} : g.status[other] = h.status[other]
           /\ \/ /\ h.left > 1 /\ g.left = h.left - 1
                 /\ g.status = h.status /\ g.op = h.op /\ g.at = h.at /\ g.more = h.more
              \/ /\ ~ (h.left > 1) /\ h.more > 0
                 /\ g.left = Words /\ g.more = h.more - 1 /\ g.at = [h.at EXCEPT ![4] = @ + 1]
                 /\ g.status[drive] = "busy" /\ g.op = h.op
              \/ /\ ~ (h.left > 1) /\ ~ (h.more > 0)
                 /\ g.status[drive] \in {"ready", "busy"} /\ g.op = "stored"
<1> DEFINE drive == h.head.drive
           last == IF h.op \in {"read", "read_ext"} THEN "ready" ELSE "busy"
           With(s) == [h.status EXCEPT ![drive] = s]
<1>1. drive \in DriveNames /\ IsBus(h) /\ h.status \in [DriveNames -> Statuses]
  BY DEF BusTyped, Heads
<1>2. ASSUME NEW s \in Statuses
      PROVE  /\ With(s) \in [DriveNames -> Statuses] /\ With(s)[drive] = s
             /\ \A other \in DriveNames \ {drive} : With(s)[other] = h.status[other]
  BY <1>1
<1>3. CASE h.left > 1
  <2>1. g = [h EXCEPT !.left = h.left - 1]
    BY <1>1, <1>3 DEF Moved, IsBus
  <2>2. /\ IsBus(g) /\ g.left = h.left - 1 /\ g.head = h.head /\ g.reg = h.reg
        /\ g.status = h.status /\ g.op = h.op /\ g.at = h.at /\ g.more = h.more
    BY <1>1, <2>1 DEF IsBus
  <2>3. BusTyped(g)
    BY <2>2 DEF BusTyped
  <2> QED
    BY <1>3, <2>2, <2>3
<1>4. CASE ~ (h.left > 1) /\ h.more > 0
  <2>1. g = [h EXCEPT !.left = Words, !.more = h.more - 1, !.at = [h.at EXCEPT ![4] = @ + 1],
                      !.status = With("busy")]
    BY <1>1, <1>4 DEF Moved, IsBus
  <2>2. "busy" \in Statuses
    BY DEF Statuses
  <2>3. /\ With("busy") \in [DriveNames -> Statuses] /\ With("busy")[drive] = "busy"
        /\ \A other \in DriveNames \ {drive} : With("busy")[other] = h.status[other]
    BY <1>2, <2>2
  <2> HIDE DEF With
  <2>4. /\ IsBus(g) /\ g.left = Words /\ g.more = h.more - 1 /\ g.head = h.head
        /\ g.reg = h.reg /\ g.at = [h.at EXCEPT ![4] = @ + 1] /\ g.op = h.op
        /\ g.status = With("busy")
    BY <1>1, <2>1, <2>3 DEF IsBus
  <2>5. BusTyped(g)
    BY <2>3, <2>4 DEF BusTyped
  <2> QED
    BY <1>4, <2>3, <2>4, <2>5
<1>5. CASE ~ (h.left > 1) /\ ~ (h.more > 0)
  <2>1. g = [h EXCEPT !.status = With(last), !.op = "stored", !.at = <<>>, !.left = 0]
    BY <1>1, <1>5 DEF Moved, IsBus
  <2>2. last \in Statuses /\ last \in {"ready", "busy"}
    BY DEF Statuses
  <2>3. /\ With(last) \in [DriveNames -> Statuses] /\ With(last)[drive] = last
        /\ \A other \in DriveNames \ {drive} : With(last)[other] = h.status[other]
    BY <1>2, <2>2
  <2> HIDE DEF With, last
  <2>4. /\ IsBus(g) /\ g.head = h.head /\ g.reg = h.reg /\ g.op = "stored"
        /\ g.status = With(last)
    BY <1>1, <2>1, <2>3 DEF IsBus
  <2>5. BusTyped(g)
    BY <2>3, <2>4 DEF BusTyped
  <2> QED
    BY <1>5, <2>2, <2>3, <2>4, <2>5
<1> QED
  BY <1>3, <1>4, <1>5

\* The words of whole sectors and of the one being moved.
WordsCounted(n, W, S, s, l, m) ==
    /\ n < S * W
    /\ n + 1 >= S * W => l = 1 /\ m = 0
    /\ l = 1 => n + 1 = (s + 1) * W
    /\ n \div W = s /\ n % W = W - l

\* Before a word is moved the request is not at its end.
LEMMA WordsOfSectors ==
    ASSUME NEW W \in Nat, NEW S \in Nat, NEW s \in Nat, NEW l \in 1 .. W, NEW m \in Nat,
           s + 1 + m <= S, NEW n \in Nat, n = s * W + (W - l)
    PROVE  WordsCounted(n, W, S, s, l, m)
<1>1. PICK k \in Nat : S = s + 1 + m + k
  OBVIOUS
<1>2. PICK p \in Nat : p = s * W
  OBVIOUS
<1>3. PICK q \in Nat : q = m * W
  OBVIOUS
<1>4. PICK r \in Nat : r = k * W
  OBVIOUS
<1>5. S * W = p + W + q + r
  <2>1. (s + 1 + m + k) * W = s * W + W + m * W + k * W
    OBVIOUS
  <2> QED
    BY <1>1, <1>2, <1>3, <1>4, <2>1
<1>6. n = p + (W - l)
  BY <1>2
<1>7. n < S * W
  BY <1>5, <1>6
<1>8. n + 1 >= S * W => l = 1 /\ q = 0
  BY <1>5, <1>6
<1>9. q = 0 => m = 0
  <2>1. SUFFICES ASSUME m # 0, q = 0
                 PROVE  FALSE
    OBVIOUS
  <2>2. PICK j \in Nat : m = j + 1
    BY <2>1
  <2>3. (j + 1) * W = j * W + W /\ j * W \in Nat
    OBVIOUS
  <2> QED
    BY <1>3, <2>1, <2>2, <2>3
<1>10. l = 1 => n + 1 = (s + 1) * W
  <2>1. (s + 1) * W = s * W + W
    OBVIOUS
  <2> QED
    BY <1>2, <1>6, <2>1
<1>11. n \div W = s /\ n % W = W - l
  <2>1. PICK t \in Nat : t = W - l /\ t < W
    OBVIOUS
  <2>2. n = W * s + t
    BY <2>1
  <2> QED
    BY <2>1, <2>2, DivisionIsUnique
<1> QED
  BY <1>7, <1>8, <1>9, <1>10, <1>11 DEF WordsCounted

\* A sequence with one more element.
Extended(t, q, e, S) ==
    /\ t \in Seq(S) /\ Len(t) = Len(q) + 1 /\ t[Len(q) + 1] = e
    /\ \A k \in 1 .. Len(q) : t[k] = q[k]

\* What Append does.
LEMMA WordAppended ==
    ASSUME NEW S, NEW q \in Seq(S), NEW e \in S, NEW t, t = Append(q, e)
    PROVE  Extended(t, q, e, S)
  BY DEF Extended

\* A place of four parts and the word.
LEMMA PlaceWithWord ==
    ASSUME NEW at, NEW v, NEW x, NEW y, NEW z, NEW w, at = <<x, y, z, w>>
    PROVE  Append(at, v) = <<x, y, z, w, v>>
<1>1. PICK S : S = {x, y, z, w, v}
  OBVIOUS
<1>2. PICK t : t = Append(at, v)
  OBVIOUS
<1>3. /\ at \in Seq(S) /\ Len(at) = 4 /\ v \in S
      /\ at[1] = x /\ at[2] = y /\ at[3] = z /\ at[4] = w
  BY <1>1
<1>4. Extended(t, at, v, S)
  BY <1>2, <1>3, WordAppended
<1>5. /\ t \in Seq(S) /\ Len(t) = 5
      /\ t[1] = x /\ t[2] = y /\ t[3] = z /\ t[4] = w /\ t[5] = v
  BY <1>3, <1>4 DEF Extended
<1>6. t = <<x, y, z, w, v>>
  BY <1>5
<1> QED
  BY <1>2, <1>6

\* The next sector.
LEMMA NextSector ==
    ASSUME NEW x, NEW y, NEW z, NEW s \in Nat, NEW at, at = <<x, y, z, s>>
    PROVE  [at EXCEPT ![4] = @ + 1] = <<x, y, z, s + 1>>
  OBVIOUS

\* The place a transfer starts at.
LEMMA StartIsNumber ==
    ASSUME req \in Requests
    PROVE  Start \in Nat
<1>1. req.address \in Nat
  BY RequestTyped
<1>2. PICK B \in Nat : B = Byte /\ B > 0
  BY IdeAssumption
<1>3. PICK w \in Nat : w = Weight[4] /\ w > 0
  <2>1. Weight[4] = B * B * B
    BY <1>2 DEF Weight
  <2>2. B * B * B \in Nat /\ B * B * B > 0
    <3>1. PICK q \in Nat : q = B * B /\ q > 0
      BY <1>2
    <3>2. q * B \in Nat /\ q * B > 0
      BY <1>2, <3>1
    <3> QED
      BY <3>1, <3>2
  <2> QED
    BY <2>1, <2>2
<1> QED
  BY <1>1, <1>3, Division DEF Start

\* The place of the word at the data register.
LEMMA PlaceOfWord ==
    ASSUME req \in Requests, NEW s \in Nat, Progress(Here, s)
    PROVE  /\ PlaceOf(Here) = <<"master", FALSE, Start, s, Words - Here.left>>
           /\ PlaceOf(Here) \in WordPlaces
<1>1. Here.at = <<"master", FALSE, Start, s>> /\ Here.left \in 1 .. Words
  BY DEF Progress
<1>2. PICK w \in Nat : w = Words - Here.left
  BY <1>1, IdeAssumption
<1>3. PICK no \in BOOLEAN, start \in Nat : no = FALSE /\ start = Start
  BY StartIsNumber
<1>4. Append(<<"master", no, start, s>>, w) = <<"master", no, start, s, w>>
  BY PlaceWithWord
<1>5. PlaceOf(Here) = <<"master", no, start, s, w>>
  <2>1. Here.at = <<"master", no, start, s>>
    BY <1>1, <1>3
  <2> QED
    BY <1>2, <1>4, <2>1 DEF PlaceOf
<1>6. <<"master", no, start, s, w>> \in WordPlaces
  <2>1. "master" \in DriveNames
    BY DEF DriveNames
  <2>2. <<"master", no, start, s, w>> \in DriveNames \X BOOLEAN \X Nat \X Nat \X Nat
    BY <2>1
  <2> QED
    BY <2>2 DEF WordPlaces
<1> QED
  BY <1>2, <1>3, <1>5, <1>6

\* ide_read_word and ide_write_word: the word goes to its place.
LEMMA WordMoved ==
    ASSUME IdeTypes, HardwareInv, RequestInv, Transferring, pc = "poll", ide_status = "drq",
           moved' = Append(moved, PlaceOf(Here)), ToBus(Moved(Here)),
           UNCHANGED <<machine, b, dev, req, failed>>,
           pc' \in {"poll", "flush"} \/ (pc' = "done" /\ Len(moved') = req.sectors * Words)
    PROVE  /\ HardwareInv' /\ Transferring'
           /\ moved' \in Seq(WordPlaces) /\ Len(moved') = Len(moved) + 1
           /\ Len(moved') <= req.sectors * Words
<1>1. PICK h : h = Here
  OBVIOUS
<1>2. PICK g : g = Moved(h)
  OBVIOUS
<1>3. /\ req \in Requests /\ req.sectors > 0 /\ dev \in ide_device_t /\ b \in 1 .. 2
      /\ moved \in Seq(WordPlaces) /\ Len(moved) \in Nat
  BY DEF RequestInv, Using
<1>4. /\ BusTyped(h) /\ OneAtWork(h, Buses[b]) /\ h.status[h.head.drive] = "drq"
      /\ Kind(h.head.drive) # "none" /\ h.head.drive \in DriveNames
  BY <1>1, <1>3, HereIsTyped, StatusIsRaw DEF RawStatus
<1>5. PICK s \in Nat : Progress(h, s)
  BY <1>1, <1>4 DEF Transferring, Underway
<1>6. PICK W \in Nat, S \in Nat : W = Words /\ S = req.sectors
  BY <1>3, RequestTyped, IdeAssumption
<1>7. PICK l \in 1 .. W, m \in Nat, n \in Nat :
        /\ l = h.left /\ m = h.more /\ n = Len(moved)
        /\ n = s * W + (W - l) /\ s + 1 + m <= S
  BY <1>3, <1>5, <1>6 DEF Progress
<1>8. /\ n < S * W
      /\ n + 1 >= S * W => l = 1 /\ m = 0
      /\ l = 1 => n + 1 = (s + 1) * W
      /\ n \div W = s /\ n % W = W - l
  <2>1. WordsCounted(n, W, S, s, l, m)
    BY <1>7, WordsOfSectors
  <2> QED
    BY <2>1 DEF WordsCounted
<1>9. /\ PlaceOf(h) = <<"master", FALSE, Start, s, W - l>> /\ PlaceOf(h) \in WordPlaces
  BY <1>1, <1>3, <1>5, <1>6, <1>7, PlaceOfWord
<1>10. /\ moved' \in Seq(WordPlaces) /\ Len(moved') = n + 1 /\ moved'[n + 1] = PlaceOf(h)
      /\ \A k \in 1 .. n : moved'[k] = moved[k]
  <2>1. PICK e \in WordPlaces : e = PlaceOf(h)
    BY <1>9
  <2>2. moved' = Append(moved, e)
    BY <1>1, <2>1
  <2> QED
    <3>1. Extended(moved', moved, e, WordPlaces)
      BY <1>3, <2>2, WordAppended
    <3> QED
      BY <1>7, <2>1, <3>1 DEF Extended
<1>11. Len(moved') <= S * W
  <2>1. S * W \in Nat
    OBVIOUS
  <2> QED
    BY <1>7, <1>8, <1>10, <2>1
<1>12. h.op \in Transfers /\ h.at = <<"master", FALSE, Start, s>>
  BY <1>5 DEF Progress
<1>13. /\ BusTyped(g) /\ g.head = h.head
       /\ \A other \in DriveNames \ {h.head.drive} : g.status[other] = h.status[other]
       /\ \/ /\ l > 1 /\ g.left = l - 1
             /\ g.status = h.status /\ g.op = h.op /\ g.at = h.at /\ g.more = m
          \/ /\ l = 1 /\ m > 0
             /\ g.left = W /\ g.more = m - 1 /\ g.at = [h.at EXCEPT ![4] = @ + 1]
             /\ g.status[h.head.drive] = "busy" /\ g.op = h.op
          \/ /\ l = 1 /\ m = 0
             /\ g.status[h.head.drive] \in {"ready", "busy"} /\ g.op = "stored"
  <2>1. /\ BusTyped(g) /\ g.head = h.head
        /\ \A other \in DriveNames \ {h.head.drive} : g.status[other] = h.status[other]
        /\ \/ /\ h.left > 1 /\ g.left = h.left - 1
              /\ g.status = h.status /\ g.op = h.op /\ g.at = h.at /\ g.more = h.more
           \/ /\ ~ (h.left > 1) /\ h.more > 0
              /\ g.left = Words /\ g.more = h.more - 1 /\ g.at = [h.at EXCEPT ![4] = @ + 1]
              /\ g.status[h.head.drive] = "busy" /\ g.op = h.op
           \/ /\ ~ (h.left > 1) /\ ~ (h.more > 0)
              /\ g.status[h.head.drive] \in {"ready", "busy"} /\ g.op = "stored"
    BY <1>2, <1>4, WordMovedFacts
  <2>2. (~ (l > 1) => l = 1) /\ (~ (m > 0) => m = 0)
    BY <1>7
  <2> QED
    BY <1>6, <1>7, <2>1, <2>2
<1>14. OneAtWork(g, Buses[b])
  BY <1>4, <1>13 DEF OneAtWork, Kind
<1>15. hw' = [hw EXCEPT ![Buses[b]] = g]
  BY <1>1, <1>2 DEF ToBus
<1>16. Active(Buses[b])' \/ Still(g)
  <2>1. CASE pc' \in {"poll", "flush"}
    BY <2>1 DEF Active
  <2>2. CASE pc' = "done" /\ Len(moved') = req.sectors * Words
    <3>1. l = 1 /\ m = 0
      <4>1. n + 1 = S * W
        BY <1>6, <1>10, <2>2
      <4> QED
        BY <1>7, <1>8, <4>1
    <3> QED
      BY <1>13, <3>1 DEF Still
  <2> QED
    BY <2>1, <2>2
<1>17. HardwareInv' /\ Here' = g
  BY <1>3, <1>13, <1>14, <1>15, <1>16, HereWritten
<1>18. Start' = Start
  BY DEF Start
<1>19. Underway(Here)' => \E y \in Nat : Progress(Here, y)'
  <2>1. SUFFICES ASSUME Underway(Here)'
                 PROVE  \E y \in Nat : Progress(Here, y)'
    OBVIOUS
  <2>2. CASE l > 1
    <3>1. /\ g.left = l - 1 /\ g.status = h.status /\ g.op = h.op /\ g.at = h.at
          /\ g.more = m /\ g.head = h.head
      <4>1. ~ (l = 1)
        BY <1>7, <2>2
      <4> QED
        BY <1>13, <4>1, Zenon
    <3>2. Len(moved') = s * W + (W - (l - 1))
      BY <1>7, <1>10
    <3>3. Progress(Here, s)'
      <4>1. g.left \in 1 .. Words /\ Len(moved') = s * Words + (Words - g.left)
        <5>1. g.left \in 1 .. Words
          <6>1. l - 1 \in 1 .. W
            BY <2>2
          <6> QED
            BY <1>6, <3>1, <6>1, Zenon
        <5>2. Len(moved') = s * Words + (Words - g.left)
          BY <1>6, <3>2, <3>1, Zenon
        <5> QED
          BY <5>1, <5>2
      <4>2. /\ g.op \in Transfers /\ g.more \in Nat /\ g.status[g.head.drive] = "drq"
            /\ g.at = <<"master", FALSE, Start, s>>
        BY <1>4, <1>7, <1>12, <3>1
      <4>3. s + 1 + g.more <= req.sectors
        BY <1>6, <1>7, <3>1
      <4> QED
        BY <1>12, <1>17, <1>18, <4>1, <4>2, <4>3 DEF Progress
    <3> QED
      BY <3>3
  <2>3. CASE l = 1 /\ m > 0
    <3>1. Len(moved') = (s + 1) * W + (W - W)
      BY <1>7, <1>8, <1>10, <2>3
    <3>2. g.at = <<"master", FALSE, Start, s + 1>>
      <4>1. PICK no, start : no = FALSE /\ start = Start
        OBVIOUS
      <4>2. PICK at : at = h.at /\ at = <<"master", no, start, s>>
        BY <1>12, <4>1
      <4>3. [at EXCEPT ![4] = @ + 1] = <<"master", no, start, s + 1>>
        BY <4>2, NextSector
      <4>4. g.at = [h.at EXCEPT ![4] = @ + 1]
        BY <1>13, <2>3
      <4> QED
        BY <4>1, <4>2, <4>3, <4>4
    <3>3. (s + 1) + 1 + (m - 1) <= S
      BY <1>7
    <3>4. Progress(Here, s + 1)'
      <4>1. g.left \in 1 .. Words /\ g.left = Words
        BY <1>6, <1>7, <1>13, <2>3
      <4>2. Len(moved') = (s + 1) * Words + (Words - g.left)
        BY <1>6, <3>1, <4>1
      <4>3. g.op \in Transfers /\ g.more \in Nat /\ g.more = m - 1
        BY <1>7, <1>12, <1>13, <2>3
      <4>4. (s + 1) + 1 + g.more <= req.sectors
        BY <1>6, <3>3, <4>3
      <4> QED
        BY <1>17, <1>18, <3>2, <4>1, <4>2, <4>3, <4>4 DEF Progress
    <3> QED
      BY <3>4
  <2>4. CASE l = 1 /\ m = 0
    BY <1>13, <1>17, <2>1, <2>4 DEF Underway
  <2> QED
    BY <1>7, <2>2, <2>3, <2>4
<1>20. ~ ide_check_error'
  <2>1. g.status[g.head.drive] # "err"
    BY <1>4, <1>13
  <2>2. ide_status' # "err"
    BY <1>17, <2>1 DEF ide_status, StatusOf
  <2> QED
    BY <2>2 DEF ide_check_error
<1>21. ASSUME Trusted', NEW k \in 1 .. Len(moved')
       PROVE  moved'[k] = WordAt(k)'
  <2>1. Trusted
    BY <1>21 DEF Trusted
  <2>2. WordAt(k)' = WordAt(k)
    BY DEF WordAt, Start
  <2>3. CASE k \in 1 .. n
    BY <1>7, <1>10, <2>1, <2>2, <2>3 DEF Transferring
  <2>4. CASE k = n + 1
    <3>1. k - 1 = n
      BY <1>7, <2>4
    <3>2. WordAt(k) = <<"master", FALSE, Start, n \div W, n % W>>
      BY <1>6, <3>1 DEF WordAt
    <3> QED
      BY <1>8, <1>9, <1>10, <2>2, <2>4, <3>2
  <2> QED
    BY <1>10, <2>3, <2>4
<1>22. Transferring'
  BY <1>19, <1>20, <1>21 DEF Transferring
<1> QED
  BY <1>6, <1>7, <1>10, <1>11, <1>17, <1>22

-----------------------------------------------------------------------------
(* A drive gets on with its command.                                       *)

\* The status of one drive is written.
WithStatus(h, drive, s) == [h EXCEPT !.status[drive] = s]

LEMMA StatusWritten ==
    ASSUME NEW h, BusTyped(h), NEW drive \in DriveNames, NEW s \in Statuses,
           NEW g, g = WithStatus(h, drive, s)
    PROVE  /\ BusTyped(g) /\ g.head = h.head /\ g.reg = h.reg /\ g.op = h.op
           /\ g.at = h.at /\ g.left = h.left /\ g.more = h.more
           /\ g.status[drive] = s
           /\ \A other \in DriveNames \ {drive} : g.status[other] = h.status[other]
<1> DEFINE status == [h.status EXCEPT ![drive] = s]
<1>1. /\ IsBus(h) /\ h.status \in [DriveNames -> Statuses]
  BY DEF BusTyped
<1>2. /\ status \in [DriveNames -> Statuses] /\ status[drive] = s
      /\ \A other \in DriveNames \ {drive} : status[other] = h.status[other]
  BY <1>1
<1>3. g = [h EXCEPT !.status = status]
  BY <1>1 DEF WithStatus, IsBus
<1> HIDE DEF status
<1>4. /\ IsBus(g) /\ g.head = h.head /\ g.reg = h.reg /\ g.op = h.op /\ g.at = h.at
      /\ g.left = h.left /\ g.more = h.more /\ g.status = status
  BY <1>1, <1>2, <1>3 DEF IsBus
<1> QED
  BY <1>2, <1>4 DEF BusTyped

\* What a drive does: it asks for data or fails, when it was busy, or ends.
Advance(bus, drive, s) ==
    /\ hw' = [hw EXCEPT ![bus] = WithStatus(hw[bus], drive, s)]
    /\ s \in {"drq", "err"} =>
           /\ hw[bus].status[drive] = "busy"
           /\ hw[bus].op \in Transfers \cup {"identify", "nop"}
    /\ s = "drq" => hw[bus].op # "nop"
    /\ failed' = (failed \/ (s = "err" /\ hw[bus].op # "nop"))

\* Every step of a drive is one of these.
LEMMA DriveAdvance ==
    ASSUME NEW bus \in BusNames, NEW drive \in DriveNames, failed \in BOOLEAN, DriveStep(bus, drive)
    PROVE  \E s \in {"drq", "err", "ready"} : Advance(bus, drive, s)
<1>1. \A s : [hw EXCEPT ![bus].status[drive] = s]
                 = [hw EXCEPT ![bus] = WithStatus(hw[bus], drive, s)]
  BY DEF WithStatus
<1>2. "nop" \notin Transfers \cup {"identify"} /\ {"read_ext", "write_ext"} \subseteq Transfers
  BY DEF Transfers
<1>3. CASE /\ hw[bus].status[drive] = "busy"
           /\ hw[bus].op \in Transfers \cup {"identify"}
           /\ hw' = [hw EXCEPT ![bus].status[drive] = "drq"] /\ UNCHANGED failed
  BY <1>1, <1>2, <1>3 DEF Advance
<1>4. CASE /\ hw[bus].status[drive] = "busy"
           /\ hw[bus].op \in Transfers \cup {"identify"}
           /\ hw' = [hw EXCEPT ![bus].status[drive] = "err"] /\ failed' = TRUE
  BY <1>1, <1>2, <1>4 DEF Advance
<1>5. CASE /\ hw[bus].status[drive] = "busy" /\ hw[bus].op = "nop"
           /\ hw' = [hw EXCEPT ![bus].status[drive] = "err"] /\ UNCHANGED failed
  BY <1>1, <1>5 DEF Advance
<1>6. CASE hw' = [hw EXCEPT ![bus].status[drive] = "ready"] /\ UNCHANGED failed
  BY <1>1, <1>6 DEF Advance
<1> QED
  BY <1>2, <1>3, <1>4, <1>5, <1>6 DEF DriveStep

\* A drive that is not waited for stays still.
LEMMA DriveStepHardware ==
    ASSUME HardwareInv, NEW bus \in BusNames, NEW drive \in DriveNames,
           NEW s \in {"drq", "err", "ready"}, Advance(bus, drive, s),
           UNCHANGED <<machine, pc, b>>
    PROVE  HardwareInv'
<1>1. PICK h : h = hw[bus]
  OBVIOUS
<1>2. PICK g : g = WithStatus(h, drive, s)
  OBVIOUS
<1>3. DOMAIN hw = BusNames /\ BusTyped(h) /\ OneAtWork(h, bus) /\ (Active(bus) \/ Still(h))
  BY <1>1 DEF HardwareInv, Calm
<1>4. s \in Statuses
  BY DEF Statuses
<1>5. /\ BusTyped(g) /\ g.head = h.head /\ g.op = h.op /\ g.status[drive] = s
      /\ \A other \in DriveNames \ {drive} : g.status[other] = h.status[other]
  BY <1>2, <1>3, <1>4, StatusWritten
<1>6. /\ hw' = [hw EXCEPT ![bus] = g]
      /\ s \in {"drq", "err"} => h.status[drive] = "busy" /\ h.op \in Transfers \cup {"identify", "nop"}
      /\ s = "drq" => h.op # "nop"
  BY <1>1, <1>2 DEF Advance
<1>7. OneAtWork(g, bus)
  BY <1>3, <1>5, <1>6 DEF OneAtWork, AtWork
<1>8. Still(h) => Still(g)
  <2>1. SUFFICES ASSUME Still(h)
                 PROVE  Still(g)
    OBVIOUS
  <2>2. h.head.drive \in DriveNames
    BY <1>3 DEF BusTyped, Heads
  <2>3. CASE h.head.drive # drive
    BY <1>5, <2>1, <2>2, <2>3 DEF Still
  <2>4. CASE h.head.drive = drive
    <3>1. s \in {"err", "ready"}
      BY <1>6, <2>1, <2>4 DEF Still, Transfers
    <3> QED
      BY <1>5, <2>4, <3>1 DEF Still
  <2> QED
    BY <2>3, <2>4
<1>9. DOMAIN hw' = BusNames /\ hw'[bus] = g /\ \A x \in BusNames \ {bus} : hw'[x] = hw[x]
  BY <1>3, <1>6
<1>10. ASSUME NEW x \in BusNames
       PROVE  (BusTyped(hw[x]) /\ Calm(hw[x], x))'
  <2>1. Active(x)' = Active(x)
    BY DEF Active
  <2>2. CASE x = bus
    BY <1>3, <1>5, <1>7, <1>8, <1>9, <2>1, <2>2 DEF BusTyped, IsBus, OneAtWork, Calm, Still
  <2>3. CASE x # bus
    <3>1. BusTyped(hw[x]) /\ OneAtWork(hw[x], x) /\ (Active(x) \/ Still(hw[x]))
      BY DEF HardwareInv, Calm
    <3> QED
      BY <1>9, <2>1, <2>3, <3>1 DEF BusTyped, IsBus, OneAtWork, Calm, Still
  <2> QED
    BY <2>2, <2>3
<1> QED
  BY <1>9, <1>10 DEF HardwareInv

\* The registers of the bus in use are not written.
LEMMA DriveStepHere ==
    ASSUME HardwareInv, b \in 1 .. 2, NEW bus \in BusNames, NEW drive \in DriveNames,
           NEW s \in {"drq", "err", "ready"}, Advance(bus, drive, s), b' = b
    PROVE  /\ Here'.head = Here.head /\ Here'.reg = Here.reg /\ Here'.op = Here.op
           /\ Here'.at = Here.at /\ Here'.left = Here.left /\ Here'.more = Here.more
           /\ \/ Here'.status[Here.head.drive] = Here.status[Here.head.drive]
              \/ /\ Here'.status[Here.head.drive] = s
                 /\ s \in {"drq", "err"} =>
                      /\ Here.status[Here.head.drive] = "busy"
                      /\ Here.op \in Transfers \cup {"identify", "nop"}
                 /\ s = "drq" => Here.op # "nop"
                 /\ s = "err" /\ Here.op # "nop" => failed'
<1>1. /\ Buses[b] \in BusNames /\ Here = hw[Buses[b]] /\ BusTyped(Here)
      /\ Here.head.drive \in DriveNames /\ DOMAIN hw = BusNames
  BY HereIsTyped DEF HardwareInv
<1>2. Here' = hw'[Buses[b]]
  BY DEF Here
<1>3. CASE bus # Buses[b]
  BY <1>1, <1>2, <1>3 DEF Advance
<1>4. CASE bus = Buses[b]
  <2>1. PICK g : g = WithStatus(Here, drive, s)
    OBVIOUS
  <2>2. Here' = g
    BY <1>1, <1>2, <1>4, <2>1 DEF Advance
  <2>3. s \in Statuses
    BY DEF Statuses
  <2>4. /\ g.head = Here.head /\ g.reg = Here.reg /\ g.op = Here.op
        /\ g.at = Here.at /\ g.left = Here.left /\ g.more = Here.more /\ g.status[drive] = s
        /\ \A other \in DriveNames \ {drive} : g.status[other] = Here.status[other]
    BY <1>1, <2>1, <2>3, StatusWritten
  <2>5. /\ s \in {"drq", "err"} => /\ Here.status[drive] = "busy"
                                   /\ Here.op \in Transfers \cup {"identify", "nop"}
        /\ s = "drq" => Here.op # "nop"
        /\ s = "err" /\ Here.op # "nop" => failed'
    BY <1>1, <1>4 DEF Advance
  <2>6. CASE Here.head.drive = drive
    BY <2>2, <2>4, <2>5, <2>6
  <2>7. CASE Here.head.drive # drive
    BY <1>1, <2>2, <2>4, <2>7
  <2> QED
    BY <2>6, <2>7
<1> QED
  BY <1>3, <1>4

\* The registers and the progress stay what they are.
LEMMA DriveStepTransfer ==
    ASSUME HardwareInv, RequestInv, TransferInv, NEW bus \in BusNames, NEW drive \in DriveNames,
           NEW s \in {"drq", "err", "ready"}, Advance(bus, drive, s),
           UNCHANGED <<machine, pc, b, written, dev, req, moved>>
    PROVE  TransferInv'
<1>1. Start' = Start /\ Wide' = Wide /\ FirstLow' = FirstLow
  BY DEF Start, Wide, FirstLow
<1>2. CASE pc \in {"set", "command"}
  <2>1. b \in 1 .. 2
    BY <1>2 DEF RequestInv, Using
  <2>2. Here'.head = Here.head /\ Here'.reg = Here.reg
    BY <2>1, DriveStepHere
  <2>3. \A n : SoFar(Here, n) => SoFar(Here, n)'
    BY <1>1, <2>2 DEF SoFar
  <2>4. ZeroHead' = ZeroHead
    BY DEF ZeroHead
  <2> QED
    BY <1>2, <2>2, <2>3, <2>4 DEF TransferInv
<1>3. CASE pc \in {"poll", "flush"}
  <2>1. b \in 1 .. 2
    BY <1>3 DEF RequestInv, Using
  <2>2. PICK h, g : h = Here /\ g = Here'
    OBVIOUS
  <2>3. PICK raw, new : raw = h.status[h.head.drive] /\ new = g.status[h.head.drive]
    OBVIOUS
  <2>4. /\ g.head = h.head /\ g.op = h.op /\ g.at = h.at /\ g.left = h.left /\ g.more = h.more
        /\ \/ new = raw
           \/ /\ new = s
              /\ s \in {"drq", "err"} =>
                   raw = "busy" /\ h.op \in Transfers \cup {"identify", "nop"}
              /\ s = "drq" => h.op # "nop"
              /\ s = "err" /\ h.op # "nop" => failed'
    BY <2>1, <2>2, <2>3, DriveStepHere
  <2>5. Transferring
    BY <1>3 DEF TransferInv
  <2>6. Underway(Here)' => Underway(Here)
    BY <2>2, <2>3, <2>4 DEF Underway, Transfers
  <2>7. ASSUME NEW n \in Nat, Progress(Here, n)
        PROVE  Progress(Here, n)'
    <3>1. new = "busy" => g.left = Words
      <4>1. raw = "busy" => h.left = Words
        BY <2>2, <2>3, <2>7 DEF Progress
      <4> QED
        BY <2>4, <4>1
    <3> QED
      BY <1>1, <2>2, <2>3, <2>4, <2>7, <3>1 DEF Progress
  <2>8. ide_check_error' => failed'
    <3>1. SUFFICES ASSUME ide_check_error'
                   PROVE  failed'
      OBVIOUS
    <3>2. new = "err" /\ Kind(Here.head.drive) # "none"
      <4>1. StatusOf(Here, Here.head.drive)' = "err"
        BY <3>1 DEF ide_check_error, ide_status
      <4> QED
        BY <2>2, <2>3, <2>4, <4>1 DEF StatusOf, Kind
    <3>3. CASE new = s /\ new # raw
      <4>1. s = "err" /\ raw = "busy"
        BY <2>4, <3>2, <3>3
      <4>2. h.op # "nop"
        <5>1. SUFFICES ASSUME h.op = "nop"
                       PROVE  FALSE
          OBVIOUS
        <5>2. Underway(Here)
          BY <2>2, <2>3, <4>1, <5>1 DEF Underway
        <5>3. Here.op \in Transfers
          BY <2>5, <5>2 DEF Transferring, Progress
        <5> QED
          BY <2>2, <5>1, <5>3 DEF Transfers
      <4> QED
        BY <2>4, <3>3, <4>1, <4>2
    <3>4. CASE new = raw
      <4>1. ide_check_error
        BY <2>2, <2>3, <3>2, <3>4 DEF ide_check_error, ide_status, StatusOf
      <4> QED
        BY <2>5, <4>1 DEF Transferring, Advance
    <3> QED
      BY <2>4, <3>3, <3>4
  <2>9. ASSUME Trusted', NEW k \in 1 .. Len(moved')
        PROVE  moved'[k] = WordAt(k)'
    <3>1. Trusted
      BY <2>9 DEF Trusted, Advance
    <3>2. WordAt(k)' = WordAt(k)
      BY <1>1 DEF WordAt
    <3> QED
      BY <2>5, <3>1, <3>2 DEF Transferring
  <2>10. Underway(Here)' => \E n \in Nat : Progress(Here, n)'
    BY <2>5, <2>6, <2>7 DEF Transferring
  <2>11. Transferring'
    BY <2>8, <2>9, <2>10 DEF Transferring
  <2> QED
    BY <1>3, <2>11 DEF TransferInv
<1>4. CASE pc \notin {"set", "command", "poll", "flush"}
  BY <1>4 DEF TransferInv
<1> QED
  BY <1>2, <1>3, <1>4

-----------------------------------------------------------------------------
(* The steps of ide_init.                                                  *)

\* Without a request there is nothing to show but for the buses.
LEMMA NoRequest ==
    ASSUME RequestInv, UNCHANGED <<moved, failed>>, pc' \notin Using \cup {"done"}
    PROVE  RequestInv' /\ TransferInv' /\ WordsMoved'
<1>1. RequestInv'
  BY DEF RequestInv, Using
<1>2. TransferInv'
  BY DEF TransferInv, Using
<1>3. WordsMoved'
  BY DEF WordsMoved
<1> QED
  BY <1>1, <1>2, <1>3

\* The steps that write no bus.
LEMMA ide_init_sound ==
    ASSUME IdeInv, Sound, ide_init \/ identify_waits \/ ide_init_end
    PROVE  Sound'
<1>1. UNCHANGED <<machine, hw, moved, failed>> /\ pc' \notin Using \cup {"done"}
  BY DEF ide_init, identify_waits, ide_init_end, hardware, request, Using
<1>2. \A x \in BusNames : Active(x)' \/ Still(hw[x])
  <2>1. CASE identify_waits
    <3>1. \A x \in BusNames : Active(x) => Active(x)'
      BY <2>1 DEF identify_waits, Active
    <3> QED
      BY <3>1 DEF Sound, HardwareInv, Calm
  <2>2. CASE ide_init \/ ide_init_end
    <3>1. \A x \in BusNames : ~ Active(x)
      BY <2>2 DEF ide_init, ide_init_end, Active
    <3> QED
      BY <3>1 DEF Sound, HardwareInv, Calm
  <2> QED
    BY <2>1, <2>2
<1>3. HardwareInv'
  BY <1>1, <1>2, NothingWritten DEF Sound
<1> QED
  BY <1>1, <1>3, NoRequest DEF Sound

\* The drive looked at is not there, or has failed the command.
LEMMA identify_no_drive_sound ==
    ASSUME IdeInv, Sound, identify_no_drive
    PROVE  Sound'
<1>1. UNCHANGED <<machine, hw, moved, failed>> /\ b \in 1 .. 2
      /\ pc' \in {"release", "identify"}
  BY DEF identify_no_drive, hardware, request, After, IdeInv, IdeTypes
<1>2. Still(Here)
  <2>1. ide_status \in {"zero", "err"}
    BY DEF identify_no_drive, ide_check_error
  <2> QED
    BY <1>1, <2>1, StatusIsRaw DEF Sound, Still, RawStatus, AtWork
<1>3. \A x \in BusNames : Active(x)' \/ Still(hw[x])
  <2>1. \A x \in BusNames : x = Buses[b] \/ ~ Active(x)
    BY DEF Active
  <2>2. Here = hw[Buses[b]]
    BY DEF Here
  <2> QED
    BY <1>2, <2>1, <2>2 DEF Sound, HardwareInv, Calm
<1>4. HardwareInv'
  BY <1>1, <1>3, NothingWritten DEF Sound
<1>5. pc' \notin Using \cup {"done"}
  BY <1>1 DEF Using
<1> QED
  BY <1>1, <1>4, <1>5, NoRequest DEF Sound

\* The drive looked at is selected.
LEMMA identify_sound ==
    ASSUME IdeInv, Sound, identify
    PROVE  Sound'
<1>1. /\ UNCHANGED <<machine, b, moved, failed>> /\ b \in 1 .. 2 /\ d \in 1 .. 2
      /\ pc = "identify" /\ pc' \notin Using \cup {"done"} /\ ide_select_drive(Drives[d])
  BY DEF identify, request, IdeInv, IdeTypes, Using
<1>2. Drives[d] \in DriveNames
  BY <1>1, HereIsAPlace
<1>3. Still(Here)
  BY <1>1, HereIsTyped DEF Sound, Active
<1>4. HardwareInv'
  BY <1>1, <1>2, <1>3, DriveChosen DEF Sound
<1> QED
  BY <1>1, <1>4, NoRequest DEF Sound

\* A register is cleared, if the drive takes notice.
LEMMA identify_clear_sound ==
    ASSUME IdeInv, Sound, identify_clear
    PROVE  Sound'
<1>1. /\ UNCHANGED <<machine, b, moved, failed>> /\ b \in 1 .. 2
      /\ pc = "clear" /\ pc' \notin Using \cup {"done"} /\ written \in 0 .. 3
  BY DEF identify_clear, request, IdeInv, IdeTypes, Using
<1>2. PICK k \in 1 .. 4, value \in Nat :
        k = (written % 4) + 1 /\ value = <<0, 0, 0, 0>>[written + 1]
  <2>1. (written % 4) + 1 \in 1 .. 4
    BY <1>1, Fours
  <2>2. <<0, 0, 0, 0>>[written + 1] \in Nat
    BY <1>1
  <2> QED
    BY <2>1, <2>2
<1>3. PICK g : g = IF Notices THEN WriteRegister(Here, k, value) ELSE Here
  OBVIOUS
<1>4. hw' = [hw EXCEPT ![Buses[b]] = g]
  BY <1>2, <1>3 DEF identify_clear, ide_write_reg, ToBus
<1>5. BusTyped(Here) /\ OneAtWork(Here, Buses[b]) /\ Still(Here)
  BY <1>1, HereIsTyped DEF Sound, Active
<1>6. BusTyped(g) /\ OneAtWork(g, Buses[b]) /\ Still(g)
  <2>1. CASE Notices
    <3>1. g = WriteRegister(Here, k, value)
      BY <1>3, <2>1
    <3> QED
      BY <1>1, <2>1, <3>1, RegisterOfBus DEF Sound, IdeInv
  <2>2. CASE ~ Notices
    BY <1>3, <1>5, <2>2
  <2> QED
    BY <2>1, <2>2
<1>7. HardwareInv'
  BY <1>1, <1>4, <1>6, HereWritten DEF Sound
<1> QED
  BY <1>1, <1>7, NoRequest DEF Sound

\* A drive that is not busy is told to identify itself.
LEMMA identify_command_sound ==
    ASSUME IdeInv, Sound, identify_command
    PROVE  Sound'
<1>1. /\ UNCHANGED <<machine, b, moved, failed>> /\ b \in 1 .. 2
      /\ pc = "ask" /\ pc' = "status" /\ pc' \notin Using \cup {"done"}
      /\ ide_status # "busy"
  BY DEF identify_command, request, IdeInv, IdeTypes, Using
<1>2. PICK g : g = Commanded(Here, "identify")
  OBVIOUS
<1>3. hw' = [hw EXCEPT ![Buses[b]] = g]
  BY <1>2 DEF identify_command, ToBus
<1>4. /\ BusTyped(Here) /\ OneAtWork(Here, Buses[b])
      /\ Here.status[Here.head.drive] # "busy"
  BY <1>1, HereIsTyped, StatusIsRaw DEF Sound, RawStatus
<1>5. BusTyped(g) /\ OneAtWork(g, Buses[b])
  BY <1>1, <1>2, <1>4, CommandGiven
<1>6. b' = b /\ Active(Buses[b])'
  BY <1>1 DEF Active
<1>7. HardwareInv'
  BY <1>1, <1>3, <1>5, <1>6, HereWritten DEF Sound
<1> QED
  BY <1>1, <1>7, NoRequest DEF Sound

\* The drives of the bus are reset.
LEMMA identify_words_sound ==
    ASSUME IdeInv, Sound, identify_words
    PROVE  Sound'
<1>1. /\ UNCHANGED <<machine, b, moved, failed>> /\ b \in 1 .. 2 /\ pc' = "type"
  BY DEF identify_words, request, IdeInv, IdeTypes
<1>2. PICK status : status = [drive \in DriveNames |-> "reset"]
  OBVIOUS
<1>3. PICK g : g = [Here EXCEPT !.head = ZeroHead, !.status = status]
  OBVIOUS
<1>4. BusTyped(Here)
  BY <1>1, HereIsTyped DEF Sound
<1>5. /\ IsBus(g) /\ g.head = ZeroHead /\ g.reg = Here.reg /\ g.status = status
      /\ g.op = Here.op
  BY <1>2, <1>3, <1>4 DEF BusTyped, IsBus
<1>6. ZeroHead \in Heads /\ ZeroHead.drive = "master"
  <2>1. ZeroHead.drive = "master"
    BY DEF ZeroHead, Selected, DriveHead
  <2> QED
    BY <2>1, ZeroIsHead DEF IdeInv
<1>7. BusTyped(g)
  <2>1. status \in [DriveNames -> Statuses]
    BY <1>2 DEF Statuses
  <2> QED
    BY <1>4, <1>5, <1>6, <2>1 DEF BusTyped
<1>8. OneAtWork(g, Buses[b]) /\ Still(g)
  BY <1>2, <1>5, <1>6 DEF OneAtWork, Still, DriveNames, AtWork
<1>9. hw' = [hw EXCEPT ![Buses[b]] = g]
  BY <1>2, <1>3, NameFacts DEF identify_words, ToBus
<1>10. HardwareInv'
  BY <1>1, <1>7, <1>8, <1>9, HereWritten DEF Sound
<1>11. pc' \notin Using \cup {"done"}
  BY <1>1 DEF Using
<1> QED
  BY <1>1, <1>10, <1>11, NoRequest DEF Sound

\* The drive is selected again after the reset.
LEMMA ide_save_device_ide_type_sound ==
    ASSUME IdeInv, Sound, ide_save_device_ide_type
    PROVE  Sound'
<1>1. /\ UNCHANGED <<machine, moved, failed>> /\ b \in 1 .. 2 /\ d \in 1 .. 2
      /\ pc = "type" /\ pc' \in {"release", "identify"} /\ ide_select_drive(Drives[d])
  BY DEF ide_save_device_ide_type, request, IdeInv, IdeTypes, After
<1>2. Drives[d] \in DriveNames
  BY <1>1, HereIsAPlace
<1>3. Still(Here)
  BY <1>1, HereIsTyped DEF Sound, Active
<1>4. HardwareInv'
  BY <1>1, <1>2, <1>3, DriveChosen DEF Sound
<1>5. pc' \notin Using \cup {"done"}
  BY <1>1 DEF Using
<1> QED
  BY <1>1, <1>4, <1>5, NoRequest DEF Sound

-----------------------------------------------------------------------------
(* The steps of a request.                                                 *)

\* A step that writes nothing to a bus, and waits for none.
LEMMA NothingAwaited ==
    ASSUME HardwareInv, UNCHANGED <<machine, hw>>, pc \notin {"status", "wait", "poll", "flush"}
    PROVE  HardwareInv'
<1>1. \A x \in BusNames : Active(x)' \/ Still(hw[x])
  BY DEF Active, HardwareInv, Calm
<1> QED
  BY <1>1, NothingWritten

\* A request is taken or refused.
LEMMA ide_request_sound ==
    ASSUME IdeInv, Sound, NEW r \in Requests, ide_request(r)
    PROVE  Sound'
<1>1. /\ pc = "idle" /\ UNCHANGED <<machine, hw>> /\ req' = r /\ moved' = <<>> /\ failed' = FALSE
      /\ IF r.sectors # 0 /\ Accepted(r)
         THEN /\ dev' = ide_devices[r.id] /\ b' = Place(ide_devices[r.id].bus, Buses)
              /\ pc' = "select" /\ result' = FALSE
         ELSE pc' = "done" /\ result' = (r.sectors = 0)
  BY DEF ide_request
<1>2. HardwareInv'
  BY <1>1, NothingAwaited DEF Sound
<1>3. TransferInv'
  BY <1>1 DEF TransferInv
<1>4. <<>> \in Seq(WordPlaces)
  OBVIOUS
<1>5. r.sectors \in Nat /\ r.id \in Nat /\ r.id > 0
  BY RequestTyped
<1>6. CASE r.sectors # 0 /\ Accepted(r)
  <2>1. r.id \in 1 .. Len(ide_devices) /\ ide_devices \in Seq(ide_device_t)
    BY <1>5, <1>6 DEF Accepted, IdeInv, IdeTypes
  <2>2. ide_devices[r.id] \in ide_device_t
    BY <2>1
  <2>3. ide_devices[r.id].bus \in BusNames
    BY <2>2, NameFacts DEF ide_device_t
  <2>4. Place(ide_devices[r.id].bus, Buses) \in 1 .. 2
    <3>1. \E k \in DOMAIN Buses : Buses[k] = ide_devices[r.id].bus
      BY <2>3, NameFacts DEF BusNames
    <3> QED
      BY <3>1, NameFacts DEF Place
  <2>5. RequestInv'
    <3>1. /\ pc' = "select" /\ req' = r /\ moved' = <<>> /\ failed' = FALSE /\ result' = FALSE
          /\ dev' \in ide_device_t /\ b' \in 1 .. 2
      BY <1>1, <1>6, <2>2, <2>4
    <3>2. r.sectors > 0
      BY <1>5, <1>6
    <3> QED
      BY <1>4, <3>1, <3>2 DEF RequestInv, Using
  <2>6. WordsMoved'
    BY <1>1, <1>6 DEF WordsMoved
  <2> QED
    BY <1>2, <1>3, <2>5, <2>6 DEF Sound
<1>7. CASE ~ (r.sectors # 0 /\ Accepted(r))
  <2>1. pc' = "done" /\ result' = (r.sectors = 0)
    BY <1>1, <1>7
  <2>2. RequestInv'
    BY <1>1, <1>4, <2>1 DEF RequestInv, Using
  <2>3. ~ (result' /\ req'.sectors > 0)
    <3>1. result' => r.sectors = 0
      BY <2>1, Zenon
    <3>2. r.sectors = 0 => ~ (r.sectors > 0)
      OBVIOUS
    <3> QED
      BY <1>1, <3>1, <3>2, Zenon
  <2>4. WordsMoved'
    BY <2>3 DEF WordsMoved
  <2> QED
    BY <1>2, <1>3, <2>2, <2>4 DEF Sound
<1> QED
  BY <1>6, <1>7

\* The answer is given.
LEMMA ide_request_end_sound ==
    ASSUME IdeInv, Sound, ide_request_end
    PROVE  Sound'
<1>1. /\ pc = "done" /\ pc' = "idle" /\ UNCHANGED <<machine, hw>> /\ moved' = <<>>
      /\ failed' = FALSE
  BY DEF ide_request_end
<1>2. HardwareInv'
  BY <1>1, NothingAwaited DEF Sound
<1>3. <<>> \in Seq(WordPlaces)
  OBVIOUS
<1>4. RequestInv'
  BY <1>1, <1>3 DEF RequestInv, Using
<1>5. TransferInv' /\ WordsMoved'
  BY <1>1 DEF TransferInv, WordsMoved
<1> QED
  BY <1>2, <1>4, <1>5 DEF Sound

\* The drive of the request is selected.
LEMMA request_selects_sound ==
    ASSUME IdeInv, Sound, request_selects
    PROVE  Sound'
<1>1. /\ UNCHANGED <<machine, b, dev, req, moved, result, failed>>
      /\ pc = "select" /\ pc' \in {"done", "head"} /\ ide_select_drive(dev.drive)
      /\ pc' = "head" => dev.addr_mode \in Modes
  BY DEF request_selects, request
<1>2. /\ b \in 1 .. 2 /\ dev \in ide_device_t /\ ~ result /\ moved = <<>>
      /\ req \in Requests /\ req.sectors > 0
  BY <1>1 DEF Sound, RequestInv, Using
<1>3. dev.drive \in DriveNames
  BY <1>2, NameFacts DEF ide_device_t
<1>4. Still(Here)
  BY <1>1, <1>2, HereIsTyped DEF Sound, Active
<1>5. HardwareInv'
  BY <1>1, <1>2, <1>3, <1>4, DriveChosen DEF Sound
<1>6. RequestInv'
  BY <1>1, <1>2 DEF Sound, RequestInv, Using
<1>7. TransferInv' /\ WordsMoved'
  BY <1>1, <1>2 DEF TransferInv, WordsMoved
<1> QED
  BY <1>5, <1>6, <1>7 DEF Sound

\* DRIVE_HEAD is written, unless the drive takes no notice.
LEMMA init_transaction_head_sound ==
    ASSUME IdeInv, Sound, init_transaction_head, ~ deaf'
    PROVE  Sound'
<1>1. /\ UNCHANGED <<machine, b, written, dev, req, moved, result, failed>>
      /\ pc = "head" /\ pc' = "set" /\ Notices
      /\ ToBus(WriteHead(Here, HeadOf(dev, req)))
  BY DEF init_transaction_head, request
<1>2. /\ b \in 1 .. 2 /\ dev \in ide_device_t /\ ~ result /\ moved = <<>>
      /\ req \in Requests /\ req.sectors > 0 /\ dev.addr_mode \in Modes
  BY <1>1 DEF Sound, RequestInv, Using
<1>3. written = 0
  BY <1>1 DEF IdeInv, IdeTypes
<1>4. HeadOf(dev, req) \in Heads
  <2>1. dev.drive \in DriveNames
    BY <1>2, NameFacts DEF ide_device_t
  <2>2. Digit(req.address, 3) \in Nat
    BY <1>2, RequestTyped, DigitsAreNumbers
  <2>3. PICK nibble \in Nat : nibble = IF dev.addr_mode = "lba48" THEN 0 ELSE Digit(req.address, 3)
    BY <2>2
  <2>4. HeadOf(dev, req) = DriveHead(dev.drive, dev.addr_mode # "chs", nibble)
    BY <2>3 DEF HeadOf
  <2> QED
    BY <2>1, <2>4 DEF DriveHead, Heads
<1>5. PICK g : g = WriteHead(Here, HeadOf(dev, req))
  OBVIOUS
<1>6. BusTyped(Here) /\ Resting(Here)
  BY <1>1, <1>2, HereIsTyped, AtRest DEF Sound
<1>7. BusTyped(g) /\ OneAtWork(g, Buses[b]) /\ Still(g)
  BY <1>2, <1>4, <1>5, <1>6, HeadWritten
<1>8. hw' = [hw EXCEPT ![Buses[b]] = g]
  BY <1>1, <1>5 DEF ToBus
<1>9. HardwareInv'
  BY <1>1, <1>2, <1>7, <1>8, HereWritten DEF Sound
<1>10. RequestInv'
  BY <1>1, <1>2 DEF Sound, RequestInv, Using
<1>11. TransferInv'
  <2>1. \A h : SoFar(h, 0)
    BY DEF SoFar, FirstLow
  <2>2. SoFar(Here, written)'
    BY <1>1, <1>3, <2>1 DEF SoFar, FirstLow
  <2> QED
    BY <1>1, <2>2 DEF TransferInv
<1>12. WordsMoved'
  BY <1>1 DEF WordsMoved
<1> QED
  BY <1>9, <1>10, <1>11, <1>12 DEF Sound

\* One of the registers is written, unless the drive takes no notice.
LEMMA ide_init_transaction_sound ==
    ASSUME IdeInv, Sound, ide_init_transaction, ~ deaf'
    PROVE  Sound'
<1>1. /\ UNCHANGED <<machine, b, dev, req, moved, result, failed>>
      /\ pc = "set" /\ Notices
      /\ pc' = IF written' = 0 THEN "command" ELSE "set"
  BY DEF ide_init_transaction, request
<1>2. /\ b \in 1 .. 2 /\ dev \in ide_device_t /\ ~ result /\ moved = <<>>
      /\ req \in Requests /\ req.sectors > 0 /\ dev.addr_mode \in Modes
      /\ SoFar(Here, written)
  BY <1>1 DEF Sound, RequestInv, TransferInv, Using
<1>3. PICK V : V = Values(dev.addr_mode, req)
  OBVIOUS
<1>4. PICK n \in Nat : n = written /\ n < Len(V)
  BY <1>1, <1>3 DEF IdeInv, IdeTypes
<1>5. PICK g : g = WriteRegister(Here, (n % 4) + 1, V[n + 1])
  OBVIOUS
<1>6. /\ hw' = [hw EXCEPT ![Buses[b]] = g]
      /\ written' = IF n + 1 = Len(V) THEN 0 ELSE n + 1
  BY <1>1, <1>3, <1>4, <1>5 DEF ide_init_transaction, ide_write_reg, ToBus
<1>7. BusTyped(Here)
  BY <1>2, HereIsTyped DEF Sound
<1>8. /\ BusTyped(g) /\ g.status = Here.status /\ SoFar(g, n + 1)
      /\ n + 1 = Len(V) => g.head = ZeroHead
  BY <1>2, <1>3, <1>4, <1>5, <1>7, SoFarGrows DEF IdeInv
<1>9. OneAtWork(g, Buses[b]) /\ Still(g)
  <2>1. Resting(Here)
    BY <1>1, <1>2, AtRest DEF Sound
  <2>2. Resting(g)
    BY <1>8, <2>1 DEF Resting
  <2> QED
    BY <1>8, <2>2, RestingIsStill
<1>10. HardwareInv' /\ Here' = g
  BY <1>1, <1>2, <1>6, <1>8, <1>9, HereWritten DEF Sound
<1>11. n + 1 # 0
  BY <1>4
<1>12. RequestInv'
  BY <1>1, <1>2 DEF Sound, RequestInv, Using
<1>13. \A m : SoFar(g, m) => SoFar(Here, m)'
  BY <1>1, <1>10 DEF SoFar, FirstLow, Wide
<1>14. CASE n + 1 = Len(V)
  <2>1. pc' = "command" /\ Here'.head = ZeroHead /\ ZeroHead' = ZeroHead
    BY <1>1, <1>6, <1>8, <1>10, <1>14 DEF ZeroHead
  <2>2. SoFar(Here, Len(V))'
    BY <1>8, <1>13, <1>14 DEF SoFar
  <2>3. TransferInv'
    BY <1>1, <1>3, <2>1, <2>2 DEF TransferInv
  <2> QED
    BY <1>10, <1>12, <2>1, <2>3 DEF Sound, WordsMoved
<1>15. CASE n + 1 # Len(V)
  <2>1. pc' = "set" /\ written' = n + 1
    BY <1>1, <1>6, <1>11, <1>15
  <2>2. TransferInv'
    BY <1>8, <1>13, <2>1 DEF TransferInv, SoFar
  <2> QED
    BY <1>10, <1>12, <2>1, <2>2 DEF Sound, WordsMoved
<1> QED
  BY <1>14, <1>15

\* The command starts at the first sector of the request, on the master.
LEMMA ide_command_sound ==
    ASSUME IdeInv, Sound, ide_command
    PROVE  Sound'
<1>1. /\ UNCHANGED <<machine, b, dev, req, moved, result, failed>>
      /\ pc = "command" /\ pc' = "poll" /\ ide_status # "busy"
      /\ ToBus(Commanded(Here, Command(dev.addr_mode)))
  BY DEF ide_command, request
<1>2. /\ b \in 1 .. 2 /\ dev \in ide_device_t /\ ~ result /\ moved = <<>>
      /\ req \in Requests /\ req.sectors > 0 /\ dev.addr_mode \in Modes
      /\ failed \in BOOLEAN
  BY <1>1 DEF Sound, RequestInv, Using
<1>3. /\ BusTyped(Here) /\ OneAtWork(Here, Buses[b]) /\ Still(Here)
      /\ Here.status[Here.head.drive] # "busy"
  BY <1>1, <1>2, HereIsTyped, StatusIsRaw DEF Sound, Active, RawStatus
<1>4. PICK h : h = Here
  OBVIOUS
<1>5. h.head = ZeroHead /\ h.head.drive = "master" /\ h.head.lba = FALSE
  <2>1. h.head = ZeroHead
    BY <1>1, <1>4 DEF Sound, TransferInv
  <2> QED
    BY <2>1 DEF ZeroHead, Selected, DriveHead
<1>6. Spelt(h, FALSE) = Start /\ Count(h, Wide) \in 1 .. req.sectors
  <2>1. SoFar(h, Len(Values(dev.addr_mode, req)))
    BY <1>1, <1>4 DEF Sound, TransferInv
  <2> QED
    BY <1>2, <1>3, <1>4, <1>5, <2>1, RegistersSpell
<1>7. PICK op : op = Command(dev.addr_mode)
  OBVIOUS
<1>8. op \in Transfers /\ ((op \in {"read_ext", "write_ext"}) = Wide)
  <2>1. req.op \in {"read", "write"}
    BY <1>2, RequestTyped
  <2> QED
    BY <1>7, <2>1 DEF Command, Transfers, Wide
<1>9. PICK g : g = Commanded(h, op)
  OBVIOUS
<1>10. /\ BusTyped(g) /\ OneAtWork(g, Buses[b]) /\ g.head = h.head
       /\ ~ Takes(h) => g = h
       /\ Takes(h) => /\ g.op = op /\ g.status[h.head.drive] = "busy"
                      /\ g.at = <<"master", FALSE, Start, 0>>
                      /\ g.left = Words /\ g.more = Count(h, Wide) - 1
  <2> DEFINE wide == op \in {"read_ext", "write_ext"}
  <2>1. /\ BusTyped(g) /\ OneAtWork(g, Buses[b]) /\ g.head = h.head
        /\ ~ Takes(h) => g = h
        /\ Takes(h) =>
             /\ g.op = op /\ g.status[h.head.drive] = "busy"
             /\ op \in Transfers =>
                  /\ g.at = <<h.head.drive, h.head.lba, Spelt(h, wide /\ h.head.lba), 0>>
                  /\ g.left = Words /\ g.more = Count(h, wide) - 1
    BY <1>2, <1>3, <1>4, <1>9, CommandGiven
  <2>2. wide = Wide
    BY <1>8
  <2> HIDE DEF wide
  <2>3. (wide /\ h.head.lba) = FALSE
    BY <1>5
  <2>4. Takes(h) => g.at = <<"master", FALSE, Start, 0>>
    <3>1. <<h.head.drive, h.head.lba, Spelt(h, wide /\ h.head.lba), 0>>
              = <<"master", FALSE, Start, 0>>
      BY <1>5, <1>6, <2>3, Zenon
    <3> QED
      BY <1>8, <2>1, <3>1
  <2> QED
    BY <1>8, <2>2, <2>1, <2>4
<1>11. hw' = [hw EXCEPT ![Buses[b]] = g]
  BY <1>1, <1>4, <1>7, <1>9 DEF ToBus
<1>12. b' = b /\ Active(Buses[b])'
  BY <1>1 DEF Active
<1>13. HardwareInv' /\ Here' = g
  BY <1>1, <1>2, <1>10, <1>11, <1>12, HereWritten DEF Sound
<1>14. PICK W \in Nat, S \in Nat : W = Words /\ S = req.sectors /\ W > 0 /\ S > 0
  BY <1>2, RequestTyped, IdeAssumption
<1>15. Len(moved) = 0
  BY <1>2
<1>16. RequestInv'
  <2>1. S * W > 0
    <3>1. PICK k \in Nat : S = k + 1
      BY <1>14
    <3>2. S * W = k * W + W /\ k * W \in Nat
      BY <3>1
    <3> QED
      BY <1>14, <3>2
  <2>2. Len(moved') < req'.sectors * Words
    BY <1>1, <1>14, <1>15, <2>1
  <2> QED
    BY <1>1, <1>2, <2>2 DEF Sound, RequestInv, Using
<1>17. Start' = Start
  BY <1>1 DEF Start
<1>18. ASSUME ~ Takes(h)
       PROVE  (Underway(Here)' => \E s \in Nat : Progress(Here, s)') /\ ~ ide_check_error'
  <2>1. g = h /\ h.status[h.head.drive] \notin {"busy", "drq"}
    BY <1>3, <1>4, <1>10, <1>18 DEF Still
  <2>2. Kind(h.head.drive) = "none" \/ h.status[h.head.drive] = "reset"
    BY <1>18, <2>1 DEF Takes
  <2>3. ~ Underway(Here)'
    BY <1>13, <2>1 DEF Underway
  <2>4. ~ ide_check_error'
    BY <1>1, <1>13, <2>1, <2>2 DEF ide_check_error, ide_status, StatusOf, Kind
  <2> QED
    BY <2>3, <2>4
<1>19. ASSUME Takes(h)
       PROVE  (Underway(Here)' => \E s \in Nat : Progress(Here, s)') /\ ~ ide_check_error'
  <2>1. PICK c \in 1 .. S : c = Count(h, Wide)
    BY <1>6, <1>14
  <2>2. /\ g.op \in Transfers /\ g.left = W /\ g.status[g.head.drive] = "busy"
        /\ g.at = <<"master", FALSE, Start, 0>> /\ g.more = c - 1
    BY <1>8, <1>10, <1>14, <1>19, <2>1
  <2>3. W \in 1 .. W /\ c - 1 \in Nat /\ 0 + 1 + (c - 1) <= S /\ 0 * W + (W - W) = 0
    BY <1>14
  <2>4. Progress(Here, 0)'
    BY <1>1, <1>13, <1>14, <1>15, <1>17, <2>2, <2>3 DEF Progress
  <2>5. ~ ide_check_error'
    BY <1>10, <1>13, <2>2 DEF ide_check_error, ide_status, StatusOf
  <2> QED
    BY <2>4, <2>5
<1>20. Transferring'
  <2>1. \A k \in 1 .. Len(moved') : FALSE
    BY <1>1, <1>15
  <2> QED
    BY <1>18, <1>19, <2>1 DEF Transferring
<1>21. TransferInv' /\ WordsMoved'
  BY <1>1, <1>20 DEF TransferInv, WordsMoved
<1> QED
  BY <1>13, <1>16, <1>21 DEF Sound

\* A read ends with the error, and answers false.
LEMMA ide_read_error_sound ==
    ASSUME IdeInv, Sound, ide_read_error
    PROVE  Sound'
<1>1. /\ UNCHANGED <<machine, hw, b, dev, req, result, failed>>
      /\ pc = "poll" /\ ide_status = "err" /\ moved' = <<>> /\ pc' = "done"
  BY DEF ide_read_error, hardware, ide_check_error
<1>2. b \in 1 .. 2 /\ ~ result /\ failed \in BOOLEAN
  BY <1>1 DEF Sound, RequestInv, Using
<1>3. Here.status[Here.head.drive] = "err"
  BY <1>1, <1>2, StatusIsRaw DEF Sound, RawStatus
<1>4. Still(Here)
  BY <1>3 DEF Still
<1>5. HardwareInv'
  <2>1. ASSUME NEW x \in BusNames
        PROVE  Active(x)' \/ Still(hw[x])
    <3>1. CASE x = Buses[b]
      BY <1>4, <3>1 DEF Here
    <3>2. CASE x # Buses[b]
      BY <3>2 DEF Sound, HardwareInv, Calm, Active
    <3> QED
      BY <3>1, <3>2
  <2> QED
    BY <1>1, <2>1, NothingWritten DEF Sound
<1>6. <<>> \in Seq(WordPlaces)
  OBVIOUS
<1>7. RequestInv'
  BY <1>1, <1>2, <1>6 DEF RequestInv, Using
<1>8. TransferInv' /\ WordsMoved'
  BY <1>1, <1>2 DEF TransferInv, WordsMoved
<1> QED
  BY <1>5, <1>7, <1>8 DEF Sound

\* The words of a request that is answered with true.
LEMMA WordsAreRight ==
    ASSUME RequestInv, req \in Requests, Transferring,
           Len(moved) = req.sectors * Words, Trusted
    PROVE  moved = [k \in 1 .. req.sectors * Words |-> WordAt(k)]
<1>1. moved \in Seq(WordPlaces)
  BY DEF RequestInv
<1>2. \A k \in 1 .. Len(moved) : moved[k] = WordAt(k)
  BY DEF Transferring
<1>3. DOMAIN moved = 1 .. req.sectors * Words /\ moved = [k \in DOMAIN moved |-> moved[k]]
  BY <1>1
<1> QED
  BY <1>2, <1>3

\* Every word has been moved.
AllMoved ==
    RequestInv /\ req \in Requests /\ Transferring /\ Len(moved) = req.sectors * Words

\* So what WordsMoved says of the end of the request holds.
LEMMA DoneIsRight == AllMoved => WordsMoved
<1> SUFFICES ASSUME AllMoved
             PROVE  WordsMoved
  OBVIOUS
<1> USE DEF AllMoved
<1>1. CASE Trusted
  BY <1>1, WordsAreRight DEF WordsMoved, WordAt, Start
<1>2. CASE ~ Trusted
  BY <1>2 DEF WordsMoved, Trusted
<1> QED
  BY <1>1, <1>2

\* A word is read.
LEMMA ide_read_word_sound ==
    ASSUME IdeInv, Sound, ide_read_word
    PROVE  Sound'
<1>1. /\ UNCHANGED <<machine, b, dev, req, failed>>
      /\ pc = "poll" /\ ide_status = "drq" /\ moved' = Append(moved, PlaceOf(Here))
      /\ ToBus(Moved(Here))
      /\ pc' = (IF More THEN "poll" ELSE "done") /\ result' = ~ More
  BY DEF ide_read_word
<1>2. /\ req \in Requests /\ req.sectors > 0 /\ dev \in ide_device_t /\ b \in 1 .. 2
      /\ dev.addr_mode \in Modes /\ moved \in Seq(WordPlaces) /\ failed \in BOOLEAN
      /\ Len(moved) < req.sectors * Words /\ Transferring
  BY <1>1 DEF Sound, RequestInv, TransferInv, Using
<1>3. PICK n \in Nat, N \in Nat : n = Len(moved) /\ N = req.sectors * Words
  BY <1>2, RequestTyped, IdeAssumption
<1>4. Len(moved') = n + 1
  BY <1>1, <1>2, <1>3
<1>5. pc' \in {"poll", "flush"} \/ (pc' = "done" /\ Len(moved') = req.sectors * Words)
  <2>1. ~ More => Len(moved') = req.sectors * Words
    BY <1>1, <1>2, <1>3, <1>4 DEF More
  <2> QED
    BY <1>1, <2>1
<1>6. /\ HardwareInv' /\ Transferring' /\ moved' \in Seq(WordPlaces)
  BY <1>1, <1>2, <1>5, WordMoved DEF Sound, IdeInv
<1>7. RequestInv'
  <2>1. pc' = "poll" => More /\ ~ result'
    BY <1>1
  <2> QED
    BY <1>1, <1>2, <1>6, <2>1 DEF RequestInv, Using, More
<1>8. TransferInv'
  BY <1>1, <1>6 DEF TransferInv
<1>9. WordsMoved'
  <2>1. CASE pc' = "done"
    <3>1. Len(moved') = req'.sectors * Words
      BY <1>1, <1>5, <2>1
    <3>2. req' \in Requests
      BY <1>1, <1>2
    <3>3. AllMoved'
      BY <1>6, <1>7, <3>1, <3>2 DEF AllMoved
    <3>4. AllMoved' => WordsMoved'
      BY DoneIsRight, PTL
    <3> QED
      BY <3>3, <3>4
  <2>2. CASE pc' # "done"
    BY <2>2 DEF WordsMoved
  <2> QED
    BY <2>1, <2>2
<1> QED
  BY <1>6, <1>7, <1>8, <1>9 DEF Sound

\* A word is written, or lost when the drive has failed.
LEMMA ide_write_word_sound ==
    ASSUME IdeInv, Sound, ide_write_word
    PROVE  Sound'
<1>1. /\ UNCHANGED <<machine, b, dev, req, result, failed>>
      /\ pc = "poll" /\ pc' = "flush" /\ req.op = "write"
      /\ \/ /\ ide_status = "drq" /\ moved' = Append(moved, PlaceOf(Here))
            /\ ToBus(Moved(Here))
         \/ /\ ide_status = "err" /\ moved' = Append(moved, <<>>) /\ UNCHANGED hw
  BY DEF ide_write_word
<1>2. /\ req \in Requests /\ req.sectors > 0 /\ dev \in ide_device_t /\ b \in 1 .. 2 /\ ~ result
      /\ dev.addr_mode \in Modes /\ moved \in Seq(WordPlaces) /\ failed \in BOOLEAN
      /\ Len(moved) < req.sectors * Words /\ Transferring
  BY <1>1 DEF Sound, RequestInv, TransferInv, Using
<1>3. PICK n \in Nat, N \in Nat : n = Len(moved) /\ N = req.sectors * Words
  BY <1>2, RequestTyped, IdeAssumption
<1>4. HardwareInv' /\ Transferring' /\ moved' \in Seq(WordPlaces) /\ Len(moved') <= N
  <2>1. CASE /\ ide_status = "drq" /\ moved' = Append(moved, PlaceOf(Here))
             /\ ToBus(Moved(Here))
    BY <1>1, <1>2, <1>3, <2>1, WordMoved DEF Sound, IdeInv
  <2>2. CASE ide_status = "err" /\ moved' = Append(moved, <<>>) /\ UNCHANGED hw
    <3>1. failed
      BY <1>2, <2>2 DEF Transferring, ide_check_error
    <3>2. Here.status[Here.head.drive] = "err"
      BY <1>2, <2>2, StatusIsRaw DEF Sound, RawStatus
    <3>3. HardwareInv'
      <4>1. ASSUME NEW x \in BusNames
            PROVE  Active(x)' \/ Still(hw[x])
        BY <1>1 DEF Sound, HardwareInv, Calm, Active
      <4> QED
        BY <1>1, <2>2, <4>1, NothingWritten DEF Sound
    <3>4. Here' = Here
      BY <1>1, <2>2 DEF Here
    <3>5. ~ Underway(Here)'
      BY <3>2, <3>4 DEF Underway
    <3>6. failed' /\ ~ Trusted'
      BY <1>1, <3>1 DEF Trusted
    <3>7. Transferring'
      BY <3>5, <3>6 DEF Transferring
    <3>8. moved' \in Seq(WordPlaces) /\ Len(moved') = n + 1
      <4>1. <<>> \in WordPlaces
        BY DEF WordPlaces
      <4>2. Extended(moved', moved, <<>>, WordPlaces)
        BY <1>2, <2>2, <4>1, WordAppended
      <4> QED
        BY <1>3, <4>2 DEF Extended
    <3> QED
      BY <1>2, <1>3, <3>3, <3>7, <3>8
  <2> QED
    BY <1>1, <2>1, <2>2
<1>5. RequestInv'
  BY <1>1, <1>2, <1>3, <1>4 DEF RequestInv, Using
<1>6. TransferInv' /\ WordsMoved'
  BY <1>1, <1>4 DEF TransferInv, WordsMoved
<1> QED
  BY <1>4, <1>5, <1>6 DEF Sound

\* The flush: a drive that asks for data takes no notice of it.
LEMMA ide_write_flush_sound ==
    ASSUME IdeInv, Sound, ide_write_flush
    PROVE  Sound'
<1>1. /\ UNCHANGED <<machine, b, dev, req, moved, failed>>
      /\ pc = "flush" /\ ide_status # "busy"
      /\ ToBus(Commanded(Here, "flush"))
      /\ pc' = (IF Len(moved) < req.sectors * Words THEN "poll" ELSE "done")
      /\ result' = (Len(moved) >= req.sectors * Words)
  BY DEF ide_write_flush
<1>2. /\ req \in Requests /\ req.sectors > 0 /\ dev \in ide_device_t /\ b \in 1 .. 2
      /\ dev.addr_mode \in Modes /\ moved \in Seq(WordPlaces) /\ failed \in BOOLEAN
      /\ Len(moved) <= req.sectors * Words /\ Transferring
  BY <1>1 DEF Sound, RequestInv, TransferInv, Using
<1>3. PICK n \in Nat, N \in Nat : n = Len(moved) /\ N = req.sectors * Words
  BY <1>2, RequestTyped, IdeAssumption
<1>4. \/ n < N /\ pc' = "poll" /\ result' = FALSE
      \/ n = N /\ pc' = "done" /\ result' = TRUE
  <2>1. (n < N /\ (n >= N) = FALSE) \/ (n = N /\ (n < N) = FALSE /\ (n >= N) = TRUE)
    <3>1. n <= N
      BY <1>2, <1>3
    <3> QED
      BY <3>1
  <2>2. pc' = (IF n < N THEN "poll" ELSE "done") /\ result' = (n >= N)
    BY <1>1, <1>3
  <2>3. CASE n < N /\ (n >= N) = FALSE
    <3>1. pc' = "poll"
      BY <2>2, <2>3, Zenon
    <3>2. result' = FALSE
      BY <2>2, <2>3, Zenon
    <3> QED
      BY <2>3, <3>1, <3>2, Zenon
  <2>4. CASE n = N /\ (n < N) = FALSE /\ (n >= N) = TRUE
    <3>1. pc' = "done"
      <4>1. ~ (n < N)
        BY <2>4, Zenon
      <4> QED
        BY <2>2, <4>1, Zenon
    <3>2. result' = TRUE
      BY <2>2, <2>4, Zenon
    <3> QED
      BY <2>4, <3>1, <3>2, Zenon
  <2> QED
    BY <2>1, <2>3, <2>4, Zenon
<1>5. PICK h : h = Here
  OBVIOUS
<1>6. PICK g : g = Commanded(h, "flush")
  OBVIOUS
<1>7. /\ BusTyped(h) /\ OneAtWork(h, Buses[b]) /\ h.head.drive \in DriveNames
      /\ h.status[h.head.drive] # "busy"
  BY <1>1, <1>2, <1>5, HereIsTyped, StatusIsRaw DEF Sound, RawStatus
<1>8. /\ BusTyped(g) /\ OneAtWork(g, Buses[b]) /\ g.head = h.head
      /\ g = h \/ (g.op = "flush" /\ g.status[h.head.drive] = "busy")
  BY <1>2, <1>6, <1>7, CommandGiven DEF Transfers
<1>9. hw' = [hw EXCEPT ![Buses[b]] = g]
  BY <1>1, <1>5, <1>6 DEF ToBus
<1>10. h.status[h.head.drive] = "drq" => n < N
  <2>1. SUFFICES ASSUME h.status[h.head.drive] = "drq"
                 PROVE  n < N
    OBVIOUS
  <2>2. PICK s \in Nat : Progress(h, s)
    BY <1>2, <1>5, <2>1 DEF Transferring, Underway
  <2>3. PICK W \in Nat, S \in Nat : W = Words /\ S = req.sectors
    BY <1>2, RequestTyped, IdeAssumption
  <2>4. PICK l \in 1 .. W, m \in Nat : /\ n = s * W + (W - l) /\ s + 1 + m <= S
    BY <1>3, <2>2, <2>3 DEF Progress
  <2>5. WordsCounted(n, W, S, s, l, m)
    BY <2>4, WordsOfSectors
  <2> QED
    BY <1>3, <2>3, <2>5 DEF WordsCounted
<1>11. Active(Buses[b])' \/ Still(g)
  <2>1. CASE pc' = "poll"
    BY <1>1, <2>1 DEF Active
  <2>2. CASE pc' # "poll"
    <3>1. h.status[h.head.drive] # "drq"
      BY <1>4, <1>10, <2>2
    <3> QED
      BY <1>7, <1>8, <3>1 DEF Still
  <2> QED
    BY <2>1, <2>2
<1>12. HardwareInv' /\ Here' = g
  BY <1>1, <1>2, <1>7, <1>8, <1>9, <1>11, HereWritten DEF Sound
<1>13. Start' = Start /\ Trusted' = Trusted
  BY <1>1 DEF Start, Trusted
<1>14. Transferring'
  <2>1. \A k \in 1 .. Len(moved') : WordAt(k)' = WordAt(k)
    BY <1>1 DEF WordAt, Start
  <2>2. Trusted' => \A k \in 1 .. Len(moved') : moved'[k] = WordAt(k)'
    BY <1>1, <1>2, <1>13, <2>1 DEF Transferring
  <2>3. CASE g = h
    <3>1. Underway(Here)' => Underway(Here)
      BY <1>5, <1>12, <2>3 DEF Underway
    <3>2. \A s : Progress(Here, s) => Progress(Here, s)'
      BY <1>1, <1>5, <1>12, <1>13, <2>3 DEF Progress
    <3>3. ide_check_error' => ide_check_error
      BY <1>1, <1>5, <1>12, <2>3 DEF ide_check_error, ide_status, StatusOf, Kind
    <3> QED
      BY <1>1, <1>2, <2>2, <3>1, <3>2, <3>3 DEF Transferring
  <2>4. CASE g.op = "flush" /\ g.status[h.head.drive] = "busy"
    <3>1. ~ Underway(Here)'
      BY <1>8, <1>12, <2>4 DEF Underway
    <3>2. ~ ide_check_error'
      BY <1>8, <1>12, <2>4 DEF ide_check_error, ide_status, StatusOf
    <3> QED
      BY <2>2, <3>1, <3>2 DEF Transferring
  <2> QED
    BY <1>8, <2>3, <2>4
<1>15. RequestInv'
  BY <1>1, <1>2, <1>3, <1>4 DEF RequestInv, Using
<1>16. TransferInv'
  BY <1>14, <1>4 DEF TransferInv
<1>17. WordsMoved'
  <2>1. CASE n = N
    <3>1. AllMoved'
      BY <1>1, <1>2, <1>3, <1>14, <1>15, <2>1 DEF AllMoved
    <3>2. AllMoved' => WordsMoved'
      BY DoneIsRight, PTL
    <3> QED
      BY <3>1, <3>2
  <2>2. CASE n # N
    BY <1>4, <2>2 DEF WordsMoved
  <2> QED
    BY <2>1, <2>2
<1> QED
  BY <1>12, <1>15, <1>16, <1>17 DEF Sound

\* A drive gets on; it can fail the request.
LEMMA DriveStep_sound ==
    ASSUME IdeInv, Sound, NEW bus \in BusNames, NEW drive \in DriveNames, DriveStep(bus, drive)
    PROVE  Sound'
<1>1. UNCHANGED <<machine, deaf, pc, b, d, written, dev, req, moved, result>>
  BY DEF DriveStep, request
<1>2. failed \in BOOLEAN
  BY DEF Sound, RequestInv
<1>3. PICK s \in {"drq", "err", "ready"} : Advance(bus, drive, s)
  BY <1>2, DriveAdvance
<1>4. HardwareInv'
  BY <1>1, <1>3, DriveStepHardware DEF Sound
<1>5. TransferInv'
  BY <1>1, <1>3, DriveStepTransfer DEF Sound
<1>6. failed' \in BOOLEAN /\ (failed => failed')
  BY <1>2, <1>3 DEF Advance
<1>7. RequestInv'
  BY <1>1, <1>6 DEF Sound, RequestInv, Using
<1>8. WordsMoved'
  BY <1>1, <1>6 DEF Sound, WordsMoved
<1> QED
  BY <1>4, <1>5, <1>7, <1>8 DEF Sound

\* Nothing happens to the disks of this driver.
LEMMA WordsStutter ==
    ASSUME WordsInv, UNCHANGED ideVars
    PROVE  WordsInv'
<1>1. UNCHANGED <<machine, hw, failed, deaf, pc, b, written, dev, req, moved, result>>
  BY DEF ideVars, hardware, request
<1>2. CASE deaf
  BY <1>1, <1>2 DEF WordsInv
<1>3. CASE Sound
  <2>1. Here' = Here
    BY <1>1 DEF Here
  <2>2. HardwareInv'
    <3>1. ASSUME NEW bus \in BusNames
          PROVE  (BusTyped(hw[bus]) /\ Calm(hw[bus], bus))'
      BY <1>1, <1>3 DEF Sound, HardwareInv, BusTyped, IsBus, Calm, OneAtWork, Active, Still
    <3> QED
      BY <1>1, <1>3, <3>1 DEF Sound, HardwareInv
  <2>3. RequestInv'
    BY <1>1, <1>3, <2>1 DEF Sound, RequestInv
  <2>4. Start' = Start /\ ZeroHead' = ZeroHead
    BY <1>1 DEF Start, ZeroHead
  <2>5. \A n : SoFar(Here, n) => SoFar(Here, n)'
    BY <1>1, <2>1 DEF SoFar, FirstLow, Wide
  <2>6. Transferring => Transferring'
    <3>1. \A s : Progress(Here, s) => Progress(Here, s)'
      BY <1>1, <2>1, <2>4 DEF Progress
    <3>2. Underway(Here)' = Underway(Here) /\ ide_check_error' = ide_check_error
      BY <1>1, <2>1 DEF Underway, ide_check_error, ide_status, StatusOf, Kind
    <3>3. Trusted' = Trusted
      BY <1>1 DEF Trusted
    <3>4. \A k \in 1 .. Len(moved) : WordAt(k)' = WordAt(k)
      BY <1>1, <2>4 DEF WordAt
    <3> QED
      BY <1>1, <3>1, <3>2, <3>3, <3>4 DEF Transferring
  <2>7. TransferInv'
    BY <1>1, <1>3, <2>1, <2>4, <2>5, <2>6 DEF Sound, TransferInv
  <2>8. WordsMoved'
    BY <1>1, <1>3 DEF Sound, WordsMoved
  <2> QED
    BY <2>2, <2>3, <2>7, <2>8 DEF WordsInv, Sound
<1> QED
  BY <1>2, <1>3 DEF WordsInv

\* The buses start still.
LEMMA InitMeetsWordsInv == Init => WordsInv
<1> SUFFICES ASSUME Init
             PROVE  WordsInv
  OBVIOUS
<1>1. /\ hw = [bus \in BusNames |-> Bus(ZeroHead)] /\ pc = "init" /\ moved = <<>>
      /\ failed = FALSE
  BY NameFacts DEF Init
<1>2. PICK h : h = Bus(ZeroHead)
  OBVIOUS
<1>3. BusTyped(h) /\ \A drive \in DriveNames : h.status[drive] = "ready"
  <2>1. ZeroHead \in Heads
    BY InitMeetsIdeInv, ZeroIsHead DEF IdeInv
  <2> QED
    BY <1>2, <2>1, NameFacts, RegisterFacts DEF Bus, BusTyped, IsBus, Statuses
<1>4. \A bus \in BusNames : Calm(h, bus)
  <2>1. h.head.drive \in DriveNames
    BY <1>3 DEF BusTyped, Heads
  <2> QED
    BY <1>3, <2>1 DEF Calm, OneAtWork, Still, AtWork
<1>5. HardwareInv
  BY <1>1, <1>2, <1>3, <1>4 DEF HardwareInv
<1>6. <<>> \in Seq(WordPlaces)
  OBVIOUS
<1>7. RequestInv /\ TransferInv /\ WordsMoved
  BY <1>1, <1>6 DEF RequestInv, TransferInv, WordsMoved, Using
<1> QED
  BY <1>5, <1>7 DEF WordsInv, Sound

\* A drive that was deaf once spoils what follows.
LEMMA WordsStep ==
    ASSUME IdeInv, WordsInv, Next
    PROVE  WordsInv'
<1>1. deaf => deaf'
  BY DEF Next, Driver, DrivesStep, ide_init, identify, identify_clear, identify_command,
         identify_no_drive, identify_waits, identify_words, ide_save_device_ide_type,
         ide_init_end, request_selects, init_transaction_head, ide_init_transaction,
         ide_command, ide_read_word, ide_read_error, ide_write_word, ide_write_flush,
         ide_request_end, DriveStep, ide_request, hardware
<1>2. SUFFICES ASSUME ~ deaf'
               PROVE  Sound'
  BY DEF WordsInv
<1>3. Sound
  BY <1>1, <1>2 DEF WordsInv
<1>4. CASE ide_init \/ identify_waits \/ ide_init_end
  BY <1>3, <1>4, ide_init_sound
<1>5. CASE identify \/ identify_clear \/ identify_command
  BY <1>3, <1>5, identify_sound, identify_clear_sound, identify_command_sound
<1>6. CASE identify_no_drive
  BY <1>3, <1>6, identify_no_drive_sound
<1>7. CASE identify_words
  BY <1>3, <1>7, identify_words_sound
<1>8. CASE ide_save_device_ide_type
  BY <1>3, <1>8, ide_save_device_ide_type_sound
<1>9. CASE request_selects
  BY <1>3, <1>9, request_selects_sound
<1>10. CASE init_transaction_head \/ ide_init_transaction
  BY <1>2, <1>3, <1>10, init_transaction_head_sound, ide_init_transaction_sound
<1>11. CASE ide_command
  BY <1>3, <1>11, ide_command_sound
<1>12. CASE ide_read_word
  BY <1>3, <1>12, ide_read_word_sound
<1>13. CASE ide_read_error
  BY <1>3, <1>13, ide_read_error_sound
<1>14. CASE ide_write_word
  BY <1>3, <1>14, ide_write_word_sound
<1>15. CASE ide_write_flush
  BY <1>3, <1>15, ide_write_flush_sound
<1>16. CASE ide_request_end
  BY <1>3, <1>16, ide_request_end_sound
<1>17. CASE DrivesStep
  BY <1>3, <1>17, DriveStep_sound, NameFacts DEF DrivesStep
<1>18. CASE \E r \in Requests : ide_request(r)
  BY <1>3, <1>18, ide_request_sound
<1> QED
  BY <1>4, <1>5, <1>6, <1>7, <1>8, <1>9, <1>10, <1>11, <1>12, <1>13, <1>14, <1>15, <1>16,
     <1>17, <1>18 DEF Next, Driver

(***************************************************************************)
(* A request of the IDE driver that is answered with true has moved every  *)
(* word it was asked for, once and in order; but they are words of the     *)
(* master of the bus, from the cylinder, head and sector that the low      *)
(* three bytes of the address spell.  So it is for every length of a       *)
(* sector and every request, whatever drive and mode of addresses it asks  *)
(* for and whatever was left in the registers; but for a drive that took   *)
(* no notice of them, and a write that failed.                             *)
(***************************************************************************)
THEOREM WordsGoToTheMaster == DisksSpec => []WordsMoved
<1>1. DisksInit => WordsInv
  BY InitMeetsWordsInv DEF DisksInit
<1>2. IdeInv /\ WordsInv /\ [devs_config_mass_storage]_disksVars => WordsInv'
  <2> SUFFICES ASSUME IdeInv, WordsInv, [devs_config_mass_storage]_disksVars
               PROVE  WordsInv'
    OBVIOUS
  <2>1. Next \/ UNCHANGED ideVars
    BY DEF devs_config_mass_storage, disksVars
  <2> QED
    BY <2>1, WordsStep, WordsStutter
<1>3. WordsInv => WordsMoved
  BY DEF WordsInv, Sound, WordsMoved
<1> QED
  BY <1>1, <1>2, <1>3, SpecIdeInv, PTL DEF DisksSpec
=============================================================================
