-------------------------- MODULE InterruptsProofs --------------------------
(***************************************************************************)
(* Proofs about the interrupts and the calls that wait for them.           *)
(*                                                                         *)
(* WaitsAreServed needs to know, at every place of a call, how many of its *)
(* interrupts can still be outstanding: as many as milliseconds are left,  *)
(* and one more while a flag is up.  QuietBetweenCalls needs the slot of   *)
(* the one hook there can be, the places at which the local timer may be   *)
(* unmasked, and the redirection entries of every I/O APIC.                *)
(***************************************************************************)
EXTENDS Interrupts, WellFoundedInduction, TLAPS

USE InterruptsAssumption

-----------------------------------------------------------------------------
(* The invariant, in parts that share little state.                        *)

Frame == [vector : Vectors, at : {"hooks", "enable", "eoi"}, eois : 0 .. Eois]

\* Only the innermost handler can still owe its acknowledgement.
FrameInv ==
    /\ irr \subseteq Vectors
    /\ frames \in Seq(Frame)
    /\ isr = IF frames # <<>> /\ Head(frames).eois = 0 THEN {Head(frames).vector} ELSE {}
    /\ \A k \in 2 .. Len(frames) : frames[k].eois # 0

\* A flag is up only where the call that raised it can be; a call is owed no
\* more interrupts than the milliseconds left and the flag that is up.
FlagsInv ==
    /\ waiting \subseteq Vectors
    /\ PIT \in waiting => pc = "sleep_spin"
    /\ TIMER \in waiting => pc \in {"apic_set_count", "apic_spin"}
    /\ KEYBOARD \in waiting => pc \in {"keyboard_hook", "keyboard_spin"}

OwedInv ==
    /\ owed \in Nat
    /\ pc \in {"sleep", "pit_run", "sleep_loop", "apic_sleep", "apic_hook", "apic_loop"} => owed <= ms
    /\ pc = "sleep_spin" => owed <= ms + 1 /\ (PIT \notin waiting => owed <= ms)
    /\ pc \in {"apic_set_count", "apic_spin"} =>
         /\ ms > 0 /\ owed <= ms
         /\ TIMER \notin waiting => owed < ms
    /\ pc = "keyboard_wait" => owed <= 1
    /\ pc \in {"keyboard_hook", "keyboard_spin"} =>
         owed <= 1 /\ (KEYBOARD \notin waiting => owed = 0)
    /\ pc \in {"sleep_unhook", "apic_mask", "keyboard_unhook"} => owed = 0

FlowInv ==
    /\ pc \in Places /\ ret \in {"ready", "round"} /\ ms \in 0 .. MaxMs

WaitInv == FlowInv /\ FlagsInv /\ OwedInv

\* The places where a call has its hook; it is the only one.
HookedAt(v) ==
    CASE v = PIT -> {"pit_run", "sleep_loop", "sleep_spin", "sleep_unhook"}
      [] v = TIMER -> {"apic_loop", "apic_set_count", "apic_spin"}
      [] v = KEYBOARD -> {"keyboard_spin", "keyboard_unhook"}

HookInv ==
    /\ hooks \in [Vectors -> SUBSET (0 .. Hooks - 1)]
    /\ \A v \in Vectors : hooks[v] = IF pc \in HookedAt(v) THEN {hook_n} ELSE {}

\* The timer of the local APIC is unmasked while it is calibrated and inside
\* apic_sleep.
MaskInv ==
    \/ lvt_masked = TRUE
    \/ pc \in {"round", "apic_hook", "apic_loop", "apic_set_count", "apic_spin", "apic_mask"}
    \/ ret = "round" /\ pc \in {"sleep", "pit_run", "sleep_loop", "sleep_spin", "sleep_unhook"}

\* The I/O APICs are those of a machine; register 1 may have the keyboard,
\* register 2 the PIT, and this is unmasked only while a sleep runs.
Ioapic(base, max, entry) == [base |-> base, max |-> max, entry |-> entry]

Ioapics(m) ==
    /\ DOMAIN system_ioapics = DOMAIN m
    /\ \A n \in DOMAIN m :
         /\ system_ioapics[n] = Ioapic(m[n].base, m[n].max, system_ioapics[n].entry)
         /\ system_ioapics[n].entry \in [0 .. m[n].max -> Entry]

SleepRuns == pc \in {"sleep_loop", "sleep_spin"}

Registered(n, r, e) ==
    /\ ~e.masked => \/ r = KEYBOARD_IRQ /\ e.vector = KEYBOARD
                    \/ r = PIT_IRQ /\ e.vector = PIT
    /\ r = PIT_IRQ => (e.masked <=> ~(n \in get_ioapic_by_irq(PIT_IRQ) /\ SleepRuns))
    /\ r = PIT_IRQ /\ n \in get_ioapic_by_irq(PIT_IRQ) /\ pc # "init_pit" => e.vector = PIT

RegistersInv ==
    \A n \in DOMAIN system_ioapics : \A r \in 0 .. system_ioapics[n].max :
      Registered(n, r, system_ioapics[n].entry[r])

ReadyInv ==
    /\ pc = "init_pit" => ~pit_ready
    /\ pit_ready => get_ioapic_by_irq(PIT_IRQ) # {}
    /\ pc \in {"pit_run", "sleep_loop", "sleep_spin"} => pit_ready

IoInv ==
    /\ \E m \in Machines : Ioapics(m)
    /\ RegistersInv
    /\ ReadyInv

InterruptsInv ==
    /\ FrameInv
    /\ WaitInv
    /\ HookInv
    /\ MaskInv
    /\ IoInv


-----------------------------------------------------------------------------
(* Handlers and interrupts.                                                *)

\* A step of the main flow leaves the handlers alone, and the vectors served.
LEMMA MainLeavesFrames ==
    ASSUME MainFlow \/ Calls
    PROVE  UNCHANGED <<irr, isr, frames>>
  BY DEF MainFlow, Calls, Setup, Sleep, ApicSleep, KeyboardWait, Call, cpu, hardware,
         init_pit, apic_timer_init, apic_timer_round, apic_timer_init_end, init_keyboard,
         sleep_refused, sleep_hook, pit_run, sleep_arm, sleep_leave_spin, pit_stop, sleep_unhook,
         apic_sleep, apic_hook, apic_sleep_arm, apic_timer_set_count, apic_sleep_leave_spin,
         apic_unhook, apic_mask, keyboard_wait, keyboard_hook, keyboard_leave_spin, keyboard_unhook

\* A step of a device or a handler leaves the main flow alone.
LEMMA HandlersLeaveMain ==
    ASSUME Devices \/ Handlers
    PROVE  /\ UNCHANGED <<pc, ret, ms, hook_n>>
           /\ UNCHANGED hooks
           /\ UNCHANGED system_ioapics
           /\ lvt_masked' = lvt_masked
           /\ pit_ready' = pit_ready
  BY DEF Devices, Handlers, Edge, TimerExpires, Deliver, int_exec_hooks, enable_int, send_eoi,
         return_from_handler, hardware, main, timers

\* The first of a set of numbers is one of them.
LEMMA MinOfNats ==
    ASSUME NEW S \in SUBSET Nat, S # {}
    PROVE  Min(S) \in S
<1>1. IsWellFoundedOn(OpToRel(<, Nat), Nat)
  BY NatLessThanWellFounded
<1>2. PICK x \in S : \A y \in S : ~ <<y, x>> \in OpToRel(<, Nat)
  BY <1>1, WFMin, Zenon
<1>3. \A y \in S : ~ (y < x)
  BY <1>2 DEF OpToRel
<1>4. \A y \in S : x <= y
  BY <1>3
<1> QED
  BY <1>4 DEF Min

LEMMA HeadOfFrames ==
    ASSUME NEW f \in Seq(Frame), f # <<>>
    PROVE  /\ Len(f) \in Nat \ {0} /\ Head(f) = f[1] /\ f[1] \in Frame
           /\ DOMAIN f = 1 .. Len(f)
  OBVIOUS

LEMMA StepOfFrame ==
    ASSUME NEW f \in Seq(Frame), f # <<>>, NEW g \in Frame
    PROVE  /\ [f EXCEPT ![1] = g] \in Seq(Frame)
           /\ Len([f EXCEPT ![1] = g]) = Len(f)
           /\ [f EXCEPT ![1] = g][1] = g
           /\ \A k \in 2 .. Len(f) : [f EXCEPT ![1] = g][k] = f[k]
           /\ [f EXCEPT ![1] = g] # <<>>
  BY HeadOfFrames

LEMMA PushOfFrame ==
    ASSUME NEW f \in Seq(Frame), NEW g \in Frame
    PROVE  /\ <<g>> \o f \in Seq(Frame)
           /\ Len(<<g>> \o f) = Len(f) + 1
           /\ (<<g>> \o f)[1] = g
           /\ \A k \in 2 .. Len(f) + 1 : (<<g>> \o f)[k] = f[k - 1]
           /\ <<g>> \o f # <<>>
  OBVIOUS

LEMMA PopOfFrame ==
    ASSUME NEW f \in Seq(Frame), f # <<>>
    PROVE  /\ Tail(f) \in Seq(Frame)
           /\ Len(Tail(f)) = Len(f) - 1
           /\ \A k \in 1 .. Len(f) - 1 : Tail(f)[k] = f[k + 1]
  OBVIOUS

LEMMA SetFrame ==
    ASSUME NEW f \in Seq(Frame), f # <<>>
    PROVE  /\ \A a \in {"hooks", "enable", "eoi"} :
                [f EXCEPT ![1].at = a] = [f EXCEPT ![1] = [f[1] EXCEPT !.at = a]]
           /\ \A a \in {"hooks", "enable", "eoi"} : [f[1] EXCEPT !.at = a] \in Frame
           /\ \A a : [f[1] EXCEPT !.at = a].eois = f[1].eois
           /\ \A a : [f[1] EXCEPT !.at = a].vector = f[1].vector
  BY HeadOfFrames DEF Frame

LEMMA AckFrame ==
    ASSUME NEW f \in Seq(Frame), f # <<>>, Head(f).eois < Eois
    PROVE  /\ [f EXCEPT ![1].eois = @ + 1] = [f EXCEPT ![1] = [f[1] EXCEPT !.eois = f[1].eois + 1]]
           /\ [f[1] EXCEPT !.eois = f[1].eois + 1] \in Frame
           /\ [f[1] EXCEPT !.eois = f[1].eois + 1].eois # 0
<1>1. f[1] \in Frame /\ Head(f) = f[1] /\ f[1].eois \in 0 .. Eois
  BY HeadOfFrames DEF Frame
<1>2. f[1].eois + 1 \in 0 .. Eois /\ f[1].eois + 1 # 0
  BY <1>1
<1> QED
  BY <1>1, <1>2 DEF Frame

\* A step that leaves the innermost handler as far from its acknowledgement.
LEMMA FrameInvAtStep ==
    ASSUME FrameInv, frames # <<>>, NEW g \in Frame,
           g.eois = frames[1].eois, g.vector = frames[1].vector,
           frames' = [frames EXCEPT ![1] = g], UNCHANGED <<irr, isr>>
    PROVE  FrameInv'
<1>0. frames \in Seq(Frame) /\ Len(frames) \in Nat
  BY DEF FrameInv
<1>2. frames' \in Seq(Frame) /\ Len(frames') = Len(frames) /\ frames'[1] = g
      /\ frames' # <<>> /\ \A k \in 2 .. Len(frames) : frames'[k] = frames[k]
  BY <1>0, StepOfFrame
<1>3. Head(frames) = frames[1] /\ Head(frames') = frames'[1]
  BY <1>0, <1>2, HeadOfFrames
<1> QED
  BY <1>2, <1>3 DEF FrameInv

\* A device requests a vector of its own.
LEMMA RaisedVectors ==
    ASSUME RegistersInv, \E m \in Machines : Ioapics(m), NEW line
    PROVE  Raised(line) \subseteq Vectors
<1> SUFFICES ASSUME NEW io \in Range(system_ioapics), line - io.base \in 0 .. io.max,
                    ~io.entry[line - io.base].masked
             PROVE  io.entry[line - io.base].vector \in Vectors
  BY DEF Raised
<1>1. PICK n \in DOMAIN system_ioapics : io = system_ioapics[n]
  BY DEF Range
<1> QED
  BY <1>1 DEF RegistersInv, Registered, Vectors

LEMMA FrameInvStep ==
    ASSUME FrameInv, RegistersInv, \E m \in Machines : Ioapics(m), [Next]_vars
    PROVE  FrameInv'
<1>0. frames \in Seq(Frame) /\ Len(frames) \in Nat /\ irr \subseteq Vectors
  BY DEF FrameInv
<1>1. ASSUME NEW line, Edge(line) PROVE FrameInv'
  <2>1. irr' \subseteq Vectors
    BY <1>0, <1>1, RaisedVectors DEF Edge
  <2> QED
    BY <1>1, <2>1 DEF Edge, FrameInv, cpu
<1>2. CASE TimerExpires
  BY <1>2 DEF TimerExpires, FrameInv, cpu, Vectors
<1>3. CASE Deliver
  <2>1. irr # {} /\ isr = {}
    BY <1>3 DEF Deliver, Deliverable
  <2>2. irr \in SUBSET Nat
    BY <1>0 DEF Vectors, PIT, KEYBOARD, TIMER
  <2>3. Max(irr) \in irr
    <3>1. \E x \in irr : \A y \in irr : x >= y
      <4>1. CASE TIMER \in irr
        BY <1>0, <4>1 DEF Vectors, PIT, KEYBOARD, TIMER
      <4>2. CASE TIMER \notin irr /\ KEYBOARD \in irr
        BY <1>0, <4>2 DEF Vectors, PIT, KEYBOARD, TIMER
      <4>3. CASE TIMER \notin irr /\ KEYBOARD \notin irr
        <5>1. PICK x \in irr : TRUE
          BY <2>1
        <5>2. PIT \in irr
          BY <1>0, <4>3, <5>1 DEF Vectors
        <5>3. \A y \in irr : PIT >= y
          BY <1>0, <4>3 DEF Vectors, PIT
        <5> QED
          BY <5>2, <5>3
      <4> QED
        BY <4>1, <4>2, <4>3
    <3> QED
      BY <3>1 DEF Max
  <2> DEFINE g == [vector |-> Max(irr), at |-> "hooks", eois |-> 0]
  <2>4. g \in Frame /\ g.eois = 0 /\ g.vector = Max(irr)
    BY <1>0, <2>3 DEF Frame
  <2>5. frames' = <<g>> \o frames
    BY <1>3 DEF Deliver
  <2> HIDE DEF g
  <2>6. frames' \in Seq(Frame) /\ Len(frames') = Len(frames) + 1 /\ frames'[1] = g
        /\ frames' # <<>> /\ \A k \in 2 .. Len(frames) + 1 : frames'[k] = frames[k - 1]
    BY <1>0, <2>4, <2>5, PushOfFrame
  <2>7. Head(frames') = frames'[1]
    BY <2>6, HeadOfFrames
  <2>8. frames # <<>> => Head(frames) = frames[1] /\ frames[1].eois # 0
    BY <1>0, <2>1, HeadOfFrames DEF FrameInv
  <2>9. \A k \in 2 .. Len(frames') : frames'[k].eois # 0
    <3> TAKE k \in 2 .. Len(frames')
    <3>1. k \in 2 .. Len(frames) + 1 /\ frames # <<>> /\ k - 1 \in 1 .. Len(frames)
      BY <1>0, <2>6
    <3>2. frames'[k] = frames[k - 1]
      BY <2>6, <3>1
    <3>3. CASE k = 2
      BY <2>8, <3>1, <3>2, <3>3
    <3>4. CASE k # 2
      <4>1. k - 1 \in 2 .. Len(frames)
        BY <1>0, <3>1, <3>4
      <4> QED
        BY <3>2, <4>1 DEF FrameInv
    <3> QED
      BY <3>3, <3>4
  <2>10. isr' = {Max(irr)} /\ irr' \subseteq Vectors
    BY <1>0, <1>3 DEF Deliver
  <2> QED
    BY <2>4, <2>6, <2>7, <2>9, <2>10 DEF FrameInv
<1>4. ASSUME NEW a \in {"hooks", "enable", "eoi"}, frames # <<>>,
             frames' = [frames EXCEPT ![1].at = a], UNCHANGED <<irr, isr>>
      PROVE  FrameInv'
  <2> DEFINE g == [frames[1] EXCEPT !.at = a]
  <2>1. frames' = [frames EXCEPT ![1] = g] /\ g \in Frame
        /\ g.eois = frames[1].eois /\ g.vector = frames[1].vector
    BY <1>0, <1>4, SetFrame
  <2> HIDE DEF g
  <2> QED
    BY <1>4, <2>1, FrameInvAtStep
<1>5. CASE int_exec_hooks \/ enable_int
  BY <1>4, <1>5 DEF int_exec_hooks, enable_int, InHandler, hardware
<1>6. CASE send_eoi
  <2>1. frames # <<>> /\ Head(frames).eois < Eois
    BY <1>6 DEF send_eoi, InHandler
  <2> DEFINE g == [frames[1] EXCEPT !.eois = frames[1].eois + 1]
  <2>2. frames' = [frames EXCEPT ![1] = g] /\ g \in Frame /\ g.eois # 0
    BY <1>0, <1>6, <2>1, AckFrame DEF send_eoi
  <2> HIDE DEF g
  <2>3. frames' \in Seq(Frame) /\ Len(frames') = Len(frames) /\ frames'[1] = g
        /\ frames' # <<>> /\ \A k \in 2 .. Len(frames) : frames'[k] = frames[k]
    BY <1>0, <2>1, <2>2, StepOfFrame
  <2>4. Head(frames') = frames'[1]
    BY <2>3, HeadOfFrames
  <2>5. isr' = {} /\ irr' = irr
    BY <1>6 DEF send_eoi
  <2> QED
    BY <2>2, <2>3, <2>4, <2>5 DEF FrameInv
<1>7. CASE return_from_handler
  <2>1. frames # <<>> /\ Head(frames).eois = Eois /\ frames' = Tail(frames)
        /\ UNCHANGED <<irr, isr>>
    BY <1>7 DEF return_from_handler, InHandler, hardware
  <2>2. isr = {}
    BY <2>1 DEF FrameInv
  <2>3. frames' \in Seq(Frame) /\ Len(frames') = Len(frames) - 1 /\ Len(frames) \in Nat \ {0}
        /\ \A k \in 1 .. Len(frames) - 1 : frames'[k] = frames[k + 1]
    BY <1>0, <2>1, PopOfFrame
  <2>4. \A k \in 1 .. Len(frames') : frames'[k].eois # 0
    <3> TAKE k \in 1 .. Len(frames')
    <3>1. frames'[k] = frames[k + 1] /\ k + 1 \in 2 .. Len(frames)
      BY <2>3
    <3> QED
      BY <3>1 DEF FrameInv
  <2>5. frames' # <<>> => Head(frames') = frames'[1] /\ 1 \in 1 .. Len(frames')
    BY <2>3, HeadOfFrames
  <2>6. \A k \in 2 .. Len(frames') : frames'[k].eois # 0
    BY <2>3, <2>4
  <2> QED
    BY <2>1, <2>2, <2>3, <2>4, <2>5, <2>6 DEF FrameInv
<1>8. CASE MainFlow \/ Calls
  BY <1>8, MainLeavesFrames DEF FrameInv
<1>9. CASE UNCHANGED vars
  BY <1>9 DEF vars, hardware, cpu, FrameInv
<1> QED
  BY <1>1, <1>2, <1>3, <1>4, <1>5, <1>6, <1>7, <1>8, <1>9 DEF Next, Devices, Handlers

-----------------------------------------------------------------------------
(* The calls that wait.                                                    *)

\* What a handler does to the flags and to what is owed.
LEMMA HandlersServe ==
    ASSUME Devices \/ Handlers, FrameInv
    PROVE  \/ UNCHANGED <<waiting, owed>>
           \/ \E v \in Vectors : /\ waiting' = waiting \ {v}
                                 /\ owed' = IF owed = 0 THEN owed ELSE owed - 1
<1>1. CASE int_exec_hooks
  <2>1. Head(frames).vector \in Vectors
    BY <1>1, HeadOfFrames DEF int_exec_hooks, InHandler, FrameInv, Frame
  <2> QED
    BY <1>1, <2>1 DEF int_exec_hooks
<1>2. CASE ~int_exec_hooks
  BY <1>2 DEF Devices, Handlers, Edge, TimerExpires, Deliver, enable_int, send_eoi,
              return_from_handler
<1> QED
  BY <1>1, <1>2

LEMMA WaitInvStep ==
    ASSUME WaitInv, FrameInv, [Next]_vars
    PROVE  WaitInv'
<1> USE DEF PIT, KEYBOARD, TIMER, Vectors
<1>1. CASE Devices \/ Handlers
  <2>1. UNCHANGED <<pc, ret, ms>>
    BY <1>1, HandlersLeaveMain
  <2>2. CASE UNCHANGED <<waiting, owed>>
    BY <2>1, <2>2 DEF WaitInv, FlowInv, FlagsInv, OwedInv
  <2>3. ASSUME NEW v \in Vectors, waiting' = waiting \ {v},
               owed' = IF owed = 0 THEN owed ELSE owed - 1
        PROVE  WaitInv'
    <3>1. FlowInv' /\ FlagsInv'
      BY <2>1, <2>3 DEF WaitInv, FlowInv, FlagsInv
    <3>2. owed \in Nat /\ owed' \in Nat /\ owed' <= owed /\ (owed # 0 => owed' = owed - 1) /\ ms \in Nat
      BY <2>3 DEF WaitInv, FlowInv, OwedInv
    <3>3. OwedInv'
      BY <2>1, <2>3, <3>2 DEF WaitInv, OwedInv
    <3> QED
      BY <3>1, <3>3 DEF WaitInv
  <2> QED
    BY <1>1, <2>2, <2>3, HandlersServe
<1>2. CASE Setup
  <2>1. CASE init_pit
    BY <2>1 DEF init_pit, At, WaitInv, FlowInv, FlagsInv, OwedInv, Places
  <2>2. CASE apic_timer_init
    BY <2>2 DEF apic_timer_init, At, WaitInv, FlowInv, FlagsInv, OwedInv, Places
  <2>3. CASE apic_timer_round
    BY <2>3 DEF apic_timer_round, At, WaitInv, FlowInv, FlagsInv, OwedInv, Places
  <2>4. CASE apic_timer_init_end
    BY <2>4 DEF apic_timer_init_end, At, WaitInv, FlowInv, FlagsInv, OwedInv, Places
  <2>5. CASE init_keyboard
    BY <2>5 DEF init_keyboard, At, WaitInv, FlowInv, FlagsInv, OwedInv, Places
  <2> QED
    BY <1>2, <2>1, <2>2, <2>3, <2>4, <2>5 DEF Setup
<1>3. CASE Calls
  <2>1. ASSUME NEW n \in 0 .. MaxMs, Call("sleep", n)
        PROVE  WaitInv'
    BY <2>1 DEF Call, At, WaitInv, FlowInv, FlagsInv, OwedInv, Places
  <2>2. ASSUME NEW n \in 0 .. MaxMs, Call("apic_sleep", n)
        PROVE  WaitInv'
    BY <2>2 DEF Call, At, WaitInv, FlowInv, FlagsInv, OwedInv, Places
  <2>3. CASE Call("keyboard_wait", 0)
    BY <2>3 DEF Call, At, WaitInv, FlowInv, FlagsInv, OwedInv, Places
  <2> QED
    BY <1>3, <2>1, <2>2, <2>3 DEF Calls
<1>4. CASE Sleep
  <2>1. CASE sleep_refused
    BY <2>1 DEF sleep_refused, At, WaitInv, FlowInv, FlagsInv, OwedInv, Places
  <2>2. CASE sleep_hook
    BY <2>2 DEF sleep_hook, At, WaitInv, FlowInv, FlagsInv, OwedInv, Places
  <2>3. CASE pit_run
    BY <2>3 DEF pit_run, At, WaitInv, FlowInv, FlagsInv, OwedInv, Places
  <2>4. CASE sleep_arm
    BY <2>4 DEF sleep_arm, At, WaitInv, FlowInv, FlagsInv, OwedInv, Places
  <2>5. CASE sleep_leave_spin
    BY <2>5 DEF sleep_leave_spin, At, WaitInv, FlowInv, FlagsInv, OwedInv, Places
  <2>6. CASE pit_stop
    BY <2>6 DEF pit_stop, At, WaitInv, FlowInv, FlagsInv, OwedInv, Places
  <2>7. CASE sleep_unhook
    BY <2>7 DEF sleep_unhook, At, WaitInv, FlowInv, FlagsInv, OwedInv, Places
  <2> QED
    BY <1>4, <2>1, <2>2, <2>3, <2>4, <2>5, <2>6, <2>7 DEF Sleep
<1>5. CASE ApicSleep
  <2>1. CASE apic_sleep
    BY <2>1 DEF apic_sleep, At, WaitInv, FlowInv, FlagsInv, OwedInv, Places
  <2>2. CASE apic_hook
    BY <2>2 DEF apic_hook, At, WaitInv, FlowInv, FlagsInv, OwedInv, Places
  <2>3. CASE apic_sleep_arm
    BY <2>3 DEF apic_sleep_arm, At, WaitInv, FlowInv, FlagsInv, OwedInv, Places
  <2>4. CASE apic_timer_set_count
    BY <2>4 DEF apic_timer_set_count, At, WaitInv, FlowInv, FlagsInv, OwedInv, Places
  <2>5. CASE apic_sleep_leave_spin
    BY <2>5 DEF apic_sleep_leave_spin, At, WaitInv, FlowInv, FlagsInv, OwedInv, Places
  <2>6. CASE apic_unhook
    BY <2>6 DEF apic_unhook, At, WaitInv, FlowInv, FlagsInv, OwedInv, Places
  <2>7. CASE apic_mask
    BY <2>7 DEF apic_mask, At, WaitInv, FlowInv, FlagsInv, OwedInv, Places
  <2> QED
    BY <1>5, <2>1, <2>2, <2>3, <2>4, <2>5, <2>6, <2>7 DEF ApicSleep
<1>6. CASE KeyboardWait
  <2>1. CASE keyboard_wait
    BY <2>1 DEF keyboard_wait, At, WaitInv, FlowInv, FlagsInv, OwedInv, Places
  <2>2. CASE keyboard_hook
    BY <2>2 DEF keyboard_hook, At, WaitInv, FlowInv, FlagsInv, OwedInv, Places
  <2>3. CASE keyboard_leave_spin
    BY <2>3 DEF keyboard_leave_spin, At, WaitInv, FlowInv, FlagsInv, OwedInv, Places
  <2>4. CASE keyboard_unhook
    BY <2>4 DEF keyboard_unhook, At, WaitInv, FlowInv, FlagsInv, OwedInv, Places
  <2> QED
    BY <1>6, <2>1, <2>2, <2>3, <2>4 DEF KeyboardWait
<1>7. CASE UNCHANGED vars
  BY <1>7 DEF vars, main, WaitInv, FlowInv, FlagsInv, OwedInv
<1> QED
  BY <1>1, <1>2, <1>3, <1>4, <1>5, <1>6, <1>7 DEF Next, MainFlow

-----------------------------------------------------------------------------
(* The hooks and the mask of the local timer.                              *)

\* int_hook finds a slot when there is no hook.
LEMMA HookIsTaken ==
    ASSUME HookInv, NEW v \in Vectors, hooks[v] = {}, int_hook(v)
    PROVE  /\ hook_n' \in 0 .. Hooks - 1
           /\ hooks' = [hooks EXCEPT ![v] = {hook_n'}]
<1>1. FreeSlots(v) \in SUBSET Nat /\ FreeSlots(v) # {} /\ FreeSlots(v) \subseteq 0 .. Hooks - 1
  <2>1. 0 \in FreeSlots(v)
    BY DEF FreeSlots
  <2>2. FreeSlots(v) \subseteq 0 .. Hooks - 1
    BY DEF FreeSlots
  <2>3. 0 .. Hooks - 1 \subseteq Nat
    OBVIOUS
  <2> QED
    BY <2>1, <2>2, <2>3
<1>2. hook_n' = Min(FreeSlots(v)) /\ hooks' = [hooks EXCEPT ![v] = @ \union {hook_n'}]
  BY <1>1 DEF int_hook
<1>3. hook_n' \in 0 .. Hooks - 1
  BY <1>1, <1>2, MinOfNats
<1> QED
  BY <1>2, <1>3

\* A step that leaves the hooks alone, and stays where they are as they should.
LEMMA HookInvKept ==
    ASSUME HookInv, UNCHANGED <<hooks, hook_n>>,
           \A v \in Vectors : pc \in HookedAt(v) <=> pc' \in HookedAt(v)
    PROVE  HookInv'
  BY DEF HookInv

LEMMA HookInvStep ==
    ASSUME HookInv, FlowInv, [Next]_vars
    PROVE  HookInv'
<1> USE DEF PIT, KEYBOARD, TIMER, Vectors, HookedAt
<1>1. CASE Devices \/ Handlers \/ UNCHANGED vars
  BY <1>1, HandlersLeaveMain, HookInvKept DEF vars, main
<1>2. CASE Setup \/ Calls
  BY <1>2, HookInvKept DEF Setup, Calls, Call, At, init_pit, apic_timer_init, apic_timer_round,
         apic_timer_init_end, init_keyboard
<1>3. ASSUME NEW v \in Vectors, int_hook(v),
             pc \notin HookedAt(PIT) \union HookedAt(TIMER) \union HookedAt(KEYBOARD),
             \A w \in Vectors : pc' \in HookedAt(w) <=> w = v
      PROVE  HookInv'
  <2>1. \A w \in Vectors : hooks[w] = {}
    BY <1>3 DEF HookInv
  <2>2. hook_n' \in 0 .. Hooks - 1 /\ hooks' = [hooks EXCEPT ![v] = {hook_n'}]
    BY <1>3, <2>1, HookIsTaken
  <2> QED
    BY <1>3, <2>1, <2>2 DEF HookInv
<1>4. ASSUME NEW v \in Vectors, int_unhook(v), pc \in HookedAt(v),
             \A w \in Vectors : w # v => pc \notin HookedAt(w),
             \A w \in Vectors : pc' \notin HookedAt(w)
      PROVE  HookInv'
  <2>1. hooks[v] \ {hook_n} = {}
    BY <1>4 DEF HookInv
  <2>2. DOMAIN hooks = Vectors /\ hooks' = [hooks EXCEPT ![v] = hooks[v] \ {hook_n}]
    BY <1>4 DEF HookInv, int_unhook
  <2>3. \A w \in Vectors : hooks'[w] = {}
    BY <1>4, <2>1, <2>2 DEF HookInv
  <2>4. hooks' \in [Vectors -> SUBSET (0 .. Hooks - 1)]
    BY <2>1, <2>2, <2>3
  <2> QED
    BY <1>4, <2>3, <2>4 DEF HookInv
<1>5. CASE sleep_hook \/ apic_hook \/ keyboard_hook
  BY <1>3, <1>5 DEF sleep_hook, apic_hook, keyboard_hook, At
<1>6. CASE sleep_unhook \/ apic_unhook \/ keyboard_unhook
  BY <1>4, <1>6 DEF sleep_unhook, apic_unhook, keyboard_unhook, At, FlowInv
<1>7. CASE sleep_refused
  BY <1>7, HookInvKept DEF sleep_refused, At, FlowInv
<1>8. CASE pit_run
  BY <1>8, HookInvKept DEF pit_run, At, FlowInv
<1>9. CASE sleep_arm
  BY <1>9, HookInvKept DEF sleep_arm, At, FlowInv
<1>10. CASE sleep_leave_spin
  BY <1>10, HookInvKept DEF sleep_leave_spin, At, FlowInv
<1>11. CASE pit_stop
  BY <1>11, HookInvKept DEF pit_stop, At, FlowInv
<1>12. CASE apic_sleep
  BY <1>12, HookInvKept DEF apic_sleep, At, FlowInv
<1>13. CASE apic_sleep_arm \/ apic_timer_set_count \/ apic_sleep_leave_spin
  BY <1>13, HookInvKept DEF apic_sleep_arm, apic_timer_set_count, apic_sleep_leave_spin, At
<1>14. CASE apic_mask \/ keyboard_wait \/ keyboard_leave_spin
  BY <1>14, HookInvKept DEF apic_mask, keyboard_wait, keyboard_leave_spin, At, FlowInv
<1> QED
  BY <1>1, <1>2, <1>5, <1>6, <1>7, <1>8, <1>9, <1>10, <1>11, <1>12, <1>13, <1>14
     DEF Next, MainFlow, Sleep, ApicSleep, KeyboardWait

LEMMA MaskInvStep ==
    ASSUME MaskInv, FlowInv, [Next]_vars
    PROVE  MaskInv'
<1>1. CASE Devices \/ Handlers \/ UNCHANGED vars
  BY <1>1, HandlersLeaveMain DEF vars, hardware, main, MaskInv
<1>2. CASE Setup \/ Calls
  BY <1>2 DEF MaskInv, Setup, Calls, Call, At, init_pit, apic_timer_init, apic_timer_round,
         apic_timer_init_end, init_keyboard, hardware
<1>3. CASE Sleep
  BY <1>3 DEF MaskInv, FlowInv, Sleep, At, hardware, sleep_refused, sleep_hook, pit_run, sleep_arm,
         sleep_leave_spin, pit_stop, sleep_unhook
<1>4. CASE ApicSleep
  BY <1>4 DEF MaskInv, FlowInv, ApicSleep, At, hardware, apic_sleep, apic_hook, apic_sleep_arm,
         apic_timer_set_count, apic_sleep_leave_spin, apic_unhook, apic_mask
<1>5. CASE KeyboardWait
  BY <1>5 DEF MaskInv, FlowInv, KeyboardWait, At, hardware, keyboard_wait, keyboard_hook,
         keyboard_leave_spin, keyboard_unhook
<1> QED
  BY <1>1, <1>2, <1>3, <1>4, <1>5 DEF Next, MainFlow

-----------------------------------------------------------------------------
(* The redirection entries.                                                *)

\* A write to one register of an I/O APIC, whole or of its mask.
SetEntry(io, r, x) == [io EXCEPT !.entry[r] = x]
SetMask(io, r, b) == [io EXCEPT !.entry[r].masked = b]

IsSet(io, b, mx, e, r, x) ==
    /\ io = Ioapic(b, mx, io.entry)
    /\ io.entry \in [0 .. mx -> Entry]
    /\ \A k \in 0 .. mx : io.entry[k] = IF k = r THEN x ELSE e[k]

LEMMA EntryIsSet ==
    ASSUME NEW b, NEW mx, NEW e, NEW r, NEW x, NEW f \in [0 .. mx -> Entry],
           \A k \in 0 .. mx : f[k] = IF k = r THEN x ELSE e[k]
    PROVE  IsSet(Ioapic(b, mx, f), b, mx, e, r, x)
<1>1. Ioapic(b, mx, f).entry = f
  BY DEF Ioapic
<1> QED
  BY <1>1 DEF IsSet

LEMMA SetEntryFacts ==
    ASSUME NEW b, NEW mx, NEW e \in [0 .. mx -> Entry], NEW r \in 0 .. mx, NEW x \in Entry
    PROVE  IsSet(SetEntry(Ioapic(b, mx, e), r, x), b, mx, e, r, x)
<1> DEFINE f == [e EXCEPT ![r] = x]
<1>1. SetEntry(Ioapic(b, mx, e), r, x) = Ioapic(b, mx, f)
  BY DEF Ioapic, SetEntry
<1>2. f \in [0 .. mx -> Entry] /\ \A k \in 0 .. mx : f[k] = IF k = r THEN x ELSE e[k]
  OBVIOUS
<1> HIDE DEF f
<1> QED
  BY <1>1, <1>2, EntryIsSet

LEMMA SetMaskFacts ==
    ASSUME NEW b, NEW mx, NEW e \in [0 .. mx -> Entry], NEW r \in 0 .. mx, NEW x \in BOOLEAN
    PROVE  IsSet(SetMask(Ioapic(b, mx, e), r, x), b, mx, e, r, [vector |-> e[r].vector, masked |-> x])
<1>1. [e[r] EXCEPT !.masked = x] = [vector |-> e[r].vector, masked |-> x]
      /\ [vector |-> e[r].vector, masked |-> x] \in Entry
  BY DEF Entry
<1>2. SetMask(Ioapic(b, mx, e), r, x) = Ioapic(b, mx, [e EXCEPT ![r] = [e[r] EXCEPT !.masked = x]])
  BY DEF Ioapic, SetMask
<1> DEFINE y == [vector |-> e[r].vector, masked |-> x]
           f == [e EXCEPT ![r] = y]
<1>3. SetMask(Ioapic(b, mx, e), r, x) = Ioapic(b, mx, f)
  BY <1>1, <1>2, Zenon
<1> HIDE DEF y
<1>4. f \in [0 .. mx -> Entry] /\ \A k \in 0 .. mx : f[k] = IF k = r THEN y ELSE e[k]
  BY <1>1 DEF y
<1> HIDE DEF f
<1>5. IsSet(SetMask(Ioapic(b, mx, e), r, x), b, mx, e, r, y)
  BY <1>3, <1>4, EntryIsSet
<1> QED
  BY <1>5 DEF y

LEMMA ElementsOfSeq ==
    ASSUME NEW S, NEW q \in Seq(S)
    PROVE  Len(q) \in Nat /\ DOMAIN q = 1 .. Len(q) /\ \A n \in DOMAIN q : q[n] \in S
  OBVIOUS

LEMMA MachineFacts ==
    ASSUME NEW m \in Machines
    PROVE  /\ Len(m) \in Nat /\ DOMAIN m = 1 .. Len(m)
           /\ \A n \in DOMAIN m : m[n].base \in Nat /\ m[n].max \in Nat
<1>1. m \in Seq([base : Nat, max : Nat])
  BY InterruptsAssumption
<1>2. /\ Len(m) \in Nat /\ DOMAIN m = 1 .. Len(m)
      /\ \A n \in DOMAIN m : m[n] \in [base : Nat, max : Nat]
  BY <1>1, ElementsOfSeq
<1> QED
  BY <1>2

\* Which I/O APIC has a line never changes.
LEMMA LinesStay ==
    ASSUME NEW m \in Machines, Ioapics(m), Ioapics(m)'
    PROVE  get_ioapic_by_irq(PIT_IRQ)' = get_ioapic_by_irq(PIT_IRQ)
<1>1. /\ DOMAIN system_ioapics = DOMAIN m /\ DOMAIN system_ioapics' = DOMAIN m
      /\ Len(m) \in Nat /\ DOMAIN m = 1 .. Len(m)
  BY MachineFacts DEF Ioapics
<1>2. \A n \in DOMAIN m : /\ system_ioapics'[n].base = system_ioapics[n].base
                          /\ system_ioapics'[n].max = system_ioapics[n].max
  BY DEF Ioapics, Ioapic
<1>3. \A n \in DOMAIN m : Handles(n, PIT_IRQ)' <=> Handles(n, PIT_IRQ)
  BY <1>2 DEF Handles
<1>4. \A n \in DOMAIN m : 1 .. n - 1 \subseteq DOMAIN m
  BY <1>1
<1> QED
  BY <1>1, <1>3, <1>4 DEF get_ioapic_by_irq

\* What a write of the I/O APIC of a line leaves.
Written(m, irq, v, b) ==
    /\ Ioapics(m)'
    /\ \A n \in DOMAIN m : \A r \in 0 .. m[n].max :
         system_ioapics'[n].entry[r] =
            IF n \in get_ioapic_by_irq(irq) /\ r = irq THEN [vector |-> v[n], masked |-> b]
            ELSE system_ioapics[n].entry[r]

LEMMA ApicIrq ==
    ASSUME NEW m \in Machines, Ioapics(m), NEW irq \in Nat, NEW v \in Vectors, NEW b \in BOOLEAN,
           apic_irq(irq, v, b)
    PROVE  Written(m, irq, [n \in DOMAIN m |-> v], b)
<1> DEFINE x == [vector |-> v, masked |-> b]
<1>1. x \in Entry /\ DOMAIN system_ioapics = DOMAIN m
  BY DEF Entry, Ioapics
<1>2. DOMAIN system_ioapics' = DOMAIN m
  BY <1>1 DEF apic_irq
<1>3. ASSUME NEW n \in DOMAIN m
      PROVE  /\ system_ioapics'[n] = Ioapic(m[n].base, m[n].max, system_ioapics'[n].entry)
             /\ system_ioapics'[n].entry \in [0 .. m[n].max -> Entry]
             /\ \A r \in 0 .. m[n].max :
                  system_ioapics'[n].entry[r] =
                    IF n \in get_ioapic_by_irq(irq) /\ r = irq THEN x
                    ELSE system_ioapics[n].entry[r]
  <2> DEFINE e == system_ioapics[n].entry
  <2>1. /\ system_ioapics[n] = Ioapic(m[n].base, m[n].max, e)
        /\ e \in [0 .. m[n].max -> Entry] /\ m[n].max \in Nat
    BY <1>3, MachineFacts DEF Ioapics
  <2>2. CASE ioapic_write(n, irq)
    <3>1. n \in get_ioapic_by_irq(irq) /\ irq \in 0 .. m[n].max
      BY <2>1, <2>2 DEF ioapic_write, Ioapic
    <3>2. system_ioapics'[n] = SetEntry(system_ioapics[n], irq, x)
      BY <1>1, <1>3, <2>2 DEF apic_irq, SetEntry
    <3> HIDE DEF e, x
    <3>3. system_ioapics'[n] = SetEntry(Ioapic(m[n].base, m[n].max, e), irq, x)
      BY <2>1, <3>2, Zenon
    <3> QED
      <4>1. IsSet(system_ioapics'[n], m[n].base, m[n].max, e, irq, x)
        BY <1>1, <2>1, <3>1, <3>3, SetEntryFacts
      <4> QED
        BY <3>1, <4>1 DEF e, x, IsSet
  <2>3. CASE ~ioapic_write(n, irq)
    <3>1. system_ioapics'[n] = system_ioapics[n]
      BY <1>1, <1>3, <2>3 DEF apic_irq
    <3>2. \A r \in 0 .. m[n].max : ~(n \in get_ioapic_by_irq(irq) /\ r = irq)
      BY <2>1, <2>3 DEF ioapic_write, Ioapic
    <3> QED
      BY <2>1, <3>1, <3>2
  <2> QED
    BY <2>2, <2>3
<1>4. Ioapics(m)'
  BY <1>2, <1>3 DEF Ioapics
<1>5. \A n \in DOMAIN m : [k \in DOMAIN m |-> v][n] = v
  OBVIOUS
<1> QED
  BY <1>3, <1>4, <1>5 DEF Written

LEMMA ApicSetMask ==
    ASSUME NEW m \in Machines, Ioapics(m), NEW irq \in Nat, NEW b \in BOOLEAN, apic_set_mask(irq, b)
    PROVE  Written(m, irq, [n \in DOMAIN m |-> system_ioapics[n].entry[irq].vector], b)
<1>1. DOMAIN system_ioapics = DOMAIN m
  BY DEF Ioapics
<1>2. DOMAIN system_ioapics' = DOMAIN m
  BY <1>1 DEF apic_set_mask
<1>3. ASSUME NEW n \in DOMAIN m
      PROVE  /\ system_ioapics'[n] = Ioapic(m[n].base, m[n].max, system_ioapics'[n].entry)
             /\ system_ioapics'[n].entry \in [0 .. m[n].max -> Entry]
             /\ \A r \in 0 .. m[n].max :
                  system_ioapics'[n].entry[r] =
                    IF n \in get_ioapic_by_irq(irq) /\ r = irq
                    THEN [vector |-> system_ioapics[n].entry[irq].vector, masked |-> b]
                    ELSE system_ioapics[n].entry[r]
  <2> DEFINE e == system_ioapics[n].entry
  <2>1. /\ system_ioapics[n] = Ioapic(m[n].base, m[n].max, e)
        /\ e \in [0 .. m[n].max -> Entry] /\ m[n].max \in Nat
    BY <1>3, MachineFacts DEF Ioapics
  <2>2. CASE ioapic_write(n, irq)
    <3>1. n \in get_ioapic_by_irq(irq) /\ irq \in 0 .. m[n].max
      BY <2>1, <2>2 DEF ioapic_write, Ioapic
    <3>2. system_ioapics'[n] = SetMask(system_ioapics[n], irq, b)
      BY <1>1, <1>3, <2>2 DEF apic_set_mask, SetMask
    <3> HIDE DEF e
    <3>3. system_ioapics'[n] = SetMask(Ioapic(m[n].base, m[n].max, e), irq, b)
      BY <2>1, <3>2, Zenon
    <3> QED
      <4>1. IsSet(system_ioapics'[n], m[n].base, m[n].max, e, irq, [vector |-> e[irq].vector, masked |-> b])
        BY <2>1, <3>1, <3>3, SetMaskFacts
      <4> QED
        BY <3>1, <4>1 DEF e, IsSet
  <2>3. CASE ~ioapic_write(n, irq)
    <3>1. system_ioapics'[n] = system_ioapics[n]
      BY <1>1, <1>3, <2>3 DEF apic_set_mask
    <3>2. \A r \in 0 .. m[n].max : ~(n \in get_ioapic_by_irq(irq) /\ r = irq)
      BY <2>1, <2>3 DEF ioapic_write, Ioapic
    <3> QED
      BY <2>1, <3>1, <3>2
  <2> QED
    BY <2>2, <2>3
<1>4. Ioapics(m)'
  BY <1>2, <1>3 DEF Ioapics
<1> QED
  BY <1>3, <1>4 DEF Written

\* A step that writes no register.
LEMMA IoInvKept ==
    ASSUME IoInv, UNCHANGED system_ioapics, pit_ready' = pit_ready,
           SleepRuns' <=> SleepRuns, pc' = "init_pit" <=> pc = "init_pit",
           pc' \in {"pit_run", "sleep_loop", "sleep_spin"} =>
              pit_ready \/ pc \in {"pit_run", "sleep_loop", "sleep_spin"}
    PROVE  IoInv'
<1>1. PICK m \in Machines : Ioapics(m)
  BY DEF IoInv
<1>2. Ioapics(m)'
  BY <1>1 DEF Ioapics
<1>3. get_ioapic_by_irq(PIT_IRQ)' = get_ioapic_by_irq(PIT_IRQ)
  BY <1>1, <1>2, LinesStay
<1>4. RegistersInv'
  BY <1>3 DEF IoInv, RegistersInv, Registered
<1>5. ReadyInv'
  BY <1>3 DEF IoInv, ReadyInv
<1> QED
  BY <1>2, <1>4, <1>5 DEF IoInv

\* A step that writes the register of one line.
LEMMA IoInvWritten ==
    ASSUME RegistersInv, NEW m \in Machines, Ioapics(m), NEW irq \in {KEYBOARD_IRQ, PIT_IRQ},
           NEW v, NEW b \in BOOLEAN,
           Written(m, irq, v, b),
           pc' # "init_pit",
           irq = KEYBOARD_IRQ => /\ \A n \in DOMAIN m : v[n] = KEYBOARD
                                 /\ ~SleepRuns /\ ~SleepRuns' /\ pc # "init_pit",
           irq = PIT_IRQ => /\ \A n \in get_ioapic_by_irq(PIT_IRQ) : PIT_IRQ \in 0 .. m[n].max => v[n] = PIT
                            /\ b <=> ~SleepRuns'
    PROVE  RegistersInv'
<1>1. Ioapics(m)'
  BY DEF Written
<1>2. get_ioapic_by_irq(PIT_IRQ)' = get_ioapic_by_irq(PIT_IRQ)
  BY <1>1, LinesStay
<1>3. DOMAIN system_ioapics = DOMAIN m /\ DOMAIN system_ioapics' = DOMAIN m
  BY <1>1 DEF Ioapics
<1>4. \A n \in DOMAIN m : system_ioapics[n].max = m[n].max /\ system_ioapics'[n].max = m[n].max
  BY <1>1 DEF Ioapics, Ioapic
<1> SUFFICES ASSUME NEW n \in DOMAIN m, NEW r \in 0 .. m[n].max
             PROVE  Registered(n, r, system_ioapics[n].entry[r])'
  BY <1>3, <1>4 DEF RegistersInv
<1>5. Registered(n, r, system_ioapics[n].entry[r])
  BY <1>3, <1>4 DEF RegistersInv
<1>6. KEYBOARD_IRQ # PIT_IRQ
  BY DEF KEYBOARD_IRQ, PIT_IRQ
<1>7. CASE n \in get_ioapic_by_irq(irq) /\ r = irq
  <2>1. system_ioapics'[n].entry[r] = [vector |-> v[n], masked |-> b]
    BY <1>7 DEF Written
  <2>2. system_ioapics'[n].entry[r].vector = v[n] /\ (system_ioapics'[n].entry[r].masked <=> b)
    BY <2>1
  <2>3. CASE irq = PIT_IRQ
    BY <1>2, <1>6, <1>7, <2>2, <2>3 DEF Registered
  <2>4. CASE irq = KEYBOARD_IRQ
    BY <1>2, <1>6, <1>7, <2>2, <2>4 DEF Registered
  <2> QED
    BY <2>3, <2>4
<1>8. CASE ~(n \in get_ioapic_by_irq(irq) /\ r = irq)
  <2>1. system_ioapics'[n].entry[r] = system_ioapics[n].entry[r]
    BY <1>8 DEF Written
  <2> QED
    BY <1>2, <1>5, <1>6, <1>8, <2>1 DEF Registered
<1> QED
  BY <1>7, <1>8

LEMMA IoInvStep ==
    ASSUME IoInv, FlowInv, [Next]_vars
    PROVE  IoInv'
<1>0. PICK m \in Machines : Ioapics(m)
  BY DEF IoInv
<1>1. CASE Devices \/ Handlers \/ UNCHANGED vars
  <2>1. UNCHANGED <<pc, system_ioapics>> /\ pit_ready' = pit_ready
    BY <1>1, HandlersLeaveMain DEF vars, main, hardware, timers
  <2>2. SleepRuns' <=> SleepRuns
    BY <2>1 DEF SleepRuns
  <2> QED
    BY <2>1, <2>2, IoInvKept
<1>2. CASE init_pit
  <2>1. /\ apic_irq(PIT_IRQ, PIT, TRUE) /\ pc' = "apic_timer_init"
        /\ pit_ready' = (get_ioapic_by_irq(PIT_IRQ) # {})
    BY <1>2 DEF init_pit, At
  <2> DEFINE v == [n \in DOMAIN m |-> PIT]
  <2>2. Written(m, PIT_IRQ, v, TRUE)
    BY <1>0, <2>1, ApicIrq DEF PIT_IRQ, Vectors
  <2>3. Ioapics(m)' /\ get_ioapic_by_irq(PIT_IRQ)' = get_ioapic_by_irq(PIT_IRQ)
    BY <1>0, <2>2, LinesStay DEF Written
  <2>4. get_ioapic_by_irq(PIT_IRQ) \subseteq DOMAIN m
    BY <1>0 DEF get_ioapic_by_irq, Ioapics
  <2>5. \A n \in get_ioapic_by_irq(PIT_IRQ) : v[n] = PIT
    BY <2>4
  <2>6. ~SleepRuns' /\ PIT_IRQ # KEYBOARD_IRQ
    BY <2>1 DEF SleepRuns, PIT_IRQ, KEYBOARD_IRQ
  <2> HIDE DEF v
  <2>7. RegistersInv'
    BY <1>0, <2>1, <2>2, <2>5, <2>6, IoInvWritten DEF IoInv
  <2>8. ReadyInv'
    BY <2>1, <2>3 DEF ReadyInv
  <2> QED
    BY <2>3, <2>7, <2>8 DEF IoInv
<1>3. CASE init_keyboard
  <2>1. /\ apic_irq(KEYBOARD_IRQ, KEYBOARD, FALSE) /\ pc = "init_keyboard" /\ pc' = "ready"
        /\ pit_ready' = pit_ready
    BY <1>3 DEF init_keyboard, At, timers
  <2> DEFINE v == [n \in DOMAIN m |-> KEYBOARD]
  <2>2. Written(m, KEYBOARD_IRQ, v, FALSE)
    BY <1>0, <2>1, ApicIrq DEF KEYBOARD_IRQ, Vectors
  <2>3. Ioapics(m)' /\ get_ioapic_by_irq(PIT_IRQ)' = get_ioapic_by_irq(PIT_IRQ)
    BY <1>0, <2>2, LinesStay DEF Written
  <2>4. \A n \in DOMAIN m : v[n] = KEYBOARD
    OBVIOUS
  <2>5. ~SleepRuns /\ ~SleepRuns' /\ PIT_IRQ # KEYBOARD_IRQ
    BY <2>1 DEF SleepRuns, PIT_IRQ, KEYBOARD_IRQ
  <2> HIDE DEF v
  <2>6. RegistersInv'
    BY <1>0, <2>1, <2>2, <2>4, <2>5, IoInvWritten DEF IoInv
  <2>7. ReadyInv'
    BY <2>1, <2>3 DEF IoInv, ReadyInv
  <2> QED
    BY <2>3, <2>6, <2>7 DEF IoInv
<1>4. ASSUME pc # "init_pit", pc' # "init_pit",
             NEW b \in BOOLEAN, apic_set_mask(PIT_IRQ, b), b <=> ~SleepRuns',
             pit_ready' = pit_ready, pc' \in {"pit_run", "sleep_loop", "sleep_spin"} => pit_ready
      PROVE  IoInv'
  <2> DEFINE v == [n \in DOMAIN m |-> system_ioapics[n].entry[PIT_IRQ].vector]
  <2>1. Written(m, PIT_IRQ, v, b)
    BY <1>0, <1>4, ApicSetMask DEF PIT_IRQ
  <2>2. \A n \in get_ioapic_by_irq(PIT_IRQ) : PIT_IRQ \in 0 .. m[n].max => v[n] = PIT
    <3> SUFFICES ASSUME NEW n \in get_ioapic_by_irq(PIT_IRQ), PIT_IRQ \in 0 .. m[n].max
                 PROVE  v[n] = PIT
      OBVIOUS
    <3>1. n \in DOMAIN m /\ n \in DOMAIN system_ioapics /\ system_ioapics[n].max = m[n].max
      BY <1>0 DEF get_ioapic_by_irq, Ioapics, Ioapic
    <3>2. Registered(n, PIT_IRQ, system_ioapics[n].entry[PIT_IRQ])
      BY <3>1 DEF IoInv, RegistersInv
    <3> QED
      BY <1>4, <3>1, <3>2 DEF Registered
  <2> HIDE DEF v
  <2>3. Ioapics(m)' /\ get_ioapic_by_irq(PIT_IRQ)' = get_ioapic_by_irq(PIT_IRQ)
    BY <1>0, <2>1, LinesStay DEF Written
  <2>4. RegistersInv'
    BY <1>0, <1>4, <2>1, <2>2, IoInvWritten DEF IoInv, PIT_IRQ, KEYBOARD_IRQ
  <2>5. ReadyInv'
    BY <1>4, <2>3 DEF IoInv, ReadyInv
  <2> QED
    BY <2>3, <2>4, <2>5 DEF IoInv
<1>5. CASE pit_run
  <2>1. pit_ready' = pit_ready /\ pit_ready /\ pc = "pit_run" /\ pc' = "sleep_loop"
    BY <1>5 DEF pit_run, At, timers, IoInv, ReadyInv
  <2>2. SleepRuns'
    BY <2>1 DEF SleepRuns
  <2> QED
    BY <1>4, <1>5, <2>1, <2>2 DEF pit_run
<1>6. CASE pit_stop
  <2>1. pit_ready' = pit_ready /\ pc = "sleep_loop" /\ pc' = "sleep_unhook"
    BY <1>6 DEF pit_stop, At, timers
  <2>2. ~SleepRuns'
    BY <2>1 DEF SleepRuns
  <2> QED
    BY <1>4, <1>6, <2>1, <2>2 DEF pit_stop
<1>7. ASSUME \/ apic_timer_init \/ apic_timer_round \/ apic_timer_init_end \/ Calls
             \/ sleep_refused \/ sleep_hook \/ sleep_arm \/ sleep_leave_spin \/ sleep_unhook
             \/ ApicSleep \/ KeyboardWait
      PROVE  IoInv'
  <2>1. UNCHANGED system_ioapics /\ pit_ready' = pit_ready
    BY <1>7 DEF apic_timer_init, apic_timer_round, apic_timer_init_end, Calls, Call,
         sleep_refused, sleep_hook, sleep_arm, sleep_leave_spin, sleep_unhook,
         ApicSleep, apic_sleep, apic_hook, apic_sleep_arm, apic_timer_set_count,
         apic_sleep_leave_spin, apic_unhook, apic_mask,
         KeyboardWait, keyboard_wait, keyboard_hook, keyboard_leave_spin, keyboard_unhook,
         hardware, timers
  <2>2. /\ SleepRuns' <=> SleepRuns
        /\ pc # "init_pit" /\ pc' # "init_pit"
        /\ pc' = "pit_run" => pit_ready
    BY <1>7 DEF apic_timer_init, apic_timer_round, apic_timer_init_end, Calls, Call, At,
         sleep_refused, sleep_hook, sleep_arm, sleep_leave_spin, sleep_unhook,
         ApicSleep, apic_sleep, apic_hook, apic_sleep_arm, apic_timer_set_count,
         apic_sleep_leave_spin, apic_unhook, apic_mask,
         KeyboardWait, keyboard_wait, keyboard_hook, keyboard_leave_spin, keyboard_unhook,
         SleepRuns, FlowInv
  <2> QED
    BY <2>1, <2>2, IoInvKept DEF SleepRuns
<1> QED
  BY <1>1, <1>2, <1>3, <1>5, <1>6, <1>7 DEF Next, MainFlow, Setup, Sleep

-----------------------------------------------------------------------------
(* The theorems.                                                           *)

LEMMA InterruptsInvInit == Init => InterruptsInv
<1> SUFFICES ASSUME Init PROVE InterruptsInv
  OBVIOUS
<1>1. FrameInv
  BY DEF Init, FrameInv
<1>2. WaitInv
  BY DEF Init, WaitInv, FlowInv, FlagsInv, OwedInv, Places
<1>3. HookInv
  BY DEF Init, HookInv, HookedAt, Vectors, PIT, KEYBOARD, TIMER
<1>4. MaskInv
  BY DEF Init, MaskInv
<1>5. PICK m \in Machines :
        system_ioapics = [n \in DOMAIN m |->
           [base |-> m[n].base, max |-> m[n].max,
            entry |-> [r \in 0 .. m[n].max |-> [vector |-> 0, masked |-> TRUE]]]]
  BY DEF Init
<1>6. /\ DOMAIN system_ioapics = DOMAIN m
      /\ \A n \in DOMAIN m :
           /\ system_ioapics[n].base = m[n].base /\ system_ioapics[n].max = m[n].max
           /\ system_ioapics[n].entry = [r \in 0 .. m[n].max |-> [vector |-> 0, masked |-> TRUE]]
           /\ system_ioapics[n] = Ioapic(m[n].base, m[n].max, system_ioapics[n].entry)
  BY <1>5 DEF Ioapic
<1>7. [vector |-> 0, masked |-> TRUE] \in Entry
  BY DEF Entry
<1>8. Ioapics(m)
  BY <1>6, <1>7 DEF Ioapics
<1>9. RegistersInv
  <2>1. pc = "init_pit" /\ ~SleepRuns
    BY DEF Init, SleepRuns
  <2>2. ASSUME NEW n \in DOMAIN m, NEW r \in 0 .. m[n].max
        PROVE  system_ioapics[n].entry[r].masked
    <3>1. system_ioapics[n].entry[r] = [vector |-> 0, masked |-> TRUE]
      BY <1>6, <2>2
    <3>2. [vector |-> 0, masked |-> TRUE].masked
      OBVIOUS
    <3> QED
      BY <3>1, <3>2, Zenon
  <2>3. \A n \in DOMAIN m : \A r \in 0 .. m[n].max : Registered(n, r, system_ioapics[n].entry[r])
    BY <2>1, <2>2 DEF Registered
  <2> QED
    BY <1>6, <2>3 DEF RegistersInv
<1>10. ReadyInv
  BY DEF Init, ReadyInv
<1> QED
  BY <1>1, <1>2, <1>3, <1>4, <1>8, <1>9, <1>10 DEF InterruptsInv, IoInv

LEMMA InterruptsInvNext == InterruptsInv /\ [Next]_vars => InterruptsInv'
  BY FrameInvStep, WaitInvStep, HookInvStep, MaskInvStep, IoInvStep
     DEF InterruptsInv, WaitInv, IoInv

LEMMA SpecInterruptsInv == Spec => []InterruptsInv
  BY InterruptsInvInit, InterruptsInvNext, PTL DEF Spec

LEMMA InvImpliesTypeOK == InterruptsInv => TypeOK
<1> SUFFICES ASSUME InterruptsInv PROVE TypeOK
  OBVIOUS
<1>1. PICK m \in Machines : Ioapics(m)
  BY DEF InterruptsInv, IoInv
<1>2. ASSUME NEW io \in Range(system_ioapics)
      PROVE  io.entry \in [0 .. io.max -> Entry]
  <2>1. PICK n \in DOMAIN m : io = system_ioapics[n]
    BY <1>1, <1>2 DEF Range, Ioapics
  <2>2. io.max = m[n].max
    BY <1>1, <2>1 DEF Ioapics, Ioapic
  <2> QED
    BY <1>1, <2>1, <2>2 DEF Ioapics
<1> QED
  BY <1>2 DEF TypeOK, InterruptsInv, FrameInv, Frame, WaitInv, FlowInv, FlagsInv, HookInv

(***************************************************************************)
(* A call that waits, sleep, apic_sleep or keyboard_wait, reaches its end  *)
(* only when it has seen every interrupt it waits for, and a handler       *)
(* acknowledges only the interrupt it serves: for every set of I/O APICs,  *)
(* every number of hooks and every depth of nested handlers.               *)
(***************************************************************************)
THEOREM CallsWaitTheirTime == Spec => []WaitsAreServed
<1>1. InterruptsInv => WaitsAreServed
  BY InvImpliesTypeOK DEF InterruptsInv, WaitInv, OwedInv, WaitsAreServed
<1> QED
  BY <1>1, SpecInterruptsInv, PTL

(***************************************************************************)
(* Between calls no hook is left, the line of the PIT and the local timer  *)
(* are masked; while sleep waits the line of the PIT arrives at its        *)
(* vector.  apic_irq takes the number of a line for that of a register:    *)
(* this is so on machines where the I/O APIC of the first lines begins     *)
(* with line 0.                                                            *)
(***************************************************************************)
THEOREM CallsLeaveQuiet ==
    ASSUME \A m \in Machines : \A n \in DOMAIN m : m[n].base = 0 \/ m[n].base > PIT_IRQ
    PROVE  Spec => []QuietBetweenCalls
<1>1. ASSUME InterruptsInv PROVE QuietBetweenCalls
  <2>1. PICK m \in Machines : Ioapics(m)
    BY <1>1 DEF InterruptsInv, IoInv
  <2>2. DOMAIN system_ioapics = DOMAIN m
    BY <2>1 DEF Ioapics
  <2>3. \A n \in DOMAIN m : /\ m[n].base \in Nat /\ m[n].max \in Nat
                            /\ system_ioapics[n].base = m[n].base
                            /\ system_ioapics[n].max = m[n].max
    BY <2>1, MachineFacts DEF Ioapics, Ioapic
  <2>4. ASSUME NEW n \in DOMAIN m, PIT_IRQ - m[n].base \in 0 .. m[n].max
        PROVE  /\ m[n].base = 0 /\ PIT_IRQ - m[n].base = PIT_IRQ
               /\ Registered(n, PIT_IRQ, system_ioapics[n].entry[PIT_IRQ])
    <3>1. m[n].base \in Nat /\ m[n].max \in Nat /\ (m[n].base = 0 \/ m[n].base > 2)
      BY <2>3 DEF PIT_IRQ
    <3>2. m[n].base = 0 /\ PIT_IRQ - m[n].base = PIT_IRQ /\ PIT_IRQ \in 0 .. m[n].max
      BY <2>4, <3>1 DEF PIT_IRQ
    <3> QED
      BY <1>1, <2>2, <2>3, <3>2 DEF InterruptsInv, IoInv, RegistersInv
  <2>5. ASSUME NEW x \in Raised(PIT_IRQ) PROVE SleepRuns /\ x = PIT
    <3>1. PICK io \in Range(system_ioapics) :
             /\ PIT_IRQ - io.base \in 0 .. io.max /\ ~io.entry[PIT_IRQ - io.base].masked
             /\ x = io.entry[PIT_IRQ - io.base].vector
      BY <2>5 DEF Raised
    <3>2. PICK n \in DOMAIN m : io = system_ioapics[n]
      BY <2>2 DEF Range
    <3>3. PIT_IRQ - m[n].base \in 0 .. m[n].max /\ io.base = m[n].base
      BY <2>3, <3>1, <3>2
    <3>4. PIT_IRQ - io.base = PIT_IRQ /\ Registered(n, PIT_IRQ, io.entry[PIT_IRQ])
      BY <2>4, <3>2, <3>3
    <3>5. ~io.entry[PIT_IRQ].masked /\ x = io.entry[PIT_IRQ].vector
      BY <3>1, <3>4
    <3>6. PIT_IRQ # KEYBOARD_IRQ
      BY DEF PIT_IRQ, KEYBOARD_IRQ
    <3> QED
      BY <3>4, <3>5, <3>6 DEF Registered
  <2>6. ASSUME SleepRuns PROVE PIT \in Raised(PIT_IRQ)
    <3>1. PICK n \in get_ioapic_by_irq(PIT_IRQ) : TRUE
      BY <1>1, <2>6 DEF InterruptsInv, IoInv, ReadyInv, SleepRuns
    <3>2. n \in DOMAIN m /\ Handles(n, PIT_IRQ)
      BY <2>2 DEF get_ioapic_by_irq
    <3>3. m[n].base \in Nat /\ m[n].max \in Nat /\ m[n].base <= 2 /\ 2 - m[n].base < m[n].max
      BY <2>3, <3>2 DEF Handles, PIT_IRQ
    <3>4. PIT_IRQ - m[n].base \in 0 .. m[n].max
      BY <3>3 DEF PIT_IRQ
    <3>5. /\ PIT_IRQ - m[n].base = PIT_IRQ
          /\ Registered(n, PIT_IRQ, system_ioapics[n].entry[PIT_IRQ])
      BY <2>4, <3>2, <3>4
    <3>6. pc # "init_pit"
      BY <2>6 DEF SleepRuns
    <3>7. /\ ~system_ioapics[n].entry[PIT_IRQ].masked
          /\ system_ioapics[n].entry[PIT_IRQ].vector = PIT
      BY <2>6, <3>1, <3>5, <3>6 DEF Registered
    <3>8. system_ioapics[n] \in Range(system_ioapics)
      BY <2>2, <3>2 DEF Range
    <3>9. PIT_IRQ - system_ioapics[n].base = PIT_IRQ /\ PIT_IRQ \in 0 .. system_ioapics[n].max
      BY <2>3, <3>2, <3>4, <3>5
    <3> QED
      BY <3>7, <3>8, <3>9 DEF Raised
  <2>7. pc = "ready" => Raised(PIT_IRQ) = {}
    BY <2>5 DEF SleepRuns
  <2>8. SleepRuns => Raised(PIT_IRQ) = {PIT}
    BY <2>5, <2>6
  <2>9. pc = "ready" => lvt_masked
    BY <1>1 DEF InterruptsInv, MaskInv
  <2>10. pc = "ready" => \A v \in Vectors : hooks[v] = {}
    BY <1>1 DEF InterruptsInv, HookInv, HookedAt, Vectors, PIT, KEYBOARD, TIMER
  <2> QED
    BY <2>7, <2>8, <2>9, <2>10 DEF QuietBetweenCalls, SleepRuns
<1> QED
  BY <1>1, SpecInterruptsInv, PTL
=============================================================================
