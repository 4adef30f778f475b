----------------------------- MODULE Interrupts -----------------------------
(***************************************************************************)
(* The interrupts of int/isr.c, int/int.c and int/apic.c, and the calls    *)
(* that wait for one: sleep and apic_timer_init on the PIT, apic_sleep on  *)
(* the timer of the local APIC, keyboard_wait on the keyboard.             *)
(*                                                                         *)
(* A line of a device is an edge at an I/O APIC, which turns it into a     *)
(* vector; the local APIC keeps requested vectors and the one in service.  *)
(* The vectors of the three handlers are of one priority class, so that    *)
(* none is delivered while one is in service.  Handlers start with         *)
(* interrupts off and turn them on before they acknowledge: interrupts     *)
(* nest from there on.  The main flow takes a step only when there is      *)
(* nothing to deliver.                                                     *)
(***************************************************************************)
EXTENDS Integers, Sequences, FiniteSetsExt, Functions

CONSTANTS
    Machines,   \* the machines: for each I/O APIC, in the order of ids, its
                \* first line and its max_redirections
    Hooks,      \* ISR_MAX_HOOKS
    Eois,       \* the writes of send_eoi
    Rounds,     \* the rounds of apic_timer_init
    MaxMs,      \* bound on the milliseconds of a call
    MaxCalls,   \* bound on the calls after the kernel is set up
    MaxDepth    \* bound on nested handlers

ASSUME InterruptsAssumption ==
    /\ Machines \subseteq Seq([base : Nat, max : Nat])
    /\ Hooks \in Nat \ {0} /\ Eois \in Nat \ {0}
    /\ MaxMs \in Nat \ {0}   \* apic_timer_init sleeps a millisecond

VARIABLES
    system_ioapics,   \* the I/O APICs, with their redirection entries
    irr, isr,   \* vectors requested, and in service, at the local APIC
    lvt_masked, \* the mask of the timer of the local APIC
    armed,      \* its count is not 0
    interrupts, \* the interrupt flag
    frames,     \* the handlers in progress, innermost first
    hooks,      \* isr_hooks: for each vector its slots in use
    waiting,    \* the *_in_progress flags: vectors waited for
    pc, ms, hook_n, ret, rounds,   \* the main flow, and the locals of its calls
    pit_ready, apic_sleep_ready, apic_timer_frequency,
    calls,      \* calls made once the kernel is set up
    owed,       \* history: interrupts the call in progress has still to see
    expired     \* history: the timer expired since its count was set

hardware == <<system_ioapics, irr, isr, lvt_masked, armed>>
cpu == <<interrupts, frames>>
main == <<pc, ms, hook_n, ret, rounds>>
timers == <<pit_ready, apic_sleep_ready, apic_timer_frequency>>
vars == <<hardware, cpu, hooks, waiting, main, timers, calls, owed, expired>>

PIT == 23
KEYBOARD == 24
TIMER == 25
Vectors == {PIT, KEYBOARD, TIMER}

PIT_IRQ == 2
KEYBOARD_IRQ == 1

NoHook == 255
Entry == [vector : Vectors \union {0}, masked : BOOLEAN]

-----------------------------------------------------------------------------
\* get_ioapic_by_irq finds the first I/O APIC whose lines hold irq, except that
\* it takes the number of the last entry for the number of entries.
Handles(n, irq) == system_ioapics[n].base <= irq /\ irq - system_ioapics[n].base < system_ioapics[n].max

get_ioapic_by_irq(irq) ==
    {n \in DOMAIN system_ioapics : Handles(n, irq) /\ \A k \in 1 .. n - 1 : ~Handles(k, irq)}

\* apic_irq and apic_set_mask use the register of the number of the line.
ioapic_write(n, irq) == n \in get_ioapic_by_irq(irq) /\ irq <= system_ioapics[n].max

apic_irq(irq, vector, masked) ==
    system_ioapics' = [n \in DOMAIN system_ioapics |->
       IF ~ioapic_write(n, irq) THEN system_ioapics[n]
       ELSE [system_ioapics[n] EXCEPT !.entry[irq] = [vector |-> vector, masked |-> masked]]]

apic_set_mask(irq, masked) ==
    system_ioapics' = [n \in DOMAIN system_ioapics |->
       IF ~ioapic_write(n, irq) THEN system_ioapics[n]
       ELSE [system_ioapics[n] EXCEPT !.entry[irq].masked = masked]]

\* int_hook takes the first free slot; int_unhook frees one.
FreeSlots(v) == (0 .. Hooks - 1) \ hooks[v]

int_hook(v) ==
    IF FreeSlots(v) = {} THEN hook_n' = NoHook /\ UNCHANGED hooks
    ELSE /\ hook_n' = Min(FreeSlots(v))
         /\ hooks' = [hooks EXCEPT ![v] = @ \union {hook_n'}]

int_unhook_next(v) == hooks' = [hooks EXCEPT ![v] = @ \ {hook_n + 1}]

int_unhook(v) == hooks' = [hooks EXCEPT ![v] = @ \ {hook_n}]

\* What init_apic leaves: the lines masked, except as LinesMasked of Boot says,
\* the timer masked, no hooks.
Init ==
    /\ \E machine \in Machines :
         system_ioapics = [n \in DOMAIN machine |->
           [base |-> machine[n].base, max |-> machine[n].max,
            entry |-> [r \in 0 .. machine[n].max |-> [vector |-> 0, masked |-> TRUE]]]]
    /\ irr = {} /\ isr = {}
    /\ lvt_masked = TRUE /\ armed = FALSE
    /\ interrupts = TRUE /\ frames = <<>>
    /\ hooks = [v \in Vectors |-> {}]
    /\ waiting = {}
    /\ pc = "init_pit" /\ ms = 0 /\ hook_n = NoHook /\ ret = "ready" /\ rounds = 0
    /\ pit_ready = FALSE /\ apic_sleep_ready = FALSE /\ apic_timer_frequency = 0
    /\ calls = 0
    /\ owed = 0
    /\ expired = FALSE

-----------------------------------------------------------------------------
\* The devices.  An edge at a line that is masked is lost, one that is already
\* requested is merged.
Raised(line) ==
    {io.entry[line - io.base].vector : io \in
        {x \in Range(system_ioapics) : /\ line - x.base \in 0 .. x.max
                                      /\ ~x.entry[line - x.base].masked}}

Edge(line) ==
    /\ irr' = irr \union Raised(line)
    /\ irr' # irr
    /\ UNCHANGED <<system_ioapics, isr, lvt_masked, armed, cpu, hooks, waiting, main, timers,
                   calls, owed, expired>>

\* The timer is periodic: it goes on after it expires.
TimerExpires ==
    /\ armed /\ ~(expired /\ TIMER \in irr)
    /\ irr' = IF lvt_masked THEN irr ELSE irr \union {TIMER}
    /\ expired' = TRUE
    /\ UNCHANGED <<system_ioapics, isr, lvt_masked, armed, cpu, hooks, waiting, main, timers,
                   calls, owed>>

\* The processor takes the highest of the requested vectors.
Deliverable ==
    /\ interrupts /\ irr # {} /\ isr = {}
    /\ Len(frames) < MaxDepth

Deliver ==
    /\ Deliverable
    /\ isr' = {Max(irr)}
    /\ irr' = irr \ {Max(irr)}
    /\ interrupts' = FALSE
    /\ frames' = <<[vector |-> Max(irr), at |-> "hooks", eois |-> 0]>> \o frames
    /\ UNCHANGED <<system_ioapics, lvt_masked, armed, hooks, waiting, main, timers, calls,
                   owed, expired>>

\* The handlers irq0, irq1 and irq2.  Each hook clears the flag of its vector.
InHandler(step) == frames # <<>> /\ Head(frames).at = step

int_exec_hooks_once ==
    /\ InHandler("hooks")
    /\ LET v == Head(frames).vector IN
         /\ waiting' = IF hooks[v] = {} THEN waiting ELSE waiting \ {v}
         /\ owed' = IF hooks[v] = {} \/ owed = 0 THEN owed ELSE owed - 1
         /\ hooks' = [hooks EXCEPT ![v] = {}]
    /\ frames' = [frames EXCEPT ![1].at = "enable"]
    /\ UNCHANGED <<hardware, interrupts, main, timers, calls, expired>>

int_exec_hooks ==
    /\ InHandler("hooks")
    /\ LET v == Head(frames).vector IN
         /\ waiting' = IF hooks[v] = {} THEN waiting ELSE waiting \ {v}
         /\ owed' = IF hooks[v] = {} \/ owed = 0 THEN owed ELSE owed - 1
    /\ frames' = [frames EXCEPT ![1].at = "enable"]
    /\ UNCHANGED <<hardware, interrupts, hooks, main, timers, calls, expired>>

enable_int ==
    /\ InHandler("enable")
    /\ interrupts' = TRUE
    /\ frames' = [frames EXCEPT ![1].at = "eoi"]
    /\ UNCHANGED <<hardware, hooks, waiting, main, timers, calls, owed, expired>>

send_eoi ==
    /\ InHandler("eoi") /\ ~Deliverable
    /\ Head(frames).eois < Eois
    /\ isr' = {}
    /\ frames' = [frames EXCEPT ![1].eois = @ + 1]
    /\ UNCHANGED <<system_ioapics, irr, lvt_masked, armed, interrupts, hooks, waiting, main,
                   timers, calls, owed, expired>>

return_from_handler ==
    /\ InHandler("eoi") /\ ~Deliverable
    /\ Head(frames).eois = Eois
    /\ frames' = Tail(frames)
    /\ interrupts' = TRUE
    /\ UNCHANGED <<hardware, hooks, waiting, main, timers, calls, owed, expired>>

-----------------------------------------------------------------------------
\* The main flow.  At(p, q): it is at p and goes on to q.
At(p, q) ==
    /\ pc = p /\ pc' = q
    /\ frames = <<>> /\ ~Deliverable

init_pit ==
    /\ At("init_pit", "apic_timer_init")
    /\ apic_irq(PIT_IRQ, PIT, TRUE)
    /\ pit_ready' = (get_ioapic_by_irq(PIT_IRQ) # {})
    /\ UNCHANGED <<irr, isr, lvt_masked, armed, cpu, hooks, waiting, ms, hook_n, ret,
                   rounds, apic_sleep_ready, apic_timer_frequency, calls, owed, expired>>

\* apic_timer_init counts the ticks of the timer during sleep(1).
apic_timer_init ==
    /\ At("apic_timer_init", "round")
    /\ lvt_masked' = FALSE
    /\ rounds' = Rounds
    /\ UNCHANGED <<system_ioapics, irr, isr, armed, cpu, hooks, waiting, ms, hook_n, ret, timers,
                   calls, owed, expired>>

apic_timer_round ==
    /\ At("round", "sleep")
    /\ rounds > 0
    /\ armed' = TRUE /\ expired' = FALSE
    /\ ms' = 1 /\ ret' = "round"
    /\ rounds' = rounds - 1
    /\ owed' = 1
    /\ UNCHANGED <<system_ioapics, irr, isr, lvt_masked, cpu, hooks, waiting, hook_n, timers, calls>>

\* Without the PIT the average is that of no time at all, and may be 0.
apic_timer_init_end ==
    /\ At("round", "init_keyboard")
    /\ rounds = 0
    /\ lvt_masked' = TRUE
    /\ apic_timer_frequency' \in (IF pit_ready THEN {1} ELSE {0, 1})
    /\ apic_sleep_ready' = TRUE
    /\ UNCHANGED <<system_ioapics, irr, isr, armed, cpu, hooks, waiting, ms, hook_n, ret, rounds,
                   pit_ready, calls, owed, expired>>

init_keyboard ==
    /\ At("init_keyboard", "ready")
    /\ apic_irq(KEYBOARD_IRQ, KEYBOARD, FALSE)
    /\ UNCHANGED <<irr, isr, lvt_masked, armed, cpu, hooks, waiting, ms, hook_n, ret,
                   rounds, timers, calls, owed, expired>>

\* A call of one of the functions that wait.
Call(f, n) ==
    /\ At("ready", f)
    /\ calls < MaxCalls /\ calls' = calls + 1
    /\ ms' = n /\ ret' = "ready"
    /\ owed' = IF f = "keyboard_wait" THEN 1 ELSE n
    /\ UNCHANGED <<hardware, cpu, hooks, waiting, hook_n, rounds, timers, expired>>

\* sleep: returns at once without the PIT, for no time or without a hook.
sleep_refused ==
    /\ At("sleep", ret)
    /\ ~pit_ready \/ ms = 0 \/ FreeSlots(PIT) = {}
    /\ UNCHANGED <<hardware, cpu, hooks, waiting, ms, hook_n, ret, rounds, timers, calls,
                   owed, expired>>

sleep_hook ==
    /\ At("sleep", "pit_run")
    /\ pit_ready /\ ms > 0 /\ FreeSlots(PIT) # {}
    /\ int_hook(PIT)
    /\ UNCHANGED <<hardware, cpu, waiting, ms, ret, rounds, timers, calls, owed, expired>>

pit_run ==
    /\ At("pit_run", "sleep_loop")
    /\ apic_set_mask(PIT_IRQ, FALSE)
    /\ UNCHANGED <<irr, isr, lvt_masked, armed, cpu, hooks, waiting, ms, hook_n, ret,
                   rounds, timers, calls, owed, expired>>

sleep_arm_unset ==
    /\ At("sleep_loop", "sleep_spin")
    /\ ms > 0
    /\ ms' = ms - 1
    /\ UNCHANGED <<hardware, cpu, hooks, waiting, hook_n, ret, rounds, timers, calls, owed,
                   expired>>

sleep_arm ==
    /\ At("sleep_loop", "sleep_spin")
    /\ ms > 0
    /\ ms' = ms - 1
    /\ waiting' = waiting \union {PIT}
    /\ UNCHANGED <<hardware, cpu, hooks, hook_n, ret, rounds, timers, calls, owed, expired>>

sleep_leave_spin ==
    /\ At("sleep_spin", "sleep_loop")
    /\ PIT \notin waiting
    /\ UNCHANGED <<hardware, cpu, hooks, waiting, ms, hook_n, ret, rounds, timers, calls,
                   owed, expired>>

pit_stop ==
    /\ At("sleep_loop", "sleep_unhook")
    /\ ms = 0
    /\ apic_set_mask(PIT_IRQ, TRUE)
    /\ UNCHANGED <<irr, isr, lvt_masked, armed, cpu, hooks, waiting, ms, hook_n, ret,
                   rounds, timers, calls, owed, expired>>

sleep_unhook ==
    /\ At("sleep_unhook", ret)
    /\ int_unhook(PIT)
    /\ UNCHANGED <<hardware, cpu, waiting, ms, hook_n, ret, rounds, timers, calls, owed,
                   expired>>

\* apic_sleep; the timer is ready once the kernel is set up.
apic_sleep ==
    /\ At("apic_sleep", "apic_hook")
    /\ apic_sleep_ready
    /\ lvt_masked' = FALSE
    /\ UNCHANGED <<system_ioapics, irr, isr, armed, cpu, hooks, waiting, ms, hook_n, ret, rounds,
                   timers, calls, owed, expired>>

apic_hook ==
    /\ At("apic_hook", "apic_loop")
    /\ int_hook(TIMER)
    /\ UNCHANGED <<hardware, cpu, waiting, ms, ret, rounds, timers, calls, owed, expired>>

apic_sleep_arm ==
    /\ At("apic_loop", "apic_set_count")
    /\ ms > 0
    /\ waiting' = waiting \union {TIMER}
    /\ UNCHANGED <<hardware, cpu, hooks, ms, hook_n, ret, rounds, timers, calls, owed, expired>>

apic_timer_set_count ==
    /\ At("apic_set_count", "apic_spin")
    /\ armed' = (apic_timer_frequency > 0)
    /\ expired' = FALSE
    /\ UNCHANGED <<system_ioapics, irr, isr, lvt_masked, cpu, hooks, waiting, ms, hook_n, ret, rounds,
                   timers, calls, owed>>

apic_sleep_leave_spin ==
    /\ At("apic_spin", "apic_loop")
    /\ TIMER \notin waiting
    /\ ms' = ms - 1
    /\ UNCHANGED <<hardware, cpu, hooks, waiting, hook_n, ret, rounds, timers, calls, owed,
                   expired>>

apic_unhook ==
    /\ At("apic_loop", "apic_mask")
    /\ ms = 0
    /\ int_unhook(TIMER)
    /\ UNCHANGED <<hardware, cpu, waiting, ms, hook_n, ret, rounds, timers, calls, owed, expired>>

apic_mask ==
    /\ At("apic_mask", ret)
    /\ lvt_masked' = TRUE
    /\ UNCHANGED <<system_ioapics, irr, isr, armed, cpu, hooks, waiting, ms, hook_n, ret, rounds,
                   timers, calls, owed, expired>>

\* keyboard_wait raises its flag before it has its hook.
keyboard_wait ==
    /\ At("keyboard_wait", "keyboard_hook")
    /\ waiting' = waiting \union {KEYBOARD}
    /\ UNCHANGED <<hardware, cpu, hooks, ms, hook_n, ret, rounds, timers, calls, owed, expired>>

keyboard_hook ==
    /\ At("keyboard_hook", "keyboard_spin")
    /\ int_hook(KEYBOARD)
    /\ UNCHANGED <<hardware, cpu, waiting, ms, ret, rounds, timers, calls, owed, expired>>

keyboard_leave_spin ==
    /\ At("keyboard_spin", "keyboard_unhook")
    /\ KEYBOARD \notin waiting
    /\ UNCHANGED <<hardware, cpu, hooks, waiting, ms, hook_n, ret, rounds, timers, calls,
                   owed, expired>>

keyboard_unhook ==
    /\ At("keyboard_unhook", ret)
    /\ int_unhook(KEYBOARD)
    /\ UNCHANGED <<hardware, cpu, waiting, ms, hook_n, ret, rounds, timers, calls, owed,
                   expired>>

-----------------------------------------------------------------------------
Devices == Edge(PIT_IRQ) \/ Edge(KEYBOARD_IRQ) \/ TimerExpires

Handlers ==
    \/ Deliver
    \/ int_exec_hooks
    \/ enable_int
    \/ send_eoi
    \/ return_from_handler

Setup ==
    \/ init_pit
    \/ apic_timer_init
    \/ apic_timer_round
    \/ apic_timer_init_end
    \/ init_keyboard

Calls ==
    \/ \E n \in 0 .. MaxMs : Call("sleep", n) \/ Call("apic_sleep", n)
    \/ Call("keyboard_wait", 0)

Sleep ==
    \/ sleep_refused
    \/ sleep_hook
    \/ pit_run
    \/ sleep_arm
    \/ sleep_leave_spin
    \/ pit_stop
    \/ sleep_unhook

ApicSleep ==
    \/ apic_sleep
    \/ apic_hook
    \/ apic_sleep_arm
    \/ apic_timer_set_count
    \/ apic_sleep_leave_spin
    \/ apic_unhook
    \/ apic_mask

KeyboardWait ==
    \/ keyboard_wait
    \/ keyboard_hook
    \/ keyboard_leave_spin
    \/ keyboard_unhook

MainFlow == Setup \/ Sleep \/ ApicSleep \/ KeyboardWait

Next == Devices \/ Handlers \/ MainFlow \/ Calls

Spec == Init /\ [][Next]_vars

\* Timers tick and handlers run to their end; a call the main flow has begun
\* goes on whenever the main flow is given the processor again and again; the
\* user presses keys.
FairSpec ==
    /\ Spec
    /\ WF_vars(Edge(PIT_IRQ))
    /\ WF_vars(Edge(KEYBOARD_IRQ))
    /\ WF_vars(TimerExpires)
    /\ WF_vars(Handlers)
    /\ SF_vars(MainFlow)

-----------------------------------------------------------------------------
Places ==
    {"init_pit", "apic_timer_init", "round", "init_keyboard", "ready", "sleep", "pit_run",
     "sleep_loop", "sleep_spin", "sleep_unhook", "apic_sleep", "apic_hook", "apic_loop",
     "apic_set_count", "apic_spin", "apic_mask", "keyboard_wait", "keyboard_hook",
     "keyboard_spin", "keyboard_unhook"}

\* The registers hold entries, one vector at most is in service, and it is that
\* of the innermost handler as long as this has not acknowledged it.
TypeOK ==
    /\ \A io \in Range(system_ioapics) : io.entry \in [0 .. io.max -> Entry]
    /\ irr \subseteq Vectors
    /\ isr = IF frames # <<>> /\ Head(frames).eois = 0 THEN {Head(frames).vector} ELSE {}
    /\ frames \in Seq([vector : Vectors, at : {"hooks", "enable", "eoi"}, eois : 0 .. Eois])
    /\ hooks \in [Vectors -> SUBSET (0 .. Hooks - 1)]
    /\ waiting \subseteq Vectors
    /\ pc \in Places /\ ret \in {"ready", "round"} /\ ms \in 0 .. MaxMs

\* A call that waits ends only after as many interrupts as it waits for, however
\* the flag, the hook and the handlers interleave; and no handler acknowledges
\* an interrupt but its own, although it does so ten times.
WaitsAreServed ==
    /\ TypeOK
    /\ pc \in {"sleep_unhook", "apic_mask", "keyboard_unhook"} => owed = 0

\* Between calls no hook is left behind and the timers are masked; while a call
\* waits for it, the line of the PIT arrives at its vector.
QuietBetweenCalls ==
    /\ pc = "ready" =>
         /\ \A v \in Vectors : hooks[v] = {}
         /\ Raised(PIT_IRQ) = {}
         /\ lvt_masked
    /\ pc \in {"sleep_loop", "sleep_spin"} => Raised(PIT_IRQ) = {PIT}

\* If the main flow is given the processor again and again, and the timer of
\* the local APIC was calibrated, a call returns; so does the calibration.
Free == frames = <<>> /\ ~Deliverable

SleepsReturn ==
    ([]<>Free) => (pc # "ready" ~> (pc = "ready" \/ ~pit_ready))

\* apic.c, 369: from now on the system can use the apic timer to sleep a certain
\* amount of milliseconds.  A tick of the period before ends a wait early.
FullPeriods == [][apic_sleep_leave_spin => expired]_vars
=============================================================================
