------------------------------ MODULE Terminal ------------------------------
(***************************************************************************)
(* The command line: the loop of init_terminal (tty/term.c) and the        *)
(* keyboard interrupt that preempts it between any two of its steps, with  *)
(* the file stdin (io/files.c) the interrupt keeps the typed line in.      *)
(*                                                                         *)
(* An interrupt handler runs with interrupts off until it is done, hence   *)
(* is one step.  Of the heap only the outcome of kmalloc and krealloc and  *)
(* the size of the block they return matter.                               *)
(***************************************************************************)
EXTENDS Integers, Sequences, FiniteSetsExt, SequencesExt

CONSTANTS
    Char,           \* printable characters
    Nul,            \* the zero byte
    Junk,           \* a byte of fresh or foreign memory
    CommandLength,  \* TERMINAL_COMMAND_LENGTH, 128 in the code
    MaxLine,        \* bound: characters the user puts on a line
    MaxPending      \* bound: lines entered and not yet printed

ASSUME TerminalAssumption ==
    /\ CommandLength \in Nat \ {0}
    /\ MaxLine \in Nat /\ MaxPending \in Nat
    /\ Nul \notin Char /\ Junk \notin Char /\ Nul # Junk

VARIABLES
    pc,             \* where init_terminal is
    term_command,   \* the command buffer, <<>> for null
    command_ready,
    ptr,            \* the block of stdin, <<>> for null
    size,           \* stdin.size
    refused,        \* history: the heap refused a write
    line,           \* history: what the user sees on the line typed
    pending,        \* history: lines entered and not yet printed
    rushed          \* history: a line was entered while one was in hand

mainVars == <<pc, term_command, command_ready>>
fileVars == <<ptr, size, refused>>
userVars == <<line, pending, rushed>>
vars == <<mainVars, fileVars, userVars>>

Bytes == Char \cup {Nul, Junk}
Filled(b) == [k \in 1..CommandLength |-> b]

Init ==
    /\ pc = "kmalloc"
    /\ term_command = <<>>
    /\ command_ready = FALSE
    /\ ptr = <<>> /\ size = 0 /\ refused = FALSE
    /\ line = <<>> /\ pending = <<>> /\ rushed = FALSE

-----------------------------------------------------------------------------
(***************************************************************************)
(* init_terminal.                                                          *)
(***************************************************************************)
\* The bytes printf prints: those before the first zero, none at address 0.
Shown ==
    LET ends == {k \in DOMAIN term_command : term_command[k] = Nul}
    IN  IF ends = {} THEN term_command
                     ELSE SubSeq(term_command, 1, Min(ends) - 1)

MainStep(from, to, command, ready) ==
    /\ pc = from /\ pc' = to
    /\ term_command' = command
    /\ command_ready' = ready
    /\ UNCHANGED <<fileVars, line, rushed>>

\* Nothing looks at what kmalloc returned.
alloc_command ==
    /\ \/ MainStep("kmalloc", "ready", Filled(Junk), command_ready)
       \/ MainStep("kmalloc", "ready", <<>>, command_ready)
    /\ UNCHANGED pending

clear_ready ==
    MainStep("ready", "clean", term_command, FALSE) /\ UNCHANGED pending

\* memclear; the bytes at address 0 are not kept.
Cleared == IF term_command = <<>> THEN <<>> ELSE Filled(Nul)

clean_command ==
    MainStep("clean", "prompt", Cleared, command_ready) /\ UNCHANGED pending

print_prompt ==
    MainStep("prompt", "spin", term_command, command_ready)
        /\ UNCHANGED pending

leave_spin ==
    /\ command_ready
    /\ MainStep("spin", "print", term_command, command_ready)
    /\ UNCHANGED pending

\* What is printed answers the lines that end with the one shown.
print_command ==
    /\ MainStep("print", "clear", term_command, command_ready)
    /\ pending' = IF pending # <<>> /\ Shown = pending[1]
                  THEN Tail(pending) ELSE pending

clear_command_kept ==
    MainStep("clear", "reset", term_command, command_ready)
        /\ UNCHANGED pending

clear_command ==
    MainStep("clear", "reset", Cleared, command_ready) /\ UNCHANGED pending

reset_ready ==
    MainStep("reset", "prompt", term_command, FALSE) /\ UNCHANGED pending

Main ==
    \/ alloc_command \/ clear_ready \/ clean_command
    \/ print_prompt \/ leave_spin \/ print_command
    \/ clear_command \/ reset_ready

(***************************************************************************)
(* The files of the keyboard handler: write(STDIN, c, 1) and               *)
(* read(STDIN, buffer, count).                                             *)
(***************************************************************************)
\* krealloc copies old_size bytes, whatever the size of the new block: what
\* does not fit goes past its end.
Resized_short(new_size) ==
    [k \in 1..new_size-1 |-> IF k \in DOMAIN ptr THEN ptr[k] ELSE Junk]

Resized(new_size) ==
    [k \in 1..new_size |-> IF k \in DOMAIN ptr THEN ptr[k] ELSE Junk]

write(c) ==
    \/ /\ ptr' = [Resized(size + 1) EXCEPT ![size + 1] = c]
       /\ size' = size + 1
       /\ UNCHANGED refused
    \/ /\ ptr' = <<>>
       /\ refused' = TRUE
       /\ UNCHANGED size

\* The bytes a read finds: those at address 0 while there is no block.
Source(k) == IF k \in DOMAIN ptr THEN ptr[k] ELSE Junk

ReadCount_short(count) == IF size = 0 THEN 0 ELSE Min({count, size - 1})
ReadCount(count) == Min({count, size})

read_kept(count) == UNCHANGED fileVars

read(count) ==
    /\ size' = size - ReadCount(count)
    /\ UNCHANGED <<ptr, refused>>

(***************************************************************************)
(* The keyboard interrupt.                                                 *)
(***************************************************************************)
term_putc(c) ==
    /\ Len(line) < MaxLine
    /\ write(c)
    /\ line' = Append(line, c)
    /\ UNCHANGED <<mainVars, pending, rushed>>

term_backspace ==
    /\ read(1)
    /\ line' = IF line = <<>> THEN line ELSE Front(line)
    /\ UNCHANGED <<mainVars, pending, rushed>>

term_line_feed ==
    /\ Len(pending) < MaxPending
    /\ term_command' =
           [k \in DOMAIN term_command |->
               IF k <= ReadCount(CommandLength) THEN Source(k)
                                                ELSE term_command[k]]
    /\ read(CommandLength)
    /\ command_ready' = TRUE
    /\ line' = <<>>
    /\ pending' = Append(pending, line)
    /\ rushed' = (rushed \/ command_ready \/ pc \in {"kmalloc", "ready", "clean"})
    /\ UNCHANGED pc

Keyboard ==
    \/ \E c \in Char : term_putc(c)
    \/ term_backspace
    \/ term_line_feed

Next == Main \/ Keyboard

Spec == Init /\ [][Next]_vars

\* The processor goes on executing init_terminal between interrupts.
FairSpec == Spec /\ WF_vars(Main)

-----------------------------------------------------------------------------
\* The type of every variable.
TypeOK ==
    /\ pc \in {"kmalloc", "ready", "clean", "prompt", "spin", "print",
               "clear", "reset"}
    /\ term_command \in Seq(Bytes)
    /\ Len(term_command) \in {0, CommandLength}
    /\ command_ready \in BOOLEAN
    /\ ptr \in Seq(Bytes)
    /\ size \in Nat
    /\ refused \in BOOLEAN
    /\ line \in Seq(Char)
    /\ pending \in Seq(Seq(Char)) /\ Len(pending) <= MaxPending
    /\ rushed \in BOOLEAN

(***************************************************************************)
(* No read runs past the block of stdin: reads shrink the count and not    *)
(* the block, writes make the block fit the count.  The exception is a     *)
(* write that krealloc refused (write): the block is gone and its bytes    *)
(* are still counted, so that a read takes them from address 0.  That is   *)
(* the only way to count a byte without a block, and it ends with the next *)
(* write that the heap serves, or when reads took the count to 0.          *)
(***************************************************************************)
CountFitsBlock ==
    TypeOK /\ (size <= Len(ptr) \/ (ptr = <<>> /\ refused))

(***************************************************************************)
(* As long as the heap serves every write and no line is longer than a     *)
(* command, stdin holds exactly the line the user sees, although a read    *)
(* takes bytes from its end and the block keeps stale ones.                *)
(***************************************************************************)
StdinIsTheLine == refused \/ SubSeq(ptr, 1, size) = line

\* init_terminal has no buffer: kmalloc refused it.
NoCommand == pc # "kmalloc" /\ term_command = <<>>

(***************************************************************************)
(* Unless a line was entered while another was being handled, or before    *)
(* the terminal was set up, or the heap refused the buffer or a write,     *)
(* every line entered is printed as typed: the loop never goes back to     *)
(* waiting with a line in hand, and never prints anything else.            *)
(***************************************************************************)
LostOnlyWhenRushed ==
    \/ rushed \/ refused \/ NoCommand
    \/ /\ pc = "spin" /\ ~command_ready => pending = <<>>
       /\ pc = "print" => pending = <<Shown>>

(***************************************************************************)
(* A line is printed in the end unless it is one of those lost: a line     *)
(* entered while another was in hand, or after the heap refused a write or *)
(* the buffer.                                                             *)
(***************************************************************************)
LinesArePrinted ==
    pending # <<>> ~> (pending = <<>> \/ rushed \/ refused \/ NoCommand)

=============================================================================
