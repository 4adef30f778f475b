------------------------------ MODULE Console ------------------------------
(***************************************************************************)
(* The screen (tty/tty.c) under the two flows that print on it: the loop   *)
(* of init_terminal (tty/term.c) and the keyboard interrupt, which decodes *)
(* a byte of the keyboard (module Keyboard) and echoes it between any two  *)
(* steps of the loop.  A handler runs with interrupts off until it has     *)
(* echoed, hence is one step.  What stdin holds is in module Terminal: the *)
(* command a line feed hands over is any of Commands here.                 *)
(*                                                                         *)
(* The user is external: keys go down, repeat and come up, and the         *)
(* keyboard queues their scan codes.                                       *)
(***************************************************************************)
EXTENDS Integers, Sequences, SequencesExt, Format, Keyboard

CONSTANTS
    Width, Height,  \* of the grid of the screen
    Prompt,         \* the text of the prompt
    Commands,       \* the texts a command may be
    Keyboards,      \* bound: the sets of keys, records [ext, code], one of
                    \* which the user uses
    Legend,         \* what is printed on the character keys, by scan code
    MaxBytes        \* bound: bytes queued by the keyboard

PRINTF_MAX_BUFFER == 256

ASSUME ConsoleAssumption ==
    /\ Width \in Nat \ {0} /\ Height \in Nat \ {0} /\ MaxBytes \in Nat
    /\ \A k \in Keyboards : k \subseteq [ext : BOOLEAN, code : 1..\h58]
    /\ \A c \in Commands : Len(c) <= 128

VARIABLES
    pc, text, next, \* init_terminal: where it is, what is left of the text
                    \* it prints, and what it does after it
    command_ready,
    term_command,
    screen,         \* tty_cursor and the characters plotted on each cell
    prev_ext, ks,   \* ps2_in and the modifiers
    bytes,          \* external: the bytes the keyboard has queued
    keys, held,     \* external: the keys in use and those down
    capslock,       \* external: the light the user wants
    wanted,         \* history: characters the queued bytes should echo
    confused,       \* history: two keys of a kind were held together
    page, full,     \* history: the cells of the text printed, row after row,
                    \* and whether its last row is full and still current
    torn            \* history: an echo came in the middle of a character

mainVars == <<pc, text, next>>
userVars == <<keys, held, capslock>>
pageVars == <<page, full, torn>>
decoder == <<prev_ext, ks>>
vars == <<mainVars, command_ready, term_command, screen, decoder, bytes,
          userVars, wanted, confused, pageVars>>

-----------------------------------------------------------------------------
(***************************************************************************)
(* tty.c.  Cells keep every character plotted on them: the background is   *)
(* transparent.  Plots outside the cells of the page are not kept; the     *)
(* page has one row more than the screen, as the cursor does.              *)
(***************************************************************************)
Cells == (0..Width-1) \X (0..Height)
tty_clear == [x |-> 0, y |-> 0, cells |-> [at \in Cells |-> {}]]

putchar_at(s, c) ==
    IF <<s.x, s.y>> \in Cells
    THEN [s EXCEPT !.cells[<<s.x, s.y>>] = @ \cup {c}] ELSE s

AtEnd(s, c) == c = "\n" \/ s.x = Width
NextRow(s) == IF s.y < Height THEN [s EXCEPT !.y = @ + 1] ELSE tty_clear

putchar(s, c) ==
    LET t == IF AtEnd(s, c) THEN NextRow([s EXCEPT !.x = 0]) ELSE s
    IN  IF c = "\n" THEN t ELSE [putchar_at(t, c) EXCEPT !.x = @ + 1]

tty_clear_cell(s) ==
    IF s.x >= Width \/ s.y >= Height THEN s
    ELSE [s EXCEPT !.cells[<<s.x, s.y>>] = {}]

tty_backspace_stays(s) ==
    tty_clear_cell(IF s.x = 0 THEN s ELSE [s EXCEPT !.x = @ - 1])

tty_backspace(s) ==
    tty_clear_cell(IF s.x > 0 THEN [s EXCEPT !.x = @ - 1]
                   ELSE IF s.y > 0 THEN [s EXCEPT !.x = Width - 1, !.y = @ - 1]
                   ELSE s)

\* print_color prints these only.
Shown(c) == Len(c) = 1
printf(fmt, args) ==
    SelectSeq(vsnprintf(PRINTF_MAX_BUFFER, fmt, args), Shown)

-----------------------------------------------------------------------------
(***************************************************************************)
(* What the page of the text should be: rows of Width cells, a new line    *)
(* filling the rest of its row with blanks, and a page of Height + 1 rows. *)
(***************************************************************************)
Blank == ""
Row == (IF full THEN Len(page) - 1 ELSE Len(page)) \div Width

Printed(c) ==
    LET rest  == [k \in 1..((Row + 1) * Width - Len(page)) |-> Blank]
        start == IF Row = Height /\ (c = "\n" \/ full) THEN <<>> ELSE page
    IN  IF c = "\n"
        THEN page' = (IF Row = Height THEN <<>> ELSE page \o rest)
             /\ full' = FALSE
        ELSE page' = Append(start, c) /\ full' = (Len(page') % Width = 0)

Erased == /\ page' = IF page = <<>> THEN page ELSE Front(page)
          /\ full' = FALSE

-----------------------------------------------------------------------------
Init ==
    /\ pc = "start" /\ text = <<>> /\ next = "prompt"
    /\ command_ready = FALSE /\ term_command = <<>>
    /\ screen = tty_clear
    /\ prev_ext = FALSE /\ ks = NoModifiers
    /\ keys \in Keyboards
    /\ bytes = <<>> /\ held = {} /\ capslock = FALSE
    /\ wanted = <<>> /\ confused = FALSE
    /\ page = <<>> /\ full = FALSE /\ torn = FALSE

init_terminal ==
    /\ pc = "start" /\ pc' = "prompt"
    /\ command_ready' = FALSE /\ term_command' = <<>>
    /\ UNCHANGED <<text, next, screen, pageVars>>

\* The calls of printf in the loop, and what follows each.
Says(from, fmt, args, to) ==
    /\ pc = from
    /\ text' = printf(fmt, args)
    /\ pc' = "test" /\ next' = to
    /\ UNCHANGED <<command_ready, term_command, screen, pageVars>>

print_prompt == Says("prompt", <<"%", "s">>, <<Prompt>>, "prompt_char")
print_prompt_char ==
    Says("prompt_char", <<"%", "c", " ">>, <<"#">>, "spin")
print_command_bare ==
    command_ready /\ Says("spin", <<"%", "s">>, <<term_command>>, "clear")

print_command ==
    command_ready /\ Says("spin", <<"\n", "%", "s", "\n">>, <<term_command>>,
                          "clear")

clear_command ==
    /\ pc = "clear" /\ pc' = "prompt"
    /\ command_ready' = FALSE /\ term_command' = <<>>
    /\ UNCHANGED <<text, next, screen, pageVars>>

(***************************************************************************)
(* putchar as the loop runs it: the comparison of the column, the first    *)
(* column, the next row, the plot, and the column.                         *)
(***************************************************************************)
MainStep(from, to) ==
    /\ pc = from /\ pc' = to
    /\ UNCHANGED <<next, command_ready, term_command>>

put_return ==
    /\ text = <<>> /\ MainStep("test", next)
    /\ UNCHANGED <<text, screen, pageVars>>

put_test ==
    /\ text # <<>>
    /\ MainStep("test", IF AtEnd(screen, text[1]) THEN "first" ELSE "plot")
    /\ UNCHANGED <<text, screen, pageVars>>

put_first ==
    /\ MainStep("first", "row")
    /\ screen' = [screen EXCEPT !.x = 0]
    /\ UNCHANGED <<text, pageVars>>

put_row ==
    /\ MainStep("row", IF text[1] = "\n" THEN "test" ELSE "plot")
    /\ screen' = NextRow(screen)
    /\ IF text[1] = "\n" THEN Printed("\n") /\ text' = Tail(text)
                         ELSE UNCHANGED <<page, full, text>>
    /\ UNCHANGED torn

put_plot ==
    /\ MainStep("plot", "step")
    /\ screen' = putchar_at(screen, text[1])
    /\ UNCHANGED <<text, pageVars>>

put_step ==
    /\ MainStep("step", "test")
    /\ screen' = [screen EXCEPT !.x = @ + 1]
    /\ Printed(text[1]) /\ text' = Tail(text)
    /\ UNCHANGED torn

Main ==
    /\ \/ init_terminal \/ print_prompt \/ print_prompt_char
       \/ print_command \/ clear_command \/ put_return \/ put_test
       \/ put_first \/ put_row \/ put_plot \/ put_step
    /\ UNCHANGED <<decoder, bytes, userVars, wanted, confused>>

-----------------------------------------------------------------------------
(***************************************************************************)
(* irq1: keypressed(ps2_in()).                                             *)
(***************************************************************************)
InTheMiddle == pc \in {"first", "row", "plot", "step"}

term_putc(c) ==
    /\ screen' = putchar(screen, c)
    /\ Printed(c) /\ torn' = (torn \/ InTheMiddle)
    /\ wanted' = IF wanted = <<>> THEN wanted ELSE Tail(wanted)
    /\ UNCHANGED <<ks, command_ready, term_command>>

term_backspace ==
    /\ screen' = tty_backspace(screen)
    /\ Erased /\ torn' = (torn \/ InTheMiddle)
    /\ UNCHANGED <<ks, wanted, command_ready, term_command>>

term_line_feed ==
    /\ command_ready' = TRUE
    /\ \E c \in Commands : term_command' = c
    /\ UNCHANGED <<ks, screen, pageVars, wanted>>

keypressed(code) ==
    \/ IS_PRINTABLE(code) /\ term_putc(Interpreted(ks, code))
    \/ code = "BACKSPACE" /\ term_backspace
    \/ code = "LINE_FEED" /\ term_line_feed
    \/ /\ code \in KeyboardControls \cup {KEYCODE_NULL, "TAB", "ESCAPE"}
       /\ ks' = IF code \in KeyboardControls
                THEN keyboard_control(ks, code) ELSE ks
       /\ UNCHANGED <<screen, pageVars, wanted, command_ready, term_command>>

irq1 ==
    /\ bytes # <<>>
    /\ bytes' = Tail(bytes)
    /\ LET in == ps2_in(bytes[1], prev_ext)
       IN  prev_ext' = in.prev_ext /\ keypressed(in.code)
    /\ UNCHANGED <<mainVars, userVars, confused>>

-----------------------------------------------------------------------------
(***************************************************************************)
(* The user.  Modifiers go down, repeat and come up, the other keys and    *)
(* caps lock are tapped.  Bound: he stops once an echo was torn, since the *)
(* cursor may then be anywhere beyond a row.                               *)
(***************************************************************************)
Shift == {[ext |-> FALSE, code |-> \h2A], [ext |-> FALSE, code |-> \h36]}
AltGr == [ext |-> TRUE, code |-> \h38]
CapsLock == [ext |-> FALSE, code |-> \h3A]
Modifiers == Shift \cup {AltGr}

Make(key) == IF key.ext THEN <<PS2_EXT_SCANCODE, key.code>> ELSE <<key.code>>
Break(key) == IF key.ext THEN <<PS2_EXT_SCANCODE, key.code + 128>>
                         ELSE <<key.code + 128>>

Meant(key) ==
    IF key.code \notin DOMAIN Legend THEN <<>>
    ELSE <<Interpreted([NoModifiers EXCEPT
                            !.shift = held \cap Shift # {},
                            !.altgr = AltGr \in held,
                            !.capslock = capslock], Legend[key.code])>>

User(sent) ==
    /\ bytes' = bytes \o sent
    /\ Len(bytes') <= MaxBytes /\ ~torn
    /\ UNCHANGED <<mainVars, keys, command_ready, term_command, screen,
                   decoder, pageVars>>

Press(key) ==
    /\ key \in Modifiers
    /\ User(Make(key))
    /\ held' = held \cup {key}
    /\ confused' = \/ Shift \subseteq held'
                   \/ confused /\ ~(held = {} /\ bytes = <<>>)
    /\ UNCHANGED <<capslock, wanted>>

Release(key) ==
    /\ key \in held
    /\ User(Break(key))
    /\ held' = held \ {key}
    /\ UNCHANGED <<capslock, wanted, confused>>

Tap(key) ==
    /\ key \notin Modifiers
    /\ User(Make(key) \o Break(key))
    /\ capslock' = IF key = CapsLock THEN ~capslock ELSE capslock
    /\ wanted' = wanted \o Meant(key)
    /\ UNCHANGED <<held, confused>>

Next ==
    \/ Main \/ irq1
    \/ \E key \in keys : Press(key) \/ Release(key) \/ Tap(key)

\* The processor goes on executing the loop between interrupts.
Spec == Init /\ [][Next]_vars /\ WF_vars(Main)

-----------------------------------------------------------------------------
\* The type of every variable.
TypeOK ==
    /\ pc \in {"start", "prompt", "prompt_char", "spin", "clear", "test",
               "first", "row", "plot", "step"}
    /\ command_ready \in BOOLEAN
    /\ screen.x \in Nat /\ screen.y \in 0..Height
    /\ DOMAIN screen.cells = Cells
    /\ prev_ext \in BOOLEAN /\ DOMAIN ks = DOMAIN NoModifiers
    /\ Len(bytes) <= MaxBytes
    /\ held \subseteq keys
    /\ Len(page) <= Width * (Height + 1)

(***************************************************************************)
(* Unless an echo came in the middle of a character of the loop, the       *)
(* screen shows exactly the text of both flows, row by row, each character *)
(* on a cell of its own, and the cursor is where the text ends: new lines, *)
(* full rows, the start of a new page, and a backspace over the start of a *)
(* row; and the cursor never goes below the row after the last.            *)
(* (putchar, tty_backspace and tty_clear_cell of tty.c.)                   *)
(***************************************************************************)
ScreenShowsTheText ==
    /\ TypeOK
    /\ torn \/ InTheMiddle \/
          /\ screen.y * Width + screen.x = Len(page)
          /\ screen.x = Width <=> full
          /\ \A at \in Cells :
                 LET k == at[2] * Width + at[1] + 1
                 IN  at[2] < Height =>
                     screen.cells[at] =
                         IF k <= Len(page) THEN {page[k]} \ {Blank} ELSE {}

(***************************************************************************)
(* What the decoder will make of the bytes queued, from the state it is    *)
(* in, is what the user meant when the keys went down, and once all bytes  *)
(* are read the modifiers are those of the keys held: whatever is held,    *)
(* repeated or released in between, prefixes included, unless both shift   *)
(* keys were held together.  (ps2_in, keyboard_control and term_putc.)     *)
(***************************************************************************)
Echoes ==
    LET d == FoldLeft(
                LAMBDA s, b :
                    LET in == ps2_in(b, s.prev_ext)
                    IN  [prev_ext |-> in.prev_ext,
                         ks       |-> keyboard_control(s.ks, in.code),
                         out      |-> IF IS_PRINTABLE(in.code)
                                      THEN Append(s.out,
                                                  Interpreted(s.ks, in.code))
                                      ELSE s.out],
                [prev_ext |-> prev_ext, ks |-> ks, out |-> <<>>], bytes)
    IN  d

KeysAreEchoed ==
    confused \/ /\ Echoes.out = wanted
                /\ Echoes.ks.shift = (held \cap Shift # {})
                /\ Echoes.ks.altgr = (AltGr \in held)
                /\ Echoes.ks.capslock = capslock

(***************************************************************************)
(* A number printed in base 8, 10 or 16, at either width, with or without  *)
(* padding, reads back as itself: in base 16 as the bits of its width, in  *)
(* the others with its sign; and takes the width asked for, besides the    *)
(* sign.  With a buffer of any size, the text is that of an unlimited      *)
(* buffer, or a prefix of it and dots; conversions never put more          *)
(* characters than the size, so that the buffer is passed by the dots, the *)
(* final zero and the characters of the format at most.  (Of vsnprintf     *)
(* alone, hence stated in the first state.)                                *)
(***************************************************************************)
TextIsRight ==
    pc = "start" /\ bytes = <<>> => AllReadBack /\ AllWholeOrDotted

(***************************************************************************)
(* An echo in the middle of a character of the loop can carry the cursor   *)
(* beyond the end of its row, where the comparison of putchar, an equality,*)
(* no longer sees it (tty.c:179).  It does not stay there once a command   *)
(* was entered: whatever is echoed between its steps, the loop gets to the *)
(* new line it prints around the command, and that brings the cursor back. *)
(***************************************************************************)
Beyond == screen.x > Width
CursorComesBack == Beyond /\ command_ready ~> ~Beyond
=============================================================================
