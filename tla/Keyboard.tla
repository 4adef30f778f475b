------------------------------ MODULE Keyboard ------------------------------
(***************************************************************************)
(* From the bytes of the PS/2 keyboard to characters: the decoding of scan *)
(* codes (io/ps2_keyboard.c), the state of the modifiers (io/keyboard.c)   *)
(* and the character a printable code stands for under it (tty/term.c).    *)
(* A code is the character it stands for or the name of its macro, without *)
(* the prefix KEYCODE_.                                                    *)
(***************************************************************************)
LOCAL INSTANCE Integers
LOCAL INSTANCE Sequences
LOCAL INSTANCE TLC

KEYCODE_NULL == "NULL"
KeyboardControls ==
    {"LSHIFT_DOWN", "RSHIFT_DOWN", "LSHIFT_UP", "RSHIFT_UP", "LCTRL_DOWN",
     "RCTRL_DOWN", "LCTRL_UP", "RCTRL_UP", "ALT_DOWN", "ALT_UP",
     "ALTGR_DOWN", "ALTGR_UP", "CAPS_LOCK"}
TerminalControls == {"BACKSPACE", "TAB", "LINE_FEED", "ESCAPE"}
IS_PRINTABLE(code) ==
    code \notin KeyboardControls \cup TerminalControls \cup {KEYCODE_NULL}

\* The codes of scan codes 1 to 3A.
keyboard_codes ==
    <<"ESCAPE", "1", "2", "3", "4", "5", "6", "7", "8", "9", "0", "'", "i",
      "BACKSPACE", "TAB", "q", "w", "e", "r", "t", "y", "u", "i", "o", "p",
      "e", "+", "LINE_FEED", "LCTRL_DOWN", "a", "s", "d", "f", "g", "h", "j",
      "k", "l", "o", "a", "u", "LSHIFT_DOWN", "<", "z", "x", "c", "v", "b",
      "n", "m", ",", ".", "-", "RSHIFT_DOWN", "*", "ALT_DOWN", " ",
      "CAPS_LOCK">>

PS2_EXT_SCANCODE == \hE0

Released == (\h9D :> "LCTRL_UP") @@ (\hAA :> "LSHIFT_UP")
                @@ (\hB6 :> "RSHIFT_UP") @@ (\hB8 :> "ALT_UP")

\* The scan codes of the keypad get the codes of the top row.
ps2_switch_scancode(s) ==
    IF s \in 1..\h3A THEN keyboard_codes[s]
    ELSE IF s \in \h47..\h53 THEN keyboard_codes[s - \h47 + 1]
    ELSE IF s \in DOMAIN Released THEN Released[s]
    ELSE KEYCODE_NULL

Extended == (\h38 :> "ALTGR_DOWN") @@ (\hB8 :> "ALTGR_UP")
                @@ (\h1D :> "RCTRL_DOWN") @@ (\h9D :> "RCTRL_UP")

ps2_switch_ext_scancode(s) ==
    IF s \in DOMAIN Extended THEN Extended[s] ELSE KEYCODE_NULL

\* The code of a byte read, and whether the next one is of an extended key.
ps2_in_sticky(s, prev_ext) ==
    IF s = PS2_EXT_SCANCODE THEN [code |-> KEYCODE_NULL, prev_ext |-> TRUE]
    ELSE [code |-> IF prev_ext THEN ps2_switch_ext_scancode(s)
                               ELSE ps2_switch_scancode(s),
          prev_ext |-> prev_ext]

ps2_in(s, prev_ext) ==
    IF s = PS2_EXT_SCANCODE THEN [code |-> KEYCODE_NULL, prev_ext |-> TRUE]
    ELSE [code |-> IF prev_ext THEN ps2_switch_ext_scancode(s)
                               ELSE ps2_switch_scancode(s),
          prev_ext |-> FALSE]

NoModifiers == [shift |-> FALSE, ctrl |-> FALSE, alt |-> FALSE,
                altgr |-> FALSE, capslock |-> FALSE]

keyboard_control(ks, control) ==
    CASE control \in {"LSHIFT_DOWN", "RSHIFT_DOWN"} ->
             [ks EXCEPT !.shift = TRUE]
      [] control \in {"LSHIFT_UP", "RSHIFT_UP"}     ->
             [ks EXCEPT !.shift = FALSE]
      [] control \in {"LCTRL_DOWN", "RCTRL_DOWN"} -> [ks EXCEPT !.ctrl = TRUE]
      [] control \in {"LCTRL_UP", "RCTRL_UP"} -> [ks EXCEPT !.ctrl = FALSE]
      [] control = "ALT_DOWN"   -> [ks EXCEPT !.alt = TRUE]
      [] control = "ALT_UP"     -> [ks EXCEPT !.alt = FALSE]
      [] control = "ALTGR_DOWN" -> [ks EXCEPT !.altgr = TRUE]
      [] control = "ALTGR_UP"   -> [ks EXCEPT !.altgr = FALSE]
      [] control = "CAPS_LOCK"  -> [ks EXCEPT !.capslock = ~@]
      [] OTHER                  -> ks

\* c - 32 for the letters the table has.
Upper == [q |-> "Q", w |-> "W", e |-> "E", r |-> "R", t |-> "T", y |-> "Y",
          u |-> "U", i |-> "I", o |-> "O", p |-> "P", a |-> "A", s |-> "S",
          d |-> "D", f |-> "F", g |-> "G", h |-> "H", j |-> "J", k |-> "K",
          l |-> "L", z |-> "Z", x |-> "X", c |-> "C", v |-> "V", b |-> "B",
          n |-> "N", m |-> "M"]

Interpreted(ks, c) ==
    IF (ks.capslock \/ ks.shift) /\ c \in DOMAIN Upper THEN Upper[c]
    ELSE IF ks.altgr THEN CASE c = "o" -> "@" [] c = "a" -> "#" [] OTHER -> c
    ELSE c
=============================================================================
