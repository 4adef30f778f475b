----------------------------- MODULE MCConsole -----------------------------
EXTENDS Console, TLC

MCPrompt == <<"C">>
MCCommands == {<<"a">>}
Plain(code) == [ext |-> FALSE, code |-> code]
A == Plain(\h1E)
Backspace == Plain(\h0E)
Enter == Plain(\h1C)
MCKeyboards ==
    {{A, Plain(\h2A), Plain(\h36)},               \* both shift keys
     {A, Plain(\h2A), Plain(\h3A)},               \* shift and caps lock
     {A, [ext |-> TRUE, code |-> \h38]},          \* alt gr
     {A, Backspace}, {A, Enter}, {Backspace, Enter}}
MCLegend == \h1E :> "a"
=============================================================================
