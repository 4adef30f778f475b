--------------------------- MODULE TerminalProofs ---------------------------
(***************************************************************************)
(* Proofs about Terminal, for every alphabet, command length and number of *)
(* lines entered, and for lines no longer than a command.                  *)
(***************************************************************************)
EXTENDS Terminal, SequenceTheorems, WellFoundedInduction, TLAPS

USE TerminalAssumption

-----------------------------------------------------------------------------
(***************************************************************************)
(* The inductive invariant.                                                *)
(***************************************************************************)
CountInv ==
    /\ TypeOK /\ Len(line) <= MaxLine
    /\ size <= Len(ptr) \/ (ptr = <<>> /\ refused)

\* StdinIsTheLine, byte by byte.
LineInv ==
    \/ refused
    \/ /\ Len(line) = size /\ size <= Len(ptr)
       /\ \A k \in 1..size : ptr[k] = line[k]

AllNul(cmd) == \A k \in 1..CommandLength : cmd[k] = Nul

\* What printf prints of cmd is l.
Shows(cmd, l) ==
    /\ Len(l) <= CommandLength
    /\ \A k \in 1..Len(l) : cmd[k] = l[k]
    /\ Len(l) < CommandLength => cmd[Len(l) + 1] = Nul

InHand == Len(pending) = 1 /\ Shows(term_command, pending[1])

\* The lines not printed yet, at each place of init_terminal: a line is in
\* hand from the interrupt that completes it to the printf.
HandInv ==
    \/ rushed \/ refused \/ NoCommand
    \/ /\ pc \in {"kmalloc", "ready", "clean"} => ~command_ready /\ pending = <<>>
       /\ pc \in {"prompt", "spin"} /\ command_ready => InHand
       /\ pc \in {"prompt", "spin"} /\ ~command_ready =>
              pending = <<>> /\ AllNul(term_command)
       /\ pc = "print" => command_ready /\ InHand
       /\ pc \in {"clear", "reset"} => command_ready /\ pending = <<>>
       /\ pc = "reset" => AllNul(term_command)

LinesInv == LineInv /\ HandInv

-----------------------------------------------------------------------------
(***************************************************************************)
(* Sequences, and the operators of the model.                              *)
(***************************************************************************)
LEMMA FunctionIsSeq ==
    ASSUME NEW S, NEW n \in Nat, NEW f \in [1..n -> S]
    PROVE  f \in Seq(S) /\ Len(f) = n
  OBVIOUS

LEMMA PrefixElements ==
    ASSUME NEW S, NEW s \in Seq(S), NEW n \in 0..Len(s)
    PROVE  /\ SubSeq(s, 1, n) \in Seq(S) /\ Len(SubSeq(s, 1, n)) = n
           /\ \A i \in 1..n : SubSeq(s, 1, n)[i] = s[i]
<1>1. Len(s) \in Nat /\ \A i \in 1..Len(s) : s[i] \in S
  BY LenProperties, ElementOfSeq
<1>2. n \in Int /\ 1 \in Int /\ \A i \in 1..n : s[i] \in S
  BY <1>1
<1>3. /\ SubSeq(s, 1, n) \in Seq(S)
      /\ Len(SubSeq(s, 1, n)) = IF 1 <= n THEN n - 1 + 1 ELSE 0
      /\ \A i \in 1..n-1+1 : SubSeq(s, 1, n)[i] = s[1+i-1]
  BY <1>2, SubSeqProperties
<1> QED
  BY <1>1, <1>3

LEMMA FrontElements ==
    ASSUME NEW S, NEW s \in Seq(S), s # <<>>
    PROVE  /\ Front(s) \in Seq(S) /\ Len(Front(s)) = Len(s) - 1
           /\ \A i \in 1..Len(s)-1 : Front(s)[i] = s[i]
<1>1. Len(s) - 1 \in 0..Len(s)
  BY EmptySeq, LenProperties
<1> QED
  BY <1>1, PrefixElements, Zenon DEF Front

LEMMA MinOfNats ==
    ASSUME NEW S \in SUBSET Nat, S # {}
    PROVE  Min(S) \in S /\ \A x \in S : Min(S) <= x
<1>0. \A x, y \in Nat : x < y => <<x, y>> \in OpToRel(<, Nat)
  BY Zenon DEF OpToRel
<1>1. PICK x \in S : \A y \in S : ~(<<y, x>> \in OpToRel(<, Nat))
  BY NatLessThanWellFounded, WFMin
<1>2. \A y \in S : ~(y < x)
  BY <1>0, <1>1, Zenon
<1>3. \A y \in S : x <= y
  BY <1>2, SMT
<1> QED
  BY <1>3, Zenon DEF Min

LEMMA ReadCountValue ==
    ASSUME NEW count \in Nat, size \in Nat
    PROVE  ReadCount(count) = IF count <= size THEN count ELSE size
<1>1. {count, size} \in SUBSET Nat /\ {count, size} # {}
  OBVIOUS
<1>2. /\ Min({count, size}) \in {count, size}
      /\ \A x \in {count, size} : Min({count, size}) <= x
  BY <1>1, MinOfNats
<1>3. /\ Min({count, size}) = count \/ Min({count, size}) = size
      /\ Min({count, size}) <= count /\ Min({count, size}) <= size
  BY <1>2
<1> QED
  BY <1>3 DEF ReadCount

\* printf stops at the first zero byte, which no character is.
LEMMA ShowsIsShown ==
    ASSUME term_command \in Seq(Bytes), Len(term_command) = CommandLength,
           NEW l \in Seq(Char), Shows(term_command, l)
    PROVE  Shown = l
<1> DEFINE ends == {k \in DOMAIN term_command : term_command[k] = Nul}
           n == Len(l)
<1>1. /\ DOMAIN term_command = 1..CommandLength
      /\ n \in Nat /\ n <= CommandLength /\ CommandLength \in Nat
      /\ \A k \in 1..n : l[k] \in Char
  BY LenProperties, ElementOfSeq DEF Shows
<1>2. \A k \in 1..n : k \notin ends
  BY <1>1 DEF Shows
<1>3. /\ SubSeq(term_command, 1, n) \in Seq(Bytes)
      /\ Len(SubSeq(term_command, 1, n)) = n
      /\ \A i \in 1..n : SubSeq(term_command, 1, n)[i] = term_command[i]
  BY <1>1, PrefixElements
<1>4. l \in Seq(Bytes)
  BY SeqMonotonic DEF Bytes
<1>5. SubSeq(term_command, 1, n) = l
  BY <1>3, <1>4, SeqEqual DEF Shows
<1>6. CASE n = CommandLength
  <2>1. ends = {}
    BY <1>1, <1>2, <1>6
  <2>2. term_command = l
    BY <1>1, <1>4, <1>6, SeqEqual DEF Shows
  <2> QED
    BY <2>1, <2>2 DEF Shown
<1>7. CASE n < CommandLength
  <2>1. n + 1 \in ends /\ ends \in SUBSET Nat
    BY <1>1, <1>7 DEF Shows
  <2>2. Min(ends) \in ends /\ Min(ends) <= n + 1
    BY <2>1, MinOfNats
  <2>3. Min(ends) \in 1..CommandLength
    BY <1>1, <2>2
  <2>4. Min(ends) = n + 1
    BY <1>1, <1>2, <2>2, <2>3
  <2>5. Shown = SubSeq(term_command, 1, Min(ends) - 1)
    BY <2>1 DEF Shown
  <2>6. Min(ends) - 1 = n
    BY <1>1, <2>4
  <2> QED
    BY <1>5, <2>5, <2>6
<1> QED
  BY <1>1, <1>6, <1>7

-----------------------------------------------------------------------------
(***************************************************************************)
(* CountInv is inductive, whatever the length of the lines.                *)
(***************************************************************************)
LEMMA FilledType ==
    ASSUME NEW b \in Bytes
    PROVE  /\ Filled(b) \in Seq(Bytes) /\ Len(Filled(b)) = CommandLength
           /\ \A k \in 1..CommandLength : Filled(b)[k] = b
<1>1. Filled(b) \in [1..CommandLength -> Bytes]
  BY DEF Filled
<1> QED
  BY <1>1, FunctionIsSeq DEF Filled

LEMMA CountInvInit == Init => CountInv
<1> SUFFICES ASSUME Init PROVE CountInv
  OBVIOUS
<1>1. /\ term_command = <<>> /\ ptr = <<>> /\ line = <<>> /\ pending = <<>>
      /\ pc = "kmalloc" /\ size = 0
  BY DEF Init
<1>2. /\ command_ready \in BOOLEAN /\ refused \in BOOLEAN /\ rushed \in BOOLEAN
  BY Zenon DEF Init
<1>3. /\ term_command \in Seq(Bytes) /\ Len(term_command) = 0
      /\ ptr \in Seq(Bytes) /\ line \in Seq(Char) /\ Len(line) = 0
      /\ pending \in Seq(Seq(Char)) /\ Len(pending) = 0
  BY <1>1, EmptySeq
<1>4. TypeOK
  BY <1>1, <1>2, <1>3 DEF TypeOK
<1> QED
  BY <1>1, <1>3, <1>4 DEF CountInv

\* What a step of init_terminal does to the buffer and to the lines.
LEMMA MainEffect ==
    ASSUME CountInv, Main
    PROVE  /\ UNCHANGED <<fileVars, line, rushed>>
           /\ pc' \in {"ready", "clean", "prompt", "spin", "print", "clear", "reset"}
           /\ command_ready' \in BOOLEAN
           /\ \/ UNCHANGED term_command \/ term_command' = <<>>
              \/ term_command' = Filled(Nul) \/ term_command' = Filled(Junk)
           /\ pending' = pending \/ (pending # <<>> /\ pending' = Tail(pending))
<1>1. command_ready \in BOOLEAN /\ FALSE \in BOOLEAN
  BY DEF CountInv, TypeOK
<1>2. CASE alloc_command
  BY <1>1, <1>2, Zenon DEF alloc_command, MainStep
<1>3. CASE clear_ready
  BY <1>1, <1>3, Zenon DEF clear_ready, MainStep
<1>4. CASE clean_command
  BY <1>1, <1>4, Zenon DEF clean_command, MainStep, Cleared
<1>5. CASE print_prompt
  BY <1>1, <1>5, Zenon DEF print_prompt, MainStep
<1>6. CASE leave_spin
  BY <1>1, <1>6, Zenon DEF leave_spin, MainStep
<1>7. CASE print_command
  BY <1>1, <1>7, Zenon DEF print_command, MainStep
<1>8. CASE clear_command
  BY <1>1, <1>8, Zenon DEF clear_command, MainStep, Cleared
<1>9. CASE reset_ready
  BY <1>1, <1>9, Zenon DEF reset_ready, MainStep
<1> QED
  BY <1>2, <1>3, <1>4, <1>5, <1>6, <1>7, <1>8, <1>9, Zenon DEF Main

LEMMA MainKeepsCount ==
    ASSUME CountInv, Main
    PROVE  CountInv'
<1>1. /\ UNCHANGED <<ptr, size, refused, line, rushed>>
      /\ pc' \in {"ready", "clean", "prompt", "spin", "print", "clear", "reset"}
      /\ command_ready' \in BOOLEAN
      /\ \/ UNCHANGED term_command \/ term_command' = <<>>
         \/ term_command' = Filled(Nul) \/ term_command' = Filled(Junk)
      /\ pending' = pending \/ (pending # <<>> /\ pending' = Tail(pending))
  BY MainEffect DEF fileVars
<1>2. /\ term_command' \in Seq(Bytes)
      /\ Len(term_command') \in {0, CommandLength}
  <2>1. Nul \in Bytes /\ Junk \in Bytes
    BY DEF Bytes
  <2>2. CASE UNCHANGED term_command
    BY <2>2 DEF CountInv, TypeOK
  <2>4. CASE term_command' = <<>>
    BY <2>4, EmptySeq
  <2>3. CASE term_command' = Filled(Nul) \/ term_command' = Filled(Junk)
    BY <2>1, <2>3, FilledType
  <2> QED
    BY <1>1, <2>2, <2>3, <2>4
<1>3. pending' \in Seq(Seq(Char)) /\ Len(pending') <= MaxPending
  <2>1. pending \in Seq(Seq(Char)) /\ Len(pending) <= MaxPending
    BY DEF CountInv, TypeOK
  <2>2. CASE pending' = pending
    BY <2>1, <2>2
  <2>3. CASE pending # <<>> /\ pending' = Tail(pending)
    <3>1. Tail(pending) \in Seq(Seq(Char)) /\ Len(Tail(pending)) = Len(pending) - 1
      BY <2>1, <2>3, HeadTailProperties
    <3>2. Len(pending) \in Nat
      BY <2>1, LenProperties
    <3> QED
      BY <2>1, <2>3, <3>1, <3>2
  <2> QED
    BY <1>1, <2>2, <2>3
<1>4. /\ ptr \in Seq(Bytes) /\ size \in Nat /\ refused \in BOOLEAN
      /\ line \in Seq(Char) /\ rushed \in BOOLEAN
      /\ Len(line) <= MaxLine /\ (size <= Len(ptr) \/ (ptr = <<>> /\ refused))
  BY DEF CountInv, TypeOK
<1>6. (size' <= Len(ptr') \/ (ptr' = <<>> /\ refused'))
  BY <1>1, <1>4, Zenon
<1>5. refused' \in BOOLEAN /\ rushed' \in BOOLEAN
  BY <1>1, <1>4, Zenon
<1> QED
  BY <1>1, <1>2, <1>3, <1>4, <1>5, <1>6 DEF CountInv, TypeOK

\* A write the heap serves puts c after the bytes counted, and keeps those.
LEMMA WriteEffect ==
    ASSUME ptr \in Seq(Bytes), size \in Nat, ptr # <<>> => size <= Len(ptr),
           NEW c \in Char, write(c), ptr' # <<>>
    PROVE  /\ ptr' \in Seq(Bytes) /\ Len(ptr') = size + 1 /\ size' = size + 1
           /\ refused' = refused
           /\ ptr'[size+1] = c
           /\ size <= Len(ptr) => \A k \in 1..size : ptr'[k] = ptr[k]
<1> DEFINE r == Resized(size + 1)
<1>1. /\ ptr' = [r EXCEPT ![size + 1] = c] /\ size' = size + 1
      /\ refused' = refused
  BY DEF write
<1>2. DOMAIN ptr = 1..Len(ptr) /\ \A k \in DOMAIN ptr : ptr[k] \in Bytes
  BY LenProperties, ElementOfSeq
<1>3. r \in [1..size+1 -> Bytes]
  BY <1>2 DEF Resized, Bytes
<1>4. r \in Seq(Bytes) /\ Len(r) = size + 1
  BY <1>3, FunctionIsSeq, size + 1 \in Nat
<1>5. size <= Len(ptr) => \A k \in 1..size : r[k] = ptr[k]
  <2>1. Len(ptr) \in Nat
    BY LenProperties
  <2> QED
    BY <1>2, <2>1 DEF Resized
<1> HIDE DEF r
<1>6. c \in Bytes /\ size + 1 \in 1..size+1
  BY DEF Bytes
<1>7. /\ ptr' \in Seq(Bytes) /\ Len(ptr') = size + 1
      /\ \A k \in 1..size+1 : ptr'[k] = IF k = size + 1 THEN c ELSE r[k]
  BY <1>1, <1>4, <1>6, ExceptSeq
<1>8. size <= Len(ptr) => \A k \in 1..size : ptr'[k] = ptr[k]
  BY <1>5, <1>7
<1> QED
  BY <1>1, <1>6, <1>7, <1>8

LEMMA WriteServed ==
    ASSUME size \in Nat, NEW c, ptr' = [Resized(size + 1) EXCEPT ![size + 1] = c]
    PROVE  ptr' # <<>>
<1>1. DOMAIN ptr' = 1..size+1
  BY DEF Resized
<1>2. 1 \in DOMAIN ptr'
  BY <1>1
<1>3. DOMAIN <<>> = {}
  OBVIOUS
<1> QED
  BY <1>2, <1>3

LEMMA PutKeepsCount ==
    ASSUME CountInv, NEW c \in Char, term_putc(c)
    PROVE  CountInv'
<1>1. /\ Len(line) < MaxLine /\ write(c) /\ line' = Append(line, c)
      /\ UNCHANGED <<pc, term_command, command_ready, pending, rushed>>
  BY DEF term_putc, mainVars
<1>2. /\ ptr \in Seq(Bytes) /\ size \in Nat /\ refused \in BOOLEAN
      /\ line \in Seq(Char) /\ (ptr # <<>> => size <= Len(ptr)) /\ TypeOK
  BY DEF CountInv, TypeOK
<1>3. /\ line' \in Seq(Char) /\ Len(line') <= MaxLine
  <2>1. Len(line) \in Nat
    BY <1>2, LenProperties
  <2>2. line' \in Seq(Char) /\ Len(line') = Len(line) + 1
    BY <1>1, <1>2, AppendProperties
  <2> QED
    BY <1>1, <2>1, <2>2
<1>4. /\ ptr' \in Seq(Bytes) /\ size' \in Nat /\ refused' \in BOOLEAN
      /\ (size' <= Len(ptr') \/ (ptr' = <<>> /\ refused'))
  <2>1. CASE ptr' # <<>>
    <3>1. /\ ptr' \in Seq(Bytes) /\ Len(ptr') = size + 1 /\ size' = size + 1
          /\ refused' = refused
      BY <1>1, <1>2, <2>1, WriteEffect
    <3>2. refused' \in BOOLEAN
      BY <1>2, <3>1, Zenon
    <3> QED
      BY <1>2, <3>1, <3>2
  <2>2. CASE ptr' = <<>>
    <3>1. size' = size \/ size' = size + 1
      BY <1>1 DEF write
    <3>2. refused' = refused \/ refused' = TRUE
      BY <1>1 DEF write
    <3>3. refused' \in BOOLEAN
      BY <1>2, <3>2, Zenon
    <3>4. size' \in Nat
      BY <1>2, <3>1
    <3>5. ptr' \in Seq(Bytes)
      BY <2>2, EmptySeq
    <3>6. refused' = TRUE
      BY <1>1, <1>2, <2>2, WriteServed DEF write
    <3> QED
      BY <2>2, <3>3, <3>4, <3>5, <3>6
  <2> QED
    BY <2>1, <2>2
<1> QED
  BY <1>1, <1>2, <1>3, <1>4, Zenon DEF CountInv, TypeOK

\* A read shrinks the count and leaves the block.
LEMMA ReadEffect ==
    ASSUME size \in Nat, NEW count \in Nat, read(count)
    PROVE  /\ size' \in Nat /\ size' <= size
           /\ size' = size - (IF count <= size THEN count ELSE size)
           /\ UNCHANGED <<ptr, refused>>
<1>1. size' = size - ReadCount(count) /\ UNCHANGED <<ptr, refused>>
  BY DEF read
<1>2. ReadCount(count) = IF count <= size THEN count ELSE size
  BY ReadCountValue
<1> QED
  BY <1>1, <1>2

LEMMA BackspaceKeepsCount ==
    ASSUME CountInv, term_backspace
    PROVE  CountInv'
<1>1. /\ read(1) /\ line' = IF line = <<>> THEN line ELSE Front(line)
      /\ UNCHANGED <<pc, term_command, command_ready, pending, rushed>>
  BY DEF term_backspace, mainVars
<1>2. /\ ptr \in Seq(Bytes) /\ size \in Nat /\ refused \in BOOLEAN
      /\ line \in Seq(Char) /\ Len(line) <= MaxLine /\ Len(line) \in Nat
      /\ (size <= Len(ptr) \/ (ptr = <<>> /\ refused)) /\ TypeOK
  BY LenProperties DEF CountInv, TypeOK
<1>3. size' \in Nat /\ size' <= size /\ UNCHANGED <<ptr, refused>>
  BY <1>1, <1>2, ReadEffect, 1 \in Nat
<1>4. line' \in Seq(Char) /\ Len(line') <= MaxLine
  BY <1>1, <1>2, FrontElements
<1>5. (size' <= Len(ptr') \/ (ptr' = <<>> /\ refused'))
  <2>1. Len(ptr) \in Nat
    BY <1>2, LenProperties
  <2> QED
    BY <1>2, <1>3, <2>1
<1> QED
  BY <1>1, <1>2, <1>3, <1>4, <1>5, Zenon DEF CountInv, TypeOK

\* The buffer after the interrupt that completes a line.
LEMMA LineFeedEffect ==
    ASSUME TypeOK, term_line_feed
    PROVE  /\ term_command' \in Seq(Bytes)
           /\ Len(term_command') = Len(term_command)
           /\ \A k \in 1..Len(term_command) :
                 term_command'[k] = IF k <= size /\ k <= CommandLength
                                    THEN Source(k) ELSE term_command[k]
           /\ size' \in Nat /\ size' <= size
           /\ size' = size - (IF CommandLength <= size THEN CommandLength ELSE size)
           /\ UNCHANGED <<ptr, refused, pc>>
           /\ command_ready' = TRUE /\ line' = <<>>
           /\ pending' = Append(pending, line) /\ Len(pending) < MaxPending
<1>1. /\ ptr \in Seq(Bytes) /\ size \in Nat /\ term_command \in Seq(Bytes)
      /\ CommandLength \in Nat /\ Len(term_command) \in Nat
      /\ DOMAIN term_command = 1..Len(term_command)
      /\ \A k \in 1..Len(term_command) : term_command[k] \in Bytes
  BY LenProperties, ElementOfSeq DEF TypeOK
<1>2. /\ size' \in Nat /\ size' <= size
      /\ size' = size - (IF CommandLength <= size THEN CommandLength ELSE size)
      /\ UNCHANGED <<ptr, refused>>
  BY <1>1, ReadEffect DEF term_line_feed
<1>3. \A k \in 1..Len(term_command) :
          k <= ReadCount(CommandLength) <=> k <= size /\ k <= CommandLength
  <2>1. ReadCount(CommandLength) = IF CommandLength <= size THEN CommandLength ELSE size
    BY <1>1, ReadCountValue
  <2> QED
    BY <1>1, <2>1
<1>4. \A k \in Nat : Source(k) \in Bytes
  BY <1>1, LenProperties, ElementOfSeq DEF Source, Bytes
<1> DEFINE f == [k \in 1..Len(term_command) |->
                   IF k <= size /\ k <= CommandLength
                   THEN Source(k) ELSE term_command[k]]
<1>5. term_command' = f
  BY <1>1, <1>3 DEF term_line_feed
<1>6. f \in [1..Len(term_command) -> Bytes]
  BY <1>1, <1>4
<1>7. f \in Seq(Bytes) /\ Len(f) = Len(term_command)
  BY <1>1, <1>6, FunctionIsSeq
<1> QED
  BY <1>2, <1>5, <1>7 DEF term_line_feed

LEMMA LineFeedKeepsCount ==
    ASSUME CountInv, term_line_feed
    PROVE  CountInv'
<1>1. TypeOK /\ (size <= Len(ptr) \/ (ptr = <<>> /\ refused)) /\ Len(line) <= MaxLine
  BY DEF CountInv
<1>2. /\ term_command' \in Seq(Bytes)
      /\ Len(term_command') = Len(term_command)
      /\ size' \in Nat /\ size' <= size
      /\ UNCHANGED <<ptr, refused, pc>>
      /\ command_ready' = TRUE /\ line' = <<>>
      /\ pending' = Append(pending, line) /\ Len(pending) < MaxPending
  BY <1>1, LineFeedEffect
<1>3. /\ ptr \in Seq(Bytes) /\ size \in Nat /\ line \in Seq(Char)
      /\ pending \in Seq(Seq(Char)) /\ Len(pending) \in Nat /\ Len(ptr) \in Nat
  BY <1>1, LenProperties DEF TypeOK
<1>4. pending' \in Seq(Seq(Char)) /\ Len(pending') <= MaxPending
  <2>1. pending' \in Seq(Seq(Char)) /\ Len(pending') = Len(pending) + 1
    BY <1>2, <1>3, AppendProperties
  <2> QED
    BY <1>2, <1>3, <2>1
<1>5. line' \in Seq(Char) /\ Len(line') <= MaxLine
  BY <1>2, EmptySeq
<1>6. rushed' \in BOOLEAN /\ command_ready' \in BOOLEAN
  BY <1>2, Zenon DEF term_line_feed
<1>7. (size' <= Len(ptr') \/ (ptr' = <<>> /\ refused'))
  BY <1>1, <1>2, <1>3
<1> QED
  BY <1>1, <1>2, <1>4, <1>5, <1>6, <1>7, Zenon DEF CountInv, TypeOK

LEMMA CountInvStep == CountInv /\ [Next]_vars => CountInv'
<1> SUFFICES ASSUME CountInv, [Next]_vars PROVE CountInv'
  OBVIOUS
<1>1. CASE Main
  BY <1>1, MainKeepsCount
<1>2. ASSUME NEW c \in Char, term_putc(c) PROVE CountInv'
  BY <1>2, PutKeepsCount
<1>3. CASE term_backspace
  BY <1>3, BackspaceKeepsCount
<1>4. CASE term_line_feed
  BY <1>4, LineFeedKeepsCount
<1>5. CASE UNCHANGED vars
  BY <1>5 DEF vars, mainVars, fileVars, userVars, CountInv, TypeOK
<1> QED
  BY <1>1, <1>2, <1>3, <1>4, <1>5, Zenon DEF Next, Keyboard

LEMMA SpecCountInv == Spec => []CountInv
<1>1. Init => CountInv
  BY CountInvInit
<1>2. CountInv /\ [Next]_vars => CountInv'
  BY CountInvStep
<1> QED
  BY <1>1, <1>2, PTL DEF Spec

(***************************************************************************)
(* Whatever is typed and whenever the heap refuses, stdin counts a byte    *)
(* that its block does not have only after a refused write, and only while *)
(* there is no block at all; and every variable keeps its type.            *)
(***************************************************************************)
THEOREM CountAlwaysFits == Spec => []CountFitsBlock
<1>1. CountInv => CountFitsBlock
  BY DEF CountInv, CountFitsBlock
<1> QED
  BY <1>1, SpecCountInv, PTL

-----------------------------------------------------------------------------
(***************************************************************************)
(* LinesInv is inductive relative to CountInv, when the user puts no more  *)
(* characters on a line than a command holds.                              *)
(***************************************************************************)
LEMMA LinesInvInit == Init => LinesInv
<1> SUFFICES ASSUME Init PROVE LinesInv
  OBVIOUS
<1>1. /\ pc = "kmalloc" /\ command_ready = FALSE /\ pending = <<>>
      /\ ptr = <<>> /\ size = 0 /\ line = <<>>
  BY DEF Init
<1>2. LineInv
  BY <1>1, EmptySeq DEF LineInv
<1>3. HandInv
  BY <1>1 DEF HandInv
<1> QED
  BY <1>2, <1>3 DEF LinesInv

\* The buffer is there unless kmalloc refused it, and then it never is.
LEMMA CommandThere ==
    ASSUME TypeOK, pc # "kmalloc", ~NoCommand
    PROVE  Len(term_command) = CommandLength
<1>1. term_command # <<>> /\ term_command \in Seq(Bytes)
  BY DEF NoCommand, TypeOK
<1>2. Len(term_command) # 0
  BY <1>1, EmptySeq
<1> QED
  BY <1>2 DEF TypeOK

LEMMA MainKeepsNoCommand ==
    ASSUME CountInv, NoCommand, Main
    PROVE  NoCommand'
<1>1. pc # "kmalloc" /\ term_command = <<>> /\ Cleared = <<>>
  BY DEF NoCommand, Cleared
<1>2. term_command' = <<>>
  BY <1>1 DEF Main, MainStep, alloc_command, clear_ready, clean_command,
              print_prompt, leave_spin, print_command, clear_command,
              reset_ready
<1>3. pc' # "kmalloc"
  BY MainEffect
<1> QED
  BY <1>2, <1>3 DEF NoCommand

LEMMA MainKeepsLines ==
    ASSUME CountInv, LinesInv, Main
    PROVE  LinesInv'
<1>1. /\ UNCHANGED <<ptr, size, refused, line, rushed>>
  BY MainEffect DEF fileVars
<1>2. LineInv'
  BY <1>1 DEF LinesInv, LineInv
<1>3. ASSUME ~rushed, ~refused, ~NoCommand PROVE HandInv'
  <2>0. /\ pc \in {"kmalloc", "ready", "clean"} => ~command_ready /\ pending = <<>>
        /\ pc \in {"prompt", "spin"} /\ command_ready => InHand
        /\ pc \in {"prompt", "spin"} /\ ~command_ready =>
               pending = <<>> /\ AllNul(term_command)
        /\ pc = "print" => command_ready /\ InHand
        /\ pc \in {"clear", "reset"} => command_ready /\ pending = <<>>
        /\ pc = "reset" => AllNul(term_command)
    BY <1>3, Zenon DEF LinesInv, HandInv
  <2>7. pc # "kmalloc" => Cleared = Filled(Nul)
    BY <1>3 DEF NoCommand, Cleared
  <2>1. CASE alloc_command \/ clear_ready
    BY <2>0, <2>1 DEF alloc_command, clear_ready, MainStep, HandInv
  <2>2. CASE clean_command
    <3>1. /\ pc = "clean" /\ pc' = "prompt" /\ term_command' = Filled(Nul)
          /\ command_ready' = command_ready /\ pending' = pending
      BY <2>2, <2>7 DEF clean_command, MainStep
    <3>2. AllNul(term_command')
      BY <3>1, FilledType DEF AllNul, Bytes
    <3> QED
      BY <2>0, <3>1, <3>2 DEF HandInv
  <2>3. CASE print_prompt \/ leave_spin
    <3>1. /\ UNCHANGED <<term_command, command_ready, pending>>
          /\ \/ pc = "prompt" /\ pc' = "spin"
             \/ pc = "spin" /\ pc' = "print" /\ command_ready
      BY <2>3 DEF print_prompt, leave_spin, MainStep
    <3>2. InHand' <=> InHand
      BY <3>1 DEF InHand
    <3> QED
      BY <2>0, <3>1, <3>2 DEF HandInv
  <2>4. CASE print_command
    <3>1. /\ pc = "print" /\ pc' = "clear" /\ command_ready' = command_ready
          /\ pending' = IF pending # <<>> /\ Shown = pending[1]
                        THEN Tail(pending) ELSE pending
      BY <2>4 DEF print_command, MainStep
    <3>2. command_ready /\ Len(pending) = 1 /\ Shows(term_command, pending[1])
      BY <2>0, <3>1 DEF InHand
    <3>3. /\ pending \in Seq(Seq(Char)) /\ term_command \in Seq(Bytes)
          /\ Len(term_command) = CommandLength
      BY <1>3, <3>1, CommandThere DEF CountInv, TypeOK
    <3>4. pending[1] \in Seq(Char)
      <4>1. pending \in Seq(Seq(Char)) /\ 1 \in 1..Len(pending)
        BY <3>2, <3>3
      <4> QED
        BY <4>1, ElementOfSeq
    <3>5. Shown = pending[1]
      BY <3>2, <3>3, <3>4, ShowsIsShown
    <3>6. pending # <<>>
      BY <3>2
    <3>7. Len(Tail(pending)) = 0 /\ Tail(pending) \in Seq(Seq(Char))
      BY <3>2, <3>3, <3>6, HeadTailProperties
    <3>8. pending' = <<>>
      BY <3>1, <3>5, <3>6, <3>7, EmptySeq
    <3> QED
      BY <3>1, <3>2, <3>8 DEF HandInv
  <2>5. CASE clear_command
    <3>1. /\ pc = "clear" /\ pc' = "reset" /\ term_command' = Filled(Nul)
          /\ command_ready' = command_ready /\ pending' = pending
      BY <2>5, <2>7 DEF clear_command, MainStep
    <3>2. AllNul(term_command')
      BY <3>1, FilledType DEF AllNul, Bytes
    <3> QED
      BY <2>0, <3>1, <3>2 DEF HandInv
  <2>6. CASE reset_ready
    <3>1. /\ pc = "reset" /\ pc' = "prompt" /\ command_ready' = FALSE
          /\ term_command' = term_command /\ pending' = pending
      BY <2>6 DEF reset_ready, MainStep
    <3> QED
      BY <2>0, <3>1 DEF HandInv
  <2> QED
    BY <2>1, <2>2, <2>3, <2>4, <2>5, <2>6 DEF Main
<1>4. ASSUME NoCommand PROVE HandInv'
  <2>1. NoCommand'
    BY <1>4, MainKeepsNoCommand
  <2> QED
    BY <2>1 DEF HandInv
<1>5. ASSUME rushed \/ refused PROVE HandInv'
  <2>1. rushed' = rushed /\ refused' = refused
    BY <1>1
  <2>2. rushed' \/ refused'
    BY <1>5, <2>1, Zenon
  <2> QED
    BY <2>2 DEF HandInv
<1> QED
  BY <1>2, <1>3, <1>4, <1>5, Zenon DEF LinesInv

\* The part of HandInv an interrupt that completes no line keeps.
LEMMA HandKept ==
    ASSUME HandInv, rushed' = rushed, refused => refused',
           UNCHANGED <<pc, term_command, command_ready, pending>>
    PROVE  HandInv'
<1>1. (InHand' <=> InHand) /\ (NoCommand' <=> NoCommand)
  BY DEF InHand, NoCommand
<1> QED
  BY <1>1, Zenon DEF HandInv

LEMMA PutKeepsLines ==
    ASSUME CountInv, LinesInv, NEW c \in Char, term_putc(c)
    PROVE  LinesInv'
<1>1. /\ write(c) /\ line' = Append(line, c)
      /\ UNCHANGED <<pc, term_command, command_ready, pending>> /\ rushed' = rushed
  BY DEF term_putc, mainVars
<1>2. /\ ptr \in Seq(Bytes) /\ size \in Nat /\ line \in Seq(Char)
      /\ (ptr # <<>> => size <= Len(ptr)) /\ Len(line) \in Nat
  BY LenProperties DEF CountInv, TypeOK
<1>3. refused => refused'
  BY <1>1, Zenon DEF write
<1>4. HandInv'
  BY <1>1, <1>3, HandKept DEF LinesInv
<1>5. CASE refused'
  BY <1>4, <1>5 DEF LinesInv, LineInv
<1>6. CASE ~refused'
  <2>1. ~refused
    BY <1>3, <1>6
  <2>2. /\ Len(line) = size /\ size <= Len(ptr)
        /\ \A k \in 1..size : ptr[k] = line[k]
    BY <2>1 DEF LinesInv, LineInv
  <2>3. ptr' # <<>>
    BY <1>1, <1>2, <1>6, WriteServed DEF write
  <2>4. /\ ptr' \in Seq(Bytes) /\ Len(ptr') = size + 1 /\ size' = size + 1
        /\ ptr'[size+1] = c
        /\ \A k \in 1..size : ptr'[k] = ptr[k]
    BY <1>1, <1>2, <2>2, <2>3, WriteEffect
  <2>5. /\ Len(line') = size + 1 /\ line'[size+1] = c
        /\ \A k \in 1..size : line'[k] = line[k]
    BY <1>1, <1>2, <2>2, AppendProperties
  <2>6. \A k \in 1..size+1 : k \in 1..size \/ k = size + 1
    BY <1>2
  <2>7. \A k \in 1..size' : ptr'[k] = line'[k]
    BY <2>2, <2>4, <2>5, <2>6
  <2>8. Len(line') = size' /\ size' <= Len(ptr')
    BY <1>2, <2>4, <2>5
  <2> QED
    BY <1>4, <2>7, <2>8 DEF LinesInv, LineInv
<1> QED
  BY <1>5, <1>6

LEMMA BackspaceKeepsLines ==
    ASSUME CountInv, LinesInv, term_backspace
    PROVE  LinesInv'
<1>1. /\ read(1) /\ line' = IF line = <<>> THEN line ELSE Front(line)
      /\ UNCHANGED <<pc, term_command, command_ready, pending>> /\ rushed' = rushed
  BY DEF term_backspace, mainVars
<1>2. /\ ptr \in Seq(Bytes) /\ size \in Nat /\ line \in Seq(Char)
      /\ Len(line) \in Nat /\ Len(ptr) \in Nat
  BY LenProperties DEF CountInv, TypeOK
<1>3. /\ size' = size - (IF 1 <= size THEN 1 ELSE size)
      /\ UNCHANGED <<ptr, refused>>
  BY <1>1, <1>2, ReadEffect, 1 \in Nat
<1>4. HandInv'
  BY <1>1, <1>3, HandKept DEF LinesInv
<1>5. LineInv'
  <2>1. CASE refused
    BY <1>3, <2>1 DEF LineInv
  <2>2. CASE ~refused
    <3>1. /\ Len(line) = size /\ size <= Len(ptr)
          /\ \A k \in 1..size : ptr[k] = line[k]
      BY <2>2 DEF LinesInv, LineInv
    <3>2. CASE line = <<>>
      <4>1. size = 0
        BY <3>1, <3>2, EmptySeq
      <4> QED
        BY <1>1, <1>2, <1>3, <3>1, <3>2, <4>1 DEF LineInv
    <3>3. CASE line # <<>>
      <4>1. /\ Len(line') = size - 1 /\ size >= 1
            /\ \A k \in 1..size-1 : line'[k] = line[k]
        BY <1>1, <1>2, <3>1, <3>3, FrontElements, EmptySeq
      <4>2. size' = size - 1
        BY <1>2, <1>3, <4>1
      <4> QED
        BY <1>2, <1>3, <3>1, <4>1, <4>2 DEF LineInv
    <3> QED
      BY <3>2, <3>3
  <2> QED
    BY <2>1, <2>2
<1> QED
  BY <1>4, <1>5 DEF LinesInv

\* A line that fits the command buffer is copied to it whole, and the zero
\* bytes after it end it.
LEMMA LineFeedShows ==
    ASSUME CountInv, LineInv, ~refused, MaxLine <= CommandLength,
           pc # "kmalloc", ~NoCommand, AllNul(term_command),
           term_line_feed
    PROVE  Shows(term_command', line)
<1>1. /\ Len(line) = size /\ size <= Len(ptr)
      /\ \A k \in 1..size : ptr[k] = line[k]
  BY DEF LineInv
<1>2. /\ TypeOK /\ ptr \in Seq(Bytes) /\ DOMAIN ptr = 1..Len(ptr)
      /\ size \in Nat /\ size <= CommandLength /\ Len(term_command) = CommandLength
      /\ Len(ptr) \in Nat
  BY <1>1, CommandThere, LenProperties DEF CountInv, TypeOK
<1>3. \A k \in 1..CommandLength :
          term_command'[k] = IF k <= size /\ k <= CommandLength
                             THEN Source(k) ELSE term_command[k]
  BY <1>2, LineFeedEffect
<1>4. \A k \in 1..size : term_command'[k] = line[k]
  <2>1. \A k \in 1..size : Source(k) = line[k]
    BY <1>1, <1>2 DEF Source
  <2> QED
    BY <1>2, <1>3, <2>1
<1>5. size < CommandLength => term_command'[size+1] = Nul
  BY <1>2, <1>3 DEF AllNul
<1> QED
  BY <1>1, <1>2, <1>4, <1>5 DEF Shows

LEMMA LineFeedKeepsNoCommand ==
    ASSUME NoCommand, term_line_feed
    PROVE  NoCommand'
<1>1. pc # "kmalloc" /\ term_command = <<>> /\ pc' = pc
  BY DEF NoCommand, term_line_feed
<1>2. DOMAIN term_command = {}
  BY <1>1
<1>3. term_command' = term_command
  BY <1>1, <1>2 DEF term_line_feed
<1> QED
  BY <1>1, <1>3 DEF NoCommand

LEMMA LineFeedKeepsLines ==
    ASSUME CountInv, LinesInv, MaxLine <= CommandLength, term_line_feed
    PROVE  LinesInv'
<1>1. /\ size' = size - (IF CommandLength <= size THEN CommandLength ELSE size)
      /\ UNCHANGED <<ptr, refused, pc>>
      /\ command_ready' = TRUE /\ line' = <<>> /\ pending' = Append(pending, line)
  BY LineFeedEffect DEF CountInv
<1>2. /\ ptr \in Seq(Bytes) /\ size \in Nat /\ line \in Seq(Char)
      /\ Len(line) <= MaxLine /\ Len(line) \in Nat /\ Len(ptr) \in Nat
      /\ pending \in Seq(Seq(Char))
      /\ pc \in {"kmalloc", "ready", "clean", "prompt", "spin", "print",
                "clear", "reset"}
  BY LenProperties DEF CountInv, TypeOK
<1>3. LineInv'
  <2>1. CASE refused
    BY <1>1, <2>1 DEF LineInv
  <2>2. CASE ~refused
    <3>1. Len(line) = size
      BY <2>2 DEF LinesInv, LineInv
    <3>2. size' = 0
      BY <1>1, <1>2, <3>1
    <3> QED
      BY <1>1, <1>2, <3>2, EmptySeq DEF LineInv
  <2> QED
    BY <2>1, <2>2
<1>4. rushed' = (rushed \/ command_ready \/ pc \in {"kmalloc", "ready", "clean"})
  BY DEF term_line_feed
<1>5. ASSUME rushed' \/ refused PROVE HandInv'
  <2>1. refused' = refused
    BY <1>1
  <2>2. rushed' \/ refused'
    BY <1>5, <2>1, Zenon
  <2> QED
    BY <2>2 DEF HandInv
<1>7. ASSUME NoCommand PROVE HandInv'
  <2>1. NoCommand'
    BY <1>7, LineFeedKeepsNoCommand
  <2> QED
    BY <2>1 DEF HandInv
<1>6. ASSUME ~rushed', ~refused, ~NoCommand PROVE HandInv'
  <2>1. /\ ~rushed /\ ~refused /\ ~command_ready
        /\ pc \notin {"kmalloc", "ready", "clean"}
    BY <1>4, <1>6, Zenon
  <2>2. pc \in {"prompt", "spin"} /\ pending = <<>> /\ AllNul(term_command)
    BY <1>2, <1>6, <2>1 DEF LinesInv, HandInv
  <2>3. Shows(term_command', line)
    BY <1>6, <2>1, <2>2, LineFeedShows DEF LinesInv
  <2>4. Len(pending') = 1 /\ pending'[1] = line
    <3>1. Len(pending) = 0
      BY <2>2, EmptySeq
    <3> QED
      BY <1>1, <1>2, <3>1, AppendProperties
  <2>5. InHand'
    BY <2>3, <2>4 DEF InHand
  <2>6. /\ command_ready' /\ pc' # "print"
        /\ pc' \notin {"kmalloc", "ready", "clean"}
        /\ pc' \notin {"clear", "reset"} /\ pc' # "reset"
    BY <1>1, <2>2
  <2> QED
    BY <2>5, <2>6 DEF HandInv
<1> QED
  BY <1>3, <1>5, <1>6, <1>7, Zenon DEF LinesInv

LEMMA LinesInvStep ==
    ASSUME MaxLine <= CommandLength
    PROVE  CountInv /\ LinesInv /\ [Next]_vars => LinesInv'
<1> SUFFICES ASSUME CountInv, LinesInv, [Next]_vars PROVE LinesInv'
  OBVIOUS
<1>1. CASE Main
  BY <1>1, MainKeepsLines
<1>2. ASSUME NEW c \in Char, term_putc(c) PROVE LinesInv'
  BY <1>2, PutKeepsLines
<1>3. CASE term_backspace
  BY <1>3, BackspaceKeepsLines
<1>4. CASE term_line_feed
  BY <1>4, LineFeedKeepsLines
<1>5. CASE UNCHANGED vars
  <2>1. /\ UNCHANGED <<pc, term_command, command_ready, pending>>
        /\ UNCHANGED <<ptr, size, line>> /\ refused' = refused /\ rushed' = rushed
    BY <1>5 DEF vars, mainVars, fileVars, userVars
  <2>2. HandInv'
    BY <2>1, HandKept DEF LinesInv
  <2>3. LineInv'
    BY <2>1 DEF LinesInv, LineInv
  <2> QED
    BY <2>2, <2>3 DEF LinesInv
<1> QED
  BY <1>1, <1>2, <1>3, <1>4, <1>5, Zenon DEF Next, Keyboard

LEMMA SpecLinesInv ==
    ASSUME MaxLine <= CommandLength
    PROVE  Spec => [](CountInv /\ LinesInv)
<1>1. Init => LinesInv
  BY LinesInvInit
<1>2. CountInv /\ LinesInv /\ [Next]_vars => LinesInv'
  BY LinesInvStep
<1> QED
  BY <1>1, <1>2, SpecCountInv, PTL DEF Spec

(***************************************************************************)
(* When no line is longer than a command, stdin holds the line the user    *)
(* sees until a write is refused: what backspaces and line feeds leave in  *)
(* the block beyond the count is never seen again.                         *)
(***************************************************************************)
THEOREM StdinHoldsTheLine ==
    ASSUME MaxLine <= CommandLength
    PROVE  Spec => []StdinIsTheLine
<1>1. CountInv /\ LinesInv => StdinIsTheLine
  <2> SUFFICES ASSUME CountInv, LinesInv, ~refused
               PROVE  SubSeq(ptr, 1, size) = line
    BY DEF StdinIsTheLine
  <2>1. /\ Len(line) = size /\ size <= Len(ptr)
        /\ \A k \in 1..size : ptr[k] = line[k]
    BY DEF LinesInv, LineInv
  <2>2. /\ ptr \in Seq(Bytes) /\ size \in 0..Len(ptr) /\ line \in Seq(Char)
    BY <2>1, LenProperties DEF CountInv, TypeOK
  <2>3. /\ SubSeq(ptr, 1, size) \in Seq(Bytes)
        /\ Len(SubSeq(ptr, 1, size)) = size
        /\ \A i \in 1..size : SubSeq(ptr, 1, size)[i] = ptr[i]
    BY <2>2, PrefixElements
  <2>4. line \in Seq(Bytes)
    BY <2>2, SeqMonotonic DEF Bytes
  <2> QED
    BY <2>1, <2>3, <2>4, SeqEqual
<1> QED
  BY <1>1, SpecLinesInv, PTL

(***************************************************************************)
(* And a line is lost only when another was in hand, or before the         *)
(* terminal was set up, or after the heap refused a write or the buffer:   *)
(* otherwise init_terminal spins with nothing in hand and prints just what *)
(* was typed.                                                              *)
(***************************************************************************)
THEOREM LinesLostOnlyWhenRushed ==
    ASSUME MaxLine <= CommandLength
    PROVE  Spec => []LostOnlyWhenRushed
<1>1. CountInv /\ LinesInv => LostOnlyWhenRushed
  <2> SUFFICES ASSUME CountInv, LinesInv, ~rushed, ~refused, ~NoCommand
               PROVE  /\ pc = "spin" /\ ~command_ready => pending = <<>>
                      /\ pc = "print" => pending = <<Shown>>
    BY Zenon DEF LostOnlyWhenRushed
  <2>1. /\ pc \in {"prompt", "spin"} /\ ~command_ready => pending = <<>>
        /\ pc = "print" => InHand
    BY Zenon DEF LinesInv, HandInv
  <2>2. ASSUME pc = "print" PROVE pending = <<Shown>>
    <3>1. Len(pending) = 1 /\ Shows(term_command, pending[1])
      BY <2>1, <2>2 DEF InHand
    <3>2. /\ pending \in Seq(Seq(Char)) /\ term_command \in Seq(Bytes)
          /\ Len(term_command) = CommandLength
      BY <2>2, CommandThere DEF CountInv, TypeOK
    <3>3. pending[1] \in Seq(Char)
      <4>1. pending \in Seq(Seq(Char)) /\ 1 \in 1..Len(pending)
        BY <3>1, <3>2
      <4> QED
        BY <4>1, ElementOfSeq
    <3>4. Shown = pending[1]
      BY <3>1, <3>2, <3>3, ShowsIsShown
    <3> QED
      BY <3>1, <3>2, <3>4
  <2> QED
    BY <2>1, <2>2
<1> QED
  BY <1>1, SpecLinesInv, PTL
=============================================================================
