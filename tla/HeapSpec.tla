------------------------------ MODULE HeapSpec ------------------------------
(***************************************************************************)
(* What a heap promises its callers: a set of blocks that lie inside the   *)
(* heap, do not overlap, and neither move nor change size while allocated. *)
(* How free memory is found and described is left to the implementation.   *)
(***************************************************************************)
EXTENDS Integers

CONSTANT H      \* bytes of the heap

VARIABLE blocks \* the allocated blocks

Block == [base : 0..H-1, size : 1..H]
Bytes(b) == b.base .. b.base + b.size - 1

Init == blocks = {}

Alloc(b) ==
    /\ Bytes(b) \subseteq 0..H-1
    /\ \A c \in blocks : Bytes(b) \cap Bytes(c) = {}
    /\ blocks' = blocks \cup {b}

Free(b) == b \in blocks /\ blocks' = blocks \ {b}

Next == \E b \in Block : Alloc(b) \/ Free(b)

Spec == Init /\ [][Next]_blocks
=============================================================================
