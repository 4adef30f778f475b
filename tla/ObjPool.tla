------------------------------ MODULE ObjPool -------------------------------
(***************************************************************************)
(* One pool of mm/obj_alloc.c: an array of objects used as a manual pool   *)
(* (the client keeps the indices), a stack or a queue.  Indices are those  *)
(* of TLA+ sequences; top_index and bottom_index are counts, as in the     *)
(* code, and the objects within reach are those from bottom_index + 1 to   *)
(* top_index.  obj_pool_pack moves one object per step.                    *)
(***************************************************************************)
EXTENDS Integers, Sequences, FiniteSetsExt, SequencesExt

CONSTANTS
    Object,     \* objects, none of which is all zero bytes
    None,       \* a slot of zero bytes
    Size        \* pool_size

ASSUME PoolAssumption ==
    /\ Size \in Nat \ {0}
    /\ None \notin Object

VARIABLES
    type, mem, top_index, bottom_index,
    pc, pi,     \* obj_pool_pack in progress, and its loop variable
    created,    \* history: the type given to create_obj_pool
    proper      \* history: the client used a stack or a queue as such

indices == <<top_index, bottom_index>>
vars == <<type, mem, indices, pc, pi, created, proper>>

Slots == 1..Size
Types == {"manual", "stack", "queue"}
Cleared(S) == [k \in Slots |-> IF k \in S THEN None ELSE mem[k]]

\* create_obj_pool, its memory cleared.
Init ==
    /\ type \in Types
    /\ created = type
    /\ proper = (type # "manual")
    /\ mem = [k \in Slots |-> None]
    /\ top_index = 0 /\ bottom_index = 0
    /\ pc = "idle" /\ pi = 1

-----------------------------------------------------------------------------
put_manual(x, k) ==
    /\ pc = "idle" /\ type = "manual"
    /\ mem' = [mem EXCEPT ![k] = x]
    /\ UNCHANGED <<type, indices, pc, pi>>

put_at_top(x) ==
    /\ pc = "idle" /\ type # "manual"
    /\ top_index < Size
    /\ mem' = [mem EXCEPT ![top_index + 1] = x]
    /\ top_index' = top_index + 1
    /\ UNCHANGED <<type, bottom_index, pc, pi>>

\* A queue that reached the end of its memory moves back to the start; the
\* memmove of the kernel clears what it moves.
Shifted_short(n, x) ==
    [k \in Slots |-> CASE k < n      -> mem[bottom_index + k]
                     [] k = n + 1  -> x
                     [] OTHER      -> IF k <= bottom_index THEN mem[k] ELSE None]

Shifted(n, x) ==
    [k \in Slots |-> CASE k <= n     -> mem[bottom_index + k]
                     [] k = n + 1  -> x
                     [] OTHER      -> IF k <= bottom_index THEN mem[k] ELSE None]

put_after_shift(x) ==
    /\ pc = "idle" /\ type = "queue"
    /\ top_index = Size /\ bottom_index > 0
    /\ mem' = Shifted(top_index - bottom_index, x)
    /\ top_index' = top_index - bottom_index + 1
    /\ bottom_index' = 0
    /\ UNCHANGED <<type, pc, pi>>

\* A get of a manual pool hands out a pointer and changes nothing; here its
\* client clears the slot through it.
get_manual(k) ==
    /\ pc = "idle" /\ type = "manual"
    /\ mem' = Cleared({k})
    /\ UNCHANGED <<type, indices, pc, pi>>

get_stack ==
    /\ pc = "idle" /\ type = "stack"
    /\ top_index # 0
    /\ top_index' = top_index - 1
    /\ UNCHANGED <<type, mem, bottom_index, pc, pi>>

get_queue_unbounded ==
    /\ pc = "idle" /\ type = "queue"
    /\ bottom_index' = bottom_index + 1
    /\ UNCHANGED <<type, mem, top_index, pc, pi>>

get_queue ==
    /\ pc = "idle" /\ type = "queue"
    /\ bottom_index # Size
    /\ bottom_index' = bottom_index + 1
    /\ UNCHANGED <<type, mem, top_index, pc, pi>>

obj_pool_flush ==
    /\ pc = "idle"
    /\ mem' = Cleared(Slots)
    /\ top_index' = 0 /\ bottom_index' = 0
    /\ UNCHANGED <<type, pc, pi>>

(***************************************************************************)
(* obj_pool_pack on the pool as it is, its type being t.                   *)
(***************************************************************************)
StartPack(t) ==
    IF t = "stack"
    THEN UNCHANGED <<mem, indices, pc, pi>>
    ELSE /\ mem' = IF t = "queue"
                   THEN Cleared(1..bottom_index \cup top_index+1..Size)
                   ELSE mem
         /\ bottom_index' = 0
         /\ pc' = "pack" /\ pi' = 1
         /\ UNCHANGED top_index

obj_pool_pack ==
    /\ pc = "idle"
    /\ StartPack(type)
    /\ UNCHANGED type

\* The slot whose object the inner loop moves to pi.
Later == {k \in Slots : k > pi /\ mem[k] # None}
NextObject_last == Max(Later)
NextObject == Min(Later)

pack_skip ==
    /\ pc = "pack" /\ pi < Size
    /\ mem[pi] # None
    /\ pi' = pi + 1
    /\ UNCHANGED <<type, mem, indices, pc>>

pack_move ==
    /\ pc = "pack" /\ pi < Size
    /\ mem[pi] = None /\ Later # {}
    /\ mem' = [mem EXCEPT ![pi] = mem[NextObject], ![NextObject] = None]
    /\ top_index' = pi
    /\ UNCHANGED <<type, bottom_index, pc, pi>>

pack_end ==
    /\ pc = "pack"
    /\ pi >= Size \/ (mem[pi] = None /\ Later = {})
    /\ pc' = "idle" /\ pi' = 1
    /\ UNCHANGED <<type, mem, indices>>

Pack == pack_skip \/ pack_move \/ pack_end

\* The type is set before the pool is packed.
obj_pool_change_type(t) ==
    /\ pc = "idle"
    /\ type' = t
    /\ IF t = "manual"
       THEN top_index' = 0 /\ bottom_index' = 0 /\ UNCHANGED <<mem, pc, pi>>
       ELSE StartPack(t)

-----------------------------------------------------------------------------
InReach == SubSeq(mem, bottom_index + 1, top_index)

\* A client of a stack or a queue that gets no more objects than it has put.
ProperCall ==
    \/ \E x \in Object : put_at_top(x) \/ put_after_shift(x)
    \/ InReach # <<>> /\ (get_stack \/ get_queue)
    \/ obj_pool_flush

\* A client of any kind.
OtherCall ==
    \/ \E x \in Object, k \in Slots : put_manual(x, k)
    \/ \E k \in Slots : get_manual(k)
    \/ InReach = <<>> /\ (get_stack \/ get_queue)
    \/ obj_pool_pack
    \/ \E t \in Types : obj_pool_change_type(t)

Next ==
    /\ \/ (ProperCall \/ Pack) /\ UNCHANGED proper
       \/ OtherCall /\ proper' = FALSE
    /\ UNCHANGED created

Spec == Init /\ [][Next]_vars

FairSpec == Spec /\ WF_vars(Pack /\ UNCHANGED <<created, proper>>)

-----------------------------------------------------------------------------
\* The type of every variable: no index leaves the pool's memory.
TypeOK ==
    /\ type \in Types
    /\ mem \in [Slots -> Object \cup {None}]
    /\ top_index \in 0..Size /\ bottom_index \in 0..Size
    /\ pc \in {"idle", "pack"} /\ pi \in Slots
    /\ created \in Types /\ proper \in BOOLEAN

\* The objects in memory, in the order of their slots.
Contents == SelectSeq(mem, LAMBDA x : x # None)

(***************************************************************************)
(* Packing keeps every object and their order, one move after the other,   *)
(* and ends, although its loop variable is stepped back on a move, with    *)
(* the objects at the start of the memory: the heap takes its emptied      *)
(* descriptors out of the table with it.                                   *)
(***************************************************************************)
PackKeepsOrder ==
    /\ [][pc = "pack" =>
            /\ Contents' = Contents
            /\ pc' = "idle" => Contents = SubSeq(mem, 1, Len(Contents))]_vars
    /\ pc = "pack" ~> pc = "idle"

(***************************************************************************)
(* To a client that gets no more than it has put, a stack and a queue are  *)
(* the bounded pools of PoolSpec: the queue's move to the start of its     *)
(* memory loses nothing and reorders nothing.  Any other call ends the     *)
(* promise: the abstract pool is emptied.                                  *)
(***************************************************************************)
Bounded ==
    INSTANCE PoolSpec WITH
        kind <- IF created = "manual" THEN "stack" ELSE created,
        held <- IF proper THEN InReach ELSE <<>>

ImplementsPool == Bounded!Spec

=============================================================================
