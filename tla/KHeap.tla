------------------------------- MODULE KHeap --------------------------------
(***************************************************************************)
(* The kernel heap of mm/kmalloc.c: a table of descriptors, each of a free *)
(* or an allocated part of the heap, appended to by kmalloc, compacted by  *)
(* obj_pool_pack, and sorted and merged by __kheap_compress_map, one       *)
(* iteration of whose outer loop is a step here.                           *)
(*                                                                         *)
(* Addresses are offsets from __kheap.  Indices are those of TLA+          *)
(* sequences: the code's i is ci - 1.                                      *)
(***************************************************************************)
EXTENDS Integers, Sequences, FiniteSetsExt, SequencesExt

CONSTANTS
    H,              \* __kheap_final_size * PAGE_SIZE
    MaxDescriptors, \* __KHEAP_MAX_DESCRIPTORS, 128 in the code
    MaxOps,         \* __KHEAP_NUM_OPS_BEFORE_COMPRESSION, 32 in the code
    OpsRange        \* values of __kheap_ops, a uint8_t: 256 in the code

ASSUME HeapAssumption ==
    /\ H \in Nat \ {0}
    /\ MaxDescriptors \in Nat \ {0}
    /\ MaxOps \in Nat \ {0}
    /\ OpsRange \in Nat /\ MaxOps < OpsRange

VARIABLES
    map,        \* the descriptors in use, __kheap_map_pool_ind of them
    ops,        \* __kheap_ops
    pc,         \* where the call in progress is
    after,      \* where __kheap_compress_map returns to
    ci,         \* the loop variable of __kheap_compress_map, from 1
    req,        \* the size the call in progress asks kmalloc for
    retried,
    old,        \* krealloc's old_size, 0 in a call of kmalloc
    result      \* what kmalloc is about to return

vars == <<map, ops, pc, after, ci, req, retried, old, result>>

Null == -1
Offsets == 0..H-1
Descriptor == [base : Offsets, size : 1..H, free : BOOLEAN]

\* The offsets a descriptor describes, and the allocated blocks.
Span(d) == d.base .. d.base + d.size - 1
Blocks ==
    {[base |-> d.base, size |-> d.size] : d \in {e \in Range(map) : ~e.free}}

-----------------------------------------------------------------------------
\* init_kmalloc: one free descriptor of the whole heap.
Init ==
    /\ map = <<[base |-> 0, size |-> H, free |-> TRUE]>>
    /\ ops = 0
    /\ pc = "idle" /\ after = "idle"
    /\ ci = 1
    /\ req = 0 /\ retried = FALSE /\ old = 0
    /\ result = Null

(***************************************************************************)
(* __kheap_compress_map, called to continue at ret.                        *)
(***************************************************************************)
Compress(ret, table) ==
    IF Len(table) < 2
    THEN pc' = ret /\ UNCHANGED <<after, ci>>
    ELSE pc' = "compress" /\ after' = ret /\ ci' = 1

\* The operation counted by `++__kheap_ops', on the table it leaves.
Count(ret, table) ==
    /\ ops' = (ops + 1) % OpsRange
    /\ IF ops' >= MaxOps
       THEN Compress(ret, table)
       ELSE pc' = ret /\ UNCHANGED <<after, ci>>

\* The index the inner loop leaves in `selected': the lowest base from ci on.
Selected ==
    CHOOSE s \in ci..Len(map) :
        \A t \in ci..Len(map) :
            \/ map[s].base < map[t].base
            \/ map[s].base = map[t].base /\ s <= t

Switched == [map EXCEPT ![ci] = map[Selected], ![Selected] = map[ci]]

\* The merge test reads through `selected' after the switch, that is, the
\* descriptor that was at ci before it.
Mergeable ==
    /\ ci > 1
    /\ LET prev == Switched[ci - 1]
           sel  == Switched[Selected]
       IN  prev.base + prev.size = sel.base /\ sel.free /\ prev.free

compress_step ==
    /\ pc = "compress"
    /\ ci < Len(map)
    /\ IF Mergeable
       THEN /\ map' = RemoveAt([Switched EXCEPT
                          ![ci - 1].size = @ + Switched[Selected].size], ci)
            /\ UNCHANGED ci
       ELSE map' = Switched /\ ci' = ci + 1
    /\ UNCHANGED <<ops, pc, after, req, retried, old, result>>

compress_end ==
    /\ pc = "compress"
    /\ ci >= Len(map)
    /\ ops' = 0
    /\ pc' = after /\ after' = "idle"
    /\ ci' = 1
    /\ UNCHANGED <<map, req, retried, old, result>>

\* The call returns to the kernel, its local variables are gone.
Return ==
    /\ pc' = "idle"
    /\ req' = 0 /\ retried' = FALSE /\ old' = 0 /\ result' = Null
    /\ UNCHANGED <<map, ops, after, ci>>

(***************************************************************************)
(* kmalloc: the early returns, then a search that a compression may repeat.*)
(***************************************************************************)
kmalloc(size) ==
    /\ pc = "idle"
    /\ pc' = "enter"
    /\ req' = size /\ old' = 0
    /\ UNCHANGED <<map, ops, after, ci, retried, result>>

Refused == req = 0 \/ req >= H \/ Len(map) = MaxDescriptors

kmalloc_enter ==
    /\ pc = "enter"
    /\ IF Refused
       THEN Return
       ELSE pc' = "fit" /\ UNCHANGED <<map, ops, after, ci, req, retried, old, result>>

Fitting_taken == {k \in DOMAIN map : map[k].size >= req}
Fitting == {k \in DOMAIN map : map[k].free /\ map[k].size >= req}

\* The table after the descriptor at k gave its first req bytes: emptied, it
\* is cleared and obj_pool_pack closes the gap.
Split_unmoved(k) ==
    LET new  == [base |-> map[k].base, size |-> req, free |-> FALSE]
        rest == [map[k] EXCEPT !.size = @ - req]
    IN  IF rest.size = 0
        THEN Append(RemoveAt(map, k), new)
        ELSE Append([map EXCEPT ![k] = rest], new)

Split_tail(k) ==
    LET rest == [map[k] EXCEPT !.size = @ - req]
        new  == [base |-> rest.base + rest.size, size |-> req, free |-> FALSE]
    IN  IF rest.size = 0
        THEN Append(RemoveAt(map, k), new)
        ELSE Append([map EXCEPT ![k] = rest], new)

Split(k) ==
    LET new  == [base |-> map[k].base, size |-> req, free |-> FALSE]
        rest == [map[k] EXCEPT !.size = @ - req, !.base = @ + req]
    IN  IF rest.size = 0
        THEN Append(RemoveAt(map, k), new)
        ELSE Append([map EXCEPT ![k] = rest], new)

kmalloc_fit ==
    /\ pc = "fit"
    /\ Fitting # {}
    /\ LET k == Min(Fitting)
       IN  /\ map' = Split(k)
           /\ result' = map[k].base
           /\ Count("reply", Split(k))
    /\ UNCHANGED <<req, retried, old>>

kmalloc_retry_again ==
    /\ pc = "fit"
    /\ Fitting = {}
    /\ Compress("fit", map)
    /\ UNCHANGED <<map, ops, req, retried, old, result>>

kmalloc_retry ==
    /\ pc = "fit"
    /\ Fitting = {}
    /\ ~retried
    /\ retried' = TRUE
    /\ Compress("fit", map)
    /\ UNCHANGED <<map, ops, req, old, result>>

kmalloc_null ==
    /\ pc = "fit"
    /\ Fitting = {}
    /\ retried
    /\ Return

\* The caller has its buffer; krealloc has copied old_size bytes into it.
kmalloc_reply ==
    /\ pc = "reply"
    /\ Return

(***************************************************************************)
(* kfree and krealloc act on the first descriptor that spans the address.  *)
(* Drivers hand kfree stray pointers; krealloc is given buffers of kmalloc.*)
(***************************************************************************)
Holder(a) == Min({k \in DOMAIN map : a \in Span(map[k])})

Freed(a) == [map EXCEPT ![Holder(a)].free = TRUE]

kfree(a) ==
    /\ pc = "idle"
    /\ map' = Freed(a)
    /\ Count("idle", Freed(a))
    /\ UNCHANGED <<req, retried, old, result>>

krealloc(a, new_size) ==
    /\ pc = "idle"
    /\ a \in {b.base : b \in Blocks}
    /\ new_size < H
    /\ old' = map[Holder(a)].size
    /\ req' = new_size
    /\ map' = Freed(a)
    /\ Count("enter", Freed(a))
    /\ UNCHANGED <<retried, result>>

Call ==
    \/ \E size \in 0..H : kmalloc(size)
    \/ \E a \in Offsets : kfree(a)
    \/ \E a \in Offsets, size \in 0..H-1 : krealloc(a, size)

Run ==
    \/ kmalloc_enter \/ kmalloc_fit \/ kmalloc_retry \/ kmalloc_null
    \/ kmalloc_reply
    \/ compress_step \/ compress_end

Next == Call \/ Run

Spec == Init /\ [][Next]_vars

\* A call runs to its end: nothing in the kernel suspends it.
FairSpec == Spec /\ WF_vars(Run)

-----------------------------------------------------------------------------
\* The type of every variable.
TypeOK ==
    /\ map \in Seq(Descriptor)
    /\ Len(map) \in 1..MaxDescriptors
    /\ ops \in 0..OpsRange-1
    /\ pc \in {"idle", "enter", "fit", "reply", "compress"}
    /\ after \in {"idle", "enter", "fit", "reply"}
    /\ ci \in 1..MaxDescriptors
    /\ req \in 0..H
    /\ retried \in BOOLEAN
    /\ old \in 0..H
    /\ result \in Offsets \cup {Null}

(***************************************************************************)
(* The descriptors fit their table and are a partition of the heap:        *)
(* splitting, packing, sorting and merging neither lose a byte of it nor   *)
(* describe one twice, in the middle of a compression too.                 *)
(***************************************************************************)
Partition ==
    TypeOK /\ \A a \in Offsets : \E k \in DOMAIN map :
        /\ a \in Span(map[k])
        /\ Span(map[k]) \subseteq Offsets
        /\ \A l \in DOMAIN map : a \in Span(map[l]) => l = k

(***************************************************************************)
(* The buffer kmalloc is about to return is an allocated block of the size *)
(* asked for, the compression that may run in between notwithstanding.     *)
(***************************************************************************)
AnswerIsABlock ==
    pc = "reply" \/ (pc = "compress" /\ after = "reply") =>
        [base |-> result, size |-> req, free |-> FALSE] \in Range(map)

(***************************************************************************)
(* The allocated blocks are those of an abstract heap: what kmalloc adds   *)
(* was free, kfree removes one block, and a compression neither moves nor  *)
(* resizes one.                                                            *)
(***************************************************************************)
Heap == INSTANCE HeapSpec WITH blocks <- Blocks

ImplementsHeap == Heap!Spec

\* Every call returns, whatever the compression merges as it goes.
CallsReturn == pc # "idle" ~> pc = "idle"

=============================================================================
