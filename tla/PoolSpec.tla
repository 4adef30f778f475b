------------------------------ MODULE PoolSpec ------------------------------
(***************************************************************************)
(* What a bounded pool of objects promises a client that uses it as a      *)
(* stack or as a queue: put refuses an object only when the pool is full,  *)
(* get takes the newest object of a stack and the oldest of a queue.       *)
(***************************************************************************)
EXTENDS Integers, Sequences

CONSTANTS
    Object,
    Size        \* how many objects the pool holds

VARIABLES
    kind,       \* "stack" or "queue"
    held        \* the objects put and not yet got, oldest first

Init == kind \in {"stack", "queue"} /\ held = <<>>

Put(x) == Len(held) < Size /\ held' = Append(held, x)

Get ==
    /\ held # <<>>
    /\ held' = IF kind = "queue" THEN Tail(held)
                                 ELSE SubSeq(held, 1, Len(held) - 1)

Flush == held' = <<>>

Next == UNCHANGED kind /\ (Get \/ Flush \/ \E x \in Object : Put(x))

Spec == Init /\ [][Next]_<<kind, held>>
=============================================================================
