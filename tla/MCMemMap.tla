------------------------------ MODULE MCMemMap ------------------------------
(* A boot map with a reserved first page and two usable parts, the second   *)
(* in a region that has no page table yet; one usable frame is in use.      *)
EXTENDS MemMap

MCBootMap == <<
    init_descriptor(0, 0, 1, {"valid"}, "io_reserved"),
    init_descriptor(1, 1, 2, {"avail", "valid"}, "usable"),
    init_descriptor(4, 4, 3, {"avail", "valid"}, "usable") >>

MCBootFree == {1, 2, 4, 5}
MCRegion == [p \in 0 .. 6 |-> IF p < 3 THEN 0 ELSE 1]
MCBootMissing == [r \in {0, 1} |-> r]

\* No call starts after an irregular one.
RegularCalls == regular \/ call # Idle
=============================================================================
