----------------------------- MODULE FrameAlloc -----------------------------
(***************************************************************************)
(* The physical frame allocator of mm/frame_alloc.c: a bitmap of the free  *)
(* frames and a pool of frames taken from it in advance.                   *)
(*                                                                         *)
(* A frame is named by its number; the code's addresses are 4096 times     *)
(* that, so that frame 0 is the null pointer.  Loops of the code that      *)
(* matter (the scan of the bitmap) are taken one bit at a time.            *)
(***************************************************************************)
EXTENDS Integers, Sequences, FiniteSets, Functions, FiniteSetsExt

CONSTANTS
    N,              \* memory_length / PAGE_SIZE, the frames of the machine
    W,              \* bits of a byte of the bitmap, 8 in the code
    P,              \* PREALLOC_POOL_SIZE, 64 in the code
    MaxRequest,     \* bound: the largest num_frames a caller asks for
    InitFree,       \* frames the boot loader marks free in the bitmap
    BootFrames      \* frames of the boot memory map, in use at boot

ASSUME GeometryAssumption ==
    /\ N \in Nat \ {0} /\ W \in Nat \ {0} /\ P \in Nat \ {0}
    /\ MaxRequest \in Nat \ {0}

\* Frame 0 is the null pointer, the boot loader never marks it free.
ASSUME BootAssumption ==
    /\ InitFree \subseteq 1..N-1
    /\ BootFrames \subseteq 1..N-1
    /\ InitFree \cap BootFrames = {}

VARIABLES
    bitmap,             \* the set of frames whose bit is 1
    pool,
    pool_top,
    pool_status,
    last_index,
    last_free_frame,
    pc,                 \* where the call in progress is
    i, j,               \* the loop variables of kalloc_pool
    start,              \* history: the i with which the last scan began
    num, array,         \* num_frames and array of kalloc_frames_array
    owned,              \* history: the frames the callers hold
    regular             \* history, see Next

poolVars == <<pool, pool_top, pool_status>>
hintVars == <<last_index, last_free_frame>>
scanVars == <<i, j, start>>
callVars == <<num, array>>
vars ==
    <<bitmap, poolVars, hintVars, pc, scanVars, callVars, owned, regular>>

Null == 0
Frames == 0..N-1
Slots == 0..P-1
Statuses == {"fully_allocated", "partially_allocated", "empty"}

\* GET_BYTE_FROM_ADDRESS, and the bit that kalloc_pool tests at i, j.
ByteOf(f) == f \div W
ScannedBit_reversed == W * ByteOf(i) + W - 1 - j
ScannedBit == W * ByteOf(i) + j

-----------------------------------------------------------------------------
\* init_frame_alloc calls kalloc_pool before any frame is asked for: num = 0
\* stands for that call.
Init ==
    /\ bitmap = InitFree
    /\ pool = [k \in Slots |-> Null]
    /\ pool_top = 0
    /\ pool_status = "empty"
    /\ last_index = 0
    /\ last_free_frame = Null
    /\ pc = "scan"
    /\ i = 0 /\ j = 0 /\ start = 0
    /\ num = 0 /\ array = <<>>
    /\ owned = BootFrames
    /\ regular = TRUE

(***************************************************************************)
(* kalloc_pool, one iteration of the inner loop per step.                  *)
(***************************************************************************)
Scanning == pc = "scan" /\ i < N /\ j < W

\* The loop variables of the iteration after this one.
Advance_short ==
    /\ IF j >= W - 2 THEN i' = i + W /\ j' = 0 ELSE i' = i /\ j' = j + 1
    /\ UNCHANGED <<pc, start>>

Advance ==
    /\ IF j = W - 1 THEN i' = i + W /\ j' = 0 ELSE i' = i /\ j' = j + 1
    /\ UNCHANGED <<pc, start>>

AfterScan == IF num = 0 THEN "idle" ELSE "alloc"

\* The slot just filled is the last one.
PoolFull == pool_top + 1 = P

kalloc_pool_skip ==
    /\ Scanning
    /\ ScannedBit \notin bitmap
    /\ last_index' = i
    /\ Advance
    /\ UNCHANGED <<bitmap, poolVars, last_free_frame, callVars, owned>>

kalloc_pool_take ==
    /\ Scanning
    /\ ScannedBit \in bitmap
    /\ bitmap' = bitmap \ {ScannedBit}
    /\ pool' = [pool EXCEPT ![pool_top] = i + j]
    /\ last_index' = i
    /\ last_free_frame' = i + j
    /\ IF PoolFull
       THEN /\ pool_status' = "fully_allocated"
            /\ pc' = AfterScan
            /\ UNCHANGED <<pool_top, scanVars>>
       ELSE /\ pool_top' = pool_top + 1
            /\ Advance
            /\ UNCHANGED pool_status
    /\ UNCHANGED <<callVars, owned>>

ScanFoundNone_unrewound ==
    /\ pool_status' = "empty"
    /\ pc' = IF num = 0 THEN "idle" ELSE "fail"
    /\ UNCHANGED <<pool_top, last_index>>

ScanFoundNone_ignored ==
    /\ pool_status' = "empty"
    /\ last_index' = 0
    /\ pc' = AfterScan
    /\ UNCHANGED pool_top

ScanFoundNone ==
    /\ pool_status' = "empty"
    /\ last_index' = 0
    /\ pc' = IF num = 0 THEN "idle" ELSE "fail"
    /\ UNCHANGED pool_top

ScanFoundSome_above ==
    /\ pool_status' = "partially_allocated"
    /\ pc' = AfterScan
    /\ UNCHANGED <<pool_top, last_index>>

\* pool_top becomes the index of the last slot filled.
ScanFoundSome ==
    /\ pool_status' = "partially_allocated"
    /\ pool_top' = pool_top - 1
    /\ pc' = AfterScan
    /\ UNCHANGED last_index

kalloc_pool_end ==
    /\ pc = "scan" /\ i >= N
    /\ IF pool_top = 0 THEN ScanFoundNone ELSE ScanFoundSome
    /\ UNCHANGED <<bitmap, pool, last_free_frame, scanVars, callVars, owned>>

kalloc_pool == kalloc_pool_skip \/ kalloc_pool_take \/ kalloc_pool_end

(***************************************************************************)
(* kalloc_frame, called num times by kalloc_frames_array (a lone call, as  *)
(* map_page makes, is num = 1).                                            *)
(***************************************************************************)
kalloc_frames_array(n) ==
    /\ pc = "idle"
    /\ pc' = "alloc"
    /\ num' = n
    /\ UNCHANGED <<bitmap, poolVars, hintVars, scanVars, array, owned>>

kalloc_frame_refill ==
    /\ pc = "alloc"
    /\ pool_status = "empty"
    /\ pc' = "scan"
    /\ i' = last_index /\ j' = 0 /\ start' = last_index
    /\ UNCHANGED <<bitmap, poolVars, hintVars, callVars, owned>>

\* A full pool is emptied from slot 0 up, a partial one from its top down.
NextSlot ==
    IF pool_status = "fully_allocated" THEN P - 1 - pool_top ELSE pool_top

kalloc_frame_pop ==
    /\ pc = "alloc"
    /\ pool_status # "empty"
    /\ pool' = [pool EXCEPT ![NextSlot] = Null]
    /\ IF pool_top = 0
       THEN pool_status' = "empty" /\ UNCHANGED pool_top
       ELSE pool_top' = pool_top - 1 /\ UNCHANGED pool_status
    /\ LET frame == pool[NextSlot]
           got   == Append(array, frame)
       IN  IF frame = Null
           THEN pc' = "fail" /\ UNCHANGED <<callVars, owned>>
           ELSE IF Len(got) = num
                THEN /\ pc' = "idle"
                     /\ num' = 0 /\ array' = <<>>
                     /\ owned' = owned \cup Range(got)
                ELSE /\ array' = got
                     /\ UNCHANGED <<pc, num, owned>>
    /\ UNCHANGED <<bitmap, hintVars, scanVars>>

(***************************************************************************)
(* kfree_frame of every member of S, in any order: each call sets a bit,   *)
(* and each frame not above last_free_frame becomes last_free_frame, so    *)
(* that the smallest one is left.                                          *)
(***************************************************************************)
kfree_all(S) ==
    /\ bitmap' = bitmap \cup S
    /\ IF \E f \in S : f <= last_free_frame
       THEN /\ last_free_frame' = Min(S)
            /\ last_index' = ByteOf(Min(S))
       ELSE UNCHANGED hintVars

kfree_frame(f) ==
    /\ pc = "idle"
    /\ f \in owned
    /\ owned' = owned \ {f}
    /\ kfree_all({f} \cap Frames)
    /\ UNCHANGED <<poolVars, pc, scanVars, callVars>>

\* The frames kfree_frames_array(n, a) frees: it stops at the first that
\* kfree_frame refuses.
FreedOf_short(n, a) ==
    {a[k] : k \in {k \in 1..n-1 : \A l \in 1..k : a[l] \in Frames}}

FreedOf(n, a) ==
    {a[k] : k \in {k \in 1..n : \A l \in 1..k : a[l] \in Frames}}

\* kalloc_frames_array after kalloc_frame returned null at index Len(array).
kalloc_frames_array_undo ==
    /\ pc = "fail"
    /\ kfree_all(FreedOf(IF array = <<>> THEN 0 ELSE Len(array) - 1, array))
    /\ pc' = "idle"
    /\ num' = 0 /\ array' = <<>>
    /\ UNCHANGED <<poolVars, scanVars, owned>>

(***************************************************************************)
(* The two operations of the interface nothing in the kernel calls.        *)
(***************************************************************************)
\* `0xFF - 1 << off' is (0xFF - 1) << off: bits 0 to off are cleared.
klock_frame(f) ==
    /\ pc = "idle"
    /\ bitmap' = bitmap \ (W * ByteOf(f) .. f)
    /\ UNCHANGED <<poolVars, hintVars, pc, scanVars, callVars, owned>>

\* Every slot is freed, the null ones too, and no slot is cleared.
flush_frame_prealloc_pool ==
    /\ pc = "idle"
    /\ kfree_all(Range(pool) \cap Frames)
    /\ pool_top' = 0
    /\ pool_status' = "empty"
    /\ UNCHANGED <<pool, pc, scanVars, callVars, owned>>

(***************************************************************************)
(* kfree_frame leaves a byte number in last_index, where kalloc_pool reads *)
(* the number of a frame: a search may start inside a byte.  A behaviour   *)
(* is regular as long as last_index has been the first frame of a byte, and*)
(* neither unused operation was called.                                    *)
(***************************************************************************)
HintAligned == last_index % W = 0

\* The steps of a call: nothing in the kernel suspends it.
CallSteps ==
    kalloc_pool \/ kalloc_frame_refill \/ kalloc_frame_pop
                \/ kalloc_frames_array_undo

Operations ==
    \/ CallSteps
    \/ \E n \in 1..MaxRequest : kalloc_frames_array(n)
    \/ \E f \in owned : kfree_frame(f)

Unused == flush_frame_prealloc_pool \/ \E f \in Frames : klock_frame(f)

Next ==
    \/ Operations /\ regular' = (regular /\ HintAligned')
    \/ Unused /\ regular' = FALSE

Spec == Init /\ [][Next]_vars

FairSpec ==
    Spec /\ WF_vars(CallSteps /\ regular' = (regular /\ HintAligned'))

-----------------------------------------------------------------------------
\* Slots that hold a frame taken from the bitmap and not yet handed out.
LiveSlots ==
    IF pc = "scan" THEN 0..pool_top-1
    ELSE CASE pool_status = "empty"               -> {}
           [] pool_status = "partially_allocated" -> 0..pool_top
           [] pool_status = "fully_allocated"     -> P-1-pool_top .. P-1

LiveFrames == {pool[s] : s \in LiveSlots}

\* i + j may pass the last frame when i is not the first frame of a byte.
AnyFrame == 0..N+W

\* The ranges of the code's variables.
Typed ==
    /\ bitmap \subseteq Frames
    /\ pool \in [Slots -> AnyFrame]
    /\ pool_top \in Slots
    /\ pool_status \in Statuses
    /\ last_index \in Frames
    /\ last_free_frame \in AnyFrame
    /\ pc \in {"idle", "alloc", "scan", "fail"}
    /\ i \in 0..N+W /\ j \in 0..W-1
    /\ start \in Frames
    /\ num \in 0..MaxRequest
    /\ array \in Seq(AnyFrame) /\ (num > 0 => Len(array) < num)
    /\ owned \subseteq AnyFrame

\* The type of every variable.
TypeOK == Typed /\ regular \in BOOLEAN

(***************************************************************************)
(* No two slots the pool will still hand out hold the same frame, whatever *)
(* index the scan of kalloc_pool started from.                             *)
(***************************************************************************)
PoolDistinct ==
    \A s, t \in LiveSlots : pool[s] = pool[t] => s = t

(***************************************************************************)
(* A frame has one holder: it is free in the bitmap, waiting in the pool,  *)
(* in the array of the call in progress or owned by a caller, and no two   *)
(* entries of the pool and of the array are the same frame.  frame_alloc.c *)
(* lines 4-5 say so of every behaviour: a frame whose bit is set is "free  *)
(* to use and can be allocated".                                           *)
(***************************************************************************)
OneHolder ==
    /\ PoolDistinct
    /\ \A k, l \in 1..Len(array) : array[k] = array[l] => k = l
    /\ LET A == Range(array)
       IN  /\ bitmap \cap (LiveFrames \cup A \cup owned) = {}
           /\ LiveFrames \cap (A \cup owned) = {}
           /\ A \cap owned = {}

\* It is true of the regular ones.
NoDoubleAllocation == regular => OneHolder

(***************************************************************************)
(* A scan skips no free frame: while the pool is not full, every frame from*)
(* where the scan started to where it stands is taken, so that a refill    *)
(* that fails leaves no free frame at or above its start.                  *)
(***************************************************************************)
Skipless ==
    /\ pc = "scan" => \A f \in bitmap : f < start \/ f >= i + j
    /\ pc = "fail" => \A f \in bitmap : f < start

ScanSkipsNone == regular => Skipless

\* Every frame the machine could use is held by someone.
Unaccounted ==
    (InitFree \cup BootFrames)
        \ (bitmap \cup LiveFrames \cup Range(array) \cup owned)

(***************************************************************************)
(* The only step that loses frames is the clean-up of a failed             *)
(* kalloc_frames_array, and a clean-up loses at most one: the last frame it*)
(* had obtained.                                                           *)
(***************************************************************************)
OnlyFailedArraysLose ==
    [][regular' /\ Unaccounted' # Unaccounted =>
         /\ pc = "fail"
         /\ array # <<>>
         /\ Unaccounted' \ Unaccounted \subseteq {array[Len(array)]}]_vars

(***************************************************************************)
(* A request that fails leaves the next search at frame 0, unless frames   *)
(* freed since moved it: the second of two failing requests in a row has   *)
(* searched the whole bitmap.                                              *)
(***************************************************************************)
FailureRewinds ==
    [][pc = "scan" /\ pc' = "fail" =>
         /\ last_index' = 0
         /\ start = 0 => bitmap' = {}]_vars

\* Every request of a caller is answered.
RequestsEnd == pc # "idle" ~> pc = "idle"

-----------------------------------------------------------------------------
(***************************************************************************)
(* The inductive invariants.                                               *)
(***************************************************************************)
\* What holds between the calls and the pool.
Discipline ==
    /\ pc = "idle" => num = 0
    /\ num = 0 => array = <<>> /\ pc \in {"idle", "scan"}
    /\ pc = "scan" => pool_status = "empty"
    /\ pc # "scan" /\ pool_status = "empty" => pool_top = 0

\* A scan adds frames in increasing order.
ScanOrder == pc = "scan" => \A s \in 0..pool_top-1 : pool[s] < i + j

PoolInv == Typed /\ Discipline /\ ScanOrder /\ PoolDistinct

\* At an aligned i the bit the scan tests is the bit of the frame it takes.
Aligned == i % W = 0 /\ HintAligned

Usable == InitFree \cup BootFrames

AllUsable ==
    bitmap \cup LiveFrames \cup Range(array) \cup owned \subseteq Usable

HolderInv == PoolInv /\ Aligned /\ AllUsable /\ OneHolder
ScanInv == HolderInv /\ Skipless
RegularInv == PoolInv /\ regular \in BOOLEAN /\ (regular => ScanInv)

\* A scan that began at frame 0 has taken every frame below i + j.
FromZero ==
    pc = "scan" /\ start = 0 => i % W = 0 /\ \A f \in bitmap : f >= i + j

RewindInv == PoolInv /\ FromZero
=============================================================================
