-------------------------- MODULE FrameAllocProofs --------------------------
(***************************************************************************)
(* Proofs about FrameAlloc, for every machine size, byte width and pool    *)
(* size.                                                                   *)
(***************************************************************************)
EXTENDS FrameAlloc, SequenceTheorems, WellFoundedInduction, TLAPS

USE GeometryAssumption, BootAssumption

-----------------------------------------------------------------------------
(***************************************************************************)
(* Arithmetic of the bitmap, and the minimum kfree_all leaves.             *)
(***************************************************************************)
LEMMA DivMod ==
    ASSUME NEW f \in Nat
    PROVE  /\ ByteOf(f) \in 0..f
           /\ f = W * ByteOf(f) + (f % W)
           /\ f % W \in 0..W-1
  BY SMT DEF ByteOf

LEMMA Multiple ==
    ASSUME NEW f \in Nat, NEW q \in Nat, f = W * q
    PROVE  f % W = 0
<1> DEFINE p == ByteOf(f)
           r == f % W
<1>1. p \in 0..f /\ r \in 0..W-1 /\ f = W * p + r
  BY DivMod, Zenon
<1> HIDE DEF p, r
<1>2. ASSUME q > p PROVE FALSE
  <2>1. W * q >= W * (p + 1)
    BY <1>1, <1>2, SMT
  <2> QED
    BY <2>1, <1>1, SMT
<1>3. ASSUME q < p PROVE FALSE
  <2>1. W * p >= W * (q + 1)
    BY <1>1, <1>3, SMT
  <2> QED
    BY <2>1, <1>1, SMT
<1>4. r = 0
  BY <1>1, <1>2, <1>3, SMT
<1> QED
  BY <1>4 DEF r

LEMMA NextByte ==
    ASSUME NEW f \in Nat, f % W = 0
    PROVE  /\ (f + W) % W = 0
           /\ W * ByteOf(f) = f
<1>1. W * ByteOf(f) = f /\ ByteOf(f) \in Nat
  BY DivMod, SMT
<1>2. f + W = W * (ByteOf(f) + 1)
  BY <1>1, SMT
<1>3. (f + W) % W = 0
  BY <1>1, <1>2, Multiple
<1> QED
  BY <1>1, <1>2, <1>3

LEMMA MinOfNats ==
    ASSUME NEW S \in SUBSET Nat, S # {}
    PROVE  Min(S) \in S /\ \A x \in S : Min(S) <= x
<1>0. \A x, y \in Nat : x < y => <<x, y>> \in OpToRel(<, Nat)
  BY Zenon DEF OpToRel
<1>1. PICK x \in S : \A y \in S : ~(<<y, x>> \in OpToRel(<, Nat))
  BY NatLessThanWellFounded, WFMin
<1>2. \A y \in S : ~(y < x)
  BY <1>0, <1>1, Zenon
<1>3. \A y \in S : x <= y
  BY <1>2, SMT
<1> QED
  BY <1>3, Zenon DEF Min

-----------------------------------------------------------------------------
(***************************************************************************)
(* PoolInv is inductive.                                                   *)
(***************************************************************************)
\* kfree_all keeps the types of what it changes.
LEMMA FreeAllType ==
    ASSUME Typed, NEW S \in SUBSET Frames, kfree_all(S)
    PROVE  /\ bitmap' \subseteq Frames
           /\ last_index' \in Frames
           /\ last_free_frame' \in AnyFrame
<1>1. CASE \E f \in S : f <= last_free_frame
  <2>1. S \in SUBSET Nat /\ S # {}
    BY <1>1 DEF Frames
  <2>2. Min(S) \in S
    BY <2>1, MinOfNats
  <2>3. Min(S) \in Nat /\ Min(S) \in 0..N-1
    <3>1. Min(S) \in Frames
      BY <2>2
    <3> QED
      BY <3>1 DEF Frames
  <2>4. ByteOf(Min(S)) \in 0..Min(S)
    BY <2>3, DivMod
  <2>5. last_free_frame' = Min(S) /\ last_index' = ByteOf(Min(S)) /\ bitmap' = bitmap \cup S
    BY <1>1, Zenon DEF kfree_all
  <2> QED
    BY <2>3, <2>4, <2>5 DEF Typed, Frames, AnyFrame
<1>2. CASE ~ \E f \in S : f <= last_free_frame
  BY <1>2 DEF kfree_all, Typed, hintVars
<1> QED
  BY <1>1, <1>2

LEMMA PoolInvInit == Init => PoolInv
  BY DEF Init, PoolInv, Typed, Discipline, ScanOrder, PoolDistinct,
     LiveSlots, Null, Slots, Frames, AnyFrame, Statuses

\* A take writes the slot above those that were live.
LEMMA TakePool ==
    ASSUME PoolInv, kalloc_pool_take
    PROVE  /\ pc = "scan" /\ pool_top \in Slots
           /\ pool'[pool_top] = i + j
           /\ \A s \in 0..pool_top-1 :
                 pool'[s] = pool[s] /\ pool[s] \in Int /\ pool[s] < i + j
           /\ i + j \in AnyFrame
           /\ \A s, t \in 0..pool_top : pool'[s] = pool'[t] => s = t
           /\ \A s \in 0..pool_top : pool'[s] < i + j + 1
<1>1. /\ pc = "scan" /\ pool_top \in Slots
      /\ pool'[pool_top] = i + j
      /\ \A s \in 0..pool_top-1 :
            pool'[s] = pool[s] /\ pool[s] \in Int /\ pool[s] < i + j
      /\ i + j \in AnyFrame
  BY DEF PoolInv, Typed, ScanOrder, kalloc_pool_take, PoolFull, Scanning,
     Slots, AnyFrame
<1>2. \A s, t \in 0..pool_top-1 : pool[s] = pool[t] => s = t
  BY <1>1 DEF PoolInv, PoolDistinct, LiveSlots
<1>3. \A s \in 0..pool_top : s \in 0..pool_top-1 \/ s = pool_top
  BY <1>1 DEF Slots
<1>4. i + j \in Int
  BY <1>1 DEF AnyFrame
<1>5. \A s \in 0..pool_top-1 : pool'[s] # pool'[pool_top]
  BY <1>1, <1>4
<1>6. \A s, t \in 0..pool_top : pool'[s] = pool'[t] => s = t
  BY <1>1, <1>2, <1>3, <1>5, Zenon
<1>7. \A s \in 0..pool_top : pool'[s] < i + j + 1
  BY <1>1, <1>3, <1>4
<1> QED
  BY <1>1, <1>6, <1>7

\* The loop variables after an iteration stay in range and move on by one.
LEMMA AdvanceType ==
    ASSUME Typed, Scanning, Advance
    PROVE  /\ i' \in 0..N+W /\ j' \in 0..W-1
           /\ i' + j' = i + j + 1
           /\ pc' = pc /\ start' = start
  BY SMT DEF Typed, Scanning, Advance

LEMMA SkipPoolInv ==
    ASSUME PoolInv, kalloc_pool_skip
    PROVE  PoolInv'
<1>1. Typed'
  BY AdvanceType DEF PoolInv, Typed, kalloc_pool_skip, Scanning, poolVars,
     callVars, Frames
<1>2. Discipline'
  BY AdvanceType DEF PoolInv, Typed, Discipline, kalloc_pool_skip, Scanning,
     poolVars, callVars
<1>3. ScanOrder' /\ PoolDistinct'
  <2>1. pc = "scan" /\ pc' = "scan" /\ UNCHANGED poolVars /\ i' + j' = i + j + 1
    BY AdvanceType DEF PoolInv, kalloc_pool_skip, Scanning
  <2>2. PoolDistinct'
    BY <2>1 DEF PoolInv, PoolDistinct, LiveSlots, poolVars
  <2>3. \A s \in 0..pool_top-1 : pool[s] \in Int
    BY DEF PoolInv, Typed, Slots, AnyFrame
  <2>4. i + j \in Int
    BY DEF PoolInv, Typed
  <2>5. ScanOrder'
    BY <2>1, <2>3, <2>4 DEF PoolInv, ScanOrder, poolVars
  <2> QED
    BY <2>2, <2>5
<1> QED
  BY <1>1, <1>2, <1>3 DEF PoolInv

LEMMA TakePoolInv ==
    ASSUME PoolInv, kalloc_pool_take
    PROVE  PoolInv'
<1>1. i + j \in AnyFrame
  BY DEF PoolInv, Typed, kalloc_pool_take, PoolFull, Scanning, AnyFrame
<1>2. CASE pool_top + 1 = P
  <2>1. Typed'
    BY <1>1, <1>2 DEF PoolInv, Typed, kalloc_pool_take, PoolFull, Scanning,
       scanVars, callVars, Frames, Slots, Statuses, AfterScan
  <2>2. Discipline' /\ ScanOrder'
    BY <1>2 DEF PoolInv, Typed, Discipline, ScanOrder, kalloc_pool_take,
       PoolFull, Scanning, scanVars, callVars, AfterScan
  <2>3. PoolDistinct'
    <3>1. LiveSlots' = 0..pool_top
      BY <1>2, TakePool DEF PoolInv, LiveSlots, kalloc_pool_take, PoolFull,
         Scanning, AfterScan, Slots
    <3> QED
      BY <3>1, TakePool, Zenon DEF PoolDistinct
  <2> QED
    BY <2>1, <2>2, <2>3 DEF PoolInv
<1>3. CASE pool_top + 1 # P
  <2>0. Advance
    BY <1>3 DEF kalloc_pool_take, PoolFull
  <2>1. Typed'
    <3>1. /\ bitmap' \subseteq Frames /\ last_index' \in Frames /\ last_free_frame' \in AnyFrame
          /\ pool' \in [Slots -> AnyFrame]
      BY <1>1 DEF PoolInv, Typed, kalloc_pool_take, Scanning, Frames
    <3>2. pool_top' \in Slots /\ pool_status' = pool_status
      BY <1>3 DEF PoolInv, Typed, kalloc_pool_take, PoolFull, Slots
    <3>3. i' \in 0..N+W /\ j' \in 0..W-1 /\ pc' = pc /\ start' = start
      BY <2>0, AdvanceType DEF PoolInv, kalloc_pool_take
    <3>4. UNCHANGED <<callVars, owned>>
      BY DEF kalloc_pool_take
    <3> QED
      BY <3>1, <3>2, <3>3, <3>4 DEF PoolInv, Typed, callVars
  <2>2. pc' = "scan" /\ pool_top' = pool_top + 1 /\ i' + j' = i + j + 1
    BY <1>3, <2>0, AdvanceType DEF PoolInv, kalloc_pool_take, PoolFull,
       Scanning
  <2>3. Discipline'
    BY <1>3, <2>2 DEF PoolInv, Discipline, kalloc_pool_take, PoolFull,
       Scanning, callVars
  <2>4. ScanOrder'
    <3>1. 0..pool_top'-1 = 0..pool_top
      BY <2>2, TakePool DEF Slots
    <3> QED
      BY <2>2, <3>1, TakePool, Zenon DEF ScanOrder
  <2>5. PoolDistinct'
    <3>1. LiveSlots' = 0..pool_top
      BY <2>2, TakePool DEF LiveSlots, Slots
    <3> QED
      BY <3>1, TakePool, Zenon DEF PoolDistinct
  <2> QED
    BY <2>1, <2>3, <2>4, <2>5 DEF PoolInv
<1> QED
  BY <1>2, <1>3

LEMMA EndPoolInv ==
    ASSUME PoolInv, kalloc_pool_end
    PROVE  PoolInv'
<1>1. Typed' /\ Discipline' /\ ScanOrder'
  BY DEF PoolInv, Typed, Discipline, ScanOrder, kalloc_pool_end,
     ScanFoundNone, ScanFoundSome, AfterScan, scanVars, callVars, Frames,
     Slots, Statuses
<1>2. PoolDistinct'
  BY DEF PoolInv, Typed, Discipline, PoolDistinct, LiveSlots,
     kalloc_pool_end, ScanFoundNone, ScanFoundSome, AfterScan, Slots
<1> QED
  BY <1>1, <1>2 DEF PoolInv

LEMMA RequestPoolInv ==
    ASSUME PoolInv, NEW n \in 1..MaxRequest, kalloc_frames_array(n)
    PROVE  PoolInv'
<1>1. Typed'
  BY EmptySeq DEF PoolInv, Typed, Discipline, kalloc_frames_array, poolVars,
     hintVars, scanVars
<1>2. Discipline' /\ ScanOrder'
  BY DEF PoolInv, Discipline, ScanOrder, kalloc_frames_array, poolVars,
     scanVars
<1>3. PoolDistinct'
  <2>1. LiveSlots' = LiveSlots /\ pool' = pool
    BY DEF LiveSlots, kalloc_frames_array, poolVars
  <2> QED
    BY <2>1 DEF PoolInv, PoolDistinct
<1> QED
  BY <1>1, <1>2, <1>3 DEF PoolInv

LEMMA RefillPoolInv ==
    ASSUME PoolInv, kalloc_frame_refill
    PROVE  PoolInv'
<1>1. Typed'
  BY DEF PoolInv, Typed, kalloc_frame_refill, poolVars, hintVars, callVars, Frames, Slots
<1>2. Discipline'
  BY DEF PoolInv, Typed, Discipline, kalloc_frame_refill, poolVars, callVars
<1>3. ScanOrder'
  BY DEF PoolInv, Typed, Discipline, ScanOrder, kalloc_frame_refill, poolVars, Slots
<1>4. PoolDistinct'
  <2>1. pc' = "scan" /\ pool_top' = 0
    BY DEF PoolInv, Discipline, kalloc_frame_refill, poolVars
  <2>2. LiveSlots' = {}
    BY <2>1 DEF LiveSlots
  <2> QED
    BY <2>2 DEF PoolDistinct
<1> QED
  BY <1>1, <1>2, <1>3, <1>4 DEF PoolInv

\* What a pop does to the pool, apart from the caller's array.
LEMMA PopPool ==
    ASSUME PoolInv, kalloc_frame_pop
    PROVE  /\ NextSlot \in Slots /\ NextSlot \in LiveSlots
           /\ pool' \in [Slots -> AnyFrame]
           /\ pool_top' \in Slots /\ pool_status' \in Statuses
           /\ pool_status' = "empty" => pool_top' = 0
           /\ pc' # "scan"
           /\ LiveSlots' = LiveSlots \ {NextSlot}
           /\ \A s \in LiveSlots' : pool'[s] = pool[s]
<1>1. NextSlot \in Slots /\ NextSlot \in LiveSlots
  BY DEF PoolInv, Typed, kalloc_frame_pop, NextSlot, LiveSlots, Slots, Statuses
<1>2. /\ pool' = [pool EXCEPT ![NextSlot] = Null]
      /\ pc = "alloc" /\ pool_status # "empty" /\ pc' # "scan"
      /\ IF pool_top = 0
         THEN pool_status' = "empty" /\ pool_top' = pool_top
         ELSE pool_top' = pool_top - 1 /\ pool_status' = pool_status
  BY DEF kalloc_frame_pop
<1>3. pool' \in [Slots -> AnyFrame]
  <2>1. pool \in [Slots -> AnyFrame]
    BY DEF PoolInv, Typed
  <2>2. Null \in AnyFrame
    BY DEF Null, AnyFrame
  <2> QED
    BY <1>1, <1>2, <2>1, <2>2
<1>4. pool_top' \in Slots /\ pool_status' \in Statuses /\ (pool_status' = "empty" => pool_top' = 0)
  BY <1>2 DEF PoolInv, Typed, Slots, Statuses
<1>5. LiveSlots' = LiveSlots \ {NextSlot}
  <2>1. pool_top \in 0..P-1
    BY DEF PoolInv, Typed, Slots
  <2>2. CASE pool_status = "fully_allocated"
    <3>1. LiveSlots = P - 1 - pool_top .. P - 1 /\ NextSlot = P - 1 - pool_top
      BY <2>2, <1>2 DEF LiveSlots, NextSlot
    <3>2. CASE pool_top = 0
      <4>1. LiveSlots' = {}
        BY <3>2, <1>2 DEF LiveSlots
      <4> QED
        BY <3>1, <3>2, <4>1
    <3>3. CASE pool_top # 0
      <4>1. LiveSlots' = P - 1 - (pool_top - 1) .. P - 1
        BY <2>2, <3>3, <1>2 DEF LiveSlots
      <4> QED
        BY <2>1, <3>1, <4>1
    <3> QED
      BY <3>2, <3>3
  <2>3. CASE pool_status # "fully_allocated"
    <3>1. LiveSlots = 0 .. pool_top /\ NextSlot = pool_top /\ pool_status = "partially_allocated"
      BY <2>3, <1>2 DEF PoolInv, Typed, Statuses, LiveSlots, NextSlot
    <3>2. CASE pool_top = 0
      <4>1. LiveSlots' = {}
        BY <3>2, <1>2 DEF LiveSlots
      <4> QED
        BY <3>1, <3>2, <4>1
    <3>3. CASE pool_top # 0
      <4>1. LiveSlots' = 0 .. pool_top - 1
        BY <3>1, <3>3, <1>2 DEF LiveSlots
      <4> QED
        BY <2>1, <3>1, <4>1
    <3> QED
      BY <3>2, <3>3
  <2> QED
    BY <2>2, <2>3
<1>6. \A s \in LiveSlots' : pool'[s] = pool[s]
  <2>1. LiveSlots \subseteq Slots
    BY <1>2 DEF PoolInv, Typed, Slots, Statuses, LiveSlots
  <2> QED
    BY <1>2, <1>5, <2>1 DEF PoolInv, Typed
<1> QED
  BY <1>1, <1>2, <1>3, <1>4, <1>5, <1>6

LEMMA PopPoolInv ==
    ASSUME PoolInv, kalloc_frame_pop
    PROVE  PoolInv'
<1> DEFINE frame == pool[NextSlot]
           got   == Append(array, frame)
<1>1. frame \in AnyFrame
  BY PopPool DEF PoolInv, Typed
<1>2. got \in Seq(AnyFrame) /\ Len(got) = Len(array) + 1 /\ Len(array) \in Nat
  BY <1>1, AppendProperties, LenProperties DEF PoolInv, Typed
<1>3. Range(got) \subseteq AnyFrame
  BY <1>2, RangeOfSeq
<1>4. /\ pc = "alloc"
      /\ \/ frame = Null /\ pc' = "fail" /\ UNCHANGED <<callVars, owned>>
         \/ /\ Len(got) = num /\ pc' = "idle" /\ num' = 0 /\ array' = <<>>
            /\ owned' = owned \cup Range(got)
         \/ Len(got) # num /\ array' = got /\ UNCHANGED <<pc, num, owned>>
      /\ UNCHANGED <<bitmap, hintVars, scanVars>>
  BY DEF kalloc_frame_pop
<1> HIDE DEF frame, got
<1>5. Typed'
  <2>1. /\ pool' \in [Slots -> AnyFrame] /\ pool_top' \in Slots
        /\ pool_status' \in Statuses
        /\ pc' \in {"idle", "alloc", "fail"}
    BY <1>4, PopPool
  <2>2. num \in 1..MaxRequest /\ Len(array) < num
    BY <1>4 DEF PoolInv, Typed, Discipline
  <2>3. array' \in Seq(AnyFrame) /\ num' \in 0..MaxRequest /\ (num' > 0 => Len(array') < num')
    <3>1. CASE array' = array /\ num' = num
      BY <2>2, <3>1 DEF PoolInv, Typed
    <3>2. CASE num' = 0 /\ array' = <<>>
      BY <3>2, EmptySeq
    <3>3. CASE Len(got) # num /\ array' = got /\ num' = num
      BY <1>2, <2>2, <3>3
    <3> QED
      BY <1>4, <3>1, <3>2, <3>3 DEF callVars
  <2>4. owned' \subseteq AnyFrame
    BY <1>3, <1>4 DEF PoolInv, Typed
  <2> QED
    BY <1>4, <2>1, <2>3, <2>4 DEF PoolInv, Typed, hintVars, scanVars
<1>6. Discipline' /\ ScanOrder'
  BY <1>4, PopPool DEF PoolInv, Discipline, ScanOrder, callVars
<1>7. PoolDistinct'
  BY PopPool DEF PoolInv, PoolDistinct
<1> QED
  BY <1>5, <1>6, <1>7 DEF PoolInv

LEMMA FreedOfSubset ==
    ASSUME Typed, NEW n \in 0..Len(array)
    PROVE  FreedOf(n, array) \subseteq Frames \cap Range(array)
  BY LenProperties DEF Typed, FreedOf, Range

LEMMA UndoPoolInv ==
    ASSUME PoolInv, kalloc_frames_array_undo
    PROVE  PoolInv'
<1> DEFINE n == IF array = <<>> THEN 0 ELSE Len(array) - 1
<1>1. n \in 0..Len(array)
  BY LenProperties, EmptySeq DEF PoolInv, Typed
<1>2. FreedOf(n, array) \in SUBSET Frames
  BY <1>1, FreedOfSubset DEF PoolInv
<1>3. kfree_all(FreedOf(n, array))
  BY DEF kalloc_frames_array_undo
<1>4. Typed'
  BY <1>2, <1>3, FreeAllType, EmptySeq DEF PoolInv, Typed,
     kalloc_frames_array_undo, poolVars, scanVars
<1>5. Discipline' /\ ScanOrder' /\ PoolDistinct'
  BY DEF PoolInv, Discipline, ScanOrder, PoolDistinct, LiveSlots,
     kalloc_frames_array_undo, poolVars, scanVars
<1> QED
  BY <1>4, <1>5 DEF PoolInv

LEMMA FreePoolInv ==
    ASSUME PoolInv, NEW f \in owned, kfree_frame(f)
    PROVE  PoolInv'
<1>1. {f} \cap Frames \in SUBSET Frames /\ kfree_all({f} \cap Frames)
  BY DEF kfree_frame
<1>2. Typed'
  BY <1>1, FreeAllType DEF PoolInv, Typed, kfree_frame, poolVars, scanVars,
     callVars
<1>3. Discipline' /\ ScanOrder' /\ PoolDistinct'
  BY DEF PoolInv, Discipline, ScanOrder, PoolDistinct, LiveSlots,
     kfree_frame, poolVars, scanVars, callVars
<1> QED
  BY <1>2, <1>3 DEF PoolInv

LEMMA FlushPoolInv ==
    ASSUME PoolInv, flush_frame_prealloc_pool
    PROVE  PoolInv'
<1>1. Range(pool) \cap Frames \in SUBSET Frames /\ kfree_all(Range(pool) \cap Frames)
  BY DEF flush_frame_prealloc_pool
<1>2. Typed'
  BY <1>1, FreeAllType DEF PoolInv, Typed, flush_frame_prealloc_pool,
     scanVars, callVars, Slots, Statuses
<1>3. Discipline' /\ ScanOrder' /\ PoolDistinct'
  BY DEF PoolInv, Discipline, ScanOrder, PoolDistinct, LiveSlots,
     flush_frame_prealloc_pool, scanVars, callVars
<1> QED
  BY <1>2, <1>3 DEF PoolInv

LEMMA LockPoolInv ==
    ASSUME PoolInv, NEW f \in Frames, klock_frame(f)
    PROVE  PoolInv'
  BY DEF PoolInv, Typed, Discipline, ScanOrder, PoolDistinct, LiveSlots,
     klock_frame, poolVars, hintVars, scanVars, callVars

LEMMA PoolInvStep == PoolInv /\ [Next]_vars => PoolInv'
<1> SUFFICES ASSUME PoolInv, [Next]_vars PROVE PoolInv'
  OBVIOUS
<1>1. CASE UNCHANGED vars
  BY <1>1 DEF PoolInv, Typed, Discipline, ScanOrder, PoolDistinct,
     LiveSlots, vars, poolVars, hintVars, scanVars, callVars
<1>2. CASE kalloc_pool
  BY <1>2, SkipPoolInv, TakePoolInv, EndPoolInv DEF kalloc_pool
<1>3. CASE \E n \in 1..MaxRequest : kalloc_frames_array(n)
  BY <1>3, RequestPoolInv
<1>4. CASE kalloc_frame_refill
  BY <1>4, RefillPoolInv
<1>5. CASE kalloc_frame_pop
  BY <1>5, PopPoolInv
<1>6. CASE kalloc_frames_array_undo
  BY <1>6, UndoPoolInv
<1>7. CASE \E f \in owned : kfree_frame(f)
  BY <1>7, FreePoolInv
<1>8. CASE flush_frame_prealloc_pool
  BY <1>8, FlushPoolInv
<1>9. CASE \E f \in Frames : klock_frame(f)
  BY <1>9, LockPoolInv
<1> QED
  BY <1>1, <1>2, <1>3, <1>4, <1>5, <1>6, <1>7, <1>8, <1>9 DEF Next,
     Operations, CallSteps, Unused

(***************************************************************************)
(* Whatever its callers do, the operations no caller uses included, the    *)
(* allocator keeps its variables in range and never holds the same frame   *)
(* twice in the pool.                                                      *)
(***************************************************************************)
THEOREM PoolSafe == Spec => [](TypeOK /\ PoolDistinct)
<1> DEFINE IInv == PoolInv /\ regular \in BOOLEAN
<1>1. Init => IInv
  BY PoolInvInit DEF Init
<1>2. IInv /\ [Next]_vars => IInv'
  <2>1. regular \in BOOLEAN /\ [Next]_vars => regular' \in BOOLEAN
    BY DEF Next, vars
  <2> QED
    BY <2>1, PoolInvStep
<1>3. IInv => TypeOK /\ PoolDistinct
  BY DEF PoolInv, TypeOK
<1> QED
  BY <1>1, <1>2, <1>3, PTL DEF Spec

-----------------------------------------------------------------------------
(***************************************************************************)
(* One holder per frame, as long as last_index is the first frame of a byte*)
(***************************************************************************)
LEMMA UsableFrames == Usable \subseteq Frames /\ Null \notin Usable
  BY DEF Usable, Frames, Null

LEMMA HolderInvInit == ASSUME Init PROVE HolderInv
<1>1. PoolInv
  BY PoolInvInit
<1>2. 0 % W = 0
  BY Multiple, SMT
<1>3. Aligned
  BY <1>2 DEF Init, Aligned, HintAligned
<1>4. LiveFrames = {} /\ Range(array) = {}
  BY DEF Init, LiveFrames, LiveSlots, Range
<1>5. AllUsable
  BY <1>4 DEF Init, AllUsable, Usable
<1>6. OneHolder
  <2>1. Len(array) = 0
    BY EmptySeq DEF Init
  <2>2. \A k, l \in 1..Len(array) : array[k] = array[l] => k = l
    BY <2>1
  <2>3. bitmap \cap owned = {}
    BY DEF Init
  <2> QED
    BY <1>1, <1>4, <2>2, <2>3, Zenon DEF OneHolder, PoolInv
<1> QED
  BY <1>1, <1>3, <1>5, <1>6 DEF HolderInv

LEMMA AdvanceAligned ==
    ASSUME Typed, Aligned, Advance
    PROVE  i' % W = 0
  BY NextByte DEF Typed, Aligned, HintAligned, Advance

\* At an aligned index the bit the scan tests is that of the frame it takes.
LEMMA ScannedBitIsFrame ==
    ASSUME Typed, Aligned
    PROVE  ScannedBit = i + j
<1>1. W * ByteOf(i) = i
  BY NextByte DEF Typed, Aligned, HintAligned
<1> QED
  BY <1>1 DEF ScannedBit

\* A take moves the frame from the bitmap to the pool.
LEMMA TakeMoves ==
    ASSUME HolderInv, kalloc_pool_take
    PROVE  /\ i + j \in bitmap /\ bitmap' = bitmap \ {i + j} /\ array' = array /\ owned' = owned
           /\ LiveFrames' = LiveFrames \cup {i + j}
<1>0. PoolInv /\ Typed /\ Aligned
  BY DEF HolderInv, PoolInv
<1>1. ScannedBit = i + j
  BY <1>0, ScannedBitIsFrame
<1>2. i + j \in bitmap /\ bitmap' = bitmap \ {i + j} /\ array' = array /\ owned' = owned
  BY <1>1 DEF kalloc_pool_take, PoolFull, callVars
<1>3. LiveSlots = 0..pool_top-1 /\ LiveSlots' = 0..pool_top
  <2>1. CASE pool_top + 1 = P
    BY <1>0, <2>1, TakePool DEF LiveSlots, kalloc_pool_take, PoolFull,
       AfterScan, Slots
  <2>2. CASE pool_top + 1 # P
    BY <1>0, <2>2, TakePool DEF LiveSlots, kalloc_pool_take, PoolFull,
       Advance, Slots
  <2> QED
    BY <2>1, <2>2
<1>4. LiveFrames' = LiveFrames \cup {i + j}
  <2>1. /\ pool_top \in 0..pool_top
        /\ \A s \in 0..pool_top-1 : s \in 0..pool_top /\ pool'[s] = pool[s]
        /\ \A s \in 0..pool_top : s \in 0..pool_top-1 \/ s = pool_top
        /\ pool'[pool_top] = i + j
    BY <1>0, TakePool DEF Slots
  <2>2. \A x \in LiveFrames' : x \in LiveFrames \cup {i + j}
    BY <1>3, <2>1, Zenon DEF LiveFrames
  <2>3. i + j \in LiveFrames'
    BY <1>3, <2>1, Zenon DEF LiveFrames
  <2>4. \A x \in LiveFrames : x \in LiveFrames'
    BY <1>3, <2>1, Zenon DEF LiveFrames
  <2> QED
    BY <2>2, <2>3, <2>4
<1> QED
  BY <1>2, <1>4

LEMMA TakeHolder ==
    ASSUME HolderInv, kalloc_pool_take
    PROVE  HolderInv'
<1>0. PoolInv /\ Typed /\ Aligned /\ PoolInv'
  BY TakePoolInv DEF HolderInv, PoolInv
<1>1. /\ i + j \in bitmap /\ bitmap' = bitmap \ {i + j} /\ array' = array /\ owned' = owned
      /\ LiveFrames' = LiveFrames \cup {i + j}
  BY TakeMoves
<1>2. Aligned'
  <2>1. last_index' = i
    BY DEF kalloc_pool_take, PoolFull
  <2>2. i' = i \/ Advance
    BY DEF kalloc_pool_take, PoolFull, scanVars
  <2> QED
    BY <1>0, <2>1, <2>2, AdvanceAligned DEF Aligned, HintAligned
<1>3. AllUsable'
  BY <1>1 DEF HolderInv, AllUsable
<1>4. OneHolder'
  BY <1>0, <1>1 DEF HolderInv, OneHolder, PoolInv
<1> QED
  BY <1>0, <1>2, <1>3, <1>4 DEF HolderInv

\* A step that changes neither the holders nor the bitmap.
LEMMA SameHolders ==
    ASSUME HolderInv, PoolInv', Aligned',
           LiveFrames' = LiveFrames, UNCHANGED <<bitmap, array, owned>>
    PROVE  HolderInv'
  BY DEF HolderInv, AllUsable, OneHolder, PoolInv

LEMMA SkipMovesNone ==
    ASSUME HolderInv, kalloc_pool_skip
    PROVE  LiveFrames' = LiveFrames /\ UNCHANGED <<bitmap, array, owned>>
<1>1. PoolInv /\ Typed
  BY DEF HolderInv, PoolInv
<1>2. LiveFrames' = LiveFrames
  BY <1>1, AdvanceType DEF LiveFrames, LiveSlots, kalloc_pool_skip,
     Scanning, poolVars
<1> QED
  BY <1>2 DEF kalloc_pool_skip, callVars

LEMMA SkipHolder ==
    ASSUME HolderInv, kalloc_pool_skip
    PROVE  HolderInv'
<1>1. PoolInv /\ PoolInv' /\ Typed /\ Aligned
  BY SkipPoolInv DEF HolderInv, PoolInv
<1>2. Aligned'
  BY <1>1, AdvanceAligned DEF Aligned, HintAligned, kalloc_pool_skip
<1> QED
  BY <1>1, <1>2, SkipMovesNone, SameHolders

LEMMA EndMovesNone ==
    ASSUME HolderInv, kalloc_pool_end
    PROVE  LiveFrames' = LiveFrames /\ UNCHANGED <<bitmap, array, owned>>
<1>1. PoolInv /\ Typed
  BY DEF HolderInv, PoolInv
<1>2. LiveSlots' = LiveSlots
  BY <1>1 DEF Typed, LiveSlots, kalloc_pool_end, ScanFoundNone,
     ScanFoundSome, AfterScan, Slots
<1>3. LiveFrames' = LiveFrames
  BY <1>2 DEF LiveFrames, kalloc_pool_end, ScanFoundNone, ScanFoundSome
<1> QED
  BY <1>3 DEF kalloc_pool_end, ScanFoundNone, ScanFoundSome, callVars

LEMMA EndHolder ==
    ASSUME HolderInv, kalloc_pool_end
    PROVE  HolderInv'
<1>1. PoolInv /\ PoolInv' /\ Typed /\ Aligned
  BY EndPoolInv DEF HolderInv, PoolInv
<1>2. Aligned'
  BY <1>1, Multiple, SMT DEF Aligned, HintAligned, kalloc_pool_end,
     ScanFoundNone, ScanFoundSome, scanVars
<1> QED
  BY <1>1, <1>2, EndMovesNone, SameHolders

LEMMA RequestMovesNone ==
    ASSUME NEW n \in 1..MaxRequest, kalloc_frames_array(n)
    PROVE  LiveFrames' = LiveFrames /\ UNCHANGED <<bitmap, array, owned>>
  BY DEF LiveFrames, LiveSlots, kalloc_frames_array, poolVars

LEMMA RequestHolder ==
    ASSUME HolderInv, NEW n \in 1..MaxRequest, kalloc_frames_array(n)
    PROVE  HolderInv'
<1>1. PoolInv /\ PoolInv'
  BY RequestPoolInv DEF HolderInv
<1>2. Aligned'
  BY DEF HolderInv, Aligned, HintAligned, kalloc_frames_array, hintVars,
     scanVars
<1> QED
  BY <1>1, <1>2, RequestMovesNone, SameHolders

LEMMA RefillMovesNone ==
    ASSUME HolderInv, kalloc_frame_refill
    PROVE  LiveFrames' = LiveFrames /\ UNCHANGED <<bitmap, array, owned>>
<1>1. LiveFrames' = LiveFrames
  BY DEF HolderInv, PoolInv, Discipline, LiveFrames, LiveSlots,
     kalloc_frame_refill, poolVars
<1> QED
  BY <1>1 DEF kalloc_frame_refill, callVars

LEMMA RefillHolder ==
    ASSUME HolderInv, kalloc_frame_refill
    PROVE  HolderInv'
<1>1. PoolInv /\ PoolInv'
  BY RefillPoolInv DEF HolderInv
<1>2. Aligned'
  BY DEF HolderInv, Aligned, HintAligned, kalloc_frame_refill, hintVars
<1> QED
  BY <1>1, <1>2, RefillMovesNone, SameHolders

\* The frame a pop hands out was live and is so no longer.
LEMMA PopFrame ==
    ASSUME HolderInv, kalloc_frame_pop
    PROVE  /\ pool[NextSlot] \in LiveFrames
           /\ LiveFrames' = LiveFrames \ {pool[NextSlot]}
           /\ pool[NextSlot] \in Usable /\ pool[NextSlot] # Null
<1>1. PoolInv
  BY DEF HolderInv
<1>2. pool[NextSlot] \in LiveFrames
  BY <1>1, PopPool DEF LiveFrames
<1>3. LiveFrames' = {pool[s] : s \in LiveSlots \ {NextSlot}}
  BY <1>1, PopPool, Zenon DEF LiveFrames
<1>4. LiveFrames' = LiveFrames \ {pool[NextSlot]}
  BY <1>1, <1>3, PopPool DEF LiveFrames, PoolInv, PoolDistinct
<1> QED
  BY <1>2, <1>4, UsableFrames DEF HolderInv, AllUsable

\* What is in an array with one more frame.
OneMore(got, seq, x, S) ==
    /\ got \in Seq(S) /\ Len(got) = Len(seq) + 1 /\ Len(seq) \in Nat
    /\ \A k \in 1..Len(seq) : got[k] = seq[k]
    /\ got[Len(seq) + 1] = x
    /\ Range(got) = Range(seq) \cup {x}

LEMMA RangeOfAppended ==
    ASSUME NEW S, NEW seq \in Seq(S), NEW x \in S
    PROVE  \A got : got = Append(seq, x) => OneMore(got, seq, x, S)
<1> TAKE got
<1> HAVE got = Append(seq, x)
<1>1. Len(seq) \in Nat
  BY LenProperties
<1>2. /\ got \in Seq(S) /\ Len(got) = Len(seq) + 1
      /\ \A k \in 1..Len(seq) : got[k] = seq[k]
      /\ got[Len(seq) + 1] = x
  BY <1>1, AppendProperties
<1>3. Range(got) = {got[k] : k \in 1..Len(seq)+1}
  <2>1. Range(got) = {got[k] : k \in 1..Len(got)}
    <3>1. \A q \in Seq(S) : Range(q) = {q[k] : k \in 1..Len(q)}
      BY RangeEquality
    <3> QED
      BY <1>2, <3>1
  <2> QED
    BY <1>2, <2>1
<1>4. Range(seq) = {seq[k] : k \in 1..Len(seq)}
  BY RangeEquality
<1>5. 1..Len(seq)+1 = 1..Len(seq) \cup {Len(seq) + 1}
  BY <1>1
<1>6. {got[k] : k \in 1..Len(seq)} = {seq[k] : k \in 1..Len(seq)}
  BY <1>2
<1> QED
  BY <1>1, <1>2, <1>3, <1>4, <1>5, <1>6 DEF OneMore

LEMMA PopHolder ==
    ASSUME HolderInv, kalloc_frame_pop
    PROVE  HolderInv'
<1> DEFINE frame == pool[NextSlot]
           got   == Append(array, frame)
<1>0. PoolInv /\ PoolInv' /\ Typed /\ array \in Seq(AnyFrame)
  BY PopPoolInv DEF HolderInv, PoolInv, Typed
<1>1. /\ frame \in LiveFrames /\ LiveFrames' = LiveFrames \ {frame}
      /\ frame \in Usable /\ frame # Null
  BY PopFrame
<1>2. /\ \/ array' = <<>> /\ owned' = owned \cup Range(got)
         \/ array' = got /\ owned' = owned
      /\ bitmap' = bitmap
  BY <1>1 DEF kalloc_frame_pop
<1>3. /\ got \in Seq(AnyFrame) /\ Len(got) = Len(array) + 1 /\ Len(array) \in Nat
      /\ \A k \in 1..Len(array) : got[k] = array[k]
      /\ got[Len(array) + 1] = frame
      /\ Range(got) = Range(array) \cup {frame}
  <2>1. frame \in AnyFrame
    BY <1>0, PopPool DEF Typed
  <2>2. OneMore(got, array, frame, AnyFrame)
    BY <1>0, <2>1, RangeOfAppended, Zenon
  <2> QED
    BY <2>2 DEF OneMore
<1>4. Range(<<>>) = {}
  BY DEF Range
<1> HIDE DEF frame, got
<1>5. Aligned'
  BY DEF HolderInv, Aligned, HintAligned, kalloc_frame_pop, hintVars, scanVars
<1>6. AllUsable'
  BY <1>1, <1>2, <1>3, <1>4 DEF HolderInv, AllUsable
<1>7. OneHolder'
  <2>1. frame \notin Range(array) \cup owned \cup bitmap
    BY <1>1 DEF HolderInv, OneHolder
  <2>2. \A k, l \in 1..Len(array') : array'[k] = array'[l] => k = l
    <3>1. CASE array' = <<>>
      BY <3>1
    <3>2. CASE array' = got
      <4>1. \A k \in 1..Len(array) : got[k] # frame
        <5>1. Range(array) = {array[k] : k \in 1..Len(array)}
          BY <1>0, RangeEquality
        <5> QED
          BY <1>3, <2>1, <5>1
      <4>2. \A k, l \in 1..Len(array) : got[k] = got[l] => k = l
        BY <1>3 DEF HolderInv, OneHolder
      <4>3. \A k \in 1..Len(got) : k \in 1..Len(array) \/ k = Len(array) + 1
        BY <1>3
      <4>4. \A k, l \in 1..Len(got) : got[k] = got[l] => k = l
        BY <1>3, <4>1, <4>2, <4>3, Zenon
      <4> QED
        BY <3>2, <4>4
    <3> QED
      BY <1>2, <3>1, <3>2
  <2>3. /\ bitmap' \cap (LiveFrames' \cup Range(array') \cup owned') = {}
        /\ LiveFrames' \cap (Range(array') \cup owned') = {}
        /\ Range(array') \cap owned' = {}
    BY <1>1, <1>2, <1>3, <1>4, <2>1 DEF HolderInv, OneHolder
  <2> QED
    BY <1>0, <2>2, <2>3 DEF OneHolder, PoolInv
<1> QED
  BY <1>0, <1>5, <1>6, <1>7 DEF HolderInv

\* Frames go back to the bitmap from callers that held them.
LEMMA FreeHolder ==
    ASSUME HintAligned', HolderInv, PoolInv',
           NEW S \in SUBSET (owned \cup Range(array)), kfree_all(S),
           LiveFrames' = LiveFrames, i' = i,
           owned' \subseteq owned \ S, array' = <<>>
    PROVE  HolderInv'
<1>1. S \in SUBSET Usable
  BY DEF HolderInv, AllUsable
<1>2. Aligned'
  BY DEF HolderInv, Aligned, HintAligned
<1>3. bitmap' = bitmap \cup S
  BY DEF kfree_all
<1>4. Range(array') = {} /\ Len(array') = 0
  BY EmptySeq DEF Range
<1>5. AllUsable'
  BY <1>1, <1>3, <1>4 DEF HolderInv, AllUsable
<1>6. OneHolder'
  <2>1. S \cap LiveFrames = {}
    BY DEF HolderInv, OneHolder
  <2> QED
    BY <1>3, <1>4, <2>1 DEF HolderInv, OneHolder, PoolInv
<1> QED
  BY <1>2, <1>5, <1>6 DEF HolderInv

LEMMA UndoHolder ==
    ASSUME HintAligned', HolderInv, kalloc_frames_array_undo
    PROVE  HolderInv'
<1> DEFINE n == IF array = <<>> THEN 0 ELSE Len(array) - 1
           S == FreedOf(n, array)
<1>1. PoolInv /\ PoolInv' /\ Typed
  BY UndoPoolInv DEF HolderInv, PoolInv
<1>2. n \in 0..Len(array)
  BY <1>1, LenProperties, EmptySeq DEF Typed
<1>3. S \subseteq Range(array)
  BY <1>1, <1>2, FreedOfSubset
<1>4. kfree_all(S)
  BY DEF kalloc_frames_array_undo
<1>5. LiveFrames' = LiveFrames
  BY DEF kalloc_frames_array_undo, LiveFrames, LiveSlots, poolVars
<1>6. i' = i /\ owned' = owned /\ array' = <<>>
  BY DEF kalloc_frames_array_undo, scanVars
<1>7. owned \cap Range(array) = {}
  BY DEF HolderInv, OneHolder
<1> HIDE DEF n, S
<1> QED
  BY <1>1, <1>3, <1>4, <1>5, <1>6, <1>7, FreeHolder

LEMMA KfreeHolder ==
    ASSUME HintAligned', HolderInv, NEW f \in owned, kfree_frame(f)
    PROVE  HolderInv'
<1>1. PoolInv /\ PoolInv'
  BY FreePoolInv DEF HolderInv
<1>2. {f} \cap Frames = {f}
  BY UsableFrames DEF HolderInv, AllUsable
<1>3. kfree_all({f}) /\ owned' = owned \ {f} /\ i' = i
  BY <1>2 DEF kfree_frame, scanVars
<1>4. array' = <<>> /\ {f} \in SUBSET (owned \cup Range(array))
  BY <1>1 DEF kfree_frame, callVars, PoolInv, Discipline
<1>5. LiveFrames' = LiveFrames
  BY DEF kfree_frame, LiveFrames, LiveSlots, poolVars
<1> QED
  BY <1>1, <1>3, <1>4, <1>5, FreeHolder

LEMMA HolderInvStep == HolderInv /\ HintAligned' /\ [Operations]_vars => HolderInv'
<1> SUFFICES ASSUME HolderInv, HintAligned', [Operations]_vars PROVE HolderInv'
  OBVIOUS
<1>1. CASE UNCHANGED vars
  <2>1. PoolInv'
    BY <1>1, PoolInvStep DEF HolderInv
  <2>2. Aligned' /\ LiveFrames' = LiveFrames
    BY <1>1 DEF HolderInv, Aligned, HintAligned, LiveFrames, LiveSlots,
       vars, poolVars, hintVars, scanVars
  <2> QED
    BY <1>1, <2>1, <2>2, SameHolders DEF vars, callVars
<1>2. CASE kalloc_pool
  BY <1>2, SkipHolder, TakeHolder, EndHolder DEF kalloc_pool
<1>3. CASE \E n \in 1..MaxRequest : kalloc_frames_array(n)
  BY <1>3, RequestHolder
<1>4. CASE kalloc_frame_refill
  BY <1>4, RefillHolder
<1>5. CASE kalloc_frame_pop
  BY <1>5, PopHolder
<1>6. CASE kalloc_frames_array_undo
  BY <1>6, UndoHolder
<1>7. CASE \E f \in owned : kfree_frame(f)
  BY <1>7, KfreeHolder
<1> QED
  BY <1>1, <1>2, <1>3, <1>4, <1>5, <1>6, <1>7 DEF Operations, CallSteps

-----------------------------------------------------------------------------
\* One more frame scanned, and not in the bitmap.
LEMMA NotScanned ==
    ASSUME NEW S, S \subseteq Frames, NEW a \in Frames, NEW b \in Int, b \notin S,
           \A f \in S : f < a \/ f >= b
    PROVE  \A f \in S : f < a \/ f >= b + 1
  BY DEF Frames

LEMMA ScanInvStep ==
    ASSUME HintAligned', ScanInv, [Operations]_vars
    PROVE  ScanInv'
<1>0. HolderInv /\ PoolInv /\ Typed /\ Aligned /\ HolderInv' /\ i + j \in Int
  BY HolderInvStep DEF ScanInv, HolderInv, PoolInv, Typed
<1>1. CASE kalloc_pool_skip
  <2>1. ScannedBit = i + j
    BY <1>0, ScannedBitIsFrame
  <2>2. /\ i + j \notin bitmap /\ bitmap' = bitmap /\ pc = "scan" /\ pc' = "scan"
        /\ i' + j' = i + j + 1 /\ start' = start
    BY <1>0, <1>1, <2>1, AdvanceType DEF kalloc_pool_skip, Scanning
  <2> QED
    BY <1>0, <2>2, NotScanned DEF ScanInv, Skipless, Typed
<1>2. CASE kalloc_pool_take
  <2>1. ScannedBit = i + j
    BY <1>0, ScannedBitIsFrame
  <2>2. bitmap' = bitmap \ {i + j} /\ pc = "scan" /\ pc' # "fail"
    BY <1>0, <1>2, <2>1, AdvanceType DEF kalloc_pool_take, PoolFull,
       Scanning, AfterScan
  <2>3. CASE pool_top + 1 = P
    BY <1>0, <1>2, <2>2, <2>3 DEF ScanInv, Skipless, kalloc_pool_take,
       PoolFull, AfterScan
  <2>4. CASE pool_top + 1 # P
    <3>1. i' + j' = i + j + 1 /\ start' = start
      BY <1>0, <1>2, <2>4, AdvanceType DEF kalloc_pool_take, PoolFull, Scanning
    <3> QED
      BY <1>0, <2>2, <3>1, NotScanned DEF ScanInv, Skipless, Typed
  <2> QED
    BY <2>3, <2>4
<1>3. CASE kalloc_pool_end
  <2>1. \A f \in bitmap : f \in Int /\ f < N
    BY <1>0 DEF Typed, Frames
  <2>2. /\ pc = "scan" /\ i >= N /\ bitmap' = bitmap /\ start' = start
        /\ pc' # "scan"
    BY <1>3 DEF kalloc_pool_end, ScanFoundNone, ScanFoundSome, AfterScan,
       scanVars
  <2>3. \A f \in bitmap : f < start
    BY <1>0, <2>1, <2>2 DEF ScanInv, Skipless, Typed, Frames
  <2> QED
    BY <1>0, <2>2, <2>3 DEF ScanInv, Skipless
<1>4. CASE kalloc_frame_refill
  <2>1. /\ bitmap' = bitmap /\ pc' = "scan"
        /\ start' = last_index /\ i' = last_index /\ j' = 0
    BY <1>4 DEF kalloc_frame_refill
  <2>2. last_index \in Int /\ \A f \in bitmap : f \in Int
    BY <1>0 DEF Typed, Frames
  <2>3. \A f \in bitmap : f < last_index \/ f >= last_index + 0
    BY <2>2
  <2> QED
    BY <1>0, <2>1, <2>3 DEF ScanInv, Skipless
<1>5. CASE kalloc_frame_pop
  <2>1. pc' \notin {"scan", "fail"}
    BY <1>0, <1>5, PopFrame DEF kalloc_frame_pop
  <2> QED
    BY <1>0, <2>1 DEF ScanInv, Skipless
<1>6. CASE \/ \E n \in 1..MaxRequest : kalloc_frames_array(n)
           \/ kalloc_frames_array_undo
           \/ \E f \in owned : kfree_frame(f)
  <2>1. pc' \in {"idle", "alloc"}
    BY <1>6 DEF kalloc_frames_array, kalloc_frames_array_undo, kfree_frame
  <2> QED
    BY <1>0, <2>1 DEF ScanInv, Skipless
<1>7. CASE UNCHANGED vars
  BY <1>0, <1>7 DEF ScanInv, Skipless, vars, scanVars
<1> QED
  BY <1>1, <1>2, <1>3, <1>4, <1>5, <1>6, <1>7 DEF Operations, CallSteps,
     kalloc_pool

LEMMA RegularInvInit == Init => RegularInv
<1>1. Init => Skipless
  BY DEF Init, Skipless
<1> QED
  BY <1>1, PoolInvInit, HolderInvInit DEF RegularInv, ScanInv, Init

LEMMA RegularInvStep == RegularInv /\ [Next]_vars => RegularInv'
<1> SUFFICES ASSUME RegularInv, [Next]_vars PROVE RegularInv'
  OBVIOUS
<1>1. PoolInv' /\ regular' \in BOOLEAN
  BY PoolInvStep DEF RegularInv, Next, vars
<1>2. ASSUME regular' = TRUE PROVE ScanInv'
  <2>1. regular = TRUE /\ ScanInv
    BY <1>2 DEF RegularInv, Next, vars
  <2>2. HintAligned' /\ [Operations]_vars
    <3>1. CASE Operations /\ regular' = (regular /\ HintAligned')
      BY <1>2, <2>1, <3>1
    <3>2. CASE UNCHANGED vars
      BY <2>1, <3>2 DEF ScanInv, HolderInv, Aligned, HintAligned, vars,
         hintVars
    <3> QED
      BY <1>2, <3>1, <3>2 DEF Next
  <2> QED
    BY <2>1, <2>2, ScanInvStep
<1> QED
  BY <1>1, <1>2 DEF RegularInv

(***************************************************************************)
(* On any machine no frame has two holders as long as every search of the  *)
(* bitmap starts at the first frame of a byte.  The violation run shows    *)
(* what the other searches do.                                             *)
(***************************************************************************)
THEOREM NeverAllocatedTwice == Spec => []NoDoubleAllocation
<1>1. RegularInv => NoDoubleAllocation
  BY DEF RegularInv, ScanInv, HolderInv, NoDoubleAllocation
<1> QED
  BY <1>1, RegularInvInit, RegularInvStep, PTL DEF Spec

(***************************************************************************)
(* Nor does a search skip a free frame: a refill that finds nothing leaves *)
(* no free frame at or above the index it started from.                    *)
(***************************************************************************)
THEOREM ScanIsExhaustive == Spec => []ScanSkipsNone
<1>1. RegularInv => ScanSkipsNone
  BY DEF RegularInv, ScanInv, ScanSkipsNone
<1> QED
  BY <1>1, RegularInvInit, RegularInvStep, PTL DEF Spec

-----------------------------------------------------------------------------
LEMMA FromZeroTake ==
    ASSUME RewindInv, Scanning, Advance, start = 0,
           bitmap' = bitmap \ {ScannedBit}
    PROVE  i' % W = 0 /\ \A f \in bitmap' : f >= i' + j'
<1>1. i % W = 0 /\ i \in Nat /\ j \in Nat /\ i' + j' = i + j + 1 /\ j \in 0..W-1
  BY AdvanceType DEF RewindInv, FromZero, PoolInv, Typed, Scanning
<1>2. ScannedBit = i + j /\ (i + W) % W = 0
  BY <1>1, NextByte DEF ScannedBit
<1>3. i' % W = 0
  BY <1>1, <1>2 DEF Advance
<1>4. \A f \in bitmap : f \in Nat /\ f >= i + j
  BY DEF RewindInv, FromZero, PoolInv, Typed, Scanning, Frames
<1>5. \A f \in bitmap' : f >= i + j + 1
  BY <1>1, <1>2, <1>4
<1> QED
  BY <1>1, <1>3, <1>5

LEMMA RewindInvStep == RewindInv /\ [Next]_vars => RewindInv'
<1> SUFFICES ASSUME RewindInv, [Next]_vars, pc' = "scan", start' = 0
             PROVE  i' % W = 0 /\ \A f \in bitmap' : f >= i' + j'
  <2>1. RewindInv /\ [Next]_vars => PoolInv'
    BY PoolInvStep DEF RewindInv
  <2> QED
    BY <2>1 DEF RewindInv, FromZero
<1>1. CASE kalloc_pool_skip
  <2>1. Scanning /\ Advance /\ start = 0 /\ bitmap' = bitmap \ {ScannedBit}
    BY <1>1 DEF kalloc_pool_skip, Advance
  <2> QED
    BY <2>1, FromZeroTake
<1>2. CASE kalloc_pool_take
  <2>1. pool_top + 1 # P
    BY <1>2 DEF kalloc_pool_take, PoolFull, AfterScan
  <2>2. Scanning /\ Advance /\ start = 0 /\ bitmap' = bitmap \ {ScannedBit}
    BY <1>2, <2>1 DEF kalloc_pool_take, PoolFull, Advance
  <2> QED
    BY <2>2, FromZeroTake
<1>3. CASE kalloc_frame_refill
  <2>1. i' = 0 /\ j' = 0
    BY <1>3 DEF kalloc_frame_refill
  <2>2. 0 % W = 0
    BY Multiple, SMT
  <2>3. \A f \in bitmap' : f >= 0 + 0
    BY <1>3 DEF kalloc_frame_refill, RewindInv, PoolInv, Typed, Frames
  <2> QED
    BY <2>1, <2>2, <2>3
<1>4. CASE UNCHANGED vars
  BY <1>4 DEF vars, scanVars, RewindInv, FromZero
<1>5. CASE \/ kalloc_pool_end
           \/ \E n \in 1..MaxRequest : kalloc_frames_array(n)
           \/ kalloc_frame_pop
           \/ kalloc_frames_array_undo
  BY <1>5 DEF kalloc_pool_end, ScanFoundNone, ScanFoundSome, AfterScan,
     kalloc_frames_array, kalloc_frame_pop, kalloc_frames_array_undo
<1>6. CASE \/ \E f \in owned : kfree_frame(f)
           \/ flush_frame_prealloc_pool
           \/ \E f \in Frames : klock_frame(f)
  BY <1>6, Zenon DEF kfree_frame, flush_frame_prealloc_pool, klock_frame
<1> QED
  BY <1>1, <1>2, <1>3, <1>4, <1>5, <1>6 DEF Next, Operations, CallSteps,
     Unused, kalloc_pool

(***************************************************************************)
(* Whatever index the searches start from, a failed request rewinds        *)
(* last_index to frame 0, and a search from frame 0 that fails leaves no   *)
(* free frame.                                                             *)
(***************************************************************************)
THEOREM RewindAfterFailure == Spec => FailureRewinds
<1>1. Init => RewindInv
  <2>1. 0 % W = 0
    BY Multiple, SMT
  <2>2. Init => FromZero
    <3>1. Init => \A f \in bitmap : f >= 0 + 0
      BY DEF Init
    <3> QED
      BY <2>1, <3>1 DEF Init, FromZero
  <2> QED
    BY <2>2, PoolInvInit DEF RewindInv
<1>2. RewindInv /\ [Next]_vars => RewindInv'
  BY RewindInvStep
<1>3. RewindInv /\ [Next]_vars
      => [pc = "scan" /\ pc' = "fail" =>
            last_index' = 0 /\ (start = 0 => bitmap' = {})]_vars
  <2> SUFFICES ASSUME RewindInv, Next, pc = "scan", pc' = "fail"
               PROVE  last_index' = 0 /\ (start = 0 => bitmap' = {})
    OBVIOUS
  <2>1. kalloc_pool_end
    BY DEF Next, Operations, CallSteps, Unused, flush_frame_prealloc_pool,
       klock_frame, kalloc_pool, kalloc_pool_skip, kalloc_pool_take, PoolFull,
       Advance, AfterScan, kalloc_frames_array, kalloc_frame_refill,
       kalloc_frame_pop, kalloc_frames_array_undo, kfree_frame
  <2>2. last_index' = 0 /\ bitmap' = bitmap /\ i >= N
    BY <2>1 DEF kalloc_pool_end, ScanFoundNone, ScanFoundSome, AfterScan
  <2>3. start = 0 => bitmap = {}
    BY <2>2 DEF RewindInv, FromZero, PoolInv, Typed, Frames
  <2> QED
    BY <2>2, <2>3
<1> QED
  BY <1>1, <1>2, <1>3, PTL DEF Spec, FailureRewinds

-----------------------------------------------------------------------------
(***************************************************************************)
(* Which frames are lost.                                                  *)
(***************************************************************************)
AllHeld == bitmap \cup LiveFrames \cup Range(array) \cup owned

LEMMA PopLosesNone ==
    ASSUME HolderInv, kalloc_frame_pop
    PROVE  AllHeld' = AllHeld
<1> DEFINE frame == pool[NextSlot]
           got   == Append(array, frame)
<1>1. PoolInv /\ array \in Seq(AnyFrame) /\ frame \in AnyFrame
  BY PopPool DEF HolderInv, PoolInv, Typed
<1>2. frame \in LiveFrames /\ LiveFrames' = LiveFrames \ {frame} /\ frame # Null
  BY PopFrame
<1>3. /\ \/ array' = <<>> /\ owned' = owned \cup Range(got)
         \/ array' = got /\ owned' = owned
      /\ bitmap' = bitmap
  BY <1>2 DEF kalloc_frame_pop
<1>4. Range(got) = Range(array) \cup {frame}
  <2>1. OneMore(got, array, frame, AnyFrame)
    BY <1>1, RangeOfAppended, Zenon
  <2> QED
    BY <2>1 DEF OneMore
<1>5. Range(<<>>) = {}
  BY DEF Range
<1> HIDE DEF frame, got
<1> QED
  BY <1>2, <1>3, <1>4, <1>5 DEF AllHeld

LEMMA FreeLosesNone ==
    ASSUME HolderInv, NEW f \in owned, kfree_frame(f)
    PROVE  AllHeld' = AllHeld
<1>1. {f} \cap Frames = {f}
  BY UsableFrames DEF HolderInv, AllUsable
<1>2. bitmap' = bitmap \cup {f} /\ owned' = owned \ {f} /\ array' = array
  BY <1>1 DEF kfree_frame, kfree_all, callVars
<1>3. LiveFrames' = LiveFrames
  BY DEF kfree_frame, LiveFrames, LiveSlots, poolVars
<1> QED
  BY <1>2, <1>3 DEF AllHeld

LEMMA UndoLosesTheLast ==
    ASSUME HolderInv, kalloc_frames_array_undo
    PROVE  /\ array = <<>> => AllHeld' = AllHeld
           /\ array # <<>> => AllHeld \ {array[Len(array)]} \subseteq AllHeld' /\ AllHeld' \subseteq AllHeld
<1>1. PoolInv /\ Typed /\ array \in Seq(AnyFrame)
  BY DEF HolderInv, PoolInv, Typed
<1>2. PICK n : n = IF array = <<>> THEN 0 ELSE Len(array) - 1
  OBVIOUS
<1>3. n \in 0..Len(array) /\ Len(array) \in Nat
  BY <1>1, <1>2, LenProperties, EmptySeq
<1>4. /\ bitmap' = bitmap \cup FreedOf(n, array) /\ array' = <<>> /\ owned' = owned
  BY <1>2 DEF kalloc_frames_array_undo, kfree_all
<1>5. LiveFrames' = LiveFrames
  BY DEF kalloc_frames_array_undo, LiveFrames, LiveSlots, poolVars
<1>6. Range(<<>>) = {}
  BY DEF Range
<1>7. FreedOf(n, array) \subseteq Range(array)
  BY <1>1, <1>3, FreedOfSubset
<1>8. Range(array) = {array[k] : k \in 1..Len(array)}
  BY <1>1, RangeEquality
<1>9. CASE array = <<>>
  BY <1>4, <1>5, <1>6, <1>7, <1>9 DEF AllHeld
<1>10. CASE array # <<>>
  <2>1. \A k \in 1..Len(array) : array[k] \in Frames
    BY <1>8, UsableFrames DEF HolderInv, AllUsable
  <2>2. \A k \in 1..n : \A l \in 1..k : array[l] \in Frames
    BY <1>3, <2>1
  <2>3. FreedOf(n, array) = {array[k] : k \in 1..n}
    BY <2>2 DEF FreedOf
  <2>4. \A k \in 1..Len(array) : k \in 1..n \/ k = Len(array)
    BY <1>2, <1>3, <1>10
  <2>5. Range(array) \ {array[Len(array)]} \subseteq FreedOf(n, array)
    BY <1>8, <2>3, <2>4
  <2> QED
    BY <1>4, <1>5, <1>6, <1>7, <1>10, <2>5 DEF AllHeld
<1> QED
  BY <1>9, <1>10

\* The steps that fail no array keep what is held.
LEMMA OthersLoseNone ==
    ASSUME HolderInv, Operations, ~ kalloc_frames_array_undo
    PROVE  AllHeld' = AllHeld
<1>1. CASE kalloc_pool_take
  BY <1>1, TakeMoves DEF AllHeld
<1>2. CASE \/ kalloc_pool_skip \/ kalloc_pool_end \/ kalloc_frame_refill
           \/ \E n \in 1..MaxRequest : kalloc_frames_array(n)
  BY <1>2, SkipMovesNone, EndMovesNone, RefillMovesNone, RequestMovesNone DEF AllHeld
<1> QED
  BY <1>1, <1>2, PopLosesNone, FreeLosesNone DEF Operations, CallSteps, kalloc_pool

(***************************************************************************)
(* On any machine, while the searches start at the first frame of a byte,  *)
(* the frames given to the allocator stay accounted for but for the last   *)
(* one of each array that failed: every other step moves frames between    *)
(* the bitmap, the pool, the array and the callers.                        *)
(***************************************************************************)
THEOREM FramesLostByFailuresOnly == Spec => OnlyFailedArraysLose
<1>1. RegularInv /\ [Next]_vars
      => [regular' /\ Unaccounted' # Unaccounted =>
            /\ pc = "fail"
            /\ array # <<>>
            /\ Unaccounted' \ Unaccounted \subseteq {array[Len(array)]}]_vars
  <2> SUFFICES ASSUME RegularInv, Next, regular', Unaccounted' # Unaccounted
               PROVE  /\ pc = "fail"
                      /\ array # <<>>
                      /\ Unaccounted' \ Unaccounted \subseteq {array[Len(array)]}
    OBVIOUS
  <2>1. HolderInv /\ Operations
    BY DEF Next, RegularInv, ScanInv
  <2>2. AllHeld' # AllHeld
    BY DEF Unaccounted, AllHeld
  <2>3. kalloc_frames_array_undo
    BY <2>1, <2>2, OthersLoseNone
  <2>4. array # <<>> /\ AllHeld \ {array[Len(array)]} \subseteq AllHeld'
    BY <2>1, <2>2, <2>3, UndoLosesTheLast
  <2>5. pc = "fail"
    BY <2>3 DEF kalloc_frames_array_undo
  <2> QED
    BY <2>4, <2>5 DEF Unaccounted, AllHeld
<1> QED
  BY <1>1, RegularInvInit, RegularInvStep, PTL DEF Spec, OnlyFailedArraysLose
=============================================================================
