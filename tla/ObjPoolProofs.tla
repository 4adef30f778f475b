--------------------------- MODULE ObjPoolProofs ---------------------------
(***************************************************************************)
(* Theorems about the object pools: no index leaves the memory of the      *)
(* pool, whatever its client calls; a stack and a queue are bounded pools  *)
(* for a client that gets no more than it has put; and packing moves the   *)
(* objects together without reordering them.                               *)
(***************************************************************************)
EXTENDS ObjPool, NaturalsInduction, WellFoundedInduction, TLAPS

USE PoolAssumption

\* A client that uses a stack or a queue as such leaves it so.
ProperInv ==
    proper =>
        /\ pc = "idle" /\ type = created /\ type # "manual"
        /\ bottom_index <= top_index
        /\ type = "stack" => bottom_index = 0
        /\ \A k \in bottom_index + 1 .. top_index : mem[k] \in Object

\* The slots that obj_pool_pack has passed hold objects.
PackedInv ==
    pc = "pack" => \A k \in 1 .. pi - 1 : mem[k] # None

ObjPoolInv == TypeOK /\ ProperInv /\ PackedInv

-----------------------------------------------------------------------------
(* Helpers.                                                                *)

LEMMA MinOfNats ==
    ASSUME NEW S \in SUBSET Nat, S # {}
    PROVE  Min(S) \in S /\ \A x \in S : Min(S) <= x
<1>1. IsWellFoundedOn(OpToRel(<, Nat), Nat)
  BY NatLessThanWellFounded
<1>2. PICK x \in S : \A y \in S : ~ <<y, x>> \in OpToRel(<, Nat)
  BY <1>1, WFMin, Zenon
<1>3. \A y \in S : ~ (y < x)
  BY <1>2 DEF OpToRel
<1>4. \A y \in S : x <= y
  BY <1>3
<1> QED
  BY <1>4, Zenon DEF Min

\* The object that pack_move moves is the first one behind the loop variable.
LEMMA NextObjectIsTheFirst ==
    ASSUME TypeOK, Later # {}
    PROVE  /\ NextObject \in Slots /\ NextObject > pi /\ mem[NextObject] # None
           /\ \A k \in Slots : pi < k /\ k < NextObject => mem[k] = None
<1>1. Later \in SUBSET Nat
  BY DEF Later, Slots
<1>2. NextObject \in Later /\ \A k \in Later : NextObject <= k
  BY <1>1, MinOfNats DEF NextObject
<1>3. ASSUME NEW k \in Slots, pi < k, k < NextObject
      PROVE  mem[k] = None
  <2>1. k \in Later => NextObject <= k
    BY <1>2
  <2>2. NextObject \in Nat /\ k \in Nat
    BY <1>1, <1>2 DEF Slots
  <2>3. k \notin Later
    BY <1>3, <2>1, <2>2
  <2> QED
    BY <1>3, <2>3 DEF Later
<1> QED
  BY <1>2, <1>3 DEF Later

LEMMA IndexRanges ==
    ASSUME TypeOK
    PROVE  /\ Size \in Nat \ {0} /\ top_index \in 0 .. Size /\ bottom_index \in 0 .. Size
           /\ pi \in 1 .. Size /\ mem \in [1 .. Size -> Object \cup {None}]
  BY DEF TypeOK, Slots

-----------------------------------------------------------------------------
(* The types.                                                              *)

LEMMA StartPackKeepsTypes ==
    ASSUME TypeOK, NEW t \in Types, StartPack(t)
    PROVE  /\ mem' \in [Slots -> Object \cup {None}]
           /\ top_index' \in 0 .. Size /\ bottom_index' \in 0 .. Size
           /\ pc' \in {"idle", "pack"} /\ pi' \in Slots
<1>1. CASE t = "stack"
  BY <1>1 DEF StartPack, TypeOK, indices
<1>2. CASE t # "stack"
  <2>1. mem' \in [Slots -> Object \cup {None}]
    BY <1>2 DEF StartPack, TypeOK, Cleared
  <2> QED
    BY <1>2, <2>1 DEF StartPack, TypeOK, Slots
<1> QED
  BY <1>1, <1>2

LEMMA TypeOKStep ==
    ASSUME TypeOK, [Next]_vars
    PROVE  TypeOK'
<1>1. /\ Size \in Nat \ {0} /\ top_index \in 0 .. Size /\ bottom_index \in 0 .. Size
      /\ pi \in 1 .. Size /\ mem \in [Slots -> Object \cup {None}]
  BY IndexRanges DEF TypeOK
<1>2. CASE UNCHANGED vars
  BY <1>2 DEF vars, indices, TypeOK
<1>3. CASE Next
  <2>1. created' \in Types /\ proper' \in BOOLEAN
    BY <1>3 DEF Next, TypeOK
  <2> DEFINE Rest == /\ type' \in Types
                     /\ mem' \in [Slots -> Object \cup {None}]
                     /\ top_index' \in 0 .. Size /\ bottom_index' \in 0 .. Size
                     /\ pc' \in {"idle", "pack"} /\ pi' \in Slots
  <2>2. ASSUME NEW x \in Object, put_at_top(x)
        PROVE  Rest
    <3>1. mem' \in [Slots -> Object \cup {None}]
      BY <1>1, <2>2 DEF put_at_top
    <3> QED
      BY <1>1, <2>2, <3>1 DEF put_at_top, TypeOK
  <2>3. ASSUME NEW x \in Object, put_after_shift(x)
        PROVE  Rest
    <3>1. ASSUME NEW k \in Slots
          PROVE  mem'[k] \in Object \cup {None}
      <4>1. k <= Size - bottom_index => bottom_index + k \in Slots
        BY <1>1 DEF Slots
      <4> QED
        BY <1>1, <2>3, <4>1 DEF put_after_shift, Shifted, Slots
    <3>2. mem' \in [Slots -> Object \cup {None}]
      BY <2>3, <3>1 DEF put_after_shift, Shifted
    <3> QED
      BY <1>1, <2>3, <3>2 DEF put_after_shift, TypeOK
  <2>4. ASSUME get_stack \/ get_queue
        PROVE  Rest
    BY <1>1, <2>4 DEF get_stack, get_queue, TypeOK
  <2>5. ASSUME obj_pool_flush
        PROVE  Rest
    BY <1>1, <2>5 DEF obj_pool_flush, TypeOK, Cleared
  <2>6. ASSUME Pack
        PROVE  Rest
    <3>1. CASE pack_skip
      BY <1>1, <3>1 DEF pack_skip, TypeOK, indices, Slots
    <3>2. CASE pack_move
      <4>1. NextObject \in Slots
        BY <3>2, NextObjectIsTheFirst DEF pack_move
      <4> QED
        BY <1>1, <3>2, <4>1 DEF pack_move, TypeOK, Slots
    <3>3. CASE pack_end
      BY <1>1, <3>3 DEF pack_end, TypeOK, indices, Slots
    <3> QED
      BY <2>6, <3>1, <3>2, <3>3 DEF Pack
  <2>7. ASSUME NEW x \in Object, NEW k \in Slots, put_manual(x, k)
        PROVE  Rest
    BY <1>1, <2>7 DEF put_manual, TypeOK, indices
  <2>8. ASSUME NEW k \in Slots, get_manual(k)
        PROVE  Rest
    BY <1>1, <2>8 DEF get_manual, TypeOK, indices, Cleared
  <2>9. ASSUME obj_pool_pack
        PROVE  Rest
    BY <2>9, StartPackKeepsTypes DEF obj_pool_pack, TypeOK
  <2>10. ASSUME NEW t \in Types, obj_pool_change_type(t)
         PROVE  Rest
    <3>1. CASE t = "manual"
      BY <1>1, <2>10, <3>1 DEF obj_pool_change_type, TypeOK
    <3>2. CASE t # "manual"
      BY <2>10, <3>2, StartPackKeepsTypes DEF obj_pool_change_type
    <3> QED
      BY <3>1, <3>2
  <2>11. Rest
    BY <1>3, <2>2, <2>3, <2>4, <2>5, <2>6, <2>7, <2>8, <2>9, <2>10
       DEF Next, ProperCall, OtherCall
  <2> QED
    BY <2>1, <2>11 DEF TypeOK
<1> QED
  BY <1>2, <1>3

-----------------------------------------------------------------------------
(* The objects within reach of a proper client.                            *)

Anything == Object \cup {None}

LEMMA Reach ==
    ASSUME NEW m \in [1 .. Size -> Anything], NEW lo \in 0 .. Size, NEW hi \in 0 .. Size, lo <= hi
    PROVE  /\ SubSeq(m, lo + 1, hi) = [k \in 1 .. hi - lo |-> m[lo + k]]
           /\ SubSeq(m, lo + 1, hi) \in Seq(Anything)
           /\ Len(SubSeq(m, lo + 1, hi)) = hi - lo
<1>1. m \in Seq(Anything) /\ Len(m) = Size
  OBVIOUS
<1>2. SubSeq(m, lo + 1, hi) = [k \in 1 .. hi - (lo + 1) + 1 |-> m[k + (lo + 1) - 1]]
  BY <1>1
<1>3. SubSeq(m, lo + 1, hi) = [k \in 1 .. hi - lo |-> m[lo + k]]
  BY <1>2
<1>4. \A k \in 1 .. hi - lo : m[lo + k] \in Anything
  OBVIOUS
<1>5. hi - lo \in Nat
  OBVIOUS
<1> QED
  BY <1>3, <1>4, <1>5

\* A sequence of objects is the appended one when it is one longer.
LEMMA SameSequence ==
    ASSUME NEW s \in Seq(Anything), NEW t \in Seq(Anything), Len(s) = Len(t),
           \A k \in 1 .. Len(s) : s[k] = t[k]
    PROVE  s = t
  OBVIOUS

\* The objects within reach, place by place.
LEMMA InReachFacts ==
    ASSUME TypeOK, bottom_index <= top_index
    PROVE  /\ InReach \in Seq(Anything) /\ Len(InReach) = top_index - bottom_index
           /\ InReach = [k \in 1 .. top_index - bottom_index |-> mem[bottom_index + k]]
  BY IndexRanges, Reach DEF InReach, Anything

LEMMA InReachFactsNext ==
    ASSUME TypeOK', bottom_index' <= top_index'
    PROVE  /\ InReach' \in Seq(Anything) /\ Len(InReach') = top_index' - bottom_index'
           /\ InReach' = [k \in 1 .. top_index' - bottom_index' |-> mem'[bottom_index' + k]]
<1>1. /\ top_index' \in 0 .. Size /\ bottom_index' \in 0 .. Size
      /\ mem' \in [1 .. Size -> Anything]
  BY DEF TypeOK, Slots, Anything
<1> QED
  BY <1>1, Reach DEF InReach

LEMMA PutAtTopAppends ==
    ASSUME TypeOK, TypeOK', ProperInv, proper, NEW x \in Object, put_at_top(x)
    PROVE  /\ Len(InReach) < Size /\ InReach' = Append(InReach, x)
           /\ bottom_index' <= top_index'
           /\ \A k \in bottom_index' + 1 .. top_index' : mem'[k] \in Object
<1>1. /\ Size \in Nat \ {0} /\ top_index \in 0 .. Size /\ bottom_index \in 0 .. Size
      /\ mem \in [1 .. Size -> Anything] /\ bottom_index <= top_index
      /\ top_index < Size /\ top_index' = top_index + 1 /\ bottom_index' = bottom_index
      /\ \A k \in bottom_index + 1 .. top_index : mem[k] \in Object
  BY IndexRanges DEF ProperInv, put_at_top, Anything
<1>2. mem'[top_index + 1] = x /\ \A k \in 1 .. top_index : mem'[k] = mem[k]
  BY <1>1 DEF put_at_top, Slots
<1>3. bottom_index' <= top_index'
  BY <1>1
<1>4. /\ InReach \in Seq(Anything) /\ Len(InReach) = top_index - bottom_index
      /\ \A k \in 1 .. top_index - bottom_index : InReach[k] = mem[bottom_index + k]
  BY <1>1, InReachFacts
<1>5. /\ InReach' \in Seq(Anything) /\ Len(InReach') = top_index + 1 - bottom_index
      /\ \A k \in 1 .. top_index + 1 - bottom_index : InReach'[k] = mem'[bottom_index + k]
  BY <1>1, <1>3, InReachFactsNext
<1>6. InReach' = Append(InReach, x)
  <2>1. x \in Anything
    BY DEF Anything
  <2>2. Append(InReach, x) \in Seq(Anything) /\ Len(Append(InReach, x)) = Len(InReach')
    BY <1>1, <1>4, <1>5, <2>1
  <2>3. ASSUME NEW k \in 1 .. Len(InReach')
        PROVE  InReach'[k] = Append(InReach, x)[k]
    <3>1. CASE k <= Len(InReach)
      <4>1. k \in 1 .. top_index - bottom_index /\ bottom_index + k \in 1 .. top_index
        BY <1>1, <1>4, <3>1
      <4>2. Append(InReach, x)[k] = InReach[k]
        BY <1>4, <3>1
      <4>3. InReach'[k] = mem'[bottom_index + k]
        BY <1>5
      <4> QED
        BY <1>2, <1>4, <4>1, <4>2, <4>3
    <3>2. CASE k = Len(InReach) + 1
      <4>1. bottom_index + k = top_index + 1
        BY <1>1, <1>4, <3>2
      <4>2. Append(InReach, x)[k] = x
        BY <1>4, <3>2
      <4> QED
        BY <1>2, <1>5, <4>1, <4>2
    <3> QED
      BY <1>1, <1>4, <1>5, <3>1, <3>2
  <2> QED
    BY <1>5, <2>2, <2>3, SameSequence
<1>7. \A k \in bottom_index' + 1 .. top_index' : mem'[k] \in Object
  BY <1>1, <1>2
<1> QED
  BY <1>1, <1>3, <1>4, <1>6, <1>7

LEMMA PutAfterShiftAppends ==
    ASSUME TypeOK, TypeOK', ProperInv, proper, NEW x \in Object, put_after_shift(x)
    PROVE  /\ Len(InReach) < Size /\ InReach' = Append(InReach, x)
           /\ bottom_index' <= top_index'
           /\ \A k \in bottom_index' + 1 .. top_index' : mem'[k] \in Object
<1> DEFINE n == Size - bottom_index
<1>1. /\ Size \in Nat \ {0} /\ top_index = Size /\ bottom_index \in 1 .. Size
      /\ mem \in [1 .. Size -> Anything]
      /\ top_index' = n + 1 /\ bottom_index' = 0
      /\ \A k \in bottom_index + 1 .. Size : mem[k] \in Object
  BY IndexRanges DEF ProperInv, put_after_shift, Anything
<1>2. mem'[n + 1] = x /\ \A k \in 1 .. n : mem'[k] = mem[bottom_index + k]
  <2>1. mem' = Shifted(n, x)
    BY <1>1 DEF put_after_shift
  <2>2. n + 1 \in Slots /\ \A k \in 1 .. n : k \in Slots /\ k <= n
    BY <1>1 DEF Slots
  <2>3. ~ (n + 1 <= n)
    BY <1>1
  <2> HIDE DEF n
  <2>4. mem'[n + 1] = x
    BY <2>1, <2>2, <2>3 DEF Shifted
  <2>5. ASSUME NEW k \in 1 .. n
        PROVE  mem'[k] = mem[bottom_index + k]
    <3>1. k # n + 1 /\ k \in Slots /\ k <= n
      BY <1>1, <2>2 DEF n
    <3> QED
      BY <2>1, <3>1 DEF Shifted
  <2> QED
    BY <2>4, <2>5
<1>3. n \in 0 .. Size - 1 /\ bottom_index' <= top_index'
  BY <1>1
<1>4. /\ InReach \in Seq(Anything) /\ Len(InReach) = n
      /\ \A k \in 1 .. n : InReach[k] = mem[bottom_index + k]
  BY <1>1, InReachFacts
<1>5. /\ InReach' \in Seq(Anything) /\ Len(InReach') = n + 1
      /\ \A k \in 1 .. n + 1 : InReach'[k] = mem'[k]
  <2>1. InReach' \in Seq(Anything) /\ Len(InReach') = n + 1
    BY <1>1, <1>3, InReachFactsNext
  <2>2. InReach' = [k \in 1 .. n + 1 |-> mem'[0 + k]]
    BY <1>1, <1>3, InReachFactsNext
  <2> QED
    BY <1>3, <2>1, <2>2
<1> HIDE DEF n
<1>6. InReach' = Append(InReach, x)
  <2>1. x \in Anything
    BY DEF Anything
  <2>2. Append(InReach, x) \in Seq(Anything) /\ Len(Append(InReach, x)) = Len(InReach')
    BY <1>3, <1>4, <1>5, <2>1
  <2>3. ASSUME NEW k \in 1 .. Len(InReach')
        PROVE  InReach'[k] = Append(InReach, x)[k]
    <3>1. CASE k <= Len(InReach)
      <4>1. Append(InReach, x)[k] = InReach[k] /\ k \in 1 .. n /\ k \in 1 .. n + 1
        BY <1>3, <1>4, <1>5, <3>1
      <4> QED
        BY <1>2, <1>4, <1>5, <4>1
    <3>2. CASE k = Len(InReach) + 1
      <4>1. Append(InReach, x)[k] = x /\ k = n + 1
        BY <1>4, <3>2
      <4> QED
        BY <1>2, <1>5, <4>1
    <3> QED
      BY <1>3, <1>4, <1>5, <3>1, <3>2
  <2> QED
    BY <1>5, <2>2, <2>3, SameSequence
<1>7. ASSUME NEW k \in bottom_index' + 1 .. top_index'
      PROVE  mem'[k] \in Object
  <2>1. k \in 1 .. n + 1
    BY <1>1, <1>3
  <2>2. k \in 1 .. n => bottom_index + k \in bottom_index + 1 .. Size
    BY <1>1 DEF n
  <2>3. k \in 1 .. n \/ k = n + 1
    BY <1>3, <2>1
  <2> QED
    BY <1>1, <1>2, <2>2, <2>3
<1> QED
  BY <1>3, <1>4, <1>6, <1>7

LEMMA GetTakes ==
    ASSUME TypeOK, TypeOK', ProperInv, proper, InReach # <<>>, get_stack \/ get_queue
    PROVE  /\ InReach' = IF type = "queue" THEN Tail(InReach)
                         ELSE SubSeq(InReach, 1, Len(InReach) - 1)
           /\ bottom_index' <= top_index' /\ (type = "stack" => bottom_index' = 0)
           /\ \A k \in bottom_index' + 1 .. top_index' : mem'[k] \in Object
<1>1. /\ Size \in Nat \ {0} /\ top_index \in 0 .. Size /\ bottom_index \in 0 .. Size
      /\ mem \in [1 .. Size -> Anything] /\ bottom_index <= top_index
      /\ type = "stack" => bottom_index = 0
      /\ mem' = mem
      /\ \A k \in bottom_index + 1 .. top_index : mem[k] \in Object
  BY IndexRanges DEF ProperInv, get_stack, get_queue, Anything
<1>2. /\ InReach \in Seq(Anything) /\ Len(InReach) = top_index - bottom_index
      /\ \A k \in 1 .. top_index - bottom_index : InReach[k] = mem[bottom_index + k]
  BY <1>1, InReachFacts
<1>3. Len(InReach) # 0
  BY <1>2
<1>4. bottom_index < top_index
  BY <1>1, <1>2, <1>3
<1>5. CASE type = "stack"
  <2>1. top_index' = top_index - 1 /\ bottom_index' = bottom_index /\ bottom_index = 0
    BY <1>1, <1>5 DEF get_stack, get_queue
  <2>2. bottom_index' <= top_index'
    BY <1>1, <1>4, <2>1
  <2>3. /\ InReach' \in Seq(Anything) /\ Len(InReach') = top_index - 1
        /\ \A k \in 1 .. top_index - 1 : InReach'[k] = mem[k]
    <3>1. /\ InReach' \in Seq(Anything) /\ Len(InReach') = top_index - 1 - 0
          /\ InReach' = [k \in 1 .. top_index - 1 - 0 |-> mem[0 + k]]
      BY <1>1, <2>1, <2>2, InReachFactsNext
    <3> QED
      BY <1>1, <1>4, <3>1
  <2>4. /\ SubSeq(InReach, 1, Len(InReach) - 1) \in Seq(Anything)
        /\ Len(SubSeq(InReach, 1, Len(InReach) - 1)) = top_index - 1
        /\ \A k \in 1 .. top_index - 1 : SubSeq(InReach, 1, Len(InReach) - 1)[k] = InReach[k]
    BY <1>1, <1>2, <1>4, <2>1
  <2>5. \A k \in 1 .. top_index - 1 : InReach[k] = mem[k]
    BY <1>1, <1>2, <2>1
  <2>6. InReach' = SubSeq(InReach, 1, Len(InReach) - 1)
    BY <2>3, <2>4, <2>5, SameSequence
  <2>7. \A k \in bottom_index' + 1 .. top_index' : mem'[k] \in Object
    BY <1>1, <2>1
  <2> QED
    BY <1>5, <2>1, <2>2, <2>6, <2>7
<1>6. CASE type # "stack"
  <2>1. top_index' = top_index /\ bottom_index' = bottom_index + 1 /\ type = "queue"
    BY <1>6 DEF get_stack, get_queue
  <2>2. bottom_index' <= top_index'
    BY <1>1, <1>4, <2>1
  <2>3. /\ InReach' \in Seq(Anything) /\ Len(InReach') = top_index - (bottom_index + 1)
        /\ \A k \in 1 .. top_index - (bottom_index + 1) : InReach'[k] = mem[bottom_index + 1 + k]
    BY <1>1, <2>1, <2>2, InReachFactsNext
  <2>4. /\ Tail(InReach) \in Seq(Anything)
        /\ Len(Tail(InReach)) = top_index - (bottom_index + 1)
        /\ \A k \in 1 .. top_index - (bottom_index + 1) : Tail(InReach)[k] = InReach[k + 1]
    BY <1>1, <1>2, <1>4
  <2>5. \A k \in 1 .. top_index - (bottom_index + 1) : InReach[k + 1] = mem[bottom_index + 1 + k]
    BY <1>1, <1>2
  <2>6. InReach' = Tail(InReach)
    BY <2>3, <2>4, <2>5, SameSequence
  <2>7. \A k \in bottom_index' + 1 .. top_index' : mem'[k] \in Object
    BY <1>1, <2>1
  <2> QED
    BY <1>6, <2>1, <2>2, <2>6, <2>7
<1> QED
  BY <1>5, <1>6

-----------------------------------------------------------------------------
(* ObjPoolInv is inductive.                                                *)

LEMMA ProperInvStep ==
    ASSUME TypeOK, TypeOK', ProperInv, [Next]_vars
    PROVE  ProperInv'
<1>1. CASE UNCHANGED vars
  BY <1>1 DEF ProperInv, vars, indices
<1>2. CASE proper' = FALSE
  BY <1>2, Zenon DEF ProperInv
<1>3. CASE Next /\ ~ (proper' = FALSE)
  <2>1. (ProperCall \/ Pack) /\ proper' = proper /\ created' = created
    BY <1>3 DEF Next
  <2>2. proper
    BY <1>3, <2>1 DEF TypeOK
  <2>3. /\ pc = "idle" /\ type = created /\ type # "manual"
    BY <2>2 DEF ProperInv
  <2>4. ProperCall
    BY <2>1, <2>3 DEF Pack, pack_skip, pack_move, pack_end
  <2>5. ASSUME /\ pc' = pc /\ type' = type
               /\ bottom_index' <= top_index' /\ (type = "stack" => bottom_index' = 0)
               /\ \A k \in bottom_index' + 1 .. top_index' : mem'[k] \in Object
        PROVE  ProperInv'
    BY <2>1, <2>3, <2>5 DEF ProperInv
  <2>6. ASSUME NEW x \in Object, put_at_top(x)
        PROVE  ProperInv'
    <3>1. pc' = pc /\ type' = type /\ (type = "stack" => bottom_index' = 0)
      BY <2>2, <2>6 DEF put_at_top, ProperInv
    <3> QED
      BY <2>2, <2>5, <2>6, <3>1, PutAtTopAppends
  <2>7. ASSUME NEW x \in Object, put_after_shift(x)
        PROVE  ProperInv'
    <3>1. pc' = pc /\ type' = type /\ (type = "stack" => bottom_index' = 0)
      BY <2>7 DEF put_after_shift
    <3> QED
      BY <2>2, <2>5, <2>7, <3>1, PutAfterShiftAppends
  <2>8. ASSUME InReach # <<>>, get_stack \/ get_queue
        PROVE  ProperInv'
    <3>1. pc' = pc /\ type' = type
      BY <2>8 DEF get_stack, get_queue
    <3> QED
      BY <2>2, <2>5, <2>8, <3>1, GetTakes
  <2>9. ASSUME obj_pool_flush
        PROVE  ProperInv'
    BY <2>5, <2>9 DEF obj_pool_flush
  <2> QED
    BY <2>4, <2>6, <2>7, <2>8, <2>9 DEF ProperCall
<1> QED
  BY <1>1, <1>2, <1>3

LEMMA StartPackPasses ==
    ASSUME NEW t, StartPack(t), pc = "idle"
    PROVE  pc' = "pack" => pi' = 1
  BY DEF StartPack

LEMMA PackedInvStep ==
    ASSUME TypeOK, PackedInv, [Next]_vars
    PROVE  PackedInv'
<1>1. CASE UNCHANGED vars
  BY <1>1 DEF PackedInv, vars
<1>2. CASE pc' = "pack" => pi' = 1
  <2>1. pc' = "pack" => \A k \in 1 .. pi' - 1 : mem'[k] # None
    BY <1>2
  <2> QED
    BY <2>1 DEF PackedInv
<1>3. CASE pack_skip
  <2>1. pi \in 1 .. Size
    BY IndexRanges
  <2> QED
    BY <1>3, <2>1 DEF pack_skip, PackedInv
<1>4. CASE pack_move
  <2>1. NextObject \in Slots /\ NextObject > pi /\ pi \in 1 .. Size /\ DOMAIN mem = Slots
    BY <1>4, NextObjectIsTheFirst, IndexRanges DEF pack_move, TypeOK
  <2>2. \A k \in 1 .. pi - 1 : k \in Slots /\ k # pi /\ k # NextObject
    BY <2>1 DEF Slots
  <2>3. \A k \in 1 .. pi - 1 : mem'[k] = mem[k]
    BY <1>4, <2>1, <2>2 DEF pack_move
  <2> QED
    BY <1>4, <2>3 DEF pack_move, PackedInv
<1>5. ASSUME Next, ~ pack_skip, ~ pack_move
      PROVE  pc' = "pack" => pi' = 1
  <2>1. ASSUME ProperCall
        PROVE  pc' = "idle"
    BY <2>1 DEF ProperCall, put_at_top, put_after_shift, get_stack, get_queue, obj_pool_flush
  <2>2. ASSUME pack_end
        PROVE  pc' = "idle"
    BY <2>2 DEF pack_end
  <2>3. ASSUME OtherCall
        PROVE  pc' = "pack" => pi' = 1
    <3>1. ASSUME NEW t \in Types, obj_pool_change_type(t)
          PROVE  pc' = "pack" => pi' = 1
      BY <3>1, StartPackPasses DEF obj_pool_change_type
    <3>2. ASSUME obj_pool_pack
          PROVE  pc' = "pack" => pi' = 1
      BY <3>2, StartPackPasses DEF obj_pool_pack
    <3>3. ASSUME \/ \E x \in Object, k \in Slots : put_manual(x, k)
                 \/ \E k \in Slots : get_manual(k)
                 \/ get_stack \/ get_queue
          PROVE  pc' = "idle"
      BY <3>3 DEF put_manual, get_manual, get_stack, get_queue
    <3> QED
      BY <2>3, <3>1, <3>2, <3>3 DEF OtherCall
  <2> QED
    BY <1>5, <2>1, <2>2, <2>3 DEF Next, Pack
<1> QED
  BY <1>1, <1>2, <1>3, <1>4, <1>5

LEMMA InitMeetsObjPoolInv == Init => ObjPoolInv
<1> SUFFICES ASSUME Init
             PROVE  ObjPoolInv
  OBVIOUS
<1>1. /\ Size \in Nat \ {0} /\ top_index = 0 /\ bottom_index = 0 /\ pc = "idle" /\ pi = 1
      /\ created = type /\ type \in Types /\ proper = (type # "manual")
  BY DEF Init
<1>2. TypeOK
  <2>1. mem \in [Slots -> Object \cup {None}] /\ pi \in Slots
    BY <1>1 DEF Init, Slots
  <2>2. proper \in BOOLEAN
    BY <1>1
  <2> QED
    BY <1>1, <2>1, <2>2 DEF TypeOK
<1>3. ProperInv
  <2>1. type # "manual" => ProperInv
    BY <1>1 DEF ProperInv
  <2>2. proper => type # "manual"
    BY <1>1, Zenon
  <2> QED
    BY <2>1, <2>2 DEF ProperInv
<1>4. PackedInv
  BY <1>1 DEF PackedInv
<1> QED
  BY <1>2, <1>3, <1>4 DEF ObjPoolInv

THEOREM SpecObjPoolInv == Spec => []ObjPoolInv
<1>1. ObjPoolInv /\ [Next]_vars => ObjPoolInv'
  <2> SUFFICES ASSUME ObjPoolInv, [Next]_vars
               PROVE  ObjPoolInv'
    OBVIOUS
  <2>1. TypeOK'
    BY TypeOKStep DEF ObjPoolInv
  <2>2. ProperInv'
    BY <2>1, ProperInvStep DEF ObjPoolInv
  <2>3. PackedInv'
    BY PackedInvStep DEF ObjPoolInv
  <2> QED
    BY <2>1, <2>2, <2>3 DEF ObjPoolInv
<1> QED
  BY <1>1, InitMeetsObjPoolInv, PTL DEF Spec

(***************************************************************************)
(* No index leaves the memory of the pool, whatever the client calls: a    *)
(* get of an empty pool and a change of type at any moment included.       *)
(***************************************************************************)
THEOREM IndicesStayInside == Spec => []TypeOK
<1>1. ObjPoolInv => TypeOK
  BY DEF ObjPoolInv
<1> QED
  BY <1>1, SpecObjPoolInv, PTL

-----------------------------------------------------------------------------
(* The refinement.                                                         *)

kind_ == IF created = "manual" THEN "stack" ELSE created
held_ == IF proper THEN InReach ELSE <<>>

LEMMA InitRefines == Init => Bounded!Init
<1> SUFFICES ASSUME Init
             PROVE  Bounded!Init
  OBVIOUS
<1>1. TypeOK /\ bottom_index <= top_index
  BY InitMeetsObjPoolInv, IndexRanges DEF ObjPoolInv, Init
<1>2. Len(InReach) = 0 /\ InReach \in Seq(Anything)
  BY <1>1, InReachFacts DEF Init
<1>3. InReach = <<>>
  BY <1>2
<1>4. kind_ \in {"stack", "queue"}
  BY DEF Init, kind_, Types
<1>5. held_ = <<>>
  BY <1>3 DEF held_
<1> QED
  BY <1>4, <1>5 DEF Bounded!Init, kind_, held_

LEMMA StepRefines ==
    ObjPoolInv /\ [Next]_vars => [Bounded!Next]_<<kind_, held_>>
<1> SUFFICES ASSUME ObjPoolInv, [Next]_vars
             PROVE  Bounded!Next \/ UNCHANGED <<kind_, held_>>
  OBVIOUS
<1>1. TypeOK /\ TypeOK' /\ ProperInv
  BY TypeOKStep DEF ObjPoolInv
<1>2. kind_' = kind_
  BY DEF kind_, Next, vars
<1>3. CASE UNCHANGED vars
  BY <1>2, <1>3 DEF held_, vars, indices, InReach
<1>4. CASE Next /\ ~ proper
  <2>1. ~ proper'
    BY <1>4 DEF Next
  <2>2. held_ = <<>> /\ held_' = <<>>
    BY <1>4, <2>1 DEF held_
  <2> QED
    BY <1>2, <2>2
<1>5. CASE Next /\ proper /\ ~ proper'
  <2>1. held_' = <<>>
    BY <1>5 DEF held_
  <2> QED
    BY <1>2, <2>1 DEF Bounded!Next, Bounded!Flush, kind_, held_
<1>6. CASE Next /\ proper /\ proper'
  <2>1. held_ = InReach /\ held_' = InReach'
    BY <1>6 DEF held_
  <2>2. ProperCall \/ Pack
    BY <1>6, Zenon DEF Next
  <2>3. /\ pc = "idle" /\ type = created /\ type # "manual"
    BY <1>1, <1>6 DEF ProperInv
  <2>4. ProperCall
    BY <2>2, <2>3 DEF Pack, pack_skip, pack_move, pack_end
  <2>5. kind_ = type
    BY <2>3 DEF kind_
  <2>6. ASSUME NEW x \in Object, Len(held_) < Size, held_' = Append(held_, x)
        PROVE  Bounded!Next
    <3>1. Bounded!Put(x)
      BY <2>6 DEF Bounded!Put, held_
    <3> QED
      BY <1>2, <3>1 DEF Bounded!Next, kind_
  <2>7. ASSUME NEW x \in Object, put_at_top(x)
        PROVE  Bounded!Next
    BY <1>1, <1>6, <2>1, <2>6, <2>7, PutAtTopAppends
  <2>8. ASSUME NEW x \in Object, put_after_shift(x)
        PROVE  Bounded!Next
    BY <1>1, <1>6, <2>1, <2>6, <2>8, PutAfterShiftAppends
  <2>9. ASSUME InReach # <<>>, get_stack \/ get_queue
        PROVE  Bounded!Next
    <3>1. InReach' = IF type = "queue" THEN Tail(InReach)
                     ELSE SubSeq(InReach, 1, Len(InReach) - 1)
      BY <1>1, <1>6, <2>9, GetTakes
    <3>2. held_ # <<>> /\ held_' = IF kind_ = "queue" THEN Tail(held_)
                                   ELSE SubSeq(held_, 1, Len(held_) - 1)
      BY <2>1, <2>5, <2>9, <3>1
    <3>3. Bounded!Get
      BY <3>2 DEF Bounded!Get, kind_, held_
    <3> QED
      BY <1>2, <3>3 DEF Bounded!Next, kind_
  <2>10. ASSUME obj_pool_flush
         PROVE  Bounded!Next
    <3>1. top_index' = 0 /\ bottom_index' = 0
      BY <2>10 DEF obj_pool_flush
    <3>2. Len(InReach') = 0 /\ InReach' \in Seq(Anything)
      BY <1>1, <3>1, InReachFactsNext
    <3>3. held_' = <<>>
      BY <2>1, <3>2
    <3> QED
      BY <1>2, <3>3 DEF Bounded!Next, Bounded!Flush, kind_, held_
  <2> QED
    BY <2>4, <2>7, <2>8, <2>9, <2>10 DEF ProperCall
<1> QED
  BY <1>3, <1>4, <1>5, <1>6

(***************************************************************************)
(* To a client that gets no more than it has put, a stack and a queue of   *)
(* the code are the bounded pools of PoolSpec, whatever the size and the   *)
(* objects: the queue's move to the start of its memory loses none.        *)
(***************************************************************************)
THEOREM PoolRefines == Spec => ImplementsPool
<1>1. Init => Bounded!Init
  BY InitRefines
<1>2. ObjPoolInv /\ [Next]_vars => [Bounded!Next]_<<kind_, held_>>
  BY StepRefines
<1> QED
  BY <1>1, <1>2, SpecObjPoolInv, PTL DEF Spec, ImplementsPool, Bounded!Spec, kind_, held_

-----------------------------------------------------------------------------
(* Packing.                                                                *)

Objects(m) == {k \in Slots : m[k] # None}

\* The objects stay the same and in the same order: f says where each goes.
\* When the packing ends they are at the start of the memory.
OrderKept ==
    pc = "pack" =>
        /\ \E f \in [Objects(mem) -> Objects(mem')] :
             /\ \A k \in Objects(mem') : \E j \in Objects(mem) : f[j] = k
             /\ \A j, k \in Objects(mem) : j < k => f[j] < f[k]
             /\ \A k \in Objects(mem) : mem'[f[k]] = mem[k]
        /\ pc' = "idle" => \A k \in Objects(mem) : 1 .. k \subseteq Objects(mem)

LEMMA MoveKeepsOrder ==
    ASSUME TypeOK, pack_move
    PROVE  OrderKept
<1> DEFINE f == [k \in Objects(mem) |-> IF k = NextObject THEN pi ELSE k]
<1>1. /\ NextObject \in Slots /\ NextObject > pi /\ mem[NextObject] # None
      /\ \A k \in Slots : pi < k /\ k < NextObject => mem[k] = None
      /\ pi \in Slots /\ pi \in Nat /\ mem[pi] = None /\ DOMAIN mem = Slots /\ Slots \subseteq Nat
  BY NextObjectIsTheFirst DEF pack_move, TypeOK, Slots
<1>2. /\ mem'[pi] = mem[NextObject] /\ mem'[NextObject] = None
      /\ \A k \in Slots \ {pi, NextObject} : mem'[k] = mem[k]
  BY <1>1 DEF pack_move
<1>3. Objects(mem') = (Objects(mem) \ {NextObject}) \cup {pi}
  BY <1>1, <1>2 DEF Objects
<1>4. f \in [Objects(mem) -> Objects(mem')]
  BY <1>3
<1>5. ASSUME NEW k \in Objects(mem')
      PROVE  \E j \in Objects(mem) : f[j] = k
  <2>1. CASE k = pi
    <3>1. NextObject \in Objects(mem) /\ f[NextObject] = pi
      BY <1>1 DEF Objects
    <3> QED
      BY <2>1, <3>1
  <2>2. CASE k # pi
    <3>1. k \in Objects(mem) /\ k # NextObject
      BY <1>3, <2>2
    <3>2. f[k] = k
      BY <3>1
    <3> QED
      BY <3>1, <3>2
  <2> QED
    BY <2>1, <2>2
<1>6. ASSUME NEW j \in Objects(mem), NEW k \in Objects(mem), j < k
      PROVE  f[j] < f[k]
  <2>1. /\ j \in Nat /\ k \in Nat /\ NextObject \in Nat
        /\ j # pi /\ k # pi
        /\ ~ (pi < j /\ j < NextObject) /\ ~ (pi < k /\ k < NextObject)
    BY <1>1 DEF Objects
  <2>2. /\ f[j] = IF j = NextObject THEN pi ELSE j
        /\ f[k] = IF k = NextObject THEN pi ELSE k
    OBVIOUS
  <2> HIDE DEF f
  <2> QED
    BY <1>1, <1>6, <2>1, <2>2
<1>7. ASSUME NEW k \in Objects(mem)
      PROVE  mem'[f[k]] = mem[k]
  <2>1. k \in Slots /\ k # pi
    BY <1>1 DEF Objects
  <2>2. f[k] = IF k = NextObject THEN pi ELSE k
    OBVIOUS
  <2> QED
    BY <1>2, <2>1, <2>2
<1> HIDE DEF f
<1>8. pc' # "idle"
  BY DEF pack_move
<1> QED
  BY <1>4, <1>5, <1>6, <1>7, <1>8 DEF OrderKept

LEMMA OtherPackKeepsOrder ==
    ASSUME TypeOK, PackedInv, pack_skip \/ pack_end
    PROVE  OrderKept
<1> DEFINE f == [k \in Objects(mem) |-> k]
<1>1. mem' = mem /\ pc = "pack"
  BY DEF pack_skip, pack_end
<1>2. /\ f \in [Objects(mem) -> Objects(mem')]
      /\ \A k \in Objects(mem) : f[k] = k
  BY <1>1
<1>3. ASSUME pc' = "idle", NEW k \in Objects(mem), NEW j \in 1 .. k
      PROVE  j \in Objects(mem)
  <2>1. pack_end
    BY <1>1, <1>3 DEF pack_skip
  <2>2. pi \in 1 .. Size /\ Size \in Nat \ {0} /\ k \in 1 .. Size /\ mem[k] # None
    BY IndexRanges DEF Objects, Slots
  <2>3. \A x \in 1 .. pi - 1 : mem[x] # None
    BY <1>1 DEF PackedInv
  <2>4. CASE pi >= Size
    <3>1. j \in 1 .. pi - 1 \/ j = k
      BY <2>2, <2>4
    <3> QED
      BY <2>2, <2>3, <3>1 DEF Objects, Slots
  <2>5. CASE mem[pi] = None /\ Later = {}
    <3>1. ~ (k > pi) /\ k # pi
      BY <2>2, <2>5 DEF Later, Slots
    <3>2. j \in 1 .. pi - 1 /\ j \in Slots
      BY <2>2, <3>1 DEF Slots
    <3> QED
      BY <2>3, <3>2 DEF Objects
  <2> QED
    BY <2>1, <2>4, <2>5 DEF pack_end
<1> HIDE DEF f
<1>4. \E g \in [Objects(mem) -> Objects(mem')] :
        /\ \A k \in Objects(mem') : \E j \in Objects(mem) : g[j] = k
        /\ \A j, k \in Objects(mem) : j < k => g[j] < g[k]
        /\ \A k \in Objects(mem) : mem'[g[k]] = mem[k]
  <2>1. \A k \in Objects(mem') : \E j \in Objects(mem) : f[j] = k
    BY <1>1, <1>2
  <2>2. \A j, k \in Objects(mem) : j < k => f[j] < f[k]
    BY <1>2
  <2>3. \A k \in Objects(mem) : mem'[f[k]] = mem[k]
    BY <1>1, <1>2
  <2> QED
    BY <1>2, <2>1, <2>2, <2>3
<1> QED
  BY <1>3, <1>4 DEF OrderKept

(***************************************************************************)
(* Packing keeps every object and their order, one step after the other,   *)
(* and when it ends the objects are at the start of the memory: the safety *)
(* part of PackKeepsOrder, for a pool of any size.                         *)
(***************************************************************************)
THEOREM PackingKeepsOrder == Spec => [][OrderKept]_vars
<1>1. ObjPoolInv /\ [Next]_vars => [OrderKept]_vars
  <2> SUFFICES ASSUME ObjPoolInv, Next, pc = "pack"
               PROVE  OrderKept
    BY DEF OrderKept
  <2>1. Pack
    BY DEF Next, ProperCall, OtherCall, put_at_top, put_after_shift, get_stack, get_queue,
           obj_pool_flush, put_manual, get_manual, obj_pool_pack, obj_pool_change_type
  <2> QED
    BY <2>1, MoveKeepsOrder, OtherPackKeepsOrder DEF Pack, ObjPoolInv
<1> QED
  BY <1>1, SpecObjPoolInv, PTL DEF Spec
=============================================================================
