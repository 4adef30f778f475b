---------------------------- MODULE MemMapProofs ----------------------------
(***************************************************************************)
(* Proofs about MemMap, for every boot map, size of pool, layout of page   *)
(* tables and sequence of calls: the descriptors cover each page once, and *)
(* an area keeps its frames to itself until it gives them back.            *)
(***************************************************************************)
EXTENDS MemMap, FiniteSetTheorems, NaturalsInduction, WellFoundedInduction, TLAPS

-----------------------------------------------------------------------------
(* The invariant.                                                          *)

\* What holds of the call in progress in every behaviour.
CallForm ==
    \/ call = Idle
    \/ /\ call.op = "alloc"
       /\ call = [op |-> "alloc", base |-> call.base, n |-> call.n, ind |-> call.ind,
                  frames |-> call.frames, m |-> call.m, new |-> call.new]
       /\ call.n \in 1 .. MaxRequest /\ call.m \in 0 .. call.n
       /\ call.frames \in [1 .. call.n -> Frames]
    \/ /\ call.op = "order" /\ call.n > 0
       /\ call = [op |-> "order", i |-> call.i, base |-> call.base, n |-> call.n]
       /\ call.i \in Nat /\ call.n \in 1 .. MaxRequest
    \/ /\ call.op = "order" /\ call.n = 0
       /\ call = [op |-> "order", i |-> call.i, base |-> call.base, n |-> 0,
                  frame |-> call.frame]
       /\ call.i \in Nat /\ call.frame \in Frames
    \/ /\ call.op = "compress"
       /\ call = [op |-> "compress", i |-> call.i, size |-> call.size]
       /\ call.i \in Nat

CallInv ==
    /\ free \subseteq Frames /\ tab \subseteq Frames /\ pt \in [Pages -> Frames]
    /\ regular \in BOOLEAN
    /\ CallForm

Apart(d, e) == d.va + d.pages <= e.va \/ e.va + e.pages <= d.va

\* A map m whose first l slots are in use.
Table(m, l) ==
    /\ m \in [Slots -> Descr] /\ l \in 0 .. Capacity
    /\ \A k \in Slots : DESCRIPTOR_VALID(m[k]) <=> k < l
    /\ \A k \in 0 .. l - 1 : m[k].va + m[k].pages <= Top + 1
    /\ \A j, k \in 0 .. l - 1 : j # k => Apart(m[j], m[k])

Full(m, l) == \A k \in 0 .. l - 1 : m[k].pages > 0
Covers(m, l) == \A p \in BootPages : \E k \in 0 .. l - 1 : p \in PagesOf(m[k])
SortedTo(m, l, i) == \A j, k \in 0 .. l - 1 : j < k /\ j < i => m[j].va < m[k].va

\* What kalloc_page builds: a descriptor of the pages it mapped last, which
\* ends where the free one that they come from begins.
Building(m, l, base, n, ind, pos, new) ==
    /\ ind \in 0 .. l - 1 /\ m[ind].type = "usable"
    /\ m[ind].va = base + pos /\ m[ind].pages >= n - pos
    /\ base \in Nat
    /\ new \in Descr /\ new.flags = {"valid"} /\ new.type = "kernel_reserved"
    /\ new.va >= base /\ new.pa \in Frames
    /\ new.va + new.pages = base + pos
    /\ pos = n => new.pages > 0
    /\ \A k \in 0 .. l - 1 : Apart(new, m[k]) /\ (k # ind => m[k].pages > 0)
    /\ \A p \in BootPages : p \in PagesOf(new) \/ \E k \in 0 .. l - 1 : p \in PagesOf(m[k])

MapInv ==
    /\ Table(map, last)
    /\ call.op = "alloc" =>
         Building(map, last, call.base, call.n, call.ind, call.m, call.new)
    /\ call.op # "alloc" => Full(map, last) /\ Covers(map, last)
    /\ call.op \in {"idle", "compress"} => SortedTo(map, last, last)
    /\ call.op = "order" => call.n > 0 /\ SortedTo(map, last, call.i)
    /\ call.op = "compress" => call.size \in 0 .. Capacity

MemInv == CallInv /\ (regular => MapInv)

-----------------------------------------------------------------------------
(* Numbers, and the shape of descriptors.                                  *)

LEMMA LeastNat ==
  ASSUME NEW S \in SUBSET Nat, S # {}
  PROVE  \E x \in S : \A y \in S : x <= y
<1>1. IsWellFoundedOn(OpToRel(<, Nat), Nat)
  BY NatLessThanWellFounded, Zenon
<1>2. PICK x \in S : \A y \in S : <<y, x>> \notin OpToRel(<, Nat)
  BY <1>1, WFMin, Zenon
<1>3. \A y \in S : ~(y < x)
  BY <1>2 DEF OpToRel
<1> QED
  BY <1>3

LEMMA MinOfTwo ==
  ASSUME NEW a \in Int, NEW b \in Int
  PROVE  Min({a, b}) = IF a <= b THEN a ELSE b
<1> DEFINE c == IF a <= b THEN a ELSE b
<1>1. c \in {a, b} /\ \A y \in {a, b} : c <= y
  OBVIOUS
<1>2. \A x \in {a, b} : (\A y \in {a, b} : x <= y) => x = c
  OBVIOUS
<1> QED
  BY <1>1, <1>2 DEF Min

LEMMA ConstantTypes ==
  Top \in Nat /\ Top >= 1 /\ Capacity \in Nat /\ Capacity >= 1 /\ MapSize \in Nat /\ Capacity <= MapSize
  BY MemMapAssumption

LEMMA DescrType ==
  ASSUME NEW d \in Descr
  PROVE  d.va \in Nat /\ d.pa \in Nat /\ d.pages \in Nat /\ d.flags \subseteq FlagNames /\ d.type \in Types
  BY DEF Descr

\* Descriptors of valid addresses.
LEMMA DescrIntro ==
  ASSUME NEW va \in Nat, NEW pa \in Frames, NEW pages \in Nat, NEW flags \in SUBSET FlagNames,
         NEW type \in Types, va + pages <= Top + 1
  PROVE  /\ init_descriptor(va, pa, pages, flags, type) \in Descr
<1>1. va \in 0 .. 2 * Top /\ pages \in 0 .. Top + 1 /\ pa \in 0 .. 2 * Top
  BY ConstantTypes DEF Frames
<1> QED
  BY <1>1 DEF Descr, init_descriptor

\* A descriptor keeps its type when its first page is taken, or pages are added.
-----------------------------------------------------------------------------
(* The operations on a table.                                              *)

LEMMA PutKeeps ==
  ASSUME NEW m, NEW l, Table(m, l), l < Capacity,
         NEW d \in Descr, DESCRIPTOR_VALID(d), d.va + d.pages <= Top + 1,
         \A k \in 0 .. l - 1 : Apart(d, m[k])
  PROVE  /\ Table([m EXCEPT ![l] = d], l + 1)
         /\ [m EXCEPT ![l] = d][l] = d
         /\ \A k \in Slots : k # l => [m EXCEPT ![l] = d][k] = m[k]
<1> DEFINE m2 == [m EXCEPT ![l] = d]
<1>1. m \in [Slots -> Descr] /\ l \in Nat /\ l \in Slots
  BY ConstantTypes DEF Table, Slots
<1>2. m2 \in [Slots -> Descr] /\ m2[l] = d /\ \A k \in Slots : k # l => m2[k] = m[k]
  BY <1>1
<1> HIDE DEF m2
<1>3. \A k \in Slots : DESCRIPTOR_VALID(m2[k]) <=> k < l + 1
  BY <1>1, <1>2 DEF Table, Slots
<1>4. \A k \in 0 .. l : k \in Slots /\ (k = l \/ k \in 0 .. l - 1)
  BY <1>1, ConstantTypes DEF Slots
<1>5. \A k \in 0 .. l : m2[k].va + m2[k].pages <= Top + 1
  BY <1>1, <1>2, <1>4 DEF Table
<1>6. \A j, k \in 0 .. l : j # k => Apart(m2[j], m2[k])
  <2>1. \A k \in 0 .. l - 1 : Apart(m[k], d)
    BY DEF Apart
  <2> QED
    BY <1>1, <1>2, <1>4, <2>1 DEF Table
<1>7. l + 1 - 1 = l /\ l + 1 \in 0 .. Capacity
  BY <1>1, ConstantTypes DEF Table
<1>8. Table(m2, l + 1)
  BY <1>1, <1>2, <1>3, <1>5, <1>6, <1>7 DEF Table
<1> QED
  BY <1>2, <1>8 DEF m2

\* Closing the gap of n slots at k.
LEMMA RemovedSlots ==
  ASSUME NEW m, NEW l, Table(m, l), NEW k \in Nat, NEW n \in Nat, k + n <= l
  PROVE  /\ Removed(m, k, n) \in [Slots -> Descr]
         /\ l - n \in 0 .. Capacity
         /\ \A j \in 0 .. l - n - 1 :
              /\ j < k => j \in 0 .. l - 1 /\ Removed(m, k, n)[j] = m[j]
              /\ j >= k => j + n \in 0 .. l - 1 /\ Removed(m, k, n)[j] = m[j + n]
         /\ \A j \in Slots : DESCRIPTOR_VALID(Removed(m, k, n)[j]) <=> j < l - n
<1>1. m \in [Slots -> Descr] /\ l \in Nat /\ l <= Capacity
  BY ConstantTypes DEF Table
<1>2. Zero \in Descr /\ ~DESCRIPTOR_VALID(Zero)
  BY ConstantTypes DEF Zero, Descr, init_descriptor, DESCRIPTOR_VALID, Types, FlagNames
<1> HIDE DEF Zero
<1>3. Removed(m, k, n) \in [Slots -> Descr]
  BY <1>1, <1>2, ConstantTypes DEF Removed, Slots
<1>4. ASSUME NEW j \in 0 .. l - n - 1
      PROVE  /\ j < k => j \in 0 .. l - 1 /\ Removed(m, k, n)[j] = m[j]
             /\ j >= k => j + n \in 0 .. l - 1 /\ Removed(m, k, n)[j] = m[j + n]
  BY <1>1, ConstantTypes DEF Removed, Slots
<1>5. ASSUME NEW j \in Slots
      PROVE  DESCRIPTOR_VALID(Removed(m, k, n)[j]) <=> j < l - n
  <2>1. CASE j < k
    BY <1>1, <2>1, ConstantTypes DEF Removed, Table, Slots
  <2>2. CASE j >= k /\ j + n < Capacity
    <3>1. Removed(m, k, n)[j] = m[j + n] /\ j + n \in Slots
      BY <2>2, ConstantTypes DEF Removed, Slots
    <3> QED
      BY <1>1, <2>2, <3>1, ConstantTypes DEF Table, Slots
  <2>3. CASE j >= k /\ j + n >= Capacity
    BY <1>1, <1>2, <2>3, ConstantTypes DEF Removed, Slots
  <2> QED
    BY <2>1, <2>2, <2>3, ConstantTypes DEF Slots
<1> QED
  BY <1>1, <1>3, <1>4, <1>5, ConstantTypes

\* What closing a gap of n slots at k makes of the other descriptors.
Closes(m, l, k, n, r, h) ==
    /\ Table(r, h)
    /\ SortedTo(m, l, l) => SortedTo(r, h, h)
    /\ (\A j \in 0 .. l - 1 : (j < k \/ j >= k + n) => m[j].pages > 0) => Full(r, h)
    /\ \A j \in 0 .. l - 1 : (j < k \/ j >= k + n) => \E i \in 0 .. h - 1 : r[i] = m[j]
    /\ \A i \in 0 .. h - 1 : \E j \in 0 .. l - 1 : (j < k \/ j >= k + n) /\ r[i] = m[j]
    /\ k > 0 => r[k - 1] = m[k - 1]

LEMMA RemovedKeeps ==
  ASSUME NEW m, NEW l, Table(m, l), NEW k \in Nat, NEW n \in Nat, k + n <= l
  PROVE  Closes(m, l, k, n, Removed(m, k, n), l - n)
<1>0. /\ Removed(m, k, n) \in [Slots -> Descr]
      /\ l - n \in 0 .. Capacity
      /\ \A j \in 0 .. l - n - 1 :
           /\ j < k => j \in 0 .. l - 1 /\ Removed(m, k, n)[j] = m[j]
           /\ j >= k => j + n \in 0 .. l - 1 /\ Removed(m, k, n)[j] = m[j + n]
      /\ \A j \in Slots : DESCRIPTOR_VALID(Removed(m, k, n)[j]) <=> j < l - n
  BY RemovedSlots
<1> DEFINE r == Removed(m, k, n)
           h == l - n
           at(j) == IF j < k THEN j ELSE j + n
<1>1. l \in Nat /\ l <= Capacity
  BY ConstantTypes DEF Table
<1>2. /\ r \in [Slots -> Descr] /\ h \in 0 .. Capacity
      /\ \A j \in 0 .. h - 1 :
           /\ j < k => j \in 0 .. l - 1 /\ r[j] = m[j]
           /\ j >= k => j + n \in 0 .. l - 1 /\ r[j] = m[j + n]
      /\ \A j \in Slots : DESCRIPTOR_VALID(r[j]) <=> j < h
  BY <1>0
<1> HIDE DEF r
<1>3. \A j \in 0 .. h - 1 : at(j) \in 0 .. l - 1 /\ r[j] = m[at(j)]
  BY <1>2
<1>4. \A i, j \in 0 .. h - 1 : i < j => at(i) < at(j)
  BY <1>1
<1>5. \A j \in 0 .. h - 1 : at(j) < k \/ at(j) >= k + n
  BY <1>1
<1>6. \A i, j \in 0 .. h - 1 : i # j => at(i) # at(j)
  BY <1>1
<1>7. ASSUME NEW j \in 0 .. l - 1, j < k \/ j >= k + n
      PROVE  \E i \in 0 .. h - 1 : r[i] = m[j]
  <2>1. CASE j < k
    <3>1. j \in 0 .. h - 1 /\ at(j) = j
      BY <1>1, <2>1
    <3> QED
      BY <3>1, <1>3
  <2>2. CASE j >= k + n
    <3>1. j - n \in 0 .. h - 1 /\ at(j - n) = j
      BY <1>1, <2>2
    <3> QED
      BY <3>1, <1>3
  <2> QED
    BY <1>7, <2>1, <2>2
<1> HIDE DEF at
<1>8. Table(r, h)
  <2>1. \A i \in 0 .. h - 1 : r[i].va + r[i].pages <= Top + 1
    BY <1>3 DEF Table
  <2>2. \A i, j \in 0 .. h - 1 : i # j => Apart(r[i], r[j])
    BY <1>3, <1>6 DEF Table
  <2> QED
    BY <1>2, <2>1, <2>2 DEF Table
<1>9. SortedTo(m, l, l) => SortedTo(r, h, h)
  <2>1. SUFFICES ASSUME SortedTo(m, l, l), NEW i \in 0 .. h - 1, NEW j \in 0 .. h - 1, i < j
                 PROVE  r[i].va < r[j].va
    BY DEF SortedTo
  <2>2. at(i) \in 0 .. l - 1 /\ at(j) \in 0 .. l - 1 /\ at(i) < at(j) /\ at(i) < l
    BY <1>1, <1>3, <1>4, <2>1
  <2> QED
    BY <2>1, <2>2, <1>3 DEF SortedTo
<1>10. (\A j \in 0 .. l - 1 : (j < k \/ j >= k + n) => m[j].pages > 0) => Full(r, h)
  BY <1>3, <1>5 DEF Full
<1>11. \A i \in 0 .. h - 1 : \E j \in 0 .. l - 1 : (j < k \/ j >= k + n) /\ r[i] = m[j]
  BY <1>3, <1>5
<1>12. k > 0 => r[k - 1] = m[k - 1]
  BY <1>1, ConstantTypes DEF Removed, Slots, r
<1>13. Closes(m, l, k, n, r, h)
  BY <1>7, <1>8, <1>9, <1>10, <1>11, <1>12 DEF Closes
<1> QED
  BY <1>13 DEF r

\* A page moves from the free descriptor to the one that is built.
LEMMA TakeKeeps ==
  ASSUME NEW m, NEW l, NEW base, NEW n \in Nat, NEW ind, NEW pos \in Nat, NEW new,
         Table(m, l), Building(m, l, base, n, ind, pos, new), pos < n
  PROVE  LET m2 == [m EXCEPT ![ind].va = @ + 1, ![ind].pages = @ - 1]
         IN  /\ Table(m2, l)
             /\ Building(m2, l, base, n, ind, pos + 1, [new EXCEPT !.pages = @ + 1])
<1> DEFINE m2 == [m EXCEPT ![ind].va = @ + 1, ![ind].pages = @ - 1]
           d == [m[ind] EXCEPT !.va = @ + 1, !.pages = @ - 1]
           new2 == [new EXCEPT !.pages = @ + 1]
<1>0. \A x, y \in Nat : x + y <= Top + 1 /\ y > 0 => y - 1 \in Nat /\ (x + 1) + (y - 1) <= Top + 1
  BY ConstantTypes
<1>1. /\ m \in [Slots -> Descr] /\ l \in Nat /\ l <= Capacity /\ ind \in 0 .. l - 1
      /\ \A k \in 0 .. l - 1 : k \in Slots
  BY ConstantTypes DEF Table, Building, Slots
<1>2. /\ m[ind] \in Descr /\ m[ind].va = base + pos /\ m[ind].pages >= n - pos
      /\ m[ind].va + m[ind].pages <= Top + 1 /\ base \in Nat
      /\ m[ind].va \in Nat /\ m[ind].pages \in Nat
  BY <1>1, DescrType DEF Table, Building
<1>9. m[ind].pages > 0
  BY <1>2
<1>3. /\ d \in Descr /\ d.va = base + pos + 1 /\ d.pages = m[ind].pages - 1
      /\ d.flags = m[ind].flags /\ d.type = m[ind].type /\ d.pages \in Nat
  <2>1. m[ind].va + 1 \in Nat /\ m[ind].pages - 1 \in Nat
        /\ (m[ind].va + 1) + (m[ind].pages - 1) <= Top + 1
    BY <1>0, <1>2, <1>9
  <2>2. m[ind].va + 1 \in 0 .. 2 * Top /\ m[ind].pages - 1 \in 0 .. Top + 1
    BY <2>1, ConstantTypes
  <2> QED
    BY <1>2, <2>1, <2>2 DEF Descr
<1>4. m2 = [m EXCEPT ![ind] = d]
  BY <1>1, <1>2 DEF Slots, Descr
<1> HIDE DEF d
<1>5. m2 \in [Slots -> Descr] /\ m2[ind] = d /\ \A k \in Slots : k # ind => m2[k] = m[k]
  BY <1>1, <1>3, <1>4
<1> HIDE DEF m2
<1>6. /\ new \in Descr /\ new.flags = {"valid"} /\ new.type = "kernel_reserved"
      /\ new.va \in Nat /\ new.va <= base + pos /\ new.pages \in Nat /\ base <= new.va
      /\ new.va + new.pages = base + pos /\ new.pa \in Frames
  <2>1. new \in Descr /\ new.flags = {"valid"} /\ new.type = "kernel_reserved" /\ base <= new.va
        /\ new.va + new.pages = base + pos /\ new.pa \in Frames
    BY <1>2 DEF Building
  <2> QED
    BY <1>2, <2>1, DescrType
<1>7. /\ new2 \in Descr /\ new2.flags = {"valid"} /\ new2.type = "kernel_reserved"
      /\ new2.va = new.va /\ new2.pa = new.pa /\ new2.pages = new.pages + 1
  <2>1. new.pages + 1 \in 0 .. Top + 1
    BY <1>2, <1>6, <1>9, ConstantTypes
  <2> QED
    BY <1>6, <2>1 DEF Descr
<1> HIDE DEF new2
<1>8. ASSUME NEW k \in 0 .. l - 1, k # ind
      PROVE  /\ m[k].va \in Nat /\ m[k].pages \in Nat /\ m[k].pages > 0 /\ m2[k] = m[k]
             /\ m[k].va + m[k].pages <= base + pos \/ base + pos + m[ind].pages <= m[k].va
             /\ m[k].va + m[k].pages <= new.va \/ base + pos <= m[k].va
  <2>1. m[k] \in Descr /\ m[k].pages > 0 /\ m2[k] = m[k]
    BY <1>1, <1>5, <1>8 DEF Building
  <2>2. Apart(m[ind], m[k]) /\ Apart(new, m[k])
    BY <1>1, <1>8 DEF Table, Building
  <2> QED
    BY <1>2, <1>6, <2>1, <2>2, DescrType DEF Apart
<1>10. Table(m2, l)
  <2>1. \A k \in Slots : DESCRIPTOR_VALID(m2[k]) <=> DESCRIPTOR_VALID(m[k])
    BY <1>3, <1>5 DEF DESCRIPTOR_VALID
  <2>2. \A k \in 0 .. l - 1 : m2[k].va + m2[k].pages <= Top + 1
    BY <1>1, <1>2, <1>3, <1>5, <1>8, <1>9 DEF Table
  <2>3. ASSUME NEW j \in 0 .. l - 1, NEW k \in 0 .. l - 1, j # k
        PROVE  Apart(m2[j], m2[k])
    <3>1. CASE j # ind /\ k # ind
      BY <2>3, <3>1, <1>8 DEF Table
    <3>2. CASE j = ind
      BY <2>3, <3>2, <1>2, <1>3, <1>5, <1>8, <1>9 DEF Apart
    <3>3. CASE k = ind
      BY <2>3, <3>3, <1>2, <1>3, <1>5, <1>8, <1>9 DEF Apart
    <3> QED
      BY <3>1, <3>2, <3>3
  <2> QED
    BY <1>1, <1>5, <2>1, <2>2, <2>3 DEF Table
<1>11. Building(m2, l, base, n, ind, pos + 1, new2)
  <2>1. ASSUME NEW k \in 0 .. l - 1
        PROVE  Apart(new2, m2[k]) /\ (k # ind => m2[k].pages > 0)
    <3>1. CASE k = ind
      BY <3>1, <1>2, <1>3, <1>5, <1>6, <1>7 DEF Apart
    <3>2. CASE k # ind
      BY <3>2, <1>2, <1>6, <1>7, <1>8, <1>9 DEF Apart
    <3> QED
      BY <3>1, <3>2
  <2>2. ASSUME NEW p \in BootPages
        PROVE  p \in PagesOf(new2) \/ \E k \in 0 .. l - 1 : p \in PagesOf(m2[k])
    <3>1. CASE p \in PagesOf(new)
      BY <3>1, <1>6, <1>7 DEF PagesOf
    <3>2. ASSUME NEW k \in 0 .. l - 1, p \in PagesOf(m[k])
          PROVE  p \in PagesOf(new2) \/ p \in PagesOf(m2[k])
      <4>1. CASE k = ind
        BY <3>2, <4>1, <1>2, <1>3, <1>5, <1>6, <1>7, <1>9 DEF PagesOf
      <4>2. CASE k # ind
        BY <3>2, <4>2, <1>8
      <4> QED
        BY <4>1, <4>2
    <3> QED
      BY <3>1, <3>2 DEF Building
  <2>3. m2[ind].type = "usable" /\ m2[ind].va = base + (pos + 1) /\ m2[ind].pages >= n - (pos + 1)
    BY <1>1, <1>2, <1>3, <1>5, <1>9 DEF Building
  <2>4. new2.va \in base .. base + (pos + 1) /\ new2.pages \in Nat /\ new2.pages > 0
    BY <1>2, <1>6, <1>7
  <2>5. new2.va + new2.pages = base + (pos + 1)
    BY <1>2, <1>6, <1>7
  <2> QED
    BY <1>1, <1>2, <1>6, <1>7, <2>1, <2>2, <2>3, <2>4, <2>5 DEF Building
<1> QED
  BY <1>10, <1>11 DEF m2, new2

\* The descriptor of a run goes into the map, and the next run starts.
LEMMA SplitKeeps ==
  ASSUME NEW m, NEW l, NEW base, NEW n \in Nat, NEW ind, NEW pos \in Nat, NEW new, NEW frame \in Frames,
         Table(m, l), Building(m, l, base, n, ind, pos, new), pos < n, new.pages > 0, l < Capacity
  PROVE  LET m2 == [m EXCEPT ![l] = [new EXCEPT !.flags = @ \union {"next"}]]
         IN  /\ Table(m2, l + 1)
             /\ Building(m2, l + 1, base, n, ind, pos,
                         init_descriptor(base + pos, frame, 0, {"valid"}, "kernel_reserved"))
<1> DEFINE d == [new EXCEPT !.flags = @ \union {"next"}]
           m2 == [m EXCEPT ![l] = d]
           next == init_descriptor(base + pos, frame, 0, {"valid"}, "kernel_reserved")
<1>1. /\ m \in [Slots -> Descr] /\ l \in Nat /\ ind \in 0 .. l - 1
      /\ \A k \in 0 .. l - 1 : k \in Slots
  BY ConstantTypes DEF Table, Building, Slots
<1>2. /\ m[ind].va = base + pos /\ m[ind].va + m[ind].pages <= Top + 1 /\ base \in Nat
      /\ m[ind].pages \in Nat /\ m[ind].type = "usable" /\ m[ind].pages >= n - pos
  BY <1>1, DescrType DEF Table, Building
<1>3. /\ new \in Descr /\ new.flags = {"valid"} /\ new.va + new.pages = base + pos
      /\ new.va \in Nat /\ new.pages \in Nat
  BY DescrType DEF Building
<1>4. /\ d \in Descr /\ d.flags = {"valid", "next"} /\ d.va = new.va /\ d.pages = new.pages
  <2>1. new.flags \union {"next"} = {"valid", "next"} /\ {"valid", "next"} \in SUBSET FlagNames
    BY <1>3 DEF FlagNames
  <2> QED
    BY <1>3, <2>1 DEF Descr
<1>5. DESCRIPTOR_VALID(d) /\ d.va + d.pages <= Top + 1
  BY <1>2, <1>3, <1>4, ConstantTypes DEF DESCRIPTOR_VALID
<1>6. \A k \in 0 .. l - 1 : Apart(d, m[k])
  BY <1>4 DEF Apart, Building
<1> HIDE DEF d
<1>7. Table(m2, l + 1) /\ m2[l] = d /\ \A k \in Slots : k # l => m2[k] = m[k]
  BY <1>4, <1>5, <1>6, PutKeeps
<1> HIDE DEF m2
<1>8. /\ next \in Descr /\ next.flags = {"valid"} /\ next.type = "kernel_reserved"
      /\ next.va = base + pos /\ next.pa = frame /\ next.pages = 0
  <2>1. base + pos \in Nat /\ base + pos + 0 <= Top + 1
    BY <1>2, ConstantTypes
  <2>2. {"valid"} \in SUBSET FlagNames /\ "kernel_reserved" \in Types
    BY DEF FlagNames, Types
  <2>3. next \in Descr
    BY <2>1, <2>2, DescrIntro
  <2> QED
    BY <2>3 DEF init_descriptor
<1> HIDE DEF next
<1>9. ASSUME NEW k \in 0 .. l
      PROVE  Apart(next, m2[k]) /\ (k # ind => m2[k].pages > 0)
  <2>1. CASE k = l
    BY <2>1, <1>2, <1>3, <1>4, <1>7, <1>8 DEF Apart
  <2>2. CASE k = ind
    BY <2>2, <1>1, <1>2, <1>7, <1>8 DEF Apart
  <2>3. CASE k # ind /\ k # l
    <3>1. k \in 0 .. l - 1 /\ m2[k] = m[k] /\ m[k] \in Descr
      BY <2>3, <1>1, <1>7
    <3>2. Apart(m[ind], m[k]) /\ m[k].pages > 0
      BY <2>3, <3>1, <1>1 DEF Table, Building
    <3> QED
      BY <2>3, <3>1, <3>2, <1>2, <1>8, DescrType DEF Apart
  <2> QED
    BY <2>1, <2>2, <2>3
<1>10. ASSUME NEW p \in BootPages
       PROVE  \E k \in 0 .. l : p \in PagesOf(m2[k])
  <2>1. CASE p \in PagesOf(new)
    <3>1. p \in PagesOf(m2[l]) /\ l \in 0 .. l
      BY <2>1, <1>1, <1>4, <1>7 DEF PagesOf
    <3> QED
      BY <3>1
  <2>2. ASSUME NEW k \in 0 .. l - 1, p \in PagesOf(m[k])
        PROVE  p \in PagesOf(m2[k]) /\ k \in 0 .. l
    BY <2>2, <1>1, <1>7
  <2> QED
    BY <2>1, <2>2 DEF Building
<1>11. PICK L \in Nat : L = l + 1
  BY <1>1
<1>12. /\ \A k : k \in 0 .. L - 1 <=> k \in 0 .. l
       /\ ind \in 0 .. L - 1 /\ m2[ind] = m[ind]
  BY <1>1, <1>7, <1>11
<1>13. /\ \A k \in 0 .. L - 1 : Apart(next, m2[k]) /\ (k # ind => m2[k].pages > 0)
       /\ \A p \in BootPages : \E k \in 0 .. L - 1 : p \in PagesOf(m2[k])
  BY <1>9, <1>10, <1>12
<1>14. next.va >= base /\ next.va + next.pages = base + pos /\ pos # n
  BY <1>2, <1>8
<1>15. Building(m2, L, base, n, ind, pos, next)
  BY <1>2, <1>8, <1>12, <1>13, <1>14 DEF Building
<1> QED
  BY <1>7, <1>11, <1>15 DEF m2, next, d

\* A descriptor without pages leaves the map.
LEMMA RemoveEmptyKeeps ==
  ASSUME NEW m, NEW l, Table(m, l), NEW k \in 0 .. l - 1, m[k].pages = 0,
         \A j \in 0 .. l - 1 : j # k => m[j].pages > 0, Covers(m, l)
  PROVE  /\ Table(Removed(m, k, 1), l - 1)
         /\ Full(Removed(m, k, 1), l - 1)
         /\ Covers(Removed(m, k, 1), l - 1)
<1>1. l \in Nat /\ k \in Nat /\ 1 \in Nat /\ k + 1 <= l
  BY ConstantTypes DEF Table
<1>6. PICK n \in Nat : n = 1
  BY <1>1
<1>2. Closes(m, l, k, n, Removed(m, k, n), l - n)
  BY <1>1, <1>6, RemovedKeeps
<1>3. \A j \in 0 .. l - 1 : j # k <=> (j < k \/ j >= k + n)
  BY <1>1, <1>6
<1>4. Table(Removed(m, k, n), l - n) /\ Full(Removed(m, k, n), l - n)
  BY <1>2, <1>3 DEF Closes
<1>5. ASSUME NEW p \in BootPages
      PROVE  \E i \in 0 .. l - n - 1 : p \in PagesOf(Removed(m, k, n)[i])
  <2>1. PICK j \in 0 .. l - 1 : p \in PagesOf(m[j])
    BY DEF Covers
  <2>2. m[k].va \in Nat
    BY <1>1, ConstantTypes, DescrType DEF Table, Slots
  <2>3. j # k
    BY <2>1, <2>2 DEF PagesOf
  <2> QED
    BY <2>1, <2>3, <1>2, <1>3 DEF Closes
<1>7. Covers(Removed(m, k, n), l - n)
  BY <1>5 DEF Covers
<1> QED
  BY <1>4, <1>6, <1>7

\* The last run goes into the map; the free descriptor leaves it when it has
\* no page left.
LEMMA EndKeeps ==
  ASSUME NEW m, NEW l, NEW base, NEW n \in Nat, NEW ind, NEW new,
         Table(m, l), Building(m, l, base, n, ind, n, new), l < Capacity
  PROVE  LET m2 == WithoutEmpty([m EXCEPT ![l] = new], ind)
             l2 == IF m[ind].pages = 0 THEN l ELSE l + 1
         IN  Table(m2, l2) /\ Full(m2, l2) /\ Covers(m2, l2)
<1> DEFINE m1 == [m EXCEPT ![l] = new]
           m2 == WithoutEmpty(m1, ind)
           l2 == IF m[ind].pages = 0 THEN l ELSE l + 1
<1> SUFFICES Table(m2, l2) /\ Full(m2, l2) /\ Covers(m2, l2)
  OBVIOUS
<1>1. /\ m \in [Slots -> Descr] /\ l \in Nat /\ ind \in 0 .. l - 1
      /\ \A k \in 0 .. l - 1 : k \in Slots
  BY ConstantTypes DEF Table, Building, Slots
<1>2. /\ m[ind].va = base + n /\ m[ind].va + m[ind].pages <= Top + 1 /\ base \in Nat
      /\ m[ind].pages \in Nat
  BY <1>1, DescrType DEF Table, Building
<1>3. /\ new \in Descr /\ new.flags = {"valid"} /\ new.va + new.pages = base + n
      /\ new.va \in Nat /\ new.pages \in Nat /\ new.pages > 0
  BY DescrType DEF Building
<1>4. DESCRIPTOR_VALID(new) /\ new.va + new.pages <= Top + 1
  BY <1>2, <1>3, ConstantTypes DEF DESCRIPTOR_VALID
<1>5. \A k \in 0 .. l - 1 : Apart(new, m[k])
  BY DEF Building
<1>6. Table(m1, l + 1) /\ m1[l] = new /\ \A k \in Slots : k # l => m1[k] = m[k]
  BY <1>3, <1>4, <1>5, PutKeeps
<1> HIDE DEF m1
<1>7. \A k \in 0 .. l : k # ind => m1[k].pages > 0
  BY <1>1, <1>3, <1>6 DEF Building
<1>8. m1[ind] = m[ind] /\ ind \in 0 .. l /\ l + 1 - 1 = l
  BY <1>1, <1>6
<1>9. ASSUME NEW p \in BootPages
      PROVE  \E k \in 0 .. l : p \in PagesOf(m1[k])
  <2>1. CASE p \in PagesOf(new)
    BY <2>1, <1>1, <1>6
  <2>2. ASSUME NEW k \in 0 .. l - 1, p \in PagesOf(m[k])
        PROVE  p \in PagesOf(m1[k]) /\ k \in 0 .. l
    BY <2>2, <1>1, <1>6
  <2> QED
    BY <2>1, <2>2 DEF Building
<1>13. PICK L \in Nat : L = l + 1
  BY <1>1
<1>14. Table(m1, L) /\ ind \in 0 .. L - 1 /\ \A k : k \in 0 .. L - 1 <=> k \in 0 .. l
  BY <1>1, <1>6, <1>13
<1>10. /\ \A k \in 0 .. L - 1 : k # ind => m1[k].pages > 0
       /\ Covers(m1, L)
  BY <1>7, <1>9, <1>14 DEF Covers
<1>11. CASE m[ind].pages > 0
  <2>1. m2 = m1 /\ l2 = L
    BY <1>8, <1>11, <1>13, <1>2 DEF WithoutEmpty
  <2>2. Full(m1, L)
    BY <1>8, <1>10, <1>11, <1>14 DEF Full
  <2> QED
    BY <2>1, <2>2, <1>10, <1>14
<1>12. CASE m[ind].pages = 0
  <2>1. ind # MapSize - 1
    BY <1>1, ConstantTypes DEF Table
  <2>2. m2 = Removed(m1, ind, 1) /\ l2 = L - 1
    BY <1>1, <1>8, <1>12, <1>13, <2>1 DEF WithoutEmpty
  <2>3. /\ Table(Removed(m1, ind, 1), L - 1)
        /\ Full(Removed(m1, ind, 1), L - 1)
        /\ Covers(Removed(m1, ind, 1), L - 1)
    <3>1. ind \in 0 .. L - 1 /\ m1[ind].pages = 0
      BY <1>8, <1>12, <1>14
    <3> QED
      BY <3>1, <1>10, <1>14, RemoveEmptyKeeps
  <2> QED
    BY <2>2, <2>3
<1> QED
  BY <1>2, <1>11, <1>12

\* Two descriptors change places.
Swapped(m, i, j) == [m EXCEPT ![i] = m[j], ![j] = m[i]]

LEMMA SwapKeeps ==
  ASSUME NEW m, NEW l, Table(m, l), NEW i \in 0 .. l - 1, NEW j \in 0 .. l - 1
  PROVE  /\ Table(Swapped(m, i, j), l)
         /\ Full(m, l) => Full(Swapped(m, i, j), l)
         /\ Covers(m, l) => Covers(Swapped(m, i, j), l)
         /\ \A k \in 0 .. l - 1 :
              Swapped(m, i, j)[k] = m[IF k = i THEN j ELSE IF k = j THEN i ELSE k]
<1> DEFINE r == Swapped(m, i, j)
           at(k) == IF k = i THEN j ELSE IF k = j THEN i ELSE k
<1>1. /\ m \in [Slots -> Descr] /\ l \in 0 .. Capacity /\ i \in Slots /\ j \in Slots
      /\ \A k \in 0 .. l - 1 : k \in Slots
  BY ConstantTypes DEF Table, Slots
<1>2. r \in [Slots -> Descr] /\ \A k \in Slots : r[k] = m[at(k)]
  BY <1>1 DEF Swapped
<1>3. \A k \in 0 .. l - 1 : at(k) \in 0 .. l - 1 /\ at(at(k)) = k
  OBVIOUS
<1>4. \A h, k \in 0 .. l - 1 : h # k => at(h) # at(k)
  OBVIOUS
<1>5. \A k \in Slots : (at(k) < l <=> k < l) /\ at(k) \in Slots
  BY <1>1
<1>6. \A k \in 0 .. l - 1 : r[k] = m[at(k)]
  BY <1>1, <1>2
<1> HIDE DEF r, at
<1>7. \A k \in Slots : DESCRIPTOR_VALID(r[k]) <=> k < l
  BY <1>2, <1>5 DEF Table
<1>8. \A k \in 0 .. l - 1 : r[k].va + r[k].pages <= Top + 1
  BY <1>3, <1>6 DEF Table
<1>9. \A h, k \in 0 .. l - 1 : h # k => Apart(r[h], r[k])
  BY <1>3, <1>4, <1>6 DEF Table
<1>10. Table(r, l)
  BY <1>1, <1>2, <1>7, <1>8, <1>9 DEF Table
<1>11. Full(m, l) => Full(r, l)
  BY <1>3, <1>6 DEF Full
<1>12. Covers(m, l) => Covers(r, l)
  <2>1. \A k \in 0 .. l - 1 : r[at(k)] = m[k]
    BY <1>3, <1>6
  <2> QED
    BY <2>1, <1>3 DEF Covers
<1> QED
  BY <1>6, <1>10, <1>11, <1>12 DEF r, at

\* The slot that order_map brings to slot i: the lowest address is there.
LEMMA SelectedIsLowest ==
  ASSUME Table(map, last), Full(map, last), NEW i \in 0 .. last - 1
  PROVE  /\ Selected(i) \in i .. last - 1
         /\ \A k \in i .. last - 1 : k # Selected(i) => map[Selected(i)].va < map[k].va
<1>1. /\ map \in [Slots -> Descr] /\ last \in Nat /\ last <= Capacity
      /\ \A k \in 0 .. last - 1 : k \in Slots /\ DESCRIPTOR_VALID(map[k])
  BY ConstantTypes DEF Table, Slots
<1>2. \A k \in 0 .. last - 1 : map[k].va \in Nat /\ map[k].pages \in Nat /\ map[k].pages > 0
  BY <1>1, DescrType DEF Full
<1>3. \A j, k \in 0 .. last - 1 : j # k => map[j].va # map[k].va
  BY <1>2 DEF Table, Apart
<1>4. Min({last, Capacity}) = last
  BY <1>1, MinOfTwo, ConstantTypes
<1>5. Lower(i) = {j \in i + 1 .. last - 1 : map[j].va < map[i].va}
  BY <1>1, <1>4 DEF Lower
<1>6. CASE Lower(i) = {}
  <2>1. Selected(i) = i
    BY <1>6 DEF Selected
  <2>2. ASSUME NEW k \in i .. last - 1, k # i
        PROVE  map[i].va < map[k].va
    <3>1. k \in i + 1 .. last - 1
      BY <2>2
    <3> QED
      BY <3>1, <1>2, <1>3, <1>5, <1>6
  <2> QED
    BY <2>1, <2>2
<1>7. CASE Lower(i) # {}
  <2> DEFINE S == {map[j].va : j \in Lower(i)}
             Best(j) == \A k \in Lower(i) :
                          map[j].va < map[k].va \/ (map[j].va = map[k].va /\ j <= k)
  <2>1. \A j \in Lower(i) : j \in 0 .. last - 1 /\ j \in i .. last - 1
    BY <1>5
  <2>2. S \in SUBSET Nat /\ S # {}
    BY <1>2, <1>7, <2>1
  <2>3. PICK x \in S : \A y \in S : x <= y
    BY <2>2, LeastNat
  <2>4. PICK j \in Lower(i) : x = map[j].va
    BY <2>3
  <2>5. Best(j)
    <3>1. ASSUME NEW k \in Lower(i)
          PROVE  map[j].va < map[k].va \/ (map[j].va = map[k].va /\ j <= k)
      <4>1. map[j].va <= map[k].va
        BY <2>3, <2>4
      <4> QED
        BY <4>1, <2>1, <1>2, <1>3
    <3> QED
      BY <3>1
  <2> HIDE DEF Best
  <2>6. \E j2 \in Lower(i) : Best(j2)
    BY <2>5
  <2>7. Selected(i) \in Lower(i) /\ Best(Selected(i))
    <3>1. Selected(i) = CHOOSE j2 \in Lower(i) : Best(j2)
      BY <1>7 DEF Selected, Best
    <3> QED
      BY <3>1, <2>6
  <2> HIDE DEF S
  <2>8. PICK s \in Lower(i) : s = Selected(i)
    BY <2>7
  <2>9. ASSUME NEW k \in i .. last - 1, k # s
        PROVE  map[s].va < map[k].va
    <3>1. s \in 0 .. last - 1 /\ k \in 0 .. last - 1 /\ map[s].va # map[k].va
      BY <2>1, <2>9, <1>3
    <3>2. CASE k \in Lower(i)
      BY <2>7, <2>8, <3>1, <3>2, <1>2 DEF Best
    <3>3. CASE k \notin Lower(i)
      <4>1. map[s].va < map[i].va
        BY <1>5
      <4>2. k = i \/ ~(map[k].va < map[i].va)
        BY <3>3, <1>5
      <4> QED
        BY <4>1, <4>2, <3>1, <1>2
    <3> QED
      BY <3>2, <3>3
  <2> QED
    BY <2>1, <2>8, <2>9
<1> QED
  BY <1>6, <1>7

LEMMA OrderKeeps ==
  ASSUME Table(map, last), Full(map, last), Covers(map, last),
         NEW i \in Nat, Ordering(i), SortedTo(map, last, i)
  PROVE  LET r == Swapped(map, i, Selected(i))
         IN  Table(r, last) /\ Full(r, last) /\ Covers(r, last) /\ SortedTo(r, last, i + 1)
<1>1. last \in Nat /\ last <= Capacity
  BY ConstantTypes DEF Table
<1>2. i \in 0 .. last - 1
  BY <1>1, MinOfTwo, ConstantTypes DEF Ordering
<1>3. /\ Selected(i) \in i .. last - 1
      /\ \A k \in i .. last - 1 : k # Selected(i) => map[Selected(i)].va < map[k].va
  BY <1>2, SelectedIsLowest
<1>4. PICK s \in i .. last - 1 : s = Selected(i)
  BY <1>3
<1> DEFINE r == Swapped(map, i, s)
<1>5. s \in 0 .. last - 1
  BY <1>2
<1>6. /\ Table(r, last) /\ Full(r, last) /\ Covers(r, last)
      /\ \A k \in 0 .. last - 1 : r[k] = map[IF k = i THEN s ELSE IF k = s THEN i ELSE k]
  BY <1>2, <1>5, SwapKeeps
<1> HIDE DEF r
<1>7. ASSUME NEW j \in 0 .. last - 1, NEW k \in 0 .. last - 1, j < k, j < i + 1
      PROVE  r[j].va < r[k].va
  <2>1. PICK h \in 0 .. last - 1 : r[k] = map[h] /\ h = IF k = i THEN s ELSE IF k = s THEN i ELSE k
    BY <1>2, <1>5, <1>6
  <2>2. CASE j < i
    <3>1. r[j] = map[j]
      BY <1>2, <1>6, <2>2
    <3>2. j < h
      BY <1>7, <2>1, <2>2
    <3> QED
      BY <2>1, <2>2, <3>1, <3>2 DEF SortedTo
  <2>3. CASE j = i
    <3>1. r[j] = map[s]
      BY <1>2, <1>6, <2>3
    <3>2. h \in i .. last - 1 /\ h # s
      BY <1>7, <2>1, <2>3
    <3> QED
      BY <1>3, <1>4, <2>1, <3>1, <3>2
  <2> QED
    BY <1>7, <1>2, <2>2, <2>3
<1>8. SortedTo(r, last, i + 1)
  BY <1>7 DEF SortedTo
<1> QED
  BY <1>4, <1>6, <1>8 DEF r

\* In a sorted table a descriptor ends before the later ones begin.
LEMMA SortedEnds ==
  ASSUME NEW m, NEW l, Table(m, l), SortedTo(m, l, l),
         NEW j \in 0 .. l - 1, NEW k \in 0 .. l - 1, j < k
  PROVE  m[j].va + m[j].pages <= m[k].va
<1>1. m[j] \in Descr /\ m[k] \in Descr
  BY ConstantTypes DEF Table, Slots
<1>2. m[j].va < m[k].va /\ Apart(m[j], m[k])
  BY ConstantTypes DEF SortedTo, Table
<1> QED
  BY <1>1, <1>2, DescrType DEF Apart

\* compress_map adds the pages of the descriptors that it merges.
LEMMA PagesFromEnds ==
  ASSUME map \in [Slots -> Descr], NEW i \in Slots, NEW n \in Nat, \A k \in 1 .. n : Continues(i, k)
  PROVE  PagesFrom(i, n) = map[i + n].va + map[i + n].pages - map[i].va
<1> DEFINE F(f) == [k \in 0 .. n |-> IF k = 0 THEN map[i].pages ELSE f[k - 1] + map[i + k].pages]
           w == [k \in 0 .. n |-> map[i + k].va + map[i + k].pages - map[i].va]
           pages == CHOOSE f : f = F(f)
<1>1. \A k \in 0 .. n : i + k \in Slots
  <2>1. \A k \in 1 .. n : i + k < Capacity
    BY DEF Continues
  <2>2. \A k \in 0 .. n : k \in 1 .. n \/ i + k = i
    BY ConstantTypes DEF Slots
  <2> QED
    BY <2>1, <2>2, ConstantTypes DEF Slots
<1>2. \A k \in 0 .. n : map[i + k].va \in Nat /\ map[i + k].pages \in Nat
  BY <1>1, DescrType
<1>3. map[i].va \in Nat /\ map[i].pages \in Nat
  BY DescrType
<1>4. \A k \in 1 .. n : map[i + k].va = map[i + (k - 1)].va + map[i + (k - 1)].pages
  <2>1. \A k \in 1 .. n : i + k - 1 = i + (k - 1)
    BY ConstantTypes DEF Slots
  <2> QED
    BY <2>1 DEF Continues
<1>5. \A k \in 0 .. n : F(w)[k] = w[k]
  <2>1. F(w)[0] = w[0]
    BY <1>3, ConstantTypes DEF Slots
  <2>2. ASSUME NEW k \in 1 .. n
        PROVE  F(w)[k] = w[k]
    <3>1. k - 1 \in 0 .. n /\ k \in 0 .. n /\ k # 0
      OBVIOUS
    <3>2. w[k - 1] = map[i + (k - 1)].va + map[i + (k - 1)].pages - map[i].va
      BY <3>1
    <3>3. F(w)[k] = w[k - 1] + map[i + k].pages
      BY <3>1
    <3> QED
      BY <3>1, <3>2, <3>3, <1>2, <1>3, <1>4
  <2>3. \A k \in 0 .. n : k = 0 \/ k \in 1 .. n
    OBVIOUS
  <2> QED
    BY <2>1, <2>2, <2>3
<1>6. w = F(w)
  BY <1>5
<1>7. pages = F(pages)
  BY <1>6
<1>8. PagesFrom(i, n) = pages[n]
  BY DEF PagesFrom
<1> HIDE DEF pages
<1>9. \A k \in 1 .. n : pages[k] = pages[k - 1] + map[i + k].pages
  BY <1>7
<1>10. pages[0] = map[i].pages
  BY <1>7
<1> HIDE DEF w
<1> DEFINE Bad == {k \in 0 .. n : pages[k] # map[i + k].va + map[i + k].pages - map[i].va}
<1>11. CASE Bad = {}
  <2>1. n \in 0 .. n /\ n \notin Bad
    BY <1>11
  <2> QED
    BY <1>8, <2>1
<1>12. CASE Bad # {}
  <2>1. Bad \in SUBSET Nat
    OBVIOUS
  <2>2. PICK k \in Bad : \A x \in Bad : k <= x
    BY <1>12, <2>1, LeastNat
  <2>3. k # 0
    BY <1>3, <1>10, ConstantTypes DEF Slots
  <2>4. k \in 1 .. n /\ k - 1 \in 0 .. n /\ k - 1 \notin Bad
    BY <2>2, <2>3
  <2>5. pages[k - 1] = map[i + (k - 1)].va + map[i + (k - 1)].pages - map[i].va
    BY <2>4
  <2>6. pages[k] = map[i + k].va + map[i + k].pages - map[i].va
    BY <2>4, <2>5, <1>2, <1>3, <1>4, <1>9
  <2> QED
    BY <2>2, <2>6
<1> QED
  BY <1>11, <1>12

\* compress_map merges as many descriptors as continue the first.
LEMMA MergeableStops ==
  ASSUME NEW i \in Slots
  PROVE  /\ Mergeable(i) \in Nat
         /\ \A k \in 1 .. Mergeable(i) : Continues(i, k)
         /\ ~(map[i].type = "usable" /\ DESCRIPTOR_AVAILABLE(map[i])) => Mergeable(i) = 0
<1>1. CASE map[i].type = "usable" /\ DESCRIPTOR_AVAILABLE(map[i])
  <2> DEFINE Ends(n) == (\A k \in 1 .. n : Continues(i, k)) /\ ~Continues(i, n + 1)
             S == {x \in Nat : ~Continues(i, x + 1)}
  <2>1. Capacity \in S
    BY ConstantTypes DEF Continues, Slots
  <2>2. PICK x \in S : \A y \in S : x <= y
    BY <2>1, LeastNat
  <2>3. x \in 0 .. Capacity
    BY <2>1, <2>2, ConstantTypes
  <2>4. ASSUME NEW k \in 1 .. x
        PROVE  Continues(i, k)
    <3>1. k - 1 \in Nat /\ k - 1 < x /\ k - 1 + 1 = k
      BY <2>3
    <3>2. k - 1 \notin S
      BY <2>2, <2>3, <3>1
    <3> QED
      BY <3>1, <3>2
  <2>5. Ends(x)
    BY <2>2, <2>4
  <2> HIDE DEF Ends, S
  <2>6. \E n \in 0 .. Capacity : Ends(n)
    BY <2>3, <2>5
  <2>7. Mergeable(i) = CHOOSE n \in 0 .. Capacity : Ends(n)
    BY <1>1 DEF Mergeable, Ends
  <2>8. Mergeable(i) \in 0 .. Capacity /\ Ends(Mergeable(i))
    BY <2>6, <2>7
  <2> QED
    BY <1>1, <2>8 DEF Ends
<1>2. CASE ~(map[i].type = "usable" /\ DESCRIPTOR_AVAILABLE(map[i]))
  <2>1. Mergeable(i) = 0
    BY <1>2 DEF Mergeable
  <2> QED
    BY <2>1
<1> QED
  BY <1>1, <1>2

\* A descriptor grows up to the one after it.
LEMMA WidenKeeps ==
  ASSUME NEW m, NEW l, Table(m, l), Full(m, l), SortedTo(m, l, l), NEW i \in 0 .. l - 1,
         NEW n \in Nat, n > 0, m[i].va + n <= Top + 1,
         \A k \in i + 1 .. l - 1 : m[i].va + n <= m[k].va
  PROVE  LET w == [m EXCEPT ![i].pages = n]
         IN  Table(w, l) /\ Full(w, l) /\ SortedTo(w, l, l)
<1> DEFINE d == [m[i] EXCEPT !.pages = n]
           w == [m EXCEPT ![i] = d]
<1>1. /\ m \in [Slots -> Descr] /\ l \in Nat /\ i \in Slots /\ \A k \in 0 .. l - 1 : k \in Slots
  BY ConstantTypes DEF Table, Slots
<1>2. m[i].va \in Nat /\ n \in 0 .. Top + 1
  BY <1>1, DescrType, ConstantTypes
<1>3. d \in Descr /\ d.va = m[i].va /\ d.pages = n /\ d.flags = m[i].flags
  BY <1>1, <1>2 DEF Descr
<1> HIDE DEF d
<1>4. w \in [Slots -> Descr] /\ w[i] = d /\ \A k \in Slots : k # i => w[k] = m[k]
  BY <1>1, <1>3
<1> HIDE DEF w
<1>5. \A k \in Slots : DESCRIPTOR_VALID(w[k]) <=> DESCRIPTOR_VALID(m[k])
  BY <1>3, <1>4 DEF DESCRIPTOR_VALID
<1>6. \A k \in 0 .. l - 1 : w[k].va = m[k].va /\ w[k].pages > 0
  BY <1>1, <1>3, <1>4 DEF Full
<1>7. \A k \in 0 .. l - 1 : w[k].va + w[k].pages <= Top + 1
  BY <1>1, <1>3, <1>4 DEF Table
<1>8. ASSUME NEW j \in 0 .. l - 1, NEW k \in 0 .. l - 1, j < k
      PROVE  w[j].va + w[j].pages <= w[k].va
  <2>1. CASE j = i
    BY <2>1, <1>3, <1>4, <1>6, <1>8
  <2>2. CASE j # i
    <3>1. w[j] = m[j] /\ w[k].va = m[k].va
      BY <2>2, <1>1, <1>4, <1>6
    <3> QED
      BY <3>1, <1>8, SortedEnds
  <2> QED
    BY <2>1, <2>2
<1>9. \A j, k \in 0 .. l - 1 : j # k => Apart(w[j], w[k])
  BY <1>8 DEF Apart
<1>10. Table(w, l)
  BY <1>1, <1>4, <1>5, <1>7, <1>9 DEF Table
<1>11. Full(w, l) /\ SortedTo(w, l, l)
  BY <1>6 DEF Full, SortedTo
<1>12. w = [m EXCEPT ![i].pages = n]
  BY DEF w, d
<1> QED
  BY <1>10, <1>11, <1>12

\* What compress_map makes of the map at slot i.
Compressed(i) ==
    Removed([map EXCEPT ![i].pages = PagesFrom(i, Mergeable(i))], i + 1, Mergeable(i))

\* What is merged into slot i is in use and continues it; closing the gap
\* commutes with the new number of pages of slot i.
LEMMA MergedSlots ==
  ASSUME Table(map, last), NEW i \in 0 .. last - 1, NEW n \in Nat, n = Mergeable(i)
  PROVE  /\ i + n \in 0 .. last - 1
         /\ \A k \in i + 1 .. i + n : map[k].type = map[i].type
         /\ n > 0 => map[i].type = "usable"
         /\ map[i].va + PagesFrom(i, n) = map[i + n].va + map[i + n].pages
         /\ PagesFrom(i, n) \in Int
         /\ Compressed(i) = [Removed(map, i + 1, n) EXCEPT ![i].pages = PagesFrom(i, n)]
<1>1. /\ map \in [Slots -> Descr] /\ last \in Nat /\ last <= Capacity /\ i \in Slots
      /\ \A k \in Slots : DESCRIPTOR_VALID(map[k]) <=> k < last
  BY ConstantTypes DEF Table, Slots
<1>2. /\ \A k \in 1 .. n : Continues(i, k)
      /\ ~(map[i].type = "usable" /\ DESCRIPTOR_AVAILABLE(map[i])) => n = 0
  BY <1>1, MergeableStops
<1>3. ASSUME NEW k \in 1 .. n
      PROVE  i + k < last /\ map[i + k].type = map[i].type
  <2>1. i + k \in Slots /\ map[i + k].flags = map[i].flags /\ map[i + k].type = map[i].type
    BY <1>1, <1>2, ConstantTypes DEF Continues, Slots
  <2>2. DESCRIPTOR_VALID(map[i])
    BY <1>1
  <2> QED
    BY <1>1, <2>1, <2>2 DEF DESCRIPTOR_VALID
<1>4. i + n \in 0 .. last - 1
  <2>1. n \in 1 .. n \/ n = 0
    OBVIOUS
  <2> QED
    BY <1>1, <1>3, <2>1
<1>5. ASSUME NEW k \in i + 1 .. i + n
      PROVE  map[k].type = map[i].type
  <2>1. k - i \in 1 .. n /\ i + (k - i) = k
    OBVIOUS
  <2> QED
    BY <1>3, <2>1
<1>6. PagesFrom(i, n) = map[i + n].va + map[i + n].pages - map[i].va
  BY <1>1, <1>2, PagesFromEnds
<1>7. /\ map[i].va \in Nat /\ map[i + n].va \in Nat /\ map[i + n].pages \in Nat
  BY <1>1, <1>4, DescrType, ConstantTypes DEF Slots
<1>8. PICK P \in Int : P = PagesFrom(i, n)
  BY <1>6, <1>7
<1>9. Compressed(i) = [Removed(map, i + 1, n) EXCEPT ![i].pages = P]
  <2> DEFINE d == [map[i] EXCEPT !.pages = P]
             e == [map EXCEPT ![i] = d]
             r == Removed(map, i + 1, n)
  <2>1. Compressed(i) = Removed(e, i + 1, n)
    BY <1>8 DEF Compressed
  <2>2. r[i] = map[i] /\ DOMAIN r = Slots
    BY <1>1 DEF Removed
  <2>3. [r EXCEPT ![i].pages = P] = [r EXCEPT ![i] = d]
    BY <2>2
  <2> HIDE DEF d
  <2>4. \A k \in Slots : e[k] = IF k = i THEN d ELSE map[k]
    BY <1>1
  <2> HIDE DEF e
  <2>5. \A k \in Slots : Removed(e, i + 1, n)[k] =
          IF k < i + 1 THEN e[k] ELSE IF k + n < Capacity THEN e[k + n] ELSE Zero
    BY DEF Removed
  <2>6. \A k \in Slots : r[k] =
          IF k < i + 1 THEN map[k] ELSE IF k + n < Capacity THEN map[k + n] ELSE Zero
    BY DEF Removed
  <2>7. Removed(e, i + 1, n) \in [Slots -> {Removed(e, i + 1, n)[k] : k \in Slots}]
        /\ DOMAIN Removed(e, i + 1, n) = Slots
    BY DEF Removed
  <2>8. ASSUME NEW k \in Slots
        PROVE  Removed(e, i + 1, n)[k] = [r EXCEPT ![i] = d][k]
    <3>1. CASE k = i
      BY <3>1, <1>1, <2>2, <2>4, <2>5
    <3>2. CASE k < i
      BY <3>2, <1>1, <2>2, <2>4, <2>5, <2>6, ConstantTypes DEF Slots
    <3>3. CASE k > i /\ k + n < Capacity
      <4>1. k + n \in Slots /\ k + n # i /\ ~(k < i + 1) /\ k # i
        BY <3>3, <1>1, ConstantTypes DEF Slots
      <4> QED
        BY <3>3, <4>1, <2>2, <2>4, <2>5, <2>6
    <3>4. CASE k > i /\ ~(k + n < Capacity)
      BY <3>4, <1>1, <2>2, <2>5, <2>6, ConstantTypes DEF Slots
    <3> QED
      BY <3>1, <3>2, <3>3, <3>4, ConstantTypes DEF Slots
  <2>9. Removed(e, i + 1, n) = [k \in Slots |-> Removed(e, i + 1, n)[k]]
    BY DEF Removed
  <2>10. [r EXCEPT ![i] = d] = [k \in Slots |-> [r EXCEPT ![i] = d][k]]
    BY <2>2
  <2> QED
    BY <2>1, <2>3, <2>8, <2>9, <2>10
<1> QED
  BY <1>2, <1>4, <1>5, <1>6, <1>7, <1>8, <1>9

LEMMA CompressKeeps ==
  ASSUME Table(map, last), Full(map, last), Covers(map, last), SortedTo(map, last, last),
         NEW i \in 0 .. last - 1
  PROVE  LET h == last - Mergeable(i)
         IN  /\ Table(Compressed(i), h) /\ Full(Compressed(i), h)
             /\ Covers(Compressed(i), h) /\ SortedTo(Compressed(i), h, h)
<1>1. /\ map \in [Slots -> Descr] /\ last \in Nat /\ last <= Capacity
      /\ i \in Slots /\ \A k \in 0 .. last - 1 : k \in Slots
  BY ConstantTypes DEF Table, Slots
<1>2. PICK n \in Nat : n = Mergeable(i)
  BY <1>1, MergeableStops
<1>3. /\ i + n \in 0 .. last - 1
      /\ map[i].va + PagesFrom(i, n) = map[i + n].va + map[i + n].pages
      /\ PagesFrom(i, n) \in Int
      /\ Compressed(i) = [Removed(map, i + 1, n) EXCEPT ![i].pages = PagesFrom(i, n)]
  BY <1>2, MergedSlots
<1>4. PICK P \in Int : P = PagesFrom(i, n)
  BY <1>3
<1>5. PICK r : r = Removed(map, i + 1, n)
  OBVIOUS
<1>6. PICK h \in Int : h = last - n
  BY <1>1
<1>7. Closes(map, last, i + 1, n, r, h)
  <2>1. PICK k \in Nat : k = i + 1
    BY <1>1
  <2>2. k + n <= last
    BY <1>1, <1>3, <2>1
  <2>3. Closes(map, last, k, n, Removed(map, k, n), last - n)
    BY <2>2, RemovedKeeps
  <2> QED
    BY <1>5, <1>6, <2>1, <2>3
<1>0. \A j, k \in 0 .. last - 1 : j < k => map[j].va < map[k].va
  BY <1>1 DEF SortedTo
<1>8. \A k \in 0 .. last - 1 : map[k].va \in Nat /\ map[k].pages \in Nat /\ map[k].pages > 0
  BY <1>1, DescrType DEF Full
<1>9. r[i] = map[i] /\ i \in 0 .. h - 1
  BY <1>1, <1>3, <1>5, <1>6, ConstantTypes DEF Removed
<1>10. Table(r, h) /\ Full(r, h) /\ SortedTo(r, h, h)
  BY <1>7, <1>8 DEF Closes
<1>11. map[i].va <= map[i + n].va
  <2>1. n = 0 => map[i + n] = map[i]
    BY <1>1, ConstantTypes
  <2>2. n > 0 => map[i].va < map[i + n].va
    BY <1>0, <1>3
  <2>3. map[i].va \in Nat /\ map[i + n].va \in Nat
    BY <1>3, <1>8
  <2> QED
    BY <2>1, <2>2, <2>3
<1>12. P \in Nat /\ P > 0 /\ map[i].va + P <= Top + 1 /\ map[i].va + P = map[i + n].va + map[i + n].pages
  BY <1>3, <1>4, <1>8, <1>11 DEF Table
<1>13. ASSUME NEW k \in i + 1 .. h - 1
       PROVE  r[i].va + P <= r[k].va
  <2>1. k \in 0 .. h - 1 /\ i < k
    BY <1>9
  <2>2. PICK j \in 0 .. last - 1 : (j < i + 1 \/ j >= i + 1 + n) /\ r[k] = map[j]
    BY <1>7, <2>1 DEF Closes
  <2>3. map[i].va < map[j].va
    BY <1>9, <1>10, <2>1, <2>2 DEF SortedTo
  <2>4. ~(j < i) /\ j # i
    BY <1>0, <1>8, <2>3
  <2>5. i + n < j
    BY <2>2, <2>4
  <2> QED
    BY <1>3, <1>9, <1>12, <2>2, <2>5, SortedEnds
<1> DEFINE w == [r EXCEPT ![i].pages = P]
<1>14. Table(w, h) /\ Full(w, h) /\ SortedTo(w, h, h)
  BY <1>9, <1>10, <1>12, <1>13, WidenKeeps
<1>15. w[i].va = map[i].va /\ w[i].pages = P /\ \A k \in 0 .. h - 1 : k # i => w[k] = r[k]
  <2>1. r \in [Slots -> Descr] /\ \A k \in 0 .. h - 1 : k \in Slots
    BY <1>10, ConstantTypes DEF Table, Slots
  <2>2. r[i] \in Descr
    BY <1>9, <2>1
  <2> QED
    BY <1>1, <1>9, <2>1, <2>2 DEF Descr
<1> HIDE DEF w
<1>16. ASSUME NEW p \in BootPages
       PROVE  \E k \in 0 .. h - 1 : p \in PagesOf(w[k])
  <2>1. PICK j \in 0 .. last - 1 : p \in PagesOf(map[j])
    BY DEF Covers
  <2>2. CASE j \in i .. i + n
    <3>1. map[i].va <= map[j].va
      <4>1. j = i \/ i < j
        BY <2>2
      <4> QED
        BY <4>1, <1>0, <1>8
    <3>2. map[j].va + map[j].pages <= map[i + n].va + map[i + n].pages
      <4>1. j = i + n \/ j < i + n
        BY <2>2
      <4>2. CASE j < i + n
        BY <4>2, <1>3, <1>8, SortedEnds
      <4> QED
        BY <4>1, <4>2, <1>3, <1>8
    <3>3. p \in PagesOf(w[i])
      BY <3>1, <3>2, <2>1, <1>3, <1>8, <1>12, <1>15 DEF PagesOf
    <3> QED
      BY <3>3, <1>9
  <2>3. CASE j \notin i .. i + n
    <3>1. j < i + 1 \/ j >= i + 1 + n
      BY <2>3
    <3>2. PICK k \in 0 .. h - 1 : r[k] = map[j]
      BY <3>1, <1>7 DEF Closes
    <3>3. k # i
      <4>1. j < i \/ i < j
        BY <2>3
      <4>2. map[j].va # map[i].va
        BY <4>1, <1>0, <1>8
      <4> QED
        BY <4>2, <3>2, <1>9
    <3> QED
      BY <2>1, <3>2, <3>3, <1>15
  <2> QED
    BY <2>2, <2>3
<1>17. Covers(w, h)
  BY <1>16 DEF Covers
<1>18. Compressed(i) = w
  BY <1>3, <1>4, <1>5 DEF w
<1> QED
  BY <1>2, <1>6, <1>14, <1>17, <1>18

\* A change of what the descriptors say of their pages, and of nothing else.
LEMMA RelabelKeeps ==
  ASSUME NEW m, NEW l, NEW w \in [Slots -> Descr], Table(m, l),
         \A k \in 0 .. l - 1 : w[k].va = m[k].va /\ w[k].pages = m[k].pages,
         \A k \in Slots : DESCRIPTOR_VALID(w[k]) <=> DESCRIPTOR_VALID(m[k])
  PROVE  /\ Table(w, l)
         /\ Full(m, l) => Full(w, l)
         /\ Covers(m, l) => Covers(w, l)
         /\ SortedTo(m, l, l) => SortedTo(w, l, l)
<1>1. Table(w, l)
  BY DEF Table, Apart
<1>2. Full(m, l) => Full(w, l)
  BY DEF Full
<1>3. Covers(m, l) => Covers(w, l)
  <2>1. \A k \in 0 .. l - 1 : PagesOf(w[k]) = PagesOf(m[k])
    BY DEF PagesOf
  <2> QED
    BY <2>1 DEF Covers
<1>4. SortedTo(m, l, l) => SortedTo(w, l, l)
  BY DEF SortedTo
<1> QED
  BY <1>1, <1>2, <1>3, <1>4

\* What kfree_page makes of the map when the area starts at slot k.
Freed(k) ==
    [j \in Slots |-> IF j \in Chain(k)
                     THEN init_descriptor(map[j].va, 0, map[j].pages,
                                          {"avail", "valid", "unk"}, "usable")
                     ELSE map[j]]

LEMMA FreedKeeps ==
  ASSUME Table(map, last), NEW k \in Nat
  PROVE  /\ Table(Freed(k), last)
         /\ Full(map, last) => Full(Freed(k), last)
         /\ Covers(map, last) => Covers(Freed(k), last)
         /\ SortedTo(map, last, last) => SortedTo(Freed(k), last, last)
<1>1. /\ map \in [Slots -> Descr] /\ last \in Nat /\ last <= Capacity
      /\ \A j \in 0 .. last - 1 : j \in Slots
      /\ \A j \in Slots : DESCRIPTOR_VALID(map[j]) <=> j < last
  BY ConstantTypes DEF Table, Slots
<1>2. ASSUME NEW j \in Slots
      PROVE  /\ Freed(k)[j] \in Descr
             /\ Freed(k)[j].va = map[j].va /\ Freed(k)[j].pages = map[j].pages
             /\ DESCRIPTOR_VALID(Freed(k)[j]) <=> DESCRIPTOR_VALID(map[j])
  <2>1. CASE j \in Chain(k)
    <3> DEFINE d == init_descriptor(map[j].va, 0, map[j].pages, {"avail", "valid", "unk"}, "usable")
    <3>1. Freed(k)[j] = d
      BY <2>1 DEF Freed
    <3>2. DESCRIPTOR_VALID(map[j]) /\ j \in 0 .. last - 1
      BY <2>1, <1>1, ConstantTypes DEF Chain, Slots
    <3>3. map[j].va \in Nat /\ map[j].pages \in Nat /\ map[j].va + map[j].pages <= Top + 1
      BY <3>2, <1>1, DescrType DEF Table
    <3>4. {"avail", "valid", "unk"} \in SUBSET FlagNames /\ "usable" \in Types /\ 0 \in Frames
      BY ConstantTypes DEF FlagNames, Types, Frames
    <3>5. d \in Descr
      BY <3>3, <3>4, DescrIntro
    <3> QED
      BY <3>1, <3>2, <3>5 DEF init_descriptor, DESCRIPTOR_VALID
  <2>2. CASE j \notin Chain(k)
    BY <2>2, <1>1 DEF Freed
  <2> QED
    BY <2>1, <2>2
<1>3. Freed(k) \in [Slots -> Descr]
  <2>1. Freed(k) = [j \in Slots |-> Freed(k)[j]]
    BY DEF Freed
  <2> QED
    BY <2>1, <1>2
<1> QED
  BY <1>1, <1>2, <1>3, RelabelKeeps

-----------------------------------------------------------------------------
(* The call in progress.                                                   *)

LEMMA AllocForm ==
  ASSUME CallForm, call.op = "alloc"
  PROVE  /\ call = [op |-> "alloc", base |-> call.base, n |-> call.n, ind |-> call.ind,
                    frames |-> call.frames, m |-> call.m, new |-> call.new]
         /\ call.n \in 1 .. MaxRequest /\ call.m \in 0 .. call.n
         /\ call.n \in Nat /\ call.m \in Nat
         /\ call.frames \in [1 .. call.n -> Frames] /\ Range(call.frames) \subseteq Frames
<1>1. /\ call = [op |-> "alloc", base |-> call.base, n |-> call.n, ind |-> call.ind,
                 frames |-> call.frames, m |-> call.m, new |-> call.new]
      /\ call.n \in 1 .. MaxRequest /\ call.m \in 0 .. call.n
      /\ call.frames \in [1 .. call.n -> Frames]
  BY DEF CallForm, Idle
<1>2. call.n \in Nat /\ call.m \in Nat
  BY <1>1, MemMapAssumption
<1>3. Range(call.frames) \subseteq Frames
  BY <1>1 DEF Range
<1> QED
  BY <1>1, <1>2, <1>3

LEMMA TakenForm ==
  ASSUME CallForm, call.op = "alloc", call.m < call.n, Taken
  PROVE  CallForm'
<1>0. call = [op |-> "alloc", base |-> call.base, n |-> call.n, ind |-> call.ind,
              frames |-> call.frames, m |-> call.m, new |-> call.new]
  BY AllocForm
<1>1. call' = [call EXCEPT !.m = call.m + 1, !.new = [call.new EXCEPT !.pages = @ + 1]]
  BY <1>0 DEF Taken
<1>2. call.m + 1 \in 0 .. call.n
  BY AllocForm
<1> QED
  BY <1>1, <1>2, AllocForm DEF CallForm

LEMMA MapsTypes ==
  ASSUME free \subseteq Frames, tab \subseteq Frames, pt \in [Pages -> Frames], regular \in BOOLEAN,
         NEW page, NEW frame \in Frames, Maps(page, frame)
  PROVE  free' \subseteq Frames /\ tab' \subseteq Frames /\ pt' \in [Pages -> Frames] /\ regular' \in BOOLEAN
<1>1. PICK T \in SUBSET free :
        /\ free' = free \ T /\ tab' = tab \union T /\ pt' = [pt EXCEPT ![page] = frame]
        /\ regular' = (regular /\ Reachable(pt', tab'))
  BY DEF Maps, kSubset
<1> QED
  BY <1>1

LEMMA MapsAstrayTypes ==
  ASSUME free \subseteq Frames, tab \subseteq Frames, pt \in [Pages -> Frames],
         NEW page, MapsAstray(page)
  PROVE  free' \subseteq Frames /\ tab' \subseteq Frames /\ pt' \in [Pages -> Frames] /\ regular' = FALSE
<1>1. PICK T \in SUBSET free : free' = free \ T /\ tab' = tab \union T
  BY DEF MapsAstray, kSubset
<1> QED
  BY <1>1 DEF MapsAstray

LEMMA CallInvHolds ==
  ASSUME CallInv, [Next]_vars
  PROVE  CallInv'
<1>1. free \subseteq Frames /\ tab \subseteq Frames /\ pt \in [Pages -> Frames]
      /\ regular \in BOOLEAN /\ CallForm
  BY DEF CallInv
<1>2. ASSUME NEW n \in 1 .. MaxRequest, kalloc_page(n)
      PROVE  CallInv'
  <2>1. PICK k \in find_available_virtual_memory(n), f \in Injection(1 .. n, free) :
         /\ call' = [op |-> "alloc", base |-> map[k].va, n |-> n, ind |-> k,
                     frames |-> f, m |-> 0,
                     new |-> init_descriptor(map[k].va, f[1], 0, {"valid"},
                                             "kernel_reserved")]
         /\ free' = free \ Range(f)
    BY <1>2 DEF kalloc_page
  <2>2. f \in [1 .. n -> Frames]
    BY <1>1 DEF Injection
  <2>3. n \in Nat /\ n >= 1 /\ n \in 1 .. MaxRequest
    BY <1>2, MemMapAssumption
  <2>4. CallForm'
    BY <2>1, <2>2, <2>3 DEF CallForm
  <2> QED
    BY <1>1, <1>2, <2>1, <2>4 DEF kalloc_page, CallInv
<1>3. ASSUME NEW n \in 1 .. MaxRequest, kalloc_page_refused(n)
      PROVE  CallInv'
  <2>1. CallForm'
    BY <1>1, <1>3 DEF kalloc_page_refused, CallForm
  <2> QED
    BY <1>1, <1>3, <2>1 DEF kalloc_page_refused, CallInv
<1>4. CASE kalloc_page_split
  <2>1. call.op = "alloc"
    BY <1>4 DEF kalloc_page_split
  <2>2. PICK d : call' = [call EXCEPT !.new = d]
    BY <1>4 DEF kalloc_page_split
  <2>3. CallForm'
    BY <1>1, <2>1, <2>2, AllocForm DEF CallForm
  <2>4. free' \subseteq Frames
    BY <1>1, <1>4, <2>1, AllocForm DEF kalloc_page_split, Refunded
  <2> QED
    BY <1>1, <1>4, <2>3, <2>4 DEF kalloc_page_split, CallInv
<1>5. CASE kalloc_page_map
  <2>1. call.op = "alloc" /\ call.m < call.n /\ Taken
    BY <1>5 DEF kalloc_page_map, PageToMap
  <2>2. CallForm'
    BY <1>1, <2>1, TakenForm
  <2>3. call.frames[call.m + 1] \in Frames
    BY <1>1, <2>1, AllocForm
  <2>4. free' \subseteq Frames /\ tab' \subseteq Frames /\ pt' \in [Pages -> Frames] /\ regular' \in BOOLEAN
    <3>1. CASE Maps(call.base + call.m, call.frames[call.m + 1])
      BY <1>1, <2>3, <3>1, MapsTypes
    <3>2. CASE MapsAstray(call.base + call.m)
      BY <1>1, <3>2, MapsAstrayTypes
    <3> QED
      BY <1>5, <3>1, <3>2 DEF kalloc_page_map
  <2> QED
    BY <2>2, <2>4 DEF CallInv
<1>6. CASE kalloc_page_unmapped
  <2>1. call.op = "alloc" /\ call.m < call.n /\ Taken
    BY <1>6 DEF kalloc_page_unmapped, PageToMap
  <2>2. CallForm'
    BY <1>1, <2>1, TakenForm
  <2>3. free' \subseteq Frames
    BY <1>1, <1>6, <2>1, AllocForm DEF kalloc_page_unmapped
  <2>4. PICK T \in SUBSET free : CannotMap(call.base + call.m, T)
    BY <1>6 DEF kalloc_page_unmapped
  <2>5. tab' \subseteq Frames /\ pt' \in [Pages -> Frames] /\ regular' \in BOOLEAN
    BY <1>1, <2>4 DEF CannotMap
  <2> QED
    BY <2>2, <2>3, <2>5 DEF CallInv
<1>7. CASE kalloc_page_end
  <2>1. call.op = "alloc" /\ call' = [op |-> "order", i |-> 0, base |-> call.base, n |-> call.n]
    BY <1>7 DEF kalloc_page_end
  <2>2. call.n \in 1 .. MaxRequest /\ call.n > 0 /\ Range(call.frames) \subseteq Frames
    BY <1>1, <2>1, AllocForm
  <2>3. CallForm'
    BY <2>1, <2>2 DEF CallForm
  <2>4. free' \subseteq Frames
    BY <1>1, <1>7, <2>2 DEF kalloc_page_end, Refunded
  <2> QED
    BY <1>1, <1>7, <2>3, <2>4 DEF kalloc_page_end, CallInv
<1>8. CASE order_map
  <2>1. call.op = "order" /\ call' = [call EXCEPT !.i = @ + 1]
    BY <1>8 DEF order_map
  <2>2. CallForm'
    BY <1>1, <2>1 DEF CallForm, Idle
  <2> QED
    BY <1>1, <1>8, <2>2 DEF order_map, CallInv
<1>9. CASE order_map_end
  <2>1. CallForm'
    BY <1>9 DEF order_map_end, CallForm
  <2> QED
    BY <1>1, <1>9, <2>1 DEF order_map_end, CallInv
<1>10. ASSUME NEW area \in held, kfree_page(area)
       PROVE  CallInv'
  <2>1. CallForm'
    BY <1>10 DEF kfree_page, CallForm
  <2>2. free' \subseteq Frames
    BY <1>1, <1>10 DEF kfree_page
  <2> QED
    BY <1>1, <1>10, <2>1, <2>2 DEF kfree_page, CallInv
<1>11. CASE compress_map
  <2>1. call.op = "compress" /\ call' = [call EXCEPT !.i = @ + 1]
    BY <1>11 DEF compress_map
  <2>2. CallForm'
    BY <1>1, <2>1 DEF CallForm, Idle
  <2> QED
    BY <1>1, <1>11, <2>2 DEF compress_map, CallInv
<1>12. CASE compress_map_end
  <2>1. CallForm'
    BY <1>12 DEF compress_map_end, CallForm
  <2> QED
    BY <1>1, <1>12, <2>1 DEF compress_map_end, CallInv
<1>13. ASSUME NEW page \in Pages, NEW frame \in Frames, kmap_page(page, frame)
       PROVE  CallInv'
  <2>1. call' = Idle \/ call' = [op |-> "order", i |-> 0, base |-> page, n |-> 0, frame |-> frame]
    BY <1>13 DEF kmap_page
  <2>2. CallForm'
    BY <2>1 DEF CallForm
  <2> QED
    BY <1>1, <1>13, <2>2 DEF kmap_page, CallInv
<1>14. CASE kmap_page_end
  <2>1. CallForm'
    BY <1>14 DEF kmap_page_end, CallForm
  <2>2. call.frame \in Frames
    BY <1>1, <1>14 DEF kmap_page_end, CallForm, Idle
  <2>3. free' \subseteq Frames /\ tab' \subseteq Frames /\ pt' \in [Pages -> Frames] /\ regular' \in BOOLEAN
    <3>1. CASE Maps(call.base, call.frame)
      BY <1>1, <2>2, <3>1, MapsTypes
    <3>2. CASE MapsAstray(call.base)
      BY <1>1, <3>2, MapsAstrayTypes
    <3>3. CASE \E T \in SUBSET free : CannotMap(call.base, T) /\ free' = free \ T
      BY <1>1, <3>3 DEF CannotMap
    <3> QED
      BY <1>14, <3>1, <3>2, <3>3 DEF kmap_page_end
  <2> QED
    BY <2>1, <2>3 DEF CallInv
<1>15. CASE UNCHANGED vars
  BY <1>1, <1>15 DEF vars, CallInv, CallForm
<1> QED
  BY <1>2, <1>3, <1>4, <1>5, <1>6, <1>7, <1>8, <1>9, <1>10, <1>11, <1>12, <1>13, <1>14, <1>15
     DEF Next, Calls, Unused

-----------------------------------------------------------------------------
(* The map.                                                                *)

LEMMA StartKeeps ==
  ASSUME NEW m, NEW l, Table(m, l), Full(m, l), Covers(m, l), NEW n \in Nat, n > 0,
         NEW k \in 0 .. l - 1, m[k].type = "usable", m[k].pages >= n, NEW frame \in Frames
  PROVE  Building(m, l, m[k].va, n, k, 0,
                  init_descriptor(m[k].va, frame, 0, {"valid"}, "kernel_reserved"))
<1> DEFINE new == init_descriptor(m[k].va, frame, 0, {"valid"}, "kernel_reserved")
<1>1. \A j \in 0 .. l - 1 : m[j].va \in Nat /\ m[j].pages \in Nat /\ m[j].pages > 0
  BY ConstantTypes, DescrType DEF Table, Slots, Full
<1>2. m[k].va + 0 <= Top + 1 /\ m[k].va \in Nat
  BY <1>1, ConstantTypes DEF Table
<1>3. /\ new \in Descr /\ new.flags = {"valid"} /\ new.type = "kernel_reserved"
      /\ new.va = m[k].va /\ new.pa = frame /\ new.pages = 0
  <2>1. {"valid"} \in SUBSET FlagNames /\ "kernel_reserved" \in Types
    BY DEF FlagNames, Types
  <2>2. new \in Descr
    BY <1>2, <2>1, DescrIntro
  <2> QED
    BY <2>2 DEF init_descriptor
<1> HIDE DEF new
<1>4. ASSUME NEW j \in 0 .. l - 1
      PROVE  Apart(new, m[j])
  <2>1. CASE j = k
    BY <2>1, <1>1, <1>3 DEF Apart
  <2>2. CASE j # k
    <3>1. Apart(m[k], m[j])
      BY <2>2 DEF Table
    <3> QED
      BY <3>1, <1>1, <1>3 DEF Apart
  <2> QED
    BY <2>1, <2>2
<1>5. Building(m, l, m[k].va, n, k, 0, new)
  BY <1>1, <1>2, <1>3, <1>4 DEF Building, Full, Covers
<1> QED
  BY <1>5 DEF new

LEMMA RegularBefore ==
  ASSUME CallInv, [Next]_vars, regular'
  PROVE  regular
<1>1. regular \in BOOLEAN
  BY DEF CallInv
<1> QED
  BY <1>1 DEF Next, Calls, Unused, vars, kalloc_page, kalloc_page_refused, kalloc_page_split, kalloc_page_map,
     kalloc_page_unmapped, kalloc_page_end, order_map, order_map_end, kfree_page, compress_map,
     compress_map_end, kmap_page, kmap_page_end, Maps, MapsAstray, CannotMap

LEMMA MapInvHolds ==
  ASSUME CallInv, MapInv, [Next]_vars, regular'
  PROVE  MapInv'
<1>1. /\ CallForm /\ regular /\ free \subseteq Frames
      /\ Table(map, last) /\ last \in Nat /\ last <= Capacity
      /\ map \in [Slots -> Descr]
      /\ \A k \in Slots : DESCRIPTOR_VALID(map[k]) <=> k < last
  BY RegularBefore, ConstantTypes DEF CallInv, MapInv, Table
<1>2. ASSUME NEW n \in 1 .. MaxRequest, kalloc_page(n)
      PROVE  MapInv'
  <2>1. PICK k \in find_available_virtual_memory(n), f \in Injection(1 .. n, free) :
         call' = [op |-> "alloc", base |-> map[k].va, n |-> n, ind |-> k,
                  frames |-> f, m |-> 0,
                  new |-> init_descriptor(map[k].va, f[1], 0, {"valid"}, "kernel_reserved")]
    BY <1>2 DEF kalloc_page
  <2>2. n \in Nat /\ n > 0 /\ 1 \in 1 .. n
    BY MemMapAssumption
  <2>3. f[1] \in Frames
    BY <1>1, <2>2 DEF Injection
  <2>4. k \in Slots /\ Suits(k, n)
    BY DEF find_available_virtual_memory
  <2>5. DESCRIPTOR_VALID(map[k]) /\ map[k].pages >= n /\ map[k].type = "usable"
    BY <2>4, ConstantTypes DEF Suits, Slots
  <2>6. k \in 0 .. last - 1
    BY <1>1, <2>4, <2>5, ConstantTypes DEF Slots
  <2>7. Full(map, last) /\ Covers(map, last)
    BY <1>2 DEF kalloc_page, MapInv, Idle
  <2>8. Building(map, last, map[k].va, n, k, 0,
                 init_descriptor(map[k].va, f[1], 0, {"valid"}, "kernel_reserved"))
    BY <1>1, <2>2, <2>3, <2>5, <2>6, <2>7, StartKeeps
  <2> QED
    BY <1>1, <1>2, <2>1, <2>8 DEF kalloc_page, MapInv
<1>3. ASSUME NEW n \in 1 .. MaxRequest, kalloc_page_refused(n)
      PROVE  MapInv'
  BY <1>3 DEF kalloc_page_refused, MapInv
<1>4. CASE kalloc_page_split
  <2>1. call.op = "alloc" /\ call.m < call.n /\ call.m \in 1 .. call.n - 1 /\ call.new.pages > 0
    BY <1>1, <1>4, AllocForm DEF kalloc_page_split, RunEnds
  <2>2. /\ call.n \in Nat /\ call.m \in Nat /\ call.frames[call.m + 1] \in Frames
    BY <1>1, <2>1, AllocForm
  <2>3. last < Capacity /\ call.new.va = call.base
    BY <1>4 DEF kalloc_page_split
  <2>4. Building(map, last, call.base, call.n, call.ind, call.m, call.new)
    BY <2>1 DEF MapInv
  <2> DEFINE m2 == [map EXCEPT ![last] = [call.new EXCEPT !.flags = @ \union {"next"}]]
             next == init_descriptor(call.base + call.m, call.frames[call.m + 1], 0, {"valid"},
                                     "kernel_reserved")
  <2>5. Table(m2, last + 1) /\ Building(m2, last + 1, call.base, call.n, call.ind, call.m, next)
    BY <1>1, <2>1, <2>2, <2>3, <2>4, SplitKeeps
  <2>6. map' = m2 /\ last' = last + 1 /\ call' = [call EXCEPT !.new = next]
    BY <1>4, <2>3 DEF kalloc_page_split, Put
  <2> HIDE DEF m2, next
  <2>7. /\ call'.op = "alloc" /\ call'.base = call.base /\ call'.n = call.n /\ call'.ind = call.ind
        /\ call'.m = call.m /\ call'.new = next
    BY <1>1, <2>1, <2>6, AllocForm
  <2> QED
    BY <2>5, <2>6, <2>7 DEF MapInv
<1>5. CASE kalloc_page_map
  <2>1. call.op = "alloc" /\ call.m < call.n /\ Taken
    BY <1>5 DEF kalloc_page_map, PageToMap
  <2>2. /\ call.n \in Nat /\ call.m \in Nat
    BY <1>1, <2>1, AllocForm
  <2>3. Building(map, last, call.base, call.n, call.ind, call.m, call.new)
    BY <2>1 DEF MapInv
  <2> DEFINE m2 == [map EXCEPT ![call.ind].va = @ + 1, ![call.ind].pages = @ - 1]
             new == [call.new EXCEPT !.pages = @ + 1]
  <2>4. Table(m2, last) /\ Building(m2, last, call.base, call.n, call.ind, call.m + 1, new)
    BY <1>1, <2>1, <2>2, <2>3, TakeKeeps
  <2>5. map' = m2 /\ last' = last
    BY <1>5, <2>1 DEF kalloc_page_map, Taken
  <2> HIDE DEF m2
  <2>6. call = [op |-> "alloc", base |-> call.base, n |-> call.n, ind |-> call.ind,
                frames |-> call.frames, m |-> call.m, new |-> call.new]
    BY <1>1, <2>1, AllocForm
  <2>7. /\ call'.op = "alloc" /\ call'.base = call.base /\ call'.n = call.n /\ call'.ind = call.ind
        /\ call'.m = call.m + 1 /\ call'.new = new
    BY <2>1, <2>6 DEF Taken
  <2> HIDE DEF new
  <2> QED
    BY <2>4, <2>5, <2>7 DEF MapInv
<1>6. ~kalloc_page_unmapped
  BY <1>1 DEF kalloc_page_unmapped, CannotMap
<1>7. CASE kalloc_page_end
  <2>1. call.op = "alloc" /\ call.m = call.n /\ last < Capacity
    BY <1>7 DEF kalloc_page_end
  <2>2. call.n \in Nat /\ call.n > 0
    BY <1>1, <2>1, AllocForm
  <2>3. Building(map, last, call.base, call.n, call.ind, call.n, call.new)
    BY <2>1 DEF MapInv
  <2> DEFINE m2 == WithoutEmpty([map EXCEPT ![last] = call.new], call.ind)
             l2 == IF map[call.ind].pages = 0 THEN last ELSE last + 1
  <2>4. Table(m2, l2) /\ Full(m2, l2) /\ Covers(m2, l2)
    BY <1>1, <2>1, <2>2, <2>3, EndKeeps
  <2>5. map' = m2 /\ last' = l2 /\ call' = [op |-> "order", i |-> 0, base |-> call.base, n |-> call.n]
    BY <1>7, <2>1 DEF kalloc_page_end, Put
  <2> HIDE DEF m2, l2
  <2>6. SortedTo(m2, l2, 0)
    BY DEF SortedTo
  <2> QED
    BY <2>2, <2>4, <2>5, <2>6 DEF MapInv
<1>8. CASE order_map
  <2>1. call.op = "order" /\ call.i \in Nat /\ Ordering(call.i)
    BY <1>1, <1>8 DEF order_map, CallForm, Idle
  <2>2. Full(map, last) /\ Covers(map, last) /\ call.n > 0 /\ SortedTo(map, last, call.i)
    BY <2>1 DEF MapInv
  <2> DEFINE r == Swapped(map, call.i, Selected(call.i))
  <2>3. Table(r, last) /\ Full(r, last) /\ Covers(r, last) /\ SortedTo(r, last, call.i + 1)
    BY <1>1, <2>1, <2>2, OrderKeeps
  <2>4. map' = r /\ last' = last /\ call' = [call EXCEPT !.i = call.i + 1]
    BY <1>8 DEF order_map, Swapped
  <2>5. call'.op = "order" /\ call'.i = call.i + 1 /\ call'.n = call.n
    BY <1>1, <2>1, <2>4 DEF CallForm, Idle
  <2> HIDE DEF r
  <2> QED
    BY <2>2, <2>3, <2>4, <2>5 DEF MapInv
<1>9. CASE order_map_end
  <2>1. call.op = "order" /\ ~Ordering(call.i) /\ call' = Idle /\ map' = map /\ last' = last
    BY <1>9 DEF order_map_end
  <2>2. call.i \in Nat
    BY <1>1, <2>1 DEF CallForm, Idle
  <2>3. Full(map, last) /\ Covers(map, last) /\ SortedTo(map, last, call.i)
    BY <2>1 DEF MapInv
  <2>4. Min({last, Capacity}) = last
    BY <1>1, MinOfTwo, ConstantTypes
  <2>5. call.i >= last - 1
    BY <1>1, <2>1, <2>2, <2>4, ConstantTypes DEF Ordering, Slots
  <2>6. SortedTo(map, last, last)
    BY <1>1, <2>2, <2>3, <2>5 DEF SortedTo
  <2> QED
    BY <1>1, <2>1, <2>3, <2>6 DEF MapInv, Idle
<1>10. ASSUME NEW area \in held, kfree_page(area)
       PROVE  MapInv'
  <2>1. PICK k \in Found(area.base) : map' = Freed(k)
    BY <1>10 DEF kfree_page, Freed
  <2>2. k \in Nat
    BY <2>1 DEF Found
  <2>3. Full(map, last) /\ Covers(map, last) /\ SortedTo(map, last, last)
    BY <1>10 DEF kfree_page, MapInv, Idle
  <2>4. /\ Table(Freed(k), last) /\ Full(Freed(k), last)
        /\ Covers(Freed(k), last) /\ SortedTo(Freed(k), last, last)
    BY <1>1, <2>2, <2>3, FreedKeeps
  <2>5. call' = [op |-> "compress", i |-> 0, size |-> last] /\ last' = last /\ last \in 0 .. Capacity
    BY <1>1, <1>10, ConstantTypes DEF kfree_page
  <2> QED
    BY <2>1, <2>4, <2>5 DEF MapInv
<1>11. CASE compress_map
  <2>1. call.op = "compress" /\ call.i \in Nat /\ Compressing(call.i)
    BY <1>1, <1>11 DEF compress_map, CallForm, Idle
  <2>2. /\ Full(map, last) /\ Covers(map, last) /\ SortedTo(map, last, last)
        /\ call.size \in 0 .. Capacity
    BY <2>1 DEF MapInv
  <2>3. call.i \in 0 .. last - 1
    BY <1>1, <2>1, <2>2, ConstantTypes DEF Compressing, Slots
  <2> DEFINE h == last - Mergeable(call.i)
             w == Compressed(call.i)
  <2>4. Table(w, h) /\ Full(w, h) /\ Covers(w, h) /\ SortedTo(w, h, h)
    BY <1>1, <2>2, <2>3, CompressKeeps
  <2>5. map' = w /\ last' = h /\ call' = [call EXCEPT !.i = call.i + 1]
    BY <1>11 DEF compress_map, Compressed
  <2>6. call'.op = "compress" /\ call'.size = call.size
    BY <1>1, <2>1, <2>5 DEF CallForm, Idle
  <2> HIDE DEF w, h
  <2> QED
    BY <2>2, <2>4, <2>5, <2>6 DEF MapInv
<1>12. CASE compress_map_end
  BY <1>12 DEF compress_map_end, MapInv, Idle
<1>13. \A page \in Pages, frame \in Frames : ~kmap_page(page, frame)
  BY DEF kmap_page
<1>14. ~kmap_page_end
  BY DEF kmap_page_end, MapInv
<1>15. CASE UNCHANGED vars
  BY <1>15 DEF vars, MapInv
<1> QED
  BY <1>2, <1>3, <1>4, <1>5, <1>6, <1>7, <1>8, <1>9, <1>10, <1>11, <1>12, <1>13, <1>14, <1>15
     DEF Next, Calls, Unused

LEMMA MapInvInit ==
  ASSUME Init
  PROVE  CallInv /\ MapInv
<1>1. BootMap \in Seq(Descr) /\ Len(BootMap) \in Nat /\ Len(BootMap) <= Capacity
  BY MemMapAssumption
<1>2. Zero \in Descr /\ ~DESCRIPTOR_VALID(Zero)
  BY ConstantTypes DEF Zero, Descr, init_descriptor, DESCRIPTOR_VALID, Types, FlagNames
<1> HIDE DEF Zero
<1>3. \A k \in 0 .. Len(BootMap) - 1 : k + 1 \in DOMAIN BootMap
  BY <1>1
<1>4. /\ map \in [Slots -> Descr] /\ last = Len(BootMap) /\ last \in 0 .. Capacity
      /\ \A k \in 0 .. last - 1 : k \in Slots /\ map[k] = BootMap[k + 1]
      /\ \A k \in Slots : ~(k < last) => map[k] = Zero
  BY <1>1, <1>2, <1>3, ConstantTypes DEF Init, Slots
<1>5. \A k \in 0 .. last - 1 : /\ map[k].va \in Nat /\ map[k].pages \in Nat /\ map[k].pages > 0
                              /\ DESCRIPTOR_VALID(map[k]) /\ PagesOf(map[k]) \subseteq Pages
  BY <1>3, <1>4, DescrType, MemMapAssumption
<1>6. \A j, k \in 0 .. last - 1 : j < k => map[j].va + map[j].pages <= map[k].va
  BY <1>3, <1>4, MemMapAssumption
<1>7. Table(map, last)
  <2>1. \A k \in 0 .. last - 1 : map[k].va + map[k].pages <= Top + 1
    <3>1. ASSUME NEW k \in 0 .. last - 1
          PROVE  map[k].va + map[k].pages <= Top + 1
      <4>1. map[k].va + map[k].pages - 1 \in PagesOf(map[k])
        BY <1>5 DEF PagesOf
      <4>2. map[k].va + map[k].pages - 1 \in Pages
        BY <4>1, <1>5
      <4> QED
        BY <4>2, <1>5, ConstantTypes DEF Pages
    <3> QED
      BY <3>1
  <2>2. \A k \in Slots : DESCRIPTOR_VALID(map[k]) <=> k < last
    BY <1>2, <1>4, <1>5, ConstantTypes DEF Slots
  <2>3. \A j, k \in 0 .. last - 1 : j # k => Apart(map[j], map[k])
    BY <1>5, <1>6 DEF Apart
  <2> QED
    BY <1>4, <2>1, <2>2, <2>3 DEF Table
<1>8. Full(map, last) /\ SortedTo(map, last, last)
  BY <1>5, <1>6 DEF Full, SortedTo
<1>9. Covers(map, last)
  <2>1. ASSUME NEW p \in BootPages
        PROVE  \E k \in 0 .. last - 1 : p \in PagesOf(map[k])
    <3>1. PICK j \in DOMAIN BootMap : p \in PagesOf(BootMap[j])
      BY DEF BootPages
    <3>2. j - 1 \in 0 .. last - 1 /\ (j - 1) + 1 = j
      BY <1>1, <1>4
    <3>3. map[j - 1] = BootMap[j]
      BY <1>4, <3>2
    <3> QED
      BY <3>1, <3>2, <3>3
  <2> QED
    BY <2>1 DEF Covers
<1>10. CallInv
  <2>1. pt \in [Pages -> Frames] /\ free \subseteq Frames /\ tab \subseteq Frames /\ regular = TRUE
    BY MemMapAssumption DEF Init, Pages, Frames
  <2>2. CallForm
    BY DEF Init, CallForm
  <2> QED
    BY <2>1, <2>2 DEF CallInv
<1>11. call.op = "idle"
  BY DEF Init, Idle
<1> QED
  BY <1>7, <1>8, <1>9, <1>10, <1>11 DEF MapInv

LEMMA SpecMemInv == Spec => []MemInv
<1>1. Init => MemInv
  BY MapInvInit DEF MemInv
<1>2. MemInv /\ [Next]_vars => MemInv'
  BY CallInvHolds, MapInvHolds, RegularBefore DEF MemInv
<1> QED
  BY <1>1, <1>2, PTL DEF Spec

\* A page of the boot map is described once, the descriptor that kalloc_page
\* builds counted.
LEMMA PageOnce ==
  ASSUME CallInv, MapInv, NEW p \in BootPages
  PROVE  Cardinality({u \in Used : p \in PagesOf(u[2])}) = 1
<1>1. /\ map \in [Slots -> Descr] /\ last \in Nat /\ last <= Capacity
      /\ \A k \in 0 .. last - 1 : k \in Slots
      /\ \A k \in Slots : DESCRIPTOR_VALID(map[k]) <=> k < last
      /\ \A j, k \in 0 .. last - 1 : j # k => Apart(map[j], map[k])
  BY ConstantTypes DEF MapInv, Table, Slots
<1>2. \A k \in 0 .. last - 1 : map[k].va \in Nat /\ map[k].pages \in Nat
  BY <1>1, DescrType
<1>3. \A k \in Slots : DESCRIPTOR_VALID(map[k]) <=> k \in 0 .. last - 1
  BY <1>1, ConstantTypes DEF Slots
<1> DEFINE InMap == {<<k, map[k]>> : k \in {j \in Slots : DESCRIPTOR_VALID(map[j])}}
           S == {u \in Used : p \in PagesOf(u[2])}
<1>4. \A u : u \in InMap <=> \E k \in 0 .. last - 1 : u = <<k, map[k]>>
  BY <1>1, <1>3
<1>5. \A d, e : Apart(d, e) /\ d.va \in Nat /\ e.va \in Nat /\ d.pages \in Nat /\ e.pages \in Nat
                  /\ p \in PagesOf(d) => p \notin PagesOf(e)
  BY DEF Apart, PagesOf
<1>6. CASE call.op = "alloc"
  <2>1. /\ call.new \in Descr /\ \A k \in 0 .. last - 1 : Apart(call.new, map[k])
        /\ p \in PagesOf(call.new) \/ \E k \in 0 .. last - 1 : p \in PagesOf(map[k])
    BY <1>6 DEF MapInv, Building
  <2>2. Used = InMap \union {<<Capacity, call.new>>}
    BY <1>6 DEF Used
  <2> HIDE DEF InMap
  <2>3. call.new.va \in Nat /\ call.new.pages \in Nat
    BY <2>1, DescrType
  <2>4. CASE p \in PagesOf(call.new)
    <3>1. \A k \in 0 .. last - 1 : p \notin PagesOf(map[k])
      BY <2>1, <2>3, <2>4, <1>2, <1>5
    <3>2. S = {<<Capacity, call.new>>}
      BY <3>1, <2>2, <2>4, <1>4
    <3> QED
      BY <3>2, FS_Singleton
  <2>5. ASSUME NEW k \in 0 .. last - 1, p \in PagesOf(map[k])
        PROVE  Cardinality(S) = 1
    <3>1. \A j \in 0 .. last - 1 : j # k => p \notin PagesOf(map[j])
      BY <2>5, <1>1, <1>2, <1>5
    <3>2. p \notin PagesOf(call.new)
      BY <2>1, <2>3, <2>5, <1>2, <1>5
    <3>3. S = {<<k, map[k]>>}
      BY <3>1, <3>2, <2>2, <2>5, <1>4
    <3> QED
      BY <3>3, FS_Singleton
  <2> QED
    BY <2>1, <2>4, <2>5
<1>7. CASE call.op # "alloc"
  <2>1. PICK k \in 0 .. last - 1 : p \in PagesOf(map[k])
    BY <1>7 DEF MapInv, Covers
  <2>2. Used = InMap
    BY <1>7 DEF Used
  <2> HIDE DEF InMap
  <2>3. \A j \in 0 .. last - 1 : j # k => p \notin PagesOf(map[j])
    BY <2>1, <1>1, <1>2, <1>5
  <2>4. S = {<<k, map[k]>>}
    BY <2>1, <2>2, <2>3, <1>4
  <2> QED
    BY <2>4, FS_Singleton
<1> QED
  BY <1>6, <1>7

(***************************************************************************)
(* In every regular state each page of the boot map is described by exactly *)
(* one descriptor, in the middle of kalloc_page, order_map and compress_map *)
(* too, and between calls the descriptors in use come first, in order.      *)
(***************************************************************************)
THEOREM PagesAreDescribedOnce == Spec => []EachPageOnce
<1>1. MemInv => EachPageOnce
  <2>1. SUFFICES ASSUME MemInv PROVE EachPageOnce
    OBVIOUS
  <2>2. TypeOK
    BY <2>1 DEF MemInv, CallInv, MapInv, Table, TypeOK
  <2>3. Ordered
    <3>1. SUFFICES ASSUME regular, call = Idle, NEW k \in 1 .. last - 1
                   PROVE  map[k - 1].va < map[k].va
      BY DEF Ordered
    <3>2. SortedTo(map, last, last) /\ last \in Nat
      BY <2>1, <3>1, ConstantTypes DEF MemInv, MapInv, Table, Idle
    <3>3. k - 1 \in 0 .. last - 1 /\ k \in 0 .. last - 1 /\ k - 1 < k /\ k - 1 < last
      BY <3>2
    <3> QED
      BY <3>2, <3>3 DEF SortedTo
  <2> QED
    BY <2>1, <2>2, <2>3, PageOnce DEF MemInv, EachPageOnce
<1> QED
  BY <1>1, SpecMemInv, PTL

-----------------------------------------------------------------------------
(* The areas.                                                              *)

\* The descriptors of what kalloc_page gave out.
Reserved(m, l) == {d \in {m[k] : k \in 0 .. l - 1} : d.type = "kernel_reserved"}

\* The page tables t map the pages of d to its frames.
Backed(d, t) == \A p \in PagesOf(d) : t[p] = d.pa + (p - d.va)

\* An area is one run of frames, or two.
Described(a, R, t) ==
    \E d \in R :
      /\ Backed(d, t) /\ d.va = a.base
      /\ \/ ~DESCRIPTOR_HAS_NEXT(d) /\ d.pages = a.n
         \/ /\ DESCRIPTOR_HAS_NEXT(d)
            /\ \E e \in R : /\ Backed(e, t) /\ ~DESCRIPTOR_HAS_NEXT(e)
                            /\ e.va = d.va + d.pages /\ d.pages + e.pages = a.n

\* The area of a kalloc_page that sorts the map is nearly the caller's.
Areas == held \union (IF call.op = "order" THEN {[base |-> call.base, n |-> call.n]} ELSE {})

Before(a, b) == a.base + a.n <= b.base

AreasInv(A, R, t, unowned) ==
    /\ \A a \in A : a.base \in Nat /\ a.n \in Nat /\ a.n > 0 /\ Described(a, R, t)
    /\ \A a, b \in A : a # b => Before(a, b) \/ Before(b, a)
    /\ \A a, b \in A : \A p \in AreaPages(a), q \in AreaPages(b) : t[p] = t[q] => p = q
    /\ \A a \in A : \A p \in AreaPages(a) : t[p] \notin unowned

\* The frames of the kalloc_page c are nobody else's, those of the pages that
\* it mapped are in the page tables, and the descriptors name them.
FramesInv(c, A, R, t, unowned) ==
    /\ \A i, j \in 1 .. c.n : c.frames[i] = c.frames[j] => i = j
    /\ \A i \in 1 .. c.n : c.frames[i] \notin unowned
    /\ \A a \in A : Before(a, c) \/ Before(c, a)
    /\ \A a \in A : \A p \in AreaPages(a), i \in 1 .. c.n : t[p] # c.frames[i]
    /\ \A j \in 1 .. c.m : t[c.base + j - 1] = c.frames[j]
    /\ \A j \in 0 .. c.new.pages - 1 : c.new.pa + j = c.frames[c.new.va - c.base + j + 1]
    /\ c.new.pages = 0 /\ c.m < c.n => c.new.pa = c.frames[c.m + 1]
    /\ c.new.va # c.base =>
         \E d \in R : /\ Backed(d, t) /\ DESCRIPTOR_HAS_NEXT(d)
                      /\ d.va = c.base /\ d.va + d.pages = c.new.va

AreaInv ==
    /\ free \intersect tab = {}
    /\ AreasInv(Areas, Reserved(map, last), pt, free \union tab)
    /\ call.op = "alloc" => FramesInv(call, held, Reserved(map, last), pt, free \union tab)

LEMMA ReservedMember ==
  ASSUME NEW m, NEW l, Table(m, l), NEW d \in Reserved(m, l)
  PROVE  /\ \E k \in 0 .. l - 1 : d = m[k]
         /\ d.type = "kernel_reserved" /\ d \in Descr
         /\ d.va \in Nat /\ d.pa \in Nat /\ d.pages \in Nat /\ d.va + d.pages <= Top + 1
<1>1. PICK k \in 0 .. l - 1 : d = m[k] /\ d.type = "kernel_reserved"
  BY DEF Reserved
<1>2. d \in Descr /\ d.va + d.pages <= Top + 1
  BY <1>1, ConstantTypes DEF Table, Slots
<1> QED
  BY <1>1, <1>2, DescrType

LEMMA ReservedPut ==
  ASSUME NEW m, NEW l, Table(m, l), l < Capacity, NEW d, d.type = "kernel_reserved"
  PROVE  Reserved([m EXCEPT ![l] = d], l + 1) = Reserved(m, l) \union {d}
<1>1. l \in Nat /\ DOMAIN m = Slots /\ \A k \in 0 .. l : k \in Slots
  BY ConstantTypes DEF Table, Slots
<1>2. PICK w : w = [m EXCEPT ![l] = d]
  OBVIOUS
<1>3. PICK L \in Nat : L = l + 1
  BY <1>1
<1>4. w[l] = d /\ \A k \in 0 .. l - 1 : w[k] = m[k]
  BY <1>1, <1>2
<1>5. \A k : k \in 0 .. L - 1 <=> (k \in 0 .. l - 1 \/ k = l)
  BY <1>1, <1>3
<1>6. Reserved(w, L) = Reserved(m, l) \union {d}
  BY <1>4, <1>5 DEF Reserved
<1> QED
  BY <1>2, <1>3, <1>6

LEMMA ReservedSame ==
  ASSUME NEW m, NEW w, NEW l, NEW k \in 0 .. l - 1, \A j \in 0 .. l - 1 : j # k => w[j] = m[j],
         m[k].type # "kernel_reserved", w[k].type # "kernel_reserved"
  PROVE  Reserved(w, l) = Reserved(m, l)
<1>1. ASSUME NEW d \in Reserved(m, l)
      PROVE  d \in Reserved(w, l)
  <2>1. PICK j \in 0 .. l - 1 : d = m[j] /\ d.type = "kernel_reserved"
    BY DEF Reserved
  <2>2. w[j] = d
    BY <2>1
  <2> QED
    BY <2>1, <2>2 DEF Reserved
<1>2. ASSUME NEW d \in Reserved(w, l)
      PROVE  d \in Reserved(m, l)
  <2>1. PICK j \in 0 .. l - 1 : d = w[j] /\ d.type = "kernel_reserved"
    BY DEF Reserved
  <2>2. m[j] = d
    BY <2>1
  <2> QED
    BY <2>1, <2>2 DEF Reserved
<1> QED
  BY <1>1, <1>2

LEMMA ReservedTake ==
  ASSUME NEW m, NEW l, Table(m, l), NEW k \in 0 .. l - 1, m[k].type = "usable"
  PROVE  Reserved([m EXCEPT ![k].va = @ + 1, ![k].pages = @ - 1], l) = Reserved(m, l)
<1>1. l \in Nat /\ m \in [Slots -> Descr] /\ \A j \in 0 .. l - 1 : j \in Slots
  BY ConstantTypes DEF Table, Slots
<1>2. PICK w : w = [m EXCEPT ![k].va = @ + 1, ![k].pages = @ - 1]
  OBVIOUS
<1>3. /\ w[k] = [m[k] EXCEPT !.va = @ + 1, !.pages = @ - 1]
      /\ \A j \in 0 .. l - 1 : j # k => w[j] = m[j]
  <2>1. m[k] \in Descr /\ k \in Slots
    BY <1>1
  <2> QED
    BY <1>1, <1>2, <2>1 DEF Descr
<1>4. w[k].type = "usable"
  <2>1. m[k] \in Descr
    BY <1>1
  <2> QED
    BY <1>3, <2>1 DEF Descr
<1>6. \A j \in 0 .. l - 1 : j # k => w[j] = m[j]
  BY <1>3
<1>7. m[k].type # "kernel_reserved" /\ w[k].type # "kernel_reserved"
  BY <1>4
<1>5. Reserved(w, l) = Reserved(m, l)
  BY <1>6, <1>7, ReservedSame, Zenon
<1> QED
  BY <1>2, <1>5

LEMMA ReservedClosed ==
  ASSUME NEW m, NEW l, NEW k \in Nat, NEW n \in Nat, NEW r, NEW h, Table(m, l), Closes(m, l, k, n, r, h),
         \A j \in k .. k + n - 1 : m[j].type = "usable"
  PROVE  Reserved(r, h) = Reserved(m, l)
<1>1. \A j \in 0 .. l - 1 : j < k \/ j >= k + n \/ m[j].type = "usable"
  BY ConstantTypes DEF Table
<1>2. ASSUME NEW d \in Reserved(m, l)
      PROVE  d \in Reserved(r, h)
  <2>1. PICK j \in 0 .. l - 1 : d = m[j] /\ d.type = "kernel_reserved"
    BY DEF Reserved
  <2>2. \E i \in 0 .. h - 1 : r[i] = d
    BY <1>1, <2>1 DEF Closes
  <2> QED
    BY <2>1, <2>2 DEF Reserved
<1>3. ASSUME NEW d \in Reserved(r, h)
      PROVE  d \in Reserved(m, l)
  <2>1. PICK i \in 0 .. h - 1 : d = r[i] /\ d.type = "kernel_reserved"
    BY DEF Reserved
  <2>2. \E j \in 0 .. l - 1 : r[i] = m[j]
    BY DEF Closes
  <2> QED
    BY <2>1, <2>2 DEF Reserved
<1> QED
  BY <1>2, <1>3

LEMMA ReservedSwapped ==
  ASSUME NEW m, NEW l, Table(m, l), NEW i \in 0 .. l - 1, NEW j \in 0 .. l - 1
  PROVE  Reserved(Swapped(m, i, j), l) = Reserved(m, l)
<1>1. PICK r : r = Swapped(m, i, j)
  OBVIOUS
<1>2. \A k \in 0 .. l - 1 : r[k] = m[IF k = i THEN j ELSE IF k = j THEN i ELSE k]
  BY <1>1, SwapKeeps
<1>3. ASSUME NEW d
      PROVE  (\E k \in 0 .. l - 1 : d = r[k]) <=> (\E k \in 0 .. l - 1 : d = m[k])
  <2>1. r[i] = m[j] /\ r[j] = m[i] /\ \A k \in 0 .. l - 1 : k # i /\ k # j => r[k] = m[k]
    BY <1>2
  <2> QED
    BY <2>1
<1>4. Reserved(r, l) = Reserved(m, l)
  BY <1>3 DEF Reserved
<1> QED
  BY <1>1, <1>4

\* What kalloc_page_end makes of the map.
Ended(m, l, new, ind, w, h) ==
    /\ w = WithoutEmpty([m EXCEPT ![l] = new], ind)
    /\ h = IF m[ind].pages = 0 THEN l ELSE l + 1

LEMMA ReservedEnd ==
  ASSUME NEW m, NEW l, NEW base, NEW n \in Nat, NEW ind, NEW new,
         Table(m, l), Building(m, l, base, n, ind, n, new), l < Capacity,
         NEW w, NEW h, Ended(m, l, new, ind, w, h)
  PROVE  Reserved(w, h) = Reserved(m, l) \union {new}
<1> DEFINE m1 == [m EXCEPT ![l] = new]
<1>0. w = WithoutEmpty(m1, ind) /\ h = IF m[ind].pages = 0 THEN l ELSE l + 1
  BY DEF Ended
<1>1. /\ l \in Nat /\ DOMAIN m = Slots /\ ind \in 0 .. l - 1 /\ ind \in Slots /\ l \in Slots
      /\ m[ind].type = "usable" /\ m[ind].pages \in Nat
  BY ConstantTypes, DescrType DEF Table, Building, Slots
<1>2. new \in Descr /\ new.type = "kernel_reserved" /\ DESCRIPTOR_VALID(new)
      /\ \A k \in 0 .. l - 1 : Apart(new, m[k])
  BY DEF Building, DESCRIPTOR_VALID
<1>3. Reserved(m1, l + 1) = Reserved(m, l) \union {new}
  BY <1>2, ReservedPut
<1>4. m1[ind] = m[ind]
  BY <1>1
<1>5. Table(m1, l + 1)
  <2>1. new.va + new.pages = m[ind].va /\ m[ind].va \in Nat /\ m[ind].va + m[ind].pages <= Top + 1
    BY <1>1, DescrType DEF Table, Building
  <2>2. new.va + new.pages <= Top + 1
    BY <1>1, <2>1, ConstantTypes
  <2> QED
    BY <1>2, <2>2, PutKeeps
<1> HIDE DEF m1
<1>6. CASE m[ind].pages > 0
  <2>1. w = m1 /\ h = l + 1
    BY <1>0, <1>1, <1>4, <1>6 DEF WithoutEmpty
  <2> QED
    BY <2>1, <1>3
<1>7. CASE m[ind].pages = 0
  <2>1. ind # MapSize - 1
    BY <1>1, ConstantTypes DEF Slots
  <2>2. w = Removed(m1, ind, 1) /\ h = l
    BY <1>0, <1>1, <1>4, <1>7, <2>1 DEF WithoutEmpty
  <2>3. PICK L \in Nat : L = l + 1
    BY <1>1
  <2>4. PICK k \in Nat : k = ind
    BY <1>1
  <2>5. PICK x \in Nat : x = 1
    OBVIOUS
  <2>6. Table(m1, L) /\ k + x <= L /\ L - x = l
    BY <1>1, <1>5, <2>3, <2>4, <2>5
  <2>7. Closes(m1, L, k, x, Removed(m1, k, x), L - x)
    BY <2>6, RemovedKeeps
  <2>8. \A j \in k .. k + x - 1 : m1[j].type = "usable"
    <3>1. \A j \in k .. k + x - 1 : j = ind
      BY <2>4, <2>5
    <3> QED
      BY <3>1, <1>1, <1>4
  <2>9. Reserved(Removed(m1, k, x), L - x) = Reserved(m1, L)
    BY <2>6, <2>7, <2>8, ReservedClosed
  <2> QED
    BY <1>3, <2>2, <2>3, <2>4, <2>5, <2>6, <2>9
<1>8. m[ind].pages > 0 \/ m[ind].pages = 0
  BY <1>1
<1> QED
  BY <1>6, <1>7, <1>8

LEMMA ReservedCompressed ==
  ASSUME Table(map, last), NEW i \in 0 .. last - 1
  PROVE  Reserved(Compressed(i), last - Mergeable(i)) = Reserved(map, last)
<1>1. /\ map \in [Slots -> Descr] /\ last \in Nat /\ last <= Capacity
      /\ i \in Slots /\ \A k \in 0 .. last - 1 : k \in Slots
  BY ConstantTypes DEF Table, Slots
<1>2. PICK n \in Nat : n = Mergeable(i)
  BY <1>1, MergeableStops
<1>3. /\ i + n \in 0 .. last - 1
      /\ \A k \in i + 1 .. i + n : map[k].type = map[i].type
      /\ n > 0 => map[i].type = "usable"
      /\ map[i].va + PagesFrom(i, n) = map[i + n].va + map[i + n].pages
      /\ PagesFrom(i, n) \in Int
      /\ Compressed(i) = [Removed(map, i + 1, n) EXCEPT ![i].pages = PagesFrom(i, n)]
  BY <1>2, MergedSlots
<1>4. PICK P \in Int : P = PagesFrom(i, n)
  BY <1>3
<1>5. PICK k \in Nat : k = i + 1
  BY <1>1
<1>6. PICK h \in Int : h = last - n
  BY <1>1
<1>7. PICK r : r = Removed(map, k, n)
  OBVIOUS
<1>8. Closes(map, last, k, n, r, h)
  <2>1. k + n <= last
    BY <1>1, <1>3, <1>5
  <2> QED
    BY <1>6, <1>7, <2>1, RemovedKeeps
<1>9. \A j \in k .. k + n - 1 : map[j].type = "usable"
  <2>1. \A j \in k .. k + n - 1 : j \in i + 1 .. i + n /\ n > 0
    BY <1>1, <1>5
  <2> QED
    BY <1>3, <2>1
<1>10. Reserved(r, h) = Reserved(map, last)
  BY <1>8, <1>9, ReservedClosed
<1>11. r \in [Slots -> Descr] /\ r[i] = map[i] /\ i \in 0 .. h - 1 /\ \A j \in 0 .. h - 1 : j \in Slots
  <2>1. r \in [Slots -> Descr] /\ h \in 0 .. Capacity
    BY <1>8 DEF Closes, Table
  <2>2. i < k /\ i \in 0 .. h - 1
    BY <1>1, <1>3, <1>5, <1>6
  <2>3. r[i] = map[i]
    BY <2>2, <1>1, <1>7 DEF Removed
  <2>4. \A j \in 0 .. h - 1 : j \in Slots
    BY <2>1, <1>6, ConstantTypes DEF Slots
  <2> QED
    BY <2>1, <2>2, <2>3, <2>4
<1> DEFINE w == [r EXCEPT ![i].pages = P]
<1>12. Reserved(w, h) = Reserved(r, h)
  <2>1. /\ \A j \in 0 .. h - 1 : j # i => w[j] = r[j]
        /\ w[i] = [map[i] EXCEPT !.pages = P]
    BY <1>11
  <2>2. map[i] \in Descr
    BY <1>1
  <2>3. CASE map[i].type = "kernel_reserved"
    <3>1. n = 0
      BY <1>3, <2>3
    <3>2. P = map[i].pages
      <4>1. map[i].va \in Nat /\ map[i].pages \in Nat
        BY <2>2, DescrType
      <4>2. map[i].va + P = map[i].va + map[i].pages
        <5>1. i + n = i
          BY <1>1, <3>1
        <5> QED
          BY <1>3, <1>4, <5>1
      <4>3. \A x, y \in Nat : \A z \in Int : x + z = x + y => z = y
        OBVIOUS
      <4> QED
        BY <1>4, <4>1, <4>2, <4>3
    <3>3. w[i] = r[i]
      BY <2>1, <2>2, <3>2, <1>11 DEF Descr
    <3> HIDE DEF w
    <3> QED
      BY <2>1, <3>3 DEF Reserved
  <2>4. CASE map[i].type # "kernel_reserved"
    <3>1. w[i].type # "kernel_reserved"
      BY <2>1, <2>2, <2>4 DEF Descr
    <3> HIDE DEF w
    <3> QED
      <4>1. \A j \in 0 .. h - 1 : j # i => w[j] = r[j]
        BY <2>1
      <4>2. r[i].type # "kernel_reserved" /\ i \in 0 .. h - 1
        BY <2>4, <1>11
      <4> QED
        BY <3>1, <4>1, <4>2, ReservedSame, Zenon
  <2> QED
    BY <2>3, <2>4
<1>13. Compressed(i) = w
  BY <1>3, <1>4, <1>5, <1>7
<1> QED
  BY <1>2, <1>6, <1>10, <1>12, <1>13

\* What the descriptors in R are, and that they end below Top.
Sized(R) == \A d \in R : /\ d.va \in Nat /\ d.pages \in Nat /\ d.pa \in Nat
                        /\ d.va + d.pages <= Top + 1

LEMMA ReservedSized ==
  ASSUME NEW m, NEW l, Table(m, l)
  PROVE  Sized(Reserved(m, l))
  BY ReservedMember DEF Sized

LEMMA DescribedKept ==
  ASSUME NEW a, a.base \in Nat, a.n \in Nat, NEW R, Sized(R), NEW t, Described(a, R, t),
         NEW R2, \A d \in R : (a.base <= d.va /\ d.va + d.pages <= a.base + a.n) => d \in R2,
         NEW t2, \A p \in AreaPages(a) : t2[p] = t[p]
  PROVE  Described(a, R2, t2)
<1>1. ASSUME NEW d \in R, Backed(d, t), a.base <= d.va, d.va + d.pages <= a.base + a.n
      PROVE  d \in R2 /\ Backed(d, t2)
  <2>1. d.va \in Nat /\ d.pages \in Nat
    BY DEF Sized
  <2>2. \A p \in PagesOf(d) : p \in AreaPages(a)
    BY <1>1, <2>1 DEF PagesOf, AreaPages
  <2> QED
    BY <1>1, <2>2 DEF Backed
<1>2. PICK d \in R :
        /\ Backed(d, t) /\ d.va = a.base
        /\ \/ ~DESCRIPTOR_HAS_NEXT(d) /\ d.pages = a.n
           \/ /\ DESCRIPTOR_HAS_NEXT(d)
              /\ \E e \in R : /\ Backed(e, t) /\ ~DESCRIPTOR_HAS_NEXT(e)
                              /\ e.va = d.va + d.pages /\ d.pages + e.pages = a.n
  BY DEF Described
<1>3. d.va \in Nat /\ d.pages \in Nat
  BY DEF Sized
<1>4. CASE ~DESCRIPTOR_HAS_NEXT(d) /\ d.pages = a.n
  <2>1. d \in R2 /\ Backed(d, t2)
    BY <1>1, <1>2, <1>3, <1>4
  <2> QED
    BY <1>2, <1>4, <2>1 DEF Described
<1>5. ASSUME DESCRIPTOR_HAS_NEXT(d), NEW e \in R, Backed(e, t), ~DESCRIPTOR_HAS_NEXT(e),
             e.va = d.va + d.pages, d.pages + e.pages = a.n
      PROVE  Described(a, R2, t2)
  <2>1. e.va \in Nat /\ e.pages \in Nat
    BY DEF Sized
  <2>2. d \in R2 /\ Backed(d, t2)
    BY <1>1, <1>2, <1>3, <1>5, <2>1
  <2>3. e \in R2 /\ Backed(e, t2)
    BY <1>1, <1>2, <1>3, <1>5, <2>1
  <2> QED
    BY <1>2, <1>5, <2>2, <2>3 DEF Described
<1> QED
  BY <1>2, <1>4, <1>5

LEMMA DescribedApart ==
  ASSUME NEW a, a.base \in Nat, NEW R, Sized(R), NEW t, Described(a, R, t)
  PROVE  /\ a.base + a.n <= Top + 1
         /\ \A x \in Nat, k \in Nat :
              k > 0 /\ (\A d \in R : d.va + d.pages <= x \/ x + k <= d.va)
                => a.base + a.n <= x \/ x + k <= a.base
<1>1. PICK d \in R :
        /\ d.va = a.base
        /\ \/ d.pages = a.n
           \/ \E e \in R : e.va = d.va + d.pages /\ d.pages + e.pages = a.n
  BY DEF Described
<1>2. d.va \in Nat /\ d.pages \in Nat /\ d.va + d.pages <= Top + 1
  BY DEF Sized
<1>3. CASE d.pages = a.n
  BY <1>1, <1>2, <1>3
<1>4. ASSUME NEW e \in R, e.va = d.va + d.pages, d.pages + e.pages = a.n
      PROVE  /\ a.base + a.n <= Top + 1
             /\ \A x \in Nat, k \in Nat :
                  k > 0 /\ (\A f \in R : f.va + f.pages <= x \/ x + k <= f.va)
                    => a.base + a.n <= x \/ x + k <= a.base
  <2>1. e.va \in Nat /\ e.pages \in Nat /\ e.va + e.pages <= Top + 1
    BY DEF Sized
  <2>2. a.base + a.n = e.va + e.pages
    BY <1>1, <1>2, <1>4, <2>1
  <2>3. ASSUME NEW x \in Nat, NEW k \in Nat, k > 0,
               \A f \in R : f.va + f.pages <= x \/ x + k <= f.va
        PROVE  a.base + a.n <= x \/ x + k <= a.base
    <3>1. d.va + d.pages <= x \/ x + k <= d.va
      BY <2>3
    <3>2. e.va + e.pages <= x \/ x + k <= e.va
      BY <2>3
    <3> QED
      BY <3>1, <3>2, <2>2, <2>3, <1>1, <1>2, <1>4, <2>1
  <2> QED
    BY <2>1, <2>2, <2>3
<1> QED
  BY <1>1, <1>3, <1>4

LEMMA AreasKept ==
  ASSUME NEW A, NEW R, Sized(R), NEW t, NEW u, AreasInv(A, R, t, u), NEW A2 \in SUBSET A, NEW R2,
         \A a \in A2 : \A d \in R : (a.base <= d.va /\ d.va + d.pages <= a.base + a.n) => d \in R2,
         NEW t2, NEW u2, \A a \in A2 : \A p \in AreaPages(a) : t2[p] = t[p] /\ t[p] \notin u2
  PROVE  AreasInv(A2, R2, t2, u2)
<1>1. ASSUME NEW a \in A2
      PROVE  a.base \in Nat /\ a.n \in Nat /\ a.n > 0 /\ Described(a, R2, t2)
  <2>1. a.base \in Nat /\ a.n \in Nat /\ a.n > 0 /\ Described(a, R, t)
    BY DEF AreasInv
  <2> QED
    BY <2>1, DescribedKept
<1>2. \A a, b \in A2 : a # b => Before(a, b) \/ Before(b, a)
  BY DEF AreasInv
<1>3. \A a, b \in A2 : \A p \in AreaPages(a), q \in AreaPages(b) : t2[p] = t2[q] => p = q
  BY DEF AreasInv
<1> QED
  BY <1>1, <1>2, <1>3 DEF AreasInv

\* The form of a kalloc_page c whose pages are in the memory.
AllocTypes(c) ==
    /\ c.base \in Nat /\ c.n \in Nat /\ c.n > 0 /\ c.m \in Nat /\ c.m <= c.n
    /\ c.frames \in [1 .. c.n -> Frames] /\ c.base + c.n <= Top + 1
    /\ c.new.va \in Nat /\ c.new.pages \in Nat /\ c.new.pa \in Nat
    /\ c.base <= c.new.va /\ c.new.va + c.new.pages = c.base + c.m

\* The next frame follows the one before it, as kalloc_page sees it.
Follows(c) == c.m >= 1 /\ c.new.pages > 0 => c.frames[c.m] + 1 = c.frames[c.m + 1]

InMemory(a) == a.base \in Nat /\ a.n \in Nat /\ a.base + a.n <= Top + 1

\* What kalloc_page builds names the frames of its pages.
LEMMA NewIsBacked ==
  ASSUME NEW c, AllocTypes(c), NEW A, NEW R, NEW t, NEW u, FramesInv(c, A, R, t, u)
  PROVE  /\ Backed(c.new, t)
         /\ \A p \in c.base .. c.base + c.m - 1 :
              p - c.base + 1 \in 1 .. c.m /\ t[p] = c.frames[p - c.base + 1]
<1>0. c.base \in Nat /\ c.m \in Nat
  BY DEF AllocTypes
<1>1. ASSUME NEW p \in c.base .. c.base + c.m - 1
      PROVE  p - c.base + 1 \in 1 .. c.m /\ t[p] = c.frames[p - c.base + 1]
  <2>1. PICK j \in Nat : j = p - c.base + 1
    BY <1>0
  <2>2. j \in 1 .. c.m /\ c.base + j - 1 = p
    BY <1>0, <2>1
  <2>3. t[c.base + j - 1] = c.frames[j]
    BY <2>2 DEF FramesInv
  <2> QED
    BY <2>1, <2>2, <2>3
<1>2. ASSUME NEW p \in PagesOf(c.new)
      PROVE  t[p] = c.new.pa + (p - c.new.va)
  <2>0. c.new.va \in Nat /\ c.new.pages \in Nat /\ c.base <= c.new.va
        /\ c.new.va + c.new.pages = c.base + c.m
    BY DEF AllocTypes
  <2>1. PICK j \in Int : j = p - c.new.va
    BY <2>0 DEF PagesOf
  <2>2. j \in 0 .. c.new.pages - 1 /\ p \in c.base .. c.base + c.m - 1
        /\ c.new.va - c.base + j + 1 = p - c.base + 1
    BY <1>0, <2>0, <2>1 DEF PagesOf
  <2>3. c.new.pa + j = c.frames[c.new.va - c.base + j + 1]
    BY <2>2 DEF FramesInv
  <2> QED
    BY <1>1, <2>1, <2>2, <2>3
<1> QED
  BY <1>1, <1>2 DEF Backed

\* kalloc_page takes the next page: what changes of the call and the tables.
TakesPage(c, t, c2, t2) ==
    /\ c2.n = c.n /\ c2.base = c.base /\ c2.frames = c.frames /\ c2.m = c.m + 1
    /\ c2.new.va = c.new.va /\ c2.new.pa = c.new.pa /\ c2.new.pages = c.new.pages + 1
    /\ t2 = [t EXCEPT ![c.base + c.m] = c.frames[c.m + 1]]

SamePages(A, t, t2) == \A a \in A : \A p \in AreaPages(a) : t2[p] = t[p]

LEMMA FramesTake ==
  ASSUME NEW c, AllocTypes(c), c.m < c.n, NEW A, NEW R, Sized(R), NEW t \in [Pages -> Frames], NEW u,
         FramesInv(c, A, R, t, u),
         Follows(c), \A a \in A : InMemory(a),
         NEW c2, NEW t2, TakesPage(c, t, c2, t2)
  PROVE  FramesInv(c2, A, R, t2, u) /\ SamePages(A, t, t2)
<1>13. /\ c2.n = c.n /\ c2.base = c.base /\ c2.frames = c.frames /\ c2.m = c.m + 1
       /\ c2.new.va = c.new.va /\ c2.new.pa = c.new.pa /\ c2.new.pages = c.new.pages + 1
  BY DEF TakesPage
<1> DEFINE page == c.base + c.m
<1>12. t2 = [t EXCEPT ![page] = c.frames[c.m + 1]]
  BY DEF TakesPage
<1>1. c.base \in Nat /\ c.n \in Nat /\ c.m \in Nat /\ c.base + c.n <= Top + 1
  BY DEF AllocTypes
<1>0. /\ c.new.va \in Nat /\ c.new.pages \in Nat /\ c.new.pa \in Nat
      /\ c.base <= c.new.va /\ c.new.va + c.new.pages = c.base + c.m
  BY DEF AllocTypes
<1>10. /\ page < c.base + c.n /\ page \in Nat
  BY <1>1
<1>2. page \in Pages /\ page < c.base + c.n
  BY <1>1, <1>10, ConstantTypes DEF Pages
<1>11. page = c.base + c.m
  OBVIOUS
<1> HIDE DEF page
<1>3. t2[page] = c.frames[c.m + 1] /\ \A p \in Pages : p # page => t2[p] = t[p]
  BY <1>2, <1>12
<1>4. ASSUME NEW a \in A, NEW p \in AreaPages(a)
      PROVE  t2[p] = t[p]
  <2>1. a.base \in Nat /\ a.n \in Nat /\ a.base + a.n <= Top + 1 /\ (Before(a, c) \/ Before(c, a))
    BY DEF FramesInv, InMemory
  <2>3. a.base <= p /\ p < a.base + a.n /\ p \in Int
    BY <2>1 DEF AreaPages
  <2>4. p \in Pages
    BY <2>1, <2>3, ConstantTypes DEF Pages
  <2>5. c.base <= page
    BY <1>1, <1>11
  <2>6. p # page
    BY <1>1, <1>10, <2>1, <2>3, <2>5 DEF Before
  <2>2. p \in Pages /\ p # page
    BY <2>4, <2>6
  <2> QED
    BY <1>3, <2>2
<1>5. ASSUME NEW j \in 1 .. c.m + 1
      PROVE  t2[c.base + j - 1] = c.frames[j]
  <2>1. CASE j = c.m + 1
    <3>1. c.base + j - 1 = page
      BY <1>1, <1>11, <2>1
    <3> QED
      BY <2>1, <3>1, <1>3
  <2>2. CASE j # c.m + 1
    <3>1. j \in 1 .. c.m
      BY <1>1, <2>2
    <3>2. c.base + j - 1 \in Nat /\ c.base + j - 1 < page
      BY <1>1, <1>11, <3>1
    <3>3. c.base + j - 1 \in Pages /\ c.base + j - 1 # page
      BY <1>2, <3>2, ConstantTypes DEF Pages
    <3>4. t[c.base + j - 1] = c.frames[j]
      BY <3>1 DEF FramesInv
    <3> QED
      BY <3>3, <3>4, <1>3
  <2> QED
    BY <2>1, <2>2
<1>6. ASSUME NEW j \in 0 .. c.new.pages
      PROVE  c.new.pa + j = c.frames[c.new.va - c.base + j + 1]
  <2>1. CASE j < c.new.pages
    <3>1. j \in 0 .. c.new.pages - 1
      BY <1>0, <2>1
    <3> QED
      BY <3>1 DEF FramesInv
  <2>2. CASE j = c.new.pages /\ c.new.pages = 0
    <3>1. c.new.va - c.base + j + 1 = c.m + 1
      BY <1>0, <1>1, <2>2
    <3>2. c.new.pa = c.frames[c.m + 1]
      BY <2>2 DEF FramesInv
    <3> QED
      BY <1>0, <2>2, <3>1, <3>2
  <2>3. CASE j = c.new.pages /\ c.new.pages > 0
    <3>1. c.new.va - c.base + j + 1 = c.m + 1 /\ c.m >= 1
      BY <1>0, <1>1, <2>3
    <3>2. PICK i \in Nat : i = c.new.pages - 1
      BY <1>0, <2>3
    <3>3. c.new.va - c.base + i + 1 = c.m /\ i \in 0 .. c.new.pages - 1
      <4>1. i \in 0 .. c.new.pages - 1
        BY <1>0, <3>2
      <4>2. c.new.va - c.base + (i + 1) = c.m
        BY <1>0, <1>1, <3>2
      <4> QED
        BY <1>0, <1>1, <4>1, <4>2
    <3>4. c.new.pa + i = c.frames[c.m]
      BY <3>3 DEF FramesInv
    <3>5. c.frames[c.m] + 1 = c.frames[c.m + 1]
      BY <2>3, <3>1 DEF Follows
    <3>6. c.new.pa + j = c.new.pa + i + 1
      BY <1>0, <2>3, <3>2
    <3> QED
      BY <3>1, <3>4, <3>5, <3>6
  <2> QED
    BY <1>0, <2>1, <2>2, <2>3
<1>7. ASSUME c.new.va # c.base
      PROVE  \E d \in R : /\ Backed(d, t2) /\ DESCRIPTOR_HAS_NEXT(d)
                          /\ d.va = c.base /\ d.va + d.pages = c.new.va
  <2>1. PICK d \in R : /\ Backed(d, t) /\ DESCRIPTOR_HAS_NEXT(d)
                       /\ d.va = c.base /\ d.va + d.pages = c.new.va
    BY <1>7 DEF FramesInv
  <2>2. d.va \in Nat /\ d.pages \in Nat
    BY DEF Sized
  <2>5. ASSUME NEW p \in PagesOf(d)
        PROVE  p \in Pages /\ p # page
    <3>1. p \in Nat /\ p < c.new.va
      BY <2>1, <2>2, <1>0 DEF PagesOf
    <3>2. c.new.va <= page
      BY <1>0, <1>1, <1>11
    <3>3. p < page /\ page \in 0 .. Top
      BY <1>0, <1>2, <1>10, <3>1, <3>2 DEF Pages
    <3> QED
      BY <3>1, <3>3, ConstantTypes DEF Pages
  <2>3. \A p \in PagesOf(d) : p \in Pages /\ p # page
    BY <2>5
  <2>4. Backed(d, t2)
    BY <2>1, <2>3, <1>3 DEF Backed
  <2> QED
    BY <2>1, <2>4
<1> USE <1>13
<1>8. c2.new.pages - 1 = c.new.pages /\ c2.new.pages # 0
  BY <1>0
<1>9. FramesInv(c2, A, R, t2, u)
  <2>1. /\ \A i, j \in 1 .. c2.n : c2.frames[i] = c2.frames[j] => i = j
        /\ \A i \in 1 .. c2.n : c2.frames[i] \notin u
    BY DEF FramesInv
  <2>2. \A a \in A : Before(a, c2) \/ Before(c2, a)
    BY DEF FramesInv, Before
  <2>3. \A a \in A : \A p \in AreaPages(a), i \in 1 .. c2.n : t2[p] # c2.frames[i]
    BY <1>4 DEF FramesInv
  <2>4. \A j \in 1 .. c2.m : t2[c2.base + j - 1] = c2.frames[j]
    BY <1>5
  <2>5. \A j \in 0 .. c2.new.pages - 1 : c2.new.pa + j = c2.frames[c2.new.va - c2.base + j + 1]
    BY <1>6, <1>8
  <2>6. c2.new.va # c2.base =>
         \E d \in R : /\ Backed(d, t2) /\ DESCRIPTOR_HAS_NEXT(d)
                      /\ d.va = c2.base /\ d.va + d.pages = c2.new.va
    BY <1>7
  <2> QED
    BY <1>8, <2>1, <2>2, <2>3, <2>4, <2>5, <2>6 DEF FramesInv
<1> QED
  BY <1>4, <1>9 DEF SamePages

LEMMA FramesSplit ==
  ASSUME NEW c, AllocTypes(c), c.m < c.n, c.new.va = c.base,
         NEW A, NEW R, NEW t, NEW u, FramesInv(c, A, R, t, u),
         NEW d, d.va = c.new.va, d.pa = c.new.pa, d.pages = c.new.pages, DESCRIPTOR_HAS_NEXT(d),
         NEW c2, c2.n = c.n, c2.base = c.base, c2.frames = c.frames, c2.m = c.m,
         c2.new.va = c.base + c.m, c2.new.pa = c.frames[c.m + 1], c2.new.pages = 0
  PROVE  FramesInv(c2, A, R \union {d}, t, u)
<1>1. /\ c.base \in Nat /\ c.n \in Nat /\ c.m \in Nat /\ c.new.va \in Nat /\ c.new.pages \in Nat
      /\ c.new.va + c.new.pages = c.base + c.m
  BY DEF AllocTypes
<1>2. Backed(d, t)
  <2>1. Backed(c.new, t)
    BY NewIsBacked
  <2> QED
    BY <2>1 DEF Backed, PagesOf
<1>3. d.va = c2.base /\ d.va + d.pages = c2.new.va
  BY <1>1
<1>4. c2.new.va # c2.base =>
       \E e \in R \union {d} : /\ Backed(e, t) /\ DESCRIPTOR_HAS_NEXT(e)
                               /\ e.va = c2.base /\ e.va + e.pages = c2.new.va
  BY <1>2, <1>3
<1>5. \A a \in A : Before(a, c2) \/ Before(c2, a)
  BY DEF FramesInv, Before
<1>6. \A j \in 0 .. c2.new.pages - 1 : FALSE
  OBVIOUS
<1> QED
  BY <1>4, <1>5, <1>6 DEF FramesInv

LEMMA FramesEnd ==
  ASSUME NEW c, AllocTypes(c), c.m = c.n, c.new.pages > 0, ~DESCRIPTOR_HAS_NEXT(c.new),
         NEW A, NEW R, NEW t, NEW u, FramesInv(c, A, R, t, u), Sized(R), AreasInv(A, R, t, u),
         NEW R2, R \subseteq R2, c.new \in R2
  PROVE  AreasInv(A \union {[base |-> c.base, n |-> c.n]}, R2, t, u)
<1> DEFINE b == [base |-> c.base, n |-> c.n]
<1>1. /\ c.base \in Nat /\ c.n \in Nat /\ c.n > 0 /\ c.new.va \in Nat /\ c.new.pages \in Nat
      /\ c.base <= c.new.va /\ c.new.va + c.new.pages = c.base + c.n
  BY DEF AllocTypes
<1>2. b.base = c.base /\ b.n = c.n
  OBVIOUS
<1> HIDE DEF b
<1>3. Backed(c.new, t)
  BY NewIsBacked
<1>4. \A p \in AreaPages(b) : p - c.base + 1 \in 1 .. c.n /\ t[p] = c.frames[p - c.base + 1]
  BY <1>2, NewIsBacked DEF AreaPages
<1>5. Described(b, R2, t)
  <2>1. CASE c.new.va = c.base
    <3>1. c.new.pages = c.n
      BY <1>1, <2>1
    <3> QED
      BY <1>2, <1>3, <2>1, <3>1 DEF Described
  <2>2. CASE c.new.va # c.base
    <3>1. PICK d \in R : /\ Backed(d, t) /\ DESCRIPTOR_HAS_NEXT(d)
                         /\ d.va = c.base /\ d.va + d.pages = c.new.va
      BY <2>2 DEF FramesInv
    <3>2. d.pages \in Nat
      BY DEF Sized
    <3>3. d.pages + c.new.pages = c.n /\ d \in R2
      BY <1>1, <3>1, <3>2
    <3> QED
      BY <1>2, <1>3, <3>1, <3>3 DEF Described
  <2> QED
    BY <2>1, <2>2
<1>6. AreasInv(A, R2, t, u)
  <2>1. \A a \in A : \A p \in AreaPages(a) : t[p] \notin u
    BY DEF AreasInv
  <2> QED
    BY <2>1, AreasKept
<1>7. \A a \in A : Before(a, b) \/ Before(b, a)
  BY <1>2 DEF FramesInv, Before
<1>8. \A p \in AreaPages(b) : t[p] \notin u
  BY <1>4 DEF FramesInv
<1>9. \A p, q \in AreaPages(b) : t[p] = t[q] => p = q
  <2>1. SUFFICES ASSUME NEW p \in AreaPages(b), NEW q \in AreaPages(b), t[p] = t[q]
                 PROVE  p = q
    OBVIOUS
  <2>2. p - c.base + 1 = q - c.base + 1
    BY <1>4, <2>1 DEF FramesInv
  <2>3. p \in Int /\ q \in Int
    BY <1>1, <1>2 DEF AreaPages
  <2> QED
    BY <1>1, <2>2, <2>3
<1>10. \A a \in A : \A p \in AreaPages(a), q \in AreaPages(b) : t[p] # t[q]
  BY <1>4 DEF FramesInv
<1>11. AreasInv(A \union {b}, R2, t, u)
  <2>1. \A x \in A \union {b} : x.base \in Nat /\ x.n \in Nat /\ x.n > 0 /\ Described(x, R2, t)
    BY <1>1, <1>2, <1>5, <1>6 DEF AreasInv
  <2>2. \A x, y \in A \union {b} : x # y => Before(x, y) \/ Before(y, x)
    BY <1>6, <1>7 DEF AreasInv
  <2>3. \A x, y \in A \union {b} : \A p \in AreaPages(x), q \in AreaPages(y) : t[p] = t[q] => p = q
    BY <1>6, <1>9, <1>10 DEF AreasInv
  <2>4. \A x \in A \union {b} : \A p \in AreaPages(x) : t[p] \notin u
    BY <1>6, <1>8 DEF AreasInv
  <2> QED
    BY <2>1, <2>2, <2>3, <2>4 DEF AreasInv
<1> QED
  BY <1>11 DEF b

LEMMA BackedFrames ==
  ASSUME NEW d, d.va \in Nat, d.pa \in Nat, d.pages \in Nat, NEW t, Backed(d, t)
  PROVE  FramesOf(d) = {t[p] : p \in PagesOf(d)}
<1>1. ASSUME NEW f \in FramesOf(d)
      PROVE  \E p \in PagesOf(d) : f = t[p]
  <2>1. PICK p \in Int : p = d.va + (f - d.pa)
    BY DEF FramesOf
  <2>2. p \in PagesOf(d) /\ d.pa + (p - d.va) = f
    BY <2>1 DEF FramesOf, PagesOf
  <2> QED
    BY <2>2 DEF Backed
<1>2. ASSUME NEW p \in PagesOf(d)
      PROVE  t[p] \in FramesOf(d)
  <2>1. t[p] = d.pa + (p - d.va)
    BY DEF Backed
  <2>2. d.pa + (p - d.va) \in FramesOf(d)
    BY DEF FramesOf, PagesOf
  <2> QED
    BY <2>1, <2>2
<1> QED
  BY <1>1, <1>2

\* The descriptors from the first of an area to its last are those of the area.
LEMMA ChainIsTheArea ==
  ASSUME Table(map, last), Full(map, last), SortedTo(map, last, last), pt \in [Pages -> Frames],
         NEW area, area.base \in Nat, area.n \in Nat, Described(area, Reserved(map, last), pt),
         NEW k \in Found(area.base)
  PROVE  /\ Frames \intersect UNION {FramesOf(map[j]) : j \in Chain(k)} = {pt[p] : p \in AreaPages(area)}
         /\ \A j \in Chain(k) : /\ j \in 0 .. last - 1 /\ area.base <= map[j].va
                                /\ map[j].va + map[j].pages <= area.base + area.n
<1>1. /\ last \in Nat /\ last <= Capacity
      /\ \A j \in 0 .. last - 1 : map[j] \in Descr
      /\ \A j \in Slots : DESCRIPTOR_VALID(map[j]) <=> j < last
  BY ConstantTypes DEF Table, Slots
<1>2. \A j \in 0 .. last - 1 : /\ map[j].va \in Nat /\ map[j].pa \in Nat /\ map[j].pages \in Nat
                              /\ map[j].pages > 0
  BY <1>1, DescrType DEF Full
<1>3. \A i, j \in 0 .. last - 1 : i < j => map[i].va < map[j].va
  BY <1>1 DEF SortedTo
<1>4. k \in 0 .. last - 1 /\ map[k].va = area.base
  <2>1. Min({MapSize, Capacity}) = Capacity
    BY MinOfTwo, ConstantTypes
  <2>2. k \in 0 .. Capacity - 1 /\ map[k].va = area.base /\ DESCRIPTOR_VALID(map[k])
    BY <2>1, ConstantTypes DEF Found
  <2>3. k \in Slots
    BY <2>2 DEF Slots
  <2> QED
    BY <1>1, <2>2, <2>3
<1>5. PICK d \in Reserved(map, last) :
        /\ Backed(d, pt) /\ d.va = area.base
        /\ \/ ~DESCRIPTOR_HAS_NEXT(d) /\ d.pages = area.n
           \/ /\ DESCRIPTOR_HAS_NEXT(d)
              /\ \E e \in Reserved(map, last) :
                   /\ Backed(e, pt) /\ ~DESCRIPTOR_HAS_NEXT(e)
                   /\ e.va = d.va + d.pages /\ d.pages + e.pages = area.n
  BY DEF Described
<1>6. d = map[k]
  <2>1. PICK j \in 0 .. last - 1 : d = map[j]
    BY ReservedMember
  <2>2. ~(j < k) /\ ~(k < j)
    BY <1>2, <1>3, <1>4, <1>5, <2>1
  <2>3. j = k
    BY <2>2, <1>4
  <2> QED
    BY <2>1, <2>3
<1>7. d.va \in Nat /\ d.pa \in Nat /\ d.pages \in Nat
  BY <1>2, <1>4, <1>6
<1>8. FramesOf(d) = {pt[p] : p \in PagesOf(d)}
  BY <1>5, <1>7, BackedFrames
<1>9. \A p \in AreaPages(area) : pt[p] \in Frames
  <2>1. area.base + area.n <= Top + 1
    BY DescribedApart, ReservedSized
  <2>2. \A p \in AreaPages(area) : p \in Pages
    BY <2>1, ConstantTypes DEF AreaPages, Pages
  <2> QED
    BY <2>2
<1>10. \A j : j \in Chain(k) <=>
         /\ j \in k .. Capacity - 1 /\ DESCRIPTOR_VALID(map[j])
         /\ \A x \in k .. j - 1 : DESCRIPTOR_VALID(map[x]) /\ DESCRIPTOR_HAS_NEXT(map[x])
  BY DEF Chain
<1>11. \A j \in 0 .. last - 1 : DESCRIPTOR_VALID(map[j]) /\ j \in 0 .. Capacity - 1
  BY <1>1, ConstantTypes DEF Slots
<1>12. CASE ~DESCRIPTOR_HAS_NEXT(d) /\ d.pages = area.n
  <2>1. ASSUME NEW j
        PROVE  j \in Chain(k) <=> j = k
    <3>1. ASSUME j \in Chain(k), j # k
          PROVE  FALSE
      <4>1. k \in k .. j - 1
        BY <1>4, <1>10, <3>1
      <4> QED
        BY <4>1, <1>6, <1>10, <1>12, <3>1
    <3>2. k \in Chain(k)
      <4>1. k \in k .. Capacity - 1 /\ \A x \in k .. k - 1 : FALSE
        BY <1>4, <1>11, ConstantTypes
      <4> QED
        BY <4>1, <1>4, <1>10, <1>11
    <3> QED
      BY <3>1, <3>2
  <2>2. UNION {FramesOf(map[j]) : j \in Chain(k)} = FramesOf(d)
    BY <2>1, <1>6
  <2>3. AreaPages(area) = PagesOf(d)
    BY <1>5, <1>12 DEF AreaPages, PagesOf
  <2>4. Frames \intersect FramesOf(d) = {pt[p] : p \in AreaPages(area)}
    BY <2>3, <1>8, <1>9
  <2>5. area.base <= map[k].va /\ map[k].va + map[k].pages <= area.base + area.n
    BY <1>4, <1>6, <1>7, <1>12
  <2> QED
    BY <2>1, <2>2, <2>4, <2>5, <1>4
<1>13. ASSUME DESCRIPTOR_HAS_NEXT(d), NEW e \in Reserved(map, last), Backed(e, pt),
              ~DESCRIPTOR_HAS_NEXT(e), e.va = d.va + d.pages, d.pages + e.pages = area.n
       PROVE  /\ Frames \intersect UNION {FramesOf(map[j]) : j \in Chain(k)} = {pt[p] : p \in AreaPages(area)}
              /\ \A j \in Chain(k) : /\ j \in 0 .. last - 1 /\ area.base <= map[j].va
                                     /\ map[j].va + map[j].pages <= area.base + area.n
  <2>1. PICK h \in 0 .. last - 1 : e = map[h]
    BY ReservedMember
  <2>2. e.va \in Nat /\ e.pa \in Nat /\ e.pages \in Nat
    BY <1>2, <2>1
  <2>3. d.pages > 0
    BY <1>2, <1>4, <1>6
  <2>4. k < h
    <3>1. map[k].va < map[h].va
      BY <1>6, <1>7, <1>13, <2>1, <2>2, <2>3
    <3>2. h # k /\ ~(h < k)
      BY <1>2, <1>3, <1>4, <3>1
    <3> QED
      BY <3>2, <1>4
  <2>5. h = k + 1
    <3>1. SUFFICES ASSUME k + 1 < h PROVE FALSE
      BY <1>4, <2>4
    <3>5. last \in Nat
      BY <1>1
    <3>2. PICK g \in 0 .. last - 1 : g = k + 1
      BY <1>4, <3>1, <3>5
    <3>3. map[k].va + map[k].pages <= map[g].va
      BY <1>4, <3>2, SortedEnds
    <3>4. map[g].va < map[h].va
      BY <1>3, <3>1, <3>2
    <3> QED
      BY <3>3, <3>4, <1>2, <1>4, <1>6, <1>13, <2>1
  <2>6. ASSUME NEW j
        PROVE  j \in Chain(k) <=> (j = k \/ j = h)
    <3>1. ASSUME j \in Chain(k), j # k, j # h
          PROVE  FALSE
      <4>1. h \in k .. j - 1
        BY <1>4, <1>10, <2>5, <3>1
      <4> QED
        BY <4>1, <1>10, <1>13, <2>1, <3>1
    <3>2. k \in Chain(k)
      <4>1. k \in k .. Capacity - 1 /\ \A x \in k .. k - 1 : FALSE
        BY <1>4, <1>11, ConstantTypes
      <4> QED
        BY <4>1, <1>4, <1>10, <1>11
    <3>3. h \in Chain(k)
      <4>1. h \in k .. Capacity - 1 /\ \A x \in k .. h - 1 : x = k
        BY <1>4, <1>11, <2>4, <2>5, ConstantTypes
      <4>2. DESCRIPTOR_VALID(map[k]) /\ DESCRIPTOR_HAS_NEXT(map[k]) /\ DESCRIPTOR_VALID(map[h])
        BY <1>4, <1>6, <1>11, <1>13
      <4> QED
        BY <4>1, <4>2, <1>10
    <3> QED
      BY <3>1, <3>2, <3>3
  <2>7. FramesOf(e) = {pt[p] : p \in PagesOf(e)}
    BY <1>13, <2>2, BackedFrames
  <2>8. \A p : p \in AreaPages(area) <=> (p \in PagesOf(d) \/ p \in PagesOf(e))
    BY <1>5, <1>7, <1>13, <2>2 DEF AreaPages, PagesOf
  <2>9. \A f : f \in UNION {FramesOf(map[j]) : j \in Chain(k)} <=> (f \in FramesOf(d) \/ f \in FramesOf(e))
    BY <2>1, <2>6, <1>6
  <2>10. \A f : f \in Frames \intersect UNION {FramesOf(map[j]) : j \in Chain(k)} <=>
                \E p \in AreaPages(area) : f = pt[p]
    BY <2>7, <2>8, <2>9, <1>8, <1>9
  <2>11. Frames \intersect UNION {FramesOf(map[j]) : j \in Chain(k)} = {pt[p] : p \in AreaPages(area)}
    BY <2>10
  <2>12. /\ area.base <= map[k].va /\ map[k].va + map[k].pages <= area.base + area.n
         /\ area.base <= map[h].va /\ map[h].va + map[h].pages <= area.base + area.n
    BY <1>4, <1>5, <1>6, <1>7, <1>13, <2>1, <2>2
  <2> QED
    BY <2>6, <2>11, <2>12, <1>4
<1> QED
  BY <1>5, <1>12, <1>13

LEMMA AllocTypesHold ==
  ASSUME CallForm, call.op = "alloc", Table(map, last),
         Building(map, last, call.base, call.n, call.ind, call.m, call.new)
  PROVE  AllocTypes(call)
<1>1. /\ call.n \in Nat /\ call.n > 0 /\ call.m \in Nat /\ call.m <= call.n
      /\ call.frames \in [1 .. call.n -> Frames]
  BY AllocForm
<1>2. /\ call.ind \in 0 .. last - 1 /\ call.base \in Nat
      /\ map[call.ind].va = call.base + call.m /\ map[call.ind].pages >= call.n - call.m
      /\ map[call.ind].va + map[call.ind].pages <= Top + 1
  BY DEF Building, Table
<1>3. map[call.ind].va \in Nat /\ map[call.ind].pages \in Nat
  BY <1>2, DescrType, ConstantTypes DEF Table, Slots
<1>4. call.base + call.n <= Top + 1
  <2>1. \A n, m, va, pages \in Nat :
          va = call.base + m /\ pages >= n - m /\ va + pages <= Top + 1 => call.base + n <= Top + 1
    BY <1>2, ConstantTypes
  <2> QED
    BY <2>1, <1>1, <1>2, <1>3
<1>5. /\ call.new \in Descr /\ call.base <= call.new.va
      /\ call.new.va + call.new.pages = call.base + call.m
  BY <1>2 DEF Building
<1>6. call.new.va \in Nat /\ call.new.pages \in Nat /\ call.new.pa \in Nat
  BY <1>5, DescrType
<1> QED
  BY <1>1, <1>2, <1>4, <1>5, <1>6 DEF AllocTypes

LEMMA FramesStart ==
  ASSUME NEW A, NEW R, Sized(R), NEW t, NEW F, NEW T, AreasInv(A, R, t, F \union T), F \intersect T = {},
         NEW c, c.base \in Nat, c.n \in Nat, c.n > 0, c.frames \in Injection(1 .. c.n, F), c.m = 0,
         c.new.va = c.base, c.new.pages = 0, c.new.pa = c.frames[1],
         \A d \in R : d.va + d.pages <= c.base \/ c.base + c.n <= d.va
  PROVE  FramesInv(c, A, R, t, (F \ Range(c.frames)) \union T)
<1>1. /\ c.frames \in [1 .. c.n -> F]
      /\ \A i, j \in 1 .. c.n : c.frames[i] = c.frames[j] => i = j
  BY DEF Injection, IsInjective
<1>2. \A i \in 1 .. c.n : c.frames[i] \in F /\ c.frames[i] \in Range(c.frames)
  BY <1>1 DEF Range
<1>3. \A i \in 1 .. c.n : c.frames[i] \notin (F \ Range(c.frames)) \union T
  BY <1>2
<1>4. \A a \in A : Before(a, c) \/ Before(c, a)
  BY DescribedApart DEF AreasInv, Before
<1>5. \A a \in A : \A p \in AreaPages(a), i \in 1 .. c.n : t[p] # c.frames[i]
  BY <1>2 DEF AreasInv
<1>6. \A j \in 0 .. c.new.pages - 1 : FALSE
  OBVIOUS
<1>7. \A j \in 1 .. c.m : FALSE
  OBVIOUS
<1>8. c.m + 1 = 1
  OBVIOUS
<1> QED
  BY <1>1, <1>3, <1>4, <1>5, <1>6, <1>7, <1>8 DEF FramesInv

\* Without a change of the areas, their descriptors and their pages.
LEMMA AreasStay ==
  ASSUME Table(map, last), AreasInv(Areas, Reserved(map, last), pt, free \union tab), NEW R2,
         Reserved(map, last) \subseteq R2, NEW u2 \in SUBSET (free \union tab),
         NEW t2, \A a \in Areas : \A p \in AreaPages(a) : t2[p] = pt[p]
  PROVE  AreasInv(Areas, R2, t2, u2)
<1>1. \A a \in Areas : \A p \in AreaPages(a) : t2[p] = pt[p] /\ pt[p] \notin u2
  BY DEF AreasInv
<1>2. Sized(Reserved(map, last))
  BY ReservedSized
<1>3. \A a \in Areas : \A d \in Reserved(map, last) :
        (a.base <= d.va /\ d.va + d.pages <= a.base + a.n) => d \in R2
  OBVIOUS
<1> QED
  BY <1>1, <1>2, <1>3, AreasKept

\* kfree_page leaves the other areas as they are.
LEMMA FreeKeeps ==
  ASSUME Table(map, last), Full(map, last), SortedTo(map, last, last), pt \in [Pages -> Frames],
         AreasInv(held, Reserved(map, last), pt, free \union tab), free \intersect tab = {},
         NEW area \in held, NEW k \in Found(area.base), NEW F,
         F = free \union (Frames \intersect UNION {FramesOf(map[j]) : j \in Chain(k)})
  PROVE  /\ F = free \union {pt[p] : p \in AreaPages(area)}
         /\ F \intersect tab = {}
         /\ AreasInv(held \ {area}, Reserved(Freed(k), last), pt, F \union tab)
<1>1. /\ area.base \in Nat /\ area.n \in Nat /\ Described(area, Reserved(map, last), pt)
      /\ \A p \in AreaPages(area) : pt[p] \notin free \union tab
  BY DEF AreasInv
<1>2. /\ Frames \intersect UNION {FramesOf(map[j]) : j \in Chain(k)} = {pt[p] : p \in AreaPages(area)}
      /\ \A j \in Chain(k) : /\ j \in 0 .. last - 1 /\ area.base <= map[j].va
                             /\ map[j].va + map[j].pages <= area.base + area.n
  BY <1>1, ChainIsTheArea
<1>3. F = free \union {pt[p] : p \in AreaPages(area)}
  BY <1>2
<1>4. F \intersect tab = {}
  BY <1>1, <1>3
<1>5. Sized(Reserved(map, last))
  BY ReservedSized
<1>6. ASSUME NEW b \in held \ {area}, NEW d \in Reserved(map, last),
             b.base <= d.va, d.va + d.pages <= b.base + b.n
      PROVE  d \in Reserved(Freed(k), last)
  <2>1. PICK j \in 0 .. last - 1 : d = map[j] /\ d.type = "kernel_reserved"
    BY DEF Reserved
  <2>2. d.va \in Nat /\ d.pages \in Nat /\ d.pages > 0
    BY <2>1, ReservedMember DEF Full
  <2>3. /\ b.base \in Nat /\ b.n \in Nat /\ (Before(area, b) \/ Before(b, area))
    BY DEF AreasInv
  <2>4. j \notin Chain(k)
    <3>1. SUFFICES ASSUME area.base <= d.va, d.va + d.pages <= area.base + area.n
                   PROVE  FALSE
      BY <1>2, <2>1
    <3> QED
      BY <3>1, <1>1, <1>6, <2>2, <2>3 DEF Before
  <2>5. j \in Slots
    BY ConstantTypes DEF Table, Slots
  <2>6. Freed(k)[j] = map[j]
    BY <2>4, <2>5 DEF Freed
  <2> QED
    BY <2>1, <2>6 DEF Reserved
<1>7. ASSUME NEW b \in held \ {area}, NEW p \in AreaPages(b)
      PROVE  pt[p] \notin F \union tab
  <2>1. pt[p] \notin free \union tab
    BY DEF AreasInv
  <2>2. ASSUME NEW q \in AreaPages(area)
        PROVE  pt[p] # pt[q]
    <3>1. SUFFICES ASSUME pt[p] = pt[q] PROVE FALSE
      OBVIOUS
    <3>2. p = q
      BY <3>1 DEF AreasInv
    <3>3. b.base \in Nat /\ b.n \in Nat /\ (Before(area, b) \/ Before(b, area))
      BY DEF AreasInv
    <3>4. /\ b.base <= p /\ p < b.base + b.n /\ area.base <= p /\ p < area.base + area.n /\ p \in Int
      BY <3>2, <3>3, <1>1 DEF AreaPages
    <3> QED
      BY <3>3, <3>4, <1>1 DEF Before
  <2> QED
    BY <2>1, <2>2, <1>3
<1>8. AreasInv(held \ {area}, Reserved(Freed(k), last), pt, F \union tab)
  BY <1>5, <1>6, <1>7, AreasKept
<1> QED
  BY <1>3, <1>4, <1>8

-----------------------------------------------------------------------------
(* The steps, and the areas.                                               *)

LEMMA AreasAtStart ==
  ASSUME CallInv, MapInv, AreaInv, NEW n \in 1 .. MaxRequest, kalloc_page(n)
  PROVE  AreaInv'
<1>1. PICK k \in find_available_virtual_memory(n), f \in Injection(1 .. n, free) :
        /\ call' = [op |-> "alloc", base |-> map[k].va, n |-> n, ind |-> k,
                    frames |-> f, m |-> 0,
                    new |-> init_descriptor(map[k].va, f[1], 0, {"valid"}, "kernel_reserved")]
        /\ free' = free \ Range(f)
  BY DEF kalloc_page
<1>2. call = Idle /\ map' = map /\ last' = last /\ pt' = pt /\ tab' = tab /\ held' = held
  BY DEF kalloc_page
<1>3. /\ Table(map, last) /\ last \in Nat /\ last <= Capacity
      /\ map \in [Slots -> Descr]
      /\ \A j \in Slots : DESCRIPTOR_VALID(map[j]) <=> j < last
  BY ConstantTypes DEF MapInv, Table
<1>4. n \in Nat /\ n > 0
  BY MemMapAssumption
<1>5. k \in Slots /\ Suits(k, n)
  BY DEF find_available_virtual_memory
<1>6. DESCRIPTOR_VALID(map[k]) /\ map[k].pages >= n /\ map[k].type = "usable"
  BY <1>5, ConstantTypes DEF Suits, Slots
<1>7. k \in 0 .. last - 1
  BY <1>3, <1>5, <1>6, ConstantTypes DEF Slots
<1>8. map[k].va \in Nat /\ map[k].pages \in Nat
  BY <1>3, <1>5, DescrType
<1> DEFINE R == Reserved(map, last)
<1>9. Sized(R)
  BY <1>3, ReservedSized
<1>10. ASSUME NEW d \in R
       PROVE  d.va + d.pages <= map[k].va \/ map[k].va + n <= d.va
  <2>1. PICK j \in 0 .. last - 1 : d = map[j] /\ d.type = "kernel_reserved"
    BY DEF Reserved
  <2>2. Apart(map[j], map[k])
    BY <1>3, <1>6, <1>7, <2>1 DEF Table
  <2>3. d.va \in Nat /\ d.pages \in Nat
    BY <1>9 DEF Sized
  <2>4. d.va + d.pages <= map[k].va \/ map[k].va + map[k].pages <= d.va
    BY <2>1, <2>2 DEF Apart
  <2>5. \A v, w, pages \in Nat : pages >= n /\ v + pages <= w => v + n <= w
    BY <1>4
  <2> QED
    BY <1>6, <1>8, <2>3, <2>4, <2>5
<1>11. Areas = held /\ Areas' = held
  BY <1>1, <1>2 DEF Areas, Idle
<1>12. AreasInv(held, R, pt, free \union tab) /\ free \intersect tab = {}
  BY <1>11 DEF AreaInv
<1>13. /\ call'.op = "alloc" /\ call'.base = map[k].va /\ call'.n = n /\ call'.frames = f /\ call'.m = 0
       /\ call'.new.va = map[k].va /\ call'.new.pages = 0 /\ call'.new.pa = f[1]
  BY <1>1 DEF init_descriptor
<1> HIDE DEF R
<1>14. PICK c : c = call'
  OBVIOUS
<1>15. /\ c.base \in Nat /\ c.n \in Nat /\ c.n > 0 /\ c.frames \in Injection(1 .. c.n, free) /\ c.m = 0
       /\ c.new.va = c.base /\ c.new.pages = 0 /\ c.new.pa = c.frames[1]
       /\ \A d \in R : d.va + d.pages <= c.base \/ c.base + c.n <= d.va
  BY <1>1, <1>4, <1>8, <1>10, <1>13, <1>14
<1>16. FramesInv(c, held, R, pt, (free \ Range(c.frames)) \union tab)
  BY <1>9, <1>12, <1>15, FramesStart
<1>17. free' \union tab' = (free \ Range(c.frames)) \union tab
  BY <1>1, <1>2, <1>13, <1>14
<1>18. FramesInv(call', held', Reserved(map', last'), pt', free' \union tab')
  BY <1>2, <1>14, <1>16, <1>17 DEF R
<1>19. AreasInv(Areas', Reserved(map', last'), pt', free' \union tab')
  <2>1. (free \ Range(c.frames)) \union tab \in SUBSET (free \union tab)
    OBVIOUS
  <2>2. AreasInv(Areas, Reserved(map, last), pt, (free \ Range(c.frames)) \union tab)
    BY <1>3, <1>11, <1>12, <2>1, AreasStay DEF R
  <2> QED
    BY <1>2, <1>11, <1>17, <2>2
<1>20. free' \intersect tab' = {}
  BY <1>1, <1>2, <1>12
<1> QED
  BY <1>18, <1>19, <1>20 DEF AreaInv

LEMMA AreasAtRefusal ==
  ASSUME CallInv, MapInv, AreaInv, NEW n \in 1 .. MaxRequest, kalloc_page_refused(n)
  PROVE  AreaInv'
<1>1. /\ call = Idle /\ call' = Idle /\ map' = map /\ last' = last /\ pt' = pt /\ tab' = tab
      /\ held' = held /\ free' \subseteq free
  BY DEF kalloc_page_refused
<1>2. Areas' = Areas
  BY <1>1 DEF Areas
<1>3. free' \union tab' \in SUBSET (free \union tab)
  BY <1>1
<1>4. AreasInv(Areas, Reserved(map, last), pt, free' \union tab')
  BY <1>3, AreasStay DEF MapInv, AreaInv
<1> QED
  BY <1>1, <1>2, <1>4 DEF AreaInv, Idle

LEMMA AreasAtSplit ==
  ASSUME CallInv, MapInv, AreaInv, kalloc_page_split, regular'
  PROVE  AreaInv'
<1>1. CallForm /\ Table(map, last)
  BY DEF CallInv, MapInv
<1>2. call.op = "alloc" /\ call.m < call.n
  BY <1>1, AllocForm DEF kalloc_page_split, RunEnds
<1>3. last < Capacity /\ call.new.va = call.base
  BY DEF kalloc_page_split
<1>4. Building(map, last, call.base, call.n, call.ind, call.m, call.new)
  BY <1>2 DEF MapInv
<1>5. AllocTypes(call)
  BY <1>1, <1>2, <1>4, AllocTypesHold
<1> DEFINE d == [call.new EXCEPT !.flags = @ \union {"next"}]
           next == init_descriptor(call.base + call.m, call.frames[call.m + 1], 0, {"valid"},
                                   "kernel_reserved")
           R == Reserved(map, last)
<1>6. /\ map' = [map EXCEPT ![last] = d] /\ last' = last + 1 /\ free' = free
      /\ call' = [call EXCEPT !.new = next]
      /\ pt' = pt /\ tab' = tab /\ held' = held
  <2>1. call.new.va + call.m = call.base + call.m
    BY <1>3
  <2> QED
    BY <1>3, <2>1 DEF kalloc_page_split, Put, Refunded
<1>7. /\ d.va = call.new.va /\ d.pa = call.new.pa /\ d.pages = call.new.pages
      /\ DESCRIPTOR_HAS_NEXT(d) /\ d.type = "kernel_reserved"
  <2>1. call.new \in Descr /\ call.new.type = "kernel_reserved"
    BY <1>4 DEF Building
  <2> QED
    BY <2>1 DEF Descr, DESCRIPTOR_HAS_NEXT
<1>8. next.va = call.base + call.m /\ next.pa = call.frames[call.m + 1] /\ next.pages = 0
  BY DEF init_descriptor
<1> HIDE DEF d, next
<1>9. /\ call'.op = "alloc" /\ call'.base = call.base /\ call'.n = call.n
      /\ call'.frames = call.frames /\ call'.m = call.m /\ call'.new = next
  BY <1>1, <1>2, <1>6, AllocForm
<1>10. Reserved(map', last') = R \union {d}
  <2>1. Reserved([map EXCEPT ![last] = d], last + 1) = Reserved(map, last) \union {d}
    BY <1>1, <1>3, <1>7, ReservedPut
  <2> QED
    BY <1>6, <2>1
<1>11. FramesInv(call, held, R, pt, free \union tab)
  BY <1>2 DEF AreaInv
<1> HIDE DEF R
<1>12. PICK c : c = call'
  OBVIOUS
<1>13. /\ c.n = call.n /\ c.base = call.base /\ c.frames = call.frames /\ c.m = call.m
       /\ c.new.va = call.base + call.m /\ c.new.pa = call.frames[call.m + 1] /\ c.new.pages = 0
  BY <1>8, <1>9, <1>12
<1>14. FramesInv(c, held, R \union {d}, pt, free \union tab)
  BY <1>2, <1>3, <1>5, <1>7, <1>11, <1>13, FramesSplit
<1>15. FramesInv(call', held', Reserved(map', last'), pt', free' \union tab')
  BY <1>6, <1>10, <1>12, <1>14
<1>16. Areas' = Areas
  BY <1>2, <1>6, <1>9 DEF Areas
<1>17. AreasInv(Areas, R \union {d}, pt, free \union tab)
  BY <1>1, AreasStay DEF AreaInv, R
<1>18. AreasInv(Areas', Reserved(map', last'), pt', free' \union tab')
  BY <1>6, <1>10, <1>16, <1>17
<1>19. free' \intersect tab' = {}
  BY <1>6 DEF AreaInv
<1> QED
  BY <1>15, <1>18, <1>19 DEF AreaInv

LEMMA AreasAtMap ==
  ASSUME CallInv, MapInv, AreaInv, kalloc_page_map, regular'
  PROVE  AreaInv'
<1>1. CallForm /\ Table(map, last) /\ pt \in [Pages -> Frames]
  BY DEF CallInv, MapInv
<1>2. call.op = "alloc" /\ call.m < call.n /\ ~RunEnds /\ Taken
  BY DEF kalloc_page_map, PageToMap
<1>3. Building(map, last, call.base, call.n, call.ind, call.m, call.new)
  BY <1>2 DEF MapInv
<1>4. AllocTypes(call)
  BY <1>1, <1>2, <1>3, AllocTypesHold
<1>5. call.n \in Nat /\ call.m \in Nat
  BY <1>4 DEF AllocTypes
<1>6. Maps(call.base + call.m, call.frames[call.m + 1])
  BY DEF kalloc_page_map, MapsAstray
<1>7. PICK T \in SUBSET free :
        /\ free' = free \ T /\ tab' = tab \union T
        /\ pt' = [pt EXCEPT ![call.base + call.m] = call.frames[call.m + 1]]
  BY <1>6 DEF Maps, kSubset
<1>8. free' \union tab' = free \union tab /\ free' \intersect tab' = {}
  BY <1>7 DEF AreaInv
<1> DEFINE R == Reserved(map, last)
<1>9. map' = [map EXCEPT ![call.ind].va = @ + 1, ![call.ind].pages = @ - 1] /\ last' = last /\ held' = held
  BY <1>2 DEF Taken, kalloc_page_map
<1>10. Reserved(map', last') = R
  <2>1. call.ind \in 0 .. last - 1 /\ map[call.ind].type = "usable"
    BY <1>3 DEF Building
  <2>2. Reserved([map EXCEPT ![call.ind].va = @ + 1, ![call.ind].pages = @ - 1], last) = R
    BY <1>1, <2>1, ReservedTake
  <2> QED
    BY <1>9, <2>2
<1>11. Areas = held /\ AreasInv(held, R, pt, free \union tab) /\ FramesInv(call, held, R, pt, free \union tab)
  BY <1>2 DEF Areas, AreaInv
<1>12. Sized(R)
  BY <1>1, ReservedSized
<1> HIDE DEF R
<1>13. \A a \in held : InMemory(a)
  <2>1. SUFFICES ASSUME NEW a \in held PROVE InMemory(a)
    OBVIOUS
  <2>2. a.base \in Nat /\ a.n \in Nat /\ Described(a, R, pt)
    BY <1>11 DEF AreasInv
  <2>3. a.base + a.n <= Top + 1
    BY <1>12, <2>2, DescribedApart
  <2> QED
    BY <2>2, <2>3 DEF InMemory
<1>14. Follows(call)
  <2>1. SUFFICES ASSUME call.m >= 1, call.new.pages > 0
                 PROVE  call.frames[call.m] + 1 = call.frames[call.m + 1]
    BY DEF Follows
  <2>2. call.m \in 1 .. call.n - 1
    BY <1>2, <1>5, <2>1
  <2> QED
    BY <1>2, <2>1, <2>2 DEF RunEnds
<1>15. /\ call'.n = call.n /\ call'.base = call.base /\ call'.frames = call.frames
       /\ call'.m = call.m + 1 /\ call'.new.va = call.new.va /\ call'.new.pa = call.new.pa
       /\ call'.new.pages = call.new.pages + 1 /\ call'.op = "alloc"
  <2>1. call = [op |-> "alloc", base |-> call.base, n |-> call.n, ind |-> call.ind,
                frames |-> call.frames, m |-> call.m, new |-> call.new]
    BY <1>1, <1>2, AllocForm
  <2>2. call.new \in Descr
    BY <1>3 DEF Building
  <2>3. call' = [call EXCEPT !.m = call.m + 1, !.new = [call.new EXCEPT !.pages = @ + 1]]
    BY <1>2, <2>1 DEF Taken
  <2> QED
    BY <2>1, <2>2, <2>3 DEF Descr
<1>16. PICK c : c = call'
  OBVIOUS
<1>17. PICK t2 : t2 = pt'
  OBVIOUS
<1>18. FramesInv(c, held, R, pt', free \union tab) /\ SamePages(held, pt, pt')
  <2>1. PICK u : u = free \union tab
    OBVIOUS
  <2>2. FramesInv(call, held, R, pt, u) /\ call.m < call.n /\ pt \in [Pages -> Frames]
    BY <1>1, <1>2, <1>11, <2>1
  <2>3. TakesPage(call, pt, c, t2)
    BY <1>7, <1>15, <1>16, <1>17 DEF TakesPage
  <2>4. FramesInv(c, held, R, t2, u) /\ SamePages(held, pt, t2)
    BY <1>4, <1>12, <1>13, <1>14, <2>2, <2>3, FramesTake
  <2> QED
    BY <1>17, <2>1, <2>4
<1>19. FramesInv(call', held', Reserved(map', last'), pt', free' \union tab')
  BY <1>8, <1>9, <1>10, <1>16, <1>18
<1>20. Areas' = held
  BY <1>9, <1>15 DEF Areas
<1>21. AreasInv(Areas, R, pt', free \union tab)
  <2>1. Reserved(map, last) \subseteq R /\ free \union tab \in SUBSET (free \union tab)
    BY DEF R
  <2>2. AreasInv(Areas, Reserved(map, last), pt, free \union tab)
    BY DEF AreaInv
  <2>3. \A a \in Areas : \A p \in AreaPages(a) : pt'[p] = pt[p]
    BY <1>11, <1>18 DEF SamePages
  <2> QED
    BY <1>1, <2>1, <2>2, <2>3, AreasStay
<1>22. AreasInv(Areas', Reserved(map', last'), pt', free' \union tab')
  BY <1>8, <1>10, <1>11, <1>20, <1>21
<1> QED
  BY <1>8, <1>19, <1>22 DEF AreaInv

LEMMA AreasAtEnd ==
  ASSUME CallInv, MapInv, AreaInv, kalloc_page_end, regular'
  PROVE  AreaInv'
<1>1. CallForm /\ Table(map, last)
  BY DEF CallInv, MapInv
<1>2. call.op = "alloc" /\ call.m = call.n /\ last < Capacity
  BY DEF kalloc_page_end
<1>3. Building(map, last, call.base, call.n, call.ind, call.n, call.new)
  BY <1>2 DEF MapInv
<1>4. AllocTypes(call)
  BY <1>1, <1>2, <1>3, AllocTypesHold
<1>5. call.n \in Nat
  BY <1>4 DEF AllocTypes
<1>6. call.new.pages > 0 /\ ~DESCRIPTOR_HAS_NEXT(call.new)
  BY <1>3 DEF Building, DESCRIPTOR_HAS_NEXT
<1> DEFINE R == Reserved(map, last)
<1>7. /\ map' = WithoutEmpty([map EXCEPT ![last] = call.new], call.ind)
      /\ last' = IF map[call.ind].pages = 0 THEN last ELSE last + 1
      /\ call' = [op |-> "order", i |-> 0, base |-> call.base, n |-> call.n]
      /\ free' = free /\ tab' = tab /\ pt' = pt /\ held' = held
  BY <1>2 DEF kalloc_page_end, Put, Refunded
<1>8. Reserved(map', last') = R \union {call.new}
  <2>1. PICK w, h : w = map' /\ h = last'
    OBVIOUS
  <2>2. Ended(map, last, call.new, call.ind, w, h)
    BY <1>7, <2>1 DEF Ended
  <2>3. Table(map, last) /\ last < Capacity
    BY <1>1, <1>2
  <2>4. Reserved(w, h) = Reserved(map, last) \union {call.new}
    BY <1>3, <1>5, <2>2, <2>3, ReservedEnd
  <2> QED
    BY <2>1, <2>4
<1>9. /\ Areas = held /\ AreasInv(held, R, pt, free \union tab)
      /\ FramesInv(call, held, R, pt, free \union tab)
  BY <1>2 DEF Areas, AreaInv
<1>10. Sized(R)
  BY <1>1, ReservedSized
<1> HIDE DEF R
<1>11. AreasInv(held \union {[base |-> call.base, n |-> call.n]}, R \union {call.new}, pt, free \union tab)
  BY <1>2, <1>4, <1>6, <1>9, <1>10, FramesEnd
<1>12. Areas' = held \union {[base |-> call.base, n |-> call.n]}
  BY <1>7 DEF Areas
<1>13. AreasInv(Areas', Reserved(map', last'), pt', free' \union tab')
  BY <1>7, <1>8, <1>11, <1>12
<1> QED
  BY <1>7, <1>13 DEF AreaInv

LEMMA AreasAtSort ==
  ASSUME CallInv, MapInv, AreaInv, order_map \/ order_map_end
  PROVE  AreaInv'
<1>1. CallForm /\ Table(map, last) /\ last \in Nat /\ last <= Capacity
  BY ConstantTypes DEF CallInv, MapInv, Table
<1>2. call.op = "order" /\ free' = free /\ tab' = tab /\ pt' = pt /\ last' = last /\ call.n > 0
  BY DEF order_map, order_map_end, MapInv
<1>3. call = [op |-> "order", i |-> call.i, base |-> call.base, n |-> call.n] /\ call.i \in Nat
  BY <1>1, <1>2 DEF CallForm, Idle
<1>4. Areas = held \union {[base |-> call.base, n |-> call.n]}
  BY <1>2 DEF Areas
<1>5. CASE order_map
  <2>1. call.i \in 0 .. last - 1
    <3>1. Min({last, Capacity}) = last
      BY <1>1, MinOfTwo, ConstantTypes
    <3> QED
      BY <1>1, <1>3, <1>5, <3>1 DEF order_map, Ordering
  <2>2. Full(map, last)
    BY <1>2 DEF MapInv
  <2>3. Selected(call.i) \in 0 .. last - 1
    BY <1>1, <2>1, <2>2, SelectedIsLowest
  <2>4. map' = Swapped(map, call.i, Selected(call.i))
    BY <1>5 DEF order_map, Swapped
  <2>5. Reserved(map', last') = Reserved(map, last)
    BY <1>1, <1>2, <2>1, <2>3, <2>4, ReservedSwapped
  <2>6. call' = [call EXCEPT !.i = @ + 1] /\ held' = held
    BY <1>5 DEF order_map
  <2>7. call'.op = "order" /\ call'.base = call.base /\ call'.n = call.n
    BY <1>3, <2>6
  <2>8. Areas' = Areas
    BY <1>4, <2>6, <2>7 DEF Areas
  <2> QED
    BY <1>2, <2>5, <2>7, <2>8 DEF AreaInv
<1>6. CASE order_map_end
  <2>1. map' = map /\ call' = Idle /\ held' = held \union {[base |-> call.base, n |-> call.n]}
    BY <1>6 DEF order_map_end
  <2>2. Areas' = Areas
    BY <1>4, <2>1 DEF Areas, Idle
  <2> QED
    BY <1>2, <2>1, <2>2 DEF AreaInv, Idle
<1> QED
  BY <1>5, <1>6

LEMMA AreasAtFree ==
  ASSUME CallInv, MapInv, AreaInv, NEW area \in held, kfree_page(area)
  PROVE  /\ AreaInv'
         /\ free' = free \union {pt[p] : p \in AreaPages(area)}
         /\ held' = held \ {area}
<1>1. Table(map, last) /\ pt \in [Pages -> Frames] /\ call = Idle
  BY DEF CallInv, MapInv, kfree_page
<1>2. Full(map, last) /\ SortedTo(map, last, last)
  BY <1>1 DEF MapInv, Idle
<1>3. PICK k \in Found(area.base) :
        /\ free' = free \union (Frames \intersect UNION {FramesOf(map[j]) : j \in Chain(k)})
        /\ map' = Freed(k)
  BY DEF kfree_page, Freed
<1>4. Areas = held /\ AreasInv(held, Reserved(map, last), pt, free \union tab) /\ free \intersect tab = {}
  BY <1>1 DEF Areas, AreaInv, Idle
<1>5. /\ free' = free \union {pt[p] : p \in AreaPages(area)}
      /\ free' \intersect tab = {}
      /\ AreasInv(held \ {area}, Reserved(Freed(k), last), pt, free' \union tab)
  BY <1>1, <1>2, <1>3, <1>4, FreeKeeps
<1>6. /\ call' = [op |-> "compress", i |-> 0, size |-> last] /\ held' = held \ {area}
      /\ last' = last /\ pt' = pt /\ tab' = tab
  BY DEF kfree_page
<1>7. Areas' = held \ {area}
  BY <1>6 DEF Areas
<1> QED
  BY <1>3, <1>5, <1>6, <1>7 DEF AreaInv

LEMMA AreasAtCompression ==
  ASSUME CallInv, MapInv, AreaInv, compress_map \/ compress_map_end
  PROVE  AreaInv'
<1>1. CallForm /\ Table(map, last) /\ last \in Nat /\ last <= Capacity
      /\ \A k \in Slots : DESCRIPTOR_VALID(map[k]) <=> k < last
  BY ConstantTypes DEF CallInv, MapInv, Table
<1>2. call.op = "compress" /\ free' = free /\ tab' = tab /\ pt' = pt /\ held' = held
  BY DEF compress_map, compress_map_end
<1>3. call = [op |-> "compress", i |-> call.i, size |-> call.size] /\ call.i \in Nat
  BY <1>1, <1>2 DEF CallForm, Idle
<1>4. Areas = held
  BY <1>2 DEF Areas
<1>5. CASE compress_map
  <2>1. Compressing(call.i) /\ call.size \in 0 .. Capacity
    BY <1>2, <1>5 DEF compress_map, MapInv
  <2>2. call.i \in 0 .. last - 1
    BY <1>1, <1>3, <2>1, ConstantTypes DEF Compressing, Slots
  <2>3. map' = Compressed(call.i) /\ last' = last - Mergeable(call.i) /\ call' = [call EXCEPT !.i = @ + 1]
    BY <1>5 DEF compress_map, Compressed
  <2>4. Reserved(map', last') = Reserved(map, last)
    BY <1>1, <2>2, <2>3, ReservedCompressed
  <2>5. call'.op = "compress"
    BY <1>3, <2>3
  <2>6. Areas' = Areas
    BY <1>2, <1>4, <2>5 DEF Areas
  <2> QED
    BY <1>2, <2>4, <2>5, <2>6 DEF AreaInv
<1>6. CASE compress_map_end
  <2>1. map' = map /\ last' = last /\ call' = Idle
    BY <1>6 DEF compress_map_end
  <2>2. Areas' = Areas
    BY <1>2, <1>4, <2>1 DEF Areas, Idle
  <2> QED
    BY <1>2, <2>1, <2>2 DEF AreaInv, Idle
<1> QED
  BY <1>5, <1>6

LEMMA AreaInvHolds ==
  ASSUME CallInv, MapInv, AreaInv, [Next]_vars, regular'
  PROVE  AreaInv'
<1>1. ASSUME NEW n \in 1 .. MaxRequest, kalloc_page(n)
      PROVE  AreaInv'
  BY <1>1, AreasAtStart
<1>2. ASSUME NEW n \in 1 .. MaxRequest, kalloc_page_refused(n)
      PROVE  AreaInv'
  BY <1>2, AreasAtRefusal
<1>3. ~kalloc_page_unmapped
  BY DEF kalloc_page_unmapped, CannotMap
<1>4. ASSUME NEW area \in held, kfree_page(area)
      PROVE  AreaInv'
  BY <1>4, AreasAtFree
<1>5. CASE kalloc_page_split
  BY <1>5, AreasAtSplit
<1>6. CASE kalloc_page_map
  BY <1>6, AreasAtMap
<1>7. CASE kalloc_page_end
  BY <1>7, AreasAtEnd
<1>8. CASE order_map \/ order_map_end
  BY <1>8, AreasAtSort
<1>9. CASE compress_map \/ compress_map_end
  BY <1>9, AreasAtCompression
<1>10. \A page \in Pages, frame \in Frames : ~kmap_page(page, frame)
  BY DEF kmap_page
<1>11. ~kmap_page_end
  BY DEF kmap_page_end, MapInv
<1>12. CASE UNCHANGED vars
  BY <1>12 DEF vars, AreaInv, Areas
<1> QED
  BY <1>1, <1>2, <1>3, <1>4, <1>5, <1>6, <1>7, <1>8, <1>9, <1>10, <1>11, <1>12
     DEF Next, Calls, Unused

LEMMA SpecAreaInv == Spec => [](MemInv /\ (regular => AreaInv))
<1>1. Init => MemInv /\ AreaInv
  <2>1. SUFFICES ASSUME Init PROVE MemInv /\ AreaInv
    OBVIOUS
  <2>3. held = {} /\ tab = {} /\ call = Idle
    BY <2>1 DEF Init
  <2>2. Areas = {} /\ tab = {} /\ call.op # "alloc"
    BY <2>3 DEF Areas, Idle
  <2> QED
    BY <2>1, <2>2, MapInvInit DEF MemInv, AreaInv, AreasInv
<1>2. MemInv /\ (regular => AreaInv) /\ [Next]_vars => MemInv' /\ (regular => AreaInv)'
  BY CallInvHolds, MapInvHolds, RegularBefore, AreaInvHolds DEF MemInv
<1> QED
  BY <1>1, <1>2, PTL DEF Spec

\* A page of an area is backed by the frame that its descriptor names.
LEMMA DescribedPage ==
  ASSUME Table(map, last), NEW a, a.base \in Nat, a.n \in Nat, Described(a, Reserved(map, last), pt),
         NEW p \in AreaPages(a)
  PROVE  \E u \in Used : /\ u[2].type = "kernel_reserved"
                         /\ p \in PagesOf(u[2])
                         /\ pt[p] = u[2].pa + (p - u[2].va)
<1>1. \E d \in Reserved(map, last) : p \in PagesOf(d) /\ Backed(d, pt)
  <2>1. PICK d \in Reserved(map, last) :
         /\ Backed(d, pt) /\ d.va = a.base
         /\ \/ d.pages = a.n
            \/ \E e \in Reserved(map, last) :
                 Backed(e, pt) /\ e.va = d.va + d.pages /\ d.pages + e.pages = a.n
    BY DEF Described
  <2>2. d.va \in Nat /\ d.pages \in Nat
    BY ReservedMember
  <2>3. p \in Int /\ a.base <= p /\ p < a.base + a.n
    BY DEF AreaPages
  <2>4. CASE d.pages = a.n
    <3>1. p \in PagesOf(d)
      BY <2>1, <2>4 DEF PagesOf, AreaPages
    <3> QED
      BY <2>1, <3>1
  <2>5. ASSUME NEW e \in Reserved(map, last), Backed(e, pt), e.va = d.va + d.pages,
               d.pages + e.pages = a.n
        PROVE  \E f \in Reserved(map, last) : p \in PagesOf(f) /\ Backed(f, pt)
    <3>1. e.va \in Nat /\ e.pages \in Nat
      BY ReservedMember
    <3>2. CASE p < d.va + d.pages
      <4>1. p \in PagesOf(d)
        BY <2>1, <2>2, <2>3, <3>2 DEF PagesOf
      <4> QED
        BY <2>1, <4>1
    <3>3. CASE p >= d.va + d.pages
      <4>1. p \in PagesOf(e)
        BY <2>1, <2>2, <2>3, <2>5, <3>1, <3>3 DEF PagesOf
      <4> QED
        BY <2>5, <4>1
    <3> QED
      BY <2>2, <2>3, <3>2, <3>3
  <2> QED
    BY <2>1, <2>4, <2>5
<1>2. PICK d \in Reserved(map, last) : p \in PagesOf(d) /\ Backed(d, pt)
  BY <1>1
<1>3. PICK k \in 0 .. last - 1 : d = map[k] /\ d.type = "kernel_reserved"
  BY DEF Reserved
<1>4. k \in Slots /\ DESCRIPTOR_VALID(map[k])
  BY ConstantTypes DEF Table, Slots
<1>5. <<k, d>> \in Used
  BY <1>3, <1>4 DEF Used
<1>6. <<k, d>>[2] = d
  OBVIOUS
<1>7. pt[p] = d.pa + (p - d.va)
  BY <1>2 DEF Backed
<1> QED
  BY <1>2, <1>3, <1>5, <1>6, <1>7

(***************************************************************************)
(* In every regular state an area that a caller holds is backed page by     *)
(* page by the frame its descriptor names, and no other area, no page table *)
(* and no free frame shares that frame, whatever calls come in what order:  *)
(* kalloc_page in the middle of its loop, the sort and the compression.     *)
(***************************************************************************)
THEOREM AreasStayBacked == Spec => []AreasAreBacked
<1>1. MemInv /\ (regular => AreaInv) => AreasAreBacked
  <2>1. SUFFICES ASSUME MemInv, regular, AreaInv PROVE AreasAreBacked
    BY DEF AreasAreBacked
  <2>2. Table(map, last)
    BY <2>1 DEF MemInv, MapInv
  <2>3. held \subseteq Areas /\ AreasInv(Areas, Reserved(map, last), pt, free \union tab)
    BY <2>1 DEF AreaInv, Areas
  <2>4. ASSUME NEW a \in held, NEW p \in AreaPages(a)
        PROVE  /\ pt[p] \notin free \union tab
               /\ \E u \in Used : /\ u[2].type = "kernel_reserved"
                                  /\ p \in PagesOf(u[2])
                                  /\ pt[p] = u[2].pa + (p - u[2].va)
    <3>1. a.base \in Nat /\ a.n \in Nat /\ Described(a, Reserved(map, last), pt)
      BY <2>3 DEF AreasInv
    <3>2. pt[p] \notin free \union tab
      BY <2>3 DEF AreasInv
    <3> QED
      BY <2>2, <3>1, <3>2, DescribedPage
  <2>5. ASSUME NEW a \in held, NEW b \in held, NEW p \in AreaPages(a), NEW q \in AreaPages(b), pt[p] = pt[q]
        PROVE  p = q /\ a = b
    <3>1. p = q
      BY <2>3, <2>5 DEF AreasInv
    <3>2. a = b
      <4>1. SUFFICES ASSUME a # b PROVE FALSE
        OBVIOUS
      <4>2. /\ a.base \in Nat /\ a.n \in Nat /\ b.base \in Nat /\ b.n \in Nat
            /\ Before(a, b) \/ Before(b, a)
        BY <2>3, <4>1 DEF AreasInv
      <4>3. p \in Int /\ a.base <= p /\ p < a.base + a.n /\ b.base <= p /\ p < b.base + b.n
        BY <3>1, <4>2 DEF AreaPages
      <4> QED
        BY <4>2, <4>3 DEF Before
    <3> QED
      BY <3>1, <3>2
  <2> QED
    BY <2>4, <2>5 DEF AreasAreBacked
<1> QED
  BY <1>1, SpecAreaInv, PTL

(***************************************************************************)
(* kfree_page gives back exactly the frames that the pages of the area are  *)
(* mapped to: the walk along the descriptors from its first one neither     *)
(* stops early nor runs on into another area.                               *)
(***************************************************************************)
THEOREM FreeReturnsItsFrames == Spec => FreeReturnsTheArea
<1>1. MemInv /\ (regular => AreaInv) /\ [Next]_vars =>
        [\A area \in held \ held' :
           regular => free' = free \union {pt[p] : p \in AreaPages(area)}]_vars
  <2>1. SUFFICES ASSUME CallInv, MapInv, AreaInv, regular, [Next]_vars,
                        NEW area \in held, area \notin held'
                 PROVE  free' = free \union {pt[p] : p \in AreaPages(area)}
    BY DEF MemInv
  <2>2. PICK a \in held : kfree_page(a)
    BY <2>1 DEF Next, Calls, Unused, vars, kalloc_page, kalloc_page_refused, kalloc_page_split,
       kalloc_page_map, kalloc_page_unmapped, kalloc_page_end, order_map, order_map_end,
       compress_map, compress_map_end, kmap_page, kmap_page_end
  <2>3. held' = held \ {a} /\ free' = free \union {pt[p] : p \in AreaPages(a)}
    BY <2>1, <2>2, AreasAtFree
  <2>4. area = a
    BY <2>1, <2>3
  <2> QED
    BY <2>3, <2>4
<1> QED
  BY <1>1, SpecAreaInv, PTL DEF Spec, FreeReturnsTheArea
=============================================================================
