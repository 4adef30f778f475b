---------------------------- MODULE KHeapProofs -----------------------------
(***************************************************************************)
(* Proofs about KHeap, for every heap size, table size and number of       *)
(* operations between two compressions.                                    *)
(***************************************************************************)
EXTENDS KHeap, SequenceTheorems, WellFoundedInduction, TLAPS

USE HeapAssumption

-----------------------------------------------------------------------------
(***************************************************************************)
(* The inductive invariant.                                                *)
(***************************************************************************)
Apart(d, e) == d.base + d.size <= e.base \/ e.base + e.size <= d.base

\* Sums of sizes, and the bytes of two blocks apart.
LEMMA SumsAssociate ==
    ASSUME NEW x \in Nat, NEW y \in Nat, NEW m \in Nat
    PROVE  /\ x + (y + m) <= H <=> (x + y) + m <= H
           /\ x + (y + m) <= H => x + y <= H
  BY HeapAssumption

LEMMA SplitSizes ==
    ASSUME NEW x \in Nat, NEW s \in Nat, NEW m \in Nat, m < s, x + s <= H
    PROVE  /\ s - m \in Nat /\ x + m \in Nat /\ s = m + (s - m)
           /\ (x + m) + (s - m) <= H /\ x + m <= H
  BY HeapAssumption

LEMMA BytesApart ==
    ASSUME NEW x \in Nat, NEW s \in Nat, NEW y \in Nat, NEW z \in Nat, NEW q \in Nat,
           q <= s, x + s <= y \/ y + z <= x
    PROVE  (x .. x + q - 1) \cap (y .. y + z - 1) = {}
  OBVIOUS

\* A table that describes every byte of the heap once.
Good(t) ==
    /\ t \in Seq(Descriptor)
    /\ \A k \in 1..Len(t) : t[k].base + t[k].size <= H
    /\ \A k, l \in 1..Len(t) : k # l => Apart(t[k], t[l])
    /\ \A a \in Offsets : \E k \in 1..Len(t) : a \in Span(t[k])

\* kmalloc searches only when it found room for one descriptor more.
RoomForOne ==
    pc = "fit" \/ (pc = "compress" /\ after = "fit") =>
        Len(map) < MaxDescriptors /\ req \in 1..H-1

\* A compression has sorted the descriptors before ci.
SortedSoFar ==
    pc = "compress" =>
        /\ ci \in 1..Len(map)
        /\ \A k \in 1..ci-1, l \in 1..Len(map) :
              k < l => map[k].base < map[l].base

HeapInv == TypeOK /\ Good(map) /\ RoomForOne /\ SortedSoFar /\ AnswerIsABlock

-----------------------------------------------------------------------------
(***************************************************************************)
(* Sequences, and what a change of the table does to it.                   *)
(***************************************************************************)
LEMMA RemoveAtElements ==
    ASSUME NEW S, NEW t \in Seq(S), NEW k \in 1..Len(t)
    PROVE  /\ RemoveAt(t, k) \in Seq(S)
           /\ Len(RemoveAt(t, k)) = Len(t) - 1
           /\ \A i \in 1..Len(t)-1 :
                 RemoveAt(t, k)[i] = IF i < k THEN t[i] ELSE t[i+1]
<1> DEFINE u == SubSeq(t, 1, k-1)
           v == SubSeq(t, k+1, Len(t))
<1>1. Len(t) \in Nat /\ \A i \in 1..Len(t) : t[i] \in S
  BY LenProperties, ElementOfSeq
<1>2. \A i \in 1..k-1 : t[i] \in S
  BY <1>1
<1>3. /\ u \in Seq(S) /\ Len(u) = k-1
      /\ \A i \in 1..k-1 : u[i] = t[i]
  BY <1>1, <1>2, SubSeqProperties, k-1 \in Int, 1 \in Int
<1>4. \A i \in k+1..Len(t) : t[i] \in S
  BY <1>1
<1>5. /\ v \in Seq(S) /\ Len(v) = Len(t) - k
      /\ \A i \in 1..Len(t)-k : v[i] = t[i+k]
  <2>1. k+1 \in Int /\ Len(t) \in Int
    BY <1>1
  <2>2. /\ v \in Seq(S)
        /\ Len(v) = IF k+1 <= Len(t) THEN Len(t)-(k+1)+1 ELSE 0
        /\ \A i \in 1..Len(t)-(k+1)+1 : v[i] = t[(k+1)+i-1]
    BY <2>1, <1>4, SubSeqProperties
  <2> QED
    BY <2>2, <1>1
<1> HIDE DEF u, v
<1>6. /\ u \o v \in Seq(S)
      /\ Len(u \o v) = Len(u) + Len(v)
      /\ \A i \in 1..Len(u) + Len(v) :
            (u \o v)[i] = IF i <= Len(u) THEN u[i] ELSE v[i - Len(u)]
  BY <1>3, <1>5, ConcatProperties
<1>7. RemoveAt(t, k) = u \o v
  BY DEF RemoveAt, u, v
<1>8. \A i \in 1..Len(t)-1 :
          (u \o v)[i] = IF i < k THEN t[i] ELSE t[i+1]
  <2> TAKE i \in 1..Len(t)-1
  <2>1. CASE i < k
    BY <2>1, <1>1, <1>3, <1>5, <1>6
  <2>2. CASE i >= k
    <3>1. (u \o v)[i] = v[i - (k-1)] /\ i - (k-1) \in 1..Len(t)-k
      BY <2>2, <1>1, <1>3, <1>5, <1>6
    <3>2. v[i - (k-1)] = t[i - (k-1) + k]
      BY <3>1, <1>5
    <3> QED
      BY <3>1, <3>2, <2>2, <1>1
  <2>3. i < k \/ i >= k
    BY <1>1
  <2> QED
    BY <2>1, <2>2, <2>3, Zenon
<1>9. Len(u \o v) = Len(t) - 1
  BY <1>1, <1>3, <1>5, <1>6
<1> QED
  BY <1>6, <1>7, <1>8, <1>9, Zenon

\* The same descriptors at other places.
Places(u, t, f) ==
    /\ f \in [1..Len(u) -> 1..Len(t)]
    /\ \A i \in 1..Len(u) : u[i].base = t[f[i]].base /\ u[i].size = t[f[i]].size
    /\ \A i, j \in 1..Len(u) : f[i] = f[j] => i = j
    /\ \A k \in 1..Len(t) : \E i \in 1..Len(u) : f[i] = k

LEMMA GoodMoved ==
    ASSUME NEW t, NEW u, NEW f, Good(t), u \in Seq(Descriptor), Places(u, t, f)
    PROVE  Good(u)
<1>1. \A k \in 1..Len(u) : u[k].base + u[k].size <= H
  BY DEF Good, Places
<1>2. \A k, l \in 1..Len(u) : k # l => Apart(u[k], u[l])
  <2> TAKE k, l \in 1..Len(u)
  <2> HAVE k # l
  <2>1. f[k] \in 1..Len(t) /\ f[l] \in 1..Len(t) /\ f[k] # f[l]
    BY DEF Places
  <2>2. Apart(t[f[k]], t[f[l]])
    BY <2>1 DEF Good
  <2> QED
    BY <2>2 DEF Places, Apart
<1>3. \A a \in Offsets : \E k \in 1..Len(u) : a \in Span(u[k])
  <2> TAKE a \in Offsets
  <2>1. PICK k \in 1..Len(t) : a \in Span(t[k])
    BY DEF Good
  <2>2. PICK i \in 1..Len(u) : f[i] = k
    BY DEF Places
  <2>3. Span(u[i]) = Span(t[k])
    BY <2>2 DEF Places, Span
  <2> QED
    BY <2>1, <2>3
<1> QED
  BY <1>1, <1>2, <1>3 DEF Good

\* The elements of a table are descriptors.
LEMMA Descriptors ==
    ASSUME NEW t \in Seq(Descriptor)
    PROVE  /\ Len(t) \in Nat /\ DOMAIN t = 1..Len(t)
           /\ \A k \in 1..Len(t) :
                 /\ t[k] \in Descriptor
                 /\ t[k].base \in Nat /\ t[k].base < H
                 /\ t[k].size \in Nat /\ t[k].size >= 1 /\ t[k].size <= H
                 /\ t[k].free \in BOOLEAN
<1>1. Len(t) \in Nat /\ DOMAIN t = 1..Len(t)
  BY LenProperties
<1>2. \A k \in 1..Len(t) : t[k] \in Descriptor
  BY ElementOfSeq
<1> QED
  BY <1>1, <1>2 DEF Descriptor, Offsets

\* Setting a flag moves nothing.
LEMMA GoodFlag ==
    ASSUME NEW t, Good(t), NEW k \in 1..Len(t), NEW b \in BOOLEAN
    PROVE  /\ Good([t EXCEPT ![k].free = b])
           /\ Len([t EXCEPT ![k].free = b]) = Len(t)
           /\ \A i \in 1..Len(t) : [t EXCEPT ![k].free = b][i] =
                 IF i = k THEN [base |-> t[k].base, size |-> t[k].size, free |-> b]
                          ELSE t[i]
<1> DEFINE e == [base |-> t[k].base, size |-> t[k].size, free |-> b]
           u == [t EXCEPT ![k] = e]
           f == [i \in 1..Len(t) |-> i]
<1>1. t \in Seq(Descriptor)
  BY DEF Good
<1>2. e \in Descriptor /\ e = [t[k] EXCEPT !.free = b]
  <2>1. t[k] \in Descriptor
    BY <1>1, Descriptors
  <2> QED
    BY <2>1 DEF Descriptor
<1>3. u = [t EXCEPT ![k].free = b]
  BY <1>1, <1>2, LenProperties
<1>4. /\ u \in Seq(Descriptor) /\ Len(u) = Len(t)
      /\ \A i \in 1..Len(t) : u[i] = IF i = k THEN e ELSE t[i]
  BY <1>1, <1>2, ExceptSeq
<1> HIDE DEF u
<1>5. Places(u, t, f)
  BY <1>4 DEF Places
<1>6. Good(u)
  BY <1>4, <1>5, GoodMoved
<1> QED
  BY <1>3, <1>4, <1>6

Swapped(t, k, l) == [t EXCEPT ![k] = t[l], ![l] = t[k]]

LEMMA GoodSwap ==
    ASSUME NEW t, Good(t), NEW k \in 1..Len(t), NEW l \in 1..Len(t)
    PROVE  /\ Good(Swapped(t, k, l)) /\ Len(Swapped(t, k, l)) = Len(t)
           /\ \A i \in 1..Len(t) : Swapped(t, k, l)[i] =
                 IF i = k THEN t[l] ELSE IF i = l THEN t[k] ELSE t[i]
<1> DEFINE u == Swapped(t, k, l)
           v == [t EXCEPT ![k] = t[l]]
           f == [i \in 1..Len(t) |-> IF i = k THEN l ELSE IF i = l THEN k ELSE i]
<1>1. t \in Seq(Descriptor) /\ t[k] \in Descriptor /\ t[l] \in Descriptor
  BY Descriptors DEF Good
<1>2. /\ v \in Seq(Descriptor) /\ Len(v) = Len(t)
      /\ \A i \in 1..Len(t) : v[i] = IF i = k THEN t[l] ELSE t[i]
  BY <1>1, ExceptSeq
<1>3. u = [v EXCEPT ![l] = t[k]]
  BY Zenon DEF Swapped
<1> HIDE DEF u, v
<1>4. /\ u \in Seq(Descriptor) /\ Len(u) = Len(t)
      /\ \A i \in 1..Len(t) : u[i] = IF i = l THEN t[k] ELSE v[i]
  BY <1>1, <1>2, <1>3, ExceptSeq
<1>5. \A i \in 1..Len(t) :
          u[i] = IF i = k THEN t[l] ELSE IF i = l THEN t[k] ELSE t[i]
  BY <1>2, <1>4
<1>6. Places(u, t, f)
  BY <1>4, <1>5 DEF Places
<1> HIDE DEF f
<1>7. Good(u)
  BY <1>4, <1>6, GoodMoved
<1> QED
  BY <1>4, <1>5, <1>7, Zenon DEF u

\* f is what d and e, one after the other, describe together.
LEMMA Joined ==
    ASSUME NEW d, NEW e, NEW f,
           d.base \in Nat, d.size \in Nat, e.base \in Nat, e.size \in Nat,
           e.base = d.base + d.size, f.base = d.base, f.size = d.size + e.size
    PROVE  /\ \A a \in Offsets : a \in Span(d) \/ a \in Span(e) <=> a \in Span(f)
           /\ Apart(d, e) /\ Apart(e, d)
  BY DEF Span, Offsets, Apart

LEMMA ApartFromJoined ==
    ASSUME NEW d, NEW e, NEW f, NEW x,
           d.base \in Nat, d.size \in Nat, e.base \in Nat, e.size \in Nat,
           e.base = d.base + d.size, f.base = d.base, f.size = d.size + e.size,
           x.base \in Nat, x.size \in Nat, x.size > 0
    PROVE  /\ Apart(x, d) /\ Apart(x, e) <=> Apart(x, f)
           /\ Apart(x, d) <=> Apart(d, x)
           /\ Apart(x, e) <=> Apart(e, x)
           /\ Apart(x, f) <=> Apart(f, x)
  BY DEF Apart

\* u is t with the descriptor at k merged into its neighbour on the left.
Merged(u, t, k) ==
    /\ Len(u) = Len(t) - 1
    /\ \A i \in 1..Len(u) :
          /\ i < k - 1 => u[i] = t[i]
          /\ i = k - 1 => /\ u[i].base = t[i].base
                          /\ u[i].size = t[i].size + t[k].size
                          /\ u[i].free = t[i].free
          /\ i > k - 1 => u[i] = t[i+1]

LEMMA GoodMerge ==
    ASSUME NEW t, Good(t), NEW k \in 2..Len(t),
           t[k-1].base + t[k-1].size = t[k].base,
           NEW u \in Seq(Descriptor), Merged(u, t, k)
    PROVE  Good(u)
<1> DEFINE at(n) == IF n < k THEN n ELSE n + 1
           p == k - 1
<1>1. t \in Seq(Descriptor) /\ Len(t) \in Nat /\ k - 1 \in 1..Len(t) /\ k \in Nat
  BY Descriptors DEF Good
<1>2. /\ Len(u) = Len(t) - 1 /\ k - 1 \in 1..Len(u)
      /\ u[k-1].base = t[k-1].base
      /\ u[k-1].size = t[k-1].size + t[k].size
      /\ \A n \in 1..Len(u) :
            n # k - 1 => u[n] = t[at(n)] /\ at(n) # k - 1
      /\ \A n \in 1..Len(u) : at(n) \in 1..Len(t) /\ at(n) # k
      /\ \A m, n \in 1..Len(u) : m # n => at(m) # at(n)
  <2>1. Len(u) = Len(t) - 1 /\ k - 1 \in 1..Len(u)
    BY <1>1 DEF Merged
  <2>2. u[k-1].base = t[k-1].base /\ u[k-1].size = t[k-1].size + t[k].size
    BY <2>1 DEF Merged
  <2>3. \A n \in 1..Len(u) : n # k - 1 => u[n] = t[at(n)] /\ at(n) # k - 1
    <3> TAKE n \in 1..Len(u)
    <3> HAVE n # k - 1
    <3>1. CASE n < k - 1
      BY <3>1, <1>1 DEF Merged
    <3>2. CASE n > k - 1
      BY <3>2, <1>1 DEF Merged
    <3> QED
      BY <3>1, <3>2, <1>1, <2>1
  <2>4. \A n \in 1..Len(u) : at(n) \in 1..Len(t) /\ at(n) # k
    BY <1>1, <2>1
  <2>5. \A m, n \in 1..Len(u) : m # n => at(m) # at(n)
    BY <1>1, <2>1
  <2> QED
    BY <2>1, <2>2, <2>3, <2>4, <2>5
<1>3. \A i \in 1..Len(t) :
          /\ t[i].base \in Nat /\ t[i].size \in Nat /\ t[i].size >= 1
          /\ t[i].base + t[i].size <= H
  BY <1>1, Descriptors DEF Good
<1>4. /\ t[k].base = t[p].base + t[p].size
      /\ u[p].base = t[p].base /\ u[p].size = t[p].size + t[k].size
      /\ t[p].base \in Nat /\ t[p].size \in Nat /\ t[p].size >= 1
      /\ t[k].base \in Nat /\ t[k].size \in Nat /\ t[k].size >= 1
      /\ t[k].base + t[k].size <= H
  BY <1>1, <1>2, <1>3 DEF p
<1>5. /\ p = k - 1 /\ p \in 1..Len(u) /\ p \in 1..Len(t)
      /\ \A n \in 1..Len(u) : n # p => u[n] = t[at(n)] /\ at(n) # p
  BY <1>1, <1>2
<1> HIDE DEF at, p
<1>7. \A i \in 1..Len(u) : u[i].base + u[i].size <= H
  <2> TAKE i \in 1..Len(u)
  <2>1. CASE i = p
    <3>1. /\ t[p].base \in Nat /\ t[p].size \in Nat /\ t[k].size \in Nat
          /\ (t[p].base + t[p].size) + t[k].size <= H
      BY <1>4
    <3>2. t[p].base + (t[p].size + t[k].size) <= H
      BY <3>1, SumsAssociate
    <3> QED
      BY <2>1, <3>2, <1>4
  <2>2. CASE i # p
    BY <2>2, <1>2, <1>3, <1>5
  <2> QED
    BY <2>1, <2>2
<1>8. \A i, j \in 1..Len(u) : i # j => Apart(u[i], u[j])
  <2>1. \A m, n \in 1..Len(t) : m # n => Apart(t[m], t[n])
    BY DEF Good
  <2>2. \A n \in 1..Len(u) : n # p =>
            Apart(t[at(n)], t[p]) /\ Apart(t[at(n)], t[k])
    BY <1>1, <1>2, <1>5, <2>1
  <2>3. \A n \in 1..Len(u) : n # p =>
            Apart(u[n], u[p]) /\ Apart(u[p], u[n])
    <3> TAKE n \in 1..Len(u)
    <3> HAVE n # p
    <3>1. /\ Apart(t[at(n)], t[p]) /\ Apart(t[at(n)], t[k])
          /\ u[n] = t[at(n)] /\ at(n) \in 1..Len(t)
      BY <1>2, <1>5, <2>2
    <3>2. /\ t[at(n)].base \in Nat /\ t[at(n)].size \in Nat /\ t[at(n)].size > 0
      BY <1>3, <3>1
    <3>3. /\ Apart(t[at(n)], u[p]) /\ Apart(u[p], t[at(n)])
      BY <3>1, <3>2, <1>4, ApartFromJoined
    <3> QED
      BY <3>1, <3>3
  <2> TAKE i, j \in 1..Len(u)
  <2> HAVE i # j
  <2>4. CASE i # p /\ j # p
    <3>1. /\ at(i) # at(j) /\ at(i) \in 1..Len(t) /\ at(j) \in 1..Len(t)
          /\ u[i] = t[at(i)] /\ u[j] = t[at(j)]
      BY <2>4, <1>2, <1>5
    <3> QED
      BY <3>1, <2>1
  <2>5. CASE i = p
    BY <2>3, <2>5
  <2>6. CASE j = p
    BY <2>3, <2>6
  <2> QED
    BY <2>4, <2>5, <2>6
<1>9. \A a \in Offsets : \E i \in 1..Len(u) : a \in Span(u[i])
  <2> TAKE a \in Offsets
  <2>1. PICK l \in 1..Len(t) : a \in Span(t[l])
    BY DEF Good
  <2>2. CASE l < p
    <3>1. l \in 1..Len(u) /\ u[l] = t[l]
      <4>1. l \in 1..Len(u)
        BY <2>2, <1>1, <1>2, <1>5
      <4> QED
        BY <4>1, <2>2, <1>5 DEF Merged
    <3> QED
      BY <3>1, <2>1
  <2>3. CASE l = p \/ l = k
    <3>1. a \in Span(t[p]) \/ a \in Span(t[k]) <=> a \in Span(u[p])
      BY <1>4, Joined
    <3> QED
      BY <2>1, <2>3, <3>1, <1>2, <1>5
  <2>4. CASE l > k
    <3>1. l - 1 \in 1..Len(u) /\ l - 1 > p /\ (l - 1) + 1 = l
      BY <2>4, <1>1, <1>2, <1>5
    <3>2. u[l-1] = t[l]
      BY <3>1, <1>5 DEF Merged
    <3> QED
      BY <3>1, <3>2, <2>1
  <2> QED
    BY <2>2, <2>3, <2>4, <1>1, <1>5
<1> QED
  BY <1>7, <1>8, <1>9 DEF Good

\* u is t with the first n bytes of the descriptor at k described by a new one
\* at the end.
SplitOff(u, t, k, n) ==
    /\ Len(u) = Len(t) + 1
    /\ \A i \in 1..Len(t) : i # k => u[i] = t[i]
    /\ u[k].base = t[k].base + n /\ u[k].size = t[k].size - n
    /\ u[k].free = t[k].free
    /\ u[Len(t)+1].base = t[k].base /\ u[Len(t)+1].size = n

LEMMA GoodSplit ==
    ASSUME NEW t, Good(t), NEW k \in 1..Len(t),
           NEW n \in Nat, 0 < n, n < t[k].size,
           NEW u \in Seq(Descriptor), SplitOff(u, t, k, n)
    PROVE  Good(u)
<1> DEFINE z == Len(t) + 1
<1>1. t \in Seq(Descriptor) /\ Len(t) \in Nat
  BY Descriptors DEF Good
<1>2. \A i \in 1..Len(t) :
          /\ t[i].base \in Nat /\ t[i].size \in Nat /\ t[i].size >= 1
          /\ t[i].base + t[i].size <= H
  BY <1>1, Descriptors DEF Good
<1>3. \A i \in 1..Len(u) : i \in 1..Len(t) \/ i = z
  BY <1>1 DEF SplitOff
<1>4. 1..Len(t) \subseteq 1..Len(u) /\ z \in 1..Len(u) /\ z \notin 1..Len(t)
  BY <1>1 DEF SplitOff
<1>5. \A i \in 1..Len(t) : i # k => u[i] = t[i]
  BY DEF SplitOff
<1>6. /\ u[z].base \in Nat /\ u[z].size \in Nat
      /\ u[k].base \in Nat /\ u[k].size \in Nat
      /\ u[k].base = u[z].base + u[z].size
      /\ t[k].base = u[z].base /\ t[k].size = u[z].size + u[k].size
      /\ t[k].base + t[k].size <= H
      /\ u[k].base + u[k].size <= H /\ u[z].base + u[z].size <= H
  <2>1. /\ t[k].base \in Nat /\ t[k].size \in Nat /\ t[k].base + t[k].size <= H
    BY <1>2
  <2>2. /\ u[k].base = t[k].base + n /\ u[k].size = t[k].size - n
        /\ u[z].base = t[k].base /\ u[z].size = n
    BY DEF SplitOff
  <2>3. /\ t[k].size - n \in Nat /\ t[k].base + n \in Nat
        /\ t[k].size = n + (t[k].size - n)
        /\ (t[k].base + n) + (t[k].size - n) <= H /\ t[k].base + n <= H
    BY <2>1, SplitSizes
  <2>4. /\ u[z].base \in Nat /\ u[z].size \in Nat /\ t[k].base = u[z].base
        /\ u[k].base = u[z].base + u[z].size
    BY <2>1, <2>2
  <2>5. /\ u[k].base \in Nat /\ u[k].size \in Nat
        /\ t[k].size = u[z].size + u[k].size
    BY <2>2, <2>3
  <2>6. u[k].base + u[k].size <= H /\ u[z].base + u[z].size <= H
    BY <2>2, <2>3
  <2> QED
    BY <2>1, <2>4, <2>5, <2>6
<1> HIDE DEF z
<1>8. \A i \in 1..Len(u) : u[i].base + u[i].size <= H
  <2> TAKE i \in 1..Len(u)
  <2>1. CASE i \in 1..Len(t) /\ i # k
    BY <2>1, <1>2, <1>5
  <2>2. CASE i = k \/ i = z
    BY <2>2, <1>6
  <2> QED
    BY <1>3, <2>1, <2>2
<1>9. \A i, j \in 1..Len(u) : i # j => Apart(u[i], u[j])
  <2>1. \A i, j \in 1..Len(t) : i # j => Apart(t[i], t[j])
    BY DEF Good
  <2>2. \A i \in 1..Len(t) : i # k =>
            /\ Apart(u[i], u[k]) /\ Apart(u[k], u[i])
            /\ Apart(u[i], u[z]) /\ Apart(u[z], u[i])
    <3> TAKE i \in 1..Len(t)
    <3> HAVE i # k
    <3>1. Apart(t[i], t[k]) /\ u[i] = t[i]
      BY <2>1, <1>5
    <3>2. t[i].base \in Nat /\ t[i].size \in Nat /\ t[i].size > 0
      BY <1>2
    <3>3. /\ Apart(t[i], u[k]) /\ Apart(u[k], t[i])
          /\ Apart(t[i], u[z]) /\ Apart(u[z], t[i])
      BY <3>1, <3>2, <1>6, ApartFromJoined
    <3> QED
      BY <3>1, <3>3
  <2>3. Apart(u[z], u[k]) /\ Apart(u[k], u[z])
    BY <1>6, Joined
  <2> TAKE i, j \in 1..Len(u)
  <2> HAVE i # j
  <2>4. CASE i \in 1..Len(t) /\ i # k /\ j \in 1..Len(t) /\ j # k
    BY <2>4, <2>1, <1>5
  <2>5. CASE i \in 1..Len(t) /\ i # k /\ (j = k \/ j = z)
    BY <2>2, <2>5
  <2>6. CASE j \in 1..Len(t) /\ j # k /\ (i = k \/ i = z)
    BY <2>2, <2>6
  <2>7. CASE (i = k \/ i = z) /\ (j = k \/ j = z)
    BY <2>3, <2>7
  <2> QED
    BY <1>3, <2>4, <2>5, <2>6, <2>7
<1>10. \A a \in Offsets : \E i \in 1..Len(u) : a \in Span(u[i])
  <2> TAKE a \in Offsets
  <2>1. PICK l \in 1..Len(t) : a \in Span(t[l])
    BY DEF Good
  <2>2. CASE l # k
    <3>1. u[l] = t[l]
      BY <1>5, <2>2
    <3> QED
      BY <3>1, <2>1, <1>4
  <2>3. CASE l = k
    <3>1. a \in Span(u[k]) \/ a \in Span(u[z])
      BY <2>1, <2>3, <1>6, Joined
    <3> QED
      BY <3>1, <1>4
  <2> QED
    BY <2>2, <2>3
<1> QED
  BY <1>8, <1>9, <1>10 DEF Good

\* u is t with the descriptor at k removed and described again at the end.
MovedLast(u, t, k) ==
    /\ Len(u) = Len(t)
    /\ \A i \in 1..Len(t)-1 : u[i] = IF i < k THEN t[i] ELSE t[i+1]
    /\ u[Len(t)].base = t[k].base /\ u[Len(t)].size = t[k].size

LEMMA GoodMovedLast ==
    ASSUME NEW t, Good(t), NEW k \in 1..Len(t),
           NEW u \in Seq(Descriptor), MovedLast(u, t, k)
    PROVE  Good(u)
<1> DEFINE f == [i \in 1..Len(u) |-> IF i = Len(t) THEN k
                                     ELSE IF i < k THEN i ELSE i + 1]
<1>1. Len(t) \in Nat /\ Len(u) = Len(t)
  BY Descriptors DEF Good, MovedLast
<1>2. \A i \in 1..Len(t)-1 :
          /\ i < k => u[i] = t[i]
          /\ i >= k => u[i] = t[i+1]
  BY <1>1 DEF MovedLast
<1>8. Places(u, t, f)
  <2>1. f \in [1..Len(u) -> 1..Len(t)]
    BY <1>1
  <2>2. \A i \in 1..Len(u) : u[i].base = t[f[i]].base /\ u[i].size = t[f[i]].size
    BY <1>1, <1>2 DEF MovedLast
  <2>3. \A i, j \in 1..Len(u) : f[i] = f[j] => i = j
    BY <1>1
  <2>4. \A l \in 1..Len(t) : \E i \in 1..Len(u) : f[i] = l
    <3> TAKE l \in 1..Len(t)
    <3>1. CASE l < k
      BY <3>1, <1>1
    <3>2. CASE l = k
      <4>1. Len(t) \in 1..Len(u) /\ f[Len(t)] = k
        BY <1>1
      <4> QED
        BY <3>2, <4>1
    <3>3. CASE l > k
      <4>1. l - 1 \in 1..Len(u) /\ f[l-1] = l
        BY <3>3, <1>1
      <4> QED
        BY <4>1
    <3> QED
      BY <3>1, <3>2, <3>3, <1>1
  <2> QED
    BY <2>1, <2>2, <2>3, <2>4 DEF Places
<1> HIDE DEF f
<1> QED
  BY <1>8, GoodMoved

-----------------------------------------------------------------------------
(***************************************************************************)
(* The descriptors the code picks: the first free one that is large        *)
(* enough, the one that spans an address, the one of the lowest base.      *)
(***************************************************************************)
LEMMA MinOfNats ==
    ASSUME NEW S \in SUBSET Nat, S # {}
    PROVE  Min(S) \in S /\ \A x \in S : Min(S) <= x
<1>0. \A x, y \in Nat : x < y => <<x, y>> \in OpToRel(<, Nat)
  BY Zenon DEF OpToRel
<1>1. PICK x \in S : \A y \in S : ~(<<y, x>> \in OpToRel(<, Nat))
  BY NatLessThanWellFounded, WFMin
<1>2. \A y \in S : ~(y < x)
  BY <1>0, <1>1, Zenon
<1>3. \A y \in S : x <= y
  BY <1>2, SMT
<1> QED
  BY <1>3, Zenon DEF Min

\* krealloc and kfree find the only descriptor that spans the address.
LEMMA HolderSpans ==
    ASSUME Good(map), NEW a \in Offsets
    PROVE  Holder(a) \in 1..Len(map) /\ a \in Span(map[Holder(a)])
<1> DEFINE S == {k \in DOMAIN map : a \in Span(map[k])}
<1>1. map \in Seq(Descriptor) /\ Len(map) \in Nat /\ DOMAIN map = 1..Len(map)
  BY Descriptors DEF Good
<1>2. S \in SUBSET Nat
  BY <1>1
<1>3. S # {}
  BY <1>1 DEF Good
<1>4. Min(S) \in S
  BY <1>2, <1>3, MinOfNats
<1> QED
  BY <1>1, <1>4 DEF Holder

LEMMA FittingIsFree ==
    ASSUME Good(map), Fitting # {}
    PROVE  /\ Min(Fitting) \in 1..Len(map)
           /\ map[Min(Fitting)].free /\ map[Min(Fitting)].size >= req
<1>1. map \in Seq(Descriptor) /\ DOMAIN map = 1..Len(map)
  BY Descriptors DEF Good
<1>2. Fitting \in SUBSET Nat
  BY <1>1 DEF Fitting
<1>3. Min(Fitting) \in Fitting
  BY <1>2, MinOfNats
<1> QED
  BY <1>1, <1>3 DEF Fitting

LEMMA SelectedIsLowest ==
    ASSUME Good(map), ci \in 1..Len(map)
    PROVE  /\ Selected \in ci..Len(map)
           /\ \A l \in ci..Len(map) :
                 l # Selected => map[Selected].base < map[l].base
<1>1. map \in Seq(Descriptor) /\ Len(map) \in Nat
  BY Descriptors DEF Good
<1>2. \A l \in 1..Len(map) :
          map[l].base \in Nat /\ map[l].size \in Nat /\ map[l].size > 0
  BY <1>1, Descriptors
<1> DEFINE S == {map[l].base : l \in ci..Len(map)}
<1>3. S \in SUBSET Nat /\ S # {}
  BY <1>1, <1>2
<1>4. PICK m \in ci..Len(map) : \A l \in ci..Len(map) : map[m].base <= map[l].base
  <2>1. Min(S) \in S /\ \A x \in S : Min(S) <= x
    BY <1>3, MinOfNats
  <2> QED
    BY <2>1, Zenon
<1>5. \A l, k \in 1..Len(map) :
          l # k => map[l].base < map[k].base \/ map[k].base < map[l].base
  <2> TAKE l, k \in 1..Len(map)
  <2> HAVE l # k
  <2>1. Apart(map[l], map[k])
    BY DEF Good
  <2>2. /\ map[l].base \in Nat /\ map[l].size \in Nat /\ map[l].size > 0
        /\ map[k].base \in Nat /\ map[k].size \in Nat /\ map[k].size > 0
    BY <1>2
  <2>3. \A x, y, a, b \in Nat :
           a > 0 /\ b > 0 /\ (x + a <= y \/ y + b <= x) => x < y \/ y < x
    OBVIOUS
  <2> QED
    BY <2>1, <2>2, <2>3 DEF Apart
<1>6. \A l \in ci..Len(map) : l # m => map[m].base < map[l].base
  <2>1. \A l \in ci..Len(map) : l \in 1..Len(map)
    BY <1>1
  <2> QED
    BY <1>2, <1>4, <1>5, <2>1
<1> DEFINE P(s) == \A t \in ci..Len(map) :
                      \/ map[s].base < map[t].base
                      \/ map[s].base = map[t].base /\ s <= t
<1>7. \E s \in ci..Len(map) : P(s)
  <2>1. P(m)
    BY <1>1, <1>6
  <2> QED
    BY <2>1
<1>8. Selected \in ci..Len(map) /\ P(Selected)
  <2> HIDE DEF P
  <2>1. Selected = CHOOSE s \in ci..Len(map) : P(s)
    BY DEF Selected, P
  <2> QED
    BY <1>7, <2>1, Zenon
<1>9. Selected = m
  <2>1. SUFFICES ASSUME Selected # m PROVE FALSE
    OBVIOUS
  <2>2. map[m].base < map[Selected].base
    BY <1>6, <1>8, <2>1
  <2>3. \/ map[Selected].base < map[m].base
        \/ map[Selected].base = map[m].base
    BY <1>8
  <2>4. Selected \in 1..Len(map) /\ m \in 1..Len(map)
    BY <1>1, <1>8
  <2>5. map[m].base \in Nat /\ map[Selected].base \in Nat
    BY <1>2, <2>4
  <2> HIDE DEF P
  <2> QED
    BY <2>2, <2>3, <2>5
<1> QED
  BY <1>6, <1>9, Zenon

-----------------------------------------------------------------------------
(***************************************************************************)
(* What an action does to the table and to the allocated blocks.           *)
(***************************************************************************)
Allocated(t) == {d \in Range(t) : ~d.free}

LEMMA AllocatedElements ==
    ASSUME NEW t \in Seq(Descriptor)
    PROVE  \A d : d \in Allocated(t) <=>
                     \E k \in 1..Len(t) : t[k] = d /\ ~t[k].free
<1>1. DOMAIN t = 1..Len(t)
  BY Descriptors
<1> QED
  BY <1>1, Zenon DEF Allocated, Range

LEMMA AllocatedInTable ==
    ASSUME NEW t, NEW d, d \in Allocated(t)
    PROVE  d \in Range(t)
  BY DEF Allocated

\* Freed clears the flag of one descriptor, which may have been clear.
LEMMA FreedTable ==
    ASSUME Good(map), NEW a \in Offsets
    PROVE  /\ Good(Freed(a)) /\ Len(Freed(a)) = Len(map)
           /\ Allocated(Freed(a)) = Allocated(map) \ {map[Holder(a)]}
<1> DEFINE h == Holder(a)
           u == [map EXCEPT ![h].free = TRUE]
<1>1. h \in 1..Len(map)
  BY HolderSpans
<1>2. map \in Seq(Descriptor) /\ Len(map) \in Nat
  BY Descriptors DEF Good
<1>3. Freed(a) = u
  BY DEF Freed
<1> HIDE DEF h
<1>4. /\ Good(u) /\ Len(u) = Len(map)
      /\ \A i \in 1..Len(map) : u[i] =
            IF i = h THEN [base |-> map[h].base, size |-> map[h].size, free |-> TRUE]
                     ELSE map[i]
  BY <1>1, GoodFlag
<1>5. /\ u[h].free = TRUE
      /\ \A i \in 1..Len(map) : i # h => u[i] = map[i]
  BY <1>1, <1>4
<1>6. \A i \in 1..Len(map) : i # h => map[i] # map[h]
  <2> TAKE i \in 1..Len(map)
  <2> HAVE i # h
  <2>1. Apart(map[i], map[h])
    BY <1>1 DEF Good
  <2>2. /\ map[h].base \in Nat /\ map[h].size \in Nat /\ map[h].size > 0
    BY <1>1, <1>2, Descriptors
  <2>3. ~ Apart(map[h], map[h])
    BY <2>2 DEF Apart
  <2> QED
    BY <2>1, <2>3
<1>7. u \in Seq(Descriptor)
  BY <1>4 DEF Good
<1>8. Allocated(u) = Allocated(map) \ {map[h]}
  <2> HIDE DEF u
  <2> SUFFICES ASSUME NEW d
               PROVE  d \in Allocated(u) <=> d \in Allocated(map) /\ d # map[h]
    OBVIOUS
  <2>1. d \in Allocated(u) <=> \E k \in 1..Len(u) : u[k] = d /\ ~u[k].free
    BY <1>7, AllocatedElements
  <2>2. d \in Allocated(map) <=>
            \E k \in 1..Len(map) : map[k] = d /\ ~map[k].free
    BY <1>2, AllocatedElements
  <2> QED
    BY <2>1, <2>2, <1>1, <1>4, <1>5, <1>6, Zenon
<1> QED
  BY <1>3, <1>4, <1>8 DEF h

LEMMA Shrunk ==
    ASSUME NEW d \in Descriptor, NEW n \in Nat
    PROVE  [d EXCEPT !.size = @ - n, !.base = @ + n]
              = [base |-> d.base + n, size |-> d.size - n, free |-> d.free]
<1> DEFINE e == [base |-> d.base, size |-> d.size - n, free |-> d.free]
<1>1. [d EXCEPT !.size = @ - n, !.base = @ + n]
         = [[d EXCEPT !.size = @ - n] EXCEPT !.base = @ + n]
  BY Zenon
<1>2. [d EXCEPT !.size = @ - n] = e
  BY DEF Descriptor
<1>3. [e EXCEPT !.base = @ + n]
         = [base |-> d.base + n, size |-> d.size - n, free |-> d.free]
  OBVIOUS
<1> QED
  BY <1>1, <1>2, <1>3, Zenon

\* kmalloc describes the buffer at the end of the table.
LEMMA SplitTable ==
    ASSUME Good(map), NEW k \in 1..Len(map), map[k].free,
           req \in 1..H-1, map[k].size >= req
    PROVE  LET new == [base |-> map[k].base, size |-> req, free |-> FALSE]
           IN  /\ Good(Split(k))
               /\ Len(Split(k)) \in Len(map)..Len(map)+1
               /\ Allocated(Split(k)) = Allocated(map) \cup {new}
<1> DEFINE d == map[k]
           new == [base |-> d.base, size |-> req, free |-> FALSE]
           rest == [base |-> d.base + req, size |-> d.size - req, free |-> d.free]
           z == Len(map)
<1>1. map \in Seq(Descriptor) /\ z \in Nat /\ d \in Descriptor
  BY Descriptors DEF Good
<1>2. /\ d.base \in Nat /\ d.size \in Nat /\ d.free = TRUE /\ d.base + d.size <= H
      /\ d.base < H /\ d.size <= H
  BY <1>1, Descriptors DEF Good
<1>3. new \in Descriptor
  BY <1>1, <1>2 DEF Descriptor
<1>4. [d EXCEPT !.size = @ - req, !.base = @ + req] = rest
  <2>1. req \in Nat
    OBVIOUS
  <2> QED
    BY <1>1, <2>1, Shrunk, Zenon
<1>5. Split(k) = IF rest.size = 0 THEN Append(RemoveAt(map, k), new)
                 ELSE Append([map EXCEPT ![k] = rest], new)
  BY <1>4, Zenon DEF Split
<1>6. \A x : x \in Allocated(map) <=>
            \E i \in 1..z : map[i] = x /\ ~map[i].free
  BY <1>1, AllocatedElements
<1>7. CASE d.size = req
  <2> DEFINE v == RemoveAt(map, k)
             u == Append(v, new)
  <2>1. Split(k) = u
    BY <1>2, <1>5, <1>7
  <2>2. /\ v \in Seq(Descriptor) /\ Len(v) = z - 1
        /\ \A i \in 1..z-1 : v[i] = IF i < k THEN map[i] ELSE map[i+1]
    BY <1>1, RemoveAtElements
  <2> HIDE DEF v
  <2> HIDE DEF new
  <2>3. /\ u \in Seq(Descriptor) /\ Len(u) = Len(v) + 1
        /\ u[Len(v)+1] = new
        /\ \A i \in 1..Len(v) : u[i] = v[i]
    BY <1>3, <2>2, AppendProperties
  <2> HIDE DEF u
  <2>4. /\ Len(u) = z /\ u[z] = new
        /\ \A i \in 1..z-1 : u[i] = IF i < k THEN map[i] ELSE map[i+1]
    BY <1>1, <2>2, <2>3
  <2>5. MovedLast(u, map, k)
    BY <1>7, <2>4 DEF MovedLast, new
  <2>6. Good(u)
    BY <2>3, <2>5, GoodMovedLast
  <2>7. Allocated(u) = Allocated(map) \cup {new}
    <3>1. \A i \in 1..z-1 : \E j \in 1..z : u[i] = map[j] /\ j # k
      BY <1>1, <2>4
    <3>2. \A j \in 1..z : j # k => \E i \in 1..z-1 : u[i] = map[j]
      <4> TAKE j \in 1..z
      <4> HAVE j # k
      <4>1. CASE j < k
        BY <4>1, <1>1, <2>4
      <4>2. CASE j > k
        <5>1. j - 1 \in 1..z-1 /\ ~(j - 1 < k) /\ (j - 1) + 1 = j
          BY <4>2, <1>1
        <5>2. u[j-1] = map[j]
          BY <5>1, <2>4
        <5> QED
          BY <5>1, <5>2
      <4> QED
        BY <4>1, <4>2, <1>1
    <3>3. \A i \in 1..z : i \in 1..z-1 \/ i = z
      BY <1>1
    <3>4. \A i \in 1..z-1 : i \in 1..z
      BY <1>1
    <3>5. z \in 1..z
      BY <1>1
    <3>6. ~new.free
      BY DEF new
    <3>7. \A x : x \in Allocated(u) <=> \E i \in 1..z : u[i] = x /\ ~u[i].free
      BY <2>3, <2>4, AllocatedElements
    <3> SUFFICES ASSUME NEW x
                 PROVE  x \in Allocated(u) <=> x \in Allocated(map) \/ x = new
      OBVIOUS
    <3>8. ASSUME x \in Allocated(u)
          PROVE  x \in Allocated(map) \/ x = new
      <4>1. PICK i \in 1..z : u[i] = x /\ ~u[i].free
        BY <3>7, <3>8
      <4>2. CASE i = z
        BY <4>1, <4>2, <2>4
      <4>3. CASE i \in 1..z-1
        BY <4>1, <4>3, <3>1, <1>6, Zenon
      <4> QED
        BY <3>3, <4>2, <4>3
    <3>9. ASSUME x \in Allocated(map) PROVE x \in Allocated(u)
      <4>1. PICK j \in 1..z : map[j] = x /\ ~map[j].free
        BY <1>6, <3>9
      <4>2. j # k
        BY <4>1
      <4> QED
        BY <3>2, <3>4, <3>7, <4>1, <4>2, Zenon
    <3>10. new \in Allocated(u)
      BY <2>4, <3>5, <3>6, <3>7, Zenon
    <3> QED
      BY <3>8, <3>9, <3>10
  <2> QED
    BY <1>1, <2>1, <2>4, <2>6, <2>7 DEF new
<1>8. CASE d.size # req
  <2> DEFINE v == [map EXCEPT ![k] = rest]
             u == Append(v, new)
  <2>0. rest.size # 0 /\ rest.base = d.base + req /\ rest.size = d.size - req
        /\ rest.free = TRUE /\ rest \in Descriptor
    BY <1>2, <1>8 DEF Descriptor, Offsets
  <2>1. Split(k) = u
    BY <1>5, <2>0
  <2> HIDE DEF rest
  <2>2. /\ v \in Seq(Descriptor) /\ Len(v) = z
        /\ \A i \in 1..z : v[i] = IF i = k THEN rest ELSE map[i]
    BY <1>1, <2>0, ExceptSeq
  <2> HIDE DEF v
  <2> HIDE DEF new
  <2>3. /\ u \in Seq(Descriptor) /\ Len(u) = z + 1
        /\ u[z+1] = new
        /\ \A i \in 1..z : u[i] = IF i = k THEN rest ELSE map[i]
    BY <1>3, <2>2, AppendProperties
  <2> HIDE DEF u
  <2>4. SplitOff(u, map, k, req)
    <3>1. new.base = d.base /\ new.size = req
      BY DEF new
    <3>2. u[k] = rest /\ \A i \in 1..z : i # k => u[i] = map[i]
      BY <2>3
    <3> QED
      BY <1>2, <2>0, <2>3, <3>1, <3>2 DEF SplitOff
  <2>5. Good(u)
    <3>1. req \in Nat /\ 0 < req /\ req < map[k].size
      BY <1>2, <1>8
    <3> QED
      BY <2>3, <2>4, <3>1, GoodSplit
  <2>6. Allocated(u) = Allocated(map) \cup {new}
    <3>1. \A i \in 1..z+1 : i \in 1..z \/ i = z + 1
      BY <1>1
    <3>2. \A i \in 1..z : i \in 1..z+1
      BY <1>1
    <3>3. z + 1 \in 1..z+1
      BY <1>1
    <3>4. ~new.free
      BY DEF new
    <3>5. \A x : x \in Allocated(u) <=> \E i \in 1..z+1 : u[i] = x /\ ~u[i].free
      BY <2>3, AllocatedElements
    <3> SUFFICES ASSUME NEW x
                 PROVE  x \in Allocated(u) <=> x \in Allocated(map) \/ x = new
      OBVIOUS
    <3>6. ASSUME x \in Allocated(u)
          PROVE  x \in Allocated(map) \/ x = new
      <4>1. PICK i \in 1..z+1 : u[i] = x /\ ~u[i].free
        BY <3>5, <3>6
      <4>2. CASE i = z + 1
        BY <4>1, <4>2, <2>3
      <4>3. CASE i \in 1..z
        <5>1. i # k
          BY <4>1, <4>3, <2>0, <2>3
        <5> QED
          BY <5>1, <4>1, <4>3, <2>3, <1>6, Zenon
      <4> QED
        BY <3>1, <4>2, <4>3
    <3>7. ASSUME x \in Allocated(map) PROVE x \in Allocated(u)
      <4>1. PICK j \in 1..z : map[j] = x /\ ~map[j].free
        BY <1>6, <3>7
      <4>2. j # k
        BY <4>1
      <4> QED
        BY <2>3, <3>2, <3>5, <4>1, <4>2, Zenon
    <3>8. new \in Allocated(u)
      BY <2>3, <3>3, <3>4, <3>5, Zenon
    <3> QED
      BY <3>6, <3>7, <3>8
  <2> QED
    BY <1>1, <2>1, <2>3, <2>5, <2>6 DEF new
<1> QED
  BY <1>7, <1>8

\* One iteration of the outer loop of __kheap_compress_map moves the lowest
\* descriptor to ci.
LEMMA SwitchedTable ==
    ASSUME Good(map), ci \in 1..Len(map)
    PROVE  /\ Good(Switched) /\ Len(Switched) = Len(map)
           /\ Allocated(Switched) = Allocated(map)
           /\ \A i \in 1..Len(map) :
                 Switched[i] = IF i = ci THEN map[Selected]
                               ELSE IF i = Selected THEN map[ci] ELSE map[i]
<1> DEFINE s == Selected
           S == Switched
           n == Len(map)
<1>1. n \in Nat /\ map \in Seq(Descriptor)
  BY Descriptors DEF Good
<1>2. s \in 1..n /\ s \in ci..n
  BY <1>1, SelectedIsLowest
<1>3. S = Swapped(map, ci, s)
  BY Zenon DEF Switched, Swapped
<1> HIDE DEF s, S
<1>4. /\ Good(S) /\ Len(S) = n
      /\ \A i \in 1..n :
            S[i] = IF i = ci THEN map[s] ELSE IF i = s THEN map[ci] ELSE map[i]
  <2>1. ci \in 1..Len(map) /\ s \in 1..Len(map)
    BY <1>2
  <2> QED
    BY <2>1, <1>3, GoodSwap
<1>5. S \in Seq(Descriptor)
  BY <1>4 DEF Good
<1>6. \A i \in 1..n : \E j \in 1..n : S[i] = map[j]
  BY <1>2, <1>4
<1>7. \A i \in 1..n : \E j \in 1..n : map[i] = S[j]
  <2> TAKE i \in 1..n
  <2>1. CASE i = ci
    BY <1>2, <1>4, <2>1
  <2>2. CASE i = s
    BY <1>2, <1>4, <2>2
  <2>3. CASE i # ci /\ i # s
    BY <1>4, <2>3
  <2> QED
    BY <2>1, <2>2, <2>3
<1>8. Allocated(S) = Allocated(map)
  <2> HIDE DEF n
  <2>1. \A x : x \in Allocated(map) <=>
              \E i \in 1..n : map[i] = x /\ ~map[i].free
    BY <1>1, AllocatedElements DEF n
  <2>2. \A x : x \in Allocated(S) <=> \E i \in 1..n : S[i] = x /\ ~S[i].free
    BY <1>4, <1>5, AllocatedElements DEF n
  <2>3. ASSUME NEW x \in Allocated(S) PROVE x \in Allocated(map)
    <3>1. PICK i \in 1..n : S[i] = x /\ ~S[i].free
      BY <2>2
    <3>2. PICK j \in 1..n : S[i] = map[j]
      BY <1>6
    <3> QED
      BY <3>1, <3>2, <2>1
  <2>4. ASSUME NEW x \in Allocated(map) PROVE x \in Allocated(S)
    <3>1. PICK i \in 1..n : map[i] = x /\ ~map[i].free
      BY <2>1
    <3>2. PICK j \in 1..n : map[i] = S[j]
      BY <1>7
    <3> QED
      BY <3>1, <3>2, <2>2
  <2> QED
    BY <2>3, <2>4
<1> QED
  BY <1>4, <1>8 DEF s, S

\* What it merges is the lowest descriptor: although the test reads the one
\* that was at ci before, the two are the same whenever the test succeeds.
LEMMA MergesTheLowest ==
    ASSUME Good(map), SortedSoFar, pc = "compress", Mergeable
    PROVE  /\ ci \in 2..Len(map) /\ Selected = ci
           /\ \A i \in 1..Len(map) : Switched[i] = map[i]
           /\ map[ci-1].base + map[ci-1].size = map[ci].base
           /\ map[ci-1].free /\ map[ci].free
<1> DEFINE s == Selected
           p == ci - 1
           n == Len(map)
<1>1. n \in Nat /\ map \in Seq(Descriptor)
  BY Descriptors DEF Good
<1>2. ci \in 2..n /\ p \in 1..n /\ p # ci /\ p < ci /\ p \in 1..ci-1
  BY <1>1 DEF SortedSoFar, Mergeable
<1>3. /\ s \in ci..n /\ s \in 1..n /\ p # s /\ p < s
      /\ \A l \in ci..n : l # s => map[s].base < map[l].base
  BY <1>1, <1>2, SelectedIsLowest
<1>4. /\ Switched[p] = map[p] /\ Switched[s] = map[ci]
  <2>1. /\ ci \in 1..n
        /\ \A i \in 1..n : Switched[i] = IF i = ci THEN map[s]
                               ELSE IF i = s THEN map[ci] ELSE map[i]
    BY <1>2, SwitchedTable
  <2> HIDE DEF p, s, n
  <2> QED
    BY <1>2, <1>3, <2>1
<1>5. /\ map[p].base + map[p].size = map[ci].base
      /\ map[ci].free /\ map[p].free
  BY <1>4 DEF Mergeable
<1>6. map[p].base < map[s].base
  BY <1>2, <1>3 DEF SortedSoFar
<1> HIDE DEF p, s, n
<1>7. Apart(map[p], map[s])
  BY <1>2, <1>3 DEF Good, n
<1>8. /\ map[p].base \in Nat /\ map[p].size \in Nat
      /\ map[s].base \in Nat /\ map[s].size \in Nat /\ map[s].size > 0
      /\ map[ci].base \in Nat /\ ci \in 1..n
  BY <1>1, <1>2, <1>3, Descriptors DEF n
<1>9. map[ci].base <= map[s].base
  BY <1>5, <1>6, <1>7, <1>8 DEF Apart
<1>10. s = ci
  <2>1. ci \in ci..n
    BY <1>1, <1>2
  <2>2. ASSUME ci # s PROVE FALSE
    <3>1. map[s].base < map[ci].base
      BY <1>3, <2>1, <2>2
    <3> QED
      BY <3>1, <1>8, <1>9
  <2> QED
    BY <2>2
<1>11. \A i \in 1..n : Switched[i] = map[i]
  <2>1. \A i \in 1..n : Switched[i] = IF i = ci THEN map[s]
                               ELSE IF i = s THEN map[ci] ELSE map[i]
    BY <1>8, SwitchedTable DEF s, n
  <2> QED
    BY <1>10, <2>1
<1> QED
  BY <1>2, <1>5, <1>10, <1>11 DEF s, p, n

LEMMA MergeTable ==
    ASSUME Good(map), SortedSoFar, pc = "compress", Mergeable,
           map' = RemoveAt([Switched EXCEPT
                      ![ci - 1].size = @ + Switched[Selected].size], ci)
    PROVE  /\ Good(map') /\ Len(map') = Len(map) - 1
           /\ Merged(map', map, ci)
           /\ Allocated(map') = Allocated(map)
<1> DEFINE S == Switched
           p == ci - 1
           n == Len(map)
           e == [base |-> map[p].base, size |-> map[p].size + map[ci].size,
                 free |-> map[p].free]
           v == [S EXCEPT ![p] = e]
<1>1. n \in Nat /\ map \in Seq(Descriptor)
  BY Descriptors DEF Good
<1>2. /\ ci \in 2..n /\ Selected = ci
      /\ \A i \in 1..n : S[i] = map[i]
      /\ map[p].base + map[p].size = map[ci].base
      /\ map[p].free /\ map[ci].free
  BY MergesTheLowest
<1>3. ci \in 1..n /\ p \in 1..n
  BY <1>1, <1>2
<1>4. S \in Seq(Descriptor) /\ Len(S) = n
  BY <1>3, SwitchedTable DEF Good
<1> HIDE DEF S
<1>5. S[p] = map[p] /\ S[ci] = map[ci] /\ map[p] \in Descriptor
  BY <1>1, <1>2, <1>3, Descriptors
<1>6. e \in Descriptor
  <2>1. /\ map[p].base \in Nat /\ map[p].base < H
        /\ map[p].size \in Nat /\ map[p].size >= 1 /\ map[p].free \in BOOLEAN
        /\ map[ci].size \in Nat /\ map[ci].base + map[ci].size <= H
    BY <1>1, <1>3, Descriptors DEF Good
  <2>2. map[p].base \in Offsets
    <3>1. \A x \in Nat : x < H => x \in 0..H - 1
      BY HeapAssumption
    <3> QED
      BY <2>1, <3>1 DEF Offsets
  <2>3. map[p].size + map[ci].size \in 1..H
    <3>1. \A x, y, z, t \in Nat :
             y >= 1 /\ x + y = z /\ z + t <= H => y + t \in 1..H
      BY HeapAssumption
    <3>2. map[p].base + map[p].size = map[ci].base
      BY <1>2
    <3>3. map[ci].base \in Nat
      BY <2>1, <3>2
    <3> HIDE DEF p, n
    <3> QED
      BY <2>1, <3>1, <3>2, <3>3
  <2> QED
    BY <2>1, <2>2, <2>3 DEF Descriptor
<1>7. e = [S[p] EXCEPT !.size = @ + S[ci].size]
  BY <1>5 DEF Descriptor
<1>8. v = [S EXCEPT ![p].size = @ + S[ci].size]
  BY <1>7, Zenon
<1>9. map' = RemoveAt(v, ci)
  BY <1>2, <1>8 DEF S
<1> HIDE DEF e
<1>10. /\ v \in Seq(Descriptor) /\ Len(v) = n
       /\ \A i \in 1..n : v[i] = IF i = p THEN e ELSE S[i]
  BY <1>3, <1>4, <1>6, ExceptSeq
<1> HIDE DEF v
<1>11. /\ map' \in Seq(Descriptor) /\ Len(map') = n - 1
       /\ \A i \in 1..n-1 : map'[i] = IF i < ci THEN v[i] ELSE v[i+1]
  <2> DEFINE u == RemoveAt(v, ci)
  <2>1. ci \in 1..Len(v) /\ v \in Seq(Descriptor)
    BY <1>3, <1>10
  <2>2. /\ u \in Seq(Descriptor) /\ Len(u) = Len(v) - 1
        /\ \A i \in 1..Len(v)-1 : u[i] = IF i < ci THEN v[i] ELSE v[i+1]
    BY <2>1, RemoveAtElements
  <2> HIDE DEF u
  <2>3. map' = u
    BY <1>9 DEF u
  <2> QED
    BY <2>2, <2>3, <1>10
<1>12. Merged(map', map, ci)
  <2>1. \A i \in 1..n-1 :
            /\ i < p => map'[i] = map[i]
            /\ i = p => map'[i] = e
            /\ i > p => map'[i] = map[i+1]
    <3> TAKE i \in 1..n-1
    <3>1. i \in 1..n /\ i+1 \in 1..n
      BY <1>1
    <3>2. map'[i] = IF i < ci THEN v[i] ELSE v[i+1]
      BY <1>11
    <3>3. /\ v[i] = IF i = p THEN e ELSE map[i]
          /\ v[i+1] = IF i+1 = p THEN e ELSE map[i+1]
      BY <3>1, <1>2, <1>10
    <3>4. /\ i < p => i < ci /\ i # p
          /\ i = p => i < ci
          /\ i > p => ~(i < ci) /\ i+1 # p
      BY <1>3
    <3> HIDE DEF p
    <3> QED
      BY <3>2, <3>3, <3>4, Zenon
  <2>2. /\ e.base = map[p].base /\ e.size = map[p].size + map[ci].size
        /\ e.free = map[p].free
    BY DEF e
  <2> QED
    BY <1>11, <2>1, <2>2 DEF Merged
<1>13. Good(map')
  BY <1>2, <1>11, <1>12, GoodMerge
<1>14. Allocated(map') = Allocated(map)
  <2>1. \A x : x \in Allocated(map) <=>
              \E i \in 1..n : map[i] = x /\ ~map[i].free
    BY <1>1, AllocatedElements
  <2>2. \A x : x \in Allocated(map') <=>
              \E i \in 1..n-1 : map'[i] = x /\ ~map'[i].free
    BY <1>11, AllocatedElements
  <2>3. \A i \in 1..n-1 : i # p => \E j \in 1..n : map'[i] = map[j]
    <3> TAKE i \in 1..n-1
    <3> HAVE i # p
    <3>1. i \in 1..n /\ i+1 \in 1..n /\ (i < p \/ i > p)
      BY <1>1, <1>3
    <3> QED
      BY <3>1, <1>11, <1>12 DEF Merged
  <2>4. \A j \in 1..n : j # p /\ j # ci => \E i \in 1..n-1 : map'[i] = map[j]
    <3> TAKE j \in 1..n
    <3> HAVE j # p /\ j # ci
    <3>1. CASE j < p
      <4>1. j \in 1..n-1
        BY <3>1, <1>1, <1>3
      <4> QED
        BY <4>1, <3>1, <1>11, <1>12 DEF Merged
    <3>2. CASE j > ci
      <4>1. j - 1 \in 1..n-1 /\ j - 1 > p /\ (j - 1) + 1 = j
        BY <3>2, <1>1, <1>3
      <4>2. map'[j-1] = map[j]
        BY <4>1, <1>11, <1>12 DEF Merged
      <4> QED
        BY <4>1, <4>2
    <3>3. j < p \/ j > ci
      BY <1>1, <1>3
    <3> QED
      BY <3>1, <3>2, <3>3, Zenon
  <2>5. p \in 1..n-1 /\ map'[p].free = map[p].free
    <3>1. p \in 1..n-1 /\ p = ci - 1
      BY <1>1, <1>2
    <3> QED
      BY <3>1, <1>11, <1>12 DEF Merged
  <2> HIDE DEF p, n
  <2>6. ASSUME NEW x \in Allocated(map') PROVE x \in Allocated(map)
    <3>1. PICK i \in 1..n-1 : map'[i] = x /\ ~map'[i].free
      BY <2>2
    <3>2. i # p
      BY <3>1, <2>5, <1>2
    <3>3. PICK j \in 1..n : map'[i] = map[j]
      BY <3>2, <2>3
    <3> QED
      BY <3>1, <3>3, <2>1
  <2>7. ASSUME NEW x \in Allocated(map) PROVE x \in Allocated(map')
    <3>1. PICK j \in 1..n : map[j] = x /\ ~map[j].free
      BY <2>1
    <3>2. j # p /\ j # ci
      BY <3>1, <1>2
    <3>3. PICK i \in 1..n-1 : map'[i] = map[j]
      BY <3>2, <2>4
    <3> QED
      BY <3>1, <3>3, <2>2
  <2> QED
    BY <2>6, <2>7
<1> QED
  BY <1>11, <1>12, <1>13, <1>14

-----------------------------------------------------------------------------
(***************************************************************************)
(* HeapInv is inductive.                                                   *)
(***************************************************************************)
ReturnPlaces == {"idle", "enter", "fit", "reply"}

LEMMA CompressType ==
    ASSUME TypeOK, NEW ret \in ReturnPlaces, NEW t, Compress(ret, t)
    PROVE  /\ pc' \in {"idle", "enter", "fit", "reply", "compress"}
           /\ after' \in ReturnPlaces /\ ci' \in 1..MaxDescriptors
           /\ pc' = ret \/ (pc' = "compress" /\ after' = ret /\ ci' = 1)
  BY DEF Compress, TypeOK, ReturnPlaces

LEMMA CountType ==
    ASSUME TypeOK, NEW ret \in ReturnPlaces, NEW t, Count(ret, t)
    PROVE  /\ ops' \in 0..OpsRange-1
           /\ pc' \in {"idle", "enter", "fit", "reply", "compress"}
           /\ after' \in ReturnPlaces /\ ci' \in 1..MaxDescriptors
           /\ pc' = ret \/ (pc' = "compress" /\ after' = ret /\ ci' = 1)
<1>1. ops' \in 0..OpsRange-1
  BY DEF Count, TypeOK
<1>2. CASE Compress(ret, t)
  BY <1>1, <1>2, CompressType
<1>3. CASE pc' = ret /\ UNCHANGED <<after, ci>>
  BY <1>1, <1>3 DEF TypeOK, ReturnPlaces
<1> QED
  BY <1>2, <1>3 DEF Count

\* An action that ends at a return address, or in a compression on the way.
LEMMA Resumed ==
    ASSUME TypeOK', Good(map'), NEW ret \in ReturnPlaces,
           pc' = ret \/ (pc' = "compress" /\ after' = ret /\ ci' = 1),
           ret = "fit" => Len(map') < MaxDescriptors /\ req' \in 1..H-1,
           ret = "reply" => [base |-> result', size |-> req', free |-> FALSE]
                                \in Range(map')
    PROVE  HeapInv'
<1>1. RoomForOne'
  BY DEF RoomForOne, ReturnPlaces
<1>2. SortedSoFar'
  <2>1. Len(map') \in Nat /\ Len(map') >= 1
    BY DEF TypeOK
  <2> QED
    BY <2>1 DEF SortedSoFar, ReturnPlaces
<1>3. AnswerIsABlock'
  BY DEF AnswerIsABlock, ReturnPlaces
<1> QED
  BY <1>1, <1>2, <1>3 DEF HeapInv

LEMMA HeapInvInit == Init => HeapInv
<1> DEFINE d == [base |-> 0, size |-> H, free |-> TRUE]
<1> SUFFICES ASSUME Init PROVE HeapInv
  OBVIOUS
<1>1. d \in Descriptor
  BY DEF Descriptor, Offsets
<1>2. map = <<d>> /\ map \in Seq(Descriptor) /\ Len(map) = 1 /\ map[1] = d
  BY <1>1 DEF Init
<1>3. Good(map)
  <2>1. \A a \in Offsets : a \in Span(d)
    BY DEF Span, Offsets
  <2>2. \A k \in 1..Len(map) : k = 1
    BY <1>2
  <2>3. d.base + d.size <= H
    OBVIOUS
  <2>4. 1 \in 1..Len(map)
    BY <1>2
  <2> HIDE DEF d
  <2> QED
    BY <1>2, <2>1, <2>2, <2>3, <2>4 DEF Good
<1>4. TypeOK
  <2>1. map \in Seq(Descriptor) /\ Len(map) \in 1..MaxDescriptors
    BY <1>2
  <2>2. /\ ops = 0 /\ pc = "idle" /\ after = "idle" /\ ci = 1 /\ req = 0
        /\ retried = FALSE /\ old = 0 /\ result = Null
    BY DEF Init
  <2>3. retried \in BOOLEAN /\ result \in Offsets \cup {Null}
    BY <2>2, Zenon
  <2>4. ops \in 0..OpsRange-1 /\ ci \in 1..MaxDescriptors /\ req \in 0..H /\ old \in 0..H
    BY <2>2
  <2> QED
    BY <2>1, <2>2, <2>3, <2>4, Zenon DEF TypeOK
<1> QED
  BY <1>3, <1>4 DEF Init, HeapInv, RoomForOne, SortedSoFar, AnswerIsABlock

LEMMA kmallocKeepsInv ==
    ASSUME HeapInv, NEW size \in 0..H, kmalloc(size)
    PROVE  HeapInv'
<1>1. TypeOK' /\ Good(map') /\ pc' = "enter"
  BY DEF HeapInv, kmalloc, TypeOK
<1> QED
  BY <1>1, Resumed, "enter" \in ReturnPlaces DEF ReturnPlaces

LEMMA ReturnKeepsInv ==
    ASSUME HeapInv, Return
    PROVE  HeapInv'
<1>1. TypeOK' /\ Good(map') /\ pc' = "idle"
  <2>1. /\ pc' = "idle" /\ req' = 0 /\ retried' = FALSE /\ old' = 0 /\ result' = Null
        /\ UNCHANGED <<map, ops, after, ci>> /\ TypeOK /\ Good(map)
    BY DEF HeapInv, Return
  <2>2. retried' \in BOOLEAN /\ result' \in Offsets \cup {Null}
    BY <2>1, Zenon
  <2>3. req' \in 0..H /\ old' \in 0..H
    BY <2>1
  <2> QED
    BY <2>1, <2>2, <2>3 DEF TypeOK
<1> QED
  BY <1>1, Resumed, "idle" \in ReturnPlaces DEF ReturnPlaces

LEMMA EnterKeepsInv ==
    ASSUME HeapInv, kmalloc_enter
    PROVE  HeapInv'
<1>1. CASE Refused
  BY <1>1, ReturnKeepsInv DEF kmalloc_enter
<1>2. CASE ~Refused
  <2>1. pc' = "fit" /\ UNCHANGED <<map, ops, after, ci, req, retried, old, result>>
    BY <1>2 DEF kmalloc_enter
  <2>2. TypeOK' /\ Good(map')
    BY <2>1 DEF HeapInv, TypeOK
  <2>3. Len(map') < MaxDescriptors /\ req' \in 1..H-1
    BY <1>2, <2>1 DEF HeapInv, TypeOK, Refused
  <2>4. "fit" \in ReturnPlaces
    BY DEF ReturnPlaces
  <2> QED
    BY <2>1, <2>2, <2>3, <2>4, Resumed
<1> QED
  BY <1>1, <1>2

LEMMA FitKeepsInv ==
    ASSUME HeapInv, kmalloc_fit
    PROVE  /\ HeapInv'
           /\ \E k \in 1..Len(map) :
                 /\ map[k].free /\ req \in 1..map[k].size
                 /\ Allocated(map') = Allocated(map) \cup
                       {[base |-> map[k].base, size |-> req, free |-> FALSE]}
<1> DEFINE k == Min(Fitting)
           new == [base |-> map[k].base, size |-> req, free |-> FALSE]
<1>1. /\ pc = "fit" /\ Fitting # {}
      /\ map' = Split(k) /\ result' = map[k].base /\ Count("reply", Split(k))
      /\ UNCHANGED <<req, retried, old>>
  BY DEF kmalloc_fit
<1>2. Good(map) /\ map \in Seq(Descriptor)
  BY DEF HeapInv, Good
<1>3. Len(map) < MaxDescriptors /\ req \in 1..H-1
  BY <1>1 DEF HeapInv, RoomForOne
<1>4. k \in 1..Len(map) /\ map[k].free /\ map[k].size >= req
  BY <1>1, <1>2, FittingIsFree
<1> HIDE DEF k
<1>5. map[k].base \in Offsets /\ map[k].size \in Nat
  BY <1>2, <1>4, Descriptors DEF Offsets
<1>6. /\ Good(map') /\ Len(map') \in Len(map)..Len(map)+1
      /\ Allocated(map') = Allocated(map) \cup {new}
  BY <1>1, <1>2, <1>3, <1>4, SplitTable
<1>7. "reply" \in ReturnPlaces
  BY DEF ReturnPlaces
<1>8. TypeOK /\ Len(map) \in 1..MaxDescriptors
  BY DEF HeapInv, TypeOK
<1>9. /\ ops' \in 0..OpsRange-1
      /\ pc' \in {"idle", "enter", "fit", "reply", "compress"}
      /\ after' \in ReturnPlaces /\ ci' \in 1..MaxDescriptors
      /\ pc' = "reply" \/ (pc' = "compress" /\ after' = "reply" /\ ci' = 1)
  BY <1>1, <1>7, <1>8, CountType
<1>10. Len(map') \in 1..MaxDescriptors
  BY <1>3, <1>6, <1>8
<1>11. TypeOK'
  BY <1>1, <1>5, <1>6, <1>8, <1>9, <1>10 DEF TypeOK, Good, ReturnPlaces
<1>12. new \in Range(map')
  BY <1>6, AllocatedInTable
<1>13. HeapInv'
  BY <1>1, <1>6, <1>7, <1>9, <1>11, <1>12, Resumed
<1> QED
  BY <1>3, <1>4, <1>5, <1>6, <1>13

LEMMA RetryKeepsInv ==
    ASSUME HeapInv, kmalloc_retry
    PROVE  HeapInv'
<1>1. "fit" \in ReturnPlaces
  BY DEF ReturnPlaces
<1>2. /\ pc = "fit" /\ retried' = TRUE /\ Compress("fit", map)
      /\ UNCHANGED <<map, ops, req, old, result>>
  BY DEF kmalloc_retry
<1>3. TypeOK /\ Good(map) /\ Len(map) < MaxDescriptors /\ req \in 1..H-1
  BY <1>2 DEF HeapInv, RoomForOne
<1>4. /\ pc' \in {"idle", "enter", "fit", "reply", "compress"}
      /\ after' \in ReturnPlaces /\ ci' \in 1..MaxDescriptors
      /\ pc' = "fit" \/ (pc' = "compress" /\ after' = "fit" /\ ci' = 1)
  BY <1>1, <1>2, <1>3, CompressType
<1>5. TypeOK'
  BY <1>2, <1>3, <1>4 DEF TypeOK, ReturnPlaces
<1> QED
  BY <1>1, <1>2, <1>3, <1>4, <1>5, Resumed

\* kfree and krealloc free what spans an address and count the operation.
LEMMA FreeingKeepsInv ==
    ASSUME HeapInv, NEW a \in Offsets, NEW ret \in {"idle", "enter"},
           map' = Freed(a), Count(ret, Freed(a)),
           req' \in 0..H, old' \in 0..H, UNCHANGED <<retried, result>>
    PROVE  HeapInv'
<1>1. TypeOK /\ Good(map) /\ ret \in ReturnPlaces
  BY DEF HeapInv, ReturnPlaces
<1>2. Good(map') /\ Len(map') = Len(map)
  BY <1>1, FreedTable
<1>3. /\ ops' \in 0..OpsRange-1
      /\ pc' \in {"idle", "enter", "fit", "reply", "compress"}
      /\ after' \in ReturnPlaces /\ ci' \in 1..MaxDescriptors
      /\ pc' = ret \/ (pc' = "compress" /\ after' = ret /\ ci' = 1)
  BY <1>1, CountType
<1>4. TypeOK'
  BY <1>1, <1>2, <1>3 DEF TypeOK, Good, ReturnPlaces
<1> QED
  BY <1>1, <1>2, <1>3, <1>4, Resumed

LEMMA kreallocArguments ==
    ASSUME HeapInv, NEW a \in Offsets, NEW new_size \in 0..H-1,
           krealloc(a, new_size)
    PROVE  req' \in 0..H /\ old' \in 0..H
<1>1. map \in Seq(Descriptor) /\ Good(map)
  BY DEF HeapInv, Good
<1>2. Holder(a) \in 1..Len(map)
  BY <1>1, HolderSpans
<1>3. map[Holder(a)].size \in 0..H
  BY <1>1, <1>2, Descriptors
<1> QED
  BY <1>3 DEF krealloc

LEMMA EndKeepsInv ==
    ASSUME HeapInv, compress_end
    PROVE  HeapInv'
<1>1. /\ pc = "compress" /\ ops' = 0 /\ pc' = after /\ after' = "idle" /\ ci' = 1
      /\ UNCHANGED <<map, req, retried, old, result>>
  BY DEF compress_end
<1>2. after \in ReturnPlaces
  BY DEF HeapInv, TypeOK, ReturnPlaces
<1>3. TypeOK' /\ Good(map')
  BY <1>1 DEF HeapInv, TypeOK
<1>4. /\ after = "fit" => Len(map') < MaxDescriptors /\ req' \in 1..H-1
      /\ after = "reply" => [base |-> result', size |-> req', free |-> FALSE]
                                \in Range(map')
  BY <1>1 DEF HeapInv, RoomForOne, AnswerIsABlock
<1> QED
  BY <1>1, <1>2, <1>3, <1>4, Resumed

LEMMA StepKeepsInv ==
    ASSUME HeapInv, compress_step
    PROVE  HeapInv' /\ Allocated(map') = Allocated(map)
<1> DEFINE n == Len(map)
<1>1. /\ pc = "compress" /\ ci < n
      /\ UNCHANGED <<ops, pc, after, req, retried, old, result>>
  BY DEF compress_step
<1>2. /\ TypeOK /\ Good(map) /\ SortedSoFar /\ map \in Seq(Descriptor)
      /\ n \in Nat /\ n <= MaxDescriptors /\ ci \in 1..n
      /\ \A k \in 1..ci-1, l \in 1..n : k < l => map[k].base < map[l].base
  BY <1>1 DEF HeapInv, TypeOK, SortedSoFar
<1>3. ASSUME Mergeable
      PROVE  /\ Good(map') /\ Allocated(map') = Allocated(map)
             /\ Len(map') = n - 1 /\ ci' = ci
             /\ \A k \in 1..ci-1, l \in 1..n-1 :
                   k < l => map'[k].base < map'[l].base
  <2>1. /\ ci' = ci
        /\ map' = RemoveAt([Switched EXCEPT
                      ![ci - 1].size = @ + Switched[Selected].size], ci)
    BY <1>3 DEF compress_step
  <2>2. /\ Good(map') /\ Allocated(map') = Allocated(map)
        /\ Len(map') = n - 1 /\ Merged(map', map, ci)
    BY <1>1, <1>2, <1>3, <2>1, MergeTable
  <2>3. \A i \in 1..n-1 :
            map'[i].base = IF i < ci THEN map[i].base ELSE map[i+1].base
    <3> TAKE i \in 1..n-1
    <3>1. CASE i < ci - 1
      BY <3>1, <2>2, <1>2 DEF Merged
    <3>2. CASE i = ci - 1
      BY <3>2, <2>2, <1>2 DEF Merged
    <3>3. CASE i > ci - 1
      BY <3>3, <2>2, <1>2 DEF Merged
    <3> QED
      BY <3>1, <3>2, <3>3, <1>2
  <2>4. ASSUME NEW k \in 1..ci-1, NEW l \in 1..n-1, k < l
        PROVE  map'[k].base < map'[l].base
    <3>1. k \in 1..n-1 /\ k < ci /\ l \in 1..n /\ l+1 \in 1..n /\ k < l+1
      BY <1>1, <1>2, <2>4
    <3>2. map'[k].base = map[k].base
      BY <2>3, <3>1
    <3>3. map'[l].base = map[l].base \/ map'[l].base = map[l+1].base
      BY <2>3
    <3>4. map[k].base < map[l].base /\ map[k].base < map[l+1].base
      BY <1>2, <2>4, <3>1
    <3> QED
      BY <3>2, <3>3, <3>4
  <2> QED
    BY <2>1, <2>2, <2>4
<1>4. ASSUME ~Mergeable
      PROVE  /\ Good(map') /\ Allocated(map') = Allocated(map)
             /\ Len(map') = n /\ ci' = ci + 1
             /\ \A k \in 1..ci, l \in 1..n :
                   k < l => map'[k].base < map'[l].base
  <2> DEFINE s == Selected
  <2>1. map' = Switched /\ ci' = ci + 1
    BY <1>4 DEF compress_step
  <2>2. /\ Good(map') /\ Allocated(map') = Allocated(map) /\ Len(map') = n
        /\ \A i \in 1..n : map'[i] = IF i = ci THEN map[s]
                               ELSE IF i = s THEN map[ci] ELSE map[i]
    BY <1>2, <2>1, SwitchedTable
  <2>3. /\ s \in ci..n
        /\ \A l \in ci..n : l # s => map[s].base < map[l].base
    BY <1>2, SelectedIsLowest
  <2> HIDE DEF s
  <2>4. ASSUME NEW k \in 1..ci, NEW l \in 1..n, k < l
        PROVE  map'[k].base < map'[l].base
    <3>1. k \in 1..n /\ s \in 1..n
      BY <1>2, <2>3
    <3>2. CASE k = ci
      <4>1. map'[k] = map[s] /\ l # ci
        BY <2>2, <2>4, <3>1, <3>2
      <4>2. PICK m \in ci..n : map'[l] = map[m] /\ m # s
        <5>1. CASE l = s
          BY <5>1, <1>2, <2>2, <4>1
        <5>2. CASE l # s
          <6>1. l \in ci..n
            BY <1>2, <2>4, <3>2
          <6> QED
            BY <5>2, <6>1, <2>2, <4>1
        <5> QED
          BY <5>1, <5>2
      <4> QED
        BY <2>3, <4>1, <4>2
    <3>3. CASE k < ci
      <4>1. k \in 1..ci-1 /\ k # ci /\ k # s /\ k < ci /\ k < s
        BY <1>2, <2>3, <3>1, <3>3
      <4>2. map'[k] = map[k]
        BY <2>2, <3>1, <4>1
      <4>3. map'[l] = map[s] \/ map'[l] = map[ci] \/ map'[l] = map[l]
        BY <2>2
      <4>4. /\ map[k].base < map[s].base /\ map[k].base < map[ci].base
            /\ map[k].base < map[l].base
        BY <1>2, <2>4, <3>1, <4>1
      <4> QED
        BY <4>2, <4>3, <4>4
    <3> QED
      BY <1>2, <3>2, <3>3
  <2> QED
    BY <2>1, <2>2, <2>4
<1>5. /\ Good(map') /\ Allocated(map') = Allocated(map)
      /\ Len(map') \in n-1..n /\ ci' \in 1..Len(map')
  BY <1>1, <1>2, <1>3, <1>4
<1>6. TypeOK'
  <2>1. Len(map') \in 1..MaxDescriptors /\ ci' \in 1..MaxDescriptors
    BY <1>1, <1>2, <1>5
  <2> QED
    BY <1>1, <1>2, <1>5, <2>1 DEF TypeOK, Good
<1>7. SortedSoFar'
  <2>1. CASE Mergeable
    BY <1>3, <1>5, <2>1 DEF SortedSoFar
  <2>2. CASE ~Mergeable
    <3>1. ci' - 1 = ci
      BY <1>2, <1>4, <2>2
    <3> QED
      BY <1>4, <1>5, <2>2, <3>1 DEF SortedSoFar
  <2> QED
    BY <2>1, <2>2
<1>8. RoomForOne'
  BY <1>1, <1>2, <1>5 DEF HeapInv, RoomForOne
<1>9. AnswerIsABlock'
  <2> DEFINE b == [base |-> result, size |-> req, free |-> FALSE]
  <2>1. CASE after = "reply"
    <3>1. b \in Range(map)
      BY <1>1, <2>1 DEF HeapInv, AnswerIsABlock
    <3>2. b \in Allocated(map)
      BY <3>1 DEF Allocated
    <3>3. b \in Range(map')
      BY <1>5, <3>2, AllocatedInTable
    <3> QED
      BY <1>1, <3>3 DEF AnswerIsABlock
  <2>2. CASE after # "reply"
    BY <1>1, <2>2 DEF AnswerIsABlock
  <2> QED
    BY <2>1, <2>2
<1> QED
  BY <1>5, <1>6, <1>7, <1>8, <1>9 DEF HeapInv

LEMMA HeapInvStep == HeapInv /\ [Next]_vars => HeapInv'
<1> SUFFICES ASSUME HeapInv, [Next]_vars PROVE HeapInv'
  OBVIOUS
<1>1. ASSUME NEW size \in 0..H, kmalloc(size) PROVE HeapInv'
  BY <1>1, kmallocKeepsInv
<1>2. ASSUME NEW a \in Offsets, kfree(a) PROVE HeapInv'
  <2>1. req' \in 0..H /\ old' \in 0..H
    BY <1>2 DEF kfree, HeapInv, TypeOK
  <2> QED
    BY <1>2, <2>1, FreeingKeepsInv DEF kfree
<1>3. ASSUME NEW a \in Offsets, NEW new_size \in 0..H-1, krealloc(a, new_size)
      PROVE  HeapInv'
  <2>1. req' \in 0..H /\ old' \in 0..H
    BY <1>3, kreallocArguments
  <2> QED
    BY <1>3, <2>1, FreeingKeepsInv DEF krealloc
<1>4. CASE kmalloc_enter
  BY <1>4, EnterKeepsInv
<1>5. CASE kmalloc_fit
  BY <1>5, FitKeepsInv
<1>6. CASE kmalloc_retry
  BY <1>6, RetryKeepsInv
<1>7. CASE kmalloc_null \/ kmalloc_reply
  BY <1>7, ReturnKeepsInv DEF kmalloc_null, kmalloc_reply
<1>8. CASE compress_step
  BY <1>8, StepKeepsInv
<1>9. CASE compress_end
  BY <1>9, EndKeepsInv
<1>10. CASE UNCHANGED vars
  BY <1>10 DEF vars, HeapInv, TypeOK, RoomForOne, SortedSoFar, AnswerIsABlock
<1> QED
  BY <1>1, <1>2, <1>3, <1>4, <1>5, <1>6, <1>7, <1>8, <1>9, <1>10, Zenon
     DEF Next, Call, Run

LEMMA SpecHeapInv == Spec => []HeapInv
<1>1. Init => HeapInv
  BY HeapInvInit
<1>2. HeapInv /\ [Next]_vars => HeapInv'
  BY HeapInvStep
<1> QED
  BY <1>1, <1>2, PTL DEF Spec

LEMMA ApartShareNothing ==
    ASSUME NEW d, NEW e, Apart(d, e), NEW a \in Offsets,
           d.base \in Nat, d.size \in Nat, e.base \in Nat, e.size \in Nat,
           a \in Span(d), a \in Span(e)
    PROVE  FALSE
  BY DEF Apart, Span, Offsets

\* A byte spanned by two descriptors would lie on both sides of a boundary.
LEMMA GoodIsPartition == TypeOK /\ Good(map) => Partition
<1> SUFFICES ASSUME TypeOK, Good(map), NEW a \in Offsets
             PROVE  \E k \in DOMAIN map :
                      /\ a \in Span(map[k])
                      /\ Span(map[k]) \subseteq Offsets
                      /\ \A l \in DOMAIN map : a \in Span(map[l]) => l = k
  BY DEF Partition
<1>1. map \in Seq(Descriptor) /\ DOMAIN map = 1..Len(map)
  BY Descriptors DEF Good
<1>2. PICK k \in 1..Len(map) : a \in Span(map[k])
  BY DEF Good
<1>3. /\ map[k].base \in Nat /\ map[k].size \in Nat
      /\ map[k].base + map[k].size <= H
  BY <1>1, Descriptors DEF Good
<1>4. Span(map[k]) \subseteq Offsets
  BY <1>3 DEF Span, Offsets
<1>5. ASSUME NEW l \in 1..Len(map), a \in Span(map[l]), l # k PROVE FALSE
  <2>1. Apart(map[l], map[k])
    BY <1>5 DEF Good
  <2>2. map[l].base \in Nat /\ map[l].size \in Nat
    BY <1>1, Descriptors
  <2> QED
    BY <1>2, <1>3, <1>5, <2>1, <2>2, ApartShareNothing
<1> QED
  BY <1>1, <1>2, <1>4, <1>5

(***************************************************************************)
(* However kmalloc splits, kfree marks and __kheap_compress_map sorts and  *)
(* merges, every byte of the heap is described once, and the variables     *)
(* keep their types.                                                       *)
(***************************************************************************)
THEOREM HeapIsPartitioned == Spec => []Partition
<1>1. HeapInv => Partition
  BY GoodIsPartition DEF HeapInv
<1> QED
  BY <1>1, SpecHeapInv, PTL

(***************************************************************************)
(* The address kmalloc is about to return is that of an allocated block of *)
(* the size asked for, even when a compression ran after it was chosen.    *)
(***************************************************************************)
THEOREM AnswersAreBlocks == Spec => []AnswerIsABlock
<1>1. HeapInv => AnswerIsABlock
  BY DEF HeapInv
<1> QED
  BY <1>1, SpecHeapInv, PTL

-----------------------------------------------------------------------------
(***************************************************************************)
(* Every step is one of the abstract heap, or leaves its blocks alone.     *)
(***************************************************************************)
BlocksOf(S) == {[base |-> d.base, size |-> d.size] : d \in S}

LEMMA BlocksAreAllocated ==
    Blocks = BlocksOf(Allocated(map)) /\ Blocks' = BlocksOf(Allocated(map'))
  BY Zenon DEF Blocks, BlocksOf, Allocated

LEMMA InitRefines == Init => Heap!Init
<1> SUFFICES ASSUME Init PROVE Blocks = {}
  BY DEF Heap!Init
<1> DEFINE d == [base |-> 0, size |-> H, free |-> TRUE]
<1>1. map = <<d>> /\ d \in Descriptor
  BY DEF Init, Descriptor, Offsets
<1>2. map \in Seq(Descriptor) /\ \A k \in 1..Len(map) : map[k] = d
  <2>1. map \in Seq(Descriptor) /\ Len(map) = 1 /\ map[1] = d
    BY <1>1
  <2>2. \A k \in 1..Len(map) : k = 1
    BY <2>1
  <2> QED
    BY <2>1, <2>2
<1>3. \A x : x \notin Allocated(map)
  BY <1>2, AllocatedElements
<1> QED
  BY <1>3, BlocksAreAllocated DEF BlocksOf

\* An allocated descriptor is one of the table, apart from all others.
LEMMA AllocatedApart ==
    ASSUME Good(map), NEW k \in 1..Len(map), map[k].free,
           NEW d \in Allocated(map)
    PROVE  Apart(map[k], d) /\ d.base \in Nat /\ d.size \in Nat
<1>1. map \in Seq(Descriptor)
  BY DEF Good
<1>2. PICK i \in 1..Len(map) : map[i] = d /\ ~map[i].free
  BY <1>1, AllocatedElements
<1>3. Apart(map[k], map[i])
  BY <1>2 DEF Good
<1> QED
  BY <1>1, <1>2, <1>3, Descriptors

LEMMA FitRefines ==
    ASSUME HeapInv, kmalloc_fit
    PROVE  Heap!Next
<1> PICK k \in 1..Len(map) :
        /\ map[k].free /\ req \in 1..map[k].size
        /\ Allocated(map') = Allocated(map) \cup
              {[base |-> map[k].base, size |-> req, free |-> FALSE]}
  BY FitKeepsInv
<1> DEFINE b == [base |-> map[k].base, size |-> req]
<1>1. Good(map) /\ map \in Seq(Descriptor)
  BY DEF HeapInv, Good
<1>2. /\ map[k].base \in 0..H-1 /\ map[k].size \in 1..H
      /\ map[k].base + map[k].size <= H
  BY <1>1, Descriptors DEF Good
<1>3. b \in Heap!Block
  BY <1>2 DEF Heap!Block
<1>4. Heap!Bytes(b) \subseteq 0..H-1
  BY <1>2 DEF Heap!Bytes
<1>5. ASSUME NEW c \in Blocks PROVE Heap!Bytes(b) \cap Heap!Bytes(c) = {}
  <2>1. PICK d \in Allocated(map) : c = [base |-> d.base, size |-> d.size]
    BY BlocksAreAllocated DEF BlocksOf
  <2>2. Apart(map[k], d) /\ d.base \in Nat /\ d.size \in Nat
    BY <1>1, AllocatedApart
  <2>3. c.base = d.base /\ c.size = d.size
    BY <2>1
  <2>4. b.base = map[k].base /\ b.size = req /\ req \in Nat /\ req <= map[k].size
    BY <1>2
  <2> HIDE DEF b
  <2>5. map[k].base \in Nat /\ map[k].size \in Nat
    BY <1>2
  <2>6. \/ map[k].base + map[k].size <= d.base
        \/ d.base + d.size <= map[k].base
    BY <2>2 DEF Apart
  <2>7. (map[k].base .. map[k].base + req - 1) \cap (d.base .. d.base + d.size - 1) = {}
    BY <2>2, <2>4, <2>5, <2>6, BytesApart
  <2> QED
    BY <2>3, <2>4, <2>7 DEF Heap!Bytes
<1>6. Blocks' = Blocks \cup {b}
  <2>1. \A S, e : BlocksOf(S \cup {e})
            = BlocksOf(S) \cup {[base |-> e.base, size |-> e.size]}
    BY DEF BlocksOf
  <2> DEFINE n == [base |-> map[k].base, size |-> req, free |-> FALSE]
  <2>2. /\ Allocated(map') = Allocated(map) \cup {n}
        /\ n.base = map[k].base /\ n.size = req
    OBVIOUS
  <2> HIDE DEF n
  <2>3. BlocksOf(Allocated(map'))
            = BlocksOf(Allocated(map)) \cup {[base |-> n.base, size |-> n.size]}
    <3>1. ASSUME NEW S, NEW T, NEW e, T = S \cup {e}
          PROVE  BlocksOf(T)
                   = BlocksOf(S) \cup {[base |-> e.base, size |-> e.size]}
      BY <2>1, <3>1
    <3> QED
      BY <2>2, <3>1, SMT
  <2>4. [base |-> n.base, size |-> n.size] = b
    BY <2>2
  <2> QED
    BY <2>3, <2>4, BlocksAreAllocated, Zenon
<1> QED
  BY <1>3, <1>4, <1>5, <1>6 DEF Heap!Next, Heap!Alloc

LEMMA FreeRefines ==
    ASSUME HeapInv, NEW a \in Offsets, map' = Freed(a)
    PROVE  [Heap!Next]_Blocks
<1> DEFINE d == map[Holder(a)]
           b == [base |-> d.base, size |-> d.size]
<1>1. Good(map) /\ map \in Seq(Descriptor)
  BY DEF HeapInv, Good
<1>2. Holder(a) \in 1..Len(map) /\ d \in Descriptor
  BY <1>1, HolderSpans, Descriptors
<1>3. Allocated(map') = Allocated(map) \ {d}
  BY <1>1, FreedTable
<1>4. CASE d.free
  <2>1. d \notin Allocated(map)
    BY <1>4 DEF Allocated
  <2>2. Blocks' = Blocks
    BY <1>3, <2>1, BlocksAreAllocated
  <2> QED
    BY <2>2
<1>5. CASE ~d.free
  <2>1. d \in Allocated(map)
    BY <1>1, <1>2, <1>5, AllocatedElements
  <2>2. b \in Heap!Block
    BY <1>2 DEF Heap!Block, Descriptor, Offsets
  <2>3. b \in Blocks
    BY <2>1, BlocksAreAllocated DEF BlocksOf
  <2>4. \A e \in Allocated(map) :
            e.base = d.base /\ e.size = d.size => e = d
    <3> TAKE e \in Allocated(map)
    <3> HAVE e.base = d.base /\ e.size = d.size
    <3>1. PICK i \in 1..Len(map) : map[i] = e /\ ~map[i].free
      BY <1>1, AllocatedElements
    <3>2. e \in Descriptor /\ ~e.free
      BY <1>1, <3>1, Descriptors
    <3> HIDE DEF d
    <3> QED
      BY <1>2, <1>5, <3>2 DEF Descriptor
  <2> HIDE DEF d
  <2>5. Blocks' = Blocks \ {b}
    BY <1>3, <2>4, BlocksAreAllocated DEF BlocksOf
  <2> QED
    BY <2>2, <2>3, <2>5 DEF Heap!Next, Heap!Free
<1> QED
  BY <1>4, <1>5

LEMMA StepRefines == HeapInv /\ [Next]_vars => [Heap!Next]_Blocks
<1> SUFFICES ASSUME HeapInv, [Next]_vars PROVE [Heap!Next]_Blocks
  OBVIOUS
<1>1. CASE UNCHANGED map
  BY <1>1, BlocksAreAllocated
<1>2. CASE kmalloc_fit
  BY <1>2, FitRefines
<1>3. ASSUME NEW a \in Offsets, kfree(a) PROVE [Heap!Next]_Blocks
  BY <1>3, FreeRefines DEF kfree
<1>4. ASSUME NEW a \in Offsets, NEW new_size \in 0..H-1, krealloc(a, new_size)
      PROVE  [Heap!Next]_Blocks
  BY <1>4, FreeRefines DEF krealloc
<1>5. CASE compress_step
  BY <1>5, StepKeepsInv, BlocksAreAllocated
<1>6. \/ UNCHANGED map
      \/ kmalloc_fit
      \/ \E a \in Offsets : kfree(a)
      \/ \E a \in Offsets, new_size \in 0..H-1 : krealloc(a, new_size)
      \/ compress_step
  BY DEF Next, Call, Run, vars, kmalloc, kmalloc_enter, kmalloc_retry,
         kmalloc_null, kmalloc_reply, Return, compress_end
<1> QED
  BY <1>1, <1>2, <1>3, <1>4, <1>5, <1>6

(***************************************************************************)
(* The heap of kmalloc.c is an implementation of HeapSpec: what kmalloc    *)
(* allocates was free, kfree and krealloc free at most one block, and      *)
(* nothing else, a compression included, moves or resizes a block.         *)
(***************************************************************************)
THEOREM HeapRefines == Spec => ImplementsHeap
<1>1. Init => Heap!Init
  BY InitRefines
<1>2. HeapInv /\ [Next]_vars => [Heap!Next]_Blocks
  BY StepRefines
<1> QED
  BY <1>1, <1>2, SpecHeapInv, PTL DEF Spec, ImplementsHeap, Heap!Spec
=============================================================================
