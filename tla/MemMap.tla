------------------------------- MODULE MemMap -------------------------------
(***************************************************************************)
(* The virtual memory of mm/memory_manager.c and mm/paging.c: the map of   *)
(* descriptors, in a manual object pool, and the page tables.  Addresses   *)
(* count pages and frames; the boot loader maps every page to the frame of *)
(* the same number.  The frame allocator gives distinct free frames in any *)
(* order (FrameAlloc shows that it does).                                  *)
(*                                                                         *)
(* kalloc_page runs page by page, the sort and the compression slot by     *)
(* slot; the search and the edits of kfree_page and kmap_page are one step *)
(* each.                                                                   *)
(***************************************************************************)
EXTENDS Integers, Sequences, FiniteSetsExt, SequencesExt

CONSTANTS
    Top,            \* pages and frames are 0..Top; 0 is null
    Capacity,       \* descriptors in the pool
    MapSize,        \* mmap_size, as the boot loader gives it
    BootMap,        \* the descriptors of the boot loader
    BootFree,       \* the frames that are free at boot
    Region,         \* the region of a page: pages of one page table
    BootMissing,    \* for each region the tables that are missing at boot
    MaxRequest      \* bound on the pages of one request

VARIABLES
    map,        \* the pool: one descriptor per slot, 0..Capacity-1
    last,       \* mmap_last_ind
    free,       \* frames the allocator has
    pt,         \* the frame of each page in the page tables
    missing,    \* the tables each region still needs
    tab,        \* frames map_page took for tables
    call,       \* the variables of the call in progress, or Idle
    held,       \* history: areas callers hold
    regular     \* history: no call met the cases listed at Reachable

vars == <<map, last, free, pt, missing, tab, call, held, regular>>

Pages == 0..Top
Frames == 0..Top
Slots == 0..Capacity-1
FlagNames == {"avail", "valid", "unk", "next"}
Types == {"usable", "kernel_reserved", "io_reserved"}

init_descriptor(va, pa, pages, flags, type) ==
    [va |-> va, pa |-> pa, pages |-> pages, flags |-> flags, type |-> type]

\* A slot of zero bytes: type 0 is usable, and no flag is set.
Zero == init_descriptor(0, 0, 0, {}, "usable")

DESCRIPTOR_VALID(d) == "valid" \in d.flags
DESCRIPTOR_AVAILABLE(d) == "avail" \in d.flags
DESCRIPTOR_HAS_NEXT(d) == "next" \in d.flags

Descr == [va : 0 .. 2 * Top, pa : 0 .. 2 * Top, pages : 0 .. Top + 1,
          flags : SUBSET FlagNames, type : Types]

PagesOf(d) == d.va .. d.va + d.pages - 1
FramesOf(d) == d.pa .. d.pa + d.pages - 1

\* The boot loader gives a sorted map of at least as many entries as the pool
\* has: init_mm gives back the whole frames it fills, and the pool is one frame.
ASSUME MemMapAssumption ==
    /\ Top \in Nat \ {0} /\ Capacity \in Nat \ {0} /\ MaxRequest \in Nat
    /\ MapSize \in Nat /\ Capacity <= MapSize
    /\ BootMap \in Seq(Descr) /\ Len(BootMap) <= Capacity
    /\ \A k \in DOMAIN BootMap :
         /\ DESCRIPTOR_VALID(BootMap[k]) /\ BootMap[k].pages > 0
         /\ PagesOf(BootMap[k]) \subseteq Pages
    /\ \A j, k \in DOMAIN BootMap :
         j < k => BootMap[j].va + BootMap[j].pages <= BootMap[k].va
    /\ BootFree \subseteq Frames

Idle == [op |-> "idle"]

\* memory_length counts the pages of the boot map, holes left out.
memory_length ==
    FoldFunction(+, 0, [k \in DOMAIN BootMap |-> BootMap[k].pages])

Init ==
    /\ map = [k \in Slots |-> IF k < Len(BootMap) THEN BootMap[k + 1] ELSE Zero]
    /\ last = Len(BootMap)
    /\ free = BootFree
    /\ pt = [p \in Pages |-> p]
    /\ missing = BootMissing
    /\ tab = {}
    /\ call = Idle
    /\ held = {}
    /\ regular = TRUE

-----------------------------------------------------------------------------
\* What the invariants need of a call to be regular: it describes its frames in
\* at most two runs, every put into the pool and every map_page succeeds, and no
\* frame that holds a table is hidden behind another translation of its address.
Reachable(p, t) == \A f \in t : p[f] = f

\* obj_pool_put refuses an index outside the pool.
Put(k, d) == IF k < Capacity THEN [map EXCEPT ![k] = d] ELSE map

\* find_available_virtual_memory: the first free descriptor that is large
\* enough, before the end of the map.
Suits(k, n) ==
    /\ k < MapSize
    /\ \A j \in 0..k : DESCRIPTOR_VALID(map[j])
    /\ map[k].pages >= n /\ DESCRIPTOR_AVAILABLE(map[k]) /\ map[k].type = "usable"

find_available_virtual_memory(n) ==
    {k \in Slots : Suits(k, n) /\ \A j \in 0 .. k - 1 : ~Suits(j, n)}

\* The frames come in any order.
kalloc_page(n) ==
    /\ call = Idle
    /\ \E k \in find_available_virtual_memory(n), f \in Injection(1..n, free) :
         /\ call' = [op |-> "alloc", base |-> map[k].va, n |-> n, ind |-> k,
                     frames |-> f, m |-> 0,
                     new |-> init_descriptor(map[k].va, f[1], 0, {"valid"},
                                             "kernel_reserved")]
         /\ free' = free \ Range(f)
    /\ UNCHANGED <<map, last, pt, missing, tab, held, regular>>

\* kalloc_frames_array fails: the frames run out, or kalloc_frame answers null
\* once with free frames below its hint.  The undo keeps the last frame of two
\* or more.
kalloc_page_refused(n) ==
    /\ call = Idle
    /\ find_available_virtual_memory(n) # {}
    /\ n > 1
    /\ \E f \in free : free' = free \ {f}
    /\ UNCHANGED <<map, last, pt, missing, tab, call, held, regular>>

\* The frame of page m does not follow the one before it: the descriptor of
\* the run so far goes into the map, and the next run starts.
RunEnds_late ==
    /\ call.m \in 2 .. call.n - 1
    /\ call.new.pages > 0
    /\ call.frames[call.m] + 1 # call.frames[call.m + 1]

RunEnds ==
    /\ call.m \in 1 .. call.n - 1
    /\ call.new.pages > 0
    /\ call.frames[call.m] + 1 # call.frames[call.m + 1]

Refunded(ok) == IF ok THEN free ELSE free \union Range(call.frames)

kalloc_page_split ==
    /\ call.op = "alloc" /\ RunEnds
    /\ map' = Put(last, [call.new EXCEPT !.flags = @ \union {"next"}])
    /\ last' = last + 1
    /\ free' = Refunded(last < Capacity)
    /\ call' = [call EXCEPT !.new =
                  init_descriptor(@.va + call.m, call.frames[call.m + 1], 0, {"valid"},
                                  "kernel_reserved")]
    /\ regular' = (regular /\ last < Capacity /\ call.new.va = call.base)
    /\ UNCHANGED <<pt, missing, tab, held>>

\* The descriptor and the map after a page was taken from the free one.
Taken ==
    /\ call' = [call EXCEPT !.m = @ + 1, !.new.pages = @ + 1]
    /\ map' = [map EXCEPT ![call.ind].va = @ + 1, ![call.ind].pages = @ - 1]

PageToMap == call.op = "alloc" /\ call.m < call.n /\ ~RunEnds

\* map_page takes a frame for each table that is missing.  The new tables are
\* not cleared: those above the last may hold an address of their former use,
\* and so do tables that are no longer reached at their own address: the
\* translation is then written elsewhere.
Maps(page, frame) ==
    \E T \in kSubset(missing[Region[page]], free) :
      /\ free' = free \ T
      /\ tab' = tab \union T
      /\ missing' = [missing EXCEPT ![Region[page]] = 0]
      /\ pt' = [pt EXCEPT ![page] = frame]
      /\ regular' = (regular /\ Reachable(pt', tab'))

MapsAstray(page) ==
    /\ \E k \in 0 .. missing[Region[page]] : \E T \in kSubset(k, free) :
         /\ missing[Region[page]] > 1 \/ ~Reachable(pt, tab \union T)
         /\ free' = free \ T
         /\ tab' = tab \union T
         /\ missing' = [missing EXCEPT ![Region[page]] = 0]
    /\ regular' = FALSE
    /\ UNCHANGED pt

\* kalloc_frame refuses; the tables made so far, of the frames T, stay.
CannotMap(page, T) ==
    /\ Cardinality(T) < missing[Region[page]]
    /\ missing' = [missing EXCEPT ![Region[page]] = @ - Cardinality(T)]
    /\ tab' = tab \union T
    /\ regular' = FALSE
    /\ UNCHANGED pt

kalloc_page_map ==
    /\ PageToMap /\ Taken
    /\ LET page == call.base + call.m IN
         Maps(page, call.frames[call.m + 1]) \/ MapsAstray(page)
    /\ UNCHANGED <<last, held>>

\* kalloc_page frees the frames of the request and goes on.
kalloc_page_unmapped ==
    /\ PageToMap /\ Taken
    /\ \E T \in SUBSET free :
         /\ CannotMap(call.base + call.m, T)
         /\ free' = (free \ T) \union Range(call.frames)
    /\ UNCHANGED <<last, held>>

\* The last descriptor is put; a free descriptor without pages is removed.
Removed(m, k, n) ==
    [j \in Slots |-> IF j < k THEN m[j]
                     ELSE IF j + n < Capacity THEN m[j + n] ELSE Zero]

WithoutEmpty(m, k) ==
    IF m[k].pages > 0 THEN m
    ELSE IF k = MapSize - 1 THEN [m EXCEPT ![k] = Zero]
    ELSE Removed(m, k, 1)

kalloc_page_end ==
    /\ call.op = "alloc" /\ call.m = call.n
    /\ map' = WithoutEmpty(Put(last, call.new), call.ind)
    /\ last' = IF map[call.ind].pages = 0 THEN last ELSE last + 1
    /\ free' = Refunded(last < Capacity)
    /\ call' = [op |-> "order", i |-> 0, base |-> call.base, n |-> call.n]
    /\ regular' = (regular /\ last < Capacity)
    /\ UNCHANGED <<pt, missing, tab, held>>

-----------------------------------------------------------------------------
\* order_map, a selection sort: slot i gets the first of the lowest addresses
\* from i on.  When it ends kalloc_page returns.
Lower(i) == {j \in i + 1 .. Min({last, Capacity}) - 1 :
               DESCRIPTOR_VALID(map[j]) /\ map[j].va < map[i].va}

Selected(i) ==
    IF Lower(i) = {} THEN i
    ELSE CHOOSE j \in Lower(i) :
           \A k \in Lower(i) : map[j].va < map[k].va \/ (map[j].va = map[k].va /\ j <= k)

Ordering(i) == i + 1 < Min({last, Capacity}) /\ DESCRIPTOR_VALID(map[i])

order_map ==
    /\ call.op = "order" /\ Ordering(call.i)
    /\ map' = [map EXCEPT ![call.i] = map[Selected(call.i)],
                          ![Selected(call.i)] = map[call.i]]
    /\ call' = [call EXCEPT !.i = @ + 1]
    /\ UNCHANGED <<last, free, pt, missing, tab, held, regular>>

order_map_end ==
    /\ call.op = "order" /\ ~Ordering(call.i) /\ call.n > 0
    /\ call' = Idle
    /\ held' = held \union {[base |-> call.base, n |-> call.n]}
    /\ UNCHANGED <<map, last, free, pt, missing, tab, regular>>

\* kfree_page frees the frames of the descriptor that starts at base and of
\* those that continue it, and makes them free descriptors.  kfree_frame refuses
\* none that kalloc_frame gives: both end at memory_length.
Chain_first(k) == {j \in {k} : DESCRIPTOR_VALID(map[j])}

Chain(k) ==
    {j \in k .. Capacity - 1 :
       /\ DESCRIPTOR_VALID(map[j])
       /\ \A x \in k .. j - 1 : DESCRIPTOR_VALID(map[x]) /\ DESCRIPTOR_HAS_NEXT(map[x])}

Found(base) ==
    {k \in 0 .. Min({MapSize, Capacity}) - 1 :
       /\ map[k].va = base
       /\ \A j \in 0 .. k : DESCRIPTOR_VALID(map[j])
       /\ \A j \in 0 .. k - 1 : map[j].va # base}

kfree_page(area) ==
    /\ call = Idle
    /\ area.base # 0 /\ area.base < memory_length
    /\ \E k \in Found(area.base) :
         /\ free' = free \union (Frames \intersect UNION {FramesOf(map[j]) : j \in Chain(k)})
         /\ map' = [j \in Slots |->
                      IF j \in Chain(k)
                      THEN init_descriptor(map[j].va, 0, map[j].pages,
                                           {"avail", "valid", "unk"}, "usable")
                      ELSE map[j]]
    /\ call' = [op |-> "compress", i |-> 0, size |-> last]
    /\ held' = held \ {area}
    /\ UNCHANGED <<last, pt, missing, tab, regular>>

\* compress_map merges a free descriptor with those that continue it and have
\* its flags and type.
Continues_anywhere(i, k) ==
    /\ i + k < Capacity
    /\ map[i + k].type = map[i].type /\ map[i + k].flags = map[i].flags

Continues(i, k) ==
    /\ i + k < Capacity
    /\ map[i + k].type = map[i].type /\ map[i + k].flags = map[i].flags
    /\ map[i + k].va = map[i + k - 1].va + map[i + k - 1].pages

Mergeable(i) ==
    IF map[i].type = "usable" /\ DESCRIPTOR_AVAILABLE(map[i])
    THEN CHOOSE n \in 0 .. Capacity :
           /\ \A k \in 1 .. n : Continues(i, k)
           /\ ~Continues(i, n + 1)
    ELSE 0

PagesFrom(i, n) ==
    LET pages[k \in 0 .. n] ==
          IF k = 0 THEN map[i].pages ELSE pages[k - 1] + map[i + k].pages
    IN  pages[n]

Compressing(i) == i + 1 < call.size /\ DESCRIPTOR_VALID(map[i])

compress_map ==
    /\ call.op = "compress" /\ Compressing(call.i)
    /\ LET i == call.i
           n == Mergeable(i)
       IN  /\ map' = Removed([map EXCEPT ![i].pages = PagesFrom(i, n)], i + 1, n)
           /\ last' = last - n
    /\ call' = [call EXCEPT !.i = @ + 1]
    /\ UNCHANGED <<free, pt, missing, tab, held, regular>>

compress_map_end ==
    /\ call.op = "compress" /\ ~Compressing(call.i)
    /\ call' = Idle
    /\ UNCHANGED <<map, last, free, pt, missing, tab, held, regular>>
-----------------------------------------------------------------------------
\* kmap_page, which nothing calls.  It edits the descriptor of the page if it
\* has one page; otherwise it puts the parts before and after the page, and
\* leaves the descriptor.  In both cases it puts a descriptor of the page.
Containing(page) ==
    {k \in 0 .. Min({MapSize, Capacity}) - 1 :
       /\ page \in PagesOf(map[k])
       /\ \A j \in 0 .. k : DESCRIPTOR_VALID(map[j])
       /\ \A j \in 0 .. k - 1 : page \notin PagesOf(map[j])}

Whole == MapSize <= Capacity /\ \A k \in 0 .. MapSize - 1 : DESCRIPTOR_VALID(map[k])

Parts(page) ==
    LET d == map[CHOOSE k \in Containing(page) : TRUE]
        before == init_descriptor(d.va, 0, page - d.va, d.flags, d.type)
        after == init_descriptor(page + 1, 0, d.va + d.pages - 1 - page, d.flags, d.type)
    IN  IF Containing(page) = {} \/ d.pages = 1 THEN <<>>
        ELSE IF page > d.va THEN <<before, after>> ELSE <<after>>

PutAll(m, ds) ==
    [k \in Slots |-> IF k - last + 1 \in DOMAIN ds THEN ds[k - last + 1] ELSE m[k]]

kmap_page(page, frame) ==
    /\ call = Idle
    /\ Containing(page) # {} \/ Whole
    /\ LET new == init_descriptor(page, frame, 1, {"valid"}, "kernel_reserved")
           puts == Append(Parts(page), new)
           edited == [k \in Slots |-> IF k \in Containing(page) /\ map[k].pages = 1
                                      THEN new ELSE map[k]]
       IN  /\ map' = PutAll(edited, puts)
           /\ last' = Min({last + Len(puts), Max({last, Capacity})})
           /\ call' = IF last + Len(puts) > Capacity THEN Idle
                      ELSE [op |-> "order", i |-> 0, base |-> page, n |-> 0, frame |-> frame]
    /\ regular' = FALSE
    /\ UNCHANGED <<free, pt, missing, tab, held>>

kmap_page_end ==
    /\ call.op = "order" /\ ~Ordering(call.i) /\ call.n = 0
    /\ \/ Maps(call.base, call.frame)
       \/ MapsAstray(call.base)
       \/ \E T \in SUBSET free : CannotMap(call.base, T) /\ free' = free \ T
    /\ call' = Idle
    /\ UNCHANGED <<map, last, held>>

-----------------------------------------------------------------------------
Calls ==
    \/ \E n \in 1 .. MaxRequest : kalloc_page(n) \/ kalloc_page_refused(n)
    \/ kalloc_page_split
    \/ kalloc_page_map
    \/ kalloc_page_unmapped
    \/ kalloc_page_end
    \/ order_map
    \/ order_map_end
    \/ \E area \in held : kfree_page(area)
    \/ compress_map
    \/ compress_map_end

Unused ==
    \/ \E page \in Pages, frame \in Frames : kmap_page(page, frame)
    \/ kmap_page_end

Next == Calls \/ Unused

Spec == Init /\ [][Next]_vars

-----------------------------------------------------------------------------
BootPages == UNION {PagesOf(BootMap[k]) : k \in DOMAIN BootMap}

\* Descriptors that are in use, the one kalloc_page builds among them.
Used ==
    {<<k, map[k]>> : k \in {j \in Slots : DESCRIPTOR_VALID(map[j])}}
      \union (IF call.op = "alloc" THEN {<<Capacity, call.new>>} ELSE {})

AreaPages(area) == area.base .. area.base + area.n - 1

\* The map and the tables keep to their types, and the slots in use are those
\* below mmap_last_ind.
TypeOK ==
    /\ regular => /\ map \in [Slots -> Descr]
                  /\ last \in 0 .. Capacity
    /\ free \subseteq Frames /\ tab \subseteq Frames
    /\ pt \in [Pages -> Frames]
    /\ (regular /\ call.op # "compress") =>
         \A k \in Slots : DESCRIPTOR_VALID(map[k]) <=> k < last

\* Between calls the map is sorted by address.
Ordered ==
    (regular /\ call = Idle) =>
       \A k \in 1 .. last - 1 : map[k - 1].va < map[k].va

\* The map describes each page of the boot map exactly once, in the middle of
\* kalloc_page too: splitting, sorting and merging neither lose nor repeat one;
\* and between calls the descriptors in use come first, in order.
EachPageOnce ==
    /\ TypeOK /\ Ordered
    /\ regular => \A p \in BootPages :
                    Cardinality({u \in Used : p \in PagesOf(u[2])}) = 1

\* An area a caller holds is backed, page by page, by the frame its descriptor
\* names, and no other area, no page table and no free frame shares it.
AreasAreBacked ==
    regular =>
      /\ \A area \in held : \A p \in AreaPages(area) :
           /\ pt[p] \notin free \union tab
           /\ \E u \in Used : /\ u[2].type = "kernel_reserved"
                             /\ p \in PagesOf(u[2])
                             /\ pt[p] = u[2].pa + (p - u[2].va)
      /\ \A a, b \in held : \A p \in AreaPages(a), q \in AreaPages(b) :
           (pt[p] = pt[q]) => (p = q /\ a = b)

\* Freeing an area gives back the frames its pages are mapped to, and no other.
FreeReturnsTheArea ==
    [][\A area \in held \ held' :
         regular => free' = free \union {pt[p] : p \in AreaPages(area)}]_vars
=============================================================================
