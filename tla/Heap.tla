-------------------------------- MODULE Heap --------------------------------
(***************************************************************************)
(* The kernel heap, mm/mem.c.  Blocks lie in the heap behind headers that  *)
(* form a doubly linked list; hdr maps the addresses of the listed headers *)
(* to their contents.  Pages are mapped as heap_curr grows, and mapping    *)
(* one may fail.  live is what the callers hold.  Each call is one step:   *)
(* nothing in mem.c is protected against a second caller.                  *)
(***************************************************************************)
EXTENDS Integers, FiniteSets

CONSTANTS
  HDR,                     \* sizeof(block_header_t)
  MIN_SPLIT_SIZE, PAGE_SIZE,
  heap_base, heap_end,
  Sizes, Aligns,           \* what callers ask for
  MaxLive                  \* bound: pointers held at a time

VARIABLES
  list,                    \* the headers, heap_head and heap_tail
  heap_curr, heap_commit_end,
  mapped,                  \* the end of the pages that are really mapped
  live

vars == <<list, heap_curr, heap_commit_end, mapped, live>>

NULL == 0
MIN_BLOCK_SIZE == HDR + MIN_SPLIT_SIZE

\* The mask of the macro: normalize_align has made the alignment a power of two.
ALIGN_UP(x, a) == a * ((x + (a - 1)) \div a)

\* The least power of two that is at least the alignment, and at least 4.
normalize_align(align) ==
  IF align < 2 THEN 0
  ELSE CHOOSE p \in {2^i : i \in 2 .. 20} :
         align <= p /\ \A q \in {2^i : i \in 2 .. 20} : align <= q => p <= q

ASSUME HeapConstants ==
  /\ HDR \in Nat \ {0} /\ MIN_SPLIT_SIZE \in Nat \ {0} /\ PAGE_SIZE \in Nat \ {0}
  /\ heap_base \in Nat \ {0} /\ heap_base % PAGE_SIZE = 0
  /\ heap_end \in Nat /\ heap_base < heap_end
  /\ Sizes \subseteq Nat \ {0} /\ Aligns \subseteq Nat /\ MaxLive \in Nat
  /\ \A a \in Aligns : normalize_align(a) \in Nat

Addresses == heap_base .. heap_end
Blocks == DOMAIN list.hdr
Header == [size : Nat, next : Addresses \cup {NULL}, prev : Addresses \cup {NULL}, free : BOOLEAN]

\* kmalloc_init; the first page is mapped, or could not be had.
Init ==
  /\ list = [hdr |-> << >>, head |-> NULL, tail |-> NULL]
  /\ heap_curr = heap_base /\ live = << >>
  /\ heap_commit_end \in {heap_base, ALIGN_UP(heap_base + 1, PAGE_SIZE)}
  /\ mapped = heap_commit_end

-----------------------------------------------------------------------------
(* The list *)

block_end(l, b) == b + HDR + l.hdr[b].size
blocks_adjacent(l, a, b) == block_end(l, a) = b

\* The free header b, inside the old block a, is linked in behind a.
LinkBehind(l, a, b) ==
  LET next == l.hdr[a].next IN
  [hdr  |-> [x \in DOMAIN l.hdr \cup {b} |->
               IF x = b THEN [size |-> block_end(l, a) - (b + HDR), next |-> next, prev |-> a, free |-> TRUE]
               ELSE IF x = a THEN [size |-> b - (a + HDR), next |-> b, prev |-> l.hdr[a].prev, free |-> l.hdr[a].free]
               ELSE IF x = next THEN [l.hdr[x] EXCEPT !.prev = b]
               ELSE l.hdr[x]],
   head |-> l.head,
   tail |-> IF l.tail = a THEN b ELSE l.tail]

\* A block is put behind the last one.
AppendBlock(l, b, size, free) ==
  [hdr  |-> [x \in DOMAIN l.hdr \cup {b} |->
               IF x = b THEN [size |-> size, next |-> NULL, prev |-> l.tail, free |-> free]
               ELSE IF x = l.tail THEN [l.hdr[x] EXCEPT !.next = b]
               ELSE l.hdr[x]],
   head |-> IF l.tail = NULL THEN b ELSE l.head,
   tail |-> b]

\* Mutant: the block behind the merged one still points at it.
MergeNext_no_prev(l, a) ==
  LET b == l.hdr[a].next
      next == l.hdr[b].next IN
  [hdr  |-> [x \in DOMAIN l.hdr \ {b} |->
               IF x = a THEN [size |-> l.hdr[a].size + HDR + l.hdr[b].size, next |-> next,
                            prev |-> l.hdr[a].prev, free |-> l.hdr[a].free]
               ELSE l.hdr[x]],
   head |-> l.head,
   tail |-> IF l.tail = b THEN a ELSE l.tail]

\* The block behind a becomes part of a.
MergeNext(l, a) ==
  LET b == l.hdr[a].next
      next == l.hdr[b].next IN
  [hdr  |-> [x \in DOMAIN l.hdr \ {b} |->
               IF x = a THEN [size |-> l.hdr[a].size + HDR + l.hdr[b].size, next |-> next,
                            prev |-> l.hdr[a].prev, free |-> l.hdr[a].free]
               ELSE IF x = next THEN [l.hdr[x] EXCEPT !.prev = a]
               ELSE l.hdr[x]],
   head |-> l.head,
   tail |-> IF l.tail = b THEN a ELSE l.tail]

\* The contents of a header change, the list's links do not.
SetHeader(l, b, h) == [hdr |-> [l.hdr EXCEPT ![b] = h], head |-> l.head, tail |-> l.tail]
SetFree(l, b, free) == SetHeader(l, b, [l.hdr[b] EXCEPT !.free = free])
Grow(l, b, n) == SetHeader(l, b, [l.hdr[b] EXCEPT !.size = @ + n])

-----------------------------------------------------------------------------
(* kmalloc *)

\* Mutant: the header is aligned, not the payload behind it.
aligned_header_start(start, align) ==
  IF align = 0 THEN start ELSE ALIGN_UP(start, align)

aligned_header(start, align) ==
  (IF align = 0 THEN start + HDR ELSE ALIGN_UP(start + HDR, align)) - HDR

block_can_fit(l, b, size, align) ==
  LET h == aligned_header(b, align) IN
  /\ h + HDR + size <= block_end(l, b)
  /\ h = b \/ h - b >= MIN_BLOCK_SIZE

Fitting(l, size, align) == {b \in DOMAIN l.hdr : l.hdr[b].free /\ block_can_fit(l, b, size, align)}

\* b is the block that is found.  The list is in address order (ListOK), so its first
\* fitting block is the lowest.
find_free_block(l, b, size, align) ==
  b \in Fitting(l, size, align) /\ \A c \in Fitting(l, size, align) : b <= c

split_block(l, b, size) ==
  IF l.hdr[b].size - size < MIN_BLOCK_SIZE THEN l ELSE LinkBehind(l, b, b + HDR + size)

allocate_from_block(l, b, h, size) ==
  SetFree(split_block(IF h = b THEN l ELSE LinkBehind(l, b, h), h, size), h, FALSE)

\* The space between the last block and an aligned new one: a free block, added to a free
\* neighbour, or lost.
FillGap(l, start, gap) ==
  IF gap >= MIN_BLOCK_SIZE THEN AppendBlock(l, start, gap - HDR, TRUE)
  ELSE IF gap > 0 /\ l.tail # NULL /\ l.hdr[l.tail].free /\ blocks_adjacent(l, l.tail, start)
       THEN Grow(l, l.tail, gap)
       ELSE l

Hold(p, size, align) ==
  live' = [q \in DOMAIN live \cup {p} |-> IF q = p THEN [size |-> size, align |-> align] ELSE live[q]]

FromList(size, align) ==
  \E b \in Blocks :
    LET h == aligned_header(b, align) IN
    /\ find_free_block(list, b, size, align)
    /\ list' = allocate_from_block(list, b, h, size)
    /\ Hold(h + HDR, size, align)
    /\ UNCHANGED <<heap_curr, heap_commit_end, mapped>>

\* Mutant: the new end is recorded before the pages are mapped.
heap_commit_to_early(need_end, ok) ==
  LET new == ALIGN_UP(need_end, PAGE_SIZE) IN
  /\ heap_commit_end' = IF new <= heap_commit_end THEN heap_commit_end ELSE new
  /\ \/ ok /\ mapped' = IF new <= mapped THEN mapped ELSE new
     \/ ~ok /\ new > heap_commit_end /\ mapped' = mapped

\* Pages are mapped one by one; when one cannot be had, those before it stay mapped and
\* heap_commit_end does not move.
heap_commit_to(need_end, ok) ==
  LET new == ALIGN_UP(need_end, PAGE_SIZE) IN
  \/ /\ ok
     /\ heap_commit_end' = IF new <= heap_commit_end THEN heap_commit_end ELSE new
     /\ mapped' = IF new <= mapped THEN mapped ELSE new
  \/ /\ ~ok /\ new > heap_commit_end /\ heap_commit_end' = heap_commit_end
     /\ \E n \in 0 .. (new - heap_commit_end) \div PAGE_SIZE - 1 :
          LET reached == heap_commit_end + n * PAGE_SIZE IN
          mapped' = IF reached <= mapped THEN mapped ELSE reached

\* allocate_new_block, when nothing in the list fits.
NewBlock(size, align) ==
  LET start == heap_curr
      h == aligned_header(start, align)
      end == h + HDR + size IN
  /\ Fitting(list, size, align) = {}
  /\ end <= heap_end
  /\ \/ /\ heap_commit_to(end, TRUE)
        /\ list' = AppendBlock(FillGap(list, start, h - start), h, size, FALSE)
        /\ heap_curr' = end
        /\ Hold(h + HDR, size, align)
     \/ heap_commit_to(end, FALSE) /\ UNCHANGED <<list, heap_curr, live>>

\* kmalloc_internal; a request that gets NULL because the heap is full changes nothing.
kmalloc(size, align) ==
  /\ Cardinality(DOMAIN live) < MaxLive
  /\ LET size4 == ALIGN_UP(size, 4)
         norm == normalize_align(align)
     IN  FromList(size4, norm) \/ NewBlock(size4, norm)

-----------------------------------------------------------------------------
(* kfree *)

MergeAfter(l, b) ==
  LET next == l.hdr[b].next IN
  IF next # NULL /\ l.hdr[next].free /\ blocks_adjacent(l, b, next) THEN MergeNext(l, b) ELSE l

MergeBefore(l, b) ==
  LET prev == l.hdr[b].prev IN
  IF prev # NULL /\ l.hdr[prev].free /\ blocks_adjacent(l, prev, b) THEN MergeNext(l, prev) ELSE l

kfree(p) ==
  LET b == p - HDR IN
  /\ list' = MergeBefore(MergeAfter(SetFree(list, b, TRUE), b), b)
  /\ live' = [q \in DOMAIN live \ {p} |-> live[q]]
  /\ UNCHANGED <<heap_curr, heap_commit_end, mapped>>

Next ==
  \/ \E size \in Sizes, align \in Aligns : kmalloc(size, align)
  \/ \E p \in DOMAIN live : kfree(p)

Spec == Init /\ [][Next]_vars

-----------------------------------------------------------------------------
(* Properties *)

ListType(l) ==
  /\ l = [hdr |-> l.hdr, head |-> l.head, tail |-> l.tail]
  /\ DOMAIN l.hdr \subseteq Addresses /\ l.hdr \in [DOMAIN l.hdr -> Header]

TypeOK ==
  /\ ListType(list)
  /\ heap_curr \in Addresses /\ heap_commit_end \in Nat /\ mapped \in Nat
  /\ DOMAIN live \subseteq Nat /\ live \in [DOMAIN live -> [size : Nat, align : Nat]]

Linked(l) ==
  /\ l.head = NULL <=> DOMAIN l.hdr = {}
  /\ l.tail = NULL <=> DOMAIN l.hdr = {}
  /\ DOMAIN l.hdr # {} => l.head \in DOMAIN l.hdr /\ l.tail \in DOMAIN l.hdr
  /\ \A b \in DOMAIN l.hdr :
       LET n == l.hdr[b].next
           p == l.hdr[b].prev IN
       /\ b = l.head <=> p = NULL
       /\ b = l.tail <=> n = NULL
       /\ n # NULL => n \in DOMAIN l.hdr /\ l.hdr[n].prev = b /\ b < n
       /\ p # NULL => p \in DOMAIN l.hdr /\ l.hdr[p].next = b /\ p < b

Apart(l) == \A a, b \in DOMAIN l.hdr : a < b => block_end(l, a) <= b

Below(l, end) == \A b \in DOMAIN l.hdr : block_end(l, b) <= end

\* The list is a chain from heap_head to heap_tail in address order, its blocks do not
\* overlap, and they end at or before heap_curr.
ListOK == Linked(list) /\ Apart(list) /\ Below(list, heap_curr)

Used(l) == {b \in DOMAIN l.hdr : ~l.hdr[b].free}

\* The used blocks are those the callers hold, and each is at least as large as asked.
HeldBlocks ==
  /\ Used(list) = {p - HDR : p \in DOMAIN live}
  /\ \A p \in DOMAIN live : live[p].size <= list.hdr[p - HDR].size

\* The heap in use has pages behind it, also after a commit that failed half way.
CurrMapped == heap_curr <= heap_commit_end /\ heap_commit_end <= mapped

\* The heap implements the allocator its callers rely on.
Abs == INSTANCE Allocator WITH Low <- heap_base, High <- heap_end
Allocates == Abs!Spec
=============================================================================
