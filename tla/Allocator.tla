------------------------------ MODULE Allocator ------------------------------
(***************************************************************************)
(* The binned-free-list allocator of project 3 (mymalloc/allocator.c) on   *)
(* top of the simulated sbrk of mymalloc/memlib.c, driven by a client that *)
(* allocates, writes, reallocates and frees the blocks of a trace.         *)
(*                                                                         *)
(* Addresses are byte offsets from mem_heap_lo().  Memory is kept in the   *)
(* 32-bit words headers and footers are made of; a FreeList pointer takes  *)
(* two of them, the address and a cleared upper half.  A data pointer is   *)
(* at least 8, so 0 stands for NULL.  Everything the allocator knows is in *)
(* that memory, where payloads, stale words, tags and links overlap.       *)
(***************************************************************************)
EXTENDS Integers, FiniteSets

CONSTANTS
  MAX_HEAP,            \* bytes of simulated memory (config.h: 50 MB)
  MAX_BLOCK_SIZE_EXP,  \* width of a header or footer in bits (32)
  Ids,                 \* block indices of a trace; an id is also the word the client fills its block with
  Sizes,               \* request sizes in bytes
  Ops                  \* the kinds of operation that occur: those of a trace, and a new pass over it

ALIGNMENT             == 8
HEADER_SIZE           == 4
FOOTER_SIZE           == 4
FOOTER_ALLOC_FLAG     == 1
INIT_OFFSET           == 4
MIN_BLOCK_SIZE_ACTUAL == 24
MIN_BLOCK_SIZE_EXP    == 4
MIN_BLOCK_SIZE        == 16

\* 1 << k, as far as it is needed
PowerOf2[k \in 0..(MAX_BLOCK_SIZE_EXP + 1)] == IF k = 0 THEN 1 ELSE 2 * PowerOf2[k - 1]

MAX_BLOCK_SIZE        == PowerOf2[MAX_BLOCK_SIZE_EXP]
NUM_FREE_LISTS        == MAX_BLOCK_SIZE_EXP - MIN_BLOCK_SIZE_EXP
NULL                  == 0

ASSUME ExpAssumption  == MAX_BLOCK_SIZE_EXP \in Nat /\ MAX_BLOCK_SIZE_EXP > 5
ASSUME HeapAssumption == /\ MAX_HEAP \in Nat
                         /\ MAX_HEAP % ALIGNMENT = 0
                         /\ INIT_OFFSET < MAX_HEAP
                         /\ 2 * MAX_HEAP < MAX_BLOCK_SIZE
ASSUME IdsAssumption  == Ids \subseteq 1..(MAX_BLOCK_SIZE - 1)
ASSUME OpsAssumption  == Ops \subseteq {"ALLOC", "WRITE", "REALLOC", "FREE", "RESET"}
ASSUME SizesAssumption == Sizes \subseteq 1..(MAX_BLOCK_SIZE - 16)

VARIABLES
  heap,  \* the simulated memory, its break and the roots of the free lists
  live,  \* the client's view: trace->blocks and trace->block_sizes
  call   \* the my_free() in progress: where coalesce() is and its locals

vars == <<heap, live, call>>

Words    == {a \in 0..(MAX_HEAP - 4) : a % 4 = 0}
Bins     == 0..(NUM_FREE_LISTS - 1)
Uint32   == 0..(MAX_BLOCK_SIZE - 1)
Absent   == [ptr |-> NULL, size |-> 0, data |-> 0]
Idle     == [pc |-> "idle", ptr |-> NULL, block_size |-> 0, done |-> FALSE]
ALIGN(n) == ((n + (ALIGNMENT - 1)) \div ALIGNMENT) * ALIGNMENT
AtLeast(m, n) == IF m < n THEN n ELSE m
AtMost(m, n)  == IF m < n THEN m ELSE n

-----------------------------------------------------------------------------
(* memlib.c, and loads and stores.  A store outside [heap_lo, heap_hi], or *)
(* outside the array of roots, makes the heap wild: undefined behaviour,   *)
(* after which nothing is said.                                            *)

\* What a uint32_t or an unsigned int keeps of a size_t
mask_size(n) == n % MAX_BLOCK_SIZE

Load(h, a) == IF a \in Words THEN h.mem[a] ELSE 0

Store(h, a, v) ==
  IF a \in Words /\ a + 4 <= h.brk
  THEN [h EXCEPT !.mem[a] = mask_size(v)]
  ELSE [h EXCEPT !.wild = TRUE]

Root(h, i)        == IF i \in Bins THEN h.freelist[i] ELSE NULL
SetRoot(h, i, p)  == IF i \in Bins THEN [h EXCEPT !.freelist[i] = p]
                                   ELSE [h EXCEPT !.wild = TRUE]
StorePtr(h, a, p) == Store(Store(h, a, p), a + 4, 0)

\* The increment is an unsigned int.
CanGrow(h, incr)  == h.brk + mask_size(incr) <= MAX_HEAP

\* Mutant: the limit is not checked.
mem_sbrk_Unchecked(h, incr) == [h EXCEPT !.brk = @ + mask_size(incr)]

mem_sbrk(h, incr) ==
  IF CanGrow(h, incr) THEN [h EXCEPT !.brk = @ + mask_size(incr)] ELSE h
mem_reset_brk(h)  == [h EXCEPT !.brk = 0]

\* Mutant: nothing is copied, as in bad_realloc().
memcpy_Dropped(h, dst, src, n) == h

\* memcpy(dst, src, n) between two blocks that do not overlap
memcpy(h, dst, src, n) ==
  [h EXCEPT !.mem = [a \in Words |-> IF dst <= a /\ a < dst + n
                                     THEN Load(h, src + (a - dst))
                                     ELSE h.mem[a]]]

-----------------------------------------------------------------------------
(* Headers, footers and free-list nodes.                                   *)

unmask_size(v)          == IF v = 0 THEN MAX_BLOCK_SIZE ELSE v
get_header(h, p)        == unmask_size(Load(h, p - HEADER_SIZE))
Total(h, p)             == get_header(h, p) + HEADER_SIZE + FOOTER_SIZE
set_header(h, p, v)     == Store(h, p - HEADER_SIZE, v)
get_footer(h, p, n)     == unmask_size(Load(h, p + n))
set_footer(h, p, n, v)  == Store(h, p + n, v)
get_last_footer(h, p)   == unmask_size(Load(h, p - HEADER_SIZE - FOOTER_SIZE))
is_free(footer)         == footer # FOOTER_ALLOC_FLAG
is_free_block(h, p, n)  == is_free(get_footer(h, p, n))

Prev(h, p)       == Load(h, p)
Next_(h, p)      == Load(h, p + 8)
SetPrev(h, p, q) == StorePtr(h, p, q)
SetNext(h, p, q) == StorePtr(h, p + 8, q)

log_2(n) == CHOOSE k \in 0..MAX_BLOCK_SIZE_EXP : PowerOf2[k] <= n /\ n < PowerOf2[k + 1]

get_freelist_index(block_size) ==
  IF block_size = 0 THEN NUM_FREE_LISTS - 1
  ELSE IF block_size <= MIN_BLOCK_SIZE THEN 0
  ELSE log_2(block_size + 1) - MIN_BLOCK_SIZE_EXP

\* freelist_size when the search of freelist_malloc() reaches bin i
BinFloor(i) == IF i = 0 THEN MIN_BLOCK_SIZE_ACTUAL ELSE PowerOf2[MIN_BLOCK_SIZE_EXP + i]

add_to_free_list(h, p, i) ==
  LET first == Root(h, i)
      back  == IF first # NULL THEN SetPrev(h, first, p) ELSE h
  IN  SetRoot(SetNext(SetPrev(back, p, NULL), p, first), i, p)

\* Mutant: the footer is not marked free.
add_free_list_NoFooter(h, p) ==
  add_to_free_list(h, p, get_freelist_index(mask_size(Total(h, p))))

add_free_list(h, p) ==
  LET size == mask_size(get_header(h, p))
      bin  == get_freelist_index(mask_size(size + HEADER_SIZE + FOOTER_SIZE))
  IN  add_to_free_list(set_footer(h, p, size, size), p, bin)

remove_free_list(h, p) ==
  LET next == Next_(h, p)
      prev == Prev(h, p)
      bin  == get_freelist_index(mask_size(Total(h, p)))
      fwd  == IF next # NULL THEN SetPrev(h, next, prev) ELSE h
  IN  IF prev = NULL THEN SetRoot(fwd, bin, next) ELSE SetNext(fwd, prev, next)

-----------------------------------------------------------------------------
(* Allocation.  my_malloc() returns the new heap and the pointer.          *)

\* Mutant: the roots of the last pass are kept.
my_init_KeepLists(h) == mem_sbrk(h, INIT_OFFSET)

my_init(h) == mem_sbrk([h EXCEPT !.freelist = [i \in Bins |-> NULL]], INIT_OFFSET)

Splittable(excess) == excess \notin 0..(MIN_BLOCK_SIZE_ACTUAL - 1)

\* The excess is compared as an unsigned number: a negative one would be split too.
split_block(h, p, block_size) ==
  LET full_size == get_header(h, p)
      excess    == Total(h, p) - block_size
      split     == Splittable(excess)
      extra     == p + block_size
      rest      == IF split THEN add_free_list(set_header(h, extra, full_size - block_size), extra)
                            ELSE h
      returned  == IF split THEN block_size - HEADER_SIZE - FOOTER_SIZE ELSE full_size
  IN  set_footer(set_header(rest, p, returned), p, returned, FOOTER_ALLOC_FLAG)

\* Mutant: a bin whose blocks start at the requested size is passed over.
FittingBins_Strict(h, block_size) == {j \in Bins : block_size < BinFloor(j) /\ h.freelist[j] # NULL}

\* The non-empty bins all of whose blocks are large enough.
FittingBins(h, block_size) == {j \in Bins : block_size <= BinFloor(j) /\ h.freelist[j] # NULL}

freelist_malloc(h, block_size) ==
  LET fit == FittingBins(h, block_size)
      p   == Root(h, CHOOSE j \in fit : \A k \in fit : j <= k)
  IN  IF fit = {} THEN [heap |-> h, ptr |-> NULL]
      ELSE [heap |-> split_block(remove_free_list(h, p), p, block_size), ptr |-> p]

BlockSize(size) == AtLeast(MIN_BLOCK_SIZE_ACTUAL, ALIGN(size + HEADER_SIZE + FOOTER_SIZE))

LastBlockSize(h) == unmask_size(Load(h, h.brk - FOOTER_SIZE))

\* Mutant: the header and the footer the block has already are deducted again.
ExtraNeeded_Short(data_size, last) == data_size - last - HEADER_SIZE - FOOTER_SIZE
ExtraNeeded(data_size, last) == data_size - last

\* The last block of the heap is free: grow it.  The result of mem_sbrk() is not looked at.
ExtendLast(h, block_size) ==
  LET last      == LastBlockSize(h)
      p         == h.brk - FOOTER_SIZE - last
      data_size == block_size - HEADER_SIZE - FOOTER_SIZE
      grown     == mem_sbrk(remove_free_list(h, p), ExtraNeeded(data_size, last))
  IN  [heap |-> set_footer(set_header(grown, p, data_size), p, data_size, FOOTER_ALLOC_FLAG),
       ptr  |-> p]

NewBlock(h, block_size) ==
  LET p         == h.brk + HEADER_SIZE
      data_size == block_size - HEADER_SIZE - FOOTER_SIZE
  IN  IF ~CanGrow(h, block_size) THEN [heap |-> h, ptr |-> NULL]
      ELSE [heap |-> set_footer(set_header(mem_sbrk(h, block_size), p, data_size),
                                p, data_size, FOOTER_ALLOC_FLAG),
            ptr  |-> p]

my_malloc(h, size) ==
  LET block_size == BlockSize(size)
      reused     == freelist_malloc(h, block_size)
  IN  IF reused.ptr # NULL THEN reused
      ELSE IF is_free(LastBlockSize(h)) /\ block_size > LastBlockSize(h)
      THEN ExtendLast(h, block_size)
      ELSE NewBlock(h, block_size)

-----------------------------------------------------------------------------
(* The client.  live[id].data is how many bytes of its payload the client  *)
(* has written and may still expect to find there.                         *)

Init ==
  /\ heap = my_init([brk      |-> 0,
                     mem      |-> [a \in Words |-> 0],
                     freelist |-> [i \in Bins |-> NULL],
                     wild     |-> FALSE])
  /\ live = [id \in Ids |-> Absent]
  /\ call = Idle

Malloc(id, size) ==
  /\ call = Idle /\ live[id] = Absent
  /\ LET r == my_malloc(heap, size) IN
       /\ heap' = r.heap
       /\ live' = IF r.ptr = NULL THEN live
                  ELSE [live EXCEPT ![id] = [ptr |-> r.ptr, size |-> size, data |-> 0]]
  /\ UNCHANGED call

\* The client fills the whole payload.
Write(id) ==
  /\ call = Idle /\ live[id] # Absent
  /\ LET b == live[id] IN
       heap' = [heap EXCEPT !.mem = [a \in Words |-> IF b.ptr <= a /\ a + 4 <= b.ptr + b.size
                                                     THEN id ELSE heap.mem[a]]]
  /\ live' = [live EXCEPT ![id].data = live[id].size]
  /\ UNCHANGED call

\* my_free() up to the loop of coalesce()
StartFree(h, p) ==
  [pc |-> "front", ptr |-> p, done |-> TRUE,
   block_size |-> Total(h, p)]

Free(id) ==
  /\ call = Idle /\ live[id] # Absent
  /\ call' = StartFree(heap, live[id].ptr)
  /\ live' = [live EXCEPT ![id] = Absent]
  /\ UNCHANGED heap

\* The locals of coalesce() after it made one block of new_size data bytes at p
Merged(p, new_size, pc) ==
  [pc |-> pc, ptr |-> p, block_size |-> HEADER_SIZE + new_size + FOOTER_SIZE, done |-> FALSE]

Merge(h, p, new_size) == set_footer(set_header(h, p, new_size), p, new_size, new_size)

\* "Try mem block in front"
CoalesceFront ==
  /\ call.pc = "front"
  /\ LET size  == get_last_footer(heap, call.ptr)
         front == call.ptr - HEADER_SIZE - FOOTER_SIZE - size
         new   == size + call.block_size
     IN  IF 0 <= call.ptr - HEADER_SIZE - MIN_BLOCK_SIZE_ACTUAL /\ is_free(size)
         THEN /\ heap' = Merge(remove_free_list(heap, front), front, new)
              /\ call' = Merged(front, new, "back")
         ELSE /\ call' = [call EXCEPT !.pc = "back"]
              /\ UNCHANGED heap
  /\ UNCHANGED live

\* Mutant: the flag is never set.
LoopEnd_Forever == [call EXCEPT !.pc = "front", !.done = FALSE]

\* "while (!done) { done = true;"
LoopEnd == IF call.done THEN [call EXCEPT !.pc = "insert"]
                        ELSE [call EXCEPT !.pc = "front", !.done = TRUE]

\* "Try mem block behind", and the test of the loop
CoalesceBack ==
  /\ call.pc = "back"
  /\ LET behind == call.ptr + call.block_size
         size   == get_header(heap, behind)
         new    == call.block_size + size
     IN  IF /\ heap.brk - 1 >= call.ptr - HEADER_SIZE + call.block_size + MIN_BLOCK_SIZE_ACTUAL
            /\ is_free_block(heap, behind, size)
         THEN /\ heap' = Merge(remove_free_list(heap, behind), call.ptr, new)
              /\ call' = [Merged(call.ptr, new, "front") EXCEPT !.done = TRUE]
         ELSE /\ call' = LoopEnd
              /\ UNCHANGED heap
  /\ UNCHANGED live

\* add_free_list() and the return of my_free(), or of the my_realloc() it ends
InsertFree ==
  /\ call.pc = "insert"
  /\ heap' = add_free_list(heap, call.ptr)
  /\ call' = Idle
  /\ UNCHANGED live

\* my_realloc() asked for less than the block holds: the block is returned as it is.
ReallocShrink(id, size) ==
  /\ call = Idle /\ live[id] # Absent
  /\ ALIGN(size) < get_header(heap, live[id].ptr)
  /\ live' = [live EXCEPT ![id].size = size, ![id].data = AtMost(live[id].data, size)]
  /\ UNCHANGED <<heap, call>>

EndsHeap(h, p) == p + get_header(h, p) + FOOTER_SIZE - 1 = h.brk - 1

\* The block is the last of the heap: grow it.  The result of mem_sbrk() is not looked at.
ReallocLast(id, size) ==
  LET p    == live[id].ptr
      copy == get_header(heap, p)
      need == ALIGN(ALIGN(size) - copy)
  IN  /\ call = Idle /\ live[id] # Absent
      /\ ALIGN(size) >= copy /\ EndsHeap(heap, p)
      /\ heap' = set_footer(set_header(mem_sbrk(heap, need), p, copy + need),
                            p, copy + need, FOOTER_ALLOC_FLAG)
      /\ live' = [live EXCEPT ![id].size = size, ![id].data = AtMost(live[id].data, size)]
      /\ UNCHANGED call

\* Allocate, copy, and release the old block.
ReallocMove(id, size) ==
  LET p    == live[id].ptr
      copy == get_header(heap, p)
      r    == my_malloc(heap, ALIGN(size))
  IN  /\ call = Idle /\ live[id] # Absent
      /\ ALIGN(size) >= copy /\ ~EndsHeap(heap, p)
      /\ IF r.ptr = NULL
         THEN heap' = r.heap /\ UNCHANGED <<live, call>>
         ELSE LET copied == memcpy(r.heap, r.ptr, p, copy) IN
              /\ heap' = copied
              /\ call' = StartFree(copied, p)
              /\ live' = [live EXCEPT ![id] = [ptr  |-> r.ptr, size |-> size,
                                               data |-> AtMost(live[id].data, size)]]

\* mem_reset_brk() and my_init() between two passes of mdriver; memory is not cleared.
Reset ==
  /\ call = Idle
  /\ heap' = my_init(mem_reset_brk(heap))
  /\ live' = [id \in Ids |-> Absent]
  /\ UNCHANGED call

Running == CoalesceFront \/ CoalesceBack \/ InsertFree

Next ==
  /\ ~heap.wild
  /\ \/ Running
     \/ "ALLOC" \in Ops   /\ \E id \in Ids, size \in Sizes : Malloc(id, size)
     \/ "WRITE" \in Ops   /\ \E id \in Ids : Write(id)
     \/ "FREE" \in Ops    /\ \E id \in Ids : Free(id)
     \/ "REALLOC" \in Ops /\ \E id \in Ids, size \in Sizes :
                              \/ ReallocShrink(id, size)
                              \/ ReallocLast(id, size)
                              \/ ReallocMove(id, size)
     \/ "RESET" \in Ops   /\ Reset

\* A call that was made runs to its return.
Fairness == WF_vars(~heap.wild /\ Running)

Spec == Init /\ [][Next]_vars
FairSpec == Spec /\ Fairness
-----------------------------------------------------------------------------
(* What the words of the heap mean.                                        *)

\* A bound on the blocks of a heap, and on the nodes of its free lists
MaxBlocks == MAX_HEAP \div MIN_BLOCK_SIZE_ACTUAL

\* What is reached from first along next, in as many steps as there may be blocks
Reachable(first, next) ==
  LET reach[n \in 0..MaxBlocks] ==
        IF n = 0 THEN {first} ELSE reach[n - 1] \cup {next[p] : p \in reach[n - 1] \cap DOMAIN next}
  IN  reach[MaxBlocks]

\* The walk of my_check() along the headers, one past the heap included
HeaderWalk(h) == Reachable(INIT_OFFSET + HEADER_SIZE, [p \in 0..(h.brk - 1) |-> p + Total(h, p)])

Blocks(h) == {p \in HeaderWalk(h) : p < h.brk}

\* The nodes on the list of bin i, found along the next pointers
FreeList(h, i) == Reachable(h.freelist[i], [p \in Words \ {NULL} |-> Next_(h, p)]) \ {NULL}

FreeNodes(h) == UNION {FreeList(h, i) : i \in Bins}

LivePtrs == {live[id].ptr : id \in {i \in Ids : live[i] # Absent}}

\* The block a my_free() in progress holds: in no free list, not the client's
InHand == IF call = Idle THEN {} ELSE {call.ptr}

FreeFooter(h, p) == is_free_block(h, p, get_header(h, p))

-----------------------------------------------------------------------------
(* Properties.                                                             *)

Holdings == [ptr : Int, size : {0} \cup Sizes, data : {0} \cup Sizes]
Calls == [pc : {"idle", "front", "back", "insert"}, ptr : Int, block_size : Nat, done : BOOLEAN]
Heaps == [brk : 0..MAX_HEAP, mem : [Words -> Uint32], freelist : [Bins -> Int], wild : BOOLEAN]

\* Every variable keeps its type; heap words stay 32 bits wide, and the
\* break never passes the memory there is (mem_sbrk).
TypeOK ==
  /\ heap \in Heaps
  /\ live \in [Ids -> Holdings]
  /\ call \in Calls

\* my_check() returns 0 between any two steps, inside my_free() too: the
\* headers lead exactly to the end of the heap and every free-list node is
\* the prev of its next (allocator.c, my_check and my_check_freelists).
CheckPasses ==
  heap.wild \/
  /\ HeaderWalk(heap) \ Blocks(heap) = {heap.brk + HEADER_SIZE}
  /\ \A p \in FreeNodes(heap) : Next_(heap, p) # NULL => Prev(heap, Next_(heap, p)) = p

\* No byte is lost or owned twice: each block of the heap is exactly one of a
\* client's block, a free-list node, or the block being freed (my_malloc,
\* split_block, coalesce, my_realloc).
Accounted ==
  heap.wild \/
  /\ Blocks(heap) = LivePtrs \cup FreeNodes(heap) \cup InHand
  /\ LivePtrs \cap FreeNodes(heap) = {}
  /\ InHand \cap (LivePtrs \cup FreeNodes(heap)) = {}
  /\ \A id, other \in Ids : live[id].ptr = live[other].ptr /\ id # other => live[id] = Absent

\* A footer says free exactly for the blocks of the free lists, whatever the
\* client wrote, and repeats the header there; and each free block is in the
\* bin its total size belongs to, and in no other (is_free, get_freelist_index).
TagsAndBinsAgree ==
  heap.wild \/
  /\ \A p \in LivePtrs : ~FreeFooter(heap, p)
  /\ \A i \in Bins : \A p \in FreeList(heap, i) :
       /\ get_footer(heap, p, get_header(heap, p)) = get_header(heap, p)
       /\ i = get_freelist_index(Total(heap, p))

\* The bookkeeping of the heap tells one story: its blocks, the free lists, the
\* footers and the bins.
Consistent == Accounted /\ TagsAndBinsAgree

\* Every payload is aligned, inside the heap and the block, apart from every
\* other, and still holds every byte its client wrote, across the frees,
\* splits and reallocs of its neighbours (validator.h, add_range and the
\* comparison after realloc).
LiveIntact ==
  heap.wild \/ \A id \in Ids : live[id] # Absent =>
    LET b == live[id] IN
    /\ b.ptr % ALIGNMENT = 0
    /\ b.size <= get_header(heap, b.ptr) /\ b.ptr + b.size <= heap.brk
    /\ \A other \in Ids \ {id} : live[other] # Absent =>
         b.ptr + b.size <= live[other].ptr \/ live[other].ptr + live[other].size <= b.ptr
    /\ \A a \in Words : b.ptr <= a /\ a + 4 <= b.ptr + b.data => heap.mem[a] = id

\* Between calls two neighbouring blocks are never both free, unless the
\* second is a block of the minimum size that ends the heap: coalesce() does
\* not look at that one.
CoalescedButTail ==
  heap.wild \/ call # Idle \/ \A p \in FreeNodes(heap) :
    LET behind == p + Total(heap, p) IN
    behind \in FreeNodes(heap) =>
      Total(heap, behind) = MIN_BLOCK_SIZE_ACTUAL /\ behind + MIN_BLOCK_SIZE_ACTUAL = heap.brk + HEADER_SIZE

\* A step in which my_malloc() answered for id
Allocates(id) == call = Idle /\ live[id].ptr # live'[id].ptr /\ live'[id].ptr # NULL

\* my_malloc() takes memory from the system only when no free block is in a
\* bin of blocks that are all large enough, judged by the tags in the heap
\* and not by the lists (freelist_malloc).
GrowsForLackOfBins ==
  [][\A id \in Ids, p \in Blocks(heap) :
       Allocates(id) /\ heap'.brk > heap.brk /\ FreeFooter(heap, p)
         => BinFloor(get_freelist_index(Total(heap, p))) < BlockSize(live'[id].size)]_vars

\* The step is a client's request for size bytes
Requests(id, size) == Malloc(id, size) \/ ReallocLast(id, size) \/ ReallocMove(id, size)

\* Nothing is ever stored outside the heap but by a request the memory cannot
\* meet: what remains of it is too little for a block of just the size that is
\* asked for (the unchecked mem_sbrk() of my_malloc and my_realloc; nowhere else).
WildOnlyWhenExhausted ==
  [][~heap.wild /\ heap'.wild
       => \E id \in Ids, size \in Sizes :
            Requests(id, size) /\ heap.brk + BlockSize(size) > MAX_HEAP]_vars

\* A block as its client finds it: its data counts only while it is all there.
Found(id) ==
  LET b == live[id] IN
  IF \A a \in Words : b.ptr <= a /\ a + 4 <= b.ptr + b.data => heap.mem[a] = id
  THEN b ELSE [b EXCEPT !.data = 0]

Pool == INSTANCE BlockPool WITH
          PoolSize  <- MAX_HEAP,
          Alignment <- ALIGNMENT,
          owed      <- [id \in Ids |-> Found(id)],
          undefined <- heap.wild

\* The allocator keeps the promises of BlockPool: each operation is one of
\* the pool's or none of its client's business.
ImplementsPool == Pool!Spec

\* Every my_free() returns: the loop of coalesce() runs out of neighbours.
FreeReturns == (call # Idle) ~> (call = Idle \/ heap.wild)
=============================================================================
