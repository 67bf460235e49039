------------------------------ MODULE Validator ------------------------------
(***************************************************************************)
(* eval_mm_valid() of mymalloc/validator.h: it runs a trace against a      *)
(* malloc implementation, keeps the list of the payloads that are          *)
(* allocated, and rejects the implementation at the first wrong answer.    *)
(*                                                                         *)
(* The implementation is the environment here: it may answer anything, and *)
(* a call may change every byte of the heap.  The variable honest records  *)
(* whether it has kept the contract of malloc so far, and the byte of case *)
(* REALLOC that nothing was assigned to was the filling all the time; the  *)
(* validator does not see it.  A byte of the heap is "A", the filling, or  *)
(* something else.                                                         *)
(***************************************************************************)
EXTENDS Integers, Sequences, SequencesExt

CONSTANTS
  R_ALIGNMENT,  \* config.h: 8
  HeapEnd,      \* the heap never has more bytes than this
  Ids,          \* block indices of the trace
  Sizes,        \* the sizes it asks for
  Residue,      \* what bottom_byte may hold in case REALLOC, where nothing was assigned to it
  Copies,       \* whether the realloc of the implementation copies: a subset of BOOLEAN
  Scribbles     \* whether the implementation may write anywhere in the heap

ASSUME ValidatorAssumption ==
  /\ R_ALIGNMENT \in Nat \ {0} /\ HeapEnd \in Nat
  /\ Sizes \subseteq Nat \ {0}
  /\ Copies \subseteq BOOLEAN /\ Scribbles \in BOOLEAN

Bytes == {"A", "other"}
Addrs == 0..(HeapEnd - 1)
NULL  == -1
None  == [ptr |-> NULL, size |-> 0]

VARIABLES
  ranges,   \* the range list, first element first
  blocks,   \* trace->blocks and trace->block_sizes; None once the trace freed the id
  mem,      \* the bytes of the heap
  brk,      \* heap_hi() + 1
  verdict,  \* "running", "invalid" or "crashed"
  honest

vars == <<ranges, blocks, mem, brk, verdict, honest>>

Live        == {id \in Ids : blocks[id] # None}
Extent(b)   == b.ptr..(b.ptr + b.size - 1)
Fill(m, b)  == [a \in Addrs |-> IF a \in Extent(b) THEN "A" ELSE m[a]]

-----------------------------------------------------------------------------
(* The range list.                                                         *)

\* Mutant: the last byte of a payload may be the first of another.
Overlap_Touching(lo, hi, r) == ~(r.hi <= lo \/ hi <= r.lo)
Overlap(lo, hi, r)          == ~(r.hi < lo \/ hi < r.lo)

InExtent(lo, hi, end) == 0 <= lo /\ end - 1 >= hi

\* add_range(): is the payload fine?
Acceptable(list, lo, size, end) ==
  LET hi == lo + size - 1 IN
  /\ size # 0
  /\ lo % R_ALIGNMENT = 0
  /\ InExtent(lo, hi, end)
  /\ \A i \in DOMAIN list : ~Overlap(lo, hi, list[i])

add_range(list, lo, size) == <<[lo |-> lo, hi |-> lo + size - 1]>> \o list

\* Mutant: the first record is taken whichever it is.
remove_range_First(list, lo) == Tail(list)

\* The first record that starts at lo is unlinked, if there is one.
remove_range(list, lo) ==
  LET at == {i \in DOMAIN list : list[i].lo = lo} IN
  IF at = {} THEN list ELSE RemoveAt(list, Min(at))

-----------------------------------------------------------------------------
(* The implementation.                                                     *)

\* A heap that grew, and the bytes the call left in it
Answers == {[ptr |-> p, brk |-> e, mem |-> m] :
              p \in Addrs \cup {NULL}, e \in brk..HeapEnd,
              m \in IF Scribbles THEN [Addrs -> Bytes] ELSE {mem}}

\* The contract for the bytes of the live blocks but one
Untouched(m, ids) == \A id \in ids : \A a \in Extent(blocks[id]) : m[a] = mem[a]

\* The contract for a payload handed out beside the blocks of ids
WellPlaced(p, size, end, ids) ==
  /\ p # NULL /\ p % R_ALIGNMENT = 0 /\ p + size <= end
  /\ \A id \in ids : Extent([ptr |-> p, size |-> size]) \cap Extent(blocks[id]) = {}

\* What the bytes at ans.ptr are when realloc copied the old payload there
Copied(old, ans, size) ==
  [a \in Addrs |-> IF 0 <= a - ans.ptr /\ a - ans.ptr < size /\ a - ans.ptr < old.size
                   THEN mem[old.ptr + (a - ans.ptr)] ELSE ans.mem[a]]

-----------------------------------------------------------------------------
(* The interpreter of the trace.                                           *)

Init ==
  /\ ranges = <<>> /\ blocks = [id \in Ids |-> None]
  /\ mem \in {[a \in Addrs |-> b] : b \in Bytes}
  /\ brk = 0 /\ verdict = "running" /\ honest = TRUE

Reject(m) == /\ verdict' = "invalid" /\ mem' = m
             /\ UNCHANGED <<ranges, blocks>>

Alloc(id, size) ==
  /\ verdict = "running" /\ id \notin Live
  /\ \E ans \in Answers :
       /\ brk' = ans.brk
       /\ honest' = (honest /\ WellPlaced(ans.ptr, size, ans.brk, Live) /\ Untouched(ans.mem, Live))
       /\ IF ans.ptr = NULL \/ ~Acceptable(ranges, ans.ptr, size, ans.brk)
          THEN Reject(ans.mem)
          ELSE LET b == [ptr |-> ans.ptr, size |-> size] IN
               /\ ranges' = add_range(ranges, ans.ptr, size)
               /\ mem' = Fill(ans.mem, b)
               /\ blocks' = [blocks EXCEPT ![id] = b]
               /\ UNCHANGED verdict

\* Mutant: the comparison covers the new block whether or not the old one did.
Compared_New(old, size) == size
Compared(old, size)     == IF size < old.size THEN size ELSE old.size

\* bottom_byte is declared in case ALLOC; here it holds whatever is in its place.
Realloc(id, size) ==
  /\ verdict = "running" /\ id \in Live
  /\ \E ans \in Answers, copies \in Copies, bottom_byte \in Residue :
       LET old    == blocks[id]
           others == Live \ {id}
           new    == [ptr |-> ans.ptr, size |-> size]
           bytes  == IF copies THEN Copied(old, ans, size) ELSE ans.mem
           list   == remove_range(ranges, old.ptr)
       IN
       /\ brk' = ans.brk
       /\ honest' = (honest /\ copies /\ WellPlaced(ans.ptr, size, ans.brk, others)
                            /\ Untouched(bytes, others) /\ bottom_byte = "A")
       /\ IF ans.ptr = NULL THEN Reject(bytes)
          ELSE IF ranges = <<>> THEN verdict' = "crashed" /\ UNCHANGED <<ranges, blocks, mem>>
          ELSE IF \/ ~Acceptable(list, ans.ptr, size, ans.brk)
                  \/ \E k \in 0..(Compared(old, size) - 1) : bytes[ans.ptr + k] # bottom_byte
          THEN Reject(bytes)
          ELSE /\ ranges' = add_range(list, ans.ptr, size)
               /\ mem' = [a \in Addrs |-> IF a \in Extent(new) THEN bottom_byte ELSE bytes[a]]
               /\ blocks' = [blocks EXCEPT ![id] = new]
               /\ UNCHANGED verdict

Free(id) ==
  /\ verdict = "running" /\ id \in Live
  /\ IF ranges = <<>> THEN verdict' = "crashed" /\ UNCHANGED <<ranges, blocks, mem, brk, honest>>
     ELSE \E ans \in Answers :
       /\ ranges' = remove_range(ranges, blocks[id].ptr)
       /\ blocks' = [blocks EXCEPT ![id] = None]
       /\ mem' = ans.mem /\ brk' = ans.brk
       /\ honest' = (honest /\ Untouched(ans.mem, Live \ {id}))
       /\ UNCHANGED verdict

Next == \/ \E id \in Ids, size \in Sizes : Alloc(id, size)
        \/ \E id \in Ids, size \in Sizes : Realloc(id, size)
        \/ \E id \in Ids : Free(id)

Spec == Init /\ [][Next]_vars

-----------------------------------------------------------------------------
(* Properties.                                                             *)

\* Every variable keeps its type.
TypeOK ==
  /\ ranges \in Seq([lo : Addrs, hi : Addrs])
  /\ blocks \in [Ids -> [ptr : Addrs \cup {NULL}, size : Sizes \cup {0}]]
  /\ mem \in [Addrs -> Bytes \cup Residue] /\ brk \in 0..HeapEnd
  /\ verdict \in {"running", "invalid", "crashed"} /\ honest \in BOOLEAN

\* The range list holds exactly the payloads the trace has allocated, each
\* once, so that an overlap is checked against all of them and against no
\* block that is gone (add_range, remove_range).
RangesAreLive ==
  verdict = "running" =>
    /\ {ranges[i] : i \in DOMAIN ranges}
         = {[lo |-> blocks[id].ptr, hi |-> blocks[id].ptr + blocks[id].size - 1] : id \in Live}
    /\ \A id, other \in Live : blocks[id].ptr = blocks[other].ptr => id = other
    /\ \A i, j \in DOMAIN ranges : ranges[i] = ranges[j] => i = j

\* An implementation that keeps the contract is never rejected, unless a
\* bottom_byte without a value was not the filling, and the validator itself
\* never runs off its list, whatever was freed and moved before (eval_mm_valid).
HonestNeverRejected == verdict # "running" => ~honest

\* As long as the validator is satisfied, the live payloads are aligned, in
\* the heap, and no two share a byte, whatever the implementation is.
AcceptedAreApart ==
  verdict = "running" => \A id \in Live :
    /\ blocks[id].ptr % R_ALIGNMENT = 0 /\ blocks[id].ptr + blocks[id].size <= brk
    /\ \A other \in Live \ {id} : Extent(blocks[id]) \cap Extent(blocks[other]) = {}
=============================================================================
