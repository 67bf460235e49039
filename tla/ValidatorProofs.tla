--------------------------- MODULE ValidatorProofs ---------------------------
(***************************************************************************)
(* Theorems about Validator, for every heap, trace and implementation: the *)
(* verdicts of eval_mm_valid() can be relied on both ways.                 *)
(***************************************************************************)
EXTENDS Validator, SequenceTheorems, TLAPS

-----------------------------------------------------------------------------
(* The range list.                                                         *)

RangeSet == [lo : Addrs, hi : Addrs]
Elements(list) == {list[i] : i \in DOMAIN list}
Once(list) == \A i, j \in DOMAIN list : list[i] = list[j] => i = j

LEMMA FindOnly ==
  ASSUME NEW list \in Seq(RangeSet), NEW lo, NEW k \in DOMAIN list,
         \A i \in DOMAIN list : list[i].lo = lo <=> i = k
  PROVE  remove_range(list, lo) = RemoveAt(list, k)
<1>1. {i \in DOMAIN list : list[i].lo = lo} = {k}
  OBVIOUS
<1>2. Min({k}) = k
  BY DEF Min
<1>3. QED
  BY <1>1, <1>2 DEF remove_range

LEMMA RemoveOne ==
  ASSUME NEW list \in Seq(RangeSet), NEW k \in DOMAIN list, Once(list)
  PROVE  /\ RemoveAt(list, k) \in Seq(RangeSet)
         /\ Elements(RemoveAt(list, k)) = Elements(list) \ {list[k]}
         /\ Once(RemoveAt(list, k))
<1> DEFINE short == RemoveAt(list, k)
<1>1. /\ short \in Seq(RangeSet) /\ Len(short) = Len(list) - 1
      /\ \A i \in 1..Len(short) : short[i] = IF i < k THEN list[i] ELSE list[i + 1]
  <2> DEFINE front == SubSeq(list, 1, k - 1)
             back  == SubSeq(list, k + 1, Len(list))
  <2>1. Len(list) \in Nat /\ k \in 1..Len(list) /\ \A i \in 1..Len(list) : list[i] \in RangeSet
    BY LenProperties, ElementOfSeq
  <2>2. /\ front \in Seq(RangeSet) /\ Len(front) = k - 1
        /\ \A i \in 1..(k - 1) : front[i] = list[i]
    BY <2>1, SubSeqProperties
  <2>3. /\ back \in Seq(RangeSet) /\ Len(back) = Len(list) - k
        /\ \A i \in 1..(Len(list) - k) : back[i] = list[k + i]
    BY <2>1, SubSeqProperties
  <2>4. short = front \o back
    BY DEF RemoveAt
  <2> HIDE DEF front, back, short
  <2>5. /\ short \in Seq(RangeSet) /\ Len(short) = Len(front) + Len(back)
        /\ \A i \in 1..(Len(front) + Len(back)) :
             short[i] = IF i <= Len(front) THEN front[i] ELSE back[i - Len(front)]
    BY <2>2, <2>3, <2>4, ConcatProperties
  <2>6. Len(short) = Len(list) - 1
    BY <2>1, <2>2, <2>3, <2>5
  <2>7. ASSUME NEW i \in 1..Len(short) PROVE short[i] = IF i < k THEN list[i] ELSE list[i + 1]
    <3>1. CASE i < k
      BY <2>1, <2>2, <2>5, <3>1
    <3>2. CASE i >= k
      <4>1. short[i] = back[i - (k - 1)] /\ i - (k - 1) \in 1..(Len(list) - k)
        BY <2>1, <2>2, <2>3, <2>5, <2>6, <3>2
      <4>2. k + (i - (k - 1)) = i + 1
        BY <2>1
      <4>3. QED
        BY <2>1, <2>3, <3>2, <4>1, <4>2
    <3>3. QED
      BY <2>1, <3>1, <3>2
  <2>8. QED
    BY <2>5, <2>6, <2>7
<1> HIDE DEF short
<1>2. DOMAIN short = 1..(Len(list) - 1) /\ DOMAIN list = 1..Len(list) /\ Len(list) \in Nat
  BY <1>1
<1>3. Elements(short) = Elements(list) \ {list[k]}
  <2>1. ASSUME NEW i \in DOMAIN short PROVE short[i] \in Elements(list) \ {list[k]}
    BY <1>1, <1>2 DEF Elements, Once
  <2>2. ASSUME NEW j \in DOMAIN list, j # k PROVE list[j] \in Elements(short)
    <3>1. CASE j < k
      BY <3>1, <1>1, <1>2 DEF Elements
    <3>2. CASE j > k
      <4>1. j - 1 \in DOMAIN short /\ short[j - 1] = list[j]
        BY <3>2, <1>1, <1>2
      <4>2. QED
        BY <4>1 DEF Elements
    <3>3. QED
      BY <3>1, <3>2, <2>2, <1>2
  <2>3. QED
    BY <2>1, <2>2 DEF Elements
<1>4. Once(short)
  BY <1>1, <1>2 DEF Once
<1>5. QED
  BY <1>1, <1>3, <1>4 DEF short

LEMMA AddOne ==
  ASSUME NEW list \in Seq(RangeSet), NEW lo, NEW size,
         [lo |-> lo, hi |-> lo + size - 1] \in RangeSet \ Elements(list), Once(list)
  PROVE  /\ add_range(list, lo, size) \in Seq(RangeSet)
         /\ Elements(add_range(list, lo, size)) = Elements(list) \cup {[lo |-> lo, hi |-> lo + size - 1]}
         /\ Once(add_range(list, lo, size))
<1> DEFINE r == [lo |-> lo, hi |-> lo + size - 1]
           long == <<r>> \o list
<1> HIDE DEF r
<1>0. r \in RangeSet /\ r \notin Elements(list)
  BY DEF r
<1>1. /\ long \in Seq(RangeSet) /\ Len(long) = Len(list) + 1
      /\ \A i \in 1..Len(long) : long[i] = IF i = 1 THEN r ELSE list[i - 1]
  BY <1>0
<1> HIDE DEF long
<1>2. DOMAIN long = 1..(Len(list) + 1) /\ DOMAIN list = 1..Len(list) /\ Len(list) \in Nat
  BY <1>1
<1>3. Elements(long) = Elements(list) \cup {r}
  <2>1. ASSUME NEW i \in DOMAIN long PROVE long[i] \in Elements(list) \cup {r}
    BY <1>1, <1>2 DEF Elements
  <2>2. ASSUME NEW j \in DOMAIN list PROVE list[j] \in Elements(long)
    <3>1. j + 1 \in DOMAIN long /\ long[j + 1] = list[j]
      BY <1>1, <1>2
    <3>2. QED
      BY <3>1 DEF Elements
  <2>3. r \in Elements(long)
    <3>1. 1 \in DOMAIN long /\ long[1] = r
      BY <1>1, <1>2
    <3>2. QED
      BY <3>1 DEF Elements
  <2>4. QED
    BY <2>1, <2>2, <2>3 DEF Elements
<1>4. Once(long)
  <2>1. \A i \in DOMAIN long : i = 1 \/ (i - 1 \in DOMAIN list /\ long[i] = list[i - 1])
    BY <1>1, <1>2
  <2>2. \A i \in DOMAIN list : list[i] # r
    BY <1>0 DEF Elements
  <2>3. 1 \in DOMAIN long /\ long[1] = r
    BY <1>1, <1>2
  <2>4. ASSUME NEW i \in DOMAIN long, NEW j \in DOMAIN long, long[i] = long[j]
        PROVE  i = j
    <3>1. CASE i = 1 \/ j = 1
      BY <3>1, <2>1, <2>2, <2>3, <2>4
    <3>2. CASE i # 1 /\ j # 1
      <4>1. i - 1 = j - 1
        BY <3>2, <2>1, <2>4 DEF Once
      <4>2. QED
        BY <4>1, <1>2
    <3>3. QED
      BY <3>1, <3>2
  <2>5. QED
    BY <2>4 DEF Once
<1>5. QED
  BY <1>1, <1>3, <1>4 DEF add_range, r, long

-----------------------------------------------------------------------------
(* What the validator knows while it is satisfied.  AcceptedAreApart alone *)
(* is not inductive: add_range() compares with the list, so the list must  *)
(* be the record of the live blocks.                                       *)

Blocks == [ptr : Addrs \cup {NULL}, size : Sizes \cup {0}]
Record(b) == [lo |-> b.ptr, hi |-> b.ptr + b.size - 1]
LiveOf(blk) == {id \in Ids : blk[id] # None}

Placed(b, end) ==
  /\ b.ptr \in Addrs /\ b.size \in Sizes
  /\ b.ptr % R_ALIGNMENT = 0 /\ b.ptr + b.size <= end

Apart(b, c) == b.ptr + b.size <= c.ptr \/ c.ptr + c.size <= b.ptr

Agrees(list, blk, end) ==
  /\ list \in Seq(RangeSet) /\ Once(list)
  /\ Elements(list) = {Record(blk[id]) : id \in LiveOf(blk)}
  /\ \A id \in LiveOf(blk) : Placed(blk[id], end)
  /\ \A id, other \in LiveOf(blk) : id # other => Apart(blk[id], blk[other])

IInv == TypeOK /\ (verdict = "running" => Agrees(ranges, blocks, brk))

LEMMA PlacedType ==
  ASSUME NEW b, NEW end, Placed(b, end)
  PROVE  b.ptr \in Nat /\ b.size \in Nat /\ b.size > 0
<1>1. b.size \in Nat \ {0}
  BY ValidatorAssumption DEF Placed
<1>2. b.ptr \in Nat
  BY ValidatorAssumption DEF Placed, Addrs
<1>3. QED
  BY <1>1, <1>2

\* A heap that grows takes nothing away.
LEMMA AgreesGrown ==
  ASSUME NEW list, NEW blk, NEW end \in 0..HeapEnd, NEW grown \in end..HeapEnd,
         Agrees(list, blk, end)
  PROVE  Agrees(list, blk, grown)
<1>1. ASSUME NEW b, Placed(b, end) PROVE Placed(b, grown)
  <2>1. b.ptr + b.size <= grown
    BY <1>1, PlacedType, ValidatorAssumption DEF Placed
  <2>2. QED
    BY <1>1, <2>1 DEF Placed
<1>2. QED
  BY <1>1 DEF Agrees

\* Live blocks that are apart start at different addresses.
LEMMA StartsDiffer ==
  ASSUME NEW list, NEW blk, NEW end \in 0..HeapEnd, Agrees(list, blk, end),
         NEW id \in LiveOf(blk), NEW other \in LiveOf(blk), blk[id].ptr = blk[other].ptr
  PROVE  id = other
<1>1. Placed(blk[id], end) /\ Placed(blk[other], end)
  BY DEF Agrees
<1>2. ~Apart(blk[id], blk[other])
  BY <1>1, PlacedType DEF Apart
<1>3. QED
  BY <1>2 DEF Agrees

LEMMA AgreesRemove ==
  ASSUME NEW list, NEW blk \in [Ids -> Blocks], NEW end \in 0..HeapEnd, Agrees(list, blk, end),
         NEW id \in LiveOf(blk)
  PROVE  /\ list # <<>>
         /\ Agrees(remove_range(list, blk[id].ptr), [blk EXCEPT ![id] = None], end)
<1> DEFINE rest == [blk EXCEPT ![id] = None]
<1>1. PICK k \in DOMAIN list : list[k] = Record(blk[id])
  BY DEF Agrees, Elements
<1>2. list \in Seq(RangeSet) /\ Once(list)
  BY DEF Agrees
<1>3. ASSUME NEW i \in DOMAIN list, list[i].lo = blk[id].ptr PROVE i = k
  <2>1. PICK other \in LiveOf(blk) : list[i] = Record(blk[other])
    BY DEF Agrees, Elements
  <2>2. other = id
    BY <1>3, <2>1, StartsDiffer DEF Record
  <2>3. QED
    BY <1>1, <1>2, <2>1, <2>2 DEF Once
<1>4. remove_range(list, blk[id].ptr) = RemoveAt(list, k)
  <2>1. \A i \in DOMAIN list : list[i].lo = blk[id].ptr <=> i = k
    BY <1>1, <1>3 DEF Record
  <2>2. QED
    BY <1>2, <2>1, FindOnly
<1>5. LiveOf(rest) = LiveOf(blk) \ {id} /\ \A i \in LiveOf(rest) : rest[i] = blk[i]
  BY DEF LiveOf
<1>6. Elements(RemoveAt(list, k)) = {Record(rest[i]) : i \in LiveOf(rest)}
  <2>1. Elements(RemoveAt(list, k)) = {Record(blk[i]) : i \in LiveOf(blk)} \ {Record(blk[id])}
    BY <1>1, <1>2, RemoveOne DEF Agrees
  <2>2. \A i \in LiveOf(blk) : Record(blk[i]) = Record(blk[id]) => i = id
    BY StartsDiffer DEF Record
  <2>3. QED
    BY <1>5, <2>1, <2>2
<1>7. Agrees(RemoveAt(list, k), rest, end)
  BY <1>1, <1>2, <1>5, <1>6, RemoveOne DEF Agrees
<1>8. QED
  BY <1>1, <1>4, <1>7

LEMMA AgreesAdd ==
  ASSUME NEW list, NEW blk \in [Ids -> Blocks], NEW end \in 0..HeapEnd, Agrees(list, blk, end),
         NEW id \in Ids, blk[id] = None, NEW ptr \in Addrs \cup {NULL}, NEW size \in Sizes,
         Acceptable(list, ptr, size, end)
  PROVE  /\ ptr \in Addrs
         /\ Agrees(add_range(list, ptr, size), [blk EXCEPT ![id] = [ptr |-> ptr, size |-> size]], end)
<1> DEFINE b    == [ptr |-> ptr, size |-> size]
           more == [blk EXCEPT ![id] = b]
<1>1. b # None /\ b.ptr = ptr /\ b.size = size
  BY ValidatorAssumption DEF None
<1>2. LiveOf(more) = LiveOf(blk) \cup {id} /\ id \notin LiveOf(blk)
  BY <1>1 DEF LiveOf
<1>3. more[id] = b /\ \A i \in LiveOf(blk) : more[i] = blk[i]
  BY <1>2 DEF LiveOf
<1>4. ptr \in Addrs /\ Placed(b, end)
  BY <1>1, ValidatorAssumption DEF Acceptable, InExtent, Placed, Addrs, NULL
<1>5. ASSUME NEW i \in LiveOf(blk) PROVE Apart(b, blk[i]) /\ Record(blk[i]) # Record(b)
  <2>1. PICK k \in DOMAIN list : list[k] = Record(blk[i])
    BY DEF Agrees, Elements
  <2>2. ~Overlap(ptr, ptr + size - 1, Record(blk[i]))
    BY <2>1 DEF Acceptable
  <2>3. Placed(blk[i], end)
    BY DEF Agrees
  <2>4. /\ ptr \in Int /\ size \in Int /\ size > 0
        /\ blk[i].ptr \in Int /\ blk[i].size \in Int /\ blk[i].size > 0
    BY <1>1, <1>4, <2>3, PlacedType
  <2>5. ptr + size - 1 < blk[i].ptr \/ blk[i].ptr + blk[i].size - 1 < ptr
    BY <2>2 DEF Overlap, Record
  <2>6. QED
    BY <1>1, <2>4, <2>5 DEF Apart, Record
<1>6. Record(b) = [lo |-> ptr, hi |-> ptr + size - 1] /\ Record(b) \in RangeSet
  BY <1>1, <1>4, ValidatorAssumption DEF Record, RangeSet, Placed, Addrs
<1>7. Record(b) \notin Elements(list)
  BY <1>5 DEF Agrees
<1>8. /\ add_range(list, ptr, size) \in Seq(RangeSet) /\ Once(add_range(list, ptr, size))
      /\ Elements(add_range(list, ptr, size)) = Elements(list) \cup {Record(b)}
  BY <1>6, <1>7, AddOne DEF Agrees
<1>9. Elements(add_range(list, ptr, size)) = {Record(more[i]) : i \in LiveOf(more)}
  <2>1. {Record(more[i]) : i \in LiveOf(more)} = {Record(blk[i]) : i \in LiveOf(blk)} \cup {Record(b)}
    BY <1>2, <1>3
  <2>2. QED
    BY <1>8, <2>1 DEF Agrees
<1>10. \A i, j \in LiveOf(more) : i # j => Apart(more[i], more[j])
  <2>1. \A i \in LiveOf(blk) : Apart(b, blk[i]) /\ Apart(blk[i], b)
    BY <1>5 DEF Apart
  <2>2. QED
    BY <1>2, <1>3, <2>1 DEF Agrees
<1>11. \A i \in LiveOf(more) : Placed(more[i], end)
  BY <1>2, <1>3, <1>4 DEF Agrees
<1>12. QED
  BY <1>4, <1>8, <1>9, <1>10, <1>11 DEF Agrees

-----------------------------------------------------------------------------
(* The steps of eval_mm_valid().                                           *)

MemType == [Addrs -> Bytes \cup Residue]

LEMMA AnswerType ==
  ASSUME TypeOK, NEW ans \in Answers
  PROVE  /\ ans.ptr \in Addrs \cup {NULL}
         /\ ans.brk \in brk..HeapEnd /\ ans.brk \in 0..HeapEnd
         /\ ans.mem \in MemType
<1>1. PICK p \in Addrs \cup {NULL}, e \in brk..HeapEnd, m \in IF Scribbles THEN [Addrs -> Bytes] ELSE {mem} :
        ans = [ptr |-> p, brk |-> e, mem |-> m]
  BY DEF Answers
<1>2. m \in MemType
  BY DEF TypeOK, MemType
<1>3. e \in 0..HeapEnd
  BY ValidatorAssumption DEF TypeOK
<1>4. QED
  BY <1>1, <1>2, <1>3

LEMMA AllocStep ==
  ASSUME IInv, NEW id \in Ids, NEW size \in Sizes, Alloc(id, size)
  PROVE  IInv'
<1>1. PICK ans \in Answers :
        /\ brk' = ans.brk /\ honest' \in BOOLEAN
        /\ IF ans.ptr = NULL \/ ~Acceptable(ranges, ans.ptr, size, ans.brk)
           THEN Reject(ans.mem)
           ELSE LET b == [ptr |-> ans.ptr, size |-> size] IN
                /\ ranges' = add_range(ranges, ans.ptr, size)
                /\ mem' = Fill(ans.mem, b)
                /\ blocks' = [blocks EXCEPT ![id] = b]
                /\ UNCHANGED verdict
  <2>1. honest \in BOOLEAN
    BY DEF IInv, TypeOK
  <2>2. QED
    BY <2>1 DEF Alloc
<1>2. /\ ans.ptr \in Addrs \cup {NULL}
      /\ ans.brk \in brk..HeapEnd /\ ans.brk \in 0..HeapEnd
      /\ ans.mem \in MemType
  BY AnswerType DEF IInv
<1>3. CASE ans.ptr = NULL \/ ~Acceptable(ranges, ans.ptr, size, ans.brk)
  BY <1>1, <1>2, <1>3 DEF IInv, TypeOK, Reject, MemType
<1>4. CASE ~(ans.ptr = NULL \/ ~Acceptable(ranges, ans.ptr, size, ans.brk))
  <2> DEFINE b == [ptr |-> ans.ptr, size |-> size]
  <2>1. verdict = "running" /\ blocks[id] = None
    BY DEF Alloc, Live
  <2>2. Agrees(ranges, blocks, ans.brk)
    BY <1>2, <2>1, AgreesGrown DEF IInv, TypeOK
  <2>3. ans.ptr \in Addrs /\ Agrees(add_range(ranges, ans.ptr, size), [blocks EXCEPT ![id] = b], ans.brk)
    BY <1>2, <1>4, <2>1, <2>2, AgreesAdd DEF IInv, TypeOK, Blocks
  <2>4. Agrees(ranges', blocks', brk')
    BY <1>1, <1>4, <2>3
  <2>5. mem' \in MemType
    <3>1. mem' = Fill(ans.mem, b)
      BY <1>1, <1>4
    <3>2. QED
      BY <1>2, <3>1 DEF Fill, MemType, Bytes
  <2>6. blocks' \in [Ids -> Blocks]
    <3>1. b \in Blocks
      BY <2>3 DEF Blocks
    <3>2. QED
      BY <1>1, <1>4, <3>1 DEF IInv, TypeOK, Blocks
  <2>7. ranges' \in Seq(RangeSet)
    BY <2>4 DEF Agrees
  <2>8. QED
    BY <1>1, <1>2, <1>4, <2>4, <2>5, <2>6, <2>7 DEF IInv, TypeOK, Blocks, MemType, RangeSet
<1>5. QED
  BY <1>3, <1>4

\* A payload moves: its record goes before the new place is looked at.
LEMMA ReallocStep ==
  ASSUME IInv, NEW id \in Ids, NEW size \in Sizes, Realloc(id, size)
  PROVE  IInv'
<1> DEFINE old           == blocks[id]
           bytes(ans, c) == IF c THEN Copied(old, ans, size) ELSE ans.mem
           list          == remove_range(ranges, old.ptr)
           new(ans)      == [ptr |-> ans.ptr, size |-> size]
<1>1. PICK ans \in Answers, copies \in Copies, bottom_byte \in Residue :
        /\ brk' = ans.brk /\ honest' \in BOOLEAN
        /\ IF ans.ptr = NULL THEN Reject(bytes(ans, copies))
           ELSE IF ranges = <<>> THEN verdict' = "crashed" /\ UNCHANGED <<ranges, blocks, mem>>
           ELSE IF \/ ~Acceptable(list, ans.ptr, size, ans.brk)
                   \/ \E k \in 0..(Compared(old, size) - 1) : bytes(ans, copies)[ans.ptr + k] # bottom_byte
           THEN Reject(bytes(ans, copies))
           ELSE /\ ranges' = add_range(list, ans.ptr, size)
                /\ mem' = [a \in Addrs |-> IF a \in Extent(new(ans)) THEN bottom_byte ELSE bytes(ans, copies)[a]]
                /\ blocks' = [blocks EXCEPT ![id] = new(ans)]
                /\ UNCHANGED verdict
  <2>1. honest \in BOOLEAN /\ Copies \subseteq BOOLEAN
    BY ValidatorAssumption DEF IInv, TypeOK
  <2>2. QED
    BY <2>1 DEF Realloc
<1>2. /\ ans.ptr \in Addrs \cup {NULL}
      /\ ans.brk \in brk..HeapEnd /\ ans.brk \in 0..HeapEnd
      /\ ans.mem \in MemType
  BY AnswerType DEF IInv
<1>3. verdict = "running" /\ id \in LiveOf(blocks) /\ blocks \in [Ids -> Blocks]
  BY DEF Realloc, Live, LiveOf, IInv, TypeOK, Blocks
<1>4. bytes(ans, copies) \in MemType
  <2>1. Placed(old, brk)
    BY <1>3 DEF IInv, Agrees
  <2>2. ASSUME NEW a \in Addrs, 0 <= a - ans.ptr, a - ans.ptr < old.size
        PROVE  mem[old.ptr + (a - ans.ptr)] \in Bytes \cup Residue
    <3>1. old.ptr + (a - ans.ptr) \in Addrs
      <4>1. old.ptr + old.size <= HeapEnd /\ brk \in Int /\ HeapEnd \in Nat
        BY <2>1, PlacedType, ValidatorAssumption DEF Placed, IInv, TypeOK
      <4>2. ans.ptr \in Int /\ a \in Int
        BY <1>2 DEF Addrs, NULL
      <4>3. QED
        BY <2>1, <2>2, <4>1, <4>2, PlacedType DEF Addrs
    <3>2. QED
      BY <3>1 DEF IInv, TypeOK
  <2>3. Copied(old, ans, size) \in MemType
    BY <1>2, <2>2 DEF Copied, MemType
  <2>4. QED
    BY <1>2, <2>3
<1> HIDE DEF bytes, list
<1>5. CASE ans.ptr = NULL
  BY <1>1, <1>2, <1>4, <1>5 DEF IInv, TypeOK, Reject, MemType
<1>6. CASE ranges = <<>> /\ ans.ptr # NULL
  BY <1>1, <1>2, <1>6 DEF IInv, TypeOK
<1>7. CASE /\ ranges # <<>> /\ ans.ptr # NULL
           /\ \/ ~Acceptable(list, ans.ptr, size, ans.brk)
              \/ \E k \in 0..(Compared(old, size) - 1) : bytes(ans, copies)[ans.ptr + k] # bottom_byte
  BY <1>1, <1>2, <1>4, <1>7 DEF IInv, TypeOK, Reject, MemType
<1>8. CASE /\ ranges # <<>> /\ ans.ptr # NULL
           /\ Acceptable(list, ans.ptr, size, ans.brk)
           /\ ~\E k \in 0..(Compared(old, size) - 1) : bytes(ans, copies)[ans.ptr + k] # bottom_byte
  <2> DEFINE without == [blocks EXCEPT ![id] = None]
  <2>1. /\ ranges' = add_range(list, ans.ptr, size)
        /\ mem' = [a \in Addrs |-> IF a \in Extent(new(ans)) THEN bottom_byte ELSE bytes(ans, copies)[a]]
        /\ blocks' = [blocks EXCEPT ![id] = new(ans)]
        /\ UNCHANGED verdict
    BY <1>1, <1>8
  <2>2. Agrees(list, without, ans.brk)
    <3>1. Agrees(list, without, brk)
      BY <1>3, AgreesRemove DEF IInv, TypeOK, list
    <3>2. QED
      BY <1>2, <3>1, AgreesGrown DEF IInv, TypeOK
  <2>3. without \in [Ids -> Blocks] /\ without[id] = None
    BY <1>3 DEF Blocks, None
  <2>4. /\ ans.ptr \in Addrs
        /\ Agrees(add_range(list, ans.ptr, size), [without EXCEPT ![id] = new(ans)], ans.brk)
    BY <1>2, <1>8, <2>2, <2>3, AgreesAdd
  <2>5. [without EXCEPT ![id] = new(ans)] = [blocks EXCEPT ![id] = new(ans)]
    BY <1>3
  <2>6. Agrees(ranges', blocks', brk')
    BY <1>1, <2>1, <2>4, <2>5
  <2>7. mem' \in MemType
    BY <1>4, <2>1 DEF MemType
  <2>8. blocks' \in [Ids -> Blocks]
    <3>1. new(ans) \in Blocks
      BY <2>4 DEF Blocks
    <3>2. QED
      BY <1>3, <2>1, <3>1
  <2>9. ranges' \in Seq(RangeSet)
    BY <2>6 DEF Agrees
  <2>10. QED
    BY <1>1, <1>2, <2>1, <2>6, <2>7, <2>8, <2>9 DEF IInv, TypeOK, Blocks, MemType, RangeSet
<1>9. QED
  BY <1>5, <1>6, <1>7, <1>8

LEMMA FreeStep ==
  ASSUME IInv, NEW id \in Ids, Free(id)
  PROVE  IInv'
<1>1. verdict = "running" /\ id \in LiveOf(blocks) /\ blocks \in [Ids -> Blocks]
  BY DEF Free, Live, LiveOf, IInv, TypeOK, Blocks
<1>2. /\ ranges # <<>>
      /\ Agrees(remove_range(ranges, blocks[id].ptr), [blocks EXCEPT ![id] = None], brk)
  BY <1>1, AgreesRemove DEF IInv, TypeOK
<1>3. PICK ans \in Answers :
        /\ ranges' = remove_range(ranges, blocks[id].ptr)
        /\ blocks' = [blocks EXCEPT ![id] = None]
        /\ mem' = ans.mem /\ brk' = ans.brk /\ honest' \in BOOLEAN /\ UNCHANGED verdict
  <2>1. honest \in BOOLEAN
    BY DEF IInv, TypeOK
  <2>2. QED
    BY <1>2, <2>1 DEF Free
<1>4. /\ ans.brk \in brk..HeapEnd /\ ans.brk \in 0..HeapEnd /\ ans.mem \in MemType
  BY AnswerType DEF IInv
<1>5. Agrees(ranges', blocks', brk')
  BY <1>2, <1>3, <1>4, AgreesGrown DEF IInv, TypeOK
<1>6. blocks' \in [Ids -> Blocks]
  BY <1>1, <1>3 DEF Blocks, None
<1>7. ranges' \in Seq(RangeSet)
  BY <1>5 DEF Agrees
<1>8. QED
  BY <1>3, <1>4, <1>5, <1>6, <1>7 DEF IInv, TypeOK, Blocks, MemType, RangeSet

THEOREM Invariant == Spec => []IInv
<1>1. Init => IInv
  <2> SUFFICES ASSUME Init PROVE IInv
    OBVIOUS
  <2>1. mem \in MemType
    BY DEF Init, MemType
  <2>2. <<>> \in Seq(RangeSet) /\ DOMAIN <<>> = {}
    BY EmptySeq
  <2>3. LiveOf(blocks) = {}
    BY DEF Init, LiveOf
  <2>4. Agrees(ranges, blocks, brk)
    BY <2>2, <2>3 DEF Init, Agrees, Once, Elements
  <2>5. blocks \in [Ids -> Blocks]
    BY DEF Init, Blocks, None
  <2>6. QED
    BY <2>1, <2>2, <2>4, <2>5, ValidatorAssumption DEF Init, IInv, TypeOK, Blocks, MemType, RangeSet
<1>2. IInv /\ [Next]_vars => IInv'
  <2> SUFFICES ASSUME IInv, [Next]_vars PROVE IInv'
    OBVIOUS
  <2>1. ASSUME NEW id \in Ids, NEW size \in Sizes, Alloc(id, size) PROVE IInv'
    BY <2>1, AllocStep
  <2>2. ASSUME NEW id \in Ids, NEW size \in Sizes, Realloc(id, size) PROVE IInv'
    BY <2>2, ReallocStep
  <2>3. ASSUME NEW id \in Ids, Free(id) PROVE IInv'
    BY <2>3, FreeStep
  <2>4. CASE UNCHANGED vars
    BY <2>4 DEF vars, IInv, TypeOK
  <2>5. QED
    BY <2>1, <2>2, <2>3, <2>4 DEF Next
<1>3. QED
  BY <1>1, <1>2, PTL DEF Spec

\* Every variable keeps its type, whatever the implementation answers
\* (eval_mm_valid, add_range, remove_range).
THEOREM TypeCorrect == Spec => []TypeOK
<1>1. IInv => TypeOK
  BY DEF IInv
<1>2. QED
  BY <1>1, Invariant, PTL

\* The range list is the list of the live payloads, without a double, after
\* any trace (add_range, remove_range).
THEOREM ListIsLive == Spec => []RangesAreLive
<1>1. IInv => RangesAreLive
  <2> SUFFICES ASSUME IInv, verdict = "running"
               PROVE  /\ {ranges[i] : i \in DOMAIN ranges} = {Record(blocks[id]) : id \in Live}
                      /\ \A id, other \in Live : blocks[id].ptr = blocks[other].ptr => id = other
                      /\ \A i, j \in DOMAIN ranges : ranges[i] = ranges[j] => i = j
    BY DEF RangesAreLive, Record
  <2>1. Agrees(ranges, blocks, brk) /\ Live = LiveOf(blocks)
    BY DEF IInv, Live, LiveOf
  <2>2. \A id, other \in Live : blocks[id].ptr = blocks[other].ptr => id = other
    BY <2>1, StartsDiffer DEF IInv, TypeOK
  <2>3. QED
    BY <2>1, <2>2 DEF Agrees, Elements, Once
<1>2. QED
  BY <1>1, Invariant, PTL

\* Soundness: an implementation that has not been rejected has handed out
\* payloads that are aligned, in the heap and apart, whatever else it did
\* (eval_mm_valid).
THEOREM Sound == Spec => []AcceptedAreApart
<1>1. IInv => AcceptedAreApart
  <2> SUFFICES ASSUME IInv, verdict = "running", NEW id \in Live
               PROVE  /\ blocks[id].ptr % R_ALIGNMENT = 0 /\ blocks[id].ptr + blocks[id].size <= brk
                      /\ \A other \in Live \ {id} : Extent(blocks[id]) \cap Extent(blocks[other]) = {}
    BY DEF AcceptedAreApart
  <2>1. Agrees(ranges, blocks, brk) /\ Live = LiveOf(blocks)
    BY DEF IInv, Live, LiveOf
  <2>2. \A i \in Live : Placed(blocks[i], brk)
    BY <2>1 DEF Agrees
  <2>3. ASSUME NEW other \in Live \ {id} PROVE Extent(blocks[id]) \cap Extent(blocks[other]) = {}
    <3>1. Apart(blocks[id], blocks[other])
      BY <2>1, <2>3 DEF Agrees
    <3>2. \A i \in Live : blocks[i].ptr \in Nat /\ blocks[i].size \in Nat
      BY <2>2, PlacedType
    <3>3. QED
      BY <3>1, <3>2 DEF Apart, Extent
  <2>4. QED
    BY <2>2, <2>3 DEF Placed
<1>2. QED
  BY <1>1, Invariant, PTL

-----------------------------------------------------------------------------
(* Completeness.  Every live payload of an implementation that keeps the   *)
(* contract holds the filling, and the next answer that keeps the contract *)
(* passes every test.                                                      *)

Filled == \A id \in Live : \A a \in Extent(blocks[id]) : mem[a] = "A"
HInv   == honest => verdict = "running" /\ Filled

LEMMA WellPlacedIsAcceptable ==
  ASSUME NEW list, NEW blk, NEW least, Agrees(list, blk, least),
         \A i \in LiveOf(blk) : blk[i] = blocks[i],
         NEW ptr \in Addrs \cup {NULL}, NEW size \in Sizes, NEW end \in 0..HeapEnd,
         WellPlaced(ptr, size, end, LiveOf(blk))
  PROVE  Acceptable(list, ptr, size, end)
<1>1. ptr \in Addrs /\ ptr \in Nat /\ size \in Nat /\ size > 0
  BY ValidatorAssumption DEF WellPlaced, Addrs
<1>2. ptr % R_ALIGNMENT = 0 /\ InExtent(ptr, ptr + size - 1, end)
  BY <1>1 DEF WellPlaced, InExtent
<1>3. ASSUME NEW i \in DOMAIN list PROVE ~Overlap(ptr, ptr + size - 1, list[i])
  <2>1. PICK id \in LiveOf(blk) : list[i] = Record(blk[id])
    BY DEF Agrees, Elements
  <2>2. Placed(blk[id], least) /\ blk[id] = blocks[id]
    BY DEF Agrees
  <2>3. /\ blk[id].ptr \in Nat /\ blk[id].size \in Nat /\ blk[id].size > 0
    BY <2>2, PlacedType
  <2>4. (ptr..(ptr + size - 1)) \cap (blk[id].ptr..(blk[id].ptr + blk[id].size - 1)) = {}
    BY <2>2 DEF WellPlaced, Extent
  <2>5. ptr \notin blk[id].ptr..(blk[id].ptr + blk[id].size - 1)
    BY <1>1, <2>4
  <2>6. blk[id].ptr \notin ptr..(ptr + size - 1)
    BY <2>3, <2>4
  <2>7. ptr + size - 1 < blk[id].ptr \/ blk[id].ptr + blk[id].size - 1 < ptr
    BY <1>1, <2>3, <2>5, <2>6
  <2>8. QED
    BY <2>1, <2>7 DEF Overlap, Record
<1>4. QED
  BY <1>1, <1>2, <1>3 DEF Acceptable

\* The bytes of a live payload are bytes of the heap.
LEMMA ExtentInHeap ==
  ASSUME IInv, verdict = "running", NEW id \in Live
  PROVE  /\ Extent(blocks[id]) \subseteq Addrs
         /\ blocks[id].ptr \in Nat /\ blocks[id].size \in Nat
<1>1. Placed(blocks[id], brk) /\ brk \in 0..HeapEnd
  BY DEF IInv, Agrees, Live, LiveOf, TypeOK
<1>2. blocks[id].ptr \in Nat /\ blocks[id].size \in Nat
  BY <1>1, PlacedType
<1>3. blocks[id].ptr + blocks[id].size <= HeapEnd
  BY <1>1, <1>2, ValidatorAssumption DEF Placed
<1>4. QED
  BY <1>2, <1>3, ValidatorAssumption DEF Extent, Addrs

LEMMA AllocHonest ==
  ASSUME IInv, HInv, NEW id \in Ids, NEW size \in Sizes, Alloc(id, size)
  PROVE  HInv'
<1> SUFFICES ASSUME honest' PROVE verdict' = "running" /\ Filled'
  BY DEF HInv
<1>1. PICK ans \in Answers :
        /\ honest' = (honest /\ WellPlaced(ans.ptr, size, ans.brk, Live) /\ Untouched(ans.mem, Live))
        /\ IF ans.ptr = NULL \/ ~Acceptable(ranges, ans.ptr, size, ans.brk)
           THEN Reject(ans.mem)
           ELSE LET b == [ptr |-> ans.ptr, size |-> size] IN
                /\ mem' = Fill(ans.mem, b)
                /\ blocks' = [blocks EXCEPT ![id] = b]
                /\ UNCHANGED verdict
  BY DEF Alloc
<1> DEFINE b == [ptr |-> ans.ptr, size |-> size]
<1>2. /\ verdict = "running" /\ id \notin Live /\ Live = LiveOf(blocks)
      /\ WellPlaced(ans.ptr, size, ans.brk, Live) /\ Untouched(ans.mem, Live) /\ Filled
  BY <1>1 DEF Alloc, HInv, Live, LiveOf
<1>3. ans.ptr # NULL /\ Acceptable(ranges, ans.ptr, size, ans.brk)
  <2>1. Agrees(ranges, blocks, brk)
    BY <1>2 DEF IInv
  <2>2. QED
    BY <1>2, <2>1, AnswerType, WellPlacedIsAcceptable DEF WellPlaced, IInv
<1>4. verdict' = "running" /\ mem' = Fill(ans.mem, b) /\ blocks' = [blocks EXCEPT ![id] = b]
  BY <1>1, <1>2, <1>3
<1>5. Live' \subseteq Live \cup {id} /\ blocks'[id] = b /\ \A i \in Live : blocks'[i] = blocks[i]
  BY <1>2, <1>4 DEF Live, IInv, TypeOK
<1>6. Extent(b) \subseteq Addrs
  <2>1. ans.ptr \in Addrs /\ ans.brk \in 0..HeapEnd /\ ans.ptr + size <= ans.brk
    BY <1>2, AnswerType DEF WellPlaced, IInv
  <2>2. size \in Nat
    BY ValidatorAssumption
  <2>3. QED
    BY <2>1, <2>2, ValidatorAssumption DEF Addrs, Extent
<1>7. ASSUME NEW i \in Live', NEW a \in Extent(blocks'[i]) PROVE mem'[a] = "A"
  <2>1. CASE i = id
    BY <1>4, <1>5, <1>6, <1>7, <2>1 DEF Fill
  <2>2. CASE i # id
    <3>1. i \in Live /\ a \in Extent(blocks[i]) /\ a \in Addrs
      BY <1>2, <1>5, <1>7, <2>2, ExtentInHeap
    <3>2. ans.mem[a] = "A"
      BY <1>2, <3>1 DEF Untouched, Filled
    <3>3. QED
      BY <1>4, <3>1, <3>2 DEF Fill
  <2>3. QED
    BY <2>1, <2>2
<1>8. QED
  BY <1>4, <1>7 DEF Filled

LEMMA ReallocHonest ==
  ASSUME IInv, HInv, NEW id \in Ids, NEW size \in Sizes, Realloc(id, size)
  PROVE  HInv'
<1> SUFFICES ASSUME honest' PROVE verdict' = "running" /\ Filled'
  BY DEF HInv
<1> DEFINE old      == blocks[id]
           others   == Live \ {id}
           list     == remove_range(ranges, old.ptr)
           new(ans) == [ptr |-> ans.ptr, size |-> size]
<1>1. PICK ans \in Answers, copies \in Copies, bottom_byte \in Residue :
        LET bytes == IF copies THEN Copied(old, ans, size) ELSE ans.mem IN
        /\ honest' = (honest /\ copies /\ WellPlaced(ans.ptr, size, ans.brk, others)
                             /\ Untouched(bytes, others) /\ bottom_byte = "A")
        /\ IF ans.ptr = NULL THEN Reject(bytes)
           ELSE IF ranges = <<>> THEN verdict' = "crashed" /\ UNCHANGED <<ranges, blocks, mem>>
           ELSE IF \/ ~Acceptable(list, ans.ptr, size, ans.brk)
                   \/ \E k \in 0..(Compared(old, size) - 1) : bytes[ans.ptr + k] # bottom_byte
           THEN Reject(bytes)
           ELSE /\ mem' = [a \in Addrs |-> IF a \in Extent(new(ans)) THEN bottom_byte ELSE bytes[a]]
                /\ blocks' = [blocks EXCEPT ![id] = new(ans)]
                /\ UNCHANGED verdict
  BY DEF Realloc
<1> DEFINE bytes == Copied(old, ans, size)
<1>2. /\ honest /\ copies /\ bottom_byte = "A"
      /\ WellPlaced(ans.ptr, size, ans.brk, others) /\ Untouched(bytes, others)
  BY <1>1
<1>3. /\ verdict = "running" /\ id \in Live /\ Live = LiveOf(blocks) /\ Filled
      /\ blocks \in [Ids -> Blocks] /\ Agrees(ranges, blocks, brk) /\ brk \in 0..HeapEnd
  BY <1>2 DEF Realloc, HInv, Live, LiveOf, IInv, TypeOK, Blocks
<1>4. /\ ans.ptr \in Addrs \cup {NULL} /\ ans.ptr # NULL /\ ans.ptr \in Nat
      /\ ans.brk \in 0..HeapEnd /\ ans.ptr + size <= ans.brk
      /\ size \in Nat
  BY <1>2, AnswerType, ValidatorAssumption DEF WellPlaced, Addrs, IInv
<1>5. Acceptable(list, ans.ptr, size, ans.brk) /\ ranges # <<>>
  <2> DEFINE without == [blocks EXCEPT ![id] = None]
  <2>1. ranges # <<>> /\ Agrees(list, without, brk)
    BY <1>3, AgreesRemove
  <2>2. LiveOf(without) = others /\ \A i \in LiveOf(without) : without[i] = blocks[i]
    BY <1>3 DEF LiveOf
  <2>3. WellPlaced(ans.ptr, size, ans.brk, LiveOf(without))
    BY <1>2, <2>2
  <2> HIDE DEF without, list
  <2>4. QED
    BY <1>4, <2>1, <2>2, <2>3, WellPlacedIsAcceptable
<1>6. /\ old.ptr \in Nat /\ old.size \in Nat /\ Extent(old) \subseteq Addrs
      /\ \A a \in Extent(old) : mem[a] = "A"
  BY <1>3, ExtentInHeap DEF Filled
<1>7. Extent(new(ans)) \subseteq Addrs
  BY <1>4, ValidatorAssumption DEF Extent, Addrs
<1>8. ASSUME NEW k \in 0..(Compared(old, size) - 1) PROVE bytes[ans.ptr + k] = "A"
  <2>1. k \in Nat /\ k < size /\ k < old.size
    BY <1>4, <1>6 DEF Compared
  <2>2. ans.ptr + k \in Addrs
    BY <1>4, <2>1, ValidatorAssumption DEF Addrs
  <2>3. (ans.ptr + k) - ans.ptr = k
    BY <1>4, <2>1
  <2>4. bytes[ans.ptr + k] = mem[old.ptr + k]
    BY <2>1, <2>2, <2>3 DEF Copied
  <2>5. old.ptr + k \in Extent(old)
    BY <1>6, <2>1 DEF Extent
  <2>6. QED
    BY <1>6, <2>4, <2>5
<1> HIDE DEF bytes, list
<1>9. /\ mem' = [a \in Addrs |-> IF a \in Extent(new(ans)) THEN bottom_byte ELSE bytes[a]]
      /\ blocks' = [blocks EXCEPT ![id] = new(ans)]
      /\ verdict' = "running"
  BY <1>1, <1>2, <1>3, <1>4, <1>5, <1>8 DEF bytes
<1>10. Live' \subseteq others \cup {id} /\ blocks'[id] = new(ans) /\ \A i \in others : blocks'[i] = blocks[i]
  BY <1>3, <1>9 DEF Live
<1>11. ASSUME NEW i \in Live', NEW a \in Extent(blocks'[i]) PROVE mem'[a] = "A"
  <2>1. CASE i = id
    BY <1>2, <1>7, <1>9, <1>10, <1>11, <2>1
  <2>2. CASE i # id
    <3>1. i \in others /\ a \in Extent(blocks[i]) /\ a \in Addrs
      BY <1>3, <1>10, <1>11, <2>2, ExtentInHeap
    <3>2. bytes[a] = "A"
      BY <1>2, <1>3, <3>1 DEF Untouched, Filled
    <3>3. QED
      BY <1>2, <1>9, <3>1, <3>2
  <2>3. QED
    BY <2>1, <2>2
<1>12. QED
  BY <1>9, <1>11 DEF Filled

LEMMA FreeHonest ==
  ASSUME IInv, HInv, NEW id \in Ids, Free(id)
  PROVE  HInv'
<1> SUFFICES ASSUME honest' PROVE verdict' = "running" /\ Filled'
  BY DEF HInv
<1>1. verdict = "running" /\ id \in Live /\ blocks \in [Ids -> Blocks] /\ Agrees(ranges, blocks, brk)
  BY DEF Free, IInv, TypeOK, Blocks
<1>2. ranges # <<>>
  BY <1>1, AgreesRemove DEF IInv, TypeOK, Live, LiveOf
<1>3. PICK ans \in Answers :
        /\ blocks' = [blocks EXCEPT ![id] = None] /\ mem' = ans.mem
        /\ honest' = (honest /\ Untouched(ans.mem, Live \ {id})) /\ UNCHANGED verdict
  BY <1>2 DEF Free
<1>4. Filled /\ Untouched(ans.mem, Live \ {id})
  BY <1>3 DEF HInv
<1>5. Live' \subseteq Live \ {id} /\ \A i \in Live \ {id} : blocks'[i] = blocks[i]
  BY <1>1, <1>3 DEF Live, None
<1>6. ASSUME NEW i \in Live', NEW a \in Extent(blocks'[i]) PROVE mem'[a] = "A"
  BY <1>3, <1>4, <1>5, <1>6 DEF Untouched, Filled
<1>7. QED
  BY <1>1, <1>3, <1>6 DEF Filled

\* Completeness: an implementation that keeps the contract of malloc is never
\* rejected, on any trace, as long as the byte the validator compares with is
\* the one it has filled the payloads with.  That is what the code takes for
\* granted at validator.h:212, where nothing was assigned to it.
THEOREM Complete == Spec => []HonestNeverRejected
<1>1. Init => HInv
  BY DEF Init, HInv, Filled, Live
<1>2. IInv /\ HInv /\ [Next]_vars => HInv'
  <2> SUFFICES ASSUME IInv, HInv, [Next]_vars PROVE HInv'
    OBVIOUS
  <2>1. ASSUME NEW id \in Ids, NEW size \in Sizes, Alloc(id, size) PROVE HInv'
    BY <2>1, AllocHonest
  <2>2. ASSUME NEW id \in Ids, NEW size \in Sizes, Realloc(id, size) PROVE HInv'
    BY <2>2, ReallocHonest
  <2>3. ASSUME NEW id \in Ids, Free(id) PROVE HInv'
    BY <2>3, FreeHonest
  <2>4. CASE UNCHANGED vars
    BY <2>4 DEF vars, HInv, Filled, Live
  <2>5. QED
    BY <2>1, <2>2, <2>3, <2>4 DEF Next
<1>3. HInv => HonestNeverRejected
  BY DEF HInv, HonestNeverRejected
<1>4. QED
  BY <1>1, <1>2, <1>3, Invariant, PTL DEF Spec
=============================================================================
